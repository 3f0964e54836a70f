---------------------------- MODULE AudioProofs ----------------------------
(***************************************************************************)
(* Sound both ways, and the provider that loads it.  First Audio, for any  *)
(* number of devices: SinkIsTold and ClaimIsLive are kept by the callbacks *)
(* alone; that the order of creation tells the transport rests on the      *)
(* count never being zero when the dynamic channel is created, and on      *)
(* device numbers not coming back.  Then Mic, for any formats, lists and   *)
(* number of channels, and AddinProvider, for any number of sessions.      *)
(***************************************************************************)
EXTENDS Audio, Mic, AddinProvider, FiniteSetTheorems, SequenceTheorems, TLAPS

USE DEF NoDevice

(* What each callback makes of a bridge is a bridge. *)
LEMMA CallbackTypes ==
  ASSUME NEW b \in Bridge, NEW d \in Device \cup {NoDevice}, NEW fits \in BOOLEAN
  PROVE  /\ Close(b, d) \in Bridge
         /\ Free(b, d) \in Bridge
         /\ d # NoDevice => Open(b, d, fits) \in Bridge
         /\ d # NoDevice => Play(b, d) \in Bridge
  BY DEF Bridge, Close, Free, Open, Play

(* No callback leaves a claim with a sink that was told "closed". *)
Told(b) == b.claim # NoDevice => b.told = "opened"

LEMMA CallbacksTell ==
  ASSUME NEW b \in Bridge, NEW d \in Device \cup {NoDevice}, NEW fits \in BOOLEAN,
         Told(b)
  PROVE  /\ Told(Close(b, d))
         /\ Told(Free(b, d))
         /\ Told(Open(b, d, fits))
         /\ Told(Play(b, d))
  BY DEF Bridge, Close, Free, Open, Play, Told

(* The claim moves to the device a callback was made on, or to none. *)
LEMMA CallbacksClaim ==
  ASSUME NEW b \in Bridge, NEW d \in Device \cup {NoDevice}, NEW fits \in BOOLEAN
  PROVE  /\ Close(b, d).claim \in {b.claim, NoDevice}
         /\ Free(b, d).claim \in {b.claim, NoDevice}
         /\ Free(b, d).claim = d => d = NoDevice
         /\ Open(b, d, fits).claim \in {b.claim, d, NoDevice}
         /\ Play(b, d).claim \in {b.claim, d}
  BY DEF Bridge, Close, Free, Open, Play

-----------------------------------------------------------------------------
(* The inductive invariant: at least the device of the static channel has  *)
(* been counted. *)
IInv == /\ TypeOK
        /\ seen >= 1
        /\ SinkIsTold
        /\ ClaimIsLive
        /\ TransportIsKnown

LEMMA InitIInv == Init => IInv
<1> SUFFICES ASSUME Init PROVE IInv
  OBVIOUS
<1>1. device["static"] = 1 /\ device["dynamic"] = NoDevice
  BY DEF Init, Transport
<1>2. bridge \in Bridge /\ bridge.claim = NoDevice
  BY DEF Init, Bridge
<1>3. /\ device \in [Transport -> 0 .. minted]
      /\ isOpen \in [Transport -> BOOLEAN] /\ suits \in [Transport -> BOOLEAN]
      /\ wave \in Wave
  BY DEF Init, Wave, Transport
<1>4. minted \in 0 .. MaxDevice /\ seen \in 0 .. minted /\ seen >= 1
  BY AudioAssumption DEF Init
<1>5. TypeOK
  BY <1>2, <1>3, <1>4 DEF Init, TypeOK
<1>6. TransportIsKnown
  BY <1>1 DEF Init, TransportIsKnown, Transport
<1> QED BY <1>2, <1>4, <1>5, <1>6 DEF IInv, SinkIsTold, ClaimIsLive

(* The wave handler of rdpsnd, as what it makes of the bridge. *)
LEMMA WaveKeepsBridge ==
  ASSUME IInv, NEW t \in Transport, NEW fits \in BOOLEAN, ServerWave(t, fits)
  PROVE  /\ bridge' \in Bridge
         /\ Told(bridge')
         /\ bridge'.claim \in {bridge.claim, device[t], NoDevice}
<1> DEFINE d == device[t]
           c == Close(bridge, d)
           o == IF isOpen[t] /\ suits[t] = fits THEN bridge ELSE Open(c, d, fits)
<1>1. d \in Device /\ d # NoDevice
  BY AudioAssumption DEF IInv, TypeOK, Device, ServerWave
<1>2. bridge \in Bridge /\ Told(bridge)
  BY DEF IInv, TypeOK, SinkIsTold, Told
<1>3. c \in Bridge /\ Told(c) /\ c.claim \in {bridge.claim, NoDevice}
  <2>1. c \in Bridge
    BY <1>1, <1>2, CallbackTypes
  <2>2. Told(c) /\ c.claim \in {bridge.claim, NoDevice}
    BY <1>1, <1>2, CallbacksTell, CallbacksClaim
  <2> QED BY <2>1, <2>2
<1>4. o \in Bridge /\ Told(o) /\ o.claim \in {bridge.claim, d, NoDevice}
  <2>1. Open(c, d, fits) \in Bridge
    BY <1>1, <1>3, CallbackTypes
  <2>2. Told(Open(c, d, fits)) /\ Open(c, d, fits).claim \in {c.claim, d, NoDevice}
    BY <1>1, <1>3, CallbacksTell, CallbacksClaim
  <2> QED BY <1>2, <1>3, <2>1, <2>2
<1>5. Play(o, d) \in Bridge /\ Told(Play(o, d)) /\ Play(o, d).claim \in {o.claim, d}
  BY <1>1, <1>4, CallbackTypes, CallbacksTell, CallbacksClaim
<1>6. bridge' = Play(o, d)
  BY DEF ServerWave
<1> QED BY <1>4, <1>5, <1>6

-----------------------------------------------------------------------------
LEMMA NextIInv == IInv /\ [Next]_vars => IInv'
<1> SUFFICES ASSUME IInv, [Next]_vars PROVE IInv'
  OBVIOUS
<1> USE AudioAssumption DEF Device, Transport, mint, rdpsnd
<1>1. ASSUME NEW t \in Transport, ServerFormatAnnounce(t) PROVE IInv'
  BY <1>1 DEF ServerFormatAnnounce, IInv, TypeOK, SinkIsTold, ClaimIsLive,
              TransportIsKnown
<1>2. ASSUME NEW t \in Transport, NEW fits \in BOOLEAN, ServerWave(t, fits)
      PROVE IInv'
  <2>1. /\ bridge' \in Bridge
        /\ Told(bridge')
        /\ bridge'.claim \in {bridge.claim, device[t], NoDevice}
    BY <1>2, WaveKeepsBridge
  <2>2. UNCHANGED <<mark, seen, minted, flagged, device>>
    BY <1>2 DEF ServerWave
  <2>3. /\ isOpen' \in [Transport -> BOOLEAN] /\ suits' \in [Transport -> BOOLEAN]
        /\ drove' \subseteq Transport /\ wave' \in Wave
    BY <1>2 DEF ServerWave, IInv, TypeOK, Wave
  <2>4. TypeOK'
    BY <2>1, <2>2, <2>3 DEF IInv, TypeOK
  <2>5. ClaimIsLive'
    BY <2>1, <2>2 DEF IInv, ClaimIsLive
  <2>6. SinkIsTold' /\ seen' >= 1 /\ TransportIsKnown'
    BY <2>1, <2>2 DEF IInv, Told, SinkIsTold, TransportIsKnown
  <2> QED BY <2>4, <2>5, <2>6 DEF IInv
<1>3. ASSUME NEW t \in Transport, ServerClose(t) PROVE IInv'
  <2>1. device[t] \in Device \cup {NoDevice} /\ bridge \in Bridge /\ Told(bridge)
    BY DEF IInv, TypeOK, SinkIsTold, Told
  <2>2. /\ bridge' \in Bridge /\ Told(bridge')
        /\ bridge'.claim \in {bridge.claim, NoDevice}
    BY <1>3, <2>1, CallbackTypes, CallbacksTell, CallbacksClaim DEF ServerClose
  <2>3. TypeOK'
    BY <1>3, <2>2 DEF ServerClose, IInv, TypeOK
  <2>4. seen' >= 1 /\ SinkIsTold' /\ ClaimIsLive' /\ TransportIsKnown'
    BY <1>3, <2>2 DEF ServerClose, IInv, Told, SinkIsTold, ClaimIsLive,
                      TransportIsKnown
  <2> QED BY <2>3, <2>4 DEF IInv
<1>4. ASSUME CreateDynamic PROVE IInv'
  <2>1. minted' = minted + 1 /\ seen' = seen + 1 /\ flagged' = flagged \cup {minted'}
    BY <1>4 DEF CreateDynamic, Mint, IInv, TypeOK
  <2>2. TypeOK'
    BY <1>4, <2>1 DEF CreateDynamic, Mint, IInv, TypeOK
  <2>3. device["static"] # minted'
    BY <2>1 DEF IInv, TypeOK
  <2>4. seen' >= 1 /\ SinkIsTold'
    BY <1>4, <2>1 DEF CreateDynamic, IInv, TypeOK, SinkIsTold
  <2>5. ClaimIsLive' /\ TransportIsKnown'
    BY <1>4, <2>1, <2>3 DEF CreateDynamic, IInv, TypeOK, ClaimIsLive,
                            TransportIsKnown
  <2> QED BY <2>2, <2>4, <2>5 DEF IInv
<1>5. ASSUME CloseDynamic PROVE IInv'
  <2> DEFINE d == device["dynamic"]
  <2>1. d \in Device \cup {NoDevice} /\ bridge \in Bridge /\ Told(bridge)
    BY DEF IInv, TypeOK, SinkIsTold, Told
  <2>2. /\ bridge' \in Bridge /\ Told(bridge')
        /\ bridge'.claim \in {bridge.claim, NoDevice}
        /\ bridge'.claim = d => d = NoDevice
    BY <1>5, <2>1, CallbackTypes, CallbacksTell, CallbacksClaim DEF CloseDynamic
  <2>3. TypeOK'
    BY <1>5, <2>2 DEF CloseDynamic, IInv, TypeOK
  <2>4. seen' >= 1 /\ SinkIsTold' /\ ClaimIsLive' /\ TransportIsKnown'
    BY <1>5, <2>2 DEF CloseDynamic, IInv, TypeOK, Told, SinkIsTold, ClaimIsLive,
                      TransportIsKnown
  <2> QED BY <2>3, <2>4 DEF IInv
<1>6. ASSUME Reconnect PROVE IInv'
  <2> DEFINE d == device["dynamic"]
             s == device["static"]
             f == Free(bridge, d)
  <2>1. /\ d \in Device \cup {NoDevice} /\ s \in Device \cup {NoDevice}
        /\ bridge \in Bridge /\ Told(bridge)
    BY DEF IInv, TypeOK, SinkIsTold, Told
  <2>2. /\ f \in Bridge /\ Told(f) /\ f.claim \in {bridge.claim, NoDevice}
        /\ f.claim = d => d = NoDevice
    BY <2>1, CallbackTypes, CallbacksTell, CallbacksClaim
  <2>3. bridge' = Free(f, s)
    BY <1>6 DEF Reconnect
  <2>4. /\ bridge' \in Bridge /\ Told(bridge')
        /\ bridge'.claim \in {f.claim, NoDevice}
        /\ bridge'.claim = s => s = NoDevice
    BY <2>1, <2>2, <2>3, CallbackTypes, CallbacksTell, CallbacksClaim
  <2>5. bridge'.claim = NoDevice
    BY <2>2, <2>4 DEF IInv, ClaimIsLive
  <2>6. minted' = minted + 1 /\ seen' = 1 /\ flagged' = flagged
    BY <1>6 DEF Reconnect, Mint, CountAfresh
  <2>7. TypeOK'
    BY <1>6, <2>4, <2>6 DEF Reconnect, Mint, IInv, TypeOK
  <2>8. TransportIsKnown'
    BY <1>6, <2>6 DEF Reconnect, IInv, TypeOK, TransportIsKnown
  <2>9. seen' >= 1 /\ SinkIsTold' /\ ClaimIsLive'
    BY <2>5, <2>6 DEF SinkIsTold, ClaimIsLive
  <2> QED BY <2>7, <2>8, <2>9 DEF IInv
<1>7. CASE UNCHANGED vars
  BY <1>7 DEF vars, IInv, TypeOK, SinkIsTold, ClaimIsLive, TransportIsKnown
<1> QED BY <1>1, <1>2, <1>3, <1>4, <1>5, <1>6, <1>7 DEF Next

-----------------------------------------------------------------------------
LEMMA AlwaysIInv == Spec => []IInv
  BY InitIInv, NextIInv, PTL DEF Spec

(* The bridge, the devices and both transports keep their types.           *)
THEOREM AudioTypes == Spec => []TypeOK
<1>1. IInv => TypeOK
  BY DEF IInv
<1> QED BY <1>1, AlwaysIInv, PTL

(* Whoever holds the claim, the sink was told "opened" last. *)
THEOREM SinkKnows == Spec => []SinkIsTold
<1>1. IInv => SinkIsTold
  BY DEF IInv
<1> QED BY <1>1, AlwaysIInv, PTL

(* The claim is never that of a device that was freed. *)
THEOREM ClaimNeverDangles == Spec => []ClaimIsLive
<1>1. IInv => ClaimIsLive
  BY DEF IInv
<1> QED BY <1>1, AlwaysIInv, PTL

(* The order of creation tells the transport, through any number of        *)
(* reloads and reconnects. *)
THEOREM OrderTellsTransport == Spec => []TransportIsKnown
<1>1. IInv => TransportIsKnown
  BY DEF IInv
<1> QED BY <1>1, AlwaysIInv, PTL
-----------------------------------------------------------------------------
(* A claim is that of a transport the server has sent sound on since the   *)
(* session connected: nothing else claims, and a device that goes gives up *)
(* its claim. *)
ClaimWasDriven ==
  bridge.claim # NoDevice => \E t \in drove : device[t] = bridge.claim

LEMMA DrivenStep == IInv /\ ClaimWasDriven /\ [Next]_vars => ClaimWasDriven'
<1> SUFFICES ASSUME IInv, ClaimWasDriven, [Next]_vars PROVE ClaimWasDriven'
  OBVIOUS
<1> USE DEF mint, rdpsnd
<1>0. /\ bridge \in Bridge /\ Told(bridge) /\ drove \subseteq Transport
      /\ \A t \in Transport : device[t] \in Device \cup {NoDevice}
  <2>1. /\ bridge \in Bridge /\ Told(bridge) /\ drove \subseteq Transport
        /\ minted \in 0 .. MaxDevice /\ device \in [Transport -> 0 .. minted]
    BY DEF IInv, TypeOK, SinkIsTold, Told
  <2>2. \A t \in Transport : device[t] \in Device \cup {NoDevice}
    BY <2>1, AudioAssumption DEF Device
  <2> QED  BY <2>1, <2>2
<1>1. ASSUME NEW t \in Transport, ServerFormatAnnounce(t) PROVE ClaimWasDriven'
  BY <1>1 DEF ServerFormatAnnounce, ClaimWasDriven
<1>2. ASSUME NEW t \in Transport, NEW fits \in BOOLEAN, ServerWave(t, fits)
      PROVE ClaimWasDriven'
  <2>1. bridge'.claim \in {bridge.claim, device[t], NoDevice}
    BY <1>2, WaveKeepsBridge
  <2>2. device' = device /\ drove' = drove \cup {t}
    BY <1>2 DEF ServerWave
  <2> QED  BY <2>1, <2>2 DEF ClaimWasDriven
<1>3. ASSUME NEW t \in Transport, ServerClose(t) PROVE ClaimWasDriven'
  <2>1. bridge'.claim \in {bridge.claim, NoDevice}
    BY <1>0, <1>3, CallbacksClaim DEF ServerClose
  <2> QED  BY <1>3, <2>1 DEF ServerClose, ClaimWasDriven
<1>4. CASE CreateDynamic
  <2>1. /\ bridge' = bridge /\ drove' = drove /\ device["dynamic"] = NoDevice
        /\ \A t \in Transport : t # "dynamic" => device'[t] = device[t]
    BY <1>4 DEF CreateDynamic, IInv, TypeOK
  <2> QED  BY <1>0, <2>1 DEF ClaimWasDriven
<1>5. CASE CloseDynamic
  <2> DEFINE d == device["dynamic"]
  <2>1. d \in Device \cup {NoDevice} /\ bridge' = Free(bridge, d) /\ d # NoDevice
    BY <1>0, <1>5 DEF CloseDynamic, Transport
  <2>2. bridge'.claim \in {bridge.claim, NoDevice} /\ bridge'.claim # d
    BY <1>0, <2>1, CallbacksClaim
  <2>3. /\ drove' = drove
        /\ \A t \in Transport : t # "dynamic" => device'[t] = device[t]
    BY <1>5 DEF CloseDynamic, IInv, TypeOK
  <2> QED  BY <1>0, <2>2, <2>3 DEF ClaimWasDriven
<1>6. CASE Reconnect
  <2> DEFINE d == device["dynamic"]
             s == device["static"]
             f == Free(bridge, d)
  <2>1. d \in Device \cup {NoDevice} /\ s \in Device \cup {NoDevice}
    BY <1>0 DEF Transport
  <2>2. /\ f \in Bridge /\ Told(f) /\ f.claim \in {bridge.claim, NoDevice}
        /\ f.claim = d => d = NoDevice
    BY <1>0, <2>1, CallbackTypes, CallbacksTell, CallbacksClaim
  <2>3. bridge' = Free(f, s)
    BY <1>6 DEF Reconnect
  <2>4. bridge'.claim \in {f.claim, NoDevice} /\ (bridge'.claim = s => s = NoDevice)
    BY <2>1, <2>2, <2>3, CallbacksClaim
  <2>5. bridge.claim \in {d, s, NoDevice}
    BY DEF IInv, ClaimIsLive, Transport
  <2> QED  BY <2>2, <2>4, <2>5 DEF ClaimWasDriven
<1>7. CASE UNCHANGED vars
  BY <1>7 DEF vars, ClaimWasDriven
<1> QED  BY <1>1, <1>2, <1>3, <1>4, <1>5, <1>6, <1>7 DEF Next

(* A wave that suits, on the only transport so far, is heard. *)
LEMMA SoleWaveIsHeard ==
  ASSUME IInv, ClaimWasDriven, NEW t \in Transport, ServerWave(t, TRUE), drove' = {t}
  PROVE  wave'.heard
<1> DEFINE d == device[t]
           c == Close(bridge, d)
           o == Open(c, d, TRUE)
<1>1. bridge \in Bridge /\ drove \subseteq {t} /\ d # NoDevice
  BY DEF ServerWave, IInv, TypeOK
<1>2. bridge.claim \in {d, NoDevice}
  BY <1>1 DEF ClaimWasDriven
<1>3. o.claim = d
  BY <1>1, <1>2 DEF Bridge, Open, Close
<1>4. Play(bridge, d).claim = d /\ Play(o, d).claim = d
  BY <1>1, <1>2, <1>3 DEF Bridge, Play
<1>5. bridge' \in {Play(bridge, d), Play(o, d)} /\ wave'.heard = (bridge'.claim = d)
  BY DEF ServerWave
<1> QED  BY <1>4, <1>5

(* As long as the server keeps to one transport, every wave of it in the   *)
(* format asked for is heard, through any number of closes, reloads and    *)
(* reconnects. *)
THEOREM SoleTransportHeard == Spec => SoleTransportIsHeard
<1>1. Init => ClaimWasDriven
  BY DEF Init, ClaimWasDriven
<1>2. IInv /\ ClaimWasDriven /\ [Next]_vars
        => [drove' = {wave'.on} /\ wave'.suits /\ (wave' # wave \/ drove' # drove)
              => wave'.heard]_vars
  <2> SUFFICES ASSUME IInv, ClaimWasDriven, Next,
                      drove' = {wave'.on}, wave'.suits, wave' # wave \/ drove' # drove
               PROVE  wave'.heard
    OBVIOUS
  <2>1. PICK t \in Transport, fits \in BOOLEAN : ServerWave(t, fits)
    BY DEF Next, ServerFormatAnnounce, ServerClose, CreateDynamic, CloseDynamic, Reconnect
  <2>2. wave'.on = t /\ wave'.suits = fits
    BY <2>1 DEF ServerWave
  <2> QED  BY <2>1, <2>2, SoleWaveIsHeard
<1> QED  BY <1>1, <1>2, AlwaysIInv, DrivenStep, PTL DEF Spec, SoleTransportIsHeard

-----------------------------------------------------------------------------
(* The microphone.  What the embedder was told, or is about to be, is what *)
(* is open. *)
TellsOpen == IF Idle THEN told = open ELSE Head(emit) = open

(* A channel that is gone leaves no stream, and the host without a list;   *)
(* on one that is open the host has the list it was sent, or none yet, and *)
(* reads in the format that is open. *)
GoneIsSilent ==
  channel = "none" => open = Silence /\ reads = Silence /\ list = <<>>

ListIsOurs == channel = "open" => list = formats \/ list = <<>>

HostFollows == ~ unlisted /\ channel = "open" => reads = open

(* Before any termination the formats that are kept are the host's list,   *)
(* and no channel leaves any. *)
NothingIsLeft == ~ terminated => /\ channel = "open" => list = formats
                                 /\ channel = "none" => formats = <<>>

MicInv == /\ MicTypeOK /\ TellsOpen
          /\ GoneIsSilent /\ ListIsOurs /\ HostFollows /\ NothingIsLeft
          /\ HostHearsRight /\ UnlistedOnlyAfterTermination

(* The accepted ones of an offer are a sequence of accepted formats. *)
LEMMA KeepsAccepted ==
  ASSUME NEW offer \in Offer,
         NEW at \in InOrder({i \in DOMAIN offer : offer[i] \in Accepted})
  PROVE  [k \in DOMAIN at |-> offer[at[k]]] \in Seq(Accepted)
<1> DEFINE S == {i \in DOMAIN offer : offer[i] \in Accepted}
<1>1. PICK n \in Nat : offer \in [1 .. n -> Format]
  BY MicAssumption DEF Offer, MicAssumption
<1>2. IsFiniteSet(S)
  <2>1. IsFiniteSet(1 .. n)
    BY FS_Interval
  <2>2. S \subseteq 1 .. n
    BY <1>1
  <2> QED  BY <2>1, <2>2, FS_Subset
<1>3. Cardinality(S) \in Nat
  BY <1>2, FS_CardinalityType
<1>4. at \in [1 .. Cardinality(S) -> S]
  BY DEF InOrder
<1>5. \A k \in 1 .. Cardinality(S) : offer[at[k]] \in Accepted
  BY <1>4
<1> HIDE DEF S
<1> QED  BY <1>3, <1>4, <1>5, SeqDef

LEMMA MicTypesStep ==
  MicTypeOK /\ [MicNext]_micvars
    => MicTypeOK'
<1> SUFFICES ASSUME MicTypeOK, [MicNext]_micvars
             PROVE  MicTypeOK'
  OBVIOUS
<1> USE DEF mic, host
<1>1. CASE OpenChannel
  BY <1>1 DEF OpenChannel, MicTypeOK
<1>2. ASSUME NEW offer \in Offer, Formats(offer) PROVE MicTypeOK'
  <2>1. formats' \in Seq(Accepted)
    BY <1>2, KeepsAccepted DEF Formats
  <2>2. list' \in Seq(Accepted)
    BY <1>2, <2>1 DEF Formats, MicTypeOK
  <2> QED  BY <1>2, <2>1, <2>2 DEF Formats, MicTypeOK
<1>3. ASSUME NEW i \in 1 .. MaxFormats, Choose(i) PROVE MicTypeOK'
  <2>1. formats[i] \in Stream
    BY <1>3, ElementOfSeq, LenProperties DEF Choose, MicTypeOK, Stream
  <2>2. i \in DOMAIN list => list[i] \in Stream
    BY ElementOfSeq, LenProperties DEF MicTypeOK, Stream
  <2>3. emit' \in Seq(Stream) /\ Len(emit') <= 1
    BY <1>3, <2>1 DEF Choose
  <2>4. reads' \in Stream /\ unlisted' \in BOOLEAN
    BY <1>3, <2>2 DEF Choose, MicTypeOK
  <2> QED  BY <1>3, <2>1, <2>3, <2>4 DEF Choose, MicTypeOK
<1>4. ASSUME NEW i \in 1 .. MaxFormats, Decline(i) PROVE MicTypeOK'
  BY <1>4 DEF Decline, MicTypeOK, micvars
<1>5. CASE CloseChannel
  <2>1. open' \in Stream /\ reads' \in Stream
    BY <1>5 DEF CloseChannel, Stop, HostForgets, Stream
  <2>2. emit' \in Seq(Stream) /\ Len(emit') <= 1
    <3>1. CASE open # Silence
      BY <1>5, <3>1 DEF CloseChannel, Stop, Stream
    <3>2. CASE open = Silence
      <4>1. emit' = <<>>
        BY <1>5, <3>2 DEF CloseChannel, Stop
      <4> QED  BY <4>1, EmptySeq
    <3> QED  BY <3>1, <3>2
  <2>3. list' \in Seq(Accepted) /\ formats' \in Seq(Accepted)
    BY <1>5, EmptySeq DEF CloseChannel, HostForgets, MicTypeOK
  <2>4. channel' = "none" /\ UNCHANGED <<told, unlisted, buffer>> /\ terminated' \in BOOLEAN
    BY <1>5 DEF CloseChannel, MicTypeOK
  <2> QED  BY <2>1, <2>2, <2>3, <2>4 DEF MicTypeOK
<1>6. CASE Terminate
  <2>1. open' \in Stream /\ reads' \in Stream
    BY <1>6 DEF Terminate, Stop, HostForgets, Stream
  <2>2. emit' \in Seq(Stream) /\ Len(emit') <= 1
    <3>1. CASE open # Silence
      BY <1>6, <3>1 DEF Terminate, Stop, Stream
    <3>2. CASE open = Silence
      <4>1. emit' = <<>>
        BY <1>6, <3>2 DEF Terminate, Stop
      <4> QED  BY <4>1, EmptySeq
    <3> QED  BY <3>1, <3>2
  <2>3. list' \in Seq(Accepted) /\ formats' \in Seq(Accepted)
    BY <1>6, EmptySeq DEF Terminate, HostForgets, MicTypeOK
  <2>4. channel' = "none" /\ UNCHANGED <<told, unlisted, buffer>> /\ terminated' \in BOOLEAN
    BY <1>6 DEF Terminate, MicTypeOK
  <2> QED  BY <2>1, <2>2, <2>3, <2>4 DEF MicTypeOK
<1>7. CASE Refuse
  BY <1>7 DEF Refuse, MicTypeOK
<1>8. CASE Emit
  <2>1. told' \in Stream /\ emit' \in Seq(Stream) /\ Len(emit') <= 1
    BY <1>8 DEF Emit, Idle, MicTypeOK
  <2> QED  BY <1>8, <2>1 DEF Emit, MicTypeOK
<1>9. CASE Sample
  <2>1. buffer' \in [as : Stream, read : Stream, crossing : BOOLEAN]
    BY <1>9 DEF Sample, Idle, MicTypeOK
  <2> QED  BY <1>9, <2>1 DEF Sample, MicTypeOK
<1>10. CASE UNCHANGED micvars
  BY <1>10 DEF micvars, MicTypeOK
<1> QED
  BY <1>1, <1>2, <1>3, <1>4, <1>5, <1>6, <1>7, <1>8, <1>9, <1>10
  DEF MicNext

LEMMA TellsStep ==
  TellsOpen /\ MicTypeOK /\ [MicNext]_micvars
    => TellsOpen'
<1> SUFFICES ASSUME TellsOpen, MicTypeOK, [MicNext]_micvars
             PROVE  TellsOpen'
  OBVIOUS
<1> USE DEF mic, host
<1>1. CASE OpenChannel
  BY <1>1 DEF OpenChannel, TellsOpen, Idle
<1>2. ASSUME NEW offer \in Offer, Formats(offer) PROVE TellsOpen'
  BY <1>2 DEF Formats, TellsOpen, Idle, Receiving
<1>3. ASSUME NEW i \in 1 .. MaxFormats, Choose(i) PROVE TellsOpen'
  BY <1>3 DEF Choose, TellsOpen, Idle, Receiving
<1>4. ASSUME NEW i \in 1 .. MaxFormats, Decline(i) PROVE TellsOpen'
  BY <1>4 DEF Decline, TellsOpen, Idle, micvars
<1>5. CASE CloseChannel
  BY <1>5 DEF CloseChannel, TellsOpen, Idle, Stop, HostForgets, Receiving
<1>6. CASE Terminate
  BY <1>6 DEF Terminate, TellsOpen, Idle, Stop, HostForgets
<1>7. CASE Refuse
  BY <1>7 DEF Refuse, TellsOpen, Idle
<1>8. CASE Emit
  <2>1. Head(emit) = open /\ told' = Head(emit) /\ emit' = <<>> /\ open' = open
    BY <1>8 DEF Emit, TellsOpen
  <2> QED  BY <2>1 DEF TellsOpen, Idle
<1>9. CASE Sample
  BY <1>9 DEF Sample, TellsOpen, Idle
<1>10. CASE UNCHANGED micvars
  BY <1>10 DEF micvars, TellsOpen, Idle
<1> QED
  BY <1>1, <1>2, <1>3, <1>4, <1>5, <1>6, <1>7, <1>8, <1>9, <1>10
  DEF MicNext

LEMMA GoneStep ==
  GoneIsSilent /\ MicTypeOK /\ [MicNext]_micvars
    => GoneIsSilent'
<1> SUFFICES ASSUME GoneIsSilent, MicTypeOK, [MicNext]_micvars
             PROVE  GoneIsSilent'
  OBVIOUS
<1> USE DEF mic, host
<1>1. CASE OpenChannel
  BY <1>1 DEF OpenChannel, GoneIsSilent
<1>2. ASSUME NEW offer \in Offer, Formats(offer) PROVE GoneIsSilent'
  BY <1>2 DEF Formats, GoneIsSilent, Receiving
<1>3. ASSUME NEW i \in 1 .. MaxFormats, Choose(i) PROVE GoneIsSilent'
  BY <1>3 DEF Choose, GoneIsSilent, Receiving
<1>4. ASSUME NEW i \in 1 .. MaxFormats, Decline(i) PROVE GoneIsSilent'
  BY <1>4 DEF Decline, GoneIsSilent, micvars
<1>5. CASE CloseChannel
  BY <1>5 DEF CloseChannel, GoneIsSilent, Stop, HostForgets, Receiving
<1>6. CASE Terminate
  BY <1>6 DEF Terminate, GoneIsSilent, Stop, HostForgets
<1>7. CASE Refuse
  BY <1>7 DEF Refuse, GoneIsSilent
<1>8. CASE Emit
  BY <1>8 DEF Emit, GoneIsSilent
<1>9. CASE Sample
  BY <1>9 DEF Sample, GoneIsSilent
<1>10. CASE UNCHANGED micvars
  BY <1>10 DEF micvars, GoneIsSilent
<1> QED
  BY <1>1, <1>2, <1>3, <1>4, <1>5, <1>6, <1>7, <1>8, <1>9, <1>10
  DEF MicNext

LEMMA ListStep ==
  ListIsOurs /\ GoneIsSilent /\ [MicNext]_micvars
    => ListIsOurs'
<1> SUFFICES ASSUME ListIsOurs, GoneIsSilent, [MicNext]_micvars
             PROVE  ListIsOurs'
  OBVIOUS
<1> USE DEF mic, host
<1>1. CASE OpenChannel
  BY <1>1 DEF OpenChannel, ListIsOurs, GoneIsSilent
<1>2. ASSUME NEW offer \in Offer, Formats(offer) PROVE ListIsOurs'
  BY <1>2 DEF Formats, ListIsOurs, GoneIsSilent, Receiving
<1>3. ASSUME NEW i \in 1 .. MaxFormats, Choose(i) PROVE ListIsOurs'
  BY <1>3 DEF Choose, ListIsOurs, GoneIsSilent, Receiving
<1>4. ASSUME NEW i \in 1 .. MaxFormats, Decline(i) PROVE ListIsOurs'
  BY <1>4 DEF Decline, ListIsOurs, GoneIsSilent, micvars
<1>5. CASE CloseChannel
  BY <1>5 DEF CloseChannel, ListIsOurs, GoneIsSilent, Stop, HostForgets, Receiving
<1>6. CASE Terminate
  BY <1>6 DEF Terminate, ListIsOurs, GoneIsSilent, Stop, HostForgets
<1>7. CASE Refuse
  BY <1>7 DEF Refuse, ListIsOurs, GoneIsSilent
<1>8. CASE Emit
  BY <1>8 DEF Emit, ListIsOurs, GoneIsSilent
<1>9. CASE Sample
  BY <1>9 DEF Sample, ListIsOurs, GoneIsSilent
<1>10. CASE UNCHANGED micvars
  BY <1>10 DEF micvars, ListIsOurs, GoneIsSilent
<1> QED
  BY <1>1, <1>2, <1>3, <1>4, <1>5, <1>6, <1>7, <1>8, <1>9, <1>10
  DEF MicNext

LEMMA FollowsStep ==
  HostFollows /\ MicTypeOK /\ GoneIsSilent /\ ListIsOurs /\ [MicNext]_micvars
    => HostFollows'
<1> SUFFICES ASSUME HostFollows, MicTypeOK, GoneIsSilent, ListIsOurs, [MicNext]_micvars
             PROVE  HostFollows'
  OBVIOUS
<1> USE DEF mic, host
<1>1. CASE OpenChannel
  BY <1>1 DEF OpenChannel, HostFollows, GoneIsSilent
<1>2. ASSUME NEW offer \in Offer, Formats(offer) PROVE HostFollows'
  BY <1>2 DEF Formats, HostFollows, GoneIsSilent, Receiving
<1>3. ASSUME NEW i \in 1 .. MaxFormats, Choose(i) PROVE HostFollows'
  <2>1. CASE channel = "open" /\ i \in DOMAIN list
    <3>1. list = formats
      BY <1>3, <2>1 DEF ListIsOurs
    <3> QED  BY <1>3, <2>1, <3>1 DEF Choose, HostFollows
  <2>2. CASE ~ (channel = "open" /\ i \in DOMAIN list)
    BY <1>3, <2>2 DEF Choose, HostFollows
  <2> QED  BY <2>1, <2>2
<1>4. ASSUME NEW i \in 1 .. MaxFormats, Decline(i) PROVE HostFollows'
  BY <1>4 DEF Decline, HostFollows, GoneIsSilent, micvars
<1>5. CASE CloseChannel
  BY <1>5 DEF CloseChannel, HostFollows, GoneIsSilent, Stop, HostForgets, Receiving
<1>6. CASE Terminate
  BY <1>6 DEF Terminate, HostFollows, GoneIsSilent, Stop, HostForgets
<1>7. CASE Refuse
  BY <1>7 DEF Refuse, HostFollows, GoneIsSilent
<1>8. CASE Emit
  BY <1>8 DEF Emit, HostFollows, GoneIsSilent
<1>9. CASE Sample
  BY <1>9 DEF Sample, HostFollows, GoneIsSilent
<1>10. CASE UNCHANGED micvars
  BY <1>10 DEF micvars, HostFollows, GoneIsSilent
<1> QED
  BY <1>1, <1>2, <1>3, <1>4, <1>5, <1>6, <1>7, <1>8, <1>9, <1>10
  DEF MicNext

LEMMA NothingStep ==
  NothingIsLeft /\ MicTypeOK /\ GoneIsSilent /\ [MicNext]_micvars
    => NothingIsLeft'
<1> SUFFICES ASSUME NothingIsLeft, MicTypeOK, GoneIsSilent, [MicNext]_micvars
             PROVE  NothingIsLeft'
  OBVIOUS
<1> USE DEF mic, host
<1>1. CASE OpenChannel
  BY <1>1 DEF OpenChannel, NothingIsLeft, GoneIsSilent
<1>2. ASSUME NEW offer \in Offer, Formats(offer) PROVE NothingIsLeft'
  BY <1>2 DEF Formats, NothingIsLeft, GoneIsSilent, Receiving
<1>3. ASSUME NEW i \in 1 .. MaxFormats, Choose(i) PROVE NothingIsLeft'
  BY <1>3 DEF Choose, NothingIsLeft, GoneIsSilent, Receiving
<1>4. ASSUME NEW i \in 1 .. MaxFormats, Decline(i) PROVE NothingIsLeft'
  BY <1>4 DEF Decline, NothingIsLeft, GoneIsSilent, micvars
<1>5. CASE CloseChannel
  BY <1>5 DEF CloseChannel, NothingIsLeft, GoneIsSilent, Stop, HostForgets, Receiving
<1>6. CASE Terminate
  BY <1>6 DEF Terminate, NothingIsLeft, GoneIsSilent, Stop, HostForgets
<1>7. CASE Refuse
  BY <1>7 DEF Refuse, NothingIsLeft, GoneIsSilent
<1>8. CASE Emit
  BY <1>8 DEF Emit, NothingIsLeft, GoneIsSilent
<1>9. CASE Sample
  BY <1>9 DEF Sample, NothingIsLeft, GoneIsSilent
<1>10. CASE UNCHANGED micvars
  BY <1>10 DEF micvars, NothingIsLeft, GoneIsSilent
<1> QED
  BY <1>1, <1>2, <1>3, <1>4, <1>5, <1>6, <1>7, <1>8, <1>9, <1>10
  DEF MicNext

LEMMA HearsStep ==
  HostHearsRight /\ MicTypeOK /\ TellsOpen /\ HostFollows /\ [MicNext]_micvars
    => HostHearsRight'
<1> SUFFICES ASSUME HostHearsRight, MicTypeOK, TellsOpen, HostFollows, [MicNext]_micvars
             PROVE  HostHearsRight'
  OBVIOUS
<1> USE DEF mic, host
<1>1. CASE OpenChannel
  BY <1>1 DEF OpenChannel, HostHearsRight
<1>2. ASSUME NEW offer \in Offer, Formats(offer) PROVE HostHearsRight'
  BY <1>2 DEF Formats, HostHearsRight, Receiving
<1>3. ASSUME NEW i \in 1 .. MaxFormats, Choose(i) PROVE HostHearsRight'
  <2>1. buffer' = buffer /\ (unlisted => unlisted')
    BY <1>3 DEF Choose
  <2> QED  BY <2>1 DEF HostHearsRight
<1>4. ASSUME NEW i \in 1 .. MaxFormats, Decline(i) PROVE HostHearsRight'
  BY <1>4 DEF Decline, HostHearsRight, micvars
<1>5. CASE CloseChannel
  BY <1>5 DEF CloseChannel, HostHearsRight, Stop, HostForgets, Receiving
<1>6. CASE Terminate
  BY <1>6 DEF Terminate, HostHearsRight, Stop, HostForgets
<1>7. CASE Refuse
  BY <1>7 DEF Refuse, HostHearsRight
<1>8. CASE Emit
  BY <1>8 DEF Emit, HostHearsRight
<1>9. CASE Sample
  <2>1. buffer'.as = told /\ buffer'.read = reads /\ buffer'.crossing = ~ Idle
    BY <1>9 DEF Sample
  <2>2. channel = "open" /\ unlisted' = unlisted
    BY <1>9 DEF Sample
  <2> QED  BY <2>1, <2>2 DEF HostHearsRight, HostFollows, TellsOpen
<1>10. CASE UNCHANGED micvars
  BY <1>10 DEF micvars, HostHearsRight
<1> QED
  BY <1>1, <1>2, <1>3, <1>4, <1>5, <1>6, <1>7, <1>8, <1>9, <1>10
  DEF MicNext

LEMMA UnlistedStep ==
  UnlistedOnlyAfterTermination /\ MicTypeOK /\ NothingIsLeft /\ [MicNext]_micvars
    => UnlistedOnlyAfterTermination'
<1> SUFFICES ASSUME UnlistedOnlyAfterTermination, MicTypeOK, NothingIsLeft, [MicNext]_micvars
             PROVE  UnlistedOnlyAfterTermination'
  OBVIOUS
<1> USE DEF mic, host
<1>1. CASE OpenChannel
  BY <1>1 DEF OpenChannel, UnlistedOnlyAfterTermination
<1>2. ASSUME NEW offer \in Offer, Formats(offer) PROVE UnlistedOnlyAfterTermination'
  BY <1>2 DEF Formats, UnlistedOnlyAfterTermination, Receiving
<1>3. ASSUME NEW i \in 1 .. MaxFormats, Choose(i) PROVE UnlistedOnlyAfterTermination'
  <2>1. channel = "open" /\ i \notin DOMAIN list => terminated
    BY <1>3 DEF Choose, NothingIsLeft
  <2> QED  BY <1>3, <2>1 DEF Choose, UnlistedOnlyAfterTermination
<1>4. ASSUME NEW i \in 1 .. MaxFormats, Decline(i) PROVE UnlistedOnlyAfterTermination'
  BY <1>4 DEF Decline, UnlistedOnlyAfterTermination, micvars
<1>5. CASE CloseChannel
  BY <1>5 DEF CloseChannel, UnlistedOnlyAfterTermination, Stop, HostForgets, Receiving
<1>6. CASE Terminate
  BY <1>6 DEF Terminate, UnlistedOnlyAfterTermination, Stop, HostForgets
<1>7. CASE Refuse
  BY <1>7 DEF Refuse, UnlistedOnlyAfterTermination
<1>8. CASE Emit
  BY <1>8 DEF Emit, UnlistedOnlyAfterTermination
<1>9. CASE Sample
  BY <1>9 DEF Sample, UnlistedOnlyAfterTermination
<1>10. CASE UNCHANGED micvars
  BY <1>10 DEF micvars, UnlistedOnlyAfterTermination
<1> QED
  BY <1>1, <1>2, <1>3, <1>4, <1>5, <1>6, <1>7, <1>8, <1>9, <1>10
  DEF MicNext

LEMMA MicAlways == MicSpec => []MicInv
<1>1. MicInit => MicInv
  <2> SUFFICES ASSUME MicInit PROVE MicInv
    OBVIOUS
  <2>1. MicTypeOK
    <3>1. formats \in Seq(Accepted) /\ list \in Seq(Accepted)
      BY EmptySeq DEF MicInit
    <3>2. emit \in Seq(Stream) /\ Len(emit) <= 1
      BY EmptySeq DEF MicInit
    <3> QED  BY <3>1, <3>2 DEF MicInit, MicTypeOK, Stream
  <2>2. TellsOpen /\ GoneIsSilent /\ ListIsOurs /\ HostFollows /\ NothingIsLeft
    BY DEF MicInit, TellsOpen, Idle, GoneIsSilent, ListIsOurs, HostFollows, NothingIsLeft
  <2>3. HostHearsRight /\ UnlistedOnlyAfterTermination
    BY DEF MicInit, HostHearsRight, UnlistedOnlyAfterTermination
  <2> QED  BY <2>1, <2>2, <2>3 DEF MicInv
<1>2. MicInv /\ [MicNext]_micvars => MicInv'
  BY MicTypesStep, TellsStep, GoneStep, ListStep, FollowsStep, NothingStep, HearsStep,
     UnlistedStep DEF MicInv
<1> QED  BY <1>1, <1>2, PTL DEF MicSpec

(* Both lists hold formats that are accepted and nothing else. *)
THEOREM MicTypes == MicSpec => []MicTypeOK
<1>1. MicInv => MicTypeOK
  BY DEF MicInv
<1> QED  BY <1>1, MicAlways, PTL

(* No buffer is read in another format than it was captured in, however    *)
(* many formats there are and however often the host changes its mind. *)
THEOREM MicIsHeardRight == MicSpec => []HostHearsRight
<1>1. MicInv => HostHearsRight
  BY DEF MicInv
<1> QED  BY <1>1, MicAlways, PTL

(* Outside a handler the embedder knows what is open. *)
THEOREM MicIsTold == MicSpec => []EmbedderIsTold
<1>1. MicInv => EmbedderIsTold
  BY DEF MicInv, TellsOpen, EmbedderIsTold
<1> QED  BY <1>1, MicAlways, PTL

(* Only the list a termination leaves lets an index by that the host was   *)
(* never advertised. *)
THEOREM ListsEndWithChannels == MicSpec => []UnlistedOnlyAfterTermination
<1>1. MicInv => UnlistedOnlyAfterTermination
  BY DEF MicInv
<1> QED  BY <1>1, MicAlways, PTL

-----------------------------------------------------------------------------
(* The addin provider, for any number of sessions of one process. *)

(* UPSTREAM is FreeRDP's own or nothing yet, and it is set before anybody   *)
(* puts this crate's provider in front.                                    *)
UpstreamIsFreeRDP ==
  /\ upstream \in {"unset", "freerdp"}
  /\ provider = "ours" => upstream = "freerdp"
  /\ \A s \in Session : pc[s] = "chaining" => upstream = "freerdp"

(* Who has chained is answered by this crate until another context comes.  *)
ChainedUnlessOvertaken ==
  \A s \in Session : pc[s] \in {"ready", "connected", "down"} /\ wants[s]
                       => provider = "ours" \/ s \in overtaken

ProviderInv == /\ ProviderTypeOK /\ UpstreamIsFreeRDP /\ ChainedUnlessOvertaken
        /\ DelegationEnds /\ DeviceLostOnlyToAnother

LEMMA ProviderTypesStep == ProviderTypeOK /\ [ProviderNext]_providervars => ProviderTypeOK'
<1> SUFFICES ASSUME ProviderTypeOK, [ProviderNext]_providervars PROVE ProviderTypeOK'
  OBVIOUS
<1> USE DEF ProviderTypeOK, global, got
<1>1. ASSUME NEW s \in Session, NEW wish \in BOOLEAN, NewContext(s, wish) PROVE ProviderTypeOK'
  BY <1>1 DEF NewContext, Goto
<1>2. ASSUME NEW s \in Session, ReadUpstream(s) PROVE ProviderTypeOK'
  BY <1>2 DEF ReadUpstream, Goto
<1>3. ASSUME NEW s \in Session, Register(s) PROVE ProviderTypeOK'
  BY <1>3 DEF Register, Goto
<1>4. ASSUME NEW s \in Session, Unwanted(s) PROVE ProviderTypeOK'
  BY <1>4 DEF Unwanted, Goto
<1>5. ASSUME NEW s \in Session, Connect(s) PROVE ProviderTypeOK'
  BY <1>5 DEF Connect, Goto, Load, Delegated, Answered
<1>6. ASSUME NEW s \in Session, OpenDynamic(s) PROVE ProviderTypeOK'
  BY <1>6 DEF OpenDynamic, Load, Delegated, Answered
<1>7. ASSUME NEW s \in Session, TakeDown(s) PROVE ProviderTypeOK'
  BY <1>7 DEF TakeDown, Goto
<1>8. ASSUME NEW s \in Session, ReconnectResize(s) PROVE ProviderTypeOK'
  BY <1>8 DEF ReconnectResize, Goto, Load, Delegated, Answered
<1>9. ASSUME NEW s \in Session, End(s) PROVE ProviderTypeOK'
  BY <1>9 DEF End
<1>10. ASSUME UNCHANGED providervars PROVE ProviderTypeOK'
  BY <1>10 DEF providervars
<1> QED  BY <1>1, <1>2, <1>3, <1>4, <1>5, <1>6, <1>7, <1>8, <1>9, <1>10 DEF ProviderNext

LEMMA UpstreamStep ==
  ProviderTypeOK /\ UpstreamIsFreeRDP /\ [ProviderNext]_providervars
    => UpstreamIsFreeRDP'
<1> SUFFICES ASSUME ProviderTypeOK, UpstreamIsFreeRDP, [ProviderNext]_providervars
             PROVE  UpstreamIsFreeRDP'
  OBVIOUS
<1> USE DEF ProviderTypeOK, UpstreamIsFreeRDP, global, got
<1>1. ASSUME NEW s \in Session, NEW wish \in BOOLEAN, NewContext(s, wish) PROVE UpstreamIsFreeRDP'
  BY <1>1 DEF NewContext, Goto
<1>2. ASSUME NEW s \in Session, ReadUpstream(s) PROVE UpstreamIsFreeRDP'
  BY <1>2 DEF ReadUpstream, Goto
<1>3. ASSUME NEW s \in Session, Register(s) PROVE UpstreamIsFreeRDP'
  BY <1>3 DEF Register, Goto
<1>4. ASSUME NEW s \in Session, Unwanted(s) PROVE UpstreamIsFreeRDP'
  BY <1>4 DEF Unwanted, Goto
<1>5. ASSUME NEW s \in Session, Connect(s) PROVE UpstreamIsFreeRDP'
  BY <1>5 DEF Connect, Goto, Load, Delegated, Answered
<1>6. ASSUME NEW s \in Session, OpenDynamic(s) PROVE UpstreamIsFreeRDP'
  BY <1>6 DEF OpenDynamic, Load, Delegated, Answered
<1>7. ASSUME NEW s \in Session, TakeDown(s) PROVE UpstreamIsFreeRDP'
  BY <1>7 DEF TakeDown, Goto
<1>8. ASSUME NEW s \in Session, ReconnectResize(s) PROVE UpstreamIsFreeRDP'
  BY <1>8 DEF ReconnectResize, Goto, Load, Delegated, Answered
<1>9. ASSUME NEW s \in Session, End(s) PROVE UpstreamIsFreeRDP'
  BY <1>9 DEF End
<1>10. ASSUME UNCHANGED providervars PROVE UpstreamIsFreeRDP'
  BY <1>10 DEF providervars
<1> QED  BY <1>1, <1>2, <1>3, <1>4, <1>5, <1>6, <1>7, <1>8, <1>9, <1>10 DEF ProviderNext

LEMMA ChainedStep ==
  ProviderTypeOK /\ ChainedUnlessOvertaken /\ [ProviderNext]_providervars => ChainedUnlessOvertaken'
<1> SUFFICES ASSUME ProviderTypeOK, ChainedUnlessOvertaken, [ProviderNext]_providervars
             PROVE  ChainedUnlessOvertaken'
  OBVIOUS
<1> USE DEF ProviderTypeOK, ChainedUnlessOvertaken, global, got
<1>1. ASSUME NEW s \in Session, NEW wish \in BOOLEAN, NewContext(s, wish)
      PROVE  ChainedUnlessOvertaken'
  BY <1>1 DEF NewContext, Goto
<1>2. ASSUME NEW s \in Session, ReadUpstream(s) PROVE ChainedUnlessOvertaken'
  BY <1>2 DEF ReadUpstream, Goto
<1>3. ASSUME NEW s \in Session, Register(s) PROVE ChainedUnlessOvertaken'
  BY <1>3 DEF Register, Goto
<1>4. ASSUME NEW s \in Session, Unwanted(s) PROVE ChainedUnlessOvertaken'
  BY <1>4 DEF Unwanted, Goto
<1>5. ASSUME NEW s \in Session, Connect(s) PROVE ChainedUnlessOvertaken'
  BY <1>5 DEF Connect, Goto, Load, Delegated, Answered
<1>6. ASSUME NEW s \in Session, OpenDynamic(s) PROVE ChainedUnlessOvertaken'
  BY <1>6 DEF OpenDynamic, Load, Delegated, Answered
<1>7. ASSUME NEW s \in Session, TakeDown(s) PROVE ChainedUnlessOvertaken'
  BY <1>7 DEF TakeDown, Goto
<1>8. ASSUME NEW s \in Session, ReconnectResize(s) PROVE ChainedUnlessOvertaken'
  BY <1>8 DEF ReconnectResize, Goto, Load, Delegated, Answered
<1>9. ASSUME NEW s \in Session, End(s) PROVE ChainedUnlessOvertaken'
  BY <1>9 DEF End
<1>10. ASSUME UNCHANGED providervars PROVE ChainedUnlessOvertaken'
  BY <1>10 DEF providervars
<1> QED  BY <1>1, <1>2, <1>3, <1>4, <1>5, <1>6, <1>7, <1>8, <1>9, <1>10 DEF ProviderNext

LEMMA DelegationStep ==
  ProviderTypeOK /\ UpstreamIsFreeRDP /\ DelegationEnds /\ [ProviderNext]_providervars
    => DelegationEnds'
<1> SUFFICES ASSUME ProviderTypeOK, UpstreamIsFreeRDP, DelegationEnds, [ProviderNext]_providervars
             PROVE  DelegationEnds'
  OBVIOUS
<1> USE DEF ProviderTypeOK, UpstreamIsFreeRDP, DelegationEnds, global, got
<1>1. ASSUME NEW s \in Session, NEW wish \in BOOLEAN, NewContext(s, wish) PROVE DelegationEnds'
  BY <1>1 DEF NewContext, Goto
<1>2. ASSUME NEW s \in Session, ReadUpstream(s) PROVE DelegationEnds'
  BY <1>2 DEF ReadUpstream, Goto
<1>3. ASSUME NEW s \in Session, Register(s) PROVE DelegationEnds'
  BY <1>3 DEF Register, Goto
<1>4. ASSUME NEW s \in Session, Unwanted(s) PROVE DelegationEnds'
  BY <1>4 DEF Unwanted, Goto
<1>5. ASSUME NEW s \in Session, Connect(s) PROVE DelegationEnds'
  BY <1>5 DEF Connect, Goto, Load, Delegated, Answered
<1>6. ASSUME NEW s \in Session, OpenDynamic(s) PROVE DelegationEnds'
  BY <1>6 DEF OpenDynamic, Load, Delegated, Answered
<1>7. ASSUME NEW s \in Session, TakeDown(s) PROVE DelegationEnds'
  BY <1>7 DEF TakeDown, Goto
<1>8. ASSUME NEW s \in Session, ReconnectResize(s) PROVE DelegationEnds'
  BY <1>8 DEF ReconnectResize, Goto, Load, Delegated, Answered
<1>9. ASSUME NEW s \in Session, End(s) PROVE DelegationEnds'
  BY <1>9 DEF End
<1>10. ASSUME UNCHANGED providervars PROVE DelegationEnds'
  BY <1>10 DEF providervars
<1> QED  BY <1>1, <1>2, <1>3, <1>4, <1>5, <1>6, <1>7, <1>8, <1>9, <1>10 DEF ProviderNext

LEMMA DeviceStep ==
  ProviderTypeOK /\ ChainedUnlessOvertaken /\ DeviceLostOnlyToAnother /\ [ProviderNext]_providervars
    => DeviceLostOnlyToAnother'
<1> SUFFICES ASSUME ProviderTypeOK, ChainedUnlessOvertaken, DeviceLostOnlyToAnother,
                    [ProviderNext]_providervars
             PROVE  DeviceLostOnlyToAnother'
  OBVIOUS
<1> USE DEF ProviderTypeOK, ChainedUnlessOvertaken, DeviceLostOnlyToAnother, global, got
<1>1. ASSUME NEW s \in Session, NEW wish \in BOOLEAN, NewContext(s, wish)
      PROVE  DeviceLostOnlyToAnother'
  BY <1>1 DEF NewContext, Goto
<1>2. ASSUME NEW s \in Session, ReadUpstream(s) PROVE DeviceLostOnlyToAnother'
  BY <1>2 DEF ReadUpstream, Goto
<1>3. ASSUME NEW s \in Session, Register(s) PROVE DeviceLostOnlyToAnother'
  BY <1>3 DEF Register, Goto
<1>4. ASSUME NEW s \in Session, Unwanted(s) PROVE DeviceLostOnlyToAnother'
  BY <1>4 DEF Unwanted, Goto
<1>5. ASSUME NEW s \in Session, Connect(s) PROVE DeviceLostOnlyToAnother'
  BY <1>5 DEF Connect, Goto, Load, Delegated, Answered
<1>6. ASSUME NEW s \in Session, OpenDynamic(s) PROVE DeviceLostOnlyToAnother'
  BY <1>6 DEF OpenDynamic, Load, Delegated, Answered
<1>7. ASSUME NEW s \in Session, TakeDown(s) PROVE DeviceLostOnlyToAnother'
  BY <1>7 DEF TakeDown, Goto
<1>8. ASSUME NEW s \in Session, ReconnectResize(s) PROVE DeviceLostOnlyToAnother'
  BY <1>8 DEF ReconnectResize, Goto, Load, Delegated, Answered
<1>9. ASSUME NEW s \in Session, End(s) PROVE DeviceLostOnlyToAnother'
  BY <1>9 DEF End
<1>10. ASSUME UNCHANGED providervars PROVE DeviceLostOnlyToAnother'
  BY <1>10 DEF providervars
<1> QED  BY <1>1, <1>2, <1>3, <1>4, <1>5, <1>6, <1>7, <1>8, <1>9, <1>10 DEF ProviderNext

LEMMA ProviderAlways == ProviderSpec => []ProviderInv
<1>1. ProviderInit => ProviderInv
  BY
     DEF ProviderInit, ProviderInv, ProviderTypeOK, UpstreamIsFreeRDP,
         ChainedUnlessOvertaken, DelegationEnds,
         DeviceLostOnlyToAnother
<1>2. ProviderInv /\ [ProviderNext]_providervars => ProviderInv'
  BY ProviderTypesStep, UpstreamStep, ChainedStep, DelegationStep, DeviceStep DEF ProviderInv
<1> QED  BY <1>1, <1>2, PTL DEF ProviderSpec

-----------------------------------------------------------------------------
(* However many sessions come and go and in whatever order they chain, no  *)
(* question about a channel of FreeRDP's comes back to this crate.         *)
THEOREM DelegationAlwaysEnds == ProviderSpec => []DelegationEnds
<1>1. ProviderInv => DelegationEnds
  BY DEF ProviderInv
<1> QED  BY <1>1, ProviderAlways, PTL

(* A session without its device was overtaken by another's context.        *)
THEOREM OnlyAnotherTakesTheDevice == ProviderSpec => []DeviceLostOnlyToAnother
<1>1. ProviderInv => DeviceLostOnlyToAnother
  BY DEF ProviderInv
<1> QED  BY <1>1, ProviderAlways, PTL
=============================================================================
