------------------------------- MODULE Camera -------------------------------
(***************************************************************************)
(* The camera endpoint (camera.rs): the embedder plugs and unplugs a device*)
(* and offers H.264 samples from any thread; the host, on the thread of the*)
(* dynamic channels, enumerates the device, starts and stops the stream and*)
(* meters it with one request per sample.  All of it shares one lock; the  *)
(* events to the embedder are emitted after the lock is released.          *)
(*                                                                         *)
(* A channel refuses a write when it is about to close, and then refuses   *)
(* every later one: what Chan::write says of a refusal.  The host has at   *)
(* most one channel of each name at a time.                                *)
(***************************************************************************)
EXTENDS Naturals, Sequences

CONSTANTS PendingMax,   (* PENDING_SAMPLES_MAX                             *)
          MaxOffer,     (* bound: samples the embedder offers              *)
          MaxRequest    (* bound: sample requests in one stream            *)

ASSUME CameraAssumption == {PendingMax, MaxOffer, MaxRequest} \subseteq Nat

Channel == {"none", "open", "closing"}
Event   == {"none", "started", "stopped"}

(* The n-th sample offered, and whether it is a keyframe. *)
Sample == [n : Nat, key : BOOLEAN]

VARIABLES
  enumerator, (* CamState::enumerator                                      *)
  enumReady,  (* SelectVersion has finished                                *)
  device,     (* CamState::device                                          *)
  plugged,    (* CamState::plugged, and a format is known: they are set    *)
              (* and cleared together                                      *)
  announced,  (* DeviceAdded is out for this plug                          *)
  streaming, credits, pending, awaiting,    (* the metered stream          *)
  emit,       (* the event the channel thread is about to emit             *)
  told,       (* history: the last of started and stopped emitted          *)
  withdrawn,  (* history: unplugged since StartStreams was last taken      *)
  offered,    (* samples offered so far                                    *)
  delivered,  (* history: number of the last sample the host got in this   *)
              (* stream, 0 before the first                                *)
  requested,  (* history: sample requests of this stream                   *)
  answered,   (* history: sample responses the host got for them           *)
  garbled,    (* history: the host got a sample it cannot decode           *)
  shown       (* history: the host has the device, by this enumerator      *)

enumeration == <<enumerator, enumReady, plugged, announced, shown>>
stream      == <<streaming, credits, pending, awaiting>>
account     == <<delivered, garbled, requested, answered>>
embedder    == <<emit, told, withdrawn>>
vars        == <<enumeration, device, stream, embedder, offered, account>>

TypeOK == /\ enumerator \in Channel /\ device \in Channel
          /\ enumReady \in BOOLEAN /\ plugged \in BOOLEAN
          /\ announced \in BOOLEAN /\ shown \in BOOLEAN
          /\ streaming \in BOOLEAN /\ awaiting \in BOOLEAN
          /\ credits \in 0 .. MaxRequest
          /\ pending \in Seq(Sample) /\ Len(pending) <= PendingMax
          /\ emit \in Event /\ told \in Event /\ withdrawn \in BOOLEAN
          /\ offered \in 0 .. MaxOffer
          /\ garbled \in BOOLEAN
          /\ delivered \in Nat /\ requested \in Nat /\ answered \in Nat

Init == /\ enumerator = "none" /\ device = "none"
        /\ enumReady = FALSE /\ plugged = FALSE
        /\ announced = FALSE /\ shown = FALSE
        /\ streaming = FALSE /\ credits = 0
        /\ pending = <<>> /\ awaiting = FALSE
        /\ emit = "none" /\ told = "none" /\ withdrawn = FALSE
        /\ offered = 0
        /\ delivered = 0 /\ garbled = FALSE
        /\ requested = 0 /\ answered = 0

(* Slip: the credits of a stopped stream stay. *)
ForgetSamples == credits' = credits /\ pending' = <<>>

(* CamState::stop_stream forgets everything metered, *)
Forget == credits' = 0 /\ pending' = <<>>

(* ends the stream and returns whether there was one to tell of. *)
StopStream == streaming' = FALSE /\ Forget /\ awaiting' = FALSE

(* A DeviceAdded goes out, and counts if the channel takes it. *)
Announcing == /\ announced' = (announced \/ enumerator = "open")
              /\ shown' = (shown \/ enumerator = "open")

(* A decoder goes on from a keyframe, or from the sample before. *)
Continues(s, before) == s.key \/ (before # 0 /\ s.n = before + 1)

(* The samples ss are written to the device channel. *)
Write(ss) ==
  IF ss # <<>> /\ device = "open"
    THEN /\ delivered' = ss[Len(ss)].n
         /\ answered' = answered + Len(ss)
         /\ garbled' = \/ garbled
                       \/ ~ Continues(ss[1], delivered)
                       \/ \E i \in 2 .. Len(ss) : ~ Continues(ss[i], ss[i - 1].n)
    ELSE UNCHANGED <<delivered, garbled, answered>>

-----------------------------------------------------------------------------
(* Slips: each replaces one definition below, to see that a property       *)
(* notices.  They are no part of the specification.                        *)

(* The announcement outlives the channel it was made on. *)
EnumeratorLost ==
  /\ emit = "none" /\ enumerator # "none"
  /\ enumerator' = "none" /\ enumReady' = FALSE /\ shown' = FALSE
  /\ UNCHANGED <<plugged, announced, device, stream, embedder, offered, account>>

(* A full queue loses its oldest sample only. *)
DropOldest(s) ==
  /\ credits = 0 /\ Len(pending) = PendingMax
  /\ pending' = Append(Tail(pending), s)
  /\ awaiting' = FALSE
  /\ UNCHANGED <<credits, account>>

(* One sample per request, whatever was asked before. *)
RequestBanked ==
  /\ emit = "none" /\ device # "none"
  /\ streaming /\ requested < MaxRequest
  /\ requested' = requested + 1
  /\ credits' = credits + 1
  /\ UNCHANGED <<enumeration, device, streaming, pending, awaiting, embedder,
                 offered, delivered, garbled, answered>>

(* The channel goes, and nobody is told that the stream went with it. *)
DeviceLost ==
  /\ emit = "none" /\ device # "none"
  /\ device' = "none"
  /\ StopStream
  /\ UNCHANGED <<enumeration, embedder, offered, account>>

-----------------------------------------------------------------------------
(* The embedder, from any thread. *)

Plug ==
  /\ plugged' = TRUE
  /\ IF enumReady /\ ~ announced THEN Announcing
                                 ELSE UNCHANGED <<announced, shown>>
  /\ UNCHANGED <<enumerator, enumReady, device, stream, embedder, offered,
                 account>>

Unplug ==
  /\ plugged' = FALSE
  /\ StopStream
  /\ announced' = FALSE
  /\ shown' = (shown /\ ~ (announced /\ enumerator = "open"))
  /\ withdrawn' = TRUE
  /\ UNCHANGED <<enumerator, enumReady, device, emit, told, offered, account>>

(* What sample does with a sample that may be sent: answer a request, *)
SendNow(s) ==
  /\ credits > 0 /\ pending = <<>>
  /\ Write(<<s>>)
  /\ credits' = IF device = "open" THEN credits - 1 ELSE credits
  /\ awaiting' = FALSE
  /\ UNCHANGED <<pending, requested>>

(* wait for one, *)
Queue(s) ==
  /\ ~ (credits > 0 /\ pending = <<>>) /\ Len(pending) < PendingMax
  /\ pending' = Append(pending, s)
  /\ awaiting' = FALSE
  /\ UNCHANGED <<credits, account>>

(* or be dropped with all that waits, for what follows a gap cannot be     *)
(* decoded. *)
Overflow(s) ==
  /\ ~ (credits > 0 /\ pending = <<>>) /\ Len(pending) >= PendingMax
  /\ pending' = <<>>
  /\ awaiting' = TRUE
  /\ UNCHANGED <<credits, account>>

(* Camera::sample: none but a keyframe passes while one is awaited. *)
Offer(key) ==
  /\ offered < MaxOffer
  /\ offered' = offered + 1
  /\ LET s == [n |-> offered', key |-> key]
     IN  IF streaming /\ (key \/ ~ awaiting)
           THEN SendNow(s) \/ Queue(s) \/ Overflow(s)
           ELSE UNCHANGED <<credits, pending, awaiting, account>>
  /\ UNCHANGED <<enumeration, device, streaming, embedder>>

-----------------------------------------------------------------------------
(* The enumeration channel: OnOpen asks for a version ... *)
OpenEnumerator ==
  /\ emit = "none" /\ enumerator = "none"
  /\ enumerator' = "open"
  /\ shown' = FALSE
  /\ UNCHANGED <<enumReady, plugged, announced, device, stream, embedder,
                 offered, account>>

(* ... and the response arms the announcement. *)
SelectVersion ==
  /\ emit = "none" /\ enumerator # "none"
  /\ enumReady' = TRUE
  /\ IF plugged /\ ~ announced THEN Announcing
                               ELSE UNCHANGED <<announced, shown>>
  /\ UNCHANGED <<enumerator, plugged, device, stream, embedder, offered,
                 account>>

CloseEnumerator ==
  /\ emit = "none" /\ enumerator # "none"
  /\ enumerator' = "none" /\ enumReady' = FALSE /\ announced' = FALSE
  /\ shown' = FALSE
  /\ UNCHANGED <<plugged, device, stream, embedder, offered, account>>

-----------------------------------------------------------------------------
(* The device channel. *)

OpenDevice ==
  /\ emit = "none" /\ device = "none"
  /\ device' = "open"
  /\ UNCHANGED <<enumeration, stream, embedder, offered, account>>

(* StartStreams, of stream zero and H.264: a running stream starts over. *)
StartStreams ==
  /\ emit = "none" /\ device # "none"
  /\ streaming' = TRUE
  /\ Forget /\ awaiting' = TRUE
  /\ emit' = "started" /\ withdrawn' = FALSE
  /\ delivered' = 0 /\ requested' = 0 /\ answered' = 0
  /\ UNCHANGED <<enumeration, device, told, offered, garbled>>

(* StopStreams and DeactivateDevice. *)
StopStreams ==
  /\ emit = "none" /\ device # "none"
  /\ StopStream
  /\ emit' = IF streaming THEN "stopped" ELSE "none"
  /\ UNCHANGED <<enumeration, device, told, withdrawn, offered, account>>

(* A credit, and the samples waiting for one. *)
SampleRequest ==
  /\ emit = "none" /\ device # "none"
  /\ streaming /\ requested < MaxRequest
  /\ requested' = requested + 1
  /\ LET sent == IF credits + 1 < Len(pending) THEN credits + 1
                                               ELSE Len(pending)
     IN  /\ credits' = credits + 1 - sent
         /\ pending' = SubSeq(pending, sent + 1, Len(pending))
         /\ Write(SubSeq(pending, 1, sent))
  /\ UNCHANGED <<enumeration, device, streaming, awaiting, embedder, offered>>

CloseDevice ==
  /\ emit = "none" /\ device # "none"
  /\ device' = "none"
  /\ StopStream
  /\ emit' = IF streaming THEN "stopped" ELSE "none"
  /\ UNCHANGED <<enumeration, told, withdrawn, offered, account>>

(* A channel begins to refuse writes; its close is to follow. *)
Refuse ==
  /\ \/ enumerator = "open" /\ enumerator' = "closing" /\ UNCHANGED device
     \/ device = "open" /\ device' = "closing" /\ UNCHANGED enumerator
  /\ UNCHANGED <<enumReady, plugged, announced, shown, stream, embedder,
                 offered, account>>

(* plugin_terminated: the session ends or reconnects. *)
Terminate ==
  /\ emit = "none"
  /\ enumerator' = "none" /\ enumReady' = FALSE /\ announced' = FALSE
  /\ shown' = FALSE
  /\ device' = "none"
  /\ StopStream
  /\ emit' = IF streaming THEN "stopped" ELSE "none"
  /\ UNCHANGED <<plugged, told, withdrawn, offered, account>>

(* The event of the handler that just released the lock. *)
Emit ==
  /\ emit # "none"
  /\ told' = emit
  /\ emit' = "none"
  /\ UNCHANGED <<enumeration, device, stream, withdrawn, offered, account>>

-----------------------------------------------------------------------------
Next == \/ Plug \/ Unplug \/ \E key \in BOOLEAN : Offer(key)
        \/ OpenEnumerator \/ SelectVersion \/ CloseEnumerator
        \/ OpenDevice \/ StartStreams \/ StopStreams \/ SampleRequest
        \/ CloseDevice \/ Refuse \/ Terminate
        \/ Emit

Spec == Init /\ [][Next]_vars

-----------------------------------------------------------------------------
(* What the host gets can be decoded: a stream begins at a keyframe, and   *)
(* behind any sample that was not sent, for whatever reason, the next one  *)
(* that is sent is a keyframe again.                                       *)
Decodable == ~ garbled

(* The host never waits for a sample that waits for the host. *)
NoIdleCredit == credits > 0 => pending = <<>>

(* Every request is answered once or is still a credit; the host is never  *)
(* sent a sample it did not ask for, in this stream.                       *)
Metered == streaming => /\ answered + credits <= requested
                        /\ device = "open" => answered + credits = requested

(* Between two events the embedder knows whether the host streams, unless  *)
(* it ended the stream itself, by unplugging.                              *)
EmbedderIsTold ==
  emit = "none" /\ ~ withdrawn => (streaming <=> told = "started")

(* On an enumeration channel that has agreed on a version, the host has    *)
(* the device if and only if it is plugged, across closes and reconnects.  *)
HostSeesPlug ==
  enumerator = "open" /\ enumReady => (shown <=> plugged)
=============================================================================
