------------------------------- MODULE Audio -------------------------------
(***************************************************************************)
(* Redirected sound (audio.rs).  rdpsnd is registered on two transports, a *)
(* static channel and a dynamic one; each loads a device of this crate,    *)
(* and a claim on the Bridge decides which device may fill the one sink.   *)
(* rdpsnd itself is external: it opens a device whose format changed       *)
(* before it plays, and it forgets to reopen one after the dynamic channel *)
(* was closed and created again.                                           *)
(*                                                                         *)
(* Every callback runs on the FreeRDP thread, and is one step.             *)
(***************************************************************************)
EXTENDS Naturals

CONSTANT MaxDevice    (* bound: devices minted by subsystem_entry          *)

ASSUME AudioAssumption == MaxDevice \in Nat \ {0}

Transport == {"static", "dynamic"}
Device    == 1 .. MaxDevice
NoDevice  == 0

VARIABLES
  bridge,     (* claim: Bridge::audio_device; told: what the sink was told *)
              (* last, by opened or closed                                 *)
  seen,       (* Bridge::audio_devices_seen                                *)
  mark,       (* Bridge::audio_dynamic_negotiated                          *)
  minted,     (* devices created so far; a device is its number            *)
  device,     (* rdpsnd->device of each transport                          *)
  flagged,    (* devices created with "dynamic" set                        *)
  isOpen,     (* rdpsnd->isOpen of each transport                          *)
  suits,      (* the format it was opened with last is the one asked for   *)
  drove,      (* history: transports the server sent sound on, since the   *)
              (* session connected                                         *)
  wave        (* history: the last wave: its transport, whether it suits   *)
              (* the sink and whether the sink got it                      *)

rdpsnd == <<device, isOpen, suits>>
mint   == <<seen, minted, flagged>>
vars   == <<bridge, mark, mint, rdpsnd, drove, wave>>

Bridge == [claim : Device \cup {NoDevice}, told : {"closed", "opened"}]
Wave   == [on : Transport, suits : BOOLEAN, heard : BOOLEAN]

TypeOK == /\ bridge \in Bridge
          /\ minted \in 0 .. MaxDevice /\ seen \in 0 .. minted
          /\ mark \in BOOLEAN
          /\ device \in [Transport -> 0 .. minted]
          /\ flagged \subseteq 1 .. minted
          /\ isOpen \in [Transport -> BOOLEAN]
          /\ suits \in [Transport -> BOOLEAN]
          /\ drove \subseteq Transport
          /\ wave \in Wave

(* Connected: the static channel has minted the first device. *)
Init == /\ bridge = [claim |-> NoDevice, told |-> "closed"]
        /\ seen = 1 /\ minted = 1 /\ flagged = {}
        /\ mark = FALSE
        /\ device = [t \in Transport |-> IF t = "static" THEN 1 ELSE NoDevice]
        /\ isOpen = [t \in Transport |-> FALSE]
        /\ suits = [t \in Transport |-> TRUE]
        /\ drove = {}
        /\ wave = [on |-> "static", suits |-> TRUE, heard |-> TRUE]

-----------------------------------------------------------------------------
(* Slips: each replaces one definition below, to see that a property       *)
(* notices.  They are no part of the specification.                        *)

(* A wave of a device that has no claim is dropped, vacant or not. *)
PlayClaimed(b, d) == b

(* A vacant claim is adopted without a word to the sink. *)
PlayAdopting(b, d) ==
  IF b.claim = NoDevice THEN [b EXCEPT !.claim = d] ELSE b

(* The device goes, its claim stays. *)
FreeClaimed(b, d) == b

(* The reconnect does not start the count again. *)
CountAgain == seen

-----------------------------------------------------------------------------
(* The callbacks, as what they make of the bridge.                         *)

Close(b, d) ==
  IF b.claim = d THEN [claim |-> NoDevice, told |-> "closed"] ELSE b

(* A device opened with another format loses the claim if it has it; one   *)
(* opened with the format asked for takes it. *)
Open(b, d, fits) ==
  IF ~ fits THEN Close(b, d)
  ELSE IF b.claim = d THEN b ELSE [claim |-> d, told |-> "opened"]

(* A wave adopts a vacant claim. *)
Play(b, d) ==
  IF b.claim = NoDevice THEN [claim |-> d, told |-> "opened"] ELSE b

Free(b, d) ==
  IF b.claim = d THEN [b EXCEPT !.claim = NoDevice] ELSE b

-----------------------------------------------------------------------------
(* What reconnect_resize makes of the count. *)
CountAfresh == 0

(* subsystem_entry: the order of creation tells the transport. *)
Mint(count) ==
  /\ minted < MaxDevice
  /\ minted' = minted + 1
  /\ seen' = count + 1
  /\ flagged' = IF count > 0 THEN flagged \cup {minted'} ELSE flagged

(* The server announces its formats on a transport, and some are taken. *)
ServerFormatAnnounce(t) ==
  /\ device[t] # NoDevice
  /\ mark' = (mark \/ device[t] \in flagged)
  /\ UNCHANGED <<bridge, mint, rdpsnd, drove, wave>>

(* rdpsnd's wave handler: a device that is not open in this format is      *)
(* closed and opened, then the wave is played. *)
ServerWave(t, fits) ==
  LET d      == device[t]
      opened == IF isOpen[t] /\ suits[t] = fits
                  THEN bridge ELSE Open(Close(bridge, d), d, fits)
  IN  /\ d # NoDevice
      /\ bridge' = Play(opened, d)
      /\ isOpen' = [isOpen EXCEPT ![t] = TRUE]
      /\ suits' = [suits EXCEPT ![t] = fits]
      /\ drove' = drove \cup {t}
      /\ wave' = [on |-> t, suits |-> fits, heard |-> bridge'.claim = d]
      /\ UNCHANGED <<mark, mint, device>>

(* The server's close, after which rdpsnd knows that it is not open. *)
ServerClose(t) ==
  /\ device[t] # NoDevice
  /\ bridge' = Close(bridge, device[t])
  /\ isOpen' = [isOpen EXCEPT ![t] = FALSE]
  /\ UNCHANGED <<mark, mint, device, suits, drove, wave>>

(* The dynamic channel is created and loads a device ... *)
CreateDynamic ==
  /\ device["dynamic"] = NoDevice
  /\ Mint(seen)
  /\ device' = [device EXCEPT !["dynamic"] = minted']
  /\ UNCHANGED <<bridge, mark, isOpen, suits, drove, wave>>

(* ... and is closed, which frees the device and leaves isOpen as it is. *)
CloseDynamic ==
  /\ device["dynamic"] # NoDevice
  /\ bridge' = Free(bridge, device["dynamic"])
  /\ device' = [device EXCEPT !["dynamic"] = NoDevice]
  /\ UNCHANGED <<mark, mint, isOpen, suits, drove, wave>>

(* reconnect_resize: both channels are torn down, the count starts again   *)
(* and the static channel is brought up. *)
Reconnect ==
  /\ mark
  /\ bridge' = Free(Free(bridge, device["dynamic"]), device["static"])
  /\ Mint(CountAfresh)
  /\ device' = [t \in Transport |-> IF t = "static" THEN minted' ELSE NoDevice]
  /\ isOpen' = [t \in Transport |-> FALSE]
  /\ drove' = {}
  /\ UNCHANGED <<mark, suits, wave>>

-----------------------------------------------------------------------------
Next == \/ \E t \in Transport : \/ ServerFormatAnnounce(t)
                               \/ \E fits \in BOOLEAN : ServerWave(t, fits)
                               \/ ServerClose(t)
        \/ CreateDynamic \/ CloseDynamic \/ Reconnect

Spec == Init /\ [][Next]_vars

-----------------------------------------------------------------------------
(* Whoever holds the claim, the sink was told "opened" last, so no wave    *)
(* comes behind a "closed": not by the adoption of a claim either.         *)
SinkIsTold == bridge.claim # NoDevice => bridge.told = "opened"

(* The claim is never left to a device that was freed, which would keep    *)
(* every later device silent.                                              *)
ClaimIsLive == bridge.claim \in {device[t] : t \in Transport} \cup {NoDevice}

(* As long as the server uses one transport, every wave of it in the       *)
(* format asked for is heard, however often the channel is closed, created *)
(* again and reopened, and whatever other waves came before.               *)
SoleTransportIsHeard ==
  [][drove' = {wave'.on} /\ wave'.suits /\ (wave' # wave \/ drove' # drove)
       => wave'.heard]_vars

(* A device is taken for a dynamic one if and only if it serves the        *)
(* dynamic channel, after a reconnect too.                                 *)
TransportIsKnown ==
  \A t \in Transport :
    device[t] # NoDevice => (device[t] \in flagged <=> t = "dynamic")

(* "it just cannot hold the claim, so its waves go nowhere" (open, of a    *)
(* device opened with a format nobody asked for).                          *)
OtherFormatIsSilent == wave.heard => wave.suits
=============================================================================
