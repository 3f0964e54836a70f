--------------------------- MODULE AddinProvider ---------------------------
(***************************************************************************)
(* The addin provider that FreeRDP finds channels through, one for the     *)
(* whole process, and the sessions of the process that each put FreeRDP's  *)
(* own back and then chain this crate's in front (audio.rs, and run and    *)
(* run_connected of session.rs).  Every session has a thread of its own,   *)
(* and one after the other in each slot here.                              *)
(***************************************************************************)
CONSTANTS Session

VARIABLES
  pc,        (* where a session is                                         *)
  wants,     (* does it redirect sound, a camera or a microphone?          *)
  provider,  (* who answers: "freerdp" or "ours"                           *)
  upstream,  (* UPSTREAM: "unset", or who was read                         *)
  channels,  (* what it got for FreeRDP's channels when it asked last      *)
  plugin,    (* what it got for this crate's device when it asked last     *)
  overtaken  (* history: sessions that another's context came after        *)

global       == <<provider, upstream>>
got          == <<channels, plugin>>
providervars == <<pc, wants, global, got, overtaken>>

ProviderTypeOK ==
  /\ pc \in [Session -> {"idle", "created", "chaining", "ready",
                         "connected", "down"}]
  /\ wants \in [Session -> BOOLEAN]
  /\ provider \in {"freerdp", "ours"}
  /\ upstream \in {"unset", "freerdp", "ours"}
  /\ channels \in [Session -> {"none", "freerdp", "endless"}]
  /\ plugin \in [Session -> {"none", "ours", "fake"}]
  /\ overtaken \subseteq Session

ProviderInit ==
  /\ pc = [s \in Session |-> "idle"]
  /\ wants \in [Session -> BOOLEAN]
  /\ provider = "freerdp" /\ upstream = "unset"
  /\ channels = [s \in Session |-> "none"]
  /\ plugin = [s \in Session |-> "none"]
  /\ overtaken = {}

Goto(s, from, to) == pc[s] = from /\ pc' = [pc EXCEPT ![s] = to]

(* addin_provider, for a channel of FreeRDP's: its own provider, asked     *)
(* through UPSTREAM when this crate's is in front.                         *)
Delegated == IF provider = "freerdp" THEN "freerdp"
             ELSE CASE upstream = "freerdp" -> "freerdp"
                    [] upstream = "ours"    -> "endless"
                    [] OTHER                -> "none"

(* addin_provider, for sys:rust, rdpecam or audin, which FreeRDP's own     *)
(* does not know: sound falls to the fake device.                          *)
Answered == IF provider = "ours" THEN "ours" ELSE "fake"

-----------------------------------------------------------------------------
(* Slips: each replaces one definition below, to see that a property       *)
(* notices.  They are no part of the specification.                        *)

(* Every session remembers the provider it found. *)
ReadEachTime(s) ==
  /\ Goto(s, "created", "chaining")
  /\ wants[s]
  /\ upstream' = provider
  /\ UNCHANGED <<wants, provider, got, overtaken>>

(* A process that has chained once is taken to be chained for ever. *)
RegisterOnce(s) ==
  /\ Goto(s, "created", IF upstream = "unset" THEN "chaining" ELSE "ready")
  /\ wants[s]
  /\ upstream' = IF upstream = "unset" THEN provider ELSE upstream
  /\ UNCHANGED <<wants, provider, got, overtaken>>

-----------------------------------------------------------------------------
(* run: freerdp_client_context_new puts FreeRDP's own provider back, for   *)
(* a session with any configuration. *)
NewContext(s, wish) ==
  /\ Goto(s, "idle", "created")
  /\ wants' = [wants EXCEPT ![s] = wish]
  /\ provider' = "freerdp"
  /\ overtaken' = {t \in Session : t # s /\ pc[t] # "idle"} \cup (overtaken \ {s})
  /\ UNCHANGED <<upstream, got>>

(* install_provider, if there is a device to answer for: UPSTREAM is read  *)
(* by the first, *)
ReadUpstream(s) ==
  /\ Goto(s, "created", "chaining")
  /\ wants[s]
  /\ upstream' = IF upstream = "unset" THEN provider ELSE upstream
  /\ UNCHANGED <<wants, provider, got, overtaken>>

(* and every one registers. *)
Register(s) ==
  /\ Goto(s, "chaining", "ready")
  /\ provider' = "ours"
  /\ overtaken' = overtaken \ {s}
  /\ UNCHANGED <<wants, upstream, got>>

Unwanted(s) ==
  /\ Goto(s, "created", "ready")
  /\ ~ wants[s]
  /\ UNCHANGED <<wants, global, got, overtaken>>

(* The channels ask for what they load. *)
Load(s) ==
  /\ channels' = [channels EXCEPT ![s] = Delegated]
  /\ plugin' = [plugin EXCEPT ![s] = IF wants[s] THEN Answered ELSE "none"]
  /\ UNCHANGED <<wants, global, overtaken>>

(* freerdp_connect does, *)
Connect(s) == Goto(s, "ready", "connected") /\ Load(s)

(* the server opens a channel or a transport later, *)
OpenDynamic(s) == pc[s] = "connected" /\ UNCHANGED pc /\ Load(s)

(* and reconnect_resize starts over. *)
TakeDown(s) == /\ Goto(s, "connected", "down")
               /\ UNCHANGED <<wants, global, got, overtaken>>
ReconnectResize(s) == Goto(s, "down", "connected") /\ Load(s)

(* A session ends in any of its steps: nothing is put back. *)
End(s) ==
  /\ pc[s] # "idle"
  /\ pc' = [pc EXCEPT ![s] = "idle"]
  /\ channels' = [channels EXCEPT ![s] = "none"]
  /\ plugin' = [plugin EXCEPT ![s] = "none"]
  /\ overtaken' = overtaken \ {s}
  /\ UNCHANGED <<wants, global>>

ProviderNext ==
  \E s \in Session :
    \/ \E wish \in BOOLEAN : NewContext(s, wish)
    \/ ReadUpstream(s) \/ Register(s) \/ Unwanted(s)
    \/ Connect(s) \/ OpenDynamic(s) \/ TakeDown(s) \/ ReconnectResize(s)
    \/ End(s)

ProviderSpec == ProviderInit /\ [][ProviderNext]_providervars

-----------------------------------------------------------------------------
(* Whoever has chained and in whatever order, FreeRDP's own channels load: *)
(* this crate's provider never hands a question to itself or to nobody.    *)
DelegationEnds ==
  \A s \in Session : pc[s] \in {"connected", "down"} => channels[s] = "freerdp"

(* A session that asked for a device has it, on the first connect, on a    *)
(* transport opened later and after a reconnect, unless the context of     *)
(* another session came after it had chained.                              *)
DeviceLostOnlyToAnother ==
  \A s \in Session : pc[s] \in {"connected", "down"} /\ wants[s]
                       => plugin[s] = "ours" \/ s \in overtaken
=============================================================================
