-------------------------------- MODULE Mic --------------------------------
(***************************************************************************)
(* The microphone endpoint (mic.rs): the host, on the thread of the        *)
(* dynamic channels, offers formats, opens the stream with one of those it *)
(* got back and switches between them, always by index; the embedder hands *)
(* in buffers from any thread, in the format it was told last.  The state  *)
(* is under one lock, and the events to the embedder are emitted after it  *)
(* is released.                                                            *)
(*                                                                         *)
(* A channel that refuses a write refuses all that follow and closes       *)
(* later, and the host has at most one channel at a time.  The host may    *)
(* send any index: one it was not advertised is declined.                  *)
(***************************************************************************)
EXTENDS Naturals, Sequences, FiniteSets

CONSTANTS Format,     (* the formats a host may offer                      *)
          Accepted,   (* those of them that are 16-bit PCM                 *)
          Silence,    (* no format: no stream is open                      *)
          MaxFormats  (* bound: formats in one offer                       *)

ASSUME MicAssumption ==
  Accepted \subseteq Format /\ Silence \notin Format /\ MaxFormats \in Nat

Stream == Accepted \cup {Silence}

VARIABLES
  channel,    (* MicState::channel: "none", "open" or "closing"            *)
  formats,    (* MicState::formats                                         *)
  open,       (* MicState::open                                            *)
  emit,       (* what the channel's thread is about to tell the embedder:  *)
              (* <<>>, or the format opened, or Silence for closed         *)
  told,       (* what the embedder was told last                           *)
  list,       (* the formats the host was advertised on this channel       *)
  reads,      (* the format the host reads in                              *)
  terminated, (* history: plugin_terminated has run                        *)
  unlisted,   (* history: an index beyond the host's list was taken        *)
  buffer      (* history: the last buffer the host got: the format it was  *)
              (* captured in, the one it is read in, and whether an event  *)
              (* was under way                                             *)

mic     == <<channel, formats, open>>
host    == <<list, reads>>
micvars == <<mic, host, emit, told, terminated, unlisted, buffer>>

MicTypeOK ==
  /\ channel \in {"none", "open", "closing"}
  /\ formats \in Seq(Accepted) /\ list \in Seq(Accepted)
  /\ {open, told, reads} \subseteq Stream
  /\ emit \in Seq(Stream) /\ Len(emit) <= 1
  /\ {terminated, unlisted} \subseteq BOOLEAN
  /\ buffer \in [as : Stream, read : Stream, crossing : BOOLEAN]

MicInit ==
  /\ channel = "none" /\ formats = <<>> /\ open = Silence
  /\ emit = <<>> /\ told = Silence
  /\ list = <<>> /\ reads = Silence
  /\ terminated = FALSE /\ unlisted = FALSE
  /\ buffer = [as |-> Silence, read |-> Silence, crossing |-> FALSE]

(* The channel's thread is not inside a handler, *)
Idle == emit = <<>>

(* or handles something of its channel. *)
Receiving == Idle /\ channel # "none"

(* A stream stops, and the embedder is told if there was one. *)
Stop == /\ open' = Silence
        /\ emit' = IF open # Silence THEN <<Silence>> ELSE <<>>

(* The places in S, in order. *)
InOrder(S) == {at \in [1 .. Cardinality(S) -> S] :
                 \A j, k \in DOMAIN at : j < k => at[j] < at[k]}

(* The host's end of a channel that is gone. *)
HostForgets == list' = <<>> /\ reads' = Silence

-----------------------------------------------------------------------------
(* Slips: each replaces one definition below, to see that a property       *)
(* notices.  They are no part of the specification.                        *)

(* The host's own list is kept, and not what is advertised. *)
FormatsOffered(offer) ==
  /\ Receiving
  /\ formats' = offer
  /\ list' = IF channel = "open" THEN SelectSeq(offer, LAMBDA f : f \in Accepted)
                                 ELSE list
  /\ UNCHANGED <<channel, open, reads, emit, told, terminated, unlisted, buffer>>

(* The list outlives its channel. *)
CloseListed ==
  /\ Receiving
  /\ channel' = "none" /\ Stop
  /\ HostForgets
  /\ UNCHANGED <<formats, told, terminated, unlisted, buffer>>

(* The plugin goes without a word about the stream. *)
TerminateSilently ==
  /\ Idle
  /\ channel' = "none" /\ open' = Silence
  /\ HostForgets
  /\ terminated' = TRUE
  /\ UNCHANGED <<formats, emit, told, unlisted, buffer>>

-----------------------------------------------------------------------------
OpenChannel ==
  /\ Idle /\ channel = "none"
  /\ channel' = "open"
  /\ UNCHANGED <<formats, open, host, emit, told, terminated, unlisted, buffer>>

(* FORMATS: the accepted ones are advertised and kept, in one order. *)
Formats(offer) ==
  /\ Receiving
  /\ \E at \in InOrder({i \in DOMAIN offer : offer[i] \in Accepted}) :
       formats' = [k \in DOMAIN at |-> offer[at[k]]]
  /\ list' = IF channel = "open" THEN formats' ELSE list
  /\ UNCHANGED <<channel, open, reads, emit, told, terminated, unlisted, buffer>>

(* OPEN and FORMAT_CHANGE differ in a reply only: the i-th format is taken *)
(* and confirmed by its index, which the host looks up in its own list, *)
Choose(i) ==
  /\ Receiving
  /\ i \in DOMAIN formats
  /\ open' = formats[i]
  /\ reads' = IF channel = "open" /\ i \in DOMAIN list THEN list[i] ELSE reads
  /\ unlisted' = (unlisted \/ (channel = "open" /\ i \notin DOMAIN list))
  /\ emit' = <<formats[i]>>
  /\ UNCHANGED <<channel, formats, list, told, terminated, buffer>>

(* or there is none such, and the host hears so or hears nothing. *)
Decline(i) == Receiving /\ i \notin DOMAIN formats /\ UNCHANGED micvars

CloseChannel ==
  /\ Receiving
  /\ channel' = "none" /\ formats' = <<>> /\ Stop
  /\ HostForgets
  /\ UNCHANGED <<told, terminated, unlisted, buffer>>

(* plugin_terminated, at the end of a session and in a reconnect. *)
Terminate ==
  /\ Idle
  /\ channel' = "none" /\ Stop
  /\ HostForgets
  /\ terminated' = TRUE
  /\ UNCHANGED <<formats, told, unlisted, buffer>>

Refuse ==
  /\ channel = "open" /\ channel' = "closing"
  /\ UNCHANGED <<formats, open, host, emit, told, terminated, unlisted, buffer>>

(* The event of the handler that just released the lock. *)
Emit ==
  /\ ~ Idle
  /\ told' = Head(emit) /\ emit' = <<>>
  /\ UNCHANGED <<mic, host, terminated, unlisted, buffer>>

(* Microphone::sample, from any thread: it is sent if a stream is open,    *)
(* whatever format it was captured in. *)
Sample ==
  /\ open # Silence /\ channel = "open"
  /\ buffer' = [as |-> told, read |-> reads, crossing |-> ~ Idle]
  /\ UNCHANGED <<mic, host, emit, told, terminated, unlisted>>

-----------------------------------------------------------------------------
Offer == UNION { [1 .. n -> Format] : n \in 0 .. MaxFormats }

MicNext ==
  \/ OpenChannel \/ CloseChannel \/ Refuse \/ Terminate
  \/ \E offer \in Offer : Formats(offer)
  \/ \E i \in 1 .. MaxFormats : Choose(i) \/ Decline(i)
  \/ Emit \/ Sample

MicSpec == MicInit /\ [][MicNext]_micvars

-----------------------------------------------------------------------------
(* The host reads every buffer in the format in which it was captured,     *)
(* through changes of the format, of the list and of the channel; only one *)
(* that crosses an event under way may be off. (The exception is a host    *)
(* that was let open a format it was never advertised.)                    *)
HostHearsRight ==
  ~ unlisted /\ ~ buffer.crossing => buffer.as = buffer.read

(* Between two events the embedder knows whether and in which format the   *)
(* host reads: nothing is captured for nobody, after a termination either. *)
EmbedderIsTold == Idle => told = open

(* An index that was not advertised on this channel is declined, with one  *)
(* exception: plugin_terminated leaves the list of the session before.     *)
UnlistedOnlyAfterTermination == unlisted => terminated
=============================================================================
