------------------------------ MODULE Session ------------------------------
(***************************************************************************)
(* The life of one session (session.rs): Session::start spawns the FreeRDP *)
(* thread; that thread builds a context, publishes it, connects, runs the  *)
(* event loop of CommandQueue and takes everything down again; and the     *)
(* owner, in Drop for Session, aborts a connect, pushes Shutdown and joins.*)
(***************************************************************************)
EXTENDS Naturals, Sequences

CONSTANTS Caller, Owner, MaxPush    (* as in CommandQueue *)

ASSUME SessionAssumption == Owner \notin Caller /\ MaxPush \in Nat

VARIABLES queue, wake, pushed, signalling, loop, batch, executed

Queue == INSTANCE CommandQueue
qvars == <<queue, wake, pushed, signalling, loop, batch, executed>>

VARIABLES stage,      (* where the FreeRDP thread is                       *)
          ctx,        (* the rdpContext: "none", "live" or "freed"         *)
          bridge,     (* the Bridge box: "none", "boxed" or "dropped"      *)
          published,  (* ContextPtr::ctx is not null                       *)
          aborted,    (* ContextPtr::aborted                               *)
          abortEvent, (* FreeRDP's abort event of this context             *)
          owner,      (* where the owner is                                *)
          target,     (* the owner read a context to signal, under the lock*)
          abortedAt,  (* history: stage at which the event was last set by *)
                      (* the owner, "never" before                         *)
          panicked    (* history: an assertion of run failed               *)

(* what only the owner writes, what only the FreeRDP thread writes *)
owned == <<owner, target, aborted, abortedAt>>
run   == <<stage, ctx, bridge, published, panicked>>
lvars == <<owned, run, abortEvent>>
vars  == <<qvars, lvars>>

Stage == {"context", "publish", "bridge", "configure", "check", "entry",
          "connecting", "loop", "reconnecting", "withdraw", "free",
          "reclaim", "report", "exit", "gone"}

OwnerPC == {"holding", "aborting", "pushing", "signalling", "joining", "joined"}

TypeOK == /\ stage \in Stage
          /\ ctx \in {"none", "live", "freed"}
          /\ bridge \in {"none", "boxed", "dropped"}
          /\ published \in BOOLEAN
          /\ aborted \in BOOLEAN
          /\ abortEvent \in BOOLEAN
          /\ owner \in OwnerPC
          /\ target \in BOOLEAN
          /\ abortedAt \in Stage \cup {"never"}
          /\ panicked \in BOOLEAN

Init == /\ Queue!Init
        /\ stage = "context"
        /\ ctx = "none"
        /\ bridge = "none"
        /\ published = FALSE
        /\ aborted = FALSE
        /\ abortEvent = FALSE
        /\ owner = "holding"
        /\ target = FALSE
        /\ abortedAt = "never"
        /\ panicked = FALSE

(* The mutex around ContextPtr: the owner holds it across abort_connect,   *)
(* every other section under it is one step of the FreeRDP thread.         *)
ContextUnlocked == owner # "aborting"

Goto(from, to) == stage = from /\ stage' = to

-----------------------------------------------------------------------------
(* Slips: each replaces one definition below, to see that a property       *)
(* notices.  They are no part of the specification.                        *)

(* The connect is started without asking. *)
ConnectRegardless ==
  /\ Goto("check", "entry")
  /\ UNCHANGED <<qvars, ctx, bridge, published, abortEvent, panicked, owned>>

(* The pointer is nulled without the lock. *)
WithdrawUnlocked ==
  /\ Goto("withdraw", "free")
  /\ published' = FALSE
  /\ UNCHANGED <<qvars, ctx, bridge, abortEvent, panicked, owned>>

(* The box is not reclaimed. *)
LeakBridge ==
  /\ Goto("reclaim", "report")
  /\ UNCHANGED <<qvars, ctx, bridge, published, abortEvent, panicked, owned>>

(* The context is withdrawn when it is taken down to be reconnected. *)
WithdrawToReconnect ==
  /\ Goto("loop", "reconnecting")
  /\ loop = "draining" /\ batch = <<>>
  /\ abortEvent' \in {abortEvent, FALSE}
  /\ published' = FALSE
  /\ UNCHANGED <<qvars, ctx, bridge, panicked, owned>>

(* Drop relies on the abort alone. *)
PushNothing ==
  /\ owner = "pushing"
  /\ owner' = "joining"
  /\ UNCHANGED <<qvars, run, abortEvent, target, aborted, abortedAt>>

-----------------------------------------------------------------------------
(* run: the FreeRDP thread, up to the connect.                             *)

NewContext ==
  /\ Goto("context", "publish")
  /\ ctx' = "live"
  /\ UNCHANGED <<qvars, bridge, published, abortEvent, panicked, owned>>

(* freerdp_client_context_new returned null. *)
NoContext ==
  /\ Goto("context", "report")
  /\ Queue!Fail
  /\ UNCHANGED <<ctx, bridge, published, abortEvent, panicked, owned>>

PublishContext ==
  /\ Goto("publish", "bridge")
  /\ ContextUnlocked
  /\ published' = TRUE
  /\ UNCHANGED <<qvars, ctx, bridge, abortEvent, panicked, owned>>

BoxBridge ==
  /\ Goto("bridge", "configure")
  /\ bridge' = "boxed"
  /\ UNCHANGED <<qvars, ctx, published, abortEvent, panicked, owned>>

(* apply_settings, subscribe_channels and install_provider succeed ... *)
Configure ==
  /\ Goto("configure", "check")
  /\ UNCHANGED <<qvars, ctx, bridge, published, abortEvent, panicked, owned>>

(* ... or one of them returns an error ... *)
Misconfigure ==
  /\ Goto("configure", "withdraw")
  /\ Queue!Fail
  /\ UNCHANGED <<ctx, bridge, published, abortEvent, panicked, owned>>

(* ... or an assertion in them fails: run unwinds, dropping the guard,     *)
(* which frees the context, and not the bridge, which is a raw pointer.    *)
Panic ==
  /\ Goto("configure", "report")
  /\ Queue!Fail
  /\ ctx' = "freed"
  /\ panicked' = TRUE
  /\ UNCHANGED <<bridge, published, abortEvent, owned>>

(* Shared::abort_requested, just before the connect. *)
CheckAbort ==
  /\ ContextUnlocked
  /\ \/ aborted /\ Goto("check", "withdraw") /\ Queue!Fail
     \/ ~ aborted /\ Goto("check", "entry") /\ UNCHANGED qvars
  /\ UNCHANGED <<ctx, bridge, published, abortEvent, panicked, owned>>

-----------------------------------------------------------------------------
(* freerdp_connect resets the abort event as its first act ... *)
BeginConnect ==
  /\ Goto("entry", "connecting")
  /\ abortEvent' = FALSE
  /\ UNCHANGED <<qvars, ctx, bridge, published, panicked, owned>>

(* ... and comes back with a session, *)
Connected ==
  /\ Goto("connecting", "loop")
  /\ Queue!EnterLoop
  /\ UNCHANGED <<ctx, bridge, published, abortEvent, panicked, owned>>

(* with an error of the network or the server, or a timeout, *)
ConnectFails ==
  /\ Goto("connecting", "withdraw")
  /\ Queue!Fail
  /\ UNCHANGED <<ctx, bridge, published, abortEvent, panicked, owned>>

(* or because somebody set the event meanwhile. *)
ConnectAborted == abortEvent /\ ConnectFails

-----------------------------------------------------------------------------
(* The event loop. *)

Serve ==
  /\ stage = "loop"
  /\ \/ Queue!WokenByQueue \/ Queue!Reset \/ Queue!Take
     \/ Queue!Execute \/ Queue!Iterate
  /\ UNCHANGED lvars

Wake ==
  /\ stage = "loop"
  /\ Queue!WokenByFreeRDP
  /\ UNCHANGED lvars

(* Command::Shutdown: abort FreeRDP's own waits and return. *)
ServeShutdown ==
  /\ Goto("loop", "withdraw")
  /\ Queue!Close
  /\ abortEvent' = TRUE
  /\ UNCHANGED <<ctx, bridge, published, panicked, owned>>

(* The connection is over, or the wait failed. *)
Disconnected ==
  /\ Goto("loop", "withdraw")
  /\ Queue!Fail
  /\ UNCHANGED <<ctx, bridge, published, abortEvent, panicked, owned>>

(* A due reconnect_resize. Unlike the first connect nothing is checked     *)
(* before it; whether freerdp_reconnect resets the abort event is          *)
(* FreeRDP's to say, and both are possible here.                           *)
BeginReconnect ==
  /\ Goto("loop", "reconnecting")
  /\ loop = "draining" /\ batch = <<>>
  /\ abortEvent' \in {abortEvent, FALSE}
  /\ UNCHANGED <<qvars, ctx, bridge, published, panicked, owned>>

Reconnected ==
  /\ Goto("reconnecting", "loop")
  /\ Queue!Iterate
  /\ UNCHANGED <<ctx, bridge, published, abortEvent, panicked, owned>>

ReconnectFails ==
  /\ Goto("reconnecting", "withdraw")
  /\ Queue!Fail
  /\ UNCHANGED <<ctx, bridge, published, abortEvent, panicked, owned>>

ReconnectAborted == abortEvent /\ ReconnectFails

-----------------------------------------------------------------------------
(* run again, on its way out. *)

WithdrawContext ==
  /\ Goto("withdraw", "free")
  /\ ContextUnlocked
  /\ published' = FALSE
  /\ UNCHANGED <<qvars, ctx, bridge, abortEvent, panicked, owned>>

FreeContext ==
  /\ Goto("free", "reclaim")
  /\ ctx' = "freed"
  /\ UNCHANGED <<qvars, bridge, published, abortEvent, panicked, owned>>

DropBridge ==
  /\ Goto("reclaim", "report")
  /\ bridge' = "dropped"
  /\ UNCHANGED <<qvars, ctx, published, abortEvent, panicked, owned>>

(* Event::Ended is sent, then the closure returns and drops its Sender. *)
Report ==
  /\ \/ Goto("report", "exit") \/ Goto("exit", "gone")
  /\ UNCHANGED <<qvars, ctx, bridge, published, abortEvent, panicked, owned>>

-----------------------------------------------------------------------------
(* Drop for Session. *)

(* abort_connect takes the lock, records the request and reads the         *)
(* pointer. *)
AbortBegin ==
  /\ owner = "holding"
  /\ owner' = "aborting"
  /\ aborted' = TRUE
  /\ target' = published
  /\ UNCHANGED <<qvars, run, abortEvent, abortedAt>>

(* Still holding the lock, it signals the context if it read one. *)
AbortSignal ==
  /\ owner = "aborting"
  /\ owner' = "pushing"
  /\ abortEvent' = (target \/ abortEvent)
  /\ abortedAt' = IF target THEN stage ELSE abortedAt
  /\ UNCHANGED <<qvars, run, aborted, target>>

(* Then Drop pushes the command ... *)
PushShutdown ==
  /\ \/ owner = "pushing" /\ owner' = "signalling" /\ Queue!Insert(Owner)
     \/ owner = "signalling" /\ owner' = "joining" /\ Queue!Signal(Owner)
  /\ UNCHANGED <<run, abortEvent, target, aborted, abortedAt>>

(* ... and waits for the thread to be gone. *)
Join ==
  /\ owner = "joining"
  /\ stage = "gone"
  /\ owner' = "joined"
  /\ UNCHANGED <<qvars, run, abortEvent, target, aborted, abortedAt>>

(* Other threads push input at any time, after the session ended too. *)
CallerPush == (\E c \in Caller : Queue!Push(c)) /\ UNCHANGED lvars

-----------------------------------------------------------------------------
(* What the FreeRDP thread does without waiting for the network. *)
Advance == \/ NewContext \/ NoContext \/ PublishContext \/ BoxBridge
           \/ Configure \/ Misconfigure \/ Panic \/ CheckAbort
           \/ BeginConnect \/ ConnectAborted \/ ReconnectAborted
           \/ Serve \/ ServeShutdown
           \/ WithdrawContext \/ FreeContext \/ DropBridge \/ Report

(* What it waits for. *)
ConnectReturns   == Connected \/ ConnectFails
ReconnectReturns == Reconnected \/ ReconnectFails

DropStep == AbortSignal \/ PushShutdown \/ Join

Next == \/ Advance
        \/ ConnectReturns \/ ReconnectReturns
        \/ Wake \/ BeginReconnect \/ Disconnected
        \/ AbortBegin \/ DropStep
        \/ CallerPush

(* Threads are scheduled. The network owes nothing: a connect into a black *)
(* hole returns only when it is aborted, unless BoundedConnect.            *)
Fairness == WF_vars(Advance) /\ WF_vars(DropStep)

Spec == Init /\ [][Next]_vars /\ Fairness

(* connect_timeout: a connect or a reconnect returns eventually. *)
BoundedConnect == WF_vars(ConnectReturns) /\ WF_vars(ReconnectReturns)

-----------------------------------------------------------------------------
(* abort_connect never signals a context that has been freed: the lock is  *)
(* held across the signal and the pointer is withdrawn under it before the *)
(* free. (A failed assertion in run is the exception; see below.)          *)
AbortSignalsLiveContext ==
  owner = "aborting" /\ target /\ ~ panicked => ctx = "live"

(* "the session thread nulls it -- under that same mutex -- before         *)
(* ContextGuard frees the context" (the SAFETY note on ContextPtr), with   *)
(* no exception for the unwinding of a panic.                              *)
NulledBeforeFreed == published => ctx = "live"

(* Once the owner has asked for an abort, a connect can be running with    *)
(* the event unset in one case only: the signal fell between the check of  *)
(* abort_requested and the reset at the start of freerdp_connect.          *)
AbortLostOnlyInWindow ==
  stage = "connecting" /\ aborted /\ owner # "aborting"
    => abortEvent \/ abortedAt = "entry"

(* Dropping a session always returns, if a connect is bounded at all ... *)
DropReturns ==
  BoundedConnect => ((owner = "aborting") ~> (owner = "joined"))

(* ... and does not wait for the network: not even a connect into a black  *)
(* hole delays it, nor a reconnect that is under way, unless the abort     *)
(* fell into that window, or a reconnect that began after the abort was    *)
(* signalled has reset it. (While the owner is aborting nothing has been   *)
(* signalled, so neither exception holds yet.)                             *)
ResetByReconnect ==
  stage = "reconnecting" /\ abortedAt # "never" /\ ~ abortEvent

DropIsPrompt ==
  (owner = "aborting")
    ~> (owner = "joined" \/ abortedAt = "entry" \/ ResetByReconnect)

(* After Event::Ended the event channel closes: every Sender, the one in   *)
(* the bridge and the one of the thread, is dropped.                       *)
ChannelClosed == stage = "gone" /\ bridge # "boxed"
EndedClosesChannel == (stage = "exit" /\ ~ panicked) ~> ChannelClosed
=============================================================================
