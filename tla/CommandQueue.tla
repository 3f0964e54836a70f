---------------------------- MODULE CommandQueue ----------------------------
(***************************************************************************)
(* The command queue of session.rs: Shared::push and Shared::drain over a  *)
(* VecDeque under a mutex and a manual-reset WinPR event, and the event    *)
(* loop that waits on that event beside FreeRDP's own handles.             *)
(*                                                                         *)
(* A push is two steps, an insertion and a SetEvent, and a drain is two    *)
(* steps, a ResetEvent and a take; every interleaving of them by any       *)
(* number of threads is a behaviour here.  A command is its sender and its *)
(* number: what it carries is executed elsewhere.                          *)
(***************************************************************************)
EXTENDS Naturals, Sequences

CONSTANTS Caller,     (* threads that push input; a channel thread is one  *)
          Owner,      (* the thread that drops the Session                 *)
          MaxPush     (* bound: commands pushed by one caller              *)

ASSUME CommandQueueAssumption == Owner \notin Caller /\ MaxPush \in Nat

Thread == Caller \cup {Owner}

(* A caller's n-th command, and the one of the owner. *)
Input    == Caller \X (1 .. MaxPush)
Shutdown == <<Owner, 1>>
Command  == Input \cup {Shutdown}

VARIABLES queue,      (* Shared::queue                                     *)
          wake,       (* Shared::wake, the event                           *)
          pushed,     (* how many commands each thread has inserted        *)
          signalling, (* threads between push_back and SetEvent            *)
          loop,       (* where the session thread is                       *)
          batch,      (* what drain took and the loop has not executed     *)
          executed    (* history: commands executed, oldest first          *)

qvars == <<queue, wake, pushed, signalling, loop, batch, executed>>

LoopPC == {"starting",  (* no event loop yet: freerdp_connect and before   *)
           "waiting",   (* in WaitForMultipleObjects                       *)
           "woken",     (* the wait has returned                           *)
           "reset",     (* in drain, the event reset, the queue not taken  *)
           "draining",  (* executing the batch                             *)
           "closed"}    (* event_loop has returned, or was never entered   *)

TypeOK == /\ queue \in Seq(Command)
          /\ wake \in BOOLEAN
          /\ pushed \in [Thread -> Nat]
          /\ signalling \in SUBSET Thread
          /\ loop \in LoopPC
          /\ batch \in Seq(Command)
          /\ executed \in Seq(Input)

Init == /\ queue = <<>>
        /\ wake = FALSE
        /\ pushed = [t \in Thread |-> 0]
        /\ signalling = {}
        /\ loop = "starting"
        /\ batch = <<>>
        /\ executed = <<>>

-----------------------------------------------------------------------------
(* Slips: each replaces one definition below, to see that a property       *)
(* notices.  They are no part of the specification.                        *)

(* The newest command is put in front. *)
InsertFront(t) ==
  /\ t \notin signalling
  /\ <<t, pushed[t] + 1>> \in Command
  /\ queue' = <<<<t, pushed[t] + 1>>>> \o queue
  /\ pushed' = [pushed EXCEPT ![t] = @ + 1]
  /\ signalling' = signalling \cup {t}
  /\ UNCHANGED <<wake, loop, batch, executed>>

(* Shutdown is pushed and not signalled. *)
SignalInputOnly(t) ==
  /\ t \in signalling
  /\ wake' = (wake \/ t # Owner)
  /\ signalling' = signalling \ {t}
  /\ UNCHANGED <<queue, pushed, loop, batch, executed>>

(* The event is reset after the drain. *)
ResetLate ==
  /\ loop = "draining"
  /\ batch = <<>>
  /\ loop' = "waiting"
  /\ wake' = FALSE
  /\ UNCHANGED <<queue, pushed, signalling, batch, executed>>

-----------------------------------------------------------------------------
(* Shared::push: the insertion, under the queue's mutex ... *)
Insert(t) ==
  /\ t \notin signalling
  /\ <<t, pushed[t] + 1>> \in Command
  /\ queue' = Append(queue, <<t, pushed[t] + 1>>)
  /\ pushed' = [pushed EXCEPT ![t] = @ + 1]
  /\ signalling' = signalling \cup {t}
  /\ UNCHANGED <<wake, loop, batch, executed>>

(* ... and the SetEvent, outside it. *)
Signal(t) ==
  /\ t \in signalling
  /\ wake' = TRUE
  /\ signalling' = signalling \ {t}
  /\ UNCHANGED <<queue, pushed, loop, batch, executed>>

-----------------------------------------------------------------------------
(* freerdp_connect has succeeded and the event loop starts. *)
EnterLoop ==
  /\ loop = "starting"
  /\ loop' = "waiting"
  /\ UNCHANGED <<queue, wake, pushed, signalling, batch, executed>>

(* The wait returns because slot zero, the queue's event, is signalled. *)
WokenByQueue ==
  /\ loop = "waiting"
  /\ wake
  /\ loop' = "woken"
  /\ UNCHANGED <<queue, wake, pushed, signalling, batch, executed>>

(* It returns for one of FreeRDP's handles, or for the debounce timeout. *)
WokenByFreeRDP ==
  /\ loop = "waiting"
  /\ loop' = "woken"
  /\ UNCHANGED <<queue, wake, pushed, signalling, batch, executed>>

(* drain: ResetEvent first ... *)
Reset ==
  /\ loop = "woken"
  /\ loop' = "reset"
  /\ wake' = FALSE
  /\ UNCHANGED <<queue, pushed, signalling, batch, executed>>

(* ... then the whole queue, under its mutex. *)
Take ==
  /\ loop = "reset"
  /\ loop' = "draining"
  /\ batch' = queue
  /\ queue' = <<>>
  /\ UNCHANGED <<wake, pushed, signalling, executed>>

Execute ==
  /\ loop = "draining"
  /\ batch # <<>>
  /\ Head(batch) # Shutdown
  /\ executed' = Append(executed, Head(batch))
  /\ batch' = Tail(batch)
  /\ UNCHANGED <<queue, wake, pushed, signalling, loop>>

(* Command::Shutdown: the loop returns and the rest of the batch with it. *)
Close ==
  /\ loop = "draining"
  /\ batch # <<>>
  /\ Head(batch) = Shutdown
  /\ loop' = "closed"
  /\ batch' = <<>>
  /\ UNCHANGED <<queue, wake, pushed, signalling, executed>>

(* The batch is done, FreeRDP's handles are checked: the next iteration. *)
Iterate ==
  /\ loop = "draining"
  /\ batch = <<>>
  /\ loop' = "waiting"
  /\ UNCHANGED <<queue, wake, pushed, signalling, batch, executed>>

(* The connection is over: the connect failed, FreeRDP has no handles left *)
(* or reports a disconnection, or the wait or a reconnect failed.          *)
Fail ==
  /\ \/ loop \in {"starting", "waiting"}
     \/ loop = "draining" /\ batch = <<>>
  /\ loop' = "closed"
  /\ UNCHANGED <<queue, wake, pushed, signalling, batch, executed>>

-----------------------------------------------------------------------------
Push(t)  == Insert(t) \/ Signal(t)
LoopStep == \/ EnterLoop \/ WokenByQueue \/ Reset \/ Take
            \/ Execute \/ Close \/ Iterate

Next == \/ \E t \in Thread : Push(t)
        \/ LoopStep
        \/ WokenByFreeRDP
        \/ Fail

(* A thread inside push finishes it; the session thread is scheduled.      *)
(* Nobody has to push, the network may stay silent and need not fail.      *)
Fairness == /\ \A t \in Thread : WF_qvars(Signal(t))
            /\ WF_qvars(LoopStep)

Spec == Init /\ [][Next]_qvars /\ Fairness

-----------------------------------------------------------------------------
(* No keystroke arrives a keystroke late: when the loop is blocked with    *)
(* commands queued, the event is set or some push is about to set it.      *)
NoLostWakeup ==
  loop = "waiting" /\ queue # <<>> => wake \/ signalling # {}

(* push and drain together are the mailbox: commands are executed in the   *)
(* order in which they were inserted, each once, none is skipped, and none *)
(* behind a shutdown is executed.                                          *)
AbstractMailbox ==
  INSTANCE Mailbox WITH
    Shutdown <- {Shutdown},
    box  <- IF loop = "closed" THEN <<>> ELSE batch \o queue,
    done <- executed,
    open <- loop # "closed"

ImplementsMailbox == AbstractMailbox!Spec

(* Every command that was pushed is executed, and Shutdown ends the loop,  *)
(* unless the connection is lost first: no push is forgotten, however the  *)
(* two halves of it fall between those of a drain.                         *)
EveryCommandIsServed ==
  \A c \in Command :
    (pushed[c[1]] >= c[2])
      ~> (loop = "closed" \/ \E i \in DOMAIN executed : executed[i] = c)
=============================================================================
