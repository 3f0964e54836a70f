---------------------------- MODULE SessionProofs ----------------------------
(***************************************************************************)
(* What the context mutex and the order of run guarantee for any callers:  *)
(* an abort never touches a freed context, and is lost in one window only. *)
(* Then that the session drives the queue as CommandQueue says, so that    *)
(* what is proved of the queue holds here, and that no bridge outlives it. *)
(***************************************************************************)
EXTENDS Session, SequenceTheorems, TLAPS

(* The stages in which run holds a published context. *)
Exposed == {"bridge", "configure", "check", "entry", "connecting", "loop",
            "reconnecting", "withdraw"}

(* The context lives from its creation to the guard's drop, and is         *)
(* published for less long than that; the owner, inside the lock, holds    *)
(* the pointer that is still published.                                    *)
ContextInv ==
  /\ stage = "context" => ~ panicked
  /\ stage \in Exposed \cup {"publish", "free"} => ctx = "live" /\ ~ panicked
  /\ stage \in Exposed => published
  /\ published /\ ~ panicked => stage \in Exposed
  /\ owner = "aborting" => target = published

(* Between the check and the reset an abort is already lost. *)
WindowInv ==
  /\ stage = "entry" /\ aborted /\ owner # "aborting" => abortedAt = "entry"
  /\ AbortLostOnlyInWindow

(* The steps of the owner and the steps of the FreeRDP thread. *)
OwnerStep == AbortBegin \/ DropStep
Waited    == \/ ConnectReturns \/ ReconnectReturns
             \/ Wake \/ BeginReconnect \/ Disconnected

LEMMA NextCases == Next => Advance \/ Waited \/ OwnerStep \/ CallerPush
BY DEF Next, Waited, OwnerStep

-----------------------------------------------------------------------------
(* Every variable of the lifecycle keeps its type: no null context is      *)
(* published, no stage is skipped into the unknown.                        *)
THEOREM LifecycleTypes == Spec => []TypeOK
<1> USE DEF TypeOK, Stage, OwnerPC
<1>1. Init => TypeOK
  BY DEF Init
<1>2. TypeOK /\ [Next]_vars => TypeOK'
  <2> SUFFICES ASSUME TypeOK, [Next]_vars
               PROVE  TypeOK'
    OBVIOUS
  <2> USE DEF lvars, run, owned, Goto
  <2>1. CASE Advance
    <3>1. CASE NewContext \/ NoContext \/ PublishContext \/ BoxBridge
      BY <3>1 DEF NewContext, NoContext, PublishContext, BoxBridge
    <3>2. CASE Configure \/ Misconfigure \/ Panic \/ CheckAbort
      BY <3>2 DEF Configure, Misconfigure, Panic, CheckAbort
    <3>3. CASE BeginConnect \/ ConnectAborted \/ ReconnectAborted
      BY <3>3 DEF BeginConnect, ConnectAborted, ConnectFails,
                  ReconnectAborted, ReconnectFails
    <3>4. CASE Serve \/ ServeShutdown
      BY <3>4 DEF Serve, ServeShutdown
    <3>5. CASE WithdrawContext \/ FreeContext \/ DropBridge \/ Report
      BY <3>5 DEF WithdrawContext, FreeContext, DropBridge, Report
    <3>. QED
      BY <2>1, <3>1, <3>2, <3>3, <3>4, <3>5 DEF Advance
  <2>2. CASE Waited
    BY <2>2 DEF Waited, ConnectReturns, ReconnectReturns, Connected,
                ConnectFails, Reconnected, ReconnectFails, Wake,
                BeginReconnect, Disconnected
  <2>3. CASE OwnerStep
    BY <2>3 DEF OwnerStep, DropStep, AbortBegin, AbortSignal, PushShutdown, Join
  <2>4. CASE CallerPush
    BY <2>4 DEF CallerPush
  <2>5. CASE UNCHANGED vars
    BY <2>5 DEF vars
  <2>. QED
    BY <2>1, <2>2, <2>3, <2>4, <2>5, NextCases
<1>. QED
  BY <1>1, <1>2, PTL DEF Spec

-----------------------------------------------------------------------------
LEMMA ContextInvariant == Spec => []ContextInv
<1> USE DEF ContextInv, Exposed
<1>1. Init => ContextInv
  BY DEF Init
<1>2. TypeOK /\ ContextInv /\ [Next]_vars => ContextInv'
  <2> SUFFICES ASSUME TypeOK, ContextInv, [Next]_vars
               PROVE  ContextInv'
    OBVIOUS
  <2> USE DEF lvars, run, owned, Goto, ContextUnlocked
  <2>1. CASE Advance
    <3>1. CASE NewContext \/ NoContext \/ PublishContext \/ BoxBridge
      BY <3>1 DEF NewContext, NoContext, PublishContext, BoxBridge
    <3>2. CASE Configure \/ Misconfigure \/ Panic \/ CheckAbort
      BY <3>2 DEF Configure, Misconfigure, Panic, CheckAbort
    <3>3. CASE BeginConnect \/ ConnectAborted \/ ReconnectAborted
      BY <3>3 DEF BeginConnect, ConnectAborted, ConnectFails,
                  ReconnectAborted, ReconnectFails
    <3>4. CASE Serve \/ ServeShutdown
      BY <3>4 DEF Serve, ServeShutdown
    <3>5. CASE WithdrawContext \/ FreeContext \/ DropBridge \/ Report
      BY <3>5 DEF WithdrawContext, FreeContext, DropBridge, Report
    <3>. QED
      BY <2>1, <3>1, <3>2, <3>3, <3>4, <3>5 DEF Advance
  <2>2. CASE Waited
    <3>1. CASE ConnectReturns
      BY <3>1 DEF ConnectReturns, Connected, ConnectFails
    <3>2. CASE ReconnectReturns
      BY <3>2 DEF ReconnectReturns, Reconnected, ReconnectFails
    <3>3. CASE Wake
      BY <3>3 DEF Wake
    <3>4. CASE BeginReconnect
      BY <3>4 DEF BeginReconnect
    <3>5. CASE Disconnected
      BY <3>5 DEF Disconnected
    <3>. QED
      BY <2>2, <3>1, <3>2, <3>3, <3>4, <3>5 DEF Waited
  <2>3. CASE OwnerStep
    BY <2>3 DEF OwnerStep, DropStep, AbortBegin, AbortSignal, PushShutdown, Join
  <2>4. CASE CallerPush
    BY <2>4 DEF CallerPush
  <2>5. CASE UNCHANGED vars
    BY <2>5 DEF vars
  <2>. QED
    BY <2>1, <2>2, <2>3, <2>4, <2>5, NextCases
<1>. QED
  BY <1>1, <1>2, LifecycleTypes, PTL DEF Spec

(* abort_connect signals only a context that has not been freed, as long   *)
(* as no assertion of run failed: the claim behind unsafe impl Send for    *)
(* ContextPtr.                                                             *)
THEOREM AbortIsSound == Spec => []AbortSignalsLiveContext
<1>1. ContextInv => AbortSignalsLiveContext
  BY DEF ContextInv, Exposed, AbortSignalsLiveContext
<1>. QED
  BY <1>1, ContextInvariant, PTL

-----------------------------------------------------------------------------
(* A connect that runs on although the owner asked for an abort got past   *)
(* abort_requested before the request and reset the event after it: the    *)
(* window the note on abort_requested admits, and no other.                *)
THEOREM AbortWindow == Spec => []AbortLostOnlyInWindow
<1> USE DEF WindowInv, AbortLostOnlyInWindow
<1>1. Init => WindowInv
  BY DEF Init
<1>2. TypeOK /\ ContextInv /\ WindowInv /\ [Next]_vars => WindowInv'
  <2> SUFFICES ASSUME TypeOK, ContextInv, WindowInv, [Next]_vars
               PROVE  WindowInv'
    OBVIOUS
  <2> USE DEF lvars, run, owned, Goto, ContextUnlocked
  <2>1. CASE Advance
    <3>1. CASE NewContext \/ NoContext \/ PublishContext \/ BoxBridge
      BY <3>1 DEF NewContext, NoContext, PublishContext, BoxBridge
    <3>2. CASE Configure \/ Misconfigure \/ Panic \/ CheckAbort
      BY <3>2 DEF Configure, Misconfigure, Panic, CheckAbort
    <3>3. CASE BeginConnect \/ ConnectAborted \/ ReconnectAborted
      BY <3>3 DEF BeginConnect, ConnectAborted, ConnectFails,
                  ReconnectAborted, ReconnectFails
    <3>4. CASE Serve \/ ServeShutdown
      BY <3>4 DEF Serve, ServeShutdown
    <3>5. CASE WithdrawContext \/ FreeContext \/ DropBridge \/ Report
      BY <3>5 DEF WithdrawContext, FreeContext, DropBridge, Report
    <3>. QED
      BY <2>1, <3>1, <3>2, <3>3, <3>4, <3>5 DEF Advance
  <2>2. CASE Waited
    BY <2>2 DEF Waited, ConnectReturns, ReconnectReturns, Connected,
                ConnectFails, Reconnected, ReconnectFails, Wake,
                BeginReconnect, Disconnected
  <2>3. CASE OwnerStep
    <3>1. CASE AbortBegin \/ PushShutdown \/ Join
      BY <2>3, <3>1 DEF AbortBegin, PushShutdown, Join
    <3>2. CASE AbortSignal
      <4>1. stage \in {"entry", "connecting"} => target
        BY <3>2 DEF AbortSignal, ContextInv, Exposed, TypeOK
      <4>. QED
        BY <3>2, <4>1 DEF AbortSignal
    <3>. QED
      BY <2>3, <3>1, <3>2 DEF OwnerStep, DropStep
  <2>4. CASE CallerPush
    BY <2>4 DEF CallerPush
  <2>5. CASE UNCHANGED vars
    BY <2>5 DEF vars
  <2>. QED
    BY <2>1, <2>2, <2>3, <2>4, <2>5, NextCases
<1>3. WindowInv => AbortLostOnlyInWindow
  OBVIOUS
<1>. QED
  BY <1>1, <1>2, <1>3, LifecycleTypes, ContextInvariant, PTL DEF Spec
-----------------------------------------------------------------------------
(* A thread that waits for the network after abort_connect has returned    *)
(* was signalled: what DropIsPrompt says of connects and reconnects that   *)
(* are under way, without saying that they return.                         *)
NetworkIsSignalled ==
  stage \in {"connecting", "reconnecting"} /\ owner \notin {"holding", "aborting"}
    => abortedAt # "never"

(* Past the check only a request that is to come has not been signalled.   *)
SignalInv ==
  /\ aborted <=> owner # "holding"
  /\ stage \in {"entry", "connecting", "loop", "reconnecting"}
       /\ owner \notin {"holding", "aborting"}
       => abortedAt # "never"

(* The request and the signal meet whatever blocks, the first connect and  *)
(* every reconnect: an abort before the context is published is honoured   *)
(* at the check, a later one finds the pointer.                            *)
THEOREM AbortReachesNetwork == Spec => []NetworkIsSignalled
<1>1. Init => SignalInv
  BY DEF Init, SignalInv
<1>2. TypeOK /\ ContextInv /\ SignalInv /\ [Next]_vars => SignalInv'
  <2> SUFFICES ASSUME TypeOK, ContextInv, SignalInv, [Next]_vars
               PROVE  SignalInv'
    OBVIOUS
  <2> USE DEF lvars, run, owned, Goto, SignalInv
  <2>1. CASE Advance
    <3>1. CASE NewContext \/ NoContext \/ PublishContext \/ BoxBridge
      BY <3>1 DEF NewContext, NoContext, PublishContext, BoxBridge
    <3>2. CASE Configure \/ Misconfigure \/ Panic \/ CheckAbort
      BY <3>2 DEF Configure, Misconfigure, Panic, CheckAbort
    <3>3. CASE BeginConnect \/ ConnectAborted \/ ReconnectAborted
      BY <3>3 DEF BeginConnect, ConnectAborted, ConnectFails,
                  ReconnectAborted, ReconnectFails
    <3>4. CASE Serve \/ ServeShutdown
      BY <3>4 DEF Serve, ServeShutdown
    <3>5. CASE WithdrawContext \/ FreeContext \/ DropBridge \/ Report
      BY <3>5 DEF WithdrawContext, FreeContext, DropBridge, Report
    <3>. QED
      BY <2>1, <3>1, <3>2, <3>3, <3>4, <3>5 DEF Advance
  <2>2. CASE Waited
    <3>1. CASE Connected
      BY <3>1 DEF Connected
    <3>2. CASE BeginReconnect
      BY <3>2 DEF BeginReconnect
    <3>3. CASE Reconnected
      BY <3>3 DEF Reconnected
    <3>4. CASE ConnectFails \/ ReconnectFails \/ Disconnected \/ Wake
      BY <3>4 DEF ConnectFails, ReconnectFails, Disconnected, Wake
    <3>. QED
      BY <2>2, <3>1, <3>2, <3>3, <3>4
         DEF Waited, ConnectReturns, ReconnectReturns
  <2>3. CASE OwnerStep
    <3>1. CASE AbortBegin \/ PushShutdown \/ Join
      BY <2>3, <3>1 DEF AbortBegin, PushShutdown, Join
    <3>2. CASE AbortSignal
      <4>1. stage # "never"
        BY DEF TypeOK, Stage
      <4>2. stage \in {"entry", "connecting", "loop", "reconnecting"} => target
        BY <3>2 DEF AbortSignal, ContextInv, Exposed
      <4>. QED
        BY <3>2, <4>1, <4>2 DEF AbortSignal
    <3>. QED
      BY <2>3, <3>1, <3>2 DEF OwnerStep, DropStep
  <2>4. CASE CallerPush
    BY <2>4 DEF CallerPush
  <2>5. CASE UNCHANGED vars
    BY <2>5 DEF vars
  <2>. QED
    BY <2>1, <2>2, <2>3, <2>4, <2>5, NextCases
<1>3. SignalInv => NetworkIsSignalled
  BY DEF SignalInv, NetworkIsSignalled
<1>. QED
  BY <1>1, <1>2, <1>3, LifecycleTypes, ContextInvariant, PTL DEF Spec

-----------------------------------------------------------------------------
(* What a session does to the queue, its steps being many more, is what    *)
(* CommandQueue says can be done to it, or nothing.                        *)
LEMMA QueueStep == [Next]_vars => [Queue!Next]_qvars
<1> SUFFICES ASSUME [Next]_vars PROVE Queue!Next \/ UNCHANGED qvars
  BY DEF Queue!qvars, qvars
<1> USE DEF lvars, Queue!Next, Queue!LoopStep, Queue!Push
<1>1. CASE Advance
  <2>1. CASE NewContext \/ NoContext \/ PublishContext \/ BoxBridge
    BY <2>1 DEF NewContext, NoContext, PublishContext, BoxBridge
  <2>2. CASE Configure \/ Misconfigure \/ Panic \/ CheckAbort
    BY <2>2 DEF Configure, Misconfigure, Panic, CheckAbort
  <2>3. CASE BeginConnect \/ ConnectAborted \/ ReconnectAborted
    BY <2>3 DEF BeginConnect, ConnectAborted, ConnectFails, ReconnectAborted,
                ReconnectFails
  <2>4. CASE Serve \/ ServeShutdown
    BY <2>4 DEF Serve, ServeShutdown
  <2>5. CASE WithdrawContext \/ FreeContext \/ DropBridge \/ Report
    BY <2>5 DEF WithdrawContext, FreeContext, DropBridge, Report
  <2>. QED
    BY <1>1, <2>1, <2>2, <2>3, <2>4, <2>5 DEF Advance
<1>2. CASE Waited
  BY <1>2 DEF Waited, ConnectReturns, ReconnectReturns, Connected, ConnectFails,
              Reconnected, ReconnectFails, Wake, BeginReconnect, Disconnected
<1>3. CASE OwnerStep
  <2>1. Owner \in Queue!Thread
    BY DEF Queue!Thread
  <2>. QED
    BY <1>3, <2>1 DEF OwnerStep, DropStep, AbortBegin, AbortSignal, PushShutdown, Join
<1>4. CASE CallerPush
  <2>1. Caller \subseteq Queue!Thread
    BY DEF Queue!Thread
  <2>. QED
    BY <1>4, <2>1 DEF CallerPush
<1>5. CASE UNCHANGED vars
  BY <1>5 DEF vars
<1>. QED
  BY <1>1, <1>2, <1>3, <1>4, <1>5, NextCases

(* A session, connecting, reconnecting or going down, is a behaviour of    *)
(* its command queue: what is proved of the queue's steps holds in it.     *)
THEOREM SessionRunsQueue == Spec => Queue!Init /\ [][Queue!Next]_qvars
<1>1. Init => Queue!Init
  BY DEF Init
<1>. QED
  BY <1>1, QueueStep, PTL DEF Spec

(* The queue of a session as CommandQueueProofs has it, and what it proves  *)
(* of the steps alone.                                                      *)
Line == INSTANCE CommandQueueProofs

LEMMA LineHolds == Line!CommandQueueAssumption
BY SessionAssumption DEF SessionAssumption, Line!CommandQueueAssumption

LEMMA LineStep == [Queue!Next]_qvars => [Line!Next]_(Line!qvars)
BY DEF Queue!Next, Line!Next, Queue!Thread, Line!Thread, qvars, Line!qvars,
       Queue!Push, Line!Push, Queue!Insert, Line!Insert, Queue!Signal, Line!Signal,
       Queue!Command, Line!Command, Queue!Input, Line!Input,
       Queue!Shutdown, Line!Shutdown, Queue!LoopStep, Line!LoopStep,
       Queue!WokenByFreeRDP, Line!WokenByFreeRDP, Queue!Fail, Line!Fail,
       Queue!EnterLoop, Line!EnterLoop, Queue!WokenByQueue, Line!WokenByQueue,
       Queue!Reset, Line!Reset, Queue!Take, Line!Take, Queue!Execute, Line!Execute,
       Queue!Close, Line!Close, Queue!Iterate, Line!Iterate

LEMMA SessionTakesSteps == Spec => Line!Steps
<1>1. Queue!Init => Line!Init
  BY DEF Queue!Init, Line!Init, Queue!Thread, Line!Thread
<1>. QED
  BY <1>1, LineStep, SessionRunsQueue, PTL DEF Line!Steps

(* So a session is a mailbox too: what is pushed is executed once and in   *)
(* order, through connects and reconnects, until the loop ends.            *)
THEOREM SessionImplementsMailbox == Spec => Line!ImplementsMailbox
BY LineHolds, SessionTakesSteps, Line!MailboxSteps, PTL

(* No command waits in a session for the network to wake the loop.         *)
THEOREM SessionMissesNoWakeup == Spec => []Line!NoLostWakeup
BY LineHolds, SessionTakesSteps, Line!WakeupsKept, PTL

-----------------------------------------------------------------------------
(* Once the owner joins, its shutdown is in what the loop took, or the     *)
(* loop has been woken to take it, or is about to.                         *)
ShutdownIsHeard ==
  owner = "joining" /\ loop # "closed"
    => wake \/ loop = "reset" \/ Line!In(batch, Line!Shutdown)

ShutdownIsPushed ==
  owner \in {"signalling", "joining", "joined"} => pushed[Owner] >= 1

DropMeetsNoSleeper == owner = "joining" /\ loop = "waiting" => wake

(* The owner goes straight through its drop. *)
LEMMA OwnerMoves ==
  [Next]_vars
    => \/ owner' = owner
       \/ owner' \in {"aborting", "pushing"}
       \/ owner' = "signalling" /\ Queue!Insert(Owner)
       \/ owner = "signalling" /\ owner' = "joining" /\ Queue!Signal(Owner)
       \/ owner = "joining" /\ owner' = "joined" /\ UNCHANGED qvars
<1> SUFFICES ASSUME [Next]_vars, owner' # owner
             PROVE  OwnerStep
  BY DEF OwnerStep, DropStep, AbortBegin, AbortSignal, PushShutdown, Join
<1> USE DEF lvars, owned
<1>1. CASE Advance
  <2>1. ~ (NewContext \/ NoContext \/ PublishContext \/ BoxBridge)
    BY DEF NewContext, NoContext, PublishContext, BoxBridge
  <2>2. ~ (Configure \/ Misconfigure \/ Panic \/ CheckAbort)
    BY DEF Configure, Misconfigure, Panic, CheckAbort
  <2>3. ~ (BeginConnect \/ ConnectAborted \/ ReconnectAborted)
    BY DEF BeginConnect, ConnectAborted, ConnectFails, ReconnectAborted, ReconnectFails
  <2>4. ~ (Serve \/ ServeShutdown)
    BY DEF Serve, ServeShutdown
  <2>5. ~ (WithdrawContext \/ FreeContext \/ DropBridge \/ Report)
    BY DEF WithdrawContext, FreeContext, DropBridge, Report
  <2>. QED
    BY <1>1, <2>1, <2>2, <2>3, <2>4, <2>5 DEF Advance
<1>2. ~ Waited
  BY DEF Waited, ConnectReturns, ReconnectReturns, Connected, ConnectFails,
         Reconnected, ReconnectFails, Wake, BeginReconnect, Disconnected
<1>3. ~ CallerPush /\ ~ UNCHANGED vars
  BY DEF CallerPush, vars
<1>. QED
  BY <1>1, <1>2, <1>3, NextCases

LEMMA PushedStep ==
  Line!TypeOK /\ Line!TypeOK' /\ ShutdownIsPushed /\ [Next]_vars => ShutdownIsPushed'
<1> SUFFICES ASSUME Line!TypeOK, Line!TypeOK', ShutdownIsPushed, [Next]_vars
             PROVE  ShutdownIsPushed'
  OBVIOUS
<1>1. /\ pushed \in [Line!Thread -> Nat] /\ pushed' \in [Line!Thread -> Nat]
      /\ Owner \in Line!Thread
  BY DEF Line!TypeOK, Line!Thread
<1>2. ASSUME NEW t \in Line!Thread, Line!Insert(t)
      PROVE  pushed'[Owner] >= pushed[Owner] /\ (t = Owner => pushed'[Owner] >= 1)
  BY <1>1, <1>2 DEF Line!Insert
<1>3. pushed'[Owner] >= pushed[Owner]
  <2>1. UNCHANGED pushed \/ \E t \in Line!Thread : Line!Insert(t)
    BY QueueStep, LineStep
       DEF Line!Next, Line!Push, Line!LoopStep, Line!qvars, Line!Signal, Line!EnterLoop,
           Line!WokenByQueue, Line!WokenByFreeRDP, Line!Reset, Line!Take, Line!Execute,
           Line!Close, Line!Iterate, Line!Fail
  <2>. QED
    BY <1>1, <1>2, <2>1
<1>4. CASE owner' = "signalling" /\ Queue!Insert(Owner)
  <2>1. Line!Insert(Owner)
    BY <1>4 DEF Queue!Insert, Line!Insert, Queue!Command, Line!Command, Queue!Input,
       Line!Input, Queue!Shutdown, Line!Shutdown
  <2>. QED
    BY <1>1, <1>2, <2>1, <1>4 DEF ShutdownIsPushed
<1>5. CASE owner \in {"signalling", "joining", "joined"}
  <2>1. pushed[Owner] >= 1 /\ pushed[Owner] \in Nat /\ pushed'[Owner] \in Nat
    BY <1>1, <1>5 DEF ShutdownIsPushed
  <2>. QED
    BY <1>3, <2>1 DEF ShutdownIsPushed
<1>6. CASE owner' \notin {"signalling", "joining", "joined"}
  BY <1>6 DEF ShutdownIsPushed
<1>. QED
  BY <1>4, <1>5, <1>6, OwnerMoves

LEMMA HeardStep ==
  /\ Line!TypeOK /\ Line!BatchOnlyDraining /\ Line!NoCommandIsForgotten
  /\ ShutdownIsPushed /\ ShutdownIsHeard /\ [Next]_vars
  => ShutdownIsHeard'
<1> SUFFICES ASSUME Line!TypeOK, Line!BatchOnlyDraining, Line!NoCommandIsForgotten,
                    ShutdownIsPushed, ShutdownIsHeard, [Next]_vars,
                    owner' = "joining", loop' # "closed"
             PROVE  ShutdownIsHeard'
  BY DEF ShutdownIsHeard
<1> USE DEF ShutdownIsHeard
<1>1. CASE Queue!Signal(Owner)
  BY <1>1 DEF Queue!Signal
<1>2. ASSUME owner = "joining"
      PROVE  ShutdownIsHeard'
  <2>1. Line!Next \/ UNCHANGED Line!qvars
    BY QueueStep, LineStep
  <2>2. ASSUME NEW t \in Line!Thread, Line!Push(t)
        PROVE  ShutdownIsHeard'
    BY <1>2, <2>2 DEF Line!Push, Line!Insert, Line!Signal, Line!In
  <2>3. CASE Line!EnterLoop \/ Line!WokenByQueue \/ Line!WokenByFreeRDP \/ Line!Reset
    BY <1>2, <2>3 DEF Line!EnterLoop, Line!WokenByQueue, Line!WokenByFreeRDP, Line!Reset,
       Line!In
  <2>4. CASE Line!Take
    <3>1. pushed[Owner] >= 1
      BY <1>2 DEF ShutdownIsPushed
    <3>2. Line!Shutdown \in Line!Command /\ Line!Shutdown[1] = Owner /\ Line!Shutdown[2] = 1
      BY DEF Line!Shutdown, Line!Command
    <3>3. Line!Somewhere(Line!Shutdown)
      BY <2>4, <3>1, <3>2 DEF Line!NoCommandIsForgotten, Line!Take
    <3>4. Line!Shutdown \notin Line!Input
      BY SessionAssumption DEF SessionAssumption, Line!Shutdown, Line!Input
    <3>5. ~ Line!In(executed, Line!Shutdown)
      BY <3>4, LenProperties DEF Line!TypeOK, Line!In
    <3>6. ~ Line!In(batch, Line!Shutdown)
      BY <2>4 DEF Line!Take, Line!BatchOnlyDraining, Line!In
    <3>. QED
      BY <2>4, <3>3, <3>5, <3>6 DEF Line!Somewhere, Line!Take
  <2>5. CASE Line!Execute
    <3>1. /\ batch # <<>> /\ Head(batch) # Line!Shutdown /\ batch' = Tail(batch)
          /\ UNCHANGED <<loop, wake>> /\ loop = "draining"
      BY <2>5 DEF Line!Execute
    <3>2. Line!In(batch, Line!Shutdown) => Line!In(Tail(batch), Line!Shutdown)
      BY <3>1, LineHolds, Line!TailKeeps DEF Line!TypeOK
    <3>. QED
      BY <1>2, <3>1, <3>2
  <2>6. CASE Line!Iterate
    <3>1. ~ Line!In(batch, Line!Shutdown)
      BY <2>6 DEF Line!Iterate, Line!In
    <3>. QED
      BY <1>2, <2>6, <3>1 DEF Line!Iterate
  <2>7. ~ (Line!Close \/ Line!Fail)
    BY DEF Line!Close, Line!Fail
  <2>8. CASE UNCHANGED Line!qvars
    BY <1>2, <2>8 DEF Line!qvars, Line!In
  <2>. QED
    BY <2>1, <2>2, <2>3, <2>4, <2>5, <2>6, <2>7, <2>8 DEF Line!Next, Line!LoopStep
<1>. QED
  BY <1>1, <1>2, OwnerMoves

(* A drop never waits for a loop that sleeps: whoever pushes what beside   *)
(* it, and whether the shutdown came before the loop, while it was blocked *)
(* or in the middle of a drain.                                            *)
THEOREM DropWakesTheLoop == Spec => []DropMeetsNoSleeper
<1>1. Init => ShutdownIsPushed /\ ShutdownIsHeard
  BY DEF Init, ShutdownIsPushed, ShutdownIsHeard
<1>2. Line!BatchOnlyDraining /\ ShutdownIsHeard => DropMeetsNoSleeper
  BY DEF Line!BatchOnlyDraining, ShutdownIsHeard, DropMeetsNoSleeper, Line!In
<1>. QED
  BY <1>1, <1>2, PushedStep, HeardStep, SessionTakesSteps, LineHolds, Line!TypesKept,
     Line!BatchInvariant, Line!CommandsKept, PTL DEF Spec

-----------------------------------------------------------------------------
(* The end of run finds the bridge taken back. *)
Unboxed == stage \in {"report", "exit", "gone"} /\ ~ panicked => bridge # "boxed"

(* When Event::Ended is on its way the bridge is gone, and the Sender in   *)
(* it, whichever of the steps of run failed: what is left of the event     *)
(* channel is the thread's own end. (A panic is the exception.)            *)
THEOREM EndedLeavesNoBridge == Spec => []Unboxed
<1> DEFINE Early == stage \in {"context", "publish", "bridge"} => bridge = "none"
<1>1. Init => Unboxed /\ Early
  BY DEF Init, Unboxed
<1>2. TypeOK /\ ContextInv /\ Unboxed /\ Early /\ [Next]_vars => Unboxed' /\ Early'
  <2> SUFFICES ASSUME TypeOK, ContextInv, Unboxed, Early, [Next]_vars
               PROVE  Unboxed' /\ Early'
    OBVIOUS
  <2> USE DEF lvars, run, owned, Goto, Unboxed
  <2>1. CASE Advance
    <3>1. CASE NewContext \/ NoContext \/ PublishContext \/ BoxBridge
      BY <3>1 DEF NewContext, NoContext, PublishContext, BoxBridge
    <3>2. CASE Configure \/ Misconfigure \/ Panic \/ CheckAbort
      BY <3>2 DEF Configure, Misconfigure, Panic, CheckAbort
    <3>3. CASE BeginConnect \/ ConnectAborted \/ ReconnectAborted
      BY <3>3 DEF BeginConnect, ConnectAborted, ConnectFails,
                  ReconnectAborted, ReconnectFails
    <3>4. CASE Serve \/ ServeShutdown
      BY <3>4 DEF Serve, ServeShutdown
    <3>5. CASE WithdrawContext \/ FreeContext \/ DropBridge \/ Report
      BY <3>5 DEF WithdrawContext, FreeContext, DropBridge, Report
    <3>. QED
      BY <2>1, <3>1, <3>2, <3>3, <3>4, <3>5 DEF Advance
  <2>2. CASE Waited
    BY <2>2 DEF Waited, ConnectReturns, ReconnectReturns, Connected,
                ConnectFails, Reconnected, ReconnectFails, Wake,
                BeginReconnect, Disconnected
  <2>3. CASE OwnerStep
    BY <2>3 DEF OwnerStep, DropStep, AbortBegin, AbortSignal, PushShutdown, Join
  <2>4. CASE CallerPush
    BY <2>4 DEF CallerPush
  <2>5. CASE UNCHANGED vars
    BY <2>5 DEF vars
  <2>. QED
    BY <2>1, <2>2, <2>3, <2>4, <2>5, NextCases
<1>. QED
  BY <1>1, <1>2, LifecycleTypes, ContextInvariant, PTL DEF Spec
=============================================================================
