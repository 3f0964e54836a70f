------------------------- MODULE CommandQueueProofs -------------------------
(***************************************************************************)
(* What push and drain guarantee for any number of callers and commands:   *)
(* types, no lost wakeup, and that together they implement the mailbox.    *)
(***************************************************************************)
EXTENDS CommandQueue, SequenceTheorems, TLAPS

(* Both kinds of queue can be empty. *)
LEMMA EmptyQueues == <<>> \in Seq(Command) /\ <<>> \in Seq(Input)
BY EmptySeq

(* Inserting behind a batch is inserting behind the whole line. *)
LEMMA AppendBehind ==
  ASSUME NEW S, NEW s \in Seq(S), NEW t \in Seq(S), NEW e \in S
  PROVE  s \o Append(t, e) = Append(s \o t, e)
<1>1. /\ Append(t, e) = t \o <<e>>
      /\ s \o t \in Seq(S)
      /\ <<e>> \in Seq(S)
  BY AppendIsConcat, ConcatProperties
<1>2. Append(s \o t, e) = (s \o t) \o <<e>>
  BY <1>1, AppendIsConcat
<1>. QED
  BY <1>1, <1>2, ConcatAssociative

(* The oldest command of a batch is the oldest of the whole line. *)
LEMMA OldestOfLine ==
  ASSUME NEW S, NEW s \in Seq(S), NEW t \in Seq(S), s # <<>>
  PROVE  /\ s \o t # <<>>
         /\ Head(s \o t) = Head(s)
         /\ Tail(s \o t) = Tail(s) \o t
<1>1. /\ s \o t \in Seq(S)
      /\ Len(s \o t) = Len(s) + Len(t)
      /\ \A i \in 1 .. Len(s) + Len(t) :
            (s \o t)[i] = IF i <= Len(s) THEN s[i] ELSE t[i - Len(s)]
  BY ConcatProperties
<1>2. s \o t # <<>>
  BY ConcatEqualIffEmpty
<1>3. Len(s) \in Nat \ {0} /\ Len(t) \in Nat
  BY EmptySeq, LenProperties
<1>4. Head(s \o t) = Head(s)
  BY <1>1, <1>2, <1>3
<1>5. /\ Tail(s \o t) \in Seq(S)
      /\ Len(Tail(s \o t)) = Len(s) + Len(t) - 1
      /\ \A i \in 1 .. Len(Tail(s \o t)) : Tail(s \o t)[i] = (s \o t)[i + 1]
  BY <1>1, <1>2, HeadTailProperties
<1>6. /\ Tail(s) \in Seq(S)
      /\ Len(Tail(s)) = Len(s) - 1
      /\ \A i \in 1 .. Len(Tail(s)) : Tail(s)[i] = s[i + 1]
  BY HeadTailProperties
<1>7. /\ Tail(s) \o t \in Seq(S)
      /\ Len(Tail(s) \o t) = Len(s) - 1 + Len(t)
      /\ \A i \in 1 .. Len(s) - 1 + Len(t) :
            (Tail(s) \o t)[i] = IF i <= Len(s) - 1 THEN Tail(s)[i]
                                ELSE t[i - (Len(s) - 1)]
  BY <1>6, ConcatProperties
<1>8. \A i \in 1 .. Len(Tail(s \o t)) : Tail(s \o t)[i] = (Tail(s) \o t)[i]
  <2> SUFFICES ASSUME NEW i \in 1 .. Len(s) + Len(t) - 1
               PROVE  Tail(s \o t)[i] = (Tail(s) \o t)[i]
    BY <1>5
  <2>1. Tail(s \o t)[i] = (s \o t)[i + 1]
    BY <1>5
  <2>2. CASE i <= Len(s) - 1
    BY <2>1, <2>2, <1>1, <1>3, <1>6, <1>7
  <2>3. CASE i > Len(s) - 1
    <3>1. i \in Int /\ i + 1 \in 1 .. Len(s) + Len(t) /\ ~ (i + 1 <= Len(s))
      BY <2>3, <1>3
    <3>2. (s \o t)[i + 1] = t[i + 1 - Len(s)]
      BY <3>1, <1>1
    <3>3. (Tail(s) \o t)[i] = t[i - (Len(s) - 1)]
      BY <2>3, <1>3, <1>7
    <3>4. i + 1 - Len(s) = i - (Len(s) - 1)
      BY <3>1, <1>3
    <3>. QED
      BY <2>1, <3>2, <3>3, <3>4
  <2>. QED
    BY <2>2, <2>3, <1>3
<1>9. Tail(s \o t) = Tail(s) \o t
  BY <1>5, <1>7, <1>8, <1>3, SeqEqual
<1>. QED
  BY <1>2, <1>4, <1>9

-----------------------------------------------------------------------------
(* The lemmas speak of the steps alone, without the fairness of Spec, for  *)
(* a system that takes them to cite.                                       *)
Steps == Init /\ [][Next]_qvars

LEMMA TypesKept == Steps => []TypeOK
<1>1. Init => TypeOK
  <2> SUFFICES ASSUME Init PROVE TypeOK
    OBVIOUS
  <2>1. queue \in Seq(Command) /\ batch \in Seq(Command) /\ executed \in Seq(Input)
    BY EmptyQueues DEF Init
  <2>2. pushed \in [Thread -> Nat] /\ signalling \in SUBSET Thread
    BY DEF Init
  <2>3. wake \in BOOLEAN /\ loop \in LoopPC
    BY DEF Init, LoopPC
  <2>. QED
    BY <2>1, <2>2, <2>3 DEF TypeOK
<1>2. TypeOK /\ [Next]_qvars => TypeOK'
  <2> SUFFICES ASSUME TypeOK, [Next]_qvars
               PROVE  TypeOK'
    OBVIOUS
  <2> USE DEF TypeOK, LoopPC
  <2>1. ASSUME NEW t \in Thread, Insert(t)
        PROVE  TypeOK'
    BY <2>1 DEF Insert
  <2>2. ASSUME NEW t \in Thread, Signal(t)
        PROVE  TypeOK'
    BY <2>2 DEF Signal
  <2>3. CASE EnterLoop \/ WokenByQueue \/ WokenByFreeRDP \/ Iterate \/ Fail
    BY <2>3 DEF EnterLoop, WokenByQueue, WokenByFreeRDP, Iterate, Fail
  <2>4. CASE Reset
    BY <2>4 DEF Reset
  <2>5. CASE Take
    BY <2>5, EmptyQueues DEF Take
  <2>6. CASE Execute
    <3>1. Head(batch) \in Command /\ Tail(batch) \in Seq(Command)
      BY <2>6, HeadTailProperties DEF Execute
    <3>2. Head(batch) \in Input
      BY <2>6, <3>1 DEF Execute, Command
    <3>. QED
      BY <2>6, <3>1, <3>2 DEF Execute
  <2>7. CASE Close
    BY <2>7, EmptyQueues DEF Close
  <2>8. CASE UNCHANGED qvars
    BY <2>8 DEF qvars
  <2>. QED
    BY <2>1, <2>2, <2>3, <2>4, <2>5, <2>6, <2>7, <2>8 DEF Next, LoopStep, Push
<1>. QED
  BY <1>1, <1>2, PTL DEF Steps

(* Every variable keeps its type, and what is executed is input: a         *)
(* shutdown reaches the loop's return, never execute (session.rs calls     *)
(* that unreachable).                                                      *)
THEOREM TypeInvariant == Spec => []TypeOK
BY TypesKept, PTL DEF Spec, Steps

-----------------------------------------------------------------------------
(* Commands are announced except between the two halves of drain, where    *)
(* the take that follows will see them.                                    *)
Announced == queue # <<>> /\ loop # "reset" => wake \/ signalling # {}

LEMMA WakeupsKept == Steps => []NoLostWakeup
<1>1. Init => Announced
  BY DEF Init, Announced
<1>2. TypeOK /\ Announced /\ [Next]_qvars => Announced'
  <2> SUFFICES ASSUME TypeOK, Announced, [Next]_qvars
               PROVE  Announced'
    OBVIOUS
  <2> USE DEF TypeOK, Announced
  <2>1. ASSUME NEW t \in Thread, Insert(t)
        PROVE  Announced'
    BY <2>1 DEF Insert
  <2>2. ASSUME NEW t \in Thread, Signal(t)
        PROVE  Announced'
    BY <2>2 DEF Signal
  <2>3. CASE EnterLoop \/ WokenByQueue \/ WokenByFreeRDP \/ Iterate \/ Fail
    BY <2>3 DEF EnterLoop, WokenByQueue, WokenByFreeRDP, Iterate, Fail
  <2>4. CASE Reset \/ Take
    BY <2>4 DEF Reset, Take
  <2>5. CASE Execute \/ Close
    BY <2>5 DEF Execute, Close
  <2>6. CASE UNCHANGED qvars
    BY <2>6 DEF qvars
  <2>. QED
    BY <2>1, <2>2, <2>3, <2>4, <2>5, <2>6 DEF Next, LoopStep, Push
<1>3. Announced => NoLostWakeup
  BY DEF Announced, NoLostWakeup
<1>. QED
  BY <1>1, <1>2, <1>3, TypesKept, PTL DEF Steps

(* A blocked loop with commands queued has been woken, or is about to be:  *)
(* the ordering notes on push and drain.                                   *)
THEOREM WakeupInvariant == Spec => []NoLostWakeup
BY WakeupsKept, PTL DEF Spec, Steps

-----------------------------------------------------------------------------
(* Between two drains nothing is left over from the last one. *)
BatchOnlyDraining == loop # "draining" => batch = <<>>

LEMMA BatchInvariant == Steps => []BatchOnlyDraining
<1>1. Init => BatchOnlyDraining
  BY DEF Init, BatchOnlyDraining
<1>2. BatchOnlyDraining /\ [Next]_qvars => BatchOnlyDraining'
  BY DEF BatchOnlyDraining, Next, LoopStep, Push, qvars, Insert, Signal,
         EnterLoop, WokenByQueue, WokenByFreeRDP, Reset, Take, Execute, Close,
         Iterate, Fail
<1>. QED
  BY <1>1, <1>2, PTL DEF Steps

LEMMA MailboxSteps == Steps => ImplementsMailbox
<1> USE DEF AbstractMailbox!Init, AbstractMailbox!Next, AbstractMailbox!vars,
            AbstractMailbox!Accept, AbstractMailbox!Execute,
            AbstractMailbox!Close, AbstractMailbox!Lose
<1>1. Init => AbstractMailbox!Init
  <2>1. <<>> \o <<>> = <<>>
    BY EmptyQueues, ConcatEmptySeq
  <2>. QED
    BY <2>1 DEF Init
<1>2. TypeOK /\ BatchOnlyDraining /\ [Next]_qvars
        => [AbstractMailbox!Next]_(AbstractMailbox!vars)
  <2> SUFFICES ASSUME TypeOK, BatchOnlyDraining, [Next]_qvars
               PROVE  [AbstractMailbox!Next]_(AbstractMailbox!vars)
    OBVIOUS
  <2> USE DEF BatchOnlyDraining
  <2>0. queue \in Seq(Command) /\ batch \in Seq(Command)
    BY DEF TypeOK
  <2>1. ASSUME NEW t \in Thread, Insert(t)
        PROVE  [AbstractMailbox!Next]_(AbstractMailbox!vars)
    <3> DEFINE c == <<t, pushed[t] + 1>>
    <3>1. c \in Command /\ queue' = Append(queue, c)
      BY <2>1 DEF Insert
    <3>2. batch \o Append(queue, c) = Append(batch \o queue, c)
      BY <2>0, <3>1, AppendBehind
    <3>3. UNCHANGED <<loop, batch, executed>>
      BY <2>1 DEF Insert
    <3> HIDE DEF c
    <3>. QED
      BY <3>1, <3>2, <3>3
  <2>2. ASSUME NEW t \in Thread, Signal(t)
        PROVE  [AbstractMailbox!Next]_(AbstractMailbox!vars)
    BY <2>2 DEF Signal
  <2>3. CASE EnterLoop \/ WokenByQueue \/ WokenByFreeRDP \/ Iterate \/ Reset
    BY <2>3 DEF EnterLoop, WokenByQueue, WokenByFreeRDP, Iterate, Reset
  <2>4. CASE Take
    <3>1. batch = <<>> /\ batch \o queue = queue /\ queue \o <<>> = queue
      BY <2>0, <2>4, ConcatEmptySeq DEF Take
    <3>. QED
      BY <2>4, <3>1 DEF Take
  <2>5. CASE Execute
    <3>1. /\ batch \o queue # <<>>
          /\ Head(batch \o queue) = Head(batch)
          /\ Tail(batch \o queue) = Tail(batch) \o queue
      BY <2>0, <2>5, OldestOfLine DEF Execute
    <3>. QED
      BY <2>5, <3>1 DEF Execute
  <2>6. CASE Close
    <3>1. batch \o queue # <<>> /\ Head(batch \o queue) = Head(batch)
      BY <2>0, <2>6, OldestOfLine DEF Close
    <3>. QED
      BY <2>6, <3>1 DEF Close
  <2>7. CASE Fail
    BY <2>7 DEF Fail
  <2>8. CASE UNCHANGED qvars
    BY <2>8 DEF qvars
  <2>. QED
    BY <2>1, <2>2, <2>3, <2>4, <2>5, <2>6, <2>7, <2>8 DEF Next, LoopStep, Push
<1>. QED
  BY <1>1, <1>2, TypesKept, BatchInvariant, PTL
     DEF Steps, ImplementsMailbox, AbstractMailbox!Spec

(* push and drain implement the mailbox: no command is lost, repeated or   *)
(* overtaken before the loop ends, and none behind a shutdown is executed. *)
THEOREM MailboxRefinement == Spec => ImplementsMailbox
BY MailboxSteps, PTL DEF Spec, Steps

-----------------------------------------------------------------------------
(* Where a command is: in the queue, in what drain took, or executed.      *)
In(s, x)     == \E i \in DOMAIN s : s[i] = x
Somewhere(c) == In(queue, c) \/ In(batch, c) \/ In(executed, c)

(* Every command that was pushed is there, until the loop is over: what    *)
(* EveryCommandIsServed says without saying that its turn comes.           *)
NoCommandIsForgotten ==
  \A c \in Command : pushed[c[1]] >= c[2] => loop = "closed" \/ Somewhere(c)

(* Nothing leaves a sequence but by Tail, and Append adds one.             *)
LEMMA AppendKeeps ==
  ASSUME NEW S, NEW q \in Seq(S), NEW c \in S
  PROVE  In(Append(q, c), c) /\ \A x : In(q, x) => In(Append(q, c), x)
<1>1. /\ Len(q) \in Nat /\ DOMAIN q = 1 .. Len(q)
      /\ DOMAIN Append(q, c) = 1 .. Len(q) + 1
      /\ \A i \in 1 .. Len(q) : Append(q, c)[i] = q[i]
      /\ Append(q, c)[Len(q) + 1] = c
  BY AppendProperties, LenProperties
<1> DEFINE a == Append(q, c)
<1> HIDE DEF a
<1>2. Len(q) + 1 \in DOMAIN a /\ a[Len(q) + 1] = c
  BY <1>1 DEF a
<1>3. \A i \in DOMAIN q : i \in DOMAIN a /\ a[i] = q[i]
  BY <1>1 DEF a
<1>. QED
  BY <1>2, <1>3 DEF In, a

LEMMA TailKeeps ==
  ASSUME NEW S, NEW q \in Seq(S), q # <<>>
  PROVE  \A x : In(q, x) => In(Tail(q), x) \/ x = Head(q)
<1>1. /\ Len(q) \in Nat /\ DOMAIN q = 1 .. Len(q)
      /\ DOMAIN Tail(q) = 1 .. Len(q) - 1
      /\ \A i \in 1 .. Len(q) - 1 : Tail(q)[i] = q[i + 1]
  BY HeadTailProperties, LenProperties, EmptySeq
<1>2. Head(q) = q[1]
  BY HeadTailProperties
<1> DEFINE b == Tail(q)
           h == Head(q)
<1> HIDE DEF b, h
<1>3. \A i \in DOMAIN q : i = 1 \/ (i - 1 \in DOMAIN b /\ b[i - 1] = q[i])
  BY <1>1 DEF b
<1> SUFFICES ASSUME NEW x, NEW i \in DOMAIN q, q[i] = x
             PROVE  In(b, x) \/ x = h
  BY DEF In, b, h
<1>4. CASE i = 1
  BY <1>2, <1>4 DEF h
<1>5. CASE i - 1 \in DOMAIN b /\ b[i - 1] = q[i]
  BY <1>5 DEF In
<1>. QED
  BY <1>3, <1>4, <1>5

LEMMA CommandsKept == Steps => []NoCommandIsForgotten
<1> USE DEF NoCommandIsForgotten, Somewhere
<1>1. Init => NoCommandIsForgotten
  <2>1. \A c \in Command : c[1] \in Thread /\ c[2] \in Nat \ {0}
    BY CommandQueueAssumption DEF CommandQueueAssumption, Command, Input, Shutdown, Thread
  <2>. QED
    BY <2>1 DEF Init
<1>2. TypeOK /\ BatchOnlyDraining /\ NoCommandIsForgotten /\ [Next]_qvars
        => NoCommandIsForgotten'
  <2> SUFFICES ASSUME TypeOK, BatchOnlyDraining, NoCommandIsForgotten, [Next]_qvars
               PROVE  NoCommandIsForgotten'
    OBVIOUS
  <2>0. /\ queue \in Seq(Command) /\ batch \in Seq(Command) /\ executed \in Seq(Input)
        /\ pushed \in [Thread -> Nat]
        /\ \A c \in Command : /\ c = <<c[1], c[2]>> /\ c[1] \in Thread
                              /\ c[2] \in Nat
    BY CommandQueueAssumption
       DEF CommandQueueAssumption, TypeOK, Command, Input, Shutdown, Thread
  <2>1. ASSUME NEW t \in Thread, Insert(t)
        PROVE  NoCommandIsForgotten'
    <3> DEFINE n == <<t, pushed[t] + 1>>
    <3>1. /\ n \in Command /\ queue' = Append(queue, n)
          /\ pushed' = [pushed EXCEPT ![t] = @ + 1]
          /\ UNCHANGED <<loop, batch, executed>>
      BY <2>1 DEF Insert
    <3>2. In(queue', n) /\ \A x : In(queue, x) => In(queue', x)
      <4> HIDE DEF n
      <4>1. In(Append(queue, n), n) /\ \A x : In(queue, x) => In(Append(queue, n), x)
        BY <2>0, <3>1, AppendKeeps
      <4>. QED
        BY <3>1, <4>1
    <3> SUFFICES ASSUME NEW c \in Command, pushed'[c[1]] >= c[2], c # n
                 PROVE  pushed[c[1]] >= c[2]
      BY <3>1, <3>2
    <3>3. CASE c[1] = t
      <4>1. c[2] # pushed[t] + 1 /\ pushed[t] + 1 >= c[2]
        BY <2>0, <3>1, <3>3
      <4>. QED
        BY <2>0, <3>3, <4>1
    <3>4. CASE c[1] # t
      BY <2>0, <3>1, <3>4
    <3>. QED
      BY <3>3, <3>4
  <2>2. ASSUME NEW t \in Thread, Signal(t)
        PROVE  NoCommandIsForgotten'
    BY <2>2 DEF Signal
  <2>3. CASE EnterLoop \/ WokenByQueue \/ WokenByFreeRDP \/ Iterate \/ Fail \/ Reset
    BY <2>3 DEF EnterLoop, WokenByQueue, WokenByFreeRDP, Iterate, Fail, Reset
  <2>4. CASE Take
    <3>1. batch = <<>> /\ batch' = queue /\ UNCHANGED <<pushed, executed>>
          /\ loop # "closed"
      BY <2>4 DEF Take, BatchOnlyDraining
    <3>. QED
      BY <3>1 DEF In
  <2>5. CASE Execute
    <3>1. Head(batch) \in Input
      <4>1. Head(batch) \in Command
        BY <2>0, <2>5, HeadTailProperties DEF Execute
      <4>. QED
        BY <2>5, <4>1 DEF Execute, Command
    <3>2. /\ batch # <<>> /\ batch' = Tail(batch) /\ executed' = Append(executed, Head(batch))
          /\ UNCHANGED <<queue, pushed, loop>>
      BY <2>5 DEF Execute
    <3>3. \A x : In(batch, x) => In(batch', x) \/ x = Head(batch)
      BY <2>0, <3>2, TailKeeps
    <3>4. In(executed', Head(batch)) /\ \A x : In(executed, x) => In(executed', x)
      BY <2>0, <3>1, <3>2, AppendKeeps
    <3>. QED
      BY <3>2, <3>3, <3>4
  <2>6. CASE Close
    BY <2>6 DEF Close
  <2>7. CASE UNCHANGED qvars
    BY <2>7 DEF qvars
  <2>. QED
    BY <2>1, <2>2, <2>3, <2>4, <2>5, <2>6, <2>7 DEF Next, LoopStep, Push
<1>. QED
  BY <1>1, <1>2, TypesKept, BatchInvariant, PTL DEF Steps

(* No interleaving of pushes and drains drops a command, the owner's       *)
(* shutdown included, as long as there is a loop to execute it.            *)
THEOREM NothingIsForgotten == Spec => []NoCommandIsForgotten
BY CommandsKept, PTL DEF Spec, Steps
=============================================================================
