-------------------------- MODULE ClipboardProofs --------------------------
(***************************************************************************)
(* The types of Clipboard, the advertisement that stands, the request that *)
(* an answer goes to, and that no paste is forgotten, for every bound.     *)
(***************************************************************************)
EXTENDS Clipboard, SequenceTheorems, TLAPS

(* Where the advertisement that should stand is, at each step of the       *)
(* channel's thread, and what the FreeRDP thread is about to hold.         *)
HeldCommand == loop = "holding" => queue # <<>> /\ Head(queue)[1] = "advertise"

Unready == ~ ready => standing = pending /\ shown = Nothing /\ handler = "idle"

Greeting == handler = "greeting"
              => standing = (IF pending # Nothing THEN pending ELSE shown)
Sending  == handler = "sending" => standing = taken /\ pending = Nothing
Idle     == handler = "idle" => standing = shown /\ pending = Nothing
Ready    == ready /\ ~ crossed => Greeting /\ Sending /\ Idle

IInv == TypeOK /\ HeldCommand /\ Unready /\ Ready

-----------------------------------------------------------------------------
LEMMA OperandTypes ==
  ASSUME NEW c \in Command
  PROVE  /\ c[1] = "advertise" => c[2] \in Advertisement
         /\ c[1] = "request" => c[2] \in Ask
         /\ c[1] = "respond" => c[2] \in Paste
  BY DEF Command

(* A queue loses its head and gets a tail, and its head stays what it is. *)
LEMMA HeadAndTail ==
  ASSUME NEW S, NEW q \in Seq(S), q # <<>>
  PROVE  Head(q) \in S /\ Tail(q) \in Seq(S)
  BY HeadTailProperties

LEMMA AppendKeepsHead ==
  ASSUME NEW S, NEW q \in Seq(S), NEW c \in S
  PROVE  /\ Append(q, c) \in Seq(S)
         /\ q # <<>> => Append(q, c) # <<>> /\ Head(Append(q, c)) = Head(q)
<1>1. /\ Append(q, c) \in Seq(S)
      /\ Len(Append(q, c)) = Len(q) + 1
      /\ \A i \in 1 .. Len(q) : Append(q, c)[i] = q[i]
  BY AppendProperties
<1>2. ASSUME q # <<>> PROVE Append(q, c) # <<>> /\ Head(Append(q, c)) = Head(q)
  <2>1. Len(q) \in Nat /\ Len(q) >= 1
    BY <1>2, EmptySeq, LenProperties
  <2>2. Append(q, c) # <<>>
    BY <1>1, <2>1
  <2> QED BY <1>1, <2>1, <2>2
<1> QED BY <1>1, <1>2

LEMMA InitIInv == Init => IInv
<1> SUFFICES ASSUME Init PROVE IInv
  OBVIOUS
<1> USE ClipboardAssumption DEF Init, Nothing
<1>1. queue \in Seq(Command) /\ asks \in Seq(Ask) /\ events \in Seq(Paste)
  OBVIOUS
<1>2. /\ MaxAdvertise \in Nat /\ MaxPaste \in Nat /\ MaxAsk \in Nat /\ MaxOpen \in Nat
      /\ MaxAdvertise >= 0 /\ MaxPaste >= 0 /\ MaxAsk >= 0 /\ MaxOpen >= 0
  BY DEF ClipboardAssumption
<1>3. /\ {cliprdr, ready, receiver, crossed, stray} \subseteq BOOLEAN
      /\ {pending, taken, shown, standing} \subseteq Advertisement \cup {Nothing}
      /\ {pastes, paste, former} \subseteq 0 .. MaxPaste
  <2>1. 0 \in 0 .. MaxPaste
    BY <1>2
  <2> QED BY <2>1, Zenon
<1>4. /\ advertised \in 0 .. MaxAdvertise /\ asked \in 0 .. MaxAsk
      /\ opened \in 0 .. MaxOpen /\ last \in 0 .. MaxAsk
      /\ answered \in (0 .. MaxPaste) \X (0 .. MaxPaste)
      /\ labelled \in (0 .. MaxAsk) \X (0 .. MaxAsk)
  BY <1>2
<1>5. TypeOK
  BY <1>1, <1>3, <1>4 DEF TypeOK
<1>6. HeldCommand /\ Unready /\ Ready
  BY DEF HeldCommand, Unready, Ready
<1> QED BY <1>5, <1>6 DEF IInv

-----------------------------------------------------------------------------
(* One step per action; the queue and the events are left to the lemmas. *)
LEMMA NextIInv == IInv /\ [Next]_vars => IInv'
<1> SUFFICES ASSUME IInv, [Next]_vars PROVE IInv'
  OBVIOUS
<1> USE DEF caller, bridge, offers, thread, host, requests
<1>0. /\ MaxAdvertise \in Nat /\ MaxPaste \in Nat /\ MaxAsk \in Nat /\ MaxOpen \in Nat
      /\ queue \in Seq(Command) /\ asks \in Seq(Ask) /\ events \in Seq(Paste)
  BY ClipboardAssumption DEF ClipboardAssumption, IInv, TypeOK
<1>1. ASSUME Advertise PROVE IInv'
  <2>1. <<"advertise", advertised'>> \in Command /\ advertised' \in 0 .. MaxAdvertise
    <3>1. advertised' \in Advertisement
      BY <1>1, <1>0 DEF Advertise, IInv, TypeOK, Advertisement
    <3>2. <<"advertise", advertised'>> \in Command
      BY <3>1 DEF Command
    <3>3. advertised' \in 0 .. MaxAdvertise
      BY <1>0, <3>1 DEF Advertisement
    <3> QED BY <3>2, <3>3
  <2>2. queue' \in Seq(Command) /\ (queue # <<>> => queue' # <<>> /\ Head(queue') = Head(queue))
    BY <1>1, <1>0, <2>1, AppendKeepsHead DEF Advertise
  <2>7. TypeOK'
    BY <1>1, <1>0, <2>1, <2>2 DEF Advertise, IInv, TypeOK, Advertisement, Paste, Ask, Nothing
  <2>8. HeldCommand' /\ Unready'
    BY <1>1, <1>0, <2>1, <2>2 DEF Advertise, IInv, TypeOK, HeldCommand, Unready, Nothing
  <2>9. Ready'
    BY <1>1 DEF Advertise, IInv, TypeOK, Ready, Greeting, Sending, Idle, Unready, Nothing
  <2> QED BY <2>7, <2>8, <2>9 DEF IInv
<1>2. ASSUME Request PROVE IInv'
  <2>1. <<"request", asked'>> \in Command /\ asked' \in 0 .. MaxAsk
    <3>1. asked' \in Ask
      BY <1>2, <1>0 DEF Request, IInv, TypeOK, Ask
    <3>2. <<"request", asked'>> \in Command
      BY <3>1 DEF Command
    <3>3. asked' \in 0 .. MaxAsk
      BY <1>0, <3>1 DEF Ask
    <3> QED BY <3>2, <3>3
  <2>2. queue' \in Seq(Command) /\ (queue # <<>> => queue' # <<>> /\ Head(queue') = Head(queue))
    BY <1>2, <1>0, <2>1, AppendKeepsHead DEF Request
  <2>7. TypeOK'
    BY <1>2, <1>0, <2>1, <2>2 DEF Request, IInv, TypeOK, Advertisement, Paste, Ask, Nothing
  <2>8. HeldCommand' /\ Unready'
    BY <1>2, <1>0, <2>1, <2>2 DEF Request, IInv, TypeOK, HeldCommand, Unready, Nothing
  <2>9. Ready'
    BY <1>2 DEF Request, IInv, TypeOK, Ready, Greeting, Sending, Idle, Unready, Nothing
  <2> QED BY <2>7, <2>8, <2>9 DEF IInv
<1>3. ASSUME Read PROVE IInv'
  <2>1. Head(events) \in Paste /\ events' \in Seq(Paste)
    BY <1>3, <1>0, HeadAndTail DEF Read
  <2>7. TypeOK'
    BY <1>3, <1>0, <2>1 DEF Read, IInv, TypeOK, Advertisement, Paste, Ask, Nothing
  <2>8. HeldCommand' /\ Unready'
    BY <1>3, <1>0, <2>1 DEF Read, IInv, TypeOK, HeldCommand, Unready, Nothing
  <2>9. Ready'
    BY <1>3 DEF Read, IInv, TypeOK, Ready, Greeting, Sending, Idle, Unready, Nothing
  <2> QED BY <2>7, <2>8, <2>9 DEF IInv
<1>4. ASSUME NEW p \in Paste, Respond(p) PROVE IInv'
  <2>1. <<"respond", p>> \in Command
    BY DEF Command
  <2>2. queue' \in Seq(Command) /\ (queue # <<>> => queue' # <<>> /\ Head(queue') = Head(queue))
    BY <1>4, <1>0, <2>1, AppendKeepsHead DEF Respond
  <2>7. TypeOK'
    BY <1>4, <1>0, <2>2 DEF Respond, IInv, TypeOK, Advertisement, Paste, Ask, Nothing
  <2>8. HeldCommand' /\ Unready'
    BY <1>4, <1>0, <2>2 DEF Respond, IInv, TypeOK, HeldCommand, Unready, Nothing
  <2>9. Ready'
    BY <1>4 DEF Respond, IInv, TypeOK, Ready, Greeting, Sending, Idle, Unready, Nothing
  <2> QED BY <2>7, <2>8, <2>9 DEF IInv
<1>5. ASSUME DropReceiver PROVE IInv'
  <2>1. dropped' \subseteq Paste /\ events' \in Seq(Paste)
    BY <1>5, <1>0 DEF DropReceiver, IInv, TypeOK
  <2>7. TypeOK'
    BY <1>5, <1>0, <2>1 DEF DropReceiver, IInv, TypeOK, Advertisement, Paste, Ask, Nothing
  <2>8. HeldCommand' /\ Unready'
    BY <1>5, <1>0, <2>1 DEF DropReceiver, IInv, TypeOK, HeldCommand, Unready, Nothing
  <2>9. Ready'
    BY <1>5 DEF DropReceiver, IInv, TypeOK, Ready, Greeting, Sending, Idle, Unready, Nothing
  <2> QED BY <2>7, <2>8, <2>9 DEF IInv
<1>6. ASSUME AdvertiseUnheard PROVE IInv'
  <2>1. queue # <<>>
    BY <1>6 DEF AdvertiseUnheard, Executing, IInv, HeldCommand
  <2>2. Head(queue) \in Command /\ queue' \in Seq(Command)
    BY <1>6, <1>0, <2>1, HeadAndTail DEF AdvertiseUnheard
  <2>3. Operand \in Advertisement
    BY <1>6, <2>2, OperandTypes DEF AdvertiseUnheard, Executing, Operand, IInv, HeldCommand
  <2>7. TypeOK'
    BY <1>6, <1>0, <2>2, <2>3
       DEF AdvertiseUnheard, Executing, IInv, TypeOK, Advertisement, Paste, Ask, Nothing
  <2>8. HeldCommand' /\ Unready'
    BY <1>6, <1>0, <2>2, <2>3
       DEF AdvertiseUnheard, Executing, IInv, TypeOK, HeldCommand, Unready, Nothing
  <2>9. Ready'
    BY <1>6
       DEF AdvertiseUnheard, Executing, IInv, TypeOK, Ready, Greeting, Sending, Idle,
           Unready, Nothing
  <2> QED BY <2>7, <2>8, <2>9 DEF IInv
<1>7. ASSUME SendFormatList PROVE IInv'
  <2>1. queue # <<>>
    BY <1>7 DEF SendFormatList, Executing, IInv, HeldCommand
  <2>2. Head(queue) \in Command /\ queue' \in Seq(Command)
    BY <1>7, <1>0, <2>1, HeadAndTail DEF SendFormatList
  <2>3. Operand \in Advertisement
    BY <1>7, <2>2, OperandTypes DEF SendFormatList, Executing, Operand, IInv, HeldCommand
  <2>7. TypeOK'
    BY <1>7, <1>0, <2>2, <2>3
       DEF SendFormatList, Executing, IInv, TypeOK, Advertisement, Paste, Ask, Nothing
  <2>8. HeldCommand' /\ Unready'
    BY <1>7, <1>0, <2>2, <2>3
       DEF SendFormatList, Executing, IInv, TypeOK, HeldCommand, Unready, Nothing
  <2>9. Ready'
    BY <1>7
       DEF SendFormatList, Executing, IInv, TypeOK, Ready, Greeting, Sending, Idle, Unready,
           Nothing
  <2> QED BY <2>7, <2>8, <2>9 DEF IInv
<1>8. ASSUME NotReady PROVE IInv'
  <2>7. TypeOK'
    BY <1>8, <1>0 DEF NotReady, Executing, IInv, TypeOK, Advertisement, Paste, Ask, Nothing
  <2>8. HeldCommand' /\ Unready'
    BY <1>8, <1>0 DEF NotReady, Executing, IInv, TypeOK, HeldCommand, Unready, Nothing
  <2>9. Ready'
    BY <1>8
       DEF NotReady, Executing, IInv, TypeOK, Ready, Greeting, Sending, Idle, Unready,
           Nothing
  <2> QED BY <2>7, <2>8, <2>9 DEF IInv
<1>9. ASSUME Hold PROVE IInv'
  <2>1. queue # <<>>
    BY <1>9 DEF Hold, Executing, IInv, HeldCommand
  <2>2. Head(queue) \in Command /\ queue' \in Seq(Command)
    BY <1>9, <1>0, <2>1, HeadAndTail DEF Hold
  <2>3. Operand \in Advertisement
    BY <1>9, <2>2, OperandTypes DEF Hold, Executing, Operand, IInv, HeldCommand
  <2>7. TypeOK'
    BY <1>9, <1>0, <2>2, <2>3 DEF Hold, IInv, TypeOK, Advertisement, Paste, Ask, Nothing
  <2>8. HeldCommand' /\ Unready'
    BY <1>9, <1>0, <2>2, <2>3 DEF Hold, IInv, TypeOK, HeldCommand, Unready, Nothing
  <2>9. Ready'
    <3>1. ASSUME ready', ~ crossed' PROVE handler' = "greeting"
      BY <1>9, <3>1 DEF Hold
    <3>2. pending' = Operand /\ standing' = Operand /\ Operand # Nothing
      BY <1>9, <2>3 DEF Hold, Advertisement, Nothing
    <3> QED BY <3>1, <3>2 DEF Ready, Greeting, Sending, Idle
  <2> QED BY <2>7, <2>8, <2>9 DEF IInv
<1>10. ASSUME SendRequest PROVE IInv'
  <2>1. queue # <<>>
    BY <1>10 DEF SendRequest, Executing, IInv, HeldCommand
  <2>2. Head(queue) \in Command /\ queue' \in Seq(Command)
    BY <1>10, <1>0, <2>1, HeadAndTail DEF SendRequest
  <2>3. Operand \in Ask
    BY <1>10, <2>2, OperandTypes DEF SendRequest, Executing, Operand, IInv, HeldCommand
  <2>4. asks' \in Seq(Ask)
    BY <1>10, <1>0, <2>3, AppendKeepsHead DEF SendRequest
  <2>5. last' \in 0 .. MaxAsk
    <3>1. last \in 0 .. MaxAsk /\ Operand \in 0 .. MaxAsk
      BY <1>0, <2>3 DEF IInv, TypeOK, Ask
    <3> QED BY <1>10, <3>1 DEF SendRequest
  <2>7. TypeOK'
    BY <1>10, <2>2, <2>4, <2>5 DEF SendRequest, IInv, TypeOK
  <2>8. HeldCommand' /\ Unready'
    BY <1>10, <1>0, <2>2, <2>3, <2>4
       DEF SendRequest, Executing, IInv, TypeOK, HeldCommand, Unready, Nothing
  <2>9. Ready'
    BY <1>10
       DEF SendRequest, Executing, IInv, TypeOK, Ready, Greeting, Sending, Idle, Unready,
           Nothing
  <2> QED BY <2>7, <2>8, <2>9 DEF IInv
<1>11. ASSUME SendResponse PROVE IInv'
  <2>1. queue # <<>>
    BY <1>11 DEF SendResponse, Executing, IInv, HeldCommand
  <2>2. Head(queue) \in Command /\ queue' \in Seq(Command)
    BY <1>11, <1>0, <2>1, HeadAndTail DEF SendResponse
  <2>3. Operand \in Paste
    BY <1>11, <2>2, OperandTypes DEF SendResponse, Executing, Operand, IInv, HeldCommand
  <2>4. paste' \in 0 .. MaxPaste /\ answered' \in (0 .. MaxPaste) \X (0 .. MaxPaste)
    <3>1. /\ paste \in 0 .. MaxPaste /\ Operand \in 0 .. MaxPaste /\ 0 \in 0 .. MaxPaste
          /\ answered \in (0 .. MaxPaste) \X (0 .. MaxPaste)
      BY <1>0, <2>3 DEF IInv, TypeOK, Paste
    <3> QED BY <1>11, <3>1 DEF SendResponse, Nothing
  <2>5. stray' \in BOOLEAN
    BY <1>11 DEF SendResponse, IInv, TypeOK
  <2>7. TypeOK'
    BY <1>11, <2>2, <2>4, <2>5 DEF SendResponse, IInv, TypeOK
  <2>8. HeldCommand' /\ Unready'
    BY <1>11, <1>0, <2>2, <2>3
       DEF SendResponse, Executing, IInv, TypeOK, HeldCommand, Unready, Nothing
  <2>9. Ready'
    BY <1>11
       DEF SendResponse, Executing, IInv, TypeOK, Ready, Greeting, Sending, Idle, Unready,
           Nothing
  <2> QED BY <2>7, <2>8, <2>9 DEF IInv
<1>12. ASSUME OpenChannel PROVE IInv'
  <2>7. TypeOK'
    BY <1>12, <1>0 DEF OpenChannel, IInv, TypeOK, Advertisement, Paste, Ask, Nothing
  <2>8. HeldCommand' /\ Unready'
    BY <1>12, <1>0 DEF OpenChannel, IInv, TypeOK, HeldCommand, Unready, Nothing
  <2>9. Ready'
    BY <1>12 DEF OpenChannel, IInv, TypeOK, Ready, Greeting, Sending, Idle, Unready, Nothing
  <2> QED BY <2>7, <2>8, <2>9 DEF IInv
<1>13. ASSUME CloseChannel PROVE IInv'
  <2>1. /\ asks' \in Seq(Ask) /\ paste' \in 0 .. MaxPaste /\ former' \in 0 .. MaxPaste
        /\ shown' \in Advertisement \cup {Nothing}
        /\ standing' \in Advertisement \cup {Nothing}
    BY <1>13, <1>0 DEF CloseChannel, IInv, TypeOK, Nothing
  <2>2. {cliprdr', ready', receiver', crossed', stray'} \subseteq BOOLEAN
    BY <1>13 DEF CloseChannel, IInv, TypeOK
  <2>7. TypeOK'
    BY <1>13, <2>1, <2>2 DEF CloseChannel, IInv, TypeOK
  <2>8. HeldCommand' /\ Unready'
    BY <1>13, <1>0 DEF CloseChannel, IInv, TypeOK, HeldCommand, Unready, Nothing
  <2>9. Ready'
    BY <1>13 DEF CloseChannel, IInv, TypeOK, Ready, Greeting, Sending, Idle, Unready, Nothing
  <2> QED BY <2>7, <2>8, <2>9 DEF IInv
<1>14. ASSUME End PROVE IInv'
  <2>7. TypeOK'
    BY <1>14, <1>0 DEF End, IInv, TypeOK, Advertisement, Paste, Ask, Nothing
  <2>8. HeldCommand' /\ Unready'
    BY <1>14, <1>0 DEF End, IInv, TypeOK, HeldCommand, Unready, Nothing
  <2>9. Ready'
    BY <1>14 DEF End, IInv, TypeOK, Ready, Greeting, Sending, Idle, Unready, Nothing
  <2> QED BY <2>7, <2>8, <2>9 DEF IInv
<1>15. ASSUME MonitorReady PROVE IInv'
  <2>7. TypeOK'
    BY <1>15, <1>0 DEF MonitorReady, IInv, TypeOK, Advertisement, Paste, Ask, Nothing
  <2>8. HeldCommand' /\ Unready'
    BY <1>15, <1>0 DEF MonitorReady, IInv, TypeOK, HeldCommand, Unready, Nothing
  <2>9. Ready'
    BY <1>15 DEF MonitorReady, IInv, TypeOK, Ready, Greeting, Sending, Idle, Unready, Nothing
  <2> QED BY <2>7, <2>8, <2>9 DEF IInv
<1>16. ASSUME TakePending PROVE IInv'
  <2>7. TypeOK'
    BY <1>16, <1>0 DEF TakePending, IInv, TypeOK, Advertisement, Paste, Ask, Nothing
  <2>8. HeldCommand' /\ Unready'
    BY <1>16, <1>0 DEF TakePending, IInv, TypeOK, HeldCommand, Unready, Nothing
  <2>9. Ready'
    BY <1>16 DEF TakePending, IInv, TypeOK, Ready, Greeting, Sending, Idle, Unready, Nothing
  <2> QED BY <2>7, <2>8, <2>9 DEF IInv
<1>17. ASSUME SendHeld PROVE IInv'
  <2>7. TypeOK'
    BY <1>17, <1>0 DEF SendHeld, IInv, TypeOK, Advertisement, Paste, Ask, Nothing
  <2>8. HeldCommand' /\ Unready'
    BY <1>17, <1>0 DEF SendHeld, IInv, TypeOK, HeldCommand, Unready, Nothing
  <2>9. Ready'
    BY <1>17 DEF SendHeld, IInv, TypeOK, Ready, Greeting, Sending, Idle, Unready, Nothing
  <2> QED BY <2>7, <2>8, <2>9 DEF IInv
<1>18. ASSUME ServerFormatDataRequest PROVE IInv'
  <2>1. pastes' \in Paste
    <3>1. pastes \in 0 .. MaxPaste
      BY DEF IInv, TypeOK
    <3>2. pastes < MaxPaste /\ pastes' = pastes + 1
      BY <1>18 DEF ServerFormatDataRequest
    <3> QED BY <1>0, <3>1, <3>2 DEF Paste
  <2>2. events' \in Seq(Paste)
    <3>1. Append(events, pastes') \in Seq(Paste)
      BY <1>0, <2>1, AppendKeepsHead
    <3> QED BY <1>18, <1>0, <3>1 DEF ServerFormatDataRequest
  <2>3. /\ pastes' \in 0 .. MaxPaste /\ paste' \in 0 .. MaxPaste
        /\ answered' \in (0 .. MaxPaste) \X (0 .. MaxPaste)
    <3>1. /\ pastes' \in 0 .. MaxPaste /\ paste \in 0 .. MaxPaste
          /\ answered \in (0 .. MaxPaste) \X (0 .. MaxPaste)
      BY <1>0, <2>1 DEF IInv, TypeOK, Paste
    <3>2. CASE receiver
      BY <1>18, <3>1, <3>2 DEF ServerFormatDataRequest
    <3>3. CASE ~ receiver
      BY <1>18, <3>1, <3>3 DEF ServerFormatDataRequest
    <3> QED BY <3>2, <3>3
  <2>7. TypeOK'
    BY <1>18, <2>2, <2>3 DEF ServerFormatDataRequest, IInv, TypeOK
  <2>8. HeldCommand' /\ Unready'
    BY <1>18, <1>0, <2>1, <2>2
       DEF ServerFormatDataRequest, IInv, TypeOK, HeldCommand, Unready, Nothing
  <2>9. Ready'
    BY <1>18
       DEF ServerFormatDataRequest, IInv, TypeOK, Ready, Greeting, Sending, Idle, Unready,
           Nothing
  <2> QED BY <2>7, <2>8, <2>9 DEF IInv
<1>19. ASSUME ServerFormatDataResponse PROVE IInv'
  <2>1. Head(asks) \in Ask /\ asks' \in Seq(Ask)
    BY <1>19, <1>0, HeadAndTail DEF ServerFormatDataResponse
  <2>2. labelled' \in (0 .. MaxAsk) \X (0 .. MaxAsk)
    <3>1. Head(asks) \in 0 .. MaxAsk /\ last \in 0 .. MaxAsk
      BY <1>0, <2>1 DEF IInv, TypeOK, Ask
    <3> QED BY <1>19, <3>1 DEF ServerFormatDataResponse
  <2>7. TypeOK'
    BY <1>19, <2>1, <2>2 DEF ServerFormatDataResponse, IInv, TypeOK
  <2>8. HeldCommand' /\ Unready'
    BY <1>19, <1>0, <2>1
       DEF ServerFormatDataResponse, IInv, TypeOK, HeldCommand, Unready, Nothing
  <2>9. Ready'
    BY <1>19
       DEF ServerFormatDataResponse, IInv, TypeOK, Ready, Greeting, Sending, Idle, Unready,
           Nothing
  <2> QED BY <2>7, <2>8, <2>9 DEF IInv
<1>20. CASE UNCHANGED vars
  BY <1>20 DEF vars, IInv, TypeOK, HeldCommand, Unready, Ready, Greeting, Sending, Idle
<1> QED
  BY <1>1, <1>2, <1>3, <1>4, <1>5, <1>6, <1>7, <1>8, <1>9, <1>10, <1>11, <1>12, <1>13,
     <1>14, <1>15, <1>16, <1>17, <1>18, <1>19, <1>20 DEF Next, Embedder, Execute, Greet

(* The bridge, the queue, the host and the embedder keep their types.      *)
THEOREM Types == Spec => []TypeOK
<1>1. IInv => TypeOK
  BY DEF IInv
<1> QED BY <1>1, InitIInv, NextIInv, PTL DEF Spec

(* No interleaving of MonitorReady with advertisements leaves one behind,  *)
(* or an older one shown, except where one falls inside the other.         *)
THEOREM OfferInvariant == Spec => []LastOfferStands
<1>1. IInv => LastOfferStands
  BY DEF IInv, Ready, Idle, LastOfferStands
<1> QED BY <1>1, InitIInv, NextIInv, PTL DEF Spec
-----------------------------------------------------------------------------
(* The answers.  A paste is outstanding from the event to the end of the   *)
(* command that answers it: in the Receiver, with the embedder or in the   *)
(* queue, in one of them and once. *)
In(q, x)   == \E i \in DOMAIN q : q[i] = x
Once(q, R) == \A i, j \in DOMAIN q : q[i] = q[j] /\ q[i] \in R => i = j

Answer(p)      == <<"respond", p>>
Answers        == {"respond"} \X Paste
Outstanding(p) == In(events, p) \/ p \in owed \/ In(queue, Answer(p))

OneAnswer ==
  /\ Once(events, Paste) /\ Once(queue, Answers)
  /\ \A p \in Paste : /\ In(events, p) => p \notin owed
                      /\ In(queue, Answer(p)) => p \notin owed /\ ~ In(events, p)

(* None has a number yet to come, *)
Numbered == /\ former <= pastes /\ answered[2] <= pastes
            /\ \A p \in Paste : Outstanding(p) => p <= pastes

(* and one of this channel is the one the host waits on. *)
InHand == ~ stray => \A p \in Paste : Outstanding(p) /\ p > former => paste = p

AnswerInv == OneAnswer /\ Numbered /\ InHand /\ AnswerFindsItsRequest

(* What Append and Tail do to what is in a sequence, and how often. *)
LEMMA AppendOnce ==
  ASSUME NEW S, NEW q \in Seq(S), NEW c \in S
  PROVE  /\ \A x : In(Append(q, c), x) => In(q, x) \/ x = c
         /\ \A R : Once(q, R) /\ (c \in R => ~ In(q, c)) => Once(Append(q, c), R)
<1>1. /\ Len(q) \in Nat /\ DOMAIN q = 1 .. Len(q)
      /\ Append(q, c) \in Seq(S) /\ Len(Append(q, c)) = Len(q) + 1
      /\ DOMAIN Append(q, c) = 1 .. Len(q) + 1
      /\ \A i \in 1 .. Len(q) : Append(q, c)[i] = q[i]
      /\ Append(q, c)[Len(q) + 1] = c
  BY AppendProperties, LenProperties
<1> DEFINE a == Append(q, c)
<1> HIDE DEF a
<1>2. \A i \in DOMAIN a : (i \in DOMAIN q /\ a[i] = q[i]) \/ (i = Len(q) + 1 /\ a[i] = c)
  BY <1>1 DEF a
<1>3. \A x : In(a, x) => In(q, x) \/ x = c
  BY <1>2 DEF In
<1>4. ASSUME NEW R, Once(q, R), c \in R => ~ In(q, c) PROVE Once(a, R)
  <2> SUFFICES ASSUME NEW i \in DOMAIN a, NEW j \in DOMAIN a, a[i] = a[j], a[i] \in R
               PROVE  i = j
    BY DEF Once
  <2> QED  BY <1>2, <1>4 DEF Once, In
<1> QED  BY <1>3, <1>4 DEF a

LEMMA TailOnce ==
  ASSUME NEW S, NEW q \in Seq(S), q # <<>>
  PROVE  /\ In(q, Head(q))
         /\ \A x : In(Tail(q), x) => In(q, x)
         /\ \A R : Once(q, R) => /\ Once(Tail(q), R)
                                 /\ Head(q) \in R => ~ In(Tail(q), Head(q))
<1>1. /\ Len(q) \in Nat /\ Len(q) >= 1 /\ DOMAIN q = 1 .. Len(q)
      /\ Tail(q) \in Seq(S) /\ Len(Tail(q)) = Len(q) - 1
      /\ DOMAIN Tail(q) = 1 .. Len(q) - 1
      /\ \A i \in 1 .. Len(q) - 1 : Tail(q)[i] = q[i + 1]
  BY HeadTailProperties, LenProperties, EmptySeq
<1>2. Head(q) = q[1]
  BY HeadTailProperties
<1> DEFINE b == Tail(q)
           h == Head(q)
<1> HIDE DEF b, h
<1>3. 1 \in DOMAIN q /\ q[1] = h
  BY <1>1, <1>2 DEF h
<1>4. \A i \in DOMAIN b : i \in Nat /\ i + 1 \in DOMAIN q /\ i + 1 # 1 /\ b[i] = q[i + 1]
  BY <1>1 DEF b
<1>5. In(q, h) /\ \A x : In(b, x) => In(q, x)
  BY <1>3, <1>4 DEF In
<1>6. ASSUME NEW R, Once(q, R) PROVE Once(b, R) /\ (h \in R => ~ In(b, h))
  <2>1. Once(b, R)
    <3> SUFFICES ASSUME NEW i \in DOMAIN b, NEW j \in DOMAIN b, b[i] = b[j], b[i] \in R
                 PROVE  i = j
      BY DEF Once
    <3>1. i + 1 = j + 1
      BY <1>4, <1>6 DEF Once
    <3> QED  BY <1>4, <3>1
  <2>2. ASSUME h \in R, NEW i \in DOMAIN b, b[i] = h PROVE FALSE
    BY <1>3, <1>4, <1>6, <2>2 DEF Once
  <2> QED  BY <2>1, <2>2 DEF In
<1> QED  BY <1>5, <1>6 DEF b, h

(* While the host neither asks nor is answered, what is outstanding only   *)
(* moves or goes. *)
LEMMA AnswersMove ==
  ASSUME AnswerInv, UNCHANGED <<pastes, paste, former, stray, answered>>,
         OneAnswer', \A p \in Paste : Outstanding(p)' => Outstanding(p)
  PROVE  AnswerInv'
<1>1. Numbered' /\ InHand'
  BY DEF AnswerInv, Numbered, InHand
<1>2. AnswerFindsItsRequest'
  BY DEF AnswerInv, AnswerFindsItsRequest
<1> QED  BY <1>1, <1>2 DEF AnswerInv

LEMMA AnswersGo ==
  ASSUME OneAnswer, Once(events', Paste), Once(queue', Answers), owed' \subseteq owed,
         \A p \in Paste : /\ In(events', p) => In(events, p)
                          /\ In(queue', Answer(p)) => In(queue, Answer(p))
  PROVE  OneAnswer' /\ \A p \in Paste : Outstanding(p)' => Outstanding(p)
<1>1. \A p \in Paste : Outstanding(p)' => Outstanding(p)
  BY DEF Outstanding
<1>2. \A p \in Paste : /\ In(events', p) => p \notin owed'
                       /\ In(queue', Answer(p)) => p \notin owed' /\ ~ In(events', p)
  BY DEF OneAnswer
<1> QED  BY <1>1, <1>2 DEF OneAnswer

LEMMA AnswerStep == IInv /\ AnswerInv /\ [Next]_vars => AnswerInv'
<1> SUFFICES ASSUME IInv, AnswerInv, [Next]_vars PROVE AnswerInv'
  OBVIOUS
<1> USE DEF caller, bridge, offers, thread, host, requests
<1>0. /\ TypeOK /\ HeldCommand /\ MaxPaste \in Nat
      /\ queue \in Seq(Command) /\ events \in Seq(Paste) /\ owed \subseteq Paste
      /\ pastes \in Nat /\ former \in Nat /\ paste \in Nat /\ stray \in BOOLEAN
  <2>1. TypeOK /\ HeldCommand /\ MaxPaste \in Nat
    BY ClipboardAssumption DEF ClipboardAssumption, IInv
  <2>2. /\ queue \in Seq(Command) /\ events \in Seq(Paste) /\ owed \subseteq Paste
        /\ {pastes, paste, former} \subseteq 0 .. MaxPaste /\ stray \in BOOLEAN
    BY <2>1 DEF TypeOK
  <2>3. pastes \in Nat /\ former \in Nat /\ paste \in Nat
    BY <2>1, <2>2
  <2> QED  BY <2>1, <2>2, <2>3
<1>b. /\ OneAnswer /\ Once(events, Paste) /\ Once(queue, Answers)
      /\ Numbered /\ InHand /\ AnswerFindsItsRequest
  BY DEF AnswerInv, OneAnswer
<1>1. CASE NotReady
  <2>1. UNCHANGED <<events, owed, queue, pastes, paste, former, stray, answered>>
    BY <1>1 DEF NotReady
  <2> QED  BY <1>b, <2>1, AnswersGo, AnswersMove
<1>2. CASE OpenChannel
  <2>1. UNCHANGED <<events, owed, queue, pastes, paste, former, stray, answered>>
    BY <1>2 DEF OpenChannel
  <2> QED  BY <1>b, <2>1, AnswersGo, AnswersMove
<1>3. CASE End
  <2>1. UNCHANGED <<events, owed, queue, pastes, paste, former, stray, answered>>
    BY <1>3 DEF End
  <2> QED  BY <1>b, <2>1, AnswersGo, AnswersMove
<1>4. CASE MonitorReady
  <2>1. UNCHANGED <<events, owed, queue, pastes, paste, former, stray, answered>>
    BY <1>4 DEF MonitorReady
  <2> QED  BY <1>b, <2>1, AnswersGo, AnswersMove
<1>5. CASE TakePending
  <2>1. UNCHANGED <<events, owed, queue, pastes, paste, former, stray, answered>>
    BY <1>5 DEF TakePending
  <2> QED  BY <1>b, <2>1, AnswersGo, AnswersMove
<1>6. CASE SendHeld
  <2>1. UNCHANGED <<events, owed, queue, pastes, paste, former, stray, answered>>
    BY <1>6 DEF SendHeld
  <2> QED  BY <1>b, <2>1, AnswersGo, AnswersMove
<1>7. CASE ServerFormatDataResponse
  <2>1. UNCHANGED <<events, owed, queue, pastes, paste, former, stray, answered>>
    BY <1>7 DEF ServerFormatDataResponse
  <2> QED  BY <1>b, <2>1, AnswersGo, AnswersMove
<1>8. CASE Advertise
  <2> DEFINE c == <<"advertise", advertised'>>
  <2>1. /\ queue' = Append(queue, c)
        /\ UNCHANGED <<events, owed, pastes, paste, former, stray, answered>>
    BY <1>8 DEF Advertise
  <2>2. c \in Command
    <3>1. advertised' \in Advertisement
      BY <1>8, <1>0, ClipboardAssumption
         DEF Advertise, TypeOK, Advertisement, ClipboardAssumption
    <3> QED  BY <3>1 DEF Command
  <2>3. c \notin Answers /\ \A p \in Paste : Answer(p) # c
    BY DEF Answers, Answer
  <2> HIDE DEF c
  <2>4. /\ Once(queue', Answers)
        /\ \A p \in Paste : In(queue', Answer(p)) => In(queue, Answer(p))
    BY <1>0, <1>b, <2>1, <2>2, <2>3, AppendOnce
  <2> QED  BY <1>b, <2>1, <2>4, AnswersGo, AnswersMove
<1>9. CASE Request
  <2> DEFINE c == <<"request", asked'>>
  <2>1. /\ queue' = Append(queue, c)
        /\ UNCHANGED <<events, owed, pastes, paste, former, stray, answered>>
    BY <1>9 DEF Request
  <2>2. c \in Command
    <3>1. asked' \in Ask
      BY <1>9, <1>0, ClipboardAssumption DEF Request, TypeOK, Ask, ClipboardAssumption
    <3> QED  BY <3>1 DEF Command
  <2>3. c \notin Answers /\ \A p \in Paste : Answer(p) # c
    BY DEF Answers, Answer
  <2> HIDE DEF c
  <2>4. /\ Once(queue', Answers)
        /\ \A p \in Paste : In(queue', Answer(p)) => In(queue, Answer(p))
    BY <1>0, <1>b, <2>1, <2>2, <2>3, AppendOnce
  <2> QED  BY <1>b, <2>1, <2>4, AnswersGo, AnswersMove
<1>10. CASE AdvertiseUnheard
  <2>1. /\ queue # <<>> /\ queue' = Tail(queue)
        /\ UNCHANGED <<events, owed, pastes, paste, former, stray, answered>>
    BY <1>10, <1>0 DEF AdvertiseUnheard, Executing, HeldCommand
  <2>2. /\ Once(queue', Answers)
        /\ \A p \in Paste : In(queue', Answer(p)) => In(queue, Answer(p))
    BY <1>0, <1>b, <2>1, TailOnce
  <2> QED  BY <1>b, <2>1, <2>2, AnswersGo, AnswersMove
<1>11. CASE SendFormatList
  <2>1. /\ queue # <<>> /\ queue' = Tail(queue)
        /\ UNCHANGED <<events, owed, pastes, paste, former, stray, answered>>
    BY <1>11, <1>0 DEF SendFormatList, Executing, HeldCommand
  <2>2. /\ Once(queue', Answers)
        /\ \A p \in Paste : In(queue', Answer(p)) => In(queue, Answer(p))
    BY <1>0, <1>b, <2>1, TailOnce
  <2> QED  BY <1>b, <2>1, <2>2, AnswersGo, AnswersMove
<1>12. CASE Hold
  <2>1. /\ queue # <<>> /\ queue' = Tail(queue)
        /\ UNCHANGED <<events, owed, pastes, paste, former, stray, answered>>
    BY <1>12, <1>0 DEF Hold, Executing, HeldCommand
  <2>2. /\ Once(queue', Answers)
        /\ \A p \in Paste : In(queue', Answer(p)) => In(queue, Answer(p))
    BY <1>0, <1>b, <2>1, TailOnce
  <2> QED  BY <1>b, <2>1, <2>2, AnswersGo, AnswersMove
<1>13. CASE SendRequest
  <2>1. /\ queue # <<>> /\ queue' = Tail(queue)
        /\ UNCHANGED <<events, owed, pastes, paste, former, stray, answered>>
    BY <1>13, <1>0 DEF SendRequest, Executing, HeldCommand
  <2>2. /\ Once(queue', Answers)
        /\ \A p \in Paste : In(queue', Answer(p)) => In(queue, Answer(p))
    BY <1>0, <1>b, <2>1, TailOnce
  <2> QED  BY <1>b, <2>1, <2>2, AnswersGo, AnswersMove
<1>14. CASE Read
  <2> DEFINE e == Head(events)
  <2>1. /\ events # <<>> /\ events' = Tail(events) /\ owed' = owed \cup {e}
        /\ UNCHANGED <<queue, pastes, paste, former, stray, answered>>
    BY <1>14 DEF Read
  <2>2. e \in Paste
    BY <1>0, <2>1, HeadAndTail
  <2>3. /\ In(events, e) /\ ~ In(events', e) /\ Once(events', Paste)
        /\ \A p \in Paste : In(events', p) => In(events, p)
    BY <1>0, <1>b, <2>1, <2>2, TailOnce
  <2> HIDE DEF e
  <2>4. OneAnswer' /\ \A p \in Paste : Outstanding(p)' => Outstanding(p)
    BY <1>b, <2>1, <2>2, <2>3 DEF OneAnswer, Outstanding
  <2> QED  BY <2>1, <2>4, AnswersMove
<1>15. ASSUME NEW p \in Paste, Respond(p) PROVE AnswerInv'
  <2>1. /\ p \in owed /\ owed' = owed \ {p} /\ queue' = Append(queue, Answer(p))
        /\ UNCHANGED <<events, pastes, paste, former, stray, answered>>
    BY <1>15 DEF Respond, Answer
  <2>2. Answer(p) \in Command /\ \A x \in Paste : Answer(x) = Answer(p) => x = p
    BY DEF Answer, Command
  <2>3. ~ In(queue, Answer(p)) /\ ~ In(events, p)
    BY <1>b, <2>1 DEF OneAnswer
  <2>4. /\ Once(queue', Answers)
        /\ \A x \in Paste : In(queue', Answer(x)) => In(queue, Answer(x)) \/ x = p
    BY <1>0, <1>b, <2>1, <2>2, <2>3, AppendOnce
  <2>5. OneAnswer' /\ \A x \in Paste : Outstanding(x)' => Outstanding(x)
    BY <1>b, <2>1, <2>3, <2>4 DEF OneAnswer, Outstanding
  <2> QED  BY <2>1, <2>5, AnswersMove
<1>16. CASE DropReceiver
  <2>1. /\ events' = <<>>
        /\ UNCHANGED <<queue, owed, pastes, paste, former, stray, answered>>
    BY <1>16 DEF DropReceiver
  <2>2. Once(events', Paste) /\ \A p \in Paste : In(events', p) => In(events, p)
    BY <2>1 DEF Once, In
  <2> QED  BY <1>b, <2>1, <2>2, AnswersGo, AnswersMove
<1>17. CASE SendResponse
  <2>1. /\ queue # <<>> /\ queue' = Tail(queue) /\ Head(queue)[1] = "respond"
        /\ UNCHANGED <<events, owed, pastes, former>>
    BY <1>17 DEF SendResponse, Executing
  <2>2. PICK o \in Paste : Head(queue) = Answer(o)
    <3>1. Head(queue) \in Command
      BY <1>0, <2>1, HeadAndTail
    <3> QED  BY <2>1, <3>1 DEF Command, Answer
  <2>7. Operand = o /\ Answer(o) \in Answers
    BY <2>2 DEF Operand, Answer, Answers
  <2>3. /\ Once(queue', Answers) /\ In(queue, Answer(o)) /\ ~ In(queue', Answer(o))
        /\ \A p \in Paste : In(queue', Answer(p)) => In(queue, Answer(p))
    BY <1>0, <1>b, <2>1, <2>2, <2>7, TailOnce
  <2>4. OneAnswer' /\ \A p \in Paste : Outstanding(p)' => Outstanding(p)
    BY <1>b, <2>1, <2>3, AnswersGo
  <2>5. CASE ~ cliprdr
    <3>1. UNCHANGED <<paste, stray, answered>>
      BY <1>17, <2>5 DEF SendResponse
    <3> QED  BY <2>1, <2>4, <3>1, AnswersMove
  <2>6. CASE cliprdr
    <3>1. /\ answered' = <<paste, o>> /\ paste' = Nothing
          /\ stray' = (stray \/ o <= former)
      BY <1>17, <2>6, <2>7 DEF SendResponse
    <3>2. Outstanding(o) /\ o <= pastes /\ o \in Nat
      BY <1>b, <2>2, <2>3 DEF Outstanding, Numbered, Paste
    <3>3. ~ Outstanding(o)'
      <4>1. ~ In(events, o) /\ o \notin owed
        BY <1>b, <2>2, <2>3 DEF OneAnswer
      <4> QED  BY <2>1, <2>3, <4>1 DEF Outstanding
    <3>4. Numbered'
      BY <1>b, <2>1, <2>4, <3>1, <3>2 DEF Numbered
    <3>5. ASSUME ~ stray' PROVE ~ stray /\ o > former /\ paste = o
      <4>0. ~ stray /\ ~ (o <= former)
        BY <3>1, <3>5, Zenon
      <4>1. ~ stray /\ o > former
        BY <1>0, <3>2, <4>0
      <4> QED  BY <1>b, <2>2, <3>2, <4>1 DEF InHand
    <3>6. InHand'
      <4> SUFFICES ASSUME ~ stray', NEW p \in Paste, Outstanding(p)', p > former
                   PROVE  FALSE
        BY <2>1 DEF InHand
      <4>1. paste = p
        BY <1>b, <2>4, <3>5 DEF InHand
      <4> QED  BY <3>3, <3>5, <4>1
    <3>7. AnswerFindsItsRequest'
      BY <3>1, <3>5 DEF AnswerFindsItsRequest
    <3> QED  BY <2>4, <3>4, <3>6, <3>7 DEF AnswerInv
  <2> QED  BY <2>5, <2>6
<1>18. CASE CloseChannel
  <2>1. /\ former' = pastes /\ stray' = FALSE
        /\ UNCHANGED <<events, owed, queue, pastes, answered>>
    BY <1>18 DEF CloseChannel
  <2>2. OneAnswer' /\ \A p \in Paste : Outstanding(p)' => Outstanding(p)
    BY <1>b, <2>1, AnswersGo
  <2>3. answered[2] \in Nat /\ \A p \in Paste : p \in Nat
    BY <1>0 DEF TypeOK, Paste
  <2>4. Numbered'
    BY <1>0, <1>b, <2>1, <2>2 DEF Numbered
  <2>5. InHand' /\ AnswerFindsItsRequest'
    BY <1>0, <1>b, <2>1, <2>2, <2>3 DEF Numbered, InHand, AnswerFindsItsRequest
  <2> QED  BY <2>2, <2>4, <2>5 DEF AnswerInv
<1>19. CASE ServerFormatDataRequest
  <2>1. /\ pastes' = pastes + 1 /\ pastes' \in Paste /\ paste = Nothing
        /\ UNCHANGED <<queue, owed, former, stray>>
    BY <1>19, <1>0 DEF ServerFormatDataRequest, Paste
  <2>2. ~ Outstanding(pastes') /\ former < pastes' /\ \A p \in Paste : p \in Nat /\ p # Nothing
    BY <1>0, <1>b, <2>1 DEF Numbered, Paste, Nothing
  <2>3. ~ stray => \A p \in Paste : Outstanding(p) => ~ (p > former)
    BY <1>b, <2>1, <2>2 DEF InHand
  <2>4. CASE receiver
    <3>1. paste' = pastes' /\ events' = Append(events, pastes') /\ answered' = answered
      BY <1>19, <2>4 DEF ServerFormatDataRequest
    <3>2. /\ Once(events', Paste)
          /\ \A p \in Paste : In(events', p) => In(events, p) \/ p = pastes'
      BY <1>0, <1>b, <2>1, <2>2, <3>1, AppendOnce DEF Outstanding
    <3>3. OneAnswer' /\ \A p \in Paste : Outstanding(p)' => Outstanding(p) \/ p = pastes'
      BY <1>b, <2>1, <2>2, <3>2 DEF OneAnswer, Outstanding
    <3>4. Numbered'
      <4>1. answered[2] \in Nat
        BY <1>0 DEF TypeOK
      <4> QED  BY <1>0, <1>b, <2>1, <2>2, <3>1, <3>3, <4>1 DEF Numbered
    <3>5. InHand'
      BY <2>1, <2>3, <3>1, <3>3 DEF InHand
    <3>6. AnswerFindsItsRequest'
      BY <1>b, <2>1, <3>1 DEF AnswerFindsItsRequest
    <3> QED  BY <3>3, <3>4, <3>5, <3>6 DEF AnswerInv
  <2>5. CASE ~ receiver
    <3>1. answered' = <<pastes', pastes'>> /\ UNCHANGED <<paste, events>>
      BY <1>19, <2>5 DEF ServerFormatDataRequest
    <3>2. OneAnswer' /\ \A p \in Paste : Outstanding(p)' => Outstanding(p)
      BY <1>b, <2>1, <3>1, AnswersGo
    <3>3. Numbered'
      BY <1>0, <1>b, <2>1, <2>2, <3>1, <3>2 DEF Numbered
    <3>4. InHand' /\ AnswerFindsItsRequest'
      BY <1>b, <2>1, <3>1, <3>2 DEF InHand, AnswerFindsItsRequest
    <3> QED  BY <3>2, <3>3, <3>4 DEF AnswerInv
  <2> QED  BY <2>4, <2>5
<1>20. CASE UNCHANGED vars
  <2>1. UNCHANGED <<events, owed, queue, pastes, paste, former, stray, answered>>
    BY <1>20 DEF vars
  <2> QED  BY <1>b, <2>1, AnswersGo, AnswersMove
<1> QED
  BY <1>1, <1>2, <1>3, <1>4, <1>5, <1>6, <1>7, <1>8, <1>9, <1>10, <1>11, <1>12, <1>13,
     <1>14, <1>15, <1>16, <1>17, <1>18, <1>19, <1>20
  DEF Next, Embedder, Execute, Greet

(* However pastes, drops and reconnects interleave, an answer goes to the  *)
(* request the host waits on, unless one to a former channel's went out.   *)
THEOREM AnswersFindRequests == Spec => []AnswerFindsItsRequest
<1>1. Init => AnswerInv
  BY DEF Init, AnswerInv, OneAnswer, Numbered, InHand, AnswerFindsItsRequest, Once, In,
         Outstanding
<1>2. AnswerInv => AnswerFindsItsRequest
  BY DEF AnswerInv
<1> QED  BY <1>1, <1>2, InitIInv, NextIInv, AnswerStep, PTL DEF Spec
-----------------------------------------------------------------------------
(* What the host waits for is somewhere on its way: with the embedder, in  *)
(* the Receiver or in the queue, unless the Receiver was dropped with it.  *)
NoPasteIsForgotten ==
  paste # Nothing => cliprdr /\ (Outstanding(paste) \/ paste \in dropped)

(* Append and Tail lose nothing else. *)
LEMMA AppendKeeps ==
  ASSUME NEW S, NEW q \in Seq(S), NEW c \in S
  PROVE  In(Append(q, c), c) /\ \A x : In(q, x) => In(Append(q, c), x)
<1>1. /\ Len(q) \in Nat /\ DOMAIN q = 1 .. Len(q)
      /\ DOMAIN Append(q, c) = 1 .. Len(q) + 1
      /\ \A i \in 1 .. Len(q) : Append(q, c)[i] = q[i]
      /\ Append(q, c)[Len(q) + 1] = c
  BY AppendProperties, LenProperties
<1> DEFINE a == Append(q, c)
<1> HIDE DEF a
<1>2. Len(q) + 1 \in DOMAIN a /\ a[Len(q) + 1] = c
  BY <1>1 DEF a
<1>3. \A i \in DOMAIN q : i \in DOMAIN a /\ a[i] = q[i]
  BY <1>1 DEF a
<1> QED  BY <1>2, <1>3 DEF In, a

LEMMA TailKeeps ==
  ASSUME NEW S, NEW q \in Seq(S), q # <<>>
  PROVE  \A x : In(q, x) => In(Tail(q), x) \/ x = Head(q)
<1>1. /\ Len(q) \in Nat /\ DOMAIN q = 1 .. Len(q)
      /\ DOMAIN Tail(q) = 1 .. Len(q) - 1
      /\ \A i \in 1 .. Len(q) - 1 : Tail(q)[i] = q[i + 1]
  BY HeadTailProperties, LenProperties, EmptySeq
<1>2. Head(q) = q[1]
  BY HeadTailProperties
<1> DEFINE b == Tail(q)
           h == Head(q)
<1> HIDE DEF b, h
<1>3. \A i \in DOMAIN q : i = 1 \/ (i - 1 \in DOMAIN b /\ b[i - 1] = q[i])
  BY <1>1 DEF b
<1> SUFFICES ASSUME NEW x, NEW i \in DOMAIN q, q[i] = x PROVE In(b, x) \/ x = h
  BY DEF In, b, h
<1>4. CASE i = 1
  BY <1>2, <1>4 DEF h
<1>5. CASE i - 1 \in DOMAIN b /\ b[i - 1] = q[i]
  BY <1>5 DEF In
<1> QED  BY <1>3, <1>4, <1>5

LEMMA ForgottenStep == IInv /\ NoPasteIsForgotten /\ [Next]_vars => NoPasteIsForgotten'
<1> SUFFICES ASSUME IInv, NoPasteIsForgotten, [Next]_vars PROVE NoPasteIsForgotten'
  OBVIOUS
<1> USE DEF caller, bridge, offers, thread, host, requests
<1>0. /\ TypeOK /\ HeldCommand /\ MaxPaste \in Nat
      /\ queue \in Seq(Command) /\ events \in Seq(Paste) /\ owed \subseteq Paste
      /\ paste # Nothing => paste \in Paste
  <2>1. TypeOK /\ HeldCommand /\ MaxPaste \in Nat
    BY ClipboardAssumption DEF ClipboardAssumption, IInv
  <2>2. /\ queue \in Seq(Command) /\ events \in Seq(Paste) /\ owed \subseteq Paste
        /\ paste \in 0 .. MaxPaste
    BY <2>1 DEF TypeOK
  <2> QED  BY <2>1, <2>2 DEF Nothing, Paste
<1>1. CASE NotReady
  <2>1. UNCHANGED <<events, owed, queue, paste, dropped, cliprdr>>
    BY <1>1 DEF NotReady
  <2> QED  BY <2>1 DEF NoPasteIsForgotten, Outstanding
<1>2. CASE End
  <2>1. UNCHANGED <<events, owed, queue, paste, dropped, cliprdr>>
    BY <1>2 DEF End
  <2> QED  BY <2>1 DEF NoPasteIsForgotten, Outstanding
<1>3. CASE MonitorReady
  <2>1. UNCHANGED <<events, owed, queue, paste, dropped, cliprdr>>
    BY <1>3 DEF MonitorReady
  <2> QED  BY <2>1 DEF NoPasteIsForgotten, Outstanding
<1>4. CASE TakePending
  <2>1. UNCHANGED <<events, owed, queue, paste, dropped, cliprdr>>
    BY <1>4 DEF TakePending
  <2> QED  BY <2>1 DEF NoPasteIsForgotten, Outstanding
<1>5. CASE SendHeld
  <2>1. UNCHANGED <<events, owed, queue, paste, dropped, cliprdr>>
    BY <1>5 DEF SendHeld
  <2> QED  BY <2>1 DEF NoPasteIsForgotten, Outstanding
<1>6. CASE ServerFormatDataResponse
  <2>1. UNCHANGED <<events, owed, queue, paste, dropped, cliprdr>>
    BY <1>6 DEF ServerFormatDataResponse
  <2> QED  BY <2>1 DEF NoPasteIsForgotten, Outstanding
<1>7. CASE OpenChannel
  <2>1. paste = Nothing /\ paste' = paste
    BY <1>7 DEF OpenChannel, NoPasteIsForgotten
  <2> QED  BY <2>1 DEF NoPasteIsForgotten
<1>8. CASE CloseChannel
  BY <1>8 DEF CloseChannel, NoPasteIsForgotten
<1>9. CASE Advertise
  <2>1. /\ queue' = Append(queue, <<"advertise", advertised'>>)
        /\ UNCHANGED <<events, owed, paste, dropped, cliprdr>>
    BY <1>9 DEF Advertise
  <2>2. <<"advertise", advertised'>> \in Command
    <3>1. advertised' \in Advertisement
      BY <1>9, <1>0, ClipboardAssumption
         DEF Advertise, TypeOK, Advertisement, ClipboardAssumption
    <3> QED  BY <3>1 DEF Command
  <2>3. \A x : In(queue, x) => In(queue', x)
    BY <1>0, <2>1, <2>2, AppendKeeps
  <2> QED  BY <2>1, <2>3 DEF NoPasteIsForgotten, Outstanding, Answer
<1>10. CASE Request
  <2>1. /\ queue' = Append(queue, <<"request", asked'>>)
        /\ UNCHANGED <<events, owed, paste, dropped, cliprdr>>
    BY <1>10 DEF Request
  <2>2. <<"request", asked'>> \in Command
    <3>1. asked' \in Ask
      BY <1>10, <1>0, ClipboardAssumption DEF Request, TypeOK, Ask, ClipboardAssumption
    <3> QED  BY <3>1 DEF Command
  <2>3. \A x : In(queue, x) => In(queue', x)
    BY <1>0, <2>1, <2>2, AppendKeeps
  <2> QED  BY <2>1, <2>3 DEF NoPasteIsForgotten, Outstanding, Answer
<1>11. CASE AdvertiseUnheard
  <2>1. /\ queue # <<>> /\ queue' = Tail(queue) /\ Head(queue)[1] # "respond"
        /\ UNCHANGED <<events, owed, paste, dropped, cliprdr>>
    BY <1>11, <1>0 DEF AdvertiseUnheard, Executing, HeldCommand
  <2>2. \A p \in Paste : In(queue, Answer(p)) => In(queue', Answer(p))
    <3>1. \A p \in Paste : Head(queue) # Answer(p)
      BY <2>1 DEF Answer
    <3> QED  BY <1>0, <2>1, <3>1, TailKeeps
  <2> QED  BY <1>0, <2>1, <2>2 DEF NoPasteIsForgotten, Outstanding
<1>12. CASE SendFormatList
  <2>1. /\ queue # <<>> /\ queue' = Tail(queue) /\ Head(queue)[1] # "respond"
        /\ UNCHANGED <<events, owed, paste, dropped, cliprdr>>
    BY <1>12, <1>0 DEF SendFormatList, Executing, HeldCommand
  <2>2. \A p \in Paste : In(queue, Answer(p)) => In(queue', Answer(p))
    <3>1. \A p \in Paste : Head(queue) # Answer(p)
      BY <2>1 DEF Answer
    <3> QED  BY <1>0, <2>1, <3>1, TailKeeps
  <2> QED  BY <1>0, <2>1, <2>2 DEF NoPasteIsForgotten, Outstanding
<1>13. CASE Hold
  <2>1. /\ queue # <<>> /\ queue' = Tail(queue) /\ Head(queue)[1] # "respond"
        /\ UNCHANGED <<events, owed, paste, dropped, cliprdr>>
    BY <1>13, <1>0 DEF Hold, Executing, HeldCommand
  <2>2. \A p \in Paste : In(queue, Answer(p)) => In(queue', Answer(p))
    <3>1. \A p \in Paste : Head(queue) # Answer(p)
      BY <2>1 DEF Answer
    <3> QED  BY <1>0, <2>1, <3>1, TailKeeps
  <2> QED  BY <1>0, <2>1, <2>2 DEF NoPasteIsForgotten, Outstanding
<1>14. CASE SendRequest
  <2>1. /\ queue # <<>> /\ queue' = Tail(queue) /\ Head(queue)[1] # "respond"
        /\ UNCHANGED <<events, owed, paste, dropped, cliprdr>>
    BY <1>14, <1>0 DEF SendRequest, Executing, HeldCommand
  <2>2. \A p \in Paste : In(queue, Answer(p)) => In(queue', Answer(p))
    <3>1. \A p \in Paste : Head(queue) # Answer(p)
      BY <2>1 DEF Answer
    <3> QED  BY <1>0, <2>1, <3>1, TailKeeps
  <2> QED  BY <1>0, <2>1, <2>2 DEF NoPasteIsForgotten, Outstanding
<1>15. CASE Read
  <2>1. /\ events # <<>> /\ events' = Tail(events) /\ owed' = owed \cup {Head(events)}
        /\ UNCHANGED <<queue, paste, dropped, cliprdr>>
    BY <1>15 DEF Read
  <2>2. \A p : In(events, p) => In(events', p) \/ p \in owed'
    BY <1>0, <2>1, TailKeeps
  <2> QED  BY <2>1, <2>2 DEF NoPasteIsForgotten, Outstanding
<1>16. ASSUME NEW p \in Paste, Respond(p) PROVE NoPasteIsForgotten'
  <2>1. /\ owed' = owed \ {p} /\ queue' = Append(queue, Answer(p))
        /\ UNCHANGED <<events, paste, dropped, cliprdr>>
    BY <1>16 DEF Respond, Answer
  <2>2. Answer(p) \in Command
    BY DEF Answer, Command
  <2>3. In(queue', Answer(p)) /\ \A x : In(queue, x) => In(queue', x)
    BY <1>0, <2>1, <2>2, AppendKeeps
  <2> QED  BY <2>1, <2>3 DEF NoPasteIsForgotten, Outstanding
<1>17. CASE DropReceiver
  <2>1. /\ dropped' = dropped \cup {events[i] : i \in 1 .. Len(events)}
        /\ UNCHANGED <<queue, owed, paste, cliprdr>>
    BY <1>17 DEF DropReceiver
  <2>2. \A p : In(events, p) => p \in dropped'
    BY <1>0, <2>1, LenProperties DEF In
  <2> QED  BY <2>1, <2>2 DEF NoPasteIsForgotten, Outstanding
<1>18. CASE SendResponse
  BY <1>18 DEF SendResponse, NoPasteIsForgotten
<1>19. CASE ServerFormatDataRequest
  <2>1. /\ pastes' \in Paste /\ paste = Nothing /\ cliprdr
        /\ UNCHANGED <<queue, owed, dropped, cliprdr>>
    <3>1. pastes \in 0 .. MaxPaste
      BY <1>0 DEF TypeOK
    <3> QED  BY <1>19, <1>0, <3>1 DEF ServerFormatDataRequest, Paste
  <2>2. CASE receiver
    <3>1. paste' = pastes' /\ events' = Append(events, pastes')
      BY <1>19, <2>2 DEF ServerFormatDataRequest
    <3>2. In(events', paste')
      BY <1>0, <2>1, <3>1, AppendKeeps
    <3> QED  BY <2>1, <3>2 DEF NoPasteIsForgotten, Outstanding
  <2>3. CASE ~ receiver
    BY <1>19, <2>1, <2>3 DEF ServerFormatDataRequest, NoPasteIsForgotten
  <2> QED  BY <2>2, <2>3
<1>20. CASE UNCHANGED vars
  <2>1. UNCHANGED <<events, owed, queue, paste, dropped, cliprdr>>
    BY <1>20 DEF vars
  <2> QED  BY <2>1 DEF NoPasteIsForgotten, Outstanding
<1> QED
  BY <1>1, <1>2, <1>3, <1>4, <1>5, <1>6, <1>7, <1>8, <1>9, <1>10, <1>11, <1>12, <1>13,
     <1>14, <1>15, <1>16, <1>17, <1>18, <1>19, <1>20
  DEF Next, Embedder, Execute, Greet

(* The host never waits for an answer that nobody is left to give, except  *)
(* to a request dropped unread with the Receiver. *)
THEOREM PastesAreKept == Spec => []NoPasteIsForgotten
<1>1. Init => NoPasteIsForgotten
  BY DEF Init, NoPasteIsForgotten
<1> QED  BY <1>1, InitIInv, NextIInv, ForgottenStep, PTL DEF Spec
=============================================================================
