---------------------------- MODULE InputProofs -----------------------------
(***************************************************************************)
(* What Input makes of its arguments (Encoding), and what becomes of its   *)
(* resizes (Resize), for desktops and scales of any number, any number of  *)
(* requests and of sizes that the server picks.                            *)
(***************************************************************************)
EXTENDS Resize, Encoding, TLAPS, SequenceTheorems

(* A word that wraps, cut to nine bits, and the bits above and below a     *)
(* nine-bit field.                                                         *)
LEMMA Wraps ==
  ASSUME NEW m \in Nat, 1 <= m, m <= 255
  PROVE  (65536 - m) % 512 = 512 - m
  OBVIOUS

LEMMA Field ==
  ASSUME NEW r \in Nat, r <= 511
  PROVE  /\ (512 + r) % 512 = r /\ (1024 + r) % 512 = r
         /\ (512 + r) \div 512 = 1 /\ (1024 + r) \div 512 = 2
<1>1. (512 + r) % 512 = r
  OBVIOUS
<1>2. (1024 + r) % 512 = r
  OBVIOUS
<1>3. (512 + r) \div 512 = 1
  OBVIOUS
<1>4. (1024 + r) \div 512 = 2
  OBVIOUS
<1> QED  BY <1>1, <1>2, <1>3, <1>4

(* A turn backwards and one forwards, as the host reads them.              *)
LEMMA Backwards ==
  ASSUME NEW delta \in Int, delta < 0
  PROVE  /\ WheelRotation(delta) \in Nat /\ WheelRotation(delta) <= 511
         /\ Turned(WheelRotation(delta)) = Clamp(delta, -255, 255)
<1> DEFINE m == Magnitude(delta)
<1>1. m \in Nat /\ 1 <= m /\ m <= 255 /\ Clamp(delta, -255, 255) = 0 - m
  BY DEF Magnitude, Clamp
<1>2. WheelRotation(delta) = Negative((65536 - m) % 512)
  BY DEF WheelRotation
<1> HIDE DEF m
<1>3. WheelRotation(delta) = Negative(512 - m)
  BY <1>1, <1>2, Wraps
<1>4. Negative(512 - m) = 512 - m
  BY <1>1 DEF Negative
<1>5. 512 - m \in Nat /\ 512 - m <= 511 /\ Turned(512 - m) = 0 - m
  BY <1>1 DEF Turned
<1> QED  BY <1>1, <1>3, <1>4, <1>5

LEMMA Forwards ==
  ASSUME NEW delta \in Int, delta >= 0
  PROVE  /\ WheelRotation(delta) \in Nat /\ WheelRotation(delta) <= 511
         /\ Turned(WheelRotation(delta)) = Clamp(delta, -255, 255)
<1> DEFINE m == Magnitude(delta)
<1>1. m \in Nat /\ m <= 255 /\ Clamp(delta, -255, 255) = m
  BY DEF Magnitude, Clamp
<1>2. WheelRotation(delta) = m % 512
  BY DEF WheelRotation
<1> HIDE DEF m
<1>3. m % 512 = m
  BY <1>1
<1>4. m <= 511 /\ Turned(m) = m
  BY <1>1 DEF Turned
<1> QED  BY <1>1, <1>2, <1>3, <1>4

(* A wheel's delta reaches the host as it is, or at most 255 either way,   *)
(* with its sign, and never touches the bits that say which wheel it is.   *)
THEOREM WheelTurnsAsAsked ==
  ASSUME NEW delta \in Int, NEW horizontal \in BOOLEAN
  PROVE  /\ Turned(Wheel(delta, horizontal) % 512) = Clamp(delta, -255, 255)
         /\ Wheel(delta, horizontal) \div 512 = IF horizontal THEN 2 ELSE 1
         /\ Wheel(delta, horizontal) \in Nat /\ Wheel(delta, horizontal) <= 65535
<1> DEFINE r == WheelRotation(delta)
<1>1. r \in Nat /\ r <= 511 /\ Turned(r) = Clamp(delta, -255, 255)
  <2>1. delta < 0 \/ delta >= 0
    OBVIOUS
  <2> QED  BY <2>1, Backwards, Forwards
<1> DEFINE f == Wheel(delta, horizontal)
           k == IF horizontal THEN 2 ELSE 1
<1>2. k \in {1, 2} /\ f = 512 * k + r
  BY DEF Wheel
<1> HIDE DEF r, f, k
<1>3. f % 512 = r /\ f \div 512 = k /\ f \in Nat /\ f <= 65535
  <2>1. CASE k = 1
    BY <1>1, <1>2, <2>1, Field
  <2>2. CASE k = 2
    BY <1>1, <1>2, <2>2, Field
  <2> QED  BY <1>2, <2>1, <2>2
<1>4. Turned(f % 512) = Clamp(delta, -255, 255)
  BY <1>1, <1>3
<1> QED  BY <1>3, <1>4 DEF f, k

(* No two buttons, presses or releases look the same on the wire.          *)
THEOREM ButtonsAreDistinct ==
  ASSUME NEW a \in Button, NEW b \in Button, NEW down \in BOOLEAN, NEW up \in BOOLEAN,
         MouseButton(a, down) = MouseButton(b, up)
  PROVE  a = b /\ down = up
<1>1. MouseButton(a, down).pdu = MouseButton(b, up).pdu
  OBVIOUS
<1>2. MouseButton(a, down).flags = MouseButton(b, up).flags
  OBVIOUS
<1> QED  BY <1>1, <1>2 DEF MouseButton, Button

(* The E0 prefix and the scancode can both be read off a key's code.       *)
THEOREM KeysAreDistinct ==
  ASSUME NEW a \in 0 .. 255, NEW b \in 0 .. 255, NEW x \in BOOLEAN, NEW y \in BOOLEAN,
         Key(a, x) = Key(b, y)
  PROVE  a = b /\ x = y
  BY DEF Key

LEMMA EvenSizes ==
  ASSUME NEW n \in Nat, 200 <= n
  PROVE  /\ Even(n) \in Nat /\ 200 <= Even(n) /\ Even(n) <= n /\ Even(n) % 2 = 0
         /\ n % 2 = 0 => Even(n) = n
<1>1. /\ n % 2 \in {0, 1}
      /\ (n - (n % 2)) % 2 = 0
  OBVIOUS
<1>2. n = 200 => n % 2 = 0
  OBVIOUS
<1> QED  BY <1>1, <1>2 DEF Even

LEMMA ClampedSizes ==
  ASSUME NEW n \in Nat
  PROVE  /\ Clamp(n, 200, 8192) \in Nat
         /\ 200 <= Clamp(n, 200, 8192) /\ Clamp(n, 200, 8192) <= 8192
         /\ 200 <= n => Clamp(n, 200, 8192) <= n
         /\ 200 <= n /\ n <= 8192 => Clamp(n, 200, 8192) = n
  BY DEF Clamp

(* Whatever size a viewport has, what is asked for is legal, inside the    *)
(* viewport if a legal size is, left alone if it is legal, and the same    *)
(* when it is adjusted once more: a caller who compares with it does not   *)
(* ask again for the size that it has.                                     *)
THEOREM SizesAreLegal ==
  ASSUME NEW width \in Nat, NEW height \in Nat
  PROVE  LET size == SanitiseSize(width, height)
         IN /\ LegalSize(size[1], size[2])
            /\ 200 <= width => size[1] <= width
            /\ 200 <= height => size[2] <= height
            /\ LegalSize(width, height) => size = <<width, height>>
            /\ SanitiseSize(size[1], size[2]) = size
<1> DEFINE v == Clamp(width, 200, 8192)
           w == Even(v)
           h == Clamp(height, 200, 8192)
<1>1. SanitiseSize(width, height) = <<w, h>>
  BY DEF SanitiseSize
<1>2. /\ v \in Nat /\ 200 <= v /\ v <= 8192
      /\ 200 <= width => v <= width
      /\ 200 <= width /\ width <= 8192 => v = width
  BY ClampedSizes
<1>3. /\ h \in Nat /\ 200 <= h /\ h <= 8192
      /\ 200 <= height => h <= height
      /\ 200 <= height /\ height <= 8192 => h = height
  BY ClampedSizes
<1> HIDE DEF v, h
<1>4. /\ w \in Nat /\ 200 <= w /\ w <= v /\ w % 2 = 0
      /\ v % 2 = 0 => w = v
  BY <1>2, EvenSizes
<1> HIDE DEF w
<1>5. w <= 8192 /\ (200 <= width => w <= width)
  BY <1>2, <1>4
<1>6. LegalSize(w, h)
  BY <1>3, <1>4, <1>5 DEF LegalSize
<1>7. LegalSize(width, height) => <<w, h>> = <<width, height>>
  BY <1>2, <1>3, <1>4 DEF LegalSize
<1>8. SanitiseSize(w, h) = <<w, h>>
  <2>1. Clamp(w, 200, 8192) = w /\ Clamp(h, 200, 8192) = h
    BY <1>3, <1>4, <1>5, ClampedSizes
  <2>2. Even(w) = w
    BY <1>4, EvenSizes
  <2> QED  BY <2>1, <2>2 DEF SanitiseSize
<1>9. /\ 200 <= width => w <= width
      /\ 200 <= height => h <= height
  BY <1>3, <1>5
<1>10. SanitiseSize(width, height)[1] = w /\ SanitiseSize(width, height)[2] = h
  BY <1>1
<1> QED  BY <1>1, <1>6, <1>7, <1>8, <1>9, <1>10

-----------------------------------------------------------------------------

(* Whoever is due stood for the debounce; and after a reconnect that       *)
(* settled on a size, none is scheduled for that size.                     *)
Planned == /\ due => pending = stood
           /\ Some(pending) /\ steady => pending.size # settings

(* A request is held only while it is the first of the batch. *)
HoldsOne == loop = "holding" => batch # <<>>

(* The framebuffer has been resized before the event is sent. *)
Followed == /\ DesktopIsFollowed
            /\ loop = "announcing" => framebuffer = settings[1]

IInv == TypeOK /\ HoldsOne /\ Planned /\ Followed

-----------------------------------------------------------------------------
LEMMA Requests ==
  /\ \A r \in Request \cup {None} : r.size \in Size /\ r.size[1] \in Dim /\ r.size[2] \in Scale
  /\ ~ Some(None)
  BY ResizeAssumption DEF Request, None, Some, Size

LEMMA Taken ==
  ASSUME TypeOK, batch # <<>>
  PROVE  Command \in Request /\ Tail(batch) \in Seq(Request)
  BY HeadTailProperties DEF TypeOK, Command

(* What a request dealt with leaves well typed. *)
LEMMA DealtTypes ==
  ASSUME TypeOK, Executing, Dealt
  PROVE  /\ asked' \in 0 .. MaxAsk /\ queue' \in Seq(Request) /\ batch' \in Seq(Request)
         /\ {acted', stood', Command} \subseteq Request \cup {None}
  BY Taken DEF TypeOK, Executing, Dealt

LEMMA TypesStep == TypeOK /\ HoldsOne /\ [Next]_vars => TypeOK' /\ HoldsOne'
<1> SUFFICES ASSUME TypeOK, HoldsOne, [Next]_vars PROVE TypeOK' /\ HoldsOne'
  OBVIOUS
<1> USE DEF HoldsOne, LoopPC, channel, plan, screen, server, mode, Goto
<1>1. ASSUME NEW size \in Size, Ask(size) PROVE TypeOK' /\ HoldsOne'
  <2>1. asked' \in 1 .. MaxAsk /\ asked' \in 0 .. MaxAsk
    BY <1>1, ResizeAssumption DEF Ask, TypeOK
  <2>2. [n |-> asked', size |-> size] \in Request
    BY <2>1 DEF Request
  <2>3. queue' \in Seq(Request)
    BY <1>1, <2>2, AppendProperties DEF Ask, TypeOK
  <2> QED  BY <1>1, <2>1, <2>3 DEF Ask, TypeOK
<1>2. ASSUME Elapse PROVE TypeOK' /\ HoldsOne'
  BY <1>2 DEF Elapse, TypeOK
<1>3. ASSUME WokenByFreeRDP PROVE TypeOK' /\ HoldsOne'
  BY <1>3 DEF WokenByFreeRDP, TypeOK
<1>4. ASSUME Drain PROVE TypeOK' /\ HoldsOne'
  BY <1>4 DEF Drain, TypeOK
<1>5. ASSUME Ignore PROVE TypeOK' /\ HoldsOne'
  <2>1. Executing /\ Dealt
    BY <1>5 DEF Ignore
  <2>2. /\ asked' \in 0 .. MaxAsk /\ queue' \in Seq(Request) /\ batch' \in Seq(Request)
        /\ {acted', stood', Command} \subseteq Request \cup {None}
    BY <2>1, DealtTypes
  <2>3. {held', pending', wire', acted', stood'} \subseteq Request \cup {None}
    BY <1>5, <2>2 DEF Ignore, TypeOK
  <2>4. loop' = "draining"
    BY <1>5 DEF Ignore, Executing
  <2> QED  BY <1>5, <2>2, <2>3, <2>4 DEF Ignore, TypeOK
<1>6. ASSUME Schedule PROVE TypeOK' /\ HoldsOne'
  <2>1. Executing /\ Dealt
    BY <1>6 DEF Schedule
  <2>2. /\ asked' \in 0 .. MaxAsk /\ queue' \in Seq(Request) /\ batch' \in Seq(Request)
        /\ {acted', stood', Command} \subseteq Request \cup {None}
    BY <2>1, DealtTypes
  <2>3. {held', pending', wire', acted', stood'} \subseteq Request \cup {None}
    BY <1>6, <2>2 DEF Schedule, TypeOK
  <2>4. loop' = "draining"
    BY <1>6 DEF Schedule, Executing
  <2> QED  BY <1>6, <2>2, <2>3, <2>4 DEF Schedule, TypeOK
<1>7. ASSUME SendLayout PROVE TypeOK' /\ HoldsOne'
  <2>1. Executing /\ Dealt
    BY <1>7 DEF SendLayout
  <2>2. /\ asked' \in 0 .. MaxAsk /\ queue' \in Seq(Request) /\ batch' \in Seq(Request)
        /\ {acted', stood', Command} \subseteq Request \cup {None}
    BY <2>1, DealtTypes
  <2>3. {held', pending', wire', acted', stood'} \subseteq Request \cup {None}
    BY <1>7, <2>2 DEF SendLayout, TypeOK
  <2>4. loop' = "draining"
    BY <1>7 DEF SendLayout, Executing
  <2> QED  BY <1>7, <2>2, <2>3, <2>4 DEF SendLayout, TypeOK
<1>8. ASSUME NotListening PROVE TypeOK' /\ HoldsOne'
  BY <1>8 DEF NotListening, Executing, TypeOK
<1>9. ASSUME Hold PROVE TypeOK' /\ HoldsOne'
  <2>1. Command \in Request \cup {None} /\ batch' \in Seq(Request)
    BY <1>9, Taken DEF Hold, Dealt
  <2> QED  BY <1>9, <2>1 DEF Hold, Dealt, TypeOK
<1>10. ASSUME TakeDown PROVE TypeOK' /\ HoldsOne'
  BY <1>10 DEF TakeDown, TypeOK
<1>11. ASSUME CheckHandles PROVE TypeOK' /\ HoldsOne'
  BY <1>11 DEF CheckHandles, TypeOK
<1>12. ASSUME Iterate PROVE TypeOK' /\ HoldsOne'
  BY <1>12 DEF Iterate, TypeOK
<1>13. ASSUME ComeUp PROVE TypeOK' /\ HoldsOne'
  <2>1. settings' \in Size /\ density' \in Scale
    BY <1>13, Requests DEF ComeUp, TypeOK, Size
  <2>2. changes' \in 0 .. MaxChange
    BY <1>13, ResizeAssumption DEF ComeUp, TypeOK
  <2> QED  BY <1>13, <2>1, <2>2 DEF ComeUp, TypeOK
<1>14. ASSUME ResizeFramebuffer PROVE TypeOK' /\ HoldsOne'
  BY <1>14 DEF ResizeFramebuffer, TypeOK, Size
<1>15. ASSUME Announce PROVE TypeOK' /\ HoldsOne'
  BY <1>15 DEF Announce, TypeOK, Size
<1>16. ASSUME Fail PROVE TypeOK' /\ HoldsOne'
  BY <1>16 DEF Fail, TypeOK
<1>17. ASSUME HonourLayout PROVE TypeOK' /\ HoldsOne'
  <2>1. settings' \in Size /\ density' \in Scale /\ steady' \in BOOLEAN
    BY <1>17, Requests DEF HonourLayout, SizeBecomes, TypeOK, Size
  <2> QED  BY <1>17, <2>1 DEF HonourLayout, TypeOK
<1>18. ASSUME ServerResizes PROVE TypeOK' /\ HoldsOne'
  <2>1. settings' \in Size /\ steady' \in BOOLEAN
    BY <1>18 DEF ServerResizes, SizeBecomes, TypeOK, Size
  <2>2. changes' \in 0 .. MaxChange
    BY <1>18, ResizeAssumption DEF ServerResizes, TypeOK
  <2> QED  BY <1>18, <2>1, <2>2 DEF ServerResizes, TypeOK
<1>19. ASSUME OpenChannel PROVE TypeOK' /\ HoldsOne'
  BY <1>19 DEF OpenChannel, TypeOK
<1>20. ASSUME CloseChannel PROVE TypeOK' /\ HoldsOne'
  BY <1>20 DEF CloseChannel, TypeOK
<1>21. ASSUME SoundOnDynamic PROVE TypeOK' /\ HoldsOne'
  BY <1>21 DEF SoundOnDynamic, TypeOK
<1>22. ASSUME Caps PROVE TypeOK' /\ HoldsOne'
  BY <1>22 DEF Caps, TypeOK
<1>23. ASSUME Requeue PROVE TypeOK' /\ HoldsOne'
  <2>1. Some(held) => held \in Request
    BY DEF TypeOK, Some
  <2>2. queue' \in Seq(Request)
    BY <1>23, <2>1, AppendProperties DEF Requeue, TypeOK
  <2> QED  BY <1>23, <2>2 DEF Requeue, TypeOK
<1>24. ASSUME UNCHANGED vars PROVE TypeOK' /\ HoldsOne'
  BY <1>24 DEF vars, TypeOK
<1> QED
  BY <1>1, <1>2, <1>3, <1>4, <1>5, <1>6, <1>7, <1>8, <1>9, <1>10, <1>11,
     <1>12, <1>13, <1>14, <1>15, <1>16, <1>17, <1>18, <1>19, <1>20, <1>21,
     <1>22, <1>23, <1>24 DEF Next, LoopStep, ServerStep

(* A newer size starts the debounce again, and a size that the desktop has *)
(* schedules nothing.                                                      *)
LEMMA PlannedStep == TypeOK /\ Planned /\ [Next]_vars => Planned'
<1> SUFFICES ASSUME TypeOK, Planned, [Next]_vars PROVE Planned'
  OBVIOUS
<1>a. \A size \in Dim : SizeBecomes(size) => (steady' => steady /\ settings' = settings)
  <2>1. settings = <<settings[1], settings[2]>>
    BY DEF TypeOK, Size
  <2> QED  BY <2>1 DEF SizeBecomes
<1> USE DEF Planned, channel, plan, screen, server, mode, Goto
<1>1. ASSUME NEW size \in Size, Ask(size) PROVE Planned'
  BY <1>1 DEF Ask
<1>2. ASSUME Elapse PROVE Planned'
  BY <1>2 DEF Elapse
<1>3. ASSUME WokenByFreeRDP PROVE Planned'
  BY <1>3 DEF WokenByFreeRDP
<1>4. ASSUME Drain PROVE Planned'
  BY <1>4 DEF Drain
<1>5. ASSUME Ignore PROVE Planned'
  BY <1>5 DEF Ignore, Dealt
<1>6. ASSUME Schedule PROVE Planned'
  BY <1>6 DEF Schedule, Dealt, Same
<1>7. ASSUME SendLayout PROVE Planned'
  BY <1>7 DEF SendLayout, Dealt
<1>8. ASSUME NotListening PROVE Planned'
  BY <1>8 DEF NotListening
<1>9. ASSUME Hold PROVE Planned'
  BY <1>9 DEF Hold, Dealt
<1>10. ASSUME TakeDown PROVE Planned'
  BY <1>10 DEF TakeDown
<1>11. ASSUME CheckHandles PROVE Planned'
  BY <1>11 DEF CheckHandles
<1>12. ASSUME Iterate PROVE Planned'
  BY <1>12 DEF Iterate
<1>13. ASSUME ComeUp PROVE Planned'
  BY <1>13, Requests DEF ComeUp
<1>14. ASSUME ResizeFramebuffer PROVE Planned'
  BY <1>14 DEF ResizeFramebuffer
<1>15. ASSUME Announce PROVE Planned'
  BY <1>15 DEF Announce
<1>16. ASSUME Fail PROVE Planned'
  BY <1>16 DEF Fail
<1>17. ASSUME HonourLayout PROVE Planned'
  <2>1. wire.size[1] \in Dim
    BY Requests DEF TypeOK
  <2> QED  BY <1>17, <1>a, <2>1 DEF HonourLayout
<1>18. ASSUME ServerResizes PROVE Planned'
  BY <1>18, <1>a DEF ServerResizes
<1>19. ASSUME OpenChannel PROVE Planned'
  BY <1>19 DEF OpenChannel
<1>20. ASSUME CloseChannel PROVE Planned'
  BY <1>20 DEF CloseChannel
<1>21. ASSUME SoundOnDynamic PROVE Planned'
  BY <1>21 DEF SoundOnDynamic
<1>22. ASSUME Caps PROVE Planned'
  BY <1>22 DEF Caps
<1>23. ASSUME Requeue PROVE Planned'
  BY <1>23 DEF Requeue
<1>24. ASSUME UNCHANGED vars PROVE Planned'
  BY <1>24 DEF vars
<1> QED
  BY <1>1, <1>2, <1>3, <1>4, <1>5, <1>6, <1>7, <1>8, <1>9, <1>10, <1>11,
     <1>12, <1>13, <1>14, <1>15, <1>16, <1>17, <1>18, <1>19, <1>20, <1>21,
     <1>22, <1>23, <1>24 DEF Next, LoopStep, ServerStep

LEMMA FollowedStep == Followed /\ [Next]_vars => Followed'
<1> SUFFICES ASSUME Followed, [Next]_vars PROVE Followed'
  OBVIOUS
<1> USE DEF Followed, DesktopIsFollowed, channel, plan, screen, server, mode, Goto
<1>1. ASSUME NEW size \in Size, Ask(size) PROVE Followed'
  BY <1>1 DEF Ask
<1>2. ASSUME Elapse PROVE Followed'
  BY <1>2 DEF Elapse
<1>3. ASSUME WokenByFreeRDP PROVE Followed'
  BY <1>3 DEF WokenByFreeRDP
<1>4. ASSUME Drain PROVE Followed'
  BY <1>4 DEF Drain
<1>5. ASSUME Ignore PROVE Followed'
  BY <1>5 DEF Ignore, Executing
<1>6. ASSUME Schedule PROVE Followed'
  BY <1>6 DEF Schedule, Executing
<1>7. ASSUME SendLayout PROVE Followed'
  BY <1>7 DEF SendLayout, Executing
<1>8. ASSUME NotListening PROVE Followed'
  BY <1>8 DEF NotListening
<1>9. ASSUME Hold PROVE Followed'
  BY <1>9 DEF Hold
<1>10. ASSUME TakeDown PROVE Followed'
  BY <1>10 DEF TakeDown
<1>11. ASSUME CheckHandles PROVE Followed'
  BY <1>11 DEF CheckHandles
<1>12. ASSUME Iterate PROVE Followed'
  BY <1>12 DEF Iterate
<1>13. ASSUME ComeUp PROVE Followed'
  BY <1>13 DEF ComeUp
<1>14. ASSUME ResizeFramebuffer PROVE Followed'
  BY <1>14 DEF ResizeFramebuffer
<1>15. ASSUME Announce PROVE Followed'
  BY <1>15 DEF Announce
<1>16. ASSUME Fail PROVE Followed'
  BY <1>16 DEF Fail
<1>17. ASSUME HonourLayout PROVE Followed'
  BY <1>17 DEF HonourLayout
<1>18. ASSUME ServerResizes PROVE Followed'
  BY <1>18 DEF ServerResizes
<1>19. ASSUME OpenChannel PROVE Followed'
  BY <1>19 DEF OpenChannel
<1>20. ASSUME CloseChannel PROVE Followed'
  BY <1>20 DEF CloseChannel
<1>21. ASSUME SoundOnDynamic PROVE Followed'
  BY <1>21 DEF SoundOnDynamic
<1>22. ASSUME Caps PROVE Followed'
  BY <1>22 DEF Caps
<1>23. ASSUME Requeue PROVE Followed'
  BY <1>23 DEF Requeue
<1>24. ASSUME UNCHANGED vars PROVE Followed'
  BY <1>24 DEF vars
<1> QED
  BY <1>1, <1>2, <1>3, <1>4, <1>5, <1>6, <1>7, <1>8, <1>9, <1>10, <1>11,
     <1>12, <1>13, <1>14, <1>15, <1>16, <1>17, <1>18, <1>19, <1>20, <1>21,
     <1>22, <1>23, <1>24 DEF Next, LoopStep, ServerStep

LEMMA Initially == Init => IInv
<1> SUFFICES ASSUME Init PROVE IInv
  OBVIOUS
<1>1. TypeOK
  <2>1. FirstSize \in Size /\ FirstSize[1] \in Dim /\ FirstSize[2] \in Scale
    BY ResizeAssumption DEF Size
  <2>2. queue \in Seq(Request) /\ batch \in Seq(Request)
    BY DEF Init
  <2>3. asked \in 0 .. MaxAsk /\ changes \in 0 .. MaxChange
    BY ResizeAssumption DEF Init
  <2> QED  BY <2>1, <2>2, <2>3 DEF Init, TypeOK, LoopPC
<1> QED  BY <1>1, Requests DEF Init, IInv, HoldsOne, Planned, Followed, DesktopIsFollowed

LEMMA Inductively == IInv /\ [Next]_vars => IInv'
  BY TypesStep, PlannedStep, FollowedStep DEF IInv

LEMMA Always == Spec => []IInv
  BY Initially, Inductively, PTL DEF Spec

-----------------------------------------------------------------------------
(* Every variable keeps its type.                                          *)
THEOREM ResizeTypes == Spec => []TypeOK
<1>1. IInv => TypeOK
  BY DEF IInv
<1> QED  BY <1>1, Always, PTL

(* Framebuffer, events and settings agree on the desktop's size whenever   *)
(* nobody is resizing, however the size came about.                        *)
THEOREM DesktopFollowed == Spec => []DesktopIsFollowed
<1>1. IInv => DesktopIsFollowed
  BY DEF IInv, Followed
<1> QED  BY <1>1, Always, PTL

(* No step of any thread lets a layout out on a session whose sound it     *)
(* would end.                                                              *)
LEMMA OnlySendLayout ==
  TypeOK /\ [Next]_vars => (Some(wire') /\ wire' # wire => ~ ByReconnect)
<1> SUFFICES ASSUME TypeOK, [Next]_vars, Some(wire'), wire' # wire PROVE ~ ByReconnect
  OBVIOUS
<1> USE Requests DEF channel, plan, screen, server, mode, Goto
<1>1. ASSUME NEW size \in Size, Ask(size) PROVE ~ ByReconnect
  BY <1>1 DEF Ask
<1>2. ASSUME Elapse PROVE ~ ByReconnect
  BY <1>2 DEF Elapse
<1>3. ASSUME WokenByFreeRDP PROVE ~ ByReconnect
  BY <1>3 DEF WokenByFreeRDP
<1>4. ASSUME Drain PROVE ~ ByReconnect
  BY <1>4 DEF Drain
<1>5. ASSUME Ignore PROVE ~ ByReconnect
  BY <1>5 DEF Ignore
<1>6. ASSUME Schedule PROVE ~ ByReconnect
  BY <1>6 DEF Schedule
<1>7. ASSUME SendLayout PROVE ~ ByReconnect
  BY <1>7 DEF SendLayout
<1>8. ASSUME NotListening PROVE ~ ByReconnect
  BY <1>8 DEF NotListening
<1>9. ASSUME Hold PROVE ~ ByReconnect
  BY <1>9 DEF Hold
<1>10. ASSUME TakeDown PROVE ~ ByReconnect
  BY <1>10 DEF TakeDown
<1>11. ASSUME CheckHandles PROVE ~ ByReconnect
  BY <1>11 DEF CheckHandles
<1>12. ASSUME Iterate PROVE ~ ByReconnect
  BY <1>12 DEF Iterate
<1>13. ASSUME ComeUp PROVE ~ ByReconnect
  BY <1>13 DEF ComeUp
<1>14. ASSUME ResizeFramebuffer PROVE ~ ByReconnect
  BY <1>14 DEF ResizeFramebuffer
<1>15. ASSUME Announce PROVE ~ ByReconnect
  BY <1>15 DEF Announce
<1>16. ASSUME Fail PROVE ~ ByReconnect
  BY <1>16 DEF Fail
<1>17. ASSUME HonourLayout PROVE ~ ByReconnect
  BY <1>17 DEF HonourLayout
<1>18. ASSUME ServerResizes PROVE ~ ByReconnect
  BY <1>18 DEF ServerResizes
<1>19. ASSUME OpenChannel PROVE ~ ByReconnect
  BY <1>19 DEF OpenChannel
<1>20. ASSUME CloseChannel PROVE ~ ByReconnect
  BY <1>20 DEF CloseChannel
<1>21. ASSUME SoundOnDynamic PROVE ~ ByReconnect
  BY <1>21 DEF SoundOnDynamic
<1>22. ASSUME Caps PROVE ~ ByReconnect
  BY <1>22 DEF Caps
<1>23. ASSUME Requeue PROVE ~ ByReconnect
  BY <1>23 DEF Requeue
<1>24. ASSUME UNCHANGED vars PROVE ~ ByReconnect
  BY <1>24 DEF vars
<1> QED
  BY <1>1, <1>2, <1>3, <1>4, <1>5, <1>6, <1>7, <1>8, <1>9, <1>10, <1>11,
     <1>12, <1>13, <1>14, <1>15, <1>16, <1>17, <1>18, <1>19, <1>20, <1>21,
     <1>22, <1>23, <1>24 DEF Next, LoopStep, ServerStep

(* No request held from before the sound came up, and none taken late from *)
(* the queue, sends a layout on a session whose sound it would end.        *)
THEOREM SoundSurvives == Spec => SoundOutlivesResize
<1>1. IInv /\ [Next]_vars => [Some(wire') /\ wire' # wire => ~ ByReconnect]_vars
  BY OnlySendLayout DEF IInv
<1> QED  BY <1>1, Always, PTL DEF Spec, SoundOutlivesResize

LEMMA OnlyTakeDown ==
  TypeOK /\ [Next]_vars /\ TakesDown => TakeDown
<1> SUFFICES ASSUME TypeOK, [Next]_vars, TakesDown PROVE TakeDown
  OBVIOUS
<1> USE DEF TakesDown, channel, plan, screen, server, mode, Goto
<1>1. ASSUME NEW size \in Size, Ask(size) PROVE TakeDown
  BY <1>1 DEF Ask
<1>2. ASSUME Elapse PROVE TakeDown
  BY <1>2 DEF Elapse
<1>3. ASSUME WokenByFreeRDP PROVE TakeDown
  BY <1>3 DEF WokenByFreeRDP
<1>4. ASSUME Drain PROVE TakeDown
  BY <1>4 DEF Drain
<1>5. ASSUME Ignore PROVE TakeDown
  BY <1>5 DEF Ignore, Executing
<1>6. ASSUME Schedule PROVE TakeDown
  BY <1>6 DEF Schedule, Executing
<1>7. ASSUME SendLayout PROVE TakeDown
  BY <1>7 DEF SendLayout, Executing
<1>8. ASSUME NotListening PROVE TakeDown
  BY <1>8 DEF NotListening
<1>9. ASSUME Hold PROVE TakeDown
  BY <1>9 DEF Hold
<1>10. ASSUME TakeDown PROVE TakeDown
  BY <1>10 DEF TakeDown
<1>11. ASSUME CheckHandles PROVE TakeDown
  BY <1>11 DEF CheckHandles
<1>12. ASSUME Iterate PROVE TakeDown
  BY <1>12 DEF Iterate
<1>13. ASSUME ComeUp PROVE TakeDown
  BY <1>13 DEF ComeUp
<1>14. ASSUME ResizeFramebuffer PROVE TakeDown
  BY <1>14 DEF ResizeFramebuffer
<1>15. ASSUME Announce PROVE TakeDown
  BY <1>15 DEF Announce
<1>16. ASSUME Fail PROVE TakeDown
  BY <1>16 DEF Fail
<1>17. ASSUME HonourLayout PROVE TakeDown
  BY <1>17 DEF HonourLayout
<1>18. ASSUME ServerResizes PROVE TakeDown
  BY <1>18 DEF ServerResizes
<1>19. ASSUME OpenChannel PROVE TakeDown
  BY <1>19 DEF OpenChannel
<1>20. ASSUME CloseChannel PROVE TakeDown
  BY <1>20 DEF CloseChannel
<1>21. ASSUME SoundOnDynamic PROVE TakeDown
  BY <1>21 DEF SoundOnDynamic
<1>22. ASSUME Caps PROVE TakeDown
  BY <1>22 DEF Caps
<1>23. ASSUME Requeue PROVE TakeDown
  BY <1>23 DEF Requeue
<1>24. ASSUME UNCHANGED vars PROVE TakeDown
  BY <1>24 DEF vars
<1> QED
  BY <1>1, <1>2, <1>3, <1>4, <1>5, <1>6, <1>7, <1>8, <1>9, <1>10, <1>11,
     <1>12, <1>13, <1>14, <1>15, <1>16, <1>17, <1>18, <1>19, <1>20, <1>21,
     <1>22, <1>23, <1>24 DEF Next, LoopStep, ServerStep

(* Repeating a request until the desktop has its size costs one reconnect. *)
THEOREM RetriesAreFree == Spec => RetryBuysNoSecondReconnect
<1>1. IInv /\ [Next]_vars => [TakesDown => ~ (steady /\ pending.size = settings)]_vars
  BY OnlyTakeDown DEF IInv, TakeDown, Planned
<1> QED  BY <1>1, Always, PTL DEF Spec, RetryBuysNoSecondReconnect

(* However many sizes a drag schedules, what is reconnected to stood       *)
(* scheduled for the whole debounce: nothing scheduled after it took its   *)
(* place.                                                                  *)
THEOREM OneReconnectPerDrag == Spec => DragCostsOneReconnect
<1>1. IInv /\ [Next]_vars => [TakesDown => pending = stood]_vars
  BY OnlyTakeDown DEF IInv, TakeDown, Planned
<1> QED  BY <1>1, Always, PTL DEF Spec, DragCostsOneReconnect
=============================================================================
