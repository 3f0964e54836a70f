---------------------------- MODULE PaintProofs ----------------------------
(***************************************************************************)
(* What Paint keeps for desktops of any size, any number of changes and    *)
(* resizes, and any window of acknowledgements.                            *)
(***************************************************************************)
EXTENDS Paint, TLAPS, SequenceTheorems

Resizing(i) == events[i].kind \in {"Connected", "Resize"}

(* No resize comes after the i-th event, or is about to. *)
Latest(i) == pc # "resized" /\ \A j \in i + 1 .. Len(events) : ~Resizing(j)

(* The invalid region is empty but in a paint, and inside the desktop; a   *)
(* resize starts from nothing. *)
Region == /\ pc \notin {"painting", "blitted", "refused"} => invalid = None
          /\ invalid \in Rect => invalid[2] <= size
          /\ pc = "resizing" => primary = Blank

(* The framebuffer has the desktop's size, save between the two resizes. *)
SizesAgree == pc # "resizing" => framebuffer.size = size

(* What has been drawn is in the framebuffer, or in the invalid region. *)
Damage == \A c \in Size : \/ primary[c] = 0
                          \/ pc \in {"painting", "refused"} /\ Within(c, invalid)
                          \/ framebuffer.px[c] = primary[c]

(* Pixels come down from the server to the framebuffer. *)
Downwards == \A c \in Size : /\ screen[c] <= changes + 1
                             /\ primary[c] <= screen[c]
                             /\ pc # "resizing" => framebuffer.px[c] <= primary[c]

(* The last resize told is the framebuffer's, and so are the paints after. *)
QueueFits == \A i \in 1 .. Len(events) : Latest(i) =>
               /\ Resizing(i) => events[i].size = framebuffer.size
               /\ events[i].kind = "Paint" => events[i].rect[2] <= framebuffer.size

(* A paint of c, or a resize, comes before the i-th event. *)
Before(i, c) == \E j \in 1 .. i - 1 :
                  \/ Resizing(j)
                  \/ events[j].kind = "Paint" /\ Within(c, events[j].rect)

(* What a frame needs is in the framebuffer, and on its way to the viewer  *)
(* ahead of it.                                                            *)
FramesFollow ==
  \A i \in 1 .. Len(events) : events[i].kind = "Frame" /\ Latest(i) =>
    \A c \in 1 .. framebuffer.size :
      /\ framebuffer.px[c] >= events[i].picture[c]
      /\ shown.px[c] >= events[i].picture[c] \/ Before(i, c)

Buffers == TypeOK /\ Region /\ SizesAgree /\ Damage /\ Downwards
IInv    == Buffers /\ QueueFits /\ ViewerIsCurrent /\ FramesFollow

-----------------------------------------------------------------------------
LEMMA EventTypes ==
  ASSUME NEW e \in Event
  PROVE  /\ e.kind \in {"Connected", "Resize", "Paint", "Frame"}
         /\ e.kind \in {"Connected", "Resize"} => e.size \in Size
         /\ e.kind = "Paint" => e.rect \in Rect
         /\ e.kind = "Frame" => e.picture \in Image
  BY DEF Event

LEMMA Appending ==
  ASSUME NEW q \in Seq(Event), NEW e \in Event
  PROVE  /\ Append(q, e) \in Seq(Event)
         /\ Len(q) \in Nat /\ Len(Append(q, e)) = Len(q) + 1
         /\ \A i \in 1 .. Len(q) : Append(q, e)[i] = q[i]
         /\ Append(q, e)[Len(q) + 1] = e
  BY AppendProperties

LEMMA Taking ==
  ASSUME NEW q \in Seq(Event), q # <<>>
  PROVE  /\ Head(q) \in Event /\ Head(q) = q[1] /\ Tail(q) \in Seq(Event)
         /\ Len(q) \in Nat /\ Len(q) >= 1 /\ Len(Tail(q)) = Len(q) - 1
         /\ \A i \in 1 .. Len(q) - 1 : Tail(q)[i] = q[i + 1]
  BY HeadTailProperties, EmptySeq

LEMMA NoneIsNoRect == None \notin Rect
<1>1. \A r \in Rect : r = <<r[1], r[2]>>
  BY DEF Rect
<1>2. \A a, b : Len(<<a, b>>) = 2 /\ Len(<<>>) = 0
  OBVIOUS
<1> QED  BY <1>1, <1>2 DEF None

LEMMA Copying ==
  ASSUME NEW image \in Image, NEW source \in Image, NEW rect
  PROVE  Copy(image, rect, source) \in Image
  BY DEF Copy, Image

LEMMA TypesStep == TypeOK /\ [Next]_vars => TypeOK'
<1> SUFFICES ASSUME TypeOK, [Next]_vars PROVE TypeOK'
  OBVIOUS
<1> USE PaintAssumption DEF TypeOK, client, viewer, wire, server, Goto, Send
<1>1. ASSUME NEW c \in Size, Change(c) PROVE TypeOK'
  <2>1. changes' + 1 \in Pixel /\ changes' \in Nat /\ changes' + resizes' <= MaxWork
    BY <1>1 DEF Change, Pixel
  <2>2. screen' \in Image
    BY <1>1, <2>1 DEF Change, Image
  <2>3. owed' \subseteq 1 .. size'
    BY <1>1 DEF Change, Size
  <2> QED  BY <1>1, <2>1, <2>2, <2>3 DEF Change
<1>2. ASSUME BeginFrame PROVE TypeOK'
  BY <1>2 DEF BeginFrame
<1>3. ASSUME BeginPaint PROVE TypeOK'
  BY <1>3 DEF BeginPaint, None
<1>4. ASSUME NEW c \in Size, Draw(c) PROVE TypeOK'
  <2>1. CASE c <= codecs
    <3>1. primary' \in Image
      BY <1>4, <2>1 DEF Draw, Image
    <3>2. invalid' \in Rect
      BY <1>4, <2>1 DEF Draw, Grown, Rect, None
    <3> QED  BY <1>4, <2>1, <3>1, <3>2 DEF Draw
  <2>2. CASE ~(c <= codecs)
    BY <1>4, <2>2 DEF Draw
  <2> QED  BY <2>1, <2>2
<1>5. ASSUME EndPaint PROVE TypeOK'
  BY <1>5, Copying DEF EndPaint
<1>6. ASSUME ReportPaint PROVE TypeOK'
  <2>1. [kind |-> "Paint", rect |-> invalid] \in Event
    BY <1>6 DEF ReportPaint, Event
  <2> QED  BY <1>6, <2>1, Appending DEF ReportPaint
<1>7. ASSUME ReportFrame PROVE TypeOK'
  <2>1. Framed \in Event
    BY <1>7 DEF Framed, Event
  <2> QED  BY <1>7, <2>1, Appending DEF ReportFrame
<1>8. ASSUME FrameMarker PROVE TypeOK'
  <2>1. Framed \in Event
    BY <1>8 DEF Framed, Event
  <2> QED  BY <1>8, <2>1, Appending DEF FrameMarker
<1>9. ASSUME SurfaceFrameMarker PROVE TypeOK'
  <2>1. Framed \in Event
    BY <1>9 DEF Framed, Event
  <2>2. events' \in Seq(Event)
    BY <1>9, <2>1, Appending DEF SurfaceFrameMarker
  <2>3. unacked' \in Nat /\ acks' \in 0 .. unacked'
    BY <1>9 DEF SurfaceFrameMarker
  <2> QED  BY <1>9, <2>2, <2>3 DEF SurfaceFrameMarker
<1>10. ASSUME TakeAck PROVE TypeOK'
  BY <1>10 DEF TakeAck
<1>11. ASSUME NEW n \in Size, DesktopResize(n) PROVE TypeOK'
  <2>1. Blank \in Image
    BY DEF Blank, Image, Pixel
  <2>2. resizes' \in Nat /\ changes' + resizes' <= MaxWork
    BY <1>11 DEF DesktopResize
  <2>3. owed' \subseteq 1 .. size'
    BY <1>11 DEF DesktopResize
  <2> QED  BY <1>11, <2>1, <2>2, <2>3 DEF DesktopResize
<1>12. ASSUME ResizeFails PROVE TypeOK'
  BY <1>12 DEF ResizeFails
<1>13. ASSUME ResizeFramebuffer PROVE TypeOK'
  <2>1. Blank \in Image
    BY DEF Blank, Image, Pixel
  <2>2. framebuffer' \in [size : Size, px : Image]
    BY <1>13, <2>1 DEF ResizeFramebuffer
  <2> QED  BY <1>13, <2>2 DEF ResizeFramebuffer
<1>14. ASSUME Announce PROVE TypeOK'
  <2>1. [kind |-> "Resize", size |-> size] \in Event
    BY <1>14 DEF Event
  <2> QED  BY <1>14, <2>1, Appending DEF Announce
<1>15. ASSUME SendRefresh PROVE TypeOK'
  BY <1>15 DEF SendRefresh
<1>16. ASSUME AnswerRefresh PROVE TypeOK'
  BY <1>16 DEF AnswerRefresh
<1>17. ASSUME Handle PROVE TypeOK'
  <2> DEFINE e == Head(events)
  <2>1. e \in Event /\ events' \in Seq(Event)
    BY <1>17, Taking DEF Handle
  <2>2. Blank \in Image
    BY DEF Blank, Image, Pixel
  <2>3. \A rect : \A image \in Image : Rows(image, rect) \in Image
    BY Copying DEF Rows
  <2>4. shown' \in [size : Size \cup {0}, px : Image] /\ refreshing' \in BOOLEAN
    <3>1. CASE e.kind = "Paint"
      BY <1>17, <2>3, <3>1 DEF Handle
    <3>2. CASE e.kind = "Frame"
      BY <1>17, <3>2 DEF Handle
    <3>3. CASE e.kind \in {"Connected", "Resize"}
      <4>1. e.size \in Size
        BY <2>1, <3>3, EventTypes
      <4>2. Rows(Blank, <<1, e.size>>) \in Image
        BY <2>2, <2>3
      <4>3. /\ shown' = [size |-> e.size, px |-> Rows(Blank, <<1, e.size>>)]
            /\ refreshing' = (refreshing \/ e.kind = "Resize")
        BY <1>17, <3>3 DEF Handle
      <4> QED  BY <4>1, <4>2, <4>3
    <3> QED  BY <2>1, <3>1, <3>2, <3>3, EventTypes
  <2> QED  BY <1>17, <2>1, <2>4 DEF Handle
<1>18. CASE UNCHANGED vars
  BY <1>18 DEF vars
<1> QED
  BY <1>1, <1>2, <1>3, <1>4, <1>5, <1>6, <1>7, <1>8, <1>9, <1>10, <1>11,
     <1>12, <1>13, <1>14, <1>15, <1>16, <1>17, <1>18 DEF Next, Paints,
     Frames, Resizes, Refresh

LEMMA RegionStep == TypeOK /\ Region /\ [Next]_vars => Region'
<1> SUFFICES ASSUME TypeOK, Region, [Next]_vars PROVE Region'
  OBVIOUS
<1> USE DEF TypeOK, Region, client, viewer, wire, server, Goto, Send
<1>1. ASSUME NEW c \in Size, Change(c) PROVE Region'
  BY <1>1 DEF Change
<1>2. ASSUME BeginFrame PROVE Region'
  BY <1>2 DEF BeginFrame
<1>3. ASSUME BeginPaint PROVE Region'
  BY <1>3 DEF BeginPaint
<1>4. ASSUME NEW c \in Size, Draw(c) PROVE Region'
  <2>1. c <= size
    BY <1>4 DEF Draw, Size
  <2>2. CASE c <= codecs
    BY <1>4, <2>1, <2>2 DEF Draw, Grown, Rect, Size
  <2>3. CASE ~(c <= codecs)
    BY <1>4, <2>3 DEF Draw
  <2> QED  BY <2>2, <2>3
<1>5. ASSUME EndPaint PROVE Region'
  BY <1>5 DEF EndPaint
<1>6. ASSUME ReportPaint PROVE Region'
  BY <1>6, NoneIsNoRect DEF ReportPaint
<1>7. ASSUME ReportFrame PROVE Region'
  BY <1>7 DEF ReportFrame
<1>8. ASSUME FrameMarker PROVE Region'
  BY <1>8 DEF FrameMarker
<1>9. ASSUME SurfaceFrameMarker PROVE Region'
  BY <1>9 DEF SurfaceFrameMarker
<1>10. ASSUME TakeAck PROVE Region'
  BY <1>10 DEF TakeAck
<1>11. ASSUME NEW n \in Size, DesktopResize(n) PROVE Region'
  BY <1>11, NoneIsNoRect DEF DesktopResize
<1>12. ASSUME ResizeFails PROVE Region'
  BY <1>12 DEF ResizeFails
<1>13. ASSUME ResizeFramebuffer PROVE Region'
  BY <1>13 DEF ResizeFramebuffer
<1>14. ASSUME Announce PROVE Region'
  BY <1>14 DEF Announce
<1>15. ASSUME SendRefresh PROVE Region'
  BY <1>15 DEF SendRefresh
<1>16. ASSUME AnswerRefresh PROVE Region'
  BY <1>16 DEF AnswerRefresh
<1>17. ASSUME Handle PROVE Region'
  BY <1>17 DEF Handle
<1>18. CASE UNCHANGED vars
  BY <1>18 DEF vars
<1> QED
  BY <1>1, <1>2, <1>3, <1>4, <1>5, <1>6, <1>7, <1>8, <1>9, <1>10, <1>11,
     <1>12, <1>13, <1>14, <1>15, <1>16, <1>17, <1>18 DEF Next, Paints,
     Frames, Resizes, Refresh

LEMMA SizesStep == TypeOK /\ SizesAgree /\ [Next]_vars => SizesAgree'
<1> SUFFICES ASSUME TypeOK, SizesAgree, [Next]_vars PROVE SizesAgree'
  OBVIOUS
<1> USE DEF TypeOK, SizesAgree, client, viewer, wire, server, Goto, Send
<1>1. ASSUME NEW c \in Size, Change(c) PROVE SizesAgree'
  BY <1>1 DEF Change
<1>2. ASSUME BeginFrame PROVE SizesAgree'
  BY <1>2 DEF BeginFrame
<1>3. ASSUME BeginPaint PROVE SizesAgree'
  BY <1>3 DEF BeginPaint
<1>4. ASSUME NEW c \in Size, Draw(c) PROVE SizesAgree'
  BY <1>4 DEF Draw
<1>5. ASSUME EndPaint PROVE SizesAgree'
  BY <1>5 DEF EndPaint
<1>6. ASSUME ReportPaint PROVE SizesAgree'
  BY <1>6 DEF ReportPaint
<1>7. ASSUME ReportFrame PROVE SizesAgree'
  BY <1>7 DEF ReportFrame
<1>8. ASSUME FrameMarker PROVE SizesAgree'
  BY <1>8 DEF FrameMarker
<1>9. ASSUME SurfaceFrameMarker PROVE SizesAgree'
  BY <1>9 DEF SurfaceFrameMarker
<1>10. ASSUME TakeAck PROVE SizesAgree'
  BY <1>10 DEF TakeAck
<1>11. ASSUME NEW n \in Size, DesktopResize(n) PROVE SizesAgree'
  BY <1>11 DEF DesktopResize
<1>12. ASSUME ResizeFails PROVE SizesAgree'
  BY <1>12 DEF ResizeFails
<1>13. ASSUME ResizeFramebuffer PROVE SizesAgree'
  BY <1>13 DEF ResizeFramebuffer
<1>14. ASSUME Announce PROVE SizesAgree'
  BY <1>14 DEF Announce
<1>15. ASSUME SendRefresh PROVE SizesAgree'
  BY <1>15 DEF SendRefresh
<1>16. ASSUME AnswerRefresh PROVE SizesAgree'
  BY <1>16 DEF AnswerRefresh
<1>17. ASSUME Handle PROVE SizesAgree'
  BY <1>17 DEF Handle
<1>18. CASE UNCHANGED vars
  BY <1>18 DEF vars
<1> QED
  BY <1>1, <1>2, <1>3, <1>4, <1>5, <1>6, <1>7, <1>8, <1>9, <1>10, <1>11,
     <1>12, <1>13, <1>14, <1>15, <1>16, <1>17, <1>18 DEF Next, Paints,
     Frames, Resizes, Refresh

(* The region grows by what is drawn, and is copied whole: it fits. *)
LEMMA DamageStep ==
  TypeOK /\ Region /\ SizesAgree /\ Damage /\ [Next]_vars => Damage'
<1> SUFFICES ASSUME TypeOK, Region, SizesAgree, Damage, [Next]_vars PROVE Damage'
  OBVIOUS
<1> USE DEF TypeOK, Region, SizesAgree, Damage, client, viewer, wire, server, Goto, Send, Image
<1>1. ASSUME NEW c \in Size, Change(c) PROVE Damage'
  BY <1>1 DEF Change
<1>2. ASSUME BeginFrame PROVE Damage'
  BY <1>2 DEF BeginFrame
<1>3. ASSUME BeginPaint PROVE Damage'
  BY <1>3 DEF BeginPaint, Within
<1>4. ASSUME NEW c \in Size, Draw(c) PROVE Damage'
  <2>1. CASE c <= codecs
    <3>1. Within(c, invalid') /\ \A d \in Size : Within(d, invalid) => Within(d, invalid')
      BY <1>4, <2>1 DEF Draw, Grown, Within, Rect, Size, None
    <3>2. pc' = "painting" /\ framebuffer' = framebuffer
      BY <1>4, <2>1 DEF Draw
    <3>3. \A d \in Size : d # c => primary'[d] = primary[d]
      BY <1>4, <2>1 DEF Draw
    <3> QED  BY <1>4, <3>1, <3>2, <3>3 DEF Draw
  <2>2. CASE ~(c <= codecs)
    BY <1>4, <2>2 DEF Draw
  <2> QED  BY <2>1, <2>2
<1>5. ASSUME EndPaint PROVE Damage'
  <2>1. Fits(invalid)
    BY <1>5 DEF EndPaint, Fits
  <2>2. framebuffer'.px = Copy(framebuffer.px, invalid, primary)
    BY <1>5, <2>1 DEF EndPaint
  <2>3. \A d \in Size : framebuffer'.px[d] = IF Within(d, invalid) THEN primary[d]
                                                  ELSE framebuffer.px[d]
    BY <2>2 DEF Copy
  <2> QED  BY <1>5, <2>3 DEF EndPaint
<1>6. ASSUME ReportPaint PROVE Damage'
  BY <1>6 DEF ReportPaint
<1>7. ASSUME ReportFrame PROVE Damage'
  BY <1>7 DEF ReportFrame
<1>8. ASSUME FrameMarker PROVE Damage'
  BY <1>8 DEF FrameMarker
<1>9. ASSUME SurfaceFrameMarker PROVE Damage'
  BY <1>9 DEF SurfaceFrameMarker
<1>10. ASSUME TakeAck PROVE Damage'
  BY <1>10 DEF TakeAck
<1>11. ASSUME NEW n \in Size, DesktopResize(n) PROVE Damage'
  BY <1>11 DEF DesktopResize, Blank
<1>12. ASSUME ResizeFails PROVE Damage'
  BY <1>12 DEF ResizeFails
<1>13. ASSUME ResizeFramebuffer PROVE Damage'
  <2>1. framebuffer'.px = Blank
    BY <1>13 DEF ResizeFramebuffer
  <2> QED  BY <1>13, <2>1 DEF ResizeFramebuffer, Blank
<1>14. ASSUME Announce PROVE Damage'
  BY <1>14 DEF Announce
<1>15. ASSUME SendRefresh PROVE Damage'
  BY <1>15 DEF SendRefresh
<1>16. ASSUME AnswerRefresh PROVE Damage'
  BY <1>16 DEF AnswerRefresh
<1>17. ASSUME Handle PROVE Damage'
  BY <1>17 DEF Handle
<1>18. CASE UNCHANGED vars
  BY <1>18 DEF vars
<1> QED
  BY <1>1, <1>2, <1>3, <1>4, <1>5, <1>6, <1>7, <1>8, <1>9, <1>10, <1>11,
     <1>12, <1>13, <1>14, <1>15, <1>16, <1>17, <1>18 DEF Next, Paints,
     Frames, Resizes, Refresh

(* Pixels come down from a desktop whose pixels only grow. *)
LEMMA DownwardsStep ==
  TypeOK /\ SizesAgree /\ Region /\ Downwards /\ [Next]_vars => Downwards'
<1> SUFFICES ASSUME TypeOK, SizesAgree, Region, Downwards, [Next]_vars PROVE Downwards'
  OBVIOUS
<1> USE DEF TypeOK, SizesAgree, Region, Downwards, client, viewer, wire, server, Goto, Send
<1>1. ASSUME NEW c \in Size, Change(c) PROVE Downwards'
  <2>1. \A d \in Size : screen[d] \in Nat /\ primary[d] \in Nat
    BY DEF Image, Pixel
  <2>2. changes' = changes + 1 /\ screen' = [screen EXCEPT ![c] = changes + 2]
    BY <1>1 DEF Change
  <2>3. \A d \in Size : screen'[d] = IF d = c THEN changes + 2 ELSE screen[d]
    BY <2>2 DEF Image
  <2>4. primary' = primary /\ framebuffer' = framebuffer /\ pc' = pc
    BY <1>1 DEF Change
  <2> QED  BY <2>1, <2>2, <2>3, <2>4
<1>2. ASSUME BeginFrame PROVE Downwards'
  BY <1>2 DEF BeginFrame
<1>3. ASSUME BeginPaint PROVE Downwards'
  BY <1>3 DEF BeginPaint
<1>4. ASSUME NEW c \in Size, Draw(c) PROVE Downwards'
  <2>1. \A d \in Size : screen[d] \in Nat /\ primary[d] \in Nat /\ framebuffer.px[d] \in Nat
    BY DEF Image, Pixel
  <2>2. \A d \in Size : primary'[d] \in {primary[d], screen[d]}
    BY <1>4 DEF Draw, Image
  <2>3. framebuffer' = framebuffer /\ screen' = screen /\ changes' = changes /\ pc # "resizing"
    BY <1>4 DEF Draw
  <2> QED  BY <2>1, <2>2, <2>3
<1>5. ASSUME EndPaint PROVE Downwards'
  <2>1. \A d \in Size : framebuffer'.px[d] \in {primary[d], framebuffer.px[d]}
    BY <1>5 DEF EndPaint, Copy
  <2>2. \A d \in Size : primary[d] \in Nat
    BY DEF Image, Pixel
  <2> QED  BY <1>5, <2>1, <2>2 DEF EndPaint
<1>6. ASSUME ReportPaint PROVE Downwards'
  BY <1>6 DEF ReportPaint
<1>7. ASSUME ReportFrame PROVE Downwards'
  BY <1>7 DEF ReportFrame
<1>8. ASSUME FrameMarker PROVE Downwards'
  BY <1>8 DEF FrameMarker
<1>9. ASSUME SurfaceFrameMarker PROVE Downwards'
  BY <1>9 DEF SurfaceFrameMarker
<1>10. ASSUME TakeAck PROVE Downwards'
  BY <1>10 DEF TakeAck
<1>11. ASSUME NEW n \in Size, DesktopResize(n) PROVE Downwards'
  <2>1. \A d \in Size : screen[d] \in Nat /\ primary'[d] = 0
    BY <1>11 DEF DesktopResize, Blank, Image, Pixel
  <2> QED  BY <1>11, <2>1 DEF DesktopResize
<1>12. ASSUME ResizeFails PROVE Downwards'
  BY <1>12 DEF ResizeFails
<1>13. ASSUME ResizeFramebuffer PROVE Downwards'
  <2>1. \A d \in Size : primary[d] = 0 /\ framebuffer'.px[d] = 0
    BY <1>13 DEF ResizeFramebuffer, Blank
  <2> QED  BY <1>13, <2>1 DEF ResizeFramebuffer
<1>14. ASSUME Announce PROVE Downwards'
  BY <1>14 DEF Announce
<1>15. ASSUME SendRefresh PROVE Downwards'
  BY <1>15 DEF SendRefresh
<1>16. ASSUME AnswerRefresh PROVE Downwards'
  BY <1>16 DEF AnswerRefresh
<1>17. ASSUME Handle PROVE Downwards'
  BY <1>17 DEF Handle
<1>18. CASE UNCHANGED vars
  BY <1>18 DEF vars
<1> QED
  BY <1>1, <1>2, <1>3, <1>4, <1>5, <1>6, <1>7, <1>8, <1>9, <1>10, <1>11,
     <1>12, <1>13, <1>14, <1>15, <1>16, <1>17, <1>18 DEF Next, Paints,
     Frames, Resizes, Refresh

(* A paint is told after the resize that it fits, and before the next. *)
LEMMA QueueFitsStep ==
  TypeOK /\ Region /\ SizesAgree /\ QueueFits /\ [Next]_vars => QueueFits'
<1> SUFFICES ASSUME TypeOK, Region, SizesAgree, QueueFits, [Next]_vars PROVE QueueFits'
  OBVIOUS
<1> USE DEF TypeOK, Region, SizesAgree, QueueFits, client, viewer, wire, server, Goto, Send
<1>1. ASSUME NEW c \in Size, Change(c) PROVE QueueFits'
  BY <1>1 DEF Change, Latest, Resizing
<1>2. ASSUME BeginFrame PROVE QueueFits'
  BY <1>2 DEF BeginFrame, Latest, Resizing
<1>3. ASSUME BeginPaint PROVE QueueFits'
  BY <1>3 DEF BeginPaint, Latest, Resizing
<1>4. ASSUME NEW c \in Size, Draw(c) PROVE QueueFits'
  BY <1>4 DEF Draw, Latest, Resizing
<1>5. ASSUME EndPaint PROVE QueueFits'
  <2>1. framebuffer'.size = framebuffer.size
    BY <1>5 DEF EndPaint
  <2> QED  BY <1>5, <2>1 DEF EndPaint, Latest, Resizing
<1>6. ASSUME ReportPaint PROVE QueueFits'
  <2>1. [kind |-> "Paint", rect |-> invalid] \in Event
    BY <1>6 DEF ReportPaint, Event
  <2>2. /\ Len(events) \in Nat /\ Len(events') = Len(events) + 1
        /\ \A i \in 1 .. Len(events) : events'[i] = events[i]
        /\ events'[Len(events) + 1] = [kind |-> "Paint", rect |-> invalid]
    BY <1>6, <2>1, Appending DEF ReportPaint
  <2>3. \A i \in 1 .. Len(events) : Latest(i)' => Latest(i)
    BY <1>6, <2>2 DEF ReportPaint, Latest, Resizing
  <2>4. invalid[2] <= framebuffer.size
    BY <1>6 DEF ReportPaint
  <2>5. /\ events'[Len(events) + 1].kind = "Paint"
        /\ events'[Len(events) + 1].rect[2] <= framebuffer.size
    BY <2>2, <2>4
  <2> QED  BY <1>6, <2>2, <2>3, <2>5 DEF ReportPaint, Resizing
<1>7. ASSUME ReportFrame PROVE QueueFits'
  <2>1. Framed \in Event
    BY <1>7 DEF Framed, Event
  <2>2. /\ Len(events) \in Nat /\ Len(events') = Len(events) + 1
        /\ \A i \in 1 .. Len(events) : events'[i] = events[i]
        /\ events'[Len(events) + 1] = Framed
    BY <1>7, <2>1, Appending DEF ReportFrame
  <2>3. \A i \in 1 .. Len(events) : Latest(i)' => Latest(i)
    BY <1>7, <2>2 DEF ReportFrame, Framed, Latest, Resizing
  <2> QED  BY <1>7, <2>2, <2>3 DEF ReportFrame, Framed, Resizing
<1>8. ASSUME FrameMarker PROVE QueueFits'
  <2>1. Framed \in Event
    BY <1>8 DEF Framed, Event
  <2>2. /\ Len(events) \in Nat /\ Len(events') = Len(events) + 1
        /\ \A i \in 1 .. Len(events) : events'[i] = events[i]
        /\ events'[Len(events) + 1] = Framed
    BY <1>8, <2>1, Appending DEF FrameMarker
  <2>3. \A i \in 1 .. Len(events) : Latest(i)' => Latest(i)
    BY <1>8, <2>2 DEF FrameMarker, Framed, Latest, Resizing
  <2> QED  BY <1>8, <2>2, <2>3 DEF FrameMarker, Framed, Resizing
<1>9. ASSUME SurfaceFrameMarker PROVE QueueFits'
  <2>1. Framed \in Event
    BY <1>9 DEF Framed, Event
  <2>2. /\ Len(events) \in Nat /\ Len(events') = Len(events) + 1
        /\ \A i \in 1 .. Len(events) : events'[i] = events[i]
        /\ events'[Len(events) + 1] = Framed
    BY <1>9, <2>1, Appending DEF SurfaceFrameMarker
  <2>3. \A i \in 1 .. Len(events) : Latest(i)' => Latest(i)
    BY <1>9, <2>2 DEF SurfaceFrameMarker, Framed, Latest, Resizing
  <2> QED  BY <1>9, <2>2, <2>3 DEF SurfaceFrameMarker, Framed, Resizing
<1>10. ASSUME TakeAck PROVE QueueFits'
  BY <1>10 DEF TakeAck, Latest, Resizing
<1>11. ASSUME NEW n \in Size, DesktopResize(n) PROVE QueueFits'
  BY <1>11 DEF DesktopResize, Latest, Resizing
<1>12. ASSUME ResizeFails PROVE QueueFits'
  BY <1>12 DEF ResizeFails, Latest, Resizing
<1>13. ASSUME ResizeFramebuffer PROVE QueueFits'
  BY <1>13 DEF ResizeFramebuffer, Latest, Resizing
<1>14. ASSUME Announce PROVE QueueFits'
  <2>1. [kind |-> "Resize", size |-> size] \in Event
    BY <1>14 DEF Event
  <2>2. /\ Len(events) \in Nat /\ Len(events') = Len(events) + 1
        /\ \A i \in 1 .. Len(events) : events'[i] = events[i]
        /\ events'[Len(events) + 1] = [kind |-> "Resize", size |-> size]
    BY <1>14, <2>1, Appending DEF Announce
  <2>3. events'[Len(events) + 1].kind = "Resize" /\ events'[Len(events) + 1].size = size
    BY <2>2
  <2>4. \A i \in 1 .. Len(events) : ~Latest(i)'
    BY <2>2, <2>3 DEF Latest, Resizing
  <2> QED  BY <1>14, <2>2, <2>3, <2>4 DEF Announce, Resizing
<1>15. ASSUME SendRefresh PROVE QueueFits'
  BY <1>15 DEF SendRefresh, Latest, Resizing
<1>16. ASSUME AnswerRefresh PROVE QueueFits'
  BY <1>16 DEF AnswerRefresh, Latest, Resizing
<1>17. ASSUME Handle PROVE QueueFits'
  <2>1. /\ Len(events) \in Nat /\ Len(events') = Len(events) - 1
        /\ \A i \in 1 .. Len(events') : events'[i] = events[i + 1]
    BY <1>17, Taking DEF Handle
  <2>2. \A i \in 1 .. Len(events') : Latest(i)' => Latest(i + 1)
    <3> SUFFICES ASSUME NEW i \in 1 .. Len(events'), Latest(i)' PROVE Latest(i + 1)
      OBVIOUS
    <3>1. \A k \in i + 1 .. Len(events') : events'[k].kind \notin {"Connected", "Resize"}
      BY DEF Latest, Resizing
    <3>2. \A j \in i + 2 .. Len(events) : /\ j - 1 \in i + 1 .. Len(events')
                                            /\ events'[j - 1] = events[j]
      BY <2>1
    <3>3. \A j \in i + 2 .. Len(events) : ~Resizing(j)
      BY <3>1, <3>2 DEF Resizing
    <3> QED  BY <1>17, <3>3 DEF Handle, Latest
  <2> QED  BY <1>17, <2>1, <2>2 DEF Handle, Resizing
<1>18. CASE UNCHANGED vars
  BY <1>18 DEF vars, Latest, Resizing
<1> QED
  BY <1>1, <1>2, <1>3, <1>4, <1>5, <1>6, <1>7, <1>8, <1>9, <1>10, <1>11,
     <1>12, <1>13, <1>14, <1>15, <1>16, <1>17, <1>18 DEF Next, Paints,
     Frames, Resizes, Refresh

LEMMA ViewerStep ==
  TypeOK /\ Region /\ SizesAgree /\ QueueFits /\ ViewerIsCurrent /\ [Next]_vars
    => ViewerIsCurrent'
<1> SUFFICES ASSUME TypeOK, Region, SizesAgree, QueueFits, ViewerIsCurrent, [Next]_vars
             PROVE  ViewerIsCurrent'
  OBVIOUS
<1> USE PaintAssumption DEF TypeOK, Region, SizesAgree, QueueFits, ViewerIsCurrent, Size,
        client, viewer, wire, server, Goto, Send
<1>1. ASSUME NEW c \in Size, Change(c) PROVE ViewerIsCurrent'
  BY <1>1 DEF Change, ResizeIsComing, PaintIsComing
<1>2. ASSUME BeginFrame PROVE ViewerIsCurrent'
  BY <1>2 DEF BeginFrame, ResizeIsComing, PaintIsComing
<1>3. ASSUME BeginPaint PROVE ViewerIsCurrent'
  BY <1>3 DEF BeginPaint, ResizeIsComing, PaintIsComing
<1>4. ASSUME NEW c \in Size, Draw(c) PROVE ViewerIsCurrent'
  BY <1>4 DEF Draw, ResizeIsComing, PaintIsComing
<1>5. ASSUME EndPaint PROVE ViewerIsCurrent'
  <2>1. ResizeIsComing => ResizeIsComing'
    BY <1>5 DEF EndPaint, ResizeIsComing
  <2>2. \A c \in Size : PaintIsComing(c) \/ Within(c, invalid) => PaintIsComing(c)'
    BY <1>5 DEF EndPaint, PaintIsComing, Within
  <2>3. \A c \in Size : ~Within(c, invalid) => framebuffer'.px[c] = framebuffer.px[c]
    BY <1>5 DEF EndPaint, Copy
  <2>4. framebuffer'.size = framebuffer.size /\ shown' = shown
    BY <1>5 DEF EndPaint
  <2> QED  BY <2>1, <2>2, <2>3, <2>4
<1>6. ASSUME ReportPaint PROVE ViewerIsCurrent'
  <2>1. [kind |-> "Paint", rect |-> invalid] \in Event
    BY <1>6 DEF ReportPaint, Event
  <2>2. /\ Len(events) \in Nat /\ Len(events') = Len(events) + 1
        /\ \A i \in 1 .. Len(events) : events'[i] = events[i]
        /\ events'[Len(events) + 1] = [kind |-> "Paint", rect |-> invalid]
    BY <1>6, <2>1, Appending DEF ReportPaint
  <2>3. ResizeIsComing => ResizeIsComing'
    BY <1>6, <2>2 DEF ReportPaint, ResizeIsComing
  <2>4. \A c \in Size : PaintIsComing(c) => PaintIsComing(c)'
    BY <1>6, <2>2 DEF ReportPaint, PaintIsComing
  <2> QED  BY <1>6, <2>3, <2>4 DEF ReportPaint
<1>7. ASSUME ReportFrame PROVE ViewerIsCurrent'
  <2>1. Framed \in Event
    BY <1>7 DEF Framed, Event
  <2>2. /\ Len(events) \in Nat /\ Len(events') = Len(events) + 1
        /\ \A i \in 1 .. Len(events) : events'[i] = events[i]
        /\ events'[Len(events) + 1] = Framed
    BY <1>7, <2>1, Appending DEF ReportFrame
  <2>3. ResizeIsComing => ResizeIsComing'
    BY <1>7, <2>2 DEF ReportFrame, Framed, ResizeIsComing
  <2>4. \A c \in Size : PaintIsComing(c) => PaintIsComing(c)'
    BY <1>7, <2>2 DEF ReportFrame, Framed, PaintIsComing
  <2> QED  BY <1>7, <2>3, <2>4 DEF ReportFrame, Framed
<1>8. ASSUME FrameMarker PROVE ViewerIsCurrent'
  <2>1. Framed \in Event
    BY <1>8 DEF Framed, Event
  <2>2. /\ Len(events) \in Nat /\ Len(events') = Len(events) + 1
        /\ \A i \in 1 .. Len(events) : events'[i] = events[i]
        /\ events'[Len(events) + 1] = Framed
    BY <1>8, <2>1, Appending DEF FrameMarker
  <2>3. ResizeIsComing => ResizeIsComing'
    BY <1>8, <2>2 DEF FrameMarker, Framed, ResizeIsComing
  <2>4. \A c \in Size : PaintIsComing(c) => PaintIsComing(c)'
    BY <1>8, <2>2 DEF FrameMarker, Framed, PaintIsComing
  <2> QED  BY <1>8, <2>3, <2>4 DEF FrameMarker, Framed
<1>9. ASSUME SurfaceFrameMarker PROVE ViewerIsCurrent'
  <2>1. Framed \in Event
    BY <1>9 DEF Framed, Event
  <2>2. /\ Len(events) \in Nat /\ Len(events') = Len(events) + 1
        /\ \A i \in 1 .. Len(events) : events'[i] = events[i]
        /\ events'[Len(events) + 1] = Framed
    BY <1>9, <2>1, Appending DEF SurfaceFrameMarker
  <2>3. ResizeIsComing => ResizeIsComing'
    BY <1>9, <2>2 DEF SurfaceFrameMarker, Framed, ResizeIsComing
  <2>4. \A c \in Size : PaintIsComing(c) => PaintIsComing(c)'
    BY <1>9, <2>2 DEF SurfaceFrameMarker, Framed, PaintIsComing
  <2> QED  BY <1>9, <2>3, <2>4 DEF SurfaceFrameMarker, Framed
<1>10. ASSUME TakeAck PROVE ViewerIsCurrent'
  BY <1>10 DEF TakeAck, ResizeIsComing, PaintIsComing
<1>11. ASSUME NEW n \in Size, DesktopResize(n) PROVE ViewerIsCurrent'
  BY <1>11 DEF DesktopResize, ResizeIsComing, PaintIsComing
<1>12. ASSUME ResizeFails PROVE ViewerIsCurrent'
  BY <1>12 DEF ResizeFails, ResizeIsComing, PaintIsComing
<1>13. ASSUME ResizeFramebuffer PROVE ViewerIsCurrent'
  BY <1>13 DEF ResizeFramebuffer, ResizeIsComing
<1>14. ASSUME Announce PROVE ViewerIsCurrent'
  <2>1. [kind |-> "Resize", size |-> size] \in Event
    BY <1>14 DEF Event
  <2>2. /\ Len(events) \in Nat /\ Len(events') = Len(events) + 1
        /\ \A i \in 1 .. Len(events) : events'[i] = events[i]
        /\ events'[Len(events) + 1] = [kind |-> "Resize", size |-> size]
    BY <1>14, <2>1, Appending DEF Announce
  <2>3. events'[Len(events) + 1].kind = "Resize"
    BY <2>2
  <2> QED  BY <2>2, <2>3 DEF ResizeIsComing
<1>15. ASSUME SendRefresh PROVE ViewerIsCurrent'
  BY <1>15 DEF SendRefresh, ResizeIsComing, PaintIsComing
<1>16. ASSUME AnswerRefresh PROVE ViewerIsCurrent'
  BY <1>16 DEF AnswerRefresh, ResizeIsComing, PaintIsComing
<1>17. ASSUME Handle PROVE ViewerIsCurrent'
  <2> DEFINE e == Head(events)
  <2>1. /\ Len(events) \in Nat /\ Len(events) >= 1 /\ Len(events') = Len(events) - 1
        /\ \A i \in 1 .. Len(events') : events'[i] = events[i + 1]
        /\ e = events[1] /\ e \in Event
    BY <1>17, Taking DEF Handle
  <2>2. pc' = pc /\ framebuffer' = framebuffer /\ invalid' = invalid
    BY <1>17 DEF Handle
  <2>3. \A j \in 2 .. Len(events) : j - 1 \in 1 .. Len(events') /\ events'[j - 1] = events[j]
    BY <2>1
  <2>4. ResizeIsComing /\ e.kind \notin {"Connected", "Resize"} => ResizeIsComing'
    <3>1. CASE pc = "resized"
      BY <2>2, <3>1 DEF ResizeIsComing
    <3>2. CASE pc # "resized"
      <4> SUFFICES ASSUME NEW j \in 1 .. Len(events), events[j].kind \in {"Connected", "Resize"},
                          e.kind \notin {"Connected", "Resize"}
                   PROVE  ResizeIsComing'
        BY <3>2 DEF ResizeIsComing
      <4>1. j \in 2 .. Len(events)
        BY <2>1
      <4> QED  BY <2>3, <4>1 DEF ResizeIsComing
    <3> QED  BY <3>1, <3>2
  <2>5. \A c \in Size : PaintIsComing(c) => \/ PaintIsComing(c)'
                                            \/ e.kind = "Paint" /\ Within(c, e.rect)
    BY <2>1, <2>2, <2>3 DEF PaintIsComing
  <2>6. CASE e.kind = "Frame"
    <3>1. shown' = shown
      BY <1>17, <2>6 DEF Handle
    <3> QED  BY <2>2, <2>4, <2>5, <2>6, <3>1
  <2>7. CASE e.kind = "Paint" /\ ~ResizeIsComing
    <3>1. Latest(1)
      BY <2>1, <2>7 DEF ResizeIsComing, Latest, Resizing
    <3>2. Fits(e.rect)
      BY <2>1, <2>7, <3>1 DEF Fits
    <3>3. shown' = [shown EXCEPT !.px = Copy(shown.px, e.rect, framebuffer.px)]
      BY <1>17, <2>7, <3>2 DEF Handle, Rows
    <3>4. \A c \in Size : shown'.px[c] = IF Within(c, e.rect) THEN framebuffer.px[c]
                                                            ELSE shown.px[c]
      BY <3>3 DEF Copy
    <3>5. shown'.size = shown.size
      BY <3>3
    <3> QED  BY <2>2, <2>5, <2>7, <3>4, <3>5
  <2>8. CASE e.kind = "Paint" /\ ResizeIsComing
    BY <2>4, <2>8
  <2>9. CASE e.kind \in {"Connected", "Resize"} /\ ~ResizeIsComing'
    <3>1. pc # "resized" /\ \A k \in 1 .. Len(events') : events'[k].kind \notin {"Connected", "Resize"}
      BY <2>2, <2>9 DEF ResizeIsComing
    <3>2. Latest(1)
      BY <2>1, <2>3, <3>1 DEF Latest, Resizing
    <3>3. e.size = framebuffer.size
      BY <2>1, <2>9, <3>2 DEF Resizing
    <3>4. shown' = [size |-> e.size, px |-> Rows(Blank, <<1, e.size>>)]
      BY <1>17, <2>9, SMTT(20) DEF Handle
    <3>5. Rows(Blank, <<1, e.size>>) = Copy(Blank, <<1, e.size>>, framebuffer.px)
      BY <3>3 DEF Rows, Fits
    <3>6. \A c \in 1 .. e.size : Within(c, <<1, e.size>>)
      BY NoneIsNoRect, <2>1, <2>9, EventTypes DEF Within, Rect, Size
    <3>7. \A c \in 1 .. e.size : c \in Size
      BY <3>3
    <3>8. shown'.px = Copy(Blank, <<1, e.size>>, framebuffer.px)
      BY <3>4, <3>5
    <3>9. \A c \in 1 .. e.size : shown'.px[c] = framebuffer.px[c]
      BY <3>6, <3>7, <3>8 DEF Copy
    <3> QED  BY <2>2, <3>3, <3>4, <3>9
  <2>10. CASE ResizeIsComing'
    BY <2>10
  <2> QED  BY <2>1, <2>6, <2>7, <2>8, <2>9, <2>10, EventTypes
<1>18. CASE UNCHANGED vars
  BY <1>18 DEF vars, ResizeIsComing, PaintIsComing
<1> QED
  BY <1>1, <1>2, <1>3, <1>4, <1>5, <1>6, <1>7, <1>8, <1>9, <1>10, <1>11,
     <1>12, <1>13, <1>14, <1>15, <1>16, <1>17, <1>18 DEF Next, Paints,
     Frames, Resizes, Refresh

-----------------------------------------------------------------------------
LEMMA Pixels ==
  ASSUME TypeOK
  PROVE  \A c \in Size : /\ primary[c] \in Nat /\ screen[c] \in Nat
                         /\ framebuffer.px[c] \in Nat /\ shown.px[c] \in Nat
  BY PaintAssumption DEF TypeOK, Image, Pixel

LEMMA Pictures ==
  ASSUME TypeOK, NEW i \in 1 .. Len(events), events[i].kind = "Frame", NEW c \in Size
  PROVE  events[i].picture[c] \in Nat
<1>1. events[i] \in Event
  BY DEF TypeOK
<1>2. events[i].picture \in Image
  BY <1>1, EventTypes
<1> QED  BY <1>2, PaintAssumption DEF Image, Pixel

LEMMA QueueKept ==
  ASSUME FramesFollow, events' = events, shown' = shown, framebuffer' = framebuffer,
         pc = "resized" => pc' = "resized"
  PROVE  FramesFollow'
  BY DEF FramesFollow, Latest, Before, Resizing

(* An event joins the queue behind all that it needs. *)
LEMMA Queued ==
  ASSUME FramesFollow, events \in Seq(Event), NEW e \in Event,
         events' = Append(events, e), shown' = shown, framebuffer' = framebuffer,
         pc = "resized" => e.kind = "Resize",
         e.kind = "Frame" => \A c \in 1 .. framebuffer.size :
                               /\ framebuffer.px[c] >= e.picture[c]
                               /\ shown.px[c] >= e.picture[c] \/ Before(Len(events) + 1, c)
  PROVE  FramesFollow'
<1>1. /\ Len(events) \in Nat /\ Len(events') = Len(events) + 1
      /\ \A i \in 1 .. Len(events) : events'[i] = events[i]
      /\ events'[Len(events) + 1] = e
  BY Appending
<1> SUFFICES ASSUME NEW i \in 1 .. Len(events'), events'[i].kind = "Frame", Latest(i)',
                    NEW c \in 1 .. framebuffer.size
             PROVE  /\ framebuffer.px[c] >= events'[i].picture[c]
                    /\ shown.px[c] >= events'[i].picture[c] \/ Before(i, c)'
  BY DEF FramesFollow
<1>2. Before(i, c) => Before(i, c)'
  BY <1>1 DEF Before, Resizing
<1>3. CASE i \in 1 .. Len(events)
  <2>1. \A j \in i + 1 .. Len(events') : events'[j].kind \notin {"Connected", "Resize"}
    BY DEF Latest, Resizing
  <2>2. pc # "resized"
    BY <1>1, <1>3, <2>1
  <2>3. Latest(i)
    BY <1>1, <1>3, <2>1, <2>2 DEF Latest, Resizing
  <2> QED  BY <1>1, <1>2, <1>3, <2>3 DEF FramesFollow
<1>4. CASE i = Len(events) + 1
  BY <1>1, <1>2, <1>4
<1> QED  BY <1>1, <1>3, <1>4

(* Between paints a picture of the buffer is in the framebuffer, and told. *)
LEMMA Pictured ==
  ASSUME TypeOK, SizesAgree, Damage, ViewerIsCurrent, pc \in {"idle", "framing"}
  PROVE  /\ Framed \in Event /\ Framed.kind = "Frame" /\ Framed.picture = primary
         /\ \A c \in 1 .. framebuffer.size :
              /\ framebuffer.px[c] >= Framed.picture[c]
              /\ shown.px[c] >= Framed.picture[c] \/ Before(Len(events) + 1, c)
<1>1. Framed \in Event /\ Framed.kind = "Frame" /\ Framed.picture = primary
  BY DEF Framed, Event, TypeOK
<1> SUFFICES ASSUME NEW c \in 1 .. framebuffer.size
             PROVE  /\ framebuffer.px[c] >= primary[c]
                    /\ shown.px[c] >= primary[c] \/ Before(Len(events) + 1, c)
  BY <1>1
<1>2. c \in Size
  BY PaintAssumption DEF TypeOK, Size
<1>3. framebuffer.px[c] >= primary[c]
  BY <1>2, Pixels DEF Damage
<1>4. CASE shown.px[c] = framebuffer.px[c]
  BY <1>3, <1>4
<1>5. CASE shown.px[c] # framebuffer.px[c]
  <2>1. PICK j \in 1 .. Len(events) : \/ Resizing(j)
                                      \/ events[j].kind = "Paint" /\ Within(c, events[j].rect)
    <3>1. CASE ResizeIsComing
      BY <3>1 DEF ResizeIsComing, Resizing, TypeOK
    <3>2. CASE ~ResizeIsComing
      <4>1. PaintIsComing(c)
        BY <1>5, <3>2 DEF ViewerIsCurrent
      <4> QED  BY <4>1 DEF PaintIsComing
    <3> QED  BY <3>1, <3>2
  <2>2. j \in 1 .. (Len(events) + 1) - 1
    BY DEF TypeOK
  <2> QED  BY <1>3, <2>1, <2>2 DEF Before
<1> QED  BY <1>3, <1>4, <1>5

(* What a frame shows is painted before the frame is told. *)
LEMMA FramesStep ==
  /\ TypeOK /\ SizesAgree /\ Damage /\ Downwards /\ QueueFits /\ ViewerIsCurrent
  /\ FramesFollow /\ [Next]_vars
  => FramesFollow'
<1> SUFFICES ASSUME TypeOK, SizesAgree, Damage, Downwards, QueueFits, ViewerIsCurrent,
                    FramesFollow, [Next]_vars
             PROVE  FramesFollow'
  OBVIOUS
<1> USE DEF client, viewer, wire, server, Goto, Send
<1>1. ASSUME NEW c \in Size, Change(c) PROVE FramesFollow'
  BY <1>1, QueueKept DEF Change
<1>2. ASSUME BeginFrame PROVE FramesFollow'
  BY <1>2, QueueKept DEF BeginFrame
<1>3. ASSUME BeginPaint PROVE FramesFollow'
  BY <1>3, QueueKept DEF BeginPaint
<1>4. ASSUME NEW c \in Size, Draw(c) PROVE FramesFollow'
  BY <1>4, QueueKept DEF Draw
<1>5. ASSUME EndPaint PROVE FramesFollow'
  <2>1. framebuffer'.size = framebuffer.size /\ events' = events /\ shown' = shown
    BY <1>5 DEF EndPaint, TypeOK
  <2>2. \A c \in Size : framebuffer'.px[c] >= framebuffer.px[c]
    <3>1. \A c \in Size : framebuffer'.px[c] \in {primary[c], framebuffer.px[c]}
      BY <1>5 DEF EndPaint, Copy, TypeOK
    <3>2. \A c \in Size : framebuffer.px[c] <= primary[c]
      BY <1>5 DEF EndPaint, Downwards
    <3> QED  BY <3>1, <3>2, Pixels
  <2>3. \A i : Latest(i)' => Latest(i)
    BY <1>5, <2>1 DEF EndPaint, Latest, Resizing
  <2>4. \A i, c : Before(i, c)' <=> Before(i, c)
    BY <2>1 DEF Before, Resizing
  <2> SUFFICES ASSUME NEW i \in 1 .. Len(events), events[i].kind = "Frame", Latest(i),
                      NEW c \in 1 .. framebuffer.size
               PROVE  /\ framebuffer'.px[c] >= events[i].picture[c]
                      /\ shown.px[c] >= events[i].picture[c] \/ Before(i, c)
    BY <2>1, <2>3, <2>4 DEF FramesFollow
  <2>5. c \in Size
    BY PaintAssumption DEF TypeOK, Size
  <2>6. framebuffer'.px[c] \in {primary[c], framebuffer.px[c]}
    BY <1>5, <2>5 DEF EndPaint, Copy, TypeOK
  <2>7. /\ events[i].picture[c] \in Nat /\ primary[c] \in Nat /\ framebuffer.px[c] \in Nat
        /\ framebuffer'.px[c] \in Nat
    BY <2>5, <2>6, Pictures, Pixels
  <2>8. framebuffer.px[c] >= events[i].picture[c] /\ framebuffer'.px[c] >= framebuffer.px[c]
    BY <2>2, <2>5 DEF FramesFollow
  <2> QED  BY <2>7, <2>8 DEF FramesFollow
<1>6. ASSUME ReportPaint PROVE FramesFollow'
  <2>1. [kind |-> "Paint", rect |-> invalid] \in Event
    BY <1>6 DEF Event, TypeOK, ReportPaint
  <2>2. events' = Append(events, [kind |-> "Paint", rect |-> invalid])
    BY <1>6 DEF ReportPaint
  <2> QED  BY <1>6, <2>1, <2>2, Queued DEF ReportPaint, TypeOK
<1>7. ASSUME ReportFrame PROVE FramesFollow'
  BY <1>7, Pictured, Queued DEF ReportFrame, TypeOK
<1>8. ASSUME FrameMarker PROVE FramesFollow'
  BY <1>8, Pictured, Queued DEF FrameMarker, TypeOK
<1>9. ASSUME SurfaceFrameMarker PROVE FramesFollow'
  BY <1>9, Pictured, Queued DEF SurfaceFrameMarker, TypeOK
<1>10. ASSUME TakeAck PROVE FramesFollow'
  BY <1>10, QueueKept DEF TakeAck
<1>11. ASSUME NEW n \in Size, DesktopResize(n) PROVE FramesFollow'
  BY <1>11, QueueKept DEF DesktopResize
<1>12. ASSUME ResizeFails PROVE FramesFollow'
  BY <1>12, QueueKept DEF ResizeFails
<1>13. ASSUME ResizeFramebuffer PROVE FramesFollow'
  BY <1>13 DEF ResizeFramebuffer, FramesFollow, Latest
<1>14. ASSUME Announce PROVE FramesFollow'
  <2>1. [kind |-> "Resize", size |-> size] \in Event
    BY <1>14 DEF Event, TypeOK, Announce
  <2>2. events' = Append(events, [kind |-> "Resize", size |-> size])
    BY <1>14 DEF Announce
  <2> QED  BY <1>14, <2>1, <2>2, Queued DEF Announce, TypeOK
<1>15. ASSUME SendRefresh PROVE FramesFollow'
  BY <1>15, QueueKept DEF SendRefresh
<1>16. ASSUME AnswerRefresh PROVE FramesFollow'
  BY <1>16, QueueKept DEF AnswerRefresh
<1>17. ASSUME Handle PROVE FramesFollow'
  <2> DEFINE e == Head(events)
  <2>1. /\ Len(events) \in Nat /\ Len(events) >= 1 /\ Len(events') = Len(events) - 1
        /\ \A i \in 1 .. Len(events') : events'[i] = events[i + 1]
        /\ e = events[1] /\ e \in Event
    BY <1>17, Taking DEF Handle, TypeOK
  <2>2. pc' = pc /\ framebuffer' = framebuffer /\ invalid' = invalid
    BY <1>17 DEF Handle
  <2>3. \A j \in 2 .. Len(events) : j - 1 \in 1 .. Len(events') /\ events'[j - 1] = events[j]
    BY <2>1
  <2> SUFFICES ASSUME NEW i \in 1 .. Len(events'), events'[i].kind = "Frame", Latest(i)',
                      NEW c \in 1 .. framebuffer.size
               PROVE  /\ framebuffer.px[c] >= events'[i].picture[c]
                      /\ shown'.px[c] >= events'[i].picture[c] \/ Before(i, c)'
    BY <2>2 DEF FramesFollow
  <2>4. events'[i] = events[i + 1] /\ i + 1 \in 2 .. Len(events)
    BY <2>1
  <2>5. Latest(i + 1)
    <3>1. \A j \in i + 2 .. Len(events) : /\ j - 1 \in i + 1 .. Len(events')
                                            /\ events'[j - 1] = events[j]
      BY <2>1
    <3>2. \A j \in i + 2 .. Len(events) : ~Resizing(j)
      BY <3>1 DEF Latest, Resizing
    <3> QED  BY <2>2, <3>2 DEF Latest
  <2>6. /\ framebuffer.px[c] >= events'[i].picture[c]
        /\ shown.px[c] >= events'[i].picture[c] \/ Before(i + 1, c)
    BY <2>4, <2>5 DEF FramesFollow
  <2> c \in Size
    BY PaintAssumption DEF TypeOK, Size
  <2> events'[i].picture[c] \in Nat /\ framebuffer.px[c] \in Nat /\ shown.px[c] \in Nat
    BY <2>4, Pictures, Pixels
  <2>7. ASSUME ~Latest(1) PROVE Before(i, c)'
    <3>1. PICK k \in 2 .. Len(events) : Resizing(k)
      BY <2>5, <2>7 DEF Latest
    <3>2. k <= i
      BY <2>4, <2>5, <3>1 DEF Latest, Resizing
    <3>3. k - 1 \in 1 .. i - 1 /\ Resizing(k - 1)'
      BY <2>3, <3>1, <3>2 DEF Resizing
    <3> QED  BY <3>3 DEF Before
  <2>8. ASSUME Before(i + 1, c) PROVE \/ Before(i, c)'
                                      \/ e.kind \in {"Connected", "Resize"}
                                      \/ e.kind = "Paint" /\ Within(c, e.rect)
    <3>1. PICK j \in 1 .. i : Resizing(j) \/ (events[j].kind = "Paint" /\ Within(c, events[j].rect))
      BY <2>8 DEF Before
    <3>2. CASE j = 1
      <4>1. events[j] = e
        BY <2>1, <3>2
      <4> QED  BY <3>1, <4>1 DEF Resizing
    <3>3. CASE j # 1
      <4>2. j \in 2 .. Len(events) /\ j - 1 \in 1 .. i - 1
        BY <2>1, <3>3
      <4>1. /\ j - 1 \in 1 .. i - 1
            /\ \/ events'[j - 1].kind \in {"Connected", "Resize"}
               \/ events'[j - 1].kind = "Paint" /\ Within(c, events'[j - 1].rect)
        BY <2>3, <3>1, <4>2 DEF Resizing
      <4> QED  BY <4>1 DEF Before, Resizing
    <3> QED  BY <3>2, <3>3
  <2>9. CASE e.kind = "Frame"
    <3>1. shown' = shown
      BY <1>17, <2>9 DEF Handle
    <3> QED  BY <2>6, <2>8, <2>9, <3>1
  <2>10. CASE e.kind = "Paint" /\ Latest(1)
    <3>1. Fits(e.rect)
      BY <2>1, <2>10 DEF Fits, QueueFits, Resizing
    <3>2. shown' = [shown EXCEPT !.px = Copy(shown.px, e.rect, framebuffer.px)]
      BY <1>17, <2>10, <3>1 DEF Handle, Rows
    <3>3. shown'.px[c] = IF Within(c, e.rect) THEN framebuffer.px[c] ELSE shown.px[c]
      BY <3>2 DEF Copy, TypeOK
    <3> QED  BY <2>6, <2>8, <2>10, <3>3
  <2>11. CASE e.kind \in {"Connected", "Resize"} /\ Latest(1)
    <3>1. e.size = framebuffer.size
      BY <2>1, <2>11 DEF QueueFits, Resizing
    <3>2. shown' = [size |-> e.size, px |-> Rows(Blank, <<1, e.size>>)]
      BY <1>17, <2>11 DEF Handle
    <3>6. Rows(Blank, <<1, e.size>>) = Copy(Blank, <<1, e.size>>, framebuffer.px)
      BY <3>1 DEF Rows, Fits, TypeOK, Size
    <3>3. shown'.px = Copy(Blank, <<1, e.size>>, framebuffer.px)
      BY <3>2, <3>6
    <3>4. Within(c, <<1, e.size>>)
      <4>1. e.size \in Size
        BY <2>1, <2>11, EventTypes
      <4>2. <<1, e.size>> \in Rect
        BY <4>1, PaintAssumption DEF Rect, Size
      <4>3. c >= 1 /\ c <= e.size
        BY <3>1
      <4> QED  BY <4>2, <4>3, NoneIsNoRect DEF Within
    <3>5. shown'.px[c] = framebuffer.px[c]
      BY <3>3, <3>4 DEF Copy
    <3> QED  BY <2>6, <3>5
  <2> QED  BY <2>1, <2>6, <2>7, <2>9, <2>10, <2>11, EventTypes
<1>18. CASE UNCHANGED vars
  BY <1>18, QueueKept DEF vars
<1> QED
  BY <1>1, <1>2, <1>3, <1>4, <1>5, <1>6, <1>7, <1>8, <1>9, <1>10, <1>11,
     <1>12, <1>13, <1>14, <1>15, <1>16, <1>17, <1>18 DEF Next, Paints,
     Frames, Resizes, Refresh

LEMMA Initially == Init => IInv
<1> SUFFICES ASSUME Init PROVE IInv
  OBVIOUS
<1>1. Len(events) = 1 /\ events[1] = [kind |-> "Connected", size |-> size]
  BY DEF Init
<1>2. events \in Seq(Event)
  BY DEF Init, Event
<1>3. Blank \in Image /\ [c \in Size |-> 1] \in Image
  BY PaintAssumption DEF Blank, Image, Pixel
<1>4. TypeOK
  <2>1. size \in Size /\ size \in Size \cup {0} /\ 0 \in Size \cup {0}
    BY DEF Init
  <2>2. framebuffer \in [size : Size, px : Image] /\ shown \in [size : Size \cup {0}, px : Image]
    BY <1>3, <2>1 DEF Init
  <2>3. changes \in Nat /\ resizes \in Nat /\ changes + resizes <= MaxWork
    BY PaintAssumption DEF Init
  <2>4. owed \subseteq 1 .. size /\ unacked \in Nat /\ acks \in 0 .. unacked
    BY DEF Init
  <2> QED  BY <1>2, <1>3, <2>1, <2>2, <2>3, <2>4 DEF Init, TypeOK
<1>5. Region /\ SizesAgree /\ Damage /\ Downwards
  BY NoneIsNoRect DEF Init, Region, SizesAgree, Damage, Downwards, Blank
<1>6. QueueFits
  BY <1>1 DEF Init, QueueFits
<1>7. ViewerIsCurrent
  BY <1>1 DEF ViewerIsCurrent, ResizeIsComing
<1>8. FramesFollow
  BY <1>1 DEF FramesFollow
<1> QED  BY <1>4, <1>5, <1>6, <1>7, <1>8 DEF IInv, Buffers

LEMMA Inductively == IInv /\ [Next]_vars => IInv'
<1> SUFFICES ASSUME IInv, [Next]_vars PROVE IInv'
  OBVIOUS
<1> USE DEF IInv, Buffers
<1>1. TypeOK'
  BY TypesStep
<1>2. Region' /\ SizesAgree' /\ Damage' /\ Downwards'
  BY RegionStep, SizesStep, DamageStep, DownwardsStep
<1>3. QueueFits' /\ ViewerIsCurrent'
  BY QueueFitsStep, ViewerStep
<1> QED  BY <1>1, <1>2, <1>3, FramesStep

-----------------------------------------------------------------------------
(* The buffers, the events and the viewer's copy keep their types.         *)
THEOREM PaintTypes == Spec => []TypeOK
<1>1. IInv => TypeOK
  BY DEF IInv, Buffers
<1> QED  BY <1>1, Initially, Inductively, PTL DEF Spec

(* No damage is dropped: between two paints the framebuffer holds all that *)
(* FreeRDP drew since the last resize, for desktops of any size.           *)
THEOREM NoDamageIsLost == Spec => []DamageIsShown
<1>1. IInv => DamageIsShown
  <2> SUFFICES ASSUME IInv, pc \in {"idle", "painting"}, NEW c \in 1 .. size
               PROVE  primary[c] = 0 \/ Within(c, invalid) \/ framebuffer.px[c] = primary[c]
    BY DEF DamageIsShown
  <2>1. c \in Size
    BY PaintAssumption DEF IInv, Buffers, TypeOK, Size
  <2> QED  BY <2>1 DEF IInv, Buffers, Damage
<1> QED  BY <1>1, Initially, Inductively, PTL DEF Spec

(* Whatever the viewer has that the framebuffer has no longer, an event    *)
(* that will tell it so is on the way.                                     *)
THEOREM NothingBehindItsBack == Spec => []ViewerIsCurrent
<1>1. IInv => ViewerIsCurrent
  BY DEF IInv
<1> QED  BY <1>1, Initially, Inductively, PTL DEF Spec

(* When the viewer gets to a Frame, it has all of it. *)
THEOREM FramesAreWhole == Spec => []FrameIsWhole
<1>1. IInv => FrameIsWhole
  <2> SUFFICES ASSUME IInv, events # <<>>, Head(events).kind = "Frame", ~ResizeIsComing,
                      NEW c \in 1 .. shown.size
               PROVE  shown.px[c] >= Head(events).picture[c]
    BY DEF FrameIsWhole
  <2>1. Len(events) \in Nat /\ Len(events) >= 1 /\ Head(events) = events[1]
    BY Taking DEF IInv, Buffers, TypeOK
  <2>2. Latest(1) /\ c \in 1 .. framebuffer.size
    BY <2>1 DEF IInv, ViewerIsCurrent, ResizeIsComing, Latest, Resizing
  <2>3. ~Before(1, c)
    BY DEF Before
  <2> QED  BY <2>1, <2>2, <2>3 DEF IInv, FramesFollow
<1> QED  BY <1>1, Initially, Inductively, PTL DEF Spec
=============================================================================
