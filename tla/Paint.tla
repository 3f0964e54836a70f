------------------------------- MODULE Paint -------------------------------
(***************************************************************************)
(* Pixels, from the server's desktop through FreeRDP's GDI buffer and the  *)
(* framebuffer of this crate to whoever reads the events (session.rs,      *)
(* framebuffer.rs).  The FreeRDP thread paints, marks frames and resizes;  *)
(* the viewer, on its own thread, takes the events in order and reads the  *)
(* framebuffer, which may be ahead of them, as lib.rs and Event::Resize    *)
(* tell it to.                                                             *)
(*                                                                         *)
(* The desktop is one row of cells: a size is a width, a rectangle is an   *)
(* interval, and a cell holds the number of the change that it shows.      *)
(***************************************************************************)
EXTENDS Naturals, Sequences, FiniteSets

CONSTANTS MaxSize,     (* bound: the widest desktop                        *)
          MaxWork,     (* bound: changes of the server's desktop and       *)
                       (* resizes, together                                *)
          Window       (* FreeRDP_FrameAcknowledge                         *)

ASSUME PaintAssumption ==
         MaxSize \in Nat \ {0} /\ MaxWork \in Nat /\ Window \in Nat

Size  == 1 .. MaxSize
Pixel == 0 .. MaxWork + 1       (* 0: what a resize leaves, 1: at first     *)
Image == [Size -> Pixel]
Blank == [c \in Size |-> 0]
Rect  == Size \X Size
None  == <<>>

(* How the server marks its frames: not at all, by an order, by surface    *)
(* commands that want an acknowledgement, or by the graphics pipeline.     *)
Path == {"bare", "order", "surface", "gfx"}

(* A frame's picture is history: the buffer as it was when the frame ended. *)
Event == [kind : {"Connected", "Resize"}, size : Size]
         \cup [kind : {"Paint"}, rect : Rect]
         \cup [kind : {"Frame"}, picture : Image]

VARIABLES
  pc,          (* where the FreeRDP thread is                              *)
  size,        (* the desktop's size, of settings and of the GDI           *)
  codecs,      (* the size the decoders were prepared with                 *)
  primary,     (* gdi->primary_buffer                                      *)
  invalid,     (* the invalid region, and then what end_paint makes of it  *)
  framebuffer, (* Framebuffer                                              *)
  events,      (* the channel of events                                    *)
  shown,       (* the viewer's copy                                        *)
  refreshing,  (* is a refresh in the queue?                               *)
  screen,      (* the server's desktop                                     *)
  owed,        (* the cells that it has yet to send                        *)
  path,        (* how it marks its frames                                  *)
  inFrame,     (* is it within a frame?                                    *)
  unacked,     (* frames it counts as not acknowledged                     *)
  acks,        (* acknowledgements on the wire                             *)
  asked,       (* is a refresh on the wire?                                *)
  changes, resizes

client == <<pc, size, codecs, primary, invalid, framebuffer, events>>
viewer == <<shown, refreshing>>
wire   == <<acks, asked>>
server == <<screen, owed, path, inFrame, unacked, changes, resizes>>
vars   == <<client, viewer, wire, server>>

TypeOK == /\ pc \in {"idle", "painting", "blitted", "framing", "resizing",
                     "resized", "refused", "failed"}
          /\ size \in Size /\ codecs \in Size
          /\ primary \in Image /\ screen \in Image
          /\ invalid \in Rect \cup {None}
          /\ pc = "blitted" => invalid \in Rect
          /\ framebuffer \in [size : Size, px : Image]
          /\ events \in Seq(Event)
          /\ shown \in [size : Size \cup {0}, px : Image]
          /\ owed \subseteq 1 .. size /\ path \in Path
          /\ inFrame \in BOOLEAN /\ refreshing \in BOOLEAN /\ asked \in BOOLEAN
          /\ unacked \in Nat /\ acks \in 0 .. unacked
          /\ changes \in Nat /\ resizes \in Nat
          /\ changes + resizes <= MaxWork

(* post_connect has sized the framebuffer and sent Connected; the server   *)
(* is about to paint everything. *)
Init == /\ pc = "idle" /\ size \in Size /\ codecs = size
        /\ primary = Blank /\ invalid = None
        /\ framebuffer = [size |-> size, px |-> Blank]
        /\ events = <<[kind |-> "Connected", size |-> size]>>
        /\ shown = [size |-> 0, px |-> Blank] /\ refreshing = FALSE
        /\ screen = [c \in Size |-> 1] /\ owed = 1 .. size
        /\ path \in Path /\ inFrame = FALSE
        /\ unacked = 0 /\ acks = 0 /\ asked = FALSE
        /\ changes = 0 /\ resizes = 0

Goto(from, to) == pc = from /\ pc' = to
Send(event)    == events' = Append(events, event)
Framed         == [kind |-> "Frame", picture |-> primary]

Within(c, rect) == rect # None /\ rect[1] <= c /\ c <= rect[2]
Fits(rect)      == rect[2] <= framebuffer.size

(* image with the cells of rect as they are in source. *)
Copy(image, rect, source) == [c \in Size |-> IF Within(c, rect) THEN source[c] ELSE image[c]]

(* gdi_InvalidateRegion: the smallest rectangle around the region and c.   *)
Grown(rect, c) == IF rect = None THEN <<c, c>>
                  ELSE <<IF c < rect[1] THEN c ELSE rect[1],
                         IF c > rect[2] THEN c ELSE rect[2]>>

-----------------------------------------------------------------------------
(* Slips: each replaces one definition below, to see that a property       *)
(* notices.  They are no part of the specification.                        *)

(* On the pipeline a paint is a frame, and only that is announced. *)
FrameForPaint ==
  /\ Goto("blitted", "idle")
  /\ Send(IF path = "gfx" THEN Framed ELSE [kind |-> "Paint", rect |-> invalid])
  /\ invalid' = None
  /\ UNCHANGED <<size, codecs, primary, framebuffer, viewer, wire, server>>

(* The frame is announced ahead of its paint. *)
FrameFirst ==
  /\ Goto("blitted", "idle")
  /\ events' = (IF path = "gfx" THEN Append(events, Framed) ELSE events)
               \o <<[kind |-> "Paint", rect |-> invalid]>>
  /\ invalid' = None
  /\ UNCHANGED <<size, codecs, primary, framebuffer, viewer, wire, server>>

(* A resize is missed by the framebuffer. *)
FramebufferKept ==
  /\ Goto("resizing", "resized")
  /\ UNCHANGED <<size, codecs, primary, invalid, framebuffer, events, viewer, wire, server>>

(* The decoders are left as the connect prepared them. *)
CodecsForgotten(n) ==
  /\ Goto("idle", "resizing")
  /\ changes + resizes < MaxWork /\ resizes' = resizes + 1
  /\ size' = n /\ primary' = Blank
  /\ owed' \in {{}, 1 .. n}
  /\ UNCHANGED <<codecs, invalid, framebuffer, events, viewer, wire,
                 screen, path, inFrame, unacked, changes>>

-----------------------------------------------------------------------------
(* The server's desktop changes. *)
Change(c) ==
  /\ c <= size
  /\ changes + resizes < MaxWork /\ changes' = changes + 1
  /\ screen' = [screen EXCEPT ![c] = changes' + 1]
  /\ owed' = owed \cup {c}
  /\ UNCHANGED <<client, viewer, wire, path, inFrame, unacked, resizes>>

(* It begins a frame, unless too many wait for an acknowledgement. *)
BeginFrame ==
  /\ path \in {"order", "surface"} /\ ~inFrame /\ owed # {}
  /\ path = "surface" /\ Window > 0 => unacked < Window
  /\ inFrame' = TRUE
  /\ UNCHANGED <<client, viewer, wire, screen, owed, path, unacked, changes, resizes>>

(* FreeRDP gets an update of one cell or more; an update without any       *)
(* changes nothing. *)
BeginPaint ==
  /\ Goto("idle", "painting")
  /\ owed # {} /\ (inFrame \/ path \in {"bare", "gfx"})
  /\ invalid' = None
  /\ UNCHANGED <<size, codecs, primary, framebuffer, events, viewer, wire, server>>

(* It decodes a cell, if its decoders were prepared for as much. *)
Draw(c) ==
  /\ pc = "painting" /\ c \in owed
  /\ owed' = owed \ {c}
  /\ IF c <= codecs
       THEN /\ primary' = [primary EXCEPT ![c] = screen[c]]
            /\ invalid' = Grown(invalid, c)
            /\ UNCHANGED pc
       ELSE pc' = "refused" /\ UNCHANGED <<primary, invalid>>
  /\ UNCHANGED <<size, codecs, framebuffer, events, viewer, wire,
                 screen, path, inFrame, unacked, changes, resizes>>

(* end_paint copies the rectangle; blit drops one that does not fit, *)
EndPaint ==
  /\ Goto("painting", "blitted")
  /\ invalid # None
  /\ framebuffer' = IF Fits(invalid)
                      THEN [framebuffer EXCEPT !.px = Copy(@, invalid, primary)]
                      ELSE framebuffer
  /\ UNCHANGED <<size, codecs, primary, invalid, events, viewer, wire, server>>

(* reports it, *)
ReportPaint ==
  /\ Goto("blitted", IF path = "gfx" THEN "framing" ELSE "idle")
  /\ Send([kind |-> "Paint", rect |-> invalid])
  /\ invalid' = None
  /\ UNCHANGED <<size, codecs, primary, framebuffer, viewer, wire, server>>

(* and on the pipeline the frame with it. *)
ReportFrame ==
  /\ Goto("framing", "idle")
  /\ Send(Framed)
  /\ UNCHANGED <<size, codecs, primary, invalid, framebuffer, viewer, wire, server>>

(* The end of a frame: the order's wants no answer, *)
FrameMarker ==
  /\ path = "order" /\ pc = "idle" /\ inFrame /\ owed = {}
  /\ inFrame' = FALSE
  /\ Send(Framed)
  /\ UNCHANGED <<pc, size, codecs, primary, invalid, framebuffer, viewer, wire,
                 screen, owed, path, unacked, changes, resizes>>

(* the surface command's does. *)
SurfaceFrameMarker ==
  /\ path = "surface" /\ pc = "idle" /\ inFrame /\ owed = {}
  /\ inFrame' = FALSE
  /\ unacked' = unacked + 1
  /\ acks' = IF Window > 0 THEN acks + 1 ELSE acks
  /\ Send(Framed)
  /\ UNCHANGED <<pc, size, codecs, primary, invalid, framebuffer, viewer, asked,
                 screen, owed, path, changes, resizes>>

(* The server takes an acknowledgement. *)
TakeAck ==
  /\ acks > 0 /\ acks' = acks - 1 /\ unacked' = unacked - 1
  /\ UNCHANGED <<client, viewer, asked, screen, owed, path, inFrame, changes, resizes>>

-----------------------------------------------------------------------------
(* desktop_resize, for a size that may be the same, with a server that may *)
(* repaint or not: decoders and GDI, *)
DesktopResize(n) ==
  /\ Goto("idle", "resizing")
  /\ changes + resizes < MaxWork /\ resizes' = resizes + 1
  /\ size' = n /\ codecs' = n /\ primary' = Blank
  /\ owed' \in {{}, 1 .. n}
  /\ UNCHANGED <<invalid, framebuffer, events, viewer, wire,
                 screen, path, inFrame, unacked, changes>>

(* either of which may fail and end the session, *)
ResizeFails ==
  /\ Goto("idle", "failed")
  /\ changes + resizes < MaxWork /\ resizes' = resizes + 1
  /\ UNCHANGED <<size, codecs, primary, invalid, framebuffer, events, viewer, wire,
                 screen, owed, path, inFrame, unacked, changes>>

(* then the framebuffer, *)
ResizeFramebuffer ==
  /\ Goto("resizing", "resized")
  /\ framebuffer' = [size |-> size, px |-> Blank]
  /\ UNCHANGED <<size, codecs, primary, invalid, events, viewer, wire, server>>

(* then the event. *)
Announce ==
  /\ Goto("resized", "idle")
  /\ Send([kind |-> "Resize", size |-> size])
  /\ UNCHANGED <<size, codecs, primary, invalid, framebuffer, viewer, wire, server>>

(* send_refresh, from the queue. *)
SendRefresh ==
  /\ pc = "idle" /\ refreshing
  /\ refreshing' = FALSE /\ asked' = TRUE
  /\ UNCHANGED <<client, shown, acks, server>>

(* The server answers with everything. *)
AnswerRefresh ==
  /\ asked /\ asked' = FALSE
  /\ owed' = 1 .. size
  /\ UNCHANGED <<client, viewer, acks, screen, path, inFrame, unacked, changes, resizes>>

-----------------------------------------------------------------------------
(* The viewer: Framebuffer::with and rows, which yields nothing for a      *)
(* rectangle that does not fit. *)
Rows(image, rect) == IF Fits(rect) THEN Copy(image, rect, framebuffer.px) ELSE image

Handle ==
  /\ events # <<>> /\ events' = Tail(events)
  /\ LET event == Head(events)
     IN CASE event.kind = "Paint" ->
               /\ shown' = [shown EXCEPT !.px = Rows(@, event.rect)]
               /\ UNCHANGED refreshing
          [] event.kind = "Frame" -> UNCHANGED viewer
          [] OTHER ->
               /\ shown' = [size |-> event.size, px |-> Rows(Blank, <<1, event.size>>)]
               /\ refreshing' = (refreshing \/ event.kind = "Resize")
  /\ UNCHANGED <<pc, size, codecs, primary, invalid, framebuffer, wire, server>>

-----------------------------------------------------------------------------
Paints  == BeginPaint \/ (\E c \in Size : Draw(c)) \/ EndPaint \/ ReportPaint \/ ReportFrame
Frames  == BeginFrame \/ FrameMarker \/ SurfaceFrameMarker \/ TakeAck
Resizes == (\E n \in Size : DesktopResize(n)) \/ ResizeFails \/ ResizeFramebuffer \/ Announce
Refresh == SendRefresh \/ AnswerRefresh

Next == \/ \E c \in Size : Change(c)
        \/ Paints \/ Frames \/ Resizes \/ Refresh \/ Handle

(* The FreeRDP thread runs, the viewer reads, the server sends what it     *)
(* owes, takes acknowledgements and answers. *)
Fairness == /\ WF_vars(ResizeFramebuffer \/ Announce \/ SendRefresh)
            /\ WF_vars(Paints) /\ WF_vars(Frames)
            /\ WF_vars(AnswerRefresh) /\ WF_vars(Handle)

Spec == Init /\ [][Next]_vars /\ Fairness

-----------------------------------------------------------------------------
ResizeIsComing == \/ pc = "resized"
                  \/ \E i \in 1 .. Len(events) : events[i].kind \in {"Connected", "Resize"}
PaintIsComing(c) == \/ pc = "blitted" /\ Within(c, invalid)
                    \/ \E i \in 1 .. Len(events) :
                         events[i].kind = "Paint" /\ Within(c, events[i].rect)

(* What the viewer has of a cell is what the framebuffer holds, or an      *)
(* event that will tell it is on the way: nothing is painted, cleared or   *)
(* resized behind its back.                                                *)
ViewerIsCurrent ==
  \/ ResizeIsComing
  \/ /\ shown.size = framebuffer.size
     /\ \A c \in 1 .. framebuffer.size :
          shown.px[c] = framebuffer.px[c] \/ PaintIsComing(c)

(* When the viewer gets to a Frame it has everything of that frame, or     *)
(* what came over it since ("this is the moment to present it"), unless    *)
(* the desktop was resized meanwhile.                                      *)
FrameIsWhole ==
  events # <<>> /\ Head(events).kind = "Frame" /\ ~ResizeIsComing
    => \A c \in 1 .. shown.size : shown.px[c] >= Head(events).picture[c]

(* Between two paints the framebuffer shows whatever FreeRDP has drawn     *)
(* since the last resize: no damage is dropped as not fitting.             *)
DamageIsShown ==
  pc \in {"idle", "painting"} =>
    \A c \in 1 .. size : primary[c] = 0 \/ Within(c, invalid)
                           \/ framebuffer.px[c] = primary[c]

(* Once the server's desktop rests, the viewer shows it, whatever resizes, *)
(* servers that do not repaint after one and unacknowledged frames there   *)
(* were, unless a resize failed.                                           *)
Converges ==
  <>[](pc = "failed" \/ (/\ shown.size = size
                         /\ \A c \in 1 .. size : shown.px[c] = screen[c]))
=============================================================================
