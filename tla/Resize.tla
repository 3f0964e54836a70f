------------------------------- MODULE Resize -------------------------------
(***************************************************************************)
(* Input::resize from the caller to the framebuffer (session.rs).  A       *)
(* request goes through the command queue; the FreeRDP thread drops it,    *)
(* sends it as a monitor layout, holds it until the DisplayControl channel *)
(* is ready, or schedules a reconnect at the new size; the channel's own   *)
(* thread puts a held request back on the queue; and the size the server   *)
(* settles on comes back through desktop_resize.                           *)
(*                                                                         *)
(* A size is a desktop dimension and a scale.  Time is whether the         *)
(* debounce of a scheduled reconnect has passed.                           *)
(***************************************************************************)
EXTENDS Naturals, Sequences

CONSTANTS Dim,        (* width and height, as one value                    *)
          Scale,      (* DesktopScaleFactor                                *)
          FirstSize,  (* what Connect asked for                            *)
          MaxAsk,     (* bound: calls of Input::resize                     *)
          MaxChange   (* bound: sizes the server picks by itself           *)

Size == Dim \X Scale

ASSUME ResizeAssumption ==
  FirstSize \in Size /\ MaxAsk \in Nat /\ MaxChange \in Nat

(* The n-th call of Input::resize. *)
Request == [n : 1 .. MaxAsk, size : Size]
None    == [n |-> 0, size |-> FirstSize]
Some(r) == r # None

VARIABLES
  asked,      (* calls of Input::resize so far                             *)
  queue,      (* Shared::queue, the resizes in it                          *)
  batch,      (* what drain took and the loop has not executed             *)
  loop,       (* where the FreeRDP thread is                               *)
  settings,   (* DesktopWidth, DesktopHeight and DesktopScaleFactor        *)
  egfx,       (* SupportGraphicsPipeline                                   *)
  dynamic,    (* Bridge::audio_dynamic_negotiated                          *)
  disp,       (* Bridge::disp is not null                                  *)
  ready,      (* Bridge::resize_ready                                      *)
  held,       (* Bridge::pending_resize                                    *)
  pending,    (* Bridge::pending_reconnect, and the request being          *)
              (* performed while the connection is down                    *)
  due,        (* RECONNECT_DEBOUNCE has passed since pending's "since"     *)
  capsThread, (* in display_control_caps, ready set and held not taken     *)
  framebuffer,(* size of Shared::framebuffer                               *)
  announced,  (* size in the last Event::Connected or Event::Resize        *)
  wire,       (* the last layout sent and not honoured, or None            *)
  density,    (* the scale the server draws at                             *)
  changes,    (* sizes the server picked by itself                         *)
  acted,      (* history: the request the loop dealt with last             *)
  stood,      (* history: the request that outlasted its debounce last     *)
  steady      (* history: settings are as the last reconnect left them     *)

channel == <<disp, ready, capsThread>>
plan    == <<pending, due>>
screen  == <<framebuffer, announced>>
server  == <<settings, wire, density, changes, steady>>
mode    == <<egfx, dynamic>>
vars    == <<asked, queue, batch, loop, settings, egfx, dynamic, disp, ready,
             held, pending, due, capsThread, framebuffer, announced,
             wire, density, changes, acted, stood, steady>>

LoopPC == {"waiting", "draining", "holding", "checking", "down",
           "resizing", "announcing", "closed"}

TypeOK == /\ asked \in 0 .. MaxAsk
          /\ queue \in Seq(Request) /\ batch \in Seq(Request)
          /\ loop \in LoopPC
          /\ settings \in Size
          /\ {egfx, dynamic, disp, ready, due, capsThread} \subseteq BOOLEAN
          /\ {held, pending, wire, acted, stood} \subseteq Request \cup {None}
          /\ {framebuffer, announced} \subseteq Dim
          /\ density \in Scale
          /\ changes \in 0 .. MaxChange
          /\ steady \in BOOLEAN

(* PostConnect has run: the framebuffer is there and Connected is sent. *)
Init == /\ asked = 0 /\ queue = <<>> /\ batch = <<>>
        /\ loop = "waiting"
        /\ settings = FirstSize
        /\ egfx \in BOOLEAN
        /\ dynamic = FALSE
        /\ disp = FALSE /\ ready = FALSE /\ capsThread = FALSE
        /\ held = None
        /\ pending = None /\ due = FALSE
        /\ framebuffer = FirstSize[1]
        /\ announced = FirstSize[1]
        /\ wire = None
        /\ density = FirstSize[2]
        /\ changes = 0
        /\ acted = None
        /\ stood = None
        /\ steady = FALSE

Goto(from, to) == loop = from /\ loop' = to

(* The oldest request of the batch, and the loop being done with it. *)
Command == Head(batch)
Dealt   == /\ batch' = Tail(batch)
           /\ acted' = Command
           /\ UNCHANGED <<asked, queue, stood>>

(* Slip: a request for the present desktop is a request like any other. *)
NeverSame == FALSE

Executing   == loop = "draining" /\ batch # <<>>
Same        == Command.size = settings
ByReconnect == ~ egfx /\ dynamic
Listening   == disp /\ ready

(* settings and server as one place where a size can be. *)
SizeBecomes(size) ==
  /\ settings' = <<size, settings[2]>>
  /\ steady' = (steady /\ size = settings[1])

-----------------------------------------------------------------------------
(* Slips: each replaces one definition below, to see that a property       *)
(* notices.  They are no part of the specification.                        *)

(* The first request of a burst sets the clock. *)
KeepSince ==
  /\ Executing /\ ~ Same /\ ByReconnect
  /\ pending' = Command
  /\ Dealt
  /\ UNCHANGED <<loop, due, held, channel, screen, server, mode>>

(* The wait is infinite whatever is scheduled. *)
WaitForever ==
  /\ Goto("waiting", "draining")
  /\ queue # <<>>
  /\ batch' = queue /\ queue' = <<>>
  /\ UNCHANGED <<asked, acted, stood, held, plan, channel, screen, server, mode>>

(* No DesktopResize comes after a reconnect, and none is made up. *)
ComeUpUnfollowed ==
  /\ Goto("down", "waiting")
  /\ settings' = pending.size
  /\ density' = pending.size[2]
  /\ wire' = None
  /\ steady' = TRUE
  /\ pending' = None /\ due' = FALSE
  /\ UNCHANGED <<asked, queue, batch, acted, stood, held, channel, screen,
                 changes, mode>>

(* A held request is sent from the callback itself. *)
SendFromCallback ==
  /\ capsThread
  /\ capsThread' = FALSE
  /\ wire' = IF Some(held) THEN held ELSE wire
  /\ held' = None
  /\ UNCHANGED <<asked, queue, batch, acted, stood, loop, plan, disp, ready,
                 screen, settings, density, changes, steady, mode>>

-----------------------------------------------------------------------------
(* Input::resize, from any thread. *)
Ask(size) ==
  /\ asked < MaxAsk
  /\ asked' = asked + 1
  /\ queue' = Append(queue, [n |-> asked', size |-> size])
  /\ UNCHANGED <<batch, acted, stood, loop, held, plan, channel, screen, server, mode>>

(* The debounce of the scheduled reconnect passes. *)
Elapse ==
  /\ Some(pending) /\ loop # "down"
  /\ ~ due /\ due' = TRUE
  /\ stood' = pending
  /\ UNCHANGED <<asked, queue, batch, acted, loop, held, pending, channel,
                 screen, server, mode>>

-----------------------------------------------------------------------------
(* The event loop: the wait ends because something is queued or because    *)
(* its timeout, what is left of the debounce, has run out; or for one of   *)
(* FreeRDP's handles. *)
Drain ==
  /\ Goto("waiting", "draining")
  /\ queue # <<>> \/ (Some(pending) /\ due)
  /\ batch' = queue /\ queue' = <<>>
  /\ UNCHANGED <<asked, acted, stood, held, plan, channel, screen, server, mode>>

WokenByFreeRDP ==
  /\ Goto("waiting", "draining")
  /\ batch' = queue /\ queue' = <<>>
  /\ UNCHANGED <<asked, acted, stood, held, plan, channel, screen, server, mode>>

(* resize: the desktop has that size already, *)
Ignore ==
  /\ Executing /\ Same
  /\ Dealt
  /\ UNCHANGED <<loop, held, plan, channel, screen, server, mode>>

(* or the sound would not survive a layout: a reconnect is scheduled, and  *)
(* takes the place of one scheduled before, *)
Schedule ==
  /\ Executing /\ ~ Same /\ ByReconnect
  /\ pending' = Command /\ due' = FALSE
  /\ Dealt
  /\ UNCHANGED <<loop, held, channel, screen, server, mode>>

(* or request_resize sends a layout, *)
SendLayout ==
  /\ Executing /\ ~ Same /\ ~ ByReconnect /\ Listening
  /\ wire' = Command
  /\ Dealt
  /\ UNCHANGED <<loop, settings, density, changes, steady, held, plan, channel,
                 screen, mode>>

(* or finds that the channel is not ready; *)
NotListening ==
  /\ Executing /\ ~ Same /\ ~ ByReconnect /\ ~ Listening
  /\ Goto("draining", "holding")
  /\ UNCHANGED <<asked, queue, batch, acted, stood, held, plan, channel, screen,
                 server, mode>>

(* and holds the request, in place of one held before. *)
Hold ==
  /\ Goto("holding", "draining")
  /\ held' = Command
  /\ Dealt
  /\ UNCHANGED <<plan, channel, screen, server, mode>>

(* The batch is done: a reconnect that is due is performed ... *)
TakeDown ==
  /\ loop = "draining" /\ batch = <<>>
  /\ Some(pending) /\ due
  /\ loop' = "down"
  /\ disp' = FALSE /\ ready' = FALSE
  /\ UNCHANGED <<asked, queue, batch, acted, stood, held, plan, capsThread, screen,
                 server, mode>>

(* ... and otherwise FreeRDP's handles are checked. *)
CheckHandles ==
  /\ batch = <<>> /\ ~ (Some(pending) /\ due)
  /\ Goto("draining", "checking")
  /\ UNCHANGED <<asked, queue, batch, acted, stood, held, plan, channel, screen,
                 server, mode>>

Iterate ==
  /\ Goto("checking", "waiting")
  /\ UNCHANGED <<asked, queue, batch, acted, stood, held, plan, channel, screen,
                 server, mode>>

(* The connection is over, or the wait, a reconnect or a desktop_resize    *)
(* failed. *)
Fail ==
  /\ loop \in {"waiting", "draining", "checking", "down", "resizing"}
  /\ batch = <<>>
  /\ loop' = "closed"
  /\ UNCHANGED <<asked, queue, batch, acted, stood, held, plan, channel, screen,
                 server, mode>>

-----------------------------------------------------------------------------
(* reconnect_resize, with the connection down: the size goes into settings *)
(* and the connection comes up, at that size or at one of the server's.    *)
ComeUp ==
  /\ Goto("down", "resizing")
  /\ settings' = pending.size \/ changes < MaxChange
  /\ settings' \in { <<d, pending.size[2]>> : d \in Dim }
  /\ changes' = IF settings' = pending.size THEN changes ELSE changes + 1
  /\ density' = pending.size[2]
  /\ wire' = None
  /\ steady' = TRUE
  /\ pending' = None /\ due' = FALSE
  /\ UNCHANGED <<asked, queue, batch, acted, stood, held, channel, screen, mode>>

(* desktop_resize: the decoders' buffers, the GDI's and ours, then the     *)
(* event.                                                                  *)
ResizeFramebuffer ==
  /\ Goto("resizing", "announcing")
  /\ framebuffer' = settings[1]
  /\ UNCHANGED <<asked, queue, batch, acted, stood, held, plan, channel, announced,
                 server, mode>>

Announce ==
  /\ Goto("announcing", "waiting")
  /\ announced' = settings[1]
  /\ UNCHANGED <<asked, queue, batch, acted, stood, held, plan, channel, framebuffer,
                 server, mode>>

-----------------------------------------------------------------------------
(* Checking the handles runs FreeRDP's callbacks, one of these at a time.  *)

(* The server honours the last layout it was sent: it may be a new size,   *)
(* and it is a new scale, of which settings are not told. *)
HonourLayout ==
  /\ Goto("checking", "resizing")
  /\ Some(wire)
  /\ SizeBecomes(wire.size[1])
  /\ density' = wire.size[2]
  /\ wire' = None
  /\ UNCHANGED <<asked, queue, batch, acted, stood, held, plan, channel, screen,
                 changes, mode>>

(* The server picks a size nobody asked for. *)
ServerResizes ==
  /\ Goto("checking", "resizing")
  /\ changes < MaxChange
  /\ changes' = changes + 1
  /\ \E d \in Dim : SizeBecomes(d)
  /\ UNCHANGED <<asked, queue, batch, acted, stood, held, plan, channel, screen,
                 density, wire, mode>>

(* channel_connected and channel_disconnected, for DisplayControl. *)
OpenChannel ==
  /\ Goto("checking", "waiting")
  /\ disp' = TRUE
  /\ UNCHANGED <<asked, queue, batch, acted, stood, held, plan, ready, capsThread,
                 screen, server, mode>>

CloseChannel ==
  /\ Goto("checking", "waiting")
  /\ disp' = FALSE /\ ready' = FALSE
  /\ UNCHANGED <<asked, queue, batch, acted, stood, held, plan, capsThread, screen,
                 server, mode>>

(* server_format_announce, of a device of the dynamic transport. *)
SoundOnDynamic ==
  /\ Goto("checking", "waiting")
  /\ dynamic' = TRUE
  /\ UNCHANGED <<asked, queue, batch, acted, stood, held, plan, channel, screen,
                 server, egfx>>

-----------------------------------------------------------------------------
(* display_control_caps, on the channel's own thread: ready is set ... *)
Caps ==
  /\ disp /\ ~ ready /\ ~ capsThread
  /\ ready' = TRUE
  /\ capsThread' = TRUE
  /\ UNCHANGED <<asked, queue, batch, acted, stood, loop, held, plan, disp, screen,
                 server, mode>>

(* ... and a held request is taken and goes to the end of the queue. *)
Requeue ==
  /\ capsThread
  /\ capsThread' = FALSE
  /\ queue' = IF Some(held) THEN Append(queue, held) ELSE queue
  /\ held' = None
  /\ UNCHANGED <<asked, batch, acted, stood, loop, plan, disp, ready, screen, server,
                 mode>>

-----------------------------------------------------------------------------
LoopStep == \/ Drain \/ Ignore \/ Schedule \/ SendLayout
            \/ NotListening \/ Hold \/ TakeDown \/ CheckHandles \/ Iterate
            \/ ComeUp \/ ResizeFramebuffer \/ Announce

ServerStep == \/ HonourLayout \/ ServerResizes
              \/ OpenChannel \/ CloseChannel \/ SoundOnDynamic

Next == \/ \E size \in Size : Ask(size)
        \/ Elapse
        \/ WokenByFreeRDP \/ LoopStep \/ Fail
        \/ ServerStep
        \/ Caps \/ Requeue

(* The two threads are scheduled and time passes. Nobody has to ask, and   *)
(* the server owes nothing, except that a reconnect ends one way or the    *)
(* other, which connect_timeout sees to. *)
Fairness == WF_vars(LoopStep) /\ WF_vars(Elapse) /\ WF_vars(Requeue)

Spec == Init /\ [][Next]_vars /\ Fairness

-----------------------------------------------------------------------------
(* No layout goes out, by any path, on a session whose sound would not     *)
(* survive it: not a request held since before the sound came up either.   *)
SoundOutlivesResize ==
  [][Some(wire') /\ wire' # wire => ~ ByReconnect]_vars

(* A caller that repeats its request until the desktop has the size buys   *)
(* one reconnect with it, not two.                                         *)
TakesDown == loop # "down" /\ loop' = "down"
RetryBuysNoSecondReconnect ==
  [][TakesDown => ~ (steady /\ pending.size = settings)]_vars

(* A drag costs one reconnect: what is reconnected to stood for the whole  *)
(* of RECONNECT_DEBOUNCE after it was scheduled, and nothing scheduled     *)
(* after it took its place.  (A newer request that returns early schedules *)
(* nothing: see ReconnectIsNewest.)                                        *)
DragCostsOneReconnect == [][TakesDown => pending = stood]_vars

(* A scheduled reconnect is performed, or its session ends, even if the    *)
(* wire and the caller both go quiet.                                      *)
QuietLoopStillReconnects ==
  Some(pending) ~> (~ Some(pending) \/ loop = "closed")

(* The framebuffer and the last size announced are the desktop's whenever  *)
(* nobody is resizing, however the size came about, and no Event::Resize   *)
(* is ahead of the framebuffer.                                            *)
DesktopIsFollowed ==
  /\ loop # "announcing" => announced = framebuffer
  /\ loop \notin {"announcing", "resizing", "closed"}
       => framebuffer = settings[1]

-----------------------------------------------------------------------------
(* What the code says of itself and does not keep.                         *)

(* "A request made before that arrives is held, not dropped, and the most  *)
(* recent one is sent as soon as the channel comes up" (Input::resize):    *)
(* once the channel is ready and everything queued has been executed,      *)
(* nothing is held and the newest request was the last to be dealt with.   *)
NewestHeldIsSent ==
  loop = "waiting" /\ queue = <<>> /\ Listening /\ ~ capsThread
    => ~ Some(held) /\ acted.n = asked

(* "performs it once RECONNECT_DEBOUNCE passes without a newer size"       *)
(* (resize): a reconnect is for the last size that resize was given.       *)
ReconnectIsNewest == [][TakesDown => pending = acted]_vars

(* "a genuine density change always differs here" (resize): a request      *)
(* taken for the present desktop asks for the scale the server draws at.   *)
DensityChangeDiffers == Executing /\ Same => Command.size[2] = density
=============================================================================
