# libfreerdp-prebuilt in TLA+

Models, checks and proofs of the `freerdp` crate (`src/crates/freerdp/src`):
the wrapper that runs a FreeRDP client on a thread of its own and lets any
number of threads feed it. FreeRDP itself is external; it appears as what the
crate may see of it.

Paths such as `session.rs:1255` are in `src/crates/freerdp/src` unless they say
otherwise.

## 1. The system

| Part | State | Operations | Talks to |
|---|---|---|---|
| command queue (`session.rs` `Shared`, `input.rs`) | a queue under a mutex, a manual-reset event | `push` from any thread, `drain` on the FreeRDP thread | every other part: all input, resizes, touches, clipboard work and the shutdown go through it |
| session lifecycle (`session.rs` `start`, `run`, `Drop`) | the context and its published pointer, the `aborted` flag, the boxed `Bridge` | start, connect, event loop, reconnect, withdraw, free, report; abort, shutdown, join | owner's thread and FreeRDP thread over two mutexes; FreeRDP's abort event |
| resize (`session.rs`, `input.rs`) | `disp`, `resize_ready`, `pending_resize`, `pending_reconnect`, the settings, the framebuffer's size | `Input::resize`, `resize`, `request_resize`, `reconnect_resize`, `display_control_caps`, `desktop_resize` | queue, DisplayControl channel (a thread of its own), sound |
| camera endpoint (`camera.rs`) | `CamState` under one mutex | `plug`, `unplug`, `sample` from any thread; channel callbacks; events to the embedder after the lock is released | two dynamic channels, the embedder |
| sound (`audio.rs`) | the claim on the one sink, the count of devices, the mark of the dynamic transport | `open`, `play`, `close`, `free`, `subsystem_entry`, `server_format_announce` | rdpsnd's two transports, `resize` through the mark |
| microphone (`mic.rs`) | `MicState` under one mutex | `sample` from any thread, channel callbacks | one dynamic channel, the embedder |
| touch (`session.rs`) | `held_touches`, `touch_suspended` | `send_touch`, suspend, resume | queue, rdpei channel |
| clipboard (`session.rs`, `clipboard.rs`) | `cliprdr`, `clipboard_ready`, `pending_advertise` | advertise, request, respond, five callbacks | queue, cliprdr channel |
| paint and framebuffer (`session.rs`, `framebuffer.rs`, `pointer.rs`) | FreeRDP's GDI buffer, the shared pixels and their size, the decoders' size | `begin_paint`, `end_paint`, frame markers, `desktop_resize`; readers on any thread | FreeRDP's GDI, readers |
| input encoding (`input.rs`) | none | `wheel`, `mouse_button`, `key`, `lock_keys`, `sanitise_size`, `sanitise_scale` | |
| addin provider (`audio.rs`) | one process-global function pointer | `install_provider`, `addin_provider` | every session of the process |
| prebuilt cache (`freerdp-prebuilt-sys/build.rs`) | a directory shared by builds | fetch, verify, stage, rename | concurrent builds |
| settings, certificate callback, errors, bindings, build scripts, end-to-end client | none that outlives a call | | |

What is hard about it:

* **Threads.** Callers, the owner and the channels' threads meet the FreeRDP
  thread at the queue, at `ContextPtr`, at `CamState`/`MicState` and at the
  `Bridge`, which has no lock at all.
* **Cancellation.** A blocking `freerdp_connect` *clears* the abort event on
  entry, so an abort has a moment in which it is lost.
* **Ordering.** Things asked for before a channel exists are held; events are
  emitted after the lock that decided them; sizes arrive by three routes.
* **Time.** The debounce of a reconnect against retries and against silence.
* **Sequences.** Channels close, come back, are replaced by a reconnect; what
  survives (claims, marks, counts, advertised formats) must still be right.
* **Processes.** Builds share a cache without a lock and may die in it; sessions
  share one addin provider.

What makes each part correct, in a sentence: *queue* - no wakeup is lost and
commands are executed once, in order; *lifecycle* - nobody touches a freed
context and a drop returns; *resize* - the screen follows the desktop, sound
survives, a drag costs one reconnect; *camera* - what the host gets can be
decoded and was asked for; *sound* - a server that plays is heard and the sink
knows it; *microphone* - the host gets data in the format it believes in;
*touch* - no finger stays down for ever; *clipboard* - the host shows what was
advertised last and every paste has one answer; *paint* - the reader ends with
the server's picture and nothing changes without an event; *provider* - a
session has the devices it asked for; *cache* - no build links half an archive.

## 2. Modules

| Module | Models | Kind |
|---|---|---|
| `Mailbox` | what the queue promises | abstract specification |
| `CommandQueue` | `Shared::push`, `Shared::drain`, the loop's wait | component; implements `Mailbox` |
| `Session` | `start`, `run`, `Drop`; instantiates `CommandQueue` on its own variables | composition |
| `Resize` | the way of a size from the caller to the framebuffer | component |
| `Camera` | the camera endpoint and the host's end of it | component |
| `Audio` | the claim on the sink under rdpsnd's two transports | component |
| `Mic` | the microphone endpoint and the host's end of it | component |
| `Touch` | contacts between `send_touch`, suspend and the plugin's table | component |
| `Clipboard` | the clipboard on the FreeRDP thread and on its channel's, the embedder and the host | component |
| `Paint` | pixels from the server's desktop to a reader of the framebuffer | component |
| `AddinProvider` | the process's provider under several sessions | component |
| `PrebuiltCache` | builds that share a cache of archives | component |
| `Encoding` | keys, buttons, the wheel, sizes | operators |
| `CommandQueueProofs`, `SessionProofs`, `ClipboardProofs`, `PaintProofs`, `PrebuiltCacheProofs`, `AudioProofs` (of `Audio`, `Mic` and `AddinProvider`), `EndpointProofs` (of `Camera` and `Touch`), `InputProofs` (of `Resize` and `Encoding`) | theorems and proofs | TLAPS |
| `MC...` | constants for TLC | |

Where one module proves about several components, their parts that would share a
name carry the component's (`MicTypeOK`, `TouchNext`, `ProviderSpec`).

Every component module has a part headed *Slips*: operators that differ from
the definition they shadow as a plausible bug would. No specification uses
them; they are there to show, one per property, that the property notices.

### CommandQueue and Mailbox

A push is two steps, `Insert` (under the mutex) and `Signal` (`SetEvent`); a
drain is two, `Reset` and `Take`; the wait returns for the event
(`WokenByQueue`) or for anything else (`WokenByFreeRDP`). A command is its
sender and its number. `loop` is the program counter of `event_loop`; `Close`
is `Command::Shutdown`, which drops the rest of the batch; `Fail` is every
other way out of the loop, from the places where the code has one.

`Mailbox` is a line of commands: accept, execute the oldest, close at a
shutdown, lose. The mapping makes the line `batch \o queue` while the loop
runs, and empty after it.

### Session

`stage` is where the FreeRDP thread is in `run`, `owner` where `Drop` is. The
mutex around `ContextPtr` is held by the owner across `AbortBegin` and
`AbortSignal`, every other section under it is one step guarded by
`ContextUnlocked`. `BeginConnect` clears the abort event, which is what
`session.rs:497-506` says of FreeRDP; a reconnect may or may not clear it, as
nothing in the crate says. `Panic` is an assertion failing between the
publication of the context and the connect (`session.rs:777`, `subscribe_channels`),
with the unwinding Rust does: the guard is dropped, the raw bridge and
`withdraw_context` are not reached.

### Resize

A size is a dimension and a scale, and a request remembers which call it was.
`settings` are FreeRDP's, `density` is the scale the server draws at, `wire` the
last layout it was sent. `due` is the debounce having passed. The hold is two
steps (`NotListening`, `Hold`), as is the callback that would pick the request
up (`Caps`, `Requeue`): the test and the store of `request_resize` and
`display_control_caps`, whose thread is the channel's own
(`session.rs:2368-2373`). All other callbacks run inside
`freerdp_check_event_handles` (`session.rs:1335`), so they are steps of the
loop's `checking`. `reconnect_resize` is `TakeDown`, `ComeUp`,
`ResizeFramebuffer`, `Announce`.

Assumed of FreeRDP and the server: capabilities come once for each opening of
the channel; a monitor layout changes no setting by itself; a server may honour
the last layout, or not, and may pick sizes of its own.

### Camera

All of `CamState`, one action per callback and per call of the embedder, each
under the lock and therefore one step; the event a handler emits after
releasing the lock is a step of its own (`Emit`), and other threads act in
between. A sample is its number and whether it is a keyframe; the host is what
it has been sent (`delivered`, `answered`, `shown`). A channel that refuses a
write refuses all that follow and closes later, as `Chan::write` says. The host
has at most one channel of each name. `Decodable` and `HostSeesPlug` rest on the
first of these: `camera.rs:341-342` speaks of a stream that survives a refused
write, and there the keyframe would be awaited no longer (`camera.rs:335`) though it
was not sent. By the doc of `Chan::write` (`camera.rs:152-153`) no stream survives
one. Replies without state (stream list, media
types, properties, errors) and the bytes are left out, and a plug always comes
with a format.

### Audio

The callbacks are functions of the claim (`Open`, `Play`, `Close`, `Free`), as
each is a branch of its own in rdpsnd's handlers, and the actions are what
rdpsnd does with them: a wave closes and opens a device whose format changed; a
channel closed and created again keeps rdpsnd's `isOpen`, so the device behind
it is played without being opened (`audio.rs:470-480`); `reconnect_resize` tears
both transports down and counts afresh. A format suits the sink or does not.
Callbacks are atomic, as `audio.rs:78` says they all run on the FreeRDP thread.

### Mic

All of `MicState`, as for the camera: one action per handler, its event a step
of its own (`Emit`). The embedder is what it was told last (`told`) and captures
in that format; the host is the list it was advertised on its channel (`list`)
and the format it was confirmed by index (`reads`). `buffer` records, for the
last buffer that got through, what each of them took it for. OPEN and
FORMAT_CHANGE differ in a reply without state and are one action each for an
index in the list and beyond it. The version exchange is left out: nothing
remembers it.

### Touch

`send_touch` is three steps on the FreeRDP thread (`Check`, `Note`, `TouchCall`)
and `touch_suspend` as many on the channel's thread (`Suspend`, `Take`,
`Cancel`), as nothing locks the `Bridge`: the comment at `session.rs:2368-2373`
says that a channel's callbacks run on a thread of its own, against the one at
`session.rs:578-579`. The map's insertions and removals are taken as atomic;
two of them at once are a data race, of which nothing can be promised. The
plugin is what `input.rs:222-231` and `session.rs:1610-1615` say of it, and its
table goes with the channel's interface (`session.rs:2250-2255`). `crossed`
marks the one crossing that goes wrong: a suspend between the test of a Down and
its call into the plugin.

### Clipboard

`clipboard_advertise`, `_request` and `_respond` are steps of the FreeRDP thread
on the oldest command; a held advertisement is two (`NotReady`, `Hold`), the test
and the store, and `clipboard_monitor_ready` is three (`MonitorReady`,
`TakePending`, `SendHeld`), as both work on the `Bridge` without a lock.
`clipboard_ready` goes with its channel and `pending_advertise` does not
(`session.rs:2266-2268`), so what is held on one channel greets the next. The
host has one request of its own under way and answers ours in their order; the
embedder answers each `LocalDataRequest` once (`clipboard.rs:50-55`), in any
order, or drops its `Receiver`. An advertisement is its number; formats, names
and payloads are left out.

### Paint

A desktop is one row of cells, and a cell holds the number of the change it
shows: two dimensions add nothing to a rectangle that fits or does not. The
FreeRDP thread is `pc`; `primary` is the GDI buffer, `invalid` the rectangle of
`begin_paint` and `end_paint`. `EndPaint`, `ReportPaint` and `ReportFrame` are
steps of their own since the viewer, on another thread, reads the framebuffer
between them; so are the three stages of `desktop_resize`. The viewer does what
`lib.rs:21-30` and `Event::Resize` tell it to: copy the rows of each `Paint`,
take the size of each `Resize`, ask for a refresh. The server marks its frames in
one of four ways (`path`), and one that uses surface commands stops at a window
of unacknowledged frames. `codecs` is the size the decoders were prepared with,
which refuse a wider bitmap and end the session (`session.rs:2018-2028`).

### AddinProvider

A context made by any session puts FreeRDP's provider back (`NewContext`);
`install_provider` reads `UPSTREAM` once in the process and then registers, in
two steps that other sessions may come between. Channels ask when they load:
at the connect, when the server opens a transport, and after a
`reconnect_resize`. A question to this crate's provider about a channel of
FreeRDP's goes to `UPSTREAM`; were that this crate's own, it would never end.

### PrebuiltCache

A build is a process with a process id, one after the other in each of
`Build`: it asks which release is latest, looks, cleans its staging directory,
downloads, verifies, unpacks in two steps, renames and checks. It may be killed
or fail at each. Directories are absent, whole, bad or being deleted, since
`is_dir` sees a `lib/` in the last two. Live builds have distinct process ids;
dead ones leave theirs, with what they staged, to whoever gets the number.

### Encoding

Operators without state: keys and buttons as flags, a sixteen-bit word that wraps
and its nine bits of two's complement, sizes and scales. They have no run; what
is said of them is proved, for every argument.

## 3. Runs

| Run | States | Shows |
|---|---|---|
| `queue` | 20 306 | `NoLostWakeup`, the refinement of `Mailbox`, and that every pushed command is executed or the session is over |
| `session` | 10 073 | an abort never reaches a freed context and is lost only between the check and the reset (`AbortLostOnlyInWindow`); a drop returns once connects are bounded, and without any bound outside that window, unless a reconnect begun after the signal resets the event; one under way is interrupted (`DropIsPrompt`); `Ended` is followed by the end of the event channel |
| `resize` | 178 341 | the framebuffer and the announced size follow the desktop; no layout goes out on a session whose sound it would kill; a retry buys no second reconnect; a reconnect is for a size that outlasted its debounce, and happens |
| `camera` | 94 937 | what the host gets decodes, was asked for and is answered once; no sample waits beside a credit; embedder and host know of each other |
| `audio` | 5 201 | the sink was told `opened` before a wave; no claim of a freed device; the transport of a device is told rightly; a server on one transport is always heard |
| `mic` | 131 528 | a buffer is captured and read in one format unless it crosses an event (`HostHearsRight`); the embedder knows of every stream and of its end; only a list left by a termination is ever used for a host that did not get it |
| `touch` | 113 279 | the host holds no finger the caller lifted, and a suspend knows and lifts all it has, unless it crosses the `send_touch` of a Down |
| `clipboard` | 175 145 | the host shows what was advertised last or held for its channel; each answer goes to the request the host waits on; a paste ends, though the embedder goes away |
| `prebuilt_cache` | 531 040 | only whole releases get into the cache, whoever dies where; an offline build does not go back to an older one; once the faults stop builds succeed |
| `paint` | 447 128 | an event tells of whatever the viewer does not have; at a `Frame` it has the frame; no damage is dropped; once the desktop rests the viewer shows it |
| `addin` | 9 245 | FreeRDP's channels always load; a device is lost only to a context of another session made after this one chained |
| `resize_held` | violated | see findings |

Bounds. *queue, session*: two pushes per caller let one push overtake a drain
while the next is in it; two callers race each other and the owner (`session`
has one caller, the others being `queue`'s business). *resize*: two calls are
the shortest supersession, overtaking and out-and-back; two dimensions and two
scales separate a size from its halves; one size of the server's own; with
three calls the properties hold as well (2.2 million states, 83 s). *camera*: a
queue of three (eight in the code) has a first, a middle and a last sample and
overflows; eight samples and four requests fill, overflow and drain it more
than once, and restart the stream. *audio*: six devices are the first static
one and five more, by reloads and reconnects in any order. *mic*: two formats
that are accepted and one that is not, in offers of up to three: a filtered list
differs from the offer in its length and in its indices, and a switch has two
formats to go between. *touch*: two slots (ten in the code) overflow with three
ids, and four Downs use an id again after a suspend. *clipboard*: three openings
are a channel, one that greets with what was held on it and one that does so
again; three pastes let one stay unanswered on a closed channel while another
waits. *prebuilt_cache*: two builds race, two process ids are used again by the
next, two releases are an older and a newer one, and two faults let a kill be
followed by a torn download or a silence. *paint*: two widths are a grow and a
shrink, two changes or resizes cover a change before, inside and after a resize,
and a window of one stops the server at each frame; three widths with the same
work hold as well (7.0 million states). *addin*: three sessions are two that race
to read `UPSTREAM` and one whose context comes between.

Each component has its type invariant, `TypeOK` or named for it; all of them are
theorems (that of `AddinProvider` is a part of its inductive invariant) and in
no run's list.

Deadlock is checked for `audio`, `mic`, `touch`, `prebuilt_cache` and `addin`.
The other systems do stop: a session ends, and the bounds on pushes, requests,
samples and changes run out.

Fairness. The FreeRDP thread and a thread inside `push` are scheduled
(`WF` on the loop's steps, and on `Signal`); in `Touch` the callback
that began a suspend and the `send_touch` under way are; in `Resize` so are the callback's
second half and time. In `Clipboard` both threads are, and the embedder answers
what it read, which `ClipboardEvent::LocalDataRequest` demands of it
(`clipboard.rs:50-55`). In `Paint` the FreeRDP thread runs, the viewer reads its
events, and the server sends what it owes, takes acknowledgements and answers a
refresh. In `PrebuiltCache` builds run and are run again, and the user deletes
what a failed build named. Nobody else has to call anything. The network owes nothing:
that a connect returns is assumed in `DropReturns` only (`BoundedConnect`, which
is the crate's `connect_timeout`). `DropIsPrompt` does without, and says what
the network can hold up then: the first connect, when the signal fell between the
check and the reset, and a reconnect that began after the signal, if it resets the
event. A reconnect that is under way when the drop begins is interrupted.

### Findings

One sentence of the sources is refuted by a run of its own:

* `input.rs:177-179`: a request made too early is held and the most recent one
  is sent when the channel comes up. `display_control_caps` can fall between
  the test and the store of `request_resize`, and then the request stays held;
  and a held request goes behind newer ones in the queue. (`NewestHeldIsSent`,
  run `resize_held`.)

These do not hold of the code either. Their definitions stay in the modules, and
naming one in the module's configuration, in place of its properties, gives the
sequence:

* `NulledBeforeFreed` (`Session`), `session.rs:459-460`, the SAFETY note of
  `ContextPtr`: the pointer is nulled before the context is freed. Not when an
  assertion of `run_connected` fails: the guard frees, nobody withdraws, `Drop
  for Session` then signals a freed context. The bridge is leaked on that path
  too, so the event channel stays open behind `Ended`.
* `ReconnectIsNewest` (`Resize`), `session.rs:1506-1508`: a reconnect is
  performed when no newer size came. A newer request for the *present* size
  returns early and leaves it scheduled.
* `DensityChangeDiffers` (`Resize`), `session.rs:1484-1485`: a genuine density
  change always differs. A layout changes the density and not the setting
  compared, so the way back is ignored.
* `OtherFormatIsSilent` (`Audio`), `audio.rs:418-420`: the waves of a device
  opened in another format go nowhere. They adopt the vacant claim in `play`
  (`audio.rs:487-491`) and reach the sink at the wrong rate. The comment there
  (`audio.rs:482-484`) argues that the format is not in doubt, which the one in
  `open` contradicts.
* `AnswerIsLabelled` (`Clipboard`), `session.rs:2535-2537`: `lastRequestedFormatId`
  says which request an answer is to, as only one may be under way. Nothing
  holds a second `Clipboard::request` back, and then the first answer carries the
  second's format. (With `MaxAsk = 2`.)
* `audio.rs:200-204` and `README.md:166-167`: sessions that overlap only after
  both have connected are unaffected by each other's provider. A
  `reconnect_resize` loads the devices again (`session.rs:1526-1528`), and so does
  a transport that the server opens later; a context made in between costs the
  session its device then. `DeviceLostOnlyToAnother` is what remains true.

Smaller disagreements, without a run: `lib.rs:65` says that there is no graphics
pipeline while `Connect::egfx` is on by default; `README.md:169` says that there is
no microphone; `audio.rs:78` and `audio.rs:398` disagree about the thread;
`camera.rs:130-131` says that samples before `started` are dropped, while one
offered between the request and the event is sent, and `mic.rs:128-130` says the
same of a buffer before `opened`. `plugin_terminated` keeps the microphone's
formats where `on_close` clears them, so on the next channel an OPEN that comes
before FORMATS is taken from the old list, though `mic.rs:912` would have it
declined; a host that follows the protocol sends FORMATS first. A suspend that
falls inside the `send_touch` of a Down finds the contact not yet noted, or
cancels it before the plugin has it, so the host keeps it after all
(`session.rs:257-260` says it is not left holding one); `touch` shows that
nothing else goes wrong. An answer of the embedder to a request of a channel that
has closed goes to whatever the host waits on next, as `clipboard_respond` looks
at no request (`stray` in `Clipboard`). `freerdp-prebuilt-sys/build.rs:28-29` lists "a
cache half-written by a killed build" among what actually happens; a build unpacks
aside and renames, and by `CacheIsWhole` a kill leaves nothing half-written in the
cache.

Where the code fails as described above, the properties exempt the failure and
speak of the rest: `AbortSignalsLiveContext` and `EndedClosesChannel` exempt a panic
(`panicked`), `UnlistedOnlyAfterTermination` and `HostHearsRight` what follows a
termination, `HostHearsRight` also a buffer that crosses an event, the three of `touch`
a suspend inside the `send_touch` of a Down and `LastOfferStands` an advertisement
inside `MonitorReady` (`crossed` in both), `AnswerFindsItsRequest` an answer to a
former channel (`stray`).

## 4. Proofs

For every value of the constants that the assumptions named below allow:

* `CommandQueueProofs`: `TypeInvariant`; `WakeupInvariant`, for which
  `NoLostWakeup` is strengthened by what holds between the two halves of a push
  and of a drain: whenever the queue is not empty and the loop has not reset
  the event since, the event is set or a pusher is about to set it.
  `MailboxRefinement` maps each step to one of `Mailbox` or to none; it needs the
  types, because appending to `batch \o queue` is an argument about sequences.
  `NothingIsForgotten`: a command that was pushed is in the queue, in what drain
  took, or executed, until the loop is over. The lemmas are about the steps alone
  (`Steps`, which is `Spec` without its fairness), so that the session can cite them.
* `SessionProofs`: `LifecycleTypes`; `AbortIsSound` and `AbortWindow`. Their
  invariant says which stages have a published and a live context, and that
  while the owner is inside `abort_connect` with a context the FreeRDP thread
  has not passed `withdraw_context`: the argument of the comment at
  `session.rs:741-742`. `AbortReachesNetwork`: once `abort_connect` is past, a
  thread that waits for the network was signalled, before or while it waits; past
  the check only a request yet to come has not been (`SignalInv`).

* `SessionProofs`, of the queue inside the session: `SessionRunsQueue`, a
  refinement: the session's connects, reconnects, panics and ends take the steps
  of `CommandQueue` or leave its variables alone. An instance of `CommandQueueProofs`
  (`Line`) then gives the session all that is proved of the steps:
  `SessionImplementsMailbox`, `SessionMissesNoWakeup`. `DropWakesTheLoop` says that
  `Drop for Session` never joins a loop that sleeps: once the owner joins, its shutdown
  is in what the loop took, or the event is set, or the loop is between reset and
  take (`ShutdownIsHeard`), where `NoCommandIsForgotten` says that it will be
  found. `EndedLeavesNoBridge`: whichever step of `run` failed, the bridge is taken
  back before the report.

* `AudioProofs`, of `Audio`: `AudioTypes`, `SinkKnows`, `ClaimNeverDangles`,
  `OrderTellsTransport`, `SoleTransportHeard`, for any
  number of devices. The lemmas on the callbacks carry the first two: no
  callback leaves a claim with a sink told `closed`, and a claim moves only to
  the device a callback was made on. The third needs two facts more: the count
  is at least one whenever the dynamic channel's device is created (`seen >= 1`,
  which a reconnect's counting afresh preserves), and device numbers are fresh,
  so no mark of a freed device is inherited. The action property says that a
  server that drives one transport is heard; its invariant is that the claim is
  of a device on a transport that was driven (`ClaimWasDriven`), so with one of
  them it is the claim of the device the wave is for, or none.
* `AudioProofs`, of `Mic`: `MicTypes`, `MicIsHeardRight`, `MicIsTold`,
  `ListsEndWithChannels`. That captured and read are one format is no invariant by
  itself; what carries it is that the embedder was told what is open, or the event
  at the head says it (`TellsOpen`), that the host reads in the format that is open
  (`HostFollows`), that the host's list is the one kept or none yet
  (`ListIsOurs`), and what a channel that is gone leaves (`GoneIsSilent`). Before
  any termination nothing is left of its formats (`NothingIsLeft`).
* `AudioProofs`, of `AddinProvider`: `DelegationAlwaysEnds`,
  `OnlyAnotherTakesTheDevice`. Whoever
  reads `UPSTREAM` first reads it after a context was made and before anybody
  has registered (`UpstreamIsFreeRDP`); a session that has chained and was not
  overtaken finds this crate's provider in front (`ChainedUnlessOvertaken`).

* `EndpointProofs`, of `Camera`: `CameraTypes`, `StreamDecodes`, `CreditsAreUsed`,
  `StreamIsMetered`, `EmbedderKnowsStream`, `PlugIsAnnounced`, for a queue of any
  length. `Decodable` needs the whole chain from the embedder to the host: the
  samples that wait continue each other (`Chained`), the first of them continues what
  the host got (`Begun`), the last of them, or what the host got if none waits, is the
  last that was offered (`UpToDate`), and while a keyframe is awaited nothing
  waits at all (`Quiet`). The embedder was told, or is about to be
  (`ToldOrEmitted`); what is announced is what the host was shown
  (`AnnouncedIsShown`).
* `EndpointProofs`, of `Touch`: `TouchTypes`, `NoFingerIsStuck`, `SuspendKnowsAll`,
  `SuspendIsThorough`, for any number of fingers, slots and Downs. Where the two
  threads are decides what may be out of step (`Places`): a Down is noted before it
  reaches the plugin, and once a suspend has taken the map it stays empty
  (`DownsAreNoted`); the host has one contact of an id (`OneContact`), which is a
  finger that is down or one that the Up or the suspend under way lifts
  (`LiftIsComing`). All three carry the exception `crossed`.

* `InputProofs`, of `Resize`: `ResizeTypes`, `DesktopFollowed`, `SoundSurvives`,
  `RetriesAreFree`, `OneReconnectPerDrag`. The invariant behind them says that
  what is scheduled has stood since it was asked for and is not the present
  size (`Planned`), and where in `reconnect_resize` and `desktop_resize` the
  framebuffer, the settings and the last event may differ (`Followed`). The
  three action properties follow from it and from which action takes a
  connection down or sends a layout: one lemma for each, over all of `Next`.
* `InputProofs`, of `Encoding`: `WheelTurnsAsAsked`, for every turn;
  `ButtonsAreDistinct`, `KeysAreDistinct`; `SizesAreLegal`, with the two facts
  that `input.rs` argues with: the size stays inside the viewport, and adjusting
  it once more changes nothing.
* `ClipboardProofs`: `Types`, `OfferInvariant`. `LastOfferStands` speaks of the
  thread at rest; the invariant says what `standing` is while it greets and
  while it sends, and before the channel is ready. `AnswersFindRequests`: a paste
  is in one place only and once, in the embedder's `Receiver`, in its hands or in
  the queue (`OneAnswer`); none of them has a number yet to come (`Numbered`); and
  one of this channel is the one the host waits on (`InHand`). `PastesAreKept`:
  what the host waits on is in one of those places, or was dropped with the
  `Receiver`. The lemmas on `Append` and `Tail` (`AppendOnce`, `TailOnce`,
  `AppendKeeps`, `TailKeeps`) say what they do to what is in a sequence and how often.
* `PaintProofs`: `PaintTypes`, `NoDamageIsLost`, `NothingBehindItsBack`,
  `FramesAreWhole`. Outside `desktop_resize` the framebuffer has the GDI's size
  (`SizesAgree`), the invalid region covers what differs from it (`Damage`), and
  so every blit fits. The rectangles of paints behind the last resize in the
  channel fit too (`QueueFits`), so the viewer's rows are never empty; and what a
  `Frame` pictured is shown, or a paint ahead of it tells (`FramesFollow`).
* `PrebuiltCacheProofs`: `CacheTypes`, `CacheStaysWhole`, `ReleasesOnlyAdvance`.
  A live build owns its staging directory (`OwnStaging`), which needs that live
  builds have distinct process ids, and what it renames it has unpacked to the
  end itself (`StagedWhole`). For the second, what was linked is still in the
  cache unless it was deleted (`LinkedIsCached`).

They rest on the assumption each module names (`CommandQueueAssumption`,
`SessionAssumption`, `AudioAssumption`, `MicAssumption`, `CameraAssumption`, `TouchAssumption`,
`ResizeAssumption`, `ClipboardAssumption`, `PaintAssumption`, `CacheAssumption`),
which TLC evaluates in its run: bounds are natural numbers, sizes and tags not
empty, `Owner` is no caller, the formats accepted are formats and silence is none. `AddinProvider` assumes nothing. Every inductive
invariant held on the instances of section 3 before it was proved.

With that every invariant and every action property of the passing runs is a theorem.

Left to TLC: liveness, which needs fairness and `ENABLED`:
`EveryCommandIsServed`, `DropReturns`, `DropIsPrompt`, `EndedClosesChannel`,
`QuietLoopStillReconnects`, `SuspendLiftsAll`, `PasteEnds`, `Recovers`, `Converges`.
Of six of them the safety core is proved, which is what must hold of every
state for the end to come, or to be the right one: `NothingIsForgotten` of
`EveryCommandIsServed`, `DropWakesTheLoop` of `DropReturns`, `AbortReachesNetwork` of `DropIsPrompt`,
`EndedLeavesNoBridge` of `EndedClosesChannel`, `SuspendIsThorough` of `SuspendLiftsAll` and
`PastesAreKept` of `PasteEnds`. That the end comes is TLC's to check.
`NewestHeldIsSent` is refuted by TLC.

## 5. Not modelled

* The generated bindings (`freerdp-prebuilt-sys/src/bindings_*.rs`, 84 000 of
  the 92 000 lines of Rust): declarations of FreeRDP's C interface, without a
  step to model. Measured against all the lines the share that the modules stand
  for is therefore small, whatever is modelled of the crate.
* The pointer's callbacks (`session.rs:2077-2180`, `pointer.rs`): each copies a
  shape into an event. Settings and the certificate callbacks: setter calls,
  and an answer that depends on nothing. Errors and re-exports.
* The build's link flags, headers and its check of the hash; `build.sh` and the
  scripts around it: sequential. The end-to-end client: a user of the crate.
* Of the camera, replies that keep no state and the bytes of its messages; of
  the clipboard, formats and payloads; of touches, positions.
* FreeRDP's own threads beyond what the crate's comments say of them. `Audio`
  takes `audio.rs:78` at its word, against `audio.rs:398`.
* Two machines or containers that share one cache and may have live builds of
  the same process id.
* Two data races that no model can give a meaning to: the map of held contacts
  (`Touch`) and `pending_advertise` (`Clipboard`) are changed by two threads without
  a lock; the models take each change as atomic and interleave them.

What would be next: the safety cores of `Converges` (whatever the viewer lacks is
owed by somebody) and of `QuietLoopStillReconnects` (what is scheduled has a
deadline the loop waits for), and a specification of a session's end that
`Session` implements.
