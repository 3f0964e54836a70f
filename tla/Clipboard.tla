----------------------------- MODULE Clipboard -----------------------------
(***************************************************************************)
(* The clipboard (session.rs, clipboard.rs): the caller's commands on the  *)
(* FreeRDP thread against cliprdr's callbacks on the channel's own thread, *)
(* with no lock between them, the embedder that answers the host's         *)
(* requests, and the host.                                                 *)
(*                                                                         *)
(* An advertisement is its number, the formats in it are left out; a paste *)
(* is the host's wait for an answer, with the channel it waits on; an ask  *)
(* is a call of Clipboard::request.  Replies without state (capabilities,  *)
(* the format list's response) are left out.                               *)
(***************************************************************************)
EXTENDS Naturals, Sequences

CONSTANTS MaxAdvertise,  (* bound: calls of Clipboard::advertise           *)
          MaxPaste,      (* bound: requests of the host                    *)
          MaxAsk,        (* bound: calls of Clipboard::request             *)
          MaxOpen        (* bound: openings of the channel                 *)

ASSUME ClipboardAssumption ==
  {MaxAdvertise, MaxPaste, MaxAsk, MaxOpen} \subseteq Nat

Advertisement == 1 .. MaxAdvertise
Paste         == 1 .. MaxPaste
Ask           == 1 .. MaxAsk
Nothing       == 0
Command       == ({"advertise"} \X Advertisement) \cup ({"request"} \X Ask)
                   \cup ({"respond"} \X Paste)

VARIABLES
  advertised, (* calls of advertise so far                                 *)
  asked,      (* calls of request so far                                   *)
  queue,      (* Shared::queue, the clipboard's commands in it             *)
  loop,       (* the FreeRDP thread: "running", "holding" or "over"        *)
  opened,     (* channel_connected's so far                                *)
  cliprdr,    (* Bridge::cliprdr is not null                               *)
  ready,      (* Bridge::clipboard_ready                                   *)
  pending,    (* Bridge::pending_advertise, or Nothing                     *)
  handler,    (* the channel's thread: "idle", "greeting" with ready set,  *)
              (* or "sending" what it took                                 *)
  taken,      (* what it took from pending, or Nothing                     *)
  shown,      (* the host: what it believes advertised, on this channel    *)
  pastes,     (* the host: requests so far                                 *)
  paste,      (* the host: the request it waits on, or Nothing             *)
  asks,       (* the host: requests of ours it has not answered            *)
  last,       (* cliprdr's lastRequestedFormatId                           *)
  receiver,   (* the embedder has its Receiver<Event>                      *)
  events,     (* the LocalDataRequests in it                               *)
  owed,       (* the embedder: those it read and has not responded to      *)
  standing,   (* history: the advertisement last executed on this channel, *)
              (* or held for it                                            *)
  crossed,    (* history: an advertisement on this channel fell inside     *)
              (* MonitorReady, or the other way round                      *)
  former,     (* history: the pastes on channels that are closed           *)
  dropped,    (* history: the pastes dropped unread with the Receiver      *)
  stray,      (* history: an answer to one of those went out on this one   *)
  answered,   (* history: <<the paste waited on, the paste answered>>, of  *)
              (* the last answer                                           *)
  labelled    (* history: <<the ask answered, the ask it was labelled as>> *)
              (* of the last RemoteData                                    *)

caller   == <<advertised, asked, receiver, events, owed, dropped>>
bridge   == <<opened, cliprdr, ready>>
offers   == <<pending, standing, crossed>>
thread   == <<handler, taken>>
host     == <<shown, pastes, paste, former, stray, answered>>
requests == <<asks, last, labelled>>
vars     == <<caller, queue, loop, bridge, offers, thread, host, requests>>

TypeOK == /\ advertised \in 0 .. MaxAdvertise /\ asked \in 0 .. MaxAsk
          /\ queue \in Seq(Command)
          /\ loop \in {"running", "holding", "over"}
          /\ opened \in 0 .. MaxOpen
          /\ {cliprdr, ready, receiver, crossed, stray} \subseteq BOOLEAN
          /\ {pending, taken, shown, standing} \subseteq Advertisement \cup {Nothing}
          /\ handler \in {"idle", "greeting", "sending"}
          /\ {pastes, paste, former} \subseteq 0 .. MaxPaste
          /\ asks \in Seq(Ask) /\ last \in 0 .. MaxAsk
          /\ events \in Seq(Paste) /\ owed \subseteq Paste /\ dropped \subseteq Paste
          /\ answered \in (0 .. MaxPaste) \X (0 .. MaxPaste)
          /\ labelled \in (0 .. MaxAsk) \X (0 .. MaxAsk)
          /\ ready => cliprdr

Init == /\ advertised = 0 /\ asked = 0 /\ queue = <<>> /\ loop = "running"
        /\ opened = 0 /\ cliprdr = FALSE /\ ready = FALSE /\ pending = Nothing
        /\ handler = "idle" /\ taken = Nothing
        /\ shown = Nothing /\ pastes = 0 /\ paste = Nothing /\ former = 0
        /\ stray = FALSE
        /\ asks = <<>> /\ last = Nothing
        /\ receiver = TRUE /\ events = <<>> /\ owed = {}
        /\ standing = Nothing /\ crossed = FALSE /\ dropped = {}
        /\ answered = <<0, 0>> /\ labelled = <<0, 0>>

-----------------------------------------------------------------------------
(* The FreeRDP thread begins with the oldest command, which is an op. *)
Executing(op) == loop = "running" /\ queue # <<>> /\ Head(queue)[1] = op
Operand       == Head(queue)[2]

(* Slips: each replaces one definition below, to see that a property       *)
(* notices.  They are no part of the specification.                        *)

(* The channel is ready once what was held has been taken. *)
TakeUnready ==
  /\ handler = "greeting"
  /\ taken' = pending
  /\ handler' = IF pending = Nothing THEN "idle" ELSE "sending"
  /\ UNCHANGED <<caller, queue, loop, bridge, offers, host, requests>>

(* A request that nobody will answer is not answered. *)
RequestUnrefused ==
  /\ cliprdr /\ handler = "idle" /\ shown # Nothing
  /\ paste = Nothing /\ pastes < MaxPaste
  /\ pastes' = pastes + 1 /\ paste' = pastes'
  /\ events' = IF receiver THEN Append(events, pastes') ELSE events
  /\ UNCHANGED <<advertised, asked, receiver, owed, dropped, queue, loop,
                 bridge, offers, thread, shown, former, stray, answered, requests>>

(* Every request is refused, and those that are listened to are answered   *)
(* as well. *)
RequestRefused ==
  /\ cliprdr /\ handler = "idle" /\ shown # Nothing
  /\ paste = Nothing /\ pastes < MaxPaste
  /\ pastes' = pastes + 1
  /\ events' = IF receiver THEN Append(events, pastes') ELSE events
  /\ answered' = <<pastes', pastes'>>
  /\ UNCHANGED <<advertised, asked, receiver, owed, dropped, queue, loop,
                 bridge, offers, thread, shown, paste, former, stray, requests>>

-----------------------------------------------------------------------------
(* The caller: advertise and request from any thread, *)
Advertise ==
  /\ advertised < MaxAdvertise
  /\ advertised' = advertised + 1
  /\ queue' = Append(queue, <<"advertise", advertised'>>)
  /\ UNCHANGED <<asked, receiver, events, owed, dropped, loop, bridge, offers,
                 thread, host, requests>>

Request ==
  /\ asked < MaxAsk
  /\ asked' = asked + 1
  /\ queue' = Append(queue, <<"request", asked'>>)
  /\ UNCHANGED <<advertised, receiver, events, owed, dropped, loop, bridge,
                 offers, thread, host, requests>>

(* and one respond for each LocalDataRequest it reads, *)
Read ==
  /\ events # <<>>
  /\ events' = Tail(events)
  /\ owed' = owed \cup {Head(events)}
  /\ UNCHANGED <<advertised, asked, receiver, dropped, queue, loop, bridge,
                 offers, thread, host, requests>>

Respond(p) ==
  /\ p \in owed
  /\ owed' = owed \ {p}
  /\ queue' = Append(queue, <<"respond", p>>)
  /\ UNCHANGED <<advertised, asked, receiver, events, dropped, loop, bridge,
                 offers, thread, host, requests>>

(* until it drops the Receiver, with what is in it. *)
DropReceiver ==
  /\ receiver
  /\ receiver' = FALSE
  /\ dropped' = dropped \cup {events[i] : i \in 1 .. Len(events)}
  /\ events' = <<>>
  /\ UNCHANGED <<advertised, asked, owed, queue, loop, bridge, offers, thread,
                 host, requests>>

-----------------------------------------------------------------------------
(* clipboard_advertise: nothing to send on, *)
AdvertiseUnheard ==
  /\ Executing("advertise") /\ ~ cliprdr
  /\ queue' = Tail(queue)
  /\ UNCHANGED <<caller, loop, bridge, offers, thread, host, requests>>

(* or a channel that listens, *)
SendFormatList ==
  /\ Executing("advertise") /\ ready
  /\ shown' = Operand /\ standing' = Operand
  /\ crossed' = \/ crossed \/ handler = "sending"
                \/ handler = "greeting" /\ pending # Nothing
  /\ queue' = Tail(queue)
  /\ UNCHANGED <<caller, loop, bridge, pending, thread, pastes, paste, former,
                 stray, answered, requests>>

(* or one that does not yet, *)
NotReady ==
  /\ Executing("advertise") /\ cliprdr /\ ~ ready
  /\ loop' = "holding"
  /\ UNCHANGED <<caller, queue, bridge, offers, thread, host, requests>>

(* for which the advertisement is held. *)
Hold ==
  /\ loop = "holding" /\ loop' = "running"
  /\ pending' = Operand /\ standing' = Operand
  /\ crossed' = (crossed \/ (ready /\ handler # "greeting"))
  /\ queue' = Tail(queue)
  /\ UNCHANGED <<caller, bridge, thread, host, requests>>

(* clipboard_request; cliprdr notes what it asked for last. *)
SendRequest ==
  /\ Executing("request")
  /\ IF cliprdr THEN asks' = Append(asks, Operand) /\ last' = Operand
                ELSE UNCHANGED <<asks, last>>
  /\ queue' = Tail(queue)
  /\ UNCHANGED <<caller, loop, bridge, offers, thread, host, labelled>>

(* clipboard_respond: an answer to whatever the host waits on. *)
SendResponse ==
  /\ Executing("respond")
  /\ IF cliprdr THEN /\ answered' = <<paste, Operand>> /\ paste' = Nothing
                     /\ stray' = (stray \/ Operand <= former)
                ELSE UNCHANGED <<answered, paste, stray>>
  /\ queue' = Tail(queue)
  /\ UNCHANGED <<caller, loop, bridge, offers, thread, shown, pastes, former,
                 requests>>

(* channel_connected and channel_disconnected; a channel that closes ends  *)
(* its thread first, and takes with it what the host knew and waited on. *)
OpenChannel ==
  /\ loop = "running" /\ ~ cliprdr /\ opened < MaxOpen
  /\ cliprdr' = TRUE /\ opened' = opened + 1
  /\ UNCHANGED <<caller, queue, loop, ready, offers, thread, host, requests>>

CloseChannel ==
  /\ loop = "running" /\ cliprdr /\ handler = "idle"
  /\ cliprdr' = FALSE /\ ready' = FALSE
  /\ shown' = Nothing /\ paste' = Nothing /\ asks' = <<>>
  /\ former' = pastes
  /\ stray' = FALSE
  /\ standing' = pending /\ crossed' = FALSE
  /\ UNCHANGED <<caller, queue, loop, opened, pending, thread, pastes, answered,
                 last, labelled>>

(* The event loop ends: a shutdown, or the connection is lost. *)
End ==
  /\ loop = "running" /\ ~ cliprdr
  /\ loop' = "over"
  /\ UNCHANGED <<caller, queue, bridge, offers, thread, host, requests>>

-----------------------------------------------------------------------------
(* The channel's thread.  MonitorReady comes once for each opening, *)
MonitorReady ==
  /\ cliprdr /\ ~ ready /\ handler = "idle"
  /\ ready' = TRUE
  /\ handler' = "greeting"
  /\ UNCHANGED <<caller, queue, loop, opened, cliprdr, offers, taken, host,
                 requests>>

(* takes what is held, *)
TakePending ==
  /\ handler = "greeting"
  /\ taken' = pending /\ pending' = Nothing
  /\ handler' = IF pending = Nothing THEN "idle" ELSE "sending"
  /\ UNCHANGED <<caller, queue, loop, bridge, standing, crossed, host, requests>>

(* and sends it. *)
SendHeld ==
  /\ handler = "sending" /\ handler' = "idle"
  /\ shown' = taken /\ taken' = Nothing
  /\ UNCHANGED <<caller, queue, loop, bridge, offers, pastes, paste, former,
                 stray, answered, requests>>

(* The host pastes, one request at a time: the embedder is told, or if     *)
(* there is nobody to tell the request is refused at once. *)
ServerFormatDataRequest ==
  /\ cliprdr /\ handler = "idle" /\ shown # Nothing
  /\ paste = Nothing /\ pastes < MaxPaste
  /\ pastes' = pastes + 1
  /\ IF receiver
       THEN /\ paste' = pastes' /\ events' = Append(events, pastes')
            /\ UNCHANGED answered
       ELSE answered' = <<pastes', pastes'>> /\ UNCHANGED <<paste, events>>
  /\ UNCHANGED <<advertised, asked, receiver, owed, dropped, queue, loop,
                 bridge, offers, thread, shown, former, stray, requests>>

(* The host answers requests in their order; the answer is labelled with   *)
(* what was asked for last. *)
ServerFormatDataResponse ==
  /\ handler = "idle" /\ asks # <<>>
  /\ labelled' = <<Head(asks), last>>
  /\ asks' = Tail(asks)
  /\ UNCHANGED <<caller, queue, loop, bridge, offers, thread, host, last>>

-----------------------------------------------------------------------------
Execute  == \/ AdvertiseUnheard \/ SendFormatList \/ NotReady \/ Hold
            \/ SendRequest \/ SendResponse
Greet    == TakePending \/ SendHeld
Embedder == Read \/ \E p \in Paste : Respond(p)

Next == \/ Advertise \/ Request \/ Embedder \/ DropReceiver
        \/ Execute \/ OpenChannel \/ CloseChannel \/ End
        \/ MonitorReady \/ Greet
        \/ ServerFormatDataRequest \/ ServerFormatDataResponse

(* Both threads are scheduled, and the embedder keeps to the contract of   *)
(* ClipboardEvent::LocalDataRequest.  The host owes nothing. *)
Fairness == WF_vars(Execute) /\ WF_vars(Greet) /\ WF_vars(Embedder)

Spec == Init /\ [][Next]_vars /\ Fairness

-----------------------------------------------------------------------------
(* The host shows the advertisement executed last, or held for its         *)
(* channel, and nothing is left held, through reconnects that find an      *)
(* advertisement still held from before.  (The exception is one that falls *)
(* inside MonitorReady.)                                                   *)
LastOfferStands ==
  ready /\ handler = "idle" /\ ~ crossed
    => shown = standing /\ pending = Nothing

(* An answer given on the channel its request came on goes to the request  *)
(* the host waits on: none is answered twice, or for another one.  (The    *)
(* exception is a channel on which an answer to a request of a former one  *)
(* went out: respond does not look at what it answers.)                    *)
AnswerFindsItsRequest ==
  answered[2] > former /\ ~ stray => answered[1] = answered[2]

(* A paste ends: it is answered, or refused for want of anybody to answer, *)
(* or its channel closes.  (The exception is an embedder that drops its    *)
(* Receiver with the request unread in it.)                                *)
PasteEnds == \A p \in Paste : paste = p ~> (paste # p \/ p \in dropped)

-----------------------------------------------------------------------------
(* What the code says of itself and does not keep: lastRequestedFormatId   *)
(* "is the only thing that says which one came back", for a protocol that  *)
(* "allows only one outstanding request" (clipboard_server_format_data_    *)
(* response): an answer is labelled with what it answers.                  *)
AnswerIsLabelled == labelled[1] = labelled[2]
=============================================================================
