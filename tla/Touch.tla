------------------------------- MODULE Touch -------------------------------
(***************************************************************************)
(* Touch contacts (session.rs): send_touch on the FreeRDP thread against   *)
(* touch_suspend and touch_resume on the channel's own thread, with no     *)
(* lock between them, and the plugin's table of contacts behind both.      *)
(*                                                                         *)
(* A contact is the caller's id for a finger and the number of the Down it *)
(* began with.  The caller keeps to Input::touch: an id goes down again    *)
(* only after its Up or Cancel.  Positions are left out, so a Move is too: *)
(* it changes nothing else.                                                *)
(***************************************************************************)
EXTENDS Naturals, FiniteSets

CONSTANTS Id,       (* the caller's ids                                    *)
          Slots,    (* MAX_CONTACTS of the plugin                          *)
          MaxDown   (* bound: Downs of the caller                          *)

ASSUME TouchAssumption == Slots \in Nat \ {0} /\ MaxDown \in Nat

Contact == Id \X (1 .. MaxDown)
None    == [id |-> 0, phase |-> "none"]
Sending == [id : Id, phase : {"Down", "Up"}]

VARIABLES
  downs,      (* Downs of the caller so far                                *)
  finger,     (* the caller's fingers: the Down each began with, or 0      *)
  step,       (* where send_touch is: "idle", "checked", "noted"           *)
  sending,    (* the transition it has in hand                             *)
  rdpei,      (* Bridge::rdpei is not null                                 *)
  suspended,  (* Bridge::touch_suspended                                   *)
  held,       (* Bridge::held_touches, its ids                             *)
  suspending, (* where touch_suspend is: "no", "flagged", "cancelling"     *)
  cancels,    (* the ids it took and has not cancelled                     *)
  contacts,   (* the plugin's slots, which are what the host has down      *)
  crossed     (* history: a suspend began inside the send_touch of a Down  *)
              (* on this channel                                           *)

caller    == <<downs, finger>>
call      == <<step, sending>>
callback  == <<suspending, cancels>>
touchvars == <<caller, call, rdpei, suspended, held, callback, contacts, crossed>>

TouchTypeOK ==
  /\ downs \in 0 .. MaxDown /\ finger \in [Id -> 0 .. MaxDown]
  /\ step \in {"idle", "checked", "noted"}
  /\ sending \in Sending \cup {None} /\ (step = "idle" <=> sending = None)
  /\ {rdpei, suspended, crossed} \subseteq BOOLEAN
  /\ held \subseteq Id /\ cancels \subseteq Id
  /\ suspending \in {"no", "flagged", "cancelling"}
  /\ contacts \subseteq Contact /\ Cardinality(contacts) <= Slots
  /\ ~ rdpei => held = {} /\ contacts = {}

TouchInit ==
  /\ downs = 0 /\ finger = [i \in Id |-> 0]
  /\ step = "idle" /\ sending = None
  /\ rdpei = FALSE /\ suspended = FALSE /\ held = {}
  /\ suspending = "no" /\ cancels = {}
  /\ contacts = {} /\ crossed = FALSE

-----------------------------------------------------------------------------
(* The plugin: a Down takes a slot if one is free, even for an id that has *)
(* one; an Up and a Cancel free one of the id's, if there is any.          *)
Begin(i) == contacts' = IF Cardinality(contacts) < Slots
                          THEN contacts \cup {<<i, finger[i]>>} ELSE contacts

End(i) == LET its == {c \in contacts : c[1] = i}
          IN  IF its = {} THEN contacts' = contacts
                          ELSE \E c \in its : contacts' = contacts \ {c}

-----------------------------------------------------------------------------
(* Slips: each replaces one definition below, to see that a property       *)
(* notices.  They are no part of the specification.                        *)

(* The contacts of a suspend are forgotten and not cancelled. *)
TakeOnly ==
  /\ suspending = "flagged" /\ suspending' = "no"
  /\ held' = {}
  /\ UNCHANGED <<caller, call, rdpei, suspended, cancels, contacts, crossed>>

(* A Down is noted by its end only. *)
NoteUp ==
  /\ step = "checked" /\ step' = "noted"
  /\ held' = held \ {sending.id}
  /\ UNCHANGED <<caller, sending, rdpei, suspended, callback, contacts, crossed>>

-----------------------------------------------------------------------------
(* The FreeRDP thread executes a Command::Touch.  The caller's side is     *)
(* taken together with it, as nothing comes back to the caller.            *)

(* send_touch reads the channel and the flag, *)
Check(i, phase) ==
  /\ step = "idle"
  /\ IF rdpei /\ ~ suspended
       THEN step' = "checked" /\ sending' = [id |-> i, phase |-> phase]
       ELSE UNCHANGED call
  /\ UNCHANGED <<rdpei, suspended, held, callback, contacts, crossed>>

Down(i) == /\ downs < MaxDown /\ finger[i] = 0
           /\ downs' = downs + 1 /\ finger' = [finger EXCEPT ![i] = downs']
           /\ Check(i, "Down")

(* Up and Cancel differ for the host only. *)
Up(i) == /\ finger[i] # 0
         /\ finger' = [finger EXCEPT ![i] = 0] /\ UNCHANGED downs
         /\ Check(i, "Up")

(* then keeps account of the contact, *)
Note ==
  /\ step = "checked" /\ step' = "noted"
  /\ held' = IF sending.phase = "Down" THEN held \cup {sending.id}
                                       ELSE held \ {sending.id}
  /\ UNCHANGED <<caller, sending, rdpei, suspended, callback, contacts, crossed>>

(* then calls the plugin. *)
TouchCall ==
  /\ step = "noted" /\ step' = "idle" /\ sending' = None
  /\ IF sending.phase = "Down" THEN Begin(sending.id) ELSE End(sending.id)
  /\ UNCHANGED <<caller, rdpei, suspended, held, callback, crossed>>

(* The channel opens and closes on the FreeRDP thread too. *)
OpenChannel ==
  /\ ~ rdpei /\ step = "idle"
  /\ rdpei' = TRUE /\ held' = {} /\ suspended' = FALSE
  /\ UNCHANGED <<caller, call, callback, contacts, crossed>>

CloseChannel ==
  /\ rdpei /\ step = "idle" /\ suspending = "no"
  /\ rdpei' = FALSE /\ held' = {} /\ suspended' = FALSE
  /\ contacts' = {} /\ crossed' = FALSE
  /\ UNCHANGED <<caller, call, callback>>

-----------------------------------------------------------------------------
(* touch_suspend on the channel's thread: first the flag, *)
Suspend ==
  /\ rdpei /\ suspending = "no" /\ suspending' = "flagged"
  /\ suspended' = TRUE
  /\ crossed' = (crossed \/ sending.phase = "Down")
  /\ UNCHANGED <<caller, call, rdpei, held, cancels, contacts>>

(* then the table, *)
Take ==
  /\ suspending = "flagged" /\ suspending' = "cancelling"
  /\ cancels' = held /\ held' = {}
  /\ UNCHANGED <<caller, call, rdpei, suspended, contacts, crossed>>

(* then a cancel for each, in the order of a hash map. *)
Cancel ==
  /\ suspending = "cancelling"
  /\ IF cancels = {}
       THEN suspending' = "no" /\ UNCHANGED <<cancels, contacts>>
       ELSE /\ UNCHANGED suspending
            /\ \E i \in cancels : cancels' = cancels \ {i} /\ End(i)
  /\ UNCHANGED <<caller, call, rdpei, suspended, held, crossed>>

Resume ==
  /\ rdpei /\ suspending = "no"
  /\ suspended' = FALSE
  /\ UNCHANGED <<caller, call, rdpei, held, callback, contacts, crossed>>

-----------------------------------------------------------------------------
SendTouch == Note \/ TouchCall
Callback  == Take \/ Cancel

TouchNext ==
  \/ \E i \in Id : Down(i) \/ Up(i)
  \/ SendTouch \/ OpenChannel \/ CloseChannel
  \/ Suspend \/ Callback \/ Resume

TouchSpec == /\ TouchInit /\ [][TouchNext]_touchvars
             /\ WF_touchvars(SendTouch) /\ WF_touchvars(Callback)

-----------------------------------------------------------------------------
(* The host holds no finger that the caller lifted, through suspends that  *)
(* cancel it, Ups that are dropped, resumes, ids used again, a table that  *)
(* is full and channels that close.  (The exception is a suspend that      *)
(* falls inside the send_touch of a Down.)                                 *)
HostHoldsFingers ==
  ~ crossed /\ step = "idle"
    => \A c \in contacts : \/ finger[c[1]] = c[2]
                           \/ c[1] \in cancels \/ suspending = "flagged"

(* What a suspend has to cancel is known to it: every contact the host has *)
(* is in the table it takes, or about to be cancelled. (Same exception.)   *)
HeldCoversContacts ==
  ~ crossed => {c[1] : c \in contacts} \subseteq held \cup cancels \cup
                 (IF step = "noted" THEN {sending.id} ELSE {})

(* A suspend lifts every finger the host has, whether a resume follows or  *)
(* not: "the host is not left holding a finger that will never lift"       *)
(* (Event::TouchReady). (Same exception.)                                  *)
SuspendLiftsAll ==
  \A d \in Contact :
    (d \in contacts /\ suspended) ~> (d \notin contacts \/ crossed)
=============================================================================
