------------------------------ MODULE Mailbox ------------------------------
(***************************************************************************)
(* What Input and Clipboard promise the callers of a session: commands are *)
(* executed one at a time, in the order in which they were accepted, each  *)
(* of them once, until a shutdown is reached or the connection is lost.    *)
(* CommandQueue implements it with a mutex, a manual-reset event and an    *)
(* event loop.                                                             *)
(***************************************************************************)
EXTENDS Naturals, Sequences

CONSTANTS Command,      (* the commands a session can be given             *)
          Shutdown      (* the commands that end it, some of Command       *)

VARIABLES box,          (* accepted and not yet executed, oldest first     *)
          done,         (* executed, oldest first                          *)
          open          (* FALSE once the event loop has returned          *)

vars == <<box, done, open>>

TypeOK == /\ box \in Seq(Command)
          /\ done \in Seq(Command \ Shutdown)
          /\ open \in BOOLEAN

Init == box = <<>> /\ done = <<>> /\ open = TRUE

(* A command is accepted, at the end of the line. *)
Accept(c) == /\ open
             /\ box' = Append(box, c)
             /\ UNCHANGED <<done, open>>

(* The oldest command is executed. *)
Execute == /\ open
           /\ box # <<>>
           /\ Head(box) \notin Shutdown
           /\ done' = Append(done, Head(box))
           /\ box' = Tail(box)
           /\ UNCHANGED open

(* The oldest command is a shutdown: nothing behind it is executed. *)
Close == /\ open
         /\ box # <<>>
         /\ Head(box) \in Shutdown
         /\ open' = FALSE
         /\ box' = <<>>
         /\ UNCHANGED done

(* The connection is lost, with whatever was still in the line. *)
Lose == /\ open
        /\ open' = FALSE
        /\ box' = <<>>
        /\ UNCHANGED done

Next == \/ \E c \in Command : Accept(c)
        \/ Execute
        \/ Close
        \/ Lose

Spec == Init /\ [][Next]_vars
=============================================================================
