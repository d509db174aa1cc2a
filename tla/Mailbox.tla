------------------------------ MODULE Mailbox ------------------------------
(***************************************************************************)
(* What the task pump of the LuaNode32 firmware promises to the code that  *)
(* posts to it: a bounded first-in first-out box for every priority, one   *)
(* message in hand at a time, nothing accepted is dropped, reordered within *)
(* its priority or delivered twice, and a message that waits is a reason   *)
(* to deliver.  Semaphores, polling and posting steps do not appear here.  *)
(* TaskPump implements this module; EspEvents and NetSocket are built on   *)
(* it.                                                                     *)
(***************************************************************************)
EXTENDS Integers, Sequences

CONSTANTS
  Prio,      (* the priorities, a set of naturals                  *)
  Capacity,  (* the length of each box                             *)
  Msg,       (* what can be posted                                 *)
  None       (* no message is in hand                              *)

ASSUME MailboxAssumption ==
  /\ Prio \subseteq Nat
  /\ Capacity \in Nat \ {0}
  /\ None \notin [msg : Msg, prio : Prio]

VARIABLES
  box,   (* box[p]: the messages accepted at priority p and not taken *)
  hand   (* the message being handled, or None                        *)

mailboxVars == <<box, hand>>

Init ==
  /\ box = [p \in Prio |-> <<>>]
  /\ hand = None

(* A full box refuses; nothing changes then. *)
HasRoom(p) == Len(box[p]) < Capacity

Put(p, m) ==
  /\ HasRoom(p)
  /\ box' = [box EXCEPT ![p] = Append(@, m)]

Accept(p, m) ==
  /\ Put(p, m)
  /\ UNCHANGED hand

(* The receiver takes the oldest message of some priority. *)
Deliver(p) ==
  /\ hand = None
  /\ box[p] # <<>>
  /\ hand' = [msg |-> Head(box[p]), prio |-> p]
  /\ box' = [box EXCEPT ![p] = Tail(@)]

Finish ==
  /\ hand # None
  /\ hand' = None
  /\ UNCHANGED box

Next ==
  \/ \E p \in Prio, m \in Msg : Accept(p, m)
  \/ \E p \in Prio : Deliver(p)
  \/ Finish

(* Delivery needs no help from the posters. *)
Spec ==
  /\ Init
  /\ [][Next]_mailboxVars
  /\ WF_mailboxVars(\E p \in Prio : Deliver(p))
  /\ WF_mailboxVars(Finish)

=============================================================================
