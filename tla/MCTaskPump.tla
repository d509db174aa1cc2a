----------------------------- MODULE MCTaskPump -----------------------------
(* TaskPump for TLC: the values of its constants are in the .cfg files. *)
EXTENDS TaskPump

CONSTANTS p1, p2

=============================================================================
