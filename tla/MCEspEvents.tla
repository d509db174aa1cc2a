---------------------------- MODULE MCEspEvents ----------------------------
(* EspEvents for TLC: two of the three priorities, boxes of two. *)
EXTENDS EspEvents

MCPrio == {1, 2}
MCMsg == {"esp", "net"}

=============================================================================
