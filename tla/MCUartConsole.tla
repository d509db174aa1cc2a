---------------------------- MODULE MCUartConsole ----------------------------
(***************************************************************************)
(* A console with a line of two letters and reads of at most two           *)
(* characters; what is typed crosses several reads and several lines.      *)
(***************************************************************************)
EXTENDS UartConsole

CONSTANTS x, y

MCLetter == {x, y}
MCFed == {<<x>>, <<y>>, <<x, y>>, <<y, x>>}

(* Nothing depends on which letter is which.                               *)
Symmetry == Permutations(MCLetter)

=============================================================================
