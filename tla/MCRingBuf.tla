------------------------------ MODULE MCRingBuf ------------------------------
(***************************************************************************)
(* A ring of three blocks, messages of one and two blocks and a queue of   *)
(* two lengths.                                                            *)
(***************************************************************************)
EXTENDS RingBuf
=============================================================================
