---------------------------- MODULE MCEspconnTcp ----------------------------
(***************************************************************************)
(* Two connections, of the client or of the server.  Over the first go up  *)
(* to three packets and changes of its options, of which lwIP takes three  *)
(* bytes at a time; the second is only opened and closed beside it.        *)
(***************************************************************************)
EXTENDS EspconnTcp

MCLength == {2}
MCHeap == {0, 3}
MCCalls == <<3, 0>>
MCBufs == {2}

=============================================================================
