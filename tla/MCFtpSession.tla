---------------------------- MODULE MCFtpSession ----------------------------
(***************************************************************************)
(* Two names, one of them a file of two blocks; two control connections,   *)
(* two data connections, and lines enough to log in and give commands      *)
(* while a transfer runs.                                                  *)
(***************************************************************************)
EXTENDS FtpSession

CONSTANTS f, g

MCName == {f, g}
MCOnCard == {f}

=============================================================================
