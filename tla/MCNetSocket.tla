---------------------------- MODULE MCNetSocket ----------------------------
(* NetSocket for TLC. *)
EXTENDS NetSocket, TLC

CONSTANTS s1, s2

MCPrio == {1, 2}
MCMsg == NetEvent

MCClient == (s1 :> "client")
MCServers == (s1 :> "server" @@ s2 :> "udp")

=============================================================================
