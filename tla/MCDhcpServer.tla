---------------------------- MODULE MCDhcpServer ----------------------------
(* DhcpServer for TLC: octets of eight values; beside its address 9 the     *)
(* access point leases 10 to 12, or what can be configured: 10 and 11, not  *)
(* enough for three stations, or 15, the end of the segment.               *)
EXTENDS DhcpServer

MCIps == {9}
MCRanges == {[start |-> 10, end |-> 11], [start |-> 15, end |-> 15]}
Symmetric == Permutations(Station)

(* Once an address of the next segment was leased, the search goes on       *)
(* through that segment; nothing is claimed of that, and nothing explored.  *)
(* Nor is what follows a third setting that has moved the range.            *)
Explored ==
  /\ "spilled" \notin astray
  /\ "moved" \in astray => settings < MaxSettings

=============================================================================
