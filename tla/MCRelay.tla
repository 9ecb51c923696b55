------------------------------- MODULE MCRelay -------------------------------
(* Instances of Relay for TLC: lengths and peers as small sets.            *)
EXTENDS Relay

CONSTANTS p1, p2

MCPeers == {p1, p2}
(* 2 -> 3 -> 5 makes send_buffer grow twice, the second time by half more. *)
MCLengths == {1, 2, 4}
=============================================================================
