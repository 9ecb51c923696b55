------------------------------ MODULE MCTunnel ------------------------------
(* Instance of Tunnel for TLC: mostly one way, so that numbers wrap, with   *)
(* a single datagram the other way.                                        *)
EXTENDS Tunnel, TLC

CONSTANTS a, b, r1, r2

MCNodes    == {a, b}
MCRelays   == {r1, r2}
MCSent     == a :> 4 @@ b :> 1
MCAccepted == a :> 1 @@ b :> 3
MCMayLose  == {{r1}}
=============================================================================
