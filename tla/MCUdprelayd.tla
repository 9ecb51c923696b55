----------------------------- MODULE MCUdprelayd -----------------------------
(* Instances of Udprelayd for TLC.                                         *)
EXTENDS Udprelayd

CONSTANTS r1, r2, r3

MCTwo   == <<r1, r2>>
MCThree == <<r1, r2, r3>>

(* Two datagrams of the peer, and one with a header and nothing behind it. *)
MCInputs == {[id |-> 1, seq |-> 0, len |-> 3], [id |-> 2, seq |-> 1, len |-> 3],
             [id |-> 3, seq |-> 2, len |-> 2]}
MCShort  == {[id |-> 1, seq |-> 0, len |-> 3], [id |-> 2, seq |-> NoSeq, len |-> 1]}
MCLens   == {1}

MCSignals == {"SIGTERM"}
MCNone    == {}
=============================================================================
