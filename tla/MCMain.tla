------------------------------ MODULE MCMain ---------------------------------
(* Instances of Main for TLC.                                           *)
EXTENDS Main

CONSTANTS v4, v6

MCFamilies == {v4, v6}
MCPortless == {"h"}
MCNumbers  == [w \in {"0", "8"} |-> IF w = "8" THEN 8 ELSE 0]

Listen  == {<<"listen", "a">>, <<"listen", "b", "a">>, <<"listen">>}
Forward == {<<"forward", "b">>, <<"forward", "h">>}
Relay   == {<<"relay", "local", "a", "remote", "b">>,
            <<"relay", "remote", "h", "local", "a", "remote", "a">>,
            <<"relay", "local", "remote", "remote", "b", "#", "local", "a">>,
            <<"relay", "x", "local", "a", "remote">>}
Others  == {<<"#", "listen", "a">>, <<"local", "a">>, <<"track", "8">>}

MCLines == Listen \cup Forward \cup Relay \cup Others

MCInherited == {{0, 1, 2}, {1, 2}}
MCAllOpen   == {{0, 1, 2}}

(* Lines the README describes.                                             *)
MCHalf  == {<<"listen", "a">>, <<"relay", "local", "a", "remote", "b">>, <<"relay", "local", "a">>,
            <<"relay", "remote", "b">>}
=============================================================================
