---------------------------- MODULE MCSeenLookup ----------------------------
(* Instance of SeenLookup for TLC.                                         *)
EXTENDS SeenLookup

(* More numbers than the pool has items, 0 (the value calloc() leaves in   *)
(* unused items) among them.                                               *)
MCSeqs == 0 .. 4
=============================================================================
