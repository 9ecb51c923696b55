------------------------------- MODULE MCCList -------------------------------
(* An instance of CList for TLC.                                           *)
EXTENDS CList

CONSTANTS a, b, c, d

MCItems == {a, b, c, d}
=============================================================================
