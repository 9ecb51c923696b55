-------------------------------- MODULE Ring --------------------------------
(***************************************************************************)
(* What the code expects of the circular lists of clist.h: a sequence of   *)
(* members, the first one where the list begins, and a loop over it whose  *)
(* body may delete the member it is at.                                    *)
(***************************************************************************)
EXTENDS Sequences, SequencesExt

CONSTANTS Items, NULL

VARIABLES ring,  \* the members
          cur,   \* the member the loop is at, NULL outside of a loop
          todo   \* the members it will visit after that

Init == ring = <<>> /\ cur = NULL /\ todo = <<>>

AddLast(i) == /\ cur = NULL /\ i \notin ToSet(ring)
              /\ ring' = Append(ring, i)
              /\ UNCHANGED <<cur, todo>>

AddFirst(i) == /\ cur = NULL /\ i \notin ToSet(ring)
               /\ ring' = <<i>> \o ring
               /\ UNCHANGED <<cur, todo>>

DeleteFirst == /\ cur = NULL /\ ring # <<>>
               /\ ring' = Tail(ring)
               /\ UNCHANGED <<cur, todo>>

Rotate == /\ cur = NULL /\ ring # <<>>
          /\ ring' = Append(Tail(ring), Head(ring))
          /\ UNCHANGED <<cur, todo>>

Begin == /\ cur = NULL /\ ring # <<>>
         /\ cur' = Head(ring) /\ todo' = Tail(ring)
         /\ UNCHANGED ring

DeleteCurrent == /\ cur \in ToSet(ring)
                 /\ ring' = RemoveFirst(ring, cur)
                 /\ UNCHANGED <<cur, todo>>

Advance == /\ cur # NULL
           /\ IF todo = <<>> THEN cur' = NULL /\ UNCHANGED todo
                             ELSE cur' = Head(todo) /\ todo' = Tail(todo)
           /\ UNCHANGED ring

Next == \/ \E i \in Items : AddLast(i) \/ AddFirst(i)
        \/ DeleteFirst
        \/ Rotate
        \/ Begin
        \/ DeleteCurrent
        \/ Advance

Spec == Init /\ [][Next]_<<ring, cur, todo>>
=============================================================================
