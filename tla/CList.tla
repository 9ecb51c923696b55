-------------------------------- MODULE CList --------------------------------
(***************************************************************************)
(* The macros of clist.h, pointer by pointer: the circular doubly linked   *)
(* list behind the relays of the daemon, the backlog of a relay, the two   *)
(* lists of the duplicate filter and the relays of the configuration.  The *)
(* pointer to the first member is a variable of the caller, and            *)
(* CLIST_FOREACH reads it again on every round.                            *)
(*                                                                         *)
(* `members` is history: the items the caller has added and not deleted.   *)
(***************************************************************************)
EXTENDS Integers, Sequences, FiniteSets, FiniteSetsExt

CONSTANTS Items, \* what can be a member
          NULL,
          Wild   \* a pointer read from memory that was freed or never set

ASSUME NullAssumption  == NULL \notin Items /\ Wild \notin Items /\ NULL # Wild
ASSUME ItemsAssumption == IsFiniteSet(Items)

VARIABLES list,       \* the caller's pointer to the first member
          next, prev, \* _next and _prev of every item
          item, token,\* the variables of CLIST_FOREACH; no loop: item = NULL
          members

vars == <<list, next, prev, item, token, members>>

Pointers == Items \cup {NULL, Wild}

TypeOK == /\ list \in Items \cup {NULL}
          /\ next \in [Items -> Pointers]
          /\ prev \in [Items -> Pointers]
          /\ item \in Items \cup {NULL}
          /\ token \in Items \cup {NULL}
          /\ members \subseteq Items

Init == /\ list = NULL
        /\ next = [i \in Items |-> Wild]
        /\ prev = [i \in Items |-> Wild]
        /\ item = NULL /\ token = NULL
        /\ members = {}

-----------------------------------------------------------------------------
(* Adding, outside of a loop                                               *)

(* CLIST_ADD_BEFORE(list, i), or a list of one.                            *)
Link(i) == IF list = NULL
           THEN /\ next' = [next EXCEPT ![i] = i]
                /\ prev' = [prev EXCEPT ![i] = i]
           ELSE /\ next' = [next EXCEPT ![i] = list, ![prev[list]] = i]
                /\ prev' = [prev EXCEPT ![i] = prev[list], ![list] = i]

Joins(i) == /\ item = NULL
            /\ i \notin members
            /\ members' = members \cup {i}
            /\ UNCHANGED <<item, token>>

(* CLIST_ADD_LAST: before the first member is behind the last one.         *)
AddLast(i) == /\ Joins(i)
              /\ Link(i)
              /\ list' = IF list = NULL THEN i ELSE list

(* CLIST_ADD_FIRST adds last and moves the list back to its last member.   *)
AddFirst(i) == /\ Joins(i)
               /\ Link(i)
               /\ list' = prev'[IF list = NULL THEN i ELSE list]

-----------------------------------------------------------------------------
(* Deleting                                                                *)

(* Mutant of Unlink: the list goes on beginning with the deleted member.   *)
UnlinkKeepingHead(i) ==
  /\ list' = IF next[i] = i THEN NULL ELSE list
  /\ next' = [next EXCEPT ![prev[i]] = next[i], ![i] = Wild]
  /\ prev' = [prev EXCEPT ![next[i]] = prev[i], ![i] = Wild]
  /\ members' = members \ {i}

(* CLIST_DEL(list, i), after which the caller frees or reuses i.           *)
Unlink(i) ==
  /\ list' = IF i # list THEN list ELSE IF next[i] = i THEN NULL ELSE next[i]
  /\ next' = [next EXCEPT ![prev[i]] = next[i], ![i] = Wild]
  /\ prev' = [prev EXCEPT ![next[i]] = prev[i], ![i] = Wild]
  /\ members' = members \ {i}

(* The first member goes: backlog, free items, oldest number, cleanup.     *)
DeleteFirst == /\ item = NULL /\ list # NULL
               /\ Unlink(list)
               /\ UNCHANGED <<item, token>>

(* A loop body deletes and frees the member it is at: a relay is disabled. *)
DeleteCurrent == /\ item \in members
                 /\ Unlink(item)
                 /\ UNCHANGED <<item, token>>

(* udprelay.relays = udprelay.relays->_next                                *)
Rotate == /\ item = NULL /\ list # NULL
          /\ list' = next[list]
          /\ UNCHANGED <<next, prev, item, token, members>>

-----------------------------------------------------------------------------
(* CLIST_FOREACH: the member after the current one is read beforehand.     *)

Upto(i) == IF i # list THEN i ELSE NULL

(* Mutant of Begin: a single member is not recognised as the last one.     *)
BeginUnchecked == /\ item = NULL /\ list # NULL
                  /\ item' = list
                  /\ token' = next[list]
                  /\ UNCHANGED <<list, next, prev, members>>

Begin == /\ item = NULL /\ list # NULL
         /\ item' = list
         /\ token' = Upto(next[list])
         /\ UNCHANGED <<list, next, prev, members>>

(* Mutant of Advance: the end of the list is not looked for.               *)
AdvanceOn == /\ item # NULL
             /\ item' = token
             /\ token' = IF token \in Items THEN next[token] ELSE NULL
             /\ UNCHANGED <<list, next, prev, members>>

Advance == /\ item # NULL
           /\ item' = token
           /\ token' = IF token = NULL THEN NULL ELSE Upto(next[token])
           /\ UNCHANGED <<list, next, prev, members>>

Next == \/ \E i \in Items : AddLast(i) \/ AddFirst(i)
        \/ DeleteFirst
        \/ DeleteCurrent
        \/ Rotate
        \/ Begin
        \/ Advance

Spec == Init /\ [][Next]_vars

(* The single thread runs every loop to its end.                           *)
FairSpec == Spec /\ WF_vars(Advance)

-----------------------------------------------------------------------------

(* Both directions describe the same ring: a member's neighbours are       *)
(* members and point back at it, and the list begins with a member as long *)
(* as there is one.                                                        *)
Linked == /\ TypeOK
          /\ \A i \in members : /\ next[i] \in members /\ prev[next[i]] = i
                                /\ prev[i] \in members /\ next[prev[i]] = i
          /\ list \in IF members = {} THEN {NULL} ELSE members

(* The member a loop visits next was read before the body ran and is used  *)
(* after it: whatever the body deleted, it still is a member.              *)
TokenAlive == token # NULL => token \in members /\ token # item

(* Every loop comes to its end: the check for the list's first member,     *)
(* which may be another one than at its beginning, never misses it.        *)
LoopEnds == item # NULL ~> item = NULL

(* The members from i on, along the pointers nx, up to where the list      *)
(* that begins with `first` begins again.                                  *)
Along(nx, first, i) ==
  LET n    == Cardinality(Items)
      at[k \in 0 .. n] == IF k = 0 THEN i
                          ELSE IF at[k - 1] \in Items THEN nx[at[k - 1]] ELSE Wild
      ends == {k \in 1 .. n : at[k] = first}
      len  == IF ends = {} THEN n ELSE Min(ends)
  IN  IF i = NULL THEN <<>> ELSE [k \in 1 .. len |-> at[k - 1]]

From(i) == Along(next, list, i)

Abstract == INSTANCE Ring WITH ring <- From(list), cur <- item, todo <- From(token)

(* The macros do what a sequence of members would: every loop visits the   *)
(* members the list had when it began, in order, each once, those the body *)
(* deletes included, and nothing else; adding, deleting and rotating keep  *)
(* the order of the others.                                                *)
ImplementsRing == Abstract!Spec
=============================================================================
