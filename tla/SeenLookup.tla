----------------------------- MODULE SeenLookup -----------------------------
(***************************************************************************)
(* The duplicate filter of seen_lookup.c: a preallocated pool of items,    *)
(* each either in the list of free items or in the list of used ones, the  *)
(* used ones also in a search tree ordered by their sequence numbers.      *)
(* Lists are sequences here (CLIST_DEL of the first item is Tail and       *)
(* CLIST_ADD_LAST is Append) and the tree is the set of its nodes, an item *)
(* under the number it had when it was inserted: that is what decides      *)
(* where a search finds it, whatever is written to the item later.         *)
(*                                                                         *)
(* `log` and `answer` are history: the numbers accepted so far, and the    *)
(* last call with its return value.                                        *)
(***************************************************************************)
EXTENDS Integers, Sequences

CONSTANTS Size,     \* pool_size, the `track` setting
          Seqs,     \* sequence numbers
          MaxLog    \* bound: numbers accepted

ASSUME SizeAssumption == Size \in Nat \ {0}
ASSUME SeqsAssumption == Seqs \subseteq Nat
ASSUME LogAssumption  == MaxLog \in Nat

VARIABLES seqOf,      \* the seq field of every pool item
          freeItems,  \* free_items
          list,       \* used items in order of arrival
          tree,       \* nodes of the search tree
          items,      \* the counter of used items
          log, answer

vars == <<seqOf, freeItems, list, tree, items, log, answer>>

Pool == 1 .. Size

Node(key, item) == [key |-> key, item |-> item]

Abstract == INSTANCE Dedup WITH N <- Size

TypeOK == /\ seqOf \in [Pool -> Seqs \cup {0}]
          /\ freeItems \in Seq(Pool)
          /\ list \in Seq(Pool)
          /\ tree \subseteq [key : Seqs \cup {0}, item : Pool]
          /\ items \in 0 .. Size
          /\ log \in Seq(Seqs)
          /\ answer \in [seq : Seqs \cup {-1}, added : BOOLEAN]

(* new_lookup(): calloc() clears the items, the loop frees them in order.  *)
Init == /\ seqOf = [i \in Pool |-> 0]
        /\ freeItems = [i \in Pool |-> i]
        /\ list = <<>>
        /\ tree = {}
        /\ items = 0
        /\ log = <<>>
        /\ answer = Abstract!NoAnswer

(* Mutants of FindMember: only the newest number is compared; unused items *)
(* are searched as well.                                                   *)
FindNewest(s) == list # <<>> /\ seqOf[list[Len(list)]] = s
FindInPool(s) == \E i \in Pool : seqOf[i] = s

(* sglib_lookup_item_t_find_member() finds by sequence number.             *)
FindMember(s) == \E n \in tree : n.key = s

(* Mutant of Insert:  the item is put first in the list.                    *)
InsertFirst(item, s, rest, nodes) ==
  /\ seqOf' = [seqOf EXCEPT ![item] = s]
  /\ list' = <<item>> \o rest
  /\ tree' = nodes \cup {Node(s, item)}
  /\ log' = Append(log, s)
  /\ answer' = [seq |-> s, added |-> TRUE]

(* The tail of lookup_push(): the item takes its number and joins list and *)
(* tree; `rest` and `nodes` are what list and tree hold without it.        *)
Insert(item, s, rest, nodes) ==
  /\ seqOf' = [seqOf EXCEPT ![item] = s]
  /\ list' = Append(rest, item)
  /\ tree' = nodes \cup {Node(s, item)}
  /\ log' = Append(log, s)
  /\ answer' = [seq |-> s, added |-> TRUE]

(* lookup_push() refuses a number it finds in the tree.                    *)
Refuse(s) == /\ FindMember(s)
             /\ answer' = [seq |-> s, added |-> FALSE]
             /\ UNCHANGED <<seqOf, freeItems, list, tree, items, log>>

(* Mutants of Recycle: the counter only goes up; the new number is written *)
(* before the old one is looked up in the tree to delete it.               *)
RecycleCounting(s) ==
  /\ ~FindMember(s)
  /\ items = Size
  /\ Len(log) < MaxLog
  /\ LET item == Head(list)
     IN  Insert(item, s, Tail(list), tree \ {Node(seqOf[item], item)})
  /\ items' = items + 1
  /\ UNCHANGED freeItems

RecycleRenamed(s) ==
  /\ ~FindMember(s)
  /\ items = Size
  /\ Len(log) < MaxLog
  /\ LET item == Head(list)
     IN  Insert(item, s, Tail(list), tree \ {Node(s, item)})
  /\ UNCHANGED <<freeItems, items>>

(* lookup_push() on a full pool takes the oldest item from list and tree   *)
(* and reuses it: the counter goes down and up again.                      *)
Recycle(s) ==
  /\ ~FindMember(s)
  /\ items = Size
  /\ Len(log) < MaxLog
  /\ LET item == Head(list)
     IN  Insert(item, s, Tail(list), tree \ {Node(seqOf[item], item)})
  /\ UNCHANGED <<freeItems, items>>

(* Mutant of TakeFree: the item stays in the list of free items.           *)
TakeFreeKept(s) == /\ ~FindMember(s)
                   /\ items # Size
                   /\ Len(log) < MaxLog
                   /\ Insert(Head(freeItems), s, list, tree)
                   /\ items' = items + 1
                   /\ UNCHANGED freeItems

(* lookup_push() with free items left takes the first of them.             *)
TakeFree(s) == /\ ~FindMember(s)
               /\ items # Size
               /\ Len(log) < MaxLog
               /\ Insert(Head(freeItems), s, list, tree)
               /\ freeItems' = Tail(freeItems)
               /\ items' = items + 1

Next == \E s \in Seqs : Refuse(s) \/ Recycle(s) \/ TakeFree(s)

Spec == Init /\ [][Next]_vars

-----------------------------------------------------------------------------

(* Every pool item is in exactly one of the two lists, exactly once, and   *)
(* the counter that decides between them agrees: no call ever finds the    *)
(* free list empty while the counter says that there is room.              *)
PoolPartition ==
  /\ items = Len(list)
  /\ Len(list) + Len(freeItems) = Size
  /\ \A j, k \in 1 .. Len(list) : j # k => list[j] # list[k]
  /\ \A j, k \in 1 .. Len(freeItems) : j # k => freeItems[j] # freeItems[k]
  /\ \A j \in 1 .. Len(list), k \in 1 .. Len(freeItems) : list[j] # freeItems[k]

(* The two views of the used items agree: the tree holds exactly those of  *)
(* the list, each under the number it has now, and no number twice, so     *)
(* that a search finds at most one item and the oldest can be deleted by   *)
(* its number.                                                             *)
TreeIsList ==
  /\ tree = {Node(seqOf[list[k]], list[k]) : k \in 1 .. Len(list)}
  /\ \A j, k \in 1 .. Len(list) : j # k => seqOf[list[j]] # seqOf[list[k]]

(* The filter remembers exactly the last accepted numbers, as many as the  *)
(* pool has room for, in the order in which they were accepted.            *)
WindowIsRecent ==
  /\ Len(list) = IF Len(log) < Size THEN Len(log) ELSE Size
  /\ \A k \in 1 .. Len(list) :
        seqOf[list[k]] = log[Len(log) - Len(list) + k]

(* A sequence number is accepted a second time only after `track` other    *)
(* numbers (README, "track"): equal accepted numbers are more than Size    *)
(* acceptances apart.                                                      *)
RepeatsFarApart ==
  \A i, j \in 1 .. Len(log) : i < j /\ log[i] = log[j] => j - i > Size

(* lookup_push() answers as the abstract filter does, no more and no fewer *)
(* refusals.                                                               *)
ImplementsDedup == Abstract!Spec
=============================================================================
