------------------------------- MODULE RbTree -------------------------------
(***************************************************************************)
(* The red-black tree that sglib.h generates for the duplicate filter.     *)
(* lookup_push() calls add, delete and find_member; the other generated    *)
(* functions search, add and delete conditionally and walk through a tree. *)
(* A tree is a value: a node holds its item, its colour and its subtrees,  *)
(* and what the C code assigns through `type **tree` is the result.  The   *)
(* macros that exist in a left and a right version take the field they     *)
(* call leftt as the parameter `l`.                                        *)
(*                                                                         *)
(* The code does nothing with items but compare them, by sequence number   *)
(* and between equals by address.  An item is therefore modelled by its    *)
(* place among those in the tree: the k-th smallest is 2k, numbers that no *)
(* item carries are odd, and when an item comes or goes the larger ones    *)
(* move up or down by two.                                                 *)
(*                                                                         *)
(* `count` and `asserted` are history: how many items the tree should      *)
(* hold, and whether every assert() the calls came across held.            *)
(***************************************************************************)
EXTENDS Integers

CONSTANT MaxItems \* bound: items in the tree, pool_size at most

ASSUME MaxAssumption == MaxItems \in Nat

VARIABLES root, count, asserted

treeVars == <<root, count, asserted>>

Nil == [nil |-> TRUE]

(* Nodes of some colours over some subtrees, the trees of a height of at   *)
(* most n, and the trees among which are all red-black trees of n items:   *)
(* one with h black nodes on every path has a height of at most 2h.        *)
Nodes(reds, below) == [item : Int, red : reds, left : below, right : below]

UpTo[n \in 0 .. 2 * MaxItems] == IF n = 0 THEN {Nil} ELSE {Nil} \cup Nodes(BOOLEAN, UpTo[n - 1])

Trees(n) == UpTo[2 * n]

Other(side) == IF side = "left" THEN "right" ELSE "left"

IsRed(t)   == t # Nil /\ t.red
IsBlack(t) == t # Nil /\ ~t.red

-----------------------------------------------------------------------------
(* Insertion                                                               *)

(* A red node t[l] with a red child under the black t: colours move up, or *)
(* the subtree is rotated.                                                 *)
FixInsertion(t, l) ==
  LET r  == Other(l)
      tl == t[l]
      c  == tl[r]
  IN  CASE IsRed(tl) /\ IsRed(t[r]) /\ (IsRed(tl[l]) \/ IsRed(c)) ->
             [t EXCEPT ![l].red = FALSE, ![r].red = FALSE, !.red = TRUE]
        [] IsRed(tl) /\ ~IsRed(t[r]) /\ IsRed(tl[l]) ->
             [tl EXCEPT ![r] = [t EXCEPT ![l] = c, !.red = TRUE], !.red = FALSE]
        [] IsRed(tl) /\ ~IsRed(t[r]) /\ ~IsRed(tl[l]) /\ IsRed(c) ->
             [c EXCEPT ![l] = [tl EXCEPT ![r] = c[l]],
                       ![r] = [t EXCEPT ![l] = c[r], !.red = TRUE], !.red = FALSE]
        [] OTHER -> t

AddRecursive(tree, e) ==
  LET Added[t \in Trees(MaxItems)] ==
        IF t = Nil THEN [item |-> e, red |-> TRUE, left |-> Nil, right |-> Nil]
        ELSE LET l == IF e < t.item THEN "left" ELSE "right"
                 n == [t EXCEPT ![l] = Added[t[l]]]
             IN  IF t.red THEN n ELSE FixInsertion(n, l)
  IN  Added[tree]

(* Mutant of AddTo: the colour the insertion left at the root stays.       *)
AddToAnyRoot(t, e) == AddRecursive(t, e)

(* sglib_lookup_item_t_add(): the root is black again afterwards.          *)
AddTo(t, e) == [AddRecursive(t, e) EXCEPT !.red = FALSE]

-----------------------------------------------------------------------------
(* Deletion.  The functions return the tree, whether its black depth       *)
(* decreased, and whether the assertions on the way held.                  *)

Result(t, shrunk, ok) == [tree |-> t, shrunk |-> shrunk, ok |-> ok]

(* The rotations of the deletion: t[l] becomes the root of the subtree, or *)
(* its child c on the other side, or c's child d on that side.             *)
Rotate1(t, l) ==
  LET b == t[l] IN [b EXCEPT ![Other(l)] = [t EXCEPT ![l] = b[Other(l)]]]

Rotate2(t, l) ==
  LET r == Other(l)
      b == t[l]
      c == b[r]
  IN  [c EXCEPT ![l] = [b EXCEPT ![r] = c[l]], ![r] = [t EXCEPT ![l] = c[r]]]

(* Mutant of Rotate3: d stays under c, which gets none of d's subtrees.    *)
Rotate3Kept(t, l) ==
  LET r == Other(l)
      b == t[l]
      d == b[r][r]
  IN  [d EXCEPT ![l] = b, ![r] = [t EXCEPT ![l] = d[r]]]

Rotate3(t, l) ==
  LET r == Other(l)
      b == t[l]
      d == b[r][r]
  IN  [d EXCEPT ![l] = [b EXCEPT ![r][r] = d[l]], ![r] = [t EXCEPT ![l] = d[r]]]

(* The sibling b = t[l] of the side that lost a black node is red.         *)
FixRedSibling(t, l) ==
  LET r  == Other(l)
      b  == t[l]
      c  == b[r]
      up == Rotate1(t, l)
  IN  CASE c = Nil -> Result([up EXCEPT !.red = FALSE], FALSE, TRUE)
        [] c # Nil /\ ~IsRed(c[l]) /\ ~IsRed(c[r]) ->
             Result([up EXCEPT !.red = FALSE, ![r][l].red = TRUE], FALSE, ~c.red)
        [] c # Nil /\ IsRed(c[r]) ->
             Result([Rotate3(t, l) EXCEPT !.red = FALSE], FALSE, ~c.red)
        [] c # Nil /\ IsRed(c[l]) /\ ~IsRed(c[r]) ->
             Result([Rotate2(t, l) EXCEPT ![l][r].red = FALSE], FALSE, ~c.red)

(* The sibling is black.                                                   *)
FixBlackSibling(t, l) ==
  LET r == Other(l)
      b == t[l]
  IN  CASE ~IsRed(b[l]) /\ ~IsRed(b[r]) ->
             Result([t EXCEPT !.red = FALSE, ![l].red = TRUE], ~t.red, TRUE)
        [] IsRed(b[l]) /\ ~IsRed(b[r]) ->
             Result([Rotate1(t, l) EXCEPT !.red = t.red, ![r].red = FALSE, ![l].red = FALSE],
                    FALSE, TRUE)
        [] IsRed(b[r]) ->
             Result([Rotate2(t, l) EXCEPT !.red = t.red, ![r].red = FALSE], FALSE, TRUE)

FixDeletion(t, l) == CASE t[l] = Nil -> Result([t EXCEPT !.red = FALSE], FALSE, t.red)
                       [] IsRed(t[l])   -> FixRedSibling(t, l)
                       [] IsBlack(t[l]) -> FixBlackSibling(t, l)

(* Mutant of Deepen: the wrong side is taken for the sibling.              *)
DeepenSameSide(t, side, below) ==
  LET n == [t EXCEPT ![side] = below.tree]
  IN  IF below.shrunk
      THEN LET f == FixDeletion(n, side) IN [f EXCEPT !.ok = @ /\ below.ok]
      ELSE Result(n, FALSE, below.ok)

(* The subtree `below` takes the place of t[side]; if it got less deep the *)
(* other side is the sibling.                                              *)
Deepen(t, side, below) ==
  LET n == [t EXCEPT ![side] = below.tree]
  IN  IF below.shrunk
      THEN LET f == FixDeletion(n, Other(side)) IN [f EXCEPT !.ok = @ /\ below.ok]
      ELSE Result(n, FALSE, below.ok)

Blacken(t) == IF t = Nil THEN t ELSE [t EXCEPT !.red = FALSE]

(* The node's only subtree takes its place.                                *)
Replaced(t, by) == Result(Blacken(by), ~t.red /\ ~IsRed(by), TRUE)

DeleteRightmostLeaf(tree) ==
  LET Deleted[t \in Trees(MaxItems) \ {Nil}] ==
        IF t.right = Nil THEN Replaced(t, t.left) ELSE Deepen(t, "right", Deleted[t.right])
  IN  Deleted[tree]

Rightmost(tree) ==
  LET Found[t \in Trees(MaxItems) \ {Nil}] ==
        IF t.right = Nil THEN t.item ELSE Found[t.right]
  IN  Found[tree]

(* The item at the root is deleted: the next smaller one replaces it.     *)
DeleteRoot(t) ==
  IF t.left = Nil THEN Replaced(t, t.right)
  ELSE Deepen([t EXCEPT !.item = Rightmost(t.left)], "left", DeleteRightmostLeaf(t.left))

DeleteRecursive(tree, e) ==
  LET Deleted[t \in Trees(MaxItems)] ==
        IF t = Nil THEN Result(t, FALSE, FALSE)
        ELSE IF t.item = e THEN DeleteRoot(t)
        ELSE LET side == IF e < t.item THEN "left" ELSE "right"
             IN  Deepen(t, side, Deleted[t[side]])
  IN  Deleted[tree]

-----------------------------------------------------------------------------

(* Mutant of Find: the tree is searched as if larger numbers were left.    *)
FindMirrored(tree, lo, hi) ==
  LET Found[t \in Trees(MaxItems)] ==
        CASE t = Nil -> Nil
          [] t # Nil /\ hi < t.item -> Found[t.right]
          [] t # Nil /\ lo > t.item -> Found[t.left]
          [] OTHER -> t
  IN  Found[tree]

(* The topmost node the comparator calls equal, which is one with an item  *)
(* in lo .. hi: a single number for sglib_lookup_item_t_find_member().     *)
Find(tree, lo, hi) ==
  LET Found[t \in Trees(MaxItems)] ==
        IF t = Nil THEN Nil
        ELSE IF hi < t.item THEN Found[t.left]
        ELSE IF lo > t.item THEN Found[t.right]
        ELSE t
  IN  Found[tree]

(* sglib_lookup_item_t_is_member().                                        *)
IsMember(t, e) == Find(t, e, e) # Nil

(* The items from i on move by n to make room or to close a gap.           *)
Shift(tree, i, n) ==
  LET Shifted[t \in Trees(MaxItems)] ==
        IF t = Nil THEN t
        ELSE [t EXCEPT !.item = IF @ >= i THEN @ + n ELSE @,
                       !.left = Shifted[t.left], !.right = Shifted[t.right]]
  IN  Shifted[tree]

EmptyTree == root = Nil /\ count = 0 /\ asserted = TRUE

(* An item that is not in the tree is added, anywhere in the order.        *)
Add(k) == /\ k <= count + 1
          /\ count < MaxItems
          /\ root' = AddTo(Shift(root, 2 * k, 2), 2 * k)
          /\ count' = count + 1
          /\ UNCHANGED asserted

(* One that is in it is deleted.  The root is black again afterwards.      *)
Delete(k) == /\ k <= count
             /\ LET d == DeleteRecursive(root, 2 * k)
                IN  /\ root' = Shift(Blacken(d.tree), 2 * k, -2)
                    /\ asserted' = (asserted /\ d.ok)
             /\ count' = count - 1

(* add_if_not_member() and delete_if_member(); lookup_push() spells them   *)
(* out.  A number of no item lies between two of them.                     *)
AddIfNotMember(s) == IF Find(root, s, s) = Nil THEN Add((s + 1) \div 2) ELSE UNCHANGED treeVars

DeleteIfMember(s) == IF Find(root, s, s) # Nil THEN Delete(s \div 2) ELSE UNCHANGED treeVars

TreeNext == \E s \in 1 .. 2 * count + 1 : AddIfNotMember(s) \/ DeleteIfMember(s)

TreeSpec == EmptyTree /\ [][TreeNext]_treeVars

-----------------------------------------------------------------------------

(* The red-black trees with h black nodes on every path and a black root:  *)
(* under a black node may come red ones, under those black ones only.      *)
Black[h \in 0 .. MaxItems] == IF h = 0 THEN {Nil}
                    ELSE LET B == Black[h - 1]
                         IN  Nodes({FALSE}, B \cup Nodes({TRUE}, B))

(* The fewest items such a tree can hold, 2^h - 1.                         *)
Fewest[h \in 0 .. MaxItems] == IF h = 0 THEN 0 ELSE 2 * Fewest[h - 1] + 1

(* What sglib's own consistency check demands: a black root, no red node   *)
(* under a red one, the same number of black nodes on every path; and what *)
(* follows for the cost of a lookup, a height of at most 2 log2(n + 1).    *)
Balanced == \E h \in 0 .. count :
               root \in Black[h] /\ root \in UpTo[2 * h] /\ Fewest[h] <= count

(* The nodes of a tree, the items in it, and whether at every node those   *)
(* on the left are smaller and those on the right larger.                  *)
NodesOf(tree) ==
  LET Of[t \in Trees(MaxItems)] ==
        IF t = Nil THEN {} ELSE {t} \cup Of[t.left] \cup Of[t.right]
  IN  Of[tree]

ItemsOf(t) == {n.item : n \in NodesOf(t)}

Ordered(t) == \A n \in NodesOf(t) : /\ \A i \in ItemsOf(n.left) : i < n.item
                                    /\ \A i \in ItemsOf(n.right) : n.item < i

(* The tree holds exactly the items that were added and not deleted since, *)
(* in order, whatever was rotated or moved on the way.                     *)
HoldsMembers == Ordered(root) /\ ItemsOf(root) = {2 * k : k \in 1 .. count}

(* A search finds a number exactly when some item in the tree carries it.  *)
SearchExact == \A s \in 1 .. 2 * count + 1 :
                  LET n == Find(root, s, s)
                  IN  /\ IF s % 2 = 0 THEN n # Nil /\ n.item = s ELSE n = Nil
                      /\ IsMember(root, s) <=> s % 2 = 0

(* No assert() in the deletion ever fails (sglib.h, "The element to delete *)
(* not found in the tree" and the colours the fixing rules rely on).       *)
AssertionsHold == asserted
=============================================================================
