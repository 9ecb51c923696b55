------------------------------- MODULE RbWalks -------------------------------
(***************************************************************************)
(* The functions sglib.h generates for walking through a red-black tree,   *)
(* compared with the recursive definitions of the three orders on every    *)
(* tree that RbTree can grow.                                              *)
(***************************************************************************)
EXTENDS RbTree, Sequences, SequencesExt

CONSTANT MaxWalked \* bound: items in the trees that are walked through

(* The order is pre- (0), in- (1) or postorder (2).                        *)

(* SGLIB___BIN_TREE_MAP_ON_ELEMENTS: down to the left, then up to the next *)
(* node with a right subtree to go down.  `path` keeps of every node what  *)
(* is still to do, `out` the items the command was executed for.           *)
RECURSIVE Walk(_, _, _, _)
Walk(t, path, order, out) ==
  IF t # Nil
  THEN Walk(t.left, Append(path, [item |-> t.item, right |-> t.right, pass |-> 0]), order,
            IF order = 0 THEN Append(out, t.item) ELSE out)
  ELSE IF path = <<>> THEN out
  ELSE LET top  == Last(path)
           here == \/ order = 1 /\ top.pass = 0
                   \/ order = 2 /\ (top.pass = 1 \/ top.right = Nil)
           now  == IF here THEN Append(out, top.item) ELSE out
       IN  IF top.right = Nil THEN Walk(Nil, Front(path), order, now)
           ELSE Walk(top.right, Append(Front(path), [top EXCEPT !.right = Nil, !.pass = @ + 1]),
                     order, now)

(* sglib_lookup_item_t_len().                                              *)
TreeLen(t) == Len(Walk(t, <<>>, 1, <<>>))

(* An iterator: the path to where it is, how often it has passed each node *)
(* of it, and the node it stands on; with `some`, it keeps to the items a  *)
(* second comparator calls equal, those in lo .. hi.  Mutant of Choice: it *)
(* does so at the start only.                                              *)
ChoiceAny(it, t) == IF it.some /\ it.path = <<>> THEN Find(t, it.lo, it.hi) ELSE t

Choice(it, t) == IF it.some THEN Find(t, it.lo, it.hi) ELSE t

(* compute_current_elem()                                                  *)
RECURSIVE Onward(_)
Onward(it) ==
  IF it.path = <<>> \/ it.current # Nil THEN it
  ELSE LET i    == Len(it.path)
           down == Choice(it, IF it.pass[i] = 0 THEN it.path[i].left ELSE it.path[i].right)
           step == IF it.pass[i] >= 2
                   THEN [it EXCEPT !.path = Front(@), !.pass = Front(@)]
                   ELSE [it EXCEPT !.path = IF down = Nil THEN @ ELSE Append(@, down),
                                   !.pass = [@ EXCEPT ![i] = @ + 1] \o IF down = Nil THEN <<>> ELSE <<0>>]
       IN  Onward(IF step.path # <<>> /\ Last(step.pass) = it.order
                  THEN [step EXCEPT !.current = Last(step.path)] ELSE step)

(* it_init(), it_init_preorder(), it_init_inorder(), it_init_on_equal()    *)
ItInit(t, order, some, lo, hi) ==
  LET it  == [path |-> <<>>, pass |-> <<>>, order |-> order, current |-> Nil,
              some |-> some, lo |-> lo, hi |-> hi]
      top == Choice(it, t)
  IN  IF top = Nil THEN it
      ELSE Onward([it EXCEPT !.path = <<top>>, !.pass = <<0>>,
                             !.current = IF order = 0 THEN top ELSE Nil])

(* it_current() and it_next() until there is no current item.              *)
RECURSIVE Iterated(_)
Iterated(it) == IF it.current = Nil THEN <<>>
                ELSE <<it.current.item>> \o Iterated(Onward([it EXCEPT !.current = Nil]))

-----------------------------------------------------------------------------

RECURSIVE PreOrder(_), InOrder(_), PostOrder(_)
PreOrder(t)  == IF t = Nil THEN <<>> ELSE <<t.item>> \o PreOrder(t.left) \o PreOrder(t.right)
InOrder(t)   == IF t = Nil THEN <<>> ELSE InOrder(t.left) \o <<t.item>> \o InOrder(t.right)
PostOrder(t) == IF t = Nil THEN <<>> ELSE PostOrder(t.left) \o PostOrder(t.right) \o <<t.item>>

(* However a tree came about, walking through it, by the macro or by an    *)
(* iterator that is advanced step by step, meets every item once and in    *)
(* the order that was asked for; an iterator on equal items meets those,   *)
(* and all of them, wherever in the tree they are; and len() counts right. *)
TraversalsExact ==
  count <= MaxWalked =>
    /\ \A order \in 0 .. 2 :
         LET wanted == CASE order = 0 -> PreOrder(root)
                         [] order = 1 -> InOrder(root)
                         [] order = 2 -> PostOrder(root)
         IN  /\ Walk(root, <<>>, order, <<>>) = wanted
             /\ Iterated(ItInit(root, order, FALSE, 0, 0)) = wanted
    /\ \A lo, hi \in 1 .. 2 * count + 1 :
         Iterated(ItInit(root, 1, TRUE, lo, hi)) =
           SelectSeq(InOrder(root), LAMBDA i : lo <= i /\ i <= hi)
    /\ TreeLen(root) = count
=============================================================================
