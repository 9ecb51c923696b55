---------------------------- MODULE FilterProofs ----------------------------
(***************************************************************************)
(* Proofs about the duplicate filter.  First seen_lookup.c, for every pool *)
(* size and every set of sequence numbers: the pool, the list and the tree *)
(* agree, and the filter implements Dedup.  This takes the tree for a set  *)
(* in which a number is looked up.  The second part shows, for trees of    *)
(* any size, that the red-black tree of sglib.h is such a set: it holds    *)
(* what was added and not deleted since, a search is exact, it is always   *)
(* balanced, and no assertion in it fails.                                 *)
(***************************************************************************)
EXTENDS SeenLookup, RbTree, SequenceLemmas, TLAPS


(* The inductive invariant.                                                *)
IInv == TypeOK /\ PoolPartition /\ TreeIsList /\ WindowIsRecent

(* What lookup_push() has in hand just before it inserts `item` for s:     *)
(* `rest` and `nodes` are list and tree without the item.                  *)
Prepared(item, s, rest, nodes) ==
  /\ item \in Pool /\ s \in Seqs /\ rest \in Seq(Pool)
  /\ \A k \in 1 .. Len(rest) : rest[k] # item
  /\ \A j, k \in 1 .. Len(rest) : j # k => rest[j] # rest[k]
  /\ nodes = {Node(seqOf[rest[k]], rest[k]) : k \in 1 .. Len(rest)}
  /\ \A k \in 1 .. Len(rest) : seqOf[rest[k]] # s
  /\ \A j, k \in 1 .. Len(rest) : j # k => seqOf[rest[j]] # seqOf[rest[k]]
  /\ Len(rest) <= Len(log)
  /\ \A k \in 1 .. Len(rest) : seqOf[rest[k]] = log[Len(log) - Len(rest) + k]

-----------------------------------------------------------------------------

(* new_lookup() establishes the invariant.                                 *)
LEMMA InitIInv == Init => IInv
<1> SUFFICES ASSUME Init PROVE IInv
  OBVIOUS
<1>1. /\ list = <<>> /\ list \in Seq(Pool) /\ Len(list) = 0
      /\ log = <<>> /\ log \in Seq(Seqs) /\ Len(log) = 0
  BY EmptySeq DEF Init
<1>2. freeItems \in Seq(Pool) /\ Len(freeItems) = Size
  <2>1. Size \in Nat /\ Pool = 1 .. Size
    BY SizeAssumption DEF Pool
  <2>2. freeItems \in [1 .. Size -> Pool]
    BY <2>1 DEF Init
  <2> QED BY <2>1, <2>2
<1>3. TypeOK
  <2>1. answer \in [seq : Seqs \cup {-1}, added : BOOLEAN]
    BY DEF Init, Abstract!NoAnswer
  <2> QED BY <1>1, <1>2, <2>1, SizeAssumption DEF Init, TypeOK
<1>4. PoolPartition
  BY <1>1, <1>2, SizeAssumption DEF Init, PoolPartition, Pool
<1>5. TreeIsList
  BY <1>1 DEF Init, TreeIsList
<1>6. WindowIsRecent
  BY <1>1, SizeAssumption DEF WindowIsRecent
<1> QED BY <1>3, <1>4, <1>5, <1>6 DEF IInv

(* The number of used items and of accepted numbers are numbers.           *)
LEMMA Lengths ==
  ASSUME IInv
  PROVE  /\ Len(list) \in Nat /\ Len(log) \in Nat /\ Len(freeItems) \in Nat
         /\ Len(list) <= Len(log) /\ Len(list) <= Size
         /\ \A k \in 1 .. Len(list) : list[k] \in Pool /\ seqOf[list[k]] \in Seqs \cup {0}
<1>1. list \in Seq(Pool) /\ log \in Seq(Seqs) /\ freeItems \in Seq(Pool) /\ seqOf \in [Pool -> Seqs \cup {0}]
  BY DEF IInv, TypeOK
<1>2. Len(list) = IF Len(log) < Size THEN Len(log) ELSE Size
  BY DEF IInv, WindowIsRecent
<1>3. \A k \in 1 .. Len(list) : list[k] \in Pool
  BY <1>1, ElementOfSeq
<1> QED BY <1>1, <1>2, <1>3, LenProperties, SizeAssumption

(* A search finds a number exactly when it is in the window.               *)
LEMMA FindMemberIsWindow ==
  ASSUME IInv, NEW s
  PROVE  FindMember(s) <=> \E k \in 1 .. Len(list) : seqOf[list[k]] = s
<1>1. tree = {Node(seqOf[list[k]], list[k]) : k \in 1 .. Len(list)}
  BY DEF IInv, TreeIsList
<1>2. \A k \in 1 .. Len(list) : Node(seqOf[list[k]], list[k]).key = seqOf[list[k]]
  BY DEF Node
<1> QED BY <1>1, <1>2 DEF FindMember

(* The window is what the abstract filter calls recent.                    *)
LEMMA FindMemberIsRecent ==
  ASSUME IInv, NEW s
  PROVE  FindMember(s) <=> s \in Abstract!Recent
<1> DEFINE L == Len(list)
           M == Len(log)
<1>1. L \in Nat /\ M \in Nat /\ L = IF M < Size THEN M ELSE Size
  BY Lengths DEF IInv, WindowIsRecent
<1>2. \A k \in 1 .. L : seqOf[list[k]] = log[M - L + k]
  BY DEF IInv, WindowIsRecent
<1>3. Abstract!Recent = {log[i] : i \in {j \in 1 .. M : j > M - Size}}
  BY DEF Abstract!Recent
<1>4. FindMember(s) <=> \E k \in 1 .. L : seqOf[list[k]] = s
  BY FindMemberIsWindow
<1> HIDE DEF L, M
<1>5. \A k \in 1 .. L : M - L + k \in {j \in 1 .. M : j > M - Size}
  BY <1>1, SizeAssumption
<1>6. \A i \in {j \in 1 .. M : j > M - Size} : i - (M - L) \in 1 .. L /\ M - L + (i - (M - L)) = i
  BY <1>1, SizeAssumption
<1> QED BY <1>2, <1>3, <1>4, <1>5, <1>6

-----------------------------------------------------------------------------

(* A number that is not found and a full pool: the oldest item is free to  *)
(* be reused.                                                              *)
LEMMA RecyclePrepares ==
  ASSUME IInv, NEW s \in Seqs, Recycle(s)
  PROVE  /\ Prepared(Head(list), s, Tail(list),
                     tree \ {Node(seqOf[Head(list)], Head(list))})
         /\ Len(Tail(list)) = Size - 1
         /\ Len(list) = Size
         /\ \A k \in 1 .. Len(freeItems) : freeItems[k] # Head(list)
         /\ \A j \in 1 .. Len(Tail(list)), k \in 1 .. Len(freeItems) :
               Tail(list)[j] # freeItems[k]
<1> DEFINE item == Head(list)
           rest == Tail(list)
           L == Len(list)
<1>1. L = Size /\ L >= 1 /\ L \in Nat /\ ~FindMember(s) /\ L <= Len(log) /\ Len(log) \in Nat
  BY Lengths, SizeAssumption DEF Recycle, IInv, PoolPartition
<1>2. list \in Seq(Pool) /\ list # <<>>
  BY <1>1, EmptySeq DEF IInv, TypeOK
<1>3. /\ item = list[1] /\ item \in Pool /\ rest \in Seq(Pool)
      /\ Len(rest) = L - 1
      /\ \A k \in 1 .. L - 1 : rest[k] = list[k + 1]
  BY <1>2, HeadTailProperties
<1>4. /\ \A j, k \in 1 .. L : j # k => list[j] # list[k]
      /\ \A j \in 1 .. L, k \in 1 .. Len(freeItems) : list[j] # freeItems[k]
  BY DEF IInv, PoolPartition
<1>5. /\ tree = {Node(seqOf[list[k]], list[k]) : k \in 1 .. L}
      /\ \A j, k \in 1 .. L : j # k => seqOf[list[j]] # seqOf[list[k]]
  BY DEF IInv, TreeIsList
<1>6. \A k \in 1 .. L : seqOf[list[k]] # s
  BY <1>1, FindMemberIsWindow
<1>7. \A k \in 1 .. L : seqOf[list[k]] = log[Len(log) - L + k]
  BY DEF IInv, WindowIsRecent
<1> HIDE DEF item, rest, L
<1>8. \A k \in 1 .. L - 1 : k + 1 \in 1 .. L /\ k + 1 # 1 /\ 1 \in 1 .. L
  BY <1>1
<1>9. \A k \in 1 .. Len(rest) : rest[k] # item
  BY <1>3, <1>4, <1>8
<1>10. \A j, k \in 1 .. Len(rest) : j # k => rest[j] # rest[k]
  <2> SUFFICES ASSUME NEW j \in 1 .. L - 1, NEW k \in 1 .. L - 1, j # k
               PROVE  rest[j] # rest[k]
    BY <1>3
  <2>1. j + 1 # k + 1
    BY <1>1
  <2> QED BY <1>3, <1>4, <1>8, <2>1
<1>11. tree \ {Node(seqOf[item], item)} = {Node(seqOf[rest[k]], rest[k]) : k \in 1 .. Len(rest)}
  <2>1. \A k \in 1 .. L : k = 1 \/ (k - 1 \in 1 .. L - 1 /\ (k - 1) + 1 = k)
    BY <1>1
  <2>2. \A k \in 1 .. L - 1 : rest[k] # item
    BY <1>3, <1>9
  <2>3. \A n : n \in tree <=>
           \/ n = Node(seqOf[item], item)
           \/ \E k \in 1 .. L - 1 : n = Node(seqOf[rest[k]], rest[k])
    <3> SUFFICES ASSUME NEW n
                 PROVE  (\E k \in 1 .. L : n = Node(seqOf[list[k]], list[k])) <=>
                          \/ n = Node(seqOf[item], item)
                          \/ \E k \in 1 .. L - 1 : n = Node(seqOf[rest[k]], rest[k])
      BY <1>5
    <3>1. ASSUME NEW k \in 1 .. L, n = Node(seqOf[list[k]], list[k]), k # 1
          PROVE  \E j \in 1 .. L - 1 : n = Node(seqOf[rest[j]], rest[j])
      <4>1. k - 1 \in 1 .. L - 1 /\ (k - 1) + 1 = k
        BY <2>1, <3>1
      <4>2. rest[k - 1] = list[k]
        BY <1>3, <4>1
      <4> QED BY <3>1, <4>1, <4>2
    <3>2. ASSUME NEW k \in 1 .. L - 1, n = Node(seqOf[rest[k]], rest[k])
          PROVE  \E j \in 1 .. L : n = Node(seqOf[list[j]], list[j])
      BY <1>3, <1>8, <3>2
    <3>3. 1 \in 1 .. L
      BY <1>1
    <3> QED BY <1>3, <3>1, <3>2, <3>3
  <2>4. \A k \in 1 .. L - 1 : Node(seqOf[rest[k]], rest[k]) # Node(seqOf[item], item)
    BY <2>2 DEF Node
  <2> QED BY <1>3, <2>3, <2>4
<1>12. \A k \in 1 .. Len(rest) : seqOf[rest[k]] # s
  BY <1>3, <1>6, <1>8
<1>13. \A j, k \in 1 .. Len(rest) : j # k => seqOf[rest[j]] # seqOf[rest[k]]
  <2> SUFFICES ASSUME NEW j \in 1 .. L - 1, NEW k \in 1 .. L - 1, j # k
               PROVE  seqOf[rest[j]] # seqOf[rest[k]]
    BY <1>3
  <2>1. j + 1 # k + 1
    BY <1>1
  <2> QED BY <1>3, <1>5, <1>8, <2>1
<1>14. \A k \in 1 .. Len(rest) : seqOf[rest[k]] = log[Len(log) - Len(rest) + k]
  <2> SUFFICES ASSUME NEW k \in 1 .. L - 1
               PROVE  seqOf[rest[k]] = log[Len(log) - Len(rest) + k]
    BY <1>3
  <2>1. Len(log) - L + (k + 1) = Len(log) - Len(rest) + k
    BY <1>1, <1>3
  <2> QED BY <1>3, <1>7, <1>8, <2>1
<1>15. Len(rest) <= Len(log)
  BY <1>1, <1>3
<1>16. Prepared(item, s, rest, tree \ {Node(seqOf[item], item)})
  BY <1>3, <1>9, <1>10, <1>11, <1>12, <1>13, <1>14, <1>15 DEF Prepared
<1>17. /\ \A k \in 1 .. Len(freeItems) : freeItems[k] # item
       /\ \A j \in 1 .. Len(rest), k \in 1 .. Len(freeItems) : rest[j] # freeItems[k]
  BY <1>3, <1>4, <1>8, <1>1
<1> QED BY <1>1, <1>3, <1>16, <1>17 DEF item, rest, L

(* A number that is not found and room in the pool: there is a free item,  *)
(* and it is not in use.                                                   *)
LEMMA TakeFreePrepares ==
  ASSUME IInv, NEW s \in Seqs, TakeFree(s)
  PROVE  /\ Prepared(Head(freeItems), s, list, tree)
         /\ freeItems # <<>>
         /\ Len(list) < Size
<1>1. Len(list) < Size /\ Len(list) \in Nat /\ ~FindMember(s) /\ Len(list) <= Len(log)
  <2>1. Len(list) \in Nat /\ Len(list) <= Size /\ Len(list) <= Len(log)
    BY Lengths
  <2>2. Len(list) # Size /\ ~FindMember(s)
    BY DEF TakeFree, IInv, PoolPartition
  <2> QED BY <2>1, <2>2, SizeAssumption
<1>2. freeItems \in Seq(Pool) /\ Len(freeItems) >= 1 /\ Len(freeItems) \in Nat
  BY <1>1, LenProperties, SizeAssumption DEF IInv, TypeOK, PoolPartition
<1>3. freeItems # <<>>
  BY <1>2, EmptySeq
<1>4. Head(freeItems) = freeItems[1] /\ Head(freeItems) \in Pool
  BY <1>2, <1>3, HeadTailProperties
<1>5. \A k \in 1 .. Len(list) : list[k] # Head(freeItems)
  BY <1>2, <1>4 DEF IInv, PoolPartition
<1>6. \A k \in 1 .. Len(list) : seqOf[list[k]] # s
  BY <1>1, FindMemberIsWindow
<1>7. Prepared(Head(freeItems), s, list, tree)
  BY <1>1, <1>4, <1>5, <1>6
  DEF Prepared, IInv, TypeOK, PoolPartition, TreeIsList, WindowIsRecent
<1> QED BY <1>1, <1>3, <1>7

-----------------------------------------------------------------------------

(* Inserting a prepared item gives a list and a tree that agree and the    *)
(* window one number further.                                              *)
LEMMA InsertKeeps ==
  ASSUME IInv, NEW s, NEW item, NEW rest, NEW nodes,
         Prepared(item, s, rest, nodes), Insert(item, s, rest, nodes)
  PROVE  /\ seqOf' \in [Pool -> Seqs \cup {0}]
         /\ list' \in Seq(Pool) /\ Len(list') = Len(rest) + 1
         /\ log' \in Seq(Seqs) /\ Len(log') = Len(log) + 1
         /\ tree' \subseteq [key : Seqs \cup {0}, item : Pool]
         /\ answer' \in [seq : Seqs \cup {-1}, added : BOOLEAN]
         /\ \A k \in 1 .. Len(rest) : list'[k] = rest[k]
         /\ list'[Len(rest) + 1] = item
         /\ \A j, k \in 1 .. Len(list') : j # k => list'[j] # list'[k]
         /\ TreeIsList'
         /\ \A k \in 1 .. Len(list') : seqOf'[list'[k]] = log'[Len(log') - Len(list') + k]
<1> DEFINE R == Len(rest)
           M == Len(log)
<1>1. /\ item \in Pool /\ s \in Seqs /\ rest \in Seq(Pool) /\ R \in Nat /\ M \in Nat /\ R <= M
      /\ log \in Seq(Seqs) /\ seqOf \in [Pool -> Seqs \cup {0}]
  BY LenProperties DEF Prepared, IInv, TypeOK
<1>2. /\ seqOf' = [seqOf EXCEPT ![item] = s]
      /\ list' = Append(rest, item)
      /\ log' = Append(log, s)
      /\ tree' = nodes \cup {Node(s, item)}
      /\ answer' = [seq |-> s, added |-> TRUE]
  BY DEF Insert
<1>3. /\ list' \in Seq(Pool) /\ Len(list') = R + 1
      /\ \A k \in 1 .. R : list'[k] = rest[k]
      /\ list'[R + 1] = item
  BY <1>1, <1>2, AppendProperties
<1>4. /\ log' \in Seq(Seqs) /\ Len(log') = M + 1
      /\ \A k \in 1 .. M : log'[k] = log[k]
      /\ log'[M + 1] = s
  BY <1>1, <1>2, AppendProperties
<1>5. /\ \A k \in 1 .. R : rest[k] \in Pool /\ rest[k] # item
      /\ \A j, k \in 1 .. R : j # k => rest[j] # rest[k]
      /\ nodes = {Node(seqOf[rest[k]], rest[k]) : k \in 1 .. R}
      /\ \A k \in 1 .. R : seqOf[rest[k]] # s
      /\ \A j, k \in 1 .. R : j # k => seqOf[rest[j]] # seqOf[rest[k]]
      /\ \A k \in 1 .. R : seqOf[rest[k]] = log[M - R + k]
  BY ElementOfSeq DEF Prepared
<1> HIDE DEF R, M
<1>6. seqOf' \in [Pool -> Seqs \cup {0}]
  BY <1>1, <1>2
<1>7. /\ \A k \in 1 .. R : seqOf'[list'[k]] = seqOf[rest[k]]
      /\ seqOf'[list'[R + 1]] = s
  BY <1>1, <1>2, <1>3, <1>5
<1>8. \A k \in 1 .. R + 1 : k \in 1 .. R \/ k = R + 1
  BY <1>1
<1>9. \A j, k \in 1 .. R + 1 : j # k => list'[j] # list'[k]
  BY <1>3, <1>5, <1>8
<1>10. \A j, k \in 1 .. R + 1 : j # k => seqOf'[list'[j]] # seqOf'[list'[k]]
  BY <1>5, <1>7, <1>8
<1>11. tree' = {Node(seqOf'[list'[k]], list'[k]) : k \in 1 .. R + 1}
  <2>1. R + 1 \in 1 .. R + 1 /\ \A k \in 1 .. R : k \in 1 .. R + 1
    BY <1>1
  <2>2. \A k \in 1 .. R : Node(seqOf'[list'[k]], list'[k]) = Node(seqOf[rest[k]], rest[k])
    BY <1>3, <1>7
  <2>3. Node(seqOf'[list'[R + 1]], list'[R + 1]) = Node(s, item)
    BY <1>3, <1>7
  <2>4. ASSUME NEW n
        PROVE  n \in tree' <=> \E k \in 1 .. R + 1 : n = Node(seqOf'[list'[k]], list'[k])
    <3>1. n \in tree' <=> n \in nodes \/ n = Node(s, item)
      BY <1>2
    <3>2. n \in nodes <=> \E k \in 1 .. R : n = Node(seqOf[rest[k]], rest[k])
      BY <1>5
    <3>3. ASSUME NEW k \in 1 .. R + 1, n = Node(seqOf'[list'[k]], list'[k])
          PROVE  n \in tree'
      <4>1. CASE k \in 1 .. R
        BY <2>2, <3>1, <3>2, <3>3, <4>1
      <4>2. CASE k = R + 1
        BY <2>3, <3>1, <3>3, <4>2
      <4> QED BY <1>8, <4>1, <4>2
    <3>4. ASSUME n \in tree'
          PROVE  \E k \in 1 .. R + 1 : n = Node(seqOf'[list'[k]], list'[k])
      <4>1. CASE n \in nodes
        <5>1. PICK k \in 1 .. R : n = Node(seqOf[rest[k]], rest[k])
          BY <3>2, <4>1
        <5> QED BY <2>1, <2>2, <5>1
      <4>2. CASE n = Node(s, item)
        BY <2>1, <2>3, <4>2
      <4> QED BY <3>1, <3>4, <4>1, <4>2
    <3> QED BY <3>3, <3>4
  <2> QED BY <2>4
<1>12. tree' \subseteq [key : Seqs \cup {0}, item : Pool]
  <2>1. \A k \in 1 .. R + 1 : list'[k] \in Pool /\ seqOf'[list'[k]] \in Seqs \cup {0}
    BY <1>3, <1>6, ElementOfSeq
  <2> QED BY <1>11, <2>1 DEF Node
<1>13. \A k \in 1 .. R + 1 : seqOf'[list'[k]] = log'[M - R + k]
  <2> SUFFICES ASSUME NEW k \in 1 .. R + 1
               PROVE  seqOf'[list'[k]] = log'[M - R + k]
    OBVIOUS
  <2>1. CASE k \in 1 .. R
    <3>1. M - R + k \in 1 .. M
      BY <1>1, <2>1
    <3> QED BY <1>4, <1>5, <1>7, <2>1, <3>1
  <2>2. CASE k = R + 1
    <3>1. M - R + k = M + 1
      BY <1>1, <2>2
    <3> QED BY <1>4, <1>7, <2>2, <3>1
  <2> QED BY <1>8, <2>1, <2>2
<1>14. TreeIsList'
  BY <1>3, <1>10, <1>11 DEF TreeIsList, Node
<1>15. answer' \in [seq : Seqs \cup {-1}, added : BOOLEAN]
  BY <1>1, <1>2
<1>16. \A j, k \in 1 .. Len(list') : j # k => list'[j] # list'[k]
  <2>1. Len(list') = R + 1
    BY <1>3
  <2> QED BY <1>9, <2>1
<1>17. \A k \in 1 .. Len(list') : seqOf'[list'[k]] = log'[Len(log') - Len(list') + k]
  <2>1. Len(list') = R + 1 /\ Len(log') = M + 1
    BY <1>3, <1>4
  <2> SUFFICES ASSUME NEW k \in 1 .. Len(list')
               PROVE  seqOf'[list'[k]] = log'[Len(log') - Len(list') + k]
    OBVIOUS
  <2>2. k \in 1 .. R + 1
    BY <2>1
  <2>3. Len(log') - Len(list') + k = M - R + k
    BY <1>1, <2>1, <2>2
  <2> QED BY <1>13, <2>2, <2>3, Zenon
<1>18. /\ list' \in Seq(Pool) /\ Len(list') = Len(rest) + 1
       /\ \A k \in 1 .. Len(rest) : list'[k] = rest[k]
       /\ list'[Len(rest) + 1] = item
  BY <1>3 DEF R
<1>19. log' \in Seq(Seqs) /\ Len(log') = Len(log) + 1
  BY <1>4 DEF M
<1> QED BY <1>6, <1>12, <1>14, <1>15, <1>16, <1>17, <1>18, <1>19, Zenon

(* Recycling the oldest item keeps the invariant.                          *)
LEMMA RecycleKeeps ==
  ASSUME IInv, NEW s \in Seqs, Recycle(s)
  PROVE  IInv'
<1> DEFINE item == Head(list)
           rest == Tail(list)
           nodes == tree \ {Node(seqOf[item], item)}
<1>1. /\ Prepared(item, s, rest, nodes)
      /\ Len(rest) = Size - 1 /\ Len(list) = Size
      /\ \A k \in 1 .. Len(freeItems) : freeItems[k] # item
      /\ \A j \in 1 .. Len(rest), k \in 1 .. Len(freeItems) : rest[j] # freeItems[k]
  BY RecyclePrepares
<1>2. Insert(item, s, rest, nodes) /\ freeItems' = freeItems /\ items' = items
  BY DEF Recycle
<1> HIDE DEF item, rest, nodes
<1>3. /\ seqOf' \in [Pool -> Seqs \cup {0}]
      /\ list' \in Seq(Pool) /\ Len(list') = Len(rest) + 1
      /\ log' \in Seq(Seqs) /\ Len(log') = Len(log) + 1
      /\ tree' \subseteq [key : Seqs \cup {0}, item : Pool]
      /\ answer' \in [seq : Seqs \cup {-1}, added : BOOLEAN]
      /\ \A k \in 1 .. Len(rest) : list'[k] = rest[k]
      /\ list'[Len(rest) + 1] = item
      /\ \A j, k \in 1 .. Len(list') : j # k => list'[j] # list'[k]
      /\ TreeIsList'
      /\ \A k \in 1 .. Len(list') : seqOf'[list'[k]] = log'[Len(log') - Len(list') + k]
  BY <1>1, <1>2, InsertKeeps
<1>4. Len(list') = Size /\ Len(log) \in Nat /\ Len(list) <= Len(log) /\ Size \in Nat \ {0}
  BY <1>1, <1>3, Lengths, SizeAssumption
<1>5. TypeOK'
  BY <1>2, <1>3 DEF IInv, TypeOK
<1>6. PoolPartition'
  <2>1. items' = Len(list') /\ Len(list') + Len(freeItems') = Size
    BY <1>1, <1>2, <1>4 DEF IInv, PoolPartition
  <2>2. \A j \in 1 .. Len(list'), k \in 1 .. Len(freeItems') : list'[j] # freeItems'[k]
    <3>1. \A j \in 1 .. Len(list') : j \in 1 .. Len(rest) \/ j = Len(rest) + 1
      BY <1>1, <1>3, <1>4
    <3> SUFFICES ASSUME NEW j \in 1 .. Len(list'), NEW k \in 1 .. Len(freeItems)
                 PROVE  list'[j] # freeItems[k]
      BY <1>2
    <3>2. CASE j \in 1 .. Len(rest)
      BY <1>1, <1>3, <3>2
    <3>3. CASE j = Len(rest) + 1
      BY <1>1, <1>3, <3>3
    <3> QED BY <3>1, <3>2, <3>3
  <2>3. \A j, k \in 1 .. Len(freeItems') : j # k => freeItems'[j] # freeItems'[k]
    BY <1>2 DEF IInv, PoolPartition
  <2> QED BY <1>3, <2>1, <2>2, <2>3 DEF PoolPartition
<1>7. WindowIsRecent'
  <2>1. Len(log') >= Size
    BY <1>1, <1>3, <1>4
  <2> QED BY <1>3, <1>4, <2>1 DEF WindowIsRecent
<1> QED BY <1>3, <1>5, <1>6, <1>7 DEF IInv

(* Taking a free item keeps the invariant.                                 *)
LEMMA TakeFreeKeeps ==
  ASSUME IInv, NEW s \in Seqs, TakeFree(s)
  PROVE  IInv'
<1> DEFINE item == Head(freeItems)
<1>1. Prepared(item, s, list, tree) /\ freeItems # <<>> /\ Len(list) < Size
  BY TakeFreePrepares
<1>2. Insert(item, s, list, tree) /\ freeItems' = Tail(freeItems) /\ items' = items + 1
  BY DEF TakeFree
<1>3. /\ freeItems \in Seq(Pool) /\ item = freeItems[1]
      /\ Tail(freeItems) \in Seq(Pool) /\ Len(Tail(freeItems)) = Len(freeItems) - 1
      /\ \A k \in 1 .. Len(freeItems) - 1 : Tail(freeItems)[k] = freeItems[k + 1]
  BY <1>1, HeadTailProperties DEF IInv, TypeOK
<1> HIDE DEF item
<1>4. /\ seqOf' \in [Pool -> Seqs \cup {0}]
      /\ list' \in Seq(Pool) /\ Len(list') = Len(list) + 1
      /\ log' \in Seq(Seqs) /\ Len(log') = Len(log) + 1
      /\ tree' \subseteq [key : Seqs \cup {0}, item : Pool]
      /\ answer' \in [seq : Seqs \cup {-1}, added : BOOLEAN]
      /\ \A k \in 1 .. Len(list) : list'[k] = list[k]
      /\ list'[Len(list) + 1] = item
      /\ \A j, k \in 1 .. Len(list') : j # k => list'[j] # list'[k]
      /\ TreeIsList'
      /\ \A k \in 1 .. Len(list') : seqOf'[list'[k]] = log'[Len(log') - Len(list') + k]
  BY <1>1, <1>2, InsertKeeps
<1>5. /\ Len(list) \in Nat /\ Len(log) \in Nat /\ Len(freeItems) \in Nat /\ Size \in Nat \ {0}
      /\ items = Len(list) /\ Len(list) + Len(freeItems) = Size
  BY Lengths, SizeAssumption DEF IInv, PoolPartition
<1>6. TypeOK'
  <2>1. items' \in 0 .. Size
    BY <1>1, <1>2, <1>5
  <2> QED BY <1>2, <1>3, <1>4, <2>1 DEF TypeOK
<1>7. PoolPartition'
  <2>1. items' = Len(list') /\ Len(list') + Len(freeItems') = Size
    <3>1. Len(freeItems') = Len(freeItems) - 1
      BY <1>2, <1>3
    <3>2. Len(list') = Len(list) + 1
      BY <1>4
    <3> DEFINE a == Len(list)
               b == Len(freeItems)
    <3>3. /\ items' = a + 1 /\ Len(list') = a + 1 /\ Len(freeItems') = b - 1
          /\ a \in Nat /\ b \in Nat /\ a + b = Size
      BY <1>2, <1>5, <3>1, <3>2
    <3> HIDE DEF a, b
    <3> QED BY <3>3
  <2>2. /\ \A j, k \in 1 .. Len(freeItems) : j # k => freeItems[j] # freeItems[k]
        /\ \A j \in 1 .. Len(list), k \in 1 .. Len(freeItems) : list[j] # freeItems[k]
    BY DEF IInv, PoolPartition
  <2>3. /\ \A k \in 1 .. Len(freeItems') : k + 1 \in 1 .. Len(freeItems) /\ k + 1 # 1
        /\ \A k \in 1 .. Len(freeItems') : freeItems'[k] = freeItems[k + 1]
        /\ 1 \in 1 .. Len(freeItems)
    <3>1. Len(freeItems') = Len(freeItems) - 1 /\ freeItems' = Tail(freeItems)
      BY <1>2, <1>3
    <3> QED BY <1>1, <1>3, <1>5, <3>1
  <2>4. \A j, k \in 1 .. Len(freeItems') : j # k => freeItems'[j] # freeItems'[k]
    <3> SUFFICES ASSUME NEW j \in 1 .. Len(freeItems'), NEW k \in 1 .. Len(freeItems'), j # k
                 PROVE  freeItems'[j] # freeItems'[k]
      OBVIOUS
    <3>1. j + 1 # k + 1
      OBVIOUS
    <3> QED BY <2>2, <2>3, <3>1
  <2>5. \A j \in 1 .. Len(list'), k \in 1 .. Len(freeItems') : list'[j] # freeItems'[k]
    <3> SUFFICES ASSUME NEW j \in 1 .. Len(list'), NEW k \in 1 .. Len(freeItems')
                 PROVE  list'[j] # freeItems'[k]
      OBVIOUS
    <3>1. CASE j \in 1 .. Len(list)
      BY <1>4, <2>2, <2>3, <3>1
    <3>2. CASE j = Len(list) + 1
      BY <1>3, <1>4, <2>2, <2>3, <3>2
    <3> QED BY <1>4, <1>5, <3>1, <3>2
  <2> QED BY <1>4, <2>1, <2>4, <2>5 DEF PoolPartition
<1>8. WindowIsRecent'
  <2>1. Len(list) = Len(log) /\ Len(log) < Size
    BY <1>1, <1>5 DEF IInv, WindowIsRecent
  <2>2. Len(list') = IF Len(log') < Size THEN Len(log') ELSE Size
    BY <1>4, <1>5, <2>1
  <2> QED BY <1>4, <2>2 DEF WindowIsRecent
<1> QED BY <1>4, <1>6, <1>7, <1>8 DEF IInv

(* A refused number changes nothing but the answer.                        *)
LEMMA RefuseKeeps ==
  ASSUME IInv, NEW s \in Seqs, Refuse(s)
  PROVE  IInv'
<1>1. answer' \in [seq : Seqs \cup {-1}, added : BOOLEAN]
  BY DEF Refuse
<1>2. UNCHANGED <<seqOf, freeItems, list, tree, items, log>>
  BY DEF Refuse
<1>3. TypeOK'
  BY <1>1, <1>2 DEF IInv, TypeOK
<1>4. PoolPartition'
  BY <1>2 DEF IInv, PoolPartition
<1>5. TreeIsList' /\ WindowIsRecent'
  BY <1>2 DEF IInv, TreeIsList, WindowIsRecent, Node
<1> QED BY <1>3, <1>4, <1>5 DEF IInv

(* lookup_push() keeps it.                                                 *)
LEMMA NextIInv == IInv /\ [Next]_vars => IInv'
<1> SUFFICES ASSUME IInv, [Next]_vars PROVE IInv'
  OBVIOUS
<1>1. ASSUME NEW s \in Seqs, Refuse(s) PROVE IInv'
  BY <1>1, RefuseKeeps
<1>2. ASSUME NEW s \in Seqs, Recycle(s) PROVE IInv'
  BY <1>2, RecycleKeeps
<1>3. ASSUME NEW s \in Seqs, TakeFree(s) PROVE IInv'
  BY <1>3, TakeFreeKeeps
<1>4. CASE UNCHANGED vars
  <2>1. UNCHANGED <<seqOf, freeItems, list, tree, items, log, answer>>
    BY <1>4 DEF vars
  <2>2. TypeOK'
    BY <2>1 DEF IInv, TypeOK
  <2>3. PoolPartition'
    BY <2>1 DEF IInv, PoolPartition
  <2>4. TreeIsList' /\ WindowIsRecent'
    BY <2>1 DEF IInv, TreeIsList, WindowIsRecent, Node
  <2> QED BY <2>2, <2>3, <2>4 DEF IInv
<1> QED BY <1>1, <1>2, <1>3, <1>4 DEF Next

(* The invariant holds in every state.                                     *)
LEMMA Inductive == Spec => []IInv
<1> QED BY InitIInv, NextIInv, PTL DEF Spec

(* Type correctness of the filter, for every pool size.                    *)
THEOREM TypeCorrect == Spec => []TypeOK
<1>1. IInv => TypeOK
  BY DEF IInv
<1> QED BY <1>1, Inductive, PTL

(* No pool item is ever lost, used twice or both free and used.            *)
THEOREM PoolAlwaysPartitioned == Spec => []PoolPartition
<1>1. IInv => PoolPartition
  BY DEF IInv
<1> QED BY <1>1, Inductive, PTL

(* The list and the tree of used items never disagree.                     *)
THEOREM TreeAlwaysList == Spec => []TreeIsList
<1>1. IInv => TreeIsList
  BY DEF IInv
<1> QED BY <1>1, Inductive, PTL

(* The filter always remembers exactly the last accepted numbers.          *)
THEOREM WindowAlwaysRecent == Spec => []WindowIsRecent
<1>1. IInv => WindowIsRecent
  BY DEF IInv
<1> QED BY <1>1, Inductive, PTL

-----------------------------------------------------------------------------

(* A number is only inserted when it is none of the last Size accepted.    *)
LEMMA AcceptedIsNew ==
  ASSUME IInv, NEW s \in Seqs, Recycle(s) \/ TakeFree(s)
  PROVE  s \notin Abstract!Recent /\ log' = Append(log, s) /\ answer' = [seq |-> s, added |-> TRUE]
<1>1. ~FindMember(s) /\ log' = Append(log, s) /\ answer' = [seq |-> s, added |-> TRUE]
  BY DEF Recycle, TakeFree, Insert
<1> QED BY <1>1, FindMemberIsRecent

(* A sequence number is accepted again only after more than Size others.   *)
THEOREM RepeatsAlwaysFarApart == Spec => []RepeatsFarApart
<1>1. Init => RepeatsFarApart
  <2> SUFFICES ASSUME Init PROVE RepeatsFarApart
    OBVIOUS
  <2>1. Len(log) = 0
    BY EmptySeq DEF Init
  <2> QED BY <2>1 DEF RepeatsFarApart
<1>2. IInv /\ RepeatsFarApart /\ [Next]_vars => RepeatsFarApart'
  <2> SUFFICES ASSUME IInv, RepeatsFarApart, [Next]_vars PROVE RepeatsFarApart'
    OBVIOUS
  <2>1. log \in Seq(Seqs) /\ Len(log) \in Nat
    BY LenProperties DEF IInv, TypeOK
  <2>2. ASSUME NEW s \in Seqs, Recycle(s) \/ TakeFree(s)
        PROVE  RepeatsFarApart'
    <3>1. s \notin Abstract!Recent /\ log' = Append(log, s)
      BY <2>2, AcceptedIsNew
    <3>2. /\ Len(log') = Len(log) + 1
          /\ \A k \in 1 .. Len(log) : log'[k] = log[k]
          /\ log'[Len(log) + 1] = s
      BY <2>1, <3>1, AppendProperties
    <3>3. \A i \in 1 .. Len(log) : log[i] = s => Len(log) + 1 - i > Size
      <4> SUFFICES ASSUME NEW i \in 1 .. Len(log), log[i] = s
                   PROVE  ~(i > Len(log) - Size)
        BY <2>1, SizeAssumption
      <4> QED BY <3>1 DEF Abstract!Recent
    <3> SUFFICES ASSUME NEW i \in 1 .. Len(log'), NEW j \in 1 .. Len(log'), i < j,
                        log'[i] = log'[j]
                 PROVE  j - i > Size
      BY DEF RepeatsFarApart
    <3>4. i \in 1 .. Len(log)
      BY <2>1, <3>2
    <3>5. CASE j \in 1 .. Len(log)
      BY <3>2, <3>4, <3>5 DEF RepeatsFarApart
    <3>6. CASE j = Len(log) + 1
      BY <3>2, <3>3, <3>4, <3>6
    <3> QED BY <2>1, <3>2, <3>5, <3>6
  <2>3. CASE log' = log
    BY <2>3 DEF RepeatsFarApart
  <2>4. (\E s \in Seqs : Recycle(s) \/ TakeFree(s)) \/ log' = log
    BY DEF Next, Refuse, vars
  <2> QED BY <2>2, <2>3, <2>4
<1> QED BY <1>1, <1>2, Inductive, PTL DEF Spec

(* lookup_push() implements the abstract filter: every call is the step    *)
(* of Dedup that gives the same answer.                                    *)
THEOREM Implements == Spec => ImplementsDedup
<1>1. Init => Abstract!Init
  BY DEF Init, Abstract!Init
<1>2. IInv /\ [Next]_vars => [Abstract!Next]_(Abstract!vars)
  <2> SUFFICES ASSUME IInv, [Next]_vars
               PROVE  Abstract!Next \/ UNCHANGED <<log, answer>>
    BY DEF Abstract!vars
  <2>1. ASSUME NEW s \in Seqs, Refuse(s)
        PROVE  Abstract!Refuse(s)
    <3>1. FindMember(s) /\ answer' = [seq |-> s, added |-> FALSE] /\ log' = log
      BY <2>1 DEF Refuse
    <3> QED BY <3>1, FindMemberIsRecent DEF Abstract!Refuse
  <2>2. ASSUME NEW s \in Seqs, Recycle(s) \/ TakeFree(s)
        PROVE  Abstract!Accept(s)
    BY <2>2, AcceptedIsNew DEF Abstract!Accept
  <2> QED BY <2>1, <2>2 DEF Next, Abstract!Next, vars
<1> QED BY <1>1, <1>2, Inductive, PTL DEF Spec, Abstract!Spec, ImplementsDedup

-----------------------------------------------------------------------------
(* Nodes as values.  At(l, ...) is a node seen from its side l: first the  *)
(* subtree on that side, then the one on the other.  The colours have      *)
(* names, and an update an operator, so that the provers can match them.   *)

Red == TRUE
Blk == FALSE

Sides  == {"left", "right"}
Fields == {"item", "red", "left", "right"}

Tree(i, c, a, b)  == [item |-> i, red |-> c, left |-> a, right |-> b]
At(l, i, c, a, b) == IF l = "left" THEN Tree(i, c, a, b) ELSE Tree(i, c, b, a)
Put(t, k, x)      == [t EXCEPT ![k] = x]

(* A node is not the empty tree.                                           *)
LEMMA NotNil == ASSUME NEW i, NEW c, NEW a, NEW b PROVE Tree(i, c, a, b) # Nil
<1>1. DOMAIN Tree(i, c, a, b) = {"item", "red", "left", "right"}
  BY DEF Tree
<1>2. DOMAIN Nil = {"nil"}
  BY DEF Nil
<1> QED BY <1>1, <1>2

(* Nor is one seen from a side.                                            *)
LEMMA AtNotNil ==
  ASSUME NEW l, NEW i, NEW c, NEW a, NEW b PROVE At(l, i, c, a, b) # Nil
BY NotNil DEF At

(* The other side of the other side.                                       *)
LEMMA OtherSide ==
  ASSUME NEW l \in Sides
  PROVE  Other(l) \in Sides /\ Other(Other(l)) = l /\ Other(l) # l
BY DEF Other, Sides

(* A node seen from one side and from the other.                           *)
LEMMA Mirrored ==
  ASSUME NEW l \in Sides, NEW i, NEW c, NEW a, NEW b
  PROVE  At(Other(l), i, c, a, b) = At(l, i, c, b, a)
BY DEF At, Other, Sides

(* The fields of a node.                                                   *)
LEMMA AtFields ==
  ASSUME NEW l \in Sides, NEW i, NEW c, NEW a, NEW b
  PROVE  /\ At(l, i, c, a, b)[l] = a
         /\ At(l, i, c, a, b)[Other(l)] = b
         /\ At(l, i, c, a, b).item = i
         /\ At(l, i, c, a, b).red = c
         /\ DOMAIN At(l, i, c, a, b) = Fields
<1>1. CASE l = "left"
  BY <1>1 DEF At, Tree, Other, Fields
<1>2. CASE l = "right"
  BY <1>2 DEF At, Tree, Other, Fields
<1> QED BY <1>1, <1>2 DEF Sides

(* A record with the fields of a node is a node.                           *)
LEMMA FromFields ==
  ASSUME NEW u, u = [k \in Fields |-> u[k]]
  PROVE  u = Tree(u["item"], u["red"], u["left"], u["right"])
BY DEF Tree, Fields

(* What an update does to a node.                                          *)
LEMMA PutAt ==
  ASSUME NEW l \in Sides, NEW i, NEW c, NEW a, NEW b, NEW x
  PROVE  /\ Put(At(l, i, c, a, b), l, x) = At(l, i, c, x, b)
         /\ Put(At(l, i, c, a, b), Other(l), x) = At(l, i, c, a, x)
         /\ Put(At(l, i, c, a, b), "item", x) = At(l, x, c, a, b)
         /\ Put(At(l, i, c, a, b), "red", x) = At(l, i, x, a, b)
<1> DEFINE t == At(l, i, c, a, b)
           u(k) == [m \in Fields |-> IF m = k THEN x ELSE t[m]]
<1>0. DOMAIN t = Fields /\ t[l] = a /\ t[Other(l)] = b /\ t["item"] = i /\ t["red"] = c
  BY AtFields
<1>1. ASSUME NEW k \in Fields
      PROVE  Put(t, k, x) = u(k)
  <2> HIDE DEF t
  <2> QED BY <1>0, <1>1 DEF Put
<1>2. ASSUME NEW k \in Fields
      PROVE  u(k) = Tree(u(k)["item"], u(k)["red"], u(k)["left"], u(k)["right"])
  <2>1. u(k) = [m \in Fields |-> u(k)[m]]
    OBVIOUS
  <2> HIDE DEF u
  <2> QED BY <2>1, FromFields
<1>3. ASSUME NEW k \in Fields
      PROVE  Put(t, k, x) =
               Tree(IF k = "item" THEN x ELSE t["item"], IF k = "red" THEN x ELSE t["red"],
                    IF k = "left" THEN x ELSE t["left"], IF k = "right" THEN x ELSE t["right"])
  <2>1. Put(t, k, x) = u(k)
    BY <1>1
  <2> HIDE DEF t
  <2> QED BY <2>1, <1>2 DEF Fields, u
<1> HIDE DEF t, u
<1>4. /\ Put(t, "item", x) = Tree(x, c, t["left"], t["right"])
      /\ Put(t, "red", x) = Tree(i, x, t["left"], t["right"])
      /\ Put(t, "left", x) = Tree(i, c, x, t["right"])
      /\ Put(t, "right", x) = Tree(i, c, t["left"], x)
  BY <1>3, <1>0 DEF Fields
<1>5. CASE l = "left"
  <2>1. t["left"] = a /\ t["right"] = b
    BY <1>0, <1>5 DEF Other
  <2> QED BY <1>4, <1>5, <2>1 DEF At, Other, t
<1>6. CASE l = "right"
  <2>1. t["left"] = b /\ t["right"] = a
    BY <1>0, <1>6 DEF Other
  <2> QED BY <1>4, <1>6, <2>1 DEF At, Other, t
<1> QED BY <1>5, <1>6 DEF Sides

(* The colour of a node.                                                   *)
LEMMA Colours ==
  ASSUME NEW l \in Sides, NEW i, NEW a, NEW b
  PROVE  /\ IsRed(At(l, i, Red, a, b)) /\ ~IsBlack(At(l, i, Red, a, b))
         /\ IsBlack(At(l, i, Blk, a, b)) /\ ~IsRed(At(l, i, Blk, a, b))
<1>1. At(l, i, Red, a, b).red = Red /\ At(l, i, Blk, a, b).red = Blk
  BY AtFields
<1> QED BY <1>1, AtNotNil DEF IsRed, IsBlack, Red, Blk

(* The empty tree has no colour.                                           *)
LEMMA NilHasNone == ~IsRed(Nil) /\ ~IsBlack(Nil)
BY DEF IsRed, IsBlack

-----------------------------------------------------------------------------
(* The families of trees.                                                  *)

(* Induction over the numbers up to N.                                     *)
LEMMA UpToInduction ==
  ASSUME NEW N \in Nat, NEW Q, 0 \in Q, \A n \in 0 .. N - 1 : n \in Q => n + 1 \in Q
  PROVE  0 .. N \subseteq Q
<1> DEFINE bad == {n \in 0 .. N : n \notin Q}
<1> SUFFICES ASSUME bad # {} PROVE FALSE
  OBVIOUS
<1>1. PICK n \in bad : \A m \in bad : n <= m
  <2>1. bad \subseteq Nat
    OBVIOUS
  <2> HIDE DEF bad
  <2> QED BY <2>1, Least
<1>2. n # 0 /\ n \in 0 .. N /\ n \notin Q
  OBVIOUS
<1>3. n - 1 \in Q
  BY <1>1, <1>2
<1> QED BY <1>2, <1>3

(* The recursive definitions of UpTo, Black and Fewest define what they say.*)
LEMMA UpToDef ==
  /\ UpTo[0] = {Nil}
  /\ \A n \in 0 .. 2 * MaxItems - 1 : UpTo[n + 1] = {Nil} \cup Nodes(BOOLEAN, UpTo[n])
<1> DEFINE Def(f, n) == IF n = 0 THEN {Nil} ELSE {Nil} \cup Nodes(BOOLEAN, f[n - 1])
           N == 2 * MaxItems
           Q == {m \in Nat : \E f : f = [n \in 0 .. m |-> Def(f, n)]}
<1>0. N \in Nat
  BY MaxAssumption
<1>1. 0 \in Q
  <2> DEFINE f == [n \in 0 .. 0 |-> {Nil}]
  <2>1. f = [n \in 0 .. 0 |-> Def(f, n)]
    OBVIOUS
  <2> QED BY <2>1
<1>2. ASSUME NEW m \in 0 .. N - 1, m \in Q
      PROVE  m + 1 \in Q
  <2>1. PICK f : f = [n \in 0 .. m |-> Def(f, n)]
    BY <1>2
  <2> DEFINE g == [n \in 0 .. m + 1 |-> Def(f, n)]
  <2>2. \A n \in 0 .. m : g[n] = f[n]
    <3>1. \A n \in 0 .. m : n \in 0 .. m + 1
      OBVIOUS
    <3> HIDE DEF Def
    <3>2. \A n \in 0 .. m : f[n] = Def(f, n)
      BY <2>1
    <3> QED BY <3>1, <3>2
  <2>3. \A n \in 0 .. m + 1 : Def(f, n) = Def(g, n)
    <3> TAKE n \in 0 .. m + 1
    <3>1. n # 0 => n - 1 \in 0 .. m
      OBVIOUS
    <3> HIDE DEF g
    <3> QED BY <3>1, <2>2
  <2>4. g = [n \in 0 .. m + 1 |-> Def(g, n)]
    <3>1. g = [n \in 0 .. m + 1 |-> Def(f, n)]
      OBVIOUS
    <3> HIDE DEF g, Def
    <3> QED BY <3>1, <2>3
  <2>5. m + 1 \in Nat
    OBVIOUS
  <2> HIDE DEF g, Def
  <2> QED BY <2>4, <2>5
<1>3. N \in Q
  <2> HIDE DEF Q, N
  <2> QED BY <1>0, <1>1, <1>2, UpToInduction
<1>4. UpTo = [n \in 0 .. N |-> Def(UpTo, n)]
  <2>1. \E f : f = [n \in 0 .. N |-> Def(f, n)]
    BY <1>3
  <2>2. UpTo = CHOOSE f : f = [n \in 0 .. N |-> Def(f, n)]
    BY DEF UpTo
  <2> HIDE DEF Def, N
  <2> QED BY <2>1, <2>2
<1>5. \A n \in 0 .. N : UpTo[n] = Def(UpTo, n)
  <2> HIDE DEF Def, N
  <2> QED BY <1>4
<1>6. UpTo[0] = {Nil}
  <2>1. 0 \in 0 .. N /\ Def(UpTo, 0) = {Nil}
    BY <1>0
  <2> HIDE DEF Def, N
  <2> QED BY <1>5, <2>1
<1>7. ASSUME NEW n \in 0 .. N - 1
      PROVE  UpTo[n + 1] = {Nil} \cup Nodes(BOOLEAN, UpTo[n])
  <2>1. n + 1 \in 0 .. N /\ n + 1 # 0 /\ (n + 1) - 1 = n
    BY <1>0
  <2> QED BY <2>1, <1>5
<1> QED BY <1>6, <1>7

(* Likewise for Black.                                                     *)
Level(B) == Nodes({FALSE}, B \cup Nodes({TRUE}, B))

(* Its defining equation: a level of black nodes more.                     *)
LEMMA BlackDef ==
  /\ Black[0] = {Nil}
  /\ \A n \in 0 .. MaxItems - 1 : Black[n + 1] = Level(Black[n])
<1> DEFINE Def(f, n) == IF n = 0 THEN {Nil} ELSE Level(f[n - 1])
           N == MaxItems
           Q == {m \in Nat : \E f : f = [n \in 0 .. m |-> Def(f, n)]}
<1>0. N \in Nat
  BY MaxAssumption
<1>1. 0 \in Q
  <2> DEFINE f == [n \in 0 .. 0 |-> {Nil}]
  <2>1. f = [n \in 0 .. 0 |-> Def(f, n)]
    OBVIOUS
  <2> QED BY <2>1
<1>2. ASSUME NEW m \in 0 .. N - 1, m \in Q
      PROVE  m + 1 \in Q
  <2>1. PICK f : f = [n \in 0 .. m |-> Def(f, n)]
    BY <1>2
  <2> DEFINE g == [n \in 0 .. m + 1 |-> Def(f, n)]
  <2>2. \A n \in 0 .. m : g[n] = f[n]
    <3>1. \A n \in 0 .. m : n \in 0 .. m + 1
      OBVIOUS
    <3> HIDE DEF Def
    <3>2. \A n \in 0 .. m : f[n] = Def(f, n)
      BY <2>1
    <3> QED BY <3>1, <3>2
  <2>3. \A n \in 0 .. m + 1 : Def(f, n) = Def(g, n)
    <3> TAKE n \in 0 .. m + 1
    <3>1. n # 0 => n - 1 \in 0 .. m
      OBVIOUS
    <3> HIDE DEF g
    <3> QED BY <3>1, <2>2
  <2>4. g = [n \in 0 .. m + 1 |-> Def(g, n)]
    <3>1. g = [n \in 0 .. m + 1 |-> Def(f, n)]
      OBVIOUS
    <3> HIDE DEF g, Def
    <3> QED BY <3>1, <2>3
  <2>5. m + 1 \in Nat
    OBVIOUS
  <2> HIDE DEF g, Def
  <2> QED BY <2>4, <2>5
<1>3. N \in Q
  <2> HIDE DEF Q, N
  <2> QED BY <1>0, <1>1, <1>2, UpToInduction
<1>4. Black = [n \in 0 .. N |-> Def(Black, n)]
  <2>1. \E f : f = [n \in 0 .. N |-> Def(f, n)]
    BY <1>3
  <2>2. Black = CHOOSE f : f = [n \in 0 .. N |-> Def(f, n)]
    BY DEF Black, Level
  <2> HIDE DEF Def, N
  <2> QED BY <2>1, <2>2
<1>5. \A n \in 0 .. N : Black[n] = Def(Black, n)
  <2> HIDE DEF Def, N
  <2> QED BY <1>4
<1>6. Black[0] = {Nil}
  <2>1. 0 \in 0 .. N /\ Def(Black, 0) = {Nil}
    BY <1>0
  <2> HIDE DEF Def, N
  <2> QED BY <1>5, <2>1
<1>7. ASSUME NEW n \in 0 .. N - 1
      PROVE  Black[n + 1] = Level(Black[n])
  <2>1. n + 1 \in 0 .. N /\ n + 1 # 0 /\ (n + 1) - 1 = n
    BY <1>0
  <2> QED BY <2>1, <1>5
<1> QED BY <1>6, <1>7

(* And for Fewest.                                                         *)
LEMMA FewestDef ==
  /\ Fewest[0] = 0
  /\ \A n \in 0 .. MaxItems - 1 : Fewest[n + 1] = 2 * Fewest[n] + 1
<1> DEFINE Def(f, n) == IF n = 0 THEN 0 ELSE 2 * f[n - 1] + 1
           N == MaxItems
           Q == {m \in Nat : \E f : f = [n \in 0 .. m |-> Def(f, n)]}
<1>0. N \in Nat
  BY MaxAssumption
<1>1. 0 \in Q
  <2> DEFINE f == [n \in 0 .. 0 |-> 0]
  <2>1. f = [n \in 0 .. 0 |-> Def(f, n)]
    OBVIOUS
  <2> QED BY <2>1
<1>2. ASSUME NEW m \in 0 .. N - 1, m \in Q
      PROVE  m + 1 \in Q
  <2>1. PICK f : f = [n \in 0 .. m |-> Def(f, n)]
    BY <1>2
  <2> DEFINE g == [n \in 0 .. m + 1 |-> Def(f, n)]
  <2>2. \A n \in 0 .. m : g[n] = f[n]
    <3>1. \A n \in 0 .. m : n \in 0 .. m + 1
      OBVIOUS
    <3> HIDE DEF Def
    <3>2. \A n \in 0 .. m : f[n] = Def(f, n)
      BY <2>1
    <3> QED BY <3>1, <3>2
  <2>3. \A n \in 0 .. m + 1 : Def(f, n) = Def(g, n)
    <3> TAKE n \in 0 .. m + 1
    <3>1. n # 0 => n - 1 \in 0 .. m
      OBVIOUS
    <3> HIDE DEF g
    <3> QED BY <3>1, <2>2
  <2>4. g = [n \in 0 .. m + 1 |-> Def(g, n)]
    <3>1. g = [n \in 0 .. m + 1 |-> Def(f, n)]
      OBVIOUS
    <3> HIDE DEF g, Def
    <3> QED BY <3>1, <2>3
  <2>5. m + 1 \in Nat
    OBVIOUS
  <2> HIDE DEF g, Def
  <2> QED BY <2>4, <2>5
<1>3. N \in Q
  <2> HIDE DEF Q, N
  <2> QED BY <1>0, <1>1, <1>2, UpToInduction
<1>4. Fewest = [n \in 0 .. N |-> Def(Fewest, n)]
  <2>1. \E f : f = [n \in 0 .. N |-> Def(f, n)]
    BY <1>3
  <2>2. Fewest = CHOOSE f : f = [n \in 0 .. N |-> Def(f, n)]
    BY DEF Fewest
  <2> HIDE DEF Def, N
  <2> QED BY <2>1, <2>2
<1>5. \A n \in 0 .. N : Fewest[n] = Def(Fewest, n)
  <2> HIDE DEF Def, N
  <2> QED BY <1>4
<1>6. Fewest[0] = 0
  <2>1. 0 \in 0 .. N /\ Def(Fewest, 0) = 0
    BY <1>0
  <2> HIDE DEF Def, N
  <2> QED BY <1>5, <2>1
<1>7. ASSUME NEW n \in 0 .. N - 1
      PROVE  Fewest[n + 1] = 2 * Fewest[n] + 1
  <2>1. n + 1 \in 0 .. N /\ n + 1 # 0 /\ (n + 1) - 1 = n
    BY <1>0
  <2> QED BY <2>1, <1>5
<1> QED BY <1>6, <1>7

(* The families as the proofs use them: what a node in UpTo is, and that   *)
(* the heights are bounds.                                                 *)
LEMMA UpToNode ==
  ASSUME NEW n \in 0 .. 2 * MaxItems - 1, NEW t \in UpTo[n + 1], t # Nil
  PROVE  /\ t.left \in UpTo[n] /\ t.right \in UpTo[n]
         /\ t.item \in Int /\ t.red \in BOOLEAN
         /\ t = Tree(t.item, t.red, t.left, t.right)
<1>1. t \in Nodes(BOOLEAN, UpTo[n])
  BY UpToDef
<1> QED BY <1>1 DEF Nodes, Tree

(* A tree that is not too high for n is not too high for n + 1.            *)
LEMMA UpToGrows ==
  ASSUME NEW n \in 0 .. 2 * MaxItems - 1
  PROVE  UpTo[n] \subseteq UpTo[n + 1]
<1> DEFINE Q == {m \in Nat : m \in 0 .. n => UpTo[m] \subseteq UpTo[m + 1]}
<1>1. 0 \in Q
  <2>1. 0 \in 0 .. 2 * MaxItems - 1
    BY MaxAssumption
  <2>2. UpTo[0 + 1] = {Nil} \cup Nodes(BOOLEAN, UpTo[0])
    BY <2>1, UpToDef
  <2> QED BY <2>2, UpToDef
<1>2. ASSUME NEW m \in 0 .. n - 1, m \in Q
      PROVE  m + 1 \in Q
  <2>1. m \in 0 .. 2 * MaxItems - 1 /\ m + 1 \in 0 .. 2 * MaxItems - 1
    BY MaxAssumption
  <2>2. /\ UpTo[m + 1] = {Nil} \cup Nodes(BOOLEAN, UpTo[m])
        /\ UpTo[m + 1 + 1] = {Nil} \cup Nodes(BOOLEAN, UpTo[m + 1])
    BY <2>1, UpToDef
  <2>3. UpTo[m] \subseteq UpTo[m + 1]
    BY <1>2
  <2>4. Nodes(BOOLEAN, UpTo[m]) \subseteq Nodes(BOOLEAN, UpTo[m + 1])
    BY <2>3 DEF Nodes
  <2>5. UpTo[m + 1] \subseteq UpTo[m + 1 + 1]
    BY <2>2, <2>4
  <2>6. m + 1 \in Nat
    OBVIOUS
  <2> QED BY <2>5, <2>6
<1>3. n \in Q
  <2>1. n \in Nat
    OBVIOUS
  <2> HIDE DEF Q
  <2> QED BY <1>1, <1>2, <2>1, UpToInduction
<1> QED BY <1>3

(* Nor for any larger number.                                              *)
LEMMA UpToMonotone ==
  ASSUME NEW n \in 0 .. 2 * MaxItems, NEW m \in 0 .. n
  PROVE  UpTo[m] \subseteq UpTo[n]
<1> DEFINE Q == {k \in Nat : m + k \in 0 .. n => UpTo[m] \subseteq UpTo[m + k]}
<1>1. 0 \in Q
  OBVIOUS
<1>2. ASSUME NEW k \in 0 .. (n - m) - 1, k \in Q
      PROVE  k + 1 \in Q
  <2>1. m + k \in 0 .. 2 * MaxItems - 1 /\ m + k \in 0 .. n /\ m + (k + 1) = (m + k) + 1
    BY MaxAssumption
  <2>2. UpTo[m + k] \subseteq UpTo[(m + k) + 1]
    BY <2>1, UpToGrows
  <2> QED BY <1>2, <2>1, <2>2
<1>3. n - m \in Q
  <2>1. n - m \in Nat
    OBVIOUS
  <2> HIDE DEF Q
  <2> QED BY <1>1, <1>2, <2>1, UpToInduction
<1>4. m + (n - m) = n
  OBVIOUS
<1> QED BY <1>3, <1>4

All == Trees(MaxItems)

(* The subtrees of a tree are trees, and a tree is the node its fields     *)
(* make.                                                                   *)
LEMMA AllTrees ==
  /\ Nil \in All
  /\ \A t \in All \ {Nil} : /\ t.left \in All /\ t.right \in All
                            /\ t.item \in Int /\ t.red \in BOOLEAN
                            /\ t = Tree(t.item, t.red, t.left, t.right)
<1>1. CASE MaxItems = 0
  BY <1>1, UpToDef DEF All, Trees
<1>2. CASE MaxItems # 0
  <2> DEFINE n == 2 * MaxItems - 1
  <2>1. n \in 0 .. 2 * MaxItems - 1 /\ n + 1 = 2 * MaxItems
    BY <1>2, MaxAssumption
  <2>2. UpTo[n] \subseteq UpTo[n + 1]
    BY <2>1, UpToGrows
  <2>3. Nil \in UpTo[n + 1]
    BY <2>1, UpToDef
  <2>4. All = UpTo[n + 1]
    BY <2>1 DEF All, Trees
  <2> HIDE DEF n
  <2> QED BY <2>1, <2>2, <2>3, <2>4, UpToNode
<1> QED BY <1>1, <1>2

(* Induction over the trees.                                               *)
LEMMA TreeInduction ==
  ASSUME NEW P, Nil \in P,
         \A t \in All \ {Nil} : t.left \in P /\ t.right \in P => t \in P
  PROVE  All \subseteq P
<1> DEFINE Q == {n \in Nat : n \in 0 .. 2 * MaxItems => UpTo[n] \subseteq P}
           N == 2 * MaxItems
<1>0. N \in Nat
  BY MaxAssumption
<1>1. 0 \in Q
  BY UpToDef
<1>2. ASSUME NEW n \in 0 .. N - 1, n \in Q
      PROVE  n + 1 \in Q
  <2>1. UpTo[n] \subseteq P
    BY <1>2, <1>0
  <2>2. n + 1 \in 0 .. N /\ N \in 0 .. N
    BY <1>0
  <2>3. UpTo[n + 1] \subseteq All
    BY <2>2, UpToMonotone DEF All, Trees
  <2>4. ASSUME NEW t \in UpTo[n + 1], t # Nil
        PROVE  t \in P
    <3>1. t.left \in UpTo[n] /\ t.right \in UpTo[n]
      BY <2>4, UpToNode
    <3> QED BY <3>1, <2>1, <2>3, <2>4
  <2> QED BY <2>4, <1>2
<1>3. N \in Q
  <2> HIDE DEF Q, N
  <2> QED BY <1>0, <1>1, <1>2, UpToInduction
<1>4. N \in 0 .. N
  BY <1>0
<1> QED BY <1>3, <1>4 DEF All, Trees

(* The recursive functions satisfy their defining equations: the search,   *)
LEMMA FindDef ==
  ASSUME NEW lo, NEW hi
  PROVE  \A t \in All :
           Find(t, lo, hi) =
             IF t = Nil THEN Nil
             ELSE IF hi < t.item THEN Find(t.left, lo, hi)
             ELSE IF lo > t.item THEN Find(t.right, lo, hi)
             ELSE t
<1> DEFINE E(f, t) ==
             IF t = Nil THEN Nil
             ELSE IF hi < t.item THEN f[t.left]
             ELSE IF lo > t.item THEN f[t.right]
             ELSE t
           N == 2 * MaxItems
           Q == {n \in Nat : \E f : f = [t \in UpTo[n] |-> E(f, t)]}
<1>0. N \in Nat
  BY MaxAssumption
<1>1. 0 \in Q
  <2> DEFINE f == [t \in UpTo[0] |-> E(0, t)]
  <2>1. \A t \in UpTo[0] : E(0, t) = E(f, t)
    BY UpToDef
  <2>2. f = [t \in UpTo[0] |-> E(f, t)]
    <3>1. f = [t \in UpTo[0] |-> E(0, t)]
      OBVIOUS
    <3> HIDE DEF f, E
    <3> QED BY <2>1, <3>1
  <2> HIDE DEF f, E
  <2> QED BY <2>2
<1>2. ASSUME NEW n \in 0 .. N - 1, n \in Q
      PROVE  n + 1 \in Q
  <2>1. PICK f : f = [t \in UpTo[n] |-> E(f, t)]
    BY <1>2
  <2> DEFINE g == [t \in UpTo[n + 1] |-> E(f, t)]
  <2>2. \A t \in UpTo[n] : g[t] = f[t]
    <3>1. \A t \in UpTo[n] : t \in UpTo[n + 1]
      BY UpToGrows
    <3> HIDE DEF E
    <3>2. \A t \in UpTo[n] : f[t] = E(f, t)
      BY <2>1
    <3> QED BY <3>1, <3>2
  <2> HIDE DEF g
  <2>3. ASSUME NEW t \in UpTo[n + 1]
        PROVE  E(f, t) = E(g, t)
    BY <2>2, UpToNode
  <2>4. g = [t \in UpTo[n + 1] |-> E(g, t)]
    <3>1. g = [t \in UpTo[n + 1] |-> E(f, t)]
      BY DEF g
    <3> HIDE DEF E
    <3> QED BY <3>1, <2>3
  <2>5. n + 1 \in Nat
    OBVIOUS
  <2> HIDE DEF E
  <2> QED BY <2>4, <2>5
<1>3. N \in Q
  <2> HIDE DEF Q, N
  <2> QED BY <1>0, <1>1, <1>2, UpToInduction
<1> DEFINE Found == CHOOSE f : f = [t \in All |-> E(f, t)]
<1>4. Found = [t \in All |-> E(Found, t)]
  <2>1. \E f : f = [t \in All |-> E(f, t)]
    BY <1>3 DEF All, Trees
  <2> HIDE DEF E
  <2> QED BY <2>1
<1>5. \A t : Find(t, lo, hi) = Found[t]
  BY DEF Find, All
<1>6. \A t \in All : Found[t] = E(Found, t)
  <2> HIDE DEF Found, E
  <2> QED BY <1>4
<1> HIDE DEF Found
<1> QED BY <1>5, <1>6, AllTrees

(* the move of the larger items,                                           *)
LEMMA ShiftDef ==
  ASSUME NEW i, NEW n0
  PROVE  \A t \in All :
           Shift(t, i, n0) =
             IF t = Nil THEN t
             ELSE [t EXCEPT !.item = IF @ >= i THEN @ + n0 ELSE @,
                            !.left = Shift(t.left, i, n0), !.right = Shift(t.right, i, n0)]
<1> DEFINE E(f, t) ==
             IF t = Nil THEN t
             ELSE [t EXCEPT !.item = IF @ >= i THEN @ + n0 ELSE @,
                            !.left = f[t.left], !.right = f[t.right]]
           N == 2 * MaxItems
           Q == {n \in Nat : \E f : f = [t \in UpTo[n] |-> E(f, t)]}
<1>0. N \in Nat
  BY MaxAssumption
<1>1. 0 \in Q
  <2> DEFINE f == [t \in UpTo[0] |-> E(0, t)]
  <2>1. \A t \in UpTo[0] : E(0, t) = E(f, t)
    BY UpToDef
  <2>2. f = [t \in UpTo[0] |-> E(f, t)]
    <3>1. f = [t \in UpTo[0] |-> E(0, t)]
      OBVIOUS
    <3> HIDE DEF f, E
    <3> QED BY <2>1, <3>1
  <2> HIDE DEF f, E
  <2> QED BY <2>2
<1>2. ASSUME NEW n \in 0 .. N - 1, n \in Q
      PROVE  n + 1 \in Q
  <2>1. PICK f : f = [t \in UpTo[n] |-> E(f, t)]
    BY <1>2
  <2> DEFINE g == [t \in UpTo[n + 1] |-> E(f, t)]
  <2>2. \A t \in UpTo[n] : g[t] = f[t]
    <3>1. \A t \in UpTo[n] : t \in UpTo[n + 1]
      BY UpToGrows
    <3> HIDE DEF E
    <3>2. \A t \in UpTo[n] : f[t] = E(f, t)
      BY <2>1
    <3> QED BY <3>1, <3>2
  <2> HIDE DEF g
  <2>3. ASSUME NEW t \in UpTo[n + 1]
        PROVE  E(f, t) = E(g, t)
    BY <2>2, UpToNode
  <2>4. g = [t \in UpTo[n + 1] |-> E(g, t)]
    <3>1. g = [t \in UpTo[n + 1] |-> E(f, t)]
      BY DEF g
    <3> HIDE DEF E
    <3> QED BY <3>1, <2>3
  <2>5. n + 1 \in Nat
    OBVIOUS
  <2> HIDE DEF E
  <2> QED BY <2>4, <2>5
<1>3. N \in Q
  <2> HIDE DEF Q, N
  <2> QED BY <1>0, <1>1, <1>2, UpToInduction
<1> DEFINE Shifted == CHOOSE f : f = [t \in All |-> E(f, t)]
<1>4. Shifted = [t \in All |-> E(Shifted, t)]
  <2>1. \E f : f = [t \in All |-> E(f, t)]
    BY <1>3 DEF All, Trees
  <2> HIDE DEF E
  <2> QED BY <2>1
<1>5. \A t : Shift(t, i, n0) = Shifted[t]
  BY DEF Shift, All
<1>6. \A t \in All : Shifted[t] = E(Shifted, t)
  <2> HIDE DEF Shifted, E
  <2> QED BY <1>4
<1> HIDE DEF Shifted
<1> QED BY <1>5, <1>6, AllTrees

(* the nodes of a tree,                                                    *)
LEMMA NodesOfDef ==
  \A t \in All :
           NodesOf(t) =
             IF t = Nil THEN {} ELSE {t} \cup NodesOf(t.left) \cup NodesOf(t.right)
<1> DEFINE E(f, t) ==
             IF t = Nil THEN {} ELSE {t} \cup f[t.left] \cup f[t.right]
           N == 2 * MaxItems
           Q == {n \in Nat : \E f : f = [t \in UpTo[n] |-> E(f, t)]}
<1>0. N \in Nat
  BY MaxAssumption
<1>1. 0 \in Q
  <2> DEFINE f == [t \in UpTo[0] |-> E(0, t)]
  <2>1. \A t \in UpTo[0] : E(0, t) = E(f, t)
    BY UpToDef
  <2>2. f = [t \in UpTo[0] |-> E(f, t)]
    <3>1. f = [t \in UpTo[0] |-> E(0, t)]
      OBVIOUS
    <3> HIDE DEF f, E
    <3> QED BY <2>1, <3>1
  <2> HIDE DEF f, E
  <2> QED BY <2>2
<1>2. ASSUME NEW n \in 0 .. N - 1, n \in Q
      PROVE  n + 1 \in Q
  <2>1. PICK f : f = [t \in UpTo[n] |-> E(f, t)]
    BY <1>2
  <2> DEFINE g == [t \in UpTo[n + 1] |-> E(f, t)]
  <2>2. \A t \in UpTo[n] : g[t] = f[t]
    <3>1. \A t \in UpTo[n] : t \in UpTo[n + 1]
      BY UpToGrows
    <3> HIDE DEF E
    <3>2. \A t \in UpTo[n] : f[t] = E(f, t)
      BY <2>1
    <3> QED BY <3>1, <3>2
  <2> HIDE DEF g
  <2>3. ASSUME NEW t \in UpTo[n + 1]
        PROVE  E(f, t) = E(g, t)
    BY <2>2, UpToNode
  <2>4. g = [t \in UpTo[n + 1] |-> E(g, t)]
    <3>1. g = [t \in UpTo[n + 1] |-> E(f, t)]
      BY DEF g
    <3> HIDE DEF E
    <3> QED BY <3>1, <2>3
  <2>5. n + 1 \in Nat
    OBVIOUS
  <2> HIDE DEF E
  <2> QED BY <2>4, <2>5
<1>3. N \in Q
  <2> HIDE DEF Q, N
  <2> QED BY <1>0, <1>1, <1>2, UpToInduction
<1> DEFINE Of == CHOOSE f : f = [t \in All |-> E(f, t)]
<1>4. Of = [t \in All |-> E(Of, t)]
  <2>1. \E f : f = [t \in All |-> E(f, t)]
    BY <1>3 DEF All, Trees
  <2> HIDE DEF E
  <2> QED BY <2>1
<1>5. \A t : NodesOf(t) = Of[t]
  BY DEF NodesOf, All
<1>6. \A t \in All : Of[t] = E(Of, t)
  <2> HIDE DEF Of, E
  <2> QED BY <1>4
<1> HIDE DEF Of
<1> QED BY <1>5, <1>6, AllTrees

(* the insertion,                                                          *)
LEMMA AddedDef ==
  ASSUME NEW e
  PROVE  \A t \in All :
           AddRecursive(t, e) =
             IF t = Nil THEN [item |-> e, red |-> TRUE, left |-> Nil, right |-> Nil]
             ELSE LET l == IF e < t.item THEN "left" ELSE "right"
                      n == [t EXCEPT ![l] = AddRecursive(t[l], e)]
                  IN  IF t.red THEN n ELSE FixInsertion(n, l)
<1> DEFINE E(f, t) ==
             IF t = Nil THEN [item |-> e, red |-> TRUE, left |-> Nil, right |-> Nil]
             ELSE LET l == IF e < t.item THEN "left" ELSE "right"
                      n == [t EXCEPT ![l] = f[t[l]]]
                  IN  IF t.red THEN n ELSE FixInsertion(n, l)
           N == 2 * MaxItems
           Q == {n \in Nat : \E f : f = [t \in UpTo[n] |-> E(f, t)]}
<1>0. N \in Nat
  BY MaxAssumption
<1>1. 0 \in Q
  <2> DEFINE f == [t \in UpTo[0] |-> E(0, t)]
  <2>1. \A t \in UpTo[0] : E(0, t) = E(f, t)
    BY UpToDef
  <2>2. f = [t \in UpTo[0] |-> E(f, t)]
    <3>1. f = [t \in UpTo[0] |-> E(0, t)]
      OBVIOUS
    <3> HIDE DEF f, E
    <3> QED BY <2>1, <3>1
  <2> HIDE DEF f, E
  <2> QED BY <2>2
<1>2. ASSUME NEW n \in 0 .. N - 1, n \in Q
      PROVE  n + 1 \in Q
  <2>1. PICK f : f = [t \in UpTo[n] |-> E(f, t)]
    BY <1>2
  <2> DEFINE g == [t \in UpTo[n + 1] |-> E(f, t)]
  <2>2. \A t \in UpTo[n] : g[t] = f[t]
    <3>1. \A t \in UpTo[n] : t \in UpTo[n + 1]
      BY UpToGrows
    <3> HIDE DEF E
    <3>2. \A t \in UpTo[n] : f[t] = E(f, t)
      BY <2>1
    <3> QED BY <3>1, <3>2
  <2> HIDE DEF g
  <2>3. ASSUME NEW t \in UpTo[n + 1]
        PROVE  E(f, t) = E(g, t)
    BY <2>2, UpToNode
  <2>4. g = [t \in UpTo[n + 1] |-> E(g, t)]
    <3>1. g = [t \in UpTo[n + 1] |-> E(f, t)]
      BY DEF g
    <3> HIDE DEF E
    <3> QED BY <3>1, <2>3
  <2>5. n + 1 \in Nat
    OBVIOUS
  <2> HIDE DEF E
  <2> QED BY <2>4, <2>5
<1>3. N \in Q
  <2> HIDE DEF Q, N
  <2> QED BY <1>0, <1>1, <1>2, UpToInduction
<1> DEFINE Added == CHOOSE f : f = [t \in All |-> E(f, t)]
<1>4. Added = [t \in All |-> E(Added, t)]
  <2>1. \E f : f = [t \in All |-> E(f, t)]
    BY <1>3 DEF All, Trees
  <2> HIDE DEF E
  <2> QED BY <2>1
<1>5. \A t : AddRecursive(t, e) = Added[t]
  BY DEF AddRecursive, All
<1>6. \A t \in All : Added[t] = E(Added, t)
  <2> HIDE DEF Added, E
  <2> QED BY <1>4
<1> HIDE DEF Added
<1> QED BY <1>5, <1>6, AllTrees

(* the rightmost item,                                                     *)
LEMMA RightmostDef ==
  \A t \in All \ {Nil} :
           Rightmost(t) =
             IF t.right = Nil THEN t.item ELSE Rightmost(t.right)
<1> DEFINE E(f, t) ==
             IF t.right = Nil THEN t.item ELSE f[t.right]
           N == 2 * MaxItems
           Q == {n \in Nat : \E f : f = [t \in UpTo[n] \ {Nil} |-> E(f, t)]}
<1>0. N \in Nat
  BY MaxAssumption
<1>1. 0 \in Q
  <2> DEFINE f == [t \in UpTo[0] \ {Nil} |-> E(0, t)]
  <2>1. \A t \in UpTo[0] \ {Nil} : E(0, t) = E(f, t)
    BY UpToDef
  <2>2. f = [t \in UpTo[0] \ {Nil} |-> E(f, t)]
    <3>1. f = [t \in UpTo[0] \ {Nil} |-> E(0, t)]
      OBVIOUS
    <3> HIDE DEF f, E
    <3> QED BY <2>1, <3>1
  <2> HIDE DEF f, E
  <2> QED BY <2>2
<1>2. ASSUME NEW n \in 0 .. N - 1, n \in Q
      PROVE  n + 1 \in Q
  <2>1. PICK f : f = [t \in UpTo[n] \ {Nil} |-> E(f, t)]
    BY <1>2
  <2> DEFINE g == [t \in UpTo[n + 1] \ {Nil} |-> E(f, t)]
  <2>2. \A t \in UpTo[n] \ {Nil} : g[t] = f[t]
    <3>1. \A t \in UpTo[n] \ {Nil} : t \in UpTo[n + 1] \ {Nil}
      BY UpToGrows
    <3> HIDE DEF E
    <3>2. \A t \in UpTo[n] \ {Nil} : f[t] = E(f, t)
      BY <2>1
    <3> QED BY <3>1, <3>2
  <2> HIDE DEF g
  <2>3. ASSUME NEW t \in UpTo[n + 1] \ {Nil}
        PROVE  E(f, t) = E(g, t)
    BY <2>2, UpToNode
  <2>4. g = [t \in UpTo[n + 1] \ {Nil} |-> E(g, t)]
    <3>1. g = [t \in UpTo[n + 1] \ {Nil} |-> E(f, t)]
      BY DEF g
    <3> HIDE DEF E
    <3> QED BY <3>1, <2>3
  <2>5. n + 1 \in Nat
    OBVIOUS
  <2> HIDE DEF E
  <2> QED BY <2>4, <2>5
<1>3. N \in Q
  <2> HIDE DEF Q, N
  <2> QED BY <1>0, <1>1, <1>2, UpToInduction
<1> DEFINE Found == CHOOSE f : f = [t \in All \ {Nil} |-> E(f, t)]
<1>4. Found = [t \in All \ {Nil} |-> E(Found, t)]
  <2>1. \E f : f = [t \in All \ {Nil} |-> E(f, t)]
    BY <1>3 DEF All, Trees
  <2> HIDE DEF E
  <2> QED BY <2>1
<1>5. \A t : Rightmost(t) = Found[t]
  BY DEF Rightmost, All
<1>6. \A t \in All \ {Nil} : Found[t] = E(Found, t)
  <2> HIDE DEF Found, E
  <2> QED BY <1>4
<1> HIDE DEF Found
<1> QED BY <1>5, <1>6, AllTrees

(* its deletion,                                                           *)
LEMMA DeleteRightmostLeafDef ==
  \A t \in All \ {Nil} :
           DeleteRightmostLeaf(t) =
             IF t.right = Nil THEN Replaced(t, t.left)
             ELSE Deepen(t, "right", DeleteRightmostLeaf(t.right))
<1> DEFINE E(f, t) ==
             IF t.right = Nil THEN Replaced(t, t.left) ELSE Deepen(t, "right", f[t.right])
           N == 2 * MaxItems
           Q == {n \in Nat : \E f : f = [t \in UpTo[n] \ {Nil} |-> E(f, t)]}
<1>0. N \in Nat
  BY MaxAssumption
<1>1. 0 \in Q
  <2> DEFINE f == [t \in UpTo[0] \ {Nil} |-> E(0, t)]
  <2>1. \A t \in UpTo[0] \ {Nil} : E(0, t) = E(f, t)
    BY UpToDef
  <2>2. f = [t \in UpTo[0] \ {Nil} |-> E(f, t)]
    <3>1. f = [t \in UpTo[0] \ {Nil} |-> E(0, t)]
      OBVIOUS
    <3> HIDE DEF f, E
    <3> QED BY <2>1, <3>1
  <2> HIDE DEF f, E
  <2> QED BY <2>2
<1>2. ASSUME NEW n \in 0 .. N - 1, n \in Q
      PROVE  n + 1 \in Q
  <2>1. PICK f : f = [t \in UpTo[n] \ {Nil} |-> E(f, t)]
    BY <1>2
  <2> DEFINE g == [t \in UpTo[n + 1] \ {Nil} |-> E(f, t)]
  <2>2. \A t \in UpTo[n] \ {Nil} : g[t] = f[t]
    <3>1. \A t \in UpTo[n] \ {Nil} : t \in UpTo[n + 1] \ {Nil}
      BY UpToGrows
    <3> HIDE DEF E
    <3>2. \A t \in UpTo[n] \ {Nil} : f[t] = E(f, t)
      BY <2>1
    <3> QED BY <3>1, <3>2
  <2> HIDE DEF g
  <2>3. ASSUME NEW t \in UpTo[n + 1] \ {Nil}
        PROVE  E(f, t) = E(g, t)
    BY <2>2, UpToNode
  <2>4. g = [t \in UpTo[n + 1] \ {Nil} |-> E(g, t)]
    <3>1. g = [t \in UpTo[n + 1] \ {Nil} |-> E(f, t)]
      BY DEF g
    <3> HIDE DEF E
    <3> QED BY <3>1, <2>3
  <2>5. n + 1 \in Nat
    OBVIOUS
  <2> HIDE DEF E
  <2> QED BY <2>4, <2>5
<1>3. N \in Q
  <2> HIDE DEF Q, N
  <2> QED BY <1>0, <1>1, <1>2, UpToInduction
<1> DEFINE Deleted == CHOOSE f : f = [t \in All \ {Nil} |-> E(f, t)]
<1>4. Deleted = [t \in All \ {Nil} |-> E(Deleted, t)]
  <2>1. \E f : f = [t \in All \ {Nil} |-> E(f, t)]
    BY <1>3 DEF All, Trees
  <2> HIDE DEF E
  <2> QED BY <2>1
<1>5. \A t : DeleteRightmostLeaf(t) = Deleted[t]
  BY DEF DeleteRightmostLeaf, All
<1>6. \A t \in All \ {Nil} : Deleted[t] = E(Deleted, t)
  <2> HIDE DEF Deleted, E
  <2> QED BY <1>4
<1> HIDE DEF Deleted
<1> QED BY <1>5, <1>6, AllTrees

(* and the deletion of any item.                                           *)
LEMMA DeletedDef ==
  ASSUME NEW e
  PROVE  \A t \in All :
           DeleteRecursive(t, e) =
             IF t = Nil THEN Result(t, FALSE, FALSE)
             ELSE IF t.item = e THEN DeleteRoot(t)
             ELSE LET side == IF e < t.item THEN "left" ELSE "right"
                  IN  Deepen(t, side, DeleteRecursive(t[side], e))
<1> DEFINE E(f, t) ==
             IF t = Nil THEN Result(t, FALSE, FALSE)
             ELSE IF t.item = e THEN DeleteRoot(t)
             ELSE LET side == IF e < t.item THEN "left" ELSE "right"
                  IN  Deepen(t, side, f[t[side]])
           N == 2 * MaxItems
           Q == {n \in Nat : \E f : f = [t \in UpTo[n] |-> E(f, t)]}
<1>0. N \in Nat
  BY MaxAssumption
<1>1. 0 \in Q
  <2> DEFINE f == [t \in UpTo[0] |-> E(0, t)]
  <2>1. \A t \in UpTo[0] : E(0, t) = E(f, t)
    BY UpToDef
  <2>2. f = [t \in UpTo[0] |-> E(f, t)]
    <3>1. f = [t \in UpTo[0] |-> E(0, t)]
      OBVIOUS
    <3> HIDE DEF f, E
    <3> QED BY <2>1, <3>1
  <2> HIDE DEF f, E
  <2> QED BY <2>2
<1>2. ASSUME NEW n \in 0 .. N - 1, n \in Q
      PROVE  n + 1 \in Q
  <2>1. PICK f : f = [t \in UpTo[n] |-> E(f, t)]
    BY <1>2
  <2> DEFINE g == [t \in UpTo[n + 1] |-> E(f, t)]
  <2>2. \A t \in UpTo[n] : g[t] = f[t]
    <3>1. \A t \in UpTo[n] : t \in UpTo[n + 1]
      BY UpToGrows
    <3> HIDE DEF E
    <3>2. \A t \in UpTo[n] : f[t] = E(f, t)
      BY <2>1
    <3> QED BY <3>1, <3>2
  <2> HIDE DEF g
  <2>3. ASSUME NEW t \in UpTo[n + 1]
        PROVE  E(f, t) = E(g, t)
    BY <2>2, UpToNode
  <2>4. g = [t \in UpTo[n + 1] |-> E(g, t)]
    <3>1. g = [t \in UpTo[n + 1] |-> E(f, t)]
      BY DEF g
    <3> HIDE DEF E
    <3> QED BY <3>1, <2>3
  <2>5. n + 1 \in Nat
    OBVIOUS
  <2> HIDE DEF E
  <2> QED BY <2>4, <2>5
<1>3. N \in Q
  <2> HIDE DEF Q, N
  <2> QED BY <1>0, <1>1, <1>2, UpToInduction
<1> DEFINE Deleted == CHOOSE f : f = [t \in All |-> E(f, t)]
<1>4. Deleted = [t \in All |-> E(Deleted, t)]
  <2>1. \E f : f = [t \in All |-> E(f, t)]
    BY <1>3 DEF All, Trees
  <2> HIDE DEF E
  <2> QED BY <2>1
<1>5. \A t : DeleteRecursive(t, e) = Deleted[t]
  BY DEF DeleteRecursive, All
<1>6. \A t \in All : Deleted[t] = E(Deleted, t)
  <2> HIDE DEF Deleted, E
  <2> QED BY <1>4
<1> HIDE DEF Deleted
<1> QED BY <1>5, <1>6, AllTrees

-----------------------------------------------------------------------------
(* Search trees.  Holds(t, S): t is ordered and S the set of its items.  A *)
(* set of pairs <<t, S>> is justified when each is the empty tree with no  *)
(* item or a node whose subtrees are in such pairs of the set.             *)

Parts(R, t, S, i, c, a, b, U, V) ==
  /\ i \in Int /\ c \in BOOLEAN
  /\ <<a, U>> \in R /\ <<b, V>> \in R
  /\ U \subseteq Int /\ V \subseteq Int
  /\ \A x \in U : x < i
  /\ \A x \in V : i < x
  /\ t = Tree(i, c, a, b)
  /\ S = U \cup {i} \cup V

Justified(R) ==
  \A t, S : <<t, S>> \in R =>
    \/ t = Nil /\ S = {}
    \/ \E i, c, a, b, U, V : Parts(R, t, S, i, c, a, b, U, V)

Holds(t, S) == \E R : Justified(R) /\ <<t, S>> \in R

(* Smaller seen from side l, and a node's subtrees divided by its item.    *)
Less(l, x, y) == IF l = "left" THEN x < y ELSE y < x

Divides(l, i, U, V) == /\ i \in Int /\ U \subseteq Int /\ V \subseteq Int
                       /\ \A x \in U : Less(l, x, i)
                       /\ \A x \in V : Less(l, i, x)

(* The empty tree is the search tree without items.                        *)
LEMMA NilHolds == \A S : Holds(Nil, S) <=> S = {}
<1>1. Holds(Nil, {})
  <2> DEFINE R == {<<Nil, {}>>}
  <2>1. Justified(R)
    BY DEF Justified
  <2> QED BY <2>1 DEF Holds
<1>2. ASSUME NEW S, Holds(Nil, S)
      PROVE  S = {}
  <2>1. PICK R : Justified(R) /\ <<Nil, S>> \in R
    BY <1>2 DEF Holds
  <2>2. \/ S = {}
        \/ \E i, c, a, b, U, V : Parts(R, Nil, S, i, c, a, b, U, V)
    BY <2>1 DEF Justified
  <2>3. ~ \E i, c, a, b, U, V : Parts(R, Nil, S, i, c, a, b, U, V)
    BY NotNil DEF Parts
  <2> QED BY <2>2, <2>3
<1> QED BY <1>1, <1>2

(* A node over two search trees that its item divides is a search tree.    *)
LEMMA HoldsTree ==
  ASSUME NEW i \in Int, NEW c \in BOOLEAN, NEW a, NEW b, NEW U, NEW V,
         Holds(a, U), Holds(b, V), Divides("left", i, U, V)
  PROVE  Holds(Tree(i, c, a, b), U \cup {i} \cup V)
<1>1. PICK R : Justified(R) /\ <<a, U>> \in R
  BY DEF Holds
<1>2. PICK W : Justified(W) /\ <<b, V>> \in W
  BY DEF Holds
<1> DEFINE t == Tree(i, c, a, b)
           S == U \cup {i} \cup V
           X == R \cup W \cup {<<t, S>>}
<1>3. Parts(X, t, S, i, c, a, b, U, V)
  BY <1>1, <1>2 DEF Parts, Divides, Less
<1>4. ASSUME NEW Y, Y \subseteq X, NEW u, NEW P, NEW j, NEW d, NEW p, NEW q, NEW A, NEW B,
             Parts(Y, u, P, j, d, p, q, A, B)
      PROVE  Parts(X, u, P, j, d, p, q, A, B)
  <2> HIDE DEF X
  <2> QED BY <1>4 DEF Parts
<1>5. Justified(X)
  <2> SUFFICES ASSUME NEW u, NEW P, <<u, P>> \in X
               PROVE  \/ u = Nil /\ P = {}
                      \/ \E j, d, p, q, A, B : Parts(X, u, P, j, d, p, q, A, B)
    BY DEF Justified
  <2>1. CASE <<u, P>> \in R
    <3>1. \/ u = Nil /\ P = {}
          \/ \E j, d, p, q, A, B : Parts(R, u, P, j, d, p, q, A, B)
      BY <1>1, <2>1 DEF Justified
    <3>2. R \subseteq X
      OBVIOUS
    <3> HIDE DEF X
    <3> QED BY <3>1, <3>2, <1>4
  <2>2. CASE <<u, P>> \in W
    <3>1. \/ u = Nil /\ P = {}
          \/ \E j, d, p, q, A, B : Parts(W, u, P, j, d, p, q, A, B)
      BY <1>2, <2>2 DEF Justified
    <3>2. W \subseteq X
      OBVIOUS
    <3> HIDE DEF X
    <3> QED BY <3>1, <3>2, <1>4
  <2>3. CASE u = t /\ P = S
    <3> HIDE DEF X, t, S
    <3> QED BY <2>3, <1>3
  <2> QED BY <2>1, <2>2, <2>3
<1>6. <<t, S>> \in X
  OBVIOUS
<1> HIDE DEF X
<1> QED BY <1>5, <1>6 DEF Holds

(* And every search tree but the empty one is such a node.                 *)
LEMMA TreeHeld ==
  ASSUME NEW i, NEW c, NEW a, NEW b, NEW S, Holds(Tree(i, c, a, b), S)
  PROVE  \E U, V : /\ Holds(a, U) /\ Holds(b, V) /\ Divides("left", i, U, V)
                   /\ S = U \cup {i} \cup V /\ i \in Int /\ c \in BOOLEAN
<1> DEFINE t == Tree(i, c, a, b)
<1>1. PICK R : Justified(R) /\ <<t, S>> \in R
  BY DEF Holds
<1>2. t # Nil
  BY NotNil
<1>3. \E j, d, p, q, U, V : Parts(R, t, S, j, d, p, q, U, V)
  <2> HIDE DEF t
  <2> QED BY <1>1, <1>2 DEF Justified
<1>4. PICK j, d, p, q, U, V : Parts(R, t, S, j, d, p, q, U, V)
  BY <1>3
<1>5. t = Tree(j, d, p, q)
  BY <1>4 DEF Parts
<1>6. i = j /\ c = d /\ a = p /\ b = q
  <2>1. /\ Tree(i, c, a, b).item = i /\ Tree(i, c, a, b).red = c
        /\ Tree(i, c, a, b).left = a /\ Tree(i, c, a, b).right = b
    BY DEF Tree
  <2>2. /\ Tree(j, d, p, q).item = j /\ Tree(j, d, p, q).red = d
        /\ Tree(j, d, p, q).left = p /\ Tree(j, d, p, q).right = q
    BY DEF Tree
  <2> QED BY <1>5, <2>1, <2>2
<1>7. Holds(a, U) /\ Holds(b, V)
  <2>1. <<a, U>> \in R /\ <<b, V>> \in R
    BY <1>4, <1>6 DEF Parts
  <2> QED BY <1>1, <2>1 DEF Holds
<1>8. Divides("left", i, U, V) /\ S = U \cup {i} \cup V /\ c \in BOOLEAN /\ i \in Int
  BY <1>4, <1>6 DEF Parts, Divides, Less
<1> QED BY <1>7, <1>8

(* Both seen from either side.                                             *)
LEMMA DividesMirrored ==
  ASSUME NEW l \in Sides, NEW i, NEW U, NEW V
  PROVE  Divides(Other(l), i, V, U) <=> Divides(l, i, U, V)
BY DEF Divides, Less, Other, Sides

(* A search tree built from a node's two sides, whichever is named first.  *)
LEMMA HoldsAt ==
  ASSUME NEW l \in Sides, NEW i, NEW c \in BOOLEAN, NEW a, NEW b, NEW U, NEW V,
         Holds(a, U), Holds(b, V), Divides(l, i, U, V)
  PROVE  Holds(At(l, i, c, a, b), U \cup {i} \cup V)
<1>0. i \in Int
  BY DEF Divides
<1>1. CASE l = "left"
  BY <1>0, <1>1, HoldsTree DEF At
<1>2. CASE l = "right"
  <2>1. Divides("left", i, V, U)
    BY <1>2, DividesMirrored DEF Other
  <2>2. Holds(Tree(i, c, b, a), V \cup {i} \cup U)
    BY <1>0, <2>1, HoldsTree
  <2>3. V \cup {i} \cup U = U \cup {i} \cup V
    OBVIOUS
  <2> QED BY <1>2, <2>2, <2>3 DEF At
<1> QED BY <1>1, <1>2 DEF Sides

(* A search tree taken apart likewise.                                     *)
LEMMA AtHeld ==
  ASSUME NEW l \in Sides, NEW i, NEW c, NEW a, NEW b, NEW S, Holds(At(l, i, c, a, b), S)
  PROVE  \E U, V : /\ Holds(a, U) /\ Holds(b, V) /\ Divides(l, i, U, V)
                   /\ S = U \cup {i} \cup V
<1>1. CASE l = "left"
  BY <1>1, TreeHeld DEF At
<1>2. CASE l = "right"
  <2>1. PICK V, U : /\ Holds(b, V) /\ Holds(a, U) /\ Divides("left", i, V, U)
                    /\ S = V \cup {i} \cup U
    BY <1>2, TreeHeld DEF At
  <2>2. Divides(l, i, U, V)
    BY <1>2, <2>1, DividesMirrored DEF Other
  <2>3. S = U \cup {i} \cup V
    BY <2>1
  <2> QED BY <2>1, <2>2, <2>3
<1> QED BY <1>1, <1>2 DEF Sides

(* The items of a search tree are numbers.                                 *)
LEMMA HeldInts ==
  ASSUME NEW t, NEW S, Holds(t, S)
  PROVE  S \subseteq Int
<1>1. PICK R : Justified(R) /\ <<t, S>> \in R
  BY DEF Holds
<1>2. \/ t = Nil /\ S = {}
      \/ \E i, c, a, b, U, V : Parts(R, t, S, i, c, a, b, U, V)
  BY <1>1 DEF Justified
<1>3. ASSUME NEW i, NEW c, NEW a, NEW b, NEW U, NEW V, Parts(R, t, S, i, c, a, b, U, V)
      PROVE  S \subseteq Int
  BY <1>3 DEF Parts
<1> QED BY <1>2, <1>3

-----------------------------------------------------------------------------
(* Red-black search trees.                                                 *)

BlackTree(t, h, S) == h \in 0 .. MaxItems /\ t \in Black[h] /\ Holds(t, S)
RedTree(t, h, S)   == h \in 0 .. MaxItems /\ t \in Nodes({TRUE}, Black[h]) /\ Holds(t, S)
AnyTree(t, h, S)   == BlackTree(t, h, S) \/ RedTree(t, h, S)

(* A node with parts from some sets is among the nodes over these sets.    *)
LEMMA AtNodes ==
  ASSUME NEW l \in Sides, NEW i \in Int, NEW c, NEW C, c \in C, NEW X, NEW a \in X, NEW b \in X
  PROVE  At(l, i, c, a, b) \in Nodes(C, X)
BY DEF At, Tree, Nodes, Sides

(* Each of these is such a node, seen from either side.                    *)
LEMMA NodesAt ==
  ASSUME NEW l \in Sides, NEW C, NEW X, NEW t \in Nodes(C, X)
  PROVE  \E i \in Int, c \in C, a \in X, b \in X : t = At(l, i, c, a, b)
<1>1. /\ t.item \in Int /\ t.red \in C /\ t.left \in X /\ t.right \in X
      /\ t = Tree(t.item, t.red, t.left, t.right)
  BY DEF Nodes, Tree
<1>2. CASE l = "left"
  <2>1. t = At(l, t.item, t.red, t.left, t.right)
    BY <1>1, <1>2 DEF At
  <2> QED BY <1>1, <2>1
<1>3. CASE l = "right"
  <2>1. t = At(l, t.item, t.red, t.right, t.left)
    BY <1>1, <1>3 DEF At
  <2> QED BY <1>1, <2>1
<1> QED BY <1>2, <1>3 DEF Sides

(* Without any black node there is the empty tree only.                    *)
LEMMA NilTree == \A S : BlackTree(Nil, 0, S) <=> S = {}
BY NilHolds, BlackDef, MaxAssumption DEF BlackTree

(* A red node over two trees with black roots.                             *)
LEMMA RedNode ==
  ASSUME NEW l \in Sides, NEW i, NEW h, NEW a, NEW b, NEW U, NEW V,
         BlackTree(a, h, U), BlackTree(b, h, V), Divides(l, i, U, V)
  PROVE  RedTree(At(l, i, Red, a, b), h, U \cup {i} \cup V)
<1>1. i \in Int /\ Red \in {TRUE} /\ Red \in BOOLEAN
  BY DEF Divides, Red
<1>2. Holds(At(l, i, Red, a, b), U \cup {i} \cup V)
  BY <1>1, HoldsAt DEF BlackTree
<1>3. At(l, i, Red, a, b) \in Nodes({TRUE}, Black[h])
  BY <1>1, AtNodes DEF BlackTree
<1> QED BY <1>2, <1>3 DEF BlackTree, RedTree

(* A black node over two trees with roots of any colour.                   *)
LEMMA BlackNode ==
  ASSUME NEW l \in Sides, NEW i, NEW h, NEW a, NEW b, NEW U, NEW V, h + 1 <= MaxItems,
         AnyTree(a, h, U), AnyTree(b, h, V), Divides(l, i, U, V)
  PROVE  BlackTree(At(l, i, Blk, a, b), h + 1, U \cup {i} \cup V)
<1>1. i \in Int /\ Blk \in {FALSE} /\ Blk \in BOOLEAN
  BY DEF Divides, Blk
<1>2. Holds(At(l, i, Blk, a, b), U \cup {i} \cup V)
  <2>1. Holds(a, U) /\ Holds(b, V)
    BY DEF BlackTree, RedTree, AnyTree
  <2> QED BY <1>1, <2>1, HoldsAt
<1>3. h \in 0 .. MaxItems
  BY DEF AnyTree, BlackTree, RedTree
<1>4. h \in 0 .. MaxItems - 1 /\ h + 1 \in 0 .. MaxItems
  BY <1>3, MaxAssumption
<1> DEFINE X == Black[h] \cup Nodes({TRUE}, Black[h])
<1>5. a \in X /\ b \in X
  BY DEF AnyTree, BlackTree, RedTree
<1>6. At(l, i, Blk, a, b) \in Nodes({FALSE}, X)
  <2> HIDE DEF X
  <2> QED BY <1>1, <1>5, AtNodes
<1>7. Black[h + 1] = Nodes({FALSE}, X)
  BY <1>4, BlackDef DEF Level
<1> QED BY <1>2, <1>4, <1>6, <1>7 DEF BlackTree

(* A tree with a red root taken apart.                                     *)
LEMMA RedParts ==
  ASSUME NEW l \in Sides, NEW t, NEW h, NEW S, RedTree(t, h, S)
  PROVE  \E i, a, b, U, V :
            /\ t = At(l, i, Red, a, b) /\ BlackTree(a, h, U) /\ BlackTree(b, h, V)
            /\ Divides(l, i, U, V) /\ S = U \cup {i} \cup V
<1> DEFINE C == {TRUE}
<1>1. t \in Nodes(C, Black[h]) /\ \A c \in C : c = Red
  BY DEF RedTree, Red
<1> HIDE DEF C
<1>2. PICK i \in Int, c \in C, a \in Black[h], b \in Black[h] : t = At(l, i, c, a, b)
  BY <1>1, NodesAt
<1>4. t = At(l, i, Red, a, b)
  BY <1>1, <1>2
<1>6. Holds(At(l, i, Red, a, b), S)
  BY <1>4 DEF RedTree
<1>3. PICK U, V : Holds(a, U) /\ Holds(b, V) /\ Divides(l, i, U, V) /\ S = U \cup {i} \cup V
  BY <1>6, AtHeld
<1>5. BlackTree(a, h, U) /\ BlackTree(b, h, V)
  BY <1>3 DEF RedTree, BlackTree
<1> QED BY <1>3, <1>4, <1>5

(* A tree with a black root taken apart.                                   *)
LEMMA BlackParts ==
  ASSUME NEW l \in Sides, NEW t, NEW h, NEW S, BlackTree(t, h, S), h # 0
  PROVE  \E i, a, b, U, V :
            /\ t = At(l, i, Blk, a, b) /\ AnyTree(a, h - 1, U) /\ AnyTree(b, h - 1, V)
            /\ Divides(l, i, U, V) /\ S = U \cup {i} \cup V
<1>1. h - 1 \in 0 .. MaxItems - 1 /\ h - 1 \in 0 .. MaxItems /\ (h - 1) + 1 = h
  BY MaxAssumption DEF BlackTree
<1> DEFINE X == Black[h - 1] \cup Nodes({TRUE}, Black[h - 1])
           C == {FALSE}
<1>2. Black[h] = Nodes(C, X) /\ \A c \in C : c = Blk
  BY <1>1, BlackDef DEF Level, Blk
<1>3. PICK i \in Int, c \in C, a \in X, b \in X : t = At(l, i, c, a, b)
  <2> HIDE DEF X, C
  <2> QED BY <1>2, NodesAt DEF BlackTree
<1>6. t = At(l, i, Blk, a, b)
  <2> HIDE DEF X, C
  <2> QED BY <1>2, <1>3
<1>4. Holds(At(l, i, Blk, a, b), S)
  BY <1>6 DEF BlackTree
<1>5. PICK U, V : Holds(a, U) /\ Holds(b, V) /\ Divides(l, i, U, V) /\ S = U \cup {i} \cup V
  BY <1>4, AtHeld
<1>7. AnyTree(a, h - 1, U) /\ AnyTree(b, h - 1, V)
  BY <1>1, <1>5 DEF RedTree, BlackTree, AnyTree
<1> QED BY <1>5, <1>6, <1>7

(* Their colours.                                                          *)
LEMMA NoBlackNodes ==
  ASSUME NEW t, NEW S, BlackTree(t, 0, S)
  PROVE  t = Nil /\ S = {}
BY NilHolds, BlackDef DEF BlackTree

(* A tree of the first kind is not red, and black unless it is empty.      *)
LEMMA BlackColour ==
  ASSUME NEW t, NEW h, NEW S, BlackTree(t, h, S)
  PROVE  /\ ~IsRed(t)
         /\ h # 0 => t # Nil /\ IsBlack(t)
<1>1. CASE h = 0
  BY <1>1, NoBlackNodes, NilHasNone
<1>2. CASE h # 0
  <2>0. "left" \in Sides
    BY DEF Sides
  <2>1. PICK i, a, b, U, V : t = At("left", i, Blk, a, b)
    BY <1>2, <2>0, BlackParts
  <2> QED BY <2>0, <2>1, Colours, AtNotNil
<1> QED BY <1>1, <1>2

(* One of the second kind is red.                                          *)
LEMMA RedColour ==
  ASSUME NEW t, NEW h, NEW S, RedTree(t, h, S)
  PROVE  IsRed(t) /\ ~IsBlack(t) /\ t # Nil
<1>0. "left" \in Sides
  BY DEF Sides
<1>1. PICK i, a, b, U, V : t = At("left", i, Red, a, b)
  BY <1>0, RedParts
<1> QED BY <1>0, <1>1, Colours, AtNotNil

(* A subtree on one side can be replaced by one with other items there.    *)
LEMMA DividesPart ==
  ASSUME NEW l \in Sides, NEW i, NEW U, NEW V, Divides(l, i, U, V), NEW W, W \subseteq U
  PROVE  Divides(l, i, W, V)
BY DEF Divides

-----------------------------------------------------------------------------
(* How the items lie around a node and its child on side l, its child on   *)
(* the other side of that one, and so on: what a rotation relies on.       *)

(* The order seen from a side is transitive.                               *)
LEMMA LessTransitive ==
  ASSUME NEW l, NEW x \in Int, NEW y \in Int, NEW z \in Int, Less(l, x, y), Less(l, y, z)
  PROVE  Less(l, x, z)
BY DEF Less

(* The child is lifted over the node.                                      *)
LEMMA Rotated ==
  ASSUME NEW l, NEW i, NEW j, NEW P, NEW Q, NEW V,
         Divides(l, i, P \cup {j} \cup Q, V), Divides(l, j, P, Q)
  PROVE  /\ Divides(l, i, Q, V)
         /\ Divides(l, j, P, Q \cup {i} \cup V)
<1>1. Less(l, j, i) /\ i \in Int /\ j \in Int /\ V \subseteq Int /\ Q \subseteq Int
  BY DEF Divides
<1>2. ASSUME NEW x \in V
      PROVE  Less(l, j, x)
  <2>1. Less(l, i, x) /\ x \in Int
    BY DEF Divides
  <2> QED BY <1>1, <2>1, LessTransitive
<1>3. Divides(l, j, P, Q \cup {i} \cup V)
  BY <1>1, <1>2 DEF Divides
<1> QED BY <1>3 DEF Divides

(* The child's child is lifted over both.                                  *)
LEMMA RotatedTwice ==
  ASSUME NEW l, NEW i, NEW j, NEW k, NEW P, NEW X, NEW Y, NEW V,
         Divides(l, i, P \cup {j} \cup (X \cup {k} \cup Y), V),
         Divides(l, j, P, X \cup {k} \cup Y), Divides(l, k, X, Y)
  PROVE  /\ Divides(l, j, P, X)
         /\ Divides(l, i, Y, V)
         /\ Divides(l, k, P \cup {j} \cup X, Y \cup {i} \cup V)
<1> DEFINE Q == X \cup {k} \cup Y
<1>1. Divides(l, i, Q, V)
  <2> QED BY DEF Divides
<1>2. Divides(l, i, Y, V) /\ Divides(l, k, X, Y \cup {i} \cup V)
  BY <1>1, Rotated
<1>3. Less(l, j, k) /\ P \subseteq Int /\ j \in Int /\ k \in Int
  BY DEF Divides
<1>4. ASSUME NEW x \in P
      PROVE  Less(l, x, k)
  <2>1. Less(l, x, j) /\ x \in Int
    BY DEF Divides
  <2> QED BY <1>3, <2>1, LessTransitive
<1>5. Divides(l, k, P \cup {j} \cup X, Y \cup {i} \cup V)
  BY <1>2, <1>3, <1>4 DEF Divides
<1> QED BY <1>2, <1>5 DEF Divides

(* And the child of that one over the three.                               *)
LEMMA RotatedThrice ==
  ASSUME NEW l, NEW i, NEW j, NEW k, NEW m, NEW P, NEW X, NEW Y, NEW Z, NEW V,
         Divides(l, i, P \cup {j} \cup (X \cup {k} \cup (Y \cup {m} \cup Z)), V),
         Divides(l, j, P, X \cup {k} \cup (Y \cup {m} \cup Z)),
         Divides(l, k, X, Y \cup {m} \cup Z), Divides(l, m, Y, Z)
  PROVE  /\ Divides(l, k, X, Y)
         /\ Divides(l, j, P, X \cup {k} \cup Y)
         /\ Divides(l, i, Z, V)
         /\ Divides(l, m, P \cup {j} \cup (X \cup {k} \cup Y), Z \cup {i} \cup V)
<1> DEFINE W == X \cup {k} \cup Y
<1>1. /\ Divides(l, m, W, Z) /\ Divides(l, k, X, Y)
  <2>1. Less(l, k, m) /\ X \subseteq Int /\ k \in Int /\ m \in Int
    BY DEF Divides
  <2>2. ASSUME NEW x \in X
        PROVE  Less(l, x, m)
    <3>1. Less(l, x, k) /\ x \in Int
      BY DEF Divides
    <3> QED BY <2>1, <3>1, LessTransitive
  <2> QED BY <2>1, <2>2 DEF Divides
<1>2. X \cup {k} \cup (Y \cup {m} \cup Z) = W \cup {m} \cup Z
  OBVIOUS
<1>4. /\ Divides(l, i, P \cup {j} \cup (W \cup {m} \cup Z), V)
      /\ Divides(l, j, P, W \cup {m} \cup Z)
  BY <1>2
<1> HIDE DEF W
<1>3. Divides(l, m, P \cup {j} \cup W, Z \cup {i} \cup V)
  BY <1>1, <1>4, RotatedTwice
<1>5. Divides(l, j, P, W) /\ Divides(l, i, Z, V)
  BY <1>4 DEF Divides
<1> QED BY <1>1, <1>3, <1>5 DEF W

-----------------------------------------------------------------------------
(* Insertion.                                                              *)

(* The colour of its root tells the kind of a tree.                        *)
LEMMA AnyColour ==
  ASSUME NEW t, NEW h, NEW S, AnyTree(t, h, S)
  PROVE  /\ IsRed(t) => RedTree(t, h, S)
         /\ ~IsRed(t) => BlackTree(t, h, S)
BY BlackColour, RedColour DEF AnyTree

(* Below a red node an insertion may leave a red root with one red child.  *)
Raw(t, h, S) ==
  \E i, a, b, U, V :
     /\ t = At("left", i, Red, a, b) /\ AnyTree(a, h, U) /\ AnyTree(b, h, V)
     /\ ~(IsRed(a) /\ IsRed(b))
     /\ Divides("left", i, U, V) /\ S = U \cup {i} \cup V

(* A red node not both of whose children are red is raw.                   *)
LEMMA RawNode ==
  ASSUME NEW l \in Sides, NEW i, NEW h, NEW a, NEW b, NEW U, NEW V,
         AnyTree(a, h, U), AnyTree(b, h, V), ~(IsRed(a) /\ IsRed(b)), Divides(l, i, U, V)
  PROVE  Raw(At(l, i, Red, a, b), h, U \cup {i} \cup V)
<1>1. CASE l = "left"
  BY <1>1 DEF Raw
<1>2. CASE l = "right"
  <2>1. Divides("left", i, V, U)
    BY <1>2, DividesMirrored DEF Other
  <2>2. At(l, i, Red, a, b) = At("left", i, Red, b, a)
    BY <1>2 DEF At
  <2>3. U \cup {i} \cup V = V \cup {i} \cup U
    OBVIOUS
  <2> QED BY <2>1, <2>2, <2>3 DEF Raw
<1> QED BY <1>1, <1>2 DEF Sides

(* A raw tree taken apart.                                                 *)
LEMMA RawParts ==
  ASSUME NEW l \in Sides, NEW t, NEW h, NEW S, Raw(t, h, S)
  PROVE  \E i, a, b, U, V :
            /\ t = At(l, i, Red, a, b) /\ AnyTree(a, h, U) /\ AnyTree(b, h, V)
            /\ ~(IsRed(a) /\ IsRed(b))
            /\ Divides(l, i, U, V) /\ S = U \cup {i} \cup V
<1>0. PICK i, a, b, U, V :
            /\ t = At("left", i, Red, a, b) /\ AnyTree(a, h, U) /\ AnyTree(b, h, V)
            /\ ~(IsRed(a) /\ IsRed(b))
            /\ Divides("left", i, U, V) /\ S = U \cup {i} \cup V
  BY DEF Raw
<1>1. CASE l = "left"
  BY <1>0, <1>1
<1>2. CASE l = "right"
  <2>1. Divides(l, i, V, U)
    BY <1>0, <1>2, DividesMirrored DEF Other
  <2>2. t = At(l, i, Red, b, a)
    BY <1>0, <1>2 DEF At
  <2>3. S = V \cup {i} \cup U
    BY <1>0
  <2> QED BY <1>0, <2>1, <2>2, <2>3
<1> QED BY <1>1, <1>2 DEF Sides

(* A tree with a red root and black children is no exception.              *)
LEMMA RedIsRaw ==
  ASSUME NEW t, NEW h, NEW S, RedTree(t, h, S)
  PROVE  Raw(t, h, S)
<1>0. "left" \in Sides
  BY DEF Sides
<1>1. PICK i, a, b, U, V :
            /\ t = At("left", i, Red, a, b) /\ BlackTree(a, h, U) /\ BlackTree(b, h, V)
            /\ Divides("left", i, U, V) /\ S = U \cup {i} \cup V
  BY <1>0, RedParts
<1>2. ~IsRed(a)
  BY <1>1, BlackColour
<1> QED BY <1>1, <1>2 DEF Raw, AnyTree

(* The cases of the code as updates.                                       *)
LEMMA FixInsertionCases ==
  ASSUME NEW l, NEW t, NEW x, x = t[l], NEW r, r = Other(l), NEW c, c = x[r]
  PROVE  /\ IsRed(x) /\ IsRed(t[r]) /\ (IsRed(x[l]) \/ IsRed(c)) =>
              LET u == Put(t, l, Put(x, "red", Blk))
              IN  FixInsertion(t, l) = Put(Put(u, r, Put(u[r], "red", Blk)), "red", Red)
         /\ IsRed(x) /\ ~IsRed(t[r]) /\ IsRed(x[l]) =>
              FixInsertion(t, l) = Put(Put(x, r, Put(Put(t, l, c), "red", Red)), "red", Blk)
         /\ IsRed(x) /\ ~IsRed(t[r]) /\ ~IsRed(x[l]) /\ IsRed(c) =>
              FixInsertion(t, l) =
                Put(Put(Put(c, l, Put(x, r, c[l])), r, Put(Put(t, l, c[r]), "red", Red)), "red", Blk)
         /\ ~IsRed(x) \/ ~(IsRed(x[l]) \/ IsRed(c)) => FixInsertion(t, l) = t
BY DEF FixInsertion, Put, Red, Blk

(* The fix below a black node makes a red-black tree of it again.          *)
LEMMA FixInsertionWorks ==
  ASSUME NEW l \in Sides, NEW i, NEW h, NEW x, NEW b, NEW U, NEW V, h + 1 <= MaxItems,
         BlackTree(x, h, U) \/ Raw(x, h, U), AnyTree(b, h, V), Divides(l, i, U, V)
  PROVE  AnyTree(FixInsertion(At(l, i, Blk, x, b), l), h + 1, U \cup {i} \cup V)
<1> DEFINE t == At(l, i, Blk, x, b)
           r == Other(l)
           S == U \cup {i} \cup V
<1>0. t[l] = x /\ t[r] = b
  BY AtFields
<1>1. CASE BlackTree(x, h, U)
  <2>1. FixInsertion(t, l) = t
    <3> HIDE DEF t
    <3> QED BY <1>0, <1>1, BlackColour, FixInsertionCases
  <2>2. BlackTree(t, h + 1, S)
    BY <1>1, BlackNode DEF AnyTree
  <2> QED BY <2>1, <2>2 DEF AnyTree
<1>2. CASE Raw(x, h, U)
  <2>1. PICK j, p, q, P, Q :
            /\ x = At(l, j, Red, p, q) /\ AnyTree(p, h, P) /\ AnyTree(q, h, Q)
            /\ ~(IsRed(p) /\ IsRed(q))
            /\ Divides(l, j, P, Q) /\ U = P \cup {j} \cup Q
    BY <1>2, RawParts
  <2>2. IsRed(x) /\ x[l] = p /\ x[r] = q
    BY <2>1, Colours, AtFields
  <2>3. Divides(l, i, P \cup {j} \cup Q, V)
    BY <2>1
  <2>4. Divides(l, i, Q, V) /\ Divides(l, j, P, Q \cup {i} \cup V)
    BY <2>1, <2>3, Rotated
  <2>5. CASE ~IsRed(p) /\ ~IsRed(q)
    <3>1. FixInsertion(t, l) = t
      <4> HIDE DEF t
      <4> QED BY <1>0, <2>2, <2>5, FixInsertionCases
    <3>2. BlackTree(p, h, P) /\ BlackTree(q, h, Q)
      BY <2>1, <2>5, AnyColour
    <3>3. AnyTree(x, h, U)
      BY <2>1, <3>2, RedNode DEF AnyTree
    <3>4. BlackTree(t, h + 1, S)
      BY <3>3, BlackNode
    <3> QED BY <3>1, <3>4 DEF AnyTree
  <2>6. CASE IsRed(b) /\ (IsRed(p) \/ IsRed(q))
    <3>1. RedTree(b, h, V)
      BY <2>6, AnyColour
    <3>2. PICK k, u, v, X, Y :
            /\ b = At(l, k, Red, u, v) /\ BlackTree(u, h, X) /\ BlackTree(v, h, Y)
            /\ Divides(l, k, X, Y) /\ V = X \cup {k} \cup Y
      BY <3>1, RedParts
    <3> DEFINE w == Put(t, l, Put(x, "red", Blk))
    <3>3. FixInsertion(t, l) = Put(Put(w, r, Put(w[r], "red", Blk)), "red", Red)
      <4> HIDE DEF t
      <4> QED BY <1>0, <2>2, <2>6, FixInsertionCases
    <3> DEFINE x1 == At(l, j, Blk, p, q)
               b1 == At(l, k, Blk, u, v)
    <3>4. Put(x, "red", Blk) = x1 /\ Put(b, "red", Blk) = b1
      BY <2>1, <3>2, PutAt
    <3>5. w = At(l, i, Blk, x1, b)
      BY <3>4, PutAt
    <3>6. w[r] = b
      BY <3>5, AtFields
    <3> HIDE DEF w, x1, b1, t
    <3>7. FixInsertion(t, l) = At(l, i, Red, x1, b1)
      BY <3>3, <3>4, <3>5, <3>6, PutAt
    <3>8. BlackTree(x1, h + 1, U)
      BY <2>1, BlackNode DEF x1
    <3>9. BlackTree(b1, h + 1, V)
      BY <3>2, BlackNode DEF b1, AnyTree
    <3> QED BY <3>7, <3>8, <3>9, RedNode DEF AnyTree, t
  <2>7. CASE ~IsRed(b) /\ IsRed(p)
    <3>1. FixInsertion(t, l) = Put(Put(x, r, Put(Put(t, l, q), "red", Red)), "red", Blk)
      <4> HIDE DEF t
      <4> QED BY <1>0, <2>2, <2>7, FixInsertionCases
    <3>2. Put(Put(t, l, q), "red", Red) = At(l, i, Red, q, b)
      BY PutAt
    <3>3. FixInsertion(t, l) = At(l, j, Blk, p, At(l, i, Red, q, b))
      <4> HIDE DEF t
      <4> QED BY <2>1, <3>1, <3>2, PutAt
    <3>4. BlackTree(b, h, V) /\ BlackTree(q, h, Q)
      BY <2>1, <2>7, AnyColour
    <3>5. AnyTree(At(l, i, Red, q, b), h, Q \cup {i} \cup V)
      BY <3>4, <2>4, RedNode DEF AnyTree
    <3>6. BlackTree(At(l, j, Blk, p, At(l, i, Red, q, b)), h + 1, P \cup {j} \cup (Q \cup {i} \cup V))
      BY <3>5, <2>1, <2>4, BlackNode
    <3>7. S = P \cup {j} \cup (Q \cup {i} \cup V)
      BY <2>1
    <3> QED BY <3>3, <3>6, <3>7 DEF AnyTree
  <2>8. CASE ~IsRed(b) /\ ~IsRed(p) /\ IsRed(q)
    <3>1. RedTree(q, h, Q) /\ BlackTree(p, h, P) /\ BlackTree(b, h, V)
      BY <2>1, <2>8, AnyColour
    <3>2. PICK k, u, v, X, Y :
            /\ q = At(l, k, Red, u, v) /\ BlackTree(u, h, X) /\ BlackTree(v, h, Y)
            /\ Divides(l, k, X, Y) /\ Q = X \cup {k} \cup Y
      BY <3>1, RedParts
    <3>3. q[l] = u /\ q[r] = v
      BY <3>2, AtFields
    <3>4. FixInsertion(t, l) =
            Put(Put(Put(q, l, Put(x, r, u)), r, Put(Put(t, l, v), "red", Red)), "red", Blk)
      <4> HIDE DEF t
      <4> QED BY <1>0, <2>2, <2>8, <3>3, FixInsertionCases
    <3>5. Put(x, r, u) = At(l, j, Red, p, u)
      BY <2>1, PutAt
    <3>6. Put(Put(t, l, v), "red", Red) = At(l, i, Red, v, b)
      BY PutAt
    <3> DEFINE x1 == At(l, j, Red, p, u)
               b1 == At(l, i, Red, v, b)
    <3> HIDE DEF x1, b1, t
    <3>7. FixInsertion(t, l) = At(l, k, Blk, x1, b1)
      BY <3>2, <3>4, <3>5, <3>6, PutAt DEF x1, b1
    <3>8. /\ Divides(l, i, P \cup {j} \cup (X \cup {k} \cup Y), V)
          /\ Divides(l, j, P, X \cup {k} \cup Y)
      BY <2>1, <3>2
    <3>9. Divides(l, k, P \cup {j} \cup X, Y \cup {i} \cup V)
      BY <3>2, <3>8, RotatedTwice
    <3>10. Divides(l, j, P, X) /\ Divides(l, i, Y, V)
      BY <3>8 DEF Divides
    <3>11. AnyTree(x1, h, P \cup {j} \cup X)
      BY <3>1, <3>2, <3>10, RedNode DEF x1, AnyTree
    <3>12. AnyTree(b1, h, Y \cup {i} \cup V)
      BY <3>1, <3>2, <3>10, RedNode DEF b1, AnyTree
    <3>13. BlackTree(At(l, k, Blk, x1, b1), h + 1, (P \cup {j} \cup X) \cup {k} \cup (Y \cup {i} \cup V))
      BY <3>9, <3>11, <3>12, BlackNode
    <3>14. S = (P \cup {j} \cup X) \cup {k} \cup (Y \cup {i} \cup V)
      BY <2>1, <3>2
    <3> QED BY <3>7, <3>13, <3>14 DEF AnyTree, t
  <2> QED BY <2>5, <2>6, <2>7, <2>8
<1> QED BY <1>1, <1>2

(* One step of the insertion.                                              *)
LEMMA AddedAt ==
  ASSUME NEW e, NEW i, NEW l, l = (IF e < i THEN "left" ELSE "right"), NEW c, NEW a, NEW b,
         NEW t, t \in All, t = At(l, i, c, a, b)
  PROVE  /\ c = Red => AddRecursive(t, e) = At(l, i, Red, AddRecursive(a, e), b)
         /\ c = Blk => AddRecursive(t, e) = FixInsertion(At(l, i, Blk, AddRecursive(a, e), b), l)
<1>1. l \in Sides
  BY DEF Sides
<1>2. t # Nil /\ t.item = i /\ t[l] = a /\ t.red = c
  BY <1>1, AtNotNil, AtFields
<1>3. AddRecursive(t, e) = LET n == [t EXCEPT ![l] = AddRecursive(t[l], e)]
                           IN  IF t.red THEN n ELSE FixInsertion(n, l)
  BY <1>2, AddedDef
<1>4. [t EXCEPT ![l] = AddRecursive(t[l], e)] = Put(t, l, AddRecursive(a, e))
  BY <1>2 DEF Put
<1> DEFINE n == Put(t, l, AddRecursive(a, e))
<1>5. AddRecursive(t, e) = IF t.red THEN n ELSE FixInsertion(n, l)
  BY <1>3, <1>4
<1>6. n = At(l, i, c, AddRecursive(a, e), b)
  BY <1>1, PutAt
<1> HIDE DEF n
<1>7. c = Red => AddRecursive(t, e) = n
  BY <1>2, <1>5 DEF Red
<1>8. c = Blk => AddRecursive(t, e) = FixInsertion(n, l)
  BY <1>2, <1>5 DEF Blk
<1> QED BY <1>6, <1>7, <1>8

(* The subtree on a side is a tree.                                        *)
LEMMA ChildOf ==
  ASSUME NEW l \in Sides, NEW P, NEW t, t.left \in P, t.right \in P
  PROVE  t[l] \in P
BY DEF Sides

(* A number that is new goes to its side of a node.                        *)
LEMMA NewDivides ==
  ASSUME NEW e \in Int, NEW i, NEW l, l = (IF e < i THEN "left" ELSE "right"), NEW U, NEW V,
         Divides(l, i, U, V), e # i
  PROVE  Divides(l, i, U \cup {e}, V)
BY DEF Divides, Less

(* The recursion of the insertion: a tree with a black root stays red-black*)
(* with the same number of black nodes; a red root may get a red child.    *)
LEMMA AddedTree ==
  ASSUME NEW e \in Int
  PROVE  \A t \in All : \A h, S : e \notin S =>
           /\ BlackTree(t, h, S) => AnyTree(AddRecursive(t, e), h, S \cup {e})
           /\ RedTree(t, h, S) => Raw(AddRecursive(t, e), h, S \cup {e})
<1> DEFINE Works(t) == \A h, S : e \notin S =>
                         /\ BlackTree(t, h, S) => AnyTree(AddRecursive(t, e), h, S \cup {e})
                         /\ RedTree(t, h, S) => Raw(AddRecursive(t, e), h, S \cup {e})
           P == {t \in All : Works(t)}
<1>1. Nil \in P
  <2> SUFFICES ASSUME NEW h, NEW S, BlackTree(Nil, h, S)
               PROVE  AnyTree(AddRecursive(Nil, e), h, S \cup {e})
    BY AllTrees, RedColour
  <2>1. h = 0 /\ S = {}
    BY BlackColour, NoBlackNodes
  <2>2. AddRecursive(Nil, e) = [item |-> e, red |-> TRUE, left |-> Nil, right |-> Nil]
    BY AddedDef, AllTrees
  <2>3. AddRecursive(Nil, e) = At("left", e, Red, Nil, Nil)
    BY <2>2 DEF At, Tree, Red
  <2>4. Divides("left", e, {}, {}) /\ "left" \in Sides
    BY DEF Divides, Sides
  <2>5. RedTree(At("left", e, Red, Nil, Nil), 0, {} \cup {e} \cup {})
    BY <2>4, RedNode, NilTree
  <2>6. {} \cup {e} \cup {} = S \cup {e}
    BY <2>1
  <2> QED BY <2>1, <2>3, <2>5, <2>6 DEF AnyTree
<1>2. ASSUME NEW t \in All \ {Nil}, t.left \in P, t.right \in P
      PROVE  t \in P
  <2> SUFFICES ASSUME NEW h, NEW S, e \notin S
               PROVE  /\ BlackTree(t, h, S) => AnyTree(AddRecursive(t, e), h, S \cup {e})
                      /\ RedTree(t, h, S) => Raw(AddRecursive(t, e), h, S \cup {e})
    OBVIOUS
  <2> DEFINE l == IF e < t.item THEN "left" ELSE "right"
  <2>0. l \in Sides
    BY DEF Sides
  <2>1. t[l] \in P
    <3> HIDE DEF P, l
    <3> QED BY <1>2, <2>0, ChildOf
  <2>2. Works(t[l])
    BY <2>1
  <2> HIDE DEF P
  <2>3. ASSUME BlackTree(t, h, S)
        PROVE  AnyTree(AddRecursive(t, e), h, S \cup {e})
    <3>1. h # 0 /\ h \in 0 .. MaxItems
      BY <2>3, NoBlackNodes DEF BlackTree
    <3>2. PICK i, a, b, U, V :
            /\ t = At(l, i, Blk, a, b) /\ AnyTree(a, h - 1, U) /\ AnyTree(b, h - 1, V)
            /\ Divides(l, i, U, V) /\ S = U \cup {i} \cup V
      <4> HIDE DEF l
      <4> QED BY <2>0, <2>3, <3>1, BlackParts
    <3>3. t[l] = a /\ t.item = i /\ e \notin U /\ e # i
      <4>1. t[l] = a /\ t.item = i
        <5> HIDE DEF l
        <5> QED BY <2>0, <3>2, AtFields
      <4> QED BY <3>2, <4>1
    <3> DEFINE x == AddRecursive(a, e)
    <3>4. BlackTree(x, h - 1, U \cup {e}) \/ Raw(x, h - 1, U \cup {e})
      <4>1. AnyTree(x, h - 1, U \cup {e}) \/ Raw(x, h - 1, U \cup {e})
        BY <2>2, <3>2, <3>3 DEF AnyTree
      <4> HIDE DEF x
      <4> QED BY <4>1, RedIsRaw DEF AnyTree
    <3>5. l = IF e < i THEN "left" ELSE "right"
      BY <3>3
    <3> HIDE DEF l
    <3>6. Divides(l, i, U \cup {e}, V)
      BY <3>2, <3>3, <3>5, NewDivides
    <3>7. AddRecursive(t, e) = FixInsertion(At(l, i, Blk, x, b), l)
      BY <3>2, <3>5, AddedAt
    <3> HIDE DEF x
    <3>8. AnyTree(FixInsertion(At(l, i, Blk, x, b), l), (h - 1) + 1, (U \cup {e}) \cup {i} \cup V)
      BY <2>0, <3>1, <3>2, <3>4, <3>6, FixInsertionWorks, MaxAssumption
    <3>9. (U \cup {e}) \cup {i} \cup V = S \cup {e} /\ (h - 1) + 1 = h
      BY <3>1, <3>2
    <3> QED BY <3>7, <3>8, <3>9
  <2>4. ASSUME RedTree(t, h, S)
        PROVE  Raw(AddRecursive(t, e), h, S \cup {e})
    <3>2. PICK i, a, b, U, V :
            /\ t = At(l, i, Red, a, b) /\ BlackTree(a, h, U) /\ BlackTree(b, h, V)
            /\ Divides(l, i, U, V) /\ S = U \cup {i} \cup V
      <4> HIDE DEF l
      <4> QED BY <2>0, <2>4, RedParts
    <3>3. t[l] = a /\ t.item = i /\ e \notin U /\ e # i
      <4>1. t[l] = a /\ t.item = i
        <5> HIDE DEF l
        <5> QED BY <2>0, <3>2, AtFields
      <4> QED BY <3>2, <4>1
    <3> DEFINE x == AddRecursive(a, e)
    <3>4. AnyTree(x, h, U \cup {e})
      BY <2>2, <3>2, <3>3
    <3>5. l = IF e < i THEN "left" ELSE "right"
      BY <3>3
    <3> HIDE DEF l
    <3>6. Divides(l, i, U \cup {e}, V)
      BY <3>2, <3>3, <3>5, NewDivides
    <3>7. AddRecursive(t, e) = At(l, i, Red, x, b)
      BY <3>2, <3>5, AddedAt
    <3>8. ~IsRed(b)
      BY <3>2, BlackColour
    <3> HIDE DEF x
    <3>9. Raw(At(l, i, Red, x, b), h, (U \cup {e}) \cup {i} \cup V)
      BY <2>0, <3>2, <3>4, <3>6, <3>8, RawNode DEF AnyTree
    <3>10. (U \cup {e}) \cup {i} \cup V = S \cup {e}
      BY <3>2
    <3> QED BY <3>7, <3>9, <3>10
  <2> QED BY <2>3, <2>4
<1>3. All \subseteq P
  <2> HIDE DEF P
  <2> QED BY <1>1, <1>2, TreeInduction
<1> QED BY <1>3

(* An insertion keeps or raises the number of black nodes on every path.   *)
LEMMA AddToWorks ==
  ASSUME NEW e \in Int, NEW t \in All, NEW h, NEW S, BlackTree(t, h, S), e \notin S, h < MaxItems
  PROVE  BlackTree(AddTo(t, e), h, S \cup {e}) \/ BlackTree(AddTo(t, e), h + 1, S \cup {e})
<1> DEFINE n == AddRecursive(t, e)
           T == S \cup {e}
<1>0. "left" \in Sides
  BY DEF Sides
<1>1. AnyTree(n, h, T)
  BY AddedTree
<1>2. AddTo(t, e) = Put(n, "red", Blk)
  BY DEF AddTo, Put, Blk
<1>3. T # {}
  OBVIOUS
<1>6. h \in 0 .. MaxItems /\ h + 1 <= MaxItems
  BY MaxAssumption DEF BlackTree
<1> HIDE DEF n, T
<1>4. CASE BlackTree(n, h, T)
  <2>1. h # 0
    BY <1>3, <1>4, NoBlackNodes
  <2>2. PICK i, a, b, U, V : n = At("left", i, Blk, a, b)
    BY <1>0, <1>4, <2>1, BlackParts
  <2>3. Put(n, "red", Blk) = n
    BY <1>0, <2>2, PutAt
  <2> QED BY <1>2, <1>4, <2>3 DEF T
<1>5. CASE RedTree(n, h, T)
  <2>1. PICK i, a, b, U, V :
            /\ n = At("left", i, Red, a, b) /\ BlackTree(a, h, U) /\ BlackTree(b, h, V)
            /\ Divides("left", i, U, V) /\ T = U \cup {i} \cup V
    BY <1>0, <1>5, RedParts
  <2>2. Put(n, "red", Blk) = At("left", i, Blk, a, b)
    BY <1>0, <2>1, PutAt
  <2>3. BlackTree(At("left", i, Blk, a, b), h + 1, U \cup {i} \cup V)
    BY <1>0, <1>6, <2>1, BlackNode DEF AnyTree
  <2> QED BY <1>2, <2>1, <2>2, <2>3 DEF T
<1> QED BY <1>1, <1>4, <1>5 DEF AnyTree

-----------------------------------------------------------------------------
(* Deletion.                                                               *)

(* The rotations as updates, and what they make of nodes.                  *)
LEMMA RotationUpdates ==
  ASSUME NEW t, NEW l, NEW r, r = Other(l), NEW b, b = t[l], NEW c, c = b[r], NEW d, d = c[r]
  PROVE  /\ Rotate1(t, l) = Put(b, r, Put(t, l, c))
         /\ Rotate2(t, l) = Put(Put(c, l, Put(b, r, c[l])), r, Put(t, l, c[r]))
         /\ Rotate3(t, l) = Put(Put(d, l, Put(b, r, Put(c, r, d[l]))), r, Put(t, l, d[r]))
<1>1. Rotate1(t, l) = Put(b, r, Put(t, l, c))
  BY DEF Rotate1, Put
<1>2. Rotate2(t, l) = Put(Put(c, l, Put(b, r, c[l])), r, Put(t, l, c[r]))
  BY DEF Rotate2, Put
<1>3. Rotate3(t, l) = Put(Put(d, l, Put(b, r, Put(c, r, d[l]))), r, Put(t, l, d[r]))
  BY DEF Rotate3, Put
<1> QED BY <1>1, <1>2, <1>3

(* The child is lifted.                                                    *)
LEMMA Rotate1At ==
  ASSUME NEW l \in Sides, NEW i, NEW c, NEW j, NEW d, NEW p, NEW q, NEW v
  PROVE  Rotate1(At(l, i, c, At(l, j, d, p, q), v), l) = At(l, j, d, p, At(l, i, c, q, v))
<1> DEFINE b == At(l, j, d, p, q)
           t == At(l, i, c, b, v)
<1>1. t[l] = b /\ b[Other(l)] = q
  BY AtFields
<1>2. Put(t, l, q) = At(l, i, c, q, v)
  BY PutAt
<1> HIDE DEF t
<1>3. Rotate1(t, l) = Put(b, Other(l), Put(t, l, q))
  <2> HIDE DEF b
  <2> QED BY <1>1, RotationUpdates
<1> QED BY <1>2, <1>3, PutAt DEF t

(* The child's child on the other side is lifted.                          *)
LEMMA Rotate2At ==
  ASSUME NEW l \in Sides, NEW i, NEW c, NEW j, NEW d, NEW k, NEW e, NEW p, NEW x, NEW y, NEW v
  PROVE  Rotate2(At(l, i, c, At(l, j, d, p, At(l, k, e, x, y)), v), l)
           = At(l, k, e, At(l, j, d, p, x), At(l, i, c, y, v))
<1> DEFINE q == At(l, k, e, x, y)
           b == At(l, j, d, p, q)
           t == At(l, i, c, b, v)
<1>1. t[l] = b /\ b[Other(l)] = q /\ q[l] = x /\ q[Other(l)] = y
  BY AtFields
<1>2. Put(t, l, y) = At(l, i, c, y, v) /\ Put(b, Other(l), x) = At(l, j, d, p, x)
  BY PutAt
<1> HIDE DEF t, b
<1>3. Rotate2(t, l) = Put(Put(q, l, Put(b, Other(l), x)), Other(l), Put(t, l, y))
  <2> HIDE DEF q
  <2> QED BY <1>1, RotationUpdates
<1> QED BY <1>2, <1>3, PutAt DEF t, b

(* The child of that one on the other side is lifted.                      *)
LEMMA Rotate3At ==
  ASSUME NEW l \in Sides, NEW i, NEW c, NEW j, NEW d, NEW k, NEW e, NEW m, NEW f,
         NEW p, NEW x, NEW y, NEW z, NEW v
  PROVE  Rotate3(At(l, i, c, At(l, j, d, p, At(l, k, e, x, At(l, m, f, y, z))), v), l)
           = At(l, m, f, At(l, j, d, p, At(l, k, e, x, y)), At(l, i, c, z, v))
<1> DEFINE w == At(l, m, f, y, z)
           q == At(l, k, e, x, w)
           b == At(l, j, d, p, q)
           t == At(l, i, c, b, v)
<1>1. t[l] = b /\ b[Other(l)] = q /\ q[Other(l)] = w /\ w[l] = y /\ w[Other(l)] = z
  BY AtFields
<1>2. Put(t, l, z) = At(l, i, c, z, v) /\ Put(q, Other(l), y) = At(l, k, e, x, y)
  BY PutAt
<1>3. Put(b, Other(l), At(l, k, e, x, y)) = At(l, j, d, p, At(l, k, e, x, y))
  BY PutAt
<1> HIDE DEF t, b, q
<1>4. Rotate3(t, l) = Put(Put(w, l, Put(b, Other(l), Put(q, Other(l), y))), Other(l), Put(t, l, z))
  <2> HIDE DEF w
  <2> QED BY <1>1, RotationUpdates
<1> QED BY <1>2, <1>3, <1>4, PutAt DEF t, b, q

(* What is left of a tree with a black root and h black nodes on a path,   *)
(* or with a red root, when an item was deleted from it.                   *)
FromBlack(f, h, S) ==
  /\ DOMAIN f = {"tree", "shrunk", "ok"} /\ f.ok
  /\ \/ ~f.shrunk /\ BlackTree(f.tree, h, S)
     \/ f.shrunk /\ h # 0 /\ BlackTree(f.tree, h - 1, S)

FromRed(f, h, S) ==
  DOMAIN f = {"tree", "shrunk", "ok"} /\ f.ok /\ ~f.shrunk /\ AnyTree(f.tree, h, S)

(* A tree of the right kind is what is left.                               *)
LEMMA Outcomes ==
  ASSUME NEW t, NEW h, NEW S
  PROVE  /\ BlackTree(t, h, S) => FromBlack(Result(t, FALSE, TRUE), h, S)
         /\ h # 0 /\ BlackTree(t, h - 1, S) => FromBlack(Result(t, TRUE, TRUE), h, S)
         /\ AnyTree(t, h, S) => FromRed(Result(t, FALSE, TRUE), h, S)
BY DEF Result, FromBlack, FromRed

Colour(t) == t.red

(* The cases of the code as updates.                                       *)
LEMMA FixBlackSiblingRecolours ==
  ASSUME NEW l, NEW t, NEW b, b = t[l], ~IsRed(b[l]), ~IsRed(b[Other(l)])
  PROVE  LET w == Put(t, "red", Blk)
         IN  FixBlackSibling(t, l) = Result(Put(w, l, Put(w[l], "red", Red)), ~t.red, TRUE)
BY DEF FixBlackSibling, Put, Red, Blk

(* The subtree k of t gets a black root.                                   *)
Dark(t, k) == Put(t, k, Put(t[k], "red", Blk))

(* The cases of FixBlackSibling that rotate.                               *)
LEMMA FixBlackSiblingCases ==
  ASSUME NEW l, NEW t
  PROVE  /\ IsRed(t[l][l]) /\ ~IsRed(t[l][Other(l)]) =>
              FixBlackSibling(t, l) =
                Result(Dark(Dark(Put(Rotate1(t, l), "red", Colour(t)), Other(l)), l), FALSE, TRUE)
         /\ IsRed(t[l][Other(l)]) =>
              FixBlackSibling(t, l) =
                Result(Dark(Put(Rotate2(t, l), "red", Colour(t)), Other(l)), FALSE, TRUE)
BY DEF FixBlackSibling, Put, Red, Blk, Colour, Dark

(* What blackening a child does to a node.                                 *)
LEMMA DarkAt ==
  ASSUME NEW l \in Sides, NEW i, NEW c, NEW j, NEW d, NEW a, NEW b, NEW x
  PROVE  /\ Dark(At(l, i, c, At(l, j, d, a, b), x), l) = At(l, i, c, At(l, j, Blk, a, b), x)
         /\ Dark(At(l, i, c, x, At(l, j, d, a, b)), Other(l)) = At(l, i, c, x, At(l, j, Blk, a, b))
<1> DEFINE n == At(l, j, d, a, b)
<1>1. Put(n, "red", Blk) = At(l, j, Blk, a, b)
  BY PutAt
<1> HIDE DEF n
<1>2. At(l, i, c, n, x)[l] = n /\ At(l, i, c, x, n)[Other(l)] = n
  BY AtFields
<1> QED BY <1>1, <1>2, PutAt DEF Dark, n

(* The subtree m of the subtree k of t gets a root of colour c.            *)
Under(t, k, m, c) == Put(t, k, Put(t[k], m, Put(t[k][m], "red", c)))

(* The cases of FixRedSibling below which there is a node c.               *)
LEMMA FixRedSiblingCases ==
  ASSUME NEW l, NEW t, IsBlack(t[l][Other(l)])
  PROVE  /\ ~IsRed(t[l][Other(l)][l]) /\ ~IsRed(t[l][Other(l)][Other(l)]) =>
              FixRedSibling(t, l) =
                Result(Under(Put(Rotate1(t, l), "red", Blk), Other(l), l, Red), FALSE, TRUE)
         /\ IsRed(t[l][Other(l)][Other(l)]) =>
              FixRedSibling(t, l) = Result(Put(Rotate3(t, l), "red", Blk), FALSE, TRUE)
         /\ IsRed(t[l][Other(l)][l]) /\ ~IsRed(t[l][Other(l)][Other(l)]) =>
              FixRedSibling(t, l) = Result(Under(Rotate2(t, l), l, Other(l), Blk), FALSE, TRUE)
<1> DEFINE c == t[l][Other(l)]
<1>0. c # Nil /\ ~c.red
  BY DEF IsBlack
<1>1. ASSUME ~IsRed(c[l]), ~IsRed(c[Other(l)])
      PROVE  FixRedSibling(t, l) =
                Result(Under(Put(Rotate1(t, l), "red", Blk), Other(l), l, Red), FALSE, TRUE)
  BY <1>0, <1>1 DEF FixRedSibling, Put, Red, Blk, Under
<1>2. ASSUME IsRed(c[Other(l)])
      PROVE  FixRedSibling(t, l) = Result(Put(Rotate3(t, l), "red", Blk), FALSE, TRUE)
  BY <1>0, <1>2 DEF FixRedSibling, Put, Red, Blk
<1>3. ASSUME IsRed(c[l]), ~IsRed(c[Other(l)])
      PROVE  FixRedSibling(t, l) = Result(Under(Rotate2(t, l), l, Other(l), Blk), FALSE, TRUE)
  BY <1>0, <1>3 DEF FixRedSibling, Put, Red, Blk, Under
<1> QED BY <1>1, <1>2, <1>3

(* What colouring a child's child does to a node.                          *)
LEMMA UnderAt ==
  ASSUME NEW l \in Sides, NEW i, NEW c, NEW j, NEW d, NEW k, NEW e, NEW f,
         NEW a, NEW u, NEW v, NEW x
  PROVE  /\ Under(At(l, i, c, a, At(l, j, d, At(l, k, e, u, v), x)), Other(l), l, f)
              = At(l, i, c, a, At(l, j, d, At(l, k, f, u, v), x))
         /\ Under(At(l, i, c, At(l, j, d, x, At(l, k, e, u, v)), a), l, Other(l), f)
              = At(l, i, c, At(l, j, d, x, At(l, k, f, u, v)), a)
<1> DEFINE n == At(l, k, e, u, v)
           m == At(l, j, d, n, x)
           w == At(l, j, d, x, n)
<1>1. Put(n, "red", f) = At(l, k, f, u, v)
  BY PutAt
<1>2. m[l] = n /\ w[Other(l)] = n
  BY AtFields
<1>3. /\ Put(m, l, At(l, k, f, u, v)) = At(l, j, d, At(l, k, f, u, v), x)
      /\ Put(w, Other(l), At(l, k, f, u, v)) = At(l, j, d, x, At(l, k, f, u, v))
  BY PutAt
<1> HIDE DEF n, m, w
<1>4. At(l, i, c, a, m)[Other(l)] = m /\ At(l, i, c, w, a)[l] = w
  BY AtFields
<1>5. Under(At(l, i, c, a, m), Other(l), l, f) = At(l, i, c, a, At(l, j, d, At(l, k, f, u, v), x))
  BY <1>1, <1>2, <1>3, <1>4, PutAt DEF Under
<1>6. Under(At(l, i, c, w, a), l, Other(l), f) = At(l, i, c, At(l, j, d, x, At(l, k, f, u, v)), a)
  BY <1>1, <1>2, <1>3, <1>4, PutAt DEF Under
<1> QED BY <1>5, <1>6 DEF n, m, w

(* A subtree with a black root can be put under any node, and the node     *)
(* then counts or does not by its colour.                                  *)
LEMMA ColouredNode ==
  ASSUME NEW l \in Sides, NEW i, NEW g, NEW a, NEW b, NEW U, NEW V,
         BlackTree(a, g, U), BlackTree(b, g, V), Divides(l, i, U, V),
         NEW c, c = Red \/ (c = Blk /\ g + 1 <= MaxItems)
  PROVE  /\ c = Red => RedTree(At(l, i, c, a, b), g, U \cup {i} \cup V)
         /\ c = Blk => BlackTree(At(l, i, c, a, b), g + 1, U \cup {i} \cup V)
<1>1. ASSUME c = Red
      PROVE  RedTree(At(l, i, c, a, b), g, U \cup {i} \cup V)
  BY <1>1, RedNode
<1>2. ASSUME c = Blk
      PROVE  BlackTree(At(l, i, c, a, b), g + 1, U \cup {i} \cup V)
  <2>1. Red # Blk
    BY DEF Red, Blk
  <2> QED BY <1>2, <2>1, BlackNode DEF AnyTree
<1> QED BY <1>1, <1>2

(* The tree after a deletion below a node of colour c, when the subtrees   *)
(* of the node had g + 1 black nodes on a path.                            *)
After(f, c, g, S) == /\ c = Blk => FromBlack(f, g + 2, S)
                     /\ c = Red => FromRed(f, g + 1, S)

(* A node over two subtrees of the same depth is as deep as before.        *)
LEMMA AfterNode ==
  ASSUME NEW l \in Sides, NEW i, NEW g \in Nat, NEW a, NEW b, NEW U, NEW V,
         BlackTree(a, g + 1, U), BlackTree(b, g + 1, V), Divides(l, i, U, V),
         NEW c, c = Red \/ (c = Blk /\ g + 2 <= MaxItems)
  PROVE  After(Result(At(l, i, c, a, b), FALSE, TRUE), c, g, U \cup {i} \cup V)
<1> DEFINE n == At(l, i, c, a, b)
           S == U \cup {i} \cup V
<1>0. (g + 1) + 1 = g + 2
  OBVIOUS
<1>1. c = Red => RedTree(n, g + 1, S)
  BY <1>0, ColouredNode
<1>2. c = Blk => BlackTree(n, g + 2, S)
  BY <1>0, ColouredNode
<1> HIDE DEF n, S
<1>3. ASSUME c = Blk
      PROVE  FromBlack(Result(n, FALSE, TRUE), g + 2, S)
  BY <1>2, <1>3, Outcomes
<1>4. ASSUME c = Red
      PROVE  FromRed(Result(n, FALSE, TRUE), g + 1, S)
  BY <1>1, <1>4, Outcomes DEF AnyTree
<1>5. After(Result(n, FALSE, TRUE), c, g, S)
  BY <1>3, <1>4 DEF After
<1> QED BY <1>5 DEF n, S

(* The sibling b of the subtree x that lost a black node is black.         *)
LEMMA FixBlackSiblingWorks ==
  ASSUME NEW l \in Sides, NEW i, NEW g \in Nat, NEW b, NEW x, NEW U, NEW V,
         BlackTree(b, g + 1, U), BlackTree(x, g, V), Divides(l, i, U, V),
         NEW c, c = Red \/ (c = Blk /\ g + 2 <= MaxItems)
  PROVE  After(FixBlackSibling(At(l, i, c, b, x), l), c, g, U \cup {i} \cup V)
<1> DEFINE t == At(l, i, c, b, x)
           r == Other(l)
           S == U \cup {i} \cup V
<1>0. /\ t[l] = b /\ t[r] = x /\ t.red = c
      /\ g + 1 <= MaxItems /\ g + 1 # 0 /\ (g + 1) - 1 = g
  <2>1. t[l] = b /\ t[r] = x /\ t.red = c
    BY AtFields
  <2>2. g + 1 \in 0 .. MaxItems
    BY DEF BlackTree
  <2> QED BY <2>1, <2>2, MaxAssumption
<1>9. t[l] = b /\ Colour(t) = c
  BY <1>0 DEF Colour
<1>1. PICK j, p, q, P, Q :
         /\ b = At(l, j, Blk, p, q) /\ AnyTree(p, g, P) /\ AnyTree(q, g, Q)
         /\ Divides(l, j, P, Q) /\ U = P \cup {j} \cup Q
  BY <1>0, BlackParts
<1>2. b[l] = p /\ b[r] = q
  BY <1>1, AtFields
<1>3. Divides(l, i, P \cup {j} \cup Q, V)
  BY <1>1
<1>4. Divides(l, i, Q, V) /\ Divides(l, j, P, Q \cup {i} \cup V)
  BY <1>1, <1>3, Rotated
<1>5. CASE ~IsRed(p) /\ ~IsRed(q)
  <2>1. BlackTree(p, g, P) /\ BlackTree(q, g, Q)
    BY <1>1, <1>5, AnyColour
  <2> DEFINE w == Put(t, "red", Blk)
             b1 == At(l, j, Red, p, q)
             n == At(l, i, Blk, b1, x)
  <2>2. FixBlackSibling(t, l) = Result(Put(w, l, Put(w[l], "red", Red)), ~t.red, TRUE)
    <3> HIDE DEF t
    <3> QED BY <1>9, <1>2, <1>5, FixBlackSiblingRecolours
  <2>3. w = At(l, i, Blk, b, x)
    BY PutAt
  <2>4. w[l] = b
    BY <2>3, AtFields
  <2>5. Put(b, "red", Red) = b1
    BY <1>1, PutAt
  <2>6. Put(w, l, Put(w[l], "red", Red)) = n
    <3> HIDE DEF w, b1
    <3> QED BY <2>3, <2>4, <2>5, PutAt
  <2>7. RedTree(b1, g, U)
    BY <1>1, <2>1, RedNode
  <2>8. BlackTree(n, g + 1, S)
    <3> HIDE DEF b1
    <3> QED BY <1>0, <2>7, BlackNode DEF AnyTree
  <2>9. FixBlackSibling(t, l) = Result(n, ~c, TRUE)
    <3> HIDE DEF n, w, t
    <3> QED BY <1>0, <2>2, <2>6
  <2> HIDE DEF n, t, S
  <2>10. ASSUME c = Blk
         PROVE  FromBlack(FixBlackSibling(t, l), g + 2, S)
    <3>1. FixBlackSibling(t, l) = Result(n, TRUE, TRUE)
      BY <2>9, <2>10 DEF Blk
    <3>2. g + 2 # 0 /\ (g + 2) - 1 = g + 1
      OBVIOUS
    <3> QED BY <2>8, <3>1, <3>2, Outcomes
  <2>11. ASSUME c = Red
         PROVE  FromRed(FixBlackSibling(t, l), g + 1, S)
    <3>1. FixBlackSibling(t, l) = Result(n, FALSE, TRUE)
      BY <2>9, <2>11 DEF Red
    <3> QED BY <2>8, <3>1, Outcomes DEF AnyTree
  <2> QED BY <2>10, <2>11 DEF After, t, S
<1>6. CASE IsRed(p) /\ ~IsRed(q)
  <2>1. RedTree(p, g, P) /\ BlackTree(q, g, Q)
    BY <1>1, <1>6, AnyColour
  <2>2. PICK k, u, v, X, Y :
          /\ p = At(l, k, Red, u, v) /\ BlackTree(u, g, X) /\ BlackTree(v, g, Y)
          /\ Divides(l, k, X, Y) /\ P = X \cup {k} \cup Y
    BY <2>1, RedParts
  <2> DEFINE p1 == At(l, k, Blk, u, v)
             n == At(l, i, Blk, q, x)
  <2>3. FixBlackSibling(t, l) =
          Result(Dark(Dark(Put(Rotate1(t, l), "red", Colour(t)), Other(l)), l), FALSE, TRUE)
    <3>1. IsRed(t[l][l]) /\ ~IsRed(t[l][Other(l)])
      BY <1>0, <1>2, <1>6
    <3> HIDE DEF t
    <3> QED BY <3>1, FixBlackSiblingCases
  <2>4. Rotate1(t, l) = At(l, j, Blk, p, At(l, i, c, q, x))
    BY <1>1, Rotate1At
  <2>5. Put(Rotate1(t, l), "red", Colour(t)) = At(l, j, c, p, At(l, i, c, q, x))
    <3> HIDE DEF t
    <3> QED BY <1>9, <2>4, PutAt
  <2>6. Dark(At(l, j, c, p, At(l, i, c, q, x)), Other(l)) = At(l, j, c, p, n)
    BY DarkAt
  <2>7. Dark(At(l, j, c, p, n), l) = At(l, j, c, p1, n)
    <3> HIDE DEF n
    <3> QED BY <2>2, DarkAt
  <2>12. BlackTree(p1, g + 1, P)
    BY <1>0, <2>2, BlackNode DEF AnyTree
  <2>13. BlackTree(n, g + 1, Q \cup {i} \cup V)
    BY <1>0, <1>4, <2>1, BlackNode DEF AnyTree
  <2>14. S = P \cup {j} \cup (Q \cup {i} \cup V)
    BY <1>1
  <2> HIDE DEF n, p1, t, S
  <2>15. After(Result(At(l, j, c, p1, n), FALSE, TRUE), c, g, P \cup {j} \cup (Q \cup {i} \cup V))
    BY <1>4, <2>12, <2>13, AfterNode
  <2>16. FixBlackSibling(t, l) = Result(At(l, j, c, p1, n), FALSE, TRUE)
    BY <2>3, <2>5, <2>6, <2>7
  <2>17. After(FixBlackSibling(t, l), c, g, S)
    BY <2>14, <2>15, <2>16
  <2> QED BY <2>17 DEF t, S
<1>7. CASE IsRed(q)
  <2>1. RedTree(q, g, Q)
    BY <1>1, <1>7, AnyColour
  <2>2. PICK k, u, v, X, Y :
          /\ q = At(l, k, Red, u, v) /\ BlackTree(u, g, X) /\ BlackTree(v, g, Y)
          /\ Divides(l, k, X, Y) /\ Q = X \cup {k} \cup Y
    BY <2>1, RedParts
  <2> DEFINE b1 == At(l, j, Blk, p, u)
             n == At(l, i, Blk, v, x)
  <2>3. FixBlackSibling(t, l) =
          Result(Dark(Put(Rotate2(t, l), "red", Colour(t)), Other(l)), FALSE, TRUE)
    <3>1. IsRed(t[l][Other(l)])
      BY <1>0, <1>2, <1>7
    <3> HIDE DEF t
    <3> QED BY <3>1, FixBlackSiblingCases
  <2>4. Rotate2(t, l) = At(l, k, Red, b1, At(l, i, c, v, x))
    BY <1>1, <2>2, Rotate2At
  <2>5. Put(Rotate2(t, l), "red", Colour(t)) = At(l, k, c, b1, At(l, i, c, v, x))
    <3> HIDE DEF t, b1
    <3> QED BY <1>9, <2>4, PutAt
  <2>6. Dark(At(l, k, c, b1, At(l, i, c, v, x)), Other(l)) = At(l, k, c, b1, n)
    <3> HIDE DEF b1
    <3> QED BY DarkAt
  <2>9. /\ Divides(l, i, P \cup {j} \cup (X \cup {k} \cup Y), V)
        /\ Divides(l, j, P, X \cup {k} \cup Y)
    BY <1>1, <2>2
  <2>10. Divides(l, k, P \cup {j} \cup X, Y \cup {i} \cup V)
    BY <2>2, <2>9, RotatedTwice
  <2>11. Divides(l, j, P, X) /\ Divides(l, i, Y, V)
    BY <2>9 DEF Divides
  <2>12. BlackTree(b1, g + 1, P \cup {j} \cup X)
    BY <1>0, <1>1, <2>2, <2>11, BlackNode DEF AnyTree
  <2>13. BlackTree(n, g + 1, Y \cup {i} \cup V)
    BY <1>0, <2>2, <2>11, BlackNode DEF AnyTree
  <2>14. S = (P \cup {j} \cup X) \cup {k} \cup (Y \cup {i} \cup V)
    BY <1>1, <2>2
  <2> HIDE DEF n, b1, t, S
  <2>15. After(Result(At(l, k, c, b1, n), FALSE, TRUE), c, g,
               (P \cup {j} \cup X) \cup {k} \cup (Y \cup {i} \cup V))
    BY <2>10, <2>12, <2>13, AfterNode
  <2>16. FixBlackSibling(t, l) = Result(At(l, k, c, b1, n), FALSE, TRUE)
    BY <2>3, <2>5, <2>6
  <2>17. After(FixBlackSibling(t, l), c, g, S)
    BY <2>14, <2>15, <2>16
  <2> QED BY <2>17 DEF t, S
<1> QED BY <1>5, <1>6, <1>7

(* The sibling is red, and the node above them black.                      *)
LEMMA FixRedSiblingWorks ==
  ASSUME NEW l \in Sides, NEW i, NEW g \in Nat, NEW b, NEW x, NEW U, NEW V, g + 2 <= MaxItems,
         RedTree(b, g + 1, U), BlackTree(x, g, V), Divides(l, i, U, V)
  PROVE  FromBlack(FixRedSibling(At(l, i, Blk, b, x), l), g + 2, U \cup {i} \cup V)
<1> DEFINE t == At(l, i, Blk, b, x)
           S == U \cup {i} \cup V
<1>0. g + 1 <= MaxItems /\ g + 1 # 0 /\ (g + 1) - 1 = g /\ (g + 1) + 1 = g + 2
  BY MaxAssumption
<1>1. PICK j, p, q, P, Q :
         /\ b = At(l, j, Red, p, q) /\ BlackTree(p, g + 1, P) /\ BlackTree(q, g + 1, Q)
         /\ Divides(l, j, P, Q) /\ U = P \cup {j} \cup Q
  BY RedParts
<1>2. PICK k, u, v, X, Y :
         /\ q = At(l, k, Blk, u, v) /\ AnyTree(u, g, X) /\ AnyTree(v, g, Y)
         /\ Divides(l, k, X, Y) /\ Q = X \cup {k} \cup Y
  BY <1>0, <1>1, BlackParts
<1>3. t[l][Other(l)] = q /\ q[l] = u /\ q[Other(l)] = v /\ IsBlack(q)
  <2>1. t[l] = b /\ b[Other(l)] = q
    BY <1>1, AtFields
  <2> QED BY <1>2, <2>1, AtFields, Colours
<1>4. Divides(l, i, P \cup {j} \cup Q, V)
  BY <1>1
<1>5. Divides(l, i, Q, V) /\ Divides(l, j, P, Q \cup {i} \cup V)
  BY <1>1, <1>4, Rotated
<1>6. ASSUME NEW n, BlackTree(n, g + 2, S), FixRedSibling(t, l) = Result(n, FALSE, TRUE)
      PROVE  FromBlack(FixRedSibling(t, l), g + 2, S)
  BY <1>6, Outcomes
<1>7. CASE ~IsRed(u) /\ ~IsRed(v)
  <2>1. BlackTree(u, g, X) /\ BlackTree(v, g, Y)
    BY <1>2, <1>7, AnyColour
  <2> DEFINE q1 == At(l, k, Red, u, v)
             i1 == At(l, i, Blk, q1, x)
             n == At(l, j, Blk, p, i1)
  <2>2. FixRedSibling(t, l) =
          Result(Under(Put(Rotate1(t, l), "red", Blk), Other(l), l, Red), FALSE, TRUE)
    <3> HIDE DEF t
    <3> QED BY <1>3, <1>7, FixRedSiblingCases
  <2>3. Rotate1(t, l) = At(l, j, Red, p, At(l, i, Blk, q, x))
    BY <1>1, Rotate1At
  <2>4. Put(Rotate1(t, l), "red", Blk) = At(l, j, Blk, p, At(l, i, Blk, q, x))
    <3> HIDE DEF t
    <3> QED BY <2>3, PutAt
  <2>5. Under(At(l, j, Blk, p, At(l, i, Blk, q, x)), Other(l), l, Red) = n
    BY <1>2, UnderAt
  <2>6. AnyTree(q1, g, Q)
    BY <1>2, <2>1, RedNode DEF AnyTree
  <2>7. AnyTree(i1, g + 1, Q \cup {i} \cup V)
    <3> HIDE DEF q1
    <3> QED BY <1>0, <1>5, <2>6, BlackNode DEF AnyTree
  <2>8. BlackTree(n, g + 2, P \cup {j} \cup (Q \cup {i} \cup V))
    <3> HIDE DEF i1
    <3> QED BY <1>0, <1>1, <1>5, <2>7, BlackNode DEF AnyTree
  <2>9. S = P \cup {j} \cup (Q \cup {i} \cup V)
    BY <1>1
  <2> HIDE DEF n, t, S
  <2>20. FromBlack(FixRedSibling(t, l), g + 2, S)
    BY <1>6, <2>2, <2>4, <2>5, <2>8, <2>9
  <2> QED BY <2>20 DEF t, S
<1>8. CASE IsRed(v)
  <2>1. RedTree(v, g, Y)
    BY <1>2, <1>8, AnyColour
  <2>2. PICK m, y, z, Y1, Z :
          /\ v = At(l, m, Red, y, z) /\ BlackTree(y, g, Y1) /\ BlackTree(z, g, Z)
          /\ Divides(l, m, Y1, Z) /\ Y = Y1 \cup {m} \cup Z
    BY <2>1, RedParts
  <2> DEFINE q1 == At(l, k, Blk, u, y)
             b1 == At(l, j, Red, p, q1)
             i1 == At(l, i, Blk, z, x)
             n == At(l, m, Blk, b1, i1)
  <2>3. FixRedSibling(t, l) = Result(Put(Rotate3(t, l), "red", Blk), FALSE, TRUE)
    <3> HIDE DEF t
    <3> QED BY <1>3, <1>8, FixRedSiblingCases
  <2>4. Rotate3(t, l) = At(l, m, Red, b1, i1)
    BY <1>1, <1>2, <2>2, Rotate3At
  <2>5. Put(Rotate3(t, l), "red", Blk) = n
    <3> HIDE DEF t, b1, i1
    <3> QED BY <2>4, PutAt
  <2>6. /\ Divides(l, i, P \cup {j} \cup (X \cup {k} \cup (Y1 \cup {m} \cup Z)), V)
        /\ Divides(l, j, P, X \cup {k} \cup (Y1 \cup {m} \cup Z))
        /\ Divides(l, k, X, Y1 \cup {m} \cup Z)
    BY <1>1, <1>2, <2>2
  <2>7. Divides(l, m, P \cup {j} \cup (X \cup {k} \cup Y1), Z \cup {i} \cup V)
    BY <2>2, <2>6, RotatedThrice
  <2>8. Divides(l, k, X, Y1) /\ Divides(l, j, P, X \cup {k} \cup Y1) /\ Divides(l, i, Z, V)
    BY <2>6 DEF Divides
  <2>9. BlackTree(q1, g + 1, X \cup {k} \cup Y1)
    BY <1>0, <1>2, <2>2, <2>8, BlackNode DEF AnyTree
  <2>10. AnyTree(b1, g + 1, P \cup {j} \cup (X \cup {k} \cup Y1))
    <3> HIDE DEF q1
    <3> QED BY <1>1, <2>8, <2>9, RedNode DEF AnyTree
  <2>11. AnyTree(i1, g + 1, Z \cup {i} \cup V)
    BY <1>0, <2>2, <2>8, BlackNode DEF AnyTree
  <2>12. BlackTree(n, g + 2, (P \cup {j} \cup (X \cup {k} \cup Y1)) \cup {m} \cup (Z \cup {i} \cup V))
    <3> HIDE DEF b1, i1
    <3> QED BY <1>0, <2>7, <2>10, <2>11, BlackNode
  <2>13. S = (P \cup {j} \cup (X \cup {k} \cup Y1)) \cup {m} \cup (Z \cup {i} \cup V)
    BY <1>1, <1>2, <2>2
  <2> HIDE DEF n, t, S
  <2>20. FromBlack(FixRedSibling(t, l), g + 2, S)
    BY <1>6, <2>3, <2>5, <2>12, <2>13
  <2> QED BY <2>20 DEF t, S
<1>9. CASE IsRed(u) /\ ~IsRed(v)
  <2>1. RedTree(u, g, X) /\ BlackTree(v, g, Y)
    BY <1>2, <1>9, AnyColour
  <2>2. PICK m, y, z, Y1, Z :
          /\ u = At(l, m, Red, y, z) /\ BlackTree(y, g, Y1) /\ BlackTree(z, g, Z)
          /\ Divides(l, m, Y1, Z) /\ X = Y1 \cup {m} \cup Z
    BY <2>1, RedParts
  <2> DEFINE u1 == At(l, m, Blk, y, z)
             b1 == At(l, j, Red, p, u1)
             i1 == At(l, i, Blk, v, x)
             n == At(l, k, Blk, b1, i1)
  <2>3. FixRedSibling(t, l) = Result(Under(Rotate2(t, l), l, Other(l), Blk), FALSE, TRUE)
    <3> HIDE DEF t
    <3> QED BY <1>3, <1>9, FixRedSiblingCases
  <2>4. Rotate2(t, l) = At(l, k, Blk, At(l, j, Red, p, u), i1)
    BY <1>1, <1>2, Rotate2At
  <2>5. Under(At(l, k, Blk, At(l, j, Red, p, u), i1), l, Other(l), Blk) = n
    <3> HIDE DEF i1
    <3> QED BY <2>2, UnderAt
  <2>6. /\ Divides(l, i, P \cup {j} \cup (X \cup {k} \cup Y), V)
        /\ Divides(l, j, P, X \cup {k} \cup Y)
    BY <1>1, <1>2
  <2>7. Divides(l, k, P \cup {j} \cup X, Y \cup {i} \cup V)
    BY <1>2, <2>6, RotatedTwice
  <2>8. Divides(l, j, P, X) /\ Divides(l, i, Y, V)
    BY <2>6 DEF Divides
  <2>9. BlackTree(u1, g + 1, X)
    BY <1>0, <2>2, BlackNode DEF AnyTree
  <2>10. AnyTree(b1, g + 1, P \cup {j} \cup X)
    <3> HIDE DEF u1
    <3> QED BY <1>1, <2>8, <2>9, RedNode DEF AnyTree
  <2>11. AnyTree(i1, g + 1, Y \cup {i} \cup V)
    BY <1>0, <2>1, <2>8, BlackNode DEF AnyTree
  <2>12. BlackTree(n, g + 2, (P \cup {j} \cup X) \cup {k} \cup (Y \cup {i} \cup V))
    <3> HIDE DEF b1, i1
    <3> QED BY <1>0, <2>7, <2>10, <2>11, BlackNode
  <2>13. S = (P \cup {j} \cup X) \cup {k} \cup (Y \cup {i} \cup V)
    BY <1>1, <1>2
  <2> HIDE DEF n, i1, t, S
  <2>20. FromBlack(FixRedSibling(t, l), g + 2, S)
    BY <1>6, <2>3, <2>4, <2>5, <2>12, <2>13
  <2> QED BY <2>20 DEF t, S
<1> QED BY <1>7, <1>8, <1>9

(* Either sibling.                                                         *)
LEMMA FixDeletionWorks ==
  ASSUME NEW l \in Sides, NEW i, NEW g \in Nat, NEW b, NEW x, NEW U, NEW V,
         AnyTree(b, g + 1, U), BlackTree(x, g, V), Divides(l, i, U, V),
         NEW c, (c = Red /\ BlackTree(b, g + 1, U)) \/ (c = Blk /\ g + 2 <= MaxItems)
  PROVE  After(FixDeletion(At(l, i, c, b, x), l), c, g, U \cup {i} \cup V)
<1> DEFINE t == At(l, i, c, b, x)
           S == U \cup {i} \cup V
<1>0. t[l] = b /\ g + 1 # 0 /\ Red # Blk
  BY AtFields DEF Red, Blk
<1>1. CASE BlackTree(b, g + 1, U)
  <2>1. IsBlack(b) /\ b # Nil /\ ~IsRed(b)
    BY <1>0, <1>1, BlackColour
  <2>2. FixDeletion(t, l) = FixBlackSibling(t, l)
    <3> HIDE DEF t
    <3> QED BY <1>0, <2>1 DEF FixDeletion
  <2>3. After(FixBlackSibling(t, l), c, g, S)
    BY <1>1, FixBlackSiblingWorks
  <2> HIDE DEF t, S
  <2>4. After(FixDeletion(t, l), c, g, S)
    BY <2>2, <2>3
  <2> QED BY <2>4 DEF t, S
<1>2. CASE RedTree(b, g + 1, U) /\ c = Blk /\ g + 2 <= MaxItems
  <2>1. IsRed(b) /\ b # Nil /\ ~IsBlack(b)
    BY <1>2, RedColour
  <2>2. FixDeletion(t, l) = FixRedSibling(t, l)
    <3> HIDE DEF t
    <3> QED BY <1>0, <2>1 DEF FixDeletion
  <2>3. FromBlack(FixRedSibling(At(l, i, Blk, b, x), l), g + 2, S)
    BY <1>2, FixRedSiblingWorks
  <2>4. At(l, i, Blk, b, x) = t
    BY <1>2
  <2> HIDE DEF t, S
  <2>5. After(FixDeletion(t, l), c, g, S)
    BY <1>0, <1>2, <2>2, <2>3, <2>4 DEF After
  <2> QED BY <2>5 DEF t, S
<1> QED BY <1>1, <1>2 DEF AnyTree

(* What one level passes on to the next.                                   *)
Kept(n, f)   == Result(n, FALSE, f.ok)
Passed(d, f) == [d EXCEPT !.ok = @ /\ f.ok]

(* Passing on that an assertion held changes nothing else.                 *)
LEMMA OutcomeKept ==
  ASSUME NEW f, f.ok, NEW d, NEW h, NEW S
  PROVE  /\ FromBlack(d, h, S) => FromBlack(Passed(d, f), h, S)
         /\ FromRed(d, h, S) => FromRed(Passed(d, f), h, S)
<1> DEFINE e == Passed(d, f)
<1> SUFFICES ASSUME DOMAIN d = {"tree", "shrunk", "ok"}, d.ok
             PROVE  /\ FromBlack(d, h, S) => FromBlack(e, h, S)
                    /\ FromRed(d, h, S) => FromRed(e, h, S)
  BY DEF FromBlack, FromRed
<1>1. DOMAIN e = {"tree", "shrunk", "ok"} /\ e.ok /\ e.tree = d.tree /\ e.shrunk = d.shrunk
  BY DEF Passed
<1> HIDE DEF e
<1> QED BY <1>1 DEF FromBlack, FromRed

(* A node whose subtree on one side was replaced by what a deletion left.  *)
LEMMA DeepenAt ==
  ASSUME NEW s \in Sides, NEW i, NEW c, NEW a, NEW b, NEW f
  PROVE  /\ ~f.shrunk => Deepen(At(s, i, c, a, b), s, f)
                           = Kept(At(s, i, c, f.tree, b), f)
         /\ f.shrunk => Deepen(At(s, i, c, a, b), s, f)
                          = Passed(FixDeletion(At(Other(s), i, c, b, f.tree), Other(s)), f)
<1> DEFINE t == At(s, i, c, a, b)
           n == [t EXCEPT ![s] = f.tree]
<1>1. n = At(s, i, c, f.tree, b)
  <2>1. n = Put(t, s, f.tree)
    BY DEF Put
  <2> QED BY <2>1, PutAt
<1>2. n = At(Other(s), i, c, b, f.tree)
  BY <1>1, Mirrored
<1>3. ASSUME ~f.shrunk
      PROVE  Deepen(t, s, f) = Kept(n, f)
  <2> HIDE DEF t
  <2> QED BY <1>3 DEF Deepen, Kept
<1>4. ASSUME f.shrunk
      PROVE  Deepen(t, s, f) = Passed(FixDeletion(n, Other(s)), f)
  <2> HIDE DEF t
  <2> QED BY <1>4 DEF Deepen, Passed
<1> HIDE DEF n
<1> QED BY <1>1, <1>2, <1>3, <1>4

(* A black node whose subtree was replaced loses at most one black node on *)
(* every path.                                                             *)
LEMMA DeepenBlack ==
  ASSUME NEW s \in Sides, NEW i, NEW h, NEW a, NEW b, NEW f, NEW V, NEW W,
         h + 1 <= MaxItems, AnyTree(b, h, V), Divides(s, i, W, V),
         FromBlack(f, h, W) \/ FromRed(f, h, W)
  PROVE  FromBlack(Deepen(At(s, i, Blk, a, b), s, f), h + 1, W \cup {i} \cup V)
<1> DEFINE d == Deepen(At(s, i, Blk, a, b), s, f)
           S == W \cup {i} \cup V
<1>0. h \in 0 .. MaxItems
  BY DEF AnyTree, BlackTree, RedTree
<1>1. CASE ~f.shrunk
  <2>1. AnyTree(f.tree, h, W) /\ f.ok
    BY <1>1 DEF FromBlack, FromRed, AnyTree
  <2>2. BlackTree(At(s, i, Blk, f.tree, b), h + 1, S)
    BY <2>1, BlackNode
  <2>3. d = Kept(At(s, i, Blk, f.tree, b), f)
    BY <1>1, DeepenAt
  <2> HIDE DEF d, S
  <2>4. FromBlack(d, h + 1, S)
    BY <2>1, <2>2, <2>3 DEF FromBlack, Kept, Result
  <2> QED BY <2>4 DEF d, S
<1>2. CASE f.shrunk
  <2>1. h # 0 /\ BlackTree(f.tree, h - 1, W) /\ f.ok
    BY <1>2 DEF FromBlack, FromRed
  <2> DEFINE g == h - 1
             x == FixDeletion(At(Other(s), i, Blk, b, f.tree), Other(s))
  <2>2. g \in Nat /\ g + 1 = h /\ g + 2 = h + 1
    BY <1>0, <2>1, MaxAssumption
  <2>3. Other(s) \in Sides /\ Divides(Other(s), i, V, W)
    BY OtherSide, DividesMirrored
  <2>4. BlackTree(f.tree, g, W)
    BY <2>1
  <2> HIDE DEF g
  <2>5. AnyTree(b, g + 1, V) /\ g + 2 <= MaxItems
    BY <2>2
  <2>6. After(x, Blk, g, V \cup {i} \cup W)
    BY <2>2, <2>3, <2>4, <2>5, FixDeletionWorks
  <2>7. V \cup {i} \cup W = S
    OBVIOUS
  <2>8. d = Passed(x, f)
    BY <1>2, DeepenAt
  <2> HIDE DEF d, S, x
  <2>9. FromBlack(x, h + 1, S)
    BY <2>2, <2>6, <2>7 DEF After
  <2>10. FromBlack(d, h + 1, S)
    BY <2>1, <2>8, <2>9, OutcomeKept
  <2> QED BY <2>10 DEF d, S
<1> QED BY <1>1, <1>2

(* A red node whose subtree was replaced loses none.                       *)
LEMMA DeepenRed ==
  ASSUME NEW s \in Sides, NEW i, NEW h, NEW a, NEW b, NEW f, NEW V, NEW W,
         BlackTree(b, h, V), Divides(s, i, W, V), FromBlack(f, h, W)
  PROVE  FromRed(Deepen(At(s, i, Red, a, b), s, f), h, W \cup {i} \cup V)
<1> DEFINE d == Deepen(At(s, i, Red, a, b), s, f)
           S == W \cup {i} \cup V
<1>0. h \in 0 .. MaxItems
  BY DEF BlackTree
<1>1. CASE ~f.shrunk
  <2>1. BlackTree(f.tree, h, W) /\ f.ok
    BY <1>1 DEF FromBlack
  <2>2. RedTree(At(s, i, Red, f.tree, b), h, S)
    BY <2>1, RedNode
  <2>3. d = Kept(At(s, i, Red, f.tree, b), f)
    BY <1>1, DeepenAt
  <2> HIDE DEF d, S
  <2>4. FromRed(d, h, S)
    BY <2>1, <2>2, <2>3 DEF FromRed, Kept, Result, AnyTree
  <2> QED BY <2>4 DEF d, S
<1>2. CASE f.shrunk
  <2>1. h # 0 /\ BlackTree(f.tree, h - 1, W) /\ f.ok
    BY <1>2 DEF FromBlack
  <2> DEFINE g == h - 1
             x == FixDeletion(At(Other(s), i, Red, b, f.tree), Other(s))
  <2>2. g \in Nat /\ g + 1 = h
    BY <1>0, <2>1, MaxAssumption
  <2>3. Other(s) \in Sides /\ Divides(Other(s), i, V, W)
    BY OtherSide, DividesMirrored
  <2>4. BlackTree(f.tree, g, W)
    BY <2>1
  <2> HIDE DEF g
  <2>5. BlackTree(b, g + 1, V)
    BY <2>2
  <2>9. AnyTree(b, g + 1, V)
    BY <2>5 DEF AnyTree
  <2>11. (Red = Red /\ BlackTree(b, g + 1, V)) \/ (Red = Blk /\ g + 2 <= MaxItems)
    BY <2>5
  <2>6. After(x, Red, g, V \cup {i} \cup W)
    BY <2>2, <2>3, <2>4, <2>9, <2>11, FixDeletionWorks
  <2>7. V \cup {i} \cup W = S
    OBVIOUS
  <2>8. d = Passed(x, f)
    BY <1>2, DeepenAt
  <2> HIDE DEF d, S, x
  <2>12. FromRed(x, h, S)
    BY <2>2, <2>6, <2>7 DEF After
  <2>13. FromRed(d, h, S)
    BY <2>1, <2>8, <2>12, OutcomeKept
  <2> QED BY <2>13 DEF d, S
<1> QED BY <1>1, <1>2

(* A node with one subtree at most, which takes its place.                 *)
LEMMA NilHeight ==
  ASSUME NEW h, NEW S, AnyTree(Nil, h, S)
  PROVE  h = 0 /\ S = {}
<1>1. BlackTree(Nil, h, S)
  BY RedColour DEF AnyTree
<1>2. h = 0
  BY <1>1, BlackColour
<1> QED BY <1>1, <1>2, NoBlackNodes

(* A black node with one subtree: the subtree is red, or nothing is left.  *)
LEMMA ReplacedBlack ==
  ASSUME NEW t, Colour(t) = Blk, NEW by, NEW S, AnyTree(by, 0, S), 0 + 1 <= MaxItems
  PROVE  FromBlack(Replaced(t, by), 0 + 1, S)
<1>0. "left" \in Sides
  BY DEF Sides
<1>1. CASE RedTree(by, 0, S)
  <2>1. PICK i, a, b, U, V :
            /\ by = At("left", i, Red, a, b) /\ BlackTree(a, 0, U) /\ BlackTree(b, 0, V)
            /\ Divides("left", i, U, V) /\ S = U \cup {i} \cup V
    BY <1>0, <1>1, RedParts
  <2>2. IsRed(by) /\ by # Nil
    BY <1>1, RedColour
  <2>3. Blacken(by) = Put(by, "red", Blk)
    BY <2>2 DEF Blacken, Put, Blk
  <2>4. Put(by, "red", Blk) = At("left", i, Blk, a, b)
    BY <1>0, <2>1, PutAt
  <2>5. BlackTree(At("left", i, Blk, a, b), 0 + 1, U \cup {i} \cup V)
    BY <1>0, <2>1, BlackNode DEF AnyTree
  <2>6. BlackTree(Blacken(by), 0 + 1, S)
    BY <2>1, <2>3, <2>4, <2>5
  <2>7. Replaced(t, by) = Result(Blacken(by), FALSE, TRUE)
    BY <2>2 DEF Replaced
  <2> QED BY <2>6, <2>7, Outcomes
<1>2. CASE BlackTree(by, 0, S)
  <2>1. by = Nil /\ ~IsRed(by) /\ Blacken(by) = by
    BY <1>2, NoBlackNodes, NilHasNone DEF Blacken
  <2>2. Replaced(t, by) = Result(by, TRUE, TRUE)
    BY <2>1 DEF Replaced, Colour, Blk
  <2>3. 0 + 1 # 0 /\ (0 + 1) - 1 = 0
    OBVIOUS
  <2> QED BY <1>2, <2>2, <2>3, Outcomes
<1> QED BY <1>1, <1>2 DEF AnyTree

(* A red node with one subtree has none.                                   *)
LEMMA ReplacedRed ==
  ASSUME NEW t, Colour(t) = Red, NEW by, NEW S, BlackTree(by, 0, S)
  PROVE  FromRed(Replaced(t, by), 0, S)
<1>1. by = Nil /\ Blacken(by) = by
  BY NoBlackNodes DEF Blacken
<1>2. Replaced(t, by) = Result(by, FALSE, TRUE)
  BY <1>1 DEF Replaced, Colour, Red
<1> QED BY <1>2, Outcomes DEF AnyTree

(* The greatest item of a tree, and where it lies.                         *)
Greatest(m, S) == m \in S /\ \A x \in S \ {m} : x < m

(* Without a right subtree it is at the root.                              *)
LEMMA GreatestIsRoot ==
  ASSUME NEW i, NEW V, Divides("right", i, {}, V)
  PROVE  i \in Int /\ i \notin V /\ Greatest(i, {} \cup {i} \cup V)
<1>1. i \in Int /\ V \subseteq Int /\ \A x \in V : x < i
  BY DEF Divides, Less
<1>2. i \notin V
  BY <1>1
<1> QED BY <1>1, <1>2 DEF Greatest

(* Otherwise it is the greatest one of the right subtree.                  *)
LEMMA GreatestIsRight ==
  ASSUME NEW i, NEW U, NEW V, Divides("right", i, U, V), NEW m, Greatest(m, U)
  PROVE  /\ Greatest(m, U \cup {i} \cup V)
         /\ m # i /\ m \notin V
         /\ Divides("right", i, U \ {m}, V)
<1>1. i \in Int /\ U \subseteq Int /\ V \subseteq Int /\ m \in U
  BY DEF Divides, Greatest
<1>2. i < m /\ \A x \in V : x < i
  BY <1>1 DEF Divides, Less
<1>3. \A x \in V : x < m
  BY <1>1, <1>2
<1>4. m # i /\ m \notin V
  BY <1>1, <1>2
<1>5. Greatest(m, U \cup {i} \cup V)
  BY <1>1, <1>2, <1>3 DEF Greatest
<1>7. Divides("right", i, U \ {m}, V)
  BY DEF Divides
<1> QED BY <1>4, <1>5, <1>7

(* A node as seen from a side, with the rest of the tree it is in.         *)
LEMMA AtOf ==
  ASSUME NEW s \in Sides, NEW i, NEW c, NEW a, NEW b
  PROVE  /\ s = "left" => /\ At(s, i, c, a, b).left = a /\ At(s, i, c, a, b).right = b
         /\ s = "right" => /\ At(s, i, c, a, b).right = a /\ At(s, i, c, a, b).left = b
         /\ At(s, i, c, a, b).item = i /\ Colour(At(s, i, c, a, b)) = c
BY DEF At, Tree, Colour, Sides

(* DeleteRightmostLeaf deletes the greatest item, which Rightmost names.   *)
LeafDeleted(t) ==
  \A h, S : /\ BlackTree(t, h, S) => /\ Greatest(Rightmost(t), S)
                                     /\ FromBlack(DeleteRightmostLeaf(t), h, S \ {Rightmost(t)})
            /\ RedTree(t, h, S) => /\ Greatest(Rightmost(t), S)
                                   /\ FromRed(DeleteRightmostLeaf(t), h, S \ {Rightmost(t)})

(* It is so for a black node if it is so for the right subtree,            *)
LEMMA LeafDeletedBlack ==
  ASSUME NEW t \in All \ {Nil}, t.right # Nil => LeafDeleted(t.right),
         NEW h, NEW S, BlackTree(t, h, S)
  PROVE  /\ Greatest(Rightmost(t), S)
         /\ FromBlack(DeleteRightmostLeaf(t), h, S \ {Rightmost(t)})
<1>0. "right" \in Sides
  BY DEF Sides
<1>1. h \in 0 .. MaxItems /\ h # 0
  BY NoBlackNodes DEF BlackTree
<1>2. PICK i, b, a, U, V :
         /\ t = At("right", i, Blk, b, a) /\ AnyTree(b, h - 1, U) /\ AnyTree(a, h - 1, V)
         /\ Divides("right", i, U, V) /\ S = U \cup {i} \cup V
  BY <1>0, <1>1, BlackParts
<1>3. t.right = b /\ t.left = a /\ t.item = i /\ Colour(t) = Blk
  BY <1>0, <1>2, AtOf
<1>4. (h - 1) + 1 = h /\ (h - 1) + 1 <= MaxItems
  BY <1>1, MaxAssumption
<1>5. CASE b = Nil
  <2>1. h - 1 = 0 /\ U = {}
    BY <1>2, <1>5, NilHeight
  <2>2. Rightmost(t) = i /\ DeleteRightmostLeaf(t) = Replaced(t, a)
    BY <1>3, <1>5, RightmostDef, DeleteRightmostLeafDef
  <2>6. Greatest(i, S) /\ i \notin V
    BY <1>2, <2>1, GreatestIsRoot
  <2>3. S \ {i} = V
    BY <1>2, <2>1, <2>6
  <2>4. AnyTree(a, 0, V) /\ 0 + 1 = h /\ 0 + 1 <= MaxItems
    BY <1>2, <1>4, <2>1
  <2>5. FromBlack(Replaced(t, a), h, V)
    BY <1>3, <2>4, ReplacedBlack
  <2> QED BY <2>2, <2>3, <2>5, <2>6
<1>6. CASE b # Nil
  <2> DEFINE m == Rightmost(b)
             f == DeleteRightmostLeaf(b)
             g == h - 1
             W == U \ {m}
  <2>1. LeafDeleted(b)
    BY <1>3, <1>6
  <2>2. Greatest(m, U) /\ (FromBlack(f, g, W) \/ FromRed(f, g, W))
    BY <1>2, <2>1 DEF LeafDeleted, AnyTree
  <2>3. Rightmost(t) = m /\ DeleteRightmostLeaf(t) = Deepen(t, "right", f)
    BY <1>3, <1>6, RightmostDef, DeleteRightmostLeafDef
  <2> HIDE DEF m, f
  <2>7. Greatest(m, U \cup {i} \cup V) /\ m # i /\ m \notin V /\ Divides("right", i, W, V)
    BY <1>2, <2>2, GreatestIsRight
  <2>8. S \ {m} = W \cup {i} \cup V
    BY <1>2, <2>7
  <2>4. Greatest(m, S) /\ S \ {m} = W \cup {i} \cup V /\ Divides("right", i, W, V)
    BY <1>2, <2>7, <2>8
  <2>5. AnyTree(a, g, V) /\ g + 1 = h /\ g + 1 <= MaxItems
    BY <1>2, <1>4
  <2> HIDE DEF g, W
  <2>6. FromBlack(Deepen(At("right", i, Blk, b, a), "right", f), g + 1, W \cup {i} \cup V)
    BY <1>0, <2>2, <2>4, <2>5, DeepenBlack
  <2> QED BY <1>2, <2>3, <2>4, <2>5, <2>6
<1> QED BY <1>5, <1>6

(* for a red node likewise,                                                *)
LEMMA LeafDeletedRed ==
  ASSUME NEW t \in All \ {Nil}, t.right # Nil => LeafDeleted(t.right),
         NEW h, NEW S, RedTree(t, h, S)
  PROVE  /\ Greatest(Rightmost(t), S)
         /\ FromRed(DeleteRightmostLeaf(t), h, S \ {Rightmost(t)})
<1>0. "right" \in Sides
  BY DEF Sides
<1>2. PICK i, b, a, U, V :
         /\ t = At("right", i, Red, b, a) /\ BlackTree(b, h, U) /\ BlackTree(a, h, V)
         /\ Divides("right", i, U, V) /\ S = U \cup {i} \cup V
  BY <1>0, RedParts
<1>3. t.right = b /\ t.left = a /\ t.item = i /\ Colour(t) = Red
  BY <1>0, <1>2, AtOf
<1>5. CASE b = Nil
  <2>1. h = 0 /\ U = {}
    BY <1>2, <1>5, NilHeight DEF AnyTree
  <2>2. Rightmost(t) = i /\ DeleteRightmostLeaf(t) = Replaced(t, a)
    BY <1>3, <1>5, RightmostDef, DeleteRightmostLeafDef
  <2>6. Greatest(i, S) /\ i \notin V
    BY <1>2, <2>1, GreatestIsRoot
  <2>3. S \ {i} = V
    BY <1>2, <2>1, <2>6
  <2>5. FromRed(Replaced(t, a), h, V)
    BY <1>2, <1>3, <2>1, ReplacedRed
  <2> QED BY <2>2, <2>3, <2>5, <2>6
<1>6. CASE b # Nil
  <2> DEFINE m == Rightmost(b)
             f == DeleteRightmostLeaf(b)
             W == U \ {m}
  <2>1. LeafDeleted(b)
    BY <1>3, <1>6
  <2>2. Greatest(m, U) /\ FromBlack(f, h, W)
    BY <1>2, <2>1 DEF LeafDeleted
  <2>3. Rightmost(t) = m /\ DeleteRightmostLeaf(t) = Deepen(t, "right", f)
    BY <1>3, <1>6, RightmostDef, DeleteRightmostLeafDef
  <2> HIDE DEF m, f
  <2>7. Greatest(m, U \cup {i} \cup V) /\ m # i /\ m \notin V /\ Divides("right", i, W, V)
    BY <1>2, <2>2, GreatestIsRight
  <2>8. S \ {m} = W \cup {i} \cup V
    BY <1>2, <2>7
  <2>4. Greatest(m, S) /\ S \ {m} = W \cup {i} \cup V /\ Divides("right", i, W, V)
    BY <1>2, <2>7, <2>8
  <2> HIDE DEF W
  <2>6. FromRed(Deepen(At("right", i, Red, b, a), "right", f), h, W \cup {i} \cup V)
    BY <1>0, <1>2, <2>2, <2>4, DeepenRed
  <2> QED BY <1>2, <2>3, <2>4, <2>6
<1> QED BY <1>5, <1>6

(* and therefore for every tree.                                           *)
LEMMA DeleteRightmostLeafWorks == \A t \in All \ {Nil} : LeafDeleted(t)
<1> DEFINE P == {t \in All : t # Nil => LeafDeleted(t)}
<1>1. Nil \in P
  BY AllTrees
<1>2. ASSUME NEW t \in All \ {Nil}, t.left \in P /\ t.right \in P
      PROVE  t \in P
  <2>1. t.right # Nil => LeafDeleted(t.right)
    BY <1>2
  <2>2. LeafDeleted(t)
    BY <2>1, LeafDeletedBlack, LeafDeletedRed DEF LeafDeleted
  <2> QED BY <2>2
<1>3. All \subseteq P
  <2> HIDE DEF P
  <2> QED BY <1>1, <1>2, TreeInduction
<1> QED BY <1>3

(* DeleteRoot deletes the item at the root.                                *)
LEMMA NextSmaller ==
  ASSUME NEW i, NEW U, NEW V, Divides("left", i, U, V), NEW m, Greatest(m, U)
  PROVE  Divides("left", m, U \ {m}, V) /\ i \notin U /\ i \notin V /\ m \in U
<1>1. i \in Int /\ U \subseteq Int /\ V \subseteq Int /\ m \in U /\ m \in Int
  BY DEF Divides, Greatest
<1>2. m < i /\ (\A x \in U : x < i) /\ (\A x \in V : i < x)
  BY <1>1 DEF Divides, Less
<1>3. \A x \in V : m < x
  BY <1>1, <1>2
<1>4. \A x \in U \ {m} : x < m
  BY DEF Greatest
<1>5. Divides("left", m, U \ {m}, V)
  BY <1>1, <1>3, <1>4 DEF Divides, Less
<1> QED BY <1>1, <1>2, <1>5

(* Without a left subtree nothing else is at the place of the root's item. *)
LEMMA OnlyRight ==
  ASSUME NEW i, NEW V, Divides("left", i, {}, V)
  PROVE  i \notin V
BY DEF Divides, Less

(* The root is black.                                                      *)
LEMMA RootDeletedBlack ==
  ASSUME NEW t \in All \ {Nil}, NEW h, NEW S, BlackTree(t, h, S)
  PROVE  FromBlack(DeleteRoot(t), h, S \ {t.item})
<1>0. "left" \in Sides
  BY DEF Sides
<1>1. h \in 0 .. MaxItems /\ h # 0
  BY NoBlackNodes DEF BlackTree
<1>2. PICK i, a, b, U, V :
         /\ t = At("left", i, Blk, a, b) /\ AnyTree(a, h - 1, U) /\ AnyTree(b, h - 1, V)
         /\ Divides("left", i, U, V) /\ S = U \cup {i} \cup V
  BY <1>0, <1>1, BlackParts
<1>3. t.left = a /\ t.right = b /\ t.item = i /\ Colour(t) = Blk
  BY <1>0, <1>2, AtOf
<1>4. (h - 1) + 1 = h /\ (h - 1) + 1 <= MaxItems
  BY <1>1, MaxAssumption
<1>5. CASE a = Nil
  <2>1. h - 1 = 0 /\ U = {}
    BY <1>2, <1>5, NilHeight
  <2>2. DeleteRoot(t) = Replaced(t, b)
    BY <1>3, <1>5 DEF DeleteRoot
  <2>3. S \ {i} = V
    BY <1>2, <2>1, OnlyRight
  <2>4. AnyTree(b, 0, V) /\ 0 + 1 = h /\ 0 + 1 <= MaxItems
    BY <1>2, <1>4, <2>1
  <2>5. FromBlack(Replaced(t, b), h, V)
    BY <1>3, <2>4, ReplacedBlack
  <2> QED BY <1>3, <2>2, <2>3, <2>5
<1>6. CASE a # Nil
  <2> DEFINE m == Rightmost(a)
             f == DeleteRightmostLeaf(a)
             g == h - 1
             W == U \ {m}
             n == At("left", m, Blk, a, b)
  <2>1. LeafDeleted(a)
    BY <1>3, <1>6, AllTrees, DeleteRightmostLeafWorks
  <2>2. Greatest(m, U) /\ (FromBlack(f, g, W) \/ FromRed(f, g, W))
    BY <1>2, <2>1 DEF LeafDeleted, AnyTree
  <2>3. [t EXCEPT !.item = m] = n
    <3>1. [t EXCEPT !.item = m] = Put(t, "item", m)
      BY DEF Put
    <3> QED BY <1>0, <1>2, <3>1, PutAt
  <2>4. DeleteRoot(t) = Deepen(n, "left", f)
    <3> HIDE DEF n
    <3> QED BY <1>3, <1>6, <2>3 DEF DeleteRoot
  <2> HIDE DEF m, f
  <2>5. Divides("left", m, W, V) /\ i \notin U /\ i \notin V /\ m \in U
    BY <1>2, <2>2, NextSmaller
  <2>6. S \ {i} = W \cup {m} \cup V
    BY <1>2, <2>5
  <2>7. AnyTree(b, g, V) /\ g + 1 = h /\ g + 1 <= MaxItems
    BY <1>2, <1>4
  <2> HIDE DEF g, W
  <2>8. FromBlack(Deepen(n, "left", f), g + 1, W \cup {m} \cup V)
    BY <1>0, <2>2, <2>5, <2>7, DeepenBlack
  <2> HIDE DEF n
  <2> QED BY <1>3, <2>4, <2>6, <2>7, <2>8
<1> QED BY <1>5, <1>6

(* The root is red.                                                        *)
LEMMA RootDeletedRed ==
  ASSUME NEW t \in All \ {Nil}, NEW h, NEW S, RedTree(t, h, S)
  PROVE  FromRed(DeleteRoot(t), h, S \ {t.item})
<1>0. "left" \in Sides
  BY DEF Sides
<1>2. PICK i, a, b, U, V :
         /\ t = At("left", i, Red, a, b) /\ BlackTree(a, h, U) /\ BlackTree(b, h, V)
         /\ Divides("left", i, U, V) /\ S = U \cup {i} \cup V
  BY <1>0, RedParts
<1>3. t.left = a /\ t.right = b /\ t.item = i /\ Colour(t) = Red
  BY <1>0, <1>2, AtOf
<1>5. CASE a = Nil
  <2>1. h = 0 /\ U = {}
    BY <1>2, <1>5, NilHeight DEF AnyTree
  <2>2. DeleteRoot(t) = Replaced(t, b)
    BY <1>3, <1>5 DEF DeleteRoot
  <2>3. S \ {i} = V
    BY <1>2, <2>1, OnlyRight
  <2>5. FromRed(Replaced(t, b), h, V)
    BY <1>2, <1>3, <2>1, ReplacedRed
  <2> QED BY <1>3, <2>2, <2>3, <2>5
<1>6. CASE a # Nil
  <2> DEFINE m == Rightmost(a)
             f == DeleteRightmostLeaf(a)
             W == U \ {m}
             n == At("left", m, Red, a, b)
  <2>1. LeafDeleted(a)
    BY <1>3, <1>6, AllTrees, DeleteRightmostLeafWorks
  <2>2. Greatest(m, U) /\ FromBlack(f, h, W)
    BY <1>2, <2>1 DEF LeafDeleted
  <2>3. [t EXCEPT !.item = m] = n
    <3>1. [t EXCEPT !.item = m] = Put(t, "item", m)
      BY DEF Put
    <3> QED BY <1>0, <1>2, <3>1, PutAt
  <2>4. DeleteRoot(t) = Deepen(n, "left", f)
    <3> HIDE DEF n
    <3> QED BY <1>3, <1>6, <2>3 DEF DeleteRoot
  <2> HIDE DEF m, f
  <2>5. Divides("left", m, W, V) /\ i \notin U /\ i \notin V /\ m \in U
    BY <1>2, <2>2, NextSmaller
  <2>6. S \ {i} = W \cup {m} \cup V
    BY <1>2, <2>5
  <2> HIDE DEF W
  <2>8. FromRed(Deepen(n, "left", f), h, W \cup {m} \cup V)
    BY <1>0, <1>2, <2>2, <2>5, DeepenRed
  <2> HIDE DEF n
  <2> QED BY <1>3, <2>4, <2>6, <2>8
<1> QED BY <1>5, <1>6

(* DeleteRecursive deletes an item wherever it is.                         *)
Deletes(t, e) ==
  \A h, S : e \in S => /\ BlackTree(t, h, S) => FromBlack(DeleteRecursive(t, e), h, S \ {e})
                       /\ RedTree(t, h, S) => FromRed(DeleteRecursive(t, e), h, S \ {e})

(* The item is on the side of the root where it is searched.               *)
LEMMA DeletedOnSide ==
  ASSUME NEW s \in Sides, NEW i, NEW U, NEW V, Divides(s, i, U, V), NEW e \in Int,
         e \in U \cup {i} \cup V, Less(s, e, i)
  PROVE  e \in U /\ e # i /\ e \notin V /\ Divides(s, i, U \ {e}, V)
<1>1. i \in Int /\ V \subseteq Int
  BY DEF Divides
<1>2. e # i
  BY <1>1 DEF Less
<1>3. e \notin V
  BY <1>1 DEF Divides, Less
<1>4. Divides(s, i, U \ {e}, V)
  BY DEF Divides
<1> QED BY <1>2, <1>3, <1>4

(* Which way the code goes: to the side where e is smaller.                *)
LEMMA SearchedSide ==
  ASSUME NEW e \in Int, NEW t \in All \ {Nil}, t.item # e
  PROVE  \E s \in Sides : /\ Less(s, e, t.item) /\ t[s] \in {t.left, t.right}
                          /\ DeleteRecursive(t, e) = Deepen(t, s, DeleteRecursive(t[s], e))
<1> DEFINE s == IF e < t.item THEN "left" ELSE "right"
<1>1. t.item \in Int
  BY AllTrees
<1>2. s \in Sides /\ Less(s, e, t.item) /\ t[s] \in {t.left, t.right}
  BY <1>1 DEF Sides, Less
<1>3. DeleteRecursive(t, e) = Deepen(t, s, DeleteRecursive(t[s], e))
  BY DeletedDef
<1> HIDE DEF s
<1> QED BY <1>2, <1>3

(* It is so for a node if it is so for its subtrees,                       *)
LEMMA DeletesNode ==
  ASSUME NEW e \in Int, NEW t \in All \ {Nil}, Deletes(t.left, e), Deletes(t.right, e)
  PROVE  Deletes(t, e)
<1>1. CASE t.item = e
  <2>1. DeleteRecursive(t, e) = DeleteRoot(t)
    BY <1>1, DeletedDef
  <2> QED BY <1>1, <2>1, RootDeletedBlack, RootDeletedRed DEF Deletes
<1>2. CASE t.item # e
  <2>1. PICK s \in Sides : /\ Less(s, e, t.item) /\ t[s] \in {t.left, t.right}
                           /\ DeleteRecursive(t, e) = Deepen(t, s, DeleteRecursive(t[s], e))
    BY <1>2, SearchedSide
  <2>2. Deletes(t[s], e)
    BY <2>1
  <2> DEFINE f == DeleteRecursive(t[s], e)
  <2>3. ASSUME NEW h, NEW S, e \in S, BlackTree(t, h, S)
        PROVE  FromBlack(DeleteRecursive(t, e), h, S \ {e})
    <3>1. h \in 0 .. MaxItems /\ h # 0
      BY <2>3, NoBlackNodes DEF BlackTree
    <3>2. PICK i, a, b, U, V :
             /\ t = At(s, i, Blk, a, b) /\ AnyTree(a, h - 1, U) /\ AnyTree(b, h - 1, V)
             /\ Divides(s, i, U, V) /\ S = U \cup {i} \cup V
      BY <2>3, <3>1, BlackParts
    <3>3. t[s] = a /\ t.item = i
      BY <3>2, AtFields
    <3> DEFINE g == h - 1
               W == U \ {e}
    <3>4. e \in U /\ e # i /\ e \notin V /\ Divides(s, i, W, V)
      BY <2>1, <2>3, <3>2, <3>3, DeletedOnSide
    <3>5. S \ {e} = W \cup {i} \cup V
      BY <3>2, <3>4
    <3>6. FromBlack(f, g, W) \/ FromRed(f, g, W)
      BY <2>2, <3>2, <3>3, <3>4 DEF Deletes, AnyTree
    <3>7. AnyTree(b, g, V) /\ g + 1 = h /\ g + 1 <= MaxItems
      BY <3>1, <3>2, MaxAssumption
    <3> HIDE DEF g, W, f
    <3>8. FromBlack(Deepen(At(s, i, Blk, a, b), s, f), g + 1, W \cup {i} \cup V)
      BY <3>4, <3>6, <3>7, DeepenBlack
    <3>9. DeleteRecursive(t, e) = Deepen(At(s, i, Blk, a, b), s, f)
      BY <2>1, <3>2 DEF f
    <3> QED BY <3>5, <3>7, <3>8, <3>9
  <2>4. ASSUME NEW h, NEW S, e \in S, RedTree(t, h, S)
        PROVE  FromRed(DeleteRecursive(t, e), h, S \ {e})
    <3>2. PICK i, a, b, U, V :
             /\ t = At(s, i, Red, a, b) /\ BlackTree(a, h, U) /\ BlackTree(b, h, V)
             /\ Divides(s, i, U, V) /\ S = U \cup {i} \cup V
      BY <2>4, RedParts
    <3>3. t[s] = a /\ t.item = i
      BY <3>2, AtFields
    <3> DEFINE W == U \ {e}
    <3>4. e \in U /\ e # i /\ e \notin V /\ Divides(s, i, W, V)
      BY <2>1, <2>4, <3>2, <3>3, DeletedOnSide
    <3>5. S \ {e} = W \cup {i} \cup V
      BY <3>2, <3>4
    <3>6. FromBlack(f, h, W)
      BY <2>2, <3>2, <3>3, <3>4 DEF Deletes
    <3> HIDE DEF W, f
    <3>8. FromRed(Deepen(At(s, i, Red, a, b), s, f), h, W \cup {i} \cup V)
      BY <3>2, <3>4, <3>6, DeepenRed
    <3>9. DeleteRecursive(t, e) = Deepen(At(s, i, Red, a, b), s, f)
      BY <2>1, <3>2 DEF f
    <3> QED BY <3>5, <3>8, <3>9
  <2> QED BY <2>3, <2>4 DEF Deletes
<1> QED BY <1>1, <1>2

(* and therefore for every tree.                                           *)
LEMMA DeleteRecursiveWorks == ASSUME NEW e \in Int PROVE \A t \in All : Deletes(t, e)
<1> DEFINE P == {t \in All : Deletes(t, e)}
<1>1. Nil \in P
  <2>1. ASSUME NEW h, NEW S, AnyTree(Nil, h, S)
        PROVE  e \notin S
    BY <2>1, NilHeight
  <2> QED BY <2>1, AllTrees DEF Deletes, AnyTree
<1>2. ASSUME NEW t \in All \ {Nil}, t.left \in P /\ t.right \in P
      PROVE  t \in P
  BY <1>2, DeletesNode
<1>3. All \subseteq P
  <2> HIDE DEF P
  <2> QED BY <1>1, <1>2, TreeInduction
<1> QED BY <1>3

(* The root stays black, so that blackening it changes nothing.            *)
LEMMA BlackenBlack ==
  ASSUME NEW t, NEW h, NEW S, BlackTree(t, h, S)
  PROVE  Blacken(t) = t
<1>0. "left" \in Sides
  BY DEF Sides
<1>1. CASE h = 0
  BY <1>1, NoBlackNodes DEF Blacken
<1>2. CASE h # 0
  <2>1. PICK i, a, b, U, V : t = At("left", i, Blk, a, b)
    BY <1>0, <1>2, BlackParts
  <2>2. Put(t, "red", Blk) = t
    BY <1>0, <2>1, PutAt
  <2>3. Blacken(t) = IF t = Nil THEN t ELSE Put(t, "red", Blk)
    BY DEF Blacken, Put, Blk
  <2> QED BY <2>2, <2>3
<1> QED BY <1>1, <1>2

-----------------------------------------------------------------------------
(* Moving the items from k on by n, and what it needs: that those below    *)
(* stay below.                                                             *)
Move(x, k, n)     == IF x >= k THEN x + n ELSE x
Moved(S, k, n)    == {Move(x, k, n) : x \in S}
Movable(S, k, n)  == \A x \in S, y \in S : x < k /\ k <= y => x < y + n

(* A node's item divides the subtrees after the move, too.                 *)
LEMMA MovedDivides ==
  ASSUME NEW k \in Int, NEW n \in Int, NEW i, NEW U, NEW V, Divides("left", i, U, V),
         Movable(U \cup {i} \cup V, k, n)
  PROVE  /\ Divides("left", Move(i, k, n), Moved(U, k, n), Moved(V, k, n))
         /\ Movable(U, k, n) /\ Movable(V, k, n)
<1>1. i \in Int /\ U \subseteq Int /\ V \subseteq Int
  BY DEF Divides
<1>2. ASSUME NEW x \in U \cup {i} \cup V, NEW y \in U \cup {i} \cup V, x < y
      PROVE  Move(x, k, n) < Move(y, k, n)
  <2>1. x \in Int /\ y \in Int
    BY <1>1
  <2>2. x < k /\ k <= y => x < y + n
    BY DEF Movable
  <2> QED BY <1>2, <2>1, <2>2 DEF Move
<1>3. \A x \in Int : Move(x, k, n) \in Int
  BY DEF Move
<1>4. ASSUME NEW x \in Moved(U, k, n)
      PROVE  x < Move(i, k, n)
  <2>1. PICK y \in U : x = Move(y, k, n)
    BY DEF Moved
  <2>2. y < i
    BY DEF Divides, Less
  <2> QED BY <1>2, <2>1, <2>2
<1>5. ASSUME NEW x \in Moved(V, k, n)
      PROVE  Move(i, k, n) < x
  <2>1. PICK y \in V : x = Move(y, k, n)
    BY DEF Moved
  <2>2. i < y
    BY DEF Divides, Less
  <2> QED BY <1>2, <2>1, <2>2
<1>6. Moved(U, k, n) \subseteq Int /\ Moved(V, k, n) \subseteq Int /\ Move(i, k, n) \in Int
  BY <1>1, <1>3 DEF Moved
<1>7. Divides("left", Move(i, k, n), Moved(U, k, n), Moved(V, k, n))
  BY <1>4, <1>5, <1>6 DEF Divides, Less
<1>8. Movable(U, k, n) /\ Movable(V, k, n)
  BY DEF Movable
<1> QED BY <1>7, <1>8

(* What Shift does to a node.                                              *)
LEMMA ShiftAt ==
  ASSUME NEW k, NEW n, NEW t \in All \ {Nil}, NEW i, NEW c, NEW a, NEW b,
         t = At("left", i, c, a, b)
  PROVE  /\ Shift(t, k, n) = At("left", Move(i, k, n), c, Shift(a, k, n), Shift(b, k, n))
         /\ t.left = a /\ t.right = b
<1>1. t.item = i /\ t.red = c /\ t.left = a /\ t.right = b /\ t = Tree(i, c, a, b)
  BY DEF At, Tree
<1>2. Shift(t, k, n) = [t EXCEPT !.item = IF @ >= k THEN @ + n ELSE @,
                                 !.left = Shift(t.left, k, n), !.right = Shift(t.right, k, n)]
  <2>1. \A u \in All :
           Shift(u, k, n) =
             IF u = Nil THEN u
             ELSE [u EXCEPT !.item = IF @ >= k THEN @ + n ELSE @,
                            !.left = Shift(u.left, k, n), !.right = Shift(u.right, k, n)]
    BY ShiftDef
  <2> QED BY <2>1
<1> DEFINE p == Shift(t.left, k, n)
           q == Shift(t.right, k, n)
           u == Put(Put(Put(t, "item", Move(i, k, n)), "left", p), "right", q)
<1>3. [t EXCEPT !.item = IF @ >= k THEN @ + n ELSE @, !.left = p, !.right = q] = u
  <2> HIDE DEF p, q
  <2> QED BY <1>1 DEF Put, Move
<1>4. "left" \in Sides /\ "right" = Other("left")
  BY DEF Sides, Other
<1>5. u = At("left", Move(i, k, n), c, p, q)
  <2>1. Put(t, "item", Move(i, k, n)) = At("left", Move(i, k, n), c, a, b)
    BY <1>4, PutAt
  <2>2. Put(At("left", Move(i, k, n), c, a, b), "left", p) = At("left", Move(i, k, n), c, p, b)
    BY <1>4, PutAt
  <2>3. Put(At("left", Move(i, k, n), c, p, b), "right", q) = At("left", Move(i, k, n), c, p, q)
    BY <1>4, PutAt
  <2> HIDE DEF p, q
  <2> QED BY <2>1, <2>2, <2>3
<1> QED BY <1>1, <1>2, <1>3, <1>5

(* The shape stays, the items move.                                        *)
Moves(t, k, n) ==
  \A h, S : Movable(S, k, n) =>
    /\ BlackTree(t, h, S) => BlackTree(Shift(t, k, n), h, Moved(S, k, n))
    /\ RedTree(t, h, S) => RedTree(Shift(t, k, n), h, Moved(S, k, n))

(* The items of a node are moved together.                                 *)
LEMMA MovedNode ==
  ASSUME NEW k, NEW n, NEW U, NEW i, NEW V
  PROVE  Moved(U \cup {i} \cup V, k, n) = Moved(U, k, n) \cup {Move(i, k, n)} \cup Moved(V, k, n)
BY DEF Moved

(* It is so for every tree.                                                *)
LEMMA ShiftWorks == ASSUME NEW k \in Int, NEW n \in Int PROVE \A t \in All : Moves(t, k, n)
<1> DEFINE P == {t \in All : Moves(t, k, n)}
<1>0. "left" \in Sides
  BY DEF Sides
<1>1. Nil \in P
  <2>1. ASSUME NEW h, NEW S, BlackTree(Nil, h, S)
        PROVE  BlackTree(Shift(Nil, k, n), h, Moved(S, k, n))
    <3>1. h = 0 /\ S = {}
      BY <2>1, NilHeight DEF AnyTree
    <3>2. Shift(Nil, k, n) = Nil /\ Moved({}, k, n) = {}
      BY AllTrees, ShiftDef DEF Moved
    <3> QED BY <2>1, <3>1, <3>2
  <2> QED BY <2>1, AllTrees, RedColour DEF Moves
<1>2. ASSUME NEW t \in All \ {Nil}, t.left \in P /\ t.right \in P
      PROVE  t \in P
  <2>0. Moves(t.left, k, n) /\ Moves(t.right, k, n)
    BY <1>2
  <2>1. ASSUME NEW h, NEW S, Movable(S, k, n), BlackTree(t, h, S)
        PROVE  BlackTree(Shift(t, k, n), h, Moved(S, k, n))
    <3>1. h \in 0 .. MaxItems /\ h # 0
      BY <2>1, NoBlackNodes DEF BlackTree
    <3>2. PICK i, a, b, U, V :
             /\ t = At("left", i, Blk, a, b) /\ AnyTree(a, h - 1, U) /\ AnyTree(b, h - 1, V)
             /\ Divides("left", i, U, V) /\ S = U \cup {i} \cup V
      BY <1>0, <2>1, <3>1, BlackParts
    <3>3. /\ Shift(t, k, n) = At("left", Move(i, k, n), Blk, Shift(a, k, n), Shift(b, k, n))
          /\ t.left = a /\ t.right = b
      BY <3>2, ShiftAt
    <3>4. /\ Divides("left", Move(i, k, n), Moved(U, k, n), Moved(V, k, n))
          /\ Movable(U, k, n) /\ Movable(V, k, n)
      BY <2>1, <3>2, MovedDivides
    <3>5. AnyTree(Shift(a, k, n), h - 1, Moved(U, k, n))
      BY <2>0, <3>2, <3>3, <3>4 DEF Moves, AnyTree
    <3>6. AnyTree(Shift(b, k, n), h - 1, Moved(V, k, n))
      BY <2>0, <3>2, <3>3, <3>4 DEF Moves, AnyTree
    <3> DEFINE g == h - 1
    <3>7. g + 1 = h /\ g + 1 <= MaxItems
      BY <3>1, MaxAssumption
    <3>8. AnyTree(Shift(a, k, n), g, Moved(U, k, n)) /\ AnyTree(Shift(b, k, n), g, Moved(V, k, n))
      BY <3>5, <3>6
    <3> HIDE DEF g
    <3>9. BlackTree(Shift(t, k, n), g + 1,
                    Moved(U, k, n) \cup {Move(i, k, n)} \cup Moved(V, k, n))
      BY <1>0, <3>3, <3>4, <3>7, <3>8, BlackNode
    <3>10. Moved(S, k, n) = Moved(U, k, n) \cup {Move(i, k, n)} \cup Moved(V, k, n)
      BY <3>2 DEF Moved
    <3> QED BY <3>7, <3>9, <3>10
  <2>2. ASSUME NEW h, NEW S, Movable(S, k, n), RedTree(t, h, S)
        PROVE  RedTree(Shift(t, k, n), h, Moved(S, k, n))
    <3>2. PICK i, a, b, U, V :
             /\ t = At("left", i, Red, a, b) /\ BlackTree(a, h, U) /\ BlackTree(b, h, V)
             /\ Divides("left", i, U, V) /\ S = U \cup {i} \cup V
      BY <1>0, <2>2, RedParts
    <3>3. /\ Shift(t, k, n) = At("left", Move(i, k, n), Red, Shift(a, k, n), Shift(b, k, n))
          /\ t.left = a /\ t.right = b
      BY <3>2, ShiftAt
    <3>4. /\ Divides("left", Move(i, k, n), Moved(U, k, n), Moved(V, k, n))
          /\ Movable(U, k, n) /\ Movable(V, k, n)
      BY <2>2, <3>2, MovedDivides
    <3>5. BlackTree(Shift(a, k, n), h, Moved(U, k, n))
      BY <2>0, <3>2, <3>3, <3>4 DEF Moves
    <3>6. BlackTree(Shift(b, k, n), h, Moved(V, k, n))
      BY <2>0, <3>2, <3>3, <3>4 DEF Moves
    <3>9. RedTree(Shift(t, k, n), h, Moved(U, k, n) \cup {Move(i, k, n)} \cup Moved(V, k, n))
      BY <1>0, <3>3, <3>4, <3>5, <3>6, RedNode
    <3> QED BY <3>2, <3>9, MovedNode
  <2>3. Moves(t, k, n)
    BY <2>1, <2>2 DEF Moves
  <2> QED BY <2>3
<1>3. All \subseteq P
  <2> HIDE DEF P
  <2> QED BY <1>1, <1>2, TreeInduction
<1> QED BY <1>3

-----------------------------------------------------------------------------
(* A search finds an item exactly when the tree holds it.                  *)
Finds(t) == \A S : \A s \in Int : Holds(t, S) =>
              IF s \in S THEN Find(t, s, s) # Nil /\ Find(t, s, s).item = s
                         ELSE Find(t, s, s) = Nil

(* It is so for a node if it is so for its subtrees,                       *)
LEMMA FindNode ==
  ASSUME NEW t \in All \ {Nil}, Finds(t.left), Finds(t.right),
         NEW S, NEW s \in Int, Holds(t, S)
  PROVE  IF s \in S THEN Find(t, s, s) # Nil /\ Find(t, s, s).item = s
                    ELSE Find(t, s, s) = Nil
<1> DEFINE i == t.item
           a == t.left
           b == t.right
<1>1. t = Tree(i, t.red, a, b) /\ i \in Int /\ t # Nil
  BY AllTrees
<1>2. PICK U, V : /\ Holds(a, U) /\ Holds(b, V) /\ Divides("left", i, U, V)
                  /\ S = U \cup {i} \cup V
  <2>1. Holds(Tree(i, t.red, a, b), S)
    BY <1>1
  <2> HIDE DEF i, a, b
  <2> QED BY <2>1, TreeHeld
<1>3. \A x \in U : x \in Int /\ x < i
  BY <1>2 DEF Divides, Less
<1>4. \A x \in V : x \in Int /\ i < x
  BY <1>2 DEF Divides, Less
<1>5. Find(t, s, s) = IF s < i THEN Find(a, s, s) ELSE IF s > i THEN Find(b, s, s) ELSE t
  BY FindDef
<1>6. Finds(a) /\ Finds(b)
  OBVIOUS
<1> HIDE DEF a, b
<1>7. CASE s < i
  <2>1. s \in S <=> s \in U
    BY <1>1, <1>2, <1>4, <1>7
  <2>2. Find(t, s, s) = Find(a, s, s)
    BY <1>5, <1>7
  <2>3. IF s \in U THEN Find(a, s, s) # Nil /\ Find(a, s, s).item = s ELSE Find(a, s, s) = Nil
    BY <1>2, <1>6 DEF Finds
  <2> HIDE DEF i
  <2> QED BY <2>1, <2>2, <2>3
<1>8. CASE s > i
  <2>1. s \in S <=> s \in V
    BY <1>1, <1>2, <1>3, <1>8
  <2>2. Find(t, s, s) = Find(b, s, s)
    BY <1>1, <1>5, <1>8
  <2>3. IF s \in V THEN Find(b, s, s) # Nil /\ Find(b, s, s).item = s ELSE Find(b, s, s) = Nil
    BY <1>2, <1>6 DEF Finds
  <2> HIDE DEF i
  <2> QED BY <2>1, <2>2, <2>3
<1>9. CASE s = i
  <2>1. s \in S /\ Find(t, s, s) = t
    BY <1>1, <1>2, <1>5, <1>9
  <2> QED BY <1>1, <1>9, <2>1
<1> QED BY <1>1, <1>7, <1>8, <1>9

(* and therefore for every tree.                                           *)
LEMMA FindWorks == \A t \in All : Finds(t)
<1> DEFINE P == {t \in All : Finds(t)}
<1>1. Nil \in P
  <2>1. Find(Nil, 0, 0) = Nil /\ \A s : Find(Nil, s, s) = Nil
    BY AllTrees, FindDef
  <2> QED BY <2>1, AllTrees, NilHolds DEF Finds
<1>2. ASSUME NEW t \in All \ {Nil}, t.left \in P /\ t.right \in P
      PROVE  t \in P
  BY <1>2, FindNode DEF Finds
<1>3. All \subseteq P
  <2> HIDE DEF P
  <2> QED BY <1>1, <1>2, TreeInduction
<1> QED BY <1>3

-----------------------------------------------------------------------------
(* From the families to what the module's properties say of a tree.        *)

(* The nodes of a tree that holds S carry the items of S, in order.        *)
InOrder(t) == \A S : Holds(t, S) => ItemsOf(t) = S /\ Ordered(t)

(* It is so for a node if it is so for its subtrees,                       *)
LEMMA InOrderNode ==
  ASSUME NEW t \in All \ {Nil}, InOrder(t.left), InOrder(t.right), NEW S, Holds(t, S)
  PROVE  ItemsOf(t) = S /\ Ordered(t)
<1> DEFINE i == t.item
           a == t.left
           b == t.right
<1>1. t = Tree(i, t.red, a, b) /\ i \in Int /\ t # Nil
  BY AllTrees
<1>2. PICK U, V : /\ Holds(a, U) /\ Holds(b, V) /\ Divides("left", i, U, V)
                  /\ S = U \cup {i} \cup V
  <2>1. Holds(Tree(i, t.red, a, b), S)
    BY <1>1
  <2> HIDE DEF i, a, b
  <2> QED BY <2>1, TreeHeld
<1>3. (\A x \in U : x < i) /\ (\A x \in V : i < x)
  BY <1>2 DEF Divides, Less
<1>4. NodesOf(t) = {t} \cup NodesOf(a) \cup NodesOf(b)
  BY <1>1, NodesOfDef
<1>5. ItemsOf(a) = U /\ Ordered(a) /\ ItemsOf(b) = V /\ Ordered(b)
  BY <1>2 DEF InOrder
<1>6. ItemsOf(t) = U \cup {i} \cup V
  BY <1>4, <1>5 DEF ItemsOf
<1>7. Ordered(t)
  <2> SUFFICES ASSUME NEW n \in NodesOf(t)
               PROVE  /\ \A x \in ItemsOf(n.left) : x < n.item
                      /\ \A x \in ItemsOf(n.right) : n.item < x
    BY DEF Ordered
  <2>1. CASE n = t
    BY <1>3, <1>5, <2>1
  <2>2. CASE n \in NodesOf(a)
    BY <1>5, <2>2 DEF Ordered
  <2>3. CASE n \in NodesOf(b)
    BY <1>5, <2>3 DEF Ordered
  <2> HIDE DEF a, b
  <2> QED BY <1>4, <2>1, <2>2, <2>3
<1> QED BY <1>2, <1>6, <1>7

(* and therefore for every tree.                                           *)
LEMMA HeldInOrder == \A t \in All : InOrder(t)
<1> DEFINE P == {t \in All : InOrder(t)}
<1>1. Nil \in P
  <2>1. NodesOf(Nil) = {}
    BY AllTrees, NodesOfDef
  <2> QED BY <2>1, AllTrees, NilHolds DEF InOrder, ItemsOf, Ordered
<1>2. ASSUME NEW t \in All \ {Nil}, t.left \in P /\ t.right \in P
      PROVE  t \in P
  BY <1>2, InOrderNode DEF InOrder
<1>3. All \subseteq P
  <2> HIDE DEF P
  <2> QED BY <1>1, <1>2, TreeInduction
<1> QED BY <1>3

(* A tree with h black nodes on every path has a height of at most 2h.     *)
LEMMA BlackHeight == \A h \in 0 .. MaxItems : Black[h] \subseteq UpTo[2 * h]
<1> DEFINE Q == {h \in Nat : h \in 0 .. MaxItems => Black[h] \subseteq UpTo[2 * h]}
<1>1. 0 \in Q
  BY BlackDef, UpToDef, MaxAssumption
<1>2. ASSUME NEW h \in 0 .. MaxItems - 1, h \in Q
      PROVE  h + 1 \in Q
  <2> DEFINE B == Black[h]
             m == 2 * h
  <2>1. /\ m \in 0 .. 2 * MaxItems - 1 /\ m + 1 \in 0 .. 2 * MaxItems - 1
        /\ 2 * (h + 1) = (m + 1) + 1 /\ h \in 0 .. MaxItems
    BY MaxAssumption
  <2>2. B \subseteq UpTo[m]
    BY <1>2, <2>1
  <2>3. Black[h + 1] = Nodes({FALSE}, B \cup Nodes({TRUE}, B))
    BY BlackDef DEF Level
  <2> HIDE DEF B, m
  <2>4. /\ UpTo[m + 1] = {Nil} \cup Nodes(BOOLEAN, UpTo[m])
        /\ UpTo[(m + 1) + 1] = {Nil} \cup Nodes(BOOLEAN, UpTo[m + 1])
        /\ UpTo[m] \subseteq UpTo[m + 1]
    BY <2>1, UpToDef, UpToGrows
  <2>5. Nodes({TRUE}, B) \subseteq UpTo[m + 1]
    BY <2>2, <2>4 DEF Nodes
  <2>6. B \cup Nodes({TRUE}, B) \subseteq UpTo[m + 1]
    BY <2>2, <2>4, <2>5
  <2>7. Nodes({FALSE}, B \cup Nodes({TRUE}, B)) \subseteq UpTo[(m + 1) + 1]
    BY <2>4, <2>6 DEF Nodes
  <2>8. Black[h + 1] \subseteq UpTo[2 * (h + 1)]
    BY <2>1, <2>3, <2>7
  <2> QED BY <2>8
<1>3. 0 .. MaxItems \subseteq Q
  <2> HIDE DEF Q
  <2> QED BY <1>1, <1>2, MaxAssumption, UpToInduction
<1> QED BY <1>3

(* So it is one of the trees that the functions are defined for.           *)
LEMMA BlackIsTree == ASSUME NEW t, NEW h, NEW S, BlackTree(t, h, S) PROVE t \in All
<1>1. h \in 0 .. MaxItems /\ 2 * h \in 0 .. 2 * MaxItems /\ 2 * MaxItems \in 0 .. 2 * MaxItems
      /\ 2 * h <= 2 * MaxItems
  BY MaxAssumption DEF BlackTree
<1>2. t \in UpTo[2 * h]
  BY <1>1, BlackHeight DEF BlackTree
<1> QED BY <1>1, <1>2, UpToMonotone DEF All, Trees

(* And it holds at least 2^h - 1 items, so that h is not above their number. *)
LEMMA FewestGrows == \A h \in 0 .. MaxItems : Fewest[h] \in Nat /\ h <= Fewest[h]
<1> DEFINE Q == {h \in Nat : h \in 0 .. MaxItems => Fewest[h] \in Nat /\ h <= Fewest[h]}
<1>1. 0 \in Q
  BY FewestDef, MaxAssumption
<1>2. ASSUME NEW h \in 0 .. MaxItems - 1, h \in Q
      PROVE  h + 1 \in Q
  <2>1. h \in 0 .. MaxItems /\ h + 1 \in 0 .. MaxItems
    BY MaxAssumption
  <2>2. Fewest[h] \in Nat /\ h <= Fewest[h]
    BY <1>2, <2>1
  <2>3. Fewest[h + 1] = 2 * Fewest[h] + 1
    BY <2>1, FewestDef
  <2> QED BY <2>2, <2>3
<1>3. 0 .. MaxItems \subseteq Q
  <2> HIDE DEF Q
  <2> QED BY <1>1, <1>2, MaxAssumption, UpToInduction
<1> QED BY <1>3

(* A node has the items of its subtrees and one more.                      *)
LEMMA SizeOfNode ==
  ASSUME NEW l, NEW i, NEW U, NEW V, Divides(l, i, U, V), IsFiniteSet(U), IsFiniteSet(V)
  PROVE  /\ IsFiniteSet(U \cup {i} \cup V)
         /\ Cardinality(U \cup {i} \cup V) = Cardinality(U) + 1 + Cardinality(V)
         /\ Cardinality(U) \in Nat /\ Cardinality(V) \in Nat
<1>1. i \in Int /\ U \subseteq Int /\ V \subseteq Int
  BY DEF Divides
<1>2. i \notin U /\ i \notin V /\ U \cap V = {}
  BY <1>1 DEF Divides, Less
<1>3. IsFiniteSet(U \cup {i}) /\ Cardinality(U \cup {i}) = Cardinality(U) + 1
  BY <1>2, FS_AddElement
<1>4. (U \cup {i}) \cap V = {}
  BY <1>2
<1> DEFINE X == U \cup {i}
<1>5. /\ IsFiniteSet(X \cup V)
      /\ Cardinality(X \cup V) = Cardinality(X) + Cardinality(V) - Cardinality(X \cap V)
  <2>1. IsFiniteSet(X) /\ IsFiniteSet(V)
    BY <1>3
  <2> HIDE DEF X
  <2> QED BY <2>1, FS_Union
<1>6. Cardinality(X \cap V) = 0
  BY <1>4, FS_EmptySet
<1>7. Cardinality(U) \in Nat /\ Cardinality(V) \in Nat
  BY FS_CardinalityType
<1> QED BY <1>3, <1>5, <1>6, <1>7

Sized(t) == \A h, S : AnyTree(t, h, S) => IsFiniteSet(S) /\ Fewest[h] <= Cardinality(S)

(* A node has enough items if its subtrees have,                           *)
LEMMA SizedNode ==
  ASSUME NEW t \in All \ {Nil}, Sized(t.left), Sized(t.right)
  PROVE  Sized(t)
<1>0. "left" \in Sides
  BY DEF Sides
<1>1. ASSUME NEW h, NEW S, BlackTree(t, h, S)
      PROVE  IsFiniteSet(S) /\ Fewest[h] <= Cardinality(S)
  <2>1. h \in 0 .. MaxItems /\ h # 0
    BY <1>1, NoBlackNodes DEF BlackTree
  <2>2. PICK i, a, b, U, V :
           /\ t = At("left", i, Blk, a, b) /\ AnyTree(a, h - 1, U) /\ AnyTree(b, h - 1, V)
           /\ Divides("left", i, U, V) /\ S = U \cup {i} \cup V
    BY <1>0, <1>1, <2>1, BlackParts
  <2>3. t.left = a /\ t.right = b
    BY <1>0, <2>2, AtOf
  <2>4. /\ IsFiniteSet(U) /\ Fewest[h - 1] <= Cardinality(U)
        /\ IsFiniteSet(V) /\ Fewest[h - 1] <= Cardinality(V)
    BY <2>2, <2>3 DEF Sized
  <2>5. /\ IsFiniteSet(S) /\ Cardinality(S) = Cardinality(U) + 1 + Cardinality(V)
        /\ Cardinality(U) \in Nat /\ Cardinality(V) \in Nat
    BY <2>2, <2>4, SizeOfNode
  <2>6. h - 1 \in 0 .. MaxItems /\ h - 1 \in 0 .. MaxItems - 1 /\ (h - 1) + 1 = h
    BY <2>1, MaxAssumption
  <2>7. Fewest[h - 1] \in Nat /\ Fewest[h] = 2 * Fewest[h - 1] + 1
    BY <2>1, <2>6, FewestDef, FewestGrows
  <2> QED BY <2>4, <2>5, <2>7
<1>2. ASSUME NEW h, NEW S, RedTree(t, h, S)
      PROVE  IsFiniteSet(S) /\ Fewest[h] <= Cardinality(S)
  <2>1. h \in 0 .. MaxItems
    BY <1>2 DEF RedTree
  <2>2. PICK i, a, b, U, V :
           /\ t = At("left", i, Red, a, b) /\ BlackTree(a, h, U) /\ BlackTree(b, h, V)
           /\ Divides("left", i, U, V) /\ S = U \cup {i} \cup V
    BY <1>0, <1>2, RedParts
  <2>3. t.left = a /\ t.right = b
    BY <1>0, <2>2, AtOf
  <2>4. /\ IsFiniteSet(U) /\ Fewest[h] <= Cardinality(U)
        /\ IsFiniteSet(V) /\ Fewest[h] <= Cardinality(V)
    BY <2>2, <2>3 DEF Sized, AnyTree
  <2>5. /\ IsFiniteSet(S) /\ Cardinality(S) = Cardinality(U) + 1 + Cardinality(V)
        /\ Cardinality(U) \in Nat /\ Cardinality(V) \in Nat
    BY <2>2, <2>4, SizeOfNode
  <2>7. Fewest[h] \in Nat
    BY <2>1, FewestGrows
  <2> QED BY <2>4, <2>5, <2>7
<1> QED BY <1>1, <1>2 DEF Sized, AnyTree

(* and therefore every tree has.                                           *)
LEMMA TreesSized == \A t \in All : Sized(t)
<1> DEFINE P == {t \in All : Sized(t)}
<1>1. Nil \in P
  <2>1. ASSUME NEW h, NEW S, AnyTree(Nil, h, S)
        PROVE  IsFiniteSet(S) /\ Fewest[h] <= Cardinality(S)
    <3>1. h = 0 /\ S = {}
      BY <2>1, NilHeight
    <3> QED BY <3>1, FewestDef, FS_EmptySet, MaxAssumption
  <2> QED BY <2>1, AllTrees DEF Sized
<1>2. ASSUME NEW t \in All \ {Nil}, t.left \in P /\ t.right \in P
      PROVE  t \in P
  BY <1>2, SizedNode
<1>3. All \subseteq P
  <2> HIDE DEF P
  <2> QED BY <1>1, <1>2, TreeInduction
<1> QED BY <1>3

-----------------------------------------------------------------------------
(* The state machine.  The inductive invariant: the tree is a red-black    *)
(* tree of the numbers of `count` items, and no assertion failed.          *)
Evens(n) == {2 * k : k \in 1 .. n}

TreeInv == /\ count \in 0 .. MaxItems
           /\ asserted = TRUE
           /\ \E h : BlackTree(root, h, Evens(count))

(* There are as many numbers as items.                                     *)
LEMMA EvensSize == \A n \in 0 .. MaxItems : IsFiniteSet(Evens(n)) /\ Cardinality(Evens(n)) = n
<1> DEFINE Q == {n \in Nat : IsFiniteSet(Evens(n)) /\ Cardinality(Evens(n)) = n}
<1>1. 0 \in Q
  <2>1. Evens(0) = {}
    BY DEF Evens
  <2> QED BY <2>1, FS_EmptySet
<1>2. ASSUME NEW n \in 0 .. MaxItems - 1, n \in Q
      PROVE  n + 1 \in Q
  <2>1. Evens(n + 1) = Evens(n) \cup {2 * (n + 1)}
    <3>1. 1 .. n + 1 = (1 .. n) \cup {n + 1}
      OBVIOUS
    <3> QED BY <3>1 DEF Evens
  <2>2. 2 * (n + 1) \notin Evens(n)
    BY DEF Evens
  <2>3. /\ IsFiniteSet(Evens(n) \cup {2 * (n + 1)})
        /\ Cardinality(Evens(n) \cup {2 * (n + 1)}) = Cardinality(Evens(n)) + 1
    BY <1>2, <2>2, FS_AddElement
  <2>4. Cardinality(Evens(n)) = n
    BY <1>2
  <2> QED BY <2>1, <2>3, <2>4
<1>3. 0 .. MaxItems \subseteq Q
  <2> HIDE DEF Q
  <2> QED BY <1>1, <1>2, MaxAssumption, UpToInduction
<1> QED BY <1>3

(* Room for an item, and the gap closed behind one.                        *)
LEMMA RoomMade ==
  ASSUME NEW n \in Nat, NEW k \in 1 .. n + 1
  PROVE  /\ Movable(Evens(n), 2 * k, 2)
         /\ 2 * k \notin Moved(Evens(n), 2 * k, 2)
         /\ Moved(Evens(n), 2 * k, 2) \cup {2 * k} = Evens(n + 1)
<1>1. Movable(Evens(n), 2 * k, 2)
  BY DEF Movable, Evens
<1>2. \A j \in 1 .. n : Move(2 * j, 2 * k, 2) = IF j >= k THEN 2 * (j + 1) ELSE 2 * j
  BY DEF Move
<1>3. 2 * k \notin Moved(Evens(n), 2 * k, 2)
  BY <1>2 DEF Moved, Evens
<1>4. ASSUME NEW x \in Moved(Evens(n), 2 * k, 2)
      PROVE  x \in Evens(n + 1)
  <2>1. PICK j \in 1 .. n : x = Move(2 * j, 2 * k, 2)
    BY DEF Moved, Evens
  <2>2. \E m \in 1 .. n + 1 : x = 2 * m
    <3>1. CASE j >= k
      <4>1. x = 2 * (j + 1) /\ j + 1 \in 1 .. n + 1
        BY <1>2, <2>1, <3>1
      <4> QED BY <4>1
    <3>2. CASE j < k
      <4>1. x = 2 * j /\ j \in 1 .. n + 1
        BY <1>2, <2>1, <3>2
      <4> QED BY <4>1
    <3> QED BY <3>1, <3>2
  <2> QED BY <2>2 DEF Evens
<1>5. ASSUME NEW x \in Evens(n + 1), x # 2 * k
      PROVE  x \in Moved(Evens(n), 2 * k, 2)
  <2>1. PICK m \in 1 .. n + 1 : x = 2 * m
    BY DEF Evens
  <2>2. m # k
    BY <1>5, <2>1
  <2>3. \E j \in 1 .. n : x = Move(2 * j, 2 * k, 2)
    <3>1. CASE m < k
      <4>1. m \in 1 .. n /\ x = Move(2 * m, 2 * k, 2)
        BY <1>2, <2>1, <3>1
      <4> QED BY <4>1
    <3>2. CASE m > k
      <4>2. m - 1 \in 1 .. n /\ m - 1 >= k /\ (m - 1) + 1 = m
        BY <3>2
      <4>1. m - 1 \in 1 .. n /\ x = Move(2 * (m - 1), 2 * k, 2)
        BY <1>2, <2>1, <4>2
      <4> QED BY <4>1
    <3> QED BY <2>2, <3>1, <3>2
  <2> QED BY <2>3 DEF Moved, Evens
<1>6. 2 * k \in Evens(n + 1)
  BY DEF Evens
<1> QED BY <1>1, <1>3, <1>4, <1>5, <1>6

(* And the gap closed behind one.                                          *)
LEMMA GapClosed ==
  ASSUME NEW n \in Nat, NEW k \in 1 .. n
  PROVE  /\ Movable(Evens(n) \ {2 * k}, 2 * k, -2)
         /\ Moved(Evens(n) \ {2 * k}, 2 * k, -2) = Evens(n - 1)
<1>1. Movable(Evens(n) \ {2 * k}, 2 * k, -2)
  BY DEF Movable, Evens
<1>2. \A j \in 1 .. n : Move(2 * j, 2 * k, -2) = IF j >= k THEN 2 * (j - 1) ELSE 2 * j
  BY DEF Move
<1>4. ASSUME NEW x \in Moved(Evens(n) \ {2 * k}, 2 * k, -2)
      PROVE  x \in Evens(n - 1)
  <2>1. PICK j \in 1 .. n : x = Move(2 * j, 2 * k, -2) /\ j # k
    BY DEF Moved, Evens
  <2>2. \E m \in 1 .. n - 1 : x = 2 * m
    <3>1. CASE j > k
      <4>1. x = 2 * (j - 1) /\ j - 1 \in 1 .. n - 1
        BY <1>2, <2>1, <3>1
      <4> QED BY <4>1
    <3>2. CASE j < k
      <4>1. x = 2 * j /\ j \in 1 .. n - 1
        BY <1>2, <2>1, <3>2
      <4> QED BY <4>1
    <3> QED BY <2>1, <3>1, <3>2
  <2> QED BY <2>2 DEF Evens
<1>5. ASSUME NEW x \in Evens(n - 1)
      PROVE  x \in Moved(Evens(n) \ {2 * k}, 2 * k, -2)
  <2>1. PICK m \in 1 .. n - 1 : x = 2 * m
    BY DEF Evens
  <2>3. \E j \in 1 .. n : j # k /\ x = Move(2 * j, 2 * k, -2)
    <3>1. CASE m < k
      <4>1. m \in 1 .. n /\ m # k /\ x = Move(2 * m, 2 * k, -2)
        BY <1>2, <2>1, <3>1
      <4> QED BY <4>1
    <3>2. CASE m >= k
      <4>2. m + 1 \in 1 .. n /\ m + 1 # k /\ m + 1 >= k /\ (m + 1) - 1 = m
        BY <3>2
      <4>1. m + 1 \in 1 .. n /\ m + 1 # k /\ x = Move(2 * (m + 1), 2 * k, -2)
        BY <1>2, <2>1, <4>2
      <4> QED BY <4>1
    <3> QED BY <3>1, <3>2
  <2>4. PICK j \in 1 .. n : j # k /\ x = Move(2 * j, 2 * k, -2)
    BY <2>3
  <2>5. 2 * j \in Evens(n) \ {2 * k}
    BY <2>4 DEF Evens
  <2> QED BY <2>4, <2>5 DEF Moved
<1> QED BY <1>1, <1>4, <1>5

(* The invariant in the terms of the module's properties.                  *)
LEMMA HeightBound ==
  ASSUME NEW n \in 0 .. MaxItems, NEW t, NEW h, BlackTree(t, h, Evens(n))
  PROVE  h \in 0 .. n /\ Fewest[h] <= n /\ t \in All
<1>1. t \in All /\ h \in 0 .. MaxItems
  BY BlackIsTree DEF BlackTree
<1>2. Fewest[h] <= Cardinality(Evens(n))
  BY <1>1, TreesSized DEF Sized, AnyTree
<1>3. Cardinality(Evens(n)) = n /\ Fewest[h] \in Nat /\ h <= Fewest[h]
  BY <1>1, EvensSize, FewestGrows
<1> QED BY <1>1, <1>2, <1>3, MaxAssumption

(* Even numbers are those of items, odd ones lie between.                  *)
LEMMA EvenNumbers ==
  ASSUME NEW n \in Nat, NEW s \in 1 .. 2 * n + 1
  PROVE  /\ s \in Evens(n) <=> s % 2 = 0
         /\ s % 2 = 0 => s \div 2 \in 1 .. n /\ 2 * (s \div 2) = s
         /\ (s + 1) \div 2 \in 1 .. n + 1
<1>1. /\ s % 2 = 0 => s \div 2 \in 1 .. n /\ 2 * (s \div 2) = s
      /\ (s + 1) \div 2 \in 1 .. n + 1
  OBVIOUS
<1>2. s \in Evens(n) => s % 2 = 0
  BY DEF Evens
<1>3. s % 2 = 0 => s \in Evens(n)
  BY <1>1 DEF Evens
<1> QED BY <1>1, <1>2, <1>3

(* The steps.                                                              *)
LEMMA AddKeeps ==
  ASSUME TreeInv, NEW k \in 1 .. count + 1, Add(k)
  PROVE  TreeInv'
<1>1. /\ count \in Nat /\ count < MaxItems /\ count' = count + 1 /\ asserted' = asserted
      /\ root' = AddTo(Shift(root, 2 * k, 2), 2 * k)
  BY MaxAssumption DEF TreeInv, Add
<1>2. PICK h : BlackTree(root, h, Evens(count))
  BY DEF TreeInv
<1>3. root \in All /\ h \in 0 .. count /\ Fewest[h] <= count
  BY <1>2, HeightBound DEF TreeInv
<1> DEFINE t == Shift(root, 2 * k, 2)
           S == Moved(Evens(count), 2 * k, 2)
           e == 2 * k
<1>4. Movable(Evens(count), e, 2) /\ e \notin S /\ S \cup {e} = Evens(count + 1) /\ e \in Int
  BY <1>1, RoomMade
<1>5. BlackTree(t, h, S)
  BY <1>2, <1>3, <1>4, ShiftWorks DEF Moves
<1> HIDE DEF t, S
<1>6. t \in All /\ h < MaxItems
  BY <1>1, <1>3, <1>5, BlackIsTree, MaxAssumption
<1>7. BlackTree(AddTo(t, e), h, S \cup {e}) \/ BlackTree(AddTo(t, e), h + 1, S \cup {e})
  BY <1>4, <1>5, <1>6, AddToWorks
<1>8. \E g : BlackTree(root', g, Evens(count'))
  BY <1>1, <1>4, <1>7 DEF t
<1>9. count' \in 0 .. MaxItems /\ asserted' = TRUE
  BY <1>1, MaxAssumption DEF TreeInv
<1> QED BY <1>8, <1>9 DEF TreeInv

(* Deleting an item keeps the invariant.                                   *)
LEMMA DeleteKeeps ==
  ASSUME TreeInv, NEW k \in 1 .. count, Delete(k)
  PROVE  TreeInv'
<1> DEFINE e == 2 * k
           d == DeleteRecursive(root, e)
           S == Evens(count) \ {e}
<1>1. /\ count \in Nat /\ count' = count - 1 /\ asserted' = (asserted /\ d.ok)
      /\ root' = Shift(Blacken(d.tree), e, -2)
  BY MaxAssumption DEF TreeInv, Delete
<1>2. PICK h : BlackTree(root, h, Evens(count))
  BY DEF TreeInv
<1>3. root \in All
  BY <1>2, BlackIsTree
<1>4. e \in Evens(count) /\ e \in Int
  BY DEF Evens
<1>5. FromBlack(d, h, S)
  BY <1>2, <1>3, <1>4, DeleteRecursiveWorks DEF Deletes
<1> HIDE DEF d
<1>6. d.ok /\ \E g : BlackTree(d.tree, g, S)
  BY <1>5 DEF FromBlack
<1>7. PICK g : BlackTree(d.tree, g, S)
  BY <1>6
<1>8. Movable(S, e, -2) /\ Moved(S, e, -2) = Evens(count - 1)
  BY <1>1, GapClosed
<1>9. d.tree \in All /\ Blacken(d.tree) = d.tree /\ -2 \in Int
  BY <1>7, BlackIsTree, BlackenBlack
<1>10. BlackTree(Shift(d.tree, e, -2), g, Evens(count - 1))
  <2> HIDE DEF S, e
  <2> QED BY <1>4, <1>7, <1>8, <1>9, ShiftWorks DEF Moves
<1>11. \E f : BlackTree(root', f, Evens(count'))
  BY <1>1, <1>9, <1>10
<1>12. count' \in 0 .. MaxItems
  BY <1>1, MaxAssumption DEF TreeInv
<1>13. asserted' = TRUE
  BY <1>1, <1>6 DEF TreeInv
<1> QED BY <1>11, <1>12, <1>13 DEF TreeInv

(* In a tree of the invariant a number is found exactly if an item has it. *)
LEMMA FoundInTree ==
  ASSUME TreeInv, NEW s \in 1 .. 2 * count + 1
  PROVE  IF s % 2 = 0 THEN Find(root, s, s) # Nil /\ Find(root, s, s).item = s
                      ELSE Find(root, s, s) = Nil
<1>1. PICK h : BlackTree(root, h, Evens(count))
  BY DEF TreeInv
<1>2. root \in All /\ Holds(root, Evens(count)) /\ s \in Int
  BY <1>1, BlackIsTree DEF BlackTree
<1>3. s \in Evens(count) <=> s % 2 = 0
  BY EvenNumbers DEF TreeInv
<1>4. IF s \in Evens(count) THEN Find(root, s, s) # Nil /\ Find(root, s, s).item = s
                            ELSE Find(root, s, s) = Nil
  BY <1>2, FindWorks DEF Finds
<1> QED BY <1>3, <1>4

(* The empty tree has the invariant.                                       *)
LEMMA TreeInvStart == EmptyTree => TreeInv
<1> SUFFICES ASSUME EmptyTree PROVE TreeInv
  OBVIOUS
<1>1. Evens(0) = {}
  BY DEF Evens
<1>2. BlackTree(Nil, 0, Evens(0))
  BY <1>1, NilTree
<1> QED BY <1>2, MaxAssumption DEF EmptyTree, TreeInv

(* Every step keeps it.                                                    *)
LEMMA TreeInvKept == TreeInv /\ [TreeNext]_treeVars => TreeInv'
<1> SUFFICES ASSUME TreeInv, [TreeNext]_treeVars PROVE TreeInv'
  OBVIOUS
<1>1. CASE UNCHANGED treeVars
  BY <1>1 DEF treeVars, TreeInv
<1>2. ASSUME NEW s \in 1 .. 2 * count + 1, AddIfNotMember(s)
      PROVE  TreeInv'
  <2>1. CASE Find(root, s, s) = Nil
    <3>1. (s + 1) \div 2 \in 1 .. count + 1
      BY EvenNumbers DEF TreeInv
    <3>2. Add((s + 1) \div 2)
      BY <1>2, <2>1 DEF AddIfNotMember
    <3> QED BY <3>1, <3>2, AddKeeps
  <2>2. CASE Find(root, s, s) # Nil
    BY <1>1, <1>2, <2>2 DEF AddIfNotMember
  <2> QED BY <2>1, <2>2
<1>3. ASSUME NEW s \in 1 .. 2 * count + 1, DeleteIfMember(s)
      PROVE  TreeInv'
  <2>1. CASE Find(root, s, s) # Nil
    <3>1. s % 2 = 0
      BY <2>1, FoundInTree
    <3>2. s \div 2 \in 1 .. count
      BY <3>1, EvenNumbers DEF TreeInv
    <3>3. Delete(s \div 2)
      BY <1>3, <2>1 DEF DeleteIfMember
    <3> QED BY <3>2, <3>3, DeleteKeeps
  <2>2. CASE Find(root, s, s) = Nil
    BY <1>1, <1>3, <2>2 DEF DeleteIfMember
  <2> QED BY <2>1, <2>2
<1> QED BY <1>1, <1>2, <1>3 DEF TreeNext

(* It always holds.                                                        *)
LEMMA TreeInvAlways == TreeSpec => []TreeInv
BY TreeInvStart, TreeInvKept, PTL DEF TreeSpec

(* sglib's own consistency check never fails, and a lookup costs at most   *)
(* twice the logarithm of the number of items: whatever is added and       *)
(* deleted, the tree is a red-black tree.                                  *)
THEOREM TreeIsBalanced == TreeSpec => []Balanced
<1>1. TreeInv => Balanced
  <2> SUFFICES ASSUME TreeInv PROVE Balanced
    OBVIOUS
  <2>1. PICK h : BlackTree(root, h, Evens(count))
    BY DEF TreeInv
  <2>2. h \in 0 .. count /\ Fewest[h] <= count
    BY <2>1, HeightBound DEF TreeInv
  <2>3. root \in Black[h] /\ h \in 0 .. MaxItems
    BY <2>1 DEF BlackTree
  <2>4. root \in UpTo[2 * h]
    BY <2>3, BlackHeight
  <2> QED BY <2>2, <2>3, <2>4 DEF Balanced
<1> QED BY <1>1, TreeInvAlways, PTL

(* No item is lost, kept or moved past another by the rotations: the tree  *)
(* holds what was added and not deleted since, in order.                   *)
THEOREM TreeHoldsMembers == TreeSpec => []HoldsMembers
<1>1. TreeInv => HoldsMembers
  <2> SUFFICES ASSUME TreeInv PROVE HoldsMembers
    OBVIOUS
  <2>1. PICK h : BlackTree(root, h, Evens(count))
    BY DEF TreeInv
  <2>2. root \in All /\ Holds(root, Evens(count))
    BY <2>1, BlackIsTree DEF BlackTree
  <2>3. ItemsOf(root) = Evens(count) /\ Ordered(root)
    BY <2>2, HeldInOrder DEF InOrder
  <2> QED BY <2>3 DEF HoldsMembers, Evens
<1> QED BY <1>1, TreeInvAlways, PTL

(* find_member finds an item when there is one, and only then.             *)
THEOREM TreeSearchExact == TreeSpec => []SearchExact
<1>1. TreeInv => SearchExact
  BY FoundInTree DEF SearchExact, IsMember
<1> QED BY <1>1, TreeInvAlways, PTL

(* No assert() of the deletion fails.                                      *)
THEOREM TreeAssertionsHold == TreeSpec => []AssertionsHold
<1>1. TreeInv => AssertionsHold
  BY DEF TreeInv, AssertionsHold
<1> QED BY <1>1, TreeInvAlways, PTL
=============================================================================
