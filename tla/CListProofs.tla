----------------------------- MODULE CListProofs -----------------------------
(***************************************************************************)
(* The macros of clist.h keep one ring of all members, CLIST_FOREACH never *)
(* steps on a member that was deleted, and together they do what Ring      *)
(* promises, for any set of items.                                         *)
(***************************************************************************)
EXTENDS CList, SequenceLemmas, TLAPS

(* The place behind k in a ring of n members.                              *)
Behind(k, n) == IF k = n THEN 1 ELSE k + 1

(* The members ms in the order of their pointers, from where the list      *)
(* begins.                                                                 *)
Ordered(nx, pv, s) ==
  \A k \in 1 .. Len(s) : nx[s[k]] = s[Behind(k, Len(s))] /\ pv[s[Behind(k, Len(s))]] = s[k]

Laid(nx, pv, first, ms, s) ==
  /\ s \in Seq(Items) /\ IsInjective(s) /\ ToSet(s) = ms
  /\ first = IF s = <<>> THEN NULL ELSE s[1]
  /\ Ordered(nx, pv, s)

(* A loop has all places behind the one it visits next still before it,    *)
(* and the member it is at is none of them.                                *)
Ahead(it, tk, s) ==
  tk # NULL => \E p \in 1 .. Len(s) : tk = s[p] /\ \A k \in p .. Len(s) : s[k] # it

Inv(s) == /\ TypeOK
          /\ item = NULL => token = NULL
          /\ Laid(next, prev, list, members, s)
          /\ Ahead(item, token, s)

IInv == \E s \in Seq(Items) : Inv(s)

-----------------------------------------------------------------------------
(* The elements of such a sequence.                                        *)
LEMMA Places ==
  ASSUME NEW nx, NEW pv, NEW first, NEW ms, NEW s, Laid(nx, pv, first, ms, s)
  PROVE  /\ Len(s) \in Nat /\ DOMAIN s = 1 .. Len(s)
         /\ s = <<>> <=> Len(s) = 0
         /\ \A k \in 1 .. Len(s) : s[k] \in Items /\ s[k] \in ms /\ s[k] # NULL
         /\ \A j, k \in 1 .. Len(s) : s[j] = s[k] => j = k
         /\ \A i \in ms : i \in Items /\ \E k \in 1 .. Len(s) : s[k] = i
         /\ \A k \in 1 .. Len(s) : Behind(k, Len(s)) \in 1 .. Len(s)
         /\ \A k \in 1 .. Len(s) : nx[s[k]] = s[Behind(k, Len(s))]
         /\ \A k \in 1 .. Len(s) : pv[s[Behind(k, Len(s))]] = s[k]
<1>1. s \in Seq(Items) /\ IsInjective(s) /\ ToSet(s) = ms
  BY DEF Laid
<1>2. Len(s) \in Nat /\ (s = <<>> <=> Len(s) = 0)
  BY <1>1, EmptySeq
<1>3. \A k \in 1 .. Len(s) : Behind(k, Len(s)) \in 1 .. Len(s)
  BY <1>2 DEF Behind
<1>4. /\ DOMAIN s = 1 .. Len(s) /\ ms = {s[i] : i \in 1 .. Len(s)} /\ ms \subseteq Items
      /\ \A j, k \in 1 .. Len(s) : s[j] = s[k] => j = k
  BY <1>1, Elements
<1> QED BY <1>2, <1>3, <1>4, NullAssumption DEF Laid, Ordered

(* In front of every place there is another one.                           *)
LEMMA Before ==
  ASSUME NEW n \in Nat, NEW k \in 1 .. n
  PROVE  \E j \in 1 .. n : Behind(j, n) = k
<1>1. CASE k = 1
  BY <1>1 DEF Behind
<1>2. CASE k # 1
  <2>1. k - 1 \in 1 .. n /\ Behind(k - 1, n) = k
    BY <1>2 DEF Behind
  <2> QED BY <2>1
<1> QED BY <1>1, <1>2

(* What the invariant is for.                                              *)
LEMMA InvLinked ==
  ASSUME IInv
  PROVE  Linked /\ TokenAlive
<1>1. PICK s \in Seq(Items) : Inv(s)
  BY DEF IInv
<1>2. Laid(next, prev, list, members, s)
  BY <1>1 DEF Inv
<1> DEFINE n == Len(s)
<1>3. /\ n \in Nat
      /\ s = <<>> <=> n = 0
      /\ \A k \in 1 .. n : s[k] \in Items /\ s[k] \in members /\ s[k] # NULL
      /\ \A j, k \in 1 .. n : s[j] = s[k] => j = k
      /\ \A i \in members : \E k \in 1 .. n : s[k] = i
      /\ \A k \in 1 .. n : Behind(k, n) \in 1 .. n
      /\ \A k \in 1 .. n : next[s[k]] = s[Behind(k, n)]
      /\ \A k \in 1 .. n : prev[s[Behind(k, n)]] = s[k]
  BY <1>2, Places
<1> HIDE DEF n
<1>4. ASSUME NEW i \in members
      PROVE  /\ next[i] \in members /\ prev[next[i]] = i
             /\ prev[i] \in members /\ next[prev[i]] = i
  <2>1. PICK k \in 1 .. n : s[k] = i
    BY <1>3
  <2>2. PICK j \in 1 .. n : Behind(j, n) = k
    BY <1>3, Before
  <2>3. next[s[k]] \in members /\ prev[next[s[k]]] = s[k]
    BY <1>3
  <2>4. prev[s[k]] = s[j] /\ next[s[j]] = s[k] /\ s[j] \in members
    BY <1>3, <2>2
  <2> QED BY <2>1, <2>3, <2>4
<1>5. list \in IF members = {} THEN {NULL} ELSE members
  <2>1. list = IF s = <<>> THEN NULL ELSE s[1]
    BY <1>2 DEF Laid
  <2>2. CASE n = 0
    BY <1>3, <2>1, <2>2
  <2>3. CASE n # 0
    <3>1. 1 \in 1 .. n
      BY <1>3, <2>3
    <3> QED BY <1>3, <2>1, <2>3, <3>1
  <2> QED BY <2>2, <2>3
<1>6. TokenAlive
  <2> SUFFICES ASSUME token # NULL
               PROVE  token \in members /\ token # item
    BY DEF TokenAlive
  <2>1. PICK p \in 1 .. n : token = s[p] /\ \A k \in p .. n : s[k] # item
    BY <1>1 DEF Inv, Ahead, n
  <2>2. p \in p .. n
    BY <1>3
  <2> QED BY <1>3, <2>1, <2>2
<1>7. TypeOK
  BY <1>1 DEF Inv
<1> QED BY <1>4, <1>5, <1>6, <1>7 DEF Linked

-----------------------------------------------------------------------------
(* What Link() does to the pointers.                                       *)
LEMMA LinkFirst ==
  ASSUME TypeOK, NEW i \in Items, list = NULL, Link(i)
  PROVE  next' \in [Items -> Pointers] /\ prev' \in [Items -> Pointers] /\ next'[i] = i /\ prev'[i] = i
BY DEF TypeOK, Link, Pointers

(* CLIST_ADD_BEFORE in front of the first member: the new one stands       *)
(* between the last and the first.                                         *)
LEMMA LinkMore ==
  ASSUME TypeOK, NEW s, Laid(next, prev, list, members, s), NEW i \in Items, i \notin members,
         list # NULL, Link(i)
  PROVE  /\ next' \in [Items -> Pointers] /\ prev' \in [Items -> Pointers]
         /\ Len(s) \in Nat \ {0} /\ list = s[1]
         /\ next'[i] = s[1] /\ prev'[s[1]] = i
         /\ next'[s[Len(s)]] = i /\ prev'[i] = s[Len(s)]
         /\ \A k \in 1 .. Len(s) - 1 : next'[s[k]] = s[k + 1] /\ prev'[s[k + 1]] = s[k]
<1> DEFINE n == Len(s)
<1>1. /\ n \in Nat
      /\ s = <<>> <=> n = 0
      /\ \A k \in 1 .. n : s[k] \in Items /\ s[k] # i
      /\ \A j, k \in 1 .. n : s[j] = s[k] => j = k
      /\ \A k \in 1 .. n : Behind(k, n) \in 1 .. n
      /\ \A k \in 1 .. n : next[s[k]] = s[Behind(k, n)]
      /\ \A k \in 1 .. n : prev[s[Behind(k, n)]] = s[k]
  BY Places
<1>2. list = IF s = <<>> THEN NULL ELSE s[1]
  BY DEF Laid
<1> HIDE DEF n
<1>3. n \in Nat \ {0} /\ list = s[1] /\ 1 \in 1 .. n /\ n \in 1 .. n /\ Behind(n, n) = 1
  BY <1>1, <1>2 DEF Behind
<1>4. list \in Items /\ prev[list] = s[n] /\ s[n] \in Items
  BY <1>1, <1>3
<1>5. \A j \in Items : /\ next'[j] = IF j = s[n] THEN i ELSE IF j = i THEN list ELSE next[j]
                       /\ prev'[j] = IF j = list THEN i ELSE IF j = i THEN s[n] ELSE prev[j]
  BY <1>4 DEF TypeOK, Link
<1>6. next' \in [Items -> Pointers] /\ prev' \in [Items -> Pointers]
  BY <1>4 DEF TypeOK, Link, Pointers
<1>7. ASSUME NEW k \in 1 .. n - 1
      PROVE  next'[s[k]] = s[k + 1] /\ prev'[s[k + 1]] = s[k]
  <2>1. k \in 1 .. n /\ k + 1 \in 1 .. n /\ k # n /\ k + 1 # 1 /\ Behind(k, n) = k + 1
    BY <1>3 DEF Behind
  <2> QED BY <1>1, <1>3, <1>5, <2>1
<1> QED BY <1>1, <1>3, <1>4, <1>5, <1>6, <1>7 DEF n

(* CLIST_ADD_LAST appends to the sequence of members.                      *)
LEMMA AddLastKeeps ==
  ASSUME NEW s \in Seq(Items), Inv(s), NEW i \in Items, AddLast(i)
  PROVE  Inv(Append(s, i))'
<1>1. /\ TypeOK /\ item = NULL /\ token = NULL /\ Laid(next, prev, list, members, s)
      /\ i \notin members /\ members' = members \cup {i}
      /\ UNCHANGED <<item, token>> /\ Link(i)
      /\ list' = IF list = NULL THEN i ELSE list
  BY DEF Inv, AddLast, Joins
<1>2. /\ s \in Seq(Items) /\ IsInjective(s) /\ ToSet(s) = members
      /\ list = IF s = <<>> THEN NULL ELSE s[1]
  BY <1>1 DEF Laid
<1> DEFINE n == Len(s)
           t == Append(s, i)
<1>3. /\ t \in Seq(Items) /\ Len(t) = n + 1 /\ n \in Nat
      /\ \A k \in 1 .. n : t[k] = s[k]
      /\ t[n + 1] = i
      /\ IsInjective(t) /\ ToSet(t) = members'
  BY <1>1, <1>2, Appended, LenProperties
<1>4. t # <<>>
  BY <1>3, EmptySeq
<1>5. TypeOK' /\ list' = t[1] /\ Ordered(next', prev', t)
  <2>1. CASE list = NULL
    <3>1. s = <<>> /\ n = 0
      BY <1>1, <1>2, <2>1, Places, EmptySeq
    <3>2. /\ next' \in [Items -> Pointers] /\ prev' \in [Items -> Pointers]
          /\ next'[i] = i /\ prev'[i] = i
      BY <1>1, <2>1, LinkFirst
    <3> HIDE DEF n, t
    <3>3. Ordered(next', prev', t)
      BY <1>3, <3>1, <3>2 DEF Ordered, Behind
    <3> QED BY <1>1, <1>3, <2>1, <3>1, <3>2, <3>3 DEF TypeOK
  <2>2. CASE list # NULL
    <3>1. /\ next' \in [Items -> Pointers] /\ prev' \in [Items -> Pointers]
          /\ n \in Nat \ {0} /\ list = s[1]
          /\ next'[i] = s[1] /\ prev'[s[1]] = i
          /\ next'[s[n]] = i /\ prev'[i] = s[n]
          /\ \A k \in 1 .. n - 1 : next'[s[k]] = s[k + 1] /\ prev'[s[k + 1]] = s[k]
      BY <1>1, <2>2, LinkMore
    <3> HIDE DEF n, t
    <3>2. t[1] = s[1] /\ t[n] = s[n]
      BY <1>3, <3>1
    <3>3. ASSUME NEW k \in 1 .. n + 1
          PROVE  next'[t[k]] = t[Behind(k, n + 1)] /\ prev'[t[Behind(k, n + 1)]] = t[k]
      <4>1. CASE k = n + 1
        BY <1>3, <3>1, <3>2, <4>1 DEF Behind
      <4>2. CASE k = n
        <5>1. Behind(k, n + 1) = n + 1
          BY <3>1, <4>2 DEF Behind
        <5> QED BY <1>3, <3>1, <3>2, <4>2, <5>1
      <4>3. CASE k # n + 1 /\ k # n
        <5>1. k \in 1 .. n - 1 /\ k \in 1 .. n /\ k + 1 \in 1 .. n /\ Behind(k, n + 1) = k + 1
          BY <3>1, <4>3 DEF Behind
        <5> QED BY <1>3, <3>1, <5>1
      <4> QED BY <4>1, <4>2, <4>3
    <3>4. Ordered(next', prev', t)
      BY <1>3, <3>3 DEF Ordered
    <3> QED BY <1>1, <2>2, <3>1, <3>2, <3>4 DEF TypeOK
  <2> QED BY <2>1, <2>2
<1>6. Laid(next', prev', list', members', t)
  BY <1>3, <1>4, <1>5 DEF Laid
<1> HIDE DEF t
<1>7. Inv(t)'
  BY <1>1, <1>5, <1>6 DEF Inv, Ahead
<1> QED BY <1>7 DEF t

(* CLIST_ADD_FIRST prepends to it.                                         *)
LEMMA AddFirstKeeps ==
  ASSUME NEW s \in Seq(Items), Inv(s), NEW i \in Items, AddFirst(i)
  PROVE  Inv(<<i>> \o s)'
<1>1. /\ TypeOK /\ item = NULL /\ token = NULL /\ Laid(next, prev, list, members, s)
      /\ i \notin members /\ members' = members \cup {i}
      /\ UNCHANGED <<item, token>> /\ Link(i)
      /\ list' = prev'[IF list = NULL THEN i ELSE list]
  BY DEF Inv, AddFirst, Joins
<1>2. /\ s \in Seq(Items) /\ IsInjective(s) /\ ToSet(s) = members
      /\ list = IF s = <<>> THEN NULL ELSE s[1]
  BY <1>1 DEF Laid
<1> DEFINE n == Len(s)
           t == <<i>> \o s
<1>3. /\ t \in Seq(Items) /\ Len(t) = n + 1 /\ n \in Nat
      /\ t[1] = i
      /\ \A k \in 1 .. n : t[k + 1] = s[k]
      /\ IsInjective(t) /\ ToSet(t) = members'
  BY <1>1, <1>2, Prepended, LenProperties
<1>4. t # <<>>
  BY <1>3, EmptySeq
<1>5. TypeOK' /\ list' = t[1] /\ Ordered(next', prev', t)
  <2>1. CASE list = NULL
    <3>1. s = <<>> /\ n = 0
      BY <1>1, <1>2, <2>1, Places, EmptySeq
    <3>2. /\ next' \in [Items -> Pointers] /\ prev' \in [Items -> Pointers]
          /\ next'[i] = i /\ prev'[i] = i
      BY <1>1, <2>1, LinkFirst
    <3> HIDE DEF n, t
    <3>3. Ordered(next', prev', t)
      BY <1>3, <3>1, <3>2 DEF Ordered, Behind
    <3> QED BY <1>1, <1>3, <2>1, <3>1, <3>2, <3>3 DEF TypeOK
  <2>2. CASE list # NULL
    <3>1. /\ next' \in [Items -> Pointers] /\ prev' \in [Items -> Pointers]
          /\ n \in Nat \ {0} /\ list = s[1]
          /\ next'[i] = s[1] /\ prev'[s[1]] = i
          /\ next'[s[n]] = i /\ prev'[i] = s[n]
          /\ \A k \in 1 .. n - 1 : next'[s[k]] = s[k + 1] /\ prev'[s[k + 1]] = s[k]
      BY <1>1, <2>2, LinkMore
    <3> HIDE DEF n, t
    <3>2. t[2] = s[1] /\ t[n + 1] = s[n] /\ Behind(n + 1, n + 1) = 1 /\ Behind(1, n + 1) = 2
      <4>1. t[1 + 1] = s[1] /\ t[n + 1] = s[n]
        BY <1>3, <3>1
      <4> QED BY <3>1, <4>1 DEF Behind
    <3>3. ASSUME NEW k \in 1 .. n + 1
          PROVE  next'[t[k]] = t[Behind(k, n + 1)] /\ prev'[t[Behind(k, n + 1)]] = t[k]
      <4>1. CASE k = n + 1
        BY <1>3, <3>1, <3>2, <4>1
      <4>2. CASE k = 1
        BY <1>3, <3>1, <3>2, <4>2
      <4>3. CASE k # n + 1 /\ k # 1
        <5> DEFINE j == k - 1
        <5>1. j \in 1 .. n - 1 /\ j \in 1 .. n /\ j + 1 \in 1 .. n /\ k = j + 1
          BY <3>1, <4>3
        <5>2. Behind(k, n + 1) = (j + 1) + 1
          BY <3>1, <4>3 DEF Behind
        <5> HIDE DEF j
        <5>3. t[k] = s[j] /\ t[(j + 1) + 1] = s[j + 1]
          BY <1>3, <5>1
        <5> QED BY <3>1, <5>1, <5>2, <5>3
      <4> QED BY <4>1, <4>2, <4>3
    <3>4. Ordered(next', prev', t)
      BY <1>3, <3>3 DEF Ordered
    <3>5. list' = i
      BY <1>1, <2>2, <3>1
    <3> QED BY <1>1, <1>3, <3>1, <3>4, <3>5 DEF TypeOK
  <2> QED BY <2>1, <2>2
<1>6. Laid(next', prev', list', members', t)
  BY <1>3, <1>4, <1>5 DEF Laid
<1> HIDE DEF t
<1>7. Inv(t)'
  BY <1>1, <1>5, <1>6 DEF Inv, Ahead
<1> QED BY <1>7 DEF t

(* CLIST_DEL() closes the gap the member leaves, and the list begins with  *)
(* the next one if it was the first.                                       *)
LEMMA UnlinkLaid ==
  ASSUME TypeOK, NEW s \in Seq(Items), Laid(next, prev, list, members, s),
         NEW i \in members, Unlink(i)
  PROVE  /\ Laid(next', prev', list', members', RemoveFirst(s, i))
         /\ list' \in Items \cup {NULL} /\ members' \subseteq Items
         /\ next' \in [Items -> Pointers] /\ prev' \in [Items -> Pointers]
<1> DEFINE n == Len(s)
           t == RemoveFirst(s, i)
<1>1. /\ IsInjective(s) /\ ToSet(s) = members
      /\ list = IF s = <<>> THEN NULL ELSE s[1]
  BY DEF Laid
<1>2. /\ n \in Nat
      /\ s = <<>> <=> n = 0
      /\ \A k \in 1 .. n : s[k] \in Items /\ s[k] # NULL
      /\ \A j, k \in 1 .. n : s[j] = s[k] => j = k
      /\ \A k \in 1 .. n : Behind(k, n) \in 1 .. n
      /\ \A k \in 1 .. n : next[s[k]] = s[Behind(k, n)]
      /\ \A k \in 1 .. n : prev[s[Behind(k, n)]] = s[k]
  BY Places
<1>3. PICK q \in 1 .. n :
        /\ s[q] = i /\ t \in Seq(Items) /\ Len(t) = n - 1
        /\ \A k \in 1 .. n - 1 : t[k] = IF k < q THEN s[k] ELSE s[k + 1]
  BY <1>1, RemovedAt
<1>4. t \in Seq(Items) /\ IsInjective(t) /\ ToSet(t) = ToSet(s) \ {i}
  BY <1>1, Removed
<1> HIDE DEF n, t
<1>5. PICK b \in 1 .. n : Behind(b, n) = q
  BY <1>2, <1>3, Before
<1> DEFINE a == Behind(q, n)
<1>6. /\ a \in 1 .. n /\ next[i] = s[a] /\ prev[i] = s[b]
      /\ s[a] \in Items /\ s[b] \in Items /\ i \in Items
  BY <1>2, <1>3, <1>5
<1>7. /\ next' = [next EXCEPT ![s[b]] = s[a], ![i] = Wild]
      /\ prev' = [prev EXCEPT ![s[a]] = s[b], ![i] = Wild]
      /\ members' = members \ {i}
      /\ list' = IF i # list THEN list ELSE IF s[a] = i THEN NULL ELSE s[a]
  BY <1>6 DEF Unlink
<1>8. next' \in [Items -> Pointers] /\ prev' \in [Items -> Pointers]
  BY <1>6, <1>7 DEF TypeOK, Pointers
<1>9. \A j \in Items : j # i => /\ next'[j] = IF j = s[b] THEN s[a] ELSE next[j]
                                /\ prev'[j] = IF j = s[a] THEN s[b] ELSE prev[j]
  BY <1>6, <1>7 DEF TypeOK
<1> HIDE DEF a
<1>10. CASE n = 1
  <2>1. a = 1 /\ q = 1 /\ list = i /\ t = <<>>
    BY <1>1, <1>2, <1>3, <1>6, <1>10, EmptySeq
  <2>2. list' = NULL /\ Ordered(next', prev', t)
    BY <1>3, <1>7, <1>10, <2>1 DEF Ordered
  <2> QED BY <1>1, <1>4, <1>7, <1>8, <2>1, <2>2 DEF Laid, TypeOK, t
<1>11. CASE n # 1
  <2>0. n \in Nat \ {0, 1} /\ n - 1 \in Nat \ {0} /\ t # <<>>
    BY <1>2, <1>3, <1>11, EmptySeq
  <2> DEFINE o(k) == IF k < q THEN k ELSE k + 1
  <2>1. ASSUME NEW k \in 1 .. n - 1
        PROVE  o(k) \in 1 .. n /\ o(k) # q /\ t[k] = s[o(k)] /\ s[o(k)] \in Items /\ s[o(k)] # i
    <3>1. o(k) \in 1 .. n /\ o(k) # q
      BY <1>3, <2>0
    <3>2. t[k] = s[o(k)]
      BY <1>3
    <3> HIDE DEF o
    <3> QED BY <1>2, <1>3, <3>1, <3>2
  <2>2. ASSUME NEW k \in 1 .. n - 1
        PROVE  next'[t[k]] = t[Behind(k, n - 1)] /\ prev'[t[Behind(k, n - 1)]] = t[k]
    <3> DEFINE h == Behind(k, n - 1)
    <3>1. h \in 1 .. n - 1
      BY <2>0 DEF Behind
    <3>2. /\ o(k) = b => o(h) = a
          /\ o(k) # b => o(h) = Behind(o(k), n) /\ o(h) # a
      BY <1>3, <1>5, <2>0 DEF Behind, a
    <3> HIDE DEF h
    <3>3. /\ t[k] = s[o(k)] /\ s[o(k)] \in Items /\ s[o(k)] # i /\ o(k) \in 1 .. n
          /\ t[h] = s[o(h)] /\ s[o(h)] \in Items /\ s[o(h)] # i /\ o(h) \in 1 .. n
      BY <2>1, <3>1
    <3> HIDE DEF o
    <3>4. CASE o(k) = b
      BY <1>9, <3>2, <3>3, <3>4 DEF h
    <3>5. CASE o(k) # b
      <4>1. s[o(k)] # s[b] /\ s[o(h)] # s[a]
        BY <1>2, <1>6, <3>2, <3>3, <3>5
      <4>2. next'[s[o(k)]] = next[s[o(k)]] /\ prev'[s[o(h)]] = prev[s[o(h)]]
        BY <1>9, <3>3, <4>1
      <4>3. next[s[o(k)]] = s[o(h)] /\ prev[s[o(h)]] = s[o(k)]
        BY <1>2, <3>2, <3>3, <3>5
      <4> QED BY <3>3, <4>2, <4>3 DEF h
    <3> QED BY <3>4, <3>5
  <2>3. Ordered(next', prev', t)
    BY <1>3, <2>2 DEF Ordered
  <2>4. list' = t[1] /\ list' \in Items
    <3>1. list = s[1] /\ 1 \in 1 .. n - 1 /\ 1 \in 1 .. n
      BY <1>1, <1>2, <2>0
    <3>2. CASE q = 1
      <4>1. i = list /\ a = 2 /\ s[a] # i /\ t[1] = s[2]
        BY <1>2, <1>3, <1>6, <2>0, <3>1, <3>2 DEF Behind, a
      <4> QED BY <1>6, <1>7, <4>1
    <3>3. CASE q # 1
      <4>1. i # list /\ t[1] = s[1]
        BY <1>2, <1>3, <2>0, <3>1, <3>3
      <4> QED BY <1>2, <1>7, <3>1, <4>1
    <3> QED BY <3>2, <3>3
  <2> QED BY <1>1, <1>4, <1>7, <1>8, <2>0, <2>3, <2>4 DEF Laid, TypeOK, t
<1> QED BY <1>10, <1>11

(* What lies ahead of the deleted member moves up by one place.            *)
LEMMA MovesUp ==
  ASSUME NEW s \in Seq(Items), IsInjective(s), NEW i \in ToSet(s),
         NEW p \in 1 .. Len(s), \A k \in p .. Len(s) : s[k] # i
  PROVE  /\ Len(s) \in Nat
         /\ RemoveFirst(s, i) \in Seq(Items) /\ Len(RemoveFirst(s, i)) = Len(s) - 1
         /\ p - 1 \in 1 .. Len(s) - 1
         /\ \A k \in p - 1 .. Len(s) - 1 : RemoveFirst(s, i)[k] = s[k + 1]
<1> DEFINE n == Len(s)
           t == RemoveFirst(s, i)
<1>1. PICK q \in 1 .. n :
        /\ s[q] = i /\ t \in Seq(Items) /\ Len(t) = n - 1
        /\ \A k \in 1 .. n - 1 : t[k] = IF k < q THEN s[k] ELSE s[k + 1]
  <2>1. \E q \in 1 .. Len(s) :
           /\ s[q] = i
           /\ RemoveFirst(s, i) \in Seq(Items)
           /\ Len(RemoveFirst(s, i)) = Len(s) - 1
           /\ \A k \in 1 .. Len(s) - 1 : RemoveFirst(s, i)[k] = IF k < q THEN s[k] ELSE s[k + 1]
    BY RemovedAt
  <2> QED BY <2>1
<1>2. n \in Nat
  BY LenProperties
<1> HIDE DEF n, t
<1>3. q < p
  <2>1. ~ (q \in p .. n)
    BY <1>1 DEF n
  <2> QED BY <1>2, <2>1
<1>4. p \in 1 .. n
  BY DEF n
<1>5. \A k \in p - 1 .. n - 1 : k \in 1 .. n - 1 /\ ~ (k < q)
  BY <1>2, <1>3, <1>4
<1> QED BY <1>1, <1>2, <1>3, <1>4, <1>5 DEF n, t

(* CLIST_DEL of the first member.                                          *)
LEMMA DeleteFirstKeeps ==
  ASSUME NEW s \in Seq(Items), Inv(s), DeleteFirst
  PROVE  \E t \in Seq(Items) : t = RemoveFirst(s, s[1]) /\ s # <<>> /\ Inv(t)'
<1>1. /\ TypeOK /\ item = NULL /\ token = NULL /\ Laid(next, prev, list, members, s)
      /\ list # NULL /\ Unlink(list) /\ UNCHANGED <<item, token>>
  BY DEF Inv, DeleteFirst
<1>2. /\ list = IF s = <<>> THEN NULL ELSE s[1]
      /\ IsInjective(s) /\ ToSet(s) = members
  BY <1>1 DEF Laid
<1>3. s # <<>> /\ list = s[1] /\ list \in members
  <2>1. s # <<>> /\ list = s[1]
    BY <1>1, <1>2
  <2>2. 1 \in 1 .. Len(s)
    BY <2>1, EmptySeq, LenProperties
  <2> QED BY <1>1, <2>1, <2>2, Places
<1> DEFINE t == RemoveFirst(s, list)
<1>4. /\ Laid(next', prev', list', members', t)
      /\ list' \in Items \cup {NULL} /\ members' \subseteq Items
      /\ next' \in [Items -> Pointers] /\ prev' \in [Items -> Pointers]
  BY <1>1, <1>3, UnlinkLaid
<1>5. t \in Seq(Items)
  BY <1>2, <1>3, Removed
<1>6. PICK u \in Seq(Items) : u = t
  BY <1>5
<1> HIDE DEF t
<1>7. Inv(u)'
  BY <1>1, <1>4, <1>6 DEF Inv, Ahead, TypeOK
<1> QED BY <1>3, <1>6, <1>7 DEF t

(* CLIST_DEL of the member a loop is at: the token is its successor and    *)
(* stays.                                                                  *)
LEMMA DeleteCurrentKeeps ==
  ASSUME NEW s \in Seq(Items), Inv(s), DeleteCurrent
  PROVE  \E t \in Seq(Items) : t = RemoveFirst(s, item) /\ Inv(t)'
<1>1. /\ TypeOK /\ Laid(next, prev, list, members, s) /\ Ahead(item, token, s)
      /\ item \in members /\ Unlink(item) /\ UNCHANGED <<item, token>>
      /\ item # NULL
  BY NullAssumption DEF Inv, DeleteCurrent, TypeOK
<1>2. IsInjective(s) /\ ToSet(s) = members
  BY <1>1 DEF Laid
<1> DEFINE t == RemoveFirst(s, item)
<1>3. /\ Laid(next', prev', list', members', t)
      /\ list' \in Items \cup {NULL} /\ members' \subseteq Items
      /\ next' \in [Items -> Pointers] /\ prev' \in [Items -> Pointers]
  BY <1>1, UnlinkLaid
<1>4. t \in Seq(Items) /\ Len(t) = Len(s) - 1
  BY <1>1, <1>2, Removed
<1>5. Ahead(item, token, t)
  <2> SUFFICES ASSUME token # NULL
               PROVE  \E p \in 1 .. Len(t) : token = t[p] /\ \A k \in p .. Len(t) : t[k] # item
    BY DEF Ahead
  <2>1. PICK p \in 1 .. Len(s) : token = s[p] /\ \A k \in p .. Len(s) : s[k] # item
    BY <1>1 DEF Ahead
  <2>2. /\ Len(s) \in Nat /\ p - 1 \in 1 .. Len(s) - 1
        /\ \A k \in p - 1 .. Len(s) - 1 : t[k] = s[k + 1]
    BY <1>1, <1>2, <2>1, MovesUp
  <2> HIDE DEF t
  <2>3. t[p - 1] = token
    <3>1. p - 1 \in p - 1 .. Len(s) - 1 /\ (p - 1) + 1 = p
      BY <2>2
    <3> QED BY <2>1, <2>2, <3>1
  <2>4. ASSUME NEW k \in p - 1 .. Len(s) - 1
        PROVE  t[k] # item
    <3>1. k + 1 \in p .. Len(s)
      BY <2>2
    <3> QED BY <2>1, <2>2, <3>1
  <2> QED BY <1>4, <2>2, <2>3, <2>4
<1>6. PICK u \in Seq(Items) : u = t
  BY <1>4
<1> HIDE DEF t
<1>7. Inv(u)'
  BY <1>1, <1>3, <1>5, <1>6 DEF Inv, TypeOK
<1> QED BY <1>6, <1>7 DEF t

(* A loop or a rotation leaves the pointers of the members alone.          *)
LEMMA TurnLaid ==
  ASSUME NEW s \in Seq(Items), s # <<>>, Laid(next, prev, list, members, s),
         UNCHANGED <<next, prev, members>>, list' = next[list]
  PROVE  Laid(next', prev', list', members', Append(Tail(s), Head(s)))
<1> DEFINE n == Len(s)
           t == Append(Tail(s), Head(s))
<1>1. /\ IsInjective(s) /\ ToSet(s) = members /\ list = s[1]
  BY DEF Laid
<1>2. /\ n \in Nat
      /\ s = <<>> <=> n = 0
      /\ \A j, k \in 1 .. n : s[j] = s[k] => j = k
      /\ \A k \in 1 .. n : Behind(k, n) \in 1 .. n
      /\ \A k \in 1 .. n : next[s[k]] = s[Behind(k, n)]
      /\ \A k \in 1 .. n : prev[s[Behind(k, n)]] = s[k]
  BY Places
<1>3. /\ t \in Seq(Items) /\ Len(t) = n /\ ToSet(t) = ToSet(s)
      /\ \A k \in 1 .. n : t[k] = IF k = n THEN s[1] ELSE s[k + 1]
  BY Turned
<1> HIDE DEF n, t
<1>4. \A k \in 1 .. n : t[k] = s[Behind(k, n)]
  BY <1>3 DEF Behind
<1>5. IsInjective(t)
  <2>1. ASSUME NEW j \in 1 .. n, NEW k \in 1 .. n, t[j] = t[k]
        PROVE  j = k
    <3>1. Behind(j, n) = Behind(k, n)
      <4>1. Behind(j, n) \in 1 .. n /\ Behind(k, n) \in 1 .. n
        BY <1>2
      <4>2. s[Behind(j, n)] = s[Behind(k, n)]
        BY <1>4, <2>1
      <4> QED BY <1>2, <4>1, <4>2
    <3> QED BY <1>2, <3>1 DEF Behind
  <2> QED BY <1>3, <2>1, Elements
<1>6. Ordered(next', prev', t)
  <2>1. ASSUME NEW k \in 1 .. n
        PROVE  next[t[k]] = t[Behind(k, n)] /\ prev[t[Behind(k, n)]] = t[k]
    <3> DEFINE j == Behind(k, n)
    <3>1. j \in 1 .. n
      BY <1>2
    <3> HIDE DEF j
    <3>2. next[s[j]] = s[Behind(j, n)] /\ prev[s[Behind(j, n)]] = s[j]
      BY <1>2, <3>1
    <3>3. t[j] = s[Behind(j, n)]
      BY <1>4, <3>1
    <3>4. t[k] = s[j]
      BY <1>4 DEF j
    <3> QED BY <3>2, <3>3, <3>4 DEF j
  <2> QED BY <1>3, <2>1 DEF Ordered
<1>7. list' = t[1] /\ t # <<>>
  <2>1. 1 \in 1 .. n
    BY <1>2
  <2>2. t[1] = s[Behind(1, n)] /\ next[s[1]] = s[Behind(1, n)]
    BY <1>2, <1>4, <2>1
  <2>3. t # <<>>
    BY <1>2, <1>3, <2>1, EmptySeq
  <2> QED BY <1>1, <2>2, <2>3
<1> QED BY <1>1, <1>3, <1>5, <1>6, <1>7 DEF Laid, t

(* The round-robin step turns the sequence by one.                         *)
LEMMA RotateKeeps ==
  ASSUME NEW s \in Seq(Items), Inv(s), Rotate
  PROVE  \E t \in Seq(Items) : t = Append(Tail(s), Head(s)) /\ s # <<>> /\ Inv(t)'
<1>1. /\ TypeOK /\ item = NULL /\ token = NULL /\ Laid(next, prev, list, members, s)
      /\ list # NULL /\ list' = next[list] /\ UNCHANGED <<next, prev, item, token, members>>
  BY DEF Inv, Rotate
<1>2. s # <<>>
  BY <1>1 DEF Laid
<1> DEFINE t == Append(Tail(s), Head(s))
<1>3. Laid(next', prev', list', members', t)
  BY <1>1, <1>2, TurnLaid
<1>4. t \in Seq(Items)
  BY <1>2, Turned
<1>5. PICK u \in Seq(Items) : u = t
  BY <1>4
<1> HIDE DEF t
<1>6. list' \in Items
  <2>1. u # <<>> /\ list' = u[1]
    <3>1. Len(u) = Len(s) /\ Len(s) # 0
      BY <1>2, <1>5, Turned, EmptySeq DEF t
    <3>2. u # <<>>
      BY <3>1
    <3> QED BY <1>3, <1>5, <3>2 DEF Laid
  <2>2. 1 \in 1 .. Len(u)
    BY <2>1, EmptySeq, LenProperties
  <2> QED BY <2>1, <2>2, ElementOfSeq
<1>7. Inv(u)'
  BY <1>1, <1>3, <1>5, <1>6 DEF Inv, Ahead, TypeOK
<1> QED BY <1>2, <1>5, <1>7 DEF t

(* CLIST_FOREACH reads the first member and the one after it.              *)
LEMMA BeginKeeps ==
  ASSUME NEW s \in Seq(Items), Inv(s), Begin
  PROVE  /\ Inv(s)' /\ s # <<>> /\ list = s[1] /\ Len(s) \in Nat \ {0}
         /\ token' = IF Len(s) = 1 THEN NULL ELSE s[2]
<1> DEFINE n == Len(s)
<1>1. /\ TypeOK /\ item = NULL /\ Laid(next, prev, list, members, s)
      /\ list # NULL /\ item' = list /\ token' = Upto(next[list])
      /\ UNCHANGED <<list, next, prev, members>>
  BY DEF Inv, Begin
<1>2. s # <<>> /\ list = s[1]
  BY <1>1 DEF Laid
<1>3. /\ n \in Nat /\ n # 0
      /\ \A k \in 1 .. n : s[k] \in Items /\ s[k] # NULL
      /\ \A j, k \in 1 .. n : s[j] = s[k] => j = k
      /\ \A k \in 1 .. n : next[s[k]] = s[Behind(k, n)]
  BY <1>1, <1>2, Places
<1> HIDE DEF n
<1>4. 1 \in 1 .. n /\ next[list] = s[Behind(1, n)]
  BY <1>2, <1>3
<1>5. token' = IF n = 1 THEN NULL ELSE s[2]
  <2>1. CASE n = 1
    BY <1>1, <1>2, <1>4, <2>1 DEF Upto, Behind
  <2>2. CASE n # 1
    <3>1. Behind(1, n) = 2 /\ 2 \in 1 .. n
      BY <1>3, <2>2 DEF Behind
    <3>2. s[2] # s[1]
      BY <1>3, <1>4, <3>1
    <3> QED BY <1>1, <1>2, <1>4, <2>2, <3>1, <3>2 DEF Upto
  <2> QED BY <2>1, <2>2
<1>6. item' \in Items /\ token' \in Items \cup {NULL}
  <2>1. n # 1 => 2 \in 1 .. n
    BY <1>3
  <2> QED BY <1>1, <1>2, <1>3, <1>4, <1>5, <2>1
<1>7. Ahead(item', token', s)
  <2> SUFFICES ASSUME token' # NULL
               PROVE  \E p \in 1 .. n : token' = s[p] /\ \A k \in p .. n : s[k] # item'
    BY DEF Ahead, n
  <2>1. token' = s[2] /\ 2 \in 1 .. n
    BY <1>3, <1>5
  <2>2. \A k \in 2 .. n : k \in 1 .. n /\ k # 1
    BY <1>3
  <2> QED BY <1>1, <1>2, <1>3, <1>4, <2>1, <2>2
<1>8. item' # NULL
  BY <1>6, NullAssumption
<1>9. Inv(s)'
  BY <1>1, <1>6, <1>7, <1>8 DEF Inv, TypeOK
<1> QED BY <1>2, <1>3, <1>5, <1>9 DEF n

(* The loop goes on to the next place, or ends where the list begins.      *)
LEMMA AdvanceKeeps ==
  ASSUME NEW s \in Seq(Items), Inv(s), Advance
  PROVE  /\ Inv(s)'
         /\ token = NULL => item' = NULL /\ token' = NULL
         /\ \A p \in 1 .. Len(s) :
              token = s[p] => item' = s[p] /\ token' = IF p = Len(s) THEN NULL ELSE s[p + 1]
<1> DEFINE n == Len(s)
<1>1. /\ TypeOK /\ item # NULL /\ Laid(next, prev, list, members, s) /\ Ahead(item, token, s)
      /\ item' = token
      /\ token' = IF token = NULL THEN NULL ELSE Upto(next[token])
      /\ UNCHANGED <<list, next, prev, members>>
  BY DEF Inv, Advance
<1>2. /\ n \in Nat
      /\ s = <<>> <=> n = 0
      /\ \A k \in 1 .. n : s[k] \in Items /\ s[k] # NULL
      /\ \A j, k \in 1 .. n : s[j] = s[k] => j = k
      /\ \A k \in 1 .. n : next[s[k]] = s[Behind(k, n)]
  BY <1>1, Places
<1>3. list = IF s = <<>> THEN NULL ELSE s[1]
  BY <1>1 DEF Laid
<1> HIDE DEF n
<1>4. ASSUME NEW p \in 1 .. n, token = s[p]
      PROVE  token' = IF p = n THEN NULL ELSE s[p + 1]
  <2>1. /\ token # NULL /\ next[token] = s[Behind(p, n)]
        /\ list = s[1] /\ 1 \in 1 .. n
    BY <1>2, <1>3, <1>4
  <2>2. CASE p = n
    BY <1>1, <2>1, <2>2 DEF Upto, Behind
  <2>3. CASE p # n
    <3>1. Behind(p, n) = p + 1 /\ p + 1 \in 1 .. n /\ p + 1 # 1
      BY <1>2, <2>3 DEF Behind
    <3>2. s[p + 1] # list
      BY <1>2, <2>1, <3>1
    <3> QED BY <1>1, <2>1, <2>3, <3>1, <3>2 DEF Upto
  <2> QED BY <2>2, <2>3
<1>5. CASE token = NULL
  <2>1. item' = NULL /\ token' = NULL
    BY <1>1, <1>5
  <2>2. Inv(s)'
    BY <1>1, <2>1 DEF Inv, Ahead, TypeOK
  <2>3. \A p \in 1 .. n : token # s[p]
    BY <1>2, <1>5
  <2> QED BY <2>1, <2>2, <2>3 DEF n
<1>6. CASE token # NULL
  <2>1. PICK p \in 1 .. n : token = s[p] /\ \A k \in p .. n : s[k] # item
    BY <1>1, <1>6 DEF Ahead, n
  <2>2. token' = IF p = n THEN NULL ELSE s[p + 1]
    BY <1>4, <2>1
  <2>3. p # n => p + 1 \in 1 .. n
    BY <1>2
  <2>4. item' \in Items /\ token' \in Items \cup {NULL} /\ item' # NULL
    BY <1>1, <1>2, <2>1, <2>2, <2>3
  <2>5. Ahead(item', token', s)
    <3> SUFFICES ASSUME token' # NULL
                 PROVE  \E j \in 1 .. n : token' = s[j] /\ \A k \in j .. n : s[k] # item'
      BY DEF Ahead, n
    <3>1. p + 1 \in 1 .. n /\ token' = s[p + 1]
      BY <2>2, <2>3
    <3>2. \A k \in p + 1 .. n : k \in 1 .. n /\ k # p
      BY <1>2
    <3>3. \A k \in p + 1 .. n : s[k] # item'
      BY <1>1, <1>2, <2>1, <3>2
    <3> QED BY <3>1, <3>3
  <2>6. Inv(s)'
    BY <1>1, <2>4, <2>5 DEF Inv, TypeOK
  <2> QED BY <1>1, <1>4, <1>6, <2>6 DEF n
<1> QED BY <1>5, <1>6

(* The empty list.                                                         *)
LEMMA InitKeeps ==
  ASSUME Init
  PROVE  Inv(<<>>)
<1>1. TypeOK
  BY DEF Init, TypeOK, Pointers
<1>2. <<>> \in Seq(Items) /\ IsInjective(<<>>) /\ ToSet(<<>>) = {} /\ Len(<<>>) = 0
  BY DEF IsInjective, ToSet
<1>3. Laid(next, prev, list, members, <<>>)
  BY <1>2 DEF Init, Laid, Ordered
<1> QED BY <1>1, <1>3 DEF Init, Inv, Ahead

(* Every step keeps the invariant.                                         *)
LEMMA NextKeeps ==
  ASSUME IInv, [Next]_vars
  PROVE  IInv'
<1>1. PICK s \in Seq(Items) : Inv(s)
  BY DEF IInv
<1>2. ASSUME NEW i \in Items, AddLast(i) PROVE IInv'
  <2>1. i \notin ToSet(s) /\ IsInjective(s)
    BY <1>1, <1>2 DEF Inv, Laid, AddLast, Joins
  <2>2. Append(s, i) \in Seq(Items)
    BY <2>1, Appended
  <2> QED BY <1>1, <1>2, <2>2, AddLastKeeps DEF IInv
<1>3. ASSUME NEW i \in Items, AddFirst(i) PROVE IInv'
  <2>1. i \notin ToSet(s) /\ IsInjective(s)
    BY <1>1, <1>3 DEF Inv, Laid, AddFirst, Joins
  <2>2. <<i>> \o s \in Seq(Items)
    BY <2>1, Prepended
  <2> QED BY <1>1, <1>3, <2>2, AddFirstKeeps DEF IInv
<1>4. CASE DeleteFirst
  BY <1>1, <1>4, DeleteFirstKeeps DEF IInv
<1>5. CASE DeleteCurrent
  BY <1>1, <1>5, DeleteCurrentKeeps DEF IInv
<1>6. CASE Rotate
  BY <1>1, <1>6, RotateKeeps DEF IInv
<1>7. CASE Begin
  BY <1>1, <1>7, BeginKeeps DEF IInv
<1>8. CASE Advance
  BY <1>1, <1>8, AdvanceKeeps DEF IInv
<1>9. CASE UNCHANGED vars
  <2>1. Inv(s)'
    BY <1>1, <1>9 DEF vars, Inv, TypeOK
  <2> QED BY <2>1 DEF IInv
<1> QED BY <1>2, <1>3, <1>4, <1>5, <1>6, <1>7, <1>8, <1>9 DEF Next

(* In every state some sequence of the members is laid out in the          *)
(* pointers, and a loop is at one of its places or at a deleted member.    *)
THEOREM Invariance == Spec => []IInv
<1>1. Init => IInv
  BY InitKeeps, EmptySeq DEF IInv
<1>2. IInv /\ [Next]_vars => IInv'
  BY NextKeeps
<1> QED BY <1>1, <1>2, PTL DEF Spec

(* Whatever is added, deleted and rotated in whatever order, and whether   *)
(* or not a loop is under way, the pointers of clist.h form one ring of    *)
(* the members.                                                            *)
THEOREM RingLinked == Spec => []Linked
<1>1. IInv => Linked
  BY InvLinked
<1> QED BY <1>1, Invariance, PTL

(* CLIST_FOREACH reads the member it visits next before the body runs; the *)
(* body may delete its member, and the one read beforehand still is one.   *)
THEOREM TokenSafe == Spec => []TokenAlive
<1>1. IInv => TokenAlive
  BY InvLinked
<1> QED BY <1>1, Invariance, PTL

-----------------------------------------------------------------------------
(* Below the divisor a number is its own remainder.                        *)
LEMMA Small ==
  ASSUME NEW S \in Nat \ {0}, NEW a \in 0 .. S - 1
  PROVE  a % S = a
<1>1. a = S * (a \div S) + (a % S) /\ a % S \in 0 .. S - 1 /\ a \div S \in Nat
  <2>1. a \in Nat
    OBVIOUS
  <2> QED BY <2>1, Divided
<1>2. a = S * 0 + a /\ 0 \in Nat
  OBVIOUS
<1> DEFINE q == a \div S
           r == a % S
<1> HIDE DEF q, r
<1>3. S * q + r = S * 0 + a /\ q \in Nat /\ r \in 0 .. S - 1
  BY <1>1, <1>2 DEF q, r
<1>4. r = a
  BY <1>2, <1>3, OneRemainder
<1> QED BY <1>4 DEF r

(* The places from p on.                                                   *)
Rest(s, p) == [k \in 1 .. (Len(s) - p) + 1 |-> s[(p + k) - 1]]

(* Following the pointers from place p, one comes to where the list begins *)
(* behind the last place.                                                  *)
LEMMA AlongIs ==
  ASSUME NEW nx, NEW pv, NEW first, NEW ms, NEW s, Laid(nx, pv, first, ms, s),
         NEW p \in 1 .. Len(s)
  PROVE  Along(nx, first, s[p]) = Rest(s, p)
<1> DEFINE n == Len(s)
           N == Cardinality(Items)
           Def(f, k) == IF k = 0 THEN s[p]
                        ELSE IF f[k - 1] \in Items THEN nx[f[k - 1]] ELSE Wild
           at[k \in 0 .. N] == IF k = 0 THEN s[p]
                               ELSE IF at[k - 1] \in Items THEN nx[at[k - 1]] ELSE Wild
           ends == {k \in 1 .. N : at[k] = first}
           len == IF ends = {} THEN N ELSE Min(ends)
<1>0. Along(nx, first, s[p]) = IF s[p] = NULL THEN <<>> ELSE [k \in 1 .. len |-> at[k - 1]]
  BY DEF Along
<1>1. /\ n \in Nat /\ p \in 1 .. n
      /\ s = <<>> <=> n = 0
      /\ \A k \in 1 .. n : s[k] \in Items /\ s[k] # NULL
      /\ \A j, k \in 1 .. n : s[j] = s[k] => j = k
      /\ \A k \in 1 .. n : nx[s[k]] = s[Behind(k, n)]
  BY Places
<1>2. N \in Nat /\ n <= N
  <2>1. s \in Injection(1 .. n, Items)
    BY <1>1 DEF Laid, Injection, IsInjective
  <2>2. Cardinality(1 .. n) <= N
    BY <2>1, FS_Injection, ItemsAssumption
  <2>3. Cardinality(1 .. n) = n
    BY <1>1, FS_Interval
  <2> QED BY <2>2, <2>3, FS_CardinalityType, ItemsAssumption
<1>3. first = s[1] /\ n # 0 /\ 1 \in 1 .. n
  BY <1>1 DEF Laid
<1>4. at = [k \in 0 .. N |-> Def(at, k)]
  <2> DEFINE g == [k \in 0 .. N |-> s[(((p - 1) + k) % n) + 1]]
  <2>1. \E f : f = [k \in 0 .. N |-> Def(f, k)]
    <3>1. g = [k \in 0 .. N |-> Def(g, k)]
      <4> SUFFICES ASSUME NEW k \in 0 .. N
                   PROVE  g[k] = Def(g, k)
        OBVIOUS
      <4> HIDE DEF n, N
      <4>1. CASE k = 0
        <5>1. ((p - 1) + k) % n = p - 1
          <6>1. p - 1 \in 0 .. n - 1 /\ p - 1 \in Nat /\ (p - 1) + k = p - 1 /\ n \in Nat \ {0}
            BY <1>1, <1>3, <4>1
          <6> QED BY <6>1, Small
        <5> QED BY <1>1, <4>1, <5>1
      <4>2. CASE k # 0
        <5> DEFINE a == (p - 1) + (k - 1)
                   r == a % n
        <5>1. a \in Nat /\ n \in Nat \ {0} /\ k - 1 \in 0 .. N /\ (p - 1) + k = a + 1
          BY <1>1, <1>2, <1>3, <4>2
        <5> HIDE DEF a
        <5>2. r \in 0 .. n - 1 /\ (a + 1) % n = IF r + 1 = n THEN 0 ELSE r + 1
          BY <5>1, NextRemainder
        <5>3. g[k - 1] = s[r + 1] /\ g[k] = s[((a + 1) % n) + 1]
          BY <5>1 DEF a
        <5> HIDE DEF r, g
        <5>4. r + 1 \in 1 .. n /\ Behind(r + 1, n) = ((a + 1) % n) + 1
          BY <5>1, <5>2 DEF Behind
        <5> QED BY <1>1, <4>2, <5>3, <5>4
      <4> QED BY <4>1, <4>2
    <3> QED BY <3>1
  <2>2. at = CHOOSE f : f = [k \in 0 .. N |-> Def(f, k)]
    OBVIOUS
  <2> HIDE DEF at
  <2> QED BY <2>1, <2>2
<1> HIDE DEF at, N, n
<1>5. /\ at[0] = s[p]
      /\ \A k \in 1 .. N : at[k] = IF at[k - 1] \in Items THEN nx[at[k - 1]] ELSE Wild
  <2>1. 0 \in 0 .. N /\ \A k \in 1 .. N : k \in 0 .. N /\ k # 0
    BY <1>2
  <2> QED BY <1>4, <2>1
<1>6. ASSUME NEW k \in 0 .. n - p
      PROVE  at[k] = s[p + k]
  <2> DEFINE T == {j \in 0 .. n - p : at[j] # s[p + j]}
  <2> SUFFICES T = {}
    OBVIOUS
  <2> SUFFICES ASSUME T # {}
               PROVE  FALSE
    OBVIOUS
  <2>1. PICK j \in T : \A i \in T : j <= i
    <3>1. T \subseteq Nat
      BY <1>1
    <3> HIDE DEF T
    <3> QED BY <3>1, Least
  <2>2. j \in 0 .. n - p /\ at[j] # s[p + j]
    OBVIOUS
  <2>3. j # 0
    BY <1>1, <1>5, <2>2
  <2>4. j - 1 \in 0 .. n - p /\ j \in 1 .. N /\ ~ (j <= j - 1)
    BY <1>1, <1>2, <2>2, <2>3
  <2>5. at[j - 1] = s[p + (j - 1)]
    BY <2>1, <2>4
  <2>6. p + (j - 1) \in 1 .. n /\ Behind(p + (j - 1), n) = p + j
    BY <1>1, <2>2, <2>3 DEF Behind
  <2> HIDE DEF T
  <2>7. at[j] = s[p + j]
    BY <1>1, <1>5, <2>4, <2>5, <2>6
  <2> QED BY <2>2, <2>7
<1> DEFINE m == (n - p) + 1
<1>7. m \in 1 .. N /\ at[m] = first
  <2>1. m \in 1 .. N /\ m - 1 = n - p /\ n - p \in 0 .. n - p /\ p + (n - p) = n /\ n \in 1 .. n
    BY <1>1, <1>2
  <2>2. at[m - 1] = s[n]
    BY <1>6, <2>1
  <2>3. at[m] = s[Behind(n, n)]
    BY <1>1, <1>5, <2>1, <2>2
  <2> QED BY <1>3, <2>1, <2>3 DEF Behind
<1>8. ASSUME NEW k \in 1 .. N, at[k] = first
      PROVE  m <= k
  <2> SUFFICES ASSUME ~ (m <= k)
               PROVE  FALSE
    OBVIOUS
  <2>1. k \in 0 .. n - p /\ p + k \in 1 .. n /\ p + k # 1
    BY <1>1, <1>2
  <2>2. at[k] = s[p + k]
    BY <1>6, <2>1
  <2> QED BY <1>1, <1>3, <1>8, <2>1, <2>2
<1> HIDE DEF m
<1>9. len = m
  <2>1. ends # {} /\ m \in ends /\ ends \subseteq 1 .. N /\ \A k \in ends : m <= k
    BY <1>7, <1>8
  <2> HIDE DEF ends
  <2>2. Min(ends) = m
    <3>1. \A x \in ends : (\A y \in ends : x <= y) => x = m
      BY <1>2, <2>1
    <3> QED BY <2>1, <3>1 DEF Min
  <2> QED BY <2>1, <2>2
<1>10. Along(nx, first, s[p]) = [k \in 1 .. m |-> at[k - 1]]
  <2> HIDE DEF len
  <2> QED BY <1>0, <1>1, <1>9
<1>11. \A k \in 1 .. m : at[k - 1] = s[(p + k) - 1]
  <2> SUFFICES ASSUME NEW k \in 1 .. m
               PROVE  at[k - 1] = s[(p + k) - 1]
    OBVIOUS
  <2>1. k - 1 \in 0 .. n - p /\ p + (k - 1) = (p + k) - 1
    BY <1>1 DEF m
  <2> QED BY <1>6, <2>1
<1> QED BY <1>10, <1>11 DEF Rest, m, n

(* Following the pointers from the first member gives the sequence.        *)
LEMMA AlongAll ==
  ASSUME NEW nx, NEW pv, NEW first, NEW ms, NEW s, Laid(nx, pv, first, ms, s)
  PROVE  Along(nx, first, first) = s
<1>1. s \in Seq(Items) /\ first = IF s = <<>> THEN NULL ELSE s[1]
  BY DEF Laid
<1>2. CASE s = <<>>
  BY <1>1, <1>2 DEF Along
<1>3. CASE s # <<>>
  <2>1. Len(s) \in Nat /\ 1 \in 1 .. Len(s) /\ (Len(s) - 1) + 1 = Len(s)
    BY <1>3, Places
  <2>2. Along(nx, first, s[1]) = Rest(s, 1)
    BY <2>1, AlongIs
  <2>3. \A k \in 1 .. Len(s) : (1 + k) - 1 = k
    BY <2>1
  <2>4. Rest(s, 1) = [k \in 1 .. Len(s) |-> s[k]]
    BY <2>1, <2>3 DEF Rest
  <2>5. s = [k \in 1 .. Len(s) |-> s[k]]
    BY <1>1
  <2> QED BY <1>1, <1>3, <2>2, <2>4, <2>5
<1> QED BY <1>2, <1>3

(* From NULL they lead nowhere.                                            *)
LEMMA AlongNone ==
  ASSUME NEW nx, NEW first
  PROVE  Along(nx, first, NULL) = <<>>
BY DEF Along

(* What Ring sees of a state.                                              *)
LEMMA Seen ==
  ASSUME NEW s, Inv(s)
  PROVE  /\ From(list) = s
         /\ token = NULL => From(token) = <<>>
         /\ \A p \in 1 .. Len(s) : token = s[p] => From(token) = Rest(s, p)
<1>1. Laid(next, prev, list, members, s)
  BY DEF Inv
<1> QED BY <1>1, AlongAll, AlongNone, AlongIs DEF From

(* The same in the next state.                                             *)
LEMMA SeenNext ==
  ASSUME NEW s, Inv(s)'
  PROVE  /\ From(list)' = s
         /\ token' = NULL => From(token)' = <<>>
         /\ \A p \in 1 .. Len(s) : token' = s[p] => From(token)' = Rest(s, p)
<1>1. Laid(next', prev', list', members', s)
  BY DEF Inv
<1> QED BY <1>1, AlongAll, AlongNone, AlongIs DEF From

(* One step along the pointers drops the first of the rest.                *)
LEMMA RestTail ==
  ASSUME NEW s \in Seq(Items), NEW p \in 1 .. Len(s)
  PROVE  /\ Rest(s, p) \in Seq(Items) /\ Rest(s, p) # <<>>
         /\ Head(Rest(s, p)) = s[p]
         /\ p = Len(s) => Tail(Rest(s, p)) = <<>>
         /\ p # Len(s) => Tail(Rest(s, p)) = Rest(s, p + 1)
<1> DEFINE n == Len(s)
           m == (n - p) + 1
           r == Rest(s, p)
<1>1. n \in Nat /\ p \in 1 .. n /\ \A k \in 1 .. n : s[k] \in Items
  BY LenProperties, ElementOfSeq
<1> HIDE DEF n
<1>2. m \in Nat \ {0} /\ 1 \in 1 .. m /\ \A k \in 1 .. m : (p + k) - 1 \in 1 .. n
  BY <1>1
<1>3. r = [k \in 1 .. m |-> s[(p + k) - 1]]
  BY DEF Rest, n
<1> HIDE DEF r, m
<1>4. r \in Seq(Items) /\ Len(r) = m /\ r # <<>> /\ Head(r) = s[p]
  <2>1. r \in [1 .. m -> Items]
    BY <1>1, <1>2, <1>3
  <2>2. r \in Seq(Items) /\ Len(r) = m
    BY <1>2, <2>1
  <2>3. r[1] = s[p]
    <3>1. (p + 1) - 1 = p
      BY <1>1
    <3> QED BY <1>2, <1>3, <3>1
  <2> QED BY <1>2, <2>2, <2>3, EmptySeq
<1>5. Tail(r) \in Seq(Items) /\ Len(Tail(r)) = m - 1 /\ \A k \in 1 .. m - 1 : Tail(r)[k] = r[k + 1]
  BY <1>4
<1>6. p = n => Tail(r) = <<>>
  <2> SUFFICES ASSUME p = n PROVE Tail(r) = <<>>
    OBVIOUS
  <2>1. Len(Tail(r)) = 0
    BY <1>1, <1>5 DEF m
  <2> QED BY <1>5, <2>1, EmptySeq
<1>7. p # n => Tail(r) = Rest(s, p + 1)
  <2> SUFFICES ASSUME p # n PROVE Tail(r) = Rest(s, p + 1)
    OBVIOUS
  <2>1. (n - (p + 1)) + 1 = m - 1
    BY <1>1 DEF m
  <2>2. \A k \in 1 .. m - 1 : r[k + 1] = s[((p + 1) + k) - 1]
    <3> SUFFICES ASSUME NEW k \in 1 .. m - 1
                 PROVE  r[k + 1] = s[((p + 1) + k) - 1]
      OBVIOUS
    <3>1. k + 1 \in 1 .. m /\ (p + (k + 1)) - 1 = ((p + 1) + k) - 1
      BY <1>1, <1>2
    <3> QED BY <1>3, <3>1
  <2>3. Rest(s, p + 1) = [k \in 1 .. m - 1 |-> s[((p + 1) + k) - 1]]
    BY <2>1 DEF Rest, n
  <2>4. PICK q \in Seq(Items) : q = Tail(r)
    BY <1>5
  <2>5. q = [k \in 1 .. Len(q) |-> q[k]]
    OBVIOUS
  <2>6. Tail(r) = [k \in 1 .. m - 1 |-> Tail(r)[k]]
    BY <1>5, <2>4, <2>5
  <2> QED BY <1>5, <2>2, <2>3, <2>6
<1> QED BY <1>4, <1>6, <1>7 DEF r, n

-----------------------------------------------------------------------------
(* Ring has these operators under names of its own.                        *)
LEMMA SameOperators ==
  ASSUME NEW s, NEW e
  PROVE  /\ Abstract!ToSet(s) = ToSet(s)
         /\ Abstract!RemoveFirst(s, e) = RemoveFirst(s, e)
<1>1. Abstract!ToSet(s) = ToSet(s)
  BY DEF Abstract!ToSet, ToSet
<1>2. Abstract!RemoveFirst(s, e) = RemoveFirst(s, e)
  BY DEF Abstract!RemoveFirst, Abstract!RemoveAt, Abstract!SelectInSeq, Abstract!Min,
         RemoveFirst, RemoveAt, SelectInSeq, Min
<1> QED BY <1>1, <1>2

(* Step by step, the macros do what Ring does.                             *)
LEMMA JoinsMapped ==
  ASSUME IInv, NEW i \in Items, AddLast(i) \/ AddFirst(i)
  PROVE  Abstract!Next
<1>1. PICK s \in Seq(Items) : Inv(s)
  BY DEF IInv
<1>2. /\ item = NULL /\ token = NULL /\ UNCHANGED <<item, token>>
      /\ i \notin ToSet(s) /\ IsInjective(s)
  BY <1>1 DEF Inv, Laid, AddLast, AddFirst, Joins
<1>3. From(list) = s /\ From(token) = <<>>
  BY <1>1, <1>2, Seen
<1>4. CASE AddLast(i)
  <2>1. Inv(Append(s, i))'
    BY <1>1, <1>4, AddLastKeeps
  <2>2. From(list)' = Append(s, i) /\ From(token)' = <<>>
    BY <1>2, <2>1, SeenNext
  <2>3. Abstract!AddLast(i)
    BY <1>2, <1>3, <2>2, SameOperators DEF Abstract!AddLast
  <2> QED BY <2>3 DEF Abstract!Next
<1>5. CASE AddFirst(i)
  <2>1. Inv(<<i>> \o s)'
    BY <1>1, <1>5, AddFirstKeeps
  <2>2. From(list)' = <<i>> \o s /\ From(token)' = <<>>
    BY <1>2, <2>1, SeenNext
  <2>3. Abstract!AddFirst(i)
    BY <1>2, <1>3, <2>2, SameOperators DEF Abstract!AddFirst
  <2> QED BY <2>3 DEF Abstract!Next
<1> QED BY <1>4, <1>5

(* Deleting the first member is DeleteFirst of Ring.                       *)
LEMMA DeleteFirstMapped ==
  ASSUME IInv, DeleteFirst
  PROVE  Abstract!Next
<1>1. PICK s \in Seq(Items) : Inv(s)
  BY DEF IInv
<1>2. item = NULL /\ token = NULL /\ UNCHANGED <<item, token>> /\ IsInjective(s)
  BY <1>1 DEF Inv, Laid, DeleteFirst
<1>3. PICK t \in Seq(Items) : t = RemoveFirst(s, s[1]) /\ s # <<>> /\ Inv(t)'
  BY <1>1, DeleteFirstKeeps
<1>4. From(list) = s /\ From(token) = <<>> /\ From(list)' = t /\ From(token)' = <<>>
  BY <1>1, <1>2, <1>3, Seen, SeenNext
<1>5. t = Tail(s)
  BY <1>2, <1>3, RemovedFirst
<1>6. Abstract!DeleteFirst
  BY <1>2, <1>3, <1>4, <1>5 DEF Abstract!DeleteFirst
<1> QED BY <1>6 DEF Abstract!Next

(* Deleting the current member is DeleteCurrent of Ring.                   *)
LEMMA DeleteCurrentMapped ==
  ASSUME IInv, DeleteCurrent
  PROVE  Abstract!Next
<1>1. PICK s \in Seq(Items) : Inv(s)
  BY DEF IInv
<1>2. /\ item \in members /\ UNCHANGED <<item, token>> /\ IsInjective(s) /\ ToSet(s) = members
      /\ Ahead(item, token, s)
  BY <1>1 DEF Inv, Laid, DeleteCurrent
<1>3. PICK t \in Seq(Items) : t = RemoveFirst(s, item) /\ Inv(t)'
  BY <1>1, DeleteCurrentKeeps
<1>4. From(list) = s /\ From(list)' = t
  BY <1>1, <1>3, Seen, SeenNext
<1>5. From(token)' = From(token)
  <2>1. CASE token = NULL
    BY <1>1, <1>2, <1>3, <2>1, Seen, SeenNext
  <2>2. CASE token # NULL
    <3>1. PICK p \in 1 .. Len(s) : token = s[p] /\ \A k \in p .. Len(s) : s[k] # item
      BY <1>2, <2>2 DEF Ahead
    <3> DEFINE n == Len(s)
    <3>2. /\ n \in Nat /\ Len(t) = n - 1 /\ p - 1 \in 1 .. n - 1
          /\ \A k \in p - 1 .. n - 1 : t[k] = s[k + 1]
      BY <1>2, <1>3, <3>1, MovesUp
    <3>3. p \in 1 .. n
      BY <3>1
    <3> HIDE DEF n
    <3>4. t[p - 1] = s[p]
      <4>1. p - 1 \in p - 1 .. n - 1 /\ (p - 1) + 1 = p
        BY <3>2, <3>3
      <4> QED BY <3>2, <4>1
    <3>5. From(token) = Rest(s, p) /\ From(token)' = Rest(t, p - 1)
      <4>1. From(token) = Rest(s, p)
        BY <1>1, <3>1, Seen
      <4>2. p - 1 \in 1 .. Len(t) /\ token' = t[p - 1]
        BY <1>2, <3>1, <3>2, <3>4
      <4> QED BY <1>3, <4>1, <4>2, SeenNext
    <3>6. Rest(t, p - 1) = Rest(s, p)
      <4>1. ((n - 1) - (p - 1)) + 1 = (n - p) + 1
        BY <3>2, <3>3
      <4>2. \A k \in 1 .. (n - p) + 1 : t[((p - 1) + k) - 1] = s[(p + k) - 1]
        <5> SUFFICES ASSUME NEW k \in 1 .. (n - p) + 1
                     PROVE  t[((p - 1) + k) - 1] = s[(p + k) - 1]
          OBVIOUS
        <5>1. /\ ((p - 1) + k) - 1 \in p - 1 .. n - 1
              /\ (((p - 1) + k) - 1) + 1 = (p + k) - 1
          BY <3>2, <3>3
        <5> QED BY <3>2, <5>1
      <4> QED BY <3>2, <4>1, <4>2 DEF Rest, n
    <3> QED BY <3>5, <3>6
  <2> QED BY <2>1, <2>2
<1>6. Abstract!DeleteCurrent
  BY <1>2, <1>3, <1>4, <1>5, SameOperators DEF Abstract!DeleteCurrent
<1> QED BY <1>6 DEF Abstract!Next

(* The round-robin step is Rotate of Ring.                                 *)
LEMMA RotateMapped ==
  ASSUME IInv, Rotate
  PROVE  Abstract!Next
<1>1. PICK s \in Seq(Items) : Inv(s)
  BY DEF IInv
<1>2. item = NULL /\ token = NULL /\ UNCHANGED <<item, token>>
  BY <1>1 DEF Inv, Rotate
<1>3. PICK t \in Seq(Items) : t = Append(Tail(s), Head(s)) /\ s # <<>> /\ Inv(t)'
  BY <1>1, RotateKeeps
<1>4. From(list) = s /\ From(token) = <<>> /\ From(list)' = t /\ From(token)' = <<>>
  BY <1>1, <1>2, <1>3, Seen, SeenNext
<1>5. Abstract!Rotate
  BY <1>2, <1>3, <1>4 DEF Abstract!Rotate
<1> QED BY <1>5 DEF Abstract!Next

(* The head of CLIST_FOREACH is Begin of Ring.                             *)
LEMMA BeginMapped ==
  ASSUME IInv, Begin
  PROVE  Abstract!Next
<1>1. PICK s \in Seq(Items) : Inv(s)
  BY DEF IInv
<1>2. /\ Inv(s)' /\ s # <<>> /\ list = s[1] /\ Len(s) \in Nat \ {0}
      /\ token' = IF Len(s) = 1 THEN NULL ELSE s[2]
  BY <1>1, BeginKeeps
<1>3. item = NULL /\ item' = list
  BY DEF Begin
<1>4. From(list) = s /\ From(list)' = s
  BY <1>1, <1>2, Seen, SeenNext
<1>5. item' = Head(s)
  BY <1>2, <1>3
<1>6. From(token)' = Tail(s)
  <2>1. 1 \in 1 .. Len(s)
    BY <1>2
  <2>2. Rest(s, 1) = s
    <3>1. Laid(next, prev, list, members, s)
      BY <1>1 DEF Inv
    <3>2. Along(next, list, s[1]) = Rest(s, 1) /\ Along(next, list, list) = s
      BY <2>1, <3>1, AlongIs, AlongAll
    <3> QED BY <1>2, <3>2
  <2>3. CASE Len(s) = 1
    <3>1. Tail(s) = <<>>
      BY <2>1, <2>2, <2>3, RestTail
    <3> QED BY <1>2, <2>3, <3>1, SeenNext
  <2>4. CASE Len(s) # 1
    <3>1. 1 + 1 \in 1 .. Len(s)
      <4> DEFINE n == Len(s)
      <4>1. n \in Nat \ {0} /\ n # 1
        BY <1>2, <2>4
      <4> HIDE DEF n
      <4>2. 1 + 1 \in 1 .. n
        BY <4>1
      <4> QED BY <4>2 DEF n
    <3>2. Tail(s) = Rest(s, 1 + 1)
      BY <2>1, <2>2, <2>4, RestTail
    <3>3. token' = s[1 + 1]
      <4>1. 1 + 1 = 2
        OBVIOUS
      <4> QED BY <1>2, <2>4, <4>1
    <3> QED BY <1>2, <3>1, <3>2, <3>3, SeenNext
  <2> QED BY <2>3, <2>4
<1>7. Abstract!Begin
  BY <1>2, <1>3, <1>4, <1>5, <1>6 DEF Abstract!Begin
<1> QED BY <1>7 DEF Abstract!Next

(* Its step is Advance of Ring.                                            *)
LEMMA AdvanceMapped ==
  ASSUME IInv, Advance
  PROVE  Abstract!Next
<1>1. PICK s \in Seq(Items) : Inv(s)
  BY DEF IInv
<1>2. /\ Inv(s)'
      /\ token = NULL => item' = NULL /\ token' = NULL
      /\ \A p \in 1 .. Len(s) :
           token = s[p] => item' = s[p] /\ token' = IF p = Len(s) THEN NULL ELSE s[p + 1]
  BY <1>1, AdvanceKeeps
<1>3. item # NULL /\ From(list) = s /\ From(list)' = s
  BY <1>1, <1>2, Seen, SeenNext DEF Advance
<1>4. CASE token = NULL
  <2>1. From(token) = <<>> /\ From(token)' = <<>> /\ item' = NULL
    BY <1>1, <1>2, <1>4, Seen, SeenNext
  <2>2. Abstract!Advance
    BY <1>3, <2>1 DEF Abstract!Advance
  <2> QED BY <2>2 DEF Abstract!Next
<1>5. CASE token # NULL
  <2>1. PICK p \in 1 .. Len(s) : token = s[p]
    BY <1>1, <1>5 DEF Inv, Ahead
  <2>2. item' = s[p] /\ token' = IF p = Len(s) THEN NULL ELSE s[p + 1]
    BY <1>2, <2>1
  <2>3. From(token) = Rest(s, p)
    BY <1>1, <2>1, Seen
  <2>4. Rest(s, p) # <<>> /\ item' = Head(Rest(s, p))
    BY <2>2, RestTail
  <2>5. From(token)' = Tail(Rest(s, p))
    <3>1. CASE p = Len(s)
      BY <1>2, <2>2, <3>1, RestTail, SeenNext
    <3>2. CASE p # Len(s)
      <4>1. p + 1 \in 1 .. Len(s)
        BY <3>2, LenProperties
      <4>2. From(token)' = Rest(s, p + 1)
        BY <1>2, <2>2, <3>2, <4>1, SeenNext
      <4> QED BY <3>2, <4>2, RestTail
    <3> QED BY <3>1, <3>2
  <2>6. Abstract!Advance
    BY <1>3, <2>3, <2>4, <2>5 DEF Abstract!Advance
  <2> QED BY <2>6 DEF Abstract!Next
<1> QED BY <1>4, <1>5

(* The macros of clist.h do what a sequence of members would, for the      *)
(* caller that adds, deletes, rotates and loops.                           *)
THEOREM MacrosImplementRing == Spec => ImplementsRing
<1>1. Init => Abstract!Init
  <2> SUFFICES ASSUME Init PROVE Abstract!Init
    OBVIOUS
  <2>1. Inv(<<>>)
    BY InitKeeps
  <2>2. From(list) = <<>> /\ From(token) = <<>>
    BY <2>1, Seen DEF Init
  <2> QED BY <2>2 DEF Init, Abstract!Init
<1>2. IInv /\ [Next]_vars => [Abstract!Next]_<<From(list), item, From(token)>>
  <2>1. UNCHANGED vars => UNCHANGED <<From(list), item, From(token)>>
    BY DEF vars, From
  <2>2. IInv /\ Next => Abstract!Next
    BY JoinsMapped, DeleteFirstMapped, DeleteCurrentMapped, RotateMapped,
       BeginMapped, AdvanceMapped DEF Next
  <2> QED BY <2>1, <2>2
<1> QED
  BY <1>1, <1>2, Invariance, PTL DEF Spec, Abstract!Spec, ImplementsRing
=============================================================================
