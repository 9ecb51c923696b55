--------------------------- MODULE SequenceLemmas ---------------------------
(***************************************************************************)
(* Facts about sequences the proofs of this project share, beyond those of *)
(* the SequenceTheorems library.                                           *)
(***************************************************************************)
EXTENDS SequenceTheorems, FiniteSetTheorems, WellFoundedInduction, SequencesExt, Integers, TLAPS

(* Appending to the second of two concatenated sequences appends to the    *)
(* whole.                                                                  *)
LEMMA ConcatAppend ==
  ASSUME NEW S, NEW s \in Seq(S), NEW t \in Seq(S), NEW e \in S
  PROVE  s \o Append(t, e) = Append(s \o t, e)
OBVIOUS

(* Behind a one-element sequence, the tail of a concatenation is the       *)
(* second sequence.                                                        *)
LEMMA TailBehindOne ==
  ASSUME NEW S, NEW s \in Seq(S), Len(s) = 1, NEW t \in Seq(S)
  PROVE  Tail(s \o t) = t
<1>1. s \o t \in Seq(S) /\ Len(s \o t) = 1 + Len(t)
  BY ConcatProperties
<1>2. \A i \in 1 .. Len(t) : (s \o t)[i + 1] = t[i]
  <2> SUFFICES ASSUME NEW i \in 1 .. Len(t)
               PROVE  (s \o t)[i + 1] = t[i]
    OBVIOUS
  <2>1. i + 1 \in 1 .. Len(s) + Len(t) /\ ~(i + 1 <= Len(s)) /\ (i + 1) - Len(s) = i
    BY LenProperties
  <2> QED BY <2>1, ConcatProperties
<1>3. s \o t # <<>>
  BY <1>1, LenProperties, EmptySeq
<1>4. /\ Tail(s \o t) \in Seq(S)
      /\ Len(Tail(s \o t)) = Len(t)
      /\ \A i \in 1 .. Len(t) : Tail(s \o t)[i] = (s \o t)[i + 1]
  BY <1>1, <1>3, HeadTailProperties, LenProperties
<1>5. Len(Tail(s \o t)) = Len(t) /\ \A i \in 1 .. Len(t) : Tail(s \o t)[i] = t[i]
  BY <1>2, <1>4
<1> QED BY <1>4, <1>5, SeqEqual

(* A nonempty sequence of at most one element has exactly one.             *)
LEMMA LenOne ==
  ASSUME NEW S, NEW s \in Seq(S), s # <<>>, Len(s) <= 1
  PROVE  Len(s) = 1
<1>1. Len(s) \in Nat /\ Len(s) # 0
  BY EmptySeq
<1> QED BY <1>1

(* An unoccupied front leaves the second sequence.                         *)
LEMMA EmptyFront ==
  ASSUME NEW S, NEW t \in Seq(S)
  PROVE  <<>> \o t = t
BY ConcatEmptySeq

(* What SubSeq leaves of a sequence after its first n elements.            *)
LEMMA RestElements ==
  ASSUME NEW S, NEW t \in Seq(S), NEW n \in 0 .. Len(t)
  PROVE  /\ SubSeq(t, n + 1, Len(t)) \in Seq(S)
         /\ Len(SubSeq(t, n + 1, Len(t))) = Len(t) - n
         /\ \A i \in 1 .. Len(t) - n : SubSeq(t, n + 1, Len(t))[i] = t[n + i]
<1> DEFINE m == Len(t)
<1>1. m \in Int /\ n + 1 \in Int /\ n <= m /\ \A i \in n + 1 .. m : t[i] \in S
  BY LenProperties, ElementOfSeq
<1> HIDE DEF m
<1>2. /\ SubSeq(t, n + 1, m) \in Seq(S)
      /\ Len(SubSeq(t, n + 1, m)) = m - n
      /\ \A i \in 1 .. m - n : SubSeq(t, n + 1, m)[i] = t[n + i]
  BY <1>1, SubSeqProperties
<1> QED BY <1>2 DEF m

(* The remaining part of a sequence that grows by one.                     *)
LEMMA RestOfAppend ==
  ASSUME NEW S, NEW s \in Seq(S), NEW e \in S, NEW n \in 0 .. Len(s)
  PROVE  SubSeq(Append(s, e), n + 1, Len(Append(s, e)))
           = Append(SubSeq(s, n + 1, Len(s)), e)
<1> DEFINE t == Append(s, e)
           a == SubSeq(t, n + 1, Len(t))
           r == SubSeq(s, n + 1, Len(s))
           b == Append(r, e)
<1>1. /\ t \in Seq(S) /\ Len(t) = Len(s) + 1
      /\ \A i \in 1 .. Len(s) : t[i] = s[i]
      /\ t[Len(s) + 1] = e
  BY AppendProperties
<1> HIDE DEF t
<1>2. /\ r \in Seq(S) /\ Len(r) = Len(s) - n
      /\ \A i \in 1 .. Len(s) - n : r[i] = s[n + i]
  BY RestElements
<1>3. /\ a \in Seq(S) /\ Len(a) = Len(t) - n
      /\ \A i \in 1 .. Len(t) - n : a[i] = t[n + i]
  <2>1. n \in 0 .. Len(t)
    BY <1>1, LenProperties
  <2> QED BY <1>1, <2>1, RestElements
<1> HIDE DEF r
<1>4. /\ b \in Seq(S) /\ Len(b) = Len(r) + 1
      /\ \A i \in 1 .. Len(r) : b[i] = r[i]
      /\ b[Len(r) + 1] = e
  BY <1>2, AppendProperties
<1> HIDE DEF a, b
<1>5. Len(a) = Len(b)
  BY <1>1, <1>2, <1>3, <1>4, LenProperties
<1>6. ASSUME NEW i \in 1 .. Len(a)
      PROVE  a[i] = b[i]
  <2>1. Len(s) \in Nat /\ n \in 0 .. Len(s) /\ i \in 1 .. (Len(s) - n) + 1
    BY <1>1, <1>3, LenProperties
  <2>2. a[i] = t[n + i]
    BY <1>3
  <2>3. CASE i \in 1 .. Len(s) - n
    <3>1. n + i \in 1 .. Len(s)
      BY <2>1, <2>3
    <3> QED BY <1>1, <1>2, <1>4, <2>2, <2>3, <3>1
  <2>4. CASE i = (Len(s) - n) + 1
    <3>1. n + i = Len(s) + 1 /\ i = Len(r) + 1
      BY <1>2, <2>1, <2>4
    <3> QED BY <1>1, <1>4, <2>2, <3>1
  <2> QED BY <2>1, <2>3, <2>4
<1>7. a = b
  BY <1>3, <1>4, <1>5, <1>6, SeqEqual
<1> QED BY <1>7 DEF a, b, r, t

(* Taking the first element of what remains leaves the rest.               *)
LEMMA RestOfRest ==
  ASSUME NEW S, NEW s \in Seq(S), NEW n \in 0 .. Len(s),
         SubSeq(s, n + 1, Len(s)) # <<>>
  PROVE  /\ n + 1 \in 0 .. Len(s)
         /\ Tail(SubSeq(s, n + 1, Len(s))) = SubSeq(s, n + 2, Len(s))
<1>1. n + 1 \in 0 .. Len(s)
  BY SubSeqEmpty, LenProperties
<1> QED BY <1>1, HeadTailOfSubSeq

-----------------------------------------------------------------------------

(* Elements of a sequence.                                                 *)
LEMMA Elements ==
  ASSUME NEW S, NEW s \in Seq(S)
  PROVE  /\ Len(s) \in Nat
         /\ DOMAIN s = 1 .. Len(s)
         /\ ToSet(s) = {s[i] : i \in 1 .. Len(s)}
         /\ ToSet(s) \subseteq S
         /\ IsInjective(s) <=> \A i, j \in 1 .. Len(s) : s[i] = s[j] => i = j
BY DEF ToSet, IsInjective

(* Without its first element, a sequence of distinct elements has all but  *)
(* that one.                                                               *)
LEMMA TailElements ==
  ASSUME NEW S, NEW s \in Seq(S), s # <<>>, IsInjective(s)
  PROVE  /\ Tail(s) \in Seq(S)
         /\ IsInjective(Tail(s))
         /\ Head(s) \in ToSet(s)
         /\ ToSet(Tail(s)) = ToSet(s) \ {Head(s)}
<1>1. /\ Tail(s) \in Seq(S) /\ Len(s) \in Nat /\ Len(s) >= 1 /\ Len(Tail(s)) = Len(s) - 1
      /\ \A i \in 1 .. Len(s) - 1 : Tail(s)[i] = s[i + 1]
      /\ Head(s) = s[1]
  OBVIOUS
<1> DEFINE t == Tail(s)
<1> HIDE DEF t
<1>2. \A i \in 1 .. Len(t) : t[i] = s[i + 1] /\ i + 1 \in 2 .. Len(s)
  BY <1>1 DEF t
<1>3. \A i \in 2 .. Len(s) : i - 1 \in 1 .. Len(t) /\ t[i - 1] = s[i]
  BY <1>1 DEF t
<1>4. \A i, j \in 1 .. Len(s) : s[i] = s[j] => i = j
  BY Elements
<1>5. \A i, j \in 1 .. Len(t) : t[i] = t[j] => i = j
  BY <1>1, <1>2, <1>4
<1>6. ToSet(t) = ToSet(s) \ {Head(s)}
  <2>1. ToSet(t) = {t[i] : i \in 1 .. Len(t)} /\ ToSet(s) = {s[i] : i \in 1 .. Len(s)}
    <3>1. t \in Seq(S)
      BY <1>1 DEF t
    <3> QED BY <3>1, Elements
  <2>2. \A i \in 1 .. Len(t) : t[i] \in ToSet(s) \ {Head(s)}
    BY <1>1, <1>2, <1>4, <2>1
  <2>3. ASSUME NEW i \in 1 .. Len(s), s[i] # Head(s)
        PROVE  s[i] \in ToSet(t)
    <3>1. i \in 2 .. Len(s)
      BY <1>1, <2>3
    <3> QED BY <1>3, <2>1, <3>1
  <2> QED BY <2>1, <2>2, <2>3
<1>7. t \in Seq(S) /\ IsInjective(t)
  BY <1>1, <1>5, Elements DEF t
<1> QED BY <1>1, <1>6, <1>7, Elements DEF t

(* A new element behind or in front of distinct ones.                      *)
LEMMA Appended ==
  ASSUME NEW S, NEW s \in Seq(S), IsInjective(s), NEW e \in S, e \notin ToSet(s)
  PROVE  /\ Append(s, e) \in Seq(S) /\ Len(Append(s, e)) = Len(s) + 1
         /\ \A i \in 1 .. Len(s) : Append(s, e)[i] = s[i]
         /\ Append(s, e)[Len(s) + 1] = e
         /\ IsInjective(Append(s, e))
         /\ ToSet(Append(s, e)) = ToSet(s) \cup {e}
<1> DEFINE t == Append(s, e)
           m == Len(s)
<1>1. /\ t \in Seq(S) /\ Len(t) = m + 1 /\ m \in Nat
      /\ \A i \in 1 .. m : t[i] = s[i]
      /\ t[m + 1] = e
  BY AppendProperties, LenProperties
<1>2. ToSet(s) = {s[i] : i \in 1 .. m} /\ \A i, j \in 1 .. m : s[i] = s[j] => i = j
  BY Elements
<1> HIDE DEF t, m
<1>3. \A i \in 1 .. m + 1 : i \in 1 .. m \/ i = m + 1
  BY <1>1
<1>4. \A i, j \in 1 .. m + 1 : t[i] = t[j] => i = j
  BY <1>1, <1>2, <1>3
<1>5. ToSet(t) = {t[i] : i \in 1 .. m + 1} /\ IsInjective(t)
  BY <1>1, <1>4, Elements
<1>6. ToSet(t) = ToSet(s) \cup {e}
  <2>1. 1 .. m + 1 = (1 .. m) \cup {m + 1}
    BY <1>1
  <2> QED BY <1>1, <1>2, <1>5, <2>1
<1> QED BY <1>1, <1>5, <1>6 DEF t, m

(* A new element before a sequence without repetitions.                    *)
LEMMA Prepended ==
  ASSUME NEW S, NEW s \in Seq(S), IsInjective(s), NEW e \in S, e \notin ToSet(s)
  PROVE  /\ <<e>> \o s \in Seq(S) /\ Len(<<e>> \o s) = Len(s) + 1
         /\ (<<e>> \o s)[1] = e
         /\ \A i \in 1 .. Len(s) : (<<e>> \o s)[i + 1] = s[i]
         /\ IsInjective(<<e>> \o s)
         /\ ToSet(<<e>> \o s) = ToSet(s) \cup {e}
<1> DEFINE t == <<e>> \o s
           m == Len(s)
<1>1. /\ t \in Seq(S) /\ Len(t) = m + 1 /\ m \in Nat
      /\ \A i \in 1 .. m : t[i + 1] = s[i]
      /\ t[1] = e
  <2>1. <<e>> \in Seq(S) /\ Len(<<e>>) = 1 /\ <<e>>[1] = e /\ m \in Nat
    BY LenProperties
  <2>2. /\ t \in Seq(S) /\ Len(t) = 1 + m
        /\ \A i \in 1 .. 1 + m : t[i] = IF i <= 1 THEN <<e>>[i] ELSE s[i - 1]
    BY <2>1, ConcatProperties
  <2> HIDE DEF t, m
  <2>3. ASSUME NEW i \in 1 .. m
        PROVE  t[i + 1] = s[i]
    <3>1. i + 1 \in 1 .. 1 + m /\ ~(i + 1 <= 1) /\ (i + 1) - 1 = i
      BY <2>1
    <3> QED BY <2>2, <3>1
  <2>4. t[1] = e
    BY <2>1, <2>2
  <2> QED BY <2>1, <2>2, <2>3, <2>4
<1>2. ToSet(s) = {s[i] : i \in 1 .. m} /\ \A i, j \in 1 .. m : s[i] = s[j] => i = j
  BY Elements
<1> HIDE DEF t, m
<1>3. ASSUME NEW i \in 1 .. m + 1, i # 1
      PROVE  i - 1 \in 1 .. m /\ t[i] = s[i - 1] /\ t[i] \in ToSet(s)
  <2>1. i - 1 \in 1 .. m /\ (i - 1) + 1 = i
    BY <1>1, <1>3
  <2> QED BY <1>1, <1>2, <2>1
<1>4. \A i \in 1 .. m : t[i + 1] \in ToSet(s)
  BY <1>1, <1>2
<1>5. ASSUME NEW i \in 1 .. m + 1, NEW j \in 1 .. m + 1, t[i] = t[j]
      PROVE  i = j
  <2>1. CASE i # 1 /\ j # 1
    <3>1. i - 1 = j - 1
      BY <1>2, <1>3, <1>5, <2>1
    <3> QED BY <1>1, <3>1
  <2>2. CASE i = 1 /\ j # 1
    BY <1>1, <1>3, <1>5, <2>2
  <2>3. CASE i # 1 /\ j = 1
    BY <1>1, <1>3, <1>5, <2>3
  <2> QED BY <2>1, <2>2, <2>3
<1>6. ToSet(t) = {t[i] : i \in 1 .. m + 1} /\ IsInjective(t)
  BY <1>1, <1>5, Elements
<1>7. ToSet(t) = ToSet(s) \cup {e}
  <2>1. \A i \in 1 .. m : i + 1 \in 1 .. m + 1
    BY <1>1
  <2>2. 1 \in 1 .. m + 1
    BY <1>1
  <2>3. ToSet(t) \subseteq ToSet(s) \cup {e}
    BY <1>1, <1>3, <1>4, <1>6
  <2>4. ToSet(s) \subseteq ToSet(t)
    <3> SUFFICES ASSUME NEW i \in 1 .. m
                 PROVE  s[i] \in ToSet(t)
      BY <1>2
    <3>1. s[i] = t[i + 1] /\ i + 1 \in 1 .. m + 1
      BY <1>1, <2>1
    <3> QED BY <1>6, <3>1
  <2> QED BY <1>1, <1>6, <2>2, <2>3, <2>4
<1> QED BY <1>1, <1>6, <1>7 DEF t, m

(* RemoveFirst() takes out the element at one place.                       *)
LEMMA RemovedAt ==
  ASSUME NEW S, NEW s \in Seq(S), IsInjective(s), NEW e \in ToSet(s)
  PROVE  \E p \in 1 .. Len(s) :
           /\ s[p] = e
           /\ RemoveFirst(s, e) \in Seq(S)
           /\ Len(RemoveFirst(s, e)) = Len(s) - 1
           /\ \A i \in 1 .. Len(s) - 1 :
                RemoveFirst(s, e)[i] = IF i < p THEN s[i] ELSE s[i + 1]
<1>1. PICK p \in 1 .. Len(s) : s[p] = e
  BY Elements
<1>2. \A i \in 1 .. Len(s) : s[i] = e => i = p
  BY <1>1, Elements
<1>3. SelectInSeq(s, LAMBDA v : v = e) = p
  <2>1. {i \in 1 .. Len(s) : s[i] = e} = {p}
    BY <1>1, <1>2
  <2>2. Min({p}) = p
    BY DEF Min
  <2> QED BY <2>1, <2>2 DEF SelectInSeq
<1> DEFINE t == RemoveFirst(s, e)
<1>4. t = SubSeq(s, 1, p - 1) \o SubSeq(s, p + 1, Len(s))
  BY <1>1, <1>3 DEF RemoveFirst, RemoveAt
<1> HIDE DEF t
<1>5. /\ t \in Seq(S) /\ Len(t) = Len(s) - 1
      /\ \A i \in 1 .. Len(s) - 1 : t[i] = IF i < p THEN s[i] ELSE s[i + 1]
  <2> DEFINE m == Len(s)
             a == SubSeq(s, 1, p - 1)
             b == SubSeq(s, p + 1, m)
  <2>1. m \in Nat /\ p \in 1 .. m
    OBVIOUS
  <2>2. a \in Seq(S) /\ Len(a) = p - 1 /\ \A i \in 1 .. p - 1 : a[i] = s[i]
    OBVIOUS
  <2>3. b \in Seq(S) /\ Len(b) = m - p /\ \A i \in 1 .. m - p : b[i] = s[p + i]
    BY RestElements
  <2>4. t = a \o b
    BY <1>4
  <2> HIDE DEF m, a, b
  <2>5. /\ t \in Seq(S) /\ Len(t) = Len(a) + Len(b)
        /\ \A i \in 1 .. Len(a) + Len(b) :
             t[i] = IF i <= Len(a) THEN a[i] ELSE b[i - Len(a)]
    BY <2>2, <2>3, <2>4, ConcatProperties
  <2>6. t \in Seq(S) /\ Len(t) = m - 1
    BY <2>1, <2>2, <2>3, <2>5
  <2>7. \A i \in 1 .. m - 1 : t[i] = IF i < p THEN s[i] ELSE s[i + 1]
    <3> SUFFICES ASSUME NEW i \in 1 .. m - 1
                 PROVE  t[i] = IF i < p THEN s[i] ELSE s[i + 1]
      OBVIOUS
    <3>1. t[i] = IF i <= p - 1 THEN a[i] ELSE b[i - (p - 1)]
      BY <2>1, <2>2, <2>3, <2>5
    <3>2. CASE i < p
      BY <2>1, <2>2, <3>1, <3>2
    <3>3. CASE i >= p
      <4>1. i - (p - 1) \in 1 .. m - p /\ p + (i - (p - 1)) = i + 1 /\ ~(i <= p - 1)
        BY <2>1, <3>3
      <4> QED BY <2>1, <2>3, <3>1, <3>3, <4>1
    <3> QED BY <2>1, <3>2, <3>3
  <2> QED BY <2>6, <2>7 DEF m
<1> QED BY <1>1, <1>5 DEF t

(* It takes out nothing else.                                              *)
LEMMA Removed ==
  ASSUME NEW S, NEW s \in Seq(S), IsInjective(s), NEW e \in ToSet(s)
  PROVE  /\ RemoveFirst(s, e) \in Seq(S)
         /\ Len(RemoveFirst(s, e)) = Len(s) - 1
         /\ IsInjective(RemoveFirst(s, e))
         /\ ToSet(RemoveFirst(s, e)) = ToSet(s) \ {e}
<1> DEFINE t == RemoveFirst(s, e)
<1>1. PICK p \in 1 .. Len(s) :
        /\ s[p] = e /\ t \in Seq(S) /\ Len(t) = Len(s) - 1
        /\ \A i \in 1 .. Len(s) - 1 : t[i] = IF i < p THEN s[i] ELSE s[i + 1]
  BY RemovedAt
<1> HIDE DEF t
<1>2. \A i, j \in 1 .. Len(s) : s[i] = s[j] => i = j
  BY Elements
<1>3. IsInjective(t)
  <2>1. \A i, j \in 1 .. Len(t) : t[i] = t[j] => i = j
    BY <1>1, <1>2
  <2> QED BY <1>1, <2>1, Elements
<1>4. ToSet(t) = ToSet(s) \ {e}
  <2>1. ToSet(t) = {t[i] : i \in 1 .. Len(t)} /\ ToSet(s) = {s[i] : i \in 1 .. Len(s)}
    BY <1>1, Elements
  <2>2. \A i \in 1 .. Len(t) : t[i] \in ToSet(s) \ {e}
    BY <1>1, <1>2, <2>1
  <2>3. ASSUME NEW i \in 1 .. Len(s), s[i] # e
        PROVE  s[i] \in ToSet(t)
    <3>1. CASE i < p
      BY <1>1, <2>1, <3>1
    <3>2. CASE i > p
      <4>1. i - 1 \in 1 .. Len(t) /\ t[i - 1] = s[i]
        BY <1>1, <3>2
      <4> QED BY <2>1, <4>1
    <3> QED BY <1>1, <2>3, <3>1, <3>2
  <2> QED BY <2>1, <2>2, <2>3
<1> QED BY <1>1, <1>3, <1>4 DEF t

(* Taking out the first element leaves the tail.                           *)
LEMMA RemovedFirst ==
  ASSUME NEW S, NEW s \in Seq(S), s # <<>>, IsInjective(s)
  PROVE  RemoveFirst(s, s[1]) = Tail(s)
<1> DEFINE n == Len(s)
           t == RemoveFirst(s, s[1])
           u == Tail(s)
<1>1. n \in Nat /\ 1 \in 1 .. n /\ s[1] \in ToSet(s)
  <2>1. n \in Nat /\ 1 \in 1 .. n
    BY EmptySeq, LenProperties
  <2> QED BY <2>1, Elements
<1>2. PICK p \in 1 .. n :
        /\ s[p] = s[1] /\ t \in Seq(S) /\ Len(t) = n - 1
        /\ \A i \in 1 .. n - 1 : t[i] = IF i < p THEN s[i] ELSE s[i + 1]
  BY <1>1, RemovedAt
<1>3. p = 1
  BY <1>1, <1>2, Elements
<1>4. u \in Seq(S) /\ Len(u) = n - 1 /\ \A i \in 1 .. n - 1 : u[i] = s[i + 1]
  OBVIOUS
<1> HIDE DEF n, t, u
<1>5. \A i \in 1 .. n - 1 : t[i] = u[i]
  BY <1>1, <1>2, <1>3, <1>4
<1>6. t = u
  BY <1>2, <1>4, <1>5, SeqEqual
<1> QED BY <1>6 DEF t, u

(* A list that begins with its second element.                             *)
LEMMA Turned ==
  ASSUME NEW S, NEW s \in Seq(S), s # <<>>
  PROVE  /\ Append(Tail(s), Head(s)) \in Seq(S)
         /\ Len(Append(Tail(s), Head(s))) = Len(s)
         /\ \A i \in 1 .. Len(s) :
              Append(Tail(s), Head(s))[i] = IF i = Len(s) THEN s[1] ELSE s[i + 1]
         /\ ToSet(Append(Tail(s), Head(s))) = ToSet(s)
<1> DEFINE m == Len(s)
           q == Tail(s)
           h == Head(s)
           t == Append(q, h)
<1>1. /\ q \in Seq(S) /\ m \in Nat /\ m >= 1 /\ Len(q) = m - 1
      /\ \A i \in 1 .. m - 1 : q[i] = s[i + 1]
      /\ h = s[1] /\ h \in S
  OBVIOUS
<1>2. ToSet(s) = {s[i] : i \in 1 .. m}
  BY Elements
<1> HIDE DEF m, q, h
<1>3. /\ t \in Seq(S) /\ Len(t) = Len(q) + 1
      /\ \A i \in 1 .. Len(q) : t[i] = q[i]
      /\ t[Len(q) + 1] = h
  BY <1>1, AppendProperties
<1>4. ToSet(t) = {t[i] : i \in 1 .. Len(t)}
  BY <1>3, Elements
<1> HIDE DEF t
<1>5. Len(t) = m /\ \A i \in 1 .. m : t[i] = IF i = m THEN s[1] ELSE s[i + 1]
  BY <1>1, <1>3
<1>6. ToSet(t) = ToSet(s)
  <2>1. \A i \in 1 .. m : t[i] \in ToSet(s)
    BY <1>1, <1>2, <1>5
  <2>2. ASSUME NEW i \in 1 .. m
        PROVE  s[i] \in ToSet(t)
    <3>1. CASE i = 1
      BY <1>1, <1>4, <1>5, <3>1
    <3>2. CASE i # 1
      <4>1. i - 1 \in 1 .. m /\ t[i - 1] = s[i]
        BY <1>1, <1>5, <3>2
      <4> QED BY <1>4, <1>5, <4>1
    <3> QED BY <3>1, <3>2
  <2>3. ToSet(t) \subseteq ToSet(s)
    BY <1>4, <1>5, <2>1
  <2>4. ToSet(s) \subseteq ToSet(t)
    BY <1>2, <2>2
  <2> QED BY <2>3, <2>4
<1> QED BY <1>3, <1>5, <1>6 DEF m, q, h, t

-----------------------------------------------------------------------------

(* Division with remainder.                                                *)
LEMMA Divided ==
  ASSUME NEW a \in Nat, NEW S \in Nat \ {0}
  PROVE  a = S * (a \div S) + (a % S) /\ a % S \in 0 .. S - 1 /\ a \div S \in Nat
OBVIOUS

(* Division has one remainder.                                             *)
LEMMA OneRemainder ==
  ASSUME NEW S \in Nat \ {0}, NEW q \in Nat, NEW r \in 0 .. S - 1,
         NEW p \in Nat, NEW t \in 0 .. S - 1, S * q + r = S * p + t
  PROVE  r = t
<1>1. S * (q - p) = t - r
  OBVIOUS
<1>2. CASE q - p >= 1
  <2>1. S * (q - p) >= S
    BY <1>2
  <2> QED BY <1>1, <2>1
<1>3. CASE q - p <= -1
  <2>1. S * (q - p) <= -S
    BY <1>3
  <2> QED BY <1>1, <2>1
<1>4. CASE q = p
  BY <1>1, <1>4
<1> QED BY <1>2, <1>3, <1>4

(* A remainder counts up and wraps around.                                 *)
LEMMA NextRemainder ==
  ASSUME NEW a \in Nat, NEW S \in Nat \ {0}
  PROVE  /\ a % S \in 0 .. S - 1
         /\ (a + 1) % S = IF (a % S) + 1 = S THEN 0 ELSE (a % S) + 1
         /\ (a + 1) % S = ((a % S) + 1) % S
<1> DEFINE r == a % S
           q == a \div S
           t == (a + 1) % S
           p == (a + 1) \div S
<1>1. /\ a = S * q + r /\ r \in 0 .. S - 1 /\ q \in Nat
      /\ a + 1 = S * p + t /\ t \in 0 .. S - 1 /\ p \in Nat
  <2>1. a = S * q + r /\ r \in 0 .. S - 1 /\ q \in Nat
    BY Divided
  <2>2. a + 1 \in Nat
    OBVIOUS
  <2>3. a + 1 = S * p + t /\ t \in 0 .. S - 1 /\ p \in Nat
    BY <2>2, Divided
  <2> QED BY <2>1, <2>3
<1>2. (r + 1) % S = IF r + 1 = S THEN 0 ELSE r + 1
  <2> HIDE DEF r
  <2> QED BY <1>1
<1> HIDE DEF r, q, t, p
<1>3. CASE r + 1 = S
  <2>1. S * (q + 1) = S * q + S
    BY <1>1
  <2>2. S * (q + 1) + 0 = S * p + t /\ q + 1 \in Nat /\ 0 \in 0 .. S - 1
    BY <1>1, <1>3, <2>1
  <2>3. t = 0
    BY <1>1, <2>2, OneRemainder
  <2> QED BY <1>1, <1>2, <1>3, <2>3 DEF r, t
<1>4. CASE r + 1 # S
  <2>1. S * q + (r + 1) = S * p + t /\ r + 1 \in 0 .. S - 1
    BY <1>1, <1>4
  <2>2. t = r + 1
    BY <1>1, <2>1, OneRemainder
  <2> QED BY <1>1, <1>2, <1>4, <2>2 DEF r, t
<1> QED BY <1>3, <1>4

-----------------------------------------------------------------------------

(* The places of a value in a sequence, and their number.                  *)
PlacesOf(x, s) == {i \in DOMAIN s : s[i] = x}
Occurrences(x, s) == Cardinality(PlacesOf(x, s))

(* The places of an element can be counted.                                *)
LEMMA PlacesFinite ==
  ASSUME NEW S, NEW s \in Seq(S), NEW x
  PROVE  /\ IsFiniteSet(PlacesOf(x, s)) /\ Occurrences(x, s) \in Nat
         /\ PlacesOf(x, s) = {i \in 1 .. Len(s) : s[i] = x}
<1>1. DOMAIN s = 1 .. Len(s) /\ Len(s) \in Int /\ 1 \in Int
  BY LenProperties
<1>2. IsFiniteSet(1 .. Len(s))
  BY <1>1, FS_Interval
<1>3. PlacesOf(x, s) \in SUBSET (1 .. Len(s))
  BY <1>1 DEF PlacesOf
<1>4. IsFiniteSet(PlacesOf(x, s))
  BY <1>2, <1>3, FS_Subset
<1> QED BY <1>1, <1>4, FS_CardinalityType DEF Occurrences, PlacesOf

(* A value occurs in a concatenation as often as in its parts together.    *)
LEMMA OccurrencesConcat ==
  ASSUME NEW S, NEW s \in Seq(S), NEW t \in Seq(S), NEW x
  PROVE  Occurrences(x, s \o t) = Occurrences(x, s) + Occurrences(x, t)
<1> DEFINE u == s \o t
           m == Len(s)
           n == Len(t)
<1>1. m \in Nat /\ n \in Nat
  BY LenProperties
<1>2. /\ u \in Seq(S) /\ Len(u) = m + n
      /\ \A i \in 1 .. m + n : u[i] = IF i <= m THEN s[i] ELSE t[i - m]
  BY ConcatProperties
<1>3. /\ PlacesOf(x, s) = {i \in 1 .. m : s[i] = x}
      /\ PlacesOf(x, t) = {i \in 1 .. n : t[i] = x}
      /\ IsFiniteSet(PlacesOf(x, s)) /\ IsFiniteSet(PlacesOf(x, t))
      /\ Occurrences(x, s) \in Nat /\ Occurrences(x, t) \in Nat
  BY PlacesFinite
<1>4. PlacesOf(x, u) = {i \in 1 .. m + n : u[i] = x} /\ IsFiniteSet(PlacesOf(x, u))
  <2> HIDE DEF u, m, n
  <2>1. /\ PlacesOf(x, u) = {i \in 1 .. Len(u) : u[i] = x}
        /\ IsFiniteSet(PlacesOf(x, u))
    BY <1>2, PlacesFinite
  <2> QED BY <1>2, <2>1
<1> HIDE DEF u, m, n
<1> DEFINE I == PlacesOf(x, s)
           J == PlacesOf(x, t)
           K == {i \in m + 1 .. m + n : u[i] = x}
           f == [j \in J |-> j + m]
<1>5. /\ \A j \in J : j \in 1 .. n /\ t[j] = x
      /\ \A i \in K : i \in m + 1 .. m + n /\ u[i] = x
  BY <1>3
<1>6. \A j \in J : j + m \in K
  BY <1>1, <1>2, <1>5
<1>7. \A i \in K : i - m \in J
  BY <1>1, <1>2, <1>3, <1>5
<1>8. ExistsBijection(J, K)
  <2>1. f \in [J -> K]
    BY <1>6
  <2>2. \A a, b \in J : f[a] = f[b] => a = b
    BY <1>1, <1>5
  <2>3. \A i \in K : \E j \in J : f[j] = i
    <3> SUFFICES ASSUME NEW i \in K
                 PROVE  \E j \in J : f[j] = i
      OBVIOUS
    <3>1. i - m \in J /\ f[i - m] = i
      BY <1>1, <1>5, <1>7
    <3> QED BY <3>1
  <2> HIDE DEF f, J, K
  <2>4. f \in Bijection(J, K)
    BY <2>1, <2>2, <2>3 DEF Bijection, Injection, Surjection, IsInjective
  <2> QED BY <2>4 DEF ExistsBijection
<1>9. IsFiniteSet(K) /\ Cardinality(K) = Occurrences(x, t)
  BY <1>3, <1>8, FS_Bijection DEF Occurrences
<1>10. PlacesOf(x, u) = I \cup K
  <2>1. \A i \in 1 .. m + n : i \in 1 .. m \/ i \in m + 1 .. m + n
    BY <1>1
  <2>2. \A i \in 1 .. m : i \in 1 .. m + n /\ u[i] = s[i]
    BY <1>1, <1>2
  <2>3. \A i \in m + 1 .. m + n : i \in 1 .. m + n
    BY <1>1
  <2> QED BY <1>3, <1>4, <2>1, <2>2, <2>3
<1>11. I \cap K = {}
  BY <1>1, <1>3
<1>12. Cardinality(I \cup K) = Cardinality(I) + Cardinality(K) - Cardinality(I \cap K)
  <2> HIDE DEF I, K
  <2>1. IsFiniteSet(I) /\ IsFiniteSet(K)
    BY <1>3, <1>9 DEF I
  <2> QED BY <2>1, FS_Union
<1>13. Cardinality(I \cap K) = 0
  BY <1>11, FS_EmptySet
<1>14. Occurrences(x, u) = Occurrences(x, s) + Occurrences(x, t)
  BY <1>3, <1>9, <1>10, <1>12, <1>13 DEF Occurrences
<1> QED BY <1>14 DEF u

(* In a sequence of one element.                                           *)
LEMMA OccurrencesOne ==
  ASSUME NEW x, NEW e
  PROVE  Occurrences(x, <<e>>) = IF e = x THEN 1 ELSE 0
<1>1. PlacesOf(x, <<e>>) = IF e = x THEN {1} ELSE {}
  BY DEF PlacesOf
<1> QED BY <1>1, FS_Singleton, FS_EmptySet DEF Occurrences

(* One more place if the element is appended.                              *)
LEMMA OccurrencesAppend ==
  ASSUME NEW S, NEW s \in Seq(S), NEW e \in S, NEW x
  PROVE  Occurrences(x, Append(s, e)) = Occurrences(x, s) + IF e = x THEN 1 ELSE 0
<1>1. Append(s, e) = s \o <<e>> /\ <<e>> \in Seq(S)
  OBVIOUS
<1>2. Occurrences(x, s \o <<e>>) = Occurrences(x, s) + Occurrences(x, <<e>>)
  BY <1>1, OccurrencesConcat
<1>3. Occurrences(x, <<e>>) = IF e = x THEN 1 ELSE 0
  BY OccurrencesOne
<1> QED BY <1>1, <1>2, <1>3

(* One place fewer if it was the head.                                     *)
LEMMA OccurrencesTail ==
  ASSUME NEW S, NEW s \in Seq(S), s # <<>>, NEW x
  PROVE  Occurrences(x, s) = Occurrences(x, Tail(s)) + IF Head(s) = x THEN 1 ELSE 0
<1>1. s = <<Head(s)>> \o Tail(s) /\ <<Head(s)>> \in Seq(S) /\ Tail(s) \in Seq(S)
  OBVIOUS
<1>2. Occurrences(x, <<Head(s)>> \o Tail(s)) = Occurrences(x, <<Head(s)>>) + Occurrences(x, Tail(s))
  BY <1>1, OccurrencesConcat
<1>3. Occurrences(x, Tail(s)) \in Nat
  BY <1>1, PlacesFinite
<1> DEFINE h == <<Head(s)>>
           q == Tail(s)
<1>4. Occurrences(x, h) = IF Head(s) = x THEN 1 ELSE 0
  BY OccurrencesOne
<1>5. Occurrences(x, s) = Occurrences(x, h) + Occurrences(x, q) /\ Occurrences(x, q) \in Nat
  BY <1>1, <1>2, <1>3
<1> HIDE DEF h, q
<1>6. Occurrences(x, s) = Occurrences(x, q) + IF Head(s) = x THEN 1 ELSE 0
  BY <1>4, <1>5
<1> QED BY <1>6 DEF q

(* Every set of numbers has a least one.                                   *)
LEMMA Least ==
  ASSUME NEW T, T \subseteq Nat, T # {}
  PROVE  \E x \in T : \A y \in T : x <= y
<1> DEFINE R == OpToRel(<, Nat)
<1>1. \A x, y \in Nat : ~ (<<y, x>> \in R) => ~ (y < x)
  BY DEF OpToRel
<1>2. IsWellFoundedOn(R, Nat)
  BY NatLessThanWellFounded
<1> HIDE DEF R
<1>3. PICK x \in T : \A y \in T : ~ (<<y, x>> \in R)
  BY <1>2, WFMin
<1>4. ASSUME NEW y \in T
      PROVE  x <= y
  <2>1. x \in Nat /\ y \in Nat
    OBVIOUS
  <2>2. ~ (y < x)
    BY <1>1, <1>3, <2>1
  <2> QED BY <2>1, <2>2
<1> QED BY <1>4
=============================================================================
