----------------------------- MODULE RelayLemmas -----------------------------
(***************************************************************************)
(* What the functions of relay.c do to a relay_t, for any addresses A,     *)
(* received datagrams B and datagrams D to be sent: the lemmas the proofs  *)
(* about one relay and about the daemon share.                             *)
(***************************************************************************)
EXTENDS RelayOps, SequenceLemmas, TLAPS

(* A new relay is a relay with an empty backlog.           *)
LEMMA NewRelayType ==
  ASSUME NEW A, NEW B, NEW D, NEW a \in A
  PROVE  NewRelay(a) \in RelayType(A, B, D)
BY DEF NewRelay, RelayType, NoBuffer

(* Growing the buffer gives a size that holds the datagram.                *)
LEMMA GrowFits ==
  ASSUME NEW size \in Nat \cup {NoBuffer}, NEW len \in Nat
  PROVE  Grow(size, len) \in Nat /\ len <= Grow(size, len)
BY DEF Grow, NoBuffer

(* Holding a datagram back keeps the record well formed and the buffer     *)
(* large enough for what it holds.                                         *)
LEMMA HoldType ==
  ASSUME NEW A, NEW B, NEW D, \A x \in D : x.len \in Nat,
         NEW r \in RelayType(A, B, D), NEW d \in D
  PROVE  Hold(r, d) \in RelayType(A, B, D)
<1>1. d.len \in Nat
  OBVIOUS
<1>2. CASE Queued(r)
  <2>1. Append(r.queue, d) \in Seq(D)
    BY AppendProperties DEF RelayType
  <2> QED BY <1>2, <2>1 DEF Hold, RelayType
<1>3. CASE ~Queued(r)
  <2>1. Grow(r.sendBufferSize, d.len) \in Nat
    BY <1>1, GrowFits DEF RelayType
  <2>2. (IF d.len = 0 THEN <<>> ELSE <<d>>) \in Seq(D)
    OBVIOUS
  <2>3. Len(IF d.len = 0 THEN <<>> ELSE <<d>>) <= 1
    OBVIOUS
  <2> QED
    BY <1>3, <2>1, <2>2, <2>3 DEF Hold, RelayType
<1> QED BY <1>2, <1>3

(* A datagram held back goes to the end of the backlog, provided it is not *)
(* empty or the backlog is not.                                            *)
LEMMA HoldAppends ==
  ASSUME NEW A, NEW B, NEW D, NEW r \in RelayType(A, B, D), NEW d \in D,
         d.len # 0 \/ Queued(r)
  PROVE  Pending(Hold(r, d)) = Append(Pending(r), d)
<1>1. r.send \in Seq(D) /\ r.queue \in Seq(D) /\ d \in D
  BY DEF RelayType
<1>2. CASE Queued(r)
  <2>1. Pending(Hold(r, d)) = r.send \o Append(r.queue, d)
    BY <1>2 DEF Hold, Pending, RelayType
  <2>2. r.send \o Append(r.queue, d) = Append(r.send \o r.queue, d)
    <3> DEFINE s == r.send
               q == r.queue
    <3> HIDE DEF s, q
    <3>1. s \in Seq(D) /\ q \in Seq(D)
      BY <1>1 DEF s, q
    <3>2. s \o Append(q, d) = Append(s \o q, d)
      BY <3>1, ConcatAppend
    <3> QED BY <3>2 DEF s, q
  <2> QED BY <2>1, <2>2 DEF Pending
<1>3. CASE ~Queued(r)
  <2>1. Pending(Hold(r, d)) = <<d>> \o r.queue
    BY <1>3 DEF Hold, Pending, RelayType
  <2>2. r.queue = <<>> /\ r.send = <<>>
    BY <1>3 DEF Queued
  <2> QED BY <2>1, <2>2 DEF Pending
<1> QED BY <1>2, <1>3

(* What a write event leaves of the two parts of the backlog.              *)
LEMMA AfterWriteParts ==
  ASSUME NEW A, NEW B, NEW D, NEW r \in RelayType(A, B, D), NEW res, Leaves(r, res)
  PROVE  /\ r.send # <<>> =>
              AfterWrite(r, res) = [r EXCEPT !.send = <<>>]
         /\ r.send = <<>> =>
              /\ AfterWrite(r, res) = [r EXCEPT !.queue = Tail(@)]
              /\ r.queue # <<>>
              /\ Tail(r.queue) \in Seq(D)
<1>1. r.queue \in Seq(D)
  BY DEF RelayType
<1>2. r.send = <<>> => r.queue # <<>>
  BY <1>1, EmptyFront DEF Leaves, Pending
<1>3. r.send = <<>> => Tail(r.queue) \in Seq(D)
  BY <1>1, <1>2, HeadTailProperties
<1> QED BY <1>2, <1>3 DEF AfterWrite

(* A write event keeps the record well formed.                             *)
LEMMA AfterWriteType ==
  ASSUME NEW A, NEW B, NEW D, NEW r \in RelayType(A, B, D), NEW res
  PROVE  AfterWrite(r, res) \in RelayType(A, B, D)
<1>1. CASE Leaves(r, res) /\ r.send # <<>>
  <2>1. <<>> \in Seq(D) /\ Len(<<>>) <= 1
    OBVIOUS
  <2>2. AfterWrite(r, res) = [r EXCEPT !.send = <<>>]
    BY <1>1, AfterWriteParts
  <2> QED BY <2>1, <2>2 DEF RelayType
<1>2. CASE Leaves(r, res) /\ r.send = <<>>
  <2>1. /\ AfterWrite(r, res) = [r EXCEPT !.queue = Tail(@)]
        /\ Tail(r.queue) \in Seq(D)
    BY <1>2, AfterWriteParts
  <2> QED BY <2>1 DEF RelayType
<1>3. CASE ~Leaves(r, res)
  BY <1>3 DEF AfterWrite
<1> QED BY <1>1, <1>2, <1>3

(* A write event takes the oldest datagram off the backlog or none.        *)
LEMMA AfterWriteTakesHead ==
  ASSUME NEW A, NEW B, NEW D, NEW r \in RelayType(A, B, D), NEW res
  PROVE  Pending(AfterWrite(r, res)) =
           IF Leaves(r, res) THEN Tail(Pending(r)) ELSE Pending(r)
<1>1. r.send \in Seq(D) /\ r.queue \in Seq(D) /\ Len(r.send) <= 1
  BY DEF RelayType
<1>2. CASE Leaves(r, res) /\ r.send # <<>>
  <2>1. AfterWrite(r, res) = [r EXCEPT !.send = <<>>]
    BY <1>2, AfterWriteParts
  <2>2. Pending(AfterWrite(r, res)) = <<>> \o r.queue
    BY <2>1 DEF Pending, RelayType
  <2>3. Tail(r.send \o r.queue) = r.queue
    <3> DEFINE s == r.send
               q == r.queue
    <3> HIDE DEF s, q
    <3>1. s \in Seq(D) /\ q \in Seq(D) /\ Len(s) <= 1 /\ s # <<>>
      BY <1>1, <1>2 DEF s, q
    <3>2. Len(s) = 1
      BY <3>1, LenOne
    <3>3. Tail(s \o q) = q
      BY <3>1, <3>2, TailBehindOne
    <3> QED BY <3>3 DEF s, q
  <2> QED BY <1>1, <1>2, <2>2, <2>3, EmptyFront DEF Pending
<1>3. CASE Leaves(r, res) /\ r.send = <<>>
  <2>1. /\ AfterWrite(r, res) = [r EXCEPT !.queue = Tail(@)]
        /\ Tail(r.queue) \in Seq(D)
    BY <1>3, AfterWriteParts
  <2>2. Pending(AfterWrite(r, res)) = <<>> \o Tail(r.queue)
    BY <1>3, <2>1 DEF Pending, RelayType
  <2>3. Pending(r) = r.queue
    BY <1>1, <1>3, EmptyFront DEF Pending
  <2> QED BY <1>3, <2>1, <2>2, <2>3, EmptyFront
<1>4. CASE ~Leaves(r, res)
  BY <1>4 DEF AfterWrite
<1> QED BY <1>2, <1>3, <1>4

(* A read event touches only the received datagram and the peer.           *)
LEMMA AfterReadFrame ==
  ASSUME NEW A, NEW B, NEW D, NEW r \in RelayType(A, B, D), NEW d \in B, NEW src \in A, NEW res
  PROVE  LET n == AfterRead(r, d, src, res)
         IN  /\ n \in RelayType(A, B, D)
             /\ n.send = r.send /\ n.queue = r.queue
             /\ n.sendBufferSize = r.sendBufferSize
             /\ n.dynamic = r.dynamic
             /\ n.remote = r.remote \/ (r.dynamic /\ n.remote = src)
BY DEF AfterRead, RelayType

(* The backlog is a sequence of datagrams.                                 *)
LEMMA PendingType ==
  ASSUME NEW A, NEW B, NEW D, NEW r \in RelayType(A, B, D)
  PROVE  /\ Pending(r) \in Seq(D)
         /\ Len(Pending(r)) = Len(r.send) + Len(r.queue)
         /\ Len(Pending(r)) \in Nat
<1>1. r.send \in Seq(D) /\ r.queue \in Seq(D)
  BY DEF RelayType
<1>2. Pending(r) \in Seq(D) /\ Len(Pending(r)) = Len(r.send) + Len(r.queue)
  BY <1>1, ConcatProperties DEF Pending
<1> QED BY <1>2, LenProperties

(* relay_enqueue() makes the backlog longer by at most one datagram, and   *)
(* only when the kernel refuses it.                                        *)
LEMMA EnqueueLength ==
  ASSUME NEW A, NEW B, NEW D, \A x \in D : x.len \in Nat,
         NEW r \in RelayType(A, B, D), NEW d \in D, NEW res
  PROVE  Len(Pending(Enqueue(r, d, res))) <=
           Len(Pending(r)) + IF Offers(r) /\ res = "again" THEN 1 ELSE 0
<1>1. CASE ~(Offers(r) /\ res = "again")
  BY <1>1, PendingType DEF Enqueue
<1>2. CASE Offers(r) /\ res = "again"
  <2>1. r.queue \in Seq(D) /\ Hold(r, d) \in RelayType(A, B, D)
    BY HoldType DEF RelayType
  <2>2. CASE Queued(r)
    <3>1. Hold(r, d).send = r.send /\ Hold(r, d).queue = Append(r.queue, d)
      BY <2>2 DEF Hold, RelayType
    <3>2. Len(Append(r.queue, d)) = Len(r.queue) + 1
      BY <2>1, AppendProperties
    <3>3. /\ Len(Pending(Hold(r, d))) = Len(Hold(r, d).send) + Len(Hold(r, d).queue)
          /\ Len(Hold(r, d).send) = Len(r.send)
          /\ Len(Hold(r, d).queue) = Len(r.queue) + 1
      BY <2>1, <3>1, <3>2, PendingType
    <3>4. Len(Pending(r)) = Len(r.send) + Len(r.queue) /\ Len(r.send) \in Nat /\ Len(r.queue) \in Nat
      <4>1. r.send \in Seq(D) /\ r.queue \in Seq(D)
        BY DEF RelayType
      <4> QED BY <4>1, PendingType, LenProperties
    <3>5. Enqueue(r, d, res) = Hold(r, d)
      BY <1>2 DEF Enqueue
    <3>6. Len(Pending(Hold(r, d))) = Len(Pending(r)) + 1
      <4> DEFINE a == Len(r.send)
                 b == Len(r.queue)
      <4>1. /\ Len(Pending(Hold(r, d))) = a + (b + 1)
            /\ Len(Pending(r)) = a + b
            /\ a \in Nat /\ b \in Nat
        BY <3>3, <3>4
      <4> HIDE DEF a, b
      <4> QED BY <4>1
    <3>7. Len(Pending(r)) \in Nat
      BY PendingType
    <3> QED BY <1>2, <3>5, <3>6, <3>7
  <2>3. CASE ~Queued(r)
    <3>1. Hold(r, d).queue = <<>> /\ Len(Hold(r, d).send) <= 1 /\ Hold(r, d).send \in Seq(D)
      BY <2>1, <2>3 DEF Hold, RelayType, Queued
    <3>2. Pending(Hold(r, d)) = Hold(r, d).send
      BY <3>1, ConcatEmptySeq DEF Pending
    <3> QED BY <1>2, <3>1, <3>2, PendingType, LenProperties DEF Enqueue
  <2> QED BY <2>2, <2>3
<1> QED BY <1>1, <1>2

(* A datagram that leaves shortens the backlog by one.                     *)
LEMMA AfterWriteLength ==
  ASSUME NEW A, NEW B, NEW D, NEW r \in RelayType(A, B, D), NEW res
  PROVE  /\ Len(Pending(AfterWrite(r, res))) =
              Len(Pending(r)) - IF Leaves(r, res) THEN 1 ELSE 0
         /\ Leaves(r, res) => Len(Pending(r)) >= 1
<1>1. CASE Leaves(r, res)
  <2>1. Pending(r) # <<>> /\ Pending(r) \in Seq(D)
    BY <1>1, PendingType DEF Leaves
  <2>2. Len(Tail(Pending(r))) = Len(Pending(r)) - 1
    BY <2>1, HeadTailProperties
  <2>3. Len(Pending(r)) >= 1
    BY <2>1, EmptySeq
  <2> QED BY <1>1, <2>2, <2>3, AfterWriteTakesHead
<1>2. CASE ~Leaves(r, res)
  BY <1>2, PendingType DEF AfterWrite
<1> QED BY <1>1, <1>2

-----------------------------------------------------------------------------

(* What relay_enqueue() keeps of a relay whose buffer holds its datagram.  *)
Fits(r) == \A i \in DOMAIN r.send : r.send[i].len <= r.sendBufferSize
Addressed(r) == Queued(r) => r.remote # NoAddr

(* relay_enqueue() keeps what the backlog relies on.                       *)
LEMMA EnqueueKeeps ==
  ASSUME NEW A, NEW B, NEW D, \A x \in D : x.len \in Nat,
         NEW r \in RelayType(A, B, D), NEW d \in D, NEW res, Fits(r), Addressed(r)
  PROVE  LET n == Enqueue(r, d, res)
         IN  /\ n \in RelayType(A, B, D) /\ Fits(n) /\ Addressed(n)
             /\ n.remote = r.remote /\ n.dynamic = r.dynamic
<1>1. CASE ~(Offers(r) /\ res = "again")
  BY <1>1 DEF Enqueue
<1>2. CASE Offers(r) /\ res = "again"
  <2>1. Hold(r, d) \in RelayType(A, B, D)
    BY HoldType
  <2>2. Hold(r, d).remote = r.remote /\ Hold(r, d).dynamic = r.dynamic
    BY DEF Hold, RelayType
  <2>3. Fits(Hold(r, d))
    <3>1. CASE Queued(r)
      BY <3>1 DEF Fits, Hold, RelayType
    <3>2. CASE ~Queued(r)
      <4>1. d.len <= Grow(r.sendBufferSize, d.len)
        BY GrowFits DEF RelayType
      <4>2. /\ Hold(r, d).send = IF d.len = 0 THEN <<>> ELSE <<d>>
            /\ Hold(r, d).sendBufferSize = Grow(r.sendBufferSize, d.len)
        BY <3>2 DEF Hold, RelayType
      <4> QED BY <4>1, <4>2 DEF Fits
    <3> QED BY <3>1, <3>2
  <2> QED BY <1>2, <2>1, <2>2, <2>3 DEF Enqueue, Addressed, Offers
<1> QED BY <1>1, <1>2

(* The write of relay_handle() does.                                       *)
LEMMA AfterWriteKeeps ==
  ASSUME NEW A, NEW B, NEW D, NEW r \in RelayType(A, B, D), NEW res, Fits(r), Addressed(r)
  PROVE  LET n == AfterWrite(r, res)
         IN  /\ n \in RelayType(A, B, D) /\ Fits(n) /\ Addressed(n)
             /\ n.remote = r.remote /\ n.dynamic = r.dynamic
<1>1. AfterWrite(r, res) \in RelayType(A, B, D)
  BY AfterWriteType
<1>2. CASE Leaves(r, res) /\ r.send # <<>>
  <2>1. AfterWrite(r, res) = [r EXCEPT !.send = <<>>]
    BY <1>2, AfterWriteParts
  <2> QED BY <1>1, <1>2, <2>1 DEF Fits, Addressed, Queued, RelayType
<1>3. CASE Leaves(r, res) /\ r.send = <<>>
  <2>1. AfterWrite(r, res) = [r EXCEPT !.queue = Tail(@)] /\ r.queue # <<>>
    BY <1>3, AfterWriteParts
  <2> QED BY <1>1, <1>3, <2>1 DEF Fits, Addressed, Queued, RelayType
<1>4. CASE ~Leaves(r, res)
  BY <1>4 DEF AfterWrite
<1> QED BY <1>2, <1>3, <1>4

(* Its read does, and a configured peer stays.                             *)
LEMMA AfterReadKeeps ==
  ASSUME NEW A, NEW B, NEW D, NEW r \in RelayType(A, B, D), NEW d \in B,
         NEW src \in A, src # NoAddr, NEW res, Fits(r), Addressed(r)
  PROVE  LET n == AfterRead(r, d, src, res)
         IN  /\ n \in RelayType(A, B, D) /\ Fits(n) /\ Addressed(n)
             /\ n.dynamic = r.dynamic /\ (~r.dynamic => n.remote = r.remote)
BY AfterReadFrame DEF Fits, Addressed, Queued

-----------------------------------------------------------------------------

(* relay_enqueue() keeps the record well formed and does not touch what    *)
(* was received.                                                           *)
LEMMA EnqueueType ==
  ASSUME NEW A, NEW B, NEW D, \A x \in D : x.len \in Nat,
         NEW r \in RelayType(A, B, D), NEW d \in D, NEW res
  PROVE  /\ Enqueue(r, d, res) \in RelayType(A, B, D)
         /\ Enqueue(r, d, res).recv = r.recv
<1>1. Hold(r, d) \in RelayType(A, B, D)
  BY HoldType
<1>2. Hold(r, d).recv = r.recv
  BY DEF Hold, RelayType
<1> QED BY <1>1, <1>2 DEF Enqueue

(* relay_receive() empties the receive buffer.                             *)
LEMMA AfterReceiveType ==
  ASSUME NEW A, NEW B, NEW D, NEW r \in RelayType(A, B, D)
  PROVE  /\ AfterReceive(r) \in RelayType(A, B, D)
         /\ AfterReceive(r).recv = NoDatagram
         /\ Pending(AfterReceive(r)) = Pending(r)
BY DEF AfterReceive, RelayType, Pending

(* A write event does not touch what was received.                         *)
LEMMA AfterWriteRecv ==
  ASSUME NEW A, NEW B, NEW D, NEW r \in RelayType(A, B, D), NEW res
  PROVE  AfterWrite(r, res).recv = r.recv
<1>1. CASE Leaves(r, res) /\ r.send # <<>>
  <2>1. AfterWrite(r, res) = [r EXCEPT !.send = <<>>]
    BY <1>1, AfterWriteParts
  <2> QED BY <2>1 DEF RelayType
<1>2. CASE Leaves(r, res) /\ r.send = <<>>
  <2>1. AfterWrite(r, res) = [r EXCEPT !.queue = Tail(@)]
    BY <1>2, AfterWriteParts
  <2> QED BY <2>1 DEF RelayType
<1>3. CASE ~Leaves(r, res)
  BY <1>3 DEF AfterWrite
<1> QED BY <1>1, <1>2, <1>3

ReadsFrom(B, d, rres) == rres = "data" => d \in B
GotFrom(d, rres)      == IF rres = "data" /\ d.len > 0 THEN d ELSE NoDatagram

(* A relay_handle() that finds room reads one datagram or none, and works  *)
(* off one datagram of the backlog or none.                                *)
LEMMA AfterHandleAll ==
  ASSUME NEW A, NEW B, NEW D, NEW r \in RelayType(A, B, D), r.recv = NoDatagram,
         NEW d, NEW src \in A, NEW rres, NEW wres, ReadsFrom(B, d, rres)
  PROVE  /\ AfterHandle(r, d, src, rres, wres) \in RelayType(A, B, D)
         /\ AfterHandle(r, d, src, rres, wres).recv = GotFrom(d, rres)
         /\ Pending(AfterHandle(r, d, src, rres, wres)) =
              IF HandleLeaves(r, d, rres, wres) THEN Tail(Pending(r)) ELSE Pending(r)
<1> DEFINE m == AfterRead(r, d, src, rres)
           n == AfterHandle(r, d, src, rres, wres)
<1>1. /\ m \in RelayType(A, B, D)
      /\ m.send = r.send /\ m.queue = r.queue
      /\ m.recv = GotFrom(d, rres)
  <2>1. CASE rres = "data"
    <3>1. d \in B
      BY <2>1 DEF ReadsFrom
    <3>2. m \in RelayType(A, B, D) /\ m.send = r.send /\ m.queue = r.queue
      BY <3>1, AfterReadFrame
    <3>3. m.recv = GotFrom(d, rres)
      BY <2>1 DEF AfterRead, RelayType, GotFrom
    <3> QED BY <3>2, <3>3
  <2>2. CASE rres # "data"
    BY <2>2 DEF AfterRead, GotFrom
  <2> QED BY <2>1, <2>2
<1>2. n = IF ReadFails(d, rres) THEN m ELSE AfterWrite(m, wres)
  BY DEF AfterHandle
<1> HIDE DEF m, n
<1>3. Pending(m) = Pending(r) /\ (Leaves(m, wres) <=> Leaves(r, wres))
  BY <1>1 DEF Pending, Leaves, WriteFails
<1>4. CASE ReadFails(d, rres)
  BY <1>1, <1>2, <1>3, <1>4 DEF n, HandleLeaves
<1>5. CASE ~ReadFails(d, rres)
  <2>1. n = AfterWrite(m, wres)
    BY <1>2, <1>5
  <2>2. /\ n \in RelayType(A, B, D) /\ n.recv = m.recv
        /\ Pending(n) = IF Leaves(m, wres) THEN Tail(Pending(m)) ELSE Pending(m)
    BY <1>1, <2>1, AfterWriteType, AfterWriteRecv, AfterWriteTakesHead
  <2> QED BY <1>1, <1>3, <1>5, <2>2 DEF n, HandleLeaves
<1> QED BY <1>4, <1>5

(* These facts one by one.                                                 *)
LEMMA AfterHandlePending ==
  \A A, B, D : \A r \in RelayType(A, B, D) : \A d, rres, wres : \A src \in A :
    r.recv = NoDatagram /\ ReadsFrom(B, d, rres) =>
      Pending(AfterHandle(r, d, src, rres, wres)) =
        IF HandleLeaves(r, d, rres, wres) THEN Tail(Pending(r)) ELSE Pending(r)
<1> SUFFICES ASSUME NEW A, NEW B, NEW D, NEW r \in RelayType(A, B, D), r.recv = NoDatagram,
                    NEW d, NEW src \in A, NEW rres, NEW wres, ReadsFrom(B, d, rres)
             PROVE  Pending(AfterHandle(r, d, src, rres, wres)) =
                      IF HandleLeaves(r, d, rres, wres) THEN Tail(Pending(r)) ELSE Pending(r)
  OBVIOUS
<1>1. /\ AfterHandle(r, d, src, rres, wres) \in RelayType(A, B, D)
      /\ AfterHandle(r, d, src, rres, wres).recv = GotFrom(d, rres)
      /\ Pending(AfterHandle(r, d, src, rres, wres)) =
           IF HandleLeaves(r, d, rres, wres) THEN Tail(Pending(r)) ELSE Pending(r)
  BY AfterHandleAll
<1> QED BY <1>1

(* relay_handle() keeps the record well formed.                            *)
LEMMA AfterHandleType ==
  ASSUME NEW A, NEW B, NEW D, NEW r \in RelayType(A, B, D), r.recv = NoDatagram,
         NEW d, NEW src \in A, NEW rres, NEW wres, rres = "data" => d \in B
  PROVE  AfterHandle(r, d, src, rres, wres) \in RelayType(A, B, D)
BY AfterHandleAll DEF ReadsFrom, GotFrom

(* What is in the receive buffer after relay_handle(): what was read,      *)
(* unless it is empty.                                                     *)
LEMMA AfterHandleRecv ==
  ASSUME NEW A, NEW B, NEW D, NEW r \in RelayType(A, B, D), r.recv = NoDatagram,
         NEW d, NEW src \in A, NEW rres, NEW wres, rres = "data" => d \in B
  PROVE  AfterHandle(r, d, src, rres, wres).recv =
           IF rres = "data" /\ d.len > 0 THEN d ELSE NoDatagram
BY AfterHandleAll DEF ReadsFrom, GotFrom

(* relay_enqueue() puts at most the datagram it is given into the backlog, *)
(* and nothing unless the kernel refuses it.                               *)
LEMMA EnqueueOccurrences ==
  ASSUME NEW A, NEW B, NEW D, NEW r \in RelayType(A, B, D), NEW d \in D, NEW res, NEW x
  PROVE  Occurrences(x, Pending(Enqueue(r, d, res))) <=
           Occurrences(x, Pending(r)) + IF res = "again" /\ d = x THEN 1 ELSE 0
<1>1. Pending(r) \in Seq(D) /\ Occurrences(x, Pending(r)) \in Nat
  BY PendingType, PlacesFinite
<1>2. CASE ~(Offers(r) /\ res = "again")
  BY <1>1, <1>2 DEF Enqueue
<1>3. CASE Offers(r) /\ res = "again" /\ (d.len # 0 \/ Queued(r))
  <2>1. Pending(Enqueue(r, d, res)) = Append(Pending(r), d)
    BY <1>3, HoldAppends DEF Enqueue
  <2>2. Occurrences(x, Append(Pending(r), d)) = Occurrences(x, Pending(r)) + IF d = x THEN 1 ELSE 0
    BY <1>1, OccurrencesAppend
  <2> DEFINE a == Occurrences(x, Pending(r))
             b == Occurrences(x, Pending(Enqueue(r, d, res)))
  <2>3. b = a + (IF d = x THEN 1 ELSE 0) /\ a \in Nat
    BY <1>1, <2>1, <2>2
  <2> HIDE DEF a, b
  <2>4. b <= a + IF res = "again" /\ d = x THEN 1 ELSE 0
    BY <1>3, <2>3
  <2> QED BY <2>4 DEF a, b
<1>4. CASE Offers(r) /\ res = "again" /\ d.len = 0 /\ ~Queued(r)
  <2>1. Enqueue(r, d, res).send = <<>> /\ Enqueue(r, d, res).queue = r.queue /\ r.send = <<>>
    BY <1>4 DEF Enqueue, Hold, RelayType, Queued
  <2>2. Pending(Enqueue(r, d, res)) = Pending(r)
    BY <2>1 DEF Pending
  <2> QED BY <1>1, <1>4, <2>2
<1> QED BY <1>2, <1>3, <1>4
=============================================================================
