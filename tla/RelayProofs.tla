----------------------------- MODULE RelayProofs -----------------------------
(***************************************************************************)
(* Proofs about Relay: its invariants hold for every set of peers, every   *)
(* set of lengths and every number of calls.                               *)
(***************************************************************************)
EXTENDS Relay, RelayLemmas

(* Datagrams have lengths.                                                 *)
LEMMA Measured == \A x \in Datagram : x.len \in Nat
  BY LengthsAssumption DEF Datagram

-----------------------------------------------------------------------------

(* The backlog is never longer than what was held back and has not left:   *)
(* without it `left` might run past the end of `held`.                     *)
Accounted == Len(Pending(relay)) <= Len(held) - left

(* The inductive invariant behind the safety properties that concern the   *)
(* relay_t alone: whether the peer is learnt is decided at its creation.   *)
IInv == /\ TypeOK
        /\ Fits(relay)
        /\ Addressed(relay)
        /\ relay.dynamic <=> configured = NoAddr
        /\ ~relay.dynamic => relay.remote = configured
        /\ Accounted

(* new_relay() establishes the invariant.                                  *)
LEMMA IInvInit == Init => IInv
<1> SUFFICES ASSUME Init PROVE IInv
  OBVIOUS
<1>1. relay \in OurRelay /\ configured \in Peers \cup {NoAddr}
  BY NewRelayType DEF Init, OurRelay
<1>2. TypeOK
  BY <1>1, MaxAssumption DEF Init, TypeOK
<1>3. Accounted
  <2>1. relay.send = <<>> /\ relay.queue = <<>> /\ held = <<>> /\ left = 0
    BY DEF Init, NewRelay
  <2>2. Len(Pending(relay)) = 0
    BY <2>1 DEF Pending
  <2> QED BY <2>1, <2>2 DEF Accounted
<1>4. /\ relay.send = <<>> /\ relay.queue = <<>>
      /\ relay.remote = configured /\ relay.dynamic = (configured = NoAddr)
  BY DEF Init, NewRelay
<1>5. Fits(relay) /\ Addressed(relay)
  BY <1>4 DEF Fits, Addressed, Queued
<1> QED BY <1>2, <1>3, <1>4, <1>5 DEF IInv

(* relay_enqueue() keeps the invariant.                                    *)
LEMMA IInvEnqueue ==
  ASSUME IInv, NEW len \in Lengths, NEW res \in SendResults, EnqueueCall(len, res)
  PROVE  IInv'
<1> DEFINE d == [id |-> enqueued + 1, len |-> len]
<1>1. d \in Datagram /\ enqueued' \in 0 .. MaxEnqueues
  BY MaxAssumption DEF EnqueueCall, IInv, TypeOK, Datagram
<1>2. relay' = Enqueue(relay, d, res) /\ relay \in OurRelay
  BY DEF EnqueueCall, IInv, TypeOK
<1>3. held' = IF Offers(relay) /\ res = "again" THEN Append(held, d) ELSE held
  BY DEF EnqueueCall
<1> HIDE DEF d
<1>4. /\ relay' \in OurRelay /\ Fits(relay') /\ Addressed(relay')
      /\ relay'.remote = relay.remote /\ relay'.dynamic = relay.dynamic
  BY <1>1, <1>2, EnqueueKeeps, Measured DEF IInv, OurRelay
<1>5. held \in Seq(Datagram) /\ Len(held) \in Nat /\ left \in 0 .. Len(held) /\ left' = left
  BY LenProperties DEF IInv, TypeOK, EnqueueCall
<1>6. /\ held' \in Seq(Datagram)
      /\ Len(held') = Len(held) + IF Offers(relay) /\ res = "again" THEN 1 ELSE 0
  BY <1>1, <1>3, <1>5, AppendProperties
<1>7. Accounted'
  <2>1. Len(Pending(relay')) <= Len(Pending(relay)) + IF Offers(relay) /\ res = "again" THEN 1 ELSE 0
    BY <1>1, <1>2, EnqueueLength, Measured DEF OurRelay
  <2>2. Len(Pending(relay)) \in Nat /\ Len(Pending(relay')) \in Nat
    BY <1>2, <1>4, PendingType
  <2>3. Len(Pending(relay)) <= Len(held) - left
    BY DEF IInv, Accounted
  <2>4. Len(Pending(relay')) <= Len(held') - left'
    BY <1>5, <1>6, <2>1, <2>2, <2>3
  <2> QED BY <2>4 DEF Accounted, Pending
<1>8. TypeOK'
  BY <1>1, <1>4, <1>5, <1>6 DEF EnqueueCall, IInv, TypeOK
<1>9. Fits(relay)' /\ Addressed(relay)'
  BY <1>4 DEF Fits, Addressed, Queued
<1> QED BY <1>4, <1>7, <1>8, <1>9 DEF EnqueueCall, IInv

(* relay_handle() reads, then writes: the read changes nothing of the      *)
(* backlog, so that the write finds it as it was.                          *)
LEMMA HandleParts ==
  ASSUME NEW r \in OurRelay, NEW d \in Received, NEW src \in Peers, NEW rres, NEW wres
  PROVE  LET n == AfterRead(r, d, src, rres)
         IN  /\ AfterHandle(r, d, src, rres, wres) =
                  IF ReadFails(d, rres) THEN n ELSE AfterWrite(n, wres)
             /\ HandleLeaves(r, d, rres, wres) <=>
                  ~ReadFails(d, rres) /\ Leaves(n, wres)
             /\ Pending(n) = Pending(r)
<1> DEFINE n == AfterRead(r, d, src, rres)
<1>1. n.send = r.send /\ n.queue = r.queue
  BY AfterReadFrame DEF OurRelay
<1> HIDE DEF n
<1>2. Pending(n) = Pending(r)
  BY <1>1 DEF Pending
<1>3. Leaves(n, wres) <=> Leaves(r, wres)
  BY <1>2 DEF Leaves, WriteFails
<1> QED BY <1>2, <1>3 DEF n, AfterHandle, HandleLeaves

(* relay_handle() keeps the invariant, whichever events it sees.           *)
LEMMA IInvHandle ==
  ASSUME IInv, NEW d \in Received, NEW src \in Peers, NEW rres, NEW wres,
         HandleCall(d, src, rres, wres)
  PROVE  IInv'
<1> DEFINE r == AfterRead(relay, d, src, rres)
           flush == ~ReadFails(d, rres)
<1>1. /\ relay' = IF flush THEN AfterWrite(r, wres) ELSE r
      /\ left' = left + IF flush /\ Leaves(r, wres) THEN 1 ELSE 0
      /\ status' \in {"open", "failed"}
      /\ UNCHANGED <<configured, enqueued, held>>
      /\ Pending(r) = Pending(relay)
  BY HandleParts DEF HandleCall, IInv, TypeOK
<1>2. /\ r \in OurRelay /\ Fits(r) /\ Addressed(r)
      /\ r.dynamic = relay.dynamic /\ (~relay.dynamic => r.remote = relay.remote)
  BY AfterReadKeeps, PeersAssumption DEF IInv, TypeOK, OurRelay
<1>3. Pending(r) = Pending(relay)
  BY <1>1
<1> HIDE DEF r, flush
<1>4. /\ relay' \in OurRelay /\ Fits(relay') /\ Addressed(relay')
      /\ relay'.dynamic = relay.dynamic /\ (~relay.dynamic => relay'.remote = relay.remote)
  BY <1>1, <1>2, AfterWriteKeeps DEF OurRelay
<1>5. held \in Seq(Datagram) /\ Len(held) \in Nat /\ left \in 0 .. Len(held)
  BY LenProperties DEF IInv, TypeOK
<1>6. left' \in 0 .. Len(held) /\ Len(Pending(relay')) <= Len(held) - left'
  <2>1. Len(Pending(r)) <= Len(held) - left /\ Len(Pending(r)) \in Nat
    BY <1>2, <1>3, PendingType DEF IInv, Accounted
  <2>2. /\ Len(Pending(AfterWrite(r, wres))) =
             Len(Pending(r)) - IF Leaves(r, wres) THEN 1 ELSE 0
        /\ Leaves(r, wres) => Len(Pending(r)) >= 1
    BY <1>2, AfterWriteLength DEF OurRelay
  <2>3. CASE flush /\ Leaves(r, wres)
    BY <1>1, <1>5, <2>1, <2>2, <2>3
  <2>4. CASE flush /\ ~Leaves(r, wres)
    BY <1>1, <1>5, <2>1, <2>2, <2>4
  <2>5. CASE ~flush
    BY <1>1, <1>5, <2>1, <2>5
  <2> QED BY <2>3, <2>4, <2>5
<1>7. TypeOK'
  BY <1>1, <1>4, <1>6 DEF IInv, TypeOK
<1>8. Fits(relay)' /\ Addressed(relay)' /\ Accounted'
  BY <1>1, <1>4, <1>6 DEF Fits, Addressed, Queued, Accounted, Pending
<1> QED BY <1>1, <1>4, <1>7, <1>8 DEF IInv

(* Every call keeps it.                                                    *)
LEMMA IInvNext == IInv /\ [Next]_vars => IInv'
<1> SUFFICES ASSUME IInv, [Next]_vars PROVE IInv'
  OBVIOUS
<1>1. ASSUME NEW len \in Lengths, NEW res \in SendResults, EnqueueCall(len, res)
      PROVE  IInv'
  BY <1>1, IInvEnqueue
<1>2. ASSUME NEW d \in Received, NEW p \in Peers, NEW rres \in RecvResults,
             NEW wres \in SendResults, HandleCall(d, p, rres, wres)
      PROVE  IInv'
  BY <1>2, IInvHandle
<1>3. CASE ReceiveCall
  <2>1. /\ relay' \in OurRelay /\ relay'.send = relay.send /\ relay'.queue = relay.queue
        /\ relay'.sendBufferSize = relay.sendBufferSize
        /\ relay'.remote = relay.remote /\ relay'.dynamic = relay.dynamic
    BY <1>3 DEF ReceiveCall, AfterReceive, IInv, TypeOK, RelayType, OurRelay
  <2>2. UNCHANGED <<configured, status, enqueued, held, left>>
    BY <1>3 DEF ReceiveCall
  <2> QED
    BY <2>1, <2>2 DEF IInv, TypeOK, Fits, Addressed, Queued, Accounted, Pending
<1>4. CASE FreeCall
  <2>1. /\ relay' \in OurRelay /\ relay'.send = <<>> /\ relay'.queue = <<>>
        /\ relay'.remote = relay.remote /\ relay'.dynamic = relay.dynamic
    <3>1. <<>> \in Seq(Datagram) /\ Len(<<>>) <= 1
      OBVIOUS
    <3> QED BY <1>4, <3>1 DEF FreeCall, IInv, TypeOK, RelayType, OurRelay
  <2>2. UNCHANGED <<configured, enqueued, held, left>> /\ status' = "freed"
    BY <1>4 DEF FreeCall
  <2>3. TypeOK'
    BY <2>1, <2>2 DEF IInv, TypeOK
  <2>4. Accounted'
    <3>1. Len(Pending(relay')) = 0
      BY <2>1 DEF Pending
    <3>2. Len(held) \in Nat /\ left \in 0 .. Len(held)
      BY LenProperties DEF IInv, TypeOK
    <3> QED BY <2>2, <3>1, <3>2 DEF Accounted, Pending
  <2>5. Fits(relay)' /\ Addressed(relay)'
    BY <2>1 DEF Fits, Addressed, Queued
  <2> QED BY <2>1, <2>2, <2>3, <2>4, <2>5 DEF IInv
<1>5. CASE UNCHANGED vars
  BY <1>5 DEF vars, IInv, TypeOK, Fits, Addressed, Queued, Accounted, Pending
<1> QED BY <1>1, <1>2, <1>3, <1>4, <1>5 DEF Next

(* The invariant holds in every state.                                     *)
LEMMA Inductive == Spec => []IInv
<1> QED BY IInvInit, IInvNext, PTL DEF Spec

(* Type correctness of the relay, whatever the peers, lengths and bounds.  *)
THEOREM TypeCorrect == Spec => []TypeOK
<1>1. IInv => TypeOK
  BY DEF IInv
<1> QED BY <1>1, Inductive, PTL

(* relay_enqueue() never copies a datagram into a buffer too small for it. *)
THEOREM BufferAlwaysFits == Spec => []BufferFits
<1>1. IInv => BufferFits
  BY DEF IInv, Fits, BufferFits
<1> QED BY <1>1, Inductive, PTL

(* The backlog only exists for a known peer, and a configured peer stays.  *)
THEOREM PeerAlwaysKnown == Spec => []PeerKnown
<1>1. IInv => PeerKnown
  BY DEF IInv, Addressed, PeerKnown
<1> QED BY <1>1, Inductive, PTL

-----------------------------------------------------------------------------

(* relay_enqueue() keeps the order of what was held back.                  *)
LEMMA OrderEnqueue ==
  ASSUME 0 \notin Lengths, IInv, HeldInOrder,
         NEW len \in Lengths, NEW res \in SendResults, EnqueueCall(len, res)
  PROVE  HeldInOrder'
<1> DEFINE d == [id |-> enqueued + 1, len |-> len]
<1>1. d \in Datagram /\ d.len # 0
  BY MaxAssumption DEF EnqueueCall, IInv, TypeOK, Datagram
<1>2. /\ relay' = Enqueue(relay, d, res) /\ left' = left /\ status # "freed"
      /\ held' = IF Offers(relay) /\ res = "again" THEN Append(held, d) ELSE held
  BY DEF EnqueueCall
<1> HIDE DEF d
<1>3. /\ relay \in OurRelay /\ held \in Seq(Datagram) /\ left \in 0 .. Len(held)
      /\ Pending(relay) = SubSeq(held, left + 1, Len(held))
  BY <1>2 DEF IInv, TypeOK, HeldInOrder
<1>4. CASE Offers(relay) /\ res = "again"
  <2>1. Pending(relay') = Append(Pending(relay), d)
    <3>1. relay' = Hold(relay, d)
      BY <1>2, <1>4 DEF Enqueue
    <3>2. Pending(Hold(relay, d)) = Append(Pending(relay), d)
      <4>1. relay \in RelayType(Peers \cup {NoAddr}, Received, Datagram)
        BY <1>3 DEF OurRelay
      <4> QED BY <1>1, <4>1, HoldAppends
    <3> QED BY <3>1, <3>2
  <2>2. SubSeq(held', left' + 1, Len(held')) = Append(SubSeq(held, left + 1, Len(held)), d)
    BY <1>1, <1>2, <1>3, <1>4, RestOfAppend
  <2>3. Pending(relay') = SubSeq(held', left' + 1, Len(held'))
    BY <1>3, <2>1, <2>2
  <2> QED BY <2>3 DEF HeldInOrder, Pending
<1>5. CASE ~(Offers(relay) /\ res = "again")
  <2>1. Pending(relay') = SubSeq(held', left' + 1, Len(held'))
    BY <1>2, <1>3, <1>5 DEF Enqueue
  <2> QED BY <2>1 DEF HeldInOrder, Pending
<1> QED BY <1>4, <1>5

(* relay_handle() sends from the front of what was held back.              *)
LEMMA OrderHandle ==
  ASSUME IInv, HeldInOrder, NEW d \in Received, NEW src \in Peers, NEW rres, NEW wres,
         HandleCall(d, src, rres, wres)
  PROVE  HeldInOrder'
<1> DEFINE r == AfterRead(relay, d, src, rres)
           flush == ~ReadFails(d, rres)
<1>1. /\ relay' = IF flush THEN AfterWrite(r, wres) ELSE r
      /\ left' = left + IF flush /\ Leaves(r, wres) THEN 1 ELSE 0
      /\ status # "freed" /\ held' = held
      /\ Pending(r) = Pending(relay)
  BY HandleParts DEF HandleCall, IInv, TypeOK
<1>2. r \in OurRelay
  BY AfterReadFrame DEF IInv, TypeOK, OurRelay
<1>3. Pending(r) = Pending(relay)
  BY <1>1
<1> HIDE DEF r, flush
<1>4. /\ held \in Seq(Datagram) /\ left \in 0 .. Len(held)
      /\ Pending(r) = SubSeq(held, left + 1, Len(held))
  BY <1>1, <1>3 DEF IInv, TypeOK, HeldInOrder
<1>5. CASE flush /\ Leaves(r, wres)
  <2>1. Pending(relay') = Tail(Pending(r)) /\ Pending(r) # <<>>
    BY <1>1, <1>2, <1>5, AfterWriteTakesHead DEF Leaves, OurRelay
  <2>2. Tail(SubSeq(held, left + 1, Len(held))) = SubSeq(held, left + 2, Len(held))
    BY <1>4, <2>1, RestOfRest
  <2>3. left' + 1 = left + 2
    BY <1>1, <1>4, <1>5
  <2>4. Pending(relay') = SubSeq(held', left' + 1, Len(held'))
    BY <1>1, <1>4, <2>1, <2>2, <2>3
  <2> QED BY <2>4 DEF HeldInOrder, Pending
<1>6. CASE ~(flush /\ Leaves(r, wres))
  <2>1. Pending(relay') = Pending(r)
    BY <1>1, <1>2, <1>6, AfterWriteTakesHead DEF OurRelay
  <2>2. left' = left
    BY <1>1, <1>4, <1>6
  <2>3. Pending(relay') = SubSeq(held', left' + 1, Len(held'))
    BY <1>1, <1>4, <2>1, <2>2
  <2> QED BY <2>3 DEF HeldInOrder, Pending
<1> QED BY <1>5, <1>6

(* Every call keeps the order, if no datagram is empty.                    *)
LEMMA OrderNext ==
  ASSUME 0 \notin Lengths
  PROVE  IInv /\ HeldInOrder /\ [Next]_vars => HeldInOrder'
<1> SUFFICES ASSUME IInv, HeldInOrder, [Next]_vars PROVE HeldInOrder'
  OBVIOUS
<1>1. ASSUME NEW len \in Lengths, NEW res \in SendResults, EnqueueCall(len, res)
      PROVE  HeldInOrder'
  BY <1>1, OrderEnqueue
<1>2. ASSUME NEW d \in Received, NEW p \in Peers, NEW rres \in RecvResults,
             NEW wres \in SendResults, HandleCall(d, p, rres, wres)
      PROVE  HeldInOrder'
  BY <1>2, OrderHandle
<1>3. CASE ReceiveCall
  BY <1>3 DEF ReceiveCall, AfterReceive, HeldInOrder, Pending, IInv, TypeOK, RelayType, OurRelay
<1>4. CASE FreeCall
  BY <1>4 DEF FreeCall, HeldInOrder
<1>5. CASE UNCHANGED vars
  BY <1>5 DEF vars, HeldInOrder, Pending
<1> QED BY <1>1, <1>2, <1>3, <1>4, <1>5 DEF Next

(* Without empty datagrams, what the kernel refused waits in the backlog,  *)
(* whole and in order, until it leaves.                                    *)
THEOREM HeldStaysInOrder ==
  ASSUME 0 \notin Lengths
  PROVE  Spec => []HeldInOrder
<1>1. Init => HeldInOrder
  <2> SUFFICES ASSUME Init PROVE HeldInOrder
    OBVIOUS
  <2>1. relay.send = <<>> /\ relay.queue = <<>> /\ held = <<>> /\ left = 0
    BY DEF Init, NewRelay
  <2>2. Pending(relay) = <<>>
    BY <2>1 DEF Pending
  <2>3. SubSeq(held, left + 1, Len(held)) = <<>>
    BY <2>1, SubSeqEmpty
  <2> QED BY <2>2, <2>3 DEF HeldInOrder
<1>2. IInv /\ HeldInOrder /\ [Next]_vars => HeldInOrder'
  BY OrderNext
<1> QED BY <1>1, <1>2, Inductive, PTL DEF Spec
=============================================================================
