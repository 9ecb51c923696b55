--------------------------- MODULE UdprelaydProofs ---------------------------
(***************************************************************************)
(* Proofs about Udprelayd: for all configurations, datagrams and settings. *)
(***************************************************************************)
EXTENDS Udprelayd, RelayLemmas, TLAPS

Looping == pc \in {"relays", "inbound", "relayed"}
Ended   == pc \in {"done", "killed"}

(* The outward interface is in use up to the end.                          *)
OutwardInUse == pc # "done" => rel[Out] # Freed

(* The cursor is on members of the list, each once.                        *)
Cursor == Looping => IsInjective(todo) /\ ToSet(todo) \subseteq ToSet(relays)

(* Where a datagram may wait.                                              *)
Empty(f) == rel[f] # Freed => rel[f].recv = NoDatagram

Buffers ==
  /\ pc \in {"select", "outward"} => \A f \in Fds : Empty(f)
  /\ pc = "relays" => \A r \in ToSet(todo) : Empty(r)
  /\ pc = "inbound" => buffer # NoDatagram
  /\ pc \in {"select", "outward", "relays", "relayed", "terminate"} => buffer = NoDatagram
  /\ pc \in {"inbound", "relayed"} => Empty(Out)
  /\ pc = "relayed" => \A r \in Relays : r \notin ToSet(todo) => Empty(r)

(* How many datagrams have been dispatched, and offered to relay r.        *)
Held == buffer # NoDatagram \/ rel[Out].recv # NoDatagram
Dispatched == IF Held THEN inbound - 1 ELSE inbound
Offered(r) == IF pc = "inbound" /\ r \notin ToSet(todo) THEN inbound ELSE Dispatched

Counted ==
  ~Ended =>
    /\ rel[Out].recv # NoDatagram => rel[Out].recv.id = inbound
    /\ buffer # NoDatagram => buffer.id = inbound /\ rel[Out].recv = NoDatagram
    /\ seq = Dispatched % SeqLimit
    /\ \A r \in Relays : /\ Len(tried[r]) <= Offered(r)
                         /\ rel[r] # Freed => Len(tried[r]) = Offered(r)

Numbering == \A r \in Relays : \A i \in 1 .. Len(tried[r]) :
                tried[r][i].id = i /\ tried[r][i].seq = (i - 1) % SeqLimit

IInv == /\ TypeOK
        /\ RingOfSurvivors
        /\ OutwardInUse
        /\ Cursor
        /\ Buffers
        /\ Counted
        /\ Numbering

-----------------------------------------------------------------------------
(* The data.                                                               *)

OutTypes   == RelayType({App, NoAddr}, InboundDatagram, Forwarded)
RelayTypes == RelayType({Peer}, RelayedInputs, Copy)

(* What is read, stamped and stripped are datagrams.                       *)
LEMMA Lengths ==
  /\ \A d \in InboundDatagram : d \in Datagram /\ d.id \in Nat /\ d.id >= 1 /\ d.len \in Nat
  /\ \A d \in Copy : d \in Datagram /\ d.len \in Nat
  /\ \A d \in RelayedInputs : d \in Datagram /\ d.len \in Nat
  /\ \A d \in WithHeader : d.seq \in 0 .. SeqLimit - 1 /\ Payload(d) \in Forwarded
  /\ \A d \in Forwarded : d \in Datagram /\ d.len \in Nat
<1>1. \A d \in InboundDatagram : d \in Datagram /\ d.id \in Nat /\ d.id >= 1 /\ d.len \in Nat
  <2> SUFFICES ASSUME NEW d \in InboundDatagram
               PROVE  d \in Datagram /\ d.id \in Nat /\ d.id >= 1 /\ d.len \in Nat
    OBVIOUS
  <2>1. d = [id |-> d.id, seq |-> d.seq, len |-> d.len]
    BY DEF InboundDatagram
  <2>2. d.id \in 1 .. MaxInbound /\ d.seq = NoSeq /\ d.len \in InboundLens
    BY DEF InboundDatagram
  <2>3. d.id \in Nat /\ d.id >= 1
    BY <2>2, BoundAssumption
  <2>4. d.len \in Nat
    BY <2>2, DatagramAssumption, Zenon
  <2>5. d.seq \in {NoSeq} \cup 0 .. SeqLimit - 1
    BY <2>2, Zenon
  <2> QED BY <2>1, <2>3, <2>4, <2>5 DEF Datagram
<1>2. \A d \in Copy : d \in Datagram /\ d.len \in Nat
  BY BoundAssumption, DatagramAssumption DEF Copy, Datagram, HeaderLen
<1>3. \A d \in RelayedInputs : d \in Datagram /\ d.len \in Nat
  BY DatagramAssumption DEF Datagram
<1>4. ASSUME NEW d \in WithHeader
      PROVE  /\ d.seq \in 0 .. SeqLimit - 1
             /\ Payload(d) \in Datagram
  <2>1. d \in Datagram /\ d.len >= HeaderLen /\ d.seq # NoSeq /\ d.len - HeaderLen \in Nat
    BY <1>3, DatagramAssumption DEF WithHeader, HeaderLen
  <2>2. d.id \in Nat /\ d.seq \in {NoSeq} \cup 0 .. SeqLimit - 1
    BY <2>1 DEF Datagram
  <2>3. Payload(d) \in Datagram
    BY <2>1, <2>2 DEF Payload, Datagram
  <2> QED BY <2>1, <2>2, <2>3
<1>5. \A d \in Datagram : d.len \in Nat
  BY DEF Datagram
<1> QED BY <1>1, <1>2, <1>3, <1>4, <1>5 DEF Forwarded

(* A relay_t is in use or freed, never both.                               *)
LEMMA NotFreed ==
  Freed \notin OutTypes /\ Freed \notin RelayTypes
<1> DEFINE All == RelayType({Peer, App, NoAddr}, Datagram, Datagram)
<1>1. \A S : S \subseteq Datagram => Seq(S) \subseteq Seq(Datagram)
  OBVIOUS
<1>2. /\ InboundDatagram \subseteq Datagram /\ Forwarded \subseteq Datagram
      /\ RelayedInputs \subseteq Datagram /\ Copy \subseteq Datagram
  BY Lengths
<1>3. OutTypes \subseteq All /\ RelayTypes \subseteq All
  BY <1>1, <1>2 DEF OutTypes, RelayTypes, RelayType
<1> QED BY <1>3, FreedAssumption

(* A datagram in a receive buffer is not the sign for none.                *)
LEMMA NotNoDatagram ==
  NoDatagram \notin InboundDatagram /\ NoDatagram \notin RelayedInputs
BY Lengths, DatagramAssumption

(* The answers of recvfrom().                                              *)
LEMMA ReadAnswers ==
  ASSUME TypeOK, NEW f \in Fds,
         NEW read \in Reads(f, IF f = Out THEN NextInbound ELSE NextRelayed)
  PROVE  /\ read.res = "data" =>
              IF f = Out THEN /\ read.d \in InboundDatagram /\ read.d.id = inbound + 1
                              /\ inbound + 1 \in 0 .. MaxInbound
                         ELSE read.d \in RelayedInputs /\ relayed + 1 \in 0 .. MaxRelayed
         /\ GotData(read) <=> read.res = "data" /\ read.d.len > 0
<1>1. inbound \in 0 .. MaxInbound /\ relayed \in 0 .. MaxRelayed
  BY DEF TypeOK
<1>2. CASE f = Out /\ read.res = "data"
  <2>1. read.d \in NextInbound
    BY <1>2 DEF Reads, Answers, Skipped
  <2>2. inbound < MaxInbound
    BY <2>1 DEF NextInbound
  <2>3. PICK n \in InboundLens : read.d = [id |-> inbound + 1, seq |-> NoSeq, len |-> n]
    BY <2>1, <2>2 DEF NextInbound
  <2>4. inbound + 1 \in 1 .. MaxInbound
    BY <1>1, <2>2, BoundAssumption
  <2>5. read.d \in InboundDatagram /\ read.d.id = inbound + 1
    BY <2>3, <2>4 DEF InboundDatagram
  <2>6. inbound + 1 \in 0 .. MaxInbound
    BY <2>4, BoundAssumption
  <2> QED BY <1>2, <2>5, <2>6 DEF GotData
<1>3. CASE f # Out /\ read.res = "data"
  <2>1. read.d \in NextRelayed
    BY <1>3 DEF Reads, Answers, Skipped
  <2>2. relayed < MaxRelayed /\ read.d \in RelayedInputs
    BY <2>1 DEF NextRelayed
  <2>3. relayed + 1 \in 0 .. MaxRelayed
    BY <1>1, <2>2, BoundAssumption
  <2> QED BY <1>3, <2>2, <2>3 DEF GotData
<1> QED BY <1>2, <1>3 DEF GotData

-----------------------------------------------------------------------------
(* The list.                                                               *)

(* Every relay has its place in the configuration file.                    *)
LEMMA Places ==
  ASSUME NEW r \in Relays
  PROVE  Place(r) \in 1 .. Len(Config) /\ Config[Place(r)] = r
<1>1. \E i \in DOMAIN Config : Config[i] = r
  BY RelaysAssumption, Elements DEF Relays
<1>2. DOMAIN Config = 1 .. Len(Config)
  BY RelaysAssumption
<1> QED BY <1>1, <1>2 DEF Place

(* The order of the list, from place k on and then from its beginning.     *)
InOrder(s, k) == \A i, j \in DOMAIN s :
  i < j => IF i <= k /\ k < j THEN Place(s[j]) < Place(s[i]) ELSE Place(s[i]) < Place(s[j])

(* RingOfSurvivors in terms of InOrder.                                    *)
LEMMA Ordered ==
  RingOfSurvivors <=>
    (pc # "done" => /\ relaysNum = Len(relays)
                    /\ ToSet(relays) = Live \ {Out}
                    /\ \E k \in 0 .. Len(relays) : InOrder(relays, k))
BY DEF RingOfSurvivors, InOrder

(* A list in that order holds nobody twice.                                *)
LEMMA OrderDistinct ==
  ASSUME NEW s \in Seq(Relays), NEW k \in 0 .. Len(s), InOrder(s, k)
  PROVE  IsInjective(s)
<1>1. DOMAIN s = 1 .. Len(s) /\ Len(s) \in Nat
  OBVIOUS
<1>2. \A i \in DOMAIN s : Place(s[i]) \in Int
  BY Places
<1>3. ASSUME NEW i \in 1 .. Len(s), NEW j \in 1 .. Len(s), s[i] = s[j], i < j
      PROVE  FALSE
  BY <1>1, <1>2, <1>3 DEF InOrder
<1>4. \A i, j \in 1 .. Len(s) : s[i] = s[j] => i = j
  BY <1>3
<1> QED BY <1>4, Elements

(* Taking a member out keeps the order of the others.                      *)
LEMMA OrderRemoved ==
  ASSUME NEW s \in Seq(Relays), NEW k \in 0 .. Len(s), InOrder(s, k), NEW e \in ToSet(s)
  PROVE  \E l \in 0 .. Len(RemoveFirst(s, e)) : InOrder(RemoveFirst(s, e), l)
<1> DEFINE t == RemoveFirst(s, e)
           m == Len(s)
<1>1. PICK p \in 1 .. m :
        /\ t \in Seq(Relays) /\ Len(t) = m - 1
        /\ \A i \in 1 .. m - 1 : t[i] = IF i < p THEN s[i] ELSE s[i + 1]
  BY OrderDistinct, RemovedAt
<1>2. DOMAIN t = 1 .. m - 1 /\ DOMAIN s = 1 .. m /\ m \in Nat
  BY <1>1, LenProperties
<1> HIDE DEF t, m
<1> DEFINE l == IF p <= k THEN k - 1 ELSE k
           at(i) == IF i < p THEN i ELSE i + 1
<1>3. k \in 0 .. m /\ p \in 1 .. m /\ m \in Nat
  BY <1>2 DEF m
<1>4. l \in 0 .. m - 1
  BY <1>3
<1>5. \A i \in 1 .. m - 1 : at(i) \in 1 .. m /\ t[i] = s[at(i)]
  BY <1>1, <1>3
<1>6. \A i, j \in 1 .. m - 1 : i < j => at(i) < at(j)
  BY <1>3
<1>7. \A i \in 1 .. m - 1 : i <= l <=> at(i) <= k
  BY <1>3
<1>8. \A i \in 1 .. m - 1 : l < i <=> k < at(i)
  BY <1>3
<1> HIDE DEF l, at
<1>9. ASSUME NEW i \in 1 .. m - 1, NEW j \in 1 .. m - 1, i < j
      PROVE  IF i <= l /\ l < j THEN Place(t[j]) < Place(t[i]) ELSE Place(t[i]) < Place(t[j])
  <2>1. at(i) < at(j) /\ at(i) \in DOMAIN s /\ at(j) \in DOMAIN s
    BY <1>2, <1>5, <1>6, <1>9
  <2>2. IF at(i) <= k /\ k < at(j) THEN Place(s[at(j)]) < Place(s[at(i)])
                                   ELSE Place(s[at(i)]) < Place(s[at(j)])
    BY <2>1 DEF InOrder
  <2> QED BY <1>5, <1>7, <1>8, <2>2
<1>10. InOrder(t, l)
  BY <1>2, <1>9 DEF InOrder
<1>11. l \in 0 .. Len(t)
  BY <1>1, <1>4
<1> QED BY <1>10, <1>11 DEF t

(* So does letting it begin with its second member.                        *)
LEMMA OrderTurned ==
  ASSUME NEW s \in Seq(Relays), s # <<>>, NEW k \in 0 .. Len(s), InOrder(s, k)
  PROVE  LET t == Append(Tail(s), Head(s)) IN \E l \in 0 .. Len(t) : InOrder(t, l)
<1> DEFINE t == Append(Tail(s), Head(s))
           m == Len(s)
<1>1. /\ t \in Seq(Relays) /\ Len(t) = m
      /\ \A i \in 1 .. m : t[i] = IF i = m THEN s[1] ELSE s[i + 1]
  BY Turned
<1>2. DOMAIN t = 1 .. m /\ DOMAIN s = 1 .. m /\ m \in Nat /\ m >= 1
  <2>1. DOMAIN s = 1 .. m /\ m \in Nat /\ m # 0
    BY LenProperties, EmptySeq
  <2>2. DOMAIN t = 1 .. Len(t)
    BY <1>1, LenProperties
  <2> HIDE DEF t, m
  <2> QED BY <1>1, <2>1, <2>2
<1> HIDE DEF t, m
<1> DEFINE l == IF k = 0 THEN m - 1 ELSE k - 1
<1>3. k \in 0 .. m
  BY DEF m
<1>4. l \in 0 .. m
  BY <1>2, <1>3
<1>5. \A i \in 1 .. m : Place(s[i]) \in Int
  BY <1>2, Places
<1>6. ASSUME NEW i \in 1 .. m, NEW j \in 1 .. m, i < j
      PROVE  IF i <= l /\ l < j THEN Place(t[j]) < Place(t[i]) ELSE Place(t[i]) < Place(t[j])
  <2>1. i # m /\ i + 1 \in 1 .. m /\ t[i] = s[i + 1] /\ 1 \in 1 .. m
    BY <1>1, <1>2, <1>6
  <2>2. CASE j = m
    <3>1. t[j] = s[1] /\ 1 < i + 1
      BY <1>1, <2>2
    <3>2. IF 1 <= k /\ k < i + 1 THEN Place(s[i + 1]) < Place(s[1])
                                 ELSE Place(s[1]) < Place(s[i + 1])
      BY <1>2, <2>1, <3>1 DEF InOrder
    <3>3. IF i <= l /\ l < j THEN ~(1 <= k /\ k < i + 1) ELSE 1 <= k /\ k < i + 1
      BY <1>2, <1>3, <1>6, <2>2
    <3> HIDE DEF l
    <3> QED BY <2>1, <3>1, <3>2, <3>3
  <2>3. CASE j # m
    <3>1. t[j] = s[j + 1] /\ i + 1 < j + 1 /\ j + 1 \in 1 .. m
      BY <1>1, <1>2, <1>6, <2>3
    <3>2. IF i + 1 <= k /\ k < j + 1 THEN Place(s[j + 1]) < Place(s[i + 1])
                                     ELSE Place(s[i + 1]) < Place(s[j + 1])
      BY <1>2, <2>1, <3>1 DEF InOrder
    <3>3. i <= l /\ l < j <=> i + 1 <= k /\ k < j + 1
      BY <1>2, <1>3, <1>6, <2>3
    <3> HIDE DEF l
    <3> QED BY <2>1, <3>1, <3>2, <3>3
  <2> QED BY <2>2, <2>3
<1> HIDE DEF l
<1>7. InOrder(t, l) /\ l \in 0 .. Len(t)
  BY <1>1, <1>2, <1>4, <1>6 DEF InOrder
<1> QED BY <1>7 DEF t

(* The file's own order.                                                   *)
LEMMA OrderConfig ==
  InOrder(Config, 0) /\ IsInjective(Config) /\ Config \in Seq(Relays)
<1>1. DOMAIN Config = 1 .. Len(Config) /\ Len(Config) \in Nat
  BY RelaysAssumption
<1>2. \A i, j \in 1 .. Len(Config) : Config[i] = Config[j] => i = j
  BY RelaysAssumption, Elements
<1>3. \A i \in 1 .. Len(Config) : Config[i] \in Relays
  BY RelaysAssumption, ElementOfSeq
<1>4. \A i \in 1 .. Len(Config) : Place(Config[i]) = i
  BY <1>2, <1>3, Places
<1> QED BY <1>1, <1>4, RelaysAssumption DEF InOrder

-----------------------------------------------------------------------------
(* Steps that leave the list alone or take one member out.                 *)

InUse(f) == rel[f] # Freed

(* Steps that free nobody and leave the list alone.                        *)
LEMMA RingKept ==
  ASSUME RingOfSurvivors, pc # "done", UNCHANGED listVars,
         \A f \in Fds : InUse(f)' <=> InUse(f)
  PROVE  RingOfSurvivors'
<1>1. Live' = Live
  BY DEF Live, InUse
<1>2. relays' = relays /\ relaysNum' = relaysNum
  BY DEF listVars
<1> QED BY <1>1, <1>2 DEF RingOfSurvivors

(* What the list says as long as it is there.                              *)
LEMMA Members ==
  ASSUME TypeOK, RingOfSurvivors, pc # "done"
  PROVE  /\ relays \in Seq(Relays) /\ IsInjective(relays)
         /\ \A r \in Relays : r \in ToSet(relays) <=> InUse(r)
         /\ ToSet(relays) \subseteq Relays
         /\ relaysNum = Len(relays)
<1>1. relays \in Seq(Relays)
  BY DEF TypeOK
<1>2. ToSet(relays) = Live \ {Out} /\ relaysNum = Len(relays)
  BY DEF RingOfSurvivors
<1>3. IsInjective(relays)
  BY <1>1, OrderDistinct, Ordered
<1> QED BY <1>1, <1>2, <1>3, RelaysAssumption, Elements DEF Live, Fds, InUse

(* CLIST_DEL with the counter, for a relay that is freed in the same       *)
(* step.                                                                   *)
LEMMA RingUnlinked ==
  ASSUME TypeOK, RingOfSurvivors, pc # "done", NEW r \in ToSet(relays), Unlink(r),
         ~InUse(r)', \A f \in Fds \ {r} : InUse(f)' <=> InUse(f)
  PROVE  /\ RingOfSurvivors'
         /\ relays' \in Seq(Relays)
         /\ relaysNum' \in 0 .. Len(Config)
         /\ ToSet(relays') = ToSet(relays) \ {r}
<1>1. /\ relays \in Seq(Relays) /\ IsInjective(relays) /\ relaysNum = Len(relays)
      /\ ToSet(relays) = Live \ {Out} /\ relaysNum \in 0 .. Len(Config)
  BY Members DEF TypeOK, RingOfSurvivors
<1>2. relays' = RemoveFirst(relays, r) /\ relaysNum' = relaysNum - 1
  BY DEF Unlink
<1>3. /\ relays' \in Seq(Relays) /\ Len(relays') = Len(relays) - 1
      /\ ToSet(relays') = ToSet(relays) \ {r}
  BY <1>1, <1>2, Removed
<1>4. Live' = Live \ {r}
  BY DEF Live, InUse
<1>5. PICK k \in 0 .. Len(relays) : InOrder(relays, k)
  BY Ordered
<1>6. \E l \in 0 .. Len(relays') : InOrder(relays', l)
  BY <1>1, <1>2, <1>5, OrderRemoved
<1>7. relaysNum' \in 0 .. Len(Config)
  <2>1. Len(relays') \in Nat /\ Len(relays) \in Nat /\ Len(Config) \in Nat
    BY <1>1, <1>3, RelaysAssumption, LenProperties
  <2> QED BY <1>1, <1>2, <1>3, <2>1
<1>8. RingOfSurvivors'
  BY <1>1, <1>2, <1>3, <1>4, <1>6 DEF RingOfSurvivors, InOrder
<1> QED BY <1>3, <1>7, <1>8

-----------------------------------------------------------------------------
(* What TypeOK says of the interfaces, and the invariant of the cursor.    *)

(* The types of the outward interface and of the relays.                   *)
LEMMA Interfaces ==
  ASSUME TypeOK
  PROVE  /\ DOMAIN rel = Fds /\ Out \in Fds /\ Relays \subseteq Fds
         /\ InUse(Out) <=> rel[Out] \in OutTypes
         /\ \A r \in Relays : r # Out /\ (InUse(r) <=> rel[r] \in RelayTypes)
<1>1. DOMAIN rel = Fds /\ Out \in Fds /\ Relays \subseteq Fds /\ \A r \in Relays : r # Out
  BY RelaysAssumption DEF TypeOK, Fds
<1>2. /\ rel[Out] \in OutTypes \cup {Freed}
      /\ \A r \in Relays : rel[r] \in RelayTypes \cup {Freed}
  BY DEF TypeOK, OutTypes, RelayTypes
<1> QED BY <1>1, <1>2, NotFreed DEF InUse

(* The member the cursor is on.                                            *)
LEMMA AtCursor ==
  ASSUME TypeOK, RingOfSurvivors, Cursor, Looping, todo # <<>>
  PROVE  /\ Head(todo) \in Relays /\ Head(todo) \in ToSet(relays)
         /\ Head(todo) # Out /\ Head(todo) \in Fds
         /\ InUse(Head(todo)) /\ rel[Head(todo)] \in RelayTypes
         /\ Head(todo) \in ToSet(todo)
         /\ Tail(todo) \in Seq(Relays) /\ IsInjective(Tail(todo))
         /\ ToSet(Tail(todo)) = ToSet(todo) \ {Head(todo)}
<1>1. todo \in Seq(Relays) /\ IsInjective(todo) /\ ToSet(todo) \subseteq ToSet(relays)
  BY DEF TypeOK, Cursor
<1>2. pc # "done"
  BY DEF Looping
<1> QED BY <1>1, <1>2, TailElements, Members, Interfaces

(* The counts depend on nothing but what is listed here.                   *)
LEMMA CountedKept ==
  ASSUME Counted, ~Ended,
         UNCHANGED <<buffer, inbound, seq, tried>>,
         rel'[Out].recv = rel[Out].recv,
         \A r \in Relays : InUse(r)' => InUse(r),
         pc = "inbound" => pc' \in {"inbound", "killed"} /\ todo' = todo,
         pc # "inbound" => pc' # "inbound"
  PROVE  Counted'
<1>1. CASE Ended'
  BY <1>1 DEF Counted
<1>2. CASE ~Ended'
  <2>1. Dispatched' = Dispatched /\ (Held' <=> Held)
    BY DEF Dispatched, Held
  <2>2. \A r \in Relays : Offered(r)' = Offered(r)
    BY <1>2, <2>1 DEF Offered, Ended
  <2> QED BY <1>2, <2>1, <2>2 DEF Counted, InUse
<1> QED BY <1>1, <1>2

(* Steps that only move the program counter.                               *)
LEMMA Quiet ==
  ASSUME IInv, ~Stopped,
         UNCHANGED <<relays, relaysNum, rel, todo, buffer, seq, tried, inbound>>,
         pc' # "done",
         pc = "inbound" => pc' \in {"inbound", "killed"},
         pc # "inbound" => pc' # "inbound"
  PROVE  RingOfSurvivors' /\ OutwardInUse' /\ Counted' /\ Numbering'
<1>1. pc # "done" /\ ~Ended
  BY DEF Stopped, Ended
<1>2. RingOfSurvivors'
  BY <1>1, RingKept DEF IInv, InUse, listVars
<1>3. OutwardInUse'
  BY <1>1 DEF IInv, OutwardInUse
<1>4. Counted'
  BY <1>1, CountedKept DEF IInv, InUse
<1>5. Numbering'
  BY DEF IInv, Numbering
<1> QED BY <1>2, <1>3, <1>4, <1>5

-----------------------------------------------------------------------------
(* Every step keeps the invariant.                                         *)

(* select() reports sockets, or a signal is noticed.                       *)
LEMMA SelectKeeps ==
  ASSUME IInv, NEW R \in SUBSET Fds, NEW W \in SUBSET Fds, Select(R, W)
  PROVE  IInv'
<1>1. /\ pc = "select" /\ pc' \in {"terminate", "outward"}
      /\ UNCHANGED <<todo, buffer, rel, sigterm, armed, inbound, relayed, relays,
                     relaysNum, seq, accepted, tried, delivered>>
  BY DEF Select, listVars, dataVars
<1>2. rfds' \subseteq Fds /\ wfds' \subseteq Fds
  BY DEF Select, IInv, TypeOK
<1>3. TypeOK'
  BY <1>1, <1>2 DEF IInv, TypeOK
<1>4. RingOfSurvivors' /\ OutwardInUse' /\ Counted' /\ Numbering'
  BY <1>1, Quiet DEF Stopped
<1>5. Cursor'
  BY <1>1 DEF Cursor, Looping
<1>6. Buffers'
  BY <1>1 DEF IInv, Buffers, Empty
<1> QED BY <1>3, <1>4, <1>5, <1>6 DEF IInv

(* select() fails.                                                         *)
LEMMA SelectErrorKeeps ==
  ASSUME IInv, SelectError
  PROVE  IInv'
<1>1. /\ pc = "select" /\ pc' = "terminate"
      /\ UNCHANGED <<todo, buffer, rel, sigterm, armed, inbound, relayed, relays,
                     relaysNum, seq, accepted, tried, delivered, rfds, wfds>>
  BY DEF SelectError, listVars, dataVars
<1>2. TypeOK'
  BY <1>1 DEF IInv, TypeOK
<1>3. RingOfSurvivors' /\ OutwardInUse' /\ Counted' /\ Numbering'
  BY <1>1, Quiet DEF Stopped
<1>4. Cursor'
  BY <1>1 DEF Cursor, Looping
<1>5. Buffers'
  BY <1>1 DEF IInv, Buffers
<1> QED BY <1>2, <1>3, <1>4, <1>5 DEF IInv

(* The handler runs, or the process is killed.                             *)
LEMMA SignalKeeps ==
  ASSUME IInv, NEW g \in Signals, Signal(g)
  PROVE  IInv'
<1>1. /\ ~Stopped
      /\ pc' \in {pc, "killed"} \/ (pc = "select" /\ pc' = "terminate")
      /\ sigterm' \in {TRUE, sigterm} /\ armed' \subseteq armed
      /\ UNCHANGED <<todo, buffer, rel, inbound, relayed, relays,
                     relaysNum, seq, accepted, tried, delivered, rfds, wfds>>
  BY DEF Signal, listVars, dataVars
<1>2. TypeOK'
  BY <1>1 DEF IInv, TypeOK
<1>3. RingOfSurvivors' /\ OutwardInUse' /\ Counted' /\ Numbering'
  BY <1>1, Quiet DEF Stopped
<1>4. Cursor'
  BY <1>1 DEF IInv, Cursor, Looping
<1>5. Buffers'
  BY <1>1 DEF IInv, Buffers, Empty
<1> QED BY <1>2, <1>3, <1>4, <1>5 DEF IInv

(* The iteration ends: no receive buffer is occupied.                      *)
LEMMA EndRelayedKeeps ==
  ASSUME IInv, EndRelayed
  PROVE  IInv'
<1>1. /\ pc = "relayed" /\ todo = <<>> /\ pc' = "select" /\ rfds' = {} /\ wfds' = {}
      /\ UNCHANGED <<todo, buffer, rel, sigterm, armed, inbound, relayed, relays,
                     relaysNum, seq, accepted, tried, delivered>>
  BY DEF EndRelayed, listVars, dataVars
<1>2. TypeOK'
  BY <1>1 DEF IInv, TypeOK
<1>3. RingOfSurvivors' /\ OutwardInUse' /\ Counted' /\ Numbering'
  BY <1>1, Quiet DEF Stopped
<1>4. Cursor'
  BY <1>1 DEF Cursor, Looping
<1>5. Buffers'
  <2>1. ToSet(todo) = {}
    BY <1>1 DEF ToSet
  <2>2. \A f \in Fds : Empty(f)
    BY <1>1, <2>1 DEF IInv, Buffers, Fds
  <2> QED BY <1>1, <2>2 DEF IInv, Buffers, Empty
<1> QED BY <1>2, <1>3, <1>4, <1>5 DEF IInv

(* udprelay_cleanup() frees everything.                                    *)
LEMMA TerminateKeeps ==
  ASSUME IInv, Terminate
  PROVE  IInv'
<1>1. /\ pc = "terminate" /\ pc' = "done" /\ relays' = <<>>
      /\ rel' = [f \in Fds |-> IF f \in ToSet(relays) \cup {Out} THEN Freed ELSE rel[f]]
      /\ UNCHANGED <<todo, buffer, sigterm, armed, inbound, relayed,
                     relaysNum, seq, accepted, tried, delivered, rfds, wfds>>
  BY DEF Terminate, dataVars
<1>2. TypeOK'
  <2>1. /\ DOMAIN rel' = Fds /\ rel'[Out] \in OutTypes \cup {Freed}
        /\ \A r \in Relays : rel'[r] \in RelayTypes \cup {Freed}
    BY <1>1, Interfaces DEF IInv, InUse, Fds
  <2>2. relays' \in Seq(Relays)
    BY <1>1
  <2> QED BY <1>1, <2>1, <2>2 DEF IInv, TypeOK, OutTypes, RelayTypes
<1>3. RingOfSurvivors' /\ OutwardInUse' /\ Cursor' /\ Counted' /\ Buffers'
  BY <1>1 DEF RingOfSurvivors, OutwardInUse, Cursor, Looping, Counted, Ended, Buffers
<1>4. Numbering'
  BY <1>1 DEF IInv, Numbering
<1> QED BY <1>2, <1>3, <1>4 DEF IInv

(* relay_handle() on the outward interface.                                *)
LEMMA HandleOutwardKeeps ==
  ASSUME IInv, NEW read \in Answers(NextInbound), NEW wres \in SendResults,
         HandleOutward(read, wres)
  PROVE  IInv'
<1> DEFINE n == AfterHandle(rel[Out], read.d, App, read.res, wres)
<1>1. /\ pc = "outward" /\ pc' \in {"terminate", "relays"}
      /\ pc' = "relays" => todo' = relays
      /\ todo' \in {todo, relays}
      /\ read \in Reads(Out, NextInbound)
      /\ rel' = [rel EXCEPT ![Out] = n]
      /\ delivered' = IF wres = "sent" /\ HandleLeaves(rel[Out], read.d, read.res, wres)
                      THEN Append(delivered, Head(Pending(rel[Out]))) ELSE delivered
      /\ inbound' = inbound + IF GotData(read) THEN 1 ELSE 0
      /\ UNCHANGED <<rfds, wfds, buffer, seq, sigterm, armed, accepted, tried, relayed,
                     relays, relaysNum>>
  BY DEF HandleOutward, listVars
<1>2. /\ InUse(Out) /\ rel[Out] \in OutTypes /\ rel[Out].recv = NoDatagram
      /\ buffer = NoDatagram /\ Out \in Fds /\ DOMAIN rel = Fds
  BY <1>1, Interfaces DEF IInv, OutwardInUse, Buffers, Empty, InUse
<1>3. /\ read.res = "data" => read.d \in InboundDatagram /\ read.d.id = inbound + 1
                              /\ inbound + 1 \in 0 .. MaxInbound
      /\ GotData(read) <=> read.res = "data" /\ read.d.len > 0
  BY <1>1, <1>2, ReadAnswers DEF IInv
<1>4. /\ n \in OutTypes
      /\ n.recv = IF read.res = "data" /\ read.d.len > 0 THEN read.d ELSE NoDatagram
  <2>1. App \in {App, NoAddr} /\ rel[Out] \in RelayType({App, NoAddr}, InboundDatagram, Forwarded)
    BY <1>2 DEF OutTypes
  <2>2. read.res = "data" => read.d \in InboundDatagram
    BY <1>3
  <2>3. n \in OutTypes
    BY <1>2, <2>1, <2>2, AfterHandleType DEF OutTypes
  <2>4. n.recv = IF read.res = "data" /\ read.d.len > 0 THEN read.d ELSE NoDatagram
    BY <1>2, <2>1, <2>2, AfterHandleRecv
  <2> QED BY <2>3, <2>4
<1> HIDE DEF n
<1>5. DOMAIN rel' = Fds /\ rel'[Out] = n /\ \A f \in Fds : f # Out => rel'[f] = rel[f]
  BY <1>1, <1>2
<1>6. \A f \in Fds : InUse(f)' <=> InUse(f)
  BY <1>2, <1>4, <1>5, NotFreed DEF InUse
<1>7. TypeOK'
  <2>1. inbound' \in 0 .. MaxInbound
    BY <1>1, <1>3 DEF IInv, TypeOK
  <2>2. delivered' \in Seq(Forwarded)
    <3>1. delivered \in Seq(Forwarded)
      BY DEF IInv, TypeOK
    <3>2. HandleLeaves(rel[Out], read.d, read.res, wres) => Head(Pending(rel[Out])) \in Forwarded
      <4>1. Pending(rel[Out]) \in Seq(Forwarded)
        BY <1>2, PendingType DEF OutTypes
      <4> QED BY <4>1, HeadTailProperties DEF HandleLeaves, Leaves
    <3> QED BY <1>1, <3>1, <3>2, AppendProperties
  <2>3. /\ rel'[Out] \in OutTypes \cup {Freed}
        /\ \A r \in Relays : rel'[r] \in RelayTypes \cup {Freed}
    BY <1>4, <1>5, Interfaces DEF IInv, InUse
  <2>4. todo' \in Seq(Relays) /\ pc' \in {"terminate", "relays"}
    BY <1>1 DEF IInv, TypeOK
  <2> QED BY <1>1, <1>5, <2>1, <2>2, <2>3, <2>4 DEF IInv, TypeOK, OutTypes, RelayTypes
<1>8. RingOfSurvivors'
  BY <1>1, <1>6, RingKept DEF IInv, listVars
<1>9. OutwardInUse'
  BY <1>2, <1>6 DEF OutwardInUse, InUse
<1>10. Cursor'
  <2>1. IsInjective(relays)
    BY <1>1, Members DEF IInv
  <2> QED BY <1>1, <2>1 DEF Cursor, Looping
<1>11. Buffers'
  <2>1. buffer' = NoDatagram
    BY <1>1, <1>2
  <2>2. ASSUME pc' = "relays", NEW r \in ToSet(todo')
        PROVE  Empty(r)'
    <3>1. r \in Relays /\ r \in Fds /\ r # Out
      BY <1>1, <2>2, Members, Interfaces DEF IInv
    <3>2. Empty(r)
      BY <1>1, <3>1 DEF IInv, Buffers
    <3> QED BY <1>5, <3>1, <3>2 DEF Empty
  <2> QED BY <1>1, <2>1, <2>2 DEF Buffers
<1>12. Counted'
  <2>1. inbound \in Nat /\ ~Held /\ Dispatched = inbound
    BY <1>2 DEF IInv, TypeOK, Held, Dispatched
  <2>2. CASE GotData(read)
    <3>1. /\ rel'[Out].recv = read.d /\ rel'[Out].recv.id = inbound'
          /\ rel'[Out].recv # NoDatagram /\ inbound' = inbound + 1
      BY <1>1, <1>3, <1>4, <1>5, <2>2, NotNoDatagram
    <3>2. Held' /\ Dispatched' = inbound
      BY <2>1, <3>1 DEF Held, Dispatched
    <3>3. \A r \in Relays : Offered(r)' = Offered(r)
      BY <1>1, <2>1, <3>2 DEF Offered
    <3> QED
      BY <1>1, <1>2, <1>5, <1>6, <2>1, <3>1, <3>2, <3>3, Interfaces
      DEF IInv, Counted, Ended, InUse
  <2>3. CASE ~GotData(read)
    <3>1. rel'[Out].recv = NoDatagram /\ inbound' = inbound
      BY <1>1, <1>3, <1>4, <1>5, <2>1, <2>3
    <3>2. ~Held' /\ Dispatched' = inbound
      BY <1>1, <1>2, <3>1 DEF Held, Dispatched
    <3>3. \A r \in Relays : Offered(r)' = Offered(r)
      BY <1>1, <2>1, <3>2 DEF Offered
    <3> QED
      BY <1>1, <1>2, <1>5, <1>6, <2>1, <3>1, <3>2, <3>3, Interfaces
      DEF IInv, Counted, Ended, InUse
  <2> QED BY <2>2, <2>3
<1>13. Numbering'
  BY <1>1 DEF IInv, Numbering
<1> QED BY <1>7, <1>8, <1>9, <1>10, <1>11, <1>12, <1>13 DEF IInv

(* relay_handle() on a relay, which is unlinked if it fails.               *)
LEMMA HandleRelayKeeps ==
  ASSUME IInv, NEW read \in Answers(NextRelayed), NEW wres \in SendResults,
         HandleRelay(read, wres)
  PROVE  IInv'
<1>r. PICK r : r = Head(todo)
  OBVIOUS
<1> DEFINE n == AfterHandle(rel[r], read.d, Peer, read.res, wres)
<1>1. /\ pc = "relays" /\ todo # <<>> /\ todo' = Tail(todo)
      /\ read \in Reads(r, NextRelayed)
      /\ \/ Unlink(r) /\ rel' = [rel EXCEPT ![r] = Freed]
         \/ UNCHANGED listVars /\ rel' = [rel EXCEPT ![r] = n]
      /\ relayed' = relayed + IF GotData(read) THEN 1 ELSE 0
      /\ UNCHANGED <<pc, rfds, wfds, buffer, sigterm, armed, inbound,
                     seq, accepted, tried, delivered>>
  BY <1>r DEF HandleRelay, dataVars
<1>2. /\ r \in Relays /\ r \in ToSet(relays) /\ r # Out /\ r \in Fds /\ InUse(r)
      /\ rel[r] \in RelayTypes /\ r \in ToSet(todo)
      /\ todo' \in Seq(Relays) /\ IsInjective(todo') /\ ToSet(todo') = ToSet(todo) \ {r}
  BY <1>r, <1>1, AtCursor DEF IInv, Looping
<1>3. rel[r].recv = NoDatagram /\ buffer = NoDatagram
  BY <1>1, <1>2 DEF IInv, Buffers, Empty, InUse
<1>4. /\ read.res = "data" => read.d \in RelayedInputs /\ relayed + 1 \in 0 .. MaxRelayed
      /\ GotData(read) <=> read.res = "data" /\ read.d.len > 0
  BY <1>1, <1>2, ReadAnswers DEF IInv
<1>5. n \in RelayTypes
  BY <1>2, <1>3, <1>4, AfterHandleType DEF RelayTypes
<1> HIDE DEF n
<1>6. /\ DOMAIN rel = Fds /\ Out \in Fds /\ Relays \subseteq Fds
      /\ \A f \in Relays : rel[f] \in RelayTypes \cup {Freed}
  BY Interfaces DEF IInv, InUse
<1>7. DOMAIN rel' = Fds /\ rel'[r] \in {Freed, n} /\ \A f \in Fds : f # r => rel'[f] = rel[f]
  BY <1>1, <1>2, <1>6
<1>8. /\ RingOfSurvivors' /\ relays' \in Seq(Relays) /\ relaysNum' \in 0 .. Len(Config)
      /\ ToSet(relays) \ {r} \subseteq ToSet(relays')
  <2>1. CASE Unlink(r) /\ rel' = [rel EXCEPT ![r] = Freed]
    <3>1. ~InUse(r)' /\ \A f \in Fds \ {r} : InUse(f)' <=> InUse(f)
      BY <1>2, <1>6, <1>7, <2>1 DEF InUse
    <3> QED BY <1>1, <1>2, <2>1, <3>1, RingUnlinked DEF IInv
  <2>2. CASE UNCHANGED listVars /\ rel' = [rel EXCEPT ![r] = n]
    <3>1. \A f \in Fds : InUse(f)' <=> InUse(f)
      BY <1>2, <1>5, <1>6, <1>7, <2>2, NotFreed DEF InUse
    <3>2. RingOfSurvivors'
      BY <1>1, <2>2, <3>1, RingKept DEF IInv
    <3> QED BY <2>2, <3>2 DEF IInv, TypeOK, listVars
  <2> QED BY <1>1, <2>1, <2>2
<1>9. TypeOK'
  <2>1. relayed' \in 0 .. MaxRelayed
    BY <1>1, <1>4 DEF IInv, TypeOK
  <2>2. /\ rel'[Out] = rel[Out]
        /\ \A f \in Relays : rel'[f] \in RelayTypes \cup {Freed}
    BY <1>2, <1>5, <1>6, <1>7
  <2> QED BY <1>1, <1>2, <1>7, <1>8, <2>1, <2>2 DEF IInv, TypeOK, RelayTypes
<1>10. OutwardInUse'
  BY <1>1, <1>2, <1>6, <1>7 DEF IInv, OutwardInUse
<1>11. Cursor'
  <2>1. ToSet(todo) \subseteq ToSet(relays)
    BY <1>1 DEF IInv, Cursor, Looping
  <2> QED BY <1>2, <1>8, <2>1 DEF Cursor
<1>12. Buffers'
  <2>1. \A f \in ToSet(todo') : Empty(f)'
    <3> SUFFICES ASSUME NEW f \in ToSet(todo')
                 PROVE  Empty(f)'
      OBVIOUS
    <3>1. f \in ToSet(todo) /\ f # r /\ f \in Fds
      BY <1>2, <1>6, Elements
    <3>2. Empty(f)
      BY <1>1, <3>1 DEF IInv, Buffers
    <3> QED BY <1>7, <3>1, <3>2 DEF Empty
  <2> QED BY <1>1, <1>3, <2>1 DEF Buffers
<1>13. Counted'
  <2>1. rel'[Out].recv = rel[Out].recv /\ \A f \in Relays : InUse(f)' => InUse(f)
    BY <1>2, <1>6, <1>7 DEF InUse
  <2> QED BY <1>1, <2>1, CountedKept DEF IInv, Ended
<1>14. Numbering'
  BY <1>1 DEF IInv, Numbering
<1> QED BY <1>8, <1>9, <1>10, <1>11, <1>12, <1>13, <1>14 DEF IInv

(* The datagram from outside is taken out of its buffer.                   *)
LEMMA ReceiveInboundKeeps ==
  ASSUME IInv, ReceiveInbound
  PROVE  IInv'
<1> DEFINE n == AfterReceive(rel[Out])
<1>1. /\ pc = "relays" /\ todo = <<>> /\ todo' = relays
      /\ buffer' = rel[Out].recv
      /\ rel' = [rel EXCEPT ![Out] = n]
      /\ pc' = IF rel[Out].recv # NoDatagram THEN "inbound" ELSE "relayed"
      /\ UNCHANGED <<rfds, wfds, sigterm, armed, inbound, relayed, relays, relaysNum,
                     seq, accepted, tried, delivered>>
  BY DEF ReceiveInbound, listVars, dataVars
<1>2. /\ InUse(Out) /\ rel[Out] \in OutTypes /\ buffer = NoDatagram
      /\ Out \in Fds /\ DOMAIN rel = Fds
  BY <1>1, Interfaces DEF IInv, OutwardInUse, Buffers, InUse
<1>3. n \in OutTypes /\ n.recv = NoDatagram
  BY <1>2, AfterReceiveType DEF OutTypes
<1> HIDE DEF n
<1>4. DOMAIN rel' = Fds /\ rel'[Out] = n /\ \A f \in Fds : f # Out => rel'[f] = rel[f]
  BY <1>1, <1>2
<1>5. \A f \in Fds : InUse(f)' <=> InUse(f)
  BY <1>2, <1>3, <1>4, NotFreed DEF InUse
<1>6. /\ relays \in Seq(Relays) /\ IsInjective(relays)
      /\ \A r \in Relays : r \in ToSet(relays) <=> InUse(r)
      /\ \A r \in Relays : r # Out /\ r \in Fds /\ rel[r] \in RelayTypes \cup {Freed}
  BY <1>1, Members, Interfaces DEF IInv, InUse
<1>7. TypeOK'
  <2>1. buffer' \in InboundDatagram \cup {NoDatagram}
    BY <1>1, <1>2 DEF OutTypes, RelayType
  <2>2. rel'[Out] \in OutTypes /\ \A r \in Relays : rel'[r] \in RelayTypes \cup {Freed}
    BY <1>3, <1>4, <1>6
  <2> QED BY <1>1, <1>4, <1>6, <2>1, <2>2 DEF IInv, TypeOK, OutTypes, RelayTypes
<1>8. RingOfSurvivors'
  BY <1>1, <1>5, RingKept DEF IInv, listVars
<1>9. OutwardInUse'
  BY <1>2, <1>5 DEF OutwardInUse, InUse
<1>10. Cursor'
  BY <1>1, <1>6 DEF Cursor
<1>11. Buffers'
  <2>1. Empty(Out)'
    BY <1>3, <1>4 DEF Empty
  <2>2. ASSUME NEW r \in Relays, r \notin ToSet(todo')
        PROVE  Empty(r)'
    <3>1. r \notin ToSet(relays)
      BY <1>1, <2>2
    <3> QED BY <1>4, <1>6, <3>1 DEF Empty, InUse
  <2> QED BY <1>1, <2>1, <2>2 DEF Buffers
<1>12. Counted'
  <2>1. inbound \in Nat /\ (rel[Out].recv # NoDatagram => rel[Out].recv.id = inbound)
    BY <1>1 DEF IInv, TypeOK, Counted, Ended
  <2>2. (Held' <=> Held) /\ Dispatched' = Dispatched
    BY <1>1, <1>2, <1>3, <1>4 DEF Held, Dispatched
  <2>3. ASSUME NEW r \in Relays
        PROVE  /\ Len(tried'[r]) <= Offered(r)'
               /\ InUse(r)' => Len(tried'[r]) = Offered(r)'
    <3>1. Offered(r) = Dispatched
      BY <1>1 DEF Offered
    <3>2. Offered(r)' = IF pc' = "inbound" /\ r \notin ToSet(relays) THEN inbound ELSE Dispatched
      BY <1>1, <2>2 DEF Offered
    <3>3. Len(tried[r]) <= Dispatched /\ (InUse(r) => Len(tried[r]) = Dispatched)
      BY <1>1, <3>1 DEF IInv, Counted, Ended, InUse
    <3>4. Dispatched <= inbound /\ Dispatched \in Int
      BY <2>1 DEF Dispatched
    <3>5. Len(tried[r]) \in Nat
      BY DEF IInv, TypeOK
    <3>6. CASE pc' = "inbound" /\ r \notin ToSet(relays)
      <4>1. ~InUse(r)' /\ Offered(r)' = inbound
        BY <1>5, <1>6, <3>2, <3>6
      <4>2. Len(tried[r]) <= inbound
        BY <2>1, <3>3, <3>4, <3>5
      <4> QED BY <1>1, <4>1, <4>2
    <3>7. CASE ~(pc' = "inbound" /\ r \notin ToSet(relays))
      <4>1. Offered(r)' = Dispatched
        BY <3>2, <3>7
      <4> QED BY <1>1, <1>5, <1>6, <3>3, <4>1
    <3> QED BY <3>6, <3>7
  <2>4. /\ seq' = Dispatched' % SeqLimit
        /\ rel'[Out].recv = NoDatagram
        /\ buffer' # NoDatagram => buffer'.id = inbound'
    BY <1>1, <1>3, <1>4, <2>1, <2>2 DEF IInv, Counted, Ended
  <2> QED BY <2>3, <2>4 DEF Counted, InUse
<1>13. Numbering'
  BY <1>1 DEF IInv, Numbering
<1> QED BY <1>7, <1>8, <1>9, <1>10, <1>11, <1>12, <1>13 DEF IInv

(* A runt or a repeated number is dropped.                                 *)
LEMMA SkipRelayedKeeps ==
  ASSUME IInv, SkipRelayed
  PROVE  IInv'
<1>r. PICK r : r = Head(todo)
  OBVIOUS
<1> DEFINE n == AfterReceive(rel[r])
<1>1. /\ pc = "relayed" /\ todo # <<>> /\ todo' = Tail(todo)
      /\ rel' = [rel EXCEPT ![r] = n]
      /\ UNCHANGED <<pc, rfds, wfds, buffer, sigterm, armed, inbound, relayed, relays,
                     relaysNum, seq, accepted, tried, delivered>>
  BY <1>r DEF SkipRelayed, listVars, dataVars
<1>2. /\ r \in Relays /\ r \in ToSet(relays) /\ r # Out /\ r \in Fds /\ InUse(r)
      /\ rel[r] \in RelayTypes
      /\ todo' \in Seq(Relays) /\ IsInjective(todo') /\ ToSet(todo') = ToSet(todo) \ {r}
  BY <1>r, <1>1, AtCursor DEF IInv, Looping
<1>3. n \in RelayTypes /\ n.recv = NoDatagram
  BY <1>2, AfterReceiveType DEF RelayTypes
<1> HIDE DEF n
<1>4. /\ DOMAIN rel = Fds /\ Out \in Fds /\ Relays \subseteq Fds
      /\ \A f \in Relays : rel[f] \in RelayTypes \cup {Freed}
  BY Interfaces DEF IInv, InUse
<1>5. DOMAIN rel' = Fds /\ rel'[r] = n /\ \A f \in Fds : f # r => rel'[f] = rel[f]
  BY <1>1, <1>2, <1>4
<1>6. \A f \in Fds : InUse(f)' <=> InUse(f)
  BY <1>2, <1>3, <1>5, NotFreed DEF InUse
<1>7. TypeOK'
  <2>1. rel'[Out] = rel[Out] /\ \A f \in Relays : rel'[f] \in RelayTypes \cup {Freed}
    BY <1>2, <1>3, <1>4, <1>5
  <2> QED BY <1>1, <1>2, <1>5, <2>1 DEF IInv, TypeOK, RelayTypes
<1>8. RingOfSurvivors'
  BY <1>1, <1>6, RingKept DEF IInv, listVars
<1>9. OutwardInUse'
  BY <1>1, <1>2, <1>4, <1>5 DEF IInv, OutwardInUse
<1>10. Cursor'
  BY <1>1, <1>2 DEF IInv, Cursor, Looping
<1>11. Buffers'
  <2>1. Empty(Out)'
    BY <1>1, <1>2, <1>4, <1>5 DEF IInv, Buffers, Empty
  <2>2. ASSUME NEW f \in Relays, f \notin ToSet(todo')
        PROVE  Empty(f)'
    <3>1. CASE f = r
      BY <1>3, <1>5, <3>1 DEF Empty
    <3>2. CASE f # r
      <4>1. Empty(f) /\ f \in Fds
        BY <1>1, <1>2, <1>4, <2>2, <3>2 DEF IInv, Buffers
      <4> QED BY <1>5, <3>2, <4>1 DEF Empty
    <3> QED BY <3>1, <3>2
  <2> QED BY <1>1, <2>1, <2>2 DEF IInv, Buffers
<1>12. Counted'
  <2>1. rel'[Out].recv = rel[Out].recv /\ \A f \in Relays : InUse(f)' => InUse(f)
    BY <1>2, <1>4, <1>5, <1>6
  <2> QED BY <1>1, <2>1, CountedKept DEF IInv, Ended
<1>13. Numbering'
  BY <1>1 DEF IInv, Numbering
<1> QED BY <1>7, <1>8, <1>9, <1>10, <1>11, <1>12, <1>13 DEF IInv

(* The list after a relay was disabled or kept.                            *)
LEMMA RingAfter ==
  ASSUME IInv, pc # "done", NEW r \in ToSet(relays), r # Out,
         (rel'[r] = Freed /\ Unlink(r)) \/ (rel'[r] # Freed /\ UNCHANGED listVars),
         \A f \in Fds : f # r => (InUse(f)' <=> InUse(f))
  PROVE  /\ RingOfSurvivors' /\ relays' \in Seq(Relays) /\ relaysNum' \in 0 .. Len(Config)
         /\ ToSet(relays) \ {r} \subseteq ToSet(relays')
         /\ \A f \in Relays : InUse(f)' => InUse(f)
<1>1. InUse(r) /\ r \in Fds /\ Relays \subseteq Fds
  BY Members, Interfaces DEF IInv
<1>2. CASE rel'[r] = Freed /\ Unlink(r)
  <2>1. ~InUse(r)' /\ \A f \in Fds \ {r} : InUse(f)' <=> InUse(f)
    BY <1>2 DEF InUse
  <2> QED BY <1>1, <1>2, <2>1, RingUnlinked DEF IInv
<1>3. CASE rel'[r] # Freed /\ UNCHANGED listVars
  <2>1. \A f \in Fds : InUse(f)' <=> InUse(f)
    BY <1>1, <1>3 DEF InUse
  <2>2. RingOfSurvivors'
    BY <1>3, <2>1, RingKept DEF IInv
  <2> QED BY <1>1, <1>3, <2>1, <2>2 DEF IInv, TypeOK, listVars
<1> QED BY <1>2, <1>3

(* A stamped datagram is a copy.                                           *)
LEMMA StampedCopy ==
  ASSUME IInv, pc = "inbound"
  PROVE  /\ buffer \in InboundDatagram /\ buffer.id = inbound
         /\ inbound \in Nat /\ inbound >= 1
         /\ rel[Out].recv = NoDatagram /\ Held /\ Dispatched = inbound - 1
         /\ seq = (inbound - 1) % SeqLimit /\ seq \in 0 .. SeqLimit - 1
         /\ Stamped(buffer) \in Copy
         /\ Stamped(buffer).id = inbound /\ Stamped(buffer).seq = seq
<1>1. buffer \in InboundDatagram /\ buffer # NoDatagram /\ seq \in 0 .. SeqLimit - 1 /\ inbound \in Nat
  BY DEF IInv, TypeOK, Buffers
<1>2. buffer.id = inbound /\ rel[Out].recv = NoDatagram /\ seq = Dispatched % SeqLimit
  BY <1>1 DEF IInv, Counted, Ended
<1>3. Held /\ Dispatched = inbound - 1 /\ inbound >= 1
  BY <1>1, <1>2, Lengths DEF Held, Dispatched
<1>4. /\ buffer = [id |-> buffer.id, seq |-> buffer.seq, len |-> buffer.len]
      /\ buffer.id \in 1 .. MaxInbound /\ buffer.len \in InboundLens
  BY <1>1 DEF InboundDatagram
<1>5. Stamped(buffer) = [id |-> buffer.id, seq |-> seq, len |-> buffer.len + HeaderLen]
  <2> DEFINE e == [buffer EXCEPT !.seq = seq]
  <2>1. e = [id |-> buffer.id, seq |-> seq, len |-> buffer.len]
    BY <1>4
  <2>2. Stamped(buffer) = [e EXCEPT !.len = e.len + HeaderLen]
    BY DEF Stamped
  <2> HIDE DEF e
  <2> QED BY <2>1, <2>2
<1>6. Stamped(buffer) \in Copy
  BY <1>1, <1>4, <1>5 DEF Copy
<1> QED BY <1>1, <1>2, <1>3, <1>5, <1>6

(* A copy is enqueued on one relay, which is unlinked if that fails.       *)
LEMMA CopyToRelayKeeps ==
  ASSUME IInv, NEW res \in SendResults, CopyToRelay(res)
  PROVE  IInv'
<1>r. PICK r, d : r = Head(todo) /\ d = Stamped(buffer)
  OBVIOUS
<1> DEFINE n == Enqueue(rel[r], d, res)
<1>1. /\ pc = "inbound" /\ todo # <<>> /\ todo' = Tail(todo)
      /\ \/ Unlink(r) /\ rel' = [rel EXCEPT ![r] = Freed] /\ UNCHANGED tried
         \/ /\ rel' = [rel EXCEPT ![r] = n]
            /\ tried' = [tried EXCEPT ![r] = Append(@, d)]
            /\ UNCHANGED listVars
      /\ UNCHANGED <<pc, rfds, wfds, buffer, seq, sigterm, armed, accepted, delivered,
                     inbound, relayed>>
  BY <1>r DEF CopyToRelay
<1>2. /\ r \in Relays /\ r \in ToSet(relays) /\ r # Out /\ r \in Fds /\ InUse(r)
      /\ rel[r] \in RelayTypes /\ r \in ToSet(todo)
      /\ todo' \in Seq(Relays) /\ IsInjective(todo') /\ ToSet(todo') = ToSet(todo) \ {r}
  BY <1>r, <1>1, AtCursor DEF IInv, Looping
<1>3. /\ buffer \in InboundDatagram /\ buffer # NoDatagram /\ inbound \in Nat /\ inbound >= 1
      /\ rel[Out].recv = NoDatagram /\ Held /\ Dispatched = inbound - 1
      /\ d \in Copy /\ d.id = inbound /\ d.seq = (inbound - 1) % SeqLimit
  BY <1>r, <1>1, StampedCopy, NotNoDatagram
<1>4. n \in RelayTypes
  BY <1>2, <1>3, EnqueueType, Lengths DEF RelayTypes
<1> HIDE DEF n
<1>5. /\ DOMAIN rel = Fds /\ Out \in Fds /\ Relays \subseteq Fds
      /\ \A f \in Relays : rel[f] \in RelayTypes \cup {Freed}
      /\ tried \in [Relays -> Seq(Copy)]
  BY Interfaces DEF IInv, InUse, TypeOK
<1>6. DOMAIN rel' = Fds /\ rel'[r] \in {Freed, n} /\ \A f \in Fds : f # r => rel'[f] = rel[f]
  BY <1>1, <1>2, <1>5
<1>7. \/ rel'[r] = Freed /\ Unlink(r) /\ UNCHANGED tried
      \/ /\ rel'[r] # Freed /\ UNCHANGED listVars
         /\ tried' = [tried EXCEPT ![r] = Append(@, d)]
  BY <1>1, <1>2, <1>4, <1>5, NotFreed
<1>8. \A f \in Fds : f # r => (InUse(f)' <=> InUse(f))
  BY <1>6 DEF InUse
<1>9. /\ RingOfSurvivors' /\ relays' \in Seq(Relays) /\ relaysNum' \in 0 .. Len(Config)
      /\ ToSet(relays) \ {r} \subseteq ToSet(relays')
      /\ \A f \in Relays : InUse(f)' => InUse(f)
  <2>1. pc # "done" /\ r \in ToSet(relays) /\ r # Out
    BY <1>1, <1>2
  <2>2. (rel'[r] = Freed /\ Unlink(r)) \/ (rel'[r] # Freed /\ UNCHANGED listVars)
    BY <1>7
  <2> QED BY <1>8, <2>1, <2>2, RingAfter
<1>10. /\ tried' \in [Relays -> Seq(Copy)]
       /\ \A f \in Relays : f # r => tried'[f] = tried[f]
       /\ \/ ~InUse(r)' /\ tried'[r] = tried[r]
          \/ InUse(r)' /\ tried'[r] = Append(tried[r], d)
  <2>1. Append(tried[r], d) \in Seq(Copy)
    BY <1>2, <1>3, <1>5, AppendProperties
  <2> QED BY <1>2, <1>5, <1>7, <2>1 DEF InUse
<1>11. TypeOK'
  <2>1. rel'[Out] = rel[Out] /\ \A f \in Relays : rel'[f] \in RelayTypes \cup {Freed}
    BY <1>2, <1>4, <1>5, <1>6
  <2> QED BY <1>1, <1>2, <1>6, <1>9, <1>10, <2>1 DEF IInv, TypeOK, RelayTypes
<1>12. OutwardInUse'
  BY <1>1, <1>2, <1>5, <1>6 DEF IInv, OutwardInUse
<1>13. Cursor'
  <2>1. ToSet(todo) \subseteq ToSet(relays)
    BY <1>1 DEF IInv, Cursor, Looping
  <2> QED BY <1>2, <1>9, <2>1 DEF Cursor
<1>14. Buffers'
  <2>1. Empty(Out)'
    BY <1>2, <1>3, <1>5, <1>6 DEF Empty
  <2> QED BY <1>1, <1>3, <2>1 DEF Buffers
<1>15. Counted'
  <2>1. rel'[Out].recv = NoDatagram /\ Held' /\ Dispatched' = inbound - 1
    BY <1>1, <1>2, <1>3, <1>5, <1>6 DEF Held, Dispatched
  <2>2. ASSUME NEW f \in Relays
        PROVE  /\ Len(tried'[f]) <= Offered(f)'
               /\ InUse(f)' => Len(tried'[f]) = Offered(f)'
    <3>1. /\ Len(tried[f]) <= Offered(f) /\ (InUse(f) => Len(tried[f]) = Offered(f))
          /\ Len(tried[f]) \in Nat
      BY <1>1, <1>5 DEF IInv, Counted, Ended, InUse
    <3>2. CASE f = r
      <4>1. Offered(f) = inbound - 1 /\ Offered(f)' = inbound
        BY <1>1, <1>2, <1>3, <3>2 DEF Offered
      <4>2. Len(tried[f]) = inbound - 1
        BY <1>2, <3>1, <3>2, <4>1
      <4>3. InUse(f)' => Len(tried'[f]) = inbound
        <5>1. tried[f] \in Seq(Copy) /\ Len(Append(tried[f], d)) = Len(tried[f]) + 1
          BY <1>3, <1>5, AppendProperties
        <5> QED BY <1>3, <1>10, <3>2, <4>2, <5>1
      <4>4. ~InUse(f)' => Len(tried'[f]) = inbound - 1
        BY <1>10, <3>2, <4>2
      <4> QED BY <1>3, <4>1, <4>3, <4>4
    <3>3. CASE f # r
      <4>1. f \in ToSet(todo') <=> f \in ToSet(todo)
        BY <1>2, <3>3
      <4>2. Offered(f)' = Offered(f)
        BY <1>1, <1>3, <2>1, <4>1 DEF Offered
      <4> QED BY <1>9, <1>10, <3>1, <3>3, <4>2
    <3> QED BY <3>2, <3>3
  <2>3. /\ seq' = Dispatched' % SeqLimit
        /\ buffer'.id = inbound'
    BY <1>1, <1>3, <2>1 DEF IInv, Counted, Ended
  <2> QED BY <2>1, <2>2, <2>3 DEF Counted, InUse
<1>16. Numbering'
  <2> SUFFICES ASSUME NEW f \in Relays, NEW i \in 1 .. Len(tried'[f])
               PROVE  tried'[f][i].id = i /\ tried'[f][i].seq = (i - 1) % SeqLimit
    BY DEF Numbering
  <2>1. CASE tried'[f] = tried[f]
    BY <2>1 DEF IInv, Numbering
  <2>2. CASE tried'[f] # tried[f]
    <3>1. f = r /\ tried'[f] = Append(tried[f], d) /\ tried[f] \in Seq(Copy)
      BY <1>5, <1>10, <2>2
    <3>2. Len(tried[f]) = inbound - 1
      <4>1. Offered(f) = inbound - 1
        BY <1>2, <1>3, <3>1 DEF Offered
      <4> QED BY <1>1, <1>2, <3>1, <4>1 DEF IInv, Counted, Ended, InUse
    <3>3. /\ Len(tried'[f]) = inbound
          /\ \A j \in 1 .. inbound - 1 : tried'[f][j] = tried[f][j]
          /\ tried'[f][inbound] = d
      <4>1. /\ Len(Append(tried[f], d)) = Len(tried[f]) + 1
            /\ \A j \in 1 .. Len(tried[f]) : Append(tried[f], d)[j] = tried[f][j]
            /\ Append(tried[f], d)[Len(tried[f]) + 1] = d
        BY <1>3, <3>1, AppendProperties
      <4>2. Len(tried[f]) + 1 = inbound
        BY <1>3, <3>2
      <4> QED BY <3>1, <3>2, <4>1, <4>2
    <3>4. CASE i = inbound
      BY <1>3, <3>3, <3>4
    <3>5. CASE i # inbound
      <4>1. i \in 1 .. Len(tried[f]) /\ tried'[f][i] = tried[f][i]
        BY <1>3, <3>2, <3>3, <3>5
      <4> QED BY <4>1 DEF IInv, Numbering
    <3> QED BY <3>4, <3>5
  <2> QED BY <2>1, <2>2
<1> QED BY <1>9, <1>11, <1>12, <1>13, <1>14, <1>15, <1>16 DEF IInv

(* Nothing is left of an empty cursor.                                     *)
LEMMA NoMembers ==
  ToSet(<<>>) = {}
BY DEF ToSet

(* A relay in use has its place in the list, and every member of it is in  *)
(* use: turning the list changes neither.                                  *)
LEMMA RingTurned ==
  ASSUME TypeOK, RingOfSurvivors, pc # "done", relays # <<>>,
         relays' = Append(Tail(relays), Head(relays)), UNCHANGED <<relaysNum, rel>>
  PROVE  /\ RingOfSurvivors' /\ relays' \in Seq(Relays) /\ IsInjective(relays')
         /\ ToSet(relays') = ToSet(relays)
<1>1. /\ relays \in Seq(Relays) /\ relaysNum = Len(relays)
      /\ ToSet(relays) = Live \ {Out}
  BY DEF TypeOK, RingOfSurvivors
<1>2. PICK k \in 0 .. Len(relays) : InOrder(relays, k)
  BY Ordered
<1>3. /\ relays' \in Seq(Relays) /\ Len(relays') = Len(relays)
      /\ ToSet(relays') = ToSet(relays)
  BY <1>1, Turned
<1>4. \E l \in 0 .. Len(relays') : InOrder(relays', l)
  BY <1>1, <1>2, OrderTurned
<1>5. Live' = Live
  BY DEF Live
<1>6. RingOfSurvivors'
  BY <1>1, <1>3, <1>4, <1>5 DEF RingOfSurvivors, InOrder
<1>7. IsInjective(relays')
  BY <1>3, <1>4, OrderDistinct
<1> QED BY <1>3, <1>6, <1>7

(* The number is incremented and the list rotated.                         *)
LEMMA EndInboundKeeps ==
  ASSUME IInv, EndInbound
  PROVE  IInv'
<1>1. /\ pc = "inbound" /\ todo = <<>>
      /\ seq' = (seq + 1) % SeqLimit /\ buffer' = NoDatagram
      /\ \/ relays = <<>> /\ pc' = "crashed" /\ UNCHANGED <<relays, todo>>
         \/ /\ relays # <<>> /\ pc' = "relayed"
            /\ relays' = Append(Tail(relays), Head(relays)) /\ todo' = relays'
      /\ UNCHANGED <<rfds, wfds, relaysNum, rel, sigterm, armed, accepted, tried,
                     delivered, inbound, relayed>>
  BY DEF EndInbound
<1>2. /\ inbound \in Nat /\ inbound >= 1 /\ rel[Out].recv = NoDatagram
      /\ Held /\ Dispatched = inbound - 1
      /\ seq = (inbound - 1) % SeqLimit /\ seq \in 0 .. SeqLimit - 1
  BY <1>1, StampedCopy
<1>3. seq' \in 0 .. SeqLimit - 1 /\ seq' = inbound % SeqLimit
  <2> DEFINE a == inbound - 1
  <2>1. a \in Nat /\ a + 1 = inbound /\ seq = a % SeqLimit
    BY <1>2
  <2> HIDE DEF a
  <2>2. /\ (a + 1) % SeqLimit = ((a % SeqLimit) + 1) % SeqLimit
        /\ (a + 1) % SeqLimit \in 0 .. SeqLimit - 1
    <3>1. a \in Nat /\ a + 1 \in Nat /\ SeqLimit \in Nat \ {0}
      BY <2>1, TrackAssumption
    <3> QED BY <3>1, NextRemainder, Zenon
  <2> QED BY <1>1, <2>1, <2>2
<1>4. /\ RingOfSurvivors' /\ relays' \in Seq(Relays)
      /\ ToSet(relays') = ToSet(relays)
      /\ pc' = "relayed" => todo' = relays' /\ IsInjective(relays')
      /\ todo' \in Seq(Relays)
  <2>1. CASE relays = <<>> /\ pc' = "crashed" /\ UNCHANGED <<relays, todo>>
    <3>1. RingOfSurvivors'
      BY <1>1, <2>1, RingKept DEF IInv, listVars, InUse
    <3> QED BY <2>1, <3>1 DEF IInv, TypeOK
  <2>2. CASE /\ relays # <<>> /\ pc' = "relayed"
             /\ relays' = Append(Tail(relays), Head(relays)) /\ todo' = relays'
    BY <1>1, <2>2, RingTurned DEF IInv
  <2> QED BY <1>1, <2>1, <2>2
<1>5. pc' \in {"crashed", "relayed"} /\ relaysNum' = relaysNum /\ rel' = rel
  BY <1>1
<1>6. TypeOK'
  BY <1>1, <1>3, <1>4, <1>5 DEF IInv, TypeOK
<1>7. OutwardInUse'
  BY <1>1, <1>5 DEF IInv, OutwardInUse
<1>8. Cursor'
  BY <1>4, <1>5 DEF Cursor, Looping
<1>9. Buffers'
  <2>1. Empty(Out)'
    BY <1>2, <1>5 DEF Empty
  <2>2. ASSUME pc' = "relayed", NEW r \in Relays, r \notin ToSet(todo')
        PROVE  Empty(r)'
    <3>1. r \notin ToSet(relays)
      BY <1>4, <2>2
    <3>2. ~InUse(r)
      BY <1>1, <3>1, Members DEF IInv
    <3> QED BY <1>5, <3>2 DEF Empty, InUse
  <2> QED BY <1>1, <1>5, <2>1, <2>2 DEF Buffers
<1>10. Counted'
  <2>1. rel'[Out].recv = NoDatagram /\ buffer' = NoDatagram /\ inbound' = inbound
    BY <1>1, <1>2
  <2>2. ~Held' /\ Dispatched' = inbound
    BY <2>1 DEF Held, Dispatched
  <2>3. \A r \in Relays : Offered(r)' = inbound /\ Offered(r) = inbound
    BY <1>1, <1>5, <2>2, NoMembers DEF Offered
  <2>4. \A r \in Relays : /\ Len(tried[r]) <= Offered(r)
                          /\ rel[r] # Freed => Len(tried[r]) = Offered(r)
    BY <1>1 DEF IInv, Counted, Ended
  <2>5. \A r \in Relays : /\ Len(tried'[r]) <= Offered(r)'
                          /\ rel'[r] # Freed => Len(tried'[r]) = Offered(r)'
    BY <1>1, <2>3, <2>4
  <2> QED BY <1>3, <2>1, <2>2, <2>5 DEF Counted
<1>11. Numbering'
  BY <1>1 DEF IInv, Numbering
<1> QED BY <1>4, <1>6, <1>7, <1>8, <1>9, <1>10, <1>11 DEF IInv

(* What udprelay_dispatch_relayed() forwards.                              *)
LEMMA NewDatagram ==
  ASSUME TypeOK, NEW r \in Relays, rel[r] \in RelayTypes, IsNew(rel[r].recv)
  PROVE  /\ rel[r].recv \in WithHeader
         /\ rel[r].recv.seq \in 0 .. SeqLimit - 1
         /\ rel[r].recv.seq \notin Filter!Recent
         /\ Payload(rel[r].recv) \in Forwarded
<1>1. rel[r].recv \in RelayedInputs
  BY DEF RelayTypes, RelayType, IsNew
<1>2. rel[r].recv \in WithHeader
  BY <1>1 DEF IsNew, WithHeader
<1> QED BY <1>2, Lengths DEF IsNew

(* A payload is enqueued on the outward interface.                         *)
LEMMA ForwardRelayedKeeps ==
  ASSUME IInv, NEW res \in SendResults, ForwardRelayed(res)
  PROVE  IInv'
<1>r. PICK r, d : r = Head(todo) /\ d = rel[r].recv
  OBVIOUS
<1> DEFINE n == AfterReceive(rel[r])
           o == Enqueue(rel[Out], Payload(d), res)
<1>1. /\ pc = "relayed" /\ todo # <<>> /\ todo' = Tail(todo)
      /\ IsNew(d) /\ accepted' = Append(accepted, d.seq)
      /\ \/ Unlink(r) /\ rel' = [rel EXCEPT ![r] = Freed]
         \/ rel' = [rel EXCEPT ![r] = n, ![Out] = o] /\ UNCHANGED listVars
      /\ delivered' = IF Offers(rel[Out]) /\ res = "sent"
                      THEN Append(delivered, Payload(d)) ELSE delivered
      /\ UNCHANGED <<pc, rfds, wfds, buffer, seq, sigterm, armed, tried, inbound, relayed>>
  <2>1. r # Out
    BY <1>r, AtCursor DEF IInv, Looping, ForwardRelayed
  <2> QED BY <1>r, <2>1 DEF ForwardRelayed
<1>2. /\ r \in Relays /\ r \in ToSet(relays) /\ r # Out /\ r \in Fds /\ InUse(r)
      /\ rel[r] \in RelayTypes
      /\ todo' \in Seq(Relays) /\ IsInjective(todo') /\ ToSet(todo') = ToSet(todo) \ {r}
  BY <1>r, <1>1, AtCursor DEF IInv, Looping
<1>3. d.seq \in 0 .. SeqLimit - 1 /\ Payload(d) \in Forwarded
  BY <1>r, <1>1, <1>2, NewDatagram DEF IInv
<1>4. /\ DOMAIN rel = Fds /\ Out \in Fds /\ Relays \subseteq Fds
      /\ \A f \in Relays : rel[f] \in RelayTypes \cup {Freed}
      /\ rel[Out] \in OutTypes /\ rel[Out].recv = NoDatagram
  BY <1>1, Interfaces DEF IInv, InUse, OutwardInUse, Buffers, Empty
<1>5. n \in RelayTypes /\ n.recv = NoDatagram
  BY <1>2, AfterReceiveType DEF RelayTypes
<1>6. o \in OutTypes /\ o.recv = NoDatagram
  <2>1. o \in OutTypes
    BY <1>3, <1>4, EnqueueType, Lengths DEF OutTypes
  <2>2. o.recv = rel[Out].recv
    BY <1>3, <1>4, EnqueueType, Lengths DEF OutTypes
  <2> QED BY <1>4, <2>1, <2>2
<1> HIDE DEF n, o
<1>7. /\ DOMAIN rel' = Fds /\ rel'[r] \in {Freed, n}
      /\ rel'[Out] \in OutTypes /\ rel'[Out].recv = NoDatagram
      /\ \A f \in Relays : f # r => rel'[f] = rel[f]
  <2>1. CASE rel' = [rel EXCEPT ![r] = Freed]
    BY <1>2, <1>4, <2>1, Interfaces DEF IInv
  <2>2. CASE rel' = [rel EXCEPT ![r] = n, ![Out] = o]
    BY <1>2, <1>4, <1>6, <2>2, Interfaces DEF IInv
  <2> QED BY <1>1, <2>1, <2>2
<1>8. (rel'[r] = Freed /\ Unlink(r)) \/ (rel'[r] # Freed /\ UNCHANGED listVars)
  BY <1>1, <1>2, <1>4, <1>5, NotFreed
<1>9. \A f \in Fds : f # r => (InUse(f)' <=> InUse(f))
  BY <1>4, <1>7, NotFreed DEF InUse, Fds
<1>10. /\ RingOfSurvivors' /\ relays' \in Seq(Relays) /\ relaysNum' \in 0 .. Len(Config)
       /\ ToSet(relays) \ {r} \subseteq ToSet(relays')
       /\ \A f \in Relays : InUse(f)' => InUse(f)
  <2>1. pc # "done"
    BY <1>1
  <2> QED BY <1>2, <1>8, <1>9, <2>1, RingAfter
<1>11. TypeOK'
  <2>1. \A f \in Relays : rel'[f] \in RelayTypes \cup {Freed}
    BY <1>4, <1>5, <1>7
  <2>2. accepted' \in Seq(0 .. SeqLimit - 1)
    BY <1>1, <1>3, AppendProperties DEF IInv, TypeOK
  <2>3. delivered' \in Seq(Forwarded)
    BY <1>1, <1>3, AppendProperties DEF IInv, TypeOK
  <2> QED BY <1>1, <1>2, <1>7, <1>10, <2>1, <2>2, <2>3 DEF IInv, TypeOK, RelayTypes, OutTypes
<1>12. OutwardInUse'
  BY <1>7, NotFreed DEF OutwardInUse
<1>13. Cursor'
  <2>1. ToSet(todo) \subseteq ToSet(relays)
    BY <1>1 DEF IInv, Cursor, Looping
  <2> QED BY <1>2, <1>10, <2>1 DEF Cursor
<1>14. Buffers'
  <2>1. Empty(Out)'
    BY <1>7 DEF Empty
  <2>2. ASSUME NEW f \in Relays, f \notin ToSet(todo')
        PROVE  Empty(f)'
    <3>1. CASE f = r
      BY <1>5, <1>7, <3>1 DEF Empty
    <3>2. CASE f # r
      <4>1. Empty(f) /\ f \in Fds
        BY <1>1, <1>2, <1>4, <2>2, <3>2 DEF IInv, Buffers
      <4> QED BY <1>7, <3>2, <4>1 DEF Empty
    <3> QED BY <3>1, <3>2
  <2> QED BY <1>1, <2>1, <2>2 DEF IInv, Buffers
<1>15. Counted'
  <2>1. rel'[Out].recv = rel[Out].recv
    BY <1>4, <1>7
  <2> QED BY <1>1, <1>10, <2>1, CountedKept DEF IInv, Ended
<1>16. Numbering'
  BY <1>1 DEF IInv, Numbering
<1> QED BY <1>10, <1>11, <1>12, <1>13, <1>14, <1>15, <1>16 DEF IInv

-----------------------------------------------------------------------------

(* udprelay_init() establishes the invariant.                              *)
LEMMA InitHolds ==
  ASSUME Init
  PROVE  IInv
<1>1. /\ pc = "select" /\ rfds = {} /\ wfds = {} /\ todo = <<>>
      /\ relays = Config /\ relaysNum = Len(Config)
      /\ rel = [f \in Fds |-> NewRelay(IF f = Out THEN OutRemote ELSE Peer)]
      /\ buffer = NoDatagram /\ seq = 0
      /\ sigterm \in BOOLEAN /\ armed \subseteq Signals /\ accepted = <<>>
      /\ tried = [r \in Relays |-> <<>>] /\ delivered = <<>>
      /\ inbound = 0 /\ relayed = 0
  BY DEF Init
<1>2. /\ DOMAIN rel = Fds /\ Out \in Fds /\ Relays \subseteq Fds /\ Out \notin Relays
      /\ rel[Out] = NewRelay(OutRemote) /\ \A r \in Relays : rel[r] = NewRelay(Peer)
  BY <1>1, RelaysAssumption DEF Fds
<1>3. rel[Out] \in OutTypes /\ \A r \in Relays : rel[r] \in RelayTypes
  <2>1. OutRemote \in {App, NoAddr} /\ Peer \in {Peer}
    BY AddrAssumption
  <2>2. NewRelay(OutRemote) \in OutTypes
    BY <2>1, NewRelayType DEF OutTypes
  <2>3. NewRelay(Peer) \in RelayTypes
    BY <2>1, NewRelayType DEF RelayTypes
  <2> QED BY <1>2, <2>2, <2>3
<1>4. \A f \in Fds : InUse(f) /\ rel[f].recv = NoDatagram
  <2>1. \A a : NewRelay(a).recv = NoDatagram
    BY DEF NewRelay
  <2> QED BY <1>2, <1>3, <2>1, NotFreed DEF Fds, InUse
<1>5. TypeOK
  <2>1. /\ seq \in 0 .. SeqLimit - 1 /\ inbound \in 0 .. MaxInbound
        /\ relayed \in 0 .. MaxRelayed /\ relaysNum \in 0 .. Len(Config)
    BY <1>1, TrackAssumption, BoundAssumption, RelaysAssumption
  <2>2. /\ todo \in Seq(Relays) /\ relays \in Seq(Relays)
        /\ accepted \in Seq(0 .. SeqLimit - 1) /\ delivered \in Seq(Forwarded)
        /\ tried \in [Relays -> Seq(Copy)]
    BY <1>1, RelaysAssumption
  <2> QED BY <1>1, <1>2, <1>3, <2>1, <2>2 DEF TypeOK, OutTypes, RelayTypes
<1>6. RingOfSurvivors
  <2>1. Live = Fds
    BY <1>4 DEF Live, InUse
  <2>2. ToSet(Config) = Live \ {Out}
    BY <1>2, <2>1 DEF Relays, Fds
  <2>3. 0 \in 0 .. Len(Config)
    BY RelaysAssumption
  <2> QED BY <1>1, <2>2, <2>3, OrderConfig, Ordered
<1>7. OutwardInUse
  BY <1>2, <1>4 DEF OutwardInUse, InUse
<1>8. Cursor
  BY <1>1 DEF Cursor, Looping
<1>9. Buffers
  BY <1>1, <1>4 DEF Buffers, Empty
<1>10. Counted
  <2>1. ~Held /\ Dispatched = 0
    BY <1>1, <1>2, <1>4 DEF Held, Dispatched
  <2>2. \A r \in Relays : Offered(r) = 0 /\ Len(tried[r]) = 0
    BY <1>1, <2>1 DEF Offered
  <2>3. seq = Dispatched % SeqLimit
    BY <1>1, <2>1, TrackAssumption
  <2> QED BY <1>1, <1>2, <1>4, <2>1, <2>2, <2>3 DEF Counted
<1>11. Numbering
  BY <1>1 DEF Numbering
<1> QED BY <1>5, <1>6, <1>7, <1>8, <1>9, <1>10, <1>11 DEF IInv

(* Every step of the program keeps the invariant.                          *)
LEMMA NextKeeps ==
  ASSUME IInv, Next
  PROVE  IInv'
<1>1. CASE Polling
  BY <1>1, SelectKeeps, SelectErrorKeeps DEF Polling
<1>2. CASE Handling
  BY <1>2, HandleOutwardKeeps, HandleRelayKeeps, ReceiveInboundKeeps, CopyToRelayKeeps,
     EndInboundKeeps, SkipRelayedKeeps, ForwardRelayedKeeps, EndRelayedKeeps, TerminateKeeps
  DEF Handling
<1>3. CASE \E g \in Signals : Signal(g)
  BY <1>3, SignalKeeps
<1> QED BY <1>1, <1>2, <1>3 DEF Next

(* Nothing happens.                                                        *)
LEMMA StutterKeeps ==
  ASSUME IInv, UNCHANGED vars
  PROVE  IInv'
<1>1. TypeOK'
  BY DEF IInv, TypeOK, vars
<1>2. RingOfSurvivors' /\ OutwardInUse' /\ Cursor'
  BY DEF IInv, RingOfSurvivors, Live, OutwardInUse, Cursor, Looping, vars
<1>3. Buffers' /\ Numbering'
  BY DEF IInv, Buffers, Empty, Numbering, vars
<1>4. Counted'
  <2>1. (Held' <=> Held) /\ Dispatched' = Dispatched
    BY DEF Held, Dispatched, vars
  <2>2. \A r \in Relays : Offered(r)' = Offered(r)
    BY <2>1 DEF Offered, vars
  <2> QED BY <2>1, <2>2 DEF IInv, Counted, Ended, vars
<1> QED BY <1>1, <1>2, <1>3, <1>4 DEF IInv

(* The invariant holds in every run.                                       *)
THEOREM Invariance == Spec => []IInv
<1>1. Init => IInv
  BY InitHolds
<1>2. IInv /\ [Next]_vars => IInv'
  BY NextKeeps, StutterKeeps
<1> QED BY <1>1, <1>2, PTL DEF Spec

(* The state of main() keeps its shape.                                    *)
THEOREM TypeCorrect == Spec => []TypeOK
<1>1. IInv => TypeOK
  BY DEF IInv
<1> QED BY <1>1, Invariance, PTL

(* udprelay.relays and relays_num: whichever relays main() and the two     *)
(* dispatch functions delete from the list they iterate over, it holds     *)
(* exactly those still in use, in the order of the file.                   *)
THEOREM RingIsSurvivors == Spec => []RingOfSurvivors
<1>1. IInv => RingOfSurvivors
  BY DEF IInv
<1> QED BY <1>1, Invariance, PTL

(* CLIST_FOREACH never arrives at a relay_t that was freed.                *)
THEOREM CursorSafe == Spec => []CursorOnLiveRelays
<1>1. IInv => CursorOnLiveRelays
  <2> SUFFICES ASSUME IInv, Looping
               PROVE  IsInjective(todo) /\ ToSet(todo) \subseteq Live
    BY DEF CursorOnLiveRelays, Looping
  <2>1. IsInjective(todo) /\ ToSet(todo) \subseteq ToSet(relays)
    BY DEF IInv, Cursor
  <2>2. ToSet(relays) \subseteq Live
    BY DEF IInv, RingOfSurvivors, Looping
  <2> QED BY <2>1, <2>2
<1> QED BY <1>1, Invariance, PTL

(* No datagram waits in a receive buffer while main() waits in select().   *)
THEOREM NothingLeft == Spec => []NothingLeftBehind
<1>1. IInv => NothingLeftBehind
  BY DEF IInv, NothingLeftBehind, Buffers, Empty, Live
<1> QED BY <1>1, Invariance, PTL

(* The numbers udprelay_dispatch_inbound() gives: the same to all relays,  *)
(* consecutive, and every relay in use has all of them.                    *)
THEOREM RelaysServed == Spec => []EveryRelayServed
<1>1. IInv => EveryRelayServed
  <2> SUFFICES ASSUME IInv, NEW r \in Relays
               PROVE  LET copies == [i \in DOMAIN tried[r] |-> <<tried[r][i].id, tried[r][i].seq>>]
                      IN  /\ copies = Numbered(Len(copies))
                          /\ pc = "select" /\ r \in Live => Len(copies) = inbound
    BY DEF EveryRelayServed
  <2> DEFINE copies == [i \in DOMAIN tried[r] |-> <<tried[r][i].id, tried[r][i].seq>>]
  <2>1. tried[r] \in Seq(Copy)
    BY DEF IInv, TypeOK
  <2>2. DOMAIN tried[r] = 1 .. Len(tried[r]) /\ Len(tried[r]) \in Nat
    BY <2>1
  <2>3. Len(copies) = Len(tried[r])
    BY <2>2
  <2>4. copies = Numbered(Len(tried[r]))
    BY <2>2 DEF Numbered, IInv, Numbering
  <2>5. pc = "select" /\ r \in Live => Len(tried[r]) = inbound
    <3> SUFFICES ASSUME pc = "select", r \in Live
                 PROVE  Len(tried[r]) = inbound
      OBVIOUS
    <3>1. buffer = NoDatagram /\ rel[Out].recv = NoDatagram
      BY Interfaces DEF IInv, Buffers, OutwardInUse, Empty
    <3>2. Offered(r) = inbound
      BY <3>1 DEF Offered, Dispatched, Held
    <3> QED BY <3>2 DEF IInv, Counted, Ended, Live
  <2> QED BY <2>3, <2>4, <2>5
<1> QED BY <1>1, Invariance, PTL

-----------------------------------------------------------------------------
(* The loop implements Dispatcher.                                         *)

DaemonOf(u, s, c, h, a) == [up |-> u, seq |-> s, current |-> c, handed |-> h, accepted |-> a]

Up      == Live \ {Out}
Current == IF buffer = NoDatagram THEN 0 ELSE buffer.id
Handed  == [r \in Relays |-> LastCopy(r)]
Daemon  == DaemonOf(Up, seq, Current, Handed, accepted)

(* One component of it replaced.                                           *)
LEMMA Replaced ==
  ASSUME NEW u, NEW s, NEW c, NEW h, NEW a, NEW d, d = DaemonOf(u, s, c, h, a)
  PROVE  /\ \A x : [d EXCEPT !.up = x] = DaemonOf(x, s, c, h, a)
         /\ \A x : [d EXCEPT !.seq = x] = DaemonOf(u, x, c, h, a)
         /\ \A x : [d EXCEPT !.current = x] = DaemonOf(u, s, x, h, a)
         /\ \A x : [d EXCEPT !.handed = x] = DaemonOf(u, s, c, x, a)
         /\ \A x : [d EXCEPT !.accepted = x] = DaemonOf(u, s, c, h, x)
         /\ d.up = u /\ d.seq = s /\ d.current = c /\ d.handed = h /\ d.accepted = a
BY DEF DaemonOf

(* The steps of Dispatcher, part by part.                                  *)
LEMMA AbstractSteps ==
  /\ Abstract!Fresh = DaemonOf(Relays, 0, 0, [r \in Relays |-> [id |-> 0, seq |-> 0]], <<>>)
  /\ \A id : Abstract!AfterBegin(id) = DaemonOf(Up, seq, id, Handed, accepted)
  /\ \A r : Abstract!AfterHand(r) =
              DaemonOf(Up, seq, Current,
                       [Handed EXCEPT ![r] = [id |-> Current, seq |-> seq]], accepted)
  /\ Abstract!AfterAdvance = DaemonOf(Up, (seq + 1) % SeqLimit, 0, Handed, accepted)
  /\ \A R : Abstract!AfterLose(R) = DaemonOf(Up \ R, seq, Current, Handed, accepted)
  /\ \A s, R : Abstract!AfterAccept(s, R) =
                 DaemonOf(Up \ R, seq, Current, Handed, Append(accepted, s))
<1> DEFINE d == [up       |-> Live \ {Out},
                 seq      |-> seq,
                 current  |-> IF buffer = NoDatagram THEN 0 ELSE buffer.id,
                 handed   |-> [r \in Relays |-> LastCopy(r)],
                 accepted |-> accepted]
<1>1. Abstract!Fresh = DaemonOf(Relays, 0, 0, [r \in Relays |-> [id |-> 0, seq |-> 0]], <<>>)
  BY DEF Abstract!Fresh, Abstract!NoCopy, Abstract!None, DaemonOf
<1>2. d = DaemonOf(Up, seq, Current, Handed, accepted)
  BY DEF DaemonOf, Up, Current, Handed
<1>r. /\ \A x : [d EXCEPT !.up = x] = DaemonOf(x, seq, Current, Handed, accepted)
      /\ \A x : [d EXCEPT !.current = x] = DaemonOf(Up, seq, x, Handed, accepted)
      /\ \A x : [d EXCEPT !.handed = x] = DaemonOf(Up, seq, Current, x, accepted)
      /\ \A x : [d EXCEPT !.accepted = x] = DaemonOf(Up, seq, Current, Handed, x)
  <2> HIDE DEF d
  <2> QED BY <1>2, Replaced
<1>3. \A id : Abstract!AfterBegin(id) = [d EXCEPT !.current = id]
  BY DEF Abstract!AfterBegin
<1>4. \A r : Abstract!AfterHand(r) = [d EXCEPT !.handed = [d.handed EXCEPT ![r] = [id |-> d.current, seq |-> d.seq]]]
  BY DEF Abstract!AfterHand
<1> DEFINE e == [d EXCEPT !.current = 0]
<1>5. Abstract!AfterAdvance = [e EXCEPT !.seq = (d.seq + 1) % SeqLimit]
  BY DEF Abstract!AfterAdvance, Abstract!None
<1>6. \A R : Abstract!AfterLose(R) = [d EXCEPT !.up = d.up \ R]
  BY DEF Abstract!AfterLose
<1> DEFINE f(s) == [d EXCEPT !.accepted = Append(d.accepted, s)]
<1>7. \A s, R : Abstract!AfterAccept(s, R) = [f(s) EXCEPT !.up = d.up \ R]
  BY DEF Abstract!AfterAccept
<1> HIDE DEF d
<1>8. /\ d.up = Up /\ d.seq = seq /\ d.current = Current /\ d.handed = Handed
      /\ d.accepted = accepted
  BY <1>2, Replaced
<1>9. \A id : Abstract!AfterBegin(id) = DaemonOf(Up, seq, id, Handed, accepted)
  BY <1>3, <1>r
<1>10. ASSUME NEW r
       PROVE  Abstract!AfterHand(r) =
                DaemonOf(Up, seq, Current,
                         [Handed EXCEPT ![r] = [id |-> Current, seq |-> seq]], accepted)
  <2> DEFINE x == [d.handed EXCEPT ![r] = [id |-> d.current, seq |-> d.seq]]
  <2>1. x = [Handed EXCEPT ![r] = [id |-> Current, seq |-> seq]]
    BY <1>8
  <2>2. Abstract!AfterHand(r) = [d EXCEPT !.handed = x]
    BY <1>4
  <2> HIDE DEF x
  <2> QED BY <1>r, <2>1, <2>2
<1>11. Abstract!AfterAdvance = DaemonOf(Up, (seq + 1) % SeqLimit, 0, Handed, accepted)
  <2>1. e = DaemonOf(Up, seq, 0, Handed, accepted)
    BY <1>r
  <2> HIDE DEF e
  <2> QED BY <1>5, <1>8, <2>1, Replaced
<1>12. ASSUME NEW R
       PROVE  Abstract!AfterLose(R) = DaemonOf(Up \ R, seq, Current, Handed, accepted)
  <2> DEFINE x == d.up \ R
  <2>1. x = Up \ R
    BY <1>8
  <2>2. Abstract!AfterLose(R) = [d EXCEPT !.up = x]
    BY <1>6
  <2> HIDE DEF x
  <2> QED BY <1>r, <2>1, <2>2
<1>13. ASSUME NEW s, NEW R
       PROVE  Abstract!AfterAccept(s, R) =
                DaemonOf(Up \ R, seq, Current, Handed, Append(accepted, s))
  <2> DEFINE x == d.up \ R
             y == Append(d.accepted, s)
             g == f(s)
  <2>1. x = Up \ R /\ y = Append(accepted, s)
    BY <1>8
  <2>2. Abstract!AfterAccept(s, R) = [g EXCEPT !.up = x]
    BY <1>7
  <2>3. g = [d EXCEPT !.accepted = y]
    OBVIOUS
  <2> HIDE DEF x, y, g
  <2>4. g = DaemonOf(Up, seq, Current, Handed, y)
    BY <1>r, <2>3
  <2>5. \A z : [g EXCEPT !.up = z] = DaemonOf(z, seq, Current, Handed, y)
    BY <2>4, Replaced
  <2> QED BY <2>1, <2>2, <2>5
<1> QED BY <1>1, <1>9, <1>10, <1>11, <1>12, <1>13

(* And its guards.                                                         *)
LEMMA AbstractGuards ==
  /\ \A id : Abstract!MayBegin(id) <=> Current = 0 /\ \A r \in Relays : LastCopy(r).id < id
  /\ \A r \in Relays : Abstract!MayHand(r) <=> /\ Current # 0 /\ r \in Up
                                               /\ LastCopy(r).id # Current
  /\ Up \subseteq Relays =>
       (Abstract!MayAdvance <=> Current # 0 /\ \A r \in Up : LastCopy(r).id = Current)
  /\ \A s, R : Abstract!MayAccept(s, R) <=> s \notin Abstract!Recent /\ R \subseteq Up
<1>1. \A id : Abstract!MayBegin(id) <=> Current = 0 /\ \A r \in Relays : LastCopy(r).id < id
  BY DEF Abstract!MayBegin, Abstract!None, Current
<1>2. \A r \in Relays : Abstract!MayHand(r) <=> /\ Current # 0 /\ r \in Up
                                                /\ LastCopy(r).id # Current
  BY DEF Abstract!MayHand, Abstract!None, Current, Up
<1>3. Up \subseteq Relays =>
       (Abstract!MayAdvance <=> Current # 0 /\ \A r \in Up : LastCopy(r).id = Current)
  BY DEF Abstract!MayAdvance, Abstract!None, Current, Up
<1>4. \A s, R : Abstract!MayAccept(s, R) <=> s \notin Abstract!Recent /\ R \subseteq Up
  BY DEF Abstract!MayAccept, Up
<1> QED BY <1>1, <1>2, <1>3, <1>4

(* The last copy a relay took is the one of its last number.               *)
LEMMA LastCopyId ==
  ASSUME IInv, NEW r \in Relays
  PROVE  LastCopy(r).id = Len(tried[r]) /\ Len(tried[r]) \in Nat
<1>1. tried[r] \in Seq(Copy)
  BY DEF IInv, TypeOK
<1>2. Len(tried[r]) \in Nat /\ (tried[r] = <<>> <=> Len(tried[r]) = 0)
  BY <1>1, LenProperties, EmptySeq
<1>3. CASE tried[r] = <<>>
  BY <1>2, <1>3 DEF LastCopy
<1>4. CASE tried[r] # <<>>
  <2>1. Len(tried[r]) \in 1 .. Len(tried[r])
    BY <1>2, <1>4
  <2>2. tried[r][Len(tried[r])].id = Len(tried[r])
    BY <2>1 DEF IInv, Numbering
  <2> QED BY <1>2, <1>4, <2>2 DEF LastCopy, Last
<1> QED BY <1>3, <1>4

(* The daemon depends on nothing but what is listed here.                  *)
LEMMA DaemonKept ==
  ASSUME UNCHANGED <<seq, buffer, tried, accepted>>, Up' = Up
  PROVE  Daemon' = Daemon
<1>1. Current' = Current
  BY DEF Current
<1>2. Handed' = Handed
  BY DEF Handed, LastCopy
<1> QED BY <1>1, <1>2 DEF Daemon, DaemonOf

(* The list's members are the relays Dispatcher has in use.                *)
LEMMA UpIs ==
  ASSUME TypeOK, RingOfSurvivors
  PROVE  /\ Up = {r \in Relays : InUse(r)}
         /\ pc # "done" => Up = ToSet(relays)
BY RelaysAssumption DEF Up, Live, InUse, Fds, RingOfSurvivors

(* ReceiveInbound is Begin of the dispatcher, or is not seen.              *)
LEMMA ReceiveInboundMapped ==
  ASSUME IInv, ReceiveInbound
  PROVE  Abstract!Next \/ Daemon' = Daemon
<1>1. /\ pc = "relays" /\ todo = <<>> /\ buffer' = rel[Out].recv
      /\ rel' = [rel EXCEPT ![Out] = AfterReceive(rel[Out])]
      /\ UNCHANGED <<inbound, seq, accepted, tried>>
  BY DEF ReceiveInbound, listVars, dataVars
<1>2. Up' = Up
  <2>1. DOMAIN rel = Fds /\ Out \in Fds
    BY Interfaces DEF IInv
  <2>2. \A f \in Fds \ {Out} : rel'[f] = rel[f]
    BY <1>1, <2>1
  <2> QED BY <2>2 DEF Up, Live
<1>3. buffer = NoDatagram /\ rel[Out] \in OutTypes
  BY <1>1, Interfaces DEF IInv, Buffers, OutwardInUse, InUse
<1>4. CASE rel[Out].recv = NoDatagram
  BY <1>1, <1>2, <1>3, <1>4, DaemonKept
<1>5. CASE rel[Out].recv # NoDatagram
  <2>1. rel[Out].recv \in InboundDatagram /\ rel[Out].recv.id = inbound
    BY <1>1, <1>3, <1>5 DEF IInv, Counted, Ended, OutTypes, RelayType
  <2>2. inbound \in 1 .. MaxInbound /\ inbound \in Nat
    BY <2>1, Lengths DEF InboundDatagram, IInv, TypeOK
  <2>3. Current = 0 /\ Current' = inbound
    BY <1>1, <1>3, <1>5, <2>1 DEF Current
  <2>4. Abstract!MayBegin(inbound)
    <3>1. ASSUME NEW r \in Relays
          PROVE  LastCopy(r).id < inbound
      <4>1. Offered(r) = inbound - 1
        BY <1>1, <1>5 DEF Offered, Dispatched, Held
      <4>2. Len(tried[r]) <= inbound - 1
        BY <1>1, <4>1 DEF IInv, Counted, Ended
      <4> QED BY <2>2, <4>2, LastCopyId
    <3> QED BY <2>3, <3>1, AbstractGuards
  <2>5. Daemon' = Abstract!AfterBegin(inbound)
    <3>1. Handed' = Handed
      BY <1>1 DEF Handed, LastCopy
    <3> QED BY <1>1, <1>2, <2>3, <3>1, AbstractSteps DEF Daemon, DaemonOf
  <2> QED BY <2>2, <2>4, <2>5 DEF Abstract!Next, Daemon, DaemonOf, Up, Current, Handed
<1> QED BY <1>4, <1>5

(* What a step does to the list it does to the relays in use.              *)
LEMMA UpAfter ==
  ASSUME IInv, IInv', pc # "done", pc' # "done"
  PROVE  /\ Up \subseteq Relays /\ Up = ToSet(relays)
         /\ ToSet(relays') = ToSet(relays) => Up' = Up
         /\ \A r \in ToSet(relays) : Unlink(r) => Up' = Up \ {r}
<1>1. Up = ToSet(relays) /\ Up' = ToSet(relays') /\ Up \subseteq Relays
  <2>1. Up = ToSet(relays) /\ Up \subseteq Relays
    BY UpIs DEF IInv
  <2>2. Up' = ToSet(relays')
    BY DEF IInv, RingOfSurvivors, Up
  <2> QED BY <2>1, <2>2
<1>2. ASSUME NEW r \in ToSet(relays), Unlink(r)
      PROVE  ToSet(relays') = ToSet(relays) \ {r}
  <2>1. relays \in Seq(Relays) /\ IsInjective(relays)
    BY Members DEF IInv
  <2> QED BY <1>2, <2>1, Removed DEF Unlink
<1> QED BY <1>1, <1>2

(* Relays that go out of use, and nothing else, are Lose.                  *)
LEMMA LoseMapped ==
  ASSUME UNCHANGED <<seq, buffer, tried, accepted>>,
         NEW R \in SUBSET Relays, Up' = Up \ R
  PROVE  Abstract!Next
<1>1. Current' = Current /\ Handed' = Handed
  BY DEF Current, Handed, LastCopy
<1>2. Daemon' = Abstract!AfterLose(R)
  BY <1>1, AbstractSteps DEF Daemon, DaemonOf
<1> QED BY <1>2 DEF Abstract!Next, Daemon, DaemonOf, Up, Current, Handed

(* Steps that give no datagram to anybody.                                 *)
LEMMA QuietMapped ==
  ASSUME IInv, IInv', pc # "done", pc' # "done",
         UNCHANGED <<seq, buffer, tried, accepted, relays>>
  PROVE  Daemon' = Daemon
BY UpAfter, DaemonKept

(* A relay that fails in relay_handle() is lost.                           *)
LEMMA HandleRelayMapped ==
  ASSUME IInv, IInv', NEW read \in Answers(NextRelayed), NEW wres \in SendResults,
         HandleRelay(read, wres)
  PROVE  Abstract!Next \/ Daemon' = Daemon
<1>r. PICK r : r = Head(todo)
  OBVIOUS
<1>1. /\ pc = "relays" /\ pc' = pc /\ todo # <<>>
      /\ Unlink(r) \/ UNCHANGED listVars
      /\ UNCHANGED <<seq, buffer, tried, accepted>>
  BY <1>r DEF HandleRelay, dataVars
<1>2. r \in Relays /\ r \in ToSet(relays)
  BY <1>r, <1>1, AtCursor DEF IInv, Looping
<1>3. CASE Unlink(r)
  <2>1. Up' = Up \ {r}
    BY <1>1, <1>2, <1>3, UpAfter
  <2> QED BY <1>1, <1>2, <2>1, LoseMapped
<1>4. CASE UNCHANGED listVars
  BY <1>1, <1>4, QuietMapped DEF listVars
<1> QED BY <1>1, <1>3, <1>4

(* udprelay_cleanup() loses all of them.                                   *)
LEMMA TerminateMapped ==
  ASSUME IInv, Terminate
  PROVE  Abstract!Next
<1>1. Up = ToSet(relays) /\ Up \subseteq Relays
  BY UpIs DEF IInv, Terminate
<1>2. Up' = {}
  BY <1>1 DEF Terminate, Up, Live
<1>3. Up' = Up \ Relays
  BY <1>1, <1>2
<1>4. UNCHANGED <<seq, buffer, tried, accepted>>
  BY DEF Terminate, dataVars
<1> QED BY <1>3, <1>4, LoseMapped

(* A copy taken is Hand, a failing relay Lose.                             *)
LEMMA CopyToRelayMapped ==
  ASSUME IInv, IInv', NEW res \in SendResults, CopyToRelay(res)
  PROVE  Abstract!Next
<1>r. PICK r, d : r = Head(todo) /\ d = Stamped(buffer)
  OBVIOUS
<1>1. /\ pc = "inbound" /\ pc' = pc /\ todo # <<>>
      /\ \/ Unlink(r) /\ UNCHANGED tried
         \/ tried' = [tried EXCEPT ![r] = Append(@, d)] /\ UNCHANGED listVars
      /\ UNCHANGED <<buffer, seq, accepted>>
  BY <1>r DEF CopyToRelay
<1>2. r \in Relays /\ r \in ToSet(relays) /\ InUse(r) /\ r \in ToSet(todo)
  BY <1>r, <1>1, AtCursor DEF IInv, Looping
<1>3. Up \subseteq Relays /\ Up = ToSet(relays)
  BY <1>1, UpAfter
<1>4. CASE Unlink(r) /\ UNCHANGED tried
  <2>1. Up' = Up \ {r}
    BY <1>1, <1>2, <1>4, UpAfter
  <2> QED BY <1>1, <1>2, <1>4, <2>1, LoseMapped
<1>5. CASE tried' = [tried EXCEPT ![r] = Append(@, d)] /\ UNCHANGED listVars
  <2>1. /\ Current = inbound /\ inbound >= 1 /\ inbound \in Nat /\ Dispatched = inbound - 1
        /\ d \in Copy /\ d.id = inbound /\ d.seq = seq
    BY <1>r, <1>1, StampedCopy, NotNoDatagram DEF Current
  <2>2. LastCopy(r).id = inbound - 1
    <3>1. Offered(r) = inbound - 1
      BY <1>2, <2>1 DEF Offered
    <3>2. Len(tried[r]) = inbound - 1
      BY <1>1, <1>2, <3>1 DEF IInv, Counted, Ended, InUse
    <3> QED BY <1>2, <3>2, LastCopyId
  <2>3. Abstract!MayHand(r)
    BY <1>2, <1>3, <2>1, <2>2, AbstractGuards
  <2>4. /\ tried \in [Relays -> Seq(Copy)]
        /\ \A f \in Relays : f # r => tried'[f] = tried[f]
        /\ tried'[r] = Append(tried[r], d)
    BY <1>2, <1>5 DEF IInv, TypeOK
  <2>5. LastCopy(r)' = [id |-> inbound, seq |-> seq]
    <3>1. /\ Append(tried[r], d) # <<>>
          /\ Last(Append(tried[r], d)) = d
      <4> DEFINE t == tried[r]
      <4>1. t \in Seq(Copy)
        BY <1>2, <2>4
      <4> HIDE DEF t
      <4>2. /\ Len(Append(t, d)) = Len(t) + 1 /\ Append(t, d)[Len(t) + 1] = d
            /\ Len(t) \in Nat /\ Append(t, d) \in Seq(Copy)
        BY <2>1, <4>1, AppendProperties, LenProperties
      <4>3. Append(t, d) # <<>>
        BY <4>2, EmptySeq
      <4> QED BY <4>2, <4>3 DEF Last, t
    <3> QED BY <2>1, <2>4, <3>1 DEF LastCopy
  <2>6. Handed' = [Handed EXCEPT ![r] = [id |-> Current, seq |-> seq]]
    <3>1. \A f \in Relays : f # r => LastCopy(f)' = LastCopy(f)
      BY <2>4 DEF LastCopy
    <3> QED BY <1>2, <2>1, <2>5, <3>1 DEF Handed
  <2>7. Up' = Up /\ Current' = Current
    BY <1>1, <1>5, UpAfter DEF listVars, Current
  <2>8. Daemon' = Abstract!AfterHand(r)
    BY <1>1, <2>6, <2>7, AbstractSteps DEF Daemon, DaemonOf
  <2> QED BY <1>2, <2>3, <2>8 DEF Abstract!Next, Daemon, DaemonOf, Up, Current, Handed
<1> QED BY <1>1, <1>4, <1>5

(* The end of udprelay_dispatch_inbound() is Advance.                      *)
LEMMA EndInboundMapped ==
  ASSUME IInv, IInv', EndInbound
  PROVE  Abstract!Next
<1>1. /\ pc = "inbound" /\ todo = <<>> /\ pc' \in {"crashed", "relayed"}
      /\ seq' = (seq + 1) % SeqLimit /\ buffer' = NoDatagram
      /\ relays' = relays \/ (relays # <<>> /\ relays' = Append(Tail(relays), Head(relays)))
      /\ UNCHANGED <<relaysNum, rel, accepted, tried, inbound>>
  BY DEF EndInbound
<1>2. Up \subseteq Relays /\ Up' = Up
  <2>1. ToSet(relays') = ToSet(relays)
    BY <1>1, Turned DEF IInv, TypeOK
  <2> QED BY <1>1, <2>1, UpAfter
<1>3. /\ Current = inbound /\ inbound >= 1 /\ Current' = 0
  BY <1>1, StampedCopy, NotNoDatagram DEF Current
<1>4. Abstract!MayAdvance
  <2>1. ASSUME NEW r \in Up
        PROVE  LastCopy(r).id = inbound
    <3>1. Offered(r) = inbound
      BY <1>1, NoMembers DEF Offered
    <3>2. InUse(r) /\ r \in Relays
      BY UpIs DEF IInv
    <3>3. Len(tried[r]) = inbound
      BY <1>1, <3>1, <3>2 DEF IInv, Counted, Ended, InUse
    <3> QED BY <3>2, <3>3, LastCopyId
  <2>2. inbound # 0
    BY <1>3
  <2> QED BY <1>2, <1>3, <2>1, <2>2, AbstractGuards
<1>5. Daemon' = Abstract!AfterAdvance
  <2>1. Handed' = Handed
    BY <1>1 DEF Handed, LastCopy
  <2> QED BY <1>1, <1>2, <1>3, <2>1, AbstractSteps DEF Daemon, DaemonOf
<1> QED BY <1>4, <1>5 DEF Abstract!Next, Daemon, DaemonOf, Up, Current, Handed

(* A number marked as seen is Accept.                                      *)
LEMMA ForwardRelayedMapped ==
  ASSUME IInv, IInv', NEW res \in SendResults, ForwardRelayed(res)
  PROVE  Abstract!Next
<1>r. PICK r, d : r = Head(todo) /\ d = rel[r].recv
  OBVIOUS
<1>1. /\ pc = "relayed" /\ pc' = pc /\ todo # <<>> /\ IsNew(d)
      /\ accepted' = Append(accepted, d.seq)
      /\ Unlink(r) \/ UNCHANGED listVars
      /\ UNCHANGED <<buffer, seq, tried>>
  BY <1>r DEF ForwardRelayed
<1>2. r \in Relays /\ r \in ToSet(relays) /\ rel[r] \in RelayTypes
  BY <1>r, <1>1, AtCursor DEF IInv, Looping
<1>3. d.seq \in 0 .. SeqLimit - 1 /\ d.seq \notin Abstract!Recent
  <2>1. DOMAIN accepted = 1 .. Len(accepted)
    BY DEF IInv, TypeOK
  <2>2. Abstract!Recent = Filter!Recent
    BY <2>1 DEF Abstract!Recent, Filter!Recent
  <2> QED BY <1>r, <1>1, <1>2, <2>2, NewDatagram DEF IInv
<1>4. PICK R \in SUBSET Relays : R \subseteq Up /\ Up' = Up \ R
  <2>1. CASE Unlink(r)
    <3>1. Up' = Up \ {r} /\ {r} \subseteq Up /\ {r} \in SUBSET Relays
      BY <1>1, <1>2, <2>1, UpAfter
    <3> QED BY <3>1
  <2>2. CASE UNCHANGED listVars
    <3>1. Up' = Up \ {}
      BY <1>1, <2>2, UpAfter DEF listVars
    <3> QED BY <3>1
  <2> QED BY <1>1, <2>1, <2>2
<1>5. Abstract!MayAccept(d.seq, R)
  BY <1>3, <1>4, AbstractGuards
<1>6. Daemon' = Abstract!AfterAccept(d.seq, R)
  <2>1. Handed' = Handed /\ Current' = Current
    BY <1>1 DEF Handed, LastCopy, Current
  <2> QED BY <1>1, <1>4, <2>1, AbstractSteps DEF Daemon, DaemonOf
<1> QED BY <1>3, <1>5, <1>6 DEF Abstract!Next, Daemon, DaemonOf, Up, Current, Handed

(* Every step of the loop is one step of Dispatcher or none.               *)
LEMMA NextMapped ==
  ASSUME IInv, IInv', Next
  PROVE  Abstract!Next \/ Daemon' = Daemon
<1>1. CASE \E R, W \in SUBSET Fds : Select(R, W)
  <2>1. /\ pc = "select" /\ pc' # "done"
        /\ UNCHANGED <<seq, buffer, tried, accepted, relays>>
    BY <1>1 DEF Select, listVars, dataVars
  <2> QED BY <2>1, QuietMapped
<1>2. CASE SelectError
  <2>1. /\ pc = "select" /\ pc' # "done"
        /\ UNCHANGED <<seq, buffer, tried, accepted, relays>>
    BY <1>2 DEF SelectError, listVars, dataVars
  <2> QED BY <2>1, QuietMapped
<1>3. CASE \E read \in Answers(NextInbound), wres \in SendResults : HandleOutward(read, wres)
  <2>1. /\ pc = "outward" /\ pc' # "done"
        /\ UNCHANGED <<seq, buffer, tried, accepted, relays>>
    BY <1>3 DEF HandleOutward, listVars
  <2> QED BY <2>1, QuietMapped
<1>4. CASE \E read \in Answers(NextRelayed), wres \in SendResults : HandleRelay(read, wres)
  BY <1>4, HandleRelayMapped
<1>5. CASE ReceiveInbound
  BY <1>5, ReceiveInboundMapped
<1>6. CASE \E res \in SendResults : CopyToRelay(res)
  BY <1>6, CopyToRelayMapped
<1>7. CASE EndInbound
  BY <1>7, EndInboundMapped
<1>8. CASE SkipRelayed
  <2>1. /\ pc = "relayed" /\ pc' # "done"
        /\ UNCHANGED <<seq, buffer, tried, accepted, relays>>
    BY <1>8 DEF SkipRelayed, listVars, dataVars
  <2> QED BY <2>1, QuietMapped
<1>9. CASE \E res \in SendResults : ForwardRelayed(res)
  BY <1>9, ForwardRelayedMapped
<1>10. CASE EndRelayed
  <2>1. /\ pc = "relayed" /\ pc' # "done"
        /\ UNCHANGED <<seq, buffer, tried, accepted, relays>>
    BY <1>10 DEF EndRelayed, listVars, dataVars
  <2> QED BY <2>1, QuietMapped
<1>11. CASE Terminate
  BY <1>11, TerminateMapped
<1>12. CASE \E g \in Signals : Signal(g)
  <2>1. /\ pc # "done" /\ pc' # "done"
        /\ UNCHANGED <<seq, buffer, tried, accepted, relays>>
    BY <1>12 DEF Signal, Stopped, listVars, dataVars
  <2> QED BY <2>1, QuietMapped
<1> QED
  BY <1>1, <1>2, <1>3, <1>4, <1>5, <1>6, <1>7, <1>8, <1>9, <1>10, <1>11, <1>12
  DEF Next, Polling, Handling

(* And the loop begins as Dispatcher does.                                 *)
LEMMA InitMapped ==
  ASSUME Init
  PROVE  Abstract!Init
<1>1. seq = 0 /\ buffer = NoDatagram /\ accepted = <<>> /\ tried = [r \in Relays |-> <<>>]
  BY DEF Init
<1>2. \A f \in Fds : rel[f] # Freed
  <2>1. IInv /\ DOMAIN rel = Fds /\ ToSet(relays) = Relays
    BY InitHolds, Interfaces DEF Init, IInv, Relays
  <2>2. pc # "done" /\ InUse(Out)
    BY <2>1 DEF Init, IInv, OutwardInUse, InUse
  <2> QED BY <2>1, <2>2, Members DEF IInv, InUse, Fds
<1>3. Up = Relays
  BY <1>2, RelaysAssumption DEF Up, Live, Fds
<1>4. Current = 0 /\ Handed = [r \in Relays |-> [id |-> 0, seq |-> 0]]
  BY <1>1 DEF Current, Handed, LastCopy
<1>5. Daemon = Abstract!Fresh
  BY <1>1, <1>3, <1>4, AbstractSteps DEF Daemon
<1> QED BY <1>5 DEF Abstract!Init, Daemon, DaemonOf, Up, Current, Handed

(* udprelay_dispatch_inbound() and udprelay_dispatch_relayed(), called     *)
(* from the loop of main(), do what Dispatcher promises, whichever relays  *)
(* fail at which of their calls.                                           *)
THEOREM LoopImplementsDispatcher == Spec => ImplementsDispatcher
<1>1. Init => Abstract!Init
  BY InitMapped
<1>2. IInv /\ IInv' /\ [Next]_vars => [Abstract!Next]_Daemon
  <2>1. UNCHANGED vars => Daemon' = Daemon
    BY DEF vars, Daemon, DaemonOf, Up, Live, Current, Handed, LastCopy
  <2> QED BY <2>1, NextMapped
<1> QED
  BY <1>1, <1>2, Invariance, PTL
  DEF Spec, Abstract!Spec, ImplementsDispatcher, Daemon, DaemonOf, Up, Current, Handed

-----------------------------------------------------------------------------
(* The duplicate filter at work: what leaves the outward interface, and    *)
(* the backlog it leaves through.                                          *)

Back == IF rel[Out] = Freed THEN <<>> ELSE Pending(rel[Out])

Leaving(x) == Occurrences(x, delivered) + Occurrences(x, Back)

Bounded == \A d \in WithHeader : Leaving(Payload(d)) <= Occurrences(d.seq, accepted)

Apart == \A i, j \in 1 .. Len(accepted) :
           i < j /\ accepted[i] = accepted[j] => j - i > Track

(* What leaves the outward interface is payloads.                          *)
LEMMA BackType ==
  ASSUME TypeOK
  PROVE  /\ Back \in Seq(Forwarded) /\ delivered \in Seq(Forwarded)
         /\ \A x : Occurrences(x, Back) \in Nat /\ Occurrences(x, delivered) \in Nat
<1>1. Back \in Seq(Forwarded)
  <2>1. CASE rel[Out] = Freed
    BY <2>1 DEF Back
  <2>2. CASE rel[Out] # Freed
    <3>1. rel[Out] \in OutTypes
      BY <2>2, Interfaces DEF InUse
    <3> QED BY <2>2, <3>1, PendingType DEF Back, OutTypes
  <2> QED BY <2>1, <2>2
<1>2. delivered \in Seq(Forwarded)
  BY DEF TypeOK
<1> QED BY <1>1, <1>2, PlacesFinite

(* These two say what DuplicatesFiltered says.                             *)
LEMMA FilteredMeans ==
  ASSUME TypeOK, Bounded, Apart
  PROVE  DuplicatesFiltered
<1>1. Outgoing = delivered \o Back
  BY DEF Outgoing, Back
<1>2. \A x, s : CountOf(x, s) = Occurrences(x, s)
  BY DEF CountOf, Occurrences, PlacesOf
<1>3. \A x : CountOf(x, Outgoing) = Leaving(x)
  BY <1>1, <1>2, BackType, OccurrencesConcat DEF Leaving
<1>4. DOMAIN accepted = 1 .. Len(accepted)
  BY DEF TypeOK
<1> QED BY <1>2, <1>3, <1>4 DEF DuplicatesFiltered, Bounded, Apart

(* The payload keeps the number of the datagram it came in.                *)
LEMMA PayloadSeq ==
  ASSUME NEW d \in WithHeader, NEW e \in WithHeader, Payload(d) = Payload(e)
  PROVE  d.seq = e.seq
<1>1. d \in Datagram /\ e \in Datagram
  BY Lengths DEF WithHeader
<1>2. Payload(d).seq = d.seq /\ Payload(e).seq = e.seq
  BY <1>1 DEF Payload, Datagram
<1> QED BY <1>2

(* Steps that accept nothing and send or drop what was already there.      *)
LEMMA FilteredKept ==
  ASSUME Bounded, Apart, UNCHANGED accepted, TypeOK, TypeOK',
         \A x : Leaving(x)' <= Leaving(x)
  PROVE  Bounded' /\ Apart'
<1>1. Apart'
  BY DEF Apart
<1>2. \A x : Leaving(x) \in Nat /\ Leaving(x)' \in Nat
  <2>1. \A x : Leaving(x) \in Nat
    BY BackType DEF Leaving
  <2>2. /\ Back' \in Seq(Forwarded) /\ delivered' \in Seq(Forwarded)
    <3>1. delivered' \in Seq(Forwarded)
      BY DEF TypeOK
    <3>2. Back' \in Seq(Forwarded)
      <4>1. CASE rel'[Out] = Freed
        BY <4>1 DEF Back
      <4>2. CASE rel'[Out] # Freed
        <5>1. rel'[Out] \in OutTypes
          BY <4>2 DEF TypeOK, OutTypes
        <5> QED BY <4>2, <5>1, PendingType DEF Back, OutTypes
      <4> QED BY <4>1, <4>2
    <3> QED BY <3>1, <3>2
  <2>3. \A x : Leaving(x)' \in Nat
    BY <2>2, PlacesFinite DEF Leaving
  <2> QED BY <2>1, <2>3
<1>3. ASSUME NEW d \in WithHeader
      PROVE  Leaving(Payload(d))' <= Occurrences(d.seq, accepted)'
  <2> DEFINE a == Leaving(Payload(d))
             b == Occurrences(d.seq, accepted)
             c == Leaving(Payload(d))'
  <2>1. a <= b /\ c <= a /\ a \in Nat /\ c \in Nat
    BY <1>2 DEF Bounded
  <2>2. b \in Nat
    BY PlacesFinite DEF TypeOK
  <2> HIDE DEF a, b, c
  <2>3. c <= b
    BY <2>1, <2>2
  <2> QED BY <2>3 DEF b, c
<1>4. Bounded'
  BY <1>3 DEF Bounded
<1> QED BY <1>1, <1>4

(* Steps that do not touch the outward interface.                          *)
LEMMA OutwardAlone ==
  ASSUME IInv, IInv', Bounded, Apart, UNCHANGED <<accepted, delivered>>,
         Back' = Back
  PROVE  Bounded' /\ Apart'
<1>1. \A x : Leaving(x)' = Leaving(x) /\ Leaving(x) \in Int
  BY BackType DEF Leaving, IInv
<1>2. \A x : Leaving(x)' <= Leaving(x)
  BY <1>1
<1> QED BY <1>2, FilteredKept DEF IInv

(* Steps on one relay do not change what leaves the outward interface.     *)
LEMMA RelayAlone ==
  ASSUME IInv, IInv', Bounded, Apart, UNCHANGED <<accepted, delivered>>,
         todo # <<>>, Looping, NEW n, rel' = [rel EXCEPT ![Head(todo)] = n]
  PROVE  Bounded' /\ Apart'
<1>1. Head(todo) # Out /\ Out \in Fds /\ DOMAIN rel = Fds
  BY AtCursor, Interfaces DEF IInv
<1>2. rel'[Out] = rel[Out]
  BY <1>1
<1>3. Back' = Back
  BY <1>2 DEF Back
<1> QED BY <1>3, OutwardAlone

(* What is written leaves the backlog.                                     *)
LEMMA HandleOutwardFiltered ==
  ASSUME IInv, IInv', Bounded, Apart,
         NEW read \in Answers(NextInbound), NEW wres \in SendResults,
         HandleOutward(read, wres)
  PROVE  Bounded' /\ Apart'
<1>0. PICK r, n : r = rel[Out] /\ n = AfterHandle(r, read.d, App, read.res, wres)
  OBVIOUS
<1>1. /\ pc = "outward" /\ read \in Reads(Out, NextInbound)
      /\ rel' = [rel EXCEPT ![Out] = n]
      /\ delivered' = IF wres = "sent" /\ HandleLeaves(r, read.d, read.res, wres)
                      THEN Append(delivered, Head(Pending(r))) ELSE delivered
      /\ UNCHANGED accepted
  BY <1>0 DEF HandleOutward
<1>2. r \in OutTypes /\ r # Freed /\ r.recv = NoDatagram /\ Out \in Fds /\ DOMAIN rel = Fds
  BY <1>0, <1>1, Interfaces, NotFreed DEF IInv, OutwardInUse, Buffers, Empty, InUse
<1>3. read.res = "data" => read.d \in InboundDatagram
  BY <1>1, <1>2, ReadAnswers DEF IInv
<1>4. App \in {App, NoAddr} /\ r \in RelayType({App, NoAddr}, InboundDatagram, Forwarded)
  BY <1>2 DEF OutTypes
<1>5. n \in OutTypes
  BY <1>0, <1>2, <1>3, <1>4, AfterHandleType DEF OutTypes
<1>6. rel'[Out] = n /\ n # Freed
  BY <1>1, <1>2, <1>5, NotFreed
<1>7. Back = Pending(r) /\ Back' = Pending(n)
  BY <1>0, <1>2, <1>6 DEF Back
<1>8. \A x : Occurrences(x, Back) \in Nat /\ Occurrences(x, delivered) \in Nat
  BY BackType DEF IInv
<1>n. Pending(n) = IF HandleLeaves(r, read.d, read.res, wres)
                   THEN Tail(Pending(r)) ELSE Pending(r)
  <2>1. ReadsFrom(InboundDatagram, read.d, read.res)
    BY <1>3 DEF ReadsFrom
  <2> DEFINE A == {App, NoAddr}
  <2>2. r \in RelayType(A, InboundDatagram, Forwarded) /\ r.recv = NoDatagram /\ App \in A
    BY <1>2, <1>4
  <2> HIDE DEF A
  <2>3. PICK e, x : e = read.d /\ x = read.res
    OBVIOUS
  <2>4. ReadsFrom(InboundDatagram, e, x)
    BY <2>1, <2>3
  <2>5. Pending(AfterHandle(r, e, App, x, wres)) =
          IF HandleLeaves(r, e, x, wres) THEN Tail(Pending(r)) ELSE Pending(r)
    BY <2>2, <2>4, AfterHandlePending
  <2> QED BY <1>0, <2>3, <2>5
<1>9. CASE HandleLeaves(r, read.d, read.res, wres)
  <2>1. Pending(n) = Tail(Pending(r))
    BY <1>9, <1>n
  <2>2. Pending(r) \in Seq(Forwarded) /\ Pending(r) # <<>>
    BY <1>4, <1>9, PendingType DEF HandleLeaves, Leaves
  <2>3. Tail(Pending(r)) \in Seq(Forwarded) /\ Head(Pending(r)) \in Forwarded
    BY <2>2, HeadTailProperties
  <2>4. ASSUME NEW x
        PROVE  Leaving(x)' <= Leaving(x)
    <3> DEFINE e == IF Head(Pending(r)) = x THEN 1 ELSE 0
               a == Occurrences(x, Tail(Pending(r)))
               c == Occurrences(x, delivered)
               k == Occurrences(x, delivered')
    <3>1. Occurrences(x, Pending(r)) = a + e
      BY <2>2, OccurrencesTail
    <3>2. k = c \/ k = c + e
      <4>1. Occurrences(x, Append(delivered, Head(Pending(r)))) = c + e
        BY <2>3, OccurrencesAppend DEF IInv, TypeOK
      <4> QED BY <1>1, <4>1
    <3>3. a \in Nat /\ c \in Nat /\ e \in Nat
      BY <1>8, <2>3, PlacesFinite
    <3>4. Leaving(x) = c + (a + e) /\ Leaving(x)' = k + a
      BY <1>7, <2>1, <3>1 DEF Leaving
    <3> HIDE DEF a, c, e, k
    <3> QED BY <3>2, <3>3, <3>4
  <2> QED BY <1>1, <2>4, FilteredKept DEF IInv
<1>10. CASE ~HandleLeaves(r, read.d, read.res, wres)
  <2>1. Pending(n) = Pending(r)
    BY <1>10, <1>n
  <2> QED BY <1>1, <1>7, <1>10, <2>1, OutwardAlone
<1> QED BY <1>9, <1>10

(* udprelay_cleanup() frees the backlog.                                   *)
LEMMA TerminateFiltered ==
  ASSUME IInv, IInv', Bounded, Apart, Terminate
  PROVE  Bounded' /\ Apart'
<1>1. UNCHANGED <<accepted, delivered>> /\ rel'[Out] = Freed
  BY DEF Terminate, dataVars, Fds
<1>2. Back' = <<>>
  BY <1>1 DEF Back
<1>3. ASSUME NEW x
      PROVE  Leaving(x)' <= Leaving(x)
  <2>1. Occurrences(x, <<>>) = 0
    BY FS_EmptySet DEF Occurrences, PlacesOf
  <2>2. Occurrences(x, Back) \in Nat /\ Occurrences(x, delivered) \in Nat
    BY BackType DEF IInv
  <2>3. Leaving(x)' = Occurrences(x, delivered) + 0
    BY <1>1, <1>2, <2>1 DEF Leaving
  <2> QED BY <2>2, <2>3 DEF Leaving
<1> QED BY <1>1, <1>3, FilteredKept DEF IInv

(* A number that is accepted is none of the last Track ones.               *)
LEMMA AcceptedApart ==
  ASSUME IInv, Apart, NEW s \in 0 .. SeqLimit - 1, s \notin Filter!Recent,
         accepted' = Append(accepted, s)
  PROVE  Apart'
<1> DEFINE m == Len(accepted)
<1>1. accepted \in Seq(0 .. SeqLimit - 1) /\ m \in Nat /\ Track \in Nat
  BY TrackAssumption DEF IInv, TypeOK
<1>2. /\ Len(accepted') = m + 1
      /\ \A i \in 1 .. m : accepted'[i] = accepted[i]
      /\ accepted'[m + 1] = s
  BY <1>1, AppendProperties
<1>3. \A i \in 1 .. m : accepted[i] = s => ~(i > m - Track)
  BY DEF Filter!Recent
<1> HIDE DEF m
<1>4. ASSUME NEW i \in 1 .. m + 1, NEW j \in 1 .. m + 1, i < j, accepted'[i] = accepted'[j]
      PROVE  j - i > Track
  <2>1. i \in 1 .. m
    BY <1>1, <1>4
  <2>2. CASE j = m + 1
    BY <1>1, <1>2, <1>3, <1>4, <2>1, <2>2
  <2>3. CASE j # m + 1
    <3>1. j \in 1 .. m
      BY <1>1, <2>3
    <3> QED BY <1>2, <1>4, <2>1, <3>1 DEF Apart, m
  <2> QED BY <2>2, <2>3
<1> QED BY <1>2, <1>4 DEF Apart

(* One more acceptance for one more payload.                               *)
LEMMA ForwardRelayedFiltered ==
  ASSUME IInv, IInv', Bounded, Apart, NEW res \in SendResults, ForwardRelayed(res)
  PROVE  Bounded' /\ Apart'
<1>0. PICK r, d, p : r = Head(todo) /\ d = rel[r].recv /\ p = Payload(d)
  OBVIOUS
<1>1. /\ pc = "relayed" /\ todo # <<>> /\ IsNew(d)
      /\ accepted' = Append(accepted, d.seq)
      /\ \/ rel' = [rel EXCEPT ![r] = Freed]
         \/ rel' = [rel EXCEPT ![r] = AfterReceive(rel[r]), ![Out] = Enqueue(rel[Out], p, res)]
      /\ delivered' = IF Offers(rel[Out]) /\ res = "sent" THEN Append(delivered, p)
                                                          ELSE delivered
  <2>1. r # Out
    BY <1>0, AtCursor DEF IInv, Looping, ForwardRelayed
  <2> QED BY <1>0, <2>1 DEF ForwardRelayed
<1>2. r \in Relays /\ r # Out /\ r \in Fds /\ rel[r] \in RelayTypes
  BY <1>0, <1>1, AtCursor DEF IInv, Looping
<1>3. /\ d \in WithHeader /\ d.seq \in 0 .. SeqLimit - 1
      /\ d.seq \notin Filter!Recent /\ p \in Forwarded
  BY <1>0, <1>1, <1>2, NewDatagram DEF IInv
<1>4. /\ DOMAIN rel = Fds /\ Out \in Fds /\ rel[Out] \in OutTypes /\ rel[Out] # Freed
  BY <1>1, Interfaces, NotFreed DEF IInv, InUse, OutwardInUse
<1>5. rel'[Out] = rel[Out] \/ rel'[Out] = Enqueue(rel[Out], p, res)
  BY <1>1, <1>2, <1>4
<1>6. Enqueue(rel[Out], p, res) # Freed
  BY <1>3, <1>4, EnqueueType, Lengths, NotFreed DEF OutTypes
<1>7. ASSUME NEW x
      PROVE  /\ Leaving(x)' <= Leaving(x) + IF p = x THEN 1 ELSE 0
             /\ Leaving(x) \in Nat /\ Leaving(x)' \in Int
  <2> DEFINE e == IF p = x THEN 1 ELSE 0
             a == Occurrences(x, Back)
             b == Occurrences(x, Back')
             c == Occurrences(x, delivered)
             k == Occurrences(x, delivered')
  <2>1. a \in Nat /\ c \in Nat
    BY BackType DEF IInv
  <2>2. b \in Nat /\ b <= a + IF res = "again" THEN e ELSE 0
    <3>1. Back = Pending(rel[Out])
      BY <1>4 DEF Back
    <3>2. CASE rel'[Out] = rel[Out]
      <4>1. b = a
        BY <3>2 DEF Back
      <4> QED BY <2>1, <4>1
    <3>3. CASE rel'[Out] = Enqueue(rel[Out], p, res)
      <4>1. Back' = Pending(Enqueue(rel[Out], p, res))
        BY <1>6, <3>3 DEF Back
      <4>2. Enqueue(rel[Out], p, res) \in OutTypes
        BY <1>3, <1>4, EnqueueType, Lengths DEF OutTypes
      <4>3. b \in Nat
        BY <4>1, <4>2, PendingType, PlacesFinite DEF OutTypes
      <4>4. Occurrences(x, Pending(Enqueue(rel[Out], p, res))) <=
              Occurrences(x, Pending(rel[Out])) + IF res = "again" /\ p = x THEN 1 ELSE 0
        BY <1>3, <1>4, EnqueueOccurrences DEF OutTypes
      <4>5. b <= a + IF res = "again" /\ p = x THEN 1 ELSE 0
        BY <3>1, <4>1, <4>4
      <4> HIDE DEF a, b
      <4> QED BY <4>3, <4>5
    <3> QED BY <1>5, <3>2, <3>3
  <2>3. k = c + IF Offers(rel[Out]) /\ res = "sent" THEN e ELSE 0
    <3>1. Occurrences(x, Append(delivered, p)) = c + e
      BY <1>3, OccurrencesAppend DEF IInv, TypeOK
    <3>2. CASE Offers(rel[Out]) /\ res = "sent"
      BY <1>1, <3>1, <3>2
    <3>3. CASE ~(Offers(rel[Out]) /\ res = "sent")
      BY <1>1, <2>1, <3>3
    <3> QED BY <3>2, <3>3
  <2>4. Leaving(x) = c + a /\ Leaving(x)' = k + b
    BY DEF Leaving
  <2>5. e \in {0, 1}
    OBVIOUS
  <2> HIDE DEF a, b, c, e, k
  <2>6. k + b <= c + a + e
    BY <2>1, <2>2, <2>3, <2>5
  <2>7. k + b \in Int /\ c + a \in Nat
    BY <2>1, <2>2, <2>3, <2>5
  <2> QED BY <2>4, <2>6, <2>7 DEF e
<1>8. ASSUME NEW f \in WithHeader
      PROVE  Leaving(Payload(f))' <= Occurrences(f.seq, accepted)'
  <2> DEFINE e == IF p = Payload(f) THEN 1 ELSE 0
             g == IF d.seq = f.seq THEN 1 ELSE 0
             a == Leaving(Payload(f))
             b == Leaving(Payload(f))'
             c == Occurrences(f.seq, accepted)
             k == Occurrences(f.seq, accepted)'
  <2>1. b <= a + e /\ a \in Nat /\ b \in Int
    BY <1>7
  <2>2. a <= c
    BY DEF Bounded
  <2>3. k = c + g
    <3>a. accepted \in Seq(0 .. SeqLimit - 1) /\ d.seq \in 0 .. SeqLimit - 1
      BY <1>3 DEF IInv, TypeOK
    <3> HIDE DEF g
    <3>1. Occurrences(f.seq, Append(accepted, d.seq)) =
            Occurrences(f.seq, accepted) + IF d.seq = f.seq THEN 1 ELSE 0
      BY <3>a, OccurrencesAppend
    <3> USE DEF g
    <3> QED BY <1>1, <3>1
  <2>4. e <= g /\ e \in Nat /\ g \in Nat
    BY <1>0, <1>3, PayloadSeq
  <2>5. c \in Nat
    BY PlacesFinite DEF IInv, TypeOK
  <2> HIDE DEF a, b, c, e, g, k
  <2>6. b <= k
    BY <2>1, <2>2, <2>3, <2>4, <2>5
  <2> QED BY <2>6 DEF b, k
<1>9. Bounded'
  BY <1>8 DEF Bounded
<1> QED BY <1>1, <1>3, <1>9, AcceptedApart

(* The other direction.                                                    *)
LEMMA ReceiveInboundFiltered ==
  ASSUME IInv, IInv', Bounded, Apart, ReceiveInbound
  PROVE  Bounded' /\ Apart'
<1>1. pc = "relays" /\ rel' = [rel EXCEPT ![Out] = AfterReceive(@)] /\ UNCHANGED <<accepted, delivered>>
  BY DEF ReceiveInbound, dataVars
<1>2. /\ DOMAIN rel = Fds /\ Out \in Fds /\ rel[Out] \in OutTypes /\ rel[Out] # Freed
  BY <1>1, Interfaces, NotFreed DEF IInv, InUse, OutwardInUse
<1>3. rel'[Out] = AfterReceive(rel[Out])
  BY <1>1, <1>2
<1>4. AfterReceive(rel[Out]) \in OutTypes /\ Pending(AfterReceive(rel[Out])) = Pending(rel[Out])
  BY <1>2, AfterReceiveType DEF OutTypes
<1>5. rel'[Out] # Freed
  BY <1>3, <1>4, NotFreed
<1>6. Back' = Back
  BY <1>2, <1>3, <1>4, <1>5 DEF Back
<1> QED BY <1>1, <1>6, OutwardAlone

(* Every step keeps the balance of payloads and acceptances.               *)
LEMMA NextFiltered ==
  ASSUME IInv, IInv', Bounded, Apart, Next
  PROVE  Bounded' /\ Apart'
<1>1. ASSUME UNCHANGED <<accepted, delivered, rel>>
      PROVE  Bounded' /\ Apart'
  BY <1>1, OutwardAlone DEF Back
<1>2. CASE Polling \/ EndInbound \/ EndRelayed \/ \E g \in Signals : Signal(g)
  <2>1. UNCHANGED <<accepted, delivered, rel>>
    BY <1>2 DEF Polling, Select, SelectError, EndInbound, EndRelayed, Signal, dataVars
  <2> QED BY <1>1, <2>1
<1>3. CASE \E read \in Answers(NextInbound), wres \in SendResults : HandleOutward(read, wres)
  BY <1>3, HandleOutwardFiltered
<1>4. CASE \E read \in Answers(NextRelayed), wres \in SendResults : HandleRelay(read, wres)
  <2>1. PICK read \in Answers(NextRelayed), wres \in SendResults : HandleRelay(read, wres)
    BY <1>4
  <2>2. pc = "relays" /\ todo # <<>> /\ UNCHANGED <<accepted, delivered>>
    BY <2>1 DEF HandleRelay, dataVars
  <2>3. \E n : rel' = [rel EXCEPT ![Head(todo)] = n]
    BY <2>1 DEF HandleRelay
  <2> QED BY <2>2, <2>3, RelayAlone DEF Looping
<1>5. CASE ReceiveInbound
  BY <1>5, ReceiveInboundFiltered
<1>6. CASE \E res \in SendResults : CopyToRelay(res)
  <2>1. PICK res \in SendResults : CopyToRelay(res)
    BY <1>6
  <2>2. pc = "inbound" /\ todo # <<>> /\ UNCHANGED <<accepted, delivered>>
    BY <2>1 DEF CopyToRelay
  <2>3. \E n : rel' = [rel EXCEPT ![Head(todo)] = n]
    BY <2>1 DEF CopyToRelay
  <2> QED BY <2>2, <2>3, RelayAlone DEF Looping
<1>7. CASE SkipRelayed
  <2>1. pc = "relayed" /\ todo # <<>> /\ UNCHANGED <<accepted, delivered>>
    BY <1>7 DEF SkipRelayed, dataVars
  <2>2. \E n : rel' = [rel EXCEPT ![Head(todo)] = n]
    BY <1>7 DEF SkipRelayed
  <2> QED BY <2>1, <2>2, RelayAlone DEF Looping
<1>8. CASE \E res \in SendResults : ForwardRelayed(res)
  BY <1>8, ForwardRelayedFiltered
<1>9. CASE Terminate
  BY <1>9, TerminateFiltered
<1> QED BY <1>2, <1>3, <1>4, <1>5, <1>6, <1>7, <1>8, <1>9 DEF Next, Handling

(* Nothing has been accepted or sent.                                      *)
LEMMA InitFiltered ==
  ASSUME Init
  PROVE  Bounded /\ Apart
<1>1. accepted = <<>> /\ delivered = <<>> /\ Pending(rel[Out]) = <<>>
  <2>1. rel[Out] = NewRelay(OutRemote)
    BY DEF Init, Fds
  <2>2. NewRelay(OutRemote).send = <<>> /\ NewRelay(OutRemote).queue = <<>>
    BY DEF NewRelay
  <2> QED BY <2>1, <2>2 DEF Init, Pending
<1>2. \A x : Occurrences(x, <<>>) = 0
  BY FS_EmptySet DEF Occurrences, PlacesOf
<1>3. Back = <<>>
  BY <1>1 DEF Back
<1>4. Bounded
  BY <1>1, <1>2, <1>3 DEF Bounded, Leaving
<1>5. Apart
  BY <1>1 DEF Apart
<1> QED BY <1>4, <1>5

(* Every payload leaves the outward interface, or waits to, at most once   *)
(* for every time its number was accepted, and a number is accepted again  *)
(* only after more than Track others: whatever the peers send, in whatever *)
(* order, and whichever sends fail or have to wait.                        *)
THEOREM OnlyOnce == Spec => []DuplicatesFiltered
<1>1. Init => Bounded /\ Apart
  BY InitFiltered
<1>2. IInv /\ IInv' /\ (Bounded /\ Apart) /\ [Next]_vars => (Bounded /\ Apart)'
  <2>1. UNCHANGED vars /\ Bounded /\ Apart => Bounded' /\ Apart'
    BY DEF vars, Bounded, Apart, Leaving, Back
  <2> QED BY <2>1, NextFiltered
<1>3. IInv /\ Bounded /\ Apart => DuplicatesFiltered
  BY FilteredMeans DEF IInv
<1> QED BY <1>1, <1>2, <1>3, Invariance, PTL DEF Spec
=============================================================================
