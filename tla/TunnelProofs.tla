----------------------------- MODULE TunnelProofs -----------------------------
(***************************************************************************)
(* What holds of two daemons and any network between them, for all numbers *)
(* of relays, datagrams and restarts.  The parts of the invariant speak of *)
(* the shape of the state, of how a sender numbers its datagrams, and of   *)
(* how a receiver's filter relates to what it has accepted in all its runs.*)
(***************************************************************************)
EXTENDS Tunnel, SequenceLemmas, TLAPS

DaemonShape == [up : SUBSET Relays, seq : Numbers, current : Nat,
                handed : [Relays -> [id : Nat, seq : Numbers]], accepted : Seq(Numbers)]

CopyShape == [from : Nodes, epoch : Nat, relay : Relays, id : Nat \ {0}, seq : Numbers]

EntryShape == [id : Nat \ {0}, seq : Numbers, epoch : Nat, during : Nat, run : Nat]

Shape == /\ nodes \in [Nodes -> DaemonShape]
         /\ epoch \in [Nodes -> Nat]
         /\ sent \in [Nodes -> Nat]
         /\ net \subseteq CopyShape
         /\ accepted \in [Nodes -> Seq(EntryShape)]

(* The datagram in hand is the last one given; no copy is from the future. *)
Present == /\ \A n \in Nodes : nodes[n].current # 0 => nodes[n].current = sent[n]
           /\ \A c \in net : c.epoch <= epoch[c.from] /\ c.id <= sent[c.from]

(* All copies of a datagram are from one run of the sender.                *)
OneRun ==
  /\ \A c \in net : c.id = nodes[c.from].current => c.epoch = epoch[c.from]
  /\ \A c, d \in net : c.from = d.from /\ c.id = d.id => c.epoch = d.epoch

(* s is the number of the datagram that comes x after the one numbered t.  *)
Counted(x, s, t) == s = t + x \/ s = t + x - SeqLimit

(* The datagram a daemon numbers now, or the next one it will be given.    *)
Next1(n) == IF nodes[n].current = 0 THEN sent[n] + 1 ELSE nodes[n].current

(* Within a run the numbers follow the datagrams, up to one wrap.          *)
Numbered ==
  /\ \A c \in net : c.epoch = epoch[c.from] /\ Next1(c.from) - c.id < SeqLimit
                      => Counted(Next1(c.from) - c.id, nodes[c.from].seq, c.seq)
  /\ \A c, d \in net :
       c.from = d.from /\ c.epoch = d.epoch /\ c.id >= d.id /\ c.id - d.id < SeqLimit
         => Counted(c.id - d.id, c.seq, d.seq)

(* What a receiver has accepted came from the other daemon.                *)
Origin == \A n \in Nodes : \A i \in 1 .. Len(accepted[n]) :
            \E c \in net : /\ c.from # n
                           /\ c.id = accepted[n][i].id
                           /\ c.seq = accepted[n][i].seq
                           /\ c.epoch = accepted[n][i].epoch

(* The filter's log is the end of what was accepted: that of this run.     *)
Past(n) == Len(accepted[n]) - Len(nodes[n].accepted)

FilterIsEnd ==
  \A n \in Nodes :
    /\ Past(n) >= 0
    /\ \A i \in 1 .. Len(nodes[n].accepted) :
         accepted[n][Past(n) + i].seq = nodes[n].accepted[i]
    /\ \A i \in 1 .. Len(accepted[n]) :
         /\ accepted[n][i].run <= epoch[n]
         /\ accepted[n][i].run = epoch[n] <=> i > Past(n)

Sending   == Present /\ OneRun /\ Numbered
Receiving == Origin /\ FilterIsEnd /\ RepeatsExplained
IInv      == Shape /\ Sending /\ Receiving

-----------------------------------------------------------------------------

(* The number after x is x + 1, or 0 after the last one.                   *)
LEMMA NumberAfter ==
  \A x \in Numbers : (x + 1) % SeqLimit = IF x + 1 = SeqLimit THEN 0 ELSE x + 1
  BY FilterAssumption DEF Numbers

(* What Shape says of the parts the other lemmas use.                      *)
LEMMA Parts ==
  ASSUME Shape
  PROVE  /\ \A n \in Nodes : /\ nodes[n].up \subseteq Relays
                             /\ nodes[n].seq \in Numbers
                             /\ nodes[n].current \in Nat
                             /\ nodes[n].accepted \in Seq(Numbers)
                             /\ epoch[n] \in Nat
                             /\ sent[n] \in Nat
                             /\ accepted[n] \in Seq(EntryShape)
         /\ \A c \in net : /\ c.from \in Nodes
                           /\ c.epoch \in Nat
                           /\ c.relay \in Relays
                           /\ c.id \in Nat \ {0}
                           /\ c.seq \in Numbers
  BY DEF Shape, DaemonShape, CopyShape

(* A daemon one part of which is replaced is a daemon.                     *)
LEMMA Replaced ==
  ASSUME NEW d \in DaemonShape
  PROVE  /\ \A x \in SUBSET Relays : [d EXCEPT !.up = x] \in DaemonShape
         /\ \A x \in Nat : [d EXCEPT !.current = x] \in DaemonShape
         /\ \A x \in [Relays -> [id : Nat, seq : Numbers]] : [d EXCEPT !.handed = x] \in DaemonShape
         /\ \A x \in Nat, y \in Numbers : [d EXCEPT !.current = x, !.seq = y] \in DaemonShape
         /\ \A x \in SUBSET Relays, y \in Seq(Numbers) :
               [d EXCEPT !.accepted = y, !.up = x] \in DaemonShape
  BY DEF DaemonShape

(* Two daemons that have just been started.                                *)
LEMMA InitIInv == Init => IInv
  <1> SUFFICES ASSUME Init PROVE IInv
    OBVIOUS
  <1> USE FilterAssumption DEF Init, Daemon!Fresh, Daemon!NoCopy, Daemon!None
  <1>1. Shape
    BY DEF Shape, DaemonShape, Numbers
  <1>2. Present /\ OneRun /\ Numbered /\ Origin /\ FilterIsEnd
    BY DEF Present, OneRun, Numbered, Origin, FilterIsEnd, Past
  <1>3. RepeatsExplained
    BY DEF RepeatsExplained
  <1> QED
    BY <1>1, <1>2, <1>3 DEF IInv, Sending, Receiving

-----------------------------------------------------------------------------

(* What a sender is in, as long as it sends nothing.                       *)
LEMMA SendingKept ==
  ASSUME Shape, Sending, net' = net, epoch' = epoch, sent' = sent,
         \A n \in Nodes : nodes'[n].current = nodes[n].current /\ nodes'[n].seq = nodes[n].seq
  PROVE  Sending'
  <1> USE Parts
  <1>1. Present'
    BY DEF Sending, Present
  <1>2. OneRun'
    BY DEF Sending, OneRun
  <1>3. Numbered'
    <2>1. \A n \in Nodes : Next1(n)' = Next1(n)
      BY DEF Next1
    <2> QED
      BY <2>1 DEF Sending, Numbered, Counted
  <1> QED
    BY <1>1, <1>2, <1>3 DEF Sending

(* What a receiver is in, as long as it accepts nothing.                   *)
LEMMA ReceivingKept ==
  ASSUME Shape, Receiving, net \subseteq net', epoch' = epoch, accepted' = accepted,
         \A n \in Nodes : nodes'[n].accepted = nodes[n].accepted
  PROVE  Receiving'
  <1>1. Origin'
    BY DEF Receiving, Origin
  <1>2. FilterIsEnd'
    BY DEF Receiving, FilterIsEnd, Past
  <1>3. RepeatsExplained'
    BY DEF Receiving, RepeatsExplained
  <1> QED
    BY <1>1, <1>2, <1>3 DEF Receiving

(* A daemon takes a new datagram: its number is the next one.              *)
LEMMA BeginStep == ASSUME IInv, NEW n \in Nodes, Begin(n) PROVE IInv'
  <1> USE DEF IInv
  <1>1. /\ nodes' = [nodes EXCEPT ![n] = [nodes[n] EXCEPT !.current = sent[n] + 1]]
        /\ sent' = [sent EXCEPT ![n] = sent[n] + 1]
        /\ nodes[n].current = 0
        /\ epoch' = epoch /\ net' = net /\ accepted' = accepted
    BY DEF Begin, Daemon!MayBegin, Daemon!AfterBegin, Daemon!None
  <1>2. Shape'
    <2>1. nodes[n] \in DaemonShape /\ sent[n] + 1 \in Nat
      BY DEF Shape
    <2>2. [nodes[n] EXCEPT !.current = sent[n] + 1] \in DaemonShape
      BY <2>1, Replaced, Zenon
    <2>3. sent' \in [Nodes -> Nat]
      BY <1>1, <2>1 DEF Shape
    <2> QED
      BY <1>1, <2>2, <2>3, Zenon DEF Shape
  <1>3. \A m \in Nodes : /\ nodes'[m].accepted = nodes[m].accepted
                         /\ nodes'[m].seq = nodes[m].seq
                         /\ nodes'[m].current = IF m = n THEN sent[n] + 1 ELSE nodes[m].current
                         /\ sent'[m] = IF m = n THEN sent[n] + 1 ELSE sent[m]
    BY <1>1 DEF Shape, DaemonShape
  <1>4. Present'
    BY <1>1, <1>3, Parts DEF Sending, Present
  <1>5. OneRun'
    BY <1>1, <1>3, Parts DEF Sending, Present, OneRun
  <1>6. Numbered'
    <2>1. \A m \in Nodes : Next1(m)' = Next1(m)
      BY <1>1, <1>3, Parts DEF Next1
    <2> QED
      BY <1>1, <1>3, <2>1, Parts DEF Sending, Numbered, Counted
  <1>7. Receiving'
    BY <1>1, <1>3, ReceivingKept
  <1> QED
    BY <1>2, <1>4, <1>5, <1>6, <1>7 DEF Sending

(* A copy goes on its way under the number of its datagram.                *)
LEMMA HandStep == ASSUME IInv, NEW n \in Nodes, NEW r \in Relays, Hand(n, r) PROVE IInv'
  <1> DEFINE copy == [from |-> n, epoch |-> epoch[n], relay |-> r,
                      id |-> nodes[n].current, seq |-> nodes[n].seq]
             took == [nodes[n].handed EXCEPT ![r] = [id |-> nodes[n].current, seq |-> nodes[n].seq]]
  <1> USE DEF IInv
  <1>1. /\ nodes' = [nodes EXCEPT ![n] = [nodes[n] EXCEPT !.handed = took]]
        /\ net' = net \cup {copy}
        /\ nodes[n].current # 0
        /\ epoch' = epoch /\ sent' = sent /\ accepted' = accepted
    BY DEF Hand, Daemon!MayHand, Daemon!AfterHand, Daemon!None
  <1>2. Shape'
    <2>1. nodes[n] \in DaemonShape /\ took \in [Relays -> [id : Nat, seq : Numbers]]
      BY DEF Shape, DaemonShape
    <2>2. [nodes[n] EXCEPT !.handed = took] \in DaemonShape
      BY <2>1, Replaced, Zenon
    <2>3. net' \subseteq CopyShape
      BY <1>1, Parts DEF Shape, CopyShape
    <2> QED
      BY <1>1, <2>2, <2>3, Zenon DEF Shape
  <1>3. \A m \in Nodes : /\ nodes'[m].accepted = nodes[m].accepted
                         /\ nodes'[m].seq = nodes[m].seq
                         /\ nodes'[m].current = nodes[m].current
    BY <1>1 DEF Shape, DaemonShape
  <1>4. /\ copy.from = n /\ copy.epoch = epoch[n]
        /\ copy.id = nodes[n].current /\ copy.seq = nodes[n].seq
    OBVIOUS
  <1>5. \A m \in Nodes : Next1(m)' = Next1(m)
    BY <1>1, <1>3 DEF Next1
  <1> HIDE DEF copy, took
  <1>6. Present'
    BY <1>1, <1>3, <1>4, Parts DEF Sending, Present
  <1>7. OneRun'
    <2>1. OneRun
      BY DEF Sending
    <2>2. \A c \in net' : c.id = nodes'[c.from].current => c.epoch = epoch'[c.from]
      BY <1>1, <1>3, <1>4, <2>1, Parts DEF OneRun
    <2>3. \A c \in net : c.from = n /\ c.id = copy.id => c.epoch = copy.epoch
      BY <1>4, <2>1 DEF OneRun
    <2>4. \A c, d \in net' : c.from = d.from /\ c.id = d.id => c.epoch = d.epoch
      BY <1>1, <1>4, <2>1, <2>3 DEF OneRun
    <2> QED
      BY <2>2, <2>4 DEF OneRun
  <1>8. Numbered'
    <2>1. ASSUME NEW c \in net', c.epoch = epoch[c.from], Next1(c.from) - c.id < SeqLimit
          PROVE  Counted(Next1(c.from) - c.id, nodes[c.from].seq, c.seq)
      <3>1. CASE c \in net
        BY <2>1, <3>1 DEF Sending, Numbered
      <3>2. CASE c = copy
        BY <1>1, <1>4, <3>2, Parts DEF Counted, Next1, Numbers
      <3> QED
        BY <1>1, <3>1, <3>2
    <2>2. ASSUME NEW c \in net', NEW d \in net', c.from = d.from, c.epoch = d.epoch,
                 c.id >= d.id, c.id - d.id < SeqLimit
          PROVE  Counted(c.id - d.id, c.seq, d.seq)
      <3>1. CASE c \in net /\ d \in net
        BY <2>2, <3>1 DEF Sending, Numbered
      <3>2. CASE c = copy
        BY <1>1, <1>4, <2>1, <2>2, <3>2, Parts DEF Next1
      <3>3. CASE c \in net /\ d = copy
        <4>1. c.id = nodes[n].current
          BY <1>1, <1>4, <2>2, <3>3, Parts DEF Sending, Present
        <4>2. Counted(0, nodes[n].seq, c.seq)
          BY <1>1, <1>4, <2>1, <2>2, <3>3, <4>1, Parts, FilterAssumption DEF Next1
        <4>3. nodes[n].seq = c.seq /\ c.seq \in Numbers
          BY <4>2, <3>3, Parts, FilterAssumption DEF Counted, Numbers
        <4> QED
          BY <1>4, <3>3, <4>1, <4>3, Parts, FilterAssumption DEF Counted, Numbers
      <3> QED
        BY <1>1, <3>1, <3>2, <3>3
    <2> QED
      <3>1. \A c \in net' : c.from \in Nodes
        BY <1>2, Zenon DEF Shape, CopyShape
      <3> QED
        BY <1>1, <1>3, <1>5, <2>1, <2>2, <3>1 DEF Numbered, Counted
  <1>9. Receiving'
    BY <1>1, <1>3, ReceivingKept
  <1> QED
    BY <1>2, <1>6, <1>7, <1>8, <1>9 DEF Sending

(* The number is incremented, or wraps.                                    *)
LEMMA AdvanceStep == ASSUME IInv, NEW n \in Nodes, Advance(n) PROVE IInv'
  <1> DEFINE next == (nodes[n].seq + 1) % SeqLimit
  <1> USE DEF IInv
  <1>1. /\ nodes' = [nodes EXCEPT ![n] = [nodes[n] EXCEPT !.current = 0, !.seq = next]]
        /\ nodes[n].current # 0
        /\ epoch' = epoch /\ sent' = sent /\ net' = net /\ accepted' = accepted
    BY DEF Advance, Daemon!MayAdvance, Daemon!AfterAdvance, Daemon!None
  <1>2. next \in Numbers /\ next = IF nodes[n].seq + 1 = SeqLimit THEN 0 ELSE nodes[n].seq + 1
    BY Parts, NumberAfter, FilterAssumption DEF Numbers
  <1> HIDE DEF next
  <1>3. Shape'
    <2>1. nodes[n] \in DaemonShape /\ 0 \in Nat
      BY DEF Shape
    <2>2. [nodes[n] EXCEPT !.current = 0, !.seq = next] \in DaemonShape
      BY <1>2, <2>1, Replaced, Zenon
    <2> QED
      BY <1>1, <2>2, Zenon DEF Shape
  <1>4. \A m \in Nodes : /\ nodes'[m].accepted = nodes[m].accepted
                         /\ nodes'[m].seq = IF m = n THEN next ELSE nodes[m].seq
                         /\ nodes'[m].current = IF m = n THEN 0 ELSE nodes[m].current
    BY <1>1 DEF Shape, DaemonShape
  <1>5. Present'
    BY <1>1, <1>4, Parts DEF Sending, Present
  <1>6. OneRun'
    BY <1>1, <1>4, Parts DEF Sending, OneRun
  <1>7. Numbered'
    <2>1. \A m \in Nodes : Next1(m)' = IF m = n THEN Next1(n) + 1 ELSE Next1(m)
      BY <1>1, <1>4, Parts DEF Next1, Sending, Present
    <2>2. \A m \in Nodes : Next1(m) \in Nat
      BY Parts DEF Next1
    <2>3. ASSUME NEW c \in net, c.epoch = epoch[c.from], Next1(c.from)' - c.id < SeqLimit
          PROVE  Counted(Next1(c.from)' - c.id, nodes'[c.from].seq, c.seq)
      <3>1. CASE c.from = n
        <4>1. Counted(Next1(n) - c.id, nodes[n].seq, c.seq) /\ Next1(n) - c.id < SeqLimit - 1
          BY <2>1, <2>2, <2>3, <3>1, Parts, FilterAssumption DEF Sending, Numbered
        <4>2. Next1(n) - c.id >= 0
          BY <1>1, <3>1, Parts DEF Next1, Sending, Present
        <4>3. /\ nodes[n].seq \in Numbers /\ c.seq \in Numbers
              /\ c.id \in Nat /\ Next1(n) \in Nat /\ SeqLimit \in Nat
          BY <2>2, Parts, FilterAssumption
        <4>4. Counted(Next1(n) + 1 - c.id, next, c.seq)
          BY <1>2, <4>1, <4>2, <4>3 DEF Counted, Numbers
        <4>5. nodes'[c.from].seq = next /\ Next1(c.from)' = Next1(n) + 1
          BY <1>4, <2>1, <3>1
        <4> QED
          BY <1>2, <4>3, <4>4, <4>5 DEF Counted, Numbers
      <3>2. CASE c.from # n
        BY <1>4, <2>1, <2>3, <3>2, Parts DEF Sending, Numbered
      <3> QED
        BY <3>1, <3>2
    <2> QED
      BY <1>1, <2>3 DEF Sending, Numbered, Counted
  <1>8. Receiving'
    BY <1>1, <1>4, ReceivingKept
  <1> QED
    BY <1>3, <1>5, <1>6, <1>7, <1>8 DEF Sending

(* Relays disabled at one end change no number.                            *)
LEMMA LoseStep == ASSUME IInv, NEW n \in Nodes, NEW R, Lose(n, R) PROVE IInv'
  <1> USE DEF IInv
  <1>1. /\ nodes' = [nodes EXCEPT ![n] = [nodes[n] EXCEPT !.up = nodes[n].up \ R]]
        /\ epoch' = epoch /\ sent' = sent /\ net' = net /\ accepted' = accepted
    BY DEF Lose, Daemon!AfterLose
  <1>2. Shape'
    <2>1. nodes[n] \in DaemonShape /\ nodes[n].up \ R \in SUBSET Relays
      BY DEF Shape, DaemonShape
    <2>2. [nodes[n] EXCEPT !.up = nodes[n].up \ R] \in DaemonShape
      BY <2>1, Replaced, Zenon
    <2> QED
      BY <1>1, <2>2, Zenon DEF Shape
  <1>3. \A m \in Nodes : /\ nodes'[m].accepted = nodes[m].accepted
                         /\ nodes'[m].seq = nodes[m].seq
                         /\ nodes'[m].current = nodes[m].current
    BY <1>1 DEF Shape, DaemonShape
  <1> QED
    BY <1>1, <1>2, <1>3, SendingKept, ReceivingKept

(* Two datagrams of a receiver's log with one id have one number: there is *)
(* only one other daemon, and one run of it that sent them.                *)
LEMMA SameNumber ==
  ASSUME Shape, Sending, NEW n \in Nodes, NEW c \in net, NEW d \in net,
         c.from # n, d.from # n, c.id = d.id
  PROVE  c.seq = d.seq
  <1>1. c.from = d.from
    BY Parts, NodesAssumption
  <1>2. c.epoch = d.epoch
    BY <1>1 DEF Sending, OneRun
  <1>3. Counted(c.id - d.id, c.seq, d.seq)
    BY <1>1, <1>2, Parts, FilterAssumption DEF Sending, Numbered
  <1> QED
    BY <1>3, Parts, FilterAssumption DEF Counted, Numbers

(* The filter remembers a number that entered the log in this run, among   *)
(* the last Track of it.                                                   *)
LEMMA Remembered ==
  ASSUME Shape, FilterIsEnd, NEW n \in Nodes, NEW i \in 1 .. Len(accepted[n]),
         accepted[n][i].run = epoch[n], i > Len(accepted[n]) - Track
  PROVE  accepted[n][i].seq \in Daemon(n)!Recent
  <1> DEFINE all == Len(accepted[n])
             run == Len(nodes[n].accepted)
             k == i - (all - run)
  <1>1. /\ Len(accepted[n]) \in Nat /\ Len(nodes[n].accepted) \in Nat
        /\ DOMAIN nodes[n].accepted = 1 .. Len(nodes[n].accepted)
    BY Parts
  <1>2. i > Past(n) /\ Past(n) = Len(accepted[n]) - Len(nodes[n].accepted)
    BY DEF FilterIsEnd, Past
  <1>3. k \in 1 .. run /\ k > run - Track /\ (all - run) + k = i
    <2>1. all \in Nat /\ run \in Nat /\ Track \in Nat /\ i \in 1 .. all /\ i > all - run /\ i > all - Track
      BY <1>1, <1>2, FilterAssumption
    <2> HIDE DEF all, run
    <2> QED
      BY <2>1
  <1> HIDE DEF k
  <1>4. accepted[n][i].seq = nodes[n].accepted[k]
    BY <1>2, <1>3 DEF FilterIsEnd
  <1> QED
    BY <1>1, <1>3, <1>4 DEF Daemon!Recent

(* The filter takes a copy: its number was forgotten, and the window       *)
(* moves on.                                                               *)
LEMMA AcceptStep ==
  ASSUME IInv, NEW n \in Nodes, NEW c \in net, NEW R, Accept(n, c, R)
  PROVE  IInv'
  <1> DEFINE entry == [id |-> c.id, seq |-> c.seq, epoch |-> c.epoch,
                       during |-> epoch[c.from], run |-> epoch[n]]
             seqs  == Append(nodes[n].accepted, c.seq)
             last  == Len(accepted[n]) + 1
  <1> USE DEF IInv
  <1>1. /\ nodes' = [nodes EXCEPT ![n] = [nodes[n] EXCEPT !.accepted = seqs, !.up = nodes[n].up \ R]]
        /\ accepted' = [accepted EXCEPT ![n] = Append(accepted[n], entry)]
        /\ c.from # n /\ c.seq \notin Daemon(n)!Recent
        /\ epoch' = epoch /\ sent' = sent /\ net' = net
    BY DEF Accept, Incoming, Daemon!MayAccept, Daemon!AfterAccept
  <1>2. Shape'
    <2>1. nodes[n] \in DaemonShape /\ nodes[n].up \ R \in SUBSET Relays
      BY DEF Shape, DaemonShape
    <2>2. seqs \in Seq(Numbers)
      BY Parts
    <2>3. entry \in EntryShape
      BY Parts DEF EntryShape
    <2>4. [nodes[n] EXCEPT !.accepted = seqs, !.up = nodes[n].up \ R] \in DaemonShape
      BY <2>1, <2>2, Replaced, Zenon
    <2>5. accepted' \in [Nodes -> Seq(EntryShape)]
      BY <1>1, <2>3 DEF Shape
    <2> QED
      BY <1>1, <2>4, <2>5, Zenon DEF Shape
  <1>3. \A m \in Nodes : /\ nodes'[m].accepted = IF m = n THEN seqs ELSE nodes[m].accepted
                         /\ nodes'[m].seq = nodes[m].seq
                         /\ nodes'[m].current = nodes[m].current
    BY <1>1 DEF Shape, DaemonShape
  <1>4. Sending'
    BY <1>1, <1>3, SendingKept
  <1>5. /\ entry.id = c.id /\ entry.seq = c.seq /\ entry.epoch = c.epoch /\ entry.run = epoch[n]
        /\ accepted[n] \in Seq(EntryShape) /\ Len(accepted[n]) \in Nat
        /\ nodes[n].accepted \in Seq(Numbers) /\ Len(nodes[n].accepted) \in Nat
    BY Parts
  <1> HIDE DEF entry
  <1>6. /\ \A m \in Nodes \ {n} : accepted'[m] = accepted[m]
        /\ Len(accepted'[n]) = last
        /\ accepted'[n][last] = entry
        /\ \A i \in 1 .. Len(accepted[n]) : accepted'[n][i] = accepted[n][i]
    BY <1>1, <1>5 DEF Shape
  <1>7. /\ Len(nodes'[n].accepted) = Len(nodes[n].accepted) + 1
        /\ nodes'[n].accepted[Len(nodes[n].accepted) + 1] = c.seq
        /\ \A i \in 1 .. Len(nodes[n].accepted) : nodes'[n].accepted[i] = nodes[n].accepted[i]
    <2>1. nodes'[n].accepted = Append(nodes[n].accepted, c.seq)
      BY <1>3
    <2> QED
      BY <1>5, <2>1, Parts
  <1>8. Origin'
    <2>1. ASSUME NEW m \in Nodes, NEW i \in 1 .. Len(accepted'[m])
          PROVE  \E d \in net : /\ d.from # m
                                /\ d.id = accepted'[m][i].id
                                /\ d.seq = accepted'[m][i].seq
                                /\ d.epoch = accepted'[m][i].epoch
      <3>1. CASE m = n /\ i = last
        BY <1>1, <1>5, <1>6, <3>1
      <3>2. CASE ~(m = n /\ i = last)
        <4>1. i \in 1 .. Len(accepted[m]) /\ accepted'[m][i] = accepted[m][i]
          BY <1>5, <1>6, <2>1, <3>2
        <4> QED
          BY <4>1 DEF Receiving, Origin
      <3> QED
        BY <3>1, <3>2
    <2> QED
      BY <1>1, <2>1 DEF Origin
  <1>9. FilterIsEnd'
    <2>1. \A m \in Nodes : Past(m)' = Past(m)
      <3>1. \A m \in Nodes \ {n} : Past(m)' = Past(m)
        BY <1>3, <1>6 DEF Past
      <3>2. Past(n)' = (Len(accepted[n]) + 1) - (Len(nodes[n].accepted) + 1)
        BY <1>6, <1>7 DEF Past
      <3>3. Past(n)' = Len(accepted[n]) - Len(nodes[n].accepted)
        BY <1>5, <3>2
      <3> QED
        BY <3>1, <3>3 DEF Past
    <2>2. Past(n) >= 0 /\ Past(n) + Len(nodes[n].accepted) = Len(accepted[n]) /\ Past(n) \in Int
      <3>1. Past(n) >= 0
        BY DEF Receiving, FilterIsEnd
      <3>2. Past(n) = Len(accepted[n]) - Len(nodes[n].accepted)
        BY DEF Past
      <3> QED
        BY <1>5, <3>1, <3>2
    <2>3. ASSUME NEW i \in 1 .. Len(nodes'[n].accepted)
          PROVE  accepted'[n][Past(n) + i].seq = nodes'[n].accepted[i]
      <3>1. CASE i \in 1 .. Len(nodes[n].accepted)
        <4>1. Past(n) + i \in 1 .. Len(accepted[n])
          BY <1>5, <2>2, <3>1
        <4>2. accepted[n][Past(n) + i].seq = nodes[n].accepted[i]
          BY <3>1 DEF Receiving, FilterIsEnd
        <4> QED
          BY <1>6, <1>7, <3>1, <4>1, <4>2
      <3>2. CASE i = Len(nodes[n].accepted) + 1
        <4> DEFINE before == Past(n)
                   run == Len(nodes[n].accepted)
                   all == Len(accepted[n])
        <4>1. before \in Int /\ run \in Nat /\ all \in Nat /\ before + run = all /\ i = run + 1
          BY <1>5, <2>2, <3>2
        <4>2. before + i = all + 1
          <5> HIDE DEF before, run, all
          <5> QED
            BY <4>1
        <4> QED
          BY <1>5, <1>6, <1>7, <3>2, <4>2
      <3>3. i \in 1 .. Len(nodes[n].accepted) + 1
        BY <1>7
      <3>4. i \in 1 .. Len(nodes[n].accepted) \/ i = Len(nodes[n].accepted) + 1
        <4> DEFINE run == Len(nodes[n].accepted)
        <4>1. run \in Nat /\ i \in 1 .. run + 1
          BY <1>5, <3>3
        <4> HIDE DEF run
        <4>2. i \in 1 .. run \/ i = run + 1
          BY <4>1
        <4> QED
          BY <4>2 DEF run
      <3> QED
        BY <3>1, <3>2, <3>4
    <2>4. ASSUME NEW i \in 1 .. Len(accepted'[n])
          PROVE  /\ accepted'[n][i].run <= epoch[n]
                 /\ accepted'[n][i].run = epoch[n] <=> i > Past(n)
      <3>1. CASE i \in 1 .. Len(accepted[n])
        BY <1>6, <3>1 DEF Receiving, FilterIsEnd
      <3>2. CASE i = last
        <4>1. i > Past(n) /\ epoch[n] <= epoch[n]
          BY <1>5, <2>2, <3>2, Parts
        <4> QED
          BY <1>5, <1>6, <3>2, <4>1
      <3> QED
        BY <1>5, <1>6, <3>1, <3>2
    <2>5. ASSUME NEW m \in Nodes
          PROVE  /\ Past(m) >= 0
                 /\ \A i \in 1 .. Len(nodes'[m].accepted) :
                      accepted'[m][Past(m) + i].seq = nodes'[m].accepted[i]
                 /\ \A i \in 1 .. Len(accepted'[m]) :
                      /\ accepted'[m][i].run <= epoch[m]
                      /\ accepted'[m][i].run = epoch[m] <=> i > Past(m)
      <3>1. CASE m = n
        BY <2>2, <2>3, <2>4, <3>1
      <3>2. CASE m # n
        BY <1>3, <1>6, <3>2 DEF Receiving, FilterIsEnd
      <3> QED
        BY <3>1, <3>2
    <2> HIDE DEF last, seqs
    <2> QED
      <3>1. ASSUME NEW m \in Nodes
            PROVE  /\ Past(m)' >= 0
                   /\ \A i \in 1 .. Len(nodes'[m].accepted) :
                        accepted'[m][Past(m)' + i].seq = nodes'[m].accepted[i]
                   /\ \A i \in 1 .. Len(accepted'[m]) :
                        /\ accepted'[m][i].run <= epoch'[m]
                        /\ accepted'[m][i].run = epoch'[m] <=> i > Past(m)'
        <4>1. Past(m)' = Past(m) /\ epoch' = epoch
          BY <1>1, <2>1
        <4>2. /\ Past(m) >= 0
              /\ \A i \in 1 .. Len(nodes'[m].accepted) :
                   accepted'[m][Past(m) + i].seq = nodes'[m].accepted[i]
              /\ \A i \in 1 .. Len(accepted'[m]) :
                   /\ accepted'[m][i].run <= epoch[m]
                   /\ accepted'[m][i].run = epoch[m] <=> i > Past(m)
          BY <2>5
        <4> QED
          BY <4>1, <4>2
      <3> QED
        BY <3>1, Zenon DEF FilterIsEnd
  <1>10. RepeatsExplained'
    <2>1. ASSUME NEW i \in 1 .. Len(accepted[n]), accepted[n][i].id = c.id,
                 accepted[n][i].run = epoch[n]
          PROVE  last - i > Track
      <3>1. PICK d \in net : d.from # n /\ d.id = accepted[n][i].id /\ d.seq = accepted[n][i].seq
        BY DEF Receiving, Origin
      <3>2. accepted[n][i].seq = c.seq
        BY <1>1, <2>1, <3>1, SameNumber
      <3>3. i <= Len(accepted[n]) - Track
        BY <1>1, <1>5, <2>1, <3>2, Remembered, FilterAssumption DEF Receiving
      <3> QED
        BY <1>5, <3>3, FilterAssumption
    <2>2. ASSUME NEW m \in Nodes, NEW i \in 1 .. Len(accepted'[m]), NEW j \in 1 .. Len(accepted'[m]),
                 i < j, accepted'[m][i].id = accepted'[m][j].id
          PROVE  j - i > Track \/ accepted'[m][i].run # accepted'[m][j].run
      <3>1. CASE m = n /\ j = last
        <4>1. i \in 1 .. Len(accepted[n])
          BY <1>5, <1>6, <2>2, <3>1
        <4>2. accepted'[n][i] = accepted[n][i] /\ accepted'[n][j] = entry
          BY <1>6, <3>1, <4>1
        <4>3. accepted[n][i].id = c.id
          BY <1>5, <2>2, <3>1, <4>2
        <4>4. accepted[n][i].run = epoch[n] => j - i > Track
          BY <2>1, <3>1, <4>1, <4>3
        <4> QED
          BY <1>5, <3>1, <4>2, <4>4
      <3>2. CASE ~(m = n /\ j = last)
        <4>1. /\ i \in 1 .. Len(accepted[m]) /\ accepted'[m][i] = accepted[m][i]
              /\ j \in 1 .. Len(accepted[m]) /\ accepted'[m][j] = accepted[m][j]
          <5>1. CASE m # n
            BY <1>6, <2>2, <5>1
          <5>2. CASE m = n
            <6>1. j \in 1 .. Len(accepted[n]) /\ i \in 1 .. Len(accepted[n])
              BY <1>5, <1>6, <2>2, <3>2, <5>2
            <6> QED
              BY <1>6, <5>2, <6>1
          <5> QED
            BY <5>1, <5>2
        <4>2. i \in DOMAIN accepted[m] /\ j \in DOMAIN accepted[m]
          BY <4>1, Parts
        <4> QED
          BY <2>2, <4>1, <4>2 DEF Receiving, RepeatsExplained
      <3> QED
        BY <3>1, <3>2
    <2>3. \A m \in Nodes : DOMAIN accepted'[m] = 1 .. Len(accepted'[m])
      BY <1>2 DEF Shape
    <2> QED
      BY <2>2, <2>3 DEF RepeatsExplained
  <1> QED
    BY <1>2, <1>4, <1>8, <1>9, <1>10 DEF Receiving

(* A refused copy leaves the filter as it is.                              *)
LEMMA RefuseStep == ASSUME IInv, NEW n \in Nodes, NEW c \in net, Refuse(n, c) PROVE IInv'
  <1>1. /\ nodes' = nodes /\ epoch' = epoch /\ sent' = sent
        /\ net' = net /\ accepted' = accepted
    BY DEF Refuse
  <1>2. Shape'
    BY <1>1 DEF IInv, Shape
  <1> QED
    BY <1>1, <1>2, SendingKept, ReceivingKept DEF IInv

(* After a restart the log of the run is empty and the run's datagrams     *)
(* are yet to come.                                                        *)
LEMMA RestartStep == ASSUME IInv, NEW n \in Nodes, Restart(n) PROVE IInv'
  <1> USE DEF IInv
  <1>1. /\ nodes' = [nodes EXCEPT ![n] = Daemon(n)!Fresh]
        /\ epoch' = [epoch EXCEPT ![n] = epoch[n] + 1]
        /\ sent' = sent /\ net' = net /\ accepted' = accepted
    BY DEF Restart
  <1>2. Shape'
    <2>1. Daemon(n)!Fresh \in DaemonShape
      BY FilterAssumption DEF Daemon!Fresh, Daemon!NoCopy, Daemon!None, DaemonShape, Numbers
    <2>2. epoch' \in [Nodes -> Nat]
      BY <1>1 DEF Shape
    <2> QED
      BY <1>1, <2>1, <2>2, Zenon DEF Shape
  <1>3. /\ nodes'[n].accepted = <<>> /\ nodes'[n].current = 0
        /\ epoch'[n] = epoch[n] + 1
        /\ \A m \in Nodes \ {n} : nodes'[m] = nodes[m] /\ epoch'[m] = epoch[m]
    BY <1>1 DEF Shape, Daemon!Fresh, Daemon!NoCopy, Daemon!None
  <1>4. Present'
    BY <1>1, <1>3, Parts DEF Sending, Present
  <1>5. OneRun'
    BY <1>1, <1>3, Parts DEF Sending, OneRun
  <1>6. Numbered'
    <2>1. \A m \in Nodes \ {n} : Next1(m)' = Next1(m)
      BY <1>1, <1>3 DEF Next1
    <2>2. \A c \in net : c.epoch = epoch'[c.from] => c.from # n
      BY <1>3, Parts DEF Sending, Present
    <2>3. ASSUME NEW c \in net, c.epoch = epoch'[c.from], Next1(c.from)' - c.id < SeqLimit
          PROVE  Counted(Next1(c.from)' - c.id, nodes'[c.from].seq, c.seq)
      <3>1. c.from \in Nodes \ {n}
        BY <2>2, <2>3, Parts
      <3>2. /\ Next1(c.from)' = Next1(c.from) /\ nodes'[c.from] = nodes[c.from]
            /\ epoch'[c.from] = epoch[c.from]
        BY <1>3, <2>1, <3>1
      <3>3. Counted(Next1(c.from) - c.id, nodes[c.from].seq, c.seq)
        BY <2>3, <3>2 DEF Sending, Numbered
      <3> QED
        BY <3>2, <3>3, Zenon
    <2> QED
      BY <1>1, <2>3 DEF Sending, Numbered, Counted
  <1>7. Origin' /\ RepeatsExplained'
    BY <1>1 DEF Receiving, Origin, RepeatsExplained
  <1>8. FilterIsEnd'
    <2>1. \A m \in Nodes : Len(accepted[m]) \in Nat /\ Len(nodes[m].accepted) \in Nat
      BY Parts
    <2>2. ASSUME NEW m \in Nodes
          PROVE  /\ Len(accepted'[m]) - Len(nodes'[m].accepted) >= 0
                 /\ \A i \in 1 .. Len(nodes'[m].accepted) :
                      accepted'[m][Len(accepted'[m]) - Len(nodes'[m].accepted) + i].seq
                        = nodes'[m].accepted[i]
                 /\ \A i \in 1 .. Len(accepted'[m]) :
                      /\ accepted'[m][i].run <= epoch'[m]
                      /\ accepted'[m][i].run = epoch'[m]
                           <=> i > Len(accepted'[m]) - Len(nodes'[m].accepted)
      <3>1. CASE m # n
        <4>1. accepted'[m] = accepted[m] /\ nodes'[m] = nodes[m] /\ epoch'[m] = epoch[m]
          BY <1>1, <1>3, <3>1
        <4>2. /\ Len(accepted[m]) - Len(nodes[m].accepted) >= 0
              /\ \A i \in 1 .. Len(nodes[m].accepted) :
                   accepted[m][Len(accepted[m]) - Len(nodes[m].accepted) + i].seq
                     = nodes[m].accepted[i]
              /\ \A i \in 1 .. Len(accepted[m]) :
                   /\ accepted[m][i].run <= epoch[m]
                   /\ accepted[m][i].run = epoch[m]
                        <=> i > Len(accepted[m]) - Len(nodes[m].accepted)
          <5> HIDE DEF IInv
          <5>1. FilterIsEnd
            BY DEF IInv, Receiving
          <5> QED
            BY <5>1 DEF FilterIsEnd, Past
        <4> QED
          BY <4>1, <4>2
      <3>2. CASE m = n
        <4>1. \A i \in 1 .. Len(accepted[n]) : accepted[n][i].run \in Nat
          <5>1. \A i \in 1 .. Len(accepted[n]) : accepted[n][i] \in EntryShape
            BY Parts
          <5> QED
            BY <5>1 DEF EntryShape
        <4>2. \A i \in 1 .. Len(accepted[n]) : accepted[n][i].run <= epoch[n]
          BY DEF Receiving, FilterIsEnd
        <4>3. Len(nodes'[n].accepted) = 0
          BY <1>3
        <4>4. \A i \in 1 .. Len(accepted[n]) :
                 /\ accepted[n][i].run <= epoch[n] + 1
                 /\ accepted[n][i].run # epoch[n] + 1
                 /\ ~(i > Len(accepted[n]) - 0)
          BY <2>1, <4>1, <4>2, Parts
        <4>5. Len(accepted[n]) - 0 >= 0 /\ 1 .. 0 = {}
          BY <2>1
        <4> QED
          BY <1>1, <1>3, <3>2, <4>3, <4>4, <4>5
      <3> QED
        BY <3>1, <3>2
    <2> QED
      BY <2>2 DEF FilterIsEnd, Past
  <1> QED
    BY <1>2, <1>4, <1>5, <1>6, <1>7, <1>8 DEF Sending, Receiving

-----------------------------------------------------------------------------

(* Every step of either daemon keeps the invariant.                        *)
LEMMA NextIInv == IInv /\ [Next]_vars => IInv'
  <1> SUFFICES ASSUME IInv, [Next]_vars PROVE IInv'
    OBVIOUS
  <1>1. CASE Next
    <2>1. PICK n \in Nodes : \/ Begin(n)
                             \/ \E r \in Relays : Hand(n, r)
                             \/ Advance(n)
                             \/ \E R \in MayLose : Lose(n, R)
                             \/ \E c \in net, R \in MayLose \cup {{}} : Accept(n, c, R)
                             \/ \E c \in net : Refuse(n, c)
                             \/ Restart(n)
      BY <1>1 DEF Next
    <2>2. CASE Begin(n)
      BY <2>2, BeginStep
    <2>3. CASE \E r \in Relays : Hand(n, r)
      BY <2>3, HandStep
    <2>4. CASE Advance(n)
      BY <2>4, AdvanceStep
    <2>5. CASE \E R \in MayLose : Lose(n, R)
      BY <2>5, LoseStep
    <2>6. CASE \E c \in net, R \in MayLose \cup {{}} : Accept(n, c, R)
      BY <2>6, AcceptStep
    <2>7. CASE \E c \in net : Refuse(n, c)
      BY <2>7, RefuseStep
    <2>8. CASE Restart(n)
      BY <2>8, RestartStep
    <2> QED
      BY <2>1, <2>2, <2>3, <2>4, <2>5, <2>6, <2>7, <2>8
  <1>2. CASE UNCHANGED vars
    <2>1. /\ nodes' = nodes /\ epoch' = epoch /\ sent' = sent
          /\ net' = net /\ accepted' = accepted
      BY <1>2 DEF vars
    <2>2. Shape'
      BY <2>1 DEF IInv, Shape
    <2> QED
      BY <2>1, <2>2, SendingKept, ReceivingKept DEF IInv
  <1> QED
    BY <1>1, <1>2

(* The invariant holds in every state.                                     *)
LEMMA Inductive == Spec => []IInv
  BY InitIInv, NextIInv, PTL DEF Spec

(* For all settings and any network: a payload leaves the tunnel twice only*)
(* after a restart of the receiver or Track other acceptances.             *)
THEOREM RepeatsAlwaysExplained == Spec => []RepeatsExplained
  <1>1. IInv => RepeatsExplained
    BY DEF IInv, Receiving
  <1> QED
    BY <1>1, Inductive, PTL

(* What makes the filter refuse a copy: an entry among the last Track of   *)
(* this run's, for the datagram itself or one that may have its number.    *)
LEMMA Blocker ==
  ASSUME IInv, NEW n \in Nodes, NEW c \in net, c.from # n, c.seq \in Daemon(n)!Recent
  PROVE  \E i \in 1 .. Len(accepted[n]) :
           /\ i > Len(accepted[n]) - Track
           /\ accepted[n][i].seq = c.seq
           /\ accepted[n][i].run = epoch[n]
           /\ \/ accepted[n][i].id = c.id
              \/ accepted[n][i].epoch # c.epoch
              \/ accepted[n][i].id - c.id >= SeqLimit
              \/ c.id - accepted[n][i].id >= SeqLimit
  <1> USE DEF IInv
  <1> DEFINE all == Len(accepted[n])
             run == Len(nodes[n].accepted)
  <1>1. PICK k \in DOMAIN nodes[n].accepted : k > run - Track /\ nodes[n].accepted[k] = c.seq
    BY DEF Daemon!Recent
  <1>2. all \in Nat /\ run \in Nat /\ DOMAIN nodes[n].accepted = 1 .. run
    BY Parts
  <1>3. all - run >= 0
    BY DEF Receiving, FilterIsEnd, Past
  <1> DEFINE i == all - run + k
             w == accepted[n][i]
  <1>4. i \in 1 .. all /\ i > all - run /\ i > all - Track
    <2>1. k \in 1 .. run /\ Track \in Nat
      BY <1>1, <1>2, FilterAssumption
    <2> HIDE DEF all, run
    <2> QED
      BY <1>1, <1>2, <1>3, <2>1
  <1>5. w.seq = c.seq /\ w.run = epoch[n]
    BY <1>1, <1>2, <1>4 DEF Receiving, FilterIsEnd, Past
  <1>6. PICK d \in net : d.from # n /\ d.id = w.id /\ d.seq = w.seq /\ d.epoch = w.epoch
    BY <1>4 DEF Receiving, Origin
  <1> HIDE DEF w
  <1>7. d.from = c.from
    BY <1>6, Parts, NodesAssumption
  <1>8. CASE d.epoch = c.epoch /\ d.id >= c.id /\ d.id - c.id < SeqLimit
    <2>1. Counted(d.id - c.id, d.seq, c.seq)
      BY <1>7, <1>8 DEF Sending, Numbered
    <2>2. d.id = c.id
      <3>1. d.id \in Nat /\ c.id \in Nat /\ c.seq \in Nat /\ d.seq = c.seq /\ SeqLimit \in Nat
        BY <1>5, <1>6, Parts, FilterAssumption DEF Numbers
      <3> QED
        BY <1>8, <2>1, <3>1 DEF Counted
    <2> QED
      BY <1>4, <1>5, <1>6, <2>2 DEF w
  <1>9. CASE d.epoch = c.epoch /\ c.id >= d.id /\ c.id - d.id < SeqLimit
    <2>1. Counted(c.id - d.id, c.seq, d.seq)
      BY <1>7, <1>9 DEF Sending, Numbered
    <2>2. d.id = c.id
      <3>1. d.id \in Nat /\ c.id \in Nat /\ c.seq \in Nat /\ d.seq = c.seq /\ SeqLimit \in Nat
        BY <1>5, <1>6, Parts, FilterAssumption DEF Numbers
      <3> QED
        BY <1>9, <2>1, <3>1 DEF Counted
    <2> QED
      BY <1>4, <1>5, <1>6, <2>2 DEF w
  <1>10. CASE d.epoch # c.epoch \/ d.id - c.id >= SeqLimit \/ c.id - d.id >= SeqLimit
    BY <1>4, <1>5, <1>6, <1>10 DEF w
  <1> QED
    BY <1>8, <1>9, <1>10, Parts, FilterAssumption

(* For all settings and any network: the filter refuses a copy only for the*)
(* datagram itself, for one of another run of the sender, or for one that  *)
(* is at least SeqLimit datagrams away.                                    *)
THEOREM RefusalsAlwaysExplained == Spec => []RefusalsExplained
  <1>1. ASSUME IInv, NEW n \in Nodes, NEW c \in net, c.from # n, c.seq \in Daemon(n)!Recent
        PROVE  \E w \in Window(n) :
                 /\ w.seq = c.seq
                 /\ \/ w.id = c.id
                    \/ w.epoch # c.epoch
                    \/ w.id - c.id >= SeqLimit
                    \/ c.id - w.id >= SeqLimit
    <2>1. PICK i \in 1 .. Len(accepted[n]) :
             /\ i > Len(accepted[n]) - Track
             /\ accepted[n][i].seq = c.seq
             /\ accepted[n][i].run = epoch[n]
             /\ \/ accepted[n][i].id = c.id
                \/ accepted[n][i].epoch # c.epoch
                \/ accepted[n][i].id - c.id >= SeqLimit
                \/ c.id - accepted[n][i].id >= SeqLimit
      BY <1>1, Blocker
    <2>2. DOMAIN accepted[n] = 1 .. Len(accepted[n])
      BY <1>1, Parts DEF IInv
    <2>3. accepted[n][i] \in Window(n)
      BY <2>1, <2>2 DEF Window
    <2> QED
      BY <2>1, <2>3
  <1>2. IInv => RefusalsExplained
    BY <1>1 DEF RefusalsExplained
  <1> QED
    BY <1>2, Inductive, PTL

-----------------------------------------------------------------------------
(* What a restart of the sender costs.                                     *)

RefusedShape == refused \in [Nodes -> SUBSET [id : Nat, epoch : Nat]]

(* Entry i of n's log stands in the way of the copies x of a sender: it has*)
(* their number but is of another run, or far away, and when a copy was    *)
(* refused, none of the last Track entries was older than that.            *)
StandsInTheWay(n, x, i) ==
  /\ \E c \in net : /\ c.from # n /\ c.id = x.id /\ c.epoch = x.epoch
                    /\ c.seq = accepted[n][i].seq
  /\ \/ accepted[n][i].epoch # x.epoch
     \/ accepted[n][i].id - x.id >= SeqLimit
     \/ x.id - accepted[n][i].id >= SeqLimit
  /\ \A j \in 1 .. Len(accepted[n]) : accepted[n][j].during < x.epoch => j < i + Track

Blocked == \A n \in Nodes : \A x \in refused[n] :
             \E i \in 1 .. Len(accepted[n]) : StandsInTheWay(n, x, i)

LossInv == RefusedShape /\ Blocked

(* Nothing has been refused at first.                                      *)
LEMMA InitLossInv == Init => LossInv
  BY DEF Init, LossInv, RefusedShape, Blocked

(* More copies on their way change nothing for what was refused.           *)
LEMMA BlockedKept ==
  ASSUME LossInv, net \subseteq net', accepted' = accepted, refused' = refused
  PROVE  LossInv'
  <1>1. RefusedShape'
    BY DEF LossInv, RefusedShape
  <1>2. ASSUME NEW n \in Nodes, NEW x \in refused'[n]
        PROVE  \E i \in 1 .. Len(accepted'[n]) : StandsInTheWay(n, x, i)'
    <2>1. PICK i \in 1 .. Len(accepted[n]) : StandsInTheWay(n, x, i)
      BY <1>2 DEF LossInv, Blocked
    <2>2. StandsInTheWay(n, x, i)'
      BY <2>1 DEF StandsInTheWay
    <2> QED
      BY <2>1, <2>2
  <1> QED
    BY <1>1, <1>2 DEF LossInv, Blocked

(* A new entry is made in a run of the sender no copy is younger than.     *)
LEMMA AcceptLossInv ==
  ASSUME IInv, LossInv, NEW n \in Nodes, NEW c \in net, NEW R, Accept(n, c, R)
  PROVE  LossInv'
  <1> DEFINE entry == [id |-> c.id, seq |-> c.seq, epoch |-> c.epoch,
                       during |-> epoch[c.from], run |-> epoch[n]]
             last  == Len(accepted[n]) + 1
  <1>1. /\ accepted' = [accepted EXCEPT ![n] = Append(accepted[n], entry)]
        /\ c.from # n /\ net' = net /\ refused' = refused
    BY DEF Accept, Incoming
  <1>2. /\ accepted[n] \in Seq(EntryShape) /\ Len(accepted[n]) \in Nat
        /\ entry.during = epoch[c.from] /\ epoch[c.from] \in Nat
    BY Parts DEF IInv
  <1> HIDE DEF entry
  <1>3. /\ \A m \in Nodes \ {n} : accepted'[m] = accepted[m]
        /\ Len(accepted'[n]) = last
        /\ accepted'[n][last] = entry
        /\ \A i \in 1 .. Len(accepted[n]) : accepted'[n][i] = accepted[n][i]
    BY <1>1, <1>2 DEF IInv, Shape
  <1>4. RefusedShape'
    BY <1>1 DEF LossInv, RefusedShape
  <1>5. ASSUME NEW m \in Nodes, NEW x \in refused'[m]
        PROVE  \E i \in 1 .. Len(accepted'[m]) : StandsInTheWay(m, x, i)'
    <2>1. PICK i \in 1 .. Len(accepted[m]) : StandsInTheWay(m, x, i)
      BY <1>1, <1>5 DEF LossInv, Blocked
    <2>2. CASE m # n
      <3>1. accepted'[m] = accepted[m]
        BY <1>3, <2>2
      <3>2. StandsInTheWay(m, x, i)'
        BY <1>1, <2>1, <3>1 DEF StandsInTheWay
      <3> QED
        BY <2>1, <3>1, <3>2
    <2>3. CASE m = n
      <3>1. i \in 1 .. last /\ accepted'[n][i] = accepted[n][i]
        BY <1>2, <1>3, <2>1, <2>3
      <3>2. PICK d \in net : /\ d.from # n /\ d.id = x.id /\ d.epoch = x.epoch
                             /\ d.seq = accepted[n][i].seq
        BY <2>1, <2>3 DEF StandsInTheWay
      <3>3. ~ (entry.during < x.epoch)
        <4>1. d.from = c.from
          BY <1>1, <3>2, Parts, NodesAssumption DEF IInv
        <4>2. d.epoch <= epoch[c.from] /\ d.epoch \in Nat
          BY <4>1, Parts DEF IInv, Sending, Present
        <4> QED
          BY <1>2, <3>2, <4>2
      <3>4. \A j \in 1 .. last : accepted'[n][j].during < x.epoch => j < i + Track
        <4>1. \A j \in 1 .. last : j \in 1 .. Len(accepted[n]) \/ j = last
          BY <1>2
        <4>2. \A j \in 1 .. Len(accepted[n]) : accepted[n][j].during < x.epoch => j < i + Track
          BY <2>1, <2>3 DEF StandsInTheWay
        <4> QED
          BY <1>3, <3>3, <4>1, <4>2
      <3>5. StandsInTheWay(n, x, i)'
        BY <1>1, <1>3, <2>1, <2>3, <3>1, <3>4 DEF StandsInTheWay
      <3> QED
        BY <1>3, <2>3, <3>1, <3>5
    <2> QED
      BY <2>2, <2>3
  <1> QED
    BY <1>4, <1>5 DEF LossInv, Blocked

(* What makes the filter refuse a copy that was not accepted before stands *)
(* in the way of its datagram from then on.                                *)
LEMMA RefuseLossInv ==
  ASSUME IInv, LossInv, NEW n \in Nodes, NEW c \in net, Refuse(n, c)
  PROVE  LossInv'
  <1> DEFINE x == [id |-> c.id, epoch |-> c.epoch]
  <1>1. /\ c.from # n /\ c.seq \in Daemon(n)!Recent
        /\ refused' = [refused EXCEPT ![n] =
             IF AcceptedBefore(n, c.id) THEN refused[n] ELSE refused[n] \cup {x}]
        /\ net' = net /\ accepted' = accepted
    BY DEF Refuse, Incoming
  <1>2. x \in [id : Nat, epoch : Nat] /\ x.id = c.id /\ x.epoch = c.epoch
    BY Parts DEF IInv
  <1> HIDE DEF x
  <1>3. RefusedShape'
    BY <1>1, <1>2 DEF LossInv, RefusedShape
  <1>4. /\ \A m \in Nodes \ {n} : refused'[m] = refused[m]
        /\ AcceptedBefore(n, c.id) => refused'[n] = refused[n]
        /\ ~AcceptedBefore(n, c.id) => refused'[n] = refused[n] \cup {x}
    BY <1>1 DEF LossInv, RefusedShape
  <1>5. ASSUME ~AcceptedBefore(n, c.id)
        PROVE  \E i \in 1 .. Len(accepted[n]) : StandsInTheWay(n, x, i)
    <2>1. PICK i \in 1 .. Len(accepted[n]) :
             /\ i > Len(accepted[n]) - Track
             /\ accepted[n][i].seq = c.seq
             /\ \/ accepted[n][i].id = c.id
                \/ accepted[n][i].epoch # c.epoch
                \/ accepted[n][i].id - c.id >= SeqLimit
                \/ c.id - accepted[n][i].id >= SeqLimit
      BY <1>1, Blocker
    <2>2. Len(accepted[n]) \in Nat /\ DOMAIN accepted[n] = 1 .. Len(accepted[n])
      BY Parts DEF IInv
    <2>3. accepted[n][i].id # c.id
      BY <1>5, <2>2 DEF AcceptedBefore
    <2>4. \A j \in 1 .. Len(accepted[n]) : j < i + Track
      BY <2>1, <2>2, FilterAssumption
    <2>5. StandsInTheWay(n, x, i)
      BY <1>1, <1>2, <2>1, <2>3, <2>4 DEF StandsInTheWay
    <2> QED
      BY <2>5
  <1>6. ASSUME NEW m \in Nodes, NEW y \in refused'[m]
        PROVE  \E i \in 1 .. Len(accepted[m]) : StandsInTheWay(m, y, i)
    <2>1. CASE y \in refused[m]
      BY <2>1 DEF LossInv, Blocked
    <2>2. CASE y \notin refused[m]
      <3>1. m = n /\ y = x /\ ~AcceptedBefore(n, c.id)
        BY <1>4, <1>6, <2>2
      <3> QED
        BY <1>5, <3>1
    <2> QED
      BY <2>1, <2>2
  <1>7. Blocked'
    BY <1>1, <1>6 DEF Blocked, StandsInTheWay
  <1> QED
    BY <1>3, <1>7 DEF LossInv

(* Every step keeps what explains refusals.                                *)
LEMMA NextLossInv == IInv /\ LossInv /\ [Next]_vars => LossInv'
  <1> SUFFICES ASSUME IInv, LossInv, [Next]_vars PROVE LossInv'
    OBVIOUS
  <1>1. CASE Next
    <2>1. PICK n \in Nodes : \/ Begin(n)
                             \/ \E r \in Relays : Hand(n, r)
                             \/ Advance(n)
                             \/ \E R \in MayLose : Lose(n, R)
                             \/ \E c \in net, R \in MayLose \cup {{}} : Accept(n, c, R)
                             \/ \E c \in net : Refuse(n, c)
                             \/ Restart(n)
      BY <1>1 DEF Next
    <2>2. CASE \/ Begin(n)
               \/ \E r \in Relays : Hand(n, r)
               \/ Advance(n)
               \/ \E R \in MayLose : Lose(n, R)
               \/ Restart(n)
      <3>1. net \subseteq net' /\ accepted' = accepted /\ refused' = refused
        BY <2>2 DEF Begin, Hand, Advance, Lose, Restart
      <3> QED
        BY <3>1, BlockedKept
    <2>3. CASE \E c \in net, R \in MayLose \cup {{}} : Accept(n, c, R)
      BY <2>3, AcceptLossInv
    <2>4. CASE \E c \in net : Refuse(n, c)
      BY <2>4, RefuseLossInv
    <2> QED
      BY <2>1, <2>2, <2>3, <2>4
  <1>2. CASE UNCHANGED vars
    BY <1>2, BlockedKept DEF vars
  <1> QED
    BY <1>1, <1>2

(* It holds in every state.                                                *)
LEMMA LossInductive == Spec => []LossInv
  BY InitLossInv, NextLossInv, Inductive, PTL DEF Spec

(* At most Track entries are of a time before the last Track.              *)
LEMMA FewBefore ==
  ASSUME NEW D, D \subseteq Nat, NEW k \in Nat,
         \A i, j \in D : j < i + k
  PROVE  IsFiniteSet(D) /\ Cardinality(D) <= k
  <1>1. CASE D = {}
    BY <1>1, FS_EmptySet
  <1>2. CASE D # {}
    <2>1. PICK m \in D : \A j \in D : m <= j
      BY <1>2, Least
    <2>2. D \subseteq m .. m + k - 1
      BY <2>1
    <2>3. m \in Int /\ m + k - 1 \in Int
      BY <2>1
    <2>4. k # 0 /\ ~ (m > m + k - 1) /\ m + k - 1 - m + 1 = k
      <3>1. m < m + k
        BY <2>1
      <3> QED
        BY <2>1, <3>1
    <2>5. IsFiniteSet(m .. m + k - 1) /\ Cardinality(m .. m + k - 1) = k
      BY <2>3, <2>4, FS_Interval
    <2> QED
      BY <2>2, <2>5, FS_Subset
  <1> QED
    BY <1>1, <1>2

(* A run none of whose datagrams shares its number with another one's.     *)
Unwrapped(n, e) ==
  LET ids == {c.id : c \in {d \in net : d.from # n /\ d.epoch = e}}
  IN  \A x, y \in ids : x - y < SeqLimit

(* Different datagrams of one run of a sender, all of them fewer than      *)
(* SeqLimit apart, are not stopped by the same entry.                      *)
LEMMA OneForEach ==
  ASSUME IInv, LossInv, NEW n \in Nodes, NEW e \in Epochs, Unwrapped(n, e),
         NEW x \in refused[n], NEW y \in refused[n], x.epoch = e, y.epoch = e,
         NEW i \in 1 .. Len(accepted[n]), StandsInTheWay(n, x, i), StandsInTheWay(n, y, i)
  PROVE  x = y
  <1> DEFINE ids == {c.id : c \in {d \in net : d.from # n /\ d.epoch = e}}
  <1>u. \A a, b \in ids : a - b < SeqLimit
    BY DEF Unwrapped
  <1>1. PICK c \in net : c.from # n /\ c.id = x.id /\ c.epoch = e /\ c.seq = accepted[n][i].seq
    BY DEF StandsInTheWay
  <1>2. PICK d \in net : d.from # n /\ d.id = y.id /\ d.epoch = e /\ d.seq = accepted[n][i].seq
    BY DEF StandsInTheWay
  <1>0. x.id = y.id => x = y
    <2>1. x \in [id : Nat, epoch : Nat] /\ y \in [id : Nat, epoch : Nat]
      BY DEF LossInv, RefusedShape
    <2> QED
      BY <2>1
  <1>3. c.from = d.from
    BY <1>1, <1>2, Parts, NodesAssumption DEF IInv
  <1>4. c.id \in ids /\ d.id \in ids
    BY <1>1, <1>2
  <1>5. c.id - d.id < SeqLimit /\ d.id - c.id < SeqLimit /\ c.id \in Nat /\ d.id \in Nat
        /\ c.seq \in Numbers /\ c.seq = d.seq
    BY <1>u, <1>1, <1>2, <1>4, Parts DEF IInv
  <1>6. CASE c.id >= d.id
    <2>1. Counted(c.id - d.id, c.seq, d.seq)
      BY <1>1, <1>2, <1>3, <1>5, <1>6 DEF IInv, Sending, Numbered
    <2> QED
      <3>1. c.id = d.id
        BY <1>5, <2>1, FilterAssumption DEF Counted, Numbers
      <3> QED
        BY <1>1, <1>2, <1>0, <3>1
  <1>7. CASE d.id >= c.id
    <2>1. Counted(d.id - c.id, d.seq, c.seq)
      BY <1>1, <1>2, <1>3, <1>5, <1>7 DEF IInv, Sending, Numbered
    <2> QED
      <3>1. c.id = d.id
        BY <1>5, <2>1, FilterAssumption DEF Counted, Numbers
      <3> QED
        BY <1>1, <1>2, <1>0, <3>1
  <1> QED
    BY <1>5, <1>6, <1>7

(* The refused datagrams of a run have different entries in the log,       *)
(* Track at most before the run and the others by strangers.               *)
LEMMA LossInvImplies == IInv /\ LossInv => RestartLossBounded
  <1> SUFFICES ASSUME IInv, LossInv, NEW n \in Nodes, NEW e \in Epochs, Unwrapped(n, e)
               PROVE  Cardinality({x \in refused[n] : x.epoch = e})
                        <= Track + Cardinality(Strangers(n, e))
    BY DEF RestartLossBounded, Unwrapped
  <1> DEFINE ids == {c.id : c \in {d \in net : d.from # n /\ d.epoch = e}}
  <1>u. \A a, b \in ids : a - b < SeqLimit
    BY DEF Unwrapped
  <1> DEFINE L == 1 .. Len(accepted[n])
             F == {x \in refused[n] : x.epoch = e}
             B == {i \in L : /\ accepted[n][i].during < e
                             /\ \A j \in L : accepted[n][j].during < e => j < i + Track}
             G == Strangers(n, e)
  <1>1. Len(accepted[n]) \in Nat /\ DOMAIN accepted[n] = L /\ IsFiniteSet(L)
    <2>1. Len(accepted[n]) \in Nat /\ DOMAIN accepted[n] = L
      BY Parts DEF IInv
    <2>2. 1 \in Int /\ Len(accepted[n]) \in Int
      BY <2>1
    <2>3. IsFiniteSet(1 .. Len(accepted[n]))
      BY <2>2, FS_Interval
    <2> QED
      BY <2>1, <2>3
  <1>2. IsFiniteSet(B) /\ Cardinality(B) <= Track
    <2>1. B \subseteq Nat /\ \A i, j \in B : j < i + Track
      OBVIOUS
    <2> HIDE DEF B
    <2> QED
      BY <2>1, FewBefore, FilterAssumption
  <1>3. IsFiniteSet(G)
    <2>1. G \subseteq L
      BY <1>1 DEF Strangers
    <2> QED
      BY <1>1, <2>1, FS_Subset
  <1>4. ASSUME NEW x \in F
        PROVE  \E i \in B \cup G : StandsInTheWay(n, x, i)
    <2>1. PICK i \in L : StandsInTheWay(n, x, i)
      BY <1>4 DEF LossInv, Blocked
    <2>2. x.epoch = e /\ e \in Nat
      BY <1>4, TunnelAssumption DEF Epochs
    <2>3. accepted[n][i].epoch # e
      <3>1. SUFFICES ASSUME accepted[n][i].epoch = e
                     PROVE  FALSE
        OBVIOUS
      <3>2. PICK c \in net : c.from # n /\ c.id = x.id /\ c.epoch = e
        BY <2>1, <2>2 DEF StandsInTheWay
      <3>3. PICK d \in net : d.from # n /\ d.id = accepted[n][i].id /\ d.epoch = e
        BY <3>1 DEF IInv, Receiving, Origin
      <3>4. c.id \in ids /\ d.id \in ids /\ c.id \in Nat /\ d.id \in Nat
        BY <3>2, <3>3, Parts DEF IInv
      <3>5. c.id - d.id < SeqLimit /\ d.id - c.id < SeqLimit
        BY <1>u, <3>4
      <3> QED
        BY <2>1, <2>2, <3>1, <3>2, <3>3, <3>4, <3>5, FilterAssumption DEF StandsInTheWay
    <2>4. accepted[n][i].during \in Nat
      <3>1. accepted[n][i] \in EntryShape
        BY <2>1, Parts DEF IInv
      <3> QED
        BY <3>1 DEF EntryShape
    <2>5. CASE accepted[n][i].during < e
      <3>1. i \in B
        BY <2>1, <2>2, <2>5 DEF StandsInTheWay
      <3> QED
        BY <2>1, <3>1
    <2>6. CASE accepted[n][i].during >= e
      <3>1. i \in G
        BY <1>1, <2>1, <2>3, <2>6 DEF Strangers
      <3> QED
        BY <2>1, <3>1
    <2> HIDE DEF B, G, F, L
    <2> QED
      BY <2>2, <2>4, <2>5, <2>6
  <1> DEFINE f == [x \in F |-> CHOOSE i \in B \cup G : StandsInTheWay(n, x, i)]
  <1>5. \A x \in F : f[x] \in B \cup G /\ StandsInTheWay(n, x, f[x])
    <2> HIDE DEF B, G, F
    <2> QED
      BY <1>4
  <1>6. \A x, y \in F : f[x] = f[y] => x = y
    <2>1. B \cup G \subseteq L
      BY <1>1 DEF Strangers
    <2> HIDE DEF f, B, G, F
    <2>2. ASSUME NEW x \in F, NEW y \in F, f[x] = f[y]
          PROVE  x = y
      <3>1. /\ f[x] \in L /\ StandsInTheWay(n, x, f[x])
            /\ StandsInTheWay(n, y, f[x])
        BY <1>5, <2>1, <2>2
      <3>2. x \in refused[n] /\ x.epoch = e /\ y \in refused[n] /\ y.epoch = e
        BY DEF F
      <3> QED
        BY <3>1, <3>2, OneForEach
    <2> QED
      BY <2>2
  <1>7. f \in Injection(F, B \cup G)
    <2>1. f \in [F -> B \cup G] /\ DOMAIN f = F
      BY <1>5
    <2> HIDE DEF f, B, G, F
    <2> QED
      BY <1>6, <2>1 DEF Injection, IsInjective
  <1> HIDE DEF f, B, G, F
  <1>8. IsFiniteSet(B \cup G) /\ Cardinality(B \cup G) <= Cardinality(B) + Cardinality(G)
        /\ Cardinality(B) \in Nat /\ Cardinality(G) \in Nat /\ Cardinality(B \cup G) \in Nat
    <2>1. IsFiniteSet(B \cap G) /\ Cardinality(B \cap G) \in Nat
      BY <1>2, FS_Intersection, FS_CardinalityType
    <2>2. /\ IsFiniteSet(B \cup G)
          /\ Cardinality(B \cup G) = Cardinality(B) + Cardinality(G) - Cardinality(B \cap G)
      BY <1>2, <1>3, FS_Union
    <2>3. Cardinality(B) \in Nat /\ Cardinality(G) \in Nat /\ Cardinality(B \cup G) \in Nat
      BY <1>2, <1>3, <2>2, FS_CardinalityType
    <2> QED
      BY <2>1, <2>2, <2>3
  <1>9. Cardinality(F) <= Cardinality(B \cup G) /\ Cardinality(F) \in Nat
    BY <1>7, <1>8, FS_Injection, FS_CardinalityType
  <1>10. Cardinality(F) <= Track + Cardinality(G)
    BY <1>2, <1>8, <1>9, FilterAssumption
  <1> QED
    BY <1>10 DEF F, G

(* For all settings and any network: a restarted sender loses at most Track*)
(* datagrams to the numbers of its former runs, and one more for each one  *)
(* of these runs that arrives late, until its own numbers wrap.            *)
THEOREM RestartLossAlwaysBounded == Spec => []RestartLossBounded
  <1>1. IInv /\ LossInv => RestartLossBounded
    BY LossInvImplies
  <1> QED
    BY <1>1, Inductive, LossInductive, PTL

-----------------------------------------------------------------------------
(* The bounds of the model hold for every variable.                        *)

DaemonType(n) == [up : SUBSET Relays, seq : Numbers, current : Ids(n) \cup {0},
                  handed : [Relays -> [id : Ids(n) \cup {0}, seq : Numbers]],
                  accepted : Seq(Numbers)]

EntryType(n) == [id : Ids(Other(n)), seq : Numbers, epoch : Epochs, during : Epochs, run : Epochs]

CopyType(n) == [from : {n}, epoch : Epochs, relay : Relays, id : Ids(n), seq : Numbers]

(* One daemon's state, its log, what it refused and what it was given.     *)
Bounded(n, d, log, lost, given) ==
  /\ d \in DaemonType(n)
  /\ log \in Seq(EntryType(n))
  /\ lost \subseteq [id : Ids(Other(n)), epoch : Epochs]
  /\ given \in 0 .. MaxSent[n]

BoundInv ==
  /\ \A n \in Nodes : Bounded(n, nodes[n], accepted[n], refused[n], sent[n])
  /\ epoch \in [Nodes -> Epochs]
  /\ net \subseteq UNION {CopyType(n) : n \in Nodes}

(* A daemon one part of which is replaced within the bounds stays in them. *)
LEMMA ReplacedType ==
  ASSUME NEW n, NEW d \in DaemonType(n)
  PROVE  /\ \A x \in SUBSET Relays : [d EXCEPT !.up = x] \in DaemonType(n)
         /\ \A x \in Ids(n) \cup {0} : [d EXCEPT !.current = x] \in DaemonType(n)
         /\ \A x \in [Relays -> [id : Ids(n) \cup {0}, seq : Numbers]] :
               [d EXCEPT !.handed = x] \in DaemonType(n)
         /\ \A x \in Ids(n) \cup {0}, y \in Numbers :
               [d EXCEPT !.current = x, !.seq = y] \in DaemonType(n)
         /\ \A x \in SUBSET Relays, y \in Seq(Numbers) :
               [d EXCEPT !.accepted = y, !.up = x] \in DaemonType(n)
  BY DEF DaemonType

(* The copies a daemon receives are the other one's.                       *)
LEMMA CopyFrom ==
  ASSUME BoundInv, NEW n \in Nodes, NEW c \in net, c.from # n
  PROVE  /\ c.id \in Ids(Other(n)) /\ c.seq \in Numbers /\ c.epoch \in Epochs
         /\ c.from \in Nodes
  <1>1. PICK m \in Nodes : c \in CopyType(m)
    BY DEF BoundInv
  <1>2. c.from = m /\ c.id \in Ids(m) /\ c.seq \in Numbers /\ c.epoch \in Epochs
    BY <1>1 DEF CopyType
  <1>3. Other(n) = m
    BY <1>2, NodesAssumption DEF Other
  <1> QED
    BY <1>2, <1>3

(* The bounds at first.                                                    *)
LEMMA InitBoundInv == Init => BoundInv
  <1> SUFFICES ASSUME Init PROVE BoundInv
    OBVIOUS
  <1> USE FilterAssumption, TunnelAssumption DEF Init, Daemon!Fresh, Daemon!NoCopy, Daemon!None
  <1>1. \A n \in Nodes : nodes[n] \in DaemonType(n)
    BY DEF DaemonType, Numbers
  <1>2. ASSUME NEW n \in Nodes
        PROVE  Bounded(n, nodes[n], accepted[n], refused[n], sent[n])
    <2>1. accepted[n] = <<>> /\ refused[n] = {} /\ sent[n] = 0 /\ MaxSent[n] \in Nat
      OBVIOUS
    <2>2. <<>> \in Seq(EntryType(n))
      OBVIOUS
    <2> HIDE DEF Init, Daemon!Fresh, Daemon!NoCopy, Daemon!None
    <2> QED
      BY <1>1, <2>1, <2>2 DEF Bounded
  <1> QED
    BY <1>2 DEF BoundInv, Epochs

(* A step of one daemon that leaves the runs alone.                        *)
LEMMA BoundKept ==
  ASSUME BoundInv, NEW n \in Nodes, epoch' = epoch,
         \A m \in Nodes \ {n} : /\ nodes'[m] = nodes[m] /\ accepted'[m] = accepted[m]
                                /\ refused'[m] = refused[m] /\ sent'[m] = sent[m],
         Bounded(n, nodes'[n], accepted'[n], refused'[n], sent'[n]),
         net' \subseteq net \cup CopyType(n)
  PROVE  BoundInv'
  <1>1. \A m \in Nodes : Bounded(m, nodes'[m], accepted'[m], refused'[m], sent'[m])
    BY DEF BoundInv
  <1>2. epoch' \in [Nodes -> Epochs] /\ net' \subseteq UNION {CopyType(m) : m \in Nodes}
    BY DEF BoundInv
  <1> QED
    BY <1>1, <1>2 DEF BoundInv

(* A new datagram is within the bound of MaxSent.                          *)
LEMMA BeginBounded ==
  ASSUME IInv, LossInv, BoundInv, NEW n \in Nodes, Begin(n)
  PROVE  BoundInv'
  <1>1. /\ nodes' = [nodes EXCEPT ![n] = [nodes[n] EXCEPT !.current = sent[n] + 1]]
        /\ sent' = [sent EXCEPT ![n] = sent[n] + 1]
        /\ sent[n] < MaxSent[n]
        /\ epoch' = epoch /\ net' = net /\ accepted' = accepted /\ refused' = refused
    BY DEF Begin, Daemon!MayBegin, Daemon!AfterBegin, Daemon!None
  <1>2. Bounded(n, nodes[n], accepted[n], refused[n], sent[n])
    BY DEF BoundInv
  <1>3. sent[n] + 1 \in 0 .. MaxSent[n] /\ sent[n] + 1 \in Ids(n)
    BY <1>1, <1>2, TunnelAssumption DEF Bounded, Ids
  <1>4. [nodes[n] EXCEPT !.current = sent[n] + 1] \in DaemonType(n)
    BY <1>2, <1>3, ReplacedType, Zenon DEF Bounded
  <1>5. /\ nodes'[n] = [nodes[n] EXCEPT !.current = sent[n] + 1] /\ sent'[n] = sent[n] + 1
        /\ \A m \in Nodes \ {n} : nodes'[m] = nodes[m] /\ sent'[m] = sent[m]
    BY <1>1, Zenon DEF IInv, Shape
  <1>6. Bounded(n, nodes'[n], accepted'[n], refused'[n], sent'[n])
    BY <1>1, <1>2, <1>3, <1>4, <1>5, Zenon DEF Bounded
  <1> QED
    BY <1>1, <1>5, <1>6, BoundKept

(* A copy carries what its daemon has.                                     *)
LEMMA HandBounded ==
  ASSUME IInv, LossInv, BoundInv, NEW n \in Nodes, NEW r \in Relays, Hand(n, r)
  PROVE  BoundInv'
  <1> DEFINE copy == [from |-> n, epoch |-> epoch[n], relay |-> r,
                      id |-> nodes[n].current, seq |-> nodes[n].seq]
             took == [nodes[n].handed EXCEPT ![r] = [id |-> nodes[n].current, seq |-> nodes[n].seq]]
  <1>1. /\ nodes' = [nodes EXCEPT ![n] = [nodes[n] EXCEPT !.handed = took]]
        /\ net' = net \cup {copy}
        /\ nodes[n].current # 0
        /\ epoch' = epoch /\ sent' = sent /\ accepted' = accepted /\ refused' = refused
    BY DEF Hand, Daemon!MayHand, Daemon!AfterHand, Daemon!None
  <1>2. Bounded(n, nodes[n], accepted[n], refused[n], sent[n]) /\ epoch[n] \in Epochs
    BY DEF BoundInv
  <1>3. copy \in CopyType(n)
    BY <1>1, <1>2 DEF Bounded, DaemonType, CopyType
  <1>4. took \in [Relays -> [id : Ids(n) \cup {0}, seq : Numbers]]
    BY <1>2 DEF Bounded, DaemonType
  <1> HIDE DEF copy, took
  <1>5. [nodes[n] EXCEPT !.handed = took] \in DaemonType(n)
    BY <1>2, <1>4, ReplacedType, Zenon DEF Bounded
  <1>6. /\ nodes'[n] = [nodes[n] EXCEPT !.handed = took]
        /\ \A m \in Nodes \ {n} : nodes'[m] = nodes[m]
    BY <1>1, Zenon DEF IInv, Shape
  <1>7. Bounded(n, nodes'[n], accepted'[n], refused'[n], sent'[n])
    BY <1>1, <1>2, <1>5, <1>6, Zenon DEF Bounded
  <1> QED
    BY <1>1, <1>3, <1>6, <1>7, BoundKept

(* The next number is below SeqLimit.                                      *)
LEMMA AdvanceBounded ==
  ASSUME IInv, LossInv, BoundInv, NEW n \in Nodes, Advance(n)
  PROVE  BoundInv'
  <1> DEFINE next == (nodes[n].seq + 1) % SeqLimit
  <1>1. /\ nodes' = [nodes EXCEPT ![n] = [nodes[n] EXCEPT !.current = 0, !.seq = next]]
        /\ epoch' = epoch /\ sent' = sent /\ net' = net
        /\ accepted' = accepted /\ refused' = refused
    BY DEF Advance, Daemon!MayAdvance, Daemon!AfterAdvance, Daemon!None
  <1>2. Bounded(n, nodes[n], accepted[n], refused[n], sent[n])
    BY DEF BoundInv
  <1>3. next \in Numbers
    BY Parts, NumberAfter, FilterAssumption DEF Numbers, IInv
  <1> HIDE DEF next
  <1>4. [nodes[n] EXCEPT !.current = 0, !.seq = next] \in DaemonType(n)
    <2>1. 0 \in Ids(n) \cup {0}
      OBVIOUS
    <2> QED
      BY <1>2, <1>3, <2>1, ReplacedType, Zenon DEF Bounded
  <1>5. /\ nodes'[n] = [nodes[n] EXCEPT !.current = 0, !.seq = next]
        /\ \A m \in Nodes \ {n} : nodes'[m] = nodes[m]
    BY <1>1, Zenon DEF IInv, Shape
  <1>6. Bounded(n, nodes'[n], accepted'[n], refused'[n], sent'[n])
    BY <1>1, <1>2, <1>4, <1>5, Zenon DEF Bounded
  <1> QED
    BY <1>1, <1>5, <1>6, BoundKept

(* Fewer relays.                                                           *)
LEMMA LoseBounded ==
  ASSUME IInv, LossInv, BoundInv, NEW n \in Nodes, NEW R, Lose(n, R)
  PROVE  BoundInv'
  <1>1. /\ nodes' = [nodes EXCEPT ![n] = [nodes[n] EXCEPT !.up = nodes[n].up \ R]]
        /\ epoch' = epoch /\ sent' = sent /\ net' = net
        /\ accepted' = accepted /\ refused' = refused
    BY DEF Lose, Daemon!AfterLose
  <1>2. Bounded(n, nodes[n], accepted[n], refused[n], sent[n])
    BY DEF BoundInv
  <1>3. nodes[n].up \ R \in SUBSET Relays
    BY <1>2 DEF Bounded, DaemonType
  <1>4. [nodes[n] EXCEPT !.up = nodes[n].up \ R] \in DaemonType(n)
    BY <1>2, <1>3, ReplacedType, Zenon DEF Bounded
  <1>5. /\ nodes'[n] = [nodes[n] EXCEPT !.up = nodes[n].up \ R]
        /\ \A m \in Nodes \ {n} : nodes'[m] = nodes[m]
    BY <1>1, Zenon DEF IInv, Shape
  <1>6. Bounded(n, nodes'[n], accepted'[n], refused'[n], sent'[n])
    BY <1>1, <1>2, <1>4, <1>5, Zenon DEF Bounded
  <1> QED
    BY <1>1, <1>5, <1>6, BoundKept

(* An entry of the log is made of a copy that was sent.                    *)
LEMMA AcceptBounded ==
  ASSUME IInv, LossInv, BoundInv, NEW n \in Nodes, NEW c \in net, NEW R, Accept(n, c, R)
  PROVE  BoundInv'
  <1> DEFINE entry == [id |-> c.id, seq |-> c.seq, epoch |-> c.epoch,
                       during |-> epoch[c.from], run |-> epoch[n]]
             seqs  == Append(nodes[n].accepted, c.seq)
  <1>1. /\ nodes' = [nodes EXCEPT ![n] = [nodes[n] EXCEPT !.accepted = seqs, !.up = nodes[n].up \ R]]
        /\ accepted' = [accepted EXCEPT ![n] = Append(accepted[n], entry)]
        /\ c.from # n
        /\ epoch' = epoch /\ sent' = sent /\ net' = net /\ refused' = refused
    BY DEF Accept, Incoming, Daemon!MayAccept, Daemon!AfterAccept
  <1>2. Bounded(n, nodes[n], accepted[n], refused[n], sent[n])
    BY DEF BoundInv
  <1>3. /\ c.id \in Ids(Other(n)) /\ c.seq \in Numbers /\ c.epoch \in Epochs
        /\ epoch[c.from] \in Epochs /\ epoch[n] \in Epochs
    BY <1>1, CopyFrom DEF BoundInv
  <1>4. entry \in EntryType(n)
    BY <1>3 DEF EntryType
  <1>5. seqs \in Seq(Numbers) /\ nodes[n].up \ R \in SUBSET Relays
    BY <1>2, <1>3 DEF Bounded, DaemonType
  <1> HIDE DEF entry, seqs
  <1>6. [nodes[n] EXCEPT !.accepted = seqs, !.up = nodes[n].up \ R] \in DaemonType(n)
    BY <1>2, <1>5, ReplacedType, Zenon DEF Bounded
  <1>7. /\ nodes'[n] = [nodes[n] EXCEPT !.accepted = seqs, !.up = nodes[n].up \ R]
        /\ accepted'[n] = Append(accepted[n], entry)
        /\ \A m \in Nodes \ {n} : nodes'[m] = nodes[m] /\ accepted'[m] = accepted[m]
    BY <1>1, Zenon DEF IInv, Shape
  <1>8. accepted'[n] \in Seq(EntryType(n))
    BY <1>2, <1>4, <1>7, AppendProperties DEF Bounded
  <1>9. Bounded(n, nodes'[n], accepted'[n], refused'[n], sent'[n])
    BY <1>1, <1>2, <1>6, <1>7, <1>8, Zenon DEF Bounded
  <1> QED
    BY <1>1, <1>7, <1>9, BoundKept

(* So is a refusal.                                                        *)
LEMMA RefuseBounded ==
  ASSUME IInv, LossInv, BoundInv, NEW n \in Nodes, NEW c \in net, Refuse(n, c)
  PROVE  BoundInv'
  <1> DEFINE x == [id |-> c.id, epoch |-> c.epoch]
  <1>1. /\ refused' = [refused EXCEPT ![n] =
             IF AcceptedBefore(n, c.id) THEN refused[n] ELSE refused[n] \cup {x}]
        /\ c.from # n
        /\ nodes' = nodes /\ epoch' = epoch /\ sent' = sent /\ net' = net /\ accepted' = accepted
    BY DEF Refuse, Incoming
  <1>2. Bounded(n, nodes[n], accepted[n], refused[n], sent[n])
    BY DEF BoundInv
  <1>3. x \in [id : Ids(Other(n)), epoch : Epochs]
    BY <1>1, CopyFrom
  <1> HIDE DEF x
  <1>4. /\ refused'[n] \subseteq refused[n] \cup {x}
        /\ \A m \in Nodes \ {n} : refused'[m] = refused[m]
    BY <1>1 DEF LossInv, RefusedShape
  <1>5. Bounded(n, nodes'[n], accepted'[n], refused'[n], sent'[n])
    BY <1>1, <1>2, <1>3, <1>4 DEF Bounded
  <1> QED
    BY <1>1, <1>4, <1>5, BoundKept

(* A new run is within the bound of restarts.                              *)
LEMMA RestartBounded ==
  ASSUME IInv, LossInv, BoundInv, NEW n \in Nodes, Restart(n)
  PROVE  BoundInv'
  <1>1. /\ nodes' = [nodes EXCEPT ![n] = Daemon(n)!Fresh]
        /\ epoch' = [epoch EXCEPT ![n] = epoch[n] + 1]
        /\ Restarts < MaxRestarts
        /\ sent' = sent /\ net' = net /\ accepted' = accepted /\ refused' = refused
    BY DEF Restart
  <1>2. Daemon(n)!Fresh \in DaemonType(n)
    BY FilterAssumption, TunnelAssumption
       DEF Daemon!Fresh, Daemon!NoCopy, Daemon!None, DaemonType, Numbers, Ids
  <1>3. epoch[n] + 1 \in Epochs
    <2> DEFINE some == CHOOSE m \in Nodes : TRUE
    <2>1. some \in Nodes /\ Other(some) \in Nodes /\ (n = some \/ n = Other(some))
      BY NodesAssumption DEF Other
    <2>2. \A m \in Nodes : epoch[m] \in Nat
      BY Parts DEF IInv
    <2>3. epoch[some] + epoch[Other(some)] < MaxRestarts
      BY <1>1 DEF Restarts
    <2> HIDE DEF some
    <2> QED
      BY <2>1, <2>2, <2>3, TunnelAssumption DEF Epochs
  <1>4. epoch' \in [Nodes -> Epochs]
    BY <1>1, <1>3 DEF BoundInv
  <1>5. ASSUME NEW m \in Nodes
        PROVE  Bounded(m, nodes'[m], accepted'[m], refused'[m], sent'[m])
    <2>1. Bounded(m, nodes[m], accepted[m], refused[m], sent[m])
      BY DEF BoundInv
    <2>2. nodes'[m] = IF m = n THEN Daemon(n)!Fresh ELSE nodes[m]
      BY <1>1 DEF IInv, Shape
    <2>3. nodes'[m] \in DaemonType(m)
      BY <1>2, <2>1, <2>2 DEF Bounded
    <2> QED
      BY <1>1, <2>1, <2>3, Zenon DEF Bounded
  <1> QED
    BY <1>1, <1>4, <1>5, Zenon DEF BoundInv

(* Every step keeps the bounds.                                            *)
LEMMA NextBoundInv == IInv /\ LossInv /\ BoundInv /\ [Next]_vars => BoundInv'
  <1> SUFFICES ASSUME IInv, LossInv, BoundInv, [Next]_vars PROVE BoundInv'
    OBVIOUS
  <1>1. CASE Next
    <2>1. PICK n \in Nodes : \/ Begin(n)
                             \/ \E r \in Relays : Hand(n, r)
                             \/ Advance(n)
                             \/ \E R \in MayLose : Lose(n, R)
                             \/ \E c \in net, R \in MayLose \cup {{}} : Accept(n, c, R)
                             \/ \E c \in net : Refuse(n, c)
                             \/ Restart(n)
      BY <1>1 DEF Next
    <2> QED
      BY <2>1, BeginBounded, HandBounded, AdvanceBounded, LoseBounded, AcceptBounded,
         RefuseBounded, RestartBounded
  <1>2. CASE UNCHANGED vars
    BY <1>2 DEF vars, BoundInv
  <1> QED
    BY <1>1, <1>2

(* They hold in every state.                                               *)
LEMMA BoundInductive == Spec => []BoundInv
  BY InitBoundInv, NextBoundInv, Inductive, LossInductive, PTL DEF Spec

(* They are the type.                                                      *)
LEMMA BoundInvTyped == BoundInv => TypeOK
  <1> SUFFICES ASSUME BoundInv PROVE TypeOK
    OBVIOUS
  <1>1. ASSUME NEW n \in Nodes
        PROVE  /\ nodes[n].up \subseteq Relays
               /\ nodes[n].seq \in Numbers
               /\ nodes[n].current \in Ids(n) \cup {0}
               /\ nodes[n].handed \in [Relays -> [id : Ids(n) \cup {0}, seq : Numbers]]
               /\ nodes[n].accepted \in Seq(Numbers)
               /\ accepted[n] \in Seq(EntryType(n))
               /\ refused[n] \subseteq [id : Ids(Other(n)), epoch : Epochs]
               /\ sent[n] \in 0 .. MaxSent[n]
    <2>1. Bounded(n, nodes[n], accepted[n], refused[n], sent[n])
      BY DEF BoundInv
    <2> QED
      BY <2>1 DEF Bounded, DaemonType
  <1> QED
    BY <1>1 DEF BoundInv, TypeOK, EntryType, CopyType

(* Every variable has its type: numbers stay below SeqLimit, and what one  *)
(* daemon has of a datagram is what the other was given.                   *)
THEOREM TypeCorrect == Spec => []TypeOK
  <1>1. BoundInv => TypeOK
    BY BoundInvTyped
  <1> QED
    BY <1>1, BoundInductive, PTL
=============================================================================
