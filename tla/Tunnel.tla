------------------------------- MODULE Tunnel -------------------------------
(***************************************************************************)
(* Two daemons connected by their relays: what the one hands to a relay    *)
(* may reach the other through the same relay, late, out of order, several *)
(* times or never.  A daemon may end at any time, by a signal or a crash,  *)
(* and be started again: it then counts from 0, with an empty filter,      *)
(* while the other goes on with what it remembers.                         *)
(*                                                                         *)
(* The network is the set of all copies ever handed to a relay: they stay, *)
(* so that each can arrive any number of times; one that is never received *)
(* is lost.  Payloads are numbers (id), never used twice by one daemon.    *)
(***************************************************************************)
EXTENDS Integers, Sequences, FiniteSets

CONSTANTS Nodes,       \* the two daemons
          Relays, Track, SeqLimit,
          MaxSent,     \* bound: datagrams each daemon is given to relay
          MaxAccepted, \* bound: numbers each daemon accepts
          MaxRestarts, \* bound: restarts of all daemons
          MayLose      \* the sets of relays that may be lost at once

ASSUME NodesAssumption == \E x, y \in Nodes : x # y /\ Nodes = {x, y}
ASSUME FilterAssumption == Track \in Nat \ {0} /\ SeqLimit \in Nat \ {0}
ASSUME TunnelAssumption == MaxSent \in [Nodes -> Nat] /\ MaxAccepted \in [Nodes -> Nat]
                           /\ MaxRestarts \in Nat /\ MayLose \subseteq SUBSET Relays

VARIABLES nodes,     \* the daemons
          epoch,     \* how often each was restarted
          sent,      \* datagrams each was given
          net,       \* copies on their way
          accepted,  \* history: what each has accepted in all its runs
          refused    \* history: what each refused without having accepted it before

vars == <<nodes, epoch, sent, net, accepted, refused>>

Daemon(n) == INSTANCE Dispatcher WITH daemon <- nodes[n], Ids <- 1 .. MaxSent[n]

Other(n) == CHOOSE m \in Nodes : m # n

Init == /\ nodes = [n \in Nodes |-> Daemon(n)!Fresh]
        /\ epoch = [n \in Nodes |-> 0]
        /\ sent = [n \in Nodes |-> 0]
        /\ net = {}
        /\ accepted = [n \in Nodes |-> <<>>]
        /\ refused = [n \in Nodes |-> {}]

(* A datagram comes in from the outward interface.                         *)
Begin(n) == /\ sent[n] < MaxSent[n]
            /\ Daemon(n)!MayBegin(sent[n] + 1)
            /\ nodes' = [nodes EXCEPT ![n] = Daemon(n)!AfterBegin(sent[n] + 1)]
            /\ sent' = [sent EXCEPT ![n] = @ + 1]
            /\ UNCHANGED <<epoch, net, accepted, refused>>

(* A relay takes a copy, and the kernel puts it on the wire.               *)
Hand(n, r) ==
  /\ Daemon(n)!MayHand(r)
  /\ nodes' = [nodes EXCEPT ![n] = Daemon(n)!AfterHand(r)]
  /\ net' = net \cup {[from |-> n, epoch |-> epoch[n], relay |-> r,
                       id |-> nodes[n].current, seq |-> nodes[n].seq]}
  /\ UNCHANGED <<epoch, sent, accepted, refused>>

Advance(n) == /\ Daemon(n)!MayAdvance
              /\ nodes' = [nodes EXCEPT ![n] = Daemon(n)!AfterAdvance]
              /\ UNCHANGED <<epoch, sent, net, accepted, refused>>

Lose(n, R) == /\ R \cap nodes[n].up # {}
              /\ nodes' = [nodes EXCEPT ![n] = Daemon(n)!AfterLose(R)]
              /\ UNCHANGED <<epoch, sent, net, accepted, refused>>

Incoming(n) == {c \in net : c.from # n /\ c.relay \in nodes[n].up}

(* A copy arrives whose number is new; the outward interface may fail.     *)
Accept(n, c, R) ==
  /\ c \in Incoming(n)
  /\ R \in {{}} \cup (MayLose \cap {{c.relay}})
  /\ Len(accepted[n]) < MaxAccepted[n]
  /\ Daemon(n)!MayAccept(c.seq, R)
  /\ nodes' = [nodes EXCEPT ![n] = Daemon(n)!AfterAccept(c.seq, R)]
  /\ accepted' = [accepted EXCEPT ![n] =
       Append(@, [id |-> c.id, seq |-> c.seq, epoch |-> c.epoch,
                  during |-> epoch[c.from], run |-> epoch[n]])]
  /\ UNCHANGED <<epoch, sent, net, refused>>

AcceptedBefore(n, id) == \E i \in DOMAIN accepted[n] : accepted[n][i].id = id

(* A copy arrives whose number is remembered.                              *)
Refuse(n, c) ==
  /\ c \in Incoming(n)
  /\ c.seq \in Daemon(n)!Recent
  /\ refused' = [refused EXCEPT ![n] =
       IF AcceptedBefore(n, c.id) THEN @ ELSE @ \cup {[id |-> c.id, epoch |-> c.epoch]}]
  /\ UNCHANGED <<nodes, epoch, sent, net, accepted>>

Restarts == LET some == CHOOSE n \in Nodes : TRUE IN epoch[some] + epoch[Other(some)]

(* The daemon ends wherever it is, and is started again.                   *)
Restart(n) == /\ Restarts < MaxRestarts
              /\ nodes' = [nodes EXCEPT ![n] = Daemon(n)!Fresh]
              /\ epoch' = [epoch EXCEPT ![n] = @ + 1]
              /\ UNCHANGED <<sent, net, accepted, refused>>

Next == \E n \in Nodes : \/ Begin(n)
                         \/ \E r \in Relays : Hand(n, r)
                         \/ Advance(n)
                         \/ \E R \in MayLose : Lose(n, R)
                         \/ \E c \in net, R \in MayLose \cup {{}} : Accept(n, c, R)
                         \/ \E c \in net : Refuse(n, c)
                         \/ Restart(n)

Spec == Init /\ [][Next]_vars

-----------------------------------------------------------------------------

Ids(n)  == 1 .. MaxSent[n]
Numbers == 0 .. SeqLimit - 1
Epochs  == 0 .. MaxRestarts

TypeOK ==
  /\ \A n \in Nodes :
       /\ nodes[n].up \subseteq Relays
       /\ nodes[n].seq \in Numbers
       /\ nodes[n].current \in Ids(n) \cup {0}
       /\ nodes[n].handed \in [Relays -> [id : Ids(n) \cup {0}, seq : Numbers]]
       /\ nodes[n].accepted \in Seq(Numbers)
       /\ accepted[n] \in Seq([id : Ids(Other(n)), seq : Numbers, epoch : Epochs,
                               during : Epochs, run : Epochs])
       /\ refused[n] \subseteq [id : Ids(Other(n)), epoch : Epochs]
       /\ sent[n] \in 0 .. MaxSent[n]
  /\ epoch \in [Nodes -> Epochs]
  /\ net \subseteq UNION {[from : {n}, epoch : Epochs, relay : Relays, id : Ids(n),
                           seq : Numbers] : n \in Nodes}

(* The last Track acceptances of n's present run, with their payloads.     *)
Window(n) == LET log == accepted[n]
             IN  {log[i] : i \in {j \in DOMAIN log : j > Len(log) - Track /\ log[j].run = epoch[n]}}

(* A payload leaves the tunnel twice only if the receiver was restarted in *)
(* between, or accepted Track others in between: whatever the network does *)
(* with the copies, and whatever becomes of the sender.                    *)
RepeatsExplained ==
  \A n \in Nodes : \A i, j \in DOMAIN accepted[n] :
    i < j /\ accepted[n][i].id = accepted[n][j].id
      => j - i > Track \/ accepted[n][i].run # accepted[n][j].run

(* A copy of a datagram that was not accepted before is refused only for   *)
(* the sake of one that the receiver accepted a short time ago and that    *)
(* comes from another run of the sender or is at least SeqLimit datagrams  *)
(* older or younger: a filter that is small enough never mistakes two      *)
(* datagrams of one run for one another.                                   *)
RefusalsExplained ==
  \A n \in Nodes : \A c \in net :
    c.from # n /\ c.seq \in Daemon(n)!Recent
      => \E w \in Window(n) :
           /\ w.seq = c.seq
           /\ \/ w.id = c.id
              \/ w.epoch # c.epoch
              \/ w.id - c.id >= SeqLimit
              \/ c.id - w.id >= SeqLimit

(* A restarted sender finds the numbers of its former run in the receiver's*)
(* filter, but loses no more than Track datagrams to them, and one more    *)
(* for each datagram of another run that is accepted after the restart,    *)
(* as long as its own numbers have not wrapped around.                     *)
Strangers(n, e) == {i \in DOMAIN accepted[n] :
                      accepted[n][i].epoch # e /\ accepted[n][i].during >= e}

RestartLossBounded ==
  \A n \in Nodes, e \in Epochs :
    LET ids == {c.id : c \in {d \in net : d.from # n /\ d.epoch = e}}
    IN  (\A x, y \in ids : x - y < SeqLimit)
          => Cardinality({x \in refused[n] : x.epoch = e}) <= Track + Cardinality(Strangers(n, e))
=============================================================================
