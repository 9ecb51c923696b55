------------------------------ MODULE Udprelayd ------------------------------
(***************************************************************************)
(* The daemon of udprelayd.c: the loop of main() around select(), which    *)
(* copies every datagram of the outward interface to all relays and passes *)
(* the first copy of every datagram from the relays to the outward         *)
(* interface.                                                              *)
(*                                                                         *)
(* The program has one thread.  Every action below is one call of a        *)
(* relay function or one loop header; between two of them only the signal  *)
(* handler can run.  The kernel's answers, and the datagrams it hands out, *)
(* are chosen nondeterministically.  CLIST_FOREACH is a cursor over the    *)
(* members the list had when the loop began: deleting the current member   *)
(* does not disturb it.                                                    *)
(*                                                                         *)
(* `tried`, `delivered` and `accepted` are history, and `accepted` stands  *)
(* for the duplicate filter, which remembers its last Track elements.      *)
(***************************************************************************)
EXTENDS RelayOps, FiniteSets, SequencesExt

CONSTANTS Config,         \* the configured relays, in the order of the file
          Out,            \* the outward interface
          Peer,           \* the configured remote address of every relay
          App,            \* the address behind the outward interface
          OutRemote,      \* its configured address, or NoAddr
          Track,          \* the `track` setting
          SeqLimit,       \* 2^16 in the code
          InboundLens,    \* lengths of datagrams from the outward interface
          RelayedInputs,  \* datagrams the relays receive
          MaxInbound,     \* bound: datagrams read from the outward interface
          MaxRelayed,     \* bound: datagrams read from the relays
          Signals,        \* signals main() installs its handler for
          Freed           \* a relay_t that has been freed

Relays == ToSet(Config)
Fds    == Relays \cup {Out}

HeaderLen == 2            \* sizeof(header_t)
NoSeq     == -1           \* a datagram that carries no header

(* What can be in a datagram of the peer: a number if there is a header.   *)
Datagram == [id : Nat, seq : {NoSeq} \cup 0 .. SeqLimit - 1, len : Nat]

ASSUME RelaysAssumption == Config \in Seq(Relays) /\ IsInjective(Config) /\ Out \notin Relays
ASSUME AddrAssumption   == Peer # NoAddr /\ App # NoAddr /\ OutRemote \in {App, NoAddr}
ASSUME TrackAssumption  == Track \in Nat \ {0} /\ SeqLimit \in Nat \ {0}
ASSUME BoundAssumption  == MaxInbound \in Nat /\ MaxRelayed \in Nat
ASSUME DatagramAssumption ==
  /\ InboundLens \subseteq Nat
  /\ RelayedInputs \subseteq Datagram
  /\ \A d \in RelayedInputs : d.len >= HeaderLen => d.seq # NoSeq
  /\ NoDatagram \notin Datagram

VARIABLES pc,         \* where main() is
          rfds, wfds, \* what select() reported
          todo,       \* members the current CLIST_FOREACH has yet to visit
          relays,     \* the circular list, from udprelay.relays on
          relaysNum,  \* relays_num
          rel,        \* the relay_t of every interface
          buffer,     \* the datagram udprelay_dispatch_inbound() copies
          seq,        \* the next sequence number, 16 bits in the code
          sigterm,    \* sigterm_evt
          armed,      \* signals whose handler has not run yet
          accepted,   \* history: numbers lookup_push() accepted
          tried,      \* history: copies each relay took from the dispatcher
          delivered,  \* history: datagrams sent by the outward interface
          inbound,    \* number of datagrams read from the outward interface
          relayed     \* number of datagrams read from the relays

listVars == <<relays, relaysNum>>
dataVars == <<seq, accepted, tried, delivered>>
vars == <<pc, rfds, wfds, todo, relays, relaysNum, rel, buffer, seq, sigterm,
          armed, accepted, tried, delivered, inbound, relayed>>

Live == {f \in Fds : rel[f] # Freed}

(* What lookup_push() refuses: SeenLookup implements this filter.          *)
Filter == INSTANCE Dedup WITH N <- Track, Seqs <- 0 .. SeqLimit - 1,
                              log <- accepted, answer <- [seq |-> NoSeq, added |-> FALSE]

(* udprelay_init() with a configuration that can be opened: every relay    *)
(* has a configured remote address, the outward interface may learn it.    *)
(* Between signal() and the first select() the handlers may already run.   *)
Init == /\ pc = "select"
        /\ rfds = {} /\ wfds = {}
        /\ todo = <<>>
        /\ relays = Config
        /\ relaysNum = Len(Config)
        /\ rel = [f \in Fds |-> NewRelay(IF f = Out THEN OutRemote ELSE Peer)]
        /\ buffer = NoDatagram
        /\ seq = 0
        /\ armed \in SUBSET Signals
        /\ sigterm = (armed # Signals)
        /\ accepted = <<>>
        /\ tried = [r \in Relays |-> <<>>]
        /\ delivered = <<>>
        /\ inbound = 0 /\ relayed = 0

-----------------------------------------------------------------------------
(* The top of the loop: select() and the signal handler.                   *)

(* Mutant of Select: the flag is not looked at.                             *)
SelectDeaf(R, W) ==
  /\ pc = "select"
  /\ R \subseteq {f \in Live : WantsRead(rel[f])}
  /\ W \subseteq {f \in Live : WantsWrite(rel[f])}
  /\ R \cup W # {}
  /\ pc' = "outward" /\ rfds' = R /\ wfds' = W
  /\ UNCHANGED <<todo, buffer, rel, sigterm, armed, inbound, relayed>>
  /\ UNCHANGED listVars /\ UNCHANGED dataVars

(* relay_fd_set() on every member, then select() returns with at least one *)
(* socket ready.  A signal caught before is only looked at now.            *)
Select(R, W) ==
  /\ pc = "select"
  /\ R \subseteq {f \in Live : WantsRead(rel[f])}
  /\ W \subseteq {f \in Live : WantsWrite(rel[f])}
  /\ R \cup W # {}
  /\ IF sigterm THEN pc' = "terminate" /\ UNCHANGED <<rfds, wfds>>
                ELSE pc' = "outward" /\ rfds' = R /\ wfds' = W
  /\ UNCHANGED <<todo, buffer, rel, sigterm, armed, inbound, relayed>>
  /\ UNCHANGED listVars /\ UNCHANGED dataVars

(* select() fails for another reason than EAGAIN.                          *)
SelectError == /\ pc = "select"
               /\ pc' = "terminate"
               /\ UNCHANGED <<rfds, wfds, todo, buffer, rel, sigterm, armed, inbound, relayed>>
               /\ UNCHANGED listVars /\ UNCHANGED dataVars

Stopped == pc \in {"done", "crashed", "killed"}

(* The handler sets the flag; only a select() that is blocked at that      *)
(* moment is interrupted (EINTR).  With the flags of the Makefile signal() *)
(* has its System V meaning: a handler runs once, and the next signal of   *)
(* its kind kills the process, without any clean-up.                       *)
Signal(s) ==
  /\ ~Stopped
  /\ IF s \in armed
     THEN /\ sigterm' = TRUE
          /\ pc' = IF pc = "select" THEN "terminate" ELSE pc
          /\ armed' = armed \ {s}
     ELSE pc' = "killed" /\ UNCHANGED <<sigterm, armed>>
  /\ UNCHANGED <<rfds, wfds, todo, buffer, rel, inbound, relayed>>
  /\ UNCHANGED listVars /\ UNCHANGED dataVars

-----------------------------------------------------------------------------
(* relay_handle() on the outward interface, then on every relay.           *)

Unread == [id |-> 0, seq |-> NoSeq, len |-> 0]

(* What recvfrom() may answer on interface f, given the datagrams D.       *)
Skipped == [res |-> "skip", d |-> Unread]
Answers(D) == {[res |-> "data", d |-> d] : d \in D}
                 \cup {Skipped, [res |-> "hard", d |-> Unread]}

Reads(f, D) == IF f \in rfds THEN Answers(D) ELSE {Skipped}

Writes(f) == IF f \in wfds THEN SendResults ELSE {"again"}

NextInbound == IF inbound < MaxInbound
               THEN {[id |-> inbound + 1, seq |-> NoSeq, len |-> n] : n \in InboundLens}
               ELSE {}
NextRelayed == IF relayed < MaxRelayed THEN RelayedInputs ELSE {}

GotData(read) == read.res = "data" /\ read.d.len > 0

(* A failure of the outward interface ends the loop.                       *)
HandleOutward(read, wres) ==
  LET r == rel[Out] IN
  /\ pc = "outward"
  /\ read \in Reads(Out, NextInbound) /\ wres \in Writes(Out)
  /\ rel' = [rel EXCEPT ![Out] = AfterHandle(r, read.d, App, read.res, wres)]
  /\ IF HandleFails(r, read.d, read.res, wres)
     THEN pc' = "terminate" /\ UNCHANGED todo
     ELSE pc' = "relays" /\ todo' = relays
  /\ delivered' = IF wres = "sent" /\ HandleLeaves(r, read.d, read.res, wres)
                  THEN Append(delivered, Head(Pending(r))) ELSE delivered
  /\ inbound' = inbound + IF GotData(read) THEN 1 ELSE 0
  /\ UNCHANGED <<rfds, wfds, buffer, seq, sigterm, armed, accepted, tried, relayed>>
  /\ UNCHANGED listVars

(* Mutants of Unlink: the counter is forgotten; the list is.               *)
UnlinkUncounted(r) == /\ relays' = RemoveFirst(relays, r)
                      /\ UNCHANGED relaysNum
UnlinkCounted(r) == /\ relaysNum' = relaysNum - 1
                    /\ UNCHANGED relays

(* CLIST_DEL() of a relay that failed, and the relay counter.  When the    *)
(* member the list begins with goes, the next one takes its place.         *)
Unlink(r) == /\ relays' = RemoveFirst(relays, r)
             /\ relaysNum' = relaysNum - 1

(* A failing relay is disabled: deleted from the list and freed.           *)
HandleRelay(read, wres) ==
  /\ pc = "relays" /\ todo # <<>>
  /\ LET r == Head(todo) IN
       /\ read \in Reads(r, NextRelayed) /\ wres \in Writes(r)
       /\ IF HandleFails(rel[r], read.d, read.res, wres)
          THEN Unlink(r) /\ rel' = [rel EXCEPT ![r] = Freed]
          ELSE /\ rel' = [rel EXCEPT ![r] = AfterHandle(@, read.d, Peer, read.res, wres)]
               /\ UNCHANGED listVars
  /\ todo' = Tail(todo)
  /\ relayed' = relayed + IF GotData(read) THEN 1 ELSE 0
  /\ UNCHANGED <<pc, rfds, wfds, buffer, sigterm, armed, inbound>>
  /\ UNCHANGED dataVars

(* The relays are done: relay_receive() on the outward interface.          *)
ReceiveInbound ==
  /\ pc = "relays" /\ todo = <<>>
  /\ buffer' = rel[Out].recv
  /\ rel' = [rel EXCEPT ![Out] = AfterReceive(@)]
  /\ pc' = IF rel[Out].recv # NoDatagram THEN "inbound" ELSE "relayed"
  /\ todo' = relays
  /\ UNCHANGED <<rfds, wfds, sigterm, armed, inbound, relayed>>
  /\ UNCHANGED listVars /\ UNCHANGED dataVars

-----------------------------------------------------------------------------
(* udprelay_dispatch_inbound()                                             *)

Stamped(d) == [d EXCEPT !.seq = seq, !.len = @ + HeaderLen]

(* Mutant of CopyToRelay: every copy takes a number of its own.            *)
CopyToRelayRenumbered(res) ==
  /\ pc = "inbound" /\ todo # <<>>
  /\ LET r == Head(todo)
         d == Stamped(buffer)
     IN  IF EnqueueFails(rel[r], d, res)
         THEN Unlink(r) /\ rel' = [rel EXCEPT ![r] = Freed] /\ UNCHANGED tried
         ELSE /\ rel' = [rel EXCEPT ![r] = Enqueue(@, d, res)]
              /\ tried' = [tried EXCEPT ![r] = Append(@, d)]
              /\ UNCHANGED listVars
  /\ todo' = Tail(todo)
  /\ seq' = (seq + 1) % SeqLimit
  /\ UNCHANGED <<pc, rfds, wfds, buffer, sigterm, armed, accepted, delivered, inbound, relayed>>

(* One round of its loop: relay_enqueue() of the copy to the next relay.   *)
CopyToRelay(res) ==
  /\ pc = "inbound" /\ todo # <<>>
  /\ LET r == Head(todo)
         d == Stamped(buffer)
     IN  IF EnqueueFails(rel[r], d, res)
         THEN Unlink(r) /\ rel' = [rel EXCEPT ![r] = Freed] /\ UNCHANGED tried
         ELSE /\ rel' = [rel EXCEPT ![r] = Enqueue(@, d, res)]
              /\ tried' = [tried EXCEPT ![r] = Append(@, d)]
              /\ UNCHANGED listVars
  /\ todo' = Tail(todo)
  /\ UNCHANGED <<pc, rfds, wfds, buffer, seq, sigterm, armed, accepted, delivered, inbound, relayed>>

(* Mutant of EndInbound: the number is not reduced to its width.           *)
EndInboundWide ==
  /\ pc = "inbound" /\ todo = <<>>
  /\ seq' = seq + 1
  /\ buffer' = NoDatagram
  /\ IF relays = <<>>
     THEN pc' = "crashed" /\ UNCHANGED <<relays, todo>>
     ELSE /\ pc' = "relayed"
          /\ relays' = Append(Tail(relays), Head(relays))
          /\ todo' = relays'
  /\ UNCHANGED <<rfds, wfds, relaysNum, rel, sigterm, armed, accepted, tried, delivered, inbound, relayed>>

(* The end of the loop: the number advances and the list begins with its   *)
(* second member next time.  Without a member the code dereferences NULL.  *)
EndInbound ==
  /\ pc = "inbound" /\ todo = <<>>
  /\ seq' = (seq + 1) % SeqLimit
  /\ buffer' = NoDatagram
  /\ IF relays = <<>>
     THEN pc' = "crashed" /\ UNCHANGED <<relays, todo>>
     ELSE /\ pc' = "relayed"
          /\ relays' = Append(Tail(relays), Head(relays))
          /\ todo' = relays'
  /\ UNCHANGED <<rfds, wfds, relaysNum, rel, sigterm, armed, accepted, tried, delivered, inbound, relayed>>

-----------------------------------------------------------------------------
(* udprelay_dispatch_relayed(), for every relay that received something    *)

Payload(d) == [d EXCEPT !.len = @ - HeaderLen]

(* Mutant of IsNew: the filter is not asked.                               *)
IsNewAlways(d) == d # NoDatagram /\ d.len >= HeaderLen

(* The relay received something with a header whose number is none of the  *)
(* last accepted ones.                                                     *)
IsNew(d) == /\ d # NoDatagram
            /\ d.len >= HeaderLen
            /\ d.seq \notin Filter!Recent

(* Mutant of SkipRelayed: what is not forwarded stays with the relay.      *)
SkipRelayedKept ==
  /\ pc = "relayed" /\ todo # <<>>
  /\ ~IsNew(rel[Head(todo)].recv)
  /\ todo' = Tail(todo)
  /\ UNCHANGED <<pc, rfds, wfds, buffer, rel, sigterm, armed, inbound, relayed>>
  /\ UNCHANGED listVars /\ UNCHANGED dataVars

(* Nothing, a runt or a known number: relay_receive() empties the relay.   *)
SkipRelayed ==
  /\ pc = "relayed" /\ todo # <<>>
  /\ ~IsNew(rel[Head(todo)].recv)
  /\ rel' = [rel EXCEPT ![Head(todo)] = AfterReceive(@)]
  /\ todo' = Tail(todo)
  /\ UNCHANGED <<pc, rfds, wfds, buffer, sigterm, armed, inbound, relayed>>
  /\ UNCHANGED listVars /\ UNCHANGED dataVars

(* The number is marked as seen, then the payload goes to the outward      *)
(* interface; when that fails it is the relay that is disabled.            *)
ForwardRelayed(res) ==
  /\ pc = "relayed" /\ todo # <<>>
  /\ LET r == Head(todo)
         d == rel[r].recv
     IN /\ IsNew(d)
        /\ accepted' = Append(accepted, d.seq)
        /\ IF EnqueueFails(rel[Out], Payload(d), res)
           THEN Unlink(r) /\ rel' = [rel EXCEPT ![r] = Freed]
           ELSE /\ rel' = [rel EXCEPT ![r] = AfterReceive(@),
                                      ![Out] = Enqueue(@, Payload(d), res)]
                /\ UNCHANGED listVars
        /\ delivered' = IF Offers(rel[Out]) /\ res = "sent"
                        THEN Append(delivered, Payload(d)) ELSE delivered
  /\ todo' = Tail(todo)
  /\ UNCHANGED <<pc, rfds, wfds, buffer, seq, sigterm, armed, tried, inbound, relayed>>

EndRelayed == /\ pc = "relayed" /\ todo = <<>>
              /\ pc' = "select"
              /\ rfds' = {} /\ wfds' = {}
              /\ UNCHANGED <<todo, buffer, rel, sigterm, armed, inbound, relayed>>
              /\ UNCHANGED listVars /\ UNCHANGED dataVars

(* udprelay_cleanup(): relays are deleted and freed one by one, then the   *)
(* outward interface.                                                      *)
Terminate == /\ pc = "terminate"
             /\ pc' = "done"
             /\ relays' = <<>>
             /\ rel' = [f \in Fds |-> IF f \in ToSet(relays) \cup {Out} THEN Freed ELSE rel[f]]
             /\ UNCHANGED <<rfds, wfds, todo, relaysNum, buffer, sigterm, armed, inbound, relayed>>
             /\ UNCHANGED dataVars

-----------------------------------------------------------------------------

Polling == \/ \E R, W \in SUBSET Fds : Select(R, W)
           \/ SelectError

Handling == \/ \E read \in Answers(NextInbound), wres \in SendResults : HandleOutward(read, wres)
            \/ \E read \in Answers(NextRelayed), wres \in SendResults : HandleRelay(read, wres)
            \/ ReceiveInbound
            \/ \E res \in SendResults : CopyToRelay(res)
            \/ EndInbound
            \/ SkipRelayed
            \/ \E res \in SendResults : ForwardRelayed(res)
            \/ EndRelayed
            \/ Terminate

Next == Polling \/ Handling \/ \E s \in Signals : Signal(s)

Spec == Init /\ [][Next]_vars

(* The thread never stops in the middle of an iteration; how long select() *)
(* blocks is up to the network.                                            *)
FairSpec == Spec /\ WF_vars(Handling)

(* Some socket becomes ready again and again.                              *)
BusySpec == FairSpec /\ WF_vars(Polling)

(* A socket that select() is asked about again and again is writable at    *)
(* some time, and the kernel takes what is then offered to it, or rejects  *)
(* it for good.                                                            *)
Writable(f) == \E R, W \in SUBSET Fds : f \in W /\ Select(R, W)

FlushOut == \E read \in Answers(NextInbound), wres \in {"sent", "drop"} :
               Out \in wfds /\ HandleOutward(read, wres)

Flush(f) == \E read \in Answers(NextRelayed), wres \in {"sent", "drop"} :
               f \in wfds /\ todo # <<>> /\ Head(todo) = f /\ HandleRelay(read, wres)

WritableSpec ==
  /\ BusySpec
  /\ SF_vars(Writable(Out)) /\ SF_vars(FlushOut)
  /\ \A f \in Relays : SF_vars(Writable(f)) /\ SF_vars(Flush(f))

-----------------------------------------------------------------------------

InboundDatagram == [id : 1 .. MaxInbound, seq : {NoSeq}, len : InboundLens]
Copy == [id : 1 .. MaxInbound, seq : 0 .. SeqLimit - 1,
         len : {n + HeaderLen : n \in InboundLens}]
WithHeader == {d \in RelayedInputs : d.len >= HeaderLen}
Forwarded  == {Payload(d) : d \in WithHeader}

ASSUME FreedAssumption ==
  Freed \notin RelayType({Peer, App, NoAddr}, Datagram, Datagram)

TypeOK ==
  /\ pc \in {"select", "outward", "relays", "inbound", "relayed", "terminate",
             "done", "crashed", "killed"}
  /\ rfds \subseteq Fds /\ wfds \subseteq Fds
  /\ todo \in Seq(Relays) /\ relays \in Seq(Relays)
  /\ relaysNum \in 0 .. Len(Config)
  /\ DOMAIN rel = Fds
  /\ rel[Out] \in RelayType({App, NoAddr}, InboundDatagram, Forwarded) \cup {Freed}
  /\ \A r \in Relays : rel[r] \in RelayType({Peer}, RelayedInputs, Copy) \cup {Freed}
  /\ buffer \in InboundDatagram \cup {NoDatagram}
  /\ seq \in 0 .. SeqLimit - 1
  /\ sigterm \in BOOLEAN /\ armed \subseteq Signals
  /\ accepted \in Seq(0 .. SeqLimit - 1)
  /\ tried \in [Relays -> Seq(Copy)]
  /\ delivered \in Seq(Forwarded)
  /\ inbound \in 0 .. MaxInbound /\ relayed \in 0 .. MaxRelayed

(* Where the configuration file has a relay.                               *)
Place(r) == CHOOSE i \in DOMAIN Config : Config[i] = r

(* The circular list always holds exactly the relays that were not freed,  *)
(* each once, in the order of the configuration file from one of its       *)
(* places k on, and before that from its beginning, and the separate       *)
(* counter agrees with it, whichever relays were disabled while which loop *)
(* was running.                                                            *)
RingOfSurvivors ==
  pc # "done" =>
    /\ relaysNum = Len(relays)
    /\ ToSet(relays) = Live \ {Out}
    /\ \E k \in 0 .. Len(relays) : \A i, j \in DOMAIN relays :
         i < j => IF i <= k /\ k < j THEN Place(relays[j]) < Place(relays[i])
                                    ELSE Place(relays[i]) < Place(relays[j])

(* No loop ever arrives at a relay that was freed, in this loop or before, *)
(* and none visits a relay twice.                                          *)
CursorOnLiveRelays == pc \in {"relays", "inbound", "relayed"} =>
                         IsInjective(todo) /\ ToSet(todo) \subseteq Live

(* When the daemon waits, every datagram it has read has been dispatched:  *)
(* nothing is left behind in a receive buffer, which would also stop the   *)
(* daemon from ever reading that socket again.                             *)
NothingLeftBehind == pc = "select" =>
  buffer = NoDatagram /\ \A f \in Live : rel[f].recv = NoDatagram

(* Every relay still in use was offered every datagram that came in from   *)
(* the outward interface, once, in order, under consecutive numbers; the   *)
(* others were up to the point where they were disabled.  Different        *)
(* relays thus give the same number to the same datagram.                  *)
Numbered(n) == [i \in 1 .. n |-> <<i, (i - 1) % SeqLimit>>]
EveryRelayServed ==
  \A r \in Relays :
    LET copies == [i \in DOMAIN tried[r] |-> <<tried[r][i].id, tried[r][i].seq>>]
    IN  /\ copies = Numbered(Len(copies))
        /\ pc = "select" /\ r \in Live => Len(copies) = inbound

(* What the outward interface has sent or still holds.                     *)
Outgoing == delivered \o (IF rel[Out] = Freed THEN <<>> ELSE Pending(rel[Out]))

CountOf(x, s) == Cardinality({i \in DOMAIN s : s[i] = x})

(* Copies of a datagram that arrive through several relays leave the       *)
(* outward interface at most as often as its number was accepted, and the  *)
(* same number is accepted again only after Track others.                  *)
DuplicatesFiltered ==
  /\ \A d \in WithHeader :
        CountOf(Payload(d), Outgoing) <= CountOf(d.seq, accepted)
  /\ \A i, j \in DOMAIN accepted :
        i < j /\ accepted[i] = accepted[j] => j - i > Track

(* The loop does what Dispatcher promises: while datagrams come in and     *)
(* copies arrive, relays fail in any of the loops and a signal ends the    *)
(* daemon, each step is one step of the abstract daemon or none.           *)
LastCopy(r) == IF tried[r] = <<>> THEN [id |-> 0, seq |-> 0]
               ELSE [id |-> Last(tried[r]).id, seq |-> Last(tried[r]).seq]

Abstract == INSTANCE Dispatcher WITH
  Ids <- 1 .. MaxInbound,
  daemon <- [up       |-> Live \ {Out},
             seq      |-> seq,
             current  |-> IF buffer = NoDatagram THEN 0 ELSE buffer.id,
             handed   |-> [r \in Relays |-> LastCopy(r)],
             accepted |-> accepted]

ImplementsDispatcher == Abstract!Spec

(* The list begins somewhere when the round-robin step looks for the       *)
(* member after the first (udprelayd.c:175).                               *)
NoNullDereference == pc # "crashed"

(* A signal ends the daemon (the comment "signal or error" where main()    *)
(* leaves its loop): once caught, the process comes to its end.            *)
SignalTerminates == sigterm ~> Stopped

(* What the kernel refused at first is sent in the end, on every interface *)
(* that stays in use, as long as the sockets become writable again and     *)
(* again: the loop never stops asking for it.                              *)
BacklogDrains ==
  \A f \in Fds : (rel[f] # Freed /\ Queued(rel[f]))
                   ~> (Stopped \/ rel[f] = Freed \/ ~Queued(rel[f]))
=============================================================================
