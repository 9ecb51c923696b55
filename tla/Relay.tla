-------------------------------- MODULE Relay --------------------------------
(***************************************************************************)
(* One relay of relay.c between its creation and free_relay(), driven by   *)
(* the calls the main loop makes: relay_enqueue(), relay_handle() after a  *)
(* select(), relay_receive() and free_relay().                             *)
(*                                                                         *)
(* `held` and `left` are history: every datagram the kernel would not take *)
(* when it was enqueued, and how many of those have left the backlog.      *)
(***************************************************************************)
EXTENDS RelayOps, FiniteSets

CONSTANTS Peers,         \* addresses datagrams come from
          Lengths,       \* lengths of datagrams
          MaxEnqueues    \* bound: calls of relay_enqueue()

ASSUME PeersAssumption   == NoAddr \notin Peers
ASSUME LengthsAssumption == Lengths \subseteq Nat
ASSUME MaxAssumption     == MaxEnqueues \in Nat
ASSUME NoneAssumption    == NoDatagram \notin [id : Nat, len : Nat]

VARIABLES configured,\* the configured remote address, or NoAddr
          relay,     \* the relay_t
          status,    \* "open", "failed": relay_handle() returned -1, "freed"
          enqueued,  \* number of datagrams passed to relay_enqueue()
          held,      \* history: datagrams refused with EAGAIN, oldest first
          left       \* history: how many of `held` have left the backlog

vars == <<configured, relay, status, enqueued, held, left>>

Datagram == [id : 1 .. MaxEnqueues, len : Lengths]

(* Received datagrams do not mix with sent ones: identity 0.               *)
Received == [id : {0}, len : Lengths]

OurRelay == RelayType(Peers \cup {NoAddr}, Received, Datagram)

TypeOK ==
  /\ configured \in Peers \cup {NoAddr}
  /\ relay \in OurRelay
  /\ status \in {"open", "failed", "freed"}
  /\ enqueued \in 0 .. MaxEnqueues
  /\ held \in Seq(Datagram)
  /\ left \in 0 .. Len(held)

Init == /\ configured \in Peers \cup {NoAddr}
        /\ relay = NewRelay(configured)
        /\ status = "open"
        /\ enqueued = 0
        /\ held = <<>>
        /\ left = 0

-----------------------------------------------------------------------------

(* relay_enqueue(): a failing call leaves the relay as it was, and the     *)
(* caller may go on using it (the outward interface) or free it (a relay). *)
EnqueueCall(len, res) ==
  LET d == [id |-> enqueued + 1, len |-> len] IN
  /\ status = "open"
  /\ enqueued < MaxEnqueues
  /\ enqueued' = enqueued + 1
  /\ relay' = Enqueue(relay, d, res)
  /\ held' = IF Offers(relay) /\ res = "again" THEN Append(held, d) ELSE held
  /\ UNCHANGED <<configured, status, left>>

(* relay_handle() after a select() that reported the socket readable       *)
(* (rres # "skip"), writable (wres # "again") or both.  A failing call     *)
(* makes the caller stop using the relay.                                  *)
HandleCall(d, src, rres, wres) ==
  /\ status = "open"
  /\ rres # "skip" => WantsRead(relay)
  /\ wres # "again" => WantsWrite(relay)
  /\ relay' = AfterHandle(relay, d, src, rres, wres)
  /\ left' = left + IF HandleLeaves(relay, d, rres, wres) THEN 1 ELSE 0
  /\ status' = IF HandleFails(relay, d, rres, wres) THEN "failed" ELSE "open"
  /\ UNCHANGED <<configured, enqueued, held>>

(* relay_receive(): the main loop takes what was received.                 *)
ReceiveCall == /\ status = "open"
               /\ relay.recv # NoDatagram
               /\ relay' = AfterReceive(relay)
               /\ UNCHANGED <<configured, status, enqueued, held, left>>

(* free_relay(): the backlog goes with the relay.                          *)
FreeCall == /\ status # "freed"
            /\ status' = "freed"
            /\ relay' = [relay EXCEPT !.recv = NoDatagram, !.send = <<>>,
                                      !.sendBufferSize = NoBuffer,
                                      !.queue = <<>>]
            /\ UNCHANGED <<configured, enqueued, held, left>>

Next == \/ \E len \in Lengths, res \in SendResults : EnqueueCall(len, res)
        \/ \E d \in Received, p \in Peers, rres \in RecvResults, wres \in SendResults :
              HandleCall(d, p, rres, wres)
        \/ ReceiveCall
        \/ FreeCall

Spec == Init /\ [][Next]_vars

(* select() reports a socket it was asked about once it is writable, and   *)
(* the kernel then takes the datagram: as long as the code asks, a write   *)
(* that empties one place of the backlog eventually happens.               *)
Flush == \E d \in Received, p \in Peers, res \in {"sent", "drop"} :
            HandleCall(d, p, "skip", res)

FairSpec == Spec /\ WF_vars(Flush)

-----------------------------------------------------------------------------

(* The datagram waiting in send_buffer always fits the memory behind it,   *)
(* however lengths grow and shrink between the reuses of the buffer.       *)
BufferFits == \A i \in DOMAIN relay.send : relay.send[i].len <= relay.sendBufferSize

(* A backlog is only ever built for a known peer, so that relay_handle()   *)
(* never sends to an unset address; and a configured peer is never         *)
(* replaced by the sender of a datagram.                                   *)
PeerKnown == /\ Queued(relay) => relay.remote # NoAddr
             /\ configured # NoAddr => relay.remote = configured

(* Datagrams the kernel would not take leave in the order in which they    *)
(* were enqueued, none lost, none sent twice: buffer and queue together    *)
(* are exactly the part of `held` that has not left yet.                   *)
HeldInOrder == status # "freed" =>
                 Pending(relay) = SubSeq(held, left + 1, Len(held))

(* Every datagram that was held back leaves the backlog in the end, unless *)
(* the relay fails: the code never stops asking for writability while      *)
(* buffer or queue still hold something.                                   *)
Drains == \A n \in 1 .. MaxEnqueues :
            (Len(held) >= n) ~> (left >= n \/ status # "open")
=============================================================================
