----------------------------- MODULE Dispatcher -----------------------------
(***************************************************************************)
(* What one run of the daemon promises, without sockets and loops.  Of     *)
(* every datagram of the outward interface each relay in use is handed one *)
(* copy, all copies under one number, before the number advances by one;   *)
(* of what the relays receive, a number is accepted unless it is among the *)
(* last Track accepted ones.  Relays go out of use and do not come back.   *)
(*                                                                         *)
(* The daemon is one record, and every step has a guard (May...) and a new *)
(* value (After...), so that Tunnel can connect two of them.               *)
(***************************************************************************)
EXTENDS Integers, Sequences

CONSTANTS Relays,     \* the configured relays
          Track,      \* the `track` setting
          SeqLimit,   \* 2^16 in the code
          Ids         \* datagrams, numbered from 1

VARIABLE daemon

None   == 0                        \* no datagram
NoCopy == [id |-> None, seq |-> 0]

(* A daemon after udprelay_init().                                         *)
Fresh == [up       |-> Relays,     \* relays in use
          seq      |-> 0,          \* the next number
          current  |-> None,       \* the datagram being dispatched
          handed   |-> [r \in Relays |-> NoCopy],  \* the last copy of a relay
          accepted |-> <<>>]       \* history: accepted numbers

(* Mutants of Recent: the window is one number short; nothing is forgotten.*)
RecentShort == {daemon.accepted[i] :
                  i \in {j \in DOMAIN daemon.accepted : j > Len(daemon.accepted) - Track + 1}}
RecentForever == {daemon.accepted[i] : i \in DOMAIN daemon.accepted}

(* The numbers lookup_push() remembers.                                    *)
Recent == {daemon.accepted[i] :
             i \in {j \in DOMAIN daemon.accepted : j > Len(daemon.accepted) - Track}}

(* udprelay_dispatch_inbound() is called for a datagram.                   *)
MayBegin(id)   == daemon.current = None /\ \A r \in Relays : daemon.handed[r].id < id
AfterBegin(id) == [daemon EXCEPT !.current = id]

(* Mutant of AfterHand: the number advances with every copy.               *)
AfterHandRenumbered(r) == [daemon EXCEPT !.handed[r] = [id |-> daemon.current, seq |-> daemon.seq],
                                         !.seq = (@ + 1) % SeqLimit]

(* A relay takes its copy.                                                 *)
MayHand(r)   == /\ daemon.current # None
                /\ r \in daemon.up
                /\ daemon.handed[r].id # daemon.current
AfterHand(r) == [daemon EXCEPT !.handed[r] = [id |-> daemon.current, seq |-> daemon.seq]]

(* Mutant of AfterAdvance: the number is not reduced to its width.         *)
AfterAdvanceWide == [daemon EXCEPT !.current = None, !.seq = @ + 1]

(* The call ends when no relay in use is without its copy.                 *)
MayAdvance   == /\ daemon.current # None
                /\ \A r \in daemon.up : daemon.handed[r].id = daemon.current
AfterAdvance == [daemon EXCEPT !.current = None, !.seq = (@ + 1) % SeqLimit]

(* Relays are disabled.                                                    *)
AfterLose(R) == [daemon EXCEPT !.up = @ \ R]

(* udprelay_dispatch_relayed() forwards a datagram; if the outward         *)
(* interface fails, the relay it came through is lost all the same.        *)
MayAccept(s, R)   == s \notin Recent /\ R \subseteq daemon.up
AfterAccept(s, R) == [daemon EXCEPT !.accepted = Append(@, s), !.up = @ \ R]

-----------------------------------------------------------------------------

Init == daemon = Fresh

Next == \/ \E id \in Ids : MayBegin(id) /\ daemon' = AfterBegin(id)
        \/ \E r \in Relays : MayHand(r) /\ daemon' = AfterHand(r)
        \/ MayAdvance /\ daemon' = AfterAdvance
        \/ \E R \in SUBSET Relays : daemon' = AfterLose(R)
        \/ \E s \in 0 .. SeqLimit - 1, R \in SUBSET Relays :
              MayAccept(s, R) /\ daemon' = AfterAccept(s, R)

Spec == Init /\ [][Next]_daemon
=============================================================================
