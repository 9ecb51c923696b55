------------------------------ MODULE RelayOps ------------------------------
(***************************************************************************)
(* One relay_t of relay.c as a value, and what its functions do to it.     *)
(*                                                                         *)
(* A relay is one UDP socket with room for one received datagram and a     *)
(* backlog of datagrams the kernel would not take yet: the first of them   *)
(* in send_buffer, the later ones in a linked queue.  The operators below  *)
(* are pure: the kernel's answer to every system call is an argument, and  *)
(* the modules that use them choose it nondeterministically.               *)
(*                                                                         *)
(* A datagram is any record with a field `len`, the number of its bytes.   *)
(***************************************************************************)
EXTENDS Integers, Sequences

CONSTANTS NoAddr,       \* remote_sa_len == 0
          NoDatagram    \* recv_size == 0

NoBuffer == -1          \* send_buffer == NULL

(* What sendto() tells the code: accepted; EAGAIN; EMSGSIZE, EHOSTUNREACH  *)
(* or ENETUNREACH; any other error.                                        *)
SendResults == {"sent", "again", "drop", "hard"}

(* What recvfrom() tells the code: a datagram; EAGAIN, EHOSTUNREACH or     *)
(* ENETUNREACH; any other error.                                           *)
RecvResults == {"data", "skip", "hard"}

-----------------------------------------------------------------------------

(* What a relay_t can be: a peer, the received datagram, the one in         *)
(* send_buffer with the buffer's capacity, and the queue behind it.        *)
RelayType(remotes, received, sent) ==
  {r \in [remote : remotes, dynamic : BOOLEAN, recv : received \cup {NoDatagram},
          send : Seq(sent), sendBufferSize : Nat \cup {NoBuffer}, queue : Seq(sent)] :
     Len(r.send) <= 1}

(* A relay just made by new_relay(): without a configured remote address   *)
(* the peer is learnt from what it sends.                                  *)
NewRelay(remote) ==
  [remote |-> remote, dynamic |-> (remote = NoAddr), recv |-> NoDatagram,
   send |-> <<>>, sendBufferSize |-> NoBuffer, queue |-> <<>>]

(* The backlog, in the order relay_handle() works it off.  `send` holds    *)
(* the datagram in send_buffer and is empty when send_size is 0.           *)
Pending(r) == r.send \o r.queue

Queued(r) == r.queue # <<>> \/ r.send # <<>>

(* Mutant of WantsWrite: the datagram in send_buffer is forgotten.          *)
WantsWriteForQueueOnly(r) == r.queue # <<>>

(* relay_fd_set(): which events select() is asked for.                     *)
WantsWrite(r) == Queued(r)
WantsRead(r)  == r.recv = NoDatagram

-----------------------------------------------------------------------------

(* Mutant of Grow: the buffer is allocated once and never again.            *)
GrowOnce(size, len) == IF size = NoBuffer THEN len ELSE size

(* The capacity of send_buffer after room is made for `len` bytes.         *)
Grow(size, len) == CASE size = NoBuffer -> len
                     [] size # NoBuffer /\ len > size -> len + len \div 2
                     [] OTHER -> size

(* Mutants of Hold: the test for a backlog overlooks send_buffer; later     *)
(* datagrams are put behind the one in send_buffer.                        *)
HoldOverwriting(r, d) ==
  IF r.queue # <<>>
  THEN [r EXCEPT !.queue = Append(@, d)]
  ELSE [r EXCEPT !.sendBufferSize = Grow(@, d.len), !.send = <<d>>]

HoldCoalescing(r, d) ==
  [r EXCEPT !.sendBufferSize = Grow(@, d.len), !.send = Append(@, d)]

(* The tail of relay_enqueue(), reached on EAGAIN.  send_size = length, so *)
(* an empty datagram stored in send_buffer leaves it unoccupied.           *)
Hold(r, d) ==
  IF Queued(r)
  THEN [r EXCEPT !.queue = Append(@, d)]
  ELSE [r EXCEPT !.sendBufferSize = Grow(@, d.len),
                 !.send = IF d.len = 0 THEN <<>> ELSE <<d>>]

(* relay_enqueue(): a datagram without a known peer is dropped, any other  *)
(* is offered to the kernel at once, whatever the backlog.                 *)
Offers(r)         == r.remote # NoAddr
Enqueue(r, d, res) == IF Offers(r) /\ res = "again" THEN Hold(r, d) ELSE r

(* It returns -1 on an error, and on a sendto() that returns 0, which is   *)
(* what a successful send of an empty datagram returns.                    *)
SendFails(d, res)       == res = "hard" \/ (res = "sent" /\ d.len = 0)
EnqueueFails(r, d, res) == Offers(r) /\ SendFails(d, res)

-----------------------------------------------------------------------------

(* relay_handle(), the read event: `res` is recvfrom()'s answer, `d` the   *)
(* datagram and `src` its sender.  An empty datagram counts as an error.   *)
ReadFails(d, res) == res = "hard" \/ (res = "data" /\ d.len = 0)

(* Mutant of AfterRead: every sender becomes the peer.                      *)
AfterReadFollowing(r, d, src, res) ==
  IF r.recv = NoDatagram /\ res = "data" /\ d.len > 0
  THEN [r EXCEPT !.recv = d, !.remote = src] ELSE r

AfterRead(r, d, src, res) ==
  IF r.recv = NoDatagram /\ res = "data" /\ d.len > 0
  THEN [r EXCEPT !.recv = d, !.remote = IF r.dynamic THEN src ELSE @]
  ELSE r

(* relay_handle(), the write event: one datagram of the backlog is offered *)
(* to the kernel and leaves the backlog unless it answered EAGAIN.         *)
WriteFails(r, res) == Pending(r) # <<>> /\ SendFails(Head(Pending(r)), res)

Leaves(r, res) == /\ Pending(r) # <<>>
                  /\ res \in {"sent", "drop"}
                  /\ ~WriteFails(r, res)

AfterWrite(r, res) ==
  IF ~Leaves(r, res) THEN r
  ELSE IF r.send # <<>> THEN [r EXCEPT !.send = <<>>]
                        ELSE [r EXCEPT !.queue = Tail(@)]

(* relay_handle() as a whole: what recvfrom() answered on a read event and *)
(* sendto() on a write event.  A socket not reported readable, or already  *)
(* holding a datagram, is as good as one that answers EAGAIN; a failing    *)
(* read ends the call before the write.                                    *)
AfterHandle(r, d, src, rres, wres) ==
  LET n == AfterRead(r, d, src, rres)
  IN  IF ReadFails(d, rres) THEN n ELSE AfterWrite(n, wres)

HandleLeaves(r, d, rres, wres) == ~ReadFails(d, rres) /\ Leaves(r, wres)
HandleFails(r, d, rres, wres)  == ReadFails(d, rres) \/ WriteFails(r, wres)

(* relay_receive(): the received datagram is handed out once.              *)
AfterReceive(r) == [r EXCEPT !.recv = NoDatagram]
=============================================================================
