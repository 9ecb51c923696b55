# A TLA+ model of udprelayd

udprelayd tunnels UDP datagrams over several unreliable paths at once. It gives
every datagram from its *outward* interface a 16-bit sequence number and sends a
copy through every *relay*; the daemon at the other end forwards the first copy of
each number and drops the others. This directory holds TLA+ modules for the
program in `src/`, the TLC runs that check them and TLAPS proofs: every safety property TLC checks,
but for the walks through the red-black tree, is also proved for every value of the constants.
`PROJECT.json` lists runs, mutants, hazards, findings, theorems and, for every
definition, the source lines it stands for.

## The program

The program is one thread around `select()`. Nothing runs concurrently with it but
the signal handler and, for a moment after `-d`, its parent, which writes the pid file
and exits; its peers are the kernel, which may refuse a datagram
(`EAGAIN`), drop it or fail, and the network, which duplicates and delays.

| Part | Source | State | Operations |
|---|---|---|---|
| Command line, detaching | `udprelayd.c:193-242`, `utils.c:225-255` | options, parent and child, pid file, descriptors | `main` up to its loop, `xdaemon` |
| Start-up | `udprelayd.c:70-112`, `relay.c:75-208` | the interfaces opened so far, the socket in hand | `udprelay_init`, `new_relay` |
| Configuration | `config.c` | `config_t`: outward addresses, list of relays, `track` | `parse_config` |
| Relay | `relay.c:210-385` | one socket: peer, receive buffer, backlog (one buffer, then a queue) | `relay_fd_set`, `relay_enqueue`, `relay_receive`, `relay_handle`, `free_relay` |
| Main loop | `udprelayd.c:114-185, 244-316` | circular list of relays, `relays_num`, `seq`, `sigterm_evt` | the loop, both dispatch functions, the handler, the clean-up |
| Duplicate filter | `seen_lookup.c` | pool of items, free list, list in order of arrival, tree, counter | `new_lookup`, `lookup_push` |
| Circular list | `clist.h` | `_next`, `_prev`, the owner's pointer | `CLIST_ADD_*`, `CLIST_DEL`, `CLIST_FOREACH` |
| Red-black tree | `sglib.h:727-794, 1445-1889` | coloured nodes | add, delete, find, with and without condition; walks and iterators |

One iteration of the loop: `select()`; `relay_handle` on the outward interface (read
one datagram, write one held back); the same on every relay; what the outward
interface received is copied to every relay and the list is rotated; what the relays
received goes through the filter to the outward interface. An interface that fails
is, if it is a relay, unlinked and freed inside whichever loop noticed; if it is the
outward one while it is handled, the daemon ends.

What is hard here: relays deleted inside loops over the list they are in; a list, a
counter, a tree and a pool that must agree; one datagram sent many times with some of
the sends failing; a backlog in two places whose order must survive; buffers that
must be emptied or their socket is never read again; a signal that arrives anywhere;
a peer that is restarted and counts from 0 again while copies of the former run are still
on their way; a fork in the middle of start-up; and errors in every system call. `PROJECT.json` lists these hazards line
by line with the properties that cover them.

## Modules

| Module | Models | Checked by |
|---|---|---|
| `RelayOps` | a `relay_t` as a value; every function of `relay.c` as a pure operator, the kernel's answers as arguments | through `Relay` and `Udprelayd` |
| `Relay` | one relay under every sequence of calls | `relay` |
| `Dedup` | abstract filter: refuse what is among the last N accepted numbers | refined by `SeenLookup` |
| `SeenLookup` | `seen_lookup.c`: pool, lists, tree as a set of nodes, counter | `lookup` |
| `Udprelayd` | the loop of `main()` over `RelayOps` and `Dedup` | `ring`, `filter`, `live`, `null_dereference`, `late_signal` |
| `Dispatcher` | abstract daemon: copies to all relays under one number, new numbers accepted | refined by `Udprelayd`; through `Tunnel` |
| `Tunnel` | two `Dispatcher`s, a network that loses, duplicates and reorders, restarts | `tunnel` |
| `Ring` | abstract list: a sequence, a cursor and the members still to visit | refined by `CList` |
| `CList` | `clist.h`, pointer by pointer | `clist` |
| `RbTree` | add, delete and find of the generated red-black tree, and their conditional forms | `rbtree` |
| `RbWalks` | its walks, its iterators and its length | `rbtree` |
| `Config` | `parse_config`, as operators on lines of words | through `Startup` |
| `Startup` | `udprelay_init` and `new_relay` | through `Main` |
| `Main` | `main()` up to its loop: options, `Startup`, `xdaemon`, handlers | `startup`, `relay_lines` |
| `RelayProofs`, `FilterProofs`, `UdprelaydProofs`, `TunnelProofs`, `CListProofs`, `MainProofs` | theorems and proofs about the module each is named for (`FilterProofs`: `SeenLookup` and `RbTree`; `MainProofs`: `Config`, `Startup` and `Main`) | |
| `SequenceLemmas`, `RelayLemmas` | lemmas on sequences, remainders and the operators of `RelayOps`, shared by the proofs | |

The modules fit together by what one shows and another uses. `Udprelayd` keeps the
list of relays as a sequence and a loop as a cursor over the members it had at its
beginning: `CList` shows that the macros implement just that (`Ring`). It keeps the
filter as the log of accepted numbers: `SeenLookup` implements that (`Dedup`, also
proved). `SeenLookup` keeps the tree as a set of nodes under their keys: `RbTree`
shows that a search finds exactly the members (proved too). `Udprelayd` starts with a
configured peer for every relay: `InterfacesAsConfigured` of `Startup`, whose actions
are steps of `Main`. And `Udprelayd` implements `Dispatcher`, two of which make `Tunnel`:
what holds of the tunnel holds of two daemons as long as each is between a start and an
end of its loop, and a `Restart` stands for any end and a new start.

### How state and actions correspond to the code

`RelayOps`. `recv` is `recv_buffer` with `recv_size` (`NoDatagram` for 0); `send` is
the content of `send_buffer` (empty when `send_size` is 0) and `sendBufferSize` its
capacity (`NoBuffer` for NULL); `queue` is the linked queue; `remote`/`dynamic` are
`remote_sa` with `remote_sa_len` and `dynamic_out_addr`. System calls answer from
small sets: `sendto()` "sent", "again" (`EAGAIN`), "drop" (`EMSGSIZE`,
`EHOSTUNREACH`, `ENETUNREACH`) or "hard"; `recvfrom()` "data", "skip" or "hard".
That 0 from either call counts as an error is part of `SendFails` and `ReadFails`.

`Udprelayd`. `pc` says which loop `main()` is in and `todo` which members it has yet
to visit. One action is one call of a relay function or one loop header, so that
the handler (`Signal`) can run between any two. A signal interrupts `select()` when
the process is blocked in it (`pc = "select"`) and otherwise only sets the flag, which
`Select` looks at when it returns. `Unlink` is `CLIST_DEL` with the counter. In
`EndInbound` an empty list leads to `pc = "crashed"`: the code follows NULL there.
With the flags of the Makefile (`-std=c99 -D_XOPEN_SOURCE`) glibc's
`signal()` resets the handler on delivery: `armed` holds the signals whose handler is
still there, and any later signal of the same kind kills the process without clean-up
(`pc = "killed"`). A handler may have run already when `select()` is called for the first time.

`Dispatcher`. A daemon is a record: relays in use, number, datagram being dispatched, last
copy of every relay, accepted numbers. `ImplementsDispatcher` maps `Udprelayd` to it:
`ReceiveInbound` is Begin, a copy taken in `CopyToRelay` Hand, `EndInbound` Advance, every
failing relay and the clean-up Lose, `ForwardRelayed` Accept (with the loss of the relay if
the outward interface fails); everything else changes nothing a peer could see.

`Tunnel`. `net` is never emptied: a copy that stays can arrive twice, late, or never. A copy
arrives only through the relay it was handed to, if that is in use at the receiver. `Restart` can take
place between any two steps, in the middle of a dispatch too. `accepted` keeps with every
accepted copy the run (`epoch`) of the sender that made it, the run the sender
was in when it arrived (`during`), and the run of the receiver.

`SeenLookup`. A tree node is remembered under the number its item had when it was
inserted, because that decides where a search finds it. Writing the new number to an
item that is still in the tree therefore shows (mutant `RecycleRenamed`).

`CList`. Memory of a deleted member is overwritten with `Wild`, since the caller
frees it; any use of it afterwards shows. `CLIST_ADD_AFTER` is not modelled: no file
uses it. (Reading it: its argument `(token)->_next` is evaluated again after
`CLIST_ADD_BEFORE` has overwritten it, so that the new item becomes its own `_prev`.)

`RbTree`. The code only compares items. An item is modelled by its place among those
in the tree, the k-th smallest being 2k, and the larger ones move when one comes or
goes. This makes trees that differ in numbers only one state, so that TLC reaches
every shape up to 16 items. Every case of the fixes that can occur does so with 6 (a red
sibling without inner child never does); more items stack them on one path. Trees are
values; each generated pair of mirrored functions is one operator with the side as its
parameter; `assert()`s are collected in `ok`. A step is a call of `add_if_not_member` or `delete_if_member`,
which is what `lookup_push` spells out. The recursion of the C code is a recursive
function on `Trees(MaxItems)`, the trees of a height of at most 2 `MaxItems`: no
red-black tree of `MaxItems` items is outside. That a tree is red-black is a set too
(`Black[h]`: h black nodes on every path).

`RbWalks`. Walks and iterators (`Walk`, `Onward`) keep the arrays of the C code as
sequences and are compared with the recursive definitions of the three orders.

`Startup`. One action per system call outcome in `new_relay`; only the family of an
address is kept; `lists` counts results of `getaddrinfo()` not yet released. `Config`
gets lines as sequences of words, "#" being the start of a comment; a line is what one
`fgets()` returns, the rest of an overlong one being a line of its own as in the code.
Descriptors are numbers: the kernel gives out the lowest free one (`FreeFd`), which is one of
the standard ones if the program was started without it.

`Main`. `at` is where the process is that becomes the daemon, `parent` where `xdaemon()`'s
parent is, `shell` what the caller has been told. The two processes share nothing but
the pid file and interleave freely. Both can be killed: the child by a signal before its
handlers are installed (`Kill`), the parent, which installs none, at any point between
`fork()` and its `exit()` (`KillParent`). In the second case the caller gets a failure although
the daemon may run, and the pid file stays as it is then: old, empty or complete. The code does
nothing about it; `StatusTellsOutcome` says that this is the only such case.
When `at` is "loop", `Udprelayd` begins.

## Runs

| Run | Shows | Bounds |
|---|---|---|
| `relay` | backlog complete and in order, fits its buffer, for a known peer, worked off | 4 enqueues, lengths 1, 2, 4, two senders, with and without configured peer |
| `lookup` | pool, lists, tree and counter consistent; window exact; implements `Dedup` | 3 items, 5 numbers, 8 acceptances |
| `ring` | list, counter and cursor right, all survivors served alike, whoever fails where | 3 relays, 2 datagrams from outside, 1-bit numbers, one kind of signal, any number of them |
| `filter` | copies forwarded once, nothing left in a receive buffer, list right when forwarding fails, `Dispatcher` implemented | 2 relays, 3 datagrams through relays, 1 from outside, `track` 1 |
| `live` | signal ends the daemon, backlogs are worked off | 2 relays, 1 datagram each way |
| `clist` | pointers implement the abstract list; loops end | 4 items |
| `rbtree` | balance, order, membership, searches, walks, assertions | 16 items, walks of trees with up to 10 |
| `startup` | configuration as written, sockets accounted for, interfaces as configured, what exit status and pid file tell with any process killed, no socket lost by detaching | files of 3 lines out of 12, 2 addresses per name, 2 families, all options, standard input open or closed |
| `tunnel` | what is repeated or refused has a reason; a restart costs little | 4 datagrams one way, 1 the other, 2 relays, `track` 1, numbers 0 to 2, 1 restart |
| `null_dereference`, `late_signal`, `relay_lines` | findings, below | |

Why these bounds are enough to be interesting. *relay*: three datagrams fill buffer and
queue, a fourth arrives after the buffer was emptied while the queue was not; the
lengths make the buffer stay, be replaced and be replaced by one half larger.
*lookup*: 8 acceptances fill the pool and recycle every item once and more.
*ring*: with three relays the first, the middle and the last member can fail, two in one
loop or in different ones, before and after the list was rotated; two datagrams
wrap the number. *filter*: number, another number, the first number again is
the shortest sequence in which the filter forgets with `track` 1; inputs include one
with an empty payload. *tunnel*: four datagrams wrap numbers 0 to 2, so that first and
last share one; a restart after two leaves one number in a filter of size 1; the receiver
accepts three, enough to forget one and meet it again. *clist*: four members have a first, a last and two in between.
Deadlock checking is off where the daemon, a freed relay or a start-up legitimately
stops.

### Fairness

`Relay!FairSpec` assumes weak fairness of a write the kernel takes: `select()` reports
a socket it was asked about once it is writable. `Udprelayd!FairSpec` assumes that the
thread goes on inside an iteration, nothing about `select()` returning. `BusySpec` adds
that some socket becomes ready; `WritableSpec` that a socket the loop asks about
again and again is reported writable at some time and that the kernel at some time takes
what is then offered. This is strong fairness because the loop asks intermittently: the
question is withdrawn while an iteration runs. `CList!FairSpec`: the thread runs its
loops on.

### Findings

1. `null_dereference`: when every relay has been disabled the daemon goes on, and the
   next outward datagram makes `udprelayd.c:175` dereference NULL.
2. `late_signal`: `sigterm_evt` is tested only after `select()` has returned, so that a
   signal caught outside of it is without effect on an idle daemon. `live` shows that
   traffic is all it takes.
3. `relay_lines`: the README allows relay lines with one address, `config.c:84` drops them.
   No relay is ever dynamic, therefore (`InterfacesAsConfigured`).

`track 0`, or a word that is no number, is accepted as well, and the first `lookup_push` then
takes an item from an empty pool: `SizeAssumption` of `SeenLookup` is not ensured by the
parser (`config.c:105`).

## Proofs

Each theorem holds for every value of the constants that satisfies the named assumptions
of its module; TLC evaluates these on every run. None bounds a size from above: number
of relays, `track`, width of numbers, number of items, lines and words of the file,
restarts and datagrams are arbitrary. In every module the argument is an invariant,
`IInv` unless named otherwise, that Init establishes and every step keeps, one lemma per
action.

`RelayProofs` proves `TypeOK`, `BufferFits`, `PeerKnown` and, for positive lengths,
`HeldInOrder`. The first three rest on the type, that the datagram in the buffer fits
(`Fits`), that a backlog has a peer (`Addressed`), that `dynamic` and `remote` still
agree with the configuration, and that the number of held datagrams is what left plus
what is pending (`Accounted`). The last part is needed for the type of `left`: nothing
else says that no more datagrams leave than were held. `HeldInOrder` is inductive
together with it: appending to the backlog appends to the rest of `held`, and taking the
head takes its first element. Lengths must be positive because an empty datagram put
into the buffer is lost (`send_size` 0 means free). `RelayLemmas` states the same facts
of the operators of `RelayOps`, so that `UdprelaydProofs` cites them for the relays of
the loop.

`FilterProofs` proves of `SeenLookup` `TypeOK`, `PoolPartition`, `TreeIsList`, `WindowIsRecent`,
`RepeatsFarApart` and the refinement `ImplementsDedup`. `IInv` is the conjunction of the
first four: which item is recycled depends on the partition, that it can be deleted by
its number on tree and list agreeing, and that the set searched is the set of recent
numbers on the window. From the last one, a number accepted is not among the last `Size`
ones, which gives `RepeatsFarApart` and the step simulation.

`FilterProofs` also proves of `RbTree` `Balanced`, `HoldsMembers`, `SearchExact` and
`AssertionsHold`, for trees of any size. What a function does to a tree is said in two
parts. *Shape*: the sets `Black[h]` and the nodes over them are the red-black trees with
h black nodes on every path; `Raw` is what an insertion hands up, which may have a red
child under a red root. *Contents*: `Holds(t, S)` says that t is a search tree of exactly
the items S, at every node the smaller ones on its left. `BlackTree`, `RedTree` and
`AnyTree` say both, by the colour of the root. A fix is then a lemma on one node and its near
relatives: `FixInsertionWorks`, `FixBlackSiblingWorks` and `FixRedSiblingWorks` say which
shape comes out of which, that `shrunk` tells the truth about the black height, that the
items stay, and that the assertions hold. Left and right are one proof: a node is built and
taken apart as seen from a side (`At`), with the order turned round where the side is
"right". `Deepen` is a fix or none (`DeepenBlack`, `DeepenRed`), and each recursive function
follows by induction over the tree (`TreeInduction`). The invariant `TreeInv` says that the root
is a `BlackTree` of exactly the even numbers up to 2 `count`, that `count` is at most `MaxItems`,
and that every assertion held. A black height is at most the number of items (`Sized`, which
also gives the logarithmic bound), so that the tree is in the domain of the functions at the next
step. `Shift` keeps shape and order, since it is monotone on the items. `SearchExact` follows from `Holds`,
every turn of the search leaving only smaller or only larger items behind. The only
assumption is that `MaxItems` is a natural number.

`UdprelaydProofs` proves all safety properties of the loop. Its invariant adds four
things to `TypeOK` and `RingOfSurvivors`. `Cursor`: what a loop has yet to visit are
members of the list, each once. A relay that fails is the one the loop is at, so that
unlinking it leaves the rest of the cursor on members. `Buffers`: where a datagram may
be waiting, which depends on the loop and on which members it has passed. It gives
`NothingLeftBehind`, and that `relay_handle` reads only into an empty buffer. `Counted`:
`seq` is the number of dispatched datagrams modulo `SeqLimit`, and a relay in use has
been offered as many, one more if the loop has passed it. `Numbering`: each relay's
copies are numbered by their places. The last two give `EveryRelayServed`, and the
numbers in `LoopImplementsDispatcher`, which maps each action to a step of `Dispatcher`
or to none. `RingOfSurvivors` says that the list is in the order of the file from a
place k on and before it: deleting keeps such a k or lowers it, rotating moves it by
one. `DuplicatesFiltered` is inductive together with `IInv` (`Bounded`, `Apart`): a
payload is put into the backlog at most once in the step that accepts its number, and a
write moves it from the backlog to what was delivered. `IsNew` is `Dedup`'s window,
which keeps equal numbers `Track` acceptances apart. Assumed are distinct relays, none
of them the outward interface (`RelaysAssumption`), peers with addresses
(`AddrAssumption`), positive `Track` and `SeqLimit` (`TrackAssumption`), datagrams that
carry a number if they are long enough for one (`DatagramAssumption`), and markers that
are no values (`FreedAssumption`).

`CListProofs` proves `Linked`, `TokenAlive` and the refinement `ImplementsRing` for any
finite set of items. The pointers are reasoned about through a sequence: `IInv` says
that *some* sequence of the members, each once, is laid out in `next` and `prev` with
`list` as its first (`Laid`), and that a loop's token is one of its places, the current
item being none of those from there on (`Ahead`). Every macro changes this sequence:
append, prepend, remove, rotate. Without `Ahead` the body could delete the token. The
refinement needs that following the pointers from the first member returns this sequence
(`AlongAll`); the length of the walk is found as the least number of steps that leads
back to the first member.

`TunnelProofs` proves `RepeatsExplained`, `RefusalsExplained`, `RestartLossBounded` and
`TypeOK`. It assumes two daemons and positive `Track` and `SeqLimit`. Its invariant has
two halves. A sender (`Present`, `OneRun`, `Numbered`): all copies of a datagram are
from one run, and the numbers of a run's datagrams differ as their places do, up to one
wrap; copies of one datagram hence have one number, and equal numbers of one run are
`SeqLimit` datagrams apart. A receiver (`Origin`, `FilterIsEnd`): what it accepted came
from a copy of the other daemon, and the filter's log is the end of the whole log,
exactly the entries of this run. Together: a second acceptance has the number of the
first, which the filter must have forgotten. `RestartLossBounded` counts, on a second
invariant (`LossInv`): for every refused datagram there is an entry in the receiver's
log that stands in its way (`StandsInTheWay`): it has its number, is of another run or
far away, and was among the last `Track` at some time during the run. Datagrams of one
run that has not wrapped have different numbers, hence different entries (`OneForEach`);
at most `Track` of these were made before the run (`FewBefore`), the others are by
strangers. A third invariant, `BoundInv`, gives the type: what a daemon has of a
datagram is what the other one was given to send.

`MainProofs` proves every property of the run `startup`, for `MainSpec`, in which the
actions of `Startup` are steps. `IInv` of start-up is its type, how far it is at each
exit (`Progress`), the interfaces made so far (`MadeAsConfigured`) and
`ResourcesAccounted`; without the second part an exit could forget the socket in hand.
`MainInv` adds for which places of the child the parent, the caller and the pid file can
be where, a killed parent among them (`Processes`), and that the child's descriptors are
those the sockets were opened with until it has detached (`Table`). That a free descriptor always exists is the
pigeonhole principle (`FreeOne`). `ConfigAsWritten` is inductive line by line
(`GivenOneMore`, `KeptOneMore`, `InOrderOneMore`): the last `listen`, `forward` and
`track` line counts, and the relays of the file are those of its complete relay lines,
by rank. Within a relay line, regular or not, the fold over its words is compared state by
state (`Scanned`) with what is written there: in a row of words that are `local` or `remote`
every other one is a keyword (`KeywordAt`), the word after it its address, and the last
address of a kind counts (`RelayAsWritten`). Assumed are that a line is a sequence
of words and that "no address" is none of them (`LinesAssumption`), that numbers are
integers (`NumbersAssumption`), that `NoFd` and `NoAddr` are no descriptor and no family
(`NoneAssumption`), and that what is inherited is some of the standard descriptors
(`InheritedAssumption`).

Three arguments needed induction over data, which the library's theorems do not offer to
these provers: that the recursive functions under a fold, of the walk along the
pointers, and on trees exist and have the values they should. They are proved by the least
counterexample instead: a set of natural numbers that is not empty has a least member
(`Least` in `SequenceLemmas`); for trees the number is the height. For the same reason
`RingOfSurvivors` and `ConfigAsWritten` are stated with places and ranks, not with a filter
on sequences, whose definition is recursive.

Only model-checked: liveness under fairness (`Drains`, `SignalTerminates`,
`BacklogDrains`, `LoopEnds`), which is out of the prover's reach; and `TraversalsExact`,
because the operators of `RbWalks` are recursive (a walk has no height to bound it, only
a path and a tree) and TLAPS has no backend for arithmetic in a module with recursive
operators. They have a module of their own for this reason.

## What the tunnel promises

`RepeatsExplained`: a payload leaves the far end twice only after more than `track`
acceptances or a restart of the receiver. `RefusalsExplained`: a datagram that was not
accepted is refused only because another run of the sender, or a datagram at least 2^16 away,
has left its number in the filter. `RestartLossBounded`: a restarted sender loses at most
`track` datagrams to the numbers of its former run, and one more per datagram of another run
that slips in after the restart, until its own numbers wrap around. The bounds follow
from the window being exactly the last `track` accepted numbers; a window that
is refreshed by refusals or never forgets (mutants) breaks them.

What the tunnel does not promise: that a datagram arrives (there is no retransmission), that
the order is kept (`relay_enqueue` offers a new datagram before the backlog), or that an
accepted datagram leaves the outward interface: the number is marked as seen before
`relay_enqueue`, and if that fails the copies on other relays are refused.

## Not modelled

Contents of datagrams and addresses; the DEBUG header fields; failing `malloc`;
descriptors beyond `FD_SETSIZE`; session and working directory of the detached process;
string helpers; functions of `utils.c` nobody calls (`spawn_and_wait`, `pipe_open`,
`spawn_bg`, `strconcat`, `strappend`, `strdup_printf`); the parts of `sglib.h` that are not
instantiated; `CLIST_ADD_AFTER`, which no file uses.

## Plan

1. Done: `RelayOps`, `Relay`, `SeenLookup` over `Dedup`, `Udprelayd` over `Dispatcher`,
   `Tunnel`, `CList` over `Ring`, `RbTree`, `RbWalks`, `Config`, `Startup`, `Main`; proofs of
   all of them but `RbWalks`.
2. The composition as a theorem: two `Udprelayd` in place of the two `Dispatcher`s of `Tunnel`,
   and one `RbTree` in place of the set `tree` of `SeenLookup`.
3. The walks of `RbWalks` by induction on what is left of the path.
