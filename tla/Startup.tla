------------------------------- MODULE Startup -------------------------------
(***************************************************************************)
(* udprelay_init(): the configuration file is parsed, then new_relay()     *)
(* opens the outward interface and one relay after the other.  What the    *)
(* resolver and the kernel answer is chosen nondeterministically; a        *)
(* failure anywhere gives up everything and ends the program.              *)
(*                                                                         *)
(* Of an address only its family is kept.  The lists getaddrinfo() returns *)
(* are counted until freeaddrinfo() releases them.                         *)
(***************************************************************************)
EXTENDS Config, FiniteSets, FiniteSetsExt

CONSTANTS Lines,     \* lines of the configuration file
          MaxLines,  \* bound: lines read
          Portless,  \* words that name a host but no port
          Families,  \* address families
          MaxAddrs,  \* bound: addresses the resolver returns
          NoFd,      \* fd == -1
          Inherited  \* the sets of descriptors below 3 the program may be started with

ASSUME LinesAssumption  == \A line \in Lines : line \in Seq(ToSet(line)) /\ NoAddr \notin ToSet(line)
ASSUME BoundsAssumption == MaxLines \in Nat /\ MaxAddrs \in Nat \ {0}
ASSUME NoneAssumption   == NoFd \notin Nat /\ NoAddr \notin Families
ASSUME InheritedAssumption == Inherited \subseteq SUBSET (0 .. 2)

VARIABLES pc,     \* what udprelay_init() does next
          lines,  \* history: the lines read so far
          conf,   \* the configuration
          made,   \* the interfaces opened so far, the outward one first
          addrs,  \* what new_relay() has not tried yet of res_local
          fd,     \* the socket new_relay() has in hand
          family, \* and its address family
          open,   \* open sockets
          taken,  \* descriptors of something else than these sockets
          lists   \* results of getaddrinfo() not released

vars == <<pc, lines, conf, made, addrs, fd, family, open, taken, lists>>

(* The interfaces to open, and the one it is the turn of.                  *)
Interfaces == <<[local |-> conf.local, remote |-> conf.remote]>> \o conf.relays
Current    == Interfaces[Len(made) + 1]

Init == /\ pc = "parse"
        /\ lines = <<>> /\ conf = EmptyConfig
        /\ made = <<>> /\ addrs = <<>>
        /\ fd = NoFd /\ family = NoAddr
        /\ open = {} /\ lists = 0
        /\ taken \in Inherited

-----------------------------------------------------------------------------
(* parse_config()                                                          *)

ReadLine(line) == /\ pc = "parse"
                  /\ Len(lines) < MaxLines
                  /\ lines' = Append(lines, line)
                  /\ conf' = AfterLine(conf, line)
                  /\ UNCHANGED <<pc, made, addrs, fd, family, open, taken, lists>>

(* The end of the file, or a file that cannot be opened and says nothing.  *)
EndOfFile == /\ pc = "parse"
             /\ pc' = IF Accepted(conf) THEN "port" ELSE "failed"
             /\ UNCHANGED <<lines, conf, made, addrs, fd, family, open, taken, lists>>

-----------------------------------------------------------------------------
(* new_relay()                                                             *)

(* Mutant of GiveUp: the interfaces opened before stay open.               *)
GiveUpAlone == /\ pc' = "failed"
               /\ made' = <<>> /\ fd' = NoFd
               /\ open' = open \ {fd}
               /\ UNCHANGED <<lines, conf, addrs, family, taken>>

(* new_relay() closes its own socket and returns NULL; udprelay_init()     *)
(* frees the interfaces made before.                                       *)
GiveUp == /\ pc' = "failed"
          /\ made' = <<>> /\ fd' = NoFd
          /\ open' = open \ ({fd} \cup {m.fd : m \in ToSet(made)})
          /\ UNCHANGED <<lines, conf, addrs, family, taken>>

(* A remote address needs a port.                                          *)
CheckPort == /\ pc = "port"
             /\ IF Current.remote \in Portless
                THEN GiveUp
                ELSE pc' = "resolve" /\ UNCHANGED <<lines, conf, made, addrs, fd, family, open, taken>>
             /\ UNCHANGED lists

(* The local address is resolved, or the remote one without a local one.   *)
Resolve == /\ pc = "resolve"
           /\ \E found \in BoundedSeq(Families, MaxAddrs) \ {<<>>} : addrs' = found
           /\ lists' = lists + 1
           /\ pc' = "socket"
           /\ UNCHANGED <<lines, conf, made, fd, family, open, taken>>

ResolveError == pc = "resolve" /\ GiveUp /\ UNCHANGED lists

(* The next address is of no use: socket() or bind() fails, in the latter  *)
(* case the socket is closed again.                                        *)
SkipAddress == /\ pc = "socket" /\ addrs # <<>>
               /\ addrs' = Tail(addrs)
               /\ UNCHANGED <<pc, lines, conf, made, fd, family, open, taken, lists>>

(* setsockopt() is only called before bind(); its failure gives up without *)
(* releasing res_local.                                                    *)
SetOptionError == /\ pc = "socket" /\ addrs # <<>>
                  /\ Current.local # NoAddr
                  /\ GiveUp
                  /\ UNCHANGED lists

(* The kernel gives out the lowest descriptor that is free.                *)
FreeFd == Min((0 .. Cardinality(open \cup taken)) \ (open \cup taken))

(* The first address with a socket, bound to it if it is a local one.      *)
TakeAddress == /\ pc = "socket" /\ addrs # <<>>
               /\ fd' = FreeFd
               /\ open' = open \cup {fd'}
               /\ family' = Head(addrs)
               /\ lists' = lists - 1
               /\ pc' = "remote"
               /\ addrs' = <<>>
               /\ UNCHANGED <<lines, conf, made, taken>>

NoAddressLeft == /\ pc = "socket" /\ addrs = <<>>
                 /\ lists' = lists - 1
                 /\ GiveUp

(* With both addresses given the remote one is looked up in the family of  *)
(* the bound one.                                                          *)
RemoteError == /\ pc = "remote"
               /\ Current.local # NoAddr /\ Current.remote # NoAddr
               /\ GiveUp
               /\ UNCHANGED lists

(* The relay_t is made and becomes the outward interface or the last relay;*)
(* the first message connects to the system log, if it is there.           *)
Finish == /\ pc = "remote"
          /\ LET dynamic == Current.remote = NoAddr
             IN  made' = Append(made, [fd |-> fd, family |-> family, dynamic |-> dynamic,
                                       remote |-> IF dynamic THEN NoAddr ELSE family])
          /\ fd' = NoFd
          /\ pc' = IF Len(made') = Len(Interfaces) THEN "ready" ELSE "port"
          /\ taken' \in IF made = <<>> THEN {taken, taken \cup {FreeFd}} ELSE {taken}
          /\ UNCHANGED <<lines, conf, addrs, family, open, lists>>

Next == \/ \E line \in Lines : ReadLine(line)
        \/ EndOfFile
        \/ CheckPort
        \/ Resolve
        \/ ResolveError
        \/ SkipAddress
        \/ SetOptionError
        \/ TakeAddress
        \/ NoAddressLeft
        \/ RemoteError
        \/ Finish

Spec == Init /\ [][Next]_vars

-----------------------------------------------------------------------------

Words   == UNION {ToSet(line) : line \in Lines}
Address == Words \cup {NoAddr}
Family  == Families \cup {NoAddr}

TypeOK == /\ pc \in {"parse", "port", "resolve", "socket", "remote", "ready", "failed"}
          /\ lines \in Seq(Lines)
          /\ conf.local \in Address /\ conf.remote \in Address
          /\ conf.relays \in Seq([local : Words, remote : Words])
          /\ conf.track \in Int
          /\ made \in Seq([fd : Nat, family : Families, dynamic : BOOLEAN, remote : Family])
          /\ addrs \in Seq(Families)
          /\ fd \in Nat \cup {NoFd} /\ family \in Family
          /\ open \subseteq Nat /\ taken \subseteq Nat /\ lists \in 0 .. 1

(* The second word of the last line that starts with a given one.          *)
Given(ls, key, default) ==
  LET said(i) == LET w == Uncommented(ls[i]) IN Len(w) > 1 /\ w[1] = key
      which   == {i \in DOMAIN ls : said(i)}
  IN  IF which = {} THEN default ELSE Uncommented(ls[Max(which)])[2]

RelayLines(ls) == {i \in DOMAIN ls : LET w == Uncommented(ls[i]) IN w # <<>> /\ Head(w) = "relay"}

(* Which words of a relay line are keywords: in a row of words that are    *)
(* `local` or `remote`, every other one, from the first one on.  Those in  *)
(* between, and the word after a keyword that ends the row, are addresses. *)
KeywordAt(w, i) == \E j \in 2 .. i :
  /\ (i - j) % 2 = 0
  /\ \A k \in j .. i : w[k] \in {"local", "remote"}
  /\ j = 2 \/ w[j - 1] \notin {"local", "remote"}

(* The address such a line gives for a key: the last one counts.           *)
AddressIn(w, key) ==
  LET at == {i \in 2 .. Len(w) - 1 : w[i] = key /\ KeywordAt(w, i)}
  IN  IF at = {} THEN NoAddr ELSE w[Max(at) + 1]

Written(line) == LET w == Uncommented(line)
                 IN  [local |-> AddressIn(w, "local"), remote |-> AddressIn(w, "remote")]

Kept(ls) == {i \in RelayLines(ls) : Complete(Written(ls[i]))}

(* The configuration is what the lines say, read as a whole: of the lines  *)
(* that give one and the same setting the last one counts, the relays come *)
(* in the order of their lines, each in its place among the complete ones, *)
(* and comments and lines that make no sense leave no trace.               *)
ConfigAsWritten ==
  /\ conf.local = Given(lines, "listen", NoAddr)
  /\ conf.remote = Given(lines, "forward", NoAddr)
  /\ LET word == Given(lines, "track", NoAddr)
     IN  conf.track = IF word = NoAddr THEN DefTrack ELSE StrToL(word)
  /\ LET kept == Kept(lines)
     IN  /\ Len(conf.relays) = Cardinality(kept)
         /\ \A i \in kept :
              conf.relays[Cardinality({j \in kept : j <= i})] = Written(lines[i])

(* Every open socket belongs to one interface already made or is the one   *)
(* new_relay() has in hand, and after a failure none is open, wherever it  *)
(* happened; no descriptor is used twice; what the resolver returned is    *)
(* released by the time the next interface is made.                        *)
ResourcesAccounted ==
  /\ open = {m.fd : m \in ToSet(made)} \cup ({fd} \ {NoFd})
  /\ Cardinality(open) = Len(made) + (IF fd = NoFd THEN 0 ELSE 1)
  /\ pc = "failed" => open = {}
  /\ open \cap taken = {}
  /\ pc \notin {"socket", "failed"} => lists = 0

(* The daemon starts with an interface for the outward side and one for    *)
(* each relay, each able to send to what it was configured for: only an    *)
(* interface without a configured remote address learns it, which no relay *)
(* ever is, and a remote address is one the socket's family can reach.     *)
InterfacesAsConfigured ==
  pc = "ready" =>
    /\ Len(made) = Len(conf.relays) + 1 /\ Len(made) > 1
    /\ \A i \in DOMAIN made :
         /\ made[i].dynamic <=> Interfaces[i].remote = NoAddr
         /\ i > 1 => ~made[i].dynamic
         /\ ~made[i].dynamic => made[i].remote = made[i].family

(* README.md:31: of a relay line "At least one of local and remote         *)
(* addresses must be specified".                                           *)
RelayLinesHonoured ==
  pc = "ready" => Len(conf.relays) =
    Cardinality({i \in RelayLines(lines) : LET r == Written(lines[i])
                                           IN  r.local # NoAddr \/ r.remote # NoAddr})
=============================================================================
