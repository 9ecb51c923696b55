----------------------------- MODULE MainProofs ------------------------------
(***************************************************************************)
(* What holds while the program starts, for any configuration file and     *)
(* any answers of the resolver and the kernel: no socket is lost track of, *)
(* the interfaces are the configured ones, and the exit status can be      *)
(* trusted.                                                                *)
(***************************************************************************)
EXTENDS Main, SequenceLemmas, TLAPS

-----------------------------------------------------------------------------
(* The configuration.                                                      *)

Scan(S) == [local : S \cup {NoAddr}, remote : S \cup {NoAddr},
            expects : RelayArguments \cup {"keyword"}]

(* One word of a relay line keeps the scan's type.                         *)
LEMMA TakeWordType ==
  ASSUME NEW S, NEW r \in Scan(S), NEW word \in S
  PROVE  TakeWord(r, word) \in Scan(S)
BY DEF TakeWord, Scan, RelayArguments

(* A relay line is read from left to right.                                *)
Read(f, args, s) == IF s = {} THEN NoRelay ELSE TakeWord(f[s \ {Max(s)}], args[Max(s)])

(* There is such a function, for any number of words: were there a least   *)
(* number without one, the function for one word fewer would give it.      *)
LEMMA ReaderExists ==
  ASSUME NEW args, NEW n \in Nat
  PROVE  \E f : f = [s \in SUBSET (1 .. n) |-> Read(f, args, s)]
<1> DEFINE Def(k, f) == f = [s \in SUBSET (1 .. k) |-> Read(f, args, s)]
           T == {k \in Nat : ~ \E f : Def(k, f)}
<1> SUFFICES T = {}
  OBVIOUS
<1>1. SUFFICES ASSUME T # {}
               PROVE  FALSE
  OBVIOUS
<1>2. PICK k \in T : \A j \in T : k <= j
  BY <1>1, Least
<1>3. k # 0
  <2> DEFINE f == [s \in SUBSET (1 .. 0) |-> NoRelay]
  <2>1. \A s \in SUBSET (1 .. 0) : s = {}
    OBVIOUS
  <2>2. Def(0, f)
    BY <2>1 DEF Read
  <2> HIDE DEF f
  <2> QED BY <2>2
<1>4. k - 1 \in Nat /\ k \in Nat /\ ~ (k <= k - 1)
  BY <1>3
<1>5. PICK g : Def(k - 1, g)
  BY <1>2, <1>4
<1> DEFINE m == k - 1
           f == [s \in SUBSET (1 .. k) |->
                   IF s \in SUBSET (1 .. m) THEN g[s] ELSE TakeWord(g[s \ {Max(s)}], args[Max(s)])]
<1>6. ASSUME NEW s \in SUBSET (1 .. k), s \notin SUBSET (1 .. m)
      PROVE  Max(s) = k /\ s \ {Max(s)} \in SUBSET (1 .. m)
  <2>1. k \in s /\ \A j \in s : k >= j
    BY <1>4, <1>6
  <2>2. \A x \in s : (\A y \in s : x >= y) => x = k
    BY <1>4, <2>1
  <2>3. Max(s) = k
    BY <2>1, <2>2 DEF Max
  <2> QED BY <1>4, <2>3
<1>7. ASSUME NEW s \in SUBSET (1 .. k)
      PROVE  s \ {Max(s)} \in SUBSET (1 .. k)
  OBVIOUS
<1>8. ASSUME NEW s \in SUBSET (1 .. k)
      PROVE  f[s] = Read(f, args, s)
  <2>1. CASE s \in SUBSET (1 .. m)
    <3>1. s \ {Max(s)} \in SUBSET (1 .. m)
      BY <2>1
    <3>2. f[s] = g[s] /\ f[s \ {Max(s)}] = g[s \ {Max(s)}]
      BY <1>7, <2>1, <3>1
    <3>3. g[s] = Read(g, args, s)
      BY <1>5, <2>1
    <3> HIDE DEF f
    <3> QED BY <3>2, <3>3 DEF Read
  <2>2. CASE s \notin SUBSET (1 .. m)
    <3>1. s \ {Max(s)} \in SUBSET (1 .. m) /\ s # {}
      BY <1>6, <2>2
    <3>2. f[s] = TakeWord(g[s \ {Max(s)}], args[Max(s)])
      BY <2>2
    <3>3. f[s \ {Max(s)}] = g[s \ {Max(s)}]
      BY <1>7, <3>1
    <3> HIDE DEF f
    <3> QED BY <3>1, <3>2, <3>3 DEF Read
  <2> QED BY <2>1, <2>2
<1>9. Def(k, f)
  <2> DEFINE h == [s \in SUBSET (1 .. k) |-> Read(f, args, s)]
  <2>1. f = h
    <3>1. \A s \in SUBSET (1 .. k) : f[s] = h[s]
      BY <1>8
    <3> QED BY <3>1
  <2> QED BY <2>1
<1> HIDE DEF f
<1> QED BY <1>2, <1>9

(* Taking the greatest position away shortens an interval by one.          *)
LEMMA TopOfInterval ==
  ASSUME NEW k \in Nat \ {0}
  PROVE  Max(1 .. k) = k /\ (1 .. k) \ {Max(1 .. k)} = 1 .. k - 1 /\ 1 .. k # {}
<1>1. k \in 1 .. k /\ \A j \in 1 .. k : k >= j
  OBVIOUS
<1>2. \A x \in 1 .. k : (\A y \in 1 .. k : x >= y) => x = k
  OBVIOUS
<1>3. Max(1 .. k) = k
  BY <1>1, <1>2 DEF Max
<1> QED BY <1>1, <1>3

(* The states of the scan after each word, the last of which is the fold.  *)
LEMMA Scanned ==
  ASSUME NEW S, NEW args \in Seq(S)
  PROVE  \E g : /\ g[0] = NoRelay
                /\ \A k \in 1 .. Len(args) : g[k] = TakeWord(g[k - 1], args[k])
                /\ \A k \in 0 .. Len(args) : g[k] \in Scan(S)
                /\ FoldLeft(TakeWord, NoRelay, args) = g[Len(args)]
<1> DEFINE n == Len(args)
           iter[s \in SUBSET DOMAIN args] ==
             IF s = {} THEN NoRelay ELSE TakeWord(iter[s \ {Max(s)}], args[Max(s)])
           g == [k \in 0 .. n |-> iter[1 .. k]]
<1>1. n \in Nat /\ DOMAIN args = 1 .. n
  BY LenProperties
<1>2. FoldLeft(TakeWord, NoRelay, args) = iter[DOMAIN args]
  BY DEF FoldLeft, MapThenFoldSet
<1>3. iter = [s \in SUBSET DOMAIN args |-> Read(iter, args, s)]
  <2>1. iter = CHOOSE f : f = [s \in SUBSET DOMAIN args |->
                 IF s = {} THEN NoRelay ELSE TakeWord(f[s \ {Max(s)}], args[Max(s)])]
    OBVIOUS
  <2>2. \E f : f = [s \in SUBSET DOMAIN args |->
                 IF s = {} THEN NoRelay ELSE TakeWord(f[s \ {Max(s)}], args[Max(s)])]
    <3>1. PICK f : f = [s \in SUBSET (1 .. n) |-> Read(f, args, s)]
      BY <1>1, ReaderExists
    <3>2. f = [s \in SUBSET DOMAIN args |-> Read(f, args, s)]
      BY <1>1, <3>1
    <3> QED BY <3>2 DEF Read
  <2> HIDE DEF iter
  <2> QED BY <2>1, <2>2 DEF Read
<1> HIDE DEF iter, n
<1>4. \A k \in 0 .. n : 1 .. k \in SUBSET DOMAIN args /\ g[k] = iter[1 .. k]
  BY <1>1
<1>5. g[0] = NoRelay
  <2>1. 0 \in 0 .. n /\ 1 .. 0 = {}
    BY <1>1
  <2> QED BY <1>3, <1>4, <2>1 DEF Read
<1>6. ASSUME NEW k \in 1 .. n
      PROVE  g[k] = TakeWord(g[k - 1], args[k])
  <2>1. k \in Nat \ {0} /\ k \in 0 .. n /\ k - 1 \in 0 .. n
    BY <1>1
  <2>2. iter[1 .. k] = TakeWord(iter[1 .. k - 1], args[k])
    BY <1>3, <1>4, <2>1, TopOfInterval DEF Read
  <2> QED BY <1>4, <2>1, <2>2
<1>7. ASSUME NEW k \in 0 .. n
      PROVE  g[k] \in Scan(S)
  <2> DEFINE T == {j \in 0 .. n : g[j] \notin Scan(S)}
  <2> SUFFICES ASSUME T # {}
               PROVE  FALSE
    OBVIOUS
  <2>1. T \subseteq Nat
    OBVIOUS
  <2>2. PICK j \in T : \A i \in T : j <= i
    BY <2>1, Least
  <2> HIDE DEF g
  <2>3. j # 0
    BY <1>5 DEF NoRelay, Scan
  <2>4. j \in 1 .. n /\ j - 1 \in 0 .. n /\ ~ (j <= j - 1)
    BY <1>1, <2>3
  <2>5. g[j - 1] \in Scan(S)
    BY <2>2, <2>4
  <2>6. args[j] \in S
    BY <2>4, ElementOfSeq DEF n
  <2> QED BY <1>6, <2>4, <2>5, <2>6, TakeWordType
<1>8. FoldLeft(TakeWord, NoRelay, args) = g[n]
  BY <1>1, <1>2, <1>4
<1> HIDE DEF g
<1> QED BY <1>5, <1>6, <1>7, <1>8 DEF n

(* A relay line gives two addresses, each a word of the line or none.      *)
LEMMA RelayOfType ==
  ASSUME NEW S, NEW args \in Seq(S)
  PROVE  RelayOf(args) \in [local : S \cup {NoAddr}, remote : S \cup {NoAddr}]
<1>1. PICK g : /\ \A k \in 0 .. Len(args) : g[k] \in Scan(S)
               /\ FoldLeft(TakeWord, NoRelay, args) = g[Len(args)]
  BY Scanned
<1>2. FoldLeft(TakeWord, NoRelay, args) \in Scan(S)
  BY <1>1, LenProperties
<1> QED BY <1>2 DEF RelayOf, Scan

(* The least position of a comment sign, if there is one.                  *)
LEMMA LeastOf ==
  ASSUME NEW T, T \subseteq Nat, T # {}
  PROVE  Min(T) \in T /\ \A y \in T : Min(T) <= y
BY Least DEF Min

(* What is left of a line is a sequence of words.                          *)
LEMMA UncommentedType ==
  ASSUME NEW line \in Lines
  PROVE  Uncommented(line) \in Seq(Words)
<1> DEFINE T == {i \in 1 .. Len(line) : line[i] = "#"}
           k == SelectInSeq(line, LAMBDA w : w = "#")
<1>1. line \in Seq(Words) /\ Len(line) \in Nat
  <2>1. line \in Seq(ToSet(line)) /\ ToSet(line) \subseteq Words
    BY LinesAssumption DEF Words
  <2> QED BY <2>1, SeqMonotonic, LenProperties
<1>2. k = IF T # {} THEN Min(T) ELSE 0
  BY DEF SelectInSeq
<1>3. k = 0 \/ k \in 1 .. Len(line)
  <2>1. T \subseteq 1 .. Len(line) /\ T \subseteq Nat
    OBVIOUS
  <2>2. T # {} => Min(T) \in T
    BY <2>1, LeastOf
  <2> HIDE DEF T, k
  <2> QED BY <1>2, <2>1, <2>2
<1> HIDE DEF k
<1>4. k \in 1 .. Len(line) => SubSeq(line, 1, k - 1) \in Seq(Words)
  <2> SUFFICES ASSUME k \in 1 .. Len(line)
               PROVE  SubSeq(line, 1, k - 1) \in Seq(Words)
    OBVIOUS
  <2>1. 1 \in Int /\ k - 1 \in Int /\ 1 .. k - 1 \subseteq 1 .. Len(line)
    BY <1>1
  <2>2. \A i \in 1 .. k - 1 : line[i] \in Words
    BY <1>1, <2>1, ElementOfSeq
  <2> QED BY <2>1, <2>2, SubSeqProperties, <1>1
<1> QED BY <1>1, <1>3, <1>4 DEF Uncommented, k

(* What the parser can make of the lines: a relay has both addresses.      *)
Relays  == [local : Words \ {NoAddr}, remote : Words \ {NoAddr}]
Configs == [local : Address, remote : Address, relays : Seq(Relays), track : Int]

IsRelayLine(w) == w # <<>> /\ Head(w) = "relay"

(* A line gives the setting its first word names and no other.             *)
LEMMA AfterLineFields ==
  ASSUME NEW c \in Configs, NEW line \in Lines, NEW w, w = Uncommented(line)
  PROVE  /\ AfterLine(c, line) \in Configs
         /\ AfterLine(c, line).local = IF Len(w) > 1 /\ w[1] = "listen" THEN w[2] ELSE c.local
         /\ AfterLine(c, line).remote = IF Len(w) > 1 /\ w[1] = "forward" THEN w[2] ELSE c.remote
         /\ AfterLine(c, line).track = IF Len(w) > 1 /\ w[1] = "track" THEN StrToL(w[2]) ELSE c.track
         /\ AfterLine(c, line).relays =
              IF IsRelayLine(w) /\ Complete(RelayOf(Tail(w)))
              THEN Append(c.relays, RelayOf(Tail(w))) ELSE c.relays
<1> DEFINE d == AfterLine(c, line)
           relay == RelayOf(Tail(w))
<1>1. w \in Seq(Words) /\ Len(w) \in Nat
  BY UncommentedType, LenProperties
<1>2. w # <<>> => Head(w) = w[1] /\ Tail(w) \in Seq(Words)
  BY <1>1, HeadTailProperties
<1>3. Len(w) > 1 => w # <<>> /\ w[2] \in Words
  BY <1>1, EmptySeq, ElementOfSeq
<1>4. w # <<>> => relay \in [local : Words \cup {NoAddr}, remote : Words \cup {NoAddr}]
  BY <1>2, RelayOfType
<1>5. w # <<>> /\ Complete(relay) => relay \in Relays
  BY <1>4 DEF Relays, Complete
<1>6. Len(w) > 1 => StrToL(w[2]) \in Int
  BY NumbersAssumption DEF StrToL
<1> HIDE DEF relay
<1>a. d = CASE w = <<>> -> c
            [] w # <<>> /\ Head(w) \notin Lexemes \ RelayArguments -> c
            [] w # <<>> /\ Head(w) = "relay" ->
                 IF Complete(relay) THEN [c EXCEPT !.relays = Append(@, relay)] ELSE c
            [] Len(w) > 1 /\ Head(w) = "listen"  -> [c EXCEPT !.local = w[2]]
            [] Len(w) > 1 /\ Head(w) = "forward" -> [c EXCEPT !.remote = w[2]]
            [] Len(w) > 1 /\ Head(w) = "track"   -> [c EXCEPT !.track = StrToL(w[2])]
            [] OTHER -> c
  BY DEF AfterLine, relay
<1> HIDE DEF d
<1>b. CASE w = <<>>
  <2>1. d = c
    BY <1>a, <1>b
  <2> QED BY <1>b, <1>3, <2>1 DEF d, IsRelayLine
<1>c. CASE w # <<>> /\ Head(w) \notin Lexemes \ RelayArguments
  <2>1. d = c
    BY <1>a, <1>c, <1>2 DEF Lexemes, RelayArguments
  <2> QED BY <1>c, <1>2, <2>1 DEF d, IsRelayLine, Lexemes, RelayArguments
<1>d. CASE w # <<>> /\ Head(w) = "relay"
  <2>1. d = IF Complete(relay) THEN [c EXCEPT !.relays = Append(@, relay)] ELSE c
    BY <1>a, <1>d DEF Lexemes, RelayArguments
  <2>2. Complete(relay) => Append(c.relays, relay) \in Seq(Relays)
    BY <1>d, <1>5, AppendProperties DEF Configs
  <2> QED BY <1>d, <1>2, <2>1, <2>2 DEF d, IsRelayLine, Configs, relay
<1>e. CASE w # <<>> /\ Len(w) > 1 /\ Head(w) = "listen"
  <2>1. d = [c EXCEPT !.local = w[2]]
    BY <1>a, <1>e DEF Lexemes, RelayArguments
  <2> QED BY <1>e, <1>2, <1>3, <2>1 DEF d, IsRelayLine, Configs, Address
<1>f. CASE w # <<>> /\ Len(w) > 1 /\ Head(w) = "forward"
  <2>1. d = [c EXCEPT !.remote = w[2]]
    BY <1>a, <1>f DEF Lexemes, RelayArguments
  <2> QED BY <1>f, <1>2, <1>3, <2>1 DEF d, IsRelayLine, Configs, Address
<1>g. CASE w # <<>> /\ Len(w) > 1 /\ Head(w) = "track"
  <2>1. d = [c EXCEPT !.track = StrToL(w[2])]
    BY <1>a, <1>g DEF Lexemes, RelayArguments
  <2> QED BY <1>g, <1>2, <1>6, <2>1 DEF d, IsRelayLine, Configs
<1>h. CASE w # <<>> /\ Head(w) # "relay" /\ ~ (Len(w) > 1)
  <2>1. d = c
    BY <1>a, <1>h
  <2> QED BY <1>h, <2>1 DEF d, IsRelayLine
<1> QED BY <1>b, <1>c, <1>d, <1>e, <1>f, <1>g, <1>h DEF Lexemes, RelayArguments

-----------------------------------------------------------------------------
(* The inductive invariant of udprelay_init().                             *)

Interface == [fd : Nat, family : Families, dynamic : BOOLEAN, remote : Family]

Typed == /\ pc \in {"parse", "port", "resolve", "socket", "remote", "ready", "failed"}
         /\ lines \in Seq(Lines)
         /\ conf \in Configs
         /\ made \in Seq(Interface)
         /\ addrs \in Seq(Families)
         /\ fd \in Nat \cup {NoFd} /\ family \in Family
         /\ open \subseteq Nat /\ taken \subseteq Nat /\ lists \in 0 .. 1
         /\ IsFiniteSet(open) /\ IsFiniteSet(taken)

(* How far new_relay() has got, interface by interface.                    *)
Progress ==
  /\ pc \in {"parse", "failed"} => made = <<>>
  /\ pc \in {"port", "resolve", "socket", "remote"} => Len(made) <= Len(conf.relays)
  /\ pc = "ready" => Len(made) = Len(conf.relays) + 1
  /\ pc \notin {"parse", "failed"} => conf.relays # <<>>
  /\ pc = "remote" => fd \in Nat /\ family \in Families
  /\ pc # "remote" => fd = NoFd
  /\ pc = "socket" => lists = 1

(* What the remote address makes of an interface.                          *)
RemoteOf(c, i) == IF i = 1 THEN c.remote ELSE c.relays[i - 1].remote

AsConfigured(m, remote) ==
  /\ m.dynamic <=> remote = NoAddr
  /\ ~m.dynamic => m.remote = m.family

MadeAsConfigured == \A i \in 1 .. Len(made) : AsConfigured(made[i], RemoteOf(conf, i))

IInv == Typed /\ Progress /\ MadeAsConfigured /\ ResourcesAccounted

(* A set of k numbers leaves one of 0 .. k free.                           *)
LEMMA FreeOne ==
  ASSUME NEW T, T \subseteq Nat, IsFiniteSet(T)
  PROVE  Min((0 .. Cardinality(T)) \ T) \in Nat \ T
<1> DEFINE c == Cardinality(T)
<1>1. c \in Nat
  BY FS_CardinalityType
<1>2. Cardinality(0 .. c) = c + 1 /\ IsFiniteSet(0 .. c)
  BY <1>1, FS_Interval
<1>3. ~ (0 .. c \subseteq T)
  <2>1. 0 .. c \subseteq T => Cardinality(0 .. c) <= c
    BY FS_Subset
  <2> HIDE DEF c
  <2> QED BY <1>1, <1>2, <2>1
<1>4. (0 .. c) \ T # {} /\ (0 .. c) \ T \subseteq Nat
  BY <1>1, <1>3
<1> HIDE DEF c
<1>5. Min((0 .. c) \ T) \in (0 .. c) \ T
  BY <1>4, LeastOf
<1> QED BY <1>4, <1>5 DEF c

(* The kernel always has a descriptor to give: there are fewer open ones   *)
(* than numbers up to their count.                                         *)
LEMMA FreshFd ==
  ASSUME Typed
  PROVE  FreeFd \in Nat /\ FreeFd \notin open /\ FreeFd \notin taken
<1>1. open \cup taken \subseteq Nat /\ IsFiniteSet(open \cup taken)
  BY FS_Union DEF Typed
<1>2. FreeFd \in Nat \ (open \cup taken)
  BY <1>1, FreeOne DEF FreeFd
<1> QED BY <1>2

(* The outward interface comes first, then the relays in their order.      *)
LEMMA InterfacesAre ==
  ASSUME Typed
  PROVE  /\ Len(Interfaces) = Len(conf.relays) + 1
         /\ Interfaces[1].remote = conf.remote
         /\ \A i \in 2 .. Len(conf.relays) + 1 : Interfaces[i] = conf.relays[i - 1]
<1> DEFINE first == [local |-> conf.local, remote |-> conf.remote]
           S == Relays \cup {first}
           n == Len(conf.relays)
<1>1. conf.relays \in Seq(S) /\ <<first>> \in Seq(S) /\ Len(<<first>>) = 1 /\ n \in Nat
  <2>1. conf.relays \in Seq(Relays)
    BY DEF Typed, Configs
  <2>2. conf.relays \in Seq(S)
    BY <2>1, SeqMonotonic
  <2> QED BY <2>1, <2>2, LenProperties
<1>2. Interfaces = <<first>> \o conf.relays
  BY DEF Interfaces
<1>3. /\ Len(<<first>> \o conf.relays) = 1 + n
      /\ \A i \in 1 .. 1 + n : (<<first>> \o conf.relays)[i]
            = IF i <= 1 THEN <<first>>[i] ELSE conf.relays[i - 1]
  BY <1>1, ConcatProperties
<1>4. <<first>>[1] = first /\ first.remote = conf.remote
  OBVIOUS
<1> HIDE DEF first, n
<1>5. Interfaces[1] = first
  BY <1>1, <1>2, <1>3, <1>4
<1>6. \A i \in 2 .. n + 1 : Interfaces[i] = conf.relays[i - 1]
  BY <1>1, <1>2, <1>3
<1> QED BY <1>1, <1>2, <1>3, <1>4, <1>5, <1>6 DEF n

(* What the invariant of start-up is for.                                  *)
LEMMA InvStart ==
  ASSUME IInv
  PROVE  TypeOK /\ ResourcesAccounted /\ InterfacesAsConfigured
<1>1. TypeOK
  <2>1. conf.relays \in Seq([local : Words, remote : Words])
    <3>1. Relays \subseteq [local : Words, remote : Words]
      BY DEF Relays
    <3> QED BY <3>1, SeqMonotonic DEF IInv, Typed, Configs
  <2> QED BY <2>1 DEF IInv, Typed, TypeOK, Configs, Interface
<1>2. InterfacesAsConfigured
  <2> SUFFICES ASSUME pc = "ready"
               PROVE  /\ Len(made) = Len(conf.relays) + 1 /\ Len(made) > 1
                      /\ \A i \in DOMAIN made :
                           /\ made[i].dynamic <=> Interfaces[i].remote = NoAddr
                           /\ i > 1 => ~made[i].dynamic
                           /\ ~made[i].dynamic => made[i].remote = made[i].family
    BY DEF InterfacesAsConfigured
  <2> DEFINE n == Len(conf.relays)
  <2>1. conf.relays \in Seq(Relays) /\ n \in Nat /\ n # 0 /\ Len(made) = n + 1
    <3>1. conf.relays \in Seq(Relays) /\ conf.relays # <<>> /\ Len(made) = n + 1
      BY DEF IInv, Typed, Configs, Progress
    <3> QED BY <3>1, EmptySeq, LenProperties
  <2>2. DOMAIN made = 1 .. n + 1
    BY <2>1, LenProperties DEF IInv, Typed
  <2>3. ASSUME NEW i \in DOMAIN made
        PROVE  /\ made[i].dynamic <=> Interfaces[i].remote = NoAddr
               /\ i > 1 => ~made[i].dynamic
               /\ ~made[i].dynamic => made[i].remote = made[i].family
    <3>1. AsConfigured(made[i], RemoteOf(conf, i))
      BY <2>1, <2>2, <2>3 DEF IInv, MadeAsConfigured
    <3>2. CASE i = 1
      BY <3>1, <3>2, InterfacesAre DEF AsConfigured, IInv, RemoteOf
    <3>3. CASE i # 1
      <4>1. i \in 2 .. n + 1 /\ i - 1 \in 1 .. n
        BY <2>1, <2>2, <2>3, <3>3
      <4>2. conf.relays[i - 1] \in Relays
        BY <2>1, <4>1, ElementOfSeq
      <4>3. conf.relays[i - 1].remote # NoAddr
        BY <4>2 DEF Relays
      <4>4. Interfaces[i] = conf.relays[i - 1]
        BY <4>1, InterfacesAre DEF IInv
      <4> QED BY <3>1, <3>3, <4>3, <4>4 DEF AsConfigured, RemoteOf
    <3> QED BY <3>2, <3>3
  <2> HIDE DEF n
  <2>4. Len(made) > 1
    BY <2>1
  <2> QED BY <2>1, <2>3, <2>4 DEF n
<1> QED BY <1>1, <1>2 DEF IInv

(* udprelay_init() begins with nothing opened.                             *)
LEMMA InitHolds == Init => IInv
<1> SUFFICES ASSUME Init
             PROVE  IInv
  OBVIOUS
<1>1. taken \subseteq Nat /\ IsFiniteSet(taken)
  <2>1. taken \subseteq 0 .. 2
    BY InheritedAssumption DEF Init
  <2>2. 0 \in Int /\ 2 \in Int
    OBVIOUS
  <2>3. IsFiniteSet(0 .. 2)
    BY <2>2, FS_Interval
  <2>4. IsFiniteSet(taken)
    BY <2>1, <2>3, FS_Subset
  <2> QED BY <2>1, <2>4
<1>2. Typed
  <2>1. EmptyConfig \in Configs
    BY DEF EmptyConfig, Configs, Address, DefTrack
  <2> QED BY <1>1, <2>1, FS_EmptySet DEF Init, Typed, Family
<1>3. Progress
  BY DEF Init, Progress
<1>4. MadeAsConfigured
  BY DEF Init, MadeAsConfigured
<1>5. ResourcesAccounted
  <2>1. {m.fd : m \in ToSet(made)} = {} /\ Len(made) = 0
    BY DEF Init, ToSet
  <2>2. open = {} /\ Cardinality(open) = 0
    BY FS_EmptySet DEF Init
  <2>3. fd = NoFd /\ lists = 0 /\ pc = "parse"
    BY DEF Init
  <2> QED BY <2>1, <2>2, <2>3 DEF ResourcesAccounted
<1> QED BY <1>2, <1>3, <1>4, <1>5 DEF IInv

(* With all sockets accounted for, giving up closes all of them.           *)
LEMMA GivingUp ==
  ASSUME IInv, GiveUp, addrs' = addrs, lists' \in 0 .. 1
  PROVE  IInv'
<1>1. open' = {} /\ made' = <<>> /\ fd' = NoFd /\ pc' = "failed"
  BY DEF GiveUp, IInv, ResourcesAccounted
<1>2. Typed'
  <2>1. IsFiniteSet(open') /\ open' \subseteq Nat /\ made' \in Seq(Interface)
    BY <1>1, FS_EmptySet
  <2>2. UNCHANGED <<lines, conf, addrs, family, taken>>
    BY DEF GiveUp
  <2> QED BY <1>1, <2>1, <2>2 DEF IInv, Typed
<1>3. Progress'
  BY <1>1 DEF Progress
<1>4. MadeAsConfigured'
  BY <1>1 DEF MadeAsConfigured
<1>5. ResourcesAccounted'
  <2>1. {m.fd : m \in ToSet(made')} = {} /\ Len(made') = 0
    BY <1>1 DEF ToSet
  <2>2. Cardinality(open') = 0
    BY <1>1, FS_EmptySet
  <2> QED BY <1>1, <2>1, <2>2 DEF ResourcesAccounted
<1> QED BY <1>2, <1>3, <1>4, <1>5 DEF IInv

(* As long as nothing is opened or closed, the sockets stay accounted for. *)
LEMMA NothingOpened ==
  ASSUME ResourcesAccounted, UNCHANGED <<made, fd, open, taken>>,
         pc' # "failed", pc' # "socket" => lists' = 0
  PROVE  ResourcesAccounted'
BY DEF ResourcesAccounted

(* One line of the file keeps the invariant of start-up.                   *)
LEMMA ReadLineKeeps ==
  ASSUME IInv, NEW line \in Lines, ReadLine(line)
  PROVE  IInv'
<1>1. AfterLine(conf, line) \in Configs
  BY AfterLineFields DEF IInv, Typed
<1>2. Typed'
  BY <1>1 DEF IInv, Typed, ReadLine
<1>3. Progress'
  BY DEF IInv, Progress, ReadLine
<1>4. MadeAsConfigured'
  <2>1. made' = <<>>
    BY DEF IInv, Progress, ReadLine
  <2> QED BY <2>1 DEF MadeAsConfigured
<1>5. ResourcesAccounted'
  BY NothingOpened DEF IInv, ReadLine, ResourcesAccounted
<1> QED BY <1>2, <1>3, <1>4, <1>5 DEF IInv

(* The checks at the end of the file do.                                   *)
LEMMA EndOfFileKeeps ==
  ASSUME IInv, EndOfFile
  PROVE  IInv'
<1>1. made = <<>> /\ fd = NoFd /\ Len(conf.relays) \in Nat
  BY LenProperties DEF IInv, Progress, EndOfFile, Typed, Configs
<1>2. Typed'
  BY DEF IInv, Typed, EndOfFile
<1>3. Progress'
  BY <1>1 DEF EndOfFile, Progress, Accepted
<1>4. MadeAsConfigured'
  BY <1>1 DEF MadeAsConfigured, EndOfFile
<1>5. ResourcesAccounted'
  <2>1. {m.fd : m \in ToSet(<<>>)} = {}
    BY DEF ToSet
  <2>2. open = {}
    BY <1>1, <2>1 DEF IInv, ResourcesAccounted
  <2> QED BY <2>2 DEF IInv, EndOfFile, ResourcesAccounted
<1> QED BY <1>2, <1>3, <1>4, <1>5 DEF IInv

(* The steps of new_relay() that only look something up.                   *)
LEMMA LookupKeeps ==
  ASSUME IInv,
         \/ pc = "port" /\ pc' = "resolve" /\ lists' = lists /\ addrs' = addrs
         \/ pc = "resolve" /\ pc' = "socket" /\ lists' = lists + 1
         \/ pc = "socket" /\ pc' = pc /\ lists' = lists,
         addrs' \in Seq(Families),
         UNCHANGED <<lines, conf, made, fd, family, open, taken>>
  PROVE  IInv'
<1>1. pc = "resolve" => lists = 0
  BY DEF IInv, ResourcesAccounted
<1>2. Typed'
  BY <1>1 DEF IInv, Typed
<1>3. Progress'
  BY <1>1 DEF IInv, Progress
<1>4. MadeAsConfigured'
  BY DEF IInv, MadeAsConfigured
<1>5. ResourcesAccounted'
  BY NothingOpened DEF IInv, ResourcesAccounted
<1> QED BY <1>2, <1>3, <1>4, <1>5 DEF IInv

(* A new socket is one nobody has, and the one new_relay() has in hand.    *)
LEMMA TakeAddressKeeps ==
  ASSUME IInv, TakeAddress
  PROVE  IInv'
<1>1. fd' = FreeFd /\ open' = open \cup {fd'} /\ pc = "socket" /\ pc' = "remote"
      /\ lists' = lists - 1 /\ addrs' = <<>> /\ family' = Head(addrs) /\ addrs # <<>>
      /\ UNCHANGED <<lines, conf, made, taken>>
  BY DEF TakeAddress
<1>2. fd' \in Nat /\ fd' # NoFd /\ fd' \notin open /\ fd' \notin taken
  BY <1>1, FreshFd, NoneAssumption DEF IInv
<1>3. lists = 1 /\ fd = NoFd
  BY <1>1 DEF IInv, Progress
<1>4. family' \in Families
  BY <1>1, HeadTailProperties DEF IInv, Typed
<1>5. /\ IsFiniteSet(open) /\ IsFiniteSet(open')
      /\ Cardinality(open) \in Nat /\ Cardinality(open') = Cardinality(open) + 1
  <2>1. IsFiniteSet(open)
    BY DEF IInv, Typed
  <2> QED BY <1>1, <1>2, <2>1, FS_AddElement, FS_CardinalityType
<1>6. Typed'
  <2>1. addrs' \in Seq(Families) /\ lists' \in 0 .. 1 /\ open' \subseteq Nat /\ family' \in Family
    BY <1>1, <1>2, <1>3, <1>4 DEF IInv, Typed, Family
  <2> QED BY <1>1, <1>2, <1>5, <2>1 DEF IInv, Typed
<1>7. Progress'
  BY <1>1, <1>2, <1>4 DEF IInv, Progress
<1>8. MadeAsConfigured'
  BY <1>1 DEF IInv, MadeAsConfigured
<1>9. ResourcesAccounted'
  <2>1. open = {m.fd : m \in ToSet(made)} /\ Cardinality(open) = Len(made) /\ open \cap taken = {}
    <3>1. Len(made) \in Nat
      BY LenProperties DEF IInv, Typed
    <3> QED BY <1>3, <3>1 DEF IInv, ResourcesAccounted
  <2>2. lists' = 0
    BY <1>1, <1>3
  <2> QED BY <1>1, <1>2, <1>5, <2>1, <2>2 DEF ResourcesAccounted
<1> QED BY <1>6, <1>7, <1>8, <1>9 DEF IInv

(* The socket in hand becomes the next interface's.                        *)
LEMMA FinishKeeps ==
  ASSUME IInv, Finish
  PROVE  IInv'
<1> DEFINE n == Len(conf.relays)
           k == Len(made)
<1>a. PICK m : m = [fd |-> fd, family |-> family, dynamic |-> Current.remote = NoAddr,
                    remote |-> IF Current.remote = NoAddr THEN NoAddr ELSE family]
  OBVIOUS
<1>1. /\ pc = "remote" /\ made' = Append(made, m) /\ fd' = NoFd
      /\ pc' = IF Len(made') = Len(Interfaces) THEN "ready" ELSE "port"
      /\ UNCHANGED <<lines, conf, addrs, family, open, lists>>
  BY <1>a DEF Finish
<1>b. taken' = taken \/ taken' = taken \cup {FreeFd}
  BY DEF Finish
<1>2. /\ fd \in Nat /\ fd # NoFd /\ family \in Families
      /\ k \in Nat /\ n \in Nat /\ k <= n /\ conf.relays # <<>>
      /\ made \in Seq(Interface) /\ lists = 0
  BY <1>1, NoneAssumption, LenProperties
     DEF IInv, Typed, Configs, Progress, ResourcesAccounted
<1>3. m \in Interface
  BY <1>a, <1>2 DEF Interface, Family
<1>4. /\ made' \in Seq(Interface) /\ Len(made') = k + 1
      /\ \A i \in 1 .. k : made'[i] = made[i]
      /\ made'[k + 1] = m
  BY <1>1, <1>2, <1>3, AppendProperties
<1>5. /\ taken' \subseteq Nat /\ IsFiniteSet(taken') /\ open \cap taken' = {}
  <2>1. FreeFd \in Nat /\ FreeFd \notin open
    BY FreshFd DEF IInv
  <2>2. IsFiniteSet(taken) /\ taken \subseteq Nat /\ open \cap taken = {}
    BY DEF IInv, Typed, ResourcesAccounted
  <2>3. IsFiniteSet(taken \cup {FreeFd})
    BY <2>2, FS_AddElement
  <2> QED BY <1>b, <2>1, <2>2, <2>3
<1>6. pc' \in {"port", "ready"} /\ (pc' = "port" => k + 1 <= n) /\ (pc' = "ready" => k + 1 = n + 1)
  <2>1. Len(Interfaces) = n + 1
    BY InterfacesAre DEF IInv
  <2> HIDE DEF k, n
  <2>2. pc' = IF k + 1 = n + 1 THEN "ready" ELSE "port"
    BY <1>1, <1>4, <2>1
  <2> QED BY <1>2, <2>2
<1>7. Typed'
  BY <1>1, <1>2, <1>4, <1>5, <1>6 DEF IInv, Typed
<1>8. Progress'
  BY <1>1, <1>2, <1>4, <1>6 DEF Progress
<1>9. MadeAsConfigured'
  <2>1. ASSUME NEW i \in 1 .. k
        PROVE  AsConfigured(made'[i], RemoteOf(conf', i))
    BY <1>1, <1>4, <2>1 DEF IInv, MadeAsConfigured
  <2>2. AsConfigured(m, RemoteOf(conf, k + 1))
    <3>1. Current = Interfaces[k + 1]
      BY DEF Current
    <3>2. Current.remote = RemoteOf(conf, k + 1)
      <4>1. CASE k = 0
        BY <3>1, <4>1, InterfacesAre DEF IInv, RemoteOf
      <4>2. CASE k # 0
        <5> HIDE DEF k
        <5>1. PICK j \in 2 .. n + 1 : j = k + 1
          BY <1>2, <4>2
        <5>2. Interfaces[j] = conf.relays[j - 1] /\ j # 1
          BY <1>2, InterfacesAre DEF IInv
        <5>3. RemoteOf(conf, j) = conf.relays[j - 1].remote
          BY <5>2 DEF RemoteOf
        <5> QED BY <3>1, <5>1, <5>2, <5>3
      <4> QED BY <4>1, <4>2
    <3>3. (m.dynamic <=> Current.remote = NoAddr) /\ (~m.dynamic => m.remote = m.family)
      BY <1>a
    <3> QED BY <3>2, <3>3 DEF AsConfigured
  <2> HIDE DEF k
  <2>3. \A i \in 1 .. k + 1 : i \in 1 .. k \/ i = k + 1
    BY <1>2
  <2> QED BY <1>1, <1>4, <2>1, <2>2, <2>3 DEF MadeAsConfigured
<1>10. ResourcesAccounted'
  <2>1. {x.fd : x \in ToSet(made')} = {x.fd : x \in ToSet(made)} \cup {fd}
    <3>1. DOMAIN made = 1 .. k /\ DOMAIN made' = 1 .. k + 1
      BY <1>2, <1>4, LenProperties
    <3>2. ToSet(made') = ToSet(made) \cup {m}
      <4> HIDE DEF k
      <4>1. \A i \in 1 .. k + 1 : i \in 1 .. k \/ i = k + 1
        BY <1>2
      <4>2. 1 .. k \subseteq 1 .. k + 1 /\ k + 1 \in 1 .. k + 1
        BY <1>2
      <4> QED BY <1>4, <3>1, <4>1, <4>2 DEF ToSet
    <3>3. m.fd = fd
      BY <1>a
    <3> QED BY <3>2, <3>3
  <2>2. open = {x.fd : x \in ToSet(made)} \cup {fd} /\ Cardinality(open) = k + 1
    BY <1>2 DEF IInv, ResourcesAccounted
  <2>3. lists' = 0
    BY <1>1, <1>2
  <2> HIDE DEF k
  <2>4. open' = {x.fd : x \in ToSet(made')} \cup ({fd'} \ {NoFd}) /\ open' \cap taken' = {}
    BY <1>1, <1>5, <2>1, <2>2
  <2>5. Cardinality(open') = Len(made') + (IF fd' = NoFd THEN 0 ELSE 1)
    BY <1>1, <1>2, <1>4, <2>2
  <2> QED BY <1>6, <2>3, <2>4, <2>5 DEF ResourcesAccounted
<1> QED BY <1>7, <1>8, <1>9, <1>10 DEF IInv

(* Every step of udprelay_init() does.                                     *)
LEMMA NextKeeps == IInv /\ Next => IInv'
<1> SUFFICES ASSUME IInv, Next
             PROVE  IInv'
  OBVIOUS
<1>0. lists \in 0 .. 1 /\ (pc = "socket" => lists - 1 \in 0 .. 1)
  BY DEF IInv, Typed, Progress
<1>1. CASE \E line \in Lines : ReadLine(line)
  BY <1>1, ReadLineKeeps
<1>2. CASE EndOfFile
  BY <1>2, EndOfFileKeeps
<1>3. CASE CheckPort
  <2>1. CASE Current.remote \in Portless
    <3>1. GiveUp /\ addrs' = addrs /\ lists' \in 0 .. 1
      BY <1>0, <1>3, <2>1 DEF CheckPort, GiveUp
    <3> QED BY <3>1, GivingUp
  <2>2. CASE Current.remote \notin Portless
    <3>1. /\ pc = "port" /\ pc' = "resolve"
          /\ UNCHANGED <<lines, conf, made, addrs, fd, family, open, taken, lists>>
      BY <1>3, <2>2 DEF CheckPort
    <3>2. addrs' \in Seq(Families)
      BY <3>1 DEF IInv, Typed
    <3> QED BY <3>1, <3>2, LookupKeeps
  <2> QED BY <2>1, <2>2
<1>4. CASE Resolve
  <2>1. /\ pc = "resolve" /\ pc' = "socket" /\ lists' = lists + 1
        /\ UNCHANGED <<lines, conf, made, fd, family, open, taken>>
    BY <1>4 DEF Resolve
  <2>2. PICK k \in 0 .. MaxAddrs : addrs' \in [1 .. k -> Families]
    BY <1>4 DEF Resolve, BoundedSeq, SeqOf
  <2>3. addrs' \in Seq(Families)
    BY <2>2, BoundsAssumption, SeqDef
  <2> QED BY <2>1, <2>3, LookupKeeps
<1>5. CASE ResolveError
  <2>1. GiveUp /\ addrs' = addrs /\ lists' \in 0 .. 1
    BY <1>0, <1>5 DEF ResolveError, GiveUp
  <2> QED BY <2>1, GivingUp
<1>6. CASE SkipAddress
  <2>1. /\ pc = "socket" /\ pc' = pc /\ lists' = lists
        /\ UNCHANGED <<lines, conf, made, fd, family, open, taken>>
    BY <1>6 DEF SkipAddress
  <2>2. addrs' \in Seq(Families)
    BY <1>6, HeadTailProperties DEF SkipAddress, IInv, Typed
  <2> QED BY <2>1, <2>2, LookupKeeps
<1>7. CASE SetOptionError
  <2>1. GiveUp /\ addrs' = addrs /\ lists' \in 0 .. 1
    BY <1>0, <1>7 DEF SetOptionError, GiveUp
  <2> QED BY <2>1, GivingUp
<1>8. CASE TakeAddress
  BY <1>8, TakeAddressKeeps
<1>9. CASE NoAddressLeft
  <2>1. GiveUp /\ addrs' = addrs /\ lists' \in 0 .. 1
    BY <1>0, <1>9 DEF NoAddressLeft, GiveUp
  <2> QED BY <2>1, GivingUp
<1>10. CASE RemoteError
  <2>1. GiveUp /\ addrs' = addrs /\ lists' \in 0 .. 1
    BY <1>0, <1>10 DEF RemoteError, GiveUp
  <2> QED BY <2>1, GivingUp
<1>11. CASE Finish
  BY <1>11, FinishKeeps
<1> QED BY <1>1, <1>2, <1>3, <1>4, <1>5, <1>6, <1>7, <1>8, <1>9, <1>10, <1>11 DEF Next

(* What IInv says is a matter of udprelay_init()'s variables.              *)
LEMMA NothingMoves == IInv /\ UNCHANGED vars => IInv'
BY DEF IInv, vars, Typed, Progress, MadeAsConfigured, ResourcesAccounted

-----------------------------------------------------------------------------
(* The inductive invariant of main().                                      *)

OptionSet == [usage : BOOLEAN, conf : BOOLEAN, detach : BOOLEAN, pidFile : BOOLEAN]

MainTyped ==
  /\ opts \in OptionSet
  /\ at \in {"options", "init", "child", "handlers", "loop", "exited", "killed"}
  /\ parent \in {"none", "fopen", "fprintf", "exit", "gone", "killed"}
  /\ shell \in {"running", "success", "failure"}
  /\ pidFile \in {"old", "empty", "child", "broken"}
  /\ DOMAIN table \subseteq Nat
  /\ \A d \in DOMAIN table : table[d] \in {"socket", "other", "null"}

(* Parent and child only exist once every interface is open, the caller    *)
(* hears from the parent at its end or from the only process at its own,   *)
(* and the pid file is half written while the parent writes it or because  *)
(* it was killed then.                                                     *)
Processes ==
  /\ at \in {"child", "handlers", "loop"} \/ parent # "none" => pc = "ready"
  /\ parent # "none" => at \notin {"options", "init", "exited"} /\ opts.detach
  /\ at = "child" => parent # "none"
  /\ parent \in {"fopen", "fprintf"} \/ pidFile # "old" => opts.pidFile
  /\ parent \in {"none", "fopen"} => pidFile = "old"
  /\ pidFile = "empty" => parent \in {"fprintf", "killed"}
  /\ shell = "success" /\ ~opts.usage => parent = "gone"
  /\ shell = "failure" => \/ at \in {"exited", "killed"} /\ parent = "none"
                         \/ parent = "killed"
  /\ parent = "killed" => shell = "failure"
  /\ parent = "none" /\ at \notin {"exited", "killed"} => shell = "running"

(* The child's descriptors are the ones the sockets were opened with.      *)
Table == /\ at = "child" => table = Descriptors
         /\ DetachKeepsSockets

MainInv == IInv /\ MainTyped /\ Processes /\ Table

(* What the whole invariant is for.                                        *)
LEMMA MainInvImplies ==
  ASSUME MainInv
  PROVE  /\ MainTypeOK /\ ResourcesAccounted /\ InterfacesAsConfigured
         /\ StatusTellsOutcome /\ DetachKeepsSockets
<1>1. TypeOK /\ ResourcesAccounted /\ InterfacesAsConfigured
  BY InvStart DEF MainInv
<1>2. MainTypeOK
  BY <1>1 DEF MainInv, MainTyped, MainTypeOK, OptionSet
<1>3. StatusTellsOutcome
  BY DEF MainInv, MainTyped, Processes, StatusTellsOutcome
<1> QED BY <1>1, <1>2, <1>3 DEF MainInv, Table

(* main() begins with it.                                                  *)
LEMMA MainInitHolds == MainInit => MainInv
<1> SUFFICES ASSUME MainInit
             PROVE  MainInv
  OBVIOUS
<1>1. IInv
  BY InitHolds DEF MainInit
<1>2. MainTyped
  BY DEF MainInit, MainTyped, OptionSet
<1>3. Processes
  BY DEF MainInit, Processes
<1>4. Table
  BY DEF MainInit, Table, DetachKeepsSockets
<1> QED BY <1>1, <1>2, <1>3, <1>4 DEF MainInv

(* The descriptors handed on, and what the rest of the program finds there.*)
LEMMA HandedOn ==
  ASSUME IInv, pc = "ready", Standard \subseteq taken
  PROVE  /\ {d \in DOMAIN Descriptors : Descriptors[d] = "socket"} = {made[i].fd : i \in DOMAIN made}
         /\ DOMAIN Descriptors = open \cup taken
<1>1. fd = NoFd /\ open = {m.fd : m \in ToSet(made)}
  BY DEF IInv, Progress, ResourcesAccounted
<1>2. open = {made[i].fd : i \in DOMAIN made}
  BY <1>1 DEF ToSet
<1>3. {d \in DOMAIN Descriptors : Descriptors[d] = "socket"} = open
  BY DEF Descriptors
<1> QED BY <1>2, <1>3 DEF Descriptors

(* What fork() passes on to the child.                                     *)
LEMMA DescriptorsTyped ==
  ASSUME IInv
  PROVE  /\ DOMAIN Descriptors \subseteq Nat
         /\ \A d \in DOMAIN Descriptors : Descriptors[d] \in {"socket", "other", "null"}
BY DEF IInv, Typed, Descriptors

(* Steps of main() and its processes that leave the descriptors alone.     *)
LEMMA TableStays ==
  ASSUME Table, UNCHANGED <<vars, table>>,
         at' \notin {"child"} \/ at' = at,
         at' \notin {"handlers", "loop"} \/ at \in {"handlers", "loop"}
  PROVE  Table'
<1>1. Descriptors' = Descriptors
  BY DEF vars, Descriptors
<1>2. made' = made /\ open' = open /\ taken' = taken
  BY DEF vars
<1>3. at' = "child" => table' = Descriptors'
  BY <1>1 DEF Table
<1>4. DetachKeepsSockets'
  BY <1>2 DEF Table, DetachKeepsSockets
<1> QED BY <1>3, <1>4 DEF Table

(* getopt() and the usage message.                                         *)
LEMMA OptionsKeeps ==
  ASSUME MainInv, Options
  PROVE  MainInv'
<1>1. IInv'
  BY NothingMoves DEF MainInv, Options
<1>2. MainTyped'
  BY DEF MainInv, MainTyped, Options
<1>3. Processes'
  BY DEF MainInv, Processes, Options, vars
<1>4. Table'
  BY TableStays DEF MainInv, Options
<1> QED BY <1>1, <1>2, <1>3, <1>4 DEF MainInv

(* A successful udprelay_init().                                           *)
LEMMA InitialiseKeeps ==
  ASSUME MainInv, Initialise
  PROVE  MainInv'
<1>1. IInv'
  BY NextKeeps DEF MainInv, Initialise
<1>2. MainTyped'
  BY DEF MainInv, MainTyped, Initialise, mainVars
<1>3. Processes'
  BY DEF MainInv, Processes, Initialise, mainVars
<1>4. Table'
  BY DEF Table, DetachKeepsSockets, Initialise, mainVars
<1> QED BY <1>1, <1>2, <1>3, <1>4 DEF MainInv

(* A failing one ends the process.                                         *)
LEMMA InitFailsKeeps ==
  ASSUME MainInv, InitFails
  PROVE  MainInv'
<1>1. IInv'
  BY NothingMoves DEF MainInv, InitFails
<1>2. MainTyped'
  BY DEF MainInv, MainTyped, InitFails
<1>3. Processes'
  BY DEF MainInv, Processes, InitFails, vars
<1>4. Table'
  BY TableStays DEF MainInv, InitFails
<1> QED BY <1>1, <1>2, <1>3, <1>4 DEF MainInv

(* Without -d nothing is detached.                                         *)
LEMMA StayInForegroundKeeps ==
  ASSUME MainInv, StayInForeground
  PROVE  MainInv'
<1>1. IInv'
  BY NothingMoves DEF MainInv, StayInForeground
<1>2. MainTyped'
  <2>1. /\ DOMAIN table' \subseteq Nat
        /\ \A d \in DOMAIN table' : table'[d] \in {"socket", "other", "null"}
    BY DescriptorsTyped DEF MainInv, StayInForeground
  <2> QED BY <2>1 DEF MainInv, MainTyped, StayInForeground
<1>3. Processes'
  BY DEF MainInv, Processes, StayInForeground, vars
<1>4. Table'
  <2>1. pc = "ready" /\ at' = "handlers" /\ table' = Descriptors
    BY DEF StayInForeground
  <2>2. made' = made /\ open' = open /\ taken' = taken
    BY DEF StayInForeground, vars
  <2>3. DetachKeepsSockets'
    BY <2>1, <2>2, HandedOn DEF MainInv, DetachKeepsSockets
  <2> QED BY <2>1, <2>3 DEF Table
<1> QED BY <1>1, <1>2, <1>3, <1>4 DEF MainInv

(* fork() in xdaemon(): from here on two processes go on, or one if it     *)
(* fails.                                                                  *)
LEMMA ForkKeeps ==
  ASSUME MainInv, Fork
  PROVE  MainInv'
<1>1. IInv'
  BY NothingMoves DEF MainInv, Fork
<1>2. MainTyped'
  <2>1. /\ DOMAIN table' \subseteq Nat
        /\ \A d \in DOMAIN table' : table'[d] \in {"socket", "other", "null"}
    BY DescriptorsTyped DEF MainInv, Fork
  <2> QED BY <2>1 DEF MainInv, MainTyped, Fork
<1>3. Processes'
  BY DEF MainInv, MainTyped, Processes, Fork, vars
<1>4. Table'
  <2>1. at' = "child" /\ table' = Descriptors
    BY DEF Fork
  <2>2. Descriptors' = Descriptors
    BY DEF Fork, vars, Descriptors
  <2> QED BY <2>1, <2>2 DEF Table, DetachKeepsSockets
<1> QED BY <1>1, <1>2, <1>3, <1>4 DEF MainInv

(* The parent writes the pid file and exits, whatever the child does.      *)
LEMMA ParentKeeps ==
  ASSUME MainInv, OpenPidFile \/ WritePidFile \/ ParentExits
  PROVE  MainInv'
<1>1. IInv'
  BY NothingMoves DEF MainInv, OpenPidFile, WritePidFile, ParentExits
<1>2. MainTyped'
  BY DEF MainInv, MainTyped, OpenPidFile, WritePidFile, ParentExits
<1>3. Processes'
  <2>1. CASE OpenPidFile
    BY <2>1 DEF MainInv, MainTyped, Processes, OpenPidFile, vars
  <2>2. CASE WritePidFile
    BY <2>2 DEF MainInv, MainTyped, Processes, WritePidFile, vars
  <2>3. CASE ParentExits
    BY <2>3 DEF MainInv, MainTyped, Processes, ParentExits, vars
  <2> QED BY <2>1, <2>2, <2>3
<1>4. Table'
  BY TableStays DEF MainInv, OpenPidFile, WritePidFile, ParentExits
<1> QED BY <1>1, <1>2, <1>3, <1>4 DEF MainInv

(* /dev/null takes the place of the standard descriptors only: with all of *)
(* them taken before, no socket has one of these numbers.                  *)
LEMMA DetachKeeps ==
  ASSUME MainInv, Detach
  PROVE  MainInv'
<1>0. /\ at = "child" /\ at' = "handlers" /\ UNCHANGED <<opts, parent, shell, pidFile, vars>>
      /\ table = Descriptors /\ pc = "ready"
  BY DEF MainInv, Processes, Table, Detach
<1>1. IInv'
  BY <1>0, NothingMoves DEF MainInv
<1>2. MainTyped'
  <2>1. /\ DOMAIN table' \subseteq Nat
        /\ \A d \in DOMAIN table' : table'[d] \in {"socket", "other", "null"}
    <3>1. CASE UNCHANGED table
      BY <3>1 DEF MainInv, MainTyped
    <3>2. CASE table' = [d \in (DOMAIN table \cup Standard) \ {FreeFd} |->
                           IF d \in Standard THEN "null" ELSE table[d]]
      BY <3>2 DEF MainInv, MainTyped, Standard
    <3> QED BY <3>1, <3>2 DEF Detach
  <2> QED BY <1>0, <2>1 DEF MainInv, MainTyped
<1>3. Processes'
  BY <1>0 DEF MainInv, Processes, vars
<1>4. Table'
  <2>1. made' = made /\ open' = open /\ taken' = taken
    BY <1>0 DEF vars
  <2>2. ASSUME Standard \subseteq taken
        PROVE  /\ {d \in DOMAIN table' : table'[d] = "socket"} = {made[i].fd : i \in DOMAIN made}
               /\ DOMAIN table' = open \cup taken
    <3>1. /\ {d \in DOMAIN table : table[d] = "socket"} = {made[i].fd : i \in DOMAIN made}
          /\ DOMAIN table = open \cup taken
      BY <1>0, <2>2, HandedOn DEF MainInv
    <3>2. CASE UNCHANGED table
      BY <3>1, <3>2
    <3>3. CASE table' = [d \in (DOMAIN table \cup Standard) \ {FreeFd} |->
                           IF d \in Standard THEN "null" ELSE table[d]]
      <4>1. DOMAIN table' = open \cup taken
        BY <2>2, <3>1, <3>3, FreshFd DEF MainInv, IInv
      <4>2. \A d \in Standard : d \in DOMAIN table /\ table[d] # "socket"
        BY <1>0, <2>2 DEF Descriptors, MainInv, IInv, ResourcesAccounted
      <4>3. \A d \in DOMAIN table' : table'[d] = "socket" <=> table[d] = "socket"
        BY <3>3, <4>2
      <4> QED BY <3>1, <4>1, <4>3
    <3> QED BY <3>2, <3>3 DEF Detach
  <2>3. DetachKeepsSockets'
    BY <2>1, <2>2 DEF DetachKeepsSockets
  <2> QED BY <1>0, <2>3 DEF Table
<1> QED BY <1>1, <1>2, <1>3, <1>4 DEF MainInv

(* The child, or the only process, installs its handlers.                  *)
LEMMA InstallHandlersKeeps ==
  ASSUME MainInv, InstallHandlers
  PROVE  MainInv'
<1>1. IInv'
  BY NothingMoves DEF MainInv, InstallHandlers
<1>2. MainTyped'
  BY DEF MainInv, MainTyped, InstallHandlers
<1>3. Processes'
  BY DEF MainInv, Processes, InstallHandlers, vars
<1>4. Table'
  BY TableStays DEF MainInv, InstallHandlers
<1> QED BY <1>1, <1>2, <1>3, <1>4 DEF MainInv

(* A signal before that kills it.                                          *)
LEMMA KillKeeps ==
  ASSUME MainInv, Kill
  PROVE  MainInv'
<1>1. IInv'
  BY NothingMoves DEF MainInv, Kill
<1>2. MainTyped'
  BY DEF MainInv, MainTyped, Kill
<1>3. Processes'
  BY DEF MainInv, Processes, Kill, vars
<1>4. Table'
  BY TableStays DEF MainInv, Kill
<1> QED BY <1>1, <1>2, <1>3, <1>4 DEF MainInv

(* One that kills the parent leaves the child and the pid file alone.      *)
LEMMA KillParentKeeps ==
  ASSUME MainInv, KillParent
  PROVE  MainInv'
<1>1. IInv'
  BY NothingMoves DEF MainInv, KillParent
<1>2. MainTyped'
  BY DEF MainInv, MainTyped, KillParent
<1>3. Processes'
  BY DEF MainInv, MainTyped, Processes, KillParent, vars
<1>4. Table'
  BY TableStays DEF MainInv, KillParent
<1> QED BY <1>1, <1>2, <1>3, <1>4 DEF MainInv

(* Every step of main() keeps the whole invariant.                         *)
LEMMA MainNextKeeps == MainInv /\ [MainNext]_<<vars, mainVars>> => MainInv'
<1> SUFFICES ASSUME MainInv, [MainNext]_<<vars, mainVars>>
             PROVE  MainInv'
  OBVIOUS
<1>1. CASE Options \/ Initialise \/ InitFails
  BY <1>1, OptionsKeeps, InitialiseKeeps, InitFailsKeeps
<1>2. CASE StayInForeground \/ Fork
  BY <1>2, StayInForegroundKeeps, ForkKeeps
<1>3. CASE OpenPidFile \/ WritePidFile \/ ParentExits
  BY <1>3, ParentKeeps
<1>4. CASE Detach \/ InstallHandlers \/ Kill \/ KillParent
  BY <1>4, DetachKeeps, InstallHandlersKeeps, KillKeeps, KillParentKeeps
<1>5. CASE UNCHANGED <<vars, mainVars>>
  <2>1. UNCHANGED vars /\ UNCHANGED mainVars
    BY <1>5
  <2>2. IInv'
    BY <2>1, NothingMoves DEF MainInv
  <2>3. MainTyped'
    BY <2>1 DEF MainInv, MainTyped, mainVars
  <2>4. Processes'
    BY <2>1 DEF MainInv, Processes, mainVars, vars
  <2>5. Table'
    BY <2>1, TableStays DEF MainInv, mainVars
  <2> QED BY <2>2, <2>3, <2>4, <2>5 DEF MainInv
<1> QED BY <1>1, <1>2, <1>3, <1>4, <1>5 DEF MainNext

-----------------------------------------------------------------------------
(* The configuration is what the lines say.                                *)

(* A member that none exceeds is the maximum.                              *)
LEMMA MaxIs ==
  ASSUME NEW T, T \subseteq Nat, NEW m \in T, \A y \in T : y <= m
  PROVE  Max(T) = m
<1>1. \A y \in T : m >= y
  OBVIOUS
<1>2. \A x \in T : (\A y \in T : x >= y) => x = m
  OBVIOUS
<1> QED BY <1>1, <1>2 DEF Max

(* A set of positions has a maximum.                                       *)
LEMMA Greatest ==
  ASSUME NEW n \in Nat, NEW T, T \subseteq 1 .. n, T # {}
  PROVE  Max(T) \in T
<1> DEFINE U == {k \in 0 .. n : n - k \in T}
<1>1. U \subseteq Nat
  OBVIOUS
<1>2. U # {}
  <2>1. PICK x \in T : TRUE
    OBVIOUS
  <2>2. n - x \in 0 .. n /\ n - (n - x) = x
    OBVIOUS
  <2>3. n - x \in U
    BY <2>1, <2>2
  <2> QED BY <2>3
<1>3. PICK k \in U : \A j \in U : k <= j
  BY <1>1, <1>2, Least
<1>4. ASSUME NEW y \in T
      PROVE  y <= n - k
  <2>1. n - y \in 0 .. n /\ n - (n - y) = y
    OBVIOUS
  <2>2. k <= n - y
    BY <1>3, <2>1
  <2>3. k \in 0 .. n
    BY <1>3
  <2> QED BY <2>2, <2>3
<1>5. n - k \in T
  BY <1>3
<1>6. T \subseteq Nat
  OBVIOUS
<1> QED BY <1>4, <1>5, <1>6, MaxIs

(* What taking a word does to the fields of the scan.                      *)
LEMMA TakeWordFields ==
  ASSUME NEW S, NEW r \in Scan(S), NEW word \in S
  PROVE  /\ r.expects = "local" => /\ TakeWord(r, word).local = word
                                   /\ TakeWord(r, word).remote = r.remote
                                   /\ TakeWord(r, word).expects = "keyword"
         /\ r.expects = "remote" => /\ TakeWord(r, word).remote = word
                                    /\ TakeWord(r, word).local = r.local
                                    /\ TakeWord(r, word).expects = "keyword"
         /\ r.expects = "keyword" /\ word \in {"local", "remote"}
              => /\ TakeWord(r, word).remote = r.remote
                 /\ TakeWord(r, word).local = r.local
                 /\ TakeWord(r, word).expects = word
         /\ r.expects = "keyword" /\ word \notin {"local", "remote"} => TakeWord(r, word) = r
<1>1. CASE r.expects = "local"
  BY <1>1 DEF TakeWord, Scan
<1>2. CASE r.expects = "remote"
  BY <1>2 DEF TakeWord, Scan
<1>3. CASE r.expects = "keyword" /\ word \in {"local", "remote"}
  BY <1>3 DEF TakeWord, Scan, Lexemes, RelayArguments
<1>4. CASE r.expects = "keyword" /\ word \notin {"local", "remote"}
  BY <1>4 DEF TakeWord, Scan, Lexemes, RelayArguments
<1> QED BY <1>1, <1>2, <1>3, <1>4

(* Every other number is even.                                             *)
LEMMA Parity ==
  ASSUME NEW k \in Nat
  PROVE  /\ k % 2 = 0 \/ k % 2 = 1
         /\ k % 2 = 0 => (k + 1) % 2 = 1
         /\ k % 2 = 1 => (k + 1) % 2 = 0
         /\ 0 % 2 = 0 /\ 1 % 2 = 1
OBVIOUS

(* A row of `local` and `remote` from word j to word i that begins at j.   *)
Row(w, j, i) == /\ j \in 2 .. i
                /\ \A k \in j .. i : w[k] \in {"local", "remote"}
                /\ j = 2 \/ w[j - 1] \notin {"local", "remote"}

(* It begins at one place.                                                 *)
LEMMA RowUnique ==
  ASSUME NEW w, NEW i \in Nat, NEW j, NEW m, Row(w, j, i), Row(w, m, i)
  PROVE  j = m
<1>1. ASSUME NEW x, NEW y, Row(w, x, i), Row(w, y, i)
      PROVE  ~ (x < y)
  <2> SUFFICES ASSUME x < y
               PROVE  FALSE
    OBVIOUS
  <2>1. x \in 2 .. i /\ y \in 2 .. i
    BY <1>1 DEF Row
  <2>2. y # 2 /\ y - 1 \in x .. i
    BY <2>1
  <2> QED BY <1>1, <2>2 DEF Row
<1>2. j \in 2 .. i /\ m \in 2 .. i
  BY DEF Row
<1>3. ~ (j < m) /\ ~ (m < j)
  BY <1>1
<1> QED BY <1>2, <1>3

(* Every such word is in a row.                                            *)
LEMMA RowExists ==
  ASSUME NEW w, NEW i \in Nat, i >= 2, w[i] \in {"local", "remote"}
  PROVE  \E j : Row(w, j, i)
<1> DEFINE T == {j \in 2 .. i : \A k \in j .. i : w[k] \in {"local", "remote"}}
<1>1. i \in T /\ T \subseteq Nat
  OBVIOUS
<1>2. PICK j \in T : \A k \in T : j <= k
  BY <1>1, Least
<1>3. j \in 2 .. i /\ \A k \in j .. i : w[k] \in {"local", "remote"}
  BY <1>2
<1>4. ASSUME j # 2
      PROVE  w[j - 1] \notin {"local", "remote"}
  <2> SUFFICES ASSUME w[j - 1] \in {"local", "remote"}
               PROVE  FALSE
    OBVIOUS
  <2>1. j - 1 \in 2 .. i /\ ~ (j <= j - 1)
    BY <1>3, <1>4
  <2>2. \A k \in j - 1 .. i : k = j - 1 \/ k \in j .. i
    BY <1>3
  <2>3. j - 1 \in T
    BY <1>3, <2>1, <2>2
  <2> QED BY <1>2, <2>1, <2>3
<1> QED BY <1>3, <1>4 DEF Row

(* It is a keyword exactly if the word before it is none.                  *)
LEMMA KeywordNext ==
  ASSUME NEW w, NEW i \in Nat, i >= 2
  PROVE  KeywordAt(w, i) <=> w[i] \in {"local", "remote"} /\ ~KeywordAt(w, i - 1)
<1>1. /\ KeywordAt(w, i) <=> \E j : Row(w, j, i) /\ (i - j) % 2 = 0
      /\ KeywordAt(w, i - 1) <=> \E j : Row(w, j, i - 1) /\ (i - 1 - j) % 2 = 0
  BY DEF KeywordAt, Row
<1>2. ASSUME NEW j, Row(w, j, i - 1)
      PROVE  j \in 2 .. i - 1 /\ (w[i] \in {"local", "remote"} => Row(w, j, i))
  <2>1. j \in 2 .. i - 1 /\ j \in 2 .. i /\ \A k \in j .. i : k = i \/ k \in j .. i - 1
    BY <1>2 DEF Row
  <2> QED BY <1>2, <2>1 DEF Row
<1>3. ASSUME NEW j, Row(w, j, i)
      PROVE  w[i] \in {"local", "remote"} /\ (j # i => Row(w, j, i - 1))
  <2>1. j \in 2 .. i /\ i \in j .. i
    BY <1>3 DEF Row
  <2>2. j # i => j \in 2 .. i - 1 /\ \A k \in j .. i - 1 : k \in j .. i
    BY <2>1
  <2> QED BY <1>3, <2>1, <2>2 DEF Row
<1>4. ASSUME NEW j \in 2 .. i - 1
      PROVE  (i - j) % 2 = 0 <=> (i - 1 - j) % 2 # 0
  <2> DEFINE d == i - 1 - j
  <2>1. d \in Nat /\ d + 1 = i - j
    BY <1>4
  <2> HIDE DEF d
  <2>2. (d + 1) % 2 = 0 <=> d % 2 # 0
    BY <2>1, Parity
  <2> QED BY <2>1, <2>2 DEF d
<1>5. ASSUME KeywordAt(w, i), KeywordAt(w, i - 1)
      PROVE  FALSE
  <2>1. PICK j : Row(w, j, i) /\ (i - j) % 2 = 0
    BY <1>1, <1>5
  <2>2. PICK m : Row(w, m, i - 1) /\ (i - 1 - m) % 2 = 0
    BY <1>1, <1>5
  <2>3. Row(w, m, i) /\ m \in 2 .. i - 1
    BY <1>2, <1>3, <2>1, <2>2
  <2>4. j = m
    BY <2>1, <2>3, RowUnique
  <2> QED BY <1>4, <2>1, <2>2, <2>3, <2>4
<1>6. ASSUME w[i] \in {"local", "remote"}, ~KeywordAt(w, i - 1)
      PROVE  KeywordAt(w, i)
  <2>1. PICK j : Row(w, j, i)
    BY <1>6, RowExists
  <2>2. CASE j = i
    <3>1. i - j = 0 /\ (i - j) % 2 = 0
      BY <2>2, Parity
    <3> QED BY <1>1, <2>1, <3>1
  <2>3. CASE j # i
    <3>1. Row(w, j, i - 1) /\ j \in 2 .. i - 1
      BY <1>2, <1>3, <2>1, <2>3
    <3>2. (i - 1 - j) % 2 # 0
      BY <1>1, <1>6, <3>1
    <3> QED BY <1>1, <1>4, <2>1, <3>1, <3>2
  <2> QED BY <2>2, <2>3
<1>7. KeywordAt(w, i) => w[i] \in {"local", "remote"}
  BY <1>1, <1>3
<1> QED BY <1>5, <1>6, <1>7

(* The address the first k words of a relay line, not counting `relay`,    *)
(* give for a key.                                                         *)
Keys(w, key, k) == {i \in 2 .. k : w[i] = key /\ KeywordAt(w, i)}

AddressUpTo(w, key, k) == IF Keys(w, key, k) = {} THEN NoAddr ELSE w[Max(Keys(w, key, k)) + 1]

(* `relay` itself is no keyword of the address pair.                       *)
LEMMA FirstIsNone == \A w : ~KeywordAt(w, 1)
BY DEF KeywordAt

(* The last word counts: one more position either is a keyword of this     *)
(* kind or changes nothing.                                                *)
LEMMA NextAddress ==
  ASSUME NEW w, NEW key, NEW k \in Nat \ {0}
  PROVE  AddressUpTo(w, key, k) = IF KeywordAt(w, k) /\ w[k] = key THEN w[k + 1]
                                  ELSE AddressUpTo(w, key, k - 1)
<1>1. CASE KeywordAt(w, k) /\ w[k] = key
  <2>1. k # 1
    BY <1>1, FirstIsNone
  <2>2. k \in Keys(w, key, k) /\ Keys(w, key, k) \subseteq Nat /\ \A y \in Keys(w, key, k) : y <= k
    BY <1>1, <2>1 DEF Keys
  <2>3. Max(Keys(w, key, k)) = k
    BY <2>2, MaxIs
  <2> QED BY <1>1, <2>2, <2>3 DEF AddressUpTo
<1>2. CASE ~ (KeywordAt(w, k) /\ w[k] = key)
  <2>1. \A i : i \in 2 .. k <=> i \in 2 .. k - 1 \/ (i = k /\ k # 1)
    OBVIOUS
  <2>2. Keys(w, key, k) = Keys(w, key, k - 1)
    BY <1>2, <2>1 DEF Keys
  <2> QED BY <1>2, <2>2 DEF AddressUpTo
<1> QED BY <1>1, <1>2

(* A relay line gives the addresses that are written in it.                *)
LEMMA RelayAsWritten ==
  ASSUME NEW S, NEW w \in Seq(S), w # <<>>
  PROVE  RelayOf(Tail(w)) = [local |-> AddressIn(w, "local"), remote |-> AddressIn(w, "remote")]
<1> DEFINE args == Tail(w)
           n == Len(w) - 1
<1>1. /\ args \in Seq(S) /\ Len(w) \in Nat /\ n \in Nat /\ Len(args) = n
      /\ \A k \in 1 .. n : args[k] = w[k + 1] /\ args[k] \in S
  <2>1. args \in Seq(S) /\ Len(args) = Len(w) - 1 /\ Len(w) \in Nat /\ Len(w) # 0
    BY HeadTailProperties, EmptySeq, LenProperties
  <2>2. \A k \in 1 .. Len(args) : args[k] = w[k + 1]
    BY HeadTailProperties
  <2>3. \A k \in 1 .. Len(args) : args[k] \in S
    BY <2>1, ElementOfSeq
  <2> QED BY <2>1, <2>2, <2>3
<1>2. AddressIn(w, "local") = AddressUpTo(w, "local", n)
      /\ AddressIn(w, "remote") = AddressUpTo(w, "remote", n)
  BY DEF AddressIn, AddressUpTo, Keys
<1> HIDE DEF args, n
<1>3. PICK g : /\ g[0] = NoRelay
               /\ \A k \in 1 .. n : g[k] = TakeWord(g[k - 1], args[k])
               /\ \A k \in 0 .. n : g[k] \in Scan(S)
               /\ FoldLeft(TakeWord, NoRelay, args) = g[n]
  <2>1. PICK g : /\ g[0] = NoRelay
                 /\ \A k \in 1 .. Len(args) : g[k] = TakeWord(g[k - 1], args[k])
                 /\ \A k \in 0 .. Len(args) : g[k] \in Scan(S)
                 /\ FoldLeft(TakeWord, NoRelay, args) = g[Len(args)]
    BY <1>1, Scanned
  <2> QED BY <1>1, <2>1
<1> DEFINE P(k) == /\ g[k].local = AddressUpTo(w, "local", k)
                   /\ g[k].remote = AddressUpTo(w, "remote", k)
                   /\ g[k].expects = IF KeywordAt(w, k + 1) THEN w[k + 1] ELSE "keyword"
<1>4. P(0)
  <2>1. Keys(w, "local", 0) = {} /\ Keys(w, "remote", 0) = {}
    BY DEF Keys
  <2>2. ~KeywordAt(w, 0 + 1)
    BY FirstIsNone
  <2> QED BY <1>3, <2>1, <2>2 DEF AddressUpTo, NoRelay
<1>5. ASSUME NEW k \in 1 .. n, P(k - 1)
      PROVE  P(k)
  <2>1. /\ k \in Nat \ {0} /\ k - 1 \in 0 .. n /\ k - 1 + 1 = k
        /\ k + 1 \in Nat /\ k + 1 >= 2 /\ k + 1 - 1 = k
    BY <1>1
  <2>2. PICK r \in Scan(S) : r = g[k - 1]
    BY <1>3, <2>1
  <2>3. PICK word \in S : word = w[k + 1]
    BY <1>1
  <2>4. g[k] = TakeWord(r, word)
    BY <1>1, <1>3, <2>2, <2>3
  <2>5. /\ r.local = AddressUpTo(w, "local", k - 1)
        /\ r.remote = AddressUpTo(w, "remote", k - 1)
        /\ r.expects = IF KeywordAt(w, k) THEN w[k] ELSE "keyword"
    BY <1>5, <2>1, <2>2
  <2>6. KeywordAt(w, k + 1) <=> word \in {"local", "remote"} /\ ~KeywordAt(w, k)
    BY <2>1, <2>3, KeywordNext
  <2>7. \A key : AddressUpTo(w, key, k) = IF KeywordAt(w, k) /\ w[k] = key THEN word
                                          ELSE AddressUpTo(w, key, k - 1)
    BY <2>1, <2>3, NextAddress
  <2>8. CASE KeywordAt(w, k)
    <3>1. w[k] \in {"local", "remote"} /\ r.expects = w[k]
      <4>1. k # 1
        BY <2>8, FirstIsNone
      <4>2. k \in Nat /\ k >= 2
        BY <2>1, <4>1
      <4> QED BY <2>5, <2>8, <4>2, KeywordNext
    <3>2. CASE w[k] = "local"
      <4>1. g[k].local = word /\ g[k].remote = r.remote /\ g[k].expects = "keyword"
        BY <2>4, <3>1, <3>2, TakeWordFields
      <4>2. AddressUpTo(w, "local", k) = word
        BY <2>7, <2>8, <3>2
      <4>3. AddressUpTo(w, "remote", k) = AddressUpTo(w, "remote", k - 1)
        BY <2>7, <3>2
      <4> QED BY <2>5, <2>6, <2>8, <4>1, <4>2, <4>3
    <3>3. CASE w[k] = "remote"
      <4>1. g[k].remote = word /\ g[k].local = r.local /\ g[k].expects = "keyword"
        BY <2>4, <3>1, <3>3, TakeWordFields
      <4>2. AddressUpTo(w, "remote", k) = word
        BY <2>7, <2>8, <3>3
      <4>3. AddressUpTo(w, "local", k) = AddressUpTo(w, "local", k - 1)
        BY <2>7, <3>3
      <4> QED BY <2>5, <2>6, <2>8, <4>1, <4>2, <4>3
    <3> QED BY <3>1, <3>2, <3>3
  <2>9. CASE ~KeywordAt(w, k)
    <3>1. r.expects = "keyword"
      BY <2>5, <2>9
    <3>2. \A key : AddressUpTo(w, key, k) = AddressUpTo(w, key, k - 1)
      BY <2>7, <2>9
    <3>3. CASE word \in {"local", "remote"}
      <4>1. g[k].local = r.local /\ g[k].remote = r.remote /\ g[k].expects = word
        BY <2>4, <3>1, <3>3, TakeWordFields
      <4> QED BY <2>3, <2>5, <2>6, <2>9, <3>2, <3>3, <4>1
    <3>4. CASE word \notin {"local", "remote"}
      <4>1. g[k] = r
        BY <2>4, <3>1, <3>4, TakeWordFields
      <4> QED BY <2>5, <2>6, <3>1, <3>2, <3>4, <4>1
    <3> QED BY <3>3, <3>4
  <2> QED BY <2>8, <2>9
<1> HIDE DEF P
<1>6. P(n)
  <2> DEFINE T == {k \in 0 .. n : ~P(k)}
  <2> SUFFICES ASSUME T # {}
               PROVE  FALSE
    BY <1>1
  <2>1. T \subseteq Nat
    OBVIOUS
  <2>2. PICK k \in T : \A j \in T : k <= j
    BY <2>1, Least
  <2>3. k # 0
    BY <1>4
  <2>4. k \in 1 .. n /\ k - 1 \in 0 .. n /\ ~ (k <= k - 1)
    BY <1>1, <2>3
  <2>5. P(k - 1)
    BY <2>2, <2>4
  <2> QED BY <1>5, <2>4, <2>5
<1> QED BY <1>2, <1>3, <1>6 DEF P, RelayOf, args

(* One more line.                                                          *)
LEMMA OneMoreLine ==
  ASSUME NEW ls \in Seq(Lines), NEW line \in Lines
  PROVE  /\ Len(ls) \in Nat /\ DOMAIN ls = 1 .. Len(ls)
         /\ DOMAIN Append(ls, line) = 1 .. Len(ls) + 1
         /\ Append(ls, line)[Len(ls) + 1] = line
         /\ \A i \in 1 .. Len(ls) : Append(ls, line)[i] = ls[i]
BY AppendProperties, LenProperties

Said(ls, key) == {i \in DOMAIN ls : LET w == Uncommented(ls[i]) IN Len(w) > 1 /\ w[1] = key}

(* Given, in terms of the lines that say something of the key.             *)
LEMMA GivenIs ==
  ASSUME NEW ls, NEW key, NEW default
  PROVE  Given(ls, key, default) = IF Said(ls, key) = {} THEN default
                                   ELSE Uncommented(ls[Max(Said(ls, key))])[2]
BY DEF Given, Said

(* One more line either sets the key or leaves what was given before.      *)
LEMMA GivenOneMore ==
  ASSUME NEW ls \in Seq(Lines), NEW line \in Lines, NEW w, w = Uncommented(line),
         NEW key, NEW default
  PROVE  Given(Append(ls, line), key, default)
           = IF Len(w) > 1 /\ w[1] = key THEN w[2] ELSE Given(ls, key, default)
<1> DEFINE n == Len(ls)
           t == Append(ls, line)
<1>1. /\ n \in Nat /\ DOMAIN ls = 1 .. n /\ DOMAIN t = 1 .. n + 1 /\ t[n + 1] = line
      /\ \A i \in 1 .. n : t[i] = ls[i]
  BY OneMoreLine
<1> HIDE DEF n, t
<1>2. Said(ls, key) \subseteq 1 .. n /\ Said(t, key) \subseteq Nat
  BY <1>1 DEF Said
<1>3. CASE Len(w) > 1 /\ w[1] = key
  <2>1. n + 1 \in Said(t, key) /\ \A y \in Said(t, key) : y <= n + 1
    BY <1>1, <1>3 DEF Said
  <2>2. Max(Said(t, key)) = n + 1
    BY <1>2, <2>1, MaxIs
  <2> QED BY <1>1, <1>3, <2>1, <2>2, GivenIs DEF t
<1>4. CASE ~ (Len(w) > 1 /\ w[1] = key)
  <2>1. \A i : i \in 1 .. n + 1 <=> i \in 1 .. n \/ i = n + 1
    BY <1>1
  <2>2. Said(t, key) = Said(ls, key)
    BY <1>1, <1>4, <2>1 DEF Said
  <2>3. CASE Said(ls, key) = {}
    BY <1>4, <2>2, <2>3, GivenIs DEF t
  <2>4. CASE Said(ls, key) # {}
    <3>1. Max(Said(ls, key)) \in 1 .. n
      BY <1>1, <1>2, <2>4, Greatest
    <3>2. t[Max(Said(ls, key))] = ls[Max(Said(ls, key))]
      BY <1>1, <3>1
    <3>3. Given(t, key, default) = Given(ls, key, default)
      BY <2>2, <3>2, GivenIs
    <3> QED BY <1>4, <3>3 DEF t
  <2> QED BY <2>3, <2>4
<1> QED BY <1>3, <1>4

(* One more line is kept exactly if it is a complete relay line.           *)
LEMMA KeptOneMore ==
  ASSUME NEW ls \in Seq(Lines), NEW line \in Lines, NEW w, w = Uncommented(line),
         NEW n, n = Len(ls), NEW t, t = Append(ls, line)
  PROVE  /\ \A i \in RelayLines(ls) : i \in 1 .. n /\ i \in RelayLines(t)
         /\ IsRelayLine(w) => n + 1 \in RelayLines(t)
         /\ Kept(t) = IF IsRelayLine(w) /\ Complete(Written(line))
                      THEN Kept(ls) \cup {n + 1} ELSE Kept(ls)
         /\ Kept(ls) \subseteq RelayLines(ls)
<1>1. /\ n \in Nat /\ DOMAIN ls = 1 .. n /\ DOMAIN t = 1 .. n + 1 /\ t[n + 1] = line
      /\ \A i \in 1 .. n : t[i] = ls[i]
  BY OneMoreLine
<1>2. \A i : i \in 1 .. n + 1 <=> i \in 1 .. n \/ i = n + 1
  BY <1>1
<1>3. RelayLines(t) = IF IsRelayLine(w) THEN RelayLines(ls) \cup {n + 1} ELSE RelayLines(ls)
  BY <1>1, <1>2 DEF RelayLines, IsRelayLine
<1>4. RelayLines(ls) \subseteq 1 .. n
  BY <1>1 DEF RelayLines
<1>5. \A i \in RelayLines(ls) : t[i] = ls[i]
  BY <1>1, <1>4
<1>6. Kept(t) = IF IsRelayLine(w) /\ Complete(Written(line))
                THEN Kept(ls) \cup {n + 1} ELSE Kept(ls)
  <2>1. CASE IsRelayLine(w)
    BY <1>1, <1>3, <1>5, <2>1 DEF Kept
  <2>2. CASE ~IsRelayLine(w)
    BY <1>3, <1>5, <2>2 DEF Kept
  <2> QED BY <2>1, <2>2
<1>7. Kept(ls) \subseteq RelayLines(ls)
  BY DEF Kept
<1> QED BY <1>3, <1>4, <1>6, <1>7

(* Each relay stands in the place of its line among the complete ones.     *)
InOrder(rs, ls) ==
  /\ Len(rs) = Cardinality(Kept(ls))
  /\ \A i \in Kept(ls) : rs[Cardinality({j \in Kept(ls) : j <= i})] = Written(ls[i])

(* parse_config() appends the relay of a kept line: the relays stay in     *)
(* the order of their lines.                                               *)
LEMMA InOrderOneMore ==
  ASSUME NEW ls \in Seq(Lines), NEW line \in Lines, NEW c \in Configs,
         InOrder(c.relays, ls)
  PROVE  InOrder(AfterLine(c, line).relays, Append(ls, line))
<1>w. PICK w \in Seq(Words) : w = Uncommented(line)
  BY UncommentedType
<1>n. PICK n \in Nat : n = Len(ls)
  BY OneMoreLine
<1>t. PICK t : t = Append(ls, line)
  OBVIOUS
<1> DEFINE K == Kept(ls)
           rs == c.relays
<1>1. /\ DOMAIN ls = 1 .. n /\ DOMAIN t = 1 .. n + 1 /\ t[n + 1] = line
      /\ \A i \in 1 .. n : t[i] = ls[i]
  BY <1>n, <1>t, OneMoreLine
<1>2. /\ \A i \in RelayLines(ls) : i \in 1 .. n /\ i \in RelayLines(t)
      /\ IsRelayLine(w) => n + 1 \in RelayLines(t)
      /\ Kept(t) = IF IsRelayLine(w) /\ Complete(Written(line)) THEN K \cup {n + 1} ELSE K
      /\ K \subseteq RelayLines(ls)
  BY <1>w, <1>n, <1>t, KeptOneMore
<1>3. rs \in Seq(Relays) /\ Len(rs) \in Nat
  BY LenProperties DEF Configs
<1>4. InOrder(rs, ls)
  OBVIOUS
<1>5. /\ IsFiniteSet(K) /\ Cardinality(K) \in Nat /\ Len(rs) = Cardinality(K)
      /\ \A i \in K : i \in 1 .. n /\ t[i] = ls[i]
  <2>1. K \subseteq 1 .. n
    BY <1>2
  <2>2. IsFiniteSet(1 .. n)
    BY FS_Interval
  <2>3. IsFiniteSet(K)
    BY <2>1, <2>2, FS_Subset
  <2> QED BY <1>1, <1>4, <2>1, <2>3, FS_CardinalityType DEF InOrder
<1>6. CASE IsRelayLine(w) /\ Complete(RelayOf(Tail(w)))
  <2> DEFINE r == RelayOf(Tail(w))
             us == Append(rs, r)
  <2>1. r = Written(line)
    <3>1. w # <<>>
      BY <1>6 DEF IsRelayLine
    <3> QED BY <1>w, <3>1, RelayAsWritten DEF Written
  <2>2. Kept(t) = K \cup {n + 1}
    BY <1>2, <1>6, <2>1
  <2>3. AfterLine(c, line).relays = us
    BY <1>6, <1>w, AfterLineFields
  <2>4. r \in Relays
    <3>1. w # <<>>
      BY <1>6 DEF IsRelayLine
    <3>2. Tail(w) \in Seq(Words)
      BY <3>1, HeadTailProperties
    <3>3. r \in [local : Words \cup {NoAddr}, remote : Words \cup {NoAddr}]
      BY <3>2, RelayOfType
    <3> QED BY <1>6, <3>3 DEF Complete, Relays
  <2>5. /\ Len(us) = Len(rs) + 1 /\ us[Len(rs) + 1] = r
        /\ \A i \in 1 .. Len(rs) : us[i] = rs[i]
    BY <1>3, <2>4, AppendProperties
  <2>6. n + 1 \notin K
    BY <1>5
  <2>7. Cardinality(Kept(t)) = Cardinality(K) + 1
    BY <1>5, <2>2, <2>6, FS_AddElement
  <2> HIDE DEF K, rs, r, us
  <2>8. ASSUME NEW i \in Kept(t)
        PROVE  us[Cardinality({j \in Kept(t) : j <= i})] = Written(t[i])
    <3>1. CASE i = n + 1
      <4>1. {j \in Kept(t) : j <= i} = Kept(t)
        BY <1>5, <2>2, <3>1
      <4>2. t[i] = line
        BY <1>1, <3>1
      <4> QED BY <1>5, <2>1, <2>5, <2>7, <4>1, <4>2
    <3>2. CASE i # n + 1
      <4>1. i \in K /\ i \in 1 .. n /\ t[i] = ls[i]
        BY <1>5, <2>2, <2>8, <3>2
      <4> DEFINE B == {j \in K : j <= i}
      <4>2. {j \in Kept(t) : j <= i} = B
        BY <1>5, <2>2, <4>1
      <4>3. IsFiniteSet(B) /\ Cardinality(B) <= Cardinality(K) /\ i \in B
        BY <1>5, <4>1, FS_Subset
      <4>4. Cardinality(B) \in Nat /\ Cardinality(B) # 0
        BY <4>3, FS_CardinalityType, FS_EmptySet
      <4>5. rs[Cardinality(B)] = Written(ls[i])
        BY <1>4, <4>1 DEF InOrder, K
      <4> HIDE DEF B
      <4>6. Cardinality(B) \in 1 .. Len(rs)
        BY <1>5, <4>3, <4>4
      <4> QED BY <2>5, <4>1, <4>2, <4>5, <4>6
    <3> QED BY <3>1, <3>2
  <2>9. Len(us) = Cardinality(Kept(t))
    BY <1>5, <2>5, <2>7
  <2> QED BY <1>t, <2>3, <2>8, <2>9 DEF InOrder
<1>7. CASE ~ (IsRelayLine(w) /\ Complete(RelayOf(Tail(w))))
  <2>1. AfterLine(c, line).relays = rs
    BY <1>7, <1>w, AfterLineFields
  <2>2. Kept(t) = K
    <3>1. CASE IsRelayLine(w)
      <4>1. w # <<>>
        BY <3>1 DEF IsRelayLine
      <4>2. RelayOf(Tail(w)) = Written(line)
        BY <1>w, <4>1, RelayAsWritten DEF Written
      <4> QED BY <1>2, <1>7, <4>2
    <3>2. CASE ~IsRelayLine(w)
      BY <1>2, <3>2
    <3> QED BY <3>1, <3>2
  <2> QED BY <1>4, <1>5, <1>t, <2>1, <2>2 DEF InOrder
<1> QED BY <1>6, <1>7

TrackOf(word) == IF word = NoAddr THEN DefTrack ELSE StrToL(word)

(* ConfigAsWritten with its parts under a name.                            *)
LEMMA AsWrittenIs ==
  ConfigAsWritten <=> /\ conf.local = Given(lines, "listen", NoAddr)
                      /\ conf.remote = Given(lines, "forward", NoAddr)
                      /\ conf.track = TrackOf(Given(lines, "track", NoAddr))
                      /\ InOrder(conf.relays, lines)
BY DEF ConfigAsWritten, InOrder, TrackOf

(* One line keeps it.                                                      *)
LEMMA ReadLineAsWritten ==
  ASSUME Typed, ConfigAsWritten, NEW line \in Lines, ReadLine(line)
  PROVE  ConfigAsWritten'
<1>1. /\ conf \in Configs /\ lines \in Seq(Lines)
      /\ conf' = AfterLine(conf, line) /\ lines' = Append(lines, line)
  BY DEF Typed, ReadLine
<1>2. PICK w : w = Uncommented(line)
  OBVIOUS
<1>3. conf'.local = Given(lines', "listen", NoAddr)
  <2>1. conf'.local = IF Len(w) > 1 /\ w[1] = "listen" THEN w[2] ELSE conf.local
    BY <1>1, <1>2, AfterLineFields
  <2>2. Given(lines', "listen", NoAddr)
          = IF Len(w) > 1 /\ w[1] = "listen" THEN w[2] ELSE Given(lines, "listen", NoAddr)
    BY <1>1, <1>2, GivenOneMore
  <2> QED BY <2>1, <2>2, AsWrittenIs
<1>4. conf'.remote = Given(lines', "forward", NoAddr)
  <2>1. conf'.remote = IF Len(w) > 1 /\ w[1] = "forward" THEN w[2] ELSE conf.remote
    BY <1>1, <1>2, AfterLineFields
  <2>2. Given(lines', "forward", NoAddr)
          = IF Len(w) > 1 /\ w[1] = "forward" THEN w[2] ELSE Given(lines, "forward", NoAddr)
    BY <1>1, <1>2, GivenOneMore
  <2> QED BY <2>1, <2>2, AsWrittenIs
<1>5. conf'.track = TrackOf(Given(lines', "track", NoAddr))
  <2>1. conf'.track = IF Len(w) > 1 /\ w[1] = "track" THEN StrToL(w[2]) ELSE conf.track
    BY <1>1, <1>2, AfterLineFields
  <2>2. Given(lines', "track", NoAddr)
          = IF Len(w) > 1 /\ w[1] = "track" THEN w[2] ELSE Given(lines, "track", NoAddr)
    BY <1>1, <1>2, GivenOneMore
  <2>3. Len(w) > 1 => w[2] # NoAddr
    <3>1. w \in Seq(Words) /\ Len(w) \in Nat
      BY <1>2, UncommentedType, LenProperties
    <3>2. Len(w) > 1 => w[2] \in Words
      BY <3>1, ElementOfSeq
    <3>3. NoAddr \notin Words
      BY LinesAssumption DEF Words
    <3> QED BY <3>2, <3>3
  <2> QED BY <2>1, <2>2, <2>3, AsWrittenIs DEF TrackOf
<1>6. InOrder(conf'.relays, lines')
  BY <1>1, InOrderOneMore, AsWrittenIs
<1> QED BY <1>3, <1>4, <1>5, <1>6 DEF ConfigAsWritten, InOrder, TrackOf

(* An empty file says nothing.                                             *)
LEMMA InitAsWritten == Init => ConfigAsWritten
<1> SUFFICES ASSUME Init
             PROVE  ConfigAsWritten
  OBVIOUS
<1>1. /\ lines = <<>> /\ conf.local = NoAddr /\ conf.remote = NoAddr /\ conf.relays = <<>>
      /\ conf.track = DefTrack
      /\ DOMAIN lines = {}
  BY DEF Init, EmptyConfig
<1>2. \A key : Said(lines, key) = {}
  BY <1>1 DEF Said
<1>3. \A key : Given(lines, key, NoAddr) = NoAddr
  BY <1>2, GivenIs
<1>4. Kept(lines) = {}
  BY <1>1 DEF Kept, RelayLines
<1>5. Cardinality({}) = 0
  BY FS_EmptySet
<1> QED BY <1>1, <1>3, <1>4, <1>5 DEF ConfigAsWritten

(* Nothing but reading a line touches the configuration.                   *)
LEMMA MainNextAsWritten ==
  MainInv /\ ConfigAsWritten /\ [MainNext]_<<vars, mainVars>> => ConfigAsWritten'
<1> SUFFICES ASSUME MainInv, ConfigAsWritten, [MainNext]_<<vars, mainVars>>
             PROVE  ConfigAsWritten'
  OBVIOUS
<1>1. ASSUME UNCHANGED <<lines, conf>>
      PROVE  ConfigAsWritten'
  BY <1>1 DEF ConfigAsWritten
<1>2. CASE Initialise
  <2>1. CASE \E line \in Lines : ReadLine(line)
    BY <2>1, ReadLineAsWritten DEF MainInv, IInv
  <2>2. CASE ~ \E line \in Lines : ReadLine(line)
    <3>1. UNCHANGED <<lines, conf>>
      BY <1>2, <2>2 DEF Initialise, Next, EndOfFile, GiveUp, CheckPort, Resolve, ResolveError,
            SkipAddress, SetOptionError, TakeAddress, NoAddressLeft, RemoteError, Finish
    <3> QED BY <1>1, <3>1
  <2> QED BY <2>1, <2>2
<1>3. CASE ~Initialise
  <2>1. UNCHANGED vars
    BY <1>3 DEF MainNext, Options, InitFails, StayInForeground, Fork, OpenPidFile, WritePidFile,
          ParentExits, Detach, InstallHandlers, Kill, KillParent
  <2> QED BY <1>1, <2>1 DEF vars
<1> QED BY <1>2, <1>3

-----------------------------------------------------------------------------
(* The theorems.                                                           *)

(* The inductive invariant holds.                                          *)
THEOREM Invariance == MainSpec => []MainInv
<1>1. MainInit => MainInv
  BY MainInitHolds
<1>2. MainInv /\ [MainNext]_<<vars, mainVars>> => MainInv'
  BY MainNextKeeps
<1> QED BY <1>1, <1>2, PTL DEF MainSpec

(* Every variable of udprelay_init(), main() and the two processes has its *)
(* type.                                                                   *)
THEOREM TypeCorrect == MainSpec => []MainTypeOK
<1>1. MainInv => MainTypeOK
  BY MainInvImplies
<1> QED BY <1>1, Invariance, PTL

(* Wherever new_relay() gives up, for whichever interface, no socket stays *)
(* open; before, each one belongs to one interface or is the one in hand,  *)
(* and no descriptor is used twice.                                        *)
THEOREM SocketsAccounted == MainSpec => []ResourcesAccounted
<1>1. MainInv => ResourcesAccounted
  BY MainInvImplies
<1> QED BY <1>1, Invariance, PTL

(* Once udprelay_init() is done there is one interface for the outward side*)
(* and one for each relay line, and exactly the ones without a remote      *)
(* address, never a relay, learn it from what they receive.                *)
THEOREM InterfacesMade == MainSpec => []InterfacesAsConfigured
<1>1. MainInv => InterfacesAsConfigured
  BY MainInvImplies
<1> QED BY <1>1, Invariance, PTL

(* Whatever the order in which xdaemon()'s parent and child take their     *)
(* turns, and wherever a signal ends either of them, what the caller is    *)
(* told means what StatusTellsOutcome says: a failure leaves it open       *)
(* whether there is a daemon only if it was the parent that was killed.    *)
THEOREM StatusTrusted == MainSpec => []StatusTellsOutcome
<1>1. MainInv => StatusTellsOutcome
  BY MainInvImplies
<1> QED BY <1>1, Invariance, PTL

(* xdaemon() neither loses a socket nor leaves a descriptor behind when    *)
(* the program is started with all standard descriptors open.              *)
THEOREM SocketsKept == MainSpec => []DetachKeepsSockets
<1>1. MainInv => DetachKeepsSockets
  BY MainInvImplies
<1> QED BY <1>1, Invariance, PTL

(* parse_config() makes of any file what its lines say: of several lines   *)
(* for one address the last counts, and the relays are those of the        *)
(* complete relay lines, in their order.                                   *)
THEOREM ConfigParsed == MainSpec => []ConfigAsWritten
<1>1. MainInit => ConfigAsWritten
  BY InitAsWritten DEF MainInit
<1>2. MainInv /\ ConfigAsWritten /\ [MainNext]_<<vars, mainVars>> => ConfigAsWritten'
  BY MainNextAsWritten
<1> QED BY <1>1, <1>2, Invariance, PTL DEF MainSpec
=============================================================================
