-------------------------------- MODULE Config --------------------------------
(***************************************************************************)
(* parse_config() of config.c, line by line.  A line is the sequence of    *)
(* its words; "#" stands for the character that starts a comment.          *)
(* Addresses are words that only new_relay() looks into.                   *)
(***************************************************************************)
EXTENDS Integers, Sequences, SequencesExt

CONSTANTS Numbers,  \* what strtol() makes of the words that begin like a number
          NoAddr    \* an address that was not given, a NULL pointer

ASSUME NumbersAssumption == \A word \in DOMAIN Numbers : Numbers[word] \in Int

DefTrack == 1024    \* DEF_TRACK

EmptyConfig == [local |-> NoAddr, remote |-> NoAddr, relays |-> <<>>, track |-> DefTrack]

(* The words str_index() knows; an option is looked up by the whole word.   *)
Lexemes == {"listen", "forward", "relay", "local", "remote", "track"}

RelayArguments == {"local", "remote"}

(* The part of a line before the comment.                                  *)
Uncommented(line) ==
  LET k == SelectInSeq(line, LAMBDA w : w = "#")
  IN  IF k = 0 THEN line ELSE SubSeq(line, 1, k - 1)

(* strtol() without a look at where it stopped: 0 for what is no number.   *)
StrToL(word) == IF word \in DOMAIN Numbers THEN Numbers[word] ELSE 0

(* The arguments of a relay line, one word after the other: a word is      *)
(* taken as an address after `local` or `remote`, whatever it is, the last *)
(* address wins, and words that fit nowhere are skipped.                   *)
NoRelay == [local |-> NoAddr, remote |-> NoAddr, expects |-> "keyword"]

TakeWord(r, word) ==
  CASE r.expects = "local"  -> [r EXCEPT !.local = word, !.expects = "keyword"]
    [] r.expects = "remote" -> [r EXCEPT !.remote = word, !.expects = "keyword"]
    [] r.expects = "keyword" /\ word \in Lexemes \cap RelayArguments -> [r EXCEPT !.expects = word]
    [] OTHER -> r

RelayOf(args) == LET r == FoldLeft(TakeWord, NoRelay, args)
                 IN  [local |-> r.local, remote |-> r.remote]

(* Mutant of Complete: one address is enough.                              *)
CompleteWithOne(r) == r.local # NoAddr \/ r.remote # NoAddr

(* A relay is only used when both of its addresses are there.              *)
Complete(r) == r.local # NoAddr /\ r.remote # NoAddr

(* Mutant of AfterLine: the first address that is given counts.            *)
AfterLineFirstWins(conf, line) ==
  LET words == Uncommented(line)
      arg   == words[2]
      relay == RelayOf(Tail(words))
  IN  CASE words = <<>> -> conf
        [] words # <<>> /\ Head(words) \notin Lexemes \ RelayArguments -> conf
        [] words # <<>> /\ Head(words) = "relay" ->
             IF Complete(relay) THEN [conf EXCEPT !.relays = Append(@, relay)] ELSE conf
        [] Len(words) > 1 /\ Head(words) = "listen"  ->
             IF conf.local = NoAddr THEN [conf EXCEPT !.local = arg] ELSE conf
        [] Len(words) > 1 /\ Head(words) = "forward" -> [conf EXCEPT !.remote = arg]
        [] Len(words) > 1 /\ Head(words) = "track"   -> [conf EXCEPT !.track = StrToL(arg)]
        [] OTHER -> conf

(* One round of the loop over the lines.  A line with an unknown first     *)
(* word, or without the argument its first word needs, changes nothing.    *)
AfterLine(conf, line) ==
  LET words == Uncommented(line)
      arg   == words[2]
      relay == RelayOf(Tail(words))
  IN  CASE words = <<>> -> conf
        [] words # <<>> /\ Head(words) \notin Lexemes \ RelayArguments -> conf
        [] words # <<>> /\ Head(words) = "relay" ->
             IF Complete(relay) THEN [conf EXCEPT !.relays = Append(@, relay)] ELSE conf
        [] Len(words) > 1 /\ Head(words) = "listen"  -> [conf EXCEPT !.local = arg]
        [] Len(words) > 1 /\ Head(words) = "forward" -> [conf EXCEPT !.remote = arg]
        [] Len(words) > 1 /\ Head(words) = "track"   -> [conf EXCEPT !.track = StrToL(arg)]
        [] OTHER -> conf

(* What parse_config() does not reject when the file ends.                 *)
Accepted(conf) == /\ conf.local # NoAddr \/ conf.remote # NoAddr
                  /\ conf.relays # <<>>
=============================================================================
