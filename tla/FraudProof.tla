------------------------------ MODULE FraudProof ------------------------------
(***************************************************************************)
(* The cut-and-choose search of chain_selector_ctx.rs: peers that disagree *)
(* about the accumulator of the best block are asked for older ones, until *)
(* the last height they agree on is found; the next block then shows who   *)
(* lies.  A liar tells the truth below height lie[p] and a story of its    *)
(* own from there on; a mute peer never answers.  What a peer says is      *)
(* keyed by the block hash of the request, so a hash is its height here.   *)
(***************************************************************************)
EXTENDS Integers, Sequences, FiniteSets, FiniteSetsExt, SequencesExt

CONSTANTS
  Heights,  \* the heights of the best block
  Peers     \* the ids of the peers with UTREEXO_ARCHIVE

VARIABLES best, lie, mute, out

vars == <<best, lie, mute, out>>

NotYet == [res |-> "NotYet", acc |-> <<>>, banned |-> {}]

Acc(p, h) == IF h < lie[p] THEN <<"true", h>> ELSE <<"story", p, h>>
Nothing == <<"none">>

(* grab_both_peers_version: two peers' answers for the block at height h.  *)
Version(p, h) == IF p \in mute THEN Nothing ELSE Acc(p, h)
Same(p1, p2, h) == Version(p1, h) = Version(p2, h)

(* The binary search: halve the step until it is below five.  A height     *)
(* above the best block makes get_block_hash(..).unwrap() panic.           *)
Cut(p1, p2, s) ==
  LET interval == IF s.height > s.prev THEN s.height - s.prev ELSE s.prev - s.height
      next == IF Same(p1, p2, s.height) THEN s.height + interval \div 2
              ELSE s.height - interval \div 2
  IN  CASE s.res # "go" -> s
        [] s.res = "go" /\ interval < 5 -> [s EXCEPT !.res = "landed"]
        [] OTHER -> [height |-> next, prev |-> s.height,
                     res |-> IF next > best THEN "Panic" ELSE "go"]
Rounds == 16   \* bound: enough to halve every height of Heights to below five
Bisect(p1, p2) ==
  FoldSet(LAMBDA i, s : Cut(p1, p2, s), [height |-> best, prev |-> 0, res |-> "go"], 1..Rounds)

(* The linear search.  Its first round asks for the next height with the   *)
(* hash of the old one.  Zero is a height and also means "not found": then *)
(* the height runs below zero.                                             *)
Walk(p1, p2, agree, s) ==
  LET same == Same(p1, p2, s.hash)
      fork == CASE agree /\ ~same -> s.height - 1
                [] ~agree /\ same -> s.height
                [] OTHER -> 0
      next == IF agree THEN s.height + 1 ELSE s.height - 1
  IN  CASE s.res # "go" -> s
        [] s.res = "go" /\ fork # 0 -> [s EXCEPT !.res = "found", !.fork = fork]
        [] OTHER -> [height |-> next, hash |-> next, fork |-> 0,
                     res |-> IF next < 0 \/ next > best THEN "Err" ELSE "go"]
FindFork(p1, p2, from) ==
  LET agree == Same(p1, p2, from)
      start == [height |-> IF agree THEN from + 1 ELSE from - 1, hash |-> from, fork |-> 0,
                res |-> IF ~agree /\ from = 0 THEN "Err" ELSE "go"]
  IN  FoldSet(LAMBDA i, s : Walk(p1, p2, agree, s), start, 1..(best + 2))

(* update_acc with the block and the proof of p: they fit the true         *)
(* accumulator, or p's own story.                                          *)
UpdateAcc(agreed, p, h) ==
  CASE agreed[1] = "true" -> <<"true", h>>
    [] agreed[1] = "story" /\ agreed[2] = p -> <<"story", p, h>>
    [] OTHER -> Nothing

(* Mutant of Verdict: the second peer is not looked at.                    *)
VerdictOnFirst(p1, p2, fork) ==
  LET updated == UpdateAcc(Version(p1, fork), p1, fork + 1)
  IN  CASE fork + 1 > best \/ updated = Nothing -> [res |-> "Err", who |-> {}]
        [] Version(p1, fork + 1) # updated -> [res |-> "OneLying", who |-> {p1}]
        [] OTHER -> [res |-> "OneLying", who |-> {p2}]

(* What the next block shows about two peers that agreed up to fork.       *)
Verdict(p1, p2, fork) ==
  LET agreed == Version(p1, fork)
      updated == UpdateAcc(agreed, p1, fork + 1)
      acc1 == Version(p1, fork + 1)
      acc2 == Version(p2, fork + 1)
  IN  CASE fork + 1 > best \/ updated = Nothing -> [res |-> "Err", who |-> {}]
        [] acc1 # updated /\ acc2 # updated -> [res |-> "BothLying", who |-> {p1, p2}]
        [] acc1 # updated /\ acc2 = updated -> [res |-> "OneLying", who |-> {p1}]
        [] OTHER -> [res |-> "OneLying", who |-> {p2}]

VerdictAt(p1, p2, f) ==
  IF f.res # "found" THEN [res |-> "Err", who |-> {}] ELSE Verdict(p1, p2, f.fork)
VerdictFrom(p1, p2, b) ==
  IF b.res # "landed" THEN [res |-> b.res, who |-> {}]
  ELSE VerdictAt(p1, p2, FindFork(p1, p2, b.height))
find_who_is_lying(p1, p2) ==
  LET silent == {p1, p2} \cap mute
  IN  IF silent # {} THEN [res |-> "Unresponsive", who |-> silent]
      ELSE VerdictFrom(p1, p2, Bisect(p1, p2))

-----------------------------------------------------------------------------
(* find_accumulator_for_block_step: who answered, in the order of the ids. *)
Candidates == SetToSortSeq(Peers \ mute, <)

(* One window of two neighbouring candidates; a liar's accumulator is      *)
(* invalid from then on, and windows with it are skipped.                  *)
Judged(s, v) ==
  LET wrong == IF v.res = "Unresponsive" THEN {} ELSE v.who
  IN  IF v.res \in {"Err", "Panic"} THEN [s EXCEPT !.res = v.res]
      ELSE [s EXCEPT !.banned = @ \cup v.who, !.invalid = @ \cup {Acc(p, best) : p \in wrong}]
Window(s, p1, p2) ==
  IF s.res # "go" \/ {Acc(p1, best), Acc(p2, best)} \cap s.invalid # {} THEN s
  ELSE Judged(s, find_who_is_lying(p1, p2))

Windows(c) ==
  FoldSet(LAMBDA i, t : Window(t, c[i], c[i + 1]),
          [res |-> "go", banned |-> {}, invalid |-> {}], 1..(Len(c) - 1))

(* One accumulator is left over, or assert_eq! panics.                     *)
Outcome(c, s) ==
  LET left == SelectSeq(c, LAMBDA p : Acc(p, best) \notin s.invalid)
  IN  CASE s.res # "go" -> [res |-> s.res, acc |-> <<>>, banned |-> s.banned]
        [] s.res = "go" /\ Len(left) # 1 -> [res |-> "Panic", acc |-> <<>>, banned |-> s.banned]
        [] OTHER -> [res |-> "Found", acc |-> Acc(left[1], best), banned |-> s.banned]

AccumulatorFrom(c) ==
  IF Cardinality({Acc(c[i], best) : i \in DOMAIN c}) = 1
  THEN [res |-> "Found", acc |-> Acc(c[1], best), banned |-> {}]
  ELSE Outcome(c, Windows(c))

find_accumulator_for_block == AccumulatorFrom(Candidates)

-----------------------------------------------------------------------------
Init ==
  /\ best \in Heights /\ lie \in [Peers -> 1..(best + 1)] /\ mute \in SUBSET Peers
  /\ out = NotYet
Search == out = NotYet /\ out' = find_accumulator_for_block /\ UNCHANGED <<best, lie, mute>>
Spec == Init /\ [][Search]_vars

(* "we first narrow down the possible fork point to a couple of blocks":   *)
(* from where the binary search lands, the last height where two peers     *)
(* agree is at most six blocks away (find_who_is_lying).                   *)
LastAgreed(p1, p2) == Min({lie[p1], lie[p2]}) - 1
Narrowed ==
  \A p1, p2 \in Peers : p1 # p2 /\ Acc(p1, best) # Acc(p2, best) /\ {p1, p2} \cap mute = {} =>
    LET b == Bisect(p1, p2) IN
    b.res = "landed" /\ b.height - LastAgreed(p1, p2) \in -6..6

(* At the right fork the next block decides between two peers: exactly     *)
(* those that departed from the truth there are named, also when both did  *)
(* (find_who_is_lying, update_acc).                                        *)
VerdictIsRight ==
  \A p1, p2 \in Peers : p1 # p2 /\ Acc(p1, best) # Acc(p2, best) /\ {p1, p2} \cap mute = {} =>
    Verdict(p1, p2, LastAgreed(p1, p2)).who =
      {p \in {p1, p2} : lie[p] = LastAgreed(p1, p2) + 1}

(* The fork that a finished search used: "at the end, this variable should *)
(* hold the last block where they agreed" (find_who_is_lying).             *)
ForkIsLastAgreed ==
  out # NotYet => \A p1, p2 \in Peers : p1 < p2 /\ Acc(p1, best) # Acc(p2, best) /\ {p1, p2} \cap mute = {} =>
    LET f == FindFork(p1, p2, Bisect(p1, p2).height) IN
    f.res = "found" => f.fork = LastAgreed(p1, p2)
==============================================================================
