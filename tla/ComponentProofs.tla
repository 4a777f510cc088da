--------------------------- MODULE ComponentProofs ---------------------------
(***************************************************************************)
(* Three components that share nothing: what the mempool keeps, for any    *)
(* transactions and blocks; what the header checks guarantee of both       *)
(* branches, for any retarget interval and tolerances; and what the filter *)
(* file keeps through puts and crashes, for any index interval and batch.  *)
(***************************************************************************)
EXTENDS Mempool, HeaderRules, CompactFilters, DataLemmas

USE Zenon

-----------------------------------------------------------------------------
(* The header rules.  What holds of the header at height h of a branch, one  *)
(* predicate for each rule, and a branch all of whose headers keep them.     *)
Start(h) == h - (h % DIFFCHANGE_INTERVAL)
OwnAt(b, h) ==
  net.retargeting /\ h % DIFFCHANGE_INTERVAL = 0 => At(b, h).target = OwnTarget(b, h)
KeptAt(b, h) ==
  h # Start(h) =>
    \/ At(b, h).target = At(b, Start(h)).target
    \/ /\ net.min_difficulty
       /\ At(b, h).target = max_attainable_target
       /\ At(b, h).time > At(b, h - 1).time + 2 * pow_target_spacing
TimelyAt(b, h) ==
  net.bip94 /\ h % DIFFCHANGE_INTERVAL = 0 => At(b, h).time + BIP94_TOLERANCE >= At(b, h - 1).time
IsBranch(b) ==
  /\ \E S : b \in Seq(S)
  /\ Len(b) \in Nat \ {0}
  /\ \A i \in 1..Len(b) : b[i].time \in Int
Lawful(b) ==
  IsBranch(b) /\ \A h \in 1..(Len(b) - 1) : OwnAt(b, h) /\ KeptAt(b, h) /\ TimelyAt(b, h)
HInv == Lawful(main) /\ (alt # <<>> => Lawful(alt))

(* The heights of a period have the same start.                              *)
LEMMA SameStart ==
  ASSUME NEW h \in Nat, NEW m \in Start(h)..h
  PROVE  Start(m) = Start(h)
<1> DEFINE D == DIFFCHANGE_INTERVAL
           r == h % D
<1>1. D \in Nat \ {0}
  BY RulesAssumption DEF RulesAssumption
<1>2. PICK q \in Int : h = (D * q) + r
  BY <1>1, Divided
<1>3. r \in 0..D - 1
  BY <1>1, Divided
<1>4. Start(h) = h - r
  BY DEF Start
<1> HIDE DEF r, D
<1>5. D * q \in Int
  BY <1>1, SMT
<1> DEFINE s == D * q
<1>6. s \in Int /\ h = s + r
  BY <1>2, <1>5
<1> HIDE DEF s
<1>7. Start(h) = s /\ m \in Nat /\ m = s + (m - s) /\ m - s \in 0..D - 1
  <2>1. Start(h) = s
    BY <1>3, <1>4, <1>6, SMT
  <2>2. Start(h) >= 0
    BY <1>1, MultipleBelow, SMT DEF Start, D
  <2> QED BY <1>1, <1>3, <1>6, <2>1, <2>2, SMT
<1>8. ((D * q) + (m - s)) % D = m - s
  BY <1>1, <1>7, RemainderIs DEF s
<1>9. m % D = m - s
  BY <1>7, <1>8 DEF s
<1>10. Start(m) = m - (m - s)
  BY <1>9 DEF Start, D
<1> QED BY <1>6, <1>7, <1>10, SMT

(* A height where a period starts has all of the period before it.           *)
LEMMA PeriodBefore ==
  ASSUME NEW h \in Nat \ {0}
  PROVE  /\ Start(h) \in 0..h
         /\ h % DIFFCHANGE_INTERVAL = 0 <=> h = Start(h)
         /\ h % DIFFCHANGE_INTERVAL = 0 => h - DIFFCHANGE_INTERVAL \in 0..h - 1
<1> DEFINE D == DIFFCHANGE_INTERVAL
<1>1. D \in Nat \ {0}
  BY RulesAssumption DEF RulesAssumption
<1>2. Start(h) \in 0..h
  BY <1>1, MultipleBelow DEF Start
<1>3. h % D = 0 <=> h = Start(h)
  <2>1. h % D \in 0..D - 1
    BY <1>1, Divided
  <2> QED BY <1>1, <2>1, SMT DEF Start
<1>4. ASSUME h % D = 0 PROVE h - D \in 0..h - 1
  <2>1. 0 % D = 0
    BY <1>1, SMT
  <2>2. 0 + D <= h
    BY <1>1, <1>4, <2>1, MultiplesApart, SMT
  <2> QED BY <1>1, <2>2, SMT
<1> QED BY <1>2, <1>3, <1>4

(* The rules at a height only look at the headers up to it.                  *)
SameUpTo(b, c, n) == \A i \in 1..n : b[i] = c[i]
(* A branch that starts with the same headers keeps the rules on them.     *)
LEMMA RulesCarry ==
  ASSUME NEW b, NEW c, NEW n \in Nat, SameUpTo(b, c, n), NEW h \in 1..n - 1,
         OwnAt(b, h), KeptAt(b, h), TimelyAt(b, h)
  PROVE  OwnAt(c, h) /\ KeptAt(c, h) /\ TimelyAt(c, h)
<1>1. h \in Nat \ {0} /\ \A k \in 0..h : k + 1 \in 1..n
  BY SMT
<1>2. \A k \in 0..h : At(b, k) = At(c, k)
  BY <1>1 DEF At, SameUpTo
<1>3. h \in 0..h /\ h - 1 \in 0..h /\ \A k \in 0..h - 1 : k \in 0..h
  BY SMT
<1>4. At(b, h) = At(c, h) /\ At(b, h - 1) = At(c, h - 1)
  BY <1>2, <1>3
<1>5. OwnAt(c, h)
  <2> SUFFICES ASSUME net.retargeting, h % DIFFCHANGE_INTERVAL = 0
               PROVE  At(c, h).target = OwnTarget(c, h)
    BY DEF OwnAt
  <2>1. At(b, h - DIFFCHANGE_INTERVAL) = At(c, h - DIFFCHANGE_INTERVAL)
    BY <1>1, <1>2, <1>3, PeriodBefore
  <2>2. OwnTarget(b, h) = OwnTarget(c, h)
    BY <1>4, <2>1 DEF OwnTarget
  <2> QED BY <1>4, <2>2 DEF OwnAt
<1>6. KeptAt(c, h)
  <2>1. At(b, Start(h)) = At(c, Start(h))
    BY <1>1, <1>2, PeriodBefore
  <2> QED BY <1>4, <2>1 DEF KeptAt
<1>7. TimelyAt(c, h)
  BY <1>4 DEF TimelyAt
<1> QED BY <1>5, <1>6, <1>7

(* What Append and SubSeq make of a branch.                                  *)
LEMMA Extended ==
  ASSUME NEW b, IsBranch(b), NEW x, x.time \in Int
  PROVE  LET c == Append(b, x)
         IN  IsBranch(c) /\ Len(c) = Len(b) + 1 /\ SameUpTo(b, c, Len(b)) /\ c[Len(b) + 1] = x
<1>1. PICK S : b \in Seq(S)
  BY DEF IsBranch
<1> DEFINE T == S \cup {x}
           c == Append(b, x)
<1>2. b \in Seq(T) /\ x \in T
  BY <1>1, SMT
<1> HIDE DEF T
<1>3. /\ c \in Seq(T) /\ Len(c) = Len(b) + 1 /\ c[Len(b) + 1] = x
      /\ \A i \in 1..Len(b) : c[i] = b[i]
  BY <1>2, SMT
<1> HIDE DEF c
<1>4. Len(b) \in Nat \ {0} /\ \A i \in 1..Len(b) : b[i].time \in Int
  BY DEF IsBranch
<1>5. \A i \in 1..Len(c) : c[i].time \in Int
  <2> TAKE i \in 1..Len(c)
  <2>1. i \in 1..Len(b) \/ i = Len(b) + 1
    BY <1>3, <1>4, SMT
  <2> QED BY <1>3, <1>4, <2>1
<1>6. Len(c) \in Nat \ {0}
  BY <1>3, <1>4, SMT
<1>7. IsBranch(c)
  BY <1>3, <1>5, <1>6 DEF IsBranch
<1> QED BY <1>3, <1>7 DEF SameUpTo, c

(* A branch cut off at the fork is a branch.                               *)
LEMMA CutOff ==
  ASSUME NEW b, IsBranch(b), NEW n \in 1..Len(b)
  PROVE  LET c == SubSeq(b, 1, n) IN IsBranch(c) /\ Len(c) = n /\ SameUpTo(b, c, n)
<1>1. PICK S : b \in Seq(S)
  BY DEF IsBranch
<1> DEFINE c == SubSeq(b, 1, n)
<1>2. Len(b) \in Nat \ {0} /\ \A i \in 1..Len(b) : b[i].time \in Int
  BY DEF IsBranch
<1>3. c \in Seq(S) /\ Len(c) = n /\ \A i \in 1..n : c[i] = b[i]
  BY <1>1, <1>2, SMT
<1> HIDE DEF c
<1>4. n \in Nat \ {0} /\ \A i \in 1..n : i \in 1..Len(b)
  BY <1>2, SMT
<1>5. IsBranch(c)
  BY <1>2, <1>3, <1>4 DEF IsBranch
<1> QED BY <1>3, <1>5 DEF SameUpTo, c

(* ... and its headers keep the rules.                                     *)
LEMMA CutLawful ==
  ASSUME NEW b, Lawful(b), NEW n \in 1..Len(b)
  PROVE  Lawful(SubSeq(b, 1, n))
<1> DEFINE c == SubSeq(b, 1, n)
<1>1. IsBranch(c) /\ Len(c) = n /\ SameUpTo(b, c, n)
  BY CutOff DEF Lawful
<1> HIDE DEF c
<1>2. n \in Nat /\ \A h \in 1..n - 1 : h \in 1..Len(b) - 1
  <2>1. Len(b) \in Nat
    BY DEF Lawful, IsBranch
  <2> QED BY <2>1, SMT
<1>3. \A h \in 1..n - 1 : OwnAt(c, h) /\ KeptAt(c, h) /\ TimelyAt(c, h)
  BY <1>1, <1>2, RulesCarry DEF Lawful
<1> QED BY <1>1, <1>3 DEF Lawful, c

-----------------------------------------------------------------------------
(* get_ancestor_at_height finds the branch's own ancestor, by the height     *)
(* index and by the parents.                                                 *)
LEMMA OwnAncestor ==
  ASSUME NEW b, IsBranch(b), IsBranch(main), NEW k \in 0..Len(b) - 1
  PROVE  get_ancestor_at_height(b, k) = At(b, k)
<1>1. CASE ~OnMain(b)
  BY <1>1 DEF get_ancestor_at_height
<1>2. CASE OnMain(b)
  <2>1. PICK S : b \in Seq(S)
    BY DEF IsBranch
  <2>2. PICK T : main \in Seq(T)
    BY DEF IsBranch
  <2> DEFINE U == S \cup T
             n == Len(b)
  <2>3. b \in Seq(U) /\ main \in Seq(U)
    BY <2>1, <2>2, SMT
  <2> HIDE DEF U
  <2>4. n \in Nat /\ n <= Len(main) /\ SubSeq(main, 1, n) = b /\ Len(main) \in Nat
    BY <1>2, <2>3 DEF OnMain, IsBranch
  <2>5. SubSeq(main, 1, n)[k + 1] = main[k + 1]
    BY <2>3, <2>4, SMT
  <2> QED BY <1>2, <2>4, <2>5 DEF get_ancestor_at_height, At
<1> QED BY <1>1, <1>2

(* The last block that was not mined under the twenty-minute rule has the    *)
(* target the period started with.                                           *)
LEMMA RealTarget ==
  ASSUME NEW b, Lawful(b)
  PROVE  LastRealTarget(b) = At(b, Start(Len(b) - 1)).target
<1> DEFINE h == Len(b) - 1
           start == h - (h % DIFFCHANGE_INTERVAL)
           real == {g \in start..h : At(b, g).target # max_attainable_target}
           m == Max(real \cup {start})
<1>1. h \in Nat
  BY SMT DEF Lawful, IsBranch
<1>2. start = Start(h) /\ LastRealTarget(b) = At(b, m).target
  BY DEF LastRealTarget, HeightOf, Start
<1>3. start \in 0..h
  <2>1. DIFFCHANGE_INTERVAL \in Nat \ {0}
    BY RulesAssumption DEF RulesAssumption
  <2> HIDE DEF h
  <2> QED BY <1>1, <2>1, MultipleBelow
<1> HIDE DEF h, start, m
<1>4. m \in real \cup {start}
  <2>1. real \cup {start} \in SUBSET (0..h)
    BY <1>1, <1>3, SMT
  <2> HIDE DEF real
  <2> QED BY <1>1, <2>1, Largest DEF m
<1>5. CASE m = start
  BY <1>2, <1>5 DEF h
<1>6. CASE m # start
  <2>1. m \in start..h /\ At(b, m).target # max_attainable_target
    BY <1>4, <1>6
  <2>2. Start(m) = start
    BY <1>1, <1>2, <2>1, SameStart
  <2>3. m \in 1..Len(b) - 1
    BY <1>1, <1>3, <1>6, <2>1, SMT DEF h
  <2>4. KeptAt(b, m)
    BY <2>3 DEF Lawful
  <2>5. At(b, m).target = At(b, start).target
    BY <1>6, <2>1, <2>2, <2>4 DEF KeptAt
  <2> QED BY <1>2, <2>5 DEF h
<1> QED BY <1>5, <1>6

-----------------------------------------------------------------------------
(* A header that validate_header accepts keeps the rules.                    *)
LEMMA ChildLawful ==
  ASSUME NEW b, Lawful(b), IsBranch(main), NEW time \in Int, validate_header(b, time)
  PROVE  Lawful(Child(b, time))
<1> DEFINE n == Len(b)
           x == [time |-> time, target |-> get_next_required_work(b, time)]
           c == Child(b, time)
<1>1. IsBranch(b) /\ n \in Nat \ {0}
  BY DEF Lawful, IsBranch
<1>2. x.time = time /\ x.target = get_next_required_work(b, time)
  OBVIOUS
<1> HIDE DEF x
<1>3. IsBranch(c) /\ Len(c) = n + 1 /\ SameUpTo(b, c, n) /\ c[n + 1] = x
  BY <1>1, <1>2, Extended DEF Child, x
<1> HIDE DEF c
<1>4. ASSUME NEW h \in 1..n - 1 PROVE OwnAt(c, h) /\ KeptAt(c, h) /\ TimelyAt(c, h)
  BY <1>1, <1>3, RulesCarry DEF Lawful
<1>5. \A k \in 0..n - 1 : At(c, k) = At(b, k)
  <2>1. \A k \in 0..n - 1 : k + 1 \in 1..n
    BY <1>1, SMT
  <2> QED BY <1>3, <2>1 DEF At, SameUpTo
<1>6. At(c, n) = x /\ HeightOf(b) + 1 = n /\ Tip(b) = At(c, n - 1) /\ Tip(b) = At(b, n - 1)
  <2>1. (n - 1) + 1 = n /\ n - 1 \in 0..n - 1
    BY <1>1, SMT
  <2>2. Tip(b) = At(b, n - 1)
    BY <2>1 DEF Tip, At
  <2> QED BY <1>3, <1>5, <2>1, <2>2 DEF At, HeightOf
<1>7. OwnAt(c, n)
  <2> SUFFICES ASSUME net.retargeting, n % DIFFCHANGE_INTERVAL = 0
               PROVE  x.target = OwnTarget(c, n)
    BY <1>6 DEF OwnAt
  <2> DEFINE k == n - DIFFCHANGE_INTERVAL
  <2>1. k \in 0..n - 1
    BY <1>1, PeriodBefore
  <2>2. get_ancestor_at_height(b, k) = At(c, k)
    BY <1>1, <1>5, <2>1, OwnAncestor
  <2>3. get_next_required_work(b, time) =
          Min({calc_next_work_required(Tip(b), get_ancestor_at_height(b, k)), max_attainable_target})
    BY <1>6 DEF get_next_required_work
  <2>4. OwnTarget(c, n) =
          Min({calc_next_work_required(At(c, n - 1), At(c, k)), max_attainable_target})
    BY DEF OwnTarget
  <2> QED BY <1>2, <1>6, <2>2, <2>3, <2>4
<1>8. KeptAt(c, n)
  <2> SUFFICES ASSUME n # Start(n)
               PROVE  \/ x.target = At(c, Start(n)).target
                      \/ /\ net.min_difficulty
                         /\ x.target = max_attainable_target
                         /\ x.time > At(c, n - 1).time + 2 * pow_target_spacing
    BY <1>6 DEF KeptAt
  <2>1. n % DIFFCHANGE_INTERVAL # 0 /\ Start(n) \in 0..n
    BY <1>1, PeriodBefore
  <2>2. n - 1 \in Nat /\ n - 1 \in Start(n)..n /\ Start(n) \in 0..n - 1
    BY <1>1, <2>1, SMT
  <2>3. Start(n - 1) = Start(n)
    BY <1>1, <2>2, SameStart
  <2>4. At(c, Start(n)) = At(b, Start(n - 1))
    BY <1>5, <2>2, <2>3
  <2>5. CASE ~net.min_difficulty
    <3>1. x.target = At(b, n - 1).target
      BY <1>2, <1>6, <2>1, <2>5 DEF get_next_required_work
    <3>2. CASE n - 1 = Start(n - 1)
      BY <2>4, <3>1, <3>2
    <3>3. CASE n - 1 # Start(n - 1)
      <4>1. n - 1 \in 1..n - 1
        <5>1. n - 1 # 0
          <6>1. DIFFCHANGE_INTERVAL \in Nat \ {0}
            BY RulesAssumption DEF RulesAssumption
          <6>2. Start(0) = 0
            BY <6>1, SMT DEF Start
          <6> QED BY <3>3, <6>2
        <5>2. \A k \in Nat \ {0} : k - 1 # 0 => k - 1 \in 1..k - 1
          BY SMT
        <5> QED BY <1>1, <5>1, <5>2
      <4>2. KeptAt(b, n - 1)
        BY <4>1 DEF Lawful
      <4>3. At(b, n - 1).target = At(b, Start(n - 1)).target
        BY <2>5, <3>3, <4>2 DEF KeptAt
      <4> QED BY <2>4, <3>1, <4>3
    <3> QED BY <3>2, <3>3
  <2>6. CASE net.min_difficulty /\ Tip(b).time + 2 * pow_target_spacing < time
    <3>1. x.target = max_attainable_target
      BY <1>2, <1>6, <2>1, <2>6 DEF get_next_required_work
    <3>2. x.time > At(c, n - 1).time + 2 * pow_target_spacing
      BY <1>2, <1>6, <2>6
    <3> QED BY <2>6, <3>1, <3>2
  <2>7. CASE net.min_difficulty /\ ~(Tip(b).time + 2 * pow_target_spacing < time)
    <3>1. x.target = LastRealTarget(b)
      BY <1>2, <1>6, <2>1, <2>7 DEF get_next_required_work
    <3> QED BY <2>4, <3>1, RealTarget
  <2> QED BY <2>5, <2>6, <2>7
<1>9. TimelyAt(c, n)
  <2> SUFFICES ASSUME net.bip94, n % DIFFCHANGE_INTERVAL = 0
               PROVE  x.time + BIP94_TOLERANCE >= At(c, n - 1).time
    BY <1>6 DEF TimelyAt
  <2>1. time >= Tip(b).time - BIP94_TOLERANCE
    BY DEF validate_header, check_bip94_block
  <2>2. Tip(b).time \in Int /\ BIP94_TOLERANCE \in Int
    <3>1. n \in 1..n
      BY <1>1, SMT
    <3> QED BY <1>1, <3>1, RulesAssumption DEF IsBranch, Tip, RulesAssumption
  <2> DEFINE t == Tip(b).time
  <2>3. time + BIP94_TOLERANCE >= t
    <3> HIDE DEF t
    <3>1. time >= t - BIP94_TOLERANCE /\ t \in Int /\ BIP94_TOLERANCE \in Int
      BY <2>1, <2>2 DEF t
    <3> QED BY <3>1, SMT
  <2> QED BY <1>2, <1>6, <2>3
<1>10. \A h \in 1..Len(c) - 1 : h \in 1..n - 1 \/ h = n
  BY <1>1, <1>3, SMT
<1> QED BY <1>3, <1>4, <1>7, <1>8, <1>9, <1>10 DEF Lawful, c

(* The rules look at nothing else that changes: the network does not.        *)
LEMMA Stays ==
  ASSUME net' = net, Lawful(main'), alt' # <<>> => Lawful(alt')
  PROVE  HInv'
<1>1. Lawful(main)'
  BY DEF Lawful, IsBranch, OwnAt, KeptAt, TimelyAt, OwnTarget, calc_next_work_required
<1>2. (alt # <<>> => Lawful(alt))'
  BY DEF Lawful, IsBranch, OwnAt, KeptAt, TimelyAt, OwnTarget, calc_next_work_required
<1> QED BY <1>1, <1>2 DEF HInv

(* The chain starts with the genesis header alone.                         *)
LEMMA InitHInv == RulesInit => HInv
<1> SUFFICES ASSUME RulesInit PROVE HInv
  OBVIOUS
<1>1. main = <<GenesisHeader>> /\ alt = <<>>
  BY DEF RulesInit
<1>2. GenesisHeader.time = 10
  BY DEF GenesisHeader
<1> DEFINE x == GenesisHeader
<1> HIDE DEF x
<1>3. <<x>> \in Seq({x}) /\ Len(<<x>>) = 1 /\ <<x>>[1] = x
  BY SMT
<1>4. \A i \in 1..1 : i = 1
  BY SMT
<1>5. 1 \in Nat \ {0} /\ 10 \in Int /\ \A h \in 1..(1 - 1) : FALSE
  BY SMT
<1>6. Lawful(<<x>>)
  BY <1>2, <1>3, <1>4, <1>5 DEF Lawful, IsBranch, x
<1> QED BY <1>1, <1>6 DEF HInv, x

(* A header extends a branch only after validate_header_no_acc, a fork     *)
(* starts from a part of main, and a reorganization exchanges the two.     *)
LEMMA NextHInv == ASSUME HInv, RulesNext PROVE HInv'
<1>1. Lawful(main) /\ IsBranch(main) /\ (alt # <<>> => Lawful(alt))
  BY DEF HInv, Lawful
<1>2. ASSUME NEW b, Lawful(b), NEW d \in Steps, NEW i \in 1..Len(b)
      PROVE  b[i].time + d \in Int
  <2>1. b[i].time \in Int /\ d \in Int
    BY <1>2, RulesAssumption DEF Lawful, IsBranch, RulesAssumption
  <2> DEFINE t == b[i].time
  <2> HIDE DEF t
  <2>2. t \in Int /\ d \in Int
    BY <2>1 DEF t
  <2>3. t + d \in Int
    BY <2>2, SMT
  <2> QED BY <2>3 DEF t
<1>3. ASSUME NEW b, Lawful(b) PROVE Len(b) \in 1..Len(b)
  BY <1>3, SMT DEF Lawful, IsBranch
<1>4. ASSUME NEW d \in Steps, accept_on_main(Tip(main).time + d) PROVE HInv'
  <2> DEFINE t == Tip(main).time + d
  <2>1. t \in Int
    BY <1>1, <1>2, <1>3 DEF Tip
  <2> HIDE DEF t
  <2>2. validate_header(main, t) /\ main' = Child(main, t) /\ alt' = alt /\ net' = net
    BY <1>4 DEF accept_on_main, t
  <2>3. Lawful(Child(main, t))
    BY <1>1, <2>1, <2>2, ChildLawful
  <2> QED BY <1>1, <2>2, <2>3, Stays
<1>5. ASSUME NEW parent, Lawful(parent), NEW t \in Int, accept_on_fork(parent, t) PROVE HInv'
  <2>1. Lawful(Child(parent, t))
    BY <1>1, <1>5, ChildLawful DEF accept_on_fork
  <2> DEFINE branch == Child(parent, t)
  <2>2. \/ main' = branch /\ alt' = main
        \/ main' = main /\ alt' = branch
    BY <1>5 DEF accept_on_fork
  <2>3. net' = net
    BY <1>5 DEF accept_on_fork
  <2> HIDE DEF branch
  <2> QED BY <1>1, <2>1, <2>2, <2>3, Stays DEF branch
<1>6. ASSUME NEW n \in 1..Len(main) - 1, NEW d \in Steps,
             accept_on_fork(SubSeq(main, 1, n), main[n].time + d)
      PROVE  HInv'
  <2>1. n \in 1..Len(main)
    BY <1>1, SMT DEF IsBranch
  <2> QED BY <1>1, <1>2, <1>5, <1>6, <2>1, CutLawful
<1>7. ASSUME alt # <<>>, NEW d \in Steps, accept_on_fork(alt, Tip(alt).time + d) PROVE HInv'
  BY <1>1, <1>2, <1>3, <1>5, <1>7 DEF Tip
<1> QED BY <1>4, <1>6, <1>7 DEF RulesNext

(* What the invariant says of every branch.                                  *)
LEMMA HInvKept == HInv => RulesKept
<1> SUFFICES ASSUME HInv, NEW b \in Branches
             PROVE  Lawful(b)
  <2>1. (\A b \in Branches : Lawful(b)) => RulesKept
    BY DEF Lawful, RulesKept, RetargetOwnAncestors, RealDifficultyKept, NoTimeWarp, HeightOf,
           OwnAt, KeptAt, TimelyAt, Start
  <2> QED BY <2>1
<1> QED BY DEF HInv, Branches

(* On both branches every retarget is computed from the headers of the     *)
(* branch itself, the real difficulty outlives the twenty-minute blocks,   *)
(* and no period starts before the block it follows                        *)
(* (get_next_required_work, check_bip94_block), whatever the order in      *)
(* which the headers of the two arrive.                                    *)
THEOREM HeadersKeepRules == RulesSpec => []RulesKept
<1>1. HInv /\ UNCHANGED rulesVars => HInv'
  BY Stays DEF HInv, rulesVars
<1>2. HInv /\ [RulesNext]_rulesVars => HInv'
  BY <1>1, NextHInv
<1> QED BY <1>2, InitHInv, HInvKept, PTL DEF RulesSpec

-----------------------------------------------------------------------------
(* The filter file.  Its records, and what an entry of the index promises:   *)
(* no record before the position it notes is above its height, and once that *)
(* height counts as saved the position holds it.                             *)
IsRecs(s) == (\E S : s \in Seq(S)) /\ \A i \in 1..Len(s) : s[i].h \in Nat
EntryHolds(recs, pos, at, ht) ==
  /\ pos \in 1..Len(recs) + 1 /\ at <= ht + 1
  /\ \A k \in 1..Len(recs) : k < pos => recs[k].h <= at
  /\ at <= ht => pos \in 1..Len(recs) /\ recs[pos].h = at
FileHolds(recs, ix, ht) ==
  /\ IsRecs(recs) /\ ht \in Nat
  /\ \A i, j \in 1..Len(recs) : i <= j => recs[i].h <= recs[j].h
  /\ \A i \in 1..Len(recs) : recs[i].h <= ht + 1
  /\ DOMAIN ix \subseteq 1..MaxHeight
  /\ \A i \in DOMAIN ix : EntryHolds(recs, ix[i], i * INDEX_INTERVAL, ht)
FiltersInv ==
  /\ FileHolds(file, index, height)
  /\ IsRecs(stream) /\ (\E S : chain \in Seq(S)) /\ last_filter \in Nat

(* A list of records is a sequence.                                        *)
LEMMA Recs == ASSUME NEW s, IsRecs(s) PROVE Len(s) \in Nat /\ DOMAIN s = 1..Len(s)
<1>1. PICK S : s \in Seq(S)
  BY DEF IsRecs
<1> QED BY <1>1, SMT

(* c is a followed by b, as append_record leaves the file.                 *)
IsJoin(c, a, b) ==
  /\ IsRecs(c) /\ Len(c) = Len(a) + Len(b)
  /\ \A i \in 1..Len(a) : c[i] = a[i]
  /\ \A i \in 1..Len(b) : c[Len(a) + i] = b[i]

(* Records appended to records.                                            *)
LEMMA Joined ==
  ASSUME NEW a, NEW b, IsRecs(a), IsRecs(b)
  PROVE  IsJoin(a \o b, a, b)
<1>1. PICK S : a \in Seq(S)
  BY DEF IsRecs
<1>2. PICK T : b \in Seq(T)
  BY DEF IsRecs
<1> DEFINE U == S \cup T
           c == a \o b
<1>3. a \in Seq(U) /\ b \in Seq(U)
  BY <1>1, <1>2, SMT
<1> HIDE DEF U
<1>4. /\ c \in Seq(U) /\ Len(c) = Len(a) + Len(b)
      /\ \A i \in 1..Len(a) : c[i] = a[i]
      /\ \A j \in 1..Len(b) : c[Len(a) + j] = b[j]
  BY <1>3, SMT
<1> HIDE DEF c
<1>5. ASSUME NEW i \in 1..Len(c) PROVE c[i].h \in Nat
  <2>1. i \in 1..Len(a) \/ (i - Len(a) \in 1..Len(b) /\ i = Len(a) + (i - Len(a)))
    BY <1>3, <1>4, SMT
  <2>2. CASE i \in 1..Len(a)
    BY <1>4, <2>2 DEF IsRecs
  <2>3. CASE i - Len(a) \in 1..Len(b) /\ i = Len(a) + (i - Len(a))
    BY <1>4, <2>3 DEF IsRecs
  <2> QED BY <2>1, <2>2, <2>3
<1> QED BY <1>4, <1>5 DEF IsRecs, IsJoin, c

(* What is left of a stream of filters when one has arrived.               *)
LEMMA Dropped ==
  ASSUME NEW s, IsRecs(s), s # <<>>
  PROVE  IsRecs(Tail(s)) /\ Head(s).h \in Nat
<1>1. PICK S : s \in Seq(S)
  BY DEF IsRecs
<1> DEFINE t == Tail(s)
<1>2. t \in Seq(S) /\ Head(s) = s[1] /\ 1 \in 1..Len(s)
  BY <1>1, SMT
<1>3. \A i \in 1..Len(t) : t[i] = s[i + 1] /\ i + 1 \in 1..Len(s)
  BY <1>1, SMT
<1> HIDE DEF t
<1>4. \A i \in 1..Len(t) : t[i].h \in Nat
  BY <1>3 DEF IsRecs
<1> QED BY <1>2, <1>4 DEF IsRecs, t

(* A single record.                                                        *)
LEMMA One == ASSUME NEW f, f.h \in Nat PROVE IsRecs(<<f>>) /\ Len(<<f>>) = 1 /\ <<f>>[1] = f
<1>1. <<f>> \in Seq({f}) /\ Len(<<f>>) = 1 /\ <<f>>[1] = f /\ \A i \in 1..1 : i = 1
  BY SMT
<1> QED BY <1>1 DEF IsRecs

(* A list with one record for each of n numbers.                             *)
LEMMA Listed ==
  ASSUME NEW n \in Nat, NEW s, s = [i \in 1..n |-> s[i]], \A i \in 1..n : s[i].h \in Nat
  PROVE  IsRecs(s) /\ Len(s) = n
<1> DEFINE S == {s[i] : i \in 1..n}
<1>1. s \in [1..n -> S]
  OBVIOUS
<1> HIDE DEF S
<1>2. s \in Seq(S) /\ Len(s) = n
  BY <1>1, SMT
<1> QED BY <1>2 DEF IsRecs

-----------------------------------------------------------------------------
(* put_filter notes the last of the new records of a height in the index,    *)
(* and leaves the other entries alone.                                       *)
LEMMA NotedIs ==
  ASSUME NEW recs, IsRecs(recs), IsRecs(file), DOMAIN index \subseteq 1..MaxHeight,
         NEW i \in DOMAIN Noted(recs)
  PROVE  /\ i \in 1..MaxHeight
         /\ \/ \E j \in 1..Len(recs) : /\ recs[j].h = i * INDEX_INTERVAL
                                       /\ Noted(recs)[i] = Len(file) + j
            \/ /\ i \in DOMAIN index /\ Noted(recs)[i] = index[i]
               /\ \A j \in 1..Len(recs) : recs[j].h # i * INDEX_INTERVAL
<1> DEFINE Spots(k) == {Len(file) + j : j \in {l \in DOMAIN recs : recs[l].h = k * INDEX_INTERVAL}}
           new == {k \in 1..MaxHeight : Spots(k) # {}}
<1>1. Noted(recs) = [k \in DOMAIN index \cup new |-> IF k \in new THEN Max(Spots(k)) ELSE index[k]]
  BY DEF Noted
<1>2. DOMAIN recs = 1..Len(recs) /\ Len(recs) \in Nat /\ Len(file) \in Nat
  BY Recs
<1>3. i \in DOMAIN index \cup new /\ i \in 1..MaxHeight
  BY <1>1
<1>4. CASE i \in new
  <2>1. Spots(i) # {} /\ Noted(recs)[i] = Max(Spots(i))
    BY <1>1, <1>3, <1>4
  <2>2. Spots(i) \in SUBSET (0..Len(file) + Len(recs)) /\ Len(file) + Len(recs) \in Nat
    BY <1>2, SMT
  <2>3. Max(Spots(i)) \in Spots(i)
    <3> DEFINE A == Spots(i)
    <3> HIDE DEF A
    <3>1. A # {} /\ A \in SUBSET (0..Len(file) + Len(recs))
      BY <2>1, <2>2 DEF A
    <3>2. Max(A) \in A
      BY <2>2, <3>1, Largest
    <3> QED BY <3>2 DEF A
  <2> QED BY <1>2, <1>3, <2>1, <2>3
<1>5. CASE i \notin new
  <2>1. i \in DOMAIN index /\ Noted(recs)[i] = index[i]
    BY <1>1, <1>3, <1>5
  <2>2. Spots(i) = {}
    BY <1>3, <1>5
  <2> QED BY <1>2, <1>3, <2>1, <2>2
<1> QED BY <1>4, <1>5

(* The new records of a put: in order, from the height after the saved one.  *)
Follows(recs, ht) ==
  /\ IsRecs(recs) /\ 1 \in 1..Len(recs) /\ recs[1].h = height + 1
  /\ \A i, j \in 1..Len(recs) : i <= j => recs[i].h <= recs[j].h
  /\ \A i \in 1..Len(recs) : recs[i].h <= ht + 1

(* An entry that no new record is for is as good as before, whatever is      *)
(* appended and however the saved height grows.                              *)
LEMMA OldEntry ==
  ASSUME FileHolds(file, index, height), NEW recs, NEW ht, Follows(recs, ht),
         NEW i \in DOMAIN index, \A j \in 1..Len(recs) : recs[j].h # i * INDEX_INTERVAL
  PROVE  /\ i * INDEX_INTERVAL \in Nat /\ i * INDEX_INTERVAL <= height
         /\ index[i] \in 1..Len(file) /\ file[index[i]].h = i * INDEX_INTERVAL
         /\ \A k \in 1..Len(file) : k < index[i] => file[k].h <= i * INDEX_INTERVAL
<1> DEFINE at == i * INDEX_INTERVAL
<1>1. at \in Nat
  <2>1. i \in 1..MaxHeight /\ INDEX_INTERVAL \in Nat
    BY FilterAssumption DEF FileHolds, FilterAssumption
  <2> QED BY <2>1, SMT
<1>2. EntryHolds(file, index[i], at, height) /\ height \in Nat
  BY DEF FileHolds
<1>3. at # height + 1
  BY DEF Follows
<1> HIDE DEF at
<1>4. at <= height
  BY <1>1, <1>2, <1>3, SMT DEF EntryHolds
<1> QED BY <1>1, <1>2, <1>4 DEF EntryHolds, at

(* An entry for one of them is for a position in what was appended.          *)
LEMMA NewEntry ==
  ASSUME FileHolds(file, index, height), NEW recs, NEW ht \in Nat, height <= ht,
         Follows(recs, ht), NEW j \in 1..Len(recs)
  PROVE  EntryHolds(file \o recs, Len(file) + j, recs[j].h, ht)
<1> DEFINE c == file \o recs
<1>1. Len(file) \in Nat /\ Len(recs) \in Nat /\ IsRecs(file) /\ IsRecs(recs)
  BY Recs DEF FileHolds, Follows
<1>2. /\ Len(c) = Len(file) + Len(recs)
      /\ \A i \in 1..Len(file) : c[i] = file[i]
      /\ \A i \in 1..Len(recs) : c[Len(file) + i] = recs[i]
  <2>1. IsJoin(c, file, recs)
    BY <1>1, Joined
  <2> HIDE DEF c
  <2> QED BY <2>1 DEF IsJoin
<1> HIDE DEF c
<1>3. /\ recs[j].h \in Nat /\ recs[j].h <= ht + 1 /\ height + 1 <= recs[j].h
  <2>1. 1 \in 1..Len(recs) /\ 1 <= j
    BY SMT DEF Follows
  <2> QED BY <1>1, <2>1 DEF Follows, IsRecs
<1>4. Len(file) + j \in 1..Len(c) /\ Len(file) + j \in 1..Len(c) + 1
  BY <1>1, <1>2, SMT
<1>5. ASSUME NEW k \in 1..Len(c), k < Len(file) + j PROVE c[k].h <= recs[j].h
  <2>1. \/ k \in 1..Len(file)
        \/ k - Len(file) \in 1..Len(recs) /\ k - Len(file) <= j /\ k = Len(file) + (k - Len(file))
    BY <1>1, <1>2, <1>5, SMT
  <2>2. CASE k \in 1..Len(file)
    <3>1. file[k].h \in Nat /\ file[k].h <= height + 1 /\ height \in Nat
      BY <2>2 DEF FileHolds, IsRecs
    <3> DEFINE a == file[k].h
               b == recs[j].h
    <3>2. c[k].h = a
      BY <1>2, <2>2
    <3> HIDE DEF a, b
    <3>3. a <= b
      <4>1. a \in Nat /\ a <= height + 1 /\ height \in Nat /\ b \in Nat /\ height + 1 <= b
        BY <1>3, <3>1 DEF a, b
      <4> QED BY <4>1, SMT
    <3> QED BY <3>2, <3>3 DEF b
  <2>3. CASE /\ k - Len(file) \in 1..Len(recs) /\ k - Len(file) <= j
             /\ k = Len(file) + (k - Len(file))
    BY <1>2, <2>3 DEF Follows
  <2> QED BY <2>1, <2>2, <2>3
<1> QED BY <1>2, <1>3, <1>4, <1>5 DEF EntryHolds, c

(* Appending such records, and saving a height that covers them.             *)
LEMMA PutHolds ==
  ASSUME FileHolds(file, index, height), NEW recs, NEW ht \in Nat, height <= ht,
         Follows(recs, ht)
  PROVE  FileHolds(file \o recs, Noted(recs), ht)
<1> DEFINE c == file \o recs
           ix == Noted(recs)
<1>1. Len(file) \in Nat /\ Len(recs) \in Nat /\ IsRecs(file) /\ IsRecs(recs) /\ height \in Nat
  BY Recs DEF FileHolds, Follows
<1>2. /\ IsRecs(c) /\ Len(c) = Len(file) + Len(recs)
      /\ \A i \in 1..Len(file) : c[i] = file[i]
      /\ \A i \in 1..Len(recs) : c[Len(file) + i] = recs[i]
  <2>1. IsJoin(c, file, recs)
    BY <1>1, Joined
  <2> HIDE DEF c
  <2> QED BY <2>1 DEF IsJoin
<1>3. \A j \in 1..Len(recs) : EntryHolds(c, Len(file) + j, recs[j].h, ht)
  BY NewEntry
<1> HIDE DEF c
<1>4. \A k \in 1..Len(c) : \/ k \in 1..Len(file)
                           \/ k - Len(file) \in 1..Len(recs) /\ k = Len(file) + (k - Len(file))
  BY <1>1, <1>2, SMT
<1>5. ASSUME NEW i \in 1..Len(c), NEW k \in 1..Len(c), i <= k PROVE c[i].h <= c[k].h
  <2>1. CASE k \in 1..Len(file)
    <3>1. i \in 1..Len(file)
      BY <1>1, <1>5, <2>1, SMT
    <3> QED BY <1>2, <1>5, <2>1, <3>1 DEF FileHolds
  <2>2. CASE k - Len(file) \in 1..Len(recs) /\ k = Len(file) + (k - Len(file))
    <3>1. CASE i = k
      <4>1. c[k].h \in Nat
        BY <1>2 DEF IsRecs
      <4> DEFINE a == c[k].h
      <4> HIDE DEF a
      <4>2. a <= a
        BY <4>1, SMT DEF a
      <4> QED BY <3>1, <4>2 DEF a
    <3>2. CASE i # k
      <4>1. i < k
        BY <1>1, <1>2, <1>5, <3>2, SMT
      <4>2. EntryHolds(c, k, recs[k - Len(file)].h, ht)
        BY <1>3, <2>2
      <4>3. c[k] = recs[k - Len(file)]
        BY <1>2, <2>2
      <4> QED BY <4>1, <4>2, <4>3 DEF EntryHolds
    <3> QED BY <3>1, <3>2
  <2> QED BY <1>4, <2>1, <2>2
<1>6. ASSUME NEW i \in 1..Len(c) PROVE c[i].h <= ht + 1
  <2>1. CASE i \in 1..Len(file)
    <3>1. file[i].h \in Nat /\ file[i].h <= height + 1
      BY <2>1 DEF FileHolds, IsRecs
    <3> DEFINE a == file[i].h
    <3> HIDE DEF a
    <3>2. a <= ht + 1
      BY <1>1, <3>1, SMT DEF a
    <3> QED BY <1>2, <2>1, <3>2 DEF a
  <2>2. CASE i - Len(file) \in 1..Len(recs) /\ i = Len(file) + (i - Len(file))
    BY <1>2, <2>2 DEF Follows
  <2> QED BY <1>4, <2>1, <2>2
<1>7. DOMAIN ix \subseteq 1..MaxHeight
  BY <1>1, NotedIs DEF FileHolds
<1>8. ASSUME NEW i \in DOMAIN ix PROVE EntryHolds(c, ix[i], i * INDEX_INTERVAL, ht)
  <2>1. CASE \E j \in 1..Len(recs) : recs[j].h = i * INDEX_INTERVAL /\ ix[i] = Len(file) + j
    BY <1>3, <2>1
  <2>2. CASE /\ i \in DOMAIN index /\ ix[i] = index[i]
             /\ \A j \in 1..Len(recs) : recs[j].h # i * INDEX_INTERVAL
    <3> DEFINE at == i * INDEX_INTERVAL
               pos == index[i]
    <3>1. /\ at \in Nat /\ at <= height /\ pos \in 1..Len(file) /\ file[pos].h = at
          /\ \A k \in 1..Len(file) : k < pos => file[k].h <= at
      BY <2>2, OldEntry
    <3> HIDE DEF at, pos
    <3>2. pos \in 1..Len(c) /\ pos \in 1..Len(c) + 1 /\ at <= ht + 1
      BY <1>1, <1>2, <3>1, SMT
    <3>3. ASSUME NEW k \in 1..Len(c), k < pos PROVE c[k].h <= at
      <4>1. k \in 1..Len(file)
        BY <1>1, <3>1, <3>3, SMT
      <4> QED BY <1>2, <3>1, <3>3, <4>1
    <3>4. c[pos].h = at
      BY <1>2, <3>1
    <3>5. EntryHolds(c, pos, at, ht)
      BY <3>2, <3>3, <3>4 DEF EntryHolds
    <3> QED BY <2>2, <3>5 DEF at, pos
  <2> QED BY <1>1, <1>8, <2>1, <2>2, NotedIs DEF FileHolds
<1> HIDE DEF ix
<1> QED BY <1>2, <1>5, <1>6, <1>7, <1>8 DEF FileHolds, c, ix

(* Noting the record without appending it, when the process dies in between. *)
LEMMA NoteHolds ==
  ASSUME FileHolds(file, index, height), NEW f, Follows(<<f>>, height), f.h \in Nat
  PROVE  FileHolds(file, Noted(<<f>>), height)
<1> DEFINE recs == <<f>>
           ix == Noted(recs)
<1>1. Len(file) \in Nat /\ IsRecs(file) /\ IsRecs(recs) /\ height \in Nat
  BY Recs DEF FileHolds, Follows
<1>2. Len(recs) = 1 /\ recs[1] = f /\ \A j \in 1..1 : j = 1
  BY SMT
<1>3. f.h = height + 1
  BY <1>2 DEF Follows
<1> HIDE DEF recs
<1>4. DOMAIN ix \subseteq 1..MaxHeight
  BY <1>1, NotedIs DEF FileHolds
<1>5. ASSUME NEW i \in DOMAIN ix PROVE EntryHolds(file, ix[i], i * INDEX_INTERVAL, height)
  <2>1. CASE \E j \in 1..Len(recs) : recs[j].h = i * INDEX_INTERVAL /\ ix[i] = Len(file) + j
    <3>1. ix[i] = Len(file) + 1 /\ i * INDEX_INTERVAL = height + 1
      BY <1>2, <1>3, <2>1
    <3>2. Len(file) + 1 \in 1..Len(file) + 1 /\ height + 1 <= height + 1 /\ ~(height + 1 <= height)
      BY <1>1, SMT
    <3>3. EntryHolds(file, Len(file) + 1, height + 1, height)
      BY <3>2 DEF EntryHolds, FileHolds
    <3> QED BY <3>1, <3>3
  <2>2. CASE i \in DOMAIN index /\ ix[i] = index[i]
    BY <2>2 DEF FileHolds
  <2> QED BY <1>1, <1>5, <2>1, <2>2, NotedIs DEF FileHolds
<1> HIDE DEF ix
<1> QED BY <1>4, <1>5 DEF FileHolds, ix, recs

-----------------------------------------------------------------------------
(* iter finds every height that is saved, because an entry it starts from    *)
(* skips nothing it should find.                                             *)
LEMMA IterFinds == FileHolds(file, index, height) => IterSkipsNothing
<1> SUFFICES ASSUME FileHolds(file, index, height), NEW from \in 1..MaxHeight,
                    NEW x \in Range(file), from <= x.h, x.h <= height
             PROVE  \E y \in Range(iter(from)) : y.h = x.h
  <2> SUFFICES ASSUME FileHolds(file, index, height), NEW from \in 1..MaxHeight,
                      NEW v \in {r.h : r \in {x \in Range(file) : from <= x.h /\ x.h <= height}}
               PROVE  v \in {r.h : r \in Range(iter(from))}
    BY DEF IterSkipsNothing
  <2>1. PICK x \in Range(file) : from <= x.h /\ x.h <= height /\ v = x.h
    OBVIOUS
  <2> QED BY <2>1
<1> DEFINE entries == {i \in DOMAIN index : i <= from \div INDEX_INTERVAL /\ index[i] # 0}
           pos == IF entries = {} THEN 1 ELSE index[Max(entries)]
           tail == SubSeq(file, pos, Len(file))
           wanted == {i \in DOMAIN tail : tail[i].h >= from}
           out == IF wanted = {} THEN <<>> ELSE SubSeq(tail, Min(wanted), Len(tail))
<1>1. iter(from) = out
  BY DEF iter
<1>2. IsRecs(file) /\ Len(file) \in Nat /\ DOMAIN file = 1..Len(file) /\ height \in Nat
  BY Recs DEF FileHolds
<1>3. PICK m \in 1..Len(file) : file[m] = x
  BY <1>2 DEF Range
<1>4. x.h \in Nat
  BY <1>2, <1>3 DEF IsRecs
<1>5. ASSUME entries # {}
      PROVE  \E at \in Nat : at <= from /\ EntryHolds(file, pos, at, height)
  <2> DEFINE e == Max(entries)
  <2>1. entries \in SUBSET (0..MaxHeight) /\ MaxHeight \in Nat
    <3>1. DOMAIN index \subseteq 1..MaxHeight /\ MaxHeight \in Nat
      BY FilterAssumption DEF FileHolds, FilterAssumption
    <3>2. \A i \in 1..MaxHeight : i \in 0..MaxHeight
      BY <3>1, SMT
    <3> QED BY <3>1, <3>2
  <2>2. e \in entries
    <3> HIDE DEF entries
    <3> QED BY <1>5, <2>1, Largest
  <2>3. e \in DOMAIN index /\ e \in 1..MaxHeight /\ e <= from \div INDEX_INTERVAL /\ pos = index[e]
    BY <1>5, <2>2 DEF FileHolds
  <2> HIDE DEF e
  <2>4. e * INDEX_INTERVAL \in Nat /\ e * INDEX_INTERVAL <= from
    <3>1. INDEX_INTERVAL \in Nat \ {0}
      BY FilterAssumption DEF FilterAssumption
    <3> QED BY <2>1, <2>3, <3>1, SMT
  <2> QED BY <2>3, <2>4 DEF FileHolds
<1>6. pos \in 1..Len(file) + 1
  <2>1. CASE entries = {}
    BY <1>2, <2>1, SMT
  <2>2. CASE entries # {}
    BY <1>5, <2>2 DEF EntryHolds
  <2> QED BY <2>1, <2>2
<1>7. \E k \in 1..Len(file) : pos <= k /\ file[k].h = x.h
  <2>1. CASE pos <= m
    BY <1>3, <2>1
  <2>2. CASE ~(pos <= m)
    <3>1. m < pos
      BY <1>2, <1>6, <2>2, SMT
    <3>2. entries # {}
      BY <1>2, <3>1, SMT
    <3>3. PICK at \in Nat : at <= from /\ EntryHolds(file, pos, at, height)
      BY <1>5, <3>2
    <3>4. x.h <= at
      BY <1>3, <3>1, <3>3 DEF EntryHolds
    <3> DEFINE v == x.h
    <3>5. v = at /\ at <= height
      <4>1. v \in Nat /\ from <= v /\ v <= height /\ v <= at /\ at <= from /\ MaxHeight \in Nat
        BY <1>4, <3>3, <3>4, FilterAssumption DEF FilterAssumption
      <4> HIDE DEF v
      <4> QED BY <1>2, <4>1, SMT
    <3>6. pos \in 1..Len(file) /\ file[pos].h = at
      BY <3>3, <3>5 DEF EntryHolds
    <3>7. pos <= pos
      <4> HIDE DEF pos
      <4> QED BY <1>2, <3>6, SMT
    <3> QED BY <3>5, <3>6, <3>7
  <2> QED BY <2>1, <2>2
<1> HIDE DEF pos
<1>8. PICK k \in 1..Len(file) : pos <= k /\ file[k].h = x.h
  BY <1>7
<1>9. PICK S : file \in Seq(S)
  BY <1>2 DEF IsRecs
<1>10. /\ tail \in Seq(S) /\ DOMAIN tail = 1..Len(tail) /\ Len(tail) \in Nat
       /\ k - pos + 1 \in 1..Len(tail) /\ tail[k - pos + 1] = file[k]
  BY <1>2, <1>6, <1>8, <1>9, SMT
<1> HIDE DEF tail
<1> DEFINE j == k - pos + 1
<1>11. j \in wanted /\ tail[j].h = x.h
  <2>1. from <= x.h => x.h >= from
    <3> DEFINE v == x.h
    <3>1. v \in Nat /\ MaxHeight \in Nat
      BY <1>4, FilterAssumption DEF FilterAssumption
    <3> HIDE DEF v
    <3>2. from <= v => v >= from
      BY <3>1, SMT
    <3> QED BY <3>2 DEF v
  <2> QED BY <1>8, <1>10, <2>1
<1>12. j \in 1..Len(tail) /\ wanted \in SUBSET Nat /\ wanted # {}
  <2>1. \A i \in DOMAIN tail : i \in Nat
    BY <1>10, SMT
  <2> QED BY <1>10, <1>11, <2>1
<1> HIDE DEF j
<1> DEFINE low == Min(wanted)
<1>13. low \in wanted /\ low <= j
  <2> HIDE DEF wanted
  <2> QED BY <1>11, <1>12, Smallest
<1>14. low \in 1..Len(tail)
  BY <1>10, <1>13
<1>15. out = SubSeq(tail, low, Len(tail))
  BY <1>12
<1> HIDE DEF low, wanted, out
<1>16. j - low + 1 \in DOMAIN out /\ out[j - low + 1] = tail[j]
  <2>1. \A s \in Seq(S) : \A l \in 1..Len(s) : \A i \in 1..Len(s) :
          l <= i => /\ i - l + 1 \in DOMAIN SubSeq(s, l, Len(s))
                    /\ SubSeq(s, l, Len(s))[i - l + 1] = s[i]
    BY SMT
  <2> QED BY <1>10, <1>12, <1>13, <1>14, <1>15, <2>1
<1> QED BY <1>1, <1>11, <1>16 DEF Range

-----------------------------------------------------------------------------
(* The height that download_filters starts from is one.                      *)
LEMMA NatOf == ASSUME NEW a \in Int PROVE Max({0, a}) \in Nat /\ Max({0, a}) >= a
<1>1. \E y \in {0, a} : \A z \in {0, a} : y >= z
  BY SMT
<1>2. Max({0, a}) \in {0, a} /\ \A z \in {0, a} : Max({0, a}) >= z
  BY <1>1 DEF Max
<1> QED BY <1>2, SMT

(* The smaller of two numbers.                                             *)
LEMMA LessOf == ASSUME NEW a \in Int, NEW b \in Int
                PROVE  Min({a, b}) \in {a, b} /\ Min({a, b}) <= a /\ Min({a, b}) <= b
<1>1. \E y \in {a, b} : \A z \in {a, b} : y <= z
  BY SMT
<1> QED BY <1>1 DEF Min

(* Where download_filters starts: behind the saved height, unless nothing  *)
(* is saved yet.                                                           *)
LEMMA StartIs ==
  ASSUME FiltersInv
  PROVE  Best \in Nat /\ StartAt \in Nat /\ (height # 0 => StartAt = height)
<1>1. Best \in Nat
  BY SMT DEF FiltersInv, Best
<1>2. height \in Nat /\ filter_start_height \in Int
  BY FilterAssumption DEF FiltersInv, FileHolds, FilterAssumption
<1> DEFINE from == IF filter_start_height < 0 THEN Max({0, Best + filter_start_height})
                   ELSE filter_start_height
<1>3. from \in Int
  <2>1. Best + filter_start_height \in Int
    BY <1>1, <1>2, SMT
  <2>2. Max({0, Best + filter_start_height}) \in Nat
    BY <2>1, NatOf
  <2>3. \A n \in Nat : n \in Int
    BY SMT
  <2> QED BY <1>2, <2>2, <2>3
<1>4. StartAt = IF height = 0 THEN Max({0, from - 1}) ELSE height
  BY DEF StartAt
<1> HIDE DEF from
<1>5. from - 1 \in Int
  BY <1>3, SMT
<1> QED BY <1>1, <1>2, <1>4, <1>5, NatOf

(* What a request leaves still to come.                                      *)
Requested(r) == IsRecs(r.stream) /\ r.last \in Nat
(* The filters of the blocks asked for.                                    *)
LEMMA AskedFor ==
  ASSUME Best \in Nat, NEW from \in Nat, NEW to \in Nat, NEW rest, IsRecs(rest)
  PROVE  Requested(Ask(from, to, rest))
<1> DEFINE n == Max({0, Min({to, Best}) - from})
           new == [i \in 1..n |-> Block(from + i)]
<1>1. n \in Nat
  <2>1. Min({to, Best}) - from \in Int
    <3>1. to \in Int /\ Best \in Int
      BY SMT
    <3>2. Min({to, Best}) \in {to, Best}
      BY <3>1, LessOf
    <3> QED BY <3>2, SMT
  <2> QED BY <2>1, NatOf
<1> HIDE DEF n
<1>2. \A i \in 1..n : new[i].h = from + i /\ from + i \in Nat
  <2>1. \A i \in 1..n : from + i \in Nat
    BY <1>1, SMT
  <2> QED BY <2>1 DEF Block
<1>3. new = [i \in 1..n |-> new[i]]
  OBVIOUS
<1> HIDE DEF new
<1>4. IsRecs(new)
  BY <1>1, <1>2, <1>3, Listed
<1>5. IsRecs(rest \o new)
  BY <1>4, Joined DEF IsJoin
<1> QED BY <1>5 DEF Requested, Ask, n, new

(* download_filters leaves a stream of filters and a last filter.          *)
LEMMA DownloadAsks ==
  ASSUME Best \in Nat, NEW from \in Nat, NEW r, Requested(r)
  PROVE  Requested(download_filters(from, r))
<1>1. CASE from >= Best
  BY <1>1 DEF download_filters
<1>2. CASE ~(from >= Best)
  <2>1. Batch \in Nat
    BY FilterAssumption DEF FilterAssumption
  <2>2. from + Batch \in Nat /\ Best \in Int /\ from + Batch \in Int
    BY <2>1, SMT
  <2>3. Min({Best, from + Batch}) \in Nat
    BY <2>2, LessOf
  <2> QED BY <1>2, <2>3, AskedFor DEF download_filters, Requested
<1> QED BY <1>1, <1>2

(* What Arrive stores: the filter, and those kept for later that follow.     *)
LEMMA StoredFollows ==
  ASSUME NEW f, f.h \in Nat, f.h = height + 1, height \in Nat
  PROVE  /\ Drained(f.h) \in Nat
         /\ Follows(Stored(f), f.h + Drained(f.h))
<1> DEFINE K == {k \in 0..MaxHeight : \A i \in 0..(k - 1) : f.h + i \in DOMAIN early}
           D == Drained(f.h)
           more == [i \in 1..D |-> [h |-> f.h + i - 1, blk |-> early[f.h + i - 1]]]
           recs == Stored(f)
<1>1. D \in Nat
  <2>1. MaxHeight \in Nat
    BY FilterAssumption DEF FilterAssumption
  <2>2. 0 \in K
    BY <2>1, SMT
  <2>3. K \in SUBSET (0..MaxHeight) /\ K # {}
    BY <2>2
  <2>4. D = Max(K)
    BY DEF Drained
  <2> HIDE DEF K
  <2>5. D \in 0..MaxHeight
    BY <2>1, <2>3, <2>4, Largest
  <2> QED BY <2>1, <2>5, SMT
<1> HIDE DEF D
<1> DEFINE a == f.h
<1>2. a \in Nat /\ a = height + 1
  OBVIOUS
<1>3. \A i \in 1..D : more[i].h = a + i - 1
  OBVIOUS
<1>4. more = [i \in 1..D |-> more[i]]
  OBVIOUS
<1> HIDE DEF more, a
<1>5. \A i \in 1..D : a + i - 1 \in Nat
  BY <1>1, <1>2, SMT
<1>6. IsRecs(more) /\ Len(more) = D
  BY <1>1, <1>3, <1>4, <1>5, Listed
<1>7. IsRecs(<<f>>) /\ Len(<<f>>) = 1 /\ <<f>>[1] = f
  BY One
<1>8. recs = <<f>> \o more
  BY DEF Stored, D, more
<1>9. IsJoin(recs, <<f>>, more)
  BY <1>6, <1>7, <1>8, Joined
<1> HIDE DEF recs
<1>10. IsRecs(recs) /\ Len(recs) = 1 + D
  BY <1>6, <1>7, <1>9 DEF IsJoin
<1>11. recs[1].h = a
  <2>1. 1 \in 1..1
    BY SMT
  <2> QED BY <1>7, <1>9, <2>1 DEF IsJoin, a
<1>12. ASSUME NEW i \in 1..Len(recs), i # 1 PROVE recs[i].h = a + (i - 1) - 1
  <2>1. i - 1 \in 1..D /\ 1 + (i - 1) = i
    BY <1>1, <1>10, <1>12, SMT
  <2>2. recs[i] = more[i - 1]
    BY <1>6, <1>7, <1>9, <2>1 DEF IsJoin
  <2> QED BY <1>3, <2>1, <2>2
<1>13. ASSUME NEW i \in 1..Len(recs), NEW j \in 1..Len(recs), i <= j
       PROVE  recs[i].h <= recs[j].h
  <2>1. CASE j = 1
    <3>1. i = 1
      BY <1>10, <1>13, <2>1, <1>1, SMT
    <3>2. a <= a
      BY <1>2, SMT
    <3> QED BY <1>11, <2>1, <3>1, <3>2
  <2>2. CASE i = 1 /\ j # 1
    <3>1. a <= a + (j - 1) - 1
      BY <1>1, <1>2, <1>10, <2>2, SMT
    <3> QED BY <1>11, <1>12, <2>2, <3>1
  <2>3. CASE i # 1 /\ j # 1
    <3>1. a + (i - 1) - 1 <= a + (j - 1) - 1
      BY <1>1, <1>2, <1>10, <1>13, SMT
    <3> QED BY <1>12, <2>3, <3>1
  <2> QED BY <2>1, <2>2, <2>3
<1>14. ASSUME NEW i \in 1..Len(recs) PROVE recs[i].h <= (a + D) + 1
  <2>1. CASE i = 1
    <3>1. a <= (a + D) + 1
      BY <1>1, <1>2, SMT
    <3> QED BY <1>11, <2>1, <3>1
  <2>2. CASE i # 1
    <3>1. a + (i - 1) - 1 <= (a + D) + 1
      BY <1>1, <1>2, <1>10, SMT
    <3> QED BY <1>12, <2>2, <3>1
  <2> QED BY <2>1, <2>2
<1>15. 1 \in 1..Len(recs)
  BY <1>1, <1>10, SMT
<1> QED BY <1>1, <1>2, <1>10, <1>11, <1>13, <1>14, <1>15 DEF Follows, D, a, recs

(* Before the first height is saved the index is empty: its entries are for  *)
(* heights of two and more.                                                  *)
LEMMA StartHolds ==
  ASSUME FileHolds(file, index, height), NEW ht \in Nat, height # 0 => ht = height
  PROVE  FileHolds(file, index, ht)
<1>1. CASE height # 0
  BY <1>1
<1>2. CASE height = 0
  <2>1. ASSUME NEW i \in DOMAIN index PROVE FALSE
    <3>1. i \in 1..MaxHeight /\ INDEX_INTERVAL \in Nat \ {0, 1} /\ i * INDEX_INTERVAL <= 0 + 1
      BY <1>2, <2>1, FilterAssumption DEF FileHolds, EntryHolds, FilterAssumption
    <3>2. MaxHeight \in Nat
      BY FilterAssumption DEF FilterAssumption
    <3> QED BY <3>1, <3>2, SMT
  <2>2. ASSUME NEW i \in 1..Len(file) PROVE file[i].h <= ht + 1
    <3> DEFINE v == file[i].h
    <3>1. v \in Nat /\ v <= 0 + 1
      BY <1>2, <2>2 DEF FileHolds, IsRecs
    <3> HIDE DEF v
    <3>2. v <= ht + 1
      BY <3>1, SMT
    <3> QED BY <3>2 DEF v
  <2> QED BY <2>1, <2>2 DEF FileHolds
<1> QED BY <1>1, <1>2

(* The filter file starts empty.                                           *)
LEMMA InitFiltersInv == FilterInit => FiltersInv
<1> SUFFICES ASSUME FilterInit PROVE FiltersInv
  OBVIOUS
<1>1. /\ file = <<>> /\ height = 0 /\ stream = <<>> /\ last_filter = 0
      /\ chain = [h \in 1..2 |-> 0] /\ DOMAIN index = {}
  BY DEF FilterInit
<1>2. <<>> \in Seq({}) /\ Len(<<>>) = 0 /\ \A i \in 1..0 : FALSE
  BY SMT
<1>3. IsRecs(<<>>)
  BY <1>2 DEF IsRecs
<1>4. chain \in Seq({0})
  BY <1>1, SMT
<1>5. 0 \in Nat
  BY SMT
<1>6. FileHolds(file, index, height)
  BY <1>1, <1>2, <1>3, <1>5 DEF FileHolds
<1> QED BY <1>1, <1>3, <1>4, <1>5, <1>6 DEF FiltersInv

(* A filter arrives: one for a block we do not know, one for later, or the   *)
(* next one.                                                                 *)
LEMMA ArriveKeeps == ASSUME FiltersInv, Arrive PROVE FiltersInv'
<1> DEFINE f == Head(stream)
           rest == [asked |-> asked, last |-> last_filter, stream |-> Tail(stream)]
           at == f.h + Drained(f.h)
           left == DOMAIN early \ (f.h..(at - 1))
           finished == last_filter = at /\ at <= Best /\ left = {}
           next == IF finished THEN download_filters(at, [rest EXCEPT !.asked = FALSE]) ELSE rest
<1>1. FileHolds(file, index, height) /\ height \in Nat /\ Best \in Nat
  BY StartIs DEF FiltersInv, FileHolds
<1>2. IsRecs(Tail(stream)) /\ f.h \in Nat
  BY Dropped DEF FiltersInv, Arrive
<1>3. rest.stream = Tail(stream) /\ rest.last = last_filter
  OBVIOUS
<1>4. /\ [rest EXCEPT !.asked = FALSE].stream = Tail(stream)
      /\ [rest EXCEPT !.asked = FALSE].last = last_filter
  BY SMT
<1>5. chain' = chain /\ stream # <<>>
  BY DEF Arrive
<1>6. \/ Becomes(rest) /\ UNCHANGED <<file, index, height>>
      \/ f.h = height + 1 /\ put_filter(Stored(f)) /\ height' = at /\ Becomes(next)
  BY DEF Arrive
<1>7. Requested(rest)
  BY <1>2, <1>3 DEF Requested, FiltersInv
<1>8. Requested([rest EXCEPT !.asked = FALSE])
  BY <1>2, <1>4 DEF Requested, FiltersInv
<1> HIDE DEF rest
<1>9. CASE Becomes(rest) /\ UNCHANGED <<file, index, height>>
  BY <1>1, <1>5, <1>7, <1>9 DEF Becomes, Requested, FiltersInv
<1>10. CASE f.h = height + 1 /\ put_filter(Stored(f)) /\ height' = at /\ Becomes(next)
  <2>1. Drained(f.h) \in Nat /\ Follows(Stored(f), at)
    BY <1>1, <1>2, <1>10, StoredFollows
  <2> DEFINE a == f.h
             D == Drained(f.h)
  <2>2. at \in Nat /\ height <= at
    <3>1. a \in Nat /\ a = height + 1 /\ D \in Nat /\ at = a + D
      BY <1>2, <1>10, <2>1
    <3> HIDE DEF a, D, at
    <3> QED BY <1>1, <3>1, SMT
  <2> HIDE DEF at, f
  <2>3. FileHolds(file', index', height')
    BY <1>1, <1>10, <2>1, <2>2, PutHolds DEF put_filter
  <2>4. Requested(next)
    <3>1. Requested(download_filters(at, [rest EXCEPT !.asked = FALSE]))
      BY <1>1, <1>8, <2>2, DownloadAsks
    <3> QED BY <1>7, <3>1
  <2> HIDE DEF next
  <2> QED BY <1>5, <1>10, <2>3, <2>4 DEF Becomes, Requested, FiltersInv
<1> QED BY <1>6, <1>9, <1>10

(* A crash, between two puts or in one.                                      *)
LEMMA CrashKeeps == ASSUME FiltersInv, CrashBetween \/ CrashInPut PROVE FiltersInv'
<1>1. FileHolds(file, index, height) /\ height \in Nat
  BY DEF FiltersInv, FileHolds
<1>2. chain' = chain /\ height' = height /\ stream' = <<>> /\ last_filter' = height
  BY DEF CrashBetween, CrashInPut, FiltersRestart
<1>3. IsRecs(<<>>)
  <2>1. <<>> \in Seq({}) /\ Len(<<>>) = 0 /\ \A i \in 1..0 : FALSE
    BY SMT
  <2> QED BY <2>1 DEF IsRecs
<1>4. FileHolds(file', index', height)
  <2>1. CASE CrashBetween
    BY <1>1, <2>1 DEF CrashBetween
  <2>2. CASE CrashInPut
    <3> DEFINE f == Head(stream)
    <3>1. stream # <<>> /\ f.h = height + 1
      BY <2>2 DEF CrashInPut
    <3>2. f.h \in Nat
      BY <3>1, Dropped DEF FiltersInv
    <3>3. \/ file' = file \o <<f>> /\ index' = Noted(<<f>>)
          \/ file' = file /\ index' = Noted(<<f>>)
      BY <2>2 DEF CrashInPut, put_filter
    <3> HIDE DEF f
    <3>4. Follows(<<f>>, height)
      <4>1. IsRecs(<<f>>) /\ Len(<<f>>) = 1 /\ <<f>>[1] = f
        BY <3>2, One
      <4>2. \A i \in 1..1 : i = 1
        BY SMT
      <4>3. 1 \in 1..1 /\ height + 1 <= height + 1
        BY <1>1, SMT
      <4> QED BY <3>1, <4>1, <4>2, <4>3 DEF Follows
    <3>5. height <= height
      BY <1>1, SMT
    <3>6. FileHolds(file \o <<f>>, Noted(<<f>>), height)
      BY <1>1, <3>4, <3>5, PutHolds
    <3>7. FileHolds(file, Noted(<<f>>), height)
      BY <1>1, <3>2, <3>4, NoteHolds
    <3> QED BY <3>3, <3>6, <3>7
  <2> QED BY <2>1, <2>2
<1> QED BY <1>1, <1>2, <1>3, <1>4 DEF FiltersInv

(* Every other step leaves the file alone.                                 *)
LEMMA OthersKeep ==
  ASSUME FiltersInv, Download \/ Lose \/ Expire \/ NewBlock \/ Reorg
  PROVE  FiltersInv'
<1>1. /\ FileHolds(file, index, height) /\ height \in Nat /\ Best \in Nat
      /\ StartAt \in Nat /\ (height # 0 => StartAt = height)
  BY StartIs DEF FiltersInv, FileHolds
<1>2. CASE Download
  <2> DEFINE now == [asked |-> asked, last |-> last_filter, stream |-> stream]
  <2>1. Requested(now)
    BY DEF Requested, FiltersInv
  <2> HIDE DEF now
  <2>2. Requested(download_filters(StartAt, now))
    BY <1>1, <2>1, DownloadAsks
  <2>3. /\ height' = StartAt /\ Becomes(download_filters(StartAt, now))
        /\ UNCHANGED <<chain, file, index>>
    BY <1>2 DEF Download, now
  <2>4. FileHolds(file, index, StartAt)
    BY <1>1, StartHolds
  <2> QED BY <2>2, <2>3, <2>4 DEF Becomes, Requested, FiltersInv
<1>3. CASE Lose
  <2>1. IsRecs(Tail(stream))
    BY <1>3, Dropped DEF Lose, FiltersInv
  <2> QED BY <1>3, <2>1 DEF Lose, FiltersInv
<1>4. CASE Expire
  <2>1. IsRecs(<<>>)
    BY <1>4 DEF Expire, FiltersInv
  <2>2. Requested(Ask(height, last_filter, <<>>))
    BY <1>1, <2>1, AskedFor DEF FiltersInv
  <2> QED BY <1>4, <2>2 DEF Expire, Becomes, Requested, FiltersInv
<1>5. CASE NewBlock
  <2>1. PICK S : chain \in Seq(S)
    BY DEF FiltersInv
  <2> DEFINE b == IF chain = <<>> THEN 0 ELSE chain[Best]
             T == S \cup {b}
  <2>2. chain \in Seq(T) /\ b \in T
    <3> HIDE DEF b
    <3> QED BY <2>1, SMT
  <2>3. chain' = Append(chain, b)
    BY <1>5 DEF NewBlock
  <2> HIDE DEF b, T
  <2>4. chain' \in Seq(T)
    BY <2>2, <2>3, SMT
  <2> QED BY <1>5, <2>4 DEF NewBlock, FiltersInv
<1>6. CASE Reorg
  <2>1. PICK S : chain \in Seq(S)
    BY DEF FiltersInv
  <2> DEFINE b == chain[Best] + 1
             T == S \cup {b}
  <2>2. chain' = [chain EXCEPT ![Best] = b]
    BY <1>6 DEF Reorg
  <2> HIDE DEF b
  <2>3. chain \in [1..Len(chain) -> S] /\ Len(chain) \in Nat
    BY <2>1, SMT
  <2>4. chain' \in [1..Len(chain) -> T]
    BY <2>2, <2>3
  <2> HIDE DEF T
  <2>5. chain' \in Seq(T)
    BY <2>3, <2>4, SMT
  <2> QED BY <1>6, <2>5 DEF Reorg, FiltersInv
<1> QED BY <1>2, <1>3, <1>4, <1>5, <1>6

(* Starting from its index, a read of the filter file misses no height that  *)
(* counts as saved, whatever losses, crashes inside put_filter and reorgs    *)
(* there were.                                                               *)
THEOREM FilterFileSkipsNothing == FilterSpec => []IterSkipsNothing
<1>1. FiltersInv /\ UNCHANGED filterVars => FiltersInv'
  BY DEF FiltersInv, filterVars
<1>2. FiltersInv /\ [FilterNext]_filterVars => FiltersInv'
  BY <1>1, ArriveKeeps, CrashKeeps, OthersKeep DEF FilterNext
<1>3. FiltersInv => IterSkipsNothing
  BY IterFinds DEF FiltersInv
<1> QED BY <1>2, <1>3, InitFiltersInv, PTL DEF FilterSpec

-----------------------------------------------------------------------------
(* The mempool.  h is what is held and s the size that is kept by hand, at *)
(* any point of consume_block.  A child may have left: it stays listed,    *)
(* and spends what lists it when it comes back.                            *)
Entry == [depends : SUBSET Txs, children : SUBSET Txs, stale : BOOLEAN]
IsPool(h) == h \in [DOMAIN h -> Entry] /\ DOMAIN h \subseteq Txs /\ IsFiniteSet(DOMAIN h)
LinksOf(h) ==
  \A t \in DOMAIN h :
    /\ \A d \in h[t].depends : d \in DOMAIN h /\ t \in h[d].children
    /\ \A c \in h[t].children : c \in DOMAIN h => t \in h[c].depends
ChildrenSpend(h) ==
  \A t \in DOMAIN h : \A c \in h[t].children : \E o \in Range(Inputs[c]) : o[1] = t
ChildrenApart(h) ==
  \A t \in DOMAIN h : \A c, d \in h[t].children :
    c \in DOMAIN h /\ d \in DOMAIN h /\ c # d =>
      \A o \in Range(Inputs[c]) : o \in Range(Inputs[d]) => o[1] # t
TotalOf(h, s) == s = SumFunctionOnSet(Size, DOMAIN h) /\ s \in Nat /\ s <= max_mempool_size
Sound(h, s) == IsPool(h) /\ LinksOf(h) /\ ChildrenSpend(h) /\ ChildrenApart(h) /\ TotalOf(h, s)
MInv == Sound(transactions, mempool_size)

(* What an entry is after one of its fields was changed.                     *)
Replaced(e, q, f) ==
  /\ q \in Entry
  /\ f # "depends" => q.depends = e.depends
  /\ f # "children" => q.children = e.children
(* An entry with other parents.                                            *)
LEMMA DependsReplaced ==
  ASSUME NEW e \in Entry, NEW S \in SUBSET Txs
  PROVE  Replaced(e, [e EXCEPT !.depends = S], "depends") /\ [e EXCEPT !.depends = S].depends = S
BY DEF Replaced, Entry
(* An entry with other children.                                           *)
LEMMA ChildrenReplaced ==
  ASSUME NEW e \in Entry, NEW S \in SUBSET Txs
  PROVE  Replaced(e, [e EXCEPT !.children = S], "children") /\ [e EXCEPT !.children = S].children = S
BY DEF Replaced, Entry
(* An entry that has grown old.                                            *)
LEMMA StaleReplaced ==
  ASSUME NEW e \in Entry
  PROVE  Replaced(e, [e EXCEPT !.stale = TRUE], "stale")
BY DEF Replaced, Entry

(* The sizes add up when one transaction leaves or comes.                    *)
LEMMA SizeWithout ==
  ASSUME NEW S \in SUBSET Txs, IsFiniteSet(S), NEW t \in S
  PROVE  /\ SumFunctionOnSet(Size, S) = Size[t] + SumFunctionOnSet(Size, S \ {t})
         /\ SumFunctionOnSet(Size, S) \in Nat /\ SumFunctionOnSet(Size, S \ {t}) \in Nat
         /\ Size[t] \in Nat
<1>1. \A y \in S : Size[y] \in Nat
  BY PoolAssumption
<1>2. TakenOut(Size, S, t)
  BY <1>1, SumWithout
<1>3. IsFiniteSet(S \ {t}) /\ \A y \in S \ {t} : Size[y] \in Nat
  BY <1>1, FS_RemoveElement
<1> QED BY <1>1, <1>2, <1>3, SumNat DEF TakenOut

-----------------------------------------------------------------------------
(* A transaction of a block leaves: its children stop depending on it.       *)
LEMMA UnlinkedIs ==
  ASSUME NEW h, IsPool(h), LinksOf(h), NEW t \in DOMAIN h
  PROVE  LET g == Unlinked(h, t)
         IN  /\ IsPool(g) /\ DOMAIN g = DOMAIN h \ {t}
             /\ \A u \in DOMAIN g : /\ g[u].children = h[u].children
                                    /\ g[u].depends = h[u].depends \ {t}
<1> DEFINE g == Unlinked(h, t)
<1>1. DOMAIN g = DOMAIN h \ {t} /\ DOMAIN g \subseteq Txs /\ IsFiniteSet(DOMAIN g)
  BY FS_RemoveElement DEF Unlinked, IsPool
<1>2. g = [u \in DOMAIN g |-> g[u]]
  BY DEF Unlinked
<1>3. ASSUME NEW u \in DOMAIN h \ {t}
      PROVE  g[u] \in Entry /\ g[u].children = h[u].children /\ g[u].depends = h[u].depends \ {t}
  <2> DEFINE S == IF u \in h[t].children THEN h[u].depends \ {t} ELSE h[u].depends
  <2>1. h[u] \in Entry /\ h[u].depends \in SUBSET Txs
    BY DEF IsPool, Entry
  <2>2. S \in SUBSET Txs /\ S = h[u].depends \ {t}
    BY <2>1 DEF LinksOf
  <2>3. g[u] = [h[u] EXCEPT !.depends = S]
    BY DEF Unlinked
  <2> HIDE DEF S
  <2> DEFINE q == [h[u] EXCEPT !.depends = S]
  <2>4. Replaced(h[u], q, "depends") /\ q.depends = S
    BY <2>1, <2>2, DependsReplaced
  <2> HIDE DEF q, g
  <2>5. q \in Entry /\ q.children = h[u].children /\ q.depends = h[u].depends \ {t}
    BY <2>2, <2>4 DEF Replaced
  <2> QED BY <2>3, <2>5 DEF q
<1> HIDE DEF g
<1>4. IsPool(g)
  BY <1>1, <1>2, <1>3 DEF IsPool
<1> QED BY <1>1, <1>3, <1>4 DEF g

(* ... and the books stay right (consume_block).                             *)
LEMMA UnlinkedSound ==
  ASSUME NEW h, NEW s, Sound(h, s), NEW t \in DOMAIN h
  PROVE  Sound(Unlinked(h, t), s - Size[t])
<1> DEFINE g == Unlinked(h, t)
<1>1. /\ IsPool(g) /\ DOMAIN g = DOMAIN h \ {t}
      /\ \A u \in DOMAIN g : g[u].children = h[u].children /\ g[u].depends = h[u].depends \ {t}
  BY UnlinkedIs DEF Sound
<1> HIDE DEF g
<1>2. LinksOf(g)
  BY <1>1 DEF Sound, LinksOf
<1>3. ChildrenSpend(g) /\ ChildrenApart(g)
  BY <1>1 DEF Sound, ChildrenSpend, ChildrenApart
<1>4. TotalOf(g, s - Size[t])
  <2>1. /\ SumFunctionOnSet(Size, DOMAIN h) = Size[t] + SumFunctionOnSet(Size, DOMAIN g)
        /\ SumFunctionOnSet(Size, DOMAIN g) \in Nat /\ Size[t] \in Nat
    BY <1>1, SizeWithout DEF Sound, IsPool
  <2>2. s \in Nat /\ s <= max_mempool_size /\ max_mempool_size \in Nat
        /\ s = SumFunctionOnSet(Size, DOMAIN h)
    BY PoolAssumption DEF Sound, TotalOf
  <2>3. ASSUME NEW a \in Nat, NEW b \in Nat, s = a + b PROVE s - a = b /\ b <= max_mempool_size
    BY <2>2, <2>3, SMT
  <2> QED BY <2>1, <2>2, <2>3 DEF TotalOf
<1> QED BY <1>1, <1>2, <1>3, <1>4 DEF Sound, g

(* The block, transaction by transaction.                                    *)
Given(h, s) == [held |-> h, size |-> s]
Leaves(f, block, h, s, n) ==
  f = [i \in 0..n |-> IF i = 0 THEN Given(h, s) ELSE Without(f[i - 1], block[i])]

(* The loop of consume_block is a function of the position in the block.     *)
LEMMA LeavesExists ==
  ASSUME NEW block, NEW h, NEW s
  PROVE  \A n \in Nat : \E f : Leaves(f, block, h, s, n)
<1> DEFINE Bad == {n \in Nat : ~\E f : Leaves(f, block, h, s, n)}
<1>1. SUFFICES ASSUME Bad # {} PROVE FALSE
  OBVIOUS
<1>2. PICK n \in Bad : \A k \in Bad : n <= k
  BY <1>1, Least
<1>3. CASE n = 0
  <2> DEFINE f == [i \in 0..0 |-> Given(h, s)]
  <2>1. \A i \in 0..0 : i = 0
    BY SMT
  <2>2. Leaves(f, block, h, s, 0)
    BY <2>1 DEF Leaves
  <2> QED BY <1>3, <2>2
<1>4. CASE n # 0
  <2>1. n - 1 \in Nat /\ ~(n <= n - 1)
    BY <1>4, SMT
  <2>2. n - 1 \notin Bad
    BY <1>2, <2>1
  <2>3. PICK f : Leaves(f, block, h, s, n - 1)
    BY <2>1, <2>2
  <2> DEFINE e == [i \in 0..n |-> IF i = 0 THEN Given(h, s) ELSE Without(f[i - 1], block[i])]
  <2>4. ASSUME NEW i \in 0..n, i # 0 PROVE f[i - 1] = e[i - 1]
    <3>1. i - 1 \in 0..n - 1 /\ i - 1 \in 0..n
      BY <2>4, SMT
    <3>2. f[i - 1] = IF i - 1 = 0 THEN Given(h, s) ELSE Without(f[(i - 1) - 1], block[i - 1])
      BY <2>3, <3>1 DEF Leaves
    <3> QED BY <3>1, <3>2
  <2>5. e = [i \in 0..n |-> IF i = 0 THEN Given(h, s) ELSE Without(e[i - 1], block[i])]
    BY <2>4
  <2> HIDE DEF e
  <2>6. Leaves(e, block, h, s, n)
    BY <2>5 DEF Leaves
  <2> QED BY <2>6
<1> QED BY <1>3, <1>4

(* The books are right after each of its rounds.                             *)
LEMMA LeavesSound ==
  ASSUME NEW block, NEW h, NEW s, Sound(h, s), NEW n \in Nat, NEW f, Leaves(f, block, h, s, n)
  PROVE  Sound(f[n].held, f[n].size)
<1> DEFINE Bad == {i \in Nat : i \in 0..n /\ ~Sound(f[i].held, f[i].size)}
<1>1. SUFFICES ASSUME Bad # {} PROVE FALSE
  <2>1. n \in 0..n
    BY SMT
  <2> QED BY <2>1
<1>2. PICK i \in Bad : \A k \in Bad : i <= k
  BY <1>1, Least
<1>3. CASE i = 0
  <2>1. 0 \in 0..n
    BY SMT
  <2>2. f[0] = Given(h, s)
    BY <2>1 DEF Leaves
  <2>3. Given(h, s).held = h /\ Given(h, s).size = s
    BY DEF Given
  <2> QED BY <1>2, <1>3, <2>2, <2>3
<1>4. CASE i # 0
  <2>1. i - 1 \in Nat /\ i - 1 \in 0..n /\ ~(i <= i - 1)
    BY <1>2, <1>4, SMT
  <2> DEFINE m == f[i - 1]
             t == block[i]
  <2>2. Sound(m.held, m.size)
    BY <1>2, <2>1
  <2>3. f[i] = Without(m, t)
    BY <1>2, <1>4 DEF Leaves
  <2> HIDE DEF m, t
  <2>4. CASE t \in DOMAIN m.held
    <3>1. Without(m, t).held = Unlinked(m.held, t) /\ Without(m, t).size = m.size - Size[t]
      BY <2>4 DEF Without
    <3> QED BY <1>2, <2>2, <2>3, <2>4, <3>1, UnlinkedSound
  <2>5. CASE t \notin DOMAIN m.held
    BY <1>2, <2>2, <2>3, <2>5 DEF Without
  <2> QED BY <2>4, <2>5
<1> QED BY <1>3, <1>4

(* consume_block as a whole.                                                 *)
LEMMA ConsumeSound ==
  ASSUME MInv, NEW block \in Mined, consume_block(block)
  PROVE  MInv'
<1> DEFINE n == Len(block)
           f == CHOOSE f : Leaves(f, block, transactions, mempool_size, n)
<1>1. n \in Nat
  <2>1. block \in Seq(Range(block))
    BY PoolAssumption
  <2> QED BY <2>1, SMT
<1>2. Leaves(f, block, transactions, mempool_size, n)
  BY <1>1, LeavesExists
<1>3. transactions' = f[n].held /\ mempool_size' = f[n].size
  BY DEF consume_block, Leaves, Given
<1> HIDE DEF n, f
<1>4. Sound(f[n].held, f[n].size)
  BY <1>1, <1>2, LeavesSound DEF MInv
<1> QED BY <1>3, <1>4 DEF MInv

-----------------------------------------------------------------------------
(* A transaction is admitted: its parents list it as a child.                *)
LEMMA LinkedIs ==
  ASSUME IsPool(transactions), NEW t \in Txs, t \notin Held
  PROVE  LET g == Linked(t)
         IN  /\ IsPool(g) /\ DOMAIN g = Held \cup {t}
             /\ g[t].depends = find_mempool_depends(t) /\ g[t].children = {}
             /\ \A u \in Held :
                  /\ g[u].depends = transactions[u].depends
                  /\ g[u].children = IF u \in find_mempool_depends(t)
                                     THEN transactions[u].children \cup {t}
                                     ELSE transactions[u].children
<1> DEFINE g == Linked(t)
           deps == find_mempool_depends(t)
<1>1. DOMAIN g = Held \cup {t} /\ DOMAIN g \subseteq Txs /\ IsFiniteSet(DOMAIN g)
  BY FS_AddElement DEF Linked, IsPool, Held
<1>2. g = [u \in DOMAIN g |-> g[u]]
  BY DEF Linked
<1>3. deps \in SUBSET Txs
  BY DEF find_mempool_depends, IsPool, Held
<1>4. g[t] = [depends |-> deps, children |-> {}, stale |-> FALSE]
  BY DEF Linked
<1>5. g[t] \in Entry /\ g[t].depends = deps /\ g[t].children = {}
  BY <1>3, <1>4, SMT DEF Entry
<1>6. ASSUME NEW u \in Held
      PROVE  /\ g[u] \in Entry /\ g[u].depends = transactions[u].depends
             /\ g[u].children = IF u \in deps THEN transactions[u].children \cup {t}
                                ELSE transactions[u].children
  <2> DEFINE S == IF u \in deps THEN transactions[u].children \cup {t}
                  ELSE transactions[u].children
  <2>1. transactions[u] \in Entry /\ transactions[u].children \in SUBSET Txs
    BY DEF IsPool, Entry, Held
  <2>2. S \in SUBSET Txs
    BY <2>1
  <2>3. g[u] = [transactions[u] EXCEPT !.children = S]
    BY DEF Linked
  <2> HIDE DEF S
  <2>4. Replaced(transactions[u], g[u], "children") /\ g[u].children = S
    BY <2>1, <2>2, <2>3, ChildrenReplaced
  <2> QED BY <2>4 DEF Replaced, S
<1> HIDE DEF g
<1>7. IsPool(g)
  BY <1>1, <1>2, <1>5, <1>6 DEF IsPool
<1> QED BY <1>1, <1>5, <1>6, <1>7 DEF g

(* accept_to_mempool, whatever it answers.                                   *)
LEMMA AcceptSound ==
  ASSUME MInv, NEW t \in Txs, accept_to_mempool(t)
  PROVE  MInv'
<1>1. CASE UNCHANGED <<transactions, mempool_size>>
  BY <1>1 DEF MInv
<1>2. CASE t \notin Held /\ Verdict(t) = "Ok"
  <2> DEFINE h == transactions
             g == Linked(t)
             deps == find_mempool_depends(t)
  <2>1. transactions' = g /\ mempool_size' = mempool_size + Size[t]
    BY <1>2 DEF accept_to_mempool
  <2>2. /\ IsPool(h) /\ LinksOf(h) /\ ChildrenSpend(h) /\ ChildrenApart(h)
        /\ TotalOf(h, mempool_size)
    BY DEF MInv, Sound
  <2>3. /\ IsPool(g) /\ DOMAIN g = Held \cup {t} /\ g[t].depends = deps /\ g[t].children = {}
        /\ \A u \in Held : /\ g[u].depends = h[u].depends
                           /\ g[u].children = IF u \in deps THEN h[u].children \cup {t}
                                              ELSE h[u].children
    BY <1>2, <2>2, LinkedIs
  <2>4. /\ ~(mempool_size + Size[t] > max_mempool_size)
        /\ \A o \in Range(Inputs[t]) : ~is_already_spent(o)
    BY <1>2 DEF Verdict, check_for_conflicts
  <2>5. /\ deps \subseteq Held
        /\ \A u \in deps : \E o \in Range(Inputs[t]) : o[1] = u
        /\ \A o \in Range(Inputs[t]) : o[1] \in Held => o[1] \in deps
    BY DEF find_mempool_depends
  <2> HIDE DEF g, deps
  <2>6. LinksOf(g)
    <3> SUFFICES ASSUME NEW u \in DOMAIN g
                 PROVE  /\ \A d \in g[u].depends : d \in DOMAIN g /\ u \in g[d].children
                        /\ \A c \in g[u].children : c \in DOMAIN g => u \in g[c].depends
      BY DEF LinksOf
    <3>1. CASE u = t
      BY <2>3, <2>5, <3>1
    <3>2. CASE u # t
      <4>1. u \in Held
        BY <2>3, <3>2
      <4>2. ASSUME NEW d \in g[u].depends PROVE d \in DOMAIN g /\ u \in g[d].children
        BY <2>2, <2>3, <4>1 DEF LinksOf, Held
      <4>3. ASSUME NEW c \in g[u].children, c \in DOMAIN g PROVE u \in g[c].depends
        <5>1. CASE c = t
          <6>1. u \in deps
            <7>1. CASE t \in h[u].children
              <8>1. \E o \in Range(Inputs[t]) : o[1] = u
                BY <2>2, <4>1, <7>1 DEF ChildrenSpend, Held
              <8> QED BY <2>5, <4>1, <8>1
            <7>2. CASE t \notin h[u].children
              BY <2>3, <4>1, <4>3, <5>1, <7>2
            <7> QED BY <7>1, <7>2
          <6> QED BY <2>3, <5>1, <6>1
        <5>2. CASE c # t
          <6>1. c \in Held /\ c \in h[u].children
            BY <2>3, <4>1, <4>3, <5>2
          <6> QED BY <2>2, <2>3, <4>1, <6>1 DEF LinksOf, Held
        <5> QED BY <5>1, <5>2
      <4> QED BY <4>2, <4>3
    <3> QED BY <3>1, <3>2
  <2>7. ChildrenSpend(g)
    <3> SUFFICES ASSUME NEW u \in DOMAIN g, NEW c \in g[u].children
                 PROVE  \E o \in Range(Inputs[c]) : o[1] = u
      BY DEF ChildrenSpend
    <3>1. u \in Held /\ (c \in h[u].children \/ (c = t /\ u \in deps))
      BY <2>3
    <3> QED BY <2>2, <2>5, <3>1 DEF ChildrenSpend, Held
  <2>8. ChildrenApart(g)
    <3> SUFFICES ASSUME NEW u \in DOMAIN g, NEW c \in g[u].children, NEW d \in g[u].children,
                        c \in DOMAIN g, d \in DOMAIN g, c # d,
                        NEW o \in Range(Inputs[c]), o \in Range(Inputs[d]), o[1] = u
                 PROVE  FALSE
      BY DEF ChildrenApart
    <3>1. u \in Held /\ (c \in h[u].children \/ c = t) /\ (d \in h[u].children \/ d = t)
      <4>1. u \in Held
        BY <2>3
      <4>2. g[u].children \subseteq h[u].children \cup {t}
        BY <2>3, <4>1
      <4> QED BY <4>1, <4>2
    <3>2. \A x \in h[u].children : x \in Held /\ o \in Range(Inputs[x]) =>
            is_already_spent(o)
      BY <3>1 DEF is_already_spent
    <3>3. c # t /\ d # t
      BY <2>3, <2>4, <3>1, <3>2
    <3>4. c \in Held /\ d \in Held /\ c \in h[u].children /\ d \in h[u].children
      BY <2>3, <3>1, <3>3
    <3> QED BY <2>2, <3>1, <3>4 DEF ChildrenApart, Held
  <2>9. TotalOf(g, mempool_size + Size[t])
    <3>1. DOMAIN g \in SUBSET Txs /\ IsFiniteSet(DOMAIN g) /\ t \in DOMAIN g
      BY <2>3 DEF IsPool
    <3>2. DOMAIN g \ {t} = Held
      BY <1>2, <2>3
    <3>3. /\ SumFunctionOnSet(Size, DOMAIN g) = Size[t] + SumFunctionOnSet(Size, Held)
          /\ SumFunctionOnSet(Size, Held) \in Nat /\ Size[t] \in Nat
      BY <3>1, <3>2, SizeWithout
    <3>4. mempool_size = SumFunctionOnSet(Size, Held) /\ max_mempool_size \in Nat
      BY <2>2, PoolAssumption DEF TotalOf, Held
    <3>5. ASSUME NEW a \in Nat, NEW b \in Nat, ~(a + b > max_mempool_size)
          PROVE  a + b = b + a /\ a + b \in Nat /\ a + b <= max_mempool_size
      BY <3>4, <3>5, SMT
    <3> QED BY <2>4, <3>3, <3>4, <3>5 DEF TotalOf
  <2> QED BY <2>1, <2>3, <2>6, <2>7, <2>8, <2>9 DEF MInv, Sound
<1> QED BY <1>1, <1>2 DEF accept_to_mempool

(* Transactions get stale.                                                   *)
LEMMA AgeSound == ASSUME MInv, Age PROVE MInv'
<1> DEFINE h == transactions
           g == [t \in Held |-> [transactions[t] EXCEPT !.stale = TRUE]]
<1>1. transactions' = g /\ mempool_size' = mempool_size
  BY DEF Age
<1>2. /\ IsPool(h) /\ LinksOf(h) /\ ChildrenSpend(h) /\ ChildrenApart(h)
      /\ TotalOf(h, mempool_size)
  BY DEF MInv, Sound
<1>3. \A t \in DOMAIN h : Replaced(h[t], g[t], "stale")
  BY <1>2, StaleReplaced DEF IsPool, Held
<1>4. DOMAIN g = DOMAIN h /\ g = [t \in DOMAIN g |-> g[t]]
  BY DEF Held
<1> HIDE DEF g
<1>5. \A t \in DOMAIN h : g[t] \in Entry /\ g[t].depends = h[t].depends /\ g[t].children = h[t].children
  BY <1>3 DEF Replaced
<1>6. IsPool(g)
  BY <1>2, <1>4, <1>5 DEF IsPool
<1>7. LinksOf(g) /\ ChildrenSpend(g)
  BY <1>2, <1>4, <1>5 DEF LinksOf, ChildrenSpend
<1>8. ChildrenApart(g) /\ TotalOf(g, mempool_size)
  BY <1>2, <1>4, <1>5 DEF ChildrenApart, TotalOf
<1> QED BY <1>1, <1>6, <1>7, <1>8 DEF MInv, Sound

(* An empty mempool.                                                         *)
LEMMA InitMInv == PoolInit => MInv
<1> SUFFICES ASSUME PoolInit PROVE MInv
  OBVIOUS
<1>1. transactions = <<>> /\ mempool_size = 0
  BY DEF PoolInit
<1>2. DOMAIN transactions = {}
  BY <1>1, SMT
<1>3. transactions \in [{} -> Entry]
  BY <1>1, <1>2, SMT
<1>4. TotalOf(transactions, mempool_size)
  BY <1>1, <1>2, SumEmpty, PoolAssumption, SMT DEF TotalOf
<1> QED BY <1>2, <1>3, <1>4, FS_EmptySet
    DEF MInv, Sound, IsPool, LinksOf, ChildrenSpend, ChildrenApart

(* The mempool keeps its books, however transactions come, are mined and     *)
(* come again: the size is the total and within the limit, links go both     *)
(* ways, and no two children of a transaction spend the same output of it    *)
(* (accept_to_mempool, consume_block).                                       *)
THEOREM MempoolIsConsistent == PoolSpec => []PoolConsistent
<1>1. PoolInit => MInv
  BY InitMInv
<1>2. MInv /\ [PoolNext]_poolVars => MInv'
  <2> SUFFICES ASSUME MInv, [PoolNext]_poolVars PROVE MInv'
    OBVIOUS
  <2>1. CASE UNCHANGED poolVars
    BY <2>1 DEF poolVars, MInv
  <2> QED BY <2>1, AcceptSound, ConsumeSound, AgeSound DEF PoolNext
<1>3. MInv => PoolConsistent
  BY DEF MInv, Sound, LinksOf, ChildrenApart, TotalOf, PoolConsistent, SizeIsTotal, LinksAgree,
         ChildrenDoNotConflict, Held
<1> QED BY <1>1, <1>2, <1>3, PTL DEF PoolSpec
=============================================================================
