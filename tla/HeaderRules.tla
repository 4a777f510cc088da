---------------------------- MODULE HeaderRules ----------------------------
(***************************************************************************)
(* The contextual header rules: the required target of the next block with *)
(* its retarget and minimum-difficulty branches (chain_state.rs,           *)
(* get_next_required_work), the BIP94 time rule, the work of a branch, the *)
(* median time past, and the search of a block by its time that a rescan   *)
(* starts from (json_rpc/wallet.rs).  ChainState takes the work of a block *)
(* as given and leaves these out.                                          *)
(*                                                                         *)
(* A header is [time, target].  A branch is the sequence of the headers    *)
(* from genesis, height h at index h + 1.  The chain holds the best branch *)
(* main, indexed by height, and one side branch alt.                       *)
(***************************************************************************)
EXTENDS Integers, Sequences, FiniteSets, FiniteSetsExt, TLC

CONSTANTS
    Steps,                        \* by how much a header's time may move
    DIFFCHANGE_INTERVAL,          \* 2016
    pow_target_spacing,           \* seconds between blocks
    max_attainable_target,
    MEDIAN_TIME_PAST_BLOCK_COUNT, \* 11
    BIP94_TOLERANCE,              \* 600 seconds
    WORD,                         \* 2^32: a word of a 256-bit number
    WORDS,                        \* 8
    Networks,                     \* the parameter sets checked
    MaxLen                        \* bound on the length of a branch

VARIABLES
    main,                         \* the best branch
    alt,                          \* the side branch, <<>> when there is none
    net                           \* [min_difficulty, bip94, retargeting]

rulesVars == <<main, alt, net>>

(* Periods have blocks, and times are numbers.                             *)
ASSUME RulesAssumption ==
    /\ DIFFCHANGE_INTERVAL \in Nat \ {0}
    /\ Steps \subseteq Int
    /\ BIP94_TOLERANCE \in Int

HeightOf(branch) == Len(branch) - 1
At(branch, h) == branch[h + 1]
Tip(branch) == branch[Len(branch)]

(* The header is on the best chain.                                        *)
OnMain(branch) == Len(branch) <= Len(main) /\ SubSeq(main, 1, Len(branch)) = branch

(* Header::work, external: inversely proportional to the target.           *)
WorkOf(header) == max_attainable_target \div header.target

-----------------------------------------------------------------------------
(* Required target *)

(* Mutant of get_ancestor_at_height: the height index is always used. *)
AncestorByIndex(branch, h) ==
    IF h <= HeightOf(main) THEN At(main, h) ELSE At(branch, h)

(* get_ancestor_at_height: through the height index when the header is on  *)
(* the best chain, otherwise by following the parents.                     *)
get_ancestor_at_height(branch, h) ==
    IF OnMain(branch)
      THEN At(main, h) ELSE At(branch, h)

(* CompactTarget::from_next_work_required, external: the timespan, within  *)
(* a factor of four of the wanted one, scales the target.                  *)
Retarget(target, span) ==
    LET wanted == DIFFCHANGE_INTERVAL * pow_target_spacing
        actual == Max({wanted \div 4, Min({span, wanted * 4})})
    IN  Max({1, (target * actual) \div wanted})

calc_next_work_required(last, first) ==
    Retarget(IF net.bip94 THEN first.target ELSE last.target,
             Max({0, last.time - first.time}))

(* The target of the last block of the period that was not mined under the *)
(* twenty-minute rule, or of the period's first block.                     *)
LastRealTarget(branch) ==
    LET h == HeightOf(branch)
        start == h - (h % DIFFCHANGE_INTERVAL)
        real == {g \in start .. h : At(branch, g).target # max_attainable_target}
    IN  At(branch, Max(real \cup {start})).target

get_next_required_work(branch, time) ==
    LET next == HeightOf(branch) + 1
        last == Tip(branch)
        first == get_ancestor_at_height(branch, next - DIFFCHANGE_INTERVAL)
    IN  IF next % DIFFCHANGE_INTERVAL # 0
          THEN IF ~net.min_difficulty THEN last.target
               ELSE IF last.time + 2 * pow_target_spacing < time THEN max_attainable_target
               ELSE LastRealTarget(branch)
          ELSE IF net.retargeting
                 THEN Min({calc_next_work_required(last, first), max_attainable_target})
                 ELSE last.target

check_bip94_block(branch, time) ==
    \/ ~net.bip94
    \/ Len(branch) % DIFFCHANGE_INTERVAL # 0
    \/ time >= Tip(branch).time - BIP94_TOLERANCE

-----------------------------------------------------------------------------
(* Work *)

(* multiply_work_by_u32: word by word from the least significant one, with *)
(* a carry; -1 stands for ChainWorkOverflow.                               *)
Digit(work, i) == (work \div WORD ^ i) % WORD

multiply_work_by_u32(work, factor) ==
    LET Step(s, i) ==
            LET product == Digit(work, i) * factor + s.carry
            IN  [sum |-> s.sum + (product % WORD) * WORD ^ i, carry |-> product \div WORD]
        after[n \in 0 .. WORDS] ==
            IF n = 0 THEN [sum |-> 0, carry |-> 0] ELSE Step(after[n - 1], n - 1)
        end == after[WORDS]
    IN  IF factor = 0 THEN 0
        ELSE IF factor = 1 THEN work
        ELSE IF end.carry > 0 THEN -1 ELSE end.sum

(* Mutant of get_branch_work: the last period counts in full.              *)
WholePeriods(branch) ==
    LET starts == {h \in 0 .. HeightOf(branch) : h % DIFFCHANGE_INTERVAL = 0}
    IN  MapThenSumSet(LAMBDA h : multiply_work_by_u32(WorkOf(At(branch, h)), DIFFCHANGE_INTERVAL),
                      starts)

(* get_branch_work: each period counts as its length times the work of its *)
(* first block.                                                            *)
get_branch_work(branch) ==
    LET starts == {h \in 0 .. HeightOf(branch) : h % DIFFCHANGE_INTERVAL = 0}
        blocks(h) == Min({h + DIFFCHANGE_INTERVAL - 1, HeightOf(branch)}) - h + 1
    IN  MapThenSumSet(LAMBDA h : multiply_work_by_u32(WorkOf(At(branch, h)), blocks(h)), starts)

(* get_fork_work: the work of the fork point and then header by header.    *)
get_fork_work(branch) ==
    LET shared == Max({0} \cup {n \in 1 .. Min({Len(branch), Len(main)}) :
                                  SubSeq(branch, 1, n) = SubSeq(main, 1, n)})
    IN  get_branch_work(SubSeq(main, 1, shared))
          + MapThenSumSet(LAMBDA i : WorkOf(branch[i]), shared + 1 .. Len(branch))

-----------------------------------------------------------------------------
(* Times *)

(* median_time_past_with: the middle of the last times, sorted.            *)
median_time_past_with(branch) ==
    LET from == Max({1, Len(branch) - MEDIAN_TIME_PAST_BLOCK_COUNT + 1})
        window == SubSeq(branch, from, Len(branch))
        sorted == SortSeq([i \in DOMAIN window |-> window[i].time], <)
    IN  sorted[(Len(sorted) \div 2) + 1]

Ilog2(n) == Max({k \in 0 .. n : 2 ^ k <= n})

(* The rounds get_block_height_by_timestamp allows itself.                 *)
max_iters == Ilog2(HeightOf(main)) + 1

(* get_block_height_by_timestamp with the confidence subtracted; -1 stands *)
(* for InvalidTimestamp and -2 for BlockNotFound.                          *)
Round(s, target) ==
    LET cut == (s.high + s.low) \div 2
        time == At(main, cut).time
    IN  IF s.out # -2 THEN s
        ELSE IF time = target THEN [s EXCEPT !.out = cut]
        ELSE IF s.high - s.low <= 2 THEN [s EXCEPT !.out = s.low]
        ELSE IF time > target THEN [s EXCEPT !.high = cut]
        ELSE [s EXCEPT !.low = cut]

get_block_height_by_timestamp(timestamp, confidence) ==
    IF timestamp \in {0, main[1].time} THEN 0
    ELSE IF timestamp < main[1].time \/ timestamp > Tip(main).time THEN -1
    ELSE LET after[n \in 0 .. max_iters] ==
                 IF n = 0 THEN [low |-> 0, high |-> HeightOf(main), out |-> -2]
                          ELSE Round(after[n - 1], Max({0, timestamp - confidence}))
         IN  after[max_iters].out

-----------------------------------------------------------------------------
(* Behaviour *)

GenesisHeader == [time |-> 10, target |-> max_attainable_target \div 2]

RulesInit ==
    /\ main = <<GenesisHeader>>
    /\ alt = <<>>
    /\ net \in Networks

(* A header that validate_header accepts on top of a branch.               *)
Child(branch, time) == Append(branch, [time |-> time, target |-> get_next_required_work(branch, time)])

validate_header(branch, time) == Len(branch) < MaxLen /\ check_bip94_block(branch, time)

accept_on_main(time) ==
    /\ validate_header(main, time)
    /\ main' = Child(main, time)
    /\ UNCHANGED <<alt, net>>

(* A header on the side branch, or the first one of it; maybe_reorg makes  *)
(* it the best chain when it has more work.                                *)
accept_on_fork(parent, time) ==
    /\ validate_header(parent, time)
    /\ LET branch == Child(parent, time)
       IN  /\ ~OnMain(branch)
           /\ IF get_fork_work(branch) > get_branch_work(main)
                THEN main' = branch /\ alt' = main
                ELSE main' = main /\ alt' = branch
    /\ UNCHANGED net

RulesNext ==
    \/ \E d \in Steps : accept_on_main(Tip(main).time + d)
    \/ \E n \in 1 .. Len(main) - 1, d \in Steps :
          alt = <<>> /\ accept_on_fork(SubSeq(main, 1, n), main[n].time + d)
    \/ \E d \in Steps : alt # <<>> /\ accept_on_fork(alt, Tip(alt).time + d)

RulesSpec == RulesInit /\ [][RulesNext]_rulesVars

-----------------------------------------------------------------------------
(* Properties *)

Branches == {main, alt} \ {<<>>}

(* The chains are headers of the network that was chosen.                  *)
RulesTypeOK ==
    /\ net \in Networks
    /\ \A b \in Branches : /\ Len(b) \in 1 .. MaxLen
                           /\ b[1] = GenesisHeader
                           /\ \A i \in DOMAIN b : b[i].target \in 1 .. max_attainable_target

(* The target a retarget block must have, from the header's own history.   *)
OwnTarget(branch, h) ==
    LET first == At(branch, h - DIFFCHANGE_INTERVAL)
        last == At(branch, h - 1)
    IN  Min({calc_next_work_required(last, first), max_attainable_target})

(* The target of a header depends only on its own ancestors: whichever     *)
(* branch was the best one when it was accepted, a retarget block has the  *)
(* target its own branch asks for (get_ancestor_at_height).                *)
RetargetOwnAncestors ==
    net.retargeting =>
        \A b \in Branches : \A h \in 1 .. HeightOf(b) :
            h % DIFFCHANGE_INTERVAL = 0 => At(b, h).target = OwnTarget(b, h)

(* Where blocks of minimum difficulty are allowed, such a block lowers the *)
(* difficulty of no other: a block mined in time has the target of the     *)
(* period's first block (get_next_required_work walks back over them).     *)
RealDifficultyKept ==
    \A b \in Branches : \A h \in 1 .. HeightOf(b) :
        LET start == h - (h % DIFFCHANGE_INTERVAL)
        IN  h # start =>
              \/ At(b, h).target = At(b, start).target
              \/ /\ net.min_difficulty
                 /\ At(b, h).target = max_attainable_target
                 /\ At(b, h).time > At(b, h - 1).time + 2 * pow_target_spacing

(* With BIP94 a period starts no more than the tolerance before the        *)
(* previous one ended, so the timespans of successive periods overlap by   *)
(* no more than that (check_bip94_block).                                  *)
NoTimeWarp ==
    net.bip94 =>
        \A b \in Branches : \A h \in 1 .. HeightOf(b) :
            h % DIFFCHANGE_INTERVAL = 0 => At(b, h).time + BIP94_TOLERANCE >= At(b, h - 1).time

(* The three together: what the header rules give every branch that was   *)
(* ever accepted, whichever was the best one at the time.                  *)
RulesKept == RetargetOwnAncestors /\ RealDifficultyKept /\ NoTimeWarp

TotalWork(branch) == MapThenSumSet(LAMBDA i : WorkOf(branch[i]), DOMAIN branch)

(* The doc of get_branch_work: "Returns the cumulative work in this        *)
(* branch."                                                                *)
BranchWorkIsTotal == \A b \in Branches : get_branch_work(b) = TotalWork(b)

(* Without minimum-difficulty blocks the work of a branch is the sum over  *)
(* its headers, whether counted by period or header by header, and the     *)
(* best branch is one with the most work.                                  *)
MostWorkIsBest ==
    ~net.min_difficulty =>
        /\ BranchWorkIsTotal
        /\ alt # <<>> => TotalWork(main) >= TotalWork(alt)

(* multiply_work_by_u32 is the product, and reports an overflow exactly    *)
(* when the product does not fit the words.                                *)
MultiplyIsProduct ==
    \A w \in {TotalWork(b) : b \in Branches} \cup {WORD ^ WORDS - 1 - HeightOf(main)} :
        \A f \in 0 .. Len(main) :
            multiply_work_by_u32(w, f) = IF w * f < WORD ^ WORDS THEN w * f ELSE -1

Times(branch) == {branch[i].time : i \in DOMAIN branch}
Ordered(branch) == \A i \in 2 .. Len(branch) : branch[i - 1].time <= branch[i].time

(* The search ends within its rounds, whatever the times: "This is pretty  *)
(* much unreachable" holds of the final error.                             *)
SearchEnds ==
    \A t \in 0 .. Max(Times(main)) + 1, c \in {0, 2} :
        get_block_height_by_timestamp(t, c) # -2

(* On a chain with ordered times a rescan starts early enough: no block    *)
(* before the height found is newer than the time asked for, and at most   *)
(* two blocks after it are older than it.                                  *)
SearchBrackets ==
    Ordered(main) =>
        \A t \in GenesisHeader.time .. Tip(main).time, c \in {0, 2} :
            LET h == get_block_height_by_timestamp(t, c)
            IN  /\ \A g \in 0 .. h - 1 : At(main, g).time <= t - c \/ h = 0
                /\ t > GenesisHeader.time =>
                     Cardinality({g \in h + 1 .. HeightOf(main) : At(main, g).time < t - c}) <= 2

(* At least half of the times of the window are on each side of the        *)
(* median, and with an even number of them the upper middle is taken.      *)
MedianIsMiddle ==
    \A b \in Branches :
        LET m == median_time_past_with(b)
            from == Max({1, Len(b) - MEDIAN_TIME_PAST_BLOCK_COUNT + 1})
            count(S) == Cardinality(S)
        IN  /\ 2 * count({i \in from .. Len(b) : b[i].time <= m}) > Len(b) - from + 1
            /\ 2 * count({i \in from .. Len(b) : b[i].time < m}) <= Len(b) - from + 1
            /\ 2 * count({i \in from .. Len(b) : b[i].time >= m}) >= Len(b) - from + 1
=============================================================================
