---------------------------- MODULE MCValidation -----------------------------
(* How blocks are checked and stored, in one run: the files of             *)
(* FlatChainStore on the tree of the configuration, HeaderRules,           *)
(* SwiftSync, BlockValidation, Merkle and FraudProof; the initial state    *)
(* chooses one.  The files and the branches of headers otherwise stay as   *)
(* they are created.                                                       *)
EXTENDS FlatChainStore, HeaderRules, MCTrees

CONSTANTS
  s1, s2, o1, o2, o3, o4, o5, x, y, NoPeer, Empty_,
  Instances    \* the instances to check

VARIABLES
  active,
  n, up, phase, faults, kills,    \* SwiftSync
  acc, height, chain,             \* BlockValidation
  txids,                          \* Merkle
  fork, lie, mute, out            \* FraudProof

swift   == <<n, up, phase, faults, kills>>
valid   == <<acc, height, chain>>
search  == <<fork, lie, mute, out>>
mcVars  == <<active, vars, swift, valid, rulesVars, txids, search>>

-----------------------------------------------------------------------------
(* SwiftSync.  s1 creates o1 and o2, and the unspendable o3; s2 spends o1  *)
(* and its own output o4, and creates o5.                                  *)
PeerIds == {1, 2}
Addr == {x, y}
Offers == [a \in Addr |-> {"NETWORK"}]
FixedPeers == {}
Best == <<s1, s2>>
CoinbaseOnly == {}
MAX_OUTGOING_PEERS == 1
NEW_CONNECTIONS_BATCH_SIZE == 1
BLOCKS_PER_GETDATA == 1
MAX_CONCURRENT_GETDATA == 2
MAX_INFLIGHT_REQUESTS == 6
MIN_SAMPLES == 5
max_banscore == 1
Outputs == (s1 :> <<o3, o1, o2>>) @@ (s2 :> <<o4, o5>>)
Inputs == (s1 :> {}) @@ (s2 :> {o1, o4})
Unspendable == {o3}
MaxSupply == 3
ValidAtStart == 0
AssumeValid == 2
max_workers == 2
MaxQueue == 0
Jobs == {{"connect"}}
AllJobs == {{"connect"}, {"feeler"}, {"stale"}}
AllHints == {(1 :> i) @@ (2 :> j) : i \in SUBSET {0, 1}, j \in SUBSET {0, 1}}
RightHints == {(1 :> {1}) @@ (2 :> {1})}
OneBlock == <<s1>>
OneHints == {1 :> {0, 1}, 1 :> {1}}

(* Every hints file, right and wrong, and a shutdown.                      *)
Hints == INSTANCE SwiftSync WITH
  HintFiles <- AllHints, Invalid <- {}, Bip30 <- {}, KillBound <- 1, FaultBound <- 0

(* An invalid block, and two peers of which one fails.                     *)
Faulty == INSTANCE SwiftSync WITH
  HintFiles <- RightHints, Invalid <- {s2}, Bip30 <- {}, KillBound <- 0, FaultBound <- 1

(* The same with one address, whose peer fails twice.                      *)
Failing == INSTANCE SwiftSync WITH
  HintFiles <- RightHints, Invalid <- {s2}, Bip30 <- {}, Addr <- {x},
  KillBound <- 0, FaultBound <- 2

(* An output that a later duplicate made unspendable, while feelers and    *)
(* extra peers come and go, with one worker for two blocks.                *)
Duplicate == INSTANCE SwiftSync WITH
  HintFiles <- RightHints, Invalid <- {}, Bip30 <- {o2},
  Jobs <- AllJobs, Addr <- {x}, max_workers <- 1,
  KillBound <- 0, FaultBound <- 0

(* One block, a right and a wrong hints file, and a peer that fails once:  *)
(* the instance for liveness.                                              *)
Ending == INSTANCE SwiftSync WITH
  Best <- OneBlock, AssumeValid <- 1, HintFiles <- OneHints, Invalid <- {}, Bip30 <- {},
  KillBound <- 0, FaultBound <- 1

-----------------------------------------------------------------------------
(* BlockValidation                                                         *)
ONE_SUBSIDY == 4
subsidy_halving_interval == 3
MAX_SUBSIDY_HALVINGS == 2
COINBASE_MATURITY == 1
csv_activation_height == 0
GRANULARITY == 2
MAX_BLOCK_SIGOPS_COST == 1
MAX_MONEY == 20
CoinbaseId == <<"c1", "c2", "c3", "c4">>
Rewards == {2, 4, 5}
Mtp == [h \in 0 .. 5 |-> 2 * h]
MaxTxs == 2
Lies == {9}
MaxHeight == 4

Off == [kind |-> "off", v |-> 0]
In(id, v) == [prev |-> <<id, v>>, seq |-> Off]
InSeq(id, v, kind, k) == [prev |-> <<id, v>>, seq |-> [kind |-> kind, v |-> k]]
Out(value, script) == [value |-> value, script |-> script]
Tx(id, ins, outs) == [id |-> id, ins |-> ins, outs |-> outs, lock |-> Off, v2 |-> TRUE, sig |-> 0]

(* a splits the first coinbase and pays a fee; b spends a; d conflicts     *)
(* with a; r spends the unspendable output of a; e spends two coins; u one *)
(* coin twice.                                                             *)
Spends ==
  {Tx("a", <<In("c1", 1)>>, <<Out(2, "p2sh"), Out(1, "return")>>),
   Tx("b", <<In("a", 1)>>, <<Out(2, "plain")>>),
   Tx("d", <<In("c1", 1)>>, <<Out(4, "p2sh")>>),
   Tx("r", <<In("a", 2)>>, <<Out(1, "plain")>>),
   Tx("e", <<In("d", 1), In("c2", 1)>>, <<Out(5, "plain")>>),
   Tx("u", <<In("c1", 1), In("c1", 1)>>, <<Out(5, "plain")>>)}

(* l waits for height 2, s for a block after its coin, t for two time      *)
(* units after it, o has more signature operations, f is always final.     *)
Locks ==
  {[Tx("l", <<In("c1", 1)>>, <<Out(4, "p2sh")>>) EXCEPT !.lock = [kind |-> "blocks", v |-> 2]],
   Tx("s", <<InSeq("l", 1, "blocks", 1)>>, <<Out(4, "plain")>>),
   Tx("t", <<InSeq("c1", 1, "time", 2)>>, <<Out(4, "p2sh")>>),
   [Tx("o", <<In("t", 1)>>, <<Out(3, "plain")>>) EXCEPT !.sig = 1],
   [Tx("f", <<InSeq("c2", 1, "final", 0)>>, <<Out(4, "plain")>>)
        EXCEPT !.lock = [kind |-> "time", v |-> 9]]}

Spending == INSTANCE BlockValidation WITH Pool <- Spends, Bip30 <- {}
Locking  == INSTANCE BlockValidation WITH Pool <- Locks, Bip30 <- {<<"c2", 1>>}

-----------------------------------------------------------------------------
(* HeaderRules: Bitcoin, testnet3, testnet4 and regtest.                   *)
Net(min, bip94, retarget) == [min_difficulty |-> min, bip94 |-> bip94, retargeting |-> retarget]

Moves == {-2, 1, 5}
AllNetworks ==
  {Net(FALSE, FALSE, TRUE), Net(TRUE, FALSE, TRUE), Net(TRUE, TRUE, TRUE), Net(TRUE, FALSE, FALSE)}

-----------------------------------------------------------------------------
(* Merkle: eight transactions of two kinds, and five of three.             *)
TwoIds == {<<1>>, <<2>>}
ThreeIds == {<<1>>, <<2>>, <<3>>}

Wide == INSTANCE Merkle WITH Txids <- TwoIds, MaxTxs <- 8
Rich == INSTANCE Merkle WITH Txids <- ThreeIds, MaxTxs <- 5

-----------------------------------------------------------------------------
Lying == INSTANCE FraudProof WITH best <- fork, Heights <- {12, 20}, Peers <- {1, 2}

-----------------------------------------------------------------------------
(* FlatChainStore.  Searches of the hash index start in one of two         *)
(* buckets, the last ones of a small index, so that they collide and wrap  *)
(* around.                                                                 *)
Colliding == {[b \in Blocks |-> IF b \in S THEN 7 ELSE 6] : S \in {{}, {a1, b2}, {a2, b3, g}}}

Config(i, h, f, c) ==
  [block_index_size |-> i, headers_file_size |-> h, fork_file_size |-> f, cache_size |-> c]

(* Room for everything; and one thing after the other too small.           *)
Sizes == {Config(7, 5, 6, 1), Config(4, 5, 6, 1), Config(7, 2, 6, 1), Config(7, 5, 1, 1),
          Config(4, 4, 2, 2), Config(2, 1, 1, 1), Config(1, 1, 1, 1)}

-----------------------------------------------------------------------------
NoSwift  == n = 0 /\ up = 0 /\ phase = "none" /\ faults = 0 /\ kills = 0
NoValid  == acc = 0 /\ height = 0 /\ chain = 0
NoRules  == RulesInit /\ net = Net(TRUE, TRUE, TRUE)
NoTxids  == txids = 0
NoSearch == fork = 0 /\ lie = 0 /\ mute = 0 /\ out = 0

(* The files as they are created, in one way.                              *)
FilesOff == Init /\ hash = [b \in Blocks |-> 6] /\ config = Config(1, 1, 1, 1)

(* The state of all but SwiftSync.                                         *)
SwiftOnly == FilesOff /\ NoValid /\ NoRules /\ NoTxids /\ NoSearch
others    == <<active, vars, valid, rulesVars, txids, search>>

MCInit ==
  /\ active \in Instances
  /\ \/ active = "flat" /\ Init /\ NoSwift /\ NoValid /\ NoRules /\ NoTxids /\ NoSearch
     \/ active = "hints" /\ Hints!Init /\ SwiftOnly
     \/ active = "faulty" /\ Faulty!Init /\ SwiftOnly
     \/ active = "failing" /\ Failing!Init /\ SwiftOnly
     \/ active = "duplicate" /\ Duplicate!Init /\ SwiftOnly
     \/ active = "ending" /\ Ending!Init /\ SwiftOnly
     \/ active = "spending" /\ FilesOff /\ NoSwift /\ Spending!Init /\ NoRules /\ NoTxids /\ NoSearch
     \/ active = "locking" /\ FilesOff /\ NoSwift /\ Locking!Init /\ NoRules /\ NoTxids /\ NoSearch
     \/ active = "headers" /\ FilesOff /\ NoSwift /\ NoValid /\ RulesInit /\ NoTxids /\ NoSearch
     \/ active = "wide" /\ FilesOff /\ NoSwift /\ NoValid /\ NoRules /\ Wide!Init /\ NoSearch
     \/ active = "rich" /\ FilesOff /\ NoSwift /\ NoValid /\ NoRules /\ Rich!Init /\ NoSearch
     \/ active = "lying" /\ FilesOff /\ NoSwift /\ NoValid /\ NoRules /\ NoTxids /\ Lying!Init

MCNext ==
  \/ active = "flat" /\ Next /\ UNCHANGED <<active, swift, valid, rulesVars, txids, search>>
  \/ active = "hints" /\ Hints!Next /\ UNCHANGED others
  \/ active = "faulty" /\ Faulty!Next /\ UNCHANGED others
  \/ active = "failing" /\ Failing!Next /\ UNCHANGED others
  \/ active = "duplicate" /\ Duplicate!Next /\ UNCHANGED others
  \/ active = "ending" /\ Ending!Next /\ UNCHANGED others
  \/ active = "spending" /\ Spending!Next /\ UNCHANGED <<active, vars, swift, rulesVars, txids, search>>
  \/ active = "locking" /\ Locking!Next /\ UNCHANGED <<active, vars, swift, rulesVars, txids, search>>
  \/ active = "headers" /\ RulesNext /\ UNCHANGED <<active, vars, swift, valid, txids, search>>
  \/ active = "wide" /\ Wide!Next /\ UNCHANGED <<active, vars, swift, valid, rulesVars, search>>
  \/ active = "rich" /\ Rich!Next /\ UNCHANGED <<active, vars, swift, valid, rulesVars, search>>
  \/ active = "lying" /\ Lying!Search /\ UNCHANGED <<active, vars, swift, valid, rulesVars, txids>>

(* Ticks, peers, workers, the updater and the clock all run on.            *)
Fairness == \/ []<>~(active = "ending" /\ Ending!CanProgress)
            \/ []<><<active = "ending" /\ Ending!Progress>>_swift
MCSpec == MCInit /\ [][MCNext]_mcVars /\ Fairness

-----------------------------------------------------------------------------
(* SwiftSync: each block asked for is in one place, requested, in memory   *)
(* or processed (pump_swiftsync, handle_invalid_block), the workers keep   *)
(* to their limit, the StumpUpdater task sees exactly one update for each  *)
(* height, whatever is retried or comes out of order, and when SwiftSync   *)
(* succeeds the accumulator holds the unspent outputs, although hints and  *)
(* blocks are not trusted (handle_stop_height_reached).                    *)
SwiftSyncSound ==
  /\ active = "hints" => /\ Hints!NoBlockLost /\ Hints!WorkersBounded
                         /\ Hints!UpdaterNeverPanics /\ Hints!AccumulatorIsUtxoSet
  /\ active = "faulty" => /\ Faulty!NoBlockLost /\ Faulty!WorkersBounded
                          /\ Faulty!UpdaterNeverPanics /\ Faulty!AccumulatorIsUtxoSet
  /\ active = "failing" => /\ Failing!NoBlockLost /\ Failing!WorkersBounded
                           /\ Failing!UpdaterNeverPanics /\ Failing!AccumulatorIsUtxoSet
  /\ active = "duplicate" => Duplicate!WorkersBounded /\ Duplicate!AccumulatorIsUtxoSet

(* SwiftSync!SwiftSyncEnds: assumed, aborted, skipped or stopped, with a   *)
(* peer that fails (maintenance_tick, swift_sync_finished).                *)
SwiftSyncEnds ==
  active = "ending" => <>(phase \in {"assumed", "aborted", "skipped", "stopped"})

(* BlockValidation: a valid block with its true leaves is connected, no    *)
(* leaf data makes an invalid one pass, the accumulator commits to the     *)
(* unspent outputs, and the coins never exceed what max_supply_at_height   *)
(* allows (process_proof, verify_block_transactions, update_acc).          *)
(* Merkle: a root stands for one list of transactions, no block without a  *)
(* repeated one is taken for a mutation, and the proof of a position       *)
(* verifies for no other (calculate_root, reduce_level, calculate_branch). *)
BlocksSound ==
  /\ active = "spending" => /\ Spending!ValidIsAccepted /\ Spending!AcceptedIsValid
                            /\ Spending!AccIsUnspent /\ Spending!SupplyBound
  /\ active = "locking" => /\ Locking!ValidIsAccepted /\ Locking!AcceptedIsValid
                           /\ Locking!AccIsUnspent
  /\ active = "wide" => Wide!RootFixesList /\ Wide!BranchVerifies
  /\ active = "rich" => /\ Rich!RootFixesList /\ Rich!BranchVerifies
                        /\ Rich!DistinctIsNotMutated

(* HeaderRules: the best branch has the most work (get_branch_work,        *)
(* get_fork_work, multiply_work_by_u32), the median time is the middle one *)
(* (median_time_past_with), and a height is found by its time              *)
(* (get_block_height_by_timestamp).                                        *)
HeadersSound ==
  active = "headers" => /\ MostWorkIsBest /\ MultiplyIsProduct /\ MedianIsMiddle
                        /\ SearchEnds /\ SearchBrackets

(* FraudProof: the binary search for the height where two peers part lands *)
(* at most six blocks from it, and at the right height the next block      *)
(* names exactly the peers that lie (find_who_is_lying, update_acc).       *)
VerdictIsRight == active = "lying" => Lying!Narrowed /\ Lying!VerdictIsRight
==============================================================================
