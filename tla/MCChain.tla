------------------------------ MODULE MCChain -------------------------------
(* The chain and its storage in one run: ChainQueries on the tree of the   *)
(* configuration, three more instances of ChainState, and three of         *)
(* ChainRecovery; the initial state chooses one of Instances.  No query is *)
(* made in the others.                                                     *)
EXTENDS ChainQueries, MCTrees

CONSTANTS BadRoots, Instances

VARIABLES
  active,                       \* the instance that runs
  disk, pending, files, lru     \* ChainRecovery

shared == <<best_block, depth, validation_index, alternative_tips, acc, ibd, restarts>>
state  == <<header, slot, roots, saved, clean, partial, sync_node_state>>
writes == <<disk, pending, files, lru>>
mcVars == <<active, shared, state, writes, query>>

ForkBlocks == BlocksOf(Forks)
ForkPath   == PathsOf(Forks)
ForkHeight == HeightsOf(Forks)
ForkWork   == PeriodsOf(Forks)
LateBlocks == BlocksOf(Late)
LatePath   == PathsOf(Late)
LateHeight == HeightsOf(Late)
LateWork   == OnesOf(Late)
LineBlocks == BlocksOf(Line)
LinePath   == PathsOf(Line)
LineHeight == HeightsOf(Line)
LineWork   == OnesOf(Line)
TwoBlocks  == BlocksOf(Two)
TwoPath    == PathsOf(Two)
TwoHeight  == HeightsOf(Two)
TwoWork    == OnesOf(Two)

(* The shorter branch wins over b3: b2 and b3 stay in the index above it.  *)
HeavyWork  == [TwoWork EXCEPT ![a2] = 3, ![b4] = 2]

(* Branches of different work, every block valid.                          *)
Forked == INSTANCE ChainState WITH
  Parent <- Forks, Blocks <- ForkBlocks, Path <- ForkPath, Height <- ForkHeight, Work <- ForkWork,
  Invalid <- {}, NoSpend <- {}, AssumeUtreexo <- NoBlock, SwiftStop <- 0, Backfill <- FALSE,
  Announcements <- FALSE, DIFFCHANGE_INTERVAL <- 2, MAX_REORG_DEPTH <- 2, FLUSH_INTERVAL <- 3,
  MaxRestarts <- 2

(* A node that assumes a2, with branches above it.                         *)
Above == INSTANCE ChainState WITH
  Parent <- Late, Blocks <- LateBlocks, Path <- LatePath, Height <- LateHeight, Work <- LateWork,
  Invalid <- {b4}, NoSpend <- {}, AssumeUtreexo <- a2, SwiftStop <- 0, Backfill <- FALSE,
  Announcements <- FALSE, DIFFCHANGE_INTERVAL <- 2, MAX_REORG_DEPTH <- 2, FLUSH_INTERVAL <- 3,
  MaxRestarts <- 2

(* One that also validates the assumed blocks in the background.           *)
Filled == INSTANCE ChainState WITH
  Parent <- Line, Blocks <- LineBlocks, Path <- LinePath, Height <- LineHeight, Work <- LineWork,
  Invalid <- {a4}, NoSpend <- {}, AssumeUtreexo <- a2, SwiftStop <- 0, Backfill <- TRUE,
  Announcements <- FALSE, DIFFCHANGE_INTERVAL <- 2, MAX_REORG_DEPTH <- 2, FLUSH_INTERVAL <- 3,
  MaxRestarts <- 3

(* A chain that is assumed in part, restarted between operations.          *)
Assumed == INSTANCE ChainRecovery WITH
  todo <- pending, cache <- lru,
  Parent <- Line, Blocks <- LineBlocks, Path <- LinePath, Height <- LineHeight, Work <- LineWork,
  Invalid <- {a4}, NoSpend <- {}, AssumeUtreexo <- a2, DIFFCHANGE_INTERVAL <- 2,
  MAX_REORG_DEPTH <- 2, FLUSH_INTERVAL <- 3, MaxRestarts <- 2, TornWrites <- FALSE

(* Two branches, restarted between operations.                             *)
Reorged == INSTANCE ChainRecovery WITH
  todo <- pending, cache <- lru,
  Parent <- Two, Blocks <- TwoBlocks, Path <- TwoPath, Height <- TwoHeight, Work <- TwoWork,
  Invalid <- {b4}, NoSpend <- {}, AssumeUtreexo <- NoBlock, DIFFCHANGE_INTERVAL <- 2,
  MAX_REORG_DEPTH <- 2, FLUSH_INTERVAL <- 3, MaxRestarts <- 2, TornWrites <- FALSE

(* One chain, restarted between any two writes.                            *)
Torn == INSTANCE ChainRecovery WITH
  todo <- pending, cache <- lru,
  Parent <- Line, Blocks <- LineBlocks, Path <- LinePath, Height <- LineHeight, Work <- LineWork,
  Invalid <- {a4}, NoSpend <- {}, AssumeUtreexo <- NoBlock, DIFFCHANGE_INTERVAL <- 2,
  MAX_REORG_DEPTH <- 2, FLUSH_INTERVAL <- 3, MaxRestarts <- 2, TornWrites <- TRUE

-----------------------------------------------------------------------------
NoWrites == disk = 0 /\ pending = 0 /\ files = 0 /\ lru = 0
NoState ==
  /\ header = 0 /\ slot = 0 /\ roots = 0 /\ saved = 0 /\ clean = 0
  /\ partial = 0 /\ sync_node_state = 0

MCInit ==
  /\ active \in Instances
  /\ \/ active = "queried" /\ Init /\ NoWrites
     \/ active = "forked" /\ Forked!Init /\ NoWrites
     \/ active = "above" /\ Above!Init /\ NoWrites
     \/ active = "filled" /\ Filled!Init /\ NoWrites
     \/ active = "assumed" /\ NoState /\ Assumed!Init
     \/ active = "reorged" /\ NoState /\ Reorged!Init
     \/ active = "torn" /\ NoState /\ Torn!Init
  /\ query = Idle

MCNext ==
  \/ active = "queried" /\ QNext /\ UNCHANGED <<active, writes>>
  \/ active = "forked" /\ Forked!Next /\ UNCHANGED <<active, writes, query>>
  \/ active = "above" /\ Above!Next /\ UNCHANGED <<active, writes, query>>
  \/ active = "filled" /\ Filled!Next /\ UNCHANGED <<active, writes, query>>
  \/ active = "assumed" /\ Assumed!Next /\ UNCHANGED <<active, state, query>>
  \/ active = "reorged" /\ Reorged!Next /\ UNCHANGED <<active, state, query>>
  \/ active = "torn" /\ Torn!Next /\ UNCHANGED <<active, state, query>>

MCSpec == MCInit /\ [][MCNext]_mcVars

-----------------------------------------------------------------------------
(* ChainRecovery!Refines: every operation of the file-level store, taken   *)
(* as a whole and with restarts between them, does what ChainState says.   *)
Refines ==
  /\ active = "assumed" => Assumed!CS!Init
  /\ [][active = "assumed" => Assumed!CS!Next \/ UNCHANGED Assumed!CS!vars]_mcVars

(* The chain where the proofs' instance does not go: once the chain is     *)
(* selected (SelectorDone) no known branch has more work than the best;    *)
(* above an assumed block, with a backfill, after restarts and after torn  *)
(* operations the height index holds the active chain, what is validated   *)
(* is a prefix of it, and the accumulator is the one it leaves             *)
(* (connect_block, mark_chain_as_assumed, load_acc, reindex_chain); and a  *)
(* locator leads a peer on another branch to near the fork                 *)
(* (get_block_locator).                                                    *)
ChainSound ==
  /\ active = "forked" => Forked!BestHasMostWork
  /\ active = "above" => /\ Above!OnlyValidMarked /\ Above!ValidatedPrefix
                         /\ Above!AccMatchesValidation
  /\ active = "filled" => Filled!ValidatedPrefix /\ Filled!AccMatchesValidation
  /\ active = "assumed" => Assumed!AccMatchesValidation
  /\ active = "reorged" => Reorged!ActiveChain /\ Reorged!AccMatchesValidation
  /\ active = "torn" => Torn!ActiveChain /\ Torn!ValidatedPrefix
  /\ active = "queried" => LocatorNear

(* ChainRecovery: a node that dies between two operations can be started   *)
(* again (open_chainstate); on one branch, roots that can be loaded for a  *)
(* height are those its block left (load_roots_for_block);                 *)
(* save_roots_for_block can always place the validation index of the last  *)
(* flush; and what get_header answers from its cache is what it would read *)
(* from the files, torn operations included.                               *)
RecoverySound ==
  /\ active = "assumed" => /\ Assumed!AlwaysStarts /\ Assumed!RootsOfHeight
                           /\ Assumed!CacheCoherent
  /\ active = "reorged" => /\ Reorged!AlwaysStarts /\ Reorged!RootsAlwaysSaved
                           /\ Reorged!CacheCoherent
  /\ active = "torn" => Torn!CacheCoherent
==============================================================================
