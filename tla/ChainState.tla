----------------------------- MODULE ChainState -----------------------------
(***************************************************************************)
(* The chain state of a Floresta node: which headers it knows, which       *)
(* branch is the active one, how far that branch has been validated, and   *)
(* the Utreexo accumulator that goes with it (chain_state.rs), over a      *)
(* store that keeps what the ChainStore trait promises (chainstore.rs).    *)
(* The order of the store's single writes to its files, and crashes        *)
(* between them, are modelled in ChainRecovery.                            *)
(*                                                                         *)
(* One process lifetime is a sequence of the operations that the node task *)
(* (chain selector, SwiftSync, sync and running contexts) and the backfill *)
(* task perform; Restart ends it, cleanly or not, and opens the store.     *)
(***************************************************************************)
EXTENDS BlockTree, FiniteSetsExt, Functions

CONSTANTS
  Invalid,          \* blocks whose transactions break a consensus rule
  NoSpend,          \* blocks that spend nothing: their Utreexo proof is empty
  AssumeUtreexo,    \* the block the node is configured to assume, or NoBlock
  SwiftStop,        \* the height a SwiftSync hints file stops at, 0: no file
  Backfill,         \* config.backfill
  Announcements,    \* whether peers announce headers nobody asked for during
                    \* chain selection
  DIFFCHANGE_INTERVAL,
  MAX_REORG_DEPTH,
  FLUSH_INTERVAL,   \* every how many blocks IBD flushes (100_000)
  MaxRestarts,      \* bound: how many times the process may end
  NoRoots           \* "no accumulator saved": acc_len is 0

ASSUME ConfigAssumption ==
  /\ Invalid \subseteq Blocks \ {Genesis}
  /\ NoSpend \subseteq Blocks
  /\ AssumeUtreexo \in Blocks \cup {NoBlock}
  /\ AssumeUtreexo # NoBlock => Path[AssumeUtreexo] \cap Invalid = {}
  /\ SwiftStop \in Nat
  /\ Backfill \in BOOLEAN
  /\ Announcements \in BOOLEAN
  /\ DIFFCHANGE_INTERVAL \in Nat \ {0}
  /\ MAX_REORG_DEPTH \in Nat
  /\ FLUSH_INTERVAL \in Nat \ {0}
  /\ MaxRestarts \in Nat
  /\ \A S \in SUBSET Blocks : NoRoots # S

VARIABLES
  header,            \* header[b]: the DiskBlockHeader variant stored for b
  slot,              \* slot[h]: the hash the headers file holds at height h
  roots,             \* roots[h]: the accumulator saved for height h
  saved,             \* the BestChain of the last flush (metadata)
  clean,             \* whether the checksum of the last flush still matches
  best_block, depth, validation_index, alternative_tips,   \* BestChain
  acc,               \* the accumulator: the blocks applied to it so far
  ibd,               \* IBDState
  partial,           \* the blocks of the backfill task's PartialChainState
  sync_node_state,   \* the file of that name: Absent, Empty, or the end height
  restarts

store == <<header, slot, roots, saved, clean>>
chain == <<best_block, depth, validation_index, alternative_tips, acc>>
task  == <<partial, sync_node_state>>
vars  == <<store, chain, ibd, task, restarts>>

-----------------------------------------------------------------------------
(* Statuses.  Orphan and AssumedValid are never written by the program.    *)
Known     == {"FullyValid", "HeadersOnly", "InFork", "InvalidChain"}
OnChain   == {"FullyValid", "HeadersOnly"}
HasHeight == {"FullyValid", "HeadersOnly", "InFork"}

(* The two contents of .sync_node_state that name no end height.           *)
Absent == -1
Empty  == -2

(* The accumulator left by block b: every block after Genesis up to b.     *)
AccOf(b) == Path[b] \ {Genesis}

SlotAt(h) == IF h \in Heights THEN slot[h] ELSE NoBlock

Saved(b, d, v) == [best_block |-> b, depth |-> d, validation_index |-> v]

SetAll(f, S, v) == [x \in DOMAIN f |-> IF x \in S THEN v ELSE f[x]]

-----------------------------------------------------------------------------
(* save_header for a set C of blocks of different heights, as main chain   *)
(* headers: the slot of each height is overwritten, and its roots dropped. *)
SlotsWith(C) ==
  [h \in Heights |-> IF \E c \in C : Height[c] = h
                     THEN CHOOSE c \in C : Height[c] = h ELSE slot[h]]

RootsWithout(C) == SetAll(roots, {Height[c] : c \in C}, NoRoots)

SaveMain(C, status) ==
  /\ header' = SetAll(header, C, status)
  /\ slot' = SlotsWith(C)
  /\ roots' = RootsWithout(C)

(* The same for statuses kept in the fork file: the slots are not touched. *)
SaveFork(C, status) ==
  /\ header' = SetAll(header, C, status)
  /\ UNCHANGED <<slot, roots>>

(* Mutant of Flush: save_height is forgotten.                              *)
FlushChecksumOnly(b, d, v) == clean' = TRUE /\ UNCHANGED saved

(* flush: save_height, then the store's flush.                             *)
Flush(b, d, v) == saved' = Saved(b, d, v) /\ clean' = TRUE

-----------------------------------------------------------------------------
(* The nearest strict ancestor of b whose status is not in Skip.           *)
NearestAncestor(b, Skip) ==
  CHOOSE a \in Path[Parent[b]] :
    /\ header[a] \notin Skip
    /\ \A c \in Path[Parent[b]] : Height[c] > Height[a] => header[c] \in Skip

(* Where b's branch leaves the active chain.  A branch that leaves it at   *)
(* Genesis has no fork point: the walk stops there with an error.          *)
find_fork_point(b) ==
  LET a == NearestAncestor(b, {"InFork"})
  IN  IF a # Genesis /\ header[a] \in OnChain THEN a ELSE NoBlock

(* Mutant of get_last_valid_block: the validation index is kept.           *)
KeepValidationIndex(b) == validation_index

(* The last block validated in b's branch.                                 *)
get_last_valid_block(b) ==
  LET a == NearestAncestor(b, {"InFork", "HeadersOnly"})
  IN  IF header[a] = "FullyValid" THEN a ELSE NoBlock

(* check_branch: all the ancestors are stored.                             *)
check_branch(b) == \A a \in Path[Parent[b]] : header[a] \in Known

(* Work up to the active block t: one header per retarget period is read,  *)
(* and its work counted for the whole period.                              *)
get_branch_work(t) ==
  LET starts == {h \in 0..Height[t] : h % DIFFCHANGE_INTERVAL = 0}
      blocks(h) == Min({h + DIFFCHANGE_INTERVAL - 1, Height[t]}) - h + 1
  IN  SumFunctionOnSet([h \in starts |-> Work[slot[h]] * blocks(h)], starts)

(* Mutant of get_fork_work: counts from the fork point, not from Genesis.  *)
ForkWorkAlone(b, f) == SumFunctionOnSet(Work, Path[b] \ Path[f])

get_fork_work(b, f) == get_branch_work(f) + SumFunctionOnSet(Work, Path[b] \ Path[f])

(* Mutant of reorg_acc: the accumulator of the branch left behind.         *)
KeepAcc(v) == acc

(* The accumulator to validate from when v becomes the validation index.   *)
reorg_acc(v) == IF Height[v] = 0 THEN {} ELSE roots[Height[v]]

CanReorg(b) ==
  /\ find_fork_point(b) # NoBlock
  /\ get_last_valid_block(b) # NoBlock
  /\ reorg_acc(get_last_valid_block(b)) # NoRoots

(* reorg: everything that can fail is computed first; then the old branch  *)
(* goes to the fork file, the new one is written over it as HeadersOnly,   *)
(* and the new BestChain and accumulator are published together.           *)
reorg(b) ==
  LET f   == find_fork_point(b)
      v   == get_last_valid_block(b)
      old == Path[best_block] \ (IF f \in Path[best_block] THEN Path[f] ELSE {Genesis})
      branch == Path[b] \ Path[f]
  IN  /\ header' = SetAll(SetAll(header, old, "InFork"), branch, "HeadersOnly")
      /\ slot' = SlotsWith(branch)
      /\ roots' = RootsWithout(branch)
      /\ best_block' = b
      /\ depth' = Height[b]
      /\ validation_index' = v
      /\ acc' = reorg_acc(v)
      /\ clean' = FALSE
      /\ UNCHANGED <<alternative_tips, saved>>

(* push_alt_tip, and the branch's new tip saved as InFork.                 *)
StoreFork(b) ==
  /\ alternative_tips' = (alternative_tips \ {Parent[b]}) \cup {b}
  /\ SaveFork({b}, "InFork")
  /\ clean' = FALSE
  /\ UNCHANGED <<saved, best_block, depth, validation_index, acc>>

(* Mutant of maybe_reorg: a branch with as much work wins too.             *)
ReorgOnTie(b) ==
  /\ check_branch(b)
  /\ find_fork_point(b) # NoBlock
  /\ IF get_fork_work(b, find_fork_point(b)) >= get_branch_work(best_block)
     THEN CanReorg(b) /\ reorg(b)
     ELSE StoreFork(b)

maybe_reorg(b) ==
  /\ check_branch(b)
  /\ find_fork_point(b) # NoBlock
  /\ IF get_fork_work(b, find_fork_point(b)) > get_branch_work(best_block)
     THEN CanReorg(b) /\ reorg(b)
     ELSE StoreFork(b)
-----------------------------------------------------------------------------
(* find_best_chain: how far the slots, from height 1 up, hold headers of   *)
(* the active chain, and the last of them that is FullyValid.              *)
IndexedTo ==
  Max({d \in Heights : \A h \in 1..d : slot[h] \in Blocks /\ header[slot[h]] \in OnChain})

LastFullyValid ==
  Max({0} \cup {h \in 1..IndexedTo : header[slot[h]] = "FullyValid"})

HeightsWithRoots == {h \in 1..LastFullyValid : roots[h] # NoRoots}

(* reindex_chain, entered with the accumulator a and a checksum that is    *)
(* right or not (sum): BestChain is rebuilt from the index, and the        *)
(* validation index taken down to the last height whose accumulator was    *)
(* saved.  When there is none the accumulator stays a.                     *)
reindex_chain(a, sum) ==
  LET to == IF HeightsWithRoots = {} THEN LastFullyValid ELSE Max(HeightsWithRoots)
      undone == {slot[h] : h \in to + 1 .. LastFullyValid}
  IN  /\ best_block' = slot[IndexedTo]
      /\ depth' = IndexedTo
      /\ validation_index' = slot[to]
      /\ alternative_tips' = {}
      /\ acc' = IF HeightsWithRoots = {} THEN a ELSE roots[to]
      /\ SaveMain(undone, "HeadersOnly")
      /\ clean' = (sum /\ undone = {})

-----------------------------------------------------------------------------
(* Mutant of AcceptNewHeader: an invalid block is taken for an unknown one. *)
AcceptInvalidAgain(b) ==
  /\ header[b] \in {"NotPresent", "InvalidChain"}
  /\ Parent[b] = best_block
  /\ best_block' = b
  /\ depth' = depth + 1
  /\ SaveMain({b}, "HeadersOnly")
  /\ clean' = FALSE
  /\ UNCHANGED <<saved, validation_index, alternative_tips, acc>>

(* accept_header, for a header not stored yet.                             *)
AcceptNewHeader(b) ==
  /\ header[b] = "NotPresent"
  /\ header[Parent[b]] \in HasHeight
  /\ IF Parent[b] = best_block
     THEN /\ best_block' = b
          /\ depth' = depth + 1
          /\ SaveMain({b}, "HeadersOnly")
          /\ clean' = FALSE
          /\ UNCHANGED <<saved, validation_index, alternative_tips, acc>>
     ELSE maybe_reorg(b)

(* accept_header for a stored header: a HeadersOnly block above the tip    *)
(* means BestChain is behind the index, so it is rebuilt.                  *)
AcceptKnownHeader(b) ==
  /\ header[b] = "HeadersOnly"
  /\ Height[b] > depth
  /\ reindex_chain(acc, clean)
  /\ UNCHANGED saved

(* The index holds nothing above the tip.  Peers answer a getheaders with  *)
(* the headers after our tip, so what the index still holds from an earlier *)
(* run arrives, and is found, before anything new.                         *)
HeadersCaughtUp == IndexedTo <= depth

(* The chain selector hands over every header of a headers message.        *)
SelectorHeader(b) ==
  /\ ibd = "HeadersSync"
  /\ \/ (Announcements \/ HeadersCaughtUp) /\ AcceptNewHeader(b)
     \/ AcceptKnownHeader(b)
  /\ UNCHANGED <<ibd, task, restarts>>

(* The running node only hands over unknown headers that are not too deep. *)
RunningHeader(b) ==
  /\ ibd = "Done"
  /\ header[Parent[b]] \in HasHeight
  /\ depth - MAX_REORG_DEPTH <= Height[Parent[b]]
  /\ AcceptNewHeader(b)
  /\ UNCHANGED <<ibd, task, restarts>>

-----------------------------------------------------------------------------
(* Mutants of InvalidateBlock: the depth is off by one, or the tip stays.  *)
InvalidateDepthOffByOne(b) ==
  /\ SaveFork({slot[h] : h \in Height[b]..depth}, "InvalidChain")
  /\ best_block' = Parent[b]
  /\ depth' = Height[b]
  /\ clean' = FALSE
  /\ UNCHANGED <<saved, validation_index, alternative_tips, acc>>

InvalidateKeepsTip(b) ==
  /\ SaveFork({slot[h] : h \in Height[b]..depth}, "InvalidChain")
  /\ clean' = FALSE
  /\ UNCHANGED <<saved, best_block, depth, validation_index, alternative_tips, acc>>

(* invalidate_block: every block of the index from b's height to the tip.  *)
InvalidateBlock(b) ==
  /\ SaveFork({slot[h] : h \in Height[b]..depth}, "InvalidChain")
  /\ best_block' = Parent[b]
  /\ depth' = Height[b] - 1
  /\ clean' = FALSE
  /\ UNCHANGED <<saved, validation_index, alternative_tips, acc>>

(* process_pending_blocks takes the block after the validation index.      *)
NextBlock == SlotAt(Height[validation_index] + 1)

CanProcess(b) ==
  /\ ibd \in {"ProofSync", "Done"}
  /\ header[validation_index] = "FullyValid"
  /\ Height[validation_index] + 1 <= depth
  /\ b = NextBlock
  /\ header[b] = "HeadersOnly"
  /\ acc = AccOf(Parent[b]) \/ b \in NoSpend       \* update_acc: the proof verifies

(* update_view; out of IBD every block is flushed, during IBD some are.    *)
FlushedAt(b) == ibd = "Done" \/ Height[b] % FLUSH_INTERVAL = 0

ConnectBlock(b) ==
  /\ CanProcess(b)
  /\ b \notin Invalid
  /\ header' = [header EXCEPT ![b] = "FullyValid"]
  /\ slot' = [slot EXCEPT ![Height[b]] = b]
  /\ roots' = [roots EXCEPT ![Height[b]] = acc \cup {b}]
  /\ acc' = acc \cup {b}
  /\ validation_index' = b
  /\ IF FlushedAt(b) THEN Flush(best_block, depth, b)
                     ELSE clean' = FALSE /\ UNCHANGED saved
  /\ UNCHANGED <<best_block, depth, alternative_tips, ibd, task, restarts>>

(* connect_block fails on a consensus rule: blame_block_peer invalidates.  *)
RejectBlock(b) ==
  /\ CanProcess(b)
  /\ b \in Invalid
  /\ InvalidateBlock(b)
  /\ UNCHANGED <<ibd, task, restarts>>
-----------------------------------------------------------------------------

(* mark_chain_as_assumed with the accumulator of b: every ancestor becomes *)
(* FullyValid, only b gets roots, and the result is flushed.               *)
mark_chain_as_assumed(b) ==
  LET C == Path[b] \ {Genesis}
  IN  /\ \A c \in C : header[c] \in HasHeight
      /\ header' = SetAll(header, C, "FullyValid")
      /\ slot' = SlotsWith(C)
      /\ roots' = [RootsWithout(C) EXCEPT ![Height[b]] = AccOf(b)]
      /\ acc' = AccOf(b)
      /\ validation_index' = b
      /\ Flush(best_block, depth, b)
      /\ UNCHANGED <<best_block, depth, alternative_tips>>

(* empty_headers_message: the configured block is assumed, once, unless    *)
(* its headers were not found.                                             *)
AssumePending ==
  /\ AssumeUtreexo # NoBlock
  /\ Height[validation_index] < Height[AssumeUtreexo]
  /\ \A c \in Path[AssumeUtreexo] : header[c] \in HasHeight

AssumeConfigured ==
  /\ ibd = "HeadersSync"
  /\ HeadersCaughtUp
  /\ AssumePending
  /\ header[validation_index] = "FullyValid"
  /\ mark_chain_as_assumed(AssumeUtreexo)
  /\ UNCHANGED <<ibd, task, restarts>>

(* The chain selector is done: ProofSync, flush; then the backfill task    *)
(* starts from the blocks of the height index up to the validation index,  *)
(* or up to the end height it had when it was interrupted.  With nothing   *)
(* to validate it is in sync at once.                                      *)
StartBackfill ==
  LET end == IF sync_node_state = Absent THEN Height[validation_index] ELSE sync_node_state
  IN  IF ~Backfill \/ sync_node_state = Empty THEN UNCHANGED task
      ELSE /\ partial' = IF end = 0 THEN {} ELSE {SlotAt(h) : h \in 0..end}
           /\ sync_node_state' = IF end = 0 THEN Empty ELSE sync_node_state

SelectorDone ==
  /\ ibd = "HeadersSync"
  /\ HeadersCaughtUp
  /\ ~AssumePending
  /\ ibd' = "ProofSync"
  /\ Flush(best_block, depth, validation_index)
  /\ StartBackfill
  /\ UNCHANGED <<header, slot, roots, chain, restarts>>

(* SwiftSync: an invalid block of the range aborts it; otherwise the block *)
(* at the stop height is assumed with the accumulator SwiftSync built.     *)
SwiftSyncable(h) ==
  /\ ibd = "ProofSync"
  /\ validation_index = Genesis
  /\ h \in 1..SwiftStop
  /\ SwiftStop <= depth

SwiftSyncReject(h) ==
  /\ SwiftSyncable(h)
  /\ slot[h] \in Invalid
  /\ InvalidateBlock(slot[h])
  /\ UNCHANGED <<ibd, task, restarts>>

(* Mutant of SwiftSyncFinish: the range is assumed as it is.               *)
SwiftSyncUnchecked ==
  /\ SwiftSyncable(SwiftStop)
  /\ mark_chain_as_assumed(slot[SwiftStop])
  /\ UNCHANGED <<ibd, task, restarts>>

SwiftSyncFinish ==
  /\ SwiftSyncable(SwiftStop)
  /\ \A h \in 1..SwiftStop : slot[h] \notin Invalid
  /\ mark_chain_as_assumed(slot[SwiftStop])
  /\ UNCHANGED <<ibd, task, restarts>>

(* SyncNode: validated up to the tip.                                      *)
SyncDone ==
  /\ ibd = "ProofSync"
  /\ header[validation_index] = "FullyValid"
  /\ Height[validation_index] = depth
  /\ ibd' = "Done"
  /\ UNCHANGED <<store, chain, task, restarts>>

(* The backfill task has validated its whole partial chain: the file is    *)
(* emptied, so that no later run starts over.  Invalid stands for the      *)
(* errors PartialChainState keeps; see Daemon for those it does not.       *)
BackfillInSync ==
  /\ partial # {}
  /\ sync_node_state # Empty
  /\ partial \cap Invalid = {}
  /\ sync_node_state' = Empty
  /\ UNCHANGED <<store, chain, ibd, partial, restarts>>

(* Then it marks list_valid_blocks, all but the last one, in the order of  *)
(* their heights, one call of mark_block_as_valid at a time.               *)
MarkBlockAsValid(b) ==
  /\ b \in partial
  /\ sync_node_state = Empty
  /\ \A c \in partial : Height[b] <= Height[c]
  /\ partial # {b}
  /\ header[b] \in HasHeight
  /\ SaveMain({b}, "FullyValid")
  /\ clean' = (clean /\ header[b] = "FullyValid" /\ roots[Height[b]] = NoRoots)
  /\ partial' = partial \ {b}
  /\ UNCHANGED <<saved, chain, ibd, sync_node_state, restarts>>
-----------------------------------------------------------------------------
(* open.  A store whose flushed depth is 0 starts over from Genesis.       *)
new ==
  /\ SaveMain({Genesis}, "FullyValid")
  /\ best_block' = Genesis
  /\ depth' = 0
  /\ validation_index' = Genesis
  /\ alternative_tips' = {}
  /\ acc' = {}

(* derive_alternative_tips: forks nobody in the fork file builds on.       *)
DerivedTips ==
  {b \in Blocks : /\ header[b] = "InFork"
                  /\ \A c \in Blocks \ {Genesis} :
                       Parent[c] = b => header[c] \notin {"InFork", "InvalidChain"}}

(* check_chain_integrity, on the BestChain s just loaded.  After a reindex  *)
(* the checks are made again; they then hold.                              *)
Consistent(s) ==
  LET h == Height[s.validation_index]
  IN  /\ s.depth = Height[s.best_block]
      /\ header[s.validation_index] = "FullyValid"
      /\ header[slot[h]] = "FullyValid"
      /\ h + 1 <= s.depth => header[slot[h + 1]] # "FullyValid"

(* load_chain_state, from the BestChain s that the metadata holds.  It     *)
(* fails, and the node does not start, when s names a block it cannot      *)
(* place; best_block is only looked at when the checksum is right.         *)
load_chain_state(s, sum) ==
  LET h == Height[s.validation_index]
      a == IF roots[h] = NoRoots THEN {} ELSE roots[h]
  IN  /\ header[s.validation_index] \in HasHeight
      /\ sum => header[s.best_block] \in HasHeight
      /\ IF sum /\ Consistent(s)
         THEN /\ best_block' = s.best_block
              /\ depth' = s.depth
              /\ validation_index' = s.validation_index
              /\ alternative_tips' = DerivedTips
              /\ acc' = a
              /\ clean' = sum
              /\ UNCHANGED <<header, slot, roots>>
         ELSE reindex_chain(a, sum)

open(s, sum) ==
  /\ IF s.depth = 0 THEN new /\ clean' = sum ELSE load_chain_state(s, sum)
  /\ saved' = s
  /\ ibd' = "HeadersSync"
  /\ partial' = {}

(* The process dies between two operations and is started again.           *)
Crash ==
  /\ restarts < MaxRestarts
  /\ restarts' = restarts + 1
  /\ open(saved, clean)
  /\ UNCHANGED sync_node_state

(* An orderly shutdown flushes, and an unfinished backfill saves its end.  *)
Shutdown ==
  /\ restarts < MaxRestarts
  /\ restarts' = restarts + 1
  /\ open(Saved(best_block, depth, validation_index), TRUE)
  /\ sync_node_state' = IF partial # {} /\ sync_node_state # Empty
                        THEN Max({Height[b] : b \in partial}) ELSE sync_node_state

-----------------------------------------------------------------------------
Init ==
  /\ header = [b \in Blocks |-> IF b = Genesis THEN "FullyValid" ELSE "NotPresent"]
  /\ slot = [h \in Heights |-> IF h = 0 THEN Genesis ELSE NoBlock]
  /\ roots = [h \in Heights |-> NoRoots]
  /\ saved = Saved(NoBlock, 0, NoBlock)
  /\ clean = FALSE
  /\ best_block = Genesis
  /\ depth = 0
  /\ validation_index = Genesis
  /\ alternative_tips = {}
  /\ acc = {}
  /\ ibd = "HeadersSync"
  /\ partial = {}
  /\ sync_node_state = Absent
  /\ restarts = 0

Synchronize ==
  \/ \E b \in Blocks \ {Genesis} : \/ SelectorHeader(b) \/ RunningHeader(b)
                                   \/ ConnectBlock(b)   \/ RejectBlock(b)
  \/ \E h \in Heights : SwiftSyncReject(h)
  \/ SelectorDone \/ SwiftSyncFinish \/ SyncDone

NodeTask == Synchronize \/ AssumeConfigured

BackfillTask == BackfillInSync \/ \E b \in Blocks : MarkBlockAsValid(b)

Next == NodeTask \/ BackfillTask \/ Shutdown \/ Crash

Spec == Init /\ [][Next]_vars

(* The node task never stops while it has something to do: peers go on     *)
(* answering until the headers of the index and the blocks of the active   *)
(* chain have been received (failed requests are sent again, to others).   *)
Progress ==
  \/ \E b \in Blocks : ibd = "HeadersSync" /\ AcceptKnownHeader(b) /\ UNCHANGED <<ibd, task, restarts>>
  \/ \E b \in Blocks : ConnectBlock(b) \/ RejectBlock(b)
  \/ AssumeConfigured \/ SelectorDone \/ SyncDone

FairSpec == Spec /\ WF_vars(Progress)

-----------------------------------------------------------------------------
(* The variables hold values of their types, and the saved BestChain is a  *)
(* block with its height.                                                  *)
TypeOK ==
  /\ header \in [Blocks -> Known \cup {"NotPresent"}]
  /\ slot \in [Heights -> Blocks \cup {NoBlock}]
  /\ roots \in [Heights -> {NoRoots} \cup SUBSET Blocks]
  /\ saved \in [best_block : Blocks \cup {NoBlock}, depth : Heights,
                validation_index : Blocks \cup {NoBlock}]
  /\ clean \in BOOLEAN
  /\ best_block \in Blocks
  /\ depth \in Heights
  /\ validation_index \in Blocks
  /\ alternative_tips \subseteq Blocks
  /\ acc \subseteq Blocks
  /\ ibd \in {"HeadersSync", "ProofSync", "Done"}
  /\ partial \subseteq Blocks
  /\ sync_node_state \in Heights \cup {Absent, Empty}
  /\ restarts \in 0..MaxRestarts

(* The height index is the active chain: up to the tip it holds the        *)
(* ancestors of best_block, all of them with a status of the active chain. *)
ActiveChain ==
  /\ depth = Height[best_block]
  /\ \A h \in 0..depth : slot[h] \in Path[best_block] /\ header[slot[h]] \in OnChain

(* Validation is a prefix of the active chain: it has reached a block of   *)
(* that chain, everything below it is FullyValid and everything above is   *)
(* still to be validated.                                                  *)
ValidatedPrefix ==
  /\ validation_index \in Path[best_block]
  /\ \A b \in Path[best_block] :
       header[b] = IF Height[b] <= Height[validation_index]
                   THEN "FullyValid" ELSE "HeadersOnly"

(* The accumulator is the one left by the validation index.                *)
AccMatchesValidation == acc = AccOf(validation_index)

(* No block that breaks a consensus rule, and none built on one, is ever   *)
(* FullyValid: not by connect_block, not by an assumed chain, and not by   *)
(* the marks a backfill makes while the node reorganises.                  *)
OnlyValidMarked ==
  \A b \in Blocks : header[b] = "FullyValid" => Path[b] \cap Invalid = {}

(* invalidate_block: "consider this block invalid, and not build on top of *)
(* it".  Neither a reorg, nor a reindex, nor a restart takes it back.      *)
InvalidForGood ==
  [][\A b \in Blocks : header[b] = "InvalidChain" => header'[b] = "InvalidChain"]_vars

TotalWork(b) == SumFunctionOnSet(Work, Path[b])

(* While it runs the node leaves its tip only for a block with more work,  *)
(* or goes back to an ancestor when a block of the chain is invalid.       *)
TipChangesForWork ==
  [][restarts' = restarts =>
       \/ best_block' = best_block
       \/ TotalWork(best_block') > TotalWork(best_block)
       \/ best_block' \in Path[best_block] /\ header'[best_block] = "InvalidChain"]_vars

(* Once the chain is selected no known branch has more work than the best  *)
(* one ("the chain we believe has more work on").                          *)
BestHasMostWork ==
  ibd # "HeadersSync" =>
    \A b \in Blocks : header[b] = "InFork" => TotalWork(b) <= TotalWork(best_block)

(* get_branch_work returns "the cumulative work in this branch".           *)
BranchWorkIsCumulative == ActiveChain => get_branch_work(best_block) = TotalWork(best_block)

(* get_chain_tips returns "all known chain tips, including the best one    *)
(* and forks": the alternative tips are the fork blocks no fork builds on. *)
ForkTips == {b \in Blocks : /\ header[b] = "InFork"
                            /\ \A c \in Blocks \ {Genesis} : Parent[c] = b => header[c] # "InFork"}

ChainTipsComplete == restarts = 0 => alternative_tips = ForkTips

(* Validation ends at the tip, and stays there.                            *)
CatchesUp == <>[](validation_index = best_block /\ ibd = "Done")
==============================================================================
