---------------------------- MODULE ChainRecovery ----------------------------
(***************************************************************************)
(* ChainState over the files of FlatChainStore, one write at a time.  An   *)
(* operation of chain_state.rs is the list of writes it makes, in its      *)
(* order; the process may die between any two of them, and the next start  *)
(* finds what was written (the files are memory mapped, so a process that  *)
(* dies loses nothing it wrote, but the checksum and the BestChain in the  *)
(* metadata are those of the last flush).                                  *)
(*                                                                         *)
(* The files: slots of the headers file, the entries of the fork file and  *)
(* of the hash index, and the accumulators file, a sequence of records of  *)
(* one accumulator each.  Records are of one size here.  In the program a  *)
(* position that is no longer right reads bytes of other records, which    *)
(* are some other accumulator or none at all; here, too.                   *)
(***************************************************************************)
EXTENDS BlockTree, SequencesExt

CONSTANTS
  Invalid, NoSpend, AssumeUtreexo, DIFFCHANGE_INTERVAL, MAX_REORG_DEPTH,
  FLUSH_INTERVAL, MaxRestarts, NoRoots,
  BadRoots,       \* what reading past the end of the accumulators file gives:
                  \* neither NoRoots nor a set of blocks
  TornWrites      \* whether the process may die inside an operation

VARIABLES
  disk,     \* the files: slot, fork, index, accs, saved and clean
  todo,     \* the writes the current operation has still to make
  files,    \* disk as those writes will leave it
  cache,    \* cache[b]: what get_header answers for b then
  best_block, depth, validation_index, alternative_tips, acc, ibd, restarts

chain == <<best_block, depth, validation_index, alternative_tips, acc>>
vars  == <<disk, todo, files, cache, chain, ibd, restarts>>
-----------------------------------------------------------------------------
(* The single writes of flat_chain_store.rs.                               *)
ToSlot(b, status)     == [op |-> "slot", block |-> b, status |-> status]
ToForkFile(b, status) == [op |-> "fork", block |-> b, status |-> status]
ToIndex(b)            == [op |-> "index", block |-> b]
CutAccs(b)            == [op |-> "cut", block |-> b]
ToAccPos(b)           == [op |-> "acc_pos", block |-> b]
ToAccs(a)             == [op |-> "accs", acc |-> a]
ToMetadata(s)         == [op |-> "metadata", saved |-> s]
ToChecksum            == [op |-> "checksum"]

(* write_header_to_storage replaces the slot of the block's height and     *)
(* forgets the position of the accumulator that was saved there.           *)
WriteSlot(d, b, status) ==
  [d EXCEPT !.slot[Height[b]] = [hash |-> b, status |-> status, acc |-> 0]]

(* save_fork_block appends to the fork file and points the index to it.    *)
WriteForkFile(d, b, status) ==
  [d EXCEPT !.fork[b] = status, !.index[b] = "fork", !.clean = FALSE]

(* save_roots_for_block: set_len to the position of the slot's record ...  *)
WriteCut(d, b) ==
  LET pos == d.slot[Height[b]].acc
  IN  [d EXCEPT !.accs = SubSeq(d.accs, 1, IF pos = 0 THEN 0 ELSE pos - 1)]

(* ... the end of the file goes to the slot, and only then the record to   *)
(* the file.  Records are counted from 1: acc = 0 stands for acc_len = 0.  *)
WriteAccPos(d, b) == [d EXCEPT !.slot[Height[b]].acc = Len(d.accs) + 1]

Written(d, w) ==
  CASE w.op = "slot"     -> WriteSlot(d, w.block, w.status)
    [] w.op = "fork"     -> WriteForkFile(d, w.block, w.status)
    [] w.op = "index"    -> [d EXCEPT !.index[w.block] = "main"]
    [] w.op = "cut"      -> WriteCut(d, w.block)
    [] w.op = "acc_pos"  -> WriteAccPos(d, w.block)
    [] w.op = "accs"     -> [d EXCEPT !.accs = Append(d.accs, w.acc)]
    [] w.op = "metadata" -> [d EXCEPT !.saved = w.saved]
    [] w.op = "checksum" -> [d EXCEPT !.clean = TRUE]

(* A write that changes a checksummed file makes the checksum wrong.       *)
Write(d, w) ==
  LET e == Written(d, w)
  IN  [e EXCEPT !.clean = e.clean /\ (w.op = "checksum"
                                        \/ <<e.slot, e.index>> = <<d.slot, d.index>>)]

(* save_header puts the header in the cache before it writes it.           *)
WriteCache(c, w) ==
  IF w.op \in {"slot", "fork"} THEN [c EXCEPT ![w.block] = w.status] ELSE c

(* get_header_by_hash: the index leads to a slot, which must hold b.       *)
DiskStatus(d, b) ==
  CASE d.index[b] = "main" -> IF d.slot[Height[b]].hash = b
                              THEN d.slot[Height[b]].status ELSE "NotPresent"
    [] d.index[b] = "fork" -> d.fork[b]
    [] d.index[b] = "none" -> "NotPresent"

(* load_roots_for_block.                                                   *)
DiskRoots(d, h) ==
  LET pos == d.slot[h].acc
  IN  IF pos = 0 THEN NoRoots
      ELSE IF pos > Len(d.accs) THEN BadRoots ELSE d.accs[pos]
-----------------------------------------------------------------------------
(* ChainState, on the files as the current operation will leave them ...   *)
CS == INSTANCE ChainState WITH
  header <- cache,
  slot   <- [h \in Heights |-> files.slot[h].hash],
  roots  <- [h \in Heights |-> DiskRoots(files, h)],
  saved  <- files.saved,
  clean  <- files.clean,
  SwiftStop <- 0, Backfill <- FALSE, Announcements <- FALSE,
  partial <- {}, sync_node_state <- -1

ColdCache == [b \in Blocks |-> DiskStatus(disk, b)]

(* ... and on the files as they are, which is what the next start finds.   *)
DS == INSTANCE ChainState WITH
  header <- ColdCache,
  slot   <- [h \in Heights |-> disk.slot[h].hash],
  roots  <- [h \in Heights |-> DiskRoots(disk, h)],
  saved  <- disk.saved,
  clean  <- disk.clean,
  SwiftStop <- 0, Backfill <- FALSE, Announcements <- FALSE,
  partial <- {}, sync_node_state <- -1
-----------------------------------------------------------------------------
(* Operations as lists of writes.                                          *)
Downward(S) == SetToSortSeq(S, LAMBDA x, y : Height[x] > Height[y])

ForEach(blocks, F(_)) == FlattenSeq([i \in DOMAIN blocks |-> F(blocks[i])])

(* update_header_and_index                                                 *)
MainAndIndex(b, status) == <<ToSlot(b, status), ToIndex(b)>>

FlushWrites(s) == <<ToMetadata(s), ToChecksum>>

(* save_roots_for_block cannot place a block of an invalid chain.          *)
CanSaveRoots ==
  disk.saved.validation_index # NoBlock
    => cache[disk.saved.validation_index] \in CS!HasHeight

(* Mutant of RootsWrites: the accumulator before the block is saved.       *)
RootsBefore(b, a) == <<ToAccPos(b), ToAccs(a \ {b})>>

(* A height up to the one last flushed "is probably a reorg".              *)
RootsWrites(b, a) ==
  LET flushed == IF disk.saved.validation_index = NoBlock THEN 0
                 ELSE Height[disk.saved.validation_index]
  IN  (IF Height[b] <= flushed THEN <<CutAccs(b)>> ELSE <<>>) \o <<ToAccPos(b), ToAccs(a)>>

(* Mutant of UpdateViewWrites: roots first, and then lost with the header. *)
RootsThenHeader(b, a) == RootsWrites(b, a) \o MainAndIndex(b, "FullyValid")

UpdateViewWrites(b, a) == MainAndIndex(b, "FullyValid") \o RootsWrites(b, a)

ReorgWrites(b) ==
  LET f == CS!find_fork_point(b)
      old == Path[best_block] \ (IF f \in Path[best_block] THEN Path[f] ELSE {Genesis})
  IN  ForEach(Downward(old), LAMBDA c : <<ToForkFile(c, "InFork")>>)
        \o ForEach(Downward(Path[b] \ Path[f]), LAMBDA c : MainAndIndex(c, "HeadersOnly"))

InvalidateWrites(b) ==
  [i \in 1 .. depth - Height[b] + 1 |->
     ToForkFile(disk.slot[Height[b] + i - 1].hash, "InvalidChain")]

AssumeWrites(b) ==
  ForEach(Downward(Path[b] \ {Genesis}), LAMBDA c : MainAndIndex(c, "FullyValid"))
    \o UpdateViewWrites(b, CS!AccOf(b))
-----------------------------------------------------------------------------
Idle == todo = <<>> /\ ibd # "Failed"

SetChain(b, d, v, tips, a) ==
  /\ best_block' = b
  /\ depth' = d
  /\ validation_index' = v
  /\ alternative_tips' = tips
  /\ acc' = a

(* An operation starts: its writes are known, and so is their outcome.     *)
SetTodo(c, writes) ==
  /\ todo' = writes
  /\ files' = FoldLeft(Write, disk, writes)
  /\ cache' = FoldLeft(WriteCache, c, writes)

Begin(writes) == SetTodo(cache, writes) /\ UNCHANGED <<disk, restarts>>

(* The next write of the current operation.                                *)
WriteNext ==
  /\ todo # <<>>
  /\ disk' = Write(disk, Head(todo))
  /\ todo' = Tail(todo)
  /\ UNCHANGED <<files, cache, chain, ibd, restarts>>

(* accept_header on a new header: on the tip, a reorg, or a fork.          *)
Extend(b) ==
  /\ Parent[b] = best_block
  /\ Begin(MainAndIndex(b, "HeadersOnly"))
  /\ SetChain(b, depth + 1, validation_index, alternative_tips, acc)

Reorg(b) ==
  LET v == CS!get_last_valid_block(b)
  IN  /\ CS!get_fork_work(b, CS!find_fork_point(b)) > CS!get_branch_work(best_block)
      /\ CS!CanReorg(b)
      /\ CS!reorg_acc(v) # BadRoots
      /\ Begin(ReorgWrites(b))
      /\ SetChain(b, Height[b], v, alternative_tips, CS!reorg_acc(v))

StoreFork(b) ==
  /\ CS!get_fork_work(b, CS!find_fork_point(b)) <= CS!get_branch_work(best_block)
  /\ Begin(<<ToForkFile(b, "InFork")>>)
  /\ SetChain(best_block, depth, validation_index,
              (alternative_tips \ {Parent[b]}) \cup {b}, acc)

AcceptNewHeader(b) ==
  /\ Idle
  /\ \/ ibd = "HeadersSync" /\ CS!HeadersCaughtUp
     \/ ibd = "Done" /\ depth - MAX_REORG_DEPTH <= Height[Parent[b]]
  /\ cache[b] = "NotPresent"
  /\ cache[Parent[b]] \in CS!HasHeight
  /\ \/ Extend(b)
     \/ /\ Parent[b] # best_block
        /\ CS!check_branch(b)
        /\ CS!find_fork_point(b) # NoBlock
        /\ Reorg(b) \/ StoreFork(b)
  /\ UNCHANGED ibd

ConnectBlock(b) ==
  /\ Idle
  /\ CS!CanProcess(b)
  /\ b \notin Invalid
  /\ IF CanSaveRoots
     THEN /\ Begin(UpdateViewWrites(b, acc \cup {b})
                     \o (IF CS!FlushedAt(b) THEN FlushWrites(CS!Saved(best_block, depth, b))
                                         ELSE <<>>))
          /\ SetChain(best_block, depth, b, alternative_tips, acc \cup {b})
     ELSE Begin(MainAndIndex(b, "FullyValid")) /\ UNCHANGED chain
  /\ UNCHANGED ibd

RejectBlock(b) ==
  /\ Idle
  /\ CS!CanProcess(b)
  /\ b \in Invalid
  /\ Begin(InvalidateWrites(b))
  /\ SetChain(Parent[b], Height[b] - 1, validation_index, alternative_tips, acc)
  /\ UNCHANGED ibd

AssumeConfigured ==
  /\ Idle
  /\ ibd = "HeadersSync" /\ CS!HeadersCaughtUp
  /\ CS!AssumePending
  /\ cache[validation_index] = "FullyValid"
  /\ CanSaveRoots
  /\ Begin(AssumeWrites(AssumeUtreexo)
             \o FlushWrites(CS!Saved(best_block, depth, AssumeUtreexo)))
  /\ SetChain(best_block, depth, AssumeUtreexo, alternative_tips, CS!AccOf(AssumeUtreexo))
  /\ UNCHANGED ibd

SelectorDone ==
  /\ Idle
  /\ ibd = "HeadersSync" /\ CS!HeadersCaughtUp /\ ~CS!AssumePending
  /\ ibd' = "ProofSync"
  /\ Begin(FlushWrites(CS!Saved(best_block, depth, validation_index)))
  /\ UNCHANGED chain

SyncDone ==
  /\ Idle
  /\ ibd = "ProofSync"
  /\ cache[validation_index] = "FullyValid"
  /\ Height[validation_index] = depth
  /\ ibd' = "Done"
  /\ UNCHANGED <<disk, todo, files, cache, chain, restarts>>
-----------------------------------------------------------------------------
(* reindex_chain on V, the chain state seen on the files (DS) or live (CS) *)
(* is written once for each: the heights to undo and the view to publish.  *)
ReindexTo(withRoots, last) == IF withRoots = {} THEN last ELSE Max(withRoots)

UndoWrites(to, last) ==
  [i \in 1 .. last - to |-> ToSlot(disk.slot[to + i].hash, "HeadersOnly")]

Reindex(c, a, indexed, last, withRoots) ==
  LET to == ReindexTo(withRoots, last)
  IN  /\ SetTodo(c, UndoWrites(to, last))
      /\ SetChain(disk.slot[indexed].hash, indexed, disk.slot[to].hash, {},
                  IF withRoots = {} THEN a ELSE DiskRoots(disk, to))

AcceptKnownHeader(b) ==
  /\ Idle
  /\ ibd = "HeadersSync"
  /\ cache[b] = "HeadersOnly"
  /\ Height[b] > depth
  /\ \A h \in CS!HeightsWithRoots : DiskRoots(disk, h) # BadRoots
  /\ Reindex(cache, acc, CS!IndexedTo, CS!LastFullyValid, CS!HeightsWithRoots)
  /\ UNCHANGED <<disk, ibd, restarts>>

(* derive_alternative_tips counts every entry of the fork file, the stale  *)
(* ones too, as a child of its parent.                                     *)
DerivedTips ==
  {b \in Blocks : /\ disk.fork[b] # "none"
                  /\ DiskStatus(disk, b) = "InFork"
                  /\ \A c \in Blocks \ {Genesis} : Parent[c] = b => disk.fork[c] = "none"}

Saved == disk.saved
LoadedRoots == DiskRoots(disk, Height[Saved.validation_index])

LoadedAcc == IF LoadedRoots = NoRoots THEN {} ELSE LoadedRoots

(* The reindex reads roots downwards and fails on the first bad ones.      *)
ReindexReads ==
  DS!HeightsWithRoots # {} => DiskRoots(disk, Max(DS!HeightsWithRoots)) # BadRoots

CanLoad ==
  /\ DiskStatus(disk, Saved.validation_index) \in DS!HasHeight
  /\ LoadedRoots # BadRoots
  /\ disk.clean => DiskStatus(disk, Saved.best_block) \in DS!HasHeight
  /\ (disk.clean /\ DS!Consistent(Saved)) \/ ReindexReads

(* open.  A store that cannot be loaded stops the node for good.           *)
Open ==
  \/ /\ Saved.depth = 0
     /\ SetChain(Genesis, 0, Genesis, {}, {})
     /\ SetTodo(ColdCache, MainAndIndex(Genesis, "FullyValid"))
     /\ ibd' = "HeadersSync"
  \/ /\ Saved.depth # 0
     /\ CanLoad
     /\ disk.clean /\ DS!Consistent(Saved)
     /\ SetChain(Saved.best_block, Saved.depth, Saved.validation_index, DerivedTips, LoadedAcc)
     /\ SetTodo(ColdCache, <<>>)
     /\ ibd' = "HeadersSync"
  \/ /\ Saved.depth # 0
     /\ CanLoad
     /\ ~(disk.clean /\ DS!Consistent(Saved))
     /\ Reindex(ColdCache, LoadedAcc, DS!IndexedTo, DS!LastFullyValid, DS!HeightsWithRoots)
     /\ ibd' = "HeadersSync"
  \/ /\ Saved.depth # 0
     /\ ~CanLoad
     /\ ibd' = "Failed"
     /\ SetTodo(ColdCache, <<>>)
     /\ UNCHANGED chain

(* The process dies, between two writes, and is started again.             *)
Crash ==
  /\ ibd # "Failed"
  /\ TornWrites \/ todo = <<>>
  /\ restarts < MaxRestarts
  /\ restarts' = restarts + 1
  /\ Open
  /\ UNCHANGED disk
-----------------------------------------------------------------------------
Init ==
  /\ disk = [slot  |-> [h \in Heights |-> [hash   |-> IF h = 0 THEN Genesis ELSE NoBlock,
                                           status |-> IF h = 0 THEN "FullyValid" ELSE "NotPresent",
                                           acc    |-> 0]],
             fork  |-> [b \in Blocks |-> "none"],
             index |-> [b \in Blocks |-> IF b = Genesis THEN "main" ELSE "none"],
             accs  |-> <<>>,
             saved |-> CS!Saved(NoBlock, 0, NoBlock),
             clean |-> FALSE]
  /\ cache = [b \in Blocks |-> IF b = Genesis THEN "FullyValid" ELSE "NotPresent"]
  /\ todo = <<>>
  /\ files = disk
  /\ best_block = Genesis /\ depth = 0 /\ validation_index = Genesis
  /\ alternative_tips = {} /\ acc = {}
  /\ ibd = "HeadersSync"
  /\ restarts = 0

Next ==
  \/ WriteNext
  \/ \E b \in Blocks \ {Genesis} : \/ AcceptNewHeader(b) \/ AcceptKnownHeader(b)
                                   \/ ConnectBlock(b)    \/ RejectBlock(b)
  \/ AssumeConfigured \/ SelectorDone \/ SyncDone
  \/ Crash

Spec == Init /\ [][Next]_vars
-----------------------------------------------------------------------------
(* Every operation, taken as a whole, does what ChainState says it does.   *)
Refines == CS!Spec

(* Once an operation has ended, the accumulator is the one left by the     *)
(* validation index, whatever was interrupted before.                      *)
AccMatchesValidation == Idle => acc = CS!AccOf(validation_index)

(* The height index holds the active chain.                                *)
ActiveChain == Idle => CS!ActiveChain

(* Validation is a prefix of the active chain, also when the process died  *)
(* in the middle of an update_view: no block above it stays FullyValid.    *)
ValidatedPrefix == Idle => CS!ValidatedPrefix

(* A node that dies can always be started again.                           *)
AlwaysStarts == ibd # "Failed"

(* What get_header answers from the cache is what it would read.           *)
CacheCoherent == \A b \in Blocks : Idle => cache[b] = DiskStatus(disk, b)

(* save_roots_for_block can always place the validation index of the last  *)
(* flush: no later rejection of blocks reaches down to it.                 *)
RootsAlwaysSaved == Idle => CanSaveRoots

(* Roots that can be loaded for a height of the active chain are those its *)
(* block left.                                                             *)
RootsOfHeight ==
  Idle => \A h \in 1..Height[validation_index] :
            DiskRoots(disk, h) \in {NoRoots, CS!AccOf(disk.slot[h].hash)}
==============================================================================
