-------------------------- MODULE ChainStateProofs ---------------------------
(*****************************************************************************)
(* What ChainState keeps true for every tree of blocks, with any number of   *)
(* restarts, reorgs, invalid blocks and a SwiftSync: the invariant, what it  *)
(* implies, that what the node says of a block stays true, and that the node *)
(* leaves its tip only for more work.                                        *)
(*****************************************************************************)
EXTENDS ChainInvariant

(* Leaves are for Zenon, unless they name the SMT solver.                  *)
USE Zenon

(* A store that was never flushed above Genesis starts over from there.    *)
LEMMA NewInv ==
  ASSUME IndInv, new, validation_index = Genesis,
         saved' = saved \/ saved' = Saved(best_block, depth, validation_index),
         saved'.depth = 0, clean' \in BOOLEAN, ibd' = "HeadersSync", partial' = {},
         sync_node_state' \in Heights \cup {Absent, Empty}, restarts' \in 0..MaxRestarts
  PROVE  IndInv'
<1>1. PICK t \in Blocks : IndexHolds(t)
  BY DEF IndInv
<1>2. TypeOK /\ Genesis \in Blocks /\ Height[Genesis] = 0 /\ 0 \in Heights /\ Path[Genesis] = {Genesis}
  BY GenesisFacts, HeightFacts DEF IndInv
<1>3. header[Genesis] = "FullyValid" /\ slot[0] = Genesis /\ roots[0] = NoRoots
  <2>1. Genesis \in Path[validation_index] /\ header[Genesis] = "FullyValid"
    BY <1>2 DEF IndInv, ValidationHolds
  <2>2. slot[0] = Genesis
    BY <1>2, <2>1, ActiveSlots
  <2> QED BY <2>1, <2>2 DEF IndInv, RootsHold
<1>4. header' = header
  BY <1>2, <1>3 DEF new, SaveMain, SetAll, TypeOK
<1>5. slot' = slot
  BY <1>2, <1>3, SMT DEF new, SaveMain, SlotsWith, TypeOK
<1>6. roots' = roots
  BY <1>2, <1>3, SMT DEF new, SaveMain, RootsWithout, SetAll, TypeOK
<1>7. /\ best_block' = Genesis /\ depth' = 0 /\ validation_index' = Genesis
      /\ alternative_tips' = {} /\ acc' = {}
  BY DEF new
<1>8. TypeOK'
  <2>1. saved' \in [best_block : Blocks \cup {NoBlock}, depth : Heights,
                    validation_index : Blocks \cup {NoBlock}]
    BY <1>2, SMT DEF Saved, TypeOK
  <2> QED BY <1>2, <1>4, <1>5, <1>6, <1>7, <2>1 DEF TypeOK
<1>9. IndexHolds(t)'
  <2>1. Genesis \in Path[t]
    BY PathFacts
  <2> QED BY <1>1, <1>4, <1>5, <1>7, <2>1 DEF IndexHolds
<1>10. ValidationHolds'
  BY <1>2, <1>4, <1>7 DEF IndInv, ValidationHolds, AccOf
<1>11. SlotHeights' /\ RootsHold'
  BY <1>2, <1>3, <1>5, <1>6, <1>7 DEF IndInv, SlotHeights, RootsHold
<1>12. SavedHolds'
  BY <1>7, SMT DEF IndInv, SavedHolds, Saved
<1> QED BY <1>8, <1>9, <1>10, <1>11, <1>12 DEF IndInv

(* A start, after a crash (from what was flushed last) or an orderly end   *)
(* (from a flush of the running state).                                    *)
LEMMA OpenInv ==
  ASSUME IndInv, NEW s, NEW sum \in BOOLEAN, open(s, sum),
         (s = saved /\ sum = clean) \/ (s = Saved(best_block, depth, validation_index) /\ sum = TRUE),
         sync_node_state' \in Heights \cup {Absent, Empty}, restarts' \in 0..MaxRestarts
  PROVE  IndInv'
<1>1. PICK t \in Blocks : IndexHolds(t)
  BY DEF IndInv
<1>2. /\ TypeOK /\ best_block \in Blocks /\ validation_index \in Blocks /\ clean \in BOOLEAN
      /\ depth = Height[best_block] /\ depth \in Heights /\ depth \in Nat
      /\ validation_index \in Path[best_block]
  BY HeightFacts DEF IndInv, TypeOK, ValidationHolds
<1>3. /\ saved' = s /\ ibd' = "HeadersSync" /\ partial' = {}
      /\ s = saved \/ s = Saved(best_block, depth, validation_index)
  BY DEF open
<1>4. depth = 0 => validation_index = Genesis
  BY <1>2, GenesisFacts
<1>5. CASE s.depth = 0
  <2>1. new /\ clean' = sum
    BY <1>5 DEF open
  <2>2. validation_index = Genesis
    BY <1>3, <1>4, <1>5, SMT DEF IndInv, SavedHolds, Saved
  <2> QED BY <1>3, <1>5, <2>1, <2>2, NewInv
<1>6. CASE s.depth # 0
  <2> DEFINE h == Height[s.validation_index]
             a == IF roots[h] = NoRoots THEN {} ELSE roots[h]
  <2>1. load_chain_state(s, sum)
    BY <1>6 DEF open
  <2>2. t = best_block
    BY <1>1, <1>2, <1>3, <1>6, GenesisFacts, SMT DEF IndexHolds, Saved
  <2>3. sum => s = Saved(best_block, depth, validation_index)
    BY <1>6 DEF IndInv, SavedHolds
  <2>4. validation_index = Genesis => a = {}
    <3>1. ASSUME validation_index = Genesis PROVE s.validation_index = Genesis
      BY <1>3, <1>6, <3>1, GenesisFacts, SMT DEF IndInv, SavedHolds, Saved
    <3> QED BY <3>1, GenesisFacts DEF IndInv, RootsHold
  <2>5. CASE sum /\ Consistent(s)
    <3>1. /\ best_block' = s.best_block /\ depth' = s.depth
          /\ validation_index' = s.validation_index /\ alternative_tips' = DerivedTips
          /\ acc' = a /\ clean' = sum /\ UNCHANGED <<header, slot, roots>>
      BY <2>1, <2>5 DEF load_chain_state
    <3>2. /\ s.best_block = best_block /\ s.depth = depth
          /\ s.validation_index = validation_index
      BY <2>3, <2>5, SMT DEF Saved
    <3>3. alternative_tips' \in SUBSET Blocks
      BY <3>1 DEF DerivedTips
    <3>4. a = AccOf(validation_index)
      <4>1. CASE validation_index = Genesis
        BY <2>4, <4>1, GenesisFacts DEF AccOf
      <4>2. CASE validation_index # Genesis
        <5>1. validation_index \in Path[validation_index] \ {Genesis}
          BY <1>2, <4>2, PathFacts
        <5>2. roots[Height[validation_index]] = AccOf(validation_index)
          BY <4>2, <5>1 DEF IndInv, RootsHold
        <5>3. roots[h] # NoRoots
          BY <3>2, <4>2 DEF IndInv, RootsHold
        <5> QED BY <3>2, <5>2, <5>3
      <4> QED BY <4>1, <4>2
    <3>5. saved' = Saved(t, Height[t], validation_index)
      BY <1>2, <1>3, <2>2, <2>3, <2>5
    <3> QED BY <1>1, <1>2, <1>3, <1>6, <2>2, <3>1, <3>2, <3>3, <3>4, <3>5, ReindexInv
  <2>6. CASE ~(sum /\ Consistent(s))
    <3>1. reindex_chain(a, sum)
      BY <2>1, <2>6 DEF load_chain_state
    <3>2. /\ best_block' = t /\ depth' = Height[t]
          /\ validation_index' = validation_index
          /\ alternative_tips' = {}
          /\ acc' = AccOf(validation_index)
          /\ header' = header /\ slot' = slot /\ roots' = roots
          /\ clean' = sum
      BY <1>1, <2>4, <3>1, ReindexIs
    <3>3. alternative_tips' \in SUBSET Blocks
      BY <3>2
    <3>4. clean' => saved' = Saved(t, Height[t], validation_index)
      BY <1>2, <1>3, <2>2, <2>3, <3>2
    <3> QED BY <1>1, <1>3, <1>6, <2>2, <3>2, <3>3, <3>4, ReindexInv
  <2> QED BY <2>5, <2>6
<1> QED BY <1>5, <1>6

(* The process ends, in either way, and is started again.                  *)
LEMMA RestartInv ==
  ASSUME IndInv, Crash \/ Shutdown
  PROVE  IndInv'
<1>1. /\ restarts \in 0..MaxRestarts /\ MaxRestarts \in Nat /\ partial = {} /\ clean \in BOOLEAN
      /\ sync_node_state \in Heights \cup {Absent, Empty}
  BY ConfigAssumption DEF IndInv, TypeOK, ConfigAssumption
<1>2. restarts' \in 0..MaxRestarts /\ sync_node_state' = sync_node_state
  <2>1. restarts < MaxRestarts /\ restarts' = restarts + 1
    BY DEF Crash, Shutdown
  <2>2. restarts' \in 0..MaxRestarts
    BY <1>1, <2>1, SMT
  <2>3. sync_node_state' = sync_node_state
    BY <1>1 DEF Crash, Shutdown
  <2> QED BY <2>2, <2>3
<1>3. CASE Crash
  <2>1. open(saved, clean)
    BY <1>3 DEF Crash
  <2> QED BY <1>1, <1>2, <2>1, OpenInv
<1>4. CASE Shutdown
  <2>1. open(Saved(best_block, depth, validation_index), TRUE)
    BY <1>4 DEF Shutdown
  <2> QED BY <1>1, <1>2, <2>1, OpenInv
<1> QED BY <1>3, <1>4

(* No step of the node breaks the invariant.                               *)
LEMMA NextInv ==
  ASSUME Undisturbed, IndInv, [Next]_vars
  PROVE  IndInv'
<1>1. ASSUME NEW b \in Blocks \ {Genesis}, SelectorHeader(b) PROVE IndInv'
  <2>1. ibd = "HeadersSync" /\ UNCHANGED <<ibd, task, restarts>>
    BY <1>1 DEF SelectorHeader
  <2>2. CASE HeadersCaughtUp /\ AcceptNewHeader(b)
    BY <1>1, <2>1, <2>2, AcceptNewHeaderInv
  <2>3. CASE AcceptKnownHeader(b)
    BY <1>1, <2>1, <2>3, AcceptKnownHeaderInv
  <2> QED BY <1>1, <2>2, <2>3 DEF SelectorHeader, Undisturbed
<1>2. ASSUME NEW b \in Blocks \ {Genesis}, RunningHeader(b) PROVE IndInv'
  BY <1>2, AcceptNewHeaderInv DEF RunningHeader
<1>3. ASSUME NEW b \in Blocks \ {Genesis}, ConnectBlock(b) \/ RejectBlock(b) PROVE IndInv'
  BY <1>3, ConnectBlockInv, RejectBlockInv
<1>4. CASE SwiftSyncFinish \/ \E h \in Heights : SwiftSyncReject(h)
  BY <1>4, SwiftSyncInv
<1>5. CASE SelectorDone \/ SyncDone
  BY <1>5, IbdInv
<1>6. ~AssumeConfigured
  BY DEF AssumeConfigured, AssumePending, Undisturbed
<1>7. ~BackfillTask
  BY DEF BackfillTask, BackfillInSync, MarkBlockAsValid, IndInv
<1>8. CASE Crash \/ Shutdown
  BY <1>8, RestartInv
<1>9. CASE UNCHANGED vars
  <2>1. UNCHANGED <<header, slot, roots, saved, clean, best_block, depth, validation_index,
                    alternative_tips, acc, ibd, partial, sync_node_state, restarts>>
    BY <1>9 DEF vars, store, chain, task
  <2> QED BY <2>1, SMT DEF IndInv, TypeOK, SlotHeights, IndexHolds, ValidationHolds, RootsHold,
                      SavedHolds, AccOf, Saved
<1> QED BY <1>1, <1>2, <1>3, <1>4, <1>5, <1>6, <1>7, <1>8, <1>9 DEF Next, NodeTask, Synchronize

-----------------------------------------------------------------------------
(* What the invariant says of the states a reader cares about.             *)
LEMMA IndInvImplies ==
  ASSUME IndInv
  PROVE  ActiveChain /\ ValidatedPrefix /\ AccMatchesValidation
<1>1. PICK t \in Blocks : IndexHolds(t)
  BY DEF IndInv
<1>2. /\ best_block \in Blocks /\ validation_index \in Blocks /\ best_block \in Path[t]
      /\ depth = Height[best_block] /\ validation_index \in Path[best_block]
      /\ Path[best_block] \subseteq Path[t]
  BY <1>1, PathFacts DEF IndInv, TypeOK, ValidationHolds, IndexHolds
<1>3. ActiveChain
  <2>1. ASSUME NEW h \in 0..depth
        PROVE  slot[h] \in Path[best_block] /\ header[slot[h]] \in OnChain
    <3>1. PICK b \in Path[best_block] : Height[b] = h
      BY <1>2, PathFacts
    <3>2. b \in Path[t] /\ b \in Blocks
      BY <1>2, <3>1, PathFacts
    <3> QED BY <1>1, <3>1, <3>2 DEF IndexHolds
  <2> QED BY <1>2, <2>1 DEF ActiveChain
<1>4. ValidatedPrefix
  <2>1. ASSUME NEW b \in Path[best_block]
        PROVE  header[b] = IF Height[b] <= Height[validation_index]
                           THEN "FullyValid" ELSE "HeadersOnly"
    <3>1. b \in Blocks /\ b \in Path[t]
      BY <1>2, PathFacts
    <3>2. header[b] \in OnChain
      BY <1>1, <3>1 DEF IndexHolds
    <3>3. b \in Path[validation_index] <=> Height[b] <= Height[validation_index]
      BY <1>2, PathFacts
    <3>4. header[b] = "FullyValid" <=> b \in Path[validation_index]
      BY <3>1 DEF IndInv, ValidationHolds
    <3> QED BY <3>2, <3>3, <3>4 DEF OnChain
  <2> QED BY <1>2, <2>1 DEF ValidatedPrefix
<1>5. AccMatchesValidation
  BY DEF IndInv, ValidationHolds, AccMatchesValidation
<1> QED BY <1>3, <1>4, <1>5

(* IndInv is an invariant of an undisturbed node.                          *)
THEOREM Invariance == Undisturbed => (Spec => []IndInv)
<1> SUFFICES ASSUME Undisturbed PROVE Spec => []IndInv
  OBVIOUS
<1>1. Init => IndInv
  BY InitInv
<1>2. IndInv /\ [Next]_vars => IndInv'
  BY NextInv
<1> QED BY <1>1, <1>2, PTL DEF Spec

(* The variables of chain_state.rs and of its store keep their types.      *)
THEOREM TypeCorrect == Undisturbed => (Spec => []TypeOK)
<1>1. IndInv => TypeOK
  BY DEF IndInv
<1> QED BY <1>1, Invariance, PTL

(* The height index is the active chain whatever headers arrive, whatever  *)
(* blocks prove invalid, and wherever between two operations the process   *)
(* dies.                                                                   *)
THEOREM IndexIsActiveChain == Undisturbed => (Spec => []ActiveChain)
<1>1. IndInv => ActiveChain
  BY IndInvImplies
<1> QED BY <1>1, Invariance, PTL

(* The FullyValid blocks of the active chain are those up to the           *)
(* validation index, across reorgs, invalidations and restarts.            *)
THEOREM ValidationIsPrefix == Undisturbed => (Spec => []ValidatedPrefix)
<1>1. IndInv => ValidatedPrefix
  BY IndInvImplies
<1> QED BY <1>1, Invariance, PTL

(* The accumulator never diverges from the validation index: a reorg, a    *)
(* SwiftSync, a reindex and a restart all leave the two aligned.           *)
THEOREM AccumulatorAligned == Undisturbed => (Spec => []AccMatchesValidation)
<1>1. IndInv => AccMatchesValidation
  BY IndInvImplies
<1> QED BY <1>1, Invariance, PTL

(* A step that takes no InvalidChain back, and marks no block FullyValid   *)
(* that is not, together with its ancestors, valid.                        *)
MarksSoundly ==
  \A b \in Blocks :
    /\ header[b] = "InvalidChain" => header'[b] = "InvalidChain"
    /\ header'[b] = "FullyValid" => header[b] = "FullyValid" \/ Path[b] \cap Invalid = {}

(* accept_header writes NotPresent and InFork headers, and those of the    *)
(* chain a reorg leaves, and makes none of them FullyValid.                *)
LEMMA AcceptNewHeaderMarks ==
  ASSUME IndInv, NEW b \in Blocks \ {Genesis}, AcceptNewHeader(b),
         (ibd = "HeadersSync" /\ HeadersCaughtUp) \/ ibd = "Done"
  PROVE  MarksSoundly
<1>1. TypeOK /\ b \in Blocks /\ header[b] = "NotPresent"
  BY DEF IndInv, AcceptNewHeader
<1>2. CASE Parent[b] = best_block
  BY <1>1, <1>2, HeadersSet, SMT DEF AcceptNewHeader, SaveMain, Known, MarksSoundly
<1>3. CASE Parent[b] # best_block
  <2>1. CASE StoreFork(b)
    BY <1>1, <2>1, HeadersSet, SMT DEF StoreFork, SaveFork, Known, MarksSoundly
  <2>2. CASE CanReorg(b) /\ reorg(b)
    <3> DEFINE f == find_fork_point(b)
               old == Path[best_block] \ (IF f \in Path[best_block] THEN Path[f] ELSE {Genesis})
               branch == Path[b] \ Path[f]
    <3>1. IndexHolds(best_block) /\ best_block \in Blocks
      BY CaughtUpIs DEF IndInv, IndexHolds, TypeOK
    <3>2. /\ f \in Path[Parent[b]] /\ f \in Path[best_block]
          /\ \A c \in Path[Parent[b]] : Height[c] > Height[f] => header[c] = "InFork"
      BY <2>2, <3>1, ForkPointIs
    <3>3. header' = SetAll(SetAll(header, old, "InFork"), branch, "HeadersOnly")
      BY <2>2 DEF reorg
    <3> HIDE DEF f
    <3>4. ASSUME NEW c \in branch PROVE header[c] # "InvalidChain"
      <4>1. CASE c = b
        BY <1>1, <4>1
      <4>2. CASE c # b
        <5>1. c \in Path[Parent[b]] /\ Parent[b] \in Blocks
          BY <4>2, ParentFacts, SMT
        <5>2. Height[c] > Height[f]
          BY <3>2, <5>1, PathFacts, HeightFacts, SMT
        <5> QED BY <3>2, <5>1, <5>2
      <4> QED BY <4>1, <4>2
    <3>5. ASSUME NEW c \in old PROVE header[c] # "InvalidChain"
      BY ActiveSlots DEF OnChain
    <3> HIDE DEF old, branch
    <3>6. \A c \in Blocks : header'[c] = IF c \in branch THEN "HeadersOnly"
                                         ELSE IF c \in old THEN "InFork" ELSE header[c]
      BY <1>1, <3>3 DEF SetAll, TypeOK
    <3> QED BY <3>4, <3>5, <3>6 DEF MarksSoundly
  <2> QED BY <1>3, <2>1, <2>2 DEF AcceptNewHeader, maybe_reorg
<1> QED BY <1>2, <1>3

(* invalidate_block only adds InvalidChain.                                *)
LEMMA InvalidateMarks ==
  ASSUME TypeOK, NEW b, InvalidateBlock(b)
  PROVE  MarksSoundly
<1> DEFINE S == {slot[h] : h \in Height[b]..depth}
<1>1. header' = SetAll(header, S, "InvalidChain")
  BY DEF InvalidateBlock, SaveFork
<1> HIDE DEF S
<1> QED BY <1>1 DEF SetAll, TypeOK, MarksSoundly

(* connect_block marks a valid block whose parent is FullyValid.           *)
LEMMA ConnectBlockMarks ==
  ASSUME IndInv, OnlyValidMarked, NEW b \in Blocks \ {Genesis}, ConnectBlock(b)
  PROVE  MarksSoundly
<1>1. /\ b = NextBlock /\ header[b] = "HeadersOnly" /\ b \notin Invalid
      /\ header[validation_index] = "FullyValid" /\ Height[validation_index] + 1 <= depth
      /\ header' = [header EXCEPT ![b] = "FullyValid"]
  BY DEF ConnectBlock, CanProcess
<1>2. /\ TypeOK /\ best_block \in Blocks /\ validation_index \in Path[best_block]
      /\ validation_index \in Blocks /\ Height[validation_index] \in Nat /\ depth \in Nat
  BY HeightFacts DEF IndInv, TypeOK, ValidationHolds
<1>3. Height[validation_index] + 1 \in 0..depth /\ Height[validation_index] + 1 \in Heights
  BY <1>1, <1>2, HeightFacts, SMT DEF TypeOK
<1>4. b \in Path[best_block] /\ Height[b] = Height[validation_index] + 1
  BY <1>1, <1>3, ActiveSlots DEF NextBlock, SlotAt
<1>5. Parent[b] = validation_index
  BY <1>2, <1>4, NextOnPath
<1>6. Path[b] \cap Invalid = {}
  BY <1>1, <1>2, <1>5, ParentFacts, SMT DEF OnlyValidMarked
<1> QED BY <1>1, <1>2, <1>6 DEF TypeOK, MarksSoundly

(* SwiftSync marks a stretch of the active chain it found nothing wrong in. *)
LEMMA SwiftSyncMarks ==
  ASSUME IndInv, OnlyValidMarked, SwiftSyncFinish \/ \E h \in Heights : SwiftSyncReject(h)
  PROVE  MarksSoundly
<1>1. CASE \E h \in Heights : SwiftSyncReject(h)
  BY <1>1, InvalidateMarks DEF SwiftSyncReject, IndInv
<1>2. CASE SwiftSyncFinish
  <2> DEFINE b == slot[SwiftStop]
             C == Path[b] \ {Genesis}
  <2>1. /\ SwiftStop \in 1..SwiftStop /\ SwiftStop <= depth /\ SwiftStop \in Nat
        /\ \A h \in 1..SwiftStop : slot[h] \notin Invalid
        /\ header' = SetAll(header, C, "FullyValid")
    BY <1>2, ConfigAssumption
       DEF SwiftSyncFinish, SwiftSyncable, mark_chain_as_assumed, ConfigAssumption
  <2>2. TypeOK /\ best_block \in Blocks /\ depth \in Nat
    BY HeightFacts DEF IndInv, TypeOK
  <2>3. SwiftStop \in 0..depth
    BY <2>1, <2>2, SMT
  <2>4. b \in Path[best_block] /\ Height[b] = SwiftStop /\ b \in Blocks
    BY <2>2, <2>3, ActiveSlots, PathFacts
  <2> HIDE DEF b
  <2>5. ASSUME NEW c \in C
        PROVE  header[c] # "InvalidChain" /\ c \notin Invalid /\ c \in Blocks /\ Path[c] \subseteq Path[b]
    <3>1. /\ c \in Path[b] /\ c # Genesis /\ c \in Path[best_block] /\ c \in Blocks
          /\ Height[c] <= SwiftStop /\ Path[c] \subseteq Path[b]
      BY <2>2, <2>4, PathFacts
    <3>2. Height[c] \in 1..SwiftStop
      BY <2>1, <3>1, GenesisFacts, HeightFacts, SMT
    <3>3. slot[Height[c]] = c /\ header[c] \in OnChain
      BY <3>1, ActiveSlots
    <3> QED BY <2>1, <3>1, <3>2, <3>3 DEF OnChain
  <2>6. ASSUME NEW c \in C PROVE Path[c] \cap Invalid = {}
    <3>1. Genesis \notin Invalid
      BY ConfigAssumption DEF ConfigAssumption
    <3> QED BY <2>5, <3>1
  <2> HIDE DEF C
  <2>7. \A c \in Blocks : header'[c] = IF c \in C THEN "FullyValid" ELSE header[c]
    BY <2>1, <2>2 DEF SetAll, TypeOK
  <2> QED BY <2>5, <2>6, <2>7 DEF MarksSoundly
<1> QED BY <1>1, <1>2

(* A start rewrites no header and no slot: what it would undo in a reindex *)
(* is empty, and Genesis is in its place and FullyValid already.           *)
LEMMA OpenMarks ==
  ASSUME IndInv, NEW s, NEW sum \in BOOLEAN, open(s, sum),
         (s = saved /\ sum = clean) \/ (s = Saved(best_block, depth, validation_index) /\ sum = TRUE)
  PROVE  header' = header /\ slot' = slot
<1>1. PICK t \in Blocks : IndexHolds(t)
  BY DEF IndInv
<1>2. TypeOK /\ validation_index \in Blocks /\ best_block \in Blocks
  BY DEF IndInv, TypeOK
<1>3. CASE s.depth = 0
  <2>1. header[Genesis] = "FullyValid"
    BY <1>2, PathFacts DEF IndInv, ValidationHolds
  <2>2. SaveMain({Genesis}, "FullyValid")
    BY <1>3 DEF open, new
  <2>3. header' = header
    BY <1>2, <2>1, <2>2 DEF SaveMain, SetAll, TypeOK
  <2>4. slot[0] = Genesis /\ Height[Genesis] = 0
    BY <1>2, GenesisFacts, PathFacts, ActiveSlots
  <2>5. slot' = [h \in Heights |-> slot[h]]
    BY <2>2, <2>4 DEF SaveMain, SlotsWith
  <2> QED BY <1>2, <2>3, <2>5 DEF TypeOK
<1>4. CASE s.depth # 0
  <2> DEFINE h == Height[s.validation_index]
             a == IF roots[h] = NoRoots THEN {} ELSE roots[h]
  <2>1. load_chain_state(s, sum)
    BY <1>4 DEF open
  <2>2. CASE sum /\ Consistent(s)
    BY <2>1, <2>2 DEF load_chain_state
  <2>3. CASE ~(sum /\ Consistent(s))
    <3>1. reindex_chain(a, sum)
      BY <2>1, <2>3 DEF load_chain_state
    <3>2. ASSUME validation_index = Genesis PROVE s.validation_index = Genesis
      BY <1>4, <3>2, GenesisFacts, SMT DEF IndInv, SavedHolds, Saved
    <3>3. validation_index = Genesis => a = {}
      BY <3>2, GenesisFacts DEF IndInv, RootsHold
    <3> QED BY <1>1, <3>1, <3>3, ReindexIs
  <2> QED BY <2>2, <2>3
<1> QED BY <1>3, <1>4

(* No step of an undisturbed node marks a block unsoundly.                 *)
LEMMA NextMarks ==
  ASSUME Undisturbed, IndInv, OnlyValidMarked, [Next]_vars
  PROVE  MarksSoundly
<1>1. ASSUME NEW b \in Blocks \ {Genesis}, SelectorHeader(b) PROVE MarksSoundly
  <2>1. CASE HeadersCaughtUp /\ AcceptNewHeader(b)
    BY <1>1, <2>1, AcceptNewHeaderMarks DEF SelectorHeader
  <2>2. CASE AcceptKnownHeader(b)
    <3>1. PICK t \in Blocks : IndexHolds(t)
      BY DEF IndInv
    <3>2. reindex_chain(acc, clean) /\ clean \in BOOLEAN
      BY <2>2 DEF AcceptKnownHeader, IndInv, TypeOK
    <3>3. validation_index = Genesis => acc = {}
      BY GenesisFacts DEF IndInv, ValidationHolds, AccOf
    <3>4. header' = header
      BY <3>1, <3>2, <3>3, ReindexIs
    <3> QED BY <3>4 DEF MarksSoundly
  <2> QED BY <1>1, <2>1, <2>2 DEF SelectorHeader, Undisturbed
<1>2. ASSUME NEW b \in Blocks \ {Genesis}, RunningHeader(b) PROVE MarksSoundly
  BY <1>2, AcceptNewHeaderMarks DEF RunningHeader
<1>3. ASSUME NEW b \in Blocks \ {Genesis}, ConnectBlock(b) \/ RejectBlock(b) PROVE MarksSoundly
  BY <1>3, ConnectBlockMarks, InvalidateMarks DEF RejectBlock, IndInv
<1>4. CASE SwiftSyncFinish \/ \E h \in Heights : SwiftSyncReject(h)
  BY <1>4, SwiftSyncMarks
<1>5. CASE SelectorDone \/ SyncDone \/ UNCHANGED vars
  BY <1>5 DEF SelectorDone, SyncDone, vars, store, MarksSoundly
<1>6. ~AssumeConfigured
  BY DEF AssumeConfigured, AssumePending, Undisturbed
<1>7. ~BackfillTask
  BY DEF BackfillTask, BackfillInSync, MarkBlockAsValid, IndInv
<1>8. CASE Crash \/ Shutdown
  <2>1. clean \in BOOLEAN
    BY DEF IndInv, TypeOK
  <2>2. header' = header
    BY <1>8, <2>1, OpenMarks DEF Crash, Shutdown
  <2> QED BY <2>2 DEF MarksSoundly
<1> QED BY <1>1, <1>2, <1>3, <1>4, <1>5, <1>6, <1>7, <1>8 DEF Next, NodeTask, Synchronize

(* FullyValid is only said of blocks that, with all their ancestors, keep  *)
(* the consensus rules.                                                    *)
THEOREM OnlyValidBlocksMarked == Undisturbed => (Spec => []OnlyValidMarked)
<1> SUFFICES ASSUME Undisturbed PROVE Spec => []OnlyValidMarked
  OBVIOUS
<1>1. Init => OnlyValidMarked
  <2>1. SUFFICES ASSUME Init PROVE OnlyValidMarked
    OBVIOUS
  <2>2. \A b \in Blocks : header[b] = "FullyValid" => b = Genesis
    BY <2>1 DEF Init
  <2>3. Path[Genesis] = {Genesis} /\ Genesis \notin Invalid
    BY GenesisFacts, ConfigAssumption DEF ConfigAssumption
  <2> QED BY <2>2, <2>3 DEF OnlyValidMarked
<1>2. IndInv /\ OnlyValidMarked /\ [Next]_vars => OnlyValidMarked'
  BY NextMarks DEF MarksSoundly, OnlyValidMarked
<1>3. Spec => []IndInv
  BY Invariance
<1> QED BY <1>1, <1>2, <1>3, PTL DEF Spec

(* A block that invalidate_block has marked stays InvalidChain, whatever   *)
(* reorgs, reindexes and restarts follow.                                  *)
THEOREM InvalidStays == Undisturbed => (Spec => InvalidForGood)
<1> SUFFICES ASSUME Undisturbed PROVE Spec => InvalidForGood
  OBVIOUS
<1>1. IndInv /\ OnlyValidMarked /\ [Next]_vars
        => [\A b \in Blocks : header[b] = "InvalidChain" => header'[b] = "InvalidChain"]_vars
  BY NextMarks DEF MarksSoundly
<1>2. Spec => []IndInv
  BY Invariance
<1>3. Spec => []OnlyValidMarked
  BY OnlyValidBlocksMarked
<1> QED BY <1>1, <1>2, <1>3, PTL DEF Spec, InvalidForGood

-----------------------------------------------------------------------------
(* A path is finite: it has one block for each of its heights.               *)
LEMMA PathFinite ==
  ASSUME NEW b \in Blocks
  PROVE  IsFiniteSet(Path[b])
<1> DEFINE f == [a \in Path[b] |-> Height[a]]
<1>1. \A a \in Path[b] : Height[a] \in 0..Height[b]
  BY PathFacts, HeightFacts, SMT
<1>2. f \in Injection(Path[b], 0..Height[b])
  BY <1>1, PathFacts DEF Injection, IsInjective
<1>3. IsFiniteSet(0..Height[b])
  <2>1. 0 \in Int /\ Height[b] \in Int
    BY HeightFacts, SMT
  <2> QED BY <2>1, FS_Interval
<1> QED BY <1>2, <1>3, FS_Injection

(* The work of a chain is a number.                                          *)
LEMMA WorkOf ==
  ASSUME NEW b \in Blocks
  PROVE  TotalWork(b) \in Nat /\ \A a \in Path[b] : Work[a] \in Nat \ {0}
<1>1. \A a \in Path[b] : Work[a] \in Nat \ {0}
  BY WorkAssumption, PathFacts DEF WorkAssumption
<1> QED BY <1>1, PathFinite, SumNat DEF TotalWork

(* The work of a branch on top of one of its blocks.                       *)
Gained(b, a) ==
  /\ TotalWork(b) = TotalWork(a) + SumFunctionOnSet(Work, Path[b] \ Path[a])
  /\ SumFunctionOnSet(Work, Path[b] \ Path[a]) \in Nat
  /\ a # b => SumFunctionOnSet(Work, Path[b] \ Path[a]) > 0

(* Blocks on top add their work.                                             *)
LEMMA WorkAbove ==
  ASSUME NEW b \in Blocks, NEW a \in Path[b]
  PROVE  Gained(b, a)
<1> DEFINE B == Path[b] \ Path[a]
<1>1. a \in Blocks /\ Path[a] \subseteq Path[b] /\ b \in Path[b]
  BY PathFacts
<1>2. IsFiniteSet(Path[a]) /\ IsFiniteSet(B)
  BY <1>1, PathFinite, FS_Subset
<1>3. Path[a] \cup B = Path[b] /\ Path[a] \cap B = {} /\ B \subseteq Path[b]
  BY <1>1
<1>4. \A y \in Path[b] : Work[y] \in Nat \ {0}
  BY WorkOf
<1> HIDE DEF B
<1>5. SumFunctionOnSet(Work, Path[a] \cup B) = SumFunctionOnSet(Work, Path[a]) + SumFunctionOnSet(Work, B)
  BY <1>2, <1>3, <1>4, SumUnion
<1>6. SumFunctionOnSet(Work, B) \in Nat
  BY <1>2, <1>3, <1>4, SumNat
<1>7. ASSUME a # b PROVE SumFunctionOnSet(Work, B) > 0
  <2>1. b \in B
    <3>1. b \notin Path[a]
      <4>1. SUFFICES ASSUME b \in Path[a] PROVE a = b
        BY <1>7
      <4>2. Height[a] <= Height[b] /\ Height[b] <= Height[a]
        BY <1>1, <4>1, PathFacts
      <4>3. Height[a] = Height[b]
        BY <1>1, <4>2, HeightFacts, SMT
      <4> QED BY <1>1, <4>3, PathFacts
    <3> QED BY <1>1, <3>1 DEF B
  <2>2. TakenOut(Work, B, b)
    BY <1>2, <1>3, <1>4, <2>1, SumWithout
  <2>3. SumFunctionOnSet(Work, B \ {b}) \in Nat
    <3>1. IsFiniteSet(B \ {b}) /\ \A y \in B \ {b} : Work[y] \in Nat
      BY <1>2, <1>3, <1>4, FS_Subset
    <3> QED BY <3>1, SumNat
  <2>4. Work[b] \in Nat \ {0}
    BY <1>1, <1>4
  <2> QED BY <2>2, <2>3, <2>4, SMT DEF TakenOut
<1>8. TotalWork(b) = TotalWork(a) + SumFunctionOnSet(Work, B)
  BY <1>3, <1>5 DEF TotalWork
<1> QED BY <1>6, <1>7, <1>8 DEF Gained, B

-----------------------------------------------------------------------------
(* The consensus rule get_branch_work relies on: the difficulty of a block *)
(* is that of the first block of its retarget period.                      *)
DifficultyKept ==
  \A b \in Blocks : \A a \in Path[b] :
    Height[a] = Height[b] - (Height[b] % DIFFCHANGE_INTERVAL) => Work[a] = Work[b]

(* The terms get_branch_work adds: the heights where a retarget period       *)
(* starts, the blocks it counts for each, and their work.                    *)
Starts(t) == {h \in 0..Height[t] : h % DIFFCHANGE_INTERVAL = 0}
Span(h, H) == Min({h + DIFFCHANGE_INTERVAL - 1, H}) - h + 1
Counted(t) == [h \in Starts(t) |-> Work[slot[h]] * Span(h, Height[t])]

(* A period counts in full, the last one up to the tip.                      *)
LEMMA SpanIs ==
  ASSUME NEW H \in Nat, NEW h \in 0..H
  PROVE  /\ Span(h, H) = IF h + DIFFCHANGE_INTERVAL <= H THEN DIFFCHANGE_INTERVAL ELSE H - h + 1
         /\ Span(h, H) \in Nat
<1> DEFINE D == DIFFCHANGE_INTERVAL
           m == IF h + D <= H THEN h + D - 1 ELSE H
           S == {h + D - 1, H}
<1>1. D \in Nat \ {0}
  BY ConfigAssumption DEF ConfigAssumption
<1>2. m \in S /\ \A x \in S : m <= x
  <2>1. CASE h + D <= H
    BY <1>1, <2>1, SMT
  <2>2. CASE ~(h + D <= H)
    <3>1. h + D - 1 \in Int /\ H <= h + D - 1
      BY <1>1, <2>2, SMT
    <3> QED BY <2>2, <3>1, SMT
  <2> QED BY <2>1, <2>2
<1>3. \A x \in S : (\A y \in S : x <= y) => x = m
  <2>1. S \subseteq Int
    BY <1>1, SMT
  <2> HIDE DEF S, m
  <2> QED BY <1>2, <2>1, SMT
<1>4. Min(S) = m
  BY <1>2, <1>3 DEF Min
<1>5. Span(h, H) = m - h + 1
  BY <1>4 DEF Span
<1> QED BY <1>1, <1>5, SMT

(* The periods that have begun at a block and at its parent are counted    *)
(* with the same length, except the one the block is in.                   *)
LEMMA EarlierSpans ==
  ASSUME NEW H \in Nat \ {0}, NEW h \in 0..H - 1, NEW s \in 0..H,
         h % DIFFCHANGE_INTERVAL = 0, s % DIFFCHANGE_INTERVAL = 0, h < s
  PROVE  Span(h, H) = Span(h, H - 1)
<1>1. DIFFCHANGE_INTERVAL \in Nat \ {0}
  BY ConfigAssumption DEF ConfigAssumption
<1>2. h \in Nat /\ s \in Nat /\ h \in 0..H /\ H \in Nat /\ H - 1 \in Nat
  BY SMT
<1>3. h + DIFFCHANGE_INTERVAL <= s
  BY <1>1, <1>2, MultiplesApart
<1>4. Span(h, H) = DIFFCHANGE_INTERVAL
  BY <1>1, <1>2, <1>3, SpanIs, SMT
<1>5. Span(h, H - 1) = IF h + DIFFCHANGE_INTERVAL <= H - 1 THEN DIFFCHANGE_INTERVAL ELSE (H - 1) - h + 1
  BY <1>2, SpanIs
<1>6. Span(h, H - 1) = DIFFCHANGE_INTERVAL
  BY <1>1, <1>2, <1>3, <1>5, SMT
<1> QED BY <1>4, <1>6

(* What get_branch_work reads for a block of the active chain.               *)
LEMMA CountedIs ==
  ASSUME IndInv, NEW t \in Path[best_block]
  PROVE  /\ t \in Blocks /\ IsFiniteSet(Starts(t))
         /\ \A h \in Starts(t) : /\ slot[h] \in Path[t] /\ Height[slot[h]] = h
                                 /\ Work[slot[h]] \in Nat
                                 /\ Counted(t)[h] = Work[slot[h]] * Span(h, Height[t])
                                 /\ Counted(t)[h] \in Nat
         /\ get_branch_work(t) = SumFunctionOnSet(Counted(t), Starts(t))
<1>1. best_block \in Blocks /\ t \in Blocks /\ Path[t] \subseteq Path[best_block] /\ Height[t] \in Nat
  BY PathFacts, HeightFacts DEF IndInv, TypeOK
<1>2. IsFiniteSet(Starts(t))
  <2>1. IsFiniteSet(0..Height[t])
    <3>1. 0 \in Int /\ Height[t] \in Int
      BY <1>1, SMT
    <3> QED BY <3>1, FS_Interval
  <2> QED BY <2>1, FS_Subset DEF Starts
<1>3. ASSUME NEW h \in Starts(t)
      PROVE  /\ slot[h] \in Path[t] /\ Height[slot[h]] = h
             /\ Work[slot[h]] \in Nat
             /\ Counted(t)[h] = Work[slot[h]] * Span(h, Height[t])
             /\ Counted(t)[h] \in Nat
  <2>1. h \in 0..Height[t]
    BY DEF Starts
  <2>2. PICK a \in Path[t] : Height[a] = h
    BY <1>1, <2>1, PathFacts
  <2>3. slot[h] = a
    BY <1>1, <2>2, ActiveSlots
  <2>4. Work[a] \in Nat /\ Span(h, Height[t]) \in Nat
    BY <1>1, <2>1, WorkOf, SpanIs
  <2>5. Counted(t)[h] = Work[slot[h]] * Span(h, Height[t])
    BY DEF Counted
  <2> QED BY <2>2, <2>3, <2>4, <2>5, SMT
<1>4. get_branch_work(t) = SumFunctionOnSet(Counted(t), Starts(t))
  BY DEF get_branch_work, Counted, Starts, Span
<1> QED BY <1>1, <1>2, <1>3, <1>4

-----------------------------------------------------------------------------
(* One block more: the period it opens, or one more block of its period.   *)
LEMMA WorkOfOneMore ==
  ASSUME IndInv, DifficultyKept, NEW t \in Path[best_block], t # Genesis,
         NEW p, p = Parent[t], get_branch_work(p) = TotalWork(p)
  PROVE  get_branch_work(t) = TotalWork(t)
<1> DEFINE D == DIFFCHANGE_INTERVAL
           H == Height[t]
           T == Starts(t)
           P == Starts(p)
<1>1. /\ t \in Blocks \ {Genesis} /\ p \in Blocks /\ p \in Path[best_block]
      /\ H = Height[p] + 1 /\ Path[t] = Path[p] \cup {t} /\ t \notin Path[p]
      /\ t \in Path[t] /\ p \in Path[p] /\ p \in Path[t] /\ Path[t] \subseteq Path[best_block]
  <2>1. best_block \in Blocks
    BY DEF IndInv, TypeOK
  <2>2. t \in Blocks \ {Genesis} /\ Path[t] \subseteq Path[best_block]
    BY <2>1, PathFacts
  <2>3. /\ p \in Blocks /\ Height[t] = Height[p] + 1 /\ Path[t] = Path[p] \cup {t}
        /\ t \notin Path[p]
    BY <2>2, ParentFacts
  <2>4. t \in Path[t] /\ p \in Path[p]
    BY <2>2, <2>3, PathFacts
  <2> QED BY <2>2, <2>3, <2>4
<1>2. /\ D \in Nat \ {0} /\ Height[p] \in Nat /\ H \in Nat \ {0} /\ Height[p] = H - 1
      /\ H \in 0..H
  <2>1. D \in Nat \ {0} /\ Height[p] \in Nat
    BY <1>1, HeightFacts, ConfigAssumption DEF ConfigAssumption
  <2> QED BY <1>1, <2>1, SMT
<1>3. TotalWork(t) = TotalWork(p) + Work[t] /\ TotalWork(p) \in Nat /\ Work[t] \in Nat
  <2>1. Gained(t, p) /\ Path[t] \ Path[p] = {t}
    BY <1>1, WorkAbove
  <2>2. TakenOut(Work, {t}, t)
    <3>1. IsFiniteSet({t}) /\ \A y \in {t} : Work[y] \in Nat
      BY <1>1, FS_Singleton, WorkOf
    <3> QED BY <3>1, SumWithout
  <2>3. SumFunctionOnSet(Work, {t} \ {t}) = 0
    BY SumEmpty
  <2>4. Work[t] \in Nat /\ TotalWork(p) \in Nat
    BY <1>1, WorkOf
  <2>5. SumFunctionOnSet(Work, {t}) = Work[t]
    BY <2>2, <2>3, <2>4, SMT DEF TakenOut
  <2> QED BY <2>1, <2>4, <2>5 DEF Gained
<1>4. /\ IsFiniteSet(T) /\ IsFiniteSet(P)
      /\ \A h \in T : /\ slot[h] \in Path[t] /\ Height[slot[h]] = h /\ Work[slot[h]] \in Nat
                      /\ Counted(t)[h] = Work[slot[h]] * Span(h, H)
                      /\ Counted(t)[h] \in Nat
      /\ \A h \in P : /\ Counted(p)[h] = Work[slot[h]] * Span(h, H - 1)
                      /\ Counted(p)[h] \in Nat
      /\ get_branch_work(t) = SumFunctionOnSet(Counted(t), T)
      /\ get_branch_work(p) = SumFunctionOnSet(Counted(p), P)
  <2>1. /\ IsFiniteSet(T)
        /\ \A h \in T : /\ slot[h] \in Path[t] /\ Height[slot[h]] = h /\ Work[slot[h]] \in Nat
                        /\ Counted(t)[h] = Work[slot[h]] * Span(h, H)
                        /\ Counted(t)[h] \in Nat
        /\ get_branch_work(t) = SumFunctionOnSet(Counted(t), T)
    BY CountedIs
  <2>2. /\ IsFiniteSet(P)
        /\ \A h \in P : /\ Counted(p)[h] = Work[slot[h]] * Span(h, Height[p])
                        /\ Counted(p)[h] \in Nat
        /\ get_branch_work(p) = SumFunctionOnSet(Counted(p), P)
    BY <1>1, CountedIs
  <2> QED BY <1>2, <2>1, <2>2
<1>5. /\ \A h : h \in T <=> h \in 0..H /\ h % D = 0
      /\ \A h : h \in P <=> h \in 0..H - 1 /\ h % D = 0
  BY <1>2 DEF Starts
<1>6. ASSUME NEW h \in P, NEW s \in T, h < s PROVE Counted(t)[h] = Counted(p)[h] /\ h \in T
  <2>1. h \in T
    BY <1>2, <1>5, <1>6, SMT
  <2>2. Span(h, H) = Span(h, H - 1)
    BY <1>2, <1>5, <1>6, EarlierSpans
  <2> QED BY <1>4, <2>1, <2>2
<1> HIDE DEF T, P, D, H
<1>7. CASE H % D = 0
  <2>1. H \in T /\ slot[H] = t
    <3>1. H \in T
      BY <1>2, <1>5, <1>7
    <3> QED BY <1>1, <3>1, ActiveSlots DEF H
  <2>2. T \ {H} = P
    <3>1. \A h \in T \ {H} : h \in P
      BY <1>2, <1>5, SMT
    <3>2. \A h \in P : h \in T \ {H}
      BY <1>2, <1>5, SMT
    <3> QED BY <3>1, <3>2
  <2>3. SumFunctionOnSet(Counted(t), T) = Counted(t)[H] + SumFunctionOnSet(Counted(t), P)
    <3>1. TakenOut(Counted(t), T, H)
      BY <1>4, <2>1, SumWithout
    <3> QED BY <2>2, <3>1 DEF TakenOut
  <2>4. SumFunctionOnSet(Counted(t), P) = SumFunctionOnSet(Counted(p), P)
    <3>1. ASSUME NEW h \in P PROVE Counted(t)[h] = Counted(p)[h]
      <4>1. h < H
        BY <1>2, <1>5, SMT
      <4> QED BY <1>6, <2>1, <4>1
    <3>2. \A h \in P : Counted(t)[h] = Counted(p)[h]
      BY <3>1
    <3>3. IsFiniteSet(P)
      BY <1>4
    <3> QED BY ONLY <3>2, <3>3, SumSame, Zenon
  <2>5. Span(H, H) = 1
    BY <1>2, SpanIs, SMT DEF D
  <2>6. Counted(t)[H] = Work[t]
    <3>1. Counted(t)[H] = Work[t] * 1
      BY <1>4, <2>1, <2>5
    <3> QED BY <1>3, <3>1, SMT
  <2> QED BY <1>3, <1>4, <2>3, <2>4, <2>6, SMT
<1>8. CASE H % D # 0
  <2> DEFINE s == H - (H % D)
  <2>1. s \in 0..H /\ s % D = 0 /\ H <= s + D - 1
    BY <1>2, MultipleBelow
  <2> HIDE DEF s
  <2>2. s \in T /\ s \in P /\ s # H
    <3>1. s # H
      BY <1>8, <2>1
    <3>2. s \in 0..H - 1
      BY <1>2, <2>1, <3>1, SMT
    <3> QED BY <1>5, <2>1, <3>1, <3>2
  <2>3. T = P
    <3>1. \A h \in T : h # H
      BY <1>5, <1>8
    <3>2. \A h \in T : h \in P
      BY <1>2, <1>5, <3>1, SMT
    <3>3. \A h \in P : h \in T
      BY <1>2, <1>5, SMT
    <3> QED BY <3>2, <3>3
  <2>4. Work[slot[s]] = Work[t] /\ Work[t] \in Nat
    <3>1. slot[s] \in Path[t] /\ Height[slot[s]] = H - (H % D)
      BY <1>4, <2>2 DEF s
    <3> QED BY <1>1, <1>3, <3>1 DEF DifficultyKept, H, D
  <2>5. ASSUME NEW h \in T \ {s} PROVE Counted(t)[h] = Counted(p)[h]
    <3>1. h < s
      <4>1. SUFFICES ASSUME s < h PROVE FALSE
        BY <1>2, <1>5, <2>1, SMT
      <4>2. s \in Nat /\ h \in Nat
        BY <1>2, <1>5, <2>1, SMT
      <4>3. s + D <= h
        BY <1>2, <1>5, <2>1, <4>1, <4>2, MultiplesApart
      <4> QED BY <1>2, <1>5, <2>1, <4>2, <4>3, SMT
    <3> QED BY <1>6, <2>2, <2>3, <3>1
  <2>6. /\ SumFunctionOnSet(Counted(t), T) = Counted(t)[s] + SumFunctionOnSet(Counted(t), T \ {s})
        /\ SumFunctionOnSet(Counted(p), T) = Counted(p)[s] + SumFunctionOnSet(Counted(p), T \ {s})
    <3>1. TakenOut(Counted(t), T, s)
      BY <1>4, <2>2, SumWithout
    <3>2. TakenOut(Counted(p), T, s)
      BY <1>4, <2>2, <2>3, SumWithout
    <3> QED BY <3>1, <3>2 DEF TakenOut
  <2>7. /\ SumFunctionOnSet(Counted(t), T \ {s}) = SumFunctionOnSet(Counted(p), T \ {s})
        /\ SumFunctionOnSet(Counted(p), T \ {s}) \in Nat
    <3>1. IsFiniteSet(T \ {s}) /\ \A h \in T \ {s} : Counted(p)[h] \in Nat
      BY <1>4, <2>3, FS_Subset
    <3>2. SumFunctionOnSet(Counted(p), T \ {s}) \in Nat
      BY <3>1, SumNat
    <3> QED BY <2>5, <3>1, <3>2, SumSame
  <2>8. Span(s, H) = H - s + 1 /\ Span(s, H - 1) = H - s
    <3>1. Span(s, H) = H - s + 1
      BY <1>2, <2>1, SpanIs, SMT DEF D
    <3>2. s \in 0..H - 1 /\ H - 1 \in Nat
      BY <1>2, <1>5, <2>2, SMT
    <3>3. Span(s, H - 1) = IF s + D <= H - 1 THEN D ELSE (H - 1) - s + 1
      BY <3>2, SpanIs DEF D
    <3> QED BY <1>2, <2>1, <3>1, <3>2, <3>3, SMT
  <2>9. Counted(t)[s] = Work[t] * (H - s + 1) /\ Counted(p)[s] = Work[t] * (H - s)
    BY <1>4, <2>2, <2>4, <2>8
  <2>10. H - s \in Nat
    BY <1>2, <2>1, SMT
  <2>11. Work[t] * (H - s + 1) = (Work[t] * (H - s)) + Work[t] /\ Work[t] * (H - s) \in Nat
    <3> DEFINE k == H - s
    <3>1. k \in Nat
      BY <2>10
    <3> HIDE DEF k
    <3>2. Work[t] * (k + 1) = (Work[t] * k) + Work[t] /\ Work[t] * k \in Nat
      BY <1>3, <3>1, SMT
    <3> QED BY <3>2 DEF k
  <2>12. SumFunctionOnSet(Counted(t), T) = SumFunctionOnSet(Counted(p), T) + Work[t]
    BY <1>3, <2>6, <2>7, <2>9, <2>11, SMT
  <2> QED BY <1>3, <1>4, <2>3, <2>12
<1> QED BY <1>7, <1>8

-----------------------------------------------------------------------------
(* The chain of one block.                                                   *)
LEMMA WorkOfGenesis ==
  ASSUME IndInv
  PROVE  get_branch_work(Genesis) = TotalWork(Genesis)
<1>1. /\ Genesis \in Path[best_block] /\ Height[Genesis] = 0 /\ Path[Genesis] = {Genesis}
      /\ slot[0] = Genesis
  <2>1. Genesis \in Path[best_block] /\ Height[Genesis] = 0 /\ Path[Genesis] = {Genesis}
    BY PathFacts, GenesisFacts DEF IndInv, TypeOK
  <2> QED BY <2>1, ActiveSlots
<1>2. Starts(Genesis) = {0}
  <2>1. DIFFCHANGE_INTERVAL \in Nat \ {0}
    BY ConfigAssumption DEF ConfigAssumption
  <2>2. 0 % DIFFCHANGE_INTERVAL = 0
    BY <2>1, SMT
  <2>3. \A h : h \in 0..0 <=> h = 0
    BY SMT
  <2> QED BY <1>1, <2>2, <2>3 DEF Starts
<1>3. /\ Counted(Genesis)[0] = Work[Genesis] * Span(0, 0)
      /\ Counted(Genesis)[0] \in Nat /\ Work[Genesis] \in Nat
      /\ get_branch_work(Genesis) = SumFunctionOnSet(Counted(Genesis), {0})
  BY <1>1, <1>2, CountedIs
<1>4. Span(0, 0) = 1
  <2>1. DIFFCHANGE_INTERVAL \in Nat \ {0}
    BY ConfigAssumption DEF ConfigAssumption
  <2>2. 0 \in Nat /\ 0 \in 0..0
    BY SMT
  <2> QED BY <2>1, <2>2, SpanIs, SMT
<1>5. Counted(Genesis)[0] = Work[Genesis]
  BY <1>3, <1>4, SMT
<1>6. ASSUME NEW f, NEW x, f[x] \in Nat PROVE SumFunctionOnSet(f, {x}) = f[x]
  <2>1. IsFiniteSet({x}) /\ \A y \in {x} : f[y] \in Nat
    BY <1>6, FS_Singleton
  <2>2. TakenOut(f, {x}, x)
    BY <2>1, SumWithout
  <2>3. SumFunctionOnSet(f, {x} \ {x}) = 0
    BY SumEmpty
  <2> QED BY <1>6, <2>2, <2>3, SMT DEF TakenOut
<1>7. SumFunctionOnSet(Counted(Genesis), {0}) = Counted(Genesis)[0]
  BY <1>3, <1>6
<1>8. SumFunctionOnSet(Work, {Genesis}) = Work[Genesis]
  BY <1>3, <1>6
<1> QED BY <1>1, <1>3, <1>5, <1>7, <1>8 DEF TotalWork

(* get_branch_work counts the work of the active chain up to t.            *)
LEMMA BranchWorkIs ==
  ASSUME IndInv, DifficultyKept, NEW t \in Path[best_block]
  PROVE  get_branch_work(t) = TotalWork(t)
<1> DEFINE Bad == {n \in Nat : \E a \in Path[best_block] : /\ Height[a] = n
                                                          /\ get_branch_work(a) # TotalWork(a)}
<1>1. best_block \in Blocks /\ Path[best_block] \subseteq Blocks
  BY PathFacts DEF IndInv, TypeOK
<1>2. SUFFICES ASSUME Bad # {} PROVE FALSE
  <2>1. t \in Blocks /\ Height[t] \in Nat
    BY <1>1, HeightFacts
  <2> QED BY <2>1
<1>3. PICK n \in Bad : \A k \in Bad : n <= k
  BY <1>2, Least
<1>4. PICK a \in Path[best_block] : Height[a] = n /\ get_branch_work(a) # TotalWork(a)
  OBVIOUS
<1>5. a # Genesis
  BY <1>4, WorkOfGenesis
<1> DEFINE p == Parent[a]
<1>6. p \in Path[best_block] /\ Height[p] \in Nat /\ n = Height[p] + 1
  <2>1. a \in Blocks \ {Genesis} /\ Path[a] \subseteq Path[best_block]
    BY <1>1, <1>5, PathFacts
  <2>2. p \in Blocks /\ Height[a] = Height[p] + 1 /\ Path[a] = Path[p] \cup {a}
    BY <2>1, ParentFacts
  <2>3. p \in Path[p] /\ Height[p] \in Nat
    BY <2>2, PathFacts, HeightFacts
  <2> QED BY <1>4, <2>1, <2>2, <2>3
<1>7. get_branch_work(p) = TotalWork(p)
  <2>1. ~(n <= Height[p])
    BY <1>6, SMT
  <2>2. Height[p] \notin Bad
    BY <1>3, <2>1
  <2> QED BY <1>6, <2>2
<1> HIDE DEF p
<1> QED BY <1>4, <1>5, <1>7, WorkOfOneMore DEF p

(* A tip left behind by a header: there is more work in the new one.       *)
TipMoves ==
  \/ best_block' = best_block
  \/ TotalWork(best_block') > TotalWork(best_block)
  \/ best_block' \in Path[best_block] /\ header'[best_block] = "InvalidChain"

(* A descendant has more work.                                               *)
LEMMA MoreWorkAbove ==
  ASSUME NEW b \in Blocks, NEW a \in Path[b], a # b
  PROVE  TotalWork(b) > TotalWork(a)
<1>1. Gained(b, a)
  BY WorkAbove
<1>2. TotalWork(a) \in Nat
  BY PathFacts, WorkOf
<1> QED BY <1>1, <1>2, SMT DEF Gained

(* A new header moves the tip when it extends it, or when its branch has     *)
(* more work (maybe_reorg).                                                  *)
LEMMA NewHeaderTip ==
  ASSUME IndInv, DifficultyKept, NEW b \in Blocks \ {Genesis}, AcceptNewHeader(b),
         (ibd = "HeadersSync" /\ HeadersCaughtUp) \/ ibd = "Done"
  PROVE  TipMoves
<1>1. IndexHolds(best_block) /\ best_block \in Blocks
  BY CaughtUpIs DEF IndInv, IndexHolds, TypeOK
<1>2. CASE Parent[b] = best_block
  <2>1. best_block' = b
    BY <1>2 DEF AcceptNewHeader
  <2>2. best_block \in Path[b] /\ best_block # b
    <3>1. Path[b] = Path[Parent[b]] \cup {b} /\ b \notin Path[Parent[b]]
      BY ParentFacts
    <3>2. best_block \in Path[best_block]
      BY <1>1, PathFacts
    <3> QED BY <1>2, <3>1, <3>2
  <2>3. TotalWork(b) > TotalWork(best_block)
    BY <2>2, MoreWorkAbove
  <2> QED BY <2>1, <2>3 DEF TipMoves
<1>3. CASE Parent[b] # best_block
  <2> DEFINE f == find_fork_point(b)
             v == get_last_valid_block(b)
  <2>1. maybe_reorg(b)
    BY <1>3 DEF AcceptNewHeader
  <2>2. CASE get_fork_work(b, f) > get_branch_work(best_block)
    <3>1. CanReorg(b) /\ reorg(b)
      BY <2>1, <2>2 DEF maybe_reorg
    <3>2. best_block' = b
      BY <3>1 DEF reorg
    <3>3. f \in Path[Parent[b]] /\ f \in Path[best_block]
      BY <1>1, <3>1, ForkPointIs
    <3> HIDE DEF f
    <3>4. f \in Path[b]
      BY <3>3, ParentFacts
    <3>5. Gained(b, f)
      BY <3>4, WorkAbove
    <3>6. best_block \in Path[best_block]
      BY <1>1, PathFacts
    <3>7. get_branch_work(f) = TotalWork(f)
      BY <3>3, BranchWorkIs
    <3>8. get_branch_work(best_block) = TotalWork(best_block)
      BY <3>6, BranchWorkIs
    <3>9. get_fork_work(b, f) = TotalWork(b)
      BY <3>5, <3>7 DEF get_fork_work, Gained
    <3> QED BY <2>2, <3>2, <3>8, <3>9 DEF TipMoves
  <2>3. CASE ~(get_fork_work(b, f) > get_branch_work(best_block))
    <3>1. StoreFork(b)
      BY <2>1, <2>3 DEF maybe_reorg
    <3> QED BY <3>1 DEF StoreFork, TipMoves
  <2> QED BY <2>2, <2>3
<1> QED BY <1>2, <1>3

(* A reindex takes the tip to the end of the index, above it.                *)
LEMMA KnownHeaderTip ==
  ASSUME IndInv, NEW b \in Blocks, AcceptKnownHeader(b)
  PROVE  TipMoves
<1>1. PICK t \in Blocks : IndexHolds(t)
  BY DEF IndInv
<1>2. best_block' = slot[IndexedTo]
  BY DEF AcceptKnownHeader, reindex_chain
<1>3. IndexedTo = Height[t]
  BY <1>1, IndexedToIs DEF IndInv
<1>4. slot[Height[t]] = t /\ best_block \in Path[t]
  BY <1>1, PathFacts DEF IndexHolds
<1> QED BY <1>2, <1>3, <1>4, MoreWorkAbove DEF TipMoves

(* invalidate_block takes the tip back, and marks what it leaves.            *)
LEMMA InvalidTip ==
  ASSUME IndInv, NEW b \in Path[best_block], b # Genesis, InvalidateBlock(b)
  PROVE  TipMoves
<1>1. /\ best_block \in Blocks /\ b \in Blocks \ {Genesis} /\ depth = Height[best_block]
      /\ best_block \in Path[best_block] /\ Path[b] \subseteq Path[best_block]
      /\ Height[b] <= depth /\ TypeOK
  BY PathFacts DEF IndInv, TypeOK, ValidationHolds
<1>2. Parent[b] \in Path[best_block]
  <2>1. Parent[b] \in Blocks /\ Path[b] = Path[Parent[b]] \cup {b}
    BY <1>1, ParentFacts
  <2>2. Parent[b] \in Path[Parent[b]]
    BY <2>1, PathFacts
  <2> QED BY <1>1, <2>1, <2>2
<1>3. slot[depth] = best_block
  BY <1>1, ActiveSlots
<1>4. depth \in Height[b]..depth
  BY <1>1, HeightFacts, SMT
<1> DEFINE S == {slot[h] : h \in Height[b]..depth}
<1>5. best_block \in S
  BY <1>3, <1>4
<1>6. header' = SetAll(header, S, "InvalidChain") /\ best_block' = Parent[b]
  BY DEF InvalidateBlock, SaveFork
<1> HIDE DEF S
<1>7. header'[best_block] = "InvalidChain"
  BY <1>1, <1>5, <1>6 DEF SetAll, TypeOK
<1> QED BY <1>2, <1>6, <1>7 DEF TipMoves

(* All steps of one run of the node.                                         *)
LEMMA NextTip ==
  ASSUME Undisturbed, DifficultyKept, IndInv, [Next]_vars, restarts' = restarts
  PROVE  TipMoves
<1>1. ASSUME NEW b \in Blocks \ {Genesis}, SelectorHeader(b) PROVE TipMoves
  <2>1. CASE HeadersCaughtUp /\ AcceptNewHeader(b)
    BY <1>1, <2>1, NewHeaderTip DEF SelectorHeader
  <2>2. CASE AcceptKnownHeader(b)
    BY <2>2, KnownHeaderTip
  <2> QED BY <1>1, <2>1, <2>2 DEF SelectorHeader, Undisturbed
<1>2. ASSUME NEW b \in Blocks \ {Genesis}, RunningHeader(b) PROVE TipMoves
  BY <1>2, NewHeaderTip DEF RunningHeader
<1>3. ASSUME NEW b \in Blocks \ {Genesis}, ConnectBlock(b) PROVE TipMoves
  BY <1>3 DEF ConnectBlock, TipMoves
<1>4. ASSUME NEW b \in Blocks \ {Genesis}, RejectBlock(b) PROVE TipMoves
  <2>1. Height[validation_index] + 1 <= depth /\ b = NextBlock /\ InvalidateBlock(b)
    BY <1>4 DEF RejectBlock, CanProcess
  <2>2. Height[validation_index] \in Nat /\ depth \in Nat /\ depth \in Heights
    BY HeightFacts DEF IndInv, TypeOK
  <2>3. Height[validation_index] + 1 \in 0..depth
    BY <2>1, <2>2, SMT
  <2>4. b \in Path[best_block]
    BY <2>1, <2>2, <2>3, HeightFacts, ActiveSlots DEF NextBlock, SlotAt
  <2> QED BY <2>1, <2>4, InvalidTip
<1>5. ASSUME NEW h \in Heights, SwiftSyncReject(h) PROVE TipMoves
  <2>1. h \in 1..SwiftStop /\ SwiftStop <= depth /\ SwiftStop \in Nat /\ InvalidateBlock(slot[h])
    BY <1>5, ConfigAssumption DEF SwiftSyncReject, SwiftSyncable, ConfigAssumption
  <2>2. h \in 0..depth /\ h # 0
    <3>1. depth \in Nat
      BY HeightFacts DEF IndInv, TypeOK
    <3> QED BY <2>1, <3>1, SMT
  <2>3. slot[h] \in Path[best_block] /\ Height[slot[h]] = h
    BY <2>2, ActiveSlots
  <2>4. slot[h] # Genesis
    BY <2>2, <2>3, GenesisFacts
  <2> QED BY <2>1, <2>3, <2>4, InvalidTip
<1>6. CASE SelectorDone \/ SwiftSyncFinish \/ SyncDone \/ UNCHANGED vars
  BY <1>6 DEF SelectorDone, SwiftSyncFinish, mark_chain_as_assumed, SyncDone, vars, chain, TipMoves
<1>7. ~AssumeConfigured
  BY DEF AssumeConfigured, AssumePending, Undisturbed
<1>8. ~BackfillTask
  BY DEF BackfillTask, BackfillInSync, MarkBlockAsValid, IndInv
<1>9. ~(Crash \/ Shutdown)
  <2>1. restarts \in Nat
    BY ConfigAssumption, SMT DEF IndInv, TypeOK, ConfigAssumption
  <2>2. restarts' # restarts + 1
    BY <2>1, SMT
  <2> QED BY <2>2 DEF Crash, Shutdown
<1> QED BY <1>1, <1>2, <1>3, <1>4, <1>5, <1>6, <1>7, <1>8, <1>9 DEF Next, NodeTask, Synchronize

(* While it runs the node leaves its tip only for a block with more work   *)
(* (accept_header, maybe_reorg, reindex_chain), or goes back to an         *)
(* ancestor when invalidate_block has marked the tip.  maybe_reorg         *)
(* compares sums that get_branch_work takes one header per retarget period *)
(* for: that these are the work of the branches needs the consensus rule   *)
(* DifficultyKept.                                                         *)
THEOREM TipLeftForWork == Undisturbed /\ DifficultyKept => (Spec => TipChangesForWork)
<1> SUFFICES ASSUME Undisturbed, DifficultyKept PROVE Spec => TipChangesForWork
  OBVIOUS
<1>1. IndInv /\ [Next]_vars
        => [restarts' = restarts =>
              \/ best_block' = best_block
              \/ TotalWork(best_block') > TotalWork(best_block)
              \/ best_block' \in Path[best_block] /\ header'[best_block] = "InvalidChain"]_vars
  BY NextTip DEF TipMoves
<1>2. Spec => []IndInv
  BY Invariance
<1> QED BY <1>1, <1>2, PTL DEF Spec, TipChangesForWork

(* get_branch_work returns the work of the active chain, all of it, in     *)
(* every state the node reaches ("the cumulative work in this branch").    *)
THEOREM WorkIsCumulative == Undisturbed /\ DifficultyKept => (Spec => []BranchWorkIsCumulative)
<1> SUFFICES ASSUME Undisturbed, DifficultyKept PROVE Spec => []BranchWorkIsCumulative
  OBVIOUS
<1>1. IndInv => BranchWorkIsCumulative
  <2> SUFFICES ASSUME IndInv PROVE get_branch_work(best_block) = TotalWork(best_block)
    BY DEF BranchWorkIsCumulative
  <2>2. best_block \in Path[best_block]
    BY PathFacts DEF IndInv, TypeOK
  <2> QED BY <2>2, BranchWorkIs
<1>2. Spec => []IndInv
  BY Invariance
<1> QED BY <1>1, <1>2, PTL
==============================================================================
