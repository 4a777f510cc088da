--------------------------- MODULE ChainInvariant ----------------------------
(*****************************************************************************)
(* The inductive invariant of ChainState, lemmas on its operators, and that  *)
(* each operation keeps the invariant: a reindex, which headers and restarts *)
(* have in common; headers on the tip, on a fork, in a reorg, and known ones *)
(* (accept_header); blocks connected, rejected, and assumed at the end of a  *)
(* SwiftSync; and the steps from one phase to the next.                      *)
(*****************************************************************************)
EXTENDS ChainState, DataLemmas

(* Leaves are for Zenon, unless they name the SMT solver.                  *)
USE Zenon

(* The theorems are about a node that does not backfill, is not given a    *)
(* block to assume, and asks for headers from its tip before it hears of   *)
(* others.  The run HeadersAnnounced shows what the last can disturb; the  *)
(* run Chain has instances with the first two.                             *)
Undisturbed == ~Backfill /\ ~Announcements /\ AssumeUtreexo = NoBlock

-----------------------------------------------------------------------------
(* The inductive invariant.  The height index holds the chain that ends in *)
(* t.  That is the active chain, except after a restart that found nothing *)
(* flushed, when it is what an earlier run had stored above Genesis.       *)
IndexHolds(t) ==
  /\ t \in Blocks
  /\ \A b \in Blocks : header[b] \in OnChain <=> b \in Path[t]
  /\ \A b \in Path[t] : slot[Height[b]] = b
  /\ best_block \in Path[t]
  /\ t = best_block \/ (best_block = Genesis /\ ibd = "HeadersSync" /\ saved.depth = 0)

SlotHeights == \A h \in Heights : slot[h] # NoBlock => Height[slot[h]] = h

(* The blocks marked FullyValid are the ancestors of the validation index, *)
(* and what is saved for their heights is their own accumulator.           *)
ValidationHolds ==
  /\ depth = Height[best_block]
  /\ validation_index \in Path[best_block]
  /\ \A b \in Blocks : header[b] = "FullyValid" <=> b \in Path[validation_index]
  /\ acc = AccOf(validation_index)

RootsHold ==
  /\ roots[0] = NoRoots
  /\ \A b \in Path[validation_index] \ {Genesis} : roots[Height[b]] \in {NoRoots, AccOf(b)}
  /\ validation_index # Genesis => roots[Height[validation_index]] # NoRoots

(* What the metadata says, as far as the next start relies on it.          *)
SavedHolds ==
  /\ saved.depth = 0 => validation_index = Genesis
  /\ saved.depth # 0 => saved.best_block \in Blocks /\ saved.validation_index \in Blocks
  /\ validation_index = Genesis => saved.validation_index \in {NoBlock, Genesis}
  /\ clean /\ saved.depth # 0 => saved = Saved(best_block, depth, validation_index)
  /\ ibd = "ProofSync" /\ depth # 0 => saved.depth # 0

IndInv ==
  /\ TypeOK
  /\ SlotHeights
  /\ \E t \in Blocks : IndexHolds(t)
  /\ ValidationHolds
  /\ RootsHold
  /\ SavedHolds
  /\ partial = {}

-----------------------------------------------------------------------------
(* Facts about the tree.                                                   *)

(* A path is a chain of blocks from Genesis, one per height.               *)
LEMMA PathFacts ==
  ASSUME NEW b \in Blocks
  PROVE  /\ Path[b] \subseteq Blocks
         /\ b \in Path[b] /\ Genesis \in Path[b] /\ Genesis \in Blocks
         /\ \A a \in Path[b] : Path[a] \subseteq Path[b] /\ Height[a] <= Height[b]
         /\ \A a, c \in Path[b] : Height[a] <= Height[c] => a \in Path[c]
         /\ \A a, c \in Path[b] : Height[a] = Height[c] => a = c
         /\ \A h \in 0..Height[b] : \E a \in Path[b] : Height[a] = h
<1>1. IsTree(Blocks, Genesis, Parent, Height, Path)
  BY TreeAssumption DEF TreeAssumption, IsTree
<1>2. IsPathTo(b, Genesis, Height, Path)
  BY <1>1, PathsOfTree
<1> QED BY <1>2, TreeAssumption DEF TreeAssumption, IsPathTo

(* The heights of the tree are natural numbers, and so are all below one.  *)
LEMMA HeightFacts ==
  /\ Heights \subseteq Nat
  /\ \A b \in Blocks : Height[b] \in Nat /\ Height[b] \in Heights
  /\ \A b \in Blocks : \A h \in 0..Height[b] : h \in Heights
  /\ \A d \in Heights : \A h \in 0..d : h \in Heights
  /\ 0 \in Heights
<1>1. Heights \subseteq Nat /\ \A b \in Blocks : Height[b] \in Nat /\ Height[b] \in Heights
  BY TreeAssumption, SMT DEF Heights, TreeAssumption
<1>2. ASSUME NEW b \in Blocks, NEW h \in 0..Height[b] PROVE h \in Heights
  <2>1. PICK a \in Path[b] : Height[a] = h
    BY PathFacts
  <2>2. a \in Blocks
    BY <2>1, TreeAssumption DEF TreeAssumption
  <2> QED BY <2>1, <2>2 DEF Heights
<1>3. ASSUME NEW d \in Heights, NEW h \in 0..d PROVE h \in Heights
  BY <1>2 DEF Heights
<1>4. 0 \in Heights
  BY TreeAssumption DEF TreeAssumption, Heights
<1> QED BY <1>1, <1>2, <1>3, <1>4

(* Genesis is the only block of height 0.                                  *)
LEMMA GenesisFacts ==
  /\ Genesis \in Blocks /\ Height[Genesis] = 0 /\ Path[Genesis] = {Genesis}
  /\ NoBlock \notin Blocks
  /\ \A b \in Blocks : Height[b] = 0 => b = Genesis
BY TreeAssumption, SMT DEF TreeAssumption

(* The parent of a block is on its path, one height below it.              *)
LEMMA ParentFacts ==
  ASSUME NEW b \in Blocks \ {Genesis}
  PROVE  /\ Parent[b] \in Blocks
         /\ Height[b] = Height[Parent[b]] + 1
         /\ Path[b] = Path[Parent[b]] \cup {b}
         /\ b \notin Path[Parent[b]]
<1>1. Parent[b] \in Blocks /\ Height[b] = Height[Parent[b]] + 1 /\ Path[b] = Path[Parent[b]] \cup {b}
  BY TreeAssumption DEF TreeAssumption
<1>2. b \notin Path[Parent[b]]
  BY <1>1, PathFacts, HeightFacts, SMT
<1> QED BY <1>1, <1>2

(* The block after v on the path of b has v as its parent.                 *)
LEMMA NextOnPath ==
  ASSUME NEW b \in Blocks, NEW v \in Path[b], NEW c \in Path[b], Height[c] = Height[v] + 1
  PROVE  c \in Blocks \ {Genesis} /\ Parent[c] = v
<1>1. c \in Blocks /\ v \in Blocks
  BY PathFacts
<1>2. c # Genesis
  BY <1>1, GenesisFacts, HeightFacts, SMT
<1>3. Parent[c] \in Path[c] /\ Height[Parent[c]] = Height[v]
  <2>1. /\ Parent[c] \in Blocks /\ Path[c] = Path[Parent[c]] \cup {c}
        /\ Height[c] = Height[Parent[c]] + 1
    BY <1>1, <1>2, ParentFacts
  <2>2. Parent[c] \in Path[c] /\ Height[Parent[c]] \in Nat /\ Height[v] \in Nat
    BY <1>1, <2>1, PathFacts, HeightFacts
  <2> QED BY <2>1, <2>2, SMT
<1>4. Parent[c] \in Path[b]
  BY <1>3, PathFacts, SMT
<1> QED BY <1>1, <1>2, <1>3, <1>4, PathFacts, SMT

(* Max of a set of numbers is the bound the set contains.                  *)
LEMMA MaxIs ==
  ASSUME NEW S \in SUBSET Int, NEW m \in S, \A x \in S : x <= m
  PROVE  Max(S) = m
<1>1. \A y \in S : m >= y
  OBVIOUS
<1>2. \A x \in S : (\A y \in S : x >= y) => x = m
  BY SMT
<1> QED BY <1>1, <1>2 DEF Max

-----------------------------------------------------------------------------
(* What find_best_chain finds.                                             *)

(* The index is found up to the height of t.                               *)
LEMMA IndexedToIs ==
  ASSUME TypeOK, SlotHeights, NEW t \in Blocks, IndexHolds(t)
  PROVE  IndexedTo = Height[t]
<1> DEFINE D == {d \in Heights : \A h \in 1..d : slot[h] \in Blocks /\ header[slot[h]] \in OnChain}
<1>1. Height[t] \in D
  <2>1. ASSUME NEW h \in 1..Height[t]
        PROVE  slot[h] \in Blocks /\ header[slot[h]] \in OnChain
    <3>1. PICK a \in Path[t] : Height[a] = h
      BY PathFacts, HeightFacts, SMT
    <3>2. a \in Blocks /\ slot[h] = a
      BY <3>1, PathFacts DEF IndexHolds
    <3> QED BY <3>1, <3>2 DEF IndexHolds
  <2> QED BY <2>1, HeightFacts
<1>2. ASSUME NEW d \in D PROVE d <= Height[t]
  <2>1. SUFFICES ASSUME d > Height[t] PROVE FALSE
    BY HeightFacts, SMT
  <2> DEFINE h == Height[t] + 1
  <2>2. h \in 1..d /\ h \in 0..d /\ h \in Heights
    BY <2>1, HeightFacts, SMT
  <2>3. slot[h] \in Blocks /\ header[slot[h]] \in OnChain
    BY <2>2
  <2>4. slot[h] \in Path[t] /\ Height[slot[h]] = h
    BY <2>2, <2>3, GenesisFacts DEF IndexHolds, SlotHeights
  <2> QED BY <2>4, PathFacts, HeightFacts, SMT
<1>3. D \in SUBSET Int
  <2>1. D \subseteq Heights /\ Nat \subseteq Int
    BY SMT
  <2> QED BY <2>1, HeightFacts, Zenon
<1> HIDE DEF D
<1>4. Max(D) = Height[t]
  BY <1>1, <1>2, <1>3, MaxIs
<1> QED BY <1>4 DEF IndexedTo, D

(* A header sync that has caught up with the index is at its end.          *)
LEMMA CaughtUpIs ==
  ASSUME IndInv, HeadersCaughtUp, NEW t \in Blocks, IndexHolds(t)
  PROVE  t = best_block
<1>1. Height[t] <= Height[best_block]
  BY IndexedToIs DEF IndInv, HeadersCaughtUp, ValidationHolds
<1> QED BY <1>1, PathFacts, HeightFacts, SMT DEF IndexHolds

(* The blocks of the active chain have their heights' slots.               *)
LEMMA ActiveSlots ==
  ASSUME IndInv
  PROVE  /\ \A b \in Path[best_block] : slot[Height[b]] = b /\ header[b] \in OnChain
         /\ \A b \in Path[validation_index] : /\ slot[Height[b]] = b
                                              /\ b \in Path[best_block]
                                              /\ header[b] = "FullyValid"
         /\ \A h \in 0..depth : slot[h] \in Path[best_block] /\ Height[slot[h]] = h
<1>1. PICK t \in Blocks : IndexHolds(t)
  BY DEF IndInv
<1>2. best_block \in Blocks /\ validation_index \in Blocks /\ depth = Height[best_block]
  BY DEF IndInv, TypeOK, ValidationHolds
<1>3. ASSUME NEW b \in Path[best_block] PROVE slot[Height[b]] = b /\ header[b] \in OnChain
  <2>1. b \in Path[t] /\ b \in Blocks
    BY <1>1, <1>2, PathFacts DEF IndexHolds
  <2> QED BY <1>1, <2>1 DEF IndexHolds
<1>4. ASSUME NEW b \in Path[validation_index]
      PROVE  b \in Path[best_block] /\ header[b] = "FullyValid"
  BY <1>2, PathFacts DEF IndInv, ValidationHolds
<1>5. ASSUME NEW h \in 0..depth PROVE slot[h] \in Path[best_block] /\ Height[slot[h]] = h
  <2>1. PICK a \in Path[best_block] : Height[a] = h
    BY <1>2, PathFacts
  <2> QED BY <2>1, <1>3
<1> QED BY <1>3, <1>4, <1>5

(* The last FullyValid height of the index is that of the validation index. *)
LEMMA LastFullyValidIs ==
  ASSUME IndInv
  PROVE  LastFullyValid = Height[validation_index]
<1> DEFINE S == {0} \cup {h \in 1..IndexedTo : header[slot[h]] = "FullyValid"}
<1>1. PICK t \in Blocks : IndexHolds(t)
  BY DEF IndInv
<1>2. IndexedTo = Height[t]
  BY <1>1, IndexedToIs DEF IndInv
<1>3. /\ validation_index \in Blocks /\ best_block \in Blocks
      /\ validation_index \in Path[t]
      /\ validation_index \in Path[validation_index]
  BY <1>1, PathFacts DEF IndInv, TypeOK, ValidationHolds, IndexHolds
<1>4. Height[validation_index] \in S
  <2>1. Height[validation_index] \in 0..IndexedTo
    BY <1>1, <1>2, <1>3, PathFacts, HeightFacts, SMT
  <2>2. header[slot[Height[validation_index]]] = "FullyValid"
    BY <1>3, ActiveSlots
  <2> QED BY <1>2, <2>1, <2>2, HeightFacts, SMT
<1>5. ASSUME NEW h \in S PROVE h <= Height[validation_index]
  <2>1. CASE h = 0
    BY <2>1, <1>3, HeightFacts, SMT
  <2>2. CASE h \in 1..IndexedTo /\ header[slot[h]] = "FullyValid"
    <3>1. PICK a \in Path[t] : Height[a] = h
      BY <1>2, <2>2, PathFacts, HeightFacts, SMT
    <3>2. slot[h] = a /\ a \in Blocks
      BY <1>1, <3>1, PathFacts DEF IndexHolds
    <3>3. a \in Path[validation_index]
      BY <2>2, <3>2 DEF IndInv, ValidationHolds
    <3> QED BY <1>3, <3>1, <3>3, PathFacts
  <2> QED BY <2>1, <2>2
<1>6. S \in SUBSET Int
  BY <1>2, HeightFacts, SMT
<1> HIDE DEF S
<1>7. Max(S) = Height[validation_index]
  BY <1>4, <1>5, <1>6, MaxIs
<1> QED BY <1>7 DEF LastFullyValid, S

(* No header is written over nothing.                                      *)
LEMMA SaveNothing ==
  ASSUME TypeOK, NEW status, SaveMain({}, status)
  PROVE  header' = header /\ slot' = slot /\ roots' = roots
<1>1. header' = header
  BY DEF SaveMain, SetAll, TypeOK
<1>2. slot' = slot
  BY DEF SaveMain, SlotsWith, TypeOK
<1>3. roots' = roots
  BY DEF SaveMain, RootsWithout, SetAll, TypeOK
<1> QED BY <1>1, <1>2, <1>3

(* reindex_chain finds the chain of the index and leaves validation where  *)
(* it is: the roots of the validation index are always there.              *)
LEMMA ReindexIs ==
  ASSUME IndInv, NEW t \in Blocks, IndexHolds(t), NEW a, NEW sum \in BOOLEAN,
         reindex_chain(a, sum), validation_index = Genesis => a = {}
  PROVE  /\ best_block' = t /\ depth' = Height[t]
         /\ validation_index' = validation_index
         /\ alternative_tips' = {}
         /\ acc' = AccOf(validation_index)
         /\ header' = header /\ slot' = slot /\ roots' = roots
         /\ clean' = sum
<1> DEFINE to == IF HeightsWithRoots = {} THEN LastFullyValid ELSE Max(HeightsWithRoots)
           undone == {slot[h] : h \in to + 1 .. LastFullyValid}
<1>1. IndexedTo = Height[t] /\ LastFullyValid = Height[validation_index]
  BY IndexedToIs, LastFullyValidIs DEF IndInv
<1>2. validation_index \in Blocks /\ t \in Path[t] /\ validation_index \in Path[validation_index]
  BY PathFacts DEF IndInv, TypeOK
<1>3. slot[Height[t]] = t /\ slot[Height[validation_index]] = validation_index
  BY <1>2, ActiveSlots DEF IndexHolds
<1>4. /\ to = Height[validation_index]
      /\ HeightsWithRoots = {} => validation_index = Genesis
      /\ HeightsWithRoots # {} => roots[to] = AccOf(validation_index)
  <2>1. CASE validation_index = Genesis
    <3>1. HeightsWithRoots = {}
      BY <1>1, <2>1, GenesisFacts, SMT DEF HeightsWithRoots
    <3> QED BY <1>1, <2>1, <3>1
  <2>2. CASE validation_index # Genesis
    <3>1. Height[validation_index] \in Nat /\ Height[validation_index] # 0
      BY <1>2, <2>2, GenesisFacts, HeightFacts
    <3>2. Height[validation_index] \in HeightsWithRoots
      BY <1>1, <2>2, <3>1, SMT DEF HeightsWithRoots, IndInv, RootsHold
    <3>3. HeightsWithRoots \in SUBSET Int /\ \A h \in HeightsWithRoots : h <= Height[validation_index]
      BY <1>1, <3>1, SMT DEF HeightsWithRoots
    <3>4. Max(HeightsWithRoots) = Height[validation_index]
      BY <3>2, <3>3, MaxIs
    <3>5. roots[Height[validation_index]] = AccOf(validation_index)
      BY <1>2, <2>2 DEF IndInv, RootsHold
    <3> QED BY <3>2, <3>4, <3>5
  <2> QED BY <2>1, <2>2
<1>5. undone = {}
  BY <1>1, <1>2, <1>4, HeightFacts, SMT
<1>6. /\ best_block' = slot[IndexedTo] /\ depth' = IndexedTo
      /\ validation_index' = slot[to]
      /\ alternative_tips' = {}
      /\ acc' = IF HeightsWithRoots = {} THEN a ELSE roots[to]
      /\ SaveMain(undone, "HeadersOnly")
      /\ clean' = (sum /\ undone = {})
  BY DEF reindex_chain
<1> HIDE DEF to, undone
<1>7. header' = header /\ slot' = slot /\ roots' = roots
  BY <1>5, <1>6, SaveNothing DEF IndInv
<1>8. acc' = AccOf(validation_index)
  BY <1>4, <1>6, GenesisFacts DEF AccOf
<1> QED BY <1>1, <1>3, <1>4, <1>5, <1>6, <1>7, <1>8

-----------------------------------------------------------------------------
(* A node starts in the invariant.                                         *)
LEMMA InitInv ==
  ASSUME Init
  PROVE  IndInv
<1> USE GenesisFacts, HeightFacts
<1>1. TypeOK
  <2>1. header \in [Blocks -> Known \cup {"NotPresent"}] /\ slot \in [Heights -> Blocks \cup {NoBlock}]
    BY DEF Init, Known
  <2>2. roots \in [Heights -> {NoRoots} \cup SUBSET Blocks]
    BY DEF Init
  <2>3. saved \in [best_block : Blocks \cup {NoBlock}, depth : Heights,
                   validation_index : Blocks \cup {NoBlock}]
    BY DEF Init, Saved
  <2>4. clean \in BOOLEAN
    BY DEF Init
  <2>5. restarts \in 0..MaxRestarts
    BY ConfigAssumption, SMT DEF Init, ConfigAssumption
  <2> QED BY <2>1, <2>2, <2>3, <2>4, <2>5 DEF Init, TypeOK
<1>2. SlotHeights
  BY DEF Init, SlotHeights
<1>3. IndexHolds(Genesis)
  BY DEF Init, IndexHolds, OnChain, Saved
<1>4. ValidationHolds
  BY DEF Init, ValidationHolds, AccOf
<1>5. RootsHold
  BY DEF Init, RootsHold
<1>6. SavedHolds
  BY DEF Init, SavedHolds, Saved
<1> QED BY <1>1, <1>2, <1>3, <1>4, <1>5, <1>6 DEF Init, IndInv

-----------------------------------------------------------------------------
(* Each operation preserves the invariant.                                 *)

(* What saving headers does to the headers, the slots and the roots.       *)
LEMMA HeadersSet ==
  ASSUME TypeOK, NEW S, NEW status \in Known
  PROVE  /\ SetAll(header, S, status) \in [Blocks -> Known \cup {"NotPresent"}]
         /\ \A c \in Blocks : SetAll(header, S, status)[c] = IF c \in S THEN status ELSE header[c]
BY DEF SetAll, TypeOK

(* The roots after saving headers: those of the written heights are gone.  *)
LEMMA RootsSet ==
  ASSUME TypeOK, NEW C
  PROVE  /\ RootsWithout(C) \in [Heights -> {NoRoots} \cup SUBSET Blocks]
         /\ \A h \in Heights : RootsWithout(C)[h] = IF \E c \in C : Height[c] = h THEN NoRoots ELSE roots[h]
<1> DEFINE H == {Height[c] : c \in C}
<1>1. RootsWithout(C) = [h \in Heights |-> IF h \in H THEN NoRoots ELSE roots[h]]
  BY DEF RootsWithout, SetAll, TypeOK
<1>2. \A h \in Heights : h \in H <=> \E c \in C : Height[c] = h
  OBVIOUS
<1> HIDE DEF H
<1>3. \A h \in Heights : roots[h] \in {NoRoots} \cup SUBSET Blocks
  BY DEF TypeOK
<1> QED BY <1>1, <1>2, <1>3

(* The slots after saving headers: each holds the block written to it.     *)
LEMMA SlotsSet ==
  ASSUME TypeOK, NEW b \in Blocks, NEW C \in SUBSET Path[b]
  PROVE  /\ SlotsWith(C) \in [Heights -> Blocks \cup {NoBlock}]
         /\ \A c \in C : SlotsWith(C)[Height[c]] = c
         /\ \A h \in Heights : (\A c \in C : Height[c] # h) => SlotsWith(C)[h] = slot[h]
         /\ SlotHeights => \A h \in Heights : SlotsWith(C)[h] # NoBlock => Height[SlotsWith(C)[h]] = h
<1>1. C \subseteq Blocks /\ \A c, d \in C : Height[c] = Height[d] => c = d
  BY PathFacts
<1>2. ASSUME NEW h \in Heights, NEW c \in C, Height[c] = h
      PROVE  SlotsWith(C)[h] = c
  BY <1>1, <1>2 DEF SlotsWith
<1>3. ASSUME NEW h \in Heights, \A c \in C : Height[c] # h
      PROVE  SlotsWith(C)[h] = slot[h]
  BY <1>3 DEF SlotsWith
<1>4. \A c \in C : Height[c] \in Heights
  BY <1>1, HeightFacts
<1>5. \A h \in Heights : SlotsWith(C)[h] \in Blocks \cup {NoBlock}
  BY <1>1, <1>2, <1>3 DEF TypeOK
<1>6. SlotsWith(C) \in [Heights -> Blocks \cup {NoBlock}]
  BY <1>5 DEF SlotsWith
<1> QED BY <1>2, <1>3, <1>4, <1>6 DEF SlotHeights

(* After a reindex the invariant holds, of the chain the index ends in.    *)
LEMMA ReindexInv ==
  ASSUME IndInv, NEW t \in Blocks, IndexHolds(t),
         best_block' = t, depth' = Height[t], validation_index' = validation_index,
         alternative_tips' \in SUBSET Blocks, acc' = AccOf(validation_index),
         header' = header, slot' = slot, roots' = roots,
         clean' \in BOOLEAN, clean' => saved'.depth = 0 \/ saved' = Saved(t, Height[t], validation_index),
         saved' = saved \/ saved' = Saved(best_block, depth, validation_index),
         saved'.depth = 0 => t = best_block \/ validation_index = Genesis,
         ibd' = "HeadersSync", partial' = {},
         sync_node_state' \in Heights \cup {Absent, Empty}, restarts' \in 0..MaxRestarts
  PROVE  IndInv'
<1>1. /\ TypeOK /\ best_block \in Blocks /\ validation_index \in Blocks
      /\ validation_index \in Path[best_block] /\ best_block \in Path[t]
      /\ depth = Height[best_block]
  BY DEF IndInv, TypeOK, ValidationHolds, IndexHolds
<1>2. validation_index \in Path[t] /\ AccOf(validation_index) \subseteq Blocks
  BY <1>1, PathFacts DEF AccOf
<1>3. TypeOK'
  <2>1. depth' \in Heights
    BY HeightFacts
  <2>2. saved' \in [best_block : Blocks \cup {NoBlock}, depth : Heights,
                    validation_index : Blocks \cup {NoBlock}]
    BY <1>1, HeightFacts, SMT DEF Saved, TypeOK
  <2> QED BY <1>1, <1>2, <2>1, <2>2 DEF TypeOK
<1>4. IndexHolds(t)'
  BY PathFacts DEF IndexHolds
<1>5. ValidationHolds'
  BY <1>1, <1>2 DEF IndInv, ValidationHolds, AccOf
<1>6. SlotHeights' /\ RootsHold'
  BY DEF IndInv, SlotHeights, RootsHold, AccOf
<1>7. SavedHolds'
  <2>1. saved'.depth = 0 => validation_index = Genesis
    BY <1>1, PathFacts, GenesisFacts, HeightFacts, SMT DEF Saved, IndInv, SavedHolds
  <2>2. /\ saved'.depth # 0 => saved'.best_block \in Blocks /\ saved'.validation_index \in Blocks
        /\ validation_index = Genesis => saved'.validation_index \in {NoBlock, Genesis}
    BY <1>1, SMT DEF Saved, IndInv, SavedHolds
  <2>3. clean' /\ saved'.depth # 0 => saved' = Saved(best_block, depth, validation_index)'
    BY DEF Saved
  <2> QED BY <2>1, <2>2, <2>3 DEF SavedHolds
<1> QED BY <1>3, <1>4, <1>5, <1>6, <1>7 DEF IndInv

-----------------------------------------------------------------------------
(* Headers (accept_header).                                               *)

(* A header on top of the tip.                                             *)
LEMMA ExtendInv ==
  ASSUME IndInv, NEW b \in Blocks \ {Genesis}, header[b] = "NotPresent", Parent[b] = best_block,
         (ibd = "HeadersSync" /\ HeadersCaughtUp) \/ ibd = "Done",
         best_block' = b, depth' = depth + 1, SaveMain({b}, "HeadersOnly"), clean' = FALSE,
         UNCHANGED <<saved, validation_index, alternative_tips, acc, ibd, task, restarts>>
  PROVE  IndInv'
<1>1. PICK t \in Blocks : IndexHolds(t)
  BY DEF IndInv
<1>2. t = best_block
  BY <1>1, CaughtUpIs DEF IndexHolds
<1>3. /\ TypeOK /\ best_block \in Blocks /\ validation_index \in Blocks
      /\ depth = Height[best_block] /\ b \in Blocks
  BY DEF IndInv, TypeOK, ValidationHolds
<1>4. /\ Height[b] = Height[best_block] + 1 /\ Path[b] = Path[best_block] \cup {b}
      /\ b \notin Path[best_block]
      /\ Height[b] \in Heights /\ Height[b] \in Nat
  BY ParentFacts, HeightFacts
<1>5. /\ header' \in [Blocks -> Known \cup {"NotPresent"}]
      /\ \A c \in Blocks : header'[c] = IF c = b THEN "HeadersOnly" ELSE header[c]
  BY <1>3, HeadersSet, SMT DEF SaveMain, Known
<1>6. /\ slot' \in [Heights -> Blocks \cup {NoBlock}]
      /\ \A h \in Heights : slot'[h] = IF h = Height[b] THEN b ELSE slot[h]
  BY <1>3, <1>4 DEF SaveMain, SlotsWith, TypeOK
<1>7. /\ roots' \in [Heights -> {NoRoots} \cup SUBSET Blocks]
      /\ \A h \in Heights : h # Height[b] => roots'[h] = roots[h]
  BY <1>3, RootsSet, SMT DEF SaveMain
<1>8. TypeOK'
  <2>1. depth' \in Heights
    BY <1>3, <1>4
  <2> QED BY <1>3, <1>5, <1>6, <1>7, <2>1 DEF TypeOK, task
<1>9. SlotHeights'
  BY <1>4, <1>6 DEF SlotHeights, IndInv
<1>10. IndexHolds(b)'
  <2>1. \A c \in Blocks : header'[c] \in OnChain <=> c \in Path[b]
    BY <1>1, <1>2, <1>4, <1>5 DEF IndexHolds, OnChain
  <2>2. ASSUME NEW c \in Path[b] PROVE slot'[Height[c]] = c
    <3>1. CASE c = b
      BY <3>1, <1>4, <1>6
    <3>2. CASE c \in Path[best_block]
      <4>1. Height[c] # Height[b] /\ Height[c] \in Heights
        BY <3>2, <1>3, <1>4, PathFacts, HeightFacts
      <4> QED BY <3>2, <4>1, <1>6, ActiveSlots
    <3> QED BY <3>1, <3>2, <1>4
  <2>3. b \in Path[b]
    BY <1>4
  <2> QED BY <1>3, <2>1, <2>2, <2>3 DEF IndexHolds
<1>11. ValidationHolds'
  <2>1. validation_index \in Path[best_block] /\ b \notin Path[validation_index]
    BY <1>3, <1>4, PathFacts DEF IndInv, ValidationHolds
  <2>2. \A c \in Blocks : header'[c] = "FullyValid" <=> c \in Path[validation_index]
    BY <1>5, <2>1 DEF IndInv, ValidationHolds
  <2>3. depth' = Height[b] /\ acc' = AccOf(validation_index)
    BY <1>3, <1>4 DEF IndInv, ValidationHolds
  <2> QED BY <1>4, <2>1, <2>2, <2>3 DEF ValidationHolds, AccOf
<1>12. RootsHold'
  <2>1. \A c \in Path[validation_index] : Height[c] \in Heights /\ Height[c] # Height[b]
    BY <1>3, <1>4, PathFacts, HeightFacts DEF IndInv, ValidationHolds
  <2>2. 0 \in Heights /\ 0 # Height[b] /\ validation_index \in Path[validation_index]
    BY <1>3, <1>4, HeightFacts, PathFacts, SMT
  <2> QED BY <1>7, <2>1, <2>2 DEF RootsHold, IndInv, AccOf
<1>13. SavedHolds'
  <2>1. ibd' # "ProofSync"
    OBVIOUS
  <2> QED BY <2>1 DEF SavedHolds, IndInv
<1> QED BY <1>3, <1>8, <1>9, <1>10, <1>11, <1>12, <1>13 DEF IndInv, task

(* A header that only makes a fork longer.                                 *)
LEMMA StoreForkInv ==
  ASSUME IndInv, NEW b \in Blocks \ {Genesis}, header[b] = "NotPresent",
         StoreFork(b), UNCHANGED <<ibd, task, restarts>>
  PROVE  IndInv'
<1>1. PICK t \in Blocks : IndexHolds(t)
  BY DEF IndInv
<1>2. TypeOK /\ b \in Blocks
  BY DEF IndInv
<1>3. /\ header' \in [Blocks -> Known \cup {"NotPresent"}]
      /\ \A c \in Blocks : header'[c] = IF c = b THEN "InFork" ELSE header[c]
  BY <1>2, HeadersSet, SMT DEF StoreFork, SaveFork, Known
<1>4. slot' = slot /\ roots' = roots /\ alternative_tips' \subseteq Blocks
  BY <1>2 DEF StoreFork, SaveFork, TypeOK
<1>5. TypeOK'
  BY <1>2, <1>3, <1>4 DEF TypeOK, StoreFork, task
<1>6. IndexHolds(t)'
  <2>1. \A c \in Blocks : header'[c] \in OnChain <=> c \in Path[t]
    BY <1>1, <1>3 DEF IndexHolds, OnChain
  <2> QED BY <1>1, <1>4, <2>1 DEF IndexHolds, StoreFork
<1>7. ValidationHolds'
  <2>1. \A c \in Blocks : header'[c] = "FullyValid" <=> c \in Path[validation_index]
    BY <1>3 DEF IndInv, ValidationHolds
  <2> QED BY <2>1 DEF IndInv, ValidationHolds, StoreFork, AccOf
<1>8. SlotHeights' /\ RootsHold'
  BY <1>4 DEF IndInv, SlotHeights, RootsHold, StoreFork, AccOf
<1>9. SavedHolds'
  BY DEF IndInv, SavedHolds, StoreFork
<1> QED BY <1>5, <1>6, <1>7, <1>8, <1>9 DEF IndInv, task

(* The walk down a branch stops, since Genesis is never skipped, and stops *)
(* at the highest block it does not skip.                                  *)
LEMMA NearestIs ==
  ASSUME NEW b \in Blocks \ {Genesis}, NEW Skip, header[Genesis] \notin Skip,
         NEW a, a = NearestAncestor(b, Skip)
  PROVE  /\ a \in Path[Parent[b]] /\ header[a] \notin Skip
         /\ \A c \in Path[Parent[b]] : Height[c] > Height[a] => header[c] \in Skip
<1> DEFINE p == Parent[b]
           S == {Height[c] : c \in {d \in Path[p] : header[d] \notin Skip}}
<1>1. p \in Blocks /\ Genesis \in Path[p] /\ Path[p] \subseteq Blocks
  BY ParentFacts, PathFacts
<1>2. S \in SUBSET Heights /\ S # {}
  BY <1>1, HeightFacts
<1>3. PICK m \in S : \A h \in S : h <= m
  BY <1>2, HeightAssumption DEF HeightAssumption
<1>4. PICK c \in Path[p] : header[c] \notin Skip /\ Height[c] = m
  BY <1>3
<1>5. \A d \in Path[p] : Height[d] > Height[c] => header[d] \in Skip
  BY <1>1, <1>2, <1>3, <1>4, HeightFacts, SMT
<1> QED BY <1>4, <1>5 DEF NearestAncestor

(* Where a reorg leaves the active chain, and the block it validates from. *)
LEMMA ForkPointIs ==
  ASSUME IndInv, NEW b \in Blocks \ {Genesis}, IndexHolds(best_block), CanReorg(b),
         NEW f, f = find_fork_point(b), NEW v, v = get_last_valid_block(b)
  PROVE  /\ f \in Path[Parent[b]] /\ f \in Path[best_block] /\ f # Genesis
         /\ \A c \in Path[Parent[b]] : Height[c] > Height[f] => header[c] = "InFork"
         /\ v \in Path[f] /\ v \in Path[validation_index]
         /\ \A c \in Path[f] \cap Path[validation_index] : c \in Path[v]
         /\ validation_index # Genesis => v # Genesis
         /\ Height[v] # 0 => roots[Height[v]] # NoRoots
<1>1. /\ Parent[b] \in Blocks /\ Path[Parent[b]] \subseteq Blocks
      /\ best_block \in Blocks /\ validation_index \in Blocks /\ validation_index \in Path[best_block]
      /\ header[Genesis] = "FullyValid"
  BY ParentFacts, PathFacts DEF IndInv, TypeOK, ValidationHolds
<1>2. /\ f = NearestAncestor(b, {"InFork"}) /\ f # Genesis /\ header[f] \in OnChain
      /\ v = NearestAncestor(b, {"InFork", "HeadersOnly"}) /\ header[v] = "FullyValid"
  BY GenesisFacts, <1>1 DEF CanReorg, find_fork_point, get_last_valid_block
<1>3. /\ f \in Path[Parent[b]]
      /\ \A c \in Path[Parent[b]] : Height[c] > Height[f] => header[c] = "InFork"
  BY <1>1, <1>2, NearestIs, SMT
<1>4. /\ v \in Path[Parent[b]]
      /\ \A c \in Path[Parent[b]] : Height[c] > Height[v] => header[c] \in {"InFork", "HeadersOnly"}
  BY <1>1, <1>2, NearestIs, SMT
<1>5. f \in Path[best_block] /\ f \in Blocks /\ v \in Blocks
  BY <1>1, <1>2, <1>3, <1>4 DEF IndexHolds
<1>6. v \in Path[validation_index]
  BY <1>2, <1>5 DEF IndInv, ValidationHolds
<1>7. Height[v] <= Height[f]
  BY <1>2, <1>3, <1>4, <1>5, HeightFacts, SMT
<1>8. v \in Path[f]
  BY <1>1, <1>3, <1>4, <1>7, PathFacts
<1>9. ASSUME NEW c \in Path[f] \cap Path[validation_index] PROVE c \in Path[v]
  <2>1. c \in Path[Parent[b]] /\ c \in Blocks /\ header[c] = "FullyValid"
    BY <1>1, <1>3, PathFacts, SMT DEF IndInv, ValidationHolds
  <2>2. Height[c] <= Height[v]
    BY <1>4, <1>5, <2>1, HeightFacts, SMT
  <2> QED BY <1>1, <1>4, <2>1, <2>2, PathFacts, SMT
<1>10. ASSUME validation_index # Genesis PROVE v # Genesis
  <2>1. /\ Height[f] \in Nat /\ Height[f] # 0
        /\ Height[validation_index] \in Nat /\ Height[validation_index] # 0
    BY <1>1, <1>2, <1>5, <1>10, GenesisFacts, HeightFacts
  <2>2. PICK x \in Path[f] : Height[x] = 1
    BY <1>5, <2>1, PathFacts, SMT
  <2>3. x \in Path[best_block] /\ x \in Blocks
    BY <1>1, <1>5, <2>2, PathFacts
  <2>4. x \in Path[validation_index]
    BY <1>1, <2>1, <2>2, <2>3, PathFacts, SMT
  <2>5. x \in Path[v]
    BY <1>9, <2>2, <2>4
  <2> QED BY <2>2, <2>5, GenesisFacts, SMT
<1>11. Height[v] # 0 => roots[Height[v]] # NoRoots
  BY DEF CanReorg, reorg_acc
<1> QED BY <1>2, <1>3, <1>5, <1>6, <1>8, <1>9, <1>10, <1>11

(* A header that makes a fork the best chain.                              *)
LEMMA ReorgInv ==
  ASSUME IndInv, NEW b \in Blocks \ {Genesis}, IndexHolds(best_block), ibd # "ProofSync",
         header[b] = "NotPresent", CanReorg(b), reorg(b), UNCHANGED <<ibd, task, restarts>>
  PROVE  IndInv'
<1> DEFINE f == find_fork_point(b)
           v == get_last_valid_block(b)
           old == Path[best_block] \ (IF f \in Path[best_block] THEN Path[f] ELSE {Genesis})
           branch == Path[b] \ Path[f]
<1>1. /\ TypeOK /\ b \in Blocks /\ best_block \in Blocks /\ validation_index \in Blocks
      /\ validation_index \in Path[best_block]
  BY DEF IndInv, TypeOK, ValidationHolds
<1>2. /\ f \in Path[Parent[b]] /\ f \in Path[best_block] /\ f # Genesis
      /\ \A c \in Path[Parent[b]] : Height[c] > Height[f] => header[c] = "InFork"
      /\ v \in Path[f] /\ v \in Path[validation_index]
      /\ \A c \in Path[f] \cap Path[validation_index] : c \in Path[v]
      /\ validation_index # Genesis => v # Genesis
      /\ Height[v] # 0 => roots[Height[v]] # NoRoots
  BY ForkPointIs
<1>3. /\ header' = SetAll(SetAll(header, old, "InFork"), branch, "HeadersOnly")
      /\ slot' = SlotsWith(branch) /\ roots' = RootsWithout(branch)
      /\ best_block' = b /\ depth' = Height[b] /\ validation_index' = v /\ acc' = reorg_acc(v)
      /\ clean' = FALSE /\ alternative_tips' = alternative_tips /\ saved' = saved
  BY DEF reorg
<1>4. old = Path[best_block] \ Path[f]
  BY <1>2
<1> HIDE DEF f, v, old, branch
<1>5. f \in Blocks /\ v \in Blocks /\ f \in Path[b]
  BY <1>1, <1>2, PathFacts, ParentFacts, SMT
<1>6. /\ branch \in SUBSET Path[b] /\ branch \subseteq Blocks
      /\ \A c \in Path[b] : c \in branch <=> Height[c] > Height[f]
      /\ \A c \in Path[b] : c \notin branch => c \in Path[f]
      /\ \A c \in Path[f] : c \in Path[b] /\ c \notin branch
  BY <1>1, <1>5, PathFacts, HeightFacts, SMT DEF branch
<1>7. /\ header' \in [Blocks -> Known \cup {"NotPresent"}]
      /\ \A c \in Blocks : header'[c] = IF c \in branch THEN "HeadersOnly"
                                        ELSE IF c \in old THEN "InFork" ELSE header[c]
  BY <1>1, <1>3 DEF SetAll, TypeOK, Known
<1>8. /\ slot' \in [Heights -> Blocks \cup {NoBlock}]
      /\ \A c \in branch : slot'[Height[c]] = c
      /\ \A h \in Heights : (\A c \in branch : Height[c] # h) => slot'[h] = slot[h]
      /\ SlotHeights'
  BY <1>1, <1>3, <1>6, SlotsSet, SMT DEF SlotHeights, IndInv
<1>9. /\ roots' \in [Heights -> {NoRoots} \cup SUBSET Blocks]
      /\ \A h \in Heights : (\A c \in branch : Height[c] # h) => roots'[h] = roots[h]
  BY <1>1, <1>3, RootsSet, SMT
<1>10. \A c \in Path[f] : /\ Height[c] \in Heights /\ \A d \in branch : Height[d] # Height[c]
                          /\ c \in Path[best_block] /\ c \in Blocks
  BY <1>1, <1>2, <1>5, <1>6, PathFacts, HeightFacts
<1>11. v \in Path[v] /\ Path[v] \subseteq Path[f] /\ Path[v] \subseteq Path[validation_index]
  BY <1>1, <1>2, <1>5, PathFacts
<1>12. acc' = AccOf(v)
  <2>1. CASE v = Genesis
    BY <1>3, <2>1, GenesisFacts DEF reorg_acc, AccOf
  <2>2. CASE v # Genesis
    <3>1. Height[v] # 0
      BY <1>5, <2>2, GenesisFacts
    <3>2. roots[Height[v]] = AccOf(v)
      BY <1>2, <2>2, <3>1 DEF IndInv, RootsHold
    <3> QED BY <1>3, <3>1, <3>2 DEF reorg_acc
  <2> QED BY <2>1, <2>2
<1>13. TypeOK'
  <2>1. depth' \in Heights /\ acc' \subseteq Blocks
    BY <1>1, <1>3, <1>5, <1>12, HeightFacts, PathFacts DEF AccOf
  <2>2. clean' \in BOOLEAN
    BY <1>3
  <2> QED BY <1>1, <1>3, <1>5, <1>7, <1>8, <1>9, <2>1, <2>2 DEF TypeOK, task
<1>14. IndexHolds(b)'
  <2>1. ASSUME NEW c \in Blocks PROVE header'[c] \in OnChain <=> c \in Path[b]
    <3>1. CASE c \in branch
      BY <1>6, <1>7, <3>1 DEF OnChain
    <3>2. CASE c \notin branch /\ c \in old
      BY <1>4, <1>6, <1>7, <3>2 DEF OnChain
    <3>3. CASE c \notin branch /\ c \notin old
      <4>1. c \in Path[best_block] <=> c \in Path[f]
        BY <1>1, <1>2, <1>4, <1>10, <3>3
      <4>2. c \in Path[b] <=> c \in Path[f]
        BY <1>6, <3>3
      <4> QED BY <1>7, <3>3, <4>1, <4>2 DEF IndexHolds
    <3> QED BY <3>1, <3>2, <3>3
  <2>2. ASSUME NEW c \in Path[b] PROVE slot'[Height[c]] = c
    <3>1. CASE c \in branch
      BY <1>8, <3>1
    <3>2. CASE c \notin branch
      BY <1>6, <1>8, <1>10, <3>2, ActiveSlots
    <3> QED BY <3>1, <3>2
  <2>3. b \in Path[b]
    BY <1>1, PathFacts
  <2> QED BY <1>1, <1>3, <2>1, <2>2, <2>3 DEF IndexHolds
<1>15. ValidationHolds'
  <2>1. ASSUME NEW c \in Blocks PROVE header'[c] = "FullyValid" <=> c \in Path[v]
    <3>1. CASE c \in branch \/ c \in old
      BY <1>4, <1>6, <1>7, <1>11, <3>1
    <3>2. CASE c \notin branch /\ c \notin old
      <4>1. header[c] = "FullyValid" <=> c \in Path[validation_index]
        BY DEF IndInv, ValidationHolds
      <4>2. c \in Path[validation_index] => c \in Path[f]
        BY <1>1, <1>4, <3>2, PathFacts
      <4> QED BY <1>2, <1>7, <1>11, <3>2, <4>1, <4>2
    <3> QED BY <3>1, <3>2
  <2>2. v \in Path[b]
    BY <1>2, <1>6
  <2> QED BY <1>3, <1>12, <2>1, <2>2 DEF ValidationHolds, AccOf
<1>16. RootsHold'
  <2>1. \A c \in Path[v] : roots'[Height[c]] = roots[Height[c]]
    BY <1>9, <1>10, <1>11
  <2>2. roots'[0] = NoRoots
    <3>1. Genesis \in Path[v] /\ Height[Genesis] = 0
      BY <1>5, PathFacts, GenesisFacts
    <3> QED BY <2>1, <3>1 DEF IndInv, RootsHold
  <2>3. v # Genesis => roots'[Height[v]] # NoRoots
    BY <1>2, <1>5, <1>11, <2>1, GenesisFacts
  <2> QED BY <1>3, <1>11, <2>1, <2>2, <2>3 DEF IndInv, RootsHold, AccOf
<1>17. SavedHolds'
  <2>1. validation_index = Genesis => v = Genesis
    BY <1>2, GenesisFacts
  <2> QED BY <1>2, <1>3, <2>1 DEF IndInv, SavedHolds
<1> QED BY <1>1, <1>8, <1>13, <1>14, <1>15, <1>16, <1>17 DEF IndInv, task

(* accept_header, in either of the states that call it.                    *)
LEMMA AcceptNewHeaderInv ==
  ASSUME IndInv, NEW b \in Blocks \ {Genesis}, AcceptNewHeader(b),
         (ibd = "HeadersSync" /\ HeadersCaughtUp) \/ ibd = "Done",
         UNCHANGED <<ibd, task, restarts>>
  PROVE  IndInv'
<1>1. IndexHolds(best_block) /\ ibd # "ProofSync"
  BY CaughtUpIs DEF IndInv, IndexHolds
<1>2. CASE Parent[b] = best_block
  BY <1>2, ExtendInv DEF AcceptNewHeader
<1>3. CASE Parent[b] # best_block
  <2>1. header[b] = "NotPresent" /\ maybe_reorg(b)
    BY <1>3 DEF AcceptNewHeader
  <2>2. CASE CanReorg(b) /\ reorg(b)
    BY <1>1, <2>1, <2>2, ReorgInv
  <2>3. CASE StoreFork(b)
    BY <2>1, <2>3, StoreForkInv
  <2> QED BY <2>1, <2>2, <2>3 DEF maybe_reorg
<1> QED BY <1>2, <1>3

(* A stored header above the tip.                                          *)
LEMMA AcceptKnownHeaderInv ==
  ASSUME IndInv, NEW b \in Blocks, AcceptKnownHeader(b), ibd = "HeadersSync",
         UNCHANGED <<ibd, task, restarts>>
  PROVE  IndInv'
<1>1. PICK t \in Blocks : IndexHolds(t)
  BY DEF IndInv
<1>2. clean \in BOOLEAN /\ saved' = saved /\ reindex_chain(acc, clean)
  BY DEF IndInv, TypeOK, AcceptKnownHeader
<1>3. validation_index = Genesis => acc = {}
  BY GenesisFacts DEF IndInv, ValidationHolds, AccOf
<1>4. /\ best_block' = t /\ depth' = Height[t]
      /\ validation_index' = validation_index
      /\ alternative_tips' = {}
      /\ acc' = AccOf(validation_index)
      /\ header' = header /\ slot' = slot /\ roots' = roots
      /\ clean' = clean
  BY <1>1, <1>2, <1>3, ReindexIs
<1>5. clean' => saved'.depth = 0 \/ saved' = Saved(t, Height[t], validation_index)
  BY <1>1, <1>2, <1>4 DEF IndInv, SavedHolds, IndexHolds, ValidationHolds
<1>6. saved'.depth = 0 => t = best_block \/ validation_index = Genesis
  BY <1>2 DEF IndInv, SavedHolds
<1>7. /\ partial' = {} /\ sync_node_state' \in Heights \cup {Absent, Empty}
      /\ restarts' \in 0..MaxRestarts
  BY DEF IndInv, TypeOK, task
<1> QED BY <1>1, <1>2, <1>4, <1>5, <1>6, <1>7, ReindexInv

-----------------------------------------------------------------------------
(* Blocks (connect_block, invalidate_block, mark_chain_as_assumed).        *)

(* The next block of the active chain is connected.                        *)
LEMMA ConnectBlockInv ==
  ASSUME IndInv, NEW b \in Blocks, ConnectBlock(b)
  PROVE  IndInv'
<1> DEFINE v == validation_index
<1>1. PICK t \in Blocks : IndexHolds(t)
  BY DEF IndInv
<1>2. ibd \in {"ProofSync", "Done"} /\ Height[v] + 1 <= depth /\ b = NextBlock
  BY DEF ConnectBlock, CanProcess
<1>3. t = best_block
  BY <1>1, <1>2 DEF IndexHolds
<1>4. /\ TypeOK /\ best_block \in Blocks /\ v \in Blocks /\ v \in Path[best_block]
      /\ depth = Height[best_block] /\ acc = AccOf(v)
  BY DEF IndInv, TypeOK, ValidationHolds
<1>5. Height[v] + 1 \in 0..depth /\ Height[v] + 1 \in Heights
  BY <1>2, <1>4, HeightFacts, SMT
<1>6. b \in Path[best_block] /\ Height[b] = Height[v] + 1
  BY <1>2, <1>5, ActiveSlots DEF NextBlock, SlotAt
<1>7. b \in Blocks \ {Genesis} /\ Parent[b] = v
  BY <1>4, <1>6, NextOnPath
<1>8. Path[b] = Path[v] \cup {b} /\ b \notin Path[v] /\ acc \cup {b} = AccOf(b)
  BY <1>4, <1>7, ParentFacts DEF AccOf
<1>9. /\ header' \in [Blocks -> Known \cup {"NotPresent"}]
      /\ \A c \in Blocks : header'[c] = IF c = b THEN "FullyValid" ELSE header[c]
  BY <1>4 DEF ConnectBlock, TypeOK, Known
<1>10. slot' = slot
  <2>1. slot[Height[b]] = b
    BY <1>6, ActiveSlots
  <2> QED BY <1>4, <2>1 DEF ConnectBlock, TypeOK
<1>11. /\ roots' \in [Heights -> {NoRoots} \cup SUBSET Blocks]
       /\ \A h \in Heights : roots'[h] = IF h = Height[b] THEN AccOf(b) ELSE roots[h]
  <2>1. AccOf(b) \subseteq Blocks
    BY PathFacts DEF AccOf
  <2> QED BY <1>4, <1>8, <2>1 DEF ConnectBlock, TypeOK
<1>12. /\ validation_index' = b /\ acc' = AccOf(b)
       /\ UNCHANGED <<best_block, depth, alternative_tips, ibd, task, restarts>>
  BY <1>8 DEF ConnectBlock
<1>13. saved' = Saved(best_block, depth, b) \/ (saved' = saved /\ clean' = FALSE /\ ibd = "ProofSync")
  BY <1>2 DEF ConnectBlock, Flush, FlushedAt
<1>14. clean' \in BOOLEAN
  BY DEF ConnectBlock, Flush
<1>15. TypeOK'
  <2>1. saved' \in [best_block : Blocks \cup {NoBlock}, depth : Heights,
                    validation_index : Blocks \cup {NoBlock}]
    BY <1>4, <1>13, SMT DEF Saved, TypeOK
  <2>2. acc' \subseteq Blocks
    BY <1>12, PathFacts DEF AccOf
  <2> QED BY <1>4, <1>9, <1>10, <1>11, <1>12, <1>14, <2>1, <2>2 DEF TypeOK, task
<1>16. IndexHolds(best_block)'
  <2>1. \A c \in Blocks : header'[c] \in OnChain <=> c \in Path[best_block]
    BY <1>1, <1>3, <1>6, <1>9 DEF IndexHolds, OnChain
  <2> QED BY <1>1, <1>3, <1>10, <1>12, <2>1 DEF IndexHolds
<1>17. ValidationHolds'
  <2>1. \A c \in Blocks : header'[c] = "FullyValid" <=> c \in Path[b]
    BY <1>8, <1>9 DEF IndInv, ValidationHolds
  <2> QED BY <1>4, <1>6, <1>12, <2>1 DEF ValidationHolds, AccOf
<1>18. SlotHeights'
  BY <1>10 DEF IndInv, SlotHeights
<1>19. RootsHold'
  <2>1. \A c \in Path[v] : Height[c] \in Heights /\ Height[c] # Height[b]
    BY <1>4, <1>6, PathFacts, HeightFacts, SMT
  <2>2. 0 \in Heights /\ 0 # Height[b] /\ Height[b] \in Heights
    BY <1>4, <1>6, HeightFacts, SMT
  <2>3. roots'[Height[b]] = AccOf(b) /\ AccOf(b) # NoRoots
    BY <1>11, <2>2, PathFacts, ConfigAssumption DEF AccOf, ConfigAssumption
  <2>4. \A c \in Path[b] \ {Genesis} : roots'[Height[c]] \in {NoRoots, AccOf(c)}
    BY <1>8, <1>11, <2>1, <2>3 DEF IndInv, RootsHold
  <2> QED BY <1>11, <1>12, <2>2, <2>3, <2>4 DEF IndInv, RootsHold, AccOf
<1>20. SavedHolds'
  <2>1. b # Genesis /\ depth # 0
    BY <1>2, <1>4, <1>7, HeightFacts, SMT
  <2>2. saved'.depth # 0
    BY <1>13, <2>1, SMT DEF Saved, IndInv, SavedHolds
  <2>3. saved'.best_block \in Blocks /\ saved'.validation_index \in Blocks
    BY <1>4, <1>13, <2>2, SMT DEF Saved, IndInv, SavedHolds
  <2>4. clean' => saved' = Saved(best_block, depth, validation_index)'
    BY <1>12, <1>13 DEF Saved
  <2> QED BY <1>12, <2>1, <2>2, <2>3, <2>4 DEF SavedHolds
<1> QED BY <1>12, <1>15, <1>16, <1>17, <1>18, <1>19, <1>20, <1>4 DEF IndInv, task

(* A block of the active chain above the validation index is invalidated.  *)
LEMMA InvalidateInv ==
  ASSUME IndInv, NEW b \in Blocks \ {Genesis}, ibd # "HeadersSync",
         b \in Path[best_block], Height[validation_index] < Height[b],
         InvalidateBlock(b), UNCHANGED <<ibd, task, restarts>>
  PROVE  IndInv'
<1> DEFINE S == {slot[h] : h \in Height[b]..depth}
           p == Parent[b]
<1>1. IndexHolds(best_block)
  BY DEF IndInv, IndexHolds
<1>2. /\ TypeOK /\ best_block \in Blocks /\ validation_index \in Blocks
      /\ validation_index \in Path[best_block] /\ depth = Height[best_block] /\ depth \in Nat
  BY HeightFacts DEF IndInv, TypeOK, ValidationHolds
<1>3. /\ p \in Blocks /\ Height[b] = Height[p] + 1 /\ p \in Path[b] /\ p \in Path[best_block]
      /\ Height[p] \in Nat /\ Height[b] \in Nat
  <2>1. b \in Blocks \ {Genesis} /\ Path[b] \subseteq Path[best_block]
    BY <1>2, PathFacts
  <2>2. p \in Blocks /\ Height[b] = Height[p] + 1 /\ Path[b] = Path[p] \cup {b}
    BY <2>1, ParentFacts
  <2>3. p \in Path[b]
    BY <2>2, PathFacts
  <2> QED BY <2>1, <2>2, <2>3, HeightFacts
<1>4. \A c \in Blocks : c \in S <=> c \in Path[best_block] /\ Height[c] >= Height[b]
  <2>1. ASSUME NEW c \in S PROVE c \in Path[best_block] /\ Height[c] >= Height[b]
    <3>1. PICK h \in Height[b]..depth : c = slot[h]
      OBVIOUS
    <3>2. h \in 0..depth
      BY <1>2, <1>3, SMT
    <3> QED BY <1>3, <3>1, <3>2, ActiveSlots, SMT
  <2>2. ASSUME NEW c \in Path[best_block], Height[c] >= Height[b] PROVE c \in S
    <3>1. Height[c] \in Height[b]..depth
      BY <1>2, <1>3, <2>2, PathFacts, HeightFacts, SMT
    <3>2. slot[Height[c]] = c
      BY ActiveSlots
    <3> QED BY <3>1, <3>2
  <2> QED BY <2>1, <2>2
<1>5. /\ header' = SetAll(header, S, "InvalidChain") /\ slot' = slot /\ roots' = roots
      /\ best_block' = p /\ depth' = Height[b] - 1 /\ clean' = FALSE
      /\ UNCHANGED <<saved, validation_index, alternative_tips, acc>>
  BY DEF InvalidateBlock, SaveFork
<1> HIDE DEF S, p
<1>6. /\ header' \in [Blocks -> Known \cup {"NotPresent"}]
      /\ \A c \in Blocks : header'[c] = IF c \in S THEN "InvalidChain" ELSE header[c]
  BY <1>2, <1>5, HeadersSet, SMT DEF Known
<1>7. \A c \in Blocks : c \in Path[p] <=> c \in Path[best_block] /\ c \notin S
  <2>1. ASSUME NEW c \in Path[p] PROVE c \in Path[best_block] /\ Height[c] < Height[b] /\ c \in Blocks
    BY <1>2, <1>3, PathFacts, HeightFacts, SMT
  <2>2. ASSUME NEW c \in Path[best_block], ~(Height[c] >= Height[b]) PROVE c \in Path[p]
    BY <1>2, <1>3, <2>2, PathFacts, HeightFacts, SMT
  <2> QED BY <1>4, <2>1, <2>2, <1>3, HeightFacts, SMT
<1>8. depth' = Height[p]
  BY <1>3, <1>5, SMT
<1>9. validation_index \in Path[p]
  BY <1>2, <1>3, PathFacts, HeightFacts, SMT
<1>10. TypeOK'
  <2>1. depth' \in Heights
    BY <1>3, <1>8, HeightFacts
  <2>2. clean' \in BOOLEAN
    BY <1>5
  <2> QED BY <1>2, <1>3, <1>5, <1>6, <2>1, <2>2 DEF TypeOK, task
<1>11. IndexHolds(p)'
  <2>1. \A c \in Blocks : header'[c] \in OnChain <=> c \in Path[p]
    BY <1>1, <1>6, <1>7 DEF IndexHolds, OnChain
  <2>2. \A c \in Path[p] : slot'[Height[c]] = c
    BY <1>3, <1>5, <1>7, PathFacts, ActiveSlots
  <2> QED BY <1>3, <1>5, <2>1, <2>2, PathFacts DEF IndexHolds
<1>12. ValidationHolds'
  <2>1. ASSUME NEW c \in Blocks PROVE header'[c] = "FullyValid" <=> c \in Path[validation_index]
    <3>1. c \in Path[validation_index] => c \in Path[p]
      BY <1>3, <1>9, PathFacts
    <3> QED BY <1>6, <1>7, <3>1 DEF IndInv, ValidationHolds
  <2> QED BY <1>5, <1>8, <1>9, <2>1 DEF IndInv, ValidationHolds, AccOf
<1>13. SlotHeights' /\ RootsHold'
  BY <1>5 DEF IndInv, SlotHeights, RootsHold, AccOf
<1>14. SavedHolds'
  <2>1. depth # 0
    BY <1>2, <1>3, PathFacts, SMT
  <2> QED BY <1>5, <2>1 DEF IndInv, SavedHolds
<1> QED BY <1>3, <1>10, <1>11, <1>12, <1>13, <1>14 DEF IndInv, task

(* A block of the active chain is assumed, at or above the validation      *)
(* index.                                                                  *)
LEMMA AssumeInv ==
  ASSUME IndInv, IndexHolds(best_block), NEW b \in Path[best_block], b # Genesis,
         validation_index \in Path[b],
         mark_chain_as_assumed(b), UNCHANGED <<ibd, task, restarts>>
  PROVE  IndInv'
<1> DEFINE C == Path[b] \ {Genesis}
<1>1. /\ TypeOK /\ best_block \in Blocks /\ b \in Blocks /\ depth = Height[best_block]
      /\ b \in Path[b] /\ b \in C
  BY PathFacts DEF IndInv, TypeOK, ValidationHolds
<1>2. /\ header' = SetAll(header, C, "FullyValid") /\ slot' = SlotsWith(C)
      /\ roots' = [RootsWithout(C) EXCEPT ![Height[b]] = AccOf(b)]
      /\ acc' = AccOf(b) /\ validation_index' = b
      /\ saved' = Saved(best_block, depth, b) /\ clean' = TRUE
      /\ UNCHANGED <<best_block, depth, alternative_tips>>
  BY DEF mark_chain_as_assumed, Flush
<1>3. /\ C \in SUBSET Path[b] /\ C \subseteq Blocks /\ C \subseteq Path[best_block]
      /\ \A c \in C : Height[c] \in Heights /\ Height[c] # 0
  BY <1>1, PathFacts, GenesisFacts, HeightFacts
<1>4. \A c \in Blocks : c \in Path[b] <=> c \in C \/ c = Genesis
  BY <1>1, PathFacts
<1> HIDE DEF C
<1>5. /\ header' \in [Blocks -> Known \cup {"NotPresent"}]
      /\ \A c \in Blocks : header'[c] = IF c \in C THEN "FullyValid" ELSE header[c]
  BY <1>1, <1>2, HeadersSet, SMT DEF Known
<1>6. /\ slot' \in [Heights -> Blocks \cup {NoBlock}] /\ SlotHeights'
      /\ \A c \in C : slot'[Height[c]] = c
      /\ \A h \in Heights : (\A c \in C : Height[c] # h) => slot'[h] = slot[h]
  BY <1>1, <1>2, <1>3, SlotsSet DEF SlotHeights, IndInv
<1>7. /\ roots' \in [Heights -> {NoRoots} \cup SUBSET Blocks]
      /\ roots'[Height[b]] = AccOf(b) /\ AccOf(b) # NoRoots /\ AccOf(b) \subseteq Blocks
      /\ \A c \in C : c # b => roots'[Height[c]] = NoRoots
      /\ roots'[0] = roots[0]
  <2>1. AccOf(b) \subseteq Blocks /\ AccOf(b) # NoRoots
    BY <1>1, PathFacts, ConfigAssumption DEF AccOf, ConfigAssumption
  <2>2. /\ RootsWithout(C) \in [Heights -> {NoRoots} \cup SUBSET Blocks]
        /\ \A h \in Heights : RootsWithout(C)[h] = IF \E c \in C : Height[c] = h THEN NoRoots ELSE roots[h]
    BY <1>1, RootsSet
  <2>3. Height[b] \in Heights /\ 0 \in Heights /\ Height[b] # 0
    BY <1>1, <1>3, HeightFacts
  <2>4. roots' \in [Heights -> {NoRoots} \cup SUBSET Blocks] /\ roots'[Height[b]] = AccOf(b)
    BY <1>2, <2>1, <2>2, <2>3
  <2>5. \A c \in C : c # b => Height[c] # Height[b]
    BY <1>1, <1>3, PathFacts
  <2>6. \A h \in Heights : h # Height[b] => roots'[h] = RootsWithout(C)[h]
    BY <1>2, <2>2
  <2>7. \A c \in C : c # b => roots'[Height[c]] = NoRoots
    BY <1>3, <2>2, <2>5, <2>6
  <2>8. roots'[0] = roots[0]
    BY <1>3, <2>2, <2>3, <2>6
  <2> QED BY <2>1, <2>4, <2>7, <2>8
<1>8. depth \in Nat /\ depth # 0 /\ depth \in Heights
  BY <1>1, <1>3, PathFacts, HeightFacts, SMT
<1>9. TypeOK'
  <2>1. saved' \in [best_block : Blocks \cup {NoBlock}, depth : Heights,
                    validation_index : Blocks \cup {NoBlock}]
    BY <1>1, <1>2, <1>8 DEF Saved
  <2>2. clean' \in BOOLEAN
    BY <1>2
  <2> QED BY <1>1, <1>2, <1>5, <1>6, <1>7, <2>1, <2>2 DEF TypeOK, task
<1>10. IndexHolds(best_block)'
  <2>1. \A c \in Blocks : header'[c] \in OnChain <=> c \in Path[best_block]
    BY <1>3, <1>5 DEF IndexHolds, OnChain
  <2>2. ASSUME NEW c \in Path[best_block] PROVE slot'[Height[c]] = c
    <3>1. CASE c \in C
      BY <1>6, <3>1
    <3>2. CASE c \notin C
      <4>1. Height[c] \in Heights /\ \A d \in C : Height[d] # Height[c]
        BY <1>1, <1>3, <3>2, PathFacts, HeightFacts
      <4> QED BY <1>6, <4>1, ActiveSlots
    <3> QED BY <3>1, <3>2
  <2> QED BY <1>1, <1>2, <2>1, <2>2, PathFacts DEF IndexHolds
<1>11. ValidationHolds'
  <2>1. ASSUME NEW c \in Blocks PROVE header'[c] = "FullyValid" <=> c \in Path[b]
    <3>1. c \in Path[validation_index] => c \in Path[b]
      BY <1>1, PathFacts
    <3>2. header[Genesis] = "FullyValid"
      BY PathFacts DEF IndInv, TypeOK, ValidationHolds
    <3> QED BY <1>4, <1>5, <3>1, <3>2 DEF IndInv, ValidationHolds
  <2> QED BY <1>1, <1>2, <2>1 DEF ValidationHolds, AccOf
<1>12. RootsHold'
  <2>1. \A c \in Path[b] \ {Genesis} : roots'[Height[c]] \in {NoRoots, AccOf(c)}
    BY <1>7 DEF C
  <2> QED BY <1>2, <1>7, <2>1 DEF IndInv, RootsHold, AccOf
<1>13. SavedHolds'
  BY <1>1, <1>2, <1>8 DEF SavedHolds, Saved
<1> QED BY <1>1, <1>2, <1>6, <1>9, <1>10, <1>11, <1>12, <1>13 DEF IndInv, task

(* SwiftSync, whether it ends in an assumed chain or in an invalid block.  *)
LEMMA SwiftSyncInv ==
  ASSUME IndInv, SwiftSyncFinish \/ \E h \in Heights : SwiftSyncReject(h)
  PROVE  IndInv'
<1>1. ASSUME NEW h \in Heights, SwiftSyncable(h)
      PROVE  /\ slot[h] \in Path[best_block] /\ slot[h] \in Blocks \ {Genesis}
             /\ Height[validation_index] < Height[slot[h]]
             /\ validation_index \in Path[slot[h]]
             /\ ibd # "HeadersSync" /\ IndexHolds(best_block)
  <2>1. h \in 1..SwiftStop /\ SwiftStop <= depth /\ SwiftStop \in Nat /\ validation_index = Genesis
    BY <1>1, ConfigAssumption DEF SwiftSyncable, ConfigAssumption
  <2>2. depth \in Nat /\ best_block \in Blocks
    BY HeightFacts DEF IndInv, TypeOK
  <2>3. h \in 0..depth /\ h # 0
    BY <2>1, <2>2, SMT
  <2>4. slot[h] \in Path[best_block] /\ Height[slot[h]] = h
    BY <2>3, ActiveSlots
  <2>5. slot[h] \in Blocks /\ slot[h] # Genesis
    BY <2>2, <2>3, <2>4, PathFacts, GenesisFacts
  <2>6. Genesis \in Path[slot[h]]
    BY <2>5, PathFacts
  <2>7. IndexHolds(best_block) /\ ibd # "HeadersSync"
    BY <1>1 DEF SwiftSyncable, IndInv, IndexHolds
  <2> QED BY <2>1, <2>3, <2>4, <2>5, <2>6, <2>7, GenesisFacts, SMT
<1>2. CASE SwiftSyncFinish
  <2>1. SwiftSyncable(SwiftStop) /\ mark_chain_as_assumed(slot[SwiftStop])
    BY <1>2 DEF SwiftSyncFinish
  <2>2. SwiftStop \in Heights
    <3>1. SwiftStop \in 0..depth
      BY <2>1, ConfigAssumption, SMT DEF SwiftSyncable, ConfigAssumption
    <3> QED BY <3>1, HeightFacts DEF IndInv, TypeOK
  <2> QED BY <1>1, <1>2, <2>1, <2>2, AssumeInv DEF SwiftSyncFinish
<1>3. CASE \E h \in Heights : SwiftSyncReject(h)
  BY <1>1, <1>3, InvalidateInv DEF SwiftSyncReject
<1> QED BY <1>2, <1>3

(* The next block of the active chain is found invalid.                    *)
LEMMA RejectBlockInv ==
  ASSUME IndInv, NEW b \in Blocks, RejectBlock(b)
  PROVE  IndInv'
<1>1. /\ ibd \in {"ProofSync", "Done"} /\ Height[validation_index] + 1 <= depth /\ b = NextBlock
      /\ InvalidateBlock(b) /\ UNCHANGED <<ibd, task, restarts>>
  BY DEF RejectBlock, CanProcess
<1>2. /\ best_block \in Blocks /\ validation_index \in Blocks
      /\ Height[validation_index] \in Nat /\ depth \in Nat
  BY HeightFacts DEF IndInv, TypeOK
<1>3. Height[validation_index] + 1 \in 0..depth /\ Height[validation_index] + 1 \in Heights
  BY <1>1, <1>2, HeightFacts, SMT DEF IndInv, TypeOK
<1>4. b \in Path[best_block] /\ Height[b] = Height[validation_index] + 1
  BY <1>1, <1>3, ActiveSlots DEF NextBlock, SlotAt
<1>5. b # Genesis
  BY <1>2, <1>4, GenesisFacts, SMT
<1> QED BY <1>1, <1>2, <1>4, <1>5, InvalidateInv, SMT

(* Steps that only flush or change the IBD state.                          *)
LEMMA IbdInv ==
  ASSUME Undisturbed, IndInv, SelectorDone \/ SyncDone
  PROVE  IndInv'
<1>1. PICK t \in Blocks : IndexHolds(t)
  BY DEF IndInv
<1>2. /\ TypeOK /\ best_block \in Blocks /\ validation_index \in Blocks
      /\ depth = Height[best_block] /\ depth \in Heights
      /\ validation_index \in Path[best_block] /\ partial = {}
  BY DEF IndInv, TypeOK, ValidationHolds
<1>3. CASE SelectorDone
  <2>1. /\ ibd' = "ProofSync" /\ saved' = Saved(best_block, depth, validation_index) /\ clean' = TRUE
        /\ UNCHANGED <<header, slot, roots, best_block, depth, validation_index,
                       alternative_tips, acc, restarts>>
        /\ UNCHANGED <<partial, sync_node_state>>
    BY <1>3 DEF SelectorDone, Flush, StartBackfill, Undisturbed, chain, task
  <2>2. t = best_block
    BY <1>1, <1>3, CaughtUpIs DEF SelectorDone
  <2>3. TypeOK'
    <3>1. saved' \in [best_block : Blocks \cup {NoBlock}, depth : Heights,
                      validation_index : Blocks \cup {NoBlock}]
      BY <1>2, <2>1 DEF Saved
    <3>2. clean' \in BOOLEAN
      BY <2>1
    <3> QED BY <1>2, <2>1, <3>1, <3>2 DEF TypeOK
  <2>4. IndexHolds(best_block)'
    BY <1>1, <2>1, <2>2 DEF IndexHolds
  <2>5. SlotHeights' /\ ValidationHolds' /\ RootsHold'
    BY <2>1 DEF IndInv, SlotHeights, ValidationHolds, RootsHold, AccOf
  <2>6. SavedHolds'
    <3>1. depth = 0 => validation_index = Genesis
      BY <1>2, GenesisFacts
    <3> QED BY <1>2, <2>1, <3>1 DEF SavedHolds, Saved
  <2> QED BY <1>2, <2>1, <2>3, <2>4, <2>5, <2>6 DEF IndInv
<1>4. CASE SyncDone
  <2>1. /\ ibd = "ProofSync" /\ ibd' = "Done"
        /\ UNCHANGED <<header, slot, roots, saved, clean, best_block, depth, validation_index,
                       alternative_tips, acc, partial, sync_node_state, restarts>>
    BY <1>4 DEF SyncDone, store, chain, task
  <2>2. TypeOK'
    BY <1>2, <2>1 DEF TypeOK
  <2>3. IndexHolds(t)'
    BY <1>1, <2>1 DEF IndexHolds
  <2>4. SlotHeights' /\ ValidationHolds' /\ RootsHold'
    BY <2>1 DEF IndInv, SlotHeights, ValidationHolds, RootsHold, AccOf
  <2>5. SavedHolds'
    BY <2>1 DEF IndInv, SavedHolds, Saved
  <2> QED BY <1>2, <2>1, <2>2, <2>3, <2>4, <2>5 DEF IndInv
<1> QED BY <1>3, <1>4
==============================================================================
