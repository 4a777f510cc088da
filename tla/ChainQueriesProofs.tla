------------------------- MODULE ChainQueriesProofs --------------------------
(*****************************************************************************)
(* What queries answer while the chain changes between their reads, for every *)
(* tree of blocks and every moment the node task takes a step: the verbose   *)
(* header of getblockheader, and the block locator.                          *)
(*****************************************************************************)
EXTENDS ChainStateProofs, ChainQueries

(* Leaves are for Zenon, unless they name the SMT solver.                  *)
USE Zenon

(* The heights of a locator, and what holds of them while they are chosen:   *)
(* after i rounds of the loop the index has come down by at least i.         *)
Descends(s) == \A i \in 1..Len(s) : \A j \in 1..(i - 1) : s[j] > s[i]

Descent == [indexes : Seq(Nat), step : Nat \ {0}, index : Nat]

DescentHolds(s, top, i) ==
  /\ s \in Descent
  /\ s.index <= top - i \/ s.index = 0
  /\ \A k \in 1..Len(s.indexes) : s.indexes[k] <= top /\ s.indexes[k] > s.index
  /\ Descends(s.indexes)

(* What the provers need of Append.                                          *)
IsAppended(T, s, x, r) ==
  /\ r \in Seq(T) /\ Len(r) = Len(s) + 1 /\ Len(s) \in Nat
  /\ r[Len(s) + 1] = x
  /\ \A i \in 1..Len(s) : r[i] = s[i] /\ s[i] \in T

(* One more element at the end of a sequence.                                *)
LEMMA Appended ==
  ASSUME NEW T, NEW s \in Seq(T), NEW x \in T
  PROVE  IsAppended(T, s, x, Append(s, x))
BY SMT DEF IsAppended

(* A lower height at the end.                                                *)
LEMMA AppendDescends ==
  ASSUME NEW s \in Seq(Nat), Descends(s), NEW x \in Nat, \A i \in 1..Len(s) : s[i] > x
  PROVE  Descends(Append(s, x))
<1>1. /\ Len(Append(s, x)) = Len(s) + 1 /\ Len(s) \in Nat
      /\ Append(s, x)[Len(s) + 1] = x
      /\ \A i \in 1..Len(s) : Append(s, x)[i] = s[i] /\ s[i] \in Nat
  <2>1. IsAppended(Nat, s, x, Append(s, x))
    BY Appended
  <2> QED BY <2>1 DEF IsAppended
<1> SUFFICES ASSUME NEW i \in 1..Len(s) + 1, NEW j \in 1..(i - 1)
             PROVE  Append(s, x)[j] > Append(s, x)[i]
  BY <1>1 DEF Descends
<1>2. j \in 1..Len(s)
  BY <1>1, SMT
<1>3. CASE i = Len(s) + 1
  BY <1>1, <1>2, <1>3
<1>4. CASE i # Len(s) + 1
  <2>1. i \in 1..Len(s)
    BY <1>1, <1>4, SMT
  <2> QED BY <1>1, <1>2, <2>1 DEF Descends
<1> QED BY <1>3, <1>4

(* A round of the loop of get_block_locator.                                 *)
LEMMA DescendOnce ==
  ASSUME NEW top \in Nat, NEW i \in Nat, NEW s, DescentHolds(s, top, i), i < top
  PROVE  DescentHolds(Descend(s), top, i + 1)
<1>1. /\ s \in Descent /\ s.indexes \in Seq(Nat) /\ s.step \in Nat \ {0} /\ s.index \in Nat
      /\ Len(s.indexes) \in Nat
  BY SMT DEF DescentHolds, Descent
<1>2. CASE s.index = 0
  BY <1>1, <1>2 DEF DescentHolds, Descend
<1>3. CASE s.index # 0
  <2> DEFINE step == IF Len(s.indexes) >= DENSE THEN 2 * s.step ELSE s.step
             indexes == Append(s.indexes, s.index)
             index == IF s.index > step THEN s.index - step ELSE 0
  <2>1. step \in Nat \ {0} /\ index \in Nat /\ index < s.index
    <3>1. step = 2 * s.step \/ step = s.step
      OBVIOUS
    <3> HIDE DEF step
    <3> QED BY <1>1, <1>3, <3>1, SMT
  <2>2. Descend(s) = [indexes |-> indexes, step |-> step, index |-> index]
    BY <1>3 DEF Descend
  <2>3. /\ indexes \in Seq(Nat) /\ Len(indexes) = Len(s.indexes) + 1
        /\ indexes[Len(s.indexes) + 1] = s.index
        /\ \A k \in 1..Len(s.indexes) : indexes[k] = s.indexes[k] /\ s.indexes[k] \in Nat
    <3>1. IsAppended(Nat, s.indexes, s.index, indexes)
      BY <1>1, Appended
    <3> QED BY <3>1 DEF IsAppended
  <2>4. Descends(indexes)
    BY <1>1, AppendDescends DEF DescentHolds
  <2>5. s.index <= top - i
    BY <1>3 DEF DescentHolds
  <2> HIDE DEF step, indexes, index
  <2>6. index <= top - (i + 1) /\ s.index <= top
    BY <1>1, <2>1, <2>5, SMT
  <2>7. ASSUME NEW k \in 1..Len(indexes) PROVE indexes[k] <= top /\ indexes[k] > index
    <3>1. CASE k = Len(s.indexes) + 1
      BY <1>1, <2>1, <2>3, <2>6, <3>1, SMT
    <3>2. CASE k # Len(s.indexes) + 1
      <4>1. k \in 1..Len(s.indexes)
        BY <1>1, <2>3, <3>2, SMT
      <4>2. indexes[k] = s.indexes[k] /\ s.indexes[k] \in Nat /\ s.indexes[k] <= top /\ s.indexes[k] > s.index
        BY <2>3, <4>1 DEF DescentHolds
      <4> QED BY <1>1, <2>1, <4>2, SMT
    <3> QED BY <3>1, <3>2
  <2>8. [indexes |-> indexes, step |-> step, index |-> index] \in Descent
    BY <2>1, <2>3 DEF Descent
  <2> DEFINE r == [indexes |-> indexes, step |-> step, index |-> index]
  <2>9. r.indexes = indexes /\ r.index = index /\ Descend(s) = r /\ r \in Descent
    BY <2>2, <2>8
  <2> HIDE DEF r
  <2> QED BY <2>4, <2>6, <2>7, <2>9 DEF DescentHolds
<1> QED BY <1>2, <1>3

(* The loop, as the function Indexes defines.                                *)
AtTop(top) == [indexes |-> <<>>, step |-> 1, index |-> top]
Walks(d, top, n) == d = [i \in 0..n |-> IF i = 0 THEN AtTop(top) ELSE Descend(d[i - 1])]

(* The recursion has a solution.                                           *)
LEMMA WalkExists ==
  ASSUME NEW top \in Nat
  PROVE  \A n \in Nat : \E d : Walks(d, top, n)
<1> DEFINE Bad == {n \in Nat : ~\E d : Walks(d, top, n)}
<1>1. SUFFICES ASSUME Bad # {} PROVE FALSE
  OBVIOUS
<1>2. PICK n \in Bad : \A k \in Bad : n <= k
  BY <1>1, Least
<1>3. CASE n = 0
  <2> DEFINE d == [i \in 0..0 |-> AtTop(top)]
  <2>1. \A i \in 0..0 : i = 0
    BY SMT
  <2>2. Walks(d, top, 0)
    BY <2>1 DEF Walks
  <2> QED BY <1>3, <2>2
<1>4. CASE n # 0
  <2>1. n - 1 \in Nat /\ ~(n <= n - 1)
    BY <1>4, SMT
  <2>2. n - 1 \notin Bad
    BY <1>2, <2>1
  <2>3. PICK d : Walks(d, top, n - 1)
    BY <2>1, <2>2
  <2> DEFINE e == [i \in 0..n |-> IF i = 0 THEN AtTop(top) ELSE Descend(d[i - 1])]
  <2>4. ASSUME NEW i \in 0..n, i # 0 PROVE d[i - 1] = e[i - 1]
    <3>1. i - 1 \in 0..n - 1 /\ i - 1 \in 0..n
      BY <2>4, SMT
    <3>2. d[i - 1] = IF i - 1 = 0 THEN AtTop(top) ELSE Descend(d[(i - 1) - 1])
      BY <2>3, <3>1 DEF Walks
    <3> QED BY <3>1, <3>2
  <2>5. e = [i \in 0..n |-> IF i = 0 THEN AtTop(top) ELSE Descend(e[i - 1])]
    BY <2>4
  <2> HIDE DEF e
  <2>6. Walks(e, top, n)
    BY <2>5 DEF Walks
  <2> QED BY <2>6
<1> QED BY <1>3, <1>4

(* The invariant of the loop, by induction on its rounds.                    *)
LEMMA WalkHolds ==
  ASSUME NEW top \in Nat, NEW d, Walks(d, top, top)
  PROVE  \A i \in 0..top : DescentHolds(d[i], top, i)
<1> DEFINE Bad == {i \in Nat : i \in 0..top /\ ~DescentHolds(d[i], top, i)}
<1>1. SUFFICES ASSUME Bad # {} PROVE FALSE
  BY SMT
<1>2. PICK n \in Bad : \A k \in Bad : n <= k
  BY <1>1, Least
<1>3. CASE n = 0
  <2>1. d[0] = AtTop(top)
    BY <1>2, <1>3 DEF Walks
  <2>2. /\ AtTop(top) \in Descent /\ AtTop(top).indexes = <<>> /\ AtTop(top).index = top
    BY SMT DEF AtTop, Descent
  <2>3. top <= top - 0 /\ Len(<<>>) = 0 /\ \A k : k \notin 1..0
    BY SMT
  <2>4. DescentHolds(AtTop(top), top, 0)
    BY <2>2, <2>3 DEF DescentHolds, Descends
  <2> QED BY <1>3, <2>1, <2>4
<1>4. CASE n # 0
  <2>1. n - 1 \in Nat /\ ~(n <= n - 1) /\ n - 1 \in 0..top /\ n - 1 < top /\ (n - 1) + 1 = n
    BY <1>4, SMT
  <2>2. DescentHolds(d[n - 1], top, n - 1)
    BY <1>2, <2>1
  <2>3. d[n] = Descend(d[n - 1])
    BY <1>2, <1>4 DEF Walks
  <2>4. DescentHolds(Descend(d[n - 1]), top, (n - 1) + 1)
    BY <2>1, <2>2, DescendOnce
  <2> QED BY <2>1, <2>3, <2>4
<1> QED BY <1>3, <1>4

(* The heights of a locator descend from at most top to 0.                 *)
LEMMA IndexesDescend ==
  ASSUME NEW top \in Nat
  PROVE  /\ Indexes(top) \in Seq(Nat) /\ Len(Indexes(top)) \in Nat \ {0}
         /\ Descends(Indexes(top))
         /\ Indexes(top)[Len(Indexes(top))] = 0
         /\ \A i \in 1..Len(Indexes(top)) : Indexes(top)[i] \in 0..top
<1> DEFINE d == CHOOSE f : Walks(f, top, top)
           s == d[top]
<1>1. Walks(d, top, top)
  BY WalkExists
<1>2. Indexes(top) = Append(s.indexes, 0)
  BY DEF Indexes, Walks, AtTop
<1> HIDE DEF d
<1>3. DescentHolds(s, top, top)
  <2>1. top \in 0..top
    BY SMT
  <2> QED BY <1>1, <2>1, WalkHolds
<1> HIDE DEF s
<1>4. s.indexes \in Seq(Nat) /\ s.index \in Nat
  BY <1>3 DEF DescentHolds, Descent
<1>5. s.index = 0
  BY <1>3, <1>4, SMT DEF DescentHolds
<1>6. Descends(Append(s.indexes, 0))
  BY <1>3, <1>4, <1>5, AppendDescends DEF DescentHolds
<1>7. /\ Append(s.indexes, 0) \in Seq(Nat) /\ Len(Append(s.indexes, 0)) = Len(s.indexes) + 1
      /\ Len(s.indexes) \in Nat
      /\ Append(s.indexes, 0)[Len(s.indexes) + 1] = 0
      /\ \A k \in 1..Len(s.indexes) : Append(s.indexes, 0)[k] = s.indexes[k] /\ s.indexes[k] \in Nat
  <2>1. 0 \in Nat
    BY SMT
  <2>2. IsAppended(Nat, s.indexes, 0, Append(s.indexes, 0))
    BY <1>4, <2>1, Appended
  <2> QED BY <2>2 DEF IsAppended
<1>8. ASSUME NEW k \in 1..Len(s.indexes) + 1 PROVE Append(s.indexes, 0)[k] \in 0..top
  <2>1. CASE k = Len(s.indexes) + 1
    BY <1>7, <2>1, SMT
  <2>2. CASE k # Len(s.indexes) + 1
    <3>1. k \in 1..Len(s.indexes)
      BY <1>7, <2>2, SMT
    <3>2. s.indexes[k] <= top /\ Append(s.indexes, 0)[k] = s.indexes[k] /\ s.indexes[k] \in Nat
      BY <1>3, <1>7, <3>1 DEF DescentHolds
    <3> QED BY <3>2, SMT
  <2> QED BY <2>1, <2>2
<1>9. Len(s.indexes) + 1 \in Nat \ {0}
  BY <1>7, SMT
<1> QED BY <1>2, <1>6, <1>7, <1>8, <1>9

-----------------------------------------------------------------------------
(* No header is forgotten, and none that is not known is indexed.          *)
SlotsKnown == \A h \in Heights : slot[h] # NoBlock => header[slot[h]] \in Known

(* What a step keeps of the headers and the index.                           *)
Remembers ==
  /\ \A b \in Blocks : header[b] \in Known => header'[b] \in Known
  /\ \A h \in Heights : slot'[h] = slot[h] \/ header'[slot'[h]] \in Known

(* Headers written together with their slots.                                *)
LEMMA SaveMainRemembers ==
  ASSUME TypeOK, NEW b \in Blocks, NEW C \in SUBSET Path[b], NEW status \in Known,
         \A c \in Blocks : header'[c] = status \/ (c \notin C /\ header'[c] = header[c])
                           \/ (c \notin C /\ header'[c] \in Known),
         slot' = SlotsWith(C)
  PROVE  Remembers
<1>1. C \subseteq Blocks
  BY PathFacts
<1>2. ASSUME NEW h \in Heights PROVE slot'[h] = slot[h] \/ header'[slot'[h]] \in Known
  <2>1. CASE \A c \in C : Height[c] # h
    BY <2>1, SlotsSet
  <2>2. CASE \E c \in C : Height[c] = h
    <3>1. PICK c \in C : Height[c] = h
      BY <2>2
    <3>2. slot'[h] = c
      BY <3>1, SlotsSet
    <3> QED BY <1>1, <3>1, <3>2
  <2> QED BY <2>1, <2>2
<1> QED BY <1>2 DEF Remembers

(* accept_header, a reorg included.                                          *)
LEMMA AcceptRemembers ==
  ASSUME IndInv, NEW b \in Blocks \ {Genesis}, AcceptNewHeader(b)
  PROVE  Remembers
<1>1. TypeOK /\ b \in Blocks
  BY DEF IndInv
<1>2. CASE Parent[b] = best_block
  <2>1. header' = SetAll(header, {b}, "HeadersOnly") /\ slot' = SlotsWith({b})
    BY <1>2 DEF AcceptNewHeader, SaveMain
  <2>2. "HeadersOnly" \in Known /\ {b} \in SUBSET Path[b]
    BY PathFacts DEF Known
  <2>3. \A c \in Blocks : header'[c] = IF c \in {b} THEN "HeadersOnly" ELSE header[c]
    BY <1>1, <2>1 DEF SetAll, TypeOK
  <2> QED BY <1>1, <2>1, <2>2, <2>3, SaveMainRemembers
<1>3. CASE Parent[b] # best_block
  <2>1. CASE StoreFork(b)
    <3>1. header' = SetAll(header, {b}, "InFork") /\ slot' = slot
      BY <2>1 DEF StoreFork, SaveFork
    <3>2. "InFork" \in Known
      BY DEF Known
    <3>3. \A c \in Blocks : header'[c] = IF c \in {b} THEN "InFork" ELSE header[c]
      BY <1>1, <3>1 DEF SetAll, TypeOK
    <3> QED BY <3>1, <3>2, <3>3 DEF Remembers
  <2>2. CASE CanReorg(b) /\ reorg(b)
    <3> DEFINE f == find_fork_point(b)
               old == Path[best_block] \ (IF f \in Path[best_block] THEN Path[f] ELSE {Genesis})
               branch == Path[b] \ Path[f]
    <3>1. /\ header' = SetAll(SetAll(header, old, "InFork"), branch, "HeadersOnly")
          /\ slot' = SlotsWith(branch)
      BY <2>2 DEF reorg
    <3>2. branch \in SUBSET Path[b]
      OBVIOUS
    <3> HIDE DEF old, branch
    <3>3. \A c \in Blocks : header'[c] = IF c \in branch THEN "HeadersOnly"
                                         ELSE IF c \in old THEN "InFork" ELSE header[c]
      BY <1>1, <3>1 DEF SetAll, TypeOK
    <3>4. "InFork" \in Known /\ "HeadersOnly" \in Known
      BY DEF Known
    <3> QED BY <1>1, <3>1, <3>2, <3>3, <3>4, SaveMainRemembers
  <2> QED BY <1>3, <2>1, <2>2 DEF AcceptNewHeader, maybe_reorg
<1> QED BY <1>2, <1>3

(* invalidate_block leaves the index as it is.                               *)
LEMMA InvalidateRemembers ==
  ASSUME TypeOK, NEW b, InvalidateBlock(b)
  PROVE  Remembers
<1> DEFINE S == {slot[h] : h \in Height[b]..depth}
<1>1. header' = SetAll(header, S, "InvalidChain") /\ slot' = slot
  BY DEF InvalidateBlock, SaveFork
<1> HIDE DEF S
<1> QED BY <1>1 DEF SetAll, TypeOK, Remembers, Known

(* mark_chain_as_assumed at the end of a SwiftSync.                          *)
LEMMA SwiftSyncRemembers ==
  ASSUME IndInv, SwiftSyncFinish
  PROVE  Remembers
<1> DEFINE b == slot[SwiftStop]
           C == Path[b] \ {Genesis}
<1>1. /\ SwiftStop \in 1..SwiftStop /\ SwiftStop <= depth /\ SwiftStop \in Nat
      /\ header' = SetAll(header, C, "FullyValid") /\ slot' = SlotsWith(C)
  BY ConfigAssumption DEF SwiftSyncFinish, SwiftSyncable, mark_chain_as_assumed, ConfigAssumption
<1>2. TypeOK /\ best_block \in Blocks /\ depth \in Nat
  BY HeightFacts DEF IndInv, TypeOK
<1>3. SwiftStop \in 0..depth
  BY <1>1, <1>2, SMT
<1>4. b \in Blocks
  BY <1>2, <1>3, ActiveSlots, PathFacts
<1>5. C \in SUBSET Path[b]
  OBVIOUS
<1>6. "FullyValid" \in Known
  BY DEF Known
<1> HIDE DEF b, C
<1>7. \A c \in Blocks : header'[c] = IF c \in C THEN "FullyValid" ELSE header[c]
  BY <1>1, <1>2 DEF SetAll, TypeOK
<1> QED BY <1>1, <1>2, <1>4, <1>5, <1>6, <1>7, SaveMainRemembers

(* connect_block writes a header over itself.                                *)
LEMMA ConnectRemembers ==
  ASSUME IndInv, NEW b \in Blocks \ {Genesis}, ConnectBlock(b)
  PROVE  Remembers
<1>1. TypeOK /\ b \in Blocks
  BY DEF IndInv
<1>2. /\ header' = [header EXCEPT ![b] = "FullyValid"]
      /\ slot' = [slot EXCEPT ![Height[b]] = b]
  BY DEF ConnectBlock
<1>3. header'[b] = "FullyValid" /\ \A c \in Blocks : c # b => header'[c] = header[c]
  BY <1>1, <1>2 DEF TypeOK
<1>4. \A h \in Heights : slot'[h] = b \/ slot'[h] = slot[h]
  BY <1>1, <1>2 DEF TypeOK
<1> QED BY <1>3, <1>4 DEF Remembers, Known

(* No step of an undisturbed node forgets a header.                          *)
LEMMA NextRemembers ==
  ASSUME Undisturbed, IndInv, [Next]_vars
  PROVE  Remembers
<1>1. ASSUME NEW b \in Blocks \ {Genesis}, SelectorHeader(b) PROVE Remembers
  <2>1. CASE AcceptNewHeader(b)
    BY <2>1, AcceptRemembers
  <2>2. CASE AcceptKnownHeader(b)
    <3>1. PICK t \in Blocks : IndexHolds(t)
      BY DEF IndInv
    <3>2. reindex_chain(acc, clean) /\ clean \in BOOLEAN
      BY <2>2 DEF AcceptKnownHeader, IndInv, TypeOK
    <3>3. validation_index = Genesis => acc = {}
      BY GenesisFacts DEF IndInv, ValidationHolds, AccOf
    <3>4. header' = header /\ slot' = slot
      BY <3>1, <3>2, <3>3, ReindexIs
    <3> QED BY <3>4 DEF Remembers
  <2> QED BY <1>1, <2>1, <2>2 DEF SelectorHeader
<1>2. ASSUME NEW b \in Blocks \ {Genesis}, RunningHeader(b) PROVE Remembers
  BY <1>2, AcceptRemembers DEF RunningHeader
<1>3. ASSUME NEW b \in Blocks \ {Genesis}, ConnectBlock(b) \/ RejectBlock(b) PROVE Remembers
  BY <1>3, ConnectRemembers, InvalidateRemembers DEF RejectBlock, IndInv
<1>4. CASE SwiftSyncFinish \/ \E h \in Heights : SwiftSyncReject(h)
  BY <1>4, SwiftSyncRemembers, InvalidateRemembers DEF SwiftSyncReject, IndInv
<1>5. CASE SelectorDone \/ SyncDone \/ UNCHANGED vars
  BY <1>5 DEF SelectorDone, SyncDone, vars, store, Remembers
<1>6. ~AssumeConfigured
  BY DEF AssumeConfigured, AssumePending, Undisturbed
<1>7. ~BackfillTask
  BY DEF BackfillTask, BackfillInSync, MarkBlockAsValid, IndInv
<1>8. CASE Crash \/ Shutdown
  <2>1. clean \in BOOLEAN
    BY DEF IndInv, TypeOK
  <2>2. header' = header /\ slot' = slot
    BY <1>8, <2>1, OpenMarks DEF Crash, Shutdown
  <2> QED BY <2>2 DEF Remembers
<1> QED BY <1>1, <1>2, <1>3, <1>4, <1>5, <1>6, <1>7, <1>8 DEF Next, NodeTask, Synchronize

(* So the index never names a header the store does not have.                *)
LEMMA SlotsStayKnown ==
  ASSUME IndInv, SlotsKnown, Remembers
  PROVE  SlotsKnown'
<1> SUFFICES ASSUME NEW h \in Heights, slot'[h] # NoBlock PROVE header'[slot'[h]] \in Known
  BY DEF SlotsKnown
<1>1. CASE slot'[h] = slot[h]
  <2>1. slot[h] \in Blocks /\ header[slot[h]] \in Known
    BY <1>1 DEF IndInv, TypeOK, SlotsKnown
  <2> QED BY <1>1, <2>1 DEF Remembers
<1> QED BY <1>1 DEF Remembers

-----------------------------------------------------------------------------
(* The states of a getblockheader query.                                     *)
Stages == {"height", "confirmations", "depth", "next", "slot", "done"}

HeaderQuery ==
  [op : {"header"}, b : Blocks, pc : Stages, height : Int, confirmations : Int,
   next : Blocks \cup {NoBlock}, steady : BOOLEAN]

(* What get_block_header has read so far.  confirmations may be too small  *)
(* for the chain as it is now, never too large.                            *)
HeaderHolds ==
  query.op = "header" =>
    /\ query \in HeaderQuery
    /\ query.pc # "height" => query.height = Height[query.b]
    /\ query.steady => query.b \in Path[best_block]
    /\ query.steady /\ query.pc \in {"next", "slot", "done"} =>
         query.confirmations \in 1..depth - Height[query.b] + 1
    /\ query.steady /\ query.pc = "done" /\ query.confirmations > 1 =>
         query.next # NoBlock /\ Parent[query.next] = query.b

(* What a read may change of the answer.                                   *)
Changed(q, r, p, h, c, n, s) ==
  /\ r \in HeaderQuery
  /\ r.b = q.b /\ r.pc = p /\ r.height = h /\ r.confirmations = c /\ r.next = n /\ r.steady = s

(* A step of the chain only changes steady.                                  *)
LEMMA SteadyChanged ==
  ASSUME NEW q \in HeaderQuery, NEW s \in BOOLEAN
  PROVE  Changed(q, [q EXCEPT !.steady = s], q.pc, q.height, q.confirmations, q.next, s)
<1>1. [q EXCEPT !.steady = s] \in HeaderQuery
  BY SMT DEF HeaderQuery
<1> QED BY <1>1 DEF Changed, HeaderQuery

(* get_height.                                                               *)
LEMMA HeightChanged ==
  ASSUME NEW q \in HeaderQuery, NEW h \in Int, NEW p \in Stages
  PROVE  Changed(q, [q EXCEPT !.height = h, !.pc = p], p, h, q.confirmations, q.next, q.steady)
<1> DEFINE q2 == [q EXCEPT !.height = h]
<1>1. q2 \in HeaderQuery
  BY SMT DEF HeaderQuery
<1>2. [q2 EXCEPT !.pc = p] \in HeaderQuery
  <2> HIDE DEF q2
  <2> QED BY <1>1, SMT DEF HeaderQuery
<1> QED BY <1>2 DEF Changed, HeaderQuery

(* get_confirmations.                                                        *)
LEMMA ConfirmationsChanged ==
  ASSUME NEW q \in HeaderQuery, NEW c \in Int, NEW p \in Stages
  PROVE  Changed(q, [q EXCEPT !.confirmations = c, !.pc = p], p, q.height, c, q.next, q.steady)
<1> DEFINE q2 == [q EXCEPT !.confirmations = c]
<1>1. q2 \in HeaderQuery
  BY SMT DEF HeaderQuery
<1>2. [q2 EXCEPT !.pc = p] \in HeaderQuery
  <2> HIDE DEF q2
  <2> QED BY <1>1, SMT DEF HeaderQuery
<1> QED BY <1>2 DEF Changed, HeaderQuery

(* get_next_block_hash.                                                      *)
LEMMA NextChanged ==
  ASSUME NEW q \in HeaderQuery, NEW n \in Blocks \cup {NoBlock}, NEW p \in Stages
  PROVE  Changed(q, [q EXCEPT !.next = n, !.pc = p], p, q.height, q.confirmations, n, q.steady)
<1> DEFINE q2 == [q EXCEPT !.next = n]
<1>1. q2 \in HeaderQuery
  BY SMT DEF HeaderQuery
<1>2. [q2 EXCEPT !.pc = p] \in HeaderQuery
  <2> HIDE DEF q2
  <2> QED BY <1>1, SMT DEF HeaderQuery
<1> QED BY <1>2 DEF Changed, HeaderQuery

(* What the index answers for a height.                                      *)
LEMMA SlotType ==
  ASSUME IndInv, NEW h \in Int
  PROVE  SlotAt(h) \in Blocks \cup {NoBlock}
BY DEF SlotAt, IndInv, TypeOK

(* The chain goes on while the answer is put together.                     *)
LEMMA HeaderAndChain ==
  ASSUME IndInv, IndInv', HeaderHolds, ChainStep
  PROVE  HeaderHolds'
<1>1. CASE query' = Idle
  BY <1>1 DEF HeaderHolds, Idle
<1>2. CASE query' # Idle
  <2>1. query' = [query EXCEPT !.steady = query.steady /\ best_block \in Path[best_block']]
    BY <1>2 DEF ChainStep
  <2>2. SUFFICES ASSUME query'.op = "header" PROVE HeaderHolds'
    BY DEF HeaderHolds
  <2>3. query.op = "header"
    BY <2>1, <2>2, SMT
  <2>4. query \in HeaderQuery
    BY <2>3 DEF HeaderHolds
  <2> DEFINE steady == query.steady /\ best_block \in Path[best_block']
  <2>11. steady \in BOOLEAN
    OBVIOUS
  <2>5. /\ query' \in HeaderQuery
        /\ query'.b = query.b /\ query'.pc = query.pc /\ query'.height = query.height
        /\ query'.confirmations = query.confirmations /\ query'.next = query.next
        /\ query'.steady = steady
    <3> HIDE DEF steady
    <3>1. Changed(query, [query EXCEPT !.steady = steady], query.pc, query.height,
                  query.confirmations, query.next, steady)
      BY <2>4, <2>11, SteadyChanged
    <3>2. query' = [query EXCEPT !.steady = steady]
      BY <2>1 DEF steady
    <3> QED BY <3>1, <3>2 DEF Changed
  <2>6. ASSUME query'.steady
        PROVE  /\ query.steady /\ query.b \in Path[best_block']
               /\ depth <= depth'
    <3>1. query.steady /\ best_block \in Path[best_block']
      BY <2>5, <2>6
    <3>2. query.b \in Path[best_block]
      BY <2>3, <3>1 DEF HeaderHolds
    <3>3. best_block' \in Blocks /\ depth' = Height[best_block'] /\ depth = Height[best_block]
      BY DEF IndInv, TypeOK, ValidationHolds
    <3>6. Path[best_block] \subseteq Path[best_block']
      BY <3>1, <3>3, PathFacts
    <3>4. query.b \in Path[best_block']
      BY <3>2, <3>6
    <3>5. Height[best_block] <= Height[best_block']
      BY <3>1, <3>3, PathFacts
    <3> QED BY <3>1, <3>3, <3>4, <3>5
  <2>7. query.b \in Blocks /\ query.confirmations \in Int
    BY <2>4 DEF HeaderQuery
  <2>8. query'.pc # "height" => query'.height = Height[query'.b]
    BY <2>3, <2>5 DEF HeaderHolds
  <2>9. ASSUME query'.steady, query'.pc \in {"next", "slot", "done"}
        PROVE  query'.confirmations \in 1..depth' - Height[query'.b] + 1
    <3>1. query.confirmations \in 1..depth - Height[query.b] + 1
      BY <2>3, <2>5, <2>6, <2>9 DEF HeaderHolds
    <3>2. depth <= depth' /\ depth \in Nat /\ depth' \in Nat /\ Height[query.b] \in Nat
      BY <2>6, <2>7, <2>9, HeightFacts DEF IndInv, TypeOK
    <3>3. query.confirmations \in 1..depth' - Height[query.b] + 1
      BY <3>1, <3>2, SMT
    <3> QED BY <2>5, <3>3
  <2>10. ASSUME query'.steady, query'.pc = "done", query'.confirmations > 1
         PROVE  query'.next # NoBlock /\ Parent[query'.next] = query'.b
    BY <2>3, <2>5, <2>6, <2>10 DEF HeaderHolds
  <2> QED BY <2>5, <2>6, <2>8, <2>9, <2>10 DEF HeaderHolds
<1> QED BY <1>1, <1>2

(* The reads of get_block_header.                                          *)
LEMMA HeaderReads ==
  ASSUME IndInv, HeaderHolds, UNCHANGED vars,
         get_height \/ get_confirmations \/ get_next_block_hash
  PROVE  HeaderHolds'
<1>1. /\ header' = header /\ slot' = slot /\ best_block' = best_block /\ depth' = depth
  BY DEF vars, store, chain
<1>2. query.op = "header"
  BY DEF get_height, get_confirmations, get_next_block_hash
<1>3. query \in HeaderQuery
  BY <1>2 DEF HeaderHolds
<1>4. /\ depth \in Nat /\ depth = Height[best_block] /\ best_block \in Blocks
      /\ query.b \in Blocks /\ Height[query.b] \in Nat
  BY <1>3, HeightFacts DEF IndInv, TypeOK, ValidationHolds, HeaderQuery
<1>5. query.steady => Height[query.b] <= depth /\ query.b \in Path[best_block]
  BY <1>2, <1>4, PathFacts DEF HeaderHolds
<1>6. CASE query' = Idle
  BY <1>6 DEF HeaderHolds, Idle
<1>7. CASE get_height /\ query' # Idle
  <2> DEFINE pc == CASE query.pc = "height" -> "confirmations"
                     [] query.pc = "confirmations" -> "depth"
                     [] query.pc = "next" -> "slot"
  <2>1. /\ query' = [query EXCEPT !.height = Height[query.b], !.pc = pc]
        /\ query.pc \in {"height", "confirmations", "next"}
    BY <1>7 DEF get_height
  <2>2. /\ pc \in Stages /\ pc \notin {"height", "done", "next"}
        /\ pc = "slot" => query.pc = "next"
    BY <2>1, SMT DEF Stages
  <2> HIDE DEF pc
  <2>3. /\ query' \in HeaderQuery /\ query'.b = query.b /\ query'.pc = pc /\ query'.height = Height[query.b]
        /\ query'.confirmations = query.confirmations /\ query'.next = query.next
        /\ query'.steady = query.steady
    <3>1. Height[query.b] \in Int
      BY <1>4, SMT
    <3>2. Changed(query, [query EXCEPT !.height = Height[query.b], !.pc = pc], pc, Height[query.b],
                  query.confirmations, query.next, query.steady)
      BY <1>3, <2>2, <3>1, HeightChanged
    <3> QED BY <2>1, <3>2 DEF Changed
  <2>4. ASSUME query'.steady, query'.pc \in {"next", "slot", "done"}
        PROVE  query'.confirmations \in 1..depth - Height[query.b] + 1
    <3>1. query.pc = "next" /\ query.steady
      BY <2>2, <2>3, <2>4
    <3> QED BY <1>2, <2>3, <3>1 DEF HeaderHolds
  <2> QED BY <1>1, <1>5, <2>2, <2>3, <2>4 DEF HeaderHolds
<1>8. CASE get_confirmations
  <2>1. /\ query' = [query EXCEPT !.confirmations = depth - query.height + 1, !.pc = "next"]
        /\ query.pc = "depth"
    BY <1>8 DEF get_confirmations
  <2>2. query.height = Height[query.b]
    BY <1>2, <2>1 DEF HeaderHolds
  <2>3. depth - query.height + 1 \in Int /\ "next" \in Stages
    BY <1>4, <2>2, SMT DEF Stages
  <2>4. /\ query' \in HeaderQuery /\ query'.b = query.b /\ query'.pc = "next" /\ query'.height = query.height
        /\ query'.confirmations = depth - query.height + 1 /\ query'.next = query.next
        /\ query'.steady = query.steady
    <3>1. Changed(query, [query EXCEPT !.confirmations = depth - query.height + 1, !.pc = "next"],
                  "next", query.height, depth - query.height + 1, query.next, query.steady)
      BY <1>3, <2>3, ConfirmationsChanged
    <3> QED BY <2>1, <3>1 DEF Changed
  <2>5. query.steady => depth - query.height + 1 \in 1..depth - Height[query.b] + 1
    BY <1>4, <1>5, <2>2, SMT
  <2> QED BY <1>1, <1>5, <2>2, <2>4, <2>5 DEF HeaderHolds
<1>9. CASE get_next_block_hash
  <2> DEFINE n == SlotAt(query.height + 1)
  <2>1. query' = [query EXCEPT !.next = n, !.pc = "done"] /\ query.pc = "slot"
    BY <1>9 DEF get_next_block_hash
  <2>2. query.height = Height[query.b]
    BY <1>2, <2>1 DEF HeaderHolds
  <2>3. n \in Blocks \cup {NoBlock} /\ "done" \in Stages
    BY <1>4, <2>2, SlotType, SMT DEF Stages
  <2>4. ASSUME query.steady, query.confirmations > 1 PROVE n # NoBlock /\ Parent[n] = query.b
    <3>1. query.confirmations \in 1..depth - Height[query.b] + 1
      BY <1>2, <2>1, <2>4 DEF HeaderHolds
    <3>2. query.height + 1 \in 0..depth
      BY <1>4, <2>2, <2>4, <3>1, SMT
    <3>3. query.height + 1 \in Heights
      BY <3>2, HeightFacts DEF IndInv, TypeOK
    <3>4. n \in Path[best_block] /\ Height[n] = Height[query.b] + 1
      BY <2>2, <3>2, <3>3, ActiveSlots DEF SlotAt
    <3> HIDE DEF n
    <3>5. n \in Blocks \ {Genesis} /\ Parent[n] = query.b
      BY <1>4, <1>5, <2>4, <3>4, NextOnPath
    <3> QED BY <3>5, GenesisFacts
  <2> HIDE DEF n
  <2>5. /\ query' \in HeaderQuery /\ query'.b = query.b /\ query'.pc = "done" /\ query'.height = query.height
        /\ query'.confirmations = query.confirmations /\ query'.next = n
        /\ query'.steady = query.steady
    <3>1. Changed(query, [query EXCEPT !.next = n, !.pc = "done"],
                  "done", query.height, query.confirmations, n, query.steady)
      BY <1>3, <2>3, NextChanged
    <3> QED BY <2>1, <3>1 DEF Changed
  <2>6. query.steady => query.confirmations \in 1..depth - Height[query.b] + 1
    BY <1>2, <2>1 DEF HeaderHolds
  <2> QED BY <1>1, <1>5, <2>2, <2>4, <2>5, <2>6 DEF HeaderHolds
<1> QED BY <1>6, <1>7, <1>8, <1>9

-----------------------------------------------------------------------------
(* The states of a locator, and what holds of them: the hashes found so far  *)
(* descend through known headers, the heights still to be read are lower,    *)
(* and the last of them is that of Genesis.                                  *)
LocatorQuery ==
  [op : {"locator"}, todo : Seq(Nat), hashes : Seq(Blocks), top : Int, steady : BOOLEAN]

LowerBy(hashes) ==
  \A i \in 1..Len(hashes) : \A j \in 1..(i - 1) : Height[hashes[j]] > Height[hashes[i]]

Above(hashes, h) == \A i \in 1..Len(hashes) : Height[hashes[i]] > h

EndsIn(s, x) == Len(s) # 0 /\ s[Len(s)] = x

LocatorHolds ==
  query.op = "locator" =>
    /\ query \in LocatorQuery
    /\ Descends(query.todo)
    /\ LowerBy(query.hashes)
    /\ \A i \in 1..Len(query.hashes) : header[query.hashes[i]] \in Known
    /\ \A j \in 1..Len(query.todo) : Above(query.hashes, query.todo[j])
    /\ \/ EndsIn(query.todo, 0)
       \/ query.todo = <<>> /\ EndsIn(query.hashes, Genesis)

(* The chain goes on while the locator is put together.                    *)
LEMMA LocatorAndChain ==
  ASSUME Remembers, LocatorHolds, ChainStep
  PROVE  LocatorHolds'
<1>1. CASE query' = Idle
  BY <1>1 DEF LocatorHolds, Idle
<1>2. CASE query' # Idle
  <2> DEFINE steady == query.steady /\ best_block \in Path[best_block']
  <2>1. query' = [query EXCEPT !.steady = steady] /\ steady \in BOOLEAN
    BY <1>2 DEF ChainStep
  <2> HIDE DEF steady
  <2>2. SUFFICES ASSUME query'.op = "locator" PROVE LocatorHolds'
    BY DEF LocatorHolds
  <2>3. query.op = "locator"
    BY <2>1, <2>2, SMT
  <2>4. query \in LocatorQuery
    BY <2>3 DEF LocatorHolds
  <2>5. query' \in LocatorQuery
    BY <2>1, <2>4, SMT DEF LocatorQuery
  <2>6. query'.todo = query.todo /\ query'.hashes = query.hashes
    BY <2>1, <2>4 DEF LocatorQuery
  <2>7. query.hashes \in Seq(Blocks)
    BY <2>4 DEF LocatorQuery
  <2>8. ASSUME NEW i \in 1..Len(query'.hashes) PROVE header'[query'.hashes[i]] \in Known
    <3>1. i \in 1..Len(query.hashes) /\ query.hashes[i] \in Blocks
      BY <2>6, <2>7, SMT
    <3>2. header[query.hashes[i]] \in Known
      BY <2>3, <3>1 DEF LocatorHolds
    <3> QED BY <2>6, <3>1, <3>2 DEF Remembers
  <2> QED BY <2>3, <2>5, <2>6, <2>8 DEF LocatorHolds
<1> QED BY <1>1, <1>2

(* The heights are chosen.                                                   *)
LEMMA LocatorStarts ==
  ASSUME IndInv, UNCHANGED vars, get_block_locator
  PROVE  LocatorHolds'
<1> DEFINE q == [op |-> "locator", todo |-> Indexes(depth), hashes |-> <<>>,
                 top |-> depth, steady |-> TRUE]
<1>1. query' = q
  BY DEF get_block_locator
<1>2. depth \in Nat /\ depth \in Int
  BY HeightFacts, SMT DEF IndInv, TypeOK
<1>3. /\ Indexes(depth) \in Seq(Nat) /\ Len(Indexes(depth)) \in Nat \ {0}
      /\ Descends(Indexes(depth)) /\ Indexes(depth)[Len(Indexes(depth))] = 0
  BY <1>2, IndexesDescend
<1>4. <<>> \in Seq(Blocks) /\ Len(<<>>) = 0 /\ \A i : i \notin 1..0
  BY SMT
<1>5. /\ q \in LocatorQuery /\ q.todo = Indexes(depth) /\ q.hashes = <<>>
  BY <1>2, <1>3, <1>4 DEF LocatorQuery
<1> HIDE DEF q
<1>6. EndsIn(query'.todo, 0)
  BY <1>1, <1>3, <1>5 DEF EndsIn
<1>7. LowerBy(query'.hashes) /\ \A h : Above(query'.hashes, h)
  BY <1>1, <1>4, <1>5 DEF LowerBy, Above
<1> QED BY <1>1, <1>3, <1>4, <1>5, <1>6, <1>7 DEF LocatorHolds

(* A hash read changes these two fields.                                     *)
LEMMA TodoChanged ==
  ASSUME NEW q \in LocatorQuery, NEW s \in Seq(Nat), NEW r \in Seq(Blocks)
  PROVE  [q EXCEPT !.todo = s, !.hashes = r] \in LocatorQuery
<1> DEFINE T == Seq(Nat)
           H == Seq(Blocks)
           Q == [op : {"locator"}, todo : T, hashes : H, top : Int, steady : BOOLEAN]
           q2 == [q EXCEPT !.todo = s]
<1>1. q \in Q /\ s \in T /\ r \in H
  BY DEF LocatorQuery
<1> HIDE DEF T, H
<1>2. q2 \in Q
  BY <1>1, SMT
<1>3. [q2 EXCEPT !.hashes = r] \in Q
  <2> HIDE DEF q2
  <2> QED BY <1>1, <1>2, SMT
<1> QED BY <1>3 DEF LocatorQuery, T, H

(* The heights after the first descend too.                                  *)
LEMMA TailDescends ==
  ASSUME NEW s \in Seq(Nat), s # <<>>, Descends(s)
  PROVE  Descends(Tail(s))
<1>1. Len(Tail(s)) = Len(s) - 1 /\ Len(s) \in Nat
  BY SMT
<1>2. ASSUME NEW i \in 1..Len(s) - 1 PROVE Tail(s)[i] = s[i + 1] /\ i + 1 \in 1..Len(s)
  BY SMT
<1> SUFFICES ASSUME NEW i \in 1..Len(s) - 1, NEW j \in 1..(i - 1) PROVE Tail(s)[j] > Tail(s)[i]
  BY <1>1 DEF Descends
<1>3. j \in 1..Len(s) - 1 /\ j + 1 \in 1..((i + 1) - 1)
  BY <1>1, SMT
<1>4. s[j + 1] > s[i + 1]
  BY <1>2, <1>3 DEF Descends
<1> QED BY <1>2, <1>3, <1>4

(* A hash is read: it is the header indexed at that height, whatever has     *)
(* happened to the chain since the heights were chosen.                      *)
LEMMA LocatorReads ==
  ASSUME IndInv, SlotsKnown, LocatorHolds, UNCHANGED vars, get_block_hash
  PROVE  LocatorHolds'
<1> DEFINE todo == query.todo
           hashes == query.hashes
           h == Head(todo)
           hash == SlotAt(h)
           more == IF hash = NoBlock THEN hashes ELSE Append(hashes, hash)
<1>1. /\ query.op = "locator" /\ todo # <<>> /\ header' = header
      /\ query' = [query EXCEPT !.todo = Tail(todo), !.hashes = more]
  BY DEF get_block_hash, vars, store
<1>2. query \in LocatorQuery
  BY <1>1 DEF LocatorHolds
<1>3. todo \in Seq(Nat) /\ hashes \in Seq(Blocks)
  BY <1>2 DEF LocatorQuery
<1>4. /\ Tail(todo) \in Seq(Nat) /\ Len(Tail(todo)) = Len(todo) - 1 /\ Len(todo) \in Nat \ {0}
      /\ h = todo[1] /\ h \in Nat
  BY <1>1, <1>3, SMT
<1>5. ASSUME NEW i \in 1..Len(todo) - 1 PROVE Tail(todo)[i] = todo[i + 1] /\ i + 1 \in 1..Len(todo) /\ todo[i + 1] \in Nat
  BY <1>1, <1>3, SMT
<1>6. /\ Descends(todo) /\ LowerBy(hashes)
      /\ \A i \in 1..Len(hashes) : header[hashes[i]] \in Known
      /\ \A j \in 1..Len(todo) : Above(hashes, todo[j])
      /\ EndsIn(todo, 0)
  BY <1>1 DEF LocatorHolds
<1>7. hash # NoBlock => /\ hash \in Blocks /\ header[hash] \in Known
                        /\ Height[hash] = h
  BY DEF IndInv, TypeOK, SlotAt, SlotsKnown, SlotHeights
<1>8. h = 0 => hash = Genesis /\ hash # NoBlock
  <2>1. best_block \in Blocks /\ 0 \in Heights /\ Height[Genesis] = 0
    BY GenesisFacts, HeightFacts DEF IndInv, TypeOK
  <2>2. slot[0] = Genesis
    BY <2>1, ActiveSlots, PathFacts
  <2> QED BY <2>1, <2>2, GenesisFacts DEF SlotAt
<1> HIDE DEF todo, hashes, h, hash
<1>9. /\ more \in Seq(Blocks) /\ LowerBy(more)
      /\ \A i \in 1..Len(more) : header[more[i]] \in Known
      /\ \A j \in 1..Len(Tail(todo)) : Above(more, Tail(todo)[j])
      /\ hash # NoBlock => Len(more) = Len(hashes) + 1 /\ more[Len(hashes) + 1] = hash /\ Len(hashes) \in Nat
  <2>1. ASSUME NEW j \in 1..Len(todo) - 1
        PROVE  Tail(todo)[j] = todo[j + 1] /\ j + 1 \in 1..Len(todo) /\ Tail(todo)[j] < h
    <3>1. Tail(todo)[j] = todo[j + 1] /\ j + 1 \in 1..Len(todo) /\ todo[j + 1] \in Nat
      BY <1>5
    <3>2. 1 \in 1..((j + 1) - 1)
      BY <1>4, SMT
    <3>3. todo[1] > todo[j + 1]
      BY <1>6, <3>1, <3>2 DEF Descends
    <3> QED BY <1>4, <3>1, <3>3, SMT
  <2>2. CASE hash = NoBlock
    <3>1. more = hashes
      BY <2>2
    <3> HIDE DEF more
    <3> QED BY <1>3, <1>4, <1>6, <2>1, <2>2, <3>1
  <2>3. CASE hash # NoBlock
    <3>1. IsAppended(Blocks, hashes, hash, more)
      BY <1>3, <1>7, <2>3, Appended
    <3> HIDE DEF more
    <3>2. /\ more \in Seq(Blocks) /\ Len(more) = Len(hashes) + 1 /\ Len(hashes) \in Nat
          /\ more[Len(hashes) + 1] = hash
          /\ \A i \in 1..Len(hashes) : more[i] = hashes[i] /\ hashes[i] \in Blocks
      BY <3>1 DEF IsAppended
    <3>3. ASSUME NEW i \in 1..Len(hashes) PROVE Height[more[i]] > h /\ Height[more[i]] \in Nat
      <4>1. 1 \in 1..Len(todo)
        BY <1>4, SMT
      <4>2. Height[hashes[i]] > h
        BY <1>4, <1>6, <4>1 DEF Above
      <4> QED BY <3>2, <4>2, HeightFacts
    <3>4. ASSUME NEW i \in 1..Len(more), i \notin 1..Len(hashes) PROVE i = Len(hashes) + 1
      BY <3>2, <3>4, SMT
    <3>5. LowerBy(more)
      <4> SUFFICES ASSUME NEW i \in 1..Len(more), NEW j \in 1..(i - 1)
                   PROVE  Height[more[j]] > Height[more[i]]
        BY DEF LowerBy
      <4>1. j \in 1..Len(hashes)
        BY <3>2, SMT
      <4>2. CASE i \in 1..Len(hashes)
        BY <1>6, <3>2, <4>1, <4>2 DEF LowerBy
      <4>3. CASE i \notin 1..Len(hashes)
        <5>1. more[i] = hash
          BY <3>2, <3>4, <4>3
        <5> QED BY <1>7, <2>3, <3>3, <4>1, <5>1
      <4> QED BY <4>2, <4>3
    <3>6. ASSUME NEW i \in 1..Len(more) PROVE header[more[i]] \in Known
      BY <1>6, <1>7, <2>3, <3>2, <3>4
    <3>7. ASSUME NEW j \in 1..Len(Tail(todo)) PROVE Above(more, Tail(todo)[j])
      <4>1. Tail(todo)[j] < h /\ Tail(todo)[j] \in Nat
        BY <1>4, <1>5, <2>1
      <4>2. ASSUME NEW i \in 1..Len(more) PROVE Height[more[i]] > Tail(todo)[j]
        <5>1. CASE i \in 1..Len(hashes)
          <6>1. Height[more[i]] > h /\ Height[more[i]] \in Nat
            BY <3>3, <5>1
          <6> QED BY <1>4, <4>1, <6>1, SMT
        <5>2. CASE i \notin 1..Len(hashes)
          <6>1. Height[more[i]] = h
            BY <1>7, <2>3, <3>2, <3>4, <5>2
          <6> QED BY <1>4, <4>1, <6>1, SMT
        <5> QED BY <5>1, <5>2
      <4> QED BY <4>2 DEF Above
    <3> QED BY <3>2, <3>5, <3>6, <3>7
  <2> QED BY <2>2, <2>3
<1> HIDE DEF more
<1>10. Descends(Tail(todo))
  BY <1>1, <1>3, <1>6, TailDescends DEF todo
<1>11. EndsIn(Tail(todo), 0) \/ (Tail(todo) = <<>> /\ EndsIn(more, Genesis))
  <2>1. CASE Len(todo) = 1
    <3>1. Tail(todo) = <<>>
      <4>1. Len(Tail(todo)) = 0
        BY <1>4, <2>1, SMT
      <4>2. \A s \in Seq(Nat) : Len(s) = 0 => s = <<>>
        BY SMT
      <4> QED BY <1>4, <4>1, <4>2
    <3>2. h = 0
      BY <1>4, <1>6, <2>1 DEF EndsIn
    <3>3. Len(more) = Len(hashes) + 1 /\ more[Len(hashes) + 1] = Genesis /\ Len(hashes) \in Nat
      BY <1>8, <1>9, <3>2
    <3>4. Len(more) # 0
      BY <3>3, SMT
    <3> QED BY <3>1, <3>3, <3>4 DEF EndsIn
  <2>2. CASE Len(todo) # 1
    <3>1. Len(todo) - 1 \in 1..Len(todo) - 1 /\ (Len(todo) - 1) + 1 = Len(todo) /\ Len(todo) - 1 # 0
      BY <1>4, <2>2, SMT
    <3>2. Tail(todo)[Len(todo) - 1] = todo[Len(todo)]
      BY <1>5, <3>1
    <3> QED BY <1>4, <1>6, <3>1, <3>2 DEF EndsIn
  <2> QED BY <2>1, <2>2
<1>12. query' \in LocatorQuery
  BY <1>1, <1>2, <1>4, <1>9, TodoChanged
<1>13. query'.todo = Tail(todo) /\ query'.hashes = more
  BY <1>1, <1>2 DEF LocatorQuery
<1> QED BY <1>1, <1>9, <1>10, <1>11, <1>12, <1>13 DEF LocatorHolds

-----------------------------------------------------------------------------
(* The inductive invariant of the chain and a query.                         *)
QInv == IndInv /\ SlotsKnown /\ HeaderHolds /\ LocatorHolds

(* getblockheader has found the header.                                      *)
LEMMA QueryStarts ==
  ASSUME IndInv, NEW b \in Blocks, UNCHANGED vars, get_block_header(b)
  PROVE  HeaderHolds'
<1>1. query' = Header(b) /\ best_block' = best_block /\ depth' = depth
  BY DEF get_block_header, vars, chain
<1>2. Header(b) \in HeaderQuery /\ Header(b).b = b /\ Header(b).pc = "height"
  BY SMT DEF Header, HeaderQuery, Stages
<1>3. Header(b).steady = (b \in Path[best_block])
  BY DEF Header
<1> QED BY <1>1, <1>2, <1>3 DEF HeaderHolds

(* At the start there is no query.                                           *)
LEMMA InitQ == ASSUME QInit PROVE QInv
<1>1. Init /\ query.op = "none"
  BY DEF QInit, Idle
<1>2. IndInv
  BY <1>1, InitInv
<1>3. SlotsKnown
  BY <1>1, GenesisFacts DEF Init, SlotsKnown, Known
<1>4. HeaderHolds /\ LocatorHolds
  BY <1>1 DEF HeaderHolds, LocatorHolds
<1> QED BY <1>2, <1>3, <1>4 DEF QInv

(* No step of the chain or of a query breaks the invariant.                  *)
LEMMA NextQ ==
  ASSUME Undisturbed, QInv, [QNext]_queries
  PROVE  QInv'
<1>1. IndInv /\ SlotsKnown /\ HeaderHolds /\ LocatorHolds
  BY DEF QInv
<1>2. [Next]_vars
  BY DEF QNext, queries, ChainStep, get_block_header, get_height, get_confirmations,
         get_next_block_hash, get_block_locator, get_block_hash, Finish
<1>3. IndInv'
  BY <1>1, <1>2, NextInv
<1>4. Remembers
  BY <1>1, <1>2, NextRemembers
<1>5. SlotsKnown'
  BY <1>1, <1>4, SlotsStayKnown
<1>6. CASE ChainStep
  BY <1>1, <1>3, <1>4, <1>6, HeaderAndChain, LocatorAndChain, <1>5 DEF QInv
<1>7. ASSUME NEW b \in Blocks, get_block_header(b) PROVE QInv'
  <2>1. UNCHANGED vars /\ query'.op = "header"
    BY <1>7 DEF get_block_header, Header
  <2>2. HeaderHolds'
    BY <1>1, <1>7, <2>1, QueryStarts
  <2>3. LocatorHolds'
    BY <2>1 DEF LocatorHolds
  <2> QED BY <1>3, <1>5, <2>2, <2>3 DEF QInv
<1>8. CASE get_height \/ get_confirmations \/ get_next_block_hash
  <2>1. UNCHANGED vars
    BY <1>8 DEF get_height, get_confirmations, get_next_block_hash
  <2>2. HeaderHolds'
    BY <1>1, <1>8, <2>1, HeaderReads
  <2>3. query.op = "header" /\ query \in HeaderQuery
    BY <1>1, <1>8 DEF get_height, get_confirmations, get_next_block_hash, HeaderHolds
  <2>4. query'.op # "locator"
    <3>1. CASE query' = Idle
      BY <3>1 DEF Idle
    <3>2. CASE query' # Idle
      <4>1. query'.op = query.op
        BY <1>8, <2>3, <3>2 DEF get_height, get_confirmations, get_next_block_hash, HeaderQuery
      <4> QED BY <2>3, <4>1
    <3> QED BY <3>1, <3>2
  <2> QED BY <1>3, <1>5, <2>2, <2>4 DEF QInv, LocatorHolds
<1>9. CASE get_block_locator
  <2>1. UNCHANGED vars /\ query'.op = "locator"
    BY <1>9 DEF get_block_locator
  <2>2. LocatorHolds'
    BY <1>1, <1>9, <2>1, LocatorStarts
  <2> QED BY <1>3, <1>5, <2>1, <2>2 DEF QInv, HeaderHolds
<1>10. CASE get_block_hash
  <2>1. UNCHANGED vars /\ query.op = "locator"
    BY <1>10 DEF get_block_hash
  <2>2. LocatorHolds'
    BY <1>1, <1>10, <2>1, LocatorReads
  <2>3. query \in LocatorQuery
    BY <1>1, <2>1 DEF LocatorHolds
  <2>4. query'.op = query.op
    BY <1>10, <2>3 DEF get_block_hash, LocatorQuery
  <2> QED BY <1>3, <1>5, <2>1, <2>2, <2>4 DEF QInv, HeaderHolds
<1>11. CASE Finish
  <2>1. query'.op = "none"
    BY <1>11 DEF Finish, Idle
  <2> QED BY <1>3, <1>5, <2>1 DEF QInv, HeaderHolds, LocatorHolds
<1>12. CASE UNCHANGED queries
  <2>1. UNCHANGED vars /\ query' = query
    BY <1>12 DEF queries
  <2>2. header' = header /\ best_block' = best_block /\ depth' = depth
    BY <2>1 DEF vars, store, chain
  <2> QED BY <1>1, <1>3, <1>5, <2>1, <2>2 DEF QInv, HeaderHolds, LocatorHolds
<1> QED BY <1>6, <1>7, <1>8, <1>9, <1>10, <1>11, <1>12 DEF QNext

(* QInv is an invariant of an undisturbed node with queries.                 *)
LEMMA QueryInvariance == Undisturbed => (QSpec => []QInv)
<1> SUFFICES ASSUME Undisturbed PROVE QSpec => []QInv
  OBVIOUS
<1>1. QInit => QInv
  BY InitQ
<1>2. QInv /\ [QNext]_queries => QInv'
  BY NextQ
<1> QED BY <1>1, <1>2, PTL DEF QSpec

(* While the best chain only grows, getblockheader answers about one chain,  *)
(* although it reads the chain five times: a block of the chain has at       *)
(* least one confirmation, and one that is not the tip is followed by its    *)
(* child.                                                                    *)
THEOREM HeaderAnswered == Undisturbed => (QSpec => []AnswerOfOneChain)
<1> SUFFICES ASSUME Undisturbed PROVE QSpec => []AnswerOfOneChain
  OBVIOUS
<1>1. QInv => AnswerOfOneChain
  <2> SUFFICES ASSUME QInv, query.op = "header", query.pc = "done", query.steady
               PROVE  /\ query.confirmations >= 1
                      /\ query.confirmations > 1 => query.next # NoBlock /\ Parent[query.next] = query.b
    BY DEF AnswerOfOneChain
  <2>1. query.confirmations \in 1..depth - Height[query.b] + 1
    BY DEF QInv, HeaderHolds
  <2>2. query.b \in Blocks /\ depth \in Nat
    BY HeightFacts DEF QInv, HeaderHolds, HeaderQuery, IndInv, TypeOK
  <2>3. query.confirmations >= 1
    BY <2>1, <2>2, HeightFacts, SMT
  <2> QED BY <2>3 DEF QInv, HeaderHolds
<1>2. QSpec => []QInv
  BY QueryInvariance
<1> QED BY <1>1, <1>2, PTL

(* get_block_locator descends through known headers down to Genesis,         *)
(* whatever reorgs, invalid blocks and restarts happen between its reads.    *)
THEOREM LocatorComplete == Undisturbed => (QSpec => []LocatorServes)
<1> SUFFICES ASSUME Undisturbed PROVE QSpec => []LocatorServes
  OBVIOUS
<1>1. QInv => LocatorServes
  <2> SUFFICES ASSUME QInv, query.op = "locator", query.todo = <<>>
               PROVE  /\ query.hashes # <<>> /\ query.hashes[Len(query.hashes)] = Genesis
                      /\ \A i \in DOMAIN query.hashes : header[query.hashes[i]] \in Known
                      /\ \A i \in DOMAIN query.hashes : \A j \in 1..(i - 1) :
                           Height[query.hashes[j]] > Height[query.hashes[i]]
    BY DEF LocatorServes
  <2>1. /\ query \in LocatorQuery /\ LowerBy(query.hashes)
        /\ \A i \in 1..Len(query.hashes) : header[query.hashes[i]] \in Known
        /\ EndsIn(query.todo, 0) \/ EndsIn(query.hashes, Genesis)
    BY DEF QInv, LocatorHolds
  <2>2. Len(<<>>) = 0
    BY SMT
  <2>3. EndsIn(query.hashes, Genesis) /\ query.hashes # <<>>
    BY <2>1, <2>2 DEF EndsIn
  <2>4. query.hashes \in Seq(Blocks)
    BY <2>1 DEF LocatorQuery
  <2>5. DOMAIN query.hashes = 1..Len(query.hashes)
    BY <2>4, SMT
  <2> QED BY <2>1, <2>3, <2>5 DEF LowerBy, EndsIn
<1>2. QSpec => []QInv
  BY QueryInvariance
<1> QED BY <1>1, <1>2, PTL

(* By the index and by parents: the same blocks.                             *)
LEMMA TwoLocators ==
  ASSUME IndInv
  PROVE  LocatorsAgree
<1> DEFINE top == Indexes(depth)
           n == Len(top)
           walk == [i \in 1..(n - 1) |-> Ancestor(best_block, top[i])]
<1>1. depth \in Nat /\ depth = Height[best_block] /\ best_block \in Blocks
  BY HeightFacts DEF IndInv, TypeOK, ValidationHolds
<1>2. /\ top \in Seq(Nat) /\ n \in Nat \ {0} /\ top[n] = 0
      /\ \A i \in 1..n : top[i] \in 0..depth
  BY <1>1, IndexesDescend
<1>3. get_block_locator_for_tip(best_block) = Append(walk, slot[0])
  BY <1>1 DEF get_block_locator_for_tip
<1>4. DOMAIN top = 1..n
  BY <1>2, SMT
<1> HIDE DEF top, n
<1>5. ASSUME NEW i \in 1..n PROVE SlotAt(top[i]) = slot[top[i]] /\ slot[top[i]] \in Path[best_block] /\ Height[slot[top[i]]] = top[i] /\ slot[top[i]] \in Blocks
  <2>1. top[i] \in 0..depth /\ depth \in Heights
    BY <1>2 DEF IndInv, TypeOK
  <2>2. top[i] \in Heights
    BY <2>1, HeightFacts
  <2>3. slot[top[i]] \in Path[best_block] /\ Height[slot[top[i]]] = top[i]
    BY <2>1, ActiveSlots
  <2> QED BY <1>1, <2>2, <2>3, PathFacts DEF SlotAt
<1>6. ASSUME NEW i \in 1..(n - 1) PROVE walk[i] = SlotAt(top[i]) /\ SlotAt(top[i]) \in Blocks /\ i \in 1..n
  <2>1. i \in 1..n
    BY <1>2, SMT
  <2>2. slot[top[i]] \in Path[best_block] /\ Height[slot[top[i]]] = top[i]
    BY <1>5, <2>1
  <2>3. \A a, c \in Path[best_block] : Height[a] = Height[c] => a = c
    BY <1>1, PathFacts
  <2>4. Ancestor(best_block, top[i]) = slot[top[i]]
    BY <2>2, <2>3 DEF Ancestor
  <2> QED BY <1>5, <2>1, <2>4
<1>7. \A i \in 1..(n - 1) : walk[i] \in Blocks
  BY <1>6
<1>8. slot[0] \in Blocks /\ SlotAt(0) = slot[0]
  <2>1. n \in 1..n
    BY <1>2, SMT
  <2> QED BY <1>2, <1>5, <2>1
<1>9. walk \in Seq(Blocks) /\ Len(walk) = n - 1
  <2>1. walk \in [1..(n - 1) -> Blocks]
    BY <1>7
  <2> HIDE DEF walk
  <2> QED BY <1>2, <2>1, SMT
<1>10. IsAppended(Blocks, walk, slot[0], Append(walk, slot[0]))
  BY <1>8, <1>9, Appended
<1> HIDE DEF walk
<1>11. ASSUME NEW i \in 1..n PROVE Append(walk, slot[0])[i] = SlotAt(top[i])
  <2>1. CASE i = n
    <3>1. n = Len(walk) + 1
      BY <1>2, <1>9, SMT
    <3>2. Append(walk, slot[0])[n] = slot[0]
      BY <1>10, <3>1 DEF IsAppended
    <3> QED BY <1>2, <1>8, <2>1, <3>2
  <2>2. CASE i # n
    <3>1. i \in 1..(n - 1)
      BY <1>2, <2>2, SMT
    <3>2. Append(walk, slot[0])[i] = walk[i]
      BY <1>9, <1>10, <3>1 DEF IsAppended
    <3> QED BY <1>6, <3>1, <3>2
  <2> QED BY <2>1, <2>2
<1> DEFINE l == Append(walk, slot[0])
<1>12. l \in Seq(Blocks) /\ Len(l) = n
  BY <1>2, <1>9, <1>10, SMT DEF IsAppended
<1>13. l = [i \in 1..n |-> l[i]]
  <2> HIDE DEF l
  <2> QED BY <1>12, SMT
<1>14. l = [i \in 1..n |-> SlotAt(top[i])]
  BY <1>11, <1>13
<1> QED BY <1>3, <1>4, <1>14 DEF LocatorsAgree, top

(* get_block_locator and get_block_locator_for_tip agree on the best chain,  *)
(* at all times.                                                             *)
THEOREM LocatorsAlike == Undisturbed => (QSpec => []LocatorsAgree)
<1> SUFFICES ASSUME Undisturbed PROVE QSpec => []LocatorsAgree
  OBVIOUS
<1>1. QInv => LocatorsAgree
  BY TwoLocators DEF QInv
<1>2. QSpec => []QInv
  BY QueryInvariance
<1> QED BY <1>1, <1>2, PTL

(* Whatever the node does while getblockheader and get_block_locator read    *)
(* its chain, their answers are of one chain.                                *)
THEOREM QueriesAreSound == Undisturbed => (QSpec => []QueriesSound)
<1> SUFFICES ASSUME Undisturbed PROVE QSpec => []QueriesSound
  OBVIOUS
<1>1. QSpec => []AnswerOfOneChain
  BY HeaderAnswered
<1>2. QSpec => []LocatorServes
  BY LocatorComplete
<1>3. QSpec => []LocatorsAgree
  BY LocatorsAlike
<1>4. AnswerOfOneChain /\ LocatorServes /\ LocatorsAgree => QueriesSound
  BY DEF QueriesSound
<1> QED BY <1>1, <1>2, <1>3, <1>4, PTL
==============================================================================
