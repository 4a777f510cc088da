------------------------ MODULE FlatChainStoreProofs ------------------------
(***************************************************************************)
(* Proof that the files of FlatChainStore are a map from hashes to headers *)
(* (StoreSound), for every tree of blocks, every hash function and every   *)
(* capacity of the index, the files and the cache.                         *)
(*                                                                         *)
(* The argument is that of linear probing: every entry of the index is     *)
(* reached from its hash over buckets that are in use (Reached), one       *)
(* bucket is always free, and no two entries lead to one block.  A write   *)
(* of a slot preserves this because the slot is in use for no other block: *)
(* the fork file only grows, and the blocks with an entry into the headers *)
(* file are those of one chain, so that each has its height for itself.    *)
(***************************************************************************)
EXTENDS FlatChainStore, DataLemmas

(* Leaves are for Zenon, unless they name the SMT solver.                  *)
USE Zenon

Statuses == MainStatus \cup ForkStatus \cup Errors \cup {Absent}
Slots    == [hash : Blocks \cup {NoBlock}, status : Statuses]
Indexes  == [file : {"headers", "forks"}, pos : Nat]

(* The buckets in use, and the block that one leads to.                    *)
Used(mp) == {q \in 0..index_capacity - 1 : ~is_empty(mp[q])}
Owner(hs, fs, mp, q) == get_disk_header(hs, fs, mp[q]).hash
StatusAt(hs, fs, mp, q) == get_disk_header(hs, fs, mp[q]).status

Reached(mp, q, b) ==
  \E k \in 0..index_capacity - 1 : /\ q = Bucket(b, k)
                                   /\ \A j \in 0..k - 1 : Bucket(b, j) \in Used(mp)

IndexHolds(hs, fs, mp) ==
  /\ get_disk_header(hs, fs, MainIndex(0)).hash = Genesis
  /\ \A q \in Used(mp) : /\ Owner(hs, fs, mp, q) \in Blocks \ {Genesis}
                         /\ Reached(mp, q, Owner(hs, fs, mp, q))
  /\ \A q, r \in Used(mp) : Owner(hs, fs, mp, q) = Owner(hs, fs, mp, r) => q = r
  /\ Used(mp) # 0..index_capacity - 1

(* hash_map_find_pos stops at probe k.                                     *)
StopsAt(hs, fs, b, k) ==
  /\ hash_map_find_pos(hs, fs, b) = Bucket(b, k)
  /\ Bucket(b, k) \in 0..index_capacity - 1
  /\ Bucket(b, k) \in Used(map) => Owner(hs, fs, map, Bucket(b, k)) = b
  /\ \A j \in 0..k - 1 : /\ Bucket(b, j) \in Used(map)
                         /\ Owner(hs, fs, map, Bucket(b, j)) # b

(* The sizes and the hash function are given when the store is created.    *)
Sized ==
  /\ index_capacity \in Nat \ {0}
  /\ headers_file_size \in Nat \ {0}
  /\ fork_file_size \in Nat
  /\ hash \in [Blocks -> Nat]

(* The files, and the index that leads to them.  What a slot says is a     *)
(* status that belongs in its file, and the last one saved for its block,  *)
(* unless later ones were refused.                                         *)
FilesType(hs, fs, mp) ==
  /\ hs \in [0..headers_file_size - 1 -> Slots]
  /\ fs \in [0..fork_file_size - 1 -> Slots]
  /\ mp \in [0..index_capacity - 1 -> Indexes]

SlotsHold(hs, fs) ==
  /\ hs[0].hash = Genesis /\ hs[0].status = "FullyValid"
  /\ \A h \in 0..headers_file_size - 1 :
       hs[h].hash \in Blocks => Height[hs[h].hash] = h /\ hs[h].status \in MainStatus
  /\ \A i \in 0..fork_file_size - 1 : fs[i].hash \in Blocks => fs[i].status \in ForkStatus

EntriesHold(hs, fs, mp, fc, tl) ==
  /\ \A q \in Used(mp) : /\ mp[q].file = "forks" => mp[q].pos < fc
                         /\ StatusAt(hs, fs, mp, q) \in tl[Owner(hs, fs, mp, q)]
  /\ \A b \in Blocks \ {Genesis} :
       (\A q \in Used(mp) : Owner(hs, fs, mp, q) # b) => Absent \in tl[b]
  /\ "FullyValid" \in tl[Genesis]

FilesHold(hs, fs, mp, fc, oc, tl) ==
  /\ FilesType(hs, fs, mp)
  /\ SlotsHold(hs, fs)
  /\ IndexHolds(hs, fs, mp)
  /\ EntriesHold(hs, fs, mp, fc, tl)
  /\ oc = Cardinality(Used(mp))
  /\ fc \in Nat

(* The operation under way, as long as nothing was refused: told says one  *)
(* thing of each block, the cache agrees, and the blocks that it says are  *)
(* of the chain are those that the operation has not got to yet and those  *)
(* that it leaves there.                                                   *)
Todos ==
  [tip : Blocks, inactive : SUBSET (Blocks \ {Genesis}), active : SUBSET (Blocks \ {Genesis}),
   invalid : SUBSET (Nat \ {0})]

OnChain(b, t) ==
  (Path[t.tip] \ t.active) \cup t.inactive \cup {c \in Path[b] : Height[c] \in t.invalid}

ToldHolds(tl, ch) ==
  \A b \in Blocks : /\ \E s \in MainStatus \cup ForkStatus \cup {Absent} : tl[b] = {s}
                    /\ ch[b] # Absent => tl[b] = {ch[b]}

TodoHolds(tl, b, t) ==
  /\ \A c \in Blocks : tl[c] \subseteq MainStatus <=> c \in OnChain(b, t)
  /\ t.active \subseteq Path[t.tip] /\ t.inactive \cap (Path[t.tip] \ t.active) = {}
  /\ \A c \in t.inactive \cup t.active : tl[Parent[c]] # {Absent}
  /\ \A h \in t.invalid : h > Height[t.tip] /\ h <= Height[b]
  /\ t.invalid # {} => t.inactive = {} /\ t.active = {}
  /\ t.invalid = {} /\ t.inactive = {} /\ t.active = {} => t.tip = b

(* The files, the cache and what was told; and the operation under way.    *)
SInv ==
  /\ Sized
  /\ FilesHold(headers, forks, map, fork_count, occupancy, told)
  /\ cache \in [Blocks -> MainStatus \cup ForkStatus \cup {Absent}]
  /\ told \in [Blocks -> SUBSET Statuses]
  /\ refused \in BOOLEAN
  /\ ~refused => ToldHolds(told, cache)

TInv ==
  /\ best \in Blocks /\ todo \in Todos
  /\ refused => todo.inactive = {} /\ todo.active = {} /\ todo.invalid = {}
  /\ ~refused => TodoHolds(told, best, todo)

FInv == SInv /\ TInv
-----------------------------------------------------------------------------
(* Facts about the tree: its heights, and its paths.                       *)
LEMMA Tree ==
  /\ Genesis \in Blocks /\ NoBlock \notin Blocks /\ Path[Genesis] = {Genesis}
  /\ \A b \in Blocks : Height[b] \in Nat /\ (Height[b] = 0 <=> b = Genesis)
  /\ \A b \in Blocks \ {Genesis} :
       /\ Parent[b] \in Blocks /\ Height[b] = Height[Parent[b]] + 1 /\ Height[b] \in Nat \ {0}
       /\ Path[b] = Path[Parent[b]] \cup {b}
<1>1. \A b \in Blocks : Height[b] \in Nat /\ (Height[b] = 0 <=> b = Genesis)
  BY TreeAssumption, SMT DEF TreeAssumption
<1>2. \A b \in Blocks \ {Genesis} : Height[b] \in Nat \ {0}
  BY <1>1
<1> QED BY <1>1, <1>2, TreeAssumption DEF TreeAssumption

(* A path is a chain of blocks from Genesis, one per height.               *)
LEMMA TreePaths ==
  ASSUME NEW b \in Blocks PROVE IsPathTo(b, Genesis, Height, Path) /\ Path[b] \subseteq Blocks
<1>1. IsTree(Blocks, Genesis, Parent, Height, Path)
  BY TreeAssumption DEF TreeAssumption, IsTree
<1> QED BY <1>1, PathsOfTree, TreeAssumption DEF TreeAssumption

LEMMA OnPath ==
  ASSUME NEW b \in Blocks
  PROVE  /\ Path[b] \subseteq Blocks /\ b \in Path[b] /\ Genesis \in Path[b]
         /\ \A a \in Path[b] : Path[a] \subseteq Path[b] /\ Height[a] <= Height[b]
         /\ \A a, c \in Path[b] : Height[a] <= Height[c] => a \in Path[c]
         /\ \A a, c \in Path[b] : Height[a] = Height[c] => a = c
BY TreePaths DEF IsPathTo

LEMMA PathHeights ==
  ASSUME NEW b \in Blocks, NEW h \in 0..Height[b] PROVE \E a \in Path[b] : Height[a] = h
BY TreePaths DEF IsPathTo

(* A search visits every bucket.                                           *)
LEMMA EveryBucket ==
  ASSUME NEW M \in Nat \ {0}, NEW h \in Nat, NEW q \in 0..M - 1
  PROVE  \E k \in 0..M - 1 : (h + k) % M = q
<1>1. PICK p \in Int : h = (M * p) + (h % M)
  BY Divided
<1> DEFINE r == h % M
<1>2. r \in 0..M - 1 /\ h = (M * p) + r
  BY <1>1, Divided
<1> HIDE DEF r
<1>3. CASE q >= r
  <2>1. q - r \in 0..M - 1 /\ h + (q - r) = (M * p) + q /\ (M * p) + q \in Nat
    BY <1>2, <1>3, SMT
  <2> QED BY <2>1, RemainderIs
<1>4. CASE q < r
  <2>1. M * (p + 1) = (M * p) + M
    BY SMT
  <2>2. /\ (q - r) + M \in 0..M - 1
        /\ h + ((q - r) + M) = (M * (p + 1)) + q /\ (M * (p + 1)) + q \in Nat
    BY <2>1, <1>2, <1>4, SMT
  <2>3. p + 1 \in Int
    BY SMT
  <2> QED BY <2>2, <2>3, RemainderIs
<1> QED BY <1>2, <1>3, <1>4, SMT
-----------------------------------------------------------------------------
(* hash_map_find_pos ends, in the first bucket that leads to the block or  *)
(* is free.                                                                *)
LEMMA SearchEnds ==
  ASSUME Sized, NEW hs, NEW fs, IndexHolds(hs, fs, map), NEW b \in Blocks
  PROVE  /\ Probes(hs, fs, b) # {}
         /\ \E k \in 0..index_capacity - 1 : StopsAt(hs, fs, b, k)
<1> DEFINE N == index_capacity
           P == Probes(hs, fs, b)
<1>1. N \in Nat \ {0} /\ hash[b] \in Nat
  BY DEF Sized
<1> HIDE DEF N
<1>2. \A k \in 0..N - 1 : Bucket(b, k) \in 0..N - 1
  <2>1. ASSUME NEW k \in 0..N - 1 PROVE Bucket(b, k) \in 0..N - 1
    <3>1. hash[b] + k \in Nat
      BY <1>1, SMT
    <3> QED BY <3>1, <1>1, Divided DEF Bucket, N
  <2> QED BY <2>1
<1>3. ASSUME NEW k \in 0..N - 1
      PROVE  k \in P <=> (Bucket(b, k) \in Used(map) => Owner(hs, fs, map, Bucket(b, k)) = b)
  <2> DEFINE q == Bucket(b, k)
  <2>1. q \in 0..N - 1
    BY <1>2
  <2>2. q \in Used(map) => Owner(hs, fs, map, q) \in Blocks
    BY DEF IndexHolds
  <2>3. k \in P <=> ProbeEnds(hs, fs, b, k)
    BY DEF Probes, N
  <2>4. ProbeEnds(hs, fs, b, k) <=> (Owner(hs, fs, map, q) \in {b, NoBlock} \/ is_empty(map[q]))
    BY DEF ProbeEnds, Owner
  <2>5. q \in Used(map) <=> ~is_empty(map[q])
    BY <2>1 DEF Used, N
  <2> QED BY <2>2, <2>3, <2>4, <2>5, Tree
<1>4. P \in SUBSET Nat
  <2>1. 0..N - 1 \subseteq Nat
    BY <1>1, SMT
  <2> QED BY <2>1 DEF Probes, N
<1>5. P # {}
  <2>1. PICK q \in 0..N - 1 : q \notin Used(map)
    BY DEF IndexHolds, Used, N
  <2>2. PICK k \in 0..N - 1 : (hash[b] + k) % N = q
    BY <1>1, EveryBucket
  <2> QED BY <2>1, <2>2, <1>3 DEF Bucket, N
<1>6. Min(P) \in P /\ \A k \in P : Min(P) <= k
  BY <1>4, <1>5, Smallest
<1>7. P \subseteq 0..N - 1
  BY DEF Probes, N
<1> DEFINE m == Min(P)
<1> HIDE DEF P
<1>8. m \in 0..N - 1
  BY <1>6, <1>7
<1>9. ASSUME NEW j \in 0..m - 1
      PROVE  Bucket(b, j) \in Used(map) /\ Owner(hs, fs, map, Bucket(b, j)) # b
  <2>1. j \in 0..N - 1 /\ ~(m <= j)
    BY <1>1, <1>8, SMT
  <2>2. j \notin P
    BY <1>6, <2>1
  <2> QED BY <2>1, <2>2, <1>3
<1>10. Bucket(b, m) \in Used(map) => Owner(hs, fs, map, Bucket(b, m)) = b
  BY <1>6, <1>8, <1>3
<1>11. hash_map_find_pos(hs, fs, b) = Bucket(b, m)
  BY DEF hash_map_find_pos, P
<1>12. Bucket(b, m) \in 0..N - 1
  BY <1>2, <1>8
<1> HIDE DEF m
<1>13. StopsAt(hs, fs, b, m)
  BY <1>9, <1>10, <1>11, <1>12 DEF StopsAt, N
<1> QED BY <1>5, <1>8, <1>13 DEF P, N

(* A block that an entry leads to is found there.                          *)
LEMMA OwnerFound ==
  ASSUME Sized, NEW hs, NEW fs, IndexHolds(hs, fs, map), NEW q \in Used(map),
         NEW b \in Blocks, Owner(hs, fs, map, q) = b
  PROVE  hash_map_find_pos(hs, fs, b) = q
<1> DEFINE N == index_capacity
<1>1. Reached(map, q, b)
  BY DEF IndexHolds
<1>2. PICK k \in 0..N - 1 : StopsAt(hs, fs, b, k)
  BY SearchEnds
<1>3. PICK i \in 0..N - 1 : q = Bucket(b, i) /\ \A j \in 0..i - 1 : Bucket(b, j) \in Used(map)
  BY <1>1 DEF Reached
<1>4. N \in Nat
  BY DEF Sized
<1> HIDE DEF N
<1>5. i \notin 0..k - 1
  BY <1>2, <1>3 DEF StopsAt
<1>6. i = k \/ k \in 0..i - 1
  BY <1>4, <1>5, SMT
<1>7. Bucket(b, k) \in Used(map)
  BY <1>6, <1>3
<1> QED BY <1>2, <1>7 DEF IndexHolds, StopsAt

(* add_index_entry, for an index i that leads to b.                        *)
Added(hs, fs, mp, b, i, pos) ==
  /\ pos \in 0..index_capacity - 1
  /\ Used(mp) = Used(map) \cup {pos}
  /\ mp \in [0..index_capacity - 1 -> Indexes]
  /\ mp[pos] = i /\ \A q \in Used(map) \ {pos} : mp[q] = map[q]
  /\ \A q \in Used(map) \ {pos} : Owner(hs, fs, map, q) # b
  /\ pos \in Used(map) => Owner(hs, fs, map, pos) = b
  /\ FoundHeader(hs, fs, b).hash = b <=> pos \in Used(map)
  /\ IndexHolds(hs, fs, mp)

LEMMA AddEntry ==
  ASSUME Sized, NEW hs, NEW fs, IndexHolds(hs, fs, map), map \in [0..index_capacity - 1 -> Indexes],
         NEW b \in Blocks \ {Genesis}, NEW i \in Indexes, ~is_empty(i),
         get_disk_header(hs, fs, i).hash = b,
         NEW pos, pos = hash_map_find_pos(hs, fs, b),
         NEW mp, mp = [map EXCEPT ![pos] = i],
         Used(map) \cup {pos} # 0..index_capacity - 1
  PROVE  Added(hs, fs, mp, b, i, pos)
<1> DEFINE N == index_capacity
<1>1. PICK k \in 0..N - 1 : StopsAt(hs, fs, b, k)
  BY SearchEnds
<1>2. /\ pos = Bucket(b, k) /\ pos \in 0..N - 1
      /\ pos \in Used(map) => Owner(hs, fs, map, pos) = b
      /\ \A j \in 0..k - 1 : Bucket(b, j) \in Used(map)
  BY <1>1 DEF StopsAt
<1>3. /\ DOMAIN map = 0..N - 1 /\ mp \in [0..N - 1 -> Indexes]
      /\ mp[pos] = i /\ \A q \in (0..N - 1) \ {pos} : mp[q] = map[q]
  BY <1>2
<1>4. Used(mp) = Used(map) \cup {pos}
  BY <1>2, <1>3 DEF Used
<1>5. \A q \in Used(map) \ {pos} : mp[q] = map[q]
  BY <1>3 DEF Used
<1>6. ASSUME NEW q \in Used(map), Owner(hs, fs, map, q) = b PROVE q = pos
  <2>1. hash_map_find_pos(hs, fs, b) = q
    BY ONLY Sized, IndexHolds(hs, fs, map), q \in Used(map), b \in Blocks \ {Genesis}, <1>6, OwnerFound
  <2> QED BY <2>1
<1>7. /\ Owner(hs, fs, mp, pos) = b
      /\ \A q \in Used(map) \ {pos} : Owner(hs, fs, mp, q) = Owner(hs, fs, map, q)
  BY <1>3, <1>5 DEF Owner
<1>8. FoundHeader(hs, fs, b).hash = b <=> pos \in Used(map)
  <2>1. FoundHeader(hs, fs, b).hash = Owner(hs, fs, map, pos)
    BY SearchEnds DEF FoundHeader, Owner
  <2>2. ASSUME pos \notin Used(map) PROVE Owner(hs, fs, map, pos) = Genesis
    BY <2>2, <1>2 DEF Used, Owner, is_empty, get_disk_header, MainIndex, IndexHolds
  <2> QED BY <2>1, <2>2, <1>2
<1>9. ASSUME NEW q \in Used(mp)
      PROVE  Owner(hs, fs, mp, q) \in Blocks \ {Genesis} /\ Reached(mp, q, Owner(hs, fs, mp, q))
  <2>1. CASE q = pos
    <3>1. Reached(mp, q, b)
      BY <2>1, <1>2, <1>4 DEF Reached
    <3> QED BY <3>1, <2>1, <1>7
  <2>2. CASE q # pos
    <3>1. q \in Used(map) /\ Owner(hs, fs, mp, q) = Owner(hs, fs, map, q)
      BY <2>2, <1>4, <1>7
    <3>2. Owner(hs, fs, map, q) \in Blocks \ {Genesis} /\ Reached(map, q, Owner(hs, fs, map, q))
      BY <3>1 DEF IndexHolds
    <3>3. Reached(mp, q, Owner(hs, fs, map, q))
      BY <3>2, <1>4 DEF Reached
    <3> QED BY <3>1, <3>2, <3>3
  <2> QED BY <2>1, <2>2
<1>10. ASSUME NEW q \in Used(mp), NEW r \in Used(mp), Owner(hs, fs, mp, q) = Owner(hs, fs, mp, r)
       PROVE  q = r
  <2>1. CASE q = pos
    BY <2>1, <1>4, <1>6, <1>7, <1>10
  <2>2. CASE r = pos
    BY <2>2, <1>4, <1>6, <1>7, <1>10
  <2>3. CASE q # pos /\ r # pos
    BY <2>3, <1>4, <1>7, <1>10 DEF IndexHolds
  <2> QED BY <2>1, <2>2, <2>3
<1>11. IndexHolds(hs, fs, mp)
  BY <1>4, <1>9, <1>10 DEF IndexHolds
<1> QED BY <1>2, <1>3, <1>4, <1>5, <1>6, <1>8, <1>11 DEF Added
-----------------------------------------------------------------------------
(* A slot of the headers file that is written for b is in use for no other *)
(* block.                                                                  *)
Alone(b, status) ==
  status \in MainStatus =>
    \A q \in Used(map) : map[q].file = "headers" /\ map[q].pos = Height[b]
                           => Owner(headers, forks, map, q) = b

SaveWrites(b, status, hs, fs) ==
  /\ hs = IF status \in MainStatus /\ Height[b] \in DOMAIN headers
          THEN WithHeader(b, status) ELSE headers
  /\ fs = IF status \in ForkStatus /\ fork_count \in DOMAIN forks
          THEN WithFork(b, status) ELSE forks

(* What the write of a slot leaves alone, before the index is changed.     *)
Written(b, status, hs, fs) ==
  /\ FilesType(hs, fs, map) /\ SlotsHold(hs, fs) /\ IndexHolds(hs, fs, map)
  /\ \A q \in Used(map) :
       /\ Owner(hs, fs, map, q) = Owner(headers, forks, map, q)
       /\ \/ StatusAt(hs, fs, map, q) = StatusAt(headers, forks, map, q)
          \/ Owner(hs, fs, map, q) = b /\ StatusAt(hs, fs, map, q) = status

LEMMA SlotWritten ==
  ASSUME Sized, FilesHold(headers, forks, map, fork_count, occupancy, told),
         NEW b \in Blocks \ {Genesis}, NEW status \in MainStatus \cup ForkStatus,
         NEW hs, NEW fs, SaveWrites(b, status, hs, fs), Alone(b, status)
  PROVE  Written(b, status, hs, fs)
<1> DEFINE H == headers_file_size
           F == fork_file_size
<1>1. /\ headers \in [0..H - 1 -> Slots] /\ forks \in [0..F - 1 -> Slots]
      /\ map \in [0..index_capacity - 1 -> Indexes]
      /\ 0 \in 0..H - 1 /\ Height[b] # 0 /\ fork_count \in Nat
  <2>1. H \in Nat \ {0} => 0 \in 0..H - 1
    BY SMT
  <2> QED BY <2>1, Tree DEF FilesHold, FilesType, Sized
<1>2. Slot(b, status) \in Slots /\ Slot(b, status).hash = b /\ Slot(b, status).status = status
  BY DEF Slot, Slots, Statuses
<1>3. /\ hs \in [0..H - 1 -> Slots]
      /\ \A h \in 0..H - 1 : hs[h] = headers[h] \/ (h = Height[b] /\ hs[h] = Slot(b, status) /\ status \in MainStatus)
  <2>1. CASE status \in MainStatus /\ Height[b] \in DOMAIN headers
    BY <2>1, <1>1, <1>2 DEF SaveWrites, WithHeader
  <2>2. CASE ~(status \in MainStatus /\ Height[b] \in DOMAIN headers)
    BY <2>2, <1>1 DEF SaveWrites
  <2> QED BY <2>1, <2>2
<1>4. /\ fs \in [0..F - 1 -> Slots]
      /\ \A i \in 0..F - 1 : fs[i] = forks[i] \/ (i = fork_count /\ fs[i] = Slot(b, status) /\ status \in ForkStatus)
  <2>1. CASE status \in ForkStatus /\ fork_count \in DOMAIN forks
    BY <2>1, <1>1, <1>2 DEF SaveWrites, WithFork
  <2>2. CASE ~(status \in ForkStatus /\ fork_count \in DOMAIN forks)
    BY <2>2, <1>1 DEF SaveWrites
  <2> QED BY <2>1, <2>2
<1>5. FilesType(hs, fs, map)
  BY <1>1, <1>3, <1>4 DEF FilesType
<1>6. SlotsHold(headers, forks) /\ hs[0] = headers[0]
  BY <1>1, <1>3 DEF FilesHold
<1>7. SlotsHold(hs, fs)
  <2>1. ASSUME NEW h \in 0..H - 1, hs[h].hash \in Blocks
        PROVE  Height[hs[h].hash] = h /\ hs[h].status \in MainStatus
    <3>1. CASE hs[h] = headers[h]
      BY <3>1, <2>1, <1>6 DEF SlotsHold
    <3>2. CASE h = Height[b] /\ hs[h] = Slot(b, status) /\ status \in MainStatus
      BY <3>2, <1>2
    <3> QED BY <3>1, <3>2, <1>3
  <2>2. ASSUME NEW i \in 0..F - 1, fs[i].hash \in Blocks PROVE fs[i].status \in ForkStatus
    <3>1. CASE fs[i] = forks[i]
      BY <3>1, <2>2, <1>6 DEF SlotsHold
    <3>2. CASE fs[i] = Slot(b, status) /\ status \in ForkStatus
      BY <3>2, <1>2
    <3> QED BY <3>1, <3>2, <1>4
  <2>3. hs[0].hash = Genesis /\ hs[0].status = "FullyValid"
    BY <1>6 DEF SlotsHold
  <2> QED BY <2>1, <2>2, <2>3 DEF SlotsHold
<1>8. ASSUME NEW q \in Used(map)
      PROVE  /\ Owner(hs, fs, map, q) = Owner(headers, forks, map, q)
             /\ \/ StatusAt(hs, fs, map, q) = StatusAt(headers, forks, map, q)
                \/ Owner(hs, fs, map, q) = b /\ StatusAt(hs, fs, map, q) = status
  <2> DEFINE i == map[q]
  <2>1. i \in Indexes /\ i.file \in {"headers", "forks"} /\ i.pos \in Nat
    BY <1>1 DEF Used, Indexes
  <2>2. Owner(headers, forks, map, q) \in Blocks
    BY DEF FilesHold, IndexHolds
  <2>3. CASE i.file = "headers"
    <3>1. i.pos \in 0..H - 1
      BY <2>2, <2>3, <1>1, Tree DEF Owner, get_disk_header, Beyond, Slot
    <3>2. get_disk_header(headers, forks, i) = headers[i.pos] /\ get_disk_header(hs, fs, i) = hs[i.pos]
      BY <3>1, <2>3, <1>1, <1>3 DEF get_disk_header
    <3>3. CASE hs[i.pos] = headers[i.pos]
      BY <3>2, <3>3 DEF Owner, StatusAt
    <3>4. CASE i.pos = Height[b] /\ hs[i.pos] = Slot(b, status) /\ status \in MainStatus
      <4>1. Owner(headers, forks, map, q) = b
        BY <3>4, <2>3 DEF Alone
      <4> QED BY <4>1, <3>2, <3>4, <1>2 DEF Owner, StatusAt
    <3> QED BY <3>1, <3>3, <3>4, <1>3
  <2>4. CASE i.file = "forks"
    <3>1. i.pos \in 0..F - 1 /\ i.pos < fork_count
      BY <2>2, <2>4, <1>1, Tree DEF Owner, get_disk_header, Beyond, Slot, FilesHold, EntriesHold
    <3>2. i.pos # fork_count
      BY <3>1, <1>1, SMT
    <3>3. hs[0] = headers[0] /\ fs[i.pos] = forks[i.pos]
      BY <3>1, <3>2, <1>4, <1>6
    <3>4. get_disk_header(headers, forks, i) = forks[i.pos] /\ get_disk_header(hs, fs, i) = fs[i.pos]
      BY <3>1, <2>4, <1>1, <1>4 DEF get_disk_header
    <3> QED BY <3>3, <3>4 DEF Owner, StatusAt
  <2> QED BY <2>1, <2>3, <2>4
<1>9. get_disk_header(hs, fs, MainIndex(0)).hash = Genesis
  BY <1>1, <1>3, <1>7 DEF SlotsHold, get_disk_header, MainIndex
<1>10. IndexHolds(hs, fs, map)
  BY <1>8, <1>9 DEF IndexHolds, FilesHold
<1> QED BY <1>5, <1>7, <1>8, <1>10 DEF Written

LEMMA IndexIs ==
  /\ \A p \in Nat \ {0} : /\ MainIndex(p) \in Indexes /\ ~is_empty(MainIndex(p))
                          /\ MainIndex(p).file = "headers" /\ MainIndex(p).pos = p
  /\ \A p \in Nat : /\ ForkIndex(p) \in Indexes /\ ~is_empty(ForkIndex(p))
                    /\ ForkIndex(p).file = "forks" /\ ForkIndex(p).pos = p
BY SMT DEF MainIndex, ForkIndex, Indexes, is_empty

LEMMA SlotIs ==
  \A b, s : Slot(b, s).hash = b /\ Slot(b, s).status = s
BY DEF Slot

LEMMA Disjoint ==
  /\ MainStatus \cap ForkStatus = {}
  /\ Absent \notin MainStatus \cup ForkStatus
  /\ \A e \in Errors : e \notin MainStatus \cup ForkStatus \cup {Absent}
  /\ MainStatus \cup ForkStatus \cup {Absent} \subseteq Statuses
BY DEF MainStatus, ForkStatus, Absent, Errors, Statuses

LEMMA UsedFinite ==
  ASSUME Sized, NEW mp
  PROVE  /\ IsFiniteSet(Used(mp)) /\ Cardinality(Used(mp)) \in Nat
         /\ IsFiniteSet(0..index_capacity - 1) /\ Cardinality(0..index_capacity - 1) = index_capacity
<1> DEFINE N == index_capacity
<1>1. N \in Nat \ {0}
  BY DEF Sized
<1> HIDE DEF N
<1>2. 0 \in Int /\ N - 1 \in Int /\ ~(0 > N - 1) /\ N - 1 - 0 + 1 = N
  BY <1>1, SMT
<1>3. IsFiniteSet(0..N - 1) /\ Cardinality(0..N - 1) = N
  BY <1>2, FS_Interval
<1>4. Used(mp) \in SUBSET (0..N - 1)
  BY DEF Used, N
<1> QED BY <1>3, <1>4, FS_Subset, FS_CardinalityType DEF N

(* Saving a header, with room for it and without.                          *)
LEMMA SaveFiles ==
  ASSUME Sized, FilesHold(headers, forks, map, fork_count, occupancy, told),
         told \in [Blocks -> SUBSET Statuses],
         NEW b \in Blocks \ {Genesis}, NEW status \in MainStatus \cup ForkStatus,
         Alone(b, status), Save(b, status)
  PROVE  /\ FilesHold(headers', forks', map', fork_count', occupancy', told')
         /\ told' \in [Blocks -> SUBSET Statuses]
         /\ refused' = TRUE \/ (refused' = refused /\ told' = [told EXCEPT ![b] = {status}])
<1> DEFINE N == index_capacity
<1>1. SaveWrites(b, status, headers', forks')
  BY DEF Save, SaveOr, Write, SaveWrites
<1>2. Written(b, status, headers', forks')
  BY <1>1, SlotWritten
<1>3. status \in Statuses /\ EntriesHold(headers, forks, map, fork_count, told)
  BY Disjoint DEF FilesHold
<1>4. \A q \in Used(map) : Owner(headers, forks, map, q) \in Blocks \ {Genesis}
  BY DEF FilesHold, IndexHolds
<1>5. CASE Refused(b, status, StorageError(b, status), BlockIndexError(b, status))
  <2>1. /\ map' = map /\ occupancy' = occupancy /\ fork_count' = fork_count /\ refused' = TRUE
        /\ told' = [told EXCEPT ![b] = told[b] \cup {status}]
    BY <1>5 DEF Refused
  <2>2. /\ \A c \in Blocks : told[c] \subseteq told'[c]
        /\ status \in told'[b] /\ told' \in [Blocks -> SUBSET Statuses]
    BY <2>1, <1>3
  <2>3. EntriesHold(headers', forks', map, fork_count, told')
    <3>1. \A q \in Used(map) : StatusAt(headers', forks', map, q) \in told'[Owner(headers', forks', map, q)]
      BY <2>2, <1>2, <1>3, <1>4 DEF EntriesHold, Written
    <3>2. ASSUME NEW c \in Blocks \ {Genesis}, \A q \in Used(map) : Owner(headers', forks', map, q) # c
          PROVE  Absent \in told'[c]
      BY <3>2, <2>2, <1>2, <1>3 DEF EntriesHold, Written
    <3>3. "FullyValid" \in told'[Genesis]
      BY <2>2, <1>3, Tree DEF EntriesHold
    <3> QED BY <3>1, <3>2, <3>3, <1>3 DEF EntriesHold
  <2> QED BY <2>1, <2>2, <2>3, <1>2 DEF FilesHold, Written
<1>6. CASE /\ StorageError(b, status) = "none" /\ BlockIndexError(b, status) = "none"
           /\ IndexWritten(b, status)
  <2> DEFINE i == IF status \in MainStatus THEN MainIndex(Height[b]) ELSE ForkIndex(fork_count)
             pos == hash_map_find_pos(headers', forks', b)
  <2>1. /\ ~(occupancy + 1 >= index_capacity)
        /\ status \in MainStatus => Height[b] \in DOMAIN headers
        /\ status \in ForkStatus => fork_count \in DOMAIN forks
    BY <1>6, Disjoint DEF StorageError, BlockIndexError, IndexError
  <2>2. /\ map' = [map EXCEPT ![pos] = i]
        /\ occupancy' = IF FoundHeader(headers', forks', b).hash = b THEN occupancy ELSE occupancy + 1
        /\ fork_count' = IF status \in ForkStatus THEN fork_count + 1 ELSE fork_count
        /\ told' = [told EXCEPT ![b] = {status}] /\ refused' = refused
    BY <1>6 DEF IndexWritten, add_index_entry
  <2>3. /\ i \in Indexes /\ ~is_empty(i)
        /\ get_disk_header(headers', forks', i).hash = b
        /\ get_disk_header(headers', forks', i).status = status
        /\ i.file = "forks" => status \in ForkStatus /\ i.pos = fork_count
    <3>1. /\ Height[b] \in Nat \ {0} /\ fork_count \in Nat
          /\ headers \in [0..headers_file_size - 1 -> Slots] /\ forks \in [0..fork_file_size - 1 -> Slots]
      BY Tree DEF FilesHold, FilesType
    <3>2. CASE status \in MainStatus
      <4>1. headers' = WithHeader(b, status) /\ i = MainIndex(Height[b])
        BY <3>2, <2>1, <1>1 DEF SaveWrites
      <4> HIDE DEF i
      <4>2. Height[b] \in DOMAIN headers' /\ headers'[Height[b]] = Slot(b, status)
        BY <4>1, <2>1, <3>1, <3>2 DEF WithHeader
      <4>3. i.file = "headers" /\ i.pos = Height[b] /\ i \in Indexes /\ ~is_empty(i)
        BY <4>1, <3>1, IndexIs
      <4>4. get_disk_header(headers', forks', i) = Slot(b, status)
        BY <4>2, <4>3 DEF get_disk_header
      <4>5. Slot(b, status).hash = b /\ Slot(b, status).status = status
        BY SlotIs
      <4> QED BY <4>3, <4>4, <4>5
    <3>3. CASE status \in ForkStatus
      <4>1. forks' = WithFork(b, status) /\ i = ForkIndex(fork_count)
        BY <3>3, <2>1, <1>1, Disjoint DEF SaveWrites
      <4> HIDE DEF i
      <4>2. fork_count \in DOMAIN forks' /\ forks'[fork_count] = Slot(b, status)
        BY <4>1, <2>1, <3>1, <3>3 DEF WithFork
      <4>3. i.file = "forks" /\ i.pos = fork_count /\ i \in Indexes /\ ~is_empty(i)
        BY <4>1, <3>1, IndexIs
      <4>4. get_disk_header(headers', forks', i) = Slot(b, status)
        BY <4>2, <4>3 DEF get_disk_header
      <4>5. Slot(b, status).hash = b /\ Slot(b, status).status = status
        BY SlotIs
      <4> QED BY <4>3, <4>4, <4>5, <3>3
    <3> QED BY <3>2, <3>3
  <2>4. /\ occupancy = Cardinality(Used(map)) /\ occupancy \in Nat /\ IsFiniteSet(Used(map))
        /\ N \in Nat /\ Cardinality(0..N - 1) = N
    BY UsedFinite DEF FilesHold, Sized
  <2> HIDE DEF pos, i
  <2>5. /\ IsFiniteSet(Used(map) \cup {pos})
        /\ Cardinality(Used(map) \cup {pos}) = IF pos \in Used(map) THEN occupancy ELSE occupancy + 1
    BY <2>4, FS_AddElement
  <2>6. Used(map) \cup {pos} # 0..N - 1
    <3>1. occupancy # N /\ occupancy + 1 # N
      BY <2>1, <2>4, SMT
    <3> QED BY <3>1, <2>4, <2>5
  <2>7. Added(headers', forks', map', b, i, pos)
    <3>1. map \in [0..N - 1 -> Indexes] /\ IndexHolds(headers', forks', map)
      BY <1>2 DEF FilesHold, FilesType, Written
    <3> QED BY <3>1, <2>2, <2>3, <2>6, AddEntry DEF pos
  <2>8. FilesType(headers', forks', map')
    BY <2>7, <1>2 DEF FilesType, Added, Written
  <2>9. occupancy' = Cardinality(Used(map'))
    BY <2>2, <2>5, <2>7 DEF Added
  <2>10. fork_count' \in Nat /\ fork_count' >= fork_count /\ fork_count \in Nat
         /\ (status \in ForkStatus => fork_count < fork_count')
    <3>1. fork_count \in Nat
      BY DEF FilesHold
    <3>2. CASE status \in ForkStatus
      BY <3>1, <3>2, <2>2, SMT
    <3>3. CASE status \notin ForkStatus
      BY <3>1, <3>3, <2>2, SMT
    <3> QED BY <3>1, <3>2, <3>3
  <2>11. /\ told'[b] = {status} /\ \A c \in Blocks \ {b} : told'[c] = told[c]
         /\ told' \in [Blocks -> SUBSET Statuses]
    BY <2>2, <1>3
  <2>12. EntriesHold(headers', forks', map', fork_count', told')
    <3>1. ASSUME NEW q \in Used(map')
          PROVE  /\ map'[q].file = "forks" => map'[q].pos < fork_count'
                 /\ StatusAt(headers', forks', map', q) \in told'[Owner(headers', forks', map', q)]
      <4>1. CASE q = pos
        <5>1. map'[q] = i
          BY <4>1, <2>7 DEF Added
        <5>2. StatusAt(headers', forks', map', q) = status /\ Owner(headers', forks', map', q) = b
          BY <5>1, <2>3 DEF StatusAt, Owner
        <5> QED BY <5>1, <5>2, <2>3, <2>10, <2>11
      <4>2. CASE q # pos
        <5>1. q \in Used(map) /\ map'[q] = map[q]
          BY <4>2, <2>7 DEF Added
        <5>2. /\ StatusAt(headers', forks', map', q) = StatusAt(headers', forks', map, q)
              /\ Owner(headers', forks', map', q) = Owner(headers', forks', map, q)
              /\ Owner(headers', forks', map, q) # b
          BY <5>1, <4>2, <2>7 DEF StatusAt, Owner, Added
        <5>3. /\ StatusAt(headers', forks', map, q) = StatusAt(headers, forks, map, q)
              /\ Owner(headers', forks', map, q) = Owner(headers, forks, map, q)
          BY <5>1, <5>2, <1>2 DEF Written
        <5>4. told'[Owner(headers, forks, map, q)] = told[Owner(headers, forks, map, q)]
          BY <5>1, <5>2, <5>3, <1>4, <2>11
        <5>5. StatusAt(headers, forks, map, q) \in told[Owner(headers, forks, map, q)]
          BY <5>1, <1>3 DEF EntriesHold
        <5>6. map[q].file = "forks" => map[q].pos < fork_count'
          <6>1. map[q].file = "forks" => map[q].pos < fork_count
            BY <5>1, <1>3 DEF EntriesHold
          <6>2. map[q].pos \in Nat
            BY <5>1 DEF FilesHold, FilesType, Used, Indexes
          <6> QED BY <6>1, <6>2, <2>10, SMT
        <5> QED BY <5>1, <5>2, <5>3, <5>4, <5>5, <5>6
      <4> QED BY <4>1, <4>2
    <3>2. ASSUME NEW c \in Blocks \ {Genesis}, \A q \in Used(map') : Owner(headers', forks', map', q) # c
          PROVE  Absent \in told'[c]
      <4>1. Owner(headers', forks', map', pos) = b
        BY <2>3, <2>7 DEF Owner, Added
      <4>2. c # b
        BY <4>1, <3>2, <2>7 DEF Added
      <4>3. ASSUME NEW q \in Used(map) PROVE Owner(headers, forks, map, q) # c
        <5>1. CASE q = pos
          <6>1. Owner(headers', forks', map, q) = b
            BY <5>1, <4>3, <2>7 DEF Added
          <6> QED BY <6>1, <4>2, <4>3, <1>2 DEF Written
        <5>2. CASE q # pos
          <6>1. Owner(headers', forks', map', q) = Owner(headers', forks', map, q)
            BY <5>2, <4>3, <2>7 DEF Owner, Added
          <6> QED BY <6>1, <4>3, <3>2, <2>7, <1>2 DEF Added, Written
        <5> QED BY <5>1, <5>2
      <4> QED BY <4>2, <4>3, <2>11, <1>3 DEF EntriesHold
    <3>3. "FullyValid" \in told'[Genesis]
      BY <2>11, <1>3, Tree DEF EntriesHold
    <3> QED BY <3>1, <3>2, <3>3 DEF EntriesHold
  <2> QED BY <1>2, <2>2, <2>7, <2>8, <2>9, <2>10, <2>11, <2>12 DEF FilesHold, Added, Written
<1> QED BY <1>5, <1>6 DEF Save, SaveOr
-----------------------------------------------------------------------------
(* What an entry of the index leads to.                                    *)
LEMMA EntryIs ==
  ASSUME Sized, FilesHold(headers, forks, map, fork_count, occupancy, told), NEW q \in Used(map)
  PROVE  /\ Owner(headers, forks, map, q) \in Blocks \ {Genesis}
         /\ StatusAt(headers, forks, map, q) \in MainStatus \cup ForkStatus
         /\ StatusAt(headers, forks, map, q) \in told[Owner(headers, forks, map, q)]
         /\ StatusAt(headers, forks, map, q) \in MainStatus <=> map[q].file = "headers"
         /\ map[q].file = "headers" => /\ map[q].pos = Height[Owner(headers, forks, map, q)]
                                       /\ map[q].pos \in DOMAIN headers
                                       /\ headers[map[q].pos].hash = Owner(headers, forks, map, q)
<1> DEFINE i == map[q]
           H == headers_file_size
           F == fork_file_size
<1>1. i \in Indexes /\ i.file \in {"headers", "forks"} /\ i.pos \in Nat
  BY DEF Used, Indexes, FilesHold, FilesType
<1>2. /\ Owner(headers, forks, map, q) \in Blocks \ {Genesis}
      /\ StatusAt(headers, forks, map, q) \in told[Owner(headers, forks, map, q)]
  BY DEF FilesHold, IndexHolds, EntriesHold
<1>3. DOMAIN headers = 0..H - 1 /\ DOMAIN forks = 0..F - 1
  BY DEF FilesHold, FilesType
<1>4. CASE i.file = "headers"
  <2>1. i.pos \in DOMAIN headers
    BY <1>2, <1>4, Tree DEF Owner, get_disk_header, Beyond, Slot
  <2>2. Owner(headers, forks, map, q) = headers[i.pos].hash /\ StatusAt(headers, forks, map, q) = headers[i.pos].status
    BY <2>1, <1>4 DEF Owner, StatusAt, get_disk_header
  <2>3. Height[headers[i.pos].hash] = i.pos /\ headers[i.pos].status \in MainStatus
    BY <2>1, <2>2, <1>2, <1>3 DEF FilesHold, SlotsHold
  <2> QED BY <2>1, <2>2, <2>3, <1>2, <1>4
<1>5. CASE i.file = "forks"
  <2>1. i.pos \in DOMAIN forks
    BY <1>2, <1>5, Tree DEF Owner, get_disk_header, Beyond, Slot
  <2>2. Owner(headers, forks, map, q) = forks[i.pos].hash /\ StatusAt(headers, forks, map, q) = forks[i.pos].status
    BY <2>1, <1>5 DEF Owner, StatusAt, get_disk_header
  <2>3. forks[i.pos].status \in ForkStatus
    BY <2>1, <2>2, <1>2, <1>3 DEF FilesHold, SlotsHold
  <2> QED BY <2>2, <2>3, <1>2, <1>5, Disjoint
<1> QED BY <1>1, <1>4, <1>5

(* get_header_by_hash finds what was saved last.                           *)
LEMMA Lookup ==
  ASSUME Sized, FilesHold(headers, forks, map, fork_count, occupancy, told), NEW b \in Blocks
  PROVE  /\ get_header_by_hash(b) \in told[b]
         /\ get_header_by_hash(b) \in MainStatus \cup ForkStatus \cup {Absent}
         /\ b # Genesis => (get_header_by_hash(b) # Absent
                              <=> \E q \in Used(map) : Owner(headers, forks, map, q) = b)
<1>1. IndexHolds(headers, forks, map)
  BY DEF FilesHold
<1>2. PICK k \in 0..index_capacity - 1 : StopsAt(headers, forks, b, k)
  BY <1>1, SearchEnds
<1> DEFINE pos == hash_map_find_pos(headers, forks, b)
<1>3. pos \in 0..index_capacity - 1 /\ (pos \in Used(map) => Owner(headers, forks, map, pos) = b)
  BY <1>2 DEF StopsAt
<1>4. FoundHeader(headers, forks, b) = get_disk_header(headers, forks, map[pos])
  BY <1>1, SearchEnds DEF FoundHeader
<1>5. get_header_by_hash(b) = IF Owner(headers, forks, map, pos) \in {b, NoBlock}
                              THEN StatusAt(headers, forks, map, pos) ELSE Absent
  BY <1>4 DEF get_header_by_hash, Owner, StatusAt
<1>6. ASSUME NEW q \in Used(map), Owner(headers, forks, map, q) = b PROVE pos = q
  BY ONLY Sized, <1>1, q \in Used(map), b \in Blocks, <1>6, OwnerFound DEF pos
<1> HIDE DEF pos
<1>7. CASE pos \in Used(map)
  BY <1>3, <1>5, <1>7, EntryIs, Disjoint
<1>8. CASE pos \notin Used(map)
  <2>1. map[pos].file = "headers" /\ map[pos].pos = 0
    BY <1>3, <1>8 DEF Used, is_empty
  <2>2. 0 \in DOMAIN headers /\ headers[0].hash = Genesis /\ headers[0].status = "FullyValid"
    <3>1. headers_file_size \in Nat \ {0} => 0 \in 0..headers_file_size - 1
      BY SMT
    <3> QED BY <3>1 DEF FilesHold, FilesType, SlotsHold, Sized
  <2>3. Owner(headers, forks, map, pos) = Genesis /\ StatusAt(headers, forks, map, pos) = "FullyValid"
    BY <2>1, <2>2 DEF Owner, StatusAt, get_disk_header
  <2>4. CASE b = Genesis
    BY <2>3, <2>4, <1>5 DEF FilesHold, EntriesHold, MainStatus
  <2>5. CASE b # Genesis
    <3>1. get_header_by_hash(b) = Absent
      BY <2>3, <2>5, <1>5, Tree
    <3>2. \A q \in Used(map) : Owner(headers, forks, map, q) # b
      BY <1>6, <1>8
    <3> QED BY <3>1, <3>2, <2>5 DEF FilesHold, EntriesHold
  <2> QED BY <2>4, <2>5
<1> QED BY <1>7, <1>8

(* As long as nothing was refused, readers are told what was saved last.   *)
LEMMA Answers ==
  SInv /\ ~refused => /\ told \in [Blocks -> SUBSET Statuses]
                      /\ \A b \in Blocks : told[b] = {get_header(b)} /\ get_header(b) \in MainStatus \cup ForkStatus \cup {Absent}
<1> SUFFICES ASSUME SInv, ~refused, NEW b \in Blocks
             PROVE  told[b] = {get_header(b)} /\ get_header(b) \in MainStatus \cup ForkStatus \cup {Absent}
  BY DEF SInv
<1>1. ToldHolds(told, cache)
  BY DEF SInv
<1>2. PICK s \in MainStatus \cup ForkStatus \cup {Absent} : told[b] = {s}
  BY <1>1 DEF ToldHolds
<1>3. cache[b] # Absent => told[b] = {cache[b]}
  BY <1>1 DEF ToldHolds
<1>4. get_header_by_hash(b) \in told[b]
  BY Lookup DEF SInv
<1> QED BY <1>2, <1>3, <1>4 DEF get_header

LEMMA AnswersNext ==
  (SInv /\ ~refused => /\ told \in [Blocks -> SUBSET Statuses]
                       /\ \A b \in Blocks : told[b] = {get_header(b)} /\ get_header(b) \in MainStatus \cup ForkStatus \cup {Absent})'
BY Answers, PTL

(* The block that is of the chain at a height has the slot of the height.  *)
LEMMA MainSlot ==
  ASSUME SInv, ~refused, NEW b \in Blocks, told[b] \subseteq MainStatus
  PROVE  Height[b] \in DOMAIN headers /\ headers[Height[b]].hash = b
<1>1. CASE b = Genesis
  <2>1. 0 \in DOMAIN headers /\ headers[0].hash = Genesis
    <3>1. headers_file_size \in Nat \ {0} => 0 \in 0..headers_file_size - 1
      BY SMT
    <3> QED BY <3>1 DEF SInv, FilesHold, FilesType, SlotsHold, Sized
  <2> QED BY <2>1, <1>1, Tree
<1>2. CASE b # Genesis
  <2>1. get_header_by_hash(b) \in told[b]
    BY Lookup DEF SInv
  <2>2. get_header_by_hash(b) # Absent
    BY <2>1, Disjoint
  <2>3. PICK q \in Used(map) : Owner(headers, forks, map, q) = b
    BY <2>2, <1>2, Lookup DEF SInv
  <2>4. StatusAt(headers, forks, map, q) \in MainStatus
    BY <2>3, EntryIs DEF SInv
  <2> QED BY <2>3, <2>4, EntryIs DEF SInv
<1> QED BY <1>1, <1>2

LEMMA AloneIf ==
  ASSUME SInv, ~refused, NEW b \in Blocks \ {Genesis}, NEW status \in MainStatus \cup ForkStatus,
         status \in MainStatus =>
           \A c \in Blocks : told[c] \subseteq MainStatus /\ Height[c] = Height[b] => c = b
  PROVE  Alone(b, status)
<1> SUFFICES ASSUME status \in MainStatus, NEW q \in Used(map),
                    map[q].file = "headers", map[q].pos = Height[b]
             PROVE  Owner(headers, forks, map, q) = b
  BY DEF Alone
<1> DEFINE c == Owner(headers, forks, map, q)
<1>1. /\ c \in Blocks /\ StatusAt(headers, forks, map, q) \in told[c]
      /\ StatusAt(headers, forks, map, q) \in MainStatus /\ Height[c] = Height[b]
  BY EntryIs DEF SInv
<1>2. ToldHolds(told, cache)
  BY DEF SInv
<1> HIDE DEF c
<1>3. PICK s \in MainStatus \cup ForkStatus \cup {Absent} : told[c] = {s}
  BY <1>1, <1>2 DEF ToldHolds
<1>4. c = b
  BY <1>1, <1>3
<1> QED BY <1>4 DEF c
-----------------------------------------------------------------------------
(* Nothing that holds of the files changes with what is given.             *)
LEMMA Carried ==
  ASSUME Sized, UNCHANGED given,
         FilesHold(headers', forks', map', fork_count', occupancy', told')
  PROVE  Sized' /\ FilesHold(headers, forks, map, fork_count, occupancy, told)'
<1>1. /\ hash' = hash /\ index_capacity' = index_capacity
      /\ headers_file_size' = headers_file_size /\ fork_file_size' = fork_file_size
  BY DEF given, index_capacity, headers_file_size, fork_file_size
<1>2. Sized'
  BY <1>1 DEF Sized
<1>3. Used(map)' = Used(map')
  BY <1>1 DEF Used
<1>4. /\ FilesType(headers, forks, map)'
      /\ SlotsHold(headers, forks)'
  BY <1>1 DEF FilesHold, FilesType, SlotsHold
<1>5. \A q, b : Reached(map, q, b)' <=> Reached(map', q, b)
  BY <1>1, <1>3 DEF Reached, Bucket
<1>6. IndexHolds(headers, forks, map)'
  BY <1>1, <1>3, <1>5 DEF FilesHold, IndexHolds, Owner
<1>7. EntriesHold(headers, forks, map, fork_count, told)'
  BY <1>3 DEF FilesHold, EntriesHold, Owner, StatusAt
<1>8. (occupancy = Cardinality(Used(map)) /\ fork_count \in Nat)'
  BY <1>3 DEF FilesHold
<1> QED BY <1>2, <1>4, <1>6, <1>7, <1>8 DEF FilesHold

LEMMA CacheStep ==
  ASSUME cache \in [Blocks -> MainStatus \cup ForkStatus \cup {Absent}],
         NEW b \in Blocks, NEW s \in MainStatus \cup ForkStatus \cup {Absent},
         CacheBecomes([cache EXCEPT ![b] = s])
  PROVE  /\ cache' \in [Blocks -> MainStatus \cup ForkStatus \cup {Absent}]
         /\ \A c \in Blocks : cache'[c] # Absent => cache'[c] = IF c = b THEN s ELSE cache[c]
<1> DEFINE n == [cache EXCEPT ![b] = s]
<1>1. n \in [Blocks -> MainStatus \cup ForkStatus \cup {Absent}]
  OBVIOUS
<1>2. \A c \in Blocks : n[c] = IF c = b THEN s ELSE cache[c]
  OBVIOUS
<1> HIDE DEF n
<1>3. PICK kept \in SUBSET {c \in Blocks : n[c] # Absent} :
        cache' = [c \in Blocks |-> IF c \in kept THEN n[c] ELSE Absent]
  BY DEF CacheBecomes, n
<1>4. \A c \in Blocks : cache'[c] = n[c] \/ cache'[c] = Absent
  BY <1>3
<1>5. cache' \in [Blocks -> MainStatus \cup ForkStatus \cup {Absent}]
  BY <1>1, <1>3
<1> QED BY <1>2, <1>4, <1>5

(* Saving a header keeps the files, the cache and what was told in order,  *)
(* when no other block is of the chain at its height.                      *)
LEMMA SaveStep ==
  ASSUME SInv, ~refused, NEW b \in Blocks \ {Genesis}, NEW status \in MainStatus \cup ForkStatus,
         status \in MainStatus =>
           \A c \in Blocks : told[c] \subseteq MainStatus /\ Height[c] = Height[b] => c = b,
         Save(b, status), UNCHANGED given
  PROVE  SInv' /\ (~refused' => told' = [told EXCEPT ![b] = {status}])
<1>1. Alone(b, status)
  BY AloneIf
<1>2. /\ FilesHold(headers', forks', map', fork_count', occupancy', told')
      /\ told' \in [Blocks -> SUBSET Statuses]
      /\ refused' = TRUE \/ (refused' = refused /\ told' = [told EXCEPT ![b] = {status}])
  BY <1>1, SaveFiles DEF SInv
<1>3. Sized' /\ FilesHold(headers, forks, map, fork_count, occupancy, told)'
  BY <1>2, Carried DEF SInv
<1>4. /\ cache' \in [Blocks -> MainStatus \cup ForkStatus \cup {Absent}]
      /\ \A c \in Blocks : cache'[c] # Absent => cache'[c] = IF c = b THEN status ELSE cache[c]
  BY CacheStep DEF Save, SaveOr, Write, SInv
<1>5. refused' \in BOOLEAN /\ (~refused' => told' = [told EXCEPT ![b] = {status}])
  <2>1. refused \in BOOLEAN
    BY DEF SInv
  <2>2. CASE refused' = TRUE
    BY <2>2
  <2>3. CASE refused' = refused /\ told' = [told EXCEPT ![b] = {status}]
    BY <2>1, <2>3
  <2> QED BY <2>2, <2>3, <1>2
<1>6. ASSUME ~refused' PROVE ToldHolds(told', cache')
  <2>1. ToldHolds(told, cache) /\ told \in [Blocks -> SUBSET Statuses]
    BY DEF SInv
  <2>2. told'[b] = {status} /\ \A c \in Blocks \ {b} : told'[c] = told[c]
    BY <2>1, <1>5, <1>6
  <2>3. ASSUME NEW c \in Blocks
        PROVE  /\ \E s \in MainStatus \cup ForkStatus \cup {Absent} : told'[c] = {s}
               /\ cache'[c] # Absent => told'[c] = {cache'[c]}
    <3>1. CASE c = b
      BY <3>1, <2>2, <1>4
    <3>2. CASE c # b
      <4>1. PICK s \in MainStatus \cup ForkStatus \cup {Absent} : told[c] = {s}
        BY <2>1 DEF ToldHolds
      <4>2. cache[c] # Absent => told[c] = {cache[c]}
        BY <2>1 DEF ToldHolds
      <4> QED BY <4>1, <4>2, <3>2, <2>2, <1>4
    <3> QED BY <3>1, <3>2
  <2> QED BY <2>3 DEF ToldHolds
<1> QED BY <1>2, <1>3, <1>4, <1>5, <1>6 DEF SInv

(* What leaves the files and what was told alone.                          *)
LEMMA KeepStep ==
  ASSUME SInv, UNCHANGED <<store, told, refused, given>>,
         cache' \in [Blocks -> MainStatus \cup ForkStatus \cup {Absent}],
         ~refused => \A b \in Blocks : cache'[b] # Absent => told[b] = {cache'[b]}
  PROVE  SInv'
<1>1. /\ headers' = headers /\ forks' = forks /\ fork_count' = fork_count /\ map' = map
      /\ occupancy' = occupancy /\ told' = told /\ refused' = refused /\ UNCHANGED given
  BY DEF store
<1>2. FilesHold(headers', forks', map', fork_count', occupancy', told')
  BY <1>1 DEF SInv
<1>3. Sized' /\ FilesHold(headers, forks, map, fork_count, occupancy, told)'
  BY <1>1, <1>2, Carried DEF SInv
<1>4. ASSUME ~refused' PROVE ToldHolds(told', cache')
  <2>1. ~refused
    BY <1>1, <1>4, SMT
  <2>2. ToldHolds(told, cache)
    BY <2>1 DEF SInv
  <2> QED BY <2>1, <2>2, <1>1 DEF ToldHolds
<1>5. told' \in [Blocks -> SUBSET Statuses] /\ refused' \in BOOLEAN
  BY <1>1 DEF SInv
<1> QED BY <1>3, <1>4, <1>5 DEF SInv

LEMMA ReadStep ==
  ASSUME SInv, NEW b \in Blocks, GetHeader(b)
  PROVE  SInv'
<1> DEFINE s == get_header_by_hash(b)
<1>1. s \in told[b] /\ s \in MainStatus \cup ForkStatus \cup {Absent}
  BY Lookup DEF SInv
<1>2. CacheBecomes([cache EXCEPT ![b] = s]) /\ UNCHANGED <<store, told, refused, given>>
  BY DEF GetHeader
<1> HIDE DEF s
<1>3. /\ cache' \in [Blocks -> MainStatus \cup ForkStatus \cup {Absent}]
      /\ \A c \in Blocks : cache'[c] # Absent => cache'[c] = IF c = b THEN s ELSE cache[c]
  BY <1>1, <1>2, CacheStep DEF SInv
<1>4. ASSUME ~refused, NEW c \in Blocks, cache'[c] # Absent PROVE told[c] = {cache'[c]}
  <2>1. ToldHolds(told, cache)
    BY <1>4 DEF SInv
  <2>2. PICK t \in MainStatus \cup ForkStatus \cup {Absent} : told[c] = {t}
    BY <2>1 DEF ToldHolds
  <2>3. cache[c] # Absent => told[c] = {cache[c]}
    BY <2>1 DEF ToldHolds
  <2> QED BY <2>2, <2>3, <1>1, <1>3, <1>4
<1> QED BY <1>2, <1>3, <1>4, KeepStep

LEMMA ReopenStep ==
  ASSUME SInv, Reopen
  PROVE  SInv'
<1>1. cache' = [b \in Blocks |-> Absent] /\ UNCHANGED <<store, told, refused, given>>
  BY DEF Reopen
<1>2. cache' \in [Blocks -> MainStatus \cup ForkStatus \cup {Absent}] /\ \A b \in Blocks : cache'[b] = Absent
  BY <1>1
<1> QED BY <1>1, <1>2, KeepStep
-----------------------------------------------------------------------------
(* The operations, and what they have still to do.                         *)
LEMMA NothingIs ==
  /\ \A x : /\ Nothing(x).tip = x /\ Nothing(x).inactive = {}
            /\ Nothing(x).active = {} /\ Nothing(x).invalid = {}
  /\ \A x \in Blocks : Nothing(x) \in Todos
BY SMT DEF Nothing, Todos

LEMMA NothingLeft ==
  ASSUME NEW t \in Todos, t.inactive = {}, t.active = {}, t.invalid = {}
  PROVE  t = Nothing(t.tip)
BY SMT DEF Todos, Nothing

LEMMA IdleIs ==
  ASSUME TInv, Idle, ~refused
  PROVE  \A c \in Blocks : told[c] \subseteq MainStatus <=> c \in Path[best]
<1>1. TodoHolds(told, best, todo)
  BY DEF TInv
<1>2. OnChain(best, todo) = Path[best]
  <2>1. todo.tip = best /\ todo.inactive = {} /\ todo.active = {} /\ todo.invalid = {}
    BY NothingIs DEF Idle
  <2> QED BY <2>1 DEF OnChain
<1> QED BY <1>1, <1>2 DEF TodoHolds

(* An operation that is at its end.                                        *)
LEMMA Ended ==
  ASSUME best' \in Blocks, todo' = Nothing(best'),
         ~refused' => \A c \in Blocks : told'[c] \subseteq MainStatus <=> c \in Path[best']
  PROVE  TInv'
<1>1. /\ todo' \in Todos /\ todo'.tip = best'
      /\ todo'.inactive = {} /\ todo'.active = {} /\ todo'.invalid = {}
  BY NothingIs
<1>2. OnChain(best', todo') = Path[best']
  BY <1>1 DEF OnChain
<1>3. ASSUME ~refused' PROVE TodoHolds(told', best', todo')
  BY <1>1, <1>2, <1>3 DEF TodoHolds
<1> QED BY <1>1, <1>3 DEF TInv

LEMMA ToldIs ==
  ASSUME SInv, NEW b \in Blocks, NEW s, told' = [told EXCEPT ![b] = {s}]
  PROVE  /\ told'[b] = {s} /\ (told'[b] \subseteq MainStatus <=> s \in MainStatus)
         /\ \A c \in Blocks \ {b} : told'[c] = told[c]
BY DEF SInv

LEMMA ExtendStep ==
  ASSUME FInv, NEW b \in Blocks \ {Genesis}, Extend(b)
  PROVE  FInv'
<1>1. /\ SInv /\ TInv /\ ~refused /\ Idle /\ best \in Blocks /\ Parent[b] = best
      /\ Save(b, "HeadersOnly") /\ best' = b /\ todo' = Nothing(b) /\ UNCHANGED given
  BY DEF Extend, Acceptable, FInv, TInv
<1>2. \A c \in Blocks : told[c] \subseteq MainStatus <=> c \in Path[best]
  BY <1>1, IdleIs
<1>3. ASSUME NEW c \in Blocks, told[c] \subseteq MainStatus, Height[c] = Height[b] PROVE FALSE
  <2>1. Height[c] <= Height[best]
    BY <1>1, <1>2, <1>3, OnPath
  <2>2. Height[b] = Height[best] + 1 /\ Height[best] \in Nat
    BY <1>1, Tree
  <2> QED BY <2>1, <2>2, <1>3, SMT
<1>4. "HeadersOnly" \in MainStatus
  BY DEF MainStatus
<1>5. SInv' /\ (~refused' => told' = [told EXCEPT ![b] = {"HeadersOnly"}])
  BY <1>1, <1>3, <1>4, SaveStep
<1>6. ASSUME ~refused', NEW c \in Blocks
      PROVE  told'[c] \subseteq MainStatus <=> c \in Path[b]
  <2>1. Path[b] = Path[best] \cup {b}
    BY <1>1, Tree
  <2>2. (told'[b] \subseteq MainStatus) /\ \A d \in Blocks \ {b} : told'[d] = told[d]
    BY <1>1, <1>4, <1>5, <1>6, ToldIs
  <2> QED BY <2>1, <2>2, <1>2
<1> QED BY <1>1, <1>5, <1>6, Ended DEF FInv

(* What is of the chain stays of it, and nothing else becomes so.          *)
LEMMA SameChain ==
  ASSUME FInv, NEW b \in Blocks \ {Genesis}, NEW s \in MainStatus \cup ForkStatus,
         Idle, ~refused, Save(b, s), UNCHANGED <<best, todo, given>>,
         b \in Path[best] <=> s \in MainStatus
  PROVE  FInv'
<1>1. SInv /\ TInv /\ best \in Blocks /\ todo = Nothing(best) /\ best' = best /\ todo' = todo /\ UNCHANGED given
  BY DEF FInv, TInv, Idle
<1>2. \A c \in Blocks : told[c] \subseteq MainStatus <=> c \in Path[best]
  BY <1>1, IdleIs
<1>3. s \in MainStatus => \A c \in Blocks : told[c] \subseteq MainStatus /\ Height[c] = Height[b] => c = b
  BY <1>1, <1>2, OnPath
<1>4. SInv' /\ (~refused' => told' = [told EXCEPT ![b] = {s}])
  BY <1>1, <1>3, SaveStep
<1>5. ASSUME ~refused', NEW c \in Blocks
      PROVE  told'[c] \subseteq MainStatus <=> c \in Path[best]
  <2>1. /\ told'[b] \subseteq MainStatus <=> s \in MainStatus
        /\ \A d \in Blocks \ {b} : told'[d] = told[d]
    BY <1>1, <1>4, <1>5, ToldIs
  <2> QED BY <2>1, <1>2
<1> QED BY <1>1, <1>4, <1>5, Ended DEF FInv

LEMMA StoreForkStep ==
  ASSUME FInv, NEW b \in Blocks \ {Genesis}, StoreFork(b)
  PROVE  FInv'
<1>1. /\ SInv /\ TInv /\ ~refused /\ Idle /\ get_header(b) = Absent
      /\ Save(b, "InFork") /\ UNCHANGED <<best, todo, given>>
  BY DEF StoreFork, HasBranch, Acceptable, FInv
<1>2. told[b] = {Absent}
  BY <1>1, Answers
<1>3. b \notin Path[best]
  BY <1>1, <1>2, IdleIs, Disjoint
<1>4. "InFork" \in ForkStatus
  BY DEF ForkStatus
<1> QED BY <1>1, <1>3, <1>4, SameChain, Disjoint

LEMMA ConnectStep ==
  ASSUME FInv, NEW b \in Blocks \ {Genesis}, ConnectBlock(b)
  PROVE  FInv'
<1>1. /\ ~refused /\ Idle /\ b \in Path[best]
      /\ Save(b, "FullyValid") /\ UNCHANGED <<best, todo, given>>
  BY DEF ConnectBlock, Processed
<1>2. "FullyValid" \in MainStatus
  BY DEF MainStatus
<1> QED BY <1>1, <1>2, SameChain

LEMMA ParentOnPath ==
  ASSUME NEW b \in Blocks, NEW c \in Path[b], c # Genesis
  PROVE  c \in Blocks \ {Genesis} /\ Parent[c] \in Path[b] /\ (b # Genesis => Parent[c] \in Path[Parent[b]])
<1>1. c \in Blocks \ {Genesis} /\ Path[c] \subseteq Path[b]
  BY OnPath
<1>2. Parent[c] \in Path[c]
  <2>1. Path[c] = Path[Parent[c]] \cup {c} /\ Parent[c] \in Blocks
    BY <1>1, Tree
  <2> QED BY <2>1, OnPath
<1>3. ASSUME b # Genesis PROVE Parent[c] \in Path[Parent[b]]
  <2>1. Path[b] = Path[Parent[b]] \cup {b} /\ Parent[b] \in Blocks
    BY <1>3, Tree
  <2>2. CASE c = b
    BY <2>1, <2>2, OnPath
  <2>3. CASE c \in Path[Parent[b]]
    BY <2>1, <2>3, <1>2, OnPath
  <2> QED BY <2>1, <2>2, <2>3
<1> QED BY <1>1, <1>2, <1>3

(* An operation that has only been decided on.                             *)
LEMMA Decided ==
  ASSUME FInv, Idle, ~refused, UNCHANGED <<store, cache, warnings, told, refused, best, given>>,
         todo' \in Todos,
         OnChain(best, todo') = Path[best],
         todo'.active \subseteq Path[todo'.tip],
         todo'.inactive \cap (Path[todo'.tip] \ todo'.active) = {},
         \A c \in todo'.inactive \cup todo'.active : told[Parent[c]] # {Absent},
         \A h \in todo'.invalid : h > Height[todo'.tip] /\ h <= Height[best],
         todo'.invalid # {} => todo'.inactive = {} /\ todo'.active = {},
         todo'.invalid # {} \/ todo'.active # {}
  PROVE  FInv'
<1>1. SInv /\ TInv /\ best \in Blocks
  BY DEF FInv, TInv
<1>2. UNCHANGED <<store, told, refused, given>> /\ cache' = cache /\ best' = best /\ told' = told
  OBVIOUS
<1>3. SInv'
  <2>1. cache' \in [Blocks -> MainStatus \cup ForkStatus \cup {Absent}]
    BY <1>1, <1>2 DEF SInv
  <2>2. ToldHolds(told, cache)
    BY <1>1 DEF SInv
  <2>3. \A b \in Blocks : cache'[b] # Absent => told[b] = {cache'[b]}
    BY <2>2, <1>2 DEF ToldHolds
  <2> QED BY <1>1, <1>2, <2>1, <2>3, KeepStep
<1>4. \A c \in Blocks : told[c] \subseteq MainStatus <=> c \in OnChain(best, todo')
  BY <1>1, IdleIs
<1>5. TodoHolds(told, best, todo')
  BY <1>4 DEF TodoHolds
<1>6. ~refused'
  BY SMT
<1>7. TInv'
  <2>1. TodoHolds(told', best', todo')
    BY <1>2, <1>5
  <2> QED BY <2>1, <1>1, <1>2, <1>6 DEF TInv
<1> QED BY <1>3, <1>7 DEF FInv

LEMMA ReorgStep ==
  ASSUME FInv, NEW b \in Blocks \ {Genesis}, Reorg(b)
  PROVE  FInv'
<1>1. /\ SInv /\ TInv /\ ~refused /\ Idle /\ best \in Blocks
      /\ \A a \in Path[best] \cup Path[Parent[b]] : Present(a)
      /\ UNCHANGED <<store, cache, warnings, told, refused, best, given>>
  BY DEF Reorg, HasBranch, Acceptable, FInv, TInv
<1>2. PICK f \in Blocks :
        /\ ForkPoint(b, f)
        /\ todo' = [tip |-> b, inactive |-> WalkDown(best, f), active |-> WalkDown(b, f), invalid |-> {}]
  BY DEF Reorg
<1>3. \A c \in Blocks : told[c] \subseteq MainStatus <=> c \in Path[best]
  BY <1>1, IdleIs
<1>4. f \in Path[Parent[b]] /\ get_header(f) \in MainStatus
  BY <1>2 DEF ForkPoint
<1>5. f \in Path[best]
  <2>1. told[f] = {get_header(f)}
    BY <1>1, Answers
  <2>2. told[f] \subseteq MainStatus
    BY <2>1, <1>4
  <2> QED BY <2>2, <1>3
<1>6. Parent[b] \in Blocks /\ Path[b] = Path[Parent[b]] \cup {b}
  BY Tree
<1>7. Path[f] \subseteq Path[best] /\ Path[f] \subseteq Path[b] /\ Genesis \in Path[f]
  BY <1>1, <1>4, <1>5, <1>6, OnPath
<1>8. b \notin Path[f]
  <2>1. ASSUME b \in Path[f] PROVE FALSE
    <3>1. Height[b] <= Height[f] /\ Height[f] <= Height[Parent[b]]
      BY <2>1, <1>4, <1>6, OnPath
    <3>2. Height[b] = Height[Parent[b]] + 1 /\ Height[Parent[b]] \in Nat /\ Height[f] \in Nat
      BY <1>6, Tree
    <3> QED BY <3>1, <3>2, SMT
  <2> QED BY <2>1
<1> DEFINE I == Path[best] \ Path[f]
           A == Path[b] \ Path[f]
<1>9. WalkDown(best, f) = I /\ WalkDown(b, f) = A
  BY <1>4, <1>5, <1>6 DEF WalkDown
<1>10. I \subseteq Blocks \ {Genesis} /\ A \subseteq Blocks \ {Genesis} /\ b \in A
  BY <1>1, <1>7, <1>8, OnPath
<1>11. Path[b] \ A = Path[f]
  BY <1>7
<1>12. (Path[b] \ A) \cup I = Path[best] /\ I \cap (Path[b] \ A) = {} /\ A \subseteq Path[b]
  BY <1>7, <1>11
<1>13. ASSUME NEW c \in I \cup A PROVE told[Parent[c]] # {Absent}
  <2>1. c # Genesis /\ c \in Blocks
    BY <1>10
  <2>2. Parent[c] \in Path[best] \cup Path[Parent[b]]
    BY <2>1, <1>1, ParentOnPath
  <2>3. Parent[c] \in Blocks /\ Present(Parent[c])
    BY <2>1, <2>2, <1>1, Tree
  <2> QED BY <2>3, <1>1, Answers, Disjoint DEF Present
<1> HIDE DEF I, A
<1>14. todo' = [tip |-> b, inactive |-> I, active |-> A, invalid |-> {}]
  BY <1>2, <1>9
<1>15. /\ todo' \in Todos /\ todo'.tip = b /\ todo'.inactive = I
       /\ todo'.active = A /\ todo'.invalid = {}
  BY <1>10, <1>14, SMT DEF Todos
<1>16. OnChain(best, todo') = Path[best]
  BY <1>12, <1>15 DEF OnChain
<1> QED BY <1>1, <1>10, <1>12, <1>13, <1>15, <1>16, Decided

LEMMA InvalidateStep ==
  ASSUME FInv, NEW b \in Blocks \ {Genesis}, InvalidateBlock(b)
  PROVE  FInv'
<1> DEFINE V == Height[b]..Height[best]
<1>1. /\ TInv /\ ~refused /\ Idle /\ best \in Blocks /\ b \in Path[best]
      /\ todo' = [Nothing(Parent[b]) EXCEPT !.invalid = V]
      /\ UNCHANGED <<store, cache, warnings, told, refused, best, given>>
  BY DEF InvalidateBlock, Processed, FInv, TInv
<1>2. /\ Parent[b] \in Blocks /\ Path[b] = Path[Parent[b]] \cup {b} /\ Height[b] = Height[Parent[b]] + 1
      /\ Height[b] \in Nat \ {0} /\ Height[Parent[b]] \in Nat /\ Height[best] \in Nat
  BY <1>1, Tree
<1>3. Height[b] <= Height[best]
  BY <1>1, OnPath
<1>4. V \subseteq Nat \ {0} /\ Height[b] \in V /\ \A h \in V : h > Height[Parent[b]] /\ h <= Height[best]
  BY <1>2, <1>3, SMT
<1>5. \A c \in Path[best] : Height[c] \in V \/ c \in Path[Parent[b]]
  <2>1. ASSUME NEW c \in Path[best], Height[c] \notin V PROVE c \in Path[Parent[b]]
    <3>1. Height[c] \in Nat /\ Height[c] <= Height[best]
      BY <1>1, OnPath, Tree
    <3>2. Height[c] <= Height[b] /\ Height[c] # Height[b]
      BY <3>1, <2>1, <1>2, <1>3, SMT
    <3>3. c \in Path[b]
      BY <3>2, <1>1, OnPath
    <3> QED BY <3>2, <3>3, <1>2
  <2> QED BY <2>1
<1>6. Path[Parent[b]] \subseteq Path[best]
  BY <1>1, <1>2, OnPath
<1> HIDE DEF V
<1>7. /\ todo' \in Todos /\ todo'.tip = Parent[b] /\ todo'.inactive = {}
      /\ todo'.active = {} /\ todo'.invalid = V
  BY <1>1, <1>2, <1>4, SMT DEF Todos, Nothing
<1>8. OnChain(best, todo') = Path[best]
  BY <1>5, <1>6, <1>7 DEF OnChain
<1> QED BY <1>1, <1>4, <1>7, <1>8, Decided

(* An operation that goes on with what is left, or ends when a write was   *)
(* refused.                                                                *)
Left(tl, b, t) ==
  /\ \A c \in Blocks : tl[c] \subseteq MainStatus <=> c \in OnChain(b, t)
  /\ t.active \subseteq Path[t.tip] /\ t.inactive \cap (Path[t.tip] \ t.active) = {}
  /\ \A c \in t.inactive \cup t.active : tl[Parent[c]] # {Absent}
  /\ \A h \in t.invalid : h > Height[t.tip] /\ h <= Height[b]
  /\ t.invalid # {} => t.inactive = {} /\ t.active = {}

LEMMA GoneOn ==
  ASSUME TInv, NEW left, left \in Todos, left.tip = todo.tip,
         todo' = IF ~refused' THEN left ELSE Nothing(best),
         best' = IF ~refused' /\ left = Nothing(todo.tip) THEN todo.tip ELSE best,
         ~refused' => Left(told', best, left)
  PROVE  TInv'
<1>1. best \in Blocks /\ todo.tip \in Blocks
  BY DEF TInv, Todos
<1>2. CASE refused'
  BY <1>1, <1>2, Ended
<1>3. CASE ~refused' /\ left = Nothing(todo.tip)
  <2>1. todo' = Nothing(best') /\ best' = todo.tip
    BY <1>3
  <2>2. left.tip = todo.tip /\ left.inactive = {} /\ left.active = {} /\ left.invalid = {}
    BY <1>3, NothingIs
  <2>3. OnChain(best, left) = Path[todo.tip]
    BY <2>2 DEF OnChain
  <2>4. \A c \in Blocks : told'[c] \subseteq MainStatus <=> c \in Path[best']
    BY <2>1, <2>3, <1>3 DEF Left
  <2> QED BY <2>1, <2>4, <1>1, Ended
<1>4. CASE ~refused' /\ left # Nothing(todo.tip)
  <2>1. todo' = left /\ best' = best
    BY <1>4
  <2>2. ~(left.inactive = {} /\ left.active = {} /\ left.invalid = {})
    BY <1>4, NothingLeft
  <2>3. TodoHolds(told', best, left)
    BY <2>2, <1>4 DEF Left, TodoHolds
  <2>4. TodoHolds(told', best', todo')
    BY <2>1, <2>3
  <2> QED BY <2>1, <2>4, <1>1, <1>4 DEF TInv
<1> QED BY <1>2, <1>3, <1>4

LEMMA MarkInactiveStep ==
  ASSUME FInv, NEW c \in Blocks \ {Genesis}, MarkInactive(c)
  PROVE  FInv'
<1> DEFINE left == [todo EXCEPT !.inactive = @ \ {c}]
<1>1. /\ SInv /\ TInv /\ best \in Blocks /\ todo \in Todos /\ c \in todo.inactive
      /\ Save(c, "InFork") /\ UNCHANGED given
      /\ GoOn(left, ~refused' /\ Present(Parent[c])')
  BY DEF FInv, TInv, MarkInactive, IsHighest
<1>2. ~refused /\ TodoHolds(told, best, todo)
  BY <1>1 DEF TInv
<1>3. "InFork" \in ForkStatus /\ "InFork" \notin MainStatus
  BY DEF ForkStatus, MainStatus
<1>4. SInv' /\ (~refused' => told' = [told EXCEPT ![c] = {"InFork"}])
  BY <1>1, <1>2, <1>3, SaveStep
<1>5. ASSUME ~refused'
      PROVE  /\ ~(told'[c] \subseteq MainStatus) /\ told'[c] # {Absent}
             /\ \A d \in Blocks \ {c} : told'[d] = told[d]
  BY <1>1, <1>3, <1>4, <1>5, ToldIs, Disjoint
<1>6. /\ told[Parent[c]] # {Absent} /\ todo.invalid = {}
      /\ \A d \in todo.inactive \cup todo.active : told[Parent[d]] # {Absent}
      /\ todo.active \subseteq Path[todo.tip] /\ todo.inactive \cap (Path[todo.tip] \ todo.active) = {}
      /\ \A d \in Blocks : told[d] \subseteq MainStatus <=> d \in OnChain(best, todo)
  BY <1>1, <1>2 DEF TodoHolds
<1>7. ASSUME ~refused' PROVE Present(Parent[c])'
  <2>1. Parent[c] \in Blocks
    BY Tree
  <2>2. told'[Parent[c]] # {Absent}
    BY <2>1, <1>5, <1>6, <1>7
  <2>3. /\ told'[Parent[c]] = {get_header(Parent[c])'}
        /\ get_header(Parent[c])' \in MainStatus \cup ForkStatus \cup {Absent}
    BY <2>1, <1>4, <1>7, AnswersNext
  <2> QED BY <2>2, <2>3 DEF Present
<1>8. /\ left \in Todos /\ left.tip = todo.tip /\ left.inactive = todo.inactive \ {c}
      /\ left.active = todo.active /\ left.invalid = todo.invalid
  BY <1>1, SMT DEF Todos
<1> HIDE DEF left
<1>9. /\ todo' = IF ~refused' THEN left ELSE Nothing(best)
      /\ best' = IF ~refused' /\ left = Nothing(todo.tip) THEN todo.tip ELSE best
  BY <1>1, <1>7 DEF GoOn
<1>10. ASSUME ~refused' PROVE Left(told', best, left)
  <2>1. OnChain(best, left) = OnChain(best, todo) \ {c}
    BY <1>1, <1>6, <1>8 DEF OnChain
  <2>2. \A d \in Blocks : told'[d] \subseteq MainStatus <=> d \in OnChain(best, left)
    BY <2>1, <1>5, <1>6, <1>10
  <2>3. \A d \in left.inactive \cup left.active : told'[Parent[d]] # {Absent}
    <3>1. ASSUME NEW d \in left.inactive \cup left.active PROVE told'[Parent[d]] # {Absent}
      <4>1. d \in Blocks \ {Genesis} /\ told[Parent[d]] # {Absent}
        BY <1>1, <1>6, <1>8 DEF Todos
      <4>2. Parent[d] \in Blocks
        BY <4>1, Tree
      <4> QED BY <4>1, <4>2, <1>5, <1>10
    <3> QED BY <3>1
  <2> QED BY <2>2, <2>3, <1>6, <1>8 DEF Left
<1> QED BY <1>1, <1>4, <1>8, <1>9, <1>10, GoneOn DEF FInv

LEMMA MarkActiveStep ==
  ASSUME FInv, NEW c \in Blocks \ {Genesis}, MarkActive(c)
  PROVE  FInv'
<1> DEFINE left == [todo EXCEPT !.active = @ \ {c}]
<1>1. /\ SInv /\ TInv /\ best \in Blocks /\ todo \in Todos /\ c \in todo.active /\ todo.inactive = {}
      /\ Save(c, "HeadersOnly") /\ UNCHANGED given
      /\ GoOn(left, ~refused' /\ Present(Parent[c])')
  BY DEF FInv, TInv, MarkActive, IsHighest
<1>2. ~refused /\ TodoHolds(told, best, todo)
  BY <1>1 DEF TInv
<1>3. "HeadersOnly" \in MainStatus
  BY DEF MainStatus
<1>4. /\ told[Parent[c]] # {Absent} /\ todo.invalid = {}
      /\ \A d \in todo.inactive \cup todo.active : told[Parent[d]] # {Absent}
      /\ todo.active \subseteq Path[todo.tip]
      /\ \A d \in Blocks : told[d] \subseteq MainStatus <=> d \in OnChain(best, todo)
  BY <1>1, <1>2 DEF TodoHolds
<1>5. todo.tip \in Blocks /\ OnChain(best, todo) = Path[todo.tip] \ todo.active
  BY <1>1, <1>4 DEF OnChain, Todos
<1>6. ASSUME NEW d \in Blocks, told[d] \subseteq MainStatus, Height[d] = Height[c] PROVE d = c
  <2>1. d \in Path[todo.tip] /\ c \in Path[todo.tip]
    BY <1>1, <1>4, <1>5, <1>6
  <2> QED BY <2>1, <1>5, <1>6, OnPath
<1>7. SInv' /\ (~refused' => told' = [told EXCEPT ![c] = {"HeadersOnly"}])
  BY <1>1, <1>2, <1>3, <1>6, SaveStep
<1>8. ASSUME ~refused'
      PROVE  /\ told'[c] \subseteq MainStatus /\ told'[c] # {Absent}
             /\ \A d \in Blocks \ {c} : told'[d] = told[d]
  BY <1>1, <1>3, <1>7, <1>8, ToldIs, Disjoint
<1>9. ASSUME ~refused' PROVE Present(Parent[c])'
  <2>1. Parent[c] \in Blocks
    BY Tree
  <2>2. told'[Parent[c]] # {Absent}
    BY <2>1, <1>4, <1>8, <1>9
  <2>3. /\ told'[Parent[c]] = {get_header(Parent[c])'}
        /\ get_header(Parent[c])' \in MainStatus \cup ForkStatus \cup {Absent}
    BY <2>1, <1>7, <1>9, AnswersNext
  <2> QED BY <2>2, <2>3 DEF Present
<1>10. /\ left \in Todos /\ left.tip = todo.tip /\ left.inactive = {}
       /\ left.active = todo.active \ {c} /\ left.invalid = {}
  BY <1>1, <1>4, SMT DEF Todos
<1> HIDE DEF left
<1>11. /\ todo' = IF ~refused' THEN left ELSE Nothing(best)
       /\ best' = IF ~refused' /\ left = Nothing(todo.tip) THEN todo.tip ELSE best
  BY <1>1, <1>9 DEF GoOn
<1>12. ASSUME ~refused' PROVE Left(told', best, left)
  <2>1. OnChain(best, left) = OnChain(best, todo) \cup {c}
    BY <1>1, <1>4, <1>5, <1>10 DEF OnChain
  <2>2. \A d \in Blocks : told'[d] \subseteq MainStatus <=> d \in OnChain(best, left)
    BY <2>1, <1>4, <1>8, <1>12
  <2>3. \A d \in left.inactive \cup left.active : told'[Parent[d]] # {Absent}
    <3>1. ASSUME NEW d \in left.inactive \cup left.active PROVE told'[Parent[d]] # {Absent}
      <4>1. d \in Blocks \ {Genesis} /\ told[Parent[d]] # {Absent}
        BY <1>1, <1>4, <1>10 DEF Todos
      <4>2. Parent[d] \in Blocks
        BY <4>1, Tree
      <4> QED BY <4>1, <4>2, <1>8, <1>12
    <3> QED BY <3>1
  <2> QED BY <2>2, <2>3, <1>4, <1>10 DEF Left
<1> QED BY <1>1, <1>7, <1>10, <1>11, <1>12, GoneOn DEF FInv

LEMMA MarkInvalidStep ==
  ASSUME FInv, NEW h \in Heights, MarkInvalid(h)
  PROVE  FInv'
<1> DEFINE left == [todo EXCEPT !.invalid = @ \ {h}]
<1>1. SInv /\ TInv /\ best \in Blocks /\ todo \in Todos /\ h \in todo.invalid /\ UNCHANGED given
  BY DEF FInv, TInv, MarkInvalid
<1>2. ~refused /\ TodoHolds(told, best, todo)
  BY <1>1 DEF TInv
<1>3. /\ todo.inactive = {} /\ todo.active = {} /\ todo.tip \in Blocks /\ h \in Nat \ {0}
      /\ \A k \in todo.invalid : k > Height[todo.tip] /\ k <= Height[best]
      /\ \A d \in Blocks : told[d] \subseteq MainStatus <=> d \in OnChain(best, todo)
  BY <1>1, <1>2 DEF TodoHolds, Todos
<1>4. PICK c \in Path[best] : Height[c] = h
  <2>1. h \in 0..Height[best]
    <3>1. h <= Height[best] /\ Height[best] \in Nat
      BY <1>1, <1>3, Tree
    <3> QED BY <3>1, <1>3, SMT
  <2> QED BY <2>1, <1>1, PathHeights
<1>5. c \in Blocks \ {Genesis} /\ c \notin Path[todo.tip]
  <2>1. c \in Blocks /\ c # Genesis
    BY <1>1, <1>3, <1>4, OnPath, Tree
  <2>2. ASSUME c \in Path[todo.tip] PROVE FALSE
    <3>1. Height[c] <= Height[todo.tip] /\ h > Height[todo.tip] /\ Height[todo.tip] \in Nat
      BY <2>2, <1>1, <1>3, OnPath, Tree
    <3> QED BY <3>1, <1>3, <1>4, SMT
  <2> QED BY <2>1, <2>2
<1>6. told[c] \subseteq MainStatus
  BY <1>1, <1>3, <1>4, <1>5 DEF OnChain
<1>7. get_block_hash(h) = c
  BY <1>1, <1>2, <1>4, <1>5, <1>6, MainSlot DEF get_block_hash
<1>8. Present(c)
  <2>1. told[c] = {get_header(c)}
    BY <1>1, <1>2, <1>5, Answers
  <2> QED BY <2>1, <1>6 DEF Present
<1>9. Save(c, "InvalidChain") /\ GoOn(left, ~refused')
  BY <1>5, <1>7, <1>8 DEF MarkInvalid
<1>10. "InvalidChain" \in ForkStatus /\ "InvalidChain" \notin MainStatus
  BY DEF ForkStatus, MainStatus
<1>11. SInv' /\ (~refused' => told' = [told EXCEPT ![c] = {"InvalidChain"}])
  BY <1>1, <1>2, <1>5, <1>9, <1>10, SaveStep
<1>12. ASSUME ~refused'
       PROVE  ~(told'[c] \subseteq MainStatus) /\ \A d \in Blocks \ {c} : told'[d] = told[d]
  BY <1>1, <1>5, <1>10, <1>11, <1>12, ToldIs
<1>13. /\ left \in Todos /\ left.tip = todo.tip /\ left.inactive = {}
       /\ left.active = {} /\ left.invalid = todo.invalid \ {h}
  BY <1>1, <1>3, SMT DEF Todos
<1> HIDE DEF left
<1>14. /\ todo' = IF ~refused' THEN left ELSE Nothing(best)
       /\ best' = IF ~refused' /\ left = Nothing(todo.tip) THEN todo.tip ELSE best
  BY <1>9 DEF GoOn
<1>15. ASSUME ~refused' PROVE Left(told', best, left)
  <2>1. \A d \in Path[best] : Height[d] = h => d = c
    BY <1>1, <1>4, OnPath
  <2>2. OnChain(best, left) = OnChain(best, todo) \ {c}
    BY <2>1, <1>3, <1>4, <1>5, <1>13 DEF OnChain
  <2>3. \A d \in Blocks : told'[d] \subseteq MainStatus <=> d \in OnChain(best, left)
    BY <2>2, <1>3, <1>12, <1>15
  <2> QED BY <2>3, <1>3, <1>13 DEF Left
<1> QED BY <1>1, <1>11, <1>13, <1>14, <1>15, GoneOn DEF FInv
-----------------------------------------------------------------------------
LEMMA CreatedHolds ==
  Init => Sized /\ FilesHold(headers, forks, map, fork_count, occupancy, told)
<1> SUFFICES ASSUME Init PROVE Sized /\ FilesHold(headers, forks, map, fork_count, occupancy, told)
  OBVIOUS
<1> DEFINE H == headers_file_size
           F == fork_file_size
           N == index_capacity
<1>1. Sized
  BY StoreAssumption DEF StoreAssumption, Init, Sized, index_capacity, headers_file_size, fork_file_size
<1>2. /\ headers = [h \in 0..H - 1 |-> IF h = 0 THEN Slot(Genesis, "FullyValid") ELSE Zeros]
      /\ forks = [i \in 0..F - 1 |-> Zeros] /\ fork_count = 0
      /\ map = [i \in 0..N - 1 |-> MainIndex(0)] /\ occupancy = 0
      /\ told = [b \in Blocks |-> {IF b = Genesis THEN "FullyValid" ELSE Absent}]
  BY DEF Init, Created
<1>3. H \in Nat \ {0} /\ N \in Nat \ {0} /\ F \in Nat
  BY <1>1 DEF Sized
<1> HIDE DEF H, N, F
<1>4. 0 \in 0..H - 1 /\ 0 \in 0..N - 1 /\ 0 \in Nat
  BY <1>3, SMT
<1>5. Slot(Genesis, "FullyValid") \in Slots /\ Zeros \in Slots /\ Zeros.hash = NoBlock /\ MainIndex(0) \in Indexes
      /\ is_empty(MainIndex(0))
  <2>1. "FullyValid" \in Statuses /\ "HeaderNotFound" \in Statuses
    BY DEF Statuses, MainStatus, Errors
  <2>2. Slot(Genesis, "FullyValid") \in Slots /\ Zeros \in Slots /\ Zeros.hash = NoBlock
    BY <2>1, Tree DEF Slots, Slot, Zeros
  <2>3. MainIndex(0) \in Indexes /\ is_empty(MainIndex(0))
    BY <1>4 DEF MainIndex, Indexes, is_empty
  <2> QED BY <2>2, <2>3
<1>6. FilesType(headers, forks, map)
  BY <1>2, <1>5 DEF FilesType, H, N, F
<1>7. headers[0] = Slot(Genesis, "FullyValid") /\ \A h \in (0..H - 1) \ {0} : headers[h] = Zeros
  BY <1>2, <1>4
<1>8. \A i \in 0..F - 1 : forks[i] = Zeros
  BY <1>2
<1>9. SlotsHold(headers, forks)
  <2>1. headers[0].hash = Genesis /\ headers[0].status = "FullyValid" /\ "FullyValid" \in MainStatus
    BY <1>7, SlotIs DEF MainStatus
  <2>2. ASSUME NEW h \in 0..H - 1, headers[h].hash \in Blocks
        PROVE  Height[headers[h].hash] = h /\ headers[h].status \in MainStatus
    BY <2>1, <2>2, <1>5, <1>7, Tree
  <2>3. \A i \in 0..F - 1 : forks[i].hash \notin Blocks
    BY <1>5, <1>8, Tree
  <2> QED BY <2>1, <2>2, <2>3 DEF SlotsHold, H, F
<1>10. Used(map) = {}
  BY <1>2, <1>5 DEF Used, N
<1>11. get_disk_header(headers, forks, MainIndex(0)).hash = Genesis
  <2>1. MainIndex(0).file = "headers" /\ MainIndex(0).pos = 0
    BY DEF MainIndex
  <2>2. 0 \in DOMAIN headers
    BY <1>2, <1>4
  <2>3. get_disk_header(headers, forks, MainIndex(0)) = headers[0]
    BY <2>1, <2>2 DEF get_disk_header
  <2> QED BY <2>3, <1>7, SlotIs
<1>12. IndexHolds(headers, forks, map)
  BY <1>4, <1>10, <1>11 DEF IndexHolds, N
<1>13. EntriesHold(headers, forks, map, fork_count, told)
  BY <1>2, <1>10, Tree DEF EntriesHold
<1>14. Cardinality(Used(map)) = 0
  BY <1>10, FS_EmptySet
<1> QED BY <1>1, <1>2, <1>4, <1>6, <1>9, <1>12, <1>13, <1>14 DEF FilesHold

LEMMA InitHolds == Init => FInv
<1> SUFFICES ASSUME Init PROVE FInv
  OBVIOUS
<1>1. /\ cache = [b \in Blocks |-> IF b = Genesis THEN "FullyValid" ELSE Absent]
      /\ told = [b \in Blocks |-> {IF b = Genesis THEN "FullyValid" ELSE Absent}]
      /\ refused = FALSE /\ best = Genesis /\ todo = Nothing(Genesis)
  BY DEF Init, Created
<1>2. "FullyValid" \in MainStatus
  BY DEF MainStatus
<1>3. /\ cache \in [Blocks -> MainStatus \cup ForkStatus \cup {Absent}]
      /\ told \in [Blocks -> SUBSET Statuses]
      /\ ToldHolds(told, cache)
  <2>1. cache \in [Blocks -> MainStatus \cup ForkStatus \cup {Absent}]
    BY <1>1, <1>2
  <2>2. told \in [Blocks -> SUBSET Statuses]
    BY <1>1, <1>2, Disjoint
  <2>3. \A b \in Blocks : told[b] = {cache[b]}
    BY <1>1
  <2> QED BY <2>1, <2>2, <2>3 DEF ToldHolds
<1>4. SInv
  BY <1>1, <1>3, CreatedHolds DEF SInv
<1>5. best \in Blocks /\ todo \in Todos
  BY <1>1, NothingIs, Tree
<1>6. todo.tip = best /\ todo.inactive = {} /\ todo.active = {} /\ todo.invalid = {}
  BY <1>1, NothingIs
<1>7. OnChain(best, todo) = {Genesis}
  BY <1>1, <1>6, Tree DEF OnChain
<1>8. \A c \in Blocks : told[c] \subseteq MainStatus <=> c \in OnChain(best, todo)
  <2>1. ASSUME NEW c \in Blocks PROVE told[c] \subseteq MainStatus <=> c = Genesis
    BY <1>1, <1>2, Disjoint
  <2> QED BY <2>1, <1>7
<1>9. TodoHolds(told, best, todo)
  BY <1>6, <1>8 DEF TodoHolds
<1> QED BY <1>4, <1>5, <1>6, <1>9 DEF FInv, TInv

LEMMA NextHolds == FInv /\ [Next]_vars => FInv'
<1> SUFFICES ASSUME FInv, [Next]_vars PROVE FInv'
  OBVIOUS
<1>1. ASSUME UNCHANGED <<best, todo, told, refused>>, SInv' PROVE FInv'
  <2>1. TInv
    BY DEF FInv
  <2>2. TInv'
    BY <2>1, <1>1 DEF TInv
  <2> QED BY <2>2, <1>1 DEF FInv
<1>2. ASSUME NEW b \in Blocks \ {Genesis}, Extend(b) PROVE FInv'
  BY <1>2, ExtendStep
<1>3. ASSUME NEW b \in Blocks \ {Genesis}, StoreFork(b) PROVE FInv'
  BY <1>3, StoreForkStep
<1>4. ASSUME NEW b \in Blocks \ {Genesis}, Reorg(b) PROVE FInv'
  BY <1>4, ReorgStep
<1>5. ASSUME NEW b \in Blocks \ {Genesis}, ConnectBlock(b) PROVE FInv'
  BY <1>5, ConnectStep
<1>6. ASSUME NEW b \in Blocks \ {Genesis}, InvalidateBlock(b) PROVE FInv'
  BY <1>6, InvalidateStep
<1>7. ASSUME NEW b \in Blocks \ {Genesis}, MarkInactive(b) PROVE FInv'
  BY <1>7, MarkInactiveStep
<1>8. ASSUME NEW b \in Blocks \ {Genesis}, MarkActive(b) PROVE FInv'
  BY <1>8, MarkActiveStep
<1>9. ASSUME NEW h \in Heights, MarkInvalid(h) PROVE FInv'
  BY <1>9, MarkInvalidStep
<1>10. ASSUME NEW b \in Blocks, GetHeader(b) PROVE FInv'
  <2>1. SInv'
    BY <1>10, ReadStep DEF FInv
  <2> QED BY <2>1, <1>1, <1>10 DEF GetHeader
<1>11. CASE Reopen
  <2>1. SInv'
    BY <1>11, ReopenStep DEF FInv
  <2> QED BY <2>1, <1>1, <1>11 DEF Reopen
<1>12. CASE UNCHANGED vars
  <2>1. UNCHANGED <<store, told, refused, given>> /\ cache' = cache /\ UNCHANGED <<best, todo, told, refused>>
    BY <1>12 DEF vars
  <2>2. cache' \in [Blocks -> MainStatus \cup ForkStatus \cup {Absent}]
    BY <2>1 DEF FInv, SInv
  <2>3. ASSUME ~refused PROVE \A b \in Blocks : cache'[b] # Absent => told[b] = {cache'[b]}
    BY <2>1, <2>3 DEF FInv, SInv, ToldHolds
  <2>4. SInv'
    BY <2>1, <2>2, <2>3, KeepStep DEF FInv
  <2> QED BY <2>1, <2>4, <1>1
<1> QED
  BY <1>2, <1>3, <1>4, <1>5, <1>6, <1>7, <1>8, <1>9, <1>10, <1>11, <1>12 DEF Next

(* The occupancy counts the blocks that are found.                         *)
LEMMA EntriesCounted ==
  ASSUME SInv
  PROVE  NoStaleEntries
<1> DEFINE K == {b \in Blocks \ {Genesis} : get_header_by_hash(b) # Absent}
           f == [q \in Used(map) |-> Owner(headers, forks, map, q)]
<1>1. \A b \in Blocks \ {Genesis} :
        b \in K <=> \E q \in Used(map) : Owner(headers, forks, map, q) = b
  BY Lookup DEF SInv
<1>2. \A q \in Used(map) : Owner(headers, forks, map, q) \in Blocks \ {Genesis}
  BY EntryIs DEF SInv
<1>3. \A q, r \in Used(map) : Owner(headers, forks, map, q) = Owner(headers, forks, map, r) => q = r
  BY DEF SInv, FilesHold, IndexHolds
<1> HIDE DEF K
<1>4. K \subseteq Blocks \ {Genesis}
  BY DEF K
<1>5. f \in [Used(map) -> K]
  BY <1>1, <1>2
<1>6. /\ \A q, r \in Used(map) : f[q] = f[r] => q = r
      /\ \A b \in K : \E q \in Used(map) : f[q] = b
  BY <1>1, <1>3, <1>4
<1> HIDE DEF f
<1>7. ExistsBijection(Used(map), K)
  <2>1. f \in Injection(Used(map), K)
    BY <1>5, <1>6 DEF Injection, IsInjective
  <2>2. f \in Surjection(Used(map), K)
    BY <1>5, <1>6 DEF Surjection
  <2> QED BY <2>1, <2>2 DEF ExistsBijection, Bijection
<1>8. Cardinality(K) = Cardinality(Used(map))
  BY <1>7, UsedFinite, FS_Bijection DEF SInv
<1> QED BY <1>8 DEF NoStaleEntries, SInv, FilesHold, K

LEMMA Sound == FInv => StoreSound
<1> SUFFICES ASSUME FInv PROVE StoreSound
  OBVIOUS
<1>1. SInv /\ TInv
  BY DEF FInv
<1>2. LookupIsLastSaved
  BY <1>1, Lookup DEF SInv, LookupIsLastSaved
<1>3. NoStaleEntries
  BY <1>1, EntriesCounted
<1>4. CacheAgrees
  <2>1. ASSUME ~refused, NEW b \in Blocks, cache[b] # Absent PROVE told[b] = {cache[b]}
    <3>1. ToldHolds(told, cache)
      BY <2>1, <1>1 DEF SInv
    <3> QED BY <3>1, <2>1 DEF ToldHolds
  <2> QED BY <2>1 DEF CacheAgrees
<1>5. SlotsAreChain
  <2>1. ASSUME ~refused, Idle, NEW b \in Path[best] PROVE get_block_hash(Height[b]) = b
    <3>1. b \in Blocks
      BY <1>1, OnPath DEF TInv
    <3>2. told[b] \subseteq MainStatus
      BY <3>1, <2>1, <1>1, IdleIs
    <3> QED BY <3>1, <3>2, <2>1, <1>1, MainSlot DEF get_block_hash
  <2> QED BY <2>1 DEF SlotsAreChain
<1> QED BY <1>2, <1>3, <1>4, <1>5 DEF StoreSound

(* A lookup in the files of FlatChainStore finds the header that was saved *)
(* last, the occupancy counts the blocks that are found, the cache agrees  *)
(* and get_block_hash leads along the chain of the tip, for every tree of  *)
(* blocks, every hash function and every size of the files and the index.  *)
THEOREM StoreIsSound == Spec => []StoreSound
<1>1. Init => FInv
  BY InitHolds
<1>2. FInv /\ [Next]_vars => FInv'
  BY NextHolds
<1>3. FInv => StoreSound
  BY Sound
<1> QED BY <1>1, <1>2, <1>3, PTL DEF Spec
==============================================================================
