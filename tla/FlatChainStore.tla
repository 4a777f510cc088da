--------------------------- MODULE FlatChainStore ---------------------------
(***************************************************************************)
(* The files of flat_chain_store.rs as data structures: the headers file   *)
(* with a slot per height, the fork file with a slot per header found      *)
(* off the chain, the open-addressing hash index that leads from a hash to *)
(* one of the two, and the cache in front of them, all of bounded size.    *)
(* The operations of ChainState that write headers use them as they do in  *)
(* chain_state.rs: the lock is taken for one header at a time, readers run *)
(* in between, and the first write that fails ends the operation.          *)
(*                                                                         *)
(* The store is followed up to the first write that is refused, and what   *)
(* readers and a restart then find; a chain that goes on after it may      *)
(* reindex, which is in ChainRecovery with the accumulators, the checksum  *)
(* and the metadata.  The reads that an operation makes on its way fill    *)
(* and reorder the cache (LruCache): what it keeps after a step is any     *)
(* choice of its entries, and GetHeader adds to them.  All headers have    *)
(* equal work.                                                             *)
(***************************************************************************)
EXTENDS BlockTree, FiniteSetsExt

CONSTANTS
  Configs,            \* the FlatChainStoreConfigs: block_index_size,
                      \* headers_file_size, fork_file_size and cache_size
  HashFns,            \* the short hashes that blocks may turn out to have
  Invalid             \* blocks that fail validation

VARIABLES
  headers, forks,     \* the headers file and the fork file
  fork_count,         \* how many slots of the fork file are taken
  map, occupancy,     \* the hash index, and how many buckets are taken
  cache, warnings,
  told,               \* told[b]: the last status that was saved for b, and
                      \* those of later requests that were refused
  refused,            \* whether any request was
  best,               \* BestChain.best_block
  todo,               \* what the operation under way has still to save
  hash,               \* index_hash_fn
  config              \* the sizes the store was created with

store == <<headers, forks, fork_count, map, occupancy>>
given == <<hash, config>>
vars  == <<store, cache, warnings, told, refused, best, todo, given>>

(* truncate_to_pow2 rounds up, so that a mask takes the remainder.         *)
truncate_to_pow2(n) == IF n = 0 THEN 0 ELSE Min({2^k : k \in {k \in 0..n : 2^k >= n}})

(* A store has room for Genesis and for a bucket, and a short hash is a    *)
(* number.                                                                 *)
ASSUME StoreAssumption ==
  /\ HashFns \subseteq [Blocks -> Nat]
  /\ \A c \in Configs : /\ truncate_to_pow2(c.block_index_size) \in Nat \ {0}
                        /\ truncate_to_pow2(c.headers_file_size) \in Nat \ {0}
                        /\ truncate_to_pow2(c.fork_file_size) \in Nat

index_capacity    == truncate_to_pow2(config.block_index_size)
headers_file_size == truncate_to_pow2(config.headers_file_size)
fork_file_size    == truncate_to_pow2(config.fork_file_size)

MainStatus == {"FullyValid", "HeadersOnly", "AssumedValid"}
ForkStatus == {"InFork", "Orphan", "InvalidChain"}
Absent     == "NotPresent"
Errors     == {"HeaderNotFound", "FullIndex"}

(* HashedDiskHeader.  Reading a slot that was never written, all zeros, is *)
(* an error, and so is reading past the end of a file.                     *)
Slot(b, status) == [hash |-> b, status |-> status]
Zeros           == Slot(NoBlock, "HeaderNotFound")
Beyond          == Slot(NoBlock, "FullIndex")

(* Index: the most significant bit says which file.  A bucket that was     *)
(* never written reads as height 0 of the main chain.                      *)
MainIndex(pos) == [file |-> "headers", pos |-> pos]
ForkIndex(pos) == [file |-> "forks", pos |-> pos]
is_empty(i)    == i.file = "headers" /\ i.pos = 0

(* get_disk_header, on the contents hs and fs of the two files.            *)
get_disk_header(hs, fs, i) ==
  LET file == IF i.file = "forks" THEN fs ELSE hs
  IN  IF i.pos \in DOMAIN file THEN file[i.pos] ELSE Beyond

Bucket(b, k) == (hash[b] + k) % index_capacity

(* Mutant of ProbeEnds: an empty bucket does not end the search.           *)
ProbeOverEmpty(hs, fs, b, k) ==
  get_disk_header(hs, fs, map[Bucket(b, k)]).hash \in {b, NoBlock}

(* One probe of hash_map_find_pos ends the search: a header that cannot be *)
(* read, the header looked for, or a bucket that was never written.        *)
ProbeEnds(hs, fs, b, k) ==
  LET i == map[Bucket(b, k)]
  IN  get_disk_header(hs, fs, i).hash \in {b, NoBlock} \/ is_empty(i)

Probes(hs, fs, b) == {k \in 0..index_capacity - 1 : ProbeEnds(hs, fs, b, k)}

(* hash_map_find_pos: the bucket of the first probe that ends, out of one  *)
(* per bucket, and the header it leads to.                                 *)
hash_map_find_pos(hs, fs, b) == Bucket(b, Min(Probes(hs, fs, b)))

FoundHeader(hs, fs, b) ==
  IF Probes(hs, fs, b) = {} THEN Beyond
  ELSE get_disk_header(hs, fs, map[hash_map_find_pos(hs, fs, b)])

(* get_header_by_hash, get_index_for_hash: a status, Absent, or an error.  *)
get_header_by_hash(b) ==
  LET found == FoundHeader(headers, forks, b)
  IN  IF found.hash \in {b, NoBlock} THEN found.status ELSE Absent
-----------------------------------------------------------------------------
(* Why add_index_entry refuses b: the next bucket would be the last, or    *)
(* the search fails.                                                       *)
ReadError(found) == IF found.hash = NoBlock THEN found.status ELSE "none"

IndexError(hs, fs, b) ==
  IF occupancy + 1 >= index_capacity THEN "FullIndex" ELSE ReadError(FoundHeader(hs, fs, b))

(* add_index_entry, set_index_for_hash: only a new entry is counted.       *)
add_index_entry(hs, fs, b, i) ==
  /\ map' = [map EXCEPT ![hash_map_find_pos(hs, fs, b)] = i]
  /\ occupancy' = IF FoundHeader(hs, fs, b).hash = b THEN occupancy ELSE occupancy + 1

(* write_header_to_storage                                                 *)
WithHeader(b, status) == [headers EXCEPT ![Height[b]] = Slot(b, status)]

(* save_fork_block appends, whether or not the block has a slot already.   *)
WithFork(b, status) == [forks EXCEPT ![fork_count] = Slot(b, status)]

(* The error that saving b meets, in save_header or, for a header of the   *)
(* chain, in the update_block_index that follows.                          *)
StorageError(b, status) ==
  IF status \in MainStatus
  THEN IF Height[b] \in DOMAIN headers THEN "none" ELSE "FullIndex"
  ELSE IF fork_count \in DOMAIN forks THEN IndexError(headers, WithFork(b, status), b)
                                      ELSE "FullIndex"

BlockIndexError(b, status) ==
  IF status \in MainStatus /\ Height[b] \in DOMAIN headers
  THEN IndexError(WithHeader(b, status), forks, b) ELSE "none"

(* try_push_warning, for a write refused for want of room.                 *)
Warnings(storageError, indexError) ==
  (IF storageError = "FullIndex" THEN {"HeaderStorageFull"} ELSE {})
    \cup (IF indexError = "FullIndex" THEN {"BlockIndexFull"} ELSE {})

(* What the cache c keeps when it is full.                                 *)
CacheBecomes(c) ==
  \E kept \in SUBSET {b \in Blocks : c[b] # Absent} :
    /\ Cardinality(kept) <= config.cache_size
    /\ cache' = [b \in Blocks |-> IF b \in kept THEN c[b] ELSE Absent]

(* save_header, into the cache first, then to the file that the status     *)
(* calls for; and update_header_and_index, for a header of the chain.  A   *)
(* slot is written before the index is found to be full.                   *)
Write(b, status) ==
  /\ headers' = IF status \in MainStatus /\ Height[b] \in DOMAIN headers
                THEN WithHeader(b, status) ELSE headers
  /\ forks' = IF status \in ForkStatus /\ fork_count \in DOMAIN forks
              THEN WithFork(b, status) ELSE forks
  /\ CacheBecomes([cache EXCEPT ![b] = status])

IndexWritten(b, status) ==
  /\ add_index_entry(headers', forks', b,
       IF status \in MainStatus THEN MainIndex(Height[b]) ELSE ForkIndex(fork_count))
  /\ fork_count' = IF status \in ForkStatus THEN fork_count + 1 ELSE fork_count
  /\ told' = [told EXCEPT ![b] = {status}]
  /\ UNCHANGED <<warnings, refused>>

Refused(b, status, storageError, indexError) ==
  /\ warnings' = warnings \cup Warnings(storageError, indexError)
  /\ told' = [told EXCEPT ![b] = @ \cup {status}]
  /\ refused' = TRUE
  /\ UNCHANGED <<map, occupancy, fork_count>>

SaveOr(b, status, storageError, indexError) ==
  /\ Write(b, status)
  /\ IF storageError = "none" /\ indexError = "none"
     THEN IndexWritten(b, status)
     ELSE Refused(b, status, storageError, indexError)

Save(b, status) == SaveOr(b, status, StorageError(b, status), BlockIndexError(b, status))

(* get_header answers from the cache first.                                *)
get_header(b) == IF cache[b] # Absent THEN cache[b] ELSE get_header_by_hash(b)

Present(b) == get_header(b) \in MainStatus \cup ForkStatus

get_block_hash(h) == IF h \in DOMAIN headers THEN headers[h].hash ELSE NoBlock
-----------------------------------------------------------------------------
Nothing(tip) == [tip |-> tip, inactive |-> {}, active |-> {}, invalid |-> {}]
Idle == todo = Nothing(best)

(* accept_header, for a header not stored yet: validate_header needs the   *)
(* height of the parent.                                                   *)
Acceptable(b) ==
  /\ Idle /\ ~refused
  /\ get_header(b) = Absent
  /\ get_header(Parent[b]) \in MainStatus \cup {"InFork"}

(* On the tip: the tip moves before anything is written.                   *)
Extend(b) ==
  /\ Acceptable(b)
  /\ Parent[b] = best
  /\ Save(b, "HeadersOnly")
  /\ best' = b
  /\ todo' = Nothing(b)
  /\ UNCHANGED given

(* find_fork_point: the last ancestor that is not InFork must be of the    *)
(* active chain, and Genesis does not count.                               *)
ForkPoint(b, f) ==
  /\ f \in Path[Parent[b]] \ {Genesis}
  /\ get_header(f) \in MainStatus
  /\ \A a \in Path[Parent[b]] : Height[a] > Height[f] => get_header(a) = "InFork"

(* maybe_reorg, check_branch.                                              *)
HasBranch(b) ==
  /\ Acceptable(b)
  /\ Parent[b] # best
  /\ \A a \in Path[best] \cup Path[Parent[b]] : Present(a)

(* A branch with no more work: its header goes to the fork file.           *)
StoreFork(b) ==
  /\ HasBranch(b)
  /\ \E f \in Blocks : ForkPoint(b, f)
  /\ Height[b] <= Height[best]
  /\ Save(b, "InFork")
  /\ UNCHANGED <<best, todo, given>>

(* A walk from tip stops at the fork point or at Genesis.                  *)
WalkDown(tip, f) == Path[tip] \ (IF f \in Path[tip] THEN Path[f] ELSE {Genesis})

(* reorg: mark_chain_as_inactive and mark_chain_as_active are to come.     *)
Reorg(b) ==
  /\ HasBranch(b)
  /\ Height[b] > Height[best]
  /\ \E f \in Blocks :
       /\ ForkPoint(b, f)
       /\ todo' = [tip |-> b, inactive |-> WalkDown(best, f),
                   active |-> WalkDown(b, f), invalid |-> {}]
  /\ UNCHANGED <<store, cache, warnings, told, refused, best, given>>

(* The block after the validated ones is processed.                        *)
Processed(b) ==
  /\ Idle /\ ~refused
  /\ b \in Path[best] /\ get_block_hash(Height[b]) = b
  /\ get_header(b) = "HeadersOnly"
  /\ get_header(Parent[b]) = "FullyValid"

(* connect_block, update_view: its header becomes FullyValid.              *)
ConnectBlock(b) ==
  /\ Processed(b)
  /\ b \notin Invalid
  /\ Save(b, "FullyValid")
  /\ UNCHANGED <<best, todo, given>>

(* invalidate_block: the heights from the block up to the tip are to come. *)
InvalidateBlock(b) ==
  /\ Processed(b)
  /\ b \in Invalid
  /\ todo' = [Nothing(Parent[b]) EXCEPT !.invalid = Height[b]..Height[best]]
  /\ UNCHANGED <<store, cache, warnings, told, refused, best, given>>
-----------------------------------------------------------------------------
(* The operation goes on with what is left, publishes its tip when nothing *)
(* is, and ends where it is when a step fails.                             *)
GoOn(left, ok) ==
  /\ todo' = IF ok THEN left ELSE Nothing(best)
  /\ best' = IF ok /\ left = Nothing(todo.tip) THEN todo.tip ELSE best

IsHighest(c, S) == c \in S /\ \A d \in S : Height[d] <= Height[c]

(* mark_chain_as_inactive: the next header, from the old tip down; the     *)
(* walk then reads its parent.                                             *)
MarkInactive(c) ==
  /\ IsHighest(c, todo.inactive)
  /\ UNCHANGED given
  /\ Save(c, "InFork")
  /\ GoOn([todo EXCEPT !.inactive = @ \ {c}], ~refused' /\ Present(Parent[c])')

(* mark_chain_as_active, from the new tip down.                            *)
MarkActive(c) ==
  /\ todo.inactive = {}
  /\ IsHighest(c, todo.active)
  /\ UNCHANGED given
  /\ Save(c, "HeadersOnly")
  /\ GoOn([todo EXCEPT !.active = @ \ {c}], ~refused' /\ Present(Parent[c])')

(* invalidate_block: the hash of the next height, its header, and a write. *)
MarkInvalid(h) ==
  LET c == get_block_hash(h)
  IN  /\ h \in todo.invalid /\ \A k \in todo.invalid : h <= k
      /\ UNCHANGED given
      /\ IF c \in Blocks /\ Present(c)
         THEN /\ Save(c, "InvalidChain")
              /\ GoOn([todo EXCEPT !.invalid = @ \ {h}], ~refused')
         ELSE /\ GoOn(todo, FALSE)
              /\ UNCHANGED <<store, cache, warnings, told, refused>>

(* A read fills the cache.                                                 *)
GetHeader(b) ==
  /\ cache[b] = Absent
  /\ get_header_by_hash(b) \notin Errors \cup {Absent}
  /\ CacheBecomes([cache EXCEPT ![b] = get_header_by_hash(b)])
  /\ UNCHANGED <<store, warnings, told, refused, best, todo, given>>

(* FlatChainStore::new on the files that are there: an empty cache, and no *)
(* warnings yet.                                                           *)
Reopen ==
  /\ Idle
  /\ cache' = [b \in Blocks |-> Absent]
  /\ warnings' = {}
  /\ UNCHANGED <<store, told, refused, best, todo, given>>
-----------------------------------------------------------------------------
(* create_chain_store, and ChainState::new saving Genesis: the bucket it   *)
(* finds holds index 0 already, so that the index does not change.         *)
Created ==
  /\ headers = [h \in 0..headers_file_size - 1 |->
                  IF h = 0 THEN Slot(Genesis, "FullyValid") ELSE Zeros]
  /\ forks = [i \in 0..fork_file_size - 1 |-> Zeros]
  /\ fork_count = 0
  /\ map = [i \in 0..index_capacity - 1 |-> MainIndex(0)]
  /\ occupancy = 0
  /\ cache = [b \in Blocks |-> IF b = Genesis THEN "FullyValid" ELSE Absent]
  /\ warnings = {}
  /\ told = [b \in Blocks |-> {IF b = Genesis THEN "FullyValid" ELSE Absent}]
  /\ refused = FALSE

Init ==
  /\ hash \in HashFns
  /\ config \in Configs
  /\ best = Genesis
  /\ todo = Nothing(Genesis)
  /\ Created

Next ==
  \/ \E b \in Blocks \ {Genesis} : \/ Extend(b) \/ StoreFork(b) \/ Reorg(b)
                                   \/ ConnectBlock(b) \/ InvalidateBlock(b)
                                   \/ MarkInactive(b) \/ MarkActive(b)
  \/ \E h \in Heights : MarkInvalid(h)
  \/ \E b \in Blocks : GetHeader(b)
  \/ Reopen

Spec == Init /\ [][Next]_vars
-----------------------------------------------------------------------------
(* Slots, index and cache hold blocks or are empty.                        *)
TypeOK ==
  /\ best \in Blocks
  /\ hash \in [Blocks -> Nat]
  /\ \A h \in DOMAIN headers : headers[h].status \in MainStatus \cup Errors
  /\ \A i \in DOMAIN forks : forks[i].status \in ForkStatus \cup Errors
  /\ occupancy \in 0..index_capacity - 1
  /\ fork_count \in 0..fork_file_size
  /\ Cardinality({b \in Blocks : cache[b] # Absent}) <= config.cache_size + 1

(* The index and the two files are together a map from hashes to headers:  *)
(* a lookup in the files finds what was saved last, whatever the hashes    *)
(* collide with, after any number of reorgs and between any two writes of  *)
(* one, and also when a write was refused.  No bucket is wasted: the       *)
(* occupancy is the number of blocks that are found (the comment of        *)
(* save_fork_block argues for it).  As long as nothing was refused, the    *)
(* cache never contradicts the files, and between operations               *)
(* get_block_hash leads along the chain of the tip, whatever was           *)
(* reorganised or invalidated.                                             *)
LookupIsLastSaved ==
  \A b \in Blocks : get_header_by_hash(b) \in told[b]

NoStaleEntries ==
  occupancy = Cardinality({b \in Blocks \ {Genesis} : get_header_by_hash(b) # Absent})

CacheAgrees ==
  ~refused => \A b \in Blocks : cache[b] # Absent => told[b] = {cache[b]}

SlotsAreChain ==
  ~refused /\ Idle => \A b \in Path[best] : get_block_hash(Height[b]) = b

StoreSound == LookupIsLastSaved /\ NoStaleEntries /\ CacheAgrees /\ SlotsAreChain
==============================================================================
