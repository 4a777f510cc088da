---------------------------- MODULE CompactFilters ----------------------------
(***************************************************************************)
(* The compact block filters: their download by the running node           *)
(* (running_ctx.rs, peer_man.rs), the file they are appended to and its    *)
(* index (flat_filters_store.rs), and the queries of a rescan              *)
(* (network_filters.rs).  A filter is the block it was made for; heights   *)
(* start at 1.  All requested filters come as one stream of messages.      *)
(***************************************************************************)
EXTENDS Integers, Sequences, FiniteSets, FiniteSetsExt, Functions

CONSTANTS
  INDEX_INTERVAL,
  Batch,                \* filters per request: 500 in the code
  filter_start_height,  \* configured; counted back from the tip if negative
  MaxHeight,            \* bound on the chain
  LossBound,            \* bound: filters that never arrive
  CrashBound, ReorgBound

VARIABLES
  chain,     \* the best chain: chain[h] is the branch the block at h is on
  file,      \* the records of the filter file: [h, blk]
  height,    \* the height saved in its header
  index,     \* index[i]: the record number noted for height i * INDEX_INTERVAL
  early,     \* inflight_filters: filters kept for later, by height
  asked,     \* GetFilters is in flight
  last_filter, \* the block at which the request ends
  stream,    \* what the peer is still going to send: <<[h, blk], ...>>
  up,        \* FALSE once the node failed to start
  losses, crashes, reorgs

filterVars ==
  <<chain, file, height, index, early, asked, last_filter, stream, up, losses, crashes, reorgs>>

(* The index has an entry for every INDEX_INTERVALth height, 1000 in the   *)
(* code.                                                                   *)
ASSUME FilterAssumption ==
  /\ INDEX_INTERVAL \in Nat \ {0, 1} /\ Batch \in Nat /\ MaxHeight \in Nat
  /\ filter_start_height \in Int

Best == Len(chain)
Block(h) == [h |-> h, blk |-> chain[h]]
NoFilters == [h \in {} |-> 0]

FilterInit ==
  /\ chain = [h \in 1..2 |-> 0] /\ file = <<>> /\ height = 0
  /\ index = [i \in {} |-> 0] /\ early = NoFilters /\ asked = FALSE /\ last_filter = 0
  /\ stream = <<>> /\ up = TRUE /\ losses = 0 /\ crashes = 0 /\ reorgs = 0

-----------------------------------------------------------------------------
(* put_filter, for one record after the other: note the position of every  *)
(* INDEX_INTERVALth height, then append.                                   *)
Noted(recs) ==
  LET At(i) == {Len(file) + j : j \in {k \in DOMAIN recs : recs[k].h = i * INDEX_INTERVAL}}
      new == {i \in 1..MaxHeight : At(i) # {}}
  IN  [i \in DOMAIN index \cup new |-> IF i \in new THEN Max(At(i)) ELSE index[i]]
put_filter(recs) == file' = file \o recs /\ index' = Noted(recs)

(* The height from which download_filters goes on.                         *)
StartAt == LET from == IF filter_start_height < 0 THEN Max({0, Best + filter_start_height})
                       ELSE filter_start_height
           IN  IF height = 0 THEN Max({0, from - 1}) ELSE height

(* A request for the filters after from, up to last_filter, beside what    *)
(* is still to come of an earlier one; the peer says nothing when there    *)
(* are none.                                                               *)
Ask(from, to, rest) ==
  [asked |-> TRUE, last |-> to,
   stream |-> rest \o [i \in 1..Max({0, Min({to, Best}) - from}) |-> Block(from + i)]]
download_filters(from, r) ==
  IF from >= Best THEN r ELSE Ask(from, Min({Best, from + Batch}), r.stream)
Becomes(r) == asked' = r.asked /\ last_filter' = r.last /\ stream' = r.stream

Download ==
  /\ up /\ ~asked /\ (StartAt < Best \/ StartAt # height)
  /\ height' = StartAt
  /\ Becomes(download_filters(StartAt, [asked |-> asked, last |-> last_filter, stream |-> stream]))
  /\ UNCHANGED <<chain, file, index, early, up, losses, crashes, reorgs>>

(* The handler of a BlockFilter message.  The loop over the early filters  *)
(* looks for the height that was just stored, not for the next one.        *)
Drained(h) == Max({k \in 0..MaxHeight : \A i \in 0..(k - 1) : h + i \in DOMAIN early})
Stored(f) == <<f>> \o [i \in 1..Drained(f.h) |-> [h |-> f.h + i - 1, blk |-> early[f.h + i - 1]]]

Known(f) == f.h <= Best /\ chain[f.h] = f.blk
Arrive ==
  /\ up /\ stream # <<>>
  /\ LET f == Head(stream)
         rest == [asked |-> asked, last |-> last_filter, stream |-> Tail(stream)]
         at == f.h + Drained(f.h)
         left == DOMAIN early \ (f.h..(at - 1))
         finished == last_filter = at /\ at <= Best /\ left = {}
     IN  CASE ~Known(f) -> Becomes(rest) /\ UNCHANGED <<file, index, early, height>>
           [] Known(f) /\ height + 1 # f.h ->
                /\ early' = [k \in DOMAIN early \cup {f.h} |-> IF k = f.h THEN f.blk ELSE early[k]]
                /\ Becomes(rest) /\ UNCHANGED <<file, index, height>>
           [] OTHER ->
                /\ put_filter(Stored(f)) /\ early' = Restrict(early, left) /\ height' = at
                /\ Becomes(IF finished THEN download_filters(at, [rest EXCEPT !.asked = FALSE])
                           ELSE rest)
  /\ UNCHANGED <<chain, up, losses, crashes, reorgs>>

(* No more filters come, or one of them is lost; the request expires and   *)
(* is made again from the saved height (redo_inflight_request).            *)
Lose ==
  /\ up /\ stream # <<>> /\ losses < LossBound /\ losses' = losses + 1
  /\ stream' = Tail(stream)
  /\ UNCHANGED <<chain, file, height, index, early, asked, last_filter, up, crashes, reorgs>>
Expire ==
  /\ up /\ asked /\ stream = <<>>
  /\ Becomes(Ask(height, last_filter, <<>>))
  /\ UNCHANGED <<chain, file, height, index, early, up, losses, crashes, reorgs>>

(* The process dies, perhaps with a record that the saved height does not  *)
(* count yet, or with only its index entry.  On the way up the block at    *)
(* the saved height must exist.                                            *)
FiltersRestart ==
  /\ up /\ crashes < CrashBound /\ crashes' = crashes + 1
  /\ early' = NoFilters /\ asked' = FALSE /\ stream' = <<>>
  /\ last_filter' = height /\ up' = (height <= Best)
  /\ UNCHANGED <<chain, height, losses, reorgs>>
CrashBetween == FiltersRestart /\ UNCHANGED <<file, index>>
CrashInPut ==
  /\ stream # <<>> /\ Known(Head(stream)) /\ Head(stream).h = height + 1
  /\ \/ put_filter(<<Head(stream)>>)
     \/ file' = file /\ index' = Noted(<<Head(stream)>>)
  /\ FiltersRestart

NewBlock ==
  /\ up /\ Best < MaxHeight /\ chain' = Append(chain, IF chain = <<>> THEN 0 ELSE chain[Best])
  /\ UNCHANGED <<file, height, index, early, asked, last_filter, stream, up, losses, crashes, reorgs>>
Reorg ==
  /\ up /\ reorgs < ReorgBound /\ reorgs' = reorgs + 1
  /\ chain' = [chain EXCEPT ![Best] = @ + 1]
  /\ UNCHANGED <<file, height, index, early, asked, last_filter, stream, up, losses, crashes>>

FilterNext == Download \/ Arrive \/ Lose \/ Expire \/ CrashBetween \/ CrashInPut \/ NewBlock \/ Reorg
FilterSpec == FilterInit /\ [][FilterNext]_filterVars

-----------------------------------------------------------------------------
(* Mutant of iter: the index entry above is taken.                         *)
IterFromAbove(from) ==
  LET entries == {i \in DOMAIN index : i <= 1 + from \div INDEX_INTERVAL /\ index[i] # 0}
      pos == IF entries = {} THEN 1 ELSE index[Max(entries)]
  IN  SelectSeq(SubSeq(file, pos, Len(file)), LAMBDA r : r.h >= from)

(* iter(from): start at the closest index entry, skip what is below from,  *)
(* and go on to the end of the file.                                       *)
iter(from) ==
  LET entries == {i \in DOMAIN index : i <= from \div INDEX_INTERVAL /\ index[i] # 0}
      pos == IF entries = {} THEN 1 ELSE index[Max(entries)]
      tail == SubSeq(file, pos, Len(file))
      wanted == {i \in DOMAIN tail : tail[i].h >= from}
  IN  IF wanted = {} THEN <<>> ELSE SubSeq(tail, Min(wanted), Len(tail))

(* Mutant of match_any: the last height is left out.                       *)
MatchStopsBefore(from, to) ==
  LET recs == iter(from)
      ends == {i \in DOMAIN recs : recs[i].h >= to}
      read == IF ends = {} THEN recs ELSE SubSeq(recs, 1, Min(ends) - 1)
  IN  {r.h : r \in {x \in Range(read) : chain[x.h] = x.blk}}

(* match_any: the heights whose filter matches, from one height to another.*)
(* A filter only matches under the hash of its own block.                  *)
match_any(from, to) ==
  LET recs == iter(from)
      ends == {i \in DOMAIN recs : recs[i].h >= to}
      read == IF ends = {} THEN recs ELSE SubSeq(recs, 1, Min(ends))
  IN  {r.h : r \in {x \in Range(read) : chain[x.h] = x.blk}}

(* The file holds heights the chain may have; what is kept for later is of *)
(* the chain too (put_filter, inflight_filters).                           *)
FilterTypeOK ==
  /\ height \in 0..(MaxHeight + 2) /\ \A i \in DOMAIN file : file[i].h \in 1..(MaxHeight + 1)
  /\ up \in BOOLEAN /\ asked \in BOOLEAN /\ DOMAIN early \subseteq 1..MaxHeight

(* A rescan sees every block up to the saved height, whatever the range,   *)
(* the index entry it starts from, and the crashes in between: a record    *)
(* that was written twice hides no other.                                  *)
FirstHeight == IF file = <<>> THEN height + 1 ELSE file[1].h
QueryComplete ==
  up => \A from, to \in 1..MaxHeight :
          {h \in FirstHeight..height : from <= h /\ h <= to} \subseteq match_any(from, to)

(* Starting from the index loses no record that counts: iter yields every  *)
(* height of the file from the one asked for up to the saved one, also     *)
(* when records were written twice, an index entry without its record, or  *)
(* heights were left out.                                                  *)
IterSkipsNothing ==
  \A from \in 1..MaxHeight :
    {r.h : r \in {x \in Range(file) : from <= x.h /\ x.h <= height}}
      \subseteq {r.h : r \in Range(iter(from))}

(* "Persists the height of the last filter we have".                       *)
HeightIsLastFilter == file # <<>> => height <= file[Len(file)].h

(* The node can start again from what it saved.                            *)
StartsAgain == up

(* Every block gets its filter.                                            *)
FiltersCatchUp == <>[](height >= Best)
==============================================================================
