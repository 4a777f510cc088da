------------------------------ MODULE SwiftSync ------------------------------
(***************************************************************************)
(* The node while it syncs with a hints file (node/swift_sync_ctx.rs): it  *)
(* downloads the blocks up to the stop height in any order, checks them in *)
(* parallel workers, and feeds what they add to the task that builds the   *)
(* accumulator in height order (stump_updater.rs).                         *)
(*                                                                         *)
(* A transaction output is a model value, and the accumulator the sequence *)
(* of its leaves.  The aggregator is a sum of salted hashes, here a count  *)
(* for each output: it is zero when each output it took in is spent once.  *)
(***************************************************************************)
EXTENDS NodeCommon, TLC

CONSTANTS
  Outputs,       \* Outputs[b]: the outputs of block b, in order
  Inputs,        \* Inputs[b]: the outputs that b spends
  Unspendable,   \* outputs whose script cannot be spent
  Bip30,         \* coinbase outputs made unspendable by a later duplicate
  HintFiles,     \* the hints files to try: height -> indexes hinted unspent
  MaxSupply,     \* Consensus::max_supply_at_height(stop height), in outputs
  ValidAtStart,  \* the validation index the node starts with
  AssumeValid,   \* the height of the AssumeValid block, or 0 when it has none
  max_workers,
  Jobs,          \* the sets of periodic jobs that may be due at a tick
  MaxQueue,      \* bound: other jobs than connecting run when no peer has more to answer
  KillBound, FaultBound, \* bounds: shutdown requests; bad, late or lost answers
  Empty_         \* BitcoinNodeHash::Empty

VARIABLES
  n,       \* NodeCommon, and the fields of the SwiftSync context
  up,      \* StumpUpdater: last, pending, acc, its channel and its state
  phase,   \* "start", "swift", then how run ended
  faults, kills

vars == <<n, up, phase, faults, kills>>

(* n.hints: what the hints still hold; n.proc: blocks a worker has;        *)
(* n.abort: abort_height, or 0.                                            *)
Init ==
  /\ \E h \in HintFiles :
       n = New @@ [file |-> h, hints |-> DOMAIN h, proc |-> {}, agg |-> Empty, supply |-> 0,
                   processed |-> 0, abort |-> 0]
  /\ up = [last |-> 0, pending |-> Empty, acc |-> <<>>, chan |-> <<>>, state |-> "none"]
  /\ phase = "start" /\ faults = 0 /\ kills = 0

StopHeight(m) == Max(DOMAIN m.file)
HeightOf(b) == CHOOSE h \in DOMAIN Best : Best[h] = b

-----------------------------------------------------------------------------
(* What a worker makes of a block whose transactions are the original ones *)
(* (process_block_swiftsync).  Both loops number the outputs of the block, *)
(* and they have to skip the same ones.                                    *)
verify_block_transactions_swiftsync(b, idx) ==
  FoldLeft(LAMBDA d, o :
     IF o \in Bip30 THEN d
     ELSE IF o \in Unspendable THEN [d EXCEPT !.amount = @ + 1]
     ELSE IF d.i \in idx THEN [d EXCEPT !.amount = @ + 1, !.i = @ + 1]
     ELSE [d EXCEPT !.spent = @ \cup {o}, !.i = @ + 1],
     [i |-> 0, amount |-> 0, spent |-> {}], Outputs[b])

(* Mutant of get_block_adds_from_hints: unspendable outputs are numbered.  *)
AddsNumberAll(b, idx) ==
  FoldLeft(LAMBDA d, o :
     IF o \in Unspendable \/ o \in Inputs[b] THEN [d EXCEPT !.i = @ + 1]
     ELSE IF o \in Bip30 THEN [d EXCEPT !.adds = Append(@, o)]
     ELSE [adds |-> Append(d.adds, IF d.i \in idx THEN o ELSE Empty_), i |-> d.i + 1],
     [i |-> 0, adds |-> <<>>], Outputs[b]).adds

get_block_adds_from_hints(b, idx) ==
  FoldLeft(LAMBDA d, o :
     IF o \in Unspendable THEN d
     ELSE IF o \in Inputs[b] THEN [d EXCEPT !.i = @ + 1]
     ELSE IF o \in Bip30 THEN [d EXCEPT !.adds = Append(@, o)]
     ELSE [adds |-> Append(d.adds, IF d.i \in idx THEN o ELSE Empty_), i |-> d.i + 1],
     [i |-> 0, adds |-> <<>>], Outputs[b]).adds

(* What the worker reports of such a block, a SwiftSyncDelta.              *)
process_block_swiftsync(b, idx) ==
  verify_block_transactions_swiftsync(b, idx)
    @@ [utreexo_adds |-> get_block_adds_from_hints(b, idx)]

(* The aggregator, as the outputs whose count is not zero.                 *)
Shift(agg, S, by) ==
  LET Count(o) == (IF o \in DOMAIN agg THEN agg[o] ELSE 0) + (IF o \in S THEN by ELSE 0)
      all == DOMAIN agg \cup S
  IN  [o \in {x \in all : Count(x) # 0} |-> Count(o)]
AddDelta(agg, b, spent) == Shift(Shift(agg, Inputs[b], -1), spent, 1)

-----------------------------------------------------------------------------
(* Mutant of refill_block_requests: an error is passed on, with no roll    *)
(* back.                                                                   *)
RefillKeepsLast(m) ==
  LET last == Min({m.lastReq + BLOCKS_PER_GETDATA, StopHeight(m), Len(m.best)})
  IN  IF ~can_request_more_blocks(m) \/ m.abort # 0 \/ last < m.lastReq THEN {m}
      ELSE request_blocks([m EXCEPT !.lastReq = last], SubSeq(m.best, m.lastReq + 1, last))

(* refill_block_requests: the next heights, up to the stop height; on an   *)
(* error last_block_request is rolled back.                                *)
refill_block_requests(m) ==
  LET last == Min({m.lastReq + BLOCKS_PER_GETDATA, StopHeight(m), Len(m.best)})
  IN  IF ~can_request_more_blocks(m) \/ m.abort # 0 \/ last < m.lastReq THEN {m}
      ELSE {IF k.err THEN m ELSE k :
              k \in request_blocks([m EXCEPT !.lastReq = last],
                                   SubSeq(m.best, m.lastReq + 1, last))}

check_connections(m) ==
  LET slow == IF FixedPeers # {} \/ connected_peers(m) < MAX_OUTGOING_PEERS THEN {m}
              ELSE maybe_disconnect_slowest_peer(m, {}, FALSE)
  IN  Then(slow, LAMBDA k : maybe_open_connection(k, {"NETWORK"}))

(* pump_swiftsync: hand waiting blocks to the free workers, in the order   *)
(* of a HashMap.                                                           *)
pump_swiftsync(m) ==
  LET waiting == DOMAIN m.blocks \ m.proc
      free == max_workers - Cardinality(m.proc)
      some == Min({free, Cardinality(waiting)})
  IN  IF m.abort # 0 \/ some <= 0 THEN {m}
      ELSE {[m EXCEPT !.proc = @ \cup S] : S \in kSubset(some, waiting)}

(* swift_sync_finished and handle_stop_height_reached.                     *)
AllProcessed(m) == m.lastReq = StopHeight(m) /\ unprocessed_blocks(m) = 0
handle_stop_height_reached(m) ==
  IF m.agg # Empty \/ m.supply > MaxSupply
  THEN [m EXCEPT !.abort = StopHeight(m)]
  ELSE [m EXCEPT !.valid = StopHeight(m)]

maintenance_tick(m, due) ==
  LET c == IfDue(due, "connect", {m}, check_connections)
      f == IfDue(due, "feeler", c, open_feeler_connection)
  IN  After(After(f, check_for_timeout),
            LAMBDA k : IF "stale" \in due THEN Logged(create_connection(k, "Extra", {}))
                       ELSE After(pump_swiftsync(k), refill_block_requests))

-----------------------------------------------------------------------------
(* Messages.  Proofs are not asked for, and user requests for blocks are   *)
(* refused.                                                                *)
OnBlock(m, p, b, good) ==
  IF b \in DOMAIN m.blocks THEN {m}
  ELSE IF <<"Blocks", b>> \notin DOMAIN m.inflight THEN Logged({increase_banscore(m, p)})
  ELSE After(pump_swiftsync([m EXCEPT
                !.inflight = Drop(@, {<<"Blocks", b>>}),
                !.blocks = Put(@, b, [peer |-> p, good |-> good, prover |-> NoPeer])]),
             refill_block_requests)

handle_message(m0, p, req, good) ==
  LET m == register_message_time(m0, p, Key(p, req)) IN
  CASE req[1] = "Disconnected" -> handle_disconnection(m, p)
    [] req[1] # "Disconnected" /\ p \notin DOMAIN m.peers -> {m}
    [] OTHER ->
       CASE req[1] = "Connect" -> Logged({handle_peer_ready(m, p)})
         [] req[1] = "GetAddresses" -> Logged({handle_addresses_from_peer(m, p)})
         [] req[1] = "GetBlock" -> OnBlock(m, p, req[2], good)
         [] OTHER -> {m}

(* handle_invalid_block: a block that breaks a rule is invalidated and     *)
(* ends the sync; one with other transactions than its header commits to   *)
(* is asked for again.  Its sender is banned in both cases.                *)
handle_invalid_block(m, b, blk) ==
  LET h == HeightOf(b)
      bad == IF blk.good
             THEN [m EXCEPT !.abort = h, !.best = SubSeq(@, 1, Min({h - 1, Len(@)}))]
             ELSE [m EXCEPT !.inflight = Put(@, <<"Blocks", b>>, [peer |-> OrGone(m, blk.peer),
                                                                  late |-> FALSE])]
  IN  [disconnect_and_ban(bad, blk.peer) EXCEPT !.err = TRUE]

(* handle_worker_notification, for a block that passed.                    *)
handle_valid_block(m, b) ==
  LET h == HeightOf(b)
      d == process_block_swiftsync(b, m.file[h])
  IN  refill_block_requests(
        [m EXCEPT !.agg = AddDelta(@, b, d.spent), !.supply = @ + d.amount,
                  !.hints = @ \ {h}, !.processed = @ + 1])

(* The updater task: queue one update, then apply what is next in order.   *)
queue_update(u, h, adds) ==
  IF h <= u.last \/ h > u.stop \/ h \in DOMAIN u.pending
  THEN [u EXCEPT !.state = "panicked"]
  ELSE [u EXCEPT !.pending = Put(@, h, adds)]

try_next(u) ==
  LET last == Max({u.last} \cup {h \in DOMAIN u.pending :
                                   \A i \in u.last + 1..h : i \in DOMAIN u.pending})
      new == FlattenSeq([i \in 1..last - u.last |-> u.pending[u.last + i]])
  IN  [u EXCEPT !.last = last, !.acc = @ \o new, !.pending = Drop(@, 1..last),
                !.state = IF last = u.stop THEN "done" ELSE @]

-----------------------------------------------------------------------------
CanFail == faults < FaultBound /\ faults' = faults + 1
Running == phase = "swift"

(* run, up to its loop: SwiftSync only starts at height zero, and only if  *)
(* the whole range is below the AssumeValid block.                         *)
Start ==
  /\ phase = "start"
  /\ LET stop == StopHeight(n)
         go == ValidAtStart = 0 /\ stop <= AssumeValid
     IN  /\ phase' = IF go THEN "swift" ELSE "skipped"
         /\ n' = IF go THEN [n EXCEPT !.lastReq = 0,
                               !.user = Restrict(@, {r \in DOMAIN @ : r[1] # "Block"})]
                 ELSE [n EXCEPT !.valid = ValidAtStart]
         /\ up' = IF go THEN up @@ [stop |-> stop] ELSE up
  /\ UNCHANGED <<faults, kills>>

(* run, after its loop: the updater's channel is dropped.                  *)
Leave(why) == phase' = why /\ up' = [up EXCEPT !.chan = <<>>]

Tick(due) ==
  /\ Running
  /\ due # {"connect"} => \A p \in PeerIds : Len(n.wire[p]) <= MaxQueue
  /\ IF n.abort # 0 THEN n' = n /\ Leave("aborted")
     ELSE IF AllProcessed(n) /\ up.state = "done"
     THEN /\ n' = handle_stop_height_reached(n)
          /\ Leave(IF n'.abort = 0 THEN "assumed" ELSE "aborted")
     ELSE IF AllProcessed(n) /\ up.state = "panicked" THEN n' = n /\ Leave("panicked")
     ELSE n' \in maintenance_tick(n, due) /\ UNCHANGED <<up, phase>>
  /\ UNCHANGED <<faults, kills>>

Kill ==
  /\ Running /\ kills < KillBound /\ kills' = kills + 1
  /\ Leave("stopped") /\ UNCHANGED <<n, faults>>

(* A worker finished block b, and the node handles what it reports.        *)
WorkerDone(b) ==
  /\ Running /\ b \in n.proc
  /\ LET h == HeightOf(b)
         blk == n.blocks[b]
         m == [n EXCEPT !.proc = @ \ {b}, !.blocks = Drop(@, {b})]
     IN  IF n.abort # 0 THEN n' = [n EXCEPT !.proc = @ \ {b}] /\ UNCHANGED up
         ELSE IF blk.good /\ b \notin Invalid
         THEN /\ n' \in After(handle_valid_block(m, b), pump_swiftsync)
              /\ up' = [up EXCEPT !.chan = Append(@, h)]
         ELSE n' \in Logged({handle_invalid_block(m, b, blk)}) /\ UNCHANGED up
  /\ UNCHANGED <<phase, faults, kills>>

Update ==
  /\ Running /\ up.chan # <<>> /\ up.state = "none"
  /\ LET h == Head(up.chan)
         u == queue_update([up EXCEPT !.chan = Tail(@)], h,
                           process_block_swiftsync(Best[h], n.file[h]).utreexo_adds)
     IN  up' = IF u.state = "panicked" THEN u ELSE try_next(u)
  /\ UNCHANGED <<n, phase, faults, kills>>

Handle(p, good) ==
  /\ n' \in handle_message(IF ~good /\ p \in DOMAIN n.peers
                           THEN [Pop(n, p) EXCEPT !.peers[p].lied = TRUE] ELSE Pop(n, p),
                           p, Head(n.wire[p]), good)
  /\ UNCHANGED <<up, phase, kills>>
Answer(p) ==
  /\ Running /\ n.wire[p] # <<>> /\ Head(n.wire[p]) # <<"Shutdown">>
  /\ Handle(p, TRUE) /\ UNCHANGED faults
BadAnswer(p) ==
  /\ Running /\ CanFail /\ n.wire[p] # <<>> /\ Head(n.wire[p])[1] = "GetBlock"
  /\ Handle(p, FALSE)
NoAnswer(p) ==
  /\ Running /\ CanFail /\ n.wire[p] # <<>> /\ Head(n.wire[p])[1] = "GetBlock"
  /\ n' = Pop(n, p) /\ UNCHANGED <<up, phase, kills>>
Stop(p) ==
  /\ Running /\ n.wire[p] # <<>> /\ Head(n.wire[p]) = <<"Shutdown">>
  /\ n' = TaskEnds(n, p) /\ UNCHANGED <<up, phase, faults, kills>>
HangUp(p) ==
  /\ Running /\ CanFail /\ p \in DOMAIN n.peers \ n.closed /\ n.peers[p].state # "Awaiting"
  /\ n' = TaskEnds(n, p) /\ UNCHANGED <<up, phase, kills>>

(* A request is older than its timeout: none will come, or it is late.     *)
Expire(k) ==
  /\ Running /\ ~n.inflight[k].late
  /\ n' = [n EXCEPT !.inflight[k].late = TRUE] /\ UNCHANGED <<up, phase, kills>>
ExpireDead == \E k \in DOMAIN n.inflight : ~Pending(n, k) /\ Expire(k) /\ UNCHANGED faults
ExpireLate == \E k \in DOMAIN n.inflight : Pending(n, k) /\ Expire(k) /\ CanFail

Ended == phase \notin {"start", "swift"} /\ UNCHANGED vars

Next ==
  \/ Start \/ \E due \in Jobs : Tick(due)
  \/ Kill \/ Update
  \/ \E b \in ToSet(Best) : WorkerDone(b)
  \/ \E p \in PeerIds : Answer(p) \/ BadAnswer(p) \/ NoAnswer(p) \/ Stop(p) \/ HangUp(p)
  \/ ExpireDead \/ ExpireLate \/ Ended

Spec == Init /\ [][Next]_vars

(* Ticks, peers, workers, the updater and the clock all run on.            *)
Progress == \/ Update \/ \E b \in ToSet(Best) : WorkerDone(b)
            \/ \E p \in PeerIds : Answer(p) \/ Stop(p)
            \/ Start \/ ExpireDead \/ \E due \in Jobs : Tick(due)

(* ENABLED <<Progress>>_vars, written out: Fairness is WF_vars(Progress).  *)
CanProgress ==
  \/ phase = "start"
  \/ /\ Running
     /\ \/ n.abort # 0 \/ n.proc # {}
        \/ up.chan # <<>> /\ up.state = "none"
        \/ AllProcessed(n) /\ up.state # "none"
        \/ TaskOrClock(n)
        \/ \E due \in Jobs : \E m \in maintenance_tick(n, due) : m # n
Fairness == []<>~CanProgress \/ []<><<Progress>>_vars
FairSpec == Spec /\ Fairness

-----------------------------------------------------------------------------
(* Workers hold blocks of the chain, the updater is in one of its states, and *)
(* run ends in one of the ways it has (SwiftSync::run).                    *)
TypeOK ==
  /\ n.proc \subseteq ToSet(Best) /\ n.processed \in 0..Len(Best) /\ ~n.err
  /\ up.state \in {"none", "done", "panicked"} /\ up.last \in 0..Len(Best)
  /\ phase \in {"start", "skipped", "swift", "assumed", "aborted", "stopped", "panicked"}

(* "The caller must send exactly one update for each height": the updater  *)
(* task never sees a stale, repeated or out-of-range height, whatever      *)
(* blocks are retried, mutated or processed out of order.                  *)
UpdaterNeverPanics == up.state # "panicked"

(* Up to the last height asked for, every block is in exactly one place:   *)
(* requested, in memory, or processed (its hints are gone).  None is lost  *)
(* and none is counted twice, so processed_blocks stays below the stop.    *)
PlacesOf(h) ==
  {place \in {"requested", "memory", "processed"} :
     CASE place = "requested" -> <<"Blocks", Best[h]>> \in DOMAIN n.inflight
       [] place = "memory" -> Best[h] \in DOMAIN n.blocks
       [] place = "processed" -> h \notin n.hints}
NoBlockLost ==
  Running /\ n.abort = 0 =>
    /\ \A h \in 1..n.lastReq : Cardinality(PlacesOf(h)) = 1
    /\ n.processed = Cardinality(DOMAIN n.file \ n.hints)

(* The worker limit is kept, and a worker only has a block in memory.      *)
WorkersBounded ==
  Cardinality(n.proc) <= max_workers /\ (Running => n.proc \subseteq DOMAIN n.blocks)

(* When SwiftSync succeeds, the leaves that are not empty are the outputs  *)
(* created and not spent up to the stop height, in chain order: a hints    *)
(* file that is wrong about one output, or an invalid block, never gets    *)
(* this far.                                                               *)
CreatedUpTo(h) == FlattenSeq([i \in 1..h |-> Outputs[Best[i]]])
SpentUpTo(h) == UNION {Inputs[Best[i]] : i \in 1..h}
AccumulatorIsUtxoSet ==
  phase = "assumed" =>
    /\ SelectSeq(up.acc, LAMBDA o : o # Empty_) =
         SelectSeq(CreatedUpTo(n.valid), LAMBDA o : o \notin SpentUpTo(n.valid) \cup Unspendable)
    /\ \A h \in 1..n.valid : Best[h] \notin Invalid

(* Only a peer whose block failed validation is banned: for transactions   *)
(* of its own, or for the block that ends the sync.                        *)
OnlyLiarsBanned ==
  \A p \in DOMAIN n.peers : n.peers[p].state = "Banned" => n.peers[p].lied \/ n.abort # 0

(* SwiftSync ends: assumed, aborted, skipped or stopped, never panicking.  *)
SwiftSyncEnds == <>(phase \in {"assumed", "aborted", "skipped", "stopped"})
==============================================================================
