------------------------------ MODULE NodeCommon ------------------------------
(***************************************************************************)
(* The state and the methods that every context of UtreexoNode shares      *)
(* (node/mod.rs, peer_man.rs, conn.rs, blocks.rs, user_req.rs): the peers, *)
(* the requests in flight, the timeouts and retries, bans, the block and   *)
(* proof download.  The node is one record n, with the fields of           *)
(* NodeCommon; a method maps n to the SET of its outcomes, because the     *)
(* peer it picks is random.  n.err is set when a method returned an error. *)
(*                                                                         *)
(* n.wire[p] is what the task of peer p still has to do, in order: each    *)
(* request is answered (or not) when it reaches the head.  p \in n.closed  *)
(* when that task ended, so that sending to it fails.  Peer ids are reused *)
(* once nothing refers to them (peer_id_count is a u32 that only grows).   *)
(* The lied field of a peer is a ghost: it sent data that do not verify.   *)
(***************************************************************************)
EXTENDS Integers, FiniteSets, Sequences, FiniteSetsExt, SequencesExt

CONSTANTS
  PeerIds,       \* bound: how many peers (and dying peer tasks) at once
  Addr,          \* the addresses the address manager knows
  Offers,        \* Offers[a]: the services announced by the node at a
  FixedPeers,    \* the addresses given with --connect
  Best,          \* the best chain of headers, a sequence of blocks
  CoinbaseOnly,  \* the blocks with one transaction: they need no proof
  Invalid,       \* the blocks that break a consensus rule
  MAX_OUTGOING_PEERS,
  NEW_CONNECTIONS_BATCH_SIZE,
  BLOCKS_PER_GETDATA,
  MAX_CONCURRENT_GETDATA,
  MAX_INFLIGHT_REQUESTS,
  MIN_SAMPLES,   \* latency samples needed to name the slowest peer
  max_banscore,  \* in units of one misbehaviour
  NoPeer

Services == {"NETWORK", "UTREEXO", "COMPACT_FILTERS"}
Empty == [x \in {} |-> x]
Put(f, k, v) == [x \in DOMAIN f \cup {k} |-> IF x = k THEN v ELSE f[x]]
Drop(f, K) == Restrict(f, DOMAIN f \ K)

(* NodeCommon and UtreexoNode::new: no peer, nothing requested.            *)
New ==
  [peers |-> Empty, ids |-> {}, bySvc |-> [s \in Services |-> {}],
   inflight |-> Empty, user |-> Empty, blocks |-> Empty, added |-> {},
   book |-> [a \in Addr |-> "NeverTried"], lastReq |-> 0,
   best |-> Best, valid |-> 0, filters |-> 0,
   wire |-> [p \in PeerIds |-> <<>>], closed |-> {}, err |-> FALSE]

-----------------------------------------------------------------------------
(* Sequencing of methods: "?" stops at the first error, try_and_log! and   *)
(* let _ = forget it.                                                      *)
Fail(n) == [n EXCEPT !.err = TRUE]
Logged(S) == {[m EXCEPT !.err = FALSE] : m \in S}
Then(S, op(_)) == UNION {IF m.err THEN {m} ELSE op(m) : m \in S}
After(S, op(_)) == UNION {op(m) : m \in Logged(S)}

(* periodic_job!: op, if job is among those that are due.                  *)
IfDue(due, job, S, op(_)) == Logged(After(S, LAMBDA m : IF job \in due THEN op(m) ELSE {m}))

(* ConnectionKind and its predicates.                                      *)
Regular == {"FullRelay", "BlockRelayOnly"}
LongLived == Regular \cup {"Manual"}
ShortLived == {"Feeler", "AddrFetch"}
FullRelay == {"FullRelay", "Manual"}

ReadyPeers(n) == {p \in DOMAIN n.peers : n.peers[p].state = "Ready"}
connected_peers(n) == Cardinality({p \in ReadyPeers(n) : n.peers[p].kind \in LongLived})
has_utreexo_peers(n) == n.bySvc["UTREEXO"] # {}

-----------------------------------------------------------------------------
(* Sending.  The channel of a peer whose task ended refuses the request;   *)
(* what comes after a Shutdown is not looked at.                           *)
Queue(w, reqs) == IF <<"Shutdown">> \in ToSet(w) THEN w ELSE w \o reqs
channel_send(n, p, req) ==
  IF p \in n.closed THEN Fail(n) ELSE [n EXCEPT !.wire[p] = Queue(@, <<req>>)]

send_to_peer(n, p, req) ==
  IF p \notin DOMAIN n.peers \/ n.peers[p].state = "Awaiting" THEN n
  ELSE channel_send(n, p, req)

(* getheaders, with the locator of a chain.                                *)
GetHeaders(chain) == <<"GetHeaders", chain>>

(* A Ready peer with the services and at least one latency sample.         *)
choose_peer_by_latency(n, needs) ==
  {p \in ReadyPeers(n) : needs \subseteq n.peers[p].services /\ n.peers[p].timed}

(* send_to_fast_peer(reqs)?, then record keys as in flight at that peer.   *)
AskFastPeer(n, needs, reqs, keys) ==
  LET Ask(p) ==
        LET m == channel_send(n, p, Head(reqs)) IN
        IF m.err THEN m
        ELSE [m EXCEPT !.wire[p] = Queue(n.wire[p], reqs),
                       !.inflight = [k \in DOMAIN @ \cup keys |->
                          IF k \in keys THEN [peer |-> p, late |-> FALSE] ELSE @[k]]]
  IN  IF choose_peer_by_latency(n, needs) = {} THEN {Fail(n)}
      ELSE {Ask(p) : p \in choose_peer_by_latency(n, needs)}

(* send_to_peer(req)?, then record key as in flight at p.                  *)
AskPeer(n, p, req, key) ==
  LET m == send_to_peer(n, p, req) IN
  IF m.err THEN m
  ELSE [m EXCEPT !.inflight = Put(@, key, [peer |-> p, late |-> FALSE])]

(* send_to_random_peer, with or without a predicate: one of the ready ids. *)
SendToRandomPeer(n, from, req) ==
  IF from = {} THEN {Fail(n)} ELSE {channel_send(n, p, req) : p \in from}
ask_for_addresses(n) ==
  SendToRandomPeer(n, {p \in n.ids : n.peers[p].state = "Ready" /\ n.peers[p].kind \in FullRelay},
                   <<"GetAddresses">>)

broadcast_to_peers(n, req) ==
  LET to == {p \in ReadyPeers(n) \ n.closed :
               req[1] = "Tx" => n.peers[p].kind \in FullRelay}
  IN  [n EXCEPT !.wire = [p \in PeerIds |-> IF p \in to THEN Queue(@[p], <<req>>) ELSE @[p]]]

-----------------------------------------------------------------------------
(* Block download (blocks.rs).                                             *)
IsBlockReq(k) == k[1] = "Blocks"
unprocessed_blocks(n) ==
  Cardinality(DOMAIN n.blocks) + Cardinality({k \in DOMAIN n.inflight : IsBlockReq(k)})
can_request_more_blocks(n) ==
  unprocessed_blocks(n) + BLOCKS_PER_GETDATA <= BLOCKS_PER_GETDATA * MAX_CONCURRENT_GETDATA

(* Mutant of request_blocks: what is in memory is asked for again.         *)
RequestPending(n, bs) ==
  LET wanted == SelectSeq(bs, LAMBDA b : <<"Blocks", b>> \notin DOMAIN n.inflight)
  IN  IF wanted = <<>> THEN {n}
      ELSE AskFastPeer(n, {"NETWORK"},
                       [i \in DOMAIN wanted |-> <<"GetBlock", wanted[i]>>],
                       {<<"Blocks", b>> : b \in ToSet(wanted)})

request_blocks(n, bs) ==
  LET wanted == SelectSeq(bs, LAMBDA b : /\ <<"Blocks", b>> \notin DOMAIN n.inflight
                                         /\ b \notin DOMAIN n.blocks)
  IN  IF wanted = <<>> THEN {n}
      ELSE AskFastPeer(n, {"NETWORK"},
                       [i \in DOMAIN wanted |-> <<"GetBlock", wanted[i]>>],
                       {<<"Blocks", b>> : b \in ToSet(wanted)})

request_proof(n, b) ==
  AskFastPeer(n, {"UTREEXO"}, <<<<"GetProof", b>>>>, {<<"UtreexoProof", b>>})

(* InflightBlock::new: a block with only a coinbase is ready at once.      *)
InflightBlock(b, p, good) ==
  [peer |-> p, good |-> good, prover |-> NoPeer,
   proof |-> IF b \in CoinbaseOnly THEN "good" ELSE "none"]
HasProof(blk) == blk.proof # "none"

(* A block from peer p, with its original transactions or not.  A block a  *)
(* user waits for goes to the user, and only there.                        *)
request_block_proof(n, b, p, good) ==
  LET m == [n EXCEPT !.inflight = Drop(@, {<<"Blocks", b>>})]
      k == [m EXCEPT !.blocks = Put(@, b, InflightBlock(b, p, good))]
  IN  IF <<"Block", b>> \in DOMAIN m.user
      THEN {[m EXCEPT !.user = Drop(@, {<<"Block", b>>})]}
      ELSE IF b \in CoinbaseOnly THEN {k} ELSE request_proof(k, b)

(* increase_banscore and disconnect_and_ban: manual peers are exempt.      *)
disconnect_and_ban(n, p) ==
  IF p \notin DOMAIN n.peers \/ n.peers[p].kind = "Manual" THEN n
  ELSE send_to_peer([n EXCEPT !.peers[p].state = "Banned"], p, <<"Shutdown">>)

increase_banscore(n, p) ==
  IF p \notin DOMAIN n.peers \/ n.peers[p].kind = "Manual" THEN n
  ELSE LET m == [n EXCEPT !.peers[p].ban = Min({@ + 1, max_banscore})] IN
       IF m.peers[p].ban >= max_banscore \/ m.peers[p].kind = "Extra"
       THEN disconnect_and_ban(m, p) ELSE m

attach_proof(n, b, p, good) ==
  LET m == [n EXCEPT !.inflight = Drop(@, {<<"UtreexoProof", b>>})] IN
  IF b \notin DOMAIN m.blocks THEN increase_banscore(m, p)
  ELSE [m EXCEPT !.blocks[b].prover = p,
                   !.blocks[b].proof = IF good THEN "good" ELSE "bad"]

ask_for_missed_proofs(n) ==
  LET missed == {b \in DOMAIN n.blocks : /\ ~HasProof(n.blocks[b])
                                         /\ <<"UtreexoProof", b>> \notin DOMAIN n.inflight}
  IN  IF ~has_utreexo_peers(n) THEN {n}
      ELSE FoldSet(LAMBDA b, S : Then(S, LAMBDA m : request_proof(m, b)), {n}, missed)

(* Mutant of process_block: the result of validation is not looked at.     *)
ProcessUnchecked(n, b) == [n EXCEPT !.blocks = Drop(@, {b}), !.valid = @ + 1]

(* process_block, with handle_block_error and the two blame functions: a   *)
(* bad proof bans the prover and keeps the block; a block with mutated     *)
(* transactions bans its sender and is dropped; a block that breaks a rule *)
(* is invalidated with all that builds on it, and nobody is punished.      *)
process_block(n, b) ==
  LET blk == n.blocks[b]
      m == [n EXCEPT !.blocks = Drop(@, {b})]
  IN  CASE blk.proof = "bad" -> Fail(disconnect_and_ban(
               [m EXCEPT !.blocks = Put(@, b, InflightBlock(b, blk.peer, blk.good))],
               blk.prover))
        [] blk.proof = "good" /\ ~blk.good -> Fail(disconnect_and_ban(m, blk.peer))
        [] blk.proof = "good" /\ blk.good /\ b \in Invalid ->
               [m EXCEPT !.best = SubSeq(@, 1, n.valid)]
        [] OTHER -> [m EXCEPT !.valid = @ + 1]

(* The loop of process_pending_blocks runs at most once per missing block. *)
process_pending_blocks(n) ==
  LET Step(m) ==
        IF m.err \/ m.valid + 1 > Len(m.best) THEN m
        ELSE LET b == m.best[m.valid + 1] IN
             IF b \notin DOMAIN m.blocks \/ ~HasProof(m.blocks[b]) THEN m
             ELSE process_block(m, b)
  IN  FoldSet(LAMBDA i, m : Step(m), n, 1..Len(n.best))

-----------------------------------------------------------------------------
(* Retrying what a peer left unanswered (peer_man.rs).                     *)
redo_inflight_request(n, k) ==
  CASE k[1] = "UtreexoProof" ->
         IF ~has_utreexo_peers(n) \/ k[2] \notin DOMAIN n.blocks \/ k \in DOMAIN n.inflight
         THEN {n} ELSE request_proof(n, k[2])
    [] k[1] = "Blocks" -> request_blocks(n, <<k[2]>>)
    [] k[1] = "Headers" -> AskFastPeer(n, {}, <<GetHeaders(n.best)>>, {<<"Headers">>})
    [] k[1] = "GetFilters" ->
         IF n.bySvc["COMPACT_FILTERS"] = {} THEN {n}
         ELSE AskFastPeer(n, {"COMPACT_FILTERS"}, <<<<"GetFilter", n.filters + 1>>>>,
                          {<<"GetFilters">>})
    [] OTHER -> {n}

(* An id that will not be heard of again is recorded as NoPeer.            *)
OrGone(n, p) == IF p # NoPeer /\ p \in n.closed /\ n.wire[p] = <<>> THEN NoPeer ELSE p

(* Retry k, or put it back as it was.  Retries do not interfere with each  *)
(* other, so the order in which a HashMap yields them does not matter.     *)
Retry(S, k, old) ==
  UNION {{IF m.err THEN [m EXCEPT !.inflight = Put(@, k, [old EXCEPT !.peer = OrGone(m, @)]),
                                  !.err = FALSE] ELSE m :
            m \in redo_inflight_request([s EXCEPT !.inflight = Drop(@, {k})], k)} : s \in S}

(* Mutant of LeftAs: who was banned left in peace.                         *)
LeftAsTried(peer) == IF peer.state = "Awaiting" THEN "Failed" ELSE "Tried"

(* The address of a peer that leaves; a manual peer has no entry there.    *)
LeftAs(peer) == [Ready |-> "Tried", Awaiting |-> "Failed", Banned |-> "Banned"][peer.state]
NoteAddress(n, p, st) ==
  IF n.peers[p].kind = "Manual" THEN n ELSE [n EXCEPT !.book[n.peers[p].addr] = st]

(* Mutant of Forget: the lists of peers by service are forgotten.          *)
ForgetKeepsServices(n, p) ==
  LET m == IF p \in DOMAIN n.peers THEN NoteAddress(n, p, LeftAs(n.peers[p])) ELSE n
  IN  [m EXCEPT !.peers = Drop(@, {p}), !.ids = @ \ {p},
                !.user = Restrict(@, {r \in DOMAIN @ : @[r] # p}),
                !.wire[p] = IF p \in n.closed THEN @ ELSE <<<<"Shutdown">>>>]

(* What the node forgets of p.  p's task, if it still runs, stops when its *)
(* channel is dropped, and whatever it still sends is ignored.             *)
Forget(n, p) ==
  LET m == IF p \in DOMAIN n.peers THEN NoteAddress(n, p, LeftAs(n.peers[p])) ELSE n
  IN  [m EXCEPT !.peers = Drop(@, {p}), !.ids = @ \ {p},
                !.bySvc = [s \in Services |-> @[s] \ {p}],
                !.user = Restrict(@, {r \in DOMAIN @ : @[r] # p}),
                !.blocks = [b \in DOMAIN @ |-> [@[b] EXCEPT
                               !.peer = IF @ = p THEN NoPeer ELSE @,
                               !.prover = IF @ = p THEN NoPeer ELSE @]],
                !.wire[p] = IF p \in n.closed THEN @ ELSE <<<<"Shutdown">>>>]

handle_disconnection(n, p) ==
  LET lost == {k \in DOMAIN n.inflight : n.inflight[k].peer = p}
  IN  FoldSet(LAMBDA k, S : Retry(S, k, n.inflight[k]), {Forget(n, p)}, lost)

(* check_for_timeout: a peer that let a request expire is disconnected,    *)
(* unless the user added it, and the request goes to another peer.         *)
Disconnects(n, p, k) ==
  p \in DOMAIN n.peers /\ (n.peers[p].kind # "Manual" \/ k[1] = "Connect")
Excused(n, p, k) ==
  k[1] = "GetAddresses" /\ p \in DOMAIN n.peers /\ n.peers[p].kind \notin ShortLived
Dropped(n, p) ==
  handle_disconnection([send_to_peer(n, p, <<"Shutdown">>) EXCEPT !.err = FALSE], p)
Expired(n, k, old) ==
  IF Excused(n, old.peer, k) THEN {n}
  ELSE Retry(IF Disconnects(n, old.peer, k) THEN Dropped(n, old.peer) ELSE {n}, k, old)
TimedOut(S, k) ==
  UNION {IF k \notin DOMAIN n.inflight \/ ~n.inflight[k].late THEN {n}
         ELSE Expired([n EXCEPT !.inflight = Drop(@, {k})], k, n.inflight[k]) : n \in S}

(* Mutant of check_for_timeout: nothing ever times out.                    *)
CheckNothing(n) == {n}

check_for_timeout(n) ==
  FoldSet(LAMBDA k, S : TimedOut(S, k), {n}, {k \in DOMAIN n.inflight : n.inflight[k].late})

-----------------------------------------------------------------------------
(* Connections (conn.rs).                                                  *)
InUse(n) ==
  DOMAIN n.peers \cup {p \in PeerIds : n.wire[p] # <<>>} \cup {n.user[r] : r \in DOMAIN n.user}
    \cup {n.inflight[k].peer : k \in DOMAIN n.inflight}
    \cup UNION {{n.blocks[b].peer, n.blocks[b].prover} : b \in DOMAIN n.blocks}

(* The connection is attempted by a task of its own, for ten seconds.      *)
open_connection(n, kind, needs, a) ==
  IF PeerIds \subseteq InUse(n) THEN Fail(n)
  ELSE LET p == CHOOSE q \in PeerIds \ InUse(n) : TRUE IN
       [n EXCEPT !.peers = Put(@, p, [addr |-> a, kind |-> kind, needs |-> needs,
                     state |-> "Awaiting", services |-> {}, ban |-> 0, timed |-> FALSE,
                     lied |-> FALSE]),
                 !.inflight = Put(@, <<"Connect", p>>, [peer |-> p, late |-> FALSE]),
                 !.wire[p] = <<<<"Connect">>>>, !.closed = @ \ {p}]

ConnectedAddrs(n) == {n.peers[p].addr : p \in DOMAIN n.peers}

(* get_address_to_connect: what is not banned or connected; a failed one   *)
(* again after RETRY_TIME, which is longer than an attempt may last.       *)
AddressesToConnect(n) ==
  {a \in Addr : \/ n.book[a] \in {"NeverTried", "Tried"}
                \/ n.book[a] = "Failed" /\ ~\E p \in DOMAIN n.peers :
                        n.peers[p].addr = a /\ n.peers[p].state = "Awaiting"}

(* The guard against two connections to one address compares whole         *)
(* LocalAddresses, state included, and the state of the candidate changed  *)
(* since the peer was opened: it never finds a peer.                       *)
create_connection(n, kind, needs) ==
  IF FixedPeers # {}
  THEN LET free == FixedPeers \ ConnectedAddrs(n) IN
       IF free = {} THEN {Fail(n)}
       ELSE {open_connection(n, "Manual", {}, CHOOSE a \in free : TRUE)}
  ELSE IF AddressesToConnect(n) = {} THEN {Fail(n)}
  ELSE {open_connection([n EXCEPT !.book[a] = "Failed"], kind, needs, a) :
          a \in AddressesToConnect(n)}

open_feeler_connection(n) ==
  IF FixedPeers # {} THEN {n}
  ELSE FoldSet(LAMBDA i, S : Then(S, LAMBDA m : create_connection(m, "Feeler", {})),
               {n}, 1..NEW_CONNECTIONS_BATCH_SIZE)

maybe_open_connection_with_added_peers(n) ==
  FoldSet(LAMBDA a, m : IF m.err THEN m ELSE open_connection(m, "Manual", {}, a),
          n, n.added \ ConnectedAddrs(n))

CreateConnections(n, needs) ==
  LET missing == Cardinality(FixedPeers) - Cardinality(DOMAIN n.peers)
      Batch == IF FixedPeers # {} THEN missing ELSE NEW_CONNECTIONS_BATCH_SIZE
  IN  IF n.err \/ connected_peers(n) >= MAX_OUTGOING_PEERS THEN {n}
      ELSE FoldSet(LAMBDA i, S : Logged(After(S, LAMBDA k :
                                           create_connection(k, "FullRelay", needs))),
                   {n}, 1..Batch)

maybe_open_connection(n, needs) ==
  CreateConnections(maybe_open_connection_with_added_peers(n), needs)

(* Disconnect the slowest regular peer without the protected services: any *)
(* of them may be the slowest, and unless always is set it may be fast     *)
(* enough.                                                                 *)
maybe_disconnect_slowest_peer(n, protected, always) ==
  LET slow == {p \in DOMAIN n.peers : /\ n.peers[p].kind \in Regular /\ n.peers[p].timed
                                      /\ n.peers[p].services \cap protected = {}}
      told == {send_to_peer(n, p, <<"Shutdown">>) : p \in slow}
  IN  IF Cardinality(slow) < MIN_SAMPLES THEN {n} ELSE told \cup (IF always THEN {} ELSE {n})

disconnect_random_peers(n, P) ==
  [n EXCEPT !.wire = [p \in PeerIds |->
      IF p \in P \ n.closed THEN Queue(@[p], <<<<"Shutdown">>>>) ELSE @[p]]]

-----------------------------------------------------------------------------
(* A peer finished its handshake (handle_peer_ready).                      *)
Ready(n, p) ==
  LET over == /\ connected_peers(n) > MAX_OUTGOING_PEERS
              /\ ~(n.peers[p].kind = "FullRelay" /\ "UTREEXO" \in n.peers[p].needs)
              /\ n.peers[p].kind \notin {"Manual", "Extra"}
  IN  IF over THEN [n EXCEPT !.peers[p].kind = "AddrFetch"] ELSE n

Welcome(n, p) ==
  LET sv == n.peers[p].services
      m == NoteAddress([n EXCEPT !.ids = @ \cup {p},
             !.bySvc = [s \in Services |-> IF s \in sv THEN @[s] \cup {p} ELSE @[s]]],
             p, "Connected")
  IN  IF n.peers[p].kind = "BlockRelayOnly" THEN AskPeer(m, p, GetHeaders(m.best), <<"Headers">>)
      ELSE m

Tried(n, p) == IF n.err THEN n ELSE NoteAddress(n, p, "Tried")

(* Its services are known; without those the connection is for, it has to  *)
(* go.                                                                     *)
Known(n, p) == [n EXCEPT !.peers[p].services = Offers[n.peers[p].addr]]
Accepted(n, p) ==
  IF n.err THEN n
  ELSE IF n.peers[p].kind \in Regular /\ ~(n.peers[p].needs \subseteq Offers[n.peers[p].addr])
  THEN Tried(channel_send(Known(n, p), p, <<"Shutdown">>), p)
  ELSE Welcome(Known(n, p), p)

Greeted(n, p) ==
  LET kind == n.peers[p].kind
      asked == AskPeer(n, p, <<"GetAddresses">>, <<"GetAddresses">>)
  IN  CASE kind = "Feeler" -> send_to_peer(NoteAddress(n, p, "Tried"), p, <<"Shutdown">>)
        [] kind = "AddrFetch" -> Tried(asked, p)
        [] kind = "Extra" -> AskPeer(Known(n, p), p, GetHeaders(n.best), <<"Headers">>)
        [] OTHER -> Accepted(IF kind = "BlockRelayOnly" THEN n ELSE asked, p)

handle_peer_ready(n, p) ==
  Greeted(Ready([n EXCEPT !.inflight = Drop(@, {<<"Connect", p>>}),
                          !.peers[p].state = "Ready"], p), p)

handle_addresses_from_peer(n, p) ==
  LET m == [n EXCEPT !.inflight = Drop(@, {<<"GetAddresses">>})] IN
  IF n.peers[p].kind = "AddrFetch" THEN send_to_peer(m, p, <<"Shutdown">>) ELSE m

(* register_message_time: a sample, if p is who we are waiting for.        *)
register_message_time(n, p, k) ==
  IF /\ k[1] \in {"Blocks", "Connect", "Headers", "GetFilters"}
     /\ k \in DOMAIN n.inflight /\ n.inflight[k].peer = p /\ p \in DOMAIN n.peers
  THEN [n EXCEPT !.peers[p].timed = TRUE] ELSE n

(* What the request in flight for a message to peer p is filed under.      *)
Key(p, req) == CASE req[1] = "GetBlock" -> <<"Blocks", req[2]>>
                 [] req[1] = "GetProof" -> <<"UtreexoProof", req[2]>>
                 [] req[1] = "Connect" -> <<"Connect", p>>
                 [] req[1] = "GetHeaders" -> <<"Headers">>
                 [] OTHER -> <<req[1]>>

-----------------------------------------------------------------------------
(* Requests of the user (user_req.rs) and addnode.  A request that cannot  *)
(* be sent is dropped, and its caller gets an error.                       *)
ForwardUserRequest(n, r, needs, req) ==
  IF Cardinality(DOMAIN n.inflight) >= MAX_INFLIGHT_REQUESTS THEN {n}
  ELSE {IF m.err THEN [m EXCEPT !.err = FALSE]
        ELSE [m EXCEPT !.user = Put(@, r, m.inflight[r].peer), !.inflight = Drop(@, {r})] :
          m \in AskFastPeer(n, needs, <<req>>, {r})}

addnode_add(n, a) ==
  IF a \in n.added THEN n
  ELSE [maybe_open_connection_with_added_peers([n EXCEPT !.added = @ \cup {a}])
          EXCEPT !.err = FALSE]
addnode_remove(n, a) == [n EXCEPT !.added = @ \ {a}]
addnode_onetry(n, a) ==
  IF a \in ConnectedAddrs(n) THEN n
  ELSE [open_connection(n, "Manual", {}, a) EXCEPT !.err = FALSE]
disconnect_peer(n, a) ==
  {[send_to_peer(n, p, <<"Shutdown">>) EXCEPT !.err = FALSE] :
     p \in {q \in DOMAIN n.peers : n.peers[q].addr = a}}

Forwarded == [Block |-> "GetBlock", Tx |-> "GetTx", CFHeaders |-> "GetCFHeaders"]
perform_user_request(n, r) ==
  CASE r[1] \in DOMAIN Forwarded ->
         ForwardUserRequest(n, r, IF r[1] = "CFHeaders" THEN {"COMPACT_FILTERS"} ELSE {},
                            <<Forwarded[r[1]], r[2]>>)
    [] r[1] \in {"Ping", "SendTx"} ->
         {broadcast_to_peers(n, IF r[1] = "Ping" THEN <<"Ping">> ELSE <<"Tx">>)}
    [] r[1] = "Add" -> {addnode_add(n, r[2])}
    [] r[1] = "Remove" -> {addnode_remove(n, r[2])}
    [] r[1] = "Onetry" -> {addnode_onetry(n, r[2])}
    [] r[1] = "Disconnect" -> disconnect_peer(n, r[2])

(* What the task of peer p does beside the node: it takes the next request *)
(* from its channel, or it ends and reports that.                          *)
Pop(n, p) == [n EXCEPT !.wire[p] = Tail(@)]
TaskEnds(n, p) == [n EXCEPT !.closed = @ \cup {p}, !.wire[p] = <<<<"Disconnected">>>>]
AttemptFails(n, p) == [n EXCEPT !.wire[p] = <<>>, !.closed = @ \cup {p}]

(* An answer to request k may still come.                                  *)
Pending(n, k) ==
  n.inflight[k].peer # NoPeer /\ \E i \in DOMAIN n.wire[n.inflight[k].peer] :
     Key(n.inflight[k].peer, n.wire[n.inflight[k].peer][i]) = k

(* A peer task has something to do, or a request nobody will answer has to *)
(* expire.                                                                 *)
TaskOrClock(n) ==
  \/ \E p \in PeerIds : n.wire[p] # <<>>
  \/ \E k \in DOMAIN n.inflight : ~n.inflight[k].late /\ ~Pending(n, k)

(* Answers to the user: the transaction, the filter headers, or NotFound.  *)
CompleteUserRequest(n, r) == [n EXCEPT !.user = Drop(@, {r})]
==============================================================================
