------------------------------ MODULE RunningNode ------------------------------
(***************************************************************************)
(* The node after the initial sync (node/running_ctx.rs): peers announce   *)
(* new blocks, their headers are fetched and accepted, the blocks of the   *)
(* best chain are downloaded, proved and validated; extra peers are tried  *)
(* when the tip looks stale, and promoted when they bring new headers.     *)
(* The chain of headers is kept as in ChainState, with equal work.         *)
(***************************************************************************)
EXTENDS HeaderChain, TLC

CONSTANTS
  MAX_REORG_DEPTH,
  MAX_LAST_INVS,
  Jobs,        \* the periodic jobs that may fall due, beside "connect"
  JobBound,    \* bound: how many times they do
  FaultBound   \* bound: how often a peer fails, lies or is late

VARIABLES
  n,        \* NodeCommon, with known: the headers we have; invs: last_invs
  mined,    \* the blocks that exist so far
  faults, jobs

vars == <<n, mined, faults, jobs>>

Init ==
  /\ n = New @@ [known |-> {}, invs |-> Empty]
  /\ mined = {} /\ faults = 0 /\ jobs = 0

-----------------------------------------------------------------------------
(* One header of a headers message; err stands for the early return of a   *)
(* peer that is banned as well as for an error.                            *)
OnHeader(m, p, b) ==
  CASE m.err \/ <<"Blocks", b>> \in DOMAIN m.inflight \/ b \in DOMAIN m.blocks
         \/ b \in m.known -> m
    [] OTHER ->
       IF ~(ToSet(Parent(b)) \subseteq m.known)                  \* an orphan
       THEN Fail(disconnect_and_ban(m, p))
       ELSE IF Tip(m) - MAX_REORG_DEPTH > Len(Parent(b))
       THEN Fail(disconnect_and_ban(m, p))
       ELSE LET k == accept_header(m, b) IN
            IF k.best # Path[b] THEN k
            ELSE AskPeer(k, p, <<"GetBlock", b>>, <<"Blocks", b>>)

get_peer_score(m, p) == Cardinality({b \in DOMAIN m.invs : p \in m.invs[b]})

(* An extra peer with news is kept as block-relay-only, in the place of a  *)
(* regular peer with the lowest score; it joins peer_ids, and no list of   *)
(* peer_by_service.                                                        *)
Promote(m, p) ==
  LET regular == {q \in DOMAIN m.peers : m.peers[q].kind \in Regular}
      worst == {q \in regular : \A r \in regular : get_peer_score(m, q) <= get_peer_score(m, r)}
      told == IF worst = {} THEN {m} ELSE {send_to_peer(m, q, <<"Shutdown">>) : q \in worst}
  IN  {IF k.err THEN k
       ELSE [k EXCEPT !.peers[p].kind = "BlockRelayOnly", !.ids = @ \cup {p}] : k \in told}

OnHeaders(m0, p, bs) ==
  LET m == [m0 EXCEPT !.inflight = Drop(@, {<<"Headers">>})]
      extra == m.peers[p].kind = "Extra"
      from == IF extra /\ bs # <<>> THEN Promote(m, p) ELSE {m}
  IN  IF extra /\ bs = <<>> THEN {increase_banscore(m, p)}
      ELSE {FoldLeft(LAMBDA k, b : OnHeader(k, p, b), k0, bs) : k0 \in from}

(* Mutant of handle_new_block: headers are asked for when they are known.  *)
NewBlockWhenKnown(m, p, b) ==
  IF <<"Headers">> \in DOMAIN m.inflight \/ b \notin m.known THEN m
  ELSE AskPeer(m, p, GetHeaders(m.best), <<"Headers">>)

(* An inv for block b, from p; timely within five seconds of the first.    *)
handle_new_block(m, p, b) ==
  IF <<"Headers">> \in DOMAIN m.inflight \/ b \in m.known THEN m
  ELSE AskPeer(m, p, GetHeaders(m.best), <<"Headers">>)
OnInv(m0, p, b, timely) ==
  LET m == IF Cardinality(DOMAIN m0.invs) >= MAX_LAST_INVS THEN [m0 EXCEPT !.invs = Empty] ELSE m0
      first == b \notin DOMAIN m.invs
      noted == IF first THEN [m EXCEPT !.invs = Put(@, b, {p})]
               ELSE IF timely THEN [m EXCEPT !.invs[b] = @ \cup {p}] ELSE m
  IN  IF ~first /\ p \in m.invs[b] THEN m
      ELSE IF <<"Blocks", b>> \in DOMAIN m.inflight \/ b \in DOMAIN m.blocks THEN noted
      ELSE handle_new_block(noted, p, b)

-----------------------------------------------------------------------------
ask_missed_block(m) ==
  request_blocks(m, SubSeq(m.best, m.valid + 1,
                           Min({Tip(m), m.valid + MAX_INFLIGHT_REQUESTS})))

check_for_stale_tip(m) ==
  Then(create_connection([m EXCEPT !.lastReq = m.valid], "Extra", {}),
       LAMBDA k : SendToRandomPeer(k, k.ids, GetHeaders(k.best)))

(* One regular peer makes room when the special peers are missing.         *)
MakeRoom(m) ==
  LET regular == {p \in DOMAIN m.peers \ m.closed : m.peers[p].kind \in Regular} IN
  IF connected_peers(m) < MAX_OUTGOING_PEERS \/ regular = {} THEN {m}
  ELSE {disconnect_random_peers(m, {p}) : p \in regular}
FindUtreexoPeer(m) ==
  IF has_utreexo_peers(m) THEN {m} ELSE Then(MakeRoom(m), LAMBDA k : maybe_open_connection(k, {"UTREEXO"}))
check_connections(m) ==
  Then(Then({maybe_open_connection_with_added_peers(m)}, FindUtreexoPeer),
       LAMBDA k : maybe_open_connection(k, {}))

(* rearrange_buckets, long after the last change of state.                 *)
rearrange_buckets(m) ==
  [m EXCEPT !.book = [a \in Addr |-> IF @[a] = "Connected" THEN @[a] ELSE "NeverTried"]]

maintenance_tick(m, due) ==
  LET processed == [process_pending_blocks(m) EXCEPT !.err = FALSE]
      rearranged == IfDue(due, "rearrange", {processed}, LAMBDA k : {rearrange_buckets(k)})
      checked == After(IfDue(due, "connect", rearranged, check_connections), check_for_timeout)
      felt == IfDue(due, "feeler", checked, open_feeler_connection)
      WithPeers(k) ==
        IF k.ids = {} THEN {k}
        ELSE LET asked == IfDue(due, "addresses", {k}, ask_for_addresses)
                 stale == IfDue(due, "stale", asked, check_for_stale_tip)
                 missed == After(stale, ask_missed_block)
             IN  UNION {IF has_utreexo_peers(j) THEN ask_for_missed_proofs(j) ELSE {j} :
                        j \in Logged(missed)}
  IN  Logged(After(felt, WithPeers))

(* handle_notification for the answer of p to req; reply is what the peer  *)
(* says: headers, or good or bad data.                                     *)
handle_notification(m0, p, req, reply) ==
  LET m == register_message_time(m0, p, Key(p, req)) IN
  CASE req[1] = "Disconnected" -> handle_disconnection(m, p)
    [] req[1] # "Disconnected" /\ p \notin DOMAIN m.peers -> {m}
    [] OTHER ->
       CASE req[1] = "Connect" -> {handle_peer_ready(m, p)}
         [] req[1] = "GetAddresses" -> {handle_addresses_from_peer(m, p)}
         [] req[1] = "GetHeaders" -> OnHeaders(m, p, reply)
         [] req[1] = "GetBlock" -> request_block_proof(m, req[2], p, reply)
         [] req[1] = "GetProof" -> Then({attach_proof(m, req[2], p, reply)},
                                        LAMBDA k : {process_pending_blocks(k)})
         [] OTHER -> {m}

-----------------------------------------------------------------------------
CanFail == faults < FaultBound /\ faults' = faults + 1

Tick(due) ==
  /\ (due \ {"connect"}) # {} => jobs < JobBound
  /\ jobs' = IF due \ {"connect"} = {} THEN jobs ELSE jobs + 1
  /\ n' \in maintenance_tick(n, due)
  /\ UNCHANGED <<mined, faults>>

Mine ==
  /\ \E b \in DOMAIN Path \ mined : ToSet(Parent(b)) \subseteq mined /\ mined' = mined \cup {b}
  /\ UNCHANGED <<n, faults, jobs>>

(* A peer announces its tip, the longest chain or one of them.             *)
LongestMined == {b \in mined : \A c \in mined : Len(Path[c]) <= Len(Path[b])}
Announce(p) ==
  /\ p \in ReadyPeers(n) \ n.closed
  /\ \E b \in LongestMined, timely \in BOOLEAN : n' = [OnInv(n, p, b, timely) EXCEPT !.err = FALSE]
  /\ UNCHANGED <<mined, faults, jobs>>

Reply(req) == IF req[1] = "GetHeaders"
              THEN IF mined = {} THEN {<<>>} ELSE {HeadersAfter(req[2], b) : b \in LongestMined}
              ELSE {TRUE}
Answer(p) ==
  /\ n.wire[p] # <<>> /\ Head(n.wire[p]) # <<"Shutdown">>
  /\ \E reply \in Reply(Head(n.wire[p])) :
       n' \in Logged(handle_notification(Pop(n, p), p, Head(n.wire[p]), reply))
  /\ UNCHANGED <<mined, faults, jobs>>

(* Bad data, or the headers of a stale or an unconnected branch; having no *)
(* headers is no lie.                                                      *)
BadReplies(req) ==
  CASE req[1] \in {"GetBlock", "GetProof"} -> {[reply |-> FALSE, lie |-> TRUE]}
    [] req[1] = "GetHeaders" -> {[reply |-> <<b>>, lie |-> TRUE] : b \in mined}
                                  \cup {[reply |-> <<>>, lie |-> FALSE]}
    [] OTHER -> {}
BadAnswer(p) ==
  /\ CanFail /\ n.wire[p] # <<>> /\ p \in DOMAIN n.peers
  /\ \E bad \in BadReplies(Head(n.wire[p])) :
       n' \in Logged(handle_notification([Pop(n, p) EXCEPT !.peers[p].lied = @ \/ bad.lie],
                                          p, Head(n.wire[p]), bad.reply))
  /\ UNCHANGED <<mined, jobs>>

NoAnswer(p) ==
  /\ CanFail /\ n.wire[p] # <<>>
  /\ Head(n.wire[p])[1] \in {"GetBlock", "GetProof", "GetHeaders"}
  /\ n' = Pop(n, p)
  /\ UNCHANGED <<mined, jobs>>

Stop(p) ==
  /\ n.wire[p] # <<>> /\ Head(n.wire[p]) = <<"Shutdown">>
  /\ n' = TaskEnds(n, p) /\ UNCHANGED <<mined, faults, jobs>>
HangUp(p) ==
  /\ CanFail /\ p \in DOMAIN n.peers \ n.closed /\ n.peers[p].state # "Awaiting"
  /\ n' = TaskEnds(n, p) /\ UNCHANGED <<mined, jobs>>
ConnectFails(p) ==
  /\ CanFail /\ n.wire[p] = <<<<"Connect">>>>
  /\ n' = AttemptFails(n, p) /\ UNCHANGED <<mined, jobs>>

Expire(k) == ~n.inflight[k].late /\ n' = [n EXCEPT !.inflight[k].late = TRUE]
ExpireDead == /\ \E k \in DOMAIN n.inflight : ~Pending(n, k) /\ Expire(k)
              /\ UNCHANGED <<mined, faults, jobs>>
ExpireLate == /\ CanFail /\ \E k \in DOMAIN n.inflight : Pending(n, k) /\ Expire(k)
              /\ UNCHANGED <<mined, jobs>>

Next ==
  \/ \E j \in {"connect"} \cup Jobs : Tick({j})
  \/ Mine \/ ExpireDead \/ ExpireLate
  \/ \E p \in PeerIds : \/ Announce(p) \/ Answer(p) \/ BadAnswer(p) \/ NoAnswer(p)
                        \/ Stop(p) \/ HangUp(p) \/ ConnectFails(p)

Spec == Init /\ [][Next]_vars

(* Blocks are mined and announced, the ticker fires, peer tasks run.       *)
Progress == Tick({"connect"}) \/ ExpireDead \/ \E p \in PeerIds : Answer(p) \/ Stop(p)

(* ENABLED <<Progress>>_vars, written out: Fairness has WF_vars(Progress). *)
CanProgress == TaskOrClock(n) \/ \E m \in maintenance_tick(n, {"connect"}) : m # n
Fairness == []<>~CanProgress \/ []<><<Progress>>_vars
FairSpec == Spec /\ Fairness /\ WF_vars(\E p \in PeerIds : Announce(p))

-----------------------------------------------------------------------------
(* The chain and the peers are those of the instance, and errors of a handler *)
(* have been logged by the time it ends (handle_notification).             *)
TypeOK ==
  /\ DOMAIN n.peers \subseteq PeerIds /\ ~n.err /\ n.valid \in 0..Tip(n)
  /\ n.known \subseteq mined /\ DOMAIN n.blocks \subseteq mined
  /\ \A b \in DOMAIN n.invs : n.invs[b] \subseteq PeerIds

(* The best chain is made of headers we have, and no header leaves it      *)
(* shorter than a branch we know, in whatever order branches and           *)
(* announcements come; only a branch that was known before, and holds an   *)
(* invalid block, may be longer.                                           *)
LongestOfKnown ==
  /\ ToSet(n'.best) \subseteq n'.known
  /\ \A b \in n'.known : \/ Len(Path[b]) <= Tip(n')
                         \/ b \in n.known /\ ToSet(Path[b]) \cap Invalid # {}
BestIsLongest == [][LongestOfKnown]_vars

(* peer_ids only names peers of the node, past their handshake, and every  *)
(* peer of a service list is one of them.                                  *)
IdsArePeers ==
  /\ n.ids \subseteq {p \in DOMAIN n.peers : n.peers[p].state # "Awaiting"}
  /\ \A s \in Services : n.bySvc[s] \subseteq n.ids

(* A peer with a service is found under it (peer_by_service), also when it *)
(* was promoted.                                                           *)
PromotedPeersIndexed ==
  \A p \in n.ids, s \in Services : s \in n.peers[p].services => p \in n.bySvc[s]

(* Nobody is banned who did not send bad data, except an extra peer that   *)
(* brought nothing new; nothing but valid blocks is validated.             *)
OnlyLiarsBanned ==
  [][\A p \in DOMAIN n.peers \cap DOMAIN n'.peers :
       n.peers[p].state # "Banned" /\ n'.peers[p].state = "Banned"
         => n'.peers[p].lied \/ n.peers[p].kind = "Extra"]_vars
OnlyValidConnected == \A h \in 1..n.valid : n.best[h] \notin Invalid

(* "if this is an extra peer, and the headers message is empty, disconnect *)
(* it": an honest peer is not banned.                                      *)
HonestNotBanned == \A p \in DOMAIN n.peers : n.peers[p].state = "Banned" => n.peers[p].lied

(* Every mined block is validated in the end, or is on a losing or an      *)
(* invalid branch.                                                         *)
Synced == mined = DOMAIN Path =>
            n.valid = Tip(n) /\ Tip(n) = Max({Len(Path[b]) : b \in mined} \cup {0})
TipIsReached == <>[]Synced
==============================================================================
