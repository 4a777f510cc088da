------------------------------- MODULE SyncNode -------------------------------
(***************************************************************************)
(* The node while it downloads and validates the blocks of the best chain  *)
(* (node/sync_ctx.rs), with the peers it talks to.  One step is a message  *)
(* handled to its end, or one maintenance tick: the node is one task, and  *)
(* only its peers, the clock and the user run beside it.                   *)
(***************************************************************************)
EXTENDS NodeCommon

CONSTANTS
  Jobs,         \* the periodic jobs that may fall due: "feeler", "stale"
  UserRequests, \* what the user may ask for
  UserBound,    \* bound: how many times the user asks
  FaultBound,   \* bound: how often a peer fails, lies or is late
  MaxQueue      \* bound: a stale tip is noticed when no peer has more to answer

VARIABLES
  n,       \* NodeCommon
  phase,   \* "sync", then "done"
  faults,  \* faults so far
  asked    \* user requests so far

vars == <<n, phase, faults, asked>>

Init == n = New /\ phase = "sync" /\ faults = 0 /\ asked = 0

-----------------------------------------------------------------------------
(* get_blocks_to_download: the heights after last_block_request.           *)
NextToDownload(m) ==
  FoldSet(LAMBDA i, d :
            LET next == d.last + 1
                from == IF next <= m.valid THEN m.valid ELSE d.last
            IN  IF d.stop \/ next > Len(m.best) THEN [d EXCEPT !.stop = TRUE]
                ELSE [last |-> from + 1, bs |-> Append(d.bs, m.best[next]), stop |-> FALSE],
          [last |-> m.lastReq, bs |-> <<>>, stop |-> FALSE], 1..BLOCKS_PER_GETDATA)

get_blocks_to_download(m) ==
  IF ~can_request_more_blocks(m) THEN {m}
  ELSE LET d == NextToDownload(m) IN
       Logged(request_blocks([m EXCEPT !.lastReq = d.last], d.bs))

(* ask_for_missed_blocks: fails when a height in the range is gone.        *)
ask_for_missed_blocks(m) ==
  IF m.lastReq > Len(m.best) THEN {Fail(m)}
  ELSE request_blocks(m, SubSeq(m.best, m.valid + 1, m.lastReq))

check_connections(m) ==
  LET few == Cardinality(m.bySvc["UTREEXO"]) < 2
      slow == IF FixedPeers # {} \/ connected_peers(m) < MAX_OUTGOING_PEERS THEN {m}
              ELSE maybe_disconnect_slowest_peer(m, {"UTREEXO"}, few)
      utreexo == Then(slow, LAMBDA k : IF few \/ FixedPeers # {}
                                       THEN maybe_open_connection(k, {"UTREEXO"}) ELSE {k})
  IN  Then(utreexo, LAMBDA k : IF FixedPeers # {} THEN {k}
                               ELSE maybe_open_connection(k, {"NETWORK"}))

(* The part of maintenance_tick that moves the download on.                *)
RequestMore(m) ==
  IF ~has_utreexo_peers(m) THEN {m}
  ELSE After(After(After({m}, ask_for_missed_blocks), ask_for_missed_proofs),
             get_blocks_to_download)
Download(m) == RequestMore([process_pending_blocks(m) EXCEPT !.err = FALSE])

maintenance_tick(m, due) ==
  LET c == IfDue(due, "connect", {m}, check_connections)
      f == IfDue(due, "feeler", c, open_feeler_connection)
  IN  After(After(f, check_for_timeout),
            LAMBDA k : IF "stale" \in due THEN Logged(create_connection(k, "Extra", {}))
                       ELSE Download(k))

(* handle_message, for the answer to req from a peer the node knows.  A    *)
(* peer may send mutated transactions or a proof that does not verify.     *)
AfterData(S) ==
  Logged(Then(Then(S, LAMBDA m : {process_pending_blocks(m)}), get_blocks_to_download))
OnData(m, p, req, good) ==
  IF req[1] = "GetBlock" /\ req[2] \in DOMAIN m.blocks THEN {m}
  ELSE AfterData(IF req[1] = "GetBlock" THEN request_block_proof(m, req[2], p, good)
                 ELSE {attach_proof(m, req[2], p, good)})

handle_message(m0, p, req, good) ==
  LET m == register_message_time(m0, p, Key(p, req)) IN
  CASE req[1] = "Disconnected" -> handle_disconnection(m, p)
    [] req[1] # "Disconnected" /\ p \notin DOMAIN m.peers -> {m}
    [] OTHER ->
       CASE req[1] = "Connect" -> Logged({handle_peer_ready(m, p)})
         [] req[1] = "GetAddresses" -> Logged({handle_addresses_from_peer(m, p)})
         [] req[1] \in {"GetBlock", "GetProof"} -> OnData(m, p, req, good)
         [] req[1] = "GetTx" -> {CompleteUserRequest(m, <<"Tx", req[2]>>)}
         [] OTHER -> {m}

-----------------------------------------------------------------------------
CanFail == faults < FaultBound /\ faults' = faults + 1

(* One round of the loop: a tick, with the jobs that are due.              *)
Tick(due) ==
  /\ phase = "sync"
  /\ "stale" \in due => \A p \in PeerIds : Len(n.wire[p]) <= MaxQueue
  /\ IF n.valid = Len(n.best)
     THEN phase' = "done" /\ n' = n
     ELSE phase' = phase /\ n' \in maintenance_tick(n, due)
  /\ UNCHANGED <<faults, asked>>

(* Peer p does what is next on its wire, and the node handles the answer.  *)
Answer(p) ==
  /\ phase = "sync" /\ n.wire[p] # <<>> /\ Head(n.wire[p]) # <<"Shutdown">>
  /\ n' \in handle_message(Pop(n, p), p, Head(n.wire[p]), TRUE)
  /\ UNCHANGED <<phase, faults, asked>>

BadAnswer(p) ==
  /\ phase = "sync" /\ CanFail
  /\ n.wire[p] # <<>> /\ Head(n.wire[p])[1] \in {"GetBlock", "GetProof"}
  /\ n' \in handle_message(IF p \in DOMAIN n.peers THEN [Pop(n, p) EXCEPT !.peers[p].lied = TRUE]
                           ELSE Pop(n, p), p, Head(n.wire[p]), FALSE)
  /\ UNCHANGED <<phase, asked>>

(* NotFound, or no answer at all: a request of the user is completed by    *)
(* the first; a request of ours only expires.                              *)
NoAnswer(p) ==
  /\ phase = "sync" /\ CanFail
  /\ n.wire[p] # <<>> /\ Head(n.wire[p])[1] \in {"GetBlock", "GetProof", "GetTx", "GetAddresses"}
  /\ LET req == Head(n.wire[p])
         r == CASE req[1] = "GetBlock" -> <<"Block", req[2]>>
                [] req[1] = "GetTx" -> <<"Tx", req[2]>> [] OTHER -> <<"none">>
     IN  n' \in {Pop(n, p)} \cup (IF p \in DOMAIN n.peers THEN {CompleteUserRequest(Pop(n, p), r)}
                              ELSE {})
  /\ UNCHANGED <<phase, asked>>

(* The task of p ends: when it is told to, or because the peer hung up.    *)
Close(p) ==
  /\ n' = TaskEnds(n, p)
  /\ UNCHANGED <<phase, asked>>
Stop(p) ==
  /\ phase = "sync" /\ n.wire[p] # <<>> /\ Head(n.wire[p]) = <<"Shutdown">>
  /\ Close(p) /\ UNCHANGED faults
HangUp(p) ==
  /\ phase = "sync" /\ CanFail
  /\ p \in DOMAIN n.peers \ n.closed /\ n.peers[p].state # "Awaiting"
  /\ Close(p)

(* A connection attempt that fails ends without a word to the node.        *)
ConnectFails(p) ==
  /\ phase = "sync" /\ CanFail
  /\ n.wire[p] = <<<<"Connect">>>>
  /\ n' = AttemptFails(n, p)
  /\ UNCHANGED <<phase, asked>>

(* A request is older than its timeout.  The answer is late (a fault), or  *)
(* none will come.                                                         *)
Expire(k) ==
  /\ phase = "sync" /\ k \in DOMAIN n.inflight /\ ~n.inflight[k].late
  /\ n' = [n EXCEPT !.inflight[k].late = TRUE]
  /\ UNCHANGED <<phase, asked>>
ExpireDead == \E k \in DOMAIN n.inflight : ~Pending(n, k) /\ Expire(k) /\ UNCHANGED faults
ExpireLate == \E k \in DOMAIN n.inflight : Pending(n, k) /\ Expire(k) /\ CanFail

UserAsks ==
  /\ phase = "sync" /\ asked < UserBound /\ asked' = asked + 1
  /\ \E r \in UserRequests : n' \in perform_user_request(n, r)
  /\ UNCHANGED <<phase, faults>>

Ended == phase = "done" /\ UNCHANGED vars

Next ==
  \/ \E due \in SUBSET ({"connect"} \cup Jobs) : Tick(due)
  \/ \E p \in PeerIds : \/ Answer(p) \/ BadAnswer(p) \/ NoAnswer(p)
                        \/ Stop(p) \/ HangUp(p) \/ ConnectFails(p)
  \/ ExpireDead \/ ExpireLate
  \/ UserAsks \/ Ended

Spec == Init /\ [][Next]_vars

(* The ticker fires and the connection job falls due again and again, peer *)
(* tasks run, and the clock moves on.  One weak condition is enough: none  *)
(* of the three can go on for ever without the others.                     *)
Progress == \/ Tick({"connect"})
            \/ \E p \in PeerIds : Answer(p) \/ Stop(p)
            \/ ExpireDead

(* ENABLED <<Progress>>_vars, written out: Fairness is WF_vars(Progress).  *)
CanProgress ==
  /\ phase = "sync"
  /\ \/ n.valid = Len(n.best) \/ TaskOrClock(n)
     \/ \E m \in maintenance_tick(n, {"connect"}) : m # n
Fairness == []<>~CanProgress \/ []<><<Progress>>_vars
FairSpec == Spec /\ Fairness

-----------------------------------------------------------------------------
(* The chain and the peers are those of the instance, and errors of a handler *)
(* have been logged by the time it ends (handle_message).                  *)
TypeOK ==
  /\ DOMAIN n.peers \subseteq PeerIds /\ ~n.err
  /\ \A k \in DOMAIN n.inflight : n.inflight[k] \in [peer : PeerIds \cup {NoPeer}, late : BOOLEAN]
  /\ DOMAIN n.blocks \subseteq ToSet(Best)
  /\ n.valid \in 0..Len(n.best) /\ n.lastReq \in 0..Len(Best)
  /\ phase \in {"sync", "done"}

(* A block is either requested or in memory, never both, however retries,  *)
(* late answers and bad proofs interleave: request_blocks filters on both, *)
(* and unprocessed_blocks counts every block once.                         *)
RequestedOrPending ==
  \A b \in DOMAIN n.blocks : <<"Blocks", b>> \notin DOMAIN n.inflight

(* Every peer that finished its handshake can be chosen for a request: its *)
(* latency sample is taken before handle_peer_ready removes the Connect    *)
(* request (choose_peer_by_latency only logs an error for one without).    *)
ReadyPeersSelectable == \A p \in ReadyPeers(n) : n.peers[p].timed

(* peer_ids and peer_by_service only name peers of the node, past their    *)
(* handshake, and agree with each other.                                   *)
IndexesAgree ==
  /\ n.ids \subseteq {p \in DOMAIN n.peers : n.peers[p].state # "Awaiting"}
  /\ \A s \in Services : n.bySvc[s] = {p \in n.ids : s \in n.peers[p].services}

(* A caller never waits for a peer that is gone: handle_disconnection      *)
(* drops the response senders of its peer's requests.                      *)
UserWaitsOnLivePeer == \A r \in DOMAIN n.user : n.user[r] \in DOMAIN n.peers

(* Only a peer that sent bad data is ever banned, whatever other peers do. *)
OnlyLiarsBanned == \A p \in DOMAIN n.peers : n.peers[p].state = "Banned" => n.peers[p].lied

(* "Don't connect to the same peer twice" (create_connection).             *)
OneConnectionPerAddress ==
  \A p, q \in DOMAIN n.peers : n.peers[p].addr = n.peers[q].addr => p = q

(* The validated part of the chain only grows, and a block that breaks a   *)
(* rule never gets into it.                                                *)
OnlyValidBlocksConnected ==
  [][/\ n'.valid >= n.valid
     /\ \A h \in 1..n'.valid : Best[h] \notin Invalid]_vars

(* The node validates its whole chain, whatever the peers lose, delay or   *)
(* forge a bounded number of times.                                        *)
SyncFinishes == <>(phase = "done")
==============================================================================
