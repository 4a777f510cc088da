----------------------------- MODULE ChainSelector -----------------------------
(***************************************************************************)
(* The first phase of the node (node/chain_selector_ctx.rs): connect,      *)
(* download the headers of one peer, ask all the others whether they know  *)
(* a better chain, and finish when each of them has nothing more to tell.  *)
(* One step is a message handled to its end or one maintenance tick.  The  *)
(* fraud-proof search that may follow is in FraudProof.                    *)
(***************************************************************************)
EXTENDS HeaderChain, TLC

CONSTANTS
  TipOf,         \* TipOf[a]: the tip of the node at address a
  AssumeHeight,  \* assume_utreexo.height, 0 when it is not configured
  MaxHeaders,    \* bound: the headers in one message (2000 in the protocol)
  MaxQueue,      \* bound: the node ticks when no peer has more to answer
  Jobs,          \* the periodic jobs that may fall due, beside "connect"
  UserRequests, UserBound,
  FaultBound     \* bound: how often a peer fails, lies or is late

VARIABLES
  n,      \* NodeCommon, with known: the headers we have, and ChainSelector:
          \* sel, done (done_peers), tips (tip_cache); quiet and forkLate say
          \* that REQUEST_TIMEOUT went by since the last new header or poke
  phase,  \* "select", then "done", or "failed" when run returned an error
  faults, asked

vars == <<n, phase, faults, asked>>

Init ==
  /\ n = New @@ [known |-> {}, sel |-> "CreatingConnections", done |-> {}, tips |-> Empty,
                 quiet |-> FALSE, forkLate |-> FALSE]
  /\ phase = "select" /\ faults = 0 /\ asked = 0

-----------------------------------------------------------------------------
(* getheaders from the block tip; nothing is located for an unknown one.   *)
Locator(m, tip) == IF tip \in m.known THEN Path[tip] ELSE <<>>
request_headers(m, locator) == AskFastPeer(m, {}, <<GetHeaders(locator)>>, {<<"Headers">>})

(* A getheaders to every peer; a channel that is closed ends the loop.     *)
poke_peers(m) ==
  LET live == m.ids \ m.closed
      Poked(S) == [m EXCEPT !.wire = [p \in PeerIds |->
                     IF p \in S THEN Queue(@[p], <<GetHeaders(m.best)>>) ELSE @[p]]]
  IN  IF live = m.ids THEN {Poked(live)} ELSE {Fail(Poked(S)) : S \in SUBSET live}

(* A header that does not connect bans its sender and does not end the     *)
(* loop.                                                                   *)
OnHeader(m, p, b) ==
  CASE m.err -> m
    [] ~m.err /\ ToSet(Parent(b)) \subseteq m.known -> accept_header(m, b)
    [] OTHER -> LET k == disconnect_and_ban(m, p) IN
                IF k.err THEN k ELSE NoteAddress(k, p, "Banned")

(* Every peer is done: take the assumed accumulator, or just finish.       *)
Agreed(m) ==
  LET d == [m EXCEPT !.sel = "Done"] IN
  IF m.valid >= AssumeHeight THEN d
  ELSE IF AssumeHeight <= Tip(m) THEN [d EXCEPT !.valid = AssumeHeight] ELSE Fail(d)

(* Mutant of empty_headers_message: one peer is enough.                    *)
EmptyFromOne(m, p) ==
  LET seen == [m EXCEPT !.done = @ \cup {p}] IN
  CASE m.sel = "DownloadingHeaders" ->
         Then(poke_peers(m), LAMBDA k : {[k EXCEPT !.sel = "LookingForForks",
                                                   !.forkLate = FALSE, !.done = @ \cup {p}]})
    [] m.sel = "LookingForForks" -> {Agreed(seen)}
    [] OTHER -> {m}

empty_headers_message(m, p) ==
  LET seen == [m EXCEPT !.done = @ \cup {p}] IN
  CASE m.sel = "DownloadingHeaders" ->
         Then(poke_peers(m), LAMBDA k : {[k EXCEPT !.sel = "LookingForForks",
                                                   !.forkLate = FALSE, !.done = @ \cup {p}]})
    [] m.sel = "LookingForForks" -> {IF m.ids \subseteq seen.done THEN Agreed(seen) ELSE seen}
    [] OTHER -> {m}

handle_headers(m, p, bs) ==
  IF bs = <<>> THEN empty_headers_message(m, p)
  ELSE Then({FoldLeft(LAMBDA k, b : OnHeader(k, p, b), m, bs)},
            LAMBDA k : request_headers([k EXCEPT !.tips = Put(@, p, Last(bs)), !.quiet = FALSE],
                                       Locator(k, Last(bs))))

(* An id that the node forgot never comes back: it leaves done and tips.   *)
Gone(m, p) == [m EXCEPT !.done = @ \ {p}, !.tips = Drop(@, {p})]
OnDisconnected(m, p) ==
  LET k == IF m.peers = Empty THEN [m EXCEPT !.sel = "CreatingConnections"] ELSE m
  IN  {Gone(j, p) : j \in handle_disconnection(k, p)}

OnReady(m, p) ==
  Then({handle_peer_ready(m, p)},
       LAMBDA k : {IF k.sel # "LookingForForks" THEN k ELSE send_to_peer(k, p, GetHeaders(k.best))})

(* A block nobody asked for costs its sender half the ban score.           *)
OnBlock(m, p, b) ==
  IF <<"Block", b>> \in DOMAIN m.user THEN CompleteUserRequest(m, <<"Block", b>>)
  ELSE increase_banscore(m, p)

handle_peer_notification(m0, p, req, headers) ==
  LET m == register_message_time(m0, p, Key(p, req)) IN
  CASE req[1] = "Disconnected" -> OnDisconnected(m, p)
    [] req[1] # "Disconnected" /\ p \notin DOMAIN m.peers -> {m}
    [] OTHER ->
       CASE req[1] = "Connect" -> OnReady(m, p)
         [] req[1] = "GetAddresses" -> {handle_addresses_from_peer(m, p)}
         [] req[1] = "GetHeaders" ->
              handle_headers([m EXCEPT !.inflight = Drop(@, {<<"Headers">>})], p, headers)
         [] req[1] = "GetBlock" -> {OnBlock(m, p, req[2])}
         [] OTHER -> {m}

-----------------------------------------------------------------------------
can_start_headers_sync(m) ==
  IF FixedPeers # {} THEN connected_peers(m) >= 1 ELSE connected_peers(m) >= MAX_OUTGOING_PEERS

(* maintenance_tick up to the check for Done: an error ends the run.       *)
PokeAgain(m) == IF m.sel = "LookingForForks" /\ m.forkLate
                THEN poke_peers([m EXCEPT !.forkLate = FALSE]) ELSE {m}
AskAgain(m) == IF m.sel = "DownloadingHeaders" /\ m.quiet /\ <<"Headers">> \notin DOMAIN m.inflight
               THEN request_headers(m, m.best) ELSE {m}
StartDownload(m) ==
  IF m.sel = "CreatingConnections" /\ can_start_headers_sync(m)
  THEN {[k EXCEPT !.sel = "DownloadingHeaders"] : k \in Logged(request_headers(m, m.best))}
  ELSE {m}
Select(m, due) ==
  LET c == IfDue(due, "connect", {m}, LAMBDA k : maybe_open_connection(k, {}))
      f == IfDue(due, "feeler", c, open_feeler_connection)
  IN  Then(Then(Then(f, PokeAgain), AskAgain), StartDownload)

-----------------------------------------------------------------------------
CanFail == faults < FaultBound /\ faults' = faults + 1

Forgotten(m) == [m EXCEPT !.done = @ \cap DOMAIN m.peers,
                          !.tips = Restrict(@, DOMAIN @ \cap DOMAIN m.peers)]
Tick(due) ==
  /\ phase = "select" /\ \A p \in PeerIds : Len(n.wire[p]) <= MaxQueue
  /\ \E m \in Select(n, due) :
       CASE m.err -> phase' = "failed" /\ n' = [m EXCEPT !.err = FALSE]
         [] ~m.err /\ m.sel = "Done" -> phase' = "done" /\ n' = m
         [] OTHER -> phase' = phase /\ \E k \in check_for_timeout(m) : n' = Forgotten(k)
  /\ UNCHANGED <<faults, asked>>

Batch(s) == SubSeq(s, 1, Min({Len(s), MaxHeaders}))
Handle(p, m, headers) ==
  /\ n' \in Logged(handle_peer_notification(m, p, Head(n.wire[p]), headers))
  /\ UNCHANGED <<phase, asked>>
Answer(p) ==
  /\ phase = "select" /\ n.wire[p] # <<>> /\ Head(n.wire[p]) # <<"Shutdown">>
  /\ LET req == Head(n.wire[p])
         tip == TipOf[n.peers[p].addr]
     IN  Handle(p, Pop(n, p), IF req[1] = "GetHeaders" /\ p \in DOMAIN n.peers
                              THEN Batch(HeadersAfter(req[2], tip)) ELSE <<>>)
  /\ UNCHANGED faults

(* A peer hides what it has, or sends a header out of the blue.            *)
BadAnswer(p) ==
  /\ phase = "select" /\ CanFail /\ n.wire[p] # <<>> /\ p \in DOMAIN n.peers
  /\ Head(n.wire[p])[1] = "GetHeaders"
  /\ \E bs \in {<<>>} \cup {<<b>> : b \in DOMAIN Path} :
       Handle(p, [Pop(n, p) EXCEPT !.peers[p].lied = TRUE], bs)

NoAnswer(p) ==
  /\ phase = "select" /\ CanFail /\ n.wire[p] # <<>> /\ Head(n.wire[p])[1] = "GetHeaders"
  /\ n' = Pop(n, p) /\ UNCHANGED <<phase, asked>>

(* A block that no request asked for.                                      *)
Unasked(p) ==
  /\ phase = "select" /\ CanFail /\ p \in ReadyPeers(n) \ n.closed
  /\ \E b \in DOMAIN Path :
       n' = [OnBlock([n EXCEPT !.peers[p].lied = TRUE], p, b) EXCEPT !.err = FALSE]
  /\ UNCHANGED <<phase, asked>>

Stop(p) ==
  /\ phase = "select" /\ n.wire[p] # <<>> /\ Head(n.wire[p]) = <<"Shutdown">>
  /\ n' = TaskEnds(n, p) /\ UNCHANGED <<phase, faults, asked>>
HangUp(p) ==
  /\ phase = "select" /\ CanFail /\ p \in DOMAIN n.peers \ n.closed
  /\ n.peers[p].state # "Awaiting" /\ n' = TaskEnds(n, p) /\ UNCHANGED <<phase, asked>>
ConnectFails(p) ==
  /\ phase = "select" /\ CanFail /\ n.wire[p] = <<<<"Connect">>>>
  /\ n' = AttemptFails(n, p) /\ UNCHANGED <<phase, asked>>

(* Time passes: a request without an answer expires, and so does the wait  *)
(* for headers, when no peer has anything left to do.                      *)
Quiet == \A p \in PeerIds : n.wire[p] = <<>>
Elapse ==
  /\ phase = "select" /\ Quiet
  /\ \/ ~n.quiet /\ n.sel = "DownloadingHeaders" /\ n' = [n EXCEPT !.quiet = TRUE]
     \/ ~n.forkLate /\ n.sel = "LookingForForks" /\ n' = [n EXCEPT !.forkLate = TRUE]
  /\ UNCHANGED <<phase, faults, asked>>
Expire(k) == phase = "select" /\ ~n.inflight[k].late /\ n' = [n EXCEPT !.inflight[k].late = TRUE]
ExpireDead == /\ \E k \in DOMAIN n.inflight : ~Pending(n, k) /\ Expire(k)
              /\ UNCHANGED <<phase, faults, asked>>
ExpireLate == /\ CanFail /\ \E k \in DOMAIN n.inflight : Pending(n, k) /\ Expire(k)
              /\ UNCHANGED <<phase, asked>>

UserAsks ==
  /\ phase = "select" /\ asked < UserBound /\ asked' = asked + 1
  /\ \E r \in UserRequests : n' \in perform_user_request(n, r)
  /\ UNCHANGED <<phase, faults>>

Ended == phase # "select" /\ UNCHANGED vars

Next ==
  \/ \E j \in {"connect"} \cup Jobs : Tick({j})
  \/ \E p \in PeerIds : \/ Answer(p) \/ BadAnswer(p) \/ NoAnswer(p) \/ Unasked(p)
                        \/ Stop(p) \/ HangUp(p) \/ ConnectFails(p)
  \/ Elapse \/ ExpireDead \/ ExpireLate \/ UserAsks \/ Ended

Spec == Init /\ [][Next]_vars

(* The ticker fires, peer tasks run and the clock moves on.                *)
Progress == Tick({"connect"}) \/ Elapse \/ ExpireDead \/ \E p \in PeerIds : Answer(p) \/ Stop(p)

(* ENABLED <<Progress>>_vars, written out: Fairness is WF_vars(Progress).  *)
CanProgress ==
  /\ phase = "select"
  /\ \/ TaskOrClock(n)
     \/ ~n.quiet /\ n.sel = "DownloadingHeaders"
     \/ ~n.forkLate /\ n.sel = "LookingForForks"
     \/ \E m \in Select(n, {"connect"}) :
          m.err \/ m.sel = "Done" \/ \E k \in check_for_timeout(m) : Forgotten(k) # n
Fairness == []<>~CanProgress \/ []<><<Progress>>_vars
FairSpec == Spec /\ Fairness

-----------------------------------------------------------------------------
(* The chain and the peers are those of the instance, and errors of a handler *)
(* have been logged by the time it ends (handle_notification).             *)
TypeOK ==
  /\ DOMAIN n.peers \subseteq PeerIds /\ ~n.err
  /\ n.sel \in {"CreatingConnections", "DownloadingHeaders", "LookingForForks", "Done"}
  /\ n.done \subseteq PeerIds /\ DOMAIN n.tips \subseteq PeerIds /\ n.known \subseteq DOMAIN Path

(* "We downloaded all headers in the most-pow chain, and all our peers     *)
(* agree": when selection finishes, no connected peer that told the truth  *)
(* has a longer chain, whichever peer answered which request, and however  *)
(* late.                                                                   *)
AgreedChainIsBest ==
  [][n.sel # "Done" /\ n'.sel = "Done" =>
       \A p \in n'.ids : ~n'.peers[p].lied
                          => Len(Path[TipOf[n'.peers[p].addr]]) <= Len(n'.best)]_vars

(* Only a peer that misbehaved is banned during selection.                 *)
OnlyLiarsBanned == \A p \in DOMAIN n.peers : n.peers[p].state = "Banned" => n.peers[p].lied

(* "Returns LoopControl::Break if we need to break the main loop, either   *)
(* because the kill signal was set or because the header chain is synced": *)
(* the loop has no other end.                                              *)
EndsOnlyWhenSynced == phase # "failed"

(* Chain selection ends, although peers fail, lie or fall silent a bounded *)
(* number of times.                                                        *)
SelectionEnds == <>(phase # "select")
==============================================================================
