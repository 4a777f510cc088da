------------------------------- MODULE PeerTask -------------------------------
(***************************************************************************)
(* One connection to one peer: the attempt, over V2 and then over V1       *)
(* (transport.rs, through a proxy: socks.rs), and the task that talks to   *)
(* the peer (peer.rs), between the reader of the socket and the node.      *)
(*                                                                         *)
(* inbox is what the reader actor delivered, reqs what the node asked for, *)
(* reports what the node has not handled yet, view the PeerStatus the node *)
(* holds.  Time passes only while the task has nothing to do, and never    *)
(* past wake, when its wait for a request times out.                       *)
(***************************************************************************)
EXTENDS Integers, Sequences

CONSTANTS
  Kinds,            \* the messages the peer may send
  Requests,         \* the requests the node may make of a ready peer
  allow_v1_fallback, UseProxy,
  RandomDisconnect, \* the node may end its sync (disconnect_random_peers)
  PING_TIMEOUT, SEND_PING_TIMEOUT, HANDSHAKE_TIMEOUT, REQUEST_POLL_INTERVAL,
  CONNECT_TIMEOUT,  \* how long open_connection waits for the attempt
  INV_MESSAGE_INTERVAL, ADDRV2_MESSAGE_INTERVAL, MAX_MSGS_PER_SEC,
  MaxTime, MaxMessages, MaxRequests  \* bounds

VARIABLES
  state,    \* "proxy", "v2", "v1", then State of peer.rs, then "Ended"
  inbox, reqs, reports, view,
  broken,   \* writing to the socket fails
  now, last, \* the clock; the Instants of the task
  msgs, asked,
  sent,     \* what the node was sent, with the time (a history)
  panicked

vars == <<state, inbox, reqs, reports, view, broken, now, last, msgs, asked, sent, panicked>>

Never == -1
Handshake == {"SentVersion", "SentVerack"}
Alive == state \in Handshake \cup {"Connected"}
Dialling == state \in {"proxy", "proxyAgain", "v2", "v1"}

(* create_peer sets last_inv and last_addrv2 one interval back.            *)
Init ==
  /\ state = (IF UseProxy THEN "proxy" ELSE "v2")
  /\ inbox = <<>> /\ reqs = <<>> /\ reports = <<>> /\ view = "Awaiting"
  /\ broken = FALSE /\ now = 0 /\ msgs = 0 /\ asked = 0 /\ sent = <<>> /\ panicked = FALSE
  /\ last = [message |-> 0, ping |-> Never, inv |-> 0 - INV_MESSAGE_INTERVAL,
             addr |-> 0 - ADDRV2_MESSAGE_INTERVAL, version |-> 0, start |-> Never,
             wake |-> CONNECT_TIMEOUT]

-----------------------------------------------------------------------------
(* The attempt.  A proxy answers the greeting and then the request; either *)
(* answer may be wrong.  V1 is tried after V2 failed in the way the        *)
(* library says V1 may help, and only if that is allowed; a new stream, so *)
(* through the proxy again.                                                *)
Settle(s) ==
  /\ state' = s
  /\ UNCHANGED <<inbox, reqs, reports, view, broken, now, last, msgs, asked, sent, panicked>>
Socks5Connect ==
  \/ state = "proxy" /\ (Settle("v2") \/ Settle("Ended"))
  \/ state = "proxyAgain" /\ (Settle("v1") \/ Settle("Ended"))

(* Peer::create_peer and the first lines of peer_loop_inner: send version. *)
Spawn ==
  /\ state' = "SentVersion"
  /\ last' = [last EXCEPT !.message = now, !.inv = now - INV_MESSAGE_INTERVAL,
                          !.addr = now - ADDRV2_MESSAGE_INTERVAL, !.version = now,
                          !.start = now, !.wake = now + REQUEST_POLL_INTERVAL]
  /\ UNCHANGED <<inbox, reqs, reports, view, broken, now, msgs, asked, sent, panicked>>
try_connection ==
  \/ state \in {"v2", "v1"} /\ Spawn
  \/ state \in {"v2", "v1"} /\ Settle("Ended")
  \/ state = "v2" /\ allow_v1_fallback /\ Settle(IF UseProxy THEN "proxyAgain" ELSE "v1")

(* open_connection gives the attempt ten seconds and forgets it then.      *)
AttemptTimesOut == Dialling /\ now = CONNECT_TIMEOUT /\ Settle("Ended")

-----------------------------------------------------------------------------
(* One round of peer_loop_inner: what was received is handled, with the    *)
(* outcome: the state, what is reported to the node, the new Instants,     *)
(* whether the loop goes on ("ok"), fails ("err") or was told to stop.     *)
Outcome == [to |-> state, tell |-> <<>>, t |-> last, res |-> "ok", writes |-> FALSE]
Tell(k) == [Outcome EXCEPT !.tell = <<k>>]
Write == [Outcome EXCEPT !.writes = TRUE]
Error == [Outcome EXCEPT !.res = "err"]

(* handle_peer_message, in state Connected.                                *)
OnInv == IF now - last.inv < INV_MESSAGE_INTERVAL THEN Outcome
         ELSE [Tell("NewBlock") EXCEPT !.t.inv = now]
OnAddrV2 == [IF now - last.addr < ADDRV2_MESSAGE_INTERVAL THEN Outcome ELSE Tell("Addr")
               EXCEPT !.t.addr = now]
Connected(k) ==
  CASE k = "inv" -> OnInv
    [] k = "invTooBig" -> IF OnInv.tell = <<>> THEN Outcome ELSE [OnInv EXCEPT !.res = "err"]
    [] k = "addrv2" -> OnAddrV2
    [] k = "pong" -> [Outcome EXCEPT !.t.ping = Never]
    [] k \in {"ping", "sendheaders", "getheaders", "feefilter", "getaddr", "getblocks", "getdata"}
         -> Write
    [] k \in {"headers", "block", "tx", "notfound", "cfilter", "cfheaders", "uproof"} -> Tell(k)
    [] k \in {"sendaddrv2", "addrv2TooBig", "badUproof", "badCfheaders"} -> Error
    [] OTHER -> Outcome

(* handle_version: sendaddrv2 and verack are written.                      *)
handle_version == [Write EXCEPT !.to = "SentVerack"]

(* Mutant of handle_peer_message: data is passed on before the verack.     *)
DataBeforeVerack(k) ==
  CASE k = "error" -> Error
    [] k # "error" /\ state = "SentVersion" ->
         IF k = "version" THEN handle_version ELSE Error
    [] k = "verack" /\ state = "SentVerack" -> [Tell("Ready") EXCEPT !.to = "Connected"]
    [] OTHER -> Connected(k)

(* handle_peer_message, before that too.                                   *)
handle_peer_message(k) ==
  CASE k = "error" -> Error
    [] k # "error" /\ state = "Connected" -> Connected(k)
    [] k # "error" /\ state = "SentVersion" ->
         IF k = "version" THEN handle_version ELSE Error
    [] k # "error" /\ state = "SentVerack" ->
         CASE k = "verack" -> [Tell("Ready") EXCEPT !.to = "Connected"]
           [] k \in {"sendaddrv2", "sendheaders", "wtxidrelay"} -> Outcome
           [] OTHER -> Error

(* handle_node_request.  The writes of three requests may fail unnoticed.  *)
handle_node_request(r) ==
  CASE r = "Shutdown" -> [Write EXCEPT !.res = "stop"]
    [] r = "Ping" -> [Write EXCEPT !.t.ping = now]
    [] r \in {"GetBlock", "GetHeaders", "GetUtreexoState"} -> Outcome
    [] OTHER -> Write

(* The end of a round: deadlines, a ping of our own, the rate of messages. *)
Failed(o, total) ==
  \/ o.res = "err"
  \/ o.writes /\ broken
  \/ o.res # "stop" /\
     \/ o.t.ping # Never /\ now - o.t.ping > PING_TIMEOUT
     \/ broken /\ now - o.t.message > SEND_PING_TIMEOUT /\ o.t.ping = Never
     \/ now > last.start /\ total \div (now - last.start) > MAX_MSGS_PER_SEC
     \/ o.to = "SentVersion" /\ now - o.t.version > HANDSHAKE_TIMEOUT

(* Mutant of Pinged: a silent peer is not pinged.                          *)
NeverPinged(t) == t

Pinged(t) == IF now - t.message > SEND_PING_TIMEOUT /\ t.ping = Never
             THEN [t EXCEPT !.ping = now] ELSE t

(* read_loop: when the loop ends, the node is told, whatever the reason.   *)
Round(o, total) ==
  LET end == o.res = "stop" \/ Failed(o, total)
      out == o.tell \o (IF end THEN <<"Disconnected">> ELSE <<>>)
  IN  /\ state' = IF end THEN "Ended" ELSE o.to
      /\ last' = [Pinged(o.t) EXCEPT !.wake = now + REQUEST_POLL_INTERVAL]
      /\ reports' = reports \o out
      /\ sent' = sent \o [i \in DOMAIN out |-> <<out[i], now>>]

Receive ==
  /\ Alive /\ inbox # <<>>
  /\ LET k == Head(inbox)
         heard == [last EXCEPT !.message = IF k = "error" THEN @ ELSE now]
         o == handle_peer_message(k)
         total == IF k = "error" THEN msgs ELSE msgs + 1
     IN  /\ Round([o EXCEPT !.t.message = heard.message], total)
         /\ msgs' = total
  /\ inbox' = Tail(inbox)
  /\ UNCHANGED <<reqs, view, broken, now, asked, panicked>>

(* assert_eq!(self.state, State::Connected): a panic ends the task without *)
(* a word.                                                                 *)
Serve ==
  /\ Alive /\ reqs # <<>>
  /\ IF state = "Connected" THEN Round(handle_node_request(Head(reqs)), msgs) /\ UNCHANGED panicked
     ELSE state' = "Ended" /\ panicked' = TRUE /\ UNCHANGED <<last, reports, sent>>
  /\ reqs' = Tail(reqs)
  /\ UNCHANGED <<inbox, view, broken, now, msgs, asked>>

(* The wait for a request timed out.                                       *)
Poll ==
  /\ Alive /\ now = last.wake /\ inbox = <<>> /\ reqs = <<>>
  /\ Round(Outcome, msgs)
  /\ UNCHANGED <<inbox, reqs, view, broken, now, msgs, asked, panicked>>

(* The node dropped the sender of the request channel.                     *)
ChannelClosed ==
  /\ Alive /\ view = "Gone" /\ reqs = <<>>
  /\ Round(Error, msgs)
  /\ UNCHANGED <<inbox, reqs, view, broken, now, msgs, asked, panicked>>

-----------------------------------------------------------------------------
(* The peer sends something, or the connection breaks.                     *)
PeerSends(k) ==
  /\ Alive /\ ~broken /\ Len(inbox) = 0 /\ msgs < MaxMessages
  /\ inbox' = <<k>>
  /\ UNCHANGED <<state, reqs, reports, view, broken, now, last, msgs, asked, sent, panicked>>
Break ==
  /\ Alive /\ ~broken /\ broken' = TRUE /\ inbox' = Append(inbox, "error")
  /\ UNCHANGED <<state, reqs, reports, view, now, last, msgs, asked, sent, panicked>>

(* The node: handle_peer_ready and handle_disconnection; requests, once    *)
(* the peer is ready; Connect requests expire (check_for_timeout).         *)
NodeHandles ==
  /\ reports # <<>>
  /\ view' = CASE Head(reports) = "Ready" /\ view = "Awaiting" -> "Ready"
               [] Head(reports) = "Disconnected" -> "Gone"
               [] OTHER -> view
  /\ reports' = Tail(reports)
  /\ UNCHANGED <<state, inbox, reqs, broken, now, last, msgs, asked, sent, panicked>>
Ask(r) ==
  /\ asked < MaxRequests /\ asked' = asked + 1
  /\ reqs' = IF state = "Ended" THEN reqs ELSE Append(reqs, r)
  /\ UNCHANGED <<state, inbox, reports, view, broken, now, last, msgs, sent, panicked>>
(* Mutant of NodeAsks: a peer may be asked before it is ready.             *)
AsksAtOnce(r) == view # "Gone" /\ Ask(r)

NodeAsks(r) == view = "Ready" /\ Ask(r)
disconnect_random_peers == RandomDisconnect /\ view # "Gone" /\ Ask("Shutdown")
ConnectExpires ==
  /\ view = "Awaiting" /\ now >= CONNECT_TIMEOUT /\ view' = "Gone"
  /\ UNCHANGED <<state, inbox, reqs, reports, broken, now, last, msgs, asked, sent, panicked>>

Pass ==
  /\ now < MaxTime /\ now' = now + 1
  /\ Alive => inbox = <<>> /\ reqs = <<>> /\ view # "Gone" /\ now < last.wake
  /\ Dialling => now < CONNECT_TIMEOUT
  /\ UNCHANGED <<state, inbox, reqs, reports, view, broken, last, msgs, asked, sent, panicked>>

Done == state = "Ended" /\ reports = <<>> /\ now = MaxTime /\ UNCHANGED vars
Late == now = MaxTime /\ state # "Ended" /\ UNCHANGED vars

Next ==
  \/ Socks5Connect \/ try_connection \/ AttemptTimesOut
  \/ Receive \/ Serve \/ Poll \/ ChannelClosed
  \/ \E k \in Kinds : PeerSends(k)
  \/ Break \/ NodeHandles \/ \E r \in Requests : NodeAsks(r)
  \/ disconnect_random_peers \/ ConnectExpires \/ Pass \/ Done \/ Late

Spec == Init /\ [][Next]_vars

-----------------------------------------------------------------------------
(* The task is dialling, in a state of peer.rs, or over, and the reader holds *)
(* at most a message and the error after it.                               *)
TypeOK ==
  /\ state \in {"proxy", "proxyAgain", "v2", "v1", "SentVersion", "SentVerack", "Connected", "Ended"}
  /\ view \in {"Awaiting", "Ready", "Gone"} /\ Len(inbox) <= 2
  /\ last.wake \in 0..MaxTime + REQUEST_POLL_INTERVAL + CONNECT_TIMEOUT

(* What the node is told about a peer comes in the order its handlers rely *)
(* on: Ready once and before any data, Disconnected once and last, and a   *)
(* task that ended without panicking has said so.                          *)
Told(k) == {i \in DOMAIN sent : sent[i][1] = k}
ReportsInOrder ==
  /\ \A i, j \in Told("Ready") : i = j
  /\ \A i \in DOMAIN sent : sent[i][1] \in {"Ready", "Disconnected"} \/ \E j \in Told("Ready") : j < i
  /\ \A i \in Told("Disconnected") : i = Len(sent)
  /\ state = "Ended" /\ last.start # Never /\ ~panicked => Told("Disconnected") # {}

(* A peer that says nothing does not keep its slot: version is waited for  *)
(* at most HANDSHAKE_TIMEOUT, later a silent peer is pinged, and one that  *)
(* leaves a ping unanswered is let go (peer_loop_inner).                   *)
SilentPeerLeaves ==
  Alive => /\ state = "SentVersion" =>
                now - last.version <= HANDSHAKE_TIMEOUT + REQUEST_POLL_INTERVAL
           /\ last.ping = Never => now - last.message <= SEND_PING_TIMEOUT + REQUEST_POLL_INTERVAL
           /\ last.ping # Never => now - last.ping <= PING_TIMEOUT + REQUEST_POLL_INTERVAL

(* Both waits together bound the silence, if the user sends no pings: each *)
(* of those starts the wait for a pong anew (handle_node_request).         *)
SilenceBounded ==
  Alive => now - last.message <= SEND_PING_TIMEOUT + PING_TIMEOUT + 2 * REQUEST_POLL_INTERVAL

(* The assertion in handle_node_request, that the peer is connected, fails *)
(* for nothing but the Shutdown of disconnect_random_peers: it alone does  *)
(* not wait for the handshake (send_to_peer does).                         *)
PanicsOnlyOnRandomDisconnect ==
  [][panicked' /\ ~panicked => RandomDisconnect /\ Head(reqs) = "Shutdown"]_vars

(* A peer's announcements and addresses reach the node at the rate the     *)
(* limits allow, no faster.                                                *)
RateLimited ==
  \A i, j \in DOMAIN sent : i < j /\ sent[i][1] = sent[j][1] =>
     /\ sent[i][1] = "NewBlock" => sent[j][2] - sent[i][2] >= INV_MESSAGE_INTERVAL
     /\ sent[i][1] = "Addr" => sent[j][2] - sent[i][2] >= ADDRV2_MESSAGE_INTERVAL

(* Both, for every value of the timeouts and limits: the order in which    *)
(* handle_notification of the node hears of a peer, and how often.         *)
ReportsSound == ReportsInOrder /\ RateLimited
==============================================================================
