------------------------------ MODULE TaskProofs ------------------------------
(***************************************************************************)
(* Two kinds of tasks of florestad.  The daemon: what it keeps across      *)
(* stops, failures, crashes and restarts, for any length of the assumed    *)
(* chain, whatever is wrong with its blocks, any RPC requests and any      *)
(* number of faults and lives.  The task of one peer: what the node hears  *)
(* of the peer, whatever the peer sends, whenever the connection breaks    *)
(* and whatever the node asks, for every value of the timeouts and limits. *)
(***************************************************************************)
EXTENDS PeerTask, Daemon, TLAPS

-----------------------------------------------------------------------------
(* The daemon.                                                             *)
Tasks == {"none", "run", "saving", "marking", "done", "panicked", "dropped"}
Ends  == {"none", "open", "sent", "closed"}

(* The fields of the backfill task; error and first do not matter below.   *)
IsTask(t) ==
  /\ t = [st |-> t.st, at |-> t.at, error |-> t.error, first |-> t.first]
  /\ t.st \in Tasks /\ t.at \in Nat

(* The values the variables below take.                                    *)
States ==
  /\ main \in {"start", "loop", "wait", "drop", "exited"}
  /\ node \in {"none", "select", "catch_up", "running", "join", "done", "failed", "dropped"}
  /\ notify \in Ends
  /\ IsTask(bf)
  /\ state_file \in {Absent, Finished} \cup Nat
  /\ faults \in Nat
  /\ exit \in {"none", "ok", "error", "crash"}

(* The oneshot behind stop_notify tells main how the node ended, and the   *)
(* node only ends by itself with everything flushed.                       *)
EndsFlushed ==
  /\ notify = "sent" => node = "done"
  /\ notify = "closed" => node = "failed"
  /\ node = "done" => ~dirty
  /\ main = "drop" => timed_out \/ notify \in {"sent", "closed"}
  /\ exit = "ok" => main = "exited" /\ (timed_out \/ notify \in {"sent", "closed"})

(* A backfill that runs is ahead of the file, and one that marks its       *)
(* blocks has emptied it; the process does not end there by itself.        *)
FileFollows ==
  /\ bf.st \in {"run", "saving"} => state_file # Finished /\ bf.at >= state_file
  /\ bf.st = "marking" => state_file = Finished
  /\ main = "exited" /\ faults = 0 => bf.st # "marking"

DInv == States /\ EndsFlushed /\ FileFollows /\ FinishedIsMarked

(* The daemon starts in the invariant.                                       *)
LEMMA InitDInv == DaemonInit => DInv
  BY DEF DaemonInit, DInv, States, IsTask, Tasks, Ends, EndsFlushed, FileFollows, FinishedIsMarked,
         NoTask, Absent, Finished

(* start, main's loop and what ends the process.                           *)
LEMMA MainDInv == DInv /\ (Main \/ start_fails \/ create_fails \/ ctrl_c \/ Crash) => DInv'
<1> SUFFICES ASSUME DInv, Main \/ start_fails \/ create_fails \/ ctrl_c \/ Crash PROVE DInv'
  OBVIOUS
<1> USE DEF DInv, States, IsTask, Tasks, Ends, EndsFlushed, FileFollows, FinishedIsMarked,
            task, server, ending, Absent, Finished
<1>1. CASE start
  BY <1>1 DEF start
<1>2. CASE create
  BY <1>2 DEF create
<1>3. CASE stop
  BY <1>3 DEF stop
<1>4. CASE wait_shutdown
  BY <1>4 DEF wait_shutdown
<1>5. CASE wait_timeout
  BY <1>5 DEF wait_timeout
<1>6. CASE CancelNode
  BY <1>6 DEF CancelNode
<1>7. CASE CancelBackfill
  BY <1>7 DEF CancelBackfill
<1>8. CASE Dropped
  BY <1>8 DEF Dropped
<1>9. CASE start_fails
  BY <1>9 DEF start_fails, Fault, Exit
<1>10. CASE create_fails
  BY <1>10 DEF create_fails, Fault, Exit
<1>11. CASE ctrl_c
  BY <1>11 DEF ctrl_c
<1>12. CASE Crash
  BY <1>12 DEF Crash, Fault, Exit
<1> QED BY <1>1, <1>2, <1>3, <1>4, <1>5, <1>6, <1>7, <1>8, <1>9, <1>10, <1>11, <1>12 DEF Main

(* A new life of the process.                                              *)
LEMMA RestartDInv == DInv /\ Restart => DInv'
  BY DEF DInv, States, IsTask, Tasks, Ends, EndsFlushed, FileFollows, FinishedIsMarked,
         Restart, NoTask, Absent, Finished

(* The node task.                                                          *)
LEMMA NodeDInv == DInv /\ (Node \/ catch_up_fails \/ connect_block) => DInv'
<1> SUFFICES ASSUME DInv, Node \/ catch_up_fails \/ connect_block PROVE DInv'
  OBVIOUS
<1> USE DEF DInv, States, IsTask, Tasks, Ends, EndsFlushed, FileFollows, FinishedIsMarked,
            server, ending, NodeUnchanged, ProcessAlive, Absent, Finished
<1>1. CASE chain_selected
  <2>1. CASE stop_signal \/ bf' = bf
    BY <1>1, <2>1 DEF chain_selected, shutdown, backfill
  <2>2. CASE ~stop_signal /\ bf' # bf
    <3>1. IsTask(bf') /\ bf'.st = "run" /\ bf'.at >= state_file /\ state_file # Finished
      BY <1>1, <2>2 DEF chain_selected, backfill
    <3> QED BY <1>1, <2>2, <3>1 DEF chain_selected
  <2> QED BY <2>1, <2>2
<1>2. CASE caught_up
  BY <1>2 DEF caught_up, shutdown
<1>3. CASE maintenance_tick
  BY <1>3 DEF maintenance_tick, shutdown
<1>4. CASE join
  BY <1>4 DEF join, shutdown
<1>5. CASE catch_up_fails
  BY <1>5 DEF catch_up_fails, Fault
<1>6. CASE connect_block
  BY <1>6 DEF connect_block
<1> QED BY <1>1, <1>2, <1>3, <1>4, <1>5, <1>6 DEF Node

(* The backfill task.                                                      *)
LEMMA TaskDInv == DInv /\ (BackfillTask \/ bad_proof) => DInv'
<1> SUFFICES ASSUME DInv, BackfillTask \/ bad_proof PROVE DInv'
  OBVIOUS
<1> USE DEF DInv, States, IsTask, Tasks, Ends, EndsFlushed, FileFollows, FinishedIsMarked,
            server, TaskUnchanged, ProcessAlive, Absent, Finished
<1>1. CASE process_block
  <2>1. CASE bf' = [bf EXCEPT !.error = TRUE, !.st = "panicked"]
    <3>1. IsTask(bf') /\ bf'.st = "panicked"
      BY <2>1
    <3> QED BY <1>1, <3>1 DEF process_block
  <2>2. CASE bf' = [bf EXCEPT !.at = bf.at + 1]
    <3>1. IsTask(bf') /\ bf'.st = bf.st /\ bf'.at = bf.at + 1
      BY <2>2
    <3> QED BY <1>1, <3>1 DEF process_block
  <2> QED BY <1>1, <2>1, <2>2 DEF process_block
<1>2. CASE done_cb
  BY <1>2 DEF done_cb
<1>3. CASE write_state
  BY <1>3 DEF write_state
<1>4. CASE mark_block_as_valid
  BY <1>4 DEF mark_block_as_valid
<1>5. CASE bad_proof
  <2>1. IsTask(bf')
    BY <1>5 DEF bad_proof
  <2>2. bf'.st = bf.st /\ bf'.at = bf.at
    BY <1>5 DEF bad_proof
  <2> QED BY <1>5, <2>1, <2>2 DEF bad_proof, Fault
<1> QED BY <1>1, <1>2, <1>3, <1>4, <1>5 DEF BackfillTask

(* RpcRequests touch nothing but the server's table and the stop signal.      *)
LEMMA RequestDInv ==
  ASSUME DInv, NEW r \in RpcRequests, json_rpc_request(r) \/ answer(r) \/ refuse(r) \/ rpc_stop(r)
  PROVE  DInv'
  BY DEF DInv, States, EndsFlushed, FileFollows, FinishedIsMarked, json_rpc_request, answer,
         refuse, rpc_stop, Respond, ServerUnchanged, task, ending

(* Every step of the daemon keeps it.                                        *)
LEMMA NextDInv == DInv /\ [DaemonNext]_daemonVars => DInv'
<1> SUFFICES ASSUME DInv, [DaemonNext]_daemonVars PROVE DInv'
  OBVIOUS
<1>1. CASE DaemonNext
  BY <1>1, MainDInv, RestartDInv, NodeDInv, TaskDInv, RequestDInv DEF DaemonNext
<1>2. CASE UNCHANGED daemonVars
  BY <1>2 DEF daemonVars, task, server, ending, DInv, States, EndsFlushed, FileFollows, FinishedIsMarked
<1> QED BY <1>1, <1>2

(* The invariant holds in every state florestad reaches, in every life.    *)
THEOREM DaemonInvariance == DaemonSpec => []DInv
<1> QED BY InitDInv, NextDInv, PTL DEF DaemonSpec

(* Whatever the node, the backfill and the clients do, a process that ends *)
(* by itself, in time and with a node that did not fail, has flushed every *)
(* block it connected (shutdown, wait_shutdown).                           *)
THEOREM OrderlyEndFlushes == DaemonSpec => []NothingLost
<1>1. DInv => NothingLost
  BY DEF DInv, EndsFlushed, States, NothingLost
<1> QED BY <1>1, DaemonInvariance, PTL

(* Without a crash, the file is only empty once the backfilled blocks are  *)
(* marked (the callback of RunningNode::backfill).                         *)
THEOREM FinishedAreMarked == DaemonSpec => []FinishedIsMarked
<1>1. DInv => FinishedIsMarked
  BY DEF DInv
<1> QED BY <1>1, DaemonInvariance, PTL

(* Through any number of crashes and restarts .sync_node_state only        *)
(* advances, and a finished backfill is never started again.               *)
THEOREM ProgressOnlyGrows == DaemonSpec => SavedGrows
<1>1. DInv /\ [DaemonNext]_daemonVars => [state_file' # state_file => Grows]_daemonVars
  <2> SUFFICES ASSUME DInv, DaemonNext, state_file' # state_file PROVE Grows
    BY DEF daemonVars
  <2>1. write_state
    BY DEF DaemonNext, Main, Node, BackfillTask, start, start_fails, create, create_fails, ctrl_c, stop,
           wait_shutdown, wait_timeout, CancelNode, CancelBackfill, Dropped, Crash, Restart, Exit,
           Fault, chain_selected, caught_up, catch_up_fails, connect_block, maintenance_tick, join,
           NodeUnchanged, process_block, bad_proof, done_cb, mark_block_as_valid, TaskUnchanged,
           json_rpc_request, answer, refuse, rpc_stop, Respond, ServerUnchanged, task
  <2> QED BY <2>1 DEF write_state, DInv, States, IsTask, Tasks, FileFollows, Grows, Absent, Finished
<1> QED BY <1>1, DaemonInvariance, PTL DEF DaemonSpec, SavedGrows

-----------------------------------------------------------------------------
(* The task of a peer.                                                     *)
USE Zenon

(* The durations of peer.rs and node.rs are whole seconds.                 *)
Durations ==
  /\ INV_MESSAGE_INTERVAL \in Nat /\ ADDRV2_MESSAGE_INTERVAL \in Nat
  /\ REQUEST_POLL_INTERVAL \in Nat /\ CONNECT_TIMEOUT \in Nat
  /\ PING_TIMEOUT \in Nat /\ SEND_PING_TIMEOUT \in Nat /\ HANDSHAKE_TIMEOUT \in Nat

Times == [message : Int, ping : Int, inv : Int, addr : Int, version : Int, start : Int, wake : Int]

(* What the node may be told: NodeNotification::FromPeer's PeerMessages.   *)
Data == {"headers", "block", "tx", "notfound", "cfilter", "cfheaders", "uproof"}
Messages == {"Ready", "Disconnected", "NewBlock", "Addr"} \cup Data
Entries == Seq(Messages \X Int)

(* A log s of what the node was sent by time n: Ready first and once,      *)
(* Disconnected last, and announcements and addresses apart, none of them  *)
(* after the Instants that the limits look at.                             *)
Ordered(s) ==
  /\ \A i \in 1..Len(s) : s[i][1] = "Ready" => i = 1
  /\ \A i \in 1..Len(s) : s[i][1] \in {"Ready", "Disconnected"} \/ (i > 1 /\ s[1][1] = "Ready")
  /\ \A i \in 1..Len(s) : s[i][1] = "Disconnected" => i = Len(s)
Timely(s, inv, addr, n) ==
  \A i \in 1..Len(s) : /\ s[i][2] <= n
                       /\ s[i][1] = "NewBlock" => s[i][2] <= inv
                       /\ s[i][1] = "Addr" => s[i][2] <= addr
Apart(s) ==
  \A i, j \in 1..Len(s) : i < j /\ s[i][1] = s[j][1] =>
     /\ s[i][1] = "NewBlock" => s[j][2] - s[i][2] >= INV_MESSAGE_INTERVAL
     /\ s[i][1] = "Addr" => s[j][2] - s[i][2] >= ADDRV2_MESSAGE_INTERVAL
Log(s, inv, addr, n) == s \in Entries /\ Ordered(s) /\ Timely(s, inv, addr, n) /\ Apart(s)

(* The task has not said that it ended.                                    *)
Open(s) == \A i \in 1..Len(s) : s[i][1] # "Disconnected"

(* Before the handshake is over the node has heard nothing, does not think *)
(* the peer ready, and has asked it for nothing but to shut down.          *)
Early == state \in {"proxy", "proxyAgain", "v2", "v1"} \cup Handshake
PInv ==
  /\ state \in {"proxy", "proxyAgain", "v2", "v1", "SentVersion", "SentVerack", "Connected", "Ended"}
  /\ now \in Int /\ last \in Times
  /\ reports \in Seq(Messages)
  /\ reqs \in Seq(Requests \cup {"Shutdown"})
  /\ Log(sent, last.inv, last.addr, now)
  /\ Early => /\ sent = <<>> /\ reports = <<>> /\ view # "Ready"
              /\ \A i \in 1..Len(reqs) : RandomDisconnect /\ reqs[i] = "Shutdown"
  /\ state = "Connected" => Len(sent) >= 1 /\ sent[1][1] = "Ready"
  /\ state # "Ended" => Open(sent)
  /\ state \in {"proxy", "proxyAgain", "v2", "v1"} => last.start = Never
  /\ state = "Ended" => last.start = Never \/ panicked \/ ~Open(sent)

-----------------------------------------------------------------------------
(* Adding one entry to a log that is still open keeps it a log, when it is *)
(* the first and Ready or comes after Ready, and at the rate of the limits.*)
LEMMA AppendKeepsLog ==
  ASSUME NEW s, NEW inv \in Int, NEW addr \in Int, NEW n \in Int,
         NEW inv2 \in Int, NEW addr2 \in Int, NEW k \in Messages,
         Durations, Log(s, inv, addr, n), Open(s),
         inv2 \in {inv, n}, addr2 \in {addr, n},
         \/ k = "Ready" /\ s = <<>>
         \/ k = "Disconnected"
         \/ k \notin {"Ready", "Disconnected"} /\ Len(s) >= 1 /\ s[1][1] = "Ready",
         k = "NewBlock" => inv2 = n /\ n - inv >= INV_MESSAGE_INTERVAL,
         k = "Addr" => addr2 = n /\ n - addr >= ADDRV2_MESSAGE_INTERVAL
  PROVE  Log(Append(s, <<k, n>>), inv2, addr2, n)
<1> DEFINE e == <<k, n>>
           r == Append(s, e)
<1>1. s \in Entries /\ e \in Messages \X Int /\ e[1] = k /\ e[2] = n
  BY DEF Log
<1>2. r \in Entries /\ Len(r) = Len(s) + 1 /\ Len(s) \in Nat
  BY <1>1, SMT DEF Entries
<1>3. \A i \in 1..Len(s) : r[i] = s[i] /\ s[i][1] \in Messages /\ s[i][2] \in Int
  BY <1>1, SMT DEF Entries
<1>4. r[Len(s) + 1] = e
  BY <1>1, SMT DEF Entries
<1> HIDE DEF r, e
<1>5. \A i \in 1..Len(r) : i \in 1..Len(s) \/ i = Len(s) + 1
  BY <1>2, SMT
<1>6. Ordered(r)
  <2>1. CASE s = <<>>
    <3>1. Len(s) = 0 /\ Len(r) = 1
      BY <2>1, <1>2, SMT
    <3> QED BY <3>1, <1>1, <1>4, <1>5, SMT DEF Ordered
  <2>2. CASE s # <<>>
    <3>1. 1 \in 1..Len(s) /\ r[1] = s[1]
      BY <2>2, <1>1, <1>2, <1>3, SMT DEF Entries
    <3> QED BY <2>2, <3>1, <1>1, <1>2, <1>3, <1>4, <1>5, SMT DEF Ordered, Log, Open
  <2> QED BY <2>1, <2>2
<1>7. Timely(r, inv2, addr2, n)
  BY <1>1, <1>2, <1>3, <1>4, <1>5, SMT DEF Timely, Log
<1>8. Apart(r)
  <2> SUFFICES ASSUME NEW i \in 1..Len(r), NEW j \in 1..Len(r), i < j, r[i][1] = r[j][1]
               PROVE  /\ r[i][1] = "NewBlock" => r[j][2] - r[i][2] >= INV_MESSAGE_INTERVAL
                      /\ r[i][1] = "Addr" => r[j][2] - r[i][2] >= ADDRV2_MESSAGE_INTERVAL
    BY DEF Apart
  <2>1. i \in 1..Len(s)
    BY <1>2, SMT
  <2>2. CASE j \in 1..Len(s)
    BY <2>1, <2>2, <1>3 DEF Apart, Log
  <2>3. CASE j = Len(s) + 1
    <3>1. r[i] = s[i] /\ s[i][2] \in Int /\ r[j][1] = k /\ r[j][2] = n
      BY <2>1, <2>3, <1>1, <1>3, <1>4
    <3>2. (s[i][1] = "NewBlock" => s[i][2] <= inv) /\ (s[i][1] = "Addr" => s[i][2] <= addr)
      BY <2>1 DEF Timely, Log
    <3>3. CASE k = "NewBlock"
      <4>1. r[i][2] <= inv /\ n - inv >= INV_MESSAGE_INTERVAL /\ r[i][2] \in Int
        BY <3>1, <3>2, <3>3
      <4>2. n - r[i][2] >= INV_MESSAGE_INTERVAL
        BY <4>1, SMT DEF Durations
      <4> QED BY <3>1, <3>3, <4>2
    <3>4. CASE k = "Addr"
      <4>1. r[i][2] <= addr /\ n - addr >= ADDRV2_MESSAGE_INTERVAL /\ r[i][2] \in Int
        BY <3>1, <3>2, <3>4
      <4>2. n - r[i][2] >= ADDRV2_MESSAGE_INTERVAL
        BY <4>1, SMT DEF Durations
      <4> QED BY <3>1, <3>4, <4>2
    <3> QED BY <3>1, <3>3, <3>4
  <2> QED BY <2>2, <2>3, <1>5
<1> QED BY <1>2, <1>6, <1>7, <1>8 DEF Log, r, e

-----------------------------------------------------------------------------
(* What handling one message or request may lead to.                       *)
Fields == {"to", "tell", "t", "res", "writes"}
Acceptable(o) ==
  /\ DOMAIN o = Fields
  /\ o.t \in Times /\ o.t.start = last.start
  /\ o.t.inv \in {last.inv, now} /\ o.t.addr \in {last.addr, now}
  /\ \/ o.tell = <<>> /\ o.to = state
     \/ o.tell = <<>> /\ state = "SentVersion" /\ o.to = "SentVerack"
     \/ o.tell = <<"Ready">> /\ state = "SentVerack" /\ o.to = "Connected"
     \/ /\ state = "Connected" /\ o.to = "Connected"
        /\ \E k \in Messages :
             /\ o.tell = <<k>> /\ k \notin {"Ready", "Disconnected"}
             /\ k = "NewBlock" => o.t.inv = now /\ now - last.inv >= INV_MESSAGE_INTERVAL
             /\ k = "Addr" => o.t.addr = now /\ now - last.addr >= ADDRV2_MESSAGE_INTERVAL

(* What a handler leaves that touches no time.                             *)
LEMMA PlainOutcomes ==
  ASSUME last \in Times
  PROVE  Acceptable(Outcome) /\ Acceptable(Error) /\ Acceptable(Write)
<1>1. DOMAIN Outcome = Fields /\ Outcome.t = last /\ Outcome.to = state /\ Outcome.tell = <<>>
  BY SMT DEF Outcome, Fields
<1>2. DOMAIN Error = Fields /\ Error.t = last /\ Error.to = state /\ Error.tell = <<>>
  BY SMT DEF Error, Outcome, Fields
<1>3. DOMAIN Write = Fields /\ Write.t = last /\ Write.to = state /\ Write.tell = <<>>
  BY SMT DEF Write, Outcome, Fields
<1> QED BY <1>1, <1>2, <1>3 DEF Acceptable

(* The messages of a connected peer.                                       *)
LEMMA ConnectedAcceptable ==
  ASSUME now \in Int, last \in Times, state = "Connected", Durations, NEW k
  PROVE  Acceptable(Connected(k))
<1>1. Acceptable(Outcome) /\ Acceptable(Error) /\ Acceptable(Write)
  BY PlainOutcomes
<1>2. Acceptable([Outcome EXCEPT !.t.ping = Never])
  <2> DEFINE o == [Outcome EXCEPT !.t.ping = Never]
  <2>1. DOMAIN o = Fields /\ o.t = [last EXCEPT !.ping = Never] /\ o.to = state /\ o.tell = <<>>
    BY SMT DEF Outcome, Fields
  <2>2. Never \in Int
    BY SMT DEF Never
  <2> HIDE DEF o
  <2>3. o.t \in Times /\ o.t.inv = last.inv /\ o.t.addr = last.addr /\ o.t.start = last.start
    BY <2>1, <2>2 DEF Times
  <2> QED BY <2>1, <2>3 DEF Acceptable, o
<1>3. ASSUME NEW d \in Data
      PROVE  Acceptable(Tell(d))
  <2>1. /\ DOMAIN Tell(d) = Fields /\ Tell(d).t = last /\ Tell(d).to = state
        /\ Tell(d).tell = <<d>>
    BY SMT DEF Tell, Outcome, Fields
  <2>2. d \in Messages /\ d \notin {"Ready", "Disconnected", "NewBlock", "Addr"}
    BY DEF Data, Messages
  <2> QED BY <2>1, <2>2 DEF Acceptable
<1>4. Acceptable(OnInv) /\ Acceptable([OnInv EXCEPT !.res = "err"])
  <2>1. CASE now - last.inv < INV_MESSAGE_INTERVAL
    <3>1. OnInv = Outcome
      BY <2>1 DEF OnInv
    <3>2. [Outcome EXCEPT !.res = "err"] = Error
      BY DEF Error
    <3> QED BY <3>1, <3>2, <1>1
  <2>2. CASE ~(now - last.inv < INV_MESSAGE_INTERVAL)
    <3> DEFINE o == OnInv
               e == [OnInv EXCEPT !.res = "err"]
    <3>1. /\ DOMAIN o = Fields /\ o.t = [last EXCEPT !.inv = now]
          /\ o.to = state /\ o.tell = <<"NewBlock">>
      BY <2>2, SMT DEF OnInv, Tell, Outcome, Fields
    <3>2. DOMAIN e = Fields /\ e.t = o.t /\ e.to = o.to /\ e.tell = o.tell
      BY <3>1, SMT DEF Fields
    <3>3. now - last.inv >= INV_MESSAGE_INTERVAL
      BY <2>2, SMT DEF Times, Durations
    <3> HIDE DEF o, e
    <3>4. o.t \in Times /\ o.t.inv = now /\ o.t.addr = last.addr /\ o.t.start = last.start
      BY <3>1 DEF Times
    <3>5. Acceptable(o) /\ Acceptable(e)
      <4>1. "NewBlock" \in Messages /\ "NewBlock" \notin {"Ready", "Disconnected", "Addr"}
        BY DEF Messages
      <4> QED BY <4>1, <3>1, <3>2, <3>3, <3>4 DEF Acceptable
    <3> QED BY <3>5 DEF o, e
  <2> QED BY <2>1, <2>2
<1>5. Acceptable(OnAddrV2)
  <2> DEFINE o == OnAddrV2
  <2>1. DOMAIN o = Fields /\ o.t = [last EXCEPT !.addr = now] /\ o.to = state
    BY SMT DEF OnAddrV2, Tell, Outcome, Fields
  <2>2. \/ o.tell = <<>>
        \/ o.tell = <<"Addr">> /\ now - last.addr >= ADDRV2_MESSAGE_INTERVAL
    <3> DEFINE early == now - last.addr < ADDRV2_MESSAGE_INTERVAL
    <3>1. early \/ now - last.addr >= ADDRV2_MESSAGE_INTERVAL
      BY SMT DEF Times, Durations
    <3> HIDE DEF early
    <3>2. o.tell = (IF early THEN <<>> ELSE <<"Addr">>)
      BY SMT DEF OnAddrV2, Tell, Outcome, early
    <3> HIDE DEF o
    <3> QED BY <3>1, <3>2
  <2> HIDE DEF o
  <2>3. o.t \in Times /\ o.t.inv = last.inv /\ o.t.addr = now /\ o.t.start = last.start
    BY <2>1 DEF Times
  <2>4. Acceptable(o)
    <3>1. "Addr" \in Messages /\ "Addr" \notin {"Ready", "Disconnected", "NewBlock"}
      BY DEF Messages
    <3> QED BY <3>1, <2>1, <2>2, <2>3 DEF Acceptable
  <2> QED BY <2>4 DEF o
<1>6. k \in {"headers", "block", "tx", "notfound", "cfilter", "cfheaders", "uproof"} =>
        Acceptable(Tell(k))
  BY <1>3 DEF Data
<1> QED BY <1>1, <1>2, <1>4, <1>5, <1>6, Zenon DEF Connected

(* handle_peer_message in every state.                                     *)
LEMMA MessageAcceptable ==
  ASSUME now \in Int, last \in Times, Alive, Durations, NEW k
  PROVE  Acceptable(handle_peer_message(k))
<1>1. Acceptable(Outcome) /\ Acceptable(Error)
  BY PlainOutcomes
<1>2. CASE k # "error" /\ state = "Connected"
  BY <1>2, ConnectedAcceptable DEF handle_peer_message
<1>3. CASE k # "error" /\ state = "SentVersion"
  <2> DEFINE o == handle_version
  <2>1. DOMAIN o = Fields /\ o.t = last /\ o.to = "SentVerack" /\ o.tell = <<>>
    BY SMT DEF handle_version, Write, Outcome, Fields
  <2>2. Acceptable(handle_version)
    BY <1>3, <2>1 DEF Acceptable
  <2> QED BY <1>1, <1>3, <2>2 DEF handle_peer_message
<1>4. CASE k # "error" /\ state = "SentVerack"
  <2> DEFINE o == [Tell("Ready") EXCEPT !.to = "Connected"]
  <2>1. DOMAIN o = Fields /\ o.t = last /\ o.to = "Connected" /\ o.tell = <<"Ready">>
    BY SMT DEF Tell, Outcome, Fields
  <2>2. Acceptable(o)
    BY <1>4, <2>1 DEF Acceptable
  <2> QED BY <1>1, <1>4, <2>2 DEF handle_peer_message
<1>5. CASE k = "error"
  BY <1>1, <1>5 DEF handle_peer_message
<1> QED BY <1>2, <1>3, <1>4, <1>5 DEF Alive, Handshake

(* handle_node_request.                                                    *)
LEMMA RequestAcceptable ==
  ASSUME now \in Int, last \in Times, NEW r
  PROVE  Acceptable(handle_node_request(r))
<1>1. Acceptable(Outcome) /\ Acceptable(Write)
  BY PlainOutcomes
<1> DEFINE e == [Write EXCEPT !.res = "stop"]
           o == [Write EXCEPT !.t.ping = now]
<1>2. DOMAIN e = Fields /\ e.t = last /\ e.to = state /\ e.tell = <<>>
  BY SMT DEF Write, Outcome, Fields
<1>3. DOMAIN o = Fields /\ o.t = [last EXCEPT !.ping = now] /\ o.to = state /\ o.tell = <<>>
  BY SMT DEF Write, Outcome, Fields
<1> HIDE DEF e, o
<1>4. o.t \in Times /\ o.t.inv = last.inv /\ o.t.addr = last.addr /\ o.t.start = last.start
  BY <1>3 DEF Times
<1>5. Acceptable(e) /\ Acceptable(o)
  BY <1>2, <1>3, <1>4 DEF Acceptable
<1> QED BY <1>1, <1>5, Zenon DEF handle_node_request, e, o

-----------------------------------------------------------------------------
(* What Round adds to the log, entry by entry.                             *)
Stamped(out, n) == [i \in DOMAIN out |-> <<out[i], n>>]

(* Reports one by one: none, one and two of a round.                       *)
LEMMA StampedNone ==
  ASSUME NEW s \in Entries, NEW n
  PROVE  s \o Stamped(<<>>, n) = s
<1>1. Stamped(<<>>, n) = <<>>
  BY SMT DEF Stamped
<1> QED BY <1>1, SMT DEF Entries

(* One message sent to the node.                                           *)
LEMMA StampedOne ==
  ASSUME NEW s \in Entries, NEW n \in Int, NEW k \in Messages
  PROVE  s \o Stamped(<<k>>, n) = Append(s, <<k, n>>)
<1>1. Stamped(<<k>>, n) = << <<k, n>> >>
  BY SMT DEF Stamped
<1>2. ASSUME NEW S, NEW t \in Seq(S), NEW x \in S
      PROVE  t \o <<x>> = Append(t, x)
  BY SMT
<1>3. <<k, n>> \in Messages \X Int
  OBVIOUS
<1> QED BY <1>1, <1>2, <1>3, Zenon DEF Entries

(* Two messages sent at once.                                              *)
LEMMA StampedTwo ==
  ASSUME NEW s \in Entries, NEW n \in Int, NEW k \in Messages, NEW m \in Messages
  PROVE  s \o Stamped(<<k, m>>, n) = Append(Append(s, <<k, n>>), <<m, n>>)
<1>1. Stamped(<<k, m>>, n) = << <<k, n>>, <<m, n>> >>
  BY SMT DEF Stamped
<1>2. ASSUME NEW S, NEW t \in Seq(S), NEW x \in S, NEW y \in S
      PROVE  t \o <<x, y>> = Append(Append(t, x), y)
  BY SMT
<1>3. <<k, n>> \in Messages \X Int /\ <<m, n>> \in Messages \X Int
  OBVIOUS
<1> DEFINE x == <<k, n>>
           y == <<m, n>>
<1>4. s \o <<x, y>> = Append(Append(s, x), y)
  <2> x \in Messages \X Int /\ y \in Messages \X Int /\ s \in Seq(Messages \X Int)
    BY <1>3 DEF Entries
  <2> HIDE DEF x, y
  <2> QED BY <1>2, SMT
<1> QED BY <1>1, <1>4, Zenon

(* An acceptable outcome of a round that goes on adds what is told.        *)
LEMMA LogGoesOn ==
  ASSUME PInv, Durations, Alive, NEW o, Acceptable(o)
  PROVE  LET s == sent \o Stamped(o.tell, now)
         IN  /\ Log(s, o.t.inv, o.t.addr, now) /\ Open(s)
             /\ o.to \in Handshake => s = <<>> /\ o.tell = <<>>
             /\ o.to = "Connected" => Len(s) >= 1 /\ s[1][1] = "Ready"
             /\ o.to \in Handshake \cup {"Connected"}
             /\ o.tell \in Seq(Messages)
<1> DEFINE s == sent \o Stamped(o.tell, now)
<1>1. /\ sent \in Entries /\ Log(sent, last.inv, last.addr, now) /\ now \in Int
      /\ last \in Times /\ o.t \in Times /\ Open(sent)
  BY DEF PInv, Log, Alive, Acceptable, Handshake
<1>2. /\ last.inv \in Int /\ last.addr \in Int /\ o.t.inv \in Int /\ o.t.addr \in Int
      /\ o.t.inv \in {last.inv, now} /\ o.t.addr \in {last.addr, now}
  BY <1>1 DEF Times, Acceptable
<1>3. CASE o.tell = <<>>
  <2>1. s = sent
    BY <1>1, <1>3, StampedNone
  <2>2. Log(sent, o.t.inv, o.t.addr, now)
    BY <1>1, <1>2 DEF Log, Timely
  <2>3. o.tell \in Seq(Messages)
    BY <1>3, SMT
  <2>4. o.to = state \/ (o.to \in Handshake /\ state \in Handshake)
    BY <1>3, SMT DEF Acceptable, Handshake
  <2>5. state \in Handshake => sent = <<>>
    BY DEF PInv, Early
  <2>6. state = "Connected" => Len(sent) >= 1 /\ sent[1][1] = "Ready"
    BY DEF PInv
  <2> QED BY <1>1, <1>3, <2>1, <2>2, <2>3, <2>4, <2>5, <2>6 DEF Alive, Handshake
<1>4. ASSUME NEW k \in Messages, o.tell = <<k>>, k # "Disconnected",
             \/ k = "Ready" /\ state = "SentVerack" /\ o.to = "Connected"
             \/ k # "Ready" /\ state = "Connected" /\ o.to = "Connected",
             k = "NewBlock" => o.t.inv = now /\ now - last.inv >= INV_MESSAGE_INTERVAL,
             k = "Addr" => o.t.addr = now /\ now - last.addr >= ADDRV2_MESSAGE_INTERVAL
      PROVE  /\ Log(s, o.t.inv, o.t.addr, now) /\ Open(s)
             /\ Len(s) >= 1 /\ s[1][1] = "Ready" /\ o.tell \in Seq(Messages)
             /\ o.to = "Connected"
  <2>1. s = Append(sent, <<k, now>>)
    BY <1>1, <1>4, StampedOne
  <2>2. \/ k = "Ready" /\ sent = <<>>
        \/ k # "Ready" /\ Len(sent) >= 1 /\ sent[1][1] = "Ready"
    BY <1>4 DEF PInv, Early, Handshake
  <2>3. Log(Append(sent, <<k, now>>), o.t.inv, o.t.addr, now)
    BY <1>1, <1>2, <1>4, <2>2, AppendKeepsLog
  <2>4. /\ Len(s) = Len(sent) + 1 /\ Len(sent) \in Nat
        /\ \A i \in 1..Len(sent) : s[i] = sent[i]
        /\ s[Len(sent) + 1] = <<k, now>>
    BY <1>1, <2>1, SMT DEF Entries
  <2> HIDE DEF s
  <2>5. Open(s)
    BY <1>1, <1>4, <2>4, SMT DEF Open
  <2>6. Len(s) >= 1 /\ s[1][1] = "Ready"
    BY <2>2, <2>4, SMT
  <2> QED BY <1>4, <2>1, <2>3, <2>5, <2>6, SMT
<1>5. CASE o.tell # <<>>
  <2>1. PICK k \in Messages :
          /\ o.tell = <<k>> /\ k # "Disconnected"
          /\ \/ k = "Ready" /\ state = "SentVerack" /\ o.to = "Connected"
             \/ k # "Ready" /\ state = "Connected" /\ o.to = "Connected"
          /\ k = "NewBlock" => o.t.inv = now /\ now - last.inv >= INV_MESSAGE_INTERVAL
          /\ k = "Addr" => o.t.addr = now /\ now - last.addr >= ADDRV2_MESSAGE_INTERVAL
    <3>1. "Ready" \in Messages
      BY DEF Messages
    <3> QED BY <1>5, <3>1 DEF Acceptable
  <2>2. /\ Log(s, o.t.inv, o.t.addr, now) /\ Open(s)
        /\ Len(s) >= 1 /\ s[1][1] = "Ready" /\ o.tell \in Seq(Messages) /\ o.to = "Connected"
    BY <1>4, <2>1
  <2> QED BY <2>2 DEF Handshake
<1> QED BY <1>3, <1>5

(* The parts of PInv, by the variables they are about.                     *)
LEMMA RoundKeepsPInv ==
  ASSUME PInv, Durations, Alive, NEW o, NEW total, Acceptable(o), Round(o, total),
         now' = now, view' = view, panicked' = panicked,
         reqs' = reqs \/ (state = "Connected" /\ reqs # <<>> /\ reqs' = Tail(reqs))
  PROVE  PInv'
<1> DEFINE end == o.res = "stop" \/ Failed(o, total)
           s == sent \o Stamped(o.tell, now)
<1>1. /\ Log(s, o.t.inv, o.t.addr, now) /\ Open(s)
      /\ o.to \in Handshake => s = <<>> /\ o.tell = <<>>
      /\ o.to = "Connected" => Len(s) >= 1 /\ s[1][1] = "Ready"
      /\ o.to \in Handshake \cup {"Connected"}
      /\ o.tell \in Seq(Messages)
  BY LogGoesOn
<1>2. /\ last' \in Times /\ last'.inv = o.t.inv /\ last'.addr = o.t.addr
      /\ last'.start = last.start
  <2>1. o.t \in Times /\ o.t.start = last.start /\ now \in Int
    BY DEF Acceptable, PInv
  <2> DEFINE p == Pinged(o.t)
  <2>2. p \in Times /\ p.inv = o.t.inv /\ p.addr = o.t.addr /\ p.start = o.t.start
    BY <2>1 DEF Pinged, Times
  <2>3. last' = [p EXCEPT !.wake = now + REQUEST_POLL_INTERVAL]
    BY DEF Round
  <2> HIDE DEF p
  <2>4. now + REQUEST_POLL_INTERVAL \in Int
    BY <2>1, SMT DEF Durations
  <2>5. ASSUME NEW w \in Int, NEW u, u = [p EXCEPT !.wake = w]
        PROVE  u \in Times /\ u.inv = p.inv /\ u.addr = p.addr /\ u.start = p.start
    BY <2>2, <2>5 DEF Times
  <2> QED BY <2>1, <2>2, <2>3, <2>4, <2>5
<1>3. reqs' \in Seq(Requests \cup {"Shutdown"})
  <2>1. ASSUME NEW S, NEW q \in Seq(S), q # <<>>
        PROVE  Tail(q) \in Seq(S)
    BY <2>1, SMT
  <2>2. reqs \in Seq(Requests \cup {"Shutdown"})
    BY DEF PInv
  <2> QED BY <2>1, <2>2, Zenon
<1>4. CASE ~end
  <2>1. state' = o.to /\ reports' = reports \o (o.tell \o <<>>)
        /\ sent' = sent \o Stamped(o.tell \o <<>>, now)
    BY <1>4 DEF Round, Stamped
  <2>2. o.tell \o <<>> = o.tell
    BY <1>1, SMT
  <2>3. sent' = s /\ reports' = reports \o o.tell
    BY <2>1, <2>2
  <2>4. reports' \in Seq(Messages) /\ (o.tell = <<>> => reports' = reports)
    BY <1>1, <2>3, SMT DEF PInv
  <2> HIDE DEF s
  <2>5. CASE o.to \in Handshake
    <3>1. state \in Handshake
      BY <2>5 DEF Acceptable, Handshake, Alive
    <3>2. reqs' = reqs /\ reports = <<>> /\ view # "Ready"
          /\ \A i \in 1..Len(reqs) : RandomDisconnect /\ reqs[i] = "Shutdown"
      BY <3>1 DEF PInv, Early, Handshake
    <3> QED BY <1>1, <1>2, <1>3, <2>1, <2>3, <2>4, <2>5, <3>2 DEF PInv, Early, Handshake
  <2>6. CASE o.to = "Connected"
    BY <1>1, <1>2, <1>3, <2>1, <2>3, <2>4, <2>6 DEF PInv, Early, Handshake
  <2> QED BY <1>1, <2>5, <2>6
<1>5. CASE end
  <2>1. state' = "Ended" /\ reports' = reports \o (o.tell \o <<"Disconnected">>)
        /\ sent' = sent \o Stamped(o.tell \o <<"Disconnected">>, now)
    BY <1>5 DEF Round, Stamped
  <2>2. "Disconnected" \in Messages
    BY DEF Messages
  <2>3. reports' \in Seq(Messages)
    BY <1>1, <2>1, <2>2, SMT DEF PInv
  <2>4. sent \in Entries /\ now \in Int
    BY DEF PInv, Log
  <2>5. sent' = Append(s, <<"Disconnected", now>>)
    <3>1. CASE o.tell = <<>>
      <4>1. o.tell \o <<"Disconnected">> = <<"Disconnected">> /\ s = sent
        BY <3>1, <2>4, StampedNone, SMT
      <4> QED BY <2>1, <2>2, <2>4, <4>1, StampedOne
    <3>2. CASE o.tell # <<>>
      <4>1. PICK k \in Messages : o.tell = <<k>>
        <5>1. "Ready" \in Messages
          BY DEF Messages
        <5> QED BY <3>2, <5>1 DEF Acceptable
      <4>2. o.tell \o <<"Disconnected">> = <<k, "Disconnected">>
        <5>1. ASSUME NEW S, NEW x \in S, NEW y \in S PROVE <<x>> \o <<y>> = <<x, y>>
          <6>1. <<x>> \in Seq(S) /\ <<y>> \in Seq(S) /\ Len(<<x>>) = 1 /\ Len(<<y>>) = 1
            BY SMT
          <6>2. <<x>> \o <<y>> \in Seq(S) /\ Len(<<x>> \o <<y>>) = 2
                /\ (<<x>> \o <<y>>)[1] = x /\ (<<x>> \o <<y>>)[2] = y
            BY <6>1, SMT
          <6>3. ASSUME NEW r \in Seq(S), Len(r) = 2 PROVE r = <<r[1], r[2]>>
            BY <6>3, SMT
          <6> QED BY <6>2, <6>3, Zenon
        <5> QED BY <2>2, <4>1, <5>1, Zenon
      <4>3. s = Append(sent, <<k, now>>)
        BY <2>4, <4>1, StampedOne
      <4> QED BY <2>1, <2>2, <2>4, <4>2, <4>3, StampedTwo
    <3> QED BY <3>1, <3>2
  <2> HIDE DEF s
  <2>6. o.t.inv \in Int /\ o.t.addr \in Int
    BY DEF Acceptable, Times
  <2>7. Log(sent', o.t.inv, o.t.addr, now)
    BY <1>1, <2>2, <2>4, <2>5, <2>6, AppendKeepsLog
  <2>8. ~Open(sent')
    <3>1. Len(s) + 1 \in 1..Len(sent') /\ sent'[Len(s) + 1] = <<"Disconnected", now>>
      BY <1>1, <2>2, <2>4, <2>5, SMT DEF Log, Entries
    <3> QED BY <3>1, SMT DEF Open
  <2> QED BY <1>2, <1>3, <2>1, <2>3, <2>7, <2>8 DEF PInv, Early, Handshake
<1> QED BY <1>4, <1>5

(* The time of the last message is set beside what the handler does.       *)
LEMMA HeardAcceptable ==
  ASSUME NEW o, Acceptable(o), NEW m \in Int
  PROVE  Acceptable([o EXCEPT !.t.message = m])
<1> DEFINE p == [o EXCEPT !.t.message = m]
<1>1. DOMAIN p = Fields /\ p.t = [o.t EXCEPT !.message = m] /\ p.to = o.to /\ p.tell = o.tell
  BY DEF Acceptable, Fields
<1> HIDE DEF p
<1>2. p.t \in Times /\ p.t.inv = o.t.inv /\ p.t.addr = o.t.addr /\ p.t.start = o.t.start
  BY <1>1 DEF Acceptable, Times
<1>3. Acceptable(p)
  BY <1>1, <1>2 DEF Acceptable
<1> QED BY <1>3 DEF p

-----------------------------------------------------------------------------
(* A connection attempt starts in the invariant.                           *)
LEMMA InitPInv == ASSUME Durations, Init PROVE PInv
<1>1. /\ sent = <<>> /\ reports = <<>> /\ reqs = <<>> /\ view = "Awaiting" /\ now = 0
      /\ state \in {"proxy", "v2"} /\ last.start = Never
  BY DEF Init
<1>2. last \in Times
  BY SMT DEF Init, Durations, Times, Never
<1>3. Log(sent, last.inv, last.addr, now) /\ Open(sent)
  BY <1>1, SMT DEF Log, Ordered, Timely, Apart, Entries, Open
<1>4. reqs \in Seq(Requests \cup {"Shutdown"}) /\ reports \in Seq(Messages)
  BY <1>1, SMT
<1> QED BY <1>1, <1>2, <1>3, <1>4, SMT DEF PInv, Early, Handshake

(* The attempt: nothing has been said and nothing asked.                   *)
LEMMA AttemptPInv ==
  ASSUME PInv, Durations, Socks5Connect \/ try_connection \/ AttemptTimesOut
  PROVE  PInv'
<1>1. /\ Early /\ last.start = Never /\ sent = <<>>
      /\ UNCHANGED <<reqs, reports, view, now, sent, panicked>>
  BY DEF Socks5Connect, try_connection, AttemptTimesOut, Settle, Spawn, Dialling, Early, PInv
<1>2. CASE /\ UNCHANGED last
           /\ state' \in {"proxy", "proxyAgain", "v2", "v1", "Ended"}
  BY <1>1, <1>2 DEF PInv, Early, Handshake
<1>3. CASE Spawn
  <2>1. state' = "SentVersion" /\ now \in Int
    BY <1>3 DEF Spawn, PInv
  <2>2. last' \in Times
    <3>1. /\ now - INV_MESSAGE_INTERVAL \in Int /\ now - ADDRV2_MESSAGE_INTERVAL \in Int
          /\ now + REQUEST_POLL_INTERVAL \in Int
      BY <2>1, SMT DEF Durations
    <3>2. ASSUME NEW t \in Times, NEW n \in Int, NEW a \in Int, NEW b \in Int, NEW c \in Int
          PROVE  [t EXCEPT !.message = n, !.inv = a, !.addr = b, !.version = n, !.start = n,
                           !.wake = c] \in Times
      BY DEF Times
    <3> QED BY <1>3, <2>1, <3>1, <3>2 DEF Spawn, PInv
  <2>3. Log(sent', last'.inv, last'.addr, now') /\ Open(sent')
    BY <1>1, SMT DEF Log, Ordered, Timely, Apart, Entries, Open
  <2> QED BY <1>1, <2>1, <2>2, <2>3 DEF PInv, Early, Handshake
<1> QED BY <1>2, <1>3 DEF Socks5Connect, try_connection, AttemptTimesOut, Settle

(* The task's own loop.                                                    *)
LEMMA LoopPInv ==
  ASSUME PInv, Durations, Receive \/ Serve \/ Poll \/ ChannelClosed
  PROVE  PInv'
<1>1. now \in Int /\ last \in Times
  BY DEF PInv
<1>2. CASE Receive
  <2> DEFINE k == Head(inbox)
             m == [last EXCEPT !.message = IF k = "error" THEN @ ELSE now].message
             o == handle_peer_message(k)
             total == IF k = "error" THEN msgs ELSE msgs + 1
  <2>1. /\ Alive /\ Round([o EXCEPT !.t.message = m], total)
        /\ now' = now /\ view' = view /\ panicked' = panicked /\ reqs' = reqs
    BY <1>2 DEF Receive
  <2>2. m \in Int
    BY <1>1 DEF Times
  <2> HIDE DEF m, total
  <2>3. Acceptable(o)
    BY <1>1, <2>1, MessageAcceptable
  <2> HIDE DEF o
  <2>4. Acceptable([o EXCEPT !.t.message = m])
    BY <2>2, <2>3, HeardAcceptable
  <2> QED BY <2>1, <2>4, RoundKeepsPInv
<1>3. CASE Serve
  <2>1. CASE state = "Connected"
    BY <1>1, <1>3, <2>1, RequestAcceptable, RoundKeepsPInv DEF Serve
  <2>2. CASE state # "Connected"
    <3>1. /\ state' = "Ended" /\ panicked' = TRUE /\ reqs # <<>> /\ reqs' = Tail(reqs)
          /\ UNCHANGED <<last, reports, sent, now>>
      BY <1>3, <2>2 DEF Serve
    <3>2. reqs' \in Seq(Requests \cup {"Shutdown"})
      <4>1. ASSUME NEW S, NEW q \in Seq(S), q # <<>>
            PROVE  Tail(q) \in Seq(S)
        BY <4>1, SMT
      <4>2. reqs \in Seq(Requests \cup {"Shutdown"})
        BY DEF PInv
      <4> QED BY <3>1, <4>1, <4>2, Zenon
    <3> QED BY <3>1, <3>2 DEF PInv, Early, Handshake
  <2> QED BY <2>1, <2>2
<1>4. CASE Poll
  BY <1>1, <1>4, PlainOutcomes, RoundKeepsPInv DEF Poll
<1>5. CASE ChannelClosed
  BY <1>1, <1>5, PlainOutcomes, RoundKeepsPInv DEF ChannelClosed
<1> QED BY <1>2, <1>3, <1>4, <1>5

(* The peer, the node and the clock.                                       *)
LEMMA OthersPInv ==
  ASSUME PInv,
         \/ \E k \in Kinds : PeerSends(k)
         \/ Break \/ NodeHandles \/ \E r \in Requests : NodeAsks(r)
         \/ disconnect_random_peers \/ ConnectExpires \/ Pass \/ Done \/ Late \/ UNCHANGED vars
  PROVE  PInv'
<1>1. CASE UNCHANGED <<state, reqs, reports, view, now, last, sent, panicked>>
  BY <1>1 DEF PInv, Early
<1>2. CASE NodeHandles
  <2>1. /\ reports # <<>> /\ reports' = Tail(reports)
        /\ UNCHANGED <<state, reqs, now, last, sent, panicked>>
    BY <1>2 DEF NodeHandles
  <2>2. reports' \in Seq(Messages)
    BY <2>1, SMT DEF PInv
  <2> QED BY <2>1, <2>2 DEF PInv, Early
<1>3. ASSUME NEW r \in Requests \cup {"Shutdown"}, Ask(r),
             Early => RandomDisconnect /\ r = "Shutdown"
      PROVE  PInv'
  <2>1. /\ reqs' = (IF state = "Ended" THEN reqs ELSE Append(reqs, r))
        /\ UNCHANGED <<state, reports, view, now, last, sent, panicked>>
    BY <1>3 DEF Ask
  <2>2. reqs \in Seq(Requests \cup {"Shutdown"})
    BY DEF PInv
  <2>3. reqs' \in Seq(Requests \cup {"Shutdown"})
    BY <2>1, <2>2, SMT
  <2>4. Early => \A i \in 1..Len(reqs') : RandomDisconnect /\ reqs'[i] = "Shutdown"
    <3> SUFFICES ASSUME Early, NEW i \in 1..Len(reqs')
                 PROVE  RandomDisconnect /\ reqs'[i] = "Shutdown"
      OBVIOUS
    <3>1. reqs' = Append(reqs, r)
      BY <2>1 DEF Early, Handshake
    <3>2. (i \in 1..Len(reqs) /\ reqs'[i] = reqs[i]) \/ reqs'[i] = r
      BY <2>2, <3>1, SMT
    <3> QED BY <1>3, <3>2 DEF PInv
  <2> QED BY <2>1, <2>3, <2>4 DEF PInv, Early
<1>4. ASSUME NEW r \in Requests, NodeAsks(r) PROVE PInv'
  BY <1>3, <1>4 DEF NodeAsks, PInv
<1>5. CASE disconnect_random_peers
  BY <1>3, <1>5 DEF disconnect_random_peers
<1>6. CASE ConnectExpires
  BY <1>6 DEF ConnectExpires, PInv, Early
<1>7. CASE Pass
  <2>1. now' = now + 1 /\ UNCHANGED <<state, reqs, reports, view, last, sent, panicked>>
    BY <1>7 DEF Pass
  <2>2. now \in Int /\ now' \in Int /\ now <= now'
    BY <2>1, SMT DEF PInv
  <2>3. Log(sent, last.inv, last.addr, now')
    <3>1. ASSUME NEW i \in 1..Len(sent) PROVE sent[i][2] <= now'
      <4>1. sent[i][2] \in Int /\ sent[i][2] <= now
        BY SMT DEF PInv, Log, Timely, Entries
      <4> QED BY <2>2, <4>1, SMT
    <3> QED BY <3>1 DEF PInv, Log, Timely
  <2> QED BY <2>1, <2>2, <2>3 DEF PInv, Early
<1>8. ASSUME NEW k \in Kinds, PeerSends(k) PROVE PInv'
  BY <1>1, <1>8 DEF PeerSends
<1> QED BY <1>1, <1>2, <1>4, <1>5, <1>6, <1>7, <1>8 DEF Break, Done, Late, vars

(* Every step of the peer and of the node keeps it.                        *)
LEMMA NextPInv == ASSUME Durations PROVE PInv /\ [Next]_vars => PInv'
  BY AttemptPInv, LoopPInv, OthersPInv DEF Next

(* Whatever comes, the node hears of a peer in the order and at the rate   *)
(* that its handlers count on.                                             *)
THEOREM PeerInvariance == ASSUME Durations PROVE Spec => []PInv
<1>1. Init => PInv
  BY InitPInv
<1>2. PInv /\ [Next]_vars => PInv'
  BY NextPInv
<1> QED BY <1>1, <1>2, PTL DEF Spec

(* Ready comes first and once, no data before it, Disconnected last and    *)
(* once and always unless the task panicked; and inv and addrv2 are passed *)
(* on no faster than the intervals allow (handle_peer_message, read_loop). *)
THEOREM ReportsAreSound == ASSUME Durations PROVE Spec => []ReportsSound
<1>1. PInv => ReportsSound
  <2> SUFFICES ASSUME PInv PROVE ReportsInOrder /\ RateLimited
    BY DEF ReportsSound
  <2>1. DOMAIN sent = 1..Len(sent) /\ Len(sent) \in Nat
    BY SMT DEF PInv, Log, Entries
  <2>2. Ordered(sent) /\ Apart(sent)
    BY DEF PInv, Log
  <2>3. \A i \in DOMAIN sent : sent[i][1] \in {"Ready", "Disconnected"} \/ \E j \in Told("Ready") : j < i
    <3> SUFFICES ASSUME NEW i \in 1..Len(sent), sent[i][1] \notin {"Ready", "Disconnected"}
                 PROVE  \E j \in Told("Ready") : j < i
      BY <2>1
    <3>1. i > 1 /\ sent[1][1] = "Ready"
      BY <2>2 DEF Ordered
    <3>2. 1 \in Told("Ready") /\ 1 < i
      BY <2>1, <3>1, SMT DEF Told
    <3> QED BY <3>2
  <2>4. state = "Ended" /\ last.start # Never /\ ~panicked => Told("Disconnected") # {}
    BY <2>1 DEF PInv, Open, Told
  <2>5. ReportsInOrder
    BY <2>1, <2>2, <2>3, <2>4 DEF Ordered, ReportsInOrder, Told
  <2>6. RateLimited
    BY <2>1, <2>2 DEF Apart, RateLimited
  <2> QED BY <2>5, <2>6
<1>2. Spec => []PInv
  BY PeerInvariance
<1> QED BY <1>1, <1>2, PTL

(* Of all the requests of the node, only the Shutdown that                 *)
(* disconnect_random_peers sends without waiting for the handshake makes   *)
(* the assertion of handle_node_request fail.                              *)
THEOREM AssertionHolds == ASSUME Durations PROVE Spec => PanicsOnlyOnRandomDisconnect
<1>1. PInv /\ [Next]_vars =>
        [panicked' /\ ~panicked => RandomDisconnect /\ Head(reqs) = "Shutdown"]_vars
  <2> SUFFICES ASSUME PInv, Next, panicked', ~panicked
               PROVE  RandomDisconnect /\ Head(reqs) = "Shutdown"
    OBVIOUS
  <2>1. Serve /\ state # "Connected"
    BY DEF Next, Socks5Connect, try_connection, AttemptTimesOut, Settle, Spawn, Receive, Serve, Poll,
           ChannelClosed, PeerSends, Break, NodeHandles, NodeAsks, disconnect_random_peers, Ask,
           ConnectExpires, Pass, Done, Late, vars
  <2>2. Early /\ reqs # <<>>
    BY <2>1 DEF Serve, Alive, Early, Handshake
  <2>3. reqs \in Seq(Requests \cup {"Shutdown"})
    BY DEF PInv
  <2>4. 1 \in 1..Len(reqs) /\ Head(reqs) = reqs[1]
    BY <2>2, <2>3, SMT
  <2> QED BY <2>2, <2>4 DEF PInv
<1>2. Spec => []PInv
  BY PeerInvariance
<1> QED BY <1>1, <1>2, PTL DEF Spec, PanicsOnlyOnRandomDisconnect

-----------------------------------------------------------------------------
(* A silent peer.  The task never sleeps past wake, one poll after its     *)
(* last round, and that round left no deadline behind it.                  *)
Attempt == {"proxy", "proxyAgain", "v2", "v1"}
OnTime(t, st) ==
  /\ st = "SentVersion" => t.wake - t.version <= HANDSHAKE_TIMEOUT + REQUEST_POLL_INTERVAL
  /\ t.ping = Never => t.wake - t.message <= SEND_PING_TIMEOUT + REQUEST_POLL_INTERVAL
  /\ t.ping # Never => t.wake - t.ping <= PING_TIMEOUT + REQUEST_POLL_INTERVAL
  /\ t.ping # Never /\ "Ping" \notin Requests =>
       t.ping - t.message <= SEND_PING_TIMEOUT + REQUEST_POLL_INTERVAL
TInv ==
  /\ PInv /\ now \in Nat
  /\ state \in Attempt => last.ping = Never
  /\ Alive => now <= last.wake /\ last.message <= now /\ OnTime(last, state)

(* What a message or a request does to the Instants: a pong, itself a      *)
(* message, ends the wait for one, and a Ping of the user starts it anew.  *)
Kept(t) == t.version = last.version /\ t.message = last.message
Awaits(t) ==
  /\ t.version = last.version
  /\ t.message \in {last.message, now}
  /\ \/ t.ping = last.ping
     \/ t.ping = Never /\ t.message = now
     \/ t.ping = now /\ "Ping" \in Requests

(* A plain outcome leaves every time as it is.                             *)
LEMMA PlainKept ==
  Outcome.t = last /\ Error.t = last /\ Write.t = last
  BY SMT DEF Outcome, Error, Write

(* A message changes no time but last_ping's, which a pong clears.         *)
LEMMA ConnectedKept ==
  ASSUME last \in Times, NEW k
  PROVE  Kept(Connected(k).t) /\ Connected(k).t.ping \in {last.ping, Never}
<1> DEFINE Good(o) == Kept(o.t) /\ o.t.ping \in {last.ping, Never}
<1>1. Good(Outcome) /\ Good(Error) /\ Good(Write)
  BY PlainKept DEF Kept
<1>2. Good([Outcome EXCEPT !.t.ping = Never])
  <2>1. [Outcome EXCEPT !.t.ping = Never].t = [last EXCEPT !.ping = Never]
    BY SMT DEF Outcome
  <2> QED BY <2>1 DEF Kept, Times
<1>3. Good(Tell(k))
  <2>1. Tell(k).t = last
    BY SMT DEF Tell, Outcome
  <2> QED BY <2>1 DEF Kept
<1>4. Good(OnInv) /\ Good([OnInv EXCEPT !.res = "err"])
  <2>1. CASE now - last.inv < INV_MESSAGE_INTERVAL
    <3>1. OnInv.t = last /\ [OnInv EXCEPT !.res = "err"].t = last
      BY <2>1, SMT DEF OnInv, Outcome
    <3> QED BY <3>1 DEF Kept
  <2>2. CASE ~(now - last.inv < INV_MESSAGE_INTERVAL)
    <3>1. /\ OnInv.t = [last EXCEPT !.inv = now]
          /\ [OnInv EXCEPT !.res = "err"].t = [last EXCEPT !.inv = now]
      BY <2>2, SMT DEF OnInv, Tell, Outcome
    <3> QED BY <3>1 DEF Kept, Times
  <2> QED BY <2>1, <2>2
<1>5. Good(OnAddrV2)
  <2>1. OnAddrV2.t = [last EXCEPT !.addr = now]
    BY SMT DEF OnAddrV2, Tell, Outcome
  <2> QED BY <2>1 DEF Kept, Times
<1> HIDE DEF Good
<1>6. Good(Connected(k))
  BY <1>1, <1>2, <1>3, <1>4, <1>5, Zenon DEF Connected
<1> QED BY <1>6 DEF Good

(* handle_peer_message in every state.                                     *)
LEMMA MessageKept ==
  ASSUME last \in Times, Alive, NEW k
  PROVE  LET t == handle_peer_message(k).t
         IN  Kept(t) /\ (t.ping = last.ping \/ (t.ping = Never /\ k # "error"))
<1> DEFINE Good(o) == Kept(o.t) /\ (o.t.ping = last.ping \/ (o.t.ping = Never /\ k # "error"))
<1>1. Good(Outcome) /\ Good(Error)
  BY PlainKept DEF Kept
<1>2. k # "error" => Good(Connected(k))
  BY ConnectedKept
<1>3. Good(handle_version)
  <2>1. handle_version.t = last
    BY SMT DEF handle_version, Write, Outcome
  <2> QED BY <2>1 DEF Kept
<1>4. Good([Tell("Ready") EXCEPT !.to = "Connected"])
  <2>1. [Tell("Ready") EXCEPT !.to = "Connected"].t = last
    BY SMT DEF Tell, Outcome
  <2> QED BY <2>1 DEF Kept
<1> HIDE DEF Good
<1>5. Good(handle_peer_message(k))
  BY <1>1, <1>2, <1>3, <1>4, Zenon DEF handle_peer_message, Alive, Handshake
<1> QED BY <1>5 DEF Good

(* handle_node_request changes no time but last_ping's, to now.            *)
LEMMA RequestAwaits ==
  ASSUME last \in Times, NEW r \in Requests \cup {"Shutdown"}
  PROVE  Awaits(handle_node_request(r).t)
<1>1. Awaits(Outcome.t) /\ Awaits(Write.t)
  BY PlainKept DEF Awaits
<1>2. Awaits([Write EXCEPT !.res = "stop"].t)
  <2>1. [Write EXCEPT !.res = "stop"].t = last
    BY SMT DEF Write, Outcome
  <2> QED BY <2>1 DEF Awaits
<1>3. r = "Ping" => Awaits([Write EXCEPT !.t.ping = now].t)
  <2>1. [Write EXCEPT !.t.ping = now].t = [last EXCEPT !.ping = now]
    BY SMT DEF Write, Outcome
  <2> QED BY <2>1 DEF Awaits, Times
<1> QED BY <1>1, <1>2, <1>3, Zenon DEF handle_node_request

(* A round that does not end the task leaves it a poll away from the next, *)
(* with every deadline checked now.                                        *)
LEMMA RoundOnTime ==
  ASSUME TInv, Durations, Alive, NEW o, NEW total, Acceptable(o), Awaits(o.t), Round(o, total),
         now' = now, PInv'
  PROVE  TInv'
<1> DEFINE t == o.t
           p == Pinged(t)
           w == now + REQUEST_POLL_INTERVAL
<1>1. t \in Times /\ last \in Times /\ now \in Nat /\ w \in Int /\ Never \in Int
  BY SMT DEF Acceptable, TInv, PInv, Durations, Never
<1>2. p \in Times /\ p.version = t.version /\ p.message = t.message
      /\ p.ping = IF now - t.message > SEND_PING_TIMEOUT /\ t.ping = Never THEN now ELSE t.ping
  <2>1. ASSUME NEW u \in Times, NEW c \in Int
        PROVE  LET q == [u EXCEPT !.ping = c]
               IN  q \in Times /\ q.version = u.version /\ q.message = u.message /\ q.ping = c
    BY DEF Times
  <2>2. now \in Int
    BY <1>1, SMT
  <2> HIDE DEF t
  <2>3. CASE now - t.message > SEND_PING_TIMEOUT /\ t.ping = Never
    BY <1>1, <2>1, <2>2, <2>3 DEF Pinged
  <2>4. CASE ~(now - t.message > SEND_PING_TIMEOUT /\ t.ping = Never)
    BY <1>1, <2>4 DEF Pinged
  <2> QED BY <2>3, <2>4
<1>3. last' = [p EXCEPT !.wake = w]
  BY DEF Round
<1> HIDE DEF p, w
<1>4. /\ last'.wake = w /\ last'.version = p.version /\ last'.message = p.message
      /\ last'.ping = p.ping
  BY <1>1, <1>2, <1>3 DEF Times
<1>5. CASE o.res = "stop" \/ Failed(o, total)
  BY <1>1, <1>5 DEF Round, TInv, Alive, Handshake, Attempt
<1>6. CASE ~(o.res = "stop" \/ Failed(o, total))
  <2>1. state' = o.to /\ o.to \notin Attempt /\ (o.to = "SentVersion" => state = "SentVersion")
    BY <1>6 DEF Round, Acceptable, Alive, Handshake, Attempt
  <2>2. /\ t.ping # Never => ~(now - t.ping > PING_TIMEOUT)
        /\ o.to = "SentVersion" => ~(now - t.version > HANDSHAKE_TIMEOUT)
    BY <1>6 DEF Failed
  <2>3. /\ t.message \in Int /\ t.ping \in Int /\ t.version \in Int
        /\ last.message \in Int /\ last.ping \in Int /\ last.wake \in Int
    BY <1>1 DEF Times
  <2>4. /\ now <= last.wake /\ last.message <= now /\ OnTime(last, state)
    BY DEF TInv
  <2> HIDE DEF t
  <2>5. Awaits(t)
    BY DEF t
  <2>6. now <= w /\ t.message <= now
    BY <1>1, <2>3, <2>4, <2>5, SMT DEF w, Awaits, Durations
  <2>7. o.to = "SentVersion" => w - t.version <= HANDSHAKE_TIMEOUT + REQUEST_POLL_INTERVAL
    BY <1>1, <2>2, <2>3, SMT DEF w, Durations
  <2>8. p.ping = Never => w - t.message <= SEND_PING_TIMEOUT + REQUEST_POLL_INTERVAL
    BY <1>1, <1>2, <2>3, SMT DEF w, Durations, Never
  <2>9. p.ping # Never => w - p.ping <= PING_TIMEOUT + REQUEST_POLL_INTERVAL
    BY <1>1, <1>2, <2>2, <2>3, SMT DEF w, Durations, Never
  <2>10. ASSUME p.ping # Never, "Ping" \notin Requests
         PROVE  p.ping - t.message <= SEND_PING_TIMEOUT + REQUEST_POLL_INTERVAL
    <3>1. CASE p.ping = t.ping
      <4>1. t.ping = last.ping
        BY <2>5, <2>10, <3>1 DEF Awaits
      <4>2. last.ping - last.message <= SEND_PING_TIMEOUT + REQUEST_POLL_INTERVAL
        BY <2>4, <2>10, <3>1, <4>1 DEF OnTime
      <4>3. t.message = last.message \/ t.message = now
        BY <2>5 DEF Awaits
      <4> QED BY <1>1, <2>3, <2>4, <3>1, <4>1, <4>2, <4>3, SMT DEF Durations
    <3>2. CASE p.ping # t.ping
      <4>1. p.ping = now /\ now - t.message > SEND_PING_TIMEOUT /\ t.ping = Never
        BY <1>2, <3>2
      <4>2. t.message # now
        BY <1>1, <4>1, SMT DEF Durations
      <4>3. t.message = last.message /\ last.ping = Never
        BY <2>5, <2>10, <4>1, <4>2 DEF Awaits
      <4>4. last.wake - last.message <= SEND_PING_TIMEOUT + REQUEST_POLL_INTERVAL
        BY <2>4, <4>3 DEF OnTime
      <4> QED BY <1>1, <2>3, <2>4, <4>1, <4>3, <4>4, SMT DEF Durations
    <3> QED BY <3>1, <3>2
  <2>11. OnTime(last', state')
    BY <1>2, <1>4, <2>1, <2>7, <2>8, <2>9, <2>10 DEF OnTime, t
  <2> QED BY <1>1, <1>2, <1>4, <2>1, <2>6, <2>11 DEF TInv, t
<1> QED BY <1>5, <1>6

(* No time has passed.                                                     *)
LEMMA InitTInv == ASSUME Durations, Init PROVE TInv
<1>1. state \in Attempt /\ last.ping = Never /\ now = 0
  BY DEF Init, Attempt
<1> QED BY <1>1, InitPInv, SMT DEF TInv, Attempt, Alive, Handshake

(* The attempt, and the task as it starts.                                 *)
LEMMA AttemptTInv ==
  ASSUME TInv, PInv', Durations, Socks5Connect \/ try_connection \/ AttemptTimesOut
  PROVE  TInv'
<1>1. state \in Attempt /\ now' = now
  BY DEF Socks5Connect, try_connection, AttemptTimesOut, Settle, Spawn, Dialling, Attempt
<1>2. CASE UNCHANGED last /\ state' \in Attempt \cup {"Ended"}
  BY <1>1, <1>2 DEF TInv, Attempt, Alive, Handshake
<1>3. CASE Spawn
  <2> DEFINE w == now + REQUEST_POLL_INTERVAL
  <2>1. last \in Times /\ last.ping = Never /\ now \in Nat
    BY <1>1 DEF TInv, PInv
  <2>2. /\ last'.message = now /\ last'.version = now /\ last'.wake = w
        /\ last'.ping = Never /\ state' = "SentVersion"
    BY <1>3, <2>1 DEF Spawn, Times
  <2>3. /\ now <= w /\ now <= now /\ w - now <= HANDSHAKE_TIMEOUT + REQUEST_POLL_INTERVAL
        /\ w - now <= SEND_PING_TIMEOUT + REQUEST_POLL_INTERVAL
    BY <2>1, SMT DEF Durations
  <2> HIDE DEF w
  <2>4. OnTime(last', state')
    BY <2>2, <2>3 DEF OnTime
  <2> QED BY <1>1, <2>1, <2>2, <2>3, <2>4 DEF TInv, Attempt
<1> QED BY <1>2, <1>3 DEF Socks5Connect, try_connection, AttemptTimesOut, Settle, Attempt

(* The task's own loop.                                                    *)
LEMMA LoopTInv ==
  ASSUME TInv, PInv', Durations, Receive \/ Serve \/ Poll \/ ChannelClosed
  PROVE  TInv'
<1>1. now \in Int /\ last \in Times
  BY DEF TInv, PInv
<1>2. CASE Receive
  <2> DEFINE k == Head(inbox)
             m == [last EXCEPT !.message = IF k = "error" THEN @ ELSE now].message
             o == handle_peer_message(k)
             total == IF k = "error" THEN msgs ELSE msgs + 1
             h == [o EXCEPT !.t.message = m]
  <2>1. Alive /\ Round(h, total) /\ now' = now
    BY <1>2 DEF Receive
  <2>2. m \in Int /\ m = IF k = "error" THEN last.message ELSE now
    BY <1>1 DEF Times
  <2> HIDE DEF m, total
  <2>3. Acceptable(o) /\ Kept(o.t) /\ (o.t.ping = last.ping \/ (o.t.ping = Never /\ k # "error"))
    BY <1>1, <2>1, MessageAcceptable, MessageKept
  <2> HIDE DEF o
  <2>4. Acceptable(h)
    BY <2>2, <2>3, HeardAcceptable
  <2>5. h.t = [o.t EXCEPT !.message = m] /\ o.t \in Times
    BY <2>3 DEF Acceptable, Fields
  <2>6. h.t.message = m /\ h.t.ping = o.t.ping /\ h.t.version = o.t.version
    BY <2>2, <2>5 DEF Times
  <2>7. Awaits(h.t)
    BY <2>2, <2>3, <2>6 DEF Awaits, Kept
  <2> HIDE DEF h
  <2> QED BY <2>1, <2>4, <2>7, RoundOnTime
<1>3. CASE Serve
  <2>1. CASE state = "Connected"
    <3>1. reqs \in Seq(Requests \cup {"Shutdown"}) /\ reqs # <<>>
      BY <1>3 DEF Serve, TInv, PInv
    <3>2. Head(reqs) \in Requests \cup {"Shutdown"}
      BY <3>1, SMT
    <3> QED BY <1>1, <1>3, <2>1, <3>2, RequestAcceptable, RequestAwaits, RoundOnTime DEF Serve
  <2>2. CASE state # "Connected"
    BY <1>3, <2>2 DEF Serve, TInv, Attempt, Alive, Handshake
  <2> QED BY <2>1, <2>2
<1>4. Awaits(Outcome.t) /\ Awaits(Error.t)
  BY PlainKept DEF Awaits
<1>5. CASE Poll
  BY <1>1, <1>4, <1>5, PlainOutcomes, RoundOnTime DEF Poll
<1>6. CASE ChannelClosed
  BY <1>1, <1>4, <1>6, PlainOutcomes, RoundOnTime DEF ChannelClosed
<1> QED BY <1>2, <1>3, <1>5, <1>6

(* The peer and the node leave the Instants alone; the clock stops at wake.*)
LEMMA OthersTInv ==
  ASSUME TInv, PInv',
         \/ \E k \in Kinds : PeerSends(k)
         \/ Break \/ NodeHandles \/ \E r \in Requests : NodeAsks(r)
         \/ disconnect_random_peers \/ ConnectExpires \/ Pass \/ Done \/ Late \/ UNCHANGED vars
  PROVE  TInv'
<1>1. CASE UNCHANGED <<state, now, last>>
  BY <1>1 DEF TInv, Alive
<1>2. CASE Pass
  <2>1. now' = now + 1 /\ UNCHANGED <<state, last>> /\ (Alive => now < last.wake)
    BY <1>2 DEF Pass
  <2>2. now \in Nat /\ last.wake \in Int /\ last.message \in Int
    BY DEF TInv, PInv, Times
  <2>3. now' \in Nat /\ (Alive => now' <= last.wake /\ last.message <= now')
    BY <2>1, <2>2, SMT DEF TInv
  <2> QED BY <2>1, <2>3 DEF TInv, Alive
<1>3. \/ UNCHANGED <<state, now, last>> \/ Pass
  BY DEF PeerSends, Break, NodeHandles, NodeAsks, disconnect_random_peers, Ask, ConnectExpires,
         Done, Late, vars
<1> QED BY <1>1, <1>2, <1>3

(* The deadlines hold through every step of the task, its peer and the     *)
(* node.                                                                   *)
THEOREM TimeInvariance == ASSUME Durations PROVE Spec => []TInv
<1>1. Init => TInv
  BY InitTInv
<1>2. TInv /\ [Next]_vars => TInv'
  <2> SUFFICES ASSUME TInv, [Next]_vars PROVE TInv'
    OBVIOUS
  <2>1. PInv'
    BY NextPInv DEF TInv
  <2> QED BY <2>1, AttemptTInv, LoopTInv, OthersTInv DEF Next
<1> QED BY <1>1, <1>2, PTL DEF Spec

(* A peer that does not introduce itself, that falls silent or that leaves *)
(* a ping unanswered is let go in time, whatever else it or the node does  *)
(* (peer_loop_inner).                                                      *)
THEOREM SilenceEnds == ASSUME Durations PROVE Spec => []SilentPeerLeaves
<1>1. TInv => SilentPeerLeaves
  <2> SUFFICES ASSUME TInv, Alive
               PROVE  /\ state = "SentVersion" =>
                           now - last.version <= HANDSHAKE_TIMEOUT + REQUEST_POLL_INTERVAL
                      /\ last.ping = Never =>
                           now - last.message <= SEND_PING_TIMEOUT + REQUEST_POLL_INTERVAL
                      /\ last.ping # Never =>
                           now - last.ping <= PING_TIMEOUT + REQUEST_POLL_INTERVAL
    BY DEF SilentPeerLeaves
  <2>1. /\ now \in Nat /\ last.wake \in Int /\ last.message \in Int /\ last.ping \in Int
        /\ last.version \in Int
    BY DEF TInv, PInv, Times
  <2>2. now <= last.wake /\ OnTime(last, state)
    BY DEF TInv
  <2> QED BY <2>1, <2>2, SMT DEF OnTime, Durations
<1>2. Spec => []TInv
  BY TimeInvariance
<1> QED BY <1>1, <1>2, PTL

(* If the user sends no pings, nothing keeps a silent peer longer than the *)
(* two waits and the two polls that notice them.                           *)
THEOREM SilenceIsBounded ==
  ASSUME Durations, "Ping" \notin Requests PROVE Spec => []SilenceBounded
<1>1. TInv => SilenceBounded
  <2> SUFFICES ASSUME TInv, Alive
               PROVE  now - last.message
                        <= SEND_PING_TIMEOUT + PING_TIMEOUT + 2 * REQUEST_POLL_INTERVAL
    BY DEF SilenceBounded
  <2>1. now \in Nat /\ last.wake \in Int /\ last.message \in Int /\ last.ping \in Int
    BY DEF TInv, PInv, Times
  <2>2. now <= last.wake /\ OnTime(last, state)
    BY DEF TInv
  <2> QED BY <2>1, <2>2, SMT DEF OnTime, Durations
<1>2. Spec => []TInv
  BY TimeInvariance
<1> QED BY <1>1, <1>2, PTL
=============================================================================
