------------------------------- MODULE Daemon -------------------------------
(* florestad: its start, the node task through its phases, the backfill task  *)
(* on a PartialChainState, the JSON-RPC server's table of running requests,   *)
(* and the ways the process ends. Each start of the process is one life; what *)
(* is on disk survives it.                                                    *)
EXTENDS Integers, Sequences

CONSTANTS
    Kind,           \* Kind[h]: "valid", or the error in the assumed block at height h,
                    \* of the "block" or of a "tx" of it
    Backfill,       \* config.backfill
    RpcRequests, Id,   \* JSON-RPC requests and their ids
    FaultBound, MaxLives

VARIABLES
    main,           \* "start", "loop", "wait", "drop", "exited"
    step,           \* the next step of Florestad::start
    sigint,         \* main's flag, set by ctrl-c
    stop_signal,    \* Florestad::stop_signal, the node's kill_signal
    node,           \* the node task: "none", "select", "catch_up", "running", "join",
                    \* "done", "failed", "dropped"
    notify,         \* the oneshot behind stop_notify: "none", "open", "sent", "closed"
    dirty,          \* the node has connected blocks since the last flush
    bf,             \* the backfill task [st, at, error, first]
    done,           \* its channel to the node: "none", "open", "sent", "closed"
    state_file,     \* .sync_node_state: a height, -1 (absent) or -2 (empty)
    marked,         \* the backfilled blocks are marked in the chain
    rpc,            \* the JSON-RPC server: "none", "spawned", "up"
    calls,          \* calls[r]: "new", "running", "answered", "failed"
    inflight,       \* the ids in the server's table
    exit,           \* how the process ended: "none", "ok", "error", "crash"
    timed_out,      \* main gave up waiting for the node
    lives, faults

task == <<bf, done, state_file, marked>>
server == <<rpc, calls, inflight>>
ending == <<exit, timed_out, lives, faults>>
daemonVars == <<main, step, sigint, stop_signal, node, notify, dirty, task, server, ending>>

End == Len(Kind)
Absent == -1
Finished == -2
NoTask == [st |-> "none", at |-> 0, error |-> FALSE, first |-> 0]

Start ==
    <<"datadir", "wallet", "chain", "cfilters", "proxy", "node", "rpc", "electrum",
      "bind", "tls", "run">>

DaemonInit ==
    /\ main = "start" /\ step = 1 /\ sigint = FALSE /\ stop_signal = FALSE
    /\ node = "none" /\ notify = "none" /\ dirty = FALSE
    /\ bf = NoTask /\ done = "none" /\ state_file = Absent /\ marked = FALSE
    /\ rpc = "none" /\ calls = [r \in RpcRequests |-> "new"] /\ inflight = {}
    /\ exit = "none" /\ timed_out = FALSE /\ lives = 1 /\ faults = 0

ProcessAlive == main # "exited"
Fault == faults < FaultBound /\ faults' = faults + 1

\* process::exit and a crash end every task where it is
Exit(how) ==
    /\ main' = "exited" /\ exit' = how
    /\ UNCHANGED <<step, sigint, stop_signal, node, notify, dirty, task, server, timed_out, lives>>

----------------------------------------------------------------------------
(* start, and main.                                                          *)

start ==
    /\ main = "start"
    /\ step' = step + 1
    /\ rpc' = IF Start[step] = "rpc" THEN "spawned" ELSE rpc
    /\ IF Start[step] = "run"
       THEN main' = "loop" /\ node' = "select" /\ notify' = "open"
       ELSE UNCHANGED <<main, node, notify>>
    /\ UNCHANGED <<sigint, stop_signal, dirty, task, calls, inflight, ending>>

start_fails == main = "start" /\ Start[step] # "run" /\ Fault /\ Exit("error")

\* RpcImpl::create runs as a task of its own
create ==
    /\ ProcessAlive /\ rpc = "spawned" /\ rpc' = "up"
    /\ UNCHANGED <<main, step, sigint, stop_signal, node, notify, dirty, task, calls, inflight, ending>>

create_fails == ProcessAlive /\ rpc = "spawned" /\ Fault /\ Exit("error")

ctrl_c ==
    /\ ProcessAlive /\ ~sigint /\ sigint' = TRUE
    /\ UNCHANGED <<main, step, stop_signal, node, notify, dirty, task, server, ending>>

\* mutant of stop: main only looks at the node's signal
StopWithoutCtrlC ==
    /\ main = "loop" /\ stop_signal
    /\ main' = "wait"
    /\ UNCHANGED <<step, sigint, stop_signal, node, notify, dirty, task, server, ending>>

\* stop, then wait_shutdown for at most ten seconds
stop ==
    /\ main = "loop" /\ (stop_signal \/ sigint)
    /\ stop_signal' = TRUE /\ main' = "wait"
    /\ UNCHANGED <<step, sigint, node, notify, dirty, task, server, ending>>

wait_shutdown ==
    /\ main = "wait" /\ notify \in {"sent", "closed"}
    /\ main' = "drop"
    /\ UNCHANGED <<step, sigint, stop_signal, node, notify, dirty, task, server, ending>>

wait_timeout ==
    /\ main = "wait" /\ notify = "open"
    /\ main' = "drop" /\ timed_out' = TRUE
    /\ UNCHANGED <<step, sigint, stop_signal, node, notify, dirty, task, server, exit, lives, faults>>

\* dropping the runtime cancels a task at its next await; code that does not
\* await runs to its end first
CancelNode ==
    /\ main = "drop" /\ node \in {"select", "catch_up", "running"}
    /\ node' = "dropped" /\ done' = IF done = "none" THEN done ELSE "closed"
    /\ UNCHANGED <<main, step, sigint, stop_signal, notify, dirty, bf, state_file, marked, server, ending>>

CancelBackfill ==
    /\ main = "drop" /\ bf.st = "run"
    /\ bf' = [bf EXCEPT !.st = "dropped"]
    /\ UNCHANGED <<main, step, sigint, stop_signal, node, notify, dirty, done, state_file, marked, server, ending>>

Dropped ==
    /\ main = "drop"
    /\ node \in {"done", "failed", "dropped"}
    /\ bf.st \notin {"run", "saving", "marking"}
    /\ main' = "exited" /\ exit' = "ok"
    /\ UNCHANGED <<step, sigint, stop_signal, node, notify, dirty, task, server, timed_out, lives, faults>>

Crash == ProcessAlive /\ main # "start" /\ Fault /\ Exit("crash")

Restart ==
    /\ main = "exited" /\ lives < MaxLives
    /\ lives' = lives + 1
    /\ main' = "start" /\ step' = 1 /\ sigint' = FALSE /\ stop_signal' = FALSE
    /\ node' = "none" /\ notify' = "none" /\ dirty' = FALSE
    /\ bf' = NoTask /\ done' = "none" /\ UNCHANGED <<state_file, marked>>
    /\ rpc' = "none" /\ calls' = [r \in RpcRequests |-> "new"] /\ inflight' = {}
    /\ exit' = "none" /\ timed_out' = FALSE /\ UNCHANGED faults

----------------------------------------------------------------------------
(* The node task: RunningNode::run.                                          *)

NodeUnchanged == UNCHANGED <<main, step, sigint, marked, state_file, server, ending>>

\* mutant of shutdown: the chain is not flushed
ShutdownWithoutFlush ==
    /\ node' = "done" /\ UNCHANGED dirty
    /\ notify' = IF notify = "open" THEN "sent" ELSE notify

shutdown ==
    /\ dirty' = FALSE /\ node' = "done"
    /\ notify' = IF notify = "open" THEN "sent" ELSE notify

\* mutant of backfill: always from the beginning
BackfillAgain ==
    IF ~Backfill \/ state_file = Finished THEN UNCHANGED <<bf, done>>
    ELSE /\ bf' = [st |-> "run", at |-> 0, error |-> FALSE, first |-> 0]
         /\ done' = "open"

\* the file says where an interrupted backfill was, that it is over, or nothing
backfill ==
    IF ~Backfill \/ state_file = Finished THEN UNCHANGED <<bf, done>>
    ELSE LET at == IF state_file = Absent THEN 0 ELSE state_file
         IN  /\ bf' = [st |-> "run", at |-> at, error |-> FALSE, first |-> at]
             /\ done' = "open"

chain_selected ==
    /\ ProcessAlive /\ node = "select"
    /\ IF stop_signal THEN shutdown /\ UNCHANGED <<bf, done>>
       ELSE node' = "catch_up" /\ backfill /\ UNCHANGED <<dirty, notify>>
    /\ NodeUnchanged /\ UNCHANGED stop_signal

\* run returns here without waiting for the backfill, and its end of the channel
\* goes with it
caught_up ==
    /\ ProcessAlive /\ node = "catch_up"
    /\ IF stop_signal THEN shutdown /\ done' = IF done = "none" THEN done ELSE "closed"
       ELSE node' = "running" /\ UNCHANGED <<dirty, notify, done>>
    /\ NodeUnchanged /\ UNCHANGED <<stop_signal, bf>>

catch_up_fails ==
    /\ ProcessAlive /\ node = "catch_up" /\ Fault
    /\ stop_signal' = TRUE /\ node' = "failed" /\ notify' = "closed"
    /\ done' = IF done = "none" THEN done ELSE "closed"
    /\ UNCHANGED <<main, step, sigint, dirty, bf, state_file, marked, server, exit, timed_out, lives>>

connect_block ==
    /\ ProcessAlive /\ node \in {"catch_up", "running"} /\ ~dirty /\ dirty' = TRUE
    /\ NodeUnchanged /\ UNCHANGED <<stop_signal, node, notify, bf, done>>

\* the loop ends at a maintenance tick
maintenance_tick ==
    /\ ProcessAlive /\ node = "running" /\ stop_signal
    /\ IF done = "none" THEN shutdown ELSE node' = "join" /\ UNCHANGED <<dirty, notify>>
    /\ NodeUnchanged /\ UNCHANGED <<stop_signal, bf, done>>

\* a blocking receive: a message, or the task is gone
join ==
    /\ ProcessAlive /\ node = "join"
    /\ done = "sent" \/ bf.st \in {"done", "panicked", "dropped"}
    /\ shutdown /\ done' = "closed"
    /\ NodeUnchanged /\ UNCHANGED <<stop_signal, bf>>

----------------------------------------------------------------------------
(* The backfill task: a SyncNode on a PartialChainState.                     *)

TaskUnchanged == UNCHANGED <<main, step, sigint, stop_signal, node, notify, server, exit, timed_out, lives>>

\* PartialChainStateInner::process_block looks for BlockValidation errors only, and
\* an error of the block makes the node call invalidate_block, which panics
process_block ==
    LET h == bf.at + 1
    IN  /\ ProcessAlive /\ bf.st = "run" /\ bf.at < End
        /\ bf' = IF Kind[h] = "block" THEN [bf EXCEPT !.error = TRUE, !.st = "panicked"]
                 ELSE [bf EXCEPT !.at = h]
        /\ TaskUnchanged /\ UNCHANGED <<dirty, done, state_file, marked, faults>>

\* a proof that does not verify, whoever sent it
bad_proof ==
    /\ ProcessAlive /\ bf.st = "run" /\ bf.at < End /\ Fault
    /\ bf' = [bf EXCEPT !.error = TRUE]
    /\ TaskUnchanged /\ UNCHANGED <<dirty, done, state_file, marked>>

\* the callback of SyncNode::run: a chain with an error, and a channel nobody
\* reads, are panics
done_cb ==
    /\ ProcessAlive /\ bf.st = "run" /\ (bf.at = End \/ stop_signal)
    /\ IF bf.error \/ done = "closed"
       THEN bf' = [bf EXCEPT !.st = "panicked"] /\ UNCHANGED done
       ELSE bf' = [bf EXCEPT !.st = "saving"] /\ done' = "sent"
    /\ TaskUnchanged /\ UNCHANGED <<dirty, state_file, marked, faults>>

\* mutant of write_state: the end of the backfill marks nothing
WriteStateOnly ==
    /\ ProcessAlive /\ bf.st = "saving"
    /\ state_file' = IF bf.at < End THEN bf.at ELSE Finished
    /\ bf' = [bf EXCEPT !.st = "done"]
    /\ TaskUnchanged /\ UNCHANGED <<dirty, done, marked, faults>>

write_state ==
    /\ ProcessAlive /\ bf.st = "saving"
    /\ IF bf.at < End THEN state_file' = bf.at /\ bf' = [bf EXCEPT !.st = "done"]
       ELSE state_file' = Finished /\ bf' = [bf EXCEPT !.st = "marking"]
    /\ TaskUnchanged /\ UNCHANGED <<dirty, done, marked, faults>>

mark_block_as_valid ==
    /\ ProcessAlive /\ bf.st = "marking"
    /\ marked' = TRUE /\ bf' = [bf EXCEPT !.st = "done"]
    /\ TaskUnchanged /\ UNCHANGED <<dirty, done, state_file, faults>>

----------------------------------------------------------------------------
(* JSON-RPC requests. A request waits for the node, or fails when the node    *)
(* drops its responder.                                                       *)

ServerUnchanged == UNCHANGED <<main, step, sigint, node, notify, dirty, task, ending, rpc>>

json_rpc_request(r) ==
    /\ ProcessAlive /\ rpc = "up" /\ calls[r] = "new"
    /\ calls' = [calls EXCEPT ![r] = "running"] /\ inflight' = inflight \cup {Id[r]}
    /\ ServerUnchanged /\ UNCHANGED stop_signal

\* the method is unknown, its arguments are wrong, the node answers, or it does not
Respond(r, how) ==
    /\ ProcessAlive /\ calls[r] = "running"
    /\ calls' = [calls EXCEPT ![r] = how] /\ inflight' = inflight \ {Id[r]}
    /\ ServerUnchanged

answer(r) == node \in {"select", "catch_up", "running"} /\ Respond(r, "answered") /\ UNCHANGED stop_signal
refuse(r) == Respond(r, "failed") /\ UNCHANGED stop_signal
rpc_stop(r) == Respond(r, "answered") /\ stop_signal' = TRUE

----------------------------------------------------------------------------

Main == start \/ create \/ stop \/ wait_shutdown \/ wait_timeout \/ CancelNode \/ CancelBackfill \/ Dropped
Node == chain_selected \/ caught_up \/ maintenance_tick \/ join
BackfillTask == process_block \/ done_cb \/ write_state \/ mark_block_as_valid

DaemonNext ==
    \/ Main \/ Node \/ BackfillTask
    \/ start_fails \/ create_fails \/ ctrl_c \/ Crash \/ Restart
    \/ catch_up_fails \/ connect_block \/ bad_proof
    \/ \E r \in RpcRequests : json_rpc_request(r) \/ answer(r) \/ refuse(r) \/ rpc_stop(r)

DaemonSpec == DaemonInit /\ [][DaemonNext]_daemonVars

\* main's timers fire, and the runtime runs every task that can run
FairDaemonSpec == DaemonSpec /\ WF_daemonVars(Main) /\ WF_daemonVars(Node) /\ WF_daemonVars(BackfillTask)

----------------------------------------------------------------------------
(* Properties.                                                               *)

(* The tasks and their channels are in one of the states the code gives them, *)
(* and the state file names a height of the assumed chain, if any.         *)
DaemonTypeOK ==
    /\ main \in {"start", "loop", "wait", "drop", "exited"}
    /\ step \in 1..Len(Start) + 1
    /\ bf.at \in 0..End /\ state_file \in {Absent, Finished} \cup 0..End
    /\ notify \in {"none", "open", "sent", "closed"} /\ done \in {"none", "open", "sent", "closed"}
    /\ lives \in 1..MaxLives /\ faults \in 0..FaultBound

(* An orderly end keeps the blocks: when the process ends by itself without   *)
(* having run out of patience, and the node did not fail, the blocks it       *)
(* connected have been flushed ("it's safe to die now")                       *)
NothingLost == exit = "ok" /\ ~timed_out /\ node # "failed" => ~dirty

(* The backfill is over for good (the empty file) only once every assumed     *)
(* block went through it and is marked, unless the process crashed in between *)
FinishedIsMarked ==
    state_file = Finished /\ bf.st # "marking" /\ faults = 0 => marked

(* Progress of the backfill is never given back: what is saved only grows,    *)
(* and what is finished stays so                                              *)
Grows == state_file # Finished /\ (state_file' = Finished \/ state_file' > state_file)
SavedGrows == [][state_file' # state_file => Grows]_daemonVars

(* Whatever the node and the backfill do, and even if they hang, a stop       *)
(* request ends the process                                                   *)
StopEnds == stop_signal \/ sigint ~> main = "exited"

(* A stop during the sync saves what the backfill has done: "we haven't       *)
(* finished the backfill yet, save the current state for the next run"        *)
ProgressSaved ==
    exit = "ok" /\ ~timed_out /\ node # "failed" /\ ~bf.error /\ bf.at > bf.first =>
        state_file \in {bf.at, Finished}

(* "If we find an error that proves the assumed chain invalid, we save it"    *)
InvalidIsSaved == \A h \in 1..bf.at : Kind[h] # "valid" => bf.error

(* "If we ever assume an invalid chain, the node will halt and catch fire"    *)
HaltsOnInvalid == [](bf.st = "panicked" /\ bf.error => <>(node \notin {"catch_up", "running"}))
=============================================================================
