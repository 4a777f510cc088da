------------------------------- MODULE MCTasks -------------------------------
(* The daemon (Daemon), the mempool (Mempool, BlockTemplate), the compact  *)
(* filters (CompactFilters), and the wallet with the services in front of  *)
(* it.  Each of these has one or more instances; the initial state chooses *)
(* the part that runs, the daemon and the filters otherwise stay as they   *)
(* start and the mempool empty.                                            *)
EXTENDS Daemon, BlockTemplate, CompactFilters

CONSTANTS
  p, q, c, d, e, r, g,       \* transactions of the mempool
  t1, t2, t3, desc, script,  \* transactions, descriptor and script of the wallet
  Instances                  \* the instances to check

VARIABLES
  active, w, tip, ibd, blocks, scan, job, rpcs, clients, subs, told, sent, fresh, requests, failures

\* the wallet has a variable for its crashes in common with the filters
walletOnly == <<w, tip, ibd, blocks, scan, job, rpcs, clients, subs, told, sent, fresh,
                requests, failures>>
filterOnly == <<chain, file, height, index, early, asked, last_filter, stream, up, losses, reorgs>>
walletVars == <<walletOnly, crashes>>
mcVars == <<active, daemonVars, poolVars, filterVars, walletOnly>>

\* what a part that does not run leaves its variables at
poolOff   == transactions = <<>> /\ mempool_size = 0 /\ last = 0
walletOff == /\ w = 0 /\ tip = 0 /\ ibd = 0 /\ blocks = 0 /\ scan = 0 /\ job = 0 /\ rpcs = 0
             /\ clients = 0 /\ subs = 0 /\ told = 0 /\ sent = 0 /\ fresh = 0 /\ requests = 0
             /\ failures = 0

-----------------------------------------------------------------------------
(* Two assumed blocks to backfill, and one request to the JSON-RPC server. *)
MCKind == <<"valid", "valid">>
MCId == <<1>>

(* p and q spend confirmed coins; c and d spend the same output of p, e    *)
(* outputs of q and of c, r repeats an input and g is malformed.           *)
MCInputs == [t \in {p, q, c, d, e, r, g} |->
  CASE t = p -> << <<"coin", 0>> >>
    [] t = q -> << <<"coin", 1>> >>
    [] t = c -> << <<p, 0>> >>
    [] t = d -> << <<p, 0>>, <<q, 1>> >>
    [] t = e -> << <<q, 0>>, <<c, 0>>, <<q, 1>> >>
    [] t = r -> << <<q, 0>>, <<q, 0>> >>
    [] t = g -> << <<"coin", 2>> >>]
MCSize == [t \in DOMAIN MCInputs |-> IF t = d THEN 2 ELSE 1]
MCMined == {<<p>>, <<q, c>>, <<p, d>>, <<c>>}

(* Filters of a chain that only grows, where every filter arrives.  The    *)
(* configuration has a chain that is reorganized, and losses.              *)
Filters == INSTANCE CompactFilters WITH LossBound <- 0, ReorgBound <- 0

(* Block 1 pays the descriptor's first address and script; block 2 spends  *)
(* the first with change to the same address and a payment to the second;  *)
(* block 3 spends script's coin and pays the third address.                *)
S(i) == <<desc, 1, i>>
WalletTxs ==
  t1 :> [ins |-> <<>>, outs |-> <<[script |-> S(0), value |-> 3], [script |-> script, value |-> 1]>>]
  @@ t2 :> [ins |-> << <<t1, 0>> >>,
            outs |-> <<[script |-> S(0), value |-> 1], [script |-> S(1), value |-> 2]>>]
  @@ t3 :> [ins |-> << <<t1, 1>> >>, outs |-> <<[script |-> S(2), value |-> 1]>>]
Chain == << <<t1>>, <<t2>>, <<t3>> >>
Paths == desc :> 1
Scripts == {script}
Wildcard == {desc}
HasFilters == TRUE
DERIVATION_COUNT == 2
GAP_LIMIT == 1

Electrum == INSTANCE WalletServices WITH
  rpc <- rpcs, faults <- failures, Txs <- WalletTxs,
  Clients <- {1}, Broadcast <- {t2}, ConfigDesc <- <<desc>>, Loadable <- {}, Sought <- {},
  Intervals <- {}, RequestBound <- 3, FaultBound <- 1, CrashBound <- 1

Rpc == INSTANCE WalletServices WITH
  rpc <- rpcs, faults <- failures, Txs <- WalletTxs,
  Clients <- {}, Broadcast <- {}, ConfigDesc <- <<>>, Loadable <- {desc}, Sought <- {<<t1, 1>>},
  Intervals <- {<<0, 0>>, <<1, 2>>}, RequestBound <- 2, FaultBound <- 1, CrashBound <- 1

Restarted == INSTANCE WalletServices WITH
  rpc <- rpcs, faults <- failures, Txs <- WalletTxs,
  Clients <- {1}, Broadcast <- {t2}, ConfigDesc <- <<desc>>, Loadable <- {}, Sought <- {},
  Intervals <- {}, RequestBound <- 2, FaultBound <- 1, CrashBound <- 1

-----------------------------------------------------------------------------
MCInit ==
  /\ active \in Instances
  /\ DaemonInit
  /\ FilterInit
  /\ \/ active \in {"daemon", "filters", "lossy"} /\ poolOff /\ walletOff
     \/ active = "pool" /\ PoolInit /\ walletOff
     \/ active = "electrum" /\ Electrum!Init /\ poolOff
     \/ active = "rpc" /\ Rpc!Init /\ poolOff
     \/ active = "restarted" /\ Restarted!Init /\ poolOff

MCNext ==
  /\ UNCHANGED active
  /\ \/ active = "daemon" /\ DaemonNext /\ UNCHANGED <<poolVars, filterVars, walletOnly>>
     \/ active = "pool" /\ PoolNext /\ UNCHANGED <<daemonVars, filterVars, walletOnly>>
     \/ /\ \/ active = "filters" /\ Filters!FilterNext
           \/ active = "lossy" /\ FilterNext
        /\ UNCHANGED <<daemonVars, poolVars, walletOnly>>
     \/ /\ \/ active = "electrum" /\ Electrum!Next
           \/ active = "rpc" /\ Rpc!Next
           \/ active = "restarted" /\ Restarted!Next
        /\ UNCHANGED <<daemonVars, poolVars, filterOnly>>

(* The fairness of CompactFilters, WalletServices and Daemon, where it is  *)
(* used; that of the wallet is weak fairness with ENABLED written out.     *)
Fairness ==
  /\ WF_filterVars(active = "filters" /\ (Download \/ Arrive \/ Expire))
  /\ []<>~(active = "restarted" /\ ibd) \/ []<><<Restarted!LeaveIbd>>_walletVars
  /\ []<>~(active = "restarted" /\ Restarted!CanTimeOut) \/ []<><<Restarted!Timeout>>_walletVars
  /\ []<>~(active = "restarted" /\ Restarted!CanRescan) \/ []<><<Restarted!Rescan>>_walletVars
  /\ WF_daemonVars(active = "daemon" /\ Main)
  /\ WF_daemonVars(active = "daemon" /\ Node)
  /\ WF_daemonVars(active = "daemon" /\ BackfillTask)

MCSpec == MCInit /\ [][MCNext]_mcVars /\ Fairness

-----------------------------------------------------------------------------
(* CompactFilters: a rescan sees every block up to the saved height, which *)
(* is never past the last filter, also after crashes inside put_filter     *)
(* (iter, match_any).                                                      *)
FiltersFound == active = "filters" => QueryComplete /\ HeightIsLastFilter

(* WalletServices: balances are the sums of the outputs listed, every      *)
(* output of the spend index is backed (the expects of block_process), no  *)
(* unspent output of a watched address is missed, paid addresses stay      *)
(* below the horizon by the gap, and subscribers are told.                 *)
WalletSound ==
  /\ active = "electrum" => /\ Electrum!BalanceIsUtxos /\ Electrum!IndexIsBacked
                            /\ Electrum!NoCoinMissing /\ Electrum!GapKept
                            /\ Electrum!SubscriberTold
  /\ active = "rpc" => /\ Rpc!BalanceIsUtxos /\ Rpc!IndexIsBacked
                       /\ Rpc!NoCoinMissing /\ Rpc!GapKept

(* What must happen in the end: every block gets its filter                *)
(* (download_filters), a queued address is scanned (rescan_for_addresses), *)
(* an unconfirmed transaction is back in the mempool after a restart       *)
(* (rebroadcast_mempool_transactions), and a stop request ends the process *)
(* even if the node or the backfill hang (main).                           *)
CaughtUp == active = "filters" /\ height >= Len(chain)
Queued == active = "restarted" /\ script \in ToSet(scan)
Scanned == active = "restarted" /\ script \notin ToSet(scan) \cup ToSet(job.addrs)
Unconfirmed(t) == active = "restarted" /\ t \in Restarted!find_unconfirmed(w)
Pooled(t) == active = "restarted" /\ (t \in sent \/ t \notin Restarted!find_unconfirmed(w))
TasksProgress ==
  /\ active = "filters" => <>[]CaughtUp
  /\ active = "restarted" => (Queued ~> Scanned)
  /\ active = "restarted" => \A t \in {t1, t2, t3} : Unconfirmed(t) ~> Pooled(t)
  /\ active = "daemon" => (stop_signal \/ sigint ~> main = "exited")
==============================================================================
