----------------------------- MODULE MCContexts -----------------------------
(* The task of a peer (PeerTask) and the contexts of the node that follow  *)
(* headers, RunningNode and ChainSelector, each in several instances; the  *)
(* initial state chooses the one that runs. The task otherwise stays as it *)
(* starts.                                                                 *)
EXTENDS PeerTask, TLC

CONSTANTS
  b1, b2, c1, c2, x, y, NoPeer,
  Instances    \* the instances to check

VARIABLES
  active, n, faults,
  mined, jobs,     \* RunningNode
  phase, queries   \* ChainSelector

node == <<n, faults>>
running == <<mined, jobs>>
selector == <<phase, queries>>
mcVars == <<active, vars, node, running, selector>>

(* The task of the configuration is that of a node at the end of its sync, *)
(* which lets peers go in whatever state they are. This one is behind a    *)
(* proxy; timeouts are scaled down to a few seconds in both.               *)
Proxied == INSTANCE PeerTask WITH
  Kinds <- {"version", "verack", "inv", "addrv2", "pong"},
  Requests <- {"Shutdown", "GetAddresses"}, allow_v1_fallback <- TRUE,
  UseProxy <- TRUE, RandomDisconnect <- FALSE,
  MaxTime <- 6, MaxMessages <- 4, MaxRequests <- 1

PeerIds == {1, 2}
Addr == {x, y}
Offers == [a \in Addr |-> {"NETWORK", "UTREEXO"}]
FixedPeers == {}
Best == <<>>
CoinbaseOnly == {b1}
NEW_CONNECTIONS_BATCH_SIZE == 1
BLOCKS_PER_GETDATA == 1
MAX_CONCURRENT_GETDATA == 2
MAX_INFLIGHT_REQUESTS == 6
MIN_SAMPLES == 5
MAX_REORG_DEPTH == 2
MAX_LAST_INVS == 1

Line1 == b1 :> <<b1>>
Line2 == (b1 :> <<b1>>) @@ (b2 :> <<b1, b2>>)
Fork  == (b1 :> <<b1>>) @@ (c1 :> <<c1>>) @@ (c2 :> <<c1, c2>>)
Same  == [a \in Addr |-> b2]
Short == [a \in Addr |-> b1]
Split == [a \in Addr |-> IF a = x THEN b1 ELSE c2]
AskBlock == {<<"Block", b1>>}

-----------------------------------------------------------------------------
(* Two branches of which the longer one is invalid; the tip may be stale.  *)
Reorg == INSTANCE RunningNode WITH
  Path <- Fork, Invalid <- {c2}, MAX_OUTGOING_PEERS <- 2, max_banscore <- 1,
  Jobs <- {"stale"}, JobBound <- 1, FaultBound <- 0

(* One block, every job of the maintenance tick, a peer that fails.        *)
Chores == INSTANCE RunningNode WITH
  Path <- Line1, Invalid <- {b1}, MAX_OUTGOING_PEERS <- 1, max_banscore <- 1,
  Jobs <- {"stale", "feeler", "rearrange", "addresses"}, JobBound <- 1, FaultBound <- 1

(* Two blocks that must be reached.                                        *)
Follow == INSTANCE RunningNode WITH
  Path <- Line2, Invalid <- {}, MAX_OUTGOING_PEERS <- 2, max_banscore <- 1,
  Jobs <- {}, JobBound <- 0, FaultBound <- 0

(* All peers on one chain, one of which may fail, lie or be late.          *)
Agree == INSTANCE ChainSelector WITH
  asked <- queries,
  Path <- Line2, TipOf <- Same, Invalid <- {}, MAX_OUTGOING_PEERS <- 2, max_banscore <- 1,
  AssumeHeight <- 0, MaxHeaders <- 1, MaxQueue <- 1, Jobs <- {"feeler"},
  UserRequests <- {}, UserBound <- 0, FaultBound <- 1

(* Peers on different chains, an assumed height, and a user.               *)
Disagree == INSTANCE ChainSelector WITH
  asked <- queries,
  Path <- Fork, TipOf <- Split, Invalid <- {}, MAX_OUTGOING_PEERS <- 2, max_banscore <- 2,
  AssumeHeight <- 1, MaxHeaders <- 1, MaxQueue <- 1, Jobs <- {},
  UserRequests <- AskBlock, UserBound <- 1, FaultBound <- 1

(* One connection at a time: selection must end although it fails.         *)
Select == INSTANCE ChainSelector WITH
  asked <- queries,
  Path <- Line1, TipOf <- Short, Invalid <- {}, MAX_OUTGOING_PEERS <- 1, max_banscore <- 1,
  AssumeHeight <- 0, MaxHeaders <- 1, MaxQueue <- 1, Jobs <- {},
  UserRequests <- {}, UserBound <- 0, FaultBound <- 1

Tasks == {"leaving", "proxied"}
Running == {"reorg", "chores", "follow"}
Selecting == {"agree", "disagree", "select"}
NodeOff == n = 0 /\ faults = 0
RunningOff == mined = {} /\ jobs = 0
SelectorOff == phase = "none" /\ queries = 0

MCInit ==
  /\ active \in Instances
  /\ active \in Tasks => NodeOff
  /\ active \notin Running => RunningOff
  /\ active \notin Selecting => SelectorOff
  /\ \/ active = "proxied" /\ Proxied!Init
     \/ active # "proxied" /\ Init
  /\ \/ active \in Tasks
     \/ active = "reorg" /\ Reorg!Init
     \/ active = "chores" /\ Chores!Init
     \/ active = "follow" /\ Follow!Init
     \/ active = "agree" /\ Agree!Init
     \/ active = "disagree" /\ Disagree!Init
     \/ active = "select" /\ Select!Init

MCNext ==
  /\ UNCHANGED active
  /\ \/ active = "leaving" /\ Next /\ UNCHANGED <<node, running, selector>>
     \/ active = "proxied" /\ Proxied!Next /\ UNCHANGED <<node, running, selector>>
     \/ active = "reorg" /\ Reorg!Next /\ UNCHANGED <<vars, selector>>
     \/ active = "chores" /\ Chores!Next /\ UNCHANGED <<vars, selector>>
     \/ active = "follow" /\ Follow!Next /\ UNCHANGED <<vars, selector>>
     \/ active = "agree" /\ Agree!Next /\ UNCHANGED <<vars, running>>
     \/ active = "disagree" /\ Disagree!Next /\ UNCHANGED <<vars, running>>
     \/ active = "select" /\ Select!Next /\ UNCHANGED <<vars, running>>

(* The fairness of RunningNode and of ChainSelector, where it is used.     *)
CanProgress == \/ active = "follow" /\ Follow!CanProgress
               \/ active = "select" /\ Select!CanProgress
Progress == \/ active = "follow" /\ Follow!Progress
            \/ active = "select" /\ Select!Progress
Fairness ==
  /\ []<>~CanProgress \/ []<><<Progress>>_<<node, running, selector>>
  /\ WF_<<node, running>>(active = "follow" /\ \E p \in PeerIds : Follow!Announce(p))

MCSpec == MCInit /\ [][MCNext]_mcVars /\ Fairness

-----------------------------------------------------------------------------
(* RunningNode: the best chain follows the longest header chain, in        *)
(* whatever order branches are announced (accept_header); no invalid block *)
(* is validated through any reorg or late answer (process_block); and the  *)
(* lists of peers only name peers past their handshake, although peers are *)
(* promoted, evicted and hang up (handle_disconnection).                   *)
BestIsLongest ==
  [][/\ active = "reorg" => /\ Reorg!LongestOfKnown /\ Reorg!OnlyValidConnected'
                            /\ Reorg!IdsArePeers'
     /\ active = "chores" => /\ Chores!LongestOfKnown /\ Chores!OnlyValidConnected'
                             /\ Chores!IdsArePeers']_mcVars

(* ChainSelector: when selection ends, no connected peer that told the     *)
(* truth has a longer chain (empty_headers_message), and nobody was banned *)
(* who did not send bad data (disconnect_and_ban).                         *)
AgreedChainIsBest ==
  [][/\ active \in Selecting /\ n.sel # "Done" /\ n'.sel = "Done" =>
          \A p \in n'.ids : ~n'.peers[p].lied =>
             LET a == n'.peers[p].addr
             IN  Len(n'.best) >= CASE active = "agree" -> 2
                                    [] active = "disagree" -> Len(Fork[Split[a]])
                                    [] active = "select" -> 1
     /\ active \in Selecting => \A p \in DOMAIN n.peers \cap DOMAIN n'.peers :
          n.peers[p].state # "Banned" /\ n'.peers[p].state = "Banned" => n'.peers[p].lied]_mcVars

(* RunningNode!TipIsReached: every mined block of the best chain is        *)
(* validated in the end (handle_new_block, ask_missed_block).              *)
(* ChainSelector!SelectionEnds: selection ends although peers fail, lie or *)
(* fall silent a bounded number of times (maintenance_tick).               *)
ContextsProgress ==
  /\ active = "follow" => <>[]Follow!Synced
  /\ active = "select" => <>(phase # "select")
==============================================================================
