------------------------------ MODULE MCSyncNode ------------------------------
(* The address book (AddressMan) and the sync context (SyncNode), each in   *)
(* several instances; the initial state chooses the one that runs. The     *)
(* book otherwise stays as it starts.                                      *)
EXTENDS AddressMan, Sequences

CONSTANTS
  b1, b2, x, y, z, i1, i2, NoPeer,
  Instances    \* the instances to check

VARIABLES active, n, phase, faults, asked

sync == <<n, phase, faults, asked>>
mcVars == <<active, vars, sync>>

(* Only the node at x keeps what gossip claims of it.                      *)
Claim == {"WITNESS", "NETWORK_LIMITED", "UTREEXO"}
MCSv == [a \in {x, y, z} |-> IF a = x THEN Claim \cup {"NETWORK"} ELSE {"WITNESS"}]
MCClaimed == [a \in {x, y, z} |-> Claim]

(* The book of the configuration has room for every address; this one is   *)
(* too small.                                                              *)
Crowded == INSTANCE AddressMan WITH
  Addr <- {x, y, z}, Seeds <- {y}, Hardcoded <- {x}, max_size <- 1

PeerIds == {1, 2}
TwoFull == [a \in Addr |-> {"NETWORK", "UTREEXO"}]
OneUtreexo == [a \in Addr |-> IF a = x THEN {"NETWORK", "UTREEXO"} ELSE {"NETWORK"}]
CoinbaseOnly == {b2}
MAX_OUTGOING_PEERS == 2
NEW_CONNECTIONS_BATCH_SIZE == 1
BLOCKS_PER_GETDATA == 1
MAX_CONCURRENT_GETDATA == 2
MAX_INFLIGHT_REQUESTS == 6
max_banscore == 1
AskBlock == {<<"Block", b1>>}
AnyRequest == AskBlock \cup {<<"Tx", b1>>, <<"Ping">>, <<"Onetry", x>>, <<"Add", y>>,
                             <<"Remove", y>>, <<"Disconnect", x>>}

(* Two blocks, of which the second is invalid, and a peer that fails, lies *)
(* or is late.                                                             *)
Sync == INSTANCE SyncNode WITH
  Offers <- TwoFull, FixedPeers <- {}, Best <- <<b1, b2>>, Invalid <- {b2}, MIN_SAMPLES <- 5,
  Jobs <- {}, UserRequests <- {}, UserBound <- 0, FaultBound <- 1, MaxQueue <- 2

(* The same, and the user asks for a block.                                *)
Asked == INSTANCE SyncNode WITH
  Offers <- TwoFull, FixedPeers <- {}, Best <- <<b1, b2>>, Invalid <- {b2}, MIN_SAMPLES <- 5,
  Jobs <- {}, UserRequests <- AskBlock, UserBound <- 1, FaultBound <- 1, MaxQueue <- 2

(* Two requests of the user, of any kind, to peers that work.              *)
Managed == INSTANCE SyncNode WITH
  Offers <- TwoFull, FixedPeers <- {}, Best <- <<b1, b2>>, Invalid <- {b2}, MIN_SAMPLES <- 5,
  Jobs <- {}, UserRequests <- AnyRequest, UserBound <- 2, FaultBound <- 0, MaxQueue <- 2

(* Every job of the tick, and a slow peer without utreexo to get rid of.   *)
Chores == INSTANCE SyncNode WITH
  Offers <- OneUtreexo, FixedPeers <- {}, Best <- <<b1>>, Invalid <- {}, MIN_SAMPLES <- 1,
  Jobs <- {"feeler", "stale"}, UserRequests <- {}, UserBound <- 0, FaultBound <- 0, MaxQueue <- 0

(* The user fixed the peer.                                                *)
Fixed == INSTANCE SyncNode WITH
  Offers <- TwoFull, FixedPeers <- {x}, Best <- <<b1, b2>>, Invalid <- {}, MIN_SAMPLES <- 5,
  Jobs <- {"feeler"}, UserRequests <- {}, UserBound <- 0, FaultBound <- 2, MaxQueue <- 2

Nodes == {"sync", "asked", "managed", "chores", "fixed"}
syncOff == n = 0 /\ phase = "none" /\ faults = 0 /\ asked = 0

MCInit ==
  /\ active \in Instances
  /\ \/ active = "book" /\ Init /\ syncOff
     \/ active = "crowded" /\ Crowded!Init /\ syncOff
     \/ active = "sync" /\ Init /\ Sync!Init
     \/ active = "asked" /\ Init /\ Asked!Init
     \/ active = "managed" /\ Init /\ Managed!Init
     \/ active = "chores" /\ Init /\ Chores!Init
     \/ active = "fixed" /\ Init /\ Fixed!Init

MCNext ==
  /\ UNCHANGED active
  /\ \/ active = "book" /\ Next /\ UNCHANGED sync
     \/ active = "crowded" /\ Crowded!Next /\ UNCHANGED sync
     \/ active = "sync" /\ Sync!Next /\ UNCHANGED vars
     \/ active = "asked" /\ Asked!Next /\ UNCHANGED vars
     \/ active = "managed" /\ Managed!Next /\ UNCHANGED vars
     \/ active = "chores" /\ Chores!Next /\ UNCHANGED vars
     \/ active = "fixed" /\ Fixed!Next /\ UNCHANGED vars

(* The fairness of SyncNode, where it is used.                             *)
CanProgress == \/ active = "sync" /\ Sync!CanProgress
               \/ active = "fixed" /\ Fixed!CanProgress
Progress == \/ active = "sync" /\ Sync!Progress
            \/ active = "fixed" /\ Fixed!Progress
Fairness == []<>~CanProgress \/ []<><<Progress>>_sync

MCSpec == MCInit /\ [][MCNext]_mcVars /\ Fairness

-----------------------------------------------------------------------------
(* SyncNode!RequestedOrPending: a block is requested or in memory, never   *)
(* both, however retries and late answers interleave (request_blocks).     *)
RequestedOrPending == active \in Nodes => Sync!RequestedOrPending

(* SyncNode: peer_ids and peer_by_service name peers past their handshake, *)
(* and agree; such a peer can be chosen for a request; and no caller waits *)
(* for a peer that is gone (handle_peer_ready, handle_disconnection). The  *)
(* indexes of an address book that is too small agree as well              *)
(* (prune_addresses).                                                      *)
IndexesAgree ==
  /\ active \in Nodes => /\ Sync!IndexesAgree /\ Sync!ReadyPeersSelectable
                         /\ Sync!UserWaitsOnLivePeer
  /\ active = "crowded" => Crowded!BookConsistent

(* Only a peer that sent bad data is banned (increase_banscore,            *)
(* blame_peer); one that leaves banned has its address banned, whoever     *)
(* hangs up first, and no address is forgiven while the node syncs         *)
(* (disconnect_and_ban, handle_disconnection).                             *)
OnlyLiarsBanned ==
  [][(active \in Nodes) =>
       /\ Sync!OnlyLiarsBanned'
       /\ \A a \in Addr : n.book[a] = "Banned" => n'.book[a] = "Banned"
       /\ \A p \in DOMAIN n.peers \ DOMAIN n'.peers :
            n.peers[p].state = "Banned" => n'.book[n.peers[p].addr] = "Banned"]_mcVars

(* SyncNode!OnlyValidBlocksConnected: the validated part of the chain only *)
(* grows, and an invalid block never gets into it (process_block).         *)
OnlyValidBlocksConnected ==
  [][/\ active \in Nodes => n'.valid >= n.valid
     /\ active \in {"sync", "asked", "managed"} => n'.valid < 2]_mcVars

(* SyncNode!SyncFinishes: the node validates its whole chain, whatever the *)
(* peers lose, delay or forge a bounded number of times (maintenance_tick).*)
SyncFinishes == active \in {"sync", "fixed"} => <>(phase = "done")
==============================================================================
