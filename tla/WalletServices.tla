--------------------------- MODULE WalletServices ---------------------------
(* The Electrum server and the JSON-RPC wallet commands on top of the address *)
(* cache: new blocks from the chain, client requests, the rescans that a new  *)
(* address, rescanblockchain, loaddescriptor and findtxout start, and crashes *)
(* between or inside them. The Electrum loop is one task; a JSON-RPC rescan   *)
(* is a task of its own and shares the cache with it.                         *)
EXTENDS Wallet

CONSTANTS
    Clients, Scripts,   \* Electrum clients, and the scripts they ask about
    Broadcast,          \* the transactions they broadcast
    ConfigDesc,         \* descriptors of the configuration file
    Loadable,           \* descriptors loaded over JSON-RPC
    Sought,             \* outputs looked up with findtxout
    Intervals,          \* <<start, stop>> arguments of rescanblockchain
    HasFilters,         \* compact filters are enabled
    RequestBound, FaultBound, CrashBound

VARIABLES
    w,                  \* the wallet (see Wallet)
    tip, ibd,           \* the chain: its height, and whether it is still syncing
    blocks,             \* the heights waiting in the Electrum server's channel
    scan,               \* addresses_to_scan
    job,                \* Electrum's rescan: [todo: heights, addrs]
    rpc,                \* JSON-RPC rescan task: [todo, strict: whether a missing block ends it]
    clients,            \* connected clients
    subs,               \* client_addresses: script -> client
    told,               \* <<client, script>> -> last status sent
    sent,               \* transactions in the node's mempool
    fresh,              \* last_rebroadcast is set and recent
    requests, faults, crashes

chainVars == <<tip, ibd, blocks>>
loopVars == <<scan, job, clients, subs, told, sent, fresh>>
vars == <<w, chainVars, loopVars, rpc, requests, faults, crashes>>

NoJob == [todo |-> <<>>, addrs |-> <<>>]
NoRpc == [todo |-> <<>>, strict |-> FALSE]

Settled(v) == [v EXCEPT !.log = <<>>]

setup_wallet(db) == FoldLeft(push_descriptor, setup(new(db)), ConfigDesc)

Init ==
    /\ w = Settled(setup_wallet(EmptyDb))
    /\ tip = 0 /\ ibd = TRUE /\ blocks = <<>>
    /\ scan = <<>> /\ job = NoJob /\ rpc = NoRpc
    /\ clients = {} /\ subs = <<>> /\ told = <<>> /\ sent = {} /\ fresh = FALSE
    /\ requests = 0 /\ faults = 0 /\ crashes = 0

----------------------------------------------------------------------------
(* Notifications. st is [w, told]                                            *)

Tell(st, scripts) ==
    [st EXCEPT !.told =
        [k \in DOMAIN @ \cup {<<subs[s], s>> : s \in scripts \cap DOMAIN subs} |->
            IF k[2] \in scripts \cap DOMAIN subs /\ subs[k[2]] = k[1]
            THEN get_status(st.w, k[2]) ELSE @[k]]]

wallet_notify(st, scripts) == Tell(st, scripts)

FoundIn(v, height) ==
    UNION {{s \in PaidBy(v, t) : t \in ToSet(v.addr[s].txs)} : t \in ToSet(Chain[height])}

Processed(v, height) ==
    block_process(IF (~ibd \/ height % 1000 = 0) /\ height > v.db.height
                  THEN bump_height(v, height) ELSE v, height)

NotifyFound(st, height) == wallet_notify(st, FoundIn(st.w, height))

handle_block(st, height) == NotifyFound([st EXCEPT !.w = Processed(@, height)], height)

handle_blocks(st) == FoldLeft(handle_block, st, blocks)

Now == [w |-> w, told |-> told]
Commit(st) == w' = Settled(st.w) /\ told' = st.told

----------------------------------------------------------------------------
(* The chain, and the node behind it.                                        *)

NewBlock ==
    /\ tip < Len(Chain)
    /\ tip' = tip + 1
    /\ blocks' = Append(blocks, tip + 1)
    /\ UNCHANGED <<w, ibd, loopVars, rpc, requests, faults, crashes>>

LeaveIbd ==
    /\ ibd /\ ibd' = FALSE
    /\ UNCHANGED <<w, tip, blocks, loopVars, rpc, requests, faults, crashes>>

\* the blocks a compact filter query for these scripts returns, in order
match_any(v, scripts, start, stop) ==
    SelectSeq([h \in 1..tip |-> h], LAMBDA h :
        /\ start <= h /\ (stop = 0 \/ h <= stop)
        /\ \E t \in ToSet(Chain[h]) :
               \/ \E k \in DOMAIN Txs[t].outs : Txs[t].outs[k].script \in scripts
               \/ \E o \in ToSet(Txs[t].ins) : Out(o).script \in scripts)

----------------------------------------------------------------------------
(* One pass of the server's inner loop takes the waiting blocks, then one     *)
(* message. While a rescan waits for a block nothing else is served.          *)

Idle == job = NoJob

Take(st) == Commit(st) /\ blocks' = <<>>

Request == requests < RequestBound /\ requests' = requests + 1

NewClient(c) ==
    /\ Idle /\ c \notin clients /\ Request
    /\ clients' = clients \cup {c}
    /\ Take(handle_blocks(Now))
    /\ UNCHANGED <<tip, ibd, scan, job, subs, sent, fresh, rpc, faults, crashes>>

\* the subscriptions of a client that leaves stay in client_addresses
Disconnect(c) ==
    /\ Idle /\ c \in clients
    /\ clients' = clients \ {c}
    /\ Take(handle_blocks(Now))
    /\ UNCHANGED <<tip, ibd, scan, job, subs, sent, fresh, rpc, requests, faults, crashes>>

\* blockchain.scripthash.subscribe and blockchain.scriptpubkey.subscribe: the
\* second also queues a script the wallet does not know for a rescan
Subscribe(c, s, by_script) ==
    /\ Idle /\ c \in clients /\ Request
    /\ subs' = Put(subs, s, c)
    /\ \E st \in {handle_blocks(Now)} :
        LET known == s \in DOMAIN st.w.addr
        IN  /\ w' = Settled(st.w) /\ blocks' = <<>>
            /\ told' = Put(st.told, <<c, s>>, IF known THEN get_status(st.w, s) ELSE <<>>)
            /\ scan' = IF by_script /\ ~known THEN Append(scan, s) ELSE scan
    /\ UNCHANGED <<tip, ibd, job, clients, sent, fresh, rpc, faults, crashes>>

\* whoever asks
Unsubscribe(c, s) ==
    /\ Idle /\ c \in clients /\ s \in DOMAIN subs /\ Request
    /\ subs' = Restrict(subs, DOMAIN subs \ {s})
    /\ Take(handle_blocks(Now))
    /\ UNCHANGED <<tip, ibd, scan, job, clients, sent, fresh, rpc, faults, crashes>>

\* blockchain.scriptpubkey.get_balance and get_history: an unknown script is
\* cached at once and queued for a rescan
Ask(c, s) ==
    /\ Idle /\ c \in clients /\ Request
    /\ \E st \in {handle_blocks(Now)} :
        /\ Take([st EXCEPT !.w = cache_address(@, s)])
        /\ scan' = IF s \in DOMAIN st.w.addr THEN scan ELSE Append(scan, s)
    /\ UNCHANGED <<tip, ibd, job, clients, subs, sent, fresh, rpc, faults, crashes>>

\* blockchain.transaction.broadcast
BroadcastTx(c, t) ==
    /\ Idle /\ c \in clients /\ Request
    /\ sent' = sent \cup {t}
    /\ \E st \in {handle_blocks(Now)} : \E v \in {cache_mempool_transaction(st.w, t)} :
        Take(wallet_notify([st EXCEPT !.w = v], PaidBy(v, t) \cup SpentBy(st.w, t)))
    /\ UNCHANGED <<tip, ibd, scan, job, clients, subs, fresh, rpc, faults, crashes>>

rebroadcast_mempool_transactions == sent' = sent \cup find_unconfirmed(w)

\* no message for a second: rebroadcast once an hour, then start a rescan
Timeout ==
    /\ Idle
    /\ IF fresh THEN UNCHANGED sent ELSE rebroadcast_mempool_transactions
    /\ fresh' = TRUE
    /\ IF scan = <<>> \/ ibd THEN UNCHANGED <<scan, job>> /\ Take(handle_blocks(Now))
       ELSE LET v == FoldLeft(cache_address, w, scan)
            IN  /\ w' = Settled(v) /\ UNCHANGED <<told, blocks>>
                /\ scan' = <<>>
                /\ job' = IF HasFilters
                          THEN [todo |-> match_any(v, ToSet(scan), 0, 0), addrs |-> scan]
                          ELSE NoJob
    /\ UNCHANGED <<tip, ibd, clients, subs, rpc, requests, faults, crashes>>

HourPasses ==
    /\ fresh /\ ~ibd /\ fresh' = FALSE
    /\ UNCHANGED <<w, chainVars, scan, job, clients, subs, told, sent, rpc, requests, faults, crashes>>

NextBlock == IF Len(job.todo) > 1 THEN [job EXCEPT !.todo = Tail(@)] ELSE NoJob

rescan_with_block_filters ==
    /\ job.todo # <<>>
    /\ Commit(handle_block(Now, Head(job.todo)))
    /\ job' = NextBlock
    /\ UNCHANGED <<chainVars, scan, clients, subs, sent, fresh, rpc, requests, faults, crashes>>

\* the query matched nothing
RescanDone ==
    /\ job # NoJob /\ job.todo = <<>>
    /\ job' = NoJob
    /\ UNCHANGED <<w, chainVars, scan, clients, subs, told, sent, fresh, rpc, requests, faults, crashes>>

\* the node does not deliver a block: all the addresses are queued again
RescanFails ==
    /\ job.todo # <<>> /\ faults < FaultBound
    /\ scan' = scan \o job.addrs /\ job' = NoJob /\ faults' = faults + 1
    /\ UNCHANGED <<w, chainVars, clients, subs, told, sent, fresh, rpc, requests, crashes>>

----------------------------------------------------------------------------
(* JSON-RPC.                                                                  *)

Task(v, scripts, start, stop, strict) ==
    rpc' = [todo |-> match_any(v, scripts, start, stop), strict |-> strict]

RpcUnchanged == UNCHANGED <<chainVars, loopVars, faults, crashes>>

rescan_blockchain(start, stop) ==
    /\ rpc.todo = <<>> /\ Request
    /\ stop = 0 \/ start < stop
    /\ stop <= tip
    /\ ~ibd /\ DOMAIN w.addr # {} /\ HasFilters
    /\ Task(w, DOMAIN w.addr, start, stop, FALSE)
    /\ RpcUnchanged /\ UNCHANGED w

load_descriptor(d) ==
    /\ rpc.todo = <<>> /\ Request /\ d \notin ToSet(w.db.desc)
    /\ LET v == push_descriptor(w, d)
       IN  /\ w' = Settled(v)
           /\ IF HasFilters THEN Task(v, DOMAIN v.addr, 0, 0, FALSE) ELSE UNCHANGED rpc
    /\ RpcUnchanged

\* an output the wallet already has is answered at once
find_tx_out(o) ==
    /\ rpc.todo = <<>> /\ Request
    /\ ~get_utxo(w, o)
    /\ ~ibd /\ HasFilters
    /\ w' = Settled(cache_address(w, Out(o).script))
    /\ Task(w, {Out(o).script}, 0, 0, TRUE)
    /\ RpcUnchanged

RpcBlock ==
    /\ rpc.todo # <<>>
    /\ w' = Settled(block_process(w, Head(rpc.todo)))
    /\ rpc' = [rpc EXCEPT !.todo = Tail(@)]
    /\ RpcUnchanged /\ UNCHANGED requests

\* a missing block is skipped by a rescan and ends findtxout
RpcNoBlock ==
    /\ rpc.todo # <<>> /\ faults < FaultBound /\ faults' = faults + 1
    /\ rpc' = IF rpc.strict THEN NoRpc ELSE [rpc EXCEPT !.todo = Tail(@)]
    /\ UNCHANGED <<w, chainVars, loopVars, requests, crashes>>

----------------------------------------------------------------------------
(* Crashes: the database is what one of the running handlers had written.    *)

Running ==
    {setup_wallet(w.db)}
    \cup (IF Idle THEN {handle_blocks(Now).w} ELSE {})
    \cup (IF job.todo # <<>> THEN {handle_block(Now, Head(job.todo)).w} ELSE {})
    \cup (IF rpc.todo # <<>> THEN {block_process(w, Head(rpc.todo))} ELSE {})

OnDisk == {w.db} \cup UNION {ToSet(v.log) : v \in Running}

Crash ==
    /\ crashes < CrashBound /\ crashes' = crashes + 1
    /\ \E db \in OnDisk : w' = Settled(setup_wallet(db))
    /\ ibd' = TRUE /\ blocks' = <<>>
    /\ scan' = <<>> /\ job' = NoJob /\ rpc' = NoRpc
    /\ clients' = {} /\ subs' = <<>> /\ told' = <<>> /\ sent' = {} /\ fresh' = FALSE
    /\ UNCHANGED <<tip, requests, faults>>

Next ==
    \/ NewBlock \/ HourPasses \/ RescanFails \/ RpcNoBlock \/ Crash
    \/ LeaveIbd \/ Timeout \/ rescan_with_block_filters \/ RescanDone \/ RpcBlock
    \/ \E c \in Clients :
        \/ NewClient(c) \/ Disconnect(c)
        \/ \E s \in Scripts : \/ Subscribe(c, s, TRUE) \/ Subscribe(c, s, FALSE)
                              \/ Unsubscribe(c, s) \/ Ask(c, s)
        \/ \E t \in Broadcast : BroadcastTx(c, t)
    \/ \E i \in Intervals : rescan_blockchain(i[1], i[2])
    \/ \E d \in Loadable : load_descriptor(d)
    \/ \E o \in Sought : find_tx_out(o)

Spec == Init /\ [][Next]_vars

\* the loop's one-second timeout fires once the clients pause, and the node
\* delivers the blocks a rescan waits for (its failures are RescanFails)
Rescan == rescan_with_block_filters \/ RescanDone
FairSpec ==
    /\ Spec
    /\ WF_vars(LeaveIbd) /\ WF_vars(Timeout)
    /\ WF_vars(Rescan)

\* when Timeout, and Rescan, are enabled and change something
CanTimeOut == Idle /\ (~fresh \/ blocks # <<>> \/ (scan # <<>> /\ ~ibd))
CanRescan == job # NoJob

----------------------------------------------------------------------------
(* Properties.                                                               *)

(* What the database has is in memory too (AddressCacheInner::new), and the *)
(* heights that wait are of the chain.                                     *)
TypeOK ==
    /\ DOMAIN w.db.addr \subseteq DOMAIN w.addr
    /\ tip \in 0..Len(Chain) /\ ibd \in BOOLEAN
    /\ ToSet(blocks) \subseteq 1..tip /\ ToSet(job.todo) \cup ToSet(rpc.todo) \subseteq 1..tip
    /\ clients \subseteq Clients /\ Range(subs) \subseteq Clients
    /\ sent \subseteq DOMAIN Txs

(* However blocks, rescans and restarts interleave, a balance is the sum of   *)
(* the outputs the address lists, in memory and in the database, and the      *)
(* `assert!(value <= address.balance)` of save_non_mempool_tx never fires     *)
BalanceIsUtxos ==
    /\ ~w.panic
    /\ \A s \in DOMAIN w.addr : w.addr[s].balance = Balance(w.addr[s].utxos)
    /\ \A s \in DOMAIN w.db.addr : w.db.addr[s].balance = Balance(w.db.addr[s].utxos)

(* Every output of the spend index belongs to a cached address that lists it, *)
(* and its transaction is in the database, so that the `expect`s of           *)
(* block_process and find_spend hold, after a crash at any write as well      *)
IndexIsBacked ==
    \A o \in DOMAIN w.idx :
        /\ o[1] \in DOMAIN w.db.txs
        /\ w.idx[o] \in DOMAIN w.addr /\ o \in ToSet(w.addr[w.idx[o]].utxos)

MinedUpTo(h) == UNION {ToSet(Chain[k]) : k \in 1..h}

\* the outputs of s made up to height h and not spent up to the height top
Coins(s, h, top) ==
    UNION {{<<t, k - 1>> : k \in {j \in DOMAIN Txs[t].outs : Txs[t].outs[j].script = s}}
           : t \in MinedUpTo(h)}
    \ UNION {ToSet(Txs[t].ins) : t \in MinedUpTo(top)}

\* a script whose history has been looked for: not waiting for a scan, and not
\* derived late, beyond what was watched from the start
Covered(s) ==
    /\ s \notin ToSet(scan)
    /\ s \in DOMAIN w.derived => w.derived[s] < DERIVATION_COUNT

(* Without crashes and failed fetches the wallet misses no coin: once the     *)
(* rescans are over, every unspent output of a covered address, up to the     *)
(* last block the server took in, is in the wallet                            *)
NoCoinMissing ==
    crashes = 0 /\ faults = 0 /\ job = NoJob /\ rpc.todo = <<>> =>
        \A s \in {x \in DOMAIN w.addr : Covered(x)} :
            Coins(s, tip - Len(blocks), tip) \subseteq ToSet(w.addr[s].utxos)

(* A derived address that received a payment is at least GAP_LIMIT below the  *)
(* derivation horizon: maybe_derive_addresses derived the next batch before   *)
(* the payment was recorded                                                   *)
GapKept ==
    \A s \in DOMAIN w.derived :
        w.addr[s].txs # <<>> => w.derived[s] + GAP_LIMIT < w.db.horizon

(* The client subscribed to a script has been told of every transaction that  *)
(* pays it, at its current height                                             *)
SubscriberTold ==
    \A s \in DOMAIN subs \cap DOMAIN w.addr :
        subs[s] \in clients =>
            {x \in ToSet(get_status(w, s)) : s \in PaidBy(w, x[1])}
                \subseteq ToSet(told[<<subs[s], s>>])

(* An address queued for a rescan is scanned, however often the node fails to *)
(* deliver one of the blocks                                                  *)
ScanHappens ==
    \A s \in Scripts :
        s \in ToSet(scan) ~> s \notin ToSet(scan) \cup ToSet(job.addrs)

(* A transaction the wallet holds as unconfirmed is in the node's mempool     *)
(* again after a restart                                                      *)
UnconfirmedIsRebroadcast ==
    \A t \in DOMAIN Txs :
        t \in find_unconfirmed(w) ~> t \in sent \/ t \notin find_unconfirmed(w)

(* The address map is described as "basically an in-memory version of our     *)
(* database"; an address is only written when a transaction first touches it  *)
MemoryIsDatabase == w.addr = w.db.addr

(* get_address_balance: "Returns the balance of this address, debts (spends)  *)
(* are taken in account"; a block that is scanned again counts again          *)
BalanceIsOfChain ==
    crashes = 0 /\ job = NoJob /\ rpc.todo = <<>> =>
        \A s \in {x \in DOMAIN w.addr : Covered(x)} :
            w.addr[s].balance = FoldSet(LAMBDA o, b : b + Value(o), 0, Coins(s, tip - Len(blocks), tip - Len(blocks)))

(* A transaction seen in a block does not become unconfirmed again            *)
ConfirmedStays ==
    [][\A t \in DOMAIN w.db.txs : w.db.txs[t].height > 0 => w'.db.txs[t].height > 0]_vars
=============================================================================
