------------------------------- MODULE Wallet -------------------------------
(* floresta-watch-only: the address cache and its database. A wallet is a     *)
(* record w: the in-memory cache (addr, idx, derived), the database db, and   *)
(* log, the contents of the database after each write of the handler that is  *)
(* running: the states a crash inside the handler can leave on disk.          *)
(* script_set always equals the keys of address_map and is not kept apart.    *)
EXTENDS Integers, Sequences, FiniteSets, SequencesExt, FiniteSetsExt, Functions

CONSTANTS
    Txs,                \* Txs[t] = [ins: Seq(outpoint), outs: Seq([script, value])]
    Chain,              \* Chain[h]: the transactions of the block at height h, in order
    Paths,              \* Paths[d]: the number of derivation paths of descriptor d
    Wildcard,           \* the descriptors with a wildcard
    DERIVATION_COUNT, GAP_LIMIT

Get(f, k, default) == IF k \in DOMAIN f THEN f[k] ELSE default
Put(f, k, v) == [x \in DOMAIN f \cup {k} |-> IF x = k THEN v ELSE f[x]]

Out(o) == Txs[o[1]].outs[o[2] + 1]
Value(o) == Out(o).value
Balance(utxos) == FoldLeft(LAMBDA s, o : s + Value(o), 0, utxos)

EmptyDb == [addr |-> <<>>, txs |-> <<>>, height |-> 0, desc |-> <<>>, horizon |-> 0]
Empty == [balance |-> 0, txs |-> <<>>, utxos |-> <<>>]

\* a write of the key-value store: flushed before the call returns
Written(w, db) == [w EXCEPT !.db = db, !.log = Append(@, db)]
SaveAddress(w, s) == Written(w, [w.db EXCEPT !.addr = Put(@, s, w.addr[s])])
SaveTx(w, t, height, pos) ==
    Written(w, [w.db EXCEPT !.txs = Put(@, t, [height |-> height, pos |-> pos])])

cache_address(w, s) ==
    IF s \in DOMAIN w.addr THEN w
    ELSE SaveAddress([w EXCEPT !.addr = Put(@, s, Empty)], s)

ScriptAt(d, p, i) == <<d, p, i>>

\* the scripts a descriptor yields from start on: <<script, index>> pairs in the
\* order they are cached, path by path
derive_addresses_from_descriptor(d, start, count) ==
    [k \in 1..Paths[d] * count |->
        LET i == start + ((k - 1) % count)
        IN  <<ScriptAt(d, 1 + (k - 1) \div count, i), i>>]

derive_range(w, descs, start, count) ==
    FoldLeft(LAMBDA v, d :
        IF d \notin Wildcard
        THEN FoldLeft(LAMBDA u, x : cache_address(u, x[1]), v,
                      derive_addresses_from_descriptor(d, 0, 1))
        ELSE FoldLeft(LAMBDA u, x : cache_address([u EXCEPT !.derived = Put(@, x[1], x[2])], x[1]),
                      v, derive_addresses_from_descriptor(d, start, count)),
        w, descs)

SaveStats(w, horizon) == Written(w, [w.db EXCEPT !.horizon = horizon])

derive_addresses(w) ==
    SaveStats(derive_range(w, w.db.desc, w.db.horizon, DERIVATION_COUNT),
              w.db.horizon + DERIVATION_COUNT)

maybe_derive_addresses(w, s) ==
    IF s \in DOMAIN w.derived /\ w.derived[s] + GAP_LIMIT >= w.db.horizon
    THEN derive_addresses(w) ELSE w

IndexOf(utxos) == {utxos[k] : k \in DOMAIN utxos}

\* what AddressCacheInner::new rebuilds from the database
new(db) ==
    LET owner == [o \in UNION {IndexOf(db.addr[s].utxos) : s \in DOMAIN db.addr} |->
                     CHOOSE s \in DOMAIN db.addr : o \in IndexOf(db.addr[s].utxos)]
        w == [addr |-> db.addr, idx |-> owner, derived |-> <<>>, db |-> db,
              log |-> <<db>>, panic |-> FALSE]
        horizon == Max({db.horizon, DERIVATION_COUNT})
    IN  IF db.desc = <<>> THEN w
        ELSE derive_range(IF horizon = db.horizon THEN w ELSE SaveStats(w, horizon),
                          db.desc, 0, horizon)

SaveDescriptor(w, d) == Written(w, [w.db EXCEPT !.desc = Append(@, d)])

push_descriptor(w, d) ==
    LET horizon == Max({w.db.horizon, DERIVATION_COUNT})
    IN  IF d \in ToSet(w.db.desc) THEN w
        ELSE SaveStats(SaveDescriptor(derive_range(w, <<d>>, 0, horizon), d), horizon)

NoteTx(w, s, t) ==
    IF t \in ToSet(w.addr[s].txs) THEN w
    ELSE SaveAddress([w EXCEPT !.addr[s].txs = Append(@, t)], s)

save_mempool_tx(w, t, s) == NoteTx(w, s, t)

\* mutant of save_non_mempool_tx: a spend leaves the balance
SpendKeepsBalance(w, t, o, is_spend, s) ==
    LET at == SelectInSeq(w.addr[s].utxos, LAMBDA u : u = o)
        v == IF ~is_spend
             THEN [w EXCEPT !.addr[s] = [@ EXCEPT !.utxos = Append(@, o), !.balance = @ + Value(o)],
                            !.idx = Put(@, o, s)]
             ELSE IF at = 0 THEN w
             ELSE [w EXCEPT !.addr[s].utxos = RemoveAt(@, at), !.idx = Restrict(@, DOMAIN @ \ {o})]
    IN  NoteTx(v, s, t)

save_non_mempool_tx(w, t, o, is_spend, s) ==
    IF is_spend /\ Value(o) > w.addr[s].balance THEN [w EXCEPT !.panic = TRUE]
    ELSE LET at == SelectInSeq(w.addr[s].utxos, LAMBDA u : u = o)
             v == IF ~is_spend
                  THEN [w EXCEPT !.addr[s] = [@ EXCEPT !.utxos = Append(@, o),
                                                       !.balance = @ + Value(o)],
                                 !.idx = Put(@, o, s)]
                  ELSE IF at = 0 THEN [w EXCEPT !.addr[s].balance = @ - Value(o)]
                  ELSE [w EXCEPT !.addr[s] = [@ EXCEPT !.utxos = RemoveAt(@, at),
                                                       !.balance = @ - Value(o)],
                                 !.idx = Restrict(@, DOMAIN @ \ {o})]
         IN  NoteTx(v, s, t)

Record(w, t, height, o, is_spend, s) ==
    IF height > 0 THEN save_non_mempool_tx(w, t, o, is_spend, s) ELSE save_mempool_tx(w, t, s)

cache_transaction(w, t, height, pos, o, is_spend, s) ==
    Record(maybe_derive_addresses(cache_address(SaveTx(w, t, height, pos), s), s),
           t, height, o, is_spend, s)

\* an output of ours needs its transaction when it is spent
Spend(w, t, height, pos, o) ==
    IF o \notin DOMAIN w.idx THEN w
    ELSE IF o[1] \notin DOMAIN w.db.txs \/ w.idx[o] \notin DOMAIN w.addr
    THEN [w EXCEPT !.panic = TRUE]
    ELSE cache_transaction(w, t, height, pos, o, TRUE, w.idx[o])

Receive(w, t, height, pos, is_spend, k) ==
    LET s == Txs[t].outs[k].script
    IN  IF s \notin DOMAIN w.addr THEN w
        ELSE cache_transaction(w, t, height, pos, <<t, k - 1>>, is_spend, s)

CacheTx(w, t, height, pos, is_spend) ==
    LET spent == FoldLeft(LAMBDA v, o : Spend(v, t, height, pos, o), w, Txs[t].ins)
    IN  FoldLeft(LAMBDA v, k : Receive(v, t, height, pos, is_spend, k), spent,
                 [k \in DOMAIN Txs[t].outs |-> k])

block_process(w, height) ==
    LET block == Chain[height]
    IN  FoldLeft(LAMBDA v, k : CacheTx(v, block[k], height, k, FALSE), w,
                 [k \in DOMAIN block |-> k])

\* the outputs are cached as spends, which changes nothing at height 0
cache_mempool_transaction(w, t) == CacheTx(w, t, 0, 0, TRUE)

\* what block_process and cache_mempool_transaction hand to the notifier: a block
\* only reports the scripts it pays, the mempool also those it spends from
PaidBy(w, t) ==
    {Txs[t].outs[k].script : k \in DOMAIN Txs[t].outs} \cap DOMAIN w.addr
SpentBy(w, t) == {w.idx[o] : o \in ToSet(Txs[t].ins) \cap DOMAIN w.idx}

\* setup writes the height only when the descriptors cannot be read
setup(w) == w

bump_height(w, height) == Written(w, [w.db EXCEPT !.height = height])

\* confirmed transactions by height and position, then the unconfirmed ones
get_address_history(w, s) ==
    LET txs == SelectSeq(w.addr[s].txs, LAMBDA t : t \in DOMAIN w.db.txs)
        confirmed == SelectSeq(txs, LAMBDA t : w.db.txs[t].height # 0)
        key(t) == w.db.txs[t].height * 100 + w.db.txs[t].pos
    IN  SortSeq(confirmed, LAMBDA t, u : key(t) < key(u))
        \o SelectSeq(txs, LAMBDA t : w.db.txs[t].height = 0)

get_status(w, s) ==
    LET h == get_address_history(w, s) IN [k \in DOMAIN h |-> <<h[k], w.db.txs[h[k]].height>>]

get_address_utxos(w, s) == w.addr[s].utxos
get_utxo(w, o) == o \in DOMAIN w.idx /\ o[1] \in DOMAIN w.db.txs
find_unconfirmed(w) == {t \in DOMAIN w.db.txs : w.db.txs[t].height = 0}
=============================================================================
