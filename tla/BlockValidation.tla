-------------------------- MODULE BlockValidation --------------------------
(***************************************************************************)
(* Validation of one block after another against the Utreexo accumulator:  *)
(* the leaf data of a proof is turned into the coins the block spends      *)
(* (udata.rs, process_proof), the accumulator is updated                   *)
(* (consensus.rs, update_acc), and the transactions are checked in order   *)
(* (verify_block_transactions).  ChainState!ConnectBlock abstracts this to *)
(* "the block is in Invalid or not"; here the verdict is computed.         *)
(*                                                                         *)
(* A transaction is                                                        *)
(*   [id, ins, outs, lock, v2, sig]                                        *)
(* with ins a sequence of [prev, seq], prev an outpoint <<id, vout>>, seq  *)
(* and lock records [kind, v]; outs a sequence of [value, script].  A      *)
(* script is "plain", "p2sh" (spending it costs one signature operation)   *)
(* or "return" (unspendable).  A leaf is the content the accumulator       *)
(* commits to: the outpoint, the coin and where it was created.  Script    *)
(* execution (libbitcoinkernel) is external and taken to succeed.          *)
(***************************************************************************)
EXTENDS Integers, Sequences, FiniteSets, FiniteSetsExt, SequencesExt

CONSTANTS
    Pool,                     \* transactions a block may hold
    CoinbaseId,               \* id of the coinbase at each height, a sequence
    Rewards,                  \* values a coinbase may claim
    Mtp,                      \* median time past of the block at each height
    MaxHeight,                \* bound on the blocks accepted
    MaxTxs,                   \* bound on the transactions of a block
    Lies,                     \* amounts a leaf may claim besides the right one
    Bip30,                    \* outpoints of the two BIP30 unspendable coinbases
    ONE_SUBSIDY,              \* 50 BTC
    subsidy_halving_interval,
    MAX_SUBSIDY_HALVINGS,     \* 64
    COINBASE_MATURITY,        \* 100
    csv_activation_height,
    GRANULARITY,              \* 512 seconds
    MAX_BLOCK_SIGOPS_COST,
    MAX_MONEY

VARIABLES
    acc,                      \* the leaves the Stump commits to
    height,                   \* the validated height
    chain                     \* history: the blocks accepted

vars == <<acc, height, chain>>

Off == [kind |-> "off", v |-> 0]
Final == [kind |-> "final", v |-> 0]

-----------------------------------------------------------------------------
(* Subsidy and supply *)

get_subsidy(h) ==
    LET halvings == h \div subsidy_halving_interval
    IN  IF halvings >= MAX_SUBSIDY_HALVINGS THEN 0 ELSE ONE_SUBSIDY \div (2 ^ halvings)

max_supply_at_height(h) ==
    LET count == h + 1
        full == count \div subsidy_halving_interval
        epoch_subsidy(e) == get_subsidy(subsidy_halving_interval * e)
        epochs == 0 .. Min({full, MAX_SUBSIDY_HALVINGS}) - 1
    IN    subsidy_halving_interval * MapThenSumSet(epoch_subsidy, epochs)
        + (IF full < MAX_SUBSIDY_HALVINGS
             THEN (count % subsidy_halving_interval) * epoch_subsidy(full) ELSE 0)
        - epoch_subsidy(0)

-----------------------------------------------------------------------------
(* Leaves *)

is_unspendable(script) == script = "return"

Leaf(tx, vout, h, cb) ==
    [prev |-> <<tx.id, vout>>, height |-> h, cb |-> cb,
     value |-> tx.outs[vout].value, script |-> tx.outs[vout].script]

Vouts(tx) == 1 .. Len(tx.outs)

SameBlock(block) == UNION {{<<block[i].id, v>> : v \in Vouts(block[i])} : i \in DOMAIN block}

get_input_outpoints(block) ==
    UNION {{block[i].ins[k].prev : k \in DOMAIN block[i].ins} : i \in DOMAIN block}

(* The coinbase's null input is not modelled: its ins are empty.           *)
get_block_adds(block, h) ==
    UNION {{Leaf(block[i], v, h, i = 1) : v \in
               {w \in Vouts(block[i]) : ~is_unspendable(block[i].outs[w].script)
                                        /\ <<block[i].id, w>> \notin get_input_outpoints(block)}}
           : i \in DOMAIN block}

(* Mutant of ProofInputs: an output of an earlier block is looked up by its transaction.  *)
ProofInputsByOrder(block) ==
    FlattenSeq([i \in 1 .. Len(block) - 1 |->
                 [k \in DOMAIN block[i + 1].ins |-> block[i + 1].ins[k].prev]])

(* The inputs a proof has a leaf for, in block order.                      *)
ProofInputs(block) ==
    SelectSeq(FlattenSeq([i \in 1 .. Len(block) - 1 |->
                 [k \in DOMAIN block[i + 1].ins |-> block[i + 1].ins[k].prev]]),
              LAMBDA o : o \notin SameBlock(block))

(* process_proof pairs the n-th leaf with the n-th such input; missing     *)
(* leaves are skipped, further ones ignored.                               *)
process_proof(leaves, block) ==
    LET ins == ProofInputs(block)
        n == Min({Len(ins), Len(leaves)})
        dels == [k \in 1 .. n |->
                   [prev |-> ins[k], height |-> leaves[k].height, cb |-> leaves[k].cb,
                    value |-> leaves[k].value, script |-> leaves[k].script]]
    IN  [ok |-> \A k \in 1 .. n : leaves[k].height \in 1 .. height, dels |-> dels]

(* Stump::modify (external): the proof holds when every deleted leaf is    *)
(* committed to.  A leaf deleted twice may or may not be noticed: the      *)
(* library decides, so the caller's check must not depend on it.           *)
update_acc(dels, block, h) ==
    [ok |-> /\ Range(dels) \subseteq acc
            /\ ~\E d \in Range(dels) : d.prev \in Bip30,
     acc |-> (acc \ Range(dels)) \cup get_block_adds(block, h)]

-----------------------------------------------------------------------------
(* Transactions *)

(* The lock-time cutoff of a candidate at height h: with BIP113 active,    *)
(* the median time past of the previous block.                             *)
block_lock_time_cutoff(h) ==
    IF h >= csv_activation_height THEN [mtp |-> TRUE, value |-> Mtp[h - 1]]
                                  ELSE [mtp |-> FALSE, value |-> Mtp[h]]

is_final_transaction(tx, h) ==
    \/ tx.lock = Off
    \/ tx.lock.kind = "blocks" /\ tx.lock.v < h
    \/ tx.lock.kind = "time" /\ tx.lock.v < block_lock_time_cutoff(h).value
    \/ \A k \in DOMAIN tx.ins : tx.ins[k].seq = Final

relative_locktime_satisfied(seq, coin, h) ==
    \/ ~block_lock_time_cutoff(h).mtp
    \/ seq.kind = "blocks" /\ h - coin.height >= seq.v
    \/ /\ seq.kind = "time"
       /\ Max({0, block_lock_time_cutoff(h).value - coin.time}) \div GRANULARITY >= seq.v

has_duplicate_inputs(tx) ==
    Cardinality({tx.ins[k].prev : k \in DOMAIN tx.ins}) # Len(tx.ins)

OutValue(tx) == MapThenSumSet(LAMBDA v : tx.outs[v].value, Vouts(tx))

check_transaction_context_free(tx) ==
    /\ tx.ins # <<>>
    /\ tx.outs # <<>>
    /\ ~has_duplicate_inputs(tx)
    /\ OutValue(tx) <= MAX_MONEY

Held(utxos, tx) == {k \in DOMAIN tx.ins : tx.ins[k].prev \in DOMAIN utxos}

sigop_cost(tx, utxos) ==
    tx.sig + Cardinality({k \in Held(utxos, tx) : utxos[tx.ins[k].prev].script = "p2sh"})

Spendable(tx, k, coin, h) ==
    /\ coin.cb => h >= coin.height + COINBASE_MATURITY
    /\ (tx.v2 /\ tx.ins[k].seq \notin {Off, Final})
           => relative_locktime_satisfied(tx.ins[k].seq, coin, h)
    /\ ~is_unspendable(coin.script)

Without(utxos, S) == [o \in DOMAIN utxos \ S |-> utxos[o]]

(* verify_transaction with take_utxo: the coins leave the map as they are  *)
(* loaded.  Returns the fee, or ok = FALSE.                                *)
verify_transaction(tx, utxos, h) ==
    IF ~(check_transaction_context_free(tx) /\ Held(utxos, tx) = DOMAIN tx.ins)
      THEN [ok |-> FALSE, fee |-> 0, utxos |-> utxos]
      ELSE LET coin(k) == utxos[tx.ins[k].prev]
               in_value == MapThenSumSet(LAMBDA k : coin(k).value, DOMAIN tx.ins)
           IN  [ok |-> /\ \A k \in DOMAIN tx.ins : Spendable(tx, k, coin(k), h)
                       /\ in_value <= MAX_MONEY
                       /\ OutValue(tx) <= in_value,
                fee |-> in_value - OutValue(tx),
                utxos |-> Without(utxos, {tx.ins[k].prev : k \in DOMAIN tx.ins})]

(* The outputs of a checked transaction join the map.                      *)
Insert(utxos, tx, h, cb) ==
    LET new == {<<tx.id, v>> : v \in Vouts(tx)}
    IN  [o \in DOMAIN utxos \cup new |->
           IF o \in new
             THEN [value |-> tx.outs[o[2]].value, script |-> tx.outs[o[2]].script, cb |-> cb,
                   height |-> h, time |-> block_lock_time_cutoff(h).value]
             ELSE utxos[o]]

(* One turn of the loop of verify_block_transactions.                      *)
CheckNext(s, tx, h) ==
    LET sig == s.sig + sigop_cost(tx, s.utxos)
        first == s.n = 0
        v == verify_transaction(tx, s.utxos, h)
        paid == IF first THEN s.utxos ELSE v.utxos
    IN  [n |-> s.n + 1,
         ok |-> /\ s.ok
                /\ is_final_transaction(tx, h)
                /\ sig <= MAX_BLOCK_SIGOPS_COST
                /\ first \/ v.ok,
         sig |-> sig,
         fee |-> IF first THEN 0 ELSE s.fee + v.fee,
         utxos |-> Insert(paid, tx, h, first)]

verify_block_transactions(block, utxos, h) ==
    LET end == FoldLeft(LAMBDA s, tx : CheckNext(s, tx, h),
                        [n |-> 0, ok |-> TRUE, sig |-> 0, fee |-> 0, utxos |-> utxos], block)
    IN  end.ok /\ OutValue(block[1]) <= end.fee + get_subsidy(h)

(* The coins process_proof hands to verify_block_transactions; the         *)
(* creation time is the median time past before the block that created it. *)
Coins(dels) ==
    [o \in {dels[k].prev : k \in DOMAIN dels} |->
        LET d == CHOOSE d \in Range(dels) : d.prev = o
        IN  [value |-> d.value, script |-> d.script, cb |-> d.cb, height |-> d.height,
             time |-> Mtp[d.height - 1]]]

(* connect_block of the next height: update_acc, then the transactions.    *)
Accepts(block, leaves) ==
    LET h == height + 1
        p == process_proof(leaves, block)
    IN  /\ p.ok
        /\ update_acc(p.dels, block, h).ok
        /\ verify_block_transactions(block, Coins(p.dels), h)

-----------------------------------------------------------------------------
(* Blocks and proofs *)

Coinbase(h, v) ==
    [id |-> CoinbaseId[h], ins |-> <<>>, outs |-> <<[value |-> v, script |-> "plain"]>>,
     lock |-> Off, v2 |-> FALSE, sig |-> 0]

BlocksAt(h) ==
    {<<Coinbase(h, v)>> \o s : v \in Rewards, s \in UNION {[1 .. n -> Pool] : n \in 0 .. MaxTxs}}

NoLeaf == [height |-> 1, cb |-> FALSE, value |-> 0, script |-> "plain"]

(* The leaves an honest bridge serves.                                     *)
TrueLeaves(block) ==
    LET ins == ProofInputs(block)
    IN  [k \in DOMAIN ins |->
           IF \E l \in acc : l.prev = ins[k]
             THEN LET l == CHOOSE l \in acc : l.prev = ins[k]
                  IN  [height |-> l.height, cb |-> l.cb, value |-> l.value, script |-> l.script]
             ELSE NoLeaf]

(* What else a peer may send: one leaf changed, or the last one missing.   *)
OtherLeaves(block) ==
    LET true == TrueLeaves(block)
    IN  {[true EXCEPT ![k].value = a] : k \in DOMAIN true, a \in Lies}
          \cup {[true EXCEPT ![k].cb = ~@] : k \in DOMAIN true}
          \cup {[true EXCEPT ![k].height = a] : k \in DOMAIN true, a \in 0 .. height + 1}
          \cup {SubSeq(true, 1, n) : n \in 0 .. Len(true) - 1}

Init ==
    /\ acc = {}
    /\ height = 0
    /\ chain = <<>>

connect_block(block, leaves) ==
    /\ Accepts(block, leaves)
    /\ acc' = update_acc(process_proof(leaves, block).dels, block, height + 1).acc
    /\ height' = height + 1
    /\ chain' = Append(chain, block)

(* A rejected block changes nothing.                                       *)
Next ==
    /\ height < MaxHeight
    /\ \E block \in BlocksAt(height + 1) :
         \E leaves \in {TrueLeaves(block)} \cup OtherLeaves(block) : connect_block(block, leaves)

Spec == Init /\ [][Next]_vars

-----------------------------------------------------------------------------
(* Properties *)

(* The blocks accepted so far, and the accumulator as a set of leaves.     *)
TypeOK ==
    /\ height \in 0 .. MaxHeight
    /\ Len(chain) = height
    /\ \A l \in acc : l.height \in 1 .. height /\ l.script \in {"plain", "p2sh"} /\ l.value \in Nat

(* The coins of a chain, by definition: every output of its transactions   *)
(* that is spendable and that no transaction of the chain spends.          *)
Unspent ==
    LET spent == UNION {get_input_outpoints(chain[h]) : h \in DOMAIN chain}
        outputs(h) == UNION {{Leaf(chain[h][i], v, h, i = 1) : v \in Vouts(chain[h][i])}
                             : i \in DOMAIN chain[h]}
    IN  {l \in UNION {outputs(h) : h \in DOMAIN chain} :
            ~is_unspendable(l.script) /\ l.prev \notin spent}

(* After any blocks, with any leaf data served, the accumulator commits to *)
(* exactly the unspent spendable outputs of the chain (get_block_adds,     *)
(* process_proof, update_acc).                                             *)
AccIsUnspent == acc = Unspent

(* What it means that a block is valid after the chain, stated without the *)
(* order in which the code goes through it.                                *)
Valid(block) ==
    LET h == height + 1
        inputs == {<<i, k>> \in (2 .. Len(block)) \X (1 .. 3) : k \in DOMAIN block[i].ins}
        prev(p) == block[p[1]].ins[p[2]].prev
        before(i) == UNION {{Leaf(block[j], v, h, j = 1) : v \in Vouts(block[j])} : j \in 1 .. i - 1}
        coins(p) == {l \in Unspent \cup before(p[1]) : l.prev = prev(p)}
        time(l) == IF l.height = h THEN block_lock_time_cutoff(h).value ELSE Mtp[l.height - 1]
        value(p) == LET l == CHOOSE l \in coins(p) : TRUE IN l.value
        in_value(i) == MapThenSumSet(value, {p \in inputs : p[1] = i})
        spends == 2 .. Len(block)
    IN  /\ \A i \in DOMAIN block : is_final_transaction(block[i], h)
        /\ \A i \in spends : block[i].ins # <<>> /\ block[i].outs # <<>>
        /\ \A p, q \in inputs : p # q => prev(p) # prev(q)
        /\ \A p \in inputs :
             /\ prev(p) \notin Bip30
             /\ \E l \in coins(p) :
                  /\ l.script # "return"
                  /\ l.cb => h - l.height >= COINBASE_MATURITY
                  /\ (block[p[1]].v2 /\ h >= csv_activation_height) =>
                       LET seq == block[p[1]].ins[p[2]].seq
                       IN  /\ seq.kind = "blocks" => h - l.height >= seq.v
                           /\ seq.kind = "time" =>
                                Mtp[h - 1] - time(l) >= seq.v * GRANULARITY
        /\ \A i \in spends : OutValue(block[i]) <= in_value(i) /\ in_value(i) <= MAX_MONEY
        /\ OutValue(block[1]) <=
             get_subsidy(h) + MapThenSumSet(LAMBDA i : in_value(i) - OutValue(block[i]), spends)
        /\ MapThenSumSet(LAMBDA i : block[i].sig, DOMAIN block)
             + Cardinality({p \in inputs : \E l \in coins(p) : l.script = "p2sh"})
               <= MAX_BLOCK_SIGOPS_COST

(* A block served with its true leaves is connected exactly when it is     *)
(* valid: no valid block is refused, so the node cannot be left behind     *)
(* (verify_block_transactions, verify_transaction, process_proof).         *)
ValidIsAccepted ==
    height < MaxHeight =>
        \A block \in BlocksAt(height + 1) : Valid(block) => Accepts(block, TrueLeaves(block))

(* No leaf data makes an invalid block pass, the leaves of another coin,   *)
(* height or amount and missing leaves included: what the unauthenticated  *)
(* leaves say is either proved by the accumulator or not used.             *)
AcceptedIsValid ==
    height < MaxHeight =>
        \A block \in BlocksAt(height + 1) :
            \A leaves \in {TrueLeaves(block)} \cup OtherLeaves(block) :
                Accepts(block, leaves) => Valid(block)

(* The coins in existence never exceed what the blocks were allowed to     *)
(* create, and max_supply_at_height is exactly that sum, the bound         *)
(* SwiftSync compares its total with.                                      *)
SupplyBound ==
    /\ MapThenSumSet(LAMBDA l : l.value, acc) <= max_supply_at_height(height)
    /\ \A h \in 0 .. subsidy_halving_interval * (MAX_SUBSIDY_HALVINGS + 1) :
         max_supply_at_height(h) = MapThenSumSet(get_subsidy, 1 .. h)
=============================================================================
