------------------------------ MODULE Mempool ------------------------------
(* floresta-mempool: the transactions the node holds, how they are linked     *)
(* (parents a transaction depends on, children that spend it) and the size    *)
(* accounting. The block template is in BlockTemplate.                        *)
EXTENDS Integers, Sequences, FiniteSets, FiniteSetsExt, Functions

CONSTANTS
    Inputs,             \* Inputs[t]: the outpoints <<transaction, index>> that t spends, in order
    Size,               \* Size[t]
    Malformed,          \* transactions that fail the context-free consensus checks
    Mined,              \* the blocks that may be consumed: sequences of transactions
    max_mempool_size

VARIABLES
    transactions,       \* held transaction -> [depends, children, stale]
    mempool_size,
    last                \* what the last call answered

poolVars == <<transactions, mempool_size, last>>

Txs == DOMAIN Inputs
Held == DOMAIN transactions

(* Sizes are numbers, inputs and blocks are sequences.                        *)
ASSUME PoolAssumption ==
    /\ Size \in [Txs -> Nat]
    /\ max_mempool_size \in Nat
    /\ \A t \in Txs : Inputs[t] \in Seq(Range(Inputs[t]))
    /\ \A b \in Mined : b \in Seq(Range(b))

PoolInit == transactions = <<>> /\ mempool_size = 0 /\ last = "Ok"

is_already_spent(o) ==
    /\ o[1] \in Held
    /\ \E c \in transactions[o[1]].children :
           c \in Held /\ o \in Range(Inputs[c])

check_for_conflicts(t) ==
    IF ~IsInjective(Inputs[t]) THEN "DuplicatedInputs"
    ELSE IF \E o \in Range(Inputs[t]) : is_already_spent(o) THEN "ConflictingTransaction"
    ELSE "Ok"

\* the Vecs of parents and of children are only searched, walked to do the same for
\* each entry again, and cleared of all entries for one transaction: sets
find_mempool_depends(t) == {o[1] : o \in Range(Inputs[t])} \cap Held

Verdict(t) ==
    IF mempool_size + Size[t] > max_mempool_size THEN "FullMempool"
    ELSE IF t \in Malformed THEN "ConsensusValidation"
    ELSE check_for_conflicts(t)

Linked(t) ==
    [u \in Held \cup {t} |->
        IF u = t THEN [depends |-> find_mempool_depends(t), children |-> {}, stale |-> FALSE]
        ELSE [transactions[u] EXCEPT
                 !.children = IF u \in find_mempool_depends(t) THEN @ \cup {t} ELSE @]]

accept_to_mempool(t) ==
    IF t \in Held THEN last' = "Ok" /\ UNCHANGED <<transactions, mempool_size>>
    ELSE /\ last' = Verdict(t)
         /\ IF Verdict(t) # "Ok" THEN UNCHANGED <<transactions, mempool_size>>
            ELSE /\ transactions' = Linked(t)
                 /\ mempool_size' = mempool_size + Size[t]

\* mutant of Unlinked: the children go on depending on what left
UnlinkedOneWay(held, t) == [u \in DOMAIN held \ {t} |-> held[u]]

Unlinked(held, t) ==
    [u \in DOMAIN held \ {t} |->
        [held[u] EXCEPT !.depends = IF u \in held[t].children THEN @ \ {t} ELSE @]]

\* one transaction of a block leaves, if it is held
Without(m, t) ==
    IF t \in DOMAIN m.held THEN [held |-> Unlinked(m.held, t), size |-> m.size - Size[t]] ELSE m

\* the block's transactions leave one by one
consume_block(block) ==
    LET left[i \in 0..Len(block)] == IF i = 0 THEN [held |-> transactions, size |-> mempool_size]
                                     ELSE Without(left[i - 1], block[i])
    IN  /\ transactions' = left[Len(block)].held
        /\ mempool_size' = left[Len(block)].size
        /\ last' = "Ok"

\* one hour passes: every transaction held now is one that get_stale reports
Age == /\ \E t \in Held : ~transactions[t].stale
       /\ transactions' = [t \in Held |-> [transactions[t] EXCEPT !.stale = TRUE]]
       /\ UNCHANGED <<mempool_size, last>>

get_stale == {t \in Held : transactions[t].stale}

PoolNext == \/ \E t \in Txs : accept_to_mempool(t)
            \/ \E b \in Mined : consume_block(b)
            \/ Age

PoolSpec == PoolInit /\ [][PoolNext]_poolVars

----------------------------------------------------------------------------
(* Properties.                                                               *)

(* What is held are transactions with their links.                         *)
PoolTypeOK ==
    /\ Held \subseteq Txs
    /\ \A t \in Held : /\ transactions[t].depends \subseteq Txs
                       /\ transactions[t].children \subseteq Txs
                       /\ transactions[t].stale \in BOOLEAN
    /\ mempool_size \in Nat

(* The size the mempool keeps by hand through admissions, repeated            *)
(* submissions and blocks is the total of what it holds, and within its limit *)
(* (accept_to_mempool, consume_block)                                         *)
SizeIsTotal ==
    /\ mempool_size = SumFunctionOnSet(Size, Held)
    /\ mempool_size <= max_mempool_size

(* The two directions of a link agree: a dependency is held and lists the     *)
(* dependent as a child, so that a template never looks up a transaction that *)
(* has left (the unwrap of add_transaction_to_block)                          *)
LinksAgree ==
    \A t \in Held :
        /\ \A d \in transactions[t].depends : d \in Held /\ t \in transactions[d].children
        /\ \A c \in transactions[t].children \cap Held : t \in transactions[c].depends

(* Two children of a held transaction never spend the same output of it       *)
(* (check_for_conflicts)                                                      *)
ChildrenDoNotConflict ==
    \A t \in Held : \A c, d \in transactions[t].children \cap Held :
        c # d => ~\E o \in Range(Inputs[c]) \cap Range(Inputs[d]) : o[1] = t

(* The three together: what accept_to_mempool and consume_block keep, however *)
(* transactions come, are mined and come again                                *)
PoolConsistent == SizeIsTotal /\ LinksAgree /\ ChildrenDoNotConflict

(* accept_to_mempool documents that a transaction is "rejected if it          *)
(* conflicts with (spends an input already spent by) a transaction already    *)
(* held"; the check only sees inputs whose own transaction is held            *)
NoConflictsHeld ==
    \A t, u \in Held : t # u => Range(Inputs[t]) \cap Range(Inputs[u]) = {}
=============================================================================
