------------------------------- MODULE Merkle -------------------------------
(***************************************************************************)
(* The transaction Merkle tree of a block (floresta-chain merkle.rs) and   *)
(* the inclusion proofs the wallet keeps (floresta-watch-only merkle.rs).  *)
(* SHA256d is taken as free of collisions: the hash of a pair is the pair, *)
(* the hash of a transaction is a one-element tuple.  The list of a block  *)
(* grows one transaction at a time; the transactions may repeat.           *)
(***************************************************************************)
EXTENDS Integers, Sequences, SequencesExt

CONSTANTS
    Txids,          \* the transaction hashes, one-element tuples
    MaxTxs          \* bound on the transactions of a block

VARIABLE txids      \* the transactions of the block, in order

parent_hash(left, right) == <<left, right>>

-----------------------------------------------------------------------------
(* Roots *)

reduce_level(level) ==
    [i \in 1 .. (Len(level) + 1) \div 2 |->
        parent_hash(level[2 * i - 1], level[IF 2 * i <= Len(level) THEN 2 * i ELSE 2 * i - 1])]

EqualSiblings(level) == \E i \in 1 .. Len(level) \div 2 : level[2 * i - 1] = level[2 * i]

RECURSIVE RootOf(_, _)
RootOf(level, mutated) ==
    IF Len(level) = 1 THEN [root |-> level[1], mutated |-> mutated]
    ELSE RootOf(reduce_level(level), mutated \/ EqualSiblings(level))

calculate_root(list) == RootOf(list, FALSE)

(* check_merkle_root: the header commits to the root and nothing repeats.  *)
check_merkle_root(list, committed) ==
    LET r == calculate_root(list) IN ~r.mutated /\ r.root = committed

-----------------------------------------------------------------------------
(* Branches *)

(* position ^ 1 and position >> 1, with positions counted from zero.       *)
SiblingOf(position) == IF position % 2 = 0 THEN position + 1 ELSE position - 1
ParentOf(position) == position \div 2

Sibling(level, position) ==
    IF SiblingOf(position) < Len(level) THEN level[SiblingOf(position) + 1] ELSE level[position + 1]

RECURSIVE BranchOf(_, _)
BranchOf(level, position) ==
    IF Len(level) = 1 THEN <<>>
    ELSE <<Sibling(level, position)>> \o BranchOf(reduce_level(level), ParentOf(position))

calculate_branch(list, position) == BranchOf(list, position)

from_block_hashes(list, position) ==
    [target |-> list[position + 1], pos |-> position, hashes |-> calculate_branch(list, position)]

verify(proof, root) ==
    LET Step(s, hash) ==
            [computed |-> IF s.pos % 2 = 0 THEN parent_hash(s.computed, hash)
                                           ELSE parent_hash(hash, s.computed),
             pos |-> ParentOf(s.pos)]
    IN  FoldLeft(Step, [computed |-> proof.target, pos |-> proof.pos], proof.hashes).computed = root

-----------------------------------------------------------------------------
Init == txids \in {<<t>> : t \in Txids}
Next == Len(txids) < MaxTxs /\ \E t \in Txids : txids' = Append(txids, t)
Spec == Init /\ [][Next]_txids

-----------------------------------------------------------------------------
(* Properties *)

(* A block is a list of at most MaxTxs transactions.                       *)
TypeOK == txids \in UNION {[1 .. n -> Txids] : n \in 1 .. MaxTxs}

Lists == UNION {[1 .. n -> Txids] : n \in 1 .. MaxTxs}
Roots == [list \in Lists |-> calculate_root(list)]

(* A root stands for one list: a different list with the root a header     *)
(* commits to is refused, however much of it repeats and at whatever level *)
(* (the mutation of CVE-2012-2459, calculate_root).                        *)
RootFixesList ==
    \A list \in Lists :
        (Roots[list].root = Roots[txids].root /\ ~Roots[list].mutated /\ ~Roots[txids].mutated)
            => list = txids

(* No list without a repeated transaction is taken for a mutation, the     *)
(* copies made for odd levels included.                                    *)
DistinctIsNotMutated ==
    (\A i, j \in DOMAIN txids : txids[i] = txids[j] => i = j) => ~calculate_root(txids).mutated

(* The proof made for a position verifies against the root of the block,   *)
(* and at no other position unless the same transaction is there or is     *)
(* copied there (calculate_branch, MerkleProof::verify).                   *)
BranchVerifies ==
    \A p \in 0 .. Len(txids) - 1 :
        LET proof == from_block_hashes(txids, p)
            root == calculate_root(txids).root
        IN  /\ verify(proof, root)
            /\ \A q \in 0 .. Len(txids) - 1 :
                 txids[q + 1] # txids[p + 1] => ~verify([proof EXCEPT !.target = txids[q + 1]], root)
            /\ \A q \in 0 .. Len(txids) - 1 :
                 verify([proof EXCEPT !.pos = q], root) => txids[q + 1] = txids[p + 1]
=============================================================================
