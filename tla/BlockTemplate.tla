--------------------------- MODULE BlockTemplate ----------------------------
(* The block template of floresta-mempool: transactions are taken in the      *)
(* arbitrary order of the map, each with what it depends on before it.        *)
EXTENDS Mempool, SequencesExt

CONSTANTS Weight, max_block_weight

\* the dependencies in the order of the inputs, one entry for each of those
Depends(t) == SelectSeq(Inputs[t], LAMBDA o : o[1] \in transactions[t].depends)

\* mutant of add_transaction_to_block: dependencies are added after
RECURSIVE AddBefore(_, _)
AddBefore(txs, t) ==
    IF t \in ToSet(txs) THEN txs
    ELSE FoldLeft(LAMBDA acc, o : AddBefore(acc, o[1]), Append(txs, t), Depends(t))

RECURSIVE add_transaction_to_block(_, _)
add_transaction_to_block(txs, t) ==
    IF t \in ToSet(txs) THEN txs
    ELSE Append(FoldLeft(LAMBDA acc, o : add_transaction_to_block(acc, o[1]), txs, Depends(t)), t)

RECURSIVE Fill(_, _, _)
Fill(txs, size, order) ==
    IF order = <<>> \/ size + Weight[Head(order)] > max_block_weight THEN txs
    ELSE IF Head(order) \in ToSet(txs) THEN Fill(txs, size, Tail(order))
    ELSE Fill(add_transaction_to_block(txs, Head(order)),
              size + Weight[Head(order)], Tail(order))

get_block_template(order) == Fill(<<>>, 0, order)

Templates == {get_block_template(order) : order \in SetToSeqs(Held)}

----------------------------------------------------------------------------
(* Whatever the iteration order, a template holds a transaction once and      *)
(* after everything it depends on (get_block_template)                        *)
TemplateOrdered ==
    \A b \in Templates :
        /\ IsInjective(b)
        /\ \A i \in DOMAIN b : transactions[b[i]].depends \subseteq {b[k] : k \in 1..i - 1}

(* get_block_template documents "as many transactions as we can fit into a    *)
(* block (up to max_block_weight)"; the dependencies it pulls in are not      *)
(* counted                                                                    *)
TemplateFits ==
    \A b \in Templates : FoldLeft(LAMBDA s, t : s + Weight[t], 0, b) <= max_block_weight
=============================================================================
