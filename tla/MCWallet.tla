------------------------------ MODULE MCWallet ------------------------------
EXTENDS WalletServices

CONSTANTS t1, t2, t3, d, a

\* block 1 pays the descriptor's first address and a; block 2 spends the first
\* with change to the same address and a payment to the second; block 3 spends
\* a's coin and pays the third
S(i) == ScriptAt(d, 1, i)
MCTxs ==
    t1 :> [ins |-> <<>>, outs |-> <<[script |-> S(0), value |-> 3], [script |-> a, value |-> 1]>>]
    @@ t2 :> [ins |-> << <<t1, 0>> >>,
              outs |-> <<[script |-> S(0), value |-> 1], [script |-> S(1), value |-> 2]>>]
    @@ t3 :> [ins |-> << <<t1, 1>> >>, outs |-> <<[script |-> S(2), value |-> 1]>>]
MCChain == << <<t1>>, <<t2>>, <<t3>> >>
MCPaths == d :> 1
MCDesc == <<d>>
=============================================================================
