------------------------------ MODULE MCDaemon ------------------------------
EXTENDS Daemon
\* a transaction of the second assumed block is invalid
BadTx == <<"valid", "tx">>
Ids == [r \in RpcRequests |-> r]
=============================================================================
