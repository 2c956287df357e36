--------------------------- MODULE MCTransactionPool ---------------------------
EXTENDS TransactionPool

Tx(s, n, f) == [sender |-> s, nonce |-> n, fee |-> f]

MCTransactions == {Tx("a", 0, 2), Tx("a", 0, 4), Tx("a", 1, 3), Tx("b", 1, 1)}
MCMayFail == {Tx("a", 1, 3)}
================================================================================
