------------------------- MODULE MC_TransactionManager -------------------------
(* TransactionManager on three transactions and two peers, a cache of     *)
(* three entries and a timeout of one clock unit.                          *)
EXTENDS TransactionManager, TLC

CONSTANTS t1, t2, t3, pa, pb

MCTxid == {t1, t2, t3}
MCPeer == {pa, pb}

=============================================================================
