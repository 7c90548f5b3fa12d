------------------------------ MODULE MC_TxClock ------------------------------
(* TxClock on two transactions and one peer, a cache of two entries, a    *)
(* timeout of one clock unit and three units of time.                      *)
EXTENDS TxClock, TLC

CONSTANTS t1, t2, pa

MCTxid == {t1, t2}
MCPeer == {pa}

=============================================================================
