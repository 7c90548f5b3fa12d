------------------------------ MODULE MC_TxRelay ------------------------------
(* TxRelay on two transactions and one peer, a cache of two entries and   *)
(* a timeout of one clock unit.                                            *)
EXTENDS TxRelay, TLC

CONSTANTS t1, t2, pa

MCTxid == {t1, t2}
MCPeer == {pa}

=============================================================================
