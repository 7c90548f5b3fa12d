------------------------------ MODULE TxRelay ------------------------------
(***************************************************************************)
(* The transaction manager together with the Bitcoin peers it relays to   *)
(* and the channel between them: tick's INV messages, the peers' getdata  *)
(* replies, and process_bitcoin_network_message, which answers a getdata  *)
(* with Tx messages (src/transaction_manager.rs:125-198).                  *)
(*                                                                         *)
(* The channel is a set of messages in flight, delivered in any order.    *)
(* Channel::send may fail, and the manager ignores the failure (.ok()):   *)
(* when SendMayFail holds, any of a step's sends may be lost at the send. *)
(* A peer is an honest Bitcoin node: it asks with getdata for the         *)
(* advertised txids it does not hold yet, and keeps a transaction it      *)
(* receives.                                                               *)
(***************************************************************************)
EXTENDS TransactionManager

CONSTANT SendMayFail   \* whether Channel::send may report a failure

ASSUME RelayAssumption == SendMayFail \in BOOLEAN

VARIABLES
    net,       \* the messages in flight
    peerHas    \* peerHas[A]: the transactions peer A holds

relayVars == <<vars, net, peerHas>>

\* NetworkMessage::Inv, GetData and Tx, addressed to or from a peer; an
\* inventory is a non-empty set of txids (Tx names the one it carries).
Msg == [type : {"inv", "getdata", "tx"}, peer : Peer, txids : (SUBSET Txid) \ {{}}]

RelayTypeOK ==
    /\ TypeOK
    /\ net \subseteq Msg
    /\ peerHas \in [Peer -> SUBSET Txid]

\* A Command sent through the channel with address Some(A).
Command(type, A, S) == [type |-> type, peer |-> A, txids |-> S]

\* The sends of a step that the channel may drop.
MayFail(S) == IF SendMayFail THEN SUBSET S ELSE {{}}

\* The txids of the inventory advertise_txids builds for A.
InvSet(A) == {InventoryFor(A)[i] : i \in 1..Len(InventoryFor(A))}

\* Mutant of InvPeers: the `if inventory.is_empty() { continue; }` dropped.
InvPeersNoEmptyCheck == connections

\* The peers advertise_txids sends an INV to: those whose inventory is not
\* empty (an empty one is skipped by the `continue`).
InvPeers == {A \in connections : InvSet(A) # {}}

-----------------------------------------------------------------------------
RelayInit ==
    /\ Init
    /\ net = {}
    /\ peerHas = [A \in Peer |-> {}]

\* tick, with the INV of each peer handed to the channel (lines 158-163);
\* the advertised marks of TransactionManager's Tick are set whether or
\* not the send succeeds.
RelayTick ==
    /\ Tick
    /\ \E failed \in MayFail(InvPeers) :
          net' = net \cup {Command("inv", A, InvSet(A)) : A \in InvPeers \ failed}
    /\ UNCHANGED peerHas

\* The calls of the system component and the environment leave the
\* channel and the peers alone.
RelayOther ==
    /\ \/ SendTransactionStep
       \/ MakeIdle
       \/ AdvanceClock
       \/ ChangeConnections
    /\ UNCHANGED <<net, peerHas>>

\* The txids process_bitcoin_network_message answers for a getdata: none
\* when the inventory is longer than MAXIMUM_TRANSACTION_PER_INV (the
\* InvalidMessage error), else those still cached.
Served(m) == IF Cardinality(m.txids) > MaxInv THEN {} ELSE m.txids \cap Cached

\* Mutant of ProcessGetData: the handler returns after the first Tx it
\* sends (a `return` inside the loop over the inventory).
ProcessGetDataFirstOnly(m) ==
    /\ m \in net
    /\ m.type = "getdata"
    /\ \E t \in Served(m) \cup {{}} :
          net' = (net \ {m}) \cup (IF t = {} THEN {} ELSE {Command("tx", m.peer, {t})})
    /\ UNCHANGED <<vars, peerHas>>

\* Mutant of ProcessGetData: the match is on the wrong message variant, so
\* a getdata is consumed and nothing is sent.
ProcessGetDataWrongVariant(m) ==
    /\ m \in net
    /\ m.type = "getdata"
    /\ net' = net \ {m}
    /\ UNCHANGED <<vars, peerHas>>

\* process_bitcoin_network_message(channel, A, GetData(inventory)): one Tx
\* to A for each requested txid still cached.  The cache is only read.
ProcessGetData(m) ==
    /\ m \in net
    /\ m.type = "getdata"
    /\ \E failed \in MayFail(Served(m)) :
          net' = (net \ {m}) \cup {Command("tx", m.peer, {t}) : t \in Served(m) \ failed}
    /\ UNCHANGED <<vars, peerHas>>

\* A peer receives an INV and asks for the txids it does not hold.
PeerRequest(m) ==
    /\ m \in net
    /\ m.type = "inv"
    /\ LET want == m.txids \ peerHas[m.peer] IN
       net' = (net \ {m}) \cup (IF want = {} THEN {} ELSE {Command("getdata", m.peer, want)})
    /\ UNCHANGED <<vars, peerHas>>

\* A peer receives a Tx and keeps the transaction.
PeerReceiveTx(m) ==
    /\ m \in net
    /\ m.type = "tx"
    /\ net' = net \ {m}
    /\ peerHas' = [peerHas EXCEPT ![m.peer] = @ \cup m.txids]
    /\ UNCHANGED vars

RelayNext ==
    \/ RelayTick
    \/ RelayOther
    \/ \E m \in net : ProcessGetData(m)
    \/ \E m \in net : PeerRequest(m)
    \/ \E m \in net : PeerReceiveTx(m)

\* tick is called periodically; the adapter handles every message a peer
\* sends it; a live peer answers every INV and takes every Tx; the channel
\* delivers what it accepted.  The clock, the system component and the
\* connections are under no obligation.
RelaySpec ==
    /\ RelayInit
    /\ [][RelayNext]_relayVars
    /\ WF_relayVars(RelayTick)
    /\ \A m \in Msg : /\ WF_relayVars(ProcessGetData(m))
                      /\ WF_relayVars(PeerRequest(m))
                      /\ WF_relayVars(PeerReceiveTx(m))

-----------------------------------------------------------------------------
(* Properties.                                                             *)

\* Some message about t to or from peer A is in flight.
InFlight(A, t) == \E m \in net : m.peer = A /\ t \in m.txids

\* What the advertised set stands for.  A peer recorded as advertised for
\* a cached txid holds the transaction, or an INV, getdata or Tx about it
\* is still on its way: advertise_txids never sends a second INV to that
\* peer, so nothing else brings it the transaction.  spec.md (section 7)
\* says a swallowed send failure is retried by the next tick.
InvAccountedFor ==
    \A t \in Cached, A \in Peer :
        A \in advertised[t] => (t \in peerHas[A] \/ InFlight(A, t))

\* End to end: a cached transaction reaches every peer that stays
\* connected, unless it leaves the cache first.
EventuallyRelayed ==
    \A t \in Txid, A \in Peer :
        (t \in Cached /\ A \in connections)
            ~> (t \in peerHas[A] \/ t \notin Cached \/ A \notin connections)

=============================================================================
