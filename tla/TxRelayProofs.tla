---------------------------- MODULE TxRelayProofs ----------------------------
(***************************************************************************)
(* Proofs about the relay of transactions to the Bitcoin peers: the types *)
(* of the channel and of the peers for every instance, and, when          *)
(* Channel::send never fails, that a peer in a txid's advertised set      *)
(* holds the transaction or has a message about it on its way (the        *)
(* invariant InvAccountedFor of run tm_relay).                             *)
(***************************************************************************)
EXTENDS TxRelay, TransactionManagerProofs, TLAPS

\* Every message in flight names a finite set of at most TX_CACHE_SIZE
\* txids: an INV carries at most the cache, a getdata a part of an INV,
\* a Tx one txid.  So no getdata of this adapter's peers is over
\* MAXIMUM_TRANSACTION_PER_INV and rejected.
MessagesFit ==
    \A m \in net : IsFiniteSet(m.txids) /\ Cardinality(m.txids) <= TxCacheSize

\* The types, with the manager's invariant.
RelayTypeInv ==
    /\ TMInv
    /\ net \subseteq Msg
    /\ peerHas \in [Peer -> SUBSET Txid]

LEMMA RelayInitTypeInv ==
    RelayInit => RelayTypeInv
BY InitTMInv DEF RelayInit, RelayTypeInv

\* Every step keeps the types, whether or not sends may fail.
LEMMA RelayNextTypeInv ==
    RelayTypeInv /\ [RelayNext]_relayVars => RelayTypeInv'
<1> SUFFICES ASSUME RelayTypeInv, [RelayNext]_relayVars PROVE RelayTypeInv'
  OBVIOUS
<1>1. TMInv /\ net \subseteq Msg /\ peerHas \in [Peer -> SUBSET Txid]
  BY DEF RelayTypeInv
<1>2. TypeOK
  BY <1>1 DEF TMInv
<1>3. CASE RelayTick
  <2>1. TMInv'
    BY <1>1, <1>3, NextTMInv DEF RelayTick, Next
  <2>2. PICK failed \in MayFail(InvPeers) :
           net' = net \cup {Command("inv", A, InvSet(A)) : A \in InvPeers \ failed}
    BY <1>3 DEF RelayTick
  <2>3. \A A \in InvPeers : Command("inv", A, InvSet(A)) \in Msg
    <3> SUFFICES ASSUME NEW A \in InvPeers PROVE Command("inv", A, InvSet(A)) \in Msg
      OBVIOUS
    <3>1. A \in Peer /\ InvSet(A) # {}
      BY <1>2 DEF InvPeers, TypeOK
    <3>2. InvSet(A) \subseteq Txid
      BY <1>2, InventoryRange DEF InvSet, Cached
    <3>3. QED
      BY <3>1, <3>2 DEF Command, Msg
  <2>4. QED
    BY <1>1, <1>3, <2>1, <2>2, <2>3 DEF RelayTick, RelayTypeInv
<1>4. CASE RelayOther
  BY <1>1, <1>4, NextTMInv DEF RelayOther, Next, RelayTypeInv
<1>5. ASSUME NEW m \in net, ProcessGetData(m)
      PROVE  RelayTypeInv'
  <2>0. TMInv'
    BY <1>1, <1>5, NextTMInv DEF ProcessGetData
  <2>1. m \in Msg
    BY <1>1
  <2>2. PICK failed \in MayFail(Served(m)) :
           net' = (net \ {m}) \cup {Command("tx", m.peer, {t}) : t \in Served(m) \ failed}
    BY <1>5 DEF ProcessGetData
  <2>3. Served(m) \subseteq m.txids /\ m.txids \subseteq Txid
    BY <2>1 DEF Served, Msg
  <2>4. \A t \in Served(m) : Command("tx", m.peer, {t}) \in Msg
    BY <2>1, <2>3 DEF Command, Msg
  <2>5. QED
    BY <1>1, <1>5, <2>0, <2>2, <2>4 DEF ProcessGetData, RelayTypeInv
<1>6. ASSUME NEW m \in net, PeerRequest(m)
      PROVE  RelayTypeInv'
  <2>0. TMInv'
    BY <1>1, <1>6, NextTMInv DEF PeerRequest
  <2>1. m \in Msg
    BY <1>1
  <2> DEFINE want == m.txids \ peerHas[m.peer]
  <2>2. net' = (net \ {m}) \cup (IF want = {} THEN {} ELSE {Command("getdata", m.peer, want)})
    BY <1>6 DEF PeerRequest
  <2>3. want # {} => Command("getdata", m.peer, want) \in Msg
    BY <2>1 DEF Command, Msg
  <2>4. QED
    BY <1>1, <1>6, <2>0, <2>2, <2>3 DEF PeerRequest, RelayTypeInv
<1>7. ASSUME NEW m \in net, PeerReceiveTx(m)
      PROVE  RelayTypeInv'
  <2>0. TMInv'
    BY <1>1, <1>7, NextTMInv DEF PeerReceiveTx
  <2>1. m \in Msg
    BY <1>1
  <2>2. QED
    BY <1>1, <1>7, <2>0, <2>1 DEF PeerReceiveTx, RelayTypeInv, Msg
<1>8. CASE UNCHANGED relayVars
  BY <1>1, <1>8, NextTMInv DEF relayVars, RelayTypeInv
<1>9. QED
  BY <1>3, <1>4, <1>5, <1>6, <1>7, <1>8 DEF RelayNext

\* The channel holds only NetworkMessage Inv, GetData and Tx commands to
\* the peers, with non-empty inventories, and the peers only transactions,
\* whether or not Channel::send may fail.
THEOREM RelayTypeCorrect == RelaySpec => []RelayTypeOK
<1>1. RelayInit => RelayTypeInv
  BY RelayInitTypeInv
<1>2. RelayTypeInv /\ [RelayNext]_relayVars => RelayTypeInv'
  BY RelayNextTypeInv
<1>3. RelayTypeInv => RelayTypeOK
  BY DEF RelayTypeInv, TMInv, RelayTypeOK
<1>4. QED
  BY <1>1, <1>2, <1>3, PTL DEF RelaySpec

-----------------------------------------------------------------------------
(* What the advertised sets stand for, when no send fails.                 *)

\* Every step keeps the messages within TX_CACHE_SIZE txids.
LEMMA MessagesFitStep ==
    ASSUME RelayTypeInv, MessagesFit, [RelayNext]_relayVars
    PROVE  MessagesFit'
<1>1. TMInv /\ TypeOK /\ net \subseteq Msg
  BY DEF RelayTypeInv, TMInv
<1>2. CASE RelayTick
  <2>1. PICK failed \in MayFail(InvPeers) :
           net' = net \cup {Command("inv", A, InvSet(A)) : A \in InvPeers \ failed}
    BY <1>2 DEF RelayTick
  <2>2. ASSUME NEW A
        PROVE  IsFiniteSet(InvSet(A)) /\ Cardinality(InvSet(A)) <= TxCacheSize
    <3>1. transactions \in Seq(Txid) /\ Len(transactions) <= TxCacheSize
      BY <1>1 DEF TypeOK, TMInv, CacheBounded
    <3>2. InventoryFor(A) \in Seq(Txid) /\ Len(InventoryFor(A)) <= Len(transactions)
      BY <3>1, FilterProperties DEF InventoryFor
    <3>3. IsFiniteSet(InvSet(A)) /\ Cardinality(InvSet(A)) <= Len(InventoryFor(A))
      BY <3>2, SeqRangeFinite DEF InvSet
    <3>4. Cardinality(InvSet(A)) \in Nat
      BY <3>3, FS_CardinalityType
    <3>5. QED
      BY <3>1, <3>2, <3>3, <3>4, TxConstantsAssumption
  <2>3. QED
    BY <2>1, <2>2 DEF MessagesFit, Command
<1>3. CASE RelayOther
  BY <1>3 DEF RelayOther, MessagesFit
<1>4. ASSUME NEW m \in net, ProcessGetData(m)
      PROVE  MessagesFit'
  <2>1. PICK failed \in MayFail(Served(m)) :
           net' = (net \ {m}) \cup {Command("tx", m.peer, {t}) : t \in Served(m) \ failed}
    BY <1>4 DEF ProcessGetData
  <2>2. \A t : IsFiniteSet({t}) /\ Cardinality({t}) = 1
    BY FS_Singleton
  <2>3. SUFFICES ASSUME NEW m2 \in net'
                 PROVE  IsFiniteSet(m2.txids) /\ Cardinality(m2.txids) <= TxCacheSize
    BY DEF MessagesFit
  <2>4. CASE m2 \in net
    BY <2>4 DEF MessagesFit
  <2>5. CASE m2 \notin net
    <3>1. PICK t \in Served(m) \ failed : m2 = Command("tx", m.peer, {t})
      BY <2>1, <2>5
    <3>2. m2.txids = {t}
      BY <3>1 DEF Command
    <3>3. IsFiniteSet(m2.txids) /\ Cardinality(m2.txids) = 1
      BY <2>2, <3>2
    <3>4. QED
      BY <3>3, TxConstantsAssumption
  <2>6. QED
    BY <2>4, <2>5
<1>5. ASSUME NEW m \in net, PeerRequest(m)
      PROVE  MessagesFit'
  <2> DEFINE want == m.txids \ peerHas[m.peer]
  <2>1. net' = (net \ {m}) \cup (IF want = {} THEN {} ELSE {Command("getdata", m.peer, want)})
    BY <1>5 DEF PeerRequest
  <2>2. IsFiniteSet(m.txids) /\ Cardinality(m.txids) <= TxCacheSize
    BY DEF MessagesFit
  <2>3. IsFiniteSet(want) /\ Cardinality(want) <= Cardinality(m.txids)
    BY <2>2, FS_Subset
  <2>4. SUFFICES ASSUME NEW m2 \in net'
                 PROVE  IsFiniteSet(m2.txids) /\ Cardinality(m2.txids) <= TxCacheSize
    BY DEF MessagesFit
  <2>5. CASE m2 \in net
    BY <2>5 DEF MessagesFit
  <2>6. CASE m2 \notin net
    <3>1. m2.txids = want
      BY <2>1, <2>6 DEF Command
    <3>2. Cardinality(want) \in Nat /\ Cardinality(m.txids) \in Nat
      BY <2>2, <2>3, FS_CardinalityType
    <3>3. IsFiniteSet(m2.txids) /\ Cardinality(m2.txids) = Cardinality(want)
      BY <2>3, <3>1
    <3>4. QED
      BY <2>2, <2>3, <3>2, <3>3, TxConstantsAssumption
  <2>7. QED
    BY <2>5, <2>6
<1>6. ASSUME NEW m \in net, PeerReceiveTx(m)
      PROVE  MessagesFit'
  BY <1>6 DEF PeerReceiveTx, MessagesFit
<1>7. CASE UNCHANGED relayVars
  BY <1>7 DEF relayVars, MessagesFit
<1>8. QED
  BY <1>2, <1>3, <1>4, <1>5, <1>6, <1>7 DEF RelayNext

\* With no send failing, every step keeps what the advertised sets stand
\* for: a peer marked for a cached txid holds it or has a message about it
\* on its way.
LEMMA InvAccountedForStep ==
    ASSUME ~SendMayFail, RelayTypeInv, MessagesFit, InvAccountedFor,
           [RelayNext]_relayVars
    PROVE  InvAccountedFor'
<1>1. TMInv /\ TypeOK /\ net \subseteq Msg /\ peerHas \in [Peer -> SUBSET Txid]
  BY DEF RelayTypeInv, TMInv
<1>2. \A S : MayFail(S) = {{}}
  BY DEF MayFail
<1>3. Cached \subseteq Txid
  BY <1>1 DEF TypeOK, Cached
<1>4. CASE RelayTick
  <2>1. net' = net \cup {Command("inv", A, InvSet(A)) : A \in InvPeers}
    <3>1. PICK failed \in MayFail(InvPeers) :
             net' = net \cup {Command("inv", A, InvSet(A)) : A \in InvPeers \ failed}
      BY <1>4 DEF RelayTick
    <3>2. failed = {}
      BY <1>2, <3>1
    <3>3. QED
      BY <3>1, <3>2
  <2>2. Cached' \subseteq Cached
    BY <1>1, <1>4, TickShrinksCache DEF RelayTick
  <2>3. /\ peerHas' = peerHas
        /\ \A u \in Cached : advertised'[u] = advertised[u] \cup connections
    BY <1>3, <1>4 DEF RelayTick, Tick
  <2>4. SUFFICES ASSUME NEW t \in Cached', NEW A \in Peer, A \in advertised'[t]
                 PROVE  t \in peerHas'[A] \/ InFlight(A, t)'
    BY DEF InvAccountedFor
  <2>5. t \in Cached /\ t \in Txid
    BY <1>3, <2>2
  <2>6. CASE A \in advertised[t]
    <3>1. t \in peerHas[A] \/ InFlight(A, t)
      BY <2>5, <2>6 DEF InvAccountedFor
    <3>2. QED
      BY <2>1, <2>3, <3>1 DEF InFlight
  <2>7. CASE A \notin advertised[t]
    <3>1. A \in connections
      BY <2>3, <2>4, <2>5, <2>7
    <3>2. t \in InvSet(A)
      BY <1>1, <2>5, <2>7, InventoryRange DEF InvSet
    <3>3. A \in InvPeers
      BY <3>1, <3>2 DEF InvPeers
    <3>4. Command("inv", A, InvSet(A)) \in net'
      BY <2>1, <3>3
    <3>5. QED
      BY <3>2, <3>4 DEF InFlight, Command
  <2>8. QED
    BY <2>6, <2>7
<1>5. CASE RelayOther
  <2>1. UNCHANGED <<net, peerHas>>
    BY <1>5 DEF RelayOther
  <2>2. \A u \in Cached' : \/ u \in Cached /\ advertised'[u] = advertised[u]
                           \/ advertised'[u] = {}
    <3>1. CASE SendTransactionStep
      BY <1>1, <3>1, SendFreshOrKept DEF SendTransactionStep
    <3>2. CASE MakeIdle
      <4>1. Cached' = {}
        BY <3>2 DEF MakeIdle, Cached
      <4>2. QED
        BY <4>1
    <3>3. CASE AdvanceClock
      BY <3>3 DEF AdvanceClock, Cached
    <3>4. CASE ChangeConnections
      BY <3>4 DEF ChangeConnections, Cached
    <3>5. QED
      BY <1>5, <3>1, <3>2, <3>3, <3>4 DEF RelayOther
  <2>3. QED
    BY <2>1, <2>2 DEF InvAccountedFor, InFlight
<1>6. ASSUME NEW m \in net, ProcessGetData(m)
      PROVE  InvAccountedFor'
  <2>1. net' = (net \ {m}) \cup {Command("tx", m.peer, {t}) : t \in Served(m)}
    <3>1. PICK failed \in MayFail(Served(m)) :
             net' = (net \ {m}) \cup {Command("tx", m.peer, {t}) : t \in Served(m) \ failed}
      BY <1>6 DEF ProcessGetData
    <3>2. failed = {}
      BY <1>2, <3>1
    <3>3. QED
      BY <3>1, <3>2
  <2>2. Served(m) = m.txids \cap Cached
    <3>1. IsFiniteSet(m.txids) /\ Cardinality(m.txids) <= TxCacheSize
      BY DEF MessagesFit
    <3>2. Cardinality(m.txids) \in Nat
      BY <3>1, FS_CardinalityType
    <3>3. ~(Cardinality(m.txids) > MaxInv)
      BY <3>1, <3>2, TxConstantsAssumption
    <3>4. QED
      BY <3>3 DEF Served
  <2>3. UNCHANGED <<transactions, advertised, peerHas>>
    BY <1>6 DEF ProcessGetData, vars
  <2>4. SUFFICES ASSUME NEW t \in Cached', NEW A \in Peer, A \in advertised'[t]
                 PROVE  t \in peerHas'[A] \/ InFlight(A, t)'
    BY DEF InvAccountedFor
  <2>5. t \in Cached /\ A \in advertised[t]
    BY <2>3, <2>4 DEF Cached
  <2>6. CASE t \in peerHas[A]
    BY <2>3, <2>6
  <2>7. CASE \E m2 \in net : m2.peer = A /\ t \in m2.txids
    <3>1. PICK m2 \in net : m2.peer = A /\ t \in m2.txids
      BY <2>7
    <3>2. CASE m2 = m
      <4>1. t \in Served(m)
        BY <2>2, <2>5, <3>1, <3>2
      <4>2. Command("tx", A, {t}) \in net'
        BY <2>1, <3>1, <3>2, <4>1
      <4>3. QED
        BY <4>2 DEF InFlight, Command
    <3>3. CASE m2 # m
      BY <2>1, <3>1, <3>3 DEF InFlight
    <3>4. QED
      BY <3>2, <3>3
  <2>8. QED
    BY <2>5, <2>6, <2>7 DEF InvAccountedFor, InFlight
<1>7. ASSUME NEW m \in net, PeerRequest(m)
      PROVE  InvAccountedFor'
  <2> DEFINE want == m.txids \ peerHas[m.peer]
  <2>1. net' = (net \ {m}) \cup (IF want = {} THEN {} ELSE {Command("getdata", m.peer, want)})
    BY <1>7 DEF PeerRequest
  <2>2. UNCHANGED <<transactions, advertised, peerHas>>
    BY <1>7 DEF PeerRequest, vars
  <2>3. SUFFICES ASSUME NEW t \in Cached', NEW A \in Peer, A \in advertised'[t]
                 PROVE  t \in peerHas'[A] \/ InFlight(A, t)'
    BY DEF InvAccountedFor
  <2>4. t \in Cached /\ A \in advertised[t]
    BY <2>2, <2>3 DEF Cached
  <2>5. CASE t \in peerHas[A]
    BY <2>2, <2>5
  <2>6. CASE t \notin peerHas[A] /\ \E m2 \in net : m2.peer = A /\ t \in m2.txids
    <3>1. PICK m2 \in net : m2.peer = A /\ t \in m2.txids
      BY <2>6
    <3>2. CASE m2 = m
      <4>1. t \in want
        BY <2>6, <3>1, <3>2
      <4>2. Command("getdata", A, want) \in net'
        BY <2>1, <3>1, <3>2, <4>1
      <4>3. QED
        BY <4>1, <4>2 DEF InFlight, Command
    <3>3. CASE m2 # m
      BY <2>1, <3>1, <3>3 DEF InFlight
    <3>4. QED
      BY <3>2, <3>3
  <2>7. QED
    BY <2>4, <2>5, <2>6 DEF InvAccountedFor, InFlight
<1>8. ASSUME NEW m \in net, PeerReceiveTx(m)
      PROVE  InvAccountedFor'
  <2>1. /\ net' = net \ {m}
        /\ peerHas' = [peerHas EXCEPT ![m.peer] = @ \cup m.txids]
        /\ UNCHANGED <<transactions, advertised>>
    BY <1>8 DEF PeerReceiveTx, vars
  <2>2. m.peer \in Peer
    BY <1>1 DEF Msg
  <2>3. \A B \in Peer : peerHas[B] \subseteq peerHas'[B]
    BY <1>1, <2>1, <2>2
  <2>4. m.txids \subseteq peerHas'[m.peer]
    BY <1>1, <2>1, <2>2
  <2>5. SUFFICES ASSUME NEW t \in Cached', NEW A \in Peer, A \in advertised'[t]
                 PROVE  t \in peerHas'[A] \/ InFlight(A, t)'
    BY DEF InvAccountedFor
  <2>6. t \in peerHas[A] \/ \E m2 \in net : m2.peer = A /\ t \in m2.txids
    BY <2>1, <2>5 DEF Cached, InvAccountedFor, InFlight
  <2>7. QED
    BY <2>1, <2>3, <2>4, <2>6 DEF InFlight
<1>9. CASE UNCHANGED relayVars
  BY <1>9 DEF relayVars, vars, InvAccountedFor, InFlight, Cached
<1>10. QED
  BY <1>4, <1>5, <1>6, <1>7, <1>8, <1>9 DEF RelayNext

\* The inductive invariant: the types, the bound on the messages (so a
\* getdata is never rejected as too long) and the property itself.
RelayInv == RelayTypeInv /\ MessagesFit /\ InvAccountedFor

LEMMA RelayInitInv ==
    RelayInit => RelayInv
<1> SUFFICES ASSUME RelayInit PROVE RelayInv
  OBVIOUS
<1>1. RelayTypeInv
  BY RelayInitTypeInv
<1>2. Cached = {} /\ net = {}
  BY DEF RelayInit, Init, Cached
<1>3. QED
  BY <1>1, <1>2 DEF RelayInv, MessagesFit, InvAccountedFor

LEMMA RelayNextInv ==
    ASSUME ~SendMayFail
    PROVE  RelayInv /\ [RelayNext]_relayVars => RelayInv'
<1> SUFFICES ASSUME RelayInv, [RelayNext]_relayVars PROVE RelayInv'
  OBVIOUS
<1>1. RelayTypeInv /\ MessagesFit /\ InvAccountedFor
  BY DEF RelayInv
<1>2. RelayTypeInv'
  BY <1>1, RelayNextTypeInv
<1>3. MessagesFit'
  BY <1>1, MessagesFitStep
<1>4. InvAccountedFor'
  BY <1>1, InvAccountedForStep
<1>5. QED
  BY <1>2, <1>3, <1>4 DEF RelayInv

\* When Channel::send never fails, advertise_txids' marks are sound: a peer
\* in a cached txid's advertised set holds the transaction or has an INV,
\* getdata or Tx about it in flight, for every number of peers, txids and
\* cache size (run tm_send_failure shows it fails once a send may fail).
THEOREM ReliableSendsInvAccountedFor ==
    ASSUME ~SendMayFail
    PROVE  RelaySpec => []InvAccountedFor
<1>1. RelayInit => RelayInv
  BY RelayInitInv
<1>2. RelayInv /\ [RelayNext]_relayVars => RelayInv'
  BY RelayNextInv
<1>3. RelayInv => InvAccountedFor
  BY DEF RelayInv
<1>4. QED
  BY <1>1, <1>2, <1>3, PTL DEF RelaySpec

=============================================================================
