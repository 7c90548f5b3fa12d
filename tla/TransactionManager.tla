-------------------------- MODULE TransactionManager --------------------------
(***************************************************************************)
(* The transaction relay of src/transaction_manager.rs.  The               *)
(* LinkedHashMap<Txid, TransactionInfo> is split into the insertion-ordered *)
(* key sequence `transactions` and the fields of each TransactionInfo;     *)
(* entries of txids that are not cached mean nothing.  The transaction     *)
(* bytes are not modelled: a txid stands for its transaction.              *)
(*                                                                         *)
(* Every method takes &mut self, so each call is one atomic step.  The     *)
(* wall clock SystemTime::now() is the variable `now`; the peers the       *)
(* channel reports as available are `connections`, changed by the          *)
(* environment.  `told` is a history variable: how many INV messages       *)
(* naming a txid a peer has been sent since that txid was (re)inserted,    *)
(* capped at 2.                                                            *)
(***************************************************************************)
EXTENDS Naturals, Sequences, FiniteSets

CONSTANTS
    Txid,          \* the transactions the system component may submit
    Peer,          \* the addresses of Bitcoin peers
    TxCacheSize,   \* TX_CACHE_SIZE (250)
    MaxInv,        \* MAXIMUM_TRANSACTION_PER_INV (50_000)
    TimeoutPeriod, \* TX_CACHE_TIMEOUT_PERIOD_SECS (600), in clock units
    MaxTime        \* the last wall-clock value explored

\* The code's constants are positive and the cache is smaller than one INV
\* message (250 < 50_000): the inventory of one peer never fills up.
ASSUME TxConstantsAssumption ==
    /\ TxCacheSize \in Nat \ {0}
    /\ MaxInv \in Nat \ {0}
    /\ TxCacheSize < MaxInv
    /\ TimeoutPeriod \in Nat
    /\ MaxTime \in Nat

VARIABLES
    transactions,  \* the keys of `transactions`, in insertion order
    advertised,    \* advertised[t] = TransactionInfo.advertised
    timeoutAt,     \* timeoutAt[t]  = TransactionInfo.timeout_at
    now,           \* SystemTime::now()
    connections,   \* channel.available_connections()
    told           \* told[p][t]: INVs naming t sent to p (history)

vars == <<transactions, advertised, timeoutAt, now, connections, told>>

TypeOK ==
    /\ transactions \in Seq(Txid)
    /\ advertised \in [Txid -> SUBSET Peer]
    /\ timeoutAt \in [Txid -> Nat]
    /\ now \in 0..MaxTime
    /\ connections \subseteq Peer
    /\ told \in [Peer -> [Txid -> 0..2]]

Cached == {transactions[i] : i \in 1..Len(transactions)}

\* The elements of s that are in K, in the order of s: what Vec::retain
\* and LinkedHashMap::retain leave, and what a loop that pushes the
\* elements passing a test builds.  F[i] is the result for s[1..i].
Filter(s, K) ==
    LET F[i \in Nat] ==
            IF i = 0 THEN << >>
            ELSE F[i-1] \o (IF i <= Len(s) /\ s[i] \in K THEN << s[i] >> ELSE << >>)
    IN  F[Len(s)]

-----------------------------------------------------------------------------
(* advertise_txids, for one peer A of the connections.                     *)

\* Mutant of InventoryFor: the `!info.advertised.contains(&address)` test
\* dropped, so every cached txid is put in every inventory.
InventoryForAll(A) == transactions

\* The inventory the inner loop builds for A: the cached txids not yet
\* advertised to A, in insertion order.
InventoryFor(A) == Filter(transactions, {t \in Txid : A \notin advertised[t]})

\* The txids of the inventories that reach MaxInv entries: each such batch
\* is flushed to every available connection, A included.
FlushedFor(A) ==
    LET inv == InventoryFor(A)
        full == (Len(inv) \div MaxInv) * MaxInv
    IN  {inv[i] : i \in 1..full}

\* The number of INV messages naming t that peer p receives in one
\* advertise_txids: one if t is in p's own inventory (in a flushed batch
\* or in the remainder sent to p alone), plus one for every other peer
\* whose flushed batch holds t.
InvCount(p, t) ==
    (IF t \in {InventoryFor(p)[i] : i \in 1..Len(InventoryFor(p))} THEN 1 ELSE 0)
    + Cardinality({A \in connections \ {p} : t \in FlushedFor(A)})

CapAt2(n) == IF n > 2 THEN 2 ELSE n

\* Mutant of Reaped: the retain keeps every entry (reap never drops one).
ReapedNothing(s) == s

\* reap: retain the entries with timeout_at >= now, in order.
Reaped(s) == Filter(s, {t \in Txid : ~(timeoutAt[t] < now)})

-----------------------------------------------------------------------------
(* TransactionManager::new: an empty map.                                  *)
Init ==
    /\ transactions = << >>
    /\ advertised = [t \in Txid |-> {}]
    /\ timeoutAt = [t \in Txid |-> 0]
    /\ now = 0
    /\ connections = {}
    /\ told = [p \in Peer |-> [t \in Txid |-> 0]]

\* TransactionInfo::new: the entry of t starts with no peer advertised and
\* is held until now + TX_CACHE_TIMEOUT_PERIOD_SECS.
TransactionInfoNew(t) ==
    /\ advertised' = [advertised EXCEPT ![t] = {}]
    /\ timeoutAt' = [timeoutAt EXCEPT ![t] = now + TimeoutPeriod]

\* The keys left after send_transaction's capacity check: the oldest entry
\* is popped when the map holds TX_CACHE_SIZE entries.
PopFrontAtCapacity ==
    IF Len(transactions) = TxCacheSize THEN Tail(transactions) ELSE transactions

\* Mutant of SendTransaction: the entry is pushed without looking the
\* txid up, as with a plain queue of transactions.
SendTransactionNoLookup(t) ==
    LET rest == IF Len(transactions) = TxCacheSize THEN Tail(transactions)
                                                 ELSE transactions
    IN  /\ transactions' = Append(rest, t)
        /\ advertised' = [advertised EXCEPT ![t] = {}]
        /\ timeoutAt' = [timeoutAt EXCEPT ![t] = now + TimeoutPeriod]
        /\ told' = [p \in Peer |-> [told[p] EXCEPT ![t] = 0]]

\* Mutant of SendTransaction: the timeout subtracted from now instead of
\* added (SystemTime::now() - Duration::from_secs(..)).
SendTransactionTimeoutInPast(t) ==
    LET rest == IF Len(transactions) = TxCacheSize THEN Tail(transactions)
                                                 ELSE transactions
    IN  IF t \in {rest[i] : i \in 1..Len(rest)}
           THEN /\ transactions' = rest
                /\ UNCHANGED <<advertised, timeoutAt, told>>
           ELSE /\ transactions' = Append(rest, t)
                /\ advertised' = [advertised EXCEPT ![t] = {}]
                /\ timeoutAt' = [timeoutAt EXCEPT ![t] = now - TimeoutPeriod]
                /\ told' = [p \in Peer |-> [told[p] EXCEPT ![t] = 0]]

\* Mutant of SendTransaction: a re-send refreshes the timer of the entry
\* in place (entry(txid).and_modify(..)), as a keep-alive would.
SendTransactionRefreshInPlace(t) ==
    LET rest == IF Len(transactions) = TxCacheSize THEN Tail(transactions)
                                                 ELSE transactions
    IN  IF t \in {rest[i] : i \in 1..Len(rest)}
           THEN /\ transactions' = rest
                /\ timeoutAt' = [timeoutAt EXCEPT ![t] = now + TimeoutPeriod]
                /\ UNCHANGED <<advertised, told>>
           ELSE /\ transactions' = Append(rest, t)
                /\ advertised' = [advertised EXCEPT ![t] = {}]
                /\ timeoutAt' = [timeoutAt EXCEPT ![t] = now + TimeoutPeriod]
                /\ told' = [p \in Peer |-> [told[p] EXCEPT ![t] = 0]]

\* send_transaction(raw_tx) of a transaction that deserialises (one that
\* does not is dropped with no change).  At capacity the oldest entry is
\* popped first, whether or not txid is already cached; then an entry is
\* created only if txid is absent, with an empty advertised set and a
\* timeout TimeoutPeriod from now.
SendTransaction(t) ==
    LET rest == PopFrontAtCapacity
    IN  IF t \in {rest[i] : i \in 1..Len(rest)}
           THEN /\ transactions' = rest
                /\ UNCHANGED <<advertised, timeoutAt, told>>
           ELSE /\ transactions' = Append(rest, t)
                /\ TransactionInfoNew(t)
                /\ told' = [p \in Peer |-> [told[p] EXCEPT ![t] = 0]]

SendTransactionStep ==
    /\ \E t \in Txid : SendTransaction(t)
    /\ UNCHANGED <<now, connections>>

\* Mutant of Tick: `return` instead of `continue` on an empty inventory,
\* so the peers after the first one with nothing new are skipped (peers
\* listed by available_connections() in a fixed order).
TickReturnOnEmpty ==
    LET rank == CHOOSE f \in [Peer -> 1..Cardinality(Peer)] :
                   \A a, b \in Peer : a # b => f[a] # f[b]
        done == {p \in connections :
                   \A A \in connections :
                      rank[A] < rank[p] => InventoryFor(A) # << >>}
    IN  /\ advertised' = [t \in Txid |->
                            IF t \in Cached THEN advertised[t] \cup done
                                            ELSE advertised[t]]
        /\ told' = [p \in Peer |-> [t \in Txid |->
                      IF p \in done THEN CapAt2(told[p][t] + InvCount(p, t))
                                    ELSE told[p][t]]]
        /\ transactions' = Reaped(transactions)
        /\ UNCHANGED <<timeoutAt, now, connections>>

\* tick: advertise_txids to every available connection, then reap.  Each
\* cached txid gets every connection in its advertised set (marked as it
\* is put in an inventory, before the send, whose failure is ignored).
Tick ==
    /\ advertised' = [t \in Txid |->
                        IF t \in Cached THEN advertised[t] \cup connections
                                        ELSE advertised[t]]
    /\ told' = [p \in Peer |-> [t \in Txid |->
                  IF p \in connections THEN CapAt2(told[p][t] + InvCount(p, t))
                                       ELSE told[p][t]]]
    /\ transactions' = Reaped(transactions)
    /\ UNCHANGED <<timeoutAt, now, connections>>

\* make_idle: clear the cache.
MakeIdle ==
    /\ transactions' = << >>
    /\ UNCHANGED <<advertised, timeoutAt, now, connections, told>>

\* The environment: the wall clock moves forward, peers connect and
\* disconnect.
AdvanceClock ==
    /\ now < MaxTime
    /\ now' = now + 1
    /\ UNCHANGED <<transactions, advertised, timeoutAt, connections, told>>

ChangeConnections ==
    /\ \E c \in SUBSET Peer : c # connections /\ connections' = c
    /\ UNCHANGED <<transactions, advertised, timeoutAt, now, told>>

Next ==
    \/ SendTransactionStep
    \/ Tick
    \/ MakeIdle
    \/ AdvanceClock
    \/ ChangeConnections

\* tick is called periodically by the adapter's driver loop.
Spec == Init /\ [][Next]_vars /\ WF_vars(Tick)

-----------------------------------------------------------------------------
(* Properties.                                                             *)

\* The cache never holds more than TX_CACHE_SIZE entries, each txid at most
\* once (spec invariant 6): send_transaction pops the oldest entry exactly
\* when the map is full, before it may insert.
CacheBounded ==
    /\ Len(transactions) <= TxCacheSize
    /\ \A i, j \in 1..Len(transactions) :
          i # j => transactions[i] # transactions[j]

\* Insertion order is timeout order: an entry inserted later never times
\* out earlier.  It holds because the clock only moves forward and a
\* re-send leaves the timer alone, and it is what lets reap keep the
\* survivors in insertion order (spec section 5).
TimeoutsFollowInsertionOrder ==
    \A i, j \in 1..Len(transactions) :
        i < j => timeoutAt[transactions[i]] <= timeoutAt[transactions[j]]

\* Per-peer deduplication of INV messages: since a cached txid was
\* inserted, a peer has been sent it in at most one INV, and exactly when
\* the peer is in the entry's advertised set (advertise_txids checks and
\* marks advertised before it builds each inventory).
AdvertisedIffToldOnce ==
    \A t \in Cached, p \in Peer :
        /\ told[p][t] <= 1
        /\ (p \in advertised[t]) <=> (told[p][t] = 1)

\* Spec invariant 7 as a liveness property: as long as tick keeps being
\* called, a cached txid is eventually advertised to every peer that stays
\* connected, unless it leaves the cache first.
EventuallyAdvertised ==
    \A t \in Txid, p \in Peer :
        (t \in Cached /\ p \in connections)
            ~> (t \notin Cached \/ p \notin connections \/ p \in advertised[t])

\* The spec (section 8): re-sending a known transaction does not reset its
\* timeout_at.  Stated for any send step that could be a re-send of t:
\* t stays cached with its timer and advertised set unchanged.
ResendKeepsTimeout ==
    [][\A t \in Cached :
          (SendTransaction(t) /\ UNCHANGED <<now, connections>>)
             => /\ t \in Cached'
                /\ timeoutAt'[t] = timeoutAt[t]
                /\ advertised'[t] = advertised[t]]_vars

=============================================================================
