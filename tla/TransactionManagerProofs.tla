----------------------- MODULE TransactionManagerProofs -----------------------
(***************************************************************************)
(* Proofs about the transaction manager: the lemmas about Filter, the      *)
(* order-preserving filter that models retain and the inventory loop, and *)
(* the invariants that run tm_safety_liveness checks, for every set of     *)
(* transactions and peers and every cache size, INV size and timeout.      *)
(***************************************************************************)
EXTENDS TransactionManager, IntervalLemmas, NaturalsInduction,
        FiniteSetTheorems, SequenceTheorems, TLAPS

-----------------------------------------------------------------------------
(* Filter as a function of the prefix length.                              *)

\* What Filter(s, K) adds for position i of s.
Piece(s, K, i) == IF i <= Len(s) /\ s[i] \in K THEN << s[i] >> ELSE << >>

\* The function F of Filter's LET: the filtered prefixes of s.
FilterPrefixes(s, K) ==
    CHOOSE F : F = [i \in Nat |->
                      IF i = 0 THEN << >>
                      ELSE F[i-1] \o (IF i <= Len(s) /\ s[i] \in K THEN << s[i] >> ELSE << >>)]

\* Filter is the filtered prefix of the whole sequence.
LEMMA FilterIsLast ==
    ASSUME NEW s, NEW K
    PROVE  Filter(s, K) = FilterPrefixes(s, K)[Len(s)]
BY DEF Filter, FilterPrefixes

\* The recursive definition of the filtered prefixes has a solution:
\* each one extends the one before by the piece of its position.
LEMMA FilterPrefixesEq ==
    ASSUME NEW s, NEW K
    PROVE  FilterPrefixes(s, K) =
              [i \in Nat |-> IF i = 0 THEN << >>
                             ELSE FilterPrefixes(s, K)[i-1] \o Piece(s, K, i)]
<1>1. NatInductiveDefHypothesis(FilterPrefixes(s, K), << >>,
         LAMBDA v, i : v \o (IF i <= Len(s) /\ s[i] \in K THEN << s[i] >> ELSE << >>))
  BY DEF NatInductiveDefHypothesis, FilterPrefixes
<1>2. NatInductiveDefConclusion(FilterPrefixes(s, K), << >>,
         LAMBDA v, i : v \o (IF i <= Len(s) /\ s[i] \in K THEN << s[i] >> ELSE << >>))
  BY <1>1, NatInductiveDef
<1>3. QED
  BY <1>2 DEF NatInductiveDefConclusion, Piece

LEMMA FilterPrefixesZero ==
    ASSUME NEW s, NEW K
    PROVE  FilterPrefixes(s, K)[0] = << >>
BY FilterPrefixesEq

LEMMA FilterPrefixesStep ==
    ASSUME NEW s, NEW K, NEW i \in Nat \ {0}
    PROVE  FilterPrefixes(s, K)[i] = FilterPrefixes(s, K)[i-1] \o Piece(s, K, i)
BY FilterPrefixesEq


\* idx lists the positions of s, increasing, at which F's elements are
\* taken, each from K.
IncreasingIndex(s, K, n, F, idx) ==
    /\ idx \in [1..Len(F) -> 1..n]
    /\ \A j1, j2 \in 1..Len(F) : j1 < j2 => idx[j1] < idx[j2]
    /\ \A j \in 1..Len(F) : F[j] = s[idx[j]] /\ s[idx[j]] \in K

\* F holds every element of s[1..n] that is in K.
HoldsAllOf(s, K, n, F) ==
    \A k \in 1..n : s[k] \in K => \E j \in 1..Len(F) : F[j] = s[k]

\* What the filtered prefix of length n is: a sequence of at most n
\* elements of K, taken from s[1..n] at increasing positions, holding
\* every element of s[1..n] that is in K.
FilterPrefixOK(S, s, K, n) ==
    /\ FilterPrefixes(s, K)[n] \in Seq(S)
    /\ Len(FilterPrefixes(s, K)[n]) <= n
    /\ \E idx : IncreasingIndex(s, K, n, FilterPrefixes(s, K)[n], idx)
    /\ HoldsAllOf(s, K, n, FilterPrefixes(s, K)[n])

LEMMA FilterPrefixInduction ==
    ASSUME NEW S, NEW s \in Seq(S), NEW K
    PROVE  \A n \in 0..Len(s) : FilterPrefixOK(S, s, K, n)
<1> DEFINE G == {n \in 0..Len(s) : FilterPrefixOK(S, s, K, n)}
<1>1. 0 \in G
  <2>1. FilterPrefixes(s, K)[0] = << >>
    BY FilterPrefixesZero
  <2>2. IncreasingIndex(s, K, 0, << >>, << >>)
    BY DEF IncreasingIndex
  <2>3. HoldsAllOf(s, K, 0, << >>)
    BY DEF HoldsAllOf
  <2>4. << >> \in Seq(S) /\ Len(<< >>) <= 0
    OBVIOUS
  <2>5. FilterPrefixOK(S, s, K, 0)
    BY <2>1, <2>2, <2>3, <2>4 DEF FilterPrefixOK
  <2>6. QED
    BY <2>5
<1>2. \A n \in 1..Len(s) : n - 1 \in G => n \in G
  <2> SUFFICES ASSUME NEW n \in 1..Len(s), n - 1 \in G
               PROVE  n \in G
    OBVIOUS
  <2> DEFINE Fp == FilterPrefixes(s, K)[n-1]
             F  == FilterPrefixes(s, K)[n]
  <2>1. F = Fp \o Piece(s, K, n)
    BY FilterPrefixesStep
  <2>2. /\ Fp \in Seq(S)
        /\ Len(Fp) <= n - 1
        /\ HoldsAllOf(s, K, n - 1, Fp)
    BY DEF FilterPrefixOK
  <2>3. PICK idx : IncreasingIndex(s, K, n - 1, Fp, idx)
    BY DEF FilterPrefixOK
  <2>4. s[n] \in S
    OBVIOUS
  <2>5. CASE s[n] \in K
    <3>1. F = Append(Fp, s[n])
      BY <2>1, <2>2, <2>4, <2>5, AppendIsConcat DEF Piece
    <3>2. /\ F \in Seq(S)
          /\ Len(F) = Len(Fp) + 1
          /\ \A j \in 1..Len(Fp) : F[j] = Fp[j]
          /\ F[Len(Fp) + 1] = s[n]
      BY <3>1, <2>2, <2>4, AppendProperties
    <3> DEFINE idx2 == [j \in 1..Len(Fp) + 1 |-> IF j <= Len(Fp) THEN idx[j] ELSE n]
    <3>3. IncreasingIndex(s, K, n, F, idx2)
      <4>1. idx2 \in [1..Len(F) -> 1..n]
        BY <2>2, <2>3, <3>2 DEF IncreasingIndex
      <4>2. \A j1, j2 \in 1..Len(F) : j1 < j2 => idx2[j1] < idx2[j2]
        <5> SUFFICES ASSUME NEW j1 \in 1..Len(F), NEW j2 \in 1..Len(F), j1 < j2
                     PROVE  idx2[j1] < idx2[j2]
          OBVIOUS
        <5>1. j1 \in 1..Len(Fp)
          BY <2>2, <3>2
        <5>2. idx \in [1..Len(Fp) -> 1..n-1]
          BY <2>3 DEF IncreasingIndex
        <5>3. idx[j1] \in 1..n-1
          BY <5>1, <5>2
        <5>4. CASE j2 <= Len(Fp)
          BY <5>1, <5>4, <2>2, <2>3 DEF IncreasingIndex
        <5>5. CASE j2 = Len(Fp) + 1
          BY <5>1, <5>3, <5>5, <2>2
        <5>6. QED
          BY <5>4, <5>5, <3>2, <2>2
      <4>3. \A j \in 1..Len(F) : F[j] = s[idx2[j]] /\ s[idx2[j]] \in K
        BY <2>2, <2>3, <2>5, <3>2 DEF IncreasingIndex
      <4>4. QED
        BY <4>1, <4>2, <4>3 DEF IncreasingIndex
    <3>4. HoldsAllOf(s, K, n, F)
      <4> SUFFICES ASSUME NEW k \in 1..n, s[k] \in K
                   PROVE  \E j \in 1..Len(F) : F[j] = s[k]
        BY DEF HoldsAllOf
      <4>1. CASE k = n
        BY <4>1, <3>2, <2>2
      <4>2. CASE k < n
        <5>1. PICK j \in 1..Len(Fp) : Fp[j] = s[k]
          BY <4>2, <2>2 DEF HoldsAllOf
        <5>2. QED
          BY <5>1, <3>2, <2>2
      <4>3. QED
        BY <4>1, <4>2
    <3>5. QED
      BY <2>2, <3>2, <3>3, <3>4 DEF FilterPrefixOK
  <2>6. CASE s[n] \notin K
    <3>1. F = Fp
      BY <2>1, <2>2, <2>6, ConcatEmptySeq DEF Piece
    <3>2. IncreasingIndex(s, K, n, F, idx)
      BY <2>3, <3>1 DEF IncreasingIndex
    <3>3. HoldsAllOf(s, K, n, F)
      BY <2>2, <2>6, <3>1 DEF HoldsAllOf
    <3>4. QED
      BY <2>2, <3>1, <3>2, <3>3 DEF FilterPrefixOK
  <2>7. QED
    BY <2>5, <2>6
<1>3. 0..Len(s) \subseteq G
  <2>1. Len(s) \in Nat
    OBVIOUS
  <2> HIDE DEF G
  <2>2. QED
    BY <2>1, <1>1, <1>2, IntervalInduction
<1>4. QED
  BY <1>3

\* Filter(s, K) is a sequence over the same set, no longer than s, holding
\* exactly the elements of s that are in K, at increasing positions of s.
LEMMA FilterProperties ==
    ASSUME NEW S, NEW s \in Seq(S), NEW K
    PROVE  /\ Filter(s, K) \in Seq(S)
           /\ Len(Filter(s, K)) <= Len(s)
           /\ \E idx : IncreasingIndex(s, K, Len(s), Filter(s, K), idx)
           /\ HoldsAllOf(s, K, Len(s), Filter(s, K))
<1>1. FilterPrefixOK(S, s, K, Len(s))
  BY FilterPrefixInduction
<1>2. QED
  BY <1>1, FilterIsLast DEF FilterPrefixOK

\* The elements Filter keeps are the elements of s in K.
LEMMA FilterRange ==
    ASSUME NEW S, NEW s \in Seq(S), NEW K
    PROVE  {Filter(s, K)[j] : j \in 1..Len(Filter(s, K))}
              = {s[k] : k \in 1..Len(s)} \cap K
<1> DEFINE F == Filter(s, K)
<1>1. PICK idx : IncreasingIndex(s, K, Len(s), F, idx)
  BY FilterProperties
<1>2. \A j \in 1..Len(F) : F[j] \in {s[k] : k \in 1..Len(s)} \cap K
  BY <1>1 DEF IncreasingIndex
<1>3. \A k \in 1..Len(s) : s[k] \in K => s[k] \in {F[j] : j \in 1..Len(F)}
  BY FilterProperties DEF HoldsAllOf
<1>4. QED
  BY <1>2, <1>3

\* Filter keeps a sequence without repetitions free of them.
LEMMA FilterDistinct ==
    ASSUME NEW S, NEW s \in Seq(S), NEW K,
           \A i, j \in 1..Len(s) : i # j => s[i] # s[j]
    PROVE  \A i, j \in 1..Len(Filter(s, K)) :
              i # j => Filter(s, K)[i] # Filter(s, K)[j]
<1> DEFINE F == Filter(s, K)
<1>1. PICK idx : IncreasingIndex(s, K, Len(s), F, idx)
  BY FilterProperties
<1>2. \A i, j \in 1..Len(F) : i # j => idx[i] # idx[j]
  <2> SUFFICES ASSUME NEW i \in 1..Len(F), NEW j \in 1..Len(F), i # j
               PROVE  idx[i] # idx[j]
    OBVIOUS
  <2>1. i < j \/ j < i
    OBVIOUS
  <2>2. QED
    BY <1>1, <2>1 DEF IncreasingIndex
<1>3. QED
  BY <1>1, <1>2 DEF IncreasingIndex

\* Filter keeps a sequence ordered by a weight w ordered.
LEMMA FilterSorted ==
    ASSUME NEW S, NEW s \in Seq(S), NEW K, NEW w \in [S -> Nat],
           \A i, j \in 1..Len(s) : i < j => w[s[i]] <= w[s[j]]
    PROVE  \A i, j \in 1..Len(Filter(s, K)) :
              i < j => w[Filter(s, K)[i]] <= w[Filter(s, K)[j]]
<1> DEFINE F == Filter(s, K)
<1>1. PICK idx : IncreasingIndex(s, K, Len(s), F, idx)
  BY FilterProperties
<1>2. SUFFICES ASSUME NEW i \in 1..Len(F), NEW j \in 1..Len(F), i < j
               PROVE  w[F[i]] <= w[F[j]]
  OBVIOUS
<1>3. /\ idx[i] \in 1..Len(s) /\ idx[j] \in 1..Len(s) /\ idx[i] < idx[j]
      /\ F[i] = s[idx[i]] /\ F[j] = s[idx[j]]
  BY <1>1, <1>2 DEF IncreasingIndex
<1>4. w[s[idx[i]]] <= w[s[idx[j]]]
  BY <1>3
<1>5. QED
  BY <1>3, <1>4

-----------------------------------------------------------------------------
(* The invariants of the transaction manager.                              *)

\* No cached entry expires later than one timeout period from now: entries
\* are created with timeout_at = now + TX_CACHE_TIMEOUT_PERIOD_SECS and the
\* clock only moves forward.
TimeoutsWithinPeriod ==
    \A i \in 1..Len(transactions) : timeoutAt[transactions[i]] <= now + TimeoutPeriod

\* The inductive invariant: the properties run tm_safety_liveness checks,
\* with the bound that makes a new entry the latest to expire.
TMInv ==
    /\ TypeOK
    /\ CacheBounded
    /\ TimeoutsFollowInsertionOrder
    /\ TimeoutsWithinPeriod
    /\ AdvertisedIffToldOnce

-----------------------------------------------------------------------------
(* Lemmas about the steps.                                                 *)

\* The capacity check of send_transaction leaves fewer than TX_CACHE_SIZE
\* keys, those of the cache from some offset d on (d = 1 when the oldest
\* was popped).
LEMMA PopFrontShape ==
    ASSUME TypeOK, CacheBounded
    PROVE  /\ PopFrontAtCapacity \in Seq(Txid)
           /\ Len(PopFrontAtCapacity) < TxCacheSize
           /\ \E d \in {0, 1} :
                 /\ Len(PopFrontAtCapacity) = Len(transactions) - d
                 /\ \A i \in 1..Len(PopFrontAtCapacity) :
                       PopFrontAtCapacity[i] = transactions[i + d]
<1> USE TxConstantsAssumption DEF TypeOK, CacheBounded
<1>1. CASE Len(transactions) = TxCacheSize
  <2>1. transactions # << >>
    BY <1>1
  <2>2. /\ Tail(transactions) \in Seq(Txid)
        /\ Len(Tail(transactions)) = Len(transactions) - 1
        /\ \A i \in 1..Len(Tail(transactions)) : Tail(transactions)[i] = transactions[i + 1]
    BY <2>1, HeadTailProperties
  <2>3. QED
    BY <1>1, <2>2 DEF PopFrontAtCapacity
<1>2. CASE Len(transactions) # TxCacheSize
  BY <1>2 DEF PopFrontAtCapacity
<1>3. QED
  BY <1>1, <1>2

\* Below MAXIMUM_TRANSACTION_PER_INV cached txids no inventory fills up, so
\* advertise_txids never flushes a batch to the other peers.
LEMMA NothingFlushed ==
    ASSUME TypeOK, CacheBounded, NEW A
    PROVE  FlushedFor(A) = {}
<1> USE TxConstantsAssumption
<1>1. Len(InventoryFor(A)) <= Len(transactions)
  BY FilterProperties DEF InventoryFor, TypeOK
<1>2. Len(InventoryFor(A)) \in 0..(MaxInv - 1)
  BY <1>1 DEF CacheBounded
<1>3. Len(InventoryFor(A)) \div MaxInv = 0
  BY <1>2
<1>4. QED
  BY <1>3 DEF FlushedFor

\* The txids of A's inventory are the cached ones not yet advertised to A.
LEMMA InventoryRange ==
    ASSUME TypeOK, NEW A
    PROVE  {InventoryFor(A)[i] : i \in 1..Len(InventoryFor(A))}
              = Cached \cap {u \in Txid : A \notin advertised[u]}
<1> DEFINE KA == {u \in Txid : A \notin advertised[u]}
<1>1. transactions \in Seq(Txid)
  BY DEF TypeOK
<1> HIDE DEF KA
<1>2. {Filter(transactions, KA)[j] : j \in 1..Len(Filter(transactions, KA))}
         = {transactions[k] : k \in 1..Len(transactions)} \cap KA
  BY <1>1, FilterRange
<1>3. QED
  BY <1>2 DEF InventoryFor, Cached, KA

\* So a peer p is named t in an INV exactly when t is cached and p was not
\* yet in its advertised set.
LEMMA InvCountIsInventory ==
    ASSUME TypeOK, CacheBounded, NEW p, NEW t \in Txid
    PROVE  InvCount(p, t) = IF t \in Cached /\ p \notin advertised[t] THEN 1 ELSE 0
<1>1. {A \in connections \ {p} : t \in FlushedFor(A)} = {}
  BY NothingFlushed
<1>2. Cardinality({A \in connections \ {p} : t \in FlushedFor(A)}) = 0
  BY <1>1, FS_EmptySet
<1>3. {InventoryFor(p)[i] : i \in 1..Len(InventoryFor(p))}
         = Cached \cap {u \in Txid : p \notin advertised[u]}
  BY InventoryRange
<1>4. QED
  BY <1>2, <1>3 DEF InvCount

\* The keys left by the capacity check keep the order, the timeouts and
\* the distinctness of the cache.
LEMMA PopFrontKeeps ==
    ASSUME TMInv
    PROVE  LET rest == PopFrontAtCapacity
           IN  /\ rest \in Seq(Txid)
               /\ Len(rest) < TxCacheSize
               /\ \A i, j \in 1..Len(rest) : i # j => rest[i] # rest[j]
               /\ \A i, j \in 1..Len(rest) : i < j => timeoutAt[rest[i]] <= timeoutAt[rest[j]]
               /\ \A i \in 1..Len(rest) : timeoutAt[rest[i]] <= now + TimeoutPeriod
               /\ {rest[i] : i \in 1..Len(rest)} \subseteq Cached
<1> DEFINE rest == PopFrontAtCapacity
<1>1. /\ rest \in Seq(Txid)
      /\ Len(rest) < TxCacheSize
  BY PopFrontShape DEF TMInv
<1>2. PICK d \in {0, 1} :
          /\ Len(rest) = Len(transactions) - d
          /\ \A i \in 1..Len(rest) : rest[i] = transactions[i + d]
  BY PopFrontShape DEF TMInv
<1>3. \A i \in 1..Len(rest) : i + d \in 1..Len(transactions)
  BY <1>1, <1>2 DEF TMInv, TypeOK
<1>4. \A i, j \in 1..Len(rest) : i # j => rest[i] # rest[j]
  BY <1>2, <1>3 DEF TMInv, CacheBounded
<1>5. \A i, j \in 1..Len(rest) : i < j => timeoutAt[rest[i]] <= timeoutAt[rest[j]]
  BY <1>2, <1>3 DEF TMInv, TimeoutsFollowInsertionOrder
<1>6. \A i \in 1..Len(rest) : timeoutAt[rest[i]] <= now + TimeoutPeriod
  BY <1>2, <1>3 DEF TMInv, TimeoutsWithinPeriod
<1>7. {rest[i] : i \in 1..Len(rest)} \subseteq Cached
  BY <1>2, <1>3 DEF Cached
<1>8. QED
  BY <1>1, <1>4, <1>5, <1>6, <1>7

\* send_transaction keeps the invariant: a known txid leaves the kept keys
\* as they are, a new one is appended with the latest timeout and a fresh
\* advertised set.
LEMMA SendKeepsInv ==
    ASSUME TMInv, NEW t \in Txid, SendTransaction(t), UNCHANGED <<now, connections>>
    PROVE  TMInv'
<1> DEFINE rest == PopFrontAtCapacity
           RestSet == {rest[i] : i \in 1..Len(rest)}
<1>1. /\ rest \in Seq(Txid)
      /\ Len(rest) < TxCacheSize
      /\ \A i, j \in 1..Len(rest) : i # j => rest[i] # rest[j]
      /\ \A i, j \in 1..Len(rest) : i < j => timeoutAt[rest[i]] <= timeoutAt[rest[j]]
      /\ \A i \in 1..Len(rest) : timeoutAt[rest[i]] <= now + TimeoutPeriod
      /\ RestSet \subseteq Cached
  BY PopFrontKeeps
<1>2. TypeOK /\ AdvertisedIffToldOnce
  BY DEF TMInv
<1>3. CASE t \in RestSet
  <2>1. /\ transactions' = rest
        /\ UNCHANGED <<advertised, timeoutAt, told>>
    BY <1>3 DEF SendTransaction
  <2>2. TypeOK'
    BY <1>1, <1>2, <2>1 DEF TypeOK
  <2>3. CacheBounded'
    BY <1>1, <2>1, TxConstantsAssumption DEF CacheBounded
  <2>4. TimeoutsFollowInsertionOrder' /\ TimeoutsWithinPeriod'
    BY <1>1, <2>1 DEF TimeoutsFollowInsertionOrder, TimeoutsWithinPeriod
  <2>5. AdvertisedIffToldOnce'
    <3>1. Cached' \subseteq Cached
      BY <1>1, <2>1 DEF Cached
    <3>2. QED
      BY <1>2, <2>1, <3>1 DEF AdvertisedIffToldOnce
  <2>6. QED
    BY <2>2, <2>3, <2>4, <2>5 DEF TMInv
<1>4. CASE t \notin RestSet
  <2>1. /\ transactions' = Append(rest, t)
        /\ advertised' = [advertised EXCEPT ![t] = {}]
        /\ timeoutAt' = [timeoutAt EXCEPT ![t] = now + TimeoutPeriod]
        /\ told' = [p \in Peer |-> [told[p] EXCEPT ![t] = 0]]
    BY <1>4 DEF SendTransaction, TransactionInfoNew
  <2>2. /\ transactions' \in Seq(Txid)
        /\ Len(transactions') = Len(rest) + 1
        /\ \A i \in 1..Len(rest) : transactions'[i] = rest[i]
        /\ transactions'[Len(rest) + 1] = t
    BY <1>1, <2>1, AppendProperties
  <2>3. \A i \in 1..Len(rest) : rest[i] # t
    BY <1>4
  <2>4. \A u \in RestSet : timeoutAt'[u] = timeoutAt[u]
                           /\ advertised'[u] = advertised[u]
                           /\ \A p \in Peer : told'[p][u] = told[p][u]
    BY <1>1, <1>2, <1>4, <2>1 DEF TypeOK
  <2>5. TypeOK'
    <3>1. timeoutAt' \in [Txid -> Nat]
      BY <1>2, <2>1, TxConstantsAssumption DEF TypeOK
    <3>2. told' \in [Peer -> [Txid -> 0..2]]
      BY <1>2, <2>1 DEF TypeOK
    <3>3. QED
      BY <1>2, <2>1, <2>2, <3>1, <3>2 DEF TypeOK
  <2>6. CacheBounded'
    <3>1. Len(transactions') <= TxCacheSize
      BY <1>1, <2>2, TxConstantsAssumption
    <3>2. \A i, j \in 1..Len(transactions') : i # j => transactions'[i] # transactions'[j]
      BY <1>1, <2>2, <2>3
    <3>3. QED
      BY <3>1, <3>2 DEF CacheBounded
  <2>7. TimeoutsFollowInsertionOrder'
    <3> SUFFICES ASSUME NEW i \in 1..Len(transactions'), NEW j \in 1..Len(transactions'), i < j
                 PROVE  timeoutAt'[transactions'[i]] <= timeoutAt'[transactions'[j]]
      BY DEF TimeoutsFollowInsertionOrder
    <3>1. i \in 1..Len(rest) /\ rest[i] \in RestSet
      BY <2>2
    <3>2. CASE j \in 1..Len(rest)
      BY <1>1, <2>2, <2>4, <3>1, <3>2
    <3>3. CASE j = Len(rest) + 1
      BY <1>1, <1>2, <2>1, <2>2, <2>4, <3>1, <3>3 DEF TypeOK
    <3>4. QED
      BY <2>2, <3>2, <3>3
  <2>8. TimeoutsWithinPeriod'
    BY <1>1, <1>2, <2>1, <2>2, <2>4, TxConstantsAssumption DEF TimeoutsWithinPeriod, TypeOK
  <2>9. AdvertisedIffToldOnce'
    <3> SUFFICES ASSUME NEW u \in Cached', NEW p \in Peer
                 PROVE  /\ told'[p][u] <= 1
                        /\ (p \in advertised'[u]) <=> (told'[p][u] = 1)
      BY DEF AdvertisedIffToldOnce
    <3>1. u \in RestSet \/ u = t
      BY <2>2 DEF Cached
    <3>2. CASE u = t
      BY <1>2, <2>1, <3>2 DEF TypeOK
    <3>3. CASE u \in RestSet
      BY <1>1, <1>2, <2>4, <3>3 DEF AdvertisedIffToldOnce
    <3>4. QED
      BY <3>1, <3>2, <3>3
  <2>10. QED
    BY <2>5, <2>6, <2>7, <2>8, <2>9 DEF TMInv
<1>5. QED
  BY <1>3, <1>4

\* tick keeps the invariant: advertise_txids names each cached txid once
\* to each connection that had not had it, and reap's retain keeps a
\* subsequence of the cache.
LEMMA TickKeepsInv ==
    ASSUME TMInv, Tick
    PROVE  TMInv'
<1> DEFINE Keep == {u \in Txid : ~(timeoutAt[u] < now)}
<1>1. TypeOK /\ CacheBounded /\ TimeoutsFollowInsertionOrder
        /\ TimeoutsWithinPeriod /\ AdvertisedIffToldOnce
  BY DEF TMInv
<1>2. /\ transactions' = Filter(transactions, Keep)
      /\ UNCHANGED <<timeoutAt, now, connections>>
  BY DEF Tick, Reaped
<1>3. transactions \in Seq(Txid) /\ timeoutAt \in [Txid -> Nat]
  BY <1>1 DEF TypeOK
<1> HIDE DEF Keep
<1>4. /\ Filter(transactions, Keep) \in Seq(Txid)
      /\ Len(Filter(transactions, Keep)) <= Len(transactions)
  BY <1>3, FilterProperties
<1>5. \A i, j \in 1..Len(Filter(transactions, Keep)) :
         i # j => Filter(transactions, Keep)[i] # Filter(transactions, Keep)[j]
  BY <1>1, <1>3, FilterDistinct DEF CacheBounded
<1>6. \A i, j \in 1..Len(Filter(transactions, Keep)) :
         i < j => timeoutAt[Filter(transactions, Keep)[i]] <= timeoutAt[Filter(transactions, Keep)[j]]
  BY <1>1, <1>3, FilterSorted DEF TimeoutsFollowInsertionOrder
<1>7. Cached' \subseteq Cached
  <2>1. {Filter(transactions, Keep)[j] : j \in 1..Len(Filter(transactions, Keep))}
           = {transactions[k] : k \in 1..Len(transactions)} \cap Keep
    BY <1>3, FilterRange
  <2>2. QED
    BY <1>2, <2>1 DEF Cached
<1>8. \A p \in Peer, u \in Txid : InvCount(p, u) = IF u \in Cached /\ p \notin advertised[u] THEN 1 ELSE 0
  BY <1>1, InvCountIsInventory
<1>9. TypeOK'
  <2>1. advertised' \in [Txid -> SUBSET Peer]
    BY <1>1 DEF Tick, TypeOK
  <2>2. told' \in [Peer -> [Txid -> 0..2]]
    <3>1. \A p \in Peer, u \in Txid : told[p][u] + InvCount(p, u) \in Nat
      <4> SUFFICES ASSUME NEW p \in Peer, NEW u \in Txid
                   PROVE  told[p][u] + InvCount(p, u) \in Nat
        OBVIOUS
      <4>1. told[p][u] \in Nat
        BY <1>1 DEF TypeOK
      <4>2. InvCount(p, u) \in {0, 1}
        BY <1>8
      <4>3. QED
        BY <4>1, <4>2
    <3>2. \A n \in Nat : CapAt2(n) \in 0..2
      BY DEF CapAt2
    <3>3. \A p \in Peer, u \in Txid : CapAt2(told[p][u] + InvCount(p, u)) \in 0..2
      BY <3>1, <3>2
    <3>4. QED
      BY <1>1, <3>3 DEF Tick, TypeOK
  <2>3. QED
    BY <1>1, <1>2, <1>4, <2>1, <2>2 DEF TypeOK
<1>10. CacheBounded'
  <2>1. Len(transactions') <= TxCacheSize
    BY <1>1, <1>2, <1>3, <1>4, TxConstantsAssumption DEF CacheBounded
  <2>2. QED
    BY <1>2, <1>5, <2>1 DEF CacheBounded
<1>11. TimeoutsFollowInsertionOrder'
  BY <1>2, <1>6 DEF TimeoutsFollowInsertionOrder
<1>12. TimeoutsWithinPeriod'
  <2> SUFFICES ASSUME NEW i \in 1..Len(transactions')
               PROVE  timeoutAt'[transactions'[i]] <= now' + TimeoutPeriod
    BY DEF TimeoutsWithinPeriod
  <2>1. PICK k \in 1..Len(transactions) : transactions'[i] = transactions[k]
    BY <1>7 DEF Cached
  <2>2. QED
    BY <1>1, <1>2, <2>1 DEF TimeoutsWithinPeriod
<1>13. AdvertisedIffToldOnce'
  <2> SUFFICES ASSUME NEW u \in Cached', NEW p \in Peer
               PROVE  /\ told'[p][u] <= 1
                      /\ (p \in advertised'[u]) <=> (told'[p][u] = 1)
    BY DEF AdvertisedIffToldOnce
  <2>0. u \in Cached
    BY <1>7
  <2>1. u \in Cached /\ u \in Txid
    BY <1>3, <2>0 DEF Cached
  <2>2. /\ told[p][u] \in {0, 1}
        /\ (p \in advertised[u]) <=> (told[p][u] = 1)
    BY <1>1, <2>1 DEF AdvertisedIffToldOnce, TypeOK
  <2>3. advertised'[u] = advertised[u] \cup connections
    BY <2>1 DEF Tick
  <2>4. CASE p \in connections
    <3>1. told'[p][u] = CapAt2(told[p][u] + InvCount(p, u))
      BY <2>1, <2>4 DEF Tick
    <3>2. told[p][u] + InvCount(p, u) = 1
      BY <1>8, <2>1, <2>2
    <3>3. QED
      BY <2>3, <2>4, <3>1, <3>2 DEF CapAt2
  <2>5. CASE p \notin connections
    <3>1. told'[p][u] = told[p][u]
      BY <2>1, <2>5 DEF Tick
    <3>2. QED
      BY <2>2, <2>3, <2>5, <3>1
  <2>6. QED
    BY <2>4, <2>5
<1>14. QED
  BY <1>9, <1>10, <1>11, <1>12, <1>13 DEF TMInv

-----------------------------------------------------------------------------
(* The theorems.                                                           *)

\* reap only drops entries.
LEMMA TickShrinksCache ==
    ASSUME TypeOK, Tick
    PROVE  Cached' \subseteq Cached
<1> DEFINE Keep == {u \in Txid : ~(timeoutAt[u] < now)}
<1>1. transactions' = Filter(transactions, Keep)
  BY DEF Tick, Reaped
<1>2. transactions \in Seq(Txid)
  BY DEF TypeOK
<1> HIDE DEF Keep
<1>3. {Filter(transactions, Keep)[j] : j \in 1..Len(Filter(transactions, Keep))}
         = {transactions[k] : k \in 1..Len(transactions)} \cap Keep
  BY <1>2, FilterRange
<1>4. QED
  BY <1>1, <1>3 DEF Cached

\* After send_transaction an entry is either one that was cached, with its
\* advertised set as it was, or the new one, with none.
LEMMA SendFreshOrKept ==
    ASSUME TMInv, NEW t \in Txid, SendTransaction(t)
    PROVE  \A u \in Cached' : \/ u \in Cached /\ advertised'[u] = advertised[u]
                              \/ advertised'[u] = {}
<1> DEFINE rest == PopFrontAtCapacity
           RestSet == {rest[i] : i \in 1..Len(rest)}
<1>1. RestSet \subseteq Cached /\ rest \in Seq(Txid)
  BY PopFrontKeeps
<1>2. CASE t \in RestSet
  <2>1. transactions' = rest /\ advertised' = advertised
    BY <1>2 DEF SendTransaction
  <2>2. QED
    BY <1>1, <2>1 DEF Cached
<1>3. CASE t \notin RestSet
  <2>1. /\ transactions' = Append(rest, t)
        /\ advertised' = [advertised EXCEPT ![t] = {}]
    BY <1>3 DEF SendTransaction, TransactionInfoNew
  <2>2. Cached' = RestSet \cup {t}
    <3>1. /\ Len(transactions') = Len(rest) + 1
          /\ \A i \in 1..Len(rest) : transactions'[i] = rest[i]
          /\ transactions'[Len(rest) + 1] = t
      BY <1>1, <2>1, AppendProperties
    <3>2. QED
      BY <3>1 DEF Cached
  <2>3. advertised \in [Txid -> SUBSET Peer]
    BY DEF TMInv, TypeOK
  <2>4. QED
    BY <1>1, <2>1, <2>2, <2>3
<1>4. QED
  BY <1>2, <1>3

\* The set of the elements of a sequence is finite and has at most as many
\* elements as the sequence.
LEMMA SeqRangeFinite ==
    ASSUME NEW S, NEW s \in Seq(S)
    PROVE  /\ IsFiniteSet({s[i] : i \in 1..Len(s)})
           /\ Cardinality({s[i] : i \in 1..Len(s)}) <= Len(s)
<1> DEFINE R == {s[i] : i \in 1..Len(s)}
           f == [i \in 1..Len(s) |-> s[i]]
<1>1. f \in Surjection(1..Len(s), R)
  BY DEF Surjection
<1>2. IsFiniteSet(1..Len(s)) /\ Cardinality(1..Len(s)) = Len(s)
  <2>1. Len(s) \in Nat
    OBVIOUS
  <2>2. /\ IsFiniteSet(1..Len(s))
        /\ Cardinality(1..Len(s)) = IF 1 > Len(s) THEN 0 ELSE Len(s) - 1 + 1
    BY <2>1, FS_Interval
  <2>3. QED
    BY <2>1, <2>2
<1>3. QED
  BY <1>1, <1>2, FS_Surjection

\* TransactionManager::new establishes the invariant.
LEMMA InitTMInv == Init => TMInv
<1> SUFFICES ASSUME Init PROVE TMInv
  OBVIOUS
<1>1. TypeOK
  BY TxConstantsAssumption DEF Init, TypeOK
<1>2. 1..Len(transactions) = {} /\ Cached = {}
  BY DEF Init, Cached
<1>3. QED
  BY <1>1, <1>2, TxConstantsAssumption
     DEF TMInv, CacheBounded, TimeoutsFollowInsertionOrder, TimeoutsWithinPeriod,
         AdvertisedIffToldOnce

\* Every step of the manager and of its environment keeps it.
LEMMA NextTMInv == TMInv /\ [Next]_vars => TMInv'
<1> SUFFICES ASSUME TMInv, [Next]_vars PROVE TMInv'
  OBVIOUS
<1>1. CASE SendTransactionStep
  BY <1>1, SendKeepsInv DEF SendTransactionStep
<1>2. CASE Tick
  BY <1>2, TickKeepsInv
<1>3. CASE MakeIdle
  <2>1. 1..Len(transactions') = {} /\ Cached' = {}
    BY <1>3 DEF MakeIdle, Cached
  <2>2. TypeOK'
    BY <1>3 DEF MakeIdle, TMInv, TypeOK
  <2>3. QED
    BY <2>1, <2>2, TxConstantsAssumption
       DEF TMInv, CacheBounded, TimeoutsFollowInsertionOrder, TimeoutsWithinPeriod,
           AdvertisedIffToldOnce
<1>4. CASE AdvanceClock
  BY <1>4, TxConstantsAssumption
     DEF AdvanceClock, TMInv, TypeOK, CacheBounded, TimeoutsFollowInsertionOrder,
         TimeoutsWithinPeriod, AdvertisedIffToldOnce, Cached
<1>5. CASE ChangeConnections
  BY <1>5 DEF ChangeConnections, TMInv, TypeOK, CacheBounded, TimeoutsFollowInsertionOrder,
              TimeoutsWithinPeriod, AdvertisedIffToldOnce, Cached
<1>6. CASE UNCHANGED vars
  BY <1>6 DEF vars, TMInv, TypeOK, CacheBounded, TimeoutsFollowInsertionOrder,
              TimeoutsWithinPeriod, AdvertisedIffToldOnce, Cached
<1>7. QED
  BY <1>1, <1>2, <1>3, <1>4, <1>5, <1>6 DEF Next

\* Every reachable state of the transaction manager satisfies TMInv, for
\* every set of transactions and peers and every size and timeout the
\* assumption allows.
THEOREM TMInvariant == Spec => []TMInv
<1>1. Init => TMInv
  BY InitTMInv
<1>2. TMInv /\ [Next]_vars => TMInv'
  BY NextTMInv
<1>3. QED
  BY <1>1, <1>2, PTL DEF Spec

\* The fields of the manager keep their types: in particular the INV
\* history stays within 0..2 because no inventory of one peer is flushed
\* to another while the cache is smaller than an INV message.
THEOREM TMTypeCorrect == Spec => []TypeOK
BY TMInvariant, PTL DEF TMInv

\* send_transaction's pop-before-insert keeps the cache within
\* TX_CACHE_SIZE entries with no txid twice, whatever the calls.
THEOREM CacheBoundedInvariant == Spec => []CacheBounded
BY TMInvariant, PTL DEF TMInv

\* Insertion order stays timeout order through sends, re-sends, reaps and
\* the clock moving forward.
THEOREM TimeoutOrderInvariant == Spec => []TimeoutsFollowInsertionOrder
BY TMInvariant, PTL DEF TMInv

\* advertise_txids sends each cached txid to a peer at most once, and
\* exactly when the entry's advertised set names that peer.
THEOREM AdvertisedOnceInvariant == Spec => []AdvertisedIffToldOnce
BY TMInvariant, PTL DEF TMInv

=============================================================================
