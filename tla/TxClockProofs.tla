---------------------------- MODULE TxClockProofs ----------------------------
(***************************************************************************)
(* reap against real time.  When the wall clock never goes back, an entry *)
(* has lived no longer in real time than the wall clock has advanced since *)
(* its creation, so reap's test timeout_at >= now keeps only entries      *)
(* younger than the timeout period: the property run tm_clock_forward      *)
(* checks, proved for every instance.  Run tm_clock_jumpback shows it      *)
(* fails when the clock may be set back.                                   *)
(***************************************************************************)
EXTENDS TxClock, TransactionManagerProofs, TLAPS

\* The real age of a cached entry is at most what the wall clock has
\* advanced since its creation, now - (timeout_at - TimeoutPeriod).
ClockLag ==
    \A u \in Cached : real - insertedReal[u] <= now + TimeoutPeriod - timeoutAt[u]

\* The inductive invariant: the manager's invariant, the types of the two
\* history variables, and the lag.
ClockInv ==
    /\ TMInv
    /\ real \in Nat
    /\ insertedReal \in [Txid -> Nat]
    /\ ClockLag

\* Setting the wall clock forward keeps the manager's invariant.
LEMMA SetClockForwardKeepsTMInv ==
    ASSUME TMInv, now' \in 0..MaxTime, now <= now',
           UNCHANGED <<transactions, advertised, timeoutAt, connections, told>>
    PROVE  TMInv'
BY TxConstantsAssumption
   DEF TMInv, TypeOK, CacheBounded, TimeoutsFollowInsertionOrder,
       TimeoutsWithinPeriod, AdvertisedIffToldOnce, Cached

LEMMA ClockInitInv ==
    ClockInit => ClockInv
<1> SUFFICES ASSUME ClockInit PROVE ClockInv
  OBVIOUS
<1>1. TMInv
  BY InitTMInv DEF ClockInit
<1>2. Cached = {}
  BY DEF ClockInit, Init, Cached
<1>3. QED
  BY <1>1, <1>2 DEF ClockInit, ClockInv, ClockLag

\* With the clock only going forward, every step keeps ClockInv.
LEMMA ClockNextInv ==
    ASSUME ~ClockMayJumpBack
    PROVE  ClockInv /\ [ClockNext]_clockVars => ClockInv'
<1> SUFFICES ASSUME ClockInv, [ClockNext]_clockVars PROVE ClockInv'
  OBVIOUS
<1>1. TMInv /\ real \in Nat /\ insertedReal \in [Txid -> Nat] /\ ClockLag
  BY DEF ClockInv
<1>2. TypeOK
  BY <1>1 DEF TMInv
<1>3. CASE ClockSend
  <2>1. PICK t \in Txid :
           /\ SendTransaction(t)
           /\ UNCHANGED <<now, connections, real>>
           /\ insertedReal' =
                 IF t \in {PopFrontAtCapacity[i] : i \in 1..Len(PopFrontAtCapacity)}
                    THEN insertedReal
                    ELSE [insertedReal EXCEPT ![t] = real]
    BY <1>3 DEF ClockSend
  <2>2. TMInv'
    BY <1>1, <2>1, SendKeepsInv
  <2> DEFINE rest == PopFrontAtCapacity
             RestSet == {rest[i] : i \in 1..Len(rest)}
  <2>3. RestSet \subseteq Cached /\ rest \in Seq(Txid)
    BY <1>1, PopFrontKeeps
  <2>4. CASE t \in RestSet
    <3>1. transactions' = rest /\ UNCHANGED <<timeoutAt, insertedReal>>
      BY <2>1, <2>4 DEF SendTransaction
    <3>2. Cached' \subseteq Cached
      BY <2>3, <3>1 DEF Cached
    <3>3. QED
      BY <1>1, <2>1, <2>2, <3>1, <3>2 DEF ClockInv, ClockLag
  <2>5. CASE t \notin RestSet
    <3>1. /\ transactions' = Append(rest, t)
          /\ timeoutAt' = [timeoutAt EXCEPT ![t] = now + TimeoutPeriod]
          /\ insertedReal' = [insertedReal EXCEPT ![t] = real]
      BY <2>1, <2>5 DEF SendTransaction, TransactionInfoNew
    <3>2. Cached' = RestSet \cup {t}
      <4>1. /\ Len(transactions') = Len(rest) + 1
            /\ \A i \in 1..Len(rest) : transactions'[i] = rest[i]
            /\ transactions'[Len(rest) + 1] = t
        BY <2>3, <3>1, AppendProperties
      <4>2. QED
        BY <4>1 DEF Cached
    <3>3. insertedReal' \in [Txid -> Nat]
      BY <1>1, <3>1
    <3>4. ClockLag'
      <4> SUFFICES ASSUME NEW u \in Cached'
                   PROVE  real' - insertedReal'[u] <= now' + TimeoutPeriod - timeoutAt'[u]
        BY DEF ClockLag
      <4>1. CASE u = t
        BY <1>1, <1>2, <2>1, <3>1, <4>1, TxConstantsAssumption DEF TypeOK
      <4>2. CASE u # t
        <5>1. u \in Cached /\ u \in Txid
          BY <2>3, <3>2, <4>2
        <5>2. QED
          BY <1>1, <1>2, <2>1, <3>1, <4>2, <5>1 DEF ClockLag, TypeOK
      <4>3. QED
        BY <4>1, <4>2
    <3>5. QED
      BY <1>1, <2>1, <2>2, <3>3, <3>4 DEF ClockInv
  <2>6. QED
    BY <2>4, <2>5
<1>4. CASE ClockOther
  <2>1. UNCHANGED <<real, insertedReal>> /\ (Tick \/ MakeIdle \/ ChangeConnections)
    BY <1>4 DEF ClockOther
  <2>2. TMInv'
    BY <1>1, <2>1, NextTMInv DEF Next
  <2>3. Cached' \subseteq Cached /\ UNCHANGED <<timeoutAt, now>>
    <3>1. CASE Tick
      <4> DEFINE Keep == {u \in Txid : ~(timeoutAt[u] < now)}
      <4>1. transactions' = Filter(transactions, Keep) /\ UNCHANGED <<timeoutAt, now>>
        BY <3>1 DEF Tick, Reaped
      <4> HIDE DEF Keep
      <4>2. {Filter(transactions, Keep)[j] : j \in 1..Len(Filter(transactions, Keep))}
               = {transactions[k] : k \in 1..Len(transactions)} \cap Keep
        BY <1>2, FilterRange DEF TypeOK
      <4>3. QED
        BY <4>1, <4>2 DEF Cached
    <3>2. CASE MakeIdle
      BY <3>2 DEF MakeIdle, Cached
    <3>3. CASE ChangeConnections
      BY <3>3 DEF ChangeConnections, Cached
    <3>4. QED
      BY <2>1, <3>1, <3>2, <3>3
  <2>4. QED
    BY <1>1, <2>1, <2>2, <2>3 DEF ClockInv, ClockLag
<1>5. CASE Elapse
  <2>1. TMInv'
    BY <1>1, <1>5, NextTMInv DEF Elapse, Next
  <2>2. /\ real' = real + 1 /\ now' = now + 1
        /\ UNCHANGED <<transactions, timeoutAt, insertedReal>>
    BY <1>5 DEF Elapse, AdvanceClock
  <2>3. \A u \in Cached : insertedReal[u] \in Nat /\ timeoutAt[u] \in Nat /\ u \in Txid
    BY <1>1, <1>2 DEF TypeOK, Cached
  <2>4. Cached' = Cached
    BY <2>2 DEF Cached
  <2>5. \A u \in Cached : real' - insertedReal'[u] <= now' + TimeoutPeriod - timeoutAt'[u]
    BY <1>1, <1>2, <2>2, <2>3, TxConstantsAssumption DEF ClockLag, TypeOK
  <2>6. ClockLag'
    BY <2>4, <2>5 DEF ClockLag
  <2>7. QED
    BY <1>1, <2>1, <2>2, <2>6 DEF ClockInv
<1>6. CASE SetClock
  <2>1. now' \in 0..MaxTime /\ now <= now'
    BY <1>2, <1>6 DEF SetClock, TypeOK
  <2>2. TMInv'
    BY <1>1, <1>6, <2>1, SetClockForwardKeepsTMInv DEF SetClock
  <2>3. \A u \in Cached : timeoutAt[u] \in Nat
    BY <1>2 DEF TypeOK, Cached
  <2>4. UNCHANGED <<transactions, timeoutAt, real, insertedReal>>
    BY <1>6 DEF SetClock
  <2>5. \A u \in Cached : insertedReal[u] \in Nat /\ u \in Txid
    BY <1>1, <1>2 DEF TypeOK, Cached
  <2>6. ClockLag'
    <3>1. Cached' = Cached
      BY <2>4 DEF Cached
    <3>2. SUFFICES ASSUME NEW u \in Cached
                   PROVE  real' - insertedReal'[u] <= now' + TimeoutPeriod - timeoutAt'[u]
      BY <3>1 DEF ClockLag
    <3>3. real - insertedReal[u] <= now + TimeoutPeriod - timeoutAt[u]
      BY <1>1 DEF ClockLag
    <3>4. now \in Nat /\ now' \in Nat /\ timeoutAt[u] \in Nat /\ insertedReal[u] \in Nat
      BY <1>2, <2>1, <2>3, <2>5 DEF TypeOK
    <3>5. QED
      BY <1>1, <2>1, <2>4, <3>3, <3>4, TxConstantsAssumption
  <2>7. QED
    BY <1>1, <2>2, <2>4, <2>6 DEF ClockInv
<1>7. CASE UNCHANGED clockVars
  BY <1>1, <1>7, NextTMInv DEF clockVars, vars, ClockInv, ClockLag, Cached
<1>8. QED
  BY <1>3, <1>4, <1>5, <1>6, <1>7 DEF ClockNext

\* Under ClockInv, a step that is a tick keeps only entries created at most
\* TX_CACHE_TIMEOUT_PERIOD_SECS of real time earlier.
LEMMA TickHonoursTimeout ==
    ASSUME ClockInv, Tick
    PROVE  \A i \in 1..Len(transactions') :
              real - insertedReal[transactions'[i]] <= TimeoutPeriod
<1> DEFINE Keep == {u \in Txid : ~(timeoutAt[u] < now)}
<1>1. TypeOK /\ ClockLag /\ real \in Nat /\ insertedReal \in [Txid -> Nat]
  BY DEF ClockInv, TMInv
<1>2. transactions' = Filter(transactions, Keep)
  BY DEF Tick, Reaped
<1>3. transactions \in Seq(Txid)
  BY <1>1 DEF TypeOK
<1> HIDE DEF Keep
<1>4. {Filter(transactions, Keep)[j] : j \in 1..Len(Filter(transactions, Keep))}
         = {transactions[k] : k \in 1..Len(transactions)} \cap Keep
  BY <1>3, FilterRange
<1>5. \A i \in 1..Len(transactions') : transactions'[i] \in Cached \cap Keep
  BY <1>2, <1>4 DEF Cached
<1>6. SUFFICES ASSUME NEW i \in 1..Len(transactions')
               PROVE  real - insertedReal[transactions'[i]] <= TimeoutPeriod
  OBVIOUS
<1> DEFINE u == transactions'[i]
<1>7. u \in Cached /\ u \in Txid /\ ~(timeoutAt[u] < now)
  BY <1>5 DEF Keep
<1>8. real - insertedReal[u] <= now + TimeoutPeriod - timeoutAt[u]
  BY <1>1, <1>7 DEF ClockLag
<1>9. timeoutAt[u] \in Nat /\ now \in Nat /\ insertedReal[u] \in Nat
  BY <1>1, <1>7 DEF TypeOK
<1>10. QED
  BY <1>1, <1>7, <1>8, <1>9, TxConstantsAssumption

\* reap honours its doc comment whenever the wall clock is never set back:
\* after every tick, each entry kept was created at most
\* TX_CACHE_TIMEOUT_PERIOD_SECS of real time earlier.
THEOREM ForwardClockReapHonoursTimeout ==
    ASSUME ~ClockMayJumpBack
    PROVE  ClockSpec => ReapHonoursTimeout
<1>1. ClockInit => ClockInv
  BY ClockInitInv
<1>2. ClockInv /\ [ClockNext]_clockVars => ClockInv'
  BY ClockNextInv
<1>3. ClockInv => [Tick => \A i \in 1..Len(transactions') :
                             real - insertedReal[transactions'[i]] <= TimeoutPeriod]_clockVars
  BY TickHonoursTimeout
<1>4. QED
  BY <1>1, <1>2, <1>3, PTL DEF ClockSpec, ReapHonoursTimeout

=============================================================================
