------------------------------ MODULE TxClock ------------------------------
(***************************************************************************)
(* The transaction manager against two clocks: the wall clock              *)
(* SystemTime::now() that send_transaction and reap read (`now`), and the  *)
(* real time that passes (`real`).  Time passing advances both; the wall   *)
(* clock may also be set forward, and, when ClockMayJumpBack holds, back   *)
(* (an NTP correction or an operator).  `insertedReal` is a history        *)
(* variable: the real time at which each cached entry was created.         *)
(***************************************************************************)
EXTENDS TransactionManager

CONSTANTS
    ClockMayJumpBack,  \* whether the wall clock can be set backwards
    MaxReal            \* the last real time explored

ASSUME ClockAssumption ==
    /\ ClockMayJumpBack \in BOOLEAN
    /\ MaxReal \in Nat

VARIABLES
    real,          \* the real time elapsed
    insertedReal   \* insertedReal[t]: real time at which t's entry was created

clockVars == <<vars, real, insertedReal>>

ClockInit ==
    /\ Init
    /\ real = 0
    /\ insertedReal = [t \in Txid |-> 0]

\* send_transaction; the entry's creation is recorded when
\* TransactionInfo::new runs, i.e. when txid is absent after the capacity
\* pop.
ClockSend ==
    \E t \in Txid :
        /\ SendTransaction(t)
        /\ UNCHANGED <<now, connections, real>>
        /\ insertedReal' =
              IF t \in {PopFrontAtCapacity[i] : i \in 1..Len(PopFrontAtCapacity)}
                 THEN insertedReal
                 ELSE [insertedReal EXCEPT ![t] = real]

\* tick, make_idle and the peers' churn take no time and leave the history.
ClockOther ==
    /\ Tick \/ MakeIdle \/ ChangeConnections
    /\ UNCHANGED <<real, insertedReal>>

\* One unit of time passes on both clocks.
Elapse ==
    /\ real < MaxReal
    /\ AdvanceClock
    /\ real' = real + 1
    /\ UNCHANGED insertedReal

\* The wall clock is set to another value; no real time passes.
SetClock ==
    /\ \E t \in 0..MaxTime :
          /\ t # now
          /\ t < now => ClockMayJumpBack
          /\ now' = t
    /\ UNCHANGED <<transactions, advertised, timeoutAt, connections, told,
                   real, insertedReal>>

ClockNext == ClockSend \/ ClockOther \/ Elapse \/ SetClock

ClockSpec == ClockInit /\ [][ClockNext]_clockVars

-----------------------------------------------------------------------------
\* What reap's doc comment promises ("Clear out transactions that have been
\* held on to for more than the transaction timeout period"): after a tick,
\* no transaction kept in the cache was created more than
\* TX_CACHE_TIMEOUT_PERIOD_SECS of real time earlier.  Spec section 6 says
\* the 600 s timer survives forward clock jumps but not backward ones.
ReapHonoursTimeout ==
    [][Tick => \A i \in 1..Len(transactions') :
                  real - insertedReal[transactions'[i]] <= TimeoutPeriod]_clockVars

=============================================================================
