------------------------- MODULE LocatorHashesProofs -------------------------
(***************************************************************************)
(* Proofs about BlockchainState::locator_hashes: for every height of the  *)
(* active tip, the loop returns exactly the locator its doc comment lists *)
(* (LocatorMatchesReference), which starts at the tip, ends at genesis,   *)
(* has at most 24 hashes and walks strictly down the chain                *)
(* (LocatorWellFormed), and its step never saturates.  Run                *)
(* locator_reference checks both on the heights 0..33000.                  *)
(*                                                                         *)
(* The argument is a loop invariant: after k iterations the walk is at    *)
(* height n - Offset(k) with step StepAt(k) and has pushed the first k    *)
(* hashes of the reference, unless n < Offset(k), in which case it has    *)
(* returned with the reference already.                                   *)
(***************************************************************************)
EXTENDS LocatorHashes, IntervalLemmas, NaturalsInduction, FiniteSetTheorems,
        SequenceTheorems, TLAPS

\* The step that iteration k walks: 1 up to iteration 7, then doubled
\* after each iteration from 7 on.
StepAt(k) == IF k <= 7 THEN 1 ELSE Pow2[k - 7]

\* The first k hashes of the reference locator.
Walk(n, k) == [j \in 1..k |-> n - Offset(j - 1)]

\* A list of hashes ended by genesis, pushed unless it is last already.
Closed(w) == IF Last(w) # 0 THEN Append(w, 0) ELSE w

\* The number of hashes the reference takes from the walk.
LocatorCount(n) == Cardinality({j \in 0..21 : Offset(j) <= n})

-----------------------------------------------------------------------------
(* 2^k, the offsets and the steps.                                         *)

LEMMA Pow2Eq ==
    Pow2 = [k \in Nat |-> IF k = 0 THEN 1 ELSE 2 * Pow2[k-1]]
<1>1. NatInductiveDefHypothesis(Pow2, 1, LAMBDA v, k : 2 * v)
  BY DEF NatInductiveDefHypothesis, Pow2
<1>2. NatInductiveDefConclusion(Pow2, 1, LAMBDA v, k : 2 * v)
  BY <1>1, NatInductiveDef
<1>3. QED
  BY <1>2 DEF NatInductiveDefConclusion

LEMMA Pow2Step ==
    ASSUME NEW k \in Nat \ {0}
    PROVE  Pow2[k] = 2 * Pow2[k-1]
BY Pow2Eq

\* Every power of two is a positive natural.
LEMMA Pow2Pos ==
    ASSUME NEW k \in Nat
    PROVE  Pow2[k] \in Nat \ {0}
<1> DEFINE G == {i \in Nat : Pow2[i] \in Nat \ {0}}
<1>1. 0 \in G
  BY Pow2Eq
<1>2. \A i \in 1..k : i - 1 \in G => i \in G
  BY Pow2Step
<1>3. 0..k \subseteq G
  BY <1>1, <1>2, IntervalInduction
<1>4. QED
  BY <1>3

\* 2^14 = 16384, the largest step the loop doubles.
LEMMA Pow2Of14 ==
    Pow2[14] = 16384
<1>1. Pow2[0] = 1
  BY Pow2Eq
<1>2. Pow2[1] = 2
  BY <1>1, Pow2Step
<1>3. Pow2[2] = 4
  BY <1>2, Pow2Step
<1>4. Pow2[3] = 8
  BY <1>3, Pow2Step
<1>5. Pow2[4] = 16
  BY <1>4, Pow2Step
<1>6. Pow2[5] = 32
  BY <1>5, Pow2Step
<1>7. Pow2[6] = 64
  BY <1>6, Pow2Step
<1>8. Pow2[7] = 128
  BY <1>7, Pow2Step
<1>9. Pow2[8] = 256
  BY <1>8, Pow2Step
<1>10. Pow2[9] = 512
  BY <1>9, Pow2Step
<1>11. Pow2[10] = 1024
  BY <1>10, Pow2Step
<1>12. Pow2[11] = 2048
  BY <1>11, Pow2Step
<1>13. Pow2[12] = 4096
  BY <1>12, Pow2Step
<1>14. Pow2[13] = 8192
  BY <1>13, Pow2Step
<1>15. QED
  BY <1>14, Pow2Step

\* 2^k grows with k.
LEMMA Pow2Mono ==
    ASSUME NEW j \in Nat, NEW k \in Nat, j <= k
    PROVE  Pow2[j] <= Pow2[k]
<1> DEFINE G == {d \in Nat : Pow2[j] <= Pow2[j + d]}
<1>1. 0 \in G
  BY Pow2Pos
<1>2. \A d \in 1..(k - j) : d - 1 \in G => d \in G
  <2> SUFFICES ASSUME NEW d \in 1..(k - j), d - 1 \in G PROVE d \in G
    OBVIOUS
  <2>1. j + d \in Nat \ {0} /\ j + d - 1 \in Nat /\ (j + d) - 1 = j + (d - 1)
    OBVIOUS
  <2>2. Pow2[j + d] = 2 * Pow2[j + d - 1]
    BY <2>1, Pow2Step
  <2>3. Pow2[j + d - 1] \in Nat
    BY <2>1, Pow2Pos
  <2>4. Pow2[j] <= Pow2[j + (d - 1)]
    OBVIOUS
  <2>5. Pow2[j] \in Nat
    BY Pow2Pos
  <2>6. QED
    BY <2>1, <2>2, <2>3, <2>4, <2>5
<1>3. k - j \in Nat
  OBVIOUS
<1>4. 0..(k - j) \subseteq G
  BY <1>1, <1>2, <1>3, IntervalInduction
<1>5. QED
  BY <1>3, <1>4

\* Each offset is the one before plus the step walked in between, and
\* the steps are positive.
LEMMA OffsetNext ==
    ASSUME NEW k \in Nat
    PROVE  /\ Offset(k) \in Nat
           /\ StepAt(k) \in Nat \ {0}
           /\ Offset(k + 1) = Offset(k) + StepAt(k)
<1>1. Pow2[1] = 2 /\ Pow2[2] = 4
  BY Pow2Eq, Pow2Step
<1>2. CASE k <= 7
  BY <1>2 DEF Offset, StepAt
<1>3. CASE k = 8
  BY <1>1, <1>3 DEF Offset, StepAt
<1>4. CASE k >= 9
  <2>1. Pow2[k - 6] = 2 * Pow2[k - 7] /\ Pow2[k - 7] \in Nat \ {0}
    BY <1>4, Pow2Step, Pow2Pos
  <2>2. QED
    BY <1>4, <2>1 DEF Offset, StepAt
<1>5. QED
  BY <1>2, <1>3, <1>4

\* The step is doubled after each iteration from 7 on.
LEMMA StepNext ==
    ASSUME NEW k \in Nat
    PROVE  StepAt(k + 1) = IF k >= 7 THEN 2 * StepAt(k) ELSE StepAt(k)
<1>1. Pow2[0] = 1 /\ Pow2[1] = 2
  BY Pow2Eq, Pow2Step
<1>2. CASE k >= 8
  BY <1>2, Pow2Step DEF StepAt
<1>3. QED
  BY <1>1, <1>2 DEF StepAt


\* An offset exceeds an earlier one by at least the distance between them.
LEMMA OffsetMono ==
    ASSUME NEW j \in Nat, NEW k \in Nat, j <= k
    PROVE  Offset(j) + (k - j) <= Offset(k)
<1> DEFINE G == {d \in Nat : Offset(j) + d <= Offset(j + d)}
<1>1. 0 \in G
  BY OffsetNext
<1>2. \A d \in 1..(k - j) : d - 1 \in G => d \in G
  <2> SUFFICES ASSUME NEW d \in 1..(k - j), d - 1 \in G PROVE d \in G
    OBVIOUS
  <2>1. j + (d - 1) \in Nat /\ j + (d - 1) + 1 = j + d
    OBVIOUS
  <2>2. /\ Offset(j + (d - 1)) \in Nat
        /\ StepAt(j + (d - 1)) \in Nat \ {0}
        /\ Offset(j + d) = Offset(j + (d - 1)) + StepAt(j + (d - 1))
    BY <2>1, OffsetNext
  <2>3. Offset(j) + (d - 1) <= Offset(j + (d - 1)) /\ Offset(j) \in Nat
    BY OffsetNext
  <2>4. QED
    BY <2>2, <2>3
<1>3. k - j \in Nat
  OBVIOUS
<1>4. 0..(k - j) \subseteq G
  BY <1>1, <1>2, <1>3, IntervalInduction
<1>5. QED
  BY <1>3, <1>4

\* The steps the loop doubles are at most 2^14, so saturating_mul never
\* saturates and SaturatingDouble doubles.
LEMMA NoSaturation ==
    ASSUME NEW k \in 0..21
    PROVE  SaturatingDouble(StepAt(k)) = 2 * StepAt(k)
<1>1. CASE k <= 7
  BY <1>1 DEF StepAt, SaturatingDouble, U32Half
<1>2. CASE k > 7
  <2>1. Pow2[k - 7] <= Pow2[14] /\ Pow2[k - 7] \in Nat
    BY <1>2, Pow2Mono, Pow2Pos
  <2>2. QED
    BY <1>2, <2>1, Pow2Of14 DEF StepAt, SaturatingDouble, U32Half
<1>3. QED
  BY <1>1, <1>2

-----------------------------------------------------------------------------
(* The walk.                                                               *)

LEMMA WalkType ==
    ASSUME NEW n \in Nat, NEW k \in Nat
    PROVE  /\ Walk(n, k) \in Seq(Int)
           /\ Len(Walk(n, k)) = k
<1>1. \A j \in 1..k : Offset(j - 1) \in Nat
  BY OffsetNext
<1>2. Walk(n, k) \in [1..k -> Int]
  BY <1>1 DEF Walk
<1>3. QED
  BY <1>2

\* Pushing the hash at offset k extends the walk by one.
LEMMA WalkAppend ==
    ASSUME NEW n \in Nat, NEW k \in Nat
    PROVE  Append(Walk(n, k), n - Offset(k)) = Walk(n, k + 1)
<1>1. /\ Walk(n, k) \in Seq(Int) /\ Len(Walk(n, k)) = k
      /\ Walk(n, k + 1) \in Seq(Int) /\ Len(Walk(n, k + 1)) = k + 1
  BY WalkType
<1>2. n - Offset(k) \in Int
  BY OffsetNext
<1>3. /\ Append(Walk(n, k), n - Offset(k)) \in Seq(Int)
      /\ Len(Append(Walk(n, k), n - Offset(k))) = k + 1
      /\ \A j \in 1..k : Append(Walk(n, k), n - Offset(k))[j] = Walk(n, k)[j]
      /\ Append(Walk(n, k), n - Offset(k))[k + 1] = n - Offset(k)
  BY <1>1, <1>2, AppendProperties
<1>4. \A j \in 1..k + 1 : Append(Walk(n, k), n - Offset(k))[j] = Walk(n, k + 1)[j]
  BY <1>3 DEF Walk
<1>5. QED
  BY <1>1, <1>3, <1>4, SeqEqual

-----------------------------------------------------------------------------
(* The iterations of the loop.                                             *)

\* The function R of LocatorRun's LET: R[k] is the state after k
\* iterations.
LocatorStates(n) ==
    CHOOSE R : R = [k \in Nat |-> IF k = 0 THEN LocatorStart(n)
                                  ELSE LocatorIteration(R[k-1], k-1)]

LEMMA LocatorRunIsLast ==
    ASSUME NEW n
    PROVE  LocatorRun(n) = LocatorStates(n)[22]
BY DEF LocatorRun, LocatorStates

LEMMA LocatorStatesEq ==
    ASSUME NEW n
    PROVE  LocatorStates(n) =
              [k \in Nat |-> IF k = 0 THEN LocatorStart(n)
                             ELSE LocatorIteration(LocatorStates(n)[k-1], k-1)]
<1>1. NatInductiveDefHypothesis(LocatorStates(n), LocatorStart(n),
                                 LAMBDA v, k : LocatorIteration(v, k-1))
  BY DEF NatInductiveDefHypothesis, LocatorStates
<1>2. NatInductiveDefConclusion(LocatorStates(n), LocatorStart(n),
                                LAMBDA v, k : LocatorIteration(v, k-1))
  BY <1>1, NatInductiveDef
<1>3. QED
  BY <1>2 DEF NatInductiveDefConclusion

\* When the offsets up to c - 1 are within n and (below 22) the c-th is
\* not, the reference takes c hashes from the walk.
LEMMA LocatorCountIs ==
    ASSUME NEW n \in Nat, NEW c \in 1..22,
           Offset(c - 1) <= n, c < 22 => n < Offset(c)
    PROVE  LocatorCount(n) = c
<1>0. \A j \in Nat : Offset(j) \in Nat
  BY OffsetNext
<1>1. \A j \in 0..(c - 1) : Offset(j) <= n
  <2> SUFFICES ASSUME NEW j \in 0..(c - 1) PROVE Offset(j) <= n
    OBVIOUS
  <2>1. j \in Nat /\ c - 1 \in Nat /\ j <= c - 1
    OBVIOUS
  <2>2. Offset(j) + ((c - 1) - j) <= Offset(c - 1)
    BY <2>1, OffsetMono
  <2>3. QED
    BY <1>0, <2>1, <2>2
<1>2. \A j \in c..21 : n < Offset(j)
  <2> SUFFICES ASSUME NEW j \in c..21 PROVE n < Offset(j)
    OBVIOUS
  <2>1. j \in Nat /\ c \in Nat /\ c <= j /\ c < 22
    OBVIOUS
  <2>2. Offset(c) + (j - c) <= Offset(j)
    BY <2>1, OffsetMono
  <2>3. QED
    BY <1>0, <2>1, <2>2
<1>3. {j \in 0..21 : Offset(j) <= n} = 0..(c - 1)
  <2>1. \A j \in 0..21 : Offset(j) <= n <=> j \in 0..(c - 1)
    BY <1>0, <1>1, <1>2
  <2>2. QED
    BY <2>1
<1>4. Cardinality(0..(c - 1)) = c
  BY FS_Interval
<1>5. QED
  BY <1>3, <1>4 DEF LocatorCount

\* After the return, the iterations change nothing.
LEMMA IterationDone ==
    ASSUME NEW st, NEW i, st.done = TRUE
    PROVE  LocatorIteration(st, i) = st
BY DEF LocatorIteration

\* The loop invariant after k iterations.
IterOK(n, k) ==
    /\ Offset(k) <= n =>
          LocatorStates(n)[k] = [cur |-> n - Offset(k), step |-> StepAt(k),
                                 hashes |-> Walk(n, k), done |-> FALSE]
    /\ n < Offset(k) =>
          /\ LocatorStates(n)[k].done = TRUE
          /\ LocatorStates(n)[k].hashes = Closed(Walk(n, LocatorCount(n)))

LEMMA LoopInvariant ==
    ASSUME NEW n \in Nat
    PROVE  \A k \in 0..22 : IterOK(n, k)
<1> DEFINE R == LocatorStates(n)
           G == {k \in 0..22 : IterOK(n, k)}
<1>1. 0 \in G
  <2>1. R[0] = [cur |-> n, step |-> 1, hashes |-> << >>, done |-> FALSE]
    <3>1. R[0] = LocatorStart(n)
      BY LocatorStatesEq
    <3>2. QED
      BY <3>1 DEF LocatorStart
  <2>2. Offset(0) = 0 /\ StepAt(0) = 1
    BY DEF Offset, StepAt
  <2>3. Walk(n, 0) = << >>
    BY DEF Walk
  <2>4. n - Offset(0) = n
    BY <2>2
  <2>5. R[0] = [cur |-> n - Offset(0), step |-> StepAt(0),
                hashes |-> Walk(n, 0), done |-> FALSE]
    BY <2>1, <2>2, <2>3, <2>4
  <2>6. ~(n < Offset(0))
    BY <2>2
  <2>7. QED
    BY <2>5, <2>6 DEF IterOK
<1>2. \A i \in 0..21 : IterOK(n, i) => IterOK(n, i + 1)
  <2> SUFFICES ASSUME NEW i \in 0..21, IterOK(n, i) PROVE IterOK(n, i + 1)
    OBVIOUS
  <2>1. R[i + 1] = LocatorIteration(R[i], i)
    <3>1. i + 1 \in Nat /\ i + 1 # 0 /\ (i + 1) - 1 = i
      OBVIOUS
    <3>2. QED
      BY <3>1, LocatorStatesEq
  <2>2. /\ i \in Nat /\ i + 1 \in 1..22
        /\ Offset(i) \in Nat /\ StepAt(i) \in Nat \ {0}
        /\ Offset(i + 1) = Offset(i) + StepAt(i)
    BY OffsetNext
  <2>3. CASE Offset(i) <= n
    <3> PICK c, p, h : c = n - Offset(i) /\ p = StepAt(i) /\ h = Walk(n, i)
      OBVIOUS
    <3>1. R[i] = [cur |-> c, step |-> p, hashes |-> h, done |-> FALSE]
      BY <2>3 DEF IterOK
    <3>2. Append(h, c) = Walk(n, i + 1)
      BY <2>2, WalkAppend
    <3>3. CASE c < p
      <4>1. n < Offset(i + 1)
        BY <2>2, <3>3
      <4>2. LocatorCount(n) = i + 1
        <5>1. /\ i + 1 \in 1..22 /\ (i + 1) - 1 = i /\ Offset((i + 1) - 1) <= n
          BY <2>2, <2>3
        <5>2. QED
          BY <5>1, <4>1, LocatorCountIs
      <4>3. R[i + 1] =
               [cur |-> c, step |-> p,
                hashes |-> IF c # 0 THEN Append(Append(h, c), 0) ELSE Append(h, c),
                done |-> TRUE]
        <5>1. LocatorIteration(R[i], i) =
               [cur |-> c, step |-> p,
                   hashes |-> IF c # 0 THEN Append(Append(h, c), 0) ELSE Append(h, c),
                   done |-> TRUE]
          <6>1. LocatorIteration([cur |-> c, step |-> p, hashes |-> h, done |-> FALSE], i) =
                  [cur |-> c, step |-> p,
                   hashes |-> IF c # 0 THEN Append(Append(h, c), 0) ELSE Append(h, c),
                   done |-> TRUE]
            BY <3>3 DEF LocatorIteration
          <6>2. QED
            BY <3>1, <6>1
        <5>2. QED
          BY <2>1, <5>1
      <4>4. Last(Walk(n, i + 1)) = c
        BY <2>2, WalkType DEF Last, Walk
      <4>5. ~(Offset(i + 1) <= n)
        BY <2>2, <4>1
      <4>6. R[i + 1].hashes = Closed(Walk(n, LocatorCount(n)))
        BY <3>2, <4>2, <4>3, <4>4 DEF Closed
      <4>7. R[i + 1].done = TRUE
        BY <4>3
      <4>8. QED
        BY <4>1, <4>5, <4>6, <4>7 DEF IterOK
    <3>4. CASE ~(c < p)
      <4>1. Offset(i + 1) <= n /\ ~(n < Offset(i + 1))
        BY <2>2, <3>4
      <4>2. StepAt(i + 1) = IF i >= 7 THEN SaturatingDouble(p) ELSE p
        <5>1. StepAt(i + 1) = IF i >= 7 THEN 2 * StepAt(i) ELSE StepAt(i)
          BY <2>2, StepNext
        <5>2. SaturatingDouble(StepAt(i)) = 2 * StepAt(i)
          BY <2>2, NoSaturation
        <5>3. QED
          BY <5>1, <5>2
      <4>3. c - p = n - Offset(i + 1)
        BY <2>2
      <4>4. R[i + 1] =
               [cur |-> c - p, step |-> IF i >= 7 THEN SaturatingDouble(p) ELSE p,
                hashes |-> Append(h, c), done |-> FALSE]
        <5>1. LocatorIteration(R[i], i) =
               [cur |-> c - p, step |-> IF i >= 7 THEN SaturatingDouble(p) ELSE p,
                   hashes |-> Append(h, c), done |-> FALSE]
          BY <3>1, <3>4 DEF LocatorIteration
        <5>2. QED
          BY <2>1, <5>1
      <4>5. R[i + 1] = [cur |-> n - Offset(i + 1), step |-> StepAt(i + 1),
                        hashes |-> Walk(n, i + 1), done |-> FALSE]
        BY <3>2, <4>2, <4>3, <4>4
      <4>6. QED
        BY <4>1, <4>5 DEF IterOK
    <3>5. QED
      BY <3>3, <3>4
  <2>4. CASE n < Offset(i)
    <3>1. R[i].done = TRUE /\ R[i].hashes = Closed(Walk(n, LocatorCount(n)))
      BY <2>4 DEF IterOK
    <3>2. R[i + 1] = R[i]
      BY <2>1, <3>1, IterationDone
    <3>3. n < Offset(i + 1) /\ ~(Offset(i + 1) <= n)
      BY <2>2, <2>4
    <3>4. QED
      BY <3>1, <3>2, <3>3 DEF IterOK
  <2>5. QED
    BY <2>2, <2>3, <2>4
<1>3. \A k \in 1..22 : k - 1 \in G => k \in G
  <2> SUFFICES ASSUME NEW k \in 1..22, k - 1 \in G PROVE k \in G
    OBVIOUS
  <2>1. k - 1 \in 0..21 /\ (k - 1) + 1 = k
    OBVIOUS
  <2>2. IterOK(n, k - 1)
    OBVIOUS
  <2>3. IterOK(n, (k - 1) + 1)
    BY <1>2, <2>1, <2>2
  <2>4. QED
    BY <2>1, <2>3
<1>4. 0..22 \subseteq G
  BY <1>1, <1>3, IntervalInduction
<1>5. QED
  BY <1>4


-----------------------------------------------------------------------------
(* The locator is the reference locator, and the reference is well formed. *)

\* Every height has a count c in 1..22 of offsets within it: the walk
\* reaches offset c - 1 and stops before offset c (or takes all 22).
LEMMA LocatorCountExists ==
    ASSUME NEW n \in Nat
    PROVE  \E c \in 1..22 : Offset(c - 1) <= n /\ (c < 22 => n < Offset(c))
<1> SUFFICES ASSUME \A c \in 1..22 : ~(Offset(c - 1) <= n /\ (c < 22 => n < Offset(c)))
             PROVE  FALSE
  OBVIOUS
<1> DEFINE G == {k \in 0..21 : Offset(k) <= n}
<1>1. 0 \in G
  BY OffsetNext DEF Offset
<1>2. \A i \in 1..21 : i - 1 \in G => i \in G
  <2> SUFFICES ASSUME NEW i \in 1..21, i - 1 \in G PROVE i \in G
    OBVIOUS
  <2>1. Offset(i - 1) <= n /\ i \in 1..22 /\ i < 22
    OBVIOUS
  <2>2. ~(n < Offset(i))
    BY <2>1
  <2>3. Offset(i) \in Nat
    <3>1. i \in Nat
      OBVIOUS
    <3>2. QED
      BY <3>1, OffsetNext
  <2>4. QED
    BY <2>2, <2>3
<1>3. 21 \in G
  <2>1. 0..21 \subseteq G
    BY <1>1, <1>2, IntervalInduction
  <2>2. QED
    BY <2>1
<1>4. Offset(22 - 1) <= n /\ 22 \in 1..22 /\ ~(22 < 22)
  BY <1>3
<1>5. QED
  BY <1>4

\* locator_hashes returns the reference locator for every tip height.
LEMMA LocatorIsReference ==
    ASSUME NEW n \in Nat
    PROVE  LocatorHashes(n) = ReferenceLocator(n)
<1> DEFINE st == LocatorStates(n)[22]
<1>1. LocatorRun(n) = st
  BY LocatorRunIsLast
<1>2. ReferenceLocator(n) = Closed(Walk(n, LocatorCount(n)))
  BY DEF ReferenceLocator, Closed, Walk, LocatorCount
<1>3. IterOK(n, 22)
  BY LoopInvariant
<1>4. Offset(22) \in Nat
  BY OffsetNext
<1>5. CASE Offset(22) <= n
  <2>1. st = [cur |-> n - Offset(22), step |-> StepAt(22),
              hashes |-> Walk(n, 22), done |-> FALSE]
    BY <1>3, <1>5 DEF IterOK
  <2>2. LocatorCount(n) = 22
    <3>1. Offset(22 - 1) <= n
      <4>1. 21 \in Nat /\ 21 + 1 = 22 /\ 22 - 1 = 21
        OBVIOUS
      <4>2. Offset(21) \in Nat /\ StepAt(21) \in Nat /\ Offset(21 + 1) = Offset(21) + StepAt(21)
        BY <4>1, OffsetNext
      <4>3. QED
        BY <1>5, <4>1, <4>2
    <3>2. QED
      BY <3>1, LocatorCountIs
  <2>3. LocatorHashes(n) = Closed(Walk(n, 22))
    BY <1>1, <2>1 DEF LocatorHashes, Closed
  <2>4. QED
    BY <1>2, <2>2, <2>3
<1>6. CASE n < Offset(22)
  <2>1. st.done = TRUE /\ st.hashes = Closed(Walk(n, LocatorCount(n)))
    BY <1>3, <1>6 DEF IterOK
  <2>2. QED
    BY <1>1, <1>2, <2>1 DEF LocatorHashes
<1>7. QED
  BY <1>4, <1>5, <1>6


\* What spec invariant 5 asks of a locator l for tip height n.
WellFormedList(l, n) ==
    /\ l[1] = n
    /\ Last(l) = 0
    /\ Len(l) <= 24
    /\ \A k \in 1..Len(l) - 1 : l[k] > l[k + 1]

\* Each hash of the walk is below the one before it.
LEMMA WalkDecreasing ==
    ASSUME NEW n \in Nat, NEW c \in Nat, NEW k \in 1..c - 1
    PROVE  Walk(n, c)[k] > Walk(n, c)[k + 1]
<1>1. k - 1 \in Nat /\ (k - 1) + 1 = k /\ k \in 1..c /\ k + 1 \in 1..c
  OBVIOUS
<1>2. Offset(k - 1) \in Nat /\ StepAt(k - 1) \in Nat \ {0}
      /\ Offset((k - 1) + 1) = Offset(k - 1) + StepAt(k - 1)
  BY <1>1, OffsetNext
<1>3. Walk(n, c)[k] = n - Offset(k - 1) /\ Walk(n, c)[k + 1] = n - Offset((k + 1) - 1)
  BY <1>1 DEF Walk
<1>4. (k + 1) - 1 = (k - 1) + 1
  OBVIOUS
<1>5. QED
  BY <1>2, <1>3, <1>4

\* The walk of c hashes, closed by genesis, is a well-formed locator when
\* c is in 1..22 and the walk stays above genesis.
LEMMA ClosedWalkWellFormed ==
    ASSUME NEW n \in Nat, NEW c \in 1..22, Offset(c - 1) <= n
    PROVE  WellFormedList(Closed(Walk(n, c)), n)
<1> DEFINE w == Walk(n, c)
<1>1. w \in Seq(Int) /\ Len(w) = c
  BY WalkType
<1>2. w[1] = n
  <2>1. Offset(0) = 0
    BY DEF Offset
  <2>2. QED
    BY <2>1 DEF Walk
<1>3. w[c] = n - Offset(c - 1) /\ Offset(c - 1) \in Nat
  <2>1. c - 1 \in Nat
    OBVIOUS
  <2>2. QED
    BY <2>1, OffsetNext DEF Walk
<1>4. \A k \in 1..c - 1 : w[k] > w[k + 1]
  BY WalkDecreasing
<1>5. CASE Last(w) # 0
  <2> DEFINE l == Append(w, 0)
  <2>1. Len(l) = c + 1 /\ l[c + 1] = 0 /\ \A k \in 1..c : l[k] = w[k]
    BY <1>1, AppendProperties
  <2>2. w[c] > 0
    BY <1>1, <1>3, <1>5 DEF Last
  <2>3. \A k \in 1..Len(l) - 1 : l[k] > l[k + 1]
    <3> SUFFICES ASSUME NEW k \in 1..c PROVE l[k] > l[k + 1]
      BY <2>1
    <3>1. CASE k < c
      BY <1>4, <2>1, <3>1
    <3>2. CASE k = c
      <4>1. c \in 1..c
        OBVIOUS
      <4>2. l[c] = w[c] /\ l[c + 1] = 0
        BY <2>1, <4>1
      <4>3. QED
        BY <2>2, <3>2, <4>2
    <3>3. k < c \/ k = c
      OBVIOUS
    <3>4. QED
      BY <3>1, <3>2, <3>3
  <2>4. Last(l) = 0
    BY <2>1 DEF Last
  <2>5. l[1] = n
    BY <1>2, <2>1
  <2>6. QED
    BY <1>5, <2>1, <2>3, <2>4, <2>5 DEF WellFormedList, Closed
<1>6. CASE Last(w) = 0
  <2>1. Last(w) = 0 /\ Len(w) <= 24
    BY <1>1, <1>6
  <2>2. QED
    BY <1>2, <1>4, <1>1, <2>1, <1>6 DEF WellFormedList, Closed
<1>7. QED
  BY <1>5, <1>6

\* The reference locator is well formed for every tip height.
LEMMA ReferenceWellFormed ==
    ASSUME NEW n \in Nat
    PROVE  WellFormedList(ReferenceLocator(n), n)
<1>1. PICK c \in 1..22 : Offset(c - 1) <= n /\ (c < 22 => n < Offset(c))
  BY LocatorCountExists
<1>2. LocatorCount(n) = c
  BY <1>1, LocatorCountIs
<1>3. ReferenceLocator(n) = Closed(Walk(n, c))
  BY <1>2 DEF ReferenceLocator, Closed, Walk, LocatorCount
<1>4. QED
  BY <1>1, <1>3, ClosedWalkWellFormed


-----------------------------------------------------------------------------
(* The invariants of the locator run, for every MaxChainHeight.            *)

\* The tip height the locator is asked for is always a natural.
HeightInv == tipHeight \in Nat

\* Every state of the run has a natural tip height.
LEMMA HeightInvariant == Spec => []HeightInv
<1>1. Init => HeightInv
  BY LocatorAssumption DEF Init, HeightInv
<1>2. HeightInv /\ [Next]_tipHeight => HeightInv'
  BY DEF HeightInv, Next, LocatorHashesCall
<1>3. QED
  BY <1>1, <1>2, PTL DEF Spec

\* locator_hashes, with its early return, its doubling step and its
\* saturating multiplication, returns the locator its doc comment
\* describes, at every tip height.
THEOREM LocatorCorrect == Spec => []LocatorMatchesReference
<1>1. HeightInv => LocatorMatchesReference
  BY LocatorIsReference DEF HeightInv, LocatorMatchesReference
<1>2. QED
  BY <1>1, HeightInvariant, PTL

\* Spec invariant 5 holds of every locator locator_hashes returns: it
\* starts at the tip, ends at genesis, has at most 24 hashes and walks
\* strictly down the chain.
THEOREM LocatorWellFormedInvariant == Spec => []LocatorWellFormed
<1>1. HeightInv => LocatorWellFormed
  <2> SUFFICES ASSUME HeightInv PROVE LocatorWellFormed
    OBVIOUS
  <2>1. LocatorHashes(tipHeight) = ReferenceLocator(tipHeight)
    BY LocatorIsReference DEF HeightInv
  <2>2. WellFormedList(ReferenceLocator(tipHeight), tipHeight)
    BY ReferenceWellFormed DEF HeightInv
  <2>3. QED
    BY <2>1, <2>2 DEF WellFormedList, LocatorWellFormed
<1>2. QED
  BY <1>1, HeightInvariant, PTL

=============================================================================
