---------------------------- MODULE LocatorHashes ----------------------------
(***************************************************************************)
(* BlockchainState::locator_hashes (src/blockchainstate.rs:351-385), the   *)
(* block locator sent in getheaders requests.                               *)
(*                                                                         *)
(* The walk follows prev_blockhash from the active tip through the header  *)
(* cache.  Every cached header hangs under a cached parent back to genesis *)
(* (HeaderTreeWellFormed, proved in BlockchainStateProofs), so the active   *)
(* chain is genesis, 1, ..., TipHeight and a header is named by its height:*)
(* genesis is 0, and the lookup of the parent fails exactly at genesis.    *)
(* The inner loop's `step` single moves are taken as one jump, which fails *)
(* exactly when fewer than `step` ancestors are left.  The loop is a       *)
(* recursive function over the iterations, so that the provers can unfold *)
(* it.                                                                     *)
(***************************************************************************)
EXTENDS Naturals, Sequences, FiniteSets

CONSTANTS
    MaxChainHeight   \* the longest active chain explored

ASSUME LocatorAssumption == MaxChainHeight \in Nat

VARIABLE tipHeight   \* get_active_chain_tip().height

\* The largest u32 whose double is a u32 (2^31 - 1), and u32::MAX.
U32Half == 2147483647
U32Max == 2 * U32Half + 1

\* step.saturating_mul(2) on a u32: u32::MAX once the product overflows.
SaturatingDouble(s) == IF s > U32Half THEN U32Max ELSE 2 * s

Last(s) == s[Len(s)]

\* The walk between two iterations of `for i in 0..22`: the height of
\* current_header, step, the hashes pushed so far, and whether the loop
\* has returned early.
LocatorStart(n) == [cur |-> n, step |-> 1, hashes |-> << >>, done |-> FALSE]

\* Mutant: the step starts doubling one iteration late (i >= 8).
LocatorIterationLateDoubling(st, i) ==
    IF st.done THEN st
    ELSE LET pushed == Append(st.hashes, st.cur) IN
         IF st.cur < st.step
            THEN [st EXCEPT !.hashes = IF st.cur # 0 THEN Append(pushed, 0) ELSE pushed,
                            !.done = TRUE]
            ELSE [cur |-> st.cur - st.step,
                  step |-> IF i >= 8 THEN SaturatingDouble(st.step) ELSE st.step,
                  hashes |-> pushed, done |-> FALSE]

\* Mutant: the early return pushes genesis without the last_hash check.
LocatorIterationAlwaysGenesis(st, i) ==
    IF st.done THEN st
    ELSE LET pushed == Append(st.hashes, st.cur) IN
         IF st.cur < st.step
            THEN [st EXCEPT !.hashes = Append(pushed, 0), !.done = TRUE]
            ELSE [cur |-> st.cur - st.step,
                  step |-> IF i >= 7 THEN SaturatingDouble(st.step) ELSE st.step,
                  hashes |-> pushed, done |-> FALSE]

\* Iteration i of the outer loop: push the current hash; take `step`
\* parents, and when the lookup fails first (fewer than step ancestors
\* left) push genesis unless it was the hash just pushed, and return;
\* from i = 7 on, double the step.  After a return nothing changes.
LocatorIteration(st, i) ==
    IF st.done THEN st
    ELSE LET pushed == Append(st.hashes, st.cur) IN
         IF st.cur < st.step
            THEN [st EXCEPT !.hashes = IF st.cur # 0 THEN Append(pushed, 0) ELSE pushed,
                            !.done = TRUE]
            ELSE [cur |-> st.cur - st.step,
                  step |-> IF i >= 7 THEN SaturatingDouble(st.step) ELSE st.step,
                  hashes |-> pushed, done |-> FALSE]

\* The state after the 22 iterations: R[k] is the state after k of them.
LocatorRun(n) ==
    LET R[k \in Nat] == IF k = 0 THEN LocatorStart(n)
                        ELSE LocatorIteration(R[k-1], k-1)
    IN  R[22]

\* locator_hashes for an active tip at height n: after the loop, genesis
\* is pushed unless it was the last hash pushed.
LocatorHashes(n) ==
    LET st == LocatorRun(n) IN
    IF ~st.done /\ Last(st.hashes) # 0 THEN Append(st.hashes, 0) ELSE st.hashes

\* 2^k.
Pow2[k \in Nat] == IF k = 0 THEN 1 ELSE 2 * Pow2[k-1]

\* The reference: the doc comment of locator_hashes lists tip, tip - 1, ...,
\* tip - 8, then tip - (8 + 2), tip - (8 + 2 + 4), ..., and the genesis
\* hash.  Offset(k) is the distance of the k-th entry from the tip.  The
\* comment's last term is tip - (8 + 2 + ... + 4096) = tip - 8198; the loop
\* runs 22 iterations, one more than that, so the reference takes the 22
\* offsets 0..21 and its last is 8 + 2 + ... + 8192 = 16390, as the code.
Offset(k) == IF k <= 8 THEN k ELSE Pow2[k - 7] + 6

ReferenceLocator(n) ==
    LET walk == [k \in 1..Cardinality({j \in 0..21 : Offset(j) <= n}) |->
                   n - Offset(k - 1)]
    IN  IF Last(walk) # 0 THEN Append(walk, 0) ELSE walk

\* spec.md's density line: back-offsets 0, 1, ..., 7, then 7 + 2,
\* 7 + 2 + 4, 7 + 2 + 4 + 8, ..., then genesis.
SpecOffset(k) == IF k <= 7 THEN k ELSE Pow2[k - 6] + 5

SpecDensityLocator(n) ==
    LET walk == [k \in 1..Cardinality({j \in 0..21 : SpecOffset(j) <= n}) |->
                   n - SpecOffset(k - 1)]
    IN  IF Last(walk) # 0 THEN Append(walk, 0) ELSE walk

Init == tipHeight \in 0..MaxChainHeight

\* locator_hashes only reads the state: it may be called again and again.
LocatorHashesCall == UNCHANGED tipHeight

Next == LocatorHashesCall

Spec == Init /\ [][Next]_tipHeight

-----------------------------------------------------------------------------
(* Properties.                                                             *)

\* The loop with its early return and doubling step computes exactly the
\* locator its doc comment describes, extended by the one term (offset
\* 16390) that its 22nd iteration adds past the comment's last.
LocatorMatchesReference == LocatorHashes(tipHeight) = ReferenceLocator(tipHeight)

\* spec.md states the back-offsets as 0..7, 7 + 2, 7 + 2 + 4, ...: the
\* locator returned by the code should follow them.
LocatorMatchesSpecDensity ==
    LocatorHashes(tipHeight) = SpecDensityLocator(tipHeight)

\* Spec invariant 5: the locator starts at the active tip, ends at genesis,
\* has at most 24 hashes, and walks strictly down the chain (so it has no
\* duplicate).
LocatorWellFormed ==
    LET l == LocatorHashes(tipHeight) IN
    /\ l[1] = tipHeight
    /\ Last(l) = 0
    /\ Len(l) <= 24
    /\ \A k \in 1..Len(l) - 1 : l[k] > l[k + 1]

=============================================================================
