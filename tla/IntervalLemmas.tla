---------------------------- MODULE IntervalLemmas ----------------------------
(***************************************************************************)
(* Induction over an interval 0..n of the naturals, used for the loops of *)
(* the model that are recursive functions over an index: the filtered     *)
(* prefixes of Filter and the iterations of the locator loop.  It is      *)
(* proved from a least counterexample, so that no predicate parameter has *)
(* to be instantiated: the set G plays the part of the predicate.          *)
(***************************************************************************)
EXTENDS Naturals, WellFoundedInduction, TLAPS

\* Induction on an interval of the naturals, by a least counterexample.
LEMMA IntervalInduction ==
    ASSUME NEW n \in Nat, NEW G, 0 \in G,
           \A i \in 1..n : i - 1 \in G => i \in G
    PROVE  0..n \subseteq G
<1> DEFINE Bad == (0..n) \ G
<1>1. SUFFICES ASSUME Bad # {} PROVE FALSE
  OBVIOUS
<1>2. Bad \subseteq Nat
  OBVIOUS
<1>3. PICK m \in Bad : \A y \in Bad : ~(<<y, m>> \in OpToRel(<, Nat))
  BY <1>1, <1>2, NatLessThanWellFounded, WFMin
<1>4. m \in 1..n
  BY DEF Bad
<1>5. m - 1 \in Nat /\ m - 1 < m
  BY <1>4
<1>6. <<m - 1, m>> \in OpToRel(<, Nat)
  BY <1>5 DEF OpToRel
<1>7. m - 1 \notin Bad
  BY <1>3, <1>6, Zenon
<1>8. QED
  BY <1>4, <1>7 DEF Bad

=============================================================================
