----------------------- MODULE BlockchainStateProofs -----------------------
(***************************************************************************)
(* Proofs about BlockchainState for every header universe: type            *)
(* correctness, and that the tips are always exactly the leaves of the     *)
(* header tree (TipsAreLeaves), from the inductive invariant IInv.         *)
(***************************************************************************)
EXTENDS BlockchainState, SequenceTheorems, TLAPS

-----------------------------------------------------------------------------
(* Lemmas on the operators the model is built from.                        *)

\* A message of at most n headers is a sequence of headers.
LEMMA BoundedSeqIsSeq ==
    ASSUME NEW S, NEW n \in Nat, NEW s \in BoundedSeq(S, n)
    PROVE  s \in Seq(S)
BY DEF BoundedSeq, SeqOf

\* A sort result is a rearrangement of its input by a bijection of indices.
LEMMA SortedIsRearrangement ==
    ASSUME NEW T, NEW t \in Seq(T), NEW s \in SortedTips(t)
    PROVE  \E p \in Bijection(1..Len(t), 1..Len(t)) :
              s = [i \in 1..Len(t) |-> t[p[i]]]
BY DEF SortedTips, Rearrangements

\* A sort result is a sequence over the same elements.
LEMMA SortedTipsType ==
    ASSUME NEW T, NEW t \in Seq(T), NEW s \in SortedTips(t)
    PROVE  /\ s \in Seq(T)
           /\ Len(s) = Len(t)
<1>1. PICK p \in Bijection(1..Len(t), 1..Len(t)) :
          s = [i \in 1..Len(t) |-> t[p[i]]]
  BY SortedIsRearrangement
<1>2. \A i \in 1..Len(t) : p[i] \in 1..Len(t)
  BY DEF Bijection, Injection
<1>3. QED
  BY <1>1, <1>2

\* No two entries of a tip sequence name the same header.
HdrInj(t) == \A i, j \in 1..Len(t) : t[i].header = t[j].header => i = j

\* The leaves of the header tree: cached headers with no child.
Leaves == {x \in cached : children[x] = {}}

\* A tip sequence t fits a set of leaves L and node fields ht, wk: its
\* tips name distinct headers, exactly the members of L, and copy their
\* height and work.  TipsAreLeaves is TipsFit(tips, Leaves, height, work).
TipsFit(t, L, ht, wk) ==
    /\ HdrInj(t)
    /\ \A i \in 1..Len(t) : /\ t[i].header \in L
                            /\ t[i].height = ht[t[i].header]
                            /\ t[i].work = wk[t[i].header]
    /\ \A x \in L : \E i \in 1..Len(t) : t[i].header = x

\* A sorted tip sequence fits whatever its input fits.
LEMMA SortKeepsFit ==
    ASSUME NEW T, NEW t \in Seq(T), NEW s \in SortedTips(t),
           NEW L, NEW ht, NEW wk, TipsFit(t, L, ht, wk)
    PROVE  TipsFit(s, L, ht, wk)
<1> DEFINE n == Len(t)
<1>1. PICK p \in Bijection(1..n, 1..n) : s = [i \in 1..n |-> t[p[i]]]
  BY SortedIsRearrangement
<1>2. Len(s) = n
  BY SortedTipsType
<1>3. \A i \in 1..n : p[i] \in 1..n
  BY DEF Bijection, Injection
<1>4. \A j \in 1..n : \E i \in 1..n : p[i] = j
  BY DEF Bijection, Surjection
<1>5. \A i, j \in 1..n : p[i] = p[j] => i = j
  BY DEF Bijection, Injection, IsInjective
<1>6. HdrInj(s)
  BY <1>1, <1>2, <1>3, <1>5 DEF TipsFit, HdrInj
<1>7. \A i \in 1..Len(s) : /\ s[i].header \in L
                           /\ s[i].height = ht[s[i].header]
                           /\ s[i].work = wk[s[i].header]
  BY <1>1, <1>2, <1>3 DEF TipsFit
<1>8. \A x \in L : \E i \in 1..Len(s) : s[i].header = x
  BY <1>1, <1>2, <1>4 DEF TipsFit
<1>9. QED
  BY <1>6, <1>7, <1>8 DEF TipsFit

\* Under TypeOK, TipsAreLeaves says that the tips fit the leaves.
LEMMA TipsAreLeavesFit ==
    ASSUME TypeOK
    PROVE  TipsAreLeaves <=> TipsFit(tips, Leaves, height, work)
<1>1. DOMAIN TipHeaders = 1..Len(tips)
  BY DEF TipHeaders
<1>2. IsInjective(TipHeaders) <=> HdrInj(tips)
  BY <1>1 DEF IsInjective, TipHeaders, HdrInj
<1>3. Range(TipHeaders) = {tips[i].header : i \in 1..Len(tips)}
  BY <1>1 DEF Range, TipHeaders
<1>4. QED
  BY <1>2, <1>3 DEF TipsAreLeaves, TipsFit, Leaves

-----------------------------------------------------------------------------
(* Type correctness.                                                       *)

LEMMA InitTypeOK == Init => TypeOK
<1> SUFFICES ASSUME Init PROVE TypeOK
  OBVIOUS
<1>1. HeaderWork[Genesis] \in Nat
  BY HeaderAssumption
<1>2. work \in [Header -> Nat]
  BY <1>1 DEF Init, HeaderCacheNew
<1>3. NodeTip(Genesis, 0, HeaderWork[Genesis]) \in TipRec
  BY <1>1, HeaderAssumption DEF NodeTip, TipRec
<1>4. tips \in Seq(TipRec)
  BY <1>3, EmptySeq, AppendProperties DEF Init, HeaderCacheNew
<1>5. height \in [Header -> Nat] /\ children \in [Header -> SUBSET Header]
  BY DEF Init, HeaderCacheNew
<1>6. cached \subseteq Header /\ blockCache \subseteq Header
  BY HeaderAssumption DEF Init, HeaderCacheNew
<1>7. busy \in BOOLEAN
  BY Zenon DEF Init, HeaderCacheNew
<1>9. pending \in Seq(Header)
  BY EmptySeq DEF Init, HeaderCacheNew
<1>8. QED
  BY <1>2, <1>4, <1>5, <1>6, <1>7, <1>9, Zenon DEF TypeOK

\* The tip built by add_header for a header whose parent is typed.
LEMMA UpdatedTipsType ==
    ASSUME TypeOK, NEW h \in Header, Prev[h] \in Header
    PROVE  UpdatedTips(h) \in Seq(TipRec)
<1> DEFINE p == Prev[h]
           new == NodeTip(h, height[p] + 1, work[p] + HeaderWork[h])
<1>1. new \in TipRec
  BY HeaderAssumption DEF TypeOK, NodeTip, TipRec
<1> DEFINE at == {i \in 1..Len(tips) : tips[i].header = p}
<1>2. Append(tips, new) \in Seq(TipRec)
  BY <1>1, AppendProperties DEF TypeOK
<1>3. [tips EXCEPT ![Min(at)] = new] \in Seq(TipRec)
  <2>1. CASE Min(at) \in 1..Len(tips)
    BY <1>1, <2>1 DEF TypeOK
  <2>2. CASE Min(at) \notin 1..Len(tips)
    <3>1. DOMAIN tips = 1..Len(tips)
      BY DEF TypeOK
    <3> DEFINE u == [tips EXCEPT ![Min(at)] = new]
    <3>2. DOMAIN u = 1..Len(tips)
      BY <3>1
    <3>3. \A i \in 1..Len(tips) : u[i] = tips[i]
      BY <2>2, <3>1
    <3>5. u = [i \in 1..Len(tips) |-> tips[i]]
      BY <3>2, <3>3
    <3>6. tips = [i \in 1..Len(tips) |-> tips[i]]
      BY DEF TypeOK
    <3>7. QED
      BY <3>5, <3>6 DEF TypeOK
  <2>3. QED
    BY <2>1, <2>2
<1>4. QED
  BY <1>2, <1>3 DEF UpdatedTips

LEMMA LinkHeaderType ==
    ASSUME TypeOK, NEW h \in Header, Prev[h] \in Header, LinkHeader(h)
    PROVE  /\ cached' \subseteq Header
           /\ height' \in [Header -> Nat]
           /\ work' \in [Header -> Nat]
           /\ children' \in [Header -> SUBSET Header]
<1>1. Prev[h] \in Header /\ HeaderWork[h] \in Nat
  BY HeaderAssumption
<1>2. cached' \subseteq Header
  BY DEF TypeOK, LinkHeader
<1>3. height' \in [Header -> Nat]
  BY <1>1 DEF TypeOK, LinkHeader
<1>4. work' \in [Header -> Nat]
  BY <1>1 DEF TypeOK, LinkHeader
<1>5. children' \in [Header -> SUBSET Header]
  BY <1>1 DEF TypeOK, LinkHeader
<1>6. QED
  BY <1>2, <1>3, <1>4, <1>5

LEMMA NextTypeOK == TypeOK /\ [Next]_vars => TypeOK'
<1> SUFFICES ASSUME TypeOK, [Next]_vars PROVE TypeOK'
  OBVIOUS
<1>1. CASE AddHeadersStart
  <2>1. pending' \in Seq(Header)
    <3>1. pending' \in BoundedSeq(Header, MaxBatch)
      BY <1>1 DEF AddHeadersStart
    <3>2. QED
      BY <3>1, BoundedSeqIsSeq, BoundsAssumption
  <2>2. busy' \in BOOLEAN
    BY <1>1 DEF AddHeadersStart
  <2>3. QED
    BY <1>1, <2>1, <2>2 DEF AddHeadersStart, TypeOK, treeVars
<1>2. CASE AddHeadersStep
  <2> DEFINE h == Head(pending)
  <2>1. h \in Header
    BY <1>2 DEF AddHeadersStep, TypeOK
  <2>2. PICK valid \in BOOLEAN :
           LET r == AddHeaderOutcome(h, valid) IN
           /\ IF r = "HeaderAdded"
                 THEN LinkHeader(h) /\ tips' = UpdatedTips(h)
                 ELSE UNCHANGED <<treeVars, tips>>
           /\ pending' = IF r \in HeaderErrors THEN << >> ELSE Tail(pending)
    BY <1>2 DEF AddHeadersStep
  <2>3. pending' \in Seq(Header)
    BY <2>2, <1>2 DEF AddHeadersStep, TypeOK
  <2>4. CASE AddHeaderOutcome(h, valid) = "HeaderAdded"
    <3>1. Prev[h] \in Header
      BY <2>4 DEF AddHeaderOutcome, InsertResult, HeaderCacheContains, GetCachedHeaderFound, TypeOK
    <3>2. LinkHeader(h) /\ tips' = UpdatedTips(h)
      BY <2>2, <2>4
    <3>3. QED
      BY <3>1, <3>2, <2>1, <2>3, <1>2, LinkHeaderType, UpdatedTipsType
      DEF AddHeadersStep, TypeOK
  <2>5. CASE AddHeaderOutcome(h, valid) # "HeaderAdded"
    BY <2>2, <2>3, <2>5, <1>2 DEF AddHeadersStep, TypeOK, treeVars
  <2>6. QED
    BY <2>4, <2>5
<1>3. CASE AddHeadersEnd
  BY <1>3, SortedTipsType DEF AddHeadersEnd, TypeOK, treeVars
<1>4. CASE AddBlock
  <2>1. PICK b \in Header, valid \in BOOLEAN :
           LET r == AddHeaderOutcome(b, valid) IN
           /\ r \in AddHeaderResult
           /\ IF r = "HeaderAdded"
                 THEN LinkHeader(b) /\ tips' \in SortedTips(UpdatedTips(b))
                 ELSE UNCHANGED treeVars /\ tips' \in SortedTips(tips)
           /\ blockCache' = blockCache \cup {b}
    BY <1>4 DEF AddBlock
  <2>2. CASE AddHeaderOutcome(b, valid) = "HeaderAdded"
    <3>1. Prev[b] \in Header
      BY <2>2 DEF AddHeaderOutcome, InsertResult, HeaderCacheContains, GetCachedHeaderFound, TypeOK
    <3>2. UpdatedTips(b) \in Seq(TipRec)
      BY <3>1, UpdatedTipsType
    <3>3. tips' \in Seq(TipRec)
      BY <2>1, <2>2, <3>2, SortedTipsType
    <3>4. QED
      BY <2>1, <2>2, <3>1, <3>3, <1>4, LinkHeaderType DEF AddBlock, TypeOK
  <2>3. CASE AddHeaderOutcome(b, valid) # "HeaderAdded"
    <3>1. tips' \in Seq(TipRec)
      BY <2>1, <2>3, SortedTipsType DEF TypeOK
    <3>2. QED
      BY <2>1, <2>3, <3>1, <1>4 DEF AddBlock, TypeOK, treeVars
  <2>4. QED
    BY <2>2, <2>3
<1>5. CASE PruneBlocks
  BY <1>5 DEF PruneBlocks, TypeOK, treeVars
<1>6. CASE PruneBlocksBelowHeight
  BY <1>6 DEF PruneBlocksBelowHeight, TypeOK, treeVars
<1>7. CASE ClearBlocks
  BY <1>7 DEF ClearBlocks, TypeOK, treeVars
<1>8. CASE UNCHANGED vars
  BY <1>8 DEF vars, TypeOK
<1>9. QED
  BY <1>1, <1>2, <1>3, <1>4, <1>5, <1>6, <1>7, <1>8 DEF Next

\* BlockchainState is type correct in every reachable state.
THEOREM TypeCorrect == Spec => []TypeOK
BY InitTypeOK, NextTypeOK, PTL DEF Spec

-----------------------------------------------------------------------------
(* The tips are the leaves.                                                *)

\* A header that is not cached has no child in a well-formed tree: a
\* cached child of it would not be genesis, so its parent would be cached.
LEMMA UncachedIsChildless ==
    ASSUME TypeOK, HeaderTreeWellFormed, NEW h \in Header \ cached
    PROVE  children[h] = {}
<1>1. children[h] = {c \in cached : Prev[c] = h}
  BY DEF HeaderTreeWellFormed
<1>2. \A c \in cached : Prev[c] = h => c # Genesis
  BY HeaderAssumption
<1>3. \A c \in cached \ {Genesis} : Prev[c] \in cached
  BY DEF HeaderTreeWellFormed
<1>4. QED
  BY <1>1, <1>2, <1>3

\* HeaderCache::insert of a new header under a cached parent keeps the
\* tree well formed; the parent stops being a leaf and the header is one.
LEMMA LinkKeepsTree ==
    ASSUME TypeOK, HeaderTreeWellFormed,
           NEW h \in Header \ cached, Prev[h] \in cached, LinkHeader(h)
    PROVE  /\ HeaderTreeWellFormed'
           /\ Leaves' = (Leaves \ {Prev[h]}) \cup {h}
<1> DEFINE p == Prev[h]
<1>1. /\ cached' = cached \cup {h}
      /\ height' = [height EXCEPT ![h] = height[p] + 1]
      /\ work' = [work EXCEPT ![h] = work[p] + HeaderWork[h]]
      /\ children' = [children EXCEPT ![p] = @ \cup {h}]
  BY DEF LinkHeader
<1>2. p # h /\ Genesis # h /\ p \in Header
  BY DEF HeaderTreeWellFormed, TypeOK
<1>3. /\ Genesis \in cached'
      /\ height'[Genesis] = 0
      /\ work'[Genesis] = HeaderWork[Genesis]
  BY <1>1, <1>2, HeaderAssumption DEF HeaderTreeWellFormed, TypeOK
<1>4. ASSUME NEW x \in cached' \ {Genesis}
      PROVE  /\ Prev[x] \in cached'
             /\ height'[x] = height'[Prev[x]] + 1
             /\ work'[x] = work'[Prev[x]] + HeaderWork[x]
  <2>1. CASE x = h
    BY <1>1, <1>2, <2>1 DEF TypeOK
  <2>2. CASE x # h
    <3>1. x \in cached \ {Genesis}
      BY <1>1, <2>2
    <3>2. Prev[x] \in cached /\ Prev[x] # h
      BY <3>1 DEF HeaderTreeWellFormed
    <3>3. QED
      BY <1>1, <3>1, <3>2 DEF HeaderTreeWellFormed, TypeOK
  <2>3. QED
    BY <2>1, <2>2
<1>5. ASSUME NEW q \in Header
      PROVE  children'[q] = {c \in cached' : Prev[c] = q}
  <2>1. children[q] = {c \in cached : Prev[c] = q}
    BY DEF HeaderTreeWellFormed
  <2>2. CASE q = p
    BY <1>1, <1>2, <2>1, <2>2 DEF TypeOK
  <2>3. CASE q # p
    BY <1>1, <1>2, <2>1, <2>3 DEF TypeOK
  <2>4. QED
    BY <2>2, <2>3
<1>6. HeaderTreeWellFormed'
  BY <1>3, <1>4, <1>5 DEF HeaderTreeWellFormed
<1>7. children[h] = {}
  BY UncachedIsChildless
<1>8. Leaves' = (Leaves \ {p}) \cup {h}
  BY <1>1, <1>2, <1>7 DEF Leaves, TypeOK
<1>9. QED
  BY <1>6, <1>8

\* The tip update of add_header, after the header is linked, fits the new
\* leaves: the parent's tip (if the parent is a tip, it is one exactly
\* once) is replaced by the header's, and otherwise the header's is added.
LEMMA UpdatedTipsFit ==
    ASSUME TypeOK, HeaderTreeWellFormed, TipsFit(tips, Leaves, height, work),
           NEW h \in Header \ cached, Prev[h] \in cached, LinkHeader(h)
    PROVE  TipsFit(UpdatedTips(h), Leaves', height', work')
<1> DEFINE p   == Prev[h]
           new == NodeTip(h, height[p] + 1, work[p] + HeaderWork[h])
           at  == {i \in 1..Len(tips) : tips[i].header = p}
           L2  == (Leaves \ {p}) \cup {h}
           n   == Len(tips)
<1>1. Leaves' = L2
  BY LinkKeepsTree
<1>2. \A i \in 1..n : tips[i].header \in Leaves /\ tips[i].header # h
  BY DEF TipsFit, Leaves
<1>3. /\ height'[h] = height[p] + 1
      /\ work'[h] = work[p] + HeaderWork[h]
      /\ \A x \in Header \ {h} : height'[x] = height[x] /\ work'[x] = work[x]
  BY DEF LinkHeader, TypeOK
<1>4. /\ new.header = h
      /\ new.height = height'[h]
      /\ new.work = work'[h]
  BY <1>3 DEF NodeTip
<1>5. \A i \in 1..n : /\ tips[i].height = height'[tips[i].header]
                       /\ tips[i].work = work'[tips[i].header]
  <2>1. \A i \in 1..n : tips[i].header \in Header \ {h}
    <3>1. \A i \in 1..n : tips[i] \in TipRec
      BY DEF TypeOK
    <3>2. QED
      BY <3>1, <1>2 DEF TipRec
  <2>2. QED
    BY <2>1, <1>3 DEF TipsFit
<1>6. h \in L2 /\ p # h
  BY DEF Leaves
<1>7. CASE at = {}
  <2> DEFINE u == Append(tips, new)
  <2>1. UpdatedTips(h) = u
    BY <1>7 DEF UpdatedTips
  <2>2. Len(u) = n + 1 /\ u[n + 1] = new /\ \A i \in 1..n : u[i] = tips[i]
    BY AppendProperties DEF TypeOK
  <2>3. p \notin Leaves
    BY <1>7 DEF TipsFit
  <2>4. HdrInj(u)
    <3> SUFFICES ASSUME NEW i \in 1..n + 1, NEW j \in 1..n + 1,
                        u[i].header = u[j].header
                 PROVE  i = j
      BY <2>2 DEF HdrInj
    <3>1. CASE i \in 1..n /\ j \in 1..n
      BY <2>2, <3>1 DEF TipsFit, HdrInj
    <3>2. CASE i = n + 1 /\ j \in 1..n
      BY <1>2, <1>4, <2>2, <3>2
    <3>3. CASE i \in 1..n /\ j = n + 1
      BY <1>2, <1>4, <2>2, <3>3
    <3>4. QED
      BY <3>1, <3>2, <3>3
  <2>5. \A i \in 1..Len(u) : /\ u[i].header \in L2
                              /\ u[i].height = height'[u[i].header]
                              /\ u[i].work = work'[u[i].header]
    <3>1. \A i \in 1..n : tips[i].header \in L2
      BY <1>2, <2>3
    <3>2. QED
      BY <1>4, <1>5, <1>6, <2>2, <3>1
  <2>6. \A x \in L2 : \E i \in 1..Len(u) : u[i].header = x
    BY <1>4, <2>2 DEF TipsFit
  <2>7. TipsFit(u, L2, height', work')
    BY <2>4, <2>5, <2>6 DEF TipsFit
  <2>8. QED
    BY <1>1, <2>1, <2>7
<1>8. CASE at # {}
  <2>1. PICK k \in at : TRUE
    BY <1>8
  <2>2. at = {k}
    BY DEF TipsFit, HdrInj
  <2>3. Min(at) = k
    BY <2>2 DEF Min
  <2> DEFINE u == [tips EXCEPT ![k] = new]
  <2>4. UpdatedTips(h) = u
    BY <1>8, <2>3 DEF UpdatedTips
  <2>5. /\ Len(u) = n
        /\ u[k] = new
        /\ \A i \in 1..n \ {k} : u[i] = tips[i]
    BY DEF TypeOK
  <2>6. \A i \in 1..n \ {k} : tips[i].header # p
    BY <2>2
  <2>7. HdrInj(u)
    BY <1>2, <1>4, <2>5 DEF TipsFit, HdrInj
  <2>8. \A i \in 1..Len(u) : /\ u[i].header \in L2
                              /\ u[i].height = height'[u[i].header]
                              /\ u[i].work = work'[u[i].header]
    BY <1>2, <1>4, <1>5, <1>6, <2>5, <2>6
  <2>9. \A x \in L2 : \E i \in 1..Len(u) : u[i].header = x
    <3>1. \A x \in Leaves \ {p} : \E i \in 1..n \ {k} : tips[i].header = x
      BY <2>1 DEF TipsFit
    <3>2. QED
      BY <1>4, <2>1, <2>5, <3>1
  <2>10. TipsFit(u, L2, height', work')
    BY <2>7, <2>8, <2>9 DEF TipsFit
  <2>11. QED
    BY <1>1, <2>4, <2>10
<1>9. QED
  BY <1>7, <1>8

\* The inductive invariant: TypeOK, the tree well formed, and the tips
\* fitting its leaves.  TipsAreLeaves alone is not inductive: that a
\* header's parent is a tip exactly when it has no child needs the
\* children sets to be the inverse of Prev, and that a new header is no
\* tip's header needs every uncached header to be childless.
IInv == TypeOK /\ HeaderTreeWellFormed /\ TipsFit(tips, Leaves, height, work)

LEMMA InitIInv == Init => IInv
<1> SUFFICES ASSUME Init PROVE IInv
  OBVIOUS
<1>1. TypeOK
  BY InitTypeOK
<1>2. \A q \in Header : {c \in cached : Prev[c] = q} = {}
  BY HeaderAssumption DEF Init, HeaderCacheNew
<1>3. HeaderTreeWellFormed
  BY <1>2, HeaderAssumption DEF Init, HeaderCacheNew, HeaderTreeWellFormed
<1>4. Leaves = {Genesis}
  BY HeaderAssumption DEF Init, HeaderCacheNew, Leaves
<1>5. TipsFit(tips, Leaves, height, work)
  BY <1>4, HeaderAssumption DEF Init, HeaderCacheNew, TipsFit, HdrInj, NodeTip
<1>6. QED
  BY <1>1, <1>3, <1>5 DEF IInv

\* A step that leaves the tree alone and sorts, or keeps, the tips.
LEMMA SortStepKeepsIInv ==
    ASSUME IInv, TypeOK', UNCHANGED treeVars,
           tips' = tips \/ tips' \in SortedTips(tips)
    PROVE  IInv'
<1>1. HeaderTreeWellFormed'
  BY DEF IInv, HeaderTreeWellFormed, treeVars
<1>2. Leaves' = Leaves
  BY DEF Leaves, treeVars
<1>3. TipsFit(tips', Leaves, height, work)
  BY SortKeepsFit DEF IInv, TypeOK
<1>4. QED
  BY <1>1, <1>2, <1>3 DEF IInv, treeVars

\* add_header of a new header under a cached parent, with the tip update,
\* then possibly sorted (add_block).
LEMMA AddedKeepsIInv ==
    ASSUME IInv, TypeOK', NEW h \in Header \ cached, Prev[h] \in cached,
           LinkHeader(h),
           tips' = UpdatedTips(h) \/ tips' \in SortedTips(UpdatedTips(h))
    PROVE  IInv'
<1>1. HeaderTreeWellFormed'
  BY LinkKeepsTree DEF IInv
<1>2. TipsFit(UpdatedTips(h), Leaves', height', work')
  BY UpdatedTipsFit DEF IInv
<1>3. UpdatedTips(h) \in Seq(TipRec)
  BY UpdatedTipsType DEF IInv, HeaderTreeWellFormed, TypeOK
<1>4. TipsFit(tips', Leaves', height', work')
  BY <1>2, <1>3, SortKeepsFit
<1>5. QED
  BY <1>1, <1>4 DEF IInv

\* The outcome "HeaderAdded" means a new header whose parent is cached.
LEMMA AddedOutcome ==
    ASSUME NEW h, NEW valid, AddHeaderOutcome(h, valid) = "HeaderAdded"
    PROVE  h \notin cached /\ Prev[h] \in cached
BY DEF AddHeaderOutcome, InsertResult, HeaderCacheContains, GetCachedHeaderFound

LEMMA NextIInv == IInv /\ [Next]_vars => IInv'
<1> SUFFICES ASSUME IInv, [Next]_vars PROVE IInv'
  OBVIOUS
<1>0. TypeOK'
  BY NextTypeOK DEF IInv
<1>1. CASE AddHeadersStart
  BY <1>0, <1>1, SortStepKeepsIInv DEF AddHeadersStart
<1>2. CASE AddHeadersStep
  <2> DEFINE h == Head(pending)
  <2>1. h \in Header
    BY <1>2 DEF AddHeadersStep, IInv, TypeOK
  <2>2. PICK valid \in BOOLEAN :
           LET r == AddHeaderOutcome(h, valid) IN
           IF r = "HeaderAdded"
              THEN LinkHeader(h) /\ tips' = UpdatedTips(h)
              ELSE UNCHANGED <<treeVars, tips>>
    BY <1>2 DEF AddHeadersStep
  <2>3. CASE AddHeaderOutcome(h, valid) = "HeaderAdded"
    BY <1>0, <2>1, <2>2, <2>3, AddedOutcome, AddedKeepsIInv
  <2>4. CASE AddHeaderOutcome(h, valid) # "HeaderAdded"
    BY <1>0, <2>2, <2>4, SortStepKeepsIInv DEF treeVars
  <2>5. QED
    BY <2>3, <2>4
<1>3. CASE AddHeadersEnd
  BY <1>0, <1>3, SortStepKeepsIInv DEF AddHeadersEnd
<1>4. CASE AddBlock
  <2>1. PICK b \in Header, valid \in BOOLEAN :
           LET r == AddHeaderOutcome(b, valid) IN
           IF r = "HeaderAdded"
              THEN LinkHeader(b) /\ tips' \in SortedTips(UpdatedTips(b))
              ELSE UNCHANGED treeVars /\ tips' \in SortedTips(tips)
    BY <1>4 DEF AddBlock
  <2>2. CASE AddHeaderOutcome(b, valid) = "HeaderAdded"
    BY <1>0, <2>1, <2>2, AddedOutcome, AddedKeepsIInv
  <2>3. CASE AddHeaderOutcome(b, valid) # "HeaderAdded"
    BY <1>0, <2>1, <2>3, SortStepKeepsIInv
  <2>4. QED
    BY <2>2, <2>3
<1>5. CASE PruneBlocks \/ PruneBlocksBelowHeight \/ ClearBlocks
  BY <1>0, <1>5, SortStepKeepsIInv
  DEF PruneBlocks, PruneBlocksBelowHeight, ClearBlocks
<1>6. CASE UNCHANGED vars
  BY <1>0, <1>6, SortStepKeepsIInv DEF vars, treeVars
<1>7. QED
  BY <1>1, <1>2, <1>3, <1>4, <1>5, <1>6 DEF Next

\* Every cached header but genesis hangs under a cached parent, one
\* higher and heavier by its own work, and the children lists are exact.
THEOREM TreeWellFormed == Spec => []HeaderTreeWellFormed
<1>1. IInv => HeaderTreeWellFormed
  BY DEF IInv
<1>2. QED
  BY <1>1, InitIInv, NextIInv, PTL DEF Spec

\* The tips that add_header's update and the sorts maintain are exactly
\* the leaves of the header tree, each once, with their nodes' height and
\* work, for every header universe.
THEOREM TipsAreLeavesInvariant == Spec => []TipsAreLeaves
<1>1. IInv => TipsAreLeaves
  BY TipsAreLeavesFit DEF IInv
<1>2. QED
  BY <1>1, InitIInv, NextIInv, PTL DEF Spec

-----------------------------------------------------------------------------
(* The active tip is the heaviest node.                                    *)

\* Every cached header has a tip at least as heavy.
Dominated == \A x \in cached : \E i \in 1..Len(tips) : work[x] <= tips[i].work

\* Between calls the tips are in descending work.
SortedAtRest == ~busy => IsSorted(tips, WorkGeq)

\* Every tip of the input of a sort is somewhere in its output.
LEMMA SortedCovers ==
    ASSUME NEW T, NEW t \in Seq(T), NEW s \in SortedTips(t)
    PROVE  \A i \in 1..Len(t) : \E j \in 1..Len(s) : s[j] = t[i]
<1> DEFINE n == Len(t)
<1>1. PICK p \in Bijection(1..n, 1..n) : s = [i \in 1..n |-> t[p[i]]]
  BY SortedIsRearrangement
<1>2. \A j \in 1..n : \E i \in 1..n : p[i] = j
  BY DEF Bijection, Surjection
<1>3. QED
  BY <1>1, <1>2, SortedTipsType

\* A sort keeps every header dominated.
LEMMA SortKeepsDominated ==
    ASSUME NEW T, NEW t \in Seq(T), NEW s \in SortedTips(t), NEW S, NEW w,
           \A x \in S : \E i \in 1..Len(t) : w[x] <= t[i].work
    PROVE  \A x \in S : \E j \in 1..Len(s) : w[x] <= s[j].work
BY SortedCovers

\* After add_header's tip update every cached header, the new one
\* included, is dominated: the new tip is heavier than the parent's tip
\* it may replace.
LEMMA UpdatedTipsDominate ==
    ASSUME IInv, Dominated,
           NEW h \in Header \ cached, Prev[h] \in cached, LinkHeader(h)
    PROVE  \A x \in cached' : \E i \in 1..Len(UpdatedTips(h)) :
              work'[x] <= UpdatedTips(h)[i].work
<1> DEFINE p   == Prev[h]
           new == NodeTip(h, height[p] + 1, work[p] + HeaderWork[h])
           at  == {i \in 1..Len(tips) : tips[i].header = p}
           n   == Len(tips)
           u   == UpdatedTips(h)
<1>1. /\ cached' = cached \cup {h}
      /\ work' = [work EXCEPT ![h] = work[p] + HeaderWork[h]]
  BY DEF LinkHeader
<1>2. work'[h] = new.work
  BY <1>1 DEF IInv, TypeOK, NodeTip
<1>3. \A x \in cached : work'[x] = work[x]
  BY <1>1 DEF IInv, TypeOK
<1>4. new.work >= work[p]
  <2>1. work[p] \in Nat /\ HeaderWork[h] \in Nat
    BY HeaderAssumption DEF IInv, TypeOK
  <2>2. QED
    BY <2>1 DEF NodeTip
<1>5. \A x \in cached : \E i \in 1..n : work'[x] <= tips[i].work
  BY <1>3 DEF Dominated
<1>9. new.work \in Nat
  <2>1. work[p] \in Nat /\ HeaderWork[h] \in Nat
    BY HeaderAssumption DEF IInv, TypeOK
  <2>2. QED
    BY <2>1 DEF NodeTip
<1>6. CASE at = {}
  <2>1. u = Append(tips, new)
    BY <1>6 DEF UpdatedTips
  <2>2. Len(u) = n + 1 /\ u[n + 1] = new /\ \A i \in 1..n : u[i] = tips[i]
    BY <2>1, AppendProperties DEF IInv, TypeOK
  <2>3. SUFFICES ASSUME NEW x \in cached'
                 PROVE  \E i \in 1..Len(u) : work'[x] <= u[i].work
    OBVIOUS
  <2>4. CASE x = h
    <3>1. work'[x] <= u[n + 1].work
      BY <1>2, <1>9, <2>2, <2>4
    <3>2. n + 1 \in 1..Len(u)
      BY <2>2 DEF IInv, TypeOK
    <3>3. QED
      BY <3>1, <3>2
  <2>5. CASE x # h
    <3>1. PICK i \in 1..n : work'[x] <= tips[i].work
      BY <1>1, <1>5, <2>5
    <3>2. QED
      BY <3>1, <2>2
  <2>6. QED
    BY <2>4, <2>5
<1>7. CASE at # {}
  <2>1. PICK k \in at : TRUE
    BY <1>7
  <2>2. at = {k}
    BY DEF IInv, TipsFit, HdrInj
  <2>3. Min(at) = k
    BY <2>2 DEF Min
  <2>4. u = [tips EXCEPT ![k] = new]
    BY <1>7, <2>3 DEF UpdatedTips
  <2>5. /\ Len(u) = n
        /\ u[k] = new
        /\ \A i \in 1..n \ {k} : u[i] = tips[i]
    BY <2>4 DEF IInv, TypeOK
  <2>6. tips[k].work = work[p] /\ tips[k].work \in Nat
    BY <2>1 DEF IInv, TipsFit, TypeOK, TipRec
  <2>7. SUFFICES ASSUME NEW x \in cached'
                 PROVE  \E i \in 1..Len(u) : work'[x] <= u[i].work
    OBVIOUS
  <2>8. CASE x = h
    <3>1. work'[x] <= u[k].work
      BY <1>2, <1>9, <2>5, <2>8
    <3>2. QED
      BY <3>1, <2>1, <2>5
  <2>9. CASE x # h
    <3>1. PICK i \in 1..n : work'[x] <= tips[i].work
      BY <1>1, <1>5, <2>9
    <3>2. CASE i = k
      <4>0. work'[x] \in Nat
        BY <1>1, <1>3, <2>9 DEF IInv, TypeOK
      <4>1. work'[x] <= u[k].work
        BY <4>0, <1>4, <1>9, <2>5, <2>6, <3>1, <3>2
      <4>2. QED
        BY <4>1, <2>1, <2>5
    <3>3. CASE i # k
      BY <3>1, <3>3, <2>5
    <3>4. QED
      BY <3>2, <3>3
  <2>10. QED
    BY <2>8, <2>9
<1>8. QED
  BY <1>6, <1>7

\* The inductive invariant for the fork choice.  ActiveTipHeaviest is not
\* inductive: in the middle of add_headers the tips are unsorted, and
\* what survives that is that every node is dominated by some tip.
HInv == IInv /\ Dominated /\ SortedAtRest

LEMMA InitHInv == Init => HInv
<1> SUFFICES ASSUME Init PROVE HInv
  OBVIOUS
<1>1. IInv
  BY InitIInv
<1>2. HeaderWork[Genesis] \in Nat
  BY HeaderAssumption
<1>3. Dominated
  <2>1. tips[1].work = HeaderWork[Genesis] /\ Len(tips) = 1
    BY DEF Init, HeaderCacheNew, NodeTip
  <2>2. work[Genesis] = HeaderWork[Genesis]
    BY HeaderAssumption DEF Init, HeaderCacheNew
  <2>3. QED
    BY <1>2, <2>1, <2>2 DEF Init, HeaderCacheNew, Dominated
<1>4. SortedAtRest
  BY DEF Init, HeaderCacheNew, SortedAtRest, IsSorted
<1>5. QED
  BY <1>1, <1>3, <1>4 DEF HInv

\* A step that sorts or keeps the tips of an unchanged tree keeps every
\* node dominated.
LEMMA SortStepKeepsDominated ==
    ASSUME IInv, Dominated, UNCHANGED treeVars,
           tips' = tips \/ tips' \in SortedTips(tips)
    PROVE  Dominated'
<1>1. \A x \in cached : \E i \in 1..Len(tips') : work[x] <= tips'[i].work
  <2>1. CASE tips' = tips
    BY <2>1 DEF Dominated
  <2>2. CASE tips' \in SortedTips(tips)
    BY <2>2, SortKeepsDominated DEF IInv, TypeOK, Dominated
  <2>3. QED
    BY <2>1, <2>2
<1>2. QED
  BY <1>1 DEF Dominated, treeVars

LEMMA NextHInv == HInv /\ [Next]_vars => HInv'
<1> SUFFICES ASSUME HInv, [Next]_vars PROVE HInv'
  OBVIOUS
<1>0. IInv' /\ TypeOK'
  BY NextIInv, NextTypeOK DEF HInv, IInv
<1>1. CASE AddHeadersStart
  <2>1. Dominated'
    BY <1>1, SortStepKeepsDominated DEF HInv, AddHeadersStart
  <2>2. SortedAtRest'
    BY <1>1 DEF AddHeadersStart, SortedAtRest
  <2>3. QED
    BY <1>0, <2>1, <2>2 DEF HInv
<1>2. CASE AddHeadersStep
  <2> DEFINE h == Head(pending)
  <2>1. h \in Header
    BY <1>2 DEF AddHeadersStep, HInv, IInv, TypeOK
  <2>2. PICK valid \in BOOLEAN :
           LET r == AddHeaderOutcome(h, valid) IN
           IF r = "HeaderAdded"
              THEN LinkHeader(h) /\ tips' = UpdatedTips(h)
              ELSE UNCHANGED <<treeVars, tips>>
    BY <1>2 DEF AddHeadersStep
  <2>3. Dominated'
    <3>1. CASE AddHeaderOutcome(h, valid) = "HeaderAdded"
      <4>1. h \notin cached /\ Prev[h] \in cached
        BY <3>1, AddedOutcome
      <4>2. LinkHeader(h) /\ tips' = UpdatedTips(h)
        BY <2>2, <3>1
      <4>3. \A x \in cached' : \E i \in 1..Len(UpdatedTips(h)) :
               work'[x] <= UpdatedTips(h)[i].work
        BY <2>1, <4>1, <4>2, UpdatedTipsDominate DEF HInv
      <4>4. QED
        BY <4>2, <4>3 DEF Dominated
    <3>2. CASE AddHeaderOutcome(h, valid) # "HeaderAdded"
      BY <2>2, <3>2, SortStepKeepsDominated DEF HInv, treeVars
    <3>3. QED
      BY <3>1, <3>2
  <2>4. SortedAtRest'
    BY <1>2 DEF AddHeadersStep, SortedAtRest
  <2>5. QED
    BY <1>0, <2>3, <2>4 DEF HInv
<1>3. CASE AddHeadersEnd
  <2>1. Dominated'
    BY <1>3, SortStepKeepsDominated DEF HInv, AddHeadersEnd
  <2>2. SortedAtRest'
    BY <1>3 DEF AddHeadersEnd, SortedAtRest, SortedTips
  <2>3. QED
    BY <1>0, <2>1, <2>2 DEF HInv
<1>4. CASE AddBlock
  <2>1. PICK b \in Header, valid \in BOOLEAN :
           LET r == AddHeaderOutcome(b, valid) IN
           IF r = "HeaderAdded"
              THEN LinkHeader(b) /\ tips' \in SortedTips(UpdatedTips(b))
              ELSE UNCHANGED treeVars /\ tips' \in SortedTips(tips)
    BY <1>4 DEF AddBlock
  <2>2. Dominated'
    <3>1. CASE AddHeaderOutcome(b, valid) = "HeaderAdded"
      <4>1. b \notin cached /\ Prev[b] \in cached
        BY <3>1, AddedOutcome
      <4>2. LinkHeader(b) /\ tips' \in SortedTips(UpdatedTips(b))
        BY <2>1, <3>1
      <4>3. \A x \in cached' : \E i \in 1..Len(UpdatedTips(b)) :
               work'[x] <= UpdatedTips(b)[i].work
        BY <4>1, <4>2, UpdatedTipsDominate DEF HInv
      <4>4. UpdatedTips(b) \in Seq(TipRec)
        BY <4>1, UpdatedTipsType DEF HInv, IInv, TypeOK
      <4>5. \A x \in cached' : \E i \in 1..Len(tips') : work'[x] <= tips'[i].work
        BY <4>2, <4>3, <4>4, SortKeepsDominated
      <4>6. QED
        BY <4>5 DEF Dominated
    <3>2. CASE AddHeaderOutcome(b, valid) # "HeaderAdded"
      BY <2>1, <3>2, SortStepKeepsDominated DEF HInv
    <3>3. QED
      BY <3>1, <3>2
  <2>3. IsSorted(tips', WorkGeq)
    BY <2>1 DEF SortedTips
  <2>4. QED
    BY <1>0, <2>2, <2>3 DEF HInv, SortedAtRest
<1>5. CASE PruneBlocks \/ PruneBlocksBelowHeight \/ ClearBlocks \/ UNCHANGED vars
  <2>1. UNCHANGED <<treeVars, tips, busy>>
    BY <1>5 DEF PruneBlocks, PruneBlocksBelowHeight, ClearBlocks, vars, treeVars
  <2>2. Dominated'
    BY <2>1, SortStepKeepsDominated DEF HInv
  <2>3. SortedAtRest'
    BY <2>1 DEF HInv, SortedAtRest
  <2>4. QED
    BY <1>0, <2>2, <2>3 DEF HInv
<1>6. QED
  BY <1>1, <1>2, <1>3, <1>4, <1>5 DEF Next

\* Between calls the active tip exists and is at least as heavy as every
\* cached header.
LEMMA HInvActiveTip == HInv => ActiveTipHeaviest
<1> SUFFICES ASSUME HInv, ~busy
             PROVE  Len(tips) > 0 /\ \A x \in cached : work[x] <= ActiveTip.work
  BY DEF ActiveTipHeaviest
<1>1. Genesis \in cached
  BY DEF HInv, IInv, HeaderTreeWellFormed
<1>2. Len(tips) > 0
  BY <1>1 DEF HInv, Dominated
<1>3. \A i \in 1..Len(tips) : tips[i].work \in Nat
  <2>1. \A i \in 1..Len(tips) : tips[i] \in TipRec
    BY DEF HInv, IInv, TypeOK
  <2>2. QED
    BY <2>1 DEF TipRec
<1>4. \A i \in 1..Len(tips) : tips[i].work <= tips[1].work
  BY <1>2, <1>3 DEF HInv, SortedAtRest, IsSorted, WorkGeq
<1>5. \A x \in cached : work[x] \in Nat
  BY DEF HInv, IInv, TypeOK
<1>6. QED
  BY <1>2, <1>3, <1>4, <1>5 DEF HInv, Dominated, ActiveTip

\* add_headers and add_block leave the tips sorted by descending work and
\* headed by a tip at least as heavy as every cached header: the fork
\* choice of get_active_chain_tip picks a heaviest chain, for every header
\* universe.
THEOREM ActiveTipIsHeaviest == Spec => []ActiveTipHeaviest
BY InitHInv, NextHInv, HInvActiveTip, PTL DEF Spec

-----------------------------------------------------------------------------
(* Refinement of ChainStore.                                               *)

\* Every step of BlockchainState is a step of ChainStore on the keys of the
\* header and block caches, or leaves both unchanged.
LEMMA StepRefines == TypeOK /\ [Next]_vars => [Store!StoreNext]_Store!storeVars
<1> SUFFICES ASSUME TypeOK, [Next]_vars
             PROVE  [Store!StoreNext]_Store!storeVars
  OBVIOUS
<1>1. CASE AddHeadersStart \/ AddHeadersEnd
  BY <1>1 DEF AddHeadersStart, AddHeadersEnd, treeVars, Store!storeVars
<1>2. CASE AddHeadersStep
  <2> DEFINE h == Head(pending)
  <2>1. h \in Header
    BY <1>2 DEF AddHeadersStep, TypeOK
  <2>2. PICK valid \in BOOLEAN :
           LET r == AddHeaderOutcome(h, valid) IN
           /\ IF r = "HeaderAdded"
                 THEN LinkHeader(h) /\ tips' = UpdatedTips(h)
                 ELSE UNCHANGED <<treeVars, tips>>
           /\ pending' = IF r \in HeaderErrors THEN << >> ELSE Tail(pending)
    BY <1>2 DEF AddHeadersStep
  <2>3. CASE AddHeaderOutcome(h, valid) = "HeaderAdded"
    <3>1. h \notin cached /\ Prev[h] \in cached
      BY <2>3 DEF AddHeaderOutcome, InsertResult, HeaderCacheContains, GetCachedHeaderFound
    <3>2. Store!AddHeader(h)
      BY <1>2, <2>1, <2>2, <2>3, <3>1
      DEF AddHeadersStep, LinkHeader, Store!AddHeader
    <3>3. QED
      BY <2>1, <3>2 DEF Store!StoreNext
  <2>4. CASE AddHeaderOutcome(h, valid) # "HeaderAdded"
    BY <1>2, <2>2, <2>4 DEF AddHeadersStep, treeVars, Store!storeVars
  <2>5. QED
    BY <2>3, <2>4
<1>3. CASE AddBlock
  <2>1. PICK b \in Header, valid \in BOOLEAN :
           LET r == AddHeaderOutcome(b, valid) IN
           /\ r \in AddHeaderResult
           /\ IF r = "HeaderAdded"
                 THEN LinkHeader(b) /\ tips' \in SortedTips(UpdatedTips(b))
                 ELSE UNCHANGED treeVars /\ tips' \in SortedTips(tips)
           /\ blockCache' = blockCache \cup {b}
    BY <1>3 DEF AddBlock
  <2>2. CASE AddHeaderOutcome(b, valid) = "HeaderAdded"
    <3>1. Prev[b] \in cached
      BY <2>2 DEF AddHeaderOutcome, InsertResult, HeaderCacheContains, GetCachedHeaderFound
    <3>2. cached' = cached \cup {b}
      BY <2>1, <2>2 DEF LinkHeader
    <3>3. Store!CacheBlock(b)
      BY <2>1, <3>1, <3>2 DEF Store!CacheBlock
    <3>4. QED
      BY <3>3 DEF Store!StoreNext
  <2>3. CASE AddHeaderOutcome(b, valid) # "HeaderAdded"
    <3>1. b \in cached
      BY <2>1, <2>3 DEF AddHeaderOutcome, InsertResult, HeaderCacheContains, GetCachedHeaderFound, AddHeaderResult
    <3>2. cached' = cached
      BY <2>1, <2>3 DEF treeVars
    <3>3. Store!CacheBlock(b)
      BY <2>1, <3>1, <3>2 DEF Store!CacheBlock
    <3>4. QED
      BY <3>3 DEF Store!StoreNext
  <2>4. QED
    BY <2>2, <2>3
<1>4. CASE PruneBlocks \/ PruneBlocksBelowHeight \/ ClearBlocks
  <2>1. Store!DropBlocks
    BY <1>4 DEF PruneBlocks, PruneBlocksBelowHeight, ClearBlocks, treeVars,
       Store!DropBlocks
  <2>2. QED
    BY <2>1 DEF Store!StoreNext
<1>5. CASE UNCHANGED vars
  BY <1>5 DEF vars, Store!storeVars
<1>6. QED
  BY <1>1, <1>2, <1>3, <1>4, <1>5 DEF Next

\* BlockchainState implements ChainStore: the header and block caches
\* only change as the store's lifecycle allows.
THEOREM RefinesChainStore == Spec => ImplementsChainStore
<1>1. Init => Store!StoreInit
  BY DEF Init, HeaderCacheNew, Store!StoreInit
<1>2. QED
  BY <1>1, StepRefines, TypeCorrect, PTL
  DEF Spec, ImplementsChainStore, Store!StoreSpec

\* A cached block always has its header in the header cache, for every
\* header universe: ChainStore keeps it, and BlockchainState implements
\* ChainStore.
THEOREM BlocksHaveHeadersInvariant == Spec => []BlocksHaveHeaders
<1>1. Store!BlocksKnown => BlocksHaveHeaders
  BY DEF Store!BlocksKnown, BlocksHaveHeaders, GetBlockFound, IsBlockHashKnown,
     HeaderCacheContains
<1>2. QED
  BY <1>1, RefinesChainStore, Store!StoreBlocksKnown, PTL
  DEF ImplementsChainStore

=============================================================================
