--------------------------- MODULE BlockchainState ---------------------------
(***************************************************************************)
(* The blockchain state engine of src/blockchainstate.rs: the header tree  *)
(* (HeaderCache), the tip list with its fork choice, and the block cache.  *)
(*                                                                         *)
(* A header is a model value.  What the code derives from its bytes is     *)
(* given by constants: Prev[h] is h.prev_blockhash and HeaderWork[h] is    *)
(* h.work().  A HeaderNode is spread over the functions height, work and   *)
(* children; only the entries of cached headers mean anything.             *)
(*                                                                         *)
(* BlockchainState is owned by one task behind a mutex (src/main.rs:47),   *)
(* so every public call is one atomic step, except add_headers: its loop   *)
(* calls the external validate_header with the state half updated, so     *)
(* each iteration of that loop is a step of its own and `busy` marks a     *)
(* call in progress (no other call can start until it ends).               *)
(***************************************************************************)
EXTENDS Naturals, Sequences, FiniteSets, SequencesExt

CONSTANTS
    Header,      \* the headers peers can send us, the genesis header included
    Genesis,     \* genesis_block(network).header
    ZeroHash,    \* a prev_blockhash that names no header (the all-zero hash)
    Prev,        \* Prev[h] = h.prev_blockhash
    HeaderWork,  \* HeaderWork[h] = h.work(), the work of h alone
    MaxBatch,    \* the longest `headers` message explored
    MaxHeight    \* the largest height given to prune_blocks_below_height

ASSUME HeaderAssumption ==
    /\ Genesis \in Header
    /\ ZeroHash \notin Header
    /\ Prev \in [Header -> Header \cup {ZeroHash}]
    /\ Prev[Genesis] = ZeroHash
    /\ HeaderWork \in [Header -> Nat \ {0}]

ASSUME BoundsAssumption == MaxBatch \in Nat /\ MaxHeight \in Nat

VARIABLES
    cached,      \* keys of header_cache.headers
    height,      \* height[h] = HeaderNode.height of cached h
    work,        \* work[h]   = HeaderNode.work of cached h (cumulative)
    children,    \* children[h] = HeaderNode.children of cached h
    tips,        \* BlockchainState.tips: a sequence of Tip records
    blockCache,  \* keys of block_cache
    busy,        \* an add_headers call is in progress
    pending      \* the headers that call has still to process

vars == <<cached, height, work, children, tips, blockCache, busy, pending>>
treeVars == <<cached, height, work, children>>

\* struct Tip: a copy of a header node's header, height and work.
TipRec == [header : Header, height : Nat, work : Nat]

TypeOK ==
    /\ cached \subseteq Header
    /\ height \in [Header -> Nat]
    /\ work \in [Header -> Nat]
    /\ children \in [Header -> SUBSET Header]
    /\ tips \in Seq(TipRec)
    /\ blockCache \subseteq Header
    /\ busy \in BOOLEAN
    /\ pending \in Seq(Header)

-----------------------------------------------------------------------------
(* Helpers.                                                                *)

\* The Tip of a header node, as built in add_header and in new().
NodeTip(h, ht, wk) == [header |-> h, height |-> ht, work |-> wk]

\* The comparator of both sorts: b.work.cmp(&a.work), i.e. descending work.
WorkGeq(a, b) == a.work >= b.work

\* Mutant of SortedTips: the comparator's operands swapped (ascending).
SortedTipsAscending(t) ==
    { s \in { [i \in 1..Len(t) |-> t[p[i]]] :
                 p \in Bijection(1..Len(t), 1..Len(t)) } :
        IsSorted(s, LAMBDA a, b : b.work >= a.work) }

\* tips.sort_unstable_by(|a, b| b.work.cmp(&a.work)).  An unstable sort
\* promises only that the result is a rearrangement of t in descending
\* work: equal-work tips may come out in any order.
Rearrangements(t) ==
    { [i \in 1..Len(t) |-> t[p[i]]] : p \in Bijection(1..Len(t), 1..Len(t)) }
SortedTips(t) == { s \in Rearrangements(t) : IsSorted(s, WorkGeq) }

\* get_active_chain_tip: tips[0] in the code, tips[1] here.
ActiveTip == tips[1]

\* HeaderCache::get and contains: a lookup of the headers map.
HeaderCacheContains(h) == h \in cached

\* get_cached_header(h) returns Some(node).
GetCachedHeaderFound(h) == HeaderCacheContains(h)

\* The result of HeaderCache::insert(h): Err(AlreadyExists), Err(NotFound)
\* when the parent is not cached, or Ok(()) when it links h.
InsertResult(h) ==
    IF HeaderCacheContains(h) THEN "AlreadyExists"
    ELSE IF ~HeaderCacheContains(Prev[h]) THEN "NotFound"
    ELSE "Ok"

\* add_header: the lookup of get_cached_header, then validate_header (the
\* verdict of the external validator is the input `valid`), then the match
\* on HeaderCache::insert.  validate_header only reads the state, so the
\* AlreadyExists arm of that match cannot be reached after the lookup.
AddHeaderOutcome(h, valid) ==
    IF GetCachedHeaderFound(h) THEN "HeaderAlreadyExists"
    ELSE IF ~valid THEN "InvalidHeader"
    ELSE IF InsertResult(h) = "NotFound" THEN "PrevHeaderNotCached"
    ELSE IF InsertResult(h) = "AlreadyExists" THEN "HeaderAlreadyExists"
    ELSE "HeaderAdded"

\* enum AddHeaderResult: the Ok values of add_header.
AddHeaderResult == {"HeaderAdded", "HeaderAlreadyExists"}

HeaderErrors == {"InvalidHeader", "PrevHeaderNotCached"}

\* Mutant of LinkHeader: parent.work - header.work instead of +.
LinkHeaderSubtractsWork(h) ==
    LET p == Prev[h] IN
    /\ cached' = cached \cup {h}
    /\ height' = [height EXCEPT ![h] = height[p] + 1]
    /\ work' = [work EXCEPT ![h] = work[p] - HeaderWork[h]]
    /\ children' = [children EXCEPT ![p] = @ \cup {h}]

\* Mutant of LinkHeader: the parent.children.lock().push(..) is lost.
LinkHeaderNoChildLink(h) ==
    LET p == Prev[h] IN
    /\ cached' = cached \cup {h}
    /\ height' = [height EXCEPT ![h] = height[p] + 1]
    /\ work' = [work EXCEPT ![h] = work[p] + HeaderWork[h]]
    /\ UNCHANGED children

\* HeaderCache::insert of a header whose parent is cached: a new node one
\* higher and HeaderWork[h] heavier than its parent, linked as a child.
LinkHeader(h) ==
    LET p == Prev[h] IN
    /\ cached' = cached \cup {h}
    /\ height' = [height EXCEPT ![h] = height[p] + 1]
    /\ work' = [work EXCEPT ![h] = work[p] + HeaderWork[h]]
    /\ children' = [children EXCEPT ![p] = @ \cup {h}]

\* Mutant of UpdatedTips: the parent's tip is never replaced.
UpdatedTipsAlwaysAppend(h) ==
    LET p == Prev[h] IN
    Append(tips, NodeTip(h, height[p] + 1, work[p] + HeaderWork[h]))

\* The tip update of add_header: the first tip whose header is h's parent
\* is replaced by h's tip, else h's tip is pushed at the end.
UpdatedTips(h) ==
    LET p   == Prev[h]
        new == NodeTip(h, height[p] + 1, work[p] + HeaderWork[h])
        at  == {i \in 1..Len(tips) : tips[i].header = p}
    IN  IF at = {} THEN Append(tips, new)
                   ELSE [tips EXCEPT ![Min(at)] = new]

-----------------------------------------------------------------------------
\* HeaderCache::new: the genesis node alone, at height 0, with its own
\* work and no children.
HeaderCacheNew ==
    /\ cached = {Genesis}
    /\ height = [h \in Header |-> 0]
    /\ work = [h \in Header |-> IF h = Genesis THEN HeaderWork[Genesis] ELSE 0]
    /\ children = [h \in Header |-> {}]

(* BlockchainState::new: the header cache holds the genesis node alone,    *)
(* which is the only tip; no block is cached.                              *)
Init ==
    /\ HeaderCacheNew
    /\ tips = << NodeTip(Genesis, 0, HeaderWork[Genesis]) >>
    /\ blockCache = {}
    /\ busy = FALSE
    /\ pending = << >>

\* add_headers(headers) is called with a message of at most MaxBatch headers.
AddHeadersStart ==
    /\ ~busy
    /\ \E batch \in BoundedSeq(Header, MaxBatch) :
          /\ busy' = TRUE
          /\ pending' = batch
    /\ UNCHANGED <<treeVars, tips, blockCache>>

\* One iteration of its try_for_each: add_header on the next header.  A
\* header already cached is skipped; an error ends the loop; an added
\* header is linked into the tree and the tips are updated.
AddHeadersStep ==
    /\ busy
    /\ pending # << >>
    /\ LET h == Head(pending) IN
       \E valid \in BOOLEAN :
          LET r == AddHeaderOutcome(h, valid) IN
          /\ IF r = "HeaderAdded"
                THEN LinkHeader(h) /\ tips' = UpdatedTips(h)
                ELSE UNCHANGED <<treeVars, tips>>
          /\ pending' = IF r \in HeaderErrors THEN << >> ELSE Tail(pending)
    /\ UNCHANGED <<blockCache, busy>>

\* After the loop, whether it ended early or not: the tips are sorted.
AddHeadersEnd ==
    /\ busy
    /\ pending = << >>
    /\ tips' \in SortedTips(tips)
    /\ busy' = FALSE
    /\ UNCHANGED <<treeVars, blockCache, pending>>

\* Mutant of AddBlock: the block is cached even when its header is
\* rejected (the `?` after add_header dropped).
AddBlockIgnoringHeaderError ==
    /\ ~busy
    /\ \E b \in Header, valid \in BOOLEAN :
          LET r == AddHeaderOutcome(b, valid) IN
          /\ IF r = "HeaderAdded"
                THEN LinkHeader(b) /\ tips' \in SortedTips(UpdatedTips(b))
                ELSE UNCHANGED treeVars /\ tips' \in SortedTips(tips)
          /\ blockCache' = blockCache \cup {b}
    /\ UNCHANGED <<busy, pending>>

\* add_block(block) that succeeds.  A block whose merkle root is wrong, or
\* whose header add_header rejects, returns an error before any change and
\* is a stuttering step.  Otherwise the header is added if new, the tips
\* are sorted and the block is cached.
AddBlock ==
    /\ ~busy
    /\ \E b \in Header, valid \in BOOLEAN :
          LET r == AddHeaderOutcome(b, valid) IN
          /\ r \in AddHeaderResult
          /\ IF r = "HeaderAdded"
                THEN LinkHeader(b) /\ tips' \in SortedTips(UpdatedTips(b))
                ELSE UNCHANGED treeVars /\ tips' \in SortedTips(tips)
          /\ blockCache' = blockCache \cup {b}
    /\ UNCHANGED <<busy, pending>>

\* Mutant of PruneBlocks: the hashes are removed from the header cache
\* instead of the block cache.
PruneBlocksFromHeaderCache ==
    /\ ~busy
    /\ \E hs \in SUBSET Header : cached' = cached \ hs
    /\ UNCHANGED <<height, work, children, tips, blockCache, busy, pending>>

\* prune_blocks(block_hashes): absent hashes are ignored.
PruneBlocks ==
    /\ ~busy
    /\ \E hs \in SUBSET Header : blockCache' = blockCache \ hs
    /\ UNCHANGED <<treeVars, tips, busy, pending>>

\* prune_blocks_below_height(height): a block whose header is not cached
\* counts as height 0.
BlockHeight(b) == IF b \in cached THEN height[b] ELSE 0

PruneBlocksBelowHeight ==
    /\ ~busy
    /\ \E k \in 0..MaxHeight :
          blockCache' = {b \in blockCache : ~(k > BlockHeight(b))}
    /\ UNCHANGED <<treeVars, tips, busy, pending>>

\* clear_blocks
ClearBlocks ==
    /\ ~busy
    /\ blockCache' = {}
    /\ UNCHANGED <<treeVars, tips, busy, pending>>

Next ==
    \/ AddHeadersStart
    \/ AddHeadersStep
    \/ AddHeadersEnd
    \/ AddBlock
    \/ PruneBlocks
    \/ PruneBlocksBelowHeight
    \/ ClearBlocks

Spec == Init /\ [][Next]_vars

-----------------------------------------------------------------------------
(* Properties.                                                             *)

\* The header tree of the HeaderNode docs and of spec invariants 1 and 2:
\* every cached header but genesis has its parent cached, is one higher
\* and HeaderWork heavier than it, and is among its children exactly when
\* it is a cached header naming it as parent.  (The inductive core of the
\* proofs; a lost children.push breaks the children conjunct.)
HeaderTreeWellFormed ==
    /\ Genesis \in cached
    /\ height[Genesis] = 0
    /\ work[Genesis] = HeaderWork[Genesis]
    /\ \A h \in cached \ {Genesis} :
          /\ Prev[h] \in cached
          /\ height[h] = height[Prev[h]] + 1
          /\ work[h] = work[Prev[h]] + HeaderWork[h]
    /\ \A p \in Header : children[p] = {c \in cached : Prev[c] = p}

\* The headers named by the tips, in order.
TipHeaders == [i \in 1..Len(tips) |-> tips[i].header]

\* The tips are exactly the leaves of the header tree, each once, and each
\* tip's copied height and work are its node's (spec invariant 3).  The
\* tip update of add_header keeps this only because a header's parent is
\* a tip exactly when the parent has no child yet.
TipsAreLeaves ==
    /\ IsInjective(TipHeaders)
    /\ Range(TipHeaders) = {h \in cached : children[h] = {}}
    /\ \A i \in 1..Len(tips) :
          /\ tips[i].height = height[tips[i].header]
          /\ tips[i].work = work[tips[i].header]

\* Between calls, get_active_chain_tip is defined and no cached header has
\* more cumulative work than it: the fork choice picks a heaviest chain
\* (spec invariant 4).  Rests on the tips being the leaves, work growing
\* along every edge, and the sort at the end of add_headers and add_block.
ActiveTipHeaviest ==
    ~busy => /\ Len(tips) > 0
             /\ \A h \in cached : work[h] <= ActiveTip.work

\* is_block_hash_known: the header cache contains the hash.
IsBlockHashKnown(h) == HeaderCacheContains(h)

\* get_block returns Some(block).
GetBlockFound(b) == b \in blockCache

\* A block get_block returns always has its header known to the header
\* cache (spec 3, Block Cache): add_block caches a block only after
\* add_header accepted its header or found it, and headers are never
\* removed.
BlocksHaveHeaders == \A b \in Header : GetBlockFound(b) => IsBlockHashKnown(b)

\* HeaderStore::get_height: the height of get_active_chain_tip().
GetHeight == ActiveTip.height

\* validate_header reads the chain through the HeaderStore, whose
\* get_height is documented (spec 4.2) as the height of the active tip,
\* the tip with the most work.  Whenever add_headers is about to validate
\* a header, in the middle of its loop, the height it reports should be
\* that of a tip of greatest work.
ValidatorSeesActiveTip ==
    (busy /\ pending # << >> /\ Head(pending) \notin cached)
        => \E i \in 1..Len(tips) :
              /\ \A j \in 1..Len(tips) : tips[j].work <= tips[i].work
              /\ tips[i].height = GetHeight

\* The store as ChainStore describes it: the keys of header_cache and of
\* block_cache.
Store == INSTANCE ChainStore WITH headers <- cached, blocks <- blockCache

\* BlockchainState implements ChainStore: headers join under a cached
\* parent one at a time (add_header, from add_headers or add_block) and
\* are never removed; blocks are cached with their header and dropped only
\* by prune_blocks, prune_blocks_below_height and clear_blocks.
ImplementsChainStore == Store!StoreSpec

=============================================================================
