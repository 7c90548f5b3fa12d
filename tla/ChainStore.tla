----------------------------- MODULE ChainStore -----------------------------
(***************************************************************************)
(* What the blockchain state promises about the headers and blocks it     *)
(* holds (spec.md section 3, lifecycle): header nodes are created one at  *)
(* a time under a known parent and never removed; a block is cached only *)
(* together with its header, and is removed only by pruning or clearing. *)
(* Fork choice, heights, work and the tip list are left out: this is the  *)
(* store as a peer or the router sees it through is_block_hash_known and *)
(* get_block.  BlockchainState implements it (BlockchainStateProofs).     *)
(***************************************************************************)
EXTENDS TLAPS

CONSTANTS
    Header,    \* the headers peers can send
    Genesis,   \* the header the store starts with
    Prev       \* Prev[h]: the parent hash named by h

VARIABLES
    headers,   \* the known headers
    blocks     \* the cached blocks, named by their headers

storeVars == <<headers, blocks>>

StoreInit ==
    /\ headers = {Genesis}
    /\ blocks = {}

\* A header joins the store under a parent the store knows.
AddHeader(h) ==
    /\ h \in Header \ headers
    /\ Prev[h] \in headers
    /\ headers' = headers \cup {h}
    /\ UNCHANGED blocks

\* A block is cached with its header, which is known already or joins the
\* store under a known parent in the same step.
CacheBlock(b) ==
    /\ b \in Header
    /\ b \in headers \/ Prev[b] \in headers
    /\ headers' = headers \cup {b}
    /\ blocks' = blocks \cup {b}

\* Some cached blocks are dropped (prune_blocks, prune_blocks_below_height,
\* clear_blocks).
DropBlocks ==
    /\ blocks' \subseteq blocks
    /\ UNCHANGED headers

StoreNext ==
    \/ \E h \in Header : AddHeader(h)
    \/ \E b \in Header : CacheBlock(b)
    \/ DropBlocks

StoreSpec == StoreInit /\ [][StoreNext]_storeVars

-----------------------------------------------------------------------------
\* Every cached block has its header in the store.
BlocksKnown == blocks \subseteq headers

\* Every step of the store keeps every cached block's header in it.
THEOREM StoreBlocksKnown == StoreSpec => []BlocksKnown
<1>1. StoreInit => BlocksKnown
  BY DEF StoreInit, BlocksKnown
<1>2. BlocksKnown /\ [StoreNext]_storeVars => BlocksKnown'
  BY DEF BlocksKnown, StoreNext, AddHeader, CacheBlock, DropBlocks, storeVars
<1>3. QED
  BY <1>1, <1>2, PTL DEF StoreSpec

=============================================================================
