# TLA+ models of the Bitcoin adapter

This directory holds the verification project for the two cores under
`src/src/`:

- the blockchain state engine (`blockchainstate.rs`);
- the transaction relay manager (`transaction_manager.rs`).

It contains TLA+ modules, TLC configurations that model-check them on small
instances, and TLAPS proofs of theorems about them. `PROJECT.json` lists:

- every component and whether it is modelled;
- every run and what it checks;
- the mutants that show each property can fail;
- the source lines each definition translates (`map`);
- the findings, the hazards of the code, and the proved theorems.

## The system and its parts

| Part | Source | State | Module |
|---|---|---|---|
| HeaderCache | `blockchainstate.rs` 38-106 | tree of `HeaderNode`s (height, cumulative work, children) keyed by hash | `BlockchainState` |
| BlockchainState | `blockchainstate.rs` 152-407 | header cache, `tips: Vec<Tip>`, `block_cache` | `BlockchainState`, `BlockchainStateProofs` |
| Block locator | `blockchainstate.rs` 348-385 (`locator_hashes`) | none; reads the active chain | `LocatorHashes`, `LocatorHashesProofs` |
| validate_header | external crate `btc_validation` | none; reads the state through `HeaderStore` (409-422) | a nondeterministic verdict in `BlockchainState` |
| ChainStore (abstract) | what `is_block_hash_known` and `get_block` can observe | known headers, cached blocks | `ChainStore` |
| TransactionManager | `transaction_manager.rs` 1-199 | `LinkedHashMap<Txid, TransactionInfo>` with `advertised` and `timeout_at` | `TransactionManager`, `TransactionManagerProofs` |
| Relay to peers | `transaction_manager.rs` 125-198 with the channel and the peers | messages in flight, what each peer holds | `TxRelay`, `TxRelayProofs` |
| Wall clock | `SystemTime::now()` in `send_transaction` and `reap` | wall clock and real time | `TxClock`, `TxClockProofs` |
| main (start-up) | `main.rs` 15-72 | whether main panicked or started, the metrics server | `CliConfig` (the rest is wiring) |
| CLI | `cli.rs` 8-48 | none (reads the config file once) | `CliConfig` |

The two cores share nothing. How they interact with the rest of the adapter:

- `main.rs` puts BlockchainState behind one `tokio::sync::Mutex`. Each public
  call is therefore atomic with respect to the others.
- The transaction manager is driven by `send_transaction` calls from the
  system component and by a periodic `tick`. Each method takes `&mut self`,
  so each call is also one atomic step.

## Modules

### `BlockchainState.tla`

Headers are model values. What the code computes from a header's bytes is
given by constants:

- `Prev[h]` is `prev_blockhash`;
- `HeaderWork[h]` is `h.work()`, which is positive.

The variables are:

- `cached` (the keys of `header_cache.headers`);
- `height`, `work` and `children` (the fields of each `HeaderNode`);
- `tips` (a sequence of `Tip` records);
- `blockCache` (the keys of `block_cache`).

The code's operations map to actions as follows:

- `add_headers` has three actions:
  - `AddHeadersStart` is the call itself;
  - `AddHeadersStep` is one iteration of its `try_for_each`, i.e. one
    `add_header`;
  - `AddHeadersEnd` is the trailing `sort_unstable_by`.

  The split is needed because `add_header` calls the external
  `validate_header` with `self` in the middle of the loop. The variable
  `busy` keeps any other call from starting until the batch ends, as the
  mutex does.
- `HeaderCacheNew` is `HeaderCache::new` (the genesis node alone); `Init`
  adds the single genesis tip and the empty block cache of
  `BlockchainState::new`.
- `add_header` is built from these helpers:
  - `AddHeaderOutcome` is the lookup (`GetCachedHeaderFound`), then the
    validator's verdict (an input `valid`), then the match on
    `InsertResult`, which is `HeaderCache::insert`'s `AlreadyExists` /
    `NotFound` / `Ok` (`HeaderCacheContains` is `contains`/`get`). The
    outcome is an `AddHeaderResult` value or one of `HeaderErrors`;
  - `LinkHeader` is the insertion of the node and the push onto the parent's
    children;
  - `UpdatedTips` replaces the first tip whose header is the parent
    (`position`), or else pushes a new tip.
- `AddBlock` is `add_block` when it succeeds. A wrong merkle root and a
  rejected header return before any change, so they are stuttering steps.
  The header is added if new, the tips are sorted and the block is cached,
  all in one step.
- `PruneBlocks`, `PruneBlocksBelowHeight` and `ClearBlocks` are the three
  block-cache operations. `BlockHeight` keeps the code's `map_or(0, ..)`.
- The getters `IsBlockHashKnown` and `GetBlockFound` read the two caches;
  `BlocksHaveHeaders` is stated through them.
- `Store == INSTANCE ChainStore WITH headers <- cached, blocks <- blockCache`
  is the refinement mapping; `ImplementsChainStore` is `Store!StoreSpec`.
- The unstable sort is modelled as what it promises: any rearrangement of
  the tips sorted by descending work (`SortedTips`). Equal-work tips may come
  out in any order. This over-approximates the standard library, which sorts
  20 elements or fewer by insertion sort (stable, and the identity on a
  sorted slice): it is sound for the safety properties, but the model
  cannot say anything about the order of equal-work tips.

### `TransactionManager.tla`

The insertion-ordered map is split in three:

- the key sequence `transactions`;
- the functions `advertised` and `timeoutAt` over txids.

The other variables are:

- `now` is `SystemTime::now()`, moved forward by the environment;
- `connections` is `channel.available_connections()`;
- `told` is a history variable: the number of INVs naming a txid that each
  peer was sent since the txid was (re)inserted, capped at 2.

The actions are:

- `SendTransaction(t)`: the eviction at capacity (`PopFrontAtCapacity`),
  then `entry(..).or_insert_with`, whose new entry is `TransactionInfoNew(t)`.
- `Tick`: `advertise_txids` followed by `reap`, as `tick` does.
  - `InventoryFor(A)` is the inventory built for peer A.
  - `FlushedFor(A)` is the part flushed to all peers in batches of
    `MaxInv` entries.
  - `InvCount` counts the INVs each peer is sent.
- `MakeIdle`.

`Filter(s, K)` is the one helper for the two order-preserving filters
of the code: `reap`'s `LinkedHashMap::retain` (`Reaped`) and the inventory
loop of `advertise_txids` (`InventoryFor`). It is written as a recursive
function over prefix lengths (`F[i]` is the result for `s[1..i]`), not as
`SelectSeq` or a RECURSIVE operator, so that the provers can use it.

A payload that does not deserialise is dropped with no change.
`process_bitcoin_network_message` changes no state of the manager; it is an
action of `TxRelay`.

### `ChainStore.tla`

The abstract store that peers and the router see through
`is_block_hash_known` and `get_block`: headers join one at a time under a
known parent (`AddHeader`) and are never removed; a block is cached together
with its header (`CacheBlock`); `DropBlocks` removes any cached blocks. It
says nothing about heights, work or tips. `BlockchainState` implements it:
`AddHeadersStep` that adds a header is `AddHeader`, `AddBlock` is
`CacheBlock`, the three pruning operations are `DropBlocks`, everything else
is a stutter.

### `TxRelay.tla`

`TransactionManager` composed with its channel and the Bitcoin peers.

- `net` is the set of messages in flight (`Msg`: `inv`, `getdata`, `tx`
  records with a peer and a non-empty set of txids), delivered in any order.
  `peerHas[A]` is what peer A holds.
- `RelayTick` is `Tick` plus the INV of each peer with a non-empty inventory
  (`InvPeers`, `InvSet`). When `SendMayFail` holds, any subset of the sends
  of a step is lost (`MayFail`): `Channel::send`'s result is dropped with
  `.ok()`, so the manager cannot tell.
- `ProcessGetData(m)` is `process_bitcoin_network_message` on a getdata:
  nothing when the inventory is longer than `MAXIMUM_TRANSACTION_PER_INV`,
  else a `Tx` for every requested txid still cached (`Served`). The cache
  is only read.
- `PeerRequest` and `PeerReceiveTx` are an honest peer: it asks for the
  advertised txids it does not hold and keeps the transactions it is sent.
- `RelayOther` is the rest of the manager's calls and the environment.

### `TxClock.tla`

`TransactionManager` against two clocks. `now` is the wall clock that
`send_transaction` and `reap` read; `real` is real time. `Elapse` advances
both, `SetClock` sets the wall clock to another value, backwards only when
`ClockMayJumpBack` holds. `insertedReal[t]` records the real time at which
`TransactionInfo::new` ran for t (`ClockSend`, when t is absent after the
capacity pop).

### `CliConfig.tla`

The start-up of `main`. A configuration file is abstracted to what
`Cli::get_config` tells apart (`ConfigFile`): whether `File::open`
succeeds, whether `serde_json` reads a `Config`, `socks_proxy` as an
`Option` of what `Uri::parse` makes of it (`ProxyString`), and
`incoming_source`. `GetConfig` keeps the order of the early returns
(`Io`, `Deserialize`, `Validation`). `LoadConfig` is main's match (an
`Err` panics); `Start` is the rest of main, which starts the metrics server
only under systemd. Spawning the gRPC server and the router is wiring
with no state the model tells apart.

No run checks this module. Start-up is a straight chain of early returns,
and the only correctness statement about it (main goes on exactly with a
file that opens, deserialises and has a proxy URI with scheme, host and
port) is `get_config`'s own check restated. The module documents how the
start-up maps to the code.

### `LocatorHashes.tla`

`locator_hashes` reads the active chain only. `HeaderTreeWellFormed` (proved)
gives every cached header a cached parent back to genesis, so the active
chain is genesis, 1, ..., tip. A header is named by its height: genesis is 0,
and the parent lookup fails exactly at genesis.

- The loop state is a record: `cur` (the height of `current_header`),
  `step`, `hashes` and `done` (the early `return` was taken).
  `LocatorStart(n)` is the state before the loop.
- `LocatorIteration(st, i)` is one iteration of the outer `for i in 0..22`:
  - It pushes `cur`.
  - The inner walk of `step` parents is one jump. The jump fails exactly when
    `cur < step`; the loop then pushes genesis unless it was the last hash
    pushed, and returns (`done`).
  - Otherwise it doubles `step` when `i >= 7`, with `SaturatingDouble`, the
    u32 `saturating_mul(2)`: `u32::MAX` once the product overflows.
- `LocatorRun(n)` runs 22 iterations, as a recursive function over the
  iteration count (no RECURSIVE operator, so the provers can use it), and
  `LocatorHashes(n)` adds the final genesis rule after the cap.
- `Pow2` is 2^k as a recursive function; the offsets use it.
- `ReferenceLocator(n)` is the list that the doc comment describes:
  offsets 0..8, then 8+2, 8+2+4, ...
- `SpecDensityLocator(n)` is the list that spec.md's density line describes:
  offsets 0..7, then 7+2, ...
- The only action, `LocatorHashesCall`, leaves the state unchanged. `Init`
  ranges over every tip height up to `MaxChainHeight`.

## Runs

| Run | Config | Expect | What it shows |
|---|---|---|---|
| `bcs_safety` | `BlockchainState.cfg` | pass | the tree, tips-as-leaves, fork choice and block-cache invariants hold |
| `bcs_validator_view` | `BlockchainState_validator.cfg` | violation | mid-batch, `get_height` reports the height of `tips[0]`, not of the heaviest tip |
| `locator_reference` | `LocatorHashes.cfg` | pass | `locator_hashes` equals its doc comment's list (plus the 22nd iteration's term) and satisfies spec invariant 5 |
| `locator_spec_density` | `LocatorHashes_density.cfg` | violation | spec.md's offsets (7+2, ...) are not the code's (8+2, ...) |
| `tm_safety_liveness` | `TransactionManager.cfg` | pass | cache bound and order, INV dedup, eventual advertisement |
| `tm_resend_timeout` | `TransactionManager_resend.cfg` | violation | a re-send at capacity restarts the timer |
| `tm_relay` | `TxRelay.cfg` | pass | with a reliable channel every advertised peer gets the transaction, and every cached transaction reaches every connected peer |
| `tm_send_failure` | `TxRelay_sendfail.cfg` | violation | a lost INV is never retried: the peer stays marked and never gets the transaction |
| `tm_clock_forward` | `TxClock.cfg` | pass | with forward clock moves only, reap keeps no transaction past its timeout of real time |
| `tm_clock_jumpback` | `TxClock_jumpback.cfg` | violation | after the wall clock is set back, reap keeps a transaction past its timeout |

`bcs_safety` also checks `ImplementsChainStore`: `BlockchainState` refines
`ChainStore`.

### Properties of `BlockchainState`

- `HeaderTreeWellFormed`: every cached header but genesis has its parent
  cached. Its height is one more than its parent's and its work is its
  parent's plus its own. `children` is exactly the inverse of `Prev` on the
  cached headers.
- `TipsAreLeaves`: the tips name exactly the leaves of the tree, each once,
  with their nodes' height and work. This is spec invariant 3 without the
  order. It is the property the tip-update logic of `add_header` exists for.
- `ActiveTipHeaviest`: between calls, `tips[0]` exists and no cached header
  has more work. This is spec invariant 4 as the fork choice needs it.
- `BlocksHaveHeaders`: every cached block's header is cached.
- `ValidatorSeesActiveTip` (violation run): whenever `validate_header` is
  about to run, `GetHeight` (`HeaderStore::get_height`, the height of
  `tips[0]`) is the height of a tip of greatest work, as spec 4.2 and
  invariant 4 describe it. It is stated on the height because the height
  is all the validator reads of the tips.

### Properties of `LocatorHashes`

- `LocatorMatchesReference`: the loop, with its early return and its
  doubling step, gives exactly the doc comment's offsets, extended by the
  one term (offset 16390) that the 22nd iteration adds past the comment's
  last (8198). The mutant doubles from `i >= 8`.
- `LocatorWellFormed` (spec invariant 5):
  - the list starts at the tip and ends at genesis;
  - it descends strictly, so it has no duplicate;
  - it has at most 24 hashes.

  The mutant appends genesis on the early return without checking
  `last_hash`.

### Properties of `TransactionManager`

- `CacheBounded`: at most `TX_CACHE_SIZE` entries, all distinct.
- `TimeoutsFollowInsertionOrder`: insertion order is timeout order.
- `AdvertisedIffToldOnce`: a peer has been sent a cached txid in at most one
  INV, and exactly when it is in the entry's `advertised` set.
- `EventuallyAdvertised`: a cached txid is eventually advertised to every
  peer that stays connected. This is spec invariant 7 as a liveness property.
- `ResendKeepsTimeout` (violation run): a re-send leaves the entry's timer
  and advertised set alone (spec section 8).

### Properties of `TxRelay` and `TxClock`

- `InvAccountedFor`: a peer marked as advertised for a cached txid holds
  the transaction, or an INV, getdata or Tx about it is in flight. It is
  what makes the once-only INV safe. Under `SendMayFail` it fails.
- `EventuallyRelayed`: a cached transaction reaches every peer that stays
  connected, unless it leaves the cache first (end to end, through INV,
  getdata and Tx).
- `RelayTypeOK`: the type invariant of the composition.
- `ReapHonoursTimeout`: after a tick, no cached transaction was created more
  than `TX_CACHE_TIMEOUT_PERIOD_SECS` of real time earlier (reap's doc
  comment).

Every property of a passing run has a mutant in `PROJECT.json`. A mutant is
a plausible bug in the mapped code, such as:

- a lost `children.push`;
- a tip that is always appended;
- an ascending sort;
- `return` for `continue`;
- a push without lookup.

TLC finds each property violated under its mutant.

### Bounds

`BlockchainState.cfg` uses six headers:

- genesis `g`;
- two chains `g <- a1 <- a2` and `g <- b1 <- b2`, where `b1` has work 2 and
  all others have work 1;
- an orphan `o` whose parent is the zero hash.

This exercises all of the following:

- forks;
- a lighter chain that is longer (a2 against b1);
- equal-work tips (a1 and b1 both have cumulative work 2 or 3 depending on
  order, and so do a2 and b2);
- a parent that is not cached;
- a header that is already cached.

Batches of up to 3 headers are enough to link a fork inside one batch.
Pruning heights go up to 3, one above the deepest node.

`LocatorHashes.cfg` checks every tip height from 0 to 33000. The walk
first hits the 22-iteration cap at height 32774 (8 + 2 + ... + 2^14), so
both kinds of end are covered: the early return at genesis, and the cap.
The run has 33001 states and takes seconds.

`TransactionManager.cfg` uses three txids, two peers, a cache of three
entries, INVs of at most four, a timeout of one clock unit and a clock that
goes up to 2. This reaches:

- a full cache, eviction, and a re-send at capacity;
- reaping of some entries but not others;
- peers joining after a transaction was advertised.

`TxRelay.cfg` uses two txids, one peer, a cache of two, INVs of at most
three, a timeout of 0 and a clock up to 1 (131,940 states, about a
minute). With one peer the whole INV / getdata / Tx exchange runs, a
transaction can be reaped or evicted between the INV and the getdata, and
the peer can disconnect and come back; a second peer multiplies the states
by about 70 without a new kind of step, since peers do not interact.

`TxClock.cfg` uses two txids, one peer, a cache of two, a timeout of one
and three units of real and wall time: enough to create an entry, let two
units pass, set the clock back and tick.

The relation `TX_CACHE_SIZE < MAXIMUM_TRANSACTION_PER_INV` of the code
(250 < 50,000) is kept as an assumption. With it, the flush of a full
inventory to all peers is unreachable, as it is in the code.

### Fairness

`Spec` of the transaction manager assumes weak fairness of `Tick`. The
adapter's driver calls `tick` periodically, so a tick that stays possible
eventually happens. No fairness is assumed of the environment: the clock,
connections and sends may stop at any time. `RelaySpec` adds weak fairness,
per message, of `ProcessGetData` (the adapter handles every message its
peers send it), and of `PeerRequest` and `PeerReceiveTx` (a live peer
answers an INV and takes a Tx; the channel delivers what it accepted).
`TxClock` checks safety only and assume no fairness. `BlockchainState` has no liveness
property and no fairness.

## Findings

1. `transaction_manager.rs:92`: at capacity, `send_transaction` evicts the
   oldest entry before looking the txid up.
   - Re-sending the oldest transaction evicts it and re-inserts it with a
     fresh `timeout_at` and an empty `advertised` set, so it is advertised to
     every peer again.
   - Re-sending another transaction at capacity evicts an unrelated one.
   - The spec (section 8) says a re-send does not reset the timer.
2. `blockchainstate.rs:246`: `validate_header` reads the active tip through
   `get_height` in the middle of `add_headers`.
   - At that point the tips have not been re-sorted, so `tips[0]` may be
     lighter than another tip.
   - The trace: after a batch `[a1]` (height 1), a batch `[b1, b2, a2]`
     pushes b1's tip and replaces it by b2's (height 2, more work); a2 is
     then validated with `get_height` = 1, while the heaviest tip is at
     height 2.
3. `blockchainstate.rs:375`: `locator_hashes` moves one parent before the
   step doubles at `i = 7`.
   - Its back-offsets are 0..8, then 8+2, 8+2+4, ..., as its doc comment
     says.
   - spec.md says 0..7, then 7+2, 7+2+4, ....
   - At tip height 9 the code returns 9, ..., 1, 0; the spec's list is
     9, ..., 2, 0.
   - The loop runs 22 iterations, so it pushes one hash more than the doc
     comment lists: at offset 8+2+...+8192 = 16390, after the comment's
     last term 8+2+...+4096 = 8198. (16384 is the size of the last step,
     which is never pushed.) `ReferenceLocator` follows the code here.

4. `transaction_manager.rs:131`: a peer is added to `advertised` before the
   INV is sent, and a send failure is ignored. spec.md (section 7) says the
   next tick retries, although its own parenthetical note then says a peer
   recorded in `advertised` is never retried; the code never sends that INV again while the
   transaction is cached (`tm_send_failure`).
5. `transaction_manager.rs:111`: reap's doc comment promises to clear
   transactions held longer than the timeout period; against the wall clock
   this fails after a backward jump, which spec section 5 concedes
   (`tm_clock_jumpback`).

## Proofs

`BlockchainStateProofs.tla` proves six theorems about `BlockchainState`. They
hold for every header universe, parent map and work function that satisfy
`HeaderAssumption`:

- genesis is a header and its parent is the zero hash, which is no header;
- every parent is a header or the zero hash;
- every header has positive work.

They also assume `BoundsAssumption`.

| Theorem | Statement |
|---|---|
| `TypeCorrect` | `Spec => []TypeOK` |
| `TreeWellFormed` | `Spec => []HeaderTreeWellFormed` |
| `TipsAreLeavesInvariant` | `Spec => []TipsAreLeaves` |
| `ActiveTipIsHeaviest` | `Spec => []ActiveTipHeaviest` |
| `RefinesChainStore` | `Spec => ImplementsChainStore` |
| `BlocksHaveHeadersInvariant` | `Spec => []BlocksHaveHeaders` |

`ChainStore.tla` proves `StoreBlocksKnown`: `StoreSpec => []BlocksKnown`,
for every header set and parent map. `RefinesChainStore` rests on lemma
`StepRefines` (`TypeOK /\ [Next]_vars => [Store!StoreNext]_Store!storeVars`,
one case per action) and on `Init => Store!StoreInit`; the temporal step
uses `TypeCorrect`. `BlocksHaveHeadersInvariant` is then the abstract
theorem `Store!StoreBlocksKnown` carried through the refinement.

The argument:

- `TypeOK` is inductive on its own.
- `TipsAreLeaves` is not. Its inductive strengthening is `IInv`, which
  combines:
  - `TypeOK`;
  - `HeaderTreeWellFormed` (children are exactly the inverse of `Prev`);
  - `TipsFit`, an index-based form of `TipsAreLeaves`. Lemma
    `TipsAreLeavesFit` shows the two are equivalent under `TypeOK`.

  The key facts are these:
  - An uncached header has no child (`UncachedIsChildless`). So a newly
    linked header is a leaf, and it is no tip's header.
  - Linking a header under a cached parent takes the parent out of the
    leaves and puts the header in (`LinkKeepsTree`).
  - Because tip headers are distinct, the `position` search in `add_header`
    finds the parent's tip at exactly one index, or at none:
    - if it finds one, replacing that tip gives the new leaves
      (`UpdatedTipsFit`);
    - if it finds none, the parent was not a leaf, and pushing the new tip
      gives the new leaves.
  - Any rearrangement of the tips, so in particular the result of the
    unstable sort, fits the same leaves (`SortKeepsFit`).
- `ActiveTipHeaviest` is not inductive either: mid-batch the tips are
  unsorted. Its strengthening `HInv` adds two conjuncts:
  - `Dominated`: every cached header has a tip at least as heavy. A new tip
    is heavier than the parent tip it replaces, because work is positive
    (`UpdatedTipsDominate`).
  - `SortedAtRest`: between calls the tips are sorted.

  Together they give `ActiveTipHeaviest` (`HInvActiveTip`). Before it was
  proved, TLC checked both strengthening conjuncts as invariants of
  `BlockchainState.cfg`.

### The transaction manager, the relay and the clock

`TransactionManagerProofs.tla` proves, for every txid set, peer set,
`TX_CACHE_SIZE < MAXIMUM_TRANSACTION_PER_INV`, timeout period and clock
bound (`TxConstantsAssumption`):

| Theorem | Statement |
|---|---|
| `TMInvariant` | `Spec => []TMInv` |
| `TMTypeCorrect` | `Spec => []TypeOK` |
| `CacheBoundedInvariant` | `Spec => []CacheBounded` |
| `TimeoutOrderInvariant` | `Spec => []TimeoutsFollowInsertionOrder` |
| `AdvertisedOnceInvariant` | `Spec => []AdvertisedIffToldOnce` |

The inductive invariant `TMInv` is the four run-checked invariants plus
`TimeoutsWithinPeriod` (no cached timeout lies more than the period ahead
of `now`). That conjunct is what keeps the insertion order sorted by
timeout when a fresh entry, with timeout `now + period`, is appended.
The argument:

- `Filter` lemmas. `FilterPrefixesEq` obtains the defining equation of
  the prefix function from `NatInductiveDef`. Induction over the prefix
  length is done by a least counterexample (`IntervalInduction` of
  `IntervalLemmas.tla`, from `WFMin` and `NatLessThanWellFounded`): this avoids the library's
  induction rules, whose predicate parameter the provers cannot
  instantiate. On this basis:
  - `FilterProperties`: the result is a sequence no longer than the input,
    indexed by an increasing map into it.
  - `FilterRange`: its elements are the input's elements in `K`.
  - `FilterDistinct` and `FilterSorted`: it keeps distinctness and a
    sorted weight.
- Steps of `send_transaction`:
  - `PopFrontShape`: the pop leaves fewer than `TX_CACHE_SIZE` keys.
  - `SendKeepsInv`: a re-send only pops; an insert appends a txid not
    in the rest, with the largest timeout.
- Steps of `tick`:
  - `NothingFlushed`: with the cache within `TX_CACHE_SIZE`, no inventory
    reaches `MAXIMUM_TRANSACTION_PER_INV`, so no batch is flushed.
  - `InvCountIsInventory`: a peer gets one INV for t exactly when t is
    cached and the peer is not yet in its advertised set, which gives
    `AdvertisedIffToldOnce`.
  - `TickKeepsInv`: reap's filter keeps the distinctness and the order.

`TxClockProofs.tla` proves `ForwardClockReapHonoursTimeout`: under
`~ClockMayJumpBack`, `ClockSpec => ReapHonoursTimeout`. The invariant
`ClockInv` adds `ClockLag` to `TMInv`: an entry's real age is at most
how far the wall clock has advanced since its creation. Reap keeps only
entries with `timeout_at >= now`, so with `ClockLag` each survivor is
younger than the period (`TickHonoursTimeout`). `ClockLag` is preserved
because `Elapse` advances both clocks and a forward `SetClock` only widens
the margin. It is exactly what a backward jump breaks
(`tm_clock_jumpback`).

`TxRelayProofs.tla` proves two theorems:

- `RelayTypeCorrect`: `RelaySpec => []RelayTypeOK`, whether or not sends
  may fail.
- `ReliableSendsInvAccountedFor`: under `~SendMayFail`,
  `RelaySpec => []InvAccountedFor`.

The inductive invariant `RelayInv` adds `MessagesFit` to the types: every
message in flight names at most `TX_CACHE_SIZE` txids. Without it, a
getdata longer than `MAXIMUM_TRANSACTION_PER_INV` would be answered with
nothing, and the txids it names would no longer be accounted for.
`InvAccountedForStep` has one case per action:

- a tick's new mark for peer A comes with an INV to A naming the txid
  (`InventoryRange`);
- a getdata is answered with a Tx for every cached txid it names;
- an INV that the peer consumes becomes a getdata for what the peer lacks;
- a Tx that the peer consumes adds to what it holds;
- `send_transaction` either keeps an entry with its advertised set or
  starts it with an empty set (`SendFreshOrKept`).

With failing sends, the INV of the first case may be lost, which is the
counterexample of `tm_send_failure`.

### The block locator

`LocatorHashesProofs.tla` proves, for every `MaxChainHeight`:

| Theorem | Statement |
|---|---|
| `LocatorCorrect` | `Spec => []LocatorMatchesReference` |
| `LocatorWellFormedInvariant` | `Spec => []LocatorWellFormed` |

The TLC run checks heights up to 33000; the theorems cover every height.
The argument:

- Arithmetic. `Offset(k+1) = Offset(k) + StepAt(k)`, where `StepAt(k)` is
  1 up to k = 7 and 2^(k-7) after (`OffsetNext`, `StepNext`). Within 22
  iterations the step is at most 2^14, so `saturating_mul` never saturates
  (`NoSaturation`): the saturation is modelled, and proved unreachable.
- The loop invariant (`LoopInvariant`), by `IntervalInduction` over the
  iteration count k in 0..22:
  - while `Offset(k) <= n`, the state after k iterations is
    `cur = n - Offset(k)`, `step = StepAt(k)`, `hashes` the first k
    hashes of the reference walk, and not done;
  - once `n < Offset(k)`, the loop has returned with the reference walk of
    `LocatorCount(n)` hashes, closed by genesis.
  The step case splits on whether the jump fails (`cur < step`): if it
  does, k is the count of offsets within n (`LocatorCountIs`) and the
  pushed genesis closes the list; if not, `cur` and `step` move to the
  next offset and step. A returned state is left alone (`IterationDone`).
- `LocatorIsReference`: after 22 iterations either the loop returned, or
  all 22 offsets fit and the final genesis rule closes the same list.
- `ReferenceWellFormed`: the count is in 1..22 (`LocatorCountExists`),
  the walk is strictly decreasing (`WalkDecreasing`), and the last walk
  hash is at least 0, so a pushed genesis is below it.
- The invariant `HeightInv` (`tipHeight \in Nat`) carries both to every
  state.

`IntervalLemmas.tla` holds `IntervalInduction`, shared by the transaction
manager and the locator proofs.

What stays with TLC:

- `EventuallyAdvertised` and `EventuallyRelayed` are liveness properties.
  TLAPS does not reason about fairness or ENABLED.
- The violation runs (`bcs_validator_view`, `locator_spec_density`, `tm_resend_timeout`, `tm_send_failure`,
  `tm_clock_jumpback`) are counterexamples; they are not proof material.

## Not modelled

- The spawned tasks of `main.rs` (gRPC server, router, metrics server) and
  the two request channels of capacity 10: the router that drains them is
  not in the source tree, so the back-pressure cannot be modelled from the
  code.
- The bytes of headers, blocks and transactions, hashing and
  `validate_header`: hashes are model values, work and parent links are
  constants, the validator's verdict is an input.
- Logging and metrics.
- The tests in both files (they are scenarios over the modelled operations).
