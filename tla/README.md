# A TLA+ model of fusion-mlx

fusion-mlx is an inference server for Apple Silicon: HTTP routes hand requests
to an engine, the engine's loop runs a scheduler on a single MLX thread, the
scheduler reuses the KV state of earlier prompts through a block-structured
prefix cache with an SSD tier, and outputs travel back to the client through a
per-request collector. This directory models the parts of it whose correctness
depends on the order in which threads and tasks act.

## Inventory

Paths are relative to `src/fusion_mlx/`.

| Component | State | Operations | What is hard | What makes it correct |
|---|---|---|---|---|
| Block pool, `cache/paged_cache.py` | blocks, reference counts, linked free queue, hash map, block tables, queued invalidations | allocate, grow, free, claim, restore, register, evict, cascade, copy-on-write, clear | three locks, calls from two threads, recycled blocks that keep old hashes | no block lost or queued twice; a free block is dead; the index tells the truth; every loss is queued |
| Prefix cache, `cache/prefix_cache.py` | prefix index and its reverse map, request entries | fetch, reconstruct, store, release, pin | `_cache_lock` against the pool's locks; values read under one hold and used under the next | references equal holders; a request runs on the KV state of its own prompt |
| SSD tier, `cache/paged_ssd_cache.py`, `cache/tiered_cache.py` | index of files, hot cache, writer queue | save, load, evict, demote | background writers, losses at any time | a hash names the content it was saved with |
| Scheduler, `scheduler/sched_*.py` | waiting, prefilling and running requests, two uid maps, pending aborts, deferred removals, in-flight stores and their gate, stall clocks | add, step, admit, prefill, decode, finish, abort, reject, retry, drain, fail all | deferred aborts and removals, an asynchronous store, errors that unwind half a step | a request is in one place at a time, its uid maps agree, the batch cap holds, it is answered and let go |
| Engine core, `engine_core.py` | active contexts, finish stamps | loop, abort, fail, reap, stream, generate | every `await` is an interleaving point | every consumer ends, with a terminal output |
| Output collector, `output_collector.py` | deque or merged output, event, closed flag, drop counters | put, get, clear | wake-ups, a bounded queue | no lost wake-up, no unreported loss |
| Engine pool, `pool/` | engine entries with claims, leases and events, a memory counter | get, load, evict, release, sweep, enforce, swap adapters | decisions under a lock, loads and teardowns outside it | no engine stopped while leased (which late leases break), one teardown at a time, no waiter forgotten, ceiling kept |
| Admission and pacing, `admission.py`, `pacing.py` | slots, waiters | acquire, release, time out | time-out against release | no slot lost |
| Dispatch, `dispatch/` | two circuit breakers | route, report | late answers | the breaker re-closes |
| Cluster, `cluster/registry.py` | nodes, missed beats, in-flight cap | register, evict, prune, heartbeat, route | late heartbeats and late failures | eviction is sticky, failures move on, recovered peers come back |
| Weighted router, `cluster/router.py` | backends, weights, failure counts, probe flags | select, dispatch | overlapping calls | selections follow the weights, a failing backend is out until it recovers |
| Training, sessions, watchdogs, routes, engines | see `PROJECT.json` | | | not modelled |

The engine loop (asyncio) submits scheduler steps to the MLX thread. A step
admits requests: it calls `fetch_cache` and `reconstruct_cache`, which claim
blocks of the pool and read the SSD tier. When a request finishes, the step
submits `store_cache` to a worker with one thread, which allocates and registers
blocks in the same pool. When a block's content goes away the pool calls back
into the prefix cache. The outputs of a step are put into collectors on the
event loop, where the consumer's task, client disconnects, aborts under memory
pressure and the orphan reaper meet them. Before all that a route takes a leased
engine from the pool, which may have to load the model and evict others; in a
cluster it may instead forward the request to a peer.

## Modules

| Module | Models | Composes |
|---|---|---|
| `PagedCache` | `PagedCacheManager`: one action per public operation and lock hold | |
| `PagedClient` | the pool under any number of threads making any calls | `PagedCache` |
| `PrefixCache` | `BlockAwarePrefixCache` with its two real clients, the engine thread and the store worker | `PagedCache` |
| `OutputStream` | collector, engine side and consumer of one request | |
| `Scheduler` | `step()` and what runs beside it: aborts, the store worker, clocks, the enforcer's pause | |
| `EnginePool` | `EnginePool` with requests and the background callers of unload | |
| `EngineLease` | what `acquire` promises; `EnginePool` implements it | |
| `Cluster` | `NodeRegistry`, `ClusterHealthMonitor`, `FailoverRouter` | |
| `WeightedRouter` | `ClusterRouter` and its backends | |
| `PagedCacheProofs` | each pool action preserves the pool's invariant; the pool's theorems | `PagedClient` |
| `PrefixCacheProofs` | the prefix cache's theorems, on top of the pool's lemmas | `PrefixCache`, `PagedCacheProofs` |
| `OutputStreamProofs`, `ClusterProofs`, `WeightedRouterProofs`, `EnginePoolProofs`, `SchedulerProofs` | the theorems of each component | the component |
| `FiniteSums` | lemmas: the smallest counterexample, sums over finite sets | |
| `MC...` | symmetry, prompts, sizes, weights and fault sets for TLC | |

### PagedCache

A block is its id; `ref`, `hash` and `parent` are the fields of `CacheBlock`,
`freeQ` is the linked list as a sequence, `hashMap` the set of pairs that
`BlockHashToBlockMap` holds. A chain hash is the sequence of block contents it
was computed from, which is SHA-256 without collisions. An action is one hold of
the three locks. Points where the code does something other than one expects are
kept: `_maybe_evict_cached_block` pops with a block id of `None` and so never
removes anything (`AllocateBlockInternal`), `free_block` leaves hashes on
recycled blocks (`LastFree`), `register_block_hash` does not set `parent_hash`.

`handle_memory_pressure` evicts the least recently accessed candidate; access
times are abstracted to a choice. The 256-parent limit of the cascade is not
modelled. Copy-on-write is one table position per action.

### PagedClient

Adds the flush: a thread that made a flushing call owes `_flush_content_invalidated`
and does so in a later step (`Flush`). `delete_block_table` holds the locks over
its whole loop, so it is three actions (`DeleteTable`, `DeleteNext`, `DeleteEnd`)
that exclude all calls but flushes. The client's contract is that a block it
registers is its own and not registered yet, as at every call site.

### PrefixCache

The engine thread and the worker are program counters (`eng.pc`, `wrk.pc`) over
the pool's actions. `cacheLock` is `_cache_lock`; `PagedLocksFree` says whether
the engine keeps the pool's locks over several steps, as in the claiming walk and
in `delete_block_table`. The worker holds `_cache_lock` for all of
`_store_cache_locked`. `IndexClaim` is one step although the code takes the
pool's locks once per block: only the worker evicts, and it is kept out by
`_cache_lock`. `ssd` maps a hash to the content saved under it, so that what a
request is served (`served`) can be compared with what its prompt needs. `index` and
`ssd` have exactly the hashes that are filed as their domains.

Two windows in the code are between a check and its use, and `races` records, as
history, that something came in between: `"index"` when the match of the prefix index
(`IndexLookup`) is used (`IndexClaim`) with a refilled block in it, `"reuse"` when
`store_cache` pins (`StoreReuse`) a block it found (`StoreFind`) and that was freed or
refilled since. The run `prefix` meets both, and `stale_reuse` shows the second; the
properties say what holds as long as the window they depend on was not hit:

| Property | Says | Unless |
|---|---|---|
| `NoPrematureRelease` | no block is freed or evictable under somebody who counts on it | `"reuse"` |
| `NoLeakedRef` | a block nobody holds has no reference | a request was rejected |
| `LastBlockFresh` | an index entry's own block has its content, or its invalidation is on the way | `"reuse"` |
| `PrefixCorrect` | a request is served its own prompt's KV state | either window |
| `Completion` | every request is finished with | the two threads wedge each other |

| Code | Actions |
|---|---|
| `fetch_cache` | `FetchStart`, `WalkClaim`, `WalkRestore`, `WalkEnd`, `IndexLookup`, `IndexClaim`, `Unclaim`, `UnclaimEnd`, `TableBuild` |
| preload, `reconstruct_cache`, what admission does with the result | `PreloadTimeout`, `ReconstructAll`, `ReconstructPart`, `Drop`, `DropEnd`, `WalkBack`, `Rebuilt`, `GiveUpTable`, `EngDeleteStep`, `EngDeleteEnd` |
| finish, abort, reject | `Finish`, `Retire`, `RetireEnd`, `Reject` |
| flush and callback | `EngSwap`, `EngFire`, `WrkFlush` |
| `maybe_demote` | `Demote` |
| `_async_store_cache_worker`, `store_cache` | `StoreStart` ... `StoreClear` |

Simplifications: the drain of a finished store on the engine thread is merged
with the worker's last step; a request's output does not fill a block, so fetch
and store see the same chain; the blocks of another model configuration that
`reconstruct_cache` refuses are treated as not loadable; the SSD tier is
disk-backed (`hot_cache_only` is not modelled); admission's deferral of a request whose
conversation is still being stored, which ends at a deadline, is not modelled, and the
skips that follow from it and from the reconstruction cap are `PreloadTimeout`; KV state computed on top of a
wrong prefix is not followed further, the first wrong block counts. Which events
of the environment happen is the constant `Env`, so that a run can isolate one.

### OutputStream

Everything happens on one event loop, so a step is the code between two awaits.
`Emit` is one output of a scheduler step, `Leave` the `finally` block of
`stream_outputs`, `Reap` the orphan reaper after the grace period, which a client may
outlast: it comes at any time after the finish and clears the collector, whether the
consumer has left, waits or is still delivering. `cutoff` is a history variable: the
reaper discarded outputs that a consumer had yet to take. The `timeout`
argument of `stream_outputs`, which no server path sets, and a
`stream_outputs` call for a request that has no context any more (it raises at
once) are left out. Whether the collector keeps a deque (streaming) or merges into
one output (`generate`) is chosen in the initial state (`aggregate`).

### Scheduler

`step()` runs on the executor thread; aborts, the store worker, the clock and the
enforcer act while it does. The step is therefore cut at the points where their
effect can be seen, and `pc` says where it is:

| Code | Actions |
|---|---|
| `add_request`, `abort_request` | `AddRequest`, `AbortRequest` |
| `step`, up to admission | `StepBegin`, `DoAbortRequest`, `DrainPendingAsyncRemoves`, `FinalizeRemove`, `AdvanceChunkedPrefills` |
| a round of `_schedule_waiting` | `ScheduleEnds`, `StoreGateStall`, `RemovesStall`, `MemoryReject`, `MemoryStall`, `AdmitHead` |
| inline prefill | `PrefillDone`, `PrefillFails`, `PrefillAborted` |
| forward pass and what follows it | `DecodeStep` (with `CleanupFinished`), `DecodeNothing`, `DecodeStale`, `CacheCorruption`, `GenerationOverflow`, `DecodeRaises` |
| the engine loop around it | `Deliver`, `FailAllRequests` |

`uidOf` and `idOf` are the two uid maps, `rows` the uids the `BatchGenerator` really
has. The generator is external: it numbers its rows from zero (`next_uid`), so a new
one hands the numbers of the old one out again, while the maps and the deferred removals
may still name them. `lost` records, as history, the requests whose row or mapping went
with the removal of another (`Sharing`). `tokens` counts output tokens. `removes` are
the deferred removals of finished requests whose cache is being stored, `jobs` the worker's queue, `in_flight` the gate's counter,
which is decremented by the done callback and again by the drain, as in the code.
The kind of batch a pass has settled on (`batch_set`) stands for the three status
variables of `_schedule_waiting`. Which faults a behaviour may contain is chosen in
the initial state from `FaultSets`.

Left out: the token budget, the priority policy and its ageing, the deferral of
requests whose conversation is being stored, SpecPrefill, VLM batches and their MTP
path, speculative decoding, the refusal of a full waiting queue, the abort that is
raised inside a chunk of a prefill, the deferred clearing
of the Metal cache, `reset`, `deep_reset` and `shutdown`. Only a store that never ends
is given up on as stuck. The temporary uid of an inline prefill is not kept.

### EnginePool and EngineLease

Everything happens on one event loop. A critical section of the pool's lock contains
no await in these operations, so it is one step; teardown, admission and load go from
await to await. `teardown` records where an actor is between the claim of an entry and
the release of the claim. `event` says that the entry has a `loading_event`; a request
waiting on one that was replaced is at `orphan`. `weights` counts copies of a model's
weights that the pool has in memory, and `mem` is the counter the code keeps.

An attached engine is handed out even while it is being unloaded (`FastPath` with
`claims[m] > 0`): the branch of `get_engine` that tests `is_unloading` sees to the event
and then falls through to the lease. A request waits (`WaitForOther`) only when there is
no engine to hand out, or when the one there is has to be reloaded and somebody is
loading. `late` is a history variable with the requests that were leased an engine while
it was being unloaded, `cut` has those whose engine has been stopped, and `revived` those
that started theirs again when they used it (`ReviveEngine`, which no admission precedes;
the gauges read the weights it brings back, the pool does not know of them). The last
release drains a pending unload without a look at the claims (`DrainDue`), so that a late
request can begin a second teardown.

`EngineLease` is the abstract specification: leases are granted only on a model that
serves, and a model stops serving only when nobody holds a lease on it. The refinement
maps `serving` to an engine that is up and that nobody is unloading, and `lease` to the
requests that were leased it then, the late ones being left out; `LeasesHonoured` is that
specification. It says that the code keeps its promise to everybody who came in time, in
the presence of all those who did not; that it does not keep it to these is what
`late_lease` shows. `SingleTeardown` excepts in the same way the drains by late requests,
and `CeilingKept` counts what the pool loads, without what late requests load again.

`Callers`, `Variants`, `SweepSize` and `LoadFaults` say which background callers,
runtime settings and failures there are. The passing run leaves out the three settings
for which the code does not keep its word (see the disagreements below): eviction for a
prefill, a sweep of more than one model, and a load refused by the tier budget.
Left out: engine loops that died, adapters, media admission, fast unload, task
cancellation, shutdown, administrative unloads between attach and commit, and the
enforcer's hold of the pool lock across `abort_all_requests`. A model has active
requests exactly while it is leased.

### Cluster

A registry method is one step. Between them fall the await of a heartbeat (`SendBeat`
to `BeatAnswered` or `BeatMissed`, the answer being decided when it is sent) and the
await of a forwarded call (`RouteSent` to `CallAnswered` or `CallFails`). Time is what
has passed since a node left the rotation: less than the cooldown, more, or past the
pruning age. `burnt` is an auxiliary record of the nodes that failed a request and were
not vouched for since. Whether the router has a monitor is chosen in the initial state.
Which alive node is picked is left open.

### WeightedRouter

`Select` is one round of the loop in `dispatch` up to the forwarded call, with the
whole of `select`: revival, the weights and the choice. `picks` counts selections until
the first failure, for `Proportional`. Backends that are added or removed, and what the
current weights drift to after a failure, are left out.

## Runs

| Run | States | Shows |
|---|---|---|
| `pool` | 600 516 | the pool's invariants and action properties under two arbitrary threads |
| `prefix` | 386 717 | reference accounting, served prefixes and fresh index ends under the real clients, with the two unprotected windows singled out; every request completes |
| `stream` | 154 945 | wake-ups, loss reporting, proper ends, termination, for the two kinds of consumer and a reaper that comes at any time after the finish |
| `engine_pool` | 353 848 | single teardown, waiters with wakers, the ceiling, termination, the refinement of `EngineLease`, with requests that are leased engines too late beside those that come in time |
| `cluster` | 323 850 | sticky eviction, failover, clean records, recovery |
| `weighted_router` | 73 516 | proportional selection, health by failures, termination |
| `scheduler` | 298 632 | accounting of requests and uids, batch cap, serial retry, silence after an abort; every request answered, every stored one let go |

Runs that expect a violation each state what a comment, docstring or log line of
the code promises and show a trace on which the code does something else; the
quotations are under `findings` in `PROJECT.json`.

| Run | Promise refuted |
|---|---|
| `stale_reuse` | `store_cache` is atomic: what it found it can pin |
| `lock_order` | callbacks never fire with the pool's locks held |
| `late_lease` | a leased engine is not evicted, and one that is being unloaded is not handed out |
| `stale_row` | a deferred removal takes the finished request's row, nobody else's |
| `wedged_store` | a wedged store costs a cache entry, not the scheduler |

Disagreements without a run of their own. Each was met while modelling; the setting
that shows it is given where the modules can express it.

- `_fetch_cache_impl` says it holds `_cache_lock` "through the entire index-lookup +
  block-fetch sequence" (`prefix_cache.py:475`); the lookup is done under an earlier hold
  (457), and the store worker can refill a matched block in between (`"index"` in
  `races`, without which `PrefixCorrect` fails in `prefix`).
- `_on_block_freed` says it strips every index entry that names the block; it strips
  the entries that end in it (`prefix_cache.py:2998`, `3051`).
- A request rejected after its prefix was fetched keeps its references, because
  `release_cache` only knows requests that were stored (`"rejected"` in `NoLeakedRef`).
- An abort during the store of a finished request releases its references a second
  time (`Env = {"late_abort"}`, `NoPrematureRelease`).
- A cascaded descendant that is unreferenced but allocated loses its hash, and no
  eviction can reclaim it (`paged_cache.py:1508`, `1583`).
- The reaper's docstring says "never clear() the collector object" and that dropping the
  entry "cannot truncate output" (`engine_core.py:2541`); it clears it
  (`engine_core.py:2554`), and a consumer that is slower than the grace period loses what
  was queued and ends without a terminal output and without a drop being reported
  (`NoSilentTruncation` without `~cutoff` fails in `stream`).
- `clear` and `evict_block_permanently` queue invalidations and return without the
  flush, and `_note_stream_drop` counts the tokens of the output that comes in as lost.
- What follows from the leases of `late_lease`: `release_engine` says that "get_engine's
  fast-path bails off and waits" (`engine_pool.py:2278`), but a late request can be marked
  busy, and its release then begins a second teardown of the same engine (`SingleTeardown`
  without the exception for `late`); it goes on holding weights that the unload counts as
  freed, or loads them again with `start()`, beyond the ceiling (`CeilingKept` with
  `LiveWeights`).
- Eviction for a prefill ignores claims, so that an engine has two teardowns
  (`Callers` with `"prefill"`, `SingleTeardown`). The second model of a TTL sweep may have
  been unloaded and reloaded since it was chosen; it is then stopped without a claim, and
  with it the request that has just loaded it (`SweepSize = 2`, `Ceiling = 2`,
  `LeasesHonoured`). The memory counter can read less than the loaded models take.
- A load refused by the tier budget raises before the `try` whose `finally` sets the
  event (`engine_pool.py:3649`), although the waiters "wake on loading_event"
  (`engine_pool.py:4270`): they wait for ever (`LoadFaults` with `"tier"`, `RequestsEnd`).
- A peer evicted for missed beats is never beaten again, although the monitor's
  docstring says "A later successful beat revives it" (`registry.py:358`).
- `maybe_revive` sets the probe flag of every cooled backend, not of the one `select`
  returns, and a flagged backend without a probe stays out (`router.py:66`); a late
  failure clears the flag of a probe that is still under way.
- An abort in an inline prefill puts all running requests back and resets their output,
  although the comment says "innocent requests should keep decoding"
  (`sched_step.py:450`), and drops the rejections of the same pass; a corrupt cache in an
  inline prefill orphans the request (`FaultSets` with `"abort"` and `"oom"` together,
  or with `"badcache"`, `Accounted`).
- A single running request whose row has vanished stays on the pure-decode path, which
  has no handler for empty responses; `RequestsAnswered` excepts it (`Rotting`).
- A store that was cancelled in the queue makes `future.exception()` raise out of
  `step()`, and the request stays in `requests`.

Bounds. The pool runs have the null block and two others, with a pool that starts
smaller than its cap: growth, exhaustion, eviction and reuse all happen within a
few calls, chains have a parent and a child, and a block can be shared by two
requests. `MaxRef`, `MaxTable`, `MaxDepth`, `MaxPuts` and `Steps` bound what would
otherwise grow without limit. `PrefixCache` has three requests over two usable blocks
and two sets of prompts. With `NestedPrompts` (two equal prompts of two blocks, and their
common first block as a third) all three share a block, so that one can drop what
another's store has just found; that takes three requests, and instances with an
unrelated third prompt never reach it. With `SharedPrompts` (two equal prompts and
another one), in `lock_order`, the store of one request must evict blocks of the
others. The deque holds two outputs of a stream of five, so it
overflows. `EnginePool` has three requests for two models under a ceiling of one, so the
second model must evict the first or fail, and two runtime settings, so an engine is
reloaded; its twenty admission rounds are the code's.
`Cluster` has two peers and two requests with one slot, so a request is refused, fails
over, or finds nobody. `WeightedRouter` has a backend of weight two beside two of one,
and four requests, which is one whole cycle of the weights. `Scheduler` has three
requests for two slots. Its store gate is one in `scheduler`, as under the enforcer's
pressure, so that admission stalls on each of its gates while two stores can still be
queued, and two, as the code derives it from the slots, in `stale_row`; the theorems are
about every gate. A request makes two tokens, one fault and one abort happen per
behaviour, and faults that mask each other are in different fault sets. Deadlock checking is off where
the requests are used up.

Fairness. `FairPrefixSpec` asks that the engine thread and the worker each keep
taking steps while they can: the engine loop calls `step()` while there are
requests, and the executor runs what is submitted. `FairStreamSpec` asks the same
of the engine loop and of the consumer's task. The reaper has
weak fairness: the grace period passes, and the engine loop reaps between its steps. The engine thread's calls other than a sweep of
`maybe_demote` have strong fairness too: a step sweeps once at most, with a cooldown of
two seconds between sweeps, and then goes on to its requests; a flush it has begun it
finishes. `Completion` excepts the wedge of `lock_order`, in which both threads are stuck
for good, and is checked without late aborts. `FairSchedSpec` asks that the executor finishes the step it was given and the
engine loop calls the next while `has_requests`, that the worker runs its queue, and
that time passes; nothing makes clients, faults or the enforcer act. `FairPoolSpec`
asks that the event loop runs every ready task: loads and stops are bounded by
time-outs, and a request gives its lease back. `ClusterSpec` and `RouterSpec` ask that
the monitor keeps sweeping and that forwarded calls end, as their time-outs see to.

## Proofs

Each proof gives an invariant that every step preserves and that implies the property;
its parts were checked with TLC first. The assumptions on constants are those the
modules declare; a theorem that needs more says so as a hypothesis.

### Block pool

`PagedCacheProofs` proves for every size of pool, number of threads and requests,
and every order of calls, that `Spec` implies

- `ClientTypeOK`, `Conservation`, `FreeIsDead` and `IndexSound` in every state
  (`TypeCorrect`, `BlocksConserved`, `FreeBlocksDead`, `IndexTruthful`);
- `HeldEntryStays` and `InvalidationsQueued` of every step (`HeldEntriesSurvive`,
  `LossesAreQueued`).

The inductive invariant is `ClientInv`, whose core is `PoolInv`. No conjunct of it
is inductive alone. `Conservation` needs `FreeIsDead` and `IndexSound` where a block
that a lookup returned is taken to be allocated. `FreeIsDead` needs `RefSound`: the
last free must leave a count that is not positive, and blocks that do not exist yet
must be unreferenced when growth queues them. `IndexSound` is what lets
`hashMap \ Entries(S)` remove every entry of the blocks in `S`: `pop` looks an entry
up by the block's current hash. `reset_prefix_cache` compares lengths only, so that
nothing but the null block is registered then rests on a counting argument (an
injective queue of `MaxBlocks - 1` ids out of `MaxBlocks - 1` is all of them).

There is one lemma per pool action, each giving `PoolInv'` and the two step facts
`EntriesKept` and `LossesQueued`, which the theorems combine per kind of call. The assumptions are `PoolAssumption` and `ClientAssumption`: the bounds are
natural numbers, `1 <= InitialBlocks <= MaxBlocks` and a positive growth step.

### Prefix cache

`PrefixCacheProofs` proves of `PrefixSpec`, for every pool, every finite set of requests
with any prompts, and any environment but the named one:

| Theorem | Shows | Hypotheses |
|---|---|---|
| `PrefixTypes` | `PrefixTypeOK` | none |
| `NothingLeaks` | `NoLeakedRef` | no `"late_abort"` |
| `HoldersKeepBlocks` | `NoPrematureRelease` | no `"late_abort"` |
| `EntriesFresh` | `LastBlockFresh` | no `"late_abort"` |
| `PrefixesServedCorrect` | `PrefixCorrect` | no `"late_abort"` |

The hypothesis is one of the two paths on which the code does not balance its references,
as the disagreements above show: a store that is aborted in flight gives them back twice.
The other, a request that is rejected between fetch and first step and keeps them, is in
`NoLeakedRef` itself, which speaks of the time before the first rejection
(`RejectedStays`). Everything else the environment can do (losses and refused saves on the
SSD, time-outs, demotions, stateful models) is allowed in all five.

The invariant is built in layers. `PrefixTypeInv` has the types, the lengths that keep
a table within its prompt, and which request each thread may have. `ControlInv` says
what the two threads hold at each of their program points. `NoLeakedRef` is inductive on
these alone: each step is one of six kinds of ledger entry (`Ledger`), which moves
`ref` and the sum of the holders together; the sum over the requests needs `FiniteSums`.
`PinnedInv` is the pool's own `PoolInv` with `HoldersCovered`, a hash on every used
block, a fresh block of the worker that is nobody else's, and index entries that are
filed under their last block and fresh or about to be detached. The pool's lemmas serve
it as they stand, because the two clients keep the contract that `PagedClient` asks of
arbitrary callers, as long as no stale block was pinned. `ContentInv` says
that a used block has the hash of its place in the prompt and that a file has the content
it is named after. The last two are inductive only until their window is hit, so the
invariants are `PinnedUnlessReused` and `ContentUnlessRaced`.

### Output stream

`OutputStreamProofs` proves of `StreamSpec`, for any stream length, deque size and
interval, `StreamTypeOK` with the bound of the collector (`CollectorBounded`),
`WakeupExact` (`NoLostWakeup`), `LossReported` (`LossAlwaysReported`),
`FinalCountComplete` (`AnswersComplete`) and `NoSilentTruncation`
(`StreamsEndProperly`), however slow the client is. `StreamInv` adds to these that what
is queued continues what was taken and what was dropped, that the merged output of a
finished request is an error or the whole answer, that the end of a finished stream is
queued or being delivered, and that a collector closed under a consumer that lost
nothing was closed while its end was being delivered (`ClosedAtEnd`).

### Cluster and weighted router

`ClusterProofs` proves of `ClusterSpec`, for any number of nodes, tasks and slots,
`ClusterTypeOK` (`ClusterTypes`), `RetriedElsewhere` (`FailoverMovesOn`),
`AliveForgiven` (`RecordsClean`) and `EvictionSticky` (`EvictionIsSticky`).
`ClusterInv` adds that a call and a beat under way have a node, and that a burnt node is
not alive.

`WeightedRouterProofs` proves of `RouterSpec`, for any backends and weights,
`OutOnlyWhenFailing` (`OutWhileFailing`) and `Proportional` (`SelectionsProportional`).
The inductive part is `Ledger`: as long as nothing has failed, the current weights add up
to zero, `current_weight[b]` is exactly what `b` is owed, and it is above `-Total`,
because the chosen backend is the largest of weights that add up to `Total`. The two halves of `Proportional` differ: no backend is a whole
selection ahead, but with weights 1, 1, 1, 6, 6 one is a whole selection behind. What
holds for all weights is a lag of at most one selection for each other backend.

### Engine pool

`EnginePoolProofs` proves of `PoolSpec`, for any models, sizes, requests and background
callers:

| Theorem | Shows | Hypotheses |
|---|---|---|
| `PoolTypes` | `PoolTypeOK` | none |
| `PoolInvariance` | `PoolInv` | `OneUnloader` |
| `TornDownOnce` | `SingleTeardown` | `OneUnloader` |
| `WaitersAreWoken` | `WaiterHasWaker` | `OneUnloader`, no `"tier"` fault |
| `MemoryUnderCeiling` | `CeilingKept` | `OneUnloader`, `EnoughRounds` |
| `PoolKeepsLeases` | `LeasesHonoured`, the refinement of `EngineLease` | `OneUnloader` |

The hypotheses are the settings outside which the code does not keep its word, as the
disagreements above show: `OneUnloader` excludes eviction for a prefill and a TTL sweep
of more than one model, the `"tier"` fault a load refused after its event was made.
`EnoughRounds` says that there are no more requests than
admission rounds (20): a request that has used them up is admitted unchecked. Requests
may be leased an engine that is being unloaded in all of them, hold it while it is
stopped, revive it and drain it again.

`PoolInv` accounts for every claim, load, lease and teardown by the actors that stand
for it. A claim count is the number of actors between claim and release, and all of them
but one are late requests (`ClaimsCounted`); `in_use` is the number of holders; an entry
that is claimed and attached is leased to late requests only (`LateLeases`); a
reservation belongs to one loader and excludes claims. That is why a teardown among late
ones is still found by whoever waits, and why nobody who came in time is behind it.
`CeilingKept` needs in addition `RoundsCounted`, by which a request that is still in the
loop has rounds left: each of its evictions undoes a load that another request finished.
The memory that is reserved or loaded is a sum over the models. `FiniteSums` has the
facts about such sums that the prover does not know; they are proved by
taking the smallest set, or the least number, for which one fails.

### Scheduler

`SchedulerProofs` proves of `SchedSpec`, for any number of requests, any limits and any
fault sets, `CapRespected` (`BatchCapped`), `RetryAlone` (`RetriesRunAlone`),
`AbortSilences` (`AbortedStaySilent`), `UidsAgree` (`UidsHold`), `SchedTypeOK`
(`SchedTypes`), and `Accounted` (`EveryoneAccounted`) if every fault set satisfies `OutputsKept`: no corrupt cache in an inline prefill, and no abort
together with a fault that rejects requests. The disagreements above show that these
do lose requests.

| Part of `SchedInv` | Says | Needed for |
|---|---|---|
| `QueueTypes` | the queues are free of repetitions | lengths count requests |
| `Phases` | where in a step rejections, outputs and a prefill can exist | a step starts clean |
| `Apart` | no request is in two places | `Accounted`, moves between queues |
| `Tracked` | all that is served is in `requests`, and none of it is being removed | a late removal takes nothing that is served |
| `Unseen` | a request that was not added is nowhere | `add_request` creates no duplicate |
| `AbortsPend` | an aborted request that is served has its abort pending | `AbortSilences` |
| `Sized` | the batch is within its cap, and within one for a retry | `CapRespected`, `RetryAlone` |
| `Causes` | rejections and aborts have a fault behind them | `OutputsKept` |
| `Homed` | nobody who waits is forgotten | `Accounted` |

`ChunksLeft` (a chunked prefill has a chunk left) is proved beside it: without it a
request could drop out of `_advance_chunked_prefills` neither done nor rejected. The
steps rest on lemmas about sequences: what `Keep` selects and that two
disjoint selections are no longer than the queue (`KeepFacts`, `KeepSplit`), and what
appending, joining and reversing do to queues.

`UidsAgree` speaks of maps that resets leave behind, so what makes it inductive
(`UidInv`) is about the current generator only: a running request has a uid that this
generator has given out (`Mapped`), no two share one (`OwnUids`), and a row whose uid is
mapped belongs to a running request with that very uid (`RowsOwned`). An entry from an
earlier generator never meets these, because `insert` overwrites the uid it hands out
and every reset empties both `rows` and `running`; the only way out is a late removal
that takes the mapping of a reused number, which is `lost`.

`SchedTypeOK` is more than types. That tokens stay within `max_tokens` needs that who is
still served has one to go (`TokenTypes`); that cache errors stay within the retries,
that who is still served has one left (`CorruptionTypes`); that the gate's counter,
decremented twice for one store, never exceeds the stores submitted, that a queued
request is no longer served and that a queue is as long as it has members (`JobsInv`,
`QueueCount`, `CutCount`). `TypesInv` collects these parts.

### What is only model-checked

Every invariant and every action property that a passing run checks is stated by a
theorem. What remains with TLC is liveness (`Completion`, `ConsumerEnds`, `RequestsEnd`,
`HealthyNotDead`, `DispatchEnds`, `RequestsAnswered`, `StoresSettle`), because the prover
does not handle `ENABLED` and so not fairness, and `NoWedge`, which mentions it.

`@@` and `:>` of the standard modules cannot be expanded by the provers; the modules that
are proved about define their own update (`With`, the function constructors).

## Not modelled

The SSD tier's writer threads and hot cache, the boundary snapshot store, the radix
prefix cache, pins of prefixes, the admission gate, the cloud breaker, training and the
watchdogs are state machines of their own that the modelled parts meet only through
what the models leave open (a block that cannot be loaded, a request that arrives, a
loop that fails). Routes, parsers, engines, kernels and the vendored model code are
formatting and numerics. `PROJECT.json` lists each with its reason.

## Plan

1. Done: pool, arbitrary client, prefix cache with its two threads, output stream,
   the pool's theorems.
2. Done: the scheduler's step, the engine pool with the lease specification it
   implements, the cluster registry and the weighted router.
3. Left: pins as a third client of `PrefixCache`, the SSD tier's writer and hot cache,
   the admission gate, the cloud breaker.
4. Done: theorems for the output stream, the cluster, the weighted router, the engine
   pool with its refinement, the scheduler and the prefix cache: all safety properties of
   the passing runs.
5. Left to prove: that `lost` stays empty when the generator is never replaced
   (`RowsKept`), and the properties of the clients and tiers of step 3.
