----------------------------- MODULE EnginePool -----------------------------
(***************************************************************************)
(* The engine pool (pool/engine_pool.py): requests take a leased engine    *)
(* with get_engine and give it back with release_engine, loading the model *)
(* and evicting idle ones to stay under the memory ceiling, while the TTL  *)
(* sweep, idle unloads and the memory enforcer unload models underneath.   *)
(*                                                                         *)
(* Everything runs on one event loop.  A critical section of the pool's    *)
(* asyncio lock contains no await in the operations modelled here, so it   *)
(* is one step; what the code does without the lock (teardown, admission,  *)
(* load) is a step from one await to the next.  Every request is one task  *)
(* that asks once; Ops are the background callers of unload.               *)
(***************************************************************************)
EXTENDS Integers, FiniteSets, Functions

CONSTANTS
    Models,
    Tasks,          \* requests: get_engine(_lease=True) ... release_engine
    Ops,            \* background tasks that unload models
    Size,           \* Size[m]: estimated_size of m, KV headroom included
    Ceiling,        \* _current_ceiling
    Pinned,         \* the models with is_pinned
    MaxLoads,       \* _max_concurrent_loads
    Rounds,         \* rounds of the admission loop (20 in the code)
    MaxCalls,       \* bound: calls made by each background task
    SweepSize,      \* bound: models that expire in one TTL sweep
    Variants,       \* runtime-settings signatures requests ask for
    Callers,        \* which background callers there are: see Background
    LoadFaults      \* how a load can fail: see LoadFails

ASSUME PoolAssumption ==
    /\ IsFiniteSet(Tasks) /\ IsFiniteSet(Models) /\ IsFiniteSet(Ops)
    /\ Tasks \cap Ops = {}
    /\ Size \in [Models -> Nat \ {0}] /\ Ceiling \in Nat
    /\ Pinned \subseteq Models
    /\ MaxLoads \in Nat \ {0} /\ Rounds \in Nat \ {0}
    /\ MaxCalls \in Nat /\ SweepSize \in Nat
    /\ Callers \subseteq {"ttl", "idle", "busy", "prefill"}
    /\ LoadFaults \subseteq {"start", "tier"}

VARIABLES
    engine,     \* EngineEntry.engine: "none", "up", or "stopped" and attached
    variant,    \* EngineEntry.runtime_settings_signature ("unset" if None)
    loading,    \* EngineEntry.is_loading
    claims,     \* EngineEntry.unloading_count; is_unloading is claims > 0
    event,      \* EngineEntry.loading_event is not None
    failed,     \* EngineEntry.last_load_failed
    pending,    \* EngineEntry.pending_unload_reason is not None
    in_use,     \* EngineEntry.in_use
    mem,        \* EnginePool._current_model_memory
    weights,    \* how many copies of the weights of a model are in memory
    pc,         \* where a request is in get_engine
    mod,        \* the model a request asks for
    want,       \* the signature a request asks for
    rounds,     \* admission rounds a request has used
    teardown,   \* the _detach_engine and settle an actor is in, if any
    calls,      \* unload calls a background task has made
    todo,       \* expired models the TTL sweep has still to unload
    late,       \* history: requests leased an engine that was being unloaded
    cut,        \* requests whose engine has been stopped
    revived     \* requests that started their stopped engine again

entryVars == <<engine, variant, loading, claims, event, failed, pending, in_use>>
lentVars == <<late, cut, revived>>
vars == <<entryVars, mem, weights, pc, mod, want, rounds, teardown, calls, todo, lentVars>>

Actors == Tasks \cup Ops

\* A teardown goes "stop" (awaits safe_evict), "detach" (stopped, still
\* attached), "collect" (detached, weights not yet freed), "settle" (freed,
\* not yet counted) and "unclaim".  An "async" one (unload_engine_async)
\* unclaims last, a "drain" (release_engine, unload_if_idle_unpinned) before
\* it collects, a "bare" one never claimed the entry.
Phases == {"stop", "detach", "collect", "settle", "unclaim"}
Ways == {"async", "drain", "bare"}
NoTeardown == [m |-> "none", way |-> "none", at |-> "none"]
Tearing(a) == teardown[a] # NoTeardown

\* The engine of m is being stopped and is not detached yet.
Unloading(m) ==
    \E a \in Actors : teardown[a].m = m /\ teardown[a].at \in {"stop", "detach"}

\* The requests that hold a lease on m.
Holders(m) == {t \in Tasks : pc[t] = "hold" /\ mod[t] = m}

PoolTypeOK ==
    /\ engine \in [Models -> {"none", "up", "stopped"}]
    /\ variant \in [Models -> Variants \cup {"unset"}]
    /\ \A f \in {loading, event, failed, pending} : f \in [Models -> BOOLEAN]
    /\ \A f \in {claims, in_use, weights} : f \in [Models -> Nat]
    /\ mem \in Int
    /\ pc \in [Tasks -> {"new", "wait", "orphan", "woken", "admit", "admitted",
                         "load", "attached", "hold", "done", "failed"}]
    /\ mod \in [Tasks -> Models] /\ want \in [Tasks -> Variants]
    /\ rounds \in [Tasks -> 0..Rounds]
    /\ teardown \in [Actors -> {NoTeardown} \cup [m : Models, way : Ways, at : Phases]]
    /\ calls \in [Ops -> 0..MaxCalls]
    /\ todo \in [Ops -> SUBSET Models]
    /\ \A S \in {late, cut, revived} : S \subseteq Tasks

PoolInit ==
    /\ engine = [m \in Models |-> "none"]
    /\ variant = [m \in Models |-> "unset"]
    /\ loading = [m \in Models |-> FALSE]
    /\ claims = [m \in Models |-> 0]
    /\ event = [m \in Models |-> FALSE]
    /\ failed = [m \in Models |-> FALSE]
    /\ pending = [m \in Models |-> FALSE]
    /\ in_use = [m \in Models |-> 0]
    /\ mem = 0
    /\ weights = [m \in Models |-> 0]
    /\ pc = [t \in Tasks |-> "new"]
    /\ mod \in [Tasks -> Models]
    /\ want \in [Tasks -> Variants]
    /\ rounds = [t \in Tasks |-> 0]
    /\ teardown = [a \in Actors |-> NoTeardown]
    /\ calls = [o \in Ops |-> 0]
    /\ todo = [o \in Ops |-> {}]
    /\ late = {} /\ cut = {} /\ revived = {}

-----------------------------------------------------------------------------
(* Events.  loading_event.set() wakes the requests that wait on it; a new   *)
(* Event stored over one that was never set strands the requests on it.     *)

Waiters(m) == {t \in Tasks : pc[t] = "wait" /\ mod[t] = m}

\* pc after loading_event is set (if it exists) and t moved to "to".
Woken(m, t, to) ==
    [u \in Tasks |-> CASE u = t -> to
                       [] u # t /\ u \in Waiters(m) -> "woken"
                       [] OTHER -> pc[u]]

\* pc after loading_event was replaced and t moved to "to".
Stranded(m, t, to) ==
    [u \in Tasks |-> CASE u = t -> to
                       [] u # t /\ u \in Waiters(m) -> "orphan"
                       [] OTHER -> pc[u]]

-----------------------------------------------------------------------------
(* Claims and unloads. *)

Begin(a, m, way) ==
    teardown' = [teardown EXCEPT ![a] = [m |-> m, way |-> way, at |-> "stop"]]

\* _claim_entry_locked, followed without an await by _detach_engine.
ClaimEntry(a, m, way) ==
    /\ claims' = [claims EXCEPT ![m] = @ + 1]
    /\ event' = [event EXCEPT ![m] = TRUE]
    /\ Begin(a, m, way)

\* unload_engine_async up to its first await: skipped when the entry is
\* claimed or empty, deferred when it is leased, and run without a claim when
\* the entry is loading.
UnloadEngineAsync(a, m) ==
    \/ /\ engine[m] # "none" /\ claims[m] = 0 /\ ~loading[m] /\ in_use[m] = 0
       /\ ClaimEntry(a, m, "async")
       /\ UNCHANGED pending
    \/ /\ engine[m] # "none" /\ claims[m] = 0 /\ ~loading[m] /\ in_use[m] > 0
       /\ pending' = [pending EXCEPT ![m] = @ \/ m \notin Pinned]
       /\ UNCHANGED <<claims, event, teardown>>
    \/ /\ engine[m] # "none" /\ claims[m] = 0 /\ loading[m]
       /\ Begin(a, m, "bare")
       /\ UNCHANGED <<claims, event, pending>>
    \/ /\ engine[m] = "none" \/ claims[m] > 0
       /\ UNCHANGED <<claims, event, pending, teardown>>

-----------------------------------------------------------------------------
(* Teardown: _detach_engine and _settle_unloaded_engine, await by await. *)

\* The record of a's teardown once the phase it is in is over.
NextPhase(td) ==
    CASE td.at = "stop" -> [td EXCEPT !.at = "detach"]
      [] td.at = "detach" ->
            [td EXCEPT !.at = IF td.way = "drain" THEN "unclaim" ELSE "collect"]
      [] td.at = "collect" -> [td EXCEPT !.at = "settle"]
      [] td.at = "settle" ->
            IF td.way = "async" THEN [td EXCEPT !.at = "unclaim"] ELSE NoTeardown
      [] td.at = "unclaim" ->
            IF td.way = "drain" THEN [td EXCEPT !.at = "collect"] ELSE NoTeardown

InPhase(a, at) ==
    /\ teardown[a].at = at
    /\ teardown' = [teardown EXCEPT ![a] = NextPhase(@)]
    /\ UNCHANGED <<loading, failed, in_use, mod, want, rounds, calls, todo, late,
                   revived>>

\* safe_evict() and stop() return: the engine no longer serves anybody, not
\* those either who hold a lease on it.
StopEngine(a) ==
    LET m == teardown[a].m IN
    /\ InPhase(a, "stop")
    /\ engine' = [engine EXCEPT ![m] = IF @ = "up" THEN "stopped" ELSE @]
    /\ cut' = cut \cup Holders(m)
    /\ UNCHANGED <<variant, claims, event, pending, mem, weights, pc>>

DetachEngine(a) ==
    LET m == teardown[a].m IN
    /\ InPhase(a, "detach")
    /\ engine' = [engine EXCEPT ![m] = "none"]
    /\ pending' = [pending EXCEPT ![m] = FALSE]
    /\ variant' = [variant EXCEPT ![m] = "unset"]
    /\ UNCHANGED <<claims, event, mem, weights, pc, cut>>

\* gc.collect and the bounded synchronize and clear_cache: a copy that is not
\* the attached engine's goes.
CollectWeights(a) ==
    LET m == teardown[a].m
        attached == IF engine[m] = "none" THEN 0 ELSE 1
    IN
    /\ InPhase(a, "collect")
    /\ weights' = [weights EXCEPT ![m] = IF @ > attached THEN @ - 1 ELSE @]
    /\ UNCHANGED <<engine, variant, claims, event, pending, mem, pc, cut>>

\* The counter is decremented after the settle barrier, without the lock.
SettleUnloaded(a) ==
    /\ InPhase(a, "settle")
    /\ mem' = mem - Size[teardown[a].m]
    /\ UNCHANGED <<engine, variant, claims, event, pending, weights, pc, cut>>

\* Mutant of ReleaseClaim: the stranded-claim cleanup runs as well and the
\* claim is dropped twice, without the clamp at zero.
ReleaseClaimTwice(a) ==
    LET m == teardown[a].m IN
    /\ InPhase(a, "unclaim")
    /\ claims' = [claims EXCEPT ![m] = @ - 2]
    /\ event' = [event EXCEPT ![m] = FALSE]
    /\ pc' = [u \in Tasks |-> IF u \in Waiters(m) THEN "woken" ELSE pc[u]]
    /\ UNCHANGED <<engine, variant, pending, mem, weights, cut>>

\* Mutant of ReleaseClaim: the event is dropped without being set.
ReleaseClaimSilent(a) ==
    LET m == teardown[a].m IN
    /\ InPhase(a, "unclaim")
    /\ claims' = [claims EXCEPT ![m] = @ - 1]
    /\ event' = [event EXCEPT ![m] = FALSE]
    /\ UNCHANGED <<engine, variant, pending, mem, weights, pc, cut>>

\* _release_claim_locked; whatever event the entry has by now is set.
ReleaseClaim(a) ==
    LET m == teardown[a].m IN
    /\ InPhase(a, "unclaim")
    /\ claims' = [claims EXCEPT ![m] = IF @ = 0 THEN 0 ELSE @ - 1]
    /\ event' = [event EXCEPT ![m] = FALSE]
    /\ pc' = [u \in Tasks |-> IF u \in Waiters(m) THEN "woken" ELSE pc[u]]
    /\ UNCHANGED <<engine, variant, pending, mem, weights, cut>>

-----------------------------------------------------------------------------
(* get_engine, phase 1: one hold of the lock. *)

\* A waiter re-enters get_engine when it is woken, unless the load it waited
\* for failed.
Asks(t) == pc[t] = "new" \/ (pc[t] = "woken" /\ ~failed[mod[t]])

\* The attached engine is not what the request can be given: it was stopped
\* and never detached, or it was built for other runtime settings.
NeedsReload(t, m) ==
    /\ engine[m] # "none" /\ claims[m] = 0
    /\ engine[m] = "stopped" \/ (want[t] # variant[m] /\ in_use[m] = 0)

\* An attached engine is handed out with a lease.  For an entry that is
\* being unloaded get_engine only makes sure that it has a loading_event: it
\* goes on with needs_reload = False, and returns the engine, running or
\* stopped and whatever its settings.
FastPath(t, m) ==
    /\ engine[m] # "none"
    /\ claims[m] > 0 \/ (engine[m] = "up" /\ want[t] = variant[m])
    /\ event' = [event EXCEPT ![m] = @ \/ claims[m] > 0]
    /\ in_use' = [in_use EXCEPT ![m] = @ + 1]
    /\ pc' = [pc EXCEPT ![t] = "hold"]
    /\ late' = IF Unloading(m) THEN late \cup {t} ELSE late
    /\ cut' = IF engine[m] = "stopped" THEN cut \cup {t} ELSE cut
    /\ UNCHANGED <<loading, teardown>>

\* _raise_if_reload_busy
ReloadBusy(t, m) ==
    /\ engine[m] = "up" /\ claims[m] = 0 /\ want[t] # variant[m] /\ in_use[m] > 0
    /\ pc' = [pc EXCEPT ![t] = "failed"]
    /\ UNCHANGED <<in_use, loading, event, teardown, late, cut>>

\* Nothing to hand out, and somebody is loading the model or has still to
\* settle its teardown.
WaitForOther(t, m) ==
    /\ \/ engine[m] = "none" /\ (loading[m] \/ claims[m] > 0)
       \/ NeedsReload(t, m) /\ loading[m]
    /\ event' = [event EXCEPT ![m] = TRUE]
    /\ pc' = [pc EXCEPT ![t] = "wait"]
    /\ UNCHANGED <<in_use, loading, teardown, late, cut>>

\* Reserve the load.  A reload goes on, without an await, into
\* unload_engine_async, which takes no claim because the entry is loading.
ReserveLoad(t, m) ==
    /\ claims[m] = 0 /\ ~loading[m]
    /\ loading' = [loading EXCEPT ![m] = TRUE]
    /\ event' = [event EXCEPT ![m] = TRUE]
    /\ pc' = Stranded(m, t, "admit")
    /\ \/ engine[m] = "none" /\ UNCHANGED teardown
       \/ NeedsReload(t, m) /\ Begin(t, m, "bare")
    /\ UNCHANGED <<in_use, late, cut>>

GetEngine(t) ==
    /\ Asks(t)
    /\ \/ FastPath(t, mod[t])
       \/ ReloadBusy(t, mod[t])
       \/ WaitForOther(t, mod[t])
       \/ ReserveLoad(t, mod[t])
    /\ UNCHANGED <<engine, variant, claims, failed, pending, mem, weights, mod,
                   want, rounds, calls, todo, revived>>

\* The waiter of a failed load does not start a load of its own.
WaiterFails(t) ==
    /\ pc[t] = "woken" /\ failed[mod[t]]
    /\ pc' = [pc EXCEPT ![t] = "failed"]
    /\ UNCHANGED <<entryVars, mem, weights, mod, want, rounds, teardown, calls, todo,
                   lentVars>>

-----------------------------------------------------------------------------
(* get_engine, phase 2: admission under the ceiling. *)

SizeOf(S) == SumFunctionOnSet(Size, S)

\* The weights the pool has loaded and not freed.
PoolWeights == SumFunctionOnSet([m \in Models |-> weights[m] * Size[m]], Models)

\* The copies of the weights of m that requests have in memory which started a
\* stopped engine again and still hold it.
RevivedCopies(m) == Cardinality(Holders(m) \cap revived)

LiveWeights ==
    PoolWeights + SumFunctionOnSet([m \in Models |-> RevivedCopies(m) * Size[m]], Models)

\* Mutant of PendingLoads: P1-8 undone, loads in progress are not counted.
PendingUncounted(m) == {}

\* Entries other than m whose load is reserved and not attached.
PendingLoads(m) == {n \in Models \ {m} : loading[n] /\ engine[n] = "none"}

\* Mutant of LruVictims: #1354 H12 undone, a claimed entry can be chosen.
LruVictimsUnclaimed ==
    {v \in Models \ Pinned : engine[v] # "none" /\ in_use[v] = 0}

\* The models _find_lru_victim chooses from; which of them was used last is
\* left open.
LruVictims ==
    {v \in Models \ Pinned : engine[v] # "none" /\ in_use[v] = 0 /\ claims[v] = 0}

HasLoaded == \E m \in Models : engine[m] # "none"

\* _admission_current_usage: the tracked counter is trusted while an engine
\* is attached and clamped to the gauge when none is.
TrackedAfter(live) == IF ~HasLoaded /\ mem > live THEN live ELSE mem

CurrentUsage(m, live) ==
    (IF live > TrackedAfter(live) THEN live ELSE TrackedAfter(live))
        + SizeOf(PendingLoads(m))

\* The gauges read the weights in memory and, of the loads in progress,
\* nothing or everything.
GaugeReadings ==
    {LiveWeights,
     LiveWeights + SizeOf({mod[u] : u \in {v \in Tasks : pc[v] = "load"}})}

\* One round of the admission loop, up to its next await: the load is
\* admitted, a victim is claimed and its teardown begins, or the request
\* fails and wakes whoever waited for its load.  The loop gives up checking
\* after its last round.
AdmissionRound(t) ==
    LET m == mod[t] IN
    /\ pc[t] = "admit" /\ ~Tearing(t)
    /\ \E live \in GaugeReadings :
         LET fits == CurrentUsage(m, live) + Size[m] <= Ceiling
             spent == rounds[t] = Rounds
         IN
         /\ mem' = IF spent THEN mem ELSE TrackedAfter(live)
         /\ \/ /\ fits \/ spent
               /\ pc' = [pc EXCEPT ![t] = "admitted"]
               /\ UNCHANGED <<loading, claims, event, teardown, rounds>>
            \/ /\ ~fits /\ ~spent
               /\ \E v \in LruVictims :
                    /\ ~loading[v]
                    /\ ClaimEntry(t, v, "async")
               /\ rounds' = [rounds EXCEPT ![t] = @ + 1]
               /\ UNCHANGED <<loading, pc>>
            \/ /\ ~fits /\ ~spent
               /\ LruVictims = {} \/ \E v \in LruVictims : loading[v]
               /\ loading' = [loading EXCEPT ![m] = FALSE]
               /\ event' = [event EXCEPT ![m] = FALSE]
               /\ pc' = Woken(m, t, "failed")
               /\ UNCHANGED <<claims, teardown, rounds>>
    /\ UNCHANGED <<engine, variant, failed, pending, in_use, weights, mod, want,
                   calls, todo, lentVars>>

-----------------------------------------------------------------------------
(* _load_engine and the lease that follows it. *)

\* Mutant of SlotHolders: a load that fails keeps its slot.
SlotHoldersLeaked == {u \in Tasks : pc[u] \in {"load", "attached", "failed"}}

\* The requests that have a slot of _load_semaphore.
SlotHolders == {u \in Tasks : pc[u] \in {"load", "attached"}}

\* async with self._load_semaphore, and the start of _load_engine, which forgets
\* an earlier failure.  "tier": the tier-budget check raises before the try
\* whose finally block sets the event.
EnterLoad(t) ==
    LET m == mod[t] IN
    /\ pc[t] = "admitted"
    /\ Cardinality(SlotHolders) < MaxLoads
    /\ \/ /\ pc' = [pc EXCEPT ![t] = "load"]
          /\ failed' = [failed EXCEPT ![m] = FALSE]
          /\ UNCHANGED loading
       \/ /\ "tier" \in LoadFaults
          /\ pc' = [pc EXCEPT ![t] = "failed"]
          /\ loading' = [loading EXCEPT ![m] = FALSE]
          /\ UNCHANGED failed
    /\ UNCHANGED <<engine, variant, claims, event, pending, in_use, mem, weights, mod,
                   want, rounds, teardown, calls, todo, lentVars>>

AttachEngine(t) ==
    LET m == mod[t] IN
    /\ pc[t] = "load"
    /\ engine' = [engine EXCEPT ![m] = "up"]
    /\ variant' = [variant EXCEPT ![m] = want[t]]
    /\ weights' = [weights EXCEPT ![m] = @ + 1]
    /\ pc' = [pc EXCEPT ![t] = "attached"]
    /\ UNCHANGED <<loading, claims, event, failed, pending, in_use, mem, mod, want,
                   rounds, teardown, calls, todo, lentVars>>

\* The finally block of _load_engine.
EndLoad(t, m, to, ok) ==
    /\ loading' = [loading EXCEPT ![m] = FALSE]
    /\ failed' = [failed EXCEPT ![m] = ~ok]
    /\ event' = [event EXCEPT ![m] = FALSE]
    /\ pc' = Woken(m, t, to)

\* The counter is incremented after the post-load clear_cache; the lease is
\* taken with no await in between when nobody holds the lock.
CommitLoad(t) ==
    LET m == mod[t] IN
    /\ pc[t] = "attached"
    /\ mem' = mem + Size[m]
    /\ EndLoad(t, m, "hold", TRUE)
    /\ in_use' = [in_use EXCEPT ![m] = @ + 1]
    /\ UNCHANGED <<engine, variant, claims, pending, weights, mod, want, rounds,
                   teardown, calls, todo, lentVars>>

\* The engine does not start, or the enforcer aborts the load.
LoadFails(t) ==
    LET m == mod[t] IN
    /\ pc[t] = "load" /\ "start" \in LoadFaults
    /\ EndLoad(t, m, "failed", FALSE)
    /\ UNCHANGED <<engine, variant, claims, pending, in_use, mem, weights, mod,
                   want, rounds, teardown, calls, todo, lentVars>>

-----------------------------------------------------------------------------
(* Use and release of an engine, and the background callers. *)

\* Start a stopped engine again: a request that holds one keeps its weights
\* alive, or loads them again when it uses it (start(), without admission).
ReviveEngine(t) ==
    /\ pc[t] = "hold" /\ t \in cut \ revived
    /\ revived' = revived \cup {t}
    /\ UNCHANGED <<entryVars, mem, weights, pc, mod, want, rounds, teardown, calls,
                   todo, late, cut>>

\* Mutant of DrainDue: an engine others hold is drained.
DrainDueLeased(m, left) ==
    engine[m] # "none" /\ pending[m] /\ ~loading[m] /\ m \notin Pinned

\* The release that ends the last lease drains a pending unload, whether or not
\* the entry is claimed.
DrainDue(m, left) ==
    engine[m] # "none" /\ pending[m] /\ ~loading[m] /\ m \notin Pinned /\ left = 0

ReleaseEngine(t) ==
    LET m == mod[t]
        left == IF in_use[m] > 0 THEN in_use[m] - 1 ELSE 0
    IN
    /\ pc[t] = "hold"
    /\ pc' = [pc EXCEPT ![t] = "done"]
    /\ in_use' = [in_use EXCEPT ![m] = left]
    /\ IF DrainDue(m, left)
         THEN /\ pending' = [pending EXCEPT ![m] = FALSE]
              /\ ClaimEntry(t, m, "drain")
         ELSE UNCHANGED <<pending, claims, event, teardown>>
    /\ UNCHANGED <<engine, variant, loading, failed, mem, weights, mod, want,
                   rounds, calls, todo, lentVars>>

\* check_ttl_expirations: the models that have been idle too long are chosen
\* in one hold of the lock and unloaded one after the other; the enforcer's
\* idle victim is the sweep of one model.
Expired == {m \in Models \ Pinned : engine[m] # "none" /\ ~loading[m] /\ in_use[m] = 0}

TtlSweep(o) ==
    \E S \in SUBSET Expired : \E m \in S :
        /\ Cardinality(S) <= SweepSize
        /\ UnloadEngineAsync(o, m)
        /\ todo' = [todo EXCEPT ![o] = S \ {m}]
        /\ UNCHANGED mem

TtlNext(o) ==
    \E m \in todo[o] :
        /\ UnloadEngineAsync(o, m)
        /\ todo' = [todo EXCEPT ![o] = @ \ {m}]
        /\ UNCHANGED mem

\* unload_if_idle_unpinned
UnloadIfIdle(o) ==
    \E m \in Expired :
        /\ claims[m] = 0
        /\ ClaimEntry(o, m, "drain")
        /\ UNCHANGED <<pending, mem, todo>>

\* The enforcer under hard pressure marks a busy model.
MarkBusyVictim(o) ==
    \E m \in Models \ Pinned :
        /\ engine[m] # "none" /\ ~loading[m] /\ in_use[m] > 0
        /\ pending' = [pending EXCEPT ![m] = TRUE]
        /\ UNCHANGED <<claims, event, teardown, mem, todo>>

\* _evict_idle_lru_for_prefill: looks at leases and loads, not at claims.
EvictForPrefill(o) ==
    \E live \in GaugeReadings, m \in Expired :
        /\ mem' = TrackedAfter(live)
        /\ ClaimEntry(o, m, "async")
        /\ UNCHANGED <<pending, todo>>

Background(o) ==
    /\ ~Tearing(o)
    /\ \/ todo[o] # {} /\ TtlNext(o) /\ UNCHANGED calls
       \/ /\ todo[o] = {} /\ calls[o] < MaxCalls
          /\ calls' = [calls EXCEPT ![o] = @ + 1]
          /\ \E who \in Callers :
               \/ who = "ttl" /\ TtlSweep(o)
               \/ who = "idle" /\ UnloadIfIdle(o)
               \/ who = "busy" /\ MarkBusyVictim(o)
               \/ who = "prefill" /\ EvictForPrefill(o)
    /\ UNCHANGED <<engine, variant, loading, failed, in_use, weights, pc, mod, want,
                   rounds, lentVars>>

-----------------------------------------------------------------------------

TeardownStep(a) ==
    \/ StopEngine(a)
    \/ DetachEngine(a)
    \/ CollectWeights(a)
    \/ SettleUnloaded(a)
    \/ ReleaseClaim(a)

RequestStep(t) ==
    \/ GetEngine(t)
    \/ WaiterFails(t)
    \/ AdmissionRound(t)
    \/ EnterLoad(t)
    \/ AttachEngine(t)
    \/ CommitLoad(t)
    \/ LoadFails(t)
    \/ ReviveEngine(t)
    \/ ReleaseEngine(t)

Ended(t) == pc[t] \in {"done", "failed"}

PoolNext ==
    \/ \E t \in Tasks : RequestStep(t)
    \/ \E o \in Ops : Background(o)
    \/ \E a \in Actors : TeardownStep(a)

PoolSpec == PoolInit /\ [][PoolNext]_vars

\* The event loop runs every task that is ready; a request gives its engine
\* back, and a load or a stop ends (both are bounded by timeouts in the code).
\* Nothing makes the background callers unload anything.
FairPoolSpec ==
    /\ PoolSpec
    /\ \A t \in Tasks : WF_vars(RequestStep(t))
    /\ \A a \in Actors : WF_vars(TeardownStep(a))

-----------------------------------------------------------------------------
(* Properties. *)

\* #1354 H12, _find_lru_victim: no engine is handed to a second teardown; the
\* entry is torn down by one caller between its claim and its detach.  Only the
\* release of a request that was leased the engine while it was being unloaded
\* drains it again.
SingleTeardown ==
    \A a, b \in Actors \ late :
        (/\ a # b /\ Tearing(a) /\ Tearing(b)
         /\ teardown[a].at \in {"stop", "detach"}
         /\ teardown[b].at \in {"stop", "detach"})
            => teardown[a].m # teardown[b].m

\* E-19 and #1409: a request that waits on a loading_event waits on the one
\* its entry holds, and the loader or the teardown that will set it exists.
WaiterHasWaker ==
    \A t \in Tasks :
        /\ pc[t] # "orphan"
        /\ pc[t] = "wait" =>
             /\ event[mod[t]]
             /\ \/ \E u \in Tasks :
                      /\ mod[u] = mod[t]
                      /\ pc[u] \in {"admit", "admitted", "load", "attached"}
                \/ \E a \in Actors :
                      /\ teardown[a].m = mod[t]
                      /\ teardown[a].way # "bare"
                      /\ teardown[a].way = "drain" =>
                            teardown[a].at \in {"stop", "detach", "unclaim"}

\* P1-8: the weights the pool has loaded and the loads it has admitted fit
\* under the ceiling together; what goes beyond it is what requests load again
\* whose engine was stopped under them.
CeilingKept ==
    PoolWeights
        + SizeOf({mod[t] : t \in {u \in Tasks : pc[u] \in {"admitted", "load"}}})
    <= Ceiling

\* Every request is answered: it gets an engine and gives it back, or fails.
RequestsEnd == \A t \in Tasks : <>Ended(t)

\* The pool implements the abstract lease specification with the leases it
\* grants on engines that nobody is unloading: these are never cut off, by a
\* load, a sweep, the enforcer or the release of a request that came late.
Lease == INSTANCE EngineLease WITH
    serving <- [m \in Models |-> engine[m] = "up" /\ ~Unloading(m)],
    lease <- [m \in Models |-> Holders(m) \ late]

LeasesHonoured == Lease!LeaseSpec

\* EnginePool.acquire: "the engine cannot be evicted mid-request".
EngineServes == \A t \in Tasks : pc[t] = "hold" => t \notin cut
=============================================================================
