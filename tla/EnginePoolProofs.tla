-------------------------- MODULE EnginePoolProofs --------------------------
(***************************************************************************)
(* The engine pool is correct for every number of models, requests and     *)
(* background callers, every size of a model and every ceiling: every      *)
(* waiting request has somebody to wake it, what the pool loads stays      *)
(* under the ceiling, and except for the requests that are leased an       *)
(* engine which is being unloaded, each engine is torn down once and       *)
(* leases are honoured.                                                    *)
(*                                                                         *)
(* The module has four parts: the invariant of the entries and its         *)
(* preservation action by action, the waiting requests, the refinement of  *)
(* EngineLease, and the memory.                                            *)
(***************************************************************************)
EXTENDS EnginePool, FiniteSums, FiniteSetTheorems, TLAPS

\* Who may unload: no caller that ignores claims (_evict_idle_lru_for_prefill)
\* and no TTL sweep that unloads a model it chose before an await.
OneUnloader == "prefill" \notin Callers /\ SweepSize <= 1

\* Actor a holds the claim on the entry of m, from _claim_entry_locked to
\* _release_claim_locked.
Claiming(a, m) ==
    /\ teardown[a].m = m /\ teardown[a].way \in {"async", "drain"}
    /\ teardown[a].way = "drain" => teardown[a].at \in {"stop", "detach", "unclaim"}

\* Request t has reserved the load of m.
Loader(t, m) == mod[t] = m /\ pc[t] \in {"admit", "admitted", "load", "attached"}

\* unloading_count counts the claims that are held.  All but one are of requests
\* that were leased the engine while it was being unloaded.
Claimers(m) == {a \in Actors : Claiming(a, m)}
ClaimsCounted ==
    /\ \A m \in Models : claims[m] = Cardinality(Claimers(m))
    /\ \A m \in Models, a, b \in Actors \ late : Claiming(a, m) /\ Claiming(b, m) => a = b

\* is_loading is set for the one request that loads the model, and never while
\* the entry is claimed.
LoadsReserved ==
    /\ \A m \in Models : loading[m] => claims[m] = 0 /\ \E t \in Tasks : Loader(t, m)
    /\ \A m \in Models, t \in Tasks : Loader(t, m) => loading[m]
    /\ \A m \in Models, t, u \in Tasks : Loader(t, m) /\ Loader(u, m) => t = u

\* EngineEntry.in_use counts the leases.
LeasesCounted == \A m \in Models : in_use[m] = Cardinality(Holders(m))

\* An entry that is claimed and attached is leased only to requests that came
\* after the claim.
LateLeases ==
    /\ \A m \in Models : claims[m] # 0 /\ engine[m] # "none" => Holders(m) \subseteq late
    /\ \A t \in late : pc[t] \in {"hold", "done"}

\* A request tears down between admission rounds or after its release; only a
\* request that reloads its own model tears down without a claim.
TeardownOwned ==
    \A a \in Actors : Tearing(a) =>
        /\ a \in Tasks => pc[a] \in {"admit", "done"}
        /\ teardown[a].way = "bare" =>
              /\ a \in Tasks /\ pc[a] = "admit" /\ mod[a] = teardown[a].m
              /\ teardown[a].at # "unclaim"

\* When an engine is attached: not after a claimed teardown detached it, and not
\* while its next load is admitted or running.
Detached ==
    /\ \A a \in Actors, m \in Models :
          Claiming(a, m) /\ teardown[a].at \notin {"stop", "detach"} => engine[m] = "none"
    /\ \A t \in Tasks :
          /\ pc[t] = "attached" => engine[mod[t]] = "up"
          /\ pc[t] \in {"admitted", "load"} => engine[mod[t]] = "none"
          /\ pc[t] = "admit" =>
                \/ engine[mod[t]] = "none"
                \/ teardown[t].way = "bare" /\ teardown[t].at \in {"stop", "detach"}

\* No sweep has a model left that it chose earlier.
Swept == \A o \in Ops : todo[o] = {}

\* The inductive invariant.
PoolInv ==
    /\ PoolTypeOK
    /\ ClaimsCounted
    /\ LoadsReserved
    /\ LeasesCounted
    /\ LateLeases
    /\ TeardownOwned
    /\ Detached
    /\ Swept

-----------------------------------------------------------------------------

\* PoolTypeOK, variable by variable.
Types ==
    /\ engine \in [Models -> {"none", "up", "stopped"}]
    /\ variant \in [Models -> Variants \cup {"unset"}]
    /\ loading \in [Models -> BOOLEAN] /\ event \in [Models -> BOOLEAN]
    /\ failed \in [Models -> BOOLEAN] /\ pending \in [Models -> BOOLEAN]
    /\ claims \in [Models -> Nat] /\ in_use \in [Models -> Nat]
    /\ weights \in [Models -> Nat]
    /\ mem \in Int
    /\ pc \in [Tasks -> {"new", "wait", "orphan", "woken", "admit", "admitted",
                         "load", "attached", "hold", "done", "failed"}]
    /\ mod \in [Tasks -> Models] /\ want \in [Tasks -> Variants]
    /\ rounds \in [Tasks -> 0..Rounds]
    /\ teardown \in [Actors -> {NoTeardown} \cup [m : Models, way : Ways, at : Phases]]
    /\ calls \in [Ops -> 0..MaxCalls]
    /\ todo \in [Ops -> SUBSET Models]
    /\ late \subseteq Tasks /\ cut \subseteq Tasks /\ revived \subseteq Tasks

\* The two forms of the type invariant say the same.
LEMMA TypesAreTypeOK == PoolTypeOK <=> Types
  BY DEF PoolTypeOK, Types

\* ... and in the next state.
LEMMA TypesAreTypeOKNext == PoolTypeOK' <=> Types'
  BY DEF PoolTypeOK, Types

\* A counter that is lowered, and never below zero, as unloading_count is.
LEMMA CountDown ==
    ASSUME NEW S, NEW f \in [S -> Nat], NEW k
    PROVE  [f EXCEPT ![k] = IF @ = 0 THEN 0 ELSE @ - 1] \in [S -> Nat]
<1> DEFINE g == [f EXCEPT ![k] = IF @ = 0 THEN 0 ELSE @ - 1]
<1>1. ASSUME NEW n \in S
      PROVE  g[n] \in Nat
  <2>1. f[n] \in Nat
    OBVIOUS
  <2>2. CASE n = k
    BY <2>1, <2>2
  <2>3. CASE n # k
    BY <2>1, <2>3
  <2> QED BY <2>2, <2>3
<1>2. g = [n \in S |-> g[n]]
  OBVIOUS
<1> QED BY <1>1, <1>2

\* One copy of some weights is freed, unless it is the last one and in use.
LEMMA FreeOneCopy ==
    ASSUME NEW S, NEW f \in [S -> Nat], NEW k, NEW least \in {0, 1}
    PROVE  [f EXCEPT ![k] = IF @ > least THEN @ - 1 ELSE @] \in [S -> Nat]
<1> DEFINE g == [f EXCEPT ![k] = IF @ > least THEN @ - 1 ELSE @]
<1>1. ASSUME NEW n \in S
      PROVE  g[n] \in Nat
  <2>1. f[n] \in Nat
    OBVIOUS
  <2>2. CASE n = k
    BY <2>1, <2>2
  <2>3. CASE n # k
    BY <2>1, <2>3
  <2> QED BY <2>2, <2>3
<1>2. g = [n \in S |-> g[n]]
  OBVIOUS
<1> QED BY <1>1, <1>2

\* The pool starts in the invariant.
LEMMA InitInv == PoolInit => PoolInv
<1> SUFFICES ASSUME PoolInit PROVE PoolInv
  OBVIOUS
<1> USE PoolAssumption DEF PoolInit
<1>1. Types
  BY DEF Types, Actors
<1>2. \A a \in Actors : ~Tearing(a) /\ \A m \in Models : ~Claiming(a, m)
  BY DEF Tearing, Claiming, NoTeardown
<1>3. ClaimsCounted
  <2>1. \A m \in Models : Claimers(m) = {}
    BY <1>2 DEF Claimers
  <2> QED BY <1>2, <2>1, FS_EmptySet DEF ClaimsCounted
<1>4. LoadsReserved
  BY DEF LoadsReserved, Loader
<1>5. LeasesCounted
  <2>1. \A m \in Models : Holders(m) = {}
    BY DEF Holders
  <2> QED BY <2>1, FS_EmptySet DEF LeasesCounted
<1>6. LateLeases /\ TeardownOwned /\ Swept
  BY <1>2, <1>3 DEF LateLeases, TeardownOwned, Swept
<1>7. Detached
  BY <1>2 DEF Detached
<1> QED
  BY <1>1, <1>3, <1>4, <1>5, <1>6, <1>7, TypesAreTypeOK DEF PoolInv

-----------------------------------------------------------------------------
(* Preservation: claims and background callers. *)

\* The leases on a model can be counted.
LEMMA HoldersFinite ==
    ASSUME PoolInv, NEW m \in Models
    PROVE  IsFiniteSet(Holders(m)) /\ Cardinality(Holders(m)) \in Nat
  BY PoolAssumption, FS_Subset, FS_CardinalityType DEF Holders

\* The claims on an entry can be counted; without a claim there is no claimer.
LEMMA ClaimersFinite ==
    ASSUME PoolInv, NEW m \in Models
    PROVE  /\ IsFiniteSet(Claimers(m)) /\ claims[m] = Cardinality(Claimers(m))
           /\ claims[m] = 0 <=> Claimers(m) = {}
           /\ claims[m] = 0 <=> \A a \in Actors : ~Claiming(a, m)
<1>1. IsFiniteSet(Actors) /\ Claimers(m) \subseteq Actors
  BY PoolAssumption, FS_Union DEF Actors, Claimers
<1>2. IsFiniteSet(Claimers(m)) /\ claims[m] = Cardinality(Claimers(m))
  BY <1>1, FS_Subset DEF PoolInv, ClaimsCounted
<1>3. claims[m] = 0 <=> Claimers(m) = {}
  BY <1>2, FS_EmptySet
<1> QED
  BY <1>2, <1>3 DEF Claimers

\* _claim_entry_locked on an entry that is not loading: the claim is one more,
\* and it is the first one unless it is the drain of a late release.
LEMMA ClaimStep ==
    ASSUME PoolInv, NEW a \in Actors, ~Tearing(a), NEW m \in Models,
           NEW way \in {"async", "drain"},
           ClaimEntry(a, m, way), claims[m] = 0 \/ a \in late, ~loading[m], UNCHANGED late
    PROVE  /\ ClaimsCounted'
           /\ \A n \in Models : loading[n] => claims'[n] = 0
           /\ \A n \in Models : n # m => claims'[n] = claims[n]
           /\ claims' \in [Models -> Nat] /\ event' \in [Models -> BOOLEAN]
           /\ teardown' \in [Actors -> {NoTeardown} \cup [m : Models, way : Ways, at : Phases]]
           /\ \A b \in Actors : b # a => teardown'[b] = teardown[b]
           /\ teardown'[a] = [m |-> m, way |-> way, at |-> "stop"]
<1> USE DEF PoolInv
<1>1. Types
  BY TypesAreTypeOK
<1>2. claims' = [claims EXCEPT ![m] = @ + 1] /\ claims' \in [Models -> Nat]
  BY <1>1 DEF ClaimEntry, Types
<1>3. event' \in [Models -> BOOLEAN]
  BY <1>1 DEF ClaimEntry, Types
<1>4. /\ teardown'[a] = [m |-> m, way |-> way, at |-> "stop"]
      /\ \A b \in Actors : b # a => teardown'[b] = teardown[b]
      /\ teardown' \in [Actors -> {NoTeardown} \cup [m : Models, way : Ways, at : Phases]]
  BY <1>1 DEF ClaimEntry, Begin, Types, Ways, Phases
<1>5. \A n \in Models : ~Claiming(a, n)
  BY DEF Tearing, Claiming, NoTeardown
<1>6. Claiming(a, m)' /\ \A n \in Models : n # m => ~Claiming(a, n)'
  BY <1>4 DEF Claiming
<1>7. \A b \in Actors, n \in Models : b # a => (Claiming(b, n)' <=> Claiming(b, n))
  BY <1>4 DEF Claiming
<1>8. claims'[m] = claims[m] + 1 /\ \A n \in Models : n # m => claims'[n] = claims[n]
  BY <1>1, <1>2 DEF Types
<1>9. \A n \in Models : claims'[n] = Cardinality(Claimers(n)')
  <2>1. Claimers(m)' = Claimers(m) \cup {a} /\ a \notin Claimers(m)
    BY <1>5, <1>6, <1>7 DEF Claimers
  <2>2. Cardinality(Claimers(m)') = Cardinality(Claimers(m)) + 1
    BY <2>1, ClaimersFinite, FS_AddElement
  <2>3. \A n \in Models : n # m => Claimers(n)' = Claimers(n)
    BY <1>5, <1>6, <1>7 DEF Claimers
  <2> QED BY <2>2, <2>3, <1>8, ClaimersFinite
<1>10. \A n \in Models, b, c \in Actors \ late : Claiming(b, n)' /\ Claiming(c, n)' => b = c
  <2>1. a \in late \/ \A b \in Actors : ~Claiming(b, m)
    BY ClaimersFinite
  <2> QED BY <2>1, <1>5, <1>6, <1>7 DEF ClaimsCounted
<1>11. ClaimsCounted'
  BY <1>9, <1>10 DEF ClaimsCounted, Claimers
<1>12. \A n \in Models : loading[n] => claims'[n] = 0
  BY <1>8 DEF LoadsReserved
<1> QED
  BY <1>2, <1>3, <1>4, <1>8, <1>11, <1>12

\* The gauges read integers, and no gauge reads less than the weights the pool
\* has loaded.
LEMMA SizesInt ==
    ASSUME PoolTypeOK
    PROVE  /\ \A S \in SUBSET Models : IsFiniteSet(S) /\ SizeOf(S) \in Nat
           /\ PoolWeights \in Int
           /\ \A live \in GaugeReadings :
                 live \in Int /\ PoolWeights <= live /\ TrackedAfter(live) \in Int
<1> USE PoolAssumption
<1>1. Types
  BY TypesAreTypeOK
<1>2. ASSUME NEW S \in SUBSET Models PROVE IsFiniteSet(S) /\ SizeOf(S) \in Nat
  <2>1. IsFiniteSet(S) /\ \A x \in S : Size[x] \in Nat
    BY FS_Subset
  <2>2. SumFunctionOnSet(Size, S) \in Int
    BY <2>1, SumInt
  <2>3. SumFunctionOnSet(Size, {}) <= SumFunctionOnSet(Size, S)
    BY <2>1, SumMonotone
  <2> QED
    BY <2>1, <2>2, <2>3, SumEmpty DEF SizeOf
<1>3. PoolWeights \in Int /\ LiveWeights \in Int /\ PoolWeights <= LiveWeights
  <2> DEFINE f == [m \in Models |-> weights[m] * Size[m]]
             g == [m \in Models |-> RevivedCopies(m) * Size[m]]
  <2>1. \A x \in Models : f[x] \in Int
    BY <1>1 DEF Types
  <2>2. \A x \in Models : RevivedCopies(x) \in Nat
    BY FS_Subset, FS_CardinalityType DEF RevivedCopies, Holders
  <2>3. \A x \in Models : g[x] \in Nat
    BY <2>2
  <2>4. PoolWeights = SumFunctionOnSet(f, Models)
        /\ LiveWeights = SumFunctionOnSet(f, Models) + SumFunctionOnSet(g, Models)
    BY DEF PoolWeights, LiveWeights
  <2> HIDE DEF f, g
  <2>5. SumFunctionOnSet(f, Models) \in Int
    BY <2>1, SumInt
  <2>6. SumFunctionOnSet(g, Models) \in Int /\ 0 <= SumFunctionOnSet(g, Models)
    <3>1. SumFunctionOnSet(g, Models) \in Int
      BY <2>3, SumInt
    <3>2. SumFunctionOnSet(g, {}) <= SumFunctionOnSet(g, Models)
      BY <2>3, SumMonotone
    <3> QED BY <3>1, <3>2, SumEmpty
  <2> QED
    BY <2>4, <2>5, <2>6
<1>4. ASSUME NEW live \in GaugeReadings
      PROVE  live \in Int /\ PoolWeights <= live /\ TrackedAfter(live) \in Int
  <2> DEFINE L == {mod[u] : u \in {v \in Tasks : pc[v] = "load"}}
  <2>1. L \in SUBSET Models
    BY <1>1 DEF Types
  <2>2. live \in {LiveWeights, LiveWeights + SizeOf(L)}
    BY DEF GaugeReadings
  <2> HIDE DEF L
  <2>3. live \in Int /\ PoolWeights <= live
    BY <2>1, <2>2, <1>2, <1>3
  <2> QED
    BY <2>3, <1>1 DEF TrackedAfter, Types
<1> QED
  BY <1>2, <1>3, <1>4

-----------------------------------------------------------------------------

\* A background caller claims one idle engine or touches no claim at all.
LEMMA BackgroundCases ==
    ASSUME PoolInv, OneUnloader, NEW o \in Ops, Background(o)
    PROVE  /\ ~Tearing(o)
           /\ todo' \in [Ops -> SUBSET Models] /\ Swept'
           /\ calls' \in [Ops -> 0..MaxCalls] /\ pending' \in [Models -> BOOLEAN]
           /\ UNCHANGED <<engine, variant, loading, failed, in_use, mem, weights, pc,
                          mod, want, rounds, late, cut, revived>>
           /\ \/ UNCHANGED <<claims, event, teardown>>
              \/ \E m \in Models, way \in {"async", "drain"} :
                    /\ claims[m] = 0 /\ ~loading[m] /\ in_use[m] = 0 /\ engine[m] # "none"
                    /\ ClaimEntry(o, m, way)
<1> DEFINE Claimed == \E m \in Models, way \in {"async", "drain"} :
                         /\ claims[m] = 0 /\ ~loading[m] /\ in_use[m] = 0
                         /\ engine[m] # "none" /\ ClaimEntry(o, m, way)
           Outcome == UNCHANGED <<claims, event, teardown>> \/ Claimed
<1>1. Types /\ todo[o] = {}
  BY TypesAreTypeOK DEF PoolInv, Swept
<1>2. /\ ~Tearing(o) /\ calls[o] < MaxCalls /\ calls' = [calls EXCEPT ![o] = @ + 1]
      /\ UNCHANGED <<engine, variant, loading, failed, in_use, weights, pc, mod, want, rounds,
                     late, cut, revived>>
      /\ TtlSweep(o) \/ UnloadIfIdle(o) \/ MarkBusyVictim(o)
  BY <1>1 DEF Background, OneUnloader, lentVars
<1>3. calls' \in [Ops -> 0..MaxCalls]
  BY <1>1, <1>2, PoolAssumption DEF Types
<1>4. CASE TtlSweep(o)
  <2>0. PICK S \in SUBSET Expired : \E m \in S :
            /\ Cardinality(S) <= SweepSize
            /\ UnloadEngineAsync(o, m)
            /\ todo' = [todo EXCEPT ![o] = S \ {m}]
            /\ UNCHANGED mem
    BY <1>4 DEF TtlSweep
  <2>1. PICK m \in S :
            /\ Cardinality(S) <= SweepSize
            /\ UnloadEngineAsync(o, m)
            /\ todo' = [todo EXCEPT ![o] = S \ {m}]
            /\ UNCHANGED mem
    BY <2>0
  <2>2. IsFiniteSet(S) /\ S \subseteq Models
    BY PoolAssumption, FS_Subset DEF Expired
  <2>3. S \ {m} = {}
    <3>1. Cardinality(S) = Cardinality(S \ {m}) + 1 /\ Cardinality(S \ {m}) \in Nat
          /\ IsFiniteSet(S \ {m})
      BY <2>2, SmallerSet
    <3>2. Cardinality(S \ {m}) = 0
      BY <2>1, <3>1, PoolAssumption DEF OneUnloader
    <3> QED BY <3>1, <3>2, FS_EmptySet
  <2>4. todo' = todo
    BY <2>1, <2>3, <1>1 DEF Types
  <2>5. engine[m] # "none" /\ ~loading[m] /\ in_use[m] = 0 /\ m \in Models
    BY DEF Expired
  <2>6. pending' \in [Models -> BOOLEAN] /\ Outcome
    BY <2>1, <2>5, <1>1 DEF UnloadEngineAsync, Types
  <2> QED
    BY <1>1, <1>2, <1>3, <2>1, <2>4, <2>6 DEF Types, PoolInv, Swept
<1>5. CASE UnloadIfIdle(o)
  <2>1. PICK m \in Expired : /\ claims[m] = 0 /\ ClaimEntry(o, m, "drain")
                             /\ UNCHANGED <<pending, mem, todo>>
    BY <1>5 DEF UnloadIfIdle
  <2>2. engine[m] # "none" /\ ~loading[m] /\ in_use[m] = 0 /\ m \in Models
    BY DEF Expired
  <2>3. Outcome
    BY <2>1, <2>2
  <2> QED
    BY <1>1, <1>2, <1>3, <2>1, <2>3 DEF Types, PoolInv, Swept
<1>6. CASE MarkBusyVictim(o)
  <2>1. UNCHANGED <<claims, event, teardown, mem, todo>> /\ pending' \in [Models -> BOOLEAN]
    BY <1>6, <1>1 DEF MarkBusyVictim, Types
  <2> QED
    BY <1>1, <1>2, <1>3, <2>1 DEF Types, PoolInv, Swept
<1> QED
  BY <1>2, <1>4, <1>5, <1>6

\* A task or a background caller claims an engine, the rest of the pool as it was.
LEMMA ClaimKeepsInv ==
    ASSUME PoolInv, NEW a \in Actors, ~Tearing(a), NEW m \in Models,
           NEW way \in {"async", "drain"}, ClaimEntry(a, m, way),
           claims[m] = 0, ~loading[m], in_use[m] = 0, engine[m] # "none",
           a \in Tasks => pc[a] = "admit" /\ engine[mod[a]] = "none",
           UNCHANGED <<engine, loading, in_use, pc, mod, late>>
    PROVE  /\ ClaimsCounted' /\ LoadsReserved' /\ LeasesCounted' /\ LateLeases'
           /\ TeardownOwned' /\ Detached'
<1> USE DEF PoolInv
<1>1. Types
  BY TypesAreTypeOK
<1>2. /\ ClaimsCounted'
      /\ \A n \in Models : loading[n] => claims'[n] = 0
      /\ \A n \in Models : n # m => claims'[n] = claims[n]
      /\ \A b \in Actors : b # a => teardown'[b] = teardown[b]
      /\ teardown'[a] = [m |-> m, way |-> way, at |-> "stop"]
  BY ClaimStep
<1>3. LoadsReserved'
  BY <1>2 DEF LoadsReserved, Loader
<1>4. LeasesCounted' /\ LateLeases'
  <2>1. Cardinality(Holders(m)) = 0
    BY DEF LeasesCounted
  <2>2. Holders(m) = {}
    BY <2>1, HoldersFinite, FS_EmptySet
  <2> QED BY <2>2, <1>2 DEF LeasesCounted, Holders, LateLeases
<1>5. TeardownOwned'
  BY <1>2 DEF TeardownOwned, Tearing
<1>6. \A b \in Actors, n \in Models :
          (Claiming(b, n) /\ teardown[b].at \notin {"stop", "detach"} => engine[n] = "none")'
  BY <1>2 DEF Detached, Claiming
<1>7. \A t \in Tasks :
          (/\ pc[t] = "attached" => engine[mod[t]] = "up"
           /\ pc[t] \in {"admitted", "load"} => engine[mod[t]] = "none"
           /\ pc[t] = "admit" =>
                \/ engine[mod[t]] = "none"
                \/ teardown[t].way = "bare" /\ teardown[t].at \in {"stop", "detach"})'
  <2> TAKE t \in Tasks
  <2>1. t \in Actors
    BY DEF Actors
  <2> QED BY <2>1, <1>2 DEF Detached
<1> QED
  BY <1>2, <1>3, <1>4, <1>5, <1>6, <1>7 DEF Detached

\* Background callers preserve the invariant.
LEMMA BackgroundInv ==
    ASSUME PoolInv, OneUnloader, NEW o \in Ops, Background(o)
    PROVE  PoolInv'
<1> USE DEF PoolInv
<1>1. Types
  BY TypesAreTypeOK
<1>2. /\ ~Tearing(o)
      /\ todo' \in [Ops -> SUBSET Models] /\ Swept'
      /\ calls' \in [Ops -> 0..MaxCalls] /\ pending' \in [Models -> BOOLEAN]
      /\ UNCHANGED <<engine, variant, loading, failed, in_use, mem, weights, pc,
                     mod, want, rounds, late, cut, revived>>
  BY BackgroundCases
<1>3. CASE UNCHANGED <<claims, event, teardown>>
  <2>1. Types'
    BY <1>1, <1>2, <1>3 DEF Types
  <2>2. ClaimsCounted'
    BY <1>2, <1>3 DEF ClaimsCounted, Claimers, Claiming
  <2>4. LoadsReserved' /\ LeasesCounted'
    <3>1. \A m \in Models, u \in Tasks : Loader(u, m)' <=> Loader(u, m)
      BY <1>2 DEF Loader
    <3>2. LoadsReserved'
      BY <1>2, <1>3, <3>1 DEF LoadsReserved
    <3>3. LeasesCounted'
      BY <1>2 DEF LeasesCounted, Holders
    <3> QED BY <3>2, <3>3
  <2>5. LateLeases'
    BY <1>2, <1>3 DEF LateLeases, Holders
  <2>3. TeardownOwned' /\ Detached'
    BY <1>2, <1>3 DEF TeardownOwned, Tearing, Detached, Claiming
  <2> QED BY <1>2, <2>1, <2>2, <2>3, <2>4, <2>5, TypesAreTypeOKNext
<1>4. CASE \E m \in Models, way \in {"async", "drain"} :
             /\ claims[m] = 0 /\ ~loading[m] /\ in_use[m] = 0 /\ engine[m] # "none"
             /\ ClaimEntry(o, m, way)
  <2>1. PICK m \in Models, way \in {"async", "drain"} :
             /\ claims[m] = 0 /\ ~loading[m] /\ in_use[m] = 0 /\ engine[m] # "none"
             /\ ClaimEntry(o, m, way)
    BY <1>4
  <2>2. o \in Actors /\ o \notin Tasks
    BY PoolAssumption DEF Actors
  <2>3. /\ claims' \in [Models -> Nat] /\ event' \in [Models -> BOOLEAN]
        /\ teardown' \in [Actors -> {NoTeardown} \cup [m : Models, way : Ways, at : Phases]]
    BY <2>1, <2>2, <1>2, ClaimStep
  <2>4. Types'
    BY <2>3, <1>1, <1>2 DEF Types
  <2>5. /\ ClaimsCounted' /\ LoadsReserved' /\ LeasesCounted' /\ LateLeases'
        /\ TeardownOwned' /\ Detached'
    BY <2>1, <2>2, <1>2, ClaimKeepsInv
  <2> QED BY <1>2, <2>4, <2>5, TypesAreTypeOKNext
<1> QED
  BY <1>3, <1>4, BackgroundCases

-----------------------------------------------------------------------------

\* _detach_engine and the settle go through their phases in order.
LEMMA PhaseStep ==
    ASSUME PoolInv, NEW a \in Actors, NEW at \in Phases, InPhase(a, at)
    PROVE  /\ teardown[a] \in [m : Models, way : Ways, at : Phases] /\ Tearing(a)
           /\ teardown[a].at = at
           /\ teardown' \in [Actors -> {NoTeardown} \cup [m : Models, way : Ways, at : Phases]]
           /\ \A b \in Actors : b # a => teardown'[b] = teardown[b]
           /\ teardown'[a] = NextPhase(teardown[a])
           /\ Tearing(a)' => /\ teardown'[a].m = teardown[a].m
                             /\ teardown'[a].way = teardown[a].way
           /\ teardown[a].way = "bare" => teardown'[a].at # "unclaim"
<1> USE DEF PoolInv
<1>1. Types
  BY TypesAreTypeOK
<1>2. teardown[a].at = at /\ teardown' = [teardown EXCEPT ![a] = NextPhase(@)]
  BY DEF InPhase
<1>3. teardown[a] \in [m : Models, way : Ways, at : Phases] /\ Tearing(a)
  BY <1>1, <1>2 DEF Types, NoTeardown, Phases, Tearing
<1>4. /\ NextPhase(teardown[a]) \in {NoTeardown} \cup [m : Models, way : Ways, at : Phases]
      /\ NextPhase(teardown[a]) # NoTeardown =>
            /\ NextPhase(teardown[a]).m = teardown[a].m
            /\ NextPhase(teardown[a]).way = teardown[a].way
      /\ teardown[a].way = "bare" => NextPhase(teardown[a]).at # "unclaim"
  BY <1>3 DEF NextPhase, NoTeardown, Phases, Ways
<1>5. /\ \A b \in Actors : b # a => teardown'[b] = teardown[b]
      /\ teardown'[a] = NextPhase(teardown[a])
  BY <1>1, <1>2 DEF Types
<1>6. teardown' \in [Actors -> {NoTeardown} \cup [m : Models, way : Ways, at : Phases]]
  BY <1>1, <1>2, <1>4 DEF Types
<1> QED
  BY <1>2, <1>3, <1>4, <1>5, <1>6 DEF Tearing

\* A teardown that has not detached its engine has the entry to itself: no
\* request is between the attach and the commit of a load of it.
LEMMA TeardownAlone ==
    ASSUME PoolInv, NEW a \in Actors, Tearing(a), teardown[a].at \in {"stop", "detach"},
           NEW t \in Tasks, mod[t] = teardown[a].m
    PROVE  pc[t] # "attached"
<1> USE DEF PoolInv
<1>1. Types
  BY TypesAreTypeOK
<1>2. teardown[a] \in [m : Models, way : Ways, at : Phases] /\ teardown[a].m \in Models
  BY <1>1 DEF Types, Tearing
<1>3. SUFFICES ASSUME pc[t] = "attached" PROVE FALSE
  OBVIOUS
<1>4. Loader(t, teardown[a].m) /\ loading[teardown[a].m]
  BY <1>2, <1>3 DEF Loader, LoadsReserved
<1>5. CASE teardown[a].way = "bare"
  <2>1. a \in Tasks /\ Loader(a, teardown[a].m) /\ pc[a] = "admit"
    BY <1>5 DEF TeardownOwned, Loader
  <2> QED BY <2>1, <1>2, <1>3, <1>4 DEF LoadsReserved
<1>6. CASE teardown[a].way # "bare"
  <2>1. Claiming(a, teardown[a].m)
    BY <1>2, <1>6 DEF Claiming, Ways
  <2> QED BY <2>1, <1>2, <1>4, ClaimersFinite DEF LoadsReserved
<1> QED
  BY <1>5, <1>6

\* Every step of a teardown preserves the invariant.
LEMMA TeardownInv ==
    ASSUME PoolInv, NEW a \in Actors, TeardownStep(a)
    PROVE  PoolInv'
<1> DEFINE td == teardown[a]
           Rec == [m : Models, way : Ways, at : Phases]
<1> USE DEF PoolInv
<1>1. Types
  BY TypesAreTypeOK
<1>2. ASSUME NEW at \in Phases, InPhase(a, at), at # "unclaim", UNCHANGED <<claims, pc>>,
             \A n \in Models : n # td.m => engine'[n] = engine[n],
             engine'[td.m] = "none" \/ at = "stop" \/ engine'[td.m] = engine[td.m],
             at = "stop" => engine'[td.m] = IF engine[td.m] = "up" THEN "stopped" ELSE engine[td.m],
             at \in {"collect", "settle"} => engine'[td.m] = engine[td.m],
             at = "detach" => engine'[td.m] = "none",
             \A n \in Models : engine[n] = "none" => engine'[n] = "none"
      PROVE  /\ ClaimsCounted' /\ LoadsReserved' /\ LeasesCounted' /\ LateLeases'
             /\ TeardownOwned' /\ Detached' /\ Swept'
  <2>1. /\ td \in Rec /\ Tearing(a) /\ td.at = at
        /\ \A b \in Actors : b # a => teardown'[b] = teardown[b]
        /\ teardown'[a] = NextPhase(td)
        /\ Tearing(a)' => teardown'[a].m = td.m /\ teardown'[a].way = td.way
        /\ td.way = "bare" => teardown'[a].at # "unclaim"
    BY <1>2, PhaseStep
  <2>2. UNCHANGED <<loading, in_use, mod, todo, late>>
    BY <1>2 DEF InPhase
  <2>3. \A n \in Models : Claiming(a, n)' <=> Claiming(a, n)
    BY <1>2, <2>1 DEF Claiming, NextPhase, Phases, Ways, NoTeardown
  <2>4. \A b \in Actors, n \in Models : Claiming(b, n)' <=> Claiming(b, n)
    BY <2>1, <2>3 DEF Claiming
  <2>5. ClaimsCounted'
    BY <1>2, <2>2, <2>4 DEF ClaimsCounted, Claimers
  <2>6. LoadsReserved' /\ LeasesCounted' /\ LateLeases' /\ Swept'
    BY <1>2, <2>2 DEF LoadsReserved, Loader, LeasesCounted, Holders, LateLeases, Swept
  <2>7. TeardownOwned'
    BY <1>2, <2>1, <2>2 DEF TeardownOwned, Tearing
  <2>8. ASSUME NEW b \in Actors, NEW n \in Models, Claiming(b, n)',
               teardown'[b].at \notin {"stop", "detach"}
        PROVE  engine'[n] = "none"
    <3>1. Claiming(b, n)
      BY <2>4, <2>8
    <3>2. CASE b = a
      <4>1. td.m = n
        BY <3>1, <3>2 DEF Claiming
      <4>2. at = "stop" => teardown'[a].at = "detach"
        BY <2>1 DEF NextPhase
      <4> QED BY <1>2, <2>1, <2>8, <3>1, <3>2, <4>1, <4>2 DEF Detached, Phases
    <3>3. CASE b # a
      <4>1. engine[n] = "none"
        BY <2>1, <2>8, <3>1, <3>3 DEF Detached
      <4> QED BY <4>1, <1>2 DEF Phases
    <3> QED BY <3>2, <3>3
  <2>9. ASSUME NEW t \in Tasks
        PROVE  /\ pc'[t] = "attached" => engine'[mod'[t]] = "up"
               /\ pc'[t] \in {"admitted", "load"} => engine'[mod'[t]] = "none"
               /\ pc'[t] = "admit" =>
                    \/ engine'[mod'[t]] = "none"
                    \/ teardown'[t].way = "bare" /\ teardown'[t].at \in {"stop", "detach"}
    <3>1. mod[t] \in Models /\ t \in Actors
      BY <1>1 DEF Types, Actors
    <3>2. pc[t] = "attached" => engine'[mod[t]] = engine[mod[t]]
      BY <3>1, <2>1, <1>2, TeardownAlone DEF Phases
    <3>3. engine[mod[t]] = "none" => engine'[mod[t]] = "none"
      BY <3>1, <1>2 DEF Phases
    <3>4. (/\ pc[t] = "admit" /\ teardown[t].way = "bare"
           /\ teardown[t].at \in {"stop", "detach"}) =>
             \/ engine'[mod[t]] = "none"
             \/ teardown'[t].way = "bare" /\ teardown'[t].at \in {"stop", "detach"}
      <4>1. CASE t # a
        BY <4>1, <3>1, <2>1
      <4>2. CASE t = a /\ at = "stop"
        BY <4>2, <2>1 DEF NextPhase
      <4>3. CASE t = a /\ at = "detach"
        BY <4>3, <2>1, <1>2 DEF TeardownOwned
      <4> QED BY <4>1, <4>2, <4>3, <2>1
    <3> QED
      BY <3>1, <3>2, <3>3, <3>4, <2>2, <1>2 DEF Detached
  <2> QED
    BY <2>5, <2>6, <2>7, <2>8, <2>9 DEF Detached
<1>3. CASE StopEngine(a)
  <2>1. InPhase(a, "stop") /\ "stop" \in Phases
    BY <1>3 DEF StopEngine, Phases
  <2>2. teardown' \in [Actors -> {NoTeardown} \cup Rec] /\ td \in Rec
    BY <2>1, PhaseStep
  <2>3. /\ engine' = [engine EXCEPT ![td.m] = IF @ = "up" THEN "stopped" ELSE @]
        /\ UNCHANGED <<claims, event, pending, mem, weights, pc, variant>>
        /\ cut' = cut \cup Holders(td.m)
    BY <1>3 DEF StopEngine
  <2>4. Types'
    <3>1. cut' \subseteq Tasks
      BY <1>1, <2>3 DEF Types, Holders
    <3> QED BY <3>1, <1>1, <2>1, <2>2, <2>3 DEF Types, InPhase
  <2>5. /\ ClaimsCounted' /\ LoadsReserved' /\ LeasesCounted' /\ LateLeases'
        /\ TeardownOwned' /\ Detached' /\ Swept'
    <3>1. /\ \A n \in Models : n # td.m => engine'[n] = engine[n]
          /\ engine'[td.m] = IF engine[td.m] = "up" THEN "stopped" ELSE engine[td.m]
          /\ \A n \in Models : engine[n] = "none" => engine'[n] = "none"
      BY <1>1, <2>2, <2>3 DEF Types
    <3> QED BY <1>2, <2>1, <2>3, <3>1
  <2> QED BY <2>4, <2>5, TypesAreTypeOKNext
<1>4. CASE DetachEngine(a)
  <2>1. InPhase(a, "detach") /\ "detach" \in Phases
    BY <1>4 DEF DetachEngine, Phases
  <2>2. teardown' \in [Actors -> {NoTeardown} \cup Rec] /\ td \in Rec
    BY <2>1, PhaseStep
  <2>3. /\ engine' = [engine EXCEPT ![td.m] = "none"]
        /\ pending' = [pending EXCEPT ![td.m] = FALSE]
        /\ variant' = [variant EXCEPT ![td.m] = "unset"]
        /\ UNCHANGED <<claims, event, mem, weights, pc, cut>>
    BY <1>4 DEF DetachEngine
  <2>4. Types'
    BY <1>1, <2>1, <2>2, <2>3 DEF Types, InPhase
  <2>5. /\ ClaimsCounted' /\ LoadsReserved' /\ LeasesCounted' /\ LateLeases'
        /\ TeardownOwned' /\ Detached' /\ Swept'
    <3>1. /\ \A n \in Models : n # td.m => engine'[n] = engine[n]
          /\ engine'[td.m] = "none"
          /\ \A n \in Models : engine[n] = "none" => engine'[n] = "none"
      BY <1>1, <2>2, <2>3 DEF Types
    <3> QED BY <1>2, <2>1, <2>3, <3>1
  <2> QED BY <2>4, <2>5, TypesAreTypeOKNext
<1>5. CASE CollectWeights(a)
  <2>1. InPhase(a, "collect") /\ "collect" \in Phases
    BY <1>5 DEF CollectWeights, Phases
  <2>2. teardown' \in [Actors -> {NoTeardown} \cup Rec] /\ td \in Rec
    BY <2>1, PhaseStep
  <2>3. /\ weights' = [weights EXCEPT ![td.m] =
                          IF @ > (IF engine[td.m] = "none" THEN 0 ELSE 1) THEN @ - 1 ELSE @]
        /\ UNCHANGED <<engine, claims, event, pending, mem, pc>>
        /\ UNCHANGED <<variant, loading, failed, in_use, mod, want, rounds, calls, todo,
                       late, cut, revived>>
    BY <1>5 DEF CollectWeights, InPhase
  <2>4. Types'
    <3>1. weights \in [Models -> Nat]
      BY <1>1 DEF Types
    <3>2. weights' \in [Models -> Nat]
      BY <2>3, <3>1, FreeOneCopy
    <3> QED BY <1>1, <2>2, <2>3, <3>2 DEF Types
  <2>5. /\ ClaimsCounted' /\ LoadsReserved' /\ LeasesCounted' /\ LateLeases'
        /\ TeardownOwned' /\ Detached' /\ Swept'
    BY <1>2, <2>1, <2>3
  <2> QED BY <2>4, <2>5, TypesAreTypeOKNext
<1>6. CASE SettleUnloaded(a)
  <2>1. InPhase(a, "settle") /\ "settle" \in Phases
    BY <1>6 DEF SettleUnloaded, Phases
  <2>2. teardown' \in [Actors -> {NoTeardown} \cup Rec] /\ td \in Rec
    BY <2>1, PhaseStep
  <2>3. /\ mem' = mem - Size[td.m]
        /\ UNCHANGED <<engine, claims, event, pending, weights, pc, variant, cut>>
    BY <1>6 DEF SettleUnloaded
  <2>4. Types'
    BY <1>1, <2>1, <2>2, <2>3, PoolAssumption DEF Types, InPhase
  <2>5. /\ ClaimsCounted' /\ LoadsReserved' /\ LeasesCounted' /\ LateLeases'
        /\ TeardownOwned' /\ Detached' /\ Swept'
    BY <1>2, <2>1, <2>3
  <2> QED BY <2>4, <2>5, TypesAreTypeOKNext
<1>7. CASE ReleaseClaim(a)
  <2>1. InPhase(a, "unclaim") /\ "unclaim" \in Phases
    BY <1>7 DEF ReleaseClaim, Phases
  <2>2. /\ teardown' \in [Actors -> {NoTeardown} \cup Rec] /\ td \in Rec
        /\ Tearing(a) /\ td.at = "unclaim"
        /\ \A b \in Actors : b # a => teardown'[b] = teardown[b]
        /\ teardown'[a] = NextPhase(td)
    BY <2>1, PhaseStep
  <2>3. /\ claims' = [claims EXCEPT ![td.m] = IF @ = 0 THEN 0 ELSE @ - 1]
        /\ event' = [event EXCEPT ![td.m] = FALSE]
        /\ pc' = [u \in Tasks |-> IF u \in Waiters(td.m) THEN "woken" ELSE pc[u]]
        /\ UNCHANGED <<engine, pending, mem, weights>>
        /\ UNCHANGED <<variant, loading, failed, in_use, mod, want, rounds, calls, todo,
                       late, cut, revived>>
    BY <1>7 DEF ReleaseClaim, InPhase
  <2>4. Types'
    <3>1. claims \in [Models -> Nat] /\ event \in [Models -> BOOLEAN]
      BY <1>1 DEF Types
    <3>2. claims' \in [Models -> Nat]
      BY <2>3, <3>1, CountDown
    <3>3. event' \in [Models -> BOOLEAN]
      BY <2>3, <3>1
    <3>4. pc' \in [Tasks -> {"new", "wait", "orphan", "woken", "admit", "admitted",
                            "load", "attached", "hold", "done", "failed"}]
      BY <1>1, <2>3 DEF Types
    <3> QED BY <1>1, <2>2, <2>3, <3>2, <3>3, <3>4 DEF Types
  <2>5. Claiming(a, td.m)
    BY <2>2 DEF TeardownOwned, Claiming, Ways
  <2>6. \A n \in Models : ~Claiming(a, n)'
    BY <2>2 DEF Claiming, NextPhase, Ways, NoTeardown
  <2>7. /\ claims'[td.m] = claims[td.m] - 1 /\ engine[td.m] = "none"
        /\ \A n \in Models : n # td.m => claims'[n] = claims[n]
        /\ \A n \in Models : claims[n] = 0 => claims'[n] = 0
    <3>1. claims[td.m] # 0 /\ claims[td.m] \in Nat /\ td.m \in Models
      BY <1>1, <2>2, <2>5, ClaimersFinite DEF Types
    <3>2. claims'[td.m] = claims[td.m] - 1
      BY <1>1, <2>3, <3>1 DEF Types
    <3>3. \A n \in Models : n # td.m => claims'[n] = claims[n]
      BY <1>1, <2>3, <3>1 DEF Types
    <3> QED BY <3>1, <3>2, <3>3, <2>2, <2>5 DEF Detached
  <2>8. \A b \in Actors, n \in Models : Claiming(b, n)' <=> b # a /\ Claiming(b, n)
    BY <2>2, <2>6 DEF Claiming
  <2>9. ClaimsCounted'
    <3>1. \A n \in Models : Claiming(a, n) => n = td.m
      BY DEF Claiming
    <3>0. PICK m \in Models : m = td.m
      BY <2>2
    <3>2. \A n \in Models : n # m => Claimers(n)' = Claimers(n)
      BY <3>0, <3>1, <2>8 DEF Claimers
    <3>3. Claimers(m)' = Claimers(m) \ {a} /\ a \in Claimers(m)
      BY <3>0, <2>5, <2>8 DEF Claimers
    <3>4. Cardinality(Claimers(m)) = Cardinality(Claimers(m) \ {a}) + 1
          /\ Cardinality(Claimers(m) \ {a}) \in Nat
      BY <3>3, ClaimersFinite, SmallerSet
    <3>5. \A n \in Models : claims'[n] = Cardinality(Claimers(n)')
      <4>1. claims[m] = Cardinality(Claimers(m))
        BY ClaimersFinite
      <4>2. claims'[m] = Cardinality(Claimers(m) \ {a})
        BY <4>1, <3>0, <3>4, <2>7
      <4>3. \A n \in Models : n # m => claims'[n] = Cardinality(Claimers(n))
        BY <3>0, <2>7 DEF ClaimsCounted
      <4> QED BY <4>2, <4>3, <3>2, <3>3
    <3>6. \A n \in Models, b, c \in Actors \ late : Claiming(b, n)' /\ Claiming(c, n)' => b = c
      BY <2>8 DEF ClaimsCounted
    <3> QED BY <3>5, <3>6, <2>3 DEF ClaimsCounted, Claimers
  <2>10. \A t \in Tasks :
            pc'[t] = pc[t] \/ (pc[t] = "wait" /\ pc'[t] = "woken")
    BY <1>1, <2>3 DEF Waiters, Types
  <2>11. LoadsReserved'
    BY <2>3, <2>7, <2>10 DEF LoadsReserved, Loader
  <2>12. LeasesCounted' /\ LateLeases'
    <3>1. \A n \in Models : Holders(n)' = Holders(n)
      BY <2>3, <2>10 DEF Holders
    <3>2. LeasesCounted'
      BY <3>1, <2>3 DEF LeasesCounted
    <3>3. \A n \in Models : claims'[n] # 0 /\ engine'[n] # "none" => Holders(n)' \subseteq late'
      BY <3>1, <2>3, <2>7 DEF LateLeases
    <3>4. \A t \in late' : pc'[t] \in {"hold", "done"}
      BY <1>1, <2>3, <2>10 DEF LateLeases, Types
    <3> QED BY <3>2, <3>3, <3>4 DEF LateLeases, Holders
  <2>13. TeardownOwned'
    BY <2>2, <2>3, <2>10 DEF TeardownOwned, Tearing, NextPhase, Ways
  <2>14. \A b \in Actors, n \in Models :
            Claiming(b, n)' /\ teardown'[b].at \notin {"stop", "detach"} => engine'[n] = "none"
    BY <2>2, <2>3, <2>8 DEF Detached
  <2>15. \A t \in Tasks :
          /\ pc'[t] = "attached" => engine'[mod'[t]] = "up"
          /\ pc'[t] \in {"admitted", "load"} => engine'[mod'[t]] = "none"
          /\ pc'[t] = "admit" =>
               \/ engine'[mod'[t]] = "none"
               \/ teardown'[t].way = "bare" /\ teardown'[t].at \in {"stop", "detach"}
    BY <2>2, <2>3, <2>10 DEF Detached, Actors
  <2> QED
    BY <2>3, <2>4, <2>9, <2>11, <2>12, <2>13, <2>14, <2>15, TypesAreTypeOKNext
       DEF Detached, Swept
<1> QED
  BY <1>3, <1>4, <1>5, <1>6, <1>7 DEF TeardownStep

-----------------------------------------------------------------------------

\* Request t goes to "to"; the others stay, or leave the event they wait on.
Moves(t, to) ==
    /\ pc'[t] = to
    /\ \A u \in Tasks \ {t} :
          pc'[u] = pc[u] \/ (pc[u] = "wait" /\ pc'[u] \in {"woken", "orphan"})

\* The type of pc.
PcType == [Tasks -> {"new", "wait", "orphan", "woken", "admit", "admitted",
                     "load", "attached", "hold", "done", "failed"}]

\* The ways pc is assigned in the actions.
LEMMA MovesForms ==
    ASSUME PoolInv, NEW t \in Tasks, NEW m \in Models,
           NEW to \in {"wait", "admit", "admitted", "load", "attached", "hold", "done", "failed"},
           \/ pc' = [pc EXCEPT ![t] = to]
           \/ pc' = Woken(m, t, to)
           \/ pc' = Stranded(m, t, to)
    PROVE  Moves(t, to) /\ pc' \in PcType
<1>1. Types
  BY TypesAreTypeOK DEF PoolInv
<1>2. CASE pc' = [pc EXCEPT ![t] = to]
  BY <1>1, <1>2 DEF Types, Moves, PcType
<1>3. CASE pc' = Woken(m, t, to)
  BY <1>1, <1>3 DEF Types, Moves, PcType, Woken, Waiters
<1>4. CASE pc' = Stranded(m, t, to)
  BY <1>1, <1>4 DEF Types, Moves, PcType, Stranded, Waiters
<1> QED
  BY <1>2, <1>3, <1>4

\* A move that neither takes nor ends a lease leaves in_use exact, and the
\* leases on claimed engines late.
LEMMA SameHolders ==
    ASSUME PoolInv, NEW t \in Tasks, NEW to, Moves(t, to),
           pc[t] \notin {"hold", "done"}, to # "hold",
           \A m \in Models : claims'[m] # 0 /\ engine'[m] # "none" =>
                               claims[m] # 0 /\ engine[m] # "none",
           UNCHANGED <<mod, in_use, late>>
    PROVE  LeasesCounted' /\ LateLeases'
<1>1. \A m \in Models : Holders(m)' = Holders(m)
  BY DEF Holders, Moves
<1>2. LeasesCounted'
  BY <1>1 DEF PoolInv, LeasesCounted
<1>3. \A u \in late : pc'[u] \in {"hold", "done"}
  BY TypesAreTypeOK DEF Moves, PoolInv, LateLeases, Types
<1> QED
  BY <1>1, <1>2, <1>3 DEF PoolInv, LateLeases

\* Taking a lease increments in_use.
LEMMA OneMoreHolder ==
    ASSUME PoolInv, NEW t \in Tasks, Moves(t, "hold"), pc[t] # "hold", UNCHANGED mod,
           in_use' = [in_use EXCEPT ![mod[t]] = @ + 1]
    PROVE  LeasesCounted' /\ in_use' \in [Models -> Nat]
<1> DEFINE m == mod[t]
<1>1. Types /\ m \in Models
  BY TypesAreTypeOK DEF PoolInv, Types
<1>2. \A n \in Models : n # m => Holders(n)' = Holders(n)
  BY DEF Holders, Moves
<1>3. Holders(m)' = Holders(m) \cup {t} /\ t \notin Holders(m)
  BY <1>1 DEF Holders, Moves
<1>4. Cardinality(Holders(m)') = Cardinality(Holders(m)) + 1
  BY <1>1, <1>3, HoldersFinite, FS_AddElement
<1>5. in_use' \in [Models -> Nat] /\ in_use'[m] = in_use[m] + 1
      /\ \A n \in Models : n # m => in_use'[n] = in_use[n]
  BY <1>1 DEF Types
<1>6. \A n \in Models : in_use'[n] = Cardinality(Holders(n)')
  BY <1>1, <1>2, <1>4, <1>5 DEF PoolInv, LeasesCounted
<1> QED
  BY <1>5, <1>6 DEF LeasesCounted, Holders

\* Ending a lease decrements in_use, which is never zero at a release.
LEMMA OneHolderLess ==
    ASSUME PoolInv, NEW t \in Tasks, Moves(t, "done"), pc[t] = "hold", UNCHANGED mod,
           in_use' = [in_use EXCEPT ![mod[t]] = IF in_use[mod[t]] > 0 THEN in_use[mod[t]] - 1 ELSE 0]
    PROVE  /\ LeasesCounted' /\ in_use' \in [Models -> Nat]
           /\ in_use[mod[t]] > 0
           /\ \A n \in Models : n # mod[t] => in_use'[n] = in_use[n]
<1> DEFINE m == mod[t]
<1>1. Types /\ m \in Models
  BY TypesAreTypeOK DEF PoolInv, Types
<1>2. \A n \in Models : n # m => Holders(n)' = Holders(n)
  BY DEF Holders, Moves
<1>3. Holders(m)' = Holders(m) \ {t} /\ t \in Holders(m)
  BY <1>1 DEF Holders, Moves
<1>4. Cardinality(Holders(m)) = Cardinality(Holders(m) \ {t}) + 1 /\ Cardinality(Holders(m) \ {t}) \in Nat
  BY <1>1, <1>3, HoldersFinite, SmallerSet
<1>5. in_use[m] > 0 /\ in_use[m] = Cardinality(Holders(m)) /\ in_use[m] \in Nat
  BY <1>1, <1>4 DEF PoolInv, LeasesCounted, Types
<1>6. in_use' = [in_use EXCEPT ![m] = in_use[m] - 1]
  BY <1>5
<1>7. in_use' \in [Models -> Nat] /\ in_use'[m] = in_use[m] - 1
      /\ \A n \in Models : n # m => in_use'[n] = in_use[n]
  BY <1>1, <1>5, <1>6 DEF Types
<1>8. in_use'[m] = Cardinality(Holders(m)')
  BY <1>3, <1>4, <1>5, <1>7
<1>9. \A n \in Models : in_use'[n] = Cardinality(Holders(n)')
  BY <1>2, <1>7, <1>8 DEF PoolInv, LeasesCounted
<1> QED
  BY <1>5, <1>7, <1>9 DEF LeasesCounted, Holders

\* A request that is not loading moves to a place where it does not load.
LEMMA OutsideMove ==
    ASSUME PoolInv, NEW t \in Tasks, NEW to \in {"wait", "hold", "failed"}, Moves(t, to),
           pc[t] \in {"new", "woken"}, late \subseteq late',
           UNCHANGED <<engine, loading, claims, mod, teardown, todo>>
    PROVE  ClaimsCounted' /\ LoadsReserved' /\ TeardownOwned' /\ Detached' /\ Swept'
<1> USE DEF PoolInv
<1>1. ClaimsCounted' /\ Swept'
  BY DEF ClaimsCounted, Claimers, Claiming, Swept
<1>2. \A m \in Models, u \in Tasks : Loader(u, m)' <=> Loader(u, m)
  BY DEF Loader, Moves
<1>3. LoadsReserved'
  BY <1>2 DEF LoadsReserved
<1>4. TeardownOwned'
  BY DEF TeardownOwned, Tearing, Moves
<1>5. Detached'
  BY DEF Detached, Claiming, Moves
<1> QED
  BY <1>1, <1>3, <1>4, <1>5

\* The load of t ends, with a lease or without.
LEMMA LoadEnds ==
    ASSUME PoolInv, NEW t \in Tasks, NEW to \in {"hold", "failed"}, Moves(t, to),
           pc[t] \in {"admit", "admitted", "load", "attached"}, ~Tearing(t),
           loading' = [loading EXCEPT ![mod[t]] = FALSE],
           UNCHANGED <<engine, claims, mod, teardown, todo, late>>
    PROVE  /\ ClaimsCounted' /\ LoadsReserved' /\ TeardownOwned' /\ Detached' /\ Swept'
           /\ loading' \in [Models -> BOOLEAN]
<1> USE DEF PoolInv
<1> DEFINE m == mod[t]
<1>1. Types /\ m \in Models /\ Loader(t, m)
  BY TypesAreTypeOK DEF Types, Loader
<1>2. ClaimsCounted' /\ Swept'
  BY DEF ClaimsCounted, Claimers, Claiming, Swept
<1>3. loading' \in [Models -> BOOLEAN] /\ \A n \in Models : loading'[n] <=> n # m /\ loading[n]
  BY <1>1 DEF Types
<1>4. \A n \in Models, u \in Tasks : Loader(u, n)' <=> u # t /\ Loader(u, n)
  BY DEF Loader, Moves
<1>5. ASSUME NEW n \in Models, loading'[n]
      PROVE  claims'[n] = 0 /\ \E u \in Tasks : Loader(u, n)'
  <2>1. n # m /\ loading[n]
    BY <1>3, <1>5
  <2>2. PICK u \in Tasks : Loader(u, n)
    BY <2>1 DEF LoadsReserved
  <2>3. u # t
    BY <2>1, <2>2 DEF Loader
  <2> QED BY <2>1, <2>2, <2>3, <1>4 DEF LoadsReserved
<1>6. ASSUME NEW n \in Models, NEW u \in Tasks, Loader(u, n)'
      PROVE  loading'[n]
  <2>1. u # t /\ Loader(u, n) /\ loading[n]
    BY <1>4, <1>6 DEF LoadsReserved
  <2>2. n # m
    BY <2>1, <1>1 DEF LoadsReserved
  <2> QED BY <2>1, <2>2, <1>3
<1>7. \A n \in Models, u, v \in Tasks : Loader(u, n)' /\ Loader(v, n)' => u = v
  BY <1>4 DEF LoadsReserved
<1>8. LoadsReserved'
  BY <1>5, <1>6, <1>7 DEF LoadsReserved
<1>9. TeardownOwned'
  BY DEF TeardownOwned, Tearing, Moves
<1>10. Detached'
  BY DEF Detached, Claiming, Moves
<1> QED
  BY <1>2, <1>3, <1>8, <1>9, <1>10

\* An entry that is claimed and attached is being unloaded.
LEMMA ClaimedUnloading ==
    ASSUME PoolInv, NEW m \in Models, claims[m] # 0, engine[m] # "none"
    PROVE  Unloading(m)
<1>1. PICK a \in Actors : Claiming(a, m)
  BY ClaimersFinite
<1>2. teardown[a].m = m /\ teardown[a].at \in {"stop", "detach"}
  BY <1>1 DEF Claiming, PoolInv, Detached
<1> QED
  BY <1>2 DEF Unloading

\* get_engine, phase 1, preserves the invariant.
LEMMA GetEngineInv ==
    ASSUME PoolInv, NEW t \in Tasks, GetEngine(t)
    PROVE  PoolInv'
<1> USE DEF PoolInv
<1> DEFINE m == mod[t]
<1>1. Types /\ m \in Models /\ t \in Actors
  BY TypesAreTypeOK DEF Types, Actors
<1>2. /\ pc[t] \in {"new", "woken"}
      /\ UNCHANGED <<engine, variant, claims, failed, pending, mem, weights, mod,
                     want, rounds, calls, todo, revived>>
  BY DEF GetEngine, Asks
<1>3. CASE FastPath(t, m)
  <2>1. /\ engine[m] # "none" /\ in_use' = [in_use EXCEPT ![m] = @ + 1]
        /\ pc' = [pc EXCEPT ![t] = "hold"]
        /\ event' = [event EXCEPT ![m] = @ \/ claims[m] > 0]
        /\ late' = IF Unloading(m) THEN late \cup {t} ELSE late
        /\ cut' = IF engine[m] = "stopped" THEN cut \cup {t} ELSE cut
        /\ UNCHANGED <<loading, teardown>>
    BY <1>3 DEF FastPath
  <2>2. Moves(t, "hold") /\ pc' \in PcType
    BY <2>1, <1>1, MovesForms
  <2>3. LeasesCounted' /\ in_use' \in [Models -> Nat]
    BY <2>1, <2>2, <1>2, OneMoreHolder
  <2>4. Types'
    <3>1. event' \in [Models -> BOOLEAN]
      BY <2>1, <1>1 DEF Types
    <3>2. late' \subseteq Tasks /\ cut' \subseteq Tasks
      BY <2>1, <1>1 DEF Types
    <3> QED BY <2>1, <2>2, <2>3, <3>1, <3>2, <1>1, <1>2 DEF Types, PcType
  <2>5. LateLeases'
    <3>1. claims[m] # 0 => t \in late'
      BY <2>1, <1>1, ClaimedUnloading
    <3>2. late \subseteq late' /\ late' \subseteq late \cup {t}
      BY <2>1
    <3>3. \A n \in Models : Holders(n)' \subseteq Holders(n) \cup {t}
      BY <2>2, <1>2 DEF Holders, Moves
    <3>4. \A n \in Models : n # m => Holders(n)' \subseteq Holders(n)
      BY <2>2, <1>2 DEF Holders, Moves
    <3>5. \A n \in Models : claims'[n] # 0 /\ engine'[n] # "none" => Holders(n)' \subseteq late'
      BY <3>1, <3>2, <3>3, <3>4, <1>2 DEF LateLeases
    <3>6. \A u \in late' : pc'[u] \in {"hold", "done"}
      BY <3>2, <2>1, <1>1 DEF LateLeases, Types
    <3> QED BY <3>5, <3>6 DEF LateLeases
  <2>6. ClaimsCounted' /\ LoadsReserved' /\ TeardownOwned' /\ Detached' /\ Swept'
    BY <2>1, <2>2, <1>2, OutsideMove
  <2> QED BY <2>3, <2>4, <2>5, <2>6, TypesAreTypeOKNext
<1>4. CASE ReloadBusy(t, m) \/ WaitForOther(t, m)
  <2>1. PICK to \in {"wait", "failed"} :
           pc' = [pc EXCEPT ![t] = to] /\ UNCHANGED <<loading, teardown, in_use, late, cut>>
    BY <1>4 DEF ReloadBusy, WaitForOther
  <2>2. event' \in [Models -> BOOLEAN]
    BY <1>1, <1>4 DEF ReloadBusy, WaitForOther, Types
  <2>3. Moves(t, to) /\ pc' \in PcType
    BY <2>1, <1>1, MovesForms
  <2>4. Types'
    BY <2>1, <2>2, <2>3, <1>1, <1>2 DEF Types, PcType
  <2>5. LeasesCounted' /\ LateLeases'
    BY <2>1, <2>3, <1>2, SameHolders
  <2>6. ClaimsCounted' /\ LoadsReserved' /\ TeardownOwned' /\ Detached' /\ Swept'
    BY <2>1, <2>3, <1>2, OutsideMove
  <2> QED BY <2>4, <2>5, <2>6, TypesAreTypeOKNext
<1>5. CASE ReserveLoad(t, m)
  <2>1. /\ claims[m] = 0 /\ ~loading[m]
        /\ loading' = [loading EXCEPT ![m] = TRUE]
        /\ event' = [event EXCEPT ![m] = TRUE]
        /\ pc' = Stranded(m, t, "admit")
        /\ UNCHANGED <<in_use, late, cut>>
        /\ \/ engine[m] = "none" /\ UNCHANGED teardown
           \/ Begin(t, m, "bare")
    BY <1>5 DEF ReserveLoad
  <2>2. Moves(t, "admit") /\ pc' \in PcType
    BY <2>1, <1>1, MovesForms
  <2>3. ~Tearing(t)
    BY <1>1, <1>2 DEF TeardownOwned
  <2>4. /\ teardown' \in [Actors -> {NoTeardown} \cup [m : Models, way : Ways, at : Phases]]
        /\ \A a \in Actors : a # t => teardown'[a] = teardown[a]
        /\ \/ teardown'[t] = NoTeardown /\ engine[m] = "none"
           \/ teardown'[t] = [m |-> m, way |-> "bare", at |-> "stop"]
    <3>1. CASE engine[m] = "none" /\ UNCHANGED teardown
      BY <3>1, <2>3, <1>1 DEF Types, Tearing
    <3>2. CASE Begin(t, m, "bare")
      BY <3>2, <1>1 DEF Types, Begin, Ways, Phases
    <3> QED BY <2>1, <3>1, <3>2
  <2>5. Types'
    BY <2>1, <2>2, <2>4, <1>1, <1>2 DEF Types, PcType
  <2>6. \A a \in Actors, n \in Models : Claiming(a, n)' <=> Claiming(a, n)
    BY <2>3, <2>4 DEF Claiming, Tearing, NoTeardown
  <2>7. ClaimsCounted' /\ Swept'
    BY <2>1, <2>6, <1>2 DEF ClaimsCounted, Claimers, Swept
  <2>8. \A n \in Models : loading'[n] <=> n = m \/ loading[n]
    BY <2>1, <1>1 DEF Types
  <2>9. \A n \in Models, u \in Tasks :
           Loader(u, n)' <=> IF u = t THEN n = m ELSE Loader(u, n)
    BY <2>2, <1>2 DEF Loader, Moves
  <2>10. \A u \in Tasks : ~Loader(u, m)
    BY <2>1, <1>1 DEF LoadsReserved
  <2>11. \A n \in Models : ~Loader(t, n)
    BY <1>2 DEF Loader
  <2>12. LoadsReserved'
    <3>1. ASSUME NEW n \in Models, loading'[n]
          PROVE  claims'[n] = 0 /\ \E u \in Tasks : Loader(u, n)'
      <4>1. CASE n = m
        BY <4>1, <2>1, <2>9, <1>2
      <4>2. CASE n # m
        <5>1. PICK u \in Tasks : Loader(u, n)
          BY <4>2, <3>1, <2>8 DEF LoadsReserved
        <5> QED BY <5>1, <4>2, <3>1, <2>8, <2>9, <2>11, <1>2 DEF LoadsReserved
      <4> QED BY <4>1, <4>2
    <3>2. \A n \in Models, u \in Tasks : Loader(u, n)' => loading'[n]
      BY <2>8, <2>9 DEF LoadsReserved
    <3>3. \A n \in Models, u, v \in Tasks : Loader(u, n)' /\ Loader(v, n)' => u = v
      BY <2>9, <2>10 DEF LoadsReserved
    <3> QED BY <3>1, <3>2, <3>3 DEF LoadsReserved
  <2>13. LeasesCounted' /\ LateLeases'
    BY <2>1, <2>2, <1>2, SameHolders
  <2>14. TeardownOwned'
    BY <2>2, <2>3, <2>4, <1>1, <1>2 DEF TeardownOwned, Tearing, Moves
  <2>15. \A a \in Actors, n \in Models :
           Claiming(a, n)' /\ teardown'[a].at \notin {"stop", "detach"} => engine'[n] = "none"
    BY <2>3, <2>4, <2>6, <1>2 DEF Detached, Claiming, Tearing, NoTeardown
  <2>16. \A u \in Tasks :
          /\ pc'[u] = "attached" => engine'[mod'[u]] = "up"
          /\ pc'[u] \in {"admitted", "load"} => engine'[mod'[u]] = "none"
          /\ pc'[u] = "admit" =>
               \/ engine'[mod'[u]] = "none"
               \/ teardown'[u].way = "bare" /\ teardown'[u].at \in {"stop", "detach"}
    BY <2>2, <2>4, <1>1, <1>2 DEF Detached, Moves, Actors
  <2> QED
    BY <2>5, <2>7, <2>12, <2>13, <2>14, <2>15, <2>16, TypesAreTypeOKNext DEF Detached
<1> QED
  BY <1>3, <1>4, <1>5 DEF GetEngine

\* The waiter of a failed load preserves the invariant.
LEMMA WaiterFailsInv ==
    ASSUME PoolInv, NEW t \in Tasks, WaiterFails(t)
    PROVE  PoolInv'
<1> USE DEF PoolInv
<1>1. Types /\ mod[t] \in Models
  BY TypesAreTypeOK DEF Types
<1>2. /\ pc[t] = "woken" /\ pc' = [pc EXCEPT ![t] = "failed"]
      /\ UNCHANGED <<engine, variant, loading, claims, event, failed, pending, in_use,
                     mem, weights, mod, want, rounds, teardown, calls, todo,
                     late, cut, revived>>
  BY DEF WaiterFails, entryVars, lentVars
<1>3. Moves(t, "failed") /\ pc' \in PcType
  BY <1>1, <1>2, MovesForms
<1>4. Types'
  BY <1>1, <1>2, <1>3 DEF Types, PcType
<1>5. LeasesCounted' /\ LateLeases'
  BY <1>2, <1>3, SameHolders
<1>6. ClaimsCounted' /\ LoadsReserved' /\ TeardownOwned' /\ Detached' /\ Swept'
  BY <1>2, <1>3, OutsideMove
<1> QED
  BY <1>4, <1>5, <1>6, TypesAreTypeOKNext

\* A request goes on from one step of its load to the next.
LEMMA LoadMove ==
    ASSUME PoolInv, NEW t \in Tasks, NEW to \in {"admitted", "load"}, Moves(t, to),
           pc[t] \in {"admit", "admitted"}, ~Tearing(t),
           UNCHANGED <<engine, loading, claims, in_use, mod, teardown, todo, late>>
    PROVE  /\ ClaimsCounted' /\ LoadsReserved' /\ LeasesCounted' /\ LateLeases'
           /\ TeardownOwned' /\ Detached' /\ Swept'
<1> USE DEF PoolInv
<1>1. ClaimsCounted' /\ Swept'
  BY DEF ClaimsCounted, Claimers, Claiming, Swept
<1>2. \A m \in Models, u \in Tasks : Loader(u, m)' <=> Loader(u, m)
  BY DEF Loader, Moves
<1>3. LoadsReserved'
  BY <1>2 DEF LoadsReserved
<1>4. LeasesCounted' /\ LateLeases'
  BY SameHolders
<1>5. TeardownOwned'
  BY DEF TeardownOwned, Tearing, Moves
<1>6. Detached'
  BY DEF Detached, Claiming, Moves, Tearing, NoTeardown
<1> QED
  BY <1>1, <1>3, <1>4, <1>5, <1>6

\* An admission round preserves the invariant, whichever way it ends.
LEMMA AdmissionRoundInv ==
    ASSUME PoolInv, NEW t \in Tasks, AdmissionRound(t)
    PROVE  PoolInv'
<1> USE DEF PoolInv
<1> DEFINE m == mod[t]
<1>1. Types /\ m \in Models /\ t \in Actors
  BY TypesAreTypeOK DEF Types, Actors
<1>2. /\ pc[t] = "admit" /\ ~Tearing(t)
      /\ UNCHANGED <<engine, variant, failed, pending, in_use, weights, mod, want,
                     calls, todo, late, cut, revived>>
  BY DEF AdmissionRound, lentVars
<1>3. PICK live \in GaugeReadings :
        LET fits == CurrentUsage(m, live) + Size[m] <= Ceiling
            spent == rounds[t] = Rounds
        IN
        /\ mem' = IF spent THEN mem ELSE TrackedAfter(live)
        /\ \/ /\ fits \/ spent
              /\ pc' = [pc EXCEPT ![t] = "admitted"]
              /\ UNCHANGED <<loading, claims, event, teardown, rounds>>
           \/ /\ ~fits /\ ~spent
              /\ \E v \in LruVictims :
                   /\ ~loading[v]
                   /\ ClaimEntry(t, v, "async")
              /\ rounds' = [rounds EXCEPT ![t] = @ + 1]
              /\ UNCHANGED <<loading, pc>>
           \/ /\ ~fits /\ ~spent
              /\ LruVictims = {} \/ \E v \in LruVictims : loading[v]
              /\ loading' = [loading EXCEPT ![m] = FALSE]
              /\ event' = [event EXCEPT ![m] = FALSE]
              /\ pc' = Woken(m, t, "failed")
              /\ UNCHANGED <<claims, teardown, rounds>>
  BY DEF AdmissionRound
<1>4. mem' \in Int
  <2>1. TrackedAfter(live) \in Int
    BY SizesInt
  <2> QED BY <2>1, <1>1, <1>3 DEF Types
<1>5. engine[m] = "none"
  BY <1>2 DEF Detached, Tearing, NoTeardown
<1>6. CASE pc' = [pc EXCEPT ![t] = "admitted"]
           /\ UNCHANGED <<loading, claims, event, teardown, rounds>>
  <2>1. Moves(t, "admitted") /\ pc' \in PcType
    BY <1>1, <1>6, MovesForms
  <2>2. Types'
    BY <2>1, <1>1, <1>2, <1>4, <1>6 DEF Types, PcType
  <2>3. /\ ClaimsCounted' /\ LoadsReserved' /\ LeasesCounted' /\ LateLeases'
        /\ TeardownOwned' /\ Detached' /\ Swept'
    BY <2>1, <1>2, <1>6, LoadMove
  <2> QED BY <2>2, <2>3, TypesAreTypeOKNext
<1>7. CASE /\ rounds[t] # Rounds
           /\ \E v \in LruVictims : ~loading[v] /\ ClaimEntry(t, v, "async")
           /\ rounds' = [rounds EXCEPT ![t] = @ + 1]
           /\ UNCHANGED <<loading, pc>>
  <2>1. PICK v \in LruVictims : ~loading[v] /\ ClaimEntry(t, v, "async")
    BY <1>7
  <2>2. v \in Models /\ engine[v] # "none" /\ in_use[v] = 0 /\ claims[v] = 0
    BY DEF LruVictims
  <2>3. /\ claims' \in [Models -> Nat] /\ event' \in [Models -> BOOLEAN]
        /\ teardown' \in [Actors -> {NoTeardown} \cup [m : Models, way : Ways, at : Phases]]
    BY <2>1, <2>2, <1>1, <1>2, <1>7, ClaimStep
  <2>4. rounds' \in [Tasks -> 0..Rounds]
    <3>1. rounds \in [Tasks -> 0..Rounds]
      BY <1>1 DEF Types
    <3>2. rounds[t] + 1 \in 0..Rounds
      BY <3>1, <1>7, PoolAssumption
    <3> QED BY <3>1, <3>2, <1>7
  <2>5. Types'
    BY <2>3, <2>4, <1>1, <1>2, <1>4, <1>7 DEF Types
  <2>6. /\ ClaimsCounted' /\ LoadsReserved' /\ LeasesCounted' /\ LateLeases'
        /\ TeardownOwned' /\ Detached'
    BY <2>1, <2>2, <1>1, <1>2, <1>5, <1>7, ClaimKeepsInv
  <2> QED BY <2>5, <2>6, <1>2, TypesAreTypeOKNext DEF Swept
<1>8. CASE /\ loading' = [loading EXCEPT ![m] = FALSE]
           /\ event' = [event EXCEPT ![m] = FALSE]
           /\ pc' = Woken(m, t, "failed")
           /\ UNCHANGED <<claims, teardown, rounds>>
  <2>1. Moves(t, "failed") /\ pc' \in PcType
    BY <1>1, <1>8, MovesForms
  <2>2. /\ ClaimsCounted' /\ LoadsReserved' /\ TeardownOwned' /\ Detached' /\ Swept'
        /\ loading' \in [Models -> BOOLEAN]
    BY <2>1, <1>2, <1>8, LoadEnds
  <2>3. LeasesCounted' /\ LateLeases'
    BY <2>1, <1>2, <1>8, SameHolders
  <2>4. Types'
    BY <2>1, <2>2, <1>1, <1>2, <1>4, <1>8 DEF Types, PcType
  <2> QED BY <2>2, <2>3, <2>4, TypesAreTypeOKNext
<1> QED
  BY <1>3, <1>6, <1>7, <1>8

\* Taking a load slot preserves the invariant.
LEMMA EnterLoadInv ==
    ASSUME PoolInv, NEW t \in Tasks, EnterLoad(t)
    PROVE  PoolInv'
<1> USE DEF PoolInv
<1>1. Types /\ mod[t] \in Models /\ t \in Actors
  BY TypesAreTypeOK DEF Types, Actors
<1>2. /\ pc[t] = "admitted"
      /\ UNCHANGED <<engine, variant, claims, event, pending, in_use, mem, weights, mod,
                     want, rounds, teardown, calls, todo, late, cut, revived>>
  BY DEF EnterLoad, lentVars
<1>3. ~Tearing(t)
  BY <1>1, <1>2 DEF TeardownOwned
<1>4. CASE /\ pc' = [pc EXCEPT ![t] = "load"] /\ UNCHANGED loading
           /\ failed' = [failed EXCEPT ![mod[t]] = FALSE]
  <2>1. Moves(t, "load") /\ pc' \in PcType
    BY <1>1, <1>4, MovesForms
  <2>2. Types'
    BY <1>1, <1>2, <1>4, <2>1 DEF Types, PcType
  <2>3. /\ ClaimsCounted' /\ LoadsReserved' /\ LeasesCounted' /\ LateLeases'
        /\ TeardownOwned' /\ Detached' /\ Swept'
    BY <1>2, <1>3, <1>4, <2>1, LoadMove
  <2> QED BY <2>2, <2>3, TypesAreTypeOKNext
<1>5. CASE /\ pc' = [pc EXCEPT ![t] = "failed"] /\ UNCHANGED failed
           /\ loading' = [loading EXCEPT ![mod[t]] = FALSE]
  <2>1. Moves(t, "failed") /\ pc' \in PcType
    BY <1>1, <1>5, MovesForms
  <2>2. /\ ClaimsCounted' /\ LoadsReserved' /\ TeardownOwned' /\ Detached' /\ Swept'
        /\ loading' \in [Models -> BOOLEAN]
    BY <1>2, <1>3, <1>5, <2>1, LoadEnds
  <2>3. LeasesCounted' /\ LateLeases'
    BY <1>2, <2>1, SameHolders
  <2>4. Types'
    BY <1>1, <1>2, <1>5, <2>1, <2>2 DEF Types, PcType
  <2> QED BY <2>2, <2>3, <2>4, TypesAreTypeOKNext
<1> QED
  BY <1>4, <1>5 DEF EnterLoad

\* Attaching the loaded engine preserves the invariant: no teardown of the
\* model is in progress.
LEMMA AttachEngineInv ==
    ASSUME PoolInv, NEW t \in Tasks, AttachEngine(t)
    PROVE  PoolInv'
<1> USE DEF PoolInv
<1> DEFINE m == mod[t]
<1>1. Types /\ m \in Models /\ t \in Actors
  BY TypesAreTypeOK DEF Types, Actors
<1>2. /\ pc[t] = "load"
      /\ engine' = [engine EXCEPT ![m] = "up"]
      /\ variant' = [variant EXCEPT ![m] = want[t]]
      /\ weights' = [weights EXCEPT ![m] = @ + 1]
      /\ pc' = [pc EXCEPT ![t] = "attached"]
      /\ UNCHANGED <<loading, claims, event, failed, pending, in_use, mem, mod, want,
                     rounds, teardown, calls, todo, late, cut, revived>>
  BY DEF AttachEngine, lentVars
<1>3. Moves(t, "attached") /\ pc' \in PcType /\ ~Tearing(t)
  BY <1>1, <1>2, MovesForms DEF TeardownOwned
<1>4. Types'
  BY <1>1, <1>2, <1>3 DEF Types, PcType
<1>5. ClaimsCounted' /\ Swept'
  BY <1>2 DEF ClaimsCounted, Claimers, Claiming, Swept
<1>6. \A n \in Models, u \in Tasks : Loader(u, n)' <=> Loader(u, n)
  BY <1>2, <1>3 DEF Loader, Moves
<1>7. LoadsReserved'
  BY <1>2, <1>6 DEF LoadsReserved
<1>8. LeasesCounted' /\ LateLeases'
  <2>1. claims[m] = 0 /\ \A n \in Models : n # m => engine'[n] = engine[n]
    BY <1>1, <1>2 DEF LoadsReserved, Loader, Types
  <2> QED BY <2>1, <1>2, <1>3, SameHolders
<1>9. TeardownOwned'
  BY <1>2, <1>3 DEF TeardownOwned, Tearing, Moves
<1>10. \A a \in Actors : ~Claiming(a, m)
  BY <1>1, <1>2, ClaimersFinite DEF LoadsReserved, Loader
<1>11. \A a \in Actors, n \in Models :
          Claiming(a, n)' /\ teardown'[a].at \notin {"stop", "detach"} => engine'[n] = "none"
  BY <1>1, <1>2, <1>10 DEF Detached, Claiming, Types
<1>12. \A u \in Tasks : u # t /\ Loader(u, mod[u]) => mod[u] # m
  BY <1>1, <1>2 DEF LoadsReserved, Loader
<1>13. \A u \in Tasks :
          /\ pc'[u] = "attached" => engine'[mod'[u]] = "up"
          /\ pc'[u] \in {"admitted", "load"} => engine'[mod'[u]] = "none"
          /\ pc'[u] = "admit" =>
               \/ engine'[mod'[u]] = "none"
               \/ teardown'[u].way = "bare" /\ teardown'[u].at \in {"stop", "detach"}
  BY <1>1, <1>2, <1>3, <1>12 DEF Detached, Moves, Loader, Types
<1> QED
  BY <1>4, <1>5, <1>7, <1>8, <1>9, <1>11, <1>13, TypesAreTypeOKNext DEF Detached

\* The end of a load and the lease that follows preserve the invariant.
LEMMA CommitLoadInv ==
    ASSUME PoolInv, NEW t \in Tasks, CommitLoad(t)
    PROVE  PoolInv'
<1> USE DEF PoolInv
<1> DEFINE m == mod[t]
<1>1. Types /\ m \in Models /\ t \in Actors
  BY TypesAreTypeOK DEF Types, Actors
<1>2. /\ pc[t] = "attached" /\ mem' = mem + Size[m]
      /\ loading' = [loading EXCEPT ![m] = FALSE]
      /\ failed' = [failed EXCEPT ![m] = FALSE]
      /\ event' = [event EXCEPT ![m] = FALSE]
      /\ pc' = Woken(m, t, "hold")
      /\ in_use' = [in_use EXCEPT ![m] = @ + 1]
      /\ UNCHANGED <<engine, variant, claims, pending, weights, mod, want, rounds,
                     teardown, calls, todo, late, cut, revived>>
  BY DEF CommitLoad, EndLoad, lentVars
<1>3. Moves(t, "hold") /\ pc' \in PcType /\ ~Tearing(t)
  BY <1>1, <1>2, MovesForms DEF TeardownOwned
<1>4. /\ ClaimsCounted' /\ LoadsReserved' /\ TeardownOwned' /\ Detached' /\ Swept'
      /\ loading' \in [Models -> BOOLEAN]
  BY <1>2, <1>3, LoadEnds
<1>5. LeasesCounted' /\ in_use' \in [Models -> Nat]
  BY <1>2, <1>3, OneMoreHolder
<1>6. claims[m] = 0
  BY <1>1, <1>2 DEF LoadsReserved, Loader
<1>7. LateLeases'
  <2>1. \A n \in Models : n # m => Holders(n)' = Holders(n)
    BY <1>2, <1>3 DEF Holders, Moves
  <2>2. \A u \in late : pc'[u] \in {"hold", "done"}
    BY <1>1, <1>3 DEF Moves, LateLeases, Types
  <2> QED BY <2>1, <2>2, <1>2, <1>6 DEF LateLeases, Holders
<1>8. mem' \in Int
  BY <1>1, <1>2, PoolAssumption DEF Types
<1>9. Types'
  BY <1>1, <1>2, <1>3, <1>4, <1>5, <1>8 DEF Types, PcType
<1> QED
  BY <1>4, <1>5, <1>7, <1>9, TypesAreTypeOKNext

\* A failed load preserves the invariant.
LEMMA LoadFailsInv ==
    ASSUME PoolInv, NEW t \in Tasks, LoadFails(t)
    PROVE  PoolInv'
<1> USE DEF PoolInv
<1> DEFINE m == mod[t]
<1>1. Types /\ m \in Models /\ t \in Actors
  BY TypesAreTypeOK DEF Types, Actors
<1>2. /\ pc[t] = "load"
      /\ loading' = [loading EXCEPT ![m] = FALSE]
      /\ failed' = [failed EXCEPT ![m] = TRUE]
      /\ event' = [event EXCEPT ![m] = FALSE]
      /\ pc' = Woken(m, t, "failed")
      /\ UNCHANGED <<engine, variant, claims, pending, in_use, mem, weights, mod,
                     want, rounds, teardown, calls, todo, late, cut, revived>>
  BY DEF LoadFails, EndLoad, lentVars
<1>3. Moves(t, "failed") /\ pc' \in PcType /\ ~Tearing(t)
  BY <1>1, <1>2, MovesForms DEF TeardownOwned
<1>4. /\ ClaimsCounted' /\ LoadsReserved' /\ TeardownOwned' /\ Detached' /\ Swept'
      /\ loading' \in [Models -> BOOLEAN]
  BY <1>2, <1>3, LoadEnds
<1>5. LeasesCounted' /\ LateLeases'
  BY <1>2, <1>3, SameHolders
<1>6. failed' \in [Models -> BOOLEAN] /\ event' \in [Models -> BOOLEAN]
  BY <1>1, <1>2 DEF Types
<1>7. Types'
  BY <1>1, <1>2, <1>3, <1>4, <1>6 DEF Types, PcType
<1> QED
  BY <1>4, <1>5, <1>7, TypesAreTypeOKNext

\* What release_engine does, and when it drains a pending unload.
LEMMA ReleaseCases ==
    ASSUME PoolInv, NEW t \in Tasks, ReleaseEngine(t)
    PROVE  /\ pc[t] = "hold" /\ Moves(t, "done") /\ pc' \in PcType /\ ~Tearing(t)
           /\ LeasesCounted' /\ in_use' \in [Models -> Nat] /\ in_use[mod[t]] > 0
           /\ \A n \in Models : n # mod[t] => in_use'[n] = in_use[n]
           /\ UNCHANGED <<engine, variant, loading, failed, mem, weights, mod, want,
                          rounds, calls, todo, late, cut, revived>>
           /\ pending' \in [Models -> BOOLEAN]
           /\ \/ UNCHANGED <<claims, event, teardown>>
              \/ /\ ClaimEntry(t, mod[t], "drain") /\ ~loading[mod[t]]
                 /\ engine[mod[t]] # "none" /\ Holders(mod[t])' = {}
                 /\ Holders(mod[t]) = {t}
                 /\ claims[mod[t]] = 0 \/ t \in late
<1> USE DEF PoolInv
<1> DEFINE m == mod[t]
           left == IF in_use[m] > 0 THEN in_use[m] - 1 ELSE 0
<1>1. Types /\ m \in Models /\ t \in Actors
  BY TypesAreTypeOK DEF Types, Actors
<1>2. /\ pc[t] = "hold" /\ pc' = [pc EXCEPT ![t] = "done"]
      /\ in_use' = [in_use EXCEPT ![m] = left]
      /\ UNCHANGED <<engine, variant, loading, failed, mem, weights, mod, want,
                     rounds, calls, todo, late, cut, revived>>
      /\ \/ /\ engine[m] # "none" /\ pending[m] /\ ~loading[m] /\ left = 0
            /\ pending' = [pending EXCEPT ![m] = FALSE]
            /\ ClaimEntry(t, m, "drain")
         \/ UNCHANGED <<pending, claims, event, teardown>>
  BY DEF ReleaseEngine, DrainDue, lentVars
<1>3. Moves(t, "done") /\ pc' \in PcType /\ ~Tearing(t)
  BY <1>1, <1>2, MovesForms DEF TeardownOwned
<1>4. /\ LeasesCounted' /\ in_use' \in [Models -> Nat] /\ in_use[m] > 0
      /\ \A n \in Models : n # m => in_use'[n] = in_use[n]
  BY <1>2, <1>3, OneHolderLess
<1>5. t \in Holders(m) /\ Holders(m)' = Holders(m) \ {t}
  BY <1>1, <1>2, <1>3 DEF Holders, Moves
<1>6. pending' \in [Models -> BOOLEAN]
  BY <1>1, <1>2 DEF Types
<1>7. left = 0 => Holders(m)' = {}
  <2>1. IsFiniteSet(Holders(m)') /\ Cardinality(Holders(m)') = in_use'[m]
    <3>1. IsFiniteSet(Holders(m) \ {t})
      BY <1>1, HoldersFinite, FS_Subset
    <3>2. in_use'[m] = Cardinality(Holders(m)')
      BY <1>1, <1>2, <1>4 DEF LeasesCounted
    <3> QED BY <3>1, <3>2, <1>5
  <2>2. left = 0 => in_use'[m] = 0
    BY <1>1, <1>2 DEF Types
  <2> QED BY <2>1, <2>2, FS_EmptySet
<1>8. engine[m] # "none" => claims[m] = 0 \/ t \in late
  BY <1>1, <1>5 DEF LateLeases
<1> QED
  BY <1>2, <1>3, <1>4, <1>5, <1>6, <1>7, <1>8

\* release_engine, draining or not, preserves the invariant.
LEMMA ReleaseEngineInv ==
    ASSUME PoolInv, NEW t \in Tasks, ReleaseEngine(t)
    PROVE  PoolInv'
<1> USE DEF PoolInv
<1> DEFINE m == mod[t]
<1>1. Types /\ m \in Models /\ t \in Actors
  BY TypesAreTypeOK DEF Types, Actors
<1>2. /\ pc[t] = "hold" /\ Moves(t, "done") /\ pc' \in PcType /\ ~Tearing(t)
      /\ LeasesCounted' /\ in_use' \in [Models -> Nat]
      /\ UNCHANGED <<engine, variant, loading, failed, mem, weights, mod, want,
                     rounds, calls, todo, late, cut, revived>>
      /\ pending' \in [Models -> BOOLEAN]
  BY ReleaseCases
<1>10. \A n \in Models : Holders(n)' \subseteq Holders(n)
  BY <1>2 DEF Holders, Moves
<1>11. \A u \in late : pc'[u] \in {"hold", "done"}
  BY <1>1, <1>2 DEF LateLeases, Moves, Types
<1>3. /\ ClaimsCounted'
      /\ \A n \in Models : loading[n] => claims'[n] = 0
      /\ LateLeases'
      /\ claims' \in [Models -> Nat] /\ event' \in [Models -> BOOLEAN]
      /\ teardown' \in [Actors -> {NoTeardown} \cup [m : Models, way : Ways, at : Phases]]
      /\ \A b \in Actors : b # t => teardown'[b] = teardown[b]
      /\ teardown'[t] = NoTeardown \/ teardown'[t] = [m |-> m, way |-> "drain", at |-> "stop"]
  <2>1. CASE UNCHANGED <<claims, event, teardown>>
    <3>1. ClaimsCounted'
      BY <2>1, <1>2 DEF ClaimsCounted, Claimers, Claiming
    <3>2. \A n \in Models : loading[n] => claims'[n] = 0
      BY <2>1 DEF LoadsReserved
    <3>3. LateLeases'
      BY <2>1, <1>2, <1>10, <1>11 DEF LateLeases
    <3> QED BY <2>1, <3>1, <3>2, <3>3, <1>1, <1>2 DEF Types, Tearing
  <2>2. CASE /\ ClaimEntry(t, m, "drain") /\ ~loading[m]
             /\ Holders(m)' = {} /\ (claims[m] = 0 \/ t \in late)
    <3>1. /\ ClaimsCounted'
          /\ \A n \in Models : loading[n] => claims'[n] = 0
          /\ \A n \in Models : n # m => claims'[n] = claims[n]
          /\ claims' \in [Models -> Nat] /\ event' \in [Models -> BOOLEAN]
          /\ teardown' \in [Actors -> {NoTeardown} \cup [m : Models, way : Ways, at : Phases]]
          /\ \A b \in Actors : b # t => teardown'[b] = teardown[b]
          /\ teardown'[t] = [m |-> m, way |-> "drain", at |-> "stop"]
      BY <2>2, <1>1, <1>2, ClaimStep
    <3>2. LateLeases'
      BY <2>2, <3>1, <1>2, <1>10, <1>11 DEF LateLeases
    <3> QED BY <3>1, <3>2
  <2> QED BY <2>1, <2>2, ReleaseCases
<1>4. Types'
  BY <1>1, <1>2, <1>3 DEF Types, PcType
<1>5. \A n \in Models, u \in Tasks : Loader(u, n)' <=> Loader(u, n)
  BY <1>2 DEF Loader, Moves
<1>6. LoadsReserved'
  BY <1>2, <1>3, <1>5 DEF LoadsReserved
<1>7. TeardownOwned'
  BY <1>1, <1>2, <1>3 DEF TeardownOwned, Tearing, Moves
<1>8. \A a \in Actors, n \in Models :
          Claiming(a, n)' /\ teardown'[a].at \notin {"stop", "detach"} => engine'[n] = "none"
  BY <1>2, <1>3 DEF Detached, Claiming, NoTeardown
<1>9. \A u \in Tasks :
          /\ pc'[u] = "attached" => engine'[mod'[u]] = "up"
          /\ pc'[u] \in {"admitted", "load"} => engine'[mod'[u]] = "none"
          /\ pc'[u] = "admit" =>
               \/ engine'[mod'[u]] = "none"
               \/ teardown'[u].way = "bare" /\ teardown'[u].at \in {"stop", "detach"}
  BY <1>1, <1>2, <1>3 DEF Detached, Moves, Actors
<1> QED
  BY <1>2, <1>3, <1>4, <1>6, <1>7, <1>8, <1>9, TypesAreTypeOKNext DEF Detached, Swept

\* Starting a stopped engine again preserves the invariant.
LEMMA ReviveEngineInv ==
    ASSUME PoolInv, NEW t \in Tasks, ReviveEngine(t)
    PROVE  PoolInv'
<1>1. /\ UNCHANGED <<engine, variant, loading, claims, event, failed, pending, in_use,
                     mem, weights, pc, mod, want, rounds, teardown, calls, todo, late, cut>>
      /\ revived' = revived \cup {t}
  BY DEF ReviveEngine, entryVars
<1>2. Types'
  <2>1. Types /\ revived' \subseteq Tasks
    BY <1>1, TypesAreTypeOK DEF PoolInv, Types
  <2> QED BY <1>1, <2>1 DEF Types
<1>3. ClaimsCounted' /\ LoadsReserved' /\ LeasesCounted' /\ LateLeases'
  BY <1>1 DEF PoolInv, ClaimsCounted, Claimers, Claiming, LoadsReserved, Loader,
              LeasesCounted, Holders, LateLeases
<1>4. TeardownOwned' /\ Detached' /\ Swept'
  BY <1>1 DEF PoolInv, TeardownOwned, Tearing, Detached, Claiming, Swept
<1> QED
  BY <1>2, <1>3, <1>4, TypesAreTypeOKNext DEF PoolInv

\* Every step of the pool preserves the invariant.
LEMMA NextInv ==
    ASSUME PoolInv, OneUnloader, [PoolNext]_vars
    PROVE  PoolInv'
<1>1. CASE UNCHANGED vars
  <2>1. Types'
    BY <1>1, TypesAreTypeOK DEF PoolInv, Types, vars, entryVars, lentVars
  <2>2. ClaimsCounted'
    BY <1>1 DEF PoolInv, vars, entryVars, lentVars, ClaimsCounted, Claimers, Claiming
  <2>4. LoadsReserved'
    BY <1>1 DEF PoolInv, vars, entryVars, LoadsReserved, Loader
  <2>5. LeasesCounted' /\ LateLeases'
    BY <1>1 DEF PoolInv, vars, entryVars, lentVars, LeasesCounted, Holders, LateLeases
  <2>3. TeardownOwned' /\ Detached' /\ Swept'
    BY <1>1 DEF PoolInv, vars, entryVars, TeardownOwned, Tearing, Detached, Claiming, Swept
  <2> QED BY <2>1, <2>2, <2>3, <2>4, <2>5, TypesAreTypeOKNext DEF PoolInv
<1>2. ASSUME NEW t \in Tasks, RequestStep(t) PROVE PoolInv'
  BY <1>2, GetEngineInv, WaiterFailsInv, AdmissionRoundInv, EnterLoadInv, AttachEngineInv,
     CommitLoadInv, LoadFailsInv, ReviveEngineInv, ReleaseEngineInv DEF RequestStep
<1> QED
  BY <1>1, <1>2, BackgroundInv, TeardownInv DEF PoolNext

\* The invariant allows one teardown of an engine, but for the drains of late
\* releases.
LEMMA InvSingle == PoolInv => SingleTeardown
<1> SUFFICES ASSUME PoolInv, NEW a \in Actors \ late, NEW b \in Actors \ late,
                    a # b, Tearing(a), Tearing(b),
                    teardown[a].at \in {"stop", "detach"},
                    teardown[b].at \in {"stop", "detach"},
                    teardown[a].m = teardown[b].m
             PROVE  FALSE
  BY DEF SingleTeardown
<1> USE DEF PoolInv
<1> DEFINE m == teardown[a].m
<1>1. Types
  BY TypesAreTypeOK
<1>2. m \in Models /\ teardown[a].way \in Ways /\ teardown[b].way \in Ways
  BY <1>1 DEF Types, Tearing
<1>3. \A c \in {a, b} : teardown[c].way = "bare" => c \in Tasks /\ Loader(c, m)
  BY DEF TeardownOwned, Loader
<1>4. \A c \in {a, b} : teardown[c].way # "bare" => Claiming(c, m)
  BY <1>2 DEF Claiming, Ways
<1> QED
  BY <1>2, <1>3, <1>4, ClaimersFinite DEF LoadsReserved, ClaimsCounted

-----------------------------------------------------------------------------
(* Waiting. *)

\* Nobody waits on a replaced event, and who waits does so on an entry that is
\* claimed or loading.
Waits ==
    \A t \in Tasks :
        /\ pc[t] # "orphan"
        /\ pc[t] = "wait" =>
              event[mod[t]] /\ (claims[mod[t]] # 0 \/ loading[mod[t]])

\* No step leaves a request waiting on an entry nobody will settle; a rejected
\* tier budget, which skips the event, is excluded.
LEMMA WaitsNext ==
    ASSUME PoolInv, Waits, OneUnloader, "tier" \notin LoadFaults, [PoolNext]_vars
    PROVE  Waits'
<1> USE DEF PoolInv
<1>1. Types
  BY TypesAreTypeOK
<1>2. \A t \in Tasks : mod[t] \in Models
  BY <1>1 DEF Types
<1>4. ASSUME UNCHANGED vars PROVE Waits'
  BY <1>4 DEF Waits, vars, entryVars, lentVars
<1>5. ASSUME NEW o \in Ops, Background(o) PROVE Waits'
  <2>1. UNCHANGED <<loading, pc, mod>>
    BY <1>5, BackgroundCases
  <2>2. \A n \in Models : (event[n] => event'[n]) /\ (claims[n] # 0 => claims'[n] # 0)
    <3>1. CASE UNCHANGED <<claims, event, teardown>>
      BY <3>1
    <3>2. CASE \E m \in Models, way \in {"async", "drain"} : ClaimEntry(o, m, way)
      BY <3>2, <1>1 DEF ClaimEntry, Types
    <3> QED BY <3>1, <3>2, <1>5, BackgroundCases
  <2> QED BY <2>1, <2>2, <1>2 DEF Waits
<1>6. ASSUME NEW a \in Actors, TeardownStep(a) PROVE Waits'
  <2>1. CASE StopEngine(a) \/ DetachEngine(a) \/ CollectWeights(a) \/ SettleUnloaded(a)
    <3>1. UNCHANGED <<claims, event, pc, loading, mod>>
      BY <2>1 DEF StopEngine, DetachEngine, CollectWeights, SettleUnloaded, InPhase
    <3> QED BY <3>1 DEF Waits
  <2>2. CASE ReleaseClaim(a)
    <3> DEFINE m == teardown[a].m
    <3>1. m \in Models
      <4>1. InPhase(a, "unclaim") /\ "unclaim" \in Phases
        BY <2>2 DEF ReleaseClaim, Phases
      <4> QED BY <4>1, PhaseStep
    <3>2. /\ claims' = [claims EXCEPT ![m] = IF @ = 0 THEN 0 ELSE @ - 1]
          /\ event' = [event EXCEPT ![m] = FALSE]
          /\ pc' = [u \in Tasks |-> IF u \in Waiters(m) THEN "woken" ELSE pc[u]]
          /\ UNCHANGED <<loading, mod>>
      BY <2>2 DEF ReleaseClaim, InPhase
    <3>3. \A t \in Tasks : /\ pc'[t] = pc[t] \/ pc'[t] = "woken"
                           /\ pc'[t] = "wait" => mod[t] # m /\ pc[t] = "wait"
      BY <3>2, <1>1 DEF Waiters, Types
    <3>4. \A n \in Models : n # m => event'[n] = event[n] /\ claims'[n] = claims[n]
      BY <3>1, <3>2, <1>1 DEF Types
    <3> QED BY <3>2, <3>3, <3>4, <1>2 DEF Waits
  <2> QED BY <2>1, <2>2, <1>6 DEF TeardownStep
<1>7. ASSUME NEW t \in Tasks, RequestStep(t) PROVE Waits'
  <2> DEFINE m == mod[t]
  <2>1. m \in Models /\ t \in Actors
    BY <1>2 DEF Actors
  <2>2. ASSUME NEW to \in {"failed", "hold"}, pc' = Woken(m, t, to),
               event' = [event EXCEPT ![m] = FALSE],
               loading' = [loading EXCEPT ![m] = FALSE], UNCHANGED <<claims, mod>>
        PROVE  Waits'
    <3>1. \A u \in Tasks : /\ pc'[u] \in {pc[u], "woken", to}
                           /\ pc'[u] = "wait" => mod[u] # m /\ pc[u] = "wait"
      BY <2>2, <1>1 DEF Woken, Waiters, Types
    <3>2. \A n \in Models : n # m => event'[n] = event[n] /\ loading'[n] = loading[n]
      BY <2>1, <2>2, <1>1 DEF Types
    <3> QED BY <3>1, <3>2, <2>2, <1>2 DEF Waits
  <2>3. ASSUME NEW to \in {"failed", "hold", "admitted", "load", "attached", "done"},
               pc' = [pc EXCEPT ![t] = to], UNCHANGED <<mod, loading>>,
               \A n \in Models : (event[n] => event'[n]) /\ (claims[n] # 0 => claims'[n] # 0)
        PROVE  Waits'
    BY <2>3, <1>1, <1>2 DEF Waits, Types
  <2>4. CASE GetEngine(t)
    <3>1. UNCHANGED <<claims, mod>>
      BY <2>4 DEF GetEngine
    <3>2. CASE FastPath(t, m)
      <4>1. /\ pc' = [pc EXCEPT ![t] = "hold"] /\ UNCHANGED loading
            /\ event' = [event EXCEPT ![m] = @ \/ claims[m] > 0]
        BY <3>2 DEF FastPath
      <4>2. \A n \in Models : event[n] => event'[n]
        BY <4>1, <2>1, <1>1 DEF Types
      <4> QED BY <4>1, <4>2, <3>1, <2>3
    <3>3. CASE ReloadBusy(t, m)
      <4>1. pc' = [pc EXCEPT ![t] = "failed"] /\ UNCHANGED <<loading, event>>
        BY <3>3 DEF ReloadBusy
      <4> QED BY <4>1, <3>1, <2>3
    <3>4. CASE WaitForOther(t, m)
      <4>1. /\ claims[m] # 0 \/ loading[m]
            /\ event' = [event EXCEPT ![m] = TRUE]
            /\ pc' = [pc EXCEPT ![t] = "wait"]
            /\ UNCHANGED loading
        BY <3>4, <2>1, <1>1 DEF WaitForOther, NeedsReload, Types
      <4> QED BY <4>1, <3>1, <2>1, <1>1, <1>2 DEF Waits, Types
    <3>5. CASE ReserveLoad(t, m)
      <4>1. /\ claims[m] = 0 /\ ~loading[m]
            /\ event' = [event EXCEPT ![m] = TRUE]
            /\ loading' = [loading EXCEPT ![m] = TRUE]
            /\ pc' = Stranded(m, t, "admit")
        BY <3>5 DEF ReserveLoad
      <4>2. Waiters(m) = {}
        BY <4>1 DEF Waits, Waiters
      <4>3. \A u \in Tasks : pc'[u] = IF u = t THEN "admit" ELSE pc[u]
        BY <4>1, <4>2 DEF Stranded
      <4>4. \A n \in Models : (event[n] => event'[n]) /\ (loading[n] => loading'[n])
        BY <4>1, <2>1, <1>1 DEF Types
      <4> QED BY <4>3, <4>4, <3>1, <1>2 DEF Waits
    <3> QED BY <3>2, <3>3, <3>4, <3>5, <2>4 DEF GetEngine
  <2>5. CASE WaiterFails(t)
    <3>1. pc' = [pc EXCEPT ![t] = "failed"] /\ UNCHANGED <<mod, loading, event, claims>>
      BY <2>5 DEF WaiterFails, entryVars
    <3> QED BY <3>1, <2>3
  <2>6. CASE AdmissionRound(t)
    <3>1. UNCHANGED mod
      BY <2>6 DEF AdmissionRound
    <3>2. CASE pc' = [pc EXCEPT ![t] = "admitted"] /\ UNCHANGED <<loading, claims, event>>
      BY <3>1, <3>2, <2>3
    <3>3. CASE (\E v \in LruVictims : ClaimEntry(t, v, "async")) /\ UNCHANGED <<loading, pc>>
      <4>1. \A n \in Models : (event[n] => event'[n]) /\ (claims[n] # 0 => claims'[n] # 0)
        BY <3>3, <2>1, <1>1 DEF ClaimEntry, LruVictims, Types
      <4> QED BY <4>1, <3>1, <3>3, <1>2 DEF Waits
    <3>4. CASE /\ loading' = [loading EXCEPT ![m] = FALSE]
               /\ event' = [event EXCEPT ![m] = FALSE]
               /\ pc' = Woken(m, t, "failed")
               /\ UNCHANGED claims
      BY <3>1, <3>4, <2>2
    <3> QED BY <3>2, <3>3, <3>4, <2>6 DEF AdmissionRound
  <2>7. CASE EnterLoad(t)
    <3>1. pc' = [pc EXCEPT ![t] = "load"] /\ UNCHANGED <<mod, loading, event, claims>>
      BY <2>7 DEF EnterLoad
    <3> QED BY <3>1, <2>3
  <2>8. CASE AttachEngine(t)
    <3>1. pc' = [pc EXCEPT ![t] = "attached"] /\ UNCHANGED <<mod, loading, event, claims>>
      BY <2>8 DEF AttachEngine
    <3> QED BY <3>1, <2>3
  <2>9. CASE CommitLoad(t)
    <3>1. /\ pc' = Woken(m, t, "hold") /\ event' = [event EXCEPT ![m] = FALSE]
          /\ loading' = [loading EXCEPT ![m] = FALSE] /\ UNCHANGED <<claims, mod>>
      BY <2>9 DEF CommitLoad, EndLoad
    <3> QED BY <3>1, <2>2
  <2>10. CASE LoadFails(t)
    <3>1. /\ pc' = Woken(m, t, "failed") /\ event' = [event EXCEPT ![m] = FALSE]
          /\ loading' = [loading EXCEPT ![m] = FALSE] /\ UNCHANGED <<claims, mod>>
      BY <2>10 DEF LoadFails, EndLoad
    <3> QED BY <3>1, <2>2
  <2>11. CASE ReleaseEngine(t)
    <3>1. pc' = [pc EXCEPT ![t] = "done"] /\ UNCHANGED <<mod, loading>>
      BY <2>11 DEF ReleaseEngine
    <3>2. \A n \in Models : (event[n] => event'[n]) /\ (claims[n] # 0 => claims'[n] # 0)
      <4>1. CASE UNCHANGED <<claims, event, teardown>>
        BY <4>1
      <4>2. CASE ClaimEntry(t, m, "drain")
        BY <4>2, <2>1, <1>1 DEF ClaimEntry, Types
      <4> QED BY <4>1, <4>2, <2>11, ReleaseCases
    <3> QED BY <3>1, <3>2, <2>3
  <2>12. CASE ReviveEngine(t)
    <3>1. UNCHANGED <<pc, mod, loading, event, claims>>
      BY <2>12 DEF ReviveEngine, entryVars
    <3> QED BY <3>1 DEF Waits
  <2> QED
    BY <2>4, <2>5, <2>6, <2>7, <2>8, <2>9, <2>10, <2>11, <2>12, <1>7 DEF RequestStep
<1> QED
  BY <1>4, <1>5, <1>6, <1>7 DEF PoolNext

\* A claimed entry has its claimer and a loading one its loader.
LEMMA WaitsHaveWaker == PoolInv /\ Waits => WaiterHasWaker
<1> SUFFICES ASSUME PoolInv, Waits, NEW t \in Tasks, pc[t] = "wait"
             PROVE  \/ \E u \in Tasks :
                          /\ mod[u] = mod[t]
                          /\ pc[u] \in {"admit", "admitted", "load", "attached"}
                    \/ \E a \in Actors :
                          /\ teardown[a].m = mod[t]
                          /\ teardown[a].way # "bare"
                          /\ teardown[a].way = "drain" =>
                                teardown[a].at \in {"stop", "detach", "unclaim"}
  BY DEF WaiterHasWaker, Waits
<1>1. mod[t] \in Models
  BY TypesAreTypeOK DEF PoolInv, Types
<1>2. CASE loading[mod[t]]
  BY <1>1, <1>2 DEF PoolInv, LoadsReserved, Loader
<1>3. CASE claims[mod[t]] # 0
  <2>1. PICK a \in Actors : Claiming(a, mod[t])
    BY <1>1, <1>3, ClaimersFinite
  <2> QED BY <2>1 DEF Claiming
<1> QED
  BY <1>2, <1>3 DEF Waits

-----------------------------------------------------------------------------
(* Leases. *)

\* The refinement mapping of EngineLease: the engine of m is handed out in time,
\* and who holds such a lease.
Open(m) == engine[m] = "up" /\ ~Unloading(m)
InTime(m) == Holders(m) \ late
Serving == [m \in Models |-> Open(m)]
Leases == [m \in Models |-> InTime(m)]

\* The pool starts where EngineLease starts.
LEMMA LeaseInitMaps == PoolInit => Lease!LeaseInit
  BY DEF PoolInit, Lease!LeaseInit, Holders

\* Neither the engines that can be handed out nor the leases change.
LEMMA LeaseStutter ==
    ASSUME \A m \in Models : Open(m)' <=> Open(m),
           \A m \in Models : InTime(m)' = InTime(m)
    PROVE  UNCHANGED Lease!leaseVars
<1>1. Serving' = Serving
  BY DEF Serving, Open
<1>2. Leases' = Leases
  BY DEF Leases
<1> QED
  BY <1>1, <1>2 DEF Serving, Leases, Open, InTime, Lease!leaseVars

\* The engine of a model nobody leased in time stops serving.
LEMMA LeaseStop ==
    ASSUME NEW m \in Models, Open(m), ~Open(m)', InTime(m) = {},
           \A n \in Models : n # m => (Open(n)' <=> Open(n)),
           \A n \in Models : InTime(n)' = InTime(n)
    PROVE  Lease!LeaseNext
<1>1. Serving[m] /\ Serving' = [Serving EXCEPT ![m] = FALSE]
  BY DEF Serving, Open
<1>2. Leases' = Leases /\ Leases[m] = {}
  BY DEF Leases
<1>3. Lease!Stop(m)
  BY <1>1, <1>2 DEF Serving, Leases, Open, InTime, Lease!Stop
<1> QED
  BY <1>3 DEF Lease!LeaseNext

\* An engine starts serving.
LEMMA LeaseStart ==
    ASSUME NEW m \in Models, ~Open(m), Open(m)',
           \A n \in Models : n # m => (Open(n)' <=> Open(n)),
           \A n \in Models : InTime(n)' = InTime(n)
    PROVE  Lease!LeaseNext
<1>1. ~Serving[m] /\ Serving' = [Serving EXCEPT ![m] = TRUE]
  BY DEF Serving, Open
<1>2. Leases' = Leases
  BY DEF Leases
<1>3. Lease!Start(m)
  BY <1>1, <1>2 DEF Serving, Leases, Open, InTime, Lease!Start
<1> QED
  BY <1>3 DEF Lease!LeaseNext

\* A lease is granted on a serving engine.
LEMMA LeaseGrant ==
    ASSUME NEW m \in Models, NEW t \in Tasks, Open(m),
           \A n \in Models : Open(n)' <=> Open(n),
           InTime(m)' = InTime(m) \cup {t},
           \A n \in Models : n # m => InTime(n)' = InTime(n)
    PROVE  Lease!LeaseNext
<1>1. Serving' = Serving /\ Serving[m]
  BY DEF Serving, Open
<1>2. Leases' = [Leases EXCEPT ![m] = @ \cup {t}]
  BY DEF Leases
<1>3. Lease!Grant(t, m)
  BY <1>1, <1>2 DEF Serving, Leases, Open, InTime, Lease!Grant
<1> QED
  BY <1>3 DEF Lease!LeaseNext

\* A lease is given back; the last one may stop the engine.
LEMMA LeaseReturn ==
    ASSUME NEW m \in Models, NEW t \in Tasks, t \in InTime(m),
           \/ \A n \in Models : Open(n)' <=> Open(n)
           \/ /\ InTime(m) = {t} /\ ~Open(m)'
              /\ \A n \in Models : n # m => (Open(n)' <=> Open(n)),
           InTime(m)' = InTime(m) \ {t},
           \A n \in Models : n # m => InTime(n)' = InTime(n)
    PROVE  Lease!LeaseNext
<1>1. t \in Leases[m] /\ (InTime(m) = {t} => Leases[m] = {t})
  BY DEF Leases
<1>2. Leases' = [Leases EXCEPT ![m] = @ \ {t}]
  BY DEF Leases
<1>3. \/ Serving' = Serving
      \/ InTime(m) = {t} /\ Serving' = [Serving EXCEPT ![m] = FALSE]
  BY DEF Serving, Open
<1>4. Lease!Return(t, m)
  BY <1>1, <1>2, <1>3 DEF Serving, Leases, Open, InTime, Lease!Return
<1> QED
  BY <1>4 DEF Lease!LeaseNext

\* How a move of one request changes the leases granted in time.
LEMMA InTimeMove ==
    ASSUME NEW t \in Tasks, NEW to, Moves(t, to), UNCHANGED <<mod, late>>
    PROVE  /\ pc[t] # "hold" /\ to # "hold" => \A n \in Models : InTime(n)' = InTime(n)
           /\ \A n \in Models : n # mod[t] => InTime(n)' = InTime(n)
           /\ to = "hold" /\ t \notin late => InTime(mod[t])' = InTime(mod[t]) \cup {t}
           /\ to # "hold" => InTime(mod[t])' = InTime(mod[t]) \ {t}
  BY DEF InTime, Holders, Moves

\* The doors stay as they are while engines and teardowns do.
LEMMA SameDoors ==
    ASSUME UNCHANGED <<engine, teardown>>
    PROVE  \A n \in Models : Open(n)' <=> Open(n)
  BY DEF Open, Unloading

\* A teardown closes the door of its entry and no other.
LEMMA DoorCloses ==
    ASSUME PoolInv, NEW a \in Actors, ~Tearing(a), NEW m \in Models, NEW way \in Ways,
           Begin(a, m, way), UNCHANGED engine
    PROVE  ~Open(m)' /\ \A n \in Models : n # m => (Open(n)' <=> Open(n))
<1>1. teardown \in [Actors -> {NoTeardown} \cup [m : Models, way : Ways, at : Phases]]
  BY TypesAreTypeOK DEF PoolInv, Types
<1>2. /\ teardown'[a] = [m |-> m, way |-> way, at |-> "stop"]
      /\ \A b \in Actors : b # a => teardown'[b] = teardown[b]
  BY <1>1 DEF Begin
<1>3. teardown[a].at = "none"
  BY DEF Tearing, NoTeardown
<1>4. Unloading(m)'
  BY <1>2 DEF Unloading
<1>5. \A n \in Models : n # m => (Unloading(n)' <=> Unloading(n))
  BY <1>2, <1>3 DEF Unloading
<1> QED
  BY <1>4, <1>5 DEF Open

\* A teardown of an engine that serves nobody in time begins.
LEMMA TeardownBegins ==
    ASSUME PoolInv, NEW a \in Actors, ~Tearing(a), NEW m \in Models, NEW way \in Ways,
           Begin(a, m, way), UNCHANGED engine,
           engine[m] = "up" => InTime(m) = {},
           \A n \in Models : InTime(n)' = InTime(n)
    PROVE  [Lease!LeaseNext]_(Lease!leaseVars)
<1>1. ~Open(m)' /\ \A n \in Models : n # m => (Open(n)' <=> Open(n))
  BY DoorCloses
<1>2. CASE Open(m)
  BY <1>1, <1>2, LeaseStop DEF Open
<1>3. CASE ~Open(m)
  BY <1>1, <1>3, LeaseStutter
<1> QED
  BY <1>2, <1>3

\* An entry that in_use says is idle has no holder.
LEMMA IdleUnheld ==
    ASSUME PoolInv, NEW m \in Models, in_use[m] = 0
    PROVE  Holders(m) = {}
<1>1. Cardinality(Holders(m)) = 0
  BY DEF PoolInv, LeasesCounted
<1> QED
  BY <1>1, HoldersFinite, FS_EmptySet

\* A step of a teardown leaves the state of EngineLease alone: the door of its
\* entry was closed when it began.
LEMMA TeardownUnseen ==
    ASSUME PoolInv, NEW a \in Actors, TeardownStep(a)
    PROVE  UNCHANGED Lease!leaseVars
<1> USE DEF PoolInv
<1>1. Types
  BY TypesAreTypeOK
<1>2. PICK at \in Phases : /\ InPhase(a, at)
                           /\ at = "stop" => StopEngine(a)
                           /\ at = "detach" => DetachEngine(a)
                           /\ at = "collect" => CollectWeights(a)
                           /\ at = "settle" => SettleUnloaded(a)
                           /\ at = "unclaim" => ReleaseClaim(a)
  BY Zenon DEF TeardownStep, StopEngine, DetachEngine, CollectWeights, SettleUnloaded,
              ReleaseClaim, Phases
<1>3. /\ teardown[a] \in [m : Models, way : Ways, at : Phases]
      /\ teardown[a].at = at
      /\ \A b \in Actors : b # a => teardown'[b] = teardown[b]
      /\ teardown'[a] = NextPhase(teardown[a])
  BY <1>2, PhaseStep
<1>4. PICK m \in Models : m = teardown[a].m
  BY <1>3
<1>5. \A n \in Models : InTime(n)' = InTime(n)
  <2>1. UNCHANGED <<mod, late>>
    BY <1>2 DEF InPhase
  <2>2. UNCHANGED pc \/ pc' = [u \in Tasks |-> IF u \in Waiters(m) THEN "woken" ELSE pc[u]]
    BY <1>2, <1>4 DEF Phases, StopEngine, DetachEngine, CollectWeights, SettleUnloaded,
                      ReleaseClaim
  <2>3. \A u \in Tasks : pc'[u] = "hold" <=> pc[u] = "hold"
    BY <2>2 DEF Waiters
  <2> QED BY <2>1, <2>3 DEF InTime, Holders
<1>6. \A n \in Models : Open(n)' <=> Open(n)
  <2>1. CASE at = "stop"
    <3>1. teardown'[a].m = m /\ teardown'[a].at = "detach"
      BY <2>1, <1>3, <1>4 DEF NextPhase
    <3>2. \A n \in Models : Unloading(n)' <=> Unloading(n)
      BY <3>1, <2>1, <1>3, <1>4 DEF Unloading
    <3>3. Unloading(m)
      BY <2>1, <1>3, <1>4 DEF Unloading
    <3>4. \A n \in Models : n # m => engine'[n] = engine[n]
      BY <2>1, <1>1, <1>2, <1>4 DEF StopEngine, Types
    <3> QED BY <3>2, <3>3, <3>4 DEF Open
  <2>2. CASE at = "detach"
    <3>1. \A n \in Models : n # m => (Unloading(n)' <=> Unloading(n))
      <4>1. teardown'[a].m = m
        BY <2>2, <1>3, <1>4 DEF NextPhase
      <4> QED BY <4>1, <1>3, <1>4 DEF Unloading
    <3>2. Unloading(m)
      BY <2>2, <1>3, <1>4 DEF Unloading
    <3>3. engine'[m] = "none" /\ \A n \in Models : n # m => engine'[n] = engine[n]
      BY <2>2, <1>1, <1>2, <1>4 DEF DetachEngine, Types
    <3> QED BY <3>1, <3>2, <3>3 DEF Open
  <2>3. CASE at \in {"collect", "settle", "unclaim"}
    <3>1. UNCHANGED engine
      BY <2>3, <1>2 DEF CollectWeights, SettleUnloaded, ReleaseClaim
    <3>2. teardown[a].at \notin {"stop", "detach"} /\ teardown'[a].at \notin {"stop", "detach"}
      BY <2>3, <1>3 DEF NextPhase, NoTeardown, Ways
    <3> QED BY <3>1, <3>2, <1>3 DEF Open, Unloading
  <2> QED BY <2>1, <2>2, <2>3 DEF Phases
<1> QED
  BY <1>5, <1>6, LeaseStutter

\* Every step of the pool is a step of EngineLease or leaves its state alone.
LEMMA LeaseStep ==
    ASSUME PoolInv, OneUnloader, [PoolNext]_vars
    PROVE  [Lease!LeaseNext]_(Lease!leaseVars)
<1> USE DEF PoolInv
<1>1. Types /\ \A t \in Tasks : mod[t] \in Models /\ t \in Actors
  BY TypesAreTypeOK DEF Types, Actors
<1>2. ASSUME UNCHANGED <<engine, teardown, pc, mod, late>>
      PROVE  UNCHANGED Lease!leaseVars
  BY <1>2, SameDoors, LeaseStutter DEF InTime, Holders
<1>3. ASSUME NEW a \in Actors, ~Tearing(a), NEW m \in Models,
             NEW way \in {"async", "drain"}, ClaimEntry(a, m, way), in_use[m] = 0,
             UNCHANGED <<engine, pc, mod, late>>
      PROVE  [Lease!LeaseNext]_(Lease!leaseVars)
  <2>1. Begin(a, m, way) /\ way \in Ways
    BY <1>3 DEF ClaimEntry, Ways
  <2>2. InTime(m) = {}
    BY <1>3, IdleUnheld DEF InTime
  <2>3. \A n \in Models : InTime(n)' = InTime(n)
    BY <1>3 DEF InTime, Holders
  <2> QED BY <2>1, <2>2, <2>3, <1>3, TeardownBegins
<1>4. ASSUME NEW o \in Ops, Background(o)
      PROVE  [Lease!LeaseNext]_(Lease!leaseVars)
  <2>1. UNCHANGED <<engine, pc, mod, late>> /\ ~Tearing(o) /\ o \in Actors
    BY <1>4, BackgroundCases DEF Actors
  <2>2. CASE UNCHANGED <<claims, event, teardown>>
    BY <2>1, <2>2, <1>2
  <2>3. CASE \E m \in Models, way \in {"async", "drain"} :
               in_use[m] = 0 /\ ClaimEntry(o, m, way)
    BY <2>1, <2>3, <1>3
  <2> QED BY <2>2, <2>3, <1>4, BackgroundCases
<1>5. ASSUME NEW t \in Tasks, RequestStep(t)
      PROVE  [Lease!LeaseNext]_(Lease!leaseVars)
  <2> DEFINE m == mod[t]
  <2>1. m \in Models /\ t \in Actors
    BY <1>1
  <2>2. pc[t] \notin {"hold", "done"} => t \notin late
    BY DEF LateLeases
  <2>3. ASSUME NEW to \in {"wait", "admit", "admitted", "load", "failed"},
               pc[t] # "hold", UNCHANGED <<engine, mod, teardown, late>>,
               \/ pc' = [pc EXCEPT ![t] = to]
               \/ pc' = Woken(m, t, to)
               \/ pc' = Stranded(m, t, to)
        PROVE  UNCHANGED Lease!leaseVars
    <3>1. Moves(t, to)
      BY <2>1, <2>3, MovesForms
    <3>2. \A n \in Models : InTime(n)' = InTime(n)
      BY <3>1, <2>3, InTimeMove
    <3> QED BY <3>2, <2>3, SameDoors, LeaseStutter
  <2>4. ASSUME pc[t] \notin {"hold", "done"}, Open(m),
               UNCHANGED <<engine, mod, teardown, late>>,
               pc' = [pc EXCEPT ![t] = "hold"] \/ pc' = Woken(m, t, "hold")
        PROVE  Lease!LeaseNext
    <3>1. Moves(t, "hold")
      BY <2>1, <2>4, MovesForms
    <3>2. PICK n \in Models : n = mod[t]
      BY <2>1
    <3>3. /\ InTime(n)' = InTime(n) \cup {t}
          /\ \A k \in Models : k # n => InTime(k)' = InTime(k)
      BY <3>1, <3>2, <2>2, <2>4, InTimeMove
    <3> QED BY <3>2, <3>3, <2>4, SameDoors, LeaseGrant
  <2>5. CASE GetEngine(t)
    <3>1. UNCHANGED <<engine, claims, mod>> /\ pc[t] \notin {"hold", "done"}
      BY <2>5 DEF GetEngine, Asks
    <3>2. CASE FastPath(t, m)
      <4>1. /\ engine[m] # "none" /\ (claims[m] > 0 \/ engine[m] = "up")
            /\ pc' = [pc EXCEPT ![t] = "hold"] /\ UNCHANGED teardown
            /\ late' = IF Unloading(m) THEN late \cup {t} ELSE late
        BY <3>2 DEF FastPath
      <4>2. CASE Unloading(m)
        <5>1. Moves(t, "hold") /\ late' = late \cup {t}
          BY <4>1, <4>2, <2>1, MovesForms
        <5>2. \A n \in Models : InTime(n)' = InTime(n)
          BY <5>1, <3>1 DEF InTime, Holders, Moves
        <5> QED BY <5>2, <4>1, <3>1, SameDoors, LeaseStutter
      <4>3. CASE ~Unloading(m)
        <5>1. claims[m] = 0
          BY <4>1, <4>3, <2>1, ClaimedUnloading
        <5>2. Open(m) /\ UNCHANGED late
          BY <4>1, <4>3, <5>1 DEF Open
        <5> QED BY <4>1, <5>2, <3>1, <2>4
      <4> QED BY <4>2, <4>3
    <3>3. CASE ReloadBusy(t, m)
      <4>1. pc' = [pc EXCEPT ![t] = "failed"] /\ UNCHANGED <<teardown, late>>
        BY <3>3 DEF ReloadBusy
      <4> QED BY <4>1, <3>1, <2>3
    <3>4. CASE WaitForOther(t, m)
      <4>1. pc' = [pc EXCEPT ![t] = "wait"] /\ UNCHANGED <<teardown, late>>
        BY <3>4 DEF WaitForOther
      <4> QED BY <4>1, <3>1, <2>3
    <3>5. CASE ReserveLoad(t, m)
      <4>1. pc' = Stranded(m, t, "admit") /\ UNCHANGED late
        BY <3>5 DEF ReserveLoad
      <4>2. CASE UNCHANGED teardown
        BY <4>1, <4>2, <3>1, <2>3
      <4>3. CASE NeedsReload(t, m) /\ Begin(t, m, "bare")
        <5>1. ~Tearing(t) /\ "bare" \in Ways
          BY <3>1, <2>1, <2>5 DEF TeardownOwned, GetEngine, Asks, Ways
        <5>2. engine[m] = "up" => InTime(m) = {}
          BY <4>3, <2>1, IdleUnheld DEF NeedsReload, InTime
        <5>3. Moves(t, "admit")
          BY <4>1, <2>1, MovesForms
        <5>4. \A n \in Models : InTime(n)' = InTime(n)
          BY <5>3, <4>1, <3>1, InTimeMove
        <5> QED BY <5>1, <5>2, <5>4, <4>3, <3>1, <2>1, TeardownBegins
      <4> QED BY <4>2, <4>3, <3>5 DEF ReserveLoad
    <3> QED BY <3>2, <3>3, <3>4, <3>5, <2>5 DEF GetEngine
  <2>6. CASE WaiterFails(t)
    <3>1. /\ pc[t] # "hold" /\ pc' = [pc EXCEPT ![t] = "failed"]
          /\ UNCHANGED <<engine, mod, teardown, late>>
      BY <2>6 DEF WaiterFails, entryVars, lentVars
    <3> QED BY <3>1, <2>3
  <2>7. CASE AdmissionRound(t)
    <3>1. UNCHANGED <<engine, mod, late>> /\ pc[t] # "hold" /\ ~Tearing(t)
      BY <2>7 DEF AdmissionRound, lentVars
    <3>2. CASE pc' = [pc EXCEPT ![t] = "admitted"] /\ UNCHANGED teardown
      BY <3>1, <3>2, <2>3
    <3>3. CASE (\E v \in LruVictims : ClaimEntry(t, v, "async")) /\ UNCHANGED pc
      <4>1. PICK v \in LruVictims : ClaimEntry(t, v, "async")
        BY <3>3
      <4>2. v \in Models /\ in_use[v] = 0
        BY DEF LruVictims
      <4> QED BY <4>1, <4>2, <3>1, <3>3, <2>1, <1>3
    <3>4. CASE pc' = Woken(m, t, "failed") /\ UNCHANGED teardown
      BY <3>1, <3>4, <2>3
    <3> QED BY <3>2, <3>3, <3>4, <2>7 DEF AdmissionRound
  <2>8. CASE EnterLoad(t)
    <3>1. PICK to \in {"load", "failed"} : pc' = [pc EXCEPT ![t] = to]
      BY <2>8 DEF EnterLoad
    <3>2. pc[t] # "hold" /\ UNCHANGED <<engine, mod, teardown, late>>
      BY <2>8 DEF EnterLoad, lentVars
    <3> QED BY <3>1, <3>2, <2>3
  <2>9. CASE AttachEngine(t)
    <3>1. /\ pc[t] = "load" /\ pc' = [pc EXCEPT ![t] = "attached"]
          /\ engine' = [engine EXCEPT ![m] = "up"]
          /\ UNCHANGED <<mod, teardown, late>>
      BY <2>9 DEF AttachEngine, lentVars
    <3>2. PICK n \in Models : n = mod[t]
      BY <2>1
    <3>3. /\ engine[n] = "none" /\ engine'[n] = "up"
          /\ \A k \in Models : k # n => engine'[k] = engine[k]
      BY <3>1, <3>2, <1>1 DEF Detached, Types
    <3>4. \A k \in Models : Unloading(k)' <=> Unloading(k)
      BY <3>1 DEF Unloading
    <3>5. Moves(t, "attached")
      BY <3>1, <2>1, MovesForms
    <3>6. \A k \in Models : InTime(k)' = InTime(k)
      BY <3>1, <3>5, InTimeMove
    <3>7. CASE Unloading(n)
      <4>1. \A k \in Models : Open(k)' <=> Open(k)
        BY <3>3, <3>4, <3>7 DEF Open
      <4> QED BY <4>1, <3>6, LeaseStutter
    <3>8. CASE ~Unloading(n)
      <4>1. ~Open(n) /\ Open(n)' /\ \A k \in Models : k # n => (Open(k)' <=> Open(k))
        BY <3>3, <3>4, <3>8 DEF Open
      <4> QED BY <4>1, <3>6, LeaseStart
    <3> QED BY <3>7, <3>8
  <2>10. CASE CommitLoad(t)
    <3>1. /\ pc[t] = "attached" /\ pc' = Woken(m, t, "hold")
          /\ UNCHANGED <<engine, mod, teardown, late>>
      BY <2>10 DEF CommitLoad, EndLoad, lentVars
    <3>2. engine[m] = "up" /\ ~Unloading(m)
      BY <3>1, <2>1, TeardownAlone DEF Detached, Unloading, Tearing, NoTeardown
    <3> QED BY <3>1, <3>2, <2>4 DEF Open
  <2>11. CASE LoadFails(t)
    <3>1. /\ pc[t] = "load" /\ UNCHANGED <<engine, mod, teardown, late>>
          /\ pc' = Woken(m, t, "failed")
      BY <2>11 DEF LoadFails, EndLoad, lentVars
    <3> QED BY <3>1, <2>3
  <2>12. CASE ReviveEngine(t)
    <3>1. UNCHANGED <<engine, teardown, pc, mod, late>>
      BY <2>12 DEF ReviveEngine, entryVars
    <3> QED BY <3>1, <1>2
  <2>13. CASE ReleaseEngine(t)
    <3>1. /\ pc[t] = "hold" /\ Moves(t, "done") /\ UNCHANGED <<engine, mod, late>>
          /\ ~Tearing(t)
      BY <2>13, ReleaseCases
    <3>2. PICK n \in Models : n = mod[t]
      BY <2>1
    <3>3. /\ t \in late \/ t \in InTime(n)
          /\ InTime(n)' = InTime(n) \ {t}
          /\ \A k \in Models : k # n => InTime(k)' = InTime(k)
          /\ t \in late => t \notin InTime(n)
      BY <3>1, <3>2, InTimeMove DEF InTime, Holders
    <3>4. CASE UNCHANGED <<claims, event, teardown>>
      <4>1. \A k \in Models : Open(k)' <=> Open(k)
        BY <3>1, <3>4, SameDoors
      <4>2. CASE t \in late
        BY <4>1, <4>2, <3>3, LeaseStutter
      <4>3. CASE t \in InTime(n)
        BY <4>1, <4>3, <3>3, LeaseReturn
      <4> QED BY <4>2, <4>3, <3>3
    <3>5. CASE ClaimEntry(t, n, "drain") /\ Holders(n) = {t}
      <4>1. Begin(t, n, "drain") /\ "drain" \in Ways
        BY <3>5 DEF ClaimEntry, Ways
      <4>2. CASE t \in late
        <5>1. InTime(n) = {}
          BY <3>5, <4>2 DEF InTime
        <5>2. \A k \in Models : InTime(k)' = InTime(k)
          BY <5>1, <3>3
        <5> QED BY <5>1, <5>2, <4>1, <3>1, <2>1, TeardownBegins
      <4>3. CASE t \in InTime(n)
        <5>1. InTime(n) = {t}
          BY <3>5, <4>3 DEF InTime
        <5>2. ~Open(n)' /\ \A k \in Models : k # n => (Open(k)' <=> Open(k))
          BY <4>1, <3>1, <2>1, DoorCloses
        <5> QED BY <5>1, <5>2, <4>3, <3>3, LeaseReturn
      <4> QED BY <4>2, <4>3, <3>3
    <3>6. \/ UNCHANGED <<claims, event, teardown>>
          \/ ClaimEntry(t, n, "drain") /\ Holders(n) = {t}
      BY <3>2, <2>13, ReleaseCases
    <3> QED BY <3>4, <3>5, <3>6
  <2> QED
    BY <2>5, <2>6, <2>7, <2>8, <2>9, <2>10, <2>11, <2>12, <2>13, <1>5 DEF RequestStep
<1>6. ASSUME UNCHANGED vars PROVE UNCHANGED Lease!leaseVars
  BY <1>6, <1>2 DEF vars, entryVars, lentVars
<1> QED
  BY <1>4, <1>5, <1>6, TeardownUnseen DEF PoolNext

-----------------------------------------------------------------------------
(* The ceiling. *)

\* The models whose load was admitted and is not attached yet.
Admitted == {mod[t] : t \in {u \in Tasks : pc[u] \in {"admitted", "load"}}}
\* The models _find_lru_victim could still choose, leases and pins aside.
Standing == {m \in Models : engine[m] # "none" /\ claims[m] = 0}
\* The requests that got an engine.
Served == {u \in Tasks : pc[u] \in {"attached", "hold", "done"}}

\* No more requests than the admission loop has rounds (20 in the code); with
\* more, a request could use all its rounds and is then admitted unchecked.
EnoughRounds == Cardinality(Tasks) <= Rounds

\* Every eviction of a request undoes a load that some other request finished.
RoundsCounted ==
    \A t \in Tasks : rounds[t] + Cardinality(Standing) <= Cardinality(Served)

\* Both counts are natural numbers.
LEMMA CountsFinite ==
    /\ IsFiniteSet(Standing) /\ Cardinality(Standing) \in Nat
    /\ IsFiniteSet(Served) /\ Cardinality(Served) \in Nat
    /\ IsFiniteSet(Standing') /\ Cardinality(Standing') \in Nat
    /\ IsFiniteSet(Served') /\ Cardinality(Served') \in Nat
<1>1. /\ Standing \subseteq Models /\ Standing' \subseteq Models
      /\ Served \subseteq Tasks /\ Served' \subseteq Tasks
  BY DEF Standing, Served
<1> QED
  BY <1>1, PoolAssumption, FS_Subset, FS_CardinalityType

\* Steps that let no further engine stand keep the count of rounds.
LEMMA RoundsKept ==
    ASSUME PoolInv, RoundsCounted, Standing' \subseteq Standing, Served \subseteq Served',
           UNCHANGED rounds
    PROVE  RoundsCounted'
<1>1. rounds \in [Tasks -> 0..Rounds]
  BY TypesAreTypeOK DEF PoolInv, Types
<1>2. Cardinality(Standing') <= Cardinality(Standing)
  BY CountsFinite, FS_Subset
<1>3. Cardinality(Served) <= Cardinality(Served')
  BY CountsFinite, FS_Subset
<1>4. \A t \in Tasks : rounds'[t] + Cardinality(Standing') <= Cardinality(Served')
  BY <1>1, <1>2, <1>3, CountsFinite, PoolAssumption DEF RoundsCounted
<1> QED
  BY <1>4 DEF RoundsCounted, Standing, Served

\* Who is claimed cannot be evicted again; a claim of another entry lets m stand.
LEMMA ClaimShrinks ==
    ASSUME PoolInv, NEW a \in Actors, NEW m \in Models, NEW way \in {"async", "drain"},
           ClaimEntry(a, m, way), UNCHANGED engine
    PROVE  Standing' \subseteq Standing /\ m \notin Standing'
<1>1. Types
  BY TypesAreTypeOK DEF PoolInv
<1>2. claims'[m] # 0 /\ \A n \in Models : n # m => claims'[n] = claims[n]
  BY <1>1 DEF ClaimEntry, Types
<1> QED
  BY <1>2 DEF Standing

\* No round is used at the start.
LEMMA RoundsInit == PoolInit => RoundsCounted
<1> SUFFICES ASSUME PoolInit PROVE RoundsCounted
  OBVIOUS
<1>1. Standing = {} /\ Served = {}
  BY DEF PoolInit, Standing, Served
<1> QED
  BY <1>1, FS_EmptySet DEF PoolInit, RoundsCounted

\* Every step of the pool keeps the count of rounds.
LEMMA RoundsNext ==
    ASSUME PoolInv, RoundsCounted, OneUnloader, [PoolNext]_vars
    PROVE  RoundsCounted'
<1> USE DEF PoolInv
<1>1. Types /\ \A t \in Tasks : mod[t] \in Models /\ t \in Actors
  BY TypesAreTypeOK DEF Types, Actors
<1>2. ASSUME UNCHANGED vars PROVE RoundsCounted'
  BY <1>2 DEF RoundsCounted, Standing, Served, vars, entryVars, lentVars
<1>3. ASSUME NEW o \in Ops, Background(o) PROVE RoundsCounted'
  <2>1. UNCHANGED <<engine, pc, rounds>>
    BY <1>3, BackgroundCases
  <2>2. Standing' \subseteq Standing
    <3>1. CASE UNCHANGED <<claims, event, teardown>>
      BY <3>1, <2>1 DEF Standing
    <3>2. CASE \E m \in Models, way \in {"async", "drain"} : ClaimEntry(o, m, way)
      <4>1. PICK m \in Models, way \in {"async", "drain"} : ClaimEntry(o, m, way)
        BY <3>2
      <4>2. o \in Actors
        BY DEF Actors
      <4> QED BY <4>1, <4>2, <2>1, ClaimShrinks
    <3> QED BY <3>1, <3>2, <1>3, BackgroundCases
  <2>3. Served \subseteq Served'
    BY <2>1 DEF Served
  <2> QED BY <2>1, <2>2, <2>3, RoundsKept
<1>4. ASSUME NEW a \in Actors, TeardownStep(a) PROVE RoundsCounted'
  <2> DEFINE m == teardown[a].m
  <2>1. UNCHANGED rounds
    BY <1>4 DEF TeardownStep, StopEngine, DetachEngine, CollectWeights, SettleUnloaded,
                ReleaseClaim, InPhase
  <2>2. Served \subseteq Served'
    BY <1>4, <1>1 DEF TeardownStep, StopEngine, DetachEngine, CollectWeights, SettleUnloaded,
                ReleaseClaim, Served, Waiters
  <2>3. CASE ReleaseClaim(a)
    <3>1. InPhase(a, "unclaim") /\ "unclaim" \in Phases
      BY <2>3 DEF ReleaseClaim, Phases
    <3>2. teardown[a] \in [m : Models, way : Ways, at : Phases] /\ teardown[a].at = "unclaim"
          /\ Tearing(a)
      BY <3>1, PhaseStep
    <3>3. Claiming(a, m) /\ m \in Models
      BY <3>2 DEF Claiming, Ways, TeardownOwned
    <3>4. engine[m] = "none"
      BY <3>2, <3>3 DEF Detached
    <3>5. UNCHANGED engine /\ \A n \in Models : n # m => claims'[n] = claims[n]
      BY <2>3, <1>1 DEF ReleaseClaim, Types
    <3>6. Standing' \subseteq Standing
      BY <3>4, <3>5 DEF Standing
    <3> QED BY <3>6, <2>1, <2>2, RoundsKept
  <2>4. CASE ~ReleaseClaim(a)
    <3>1. UNCHANGED claims /\ \A n \in Models : engine'[n] # "none" => engine[n] # "none"
      BY <2>4, <1>4, <1>1 DEF TeardownStep, StopEngine, DetachEngine, CollectWeights,
                              SettleUnloaded, Types
    <3>2. Standing' \subseteq Standing
      BY <3>1 DEF Standing
    <3> QED BY <3>2, <2>1, <2>2, RoundsKept
  <2> QED BY <2>3, <2>4
<1>5. ASSUME NEW t \in Tasks, RequestStep(t) PROVE RoundsCounted'
  <2> DEFINE m == mod[t]
  <2>1. m \in Models /\ t \in Actors
    BY <1>1
  <2>2. ASSUME NEW to \in {"wait", "admit", "admitted", "load", "failed", "hold", "done"},
               pc[t] \in {"attached", "hold"} => to \in {"hold", "done"},
               pc[t] # "done", UNCHANGED <<engine, claims, rounds>>,
               \/ pc' = [pc EXCEPT ![t] = to]
               \/ pc' = Woken(m, t, to)
               \/ pc' = Stranded(m, t, to)
        PROVE  RoundsCounted'
    <3>1. Moves(t, to)
      BY <2>1, <2>2, MovesForms
    <3>2. Served \subseteq Served'
      BY <3>1, <2>2 DEF Served, Moves
    <3>3. Standing' \subseteq Standing
      BY <2>2 DEF Standing
    <3> QED BY <3>2, <3>3, <2>2, RoundsKept
  <2>3. CASE GetEngine(t)
    <3>1. /\ UNCHANGED <<engine, claims, rounds>> /\ pc[t] \in {"new", "woken"}
          /\ \E to \in {"hold", "failed", "wait", "admit"} :
                pc' = [pc EXCEPT ![t] = to] \/ pc' = Stranded(m, t, to)
      BY <2>3 DEF GetEngine, Asks, FastPath, ReloadBusy, WaitForOther, ReserveLoad
    <3> QED BY <3>1, <2>2
  <2>4. CASE WaiterFails(t) \/ EnterLoad(t)
    <3>1. /\ UNCHANGED <<engine, claims, rounds>> /\ pc[t] \in {"woken", "admitted"}
          /\ \E to \in {"failed", "load"} : pc' = [pc EXCEPT ![t] = to]
      BY <2>4 DEF WaiterFails, EnterLoad, entryVars
    <3> QED BY <3>1, <2>2
  <2>5. CASE AdmissionRound(t)
    <3>1. UNCHANGED engine /\ pc[t] = "admit"
      BY <2>5 DEF AdmissionRound
    <3>2. CASE /\ UNCHANGED <<claims, rounds>>
               /\ pc' = [pc EXCEPT ![t] = "admitted"] \/ pc' = Woken(m, t, "failed")
      BY <3>1, <3>2, <2>2
    <3>3. CASE /\ \E v \in LruVictims : ClaimEntry(t, v, "async")
               /\ rounds' = [rounds EXCEPT ![t] = @ + 1]
               /\ UNCHANGED pc
      <4>1. PICK v \in LruVictims : ClaimEntry(t, v, "async")
        BY <3>3
      <4>2. v \in Standing /\ v \in Models
        BY DEF LruVictims, Standing
      <4>3. Standing' \subseteq Standing \ {v}
        BY <4>1, <4>2, <3>1, <2>1, ClaimShrinks
      <4>4. /\ Cardinality(Standing) = Cardinality(Standing \ {v}) + 1
            /\ IsFiniteSet(Standing \ {v}) /\ Cardinality(Standing \ {v}) \in Nat
        BY <4>2, CountsFinite, SmallerSet
      <4>5. Cardinality(Standing') <= Cardinality(Standing \ {v})
        BY <4>3, <4>4, FS_Subset
      <4>6. Served' = Served
        BY <3>3 DEF Served
      <4>7. rounds \in [Tasks -> 0..Rounds]
        BY <1>1 DEF Types
      <4>8. \A u \in Tasks : rounds[u] \in Nat /\ (rounds'[u] = rounds[u] + 1 \/ rounds'[u] = rounds[u])
        BY <4>7, <3>3, PoolAssumption
      <4>9. \A u \in Tasks : rounds'[u] + Cardinality(Standing') <= Cardinality(Served')
        BY <4>4, <4>5, <4>6, <4>8, CountsFinite DEF RoundsCounted
      <4> QED BY <4>9 DEF RoundsCounted, Standing, Served
    <3> QED BY <3>2, <3>3, <2>5 DEF AdmissionRound
  <2>6. CASE AttachEngine(t)
    <3>1. /\ pc[t] = "load" /\ pc' = [pc EXCEPT ![t] = "attached"]
          /\ engine' = [engine EXCEPT ![m] = "up"] /\ UNCHANGED <<claims, rounds>>
      BY <2>6 DEF AttachEngine
    <3>2. Served' = Served \cup {t} /\ t \notin Served
      BY <3>1, <1>1 DEF Served, Types
    <3>3. Standing' \subseteq Standing \cup {m}
      BY <3>1, <1>1 DEF Standing, Types
    <3>4. Cardinality(Served') = Cardinality(Served) + 1
      BY <3>2, CountsFinite, FS_AddElement
    <3>5. Cardinality(Standing') <= Cardinality(Standing) + 1
      <4> DEFINE Grown == Standing \cup {m}
      <4>1. m \notin Standing
        BY <3>1 DEF Detached, Standing
      <4>2. IsFiniteSet(Grown) /\ Cardinality(Grown) = Cardinality(Standing) + 1
        BY <4>1, CountsFinite, FS_AddElement
      <4>3. Cardinality(Standing') <= Cardinality(Grown)
        BY <4>2, <3>3, FS_Subset
      <4> QED BY <4>2, <4>3
    <3>6. rounds \in [Tasks -> 0..Rounds]
      BY <1>1 DEF Types
    <3>7. \A u \in Tasks : rounds'[u] + Cardinality(Standing') <= Cardinality(Served')
      BY <3>1, <3>4, <3>5, <3>6, CountsFinite, PoolAssumption DEF RoundsCounted
    <3> QED BY <3>7 DEF RoundsCounted, Standing, Served
  <2>7. CASE CommitLoad(t)
    <3>1. pc[t] = "attached" /\ UNCHANGED <<engine, claims, rounds>> /\ pc' = Woken(m, t, "hold")
      BY <2>7 DEF CommitLoad, EndLoad
    <3> QED BY <3>1, <2>2
  <2>8. CASE LoadFails(t)
    <3>1. /\ pc[t] = "load" /\ UNCHANGED <<engine, claims, rounds>>
          /\ pc' = Woken(m, t, "failed")
      BY <2>8 DEF LoadFails, EndLoad
    <3> QED BY <3>1, <2>2
  <2>9. CASE ReleaseEngine(t)
    <3>1. pc[t] = "hold" /\ UNCHANGED <<engine, rounds>> /\ Moves(t, "done")
      BY <2>9, ReleaseCases
    <3>2. Served \subseteq Served'
      BY <3>1 DEF Served, Moves
    <3>3. Standing' \subseteq Standing
      <4>1. CASE UNCHANGED <<claims, event, teardown>>
        BY <4>1, <3>1 DEF Standing
      <4>2. CASE ClaimEntry(t, m, "drain")
        BY <4>2, <3>1, <2>1, ClaimShrinks
      <4> QED BY <4>1, <4>2, <2>9, ReleaseCases
    <3> QED BY <3>1, <3>2, <3>3, RoundsKept
  <2>10. CASE ReviveEngine(t)
    <3>1. UNCHANGED <<engine, claims, rounds, pc>>
      BY <2>10 DEF ReviveEngine, entryVars
    <3> QED BY <3>1 DEF RoundsCounted, Standing, Served
  <2> QED
    BY <2>3, <2>4, <2>5, <2>6, <2>7, <2>8, <2>9, <2>10, <1>5 DEF RequestStep
<1> QED
  BY <1>2, <1>3, <1>4, <1>5 DEF PoolNext

\* So a request in admission has a round left.
LEMMA RoundsNeverSpent ==
    ASSUME PoolInv, RoundsCounted, EnoughRounds, NEW t \in Tasks, pc[t] = "admit"
    PROVE  rounds[t] # Rounds
<1>1. rounds[t] \in Nat
  BY TypesAreTypeOK, PoolAssumption DEF PoolInv, Types
<1>2. Served \subseteq Tasks \ {t}
  BY DEF Served
<1>3. /\ Cardinality(Tasks) = Cardinality(Tasks \ {t}) + 1
      /\ IsFiniteSet(Tasks \ {t}) /\ Cardinality(Tasks \ {t}) \in Nat
  BY PoolAssumption, SmallerSet
<1>4. Cardinality(Served) <= Cardinality(Tasks \ {t})
  BY <1>2, <1>3, FS_Subset
<1>5. rounds[t] <= Cardinality(Served)
  BY <1>1, CountsFinite DEF RoundsCounted
<1> QED
  BY <1>1, <1>3, <1>4, <1>5, CountsFinite, PoolAssumption DEF EnoughRounds

\* CeilingKept in terms of the admitted loads.
LEMMA AdmittedFacts ==
    ASSUME PoolTypeOK
    PROVE  Admitted \in SUBSET Models /\ IsFiniteSet(Admitted) /\ SizeOf(Admitted) \in Nat
           /\ (CeilingKept <=> PoolWeights + SizeOf(Admitted) <= Ceiling)
<1>1. Admitted \in SUBSET Models
  BY TypesAreTypeOK DEF Types, Admitted
<1> QED
  BY <1>1, SizesInt DEF CeilingKept, Admitted

\* Sizes of sets of models.
LEMMA SizeOfFacts ==
    ASSUME NEW S \in SUBSET Models
    PROVE  /\ \A R \in SUBSET S : SizeOf(R) <= SizeOf(S)
           /\ \A m \in Models \ S : SizeOf(S \cup {m}) = Size[m] + SizeOf(S)
           /\ \A m \in S : SizeOf(S) = Size[m] + SizeOf(S \ {m})
<1>1. IsFiniteSet(S) /\ (\A x \in S : Size[x] \in Nat) /\ \A x \in Models : Size[x] \in Int
  BY PoolAssumption, FS_Subset
<1>2. \A R \in SUBSET S : SizeOf(R) <= SizeOf(S)
  BY <1>1, SumMonotone DEF SizeOf
<1>3. \A m \in Models \ S : SizeOf(S \cup {m}) = Size[m] + SizeOf(S)
  BY <1>1, SumAdd DEF SizeOf
<1>4. \A m \in S : SizeOf(S) = Size[m] + SizeOf(S \ {m})
  BY <1>1, SumAny DEF SizeOf
<1> QED
  BY <1>2, <1>3, <1>4

\* Arithmetic of one more copy.
LEMMA OneCopyMore ==
    ASSUME NEW x \in Nat, NEW y \in Nat
    PROVE  /\ (x + 1) * y = x * y + y
           /\ x * y \in Int
  OBVIOUS

\* One more or one less copy of the weights of m.
LEMMA WeightsChange ==
    ASSUME PoolTypeOK, PoolTypeOK', NEW m \in Models,
           \A n \in Models : n # m => weights'[n] = weights[n]
    PROVE  PoolWeights' = PoolWeights - weights[m] * Size[m] + weights'[m] * Size[m]
<1> DEFINE f == [n \in Models |-> weights[n] * Size[n]]
           g == [n \in Models |-> weights'[n] * Size[n]]
<1>1. weights \in [Models -> Nat] /\ weights' \in [Models -> Nat]
  BY TypesAreTypeOK, TypesAreTypeOKNext DEF Types
<1>2. \A n \in Models : f[n] \in Int /\ g[n] \in Int
  BY <1>1, PoolAssumption
<1>3. \A n \in Models \ {m} : g[n] = f[n]
  OBVIOUS
<1>4. f[m] = weights[m] * Size[m] /\ g[m] = weights'[m] * Size[m]
  OBVIOUS
<1>5. PoolWeights = SumFunctionOnSet(f, Models) /\ PoolWeights' = SumFunctionOnSet(g, Models)
  BY DEF PoolWeights
<1> HIDE DEF f, g
<1>6. SumFunctionOnSet(g, Models) = SumFunctionOnSet(f, Models) - f[m] + g[m]
  BY <1>2, <1>3, PoolAssumption, SumUpdate
<1> QED
  BY <1>4, <1>5, <1>6

\* Nothing is in memory at the start.
LEMMA CeilingInit == PoolInit => CeilingKept
<1> SUFFICES ASSUME PoolInit PROVE CeilingKept
  OBVIOUS
<1>1. PoolTypeOK
  BY InitInv DEF PoolInv
<1>2. Admitted = {}
  BY DEF PoolInit, Admitted
<1>3. SizeOf(Admitted) = 0
  BY <1>2, SumEmpty DEF SizeOf
<1>4. PoolWeights = 0
  <2> DEFINE f == [m \in Models |-> weights[m] * Size[m]]
  <2>1. \A m \in Models : f[m] = 0
    BY PoolAssumption DEF PoolInit
  <2> HIDE DEF f
  <2>2. SumFunctionOnSet(f, Models) = 0
    BY <2>1, PoolAssumption, SumZero
  <2> QED BY <2>2 DEF PoolWeights, f
<1> QED
  BY <1>1, <1>3, <1>4, AdmittedFacts, PoolAssumption

\* Steps that add no weights and admit no load keep the ceiling.
LEMMA CeilingHolds ==
    ASSUME PoolInv, PoolInv', CeilingKept, Admitted' \subseteq Admitted,
           PoolWeights' <= PoolWeights
    PROVE  CeilingKept'
<1>1. /\ Admitted \in SUBSET Models /\ SizeOf(Admitted) \in Nat
      /\ PoolWeights + SizeOf(Admitted) <= Ceiling /\ PoolWeights \in Int
  BY AdmittedFacts, SizesInt DEF PoolInv
<1>2. SizeOf(Admitted') <= SizeOf(Admitted) /\ SizeOf(Admitted') \in Nat
  <2>1. PoolTypeOK /\ Admitted' \in SUBSET Models
    BY <1>1 DEF PoolInv
  <2> QED BY <1>1, <2>1, SizeOfFacts, SizesInt
<1>3. PoolWeights' \in Int
  <2> DEFINE f == [m \in Models |-> weights'[m] * Size[m]]
  <2>1. \A m \in Models : f[m] \in Int
    BY TypesAreTypeOKNext, PoolAssumption DEF PoolInv, Types
  <2> HIDE DEF f
  <2>2. SumFunctionOnSet(f, Models) \in Int
    BY <2>1, PoolAssumption, SumInt
  <2> QED BY <2>2 DEF PoolWeights, f
<1>4. PoolWeights' + SizeOf(Admitted') <= Ceiling
  BY <1>1, <1>2, <1>3, PoolAssumption
<1> QED
  BY <1>4 DEF CeilingKept, Admitted, SizeOf

\* Every step keeps the ceiling: an admission counts every load admitted before
\* it, and attaching an engine turns an admitted load into weights.
LEMMA CeilingNext ==
    ASSUME PoolInv, PoolInv', CeilingKept, RoundsCounted, OneUnloader, EnoughRounds,
           [PoolNext]_vars
    PROVE  CeilingKept'
<1> USE DEF PoolInv
<1>1. Types /\ \A t \in Tasks : mod[t] \in Models
  BY TypesAreTypeOK DEF Types
<1>2. /\ Admitted \in SUBSET Models /\ IsFiniteSet(Admitted) /\ SizeOf(Admitted) \in Nat
      /\ PoolWeights + SizeOf(Admitted) <= Ceiling /\ PoolWeights \in Int
  BY AdmittedFacts, SizesInt
<1>3. ASSUME UNCHANGED <<weights, mod>>,
             \A u \in Tasks : pc'[u] \in {"admitted", "load"} => pc[u] \in {"admitted", "load"}
      PROVE  CeilingKept'
  <2>1. PoolWeights' = PoolWeights
    BY <1>3 DEF PoolWeights
  <2>2. Admitted' \subseteq Admitted
    BY <1>3 DEF Admitted
  <2>3. PoolWeights' <= PoolWeights
    BY <2>1, <1>2
  <2> QED BY <2>2, <2>3, CeilingHolds
<1>4. ASSUME UNCHANGED vars PROVE CeilingKept'
  BY <1>3, <1>4 DEF vars, entryVars
<1>5. ASSUME NEW o \in Ops, Background(o) PROVE CeilingKept'
  <2>1. UNCHANGED <<weights, mod, pc>>
    BY <1>5, BackgroundCases
  <2> QED BY <1>3, <2>1
<1>6. ASSUME NEW a \in Actors, TeardownStep(a) PROVE CeilingKept'
  <2> DEFINE m == teardown[a].m
  <2>1. CASE CollectWeights(a)
    <3>1. InPhase(a, "collect") /\ "collect" \in Phases
      BY <2>1 DEF CollectWeights, Phases
    <3>2. m \in Models
      BY <3>1, PhaseStep
    <3>3. /\ weights' = [weights EXCEPT ![m] =
                             IF @ > (IF engine[m] = "none" THEN 0 ELSE 1) THEN @ - 1 ELSE @]
          /\ UNCHANGED <<pc, mod>>
      BY <2>1 DEF CollectWeights, InPhase
    <3>4. /\ \A n \in Models : n # m => weights'[n] = weights[n]
          /\ weights[m] \in Nat /\ weights'[m] \in Nat
          /\ weights'[m] = weights[m] \/ weights'[m] = weights[m] - 1
      <4>1. weights \in [Models -> Nat] /\ weights[m] \in Nat
        BY <3>2, <1>1 DEF Types
      <4>2. \/ weights'[m] = weights[m]
            \/ weights[m] > 0 /\ weights'[m] = weights[m] - 1
        BY <4>1, <3>2, <3>3
      <4>3. \A n \in Models : n # m => weights'[n] = weights[n]
        BY <4>1, <3>2, <3>3
      <4> QED BY <4>1, <4>2, <4>3
    <3>5. PoolWeights' = PoolWeights - weights[m] * Size[m] + weights'[m] * Size[m]
      BY <3>2, <3>4, WeightsChange
    <3>6. PoolWeights' <= PoolWeights
      <4>1. Size[m] \in Nat
        BY <3>2, PoolAssumption
      <4>2. CASE weights'[m] = weights[m]
        <5>1. weights[m] * Size[m] \in Int
          BY <4>1, <3>4
        <5> QED BY <5>1, <4>2, <3>5, <1>2
      <4>3. CASE weights'[m] = weights[m] - 1
        <5>1. /\ (weights[m] - 1) * Size[m] = weights[m] * Size[m] - Size[m]
              /\ weights[m] * Size[m] \in Int
          BY <4>1, <3>4
        <5> QED BY <5>1, <4>1, <4>3, <3>5, <1>2
      <4> QED BY <4>2, <4>3, <3>4
    <3>7. Admitted' \subseteq Admitted
      BY <3>3 DEF Admitted
    <3> QED BY <3>6, <3>7, CeilingHolds
  <2>2. CASE ~CollectWeights(a)
    <3>1. /\ UNCHANGED <<weights, mod>>
          /\ \A u \in Tasks : pc'[u] \in {"admitted", "load"} => pc[u] \in {"admitted", "load"}
      BY <2>2, <1>6, <1>1 DEF TeardownStep, StopEngine, DetachEngine, SettleUnloaded,
                              ReleaseClaim, InPhase, Waiters, Types
    <3> QED BY <3>1, <1>3
  <2> QED BY <2>1, <2>2
<1>7. ASSUME NEW t \in Tasks, RequestStep(t) PROVE CeilingKept'
  <2> DEFINE m == mod[t]
  <2>1. m \in Models
    BY <1>1
  <2>2. ASSUME UNCHANGED <<weights, mod>>,
               NEW to \in {"wait", "admit", "failed", "hold", "done"},
               \/ pc' = [pc EXCEPT ![t] = to]
               \/ pc' = Woken(m, t, to)
               \/ pc' = Stranded(m, t, to)
        PROVE  CeilingKept'
    <3>1. Moves(t, to)
      BY <2>1, <2>2, MovesForms
    <3> QED BY <3>1, <2>2, <1>3 DEF Moves
  <2>3. CASE GetEngine(t)
    <3>1. /\ UNCHANGED <<weights, mod>>
          /\ \E to \in {"hold", "failed", "wait", "admit"} :
                pc' = [pc EXCEPT ![t] = to] \/ pc' = Stranded(m, t, to)
      BY <2>3 DEF GetEngine, Asks, FastPath, ReloadBusy, WaitForOther, ReserveLoad
    <3> QED BY <3>1, <2>2
  <2>4. CASE WaiterFails(t)
    <3>1. UNCHANGED <<weights, mod>> /\ pc' = [pc EXCEPT ![t] = "failed"]
      BY <2>4 DEF WaiterFails
    <3> QED BY <3>1, <2>2
  <2>5. CASE EnterLoad(t)
    <3>1. PICK to \in {"load", "failed"} : pc' = [pc EXCEPT ![t] = to]
      BY <2>5 DEF EnterLoad
    <3>2. UNCHANGED <<weights, mod>> /\ pc[t] = "admitted"
      BY <2>5 DEF EnterLoad
    <3> QED BY <3>1, <3>2, <1>1, <1>3 DEF Types
  <2>6. CASE CommitLoad(t) \/ LoadFails(t) \/ ReleaseEngine(t)
    <3>1. /\ UNCHANGED <<weights, mod>>
          /\ \E to \in {"hold", "failed", "done"} :
                pc' = [pc EXCEPT ![t] = to] \/ pc' = Woken(m, t, to)
      BY <2>6 DEF CommitLoad, LoadFails, ReleaseEngine, EndLoad
    <3> QED BY <3>1, <2>2
  <2>7. CASE AdmissionRound(t)
    <3>1. /\ pc[t] = "admit" /\ UNCHANGED <<weights, mod>>
          /\ \/ /\ \E live \in GaugeReadings : CurrentUsage(m, live) + Size[m] <= Ceiling
                /\ pc' = [pc EXCEPT ![t] = "admitted"]
             \/ pc' = pc
             \/ pc' = Woken(m, t, "failed")
      BY <2>7, RoundsNeverSpent DEF AdmissionRound
    <3>2. CASE pc' = pc
      BY <3>1, <3>2, <1>3
    <3>3. CASE pc' = Woken(m, t, "failed")
      BY <3>1, <3>3, <2>2
    <3>4. CASE /\ \E live \in GaugeReadings : CurrentUsage(m, live) + Size[m] <= Ceiling
               /\ pc' = [pc EXCEPT ![t] = "admitted"]
      <4>1. PICK live \in GaugeReadings : CurrentUsage(m, live) + Size[m] <= Ceiling
        BY <3>4
      <4>2. live \in Int /\ PoolWeights <= live /\ TrackedAfter(live) \in Int
        BY SizesInt
      <4>3. \A u \in Tasks : u # t /\ pc[u] \in {"admitted", "load"} => mod[u] # m
        BY <3>1, <2>1 DEF LoadsReserved, Loader
      <4>4. m \notin Admitted
        BY <4>3, <3>1 DEF Admitted
      <4>5. Admitted \subseteq PendingLoads(m)
        <5>1. ASSUME NEW u \in Tasks, pc[u] \in {"admitted", "load"}
              PROVE  mod[u] \in PendingLoads(m)
          <6>1. mod[u] \in Models /\ loading[mod[u]] /\ engine[mod[u]] = "none"
            BY <5>1, <1>1 DEF LoadsReserved, Loader, Detached
          <6>2. mod[u] # m
            BY <5>1, <4>3, <3>1
          <6> QED BY <6>1, <6>2 DEF PendingLoads
        <5> QED BY <5>1 DEF Admitted
      <4>6. PendingLoads(m) \in SUBSET Models
        BY DEF PendingLoads
      <4>7. SizeOf(Admitted) <= SizeOf(PendingLoads(m)) /\ SizeOf(PendingLoads(m)) \in Nat
        BY <4>5, <4>6, SizeOfFacts, SizesInt
      <4>8. PoolWeights + SizeOf(PendingLoads(m)) <= CurrentUsage(m, live)
            /\ CurrentUsage(m, live) \in Int
        BY <4>2, <4>7, <1>2 DEF CurrentUsage
      <4>9. Size[m] \in Nat
        BY <2>1, PoolAssumption
      <4>10. Admitted' = Admitted \cup {m}
        <5>1. \A u \in Tasks : pc'[u] = IF u = t THEN "admitted" ELSE pc[u]
          BY <3>4, <1>1 DEF Types
        <5> QED BY <5>1, <3>1 DEF Admitted
      <4>11. SizeOf(Admitted') = Size[m] + SizeOf(Admitted)
        BY <4>4, <4>10, <2>1, <1>2, SizeOfFacts
      <4>12. PoolWeights' = PoolWeights
        BY <3>1 DEF PoolWeights
      <4>13. PoolWeights' + SizeOf(Admitted') <= Ceiling
        BY <4>1, <4>7, <4>8, <4>9, <4>11, <4>12, <1>2, PoolAssumption
      <4> QED BY <4>13 DEF CeilingKept, Admitted, SizeOf
    <3> QED BY <3>1, <3>2, <3>3, <3>4
  <2>8. CASE AttachEngine(t)
    <3>1. /\ pc[t] = "load" /\ pc' = [pc EXCEPT ![t] = "attached"]
          /\ weights' = [weights EXCEPT ![m] = @ + 1] /\ UNCHANGED mod
      BY <2>8 DEF AttachEngine
    <3>2. /\ \A n \in Models : n # m => weights'[n] = weights[n]
          /\ weights[m] \in Nat /\ weights'[m] = weights[m] + 1
      BY <3>1, <2>1, <1>1 DEF Types
    <3>3. PoolWeights' = PoolWeights - weights[m] * Size[m] + weights'[m] * Size[m]
      BY <3>2, <2>1, WeightsChange
    <3>4. PoolWeights' = PoolWeights + Size[m] /\ Size[m] \in Nat
      <4>1. Size[m] \in Nat
        BY <2>1, PoolAssumption
      <4>2. /\ (weights[m] + 1) * Size[m] = weights[m] * Size[m] + Size[m]
            /\ weights[m] * Size[m] \in Int
        BY <4>1, <3>2, OneCopyMore
      <4> QED BY <4>1, <4>2, <3>2, <3>3, <1>2
    <3>5. m \in Admitted
      BY <3>1 DEF Admitted
    <3>6. Admitted' = Admitted \ {m}
      <4>1. \A u \in Tasks : u # t /\ pc[u] \in {"admitted", "load"} => mod[u] # m
        BY <3>1, <2>1 DEF LoadsReserved, Loader
      <4>2. \A u \in Tasks : pc'[u] = IF u = t THEN "attached" ELSE pc[u]
        BY <3>1, <1>1 DEF Types
      <4> QED BY <4>1, <4>2, <3>1 DEF Admitted
    <3>7. SizeOf(Admitted) = Size[m] + SizeOf(Admitted')
      BY <3>5, <3>6, <1>2, SizeOfFacts
    <3>8. SizeOf(Admitted') \in Nat
      BY <3>6, <1>2, SizesInt
    <3>9. PoolWeights' + SizeOf(Admitted') <= Ceiling
      BY <3>4, <3>7, <3>8, <1>2, PoolAssumption
    <3> QED BY <3>9 DEF CeilingKept, Admitted, SizeOf
  <2>9. CASE ReviveEngine(t)
    <3>1. UNCHANGED <<weights, mod, pc>>
      BY <2>9 DEF ReviveEngine
    <3> QED BY <3>1, <1>3
  <2> QED
    BY <2>3, <2>4, <2>5, <2>6, <2>7, <2>8, <2>9, <1>7 DEF RequestStep
<1> QED
  BY <1>4, <1>5, <1>6, <1>7 DEF PoolNext

-----------------------------------------------------------------------------
(* Types alone need no assumption on who unloads. *)

\* Claims and teardowns are well typed.
LEMMA AnyClaimTyped ==
    ASSUME Types, NEW a \in Actors, NEW m \in Models, NEW way \in Ways
    PROVE  /\ ClaimEntry(a, m, way) =>
                 /\ claims' \in [Models -> Nat] /\ event' \in [Models -> BOOLEAN]
                 /\ teardown' \in [Actors -> {NoTeardown} \cup [m : Models, way : Ways, at : Phases]]
           /\ Begin(a, m, way) =>
                 teardown' \in [Actors -> {NoTeardown} \cup [m : Models, way : Ways, at : Phases]]
<1>1. [m |-> m, way |-> way, at |-> "stop"] \in [m : Models, way : Ways, at : Phases]
  BY DEF Phases
<1>2. Begin(a, m, way) =>
          teardown' \in [Actors -> {NoTeardown} \cup [m : Models, way : Ways, at : Phases]]
  BY <1>1 DEF Types, Begin
<1>3. ClaimEntry(a, m, way) => claims' \in [Models -> Nat] /\ event' \in [Models -> BOOLEAN]
  BY DEF Types, ClaimEntry
<1> QED
  BY <1>2, <1>3 DEF ClaimEntry

\* unload_engine_async leaves the entry well typed.
LEMMA UnloadTyped ==
    ASSUME Types, NEW a \in Actors, NEW m \in Models, UnloadEngineAsync(a, m)
    PROVE  /\ claims' \in [Models -> Nat] /\ event' \in [Models -> BOOLEAN]
           /\ pending' \in [Models -> BOOLEAN]
           /\ teardown' \in [Actors -> {NoTeardown} \cup [m : Models, way : Ways, at : Phases]]
<1>1. CASE ClaimEntry(a, m, "async") /\ UNCHANGED pending
  BY <1>1, AnyClaimTyped DEF Types, Ways
<1>2. CASE /\ pending' = [pending EXCEPT ![m] = @ \/ m \notin Pinned]
           /\ UNCHANGED <<claims, event, teardown>>
  BY <1>2 DEF Types
<1>3. CASE Begin(a, m, "bare") /\ UNCHANGED <<claims, event, pending>>
  BY <1>3, AnyClaimTyped DEF Types, Ways
<1>4. CASE UNCHANGED <<claims, event, pending, teardown>>
  BY <1>4 DEF Types
<1> QED
  BY <1>1, <1>2, <1>3, <1>4 DEF UnloadEngineAsync

\* The histories of leases and of stopped engines are well typed.
LEMMA LentTyped ==
    ASSUME PoolTypeOK, [PoolNext]_vars
    PROVE  late' \subseteq Tasks /\ cut' \subseteq Tasks /\ revived' \subseteq Tasks
<1>1. late \subseteq Tasks /\ cut \subseteq Tasks /\ revived \subseteq Tasks
  BY TypesAreTypeOK DEF Types
<1>2. CASE UNCHANGED lentVars
  BY <1>1, <1>2 DEF lentVars
<1>3. ASSUME NEW a \in Actors, TeardownStep(a)
      PROVE  UNCHANGED <<late, revived>> /\ cut' \subseteq Tasks
  <2>1. UNCHANGED <<late, revived>>
    BY <1>3 DEF TeardownStep, StopEngine, DetachEngine, CollectWeights, SettleUnloaded,
                ReleaseClaim, InPhase
  <2>2. cut' = cut \/ cut' = cut \cup Holders(teardown[a].m)
    BY <1>3 DEF TeardownStep, StopEngine, DetachEngine, CollectWeights, SettleUnloaded,
                ReleaseClaim
  <2> QED BY <2>1, <2>2, <1>1 DEF Holders
<1>4. ASSUME NEW t \in Tasks, GetEngine(t)
      PROVE  late' \subseteq Tasks /\ cut' \subseteq Tasks /\ UNCHANGED revived
  BY <1>1, <1>4 DEF GetEngine, FastPath, ReloadBusy, WaitForOther, ReserveLoad
<1>5. ASSUME NEW t \in Tasks, ReviveEngine(t)
      PROVE  UNCHANGED <<late, cut>> /\ revived' \subseteq Tasks
  BY <1>1, <1>5 DEF ReviveEngine
<1>6. ASSUME NEW t \in Tasks, RequestStep(t), ~GetEngine(t), ~ReviveEngine(t)
      PROVE  UNCHANGED lentVars
  BY <1>6 DEF RequestStep, WaiterFails, AdmissionRound, EnterLoad, AttachEngine, CommitLoad,
              LoadFails, ReleaseEngine
<1>7. ASSUME NEW o \in Ops, Background(o) PROVE UNCHANGED lentVars
  BY <1>7 DEF Background
<1>8. UNCHANGED vars => UNCHANGED lentVars
  BY DEF vars, lentVars
<1> QED
  BY <1>1, <1>2, <1>3, <1>4, <1>5, <1>6, <1>7, <1>8 DEF PoolNext, lentVars

\* Every step preserves the types.
LEMMA TypesNext ==
    ASSUME PoolTypeOK, [PoolNext]_vars
    PROVE  PoolTypeOK'
<1> DEFINE Rec == {NoTeardown} \cup [m : Models, way : Ways, at : Phases]
<1>1. /\ Types /\ (\A t \in Tasks : mod[t] \in Models /\ t \in Actors)
      /\ \A o \in Ops : o \in Actors
      /\ late' \subseteq Tasks /\ cut' \subseteq Tasks /\ revived' \subseteq Tasks
  BY TypesAreTypeOK, LentTyped DEF Types, Actors
<1> SUFFICES Types'
  BY TypesAreTypeOKNext
<1>2. CASE UNCHANGED vars
  BY <1>1, <1>2 DEF Types, vars, entryVars
<1>3. ASSUME NEW o \in Ops, Background(o) PROVE Types'
  <2>1. UNCHANGED <<engine, variant, loading, failed, in_use, weights, pc, mod, want, rounds>>
    BY <1>3 DEF Background
  <2>2. calls' \in [Ops -> 0..MaxCalls]
    <3>1. UNCHANGED calls \/ (calls[o] < MaxCalls /\ calls' = [calls EXCEPT ![o] = @ + 1])
      BY <1>3 DEF Background
    <3> QED BY <3>1, <1>1, PoolAssumption DEF Types
  <2>3. CASE TtlNext(o)
    <3>1. PICK m \in todo[o] : /\ UnloadEngineAsync(o, m)
                               /\ todo' = [todo EXCEPT ![o] = @ \ {m}]
                               /\ UNCHANGED mem
      BY <2>3 DEF TtlNext
    <3>2. m \in Models
      BY <1>1 DEF Types
    <3>3. /\ claims' \in [Models -> Nat] /\ event' \in [Models -> BOOLEAN]
          /\ pending' \in [Models -> BOOLEAN] /\ teardown' \in [Actors -> Rec]
      BY <3>1, <3>2, <1>1, UnloadTyped
    <3>4. todo' \in [Ops -> SUBSET Models]
      BY <3>1, <1>1 DEF Types
    <3> QED BY <3>1, <3>3, <3>4, <2>1, <2>2, <1>1 DEF Types
  <2>4. CASE TtlSweep(o)
    <3>0. PICK S \in SUBSET Expired : \E m \in S :
              /\ UnloadEngineAsync(o, m)
              /\ todo' = [todo EXCEPT ![o] = S \ {m}]
              /\ UNCHANGED mem
      BY <2>4 DEF TtlSweep
    <3>1. PICK m \in S : /\ UnloadEngineAsync(o, m)
                         /\ todo' = [todo EXCEPT ![o] = S \ {m}]
                         /\ UNCHANGED mem
      BY <3>0
    <3>2. m \in Models /\ S \in SUBSET Models
      BY DEF Expired
    <3>3. /\ claims' \in [Models -> Nat] /\ event' \in [Models -> BOOLEAN]
          /\ pending' \in [Models -> BOOLEAN] /\ teardown' \in [Actors -> Rec]
      BY <3>1, <3>2, <1>1, UnloadTyped
    <3>4. todo' \in [Ops -> SUBSET Models]
      BY <3>1, <3>2, <1>1 DEF Types
    <3> QED BY <3>1, <3>3, <3>4, <2>1, <2>2, <1>1 DEF Types
  <2>5. CASE UnloadIfIdle(o) \/ EvictForPrefill(o)
    <3>1. /\ UNCHANGED <<pending, todo>>
          /\ mem' = mem \/ \E live \in GaugeReadings : mem' = TrackedAfter(live)
          /\ \E m \in Expired, way \in {"drain", "async"} : ClaimEntry(o, m, way)
      BY <2>5 DEF UnloadIfIdle, EvictForPrefill
    <3>2. mem' \in Int
      BY <3>1, <1>1, SizesInt DEF Types
    <3>3. /\ claims' \in [Models -> Nat] /\ event' \in [Models -> BOOLEAN]
          /\ teardown' \in [Actors -> Rec]
      <4>1. PICK m \in Expired, way \in {"drain", "async"} : ClaimEntry(o, m, way)
        BY <3>1
      <4> QED BY <4>1, <1>1, AnyClaimTyped DEF Expired, Ways
    <3> QED BY <3>1, <3>2, <3>3, <2>1, <2>2, <1>1 DEF Types
  <2>6. CASE MarkBusyVictim(o)
    <3>1. UNCHANGED <<claims, event, teardown, mem, todo>> /\ pending' \in [Models -> BOOLEAN]
      BY <2>6, <1>1 DEF MarkBusyVictim, Types
    <3> QED BY <3>1, <2>1, <2>2, <1>1 DEF Types
  <2> QED BY <2>3, <2>4, <2>5, <2>6, <1>3 DEF Background
<1>4. ASSUME NEW a \in Actors, TeardownStep(a) PROVE Types'
  <2> DEFINE m == teardown[a].m
  <2>1. PICK at \in Phases : InPhase(a, at)
    BY <1>4, Zenon DEF TeardownStep, StopEngine, DetachEngine, CollectWeights, SettleUnloaded,
                ReleaseClaim, Phases
  <2>2. teardown[a] \in [m : Models, way : Ways, at : Phases]
    BY <2>1, <1>1 DEF InPhase, Types, NoTeardown, Phases
  <2>3. NextPhase(teardown[a]) \in Rec
    BY <2>2 DEF NextPhase, NoTeardown, Phases, Ways
  <2>4. /\ teardown' \in [Actors -> Rec] /\ m \in Models
        /\ UNCHANGED <<loading, failed, in_use, mod, want, rounds, calls, todo>>
    BY <2>1, <2>2, <2>3, <1>1 DEF InPhase, Types
  <2>10. variant' \in [Models -> Variants \cup {"unset"}]
    <3>1. variant' = variant \/ variant' = [variant EXCEPT ![m] = "unset"]
      BY <1>4 DEF TeardownStep, StopEngine, DetachEngine, CollectWeights, SettleUnloaded,
                  ReleaseClaim
    <3> QED BY <3>1, <1>1 DEF Types
  <2>5. engine' \in [Models -> {"none", "up", "stopped"}]
    BY <2>4, <1>4, <1>1 DEF TeardownStep, StopEngine, DetachEngine, CollectWeights,
                            SettleUnloaded, ReleaseClaim, Types
  <2>6. event' \in [Models -> BOOLEAN] /\ pending' \in [Models -> BOOLEAN]
    BY <2>4, <1>4, <1>1 DEF TeardownStep, StopEngine, DetachEngine, CollectWeights,
                            SettleUnloaded, ReleaseClaim, Types
  <2>7. claims' \in [Models -> Nat] /\ weights' \in [Models -> Nat]
    <3>1. claims' = claims \/ claims' = [claims EXCEPT ![m] = IF @ = 0 THEN 0 ELSE @ - 1]
      BY <1>4 DEF TeardownStep, StopEngine, DetachEngine, CollectWeights, SettleUnloaded,
                  ReleaseClaim
    <3>2. \/ weights' = weights
          \/ \E least \in {0, 1} :
                weights' = [weights EXCEPT ![m] = IF @ > least THEN @ - 1 ELSE @]
      BY <1>4 DEF TeardownStep, StopEngine, DetachEngine, CollectWeights, SettleUnloaded,
                  ReleaseClaim
    <3>3. claims' \in [Models -> Nat]
      BY <3>1, <2>4, <1>1, CountDown DEF Types
    <3>4. weights' \in [Models -> Nat]
      <4>1. weights \in [Models -> Nat]
        BY <1>1 DEF Types
      <4>2. \A least \in {0, 1} :
                [weights EXCEPT ![m] = IF @ > least THEN @ - 1 ELSE @] \in [Models -> Nat]
        BY <4>1, FreeOneCopy
      <4> QED BY <4>1, <4>2, <3>2
    <3> QED BY <3>3, <3>4
  <2>8. mem' \in Int
    <3>1. mem' = mem \/ mem' = mem - Size[m]
      BY <1>4 DEF TeardownStep, StopEngine, DetachEngine, CollectWeights, SettleUnloaded,
                  ReleaseClaim
    <3> QED BY <3>1, <2>4, <1>1, PoolAssumption DEF Types
  <2>9. pc' \in PcType
    <3>1. pc' = pc \/ pc' = [u \in Tasks |-> IF u \in Waiters(m) THEN "woken" ELSE pc[u]]
      BY <1>4 DEF TeardownStep, StopEngine, DetachEngine, CollectWeights, SettleUnloaded,
                  ReleaseClaim
    <3> QED BY <3>1, <1>1 DEF Types, PcType
  <2> QED
    BY <2>4, <2>5, <2>6, <2>7, <2>8, <2>9, <2>10, <1>1 DEF Types, PcType
<1>5. ASSUME NEW t \in Tasks, RequestStep(t) PROVE Types'
  <2> DEFINE m == mod[t]
  <2>1. ASSUME NEW to \in {"wait", "admit", "admitted", "load", "attached", "hold", "done", "failed"},
               \/ pc' = [pc EXCEPT ![t] = to]
               \/ pc' = Woken(m, t, to)
               \/ pc' = Stranded(m, t, to)
        PROVE  pc' \in PcType
    <3>1. CASE pc' = [pc EXCEPT ![t] = to]
      BY <3>1, <1>1 DEF Types, PcType
    <3>2. CASE pc' = Woken(m, t, to)
      BY <3>2, <1>1 DEF Types, PcType, Woken
    <3>3. CASE pc' = Stranded(m, t, to)
      BY <3>3, <1>1 DEF Types, PcType, Stranded
    <3> QED BY <3>1, <3>2, <3>3, <2>1
  <2>2. CASE GetEngine(t)
    <3>1. UNCHANGED <<engine, variant, claims, failed, pending, mem, weights, mod,
                      want, rounds, calls, todo>>
      BY <2>2 DEF GetEngine
    <3>2. pc' \in PcType
      <4>1. \E to \in {"hold", "failed", "wait", "admit"} :
               pc' = [pc EXCEPT ![t] = to] \/ pc' = Stranded(m, t, to)
        BY <2>2 DEF GetEngine, FastPath, ReloadBusy, WaitForOther, ReserveLoad
      <4> QED BY <4>1, <2>1
    <3>3. loading' \in [Models -> BOOLEAN] /\ event' \in [Models -> BOOLEAN]
      BY <2>2, <1>1 DEF GetEngine, FastPath, ReloadBusy, WaitForOther, ReserveLoad, Types
    <3>4. in_use' \in [Models -> Nat]
      <4>1. in_use' = in_use \/ in_use' = [in_use EXCEPT ![m] = @ + 1]
        BY <2>2 DEF GetEngine, FastPath, ReloadBusy, WaitForOther, ReserveLoad
      <4> QED BY <4>1, <1>1 DEF Types
    <3>5. teardown' \in [Actors -> Rec]
      <4>1. teardown' = teardown \/ Begin(t, m, "bare")
        BY <2>2 DEF GetEngine, FastPath, ReloadBusy, WaitForOther, ReserveLoad
      <4>2. Begin(t, m, "bare") => teardown' \in [Actors -> Rec]
        BY <1>1, AnyClaimTyped DEF Ways
      <4> QED BY <4>1, <4>2, <1>1 DEF Types
    <3> QED BY <3>1, <3>2, <3>3, <3>4, <3>5, <1>1 DEF Types, PcType
  <2>3. CASE WaiterFails(t) \/ EnterLoad(t)
    <3>1. /\ UNCHANGED <<engine, variant, claims, event, pending, in_use, mem, weights, mod,
                         want, rounds, teardown, calls, todo>>
          /\ loading' \in [Models -> BOOLEAN] /\ failed' \in [Models -> BOOLEAN]
      BY <2>3, <1>1 DEF WaiterFails, EnterLoad, entryVars, Types
    <3>2. \E to \in {"failed", "load"} : pc' = [pc EXCEPT ![t] = to]
      BY <2>3 DEF WaiterFails, EnterLoad
    <3> QED BY <3>1, <3>2, <2>1, <1>1 DEF Types, PcType
  <2>4. CASE AdmissionRound(t)
    <3>1. UNCHANGED <<engine, variant, failed, pending, in_use, weights, mod, want, calls, todo>>
      BY <2>4 DEF AdmissionRound
    <3>2. mem' \in Int
      <4>1. mem' = mem \/ \E live \in GaugeReadings : mem' = TrackedAfter(live)
        BY <2>4 DEF AdmissionRound
      <4> QED BY <4>1, <1>1, SizesInt DEF Types
    <3>3. CASE /\ pc' = [pc EXCEPT ![t] = "admitted"]
               /\ UNCHANGED <<loading, claims, event, teardown, rounds>>
      BY <3>1, <3>2, <3>3, <2>1, <1>1 DEF Types, PcType
    <3>4. CASE /\ rounds[t] # Rounds
               /\ \E v \in LruVictims : ClaimEntry(t, v, "async")
               /\ rounds' = [rounds EXCEPT ![t] = @ + 1]
               /\ UNCHANGED <<loading, pc>>
      <4>1. /\ claims' \in [Models -> Nat] /\ event' \in [Models -> BOOLEAN]
            /\ teardown' \in [Actors -> Rec]
        <5>1. PICK v \in LruVictims : ClaimEntry(t, v, "async")
          BY <3>4
        <5> QED BY <5>1, <1>1, AnyClaimTyped DEF LruVictims, Ways
      <4>2. rounds' \in [Tasks -> 0..Rounds]
        <5>1. rounds \in [Tasks -> 0..Rounds]
          BY <1>1 DEF Types
        <5>2. rounds[t] + 1 \in 0..Rounds
          BY <5>1, <3>4, PoolAssumption
        <5> QED BY <5>1, <5>2, <3>4
      <4> QED BY <4>1, <4>2, <3>1, <3>2, <3>4, <1>1 DEF Types
    <3>5. CASE /\ loading' = [loading EXCEPT ![m] = FALSE]
               /\ event' = [event EXCEPT ![m] = FALSE]
               /\ pc' = Woken(m, t, "failed")
               /\ UNCHANGED <<claims, teardown, rounds>>
      <4>1. pc' \in PcType
        BY <3>5, <2>1
      <4> QED BY <4>1, <3>1, <3>2, <3>5, <1>1 DEF Types, PcType
    <3> QED BY <3>3, <3>4, <3>5, <2>4 DEF AdmissionRound
  <2>5. CASE AttachEngine(t)
    <3>1. /\ engine' = [engine EXCEPT ![m] = "up"]
          /\ variant' = [variant EXCEPT ![m] = want[t]]
          /\ weights' = [weights EXCEPT ![m] = @ + 1]
          /\ pc' = [pc EXCEPT ![t] = "attached"]
          /\ UNCHANGED <<loading, claims, event, failed, pending, in_use, mem, mod, want,
                         rounds, teardown, calls, todo>>
      BY <2>5 DEF AttachEngine
    <3> QED BY <3>1, <1>1 DEF Types
  <2>6. CASE CommitLoad(t) \/ LoadFails(t)
    <3>1. /\ UNCHANGED <<engine, variant, claims, pending, weights, mod, want, rounds,
                         teardown, calls, todo>>
          /\ loading' = [loading EXCEPT ![m] = FALSE]
          /\ \E ok \in BOOLEAN : failed' = [failed EXCEPT ![m] = ~ok]
          /\ event' = [event EXCEPT ![m] = FALSE]
          /\ mem' = mem \/ mem' = mem + Size[m]
          /\ in_use' = in_use \/ in_use' = [in_use EXCEPT ![m] = @ + 1]
          /\ \E to \in {"hold", "failed"} : pc' = Woken(m, t, to)
      BY <2>6 DEF CommitLoad, LoadFails, EndLoad
    <3>2. pc' \in PcType
      BY <3>1, <2>1
    <3>3. mem' \in Int
      BY <3>1, <1>1, PoolAssumption DEF Types
    <3>4. in_use' \in [Models -> Nat]
      BY <3>1, <1>1 DEF Types
    <3>5. loading' \in [Models -> BOOLEAN] /\ failed' \in [Models -> BOOLEAN]
          /\ event' \in [Models -> BOOLEAN]
      BY <3>1, <1>1 DEF Types
    <3> QED BY <3>1, <3>2, <3>3, <3>4, <3>5, <1>1 DEF Types, PcType
  <2>7. CASE ReleaseEngine(t)
    <3> DEFINE left == IF in_use[m] > 0 THEN in_use[m] - 1 ELSE 0
    <3>1. /\ pc' = [pc EXCEPT ![t] = "done"]
          /\ in_use' = [in_use EXCEPT ![m] = left]
          /\ UNCHANGED <<engine, variant, loading, failed, mem, weights, mod, want,
                         rounds, calls, todo>>
          /\ \/ pending' = [pending EXCEPT ![m] = FALSE] /\ ClaimEntry(t, m, "drain")
             \/ UNCHANGED <<pending, claims, event, teardown>>
      BY <2>7 DEF ReleaseEngine
    <3>2. pc' \in PcType
      BY <3>1, <2>1
    <3>3. in_use' \in [Models -> Nat]
      <4>1. in_use \in [Models -> Nat] /\ in_use[m] \in Nat
        BY <1>1 DEF Types
      <4>2. left \in Nat
        BY <4>1
      <4> QED BY <4>1, <4>2, <3>1
    <3>4. /\ claims' \in [Models -> Nat] /\ event' \in [Models -> BOOLEAN]
          /\ teardown' \in [Actors -> Rec] /\ pending' \in [Models -> BOOLEAN]
      <4>1. CASE pending' = [pending EXCEPT ![m] = FALSE] /\ ClaimEntry(t, m, "drain")
        BY <4>1, <1>1, AnyClaimTyped DEF Types, Ways
      <4>2. CASE UNCHANGED <<pending, claims, event, teardown>>
        BY <4>2, <1>1 DEF Types
      <4> QED BY <4>1, <4>2, <3>1
    <3> QED BY <3>1, <3>2, <3>3, <3>4, <1>1 DEF Types, PcType
  <2>8. CASE ReviveEngine(t)
    <3>1. UNCHANGED <<engine, variant, loading, claims, event, failed, pending, in_use,
                      mem, weights, pc, mod, want, rounds, teardown, calls, todo>>
      BY <2>8 DEF ReviveEngine, entryVars
    <3> QED BY <3>1, <1>1 DEF Types
  <2> QED
    BY <2>2, <2>3, <2>4, <2>5, <2>6, <2>7, <2>8, <1>5 DEF RequestStep
<1> QED
  BY <1>2, <1>3, <1>4, <1>5 DEF PoolNext

-----------------------------------------------------------------------------
(* Theorems. *)

\* PoolTypeOK, for all callers and faults: the counters of claims, leases and
\* weights never go below zero, whatever unloads what.
THEOREM PoolTypes == PoolSpec => []PoolTypeOK
<1>1. PoolInit => PoolTypeOK
  BY InitInv DEF PoolInv
<1>2. PoolTypeOK /\ [PoolNext]_vars => PoolTypeOK'
  BY TypesNext
<1> QED
  BY <1>1, <1>2, PTL DEF PoolSpec

\* The pool's entries, claims, loads and leases stay consistent.
THEOREM PoolInvariance == ASSUME OneUnloader PROVE PoolSpec => []PoolInv
<1>1. PoolInv /\ [PoolNext]_vars => PoolInv'
  BY NextInv
<1> QED
  BY <1>1, InitInv, PTL DEF PoolSpec

\* No engine is handed to a second teardown (#1354 H12, _find_lru_victim), unless
\* it is the drain of a request that was leased the engine during the first.
THEOREM TornDownOnce == ASSUME OneUnloader PROVE PoolSpec => []SingleTeardown
  BY PoolInvariance, InvSingle, PTL

\* A request that waits on a loading_event waits on the one its entry holds, and
\* the loader or the teardown that will set it exists (E-19, #1409).
THEOREM WaitersAreWoken ==
    ASSUME OneUnloader, "tier" \notin LoadFaults
    PROVE  PoolSpec => []WaiterHasWaker
<1>1. PoolInit => Waits
  BY DEF PoolInit, Waits
<1>2. PoolInv /\ Waits /\ [PoolNext]_vars => Waits'
  BY WaitsNext
<1> QED
  BY <1>1, <1>2, PoolInvariance, WaitsHaveWaker, PTL DEF PoolSpec

\* The weights the pool has loaded and the admitted loads fit under the ceiling
\* (P1-8), whatever the gauges read and whoever unloads meanwhile.
THEOREM MemoryUnderCeiling ==
    ASSUME OneUnloader, EnoughRounds
    PROVE  PoolSpec => []CeilingKept
<1>1. PoolInv /\ RoundsCounted /\ [PoolNext]_vars => RoundsCounted'
  BY RoundsNext
<1>2. PoolInv /\ PoolInv' /\ RoundsCounted /\ CeilingKept /\ [PoolNext]_vars => CeilingKept'
  BY CeilingNext
<1> QED
  BY <1>1, <1>2, RoundsInit, CeilingInit, PoolInvariance, PTL DEF PoolSpec

\* The pool implements EngineLease with the leases it grants on engines that
\* nobody is unloading: such an engine is not evicted while it is leased, and the
\* next teardown waits for the last of them (EnginePool.acquire).
THEOREM PoolKeepsLeases ==
    ASSUME OneUnloader
    PROVE  PoolSpec => LeasesHonoured
<1>1. PoolInv /\ [PoolNext]_vars => [Lease!LeaseNext]_(Lease!leaseVars)
  BY LeaseStep
<1> QED
  BY <1>1, LeaseInitMaps, PoolInvariance, PTL
     DEF PoolSpec, LeasesHonoured, Lease!LeaseSpec
=============================================================================
