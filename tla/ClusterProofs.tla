--------------------------- MODULE ClusterProofs ----------------------------
(***************************************************************************)
(* The registry, its monitor and the failover router are correct for every *)
(* number of peers and requests and every setting of the limits.           *)
(***************************************************************************)
EXTENDS Cluster, FiniteSetTheorems, TLAPS

\* A node that failed a request is out of the rotation until somebody vouches
\* for it, which is what keeps the next attempt away from it.
BurntOut == \A t \in Tasks : \A n \in burnt[t] : state[n] # "ALIVE"

\* A request that is being forwarded was sent to a peer.
CallsHaveNode == \A t \in Tasks : at[t] = "calling" => on[t] \in Nodes

\* A heartbeat in flight was sent to a peer.
BeatsHaveNode == beat # NoBeat => beat.node \in Nodes

\* The inductive invariant.
ClusterInv ==
    /\ ClusterTypeOK
    /\ AliveForgiven
    /\ RetriedElsewhere
    /\ BurntOut
    /\ CallsHaveNode
    /\ BeatsHaveNode

\* The types of the variables, without the count of the calls in flight.
VarTypes ==
    /\ state \in [Nodes -> {"absent", "ALIVE", "DEAD", "EVICTED"}]
    /\ missed \in [Nodes -> 0..MaxMissed]
    /\ age \in [Nodes -> {"none", "fresh", "cooled", "expired"}]
    /\ monitored \in BOOLEAN
    /\ todo \subseteq Nodes
    /\ beat \in [node : Nodes \cup {NoNode}, ok : BOOLEAN]
    /\ at \in [Tasks -> {"new", "calling", "done", "failed"}]
    /\ on \in [Tasks -> Nodes \cup {NoNode}]
    /\ tries \in [Tasks -> 0..MaxRetries]
    /\ stream \in [Tasks -> BOOLEAN]
    /\ burnt \in [Tasks -> SUBSET Nodes]

Calling == {t \in Tasks : at[t] = "calling"}

\* What an action is shown to do, apart from the count of the calls.
Kept ==
    /\ VarTypes'
    /\ AliveForgiven'
    /\ RetriedElsewhere'
    /\ BurntOut'
    /\ CallsHaveNode'
    /\ BeatsHaveNode'

USE ClusterAssumption

\* Fewer or the same calls in flight keep the cap.
LEMMA FewerCalls ==
    ASSUME ClusterTypeOK, VarTypes', Calling' \subseteq Calling
    PROVE  ClusterTypeOK'
<1>1. IsFiniteSet(Calling)
  BY FS_Subset DEF Calling
<1>2. Cardinality(Calling') <= Cardinality(Calling)
  BY <1>1, FS_Subset
<1>3. Cardinality(Calling) \in Nat /\ Cardinality(Calling') \in Nat
  BY <1>1, FS_Subset, FS_CardinalityType
<1>4. Cardinality(Calling) <= MaxInflight
  BY DEF ClusterTypeOK, Calling
<1>5. Cardinality(Calling') <= MaxInflight
  BY <1>2, <1>3, <1>4
<1> QED BY <1>5 DEF ClusterTypeOK, VarTypes, Calling

\* One call more keeps the cap when it was not reached.
LEMMA OneMoreCall ==
    ASSUME ClusterTypeOK, VarTypes', ~Saturated, NEW t \in Tasks,
           Calling' \subseteq Calling \cup {t}
    PROVE  ClusterTypeOK'
<1>1. IsFiniteSet(Calling) /\ Cardinality(Calling) \in Nat
  BY FS_Subset, FS_CardinalityType DEF Calling
<1>2. /\ IsFiniteSet(Calling \cup {t})
      /\ Cardinality(Calling \cup {t}) <= Cardinality(Calling) + 1
      /\ Cardinality(Calling \cup {t}) \in Nat
  <2>1. IsFiniteSet(Calling \cup {t})
    BY <1>1, FS_AddElement
  <2>2. CASE t \in Calling
    <3>1. Calling \cup {t} = Calling
      BY <2>2
    <3> QED BY <1>1, <3>1
  <2>3. CASE t \notin Calling
    BY <1>1, <2>1, <2>3, FS_AddElement, FS_CardinalityType
  <2> QED BY <2>2, <2>3
<1>3. Cardinality(Calling') <= Cardinality(Calling \cup {t})
  BY <1>2, FS_Subset
<1>4. Cardinality(Calling') \in Nat
  BY <1>2, FS_Subset, FS_CardinalityType
<1>5. ~(Cardinality(Calling) >= MaxInflight)
  BY DEF Saturated, Calling
<1>6. Cardinality(Calling') <= MaxInflight
  BY <1>1, <1>2, <1>3, <1>4, <1>5
<1> QED BY <1>6 DEF ClusterTypeOK, VarTypes, Calling

-----------------------------------------------------------------------------
\* Registration wipes the record of the node and vouches for it.
LEMMA RegisterKeeps ==
    ASSUME ClusterInv, NEW n \in Nodes, Register(n)
    PROVE  Kept
BY DEF ClusterInv, ClusterTypeOK, AliveForgiven, RetriedElsewhere, BurntOut,
       CallsHaveNode, BeatsHaveNode, Kept, VarTypes, Register, Forgive, monVars

LEMMA EvictKeeps ==
    ASSUME ClusterInv, NEW n \in Nodes, Evict(n)
    PROVE  Kept
BY DEF ClusterInv, ClusterTypeOK, AliveForgiven, RetriedElsewhere, BurntOut,
       CallsHaveNode, BeatsHaveNode, Kept, VarTypes, Evict, monVars, reqVars

LEMMA AgeKeeps ==
    ASSUME ClusterInv, NEW n \in Nodes, Age(n)
    PROVE  Kept
BY DEF ClusterInv, ClusterTypeOK, AliveForgiven, RetriedElsewhere, BurntOut,
       CallsHaveNode, BeatsHaveNode, Kept, VarTypes, Age, monVars, reqVars

LEMMA ListNodesKeeps ==
    ASSUME ClusterInv, ListNodes
    PROVE  Kept
BY DEF ClusterInv, ClusterTypeOK, AliveForgiven, RetriedElsewhere, BurntOut,
       CallsHaveNode, BeatsHaveNode, Kept, VarTypes, ListNodes, Pruned,
       PrunedState, PrunedAge, PrunedMissed, monVars, reqVars

-----------------------------------------------------------------------------
LEMMA SweepBeginsKeeps ==
    ASSUME ClusterInv, SweepBegins
    PROVE  Kept
BY DEF ClusterInv, ClusterTypeOK, AliveForgiven, RetriedElsewhere, BurntOut,
       CallsHaveNode, BeatsHaveNode, Kept, VarTypes, SweepBegins, Pruned,
       Present, PrunedState, PrunedAge, PrunedMissed, reqVars

LEMMA SweepStepKeeps ==
    ASSUME ClusterInv, NEW n \in Nodes, SkipEvicted(n) \/ SendBeat(n)
    PROVE  Kept
BY DEF ClusterInv, ClusterTypeOK, AliveForgiven, RetriedElsewhere, BurntOut,
       CallsHaveNode, BeatsHaveNode, Kept, VarTypes, SkipEvicted, SendBeat,
       nodeVars, reqVars

\* A beat that is answered revives the node and forgives it, unless it was
\* evicted or dropped meanwhile.
LEMMA BeatAnsweredKeeps ==
    ASSUME ClusterInv, BeatAnswered
    PROVE  Kept
BY DEF ClusterInv, ClusterTypeOK, AliveForgiven, RetriedElsewhere, BurntOut,
       CallsHaveNode, BeatsHaveNode, Kept, VarTypes, BeatAnswered, MarkAlive,
       Forgive, NoBeat, nodeVars

\* A missed beat only counts against a node that leaves the rotation with it.
LEMMA BeatMissedKeeps ==
    ASSUME ClusterInv, BeatMissed
    PROVE  Kept
<1> USE DEF ClusterInv, ClusterTypeOK, BeatMissed, DeadState, reqVars
<1>1. VarTypes' /\ BeatsHaveNode'
  BY DEF VarTypes, BeatsHaveNode, DeadAge, DeadMissed, NoBeat
<1>2. AliveForgiven'
  BY DEF AliveForgiven, BeatsHaveNode, DeadMissed, NoBeat
<1>3. RetriedElsewhere' /\ CallsHaveNode'
  BY DEF RetriedElsewhere, CallsHaveNode
<1>4. BurntOut'
  BY DEF BurntOut
<1> QED BY <1>1, <1>2, <1>3, <1>4 DEF Kept

-----------------------------------------------------------------------------
LEMMA RouteRefusedKeeps ==
    ASSUME ClusterInv, NEW t \in Tasks, RouteRefused(t)
    PROVE  Kept
BY DEF ClusterInv, ClusterTypeOK, AliveForgiven, RetriedElsewhere, BurntOut,
       CallsHaveNode, BeatsHaveNode, Kept, VarTypes, RouteRefused, Revived,
       ReviveMissed, Forgive, monVars

LEMMA RouteSentKeeps ==
    ASSUME ClusterInv, NEW t \in Tasks, RouteSent(t)
    PROVE  Kept
<1> USE DEF ClusterInv, ClusterTypeOK, RouteSent, monVars
<1>1. VarTypes' /\ BeatsHaveNode'
  BY DEF VarTypes, BeatsHaveNode, RoutedState, ReviveMissed, Forgive
<1>2. AliveForgiven'
  BY DEF AliveForgiven, RoutedState, ReviveMissed
<1>3. \A n \in Nodes : RoutedState[n] = "ALIVE" => state[n] = "ALIVE" \/ n \in Revived
  BY DEF RoutedState
<1>4. burnt' \in [Tasks -> SUBSET Nodes] /\ \A u \in Tasks : burnt'[u] = burnt[u] \ Revived
  BY DEF Forgive
<1>5. CallsHaveNode'
  BY DEF CallsHaveNode
<1>6. BurntOut'
  BY <1>3, <1>4 DEF BurntOut
<1>7. RetriedElsewhere'
  BY <1>3, <1>4 DEF RetriedElsewhere, BurntOut
<1> QED BY <1>1, <1>2, <1>5, <1>6, <1>7 DEF Kept

LEMMA CallAnsweredKeeps ==
    ASSUME ClusterInv, NEW t \in Tasks, CallAnswered(t)
    PROVE  Kept
BY DEF ClusterInv, ClusterTypeOK, AliveForgiven, RetriedElsewhere, BurntOut,
       CallsHaveNode, BeatsHaveNode, Kept, VarTypes, CallAnswered, Ends,
       nodeVars, monVars

\* A failed call burns its node, which leaves the rotation in the same step, and
\* the next attempt goes to a node that is in it.
LEMMA CallFailsKeeps ==
    ASSUME ClusterInv, NEW t \in Tasks, CallFails(t)
    PROVE  Kept
<1> DEFINE n == on[t]
           retry == ~stream[t] /\ tries[t] < MaxRetries
           prunes(m) == /\ retry /\ DeadState(n)[m] \in {"DEAD", "EVICTED"}
                        /\ DeadAge(n)[m] = "expired"
<1> USE DEF ClusterInv, ClusterTypeOK
<1>1. /\ at[t] = "calling" /\ n \in Nodes
      /\ UNCHANGED <<monitored, todo, beat, stream>>
  BY DEF CallFails, CallsHaveNode, monVars
<1>2. /\ state' = [m \in Nodes |-> IF prunes(m) THEN "absent" ELSE DeadState(n)[m]]
      /\ age' = [m \in Nodes |-> IF prunes(m) THEN "none" ELSE DeadAge(n)[m]]
      /\ missed' = [m \in Nodes |-> IF prunes(m) THEN 0 ELSE DeadMissed(n)[m]]
  BY DEF CallFails
<1>3. \/ /\ retry
         /\ \E m \in Nodes : DeadState(n)[m] = "ALIVE" /\ on' = [on EXCEPT ![t] = m]
         /\ tries' = [tries EXCEPT ![t] = @ + 1]
         /\ burnt' = [burnt EXCEPT ![t] = @ \cup {n}]
         /\ UNCHANGED at
      \/ Ends(t, "failed")
  BY DEF CallFails
<1>4. /\ DeadState(n) \in [Nodes -> {"absent", "ALIVE", "DEAD", "EVICTED"}]
      /\ DeadAge(n) \in [Nodes -> {"none", "fresh", "cooled", "expired"}]
      /\ DeadMissed(n) \in [Nodes -> 0..MaxMissed]
  BY <1>1 DEF DeadState, DeadAge, DeadMissed
<1>5. /\ DeadState(n)[n] # "ALIVE"
      /\ \A m \in Nodes : DeadState(n)[m] = "ALIVE" =>
            /\ m # n /\ state[m] = "ALIVE" /\ DeadMissed(n)[m] = missed[m]
  BY <1>1 DEF DeadState, DeadMissed
<1> HIDE DEF prunes, n
<1>6. /\ state' \in [Nodes -> {"absent", "ALIVE", "DEAD", "EVICTED"}]
      /\ age' \in [Nodes -> {"none", "fresh", "cooled", "expired"}]
      /\ missed' \in [Nodes -> 0..MaxMissed]
  BY <1>2, <1>4
<1>7. \A m \in Nodes : state'[m] = "ALIVE" =>
         m # n /\ state[m] = "ALIVE" /\ missed'[m] = missed[m]
  BY <1>2, <1>4, <1>5
<1>8. AliveForgiven'
  BY <1>6, <1>7 DEF AliveForgiven
<1>9. VarTypes' /\ RetriedElsewhere' /\ BurntOut' /\ CallsHaveNode'
  <2>1. CASE Ends(t, "failed")
    BY <1>1, <1>6, <1>7, <2>1
       DEF Ends, VarTypes, RetriedElsewhere, BurntOut, CallsHaveNode
  <2>2. CASE /\ retry
             /\ \E m \in Nodes : DeadState(n)[m] = "ALIVE" /\ on' = [on EXCEPT ![t] = m]
             /\ tries' = [tries EXCEPT ![t] = @ + 1]
             /\ burnt' = [burnt EXCEPT ![t] = @ \cup {n}]
             /\ UNCHANGED at
    <3>1. PICK m \in Nodes : DeadState(n)[m] = "ALIVE" /\ on' = [on EXCEPT ![t] = m]
      BY <2>2
    <3>2. m # n /\ m \notin burnt[t]
      BY <1>5, <3>1 DEF BurntOut
    <3>3. VarTypes' /\ CallsHaveNode'
      BY <1>1, <1>6, <2>2, <3>1 DEF VarTypes, CallsHaveNode
    <3>4. RetriedElsewhere'
      BY <1>1, <2>2, <3>1, <3>2 DEF RetriedElsewhere
    <3>5. BurntOut'
      BY <1>1, <1>6, <1>7, <2>2 DEF BurntOut
    <3> QED BY <3>3, <3>4, <3>5
  <2> QED BY <1>3, <2>1, <2>2
<1> QED BY <1>1, <1>8, <1>9 DEF Kept, BeatsHaveNode

-----------------------------------------------------------------------------
\* Every step keeps the invariant.
LEMMA ClusterStep ==
    ASSUME ClusterInv, [ClusterNext]_clusterVars
    PROVE  ClusterInv'
<1>1. ASSUME Kept, Calling' \subseteq Calling PROVE ClusterInv'
  BY <1>1, FewerCalls DEF ClusterInv, Kept
<1>2. ASSUME NEW n \in Nodes, Register(n) \/ Evict(n) \/ Age(n) PROVE ClusterInv'
  <2>1. Kept
    BY <1>2, RegisterKeeps, EvictKeeps, AgeKeeps
  <2>2. Calling' \subseteq Calling
    BY <1>2 DEF Register, Evict, Age, reqVars, Calling
  <2> QED BY <1>1, <2>1, <2>2
<1>3. CASE ListNodes
  BY <1>1, <1>3, ListNodesKeeps DEF ListNodes, reqVars, Calling
<1>4. CASE MonitorStep
  <2>1. Kept
    BY <1>4, SweepBeginsKeeps, SweepStepKeeps, BeatAnsweredKeeps, BeatMissedKeeps
       DEF MonitorStep
  <2>2. Calling' \subseteq Calling
    BY <1>4 DEF MonitorStep, SweepBegins, SkipEvicted, SendBeat, BeatAnswered,
                BeatMissed, reqVars, Calling
  <2> QED BY <1>1, <2>1, <2>2
<1>5. ASSUME NEW t \in Tasks, RouteStep(t) PROVE ClusterInv'
  <2>1. Kept
    BY <1>5, RouteRefusedKeeps, RouteSentKeeps, CallAnsweredKeeps, CallFailsKeeps
       DEF RouteStep
  <2>2. at \in [Tasks -> {"new", "calling", "done", "failed"}]
    BY DEF ClusterInv, ClusterTypeOK
  <2>3. CASE RouteSent(t)
    <3>1. Calling' \subseteq Calling \cup {t} /\ ~Saturated
      BY <2>2, <2>3 DEF RouteSent, Calling
    <3> QED BY <2>1, <3>1, OneMoreCall DEF ClusterInv, Kept
  <2>4. CASE RouteRefused(t) \/ CallAnswered(t) \/ CallFails(t)
    <3>1. Calling' \subseteq Calling
      BY <2>2, <2>4 DEF RouteRefused, CallAnswered, CallFails, Ends, Calling
    <3> QED BY <1>1, <2>1, <3>1
  <2> QED BY <1>5, <2>3, <2>4 DEF RouteStep
<1>6. CASE UNCHANGED clusterVars
  BY <1>6 DEF clusterVars, nodeVars, monVars, reqVars, ClusterInv, ClusterTypeOK,
              AliveForgiven, RetriedElsewhere, BurntOut, CallsHaveNode, BeatsHaveNode
<1> QED BY <1>2, <1>3, <1>4, <1>5, <1>6 DEF ClusterNext

\* The configured peers start with a clean record and no calls.
LEMMA ClusterStart == ClusterInit => ClusterInv
<1> SUFFICES ASSUME ClusterInit PROVE ClusterInv
  OBVIOUS
<1>1. {t \in Tasks : at[t] = "calling"} = {}
  BY DEF ClusterInit
<1>2. Cardinality({t \in Tasks : at[t] = "calling"}) <= MaxInflight
  BY <1>1, FS_EmptySet
<1> QED BY <1>2 DEF ClusterInit, ClusterInv, ClusterTypeOK, AliveForgiven, NoBeat,
                    RetriedElsewhere, BurntOut, CallsHaveNode, BeatsHaveNode

-----------------------------------------------------------------------------
\* The inductive invariant holds in every reachable state.
THEOREM ClusterInvariance == ClusterSpec => []ClusterInv
<1>1. ClusterInv /\ [ClusterNext]_clusterVars => ClusterInv'
  BY ClusterStep
<1> QED BY <1>1, ClusterStart, PTL DEF ClusterSpec

\* Type correctness, and the cap on calls in flight: route never has more than
\* max_inflight requests forwarded at the same time.
THEOREM ClusterTypes == ClusterSpec => []ClusterTypeOK
<1>1. ClusterInv => ClusterTypeOK
  BY DEF ClusterInv
<1> QED BY <1>1, ClusterInvariance, PTL

\* route: failover never sends a request to a node that failed it, unless a
\* heartbeat, a revival or a registration vouched for the node since.
THEOREM FailoverMovesOn == ClusterSpec => []RetriedElsewhere
<1>1. ClusterInv => RetriedElsewhere
  BY DEF ClusterInv
<1> QED BY <1>1, ClusterInvariance, PTL

\* mark_alive, revive_cooled_nodes, register: every node in the routing set has
\* a clean record, however beats, calls and registrations interleave.
THEOREM RecordsClean == ClusterSpec => []AliveForgiven
<1>1. ClusterInv => AliveForgiven
  BY DEF ClusterInv
<1> QED BY <1>1, ClusterInvariance, PTL

\* register: "manual eviction is sticky": of all steps, late heartbeats, revivals
\* and failing calls included, only a registration brings an evicted node back.
THEOREM EvictionIsSticky == ClusterSpec => EvictionSticky
<1> DEFINE Sticky == \A n \in Nodes :
                        state[n] = "EVICTED" /\ state'[n] = "ALIVE" => Register(n)
<1>1. ASSUME ClusterInv, [ClusterNext]_clusterVars PROVE Sticky
  <2> SUFFICES ASSUME NEW n \in Nodes, state[n] = "EVICTED", state'[n] = "ALIVE"
               PROVE  Register(n)
    OBVIOUS
  <2> USE DEF ClusterInv, ClusterTypeOK
  <2>1. ASSUME NEW m \in Nodes, Register(m) PROVE Register(n)
    <3>1. m = n
      BY <2>1 DEF Register
    <3> QED BY <2>1, <3>1
  <2>2. ASSUME NEW m \in Nodes, Evict(m) \/ Age(m) PROVE FALSE
    BY <1>1, <2>2 DEF Evict, Age
  <2>3. CASE ListNodes
    BY <1>1, <2>3 DEF ListNodes, PrunedState
  <2>4. CASE MonitorStep
    BY <1>1, <2>4
       DEF MonitorStep, SweepBegins, SkipEvicted, SendBeat, BeatAnswered, BeatMissed,
           PrunedState, MarkAlive, DeadState, nodeVars, BeatsHaveNode
  <2>5. ASSUME NEW t \in Tasks, RouteStep(t) PROVE FALSE
    BY <1>1, <2>5 DEF RouteStep, RouteRefused, RouteSent, CallAnswered, CallFails,
                      RoutedState, Revived, DeadState, nodeVars, CallsHaveNode
  <2>6. CASE UNCHANGED clusterVars
    BY <2>6 DEF clusterVars, nodeVars
  <2> QED BY <1>1, <2>1, <2>2, <2>3, <2>4, <2>5, <2>6 DEF ClusterNext
<1>2. ClusterInv /\ [ClusterNext]_clusterVars => [Sticky]_clusterVars
  BY <1>1
<1> QED BY <1>2, ClusterInvariance, PTL DEF ClusterSpec, EvictionSticky
=============================================================================
