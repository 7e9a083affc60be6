------------------------------- MODULE Cluster -------------------------------
(***************************************************************************)
(* The peer registry, its heartbeat monitor and the failover router        *)
(* (cluster/registry.py).  Registry methods hold an asyncio lock over code *)
(* without awaits, so each is one step; what happens between the awaits of *)
(* a sweep (the heartbeat) or of a route (the forwarded call) is what      *)
(* interleaves: a heartbeat or a call may end long after the node it was   *)
(* sent to was evicted, pruned or registered again.                        *)
(***************************************************************************)
EXTENDS Naturals, FiniteSets

CONSTANTS
    Nodes,
    Tasks,          \* forwarded requests: FailoverRouter.route
    MaxMissed,      \* ClusterHealthMonitor.max_missed
    MaxRetries,     \* FailoverRouter.max_retries
    MaxInflight,    \* FailoverRouter.max_inflight
    Evictable,      \* the nodes operators evict by hand
    NoNode

ASSUME ClusterAssumption ==
    /\ IsFiniteSet(Tasks)
    /\ MaxMissed \in Nat \ {0} /\ MaxRetries \in Nat /\ MaxInflight \in Nat \ {0}
    /\ NoNode \notin Nodes /\ Evictable \subseteq Nodes

VARIABLES
    state,      \* NodeRegistry._nodes: ClusterNode.state, or "absent"
    missed,     \* ClusterNode.missed_beats (counted up to MaxMissed)
    age,        \* how long ago state_changed_at was, "none" when it is 0
    monitored,  \* the router was built with a running monitor
    todo,       \* nodes the current heartbeat sweep has still to visit
    beat,       \* the heartbeat in flight: node and the answer it will get
    at,         \* where a request is in route
    on,         \* the node a request was sent to
    tries,      \* failed attempts of a request
    stream,     \* the request streams its answer
    burnt       \* nodes that failed a request and were not seen alive since

nodeVars == <<state, missed, age>>
monVars == <<todo, beat>>
reqVars == <<at, on, tries, burnt>>
clusterVars == <<nodeVars, monitored, monVars, reqVars, stream>>

NoBeat == [node |-> NoNode, ok |-> FALSE]

ClusterTypeOK ==
    /\ state \in [Nodes -> {"absent", "ALIVE", "DEAD", "EVICTED"}]
    /\ missed \in [Nodes -> 0..MaxMissed]
    /\ age \in [Nodes -> {"none", "fresh", "cooled", "expired"}]
    /\ monitored \in BOOLEAN
    /\ todo \subseteq Nodes
    /\ beat \in [node : Nodes \cup {NoNode}, ok : BOOLEAN]
    /\ at \in [Tasks -> {"new", "calling", "done", "failed"}]
    /\ on \in [Tasks -> Nodes \cup {NoNode}]
    /\ tries \in [Tasks -> 0..MaxRetries]
    /\ stream \in [Tasks -> BOOLEAN]
    /\ burnt \in [Tasks -> SUBSET Nodes]
    /\ Cardinality({t \in Tasks : at[t] = "calling"}) <= MaxInflight

\* bootstrap_peers has registered every configured peer.
ClusterInit ==
    /\ state = [n \in Nodes |-> "ALIVE"]
    /\ missed = [n \in Nodes |-> 0]
    /\ age = [n \in Nodes |-> "none"]
    /\ monitored \in BOOLEAN
    /\ todo = {}
    /\ beat = NoBeat
    /\ at = [t \in Tasks |-> "new"]
    /\ on = [t \in Tasks |-> NoNode]
    /\ tries = [t \in Tasks |-> 0]
    /\ stream \in [Tasks -> BOOLEAN]
    /\ burnt = [t \in Tasks |-> {}]

-----------------------------------------------------------------------------
(* NodeRegistry. *)

\* _prune_expired, run by every listing of the nodes.
Pruned(n) == state[n] \in {"DEAD", "EVICTED"} /\ age[n] = "expired"
Present == {n \in Nodes : state[n] # "absent" /\ ~Pruned(n)}
PrunedState == [n \in Nodes |-> IF Pruned(n) THEN "absent" ELSE state[n]]
PrunedAge == [n \in Nodes |-> IF Pruned(n) THEN "none" ELSE age[n]]
PrunedMissed == [n \in Nodes |-> IF Pruned(n) THEN 0 ELSE missed[n]]

\* The nodes that were dead or away and are alive after this step leave the
\* burnt sets.
Forgive(S) == burnt' = [t \in Tasks |-> burnt[t] \ S]

\* POST /v1/cluster/register: a known node keeps its liveness unless it was
\* evicted.  (state_changed_at is left as it was; it is written again before
\* it is next read, so the model forgets it.)
Register(n) ==
    /\ state[n] \in {"absent", "EVICTED"}
    /\ state' = [state EXCEPT ![n] = "ALIVE"]
    /\ missed' = [missed EXCEPT ![n] = 0]
    /\ age' = [age EXCEPT ![n] = "none"]
    /\ Forgive({n})
    /\ UNCHANGED <<monitored, monVars, at, on, tries, stream>>

\* POST /v1/cluster/evict
Evict(n) ==
    /\ n \in Evictable /\ state[n] # "absent"
    /\ state' = [state EXCEPT ![n] = "EVICTED"]
    /\ age' = [age EXCEPT ![n] = "fresh"]
    /\ UNCHANGED <<missed, monitored, monVars, reqVars, stream>>

\* GET /v1/cluster/health lists the nodes and prunes as it goes.
ListNodes ==
    /\ \E n \in Nodes : Pruned(n)
    /\ state' = PrunedState /\ age' = PrunedAge /\ missed' = PrunedMissed
    /\ UNCHANGED <<monitored, monVars, reqVars, stream>>

\* mark_dead as a function of the registry: the clock only starts when the
\* node was not already dead.
DeadState(n) ==
    IF state[n] \in {"absent", "EVICTED"} THEN state ELSE [state EXCEPT ![n] = "DEAD"]
DeadAge(n) == IF state[n] = "ALIVE" THEN [age EXCEPT ![n] = "fresh"] ELSE age
DeadMissed(n) ==
    IF state[n] \in {"absent", "EVICTED"} \/ missed[n] = MaxMissed
    THEN missed ELSE [missed EXCEPT ![n] = @ + 1]

\* Time passes for a node that is dead or evicted: past dead_cooldown, then
\* past the prune TTL.
Age(n) ==
    /\ state[n] \in {"DEAD", "EVICTED"} /\ age[n] # "expired"
    /\ age' = [age EXCEPT ![n] = IF @ = "fresh" THEN "cooled" ELSE "expired"]
    /\ UNCHANGED <<state, missed, monitored, monVars, reqVars, stream>>

-----------------------------------------------------------------------------
(* ClusterHealthMonitor.check_once. *)

SweepBegins ==
    /\ monitored /\ todo = {} /\ beat = NoBeat
    /\ state' = PrunedState /\ age' = PrunedAge /\ missed' = PrunedMissed
    /\ todo' = Present
    /\ UNCHANGED <<monitored, beat, reqVars, stream>>

\* Evicted nodes are not beaten.
SkipEvicted(n) ==
    /\ n \in todo /\ beat = NoBeat /\ state[n] = "EVICTED"
    /\ todo' = todo \ {n}
    /\ UNCHANGED <<nodeVars, monitored, beat, reqVars, stream>>

SendBeat(n) ==
    /\ n \in todo /\ beat = NoBeat /\ state[n] # "EVICTED"
    /\ todo' = todo \ {n}
    /\ \E ok \in BOOLEAN : beat' = [node |-> n, ok |-> ok]
    /\ UNCHANGED <<nodeVars, monitored, reqVars, stream>>

\* Mutant of MarkAlive: an evicted node is revived by a late heartbeat.
MarkAliveAnyway(n) ==
    /\ state' = [state EXCEPT ![n] = IF @ = "absent" THEN @ ELSE "ALIVE"]
    /\ missed' = [missed EXCEPT ![n] = 0]
    /\ age' = [age EXCEPT ![n] = "none"]
    /\ Forgive({n})

\* mark_alive: refused for a node that was evicted or dropped meanwhile.
MarkAlive(n) ==
    IF state[n] \in {"absent", "EVICTED"}
    THEN UNCHANGED <<nodeVars, burnt>>
    ELSE /\ state' = [state EXCEPT ![n] = "ALIVE"]
         /\ missed' = [missed EXCEPT ![n] = 0]
         /\ age' = [age EXCEPT ![n] = "none"]
         /\ Forgive({n})

\* Mutant of BeatAnswered: an answer does not bring a dead node back.
BeatUnheard ==
    /\ beat # NoBeat /\ beat.ok
    /\ beat' = NoBeat
    /\ UNCHANGED <<nodeVars, burnt, monitored, todo, at, on, tries, stream>>

BeatAnswered ==
    /\ beat # NoBeat /\ beat.ok
    /\ MarkAlive(beat.node)
    /\ beat' = NoBeat
    /\ UNCHANGED <<monitored, todo, at, on, tries, stream>>

\* mark_dead, and evict once max_missed beats are missing.
BeatMissed ==
    LET n == beat.node
        evict == /\ state[n] \notin {"absent", "EVICTED"}
                 /\ DeadMissed(n)[n] >= MaxMissed
    IN
    /\ beat # NoBeat /\ ~beat.ok
    /\ missed' = DeadMissed(n)
    /\ state' = IF evict THEN [state EXCEPT ![n] = "EVICTED"] ELSE DeadState(n)
    /\ age' = IF evict THEN [age EXCEPT ![n] = "fresh"] ELSE DeadAge(n)
    /\ beat' = NoBeat
    /\ UNCHANGED <<monitored, todo, reqVars, stream>>

-----------------------------------------------------------------------------
(* FailoverRouter.route. *)

\* Mutant of Saturated: off by one, the last slot counts as free once taken.
SaturatedLate == Cardinality({t \in Tasks : at[t] = "calling"}) > MaxInflight

\* self._inflight.locked(); the slot is taken without an await in between.
Saturated == Cardinality({t \in Tasks : at[t] = "calling"}) >= MaxInflight

\* revive_cooled_nodes, which only an unmonitored router calls.
Revived ==
    IF monitored THEN {}
    ELSE {n \in Nodes : state[n] = "DEAD" /\ age[n] \in {"cooled", "expired"}}

\* Mutant of ReviveMissed: a revived node keeps its missed beats.
ReviveKeepsMissed == missed

\* The counters of revived nodes start afresh.
ReviveMissed == [n \in Nodes |-> IF n \in Revived THEN 0 ELSE missed[n]]

\* Revival, then the pruning done by select's listing of the alive nodes.
RoutedState ==
    [n \in Nodes |-> CASE n \in Revived -> "ALIVE"
                       [] n \notin Revived /\ Pruned(n) -> "absent"
                       [] OTHER -> state[n]]

\* The request is over; what route kept for it is gone.
Ends(t, how) ==
    /\ at' = [at EXCEPT ![t] = how]
    /\ on' = [on EXCEPT ![t] = NoNode]
    /\ tries' = [tries EXCEPT ![t] = 0]
    /\ burnt' = [burnt EXCEPT ![t] = {}]

\* A request that finds the inflight cap used up is refused at once.
RouteRefused(t) ==
    /\ at[t] = "new" /\ Saturated
    /\ state' = [n \in Nodes |-> IF n \in Revived THEN "ALIVE" ELSE state[n]]
    /\ age' = [n \in Nodes |-> IF n \in Revived THEN "none" ELSE age[n]]
    /\ missed' = ReviveMissed
    /\ Forgive(Revived)
    /\ at' = [at EXCEPT ![t] = "failed"]
    /\ UNCHANGED <<monitored, monVars, on, tries, stream>>

\* The load balancer picks an alive node (loads are left open); without one
\* the caller falls back to the local node.
RouteSent(t) ==
    /\ at[t] = "new" /\ ~Saturated
    /\ state' = RoutedState
    /\ age' = [n \in Nodes |-> IF n \in Revived \/ Pruned(n) THEN "none" ELSE age[n]]
    /\ missed' = [n \in Nodes |-> IF RoutedState[n] = "absent" THEN 0 ELSE ReviveMissed[n]]
    /\ Forgive(Revived)
    /\ \/ \E n \in Nodes :
             /\ RoutedState[n] = "ALIVE"
             /\ at' = [at EXCEPT ![t] = "calling"]
             /\ on' = [on EXCEPT ![t] = n]
       \/ /\ \A n \in Nodes : RoutedState[n] # "ALIVE"
          /\ at' = [at EXCEPT ![t] = "failed"]
          /\ UNCHANGED on
    /\ UNCHANGED <<monitored, monVars, tries, stream>>

CallAnswered(t) ==
    /\ at[t] = "calling"
    /\ Ends(t, "done")
    /\ UNCHANGED <<nodeVars, monitored, monVars, stream>>

\* Mutant of CallFails: the failed node is not marked dead.
CallFailsUnmarked(t) ==
    /\ at[t] = "calling"
    /\ \/ /\ ~stream[t] /\ tries[t] < MaxRetries
          /\ \E m \in Nodes :
               /\ state[m] = "ALIVE"
               /\ on' = [on EXCEPT ![t] = m]
          /\ tries' = [tries EXCEPT ![t] = @ + 1]
          /\ burnt' = [burnt EXCEPT ![t] = @ \cup {on[t]}]
          /\ UNCHANGED at
       \/ (stream[t] \/ tries[t] = MaxRetries) /\ Ends(t, "failed")
    /\ UNCHANGED <<nodeVars, monitored, monVars, stream>>

\* NodeUnavailableError: the node is marked dead; a stream is never sent
\* again, any other request goes to the next alive node while retries last.
CallFails(t) ==
    LET n == on[t]
        next == {m \in Nodes : DeadState(n)[m] = "ALIVE"}
        retry == ~stream[t] /\ tries[t] < MaxRetries
        prunes(m) == retry /\ DeadState(n)[m] \in {"DEAD", "EVICTED"}
                           /\ DeadAge(n)[m] = "expired"
    IN
    /\ at[t] = "calling"
    /\ state' = [m \in Nodes |-> IF prunes(m) THEN "absent" ELSE DeadState(n)[m]]
    /\ age' = [m \in Nodes |-> IF prunes(m) THEN "none" ELSE DeadAge(n)[m]]
    /\ missed' = [m \in Nodes |-> IF prunes(m) THEN 0 ELSE DeadMissed(n)[m]]
    /\ \/ /\ retry
          /\ \E m \in next : on' = [on EXCEPT ![t] = m]
          /\ tries' = [tries EXCEPT ![t] = @ + 1]
          /\ burnt' = [burnt EXCEPT ![t] = @ \cup {n}]
          /\ UNCHANGED at
       \/ (~retry \/ next = {}) /\ Ends(t, "failed")
    /\ UNCHANGED <<monitored, monVars, stream>>

-----------------------------------------------------------------------------

MonitorStep ==
    \/ SweepBegins
    \/ \E n \in Nodes : SkipEvicted(n) \/ SendBeat(n)
    \/ BeatAnswered
    \/ BeatMissed

RouteStep(t) ==
    \/ RouteRefused(t)
    \/ RouteSent(t)
    \/ CallAnswered(t)
    \/ CallFails(t)

ClusterNext ==
    \/ MonitorStep
    \/ ListNodes
    \/ \E t \in Tasks : RouteStep(t)
    \/ \E n \in Nodes : Register(n) \/ Evict(n) \/ Age(n)

\* The monitor's loop keeps sweeping (its beats time out after 3 s) and a
\* forwarded call ends (120 s); peers, operators and clocks owe nothing.
ClusterSpec ==
    /\ ClusterInit /\ [][ClusterNext]_clusterVars
    /\ WF_clusterVars(MonitorStep)
    /\ \A t \in Tasks : WF_clusterVars(RouteStep(t))

-----------------------------------------------------------------------------
(* Properties. *)

\* register: "manual eviction is sticky until an explicit re-add".  No late
\* heartbeat, revival or routed request brings an evicted node back.
EvictionSticky ==
    [][\A n \in Nodes :
          state[n] = "EVICTED" /\ state'[n] = "ALIVE" => Register(n)]_clusterVars

\* route: a request that failed over is not on a node that already failed it,
\* unless a heartbeat, a revival or a registration vouched for the node since.
RetriedElsewhere == \A t \in Tasks : at[t] = "calling" => on[t] \notin burnt[t]

\* mark_alive, revive_cooled_nodes, register: a node in the routing set has a
\* clean record, so that old misses never count towards its next eviction.
AliveForgiven == \A n \in Nodes : state[n] = "ALIVE" => missed[n] = 0

\* The peer answers every heartbeat from some time on.
Answers(n) == <>[](beat.node = n => beat.ok)

\* check_once: with a running monitor a peer that answers does not stay DEAD.
HealthyNotDead ==
    \A n \in Nodes : (monitored /\ Answers(n)) => <>[](state[n] # "DEAD")
=============================================================================
