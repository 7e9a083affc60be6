--------------------------- MODULE WeightedRouter ---------------------------
(***************************************************************************)
(* The weighted round-robin router over cluster peers (cluster/router.py): *)
(* smooth weighted selection, failure counting, and the one-shot probe of  *)
(* a backend whose cooldown is over.  select() holds a lock over code      *)
(* without awaits; a forwarded call ends long after it was sent, so the    *)
(* outcomes of calls are recorded in any order.                            *)
(***************************************************************************)
EXTENDS Integers, FiniteSets, Sequences, FiniteSetsExt

CONSTANTS
    Order,          \* the backends in the order they were added
    Weight,         \* Weight[b]: Backend.weight
    MaxFailures,    \* _MAX_FAILURES
    MaxAttempts,    \* max_attempts of dispatch
    Tasks,          \* requests that can be in flight at the same time
    MaxRequests,    \* bound: requests made in all
    NoBackend

Backends == Range(Order)

ASSUME RouterAssumption ==
    /\ Order \in Seq(Backends) /\ Backends # {}
    /\ Weight \in [Backends -> Nat \ {0}]
    /\ MaxFailures \in Nat \ {0} /\ MaxAttempts \in Nat \ {0}
    /\ MaxRequests \in Nat
    /\ NoBackend \notin Backends

VARIABLES
    alive,          \* Backend.alive
    failures,       \* Backend.failures (counted up to MaxFailures)
    probing,        \* Backend.probing
    cooled,         \* _DEAD_COOLDOWN has passed since last_failure_ts
    current_weight, \* Backend.current_weight
    picks,          \* how often a backend was selected before any call failed
    disturbed,      \* some call has failed
    at,             \* where a request is in dispatch
    on,             \* the backend it was sent to
    attempted,      \* dispatch's set of backends tried
    attempts,       \* rounds of dispatch's loop used
    stream,         \* the request streams
    made            \* requests made so far

healthVars == <<alive, failures, probing, cooled>>
reqVars == <<at, on, attempted, attempts, stream, made>>
routerVars == <<healthVars, current_weight, picks, disturbed, reqVars>>

Total == SumFunctionOnSet(Weight, Backends)

RouterInit ==
    /\ alive = [b \in Backends |-> TRUE]
    /\ failures = [b \in Backends |-> 0]
    /\ probing = [b \in Backends |-> FALSE]
    /\ cooled = [b \in Backends |-> FALSE]
    /\ current_weight = [b \in Backends |-> 0]
    /\ picks = [b \in Backends |-> 0]
    /\ disturbed = FALSE
    /\ at = [t \in Tasks |-> "idle"]
    /\ on = [t \in Tasks |-> NoBackend]
    /\ attempted = [t \in Tasks |-> {}]
    /\ attempts = [t \in Tasks |-> 0]
    /\ stream = [t \in Tasks |-> FALSE]
    /\ made = 0

-----------------------------------------------------------------------------
(* select *)

\* maybe_revive says yes and, for these, sets the probing flag.
Probed == {b \in Backends : ~alive[b] /\ ~probing[b] /\ cooled[b]}

Eligible == {b \in Backends : alive[b]} \cup Probed

\* The weights after every eligible backend gained its own.
Raised ==
    [b \in Backends |->
        current_weight[b] + IF b \in Eligible THEN Weight[b] ELSE 0]

\* Mutant of Best: the selection always starts from the first backend.
BestIsFirst == Order[Min({i \in DOMAIN Order : Order[i] \in Eligible})]

\* The first eligible backend, in insertion order, with the largest weight.
Best ==
    LET Heaviest(b) == b \in Eligible /\ \A c \in Eligible : Raised[c] <= Raised[b]
    IN  Order[Min({i \in DOMAIN Order : Heaviest(Order[i])})]

\* A single eligible backend is returned without touching the weights.
NewWeights ==
    IF Cardinality(Eligible) = 1 THEN current_weight
    ELSE [Raised EXCEPT ![Best] = @ - Total]

-----------------------------------------------------------------------------
(* dispatch *)

Dispatch(t) ==
    /\ at[t] = "idle" /\ made < MaxRequests
    /\ made' = made + 1
    /\ at' = [at EXCEPT ![t] = "pick"]
    /\ \E s \in BOOLEAN : stream' = [stream EXCEPT ![t] = s]
    /\ UNCHANGED <<healthVars, current_weight, picks, disturbed, on, attempted, attempts>>

MayRetry(t) == attempts[t] < MaxAttempts

\* Mutant of Over: a request that stops retrying is never answered.
OverKeepsCalling(t) == UNCHANGED reqVars

\* dispatch returns or raises.
Over(t) ==
    /\ at' = [at EXCEPT ![t] = "idle"]
    /\ on' = [on EXCEPT ![t] = NoBackend]
    /\ attempted' = [attempted EXCEPT ![t] = {}]
    /\ attempts' = [attempts EXCEPT ![t] = 0]
    /\ stream' = [stream EXCEPT ![t] = FALSE]
    /\ UNCHANGED made

\* No backend is eligible.
NothingEligible(t) ==
    /\ at[t] = "pick" /\ Eligible = {}
    /\ Over(t)
    /\ UNCHANGED <<healthVars, current_weight, picks, disturbed>>

\* One round of the loop up to the forwarded call: a backend is selected and,
\* unless this request has already tried it, called.
Select(t) ==
    /\ at[t] = "pick" /\ Eligible # {}
    /\ probing' = [b \in Backends |-> probing[b] \/ b \in Probed]
    /\ current_weight' = NewWeights
    /\ picks' = IF disturbed THEN picks ELSE [picks EXCEPT ![Best] = @ + 1]
    /\ IF Best \in attempted[t] /\ ~stream[t]
         THEN Over(t)
         ELSE /\ at' = [at EXCEPT ![t] = "call"]
              /\ on' = [on EXCEPT ![t] = Best]
              /\ attempted' = [attempted EXCEPT ![t] = @ \cup {Best}]
              /\ attempts' = [attempts EXCEPT ![t] = @ + 1]
              /\ UNCHANGED <<stream, made>>
    /\ UNCHANGED <<alive, failures, cooled, disturbed>>

\* Mutant of RecordSuccess: the failure count survives a success.
RecordSuccessKeeps(b) ==
    /\ alive' = [alive EXCEPT ![b] = TRUE]
    /\ probing' = [probing EXCEPT ![b] = FALSE]
    /\ UNCHANGED failures

RecordSuccess(b) ==
    /\ alive' = [alive EXCEPT ![b] = TRUE]
    /\ probing' = [probing EXCEPT ![b] = FALSE]
    /\ failures' = [failures EXCEPT ![b] = 0]

CallSucceeds(t) ==
    /\ at[t] = "call"
    /\ RecordSuccess(on[t])
    /\ Over(t)
    /\ UNCHANGED <<cooled, current_weight, picks, disturbed>>

\* record_failure, which restarts the cooldown, and the next round or the end.
\* forward_to_peer raises PartialStreamError only once it has returned the
\* stream, so a streaming request is retried like any other here.
CallFails(t) ==
    LET b == on[t]
        n == IF failures[b] = MaxFailures THEN MaxFailures ELSE failures[b] + 1
    IN
    /\ at[t] = "call"
    /\ failures' = [failures EXCEPT ![b] = n]
    /\ alive' = [alive EXCEPT ![b] = @ /\ n < MaxFailures]
    /\ probing' = [probing EXCEPT ![b] = FALSE]
    /\ cooled' = [cooled EXCEPT ![b] = FALSE]
    /\ disturbed' = TRUE
    /\ picks' = [c \in Backends |-> 0]
    /\ \/ ~MayRetry(t) /\ Over(t)
       \/ /\ MayRetry(t)
          /\ at' = [at EXCEPT ![t] = "pick"]
          /\ on' = [on EXCEPT ![t] = NoBackend]
          /\ UNCHANGED <<attempted, attempts, stream, made>>
    /\ UNCHANGED current_weight

\* The clock passes _DEAD_COOLDOWN.
Cools(b) ==
    /\ ~alive[b] /\ ~cooled[b]
    /\ cooled' = [cooled EXCEPT ![b] = TRUE]
    /\ UNCHANGED <<alive, failures, probing, current_weight, picks, disturbed, reqVars>>

RouterNext ==
    \/ \E t \in Tasks :
         \/ Dispatch(t)
         \/ NothingEligible(t)
         \/ Select(t)
         \/ CallSucceeds(t)
         \/ CallFails(t)
    \/ \E b \in Backends : Cools(b)

\* Calls end (forward_to_peer times out) and time passes.
RouterSpec ==
    /\ RouterInit /\ [][RouterNext]_routerVars
    /\ \A t \in Tasks :
         /\ WF_routerVars(NothingEligible(t) \/ Select(t))
         /\ WF_routerVars(CallSucceeds(t) \/ CallFails(t))

-----------------------------------------------------------------------------
(* Properties. *)

\* How far the selections of b are above its share, in units of 1 / Total of a
\* selection.
Ahead(b) == picks[b] * Total - SumFunctionOnSet(picks, Backends) * Weight[b]

\* No backend has been selected a whole time more often than its share.
NeverAhead == ~disturbed => \A b \in Backends : Ahead(b) < Total

\* No backend is more selections behind its share than there are others.
NotStarved ==
    ~disturbed => \A b \in Backends : -Ahead(b) <= (Cardinality(Backends) - 1) * Total

\* "distributes picks smoothly across backends proportional to weight": as long
\* as nothing failed, at every moment and not only after a whole cycle, no backend
\* is a selection ahead of its weight, and none is starved (select).
Proportional == NeverAhead /\ NotStarved

\* record_success, record_failure: whatever the order the outcomes of calls
\* arrive in, a backend is out of the rotation exactly while it has
\* MaxFailures failures behind it and no success since.
OutOnlyWhenFailing == \A b \in Backends : alive[b] <=> failures[b] < MaxFailures

\* Every request is answered or refused.
DispatchEnds == \A t \in Tasks : []<>(at[t] = "idle")
=============================================================================
