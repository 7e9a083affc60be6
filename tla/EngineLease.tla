---------------------------- MODULE EngineLease ----------------------------
(***************************************************************************)
(* What EnginePool.acquire promises (pool/engine_pool.py, acquire): the    *)
(* lease is taken together with the engine, and "the engine cannot be      *)
(* evicted mid-request".  A model is serving or it is not; leases are only *)
(* granted on a serving model, and a model stops serving only when nobody  *)
(* holds a lease on it.  How engines are loaded, which one is evicted and  *)
(* who waits for whom is left to EnginePool.tla, which implements this     *)
(* with the leases it grants on engines that nobody is unloading; those it *)
(* grants on an engine that is being stopped are outside this promise.     *)
(***************************************************************************)
CONSTANTS Models, Tasks

VARIABLES
    serving,    \* serving[m]: the engine of m can be handed out
    lease       \* lease[m]: the requests that hold a lease on m

leaseVars == <<serving, lease>>

LeaseInit ==
    /\ serving = [m \in Models |-> FALSE]
    /\ lease = [m \in Models |-> {}]

Start(m) ==
    /\ ~serving[m]
    /\ serving' = [serving EXCEPT ![m] = TRUE]
    /\ UNCHANGED lease

Grant(t, m) ==
    /\ serving[m]
    /\ lease' = [lease EXCEPT ![m] = @ \cup {t}]
    /\ UNCHANGED serving

\* The last request out may close the door: a pending unload is drained by
\* the release that ends the last lease.
Return(t, m) ==
    /\ t \in lease[m]
    /\ lease' = [lease EXCEPT ![m] = @ \ {t}]
    /\ \/ UNCHANGED serving
       \/ lease[m] = {t} /\ serving' = [serving EXCEPT ![m] = FALSE]

Stop(m) ==
    /\ serving[m] /\ lease[m] = {}
    /\ serving' = [serving EXCEPT ![m] = FALSE]
    /\ UNCHANGED lease

LeaseNext ==
    \E m \in Models :
        \/ Start(m)
        \/ Stop(m)
        \/ \E t \in Tasks : Grant(t, m) \/ Return(t, m)

LeaseSpec == LeaseInit /\ [][LeaseNext]_leaseVars
=============================================================================
