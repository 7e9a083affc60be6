------------------------------ MODULE Scheduler ------------------------------
(***************************************************************************)
(* Admission, batching and stepping of one engine (scheduler/).            *)
(*                                                                         *)
(* One executor thread runs add_request and step(); the event loop aborts  *)
(* requests and a single store worker persists finished caches while a     *)
(* step is under way, so step() is cut where they can be seen: the pending *)
(* aborts, the deferred removals, the chunked prefills, each round of      *)
(* _schedule_waiting, the end of an inline prefill, and the forward pass.  *)
(***************************************************************************)
EXTENDS Integers, FiniteSets, SequencesExt

CONSTANTS
    Requests,       \* request ids
    Long,           \* the prompts that are prefilled in chunks
    Chunks,         \* steps a chunked prefill takes
    MaxSeqs,        \* config.max_num_seqs
    GateCap,        \* cap of the store-cache gate
    MaxTokens,      \* max_tokens of every request
    MaxRetries,     \* max_corruption_retries
    MaxFaults,      \* bound: generator faults in a behaviour
    MaxAborts,      \* bound: requests that are aborted
    FaultSets,      \* which faults can happen together
    NoRequest

ASSUME SchedulerAssumption ==
    /\ Long \subseteq Requests /\ NoRequest \notin Requests
    /\ Chunks \in Nat /\ Chunks >= 2
    /\ MaxSeqs \in Nat \ {0} /\ GateCap \in Nat \ {0}
    /\ MaxTokens \in Nat \ {0} /\ MaxRetries \in Nat /\ MaxFaults \in Nat
    /\ MaxAborts \in Nat

VARIABLES
    \* Scheduler
    waiting, prefilling, running,
    requests,       \* the ids in Scheduler.requests
    uidOf, idOf,    \* request_id_to_uid and uid_to_request_id
    pending_aborts, \* _pending_abort_ids
    removes,        \* _pending_async_removes: records of uid and request
    mem_stall,      \* whom the memory guard blocks, and for how long
    store_stall,    \* how long the store-cache gate has blocked admission
    paused,         \* _admission_paused, set by the memory enforcer
    recovery,       \* _generation_overflow_recovery_ids
    \* Request
    chunks,         \* prefill chunks still to run
    tokens,         \* output tokens
    corruptions,    \* cache_corruption_retries
    overflowed,     \* the requests whose generation_overflow_retries is 1
    \* BatchGenerator, the store worker and its gate
    rows,           \* the uids it generates for
    next_uid,       \* the uid of its next row; a new generator starts from 0
    lost,           \* history: requests whose row went with another's removal
    jobs,           \* stores submitted and not over; the first one is running
    wedged,         \* the running store will never end
    cancelled,      \* futures cancelled before they ran
    storing,        \* _inflight_store_futures
    in_flight,      \* the gate's counter
    \* the step under way
    pc, cur, draining,
    scheduled,      \* some request was inserted in this step
    batch_set,      \* a request has fixed the kind of batch of this pass
    rejected,       \* the outputs _schedule_waiting has not returned yet
    out,            \* SchedulerOutput.outputs, the terminal ones
    \* clients and environment
    client,         \* what the client of a request sees
    aborted,        \* requests that were aborted once
    faults, budget

queueVars == <<waiting, prefilling, running, requests>>
uidVars == <<uidOf, idOf, rows, next_uid, lost>>
stallVars == <<mem_stall, store_stall>>
reqVars == <<chunks, tokens, corruptions, overflowed, recovery>>
storeVars == <<jobs, wedged, cancelled, storing, in_flight, removes>>
stepVars == <<cur, draining, scheduled, batch_set, rejected, out>>
envVars == <<client, aborted, pending_aborts, paused, faults, budget>>
schedVars == <<queueVars, uidVars, stallVars, reqVars, storeVars, pc, stepVars, envVars>>

Entries == [uid : Nat, req : Requests]

SchedTypeOK ==
    /\ \A q \in {waiting, prefilling, running, jobs} :
          q \in Seq(Requests) /\ IsInjective(q)
    /\ \A S \in {requests, pending_aborts, recovery, overflowed, cancelled,
                 storing, rejected, out, aborted, lost} : S \subseteq Requests
    /\ DOMAIN uidOf \subseteq Requests /\ uidOf \in [DOMAIN uidOf -> Nat]
    /\ DOMAIN idOf \subseteq Nat /\ idOf \in [DOMAIN idOf -> Requests]
    /\ next_uid \in Nat /\ rows \subseteq 0 .. next_uid - 1
    /\ removes \in Seq(Entries) /\ draining \in Seq(Entries)
    /\ mem_stall \in [id : Requests \cup {NoRequest}, age : 0..2]
    /\ store_stall \in {"none", "blocked", "expired"}
    /\ chunks \in [Requests -> 0..Chunks] /\ tokens \in [Requests -> 0..MaxTokens]
    /\ corruptions \in [Requests -> 0 .. MaxRetries + 1]
    /\ in_flight \in 0..Len(jobs)
    /\ {paused, wedged, scheduled, batch_set} \subseteq BOOLEAN
    /\ cur \in Requests \cup {NoRequest}
    /\ pc \in {"idle", "aborts", "finalize", "schedule", "prefill",
                "decode", "fast", "deliver", "failed"}
    /\ client \in [Requests -> {"absent", "open", "closed"}]
    /\ faults \in FaultSets /\ budget \in 0..MaxFaults

NoStall == [id |-> NoRequest, age |-> 0]

SchedInit ==
    /\ waiting = <<>> /\ prefilling = <<>> /\ running = <<>> /\ requests = {}
    /\ uidOf = <<>> /\ idOf = <<>> /\ rows = {} /\ next_uid = 0 /\ lost = {}
    /\ pending_aborts = {} /\ removes = <<>>
    /\ mem_stall = NoStall /\ store_stall = "none" /\ paused = FALSE
    /\ recovery = {} /\ overflowed = {}
    /\ chunks = [r \in Requests |-> 0] /\ tokens = [r \in Requests |-> 0]
    /\ corruptions = [r \in Requests |-> 0]
    /\ jobs = <<>> /\ wedged = FALSE /\ cancelled = {} /\ storing = {}
    /\ in_flight = 0
    /\ pc = "idle" /\ cur = NoRequest /\ draining = <<>>
    /\ scheduled = FALSE /\ batch_set = FALSE /\ rejected = {} /\ out = {}
    /\ client = [r \in Requests |-> "absent"] /\ aborted = {}
    /\ faults \in FaultSets /\ budget = MaxFaults

May(fault) == fault \in faults

Without(f, S) == [x \in DOMAIN f \ S |-> f[x]]

\* f with the entries of g put in.
With(f, g) == [x \in DOMAIN f \cup DOMAIN g |-> IF x \in DOMAIN g THEN g[x] ELSE f[x]]

\* The members of S, in the order they have in q.
Keep(q, S) ==
    LET kept[i \in 0..Len(q)] ==
            IF i = 0 THEN <<>>
            ELSE IF q[i] \in S THEN Append(kept[i - 1], q[i]) ELSE kept[i - 1]
    IN  kept[Len(q)]

-----------------------------------------------------------------------------
(* Clients and the environment *)

\* add_request, on the executor thread between two steps.
AddRequest(r) ==
    /\ pc = "idle" /\ client[r] = "absent"
    /\ requests' = requests \cup {r}
    /\ waiting' = Append(waiting, r)
    /\ client' = [client EXCEPT ![r] = "open"]
    /\ UNCHANGED <<prefilling, running, uidVars, stallVars, reqVars, storeVars, pc,
                   stepVars, aborted, pending_aborts, paused, faults, budget>>

\* EngineCore.abort_request ends the stream and leaves the rest to a step.
AbortRequest(r) ==
    /\ May("abort") /\ client[r] # "absent" /\ r \notin aborted
    /\ Cardinality(aborted) < MaxAborts
    /\ aborted' = aborted \cup {r}
    /\ client' = [client EXCEPT ![r] = "closed"]
    /\ pending_aborts' = IF r \in requests THEN pending_aborts \cup {r}
                                           ELSE pending_aborts
    /\ UNCHANGED <<queueVars, uidVars, stallVars, reqVars, storeVars, pc, stepVars,
                   paused, faults, budget>>

\* Mutant of NoteDone: the gate's counter is not kept from going below zero.
NoteDoneUnclamped(n) == in_flight - n

\* The gate's counter after n calls of note_done.
NoteDone(n) == IF in_flight > n THEN in_flight - n ELSE 0

\* The single store worker; the done callback of a future tells the gate.
StoreWorker ==
    /\ jobs # <<>> /\ ~wedged
    /\ \/ /\ jobs' = Tail(jobs)
          /\ in_flight' = NoteDone(1)
          /\ UNCHANGED wedged
       \/ /\ May("wedge") /\ wedged' = TRUE
          /\ UNCHANGED <<jobs, in_flight>>
    /\ UNCHANGED <<queueVars, uidVars, stallVars, reqVars, cancelled, storing, removes,
                   pc, stepVars, envVars>>

\* The enforcer pauses and resumes admission.
SetAdmissionPaused ==
    /\ May("pause") /\ paused' = ~paused
    /\ UNCHANGED <<queueVars, uidVars, stallVars, reqVars, storeVars, pc, stepVars,
                   client, aborted, pending_aborts, faults, budget>>

\* Time passes for a stalled admission.
Clock ==
    /\ \/ /\ mem_stall.id # NoRequest /\ mem_stall.age < 2
          /\ mem_stall' = [mem_stall EXCEPT !.age = @ + 1]
          /\ UNCHANGED store_stall
       \/ /\ May("slow") /\ store_stall = "blocked"
          /\ store_stall' = "expired"
          /\ UNCHANGED mem_stall
    /\ UNCHANGED <<queueVars, uidVars, reqVars, storeVars, pc, stepVars, envVars>>

\* The generator loses a row without a final response.
RowVanishes ==
    /\ May("stale") /\ budget > 0
    /\ budget' = budget - 1
    /\ \E u \in rows : rows' = rows \ {u}
    /\ UNCHANGED <<queueVars, uidOf, idOf, next_uid, lost, stallVars, reqVars,
                   storeVars, pc, stepVars, client, aborted, pending_aborts, paused, faults>>

-----------------------------------------------------------------------------
(* The start of a step: aborts and deferred removals *)

\* Mutant of has_requests: the removals that are still deferred do not count.
HasQueued == \E q \in {waiting, prefilling, running} : q # <<>>

has_requests ==
    \/ \E q \in {waiting, prefilling, running} : q # <<>>
    \/ removes # <<>>

PureDecode ==
    /\ waiting = <<>> /\ prefilling = <<>> /\ Len(running) = 1
    /\ pending_aborts = {} /\ removes = <<>>

\* The engine loop calls step() while has_requests.
StepBegin ==
    /\ pc = "idle" /\ has_requests
    /\ pc' = IF PureDecode THEN "fast" ELSE "aborts"
    /\ UNCHANGED <<queueVars, uidVars, stallVars, reqVars, storeVars, stepVars, envVars>>

\* The other requests that run under one of these uids.
Sharing(r, uids) ==
    {q \in Range(running) \ {r} : q \in DOMAIN uidOf /\ uidOf[q] \in uids}

\* _do_abort_request; deleting a mapping that is gone raises out of step().
DoAbortRequest(r) ==
    LET uid == IF r \in DOMAIN uidOf THEN {uidOf[r]} ELSE {}
    IN  /\ pc = "aborts" /\ r \in pending_aborts
        /\ pending_aborts' = pending_aborts \ {r}
        /\ IF r \notin requests
           THEN UNCHANGED <<queueVars, uidVars, recovery, pc>>
           ELSE /\ rows' = rows \ uid
                /\ lost' = lost \cup Sharing(r, uid)
                /\ waiting' = Keep(waiting, Requests \ {r})
                /\ prefilling' = Keep(prefilling, Requests \ {r})
                /\ IF uid \subseteq DOMAIN idOf
                   THEN /\ idOf' = Without(idOf, uid)
                        /\ uidOf' = Without(uidOf, {r})
                        /\ running' = Keep(running, Requests \ {r})
                        /\ requests' = requests \ {r}
                        /\ UNCHANGED pc
                   ELSE /\ pc' = "failed"
                        /\ UNCHANGED <<idOf, uidOf, running, requests>>
                /\ UNCHANGED <<recovery, next_uid>>
        /\ UNCHANGED <<stallVars, chunks, tokens, corruptions, overflowed, storeVars,
                       stepVars, client, aborted, paused, faults, budget>>

Unfinished(e) == e.req \in Range(jobs)

\* Entries whose future is done are taken off, and so are those that have
\* been stuck for too long.  Cancelling works only on a job that is queued.
DrainPendingAsyncRemoves ==
    /\ pc = "aborts" /\ pending_aborts = {}
    /\ \E stuck \in SUBSET {e \in Range(removes) : wedged /\ Unfinished(e)} :
          LET taken == {e \in Range(removes) : ~Unfinished(e) \/ e \in stuck}
              dropped == {e.req : e \in stuck} \cap Range(SubSeq(jobs, 2, Len(jobs)))
          IN  /\ draining' = Keep(removes, taken)
              /\ removes' = Keep(removes, Range(removes) \ taken)
              /\ cancelled' = cancelled \cup dropped
              /\ jobs' = Keep(jobs, Requests \ dropped)
              /\ in_flight' = NoteDone(Cardinality(dropped))
    /\ pc' = "finalize"
    /\ UNCHANGED <<queueVars, uidVars, stallVars, reqVars, wedged, storing,
                   cur, scheduled, batch_set, rejected, out, envVars>>

\* future.exception() waits for a job that is running and raises for one
\* that was cancelled; otherwise the entry's row, maps and request go.
FinalizeRemove ==
    /\ pc = "finalize" /\ draining # <<>>
    /\ LET e == Head(draining)
       IN  /\ ~Unfinished(e)
           /\ IF e.req \in cancelled
              THEN /\ pc' = "failed" /\ draining' = <<>>
                   /\ UNCHANGED <<uidVars, requests, storing, in_flight>>
              ELSE /\ draining' = Tail(draining)
                   /\ in_flight' = NoteDone(1)
                   /\ rows' = rows \ {e.uid}
                   /\ lost' = lost \cup Sharing(e.req, {e.uid})
                   /\ UNCHANGED next_uid
                   /\ idOf' = Without(idOf, {e.uid})
                   /\ uidOf' = Without(uidOf, {e.req})
                   /\ storing' = storing \ {e.req}
                   /\ requests' = requests \ {e.req}
                   /\ UNCHANGED pc
    /\ UNCHANGED <<waiting, prefilling, running, stallVars, reqVars, jobs, wedged,
                   cancelled, removes, cur, scheduled, batch_set, rejected, out,
                   envVars>>

-----------------------------------------------------------------------------
(* Insertion into the BatchGenerator *)

\* The uids insert() gives to the requests of seq, one after the other.
NewUids(seq) ==
    [r \in Range(seq) |-> next_uid + (CHOOSE i \in 0 .. Len(seq) - 1 : seq[i + 1] = r)]

NewIds(seq) ==
    [u \in next_uid .. next_uid + Len(seq) - 1 |-> seq[u - next_uid + 1]]

\* Mutant of InsertPrefilled: a uid the request has from before stays.
InsertKeepsUid(seq) ==
    /\ running' = running \o seq
    /\ uidOf' = With(NewUids(seq), uidOf)
    /\ idOf' = With(idOf, NewIds(seq))
    /\ rows' = rows \cup DOMAIN NewIds(seq)
    /\ next_uid' = next_uid + Len(seq)
    /\ lost' = lost \ Range(seq)

\* insert() of the requests of seq, and the bookkeeping that follows it.
InsertPrefilled(seq) ==
    /\ running' = running \o seq
    /\ uidOf' = With(uidOf, NewUids(seq))
    /\ idOf' = With(idOf, NewIds(seq))
    /\ rows' = rows \cup DOMAIN NewIds(seq)
    /\ next_uid' = next_uid + Len(seq)
    /\ lost' = lost \ Range(seq)

\* batch_generator = None.
ResetGenerator == rows' = {} /\ next_uid' = 0

-----------------------------------------------------------------------------
(* Chunked prefills and admission *)

\* One chunk for every request in prefilling; some hit the memory limit.
\* Then _schedule_waiting starts, with _effective_max_num_seqs, which forgets
\* the retries that are over.
AdvanceChunkedPrefills ==
    /\ pc = "finalize" /\ draining = <<>>
    /\ \E failed \in SUBSET Range(prefilling) :
          LET done == Keep(prefilling, {r \in Requests \ failed : chunks[r] = 1})
          IN  /\ failed # {} => May("oom")
              /\ prefilling' = Keep(prefilling, {r \in Requests \ failed : chunks[r] > 1})
              /\ chunks' = [r \in Requests |-> IF r \in Range(prefilling)
                                               THEN chunks[r] - 1 ELSE chunks[r]]
              /\ requests' = requests \ failed
              /\ rejected' = failed
              /\ InsertPrefilled(done)
              /\ scheduled' = (done # <<>>)
    /\ recovery' = recovery \cap requests'
    /\ pc' = "schedule"
    /\ UNCHANGED <<waiting, stallVars, tokens, corruptions, overflowed,
                   storeVars, cur, draining, batch_set, out, envVars>>

\* Mutant of NumAdmitted: chunked prefills do not count.
NumRunning == Len(running)

\* Running requests and chunked prefills share max_num_seqs.
NumAdmitted == Len(running) + Len(prefilling)

\* Mutant of EffectiveMaxNumSeqs: the batch does not shrink for a retry.
FixedMaxNumSeqs == MaxSeqs

EffectiveMaxNumSeqs == IF recovery # {} THEN 1 ELSE MaxSeqs

InFlightWork == running # <<>> \/ scheduled \/ prefilling # <<>>

\* The loop condition of _schedule_waiting and the admission pause.
MayAdmit ==
    /\ waiting # <<>> /\ NumAdmitted < EffectiveMaxNumSeqs
    /\ ~(paused /\ InFlightWork)

\* Leaving the loop returns the rejected outputs to step().
LeaveSchedule ==
    /\ pc' = "decode"
    /\ out' = out \cup rejected /\ rejected' = {} /\ batch_set' = FALSE

ScheduleEnds ==
    /\ pc = "schedule" /\ ~MayAdmit
    /\ LeaveSchedule
    /\ UNCHANGED <<queueVars, uidVars, stallVars, reqVars, storeVars, cur, draining,
                   scheduled, envVars>>

\* The store-cache gate is full: wait, and reject the head when it has
\* lasted for too long.
StoreGateStall ==
    /\ pc = "schedule" /\ MayAdmit /\ in_flight >= GateCap
    /\ IF store_stall = "expired"
       THEN /\ waiting' = Tail(waiting)
            /\ requests' = requests \ {Head(waiting)}
            /\ rejected' = rejected \cup {Head(waiting)}
            /\ store_stall' = "none"
            /\ UNCHANGED <<pc, batch_set, out>>
       ELSE /\ LeaveSchedule
            /\ store_stall' = "blocked"
            /\ UNCHANGED <<waiting, requests>>
    /\ UNCHANGED <<prefilling, running, uidVars, mem_stall, reqVars, storeVars, cur,
                   draining, scheduled, envVars>>

GateOpen == pc = "schedule" /\ MayAdmit /\ in_flight < GateCap

CleanupsPending == Len(removes) >= GateCap

\* Too many removals are waiting for the drain.
RemovesStall ==
    /\ GateOpen /\ CleanupsPending
    /\ LeaveSchedule
    /\ store_stall' = "none"
    /\ UNCHANGED <<queueVars, uidVars, mem_stall, reqVars, storeVars, cur, draining,
                   scheduled, envVars>>

\* The memory guard has blocked one request for too long; that request is
\* rejected wherever it stands in the queue.
MemoryReject ==
    /\ GateOpen /\ ~CleanupsPending /\ mem_stall.age = 2
    /\ mem_stall' = NoStall /\ store_stall' = "none"
    /\ IF mem_stall.id \in Range(waiting)
       THEN /\ waiting' = Keep(waiting, Requests \ {mem_stall.id})
            /\ requests' = requests \ {mem_stall.id}
            /\ rejected' = rejected \cup {mem_stall.id}
       ELSE UNCHANGED <<waiting, requests, rejected>>
    /\ UNCHANGED <<prefilling, running, uidVars, reqVars, storeVars, pc, cur, draining,
                   scheduled, batch_set, out, envVars>>

\* Mutant of MemoryStall: the clock starts again with every blocked round.
MemoryStallRestarts ==
    /\ GateOpen /\ ~CleanupsPending /\ mem_stall.age < 2 /\ May("memory")
    /\ mem_stall' = [id |-> Head(waiting), age |-> 0]
    /\ store_stall' = "none"
    /\ LeaveSchedule
    /\ UNCHANGED <<queueVars, uidVars, reqVars, storeVars, cur, draining, scheduled,
                   envVars>>

\* The head does not fit: it is blocked, and goes to the back once it has
\* waited for the grace period.
MemoryStall ==
    /\ GateOpen /\ ~CleanupsPending /\ mem_stall.age < 2 /\ May("memory")
    /\ mem_stall' = IF mem_stall.id = NoRequest
                    THEN [id |-> Head(waiting), age |-> 0] ELSE mem_stall
    /\ store_stall' = "none"
    /\ waiting' = IF Len(waiting) > 1 /\ mem_stall.age = 1
                  THEN Append(Tail(waiting), Head(waiting)) ELSE waiting
    /\ LeaveSchedule
    /\ UNCHANGED <<prefilling, running, requests, uidVars, reqVars, storeVars, cur,
                   draining, scheduled, envVars>>

\* The head is deferred because it may not share a pass with the kind of
\* request that came before it, or it is rejected by the preflight check or
\* its first chunk, or its first chunk leaves it in prefilling, or its
\* inline prefill starts.
AdmitHead ==
    LET r == Head(waiting)
    IN  /\ GateOpen /\ ~CleanupsPending /\ mem_stall.age < 2
        /\ mem_stall' = NoStall /\ store_stall' = "none"
        /\ \/ /\ batch_set /\ LeaveSchedule
              /\ UNCHANGED <<waiting, requests, prefilling, chunks, cur>>
           \/ /\ May("oom") /\ batch_set' = TRUE
              /\ waiting' = Tail(waiting) /\ requests' = requests \ {r}
              /\ rejected' = rejected \cup {r}
              /\ UNCHANGED <<prefilling, chunks, cur, pc, out>>
           \/ /\ r \in Long /\ batch_set' = TRUE
              /\ waiting' = Tail(waiting)
              /\ prefilling' = Append(prefilling, r)
              /\ chunks' = [chunks EXCEPT ![r] = Chunks - 1]
              /\ UNCHANGED <<requests, cur, pc, out, rejected>>
           \/ /\ r \notin Long /\ batch_set' = TRUE
              /\ waiting' = Tail(waiting)
              /\ cur' = r /\ pc' = "prefill"
              /\ UNCHANGED <<requests, prefilling, chunks, out, rejected>>
        /\ UNCHANGED <<running, uidVars, tokens, corruptions, overflowed, recovery,
                       storeVars, draining, scheduled, envVars>>

-----------------------------------------------------------------------------
(* Inline prefill of cur *)

PrefillDone ==
    /\ pc = "prefill"
    /\ InsertPrefilled(<<cur>>)
    /\ cur' = NoRequest /\ scheduled' = TRUE /\ pc' = "schedule"
    /\ UNCHANGED <<waiting, prefilling, requests, stallVars, reqVars, storeVars,
                   draining, batch_set, rejected, out, envVars>>

\* RuntimeError: the hard memory limit.
PrefillFails ==
    /\ pc = "prefill" /\ May("oom")
    /\ requests' = requests \ {cur}
    /\ rejected' = rejected \cup {cur}
    /\ cur' = NoRequest /\ pc' = "schedule"
    /\ UNCHANGED <<waiting, prefilling, running, uidVars, stallVars, reqVars, storeVars,
                   draining, scheduled, batch_set, out, envVars>>

\* Mutant of Reschedule: the running requests are put back and kept as well.
RescheduleKeeps(stay) ==
    /\ waiting' = Reverse(Keep(running, stay)) \o waiting
    /\ running' = Keep(running, stay)
    /\ tokens' = [r \in Requests |-> IF r \in Range(running) THEN 0 ELSE tokens[r]]

\* _reschedule_running_requests for the requests that stay.
Reschedule(stay) ==
    /\ waiting' = Reverse(Keep(running, stay)) \o waiting
    /\ running' = <<>>
    /\ tokens' = [r \in Requests |-> IF r \in Range(running) THEN 0 ELSE tokens[r]]

\* _PrefillAbortedError unwinds _schedule_waiting, whose rejected outputs
\* go with it.  cur is not in running, so everything that is gets
\* rescheduled; the uid maps are kept.
PrefillAborted ==
    /\ pc = "prefill" /\ cur \in pending_aborts
    /\ Reschedule(Range(running))
    /\ ResetGenerator
    /\ rejected' = {} /\ cur' = NoRequest /\ batch_set' = FALSE /\ pc' = "deliver"
    /\ UNCHANGED <<prefilling, requests, uidOf, idOf, lost, stallVars, chunks,
                   corruptions, overflowed, recovery, storeVars, draining, scheduled, out, envVars>>

-----------------------------------------------------------------------------
(* The forward pass *)

\* _cleanup_finished: what was extracted goes to the store worker and its
\* removal is deferred; the rest is removed at once.
CleanupFinished(done, stored) ==
    LET order == Keep(running, stored)
        now == done \ stored
    IN  /\ running' = Keep(running, Requests \ done)
        /\ jobs' = jobs \o order
        /\ in_flight' = in_flight + Len(order)
        /\ storing' = storing \cup stored
        /\ removes' = removes \o [i \in DOMAIN order |->
                                     [uid |-> uidOf[order[i]], req |-> order[i]]]
        /\ idOf' = Without(idOf, {uidOf[r] : r \in now})
        /\ uidOf' = Without(uidOf, now)
        /\ requests' = requests \ now

\* Mutant of Heard: an abort counts only once the next step has carried it out.
HeardInAbort == {r \in Range(running) : \E u \in rows \cap DOMAIN idOf : idOf[u] = r}

\* Requests whose response is not skipped by _process_batch_responses.
Heard == {r \in Range(running) \ pending_aborts :
             \E u \in rows \cap DOMAIN idOf : idOf[u] = r}

RowOf(r) == CHOOSE u \in rows \cap DOMAIN idOf : idOf[u] = r

\* Every row yields a token; some finish, those at their limit for sure.
DecodeStep ==
    /\ pc \in {"decode", "fast"} /\ running # <<>> /\ rows # {}
    /\ \E ending \in SUBSET rows : \E stored \in SUBSET Heard :
          LET done == {r \in Heard : RowOf(r) \in ending}
          IN  /\ \A r \in Heard : tokens[r] + 1 = MaxTokens => r \in done
              /\ stored \subseteq done
              /\ tokens' = [r \in Requests |-> IF r \in Heard THEN tokens[r] + 1
                                                              ELSE tokens[r]]
              /\ out' = out \cup done
              /\ CleanupFinished(done, stored)
              /\ rows' = rows \ ending
    /\ pc' = "deliver"
    /\ UNCHANGED <<waiting, prefilling, next_uid, lost, stallVars, chunks, corruptions,
                   overflowed, recovery, wedged, cancelled, cur, draining, scheduled,
                   batch_set, rejected, envVars>>

\* There is nothing to run, or the fast path got no response, or requests
\* were only just scheduled.
DecodeNothing ==
    /\ pc \in {"decode", "fast"} /\ (running = <<>> \/ rows = {})
    /\ running = <<>> \/ pc = "fast" \/ scheduled
    /\ pc' = "deliver"
    /\ UNCHANGED <<queueVars, uidVars, stallVars, reqVars, storeVars, stepVars, envVars>>

\* No response for any running request: those with output are finalized,
\* the others go back to the queue.
DecodeStale ==
    LET over == {r \in Range(running) : tokens[r] > 0}
    IN  /\ pc = "decode" /\ running # <<>> /\ rows = {} /\ ~scheduled
        /\ Reschedule(Range(running) \ over)
        /\ idOf' = Without(idOf, {uidOf[r] : r \in Range(running) \cap DOMAIN uidOf})
        /\ uidOf' = Without(uidOf, Range(running))
        /\ requests' = requests \ over
        /\ out' = out \cup over
        /\ pc' = "deliver"
        /\ UNCHANGED <<prefilling, rows, next_uid, lost, stallVars, chunks, corruptions,
                       overflowed, recovery, storeVars, cur, draining, scheduled,
                       batch_set, rejected, envVars>>

\* A cache corruption error: everything is reset and what runs is retried,
\* up to a limit.  Raised by a prefill it unwinds _schedule_waiting as well.
CacheCorruption ==
    LET again == {r \in Range(running) : corruptions[r] < MaxRetries}
    IN  /\ budget > 0 /\ budget' = budget - 1
        /\ \/ pc = "decode" /\ running # <<>> /\ May("corrupt")
           \/ pc = "prefill" /\ May("badcache")
        /\ corruptions' = [r \in Requests |-> IF r \in Range(running)
                                              THEN corruptions[r] + 1 ELSE corruptions[r]]
        /\ Reschedule(again)
        /\ ResetGenerator
        /\ uidOf' = <<>> /\ idOf' = <<>>
        /\ requests' = requests \ (Range(running) \ again)
        /\ out' = out \cup (Range(running) \ again)
        /\ rejected' = {} /\ cur' = NoRequest /\ batch_set' = FALSE /\ pc' = "deliver"
        /\ UNCHANGED <<prefilling, lost, stallVars, chunks, overflowed, recovery,
                       storeVars, draining, scheduled, client, aborted, pending_aborts, paused,
                       faults>>

\* The sampler overflows: one serial retry for everything that runs.
GenerationOverflow ==
    LET again == Range(running) \ overflowed
    IN  /\ pc \in {"decode", "fast"} /\ running # <<>> /\ May("overflow")
        /\ budget > 0 /\ budget' = budget - 1
        /\ waiting' = waiting \o Keep(running, again)
        /\ running' = <<>>
        /\ tokens' = [r \in Requests |-> IF r \in again THEN 0 ELSE tokens[r]]
        /\ overflowed' = overflowed \cup again
        /\ recovery' = (recovery \cup again) \ (Range(running) \ again)
        /\ ResetGenerator
        /\ idOf' = Without(idOf, {uidOf[r] : r \in Range(running) \cap DOMAIN uidOf})
        /\ uidOf' = Without(uidOf, Range(running))
        /\ requests' = requests \ (Range(running) \ again)
        /\ out' = out \cup (Range(running) \ again)
        /\ pc' = "deliver"
        /\ UNCHANGED <<prefilling, lost, stallVars, chunks, corruptions, storeVars, cur,
                       draining, scheduled, batch_set, rejected, client, aborted,
                       pending_aborts, paused, faults>>

\* Any other error of the forward pass leaves step().
DecodeRaises ==
    /\ pc \in {"decode", "fast"} /\ running # <<>> /\ May("crash")
    /\ budget > 0 /\ budget' = budget - 1
    /\ pc' = "failed"
    /\ UNCHANGED <<queueVars, uidVars, stallVars, reqVars, storeVars, stepVars, client,
                   aborted, pending_aborts, paused, faults>>

-----------------------------------------------------------------------------
(* The end of a step *)

\* The engine loop hands the outputs to the clients.
Deliver ==
    /\ pc = "deliver"
    /\ client' = [r \in Requests |-> IF r \in out THEN "closed" ELSE client[r]]
    /\ out' = {} /\ scheduled' = FALSE /\ pc' = "idle"
    /\ UNCHANGED <<queueVars, uidVars, stallVars, reqVars, storeVars, cur, draining,
                   batch_set, rejected, aborted, pending_aborts, paused, faults, budget>>

\* step() raised: fail_all_requests, and an error to every open client.
FailAllRequests ==
    LET failed == Range(running) \cup Range(prefilling) \cup Range(waiting)
                  \cup (requests \ storing)
    IN  /\ pc = "failed"
        /\ running' = <<>> /\ prefilling' = <<>> /\ waiting' = <<>>
        /\ requests' = requests \ failed
        /\ idOf' = Without(idOf, {uidOf[r] : r \in failed \cap DOMAIN uidOf})
        /\ uidOf' = Without(uidOf, failed)
        /\ ResetGenerator
        /\ client' = [r \in Requests |-> IF client[r] = "open" THEN "closed"
                                                               ELSE client[r]]
        /\ out' = {} /\ rejected' = {} /\ cur' = NoRequest
        /\ scheduled' = FALSE /\ batch_set' = FALSE /\ pc' = "idle"
        /\ UNCHANGED <<lost, stallVars, reqVars, storeVars, draining, aborted,
                       pending_aborts, paused, faults, budget>>

EngineThread ==
    \/ StepBegin
    \/ \E r \in Requests : DoAbortRequest(r)
    \/ DrainPendingAsyncRemoves
    \/ FinalizeRemove
    \/ AdvanceChunkedPrefills
    \/ ScheduleEnds
    \/ StoreGateStall
    \/ RemovesStall
    \/ MemoryReject
    \/ MemoryStall
    \/ AdmitHead
    \/ PrefillDone
    \/ PrefillFails
    \/ PrefillAborted
    \/ DecodeStep
    \/ DecodeNothing
    \/ DecodeStale
    \/ CacheCorruption
    \/ GenerationOverflow
    \/ DecodeRaises
    \/ Deliver
    \/ FailAllRequests

SchedNext ==
    \/ EngineThread
    \/ \E r \in Requests : AddRequest(r)
    \/ \E r \in Requests : AbortRequest(r)
    \/ StoreWorker
    \/ SetAdmissionPaused
    \/ Clock
    \/ RowVanishes

SchedSpec == SchedInit /\ [][SchedNext]_schedVars

\* The executor keeps running the step it was given and the loop keeps
\* stepping; the store worker and the clock go on.
FairSchedSpec ==
    /\ SchedSpec
    /\ WF_schedVars(EngineThread)
    /\ WF_schedVars(StoreWorker)
    /\ WF_schedVars(Clock)

-----------------------------------------------------------------------------
(* Properties *)

Homes(r) ==
    {h \in {<<"waiting", Range(waiting)>>, <<"prefilling", Range(prefilling)>>,
            <<"running", Range(running)>>, <<"cur", {cur}>>,
            <<"rejected", rejected>>, <<"out", out>>} : r \in h[2]}

\* A request whose client waits is in exactly one place: a queue, the
\* prefill under way, or the outputs of the step (step, _schedule_waiting,
\* _advance_chunked_prefills, _reschedule_running_requests).  A second place
\* would run it twice; no place would leave its client hanging.
Accounted ==
    pc # "failed" =>
        \A r \in Requests : client[r] = "open" => Cardinality(Homes(r)) = 1

\* The removal of a request takes nobody else's row or mapping
\* (_drain_pending_async_removes, _do_abort_request).
RowsKept == lost = {}

\* Both uid maps agree on every running request, whatever was reset, retried
\* or removed late, unless its row was removed for another request; and no
\* other row answers for it: a response without its mapping is dropped, and
\* one of a second row would be credited twice (_process_batch_responses).
UidsAgree ==
    \A r \in Range(running) :
        /\ r \in DOMAIN uidOf
        /\ r \notin lost => uidOf[r] \in DOMAIN idOf /\ idOf[uidOf[r]] = r
        /\ \A u \in rows \cap DOMAIN idOf : idOf[u] = r => u = uidOf[r]

\* Chunked prefills, inline prefills and running requests together stay
\* within max_num_seqs, also after a reset put requests back (#817).
CapRespected ==
    Len(running) + Len(prefilling) + Cardinality({cur} \cap Requests) <= MaxSeqs

\* A request that is retried after an overflow generates on its own (E-44).
RetryAlone ==
    \A r \in recovery \cap Range(running) : running = <<r>> /\ prefilling = <<>>

\* Once a client has aborted, no token is generated for it any more, even
\* if the abort comes in the middle of a step.
AbortSilences ==
    [][\A r \in aborted : tokens'[r] <= tokens[r]]_schedVars

\* The only running request, without a row in the generator: the pure-decode
\* path gets empty responses for it.
Rotting(r) == running = <<r>> /\ uidOf[r] \notin rows

\* Every request is answered, through every stall, reset and retry, unless
\* it rots alone on the pure-decode path.
RequestsAnswered ==
    \A r \in Requests : client[r] = "open" ~> (client[r] = "closed" \/ Rotting(r))

\* A finished request whose cache is being stored is let go in the end.
StoresSettle ==
    \A r \in Requests : r \in storing ~> r \notin requests

=============================================================================
