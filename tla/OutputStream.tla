---------------------------- MODULE OutputStream ----------------------------
(***************************************************************************)
(* One request's way from the engine loop to its client: the collector     *)
(* (fusion_mlx/output_collector.py), the engine's side that fills, fails,  *)
(* aborts and reaps it, and the consumer, stream_outputs or generate       *)
(* (fusion_mlx/engine_core.py).                                            *)
(*                                                                         *)
(* Everything runs on one asyncio loop, so a step is the code between two  *)
(* awaits. An output is a record of its position in the order of the puts  *)
(* (n), its tokens, the running total it reports, and whether it is        *)
(* terminal and an error. The merged output of aggregate mode is a queue   *)
(* of at most one element.                                                 *)
(***************************************************************************)
EXTENDS Integers, Sequences

CONSTANTS
    MaxLen,         \* _STREAM_DEQUE_MAXLEN
    Steps,          \* bound on the scheduler's outputs; the last is terminal
    TokenCounts,    \* how many tokens one output may carry
    Interval,       \* stream_interval
    MaxPuts         \* bound on the puts after which no abort-all comes

ASSUME StreamAssumption ==
    /\ MaxLen \in Nat \ {0}
    /\ Steps \in Nat \ {0}
    /\ TokenCounts \subseteq Nat
    /\ Interval \in Nat \ {0}
    /\ MaxPuts \in Nat

VARIABLES
    aggregate,  \* the collector serves generate(), not stream_outputs()
    queue,      \* _queue, or <<_merged>>
    puts,       \* puts the collector accepted
    ready,      \* the asyncio.Event
    closed,     \* _closed
    dropped,    \* _dropped_outputs
    tracked,    \* the request is in _active_contexts
    finished,   \* finished_event
    stamped,    \* the request is in _finished_at
    sched,      \* the request in the scheduler
    produced,   \* outputs of the scheduler so far
    total,      \* completion_tokens of the request
    sent,       \* stream_state.sent_tokens
    pc,         \* the consumer
    got,        \* what it yielded to the client
    fate,       \* how it ended
    cutoff      \* history: the reaper discarded outputs it had yet to take

collector == <<aggregate, queue, puts, ready, closed, dropped>>
engine    == <<tracked, finished, stamped, sched, produced, total, sent>>
consumer  == <<pc, got, fate, cutoff>>
streamVars == <<aggregate, queue, puts, ready, closed, dropped,
                tracked, finished, stamped, sched, produced, total, sent,
                pc, got, fate, cutoff>>

Output == [n : Nat, toks : Nat, total : Nat, fin : BOOLEAN, err : BOOLEAN]

StreamInit ==
    /\ aggregate \in BOOLEAN
    /\ queue = <<>> /\ puts = 0 /\ ready = FALSE /\ closed = FALSE
    /\ dropped = 0
    /\ tracked = TRUE /\ finished = FALSE /\ stamped = FALSE
    /\ sched = "running" /\ produced = 0 /\ total = 0 /\ sent = 0
    /\ pc = (IF aggregate THEN "await" ELSE "loop")
    /\ got = <<>> /\ fate = "none" /\ cutoff = FALSE

-----------------------------------------------------------------------------
(***************************************************************************)
(* The collector.                                                          *)
(***************************************************************************)

\* Mutant of Merge: the merged output keeps the older running total.
MergeKeepsTotal(old, new) == [new EXCEPT !.toks = old.toks + new.toks,
                                         !.total = old.total,
                                         !.err = new.err \/ old.err]

\* _accumulate: the newer output, with the tokens of both and a sticky error.
Merge(old, new) == [new EXCEPT !.toks = old.toks + new.toks,
                               !.err = new.err \/ old.err]

\* Mutant of NoteStreamDrop: the drop is not counted.
DropSilently == UNCHANGED dropped

\* _note_stream_drop; its count of tokens, which only the log sees, is left out.
NoteStreamDrop == dropped' = dropped + 1

\* Mutant of Accept: the collector is an unbounded list of outputs.
AcceptUnbounded(o) ==
    /\ puts'  = puts + 1
    /\ ready' = TRUE
    /\ queue' = Append(queue, o)
    /\ UNCHANGED <<aggregate, closed, dropped>>

Accept(o) ==
    /\ puts'  = puts + 1
    /\ ready' = TRUE
    /\ \/ /\ aggregate
          /\ queue' = (IF queue = <<>> THEN <<o>> ELSE <<Merge(queue[1], o)>>)
          /\ UNCHANGED dropped
       \/ /\ ~aggregate /\ Len(queue) < MaxLen
          /\ queue' = Append(queue, o)
          /\ UNCHANGED dropped
       \/ /\ ~aggregate /\ Len(queue) >= MaxLen
          /\ queue' = Append(Tail(queue), o)
          /\ NoteStreamDrop
    /\ UNCHANGED <<aggregate, closed>>

put(toks, tot, fin, err) ==
    IF closed THEN UNCHANGED collector
    ELSE Accept([n |-> puts + 1, toks |-> toks, total |-> tot, fin |-> fin,
                 err |-> err])

\* The terminal error outputs of the abort and failure paths.
PutError == put(0, 0, TRUE, TRUE)

Clear ==
    /\ closed' = TRUE
    /\ queue'  = <<>>
    /\ ready'  = TRUE
    /\ UNCHANGED <<aggregate, puts, dropped>>

-----------------------------------------------------------------------------
(***************************************************************************)
(* The engine loop and the calls that end a request.                       *)
(***************************************************************************)

\* should_send decides for aggregate collectors, unless stream_interval is 1.
ShouldSend(tot, fin) ==
    ~aggregate \/ Interval = 1 \/ fin \/ sent = 0 \/ tot - sent >= Interval

\* Mutant of MarkFinished: the finish is not stamped, so nothing is reaped.
MarkUnstamped ==
    /\ finished' = (tracked \/ finished)
    /\ UNCHANGED stamped

\* _mark_request_finished.
MarkFinished ==
    /\ stamped'  = TRUE
    /\ finished' = (tracked \/ finished)

\* One output of a scheduler step. An abort that is only queued does not stop
\* the step that is running.
Emit ==
    /\ sched \in {"running", "aborting"}
    /\ produced < Steps
    /\ \E toks \in TokenCounts :
          LET fin == produced + 1 = Steps
              tot == total + toks
              send == tracked /\ ShouldSend(tot, fin)
          IN  /\ produced' = produced + 1
              /\ total'    = tot
              /\ IF send THEN put(toks, tot, fin, FALSE) ELSE UNCHANGED collector
              /\ sent' = IF send /\ aggregate /\ Interval # 1 THEN tot ELSE sent
              /\ IF fin THEN MarkFinished ELSE UNCHANGED <<stamped, finished>>
              /\ sched' = IF fin THEN "gone" ELSE sched
    /\ UNCHANGED <<tracked, consumer>>

\* _process_pending_aborts at the start of the next step.
SchedulerAborts ==
    /\ sched = "aborting"
    /\ sched' = "gone"
    /\ UNCHANGED <<collector, tracked, finished, stamped, produced, total, sent,
                   consumer>>

Aborting == IF sched = "running" THEN "aborting" ELSE sched

\* Mutant of AbortRequest: no terminal output is put.
AbortSilently ==
    /\ tracked
    /\ IF finished THEN UNCHANGED <<finished, stamped>> ELSE MarkFinished
    /\ sched' = Aborting
    /\ UNCHANGED <<collector, tracked, produced, total, sent, consumer>>

\* abort_request: the terminal output only if the request has not finished.
AbortRequest ==
    /\ tracked
    /\ IF finished THEN UNCHANGED <<collector, finished, stamped>>
                   ELSE PutError /\ MarkFinished
    /\ sched' = Aborting
    /\ UNCHANGED <<tracked, produced, total, sent, consumer>>

\* abort_all_requests, under memory pressure: the same without the test.
AbortAll ==
    /\ tracked
    /\ puts < MaxPuts
    /\ PutError
    /\ MarkFinished
    /\ sched' = Aborting
    /\ UNCHANGED <<tracked, produced, total, sent, consumer>>

\* The engine loop fails: fail_all_requests, then _fail_unfinished_contexts.
FailAll ==
    /\ tracked
    /\ sched # "gone" \/ ~finished
    /\ PutError
    /\ MarkFinished
    /\ sched' = "gone"
    /\ UNCHANGED <<tracked, produced, total, sent, consumer>>

\* _reap_orphaned_collectors, the grace period after the finish being over. The
\* collector is cleared whether its consumer has left or is only slow.
Reap ==
    /\ stamped
    /\ IF tracked THEN Clear ELSE UNCHANGED collector
    /\ cutoff' = (cutoff \/ (tracked /\ pc # "ended" /\ queue # <<>>))
    /\ tracked' = FALSE
    /\ stamped' = FALSE
    /\ UNCHANGED <<finished, sched, produced, total, sent, pc, got, fate>>

-----------------------------------------------------------------------------
(***************************************************************************)
(* The consumer.                                                           *)
(***************************************************************************)

\* Mutant of Take: the event stays set when the last output is taken.
TakeStaysReady ==
    /\ queue # <<>>
    /\ queue' = Tail(queue)
    /\ got'   = Append(got, [out |-> Head(queue), dropped |-> dropped])
    /\ UNCHANGED <<aggregate, puts, ready, closed, dropped>>

\* get_nowait, when there is an output: it carries the drops so far.
Take ==
    /\ queue # <<>>
    /\ queue' = Tail(queue)
    /\ ready' = (Tail(queue) # <<>> /\ ready)
    /\ got'   = Append(got, [out |-> Head(queue), dropped |-> dropped])
    /\ UNCHANGED <<aggregate, puts, closed, dropped>>

\* The finally block of stream_outputs: a request that has not finished is
\* aborted and forgotten, any other is cleaned up.
Leave(how) ==
    /\ pc'   = "ended"
    /\ fate' = how
    /\ IF tracked /\ ~finished
         THEN /\ PutError
              /\ finished' = TRUE
              /\ sched' = Aborting
         ELSE /\ IF tracked THEN Clear ELSE UNCHANGED collector
              /\ UNCHANGED <<finished, sched>>
    /\ tracked' = FALSE
    /\ stamped' = FALSE
    /\ UNCHANGED <<produced, total, sent, got, cutoff>>

\* The top of the loop: get_nowait, and on None a task for get().
Poll ==
    /\ pc = "loop"
    /\ \/ Take /\ pc' = "yield"
       \/ /\ queue = <<>>
          /\ ready' = FALSE
          /\ pc' = "get"
          /\ UNCHANGED <<aggregate, queue, puts, closed, dropped, got>>
    /\ UNCHANGED <<engine, fate, cutoff>>

\* get(), from its start or from a wait that the event has ended.
Awake == pc = "get" \/ (pc = "wait" /\ ready)

GetOutput ==
    /\ Awake /\ ~closed
    /\ Take
    /\ pc' = "yield"
    /\ UNCHANGED <<engine, fate, cutoff>>

GetWait ==
    /\ pc = "get" /\ ~closed /\ queue = <<>>
    /\ pc' = "wait"
    /\ UNCHANGED <<collector, engine, got, fate, cutoff>>

GetClosed == Awake /\ closed /\ Leave("closed")

\* The heartbeat timeout cancels get() and yields a keepalive.
Heartbeat ==
    /\ pc = "wait" /\ ~ready
    /\ pc' = "loop"
    /\ UNCHANGED <<collector, engine, got, fate, cutoff>>

\* The client has taken the output that was yielded.
Resume ==
    /\ pc = "yield"
    /\ LET o == got[Len(got)].out
       IN  \/ o.err /\ Leave("error")
           \/ ~o.err /\ o.fin /\ Leave("finished")
           \/ /\ ~o.err /\ ~o.fin
              /\ pc' = "loop"
              /\ UNCHANGED <<collector, engine, got, fate, cutoff>>

\* The client disconnects.
Disconnect == pc \in {"yield", "wait"} /\ Leave("left")

\* generate: wait for finished_event, drain the collector, clean up.
Drain ==
    /\ pc = "await" /\ finished
    /\ pc' = "ended"
    /\ IF queue = <<>> THEN /\ fate' = "closed"
                            /\ UNCHANGED got
       ELSE /\ got'  = Append(got, [out |-> queue[1], dropped |-> dropped])
            /\ fate' = (IF queue[1].err THEN "error" ELSE "finished")
    /\ IF tracked THEN Clear
       ELSE /\ queue' = <<>>
            /\ ready' = (ready /\ queue = <<>>)
            /\ UNCHANGED <<aggregate, puts, closed, dropped>>
    /\ tracked' = FALSE
    /\ stamped' = FALSE
    /\ UNCHANGED <<finished, sched, produced, total, sent, cutoff>>

\* generate is cancelled, or its watchdog gives up: abort and clean up.
GiveUp ==
    /\ pc = "await"
    /\ pc' = "ended"
    /\ fate' = "left"
    /\ IF tracked THEN /\ Clear
                       /\ finished' = TRUE
                       /\ sched' = Aborting
       ELSE UNCHANGED <<collector, finished, sched>>
    /\ tracked' = FALSE
    /\ stamped' = FALSE
    /\ UNCHANGED <<produced, total, sent, got, cutoff>>

Engine == Emit \/ SchedulerAborts
Consumer == Poll \/ GetOutput \/ GetWait \/ GetClosed \/ Resume \/ Drain

StreamNext ==
    \/ Engine \/ AbortRequest \/ AbortAll \/ FailAll \/ Reap
    \/ Consumer \/ Heartbeat \/ Disconnect \/ GiveUp

StreamSpec == StreamInit /\ [][StreamNext]_streamVars

\* The engine loop keeps stepping, and reaping between its steps, and the event
\* loop keeps running the consumer's task when it can run.
FairStreamSpec ==
    /\ StreamSpec
    /\ WF_streamVars(Engine)
    /\ WF_streamVars(Consumer)
    /\ WF_streamVars(Reap)

-----------------------------------------------------------------------------
(***************************************************************************)
(* Properties.                                                             *)
(***************************************************************************)

\* Types, and the collector's bound: a merged output, or MaxLen queued ones.
StreamTypeOK ==
    /\ aggregate \in BOOLEAN /\ queue \in Seq(Output) /\ puts \in Nat
    /\ Len(queue) <= (IF aggregate THEN 1 ELSE MaxLen)
    /\ ready \in BOOLEAN /\ closed \in BOOLEAN
    /\ dropped \in Nat
    /\ tracked \in BOOLEAN /\ finished \in BOOLEAN /\ stamped \in BOOLEAN
    /\ sched \in {"running", "aborting", "gone"}
    /\ produced \in 0..Steps /\ total \in Nat /\ sent \in Nat
    /\ pc \in {"loop", "get", "wait", "yield", "await", "ended"}
    /\ got \in Seq([out : Output, dropped : Nat])
    /\ fate \in {"none", "finished", "error", "closed", "left"}
    /\ cutoff \in BOOLEAN

\* The event tells exactly whether there is something to take: a consumer never
\* sleeps on a filled collector, and get() never spins on an empty one with the
\* event set, which would stop the whole event loop.
WakeupExact ==
    /\ ~closed => ready = (queue # <<>>)
    /\ pc = "wait" /\ closed => ready

\* Loss is visible to the client: the k-th output it gets is the (k+d)-th of the
\* stream, d being the number of drops the output itself reports.
LossReported ==
    ~aggregate => \A k \in DOMAIN got : got[k].out.n = k + got[k].dropped

\* A stream never just stops: a consumer whose client stays ends with a terminal
\* output, unless the deque dropped some or the reaper cleared a collector that
\* was not empty. A reaper that comes before the end of a slow delivery, but
\* finds nothing queued, takes nothing from it.
NoSilentTruncation ==
    pc = "ended" /\ fate # "left" /\ dropped = 0 /\ ~cutoff =>
        got # <<>> /\ (got[Len(got)].out.fin \/ got[Len(got)].out.err)

\* The final answer of generate counts every token the scheduler produced, with
\* whatever stream_interval the outputs in between were thinned out.
FinalCountComplete ==
    aggregate /\ fate = "finished" => got[Len(got)].out.total = total

\* Every consumer comes to an end, whichever way the request does.
ConsumerEnds == <>(pc = "ended")

=============================================================================
