------------------------ MODULE OutputStreamProofs --------------------------
(***************************************************************************)
(* The collector and the two kinds of consumer are correct for every       *)
(* length of the deque, number of outputs, token counts and interval.      *)
(***************************************************************************)
EXTENDS OutputStream, SequenceTheorems, TLAPS

Terminal(o) == o.fin \/ o.err

\* generate waits for the finish; stream_outputs never does.
Modes ==
    /\ aggregate => pc \in {"await", "ended"}
    /\ ~aggregate => pc # "await"
    /\ pc = "yield" => got # <<>>

\* A closed collector is empty, and one that is open belongs to a request that
\* the engine knows for as long as the consumer is there.
OpenTracked ==
    /\ closed => queue = <<>>
    /\ ~closed /\ pc # "ended" => tracked

\* What is queued follows on what was taken and what was dropped.
Contiguous ==
    ~aggregate =>
        /\ \A i \in DOMAIN queue : queue[i].n = Len(got) + dropped + i
        /\ ~closed => puts = Len(got) + dropped + Len(queue)

\* The merged output of a finished request is an error or the whole answer.
AnswerReady ==
    aggregate /\ pc = "await" /\ ~closed /\ (finished \/ stamped) =>
        /\ queue # <<>>
        /\ \/ queue[1].err
           \/ queue[1].fin /\ produced = Steps /\ queue[1].total = total

\* An answer that was given out was complete, and stays so.
AnswerComplete ==
    aggregate /\ fate = "finished" =>
        produced = Steps /\ got[Len(got)].out.total = total

\* The end of a finished stream is queued or is being delivered.
EndAhead ==
    ~aggregate /\ stamped /\ ~closed /\ pc # "ended" /\ dropped = 0 =>
        \/ \E i \in DOMAIN queue : Terminal(queue[i])
        \/ pc = "yield" /\ Terminal(got[Len(got)].out)

\* A collector that was closed on a consumer that is still there had been
\* emptied of everything but losses: the end is what is being delivered.
ClosedAtEnd ==
    /\ closed /\ pc # "ended" /\ dropped = 0 /\ ~cutoff =>
          pc = "yield" /\ Terminal(got[Len(got)].out)
    /\ NoSilentTruncation

\* The inductive invariant.
StreamInv ==
    /\ StreamTypeOK
    /\ Modes
    /\ OpenTracked
    /\ WakeupExact
    /\ Contiguous
    /\ LossReported
    /\ AnswerReady
    /\ AnswerComplete
    /\ EndAhead
    /\ ClosedAtEnd

USE StreamAssumption

-----------------------------------------------------------------------------
LEMMA NonEmpty ==
    ASSUME NEW S, NEW s \in Seq(S)
    PROVE  s # <<>> <=> Len(s) > 0
OBVIOUS

LEMMA EmptyFits ==
    ASSUME NEW q, q = <<>>, NEW a \in BOOLEAN
    PROVE  /\ q \in Seq(Output) /\ DOMAIN q = {}
           /\ Len(q) = 0 /\ Len(q) <= (IF a THEN 1 ELSE MaxLen)
<1>1. <<>> \in Seq(Output) /\ Len(<<>>) = 0 /\ DOMAIN <<>> = {}
  OBVIOUS
<1>2. 0 <= (IF a THEN 1 ELSE MaxLen)
  OBVIOUS
<1> QED BY <1>1, <1>2

\* What an accepted output does to a streaming collector: it is queued last,
\* the oldest output making room for it when the deque is full.
LEMMA AcceptStream ==
    ASSUME StreamTypeOK, Contiguous, ~closed, ~aggregate,
           NEW o \in Output, o.n = puts + 1, Accept(o)
    PROVE  /\ queue' \in Seq(Output) /\ queue' # <<>> /\ Len(queue') <= MaxLen
           /\ dropped' \in Nat /\ dropped' >= dropped
           /\ \A i \in DOMAIN queue' : queue'[i].n = Len(got) + dropped' + i
           /\ puts' = Len(got) + dropped' + Len(queue')
           /\ dropped' = 0 => queue' = Append(queue, o)
<1> USE DEF StreamTypeOK, Contiguous
<1>1. /\ queue \in Seq(Output) /\ Len(queue) \in Nat /\ Len(got) \in Nat
      /\ dropped \in Nat /\ puts \in Nat /\ Len(queue) <= MaxLen
      /\ puts' = puts + 1 /\ puts = Len(got) + dropped + Len(queue)
  BY DEF Accept
<1>2. CASE Len(queue) < MaxLen /\ queue' = Append(queue, o) /\ UNCHANGED dropped
  <2>1. /\ queue' \in Seq(Output) /\ Len(queue') = Len(queue) + 1
        /\ DOMAIN queue' = 1..(Len(queue) + 1) /\ DOMAIN queue = 1..Len(queue)
        /\ \A i \in 1..Len(queue) : queue'[i] = queue[i]
        /\ queue'[Len(queue) + 1] = o
    BY <1>1, <1>2
  <2>2. \A i \in DOMAIN queue' : queue'[i].n = Len(got) + dropped' + i
    <3> SUFFICES ASSUME NEW i \in DOMAIN queue'
                 PROVE  queue'[i].n = Len(got) + dropped' + i
      OBVIOUS
    <3>1. CASE i = Len(queue) + 1
      BY <1>1, <1>2, <2>1, <3>1
    <3>2. CASE i \in 1..Len(queue)
      BY <1>1, <1>2, <2>1, <3>2
    <3> QED BY <1>1, <2>1, <3>1, <3>2
  <2> QED BY <1>1, <1>2, <2>1, <2>2, NonEmpty
<1>3. CASE /\ Len(queue) >= MaxLen /\ queue' = Append(Tail(queue), o)
           /\ dropped' = dropped + 1
  <2>1. Len(queue) = MaxLen /\ queue # <<>>
    BY <1>1, <1>3
  <2>2. /\ Tail(queue) \in Seq(Output) /\ Len(Tail(queue)) = Len(queue) - 1
        /\ \A i \in 1..Len(queue) - 1 : Tail(queue)[i] = queue[i + 1]
    BY <1>1, <2>1
  <2>3. /\ queue' \in Seq(Output) /\ Len(queue') = Len(queue)
        /\ DOMAIN queue' = 1..Len(queue) /\ DOMAIN queue = 1..Len(queue)
        /\ \A i \in 1..Len(queue) - 1 : queue'[i] = queue[i + 1]
        /\ queue'[Len(queue)] = o
    BY <1>1, <1>3, <2>1, <2>2
  <2>4. \A i \in DOMAIN queue' : queue'[i].n = Len(got) + dropped' + i
    <3> SUFFICES ASSUME NEW i \in DOMAIN queue'
                 PROVE  queue'[i].n = Len(got) + dropped' + i
      OBVIOUS
    <3>1. CASE i = Len(queue)
      BY <1>1, <1>3, <2>3, <3>1
    <3>2. CASE i \in 1..Len(queue) - 1
      <4>1. i + 1 \in DOMAIN queue
        BY <1>1, <2>3, <3>2
      <4>2. queue[i + 1].n = Len(got) + dropped + (i + 1)
        BY <4>1
      <4> QED BY <1>1, <1>3, <2>3, <3>2, <4>2
    <3> QED BY <1>1, <2>3, <3>1, <3>2
  <2>5. queue' # <<>> /\ Len(queue') <= MaxLen
    BY <1>1, <2>1, <2>3, NonEmpty
  <2>6. dropped' \in Nat /\ dropped' >= dropped /\ dropped' # 0
    BY <1>1, <1>3
  <2>7. puts' = Len(got) + dropped' + Len(queue')
    BY <1>1, <1>3, <2>3
  <2> QED BY <2>3, <2>4, <2>5, <2>6, <2>7
<1> QED BY <1>2, <1>3 DEF Accept, NoteStreamDrop

\* What it does to a merging one: the merged output is the new one, with the
\* tokens of both and the error of either.
LEMMA AcceptMerge ==
    ASSUME StreamTypeOK, ~closed, aggregate, NEW o \in Output, Accept(o)
    PROVE  /\ queue' \in Seq(Output) /\ queue' # <<>> /\ Len(queue') <= 1
           /\ dropped' = dropped
           /\ o.fin => queue'[1].fin
           /\ queue'[1].total = o.total
           /\ o.err \/ (queue # <<>> /\ queue[1].err) => queue'[1].err
<1>1. queue \in Seq(Output) /\ dropped' = dropped
  BY DEF Accept, StreamTypeOK
<1>2. CASE queue = <<>>
  <2>1. queue' = <<o>>
    BY <1>2 DEF Accept
  <2>2. <<o>> \in Seq(Output) /\ Len(<<o>>) = 1 /\ <<o>>[1] = o
    OBVIOUS
  <2> QED BY <1>1, <1>2, <2>1, <2>2, NonEmpty
<1>3. CASE queue # <<>>
  <2> DEFINE m == Merge(queue[1], o)
  <2>1. queue' = <<m>>
    BY <1>3 DEF Accept
  <2>2. queue[1] \in Output
    BY <1>1, <1>3
  <2>3. m \in Output /\ m.total = o.total
    <3> DEFINE e == o.err \/ queue[1].err
    <3>1. e \in BOOLEAN
      OBVIOUS
    <3>2. m = [o EXCEPT !.toks = queue[1].toks + o.toks, !.err = e]
      BY DEF Merge
    <3> HIDE DEF e, m
    <3>3. queue[1].toks + o.toks \in Nat
      BY <2>2 DEF Output
    <3>4. m = [n |-> o.n, toks |-> queue[1].toks + o.toks, total |-> o.total,
               fin |-> o.fin, err |-> e]
      BY <3>2 DEF Output
    <3>5. o.n \in Nat /\ o.total \in Nat /\ o.fin \in BOOLEAN
      BY DEF Output
    <3> QED BY <3>1, <3>3, <3>4, <3>5 DEF Output
  <2>4. (o.fin => m.fin) /\ (o.err \/ queue[1].err => m.err)
    BY <2>2 DEF Merge, Output
  <2> HIDE DEF m
  <2>5. <<m>> \in Seq(Output) /\ Len(<<m>>) = 1 /\ <<m>>[1] = m
    BY <2>3
  <2> QED BY <1>1, <1>3, <2>1, <2>3, <2>4, <2>5, NonEmpty
<1> QED BY <1>2, <1>3

-----------------------------------------------------------------------------
HasTerminal(q) == \E i \in DOMAIN q : Terminal(q[i])

\* What a put does, to an open collector and to a closed one.
PutFacts(tot, fin, err) ==
    /\ aggregate' = aggregate /\ closed' = closed
    /\ queue' \in Seq(Output) /\ Len(queue') <= (IF aggregate THEN 1 ELSE MaxLen)
    /\ puts' \in Nat /\ ready' \in BOOLEAN
    /\ dropped' \in Nat /\ dropped' >= dropped
    /\ closed => queue' = queue /\ ready' = ready /\ dropped' = dropped
    /\ ~closed => ready' /\ queue' # <<>>
    /\ ~aggregate =>
          /\ \A i \in DOMAIN queue' : queue'[i].n = Len(got) + dropped' + i
          /\ ~closed => puts' = Len(got) + dropped' + Len(queue')
    /\ aggregate /\ ~closed =>
          /\ queue'[1].total = tot
          /\ fin => queue'[1].fin
          /\ err \/ (queue # <<>> /\ queue[1].err) => queue'[1].err
    /\ ~aggregate /\ ~closed /\ dropped' = 0 =>
          (fin \/ err \/ HasTerminal(queue) => HasTerminal(queue'))

LEMMA PutEffect ==
    ASSUME StreamInv, NEW toks \in Nat, NEW tot \in Nat, NEW fin \in BOOLEAN,
           NEW err \in BOOLEAN, put(toks, tot, fin, err)
    PROVE  PutFacts(tot, fin, err)
<1> USE DEF StreamInv
<1>1. CASE closed
  <2>1. UNCHANGED collector
    BY <1>1 DEF put
  <2> QED BY <1>1, <2>1 DEF collector, PutFacts, StreamTypeOK, Contiguous
<1>2. CASE ~closed
  <2> DEFINE o == [n |-> puts + 1, toks |-> toks, total |-> tot, fin |-> fin, err |-> err]
  <2>1. puts \in Nat
    BY DEF StreamTypeOK
  <2>2. o \in Output /\ o.n = puts + 1 /\ o.total = tot
    BY <2>1 DEF Output
  <2>3. (o.fin <=> fin) /\ (o.err <=> err)
    OBVIOUS
  <2>4. Accept(o)
    BY <1>2 DEF put
  <2> HIDE DEF o
  <2>5. /\ aggregate' = aggregate /\ closed' = closed /\ ready' = TRUE
        /\ puts' = puts + 1 /\ puts' \in Nat
    BY <2>1, <2>4 DEF Accept
  <2>6. CASE aggregate
    <3>1. /\ queue' \in Seq(Output) /\ queue' # <<>> /\ Len(queue') <= 1
          /\ dropped' = dropped
          /\ o.fin => queue'[1].fin
          /\ queue'[1].total = o.total
          /\ o.err \/ (queue # <<>> /\ queue[1].err) => queue'[1].err
      BY <1>2, <2>2, <2>4, <2>6, AcceptMerge
    <3>2. dropped \in Nat
      BY DEF StreamTypeOK
    <3>3. /\ fin => queue'[1].fin
          /\ err \/ (queue # <<>> /\ queue[1].err) => queue'[1].err
      BY <2>3, <3>1
    <3>4. queue'[1].total = tot
      BY <2>2, <3>1
    <3>5. dropped' \in Nat /\ dropped' >= dropped
      BY <3>1, <3>2
    <3> QED BY <1>2, <2>5, <2>6, <3>1, <3>3, <3>4, <3>5 DEF PutFacts
  <2>7. CASE ~aggregate
    <3>1. /\ queue' \in Seq(Output) /\ queue' # <<>> /\ Len(queue') <= MaxLen
          /\ dropped' \in Nat /\ dropped' >= dropped
          /\ \A i \in DOMAIN queue' : queue'[i].n = Len(got) + dropped' + i
          /\ puts' = Len(got) + dropped' + Len(queue')
          /\ dropped' = 0 => queue' = Append(queue, o)
      BY <1>2, <2>2, <2>4, <2>7, AcceptStream
    <3>2. ASSUME dropped' = 0, fin \/ err \/ HasTerminal(queue)
          PROVE  HasTerminal(queue')
      <4>1. queue \in Seq(Output) /\ queue' = Append(queue, o)
        BY <3>1, <3>2 DEF StreamTypeOK
      <4>2. /\ DOMAIN queue' = 1..(Len(queue) + 1) /\ Len(queue) \in Nat
            /\ DOMAIN queue = 1..Len(queue)
            /\ queue'[Len(queue) + 1] = o
            /\ \A i \in 1..Len(queue) : queue'[i] = queue[i]
        BY <2>2, <4>1
      <4>3. CASE fin \/ err
        <5>1. Terminal(queue'[Len(queue) + 1])
          BY <2>3, <4>2, <4>3 DEF Terminal
        <5>2. Len(queue) + 1 \in DOMAIN queue'
          BY <4>2
        <5> QED BY <5>1, <5>2 DEF HasTerminal
      <4>4. CASE HasTerminal(queue)
        <5>1. PICK i \in DOMAIN queue : Terminal(queue[i])
          BY <4>4 DEF HasTerminal
        <5>2. i \in DOMAIN queue' /\ queue'[i] = queue[i]
          BY <4>2
        <5> QED BY <5>1, <5>2 DEF HasTerminal
      <4> QED BY <3>2, <4>3, <4>4
    <3> QED BY <1>2, <2>5, <2>7, <3>1, <3>2 DEF PutFacts
  <2> QED BY <2>6, <2>7
<1> QED BY <1>1, <1>2

\* A step of the engine's side that at most puts an output and moves on: the
\* consumer stands still, and a request is marked finished only with a terminal
\* output in an open collector.
EngineMoves(tot, fin, err) ==
    /\ PutFacts(tot, fin, err)
    /\ UNCHANGED <<tracked, pc, got, fate, cutoff>>
    /\ finished' \in BOOLEAN /\ stamped' \in BOOLEAN
    /\ sched' \in {"running", "aborting", "gone"}
    /\ produced' \in 0..Steps /\ total' \in Nat /\ sent' \in Nat
    /\ finished' /\ ~finished /\ tracked => err \/ (fin /\ produced' = Steps /\ total' = tot)
    /\ stamped' /\ ~stamped /\ tracked => finished' /\ (fin \/ err)
    /\ \/ produced' = produced /\ total' = total
       \/ produced < Steps
    /\ (finished \/ stamped) /\ tracked /\ ~err => produced' < Steps \/ (fin /\ total' = tot)

LEMMA EngineMovesKeep ==
    ASSUME StreamInv, NEW tot \in Nat, NEW fin \in BOOLEAN, NEW err \in BOOLEAN,
           EngineMoves(tot, fin, err)
    PROVE  StreamInv'
<1> USE DEF StreamInv, EngineMoves
<1>1. PutFacts(tot, fin, err)
  OBVIOUS
<1>2. StreamTypeOK'
  BY <1>1 DEF PutFacts, StreamTypeOK
<1>3. Modes'
  BY <1>1 DEF PutFacts, Modes
<1>4. OpenTracked'
  BY <1>1 DEF PutFacts, OpenTracked
<1>5. WakeupExact'
  BY <1>1 DEF PutFacts, WakeupExact, StreamTypeOK
<1>6. Contiguous'
  BY <1>1 DEF PutFacts, Contiguous
<1>7. LossReported'
  BY <1>1 DEF PutFacts, LossReported
<1>8. AnswerReady'
  BY <1>1 DEF PutFacts, AnswerReady, OpenTracked, StreamTypeOK
<1>9. AnswerComplete'
  BY <1>1 DEF PutFacts, AnswerComplete, StreamTypeOK
<1>10. EndAhead'
  BY <1>1 DEF PutFacts, EndAhead, HasTerminal, OpenTracked, StreamTypeOK
<1>11. ClosedAtEnd'
  BY <1>1 DEF PutFacts, ClosedAtEnd, NoSilentTruncation, StreamTypeOK
<1> QED BY <1>2, <1>3, <1>4, <1>5, <1>6, <1>7, <1>8, <1>9, <1>10, <1>11

\* A step of the engine's side that puts nothing.
EngineQuiet ==
    /\ UNCHANGED <<collector, tracked, pc, got, fate, cutoff>>
    /\ finished' \in BOOLEAN /\ stamped' \in BOOLEAN
    /\ sched' \in {"running", "aborting", "gone"}
    /\ produced' \in 0..Steps /\ total' \in Nat /\ sent' \in Nat
    /\ tracked => finished' = finished /\ stamped' = stamped
    /\ \/ produced' = produced /\ total' = total
       \/ produced < Steps

LEMMA EngineQuietKeeps ==
    ASSUME StreamInv, EngineQuiet
    PROVE  StreamInv'
<1> USE DEF StreamInv, EngineQuiet, collector
<1>1. StreamTypeOK'
  BY DEF StreamTypeOK
<1>2. Modes' /\ OpenTracked' /\ WakeupExact' /\ Contiguous' /\ LossReported'
  BY DEF Modes, OpenTracked, WakeupExact, Contiguous, LossReported
<1>3. AnswerReady'
  <2>1. ASSUME aggregate, pc = "await", ~closed, finished' \/ stamped'
        PROVE  finished \/ stamped
    BY <2>1 DEF OpenTracked, StreamTypeOK
  <2>2. produced = Steps => produced' = produced /\ total' = total
    OBVIOUS
  <2> QED BY <2>1, <2>2 DEF AnswerReady
<1>4. AnswerComplete'
  BY DEF AnswerComplete, StreamTypeOK
<1>5. EndAhead'
  BY DEF EndAhead, OpenTracked
<1>6. ClosedAtEnd'
  BY DEF ClosedAtEnd, NoSilentTruncation
<1> QED BY <1>1, <1>2, <1>3, <1>4, <1>5, <1>6

-----------------------------------------------------------------------------
LEMMA EmitKeeps ==
    ASSUME StreamInv, Emit
    PROVE  StreamInv'
<1> USE DEF StreamInv
<1>1. PICK toks \in TokenCounts :
         LET fin == produced + 1 = Steps
             tot == total + toks
             send == tracked /\ ShouldSend(tot, fin)
         IN  /\ produced' = produced + 1
             /\ total'    = tot
             /\ IF send THEN put(toks, tot, fin, FALSE) ELSE UNCHANGED collector
             /\ sent' = IF send /\ aggregate /\ Interval # 1 THEN tot ELSE sent
             /\ IF fin THEN MarkFinished ELSE UNCHANGED <<stamped, finished>>
             /\ sched' = IF fin THEN "gone" ELSE sched
  BY DEF Emit
<1> DEFINE fin == produced + 1 = Steps
           tot == total + toks
           send == tracked /\ ShouldSend(tot, fin)
<1>2. /\ produced' = produced + 1 /\ total' = tot
      /\ IF send THEN put(toks, tot, fin, FALSE) ELSE UNCHANGED collector
      /\ sent' = (IF send /\ aggregate /\ Interval # 1 THEN tot ELSE sent)
      /\ IF fin THEN MarkFinished ELSE UNCHANGED <<stamped, finished>>
      /\ sched' = (IF fin THEN "gone" ELSE sched)
  BY <1>1
<1>3. /\ toks \in Nat /\ tot \in Nat /\ fin \in BOOLEAN /\ produced \in Nat
      /\ produced < Steps /\ UNCHANGED <<tracked, pc, got, fate, cutoff>>
  BY DEF Emit, StreamTypeOK, consumer
<1>4. /\ produced' \in 0..Steps /\ total' \in Nat /\ sent' \in Nat
      /\ sched' \in {"running", "aborting", "gone"}
      /\ finished' \in BOOLEAN /\ stamped' \in BOOLEAN
      /\ ~fin => finished' = finished /\ stamped' = stamped
      /\ fin /\ tracked => finished'
  <2>1. /\ produced' \in 0..Steps /\ total' \in Nat /\ sent' \in Nat
        /\ sched' \in {"running", "aborting", "gone"}
    BY <1>2, <1>3 DEF StreamTypeOK
  <2>2. /\ finished' \in BOOLEAN /\ stamped' \in BOOLEAN
        /\ fin /\ tracked => finished'
    BY <1>2 DEF MarkFinished, StreamTypeOK
  <2> QED BY <1>2, <2>1, <2>2
<1>5. (fin => produced' = Steps) /\ (~fin => produced' < Steps)
  BY <1>2, <1>3
<1>6. fin => ShouldSend(tot, fin)
  BY DEF ShouldSend
<1>7. CASE send
  <2>1. PutFacts(tot, fin, FALSE)
    <3>1. put(toks, tot, fin, FALSE)
      BY <1>2, <1>7
    <3> QED BY <1>3, <3>1, PutEffect
  <2>2. EngineMoves(tot, fin, FALSE)
    <3> HIDE DEF fin, tot, send
    <3> QED BY <1>2, <1>3, <1>4, <1>5, <2>1 DEF EngineMoves
  <2> QED BY <1>3, <2>2, EngineMovesKeep
<1>8. CASE ~send
  <2>1. tracked => ~fin
    BY <1>6, <1>8
  <2>2. EngineQuiet
    <3> HIDE DEF fin, tot
    <3> QED BY <1>2, <1>3, <1>4, <1>8, <2>1 DEF EngineQuiet
  <2> QED BY <2>2, EngineQuietKeeps
<1> QED BY <1>7, <1>8

LEMMA SchedulerAbortsKeeps ==
    ASSUME StreamInv, SchedulerAborts
    PROVE  StreamInv'
<1>1. EngineQuiet
  BY DEF StreamInv, StreamTypeOK, SchedulerAborts, EngineQuiet, collector, consumer
<1> QED BY <1>1, EngineQuietKeeps

\* The terminal error of an abort or a failure, with the finish.
LEMMA ErrorKeeps ==
    ASSUME StreamInv, PutError, MarkFinished,
           sched' \in {"running", "aborting", "gone"},
           UNCHANGED <<tracked, produced, total, sent, consumer>>
    PROVE  StreamInv'
<1> USE DEF StreamInv
<1>1. PutFacts(0, TRUE, TRUE)
  BY PutEffect DEF PutError
<1>2. /\ finished' \in BOOLEAN /\ stamped' \in BOOLEAN
      /\ tracked => finished'
  BY DEF MarkFinished, StreamTypeOK
<1>3. EngineMoves(0, TRUE, TRUE)
  BY <1>1, <1>2 DEF EngineMoves, StreamTypeOK, consumer
<1> QED BY <1>3, EngineMovesKeep

LEMMA AbortRequestKeeps ==
    ASSUME StreamInv, AbortRequest
    PROVE  StreamInv'
<1>1. sched' \in {"running", "aborting", "gone"}
  BY DEF StreamInv, StreamTypeOK, AbortRequest, Aborting
<1>2. CASE finished
  <2>1. EngineQuiet
    BY <1>1, <1>2 DEF StreamInv, StreamTypeOK, AbortRequest, EngineQuiet, consumer
  <2> QED BY <2>1, EngineQuietKeeps
<1>3. CASE ~finished
  BY <1>1, <1>3, ErrorKeeps DEF AbortRequest
<1> QED BY <1>2, <1>3

LEMMA AbortAllKeeps ==
    ASSUME StreamInv, AbortAll
    PROVE  StreamInv'
<1>1. sched' \in {"running", "aborting", "gone"}
  BY DEF StreamInv, StreamTypeOK, AbortAll, Aborting
<1> QED BY <1>1, ErrorKeeps DEF AbortAll

LEMMA FailAllKeeps ==
    ASSUME StreamInv, FailAll
    PROVE  StreamInv'
BY ErrorKeeps DEF FailAll

-----------------------------------------------------------------------------
\* A collector that is cleared, or left alone, and a request that is forgotten.
LEMMA ReapKeeps ==
    ASSUME StreamInv, Reap
    PROVE  StreamInv'
<1> USE DEF StreamInv
<1>1. /\ stamped /\ stamped' = FALSE /\ tracked' = FALSE
      /\ cutoff' = (cutoff \/ (tracked /\ pc # "ended" /\ queue # <<>>))
      /\ UNCHANGED <<finished, sched, produced, total, sent, pc, got, fate,
                     aggregate, puts, dropped>>
      /\ tracked => closed' = TRUE /\ queue' = <<>> /\ ready' = TRUE
      /\ ~tracked => UNCHANGED <<queue, ready, closed>>
  BY DEF Reap, Clear, collector, StreamTypeOK
<1>2. StreamTypeOK'
  <2>1. tracked => /\ queue' \in Seq(Output)
                   /\ Len(queue') <= (IF aggregate' THEN 1 ELSE MaxLen)
    BY <1>1, EmptyFits DEF StreamTypeOK
  <2>2. CASE tracked
    BY <1>1, <2>1, <2>2 DEF StreamTypeOK
  <2>3. CASE ~tracked
    <3>1. /\ queue' = queue /\ ready' = ready /\ closed' = closed
          /\ aggregate' = aggregate /\ puts' = puts /\ dropped' = dropped
          /\ tracked' = FALSE /\ finished' = finished /\ stamped' = FALSE
          /\ sched' = sched /\ produced' = produced /\ total' = total
          /\ sent' = sent /\ pc' = pc /\ got' = got /\ fate' = fate
      BY <1>1, <2>3
    <3>2. /\ aggregate' \in BOOLEAN /\ queue' \in Seq(Output) /\ puts' \in Nat
          /\ Len(queue') <= (IF aggregate' THEN 1 ELSE MaxLen)
      BY <3>1 DEF StreamTypeOK
    <3>3. /\ ready' \in BOOLEAN /\ closed' \in BOOLEAN /\ dropped' \in Nat
          /\ tracked' \in BOOLEAN /\ finished' \in BOOLEAN /\ stamped' \in BOOLEAN
      BY <3>1 DEF StreamTypeOK
    <3>4. /\ sched' \in {"running", "aborting", "gone"}
          /\ produced' \in 0..Steps /\ total' \in Nat /\ sent' \in Nat
          /\ pc' \in {"loop", "get", "wait", "yield", "await", "ended"}
          /\ got' \in Seq([out : Output, dropped : Nat])
          /\ fate' \in {"none", "finished", "error", "closed", "left"}
          /\ cutoff' \in BOOLEAN
      BY <1>1, <3>1 DEF StreamTypeOK
    <3> QED BY <3>2, <3>3, <3>4 DEF StreamTypeOK
  <2> QED BY <2>2, <2>3
<1>3. Modes' /\ OpenTracked' /\ LossReported' /\ AnswerComplete'
  BY <1>1 DEF Modes, OpenTracked, LossReported, AnswerComplete, StreamTypeOK
<1>4. WakeupExact' /\ Contiguous'
  <2>1. CASE tracked
    BY <1>1, <2>1 DEF WakeupExact, Contiguous
  <2>2. CASE ~tracked
    BY <1>1, <2>2 DEF WakeupExact, Contiguous
  <2> QED BY <2>1, <2>2
<1>5. AnswerReady' /\ EndAhead'
  BY <1>1 DEF AnswerReady, EndAhead, OpenTracked, StreamTypeOK
<1>6. ClosedAtEnd'
  <2>1. ASSUME dropped = 0, ~cutoff', pc # "ended", ~closed, closed'
        PROVE  pc = "yield" /\ Terminal(got[Len(got)].out)
    <3>1. tracked /\ queue = <<>> /\ ~HasTerminal(queue)
      <4>1. tracked /\ queue = <<>>
        BY <1>1, <2>1 DEF StreamTypeOK
      <4> QED BY <4>1, EmptyFits DEF HasTerminal
    <3>2. ~aggregate
      BY <1>1, <2>1, <3>1 DEF AnswerReady, Modes
    <3> QED BY <1>1, <2>1, <3>1, <3>2 DEF EndAhead, HasTerminal
  <2>2. cutoff' \/ ~cutoff
    BY <1>1 DEF StreamTypeOK
  <2> QED BY <1>1, <2>1, <2>2 DEF ClosedAtEnd, NoSilentTruncation
<1> QED BY <1>2, <1>3, <1>4, <1>5, <1>6

\* get_nowait on a streaming collector.
TakeFacts ==
    /\ UNCHANGED <<aggregate, puts, closed, dropped>>
    /\ queue' \in Seq(Output) /\ Len(queue') <= MaxLen /\ ready' \in BOOLEAN
    /\ got' \in Seq([out : Output, dropped : Nat]) /\ got' # <<>>
    /\ ~closed /\ WakeupExact'
    /\ \A i \in DOMAIN queue' : queue'[i].n = Len(got') + dropped + i
    /\ puts = Len(got') + dropped + Len(queue')
    /\ \A k \in DOMAIN got' : got'[k].out.n = k + got'[k].dropped
    /\ HasTerminal(queue) => HasTerminal(queue') \/ Terminal(got'[Len(got')].out)

LEMMA TakeEffect ==
    ASSUME StreamInv, ~aggregate, Take, pc' = "yield"
    PROVE  TakeFacts
<1> USE DEF StreamInv, StreamTypeOK
<1>1. /\ queue \in Seq(Output) /\ queue # <<>> /\ Len(queue) \in Nat /\ Len(queue) > 0
      /\ Len(queue) <= MaxLen /\ DOMAIN queue = 1..Len(queue)
      /\ got \in Seq([out : Output, dropped : Nat]) /\ Len(got) \in Nat
      /\ DOMAIN got = 1..Len(got)
      /\ dropped \in Nat /\ puts \in Nat
      /\ UNCHANGED <<aggregate, puts, closed, dropped>>
  BY NonEmpty DEF Take
<1>2. ~closed
  BY <1>1 DEF OpenTracked
<1> DEFINE h == [out |-> Head(queue), dropped |-> dropped]
<1>3. h \in [out : Output, dropped : Nat] /\ h.out = queue[1] /\ h.dropped = dropped
  BY <1>1
<1>4. queue' = Tail(queue) /\ got' = Append(got, h)
  BY DEF Take
<1> HIDE DEF h
<1>5. /\ queue' \in Seq(Output) /\ Len(queue') = Len(queue) - 1
      /\ DOMAIN queue' = 1..(Len(queue) - 1)
      /\ \A i \in 1..(Len(queue) - 1) : queue'[i] = queue[i + 1]
  BY <1>1, <1>4
<1>6. /\ got' \in Seq([out : Output, dropped : Nat]) /\ Len(got') = Len(got) + 1
      /\ DOMAIN got' = 1..(Len(got) + 1) /\ got'[Len(got) + 1] = h
      /\ \A i \in 1..Len(got) : got'[i] = got[i]
  BY <1>1, <1>3, <1>4
<1>7. got' # <<>> /\ Len(queue') <= MaxLen
  BY <1>1, <1>5, <1>6, NonEmpty
<1>8. ready' \in BOOLEAN /\ WakeupExact'
  <2>1. ready
    BY <1>1, <1>2 DEF WakeupExact
  <2>2. ready' = (queue' # <<>>)
    BY <1>4, <2>1 DEF Take
  <2> QED BY <1>1, <1>2, <2>2 DEF WakeupExact
<1>9. \A i \in DOMAIN queue' : queue'[i].n = Len(got') + dropped + i
  <2> SUFFICES ASSUME NEW i \in DOMAIN queue'
               PROVE  queue'[i].n = Len(got') + dropped + i
    OBVIOUS
  <2>1. i \in 1..(Len(queue) - 1) /\ i + 1 \in DOMAIN queue
    BY <1>1, <1>5
  <2>2. queue[i + 1].n = Len(got) + dropped + (i + 1)
    BY <2>1 DEF Contiguous
  <2>3. queue'[i].n = Len(got) + dropped + (i + 1)
    BY <1>5, <2>1, <2>2
  <2>4. /\ Len(got) \in Nat /\ dropped \in Nat /\ i \in Nat
        /\ Len(got') = Len(got) + 1
    BY <1>1, <1>6, <2>1
  <2>5. ASSUME NEW p \in Nat, NEW q \in Nat, NEW r \in Nat
        PROVE  p + q + (r + 1) = (p + 1) + q + r
    OBVIOUS
  <2> QED BY <2>3, <2>4, <2>5
<1>10. puts = Len(got') + dropped + Len(queue')
  <2>1. puts = Len(got) + dropped + Len(queue)
    BY <1>2 DEF Contiguous
  <2> QED BY <1>1, <1>5, <1>6, <2>1
<1>11. \A k \in DOMAIN got' : got'[k].out.n = k + got'[k].dropped
  <2> SUFFICES ASSUME NEW k \in DOMAIN got'
               PROVE  got'[k].out.n = k + got'[k].dropped
    OBVIOUS
  <2>1. CASE k \in 1..Len(got)
    BY <1>1, <1>6, <2>1 DEF LossReported
  <2>2. CASE k = Len(got) + 1
    <3>0. 1 \in DOMAIN queue
      BY <1>1
    <3>1. queue[1].n = Len(got) + dropped + 1
      BY <3>0 DEF Contiguous
    <3> QED BY <1>1, <1>3, <1>6, <2>2, <3>1
  <2> QED BY <1>1, <1>6, <2>1, <2>2
<1>12. ASSUME HasTerminal(queue)
       PROVE  HasTerminal(queue') \/ Terminal(got'[Len(got')].out)
  <2>1. PICK i \in DOMAIN queue : Terminal(queue[i])
    BY <1>12 DEF HasTerminal
  <2>2. CASE i = 1
    <3>1. got'[Len(got')].out = queue[1]
      BY <1>3, <1>6
    <3> QED BY <2>1, <2>2, <3>1
  <2>3. CASE i # 1
    <3>1. i - 1 \in DOMAIN queue' /\ queue'[i - 1] = queue[(i - 1) + 1]
      BY <1>1, <1>5, <2>3
    <3>2. (i - 1) + 1 = i
      BY <1>1
    <3> QED BY <2>1, <3>1, <3>2 DEF HasTerminal
  <2> QED BY <2>2, <2>3
<1> QED BY <1>1, <1>2, <1>5, <1>6, <1>7, <1>8, <1>9, <1>10, <1>11, <1>12 DEF TakeFacts

LEMMA TakeKeeps ==
    ASSUME StreamInv, ~aggregate, pc # "yield", pc # "ended",
           Take, pc' = "yield", UNCHANGED <<engine, fate, cutoff>>
    PROVE  StreamInv'
<1> USE DEF StreamInv, engine
<1>1. TakeFacts
  BY TakeEffect
<1>2. StreamTypeOK'
  BY <1>1 DEF TakeFacts, StreamTypeOK
<1>3. Modes' /\ OpenTracked' /\ LossReported' /\ WakeupExact'
  BY <1>1 DEF TakeFacts, Modes, OpenTracked, LossReported, StreamTypeOK
<1>4. Contiguous'
  BY <1>1 DEF TakeFacts, Contiguous
<1>5. AnswerReady' /\ AnswerComplete'
  BY <1>1 DEF TakeFacts, AnswerReady, AnswerComplete
<1>6. EndAhead'
  BY <1>1 DEF TakeFacts, EndAhead, HasTerminal
<1>7. ClosedAtEnd'
  BY <1>1 DEF TakeFacts, ClosedAtEnd, NoSilentTruncation
<1> QED BY <1>2, <1>3, <1>4, <1>5, <1>6, <1>7

\* A step of the consumer that takes nothing and stays.
LEMMA MoveKeeps ==
    ASSUME StreamInv, ~aggregate, pc' \in {"loop", "get", "wait"},
           pc # "ended", pc = "yield" => ~Terminal(got[Len(got)].out),
           pc' = "wait" => ~closed,
           UNCHANGED <<aggregate, queue, puts, closed, dropped, engine, got, fate, cutoff>>,
           ready' = ready \/ (ready' = FALSE /\ queue = <<>> /\ pc' = "get")
    PROVE  StreamInv'
<1> USE DEF StreamInv, engine
<1>1. StreamTypeOK'
  <2>1. ready' \in BOOLEAN
    BY DEF StreamTypeOK
  <2>2. pc' \in {"loop", "get", "wait", "yield", "await", "ended"}
    OBVIOUS
  <2>3. /\ queue' = queue /\ closed' = closed
        /\ aggregate' = aggregate /\ puts' = puts /\ dropped' = dropped
        /\ tracked' = tracked /\ finished' = finished /\ stamped' = stamped
        /\ sched' = sched /\ produced' = produced /\ total' = total
        /\ sent' = sent /\ got' = got /\ fate' = fate /\ cutoff' = cutoff
    OBVIOUS
  <2> QED BY <2>1, <2>2, <2>3 DEF StreamTypeOK
<1>2. Modes' /\ OpenTracked' /\ LossReported' /\ Contiguous'
  BY DEF Modes, OpenTracked, LossReported, Contiguous
<1>3. WakeupExact'
  BY DEF WakeupExact, StreamTypeOK
<1>4. AnswerReady' /\ AnswerComplete'
  BY DEF AnswerReady, AnswerComplete
<1>5. EndAhead'
  BY DEF EndAhead
<1>6. ClosedAtEnd'
  BY DEF ClosedAtEnd, NoSilentTruncation
<1> QED BY <1>1, <1>2, <1>3, <1>4, <1>5, <1>6

\* The consumer of a stream ends; it may do so without being told to only by a
\* terminal output, a loss, or a closed collector.
LEMMA LeaveKeeps ==
    ASSUME StreamInv, ~aggregate, pc # "ended",
           NEW how \in {"finished", "error", "closed", "left"}, Leave(how),
           \/ how = "left"
           \/ got # <<>> /\ Terminal(got[Len(got)].out)
           \/ how = "closed" /\ closed
    PROVE  StreamInv'
<1> USE DEF StreamInv
<1>1. /\ pc' = "ended" /\ fate' = how /\ tracked' = FALSE /\ stamped' = FALSE
      /\ UNCHANGED <<produced, total, sent, got, cutoff>>
      /\ finished' \in BOOLEAN /\ sched' \in {"running", "aborting", "gone"}
  BY DEF Leave, Aborting, StreamTypeOK
<1>2. /\ aggregate' = aggregate
      /\ queue' \in Seq(Output) /\ Len(queue') <= MaxLen
      /\ puts' \in Nat /\ ready' \in BOOLEAN /\ closed' \in BOOLEAN
      /\ dropped' \in Nat /\ dropped' >= dropped
      /\ closed' => queue' = <<>>
      /\ ~closed' => ready' = (queue' # <<>>)
      /\ \A i \in DOMAIN queue' : queue'[i].n = Len(got) + dropped' + i
      /\ ~closed' => puts' = Len(got) + dropped' + Len(queue')
  <2>1. CASE PutError
    <3>1. PutFacts(0, TRUE, TRUE)
      BY <2>1, PutEffect DEF PutError
    <3> QED BY <3>1 DEF PutFacts, StreamTypeOK, OpenTracked
  <2>2. CASE Clear
    BY <2>2 DEF Clear, StreamTypeOK
  <2>3. CASE UNCHANGED collector
    BY <2>3 DEF collector, StreamTypeOK, OpenTracked, WakeupExact, Contiguous
  <2> QED BY <2>1, <2>2, <2>3 DEF Leave
<1>3. StreamTypeOK'
  BY <1>1, <1>2 DEF StreamTypeOK
<1>4. Modes' /\ OpenTracked' /\ LossReported' /\ Contiguous' /\ WakeupExact'
  BY <1>1, <1>2 DEF Modes, OpenTracked, LossReported, Contiguous, WakeupExact
<1>5. AnswerReady' /\ AnswerComplete' /\ EndAhead'
  BY <1>1, <1>2 DEF AnswerReady, AnswerComplete, EndAhead
<1>6. ClosedAtEnd'
  <2>1. ASSUME how # "left", dropped' = 0, ~cutoff
        PROVE  got # <<>> /\ Terminal(got[Len(got)].out)
    <3>1. dropped = 0
      BY <1>2, <2>1 DEF StreamTypeOK
    <3> QED BY <2>1, <3>1 DEF ClosedAtEnd, Modes
  <2> QED BY <1>1, <2>1 DEF ClosedAtEnd, NoSilentTruncation, Terminal
<1> QED BY <1>3, <1>4, <1>5, <1>6

-----------------------------------------------------------------------------
LEMMA PollKeeps ==
    ASSUME StreamInv, Poll
    PROVE  StreamInv'
<1>1. pc = "loop" /\ ~aggregate
  BY DEF Poll, StreamInv, Modes
<1>2. CASE Take /\ pc' = "yield"
  BY <1>1, <1>2, TakeKeeps DEF Poll
<1>3. CASE /\ queue = <<>> /\ ready' = FALSE /\ pc' = "get"
           /\ UNCHANGED <<aggregate, queue, puts, closed, dropped, got>>
  BY <1>1, <1>3, MoveKeeps DEF Poll
<1> QED BY <1>2, <1>3 DEF Poll

LEMMA GetKeeps ==
    ASSUME StreamInv, GetOutput \/ GetWait \/ GetClosed
    PROVE  StreamInv'
<1>1. pc \in {"get", "wait"} /\ ~aggregate
  BY DEF GetOutput, GetWait, GetClosed, Awake, StreamInv, Modes
<1>2. CASE GetOutput
  BY <1>1, <1>2, TakeKeeps DEF GetOutput
<1>3. CASE GetWait
  BY <1>1, <1>3, MoveKeeps DEF GetWait, collector
<1>4. CASE GetClosed
  BY <1>1, <1>4, LeaveKeeps DEF GetClosed
<1> QED BY <1>2, <1>3, <1>4

LEMMA HeartbeatKeeps ==
    ASSUME StreamInv, Heartbeat
    PROVE  StreamInv'
<1>1. pc = "wait" /\ ~aggregate
  BY DEF Heartbeat, StreamInv, Modes
<1> QED BY <1>1, MoveKeeps DEF Heartbeat, collector

LEMMA ResumeKeeps ==
    ASSUME StreamInv, Resume
    PROVE  StreamInv'
<1> DEFINE o == got[Len(got)].out
<1>1. pc = "yield" /\ ~aggregate /\ got # <<>>
  BY DEF Resume, StreamInv, Modes
<1>2. CASE o.err /\ Leave("error")
  BY <1>1, <1>2, LeaveKeeps DEF Terminal
<1>3. CASE ~o.err /\ o.fin /\ Leave("finished")
  BY <1>1, <1>3, LeaveKeeps DEF Terminal
<1>4. CASE ~o.err /\ ~o.fin /\ pc' = "loop" /\ UNCHANGED <<collector, engine, got, fate, cutoff>>
  BY <1>1, <1>4, MoveKeeps DEF Terminal, collector
<1> QED BY <1>2, <1>3, <1>4 DEF Resume

LEMMA DisconnectKeeps ==
    ASSUME StreamInv, Disconnect
    PROVE  StreamInv'
<1>1. pc \in {"yield", "wait"} /\ ~aggregate /\ Leave("left")
  BY DEF Disconnect, StreamInv, Modes
<1> QED BY <1>1, LeaveKeeps

\* generate's end: the answer it drains is an error or complete.
LEMMA DrainKeeps ==
    ASSUME StreamInv, Drain
    PROVE  StreamInv'
<1> USE DEF StreamInv
<1>1. /\ pc = "await" /\ finished /\ aggregate
      /\ pc' = "ended" /\ tracked' = FALSE /\ stamped' = FALSE
      /\ UNCHANGED <<finished, sched, produced, total, sent, aggregate, puts, dropped,
                     cutoff>>
  BY DEF Drain, Clear, Modes
<1>2. /\ ready' \in BOOLEAN /\ closed' \in BOOLEAN
      /\ ~closed' => ready' = FALSE
  <2>1. CASE tracked
    BY <2>1 DEF Drain, Clear
  <2>2. CASE ~tracked
    BY <2>2 DEF Drain, WakeupExact, StreamTypeOK
  <2> QED BY <2>1, <2>2
<1>3. /\ queue \in Seq(Output) /\ got \in Seq([out : Output, dropped : Nat])
      /\ dropped \in Nat /\ aggregate' \in BOOLEAN
  BY <1>1 DEF StreamTypeOK
<1>4. /\ queue' \in Seq(Output)
      /\ Len(queue') <= (IF aggregate' THEN 1 ELSE MaxLen)
  <2>1. queue' = <<>>
    BY DEF Drain, Clear
  <2> QED BY <1>1, <1>3, <2>1, EmptyFits
<1>5. OpenTracked' /\ WakeupExact' /\ Contiguous' /\ AnswerReady' /\ EndAhead'
  <2>1. queue' = <<>>
    BY DEF Drain, Clear
  <2>2. OpenTracked'
    BY <1>1, <2>1 DEF OpenTracked
  <2>3. WakeupExact'
    <3>1. ASSUME ~closed' PROVE ready' = (queue' # <<>>)
      BY <1>2, <2>1, <3>1
    <3> QED BY <1>1, <3>1 DEF WakeupExact
  <2> QED BY <1>1, <2>2, <2>3 DEF Contiguous, AnswerReady, EndAhead
<1>6. Modes' /\ LossReported'
  BY <1>1 DEF Modes, LossReported
<1>7. CASE queue = <<>>
  <2>1. fate' = "closed" /\ got' = got
    BY <1>7 DEF Drain
  <2>2. closed
    BY <1>1, <1>7 DEF AnswerReady
  <2>3. StreamTypeOK'
    BY <1>1, <1>2, <1>4, <2>1 DEF StreamTypeOK
  <2>4. ClosedAtEnd'
    BY <1>1, <2>1, <2>2 DEF ClosedAtEnd, NoSilentTruncation
  <2>5. AnswerComplete'
    BY <2>1 DEF AnswerComplete
  <2> QED BY <1>5, <1>6, <2>3, <2>4, <2>5
<1>8. CASE queue # <<>>
  <2> DEFINE h == [out |-> queue[1], dropped |-> dropped]
  <2>1. fate' = (IF queue[1].err THEN "error" ELSE "finished") /\ got' = Append(got, h)
    BY <1>8 DEF Drain
  <2>2. queue[1] \in Output
    BY <1>3, <1>8
  <2>3. h \in [out : Output, dropped : Nat] /\ h.out = queue[1]
    BY <1>3, <2>2
  <2> HIDE DEF h
  <2>4. /\ got' \in Seq([out : Output, dropped : Nat])
        /\ Len(got') = Len(got) + 1 /\ got'[Len(got')] = h /\ got' # <<>>
    <3>1. /\ got' \in Seq([out : Output, dropped : Nat])
          /\ Len(got) \in Nat /\ Len(got') = Len(got) + 1
      BY <1>3, <2>1, <2>3
    <3>2. got'[Len(got) + 1] = h
      BY <1>3, <2>1, <2>3
    <3> QED BY <3>1, <3>2, NonEmpty
  <2>5. \/ queue[1].err
        \/ queue[1].fin /\ produced = Steps /\ queue[1].total = total
    BY <1>1, <1>8 DEF AnswerReady, OpenTracked
  <2>6. StreamTypeOK'
    BY <1>1, <1>2, <1>4, <2>1, <2>4 DEF StreamTypeOK
  <2>7. AnswerComplete'
    BY <1>1, <2>1, <2>3, <2>4, <2>5 DEF AnswerComplete
  <2>8. ClosedAtEnd'
    BY <1>1, <2>1, <2>3, <2>4, <2>5 DEF ClosedAtEnd, NoSilentTruncation
  <2> QED BY <1>5, <1>6, <2>6, <2>7, <2>8
<1> QED BY <1>7, <1>8

LEMMA GiveUpKeeps ==
    ASSUME StreamInv, GiveUp
    PROVE  StreamInv'
<1> USE DEF StreamInv
<1>1. /\ pc = "await" /\ aggregate
      /\ pc' = "ended" /\ tracked' = FALSE /\ stamped' = FALSE /\ fate' = "left"
      /\ UNCHANGED <<produced, total, sent, got, aggregate, puts, dropped, cutoff>>
      /\ finished' \in BOOLEAN /\ sched' \in {"running", "aborting", "gone"}
  BY DEF GiveUp, Clear, Modes, Aborting, collector, StreamTypeOK
<1>2. CASE tracked
  <2>1. closed' = TRUE /\ queue' = <<>> /\ ready' = TRUE
    BY <1>2 DEF GiveUp, Clear
  <2>2. /\ queue' \in Seq(Output)
        /\ Len(queue') <= (IF aggregate' THEN 1 ELSE MaxLen)
    BY <1>1, <2>1, EmptyFits DEF StreamTypeOK
  <2> QED BY <1>1, <2>1, <2>2
          DEF StreamTypeOK, Modes, OpenTracked, WakeupExact, Contiguous, LossReported,
              AnswerReady, AnswerComplete, EndAhead, ClosedAtEnd, NoSilentTruncation
<1>3. CASE ~tracked
  <2>1. UNCHANGED <<closed, queue, ready>>
    BY <1>3 DEF GiveUp, collector
  <2> QED BY <1>1, <2>1
          DEF StreamTypeOK, Modes, OpenTracked, WakeupExact, Contiguous, LossReported,
              AnswerReady, AnswerComplete, EndAhead, ClosedAtEnd, NoSilentTruncation
<1> QED BY <1>2, <1>3

-----------------------------------------------------------------------------
LEMMA StreamStep ==
    ASSUME StreamInv, [StreamNext]_streamVars
    PROVE  StreamInv'
<1>1. CASE UNCHANGED streamVars
  BY <1>1 DEF streamVars, StreamInv, StreamTypeOK, Modes, OpenTracked, WakeupExact,
              Contiguous, LossReported, AnswerReady, AnswerComplete, EndAhead,
              ClosedAtEnd, NoSilentTruncation
<1> QED BY <1>1, EmitKeeps, SchedulerAbortsKeeps, AbortRequestKeeps, AbortAllKeeps,
           FailAllKeeps, ReapKeeps, PollKeeps, GetKeeps, HeartbeatKeeps, ResumeKeeps,
           DisconnectKeeps, DrainKeeps, GiveUpKeeps
        DEF StreamNext, Engine, Consumer

LEMMA StreamStart == StreamInit => StreamInv
<1> SUFFICES ASSUME StreamInit PROVE StreamInv
  OBVIOUS
<1>1. /\ queue \in Seq(Output) /\ DOMAIN queue = {} /\ Len(queue) = 0
      /\ Len(queue) <= (IF aggregate THEN 1 ELSE MaxLen)
  BY EmptyFits DEF StreamInit
<1>2. got \in Seq([out : Output, dropped : Nat]) /\ DOMAIN got = {} /\ Len(got) = 0
  BY DEF StreamInit
<1>3. /\ pc = (IF aggregate THEN "await" ELSE "loop") /\ aggregate \in BOOLEAN
      /\ puts = 0 /\ dropped = 0 /\ produced = 0 /\ total = 0 /\ sent = 0
      /\ ready = FALSE /\ closed = FALSE /\ tracked = TRUE /\ finished = FALSE
      /\ stamped = FALSE /\ sched = "running" /\ fate = "none"
      /\ cutoff = FALSE
  BY DEF StreamInit
<1>4. StreamTypeOK
  <2>1. /\ queue \in Seq(Output) /\ Len(queue) <= (IF aggregate THEN 1 ELSE MaxLen)
        /\ got \in Seq([out : Output, dropped : Nat])
    BY <1>1, <1>2
  <2>2. /\ aggregate \in BOOLEAN /\ ready \in BOOLEAN /\ closed \in BOOLEAN
        /\ tracked \in BOOLEAN /\ finished \in BOOLEAN /\ stamped \in BOOLEAN
        /\ pc \in {"loop", "await"}
    BY <1>3, Zenon
  <2>3. produced \in 0..Steps /\ total \in Nat /\ sent \in Nat /\ puts \in Nat
        /\ dropped \in Nat
    BY <1>3
  <2>4. sched = "running" /\ fate = "none" /\ cutoff \in BOOLEAN
    BY <1>3
  <2> QED BY <2>1, <2>2, <2>3, <2>4 DEF StreamTypeOK
<1>5. Modes /\ OpenTracked /\ WakeupExact
  BY <1>3 DEF StreamInit, Modes, OpenTracked, WakeupExact
<1>6. Contiguous /\ LossReported
  BY <1>1, <1>2 DEF StreamInit, Contiguous, LossReported
<1>7. AnswerReady /\ AnswerComplete /\ EndAhead /\ ClosedAtEnd
  BY <1>3 DEF StreamInit, AnswerReady, AnswerComplete, EndAhead, ClosedAtEnd,
              NoSilentTruncation
<1> QED BY <1>4, <1>5, <1>6, <1>7 DEF StreamInv

\* The inductive invariant holds in every reachable state.
THEOREM StreamInvariance == StreamSpec => []StreamInv
<1>1. StreamInv /\ [StreamNext]_streamVars => StreamInv'
  BY StreamStep
<1> QED BY <1>1, StreamStart, PTL DEF StreamSpec

\* Types, and the bound of the collector: it never holds more than maxlen
\* outputs, or more than one merged output.
THEOREM CollectorBounded == StreamSpec => []StreamTypeOK
<1>1. StreamInv => StreamTypeOK
  BY DEF StreamInv
<1> QED BY <1>1, StreamInvariance, PTL

\* put, get, get_nowait, clear: no lost wake-up and no spinning, however the
\* engine, the reaper, heartbeats and the consumer take turns.
THEOREM NoLostWakeup == StreamSpec => []WakeupExact
<1>1. StreamInv => WakeupExact
  BY DEF StreamInv
<1> QED BY <1>1, StreamInvariance, PTL

\* _note_stream_drop: every output the deque lost before an output is counted in
\* the drops which that output reports.
THEOREM LossAlwaysReported == StreamSpec => []LossReported
<1>1. StreamInv => LossReported
  BY DEF StreamInv
<1> QED BY <1>1, StreamInvariance, PTL

\* generate with any stream_interval: a finished answer has the final count.
THEOREM AnswersComplete == StreamSpec => []FinalCountComplete
<1>1. StreamInv => FinalCountComplete
  BY DEF StreamInv, AnswerComplete, FinalCountComplete
<1> QED BY <1>1, StreamInvariance, PTL

\* stream_outputs and generate, whenever the reaper comes: a stream of which
\* neither the deque nor the reaper discarded anything ends with a terminal
\* output.
THEOREM StreamsEndProperly == StreamSpec => []NoSilentTruncation
<1>1. StreamInv => NoSilentTruncation
  BY DEF StreamInv, ClosedAtEnd
<1> QED BY <1>1, StreamInvariance, PTL
=============================================================================
