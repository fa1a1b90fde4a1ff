-------------------------- MODULE MatchQueueProofs --------------------------
(***************************************************************************)
(* Proofs about MatchQueue for every set of requests, every channel        *)
(* capacity and every bound on faults, crashes and restarts.               *)
(***************************************************************************)
EXTENDS MatchQueueInv, FiniteSetTheorems, TLAPS

-----------------------------------------------------------------------------
(* Event streams                                                           *)

\* Appending a game event keeps a stream open, and an open stream has no
\* verdict.
LEMMA OpenStreamGame ==
  ASSUME NEW s \in Seq(EventType), OpenStream(s)
  PROVE  /\ OpenStream(Append(s, "game"))
         /\ VerdictOf(s) = "none"
         /\ VerdictOf(Append(s, "game")) = "none"
BY DEF OpenStream, VerdictOf, Outcome, EventType

\* Appending a verdict to an open stream makes it the verdict of the stream.
LEMMA OpenStreamVerdict ==
  ASSUME NEW s \in Seq(EventType), OpenStream(s), NEW o \in Outcome
  PROVE  VerdictOf(Append(s, o)) = o
BY DEF OpenStream, VerdictOf, Outcome, EventType

-----------------------------------------------------------------------------
(* The channel                                                             *)

\* What a send does to who is in the channel.
LEMMA Sent ==
  ASSUME jobs \in Seq(Request), NEW r \in Request, jobs' = Append(jobs, r)
  PROVE  \A m \in Request : QueueHolds(m)' <=> QueueHolds(m) \/ m = r
BY DEF QueueHolds

\* What a receive does, of a channel that holds nothing twice.
LEMMA Received ==
  ASSUME jobs \in Seq(Request), jobs # <<>>, jobs' = Tail(jobs),
         \A i, j \in DOMAIN jobs : jobs[i] = jobs[j] => i = j
  PROVE  /\ Head(jobs) \in Request /\ QueueHolds(Head(jobs))
         /\ \A m \in Request : QueueHolds(m)' <=> QueueHolds(m) /\ m # Head(jobs)
         /\ \A i, j \in DOMAIN jobs' : jobs'[i] = jobs'[j] => i = j
<1>1. Head(jobs) \in Request /\ QueueHolds(Head(jobs))
  BY DEF QueueHolds
<1>2. /\ Len(jobs') = Len(jobs) - 1
      /\ \A i \in DOMAIN jobs' : i + 1 \in DOMAIN jobs /\ jobs'[i] = jobs[i + 1]
  OBVIOUS
<1>3. \A i, j \in DOMAIN jobs' : jobs'[i] = jobs'[j] => i = j
  BY <1>2
<1>4. ASSUME NEW m \in Request
      PROVE  QueueHolds(m)' <=> QueueHolds(m) /\ m # Head(jobs)
  <2>1. QueueHolds(m)' => QueueHolds(m) /\ m # Head(jobs)
    BY <1>2 DEF QueueHolds
  <2>2. ASSUME QueueHolds(m), m # Head(jobs)
        PROVE  QueueHolds(m)'
    <3>1. PICK i \in DOMAIN jobs : jobs[i] = m
      BY <2>2 DEF QueueHolds
    <3>2. i > 1 /\ i - 1 \in DOMAIN jobs' /\ jobs'[i - 1] = m
      BY <3>1, <2>2, <1>2
    <3> QED BY <3>2 DEF QueueHolds
  <2> QED BY <2>1, <2>2
<1> QED BY <1>1, <1>3, <1>4

-----------------------------------------------------------------------------
(* The steps of a handler                                                  *)

\* Steps of a handler that leave the database and the channel alone.
LEMMA HandlerMove ==
  ASSUME IInv, NEW r \in Request,
         Accept(r) \/ RejectRequest(r) \/ EnqueueCancelled(r) \/ EnqueueBusy(r) \/ Disconnect(r)
  PROVE  IInv'
<1>0. /\ UNCHANGED <<status, events, execLog, hseq, jobs, wpc, wjob, wtype, wseq, main, faults>>
      /\ \/ pc' = pc
         \/ pc[r] = "idle" /\ pc' = [pc EXCEPT ![r] = "submit"]
         \/ pc[r] = "submit" /\ pc' = [pc EXCEPT ![r] = "done"]
         \/ pc[r] = "enqueue" /\ pc' = [pc EXCEPT ![r] = "cancelled"]
         \/ pc[r] = "enqueue" /\ pc' = [pc EXCEPT ![r] = "busy"]
      /\ \/ response' = response
         \/ /\ pc[r] = "submit" /\ pc'[r] = "done"
            /\ response' = [response EXCEPT ![r] = "error"]
  BY DEF IInv, TypeOK, Accept, RejectRequest, EnqueueCancelled, EnqueueBusy, Disconnect,
     Alive, Reply, Goto, dbVars, handlerVars, workerVars, procVars, boundVars
<1>a. \A m \in Request : QueueHolds(m)' <=> QueueHolds(m)
  BY <1>0 DEF QueueHolds
<1>1. TypeOK'
  BY <1>0 DEF IInv, TypeOK, HandlerPC, Accept, RejectRequest, EnqueueCancelled, EnqueueBusy, Disconnect,
     handlerVars, workerVars, procVars, boundVars
<1>b. \A q \in Request \ {r} : pc'[q] = pc[q] /\ response'[q] = response[q]
  BY <1>0 DEF IInv, TypeOK
<1>c. \/ pc'[r] = pc[r] /\ response'[r] = response[r]
      \/ pc[r] = "idle" /\ pc'[r] = "submit" /\ response'[r] = response[r]
      \/ pc[r] = "submit" /\ pc'[r] = "done"
      \/ pc[r] = "enqueue" /\ pc'[r] \in {"cancelled", "busy"} /\ response'[r] = response[r]
  BY <1>0 DEF IInv, TypeOK
<1>2. HandlerInv'
  BY <1>0, <1>b, <1>c DEF IInv, TypeOK, HandlerInv, HandlerHolds
<1>3. QueueInv'
  BY <1>0, <1>a DEF IInv, TypeOK, QueueInv
<1>4. WorkerInv'
  BY <1>0, <1>a, QueueAssumption DEF IInv, TypeOK, WorkerInv
<1>5. LogInv'
  BY <1>0 DEF IInv, TypeOK, LogInv
<1>6. ProcessInv'
  BY <1>0 DEF IInv, ProcessInv
<1>7. StreamWellFormed'
  BY <1>0 DEF IInv, StreamWellFormed
<1>8. ErrorIsFinal'
  BY <1>0 DEF IInv, TypeOK, ErrorIsFinal, HandlerInv
<1>9. LiveHasOwner'
  <2>1. \A m \in Request : HandlerHolds(m) => HandlerHolds(m)'
    BY <1>b, <1>c DEF HandlerHolds
  <2>2. \A m \in Request : pc'[m] # "lost" => pc[m] # "lost" \/ status[m] \notin Live
    BY <1>b, <1>c
  <2> QED BY <1>0, <1>a, <2>1, <2>2 DEF IInv, LiveHasOwner, WorkerHolds
<1> QED BY <1>1, <1>2, <1>3, <1>4, <1>5, <1>6, <1>7, <1>8, <1>9 DEF IInv

\* The new row is 'queued' and in the hands of its handler.
LEMMA CreateMatchInv ==
  ASSUME IInv, NEW r \in Request, CreateMatch(r)
  PROVE  IInv'
<1> USE QueueAssumption DEF CreateMatch, Alive, Goto, dbVars, handlerVars, workerVars,
      procVars, boundVars
<1>0. \A m \in Request : QueueHolds(m)' <=> QueueHolds(m)
  BY DEF QueueHolds
<1>1. TypeOK'
  BY DEF IInv, TypeOK, HandlerPC, WorkerPC, EventType, Outcome, Status
<1>2. HandlerInv'
  BY DEF IInv, TypeOK, HandlerInv, HandlerHolds
<1>3. WorkerInv'
  BY <1>0 DEF IInv, TypeOK, WorkerInv
<1>4. QueueInv'
  BY <1>0 DEF IInv, TypeOK, QueueInv
<1>5. LogInv' /\ ProcessInv' /\ StreamWellFormed'
  BY DEF IInv, TypeOK, LogInv, ProcessInv, StreamWellFormed
<1>6. ErrorIsFinal'
  BY DEF IInv, TypeOK, ErrorIsFinal, HandlerInv
<1>7. LiveHasOwner'
  BY <1>0 DEF IInv, TypeOK, LiveHasOwner, HandlerInv, HandlerHolds, WorkerHolds, Live
<1> QED BY <1>1, <1>2, <1>3, <1>4, <1>5, <1>6, <1>7 DEF IInv

\* A handler starts a row that is 'queued'.
LEMMA StartMatchInv ==
  ASSUME IInv, NEW r \in Request, StartMatch(r)
  PROVE  IInv'
<1> USE QueueAssumption DEF StartMatch, Alive, Goto, dbVars, handlerVars, workerVars,
      procVars, boundVars
<1>0. \A m \in Request : QueueHolds(m)' <=> QueueHolds(m)
  BY DEF QueueHolds
<1>1. TypeOK'
  BY DEF IInv, TypeOK, HandlerPC, WorkerPC, EventType, Outcome, Status
<1>2. HandlerInv'
  BY DEF IInv, TypeOK, HandlerInv, HandlerHolds
<1>3. QueueInv' /\ WorkerInv'
  BY <1>0 DEF IInv, TypeOK, QueueInv, WorkerInv
<1>4. LogInv' /\ ProcessInv' /\ StreamWellFormed'
  BY DEF IInv, TypeOK, LogInv, ProcessInv, StreamWellFormed
<1>5. ErrorIsFinal'
  BY DEF IInv, TypeOK, ErrorIsFinal, HandlerInv, HandlerHolds
<1>6. LiveHasOwner'
  BY <1>0 DEF IInv, TypeOK, LiveHasOwner, HandlerInv, HandlerHolds, WorkerHolds, Live
<1> QED BY <1>1, <1>2, <1>3, <1>4, <1>5, <1>6 DEF IInv

\* The seq read for match.started is 1.
LEMMA StartedSeqInv ==
  ASSUME IInv, NEW r \in Request, StartedSeq(r)
  PROVE  IInv'
<1> USE QueueAssumption DEF StartedSeq, NextEventSeq, Alive, Goto, dbVars, handlerVars,
      workerVars, procVars, boundVars
<1>0. \A m \in Request : QueueHolds(m)' <=> QueueHolds(m)
  BY DEF QueueHolds
<1>1. TypeOK'
  <2>1. pc' \in [Request -> HandlerPC]
    BY DEF IInv, TypeOK, HandlerPC
  <2>2. hseq' \in [Request -> Nat]
    BY DEF IInv, TypeOK
  <2> QED BY <2>1, <2>2 DEF IInv, TypeOK
<1>2. HandlerInv'
  BY DEF IInv, TypeOK, HandlerInv, HandlerHolds
<1>3. QueueInv' /\ WorkerInv'
  BY <1>0 DEF IInv, TypeOK, QueueInv, WorkerInv
<1>4. LogInv' /\ ProcessInv' /\ StreamWellFormed'
  BY DEF IInv, TypeOK, LogInv, ProcessInv, StreamWellFormed
<1>5. ErrorIsFinal'
  BY DEF IInv, TypeOK, ErrorIsFinal
<1>6. LiveHasOwner'
  BY <1>0 DEF IInv, TypeOK, LiveHasOwner, HandlerInv, HandlerHolds, WorkerHolds, Live
<1> QED BY <1>1, <1>2, <1>3, <1>4, <1>5, <1>6 DEF IInv

\* match.started is the first event.
LEMMA StartedInsertInv ==
  ASSUME IInv, NEW r \in Request, StartedInsert(r)
  PROVE  IInv'
<1> USE QueueAssumption DEF StartedInsert, InsertEvent, Alive, Goto, dbVars, handlerVars,
      workerVars, procVars, boundVars
<1>0. \A m \in Request : QueueHolds(m)' <=> QueueHolds(m)
  BY DEF QueueHolds
<1>1. TypeOK'
  BY DEF IInv, TypeOK, HandlerPC, WorkerPC, EventType, Outcome, Status
<1>2. HandlerInv'
  <2>1. events[r] = <<>> /\ hseq[r] = 1 /\ status[r] = "running" /\ response[r] = "none"
    BY DEF IInv, TypeOK, HandlerInv, HandlerHolds
  <2>2. events' = [events EXCEPT ![r] = <<"started">>]
    BY <2>1 DEF IInv, TypeOK
  <2> QED BY <2>1, <2>2 DEF IInv, TypeOK, HandlerInv, HandlerHolds
<1>3. QueueInv' /\ WorkerInv'
  BY <1>0 DEF IInv, TypeOK, QueueInv, WorkerInv
<1>4. LogInv' /\ ProcessInv'
  BY DEF IInv, TypeOK, LogInv, ProcessInv
<1>5. StreamWellFormed'
  BY DEF IInv, TypeOK, StreamWellFormed, HandlerInv, Outcome
<1>6. ErrorIsFinal'
  BY DEF IInv, TypeOK, ErrorIsFinal
<1>7. LiveHasOwner'
  BY <1>0 DEF IInv, TypeOK, LiveHasOwner, HandlerInv, HandlerHolds, WorkerHolds, Live
<1> QED BY <1>1, <1>2, <1>3, <1>4, <1>5, <1>6, <1>7 DEF IInv

\* A rejected match is failed before the client is answered.
LEMMA FailRejectedInv ==
  ASSUME IInv, NEW r \in Request, FailRejected(r)
  PROVE  IInv'
<1> USE QueueAssumption DEF FailRejected, FailMatch, EnqueueReply, Reply, Goto, Alive, Live,
      dbVars, handlerVars, workerVars, procVars, boundVars
<1>0. \A m \in Request : QueueHolds(m)' <=> QueueHolds(m)
  BY DEF QueueHolds
<1>1. TypeOK'
  BY DEF IInv, TypeOK, HandlerPC, WorkerPC, EventType, Outcome, Status
<1>2. HandlerInv'
  BY DEF IInv, TypeOK, HandlerInv, HandlerHolds
<1>3. QueueInv' /\ WorkerInv'
  BY <1>0 DEF IInv, TypeOK, QueueInv, WorkerInv
<1>4. LogInv' /\ ProcessInv' /\ StreamWellFormed'
  BY DEF IInv, TypeOK, LogInv, ProcessInv, StreamWellFormed
<1>5. ErrorIsFinal'
  BY DEF IInv, TypeOK, ErrorIsFinal, HandlerInv
<1>6. LiveHasOwner'
  BY <1>0 DEF IInv, TypeOK, LiveHasOwner, HandlerInv, HandlerHolds, WorkerHolds, Live
<1> QED BY <1>1, <1>2, <1>3, <1>4, <1>5, <1>6 DEF IInv

\* A failed call gives the match up; LiveHasOwner and ErrorIsFinal no longer apply.
LEMMA HandlerFaultInv ==
  ASSUME IInv, NEW r \in Request, HandlerFault(r)
  PROVE  IInv'
<1> USE QueueAssumption DEF HandlerFault, DBError, EnqueueReply, Reply, Goto, Alive, dbVars,
      handlerVars, workerVars, procVars, boundVars
<1>0. \A m \in Request : QueueHolds(m)' <=> QueueHolds(m)
  BY DEF QueueHolds
<1>1. TypeOK'
  <2>1. pc' \in [Request -> HandlerPC] /\ response' \in [Request -> {"none", "match", "error"}]
    BY DEF IInv, TypeOK, HandlerPC
  <2>2. faults' \in Nat
    BY DEF IInv, TypeOK
  <2> QED BY <2>1, <2>2 DEF IInv, TypeOK
<1>2. HandlerInv'
  <2>1. \A q \in Request \ {r} : pc'[q] = pc[q] /\ response'[q] = response[q]
    BY DEF IInv, TypeOK
  <2>2. \/ pc'[r] = "done"
        \/ pc[r] \in {"seq", "insert"} /\ pc'[r] = pc[r] /\ response'[r] = response[r]
    BY DEF IInv, TypeOK
  <2>3. UNCHANGED <<status, events, hseq>>
    OBVIOUS
  <2> QED BY <2>1, <2>2, <2>3 DEF IInv, HandlerInv, HandlerHolds
<1>a. \A m \in Request : pc[m] = "done" => pc'[m] = "done" /\ response'[m] = response[m]
  BY DEF IInv, TypeOK
<1>3. QueueInv'
  BY <1>0, <1>a DEF IInv, QueueInv
<1>b. WorkerInv'
  <2>1. UNCHANGED <<wpc, wjob, wtype, wseq, status, events, execLog>> /\ faults' > 0
    BY DEF IInv, TypeOK
  <2> QED BY <1>0, <1>a, <2>1 DEF IInv, TypeOK, WorkerInv
<1>4. ProcessInv'
  BY DEF IInv, ProcessInv
<1>5. LogInv'
  BY DEF IInv, TypeOK, LogInv
<1>6. StreamWellFormed'
  BY DEF IInv, StreamWellFormed
<1>7. ErrorIsFinal'
  BY DEF IInv, TypeOK, ErrorIsFinal
<1>8. LiveHasOwner'
  BY <1>0 DEF IInv, TypeOK, LiveHasOwner, HandlerInv, HandlerHolds, WorkerHolds, Live
<1> QED BY <1>1, <1>2, <1>3, <1>b, <1>4, <1>5, <1>6, <1>7, <1>8 DEF IInv

-----------------------------------------------------------------------------
(* The steps of the worker                                                 *)

\* Steps of the worker that leave the database and the channel alone.
LEMMA WorkerMove ==
  ASSUME IInv,
         WorkerExit \/ WorkerPark \/ GameEvent \/ (\E o \in Outcome : Verdict(o)) \/ AppendSeq
  PROVE  IInv'
<1> USE QueueAssumption DEF WorkerExit, WorkerPark, GameEvent, Verdict, BeginAppend,
      AppendSeq, NextEventSeq, Alive, dbVars, handlerVars, workerVars, procVars, boundVars
<1>0. \A m \in Request : QueueHolds(m)' <=> QueueHolds(m)
  BY DEF QueueHolds
<1>1. TypeOK'
  <2>1. wpc' \in WorkerPC /\ wtype' \in EventType
    BY DEF IInv, TypeOK, WorkerPC, EventType, Outcome
  <2>2. wseq' \in Nat
    <3>1. wpc = "seq" => wjob \in Request
      BY DEF IInv, TypeOK, WorkerInv
    <3>2. wpc = "seq" => Len(events[wjob]) \in Nat
      BY <3>1 DEF IInv, TypeOK
    <3>3. wseq' = wseq \/ (wpc = "seq" /\ wseq' = Len(events[wjob]) + 1)
      OBVIOUS
    <3> QED BY <3>2, <3>3 DEF IInv, TypeOK
  <2> QED BY <2>1, <2>2 DEF IInv, TypeOK
<1>2. HandlerInv'
  BY DEF IInv, TypeOK, HandlerInv, HandlerHolds
<1>3. QueueInv'
  BY <1>0 DEF IInv, TypeOK, QueueInv
<1>4. WorkerInv'
  BY <1>0 DEF IInv, TypeOK, WorkerInv, Outcome
<1>5. ProcessInv'
  BY DEF IInv, ProcessInv
<1>6. LogInv'
  BY DEF IInv, TypeOK, LogInv
<1>7. StreamWellFormed'
  BY DEF IInv, StreamWellFormed
<1>8. ErrorIsFinal'
  BY DEF IInv, TypeOK, ErrorIsFinal
<1>9. LiveHasOwner'
  BY <1>0 DEF IInv, TypeOK, LiveHasOwner, HandlerInv, HandlerHolds, WorkerHolds, Live
<1> QED BY <1>1, <1>2, <1>3, <1>4, <1>5, <1>6, <1>7, <1>8, <1>9 DEF IInv

\* The status the worker writes is terminal.
LEMMA SettleInv ==
  ASSUME IInv, Settle
  PROVE  IInv'
<1> USE QueueAssumption DEF Settle, CompleteMatch, FailMatch, Alive, Live, dbVars,
      handlerVars, workerVars, procVars, boundVars
<1>0. \A m \in Request : QueueHolds(m)' <=> QueueHolds(m)
  BY DEF QueueHolds
<1>1. TypeOK'
  <2>1. wjob \in Request
    BY DEF IInv, TypeOK, WorkerInv
  <2>b. "completed" \in Status /\ "failed" \in Status
    BY DEF Status, Outcome
  <2>2. status[wjob] \in Status
    BY <2>1 DEF IInv, TypeOK
  <2>a. status' \in [Request -> Status]
    <3>1. CASE wtype = "completed"
      BY <2>b, <2>2, <3>1 DEF IInv, TypeOK
    <3>2. CASE wtype # "completed"
      BY <2>b, <2>2, <3>2 DEF IInv, TypeOK
    <3> QED BY <3>1, <3>2
  <2>3. wpc' \in WorkerPC
    BY DEF WorkerPC
  <2>4. UNCHANGED <<events, execLog, pc, hseq, gone, response, jobs, wjob, wtype, wseq, ctxDone,
                    main, faults, crashes, restarts>>
    OBVIOUS
  <2> QED BY <2>a, <2>3, <2>4 DEF IInv, TypeOK
<1>2. HandlerInv'
  BY DEF IInv, TypeOK, HandlerInv, HandlerHolds, WorkerInv
<1>3. QueueInv'
  BY <1>0 DEF IInv, TypeOK, QueueInv, WorkerInv
<1>4. WorkerInv'
  BY <1>0 DEF IInv, TypeOK, WorkerInv, Outcome
<1>5. LogInv' /\ ProcessInv' /\ StreamWellFormed'
  BY DEF IInv, TypeOK, LogInv, ProcessInv, StreamWellFormed
<1>6. ErrorIsFinal'
  <2>1. response[wjob] = "match"
    BY DEF IInv, TypeOK, WorkerInv
  <2>2. \A m \in Request : m # wjob => status'[m] = status[m]
    BY DEF IInv, TypeOK
  <2>3. UNCHANGED <<response, faults>>
    OBVIOUS
  <2> QED BY <2>1, <2>2, <2>3 DEF IInv, ErrorIsFinal
<1>7. LiveHasOwner'
  BY <1>0 DEF IInv, TypeOK, LiveHasOwner, HandlerInv, HandlerHolds, WorkerHolds, Live
<1> QED BY <1>1, <1>2, <1>3, <1>4, <1>5, <1>6, <1>7 DEF IInv

\* The worker lets go of a match that is terminal and whose stream is closed.
LEMMA RenderInv ==
  ASSUME IInv, Render
  PROVE  IInv'
<1> USE QueueAssumption DEF Render, Alive, dbVars, handlerVars, workerVars, procVars, boundVars
<1>0. \A m \in Request : QueueHolds(m)' <=> QueueHolds(m)
  BY DEF QueueHolds
<1>1. TypeOK'
  BY DEF IInv, TypeOK, HandlerPC, WorkerPC, EventType, Outcome, Status
<1>2. HandlerInv'
  BY DEF IInv, TypeOK, HandlerInv, HandlerHolds
<1>3. WorkerInv'
  BY <1>0 DEF IInv, TypeOK, WorkerInv
<1>4. QueueInv'
  BY <1>0 DEF IInv, TypeOK, QueueInv, WorkerInv
<1>5. ProcessInv' /\ StreamWellFormed'
  BY DEF IInv, ProcessInv, TypeOK, StreamWellFormed
<1>6. LogInv'
  BY DEF IInv, TypeOK, LogInv, WorkerInv
<1>7. ErrorIsFinal'
  BY DEF IInv, TypeOK, ErrorIsFinal
<1>8. LiveHasOwner'
  BY <1>0 DEF IInv, TypeOK, LiveHasOwner, HandlerInv, HandlerHolds, WorkerHolds, WorkerInv, Live, Outcome
<1> QED BY <1>1, <1>2, <1>3, <1>4, <1>5, <1>6, <1>7, <1>8 DEF IInv

\* A failed call of the worker loses a row, never the order of its steps.
LEMMA WorkerFaultInv ==
  ASSUME IInv, WorkerFault
  PROVE  IInv'
<1> USE QueueAssumption DEF WorkerFault, DBError, AfterAppend, Alive, dbVars, handlerVars,
      workerVars, procVars, boundVars
<1>0. \A m \in Request : QueueHolds(m)' <=> QueueHolds(m)
  BY DEF QueueHolds
<1>1. TypeOK'
  BY DEF IInv, TypeOK, HandlerPC, WorkerPC, EventType, Outcome, Status
<1>2. HandlerInv'
  BY DEF IInv, TypeOK, HandlerInv, HandlerHolds
<1>3. QueueInv'
  BY <1>0 DEF IInv, TypeOK, QueueInv
<1>4. WorkerInv'
  BY <1>0 DEF IInv, TypeOK, WorkerInv, EventType, Outcome
<1>5. LogInv' /\ ProcessInv' /\ StreamWellFormed'
  BY DEF IInv, TypeOK, LogInv, ProcessInv, StreamWellFormed
<1>6. ErrorIsFinal'
  BY DEF IInv, TypeOK, ErrorIsFinal
<1>7. LiveHasOwner'
  BY <1>0 DEF IInv, TypeOK, LiveHasOwner, HandlerInv, HandlerHolds, WorkerHolds, Live
<1> QED BY <1>1, <1>2, <1>3, <1>4, <1>5, <1>6, <1>7 DEF IInv

\* The shutdown of main; a signal wakes a parked worker, which holds nothing.
LEMMA ProcessMove ==
  ASSUME IInv,
         BeginShutdown \/ ShutdownClean \/ ShutdownTimesOut \/ Signal
  PROVE  IInv'
<1> USE QueueAssumption DEF BeginShutdown, ShutdownClean, ShutdownTimesOut, Signal, Alive,
      dbVars, handlerVars, workerVars, procVars, boundVars
<1>0. \A m \in Request : QueueHolds(m)' <=> QueueHolds(m)
  BY DEF QueueHolds
<1>1. TypeOK'
  <2>1. /\ wpc' \in WorkerPC /\ ctxDone' \in BOOLEAN
        /\ main' \in {"serve", "shutdown", "wait", "stopped"}
    BY DEF IInv, TypeOK, WorkerPC
  <2> QED BY <2>1 DEF IInv, TypeOK
<1>2. HandlerInv'
  BY DEF IInv, TypeOK, HandlerInv, HandlerHolds
<1>3. QueueInv'
  BY <1>0 DEF IInv, QueueInv
<1>a. WorkerInv'
  <2>1. CASE Signal
    <3>1. /\ wpc' = IF wpc = "parked" THEN "exited" ELSE wpc
          /\ UNCHANGED <<wjob, wtype, wseq, pc, response, status, events, execLog, faults>>
      BY <2>1
    <3> QED BY <1>0, <3>1 DEF IInv, TypeOK, WorkerInv
  <2>2. CASE BeginShutdown \/ ShutdownClean \/ ShutdownTimesOut
    <3>1. UNCHANGED <<wpc, wjob, wtype, wseq, pc, response, status, events, execLog, faults>>
      BY <2>2
    <3> QED BY <1>0, <3>1 DEF IInv, TypeOK, WorkerInv
  <2> QED BY <2>1, <2>2
<1>4. ProcessInv'
  BY DEF IInv, ProcessInv
<1>5. LogInv'
  BY DEF IInv, TypeOK, LogInv
<1>6. StreamWellFormed'
  BY DEF IInv, StreamWellFormed
<1>7. ErrorIsFinal'
  BY DEF IInv, TypeOK, ErrorIsFinal
<1>8. LiveHasOwner'
  BY <1>0 DEF IInv, TypeOK, LiveHasOwner, HandlerInv, HandlerHolds, WorkerHolds, Live
<1> QED BY <1>1, <1>2, <1>3, <1>a, <1>4, <1>5, <1>6, <1>7, <1>8 DEF IInv

\* A new process starts with no match in hand.
LEMMA RestartInv ==
  ASSUME IInv, Restart
  PROVE  IInv'
<1> USE QueueAssumption DEF Restart, dbVars, handlerVars, workerVars, procVars, boundVars
<1>0. \A m \in Request : QueueHolds(m)' <=> QueueHolds(m)
  BY DEF QueueHolds
<1>1. TypeOK'
  <2>1. wpc' \in WorkerPC /\ main' \in {"serve", "shutdown", "wait", "stopped"}
    BY DEF WorkerPC
  <2>2. restarts' \in Nat /\ faults' \in Nat /\ crashes' \in Nat
    BY DEF IInv, TypeOK
  <2>3. ctxDone' \in BOOLEAN
    OBVIOUS
  <2> QED BY <2>1, <2>2, <2>3 DEF IInv, TypeOK
<1>2. HandlerInv'
  BY DEF IInv, TypeOK, HandlerInv, HandlerHolds
<1>3. QueueInv'
  BY <1>0 DEF IInv, TypeOK, QueueInv
<1>4. WorkerInv'
  BY <1>0 DEF IInv, TypeOK, WorkerInv, ProcessInv
<1>5. LogInv' /\ ProcessInv' /\ StreamWellFormed'
  BY DEF IInv, TypeOK, LogInv, ProcessInv, StreamWellFormed
<1>6. ErrorIsFinal'
  BY DEF IInv, TypeOK, ErrorIsFinal
<1>7. LiveHasOwner'
  BY <1>0 DEF IInv, TypeOK, LiveHasOwner, HandlerInv, HandlerHolds, WorkerHolds, Live
<1> QED BY <1>1, <1>2, <1>3, <1>4, <1>5, <1>6, <1>7 DEF IInv

\* The handler gives its match to the channel or to the parked worker.
LEMMA EnqueueSendInv ==
  ASSUME IInv, NEW r \in Request, EnqueueSend(r)
  PROVE  IInv'
<1> USE QueueAssumption DEF EnqueueSend, CanSend, Reply, Goto, Alive, dbVars, handlerVars,
      workerVars, procVars, boundVars
<1>0. \A m \in Request : QueueHolds(m)' <=> QueueHolds(m) \/ (wpc # "parked" /\ m = r)
  BY Sent DEF IInv, TypeOK, QueueHolds
<1>1. TypeOK'
  <2>1. /\ pc' \in [Request -> HandlerPC]
        /\ response' \in [Request -> {"none", "match", "error"}]
    BY DEF IInv, TypeOK, HandlerPC
  <2>2. CASE wpc = "parked"
    BY <2>1, <2>2 DEF IInv, TypeOK, WorkerPC
  <2>3. CASE wpc # "parked"
    <3>1. /\ jobs \in Seq(Request) /\ jobs' = Append(jobs, r)
          /\ Len(jobs) < QueueCap /\ QueueCap \in Nat
      BY <2>3 DEF IInv, TypeOK
    <3>2. jobs' \in Seq(Request) /\ Len(jobs') = Len(jobs) + 1
      BY <3>1
    <3>3. /\ Len(jobs') <= QueueCap
          /\ UNCHANGED <<status, events, execLog, hseq, gone, wpc, wjob, wtype, wseq, ctxDone,
                         main, faults, crashes, restarts>>
      BY <2>3, <3>1, <3>2
    <3> QED BY <2>1, <3>2, <3>3 DEF IInv, TypeOK
  <2> QED BY <2>2, <2>3
<1>2. HandlerInv'
  <2>1. CASE wpc = "parked"
    BY <1>0, <2>1 DEF IInv, TypeOK, HandlerInv, HandlerHolds
  <2>2. CASE wpc # "parked"
    BY <1>0, <2>2 DEF IInv, TypeOK, HandlerInv, HandlerHolds
  <2> QED BY <2>1, <2>2
<1>3. QueueInv'
  <2>1. CASE wpc = "parked"
    BY <1>0, <2>1 DEF IInv, TypeOK, QueueInv
  <2>2. CASE wpc # "parked"
    <3>1. \A i \in DOMAIN jobs : jobs[i] # r
      BY DEF IInv, TypeOK, QueueInv, QueueHolds
    <3>2. \A m \in Request : QueueHolds(m)' =>
            pc'[m] = "done" /\ status[m] = "running" /\ events[m] = <<"started">>
              /\ response'[m] = "match" /\ execLog[m] = <<>>
      <4>1. /\ pc'[r] = "done" /\ response'[r] = "match"
            /\ \A m \in Request : m # r => pc'[m] = pc[m] /\ response'[m] = response[m]
        BY DEF IInv, TypeOK
      <4>2. status[r] = "running" /\ events[r] = <<"started">> /\ execLog[r] = <<>>
        BY DEF IInv, HandlerInv, LogInv
      <4> QED BY <1>0, <2>2, <4>1, <4>2 DEF IInv, QueueInv
    <3>3. \A i, j \in DOMAIN jobs' : jobs'[i] = jobs'[j] => i = j
      <4>1. jobs' = Append(jobs, r) /\ jobs \in Seq(Request)
        BY <2>2 DEF IInv, TypeOK
      <4> QED BY <4>1, <3>1 DEF IInv, QueueInv
    <3> QED BY <2>2, <3>2, <3>3 DEF QueueInv
  <2> QED BY <2>1, <2>2
<1>4. WorkerInv'
  <2>1. events[r] = <<"started">> /\ status[r] = "running" /\ execLog[r] = <<>> /\ ~QueueHolds(r)
    BY DEF IInv, TypeOK, HandlerInv, LogInv, QueueInv
  <2>2. CASE wpc = "parked"
    BY <1>0, <2>1, <2>2 DEF IInv, TypeOK, WorkerInv, OpenStream
  <2>3. CASE wpc # "parked"
    BY <1>0, <2>3 DEF IInv, TypeOK, WorkerInv
  <2> QED BY <2>2, <2>3
<1>5. LogInv' /\ ProcessInv' /\ StreamWellFormed'
  BY DEF IInv, TypeOK, LogInv, ProcessInv, StreamWellFormed
<1>6. ErrorIsFinal'
  BY DEF IInv, TypeOK, ErrorIsFinal
<1>7. LiveHasOwner'
  <2>1. CASE wpc = "parked"
    BY <1>0, <2>1 DEF IInv, TypeOK, LiveHasOwner, HandlerHolds, WorkerHolds, WorkerInv, Live
  <2>2. CASE wpc # "parked"
    BY <1>0, <2>2 DEF IInv, TypeOK, LiveHasOwner, HandlerHolds, WorkerHolds, WorkerInv, Live
  <2> QED BY <2>1, <2>2
<1> QED BY <1>1, <1>2, <1>3, <1>4, <1>5, <1>6, <1>7 DEF IInv

\* The worker takes a match out of the channel.
LEMMA WorkerTakeInv ==
  ASSUME IInv, WorkerTake
  PROVE  IInv'
<1> USE QueueAssumption DEF WorkerTake, Alive, dbVars, handlerVars, workerVars, procVars,
      boundVars
<1>0. /\ wjob' \in Request /\ QueueHolds(wjob')
      /\ \A m \in Request : QueueHolds(m)' <=> QueueHolds(m) /\ m # wjob'
      /\ \A i, j \in DOMAIN jobs' : jobs'[i] = jobs'[j] => i = j
  BY Received DEF IInv, TypeOK, QueueInv
<1>1. TypeOK'
  <2>1. jobs' \in Seq(Request) /\ Len(jobs') <= QueueCap
    BY DEF IInv, TypeOK
  <2> QED BY <1>0, <2>1 DEF IInv, TypeOK, WorkerPC
<1>2. HandlerInv'
  BY DEF IInv, TypeOK, HandlerInv, HandlerHolds
<1>3. QueueInv'
  BY <1>0 DEF IInv, TypeOK, QueueInv
<1>4. WorkerInv'
  <2>1. /\ pc[wjob'] = "done" /\ status[wjob'] = "running" /\ response[wjob'] = "match"
        /\ events[wjob'] = <<"started">> /\ execLog[wjob'] = <<>>
    BY <1>0 DEF IInv, QueueInv
  <2>2. OpenStream(events[wjob'])
    BY <2>1 DEF OpenStream
  <2> QED BY <1>0, <2>1, <2>2 DEF IInv, WorkerInv
<1>5. LogInv' /\ ProcessInv' /\ StreamWellFormed'
  BY DEF IInv, TypeOK, LogInv, ProcessInv, StreamWellFormed
<1>6. ErrorIsFinal'
  BY DEF IInv, TypeOK, ErrorIsFinal
<1>7. LiveHasOwner'
  BY <1>0 DEF IInv, TypeOK, LiveHasOwner, HandlerHolds, WorkerHolds, WorkerInv, Live
<1> QED BY <1>1, <1>2, <1>3, <1>4, <1>5, <1>6, <1>7 DEF IInv

\* The worker appends its event at the end of the stream.
LEMMA AppendInsertInv ==
  ASSUME IInv, AppendInsert
  PROVE  IInv'
<1> USE QueueAssumption DEF AppendInsert, InsertEvent, AfterAppend, Alive, dbVars,
      handlerVars, workerVars, procVars, boundVars
<1>0. \A m \in Request : QueueHolds(m)' <=> QueueHolds(m)
  BY DEF QueueHolds
<1>a. /\ wjob \in Request /\ events[wjob] \in Seq(EventType) /\ OpenStream(events[wjob])
      /\ events' = [events EXCEPT ![wjob] = Append(events[wjob], wtype)]
  <2>1. wjob \in Request /\ OpenStream(events[wjob]) /\ wseq = Len(events[wjob]) + 1
    BY DEF IInv, TypeOK, WorkerInv
  <2>2. events[wjob] \in Seq(EventType)
    BY <2>1 DEF IInv, TypeOK
  <2>3. wseq \notin DOMAIN events[wjob]
    BY <2>1, <2>2
  <2> QED BY <2>1, <2>2, <2>3 DEF IInv, TypeOK
<1>1. TypeOK'
  <2>1. wtype \in EventType
    BY DEF IInv, TypeOK
  <2>2. events' \in [Request -> Seq(EventType)]
    BY <1>a, <2>1 DEF IInv, TypeOK
  <2>3. wpc' \in WorkerPC
    BY DEF WorkerPC
  <2>4. UNCHANGED <<status, execLog, pc, hseq, gone, response, jobs, wjob, wtype, wseq, ctxDone,
                    main, faults, crashes, restarts>>
    OBVIOUS
  <2> QED BY <2>2, <2>3, <2>4 DEF IInv, TypeOK
<1>2. HandlerInv'
  BY <1>a DEF IInv, TypeOK, HandlerInv, HandlerHolds, WorkerInv
<1>3. QueueInv'
  <2>1. \A m \in Request : QueueHolds(m) => m # wjob /\ events'[m] = events[m]
    BY <1>a DEF IInv, TypeOK, WorkerInv
  <2>2. UNCHANGED <<pc, status, response, execLog, jobs>>
    OBVIOUS
  <2> QED BY <1>0, <2>1, <2>2 DEF IInv, QueueInv
<1>4. WorkerInv'
  <2>1. wtype = "game" \/ wtype \in Outcome
    BY DEF IInv, TypeOK, WorkerInv, EventType
  <2>2. events'[wjob] = Append(events[wjob], wtype)
    BY <1>a DEF IInv, TypeOK
  <2>3. CASE wtype = "game"
    BY <1>0, <1>a, <2>2, <2>3, OpenStreamGame DEF IInv, TypeOK, WorkerInv
  <2>4. CASE wtype \in Outcome
    BY <1>0, <1>a, <2>2, <2>4, OpenStreamVerdict DEF IInv, TypeOK, WorkerInv, Outcome
  <2> QED BY <2>1, <2>3, <2>4
<1>5. ProcessInv'
  BY DEF IInv, ProcessInv
<1>6. LogInv'
  BY <1>a DEF IInv, TypeOK, LogInv, WorkerInv
<1>7. StreamWellFormed'
  <2>1. wtype # "started"
    BY DEF IInv, WorkerInv
  <2>2. \A i \in DOMAIN events'[wjob] :
          /\ events'[wjob][i] = "started" <=> i = 1
          /\ events'[wjob][i] \in Outcome => i = Len(events'[wjob])
    <3>1. events'[wjob] = Append(events[wjob], wtype) /\ wtype \in EventType
      BY <1>a DEF IInv, TypeOK
    <3>2. \A i \in DOMAIN events[wjob] : events'[wjob][i] = events[wjob][i]
      BY <1>a, <3>1
    <3>3. /\ DOMAIN events'[wjob] = 1..(Len(events[wjob]) + 1)
          /\ Len(events'[wjob]) = Len(events[wjob]) + 1
          /\ events'[wjob][Len(events[wjob]) + 1] = wtype
          /\ DOMAIN events[wjob] = 1..Len(events[wjob]) /\ Len(events[wjob]) \in Nat
      BY <1>a, <3>1
    <3>4. ASSUME NEW i \in DOMAIN events'[wjob]
          PROVE  /\ events'[wjob][i] = "started" <=> i = 1
                 /\ events'[wjob][i] \in Outcome => i = Len(events'[wjob])
      <4>1. CASE i \in DOMAIN events[wjob]
        BY <1>a, <3>2, <3>3, <4>1 DEF OpenStream, Outcome
      <4>2. CASE i = Len(events[wjob]) + 1
        BY <1>a, <2>1, <3>3, <4>2 DEF OpenStream
      <4> QED BY <3>3, <4>1, <4>2
    <3> QED BY <3>4
  <2>3. \A m \in Request : m # wjob => events'[m] = events[m]
    BY <1>a DEF IInv, TypeOK
  <2> QED BY <2>2, <2>3 DEF IInv, StreamWellFormed
<1>8. ErrorIsFinal'
  BY DEF IInv, TypeOK, ErrorIsFinal
<1>9. LiveHasOwner'
  BY <1>0 DEF IInv, TypeOK, LiveHasOwner, HandlerInv, HandlerHolds, WorkerHolds, Live
<1> QED BY <1>1, <1>2, <1>3, <1>4, <1>5, <1>6, <1>7, <1>8, <1>9 DEF IInv

\* The process ends: every match of it is lost.
LEMMA DieInv ==
  ASSUME IInv, Die, faults' = faults, crashes' \in Nat, restarts' \in Nat
  PROVE  IInv'
<1> USE QueueAssumption DEF Die, dbVars
<1>0. \A m \in Request : ~QueueHolds(m)'
  BY DEF QueueHolds
<1>1. TypeOK'
  BY DEF IInv, TypeOK, HandlerPC, WorkerPC, EventType, Outcome, Status
<1>2. HandlerInv'
  BY DEF IInv, TypeOK, HandlerInv, HandlerHolds
<1>3. QueueInv' /\ WorkerInv'
  BY <1>0 DEF IInv, TypeOK, QueueInv, WorkerInv
<1>4. LogInv' /\ ProcessInv' /\ StreamWellFormed'
  <2>1. LogInv'
    BY DEF IInv, LogInv
  <2>2. ProcessInv'
    BY DEF ProcessInv
  <2>3. StreamWellFormed'
    BY DEF IInv, StreamWellFormed
  <2> QED BY <2>1, <2>2, <2>3
<1>5. ErrorIsFinal'
  BY DEF IInv, TypeOK, ErrorIsFinal
<1>6. LiveHasOwner'
  BY DEF IInv, TypeOK, LiveHasOwner, HandlerInv, Live
<1> QED BY <1>1, <1>2, <1>3, <1>4, <1>5, <1>6 DEF IInv

-----------------------------------------------------------------------------
(* The invariant                                                           *)

\* The invariant holds initially.
LEMMA InitInv == Init => IInv
<1> SUFFICES ASSUME Init PROVE IInv
  OBVIOUS
<1> USE QueueAssumption DEF Init
<1>1. TypeOK
  <2>1. <<>> \in Seq(EventType) /\ jobs \in Seq(Request) /\ Len(jobs) <= QueueCap
    OBVIOUS
  <2>2. ctxDone \in BOOLEAN
    OBVIOUS
  <2> QED BY <2>1, <2>2 DEF TypeOK, Status, HandlerPC, WorkerPC, EventType
<1>2. HandlerInv BY DEF HandlerInv, HandlerHolds
<1>3. \A m \in Request : ~QueueHolds(m) BY DEF QueueHolds
<1>4. QueueInv BY <1>3 DEF QueueInv
<1>5. WorkerInv BY <1>3 DEF WorkerInv
<1>6. LogInv /\ ProcessInv BY DEF LogInv, ProcessInv
<1>7. StreamWellFormed BY DEF StreamWellFormed
<1>8. LiveHasOwner /\ ErrorIsFinal BY DEF LiveHasOwner, ErrorIsFinal, Live
<1> QED BY <1>1, <1>2, <1>4, <1>5, <1>6, <1>7, <1>8 DEF IInv

\* A stuttering step preserves it.
LEMMA StutterInv == IInv /\ UNCHANGED vars => IInv'
<1> SUFFICES ASSUME IInv, UNCHANGED vars PROVE IInv'
  OBVIOUS
<1> USE DEF vars, dbVars, handlerVars, workerVars, procVars, boundVars
<1>1. \A m \in Request : QueueHolds(m)' <=> QueueHolds(m) BY DEF QueueHolds
<1>2. TypeOK' BY DEF IInv, TypeOK
<1>3. HandlerInv' BY DEF IInv, HandlerInv, HandlerHolds
<1>4. QueueInv' BY <1>1 DEF IInv, QueueInv
<1>5. WorkerInv' BY <1>1 DEF IInv, TypeOK, WorkerInv
<1>6. LogInv' /\ ProcessInv' BY DEF IInv, LogInv, ProcessInv
<1>7. StreamWellFormed' BY DEF IInv, StreamWellFormed
<1>8. LiveHasOwner' BY <1>1 DEF IInv, LiveHasOwner, HandlerHolds, WorkerHolds
<1>9. ErrorIsFinal' BY DEF IInv, ErrorIsFinal
<1> QED BY <1>2, <1>3, <1>4, <1>5, <1>6, <1>7, <1>8, <1>9 DEF IInv

\* Every step preserves it.
LEMMA StepInv == IInv /\ [Next]_vars => IInv'
<1> SUFFICES ASSUME IInv, [Next]_vars PROVE IInv'
  OBVIOUS
<1>1. ASSUME NEW r \in Request, Handler(r) PROVE IInv'
  BY <1>1, HandlerMove, CreateMatchInv, StartMatchInv, StartedSeqInv,
     StartedInsertInv, EnqueueSendInv, FailRejectedInv, HandlerFaultInv
     DEF Handler, HandlerStep
<1>2. CASE WorkerStep
  BY <1>2, WorkerTakeInv, WorkerMove, AppendInsertInv, SettleInv, RenderInv
     DEF WorkerStep
<1>3. CASE WorkerFault
  BY <1>3, WorkerFaultInv
<1>4. CASE Signal
  BY <1>4, ProcessMove
<1>5. CASE MainStep
  <2>1. CASE Exit
    <3>1. Die /\ faults' = faults /\ crashes' \in Nat /\ restarts' \in Nat
      BY <2>1 DEF Exit, boundVars, IInv, TypeOK
    <3> QED BY <3>1, DieInv
  <2> QED BY <1>5, <2>1, ProcessMove DEF MainStep
<1>6. CASE Crash
  <2>1. Die /\ faults' = faults /\ crashes' \in Nat /\ restarts' \in Nat
    BY <1>6 DEF Crash, IInv, TypeOK
  <2> QED BY <2>1, DieInv
<1>7. CASE Restart
  BY <1>7, RestartInv
<1>8. CASE UNCHANGED vars
  BY <1>8, StutterInv
<1> QED BY <1>1, <1>2, <1>3, <1>4, <1>5, <1>6, <1>7, <1>8 DEF Next

\* The inductive invariant holds in every reachable state of every instance.
THEOREM Inductive == Spec => []IInv
<1> QED BY InitInv, StepInv, PTL DEF Spec

\* Every variable keeps its type; in particular the channel never holds more
\* than QueueCap jobs.
THEOREM TypeCorrect == Spec => []TypeOK
<1>1. IInv => TypeOK BY DEF IInv
<1> QED BY <1>1, Inductive, PTL

\* A match is in the hands of at most one of its handler, the channel and the
\* worker: it is executed once at most and never failed by its handler while
\* it is queued or runs.
THEOREM Ownership == Spec => []SingleOwner
<1>1. IInv => SingleOwner
  BY QueueAssumption DEF IInv, TypeOK, SingleOwner, QueueInv, WorkerInv, HandlerHolds, WorkerHolds
<1> QED BY <1>1, Inductive, PTL

\* The INSERT OR IGNORE of AppendEvent never meets a seq that is taken, so no
\* event is dropped silently.
THEOREM EventsKept == Spec => []NoEventLost
<1>1. IInv => NoEventLost
  BY DEF IInv, NoEventLost, HandlerInv, WorkerInv
<1> QED BY <1>1, Inductive, PTL

\* A queued or executing job has a row in status 'running', so the UPDATE of
\* CompleteMatch always finds the row it is meant for.
THEOREM RunningWhileHeld == Spec => []JobIsRunning
<1>1. IInv => JobIsRunning
  BY QueueAssumption DEF IInv, TypeOK, JobIsRunning, QueueInv, WorkerInv, WorkerHolds
<1> QED BY <1>1, Inductive, PTL

\* A match of this process that is not terminal is in somebody's hands, unless
\* a database call failed.
THEOREM NothingForgotten == Spec => []LiveHasOwner
<1>1. IInv => LiveHasOwner BY DEF IInv
<1> QED BY <1>1, Inductive, PTL

\* A client told of an error has no match that runs, unless a database call
\* failed.
THEOREM ErrorsFinal == Spec => []ErrorIsFinal
<1>1. IInv => ErrorIsFinal BY DEF IInv
<1> QED BY <1>1, Inductive, PTL

\* match.started comes first and once, a verdict last.
THEOREM StreamsClosed == Spec => []StreamWellFormed
<1>1. IInv => StreamWellFormed BY DEF IInv
<1> QED BY <1>1, Inductive, PTL

\* Nothing is appended to a match whose execution log has been rendered.
THEOREM LogsFinal == Spec => []LogIsFinal
<1>1. IInv => LogIsFinal BY DEF IInv, LogInv, LogIsFinal
<1> QED BY <1>1, Inductive, PTL

-----------------------------------------------------------------------------
(* The queue implements MatchLifecycle                                     *)

\* The verdict of every match, as MatchLifecycle sees it.
verdictBar == [m \in Request |-> VerdictOf(events[m])]

\* A step that changes neither the status nor the stream of any match is a
\* stutter of MatchLifecycle.
LEMMA Stutter ==
  ASSUME UNCHANGED <<status, events>>
  PROVE  [L!LNext]_(L!lvars)
BY DEF L!lvars, VerdictOf

\* The initial states map to the initial state of MatchLifecycle.
LEMMA RefineInit == Init => L!LInit
BY DEF Init, L!LInit, VerdictOf

\* match.started is no verdict.
LEMMA RefineStarted ==
  ASSUME IInv, NEW r \in Request, StartedInsert(r)
  PROVE  [L!LNext]_(L!lvars)
<1>1. events[r] = <<>> /\ hseq[r] = 1
  BY DEF IInv, HandlerInv, StartedInsert
<1>2. events' = [events EXCEPT ![r] = <<"started">>]
  BY <1>1 DEF IInv, TypeOK, StartedInsert, InsertEvent
<1>3. VerdictOf(<<"started">>) = "none" /\ VerdictOf(<<>>) = "none"
  BY DEF VerdictOf, Outcome
<1>4. verdictBar' = verdictBar
  BY <1>1, <1>2, <1>3 DEF verdictBar, IInv, TypeOK
<1>5. status' = status
  BY DEF StartedInsert
<1> QED BY <1>4, <1>5 DEF L!lvars, verdictBar

\* An append of the worker publishes a verdict or is a stutter.
LEMMA RefineAppend ==
  ASSUME IInv, AppendInsert
  PROVE  [L!LNext]_(L!lvars)
<1>1. /\ wjob \in Request /\ OpenStream(events[wjob]) /\ wseq = Len(events[wjob]) + 1
      /\ status[wjob] = "running" /\ (wtype = "game" \/ wtype \in Outcome)
      /\ events[wjob] \in Seq(EventType)
  BY DEF IInv, TypeOK, WorkerInv, AppendInsert, EventType
<1>2. wseq \notin DOMAIN events[wjob]
  BY <1>1
<1>3. events' = [events EXCEPT ![wjob] = Append(events[wjob], wtype)] /\ status' = status
  BY <1>2 DEF AppendInsert, InsertEvent
<1>4. verdictBar' = [verdictBar EXCEPT ![wjob] = VerdictOf(Append(events[wjob], wtype))]
  BY <1>1, <1>3 DEF verdictBar, IInv, TypeOK
<1>5. verdictBar[wjob] = "none"
  BY <1>1, OpenStreamGame DEF verdictBar
<1>6. CASE wtype = "game"
  <2>1. verdictBar' = verdictBar
    BY <1>1, <1>4, <1>5, <1>6, OpenStreamGame DEF verdictBar
  <2> QED BY <1>3, <2>1 DEF L!lvars, verdictBar
<1>7. CASE wtype \in Outcome
  <2>1. VerdictOf(Append(events[wjob], wtype)) = wtype
    BY <1>1, <1>7, OpenStreamVerdict
  <2>2. L!Publish(wjob, wtype)
    BY <1>1, <1>3, <1>4, <1>5, <2>1 DEF L!Publish, verdictBar
  <2> QED BY <1>1, <1>7, <2>2 DEF L!LNext, L!Outcome, Outcome
<1> QED BY <1>1, <1>6, <1>7

\* The worker settles a match on the verdict it published.
LEMMA RefineSettle ==
  ASSUME IInv, Settle
  PROVE  [L!LNext]_(L!lvars)
<1>1. /\ wjob \in Request /\ status[wjob] = "running" /\ wtype \in Outcome
      /\ events[wjob] \in Seq(EventType)
      /\ OpenStream(events[wjob]) \/ VerdictOf(events[wjob]) = wtype
  BY DEF IInv, TypeOK, WorkerInv, Settle
<1>2. VerdictOf(events[wjob]) \in {"none", wtype}
  BY <1>1, OpenStreamGame
<1>3. status' = [status EXCEPT ![wjob] = wtype] /\ events' = events
  BY <1>1 DEF Settle, CompleteMatch, FailMatch, Live, Outcome, IInv, TypeOK
<1>4. L!Settle(wjob, wtype)
  BY <1>1, <1>2, <1>3 DEF L!Settle
<1> QED BY <1>1, <1>4 DEF L!LNext, L!Outcome, Outcome

\* A handler only fails a match that has no verdict.
LEMMA RefineRejected ==
  ASSUME IInv, NEW r \in Request, FailRejected(r)
  PROVE  [L!LNext]_(L!lvars)
<1>1. status[r] = "running" /\ events[r] = <<"started">>
  BY DEF IInv, HandlerInv, FailRejected
<1>2. VerdictOf(events[r]) = "none"
  BY <1>1 DEF VerdictOf, Outcome
<1>3. status' = [status EXCEPT ![r] = "failed"] /\ events' = events
  BY <1>1 DEF FailRejected, FailMatch, Live, IInv, TypeOK
<1>4. L!Settle(r, "failed")
  BY <1>1, <1>2, <1>3 DEF L!Settle
<1> QED BY <1>4 DEF L!LNext, L!Outcome

\* Every step maps to a step of MatchLifecycle or a stutter.
LEMMA RefineStep == IInv /\ [Next]_vars => [L!LNext]_(L!lvars)
<1> SUFFICES ASSUME IInv, [Next]_vars PROVE [L!LNext]_(L!lvars)
  OBVIOUS
<1>1. CASE UNCHANGED <<status, events>>
  BY <1>1, Stutter
<1>2. ASSUME NEW r \in Request, CreateMatch(r) PROVE [L!LNext]_(L!lvars)
  <2>1. L!Create(r)
    BY <1>2 DEF CreateMatch, L!Create, IInv, HandlerInv
  <2> QED BY <2>1 DEF L!LNext
<1>3. ASSUME NEW r \in Request, StartMatch(r) PROVE [L!LNext]_(L!lvars)
  <2>1. L!Start(r)
    BY <1>3 DEF StartMatch, L!Start, IInv, HandlerInv
  <2> QED BY <2>1 DEF L!LNext
<1>4. ASSUME NEW r \in Request, Handler(r) PROVE [L!LNext]_(L!lvars)
  <2>1. \/ CreateMatch(r) \/ StartMatch(r) \/ StartedInsert(r) \/ FailRejected(r)
        \/ UNCHANGED <<status, events>>
    BY <1>4 DEF Handler, HandlerStep, Accept, RejectRequest, StartedSeq, EnqueueSend,
       EnqueueCancelled, EnqueueBusy, HandlerFault, Disconnect, dbVars
  <2> QED BY <2>1, <1>1, <1>2, <1>3, RefineStarted, RefineRejected
<1>5. CASE WorkerStep \/ WorkerFault
  <2>1. AppendInsert \/ Settle \/ UNCHANGED <<status, events>>
    BY <1>5 DEF WorkerStep, WorkerFault, WorkerTake, WorkerExit, WorkerPark, GameEvent,
       Verdict, BeginAppend, AppendSeq, Render, dbVars
  <2> QED BY <2>1, <1>1, RefineAppend, RefineSettle
<1>6. CASE Signal \/ MainStep \/ Crash \/ Restart \/ UNCHANGED vars
  <2>1. UNCHANGED <<status, events>>
    BY <1>6 DEF Signal, MainStep, BeginShutdown, ShutdownClean, ShutdownTimesOut, Exit,
       Crash, Die, Restart, vars, dbVars
  <2> QED BY <2>1, <1>1
<1> QED BY <1>4, <1>5, <1>6 DEF Next

\* The queue implements MatchLifecycle, whatever the requests, the capacity,
\* the failed calls and the crashes: a match has at most one verdict, its
\* terminal status agrees with it, and neither changes again.
THEOREM ImplementsLifecycle == Spec => Lifecycle
<1>1. Spec => L!LInit /\ [][L!LNext]_(L!lvars)
  BY RefineInit, RefineStep, Inductive, PTL DEF Spec
<1> QED BY <1>1 DEF Lifecycle, L!LSpec
-----------------------------------------------------------------------------
(* One failing call strands one match at most                              *)

\* A live match that nobody will settle. The worker may still hold it, past
\* an UPDATE of its status that failed.
Forgotten(m) == /\ status[m] \in Live /\ pc[m] # "lost"
                /\ ~HandlerHolds(m) /\ ~QueueHolds(m)
                /\ WorkerHolds(m) => wpc = "render"

Doomed == {m \in Request : Forgotten(m)}

DoomedInv == IsFiniteSet(Doomed) /\ Cardinality(Doomed) <= faults

\* Nothing is forgotten that was not.
NoneForgotten == \A m \in Request : Forgotten(m)' => Forgotten(m)

-----------------------------------------------------------------------------
(* The steps without a fault                                               *)

\* A handler lets go of a match that has no row, that is failed, or that
\* another holds.
LEMMA HandlerForgets ==
  ASSUME IInv, NEW r \in Request, Accept(r) \/ HandlerStep(r) \/ Disconnect(r)
  PROVE  NoneForgotten
<1> USE DEF NoneForgotten, Forgotten, HandlerHolds, WorkerHolds, Reply, Goto,
      dbVars, handlerVars, workerVars, procVars, boundVars
<1>1. CASE Accept(r) \/ RejectRequest(r) \/ Disconnect(r) \/ StartedSeq(r)
             \/ StartedInsert(r) \/ EnqueueCancelled(r) \/ EnqueueBusy(r)
  <2>1. \A m \in Request : QueueHolds(m)' <=> QueueHolds(m)
    BY <1>1 DEF QueueHolds, Accept, RejectRequest, Disconnect, StartedSeq, StartedInsert,
       EnqueueCancelled, EnqueueBusy
  <2> QED
    BY <1>1, <2>1 DEF IInv, TypeOK, HandlerInv, Live, Accept, RejectRequest, Disconnect,
       StartedSeq, StartedInsert, EnqueueCancelled, EnqueueBusy
<1>2. CASE CreateMatch(r) \/ StartMatch(r)
  <2>1. \A m \in Request : QueueHolds(m)' <=> QueueHolds(m)
    BY <1>2 DEF QueueHolds, CreateMatch, StartMatch
  <2>2. CASE CreateMatch(r)
    BY <2>1, <2>2 DEF IInv, TypeOK, HandlerInv, CreateMatch
  <2>3. CASE StartMatch(r)
    BY <2>1, <2>3 DEF IInv, TypeOK, HandlerInv, StartMatch
  <2> QED
    BY <1>2, <2>2, <2>3
<1>3. CASE FailRejected(r)
  <2>1. \A m \in Request : QueueHolds(m)' <=> QueueHolds(m)
    BY <1>3 DEF QueueHolds, FailRejected
  <2> QED
    BY <1>3, <2>1 DEF IInv, TypeOK, Live, FailRejected, FailMatch, EnqueueReply
<1>4. CASE EnqueueSend(r)
  <2>1. CASE wpc = "parked"
    <3>1. \A m \in Request : QueueHolds(m)' <=> QueueHolds(m)
      BY <1>4, <2>1 DEF QueueHolds, EnqueueSend
    <3>2. wjob = NoJob /\ NoJob \notin Request
      BY <2>1, QueueAssumption DEF IInv, WorkerInv
    <3> QED
      BY <1>4, <2>1, <3>1, <3>2 DEF IInv, TypeOK, EnqueueSend
  <2>2. CASE wpc # "parked"
    <3>1. \A m \in Request : QueueHolds(m)' <=> QueueHolds(m) \/ m = r
      BY <1>4, <2>2, Sent DEF IInv, TypeOK, EnqueueSend
    <3> QED
      BY <1>4, <2>2, <3>1 DEF IInv, TypeOK, EnqueueSend
  <2> QED
    BY <2>1, <2>2
<1> QED
  BY <1>1, <1>2, <1>3, <1>4 DEF HandlerStep

\* The worker takes its match from the channel and lets go of it settled,
\* unless it was forgotten before.
LEMMA WorkerForgets ==
  ASSUME IInv, WorkerStep
  PROVE  NoneForgotten
<1> USE DEF NoneForgotten, Forgotten, HandlerHolds, WorkerHolds,
      dbVars, handlerVars, workerVars, procVars, boundVars
<1>1. CASE WorkerTake
  <2>1. \A m \in Request : QueueHolds(m)' <=> QueueHolds(m) /\ m # wjob'
    BY <1>1, Received DEF IInv, TypeOK, QueueInv, WorkerTake
  <2>2. wjob = NoJob /\ NoJob \notin Request
    BY <1>1, QueueAssumption DEF IInv, WorkerInv, WorkerTake
  <2> QED
    BY <1>1, <2>1, <2>2 DEF WorkerTake
<1>2. ASSUME ~WorkerTake PROVE NoneForgotten
  <2>1. \A m \in Request : QueueHolds(m)' <=> QueueHolds(m)
    BY <1>2 DEF WorkerStep, QueueHolds, WorkerExit, WorkerPark, GameEvent, Verdict,
       BeginAppend, AppendSeq, AppendInsert, Settle, Render
  <2>2. CASE WorkerExit \/ WorkerPark \/ GameEvent \/ (\E o \in Outcome : Verdict(o))
               \/ AppendSeq \/ AppendInsert
    <3>1. status' = status /\ pc' = pc /\ wjob' = wjob /\ wpc' # "render"
      BY <2>2 DEF WorkerExit, WorkerPark, GameEvent, Verdict, BeginAppend, AppendSeq,
         AppendInsert, AfterAppend
    <3> QED
      BY <2>1, <3>1
  <2>3. CASE Settle
    <3>1. wjob \in Request /\ status[wjob] = "running"
      BY <2>3 DEF IInv, TypeOK, WorkerInv, Settle
    <3>2. status'[wjob] \notin Live /\ \A m \in Request \ {wjob} : status'[m] = status[m]
      BY <2>3, <3>1 DEF IInv, TypeOK, Settle, CompleteMatch, FailMatch, Live
    <3> QED
      BY <2>1, <2>3, <3>2 DEF Settle
  <2>4. CASE Render
    BY <2>1, <2>4 DEF Render
  <2> QED
    BY <1>2, <2>2, <2>3, <2>4 DEF WorkerStep
<1> QED
  BY <1>1, <1>2

\* A process that ends leaves nothing of its own; a new one has nothing.
LEMMA ProcessForgets ==
  ASSUME IInv, Signal \/ MainStep \/ Crash \/ Restart \/ UNCHANGED vars
  PROVE  NoneForgotten
<1> USE DEF NoneForgotten, Forgotten, HandlerHolds, WorkerHolds,
      vars, dbVars, handlerVars, workerVars, procVars, boundVars
<1>1. CASE Exit \/ Crash
  <2>1. pc' = [m \in Request |-> IF pc[m] = "idle" THEN "idle" ELSE "lost"] /\ status' = status
    BY <1>1 DEF Exit, Crash, Die
  <2> QED
    BY <2>1 DEF IInv, HandlerInv, Live
<1>2. CASE Signal \/ BeginShutdown \/ ShutdownClean \/ ShutdownTimesOut \/ UNCHANGED vars
  <2>1. \A m \in Request : QueueHolds(m)' <=> QueueHolds(m)
    BY <1>2 DEF QueueHolds, Signal, BeginShutdown, ShutdownClean, ShutdownTimesOut
  <2> QED
    BY <1>2, <2>1 DEF Signal, BeginShutdown, ShutdownClean, ShutdownTimesOut
<1>3. CASE Restart
  <2>1. \A m \in Request : QueueHolds(m)' <=> QueueHolds(m)
    BY <1>3 DEF QueueHolds, Restart
  <2>2. wjob = NoJob /\ NoJob \notin Request
    BY <1>3, QueueAssumption DEF IInv, ProcessInv, WorkerInv, Restart
  <2> QED
    BY <1>3, <2>1, <2>2 DEF Restart
<1> QED
  BY <1>1, <1>2, <1>3 DEF MainStep

-----------------------------------------------------------------------------
(* The steps with a fault                                                  *)

\* The match whose call failed is the only one that may be forgotten.
LEMMA FaultForgetsOne ==
  ASSUME IInv, WorkerFault \/ \E r \in Request : HandlerFault(r)
  PROVE  /\ faults' = faults + 1
         /\ \E x : \A m \in Request : Forgotten(m)' => Forgotten(m) \/ m = x
<1> USE DEF Forgotten, HandlerHolds, WorkerHolds, dbVars, handlerVars, workerVars, procVars
<1>1. faults' = faults + 1
  BY DEF WorkerFault, HandlerFault, DBError
<1>2. \A m \in Request : QueueHolds(m)' <=> QueueHolds(m)
  BY DEF QueueHolds, WorkerFault, HandlerFault
<1>3. CASE WorkerFault
  <2>1. \A m \in Request : Forgotten(m)' => Forgotten(m) \/ m = wjob
    BY <1>2, <1>3 DEF WorkerFault
  <2> QED
    BY <1>1, <2>1
<1>4. ASSUME NEW r \in Request, HandlerFault(r)
      PROVE  \A m \in Request : Forgotten(m)' => Forgotten(m) \/ m = r
  BY <1>2, <1>4 DEF HandlerFault, EnqueueReply, Reply, Goto, IInv, TypeOK
<1> QED
  BY <1>1, <1>3, <1>4

-----------------------------------------------------------------------------
LEMMA DoomedInit == Init => DoomedInv
<1> SUFFICES ASSUME Init PROVE DoomedInv
  OBVIOUS
<1>1. Doomed = {}
  BY DEF Init, Doomed, Forgotten, Live
<1> QED
  BY <1>1, FS_EmptySet DEF Init, DoomedInv

LEMMA DoomedStep == IInv /\ DoomedInv /\ [Next]_vars => DoomedInv'
<1> SUFFICES ASSUME IInv, DoomedInv, [Next]_vars PROVE DoomedInv'
  OBVIOUS
<1>1. CASE WorkerFault \/ \E r \in Request : HandlerFault(r)
  <2>1. PICK x : \A m \in Request : Forgotten(m)' => Forgotten(m) \/ m = x
    BY <1>1, FaultForgetsOne
  <2>2. Doomed' \subseteq Doomed \union {x}
    BY <2>1 DEF Doomed
  <2>3. /\ IsFiniteSet(Doomed \union {x})
        /\ Cardinality(Doomed \union {x}) <= Cardinality(Doomed) + 1
    <3>1. IsFiniteSet(Doomed) /\ Cardinality(Doomed) \in Nat
      BY FS_CardinalityType DEF DoomedInv
    <3> QED
      BY <3>1, FS_AddElement
  <2>4. /\ IsFiniteSet(Doomed') /\ Cardinality(Doomed') \in Nat
        /\ Cardinality(Doomed') <= Cardinality(Doomed \union {x})
    BY <2>2, <2>3, FS_Subset, FS_CardinalityType
  <2>5. /\ faults' = faults + 1 /\ faults \in Nat /\ Cardinality(Doomed) \in Nat
        /\ Cardinality(Doomed \union {x}) \in Nat
    BY <1>1, <2>3, FaultForgetsOne, FS_CardinalityType DEF IInv, TypeOK, DoomedInv
  <2> QED
    BY <2>3, <2>4, <2>5 DEF DoomedInv
<1>2. ASSUME NoneForgotten, faults' = faults PROVE DoomedInv'
  <2>1. Doomed' \subseteq Doomed
    BY <1>2 DEF Doomed, NoneForgotten
  <2>2. /\ IsFiniteSet(Doomed') /\ Cardinality(Doomed') \in Nat
        /\ Cardinality(Doomed) \in Nat /\ faults \in Nat
        /\ Cardinality(Doomed') <= Cardinality(Doomed)
    BY <2>1, FS_Subset, FS_CardinalityType DEF DoomedInv, IInv, TypeOK
  <2> QED
    BY <1>2, <2>2 DEF DoomedInv
<1>3. ASSUME NEW r \in Request, Accept(r) \/ HandlerStep(r) \/ Disconnect(r) PROVE DoomedInv'
  <2>1. faults' = faults
    BY <1>3 DEF Accept, Disconnect, HandlerStep, RejectRequest, CreateMatch, StartMatch,
       StartedSeq, StartedInsert, EnqueueSend, EnqueueCancelled, EnqueueBusy, FailRejected,
       boundVars
  <2> QED
    BY <1>2, <1>3, <2>1, HandlerForgets
<1>4. CASE WorkerStep
  <2>1. faults' = faults
    BY <1>4 DEF WorkerStep, WorkerTake, WorkerExit, WorkerPark, GameEvent, Verdict,
       BeginAppend, AppendSeq, AppendInsert, Settle, Render, boundVars
  <2> QED
    BY <1>2, <1>4, <2>1, WorkerForgets
<1>5. CASE Signal \/ MainStep \/ Crash \/ Restart \/ UNCHANGED vars
  <2>1. faults' = faults
    BY <1>5 DEF Signal, MainStep, BeginShutdown, ShutdownClean, ShutdownTimesOut, Exit, Crash,
       Restart, vars, boundVars
  <2> QED
    BY <1>2, <1>5, <2>1, ProcessForgets
<1> QED
  BY <1>1, <1>3, <1>4, <1>5 DEF Next, Handler

\* A failing database call leaves at most one match of the process live and in
\* nobody's hands: what prepare, Enqueue and execute ignore costs the match it
\* happens to, never another one.
THEOREM FaultsBounded == Spec => []OneFaultOneMatch
<1>1. IInv /\ DoomedInv => OneFaultOneMatch
  <2> SUFFICES ASSUME IInv, DoomedInv PROVE OneFaultOneMatch
    OBVIOUS
  <2>1. Stranded \subseteq Doomed
    BY DEF Stranded, Doomed, Forgotten
  <2>2. /\ Cardinality(Stranded) \in Nat /\ Cardinality(Doomed) \in Nat /\ faults \in Nat
        /\ Cardinality(Stranded) <= Cardinality(Doomed)
    BY <2>1, FS_Subset, FS_CardinalityType DEF DoomedInv, IInv, TypeOK
  <2> QED
    BY <2>2 DEF DoomedInv, OneFaultOneMatch
<1> QED
  BY <1>1, Inductive, DoomedInit, DoomedStep, PTL DEF Spec
=============================================================================
