----------------------------- MODULE MatchQueue -----------------------------
(***************************************************************************)
(* The asynchronous match queue: the HTTP handlers that prepare a match    *)
(* and hand it to a channel, the one worker goroutine that executes it,    *)
(* main's shutdown sequence, and the rows they write.                      *)
(*                                                                         *)
(* A request is one POST /practice/run. Its `matches` row is identified by *)
(* the request that inserts it: ids are AUTOINCREMENT, so each prepare     *)
(* gets a row of its own.                                                  *)
(*                                                                         *)
(* Atomicity: store.Open sets SetMaxOpenConns(1), so one SQL statement is  *)
(* one step and nothing larger is: AppendEvent is a SELECT MAX(seq) and    *)
(* then an INSERT OR IGNORE, and anything may happen between the two.      *)
(*                                                                         *)
(* The games of a match (runMatchAttempts) are a sequence of at most       *)
(* MaxGameEvents events that ends in "completed" or "failed".              *)
(***************************************************************************)
EXTENDS Naturals, Sequences, FiniteSets

CONSTANTS
  Request,        \* the practice requests
  NoJob,          \* the worker holds no job
  QueueCap,       \* config.QueueCap; 0 is an unbuffered channel
  MaxGameEvents,  \* bound: events a match appends before its verdict
  MaxFaults,      \* bound: database calls that return an error
  MaxCrashes,     \* bound: times the process is killed
  MaxRestarts     \* bound: times the process is started again

ASSUME QueueAssumption ==
  /\ NoJob \notin Request
  /\ {QueueCap, MaxGameEvents, MaxFaults, MaxCrashes, MaxRestarts} \subseteq Nat

VARIABLES
  \* the database
  status,     \* [Request -> Status], matches.status
  events,     \* [Request -> Seq(EventType)], the events rows by seq
  execLog,    \* [Request -> Seq(EventType)], the events of execution_logs
  \* the handlers
  pc,         \* [Request -> where the handler of the request is]
  hseq,       \* [Request -> the seq the handler read for match.started]
  gone,       \* requests whose client has disconnected: r.Context() is done
  response,   \* [Request -> what the client was told]
  \* the queue and its worker
  jobs,       \* the buffered channel
  wpc, wjob,  \* where the worker is, with which job,
  wtype, wseq,\* and the event it is appending
  \* the process
  ctxDone,    \* the context of main is cancelled: a signal arrived
  main,       \* where main is
  faults, crashes, restarts

dbVars      == <<status, events, execLog>>
handlerVars == <<pc, hseq, gone, response>>
workerVars  == <<wpc, wjob, wtype, wseq>>
procVars    == <<ctxDone, main>>
boundVars   == <<faults, crashes, restarts>>
vars == <<dbVars, handlerVars, jobs, workerVars, procVars, boundVars>>

Outcome   == {"completed", "failed"}
Status    == {"none", "queued", "running"} \union Outcome
EventType == {"started", "game"} \union Outcome
Live      == {"queued", "running"}

HandlerPC == {"idle", "submit", "start", "seq", "insert", "enqueue",
              "cancelled", "busy", "done", "lost"}
WorkerPC  == {"select", "parked", "run", "seq", "insert", "settle", "render",
              "exited"}

TypeOK ==
  /\ status  \in [Request -> Status]
  /\ events  \in [Request -> Seq(EventType)]
  /\ execLog \in [Request -> Seq(EventType)]
  /\ pc   \in [Request -> HandlerPC]
  /\ hseq \in [Request -> Nat]
  /\ gone \in SUBSET Request
  /\ response \in [Request -> {"none", "match", "error"}]
  /\ jobs \in Seq(Request)
  /\ Len(jobs) <= QueueCap
  /\ wpc  \in WorkerPC
  /\ wjob \in Request \union {NoJob}
  /\ wtype \in EventType
  /\ wseq \in Nat
  /\ ctxDone \in BOOLEAN
  /\ main \in {"serve", "shutdown", "wait", "stopped"}
  /\ faults \in Nat /\ crashes \in Nat /\ restarts \in Nat

Init ==
  /\ status  = [r \in Request |-> "none"]
  /\ events  = [r \in Request |-> <<>>]
  /\ execLog = [r \in Request |-> <<>>]
  /\ pc   = [r \in Request |-> "idle"]
  /\ hseq = [r \in Request |-> 0]
  /\ gone = {}
  /\ response = [r \in Request |-> "none"]
  /\ jobs = <<>>
  /\ wpc = "select" /\ wjob = NoJob /\ wtype = "game" /\ wseq = 0
  /\ ctxDone = FALSE
  /\ main = "serve"
  /\ faults = 0 /\ crashes = 0 /\ restarts = 0

-----------------------------------------------------------------------------
(* The store                                                               *)

\* The process is running: its goroutines may take steps.
Alive == main # "stopped"

\* SELECT MAX(seq) of the match, plus one. Rows are never deleted and a seq
\* is some earlier MAX plus one, so the seqs of a match are 1..Len.
NextEventSeq(m) == Len(events[m]) + 1

\* INSERT OR IGNORE under UNIQUE(match_id, seq): a seq already taken drops
\* the new row without an error.
InsertEvent(m, seq, type) ==
  events' = [events EXCEPT ![m] = IF seq \in DOMAIN @ THEN @ ELSE Append(@, type)]

\* UPDATE ... WHERE status = 'running'
CompleteMatch(m) ==
  status' = [status EXCEPT ![m] = IF @ = "running" THEN "completed" ELSE @]

\* UPDATE ... WHERE status NOT IN ('completed', 'failed')
FailMatch(m) ==
  status' = [status EXCEPT ![m] = IF @ \in Live THEN "failed" ELSE @]

\* A database call returns an error.
DBError == /\ faults < MaxFaults
           /\ faults' = faults + 1
           /\ UNCHANGED <<crashes, restarts>>

-----------------------------------------------------------------------------
(* The handler of a request: RunMatch after Submit, prepare, Enqueue       *)

Goto(r, label) == pc' = [pc EXCEPT ![r] = label]

Reply(r, what) == /\ Goto(r, "done")
                  /\ response' = [response EXCEPT ![r] = what]

\* A select that takes the room it has for an off-by-one.
CanSendOverCap == wpc = "parked" \/ Len(jobs) <= QueueCap

\* Slips a change of the handler could make; no action of Next is one.
\* The hand-over comes first and match.started after it.
SendThenStarted(r) == /\ Alive /\ pc[r] = "enqueue" /\ Len(jobs) < QueueCap
                      /\ jobs' = Append(jobs, r) /\ Goto(r, "seq")
                      /\ UNCHANGED <<dbVars, hseq, gone, response, workerVars, procVars, boundVars>>

\* The context is looked at after the send rather than in the same select.
SendThenCheck(r) ==
  /\ Alive /\ pc[r] = "enqueue" /\ Len(jobs) < QueueCap
  /\ jobs' = Append(jobs, r)
  /\ IF r \in gone THEN Goto(r, "cancelled") /\ UNCHANGED response ELSE Reply(r, "match")
  /\ UNCHANGED <<dbVars, hseq, gone, workerVars, procVars, boundVars>>

\* The row is left 'queued' for the worker to start.
LeaveQueued(r) == /\ Alive /\ pc[r] = "start" /\ Goto(r, "seq")
                  /\ UNCHANGED <<dbVars, hseq, gone, response, jobs, workerVars, procVars, boundVars>>

\* A busy queue is reported without failing the match.
ReportBusy(r) == /\ Alive /\ pc[r] = "enqueue" /\ r \notin gone /\ wpc # "parked" /\ Len(jobs) >= QueueCap
                 /\ Reply(r, "match")
                 /\ UNCHANGED <<dbVars, hseq, gone, jobs, workerVars, procVars, boundVars>>

\* A cancelled request returns without failing the match.
ReturnCancelled(r) == /\ Alive /\ pc[r] = "enqueue" /\ r \in gone
                      /\ Reply(r, "error")
                      /\ UNCHANGED <<dbVars, hseq, gone, jobs, workerVars, procVars, boundVars>>

\* The listener accepts the request; Submit is under way. srv.Shutdown
\* closes the listener.
Accept(r) == /\ main = "serve"
             /\ pc[r] = "idle"
             /\ Goto(r, "submit")
             /\ UNCHANGED <<dbVars, hseq, gone, response, jobs, workerVars, procVars, boundVars>>

\* Submit fails, or an agent is missing or of the wrong type: there is no
\* match row yet.
RejectRequest(r) == /\ Alive /\ pc[r] = "submit"
                    /\ Reply(r, "error")
                    /\ UNCHANGED <<dbVars, hseq, gone, jobs, workerVars, procVars, boundVars>>

CreateMatch(r) == /\ Alive /\ pc[r] = "submit"
                  /\ status' = [status EXCEPT ![r] = "queued"]
                  /\ Goto(r, "start")
                  /\ UNCHANGED <<events, execLog, hseq, gone, response, jobs, workerVars, procVars, boundVars>>

\* UPDATE ... WHERE status = 'queued'
StartMatch(r) == /\ Alive /\ pc[r] = "start"
                 /\ status' = [status EXCEPT ![r] = IF @ = "queued" THEN "running" ELSE @]
                 /\ Goto(r, "seq")
                 /\ UNCHANGED <<events, execLog, hseq, gone, response, jobs, workerVars, procVars, boundVars>>

\* events.Append "match.started": the SELECT ...
StartedSeq(r) == /\ Alive /\ pc[r] = "seq"
                 /\ hseq' = [hseq EXCEPT ![r] = NextEventSeq(r)]
                 /\ Goto(r, "insert")
                 /\ UNCHANGED <<dbVars, gone, response, jobs, workerVars, procVars, boundVars>>

\* ... and the INSERT.
StartedInsert(r) == /\ Alive /\ pc[r] = "insert"
                    /\ InsertEvent(r, hseq[r], "started")
                    /\ Goto(r, "enqueue")
                    /\ UNCHANGED <<status, execLog, hseq, gone, response, jobs, workerVars, procVars, boundVars>>

\* The select of Enqueue. A receiver parked on the channel takes the job
\* directly; otherwise the job is buffered if there is room.
CanSend == wpc = "parked" \/ Len(jobs) < QueueCap

EnqueueSend(r) ==
  /\ Alive /\ pc[r] = "enqueue" /\ CanSend
  /\ IF wpc = "parked"
     THEN /\ wpc' = "run" /\ wjob' = r
          /\ UNCHANGED <<jobs, wtype, wseq>>
     ELSE /\ jobs' = Append(jobs, r)
          /\ UNCHANGED workerVars
  /\ Reply(r, "match")
  /\ UNCHANGED <<dbVars, hseq, gone, procVars, boundVars>>

\* The context is the request's: it is done when the client has gone.
EnqueueCancelled(r) == /\ Alive /\ pc[r] = "enqueue"
                       /\ r \in gone
                       /\ Goto(r, "cancelled")
                       /\ UNCHANGED <<dbVars, hseq, gone, response, jobs, workerVars, procVars, boundVars>>

\* default: neither case is ready.
EnqueueBusy(r) == /\ Alive /\ pc[r] = "enqueue"
                  /\ r \notin gone /\ ~CanSend
                  /\ Goto(r, "busy")
                  /\ UNCHANGED <<dbVars, hseq, gone, response, jobs, workerVars, procVars, boundVars>>

\* Enqueue returns id 0 when cancelled, an error, and the id when busy:
\* RunMatch ignores the error that comes with an id and the client is sent
\* to the page of the failed match.
EnqueueReply(r) == Reply(r, IF pc[r] = "busy" THEN "match" ELSE "error")

FailRejected(r) == /\ Alive /\ pc[r] \in {"cancelled", "busy"}
                   /\ FailMatch(r)
                   /\ EnqueueReply(r)
                   /\ UNCHANGED <<events, execLog, hseq, gone, jobs, workerVars, procVars, boundVars>>

\* A database call of the handler fails. prepare returns the error and
\* leaves the row as it is; Enqueue ignores the error of FailMatch.
HandlerFault(r) == /\ Alive /\ DBError
                   /\ \/ pc[r] \in {"start", "seq", "insert"} /\ Reply(r, "error")
                      \/ pc[r] \in {"cancelled", "busy"} /\ EnqueueReply(r)
                   /\ UNCHANGED <<dbVars, hseq, gone, jobs, workerVars, procVars>>

Disconnect(r) == /\ pc[r] \notin {"idle", "done", "lost"} /\ r \notin gone
                 /\ gone' = gone \union {r}
                 /\ UNCHANGED <<dbVars, pc, hseq, response, jobs, workerVars, procVars, boundVars>>

HandlerStep(r) == \/ RejectRequest(r) \/ CreateMatch(r) \/ StartMatch(r)
                  \/ StartedSeq(r) \/ StartedInsert(r)
                  \/ EnqueueSend(r) \/ EnqueueCancelled(r) \/ EnqueueBusy(r)
                  \/ FailRejected(r)

-----------------------------------------------------------------------------
(* The worker: Queue.work and Processor.execute                            *)

\* Slips a change of the worker could make; no action of Next is one.
\* The worker goes to sleep with a job in the channel.
ParkAnyway == /\ Alive /\ wpc = "select" /\ ~ctxDone
              /\ wpc' = "parked"
              /\ UNCHANGED <<dbVars, handlerVars, jobs, wjob, wtype, wseq, procVars, boundVars>>

\* The status is written before the verdict event.
SettleFirst(o) == /\ Alive /\ wpc = "run"
                  /\ status' = [status EXCEPT ![wjob] = o]
                  /\ wpc' = "seq" /\ wtype' = o
                  /\ UNCHANGED <<events, execLog, handlerVars, jobs, wjob, wseq, procVars, boundVars>>

\* The log is rendered before the verdict event.
RenderFirst(o) == /\ Alive /\ wpc = "run"
                  /\ execLog' = [execLog EXCEPT ![wjob] = events[wjob]]
                  /\ wpc' = "seq" /\ wtype' = o
                  /\ UNCHANGED <<status, events, handlerVars, jobs, wjob, wseq, procVars, boundVars>>

\* An append is followed by another attempt at the same event.
AppendAgain == IF wtype = "game" THEN "run" ELSE "seq"

\* The select of work. When the context is done and a job is ready, Go
\* picks either case.
WorkerTake == /\ Alive /\ wpc = "select" /\ jobs # <<>>
              /\ wjob' = Head(jobs) /\ jobs' = Tail(jobs)
              /\ wpc' = "run"
              /\ UNCHANGED <<dbVars, handlerVars, wtype, wseq, procVars, boundVars>>

WorkerExit == /\ Alive /\ wpc = "select" /\ ctxDone
              /\ wpc' = "exited"
              /\ UNCHANGED <<dbVars, handlerVars, jobs, wjob, wtype, wseq, procVars, boundVars>>

WorkerPark == /\ Alive /\ wpc = "select" /\ ~ctxDone /\ jobs = <<>>
              /\ wpc' = "parked"
              /\ UNCHANGED <<dbVars, handlerVars, jobs, wjob, wtype, wseq, procVars, boundVars>>

BeginAppend(type) == /\ wpc' = "seq" /\ wtype' = type
                     /\ UNCHANGED <<dbVars, handlerVars, jobs, wjob, wseq, procVars, boundVars>>

\* runMatchAttempts appends an event of a game ...
GameEvent == /\ Alive /\ wpc = "run"
             /\ Len(events[wjob]) <= MaxGameEvents
             /\ BeginAppend("game")

\* ... or returns a winner, a draw or an error.
Verdict(o) == /\ Alive /\ wpc = "run"
              /\ BeginAppend(o)

AppendSeq == /\ Alive /\ wpc = "seq"
             /\ wseq' = NextEventSeq(wjob)
             /\ wpc' = "insert"
             /\ UNCHANGED <<dbVars, handlerVars, jobs, wjob, wtype, procVars, boundVars>>

AfterAppend == IF wtype = "game" THEN "run" ELSE "settle"

AppendInsert == /\ Alive /\ wpc = "insert"
                /\ InsertEvent(wjob, wseq, wtype)
                /\ wpc' = AfterAppend
                /\ UNCHANGED <<status, execLog, handlerVars, jobs, wjob, wtype, wseq, procVars, boundVars>>

Settle == /\ Alive /\ wpc = "settle"
          /\ IF wtype = "completed" THEN CompleteMatch(wjob) ELSE FailMatch(wjob)
          /\ wpc' = "render"
          /\ UNCHANGED <<events, execLog, handlerVars, jobs, wjob, wtype, wseq, procVars, boundVars>>

\* RenderExecutionLog. The worker is the only writer of the rows it reads
\* (SingleOwner), so its three statements are one step.
Render == /\ Alive /\ wpc = "render"
          /\ execLog' = [execLog EXCEPT ![wjob] = events[wjob]]
          /\ wpc' = "select" /\ wjob' = NoJob
          /\ UNCHANGED <<status, events, handlerVars, jobs, wtype, wseq, procVars, boundVars>>

\* A database call of the worker fails: execute ignores every such error.
WorkerFault ==
  /\ Alive /\ DBError
  /\ \/ wpc \in {"seq", "insert"} /\ wpc' = AfterAppend /\ UNCHANGED wjob
     \/ wpc = "settle" /\ wpc' = "render" /\ UNCHANGED wjob
     \/ wpc = "render" /\ wpc' = "select" /\ wjob' = NoJob
  /\ UNCHANGED <<dbVars, handlerVars, jobs, wtype, wseq, procVars>>

WorkerStep == \/ WorkerTake \/ WorkerExit \/ WorkerPark
              \/ GameEvent \/ (\E o \in Outcome : Verdict(o))
              \/ AppendSeq \/ AppendInsert \/ Settle \/ Render

-----------------------------------------------------------------------------
(* main: signal, graceful shutdown, exit; crash and restart                *)

\* A slip: the worker waits on the channel alone, a signal does not wake it.
SignalUnheard == /\ Alive /\ ~ctxDone /\ ctxDone' = TRUE
                 /\ UNCHANGED <<dbVars, handlerVars, jobs, workerVars, main, boundVars>>

\* SIGTERM or SIGINT: the context of main and of the worker is cancelled.
\* A worker parked in its select is woken by that and exits.
Signal == /\ Alive /\ ~ctxDone
          /\ ctxDone' = TRUE
          /\ wpc' = IF wpc = "parked" THEN "exited" ELSE wpc
          /\ UNCHANGED <<dbVars, handlerVars, jobs, wjob, wtype, wseq, main, boundVars>>

BeginShutdown == /\ main = "serve" /\ ctxDone
                 /\ main' = "shutdown"
                 /\ UNCHANGED <<dbVars, handlerVars, jobs, workerVars, ctxDone, boundVars>>

\* srv.Shutdown returns when no handler is active, or with an error after
\* its 10 seconds; main goes on to matchQueue.Wait in both cases.
ShutdownClean == /\ main = "shutdown"
                 /\ \A r \in Request : pc[r] \in {"idle", "done", "lost"}
                 /\ main' = "wait"
                 /\ UNCHANGED <<dbVars, handlerVars, jobs, workerVars, ctxDone, boundVars>>

ShutdownTimesOut == /\ main = "shutdown"
                    /\ \E r \in Request : pc[r] \notin {"idle", "done", "lost"}
                    /\ main' = "wait"
                    /\ UNCHANGED <<dbVars, handlerVars, jobs, workerVars, ctxDone, boundVars>>

\* The process ends: its handlers, the channel and the worker are gone.
Die == /\ main' = "stopped"
       /\ pc' = [r \in Request |-> IF pc[r] = "idle" THEN "idle" ELSE "lost"]
       /\ jobs' = <<>>
       /\ wpc' = "exited" /\ wjob' = NoJob
       /\ UNCHANGED <<dbVars, hseq, gone, response, wtype, wseq, ctxDone>>

\* matchQueue.Wait returns and main with it.
Exit == /\ main = "wait" /\ wpc = "exited"
        /\ Die
        /\ UNCHANGED boundVars

Crash == /\ Alive /\ crashes < MaxCrashes
         /\ crashes' = crashes + 1
         /\ Die
         /\ UNCHANGED <<faults, restarts>>

\* A new process opens the same database. Store.Init leaves the matches
\* alone: nothing picks up a row of the former process.
Restart == /\ main = "stopped" /\ restarts < MaxRestarts
           /\ restarts' = restarts + 1
           /\ main' = "serve" /\ ctxDone' = FALSE
           /\ wpc' = "select"
           /\ UNCHANGED <<dbVars, handlerVars, jobs, wjob, wtype, wseq, faults, crashes>>

MainStep == BeginShutdown \/ ShutdownClean \/ ShutdownTimesOut \/ Exit

-----------------------------------------------------------------------------
Handler(r) == Accept(r) \/ HandlerStep(r) \/ HandlerFault(r) \/ Disconnect(r)

Next == \/ \E r \in Request : Handler(r)
        \/ WorkerStep \/ WorkerFault
        \/ Signal \/ MainStep \/ Crash \/ Restart

Spec == Init /\ [][Next]_vars

\* Each goroutine that can run does run, and the calls it makes return: a
\* move has its timeout (PerMoveTimeout), srv.Shutdown has its own.
Fairness == /\ \A r \in Request : WF_vars(HandlerStep(r))
            /\ WF_vars(WorkerStep)
            /\ WF_vars(MainStep)

FairSpec == Spec /\ Fairness

-----------------------------------------------------------------------------
(* Properties                                                              *)

\* Who will still write to the rows of a match.
HandlerHolds(m) == pc[m] \in {"start", "seq", "insert", "enqueue", "cancelled", "busy"}
QueueHolds(m)   == \E i \in DOMAIN jobs : jobs[i] = m
WorkerHolds(m)  == wjob = m

\* A match is held by at most one of its handler, the channel and the
\* worker, and is in the channel once: Enqueue gives it away or fails it,
\* never both, so that no match is executed twice or failed while it runs.
SingleOwner ==
  /\ \A m \in Request : /\ ~(HandlerHolds(m) /\ QueueHolds(m))
                        /\ ~(HandlerHolds(m) /\ WorkerHolds(m))
                        /\ ~(QueueHolds(m) /\ WorkerHolds(m))
  /\ \A i, j \in DOMAIN jobs : jobs[i] = jobs[j] => i = j

\* Between the SELECT and the INSERT of AppendEvent nobody else appends to
\* the match: the INSERT OR IGNORE never drops an event silently.
NoEventLost ==
  /\ \A r \in Request : pc[r] = "insert" => hseq[r] = Len(events[r]) + 1
  /\ wpc = "insert" => wseq = Len(events[wjob]) + 1

\* A match that waits in the channel or is being executed is 'running', so
\* CompleteMatch, whose UPDATE asks for that, always takes effect.
JobIsRunning ==
  \A m \in Request :
    \/ QueueHolds(m)
    \/ WorkerHolds(m) /\ wpc \in {"run", "seq", "insert", "settle"}
    => status[m] = "running"

\* As long as no database call has failed, a match of this process that is
\* not terminal is in somebody's hands.
LiveHasOwner ==
  faults = 0 => \A m \in Request :
                  status[m] \in Live /\ pc[m] # "lost"
                    => HandlerHolds(m) \/ QueueHolds(m) \/ WorkerHolds(m)

\* A client that was told its request failed has no match that runs or will
\* run, as long as no database call has failed.
ErrorIsFinal ==
  faults = 0 => \A m \in Request : response[m] = "error" => status[m] \in {"none", "failed"}

\* match.started opens the event stream and occurs once; a verdict closes it.
StreamWellFormed ==
  \A m \in Request : \A i \in DOMAIN events[m] :
    /\ events[m][i] = "started" <=> i = 1
    /\ events[m][i] \in Outcome => i = Len(events[m])

\* Once the execution log is rendered the event stream does not grow.
LogIsFinal == \A m \in Request : execLog[m] # <<>> => execLog[m] = events[m]

\* The verdict of an event stream that has at most one, at its end.
VerdictOf(s) ==
  IF \A i \in DOMAIN s : s[i] \notin Outcome THEN "none"
  ELSE IF \A i \in 1..(Len(s) - 1) : s[i] \notin Outcome THEN s[Len(s)]
  ELSE "conflict"

\* The queue implements the life cycle it promises for a match: status and
\* verdict never contradict each other and never change once set.
L == INSTANCE MatchLifecycle WITH Match <- Request,
                                  verdict <- [m \in Request |-> VerdictOf(events[m])]

Lifecycle == L!LSpec

\* A failed database call costs at most one match: those of this process that
\* are not terminal and in nobody's hands are no more than the failed calls.
Stranded == {m \in Request : /\ status[m] \in Live /\ pc[m] # "lost"
                             /\ ~HandlerHolds(m) /\ ~QueueHolds(m) /\ ~WorkerHolds(m)}
OneFaultOneMatch == Cardinality(Stranded) <= faults

\* Every match of this process that runs comes to an end, unless the server
\* is told to stop or dies, or a database call fails.
EventuallySettled ==
  \A m \in Request :
    (status[m] = "running" /\ pc[m] # "lost")
      ~> \/ status[m] \in Outcome
         \/ ctxDone \/ pc[m] = "lost" \/ faults > 0

\* A signal is always followed by the end of the process, whatever is in the
\* channel and whatever the handlers still put there.
EventuallyStops == ctxDone ~> main = "stopped"

\* ADR-003: "A crashed or failed match is always marked match.failed".
FailedIsMarked ==
  \A m \in Request : status[m] = "failed" => \E i \in DOMAIN events[m] : events[m][i] = "failed"

\* SPECS 16: "async match queue with graceful shutdown": a process that ends
\* after a signal leaves no job in the channel whose match is still to be run.
StopDrainsQueue ==
  [][main' = "stopped" /\ crashes' = crashes
       => \A m \in Request : QueueHolds(m) => status[m] \notin Live]_vars
=============================================================================
