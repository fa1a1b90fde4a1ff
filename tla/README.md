# Progames in TLA+

Progames is a Go web server on which users upload bots for the board game Caro
(8x8, five in a row) and let them play practice matches against a built-in
system agent. This directory holds TLA+ models of its core, the TLC
configurations that check them, and proofs that TLAPS checks. Paths below are
relative to the repository.

    tlc -config MCQueue.cfg MCQueue        # model-check one instance
    tlc -config Site.cfg MCSite
    tlapm MatchQueueProofs.tla             # check the proofs

## The system

| component | state | operations | hard about it |
| --- | --- | --- | --- |
| match queue: `internal/matchexec/queue.go`, `processor.go` (`prepare`, `execute`), `cmd/progames/main.go` | a bounded channel of jobs, one worker goroutine, the context of `main`; `matches` rows | `Enqueue` (create row, start it, append `match.started`, hand over, or fail the match), `work`/`execute`, signal, `srv.Shutdown`, `Wait`, restart | handlers, worker and shutdown interleave; the context of `Enqueue` is the HTTP request's; jobs are in memory, rows are not; errors of the store are ignored in places |
| match execution: `processor.go` (`runMatchAttempts`, `startRunners`, `runTwoGames`, `runGame`, `finishGame`), `internal/sandbox/image.go` | wins and move times in memory; `games`, `moves`, `events` rows; bot processes and images | start and clean-up, attempts of two games, turns, tie-break, rematches | memory and rows must agree; some errors end the match, others are discarded; bots die |
| game engine: `pkg/engine/caro/caro.go` | board, player to move, turn count, result | `ApplyMove` | wins are found by counting around the last mark only |
| submission and build: `internal/submission`, `internal/sandbox/compiler.go`, `internal/artifact` | two files, rows in `source_codes`, `submissions`, `agents`, one build container | `Submit` = validate, intake, compile | seven writes in three places, two of them compensated; the client may go away; a crash between any two |
| event store and execution log: `internal/store/event.go`, `internal/events` | `events`, `moves`, `execution_logs` rows | `Append` (read MAX(seq), then INSERT OR IGNORE), `ProjectMove`, `RenderExecutionLog` | two statements per append; a byte limit for two loops, each with its marker |
| bot runners: `internal/runner` (`ProcessRunner`, `ContainerRunner`) | process or container, buffered stdout, stderr | `Start`, `Move` with timeout, `Close` | a reader goroutine outlives its timeout; lines printed ahead |
| system agent: `internal/runner/runner.go` | none | scores every empty cell by the windows of five through it | scores add up; the agent infers its own mark |
| accounts and sessions: `internal/auth`, `internal/store/user.go` | `users` and `sessions` rows, failure counts and locks in memory | sign up, in (look at the lock, verify, record or clear, create a session), out, expiry | a sign-in is several steps that others' may separate; the counts die with the process, the sessions do not |
| match and game pages: `internal/service`, `internal/web` | none | read match, games, moves, log | several reads while the worker writes, no transaction around them |

How they interact: a POST to the practice page calls `Submit`; if that returns
"compiled", `RunMatch` calls `Enqueue` in the same handler. The worker takes the
job and runs `runMatchAttempts`, which starts the runners, asks them for moves
through the engine, and writes events and rows through the event store. Then
`execute` appends the verdict, sets the status and renders the log. Pages read
the rows at any time. All rows are in one SQLite database with a single
connection (`SetMaxOpenConns(1)`), so one statement is one atomic step and
nothing larger is.

What makes each component correct:

- queue: a match has one owner at a time; none is forgotten; status, verdict
  event and log never contradict each other; the process stops when told to;
- execution: the rules decide the match, applied to what is persisted; rows and
  events say the same; the rows are written in an order that their readers can rely
  on; a bot that is lost wins no later game; no process and no image is left behind
  but those that Docker would not stop or remove; a match ends;
- engine: a winner is named exactly when there is a line; turns alternate;
- submission: what the rows offer to run exists on disk, what is on disk is on
  record, containers are removed, the client is told what the rows say;
- runner: an answer belongs to the state it was asked for, a lost bot stays lost;
- system agent: it wins when it can and else prevents what it can;
- accounts: however sign-ins interleave an address takes no more failures than the
  lock allows; a session ends by signing out or, at the latest, by expiring, and in no other way;
- pages and log: what a page says of outcomes and finished games, read by read, fits
  together whatever was written in between; a log is marked if and only if it lacks
  something.

## Modules

| module | models |
| --- | --- |
| `MatchLifecycle` | abstract: status and verdict event of a match |
| `MatchQueue` | handlers, channel, worker, shutdown, crash and restart; implements `MatchLifecycle` |
| `MatchQueueInv` | its inductive invariant `IInv` |
| `MatchQueueProofs` | its theorems |
| `MCQueue` | its TLC instances (two requests, symmetric) |
| `MatchRules` | abstract: attempts of two games, tie-break, rematch, draw |
| `GameRules` | abstract: the engine as the match sees it (turns, end, who may win when) |
| `MatchRows` | abstract: the rows of a match in the order in which they are written, for their readers |
| `MatchExec` | `runMatchAttempts` and below; uses `GameRules`, implements `MatchRules` and `MatchRows` |
| `ExecProofs` | the theorem on the tie-break, and the invariant of the memory |
| `ExecRowsProofs` | the theorems on rows, events and bots, with an invariant of both |
| `Caro` | the engine on a Size x Size board; implements `GameRules` |
| `CaroProofs` | its theorems |
| `AgentRunner` | abstract: what a caller may expect of `Move` |
| `Runner` | `ProcessRunner` and `ContainerRunner` against any bot program; implements `AgentRunner` |
| `RunnerProofs` | its theorems |
| `SystemAgent` | `systemBestMove`, playing on the engine of `Caro` |
| `AgentProofs` | theorems about it, from those of `Caro` |
| `MCAgent` | its TLC instance: the 8x8 board, an opponent within one column |
| `Submission` | `Submit`, `Build` and the file repository |
| `SubmissionProofs` | its theorems |
| `Sessions` | accounts, sign-in, lock and sessions |
| `ExecutionLog` | `RenderExecutionLog`: limit and markers |
| `Site` | the pages, on `Sessions`, the rows of `MatchRows` and `ExecutionLog` |
| `SiteProofs` | theorems about `Sessions`, the pages and the log |
| `MCSite` | its TLC instance |

`MatchExec` meets the other modules through the abstract ones: its board is
`GameRules`, which `Caro` implements, and its bots are those of `AgentRunner`,
which `Runner` implements (a timeout or a failed read loses the bot, an overlong
line does not). `MatchQueue` in turn sees a match as events and a verdict. `Site`
reads the rows of `MatchRows`, which `MatchExec` is shown to write.

A module marks as *slips* the operators that no action uses: each is the form a
definition would have after a plausible mistake, and violates a property.

### MatchQueue

A request stands for one POST to the practice page, and, as `prepare` inserts a
new row each time, for its match. `pc[r]` walks through the handler: `submit`
(`Submit` and the checks of `RunMatch`; failing there leaves no match),
`start` (the row is 'queued'), `seq` and `insert` (the two statements of the
append of `match.started`), `enqueue` (the select), then `done`, or through
`cancelled`/`busy` (`FailMatch`) to `done`. The select is modelled as Go executes
it: a receiver that is parked takes the job directly, a buffered channel takes
it if there is room, a done context is ready too, `default` is taken only if
nothing else is ready. The worker's own select may pick the done context although
jobs are waiting. `wpc` walks through `execute`: `run` (the games, abstracted to
at most `MaxGameEvents` events: `MatchExec` has the detail), then a verdict event,
the status, the log. Every database call may return an error (`HandlerFault`,
`WorkerFault`) with the consequence the code gives it: `prepare` returns,
`Enqueue` and `execute` go on. `Signal`, `BeginShutdown`, `Shutdown...`, `Exit`
are `main`; `Die` drops channel and goroutines; `Restart` opens the same
database, in which nothing looks for unfinished matches.

### MatchRows and MatchExec

`MatchRows` is what a reader of the database has to know of the worker: a game is
created, its moves are inserted turn by turn, its result is set, then the second game
follows, then the status of the match, then the log. An insertion may fail without a
trace, which sets `dropped`. It does not know attempts but for `Rematch`, nor times,
nor why a game ended. `MatchExec` implements it up to the return of
`runMatchAttempts`; the refinement reads "a turn has been written" off `pc`.

In `MatchExec`, `pc` walks through a match: `start`, then per game `create`, per turn `turn`
(`Move`, `parseMove`, `ApplyMove`), `event`, `project`, then `finish`, `ended`;
after two games `decide`, at last `close` and `untag` (the deferred function) and `done`.
What `Move` can return is taken from the runners: a line that is accepted or
refused, a timeout, an error because the streams of the bot are closed, an error
because the line is too long. `alive` has the bots that may still answer, `running`
those whose process or container is there. A timeout closes the streams in any case
and ends the process, but Docker may fail to stop the container, which the code does
not notice; a bot whose streams are closed may run on by itself too. A line that is
too long changes neither. `Close`, the first half of the deferred function, asks once
more to stop every bot and may fail as well (`unstopped`). A system agent always
answers with an empty cell. `StartRunners` and `StartFails` also tag the image of a
user bot, which `RemoveImages`, the second half, removes; without Docker there are no
images. The board is that of
`GameRules`: the number of marks decides when a game may be won and when it must
end. Rows of the current attempt only are kept: nothing reads earlier ones during
the match. `moves` and `events` have the same shape (accepted turns by agent,
other turns as a set), so that the projection can be stated as equality.

### Caro

Cells are one-based pairs as in the protocol. `Run` is the inner loop: the marks
passed in one direction until the first other cell, at most WinLen - 1.
`IsWinningMove` adds both directions to the new mark. `Line`, the reference, looks
at the whole board. `Input` includes coordinates off each edge, and every input may
hit an occupied cell.

### Runner

A `Move` is `Call`, then `Write` (the state goes to stdin and a goroutine starts
to read one line) or `WriteFails`, then `Return` or `TimeOut`, as the select picks;
either can be taken when both are ready. The goroutine of move n is `n` in `readers`
until `ReadLine` or `ReadEOF` puts its result into the channel `ch[n]`, which has room
for one; `TimeOut` leaves it behind. What is between bot and buffered reader is one
sequence of lines, each with the state the bot had read last when it printed it:
the runner does not see that, the properties do. A `Close` that stops a container
may fail without notice, so `Kill` may leave the bot running. The bot reads states
and prints lines, short or too long, in any order and at any speed, and may end at
any time. That `Write` never blocks is right for this program: a match has at most
6 attempts of 2 games of 64 turns, and as many states of 65 bytes fit into the
buffer of a pipe (64 KB) even if the bot never reads.

### SystemAgent

`BestMove` is the function of the code: every empty cell gets a bonus for being
near the centre and the scores of the windows of five cells through it that hold
marks of one player only; the first of the best cells is taken. Scores add up over
windows, which is where the description of the weights and the code part.

### Submission

A request is one call of `Submit`. Files go from `none` through `partial` to
`whole`, so that a crash can leave half a file; Docker calls fail when the
context of the request is done; the deferred removal runs on every return after
the container was created, under the same context. `Write` deletes the file of a
broken copy (`UnlinkSource`, `UnlinkBinary`) and discards the error of the deletion,
so half a file may stay; `uncleaned` records which clean-ups failed, `unrecorded`
whose failed build did not reach its row, and the properties name both. `Failing` selects the calls
that may return an error in a run. `Waiting` is the one state that a request may
stay in for ever: `ContainerWait` has no deadline, only the context of the client.

### Sessions

`SignIn` is modelled as the steps that others may separate: `Begin` (`isLocked`),
`Verify` (`UserByEmail` and `verifyPassword`, one outcome), `RecordFailure` or
`ClearFailures` (each under the mutex), `CreateSession`. A locked address is answered
like a wrong password and leaves no trace, so it is no step. Time passes in `Tick`,
which shortens locks and sessions; a lock is `LockFor` ticks long, a session `TTL`.
`recordFailure` keeps counting after the threshold and a lock that runs out does not
reset the count, so that the next failure locks at once (`Bumped`). `StartProcess`
forgets the map of failures, which is in memory, and deletes the expired sessions, as
`Store.Init` does and nothing else. A browser holds the ids in `cookies`; `SignOut` makes
it forget one whether or not the DELETE works, whose error is discarded.

### Site and ExecutionLog

A page is `Get`, its reads one by one (`Reads` lists the statements of each handler
in their order), and `Respond`; a step of the worker, a sign-out or a restart may
come between any two. What the page says is computed from what it has read as the
templates do (`ResultLabel`, `MatchOutcome`, `PracticeOutcome`, `GameView`). Pages
write nothing, so one at a time shows what any number of them may see. The match is
decided in one attempt: earlier attempts only add finished games. After `Restart` the
worker does not go on with the match, as in the code, and pages show it as running
for ever. A game without a result is labelled "Failed" (`ResultLabel`), also while it is
being played and the page says "The match is still running": `SummaryAgrees` says that it
is the last one.

`RenderExecutionLog` folds the lines of the events and then the stderr blocks into a
text of at most `MaxBytes` bytes. A marker stops its own loop only: a short block
may follow the marker of the events, and there may be two markers, which is not what
ADR-003 says. `LogsAgree` says what holds none the less: the limit is
kept but for the markers, and a log that lacks something has one. To see
it the events alone must exceed the limit: the default of 1 MiB is far above what a match
of ordinary moves writes, but the limit can be configured.

## Runs

| run | instance | shows |
| --- | --- | --- |
| `queue_safety` | 2 requests, capacity 1, disconnects, signal, 1 failing call, 1 crash, 1 restart, fair | one owner per match; no event dropped; a job is 'running'; one failing call strands one match at most; errors are final; event streams and logs; refinement of `MatchLifecycle`; running matches end, unless the process is told to stop or a call fails; a signal ends the process |
| `caro_rules` | 3x3, three in a row | winner and draw on every reachable board; refinement of `GameRules`: turns, who may win and when, the end |
| `exec` | user bot and system agent, durations 1 and 2, 3 cells, 2 attempts, 2 failing calls of any kind, fair | decided by the rules from what is persisted; rows and events agree; refinement of `MatchRows`; averages compare equal numbers of moves; a bot lost in one game wins no later one and not the match; bots and images stay only if Docker would not stop or remove them at the end; the match ends |
| `site` | 2 addresses, 2 sign-ins and 2 sessions at a time, lock after 3 failures; the five pages, 2 cells, 12 logs; restarts | the lock holds; sessions end as they should; outcomes, finished games, replay, log and list of the pages fit together |
| `runner` | 3 moves, 2 lines per state | one reader at a time; a bot that keeps to the protocol is never misread; refinement of `AgentRunner` |
| `agent_play` | 8x8, opponent in column 2, either seat | the agent knows its mark, loses only to two threats, wins unless the opponent threatens to |
| `submission` | 2 requests, 2 failing calls of any kind, disconnect, crash, fair | rows have files, files have rows, the answer is what the rows say, containers are removed while the client stays, requests end unless a compiler hangs |

Runs that find a statement of the documentation violated by the code:

| run | statement | what the code does |
| --- | --- | --- |
| `queue_failed_unmarked` | ADR-003: a failed match is always marked `match.failed` | busy and cancelled matches have no such event |
| `queue_stop_strands` | SPECS 16: queue with graceful shutdown | jobs left in the channel after a signal are dropped, their rows stay 'running' |
| `runner_stale` | SPECS 14.3: one line per state, the first line wins | a second line is the answer to the next state |
| `agent_win` | runner.go: a winning move beats blocking | two windows of four completed by one cell score 180,000, a win 100,000 |
| `submission_leak` | compiler.go: the container is removed after each build | not when the client has disconnected |

The models also show behaviour that a reader of the documentation may not expect
and that has no run of its own: a row is 'running' before its match is queued
(`StartMatch` in `prepare`; SPECS 14.5 asks for a game to have started); if a later
write of `prepare` fails the row stays 'queued' or 'running' (`HandlerFault`), and if
the status update of a submission fails it stays 'pending' (`UpdateInvalid`,
`UpdateCompiled`); a moves row is inserted although the append of its event failed
(`ProjectMove` after a failing `AppendTurn`), and the duration of a move whose row
could not be inserted still counts in the average, which SPECS 4.4 wants computed
from the persisted ones. The properties of `MatchExec` that compare memory, rows and
events are therefore conditional on `dropped`, which records that an error was
discarded. A bot whose container or process does not start leaves its image
(`StartFails`: the tags built so far are not returned).

Two more of this kind are on the pages. The execution log may go on after a marker: when
the events alone exceed the limit, the loop over the stderr of the bots (events.go:57-69)
appends a block that still fits, or a second marker, where ADR-003:154 says "stop
appending and embed the truncation marker". And the summary of a running match
("The match is still running", match.html:42) lists the game in progress with the label
"Failed" (match.html:96, `resultLabel` in bff_match.go:30), where us-005 wants "Per-game
labels match stored `Game.result`": a game without a result has no label of its own. The
page invariants `LogsAgree` and `SummaryAgrees` are worded so as to hold with both.

The counterexample of `agent_win`: the opponent has marks in rows 2, 3, 5, 6 and 7
of a column. Row 4 would complete two windows of five, so that it scores 2 x 90,000
and is taken although the agent has four in a row of its own with an open end.
Scores of windows of three count too, so that by the scores alone a single threat may
outweigh a win as well. `WinsUnlessThreatened` says that without a threat nothing does.
Blocking the cell is not a loss by itself.

`TieBreakIsEven` says more than the code asks for: whenever averages decide an
attempt, both bots have the same number of accepted moves, because the first move
changes sides between the games and each game ends on a turn that fixes the
difference. The comparison by cross-multiplication and its cases for a bot without
moves are therefore equivalent to comparing totals, and an attempt that does not
decide adds the same total to both sides.

### Bounds

- Requests: two race for the last place in the channel, or one waits while the
  other is executed. Capacity 1 and 0 differ (rendezvous), and the latter
  is used in `queue_failed_unmarked`. Three requests were checked once with the
  same faults (8 million states); the proofs cover every number. `MaxGameEvents = 1` separates a stream with
  a game from one without.
- One fault, one crash and one restart meet every statement in every order with
  the rest; two faults are used where a compensation or a second discarded error
  can fail.
- A 3x3 board has edges, corners, both diagonals, full boards with and without a
  line. Runs longer than WinLen that a move closes in the middle need a larger one;
  the theorems cover every size and length.
- Three cells with `MinWin = 2` give both players accepted moves, wins and draws;
  two durations give equal and different averages; two attempts reach both a
  rematch and the end of the attempts; two failing calls hit an event and its row.
- Three moves are one that is late or ahead, the one it is mistaken for, and one
  after a bot is lost; two lines per state are one more than the protocol allows.
- Two sign-ins are enough for one to look at the lock before the other sets it; two
  addresses show that failures are counted apart. The lock takes 3 failures and lasts
  2 ticks, so that it can be set, extended by a late failure, run out and return with
  a single one; failures are counted up to 4, one more than the threshold. The
  theorems cover every number of each, and in the same way every board, log and limit.
- `load` splits the behaviours of `site`: either many sign in, or the match of a user
  with one session is played and looked at. Accounts and matches meet in the session
  that a page asks for only, and that one can be signed out, or lost in a restart, in
  both. Logs are chosen from those that fit, fill the limit, and exceed it by an
  event, by a block or by both.
- The opponent of `agent_play` has one column of the real board. That is enough for
  open and gapped threats and for a cell that completes two windows; threats in
  two directions at once are left to the theorems, which cover every opponent.
- `CHECK_DEADLOCK FALSE`: a game, a match, a submission and the process end.
- Symmetry is used in `site` (sign-ins, session ids) and in the violation runs of the
  queue, never where liveness is checked.

### Fairness

`MatchQueue` assumes weak fairness of each handler, of the worker and of `main`:
goroutines that can run are scheduled, and the calls they make return, because a
move has `PerMoveTimeout` and `srv.Shutdown` its ten seconds. Nothing is assumed
of clients, signals, faults or crashes. `MatchExec` assumes weak fairness of its
step for the same reason. This includes the calls to Docker that the worker makes
(to build, create, attach, start, stop, remove), most of which run under
`context.Background()` without a deadline: that a match ends, and that the process stops after
a signal, holds as long as Docker answers. `Submission` assumes it of the steps of each request, except
while `ContainerWait` waits and the client stays: that call has no deadline, so
nothing says that it returns. Nothing is assumed in `Site`, `Runner` and `Caro`.

## Proofs

`MatchQueueProofs`, for every set of requests, every capacity and every number of
faults, crashes and restarts (assumption `QueueAssumption`):

- `Inductive`: `Spec => []IInv`. The properties are not inductive by themselves. To
  show that a match has one owner one must know where the others are: a handler
  that holds a match has answered nobody; a job in the channel was answered, is
  'running', is there once and has only `match.started` in its stream; the worker's
  job is in nobody else's hands and its stream is open until the verdict. `IInv` is
  the conjunction of these (`HandlerInv`, `QueueInv`, `WorkerInv`, `LogInv`) with the
  types. The proof has one lemma per action.
- `TypeCorrect`, `Ownership`, `EventsKept`, `RunningWhileHeld`, `NothingForgotten`,
  `ErrorsFinal`, `StreamsClosed`, `LogsFinal` follow from it.
- `ImplementsLifecycle`: with the verdict read off the event stream, every step is a
  step of `MatchLifecycle` or leaves it unchanged.

- `FaultsBounded`: `Stranded` alone is not inductive, because a status update that fails
  strands its match while the worker still holds it. `Doomed` adds that match; a fault
  adds at most one to it, and no other step adds any.

`CaroProofs`, for every `Size` and `WinLen` (assumption `CaroAssumption`):

- `WinnerExact`: the count around the last mark finds a winner exactly when the board
  has a line. `WinIsLine` and `LineIsWin` relate the two counts to a line through
  the mark (`WinIsRun`); a line that is new must contain the new mark, so the invariant "no line
  while the game goes on" carries over.
- `DrawnExact`, `TurnsCorrect` from the same invariant; the counts of marks change by
  one because the new cell was empty.
- `FollowsRules`: the engine implements `GameRules`. A line has `WinLen` cells, so its
  owner has as many marks, and the other at least one less; a board is full when
  `Size * Size` marks have been counted.

`ExecProofs`, for every board, number of attempts, choice of bots and of failing calls
(assumption `ExecAssumption`): `TieBreakEven`. The invariant relates three things that
the code keeps apart: whose turn it is, the wins, and by how many accepted moves A leads
B. In a game the first player leads by the parity of the marks; a game is won by the
player whose turn it is not, or drawn at the last cell; so the first result determines
the lead (`AfterFirst`) and the second, with the sides changed, takes it away whenever
the wins are level.

`ExecRowsProofs`, from the same assumption. The invariant `RInv` adds to that one the rows
and the events: how many games there are and who began them (`ShapeInv`), that each is
closed or the last one (`ResultInv`), that rows and events hold the same turns but for
the one between its two insertions (`TurnsInv`), that the wins and the durations in memory
are those of the rows (`WinsInv`, `SamplesInv`). Two more invariants are about bots that
are lost: `GoneInv` says that `gone` names the game in which that was seen, and that this
was the last turn of that game; `AbsentInv` what a bot has come to that was lost in an
earlier game: it neither moves nor wins, a game that it opens ends without a move, and
since it opens one of the two games of every attempt (or lost the first one), its opponent
has a win by the end of the attempt. From them follow

- `TypeCorrect` and `EventsGiveRows`;
- `FollowsRules`: averages over the rows decide as those in memory do. That needs no
  induction over the rows, because both sides add up the same sequences;
- `DeadLoses`: a bot that timed out, ended or closed its streams makes no move and has no
  win in any later game of the match, in whichever attempt, and loses the match, unless
  that fails or its opponent has a process too. It may still win the match by the times
  of its moves if the game it was lost in was the last;
- `LeavesNothing`, under one more assumption: not both agents are user bots, as `prepare`
  only pairs a user agent with a system agent. Without it `StartFails` leaves a runner;
- `RowsInOrder`: the refinement of `MatchRows`, one lemma per action. A winner is named at
  `MinWin` marks at the earliest (`EnoughMarks`), and that a turn was lost can be read
  off the rows and `reply`.

`SubmissionProofs`, for every set of requests, of calls that may fail, of faults and of
crashes (assumption `SubmissionAssumption`): `ManifestIsTrue`, `NoOrphans`,
`ClientIsTold`, `ContainersGo` and the types. Requests share nothing but a crash
(`Apart`), so the invariant is one of each request: which of its files and rows there
are at each step (`UnderWay`), and the properties themselves.

`SiteProofs`. For every set of addresses, sign-ins and session ids, every threshold, lock
and time to live (assumption `SessionsAssumption`), and with everything `Site` does in
between:

- `LockHolds`. What must be counted beside the failures are those still to come:
  `Pending(e)`, the sign-ins for `e` past the look at the lock. Once a lock is set by one
  of them, the failures since and the pending ones together stay below the number of
  sign-ins, and nobody joins while it lasts (`Counts`).
- `SessionsLive`, an action property, by cases on the steps.

For every board, every log and every limit (`SiteAssumption`: the lines of events are not
empty, the two agents differ, and a verdict is not the name of an agent; `LogAssumption`):

- `LogsWhole`, a theorem about `RenderExecutionLog` alone: the text exceeds the limit by its
  markers at most, and has one if and only if a line or a block is missing. `Loop` is a
  recursive function on the length of its input; the lemma `LoopRounds` says, from the
  least counterexample (`Least`), that it passes through one `Write` after the other, and
  `LoopWrites` what these leave.
- `RowsFinal`, an action property: the status of a match, a finished game with its moves,
  and a log are never taken back (`Frozen`). It is what a page made of several reads
  relies on, and the reason why the order of the reads matters: who reads the match as
  completed finds all games finished afterwards, and not the other way round.
- `PagesInductive`: `RowsInv` says which rows there are at every stage, down to the moves of
  a game (`Played`: the turns 1, 2, ..., the last one rejected if the turn was lost) and how
  the game can have ended (`Ends`); `PageInv` which statements have been made
  (`Progress`) and what the results say of the rows as they are now (`SeenMatch`,
  `SeenGame`, `SeenGames`, `SeenList`, `SeenLog`), which may have grown since; `TextInv` what the log
  was made from.
- `SiteTyped` and `PagesTrue` follow, the latter with one lemma per page.

`RunnerProofs`, for any number of calls and of lines (assumption `RunnerAssumption`):

- `Inductive`: `Spec => []RInv`. While the stream is open only the current `Move` has a
  goroutine, and its channel is empty as long as it reads; an end of output in a
  channel means that the bot has ended and left nothing. `TypeCorrect` and `Readers`
  follow.
- `IsAgentRunner`: a step maps to a line, a failure, the loss of the bot, or nothing.
  The case to look at is `Return` without a line: the end of output is for good.
- `PoliteBotIsFresh`: `FreshInv` says what "one line per state" amounts to. While the
  stream is open the bot is either `Behind` (the last state is on its way and nothing
  else is) or `Level` (it has read it, and its line is under way, or taken, or still
  to come); any second line breaks `Polite`. After a timeout no line is taken at all.

`AgentProofs`, for every opponent and every board with `Size < 70000` (assumption
`AgentAssumption`; the code has 8):

- `PlaysByTheRules`: agent and opponent together only take steps of `Caro`, so that its
  theorems apply. `MarkInferred` follows from the counts of the marks.
- `OneThreatIsBlocked` and `WinIsTaken` (the properties `LosesToTwoThreats` and
  `WinsUnlessThreatened`). The engine counts runs around a mark and the agent looks at
  windows: `WinIsWindow` says that a cell wins if and only if it completes a window, in
  both directions from lemmas of `CaroProofs`. A cell has at most 20 windows
  (`FewWindows`), so a cell that neither player wins is worth at most
  20 x 1000 + `Size`, less than the 90,000 of one threat (`ValueBounds`): this is
  what bounds `Size`. The best cell therefore wins or blocks whenever some cell does
  (`AnswersThreats`), and a mark of the agent never makes a threat of the opponent: what
  threatens after its move did so before, beside the cell it took.
- `CellScore` is a sum over a set of windows. `Adds` is the function in which the
  community module adds it up; that there is one (`AddsAnySet`) and how large the sum is
  (`SumBounds`) are shown by the least counterexample on the number of windows.

Model-checked only: liveness (`EventuallySettled`, `EventuallyStops`, `Terminates`,
`RequestEnds`), which is out of the prover's reach.

## Not modelled

- Configuration, metrics, agent names, templates and routing have no state of
  their own or none that anything reads; configured values are constants.
- Hashes and the CSRF token: a password is right or wrong, a form is accepted.
- Of the practice page the list of opponents, which never changes, and of the schema
  the seed of the system agent. The `tournament` tables are not used by any code yet.
- Times of moves are chosen from a set, so overflow of sums of milliseconds is out of
  the picture.
- What the stderr of bots says and how much of it is captured: it reaches the execution
  log only, where a block is its length.
- The copying goroutine of a container, left behind when nobody reads its pipe after
  `Close`: in `Runner` connection, goroutine and pipe are one sequence of lines. That
  goroutine holds memory but no state that a later `Move` reads, so no property of the
  model would see it.
- `Site` has one match, decided in one attempt, and one page at a time.

## Plan

Done: all components with state of their own are modelled, and every safety property of
the passing runs is proved for all values of the constants. Left: two user bots in `exec`,
should the program ever pair them. The first is then left running when the second does not
start (`StartFails`), which `CleansUp` forbids and the pairing of a user bot with the system
agent avoids.
