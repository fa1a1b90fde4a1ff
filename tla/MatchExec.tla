----------------------------- MODULE MatchExec -----------------------------
(***************************************************************************)
(* The execution of one match by the worker: attempts of two games, the    *)
(* turns of a game, what each turn leaves in the event stream, in the      *)
(* `games` and `moves` tables and in memory, and the bots' processes and   *)
(* images.                                                                 *)
(*                                                                         *)
(* The worker is the only writer of the rows of its match (MatchQueue), so *)
(* an append is one step here. An append or a projection whose error the   *)
(* code discards is a step that may simply not happen. The events that     *)
(* have neither a guard nor a row of their own (bot.started, game.started, *)
(* turn.state_sent) are left out, and so are the rows of attempts that are *)
(* over: nothing reads them while the match runs.                          *)
(***************************************************************************)
EXTENDS Integers, SequencesExt

CONSTANTS
  A, B,         \* agent_a and agent_b
  UserBot,      \* those that run in a process: agents of type "user"
  Duration,     \* milliseconds a move may take
  MaxAttempts,  \* 6 in the code
  Cells, MinWin,\* the board, as GameRules sees it
  Failing,      \* the calls that may return an error
  MaxFaults     \* bound: how often one does

Call == {"start", "create", "event", "project", "finish", "ended", "stop", "remove"}

ASSUME ExecAssumption ==
  /\ A # B /\ {"open", "none", "draw", "failed"} \cap {A, B} = {}
  /\ UserBot \subseteq {A, B} /\ Duration \subseteq Nat
  /\ MaxAttempts \in Nat \ {0} /\ Cells \in Nat \ {0} /\ MinWin \in Nat
  /\ Failing \subseteq Call /\ MaxFaults \in Nat

VARIABLES
  \* the database: the rows of the current attempt, by game
  games,      \* first player, result and move_count
  moves,      \* the moves rows: those accepted, by agent, and the others
  events,     \* the turn.* events in the same shape, and game.ended
  \* the worker
  pc, attempt, number, wins, samples,
  reply,      \* how the last turn ended
  current, turnCount, winner,   \* the engine: see GameRules
  verdict,    \* what runMatchAttempts returns: "open" until it does
  \* the outside
  alive,      \* user bots that may still answer: their streams are open
  running,    \* user bots whose process or container is there
  images,     \* user bots whose image is tagged; none are built without Docker
  faults,
  \* history
  dropped,    \* an event or a moves row was not written
  gone,       \* [bot -> the game in which it timed out or ended, or 0]
  unstopped   \* bots whose container was not stopped at the end of the match

dbVars     == <<games, moves, events>>
engineVars == <<current, turnCount, winner>>
matchVars  == <<attempt, number, wins, samples>>
botVars    == <<alive, running, images, gone, unstopped>>
faultVars  == <<dropped, faults>>
vars == <<dbVars, engineVars, matchVars, pc, reply, verdict, botVars, faultVars>>

Engine == INSTANCE GameRules

Agent    == {A, B}
Other(a) == IF a = A THEN B ELSE A
AlwaysA  == A                        \* slip: A moves first in both games
First    == IF number = 1 THEN A ELSE B
PlayerAt(i) == IF i = 0 THEN First ELSE Other(First)
Mover    == PlayerAt(current)
Game     == Len(games)               \* the game being played
GameNo   == 2 * attempt + number     \* its number in the match, once created

Placed   == [turn : Nat, dur : Nat]
LostTurn == [turn : Nat, agent : Agent, type : {"invalid", "timeout", "crash"}]
Result   == {"player_a_win", "player_b_win", "draw"}
NoTurns  == [placed |-> [a \in Agent |-> <<>>], lost |-> {}]
NoReply  == [type |-> "none", agent |-> A, turn |-> 0, dur |-> 0]

TypeOK ==
  /\ games \in Seq([first : Agent, result : Result \union {"none"}, count : 0..Cells])
  /\ moves \in Seq([placed : [Agent -> Seq(Placed)], lost : SUBSET LostTurn])
  /\ events \in Seq([placed : [Agent -> Seq(Placed)], lost : SUBSET LostTurn,
                     ended : Result \union {"none"}])
  /\ Len(games) \in 0..2 /\ Len(moves) = Len(games) /\ Len(events) = Len(games)
  /\ pc \in {"start", "create", "turn", "event", "project", "finish", "ended",
             "decide", "close", "untag", "done"}
  /\ attempt \in 0..(MaxAttempts - 1) /\ number \in {1, 2}
  /\ wins \in [Agent -> 0..2]
  /\ samples \in [Agent -> Seq(Duration)]
  /\ reply \in [type : {"none", "place", "invalid", "timeout", "crash"},
                agent : Agent, turn : Nat, dur : Nat]
  /\ current \in {0, 1} /\ turnCount \in 0..Cells
  /\ winner \in {"none", "first", "second", "draw"}
  /\ verdict \in Agent \union {"open", "draw", "failed"}
  /\ alive \subseteq running /\ running \subseteq UserBot /\ images \subseteq UserBot
  /\ gone \in [Agent -> 0..(2 * MaxAttempts)] /\ unstopped \subseteq UserBot
  /\ dropped \in BOOLEAN /\ faults \in 0..MaxFaults

Init ==
  /\ games = <<>> /\ moves = <<>> /\ events = <<>>
  /\ pc = "start" /\ attempt = 0 /\ number = 1
  /\ wins = [a \in Agent |-> 0] /\ samples = [a \in Agent |-> <<>>]
  /\ reply = NoReply
  /\ Engine!GInit
  /\ verdict = "open"
  /\ alive = {} /\ running = {} /\ images = {}
  /\ gone = [a \in Agent |-> 0] /\ unstopped = {}
  /\ dropped = FALSE /\ faults = 0

-----------------------------------------------------------------------------
(* runMatchAttempts: the runners, and how a match fails                    *)

Fault(call) == /\ call \in Failing /\ faults < MaxFaults
               /\ faults' = faults + 1
               /\ dropped' = (dropped \/ call \in {"event", "project"})

\* An error that is not discarded ends the match; the deferred function
\* closes the runners.
Fail(call) == /\ Fault(call)
              /\ verdict' = "failed"
              /\ pc' = "close"
              /\ UNCHANGED <<dbVars, engineVars, matchVars, reply, botVars>>

StartRunners == /\ pc = "start"
                /\ pc' = "create"
                /\ alive' = UserBot /\ running' = UserBot /\ images' = UserBot
                /\ UNCHANGED <<gone, unstopped, dbVars, engineVars, matchVars, reply, verdict, faultVars>>

\* The image of user bot a is not built, or its runner does not start. agentA
\* comes first; nothing closes the runners that did start, and the tags built
\* so far are not returned.
StartFails(a) ==
  LET before == IF a = B THEN UserBot \ {B} ELSE {}
  IN  /\ pc = "start" /\ a \in UserBot
      /\ Fault("start")
      /\ alive' = before /\ running' = before
      /\ images' \in {before, before \union {a}}
      /\ verdict' = "failed"
      /\ pc' = "done"
      /\ UNCHANGED <<gone, unstopped, dbVars, engineVars, matchVars, reply>>

\* Slip: a runner whose streams are closed already is left alone.
CloseOpen == /\ pc = "close"
             /\ alive' = {} /\ running' = running \ alive /\ unstopped' = unstopped
             /\ pc' = "untag"
             /\ UNCHANGED <<images, gone, faultVars, dbVars, engineVars, matchVars, reply, verdict>>

\* The deferred function closes every runner, those that were closed at a
\* timeout once more: Docker is asked again to stop the container. That it does
\* not is noticed by nobody.
Close == /\ pc = "close"
         /\ alive' = {}
         /\ \/ running' = {} /\ UNCHANGED faultVars
            \/ running' \in SUBSET running \ {{}} /\ Fault("stop")
         /\ unstopped' = running'
         /\ pc' = "untag"
         /\ UNCHANGED <<images, gone, dbVars, engineVars, matchVars, reply, verdict>>

\* Then it removes every image; one that cannot be removed stays.
RemoveImages ==
  /\ pc = "untag"
  /\ \/ images' = {} /\ UNCHANGED faultVars
     \/ images' \in SUBSET images \ {{}} /\ Fault("remove")
  /\ pc' = "done"
  /\ UNCHANGED <<alive, running, gone, unstopped, dbVars, engineVars, matchVars, reply, verdict>>

-----------------------------------------------------------------------------
(* runGame                                                                 *)

CreateGame ==
  /\ pc = "create"
  /\ games'  = Append(games, [first |-> First, result |-> "none", count |-> 0])
  /\ moves'  = Append(moves, NoTurns)
  /\ events' = Append(events, [placed |-> NoTurns.placed, lost |-> {}, ended |-> "none"])
  /\ current' = 0 /\ turnCount' = 0 /\ winner' = "none"
  /\ pc' = "turn"
  /\ UNCHANGED <<matchVars, reply, verdict, botVars, faultVars>>

\* Slip: a lost turn is projected without its event.
AnswerUnseen(type, d) ==
  /\ reply' = [type |-> type, agent |-> Mover, turn |-> turnCount + 1, dur |-> d]
  /\ pc' = IF type = "place" THEN "event" ELSE "project"
  /\ UNCHANGED <<dbVars, attempt, number, wins, verdict, images, unstopped>>

Answer(type, d) ==
  /\ reply' = [type |-> type, agent |-> Mover, turn |-> turnCount + 1, dur |-> d]
  /\ pc' = "event"
  /\ UNCHANGED <<dbVars, attempt, number, wins, verdict, images, unstopped>>

\* A system agent always answers, and with an empty cell.
CanAnswer == Mover \in UserBot => Mover \in alive
SameBot   == UNCHANGED <<alive, running, gone, faultVars>>

Accept(d) == /\ pc = "turn" /\ CanAnswer
             /\ Engine!Accepted
             /\ samples' = [samples EXCEPT ![Mover] = Append(@, d)]
             /\ Answer("place", d)
             /\ SameBot

\* A line that parseMove or the engine refuses.
Refuse == /\ pc = "turn" /\ Mover \in alive
          /\ Answer("invalid", 0)
          /\ UNCHANGED <<engineVars, samples>> /\ SameBot

\* A line over MaxStdoutLineBytes is an error as well, and counts as a crash
\* of a bot that may go on answering.
Overlong == /\ pc = "turn" /\ Mover \in alive
            /\ Answer("crash", 0)
            /\ UNCHANGED <<engineVars, samples>> /\ SameBot

\* The bot will not answer any more; gone keeps the game in which that was seen.
Goes == /\ alive' = alive \ {Mover}
        /\ gone' = IF gone[Mover] = 0 THEN [gone EXCEPT ![Mover] = GameNo] ELSE gone

\* Slip: the runner of a silent bot is not closed.
TimeOutOpen == /\ pc = "turn" /\ Mover \in alive
               /\ gone' = IF gone[Mover] = 0 THEN [gone EXCEPT ![Mover] = GameNo] ELSE gone
               /\ Answer("timeout", 0)
               /\ UNCHANGED <<engineVars, samples, alive, running, faultVars>>

\* Move closes a runner that does not answer in time: its streams are closed,
\* and its process is killed, or Docker is asked to stop its container. That
\* this failed is discarded.
TimeOut == /\ pc = "turn" /\ Mover \in alive
           /\ Goes
           /\ \/ running' = running \ {Mover} /\ UNCHANGED faultVars
              \/ Fault("stop") /\ UNCHANGED running
           /\ Answer("timeout", 0)
           /\ UNCHANGED <<engineVars, samples>>

\* Write or read fails: the bot's streams are closed, by Move or by the bot,
\* which most often has ended.
Crash == /\ pc = "turn" /\ Mover \in UserBot
         /\ Goes
         /\ running' \in {running, running \ {Mover}}
         /\ Answer("crash", 0)
         /\ UNCHANGED <<engineVars, samples, faultVars>>

\* The turn's row in either table.
Record(t) ==
  IF reply.type = "place"
  THEN [t EXCEPT !.placed[reply.agent] = Append(@, [turn |-> reply.turn, dur |-> reply.dur])]
  ELSE [t EXCEPT !.lost = @ \union
          {[turn |-> reply.turn, agent |-> reply.agent, type |-> reply.type]}]

AppendTurn == /\ pc = "event"
              /\ \/ events' = [events EXCEPT ![Game] = Record(@)] /\ UNCHANGED faultVars
                 \/ Fault("event") /\ UNCHANGED events
              /\ pc' = "project"
              /\ UNCHANGED <<games, moves, engineVars, matchVars, reply, verdict, botVars>>

ProjectMove ==
  /\ pc = "project"
  /\ \/ moves' = [moves EXCEPT ![Game] = Record(@)] /\ UNCHANGED faultVars
     \/ Fault("project") /\ UNCHANGED moves
  /\ pc' = IF reply.type = "place" /\ ~Engine!IsOver THEN "turn" ELSE "finish"
  /\ UNCHANGED <<games, events, engineVars, matchVars, reply, verdict, botVars>>

-----------------------------------------------------------------------------
(* finishGame                                                              *)

GameWinner == IF reply.type # "place" THEN Other(reply.agent)
              ELSE CASE winner = "first"  -> First
                     [] winner = "second" -> Other(First)
                     [] OTHER -> "draw"

\* Slip: player A of the match is taken for player A of the game.
ResultOfMatch == CASE GameWinner = A -> "player_a_win"
                   [] GameWinner = B -> "player_b_win"
                   [] OTHER -> "draw"

GameResult == CASE GameWinner = First        -> "player_a_win"
                [] GameWinner = Other(First) -> "player_b_win"
                [] OTHER -> "draw"

\* Slip: the turn that was lost is counted as a move.
FinishTurns == /\ pc = "finish"
               /\ games' = [games EXCEPT ![Game].result = GameResult, ![Game].count = reply.turn]
               /\ pc' = "ended"
               /\ UNCHANGED <<moves, events, engineVars, matchVars, reply, verdict,
                              botVars, faultVars>>

FinishGame == /\ pc = "finish"
              /\ games' = [games EXCEPT ![Game].result = GameResult, ![Game].count = turnCount]
              /\ pc' = "ended"
              /\ UNCHANGED <<moves, events, engineVars, matchVars, reply, verdict,
                             botVars, faultVars>>

\* game.ended; back in runTwoGames the winner is counted.
GameEnded ==
  /\ pc = "ended"
  /\ events' = [events EXCEPT ![Game].ended = GameResult]
  /\ wins' = [a \in Agent |-> wins[a] + (IF a = GameWinner THEN 1 ELSE 0)]
  /\ number' = 2
  /\ pc' = IF number = 1 THEN "create" ELSE "decide"
  /\ UNCHANGED <<games, moves, engineVars, attempt, samples, reply, verdict, botVars, faultVars>>

-----------------------------------------------------------------------------
(* runTwoGames: the end of an attempt                                      *)

\* What is persisted of the finished games of the attempt. A game is never
\* finished before the one that was played first.
GameRecord(g) ==
  [winner |-> CASE games[g].result = "player_a_win" -> games[g].first
                [] games[g].result = "player_b_win" -> Other(games[g].first)
                [] OTHER -> "draw",
   times  |-> [a \in Agent |->
                 [i \in DOMAIN moves[g].placed[a] |-> moves[g].placed[a][i].dur]]]
Finished == IF games # <<>> /\ games[Game].result = "none" THEN 1..(Game - 1) ELSE 1..Game
Persisted == [g \in Finished |-> GameRecord(g)]

Rules == INSTANCE MatchRules WITH pair <- Persisted

\* sumCount and the comparison of sumA*cntB with sumB*cntA.
Sum(a)   == Rules!Total(samples[a])
Count(a) == Len(samples[a])
Lower(a) == Sum(a) * Count(Other(a)) < Sum(Other(a)) * Count(a)

\* "none" sends the match into the next attempt.
Outcome ==
  CASE wins[A] > wins[B] -> A
    [] wins[B] > wins[A] -> B
    [] wins[A] = wins[B] /\ Count(A) > 0 /\ Count(B) > 0 ->
         IF Lower(A) THEN A ELSE IF Lower(B) THEN B ELSE "none"
    [] OTHER -> IF Count(A) > 0 THEN A ELSE IF Count(B) > 0 THEN B ELSE "none"

Return(v) == /\ verdict' = v
             /\ pc' = "close"
             /\ UNCHANGED <<dbVars, engineVars, matchVars, reply, botVars, faultVars>>

\* Slip: the attempts are not counted.
SameAttempt == /\ number' = 1
               /\ wins' = [a \in Agent |-> 0]
               /\ samples' = [a \in Agent |-> <<>>]
               /\ games' = <<>> /\ moves' = <<>> /\ events' = <<>>
               /\ pc' = "create"
               /\ UNCHANGED <<attempt, engineVars, reply, verdict, botVars, faultVars>>

NextAttempt == /\ attempt' = attempt + 1 /\ number' = 1
               /\ wins' = [a \in Agent |-> 0]
               /\ samples' = [a \in Agent |-> <<>>]
               /\ games' = <<>> /\ moves' = <<>> /\ events' = <<>>
               /\ pc' = "create"
               /\ UNCHANGED <<engineVars, reply, verdict, botVars, faultVars>>

\* Slip: one attempt too many.
OneMoreAttempt == /\ pc = "decide"
                  /\ \/ Outcome # "none" /\ Return(Outcome)
                     \/ Outcome = "none" /\ attempt = MaxAttempts /\ Return("draw")
                     \/ Outcome = "none" /\ attempt < MaxAttempts /\ NextAttempt
Decide == /\ pc = "decide"
          /\ \/ Outcome # "none" /\ Return(Outcome)
             \/ Outcome = "none" /\ attempt + 1 = MaxAttempts /\ Return("draw")
             \/ Outcome = "none" /\ attempt + 1 < MaxAttempts /\ NextAttempt

-----------------------------------------------------------------------------

Next ==
  \/ StartRunners
  \/ \E a \in Agent : StartFails(a)
  \/ CreateGame
  \/ pc = "create" /\ Fail("create")
  \/ \E d \in Duration : Accept(d)
  \/ Refuse \/ TimeOut \/ Crash \/ Overlong
  \/ AppendTurn \/ ProjectMove
  \/ FinishGame
  \/ pc = "finish" /\ Fail("finish")
  \/ GameEnded
  \/ pc = "ended" /\ Fail("ended")
  \/ Decide
  \/ Close \/ RemoveImages

\* The worker does not stop: a bot that keeps silent is cut off after
\* PerMoveTimeout.
Spec     == Init /\ [][Next]_vars
FairSpec == Spec /\ WF_vars(Next)

-----------------------------------------------------------------------------
(* Properties                                                              *)

\* As long as every turn was recorded, the match is decided by the rules
\* applied to what is persisted of its games: the winners and times that
\* runTwoGames keeps in memory are those of the games and moves rows.
DecidedByRules == Rules!RInit /\ [][dropped' \/ Rules!RNext]_(Rules!rvars)

\* The rows are written in the order that MatchRows gives their readers: no
\* result before the last row of its game, no second game before the first is
\* closed, no verdict that the results of the attempt do not allow.
Lost == reply.type \in {"invalid", "timeout", "crash"}
Row(n, a, accepted) == [seq |-> n, agent |-> a, accepted |-> accepted]
MovesOf(s, a) == {Row(s[i].turn, a, TRUE) : i \in DOMAIN s}
PlacedRows(t) == UNION {MovesOf(t.placed[a], a) : a \in Agent}
LostRows(t)   == {Row(x.turn, x.agent, FALSE) : x \in t.lost}
RowsOf(t)     == PlacedRows(t) \union LostRows(t)
SeenGames == [g \in DOMAIN games |-> [games[g] EXCEPT !.result = IF @ = "none" THEN "" ELSE @]]
SeenMoves == [g \in DOMAIN games |-> RowsOf(moves[g])]
SeenTurn  == IF pc \in {"event", "project"} /\ ~Lost THEN turnCount - 1 ELSE turnCount
SeenLost  == Lost /\ pc \notin {"turn", "event", "project"}
SeenStage == IF verdict = "open" THEN "games" ELSE "settle"
R == INSTANCE MatchRows WITH
       games <- SeenGames, moves <- SeenMoves, log <- "none",
       match <- [status |-> "running", winner |-> "null"],
       turn  <- SeenTurn, lost <- SeenLost, stage <- SeenStage

ImplementsRows == R!RowsSpec

\* As long as no error of either call was discarded, the rows of a game are
\* those of its events: a move has its event before its row, and once the turn
\* is over its row too, and game.ended says what the games row says. Both can
\* be rebuilt from the event stream (ADR-003, 4).
RowsMatchEvents ==
  \A g \in DOMAIN games :
    /\ ~dropped =>
         /\ moves[g].lost \subseteq events[g].lost
         /\ \A a \in Agent : IsPrefix(moves[g].placed[a], events[g].placed[a])
         /\ (pc # "project" \/ g # Game) =>
              /\ moves[g].placed = events[g].placed
              /\ moves[g].lost = events[g].lost
    /\ events[g].ended # "none" => events[g].ended = games[g].result
    /\ (g # Game \/ pc = "decide" \/ verdict \in Agent \union {"draw"})
         => events[g].ended = games[g].result /\ games[g].result # "none"

\* Averages are compared only after the same number of accepted moves of
\* either bot, since the first move changes sides: a win each, or two draws,
\* always leaves the counts level, however the games were lost.
TieBreakIsEven == pc = "decide" /\ wins[A] = wins[B] => Count(A) = Count(B)

\* A bot that did not answer in some game, because it was cut off or had ended
\* or closed its streams, makes no move in any later game of the match, in this
\* attempt or a later one, wins none of them, and loses the match if its opponent
\* cannot go the same way. Only in the last game may it go and still win the
\* match, by the times of its moves.
Absent(a) == 0 < gone[a] /\ gone[a] < GameNo
DeadBotLoses ==
  \A a \in UserBot : Absent(a) /\ Other(a) \notin UserBot =>
    /\ Game = number => /\ events[Game].placed[a] = <<>> /\ moves[Game].placed[a] = <<>>
                        /\ games[Game].result # "none" => GameRecord(Game).winner # a
    /\ verdict \in {"open", "failed", Other(a)}

\* However a match ends, a bot runs on afterwards only if Docker did not stop its
\* container when the match ended, whether or not it did at a timeout before; and
\* an image stays only if its runner did not start or Docker would not remove it.
CleansUp == [][pc' = "done" =>
                 /\ running' \subseteq unstopped'
                 /\ images' = {} \/ pc = "start" \/ faults' # faults]_vars

\* A match ends.
Terminates == <>(pc = "done")
=============================================================================
