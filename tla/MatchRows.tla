----------------------------- MODULE MatchRows -----------------------------
(***************************************************************************)
(* The rows that the execution of a match leaves for its readers, in the   *)
(* order in which the worker writes them: games and moves, the matches     *)
(* row, the execution log. The games are those of one attempt; the games   *)
(* of an earlier one are finished and nobody writes to them any more.      *)
(*                                                                         *)
(* MatchExec implements this specification up to the return of             *)
(* runMatchAttempts; Site reads what it writes.                            *)
(***************************************************************************)
EXTENDS Naturals, Sequences, FiniteSets

CONSTANTS
  A, B,          \* agent_a and agent_b
  Cells, MinWin  \* the board, as GameRules sees it

VARIABLES
  games,    \* the games rows: first player, result, move_count
  moves,    \* by game, its moves rows
  match,    \* status and winner_agent_id of the matches row
  log,      \* the status with which the execution log was rendered, or "none"
  turn,     \* the accepted moves of the current game,
  lost,     \* whether a turn was lost after them,
  verdict,  \* what runMatchAttempts has returned: "open" until it does,
  stage,    \* and where execute is
  dropped   \* history: a write has failed whose error is discarded

rowVars    == <<games, moves, match, log>>
workerVars == <<turn, lost, verdict, stage>>
matchRowsVars == <<rowVars, workerVars, dropped>>

Agent    == {A, B}
Other(a) == IF a = A THEN B ELSE A
Result   == {"player_a_win", "player_b_win", "draw"}
Row      == [seq : 1..Cells, agent : Agent, accepted : BOOLEAN]

RowsTypeOK ==
  /\ games \in Seq([first : Agent, result : Result \union {""}, count : 0..Cells])
  /\ moves \in Seq(SUBSET Row) /\ Len(moves) = Len(games) /\ Len(games) <= 2
  /\ match \in [status : {"running", "completed", "failed"}, winner : Agent \union {"null"}]
  /\ log \in {"none", "running", "completed", "failed"}
  /\ turn \in 0..Cells /\ lost \in BOOLEAN /\ dropped \in BOOLEAN
  /\ verdict \in Agent \union {"open", "draw", "failed"}
  /\ stage \in {"games", "settle", "render", "done"}

RowsInit ==
  /\ games = <<>> /\ moves = <<>>
  /\ match = [status |-> "running", winner |-> "null"] /\ log = "none"
  /\ turn = 0 /\ lost = FALSE /\ verdict = "open" /\ stage = "games"
  /\ dropped = FALSE

-----------------------------------------------------------------------------
(* The games of an attempt                                                 *)

Game      == Len(games)
Closed(g) == games[g].result # ""
Playing   == stage = "games" /\ Game > 0 /\ ~Closed(Game)
Between   == stage = "games" /\ (Game > 0 => Closed(Game))

\* Who moves after n accepted moves of game g.
MoverOf(g, n)  == IF n % 2 = 0 THEN games[g].first ELSE Other(games[g].first)
WinFor(g, a)   == IF a = games[g].first THEN "player_a_win" ELSE "player_b_win"
Wins(a)        == Cardinality({g \in 1..Game : games[g].result = WinFor(g, a)})

CreateGame == /\ Between /\ Game < 2
              /\ games' = Append(games, [first  |-> IF Game = 0 THEN A ELSE B,
                                         result |-> "", count |-> 0])
              /\ moves' = Append(moves, {})
              /\ turn' = 0 /\ lost' = FALSE
              /\ UNCHANGED <<match, log, verdict, stage, dropped>>

\* A turn ends: its row, whose insertion may fail without a trace.
Turn(accepted) ==
  /\ Playing /\ ~lost /\ turn < Cells
  /\ \/ /\ moves' = [moves EXCEPT ![Game] = @ \union
              {[seq |-> turn + 1, agent |-> MoverOf(Game, turn), accepted |-> accepted]}]
        /\ UNCHANGED dropped
     \/ dropped' = TRUE /\ UNCHANGED moves
  /\ turn' = IF accepted THEN turn + 1 ELSE turn
  /\ lost' = ~accepted
  /\ UNCHANGED <<games, match, log, verdict, stage>>

\* How the game may end here: the lost turn decides, or the last move did.
Results ==
  IF lost THEN {WinFor(Game, Other(MoverOf(Game, turn)))}
  ELSE {r \in Result : \/ r = "draw" /\ turn = Cells
                       \/ turn >= MinWin /\ turn > 0 /\ r = WinFor(Game, MoverOf(Game, turn - 1))}

FinishGame == /\ Playing
              /\ \E r \in Results :
                   games' = [games EXCEPT ![Game].result = r, ![Game].count = turn]
              /\ UNCHANGED <<moves, match, log, workerVars, dropped>>

-----------------------------------------------------------------------------
(* The end of an attempt and of the match                                  *)

\* Of two bots with the same number of wins the faster one may win.
MayReturn(v) == IF v = "draw" THEN Wins(A) = Wins(B) ELSE Wins(v) >= Wins(Other(v))

Return(v) == /\ Between /\ Game = 2 /\ MayReturn(v)
             /\ verdict' = v /\ stage' = "settle"
             /\ UNCHANGED <<rowVars, turn, lost, dropped>>

\* A call has returned an error, wherever the worker was.
ReturnError == /\ stage = "games"
               /\ verdict' = "failed" /\ stage' = "settle"
               /\ UNCHANGED <<rowVars, turn, lost, dropped>>

Rematch == /\ Between /\ Game = 2 /\ Wins(A) = Wins(B)
           /\ games' = <<>> /\ moves' = <<>>
           /\ UNCHANGED <<match, log, workerVars, dropped>>

\* CompleteMatch or FailMatch, whose error is discarded.
Settle ==
  /\ stage = "settle" /\ stage' = "render"
  /\ \/ /\ match' = [status |-> IF verdict = "failed" THEN "failed" ELSE "completed",
                     winner |-> IF verdict \in Agent THEN verdict ELSE "null"]
        /\ UNCHANGED dropped
     \/ dropped' = TRUE /\ UNCHANGED match
  /\ UNCHANGED <<games, moves, log, turn, lost, verdict>>

RenderLog == /\ stage = "render" /\ stage' = "done"
             /\ \/ log' = match.status /\ UNCHANGED dropped
                \/ dropped' = TRUE /\ UNCHANGED log
             /\ UNCHANGED <<games, moves, match, turn, lost, verdict>>

\* Another write fails without a trace: an event, the removal of an image.
Discard == dropped' = TRUE /\ UNCHANGED <<rowVars, workerVars>>

RowsNext == \/ CreateGame \/ (\E b \in BOOLEAN : Turn(b)) \/ FinishGame
            \/ (\E v \in Agent \union {"draw"} : Return(v)) \/ ReturnError \/ Rematch
            \/ Settle \/ RenderLog \/ Discard

RowsSpec == RowsInit /\ [][RowsNext]_matchRowsVars
=============================================================================
