----------------------------- MODULE GameRules -----------------------------
(***************************************************************************)
(* What the rest of the program may expect of the game engine, with the    *)
(* board abstracted to its number of marks: players alternate, a refused   *)
(* move changes nothing, a win takes at least MinWin marks and is a win of *)
(* the player who moved, and a game is over when Cells marks are placed.   *)
(* Caro implements this specification; MatchExec is written against it.    *)
(***************************************************************************)
EXTENDS Naturals

CONSTANTS
  Cells,   \* the number of cells of the board, at least one
  MinWin   \* the marks there must be before anybody can have won

VARIABLES
  current,    \* 0 or 1: the player to move, in the order given to NewGame
  turnCount,  \* accepted moves
  winner      \* "none" until the game is over, then "first", "second" or "draw"

gvars == <<current, turnCount, winner>>

Seat(i) == IF i = 0 THEN "first" ELSE "second"

GInit == current = 0 /\ turnCount = 0 /\ winner = "none"

IsOver == winner # "none"

\* How a game may go on after the n-th mark, placed by player i.
Outcomes(n, i) == (IF n < Cells THEN {"none"} ELSE {"draw"})
                    \union (IF n >= MinWin THEN {Seat(i)} ELSE {})

Accepted == /\ ~IsOver
            /\ turnCount' = turnCount + 1
            /\ current' = 1 - current
            /\ winner' \in Outcomes(turnCount + 1, current)

GNext == Accepted

GSpec == GInit /\ [][GNext]_gvars
=============================================================================
