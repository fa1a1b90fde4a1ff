-------------------------------- MODULE Caro --------------------------------
(***************************************************************************)
(* The game engine: a Size x Size board on which two players place marks   *)
(* in turn until one has WinLen in a row (the code fixes 8 and 5).         *)
(*                                                                         *)
(* The engine never looks at the whole board for a winner: after each move *)
(* it counts the run through the new mark, at most WinLen - 1 cells each   *)
(* way. Line is the reference it is compared with.                         *)
(***************************************************************************)
EXTENDS Integers, FiniteSets

CONSTANTS Size, WinLen

ASSUME CaroAssumption == Size \in Nat \ {0} /\ WinLen \in Nat \ {0}

VARIABLES
  cells,      \* [Cell -> {".", "X", "O"}], Board.Cells
  current,    \* Game.currentPlayerIndex
  turnCount,  \* Game.turnCount
  result      \* Game.gameOver and gameResult: "none" until the game is over

vars == <<cells, current, turnCount, result>>

Coord == 1..Size
Cell  == Coord \X Coord              \* one-based <<x, y>>, as bots write them
Mark  == {"X", "O"}
PlayerMark(i) == IF i = 0 THEN "X" ELSE "O"

\* What a bot may ask for: cells, and coordinates off each edge.
Input == (0..(Size + 1)) \X (0..(Size + 1))

TypeOK == /\ cells \in [Cell -> Mark \union {"."}]
          /\ current \in {0, 1}
          /\ turnCount \in 0..(Size * Size)
          /\ result \in Mark \union {"none", "draw"}

Init == /\ cells = [c \in Cell |-> "."]
        /\ current = 0
        /\ turnCount = 0
        /\ result = "none"

IsOver == result # "none"

-----------------------------------------------------------------------------
(* Lines                                                                   *)

Directions == {<<0, 1>>, <<1, 0>>, <<1, 1>>, <<1, -1>>}

\* The cell i steps from p in direction d; it may be off the board.
Step(p, d, i) == <<p[1] + i * d[1], p[2] + i * d[2]>>

Marked(b, p, m) == p \in Cell /\ b[p] = m

\* The loop that walks from p in direction d (sign 1) or against it (-1):
\* the number of marks passed before the first cell that is off the board or
\* not m, or WinLen - 1.
Run(b, p, d, sign, m) ==
  CHOOSE k \in 0..(WinLen - 1) :
    /\ \A i \in 1..k : Marked(b, Step(p, d, sign * i), m)
    /\ k = WinLen - 1 \/ ~Marked(b, Step(p, d, sign * (k + 1)), m)

\* Slip: the walk one way only.
OneWay(b, p, m)  == \E d \in Directions : 1 + Run(b, p, d, 1, m) >= WinLen

IsWinningMove(b, p, m) ==
  \E d \in Directions : 1 + Run(b, p, d, 1, m) + Run(b, p, d, -1, m) >= WinLen

IsBoardFull(b) == \A c \in Cell : b[c] # "."

-----------------------------------------------------------------------------
(* Moves                                                                   *)

\* Board.Apply: ErrOutOfBounds and ErrOccupied leave everything as it was.
Legal(p) == p \in Cell /\ cells[p] = "."

\* Slip: a full board is a draw before anybody looks for a winner.
DrawFirst(b, p, m) == IF IsBoardFull(b) THEN "draw"
                      ELSE IF IsWinningMove(b, p, m) THEN m ELSE "none"

Outcome(b, p, m) == IF IsWinningMove(b, p, m) THEN m
                    ELSE IF IsBoardFull(b) THEN "draw" ELSE "none"

\* Slips: the occupied cell is not refused; a refused move costs the turn.
ApplyAnywhere(p) == /\ p \in Cell
                    /\ cells' = [cells EXCEPT ![p] = PlayerMark(current)]
                    /\ turnCount' = turnCount + 1
                    /\ current' = (current + 1) % 2
                    /\ result' = Outcome(cells', p, PlayerMark(current))
SkipTurn(p) == /\ ~Legal(p)
               /\ current' = (current + 1) % 2
               /\ UNCHANGED <<cells, turnCount, result>>

Rejected(p) == /\ ~Legal(p)
               /\ UNCHANGED vars

Accepted(p) ==
  /\ Legal(p)
  /\ cells' = [cells EXCEPT ![p] = PlayerMark(current)]
  /\ turnCount' = turnCount + 1
  /\ current' = (current + 1) % 2
  /\ result' = Outcome(cells', p, PlayerMark(current))

ApplyMove(p) == Accepted(p) \/ Rejected(p)

\* ApplyMove does not look at gameOver itself; its caller, the loop of
\* runGame, does.
Next == \E p \in Input : ~IsOver /\ ApplyMove(p)

Spec == Init /\ [][Next]_vars

-----------------------------------------------------------------------------
(* Properties                                                              *)

\* WinLen marks in a row somewhere on the board.
Line(b, m) == \E p \in Cell, d \in Directions :
                \A i \in 0..(WinLen - 1) : Marked(b, Step(p, d, i), m)

\* The engine names a winner exactly when the board shows a line of it: the
\* count around the last move misses no line, invents none, and the two
\* players never both have one.
WinExact == \A m \in Mark : result = m <=> Line(cells, m)

\* A draw is a full board without a line, and as long as the game is not
\* over the player to move has a cell to play.
DrawExact == /\ result = "draw" <=> IsBoardFull(cells) /\ \A m \in Mark : ~Line(cells, m)
             /\ result = "none" => \E c \in Cell : cells[c] = "."

\* The board as the match sees it. The first line of a player needs WinLen
\* marks of it, and as many of the other but one.
Rules == INSTANCE GameRules
  WITH Cells  <- Size * Size,
       MinWin <- 2 * WinLen - 1,
       winner <- CASE result = "X" -> "first" [] result = "O" -> "second"
                 [] OTHER -> result

\* Seen from outside the board, the engine follows the rules MatchExec relies
\* on: turns alternate, and who wins, when, and that a game is finite.
ImplementsRules == Rules!GSpec

Count(b, S) == Cardinality({c \in Cell : b[c] \in S})

\* Every accepted move is one mark, of the player whose turn it was: X moves
\* first and the marks of the two differ by at most one.
TurnsAlternate == /\ turnCount = Count(cells, Mark)
                  /\ Count(cells, {"X"}) = Count(cells, {"O"}) + current
=============================================================================
