---------------------------- MODULE SystemAgent ----------------------------
(***************************************************************************)
(* The built-in opponent: systemBestMove scores every empty cell by the    *)
(* windows of WinLen cells through it and takes the best. Here it plays    *)
(* against an opponent that places its marks anywhere in Zone, on the      *)
(* engine of module Caro.                                                  *)
(***************************************************************************)
EXTENDS Caro, FiniteSetsExt

CONSTANT Zone   \* bound: the cells the opponent plays

\* The bonus of a cell near the centre, at most Size, must not outweigh a threat.
ASSUME AgentAssumption == WinLen = 5 /\ Size < 70000 /\ Zone \subseteq Cell

VARIABLE seat   \* 0 or 1: the place of the agent in the game

agentVars == <<vars, seat>>

-----------------------------------------------------------------------------
(* systemBestMove                                                          *)

Empty(b)    == {p \in Cell : b[p] = "."}
Marks(b, m) == Cardinality({p \in Cell : b[p] = m})

\* The agent infers its mark from the position: equal numbers, X to move. The
\* slip looks for the mark there is less of.
RarerMark(b) == IF Marks(b, "X") < Marks(b, "O") THEN "X" ELSE "O"
MyMark(b)    == IF Marks(b, "X") = Marks(b, "O") THEN "X" ELSE "O"
OtherMark(m) == IF m = "X" THEN "O" ELSE "X"

\* The windows of five through p that are on the board; the slip forgets
\* those that end at p.
WindowsFrom(p, first, last) ==
  {w \in { {Step(p, d, o + i) : i \in 0..(WinLen - 1)} : d \in Directions, o \in first..last } :
     w \subseteq Cell}
ShortWindows(p) == WindowsFrom(p, 2 - WinLen, 0)
Windows(p)      == WindowsFrom(p, 1 - WinLen, 0)

\* By the number of marks in a window that has none of the other player.
OffScore == <<10, 100, 1000, 100000>>
DefScore == <<9, 90, 900, 90000>>

Held(b, w, m) == Cardinality({p \in w : b[p] = m})

\* Slip: only the agent's own marks count.
OffenceOnly(b, w, me, opp) ==
  LET my == Held(b, w, me)
  IN  IF my > 0 /\ Held(b, w, opp) = 0 THEN OffScore[my] ELSE 0

WindowScore(b, w, me, opp) ==
  LET my == Held(b, w, me)  their == Held(b, w, opp)
  IN  IF (my > 0) = (their > 0) THEN 0
      ELSE IF my > 0 THEN OffScore[my] ELSE DefScore[their]

CellScore(b, p, me, opp) ==
  MapThenSumSet(LAMBDA w : WindowScore(b, w, me, opp), Windows(p))

Abs(n) == IF n < 0 THEN -n ELSE n
CenterBonus(p) ==
  LET mid == Size \div 2 IN Size - Abs(p[1] - 1 - mid) - Abs(p[2] - 1 - mid)

Value(b, p) == LET me == MyMark(b) IN CenterBonus(p) + CellScore(b, p, me, OtherMark(me))

\* The order of Snapshot: rows from the top, each from the left.
Before(p, q) == \/ p[2] < q[2]
                \/ p[2] = q[2] /\ p[1] < q[1]

\* The first of the best empty cells. A value is never negative, so that the
\* loop for "no best cell" is not reached while the board has an empty one.
BestMove(b) ==
  LET val == [p \in Empty(b) |-> Value(b, p)]
      Better(p, q) == \/ val[p] > val[q]
                      \/ val[p] = val[q] /\ Before(p, q)
  IN  CHOOSE p \in Empty(b) : \A q \in Empty(b) \ {p} : Better(p, q)

-----------------------------------------------------------------------------
(* A game                                                                  *)

AgentInit == Init /\ seat \in {0, 1}

AgentMoves == /\ ~IsOver /\ current = seat
              /\ ApplyMove(BestMove(cells))
              /\ UNCHANGED seat

\* A move of the opponent that is refused would end the game.
OpponentMoves == /\ ~IsOver /\ current # seat
                 /\ \E p \in Zone : Accepted(p)
                 /\ UNCHANGED seat

AgentNext == AgentMoves \/ OpponentMoves

AgentSpec == AgentInit /\ [][AgentNext]_agentVars

-----------------------------------------------------------------------------
(* Properties                                                              *)

Own   == PlayerMark(seat)
Their == PlayerMark(1 - seat)

Turn == ~IsOver /\ current = seat

\* The cells where player m would win at once.
Wins(b, m) == {p \in Empty(b) : IsWinningMove([b EXCEPT ![p] = m], p, m)}

\* The agent is not told its mark, and scores the board for the one it plays.
KnowsItsMark == Turn => MyMark(cells) = Own

\* The agent can only lose to a threat in two places: if the opponent can win
\* after a move of the agent, it could have won in two cells before.
LosesToTwoThreats ==
  [][Turn /\ ~IsOver' /\ Wins(cells', Their) # {}
       => Cardinality(Wins(cells, Their)) > 1]_agentVars

\* The agent wins when it can, unless the opponent threatens to. Whatever a
\* cell without a win or a threat scores in all its windows is less.
WinsUnlessThreatened ==
  [][Turn /\ Wins(cells, Own) # {} /\ Wins(cells, Their) = {} => result' = Own]_agentVars

\* What a comment says and the code does not do.

\* "Offensive weights are higher so a winning move beats blocking" (runner.go)
WinBeatsBlocking ==
  [][Turn /\ Wins(cells, Own) # {} => result' = Own]_agentVars
=============================================================================
