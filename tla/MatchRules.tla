----------------------------- MODULE MatchRules -----------------------------
(***************************************************************************)
(* How a match is decided: attempts of two games each, in which more wins  *)
(* decide, then the lower average time of the accepted moves; a rematch    *)
(* while neither does, a draw after MaxAttempts attempts. A game is what   *)
(* is persisted of it: its winner and the times of its accepted moves.     *)
(* MatchExec implements this specification.                                *)
(***************************************************************************)
EXTENDS Naturals, Sequences, Functions

CONSTANTS
  A, B,        \* the two agents
  MaxAttempts  \* pairs of games, at least one

VARIABLES
  attempt,    \* from 0
  pair,       \* the finished games of the attempt
  verdict     \* "open", then the winner, "draw" or "failed"

rvars == <<attempt, pair, verdict>>

Agent == {A, B}
Other(a) == IF a = A THEN B ELSE A
GameRecord == [winner : Agent \union {"draw"}, times : [Agent -> Seq(Nat)]]

Total(s) == FoldFunction(+, 0, s)

\* A lower average, or an average where the other has none.
Faster(s, t) == s # <<>> /\ (t = <<>> \/ Total(s) * Len(t) < Total(t) * Len(s))

Won(g, a) == IF g.winner = a THEN 1 ELSE 0

\* a wins the attempt whose games are p.
Beats(p, a) ==
  LET wins(x)  == Won(p[1], x) + Won(p[2], x)
      times(x) == p[1].times[x] \o p[2].times[x]
      b == Other(a)
  IN  \/ wins(a) > wins(b)
      \/ wins(a) = wins(b) /\ Faster(times(a), times(b))

Level(p) == \A a \in Agent : ~Beats(p, a)

RInit == attempt = 0 /\ pair = <<>> /\ verdict = "open"

Play == /\ verdict = "open" /\ Len(pair) < 2
        /\ Len(pair') = Len(pair) + 1
        /\ pair' = Append(pair, pair'[Len(pair')])
        /\ pair'[Len(pair')] \in GameRecord
        /\ UNCHANGED <<attempt, verdict>>

Decide(a) == /\ verdict = "open" /\ Len(pair) = 2 /\ Beats(pair, a)
             /\ verdict' = a
             /\ UNCHANGED <<attempt, pair>>

Rematch == /\ verdict = "open" /\ Len(pair) = 2 /\ Level(pair)
           /\ attempt + 1 < MaxAttempts
           /\ attempt' = attempt + 1 /\ pair' = <<>>
           /\ UNCHANGED verdict

Draw == /\ verdict = "open" /\ Len(pair) = 2 /\ Level(pair)
        /\ attempt + 1 = MaxAttempts
        /\ verdict' = "draw"
        /\ UNCHANGED <<attempt, pair>>

Fail == /\ verdict = "open"
        /\ verdict' = "failed"
        /\ UNCHANGED <<attempt, pair>>

RNext == Play \/ (\E a \in Agent : Decide(a)) \/ Rematch \/ Draw \/ Fail

RSpec == RInit /\ [][RNext]_rvars
=============================================================================
