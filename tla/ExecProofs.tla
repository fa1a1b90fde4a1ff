----------------------------- MODULE ExecProofs -----------------------------
(***************************************************************************)
(* The tie-break of a match, for every board, every number of attempts,    *)
(* any durations and bots, and whatever calls fail.                        *)
(***************************************************************************)
EXTENDS MatchExec, TLAPS

InGame == pc \in {"turn", "event", "project", "finish", "ended"}
TurnOver == pc \in {"event", "project", "finish", "ended"}

\* What TypeOK says of memory, and of the number of rows.
MemoryOK ==
  /\ pc \in {"start", "create", "turn", "event", "project", "finish", "ended",
             "decide", "close", "untag", "done"}
  /\ number \in {1, 2}
  /\ wins \in [Agent -> 0..2]
  /\ samples \in [Agent -> Seq(Duration)]
  /\ reply \in [type : {"none", "place", "invalid", "timeout", "crash"},
                agent : Agent, turn : Nat, dur : Nat]
  /\ current \in {0, 1} /\ turnCount \in 0..Cells
  /\ winner \in {"none", "first", "second", "draw"}

\* How far the board has come, and how the last turn has left it.
BoardInv ==
  /\ InGame => /\ current = turnCount % 2
               /\ winner \in {"none", "draw", Engine!Seat(1 - current)}
               /\ winner = "none" => turnCount < Cells
               /\ winner = "draw" => turnCount = Cells
  /\ pc = "turn" => winner = "none"
  /\ TurnOver => /\ reply.type # "none"
                 /\ reply.type # "place" => winner = "none" /\ reply.agent = Mover
  /\ pc \in {"finish", "ended"} /\ reply.type = "place" => winner # "none"

\* A's accepted moves less B's, in the attempt.
Lead == Count(A) - Count(B)

\* By how much the first game may have left A ahead, for each of its results:
\* A moved first, and a game ends with the move of its winner, or before the
\* move that its loser did not make, or with the last cell.
AfterFirst(n) == \/ wins[A] = 1 /\ wins[B] = 0 /\ n = 1
                 \/ wins[A] = 0 /\ wins[B] = 1 /\ n = 0
                 \/ wins[A] = 0 /\ wins[B] = 0 /\ n = Cells % 2

LeadInv ==
  /\ pc = "start" => number = 1
  /\ pc \in {"start", "create"} /\ number = 1 => wins[A] = 0 /\ wins[B] = 0 /\ Lead = 0
  /\ InGame /\ number = 1 => wins[A] = 0 /\ wins[B] = 0 /\ Lead = current
  /\ pc = "create" /\ number = 2 => AfterFirst(Lead)
  /\ InGame /\ number = 2 => AfterFirst(Lead + current)
  /\ pc = "decide" /\ wins[A] = wins[B] => Lead = 0

EInv == MemoryOK /\ BoardInv /\ LeadInv

-----------------------------------------------------------------------------

LEMMA InitInv == Init => EInv
<1> SUFFICES ASSUME Init PROVE EInv
  OBVIOUS
<1>1. MemoryOK
  BY ExecAssumption DEF Init, MemoryOK, Agent, NoReply, Engine!GInit
<1>2. BoardInv
  BY DEF Init, BoardInv, InGame, TurnOver
<1>3. LeadInv
  BY DEF Init, LeadInv, InGame, Lead, Count, Agent
<1> QED
  BY <1>1, <1>2, <1>3 DEF EInv

\* Who has won, when the game is over: the player whose turn it is not, or
\* nobody on a full board.
LEMMA Winner ==
  ASSUME EInv, pc \in {"finish", "ended"}
  PROVE  \/ GameWinner = PlayerAt(1 - current)
         \/ GameWinner = "draw" /\ turnCount = Cells
<1>1. /\ reply.type # "place" => reply.agent = PlayerAt(current)
      /\ reply.type = "place" => winner \in {"draw", Engine!Seat(1 - current)}
      /\ winner = "draw" => turnCount = Cells
      /\ current \in {0, 1}
  BY DEF EInv, MemoryOK, BoardInv, InGame, TurnOver, Mover
<1>2. CASE reply.type # "place"
  BY <1>1, <1>2, ExecAssumption DEF GameWinner, PlayerAt, Other, First
<1>3. CASE reply.type = "place"
  BY <1>1, <1>3 DEF GameWinner, PlayerAt, Engine!Seat
<1> QED
  BY <1>2, <1>3

\* Turns alternate between even and odd numbers of marks.
LEMMA Parity ==
  ASSUME NEW n \in Nat
  PROVE  (n + 1) % 2 = 1 - (n % 2)
OBVIOUS

\* An accepted move gives its player one more sample and the turn to the other.
LEMMA AcceptStep ==
  ASSUME EInv, NEW d \in Duration, Accept(d)
  PROVE  EInv'
<1>1. /\ pc = "turn" /\ pc' = "event" /\ number' = number /\ wins' = wins
      /\ Mover \in Agent /\ current \in {0, 1} /\ number \in {1, 2}
      /\ samples \in [Agent -> Seq(Duration)]
      /\ samples' = [samples EXCEPT ![Mover] = Append(@, d)]
      /\ turnCount \in Nat /\ turnCount < Cells /\ current = turnCount % 2
      /\ turnCount' = turnCount + 1 /\ current' = 1 - current
      /\ winner' \in Engine!Outcomes(turnCount + 1, current)
      /\ reply' = [type |-> "place", agent |-> Mover, turn |-> turnCount + 1, dur |-> d]
  BY ExecAssumption DEF Accept, Answer, Engine!Accepted, EInv, MemoryOK, BoardInv, InGame, Mover,
     PlayerAt, First, Other, Agent
<1>2. MemoryOK'
  <2>1. winner' \in {"none", "first", "second", "draw"}
    BY <1>1 DEF Engine!Outcomes, Engine!Seat
  <2>2. turnCount' \in 0..Cells /\ current' \in {0, 1} /\ turnCount' \in Nat /\ d \in Nat
    BY <1>1, ExecAssumption
  <2> QED
    BY <1>1, <2>1, <2>2 DEF EInv, MemoryOK
<1>3. BoardInv'
  <2>1. current' = turnCount' % 2 /\ 1 - current' = current
    <3>1. (turnCount + 1) % 2 = 1 - (turnCount % 2)
      BY <1>1, Parity
    <3> QED
      BY <1>1, <3>1
  <2>2. /\ winner' \in {"none", "draw", Engine!Seat(1 - current')}
        /\ winner' = "none" => turnCount' < Cells
        /\ winner' = "draw" => turnCount' = Cells
    BY <1>1, <2>1, ExecAssumption DEF Engine!Outcomes, Engine!Seat
  <2>3. (Engine!Seat(1 - current))' = Engine!Seat(1 - current')
    BY DEF Engine!Seat
  <2> QED
    BY <1>1, <2>1, <2>2, <2>3 DEF BoardInv, InGame, TurnOver
<1>4. PICK m \in Agent : m = Mover
  BY <1>1
<1>5. /\ Count(m)' = Count(m) + 1
      /\ \A a \in Agent \ {m} : Count(a)' = Count(a)
      /\ \A a \in Agent : Count(a) \in Nat
  BY <1>1, <1>4 DEF Count
<1>6. m = IF number = 1 THEN (IF current = 0 THEN A ELSE B) ELSE (IF current = 0 THEN B ELSE A)
  BY <1>1, <1>4, ExecAssumption DEF Mover, PlayerAt, First, Other
<1>7. Lead' = Lead + (IF m = A THEN 1 ELSE -1) /\ Lead \in Int
  BY <1>5, ExecAssumption DEF Lead, Agent
<1>8. LeadInv'
  <2>1. CASE number = 1
    <3>1. Lead = current
      BY <1>1, <2>1 DEF EInv, LeadInv, InGame
    <3>2. Lead' = current'
      BY <1>1, <1>6, <1>7, <2>1, <3>1, ExecAssumption
    <3> QED
      BY <1>1, <2>1, <3>2 DEF EInv, LeadInv, InGame
  <2>2. CASE number = 2
    <3>1. Lead' + current' = Lead + current
      BY <1>1, <1>6, <1>7, <2>2, ExecAssumption
    <3> QED
      BY <1>1, <2>2, <3>1 DEF EInv, LeadInv, InGame, AfterFirst
  <2> QED
    BY <1>1, <2>1, <2>2
<1> QED
  BY <1>2, <1>3, <1>8 DEF EInv

\* A turn that is lost leaves the board as it is, with its player to move.
LEMMA LostTurnStep ==
  ASSUME EInv, Refuse \/ TimeOut \/ Crash \/ Overlong
  PROVE  EInv'
<1>1. PICK type \in {"invalid", "timeout", "crash"} :
         /\ pc = "turn" /\ pc' = "event"
         /\ reply' = [type |-> type, agent |-> Mover, turn |-> turnCount + 1, dur |-> 0]
         /\ UNCHANGED <<engineVars, number, wins, samples>>
  BY DEF Refuse, TimeOut, Crash, Overlong, Answer
<1>2. Mover \in Agent /\ turnCount + 1 \in Nat
  BY ExecAssumption DEF EInv, MemoryOK, Mover, PlayerAt, First, Other, Agent
<1>3. MemoryOK'
  BY <1>1, <1>2 DEF EInv, MemoryOK, engineVars
<1>4. BoardInv'
  BY <1>1 DEF EInv, BoardInv, InGame, TurnOver, engineVars, Mover, PlayerAt, First
<1>5. LeadInv'
  BY <1>1 DEF EInv, LeadInv, InGame, Lead, Count, AfterFirst, engineVars
<1> QED
  BY <1>3, <1>4, <1>5 DEF EInv

\* The rest of a turn and of a game changes neither the board nor the samples.
LEMMA WriteStep ==
  ASSUME EInv, AppendTurn \/ ProjectMove \/ FinishGame
  PROVE  EInv'
<1>1. /\ UNCHANGED <<engineVars, matchVars, reply>>
      /\ \/ pc = "event" /\ pc' = "project"
         \/ pc = "project" /\ pc' = IF reply.type = "place" /\ ~Engine!IsOver THEN "turn" ELSE "finish"
         \/ pc = "finish" /\ pc' = "ended"
  BY DEF AppendTurn, ProjectMove, FinishGame
<1>2. MemoryOK'
  BY <1>1 DEF EInv, MemoryOK, engineVars, matchVars
<1>3. BoardInv'
  BY <1>1 DEF EInv, BoardInv, InGame, TurnOver, engineVars, matchVars, Mover, PlayerAt, First,
     Engine!IsOver
<1>4. LeadInv'
  BY <1>1 DEF EInv, LeadInv, InGame, Lead, Count, AfterFirst, engineVars, matchVars
<1> QED
  BY <1>2, <1>3, <1>4 DEF EInv

\* The end of a game counts its winner: after the first for AfterFirst, after
\* the second to leave the samples level if the wins are.
LEMMA EndStep ==
  ASSUME EInv, GameEnded
  PROVE  EInv'
<1>1. /\ pc = "ended" /\ number' = 2
      /\ pc' = IF number = 1 THEN "create" ELSE "decide"
      /\ wins' = [a \in Agent |-> wins[a] + (IF a = GameWinner THEN 1 ELSE 0)]
      /\ samples' = samples /\ reply' = reply /\ UNCHANGED engineVars
      /\ wins \in [Agent -> 0..2] /\ number \in {1, 2} /\ current \in {0, 1}
      /\ current = turnCount % 2
  BY DEF GameEnded, EInv, MemoryOK, BoardInv, InGame
<1>2. \/ GameWinner = PlayerAt(1 - current)
      \/ GameWinner = "draw" /\ turnCount = Cells
  BY <1>1, Winner
<1>3. A # B /\ A # "draw" /\ B # "draw"
  BY ExecAssumption
<1>4. Lead' = Lead /\ Lead \in Int
  BY <1>1 DEF Lead, Count, EInv, MemoryOK, Agent
<1>5. CASE number = 1
  <2>1. wins[A] = 0 /\ wins[B] = 0 /\ Lead = current
    BY <1>1, <1>5 DEF EInv, LeadInv, InGame
  <2>2. \/ GameWinner = A /\ current = 1
        \/ GameWinner = B /\ current = 0
        \/ GameWinner = "draw" /\ current = Cells % 2
    BY <1>1, <1>2, <1>5 DEF PlayerAt, First, Other
  <2>3. AfterFirst(Lead)' /\ wins' \in [Agent -> 0..2]
    BY <1>1, <1>3, <1>4, <2>1, <2>2 DEF AfterFirst, Agent
  <2> QED
    BY <1>1, <1>5, <2>3 DEF EInv, MemoryOK, BoardInv, LeadInv, InGame, TurnOver, engineVars
<1>6. CASE number = 2
  <2>1. AfterFirst(Lead + current)
    BY <1>1, <1>6 DEF EInv, LeadInv, InGame
  <2>2. \/ GameWinner = B /\ current = 1
        \/ GameWinner = A /\ current = 0
        \/ GameWinner = "draw" /\ current = Cells % 2
    BY <1>1, <1>2, <1>3, <1>6 DEF PlayerAt, First, Other
  <2>3. /\ wins'[A] = wins[A] + (IF GameWinner = A THEN 1 ELSE 0)
        /\ wins'[B] = wins[B] + (IF GameWinner = B THEN 1 ELSE 0)
        /\ Cells % 2 \in Int
    BY <1>1, ExecAssumption DEF Agent
  <2>4. wins'[A] = wins'[B] => Lead = 0
    <3>1. CASE GameWinner = B /\ current = 1
      BY <1>3, <1>4, <2>1, <2>3, <3>1 DEF AfterFirst
    <3>2. CASE GameWinner = A /\ current = 0
      BY <1>3, <1>4, <2>1, <2>3, <3>2 DEF AfterFirst
    <3>3. CASE GameWinner = "draw" /\ current = Cells % 2
      BY <1>3, <1>4, <2>1, <2>3, <3>3 DEF AfterFirst
    <3> QED
      BY <2>2, <3>1, <3>2, <3>3
  <2>5. wins' \in [Agent -> 0..2]
    BY <1>1, <2>1 DEF AfterFirst, Agent
  <2> QED
    BY <1>1, <1>4, <1>6, <2>4, <2>5 DEF EInv, MemoryOK, BoardInv, LeadInv, InGame, TurnOver,
       engineVars
<1> QED
  BY <1>1, <1>5, <1>6

\* A new game starts with an empty board, a new attempt with empty samples.
LEMMA BeginStep ==
  ASSUME EInv, StartRunners \/ CreateGame \/ Decide
  PROVE  EInv'
<1>1. CASE StartRunners
  BY <1>1 DEF StartRunners, EInv, MemoryOK, BoardInv, LeadInv, InGame, TurnOver, Lead, Count,
     AfterFirst, engineVars, matchVars
<1>2. CASE CreateGame
  <2>1. /\ pc = "create" /\ pc' = "turn" /\ current' = 0 /\ turnCount' = 0 /\ winner' = "none"
        /\ UNCHANGED <<matchVars, reply>>
    BY <1>2 DEF CreateGame
  <2>2. Lead' = Lead /\ Lead \in Int
    BY <2>1 DEF Lead, Count, EInv, MemoryOK, matchVars, Agent
  <2>3. MemoryOK' /\ BoardInv'
    BY <2>1, ExecAssumption DEF EInv, MemoryOK, BoardInv, InGame, TurnOver, matchVars
  <2>4. LeadInv'
    BY <2>1, <2>2 DEF EInv, MemoryOK, LeadInv, InGame, AfterFirst, matchVars
  <2> QED
    BY <2>3, <2>4 DEF EInv
<1>3. CASE Decide /\ ~NextAttempt
  <2>1. pc' = "close" /\ UNCHANGED <<engineVars, matchVars, reply>>
    BY <1>3 DEF Decide, Return
  <2> QED
    BY <2>1 DEF EInv, MemoryOK, BoardInv, LeadInv, InGame, TurnOver, engineVars, matchVars
<1>4. CASE Decide /\ NextAttempt
  <2>1. /\ pc' = "create" /\ number' = 1 /\ wins' = [a \in Agent |-> 0]
        /\ samples' = [a \in Agent |-> <<>>] /\ UNCHANGED <<engineVars, reply>>
    BY <1>4 DEF NextAttempt
  <2>2. wins' \in [Agent -> 0..2] /\ samples' \in [Agent -> Seq(Duration)]
    BY <2>1
  <2>3. Count(A)' = 0 /\ Count(B)' = 0
    BY <2>1 DEF Count, Agent
  <2> QED
    BY <2>1, <2>2, <2>3 DEF EInv, MemoryOK, BoardInv, LeadInv, InGame, TurnOver, Lead, engineVars,
       Agent
<1> QED
  BY <1>1, <1>2, <1>3, <1>4

\* An error, or the end of the match.
LEMMA StopStep ==
  ASSUME EInv,
         \/ \E call \in Call : Fail(call)
         \/ \E a \in Agent : StartFails(a)
         \/ Close \/ RemoveImages
         \/ UNCHANGED vars
  PROVE  EInv'
<1>1. /\ UNCHANGED <<engineVars, matchVars, reply>>
      /\ pc' \in {"close", "untag", "done"} \/ pc' = pc
  BY DEF Fail, StartFails, Close, RemoveImages, vars
<1>2. MemoryOK'
  BY <1>1 DEF EInv, MemoryOK, engineVars, matchVars
<1>3. BoardInv'
  BY <1>1 DEF EInv, BoardInv, InGame, TurnOver, engineVars, matchVars, Mover, PlayerAt, First
<1>4. LeadInv'
  BY <1>1 DEF EInv, LeadInv, InGame, Lead, Count, AfterFirst, engineVars, matchVars
<1> QED
  BY <1>2, <1>3, <1>4 DEF EInv

LEMMA StepInv == EInv /\ [Next]_vars => EInv'
<1> SUFFICES ASSUME EInv, [Next]_vars PROVE EInv'
  OBVIOUS
<1>1. {"create", "finish", "ended"} \subseteq Call
  BY DEF Call
<1> QED
  BY <1>1, AcceptStep, LostTurnStep, WriteStep, EndStep, BeginStep, StopStep DEF Next

\* What the board, the wins and the samples have to do with each other, at
\* every moment of a match.
THEOREM Inductive == Spec => []EInv
<1> QED
  BY InitInv, StepInv, PTL DEF Spec

\* Averages are compared only after the same number of accepted moves of either
\* bot: the comparison by cross-multiplication of runTwoGames is one of totals,
\* and its cases for one bot without moves never arise.
THEOREM TieBreakEven == Spec => []TieBreakIsEven
<1>1. EInv => TieBreakIsEven
  BY DEF EInv, MemoryOK, LeadInv, Lead, TieBreakIsEven, Count, Agent
<1> QED
  BY <1>1, Inductive, PTL
=============================================================================
