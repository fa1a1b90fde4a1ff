--------------------------- MODULE ExecRowsProofs ---------------------------
(***************************************************************************)
(* What the worker writes of a match and what it keeps of it in memory     *)
(* agree, for every board, every number of attempts, any durations and     *)
(* bots, and whatever calls fail.                                          *)
(***************************************************************************)
EXTENDS ExecProofs, FiniteSetTheorems

GamesRow  == [first : Agent, result : Result \union {"none"}, count : 0..Cells]
TurnsRow  == [placed : [Agent -> Seq(Placed)], lost : SUBSET LostTurn]
EventsRow == [placed : [Agent -> Seq(Placed)], lost : SUBSET LostTurn,
              ended : Result \union {"none"}]

RowsOK ==
  /\ games \in Seq(GamesRow) /\ moves \in Seq(TurnsRow) /\ events \in Seq(EventsRow)
  /\ Len(moves) = Len(games) /\ Len(events) = Len(games)
  /\ attempt \in 0..(MaxAttempts - 1)
  /\ verdict \in Agent \union {"open", "draw", "failed"}
  /\ alive \subseteq running /\ running \subseteq UserBot
  /\ images \subseteq UserBot /\ unstopped \subseteq UserBot
  /\ dropped \in BOOLEAN /\ faults \in 0..MaxFaults

Decided == verdict \in Agent \union {"draw"}

\* How many games there are, who began each, and when there is a verdict.
ShapeInv ==
  /\ number - 1 <= Game /\ Game <= number
  /\ pc = "start" => Game = 0
  /\ pc = "create" => Game = number - 1
  /\ InGame => Game = number
  /\ pc = "decide" \/ Decided => Game = 2
  /\ pc \in {"close", "untag", "done"} <=> verdict # "open"
  /\ \A g \in DOMAIN games : games[g].first = IF g = 1 THEN A ELSE B

\* What the last turn was.
TurnInv ==
  TurnOver =>
    IF reply.type = "place"
    THEN reply.turn = turnCount /\ reply.agent = PlayerAt(1 - current)
    ELSE reply.turn = turnCount + 1 /\ reply.agent \in UserBot

\* A game gets its result, and then its event says so.
Closed(g) == games[g].result # "none" /\ events[g].ended = games[g].result
Open(g) ==
  /\ g = Game /\ events[g].ended = "none"
  /\ \/ pc \in {"turn", "event", "project", "finish"} /\ games[g].result = "none"
     \/ pc = "ended" /\ games[g].result = GameResult
     \/ verdict = "failed"
ResultInv == /\ \A g \in DOMAIN games : Closed(g) \/ Open(g)
             /\ InGame => Open(Game)

\* The rows of a turn are written in both tables, the event first.
Same(t, u) == t.placed = u.placed /\ t.lost = u.lost
TurnsInv ==
  ~dropped => \A g \in DOMAIN games :
                IF pc = "project" /\ g = Game THEN Same(events[g], Record(moves[g]))
                                              ELSE Same(events[g], moves[g])

\* The wins in memory are those of the rows.
WinOf(g, a) ==
  IF games[g].result = (IF games[g].first = a THEN "player_a_win" ELSE "player_b_win") THEN 1 ELSE 0
WinsInv ==
  /\ number = 1 => \A a \in Agent : wins[a] = 0
  /\ number = 2 /\ (pc = "create" \/ InGame) => \A a \in Agent : wins[a] = WinOf(1, a)
  /\ pc = "decide" => \A a \in Agent : wins[a] = WinOf(1, a) + WinOf(2, a)

\* The samples in memory are the times of the rows, but for a move whose row is
\* about to be written.
Times(t, a) == [i \in DOMAIN t.placed[a] |-> t.placed[a][i].dur]
Played(a) == CASE Game = 0 -> <<>>
               [] Game = 1 -> Times(moves[1], a)
               [] Game = 2 -> Times(moves[1], a) \o Times(moves[2], a)
Pending(a) == pc \in {"event", "project"} /\ reply.type = "place" /\ reply.agent = a
SamplesInv ==
  ~dropped => \A a \in Agent :
                samples[a] = IF Pending(a) THEN Append(Played(a), reply.dur) ELSE Played(a)

RInv == /\ EInv /\ RowsOK /\ ShapeInv /\ TurnInv /\ ResultInv /\ TurnsInv
        /\ WinsInv /\ SamplesInv

-----------------------------------------------------------------------------

LEMMA Facts ==
  ASSUME RInv
  PROVE  /\ DOMAIN games = 1..Game /\ DOMAIN moves = 1..Game /\ DOMAIN events = 1..Game
         /\ Game \in 0..2 /\ number \in {1, 2} /\ number - 1 <= Game /\ Game <= number
         /\ \A g \in 1..Game : games[g] \in GamesRow /\ moves[g] \in TurnsRow /\ events[g] \in EventsRow
BY DEF RInv, RowsOK, ShapeInv, EInv, MemoryOK, Game

LEMMA TimesType ==
  ASSUME NEW t \in TurnsRow, NEW a \in Agent
  PROVE  Times(t, a) \in Seq(Nat) /\ DOMAIN Times(t, a) = DOMAIN t.placed[a]
<1>1. t.placed[a] \in Seq(Placed)
  BY DEF TurnsRow
<1>2. PICK s \in Seq(Placed) : s = t.placed[a]
  BY <1>1
<1>3. DOMAIN s = 1..Len(s) /\ Len(s) \in Nat /\ \A i \in 1..Len(s) : s[i].dur \in Nat
  <2>1. \A i \in 1..Len(s) : s[i] \in Placed
    OBVIOUS
  <2> QED
    BY <2>1 DEF Placed
<1> QED
  BY <1>2, <1>3 DEF Times

LEMMA RowsInit == Init => RInv
<1> SUFFICES ASSUME Init PROVE RInv
  OBVIOUS
<1>1. EInv
  BY InitInv
<1>2. RowsOK
  <2>1. games \in Seq(GamesRow) /\ moves \in Seq(TurnsRow) /\ events \in Seq(EventsRow)
    BY DEF Init
  <2>2. 0 \in 0..(MaxAttempts - 1) /\ 0 \in 0..MaxFaults
    BY ExecAssumption
  <2> QED
    BY <2>1, <2>2 DEF Init, RowsOK
<1>3. ShapeInv /\ TurnInv
  <2>1. "open" \notin Agent \union {"draw"}
    BY ExecAssumption DEF Agent
  <2> QED
    BY <2>1 DEF Init, ShapeInv, TurnInv, Game, InGame, TurnOver, Decided
<1>5. ResultInv /\ TurnsInv
  BY DEF InGame, Init, ResultInv, TurnsInv
<1>4. WinsInv /\ SamplesInv
  BY DEF Init, WinsInv, SamplesInv, Game, InGame, TurnOver, Decided,
     Agent, Played, Pending
<1> QED
  BY <1>1, <1>2, <1>3, <1>4, <1>5 DEF RInv

\* Before the first game there is nothing to agree with.
LEMMA StartRows ==
  ASSUME RInv, StartRunners
  PROVE  RInv'
<1>1. /\ pc = "start" /\ pc' = "create" /\ alive' = UserBot /\ running' = UserBot
      /\ images' = UserBot /\ unstopped' = unstopped
      /\ UNCHANGED <<games, moves, events, current, turnCount, winner, attempt, number, wins,
                     samples, reply, verdict, dropped, faults>>
      /\ Len(games) = 0 /\ Len(moves) = 0 /\ Len(events) = 0 /\ number = 1
  BY DEF StartRunners, dbVars, engineVars, matchVars, faultVars, RInv, RowsOK, ShapeInv, Game,
     EInv, LeadInv
<1>2. EInv'
  BY BeginStep DEF RInv
<1>3. RowsOK' /\ ShapeInv' /\ TurnInv' /\ ResultInv' /\ TurnsInv'
  BY <1>1 DEF RInv, RowsOK, ShapeInv, TurnInv, ResultInv, TurnsInv, Game, InGame, TurnOver, Decided
<1>4. WinsInv' /\ SamplesInv'
  BY <1>1 DEF RInv, WinsInv, SamplesInv, Game, InGame, Played, Pending
<1> QED
  BY <1>2, <1>3, <1>4 DEF RInv

LEMMA FaultTypes ==
  ASSUME RInv, NEW call \in Call, Fault(call)
  PROVE  dropped' \in BOOLEAN /\ faults' \in 0..MaxFaults /\ (~dropped' => ~dropped)
BY ExecAssumption DEF Fault, RInv, RowsOK

\* An error, or the end of the match: the rows and the samples stay as they are.
LEMMA StopRows ==
  ASSUME RInv,
         \/ \E call \in Call : pc \in {"create", "finish", "ended"} /\ Fail(call)
         \/ \E a \in Agent : StartFails(a)
         \/ Close \/ RemoveImages
  PROVE  RInv'
<1> DEFINE Kept == UNCHANGED <<games, moves, events, current, turnCount, winner, attempt, number,
                               wins, samples, reply>>
           Stop ==
      /\ Kept
      /\ pc \in {"start", "create", "finish", "ended", "close", "untag"}
      /\ pc' \in {"close", "untag", "done"}
      /\ \/ verdict' = "failed"
         \/ verdict' = verdict /\ pc \in {"close", "untag"}
      /\ alive' \subseteq running' /\ running' \subseteq UserBot
      /\ images' \subseteq UserBot /\ unstopped' \subseteq UserBot
      /\ dropped' \in BOOLEAN /\ faults' \in 0..MaxFaults /\ (~dropped' => ~dropped)
<1>1. ASSUME \E call \in Call : pc \in {"create", "finish", "ended"} /\ Fail(call)
      PROVE  Stop
  <2>1. PICK call \in Call : pc \in {"create", "finish", "ended"} /\ Fail(call)
    BY <1>1
  <2>2. Fault(call) /\ Kept /\ pc' = "close" /\ verdict' = "failed" /\ UNCHANGED botVars
    BY <2>1 DEF Fail, dbVars, engineVars, matchVars
  <2> QED
    BY <2>1, <2>2, FaultTypes DEF RInv, RowsOK, botVars
<1>2. ASSUME \E a \in Agent : StartFails(a)
      PROVE  Stop
  <2>1. PICK a \in Agent : StartFails(a)
    BY <1>2
  <2>2. /\ Fault("start") /\ pc = "start" /\ pc' = "done" /\ Kept
        /\ verdict' = "failed" /\ alive' = running' /\ running' \subseteq UserBot
        /\ images' \subseteq UserBot /\ unstopped' = unstopped
    BY <2>1 DEF StartFails, dbVars, engineVars, matchVars
  <2> QED
    BY <2>2, FaultTypes DEF Call, RInv, RowsOK
<1>3. ASSUME Close \/ RemoveImages
      PROVE  Stop
  <2>1. /\ Kept /\ verdict' = verdict
        /\ alive' \subseteq running' /\ running' \subseteq UserBot
        /\ images' \subseteq UserBot /\ unstopped' \subseteq UserBot
        /\ pc \in {"close", "untag"} /\ pc' \in {"untag", "done"}
        /\ Fault("stop") \/ Fault("remove") \/ UNCHANGED faultVars
    BY <1>3 DEF Close, RemoveImages, dbVars, engineVars, matchVars, RInv, RowsOK
  <2> QED
    BY <2>1, FaultTypes DEF faultVars, RInv, RowsOK, Call
<1>4. Stop
  BY <1>1, <1>2, <1>3
<1>5. EInv'
  BY StopStep DEF RInv
<1>6. RowsOK' /\ TurnInv'
  BY <1>4 DEF RInv, RowsOK, TurnInv, TurnOver
<1>7. ShapeInv'
  <2>1. "failed" \notin Agent \union {"draw", "open"}
    BY ExecAssumption DEF Agent
  <2> QED
    BY <1>4, <2>1 DEF RInv, ShapeInv, Game, InGame, Decided
<1>8. ResultInv'
  BY <1>4 DEF InGame, RInv, ResultInv, Game, Closed, Open
<1>9. TurnsInv'
  BY <1>4 DEF RInv, TurnsInv, Game, Same
<1>10. WinsInv' /\ SamplesInv'
  BY <1>4 DEF RInv, WinsInv, SamplesInv, Game, InGame, Played, Pending
<1> QED
  BY <1>5, <1>6, <1>7, <1>8, <1>9, <1>10 DEF RInv

LEMMA StutterRows == RInv /\ UNCHANGED vars => RInv'
<1> SUFFICES ASSUME RInv, UNCHANGED vars PROVE RInv'
  OBVIOUS
<1>1. UNCHANGED <<games, moves, events, pc, current, turnCount, winner, attempt, number, wins,
                  samples, reply, verdict, alive, running, images, unstopped, dropped, faults>>
  BY DEF vars, dbVars, engineVars, matchVars, faultVars, botVars
<1>2. EInv'
  BY StopStep DEF RInv
<1>3. RowsOK' /\ ShapeInv' /\ TurnInv' /\ TurnsInv'
  <2>1. RowsOK'
    BY <1>1 DEF RInv, RowsOK
  <2>2. ShapeInv'
    BY <1>1 DEF RInv, ShapeInv, Game, InGame, Decided
  <2>3. TurnInv'
    BY <1>1 DEF RInv, TurnInv, TurnOver, PlayerAt, First
  <2>4. TurnsInv'
    BY <1>1 DEF RInv, TurnsInv, Game, Same, Record
  <2> QED
    BY <2>1, <2>2, <2>3, <2>4
<1>4. ResultInv'
  BY <1>1 DEF InGame, RInv, ResultInv, Game, Closed, Open, GameResult, GameWinner, First
<1>5. WinsInv' /\ SamplesInv'
  <2>1. \A a : WinOf(1, a)' = WinOf(1, a) /\ WinOf(2, a)' = WinOf(2, a)
    BY <1>1 DEF WinOf
  <2>2. WinsInv'
    BY <1>1, <2>1 DEF RInv, WinsInv, InGame
  <2>3. \A a : Played(a)' = Played(a) /\ (Pending(a)' <=> Pending(a))
    BY <1>1 DEF Played, Pending, Times, Game
  <2>4. SamplesInv'
    BY <1>1, <2>3 DEF RInv, SamplesInv
  <2> QED
    BY <2>2, <2>4
<1> QED
  BY <1>2, <1>3, <1>4, <1>5 DEF RInv

\* A new game has no turns yet.
LEMMA CreateRows ==
  ASSUME RInv, CreateGame
  PROVE  RInv'
<1>1. /\ pc = "create" /\ pc' = "turn"
      /\ games' = Append(games, [first |-> First, result |-> "none", count |-> 0])
      /\ moves' = Append(moves, NoTurns)
      /\ events' = Append(events, [placed |-> NoTurns.placed, lost |-> {}, ended |-> "none"])
      /\ current' = 0 /\ turnCount' = 0 /\ winner' = "none"
      /\ UNCHANGED <<attempt, number, wins, samples, reply, verdict, alive, running, images,
                     unstopped, dropped, faults>>
  BY DEF CreateGame, matchVars, botVars, faultVars
<1>2. EInv'
  BY BeginStep DEF RInv
<1>3. Game = number - 1 /\ Game \in {0, 1} /\ number \in {1, 2} /\ Len(moves) = Game /\ Len(events) = Game
  BY <1>1, Facts DEF RInv, ShapeInv, RowsOK, Game
<1>4. /\ NoTurns = [placed |-> [a \in Agent |-> <<>>], lost |-> {}]
      /\ NoTurns \in TurnsRow /\ First \in Agent
      /\ First = (IF number = 1 THEN A ELSE B)
      /\ [first |-> First, result |-> "none", count |-> 0] \in GamesRow
      /\ [placed |-> NoTurns.placed, lost |-> {}, ended |-> "none"] \in EventsRow
  BY ExecAssumption DEF NoTurns, TurnsRow, EventsRow, GamesRow, First, Agent
<1>5. /\ Game' = number /\ Len(moves') = number /\ Len(events') = number
      /\ \A g \in 1..Game : games'[g] = games[g] /\ moves'[g] = moves[g] /\ events'[g] = events[g]
      /\ games'[number] = [first |-> First, result |-> "none", count |-> 0]
      /\ moves'[number] = NoTurns
      /\ events'[number] = [placed |-> NoTurns.placed, lost |-> {}, ended |-> "none"]
      /\ DOMAIN games' = 1..number /\ DOMAIN moves' = 1..number /\ DOMAIN events' = 1..number
  BY <1>1, <1>3, <1>4 DEF Game, RInv, RowsOK
<1>6. RowsOK'
  <2>1. games' \in Seq(GamesRow) /\ moves' \in Seq(TurnsRow) /\ events' \in Seq(EventsRow)
    BY <1>1, <1>4 DEF RInv, RowsOK
  <2> QED
    BY <1>1, <1>5, <2>1 DEF RInv, RowsOK, Game
<1>7. ShapeInv' /\ TurnInv'
  <2>1. \A g \in 1..number : games'[g].first = IF g = 1 THEN A ELSE B
    BY <1>3, <1>4, <1>5, Facts DEF RInv, ShapeInv
  <2> QED
    BY <1>1, <1>3, <1>5, <2>1 DEF RInv, ShapeInv, TurnInv, InGame, TurnOver, Decided
<1>8. ResultInv'
  <2>1. \A g \in 1..Game : Closed(g)
    BY <1>1, Facts DEF RInv, ResultInv, Open, ShapeInv
  <2> QED
    BY <1>1, <1>3, <1>5, <2>1 DEF ResultInv, Closed, Open
<1>9. TurnsInv'
  BY <1>1, <1>3, <1>5, Facts DEF RInv, TurnsInv, Same, NoTurns
<1>10. WinsInv'
  <2>1. CASE number = 1
    BY <1>1, <2>1 DEF RInv, WinsInv
  <2>2. CASE number = 2
    <3>1. games'[1] = games[1]
      BY <1>3, <1>5, <2>2
    <3>2. \A a \in Agent : wins[a] = WinOf(1, a)
      BY <1>1, <2>2 DEF RInv, WinsInv
    <3>3. \A a \in Agent : wins'[a] = WinOf(1, a)'
      BY <1>1, <3>1, <3>2 DEF WinOf
    <3> QED
      BY <1>1, <2>2, <3>3 DEF WinsInv
  <2> QED
    BY <1>3, <2>1, <2>2
<1>11. SamplesInv'
  <2>1. \A a \in Agent : Times(NoTurns, a) = <<>>
    BY <1>4 DEF Times
  <2>2. ASSUME NEW a \in Agent, Game = 1
        PROVE  Times(moves[1], a) \in Seq(Nat)
    BY <2>2, Facts, TimesType
  <2>3. \A a \in Agent : Played(a)' = Played(a)
    <3>1. CASE Game = 0
      BY <1>3, <1>5, <2>1, <3>1 DEF Played
    <3>2. ASSUME Game = 1, NEW a \in Agent
          PROVE  Played(a)' = Played(a)
      <4>1. Played(a) = Times(moves[1], a)
        BY <3>2 DEF Played
      <4>2. Played(a)' = Times(moves[1], a) \o <<>>
        <5>0. Game' = 2 /\ number = 2
          BY <1>3, <1>5, <3>2
        <5>1. Played(a)' = Times(moves[1], a)' \o Times(moves[2], a)'
          BY <5>0 DEF Played
        <5>2. Times(moves[1], a)' = Times(moves'[1], a) /\ Times(moves[2], a)' = Times(moves'[2], a)
          BY DEF Times
        <5>3. moves'[1] = moves[1] /\ moves'[2] = NoTurns
          BY <1>5, <3>2, <5>0
        <5>4. Times(moves'[2], a) = <<>>
          BY <2>1, <5>3
        <5>5. Times(moves'[1], a) = Times(moves[1], a)
          BY <5>3
        <5> QED
          BY <5>1, <5>2, <5>4, <5>5
      <4>3. \A s \in Seq(Nat) : s \o <<>> = s
        OBVIOUS
      <4> QED
        BY <2>2, <3>2, <4>1, <4>2, <4>3
    <3> QED
      BY <1>3, <3>1, <3>2
  <2> QED
    BY <1>1, <2>3 DEF RInv, SamplesInv, Pending
<1> QED
  BY <1>2, <1>6, <1>7, <1>8, <1>9, <1>10, <1>11 DEF RInv
LEMMA Players ==
  ASSUME RInv
  PROVE  /\ Mover \in Agent /\ First \in Agent /\ current \in {0, 1} /\ turnCount \in 0..Cells
         /\ wins \in [Agent -> 0..2] /\ samples \in [Agent -> Seq(Duration)]
         /\ reply.agent \in Agent /\ reply.turn \in Nat /\ reply.dur \in Nat
         /\ reply.type \in {"none", "place", "invalid", "timeout", "crash"}
         /\ \A a \in Agent : Other(a) \in Agent /\ Other(a) # a /\ Other(Other(a)) = a
BY ExecAssumption DEF RInv, EInv, MemoryOK, Mover, First, PlayerAt, Other, Agent

\* An accepted move: in memory only, so far.
LEMMA AcceptRows ==
  ASSUME RInv, NEW d \in Duration, Accept(d)
  PROVE  RInv'
<1>1. /\ pc = "turn" /\ pc' = "event" /\ CanAnswer
      /\ samples' = [samples EXCEPT ![Mover] = Append(@, d)]
      /\ turnCount' = turnCount + 1 /\ current' = 1 - current
      /\ reply' = [type |-> "place", agent |-> Mover, turn |-> turnCount + 1, dur |-> d]
      /\ UNCHANGED <<games, moves, events, attempt, number, wins, verdict, alive, running, images,
                     unstopped, dropped, faults>>
  BY DEF Accept, Answer, SameBot, Engine!Accepted, dbVars, faultVars
<1>2. EInv'
  BY AcceptStep DEF RInv
<1>3. RowsOK' /\ ShapeInv'
  BY <1>1 DEF RInv, RowsOK, ShapeInv, Game, InGame, Decided
<1>4. TurnInv'
  <2>1. Mover = PlayerAt(1 - current')
    BY <1>1, Players DEF Mover, PlayerAt
  <2>2. PlayerAt(1 - current)' = PlayerAt(1 - current')
    BY <1>1 DEF PlayerAt, First
  <2> QED
    BY <1>1, <2>1, <2>2 DEF TurnInv
<1>5. ResultInv'
  BY <1>1 DEF InGame, RInv, ResultInv, Closed, Open, Game
<1>6. TurnsInv'
  BY <1>1 DEF RInv, TurnsInv, Same
<1>7. WinsInv'
  BY <1>1 DEF RInv, WinsInv, WinOf, InGame
<1>8. SamplesInv'
  <2>1. \A a \in Agent : Played(a)' = Played(a)
    BY <1>1 DEF Played, Times, Game
  <2>2. \A a \in Agent : Pending(a)' <=> a = Mover
    BY <1>1 DEF Pending
  <2>3. \A a \in Agent : samples'[a] = IF a = Mover THEN Append(samples[a], d) ELSE samples[a]
    BY <1>1, Players
  <2>4. ~dropped => \A a \in Agent : samples[a] = Played(a)
    BY <1>1 DEF RInv, SamplesInv, Pending
  <2> QED
    BY <1>1, <2>1, <2>2, <2>3, <2>4 DEF SamplesInv
<1> QED
  BY <1>2, <1>3, <1>4, <1>5, <1>6, <1>7, <1>8 DEF RInv

\* A turn that is lost: the bot has a process.
LEMMA LostTurnRows ==
  ASSUME RInv, Refuse \/ TimeOut \/ Crash \/ Overlong
  PROVE  RInv'
<1>1. PICK type \in {"invalid", "timeout", "crash"} :
         /\ pc = "turn" /\ pc' = "event" /\ Mover \in UserBot
         /\ reply' = [type |-> type, agent |-> Mover, turn |-> turnCount + 1, dur |-> 0]
         /\ UNCHANGED <<games, moves, events, current, turnCount, attempt, number, wins, samples,
                        verdict, images, unstopped>>
  BY DEF Refuse, TimeOut, Crash, Overlong, Answer, dbVars, engineVars, RInv, RowsOK
<1>8. /\ alive' \subseteq running' /\ running' \subseteq UserBot
      /\ dropped' \in BOOLEAN /\ faults' \in 0..MaxFaults /\ (~dropped' => ~dropped)
  BY FaultTypes DEF Refuse, TimeOut, Crash, Overlong, SameBot, Goes, faultVars, Call, RInv, RowsOK
<1>2. EInv'
  BY LostTurnStep DEF RInv
<1>3. RowsOK' /\ ShapeInv' /\ TurnInv'
  BY <1>1, <1>8 DEF RInv, RowsOK, ShapeInv, TurnInv, Game, InGame, Decided
<1>4. ResultInv'
  BY <1>1 DEF InGame, RInv, ResultInv, Closed, Open, Game
<1>5. TurnsInv'
  BY <1>1, <1>8 DEF RInv, TurnsInv, Same
<1>6. WinsInv' /\ SamplesInv'
  <2>1. \A a \in Agent : Played(a)' = Played(a) /\ ~Pending(a) /\ ~Pending(a)'
    BY <1>1 DEF Played, Times, Game, Pending
  <2> QED
    BY <1>1, <1>8, <2>1 DEF RInv, WinsInv, WinOf, InGame, SamplesInv
<1> QED
  BY <1>2, <1>3, <1>4, <1>5, <1>6 DEF RInv

-----------------------------------------------------------------------------
(* The rows of a turn                                                      *)

TurnRow == [turn |-> reply.turn, dur |-> reply.dur]
LostRow == [turn |-> reply.turn, agent |-> reply.agent, type |-> reply.type]
Longer(p) == [p EXCEPT ![reply.agent] = Append(@, TurnRow)]

\* Record adds the turn to the moves that were accepted or to those that lost,
\* and changes nothing else.
LEMMA RecordIs ==
  ASSUME RInv, TurnOver
  PROVE  /\ \A t \in TurnsRow  : Record(t) \in TurnsRow
         /\ \A t \in EventsRow : Record(t) \in EventsRow /\ Record(t).ended = t.ended
         /\ \A t \in TurnsRow \union EventsRow :
              IF reply.type = "place"
              THEN Record(t).placed = Longer(t.placed) /\ Record(t).lost = t.lost
              ELSE Record(t).placed = t.placed /\ Record(t).lost = t.lost \union {LostRow}
         /\ \A p \in [Agent -> Seq(Placed)] : \A a \in Agent :
              Longer(p)[a] = IF a = reply.agent THEN Append(p[a], TurnRow) ELSE p[a]
<1>1. TurnRow \in Placed /\ (reply.type # "place" => LostRow \in LostTurn)
  BY Players DEF TurnRow, LostRow, Placed, LostTurn, TurnOver, RInv, EInv, BoardInv
<1>2. \A p \in [Agent -> Seq(Placed)] :
        /\ Longer(p) \in [Agent -> Seq(Placed)]
        /\ \A a \in Agent : Longer(p)[a] = IF a = reply.agent THEN Append(p[a], TurnRow) ELSE p[a]
  BY <1>1, Players DEF Longer
<1>3. \A t \in TurnsRow \union EventsRow : t.placed \in [Agent -> Seq(Placed)]
  BY DEF TurnsRow, EventsRow
<1>4. CASE reply.type = "place"
  <2>1. \A t : Record(t) = [t EXCEPT !.placed = Longer(t.placed)]
    BY <1>4 DEF Record, TurnRow, Longer
  <2>2. \A t \in TurnsRow \union EventsRow : Longer(t.placed) \in [Agent -> Seq(Placed)]
    BY <1>2, <1>3
  <2> QED
    BY <1>2, <1>4, <2>1, <2>2 DEF TurnsRow, EventsRow
<1>5. CASE reply.type # "place"
  <2>1. \A t : Record(t) = [t EXCEPT !.lost = @ \union {LostRow}]
    BY <1>5 DEF Record, LostRow
  <2> QED
    BY <1>1, <1>2, <1>5, <2>1 DEF TurnsRow, EventsRow
<1> QED
  BY <1>4, <1>5

LEMMA RecordPlaced ==
  ASSUME RInv, TurnOver, NEW t \in TurnsRow, NEW a \in Agent
  PROVE  Record(t).placed[a] = IF reply.type = "place" /\ reply.agent = a
                               THEN Append(t.placed[a], TurnRow) ELSE t.placed[a]
<1>1. PICK p \in [Agent -> Seq(Placed)] : p = t.placed
  BY DEF TurnsRow
<1>2. Record(t).placed = IF reply.type = "place" THEN Longer(p) ELSE p
  BY <1>1, RecordIs
<1>3. Longer(p)[a] = IF a = reply.agent THEN Append(p[a], TurnRow) ELSE p[a]
  BY RecordIs
<1> QED
  BY <1>1, <1>2, <1>3

LEMMA RecordPlacedEvents ==
  ASSUME RInv, TurnOver, NEW t \in EventsRow, NEW a \in Agent
  PROVE  Record(t).placed[a] = IF reply.type = "place" /\ reply.agent = a
                               THEN Append(t.placed[a], TurnRow) ELSE t.placed[a]
<1>1. PICK p \in [Agent -> Seq(Placed)] : p = t.placed
  BY DEF EventsRow
<1>2. Record(t).placed = IF reply.type = "place" THEN Longer(p) ELSE p
  BY <1>1, RecordIs
<1>3. Longer(p)[a] = IF a = reply.agent THEN Append(p[a], TurnRow) ELSE p[a]
  BY RecordIs
<1> QED
  BY <1>1, <1>2, <1>3

LEMMA RecordSame ==
  ASSUME RInv, TurnOver,
         NEW t \in EventsRow, NEW u \in TurnsRow, Same(t, u)
  PROVE  Same(Record(t), Record(u))
<1>1. t.placed = u.placed /\ t.lost = u.lost
  BY DEF Same
<1>2. Record(t).placed = Record(u).placed
  BY <1>1, RecordIs
<1>3. Record(t).lost = Record(u).lost
  BY <1>1, RecordIs
<1> QED
  BY <1>2, <1>3 DEF Same

\* The event of a turn, or its loss.
LEMMA AppendRows ==
  ASSUME RInv, AppendTurn
  PROVE  RInv'
<1>1. /\ pc = "event" /\ pc' = "project"
      /\ UNCHANGED <<games, moves, current, turnCount, winner, attempt, number, wins, samples, reply,
                     verdict, alive, running, images, unstopped>>
  BY DEF AppendTurn, engineVars, matchVars, botVars
<1>2. EInv'
  BY WriteStep DEF RInv
<1>3. Game = number /\ Game \in {1, 2} /\ TurnOver /\ InGame
  BY <1>1, Facts DEF RInv, ShapeInv, InGame, TurnOver
<1>4. \/ /\ events' = [events EXCEPT ![Game] = Record(@)]
         /\ dropped' = dropped /\ faults' = faults
      \/ /\ events' = events /\ dropped' = TRUE /\ faults' \in 0..MaxFaults
  <2>1. Fault("event") => dropped' = TRUE /\ faults' \in 0..MaxFaults
    BY FaultTypes DEF Fault, Call
  <2> QED
    BY <2>1 DEF AppendTurn, faultVars
<1>5. /\ Len(events') = Len(events) /\ DOMAIN events' = 1..Game
      /\ \A g \in 1..Game : g # Game => events'[g] = events[g]
      /\ \A g \in 1..Game : events'[g].ended = events[g].ended
      /\ events' \in Seq(EventsRow)
      /\ ~dropped' => events'[Game] = Record(events[Game])
  <2>1. Record(events[Game]) \in EventsRow /\ Record(events[Game]).ended = events[Game].ended
    BY <1>3, Facts, RecordIs
  <2> QED
    BY <1>3, <1>4, <2>1, Facts DEF RInv, RowsOK
<1>6. RowsOK' /\ ShapeInv' /\ TurnInv'
  BY <1>1, <1>4, <1>5 DEF RInv, RowsOK, ShapeInv, TurnInv, Game, InGame, TurnOver, Decided, PlayerAt,
     First
<1>7. ResultInv'
  BY <1>1, <1>5, Facts DEF InGame, RInv, ResultInv, Closed, Open, Game
<1>8. TurnsInv'
  <2> SUFFICES ASSUME ~dropped', NEW g \in 1..Game
               PROVE  IF g = Game THEN Same(events'[g], Record(moves[g]))
                                  ELSE Same(events'[g], moves[g])
    BY <1>1, Facts DEF TurnsInv, Same, Game, Record
  <2>1. Same(events[g], moves[g])
    BY <1>1, <1>4, Facts DEF RInv, TurnsInv
  <2>2. CASE g # Game
    BY <1>5, <2>1, <2>2 DEF Same
  <2>3. CASE g = Game
    <3>1. events'[g] = Record(events[g]) /\ events[g] \in EventsRow /\ moves[g] \in TurnsRow
      BY <1>5, <2>3, Facts
    <3>2. Same(Record(events[g]), Record(moves[g]))
      BY <1>3, <2>1, <3>1, RecordSame
    <3> QED
      BY <2>3, <3>1, <3>2
  <2> QED
    BY <2>2, <2>3
<1>9. WinsInv' /\ SamplesInv'
  <2>1. \A a \in Agent : Played(a)' = Played(a) /\ (Pending(a)' <=> Pending(a))
    BY <1>1 DEF Played, Times, Game, Pending
  <2>2. ~dropped' => ~dropped
    BY <1>4
  <2> QED
    BY <1>1, <2>1, <2>2 DEF RInv, WinsInv, WinOf, InGame, SamplesInv
<1> QED
  BY <1>2, <1>6, <1>7, <1>8, <1>9 DEF RInv

\* The times of the moves are a sequence, and a new row adds its time at the end.
LEMMA TimesAppend ==
  ASSUME NEW s \in Seq(Placed), NEW r \in Placed, NEW f,
         f = [i \in DOMAIN s |-> s[i].dur]
  PROVE  [i \in DOMAIN Append(s, r) |-> Append(s, r)[i].dur] = Append(f, r.dur)
<1>1. /\ Len(s) \in Nat /\ DOMAIN s = 1..Len(s)
      /\ DOMAIN Append(s, r) = 1..(Len(s) + 1)
      /\ \A i \in 1..Len(s) : Append(s, r)[i] = s[i]
      /\ Append(s, r)[Len(s) + 1] = r
  OBVIOUS
<1>2. \A i \in 1..Len(s) : s[i] \in Placed
  OBVIOUS
<1>3. f \in Seq(Nat) /\ Len(f) = Len(s)
  BY <1>1, <1>2 DEF Placed
<1>4. Append(f, r.dur) = [i \in 1..(Len(s) + 1) |-> IF i = Len(s) + 1 THEN r.dur ELSE f[i]]
  BY <1>3
<1> QED
  BY <1>1, <1>4

LEMMA Concatenation ==
  ASSUME NEW s \in Seq(Nat), NEW t \in Seq(Nat), NEW d \in Nat
  PROVE  s \o Append(t, d) = Append(s \o t, d)
OBVIOUS

\* The row of a turn, or its loss.
LEMMA ProjectRows ==
  ASSUME RInv, ProjectMove
  PROVE  RInv'
<1>1. /\ pc = "project"
      /\ pc' = IF reply.type = "place" /\ ~Engine!IsOver THEN "turn" ELSE "finish"
      /\ UNCHANGED <<games, events, current, turnCount, winner, attempt, number, wins, samples, reply,
                     verdict, alive, running, images, unstopped>>
  BY DEF ProjectMove, engineVars, matchVars, botVars
<1>2. EInv'
  BY WriteStep DEF RInv
<1>3. Game = number /\ Game \in {1, 2} /\ TurnOver /\ InGame /\ pc' \in {"turn", "finish"}
  BY <1>1, Facts DEF RInv, ShapeInv, InGame, TurnOver
<1>4. \/ /\ moves' = [moves EXCEPT ![Game] = Record(@)]
         /\ dropped' = dropped /\ faults' = faults
      \/ /\ moves' = moves /\ dropped' = TRUE /\ faults' \in 0..MaxFaults
  <2>1. Fault("project") => dropped' = TRUE /\ faults' \in 0..MaxFaults
    BY FaultTypes DEF Fault, Call
  <2> QED
    BY <2>1 DEF ProjectMove, faultVars
<1>5. Record(moves[Game]) \in TurnsRow /\ moves[Game] \in TurnsRow
  BY <1>3, Facts, RecordIs
<1>6. /\ Len(moves') = Len(moves) /\ DOMAIN moves' = 1..Game
      /\ \A g \in 1..Game : g # Game => moves'[g] = moves[g]
      /\ moves' \in Seq(TurnsRow)
      /\ moves'[Game] \in {moves[Game], Record(moves[Game])}
      /\ ~dropped' => moves'[Game] = Record(moves[Game])
  BY <1>3, <1>4, <1>5, Facts DEF RInv, RowsOK
<1>7. RowsOK' /\ ShapeInv' /\ TurnInv'
  BY <1>1, <1>3, <1>4, <1>6 DEF RInv, RowsOK, ShapeInv, TurnInv, Game, InGame, TurnOver, Decided,
     PlayerAt, First
<1>8. ResultInv'
  BY <1>1, <1>3 DEF RInv, ResultInv, Closed, Open, Game
<1>9. TurnsInv'
  BY <1>1, <1>3, <1>4, <1>6, Facts DEF RInv, TurnsInv, Same, Game
<1>10. WinsInv'
  BY <1>1, <1>3 DEF RInv, WinsInv, WinOf, InGame
<1>11. SamplesInv'
  <2> SUFFICES ASSUME ~dropped', NEW a \in Agent
               PROVE  samples[a] = Played(a)'
    BY <1>1, <1>3 DEF SamplesInv, Pending
  <2>1. ~dropped /\ moves'[Game] = Record(moves[Game])
    BY <1>4, <1>6
  <2>2. samples[a] = IF reply.type = "place" /\ reply.agent = a THEN Append(Played(a), reply.dur)
                                                                ELSE Played(a)
    BY <1>1, <2>1 DEF RInv, SamplesInv, Pending
  <2>3. Times(moves'[Game], a) =
          IF reply.type = "place" /\ reply.agent = a THEN Append(Times(moves[Game], a), reply.dur)
                                                     ELSE Times(moves[Game], a)
    <3>1. CASE reply.type = "place" /\ reply.agent = a
      <4>1. moves'[Game].placed[a] = Append(moves[Game].placed[a], TurnRow)
        BY <1>3, <1>5, <2>1, <3>1, RecordPlaced
      <4>2. moves[Game].placed[a] \in Seq(Placed) /\ TurnRow \in Placed /\ TurnRow.dur = reply.dur
        BY <1>5, Players DEF TurnsRow, TurnRow, Placed
      <4>3. PICK s \in Seq(Placed) : s = moves[Game].placed[a]
        BY <4>2
      <4>4. Times(moves'[Game], a) = [i \in DOMAIN Append(s, TurnRow) |-> Append(s, TurnRow)[i].dur]
        BY <4>1, <4>3 DEF Times
      <4>5. Times(moves[Game], a) = [i \in DOMAIN s |-> s[i].dur]
        BY <4>3 DEF Times
      <4> QED
        BY <3>1, <4>2, <4>4, <4>5, TimesAppend
    <3>2. CASE ~(reply.type = "place" /\ reply.agent = a)
      <4>1. moves'[Game].placed[a] = moves[Game].placed[a]
        BY <1>3, <1>5, <2>1, <3>2, RecordPlaced
      <4> QED
        BY <3>2, <4>1 DEF Times
    <3> QED
      BY <3>1, <3>2
  <2>4. Played(a)' = IF Game = 1 THEN Times(moves'[1], a) ELSE Times(moves'[1], a) \o Times(moves'[2], a)
    BY <1>1, <1>3 DEF Played, Times, Game
  <2>5. CASE Game = 1
    <3>1. Played(a) = Times(moves[1], a)
      BY <2>5 DEF Played
    <3> QED
      BY <2>2, <2>3, <2>4, <2>5, <3>1
  <2>6. CASE Game = 2
    <3>1. Played(a) = Times(moves[1], a) \o Times(moves[2], a)
      BY <2>6 DEF Played
    <3>2. Times(moves[1], a) \in Seq(Nat) /\ Times(moves[2], a) \in Seq(Nat) /\ reply.dur \in Nat
      BY <2>6, Facts, TimesType, Players
    <3>3. moves'[1] = moves[1]
      BY <1>6, <2>6
    <3>4. Played(a)' = Times(moves[1], a) \o Times(moves'[2], a)
      BY <2>4, <2>6, <3>3
    <3>5. Times(moves[1], a) \o Append(Times(moves[2], a), reply.dur) = Append(Played(a), reply.dur)
      BY <3>1, <3>2, Concatenation
    <3> QED
      BY <2>2, <2>3, <2>6, <3>1, <3>4, <3>5
  <2> QED
    BY <1>3, <2>5, <2>6
<1> QED
  BY <1>2, <1>7, <1>8, <1>9, <1>10, <1>11 DEF RInv

-----------------------------------------------------------------------------
(* The end of a game                                                       *)

LEMMA ResultIs ==
  ASSUME RInv, pc \in {"finish", "ended"}
  PROVE  /\ GameResult \in Result /\ GameWinner \in Agent \union {"draw"}
         /\ \A a \in Agent : (GameWinner = a) <=>
              GameResult = (IF First = a THEN "player_a_win" ELSE "player_b_win")
BY Players, ExecAssumption DEF GameResult, GameWinner, Result, First, Other, Agent

\* The games row gets its result.
LEMMA FinishRows ==
  ASSUME RInv, FinishGame
  PROVE  RInv'
<1>1. /\ pc = "finish" /\ pc' = "ended"
      /\ games' = [games EXCEPT ![Game].result = GameResult, ![Game].count = turnCount]
      /\ UNCHANGED <<moves, events, current, turnCount, winner, attempt, number, wins, samples, reply,
                     verdict, alive, running, images, unstopped, dropped, faults>>
  BY DEF FinishGame, engineVars, matchVars, botVars, faultVars
<1>2. EInv'
  BY WriteStep DEF RInv
<1>3. Game = number /\ Game \in {1, 2} /\ TurnOver /\ InGame /\ games[Game] \in GamesRow
  BY <1>1, Facts DEF RInv, ShapeInv, InGame, TurnOver
<1>4. games' = [games EXCEPT ![Game] = [games[Game] EXCEPT !.result = GameResult, !.count = turnCount]]
  BY <1>1
<1>5. /\ Len(games') = Len(games) /\ DOMAIN games' = 1..Game /\ games' \in Seq(GamesRow)
      /\ \A g \in 1..Game : g # Game => games'[g] = games[g]
      /\ games'[Game].first = games[Game].first /\ games'[Game].result = GameResult
  <2>1. PICK r \in GamesRow : r = [games[Game] EXCEPT !.result = GameResult, !.count = turnCount]
    BY <1>1, <1>3, ResultIs, Players DEF GamesRow
  <2>2. r.first = games[Game].first /\ r.result = GameResult
    BY <1>3, <2>1 DEF GamesRow
  <2> QED
    BY <1>3, <1>4, <2>1, <2>2, Facts DEF RInv, RowsOK
<1>6. RowsOK' /\ ShapeInv' /\ TurnInv'
  <2>1. RowsOK'
    BY <1>1, <1>5 DEF RInv, RowsOK
  <2>2. \A g \in DOMAIN games' : games'[g].first = IF g = 1 THEN A ELSE B
    BY <1>5, Facts DEF RInv, ShapeInv
  <2>3. Game' = Game
    BY <1>5 DEF Game
  <2>4. ShapeInv'
    BY <1>1, <1>3, <2>2, <2>3 DEF RInv, ShapeInv, InGame, Decided
  <2>5. TurnInv'
    BY <1>1, <1>3 DEF RInv, TurnInv, TurnOver, PlayerAt, First
  <2> QED
    BY <2>1, <2>4, <2>5
<1>7. ResultInv'
  <2>1. GameResult' = GameResult
    BY <1>1 DEF GameResult, GameWinner, First
  <2>2. verdict = "open"
    BY <1>1 DEF RInv, ShapeInv
  <2>3. \A g \in 1..Game : IF g = Game THEN events[g].ended = "none" ELSE Closed(g)
    <3>1. GameResult \in Result
      BY <1>1, ResultIs
    <3>2. \A g \in 1..Game : g # Game => Closed(g)
      BY Facts DEF RInv, ResultInv, Open
    <3>3. events[Game].ended = "none"
      BY <1>1, <1>3, Facts DEF RInv, ResultInv, Open, Closed
    <3> QED
      BY <3>2, <3>3
  <2> QED
    BY <1>1, <1>3, <1>5, <2>1, <2>3 DEF ResultInv, Closed, Open, Game
<1>8. TurnsInv'
  BY <1>1, <1>5, Facts DEF RInv, TurnsInv, Same, Game
<1>9. WinsInv' /\ SamplesInv'
  <2>1. \A a \in Agent : Played(a)' = Played(a) /\ ~Pending(a)' /\ ~Pending(a)
    BY <1>1, <1>5 DEF Played, Times, Game, Pending
  <2>2. number = 2 => games'[1] = games[1]
    BY <1>3, <1>5
  <2>3. number = 2 => \A a \in Agent : wins[a] = WinOf(1, a)
    BY <1>3 DEF RInv, WinsInv
  <2>4. number = 2 => \A a \in Agent : wins'[a] = WinOf(1, a)'
    BY <1>1, <2>2, <2>3 DEF WinOf
  <2>5. WinsInv'
    BY <1>1, <2>4 DEF RInv, WinsInv
  <2>6. SamplesInv'
    BY <1>1, <2>1 DEF RInv, SamplesInv
  <2> QED
    BY <2>5, <2>6
<1> QED
  BY <1>2, <1>6, <1>7, <1>8, <1>9 DEF RInv

\* Who has won the game: not the one that lost its turn, and else the one that
\* moved last, or nobody.
LEMMA WinnerMoved ==
  ASSUME RInv, pc \in {"finish", "ended"}
  PROVE  IF reply.type = "place" THEN GameWinner \in {reply.agent, "draw"}
                                 ELSE GameWinner = Other(reply.agent)
<1>1. reply.type = "place" => reply.agent = PlayerAt(1 - current)
  BY DEF RInv, TurnInv, TurnOver
<1>2. GameWinner = PlayerAt(1 - current) \/ GameWinner = "draw"
  BY Winner DEF RInv
<1> QED
  BY <1>1, <1>2 DEF GameWinner

\* game.ended closes the game, and its winner is counted.
LEMMA EndRows ==
  ASSUME RInv, GameEnded
  PROVE  RInv'
<1>1. /\ pc = "ended" /\ pc' = IF number = 1 THEN "create" ELSE "decide"
      /\ events' = [events EXCEPT ![Game].ended = GameResult]
      /\ wins' = [a \in Agent |-> wins[a] + (IF a = GameWinner THEN 1 ELSE 0)]
      /\ number' = 2
      /\ UNCHANGED <<games, moves, current, turnCount, winner, attempt, samples, reply,
                     verdict, alive, running, images, unstopped, dropped, faults>>
  BY DEF GameEnded, engineVars, botVars, faultVars
<1>2. EInv'
  BY EndStep DEF RInv
<1>3. /\ Game = number /\ Game \in {1, 2} /\ TurnOver /\ InGame /\ events[Game] \in EventsRow
      /\ verdict = "open"
  BY <1>1, Facts DEF RInv, ShapeInv, InGame, TurnOver
<1>4. /\ Len(events') = Len(events) /\ DOMAIN events' = 1..Game /\ events' \in Seq(EventsRow)
      /\ \A g \in 1..Game : g # Game => events'[g] = events[g]
      /\ \A g \in 1..Game : events'[g].placed = events[g].placed /\ events'[g].lost = events[g].lost
      /\ events'[Game].ended = GameResult
  <2>1. events' = [events EXCEPT ![Game] = [events[Game] EXCEPT !.ended = GameResult]]
    BY <1>1
  <2>2. PICK r \in EventsRow : r = [events[Game] EXCEPT !.ended = GameResult]
    BY <1>1, <1>3, ResultIs DEF EventsRow
  <2>3. r.placed = events[Game].placed /\ r.lost = events[Game].lost /\ r.ended = GameResult
    BY <1>3, <2>2 DEF EventsRow
  <2> QED
    BY <1>3, <2>1, <2>2, <2>3, Facts DEF RInv, RowsOK
<1>5. RowsOK' /\ TurnInv'
  BY <1>1, <1>4 DEF RInv, RowsOK, TurnInv, TurnOver
<1>6. ShapeInv'
  BY <1>1, <1>3 DEF RInv, ShapeInv, InGame, Game, Decided
<1>7. games[Game].result = GameResult /\ GameResult \in Result
  BY <1>1, <1>3, ResultIs DEF RInv, ResultInv, Open
<1>8. ResultInv'
  <2>1. \A g \in 1..Game : Closed(g)'
    BY <1>1, <1>4, <1>7, Facts DEF RInv, ResultInv, Closed, Open, Result
  <2> QED
    BY <1>1, <2>1, Facts DEF ResultInv, InGame
<1>9. TurnsInv'
  BY <1>1, <1>3, <1>4, Facts DEF RInv, TurnsInv, Same
<1>10. games[Game].first = First
  BY <1>3, Facts DEF RInv, ShapeInv, First
<1>11. \A a \in Agent : wins'[a] = wins[a] + WinOf(Game, a)
  BY <1>1, <1>7, <1>10, ResultIs DEF WinOf
<1>12. WinsInv'
  <2>1. WinOf(1, A) \in Nat /\ WinOf(1, B) \in Nat /\ \A g, a : WinOf(g, a)' = WinOf(g, a)
    BY <1>1 DEF WinOf
  <2>2. CASE number = 1
    <3>1. \A a \in Agent : wins'[a] = WinOf(1, a)
      BY <1>3, <1>11, <2>1, <2>2 DEF RInv, WinsInv, Agent
    <3> QED
      BY <1>1, <2>1, <2>2, <3>1 DEF WinsInv, InGame
  <2>3. CASE number = 2
    BY <1>1, <1>3, <1>11, <2>1, <2>3 DEF RInv, WinsInv, InGame
  <2> QED
    BY <1>3, <2>2, <2>3
<1>13. SamplesInv'
  <2>1. \A a \in Agent : Played(a)' = Played(a) /\ ~Pending(a) /\ ~Pending(a)'
    BY <1>1 DEF Played, Times, Game, Pending
  <2> QED
    BY <1>1, <2>1 DEF RInv, SamplesInv
<1> QED
  BY <1>2, <1>5, <1>6, <1>8, <1>9, <1>12, <1>13 DEF RInv

\* The verdict is that of the wins, or of the times.
LEMMA ReturnRows ==
  ASSUME RInv, pc = "decide",
         \/ Outcome # "none" /\ Return(Outcome)
         \/ Outcome = "none" /\ Return("draw")
  PROVE  RInv'
<1>1. Game = 2 /\ number = 2 /\ verdict = "open"
  BY Facts DEF RInv, ShapeInv
<1>2. Outcome \in Agent \union {"none"} /\ "none" \notin Agent
  BY ExecAssumption DEF Outcome, Agent
<1>3. /\ pc' = "close" /\ verdict' = IF Outcome = "none" THEN "draw" ELSE Outcome
      /\ UNCHANGED <<games, moves, events, current, turnCount, winner, attempt, number, wins,
                     samples, reply, alive, running, images, unstopped, dropped, faults>>
  BY DEF Return, dbVars, engineVars, matchVars, botVars, faultVars
<1>4. EInv'
  BY <1>1, <1>3 DEF RInv, EInv, MemoryOK, BoardInv, LeadInv, InGame, TurnOver
<1>5. RowsOK' /\ TurnInv' /\ TurnsInv'
  BY <1>1, <1>2, <1>3 DEF RInv, RowsOK, TurnInv, TurnOver, TurnsInv, Same
<1>6. ShapeInv'
  BY <1>1, <1>2, <1>3, ExecAssumption DEF RInv, ShapeInv, Game, InGame, Decided, Agent
<1>7. ResultInv'
  <2>1. \A g \in 1..Game : Closed(g)
    BY <1>1, Facts DEF RInv, ResultInv, Open
  <2> QED
    BY <1>3, <2>1, Facts DEF ResultInv, Closed, InGame
<1>8. WinsInv' /\ SamplesInv'
  <2>1. \A a \in Agent : Played(a)' = Played(a) /\ ~Pending(a) /\ ~Pending(a)'
    BY <1>1, <1>3 DEF Played, Times, Game, Pending
  <2> QED
    BY <1>1, <1>3, <2>1 DEF RInv, WinsInv, WinOf, SamplesInv, InGame
<1> QED
  BY <1>4, <1>5, <1>6, <1>7, <1>8 DEF RInv

\* The verdict, or an attempt that starts without rows and samples.
LEMMA DecideRows ==
  ASSUME RInv, Decide
  PROVE  RInv'
<1>1. EInv'
  BY BeginStep DEF RInv
<1>2. /\ pc = "decide" /\ Game = 2 /\ number = 2
      /\ verdict = "open" /\ attempt \in 0..(MaxAttempts - 1)
  BY Facts DEF Decide, RInv, ShapeInv, RowsOK
<1>3. CASE attempt + 1 < MaxAttempts /\ NextAttempt
  <2>1. /\ pc' = "create" /\ attempt' = attempt + 1 /\ number' = 1
        /\ games' = <<>> /\ moves' = <<>> /\ events' = <<>>
        /\ wins' = [a \in Agent |-> 0] /\ samples' = [a \in Agent |-> <<>>]
        /\ UNCHANGED <<current, turnCount, winner, reply, verdict, alive, running, images, unstopped, dropped, faults>>
    BY <1>3 DEF NextAttempt, engineVars, botVars, faultVars
  <2>2. RowsOK'
    <3>1. games' \in Seq(GamesRow) /\ moves' \in Seq(TurnsRow) /\ events' \in Seq(EventsRow)
      BY <2>1
    <3>2. attempt' \in 0..(MaxAttempts - 1)
      BY <1>2, <1>3, <2>1, ExecAssumption
    <3> QED
      BY <2>1, <3>1, <3>2 DEF RInv, RowsOK
  <2>3. ShapeInv' /\ TurnInv' /\ ResultInv' /\ TurnsInv'
    <3>1. verdict \notin Agent \union {"draw"}
      BY <1>2, ExecAssumption DEF Agent
    <3> QED
      BY <1>2, <2>1, <3>1 DEF RInv, ShapeInv, TurnInv, ResultInv, TurnsInv, Game, InGame, TurnOver,
         Decided
  <2>4. WinsInv' /\ SamplesInv'
    BY <1>2, <2>1 DEF WinsInv, SamplesInv, Game, InGame, Played, Pending
  <2> QED
    BY <1>1, <2>2, <2>3, <2>4 DEF RInv
<1> QED
  BY <1>2, <1>3, ReturnRows DEF Decide

LEMMA RowsStep == RInv /\ [Next]_vars => RInv'
<1> SUFFICES ASSUME RInv, [Next]_vars PROVE RInv'
  OBVIOUS
<1>1. CASE \/ pc = "create" /\ Fail("create")
           \/ pc = "finish" /\ Fail("finish")
           \/ pc = "ended" /\ Fail("ended")
           \/ Close \/ RemoveImages
           \/ \E a \in Agent : StartFails(a)
  <2>1. {"create", "finish", "ended"} \subseteq Call
    BY DEF Call
  <2> QED
    BY <1>1, <2>1, StopRows
<1>2. CASE StartRunners \/ CreateGame \/ (\E d \in Duration : Accept(d))
  BY <1>2, StartRows, CreateRows, AcceptRows
<1>3. CASE Refuse \/ TimeOut \/ Crash \/ Overlong
  BY <1>3, LostTurnRows
<1>4. CASE AppendTurn \/ ProjectMove \/ FinishGame
  BY <1>4, AppendRows, ProjectRows, FinishRows
<1>5. CASE GameEnded \/ Decide
  BY <1>5, EndRows, DecideRows
<1> QED
  BY <1>1, <1>2, <1>3, <1>4, <1>5, StutterRows DEF Next

\* What is in memory, in the event stream and in the tables agrees at every
\* moment of a match.
THEOREM RowsInductive == Spec => []RInv
<1> QED
  BY RowsInit, RowsStep, PTL DEF Spec

-----------------------------------------------------------------------------
(* Bots that are lost                                                      *)

\* gone is set when a bot is seen to be lost, which is the end of that game.
GoneInv ==
  /\ gone \in [Agent -> 0..(2 * MaxAttempts)]
  /\ \A a \in Agent :
       /\ pc = "start" => gone[a] = 0
       /\ gone[a] # 0 => a \in UserBot \ alive
       /\ gone[a] <= GameNo
       /\ pc = "create" => gone[a] < GameNo
       /\ InGame /\ gone[a] = GameNo => TurnOver /\ reply.type # "place" /\ reply.agent = a

\* What an absent bot has come to, if its opponent cannot go the same way: when
\* it is to open a game, that ends without a move, and one of the games of an
\* attempt it opens.
AbsentOK(a) ==
  /\ wins[a] = 0
  /\ Game = number =>
       /\ moves[Game].placed[a] = <<>> /\ events[Game].placed[a] = <<>>
       /\ games[Game].result # "none" => GameRecord(Game).winner # a
  /\ TurnOver /\ reply.type = "place" => reply.agent # a
  /\ InGame /\ First = a => current = 0 /\ (TurnOver => reply.type # "place")
  /\ (pc = "create" \/ InGame) /\ number = 2 /\ a = A => wins[B] >= 1
  /\ pc = "decide" => wins[Other(a)] >= 1
  /\ Decided => verdict = Other(a)
AbsentInv == \A a \in Agent : Absent(a) /\ Other(a) \notin UserBot => AbsentOK(a)

LEMMA GameNoType ==
  ASSUME RInv
  PROVE  GameNo \in 1..(2 * MaxAttempts) /\ attempt \in Nat /\ number \in {1, 2}
BY Facts, ExecAssumption DEF GameNo, RInv, RowsOK

LEMMA GoneStep == RInv /\ GoneInv /\ [Next]_vars => GoneInv'
<1> SUFFICES ASSUME RInv, GoneInv, [Next]_vars PROVE GoneInv'
  OBVIOUS
<1>1. CASE StartRunners
  BY <1>1 DEF StartRunners, matchVars, GoneInv, GameNo, InGame, RInv, EInv, LeadInv, RowsOK
<1>2. CASE CreateGame
  BY <1>2, GameNoType DEF CreateGame, matchVars, botVars, GoneInv, GameNo, InGame
<1>3. CASE (\E d \in Duration : Accept(d)) \/ Refuse \/ Overlong
  <2>1. pc = "turn" /\ pc' = "event" /\ UNCHANGED <<attempt, number, alive, gone>>
    BY <1>3 DEF Accept, Refuse, Overlong, Answer, SameBot
  <2> QED
    BY <2>1 DEF GoneInv, GameNo, InGame, TurnOver
<1>4. CASE TimeOut \/ Crash
  <2>1. /\ pc = "turn" /\ pc' = "event" /\ UNCHANGED <<attempt, number>> /\ Goes
        /\ Mover \in UserBot /\ Mover \in Agent
        /\ reply'.type # "place" /\ reply'.agent = Mover
    BY <1>4, Players DEF TimeOut, Crash, Answer, RInv, RowsOK
  <2>2. GameNo' = GameNo /\ GameNo \in 1..(2 * MaxAttempts)
    BY <2>1, GameNoType DEF GameNo
  <2>3. \A a \in Agent : gone'[a] = IF a = Mover /\ gone[a] = 0 THEN GameNo ELSE gone[a]
    BY <2>1 DEF Goes, GoneInv
  <2>4. gone' \in [Agent -> 0..(2 * MaxAttempts)]
    BY <2>1, <2>2 DEF Goes, GoneInv
  <2>5. \A a \in Agent : gone[a] < GameNo
    BY <2>1, <2>2 DEF GoneInv, InGame, TurnOver
  <2>6. alive' = alive \ {Mover}
    BY <2>1 DEF Goes
  <2> QED
    BY <2>1, <2>2, <2>3, <2>4, <2>5, <2>6 DEF GoneInv, InGame, TurnOver
<1>5. CASE AppendTurn \/ ProjectMove \/ FinishGame
  <2>1. /\ UNCHANGED <<attempt, number, alive, gone, reply>>
        /\ InGame /\ InGame' /\ TurnOver /\ (~TurnOver' => reply.type = "place")
        /\ pc' \notin {"start", "create"}
    BY <1>5 DEF AppendTurn, ProjectMove, FinishGame, matchVars, botVars, InGame, TurnOver
  <2> QED
    BY <2>1 DEF GoneInv, GameNo
<1>6. CASE GameEnded
  <2>1. /\ UNCHANGED <<attempt, alive, gone>> /\ number' = 2 /\ ~InGame'
        /\ pc' = IF number = 1 THEN "create" ELSE "decide"
    BY <1>6 DEF GameEnded, botVars, InGame
  <2>2. GameNo' = 2 * attempt + 2 /\ GameNo = 2 * attempt + number
    BY <2>1 DEF GameNo
  <2> QED
    BY <2>1, <2>2, GameNoType DEF GoneInv
<1>7. CASE Decide
  <2>1. number = 2
    BY <1>7, Facts DEF Decide, RInv, ShapeInv
  <2>2. CASE NextAttempt
    <3>1. /\ UNCHANGED <<alive, gone>> /\ attempt' = attempt + 1 /\ number' = 1 /\ pc' = "create"
      BY <2>2 DEF NextAttempt, botVars
    <3>2. GameNo' = GameNo + 1
      BY <2>1, <3>1, GameNoType DEF GameNo
    <3> QED
      BY <3>1, <3>2, GameNoType DEF GoneInv, InGame
  <2>3. CASE ~NextAttempt
    <3>1. UNCHANGED <<attempt, number, alive, gone>> /\ pc' = "close"
      BY <1>7, <2>3 DEF Decide, Return, matchVars, botVars
    <3> QED
      BY <3>1 DEF GoneInv, GameNo, InGame
  <2> QED
    BY <2>2, <2>3
<1>8. CASE \/ \E a \in Agent : StartFails(a)
           \/ \E call \in {"create", "finish", "ended"} : Fail(call)
           \/ Close \/ RemoveImages
  <2>1. /\ UNCHANGED <<attempt, number, gone>> /\ pc' \in {"close", "untag", "done"}
        /\ alive' \subseteq alive \/ pc = "start"
    BY <1>8 DEF StartFails, Fail, Close, RemoveImages, matchVars, botVars
  <2> QED
    BY <2>1 DEF GoneInv, GameNo, InGame
<1>9. CASE UNCHANGED vars
  BY <1>9 DEF vars, matchVars, botVars, GoneInv, GameNo, InGame, TurnOver
<1> QED
  BY <1>1, <1>2, <1>3, <1>4, <1>5, <1>6, <1>7, <1>8, <1>9 DEF Next

\* Nobody becomes absent within a game.
LEMMA AbsentSame ==
  ASSUME RInv, GoneInv, NEW a \in Agent, Absent(a)', GameNo' = GameNo,
         gone' = gone \/ Goes
  PROVE  Absent(a)
<1>1. CASE gone' = gone
  BY <1>1 DEF Absent
<1>2. CASE Goes
  <2>1. gone'[a] = gone[a] \/ gone'[a] = GameNo
    BY <1>2 DEF Goes, GoneInv
  <2> QED
    BY <2>1, GameNoType DEF Absent
<1> QED
  BY <1>1, <1>2

LEMMA AbsentInGame ==
  ASSUME RInv, GoneInv, AbsentInv, NEW a \in Agent, Absent(a)', Other(a) \notin UserBot,
         CreateGame \/ (\E d \in Duration : Accept(d)) \/ Refuse \/ TimeOut \/ Crash \/ Overlong
  PROVE  AbsentOK(a)'
<1>1. /\ UNCHANGED <<attempt, number, wins, verdict>> /\ (gone' = gone \/ Goes)
  BY DEF CreateGame, Accept, Refuse, TimeOut, Crash, Overlong, Answer, SameBot, matchVars, botVars
<1>2. Absent(a) /\ AbsentOK(a)
  BY <1>1, AbsentSame DEF GameNo, AbsentInv
<1>3. a \in UserBot \ alive
  BY <1>2, GameNoType DEF Absent, GoneInv
<1>4. CASE CreateGame
  <2>1. /\ pc = "create" /\ pc' = "turn" /\ current' = 0
        /\ games' = Append(games, [first |-> First, result |-> "none", count |-> 0])
        /\ moves' = Append(moves, NoTurns)
        /\ events' = Append(events, [placed |-> NoTurns.placed, lost |-> {}, ended |-> "none"])
    BY <1>4 DEF CreateGame
  <2>2. /\ Game' = Game + 1 /\ Len(games) = Game /\ Len(moves) = Game /\ Len(events) = Game
        /\ Game = number - 1
    BY <2>1, Facts DEF RInv, RowsOK, ShapeInv, Game
  <2>3. /\ games'[number].result = "none" /\ moves'[number] = NoTurns
        /\ events'[number].placed = NoTurns.placed
    BY <2>1, <2>2, Facts DEF RInv, RowsOK
  <2>4. NoTurns.placed[a] = <<>>
    BY DEF NoTurns
  <2> QED
    BY <1>1, <1>2, <2>1, <2>2, <2>3, <2>4, Facts DEF AbsentOK, InGame, TurnOver, Decided, First
<1>5. CASE (\E d \in Duration : Accept(d)) \/ Refuse \/ TimeOut \/ Crash \/ Overlong
  <2>1. /\ pc = "turn" /\ pc' = "event" /\ UNCHANGED <<games, moves, events>>
        /\ reply'.agent = Mover
        /\ (reply'.type # "place" /\ current' = current) \/ CanAnswer
    BY <1>5 DEF Accept, Refuse, TimeOut, Crash, Overlong, Answer, SameBot, engineVars, dbVars
  <2>2. UNCHANGED <<Game, First>>
    BY <1>1, <2>1 DEF Game, First
  <2>3. GameRecord(Game)' = GameRecord(Game)
    BY <2>1, <2>2 DEF GameRecord
  <2>4. CASE reply'.type # "place" /\ current' = current
    BY <1>1, <1>2, <2>1, <2>2, <2>3, <2>4 DEF AbsentOK, InGame, TurnOver, Decided
  <2>5. CASE CanAnswer
    <3>1. Mover # a
      BY <1>3, <2>5 DEF CanAnswer
    <3>2. First # a
      <4>1. First = a => current = 0
        BY <1>2, <2>1 DEF AbsentOK, InGame
      <4> QED
        BY <3>1, <4>1 DEF Mover, PlayerAt
    <3> QED
      BY <1>1, <1>2, <2>1, <2>2, <2>3, <3>1, <3>2 DEF AbsentOK, InGame, TurnOver, Decided
  <2> QED
    BY <2>1, <2>4, <2>5
<1> QED
  BY <1>4, <1>5

\* Whoever is absent has not won the game that is over: the last reply is a
\* move of its opponent, or it is its own and lost the game.
LEMMA AbsentLoses ==
  ASSUME RInv, NEW a \in Agent, Other(a) \notin UserBot, pc \in {"finish", "ended"},
         reply.type = "place" => reply.agent # a
  PROVE  /\ GameWinner # a
         /\ reply.type # "place" => GameWinner = Other(a)
<1>1. reply.type # "place" => reply.agent \in UserBot
  BY DEF RInv, TurnInv, TurnOver
<1>2. reply.agent = a \/ reply.agent = Other(a)
  BY Players DEF Agent, Other
<1>3. IF reply.type = "place" THEN GameWinner \in {reply.agent, "draw"}
                              ELSE GameWinner = Other(reply.agent)
  BY WinnerMoved
<1>4. a # "draw" /\ Other(a) # a
  BY Players, ExecAssumption DEF Agent
<1> QED
  BY <1>1, <1>2, <1>3, <1>4

LEMMA AbsentWritten ==
  ASSUME RInv, GoneInv, AbsentInv, NEW a \in Agent, Absent(a)', Other(a) \notin UserBot,
         AppendTurn \/ ProjectMove \/ FinishGame
  PROVE  AbsentOK(a)'
<1>1. /\ UNCHANGED <<attempt, number, wins, verdict, gone, reply, current>>
      /\ TurnOver /\ InGame' /\ (pc' = "turn" => reply.type = "place")
  BY DEF AppendTurn, ProjectMove, FinishGame, matchVars, botVars, engineVars, TurnOver, InGame
<1>2. Absent(a) /\ AbsentOK(a)
  BY <1>1, AbsentSame DEF GameNo, AbsentInv
<1>3. Game = number /\ Game \in {1, 2} /\ InGame /\ ~Decided
  BY <1>1, Facts, ExecAssumption DEF RInv, ShapeInv, InGame, TurnOver, Decided, Agent
<1>4. moves[Game] \in TurnsRow /\ events[Game] \in EventsRow /\ games[Game] \in GamesRow
  BY <1>3, Facts
<1>5. Record(moves[Game]).placed[a] = <<>> /\ Record(events[Game]).placed[a] = <<>>
  BY <1>1, <1>2, <1>3, <1>4, RecordPlaced, RecordPlacedEvents DEF AbsentOK
<1>6. Game' = Game
  BY DEF AppendTurn, ProjectMove, FinishGame, Game
<1>7. moves'[Game].placed[a] = <<>> /\ events'[Game].placed[a] = <<>>
  <2>1. moves' = moves \/ moves' = [moves EXCEPT ![Game] = Record(@)]
    BY DEF AppendTurn, ProjectMove, FinishGame
  <2>2. events' = events \/ events' = [events EXCEPT ![Game] = Record(@)]
    BY DEF AppendTurn, ProjectMove, FinishGame
  <2>3. moves[Game].placed[a] = <<>> /\ events[Game].placed[a] = <<>>
    BY <1>2, <1>3 DEF AbsentOK
  <2>4. Game \in DOMAIN moves /\ Game \in DOMAIN events
    BY <1>3, Facts
  <2> QED
    BY <1>5, <2>1, <2>2, <2>3, <2>4
<1>8. games'[Game].result # "none" => GameRecord(Game)'.winner # a
  <2>1. CASE FinishGame
    <3>1. GameWinner # a
      BY <1>1, <1>2, <2>1, AbsentLoses DEF AbsentOK, FinishGame
    <3>2. games'[Game].result = GameResult /\ games'[Game].first = First
      <4>1. games[Game].first = First
        BY <1>3, Facts DEF RInv, ShapeInv, First
      <4> QED
        BY <1>3, <1>4, <2>1, <4>1, Facts DEF FinishGame, GamesRow
    <3>3. GameResult = "player_a_win" => First # a
      BY <2>1, <3>1, ResultIs DEF FinishGame
    <3>4. GameResult = "player_b_win" => Other(First) # a
      BY <2>1, <3>1, ResultIs, Players, ExecAssumption DEF FinishGame, GameResult, GameWinner, Other, Agent
    <3>5. a # "draw"
      BY ExecAssumption DEF Agent
    <3> QED
      BY <1>6, <3>2, <3>3, <3>4, <3>5 DEF GameRecord
  <2>2. CASE games' = games
    <3>1. games[Game].result # "none" => GameRecord(Game).winner # a
      BY <1>2, <1>3 DEF AbsentOK
    <3> QED
      BY <1>6, <2>2, <3>1 DEF GameRecord
  <2> QED
    BY <2>1, <2>2 DEF AppendTurn, ProjectMove
<1> QED
  BY <1>1, <1>2, <1>3, <1>6, <1>7, <1>8 DEF AbsentOK, First, TurnOver, InGame, Decided

\* Its game is counted for the opponent, if it was to open the game or was lost
\* in it.
LEMMA AbsentEnds ==
  ASSUME RInv, GoneInv, AbsentInv, NEW a \in Agent, Absent(a)', Other(a) \notin UserBot, GameEnded
  PROVE  AbsentOK(a)'
<1>1. /\ pc = "ended" /\ number' = 2 /\ ~InGame' /\ ~TurnOver'
      /\ pc' = IF number = 1 THEN "create" ELSE "decide"
      /\ wins' = [b \in Agent |-> wins[b] + (IF b = GameWinner THEN 1 ELSE 0)]
      /\ events' = [events EXCEPT ![Game].ended = GameResult]
      /\ UNCHANGED <<games, moves, attempt, verdict, gone>>
  BY DEF GameEnded, InGame, TurnOver, botVars
<1>2. /\ Game = number /\ Game \in {1, 2} /\ number \in {1, 2} /\ Game' = Game
      /\ ~Decided' /\ TurnOver /\ InGame
  BY <1>1, Facts, ExecAssumption DEF RInv, ShapeInv, Decided, Game, InGame, TurnOver, Agent
<1>3. wins \in [Agent -> 0..2] /\ Other(a) \in Agent /\ Other(a) # a
  BY Players
<1>4. CASE Absent(a)
  <2>1. AbsentOK(a)
    BY <1>4 DEF AbsentInv
  <2>2. GameWinner # a /\ (First = a => GameWinner = Other(a))
    BY <1>1, <1>2, <2>1, AbsentLoses DEF AbsentOK
  <2>3. wins'[a] = 0 /\ (First = a => wins'[Other(a)] >= 1) /\ (wins[Other(a)] >= 1 => wins'[Other(a)] >= 1)
    BY <1>1, <1>3, <2>1, <2>2 DEF AbsentOK
  <2>4. a = A \/ a = B
    BY DEF Agent
  <2>5. CASE number = 1
    <3>1. a = A => First = a /\ Other(a) = B
      BY <2>5 DEF First, Other
    <3> QED
      BY <1>1, <1>2, <2>3, <2>5, <3>1 DEF AbsentOK
  <2>6. CASE number = 2
    <3>1. wins'[Other(a)] >= 1
      <4>1. CASE a = A
        BY <1>1, <1>2, <2>1, <2>3, <2>6, <4>1 DEF AbsentOK, Other
      <4>2. CASE a = B
        BY <2>3, <2>6, <4>2 DEF First
      <4> QED
        BY <2>4, <4>1, <4>2
    <3>2. events'[Game].placed[a] = <<>>
      <4>1. events[Game].placed[a] = <<>> /\ Game \in DOMAIN events /\ events[Game] \in EventsRow
        BY <1>2, <2>1, Facts DEF AbsentOK
      <4> QED
        BY <1>1, <4>1 DEF EventsRow
    <3>3. GameRecord(Game)' = GameRecord(Game)
      BY <1>1, <1>2 DEF GameRecord
    <3> QED
      BY <1>1, <1>2, <2>1, <2>3, <2>6, <3>1, <3>2, <3>3 DEF AbsentOK
  <2> QED
    BY <1>2, <2>5, <2>6
<1>5. CASE ~Absent(a)
  <2>1. number = 1 /\ gone[a] = GameNo
    <3>1. 0 < gone[a] /\ gone[a] < 2 * attempt + 2 /\ gone[a] <= 2 * attempt + number
      BY <1>1 DEF Absent, GameNo, GoneInv
    <3>2. gone[a] \in Nat /\ attempt \in Nat
      BY GameNoType DEF GoneInv
    <3>3. ~(gone[a] < 2 * attempt + number)
      BY <1>5, <3>1 DEF Absent, GameNo
    <3> QED
      BY <1>2, <3>1, <3>2, <3>3 DEF GameNo
  <2>2. reply.type # "place" /\ reply.agent = a
    BY <1>2, <2>1 DEF GoneInv
  <2>3. GameWinner = Other(a)
    BY <1>1, <2>2, WinnerMoved
  <2>4. \A b \in Agent : wins[b] = 0
    BY <2>1 DEF RInv, WinsInv
  <2>5. wins'[a] = 0 /\ wins'[Other(a)] = 1
    BY <1>1, <1>3, <2>3, <2>4
  <2> QED
    BY <1>1, <1>2, <2>1, <2>5 DEF AbsentOK, Other
<1> QED
  BY <1>4, <1>5

LEMMA AbsentDecided ==
  ASSUME RInv, GoneInv, AbsentInv, NEW a \in Agent, Absent(a)', Other(a) \notin UserBot, Decide
  PROVE  AbsentOK(a)'
<1>1. number = 2 /\ Game = 2 /\ pc = "decide"
  BY Facts DEF Decide, RInv, ShapeInv
<1>2. CASE NextAttempt
  <2>1. /\ pc' = "create" /\ number' = 1 /\ wins' = [b \in Agent |-> 0] /\ games' = <<>>
        /\ verdict' = verdict
    BY <1>2 DEF NextAttempt
  <2>2. ~Decided'
    BY <1>1, <2>1, ExecAssumption DEF RInv, ShapeInv, Decided, Agent
  <2> QED
    BY <2>1, <2>2 DEF AbsentOK, Game, InGame, TurnOver
<1>3. CASE ~NextAttempt
  <2>1. /\ pc' = "close" /\ verdict' = IF Outcome = "none" THEN "draw" ELSE Outcome
        /\ UNCHANGED <<games, moves, events, attempt, number, wins, gone>>
    BY <1>3 DEF Decide, Return, dbVars, matchVars, botVars
  <2>2. AbsentOK(a)
    BY <2>1 DEF Absent, GameNo, AbsentInv
  <2>3. wins[a] = 0 /\ wins[Other(a)] >= 1
    BY <1>1, <2>2 DEF AbsentOK
  <2>4. wins[A] \in 0..2 /\ wins[B] \in 0..2 /\ (a = A \/ a = B)
    BY Players DEF Agent
  <2>5. Outcome = Other(a)
    <3>1. CASE a = A
      BY <2>3, <2>4, <3>1 DEF Outcome, Other
    <3>2. CASE a = B
      BY <2>3, <2>4, <3>2, ExecAssumption DEF Outcome, Other
    <3> QED
      BY <2>4, <3>1, <3>2
  <2>6. Outcome # "none"
    BY <2>5, Players, ExecAssumption DEF Agent
  <2>7. GameRecord(Game)' = GameRecord(Game) /\ Game' = Game
    BY <2>1 DEF GameRecord, Game
  <2> QED
    BY <2>1, <2>2, <2>5, <2>6, <2>7 DEF AbsentOK, InGame, TurnOver
<1> QED
  BY <1>2, <1>3

\* The start, an error, and the end of the match.
LEMMA AbsentKept ==
  ASSUME RInv, GoneInv, AbsentInv, NEW a \in Agent, Absent(a)', Other(a) \notin UserBot,
         \/ StartRunners
         \/ \E b \in Agent : StartFails(b)
         \/ \E call \in {"create", "finish", "ended"} : Fail(call)
         \/ Close \/ RemoveImages
         \/ UNCHANGED vars
  PROVE  AbsentOK(a)'
<1>1. /\ UNCHANGED <<games, moves, events, current, attempt, number, wins, gone, reply>>
      /\ \/ pc = "start"
         \/ verdict' = "failed" /\ pc' = "close"
         \/ verdict' = verdict /\ pc' \in {"untag", "done"}
         \/ verdict' = verdict /\ pc' = pc
  BY DEF StartRunners, StartFails, Fail, Close, RemoveImages, vars, dbVars, engineVars, matchVars,
         botVars
<1>2. Absent(a) /\ AbsentOK(a)
  BY <1>1 DEF Absent, GameNo, AbsentInv
<1>3. pc # "start"
  BY <1>2, GameNoType DEF Absent, GoneInv
<1>4. GameRecord(Game)' = GameRecord(Game) /\ UNCHANGED <<Game, First>>
  BY <1>1 DEF GameRecord, Game, First
<1>5. "failed" \notin Agent \union {"draw"}
  BY ExecAssumption DEF Agent
<1> QED
  BY <1>1, <1>2, <1>3, <1>4, <1>5 DEF AbsentOK, InGame, TurnOver, Decided

LEMMA AbsentStep == RInv /\ GoneInv /\ AbsentInv /\ [Next]_vars => AbsentInv'
<1> SUFFICES ASSUME RInv, GoneInv, AbsentInv, [Next]_vars,
                    NEW a \in Agent, Absent(a)', Other(a) \notin UserBot
             PROVE  AbsentOK(a)'
  BY DEF AbsentInv
<1> QED
  BY AbsentInGame, AbsentWritten, AbsentEnds, AbsentDecided, AbsentKept DEF Next

LEMMA GoneInductive == Spec => [](GoneInv /\ AbsentInv)
<1>1. Init => GoneInv /\ AbsentInv
  BY ExecAssumption DEF Init, GoneInv, AbsentInv, Absent, GameNo, InGame, Agent
<1> QED
  BY <1>1, GoneStep, AbsentStep, RowsInductive, PTL DEF Spec

\* Every variable of the worker has its type: the attempts stay below their
\* limit, an attempt has two games, a game at most as many moves as cells.
THEOREM TypeCorrect == Spec => []TypeOK
<1>1. RInv /\ GoneInv => TypeOK
  BY Facts DEF RInv, EInv, MemoryOK, RowsOK, GoneInv, TypeOK, GamesRow, TurnsRow, EventsRow, Game
<1> QED
  BY <1>1, RowsInductive, GoneInductive, PTL

\* A bot that timed out, ended or closed its streams in one game of a match has
\* no accepted move and no win in any later game, of this attempt or of a later
\* one, and loses the match to an opponent that has no process.
THEOREM DeadLoses == Spec => []DeadBotLoses
<1>1. RInv /\ AbsentInv => DeadBotLoses
  <2> SUFFICES ASSUME RInv, AbsentInv, NEW a \in UserBot, Absent(a), Other(a) \notin UserBot
               PROVE  /\ Game = number =>
                           /\ events[Game].placed[a] = <<>> /\ moves[Game].placed[a] = <<>>
                           /\ games[Game].result # "none" => GameRecord(Game).winner # a
                      /\ verdict \in {"open", "failed", Other(a)}
    BY DEF DeadBotLoses
  <2>1. a \in Agent
    BY ExecAssumption DEF Agent
  <2> QED
    BY <2>1 DEF AbsentInv, AbsentOK, RInv, RowsOK, Decided
<1> QED
  BY <1>1, RowsInductive, GoneInductive, PTL

-----------------------------------------------------------------------------
(* The rows and the events                                                 *)

LEMMA PrefixOf ==
  ASSUME NEW s \in Seq(Placed)
  PROVE  /\ IsPrefix(s, s)
         /\ \A r \in Placed : IsPrefix(s, Append(s, r))
BY DEF IsPrefix

\* The tables and the event stream of a match never contradict each other, as
\* long as no error of an append or a projection was discarded.
THEOREM EventsGiveRows == Spec => []RowsMatchEvents
<1>1. RInv => RowsMatchEvents
  <2> SUFFICES ASSUME RInv PROVE RowsMatchEvents
    OBVIOUS
  <2>1. ASSUME NEW g \in 1..Game, ~dropped
        PROVE  /\ moves[g].lost \subseteq events[g].lost
               /\ \A a \in Agent : IsPrefix(moves[g].placed[a], events[g].placed[a])
               /\ (pc # "project" \/ g # Game) => Same(events[g], moves[g])
    <3>1. moves[g] \in TurnsRow /\ \A a \in Agent : moves[g].placed[a] \in Seq(Placed)
      BY Facts DEF TurnsRow
    <3>2. CASE pc = "project" /\ g = Game
      <4>1. TurnOver /\ TurnRow \in Placed
        BY <3>2, Players DEF TurnOver, TurnRow, Placed
      <4>2. Same(events[g], Record(moves[g]))
        BY <2>1, <3>2, Facts DEF RInv, TurnsInv
      <4>3. moves[g].lost \subseteq events[g].lost
        BY <3>1, <4>1, <4>2, RecordIs DEF Same
      <4>4. \A a \in Agent : events[g].placed[a] \in {moves[g].placed[a],
                                                     Append(moves[g].placed[a], TurnRow)}
        BY <3>1, <4>1, <4>2, RecordPlaced DEF Same
      <4> QED
        BY <3>1, <3>2, <4>1, <4>3, <4>4, PrefixOf
    <3>3. CASE ~(pc = "project" /\ g = Game)
      <4>1. Same(events[g], moves[g])
        BY <2>1, <3>3, Facts DEF RInv, TurnsInv
      <4> QED
        BY <3>1, <4>1, PrefixOf DEF Same
    <3> QED
      BY <3>2, <3>3
  <2>2. ASSUME NEW g \in 1..Game
        PROVE  /\ events[g].ended # "none" => events[g].ended = games[g].result
               /\ (g # Game \/ pc = "decide" \/ Decided)
                    => events[g].ended = games[g].result /\ games[g].result # "none"
    BY Facts, ExecAssumption DEF RInv, ResultInv, Closed, Open, ShapeInv, Decided, Agent
  <2> QED
    BY <2>1, <2>2, Facts DEF RowsMatchEvents, Same, Decided
<1> QED
  BY <1>1, RowsInductive, PTL

-----------------------------------------------------------------------------
(* The match is decided by the rules                                       *)

\* Which games of the attempt have a result.
LEMMA FinishedIs ==
  RInv => /\ pc \in {"turn", "event", "project", "finish"} => Finished = 1..(Game - 1)
          /\ pc \in {"start", "create", "ended", "decide"} => Finished = 1..Game
          /\ Finished \subseteq 1..Game
<1> SUFFICES ASSUME RInv
             PROVE  /\ pc \in {"turn", "event", "project", "finish"} => Finished = 1..(Game - 1)
                    /\ pc \in {"start", "create", "ended", "decide"} => Finished = 1..Game
                    /\ Finished \subseteq 1..Game
  OBVIOUS
<1>1. games # <<>> => Game \in 1..2
  BY Facts DEF Game
<1>2. CASE pc \in {"turn", "event", "project", "finish"}
  <2>1. Game \in 1..2 /\ games[Game].result = "none"
    BY <1>2, Facts, ExecAssumption DEF RInv, ShapeInv, ResultInv, Open, InGame
  <2> QED
    BY <1>2, <2>1 DEF Finished, Game
<1>3. CASE pc \in {"start", "create", "ended", "decide"}
  <2>1. verdict = "open"
    BY <1>3 DEF RInv, ShapeInv
  <2>2. pc = "ended" => games[Game].result = GameResult /\ GameResult \in Result
    BY <2>1, ResultIs DEF RInv, ResultInv, Open, InGame
  <2>3. pc # "ended" => \A g \in 1..Game : Closed(g)
    BY <1>3, <2>1, Facts DEF RInv, ResultInv, Open
  <2>4. games # <<>> => games[Game].result # "none"
    BY <1>1, <1>3, <2>2, <2>3 DEF Closed, Result
  <2> QED
    BY <1>3, <2>4 DEF Finished
<1>4. Finished \subseteq 1..Game
  BY Facts DEF Finished
<1> QED
  BY <1>2, <1>3, <1>4

LEMMA RecordType ==
  RInv => \A g \in 1..Game :
            /\ GameRecord(g) \in Rules!GameRecord
            /\ \A a \in Agent : GameRecord(g).times[a] = Times(moves[g], a)
            /\ \A a \in Agent : Rules!Won(GameRecord(g), a) = WinOf(g, a)
<1> SUFFICES ASSUME RInv, NEW g \in 1..Game
             PROVE  /\ GameRecord(g) \in Rules!GameRecord
                    /\ \A a \in Agent : GameRecord(g).times[a] = Times(moves[g], a)
                    /\ \A a \in Agent : Rules!Won(GameRecord(g), a) = WinOf(g, a)
  OBVIOUS
<1>1. games[g] \in GamesRow /\ moves[g] \in TurnsRow
  BY Facts
<1>2. /\ games[g].first \in Agent
      /\ games[g].result \in {"player_a_win", "player_b_win", "draw", "none"}
  BY <1>1 DEF GamesRow, Result
<1>3. GameRecord(g).winner \in Agent \union {"draw"}
  BY <1>2 DEF GameRecord, Other, Agent
<1>4. GameRecord(g).times = [a \in Agent |-> Times(moves[g], a)]
  BY DEF GameRecord, Times
<1>5. \A a \in Agent : Times(moves[g], a) \in Seq(Nat)
  BY <1>1, TimesType
<1>6. GameRecord(g) = [winner |-> GameRecord(g).winner, times |-> GameRecord(g).times]
  BY DEF GameRecord
<1>7. GameRecord(g) \in Rules!GameRecord
  BY <1>3, <1>4, <1>5, <1>6 DEF Rules!GameRecord, Rules!Agent, Agent
<1>8. \A a \in Agent : Rules!Won(GameRecord(g), a) = WinOf(g, a)
  BY <1>2, ExecAssumption DEF Rules!Won, WinOf, GameRecord, Other, Agent
<1> QED
  BY <1>4, <1>7, <1>8

\* The rows of finished games are not written to any more.
LEMMA PersistedKept ==
  ASSUME Finished' = Finished,
         \A g \in Finished : games'[g] = games[g] /\ moves'[g] = moves[g]
  PROVE  Persisted' = Persisted
BY DEF Persisted, GameRecord

\* More wins decide, then the lower average, in memory and on the rows alike.
LEMMA BeatsIs ==
  ASSUME RInv, pc = "decide", ~dropped, NEW a \in Agent
  PROVE  Rules!Beats(Persisted, a) <=>
           \/ wins[a] > wins[Other(a)]
           \/ wins[a] = wins[Other(a)] /\ Rules!Faster(samples[a], samples[Other(a)])
<1>1. Game = 2 /\ Finished = 1..2
  BY FinishedIs DEF RInv, ShapeInv
<1>2. Persisted[1] = GameRecord(1) /\ Persisted[2] = GameRecord(2)
  BY <1>1 DEF Persisted
<1>3. \A x \in Agent : wins[x] = Rules!Won(Persisted[1], x) + Rules!Won(Persisted[2], x)
  BY <1>1, <1>2, RecordType DEF RInv, WinsInv
<1>4. \A x \in Agent : samples[x] = Persisted[1].times[x] \o Persisted[2].times[x]
  <2>1. \A x \in Agent : samples[x] = Played(x)
    BY DEF RInv, SamplesInv, Pending
  <2>2. \A x \in Agent : Played(x) = Times(moves[1], x) \o Times(moves[2], x)
    BY <1>1 DEF Played
  <2>3. \A x \in Agent : /\ GameRecord(1).times[x] = Times(moves[1], x)
                         /\ GameRecord(2).times[x] = Times(moves[2], x)
    BY <1>1, RecordType
  <2> QED
    BY <1>2, <2>1, <2>2, <2>3
<1>5. Other(a) \in Agent /\ Rules!Other(a) = Other(a)
  BY Players DEF Rules!Other, Other
<1> QED
  BY <1>3, <1>4, <1>5 DEF Rules!Beats

LEMMA OutcomeIs ==
  ASSUME RInv, pc = "decide", ~dropped
  PROVE  IF Outcome = "none" THEN Rules!Level(Persisted)
                             ELSE Outcome \in Agent /\ Rules!Beats(Persisted, Outcome)
<1>1. wins[A] \in Nat /\ wins[B] \in Nat /\ samples[A] \in Seq(Duration) /\ samples[B] \in Seq(Duration)
  BY Players DEF Agent
<1>2. /\ Rules!Beats(Persisted, A) <=> \/ wins[A] > wins[B]
                                       \/ wins[A] = wins[B] /\ Rules!Faster(samples[A], samples[B])
      /\ Rules!Beats(Persisted, B) <=> \/ wins[B] > wins[A]
                                       \/ wins[B] = wins[A] /\ Rules!Faster(samples[B], samples[A])
  BY BeatsIs, ExecAssumption DEF Other, Agent
<1>3. /\ Rules!Faster(samples[A], samples[B]) <=> Count(A) > 0 /\ (Count(B) = 0 \/ Lower(A))
      /\ Rules!Faster(samples[B], samples[A]) <=> Count(B) > 0 /\ (Count(A) = 0 \/ Lower(B))
  BY <1>1, ExecAssumption DEF Rules!Faster, Lower, Sum, Count, Other
<1>4. Count(A) \in Nat /\ Count(B) \in Nat
  BY <1>1 DEF Count
<1>5. Rules!Level(Persisted) <=> ~Rules!Beats(Persisted, A) /\ ~Rules!Beats(Persisted, B)
  BY DEF Rules!Level, Rules!Agent
<1> QED
  <2>1. CASE wins[A] > wins[B]
    <3>1. Outcome = A
      BY <1>1, <2>1 DEF Outcome
    <3> QED
      BY <1>2, <2>1, <3>1, ExecAssumption DEF Agent
  <2>2. CASE wins[B] > wins[A]
    <3>1. Outcome = B
      BY <1>1, <2>2 DEF Outcome
    <3> QED
      BY <1>2, <2>2, <3>1, ExecAssumption DEF Agent
  <2>3. CASE wins[A] = wins[B]
    <3>1. Outcome = IF Count(A) > 0 /\ Count(B) > 0
                    THEN IF Lower(A) THEN A ELSE IF Lower(B) THEN B ELSE "none"
                    ELSE IF Count(A) > 0 THEN A ELSE IF Count(B) > 0 THEN B ELSE "none"
      BY <1>1, <1>4, <2>3 DEF Outcome
    <3>2. /\ Rules!Beats(Persisted, A) <=> Count(A) > 0 /\ (Count(B) = 0 \/ Lower(A))
          /\ Rules!Beats(Persisted, B) <=> Count(B) > 0 /\ (Count(A) = 0 \/ Lower(B))
      BY <1>1, <1>2, <1>3, <2>3
    <3>3. "none" \notin {A, B}
      BY ExecAssumption
    <3> QED
      BY <1>4, <1>5, <3>1, <3>2, <3>3 DEF Agent
  <2> QED
    BY <1>1, <2>1, <2>2, <2>3

LEMMA RulesInit == Init => Rules!RInit
<1> SUFFICES ASSUME Init PROVE Rules!RInit
  OBVIOUS
<1>1. Finished = {}
  BY DEF Init, Finished, Game
<1>2. Persisted = <<>>
  BY <1>1 DEF Persisted
<1> QED
  BY <1>2 DEF Init, Rules!RInit

\* A game is played when its row gets its result.
LEMMA PlayStep ==
  ASSUME RInv, FinishGame
  PROVE  Rules!RNext
<1>1. /\ pc = "finish" /\ pc' = "ended" /\ games # <<>>
      /\ games' = [games EXCEPT ![Game].result = GameResult, ![Game].count = turnCount]
      /\ UNCHANGED <<moves, attempt, verdict>>
      /\ Game \in 1..2 /\ verdict = "open"
  BY Facts DEF FinishGame, matchVars, RInv, ShapeInv, InGame, Game
<1>2. RInv' /\ Game' = Game
  BY <1>1, FinishRows DEF Game
<1>3. Finished = 1..(Game - 1) /\ Finished' = 1..Game
  <2>1. (pc \in {"start", "create", "ended", "decide"} => Finished = 1..Game)'
    BY <1>2, FinishedIs, PTL
  <2> QED
    BY <1>1, <1>2, <2>1, FinishedIs
<1>4. \A g \in 1..(Game - 1) : games'[g] = games[g]
  BY <1>1, Facts
<1>5. \A g \in 1..(Game - 1) : GameRecord(g)' = GameRecord(g)
  BY <1>1, <1>4 DEF GameRecord
<1>6. (\A g \in 1..Game :
          /\ GameRecord(g) \in Rules!GameRecord
          /\ \A a \in Agent : GameRecord(g).times[a] = Times(moves[g], a)
          /\ \A a \in Agent : Rules!Won(GameRecord(g), a) = WinOf(g, a))'
  <2>1. RInv'
    BY <1>2
  <2> QED
    BY <2>1, RecordType, PTL
<1>7. PICK r \in Rules!GameRecord : r = GameRecord(Game)'
  BY <1>1, <1>2, <1>6
<1>8. Persisted' = [g \in 1..Game |-> IF g = Game THEN r ELSE GameRecord(g)]
  <2>1. Persisted' = [g \in 1..Game |-> GameRecord(g)']
    BY <1>3 DEF Persisted
  <2>2. \A g \in 1..Game : g = Game \/ g \in 1..(Game - 1)
    BY <1>1
  <2>3. GameRecord(Game)' = r
    BY <1>7
  <2>4. \A g \in 1..Game : GameRecord(g)' = IF g = Game THEN r ELSE GameRecord(g)
    BY <1>2, <1>5, <2>2, <2>3
  <2> QED
    BY <2>1, <2>4
<1>9. Persisted = [g \in 1..(Game - 1) |-> GameRecord(g)]
  BY <1>3 DEF Persisted
<1>10. Len(Persisted) = Game - 1 /\ Persisted' = Append(Persisted, r)
  BY <1>1, <1>8, <1>9
<1>11. Len(Persisted') = Game /\ Persisted'[Len(Persisted')] = r
  BY <1>1, <1>8
<1> QED
  BY <1>1, <1>10, <1>11 DEF Rules!RNext, Rules!Play

\* Every other step of a game leaves the persisted games alone.
LEMMA SamePersisted ==
  ASSUME RInv, [Next]_vars, ~FinishGame, pc # "decide"
  PROVE  Persisted' = Persisted /\ UNCHANGED attempt
<1>1. RInv'
  BY RowsStep
<1>2. CASE CreateGame
  <2>1. /\ pc = "create" /\ pc' = "turn" /\ attempt' = attempt /\ Len(games) \in Nat
        /\ \A g \in 1..Game : games'[g] = games[g] /\ moves'[g] = moves[g]
        /\ Game' = Game + 1
    BY <1>2, Facts DEF CreateGame, matchVars, Game
  <2>2. (pc \in {"turn", "event", "project", "finish"} => Finished = 1..(Game - 1))'
    BY <1>1, FinishedIs, PTL
  <2>3. Finished' = 1..Game /\ Finished = 1..Game
    BY <2>1, <2>2, FinishedIs DEF Game
  <2> QED
    BY <2>1, <2>3, PersistedKept
<1>3. CASE ProjectMove
  <2>1. /\ pc = "project" /\ pc' \in {"turn", "finish"} /\ attempt' = attempt /\ games' = games
        /\ moves' = moves \/ moves' = [moves EXCEPT ![Game] = Record(@)]
    BY <1>3 DEF ProjectMove, matchVars
  <2>2. \A g \in 1..(Game - 1) : moves'[g] = moves[g]
    BY <2>1, Facts
  <2>3. Finished' = Finished /\ Finished = 1..(Game - 1)
    BY <2>1, FinishedIs DEF Finished, Game
  <2> QED
    BY <2>1, <2>2, <2>3, PersistedKept
<1>4. ASSUME UNCHANGED <<games, moves, attempt>>
      PROVE  Persisted' = Persisted /\ UNCHANGED attempt
  BY <1>4 DEF Persisted, Finished, GameRecord, Game
<1>5. CreateGame \/ ProjectMove \/ UNCHANGED <<games, moves, attempt>>
  BY DEF Next, vars, dbVars, matchVars, StartRunners, StartFails, Fail, Accept, Answer, Refuse,
         TimeOut, Crash, Overlong, AppendTurn, GameEnded, Decide, Close, RemoveImages
<1> QED
  BY <1>2, <1>3, <1>4, <1>5

\* The verdict is fixed by the end of an attempt or by an error.
LEMMA VerdictMoves ==
  ASSUME RInv, [Next]_vars, pc # "decide", verdict' # verdict
  PROVE  verdict = "open" /\ verdict' = "failed" /\ ~FinishGame
<1>1. \/ (\E a \in Agent : StartFails(a)) \/ (pc = "create" /\ Fail("create"))
      \/ (pc = "finish" /\ Fail("finish")) \/ (pc = "ended" /\ Fail("ended"))
      \/ verdict' = verdict
  BY DEF Next, vars, matchVars, StartRunners, CreateGame, Accept, Answer, Refuse, TimeOut, Crash,
         Overlong, AppendTurn, ProjectMove, FinishGame, GameEnded, Decide, Close, RemoveImages
<1>2. pc \in {"start", "create", "finish", "ended"} /\ verdict' = "failed"
  BY <1>1 DEF StartFails, Fail
<1> QED
  BY <1>2 DEF RInv, ShapeInv, FinishGame

\* The end of an attempt, when every turn of it has been recorded.
LEMMA DecideStep ==
  ASSUME RInv, Decide, ~dropped
  PROVE  Rules!RNext
<1>1. pc = "decide" /\ Game = 2 /\ Finished = 1..2 /\ verdict = "open"
  BY FinishedIs DEF Decide, RInv, ShapeInv
<1>2. Len(Persisted) = 2
  BY <1>1 DEF Persisted
<1>3. IF Outcome = "none" THEN Rules!Level(Persisted)
                          ELSE Outcome \in Agent /\ Rules!Beats(Persisted, Outcome)
  BY <1>1, OutcomeIs
<1>4. ASSUME NEW v, Return(v)
      PROVE  verdict' = v /\ Persisted' = Persisted /\ attempt' = attempt
  BY <1>4 DEF Return, dbVars, matchVars, Persisted, Finished, GameRecord, Game
<1>5. CASE Outcome # "none" /\ Return(Outcome)
  BY <1>1, <1>2, <1>3, <1>4, <1>5 DEF Rules!RNext, Rules!Decide, Agent, Rules!Agent
<1>6. CASE Outcome = "none" /\ attempt + 1 = MaxAttempts /\ Return("draw")
  BY <1>1, <1>2, <1>3, <1>4, <1>6 DEF Rules!RNext, Rules!Draw
<1>7. CASE Outcome = "none" /\ attempt + 1 < MaxAttempts /\ NextAttempt
  <2>1. games' = <<>> /\ attempt' = attempt + 1 /\ verdict' = verdict
    BY <1>7 DEF NextAttempt
  <2>2. Persisted' = <<>>
    BY <2>1 DEF Persisted, Finished, Game
  <2> QED
    BY <1>1, <1>2, <1>3, <1>7, <2>1, <2>2 DEF Rules!RNext, Rules!Rematch
<1> QED
  BY <1>5, <1>6, <1>7 DEF Decide

LEMMA RulesStep ==
  RInv /\ [Next]_vars => [dropped' \/ Rules!RNext]_(Rules!rvars)
<1> SUFFICES ASSUME RInv, [Next]_vars, ~dropped'
             PROVE  Rules!RNext \/ UNCHANGED Rules!rvars
  OBVIOUS
<1>1. CASE FinishGame
  BY <1>1, PlayStep
<1>2. CASE pc # "decide" /\ ~FinishGame
  <2>1. Persisted' = Persisted /\ UNCHANGED attempt
    BY <1>2, SamePersisted
  <2>2. verdict' # verdict => verdict = "open" /\ verdict' = "failed"
    BY <1>2, VerdictMoves
  <2> QED
    BY <2>1, <2>2 DEF Rules!RNext, Rules!Fail, Rules!rvars
<1>3. CASE pc = "decide" /\ Decide
  <2>1. ~dropped
    BY <1>3 DEF Decide, Return, NextAttempt, faultVars
  <2> QED
    BY <1>3, <2>1, DecideStep
<1>4. CASE pc = "decide" /\ ~Decide
  <2>1. UNCHANGED vars
    BY <1>4 DEF Next, StartRunners, StartFails, CreateGame, Accept, Refuse, TimeOut, Crash,
                Overlong, AppendTurn, ProjectMove, FinishGame, GameEnded, Close, RemoveImages
  <2> QED
    BY <2>1 DEF vars, dbVars, matchVars, Rules!rvars, Persisted, Finished, GameRecord, Game
<1> QED
  BY <1>1, <1>2, <1>3, <1>4

\* As long as no error was discarded, a match is played and decided by the
\* rules of MatchRules, applied to the rows of its games: the wins and the
\* times that the worker keeps in memory are those of the rows.
THEOREM FollowsRules == Spec => DecidedByRules
<1>1. Init => Rules!RInit
  BY RulesInit
<1>2. RInv /\ [Next]_vars => [dropped' \/ Rules!RNext]_(Rules!rvars)
  BY RulesStep
<1> QED
  BY <1>1, <1>2, RowsInductive, PTL DEF Spec, DecidedByRules
-----------------------------------------------------------------------------
(* The end of a match                                                      *)

\* However a match between a user bot and a system agent ends, what keeps a bot
\* running is that Docker did not stop its container at the end, and what keeps
\* its image that the bot did not start or that Docker would not remove it. That
\* Docker did not stop a container at a timeout keeps nothing. `prepare` pairs no
\* others: of two user bots the first would be left running when the second does
\* not start.
THEOREM LeavesNothing ==
  ASSUME UserBot # {A, B}
  PROVE  Spec => CleansUp
<1> DEFINE StopInv == pc \in {"untag", "done"} => running \subseteq unstopped
           Left    == images' = {} \/ pc = "start" \/ faults' # faults
<1>1. Init => StopInv
  BY DEF Init
<1>2. TypeOK /\ StopInv /\ [Next]_vars => StopInv'
  <2> SUFFICES ASSUME TypeOK, StopInv, [Next]_vars, pc' \in {"untag", "done"}
               PROVE  running' \subseteq unstopped'
    OBVIOUS
  <2>1. (\E a \in Agent : StartFails(a)) \/ Close \/ RemoveImages \/ UNCHANGED vars
    BY DEF Next, StartRunners, CreateGame, Fail, Accept, Answer, Refuse, TimeOut, Crash,
           Overlong, AppendTurn, ProjectMove, FinishGame, GameEnded, Decide, Return, NextAttempt
  <2>2. CASE \E a \in Agent : StartFails(a)
    <3>1. PICK a \in Agent : StartFails(a)
      BY <2>2
    <3>2. a \in UserBot /\ running' = (IF a = B THEN UserBot \ {B} ELSE {})
      BY <3>1 DEF StartFails
    <3>3. a = B => UserBot = {B}
      BY <3>2, ExecAssumption
    <3> QED
      BY <3>2, <3>3
  <2>3. CASE Close
    BY <2>3 DEF Close
  <2>4. CASE RemoveImages
    BY <2>4 DEF RemoveImages
  <2>5. CASE UNCHANGED vars
    BY <2>5 DEF vars, botVars
  <2> QED
    BY <2>1, <2>2, <2>3, <2>4, <2>5
<1>3. TypeOK /\ [Next]_vars => [pc' = "done" => Left]_vars
  <2>1. ASSUME TypeOK, Next, pc' = "done"
        PROVE  Left
    <3>1. (\E a \in Agent : StartFails(a)) \/ RemoveImages
      BY <2>1 DEF Next, StartRunners, CreateGame, Fail, Accept, Answer, Refuse, TimeOut, Crash,
                  Overlong, AppendTurn, ProjectMove, FinishGame, GameEnded, Decide, Return,
                  NextAttempt, Close
    <3> QED
      BY <2>1, <3>1 DEF StartFails, RemoveImages, Fault, TypeOK
  <2> QED
    BY <2>1
<1>4. StopInv' /\ [pc' = "done" => Left]_vars
        => [pc' = "done" => running' \subseteq unstopped' /\ Left]_vars
  OBVIOUS
<1> QED
  BY <1>1, <1>2, <1>3, <1>4, TypeCorrect, PTL DEF Spec, CleansUp
-----------------------------------------------------------------------------
(* The rows are written in the order of MatchRows                          *)

\* Nobody has won before there are enough marks, and an accepted move is one.
MarksInv == /\ winner \in {"first", "second"} => turnCount >= MinWin
            /\ TurnOver /\ reply.type = "place" => turnCount > 0

LEMMA MarksKept == EInv /\ MarksInv /\ [Next]_vars => MarksInv'
<1> SUFFICES ASSUME EInv, MarksInv, [Next]_vars PROVE MarksInv'
  OBVIOUS
<1>1. CASE \E d \in Duration : Accept(d)
  <2>1. /\ turnCount \in Nat /\ turnCount' = turnCount + 1
        /\ winner' \in Engine!Outcomes(turnCount + 1, current)
    BY <1>1 DEF Accept, Engine!Accepted, EInv, MemoryOK
  <2> QED
    BY <2>1, ExecAssumption DEF Engine!Outcomes, Engine!Seat, MarksInv
<1>2. CASE CreateGame
  BY <1>2 DEF CreateGame, MarksInv, TurnOver
<1>3. CASE /\ UNCHANGED <<turnCount, winner>>
           /\ \/ UNCHANGED reply /\ (TurnOver' => TurnOver)
              \/ reply'.type # "place"
  BY <1>3 DEF MarksInv
<1>4. CASE Refuse \/ TimeOut \/ Crash \/ Overlong
  BY <1>3, <1>4 DEF Refuse, TimeOut, Crash, Overlong, Answer, engineVars
<1>5. CASE ~ \/ \E d \in Duration : Accept(d)
             \/ CreateGame \/ Refuse \/ TimeOut \/ Crash \/ Overlong
  BY <1>3, <1>5 DEF Next, vars, engineVars, StartRunners, StartFails, Fail, AppendTurn,
     ProjectMove, FinishGame, GameEnded, Decide, Return, NextAttempt, Close,
     RemoveImages, TurnOver
<1> QED
  BY <1>1, <1>2, <1>4, <1>5

\* No line without enough marks: a game is not won before MinWin accepted moves,
\* which is all that the readers of the rows know of the rules.
THEOREM EnoughMarks == Spec => []MarksInv
<1>1. Init => MarksInv
  BY DEF Init, MarksInv, TurnOver, Engine!GInit
<1>2. RInv => EInv
  BY DEF RInv
<1> QED
  BY <1>1, <1>2, MarksKept, RowsInductive, PTL DEF Spec

\* The game as the readers of the rows see it.
LEMMA SeenIs ==
  ASSUME RInv
  PROVE  /\ R!Game = Game /\ DOMAIN SeenGames = 1..Game /\ DOMAIN SeenMoves = 1..Game
         /\ \A g \in 1..Game :
              /\ R!Closed(g) <=> games[g].result # "none"
              /\ \A a \in Agent : R!WinFor(g, a) = IF a = games[g].first THEN "player_a_win"
                                                                         ELSE "player_b_win"
              /\ \A n \in Nat : R!MoverOf(g, n) = IF n % 2 = 0 THEN games[g].first
                                                               ELSE Other(games[g].first)
<1>1. DOMAIN SeenGames = 1..Game /\ Len(SeenGames) = Game /\ DOMAIN SeenMoves = 1..Game
  BY Facts DEF SeenGames, SeenMoves
<1>2. ASSUME NEW g \in 1..Game
      PROVE  /\ SeenGames[g].first = games[g].first
             /\ SeenGames[g].result # "" <=> games[g].result # "none"
  <2>1. PICK r \in GamesRow : r = games[g]
    BY Facts
  <2>2. SeenGames[g] = [r EXCEPT !.result = IF @ = "none" THEN "" ELSE @]
    BY <2>1, Facts DEF SeenGames
  <2> QED
    BY <2>1, <2>2 DEF GamesRow, Result
<1> QED
  BY <1>1, <1>2 DEF R!Game, R!Closed, R!WinFor, R!MoverOf, R!Other, Other

LEMMA TwoGames == Cardinality({1} \union {2}) = 2
<1>1. IsFiniteSet({1}) /\ Cardinality({1}) = 1
  BY FS_Singleton
<1>2. Cardinality({1} \union {2}) = IF 2 \in {1} THEN Cardinality({1}) ELSE Cardinality({1}) + 1
  <2> DEFINE S == {1}
  <2>1. IsFiniteSet(S)
    BY <1>1
  <2> HIDE DEF S
  <2>2. Cardinality(S \union {2}) = IF 2 \in S THEN Cardinality(S) ELSE Cardinality(S) + 1
    BY <2>1, FS_AddElement, Zenon
  <2> QED
    BY <2>2 DEF S
<1> QED
  BY <1>1, <1>2

LEMMA WinsSeen ==
  ASSUME RInv, Game = 2, \A g \in 1..2 : games[g].result # "none", NEW a \in Agent
  PROVE  R!Wins(a) = WinOf(1, a) + WinOf(2, a)
<1> DEFINE Won == {g \in 1..2 : WinOf(g, a) = 1}
<1>1. \A g \in 1..2 : SeenGames[g] = games[g]
  <2> TAKE g \in 1..2
  <2>1. PICK r \in GamesRow : r = games[g]
    BY Facts
  <2>2. SeenGames[g] = [r EXCEPT !.result = IF @ = "none" THEN "" ELSE @]
    BY <2>1, Facts DEF SeenGames
  <2> QED
    BY <2>1, <2>2 DEF GamesRow
<1>2. R!Wins(a) = Cardinality({g \in 1..R!Game : SeenGames[g].result = R!WinFor(g, a)})
  BY DEF R!Wins, R!Cardinality, Cardinality
<1>3. {g \in 1..R!Game : SeenGames[g].result = R!WinFor(g, a)} = Won
  <2>1. ASSUME NEW g \in 1..2
        PROVE  SeenGames[g].result = R!WinFor(g, a) <=> WinOf(g, a) = 1
    BY <1>1, SeenIs DEF WinOf
  <2> QED
    BY <2>1, SeenIs
<1>4. Cardinality(Won) = WinOf(1, a) + WinOf(2, a)
  <2>1. WinOf(1, a) \in {0, 1} /\ WinOf(2, a) \in {0, 1}
    BY DEF WinOf
  <2>2. Won = (IF WinOf(1, a) = 1 THEN {1} ELSE {}) \union (IF WinOf(2, a) = 1 THEN {2} ELSE {})
    BY <2>1
  <2>3. Cardinality({}) = 0 /\ Cardinality({1}) = 1 /\ Cardinality({2}) = 1
    BY FS_EmptySet, FS_Singleton
  <2>4. Cardinality({1} \union {2}) = 2
    BY TwoGames
  <2> QED
    BY <2>1, <2>2, <2>3, <2>4
<1> QED
  BY <1>2, <1>3, <1>4

\* The rows of a game after a turn of it.
LEMMA RowsOfRecord ==
  ASSUME RInv, TurnOver, NEW t \in TurnsRow
  PROVE  RowsOf(Record(t)) = RowsOf(t) \union {Row(reply.turn, reply.agent, reply.type = "place")}
<1>1. Record(t) \in TurnsRow /\ reply.agent \in Agent
  BY RecordIs, Players
<1>2. CASE reply.type = "place"
  <2> DEFINE New == Row(reply.turn, reply.agent, TRUE)
  <2>1. /\ \A a \in Agent : Record(t).placed[a] = IF reply.agent = a THEN Append(t.placed[a], TurnRow)
                                                                     ELSE t.placed[a]
        /\ Record(t).lost = t.lost
    BY <1>2, RecordPlaced, RecordIs
  <2>2. \A s \in Seq(Placed) : MovesOf(Append(s, TurnRow), reply.agent)
                                 = MovesOf(s, reply.agent) \union {New}
    <3> TAKE s \in Seq(Placed)
    <3>1. TurnRow.turn = reply.turn /\ Len(s) \in Nat /\ DOMAIN s = 1..Len(s)
      BY DEF TurnRow
    <3>2. /\ DOMAIN Append(s, TurnRow) = DOMAIN s \union {Len(s) + 1}
          /\ Append(s, TurnRow)[Len(s) + 1] = TurnRow
          /\ \A i \in DOMAIN s : Append(s, TurnRow)[i] = s[i]
      BY <3>1
    <3> QED
      BY <3>1, <3>2 DEF MovesOf
  <2>3. t.placed[reply.agent] \in Seq(Placed)
    BY <1>1 DEF TurnsRow
  <2> HIDE DEF New
  <2>4. ASSUME NEW a \in Agent
        PROVE  MovesOf(Record(t).placed[a], a)
                 = IF a = reply.agent THEN MovesOf(t.placed[a], a) \union {New}
                                      ELSE MovesOf(t.placed[a], a)
    <3>1. CASE a = reply.agent
      <4>1. Record(t).placed[a] = Append(t.placed[a], TurnRow)
        BY <2>1, <3>1
      <4> QED
        BY <2>2, <2>3, <3>1, <4>1
    <3>2. CASE a # reply.agent
      BY <2>1, <3>2
    <3> QED
      BY <3>1, <3>2
  <2>5. PlacedRows(Record(t)) = PlacedRows(t) \union {New}
    <3>1. \A x : /\ x \in PlacedRows(t) <=> \E a \in Agent : x \in MovesOf(t.placed[a], a)
                 /\ x \in PlacedRows(Record(t)) <=> \E a \in Agent : x \in MovesOf(Record(t).placed[a], a)
      BY DEF PlacedRows
    <3> QED
      BY <1>1, <2>4, <3>1
  <2>6. LostRows(Record(t)) = LostRows(t)
    BY <2>1 DEF LostRows
  <2> QED
    BY <1>2, <2>5, <2>6 DEF RowsOf, New
<1>3. CASE reply.type # "place"
  <2>1. Record(t).placed = t.placed /\ Record(t).lost = t.lost \union {LostRow}
    BY <1>3, RecordIs
  <2>2. LostRow.turn = reply.turn /\ LostRow.agent = reply.agent
    BY DEF LostRow
  <2>3. LostRows(Record(t)) = LostRows(t) \union {Row(reply.turn, reply.agent, FALSE)}
    BY <2>1, <2>2 DEF LostRows
  <2>4. PlacedRows(Record(t)) = PlacedRows(t)
    BY <2>1 DEF PlacedRows
  <2> QED
    BY <1>3, <2>3, <2>4 DEF RowsOf
<1> QED
  BY <1>2, <1>3
LEMMA SeenInit == Init => R!RowsInit
<1> SUFFICES ASSUME Init PROVE R!RowsInit
  OBVIOUS
<1>1. SeenGames = <<>> /\ SeenMoves = <<>>
  BY DEF Init, SeenGames, SeenMoves
<1>2. SeenTurn = 0 /\ SeenLost = FALSE /\ SeenStage = "games"
  BY DEF Init, SeenTurn, SeenLost, SeenStage, Lost, NoReply, Engine!GInit
<1> QED
  BY <1>1, <1>2 DEF Init, R!RowsInit

\* The steps no reader of the rows notices, unless an error was discarded.
LEMMA UnseenStep ==
  ASSUME RInv, UNCHANGED <<games, moves, verdict>>,
         SeenTurn' = SeenTurn, SeenLost' = SeenLost, dropped' \in {dropped, TRUE}
  PROVE  [R!RowsNext]_(R!matchRowsVars)
<1>1. UNCHANGED <<SeenGames, SeenMoves, SeenStage>>
  BY DEF SeenGames, SeenMoves, SeenStage, RowsOf, PlacedRows, MovesOf, LostRows, Row
<1> QED
  BY <1>1 DEF R!RowsNext, R!Discard, R!matchRowsVars, R!rowVars, R!workerVars

LEMMA UnseenSteps ==
  ASSUME RInv,
         \/ StartRunners \/ (\E d \in Duration : Accept(d)) \/ Refuse \/ TimeOut \/ Crash \/ Overlong
         \/ AppendTurn \/ GameEnded \/ Close \/ RemoveImages \/ UNCHANGED vars
  PROVE  [R!RowsNext]_(R!matchRowsVars)
<1> USE DEF SeenTurn, SeenLost, Lost, engineVars, faultVars, matchVars
<1>1. CASE StartRunners
  BY <1>1, UnseenStep DEF StartRunners, dbVars
<1>2. CASE \E d \in Duration : Accept(d)
  BY <1>2, UnseenStep, Players DEF Accept, Answer, SameBot, Engine!Accepted, dbVars
<1>3. CASE Refuse \/ TimeOut \/ Crash \/ Overlong
  <2>1. /\ UNCHANGED <<games, moves, verdict, turnCount, dropped>> /\ pc = "turn" /\ pc' = "event"
        /\ reply'.type \in {"invalid", "timeout", "crash"}
    BY <1>3 DEF Refuse, TimeOut, Crash, Overlong, Answer, SameBot, Fault, dbVars, RInv, RowsOK
  <2> QED
    BY <2>1, UnseenStep
<1>4. CASE AppendTurn
  BY <1>4, UnseenStep DEF AppendTurn, Fault
<1>5. CASE GameEnded
  BY <1>5, UnseenStep DEF GameEnded
<1>6. CASE Close \/ RemoveImages
  BY <1>6, UnseenStep DEF Close, RemoveImages, Fault, dbVars, RInv, RowsOK
<1>7. CASE UNCHANGED vars
  BY <1>7, UnseenStep DEF vars, dbVars
<1> QED
  BY <1>1, <1>2, <1>3, <1>4, <1>5, <1>6, <1>7

\* A call returns an error that is not discarded.
LEMMA ErrorSeen ==
  ASSUME RInv,
         \/ \E a \in Agent : StartFails(a)
         \/ \E call \in {"create", "finish", "ended"} : pc = call /\ Fail(call)
  PROVE  R!ReturnError
<1>1. /\ UNCHANGED <<games, moves, turnCount, reply>> /\ verdict' = "failed"
      /\ pc \in {"start", "create", "finish", "ended"} /\ pc' \in {"close", "done"}
      /\ dropped' = dropped
  <2>1. CASE \E a \in Agent : StartFails(a)
    BY <2>1 DEF StartFails, Fault, dbVars, engineVars, RInv, RowsOK
  <2>2. CASE \E call \in {"create", "finish", "ended"} : pc = call /\ Fail(call)
    BY <2>2 DEF Fail, Fault, dbVars, engineVars, RInv, RowsOK
  <2> QED
    BY <2>1, <2>2
<1>2. UNCHANGED <<SeenGames, SeenMoves, SeenTurn, SeenLost>>
  BY <1>1 DEF SeenGames, SeenMoves, RowsOf, PlacedRows, MovesOf, LostRows, Row, SeenTurn, SeenLost, Lost
<1>3. SeenStage = "games" /\ SeenStage' = "settle"
  BY <1>1 DEF SeenStage, RInv, ShapeInv
<1> QED
  BY <1>1, <1>2, <1>3 DEF R!ReturnError, R!rowVars

LEMMA CreateSeen ==
  ASSUME RInv, CreateGame
  PROVE  R!CreateGame
<1> DEFINE new == [first |-> First, result |-> "none", count |-> 0]
           seen == [first |-> IF Game = 0 THEN A ELSE B, result |-> "", count |-> 0]
<1>1. /\ pc = "create" /\ pc' = "turn" /\ verdict = "open" /\ Game = number - 1 /\ Game \in {0, 1}
      /\ games' = Append(games, new) /\ moves' = Append(moves, NoTurns) /\ turnCount' = 0
      /\ UNCHANGED <<verdict, reply, dropped>>
  BY Facts DEF CreateGame, faultVars, RInv, ShapeInv
<1>2. /\ Len(games) = Game /\ Len(moves) = Game /\ DOMAIN games' = 1..(Game + 1)
      /\ \A g \in 1..Game : games'[g] = games[g] /\ moves'[g] = moves[g]
      /\ games'[Game + 1] = new /\ moves'[Game + 1] = NoTurns
  BY <1>1, Facts DEF Game, RInv, RowsOK
<1>3. RowsOf(NoTurns) = {}
  BY DEF RowsOf, PlacedRows, MovesOf, LostRows, NoTurns
<1>4. SeenGames' = Append(SeenGames, seen)
  <2> DEFINE Shown(r) == [r EXCEPT !.result = IF @ = "none" THEN "" ELSE @]
  <2>1. First = IF Game = 0 THEN A ELSE B
    BY <1>1 DEF First
  <2>2. Shown(new) = [first |-> First, result |-> "", count |-> 0]
    <3>1. new \in GamesRow
      BY Players, ExecAssumption DEF GamesRow
    <3>2. ASSUME NEW r \in GamesRow, r.result = "none"
          PROVE  Shown(r) = [first |-> r.first, result |-> "", count |-> r.count]
      <4>1. Shown(r) = [r EXCEPT !.result = ""]
        BY <3>2
      <4>2. [r EXCEPT !.result = ""] \in [first : Agent, result : {""}, count : 0..Cells]
        BY DEF GamesRow
      <4>3. PICK q \in [first : Agent, result : {""}, count : 0..Cells] : q = [r EXCEPT !.result = ""]
        BY <4>2
      <4>4. q.first = r.first /\ q.count = r.count /\ q.result = ""
        BY <4>3 DEF GamesRow
      <4>5. q = [first |-> q.first, result |-> q.result, count |-> q.count]
        OBVIOUS
      <4> QED
        BY <4>1, <4>3, <4>4, <4>5
    <3> QED
      BY <3>1, <3>2
  <2>3. SeenGames = [g \in 1..Game |-> Shown(games[g])]
    BY Facts DEF SeenGames
  <2>4. SeenGames' = [g \in 1..(Game + 1) |-> Shown(games'[g])]
    BY <1>2 DEF SeenGames
  <2>5. Shown(new) = seen
    BY <2>1, <2>2
  <2> HIDE DEF Shown, new, seen
  <2> QED
    BY <1>1, <1>2, <2>3, <2>4, <2>5
<1>5. SeenMoves' = Append(SeenMoves, {})
  <2>1. SeenMoves' = [g \in 1..(Game + 1) |-> RowsOf(moves'[g])]
    BY <1>1, <1>2 DEF SeenMoves, RowsOf, PlacedRows, MovesOf, LostRows, Row
  <2>2. SeenMoves = [g \in 1..Game |-> RowsOf(moves[g])]
    BY Facts DEF SeenMoves
  <2> QED
    BY <1>1, <1>2, <1>3, <2>1, <2>2
<1>6. R!Between /\ R!Game = Game
  <2>1. \A g \in 1..Game : games[g].result # "none"
    BY <1>1, Facts DEF RInv, ResultInv, Closed, Open
  <2> QED
    BY <1>1, <2>1, SeenIs DEF R!Between, SeenStage
<1>7. SeenTurn' = 0 /\ SeenLost' = FALSE /\ SeenStage' = SeenStage
  BY <1>1 DEF SeenTurn, SeenLost, SeenStage
<1> HIDE DEF new
<1>8. SeenGames' = Append(SeenGames, [first |-> IF R!Game = 0 THEN A ELSE B, result |-> "", count |-> 0])
  BY <1>4, <1>6
<1> HIDE DEF seen
<1>9. UNCHANGED <<verdict, SeenStage, dropped>>
  BY <1>1, <1>7
<1>10. R!Game < 2
  BY <1>1, <1>6
<1> QED
  BY <1>5, <1>6, <1>7, <1>8, <1>9, <1>10 DEF R!CreateGame

\* Whose turn it was, for the readers.
LEMMA MoverSeen ==
  ASSUME RInv, MarksInv, TurnOver,
         NEW n, n = IF reply.type = "place" THEN turnCount - 1 ELSE turnCount
  PROVE  /\ n \in 0..(Cells - 1) /\ reply.turn = n + 1 /\ R!MoverOf(Game, n) = reply.agent
         /\ games[Game].first = First /\ Game \in 1..2 /\ Game = number
<1>1. Game \in 1..2 /\ Game = number /\ games[Game].first = First
  BY Facts DEF TurnOver, RInv, ShapeInv, InGame, First
<1>2. /\ current = turnCount % 2 /\ turnCount \in 0..Cells
      /\ reply.type = "place" => turnCount > 0 /\ reply.turn = turnCount /\ reply.agent = PlayerAt(1 - current)
      /\ reply.type # "place" => turnCount < Cells /\ reply.turn = turnCount + 1 /\ reply.agent = PlayerAt(current)
  BY Players DEF RInv, EInv, BoardInv, TurnInv, MarksInv, TurnOver, InGame, Mover
<1>3. n \in 0..(Cells - 1) /\ reply.turn = n + 1
  BY <1>2, ExecAssumption
<1>4. reply.agent = IF n % 2 = 0 THEN First ELSE Other(First)
  <2>1. CASE reply.type = "place"
    <3>1. turnCount % 2 = 1 - (n % 2)
      BY <1>3, <2>1, <1>2, Parity
    <3> QED
      BY <1>2, <1>3, <2>1, <3>1 DEF PlayerAt
  <2>2. CASE reply.type # "place"
    BY <1>2, <2>2 DEF PlayerAt
  <2> QED
    BY <2>1, <2>2
<1>5. R!MoverOf(Game, n) = IF n % 2 = 0 THEN games[Game].first ELSE Other(games[Game].first)
  BY <1>1, <1>3, SeenIs
<1> QED
  BY <1>1, <1>3, <1>4, <1>5

\* The row of a turn, or its loss.
LEMMA ProjectSeen ==
  ASSUME RInv, MarksInv, ProjectMove
  PROVE  R!Turn(reply.type = "place")
<1> DEFINE n == IF reply.type = "place" THEN turnCount - 1 ELSE turnCount
           row == Row(reply.turn, reply.agent, reply.type = "place")
<1>1. /\ pc = "project" /\ pc' \in {"turn", "finish"} /\ (reply.type # "place" => pc' = "finish")
      /\ UNCHANGED <<games, turnCount, reply, verdict>>
      /\ \/ moves' = [moves EXCEPT ![Game] = Record(@)] /\ dropped' = dropped
         \/ moves' = moves /\ dropped' = TRUE
  BY DEF ProjectMove, Fault, engineVars, faultVars
<1>2. /\ reply.type \in {"place", "invalid", "timeout", "crash"} /\ TurnOver /\ verdict = "open"
      /\ Game \in 1..2 /\ games[Game].result = "none"
  BY <1>1, Facts, ExecAssumption
     DEF TurnOver, RInv, EInv, MemoryOK, BoardInv, ShapeInv, ResultInv, Open, InGame
<1>3. n \in 0..(Cells - 1) /\ reply.turn = n + 1 /\ R!MoverOf(Game, n) = reply.agent
  BY <1>2, MoverSeen
<1>4. /\ SeenTurn = n /\ SeenTurn' = turnCount /\ SeenLost = FALSE /\ SeenLost' = (reply.type # "place")
      /\ SeenStage = "games" /\ SeenStage' = SeenStage
  BY <1>1, <1>2 DEF SeenTurn, SeenLost, SeenStage, Lost
<1>5. SeenGames' = SeenGames
  BY <1>1 DEF SeenGames
<1>6. \/ SeenMoves' = [SeenMoves EXCEPT ![Game] = @ \union {row}] /\ dropped' = dropped
      \/ SeenMoves' = SeenMoves /\ dropped' = TRUE
  <2>1. CASE moves' = moves /\ dropped' = TRUE
    BY <1>1, <2>1 DEF SeenMoves, RowsOf, PlacedRows, MovesOf, LostRows, Row
  <2>2. CASE moves' = [moves EXCEPT ![Game] = Record(@)] /\ dropped' = dropped
    <3>1. SeenMoves' = [g \in 1..Game |-> RowsOf(moves'[g])]
      BY <1>1, Facts DEF SeenMoves, RowsOf, PlacedRows, MovesOf, LostRows, Row
    <3>2. SeenMoves = [g \in 1..Game |-> RowsOf(moves[g])]
      BY Facts DEF SeenMoves
    <3>3. \A g \in 1..Game : moves'[g] = IF g = Game THEN Record(moves[g]) ELSE moves[g]
      BY <2>2, Facts
    <3>4. RowsOf(Record(moves[Game])) = RowsOf(moves[Game]) \union {row}
      BY <1>2, Facts, RowsOfRecord
    <3> HIDE DEF row
    <3>5. SeenMoves' = [SeenMoves EXCEPT ![Game] = @ \union {row}]
      BY <1>2, <3>1, <3>2, <3>3, <3>4
    <3> QED
      BY <2>2, <3>5
  <2> QED
    BY <1>1, <2>1, <2>2
<1>7. R!Game = Game /\ R!Playing
  BY <1>2, <1>4, SeenIs DEF R!Playing
<1>8. row = [seq |-> SeenTurn + 1, agent |-> R!MoverOf(R!Game, SeenTurn), accepted |-> reply.type = "place"]
  BY <1>3, <1>4, <1>7 DEF Row
<1>9. SeenTurn < Cells /\ SeenTurn' = IF reply.type = "place" THEN SeenTurn + 1 ELSE SeenTurn
  BY <1>3, <1>4, Players, ExecAssumption
<1> HIDE DEF n, row
<1>10. SeenLost' = ~(reply.type = "place")
  BY <1>4
<1> QED
  BY <1>1, <1>4, <1>5, <1>6, <1>7, <1>8, <1>9, <1>10 DEF R!Turn

\* The result of a game is one that its readers may expect of its last turn.
LEMMA ResultSeen ==
  ASSUME RInv, MarksInv, pc \in {"finish", "ended"}
  PROVE  /\ reply.type # "place" =>
              GameResult = R!WinFor(Game, R!Other(R!MoverOf(Game, turnCount)))
         /\ reply.type = "place" =>
              \/ GameResult = "draw" /\ turnCount = Cells
              \/ /\ turnCount >= MinWin /\ turnCount > 0
                 /\ GameResult = R!WinFor(Game, R!MoverOf(Game, turnCount - 1))
<1>1. TurnOver
  BY DEF TurnOver
<1>2. \A a \in Agent : GameWinner = a => GameResult = R!WinFor(Game, a)
  <2> TAKE a \in Agent
  <2>1. games[Game].first = First /\ Game \in 1..Game
    BY <1>1, MoverSeen
  <2> QED
    BY <2>1, ResultIs, SeenIs
<1>3. CASE reply.type # "place"
  <2>1. R!MoverOf(Game, turnCount) = reply.agent
    BY <1>1, <1>3, MoverSeen
  <2>2. R!Other(reply.agent) = Other(reply.agent) /\ Other(reply.agent) \in Agent
    BY Players DEF R!Other, Other
  <2>3. GameWinner = Other(reply.agent)
    BY <1>3, WinnerMoved
  <2> QED
    BY <1>2, <1>3, <2>1, <2>2, <2>3
<1>4. CASE reply.type = "place"
  <2>1. R!MoverOf(Game, turnCount - 1) = reply.agent /\ reply.agent \in Agent
    BY <1>1, <1>4, MoverSeen, Players
  <2>2. turnCount > 0
    BY <1>1, <1>4 DEF MarksInv
  <2>3. CASE GameWinner = "draw"
    <3>1. turnCount = Cells
      <4>1. winner \in {"none", "draw"}
        BY <1>4, <2>3, Players, ExecAssumption DEF GameWinner, Agent, RInv, EInv, MemoryOK
      <4> QED
        BY <1>1, <1>4, <4>1 DEF RInv, EInv, BoardInv, InGame, TurnOver
    <3>2. GameResult = "draw"
      BY <2>3, Players, ExecAssumption DEF GameResult, Agent
    <3> QED
      BY <1>4, <3>1, <3>2
  <2>4. CASE GameWinner = reply.agent
    <3>1. winner \in {"first", "second"}
      BY <1>4, <2>1, <2>4, ExecAssumption DEF GameWinner, Agent
    <3> QED
      BY <1>2, <1>4, <2>1, <2>2, <2>4, <3>1 DEF MarksInv
  <2> QED
    BY <1>4, <2>3, <2>4, WinnerMoved
<1> QED
  BY <1>3, <1>4

LEMMA FinishSeen ==
  ASSUME RInv, MarksInv, FinishGame
  PROVE  R!FinishGame
<1>1. /\ pc = "finish" /\ pc' = "ended"
      /\ games' = [games EXCEPT ![Game].result = GameResult, ![Game].count = turnCount]
      /\ UNCHANGED <<moves, turnCount, reply, verdict, dropped>>
  BY DEF FinishGame, engineVars, faultVars
<1>2. /\ reply.type \in {"place", "invalid", "timeout", "crash"} /\ verdict = "open"
      /\ Game \in 1..2 /\ games[Game].result = "none"
  BY <1>1, Facts, ExecAssumption
     DEF TurnOver, RInv, EInv, MemoryOK, BoardInv, ShapeInv, ResultInv, Open, InGame
<1>3. /\ SeenTurn = turnCount /\ SeenTurn' = SeenTurn /\ SeenLost = (reply.type # "place")
      /\ SeenLost' = SeenLost /\ SeenStage = "games" /\ SeenStage' = SeenStage
  BY <1>1, <1>2 DEF SeenTurn, SeenLost, SeenStage, Lost
<1>4. SeenMoves' = SeenMoves
  BY <1>1, Facts DEF SeenMoves, RowsOf, PlacedRows, MovesOf, LostRows, Row, Game
<1>5. R!Game = Game /\ R!Playing
  BY <1>2, <1>3, SeenIs DEF R!Playing
<1>6. GameResult \in Result
  BY <1>1, ResultIs
<1>7. GameResult \in R!Results
  BY <1>1, <1>2, <1>3, <1>5, <1>6, ResultSeen DEF R!Results, R!Result, Result
<1>8. SeenGames' = [SeenGames EXCEPT ![Game].result = GameResult, ![Game].count = turnCount]
  <2> DEFINE Shown(r) == [r EXCEPT !.result = IF @ = "none" THEN "" ELSE @]
  <2>1. PICK r \in GamesRow : r = games[Game]
    BY <1>2, Facts
  <2>2. SeenGames = [g \in 1..Game |-> Shown(games[g])]
    BY Facts DEF SeenGames
  <2>3. games' = [games EXCEPT ![Game] = [r EXCEPT !.result = GameResult, !.count = turnCount]]
    BY <1>1, <2>1
  <2>4. SeenGames' = [g \in 1..Game |-> Shown(games'[g])]
    BY <2>3, Facts DEF SeenGames
  <2>5. Shown([r EXCEPT !.result = GameResult, !.count = turnCount])
          = [Shown(r) EXCEPT !.result = GameResult, !.count = turnCount]
    <3>1. GameResult # "none"
      BY <1>6 DEF Result
    <3> QED
      BY <3>1 DEF GamesRow
  <2> HIDE DEF Shown
  <2>6. [SeenGames EXCEPT ![Game].result = GameResult, ![Game].count = turnCount]
          = [SeenGames EXCEPT ![Game] = [Shown(r) EXCEPT !.result = GameResult, !.count = turnCount]]
    BY <1>2, <2>1, <2>2
  <2> QED
    BY <1>2, <2>2, <2>3, <2>4, <2>5, <2>6, Facts
<1> QED
  BY <1>1, <1>3, <1>4, <1>5, <1>7, <1>8 DEF R!FinishGame, R!workerVars

\* The verdict, or a rematch.
LEMMA DecideSeen ==
  ASSUME RInv, Decide
  PROVE  R!Rematch \/ \E v \in Agent \union {"draw"} : R!Return(v)
<1>1. /\ pc = "decide" /\ Game = 2 /\ verdict = "open"
      /\ \A g \in 1..2 : games[g].result # "none"
  <2>1. pc = "decide" /\ Game = 2 /\ verdict = "open"
    BY DEF Decide, RInv, ShapeInv
  <2> QED
    BY <2>1, Facts DEF RInv, ResultInv, Closed, Open
<1>2. R!Game = 2 /\ R!Between /\ SeenStage = "games"
  BY <1>1, SeenIs DEF R!Between, SeenStage
<1>3. R!Wins(A) = wins[A] /\ R!Wins(B) = wins[B] /\ wins[A] \in Nat /\ wins[B] \in Nat
  BY <1>1, WinsSeen, Players DEF RInv, WinsInv, Agent
<1>4. /\ Outcome \in {A, B, "none"}
      /\ Outcome = A => wins[A] >= wins[B]
      /\ Outcome = B => wins[B] >= wins[A]
      /\ Outcome = "none" => wins[A] = wins[B]
  <2>0. A # B /\ "none" \notin {A, B}
    BY ExecAssumption
  <2>1. CASE wins[A] > wins[B]
    <3>1. Outcome = A
      BY <1>3, <2>1 DEF Outcome
    <3> QED
      BY <1>3, <2>0, <2>1, <3>1
  <2>2. CASE wins[B] > wins[A]
    <3>1. Outcome = B
      BY <1>3, <2>2 DEF Outcome
    <3> QED
      BY <1>3, <2>0, <2>2, <3>1
  <2>3. CASE wins[A] = wins[B]
    BY <1>3, <2>3, ExecAssumption DEF Outcome
  <2> QED
    BY <1>3, <2>1, <2>2, <2>3
<1>5. ASSUME NEW v \in Agent \union {"draw"}, Return(v), R!MayReturn(v)
      PROVE  R!Return(v)
  <2>1. /\ UNCHANGED <<games, moves, turnCount, reply, dropped>> /\ verdict' = v
        /\ pc = "decide" /\ pc' = "close"
    BY <1>1, <1>5 DEF Return, dbVars, engineVars, faultVars
  <2>2. UNCHANGED <<SeenGames, SeenMoves, SeenTurn, SeenLost>>
    BY <2>1 DEF SeenGames, SeenMoves, RowsOf, PlacedRows, MovesOf, LostRows, Row, SeenTurn, SeenLost, Lost
  <2>3. SeenStage' = "settle"
    BY <2>1, ExecAssumption DEF SeenStage, Agent
  <2> QED
    BY <1>2, <1>5, <2>1, <2>2, <2>3 DEF R!Return, R!rowVars
<1>6. CASE Outcome # "none" /\ Return(Outcome)
  <2>1. Outcome \in Agent /\ Outcome # "draw"
    BY <1>4, <1>6, ExecAssumption DEF Agent
  <2>2. R!MayReturn(Outcome)
    BY <1>3, <1>4, <2>1, ExecAssumption DEF R!MayReturn, R!Other, Agent
  <2> QED
    BY <1>5, <1>6, <2>1, <2>2
<1>7. CASE Outcome = "none" /\ Return("draw")
  BY <1>3, <1>4, <1>5, <1>7 DEF R!MayReturn
<1>8. CASE Outcome = "none" /\ NextAttempt
  <2>1. /\ games' = <<>> /\ moves' = <<>> /\ UNCHANGED <<turnCount, reply, verdict, dropped>>
        /\ pc = "decide" /\ pc' = "create"
    BY <1>1, <1>8 DEF NextAttempt, engineVars, faultVars
  <2>2. SeenGames' = <<>> /\ SeenMoves' = <<>>
    BY <2>1 DEF SeenGames, SeenMoves
  <2>3. UNCHANGED <<SeenTurn, SeenLost, SeenStage>>
    BY <2>1 DEF SeenTurn, SeenLost, Lost, SeenStage
  <2> QED
    BY <1>2, <1>3, <1>4, <1>8, <2>1, <2>2, <2>3 DEF R!Rematch, R!workerVars
<1> QED
  BY <1>6, <1>7, <1>8 DEF Decide

LEMMA SeenStep ==
  RInv /\ MarksInv /\ [Next]_vars => [R!RowsNext]_(R!matchRowsVars)
<1> SUFFICES ASSUME RInv, MarksInv, [Next]_vars
             PROVE  [R!RowsNext]_(R!matchRowsVars)
  OBVIOUS
<1>1. CASE \/ StartRunners \/ (\E d \in Duration : Accept(d)) \/ Refuse \/ TimeOut \/ Crash \/ Overlong
           \/ AppendTurn \/ GameEnded \/ Close \/ RemoveImages \/ UNCHANGED vars
  BY <1>1, UnseenSteps
<1>2. CASE \/ \E a \in Agent : StartFails(a)
           \/ \E call \in {"create", "finish", "ended"} : pc = call /\ Fail(call)
  BY <1>2, ErrorSeen DEF R!RowsNext
<1>3. CASE CreateGame
  BY <1>3, CreateSeen DEF R!RowsNext
<1>4. CASE ProjectMove
  BY <1>4, ProjectSeen DEF R!RowsNext
<1>5. CASE FinishGame
  BY <1>5, FinishSeen DEF R!RowsNext
<1>6. CASE Decide
  BY <1>6, DecideSeen DEF R!RowsNext, R!Agent, Agent
<1> QED
  BY <1>1, <1>2, <1>3, <1>4, <1>5, <1>6 DEF Next

\* The worker writes the rows of its match in the order that MatchRows promises
\* to whoever reads them: every step of it is one of MatchRows, or changes
\* nothing that can be read.
THEOREM RowsInOrder == Spec => ImplementsRows
<1>1. Init => R!RowsInit
  BY SeenInit
<1>2. RInv /\ MarksInv /\ [Next]_vars => [R!RowsNext]_(R!matchRowsVars)
  BY SeenStep
<1> QED
  BY <1>1, <1>2, RowsInductive, EnoughMarks, PTL DEF Spec, ImplementsRows, R!RowsSpec
=============================================================================
