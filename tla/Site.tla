-------------------------------- MODULE Site --------------------------------
(***************************************************************************)
(* The pages of a match while the match is played: sessions (Sessions),    *)
(* the rows the worker writes (MatchRows), and the GET handlers between    *)
(* them. A page is made of several reads with any write in between; no     *)
(* transaction holds them together. Pages write nothing, so one at a time  *)
(* shows what any of them may see. The match is decided in one attempt:    *)
(* two more games for each earlier one are on its pages, finished.         *)
(***************************************************************************)
EXTENDS Sessions, MatchRows, ExecutionLog

CONSTANTS
  Owner,        \* the user whose agent is agent_a of the match
  Lines, Blocks \* bound: event lines and stderr blocks a log is made from

ASSUME SiteAssumption ==
  /\ Owner \in Email /\ Lines \subseteq Seq(Nat \ {0}) /\ Blocks \subseteq Seq(Nat)
  /\ A # B /\ {"open", "draw", "failed", "null"} \cap {A, B} = {} /\ Cells \in Nat \ {0}

VARIABLES
  page,  \* the page being made: its kind and game, the reads to do and done
  text,  \* execution_logs.content: what it is made from and what it shows
  load   \* bound: whether many sign in or a match is played; the two meet
         \* in the sessions only

siteVars == <<sessionsVars, matchRowsVars, page, text, load>>

Kind   == {"summary", "games", "replay", "logs", "practice"}
NoPage == [kind |-> "none", game |-> 1, todo |-> <<>>, seen |-> <<>>]
NoLog  == [lines |-> <<>>, blocks |-> <<>>, shown |-> NoText]

\* Slips: the rows that change first are read first.
ReadsBackwards(kind) ==
  CASE kind = "summary"  -> <<"games", "match">>
    [] kind = "games"    -> <<"games", "moves", "game">>
    [] kind = "replay"   -> <<"moves", "game">>
    [] kind = "logs"     -> <<"log">>
    [] kind = "practice" -> <<"match">>

\* The statements of each handler, in their order, as far as their rows change
\* while the match is played: those that do not are the owner and the agents.
Reads(kind) ==
  CASE kind = "summary"  -> <<"match", "games">>
    [] kind = "games"    -> <<"games", "game", "moves">>
    [] kind = "replay"   -> <<"game", "moves">>
    [] kind = "logs"     -> <<"log">>
    [] kind = "practice" -> <<"match">>

Read == {"match", "games", "game", "moves", "log"}

SiteTypeOK ==
  /\ SessionsTypeOK /\ RowsTypeOK
  /\ page.kind \in Kind \union {"none"} /\ page.game \in {1, 2}
  /\ page.todo \in Seq(Read) /\ DOMAIN page.seen \subseteq Read
  /\ text.shown.pieces <= Len(text.lines) + Len(text.blocks)
  /\ load \in {"sign_in", "match"}

SiteInit ==
  /\ RowsInit /\ page = NoPage /\ text = NoLog
  /\ \/ load = "sign_in" /\ SessionsInit({Owner})
     \/ /\ load = "match"
        /\ users = {Owner}
        /\ \E i \in SessionId :
             /\ sessions = [j \in SessionId |-> IF j = i THEN SessionRow(Owner, TTL) ELSE Unused]
             /\ cookies = {i}
        /\ failures = [e \in Email |-> NoFailures] /\ tally = [e \in Email |-> 0]
        /\ login = [h \in Handler |-> Idle]

-----------------------------------------------------------------------------
(* The pages                                                               *)

\* Only agent_a's owner may: system agents have none who signs in.
UserCanViewMatch(u) == u = Owner

\* RequireLogin, and authorized; for anybody else the match does not exist.
Get(kind, i, g) ==
  /\ load = "match" /\ page = NoPage
  /\ i \in cookies /\ Live(i) /\ UserCanViewMatch(sessions[i].user)
  /\ IF kind = "replay" THEN g \in DOMAIN games ELSE g = 1
  /\ page' = [kind |-> kind, game |-> g, todo |-> Reads(kind), seen |-> <<>>]
  /\ UNCHANGED <<sessionsVars, matchRowsVars, text, load>>

Select(read) == CASE read = "match" -> match
                  [] read = "games" -> games
                  [] read = "game"  -> games[page.game]
                  [] read = "moves" -> moves[page.game]
                  [] read = "log"   -> [status |-> log, text |-> text]

\* A handler keeps what a statement has given it.
Keep(seen, read, rows) ==
  [r \in DOMAIN seen \union {read} |-> IF r = read THEN rows ELSE seen[r]]

\* The games page shows the first game if there is one.
ReadNext ==
  /\ page.todo # <<>>
  /\ LET read == Head(page.todo)
     IN  page' = [page EXCEPT
                    !.seen = Keep(@, read, Select(read)),
                    !.todo = IF page.kind = "games" /\ games = <<>> THEN <<>> ELSE Tail(@)]
  /\ UNCHANGED <<sessionsVars, matchRowsVars, text, load>>

Made(kind) == page.kind = kind /\ page.todo = <<>>

Respond == /\ page # NoPage /\ page.todo = <<>>
           /\ page' = NoPage
           /\ UNCHANGED <<sessionsVars, matchRowsVars, text, load>>

\* What the pages say.
ResultLabel(r) == CASE r = "player_a_win" -> "Black wins"
                    [] r = "player_b_win" -> "White wins"
                    [] r = "draw"         -> "Draw"
                    [] OTHER              -> "Failed"

MatchOutcome(m) == IF m.status = "failed" THEN "failed"
                   ELSE IF m.status = "running" THEN ""
                   ELSE IF m.winner = "null" THEN "draw"
                   ELSE IF m.winner = A THEN "win" ELSE "loss"

\* In the list of the practice page, seen from the user's own agent.
PracticeOutcome(m) == IF m.status = "failed" THEN "Failed"
                      ELSE IF m.status = "running" THEN "-"
                      ELSE IF m.winner = "null" THEN "Draw"
                      ELSE IF m.winner = A THEN "Win" ELSE "Loss"

GameRow(r) == [label |-> ResultLabel(r.result), black |-> r.first,
               white |-> Other(r.first), moves |-> r.count]

\* ORDER BY seq.
InOrder(ms) == [i \in 1..Cardinality(ms) |->
                  CHOOSE x \in ms : Cardinality({y \in ms : y.seq <= x.seq}) = i]

\* The moves, each with the mark of its player.
GameView(r, ms) ==
  [label |-> ResultLabel(r.result),
   moves |-> LET rows == InOrder(ms)
             IN  [i \in DOMAIN rows |->
                    [mark     |-> IF rows[i].agent = r.first THEN "B" ELSE "W",
                     accepted |-> rows[i].accepted]]]

-----------------------------------------------------------------------------
(* The worker and the process                                              *)

WriteRows == \/ CreateGame \/ (\E b \in BOOLEAN : Turn(b)) \/ FinishGame
          \/ (\E v \in Agent \union {"draw"} : Return(v)) \/ ReturnError
          \/ Settle

WorkerStep ==
  /\ load = "match"
  /\ \/ WriteRows /\ UNCHANGED text
     \/ /\ RenderLog
        /\ IF log' = log THEN UNCHANGED text
           ELSE \E ls \in Lines, bs \in Blocks :
                  text' = [lines |-> ls, blocks |-> bs, shown |-> RenderExecutionLog(ls, bs)]
  /\ UNCHANGED <<sessionsVars, page, load>>

AccountStep ==
  /\ \/ load = "sign_in" /\ (SignInStep \/ (\E e \in Email : SignUp(e)) \/ Tick)
     \/ \E i \in SessionId : SignOut(i)
  /\ UNCHANGED <<matchRowsVars, page, text, load>>

\* The process dies and is started again: the worker and the page are gone.
Restart == /\ StartProcess
           /\ stage' = "done" /\ page' = NoPage
           /\ UNCHANGED <<rowVars, turn, lost, verdict, dropped, text, load>>

SiteNext == \/ AccountStep
            \/ (\E k \in Kind, i \in SessionId, g \in {1, 2} : Get(k, i, g))
            \/ ReadNext \/ Respond
            \/ WorkerStep \/ Restart

SiteSpec == SiteInit /\ [][SiteNext]_siteVars

-----------------------------------------------------------------------------
(* Properties                                                              *)

WonBy(rows, a) ==
  Cardinality({g \in DOMAIN rows : \/ rows[g].label = "Black wins" /\ rows[g].black = a
                                   \/ rows[g].label = "White wins" /\ rows[g].white = a})

\* A summary that names an outcome lists both games with results that allow
\* it; when the match failed or still runs only the last game may be without.
\* The page labels that one "Failed" in either case, also while it is played,
\* although us-005 wants labels that "match stored `Game.result`".
SummaryAgrees ==
  Made("summary") =>
    LET o    == MatchOutcome(page.seen.match)
        rows == [g \in DOMAIN page.seen.games |-> GameRow(page.seen.games[g])]
        a == WonBy(rows, A)
        b == WonBy(rows, B)
    IN  /\ o \in {"win", "loss", "draw"} =>
             Len(rows) = 2 /\ \A g \in 1..2 : rows[g].label # "Failed"
        /\ o = "win"  => a >= b
        /\ o = "loss" => b >= a
        /\ o = "draw" => a = b
        /\ o \in {"failed", ""} => \A g \in 1..(Len(rows) - 1) : rows[g].label # "Failed"

\* A replay with a result has all the moves of it, in turns, and the last one
\* explains it: it won, filled the board, or was refused and lost the game.
ViewAgrees(row, view) ==
  LET last == view.moves[Len(view.moves)]
      Victory(mark) == IF mark = "B" THEN "Black wins" ELSE "White wins"
  IN  /\ \A i \in DOMAIN view.moves : view.moves[i].mark = IF i % 2 = 1 THEN "B" ELSE "W"
      /\ view.label # "Failed" =>
           /\ view.moves # <<>>
           /\ row.moves = Cardinality({i \in DOMAIN view.moves : view.moves[i].accepted})
           /\ IF last.accepted THEN view.label \in {"Draw", Victory(last.mark)}
              ELSE view.label = Victory(IF last.mark = "B" THEN "W" ELSE "B")

\* The first tab of the games page is not ahead of the game it shows.
GamesAgree ==
  /\ \/ Made("replay")
     \/ Made("games") /\ page.seen.games # <<>>
     => LET view == GameView(page.seen.game, page.seen.moves)
        IN  ~dropped => ViewAgrees(GameRow(page.seen.game), view)
  /\ Made("games") /\ page.seen.games # <<>> =>
       \/ page.seen.games[1].result = ""
       \/ GameRow(page.seen.games[1]) = GameRow(page.seen.game)

\* A log that is shown is that of a match whose row says so, is within its
\* limit but for the markers, and has a marker if and only if it lacks a line
\* or a block. The marker need not be the end of it, as ADR-003 has it ("stop
\* appending and embed the truncation marker"): blocks may follow the events'.
LogsAgree ==
  Made("logs") /\ page.seen.log.status # "none" =>
    LET t == page.seen.log.text
        all == Len(t.lines) + Cardinality({i \in DOMAIN t.blocks : t.blocks[i] > 0})
    IN  /\ page.seen.log.status = match.status
        /\ ~dropped => match.status # "running"
        /\ t.shown.marks = 0 <=> t.shown.pieces = all
        /\ MaxBytes > 0 => t.shown.len - t.shown.marks * MarkerLen <= MaxBytes

\* An outcome in the list is that of the match from then on.
ListAgrees ==
  Made("practice") => PracticeOutcome(page.seen.match) \in {"-", PracticeOutcome(match)}

\* What the parts of a page say of outcomes, finished games, logs and the list
\* fits together, whatever the worker wrote between the reads. The label of a
\* game in progress is left out: see SummaryAgrees.
PagesAgree == SummaryAgrees /\ GamesAgree /\ LogsAgree /\ ListAgrees
=============================================================================
