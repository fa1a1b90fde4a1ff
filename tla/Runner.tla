------------------------------- MODULE Runner -------------------------------
(***************************************************************************)
(* A bot in a process or a container and the runner that asks it for       *)
(* moves. Each Move writes the state to the bot's stdin and starts a       *)
(* goroutine that reads one line; Move waits for its line or for the       *)
(* timeout, whichever select picks. Nothing ties a line to a state: the    *)
(* runner takes the lines in the order of printing.                        *)
(*                                                                         *)
(* ProcessRunner and ContainerRunner share their Move. What is between the *)
(* bot and the buffered reader (a pipe, or a connection, a copying         *)
(* goroutine and a pipe) keeps lines in order and is one sequence here.    *)
(***************************************************************************)
EXTENDS Naturals, Sequences, FiniteSets

CONSTANTS
  MaxMoves,   \* bound: calls of Move
  MaxLines    \* bound: lines the bot prints between reading two states

ASSUME RunnerAssumption == MaxMoves \in Nat /\ MaxLines \in Nat

VARIABLES
  \* the runner
  pc,        \* "start", "idle", "write", "select" or "closed"
  move,      \* the number of the current or last Move
  open,      \* stdin (attach, of a container) can be written
  readers,   \* the moves whose goroutine is in ReadString
  ch,        \* [move -> its channel, with what the goroutine has sent]
  answer,    \* what the last Move returned
  \* the bot
  bot,       \* "none", "created" (container only), "running" or "exited"
  stdin,     \* states it has not read
  seen,      \* the last state it has read, or 0
  stdout,    \* lines not yet read by the runner
  \* history
  printed,   \* [state -> lines printed after reading it and before the next]
  taken      \* pairs of a move and the state its line was printed for

runnerVars == <<pc, move, open, readers, ch, answer>>
botVars    == <<bot, stdin, seen, stdout>>
vars == <<runnerVars, botVars, printed, taken>>

MoveNo  == 1..MaxMoves
State   == 0..MaxMoves
BotLine == [state : State, type : {"line", "too_long"}]
EOF     == [state |-> 0, type |-> "eof"]

\* The current Move's line is there.
HasLine == ch[move] # <<>> /\ ch[move] # <<EOF>>

TypeOK ==
  /\ pc \in {"start", "idle", "write", "select", "closed"}
  /\ move \in 0..MaxMoves /\ open \in BOOLEAN /\ readers \subseteq MoveNo
  /\ ch \in [MoveNo -> Seq(BotLine \union {EOF})]
  /\ \A n \in MoveNo : Len(ch[n]) <= 1        \* make(chan readResult, 1)
  /\ answer \in {"none", "line", "too_long", "timeout", "error"}
  /\ bot \in {"none", "created", "running", "exited"}
  /\ stdin \in Seq(MoveNo) /\ seen \in State /\ stdout \in Seq(BotLine)
  /\ printed \in [State -> 0..MaxLines]
  /\ taken \subseteq MoveNo \X State

Init ==
  /\ pc = "start" /\ move = 0 /\ open = FALSE /\ readers = {}
  /\ ch = [n \in MoveNo |-> <<>>] /\ answer = "none"
  /\ bot = "none" /\ stdin = <<>> /\ seen = 0 /\ stdout = <<>>
  /\ printed = [s \in State |-> 0]
  /\ taken = {}

-----------------------------------------------------------------------------
(* The runner                                                              *)

Start == /\ pc = "start"
         /\ pc' = "idle" /\ open' = TRUE /\ bot' = "running"
         /\ UNCHANGED <<move, readers, ch, answer, stdin, seen, stdout, printed, taken>>

\* A container may have been created when attach or start fail. Nobody closes
\* a runner that did not start.
StartFails == /\ pc = "start"
              /\ pc' = "closed" /\ bot' \in {"none", "created"}
              /\ UNCHANGED <<move, open, readers, ch, answer, stdin, seen, stdout,
                             printed, taken>>

Call == /\ pc = "idle" /\ move < MaxMoves
        /\ move' = move + 1
        /\ pc' = "write"
        /\ UNCHANGED <<open, readers, ch, answer, botVars, printed, taken>>

\* Slip: whether the stream is still there is not looked at.
WriteAnyway == /\ pc = "write"
               /\ stdin' = Append(stdin, move)
               /\ readers' = readers \union {move}
               /\ pc' = "select"
               /\ UNCHANGED <<move, open, ch, answer, bot, seen, stdout, printed, taken>>

Write == /\ pc = "write" /\ open
         /\ stdin' = Append(stdin, move)
         /\ readers' = readers \union {move}
         /\ pc' = "select"
         /\ UNCHANGED <<move, open, ch, answer, bot, seen, stdout, printed, taken>>

\* The stream is closed, or breaks because nobody reads the other end: of a
\* container that may be noticed late. It stays broken.
WriteFails == /\ pc = "write" /\ (open => bot = "exited")
              /\ open' = FALSE
              /\ answer' = "error"
              /\ pc' = "idle"
              /\ UNCHANGED <<move, readers, ch, botVars, printed, taken>>

Return == /\ pc = "select" /\ ch[move] # <<>>
          /\ \/ /\ HasLine
                /\ answer' = ch[move][1].type
                /\ taken' = taken \union {<<move, ch[move][1].state>>}
             \/ /\ ~HasLine
                /\ answer' = "error"
                /\ UNCHANGED taken
          /\ pc' = "idle"
          /\ UNCHANGED <<move, open, readers, ch, botVars, printed>>

\* Close kills the process. Stopping a container may fail, and the error is
\* discarded.
Kill == bot' \in {"exited", bot}

\* Slip: the bot is given up for this turn only.
GiveUp == /\ pc = "select"
          /\ answer' = "timeout"
          /\ pc' = "idle"
          /\ UNCHANGED <<move, open, readers, ch, botVars, printed, taken>>

\* The goroutine is left behind; its channel has room for its line.
TimeOut == /\ pc = "select"
           /\ open' = FALSE /\ Kill
           /\ answer' = "timeout"
           /\ pc' = "idle"
           /\ UNCHANGED <<move, readers, ch, stdin, seen, stdout, printed, taken>>

\* The deferred Close at the end of the match.
Close == /\ pc = "idle"
         /\ open' = FALSE /\ Kill
         /\ pc' = "closed"
         /\ UNCHANGED <<move, readers, ch, answer, stdin, seen, stdout, printed, taken>>

\* Slip: the goroutine goes on reading.
ReadOn(n) == /\ n \in readers /\ stdout # <<>>
             /\ ch' = [ch EXCEPT ![n] = Append(@, Head(stdout))]
             /\ stdout' = Tail(stdout)
             /\ UNCHANGED <<pc, move, open, readers, answer, bot, stdin, seen, printed, taken>>

\* The goroutine of move n: ReadString, then the send.
ReadLine(n) == /\ n \in readers /\ stdout # <<>>
               /\ ch' = [ch EXCEPT ![n] = Append(@, Head(stdout))]
               /\ stdout' = Tail(stdout)
               /\ readers' = readers \ {n}
               /\ UNCHANGED <<pc, move, open, answer, bot, stdin, seen, printed, taken>>

ReadEOF(n) == /\ n \in readers /\ stdout = <<>> /\ bot = "exited"
              /\ ch' = [ch EXCEPT ![n] = Append(@, EOF)]
              /\ readers' = readers \ {n}
              /\ UNCHANGED <<pc, move, open, answer, botVars, printed, taken>>

-----------------------------------------------------------------------------
(* The bot: any program                                                    *)

BotReads == /\ bot = "running" /\ stdin # <<>>
            /\ seen' = Head(stdin)
            /\ stdin' = Tail(stdin)
            /\ UNCHANGED <<runnerVars, bot, stdout, printed, taken>>

BotPrints(type) ==
  /\ bot = "running" /\ printed[seen] < MaxLines
  /\ stdout' = Append(stdout, [state |-> seen, type |-> type])
  /\ printed' = [printed EXCEPT ![seen] = @ + 1]
  /\ UNCHANGED <<runnerVars, bot, stdin, seen, taken>>

BotExits == /\ bot = "running"
            /\ bot' = "exited"
            /\ UNCHANGED <<runnerVars, stdin, seen, stdout, printed, taken>>

Next == \/ Start \/ StartFails \/ Close
        \/ Call \/ Write \/ WriteFails \/ Return \/ TimeOut
        \/ \E n \in MoveNo : ReadLine(n) \/ ReadEOF(n)
        \/ BotReads \/ BotPrints("line") \/ BotPrints("too_long") \/ BotExits

Spec == Init /\ [][Next]_vars

-----------------------------------------------------------------------------
(* Properties                                                              *)

\* Two goroutines are never in ReadString of the same buffered reader, which
\* is not made for that: the one a timeout leaves behind stays alone.
OneReader == Cardinality(readers) <= 1

\* The bot answers each state it has read with at most one line, and prints
\* nothing before the first.
Polite == printed[0] = 0 /\ \A s \in MoveNo : printed[s] <= 1

Fresh == \A t \in taken : t[2] = t[1]

\* A bot that keeps to the protocol is never taken at its word for another
\* state, even if it is slow, times out or dies.
PoliteIsFresh == Polite => Fresh

\* Move will not return a line again: the stream is closed, or the bot has ended
\* and all it printed was taken.
Lost == \/ pc # "start" /\ ~open
        \/ bot = "exited" /\ stdout = <<>> /\ ~(pc = "select" /\ HasLine)

Contract == INSTANCE AgentRunner WITH lost <- Lost

\* To its caller the runner is an AgentRunner: once the bot is lost, no line
\* that was printed before or after comes through.
ImplementsAgentRunner == Contract!ASpec

\* What the documentation says and the code does not do.

\* "Per turn ... the bot must print exactly one line (first line wins)"
\* (SPECS, 14.3): what else it prints for a state is no answer to another.
FirstLineWins == \A t, u \in taken : t[2] = u[2] /\ t[2] # 0 => t = u
=============================================================================
