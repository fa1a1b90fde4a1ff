---------------------------- MODULE RunnerProofs ----------------------------
(***************************************************************************)
(* Theorems about Runner, for every number of calls and of lines a bot may *)
(* print: the goroutines that read, what the caller sees, and that a bot   *)
(* which keeps to the protocol runs in step with its runner.               *)
(***************************************************************************)
EXTENDS Runner, FiniteSetTheorems, TLAPS

-----------------------------------------------------------------------------
(* The inductive invariant                                                 *)

Type ==
  /\ pc \in {"start", "idle", "write", "select", "closed"}
  /\ move \in 0..MaxMoves /\ open \in BOOLEAN /\ readers \subseteq MoveNo
  /\ ch \in [MoveNo -> Seq(BotLine \union {EOF})]
  /\ answer \in {"none", "line", "too_long", "timeout", "error"}
  /\ bot \in {"none", "created", "running", "exited"}
  /\ stdin \in Seq(MoveNo) /\ seen \in State /\ stdout \in Seq(BotLine)
  /\ printed \in [State -> 0..MaxLines]
  /\ taken \subseteq MoveNo \X State

\* While the stream is open only the current Move has a goroutine, and only
\* until its result is there. Once it is closed one may be left behind.
ReaderInv ==
  /\ pc \in {"write", "select"} => move \in MoveNo
  /\ pc = "select" => open
  /\ open => readers \subseteq (IF pc = "select" THEN {move} ELSE {})
  /\ \A m, n \in readers : m = n
  /\ \A n \in readers : n <= move /\ ch[n] = <<>> /\ (pc = "write" => n # move)
  /\ \A n \in MoveNo : n > move \/ (n = move /\ pc = "write") => ch[n] = <<>>

\* The result of a goroutine: one line, or the end of the output for good.
ChannelInv ==
  \A n \in MoveNo :
    \/ ch[n] = <<>>
    \/ \E l \in BotLine : ch[n] = <<l>>
    \/ ch[n] = <<EOF>> /\ bot = "exited" /\ stdout = <<>>

StartInv == pc = "start" => /\ move = 0 /\ ~open /\ readers = {}
                            /\ bot = "none" /\ seen = 0
                            /\ stdin = <<>> /\ stdout = <<>> /\ taken = {}
                            /\ printed = [s \in State |-> 0]

RInv == Type /\ ReaderInv /\ ChannelInv /\ StartInv

-----------------------------------------------------------------------------
(* A polite bot runs in step with its runner as long as the stream is      *)
(* open: there is at most one line under way, and it answers the current   *)
(* Move.                                                                   *)

Answered(s) == s = 0 \/ printed[s] = 1

\* The bot waits for the state of the current Move, having answered the last.
Behind == /\ move > 0 /\ seen = move - 1
          /\ Answered(seen)
          /\ \/ pc = "write"  /\ stdin = <<>>
             \/ pc = "select" /\ stdin = <<move>>
          /\ stdout = <<>>
          /\ pc = "select" => ch[move] = <<>>

\* The bot has read the last state.
Level == /\ seen = move
         /\ stdin = <<>>
         /\ \/ pc = "idle" /\ Answered(seen)
            \/ /\ pc = "select"
               /\ printed[move] = 0 => stdout = <<>> /\ ch[move] = <<>>

Lockstep ==
  /\ pc # "select" => stdout = <<>>
  /\ pc = "select" =>
       /\ \/ stdout = <<>>
          \/ ch[move] = <<>> /\ \E l \in BotLine : stdout = <<l>> /\ l.state = move
       /\ \A l \in BotLine : ch[move] = <<l>> => l.state = move
  /\ bot = "running" => /\ Behind \/ Level
                        /\ \A s \in State : s > seen => printed[s] = 0

FreshInv == Polite => Fresh /\ (open => Lockstep)

-----------------------------------------------------------------------------
(* Sequences of at most one element                                        *)

LEMMA EmptySeq ==
  ASSUME NEW S, NEW e \in S
  PROVE  Append(<<>>, e) = <<e>> /\ <<e>> \in Seq(S) /\ <<e>> # <<>>
  BY SMT

LEMMA Singleton ==
  ASSUME NEW e
  PROVE  Head(<<e>>) = e /\ Tail(<<e>>) = <<>> /\ <<e>>[1] = e /\ <<e>> # <<>>
  BY SMT

LEMMA Appended ==
  ASSUME NEW S, NEW s \in Seq(S), NEW e \in S
  PROVE  Append(s, e) \in Seq(S)
  BY SMT

LEMMA HeadTail ==
  ASSUME NEW S, NEW s \in Seq(S), s # <<>>
  PROVE  Head(s) \in S /\ Tail(s) \in Seq(S)
  BY SMT

LEMMA SingletonEq == ASSUME NEW d, NEW e, <<d>> = <<e>> PROVE d = e
  BY SMT

LEMMA EOFIsNoLine == EOF \notin BotLine
  BY SMT DEF EOF, BotLine

LEMMA Numbers == MaxMoves \in Nat /\ MaxLines \in Nat
  BY RunnerAssumption DEF RunnerAssumption

-----------------------------------------------------------------------------
(* The invariant holds at the start and is preserved by every action.      *)

LEMMA InvInit == Init => RInv
  BY Numbers, SMT DEF Init, RInv, Type, ReaderInv, ChannelInv, StartInv, MoveNo, State

LEMMA TypeStep == RInv /\ [Next]_vars => Type'
  <1> SUFFICES ASSUME RInv, [Next]_vars PROVE Type'
      OBVIOUS
  <1> USE Numbers DEF RInv, Type, State, MoveNo
  <1>1. CASE Start
        BY <1>1 DEF Start
  <1>2. CASE StartFails
        BY <1>2 DEF StartFails
  <1>3. CASE Close
        BY <1>3 DEF Close, Kill
  <1>4. CASE Call
        BY <1>4 DEF Call, botVars
  <1>5. CASE Write
        <2>1. move \in MoveNo
              BY <1>5 DEF Write, ReaderInv
        <2>2. Append(stdin, move) \in Seq(MoveNo)
              BY <2>1, Appended
        <2>q. QED BY <1>5, <2>1, <2>2 DEF Write
  <1>6. CASE WriteFails
        BY <1>6 DEF WriteFails, botVars
  <1>7. CASE Return
        <2>1. answer' \in {"line", "too_long", "error"}
              BY <1>7, Singleton, EOFIsNoLine DEF Return, HasLine, ReaderInv, ChannelInv, BotLine
        <2>2. taken' \subseteq MoveNo \X State
              BY <1>7, Singleton, EOFIsNoLine DEF Return, HasLine, ReaderInv, ChannelInv, BotLine
        <2>q. QED BY <1>7, <2>1, <2>2 DEF Return, botVars
  <1>8. CASE TimeOut
        BY <1>8 DEF TimeOut, Kill
  <1>9. ASSUME NEW n \in MoveNo, ReadLine(n) PROVE Type'
        <2>1. Head(stdout) \in BotLine /\ Tail(stdout) \in Seq(BotLine)
              BY <1>9, HeadTail DEF ReadLine
        <2>2. ch[n] = <<>>
              BY <1>9 DEF ReadLine, ReaderInv
        <2>3. Append(ch[n], Head(stdout)) \in Seq(BotLine \union {EOF})
              BY <2>1, <2>2, EmptySeq
        <2>q. QED BY <1>9, <2>1, <2>3 DEF ReadLine
  <1>10. ASSUME NEW n \in MoveNo, ReadEOF(n) PROVE Type'
        <2>1. ch[n] = <<>>
              BY <1>10 DEF ReadEOF, ReaderInv
        <2>2. Append(ch[n], EOF) \in Seq(BotLine \union {EOF})
              BY <2>1, EmptySeq
        <2>q. QED BY <1>10, <2>2 DEF ReadEOF, botVars
  <1>11. CASE BotReads
        <2>1. Head(stdin) \in MoveNo /\ Tail(stdin) \in Seq(MoveNo)
              BY <1>11, HeadTail DEF BotReads
        <2>2. stdin' \in Seq(MoveNo) /\ seen' \in State
              BY <1>11, <2>1 DEF BotReads
        <2>q. QED BY <1>11, <2>2, Zenon DEF BotReads, runnerVars
  <1>12. ASSUME NEW t \in {"line", "too_long"}, BotPrints(t) PROVE Type'
        <2>1. [state |-> seen, type |-> t] \in BotLine
              BY DEF BotLine
        <2>2. Append(stdout, [state |-> seen, type |-> t]) \in Seq(BotLine)
              BY <2>1, Appended
        <2>3. printed' \in [State -> 0..MaxLines]
              BY <1>12 DEF BotPrints
        <2>q. QED BY <1>12, <2>2, <2>3, Zenon DEF BotPrints, runnerVars
  <1>13. CASE BotExits
        BY <1>13 DEF BotExits, runnerVars
  <1>14. CASE UNCHANGED vars
        BY <1>14 DEF vars, runnerVars, botVars
  <1>q. QED BY <1>1, <1>2, <1>3, <1>4, <1>5, <1>6, <1>7, <1>8, <1>9, <1>10, <1>11,
              <1>12, <1>13, <1>14 DEF Next

LEMMA ReaderStep == RInv /\ [Next]_vars => ReaderInv'
  <1> SUFFICES ASSUME RInv, [Next]_vars PROVE ReaderInv'
      OBVIOUS
  <1> USE Numbers DEF RInv, Type, MoveNo, ReaderInv
  <1>1. CASE Start
        BY <1>1 DEF Start, StartInv
  <1>2. CASE StartFails
        BY <1>2 DEF StartFails, StartInv
  <1>3. CASE Close
        BY <1>3 DEF Close, Kill
  <1>4. CASE Call
        BY <1>4 DEF Call, botVars
  <1>5. CASE Write
        <2>1. /\ pc = "write" /\ pc' = "select" /\ UNCHANGED <<move, open, ch>>
              /\ readers' = readers \union {move}
              BY <1>5 DEF Write
        <2>2. readers' = {move} /\ move \in MoveNo /\ open
              BY <1>5, <2>1 DEF Write
        <2>3. ch[move] = <<>>
              BY <2>1, <2>2
        <2>q. QED BY <2>1, <2>2, <2>3
  <1>6. CASE WriteFails
        BY <1>6 DEF WriteFails, botVars
  <1>7. CASE Return
        BY <1>7 DEF Return, botVars
  <1>8. CASE TimeOut
        BY <1>8 DEF TimeOut, Kill
  <1>9. ASSUME NEW n \in MoveNo, ReadLine(n) \/ ReadEOF(n) PROVE ReaderInv'
        <2>1. /\ n \in readers /\ readers' = {}
              /\ UNCHANGED <<pc, move, open>>
              /\ \A m \in MoveNo : m # n => ch'[m] = ch[m]
              BY <1>9 DEF ReadLine, ReadEOF
        <2>2. n <= move /\ ~(pc = "write" /\ n = move)
              BY <2>1
        <2>q. QED BY <2>1, <2>2
  <1>10. ASSUME UNCHANGED <<pc, move, open, readers, ch>> PROVE ReaderInv'
        BY <1>10
  <1>11. CASE BotReads \/ BotExits \/ \E t \in {"line", "too_long"} : BotPrints(t)
        BY <1>10, <1>11 DEF BotReads, BotExits, BotPrints, runnerVars
  <1>12. CASE UNCHANGED vars
        BY <1>10, <1>12 DEF vars, runnerVars
  <1>q. QED BY <1>1, <1>2, <1>3, <1>4, <1>5, <1>6, <1>7, <1>8, <1>9, <1>11, <1>12 DEF Next

LEMMA ChannelStep == RInv /\ [Next]_vars => ChannelInv'
  <1> SUFFICES ASSUME RInv, [Next]_vars PROVE ChannelInv'
      OBVIOUS
  <1>0. ASSUME ch' = ch, bot = "exited" => bot' = "exited" /\ (stdout = <<>> => stdout' = <<>>)
        PROVE  ChannelInv'
        BY <1>0, Zenon DEF RInv, ChannelInv
  <1>1. CASE Start \/ StartFails
        BY <1>0, <1>1 DEF Start, StartFails, RInv, StartInv
  <1>2. CASE Close \/ TimeOut
        BY <1>0, <1>2 DEF Close, TimeOut, Kill
  <1>3. CASE Call \/ Write \/ WriteFails \/ Return
        BY <1>0, <1>3 DEF Call, Write, WriteFails, Return, botVars
  <1>4. ASSUME NEW k \in MoveNo, ReadLine(k) PROVE ChannelInv'
        <2>1. ch[k] = <<>> /\ Head(stdout) \in BotLine
              BY <1>4, HeadTail DEF ReadLine, RInv, ReaderInv, Type
        <2>2. Append(ch[k], Head(stdout)) = <<Head(stdout)>>
              BY <2>1, EmptySeq
        <2>3. ch'[k] = <<Head(stdout)>> /\ \A m \in MoveNo : m # k => ch'[m] = ch[m]
              BY <1>4, <2>2 DEF ReadLine, RInv, Type
        <2>4. stdout # <<>>
              BY <1>4 DEF ReadLine
        <2>q. QED BY <2>1, <2>3, <2>4, Zenon DEF RInv, ChannelInv
  <1>5. ASSUME NEW k \in MoveNo, ReadEOF(k) PROVE ChannelInv'
        <2>1. ch[k] = <<>>
              BY <1>5 DEF ReadEOF, RInv, ReaderInv
        <2>2. Append(ch[k], EOF) = <<EOF>>
              BY <2>1, EmptySeq
        <2>3. ch'[k] = <<EOF>> /\ \A m \in MoveNo : m # k => ch'[m] = ch[m]
              BY <1>5, <2>2 DEF ReadEOF, RInv, Type
        <2>4. bot' = "exited" /\ stdout' = <<>>
              BY <1>5 DEF ReadEOF, botVars
        <2>5. bot = "exited" /\ stdout = <<>>
              BY <1>5 DEF ReadEOF
        <2>q. QED BY <2>3, <2>4, <2>5, Zenon DEF RInv, ChannelInv
  <1>6. CASE BotReads \/ BotExits \/ \E t \in {"line", "too_long"} : BotPrints(t)
        BY <1>0, <1>6 DEF BotReads, BotExits, BotPrints, runnerVars
  <1>7. CASE UNCHANGED vars
        BY <1>0, <1>7 DEF vars, runnerVars, botVars
  <1>q. QED BY <1>1, <1>2, <1>3, <1>4, <1>5, <1>6, <1>7 DEF Next

LEMMA StartStep == RInv /\ [Next]_vars => StartInv'
  <1> SUFFICES ASSUME RInv, [Next]_vars, pc' = "start" PROVE StartInv'
      BY DEF StartInv
  <1> USE DEF RInv, StartInv
  <1>1. CASE \E n \in MoveNo : ReadLine(n) \/ ReadEOF(n)
        BY <1>1 DEF ReadLine, ReadEOF
  <1>2. CASE BotReads \/ BotExits \/ \E t \in {"line", "too_long"} : BotPrints(t)
        BY <1>2 DEF BotReads, BotExits, BotPrints, runnerVars
  <1>3. CASE UNCHANGED vars
        BY <1>3 DEF vars, runnerVars, botVars
  <1>q. QED BY <1>1, <1>2, <1>3
            DEF Next, Start, StartFails, Close, Call, Write, WriteFails, Return, TimeOut

\* The invariant of the runner: readers, channels and what is true at the start.
THEOREM Inductive == Spec => []RInv
  <1>1. RInv /\ [Next]_vars => RInv'
        BY TypeStep, ReaderStep, ChannelStep, StartStep DEF RInv
  <1>q. QED BY InvInit, <1>1, PTL DEF Spec

\* Types, and that a channel never holds more than the one result it has room
\* for: no goroutine blocks in its send.
THEOREM TypeCorrect == Spec => []TypeOK
  <1>1. RInv => TypeOK
        <2> SUFFICES ASSUME RInv PROVE TypeOK
            OBVIOUS
        <2>1. ASSUME NEW n \in MoveNo PROVE Len(ch[n]) <= 1
              <3>1. ch[n] = <<>> \/ (\E l \in BotLine : ch[n] = <<l>>) \/ ch[n] = <<EOF>>
                    BY Zenon DEF RInv, ChannelInv
              <3>2. CASE ch[n] = <<>>
                    BY <3>2
              <3>3. ASSUME NEW e, ch[n] = <<e>> PROVE Len(ch[n]) <= 1
                    BY <3>3
              <3>q. QED BY <3>1, <3>2, <3>3, Zenon
        <2>q. QED BY <2>1 DEF RInv, Type, TypeOK
  <1>q. QED BY Inductive, <1>1, PTL

\* The goroutine that a timeout leaves behind stays alone in ReadString.
THEOREM Readers == Spec => []OneReader
  <1>1. RInv => OneReader
        <2> SUFFICES ASSUME RInv PROVE Cardinality(readers) <= 1
            BY DEF OneReader
        <2>1. \A m, n \in readers : m = n
              BY DEF RInv, ReaderInv
        <2>2. CASE readers = {}
              BY <2>2, FS_EmptySet
        <2>3. CASE readers # {}
              <3>1. PICK n \in readers : TRUE
                    BY <2>3
              <3>2. readers = {n}
                    BY <2>1, <3>1
              <3>q. QED BY <3>2, FS_Singleton
        <2>q. QED BY <2>2, <2>3
  <1>q. QED BY Inductive, <1>1, PTL

-----------------------------------------------------------------------------
(* To the caller                                                           *)

LEMMA LostStart == Init => Contract!AInit
  BY DEF Init, Contract!AInit, Lost

\* What is in the channel of the current Move.
LEMMA InChannel ==
  ASSUME RInv, move \in MoveNo
  PROVE  /\ HasLine <=> \E l \in BotLine : ch[move] = <<l>>
         /\ HasLine => ch[move][1] \in BotLine
         /\ ch[move] # <<>> /\ ~HasLine => bot = "exited" /\ stdout = <<>>
  <1>1. ASSUME NEW l \in BotLine PROVE <<l>> # <<EOF>> /\ <<l>> # <<>> /\ <<l>>[1] = l
        BY EOFIsNoLine, SingletonEq, Singleton
  <1>2. \/ ch[move] = <<>>
        \/ \E l \in BotLine : ch[move] = <<l>>
        \/ ch[move] = <<EOF>> /\ bot = "exited" /\ stdout = <<>>
        BY Zenon DEF RInv, ChannelInv
  <1>q. QED BY <1>1, <1>2, Zenon DEF HasLine

LEMMA ContractStep == RInv /\ RInv' /\ [Next]_vars => [Contract!ANext]_(Contract!avars)
  <1> SUFFICES ASSUME RInv, RInv', [Next]_vars
               PROVE  Contract!ANext \/ UNCHANGED <<answer, Lost>>
      BY DEF Contract!avars
  <1>a. ASSUME answer' = answer, Lost => Lost'
        PROVE  Contract!ANext \/ UNCHANGED <<answer, Lost>>
        <2>1. Lost \in BOOLEAN /\ Lost' \in BOOLEAN
              BY DEF Lost
        <2>2. Lost' = TRUE \/ Lost' = Lost
              BY <1>a, <2>1
        <2>q. QED BY <1>a, <2>2 DEF Contract!ANext, Contract!Loss
  <1>1. CASE Start
        BY <1>1, <1>a DEF Start, Lost, RInv, StartInv
  <1>2. CASE StartFails
        BY <1>2, <1>a DEF StartFails, Lost, RInv, StartInv
  <1>3. CASE Close
        BY <1>3, <1>a DEF Close, Lost
  <1>4. CASE Call
        BY <1>4, <1>a DEF Call, Lost, botVars
  <1>5. CASE Write
        <2>1. ch[move] = <<>>
              BY <1>5 DEF Write, RInv, ReaderInv
        <2>2. ~HasLine'
              BY <1>5, <2>1 DEF Write, HasLine
        <2>q. QED BY <1>5, <1>a, <2>2 DEF Write, Lost
  <1>6. CASE WriteFails
        BY <1>6 DEF WriteFails, Lost, Contract!ANext, Contract!Failure
  <1>7. CASE Return
        <2>1. move \in MoveNo /\ open /\ pc = "select" /\ pc' = "idle" /\ ch[move] # <<>>
              BY <1>7 DEF Return, RInv, ReaderInv
        <2>2. CASE HasLine
              <3>1. answer' \in {"line", "too_long"}
                    BY <1>7, <2>1, <2>2, InChannel DEF Return, BotLine
              <3>2. ~Lost
                    BY <2>1, <2>2 DEF Lost
              <3>3. Lost' \in BOOLEAN
                    BY DEF Lost
              <3>q. QED BY <3>1, <3>2, <3>3 DEF Contract!ANext, Contract!Line
        <2>3. CASE ~HasLine
              <3>1. bot' = "exited" /\ stdout' = <<>>
                    BY <1>7, <2>1, <2>3, InChannel DEF Return, botVars
              <3>2. Lost' = TRUE
                    BY <2>1, <3>1 DEF Lost
              <3>q. QED BY <1>7, <2>3, <3>2 DEF Return, Contract!ANext, Contract!Failure
        <2>q. QED BY <2>2, <2>3
  <1>8. CASE TimeOut
        BY <1>8 DEF TimeOut, Lost, Contract!ANext, Contract!Failure
  <1>9. ASSUME NEW n \in MoveNo, ReadLine(n)
        PROVE  Contract!ANext \/ UNCHANGED <<answer, Lost>>
        <2>1. CASE open
              <3>1. n = move /\ pc = "select"
                    BY <1>9, <2>1 DEF ReadLine, RInv, ReaderInv
              <3>2. stdout # <<>> /\ answer' = answer
                    BY <1>9 DEF ReadLine
              <3>3. ~Lost
                    BY <2>1, <3>2 DEF Lost
              <3>q. QED BY <1>a, <3>2, <3>3
        <2>2. CASE ~open
              BY <1>9, <1>a, <2>2 DEF ReadLine, Lost, RInv, StartInv
        <2>q. QED BY <2>1, <2>2
  <1>10. ASSUME NEW n \in MoveNo, ReadEOF(n)
         PROVE  Contract!ANext \/ UNCHANGED <<answer, Lost>>
        <2>1. CASE n = move
              <3>1. ch[n] = <<>> /\ ch' = [ch EXCEPT ![n] = Append(@, EOF)]
                    BY <1>10 DEF ReadEOF, RInv, ReaderInv
              <3>2. ch'[n] = <<EOF>>
                    BY <3>1, EmptySeq DEF RInv, Type
              <3>3. ~HasLine'
                    BY <1>10, <2>1, <3>2 DEF ReadEOF, HasLine
              <3>q. QED BY <1>10, <1>a, <3>3 DEF ReadEOF, Lost, botVars
        <2>2. CASE n # move
              <3>1. ch'[move] = ch[move] /\ move' = move
                    BY <1>10, <2>2 DEF ReadEOF, RInv, Type
              <3>2. HasLine' <=> HasLine
                    BY <3>1 DEF HasLine
              <3>q. QED BY <1>10, <1>a, <3>2 DEF ReadEOF, Lost, botVars
        <2>q. QED BY <2>1, <2>2
  <1>11. CASE BotReads \/ BotExits \/ \E t \in {"line", "too_long"} : BotPrints(t)
        BY <1>11, <1>a DEF BotReads, BotExits, BotPrints, runnerVars, Lost, HasLine
  <1>12. CASE UNCHANGED vars
        BY <1>12, <1>a DEF vars, runnerVars, botVars, Lost, HasLine
  <1>q. QED BY <1>1, <1>2, <1>3, <1>4, <1>5, <1>6, <1>7, <1>8, <1>9, <1>10, <1>11,
              <1>12 DEF Next

\* A Runner is an AgentRunner: lines, until the bot is lost, then only errors.
THEOREM IsAgentRunner == Spec => ImplementsAgentRunner
  <1>q. QED BY Inductive, LostStart, ContractStep, PTL
            DEF Spec, ImplementsAgentRunner, Contract!ASpec

-----------------------------------------------------------------------------
(* A bot that keeps to the protocol                                        *)

LEMMA FreshStart == Init => FreshInv
  BY DEF Init, FreshInv, Fresh

\* What the bot has printed is not taken back.
LEMMA PoliteBefore == RInv /\ [Next]_vars /\ Polite' => Polite
  <1> SUFFICES ASSUME RInv, [Next]_vars, Polite' PROVE Polite
      OBVIOUS
  <1>1. CASE printed' = printed
        BY <1>1 DEF Polite
  <1>2. ASSUME NEW t, BotPrints(t) PROVE Polite
        <2>1. printed' = [printed EXCEPT ![seen] = @ + 1] /\ seen \in State
              BY <1>2 DEF BotPrints, RInv, Type
        <2>2. \A s \in State : printed[s] \in Nat /\ printed[s] <= printed'[s]
              BY <2>1, Numbers DEF RInv, Type
        <2>3. 0 \in State /\ MoveNo \subseteq State
              BY Numbers DEF State, MoveNo
        <2>4. \A s \in State : printed'[s] \in Nat
              BY <2>1, <2>2
        <2>q. QED BY <2>2, <2>3, <2>4 DEF Polite
  <1>q. QED BY <1>1, <1>2
            DEF Next, Start, StartFails, Close, Call, Write, WriteFails, Return, TimeOut,
                ReadLine, ReadEOF, BotReads, BotExits, vars

LEMMA FreshStep == RInv /\ RInv' /\ FreshInv /\ [Next]_vars => FreshInv'
  <1> SUFFICES ASSUME RInv, RInv', Fresh, open => Lockstep, Polite, Polite', [Next]_vars
               PROVE  Fresh' /\ (open' => Lockstep')
      BY PoliteBefore DEF FreshInv
  <1> USE Numbers
  <1>1. CASE Start
        BY <1>1, SMT DEF Start, Fresh, Lockstep, Level, Behind, Answered, RInv, StartInv, Type, State
  <1>2. CASE StartFails
        BY <1>2 DEF StartFails, Fresh, RInv, StartInv
  <1>3. CASE Close \/ TimeOut \/ WriteFails
        BY <1>3 DEF Close, TimeOut, WriteFails, Fresh
  <1>4. CASE Call
        BY <1>4, SMT DEF Call, botVars, Fresh, Lockstep, Level, Behind, Answered, RInv, Type
  <1>5. CASE Write
        <2>1. ch[move] = <<>> /\ move \in MoveNo
              BY <1>5 DEF Write, RInv, ReaderInv
        <2>2. Append(<<>>, move) = <<move>>
              BY EmptySeq
        <2>3. /\ pc = "write" /\ open /\ Lockstep /\ pc' = "select" /\ stdin' = Append(stdin, move)
              /\ UNCHANGED <<move, ch, bot, seen, stdout, printed, taken>>
              BY <1>5 DEF Write
        <2>4. stdout = <<>>
              BY <2>3 DEF Lockstep
        <2>5. ASSUME bot = "running"
              PROVE  Behind' /\ \A s \in State : s > seen' => printed'[s] = 0
              <3>1. Behind /\ \A s \in State : s > seen => printed[s] = 0
                    BY <2>3, <2>5 DEF Lockstep, Level
              <3>2. stdin' = <<move>>
                    BY <2>2, <2>3, <3>1 DEF Behind
              <3>q. QED BY <2>1, <2>3, <3>1, <3>2 DEF Behind, Answered
        <2>6. \A l \in BotLine : ch'[move'] # <<l>>
              BY <2>1, <2>3, Singleton
        <2>q. QED BY <2>3, <2>4, <2>5, <2>6 DEF Fresh, Lockstep
  <1>6. CASE Return
        <2>1. move \in MoveNo /\ open /\ pc = "select" /\ pc' = "idle" /\ ch[move] # <<>>
              BY <1>6 DEF Return, RInv, ReaderInv
        <2>2. UNCHANGED <<move, bot, stdin, seen, stdout, printed, ch>> /\ Lockstep
              BY <1>6, <2>1 DEF Return, botVars
        <2>3. stdout = <<>>
              BY <2>1, <2>2 DEF Lockstep
        <2>4. bot = "running" => Level' /\ \A s \in State : s > seen' => printed'[s] = 0
              <3> SUFFICES ASSUME bot = "running"
                           PROVE  Level' /\ \A s \in State : s > seen' => printed'[s] = 0
                  OBVIOUS
              <3>1. Level /\ \A s \in State : s > seen => printed[s] = 0
                    BY <2>1, <2>2 DEF Lockstep, Behind
              <3>2. printed[move] # 0 /\ printed[move] <= 1 /\ printed[move] \in Nat
                    BY <2>1, <3>1 DEF Level, Polite, RInv, Type, State, MoveNo
              <3>3. Answered(move)
                    BY <3>2 DEF Answered
              <3>q. QED BY <2>1, <2>2, <3>1, <3>3 DEF Level, Answered
        <2>5. CASE HasLine
              <3>1. PICK l \in BotLine : ch[move] = <<l>>
                    BY <2>1, <2>5, InChannel
              <3>2. ch[move][1].state = move
                    BY <2>1, <2>2, <3>1, Singleton DEF Lockstep
              <3>3. taken' = taken \union {<<move, move>>}
                    BY <1>6, <2>5, <3>2 DEF Return
              <3>q. QED BY <2>1, <2>2, <2>3, <2>4, <3>3 DEF Fresh, Lockstep
        <2>6. CASE ~HasLine
              <3>1. taken' = taken
                    BY <1>6, <2>6 DEF Return
              <3>q. QED BY <2>1, <2>2, <2>3, <2>4, <3>1 DEF Fresh, Lockstep
        <2>q. QED BY <2>5, <2>6
  <1>7. ASSUME NEW n \in MoveNo, ReadLine(n) PROVE Fresh' /\ (open' => Lockstep')
        <2> SUFFICES ASSUME open PROVE Lockstep'
            BY <1>7 DEF ReadLine, Fresh
        <2>1. /\ n = move /\ pc = "select" /\ ch[move] = <<>> /\ move \in MoveNo
              /\ stdout # <<>> /\ Lockstep
              BY <1>7 DEF ReadLine, RInv, ReaderInv
        <2>2. PICK l \in BotLine : stdout = <<l>> /\ l.state = move
              BY <2>1 DEF Lockstep
        <2>3. /\ UNCHANGED <<pc, move, bot, stdin, seen, printed>>
              /\ stdout' = Tail(stdout)
              /\ ch' = [ch EXCEPT ![move] = Append(@, Head(stdout))]
              BY <1>7, <2>1 DEF ReadLine
        <2>4. stdout' = <<>> /\ Append(<<>>, Head(stdout)) = <<l>>
              BY <2>2, <2>3, Singleton, EmptySeq
        <2>5. ch'[move] = <<l>>
              BY <2>1, <2>3, <2>4 DEF RInv, Type
        <2>6. \A k \in BotLine : ch'[move'] = <<k>> => k.state = move'
              BY <2>2, <2>3, <2>5, SingletonEq
        <2>7. bot = "running" => Level' /\ \A s \in State : s > seen' => printed'[s] = 0
              <3> SUFFICES ASSUME bot = "running"
                           PROVE  Level' /\ \A s \in State : s > seen' => printed'[s] = 0
                  OBVIOUS
              <3>1. Level /\ \A s \in State : s > seen => printed[s] = 0
                    BY <2>1 DEF Lockstep, Behind
              <3>2. printed[move] # 0
                    BY <2>1, <3>1 DEF Level
              <3>q. QED BY <2>1, <2>3, <3>1, <3>2 DEF Level, Answered
        <2>q. QED BY <2>1, <2>3, <2>4, <2>6, <2>7 DEF Lockstep
  <1>8. ASSUME NEW n \in MoveNo, ReadEOF(n) PROVE Fresh' /\ (open' => Lockstep')
        <2> SUFFICES ASSUME open PROVE Lockstep'
            BY <1>8 DEF ReadEOF, botVars, Fresh
        <2>1. n = move /\ pc = "select" /\ ch[move] = <<>> /\ move \in MoveNo
              BY <1>8 DEF ReadEOF, RInv, ReaderInv
        <2>2. /\ UNCHANGED <<pc, move>> /\ stdout' = <<>> /\ bot' = "exited"
              /\ ch' = [ch EXCEPT ![move] = Append(@, EOF)]
              BY <1>8, <2>1 DEF ReadEOF, botVars
        <2>3. ch'[move] = <<EOF>>
              BY <2>1, <2>2, EmptySeq DEF RInv, Type
        <2>4. \A k \in BotLine : ch'[move'] # <<k>>
              BY <2>2, <2>3, SingletonEq, EOFIsNoLine
        <2>q. QED BY <2>1, <2>2, <2>4 DEF Lockstep
  <1>9. CASE BotReads
        <2> SUFFICES ASSUME open PROVE Lockstep'
            BY <1>9 DEF BotReads, runnerVars, Fresh
        <2>1. /\ bot = "running" /\ stdin # <<>>
              /\ seen' = Head(stdin) /\ stdin' = Tail(stdin)
              /\ UNCHANGED <<pc, move, ch, bot, stdout, printed>>
              BY <1>9 DEF BotReads, runnerVars
        <2>2. Behind /\ pc = "select" /\ stdin = <<move>> /\ \A s \in State : s > seen => printed[s] = 0
              BY <2>1 DEF Lockstep, Behind, Level
        <2>3. seen' = move /\ stdin' = <<>> /\ seen = move - 1 /\ move \in State
              BY <2>1, <2>2, Singleton DEF Behind, RInv, Type, State
        <2>4. stdout = <<>> /\ ch[move] = <<>>
              BY <2>2 DEF Behind
        <2>5. Level'
              BY <2>1, <2>2, <2>3, <2>4 DEF Level
        <2>6. \A s \in State : s > seen' => printed'[s] = 0
              BY <2>1, <2>2, <2>3 DEF State
        <2>7. \A k \in BotLine : ch'[move'] # <<k>>
              BY <2>1, <2>4, Singleton
        <2>q. QED BY <2>1, <2>2, <2>4, <2>5, <2>6, <2>7 DEF Lockstep
  <1>10. ASSUME NEW t \in {"line", "too_long"}, BotPrints(t) PROVE Fresh' /\ (open' => Lockstep')
        <2> DEFINE line == [state |-> seen, type |-> t]
        <2> SUFFICES ASSUME open PROVE Lockstep'
            BY <1>10 DEF BotPrints, runnerVars, Fresh
        <2>1. /\ bot = "running" /\ stdout' = Append(stdout, line)
              /\ printed' = [printed EXCEPT ![seen] = @ + 1]
              /\ UNCHANGED <<pc, move, ch, bot, stdin, seen>>
              BY <1>10 DEF BotPrints, runnerVars
        <2>2. seen \in State /\ printed'[seen] = printed[seen] + 1 /\ printed[seen] \in Nat
              BY <2>1 DEF RInv, Type
        <2>3. ~Answered(seen)
              BY <2>2 DEF Answered, Polite, State, MoveNo
        <2>4. Level /\ pc = "select" /\ \A s \in State : s > seen => printed[s] = 0
              BY <2>1, <2>3 DEF Lockstep, Behind, Level
        <2>5. printed[move] = 0 /\ printed'[move] = 1 /\ seen = move
              BY <2>2, <2>3, <2>4 DEF Level, Answered, Polite, State, MoveNo
        <2>6. stdout = <<>> /\ ch[move] = <<>>
              BY <2>4, <2>5 DEF Level
        <2>7. line \in BotLine /\ stdout' = <<line>> /\ line.state = move
              BY <2>1, <2>2, <2>5, <2>6, EmptySeq DEF BotLine
        <2>8. Level'
              BY <2>1, <2>4, <2>5 DEF Level
        <2>9. \A s \in State : s > seen' => printed'[s] = 0
              BY <2>1, <2>2, <2>4 DEF RInv, Type, State
        <2>10. \A k \in BotLine : ch'[move'] # <<k>>
              BY <2>1, <2>6, Singleton
        <2> HIDE DEF line
        <2>q. QED BY <2>1, <2>4, <2>6, <2>7, <2>8, <2>9, <2>10 DEF Lockstep
  <1>11. CASE BotExits
        BY <1>11 DEF BotExits, runnerVars, Fresh, Lockstep
  <1>12. CASE UNCHANGED vars
        BY <1>12 DEF vars, runnerVars, botVars, Fresh, Lockstep, Level, Behind, Answered
  <1>q. QED BY <1>1, <1>2, <1>3, <1>4, <1>5, <1>6, <1>7, <1>8, <1>9, <1>10, <1>11,
              <1>12 DEF Next

\* A bot that answers each state with at most one line is never taken at its
\* word for another state, however late it is and whenever it dies.
THEOREM PoliteBotIsFresh == Spec => []PoliteIsFresh
  <1>1. FreshInv => PoliteIsFresh
        BY DEF FreshInv, PoliteIsFresh
  <1>q. QED BY Inductive, FreshStart, FreshStep, <1>1, PTL DEF Spec
=============================================================================
