---------------------------- MODULE AgentProofs ----------------------------
(***************************************************************************)
(* The system agent on the engine of Caro, for every size of the board and *)
(* every opponent.                                                         *)
(***************************************************************************)
EXTENDS SystemAgent, CaroProofs

\* The agent and its opponent make moves of the engine and nothing else.
LEMMA AgentStep == [AgentNext]_agentVars => [Next]_vars
<1> SUFFICES ASSUME AgentNext, ~UNCHANGED vars PROVE Next
  BY DEF agentVars
<1>1. ASSUME NEW p, Accepted(p)
      PROVE  p \in Input
  BY <1>1, CaroAssumption DEF Accepted, Legal, Cell, Coord, Input
<1>2. CASE AgentMoves
  BY <1>1, <1>2 DEF AgentMoves, ApplyMove, Rejected, Next
<1>3. CASE OpponentMoves
  BY <1>1, <1>3 DEF OpponentMoves, ApplyMove, Next
<1> QED
  BY <1>2, <1>3 DEF AgentNext

\* A game of the agent is a game of the engine, so that whatever the engine
\* guarantees holds in it.
THEOREM PlaysByTheRules == AgentSpec => Spec
<1>1. AgentInit => Init
  BY DEF AgentInit
<1> QED
  BY <1>1, AgentStep, PTL DEF AgentSpec, Spec

\* What the steps of a game keep, for a board of the engine and a seat.
AgentInv == TypeOK /\ TurnsAlternate /\ DrawExact /\ seat \in {0, 1}

LEMMA AgentInvHolds == AgentSpec => []AgentInv
<1>1. AgentInit => seat \in {0, 1}
  BY DEF AgentInit
<1>2. seat \in {0, 1} /\ [AgentNext]_agentVars => (seat \in {0, 1})'
  BY DEF AgentNext, AgentMoves, OpponentMoves, agentVars
<1>3. AgentSpec => [](seat \in {0, 1})
  BY <1>1, <1>2, PTL DEF AgentSpec
<1> QED
  BY <1>3, PlaysByTheRules, TurnsCorrect, DrawnExact, PTL DEF AgentInv

\* From the marks on the board alone the agent tells which of them are its
\* own, in either seat and whatever the opponent plays.
THEOREM MarkInferred == AgentSpec => []KnowsItsMark
<1>1. AgentInv => KnowsItsMark
  <2> SUFFICES ASSUME TypeOK, TurnsAlternate, seat \in {0, 1}, current = seat
               PROVE  MyMark(cells) = PlayerMark(seat)
    BY DEF AgentInv, KnowsItsMark, Turn, Own
  <2>1. \A m \in Mark : Marks(cells, m) = Count(cells, {m})
    <3> TAKE m \in Mark
    <3>1. {p \in Cell : cells[p] = m} = {c \in Cell : cells[c] \in {m}}
      OBVIOUS
    <3> QED
      BY <3>1 DEF Marks, Count
  <2>2. Marks(cells, "X") = Marks(cells, "O") + current
    BY <2>1 DEF TurnsAlternate, Mark
  <2>3. Marks(cells, "O") \in Nat
    <3>1. IsFiniteSet({c \in Cell : cells[c] = "O"})
      BY CellFinite, FS_Subset
    <3> QED
      BY <3>1, FS_CardinalityType DEF Marks
  <2> QED
    BY <2>2, <2>3 DEF MyMark, PlayerMark
<1> QED
  BY <1>1, AgentInvHolds, PTL

-----------------------------------------------------------------------------
(* What the windows through a cell add up to                               *)

\* iter says, of each set of windows in T, what CellScore has added up after it
\* has taken them one by one.
Adds(iter, b, me, opp, T) ==
  iter = [s \in T |->
            IF s = {} THEN 0
            ELSE WindowScore(b, CHOOSE w \in s : TRUE, me, opp) + iter[s \ {CHOOSE w \in s : TRUE}]]

\* There is such a function, over all sets of windows in a finite W.
LEMMA AddsAnySet ==
  ASSUME NEW b, NEW me, NEW opp, NEW W, IsFiniteSet(W)
  PROVE  \E iter : Adds(iter, b, me, opp, SUBSET W)
<1> DEFINE Upto(k) == {s \in SUBSET W : Cardinality(s) <= k}
           Bad     == {k \in Nat : ~\E iter : Adds(iter, b, me, opp, Upto(k))}
           Score(s) == WindowScore(b, CHOOSE w \in s : TRUE, me, opp)
           Rest(s)  == s \ {CHOOSE w \in s : TRUE}
<1>1. \A s \in SUBSET W : IsFiniteSet(s) /\ Cardinality(s) \in Nat
  BY FS_Subset, FS_CardinalityType
<1>2. \A s \in SUBSET W : s # {} =>
        Rest(s) \in SUBSET W /\ Cardinality(Rest(s)) = Cardinality(s) - 1
  BY <1>1, FS_RemoveElement
<1>3. Bad = {}
  <2> SUFFICES ASSUME Bad # {} PROVE FALSE
    OBVIOUS
  <2>1. PICK k \in Bad : \A j \in Bad : k <= j
    <3> HIDE DEF Upto
    <3> QED
      BY Least
  <2>2. \E f : k = 0 \/ Adds(f, b, me, opp, Upto(k - 1))
    <3> HIDE DEF Upto
    <3> QED
      BY <2>1
  <2>3. PICK f : k = 0 \/ Adds(f, b, me, opp, Upto(k - 1))
    BY <2>2
  <2> DEFINE g == [s \in Upto(k) |-> IF s = {} THEN 0 ELSE Score(s) + f[Rest(s)]]
  <2>4. \A s \in Upto(k) : s # {} => k # 0 /\ Rest(s) \in Upto(k - 1) /\ Rest(s) \in Upto(k)
    <3> SUFFICES ASSUME NEW s \in Upto(k), s # {}
                 PROVE  k # 0 /\ Rest(s) \in Upto(k - 1) /\ Rest(s) \in Upto(k)
      OBVIOUS
    <3>1. Cardinality(s) \in Nat /\ Cardinality(s) # 0 /\ Cardinality(s) <= k /\ k \in Nat
      BY <1>1, <2>1, FS_EmptySet
    <3>2. Rest(s) \in SUBSET W /\ Cardinality(Rest(s)) = Cardinality(s) - 1
      BY <1>2
    <3> HIDE DEF Rest
    <3> QED
      BY <3>1, <3>2
  <2>5. ASSUME k # 0, NEW t \in Upto(k - 1)
        PROVE  t \in Upto(k) /\ g[t] = f[t]
    <3>1. t \in Upto(k)
      BY <1>1, <2>1, <2>5
    <3>2. f[t] = IF t = {} THEN 0 ELSE Score(t) + f[Rest(t)]
      <4> HIDE DEF Upto
      <4>1. f = [s \in Upto(k - 1) |-> IF s = {} THEN 0 ELSE Score(s) + f[Rest(s)]]
        BY <2>3, <2>5, Zenon DEF Adds
      <4> QED
        BY <4>1, Zenon
    <3> HIDE DEF Upto, Score, Rest
    <3> QED
      BY <3>1, <3>2
  <2>6. \A s \in Upto(k) : g[s] = IF s = {} THEN 0 ELSE Score(s) + g[Rest(s)]
    <3> TAKE s \in Upto(k)
    <3>1. s # {} => g[Rest(s)] = f[Rest(s)]
      BY <2>4, <2>5
    <3>2. g[s] = IF s = {} THEN 0 ELSE Score(s) + f[Rest(s)]
      <4> HIDE DEF Upto, Score, Rest
      <4> QED
        OBVIOUS
    <3> HIDE DEF g, Upto, Score, Rest
    <3> QED
      BY <3>1, <3>2
  <2>7. g = [s \in Upto(k) |-> IF s = {} THEN 0 ELSE Score(s) + g[Rest(s)]]
    <3>1. g = [s \in Upto(k) |-> g[s]]
      <4> HIDE DEF Upto, Score, Rest
      <4> QED
        OBVIOUS
    <3> HIDE DEF g, Upto, Score, Rest
    <3> QED
      BY <2>6, <3>1, Zenon
  <2>8. Adds(g, b, me, opp, Upto(k))
    <3> HIDE DEF g, Upto
    <3> QED
      BY <2>7, Zenon DEF Adds
  <2> QED
    <3> HIDE DEF g, Upto
    <3> QED
      BY <2>1, <2>8
<1>4. Cardinality(W) \in Nat /\ Upto(Cardinality(W)) = SUBSET W
  BY FS_Subset, FS_CardinalityType
<1> HIDE DEF Upto
<1>5. \E iter : Adds(iter, b, me, opp, Upto(Cardinality(W)))
  BY <1>3, <1>4
<1> QED
  BY <1>4, <1>5

\* f says of each set of windows in W what some order of adding them gives.
SumsUp(f, b, me, opp, W) ==
  /\ f[{}] = 0
  /\ \A s \in SUBSET W : s # {} => \E w \in s : f[s] = WindowScore(b, w, me, opp) + f[s \ {w}]

\* CellScore takes the windows one by one.
LEMMA ScoreAdds ==
  ASSUME NEW b, NEW p, NEW me, NEW opp, IsFiniteSet(Windows(p))
  PROVE  \E f : CellScore(b, p, me, opp) = f[Windows(p)] /\ SumsUp(f, b, me, opp, Windows(p))
<1> DEFINE f == CHOOSE iter : Adds(iter, b, me, opp, SUBSET Windows(p))
<1>1. CellScore(b, p, me, opp) = f[Windows(p)]
  BY Zenon DEF CellScore, MapThenSumSet, MapThenFoldSet, Adds
<1>2. Adds(f, b, me, opp, SUBSET Windows(p))
  BY AddsAnySet
<1> HIDE DEF f
<1>3. \A s \in SUBSET Windows(p) :
        f[s] = IF s = {} THEN 0
               ELSE WindowScore(b, CHOOSE w \in s : TRUE, me, opp) + f[s \ {CHOOSE w \in s : TRUE}]
  BY <1>2, Zenon DEF Adds
<1>4. \A s : s # {} => (CHOOSE w \in s : TRUE) \in s
  OBVIOUS
<1>5. {} \in SUBSET Windows(p)
  OBVIOUS
<1>6. f[{}] = 0
  BY <1>3, <1>5, Zenon
<1>7. \A s \in SUBSET Windows(p) :
        s # {} => \E w \in s : f[s] = WindowScore(b, w, me, opp) + f[s \ {w}]
  BY <1>3, <1>4, Zenon
<1>8. SumsUp(f, b, me, opp, Windows(p))
  BY <1>6, <1>7, Zenon DEF SumsUp
<1> QED
  BY <1>1, <1>8

\* A sum of n numbers up to M is at least each of them and at most n * M.
LEMMA SumBounds ==
  ASSUME NEW W, IsFiniteSet(W), NEW h, NEW M \in Nat, \A w \in W : h[w] \in 0..M,
         NEW f, f[{}] = 0,
         \A s \in SUBSET W : s # {} => \E w \in s : f[s] = h[w] + f[s \ {w}]
  PROVE  /\ f[W] \in Nat /\ f[W] <= M * Cardinality(W)
         /\ \A w \in W : h[w] <= f[W]
<1> DEFINE Good(s) == /\ f[s] \in Nat /\ f[s] <= M * Cardinality(s)
                      /\ \A w \in s : h[w] <= f[s]
           Bad     == {Cardinality(s) : s \in {t \in SUBSET W : ~Good(t)}}
<1>1. \A s \in SUBSET W : IsFiniteSet(s) /\ Cardinality(s) \in Nat
  BY FS_Subset, FS_CardinalityType
<1>2. Bad \in SUBSET Nat
  BY <1>1
<1>3. Bad = {}
  <2> SUFFICES ASSUME Bad # {} PROVE FALSE
    OBVIOUS
  <2>1. PICK n \in Bad : \A j \in Bad : n <= j
    <3> HIDE DEF Bad
    <3> QED
      BY <1>2, Least
  <2>2. PICK s \in SUBSET W : ~Good(s) /\ n = Cardinality(s)
    BY <2>1
  <2>3. s # {}
    <3>1. Good({})
      BY FS_EmptySet
    <3> HIDE DEF Good
    <3> QED
      BY <2>2, <3>1
  <2>4. PICK v \in s : f[s] = h[v] + f[s \ {v}]
    BY <2>3
  <2>5. s \ {v} \in SUBSET W /\ Cardinality(s \ {v}) = n - 1 /\ n \in Nat
    BY <1>1, <2>2, FS_RemoveElement
  <2>6. Good(s \ {v})
    <3> HIDE DEF Good
    <3>1. ~Good(s \ {v}) => n - 1 \in Bad
      BY <2>5
    <3> QED
      BY <2>1, <2>5, <3>1
  <2>7. h[v] \in 0..M
    OBVIOUS
  <2>8. M * n = M * (n - 1) + M
    BY <2>5
  <2>9. M * (n - 1) \in Int /\ M * n \in Int
    BY <2>5
  <2>10. f[s] \in Nat /\ f[s] <= M * n
    BY <2>4, <2>5, <2>6, <2>7, <2>8, <2>9
  <2>11. \A w \in s : h[w] <= f[s]
    <3> TAKE w \in s
    <3>1. h[w] \in 0..M
      OBVIOUS
    <3>2. CASE w = v
      BY <2>4, <2>6, <2>7, <3>2
    <3>3. CASE w # v
      <4>1. h[w] <= f[s \ {v}] /\ f[s \ {v}] \in Nat
        BY <2>6, <3>3
      <4> QED
        BY <2>4, <2>7, <3>1, <4>1
    <3> QED
      BY <3>2, <3>3
  <2> QED
    BY <2>2, <2>10, <2>11
<1>4. Good(W)
  <2> HIDE DEF Good
  <2> QED
    BY <1>3
<1> QED
  BY <1>4

-----------------------------------------------------------------------------
(* Windows                                                                 *)

\* The windows of p are those on the board among 20, by direction and first cell.
WindowAt(p, d, o) == {Step(p, d, o + i) : i \in 0..(WinLen - 1)}

LEMMA WindowsAre ==
  ASSUME NEW p
  PROVE  /\ \A w \in Windows(p) : \E d \in Directions, o \in (-4)..0 :
              w = WindowAt(p, d, o) /\ w \subseteq Cell
         /\ \A d \in Directions, o \in (-4)..0 :
              WindowAt(p, d, o) \subseteq Cell => WindowAt(p, d, o) \in Windows(p)
<1> DEFINE os == (1 - WinLen)..0
<1>1. os = (-4)..0
  BY AgentAssumption
<1> HIDE DEF os
<1>2. Windows(p) = {w \in {WindowAt(p, d, o) : d \in Directions, o \in os} : w \subseteq Cell}
  <2> DEFINE is == 0..(WinLen - 1)
             At(d, o) == {Step(p, d, o + i) : i \in is}
  <2>1. Windows(p) = {w \in {At(d, o) : d \in Directions, o \in os} : w \subseteq Cell}
    BY DEF Windows, WindowsFrom, os
  <2>2. \A d, o : WindowAt(p, d, o) = At(d, o)
    BY DEF WindowAt
  <2> HIDE DEF At
  <2> QED
    BY <2>1, <2>2
<1>3. /\ \A w \in Windows(p) : \E d \in Directions, o \in os :
           w = WindowAt(p, d, o) /\ w \subseteq Cell
      /\ \A d \in Directions, o \in os :
           WindowAt(p, d, o) \subseteq Cell => WindowAt(p, d, o) \in Windows(p)
  BY <1>2
<1> QED
  BY <1>1, <1>3

\* WinLen is five.
LEMMA WindowIs ==
  ASSUME NEW p, NEW d, NEW o
  PROVE  WindowAt(p, d, o) = {Step(p, d, o + i) : i \in 0..4}
<1>1. WinLen - 1 = 4
  BY AgentAssumption
<1> QED
  BY <1>1 DEF WindowAt

\* How many numbers a few intervals have.
LEMMA SmallIntervals ==
  /\ IsFiniteSet(1..4) /\ Cardinality(1..4) = 4
  /\ IsFiniteSet(0..4) /\ Cardinality(0..4) = 5
  /\ IsFiniteSet((-4)..0) /\ Cardinality((-4)..0) = 5
<1>1. \A x, y \in Int : IsFiniteSet(x..y) /\ Cardinality(x..y) = IF x > y THEN 0 ELSE y - x + 1
  BY FS_Interval
<1> DEFINE n == -4
<1>2. n \in Int /\ 0 - n + 1 = 5 /\ ~(n > 0)
  OBVIOUS
<1>3. IsFiniteSet(n..0) /\ Cardinality(n..0) = 5
  <2> HIDE DEF n
  <2> QED
    BY <1>1, <1>2
<1> DEFINE one  == 1
           four == 4
           zero == 0
<1>4. IsFiniteSet(one..four) /\ Cardinality(one..four) = 4
  <2>1. one \in Int /\ four \in Int /\ four - one + 1 = 4 /\ ~(one > four)
    OBVIOUS
  <2> HIDE DEF one, four
  <2> QED
    BY <1>1, <2>1
<1>5. IsFiniteSet(zero..four) /\ Cardinality(zero..four) = 5
  <2>1. zero \in Int /\ four \in Int /\ four - zero + 1 = 5 /\ ~(zero > four)
    OBVIOUS
  <2> HIDE DEF zero, four
  <2> QED
    BY <1>1, <2>1
<1> QED
  BY <1>3, <1>4, <1>5, Zenon

\* Five through a cell in each of four directions.
LEMMA FewWindows ==
  ASSUME NEW p
  PROVE  IsFiniteSet(Windows(p)) /\ Cardinality(Windows(p)) \in 0..20
<1> DEFINE dirs == [i \in 1..4 |-> IF i = 1 THEN <<0, 1>> ELSE IF i = 2 THEN <<1, 0>>
                                   ELSE IF i = 3 THEN <<1, 1>> ELSE <<1, -1>>]
           S    == (1..4) \X ((-4)..0)
           T    == {WindowAt(p, d, o) : d \in Directions, o \in (-4)..0}
           f    == [x \in S |-> WindowAt(p, dirs[x[1]], x[2])]
<1>1. dirs \in [1..4 -> Directions] /\ \A d \in Directions : \E i \in 1..4 : dirs[i] = d
  <2>1. \A d \in Directions : \E i \in 1..4 : dirs[i] = d
    <3> SUFFICES ASSUME NEW d \in Directions PROVE \E i \in 1..4 : dirs[i] = d
      OBVIOUS
    <3>1. /\ 1 \in 1..4 /\ 2 \in 1..4 /\ 3 \in 1..4 /\ 4 \in 1..4
          /\ dirs[1] = <<0, 1>> /\ dirs[2] = <<1, 0>> /\ dirs[3] = <<1, 1>> /\ dirs[4] = <<1, -1>>
      OBVIOUS
    <3> HIDE DEF dirs
    <3> QED
      BY <3>1 DEF Directions
  <2> QED
    BY <2>1 DEF Directions
<1> HIDE DEF dirs
<1>2. IsFiniteSet(S) /\ Cardinality(S) = 20
  <2> DEFINE i == 1..4
             o == (-4)..0
  <2>1. IsFiniteSet(i) /\ Cardinality(i) = 4 /\ IsFiniteSet(o) /\ Cardinality(o) = 5
    BY SmallIntervals
  <2> HIDE DEF i, o
  <2>2. IsFiniteSet(i \X o) /\ Cardinality(i \X o) = 4 * 5
    BY <2>1, FS_Product
  <2> QED
    BY <2>2 DEF i, o
<1>3. f \in Surjection(S, T)
  <2>1. \A x \in S : x[1] \in 1..4 /\ x[2] \in (-4)..0
    OBVIOUS
  <2>2. \A x \in S : f[x] \in T
    BY <1>1, <2>1
  <2>3. ASSUME NEW d \in Directions, NEW o \in (-4)..0
        PROVE  \E x \in S : f[x] = WindowAt(p, d, o)
    <3>1. PICK i \in 1..4 : dirs[i] = d
      BY <1>1
    <3>2. <<i, o>> \in S /\ f[<<i, o>>] = WindowAt(p, d, o)
      BY <3>1
    <3> QED
      BY <3>2
  <2> QED
    BY <2>2, <2>3 DEF Surjection
<1>4. IsFiniteSet(T) /\ Cardinality(T) <= 20
  BY <1>2, <1>3, FS_Surjection
<1>5. Windows(p) \in SUBSET T
  BY WindowsAre
<1> HIDE DEF T
<1>6. IsFiniteSet(Windows(p)) /\ Cardinality(Windows(p)) <= Cardinality(T) /\ Cardinality(T) \in Nat
  BY <1>4, <1>5, FS_Subset, FS_CardinalityType
<1>7. Cardinality(Windows(p)) \in Nat
  BY <1>6, FS_CardinalityType
<1> HIDE DEF S, f
<1>8. Cardinality(Windows(p)) <= 20
  BY <1>4, <1>6, <1>7
<1> QED
  BY <1>6, <1>7, <1>8

\* A window through p has p and four more cells, all on the board.
LEMMA WindowCells ==
  ASSUME NEW p \in Cell, NEW w \in Windows(p)
  PROVE  /\ p \in w /\ w \subseteq Cell
         /\ IsFiniteSet(w \ {p}) /\ Cardinality(w \ {p}) = 4
<1>1. PICK d \in Directions, o \in (-4)..0 : w = WindowAt(p, d, o) /\ w \subseteq Cell
  BY WindowsAre
<1>2. p \in Int \X Int
  BY CellIsPair
<1>3. -o \in 0..4 /\ o + (-o) = 0 /\ Step(p, d, 0) = p
  BY <1>2, StepAdd
<1>4. p \in w
  BY <1>1, <1>3, WindowIs
<1> DEFINE f == [i \in 0..4 |-> Step(p, d, o + i)]
<1>5. f \in [0..4 -> w] /\ \A c \in w : \E i \in 0..4 : f[i] = c
  BY <1>1, WindowIs
<1>6. \A i, j \in 0..4 : Step(p, d, o + i) = Step(p, d, o + j) => i = j
  <2> TAKE i, j \in 0..4
  <2>1. CASE d = <<0, 1>> BY <1>2, <2>1 DEF Step
  <2>2. CASE d = <<1, 0>> BY <1>2, <2>2 DEF Step
  <2>3. CASE d = <<1, 1>> BY <1>2, <2>3 DEF Step
  <2>4. CASE d = <<1, -1>> BY <1>2, <2>4 DEF Step
  <2> QED BY <2>1, <2>2, <2>3, <2>4 DEF Directions
<1>7. \A i, j \in 0..4 : f[i] = f[j] => i = j
  BY <1>6
<1> HIDE DEF f
<1> DEFINE i4 == 0..4
<1>8. f \in Surjection(i4, w) /\ f \in Injection(i4, w)
  <2> HIDE DEF i4
  <2>1. f \in [i4 -> w] /\ (\A c \in w : \E i \in i4 : f[i] = c)
          /\ \A i, j \in i4 : f[i] = f[j] => i = j
    BY <1>5, <1>7 DEF i4
  <2> QED
    BY <2>1 DEF Surjection, Injection, IsInjective
<1>9. IsFiniteSet(i4) /\ Cardinality(i4) = 5
  BY SmallIntervals
<1> HIDE DEF i4
<1>10. IsFiniteSet(w) /\ Cardinality(w) = 5
  BY <1>8, <1>9, FS_Surjection
<1>11. IsFiniteSet(w \ {p}) /\ Cardinality(w \ {p}) = Cardinality(w) - 1
  BY <1>4, <1>10, FS_RemoveElement
<1> QED
  BY <1>1, <1>4, <1>10, <1>11

\* What a board may be, whoever played.
Boards == [Cell -> Mark \union {"."}]

\* In a window through an empty cell.
LEMMA HeldFour ==
  ASSUME NEW b \in Boards, NEW p \in Empty(b), NEW w \in Windows(p), NEW m \in Mark
  PROVE  /\ Held(b, w, m) \in 0..4
         /\ Held(b, w, m) = 4 <=> \A c \in w \ {p} : b[c] = m
         /\ Held(b, w, m) = 0 <=> \A c \in w : b[c] # m
<1> DEFINE H == {c \in w : b[c] = m}
<1>1. p \in Cell /\ b[p] # m
  BY DEF Empty, Mark
<1>2. IsFiniteSet(w \ {p}) /\ Cardinality(w \ {p}) = 4
  BY <1>1, WindowCells
<1>3. H \in SUBSET (w \ {p})
  BY <1>1
<1>4. IsFiniteSet(H) /\ Cardinality(H) \in Nat /\ Cardinality(H) <= 4
  BY <1>2, <1>3, FS_Subset, FS_CardinalityType
<1>5. Cardinality(H) = 4 <=> H = w \ {p}
  BY <1>2, <1>3, FS_Subset
<1>6. Cardinality(H) = 0 <=> H = {}
  BY <1>4, FS_EmptySet
<1>7. H = w \ {p} <=> \A c \in w \ {p} : b[c] = m
  BY <1>1
<1>8. H = {} <=> \A c \in w : b[c] # m
  OBVIOUS
<1>9. Held(b, w, m) = Cardinality(H)
  BY DEF Held
<1> HIDE DEF H
<1> QED
  BY <1>4, <1>5, <1>6, <1>7, <1>8, <1>9

\* The engine declares a win in p if and only if p completes a window.
LEMMA WinIsWindow ==
  ASSUME NEW b \in Boards, NEW p \in Empty(b), NEW m \in Mark
  PROVE  p \in Wins(b, m) <=> \E w \in Windows(p) : Held(b, w, m) = 4
<1> DEFINE b2 == [b EXCEPT ![p] = m]
<1>1. p \in Cell /\ b[p] = "." /\ b2[p] = m /\ \A c \in Cell \ {p} : b2[c] = b[c]
  BY DEF Empty, Boards
<1>2. p \in Int \X Int
  BY <1>1, CellIsPair
<1>3. p \in Wins(b, m) <=> IsWinningMove(b2, p, m)
  BY DEF Wins
<1> HIDE DEF b2
<1>4. ASSUME IsWinningMove(b2, p, m)
      PROVE  \E w \in Windows(p) : Held(b, w, m) = 4
  <2>1. PICK d \in Directions, o \in (1 - WinLen)..0 :
          \A i \in 0..(WinLen - 1) : Marked(b2, Step(p, d, o + i), m)
    BY <1>1, <1>4, WinIsRun
  <2>2. WinLen - 1 = 4 /\ 1 - WinLen = -4
    BY AgentAssumption
  <2>3. o \in (-4)..0 /\ \A i \in 0..4 : Marked(b2, Step(p, d, o + i), m)
    BY <2>1, <2>2
  <2>4. \A c \in WindowAt(p, d, o) : c \in Cell /\ b2[c] = m
    BY <2>3, WindowIs DEF Marked
  <2>5. WindowAt(p, d, o) \in Windows(p)
    BY <2>3, <2>4, WindowsAre
  <2>6. \A c \in WindowAt(p, d, o) \ {p} : b[c] = m
    BY <1>1, <2>4
  <2> QED
    BY <2>5, <2>6, HeldFour
<1>5. ASSUME NEW w \in Windows(p), Held(b, w, m) = 4
      PROVE  IsWinningMove(b2, p, m)
  <2>1. PICK d \in Directions, o \in (-4)..0 : w = WindowAt(p, d, o) /\ w \subseteq Cell
    BY WindowsAre
  <2>2. \A c \in w : c \in Cell /\ b2[c] = m
    BY <1>1, <1>5, <2>1, HeldFour
  <2>3. \A i \in 0..4 : Marked(b2, Step(p, d, o + i), m)
    BY <2>1, <2>2, WindowIs DEF Marked
  <2> DEFINE q == Step(p, d, o)
  <2>4. \A i \in 0..4 : Step(q, d, i) = Step(p, d, o + i)
    BY <1>2, StepAdd
  <2>5. Step(q, d, 0) = q
    BY <1>2, StepAdd
  <2>6. q \in Cell
    BY <2>3, <2>4, <2>5 DEF Marked
  <2>7. Step(q, d, -o) = p
    <3>1. -o \in Int /\ o + (-o) = 0
      OBVIOUS
    <3> QED
      BY <1>2, <3>1, StepAdd
  <2>8. WinLen - 1 = 4 /\ -o \in 0..4
    BY AgentAssumption
  <2>9. \A i \in 0..(WinLen - 1) : Marked(b2, Step(q, d, i), m)
    BY <2>3, <2>4, <2>8
  <2> HIDE DEF q
  <2> QED
    BY <1>1, <2>6, <2>7, <2>8, <2>9, LineIsWin
<1> QED
  BY <1>3, <1>4, <1>5

-----------------------------------------------------------------------------
(* The value of a cell                                                     *)

\* The weights of four marks, and of less.
LEMMA FourScores ==
  ASSUME NEW k \in 1..4
  PROVE  /\ OffScore[k] \in Nat /\ OffScore[k] <= 100000
         /\ k = 4 => OffScore[k] = 100000
         /\ k # 4 => OffScore[k] <= 1000
         /\ DefScore[k] \in Nat /\ DefScore[k] <= 100000
         /\ k = 4 => DefScore[k] = 90000
         /\ k # 4 => DefScore[k] <= 1000
BY SMT DEF OffScore, DefScore

\* What a window adds: four of either player stand out from anything less.
LEMMA ScoreBounds ==
  ASSUME NEW b \in Boards, NEW p \in Empty(b), NEW w \in Windows(p),
         NEW me \in Mark, NEW opp \in Mark, me # opp
  PROVE  /\ WindowScore(b, w, me, opp) \in Nat /\ WindowScore(b, w, me, opp) <= 100000
         /\ Held(b, w, me) = 4 => WindowScore(b, w, me, opp) = 100000
         /\ Held(b, w, opp) = 4 => WindowScore(b, w, me, opp) = 90000
         /\ Held(b, w, me) # 4 /\ Held(b, w, opp) # 4 => WindowScore(b, w, me, opp) <= 1000
<1> DEFINE my    == Held(b, w, me)
           their == Held(b, w, opp)
           s     == WindowScore(b, w, me, opp)
           off   == OffScore[my]
           def   == DefScore[their]
<1>1. my \in 0..4 /\ their \in 0..4
  BY HeldFour
<1>2. (my = 4 => their = 0) /\ (their = 4 => my = 0)
  <2>1. p \in w /\ b[p] # me /\ b[p] # opp
    BY WindowCells DEF Empty, Mark
  <2>2. /\ my = 4 <=> \A c \in w \ {p} : b[c] = me
        /\ my = 0 <=> \A c \in w : b[c] # me
        /\ their = 4 <=> \A c \in w \ {p} : b[c] = opp
        /\ their = 0 <=> \A c \in w : b[c] # opp
    BY HeldFour
  <2> HIDE DEF my, their
  <2> QED
    BY <2>1, <2>2
<1> DEFINE mine == my > 0
           his  == their > 0
<1>3. /\ mine /\ ~his => s = off
      /\ ~mine /\ his => s = def
      /\ ~(mine /\ ~his) /\ ~(~mine /\ his) => s = 0
  <2>1. s = IF mine = his THEN 0 ELSE IF mine THEN off ELSE def
    BY Zenon DEF WindowScore
  <2>2. mine \in BOOLEAN /\ his \in BOOLEAN
    OBVIOUS
  <2> HIDE DEF mine, his, my, their, s, off, def
  <2> QED
    BY <2>1, <2>2
<1>4. my \in 1..4 => /\ off \in Nat /\ off <= 100000
                     /\ my = 4 => off = 100000
                     /\ my # 4 => off <= 1000
  <2> SUFFICES ASSUME my \in 1..4
               PROVE  /\ off \in Nat /\ off <= 100000
                      /\ my = 4 => off = 100000
                      /\ my # 4 => off <= 1000
    OBVIOUS
  <2> HIDE DEF my
  <2> QED
    BY FourScores, SMT
<1>5. their \in 1..4 => /\ def \in Nat /\ def <= 100000
                        /\ their = 4 => def = 90000
                        /\ their # 4 => def <= 1000
  <2> SUFFICES ASSUME their \in 1..4
               PROVE  /\ def \in Nat /\ def <= 100000
                      /\ their = 4 => def = 90000
                      /\ their # 4 => def <= 1000
    OBVIOUS
  <2> HIDE DEF their
  <2> QED
    BY FourScores, SMT
<1> HIDE DEF my, their, s, off, def
<1>6. (mine <=> my \in 1..4) /\ (his <=> their \in 1..4)
  BY <1>1
<1> HIDE DEF mine, his
<1>7. /\ s \in Nat /\ s <= 100000
      /\ my = 4 => s = 100000
      /\ their = 4 => s = 90000
      /\ my # 4 /\ their # 4 => s <= 1000
  <2>1. CASE mine /\ ~his
    <3>1. s = off /\ my \in 1..4 /\ their # 4
      BY <1>1, <1>3, <1>6, <2>1
    <3>2. /\ off \in Nat /\ off <= 100000
          /\ my = 4 => off = 100000
          /\ my # 4 => off <= 1000
      BY <1>4, <3>1
    <3> QED
      BY <3>1, <3>2
  <2>2. CASE ~mine /\ his
    <3>1. s = def /\ their \in 1..4 /\ my # 4
      BY <1>1, <1>3, <1>6, <2>2
    <3>2. /\ def \in Nat /\ def <= 100000
          /\ their = 4 => def = 90000
          /\ their # 4 => def <= 1000
      BY <1>5, <3>1
    <3> QED
      BY <3>1, <3>2
  <2>3. CASE ~(mine /\ ~his) /\ ~(~mine /\ his)
    <3>1. s = 0 /\ my # 4 /\ their # 4
      BY <1>1, <1>2, <1>3, <1>6, <2>3
    <3> QED
      BY <3>1
  <2> QED
    BY <2>1, <2>2, <2>3
<1> QED
  BY <1>7, SMT DEF my, their, s

\* The bonus for being near the centre.
LEMMA BonusBounds ==
  ASSUME NEW p \in Cell
  PROVE  CenterBonus(p) \in 0..Size
<1> DEFINE mid == Size \div 2
           x   == p[1] - 1 - mid
           y   == p[2] - 1 - mid
<1>1. Size \in Nat /\ mid \in Nat /\ 2 * mid <= Size /\ Size <= 2 * mid + 1
  BY CaroAssumption
<1>2. p[1] \in 1..Size /\ p[2] \in 1..Size
  BY DEF Cell, Coord
<1> HIDE DEF mid
<1>3. x \in Int /\ y \in Int /\ -mid <= x /\ x <= mid /\ -mid <= y /\ y <= mid
  BY <1>1, <1>2
<1>4. CenterBonus(p) = Size - Abs(x) - Abs(y)
  BY Zenon DEF CenterBonus, mid
<1> HIDE DEF x, y
<1>5. Abs(x) \in 0..mid /\ Abs(y) \in 0..mid
  BY <1>1, <1>3 DEF Abs
<1> QED
  BY <1>1, <1>4, <1>5

\* A winning cell is worth at least a window of four, a cell that neither
\* player wins in less than one.
LEMMA ValueBounds ==
  ASSUME NEW b \in Boards, NEW p \in Empty(b), NEW me, NEW opp,
         me = MyMark(b), opp = OtherMark(me)
  PROVE  /\ Value(b, p) \in 0..(2000000 + Size)
         /\ p \in Wins(b, me) => Value(b, p) >= 100000
         /\ p \in Wins(b, opp) => Value(b, p) >= 90000
         /\ p \notin Wins(b, me) /\ p \notin Wins(b, opp) => Value(b, p) < 90000
<1> DEFINE W == Windows(p)
           h == [w \in W |-> WindowScore(b, w, me, opp)]
           n == Cardinality(W)
<1>1. me \in Mark /\ opp \in Mark /\ me # opp /\ p \in Cell
  BY DEF MyMark, OtherMark, Mark, Empty
<1>2. IsFiniteSet(W) /\ n \in 0..20
  BY FewWindows
<1>3. /\ \A w \in W : h[w] \in Nat /\ h[w] <= 100000
      /\ \A w \in W : Held(b, w, me) = 4 => h[w] = 100000
      /\ \A w \in W : Held(b, w, opp) = 4 => h[w] = 90000
      /\ \A w \in W : Held(b, w, me) # 4 /\ Held(b, w, opp) # 4 => h[w] <= 1000
  <2> SUFFICES ASSUME NEW w \in W
               PROVE  /\ h[w] \in Nat /\ h[w] <= 100000
                      /\ Held(b, w, me) = 4 => h[w] = 100000
                      /\ Held(b, w, opp) = 4 => h[w] = 90000
                      /\ Held(b, w, me) # 4 /\ Held(b, w, opp) # 4 => h[w] <= 1000
    OBVIOUS
  <2> DEFINE s  == WindowScore(b, w, me, opp)
             hw == h[w]
  <2>1. hw = s
    OBVIOUS
  <2>2. /\ s \in Nat /\ s <= 100000
        /\ Held(b, w, me) = 4 => s = 100000
        /\ Held(b, w, opp) = 4 => s = 90000
        /\ Held(b, w, me) # 4 /\ Held(b, w, opp) # 4 => s <= 1000
    BY <1>1, ScoreBounds
  <2> HIDE DEF s, hw
  <2>3. /\ hw \in Nat /\ hw <= 100000
        /\ Held(b, w, me) = 4 => hw = 100000
        /\ Held(b, w, opp) = 4 => hw = 90000
        /\ Held(b, w, me) # 4 /\ Held(b, w, opp) # 4 => hw <= 1000
    BY <2>1, <2>2
  <2> QED
    BY <2>3, SMT DEF hw
<1>4. PICK f : CellScore(b, p, me, opp) = f[W] /\ SumsUp(f, b, me, opp, W)
  BY <1>2, ScoreAdds
<1>5. f[{}] = 0 /\ \A s \in SUBSET W : s # {} => \E w \in s : f[s] = h[w] + f[s \ {w}]
  <2>1. \A w \in W : h[w] = WindowScore(b, w, me, opp)
    OBVIOUS
  <2> HIDE DEF h, W
  <2>2. \A s \in SUBSET W : s # {} => \E w \in s : f[s] = WindowScore(b, w, me, opp) + f[s \ {w}]
    BY <1>4 DEF SumsUp
  <2>3. \A s \in SUBSET W : \A w \in s : h[w] = WindowScore(b, w, me, opp)
    BY <2>1
  <2> QED
    BY <1>4, <2>2, <2>3 DEF SumsUp
<1>6. CenterBonus(p) \in 0..Size /\ Size \in Nat /\ Size < 70000
  BY <1>1, BonusBounds, CaroAssumption, AgentAssumption
<1>7. Value(b, p) = CenterBonus(p) + f[W]
  BY <1>4 DEF Value
<1>8. /\ p \in Wins(b, me) <=> \E w \in W : Held(b, w, me) = 4
      /\ p \in Wins(b, opp) <=> \E w \in W : Held(b, w, opp) = 4
  BY <1>1, WinIsWindow
<1> HIDE DEF h, W
<1>9. f[W] \in Nat /\ f[W] <= 100000 * n /\ \A w \in W : h[w] <= f[W]
  <2> DEFINE M == 100000
  <2>1. M \in Nat /\ \A w \in W : h[w] \in Nat /\ h[w] <= M
    BY <1>3
  <2> HIDE DEF M
  <2>2. \A w \in W : h[w] \in 0..M
    BY <2>1
  <2>3. f[W] \in Nat /\ f[W] <= M * n /\ \A w \in W : h[w] <= f[W]
    BY <1>2, <1>5, <2>1, <2>2, SumBounds
  <2> QED
    BY <2>3 DEF M
<1>10. ASSUME p \notin Wins(b, me), p \notin Wins(b, opp)
       PROVE  f[W] <= 1000 * n
  <2> DEFINE M == 1000
  <2>1. M \in Nat /\ \A w \in W : h[w] \in Nat /\ h[w] <= M
    BY <1>3, <1>8, <1>10
  <2> HIDE DEF M
  <2>2. \A w \in W : h[w] \in 0..M
    BY <2>1
  <2>3. f[W] \in Nat /\ f[W] <= M * n /\ \A w \in W : h[w] <= f[W]
    BY <1>2, <1>5, <2>1, <2>2, SumBounds
  <2> QED
    BY <2>3 DEF M
<1>11. p \in Wins(b, me) => f[W] >= 100000
  <2> SUFFICES ASSUME p \in Wins(b, me) PROVE f[W] >= 100000
    OBVIOUS
  <2>1. PICK w \in W : Held(b, w, me) = 4
    BY <1>8
  <2>2. h[w] = 100000 /\ h[w] <= f[W]
    BY <1>3, <1>9, <2>1
  <2> QED
    BY <1>9, <2>2
<1>12. p \in Wins(b, opp) => f[W] >= 90000
  <2> SUFFICES ASSUME p \in Wins(b, opp) PROVE f[W] >= 90000
    OBVIOUS
  <2>1. PICK w \in W : Held(b, w, opp) = 4
    BY <1>8
  <2>2. h[w] = 90000 /\ h[w] <= f[W]
    BY <1>3, <1>9, <2>1
  <2> QED
    BY <1>9, <2>2
<1> HIDE DEF n
<1> QED
  BY <1>2, <1>6, <1>7, <1>9, <1>10, <1>11, <1>12

-----------------------------------------------------------------------------
(* The move of the agent                                                   *)

\* The order of the cells decides between equal values, so there is one best cell.
LEMMA BestIsBest ==
  ASSUME NEW b, Empty(b) # {}, NEW M \in Nat, \A p \in Empty(b) : Value(b, p) \in 0..M
  PROVE  BestMove(b) \in Empty(b) /\ \A q \in Empty(b) : Value(b, q) <= Value(b, BestMove(b))
<1> DEFINE E   == Empty(b)
           val == [p \in E |-> Value(b, p)]
           Better(p, q) == \/ val[p] > val[q]
                           \/ val[p] = val[q] /\ Before(p, q)
           B(p) == p \in E /\ \A q \in E \ {p} : Better(p, q)
<1>1. \A p \in E : val[p] = Value(b, p) /\ val[p] \in 0..M
  OBVIOUS
<1>2. \A p \in E : p[1] \in Nat /\ p[2] \in Nat /\ p = <<p[1], p[2]>>
  BY CaroAssumption DEF Empty, Cell, Coord
<1>3. BestMove(b) = CHOOSE p \in E : \A q \in E \ {p} : Better(p, q)
  BY Zenon DEF BestMove
<1> HIDE DEF val, E
<1>4. \E p \in E : \A q \in E : val[q] <= val[p]
  <2> DEFINE T == {M - val[p] : p \in E}
  <2>1. T \in SUBSET Nat /\ T # {}
    BY <1>1 DEF E
  <2>2. PICK t \in T : \A u \in T : t <= u
    <3> HIDE DEF T
    <3> QED
      BY <2>1, Least
  <2>3. PICK p \in E : t = M - val[p]
    BY <2>2
  <2>4. \A q \in E : M - val[p] <= M - val[q]
    BY <2>2, <2>3
  <2> QED
    BY <1>1, <2>4
<1>5. PICK p0 \in E : \A q \in E : val[q] <= val[p0]
  BY <1>4
<1>6. \E p \in E : val[p] = val[p0] /\ \A q \in E : val[q] = val[p0] => p[2] <= q[2]
  <2> DEFINE T == {p[2] : p \in {q \in E : val[q] = val[p0]}}
  <2>1. T \in SUBSET Nat /\ T # {}
    BY <1>2, <1>5
  <2>2. PICK t \in T : \A u \in T : t <= u
    <3> HIDE DEF T
    <3> QED
      BY <2>1, Least
  <2> QED
    BY <2>2
<1>7. PICK p1 \in E : val[p1] = val[p0] /\ \A q \in E : val[q] = val[p0] => p1[2] <= q[2]
  BY <1>6
<1>8. \E p \in E : /\ val[p] = val[p0] /\ p[2] = p1[2]
                   /\ \A q \in E : val[q] = val[p0] /\ q[2] = p1[2] => p[1] <= q[1]
  <2> DEFINE T == {p[1] : p \in {q \in E : val[q] = val[p0] /\ q[2] = p1[2]}}
  <2>1. T \in SUBSET Nat /\ T # {}
    BY <1>2, <1>7
  <2>2. PICK t \in T : \A u \in T : t <= u
    <3> HIDE DEF T
    <3> QED
      BY <2>1, Least
  <2> QED
    BY <2>2
<1>9. PICK p2 \in E : /\ val[p2] = val[p0] /\ p2[2] = p1[2]
                      /\ \A q \in E : val[q] = val[p0] /\ q[2] = p1[2] => p2[1] <= q[1]
  BY <1>8
<1>10. B(p2)
  <2> SUFFICES ASSUME NEW q \in E, q # p2 PROVE Better(p2, q)
    OBVIOUS
  <2>1. val[q] <= val[p2] /\ val[q] \in Nat /\ val[p2] \in Nat
    BY <1>1, <1>5, <1>9
  <2>2. CASE val[q] = val[p2]
    <3>1. p2[2] <= q[2] /\ (q[2] = p2[2] => p2[1] <= q[1])
      BY <1>7, <1>9, <2>2
    <3>2. q[2] = p2[2] => q[1] # p2[1]
      BY <1>2
    <3>3. Before(p2, q)
      BY <1>2, <3>1, <3>2 DEF Before
    <3> QED
      BY <2>2, <3>3
  <2> QED
    BY <2>1, <2>2
<1>11. B(BestMove(b))
  <2> HIDE DEF Better
  <2> QED
    BY <1>3, <1>10
<1>12. ASSUME NEW q \in E PROVE val[q] <= val[BestMove(b)]
  <2>1. BestMove(b) \in E
    BY <1>11
  <2>2. val[q] \in Nat /\ val[BestMove(b)] \in Nat
    BY <1>1, <2>1
  <2>3. q # BestMove(b) => val[BestMove(b)] >= val[q]
    BY <1>11, <2>2
  <2> QED
    BY <2>2, <2>3
<1> QED
  BY <1>1, <1>11, <1>12 DEF E

\* The agent leaves no win and no threat on the board unanswered, and where
\* there is a win and no threat it wins.
LEMMA AnswersThreats ==
  ASSUME NEW b \in Boards, NEW me, NEW opp, me = MyMark(b), opp = OtherMark(me),
         Empty(b) # {}
  PROVE  /\ BestMove(b) \in Empty(b)
         /\ Wins(b, me) \union Wins(b, opp) # {} => BestMove(b) \in Wins(b, me) \union Wins(b, opp)
         /\ Wins(b, me) # {} /\ Wins(b, opp) = {} => BestMove(b) \in Wins(b, me)
<1> DEFINE m == BestMove(b)
<1>1. 2000000 + Size \in Nat
  BY CaroAssumption
<1>2. \A p \in Empty(b) :
        /\ Value(b, p) \in 0..(2000000 + Size)
        /\ p \in Wins(b, me) => Value(b, p) >= 100000
        /\ p \in Wins(b, opp) => Value(b, p) >= 90000
        /\ p \notin Wins(b, me) /\ p \notin Wins(b, opp) => Value(b, p) < 90000
  BY ValueBounds
<1>3. m \in Empty(b) /\ \A q \in Empty(b) : Value(b, q) <= Value(b, m)
  BY <1>1, <1>2, BestIsBest
<1> HIDE DEF m
<1>4. Wins(b, me) \subseteq Empty(b) /\ Wins(b, opp) \subseteq Empty(b)
  BY DEF Wins
<1>5. ASSUME NEW q \in Wins(b, me) \union Wins(b, opp)
      PROVE  m \in Wins(b, me) \union Wins(b, opp)
  <2>1. Value(b, q) \in Nat /\ Value(b, q) >= 90000 /\ Value(b, q) <= Value(b, m) /\ Value(b, m) \in Nat
    BY <1>2, <1>3, <1>4
  <2> QED
    BY <1>2, <1>3, <2>1
<1> QED
  BY <1>3, <1>5 DEF m

\* What a move of the agent does: it takes a win or stops a threat, if there is
\* any, and its own win ends the game.
LEMMA AgentAnswers ==
  ASSUME AgentInv, KnowsItsMark, Turn, AgentMoves
  PROVE  \E m \in Empty(cells) :
           /\ cells' = [cells EXCEPT ![m] = Own]
           /\ m \in Wins(cells, Own) => result' = Own
           /\ Wins(cells, Own) \union Wins(cells, Their) # {} =>
                m \in Wins(cells, Own) \union Wins(cells, Their)
           /\ Wins(cells, Own) # {} /\ Wins(cells, Their) = {} => m \in Wins(cells, Own)
<1> DEFINE m == BestMove(cells)
<1>1. cells \in Boards /\ Own = MyMark(cells) /\ Their = OtherMark(Own)
  BY DEF AgentInv, TypeOK, Boards, KnowsItsMark, Turn, Own, Their, OtherMark, PlayerMark
<1>2. Empty(cells) # {}
  BY DEF AgentInv, DrawExact, Turn, IsOver, Empty
<1>3. /\ m \in Empty(cells)
      /\ Wins(cells, Own) \union Wins(cells, Their) # {} =>
           m \in Wins(cells, Own) \union Wins(cells, Their)
      /\ Wins(cells, Own) # {} /\ Wins(cells, Their) = {} => m \in Wins(cells, Own)
  BY <1>1, <1>2, AnswersThreats
<1>4. Legal(m)
  BY <1>3 DEF Legal, Empty
<1>5. Accepted(m)
  BY <1>4 DEF AgentMoves, ApplyMove, Rejected
<1> HIDE DEF m
<1>6. PlayerMark(current) = Own
  BY DEF AgentMoves, Own
<1>7. /\ cells' = [cells EXCEPT ![m] = Own]
      /\ result' = Outcome(cells', m, Own)
  BY <1>5, <1>6 DEF Accepted
<1>8. m \in Wins(cells, Own) => result' = Own
  BY <1>7 DEF Wins, Outcome
<1> QED
  BY <1>3, <1>7, <1>8

\* The agent wins whenever it can and the opponent threatens nothing, whatever
\* the windows of the other cells add up to.
THEOREM WinIsTaken == AgentSpec => WinsUnlessThreatened
<1>1. ASSUME AgentInv, KnowsItsMark, [AgentNext]_agentVars
      PROVE  [Turn /\ Wins(cells, Own) # {} /\ Wins(cells, Their) = {} => result' = Own]_agentVars
  <2> SUFFICES ASSUME AgentNext, Turn, Wins(cells, Own) # {}, Wins(cells, Their) = {}
               PROVE  result' = Own
    BY <1>1
  <2>1. AgentMoves
    BY DEF AgentNext, OpponentMoves, Turn
  <2> QED
    BY <1>1, <2>1, AgentAnswers
<1> QED
  BY <1>1, AgentInvHolds, MarkInferred, PTL DEF AgentSpec, WinsUnlessThreatened

\* A single threat is always stopped: if the opponent can win after a move of
\* the agent, it threatened to in two cells before, and one move stops but one.
THEOREM OneThreatIsBlocked == AgentSpec => LosesToTwoThreats
<1>1. ASSUME AgentInv, KnowsItsMark, [AgentNext]_agentVars
      PROVE  [Turn /\ ~IsOver' /\ Wins(cells', Their) # {}
                => Cardinality(Wins(cells, Their)) > 1]_agentVars
  <2> SUFFICES ASSUME AgentNext, Turn, ~IsOver', Wins(cells', Their) # {}
               PROVE  Cardinality(Wins(cells, Their)) > 1
    BY <1>1
  <2>1. AgentMoves
    BY DEF AgentNext, OpponentMoves, Turn
  <2>2. PICK m \in Empty(cells) :
           /\ cells' = [cells EXCEPT ![m] = Own]
           /\ m \in Wins(cells, Own) => result' = Own
           /\ Wins(cells, Own) \union Wins(cells, Their) # {} =>
                m \in Wins(cells, Own) \union Wins(cells, Their)
    BY <1>1, <2>1, AgentAnswers
  <2>3. PICK c \in Wins(cells', Their) : TRUE
    OBVIOUS
  <2>4. Own \in Mark /\ Their \in Mark /\ Own # Their
    BY <1>1 DEF AgentInv, Own, Their, PlayerMark, Mark
  <2>5. m \in Cell /\ cells \in Boards /\ cells' \in Boards /\ cells'[m] = Own
    BY <1>1, <2>2, <2>4 DEF AgentInv, TypeOK, Boards, Empty
  <2>6. c \in Empty(cells') /\ c # m /\ c \in Empty(cells)
    <3>1. c \in Empty(cells')
      BY <2>3 DEF Wins
    <3>2. c # m
      BY <2>4, <2>5, <3>1 DEF Empty, Mark
    <3> QED
      BY <2>2, <2>5, <3>1, <3>2 DEF Empty, Boards
  <2>7. c \in Wins(cells, Their)
    <3>1. PICK w \in Windows(c) : Held(cells', w, Their) = 4
      BY <2>3, <2>4, <2>5, <2>6, WinIsWindow
    <3>2. \A x \in w \ {c} : cells'[x] = Their
      BY <2>4, <2>5, <2>6, <3>1, HeldFour
    <3>3. w \subseteq Cell
      BY <2>6, WindowCells DEF Empty
    <3>4. \A x \in w \ {c} : cells[x] = Their
      BY <2>2, <2>4, <2>5, <3>2, <3>3 DEF Boards
    <3>5. Held(cells, w, Their) = 4
      BY <2>4, <2>5, <2>6, <3>4, HeldFour
    <3> QED
      BY <2>4, <2>5, <2>6, <3>5, WinIsWindow
  <2>8. m \notin Wins(cells, Own)
    BY <2>2, <2>4 DEF IsOver, Mark
  <2>9. m \in Wins(cells, Their)
    BY <2>2, <2>7, <2>8
  <2>10. IsFiniteSet(Wins(cells, Their))
    BY CellFinite, FS_Subset DEF Wins, Empty
  <2>11. {m, c} \subseteq Wins(cells, Their) /\ Cardinality({m, c}) = 2
    <3>1. IsFiniteSet({m}) /\ Cardinality({m}) = 1
      BY FS_Singleton
    <3>2. Cardinality({m} \union {c}) = 2
      BY <2>6, <3>1, FS_AddElement
    <3>3. {m} \union {c} = {m, c}
      OBVIOUS
    <3> QED
      BY <2>7, <2>9, <3>2, <3>3
  <2>12. 2 <= Cardinality(Wins(cells, Their))
    BY <2>10, <2>11, FS_Subset
  <2>13. Cardinality(Wins(cells, Their)) \in Nat
    BY <2>10, FS_CardinalityType
  <2> QED
    BY <2>12, <2>13
<1> QED
  BY <1>1, AgentInvHolds, MarkInferred, PTL DEF AgentSpec, LosesToTwoThreats
=============================================================================
