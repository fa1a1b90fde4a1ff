----------------------------- MODULE CaroProofs -----------------------------
(***************************************************************************)
(* Proofs about the game engine for every board size and winning length.   *)
(***************************************************************************)
EXTENDS Caro, FiniteSetTheorems, WellFoundedInduction, TLAPS

\* A non-empty set of naturals has a least element.
LEMMA Least ==
  ASSUME NEW T \in SUBSET Nat, T # {}
  PROVE  \E x \in T : \A y \in T : x <= y
<1>1. PICK x \in T : \A y \in T : ~(<<y, x>> \in OpToRel(<, Nat))
  BY NatLessThanWellFounded, WFMin
<1>2. \A y \in T : y \in Nat /\ x \in Nat
  OBVIOUS
<1>3. \A y \in Nat : y < x => <<y, x>> \in OpToRel(<, Nat)
  BY Zenon DEF OpToRel
<1>4. \A y \in T : ~(y < x)
  BY <1>1, <1>2, <1>3, Zenon
<1> QED BY <1>2, <1>4

-----------------------------------------------------------------------------
(* The walk along a direction                                              *)

\* The walk ends: Run is the number of consecutive marks from p, exactly
\* unless there are WinLen - 1 or more.
LEMMA RunStops ==
  ASSUME NEW b, NEW p, NEW d, NEW sign, NEW m
  PROVE  /\ Run(b, p, d, sign, m) \in 0..(WinLen - 1)
         /\ \A i \in 1..Run(b, p, d, sign, m) : Marked(b, Step(p, d, sign * i), m)
         /\ \/ Run(b, p, d, sign, m) = WinLen - 1
            \/ ~Marked(b, Step(p, d, sign * (Run(b, p, d, sign, m) + 1)), m)
<1> DEFINE At(i) == Marked(b, Step(p, d, sign * i), m)
           Ends == {k \in 0..(WinLen - 1) : k = WinLen - 1 \/ ~At(k + 1)}
           Is(k) == /\ \A i \in 1..k : At(i)
                    /\ k = WinLen - 1 \/ ~At(k + 1)
<1> HIDE DEF At
<1>1. Ends \in SUBSET Nat /\ WinLen - 1 \in Ends
  BY CaroAssumption
<1>2. PICK k \in Ends : \A j \in Ends : k <= j
  <2> HIDE DEF Ends
  <2> QED BY <1>1, Least
<1>3. \A i \in 1..k : At(i)
  <2> SUFFICES ASSUME NEW i \in 1..k, ~At(i) PROVE FALSE
    OBVIOUS
  <2>1. i - 1 \in 0..(WinLen - 1) /\ ~At((i - 1) + 1)
    BY CaroAssumption
  <2>2. i - 1 \in Ends
    BY <2>1
  <2> QED BY <1>2, <2>2
<1>4. k \in 0..(WinLen - 1) /\ Is(k)
  BY <1>3
<1> HIDE DEF Is
<1>5. Run(b, p, d, sign, m) = CHOOSE j \in 0..(WinLen - 1) : Is(j)
  BY DEF Run, Is, At
<1>6. Run(b, p, d, sign, m) \in 0..(WinLen - 1) /\ Is(Run(b, p, d, sign, m))
  BY <1>4, <1>5
<1> QED BY <1>6 DEF Is, At

\* A stretch of marks from p is no longer than the walk finds.
LEMMA RunReaches ==
  ASSUME NEW b, NEW p, NEW d, NEW sign, NEW m, NEW n \in 0..(WinLen - 1),
         \A i \in 1..n : Marked(b, Step(p, d, sign * i), m)
  PROVE  Run(b, p, d, sign, m) >= n
<1> DEFINE r == Run(b, p, d, sign, m)
<1>1. r \in 0..(WinLen - 1) /\ (r = WinLen - 1 \/ ~Marked(b, Step(p, d, sign * (r + 1)), m))
  BY RunStops
<1> HIDE DEF r
<1>2. r < n => r + 1 \in 1..n
  BY <1>1, CaroAssumption
<1>3. r >= n
  BY <1>1, <1>2, CaroAssumption
<1> QED BY <1>3 DEF r

-----------------------------------------------------------------------------
(* The count around a move and the lines of the board                      *)

\* Steps along one direction add up.
LEMMA StepAdd ==
  ASSUME NEW p \in Int \X Int, NEW d \in Directions, NEW i \in Int, NEW j \in Int
  PROVE  /\ Step(p, d, i) \in Int \X Int
         /\ Step(Step(p, d, i), d, j) = Step(p, d, i + j)
         /\ Step(p, d, 0) = p
<1>1. CASE d = <<0, 1>> BY <1>1 DEF Step
<1>2. CASE d = <<1, 0>> BY <1>2 DEF Step
<1>3. CASE d = <<1, 1>> BY <1>3 DEF Step
<1>4. CASE d = <<1, -1>> BY <1>4 DEF Step
<1> QED BY <1>1, <1>2, <1>3, <1>4 DEF Directions

LEMMA CellIsPair == Cell \subseteq Int \X Int
BY CaroAssumption DEF Cell, Coord

\* The count finds WinLen marks in a row, one of which is the new one.
LEMMA WinIsRun ==
  ASSUME NEW b, NEW m, NEW p \in Cell, b[p] = m, IsWinningMove(b, p, m)
  PROVE  \E d \in Directions, o \in (1 - WinLen)..0 :
           \A i \in 0..(WinLen - 1) : Marked(b, Step(p, d, o + i), m)
<1>1. PICK d \in Directions : 1 + Run(b, p, d, 1, m) + Run(b, p, d, -1, m) >= WinLen
  BY DEF IsWinningMove
<1> DEFINE fwd == Run(b, p, d, 1, m)
           bwd == Run(b, p, d, -1, m)
<1>2. /\ fwd \in 0..(WinLen - 1) /\ bwd \in 0..(WinLen - 1)
      /\ \A i \in 1..fwd : Marked(b, Step(p, d, 1 * i), m)
      /\ \A i \in 1..bwd : Marked(b, Step(p, d, (-1) * i), m)
  BY RunStops
<1>3. 1 + fwd + bwd >= WinLen
  BY <1>1
<1> HIDE DEF fwd, bwd
<1>4. p \in Int \X Int /\ Marked(b, p, m)
  BY CellIsPair DEF Marked
<1>5. ASSUME NEW j \in (-bwd)..fwd
      PROVE  Marked(b, Step(p, d, j), m)
  <2>1. CASE j > 0
    BY <1>2, <2>1
  <2>2. CASE j = 0
    BY <1>4, <2>2, StepAdd
  <2>3. CASE j < 0
    <3>1. -j \in 1..bwd /\ (-1) * (-j) = j
      BY <1>2, <2>3
    <3> QED BY <1>2, <3>1
  <2> QED BY <1>2, <2>1, <2>2, <2>3
<1>6. ASSUME NEW i \in 0..(WinLen - 1)
      PROVE  Marked(b, Step(p, d, (-bwd) + i), m)
  <2>1. (-bwd) + i \in (-bwd)..fwd
    BY <1>2, <1>3, CaroAssumption
  <2> QED BY <1>5, <2>1
<1>7. -bwd \in (1 - WinLen)..0
  BY <1>2, CaroAssumption
<1> QED BY <1>6, <1>7

\* The count invents no line.
LEMMA WinIsLine ==
  ASSUME NEW b, NEW m, NEW p \in Cell, b[p] = m, IsWinningMove(b, p, m)
  PROVE  Line(b, m)
<1>1. PICK d \in Directions, o \in (1 - WinLen)..0 :
        \A i \in 0..(WinLen - 1) : Marked(b, Step(p, d, o + i), m)
  BY WinIsRun
<1> DEFINE q == Step(p, d, o)
<1>2. p \in Int \X Int /\ o \in Int
  BY CellIsPair, CaroAssumption
<1>3. q = Step(p, d, o + 0)
  BY <1>2
<1>4. q \in Cell
  BY <1>1, <1>3, CaroAssumption DEF Marked
<1>5. \A i \in 0..(WinLen - 1) : Step(q, d, i) = Step(p, d, o + i)
  BY <1>2, StepAdd, CaroAssumption
<1> HIDE DEF q
<1> QED BY <1>1, <1>4, <1>5 DEF Line

\* The count misses no line through the move.
LEMMA LineIsWin ==
  ASSUME NEW b, NEW m, NEW p \in Cell, NEW q \in Cell, NEW d \in Directions,
         \A i \in 0..(WinLen - 1) : Marked(b, Step(q, d, i), m),
         NEW k \in 0..(WinLen - 1), Step(q, d, k) = p
  PROVE  IsWinningMove(b, p, m)
<1> DEFINE fwd == Run(b, p, d, 1, m)
           bwd == Run(b, p, d, -1, m)
<1>1. q \in Int \X Int /\ k \in Int
  BY CellIsPair, CaroAssumption
<1>2. ASSUME NEW j \in Int
      PROVE  Step(p, d, j) = Step(q, d, k + j)
  BY <1>1, StepAdd
<1>3. \A i \in 1..(WinLen - 1 - k) : Marked(b, Step(p, d, 1 * i), m)
  <2> TAKE i \in 1..(WinLen - 1 - k)
  <2>1. 1 * i = i /\ i \in Int /\ k + i \in 0..(WinLen - 1)
    BY CaroAssumption
  <2> QED BY <1>2, <2>1
<1>4. \A i \in 1..k : Marked(b, Step(p, d, (-1) * i), m)
  <2> TAKE i \in 1..k
  <2>1. (-1) * i = -i /\ -i \in Int /\ k + (-i) \in 0..(WinLen - 1)
    BY CaroAssumption
  <2>2. Step(p, d, -i) = Step(q, d, k + (-i))
    BY <1>2, <2>1
  <2> QED BY <2>1, <2>2
<1>5. fwd >= WinLen - 1 - k
  <2>1. WinLen - 1 - k \in 0..(WinLen - 1)
    BY CaroAssumption
  <2> QED BY <1>3, <2>1, RunReaches
<1>6. bwd >= k
  BY <1>4, RunReaches
<1>7. fwd \in 0..(WinLen - 1) /\ bwd \in 0..(WinLen - 1)
  BY RunStops
<1> HIDE DEF fwd, bwd
<1>8. 1 + fwd + bwd >= WinLen
  BY <1>5, <1>6, <1>7, CaroAssumption
<1> QED BY <1>8 DEF fwd, bwd, IsWinningMove

\* After a move on a board without lines, a mark has a line exactly if it is
\* the mark that moved and the count around the move says so.
LEMMA MoveMakesLine ==
  ASSUME NEW b \in [Cell -> Mark \union {"."}], NEW p \in Cell, b[p] = ".",
         NEW m \in Mark, \A n \in Mark : ~Line(b, n), NEW n \in Mark
  PROVE  LET b2 == [b EXCEPT ![p] = m]
         IN  Line(b2, n) <=> n = m /\ IsWinningMove(b2, p, m)
<1> DEFINE b2 == [b EXCEPT ![p] = m]
<1>1. b2[p] = m /\ \A c \in Cell \ {p} : b2[c] = b[c]
  OBVIOUS
<1> HIDE DEF b2
<1>2. n = m /\ IsWinningMove(b2, p, m) => Line(b2, n)
  BY <1>1, WinIsLine
<1>3. ASSUME Line(b2, n) PROVE n = m /\ IsWinningMove(b2, p, m)
  <2>1. PICK q \in Cell, d \in Directions :
          \A i \in 0..(WinLen - 1) : Marked(b2, Step(q, d, i), n)
    BY <1>3 DEF Line
  <2>2. PICK k \in 0..(WinLen - 1) : ~Marked(b, Step(q, d, k), n)
    BY DEF Line
  <2>3. Step(q, d, k) = p /\ n = m
    BY <1>1, <2>1, <2>2 DEF Marked
  <2> QED BY <2>1, <2>3, LineIsWin
<1> QED BY <1>2, <1>3 DEF b2

-----------------------------------------------------------------------------
(* Counting marks                                                          *)

LEMMA CellFinite == IsFiniteSet(Cell) /\ Cardinality(Cell) = Size * Size
<1>1. IsFiniteSet(Coord) /\ Cardinality(Coord) = Size
  BY FS_Interval, CaroAssumption DEF Coord
<1> QED BY <1>1, FS_Product DEF Cell

\* One more mark on an empty cell.
LEMMA CountMove ==
  ASSUME NEW b \in [Cell -> Mark \union {"."}], NEW p \in Cell, b[p] = ".",
         NEW m \in Mark, NEW S \in SUBSET Mark, NEW b2, b2 = [b EXCEPT ![p] = m]
  PROVE  /\ Count(b, S) \in Nat
         /\ Count(b2, S) <= Size * Size
         /\ Count(b2, S) = IF m \in S THEN Count(b, S) + 1 ELSE Count(b, S)
<1> DEFINE Old == {c \in Cell : b[c] \in S}
           New == {c \in Cell : b2[c] \in S}
<1>1. /\ IsFiniteSet(Old) /\ Cardinality(Old) \in Nat
      /\ Cardinality(New) <= Size * Size
  BY CellFinite, FS_Subset, FS_CardinalityType
<1>2. p \notin Old
  BY DEF Mark
<1>3. CASE m \in S
  <2>1. New = Old \union {p}
    BY <1>3
  <2> QED BY <1>1, <1>2, <1>3, <2>1, FS_AddElement DEF Count
<1>4. CASE m \notin S
  <2>1. New = Old
    BY <1>2, <1>4
  <2> QED BY <1>1, <1>4, <2>1 DEF Count
<1> QED BY <1>3, <1>4

-----------------------------------------------------------------------------
(* The invariant                                                           *)

CaroInv == TypeOK /\ WinExact /\ DrawExact /\ TurnsAlternate

LEMMA CaroInit == Init => CaroInv
<1> SUFFICES ASSUME Init PROVE CaroInv
  OBVIOUS
<1>1. <<1, 1>> \in Cell /\ 0 \in 0..(WinLen - 1) /\ Size * Size \in Nat
  BY CaroAssumption DEF Cell, Coord
<1>2. TypeOK
  BY <1>1 DEF Init, TypeOK
<1>3. \A m \in Mark : ~Line(cells, m)
  BY <1>1 DEF Init, Line, Marked, Mark
<1>4. WinExact
  BY <1>3 DEF Init, WinExact, Mark
<1>5. DrawExact
  BY <1>1 DEF Init, DrawExact, IsBoardFull
<1>6. TurnsAlternate
  <2>1. \A S \in SUBSET Mark : {c \in Cell : cells[c] \in S} = {}
    BY DEF Init, Mark
  <2>2. \A S \in SUBSET Mark : Count(cells, S) = 0
    BY <2>1, FS_EmptySet DEF Count
  <2> QED BY <2>2 DEF Init, TurnsAlternate, Mark
<1> QED BY <1>2, <1>4, <1>5, <1>6 DEF CaroInv

LEMMA CaroMove ==
  ASSUME CaroInv, ~IsOver, NEW p \in Input, Accepted(p)
  PROVE  CaroInv'
<1>1. PICK m \in Mark :
         /\ m = PlayerMark(current) /\ p \in Cell /\ cells[p] = "."
         /\ cells' = [cells EXCEPT ![p] = m] /\ cells \in [Cell -> Mark \union {"."}]
  BY DEF Accepted, Legal, CaroInv, TypeOK, PlayerMark, Mark
<1> DEFINE win == IsWinningMove(cells', p, m)
<1>2. \A n \in Mark : ~Line(cells, n)
  BY DEF CaroInv, WinExact, IsOver, Mark
<1>3. \A n \in Mark : Line(cells', n) <=> n = m /\ win
  BY <1>1, <1>2, MoveMakesLine
<1>4. result' = IF win THEN m ELSE IF IsBoardFull(cells') THEN "draw" ELSE "none"
  BY <1>1 DEF Accepted, Outcome
<1>5. \A S \in SUBSET Mark :
        /\ Count(cells, S) \in Nat /\ Count(cells', S) <= Size * Size
        /\ Count(cells', S) = IF m \in S THEN Count(cells, S) + 1 ELSE Count(cells, S)
  BY <1>1, CountMove DEF Count
<1>6. turnCount' = turnCount + 1 /\ current' = (current + 1) % 2
  BY DEF Accepted
<1> HIDE DEF win
<1>7. WinExact'
  BY <1>1, <1>3, <1>4 DEF WinExact, Mark
<1>8. DrawExact'
  <2>1. (IsBoardFull(cells))' = IsBoardFull(cells')
    BY DEF IsBoardFull
  <2> QED BY <1>1, <1>3, <1>4, <2>1 DEF DrawExact, Mark, IsBoardFull
<1>9. TurnsAlternate'
  <2>1. Mark \in SUBSET Mark /\ {"X"} \in SUBSET Mark /\ {"O"} \in SUBSET Mark
    BY DEF Mark
  <2>2. /\ turnCount = Count(cells, Mark)
        /\ Count(cells, {"X"}) = Count(cells, {"O"}) + current
        /\ current \in {0, 1}
    BY DEF CaroInv, TurnsAlternate, TypeOK
  <2>3. turnCount' = Count(cells', Mark)
    BY <1>1, <1>5, <1>6, <2>1, <2>2
  <2>4. CASE current = 0
    <3>1. m = "X" /\ current' = 1
      BY <1>1, <1>6, <2>4 DEF PlayerMark
    <3>2. Count(cells', {"X"}) = Count(cells, {"X"}) + 1
          /\ Count(cells', {"O"}) = Count(cells, {"O"})
      BY <1>5, <2>1, <3>1
    <3> QED BY <1>5, <2>1, <2>2, <2>3, <2>4, <3>1, <3>2 DEF TurnsAlternate
  <2>5. CASE current = 1
    <3>1. m = "O" /\ current' = 0
      BY <1>1, <1>6, <2>5 DEF PlayerMark
    <3>2. Count(cells', {"X"}) = Count(cells, {"X"})
          /\ Count(cells', {"O"}) = Count(cells, {"O"}) + 1
      BY <1>5, <2>1, <3>1
    <3> QED BY <1>5, <2>1, <2>2, <2>3, <2>5, <3>1, <3>2 DEF TurnsAlternate
  <2> QED BY <2>2, <2>4, <2>5
<1>10. TypeOK'
  <2>1. turnCount' \in Nat /\ turnCount' <= Size * Size /\ Size * Size \in Nat
    <3>1. turnCount' = Count(cells', Mark) /\ Mark \in SUBSET Mark
      BY <1>9 DEF TurnsAlternate
    <3> QED BY <1>5, <1>6, <3>1, CaroAssumption DEF CaroInv, TypeOK
  <2>2. current' \in {0, 1}
    BY <1>6 DEF CaroInv, TypeOK
  <2>3. result' \in Mark \union {"none", "draw"}
    BY <1>1, <1>4
  <2> QED BY <1>1, <2>1, <2>2, <2>3 DEF TypeOK
<1> QED BY <1>7, <1>8, <1>9, <1>10 DEF CaroInv

LEMMA CaroStep == CaroInv /\ [Next]_vars => CaroInv'
<1> SUFFICES ASSUME CaroInv, [Next]_vars PROVE CaroInv'
  OBVIOUS
<1>1. ASSUME NEW p \in Input, ~IsOver, Accepted(p) PROVE CaroInv'
  BY <1>1, CaroMove
<1>2. CASE UNCHANGED vars
  BY <1>2 DEF vars, CaroInv, TypeOK, WinExact, DrawExact, TurnsAlternate, Count,
     IsBoardFull, Line, Marked
<1> QED BY <1>1, <1>2 DEF Next, ApplyMove, Rejected

\* For every board size and winning length the engine names a winner exactly
\* when the board shows a line of it, although it only ever counts around the
\* last move.
THEOREM WinnerExact == Spec => []WinExact
<1>1. CaroInv => WinExact BY DEF CaroInv
<1> QED BY <1>1, CaroInit, CaroStep, PTL DEF Spec

\* A draw is a full board without a line, and a game that goes on has a free
\* cell for the player to move.
THEOREM DrawnExact == Spec => []DrawExact
<1>1. CaroInv => DrawExact BY DEF CaroInv
<1> QED BY <1>1, CaroInit, CaroStep, PTL DEF Spec

\* Types, and one mark per accepted move with X and O in turn.
THEOREM TurnsCorrect == Spec => [](TypeOK /\ TurnsAlternate)
<1>1. CaroInv => TypeOK /\ TurnsAlternate BY DEF CaroInv
<1> QED BY <1>1, CaroInit, CaroStep, PTL DEF Spec

-----------------------------------------------------------------------------
(* The engine implements GameRules                                         *)

\* A line has WinLen different cells.
LEMMA LineCounts ==
  ASSUME NEW b, NEW m, Line(b, m)
  PROVE  Count(b, {m}) \in Nat /\ Count(b, {m}) >= WinLen
<1>1. PICK p \in Cell, d \in Directions : \A i \in 0..(WinLen - 1) : Marked(b, Step(p, d, i), m)
  BY DEF Line
<1> DEFINE T == {c \in Cell : b[c] \in {m}}
           f == [i \in 0..(WinLen - 1) |-> Step(p, d, i)]
<1>2. f \in [0..(WinLen - 1) -> T]
  BY <1>1 DEF Marked
<1>3. ASSUME NEW i \in 0..(WinLen - 1), NEW j \in 0..(WinLen - 1), f[i] = f[j]
      PROVE  i = j
  <2>1. p \in Int \X Int /\ i \in Int /\ j \in Int /\ Step(p, d, i) = Step(p, d, j)
    BY <1>3, CellIsPair, CaroAssumption
  <2>2. CASE d = <<0, 1>> BY <2>1, <2>2 DEF Step
  <2>3. CASE d = <<1, 0>> BY <2>1, <2>3 DEF Step
  <2>4. CASE d = <<1, 1>> BY <2>1, <2>4 DEF Step
  <2>5. CASE d = <<1, -1>> BY <2>1, <2>5 DEF Step
  <2> QED BY <2>2, <2>3, <2>4, <2>5 DEF Directions
<1>4. f \in Injection(0..(WinLen - 1), T)
  BY <1>2, <1>3 DEF Injection, IsInjective
<1> HIDE DEF f
<1>5. IsFiniteSet(T) /\ Cardinality(T) \in Nat
  BY CellFinite, FS_Subset, FS_CardinalityType
<1>6. Cardinality(0..(WinLen - 1)) = WinLen
  BY FS_Interval, CaroAssumption
<1> QED BY <1>4, <1>5, <1>6, FS_Injection DEF Count

\* A mark is one of the two.
LEMMA MarksCount ==
  ASSUME NEW b
  PROVE  /\ Count(b, {"X"}) \in Nat /\ Count(b, {"O"}) \in Nat
         /\ Count(b, Mark) = Count(b, {"X"}) + Count(b, {"O"})
<1> DEFINE X == {c \in Cell : b[c] \in {"X"}}
           O == {c \in Cell : b[c] \in {"O"}}
<1>1. IsFiniteSet(X) /\ IsFiniteSet(O) /\ Cardinality(X) \in Nat /\ Cardinality(O) \in Nat
  BY CellFinite, FS_Subset, FS_CardinalityType
<1>2. X \cap O = {} /\ {c \in Cell : b[c] \in Mark} = X \union O
  BY DEF Mark
<1> HIDE DEF X, O
<1>3. Cardinality(X \union O) = Cardinality(X) + Cardinality(O)
  <2>1. Cardinality(X \cap O) = 0
    BY <1>2, FS_EmptySet
  <2>2. Cardinality(X \union O) = Cardinality(X) + Cardinality(O) - Cardinality(X \cap O)
    BY <1>1, FS_Union, Zenon
  <2> QED BY <1>1, <2>1, <2>2
<1> USE DEF X, O
<1> QED BY <1>1, <1>2, <1>3 DEF Count

\* The board is full when every cell has been counted.
LEMMA FullCounts ==
  ASSUME NEW b \in [Cell -> Mark \union {"."}]
  PROVE  IsBoardFull(b) <=> Count(b, Mark) = Size * Size
<1> DEFINE T == {c \in Cell : b[c] \in Mark}
<1>1. Cardinality(T) = Cardinality(Cell) <=> T = Cell
  BY CellFinite, FS_Subset
<1>2. T = Cell <=> IsBoardFull(b)
  BY DEF IsBoardFull, Mark
<1> QED BY <1>1, <1>2, CellFinite DEF Count

LEMMA RulesInit == Init => Rules!GInit
  BY DEF Init, Rules!GInit

\* An accepted move ends the game as GameRules allows: a draw or a further
\* turn by the number of cells, a win by the number of marks in its line.
LEMMA RulesMove ==
  ASSUME CaroInv, CaroInv', ~IsOver, NEW p \in Input, Accepted(p)
  PROVE  Rules!GNext
<1> DEFINE m == PlayerMark(current)
           won == IF current = 0 THEN "first" ELSE "second"
<1>1. /\ result = "none" /\ current \in {0, 1} /\ turnCount \in Nat
      /\ cells' \in [Cell -> Mark \union {"."}] /\ turnCount' = Count(cells', Mark)
      /\ Count(cells', {"X"}) = Count(cells', {"O"}) + current'
  BY DEF IsOver, CaroInv, TypeOK, TurnsAlternate
<1>2. turnCount' = turnCount + 1 /\ current' = 1 - current
  BY <1>1 DEF Accepted
<1>3. /\ result' \in {m, "draw", "none"}
      /\ IF current = 0 THEN m = "X" /\ won = "first" ELSE m = "O" /\ won = "second"
  BY <1>1 DEF Accepted, Outcome, PlayerMark
<1>4. IsBoardFull(cells') <=> turnCount + 1 = Size * Size
  BY <1>1, <1>2, FullCounts
<1>5. turnCount + 1 <= Size * Size /\ Size * Size \in Nat
  BY <1>2, CaroAssumption DEF CaroInv, TypeOK
<1>6. CASE result' = "none"
  <2>1. turnCount + 1 < Size * Size
    BY <1>1, <1>3, <1>4, <1>5, <1>6 DEF Accepted, Outcome, Mark
  <2> QED BY <1>1, <1>2, <1>6, <2>1 DEF Rules!GNext, Rules!Accepted, Rules!IsOver, Rules!Outcomes
<1>7. CASE result' = "draw"
  <2>1. turnCount + 1 = Size * Size
    BY <1>1, <1>3, <1>4, <1>7 DEF Accepted, Outcome, Mark
  <2> QED BY <1>1, <1>2, <1>5, <1>7, <2>1
          DEF Rules!GNext, Rules!Accepted, Rules!IsOver, Rules!Outcomes
<1>8. CASE result' = m
  <2>1. PICK n \in Mark : result' = n /\ IF current = 0 THEN n = "X" ELSE n = "O"
    BY <1>3, <1>8 DEF Mark
  <2>2. Line(cells', n)
    BY <2>1 DEF CaroInv, WinExact, Line, Marked
  <2>3. Count(cells', {n}) \in Nat /\ Count(cells', {n}) >= WinLen
    BY <2>2, LineCounts
  <2>4. /\ Count(cells', {"X"}) \in Nat /\ Count(cells', {"O"}) \in Nat
        /\ turnCount' = Count(cells', {"X"}) + Count(cells', {"O"})
    BY <1>1, MarksCount
  <2>5. turnCount + 1 >= 2 * WinLen - 1
    <3>1. CASE current = 0
      <4>1. n = "X" /\ current' = 1
        BY <1>2, <2>1, <3>1
      <4> QED BY <1>1, <1>2, <2>3, <2>4, <4>1, CaroAssumption
    <3>2. CASE current = 1
      <4>1. n = "O" /\ current' = 0
        BY <1>2, <2>1, <3>2
      <4> QED BY <1>1, <1>2, <2>3, <2>4, <4>1, CaroAssumption
    <3> QED BY <1>1, <3>1, <3>2
  <2> QED BY <1>1, <1>2, <1>3, <1>8, <2>5
          DEF Rules!GNext, Rules!Accepted, Rules!IsOver, Rules!Outcomes, Rules!Seat
<1> QED BY <1>3, <1>6, <1>7, <1>8

LEMMA RulesStep == CaroInv /\ [Next]_vars => [Rules!GNext]_(Rules!gvars)
<1> SUFFICES ASSUME CaroInv, [Next]_vars PROVE [Rules!GNext]_(Rules!gvars)
  OBVIOUS
<1>1. ASSUME NEW p \in Input, ~IsOver, Accepted(p) PROVE Rules!GNext
  BY <1>1, CaroMove, RulesMove
<1>2. CASE UNCHANGED vars
  BY <1>2 DEF vars, Rules!gvars
<1> QED BY <1>1, <1>2 DEF Next, ApplyMove, Rejected

\* The engine is what MatchExec takes it for, on every board: nobody wins
\* before MinWin marks, only the player who moved wins, and a game ends at the
\* last cell.
THEOREM FollowsRules == Spec => ImplementsRules
<1> QED BY CaroInit, CaroStep, RulesInit, RulesStep, PTL DEF Spec, ImplementsRules, Rules!GSpec
=============================================================================
