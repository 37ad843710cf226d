--------------------------- MODULE ScoreTablesProofs ---------------------------
(***************************************************************************)
(* What ScoreTables says of the score, the dashboards and the progress     *)
(* bar, proved for every assessment, every table of responses the program  *)
(* writes and every mark.                                                  *)
(***************************************************************************)
EXTENDS ScoreTables, ScoreCalcProofs

-----------------------------------------------------------------------------
(***************************************************************************)
(* The tables                                                              *)
(***************************************************************************)
LEMMA MarksOK == ASSUME NEW m \in ScoringModes, NEW g \in Marks(m) PROVE MarkOK(m, g)
<1>1. CASE m = "percentile"
  BY <1>1, FormsAssumption DEF Marks, MarkOK
<1>2. CASE m # "percentile"
  <2>1. PICK S \in SUBSET Categories : g \in [S -> GradedWeights]
    BY <1>2 DEF Marks
  <2>2. DOMAIN g = S /\ \A c \in DOMAIN g : g[c] \in Int
    BY <2>1, FormsAssumption
  <2>3. IsFiniteSet(S)
    BY <2>1, FS_Subset, FormsAssumption
  <2> QED
    BY <1>2, <2>2, <2>3 DEF MarkOK
<1> QED
  BY <1>1, <1>2

\* A multiple-choice row is blank, or holds what has been chosen or what is left of it.
ChosenRows(a, g) == [answer : {Null, a}, graded : {FALSE}, grade : {g}]

LEMMA ChosenRow ==
    ASSUME NEW m, NEW q, ~Written(q), NEW r \in Rows(m, q)
    PROVE  r \in ChosenRows(Null, Null) \/ \E s \in Chosen(m, q) : r \in ChosenRows(s.answer, s.grade)
BY DEF Rows, ChosenRows

LEMMA RowChosen ==
    ASSUME NEW m, NEW q, ~Written(q), NEW s \in Chosen(m, q), NEW r \in ChosenRows(s.answer, s.grade)
    PROVE  r \in Rows(m, q)
BY DEF Rows, ChosenRows

LEMMA RowBlank ==
    ASSUME NEW m, NEW q, ~Written(q), NEW r \in ChosenRows(Null, Null)
    PROVE  r \in Rows(m, q)
BY DEF Rows, ChosenRows

LEMMA ChosenIds ==
    ASSUME NEW m, NEW q \in Questions, NEW s \in Chosen(m, q)
    PROVE  s.answer.ids \in SUBSET AnswersOf[q] /\ IsFiniteSet(s.answer.ids)
<1>1. s.answer.ids \in SUBSET AnswersOf[q]
  BY DEF Chosen
<1> QED
  BY <1>1, FS_Subset, PointsAssumption

\* A table of such rows can be scored.
LEMMA TableInvOK == TableInv => TableOK(mode, table)
<1> SUFFICES ASSUME TableInv, NEW q \in Scorable(table)
             PROVE  IF Written(q) THEN MarkOK(mode, table[q].grade)
                                  ELSE IsFiniteSet(table[q].answer.ids)
  BY DEF TableOK
<1>1. q \in Questions /\ Row(table, q) /\ table[q] \in Rows(mode, q) /\ mode \in ScoringModes
  BY DEF Scorable, TableInv
<1>2. CASE Written(q)
  <2>1. table[q].grade # Null
    BY <1>2 DEF Scorable
  <2>2. table[q].grade \in Marks(mode)
    BY <1>1, <1>2, <2>1 DEF Rows
  <2> QED
    BY <1>1, <1>2, <2>2, MarksOK
<1>3. CASE ~Written(q)
  <2>1. table[q].answer # Null
    BY <1>3 DEF Scorable, Selected
  <2>2. PICK s \in Chosen(mode, q) : table[q].answer = s.answer
    BY <1>1, <1>3, <2>1, ChosenRow DEF ChosenRows
  <2> QED
    BY <1>1, <1>3, <2>2, ChosenIds
<1> QED
  BY <1>2, <1>3

\* Each step saves one row.
SavesRow(q, r) ==
    /\ r \in Rows(mode, q) /\ (Written(q) /\ r.grade # Null => r.graded) /\ (Old(q).graded => r.graded)
    /\ UNCHANGED mode /\ table' = [table EXCEPT ![q] = r]

LEMMA OldRow ==
    ASSUME TableInv, NEW q \in Questions
    PROVE  Old(q) \in Rows(mode, q) /\ (Written(q) /\ Old(q).grade # Null => Old(q).graded)
<1>1. Blank \in Rows(mode, q) /\ Blank.grade = Null
  BY DEF Blank, Rows
<1> QED
  BY <1>1 DEF Old, TableInv

LEMMA NextSavesRow ==
    ASSUME TableInv, Next
    PROVE  \E q \in Questions : \E r : SavesRow(q, r)
<1>1. ASSUME NEW q \in Questions, Answer(q), Written(q) PROVE \E r : SavesRow(q, r)
  <2>1. PICK a \in {Null, "text"} : table' = [table EXCEPT ![q] = [Old(q) EXCEPT !.answer = a]]
    BY <1>1 DEF Answer
  <2> DEFINE r == [Old(q) EXCEPT !.answer = a]
  <2>2. r \in Rows(mode, q) /\ (r.grade # Null => r.graded) /\ (Old(q).graded => r.graded)
    BY <1>1, OldRow DEF Rows
  <2>3. table' = [table EXCEPT ![q] = r] /\ UNCHANGED mode
    BY <2>1 DEF Next
  <2> HIDE DEF r
  <2> QED
    BY <2>2, <2>3 DEF SavesRow
<1>3. ASSUME NEW q \in Questions, Answer(q), ~Written(q) PROVE \E r : SavesRow(q, r)
  <2> DEFINE r == [Old(q) EXCEPT !.answer = Null]
  <2>1. table' = [table EXCEPT ![q] = r] /\ UNCHANGED mode
    BY <1>3 DEF Answer, Next
  <2>2. \/ Old(q) \in ChosenRows(Null, Null)
        \/ \E s \in Chosen(mode, q) : Old(q) \in ChosenRows(s.answer, s.grade)
    BY <1>3, OldRow, ChosenRow
  <2>3. \/ r \in ChosenRows(Null, Null)
        \/ \E s \in Chosen(mode, q) : r \in ChosenRows(s.answer, s.grade)
    BY <2>2 DEF ChosenRows
  <2>4. Old(q).graded = FALSE
    BY <2>2 DEF ChosenRows
  <2> HIDE DEF r
  <2>5. r \in Rows(mode, q)
    BY <1>3, <2>3, RowChosen, RowBlank
  <2> QED
    BY <1>3, <2>1, <2>4, <2>5 DEF SavesRow
<1>4. ASSUME NEW q \in Questions, Select(q) PROVE \E r : SavesRow(q, r)
  <2>1. PICK s \in Chosen(mode, q) :
           table' = [table EXCEPT ![q] = [Old(q) EXCEPT !.answer = s.answer, !.grade = s.grade]]
    BY <1>4 DEF Select
  <2> DEFINE r == [Old(q) EXCEPT !.answer = s.answer, !.grade = s.grade]
  <2>2. ~Written(q) /\ Old(q) \in Rows(mode, q)
    BY <1>4, OldRow DEF Select
  <2>3. \E a, g : Old(q) \in ChosenRows(a, g)
    BY <2>2, ChosenRow
  <2>4. r \in ChosenRows(s.answer, s.grade)
    BY <2>3 DEF ChosenRows
  <2>5. Old(q).graded = FALSE
    BY <2>3 DEF ChosenRows
  <2>6. table' = [table EXCEPT ![q] = r] /\ UNCHANGED mode
    BY <2>1 DEF Next
  <2> HIDE DEF r
  <2>7. r \in Rows(mode, q)
    BY <2>2, <2>4, RowChosen
  <2> QED
    BY <2>2, <2>5, <2>6, <2>7 DEF SavesRow
<1>2. ASSUME NEW q \in Questions, Grade(q) PROVE \E r : SavesRow(q, r)
  <2>1. PICK g \in Marks(mode) \cup {Null} :
           table' = [table EXCEPT ![q].graded = TRUE, ![q].grade = g]
    BY <1>2 DEF Grade
  <2> DEFINE r == [[table[q] EXCEPT !.graded = TRUE] EXCEPT !.grade = g]
  <2>2. table[q] \in Rows(mode, q) /\ Written(q)
    BY <1>2 DEF Grade, TableInv
  <2>3. r \in Rows(mode, q) /\ r.graded
    BY <2>2 DEF Rows
  <2>4. table' = [table EXCEPT ![q] = r] /\ UNCHANGED mode
    BY <2>1 DEF TableInv, Next
  <2> HIDE DEF r
  <2> QED
    BY <2>3, <2>4 DEF SavesRow
<1> QED
  BY <1>1, <1>2, <1>3, <1>4 DEF Next

LEMMA SavedRow ==
    ASSUME TableInv, NEW q \in Questions, NEW r, SavesRow(q, r)
    PROVE  TableInv' /\ \A p \in Questions : Row(table, p) => Row(table', p)
<1>1. table' = [p \in Questions |-> IF p = q THEN r ELSE table[p]]
  BY DEF TableInv, SavesRow
<1>2. table' = [p \in Questions |-> table'[p]]
  BY <1>1
<1>3. \A p \in Questions : table'[p] = IF p = q THEN r ELSE table[p]
  BY <1>1
<1>4. r # NoRow
  BY NoRowAssumption DEF TableInv, SavesRow
<1> QED
  BY <1>2, <1>3, <1>4 DEF TableInv, Row, SavesRow

LEMMA TableIsWritten == Spec => []TableInv
<1>1. Init => TableInv
  BY DEF Init, TableInv, Row
<1>2. TableInv /\ [Next]_vars => TableInv'
  <2>1. TableInv /\ UNCHANGED vars => TableInv'
    BY DEF vars, TableInv, Row
  <2> QED
    BY <2>1, NextSavesRow, SavedRow
<1> QED
  BY <1>1, <1>2, PTL DEF Spec

\* A step's two tables.
LEMMA StepTables == TableInv /\ TableInv' /\ [Next]_vars =>
    /\ TableOK(mode, table) /\ TableOK(mode, table') /\ mode \in ScoringModes /\ UNCHANGED mode
    /\ \A q \in Questions : Row(table, q) => Row(table', q)
<1>1. (TableInv => TableOK(mode, table))'
  BY TableInvOK, PTL
<1>2. TableInv /\ UNCHANGED vars => \A q \in Questions : Row(table, q) => Row(table', q)
  BY DEF vars, Row
<1>3. [Next]_vars => UNCHANGED mode
  BY DEF Next, vars
<1> QED
  BY <1>1, <1>2, <1>3, NextSavesRow, SavedRow, TableInvOK DEF TableInv

-----------------------------------------------------------------------------
(***************************************************************************)
(* The score                                                               *)
(***************************************************************************)
LEMMA ScoreTyped == TableInv => Score \in Percentages
BY TableInvOK, ScoreIsPercentage DEF Score, TableInv

LEMMA ScoreValues == \A n \in Percentages : n = Null \/ (n \in Nat /\ n <= 10000)
<1> DEFINE top == 10000
           P == 0..top
<1>1. Percentages = {Null} \cup P
  BY DEF Percentages
<1>2. top \in Nat /\ top <= 10000
  OBVIOUS
<1> HIDE DEF top
<1>3. \A n \in P : n \in Nat /\ n <= 10000
  BY <1>2
<1> QED
  BY <1>1, <1>3

\* "The calculated score (0-100) or null": of every table that answers, selections and
\* marks build, over the maximum or not, the score is null or within 0 to 100%.
THEOREM ScoresInRange == Spec => []ScoreInRange
<1>1. TableInv => ScoreInRange
  <2> SUFFICES ASSUME TableInv PROVE ScoreInRange
    OBVIOUS
  <2>1. Score \in Percentages
    BY ScoreTyped
  <2>2. Percentages = {Null} \cup 0..10000
    BY DEF Percentages
  <2> QED
    BY <2>1, <2>2 DEF ScoreInRange
<1> QED
  BY <1>1, TableIsWritten, PTL

\* Raising a mark never lowers the score that calculateScore returns of the table.
THEOREM RaisingNeverLowersScore == Spec => RaisingNeverLowers
<1> DEFINE Raises(q) ==
       /\ \A p \in Questions \ {q} : table'[p] = table[p]
       /\ Written(q) /\ Row(table, q) /\ table[q].grade # Null /\ table'[q].grade # Null
       /\ RaisedMark(table[q].grade, table'[q].grade)
<1>1. TableInv /\ TableInv' /\ [Next]_vars =>
         \A q \in Questions : Raises(q) => Score = Null \/ Score <= CalculateScore(mode, table')
  <2> SUFFICES ASSUME TableInv, TableInv', [Next]_vars, NEW q \in Questions, Raises(q)
               PROVE  Score = Null \/ Score <= CalculateScore(mode, table')
    OBVIOUS
  <2>1. Raised(mode, table, table', q)
    BY StepTables DEF Raised, RaisedMark, Higher
  <2>2. NoLower(Score, CalculateScore(mode, table'))
    BY <2>1, StepTables, RaisedMarksNeverLower DEF Score
  <2>3. Score \in Percentages
    BY ScoreTyped
  <2> QED
    BY <2>2, <2>3, ScoreValues DEF NoLower
<1> QED
  BY <1>1, TableIsWritten, PTL DEF Spec, RaisingNeverLowers

\* The saves that the observer skips change nothing that would be scored.
THEOREM SkippedSavesAreIdle == Spec => SkippedSaveKeepsScore
<1> DEFINE Skips(q) ==
       /\ table'[q] # table[q] /\ ~ShouldCalculateScore(q, table'[q])
       /\ ~(Row(table, q) /\ ~Written(q) /\ Selected(table[q]))
<1>1. TableInv /\ TableInv' /\ [Next]_vars =>
         \A q \in Questions : Skips(q) => CalculateScore(mode, table') = Score
  <2> SUFFICES ASSUME TableInv, TableInv', [Next]_vars, NEW q \in Questions, Skips(q)
               PROVE  CalculateScore(mode, table') = Score
    OBVIOUS
  <2>1. Next
    BY DEF vars
  <2>2. PICK p \in Questions : \E r : SavesRow(p, r)
    BY <2>1, NextSavesRow
  <2>3. p = q /\ table'[q] \in Rows(mode, q) /\ \A u \in Questions \ {q} : table'[u] = table[u]
    BY <2>2 DEF SavesRow, TableInv
  <2>4. Row(table', q) /\ (Written(q) /\ table'[q].grade # Null => table'[q].graded)
    BY <2>3, NoRowAssumption DEF TableInv, Row
  <2>5. Row(table, q) => IF Written(q) THEN table[q].grade # Null => table'[q].graded
                                       ELSE ~Selected(table[q])
    BY <2>2, <2>3 DEF TableInv, SavesRow, Old
  <2> QED
    BY <2>3, <2>4, <2>5, StepTables, SkippedSavesKeepScore DEF Score
<1> QED
  BY <1>1, TableIsWritten, PTL DEF Spec, SkippedSaveKeepsScore

-----------------------------------------------------------------------------
(***************************************************************************)
(* The percentile score, counted point by point                            *)
(***************************************************************************)
\* As many points of an element as its value, and the points of a set of elements.
PointsAt(F, x) == {x} \X (1..F[x])
PointSet(F, w) == UNION {PointsAt(F, x) : x \in w}
CountsAs(S, n) == IsFiniteSet(S) /\ Cardinality(S) = n

LEMMA CountAt == ASSUME NEW F, NEW x, F[x] \in Nat PROVE CountsAs(PointsAt(F, x), F[x])
<1>1. IsFiniteSet(1..F[x]) /\ Cardinality(1..F[x]) = F[x]
  BY FS_Interval
<1>2. IsFiniteSet({x}) /\ Cardinality({x}) = 1
  BY FS_Singleton
<1>3. CountsAs({x} \X (1..F[x]), 1 * F[x])
  BY <1>1, <1>2, FS_Product DEF CountsAs
<1> QED
  BY <1>3 DEF PointsAt

LEMMA CountUnion ==
    ASSUME NEW S, NEW T, NEW m \in Nat, NEW n \in Nat, CountsAs(S, m), CountsAs(T, n), S \cap T = {}
    PROVE  CountsAs(S \cup T, m + n)
<1>1. IsFiniteSet(S) /\ IsFiniteSet(T) /\ Cardinality(S) = m /\ Cardinality(T) = n
  BY DEF CountsAs
<1>2. /\ IsFiniteSet(S \cup T)
      /\ Cardinality(S \cup T) = Cardinality(S) + Cardinality(T) - Cardinality(S \cap T)
  BY <1>1, FS_Union
<1>3. Cardinality(S \cap T) = 0
  BY FS_EmptySet
<1> QED
  BY <1>1, <1>2, <1>3 DEF CountsAs

\* The points of finitely many elements are as many as the sum of their values.
LEMMA CountPoints ==
    ASSUME NEW S, IsFiniteSet(S), NEW F, \A x \in S : F[x] \in Nat, NEW g, IsSum(g, F, S)
    PROVE  CountsAs(PointSet(F, S), g[S])
<1> DEFINE B == {w \in SUBSET S : ~CountsAs(PointSet(F, w), g[w])}
<1> SUFFICES ASSUME B # {} PROVE FALSE
  OBVIOUS
<1>0. B \in SUBSET SUBSET S
  OBVIOUS
<1> HIDE DEF B
<1>1. PICK u \in B : \A v \in B : v \subseteq u => v = u
  BY <1>0, MinimalSubset
<1> USE DEF B
<1>2. g[u] = FoldStep("sum", F, g, u)
  BY DEF IsSum, IsFold
<1>3. u # {}
  <2>1. u = {} => g[u] = 0 /\ PointSet(F, u) = {}
    BY <1>2 DEF FoldStep, Unit, PointSet
  <2>2. u = {} => CountsAs(PointSet(F, u), g[u])
    BY <2>1, FS_EmptySet DEF CountsAs
  <2> QED
    BY <1>1, <2>2
<1> DEFINE x == One(u)
           v == u \ {x}
<1>4. x \in u /\ v \in SUBSET S /\ v # u
  BY <1>3, OneOf
<1>5. g[u] = F[x] + g[v] /\ F[x] \in Nat /\ g[v] \in Nat
  BY <1>2, <1>3, <1>4, SumOfNats DEF FoldStep, Combine
<1> HIDE DEF x
<1>6. CountsAs(PointSet(F, v), g[v]) /\ CountsAs(PointsAt(F, x), F[x])
  BY <1>1, <1>4, <1>5, CountAt
<1>7. PointSet(F, u) = PointsAt(F, x) \cup PointSet(F, v) /\ PointsAt(F, x) \cap PointSet(F, v) = {}
  <2>1. \A p : p \in PointSet(F, u) <=> \E y \in u : p \in PointsAt(F, y)
    BY DEF PointSet
  <2>2. \A p : p \in PointSet(F, v) <=> \E y \in v : p \in PointsAt(F, y)
    BY DEF PointSet
  <2>3. \A y, z, p : p \in PointsAt(F, y) /\ p \in PointsAt(F, z) => y = z
    BY DEF PointsAt
  <2> QED
    BY <1>4, <2>1, <2>2, <2>3
<1>8. CountsAs(PointSet(F, u), F[x] + g[v])
  <2> DEFINE P == PointsAt(F, x)
             Q == PointSet(F, v)
             m == F[x]
             n == g[v]
  <2>1. m \in Nat /\ n \in Nat /\ CountsAs(P, m) /\ CountsAs(Q, n) /\ P \cap Q = {}
    BY <1>5, <1>6, <1>7
  <2> HIDE DEF P, Q, m, n
  <2>2. CountsAs(P \cup Q, m + n)
    BY <2>1, CountUnion
  <2> QED
    BY <1>7, <2>2 DEF P, Q, m, n
<1> QED
  BY <1>1, <1>5, <1>8

\* The points of a table's responses are natural numbers.
LEMMA PointsAreNats ==
    ASSUME TableInv, mode = "percentile", NEW q \in Scorable(table)
    PROVE  PointsOf(table)[q] \in Nat /\ BestOf(table)[q] \in Nat
<1>1. TableOK("percentile", table) /\ q \in Questions /\ table[q] \in Rows(mode, q)
  BY TableInvOK DEF Scorable, TableInv
<1>2. BestOf(table)[q] \in Nat
  BY <1>1, QuestionPoints
<1>3. CASE Written(q)
  <2>1. table[q].grade \in GradedPoints
    BY <1>1, <1>3 DEF Rows, Marks, Scorable
  <2>2. table[q].grade \in Nat
    BY <2>1, FormsAssumption
  <2> QED
    BY <1>2, <1>3, <2>2 DEF PointsOf, QuestionScore
<1>4. CASE ~Written(q)
  <2>1. IsFiniteSet(table[q].answer.ids)
    BY <1>1, <1>4 DEF TableOK
  <2>2. \A a : ScoreOfAnswer(a) \in Nat
    BY FormsAssumption, PointsAssumption DEF ScoreOfAnswer
  <2>3. CalculateMCQScore(table[q], q).score \in Nat
    BY <1>1, <2>1, <2>2, McqPoints
  <2> QED
    BY <1>2, <1>4, <2>3 DEF PointsOf, QuestionScore
<1> QED
  BY <1>3, <1>4

LEMMA PointsCounted ==
    ASSUME TableInv, mode = "percentile"
    PROVE  CountsAs(Points, TotalPoints(table)) /\ CountsAs(Possible, TotalPossible(table))
<1> DEFINE qs == Scorable(table)
<1>1. IsFiniteSet(qs)
  BY ScorableFinite
<1>2. PICK g : IsSum(g, PointsOf(table), qs) /\ TotalPoints(table) = g[qs]
  BY TotalsAreSums
<1>3. PICK k : IsSum(k, BestOf(table), qs) /\ TotalPossible(table) = k[qs]
  BY TotalsAreSums
<1>4. CountsAs(PointSet(PointsOf(table), qs), g[qs]) /\ CountsAs(PointSet(BestOf(table), qs), k[qs])
  BY <1>1, <1>2, <1>3, PointsAreNats, CountPoints
<1>5. Points = PointSet(PointsOf(table), qs)
  BY DEF Points, PointSet, PointsAt, PointsOf
<1>6. Possible = PointSet(BestOf(table), qs)
  BY DEF Possible, PointSet, PointsAt, BestOf
<1> QED
  BY <1>2, <1>3, <1>4, <1>5, <1>6

LEMMA PercentileScored ==
    ASSUME NEW tbl, TableOK("percentile", tbl), TotalPossible(tbl) # 0
    PROVE  CalculateScore("percentile", tbl) \in Int
<1> DEFINE a == 10000 * TotalPoints(tbl)
           b == TotalPossible(tbl)
<1>1. a \in Int /\ b \in Nat \ {0}
  BY TotalsOK
<1>2. Scorable(tbl) = {} => b = 0
  <2>1. PICK g : IsSum(g, BestOf(tbl), Scorable(tbl)) /\ b = g[Scorable(tbl)]
    BY TotalsAreSums
  <2> QED
    BY <2>1 DEF IsSum, IsFold, FoldStep, Unit
<1>3. (\A q \in Questions : ~Row(tbl, q)) => Scorable(tbl) = {}
  BY DEF Scorable
<1>4. CalculateScore("percentile", tbl) = Clamp(RoundDiv(a, b), 0, 10000)
  BY <1>1, <1>2, <1>3, PercentileIs DEF CalculateScore
<1> HIDE DEF a, b
<1>5. RoundDiv(a, b) \in Int
  BY <1>1, RoundDivIs
<1> QED
  BY <1>4, <1>5 DEF Clamp

\* "round(($totalPoints / $possiblePoints) * 100, 2)": of every table in percentile mode
\* the score is a nearest hundredth of a percent to points over possible points, both
\* counted one by one, and it is missing exactly when no point is possible.
THEOREM ScoresAreNearest == Spec => []PercentileIsNearest
<1>1. TableInv => PercentileIsNearest
  <2> SUFFICES ASSUME TableInv, mode = "percentile"
               PROVE  IF Possible = {} THEN Score = Null
                      ELSE /\ Score # Null
                           /\ \A n \in {0, Score - 1, Score + 1, 10000} \cap (0..10000) :
                                 Distance(Score) <= Distance(n)
    BY DEF PercentileIsNearest
  <2> DEFINE b == TotalPossible(table)
             a == 10000 * TotalPoints(table)
             top == 10000
             near == {0, Score - 1, Score + 1, 10000} \cap (0..top)
  <2>1. TableOK("percentile", table) /\ Score = CalculateScore("percentile", table)
    BY TableInvOK DEF Score
  <2>2. CountsAs(Points, TotalPoints(table)) /\ CountsAs(Possible, b)
    BY PointsCounted
  <2>3. b \in Nat /\ TotalPoints(table) \in Int /\ a \in Int
    BY <2>1, TotalsOK
  <2>4. Possible = {} <=> b = 0
    BY <2>2, FS_EmptySet DEF CountsAs
  <2>5. Score = Null \/ (Score \in Nat /\ Score <= 10000)
    BY ScoreTyped, ScoreValues
  <2>6. /\ b = 0 => Score = Null
        /\ b # 0 => \A n \in Nat : n <= 10000 => Gap(Score * b, a) <= Gap(n * b, a)
    BY <2>1, PercentileScoreIsNearest
  <2>7. b # 0 => Score # Null
    BY <2>1, <2>3, NullAssumption, PercentileScored
  <2>8. \A n \in Int : Distance(n) = Gap(n * b, a)
    <3>1. Cardinality(Possible) = b /\ 10000 * Cardinality(Points) = a
      BY <2>2 DEF CountsAs
    <3>2. \A x, y \in Int : (IF x - y < 0 THEN -(x - y) ELSE x - y) = Gap(x, y)
      BY DEF Gap
    <3>3. \A n \in Int : n * b \in Int
      BY <2>3
    <3> HIDE DEF a, b
    <3>4. \A n : Distance(n) = IF n * b - a < 0 THEN -(n * b - a) ELSE n * b - a
      BY <3>1 DEF Distance
    <3> QED
      BY <2>3, <3>2, <3>3, <3>4
  <2>9. \A n \in near : n \in Nat /\ n <= 10000
    <3>1. top \in Nat /\ top <= 10000
      OBVIOUS
    <3> HIDE DEF top
    <3> QED
      BY <3>1
  <2> HIDE DEF a, b
  <2>10. b # 0 => \A n \in near : Distance(Score) <= Distance(n)
    BY <2>5, <2>6, <2>7, <2>8, <2>9
  <2> QED
    BY <2>4, <2>6, <2>7, <2>10
<1> QED
  BY <1>1, TableIsWritten, PTL

-----------------------------------------------------------------------------
(***************************************************************************)
(* The progress bar                                                        *)
(***************************************************************************)
\* Of up to 100 questions, 100% rounded is all of them.
LEMMA FullProgress ==
    ASSUME NEW n \in Nat \ {0}, n <= 100, NEW k \in Nat, k <= n
    PROVE  Progress(k, n) = 100 <=> k = n
<1> DEFINE r == RoundDiv(100 * k, n)
           t == r * n
<1>1. r \in Int /\ 2 * t <= 2 * (100 * k) + n /\ 2 * (100 * k) < 2 * t + n
  BY RoundDivIs
<1>2. Progress(k, n) = r
  BY DEF Progress
<1> HIDE DEF r
<1>3. /\ r <= 99 => t <= 99 * n
      /\ r >= 101 => 101 * n <= t
      /\ r = 100 => t = 100 * n
  BY <1>1, Multiples
<1> HIDE DEF t
<1>4. t \in Int
  BY <1>1 DEF t
<1>5. r = 100 => k = n
  BY <1>1, <1>3
<1>6. k = n => ~(r <= 99) /\ ~(r >= 101)
  BY <1>1, <1>3, <1>4
<1> QED
  BY <1>1, <1>2, <1>5, <1>6

\* A participant sees 100% exactly when every question is answered, for every size that
\* an assessment can have; and once all that is written is graded it is "completed".
THEOREM FullProgressCompletes == Spec => []FullProgressIsComplete
<1> DEFINE n == Cardinality(Questions)
           k == Cardinality(Answered(table))
<1>1. MaxQuestions \in Nat /\ MaxQuestions <= 100
  BY FormsAssumption
<1>2. n \in Nat \ {0} /\ n <= 100
  BY <1>1, FormsAssumption, PointsAssumption, FS_CardinalityType, FS_EmptySet
<1>3. k \in Nat /\ k <= n /\ (k = n => Answered(table) = Questions)
  <2>1. Answered(table) \in SUBSET Questions
    BY DEF Answered
  <2> QED
    BY <2>1, PointsAssumption, FS_Subset, FS_CardinalityType
<1>4. ASSUME Progress(k, n) = 100, AllGraded(table) PROVE DetermineStatus(table) = "completed"
  <2>1. Answered(table) = Questions
    BY <1>2, <1>3, <1>4, FullProgress
  <2>2. \A q \in Questions : Row(table, q)
    BY <2>1 DEF Answered
  <2> QED
    BY <1>4, <2>2, FormsAssumption DEF DetermineStatus, AllAnswered
<1>5. \A m \in 1..MaxQuestions : \A j \in 0..m : Progress(j, m) = 100 <=> j = m
  BY <1>1, FullProgress
<1>6. FullProgressIsComplete
  BY <1>4, <1>5 DEF FullProgressIsComplete
<1> QED
  BY <1>6, PTL

-----------------------------------------------------------------------------
(***************************************************************************)
(* The overall score                                                       *)
(***************************************************************************)
LEMMA SumSeqIsSum ==
    ASSUME NEW s, IsFiniteSet(DOMAIN s)
    PROVE  \E g : IsSum(g, s, DOMAIN s) /\ SumSeq(s) = g[DOMAIN s]
<1> DEFINE S == DOMAIN s
           H(g) == [w \in SUBSET S |-> IF w = {} THEN 0 ELSE s[One(w)] + g[w \ {One(w)}]]
<1>1. SumSeq(s) = (CHOOSE g : g = H(g))[S]
  BY DEF SumSeq, FoldSeq, FoldFunction, FoldFunctionOnSet, MapThenFoldSet, One
<1>2. \E g : IsSum(g, s, S)
  BY FoldExists DEF IsSum
<1>3. \A g : g = H(g) <=> IsSum(g, s, S)
  BY DEF IsSum, IsFold, FoldStep, Combine, Unit
<1> HIDE DEF H
<1> QED
  BY <1>1, <1>2, <1>3

LEMMA SumOfOne ==
    ASSUME NEW s, DOMAIN s = {1}, s[1] \in Int
    PROVE  SumSeq(s) = s[1]
<1>1. IsFiniteSet(DOMAIN s)
  BY FS_Singleton
<1>2. PICK g : IsSum(g, s, {1}) /\ SumSeq(s) = g[{1}]
  BY <1>1, SumSeqIsSum
<1>3. IntSum(g, s, {1})
  BY <1>1, <1>2 DEF IntSum
<1>4. Splits(g, s, {1})
  BY <1>3, SumSplit
<1>5. g[{1}] = s[1] + g[{}]
  <2>1. {1} \ {1} = {}
    OBVIOUS
  <2> QED
    BY <1>4, <2>1 DEF Splits
<1>6. g[{}] = 0
  BY <1>2 DEF IsSum, IsFold, FoldStep, Unit
<1> QED
  BY <1>2, <1>5, <1>6

LEMMA SumOfTwo ==
    ASSUME NEW s, DOMAIN s = {1, 2}, s[1] \in Int, s[2] \in Int
    PROVE  SumSeq(s) = s[1] + s[2]
<1>1. IsFiniteSet(DOMAIN s)
  <2>1. {1, 2} = {1} \cup {2}
    OBVIOUS
  <2>2. IsFiniteSet({1} \cup {2})
    BY FS_Singleton, FS_Union
  <2> QED
    BY <2>1, <2>2
<1>2. PICK g : IsSum(g, s, {1, 2}) /\ SumSeq(s) = g[{1, 2}]
  BY <1>1, SumSeqIsSum
<1>3. IntSum(g, s, {1, 2})
  BY <1>1, <1>2 DEF IntSum
<1>4. Splits(g, s, {1, 2})
  BY <1>3, SumSplit
<1>5. g[{1, 2}] = s[1] + g[{2}] /\ g[{2}] = s[2] + g[{}]
  <2>1. {1, 2} \ {1} = {2} /\ {2} \ {2} = {}
    OBVIOUS
  <2> QED
    BY <1>4, <2>1 DEF Splits
<1>6. g[{}] = 0
  BY <1>2 DEF IsSum, IsFold, FoldStep, Unit
<1> QED
  BY <1>2, <1>5, <1>6

LEMMA OverallOfOne ==
    ASSUME NEW a \in Nat
    PROVE  OverallScore(<<a>>) = Clamp(Trend(<<a>>), 0, 10000)
<1> DEFINE s == <<a>>
           c == [n \in DOMAIN s |-> Converted(s[n])]
<1>1. DOMAIN s = {1} /\ s[1] = a /\ Len(s) = 1 /\ s # <<>>
  OBVIOUS
<1>2. DOMAIN c = {1} /\ c[1] = Converted(a)
  BY <1>1
<1>3. Converted(a) = (IF a < 2000 THEN 10 * a ELSE a) /\ Converted(a) \in Int
  BY DEF Converted
<1>4. SumSeq(s) = a /\ SumSeq(c) = Converted(a)
  <2> HIDE DEF s, c
  <2> QED
    BY <1>1, <1>2, <1>3, SumOfOne
<1>5. OverallScore(s) = Clamp(RoundDiv(SumSeq(c), Len(s)), 0, 10000)
  BY <1>1 DEF OverallScore
<1>6. Trend(s) = RoundDiv(IF SumSeq(s) < 2000 * Len(s) THEN 10 * SumSeq(s) ELSE SumSeq(s), Len(s))
  BY DEF Trend
<1> HIDE DEF s, c
<1>7. Trend(s) = RoundDiv(Converted(a), 1)
  BY <1>1, <1>3, <1>4, <1>6
<1>8. OverallScore(s) = Clamp(Trend(s), 0, 10000)
  BY <1>1, <1>4, <1>5, <1>7
<1> QED
  BY <1>8 DEF s

LEMMA OverallOfTwo ==
    ASSUME NEW a \in Nat, a <= 10000, NEW b \in Nat, b <= 10000
    PROVE  OverallScore(<<a, b>>) \in RoundDiv(a + b, 2)..10000
<1> DEFINE s == <<a, b>>
           c == [n \in DOMAIN s |-> Converted(s[n])]
           x == a + b
           y == Converted(a) + Converted(b)
<1>1. DOMAIN s = {1, 2} /\ s[1] = a /\ s[2] = b /\ Len(s) = 2 /\ s # <<>>
  OBVIOUS
<1>2. DOMAIN c = {1, 2} /\ c[1] = Converted(a) /\ c[2] = Converted(b)
  BY <1>1
<1>3. Converted(a) \in Int /\ a <= Converted(a) /\ Converted(b) \in Int /\ b <= Converted(b)
  BY DEF Converted
<1>4. SumSeq(c) = y
  <2> HIDE DEF s, c
  <2> QED
    BY <1>2, <1>3, SumOfTwo
<1>5. OverallScore(s) = Clamp(RoundDiv(SumSeq(c), Len(s)), 0, 10000)
  BY <1>1 DEF OverallScore
<1>6. x \in Int /\ y \in Int /\ x <= y /\ x <= 20000 /\ 0 <= x
  BY <1>3
<1> HIDE DEF s, c, x, y
<1>7. OverallScore(s) = Clamp(RoundDiv(y, 2), 0, 10000)
  BY <1>1, <1>4, <1>5
<1>8. RoundDiv(x, 2) \in Int /\ RoundDiv(y, 2) \in Int /\ RoundDiv(x, 2) <= RoundDiv(y, 2)
  BY <1>6, RoundDivMonotone, RoundDivType
<1>9. RoundDiv(x, 2) <= 10000
  BY <1>6 DEF RoundDiv
<1>10. OverallScore(s) \in RoundDiv(x, 2)..10000
  BY <1>7, <1>8, <1>9 DEF Clamp
<1> QED
  BY <1>10 DEF s, x

\* The overall score of two assessments is at least their average and at most 100%, and
\* that of a single one is the trend's value within its limits.
THEOREM OverallScoresBounded == Spec => []OverallIsBounded
<1>1. TableInv => OverallIsBounded
  <2> SUFFICES ASSUME TableInv, Score # Null PROVE OverallIsBounded
    BY DEF OverallIsBounded
  <2>1. Score \in Nat /\ Score <= 10000
    BY ScoreTyped, ScoreValues
  <2>2. \A other \in OtherScores :
           OverallScore(<<Score, other>>) \in RoundDiv(Score + other, 2)..10000
    BY <2>1, FormsAssumption, OverallOfTwo
  <2>3. OverallScore(<<Score>>) = Clamp(Trend(<<Score>>), 0, 10000)
    BY <2>1, OverallOfOne
  <2> QED
    BY <2>2, <2>3 DEF OverallIsBounded
<1> QED
  BY <1>1, TableIsWritten, PTL

-----------------------------------------------------------------------------
(***************************************************************************)
(* The chart of categories                                                 *)
(***************************************************************************)
\* The sum of a function's values.
SetSum(F) == MapThenSumSet(LAMBDA x : F[x], DOMAIN F)

LEMMA SetSumIsSum ==
    ASSUME NEW F, IsFiniteSet(DOMAIN F)
    PROVE  \E g : IsSum(g, F, DOMAIN F) /\ SetSum(F) = g[DOMAIN F]
<1> DEFINE S == DOMAIN F
           H(g) == [w \in SUBSET S |-> IF w = {} THEN 0 ELSE F[One(w)] + g[w \ {One(w)}]]
<1>1. SetSum(F) = (CHOOSE g : g = H(g))[S]
  BY DEF SetSum, MapThenSumSet, MapThenFoldSet, One
<1>2. \E g : IsSum(g, F, S)
  BY FoldExists DEF IsSum
<1>3. \A g : g = H(g) <=> IsSum(g, F, S)
  BY DEF IsSum, IsFold, FoldStep, Combine, Unit
<1> HIDE DEF H
<1> QED
  BY <1>1, <1>2, <1>3

\* Multiples of two sums are no further apart than their terms are together.
Close(p, x, q, y, bound) == p * x <= q * y + bound /\ q * y <= p * x + bound

LEMMA CloseAdds ==
    \A p, x1, x2, q, y1, y2, b1, b2 \in Int :
       Close(p, x1, q, y1, b1) /\ Close(p, x2, q, y2, b2) => Close(p, x1 + x2, q, y1 + y2, b1 + b2)
<1> SUFFICES ASSUME NEW p \in Int, NEW x1 \in Int, NEW x2 \in Int, NEW q \in Int, NEW y1 \in Int,
                    NEW y2 \in Int, NEW b1 \in Int, NEW b2 \in Int,
                    Close(p, x1, q, y1, b1), Close(p, x2, q, y2, b2)
             PROVE  Close(p, x1 + x2, q, y1 + y2, b1 + b2)
  OBVIOUS
<1> DEFINE px1 == p * x1
           px2 == p * x2
           qy1 == q * y1
           qy2 == q * y2
<1>1. p * (x1 + x2) = px1 + px2 /\ q * (y1 + y2) = qy1 + qy2
  OBVIOUS
<1>2. px1 \in Int /\ px2 \in Int /\ qy1 \in Int /\ qy2 \in Int
  OBVIOUS
<1>3. px1 <= qy1 + b1 /\ qy1 <= px1 + b1 /\ px2 <= qy2 + b2 /\ qy2 <= px2 + b2
  BY DEF Close
<1> HIDE DEF px1, px2, qy1, qy2
<1>4. px1 + px2 <= qy1 + qy2 + (b1 + b2) /\ qy1 + qy2 <= px1 + px2 + (b1 + b2)
  BY <1>2, <1>3
<1> QED
  BY <1>1, <1>4 DEF Close

LEMMA SumsClose ==
    ASSUME NEW S, NEW F, NEW g, IntSum(g, F, S), NEW G, NEW k, IntSum(k, G, S),
           NEW p \in Int, NEW q \in Int, NEW b \in Nat,
           \A x \in S : Close(p, F[x], q, G[x], b)
    PROVE  Close(p, g[S], q, k[S], Cardinality(S) * b)
<1>0. IsFiniteSet(S) /\ IsSum(g, F, S) /\ IsSum(k, G, S)
  BY DEF IntSum
<1>i. \A w \in SUBSET S : g[w] \in Int /\ k[w] \in Int
  BY SumOfInts DEF IntSum
<1>t. \A x \in S : F[x] \in Int /\ G[x] \in Int
  BY DEF IntSum
<1> DEFINE B == {w \in SUBSET S : ~Close(p, g[w], q, k[w], Cardinality(w) * b)}
<1> SUFFICES ASSUME B # {} PROVE FALSE
  OBVIOUS
<1>s. B \in SUBSET SUBSET S
  OBVIOUS
<1> HIDE DEF B
<1>1. PICK u \in B : \A v \in B : v \subseteq u => v = u
  BY <1>0, <1>s, MinimalSubset
<1> USE DEF B
<1>2. g[u] = FoldStep("sum", F, g, u) /\ k[u] = FoldStep("sum", G, k, u)
  BY <1>0 DEF IsSum, IsFold
<1>3. u # {}
  <2>1. u = {} => g[u] = 0 /\ k[u] = 0
    BY <1>2 DEF FoldStep, Unit
  <2>2. u = {} => Cardinality(u) * b = 0
    BY FS_EmptySet
  <2>3. Close(p, 0, q, 0, 0)
    BY DEF Close
  <2>4. u = {} => Close(p, g[u], q, k[u], Cardinality(u) * b)
    BY <2>1, <2>2, <2>3
  <2> QED
    BY <1>1, <2>4
<1> DEFINE x == One(u)
           v == u \ {x}
           n == Cardinality(v)
<1>4. x \in u /\ v \in SUBSET S /\ v # u
  BY <1>3, OneOf
<1>5. g[u] = F[x] + g[v] /\ k[u] = G[x] + k[v]
  BY <1>2, <1>3 DEF FoldStep, Combine
<1>6. n \in Nat /\ Cardinality(u) = n + 1
  <2>1. IsFiniteSet(u) /\ IsFiniteSet(v)
    BY <1>0, FS_Subset
  <2> QED
    BY <1>4, <2>1, FS_RemoveElement, FS_CardinalityType
<1>7. Close(p, g[v], q, k[v], n * b) /\ Close(p, F[x], q, G[x], b)
  BY <1>1, <1>4
<1>8. g[v] \in Int /\ k[v] \in Int /\ F[x] \in Int /\ G[x] \in Int
  BY <1>4, <1>i, <1>t
<1> HIDE DEF x, v, n, B
<1>9. (n + 1) * b = b + n * b /\ n * b \in Int
  BY <1>6
<1>10. Close(p, F[x] + g[v], q, G[x] + k[v], b + n * b)
  <2> DEFINE fx == F[x]
             gv == g[v]
             gx == G[x]
             kv == k[v]
             nb == n * b
  <2>1. /\ fx \in Int /\ gv \in Int /\ gx \in Int /\ kv \in Int /\ nb \in Int /\ b \in Int
        /\ Close(p, fx, q, gx, b) /\ Close(p, gv, q, kv, nb)
    BY <1>7, <1>8, <1>9
  <2> HIDE DEF fx, gv, gx, kv, nb
  <2>2. Close(p, fx + gv, q, gx + kv, b + nb)
    BY <2>1, CloseAdds
  <2> QED
    BY <2>2 DEF fx, gv, gx, kv, nb
<1>11. Close(p, g[u], q, k[u], Cardinality(u) * b)
  BY <1>5, <1>6, <1>9, <1>10
<1> USE DEF B
<1> QED
  BY <1>1, <1>11

\* A category of m weights with the total t: its share of the score over the common
\* denominator b, and its bar in the chart.
LEMMA BarMatchesShare ==
    ASSUME NEW t \in Nat, NEW m \in Nat \ {0}, t <= m * 3, NEW k \in Nat,
           NEW b \in Nat \ {0}, b = (3 * m * 3) * k, NEW r, r = RoundDiv(1000 * t, 3 * m)
    PROVE  /\ Clamp(t * k, 0, b) = t * k /\ r \in Int /\ Clamp(r, 0, 1000) = r
           /\ Close(2 * b, r, 6000, t * k, b)
<1> DEFINE z == r * m
           w == r * (3 * m)
           p == m * k
           s == t * k
           y == z * k
<1>1. r \in Int /\ 2 * w <= 2 * (1000 * t) + 3 * m /\ 2 * (1000 * t) < 2 * w + 3 * m
  <2>1. 1000 * t \in Int /\ 3 * m \in Nat \ {0}
    OBVIOUS
  <2> QED
    BY <2>1, RoundDivIs
<1>2. w = 3 * z /\ z \in Int /\ p \in Nat /\ s \in Nat /\ y \in Int
  BY <1>1
<1>3. b = 9 * p
  OBVIOUS
<1>4. s <= b
  <2>1. t * k <= (m * 3) * k
    BY Multiples
  <2>2. (m * 3) * k = 3 * p
    OBVIOUS
  <2> HIDE DEF s, p
  <2> QED
    BY <1>2, <1>3, <2>1, <2>2 DEF s
<1>5. r <= 1000 /\ r >= 0
  <2>1. /\ r >= 1001 => 1001 * m <= z
        /\ r <= -1 => z <= (-1) * m
    BY <1>1, Multiples
  <2> HIDE DEF z, w
  <2> QED
    BY <1>1, <1>2, <2>1
<1>6. 6 * y <= 2000 * s + 3 * p /\ 2000 * s <= 6 * y + 3 * p
  <2>1. 6 * z <= 2000 * t + 3 * m /\ 2000 * t <= 6 * z + 3 * m
    BY <1>1, <1>2
  <2> DEFINE a1 == 6 * z
             a2 == 2000 * t + 3 * m
             a3 == 2000 * t
             a4 == 6 * z + 3 * m
  <2>2. a1 \in Int /\ a2 \in Int /\ a3 \in Int /\ a4 \in Int
    BY <1>2
  <2>3. a1 * k <= a2 * k /\ a3 * k <= a4 * k
    <3> HIDE DEF a1, a2, a3, a4
    <3>1. a1 <= a2 /\ a3 <= a4
      BY <2>1 DEF a1, a2, a3, a4
    <3> QED
      BY <2>2, <3>1, Multiples
  <2>4. a1 * k = 6 * y /\ a2 * k = 2000 * s + 3 * p /\ a3 * k = 2000 * s /\ a4 * k = 6 * y + 3 * p
    <3> HIDE DEF z
    <3> QED
      BY <1>2
  <2> QED
    BY <2>3, <2>4
<1>7. (2 * b) * r = 18 * y
  BY <1>1, <1>2, <1>3
<1> HIDE DEF z, w, p, s, y
<1>8. (2 * b) * r <= 6000 * s + b /\ 6000 * s <= (2 * b) * r + b
  BY <1>2, <1>3, <1>6, <1>7
<1>9. Clamp(s, 0, b) = s /\ Clamp(r, 0, 1000) = r
  BY <1>1, <1>2, <1>4, <1>5 DEF Clamp
<1> QED
  BY <1>1, <1>8, <1>9 DEF Close, s

\* The chart, and the parts of a table's weights it agrees with.
Bars(entries) ==
    [c \in Cats(entries) |-> Clamp(RoundDiv(1000 * Total(entries, c),
                                            MaxWeight * Cardinality(OfCat(entries, c))), 0, 1000)]
Regular(entries) == Weighted(entries) /\ \A e \in entries : e[3] \in Nat /\ e[3] <= 3

LEMMA ChartIs == ASSUME NEW tbl PROVE CategoryScores(tbl) = Bars(ChartEntries(tbl))
BY DEF CategoryScores, Bars, Cats, OfCat, Total

LEMMA EntriesAreNats ==
    ASSUME TableInv, mode = "categorical"
    PROVE  \A e \in WeightEntries(table) : e[3] \in Nat
<1>1. ASSUME NEW p \in Scorable(table), Written(p), NEW c \in DOMAIN table[p].grade
      PROVE  MarkEntry(table, p, c)[3] \in Nat
  <2>1. p \in Questions /\ table[p] \in Rows(mode, p) /\ table[p].grade # Null
    BY <1>1 DEF Scorable, TableInv
  <2>2. table[p].grade \in Marks(mode)
    BY <1>1, <2>1 DEF Rows
  <2>3. PICK S \in SUBSET Categories : table[p].grade \in [S -> GradedWeights]
    BY <2>2 DEF Marks
  <2>4. table[p].grade[c] \in GradedWeights
    BY <1>1, <2>3
  <2> QED
    BY <2>4, FormsAssumption DEF MarkEntry
<1>2. ASSUME NEW a \in DOMAIN AnswerWeights, NEW c \in DOMAIN AnswerWeights[a]
      PROVE  AnswerEntry(a, c)[3] \in Nat
  BY WeightsAssumption, FormsAssumption DEF AnswerEntry
<1> QED
  BY <1>1, <1>2, EntryIs

LEMMA TableIsRegular ==
    ASSUME TableInv, mode = "categorical", \A e \in WeightEntries(table) : e[3] <= MaxWeight
    PROVE  Regular(WeightEntries(table))
<1>1. Weighted(WeightEntries(table))
  BY TableInvOK, EntriesOK DEF Weighted
<1> QED
  BY <1>1, EntriesAreNats DEF Regular, MaxWeight

LEMMA ShareIs ==
    ASSUME NEW entries, Regular(entries), NEW c \in Cats(entries)
    PROVE  \E k \in Nat :
              /\ Common(entries) = (3 * Cardinality(OfCat(entries, c)) * 3) * k
              /\ CategoryScore(entries, c) = Total(entries, c) * k
              /\ Cardinality(OfCat(entries, c)) \in Nat \ {0}
              /\ Total(entries, c) \in Nat /\ Total(entries, c) <= Cardinality(OfCat(entries, c)) * 3
<1> DEFINE S == OfCat(entries, c)
           t == Total(entries, c)
           m == Cardinality(S)
           b == Common(entries)
           d == Denominator(entries, c)
           r == RoundDiv(1000 * t, 3 * m)
<1>1. Weighted(entries) /\ \A e \in S : e[3] \in Nat /\ e[3] <= 3
  BY DEF Regular, OfCat
<1>2. IsFiniteSet(S) /\ S # {} /\ d = 3 * m * 3
  BY <1>1, CategoriesOK DEF Cats, OfCat, Denominator, MaxWeight
<1>3. m \in Nat \ {0}
  BY <1>2, FS_CardinalityType, FS_EmptySet
<1>4. t \in Nat /\ t <= m * 3
  <2>1. PICK g : IntSum(g, Weights(entries, c), S) /\ t = g[S]
    BY <1>1, TotalIsSum
  <2>2. \A e \in S : Weights(entries, c)[e] \in 0..3
    BY <1>1 DEF Weights
  <2>3. g[S] \in 0..(m * 3)
    BY <1>2, <2>1, <2>2, SumAtMost DEF IntSum
  <2> HIDE DEF m, t, S
  <2> QED
    BY <1>3, <2>1, <2>3
<1>5. b \in Nat \ {0}
  BY <1>1, CommonPositive
<1>6. PICK k \in Nat : b = d * k
  BY <1>1, CommonPositive
<1>7. b \div d = k
  <2>1. d \in Nat \ {0}
    BY <1>2, <1>3
  <2> HIDE DEF b, d
  <2>2. \A u \in Nat \ {0} : \A v \in Nat : (u * v) \div u = v
    OBVIOUS
  <2> QED
    BY <1>6, <2>1, <2>2
<1>8. CategoryScore(entries, c) = Clamp(t * k, 0, b)
  BY <1>7 DEF CategoryScore
<1> HIDE DEF S, t, m, b, d
<1>9. b = (3 * m * 3) * k
  BY <1>2, <1>6
<1>10. Clamp(t * k, 0, b) = t * k /\ r \in Int
  BY <1>3, <1>4, <1>5, <1>9, BarMatchesShare
<1>11. /\ b = (3 * m * 3) * k /\ CategoryScore(entries, c) = t * k
       /\ m \in Nat \ {0} /\ t \in Nat /\ t <= m * 3
  BY <1>3, <1>4, <1>8, <1>9, <1>10
<1> QED
  BY <1>11 DEF b, m, t, S

LEMMA ShareAndBar ==
    ASSUME NEW entries, Regular(entries), NEW c \in Cats(entries)
    PROVE  /\ Bars(entries)[c] \in Int
           /\ Close(2 * Common(entries), Bars(entries)[c], 6000, CategoryScore(entries, c), Common(entries))
<1> DEFINE t == Total(entries, c)
           m == Cardinality(OfCat(entries, c))
           b == Common(entries)
           r == RoundDiv(1000 * t, 3 * m)
<1>1. PICK k \in Nat : /\ b = (3 * m * 3) * k /\ CategoryScore(entries, c) = t * k
                       /\ m \in Nat \ {0} /\ t \in Nat /\ t <= m * 3
  BY ShareIs
<1>2. b \in Nat \ {0}
  BY CommonPositive DEF Regular
<1>3. Bars(entries)[c] = Clamp(r, 0, 1000)
  BY DEF Bars, MaxWeight
<1> HIDE DEF t, m, b
<1>a. b = (3 * m * 3) * k /\ m \in Nat \ {0} /\ t \in Nat /\ t <= m * 3
  BY <1>1
<1>4. r \in Int /\ Clamp(r, 0, 1000) = r /\ Close(2 * b, r, 6000, t * k, b)
  BY <1>2, <1>a, BarMatchesShare
<1> QED
  BY <1>1, <1>3, <1>4 DEF b

LEMMA SumsOfSharesAndBars ==
    ASSUME NEW entries, Regular(entries)
    PROVE  /\ SetSum(Bars(entries)) \in Int
           /\ Close(2 * Common(entries), SetSum(Bars(entries)), 6000, SumOfScores(entries),
                    Cardinality(Cats(entries)) * Common(entries))
<1> DEFINE S == Cats(entries)
           b == Common(entries)
           F == Bars(entries)
           G == CategoryScoresOf(entries)
<1>1. Weighted(entries)
  BY DEF Regular
<1>2. IsFiniteSet(S)
  BY <1>1, CategoriesOK
<1>3. PICK g : IsSum(g, F, S) /\ SetSum(Bars(entries)) = g[S]
  <2>1. DOMAIN F = S /\ SetSum(Bars(entries)) = SetSum(F)
    BY DEF Bars
  <2> HIDE DEF F, S
  <2> QED
    BY <1>2, <2>1, SetSumIsSum
<1>4. PICK k : IntSum(k, G, S) /\ SumOfScores(entries) = k[S]
  BY <1>1, ScoresAreSum
<1>5. \A c \in S : F[c] \in Int /\ Close(2 * b, F[c], 6000, G[c], b)
  BY ShareAndBar DEF CategoryScoresOf
<1>6. b \in Nat \ {0}
  BY <1>1, CommonPositive
<1>7. IntSum(g, F, S)
  BY <1>2, <1>3, <1>5 DEF IntSum
<1>8. g[S] \in Int
  BY <1>2, <1>3, <1>5, SumOfInts
<1> HIDE DEF S, b, F, G
<1>9. Close(2 * b, g[S], 6000, k[S], Cardinality(S) * b)
  <2> DEFINE p == 2 * b
             q == 6000
  <2>1. p \in Int /\ q \in Int /\ b \in Nat
    BY <1>6
  <2>2. \A c \in S : Close(p, F[c], q, G[c], b)
    BY <1>5
  <2> HIDE DEF p, q
  <2>3. Close(p, g[S], q, k[S], Cardinality(S) * b)
    BY <1>4, <1>7, <2>1, <2>2, SumsClose
  <2> QED
    BY <2>3 DEF p, q
<1> QED
  BY <1>3, <1>4, <1>8, <1>9 DEF S, b

\* Both round: the mean of n shares to hundredths of a percent, each of n bars to tenths.
LEMMA MeansMatch ==
    ASSUME NEW n \in Nat \ {0}, NEW b \in Nat \ {0}, NEW f \in Int, NEW x \in Int,
           Close(2 * b, x, 6000, f, n * b), NEW s, s = RoundDiv(10000 * f, n * b)
    PROVE  3 * s * n - 10 * x \in (-7 * n)..(7 * n)
<1> DEFINE w == n * b
           u == s * w
           v == b * x
           y == 2 * (3 * s * n - 10 * x)
<1>1. w \in Nat \ {0} /\ v \in Int
  BY Multiples
<1>2. s \in Int /\ 2 * u <= 2 * (10000 * f) + w /\ 2 * (10000 * f) < 2 * u + w
  <2>1. 10000 * f \in Int
    OBVIOUS
  <2> QED
    BY <1>1, <2>1, RoundDivIs
<1>3. 2 * v <= 6000 * f + w /\ 6000 * f <= 2 * v + w
  <2>1. (2 * b) * x = 2 * v
    OBVIOUS
  <2> QED
    BY <2>1 DEF Close
<1>4. y * b = 6 * u - 20 * v /\ u \in Int /\ y \in Int
  BY <1>2
<1>5. (13 * n) * b = 13 * w /\ (-13 * n) * b = -13 * w
  OBVIOUS
<1> DEFINE yb == y * b
<1>6. -13 * w <= yb /\ yb <= 13 * w
  <2> HIDE DEF w, u, v, y
  <2> QED
    BY <1>1, <1>2, <1>3, <1>4
<1>7. y <= 13 * n /\ -13 * n <= y
  <2>1. /\ 13 * n + 1 <= y => (13 * n) * b + b <= y * b
        /\ y + 1 <= -13 * n => y * b + b <= (-13 * n) * b
    <3> DEFINE p == 13 * n
               q == -13 * n
    <3>1. p \in Int /\ q \in Int /\ y \in Int
      BY <1>4
    <3> HIDE DEF p, q, y
    <3>2. (p + 1 <= y => p * b + b <= y * b) /\ (y + 1 <= q => y * b + b <= q * b)
      BY <3>1, Multiples
    <3> QED
      BY <3>2 DEF p, q
  <2> HIDE DEF y, w
  <2> QED
    BY <1>1, <1>4, <1>5, <1>6, <2>1
<1> DEFINE z == 3 * s * n - 10 * x
<1>8. z \in Int /\ y = 2 * z
  BY <1>2
<1> HIDE DEF y, z
<1>9. -7 * n <= z /\ z <= 7 * n
  BY <1>7, <1>8
<1> QED
  BY <1>8, <1>9 DEF z

\* Entries that double those of some categories of others, weight for weight.
Doubles(h, D, E) ==
    /\ \A d \in D : h[d] \in E /\ h[d][2] = d[2] /\ h[d][3] = d[3]
    /\ \A d1, d2 \in D : h[d1] = h[d2] => d1 = d2
    /\ \A e \in E : e[2] \in Cats(D) => \E d \in D : h[d] = e
    /\ D \cap E = {}

LEMMA DoublesOK ==
    ASSUME NEW h, NEW D, NEW E, Doubles(h, D, E), Weighted(E)
    PROVE  Weighted(D) /\ Weighted(E \cup D) /\ Cats(E \cup D) = Cats(E) /\ Cats(D) \subseteq Cats(E)
<1> DEFINE f == [e \in E |-> CHOOSE d \in D : h[d] = e]
<1>1. \A d \in D : h[d] \in E /\ d = f[h[d]]
  BY DEF Doubles
<1>2. IsFiniteSet(D)
  <2>1. \A y \in D : \E e \in E : y = f[e]
    BY <1>1
  <2> HIDE DEF f
  <2> QED
    BY <2>1, FiniteImage DEF Weighted
<1>3. \A d \in D : d[3] \in Int /\ d[2] \in Cats(E)
  BY DEF Doubles, Weighted, Cats
<1>4. IsFiniteSet(E \cup D)
  BY <1>2, FS_Union DEF Weighted
<1>5. Cats(E \cup D) = Cats(E) /\ Cats(D) \subseteq Cats(E)
  BY <1>3 DEF Cats
<1> QED
  BY <1>2, <1>3, <1>4, <1>5 DEF Weighted

LEMMA SumUnion ==
    ASSUME NEW S, NEW T, S \cap T = {}, NEW F, NEW g, IntSum(g, F, S \cup T)
    PROVE  g[S \cup T] = g[S] + g[T]
<1>0. IsFiniteSet(S) /\ T \in SUBSET (S \cup T)
  BY FS_Subset DEF IntSum
<1>1. \A w \in SUBSET (S \cup T) : g[w] \in Int /\ \A x \in w : F[x] \in Int /\ g[w] = F[x] + g[w \ {x}]
  BY SumOfInts, SumSplit DEF IntSum, Splits
<1> DEFINE B == {w \in SUBSET S : g[w \cup T] # g[w] + g[T]}
<1> SUFFICES ASSUME B # {} PROVE FALSE
  OBVIOUS
<1>2. B \in SUBSET SUBSET S
  OBVIOUS
<1> HIDE DEF B
<1>3. PICK u \in B : \A v \in B : v \subseteq u => v = u
  BY <1>0, <1>2, MinimalSubset
<1> USE DEF B
<1>4. u # {}
  <2>1. g[{}] = 0
    BY DEF IntSum, IsSum, IsFold, FoldStep, Unit
  <2>2. g[{} \cup T] = g[{}] + g[T]
    BY <1>0, <1>1, <2>1
  <2> QED
    BY <1>3, <2>2
<1> DEFINE x == One(u)
           v == u \ {x}
<1>5. x \in u /\ u \in SUBSET S
  BY <1>3, <1>4, OneOf
<1> HIDE DEF x
<1>6. g[v \cup T] = g[v] + g[T] /\ (u \cup T) \ {x} = v \cup T
  BY <1>3, <1>5
<1>7. g[u] = F[x] + g[v] /\ g[u \cup T] = F[x] + g[(u \cup T) \ {x}]
  BY <1>1, <1>5
<1>8. F[x] \in Int /\ g[v] \in Int /\ g[T] \in Int
  BY <1>0, <1>1, <1>5
<1>9. g[u \cup T] # g[u] + g[T]
  BY <1>3
<1>10. g[(u \cup T) \ {x}] = g[v \cup T]
  BY <1>6, Zenon
<1> HIDE DEF B, v
<1> QED
  BY <1>6, <1>7, <1>8, <1>9, <1>10

\* A part of a sum.
LEMMA SumPart ==
    ASSUME NEW S, NEW F, NEW g, IntSum(g, F, S), NEW T \in SUBSET S,
           NEW G, \A x \in T : G[x] = F[x], NEW k, IntSum(k, G, T)
    PROVE  k[T] = g[T]
<1> DEFINE B == {w \in SUBSET T : k[w] # g[w]}
<1> SUFFICES ASSUME B # {} PROVE FALSE
  OBVIOUS
<1>1. IsFiniteSet(T) /\ B \in SUBSET SUBSET T
  BY DEF IntSum
<1> HIDE DEF B
<1>2. PICK u \in B : \A v \in B : v \subseteq u => v = u
  BY <1>1, MinimalSubset
<1> USE DEF B
<1>3. u \in SUBSET T /\ u \in SUBSET S /\ k[u] # g[u]
  BY <1>2
<1>4. k[u] = FoldStep("sum", G, k, u) /\ g[u] = FoldStep("sum", F, g, u)
  BY <1>3 DEF IntSum, IsSum, IsFold
<1>5. u # {}
  BY <1>3, <1>4 DEF FoldStep
<1>6. One(u) \in u
  BY <1>5, OneOf
<1>7. k[u \ {One(u)}] = g[u \ {One(u)}] /\ G[One(u)] = F[One(u)]
  BY <1>2, <1>3, <1>6
<1> QED
  BY <1>3, <1>4, <1>5, <1>7 DEF FoldStep

LEMMA SumMatched ==
    ASSUME NEW S, NEW T, NEW h, Matches(h, S, T),
           NEW F, NEW g, IntSum(g, F, S), NEW G, NEW k, IntSum(k, G, T),
           \A x \in S : F[x] = G[h[x]]
    PROVE  g[S] = k[T] /\ Cardinality(S) = Cardinality(T)
<1> DEFINE i == [y \in T |-> CHOOSE x \in S : h[x] = y]
           f == [x \in S |-> h[x]]
<1>0. (\A x \in S : F[x] \in Int) /\ (\A y \in T : G[y] \in Int) /\ IsFiniteSet(S) /\ IsFiniteSet(T)
  BY DEF IntSum
<1>1. \A y \in T : i[y] \in S /\ h[i[y]] = y
  BY DEF Matches
<1>2. Matches(i, T, S)
  BY <1>1 DEF Matches
<1>3. g[S] \in Int /\ k[T] \in Int
  BY <1>0, SumOfInts DEF IntSum
<1>4. f \in Bijection(S, T)
  BY DEF Matches, Bijection, Injection, Surjection, IsInjective
<1> HIDE DEF i, f
<1>5. \A x \in S : F[x] <= G[h[x]]
  BY <1>0 DEF Matches
<1>6. \A y \in T : G[y] <= F[i[y]]
  BY <1>0, <1>1
<1>7. g[S] <= k[T]
  BY <1>5, SumCompare
<1>8. k[T] <= g[S]
  BY <1>2, <1>6, SumCompare
<1>9. Cardinality(S) = Cardinality(T)
  BY <1>0, <1>4, FS_Bijection DEF ExistsBijection
<1> QED
  BY <1>3, <1>7, <1>8, <1>9

LEMMA TotalsDouble ==
    ASSUME NEW h, NEW D, NEW E, Doubles(h, D, E), Weighted(E), NEW c \in Cats(D)
    PROVE  /\ Total(E \cup D, c) = 2 * Total(E, c) /\ Total(E, c) \in Int
           /\ Cardinality(OfCat(E \cup D, c)) = 2 * Cardinality(OfCat(E, c))
           /\ Cardinality(OfCat(E, c)) \in Nat \ {0}
<1> DEFINE S == OfCat(E, c)
           T == OfCat(D, c)
           U == OfCat(E \cup D, c)
           F == Weights(E, c)
           G == Weights(D, c)
           H == Weights(E \cup D, c)
<1>1. /\ Weighted(D) /\ Weighted(E \cup D) /\ c \in Cats(E) /\ c \in Cats(E \cup D)
      /\ IsFiniteSet(S) /\ IsFiniteSet(T)
  BY DoublesOK, CategoriesOK
<1>2. U = S \cup T /\ S \cap T = {} /\ S # {}
  <2>1. U = S \cup T
    BY DEF OfCat
  <2>2. S \cap T = {}
    BY DEF OfCat, Doubles
  <2>3. S # {}
    BY <1>1 DEF OfCat, Cats
  <2> QED
    BY <2>1, <2>2, <2>3
<1>3. (\A e \in S : H[e] = F[e]) /\ (\A e \in T : H[e] = G[e])
  BY DEF OfCat, Weights
<1>4. Matches(h, T, S) /\ \A d \in T : G[d] = F[h[d]]
  BY DEF Doubles, Matches, OfCat, Weights
<1>5. PICK f : IntSum(f, F, S) /\ Total(E, c) = f[S]
  BY <1>1, TotalIsSum
<1>6. PICK g : IntSum(g, G, T) /\ Total(D, c) = g[T]
  BY <1>1, TotalIsSum
<1>7. PICK k : IntSum(k, H, U) /\ Total(E \cup D, c) = k[U]
  BY <1>1, TotalIsSum
<1>8. Total(E, c) \in Int
  BY <1>1, TotalIsSum
<1> HIDE DEF S, T, U, F, G, H
<1>9. f[S] = k[S] /\ g[T] = k[T]
  BY <1>2, <1>3, <1>5, <1>6, <1>7, SumPart
<1>10. k[U] = k[S] + k[T]
  BY <1>2, <1>7, SumUnion
<1>11. g[T] = f[S] /\ Cardinality(T) = Cardinality(S)
  BY <1>4, <1>5, <1>6, SumMatched
<1>12. Cardinality(U) = Cardinality(S) + Cardinality(T) /\ Cardinality(S) \in Nat \ {0}
  <2>1. Cardinality(U) = Cardinality(S) + Cardinality(T) - Cardinality({})
    BY <1>1, <1>2, FS_Union
  <2> QED
    BY <1>1, <1>2, <2>1, FS_EmptySet, FS_CardinalityType
<1> QED
  BY <1>5, <1>7, <1>8, <1>9, <1>10, <1>11, <1>12 DEF S, U

LEMMA RoundDivDoubles ==
    ASSUME NEW a \in Int, NEW b \in Nat \ {0}
    PROVE  RoundDiv(2 * a, 2 * b) = RoundDiv(a, b)
<1> DEFINE m == RoundDiv(2 * a, 2 * b)
           n == RoundDiv(a, b)
           x == m * b
           y == n * b
<1>1. n \in Int /\ 2 * y <= 2 * a + b /\ 2 * a < 2 * y + b
  BY RoundDivIs
<1>2. m \in Int /\ 2 * (m * (2 * b)) <= 2 * (2 * a) + 2 * b /\ 2 * (2 * a) < 2 * (m * (2 * b)) + 2 * b
  <2> DEFINE p == 2 * a
             q == 2 * b
  <2>1. p \in Int /\ q \in Nat \ {0}
    OBVIOUS
  <2> HIDE DEF p, q
  <2>2. /\ RoundDiv(p, q) \in Int /\ 2 * (RoundDiv(p, q) * q) <= 2 * p + q
        /\ 2 * p < 2 * (RoundDiv(p, q) * q) + q
    BY <2>1, RoundDivIs
  <2> QED
    BY <2>2 DEF p, q
<1> HIDE DEF m, n
<1>3. m * (2 * b) = 2 * x /\ x \in Int /\ y \in Int
  BY <1>1, <1>2
<1>4. 2 * x <= 2 * a + b /\ 2 * a < 2 * x + b
  <2> HIDE DEF x
  <2> QED
    BY <1>2, <1>3
<1>5. (m + 1 <= n => x + b <= y) /\ (n + 1 <= m => y + b <= x)
  BY <1>1, <1>2, Multiples
<1> HIDE DEF x, y
<1>6. ~(m + 1 <= n) /\ ~(n + 1 <= m)
  BY <1>1, <1>3, <1>4, <1>5
<1>7. m = n
  BY <1>1, <1>2, <1>6
<1> QED
  BY <1>7 DEF m, n

LEMMA BarsDouble ==
    ASSUME NEW h, NEW D, NEW E, Doubles(h, D, E), Weighted(E)
    PROVE  Bars(E \cup D) = Bars(E)
<1>1. Cats(E \cup D) = Cats(E)
  BY DoublesOK
<1> DEFINE Height(X, c) == RoundDiv(1000 * Total(X, c), MaxWeight * Cardinality(OfCat(X, c)))
<1>2. ASSUME NEW c \in Cats(E) PROVE Height(E \cup D, c) = Height(E, c)
  <2>1. CASE c \in Cats(D)
    <3> DEFINE t == Total(E, c)
               n == Cardinality(OfCat(E, c))
               a == 1000 * t
               b == 3 * n
    <3>1. /\ Total(E \cup D, c) = 2 * t /\ t \in Int
          /\ Cardinality(OfCat(E \cup D, c)) = 2 * n /\ n \in Nat \ {0}
      BY <2>1, TotalsDouble
    <3> HIDE DEF t, n
    <3>2. a \in Int /\ b \in Nat \ {0} /\ 1000 * (2 * t) = 2 * a /\ 3 * (2 * n) = 2 * b
      BY <3>1
    <3>3. Height(E \cup D, c) = RoundDiv(2 * a, 2 * b)
      BY <3>1, <3>2 DEF MaxWeight
    <3>4. Height(E, c) = RoundDiv(a, b)
      BY DEF MaxWeight, t, n
    <3> HIDE DEF a, b, Height
    <3> QED
      BY <3>2, <3>3, <3>4, RoundDivDoubles
  <2>2. CASE c \notin Cats(D)
    <3>1. OfCat(E \cup D, c) = OfCat(E, c)
      BY <2>2 DEF OfCat, Cats
    <3> QED
      BY <3>1 DEF Total
  <2> QED
    BY <2>1, <2>2
<1>3. \A X : Bars(X) = [c \in Cats(X) |-> Clamp(Height(X, c), 0, 1000)]
  BY DEF Bars
<1> HIDE DEF Height
<1> QED
  BY <1>1, <1>2, <1>3

\* The marks beside selections, which only the chart counts.
KeptEntries(tbl) ==
    UNION {{<<q, c, tbl[q].grade[c]>> : c \in DOMAIN tbl[q].grade} :
           q \in {p \in Questions : KeepsMark(tbl, p)}}

LEMMA KeptEntryIs ==
    ASSUME NEW tbl, NEW e
    PROVE  e \in KeptEntries(tbl) <=>
              \E q \in Questions : \E c \in DOMAIN tbl[q].grade : KeepsMark(tbl, q) /\ e = MarkEntry(tbl, q, c)
<1> DEFINE Of(q) == {<<q, c, tbl[q].grade[c]>> : c \in DOMAIN tbl[q].grade}
<1>1. KeptEntries(tbl) = UNION {Of(q) : q \in {p \in Questions : KeepsMark(tbl, p)}}
  BY DEF KeptEntries
<1>2. \A q : e \in Of(q) <=> \E c \in DOMAIN tbl[q].grade : e = MarkEntry(tbl, q, c)
  BY DEF MarkEntry
<1> HIDE DEF Of
<1>3. e \in KeptEntries(tbl) <=> \E q \in Questions : KeepsMark(tbl, q) /\ e \in Of(q)
  BY <1>1
<1> QED
  BY <1>2, <1>3

LEMMA SeededRow ==
    ASSUME TableInv, mode = "categorical", NEW q \in Questions, Row(table, q), ~Written(q), Selected(table[q])
    PROVE  \E a \in AnswersOf[q] : table[q].answer.ids = {a} /\ table[q].grade = SeededMark(a)
<1>1. table[q] \in Rows(mode, q)
  BY DEF TableInv
<1>2. PICK s \in Chosen(mode, q) : table[q].answer = s.answer /\ table[q].grade = s.grade
  BY <1>1, ChosenRow DEF ChosenRows, Selected
<1>3. PICK a \in AnswersOf[q] : s = [answer |-> [enc |-> "list", ids |-> {a}], grade |-> SeededMark(a)]
  BY <1>2 DEF Chosen
<1>4. s.answer.ids = {a} /\ s.grade = SeededMark(a)
  BY <1>3
<1> QED
  BY <1>2, <1>4

\* The answer that a mark has been taken from.
KeptAnswer(q) == CHOOSE a \in AnswersOf[q] : table[q].answer.ids = {a}

LEMMA KeptMark ==
    ASSUME TableInv, mode = "categorical", NEW q \in Questions, KeepsMark(table, q), Selected(table[q])
    PROVE  /\ q \in Scorable(table) /\ table[q].answer.ids = {KeptAnswer(q)}
           /\ KeptAnswer(q) \in AnswersOf[q] \cap DOMAIN AnswerWeights
           /\ table[q].grade = AnswerWeights[KeptAnswer(q)]
<1>1. Row(table, q) /\ ~Written(q) /\ table[q].grade # Null
  BY DEF KeepsMark
<1>2. PICK a \in AnswersOf[q] : table[q].answer.ids = {a} /\ table[q].grade = SeededMark(a)
  BY <1>1, SeededRow
<1>3. KeptAnswer(q) \in AnswersOf[q] /\ table[q].answer.ids = {KeptAnswer(q)}
  BY <1>2 DEF KeptAnswer
<1>4. KeptAnswer(q) = a
  BY <1>2, <1>3
<1>5. a \in DOMAIN AnswerWeights /\ table[q].grade = AnswerWeights[a]
  BY <1>1, <1>2 DEF SeededMark
<1>6. q \in Scorable(table)
  BY <1>1 DEF Scorable
<1> QED
  BY <1>3, <1>4, <1>5, <1>6

\* Where the chart counts evenly, it counts whole categories twice.
LEMMA EvenEntries ==
    ASSUME TableInv, mode = "categorical", CountsEvenly
    PROVE  \E h : Doubles(h, KeptEntries(table), WeightEntries(table))
<1> DEFINE D == KeptEntries(table)
           E == WeightEntries(table)
           h == [d \in D |-> AnswerEntry(KeptAnswer(d[1]), d[2])]
           Kept(q) == q \in Questions /\ KeepsMark(table, q)
<1>1. \A q : Kept(q) => /\ q \in Scorable(table) /\ table[q].answer.ids = {KeptAnswer(q)} /\ ~Written(q)
                        /\ KeptAnswer(q) \in AnswersOf[q] \cap DOMAIN AnswerWeights
                        /\ table[q].grade = AnswerWeights[KeptAnswer(q)]
  BY KeptMark DEF CountsEvenly, KeepsMark
<1>2. ASSUME NEW d \in D
      PROVE  \E q, c : /\ Kept(q) /\ c \in DOMAIN AnswerWeights[KeptAnswer(q)]
                       /\ d = <<q, c, AnswerWeights[KeptAnswer(q)][c]>>
                       /\ h[d] = <<KeptAnswer(q), c, AnswerWeights[KeptAnswer(q)][c]>>
  <2>1. PICK q \in Questions : \E c \in DOMAIN table[q].grade : Kept(q) /\ d = MarkEntry(table, q, c)
    BY <1>2, KeptEntryIs
  <2>2. PICK c \in DOMAIN table[q].grade : Kept(q) /\ d = MarkEntry(table, q, c)
    BY <2>1
  <2>3. table[q].grade = AnswerWeights[KeptAnswer(q)]
    BY <1>1, <2>2
  <2>4. d = <<q, c, AnswerWeights[KeptAnswer(q)][c]>>
    BY <2>2, <2>3 DEF MarkEntry
  <2>5. h[d] = AnswerEntry(KeptAnswer(q), c)
    BY <2>4
  <2> QED
    BY <2>2, <2>3, <2>4, <2>5 DEF AnswerEntry
<1> HIDE DEF h, D, E
<1>3. \A d \in D : h[d] \in E /\ h[d][2] = d[2] /\ h[d][3] = d[3]
  <2> SUFFICES ASSUME NEW d \in D PROVE h[d] \in E /\ h[d][2] = d[2] /\ h[d][3] = d[3]
    OBVIOUS
  <2>1. PICK q, c : /\ Kept(q) /\ c \in DOMAIN AnswerWeights[KeptAnswer(q)]
                    /\ d = <<q, c, AnswerWeights[KeptAnswer(q)][c]>>
                    /\ h[d] = <<KeptAnswer(q), c, AnswerWeights[KeptAnswer(q)][c]>>
    BY <1>2
  <2>2. h[d] = AnswerEntry(KeptAnswer(q), c)
    BY <2>1 DEF AnswerEntry
  <2>3. q \in Scorable(table) /\ KeptAnswer(q) \in table[q].answer.ids \cap DOMAIN AnswerWeights /\ ~Written(q)
    BY <1>1, <2>1
  <2>4. h[d] \in E
    BY <2>1, <2>2, <2>3, EntryIs DEF E
  <2> QED
    BY <2>1, <2>4
<1>4. \A d1, d2 \in D : h[d1] = h[d2] => d1 = d2
  <2> SUFFICES ASSUME NEW d1 \in D, NEW d2 \in D, h[d1] = h[d2] PROVE d1 = d2
    OBVIOUS
  <2>1. PICK q1, c1 : /\ Kept(q1) /\ d1 = <<q1, c1, AnswerWeights[KeptAnswer(q1)][c1]>>
                      /\ h[d1] = <<KeptAnswer(q1), c1, AnswerWeights[KeptAnswer(q1)][c1]>>
    BY <1>2
  <2>2. PICK q2, c2 : /\ Kept(q2) /\ d2 = <<q2, c2, AnswerWeights[KeptAnswer(q2)][c2]>>
                      /\ h[d2] = <<KeptAnswer(q2), c2, AnswerWeights[KeptAnswer(q2)][c2]>>
    BY <1>2
  <2>3. KeptAnswer(q1) = KeptAnswer(q2) /\ c1 = c2
    BY <2>1, <2>2
  <2>4. q1 = q2
    <3>1. KeptAnswer(q1) \in AnswersOf[q1] \cap AnswersOf[q2]
      BY <1>1, <2>1, <2>2, <2>3
    <3> QED
      BY <2>1, <2>2, <3>1, FormsAssumption
  <2> QED
    BY <2>1, <2>2, <2>3, <2>4
<1>5. \A e \in E : e[2] \in Cats(D) => \E d \in D : h[d] = e
  <2> SUFFICES ASSUME NEW e \in E, e[2] \in Cats(D) PROVE \E d \in D : h[d] = e
    OBVIOUS
  <2>1. PICK b \in D : b[2] = e[2]
    BY DEF Cats
  <2>2. PICK q, c : Kept(q) /\ c \in DOMAIN AnswerWeights[KeptAnswer(q)] /\ c = e[2]
    BY <1>2, <2>1
  <2>3. c \in DOMAIN table[q].grade
    BY <1>1, <2>2
  <2>4. ASSUME NEW p \in Scorable(table), NEW k \in DOMAIN table[p].grade, Written(p), e = MarkEntry(table, p, k)
        PROVE  FALSE
    <3>1. k = c
      BY <2>2, <2>4 DEF MarkEntry
    <3>2. DOMAIN table[p].grade \cap DOMAIN table[q].grade = {}
      BY <2>2, <2>4 DEF CountsEvenly
    <3> QED
      BY <2>3, <2>4, <3>1, <3>2
  <2>5. PICK p \in Scorable(table) : \E a \in table[p].answer.ids \cap DOMAIN AnswerWeights :
                                        \E k \in DOMAIN AnswerWeights[a] : ~Written(p) /\ e = AnswerEntry(a, k)
    BY <2>4, EntryIs DEF E
  <2>6. PICK a \in table[p].answer.ids \cap DOMAIN AnswerWeights :
           \E k \in DOMAIN AnswerWeights[a] : ~Written(p) /\ e = AnswerEntry(a, k)
    BY <2>5
  <2>7. PICK k \in DOMAIN AnswerWeights[a] : ~Written(p) /\ e = AnswerEntry(a, k)
    BY <2>6
  <2>8. p \in Questions /\ Row(table, p) /\ Selected(table[p])
    BY <2>7 DEF Scorable
  <2>9. table[p].grade = AnswerWeights[a]
    <3>1. PICK b1 \in AnswersOf[p] : table[p].answer.ids = {b1} /\ table[p].grade = SeededMark(b1)
      BY <2>7, <2>8, SeededRow
    <3>2. b1 = a
      BY <3>1
    <3> QED
      BY <2>7, <3>1, <3>2 DEF SeededMark
  <2>10. Kept(p)
    BY <2>7, <2>8, <2>9, NullAssumption DEF KeepsMark
  <2>11. a = KeptAnswer(p)
    BY <1>1, <2>10
  <2> DEFINE d == MarkEntry(table, p, k)
  <2>12. d \in D
    BY <2>7, <2>8, <2>9, <2>10, KeptEntryIs DEF D
  <2>13. d[1] = p /\ d[2] = k
    BY DEF MarkEntry
  <2>14. h[d] = AnswerEntry(a, k)
    BY <2>11, <2>12, <2>13 DEF h
  <2> QED
    BY <2>7, <2>12, <2>14
<1>6. D \cap E = {}
  <2> SUFFICES ASSUME NEW d \in D, d \in E PROVE FALSE
    OBVIOUS
  <2>1. PICK q : Kept(q) /\ d[1] = q
    BY <1>2
  <2>2. q \in Questions /\ ~Written(q)
    BY <1>1, <2>1
  <2>3. ASSUME NEW p \in Scorable(table), NEW k \in DOMAIN table[p].grade, Written(p), d = MarkEntry(table, p, k)
        PROVE  FALSE
    BY <2>1, <2>2, <2>3 DEF MarkEntry
  <2>4. ASSUME NEW p \in Scorable(table), NEW a \in table[p].answer.ids \cap DOMAIN AnswerWeights,
               NEW k \in DOMAIN AnswerWeights[a], d = AnswerEntry(a, k)
        PROVE  FALSE
    <3>1. d[1] = a
      BY <2>4 DEF AnswerEntry
    <3> QED
      BY <2>1, <2>2, <3>1, WeightsAssumption
  <2> QED
    BY <2>3, <2>4, EntryIs DEF E
<1> QED
  BY <1>3, <1>4, <1>5, <1>6 DEF Doubles, D, E

LEMMA EvenChart ==
    ASSUME TableInv, mode = "categorical", CountsEvenly
    PROVE  CategoryScores(table) = Bars(WeightEntries(table))
<1>1. Weighted(WeightEntries(table))
  BY TableInvOK, EntriesOK DEF Weighted
<1>2. ChartEntries(table) = WeightEntries(table) \cup KeptEntries(table)
  BY DEF ChartEntries, KeptEntries
<1> QED
  BY <1>1, <1>2, EvenEntries, BarsDouble, ChartIs

\* The service and the performance page compute from the same weights: the chart's mean
\* is three times the score, within 0.7% for rounding, if no weight is above 3 and the
\* marks that only the chart counts double whole categories.
THEOREM ChartsMatchScores == Spec => []ChartMatchesScore
<1>1. TableInv => ChartMatchesScore
  <2> DEFINE entries == WeightEntries(table)
             cats == Cats(entries)
             n == Cardinality(cats)
             b == Common(entries)
             f == SumOfScores(entries)
             x == SetSum(Bars(entries))
             chart == CategoryScores(table)
  <2>a. TableInv /\ mode = "categorical" /\ CountsEvenly => chart = Bars(entries) /\ DOMAIN chart = cats
    BY EvenChart DEF Bars
  <2>b. ChartMatchesScore <=>
           (/\ mode = "categorical" /\ Score # Null /\ CountsEvenly
            /\ \A e \in entries : e[3] <= MaxWeight
            => 3 * Score * Cardinality(DOMAIN chart) - 10 * SetSum(chart)
                  \in (-7 * Cardinality(DOMAIN chart))..(7 * Cardinality(DOMAIN chart)))
    BY DEF ChartMatchesScore, SetSum
  <2> SUFFICES ASSUME TableInv, mode = "categorical", Score # Null, CountsEvenly,
                      \A e \in entries : e[3] <= MaxWeight
               PROVE  3 * Score * n - 10 * x \in (-7 * n)..(7 * n)
    <3> HIDE DEF chart, entries, cats
    <3> QED
      BY <2>a, <2>b
  <2>1. Regular(entries)
    BY TableIsRegular
  <2>2. Score = IF cats = {} THEN Null ELSE RoundDiv(10000 * f, n * b)
    <3>1. Score = CalculateCategoricalScore(table)
      BY DEF Score, CalculateScore
    <3> QED
      BY <3>1, CategoricalIs
  <2>3. cats # {} /\ Score = RoundDiv(10000 * f, n * b)
    BY <2>2
  <2>4. n \in Nat \ {0} /\ b \in Nat \ {0}
    BY <2>1, <2>3, CategoriesOK, CommonPositive, FS_CardinalityType, FS_EmptySet DEF Regular
  <2>5. f \in Int
    <3>1. n * b \in Nat /\ f \in 0..(n * b)
      BY <2>1, <2>4, ScoresAreSum DEF Regular
    <3> HIDE DEF f, n, b
    <3> QED
      BY <3>1
  <2>6. x \in Int /\ Close(2 * b, x, 6000, f, n * b)
    BY <2>1, SumsOfSharesAndBars
  <2> HIDE DEF n, b, f, x
  <2> QED
    BY <2>3, <2>4, <2>5, <2>6, MeansMatch
<1> QED
  BY <1>1, TableIsWritten, PTL

-----------------------------------------------------------------------------
(***************************************************************************)
(* Full marks                                                              *)
(***************************************************************************)
LEMMA SumOfEqual ==
    ASSUME NEW S, IsFiniteSet(S), NEW b \in Nat, NEW F, \A x \in S : F[x] = b, NEW g, IsSum(g, F, S)
    PROVE  g[S] = Cardinality(S) * b
<1> DEFINE B == {w \in SUBSET S : g[w] # Cardinality(w) * b}
<1> SUFFICES ASSUME B # {} PROVE FALSE
  OBVIOUS
<1>0. B \in SUBSET SUBSET S
  OBVIOUS
<1> HIDE DEF B
<1>1. PICK u \in B : \A v \in B : v \subseteq u => v = u
  BY <1>0, MinimalSubset
<1> USE DEF B
<1>2. g[u] = FoldStep("sum", F, g, u)
  BY DEF IsSum, IsFold
<1>3. u # {}
  <2>1. u = {} => g[u] = 0 /\ Cardinality(u) * b = 0
    BY <1>2, FS_EmptySet DEF FoldStep, Unit
  <2> QED
    BY <1>1, <2>1
<1> DEFINE w == u \ {One(u)}
           n == Cardinality(w)
<1>4. One(u) \in u
  BY <1>3, OneOf
<1>5. g[w] = n * b /\ F[One(u)] = b
  BY <1>1, <1>4
<1>6. n \in Nat /\ Cardinality(u) = n + 1
  <2>1. IsFiniteSet(u) /\ IsFiniteSet(w)
    BY FS_Subset
  <2> QED
    BY <1>4, <2>1, FS_RemoveElement, FS_CardinalityType
<1>7. g[u] = F[One(u)] + g[w]
  BY <1>2, <1>3 DEF FoldStep, Combine
<1> HIDE DEF w, n
<1>8. (n + 1) * b = b + n * b
  BY <1>6
<1> QED
  BY <1>1, <1>5, <1>6, <1>7, <1>8

\* A category's share is at most a third of the common denominator, which 3 divides.
AllFull(entries) == \A e \in entries : e[3] = 3

LEMMA ShareUpToThird ==
    ASSUME NEW entries, Regular(entries), NEW c \in Cats(entries)
    PROVE  /\ CategoryScore(entries, c) \in Nat /\ 3 * CategoryScore(entries, c) <= Common(entries)
           /\ AllFull(entries) => 3 * CategoryScore(entries, c) = Common(entries)
<1> DEFINE S == OfCat(entries, c)
           t == Total(entries, c)
           m == Cardinality(S)
<1>1. \E k \in Nat : /\ Common(entries) = (3 * m * 3) * k
                     /\ CategoryScore(entries, c) = t * k
                     /\ m \in Nat /\ t \in Nat /\ t <= m * 3
  BY ShareIs
<1>2. AllFull(entries) => t = m * 3
  <2>1. Weighted(entries)
    BY DEF Regular
  <2>2. PICK g : IntSum(g, Weights(entries, c), S) /\ t = g[S]
    BY <2>1, TotalIsSum
  <2>3. AllFull(entries) => \A e \in S : Weights(entries, c)[e] = 3
    BY DEF Weights, OfCat, AllFull
  <2>4. IsFiniteSet(S) /\ IsSum(g, Weights(entries, c), S)
    BY <2>2 DEF IntSum
  <2>5. AllFull(entries) => g[S] = m * 3
    BY <2>3, <2>4, SumOfEqual
  <2> QED
    BY <2>2, <2>5
<1> HIDE DEF S, t, m
<1>3. PICK k \in Nat : /\ Common(entries) = (3 * m * 3) * k
                       /\ CategoryScore(entries, c) = t * k
                       /\ m \in Nat /\ t \in Nat /\ t <= m * 3
  BY <1>1
<1> DEFINE s == t * k
           p == (m * 3) * k
<1>4. s <= p /\ s \in Nat /\ p \in Nat
  BY <1>3, Multiples
<1>5. (3 * m * 3) * k = 3 * p
  BY <1>3
<1>6. t = m * 3 => s = p
  OBVIOUS
<1> HIDE DEF s, p
<1>7. CategoryScore(entries, c) = s /\ Common(entries) = 3 * p
  BY <1>3, <1>5 DEF s
<1> QED
  BY <1>2, <1>4, <1>6, <1>7

\* The mean of shares that are thirds.
LEMMA MeanOfThirds ==
    ASSUME NEW w \in Nat \ {0}, NEW f \in Nat, 3 * f <= w
    PROVE  /\ RoundDiv(10000 * f, w) <= 3333
           /\ 3 * f = w => RoundDiv(10000 * f, w) = 3333
<1> DEFINE s == RoundDiv(10000 * f, w)
           u == s * w
<1>1. s \in Int /\ 2 * u <= 2 * (10000 * f) + w /\ 2 * (10000 * f) < 2 * u + w
  <2>1. 10000 * f \in Int
    OBVIOUS
  <2> QED
    BY <2>1, RoundDivIs
<1>2. (s >= 3334 => 3334 * w <= u) /\ (s <= 3332 => u <= 3332 * w)
  BY <1>1, Multiples
<1>3. u \in Int
  BY <1>1
<1> HIDE DEF s, u
<1>4. ~(s >= 3334) /\ (3 * f = w => ~(s <= 3332))
  BY <1>1, <1>2, <1>3
<1>5. s <= 3333 /\ (3 * f = w => s = 3333)
  BY <1>1, <1>4
<1> QED
  BY <1>5 DEF s

LEMMA SumUpToThird ==
    ASSUME NEW entries, Regular(entries)
    PROVE  /\ SumOfScores(entries) \in Nat
           /\ 3 * SumOfScores(entries) <= Cardinality(Cats(entries)) * Common(entries)
           /\ AllFull(entries) => 3 * SumOfScores(entries) = Cardinality(Cats(entries)) * Common(entries)
<1> DEFINE S == Cats(entries)
           b == Common(entries)
           F == CategoryScoresOf(entries)
           third == b \div 3
           n == Cardinality(S)
<1>1. Weighted(entries)
  BY DEF Regular
<1>2. IsFiniteSet(S) /\ n \in Nat
  BY <1>1, CategoriesOK, FS_CardinalityType
<1>3. PICK g : IntSum(g, F, S) /\ SumOfScores(entries) = g[S]
  BY <1>1, ScoresAreSum
<1>4. b \in Nat
  BY <1>1, CommonPositive
<1>5. third \in Nat /\ (S # {} => b = 3 * third)
  <2>1. S # {} => \E k \in Nat : b = 9 * k
    <3> SUFFICES ASSUME S # {} PROVE \E k \in Nat : b = 9 * k
      OBVIOUS
    <3>1. PICK c \in S : TRUE
      OBVIOUS
    <3>2. PICK k, m \in Nat : b = (3 * m * 3) * k
      BY ShareIs
    <3>3. b = 9 * (m * k) /\ m * k \in Nat
      BY <3>2
    <3> QED
      BY <3>3
  <2> HIDE DEF b, S
  <2> QED
    BY <1>4, <2>1
<1>6. \A c \in S : F[c] \in 0..third /\ (AllFull(entries) => F[c] = third)
  <2>1. \A c \in S : F[c] \in Nat /\ 3 * F[c] <= b /\ (AllFull(entries) => 3 * F[c] = b)
    BY ShareUpToThird DEF CategoryScoresOf
  <2> HIDE DEF F, b, S
  <2> QED
    BY <1>5, <2>1
<1>7. IsSum(g, F, S)
  BY <1>3 DEF IntSum
<1> HIDE DEF S, b, F, third
<1>8. g[S] \in 0..(n * third) /\ (AllFull(entries) => g[S] = n * third)
  BY <1>2, <1>5, <1>6, <1>7, SumAtMost, SumOfEqual
<1>9. 3 * (n * third) = n * b
  <2>1. CASE S = {}
    <3>1. n = 0
      BY <2>1, FS_EmptySet
    <3> QED
      BY <1>4, <1>5, <3>1
  <2>2. CASE S # {}
    BY <1>2, <1>5, <2>2
  <2> QED
    BY <2>1, <2>2
<1> DEFINE nt == n * third
           nb == n * b
<1>10. nt \in Nat
  BY <1>2, <1>5
<1> HIDE DEF n
<1>11. 3 * nt = nb /\ g[S] \in 0..nt /\ (AllFull(entries) => g[S] = nt)
  BY <1>8, <1>9
<1> HIDE DEF nt, nb
<1>12. g[S] \in Nat /\ 3 * g[S] <= nb /\ (AllFull(entries) => 3 * g[S] = nb)
  BY <1>10, <1>11
<1> QED
  BY <1>3, <1>12 DEF nb, n, S, b

LEMMA ScoreUpToThird ==
    ASSUME TableInv, mode = "categorical", Score # Null,
           \A e \in WeightEntries(table) : e[3] <= MaxWeight
    PROVE  /\ Score <= 3333
           /\ (\A e \in WeightEntries(table) : e[3] = MaxWeight) => Score = 3333
<1> DEFINE entries == WeightEntries(table)
           cats == Cats(entries)
           w == Cardinality(cats) * Common(entries)
           f == SumOfScores(entries)
<1>1. Regular(entries)
  BY TableIsRegular
<1>2. Score = IF cats = {} THEN Null ELSE RoundDiv(10000 * f, w)
  <2>1. Score = CalculateCategoricalScore(table)
    BY DEF Score, CalculateScore
  <2> QED
    BY <2>1, CategoricalIs
<1>3. cats # {} /\ Score = RoundDiv(10000 * f, w)
  BY <1>2
<1>4. w \in Nat \ {0}
  BY <1>1, <1>3, WholePositive DEF Regular
<1>5. f \in Nat /\ 3 * f <= w /\ (AllFull(entries) => 3 * f = w)
  BY <1>1, SumUpToThird
<1>6. (\A e \in WeightEntries(table) : e[3] = MaxWeight) => AllFull(entries)
  BY DEF AllFull, MaxWeight
<1> HIDE DEF f, w, entries
<1> QED
  BY <1>3, <1>4, <1>5, <1>6, MeanOfThirds
\* "Normalize to 0-100 scale" divides by the maximal weight a second time: with weights of
\* at most 3, as the grading form expects, no categorical score of any assessment is above
\* 33.33%, and full marks in every category of every response are exactly that.
AThirdAtMost ==
    /\ mode = "categorical" /\ Score # Null
    /\ \A e \in WeightEntries(table) : e[3] <= MaxWeight
    => /\ Score <= 3333
       /\ (\A e \in WeightEntries(table) : e[3] = MaxWeight) => Score = 3333

THEOREM FullMarksAreAThird == Spec => []AThirdAtMost
<1>1. TableInv => AThirdAtMost
  BY ScoreUpToThird DEF AThirdAtMost
<1> QED
  BY <1>1, TableIsWritten, PTL
=============================================================================
