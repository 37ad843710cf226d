----------------------------- MODULE ScoreTables -----------------------------
(***************************************************************************)
(* The responses of one (assessment, participant) pair as storeResponse,   *)
(* the seeder and the grading form write them, one row at a time, and what *)
(* the score, the dashboards and the progress bar make of every table they *)
(* can build: compared with a reference, with one another, or before and   *)
(* after a write.                                                          *)
(***************************************************************************)
EXTENDS Dashboards

CONSTANTS
    MaxQuestions,   \* AssessmentController: questions is max:100
    GradedPoints,   \* the graded_scores a grader enters
    GradedWeights,  \* the weights of graded_categories a grader enters
    Categories,     \* the assessment's categories
    OtherScores     \* scores of the participant's other assessments

Marks(m) ==
    IF m = "percentile" THEN GradedPoints
    ELSE UNION {[S -> GradedWeights] : S \in SUBSET Categories}

\* What a multiple-choice row holds as a list.  The seeder picks one answer of a test in
\* categorical mode and keeps that answer's weights beside it as graded_categories; in
\* percentile mode the list is any that calculateMCQScore sums.
SeededMark(a) ==
    IF a \in DOMAIN AnswerWeights /\ DOMAIN AnswerWeights[a] # {} THEN AnswerWeights[a] ELSE Null
Chosen(m, q) ==
    IF m = "categorical"
    THEN {[answer |-> [enc |-> "list", ids |-> {a}], grade |-> SeededMark(a)] : a \in AnswersOf[q]}
    ELSE {[answer |-> [enc |-> "list", ids |-> ids], grade |-> Null] :
             ids \in SUBSET AnswersOf[q] \ {{}}}

\* A row of a written question, with the grader's part, or of a multiple-choice one,
\* whose selection storeResponse may have emptied since.
Rows(m, q) ==
    IF Written(q)
    THEN [answer : {Null, "text"}, graded : BOOLEAN, grade : {Null} \cup Marks(m)]
    ELSE [answer : {Null}, graded : {FALSE}, grade : {Null}]
         \cup UNION {[answer : {Null, s.answer}, graded : {FALSE}, grade : {s.grade}] : s \in Chosen(m, q)}

\* Every number of the forms is validated with min:0, an assessment has from 1 to
\* MaxQuestions questions, no score is outside 0 to 100%, and an answer is of one question.
ASSUME FormsAssumption ==
    /\ MaxQuestions \in 1..100
    /\ Questions # {} /\ Cardinality(Questions) <= MaxQuestions
    /\ \A a \in DOMAIN AnswerScore : AnswerScore[a] >= 0
    /\ \A a \in DOMAIN AnswerWeights : \A c \in DOMAIN AnswerWeights[a] : AnswerWeights[a][c] >= 0
    /\ \A n \in GradedPoints \cup GradedWeights : n \in Nat
    /\ IsFiniteSet(Categories)
    /\ \A p, q \in Questions : p # q => AnswersOf[p] \cap AnswersOf[q] = {}
    /\ \A n \in OtherScores : n \in Nat /\ n <= 10000
ASSUME NullAssumption ==
    Null \notin Int /\ \A a \in DOMAIN AnswerWeights : AnswerWeights[a] # Null
ASSUME NoRowAssumption ==
    \A m \in ScoringModes : \A q \in Questions : NoRow \notin Rows(m, q)

VARIABLES
    mode,    \* the assessment's scoring_mode, fixed once it is created
    table    \* the pair's participant_responses
vars == <<mode, table>>

Init ==
    /\ mode \in ScoringModes
    /\ table = [q \in Questions |-> NoRow]

Blank == [answer |-> Null, graded |-> FALSE, grade |-> Null]
Old(q) == IF Row(table, q) THEN table[q] ELSE Blank

\* a participant's answer, a seeded selection, a grader's mark (blank or not)
Answer(q) ==
    \E a \in IF Written(q) THEN {Null, "text"} ELSE {Null} :
        table' = [table EXCEPT ![q] = [Old(q) EXCEPT !.answer = a]]
Select(q) ==
    /\ ~Written(q)
    /\ \E s \in Chosen(mode, q) :
        table' = [table EXCEPT ![q] = [Old(q) EXCEPT !.answer = s.answer, !.grade = s.grade]]
Grade(q) ==
    /\ Written(q) /\ Row(table, q)
    /\ \E g \in Marks(mode) \cup {Null} :
        table' = [table EXCEPT ![q].graded = TRUE, ![q].grade = g]

Next == UNCHANGED mode /\ \E q \in Questions : Answer(q) \/ Select(q) \/ Grade(q)

Spec == Init /\ [][Next]_vars

-----------------------------------------------------------------------------
\* Every row is one the program writes, and a grader's mark comes with its graded_at.
TableInv ==
    /\ mode \in ScoringModes
    /\ table = [q \in Questions |-> table[q]]
    /\ \A q \in Questions : Row(table, q) =>
          /\ table[q] \in Rows(mode, q)
          /\ Written(q) /\ table[q].grade # Null => table[q].graded

Score == CalculateScore(mode, table)

\* The service promises "The calculated score (0-100) or null": whatever is
\* graded, over the maximum or not, the result is null or within 0..100%.
ScoreInRange == Score = Null \/ Score \in 0..10000

\* Reference for percentile mode, written without the service's sums: points and
\* possible points one by one, and of all hundredths of a percent the score is one
\* nearest to their quotient.
Points == UNION {{q} \X (1..QuestionScore(table, q).score) : q \in Scorable(table)}
Possible == UNION {{q} \X (1..QuestionScore(table, q).max) : q \in Scorable(table)}
Distance(n) ==
    LET d == n * Cardinality(Possible) - 10000 * Cardinality(Points)
    IN  IF d < 0 THEN -d ELSE d
PercentileIsNearest ==
    mode = "percentile" =>
    IF Possible = {} THEN Score = Null
    ELSE /\ Score # Null
         /\ \A n \in {0, Score - 1, Score + 1, 10000} \cap (0..10000) :
                Distance(Score) <= Distance(n)

\* Raising a grade (a higher graded_score, or a higher weight for a graded
\* category) while all else stays never lowers the overall score.
RaisedMark(old, new) ==
    IF mode = "percentile" THEN old <= new
    ELSE DOMAIN old = DOMAIN new /\ \A c \in DOMAIN old : old[c] <= new[c]
RaisingNeverLowers ==
    [][\A q \in Questions :
         /\ \A p \in Questions \ {q} : table'[p] = table[p]
         /\ Written(q) /\ Row(table, q) /\ table[q].grade # Null /\ table'[q].grade # Null
         /\ RaisedMark(table[q].grade, table'[q].grade)
         => Score = Null \/ Score <= CalculateScore(mode, table')]_vars

\* The observer rescores a pair only for a saved row with a selection or a
\* graded_at.  Every other save of a row that held no selection, blank answers
\* and new texts included, leaves what calculateScore returns as it was.
SkippedSaveKeepsScore ==
    [][\A q \in Questions :
         /\ table'[q] # table[q] /\ ~ShouldCalculateScore(q, table'[q])
         /\ ~(Row(table, q) /\ ~Written(q) /\ Selected(table[q]))
         => CalculateScore(mode, table') = Score]_vars

\* The chart counts a mark beside a selection as well as the selection, or, once the
\* selection is emptied, instead of it.  That is even if every such row has its selection
\* and shares no category with a written response.
CountsEvenly ==
    \A q \in Questions : KeepsMark(table, q) =>
       /\ Selected(table[q])
       /\ \A p \in Scorable(table) :
             Written(p) => DOMAIN table[p].grade \cap DOMAIN table[q].grade = {}

\* The chart of categories and the score come from the same weights by two programs:
\* the chart's average is three times the score (the service divides by the maximal
\* weight once more), up to what both round away, where the chart counts evenly.
ChartMatchesScore ==
    /\ mode = "categorical" /\ Score # Null /\ CountsEvenly
    /\ \A e \in WeightEntries(table) : e[3] <= MaxWeight
    => LET chart == CategoryScores(table)
           sum == 10 * MapThenSumSet(LAMBDA c : chart[c], DOMAIN chart)
           n == Cardinality(DOMAIN chart)
       IN  3 * Score * n - sum \in (-7 * n)..(7 * n)

\* A participant sees 100% exactly when every question has an answer, for every size
\* of assessment that can be authored, and once the written ones are graded too the
\* service calls the pair completed.
FullProgressIsComplete ==
    /\ Progress(Cardinality(Answered(table)), Cardinality(Questions)) = 100 /\ AllGraded(table)
          => DetermineStatus(table) = "completed"
    /\ (\A q \in Questions : ~Row(table, q)) =>
          \A n \in 1..MaxQuestions : \A k \in 0..n : Progress(k, n) = 100 <=> k = n

\* Whatever else the participant has been scored, the overall score on the dashboard
\* is no less than the average of the scores and no more than 100%; for a single
\* test it is the trend's value, which has no upper limit of its own.
OverallIsBounded ==
    Score # Null =>
    /\ \A other \in OtherScores :
          OverallScore(<<Score, other>>) \in RoundDiv(Score + other, 2)..10000
    /\ OverallScore(<<Score>>) = Clamp(Trend(<<Score>>), 0, 10000)

\* "Normalize to 0-100 scale": a participant whose every graded category of
\* every response has the maximal weight 3 scores 100%.
FullMarksAreFullScore ==
    /\ mode = "categorical" /\ Score # Null
    /\ \A e \in WeightEntries(table) : e[3] = MaxWeight
    => Score = 10000
=============================================================================
