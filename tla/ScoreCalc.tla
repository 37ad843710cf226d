------------------------------ MODULE ScoreCalc ------------------------------
(***************************************************************************)
(* The pure part of app/Services/AssessmentScoreService.php: what score    *)
(* and what status the service computes from the participant_responses     *)
(* rows of one (assessment, participant) pair.                             *)
(*                                                                         *)
(* A table is a function from the assessment's questions to rows, NoRow    *)
(* where the pair has no row.  Scores are integers in hundredths of a      *)
(* percent, the precision of PHP's round(_, 2): 10000 is 100%.             *)
(***************************************************************************)
EXTENDS Integers, FiniteSets, FiniteSetsExt

CONSTANTS
    Questions,      \* the assessment_questions of the assessment
    QuestionType,   \* [Questions -> {"written", "mcq"}]
    MaxScore,       \* [Questions -> Nat]: max_score, 0 where the column is null
    AnswersOf,      \* [Questions -> sets of assessment_answers]
    AnswerScore,    \* answer -> answer_scores.score_value, for the answers with a row
    AnswerWeights,  \* answer -> (category -> answer_category_weights.weight)
    NoRow,          \* no such row in a table
    Null            \* SQL NULL

\* An assessment's scoring_mode.
ScoringModes == {"percentile", "categorical"}

\* A score: a percentage, in hundredths, or none.
Percentages == {Null} \cup 0..10000

ASSUME TypeAssumption == QuestionType \in [Questions -> {"written", "mcq"}]
ASSUME PointsAssumption ==
    /\ IsFiniteSet(Questions)
    /\ \A q \in Questions : MaxScore[q] \in Nat /\ IsFiniteSet(AnswersOf[q])
    /\ \A a \in DOMAIN AnswerScore : AnswerScore[a] \in Int
\* Answers and questions have names of their own, which keeps weights of an answer
\* apart from a grader's.
ASSUME WeightsAssumption ==
    /\ IsFiniteSet(DOMAIN AnswerWeights) /\ DOMAIN AnswerWeights \cap Questions = {}
    /\ \A a \in DOMAIN AnswerWeights : IsFiniteSet(DOMAIN AnswerWeights[a])
    /\ \A a \in DOMAIN AnswerWeights : \A c \in DOMAIN AnswerWeights[a] :
          AnswerWeights[a][c] \in Int

Written(q) == QuestionType[q] = "written"

Row(tbl, q) == tbl[q] # NoRow

Selected(row) == row.answer # Null

(***************************************************************************)
(* calculateMCQScore.  A question without max_score is out of its best     *)
(* answer, and out of 1 when that is 0 too.                                *)
(***************************************************************************)
ScoreOfAnswer(a) == IF a \in DOMAIN AnswerScore THEN AnswerScore[a] ELSE 0

BestAnswer(q) == Max({0} \cup {ScoreOfAnswer(a) : a \in AnswersOf[q]})

CalculateMCQScore(row, q) ==
    LET max == IF MaxScore[q] = 0 THEN BestAnswer(q) ELSE MaxScore[q]
    IN  [score |-> MapThenSumSet(ScoreOfAnswer, row.answer.ids),
         max   |-> IF max > 0 THEN max ELSE 1]

-----------------------------------------------------------------------------
(***************************************************************************)
(* calculatePercentileScore: points over possible points of the responses  *)
(* that can be scored.  An ungraded written response counts for neither.   *)
(***************************************************************************)
RoundDivDown(a, b) == a \div b                 \* mutant: truncates
RoundDiv(a, b) == (2 * a + b) \div (2 * b)

ClampNever(x, low, high) == x                 \* mutant: no min(100, max(0, _))
Clamp(x, low, high) == IF x < low THEN low ELSE IF x > high THEN high ELSE x

Scorable(tbl) ==
    {q \in Questions : /\ Row(tbl, q)
                       /\ IF Written(q) THEN tbl[q].grade # Null ELSE Selected(tbl[q])}

QuestionScore(tbl, q) ==
    IF Written(q) THEN [score |-> tbl[q].grade, max |-> MaxScore[q]]
                  ELSE CalculateMCQScore(tbl[q], q)

CalculatePercentileScore(tbl) ==
    LET qs       == Scorable(tbl)
        total    == MapThenSumSet(LAMBDA q : QuestionScore(tbl, q).score, qs)
        possible == MapThenSumSet(LAMBDA q : QuestionScore(tbl, q).max, qs)
    IN  IF qs = {} \/ possible = 0
        THEN Null
        ELSE Clamp(RoundDiv(10000 * total, possible), 0, 10000)

-----------------------------------------------------------------------------
(***************************************************************************)
(* calculateCategoricalScore.  Every (response, category) pair of a graded *)
(* written response and every (selected answer, category) pair of an mcq   *)
(* response adds its weight to the category's total and 3 to its maximum;  *)
(* the quotient is divided by 3 once more before it is scaled to 100,      *)
(* clamped, averaged over the categories and rounded.                      *)
(***************************************************************************)
MaxWeight == 3

WeightEntriesTruthy(tbl) ==                   \* mutant: skips weight 0
    {e \in UNION {IF Written(q)
                  THEN {<<q, c, tbl[q].grade[c]>> : c \in DOMAIN tbl[q].grade}
                  ELSE UNION {{<<a, c, AnswerWeights[a][c]>> : c \in DOMAIN AnswerWeights[a]} :
                              a \in tbl[q].answer.ids \cap DOMAIN AnswerWeights} :
                  q \in Scorable(tbl)} : e[3] # 0}
WeightEntries(tbl) ==
    UNION {IF Written(q)
           THEN {<<q, c, tbl[q].grade[c]>> : c \in DOMAIN tbl[q].grade}
           ELSE UNION {{<<a, c, AnswerWeights[a][c]>> : c \in DOMAIN AnswerWeights[a]} :
                       a \in tbl[q].answer.ids \cap DOMAIN AnswerWeights} :
           q \in Scorable(tbl)}

CalculateCategoricalScore(tbl) ==
    LET entries == WeightEntries(tbl)
        cats    == {e[2] : e \in entries}
        OfCat(c) == {e \in entries : e[2] = c}
        Total(c) == MapThenSumSet(LAMBDA e : e[3], OfCat(c))
        Denominator(c) == MaxWeight * Cardinality(OfCat(c)) * MaxWeight
        \* the categories' fractions over one denominator, exactly
        common == ProductSet({Denominator(c) : c \in cats})
        CategoryScore(c) ==
            Clamp(Total(c) * (common \div Denominator(c)), 0, common)
    IN  IF cats = {}
        THEN Null
        ELSE RoundDiv(10000 * MapThenSumSet(CategoryScore, cats),
                      Cardinality(cats) * common)

-----------------------------------------------------------------------------
\* ParticipantResponseObserver::shouldCalculateScore: a saved row is worth a
\* rescoring when it holds a selection or has been graded.
ShouldCalculateScoreGraded(q, row) == row.graded   \* mutant: ignores selections
ShouldCalculateScore(q, row) == (~Written(q) /\ Selected(row)) \/ row.graded

\* calculateScore: null without responses, else by the assessment's mode.
CalculateScoreWhole(mode, tbl) ==                   \* mutant: null until all is graded
    IF \E q \in Questions : Written(q) /\ Row(tbl, q) /\ ~tbl[q].graded
    THEN Null
    ELSE IF mode = "percentile" THEN CalculatePercentileScore(tbl)
                                ELSE CalculateCategoricalScore(tbl)
CalculateScore(mode, tbl) ==
    IF \A q \in Questions : ~Row(tbl, q)
    THEN Null
    ELSE IF mode = "percentile" THEN CalculatePercentileScore(tbl)
                                ELSE CalculateCategoricalScore(tbl)

\* determineStatus: completed once every question has a row (answered or
\* not) and every written row has its graded_at.
AllAnswered(tbl) == \A q \in Questions : Row(tbl, q)

AllGraded(tbl) ==
    \A q \in Questions : Written(q) /\ Row(tbl, q) => tbl[q].graded

DetermineStatusUngraded(tbl) ==               \* mutant: forgets the grading
    IF AllAnswered(tbl) THEN "completed" ELSE "in_progress"
DetermineStatusGraded(tbl) ==                 \* mutant: a status the column lacks
    IF AllGraded(tbl) THEN "graded" ELSE "in_progress"
DetermineStatus(tbl) ==
    IF \A q \in Questions : ~Row(tbl, q) THEN "not_started"
    ELSE IF AllAnswered(tbl) /\ AllGraded(tbl) THEN "completed"
    ELSE "in_progress"
=============================================================================
