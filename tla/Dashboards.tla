------------------------------ MODULE Dashboards ------------------------------
(***************************************************************************)
(* What participants and their examiners are shown of the scores: the      *)
(* figures of DashboardController's performance page, and the progress bar *)
(* of SurveyController::take.  All of it is computed on reading.           *)
(***************************************************************************)
EXTENDS ScoreCalc, Sequences, SequencesExt

(***************************************************************************)
(* take: answered questions over all questions, in percent                 *)
(***************************************************************************)
Answered(tbl) == {q \in Questions : Row(tbl, q) /\ Selected(tbl[q])}

ProgressTens(answered, total) == 10 * RoundDiv(10 * answered, total)   \* mutant: round(_, -1)
Progress(answered, total) == RoundDiv(100 * answered, total)

(***************************************************************************)
(* getCategoryScores, in tenths of a percent: each weight counts out of 3. *)
(* The loop counts graded_categories of every row, those of multiple-      *)
(* choice ones too, where the seeder keeps the chosen answer's weights and *)
(* the service does not look.                                              *)
(***************************************************************************)
KeepsMark(tbl, q) == Row(tbl, q) /\ ~Written(q) /\ tbl[q].grade # Null

ChartEntries(tbl) ==
    WeightEntries(tbl) \cup
    UNION {{<<q, c, tbl[q].grade[c]>> : c \in DOMAIN tbl[q].grade} :
           q \in {p \in Questions : KeepsMark(tbl, p)}}

CategoryScoresPerTest(tbl) ==            \* mutant: 3 per category, not per weight
    LET entries == ChartEntries(tbl)
        OfCat(c) == {e \in entries : e[2] = c}
    IN  [c \in {e[2] : e \in entries} |->
            Clamp(RoundDiv(1000 * MapThenSumSet(LAMBDA e : e[3], OfCat(c)), MaxWeight), 0, 1000)]
CategoryScores(tbl) ==
    LET entries == ChartEntries(tbl)
        OfCat(c) == {e \in entries : e[2] = c}
    IN  [c \in {e[2] : e \in entries} |->
            Clamp(RoundDiv(1000 * MapThenSumSet(LAMBDA e : e[3], OfCat(c)),
                           MaxWeight * Cardinality(OfCat(c))), 0, 1000)]

(***************************************************************************)
(* calculateOverallScore and getPerformanceTrends, in hundredths: what is  *)
(* below 20% is taken for a score out of 10, each score in the one, the    *)
(* month's average in the other                                            *)
(***************************************************************************)
SumSeq(s) == FoldSeq(LAMBDA x, y : x + y, 0, s)

Converted(score) == IF score < 2000 THEN 10 * score ELSE score

OverallScoreUncapped(scores) ==          \* mutant: no min(100, _)
    IF scores = <<>> THEN 0
    ELSE RoundDiv(SumSeq([n \in DOMAIN scores |-> Converted(scores[n])]), Len(scores))
OverallScore(scores) ==
    IF scores = <<>> THEN 0
    ELSE Clamp(RoundDiv(SumSeq([n \in DOMAIN scores |-> Converted(scores[n])]), Len(scores)),
               0, 10000)

Trend(scores) ==
    LET sum == SumSeq(scores)
    IN  RoundDiv(IF sum < 2000 * Len(scores) THEN 10 * sum ELSE sum, Len(scores))
=============================================================================
