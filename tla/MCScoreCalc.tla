----------------------------- MODULE MCScoreCalc -----------------------------
(***************************************************************************)
(* ScoreTables for two written questions and a multiple-choice one, with   *)
(* two categories, in both modes.                                          *)
(***************************************************************************)
EXTENDS ScoreTables

q1 == "q1"
q2 == "q2"
q3 == "q3"
MCQuestions == {q1, q2, q3}
MCQuestionType == [q \in MCQuestions |-> IF q = q3 THEN "mcq" ELSE "written"]
\* q1 is out of 3 points, q2 has a null max_score, q3 falls back to its best answer
MCMaxScore == [q \in MCQuestions |-> IF q = q1 THEN 3 ELSE 0]
MCAnswersOf == [q \in MCQuestions |-> IF q = q3 THEN {"a1", "a2"} ELSE {}]
MCAnswerScore == [a \in {"a1"} |-> 2]
MCCategories == {"c1", "c2"}
MCAnswerWeights == [a \in {"a1", "a2"} |->
    IF a = "a1" THEN [c \in MCCategories |-> IF c = "c1" THEN 3 ELSE 1]
                ELSE [c \in {"c2"} |-> 2]]

\* A graded_score over the maximum, and a weight over the expected top of 3.
MCGradedPoints == 0..4
MCGradedWeights == {0, 1, MaxWeight, 10}
MCOtherScores == {0, 5, 1500, 1999, 2000, 10000}
=============================================================================
