------------------------- MODULE MCAssessmentScoring -------------------------
(***************************************************************************)
(* An assessment with a written question out of 4 points, a written one    *)
(* out of 2 and an mcq question, in percentile mode.                       *)
(***************************************************************************)
EXTENDS AssessmentScoring, TLC

CONSTANTS r1, r2, r3, r4, text, other

TwoRequests == {r1, r2}
ThreeRequests == {r1, r2, r3}
FourRequests == {r1, r2, r3, r4}
Symmetric3 == Permutations(ThreeRequests)
Symmetric4 == Permutations(FourRequests)

MCQuestions == {"w1", "w2", "m"}
MCQuestionType == [q \in MCQuestions |-> IF q = "m" THEN "mcq" ELSE "written"]
MCMaxScore == [q \in MCQuestions |-> IF q = "w1" THEN 4 ELSE IF q = "w2" THEN 2 ELSE 0]
MCAnswersOf == [q \in MCQuestions |-> IF q = "m" THEN {"yes", "no"} ELSE {}]
MCAnswerScore == [a \in {"yes"} |-> 2]
MCAnswerWeights == [a \in {} |-> {}]
MCTexts == {text, other}
MCGrades == {0, 1, 2, 5}

NoResponses == [q \in MCQuestions |-> NoRow]
NoParticipants == [i \in RowIds |-> Absent]

OneRow(status, score) ==
    [i \in RowIds |-> IF i = 1 THEN [status |-> status, score |-> score] ELSE Absent]

\* Both written questions answered, w1 graded with 1 of 4 points.
HalfGraded ==
    [q \in MCQuestions |->
        IF q = "w1" THEN [answer |-> text, graded |-> TRUE, grade |-> 1]
        ELSE IF q = "w2" THEN [answer |-> text, graded |-> FALSE, grade |-> Null]
        ELSE NoRow]
HalfGradedRow == OneRow("in_progress", 2500)

\* Both written questions answered, nothing graded yet, no mcq row.
Answered ==
    [q \in MCQuestions |->
        IF q = "m" THEN NoRow ELSE [answer |-> text, graded |-> FALSE, grade |-> Null]]
AnsweredRow == OneRow("in_progress", Null)

Store(q, a, action) == [op |-> "store", q |-> q, answer |-> a, action |-> action]
Mark(q, m) == [q |-> q, mark |-> m]
Grade(marks) == [op |-> "grade", marks |-> marks]
Command(fix, inScope) == [op |-> "recalculate", fix |-> fix, inScope |-> inScope]

AnswerInputs ==
    {Store("w1", text, "move"), Store("w1", other, "submit"), Store("w1", Null, "move"),
     Store("w2", text, "submit"), Store("m", {"yes"}, "move"), Store("m", Null, "submit")}

GradeInputs ==
    {Grade(<<Mark("w1", 2), Mark("w2", 0)>>), Grade(<<Mark("w1", Null), Mark("m", 1)>>),
     Grade(<<Mark("w2", 5)>>)}   \* more than w2 is out of

AllInputs == AnswerInputs \cup GradeInputs \cup {Command(FALSE, TRUE)}

\* Requests that wait for one another: answers to graded questions, forms that
\* mark both questions, and the command in all its forms.
WaitingInputs ==
    {Store("w2", other, "submit"), Grade(<<Mark("w1", 2), Mark("w2", 1)>>),
     Command(TRUE, TRUE), Command(TRUE, FALSE), Command(FALSE, FALSE)}

\* Two graders, a question each.
TwoGraders == {Grade(<<Mark("w1", 1)>>), Grade(<<Mark("w2", 1)>>)}
=============================================================================
