----------------------------- MODULE AnswerSheet -----------------------------
(***************************************************************************)
(* What participant_responses promises about one participant's answers to  *)
(* one assessment: an answer sheet that changes by one answer or one       *)
(* grading form at a time.  An answer never touches a grade and a grade    *)
(* never touches an answer; nothing is taken off the sheet; a form's marks *)
(* go on the sheet together.                                               *)
(***************************************************************************)
EXTENDS ScoreCalc

CONSTANTS Texts, Grades, SeededResponses

VARIABLE sheet

Ungraded == [answer |-> Null, graded |-> FALSE, grade |-> Null]

AnswersTo(q) ==
    {Null} \cup
    (IF Written(q) THEN Texts
     ELSE [enc : {"list"}, ids : (SUBSET AnswersOf[q]) \ {{}}])

Init == sheet = SeededResponses

GiveAnswer(q, a) ==
    sheet' = [sheet EXCEPT ![q] =
                 [(IF Row(sheet, q) THEN sheet[q] ELSE Ungraded) EXCEPT !.answer = a]]

\* Marks for some of the written answers on the sheet: new ones, blank ones, or
\* those that are there already.
GradeSheet(marks) ==
    /\ \A q \in DOMAIN marks : Written(q) /\ Row(sheet, q)
    /\ sheet' = [q \in Questions |->
                    IF q \in DOMAIN marks
                    THEN [sheet[q] EXCEPT !.graded = TRUE, !.grade = marks[q]]
                    ELSE sheet[q]]

Next ==
    \/ \E q \in Questions : \E a \in AnswersTo(q) : GiveAnswer(q, a)
    \/ \E S \in SUBSET Questions : \E marks \in [S -> Grades \cup {Null}] : GradeSheet(marks)

Spec == Init /\ [][Next]_sheet
=============================================================================
