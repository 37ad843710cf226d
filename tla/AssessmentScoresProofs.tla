------------------------ MODULE AssessmentScoresProofs ------------------------
(***************************************************************************)
(* Proofs about the scores that AssessmentScoring stores: they are         *)
(* percentages however requests overlap, and where transactions do not     *)
(* overlap the pair has one row, whose score is that of the stored         *)
(* responses.                                                              *)
(***************************************************************************)
EXTENDS AssessmentScoringProofs, ScoreCalcProofs

-----------------------------------------------------------------------------
(***************************************************************************)
(* The invariants                                                          *)
(***************************************************************************)
\* What the theorems assume: the command is never run with --fix-old-scores, which
\* multiplies scores without looking at the responses.
NoFix == \A i \in Inputs : ~(i.op = "recalculate" /\ i.fix)

\* A selection on a multiple-choice row is one of the question's answers.
SelectionsOK(tbl) ==
    \A q \in Questions : ~Written(q) /\ Row(tbl, q) /\ Selected(tbl[q])
                         => tbl[q].answer \in Selections

\* Every score that is stored, seen or about to be written is a percentage.
ScoresOK(tbl) == \A i \in RowIds : tbl[i].score \in Percentages
RangeInv ==
    /\ SelectionsOK(responses) /\ ScoresOK(participants)
    /\ \A r \in Requests : /\ SelectionsOK(viewResp[r]) /\ ScoresOK(viewPart[r])
                           /\ upsert[r].score \in Percentages \cup {Keep}
                           /\ pc[r] # "fix"

\* No transaction of the pair, and no rescoring by the command, falls into another one.
\* What a request does before and after its transaction may overlap with anything.
Writing(r) == pc[r] \in TxLabels
OneWriter == \A x, y \in Requests : Writing(x) /\ Writing(y) => x = y

\* As no two requests under way are.
OneAtATime == \A x, y \in Requests : Active(x) /\ Active(y) => x = y

\* Alone, a transaction sees the committed answers and its own, and which rows there are.
ViewIsCurrent(r) ==
    InTransaction(r) =>
        /\ \A q \in Questions : respLock[q] # r => viewResp[r][q] = responses[q]
        /\ \A i \in RowIds : partLock[i] # r =>
              (Listed(viewPart[r], i) <=> Listed(participants, i))

AtMostOne(tbl) == \A i, j \in RowIds : Listed(tbl, i) /\ Listed(tbl, j) => i = j

\* An insert is due only where no row is.
PairOK(r) ==
    /\ InTransaction(r) => AtMostOne(viewPart[r])
    /\ pc[r] = "write" /\ ~found[r] => \A i \in RowIds : ~Listed(ReadsPart(r), i)

PairInv ==
    /\ AtMostOne(participants)
    /\ \A r \in Requests : ViewIsCurrent(r) /\ PairOK(r)

\* The pair's row has the score of these responses, if they have one.
Rated(resp, part) ==
    CalculateScore(Mode, resp) # Null =>
        /\ \E i \in RowIds : Listed(part, i)
        /\ \A i \in RowIds : Listed(part, i) => part[i].score = CalculateScore(Mode, resp)

\* A mark comes with its graded_at, and no selection gets through: one that is posted is a
\* string, and the scoring that follows raises.
GradesMarked(tbl) == \A q \in Questions : Row(tbl, q) /\ tbl[q].grade # Null => tbl[q].graded
Unselected(tbl) == \A q \in Questions : ~Written(q) /\ Row(tbl, q) => ~Selected(tbl[q])
StringsOnly(tbl) ==
    \A q \in Questions : ~Written(q) /\ Row(tbl, q) /\ Selected(tbl[q])
                         => tbl[q].answer.enc = "string"
Raising(r) == pc[r] = "score" /\ input[r].op = "store" /\ StringsOnly(viewResp[r])

\* Between two statements of a request: its view is rated, or about to be rescored, or
\* the score of its view is on the way to the row.
SyncOK(r) ==
    /\ pc[r] \in {"save", "ensure", "grade", "commit"} => Rated(viewResp[r], viewPart[r])
    /\ pc[r] \in {"exists", "write"} /\ upsert[r].score = Keep => Rated(ReadsResp(r), ReadsPart(r))
    /\ pc[r] = "status" \/ (pc[r] \in {"exists", "write"} /\ upsert[r].score # Keep) =>
          upsert[r].score # Null /\ upsert[r].score = CalculateScore(Mode, ReadsResp(r))
    /\ InTransaction(r) => /\ GradesMarked(viewResp[r])
                           /\ Unselected(viewResp[r]) \/ Raising(r)

\* A Submit may change the status of a row under a transaction, but nobody its score.
ScoresCurrent(r) ==
    InTransaction(r) =>
        \A i \in RowIds : partLock[i] # r => viewPart[r][i].score = participants[i].score

SyncInv ==
    /\ Rated(responses, participants) /\ GradesMarked(responses) /\ Unselected(responses)
    /\ \A r \in Requests : SyncOK(r) /\ ScoresCurrent(r)

-----------------------------------------------------------------------------
(***************************************************************************)
(* Scores are percentages                                                  *)
(***************************************************************************)
\* The tables the program writes are tables that the score service can score.
LEMMA TablesOK ==
    ASSUME NEW tbl \in ResponseTable, SelectionsOK(tbl)
    PROVE  TableOK(Mode, tbl)
<1>1. IsFiniteSet(AllAnswers)
  <2> DEFINE T == {AnswersOf[q] : q \in Questions}
  <2>1. \A y \in T : \E q \in Questions : y = AnswersOf[q]
    OBVIOUS
  <2>2. \A y \in T : IsFiniteSet(y)
    BY PointsAssumption
  <2>3. AllAnswers = UNION T
    BY DEF AllAnswers
  <2> HIDE DEF T
  <2>4. IsFiniteSet(T)
    BY <2>1, FiniteImage, PointsAssumption
  <2> QED
    BY <2>2, <2>3, <2>4, FS_UNION
<1> SUFFICES ASSUME NEW q \in Scorable(tbl)
             PROVE  IF Written(q) THEN MarkOK(Mode, tbl[q].grade) ELSE IsFiniteSet(tbl[q].answer.ids)
  BY DEF TableOK
<1>2. q \in Questions /\ Row(tbl, q) /\ tbl[q] \in ResponseRow
  BY DEF Scorable, Row, ResponseTable
<1>3. CASE Written(q)
  <2>1. tbl[q].grade \in Grades
    BY <1>2, <1>3 DEF Scorable, ResponseRow
  <2> QED
    BY <1>3, <2>1, GradesAssumption DEF MarkOK
<1>4. CASE ~Written(q)
  <2>1. tbl[q].answer \in Selections
    BY <1>2, <1>4 DEF Scorable, SelectionsOK
  <2>2. tbl[q].answer.ids \in SUBSET AllAnswers
    BY <2>1 DEF Selections
  <2> QED
    BY <1>1, <1>4, <2>2, FS_Subset
<1> QED
  BY <1>3, <1>4

LEMMA StoredSelection ==
    ASSUME NEW i \in Inputs, i.op = "store", ~Written(i.q), StoredAnswer(i) # Null
    PROVE  StoredAnswer(i) \in Selections
<1>1. IsInput(i)
  BY InputsAssumption
<1>2. i.answer # Null /\ i.q \in Questions /\ i.answer \in (SUBSET AnswersOf[i.q]) \ {{}}
  BY <1>1 DEF IsInput, StoredAnswer
<1>3. i.answer \in (SUBSET AllAnswers) \ {{}}
  BY <1>2 DEF AllAnswers
<1> QED
  BY <1>2, <1>3 DEF StoredAnswer, Selections

\* A view with a new row that holds no selection but a proper one.
LEMMA SelectionsWritten ==
    ASSUME NEW tbl \in ResponseTable, SelectionsOK(tbl), NEW q, NEW row,
           ~Written(q) /\ Selected(row) => row.answer \in Selections
    PROVE  SelectionsOK([tbl EXCEPT ![q] = row])
BY DEF SelectionsOK, Row, ResponseTable

\* What Release leaves is what was there before any request.
LEMMA RangeReleased ==
    ASSUME IInv, RangeInv, NEW r \in Requests, Release(r), pc'[r] # "fix",
           \A s \in Requests \ {r} : pc'[s] = pc[s],
           SelectionsOK(SeededResponses), ScoresOK(SeededParticipants),
           SelectionsOK(responses'), ScoresOK(participants')
    PROVE  RangeInv'
<1>1. /\ viewResp' = [viewResp EXCEPT ![r] = SeededResponses]
      /\ viewPart' = [viewPart EXCEPT ![r] = SeededParticipants]
      /\ upsert' = [upsert EXCEPT ![r] = NoUpsert]
  BY DEF Release
<1>2. ASSUME NEW s \in Requests
      PROVE  /\ viewResp'[s] \in {viewResp[s], SeededResponses}
             /\ viewPart'[s] \in {viewPart[s], SeededParticipants}
             /\ upsert'[s] \in {upsert[s], NoUpsert}
  BY <1>1 DEF IInv, TypeOK
<1>3. ASSUME NEW s \in Requests
      PROVE  /\ SelectionsOK(viewResp'[s]) /\ ScoresOK(viewPart'[s])
             /\ upsert'[s].score \in Percentages \cup {Keep} /\ pc'[s] # "fix"
  BY <1>2, NullIsPercentage DEF RangeInv, NoUpsert
<1> QED
  BY <1>3 DEF RangeInv, SelectionsOK, ScoresOK

LEMMA RangeInit == Init /\ ScoresOK(SeededParticipants) => RangeInv
BY SeedAssumption, NullIsPercentage DEF Init, RangeInv, SelectionsOK, NoUpsert

\* Of the actions, those that leave tables and views alone, and write no score but one
\* that they computed.
LEMMA RangeQuiet ==
    ASSUME IInv, RangeInv, NEW r \in Requests, UNCHANGED <<responses, participants, views>>,
           \A s \in Requests \ {r} : pc'[s] = pc[s] /\ upsert'[s] = upsert[s],
           pc'[r] # "fix", upsert'[r].score \in Percentages \cup {Keep}
    PROVE  RangeInv'
BY DEF RangeInv, SelectionsOK, ScoresOK, views

LEMMA RangeStep ==
    ASSUME NoFix, ScoresOK(SeededParticipants), IInv, RangeInv, NEW r \in Requests,
           Start(r) \/ Step(r) \/ Crash(r)
    PROVE  RangeInv'
<1>a. SelectionsOK(SeededResponses)
  BY SeedAssumption DEF SelectionsOK
<1>b. TypeOK /\ ControlOK(r) /\ IsUpsert(upsert[r])
  BY DEF IInv, RequestOK, TypeOK
<1>c. /\ SelectionsOK(responses) /\ ScoresOK(participants)
      /\ SelectionsOK(viewResp[r]) /\ ScoresOK(viewPart[r])
      /\ upsert[r].score \in Percentages \cup {Keep} /\ pc[r] # "fix"
  BY DEF RangeInv
<1>1. CASE Start(r)
  <2>1. PICK i \in Inputs :
           /\ input' = [input EXCEPT ![r] = i]
           /\ Goto(r, IF i.op # "recalculate" THEN "load"
                      ELSE IF i.fix THEN "fix" ELSE IF i.inScope THEN "score" ELSE "done")
    BY <1>1 DEF Start
  <2>2. pc'[r] # "fix" /\ \A s \in Requests \ {r} : pc'[s] = pc[s]
    BY <1>b, <2>1 DEF NoFix, Goto, TypeOK
  <2>3. UNCHANGED <<responses, participants, views, upsert>>
    BY <1>1 DEF Start, tables
  <2> QED
    BY <1>c, <2>2, <2>3, RangeQuiet
<1>2. CASE Load(r)
  <2>1. /\ UNCHANGED <<responses, participants, upsert>>
        /\ viewResp' = [viewResp EXCEPT ![r] = responses]
        /\ viewPart' = [viewPart EXCEPT ![r] = participants]
        /\ pc' = [pc EXCEPT ![r] = IF input[r].op = "store" THEN "save" ELSE "grade"]
    BY <1>2 DEF Load, Goto, tables
  <2>2. ASSUME NEW s \in Requests
        PROVE  SelectionsOK(viewResp'[s]) /\ ScoresOK(viewPart'[s]) /\ pc'[s] # "fix"
    <3>1. viewResp'[s] \in {viewResp[s], responses} /\ viewPart'[s] \in {viewPart[s], participants}
      BY <1>b, <2>1 DEF TypeOK
    <3> QED
      BY <1>b, <2>1, <3>1 DEF RangeInv, TypeOK
  <2> QED
    BY <2>1, <2>2 DEF RangeInv, SelectionsOK, ScoresOK
<1>3. ASSUME Fail(r) \/ Crash(r) PROVE RangeInv'
  <2>1. /\ Release(r) /\ UNCHANGED tables
        /\ pc' = [pc EXCEPT ![r] = "error"] \/ pc' = [pc EXCEPT ![r] = "crashed"]
    BY <1>3 DEF Fail, Crash, Goto
  <2>2. pc'[r] # "fix" /\ \A s \in Requests \ {r} : pc'[s] = pc[s]
    BY <1>b, <2>1 DEF TypeOK
  <2>3. SelectionsOK(responses') /\ ScoresOK(participants')
    BY <1>c, <2>1 DEF tables
  <2> QED
    BY <1>a, <2>1, <2>2, <2>3, RangeReleased
\* A view with a row written.
<1>4. ASSUME NEW q \in Questions, NEW row, WriteResponse(r, q, row),
             ~Written(q) /\ Selected(row) => row.answer \in Selections,
             UNCHANGED <<responses, participants, viewPart>>,
             \A s \in Requests \ {r} : pc'[s] = pc[s] /\ upsert'[s] = upsert[s],
             pc'[r] # "fix", upsert'[r].score \in Percentages \cup {Keep}
      PROVE  RangeInv'
  <2>1. viewResp' = [viewResp EXCEPT ![r][q] = row]
    BY <1>4 DEF WriteResponse
  <2>2. SelectionsOK([viewResp[r] EXCEPT ![q] = row])
    BY <1>b, <1>c, <1>4, SelectionsWritten DEF TypeOK
  <2>3. ASSUME NEW s \in Requests PROVE SelectionsOK(viewResp'[s])
    <3>1. viewResp'[s] \in {viewResp[s], [viewResp[r] EXCEPT ![q] = row]}
      BY <1>b, <2>1 DEF TypeOK
    <3> QED
      BY <2>2, <3>1 DEF RangeInv
  <2> QED
    BY <1>4, <2>3 DEF RangeInv, SelectionsOK, ScoresOK
<1>5. CASE SaveResponse(r) /\ ~Fail(r)
  <2> DEFINE q == input[r].q
             loaded == viewResp[r][q]
             answer == StoredAnswer(input[r])
             model == [(IF loaded = NoRow THEN NewResponse ELSE loaded) EXCEPT !.answer = answer]
  <2>1. /\ input[r].op = "store" /\ input[r] \in Inputs /\ q \in Questions
    BY <1>5, <1>b, InputsAssumption DEF SaveResponse, ControlOK, IsInput
  <2>2. /\ IF loaded = NoRow
           THEN responses[q] = NoRow /\ WriteResponse(r, q, model)
           ELSE IF loaded.answer = answer
           THEN UNCHANGED <<respLock, viewResp>>
           ELSE WriteResponse(r, q, [CurrentResponse(r, q) EXCEPT !.answer = answer])
        /\ Goto(r, IF ShouldCalculateScore(q, model) THEN "score" ELSE "ensure")
        /\ upsert' = [upsert EXCEPT ![r].next = "ensure"]
        /\ UNCHANGED <<tables, partLock, input, viewPart, todo, found>>
    BY <1>5 DEF SaveResponse
  <2>3. /\ \A s \in Requests \ {r} : pc'[s] = pc[s] /\ upsert'[s] = upsert[s]
        /\ pc'[r] # "fix" /\ upsert'[r].score \in Percentages \cup {Keep}
        /\ UNCHANGED <<responses, participants, viewPart>>
    BY <1>b, <1>c, <2>2 DEF Goto, TypeOK, tables, IsUpsert
  <2>4. ~Written(q) /\ answer # Null => answer \in Selections
    BY <2>1, StoredSelection
  <2>5. loaded # NoRow => CurrentResponse(r, q) \in ResponseRow
    <3>1. InTransaction(r) /\ SnapshotOK(r)
      BY <1>5, <2>1 DEF SaveResponse, InTransaction, TxLabels, IInv, RequestOK
    <3>2. viewResp[r][q] \in ResponseRow \cup {NoRow} /\ responses[q] \in ResponseRow \cup {NoRow}
      BY <1>b, <2>1 DEF TypeOK, ResponseTable
    <3> QED
      BY <2>1, <3>1, <3>2 DEF SnapshotOK, CurrentResponse, Row
  <2>6. CASE loaded = NoRow
    <3>1. model.answer = answer
      BY <2>6 DEF NewResponse
    <3> QED
      BY <1>4, <2>1, <2>2, <2>3, <2>4, <2>6, <3>1 DEF Selected
  <2>7. CASE loaded # NoRow /\ loaded.answer = answer
    BY <2>2, <2>3, <2>7, RangeQuiet DEF views
  <2>8. CASE loaded # NoRow /\ loaded.answer # answer
    <3> DEFINE row == [CurrentResponse(r, q) EXCEPT !.answer = answer]
    <3>1. row.answer = answer
      BY <2>5, <2>8 DEF ResponseRow
    <3> HIDE DEF row
    <3>2. WriteResponse(r, q, row)
      BY <2>2, <2>8 DEF row
    <3> QED
      BY <1>4, <2>1, <2>3, <2>4, <3>1, <3>2 DEF Selected
  <2> QED
    BY <2>6, <2>7, <2>8
<1>6. CASE EnsureParticipant(r)
  <2>1. /\ UNCHANGED <<responses, participants, views>>
        /\ upsert'[r].score = Keep /\ pc'[r] = "exists"
        /\ \A s \in Requests \ {r} : pc'[s] = pc[s] /\ upsert'[s] = upsert[s]
    BY <1>b, <1>6 DEF EnsureParticipant, Goto, TypeOK, tables
  <2> QED
    BY <2>1, RangeQuiet
<1>7. CASE GradeResponse(r)
  <2>1. /\ UNCHANGED <<responses, participants, viewPart>>
        /\ pc'[r] \in {pc[r], "score"}
        /\ upsert'[r].score = upsert[r].score
        /\ \A s \in Requests \ {r} : pc'[s] = pc[s] /\ upsert'[s] = upsert[s]
    BY <1>b, <1>7 DEF GradeResponse, Goto, TypeOK, tables, IsUpsert
  <2>2. CASE UNCHANGED viewResp
    BY <1>c, <2>1, <2>2, RangeQuiet DEF views
  <2>3. CASE viewResp' # viewResp
    <3> DEFINE q == Head(todo[r]).q
               m == Head(todo[r]).mark
    <3>1. Written(q) /\ WriteResponse(r, q, GradedRow(r, q, m))
      BY <1>7, <2>3 DEF GradeResponse
    <3>2. q \in Questions
      <4>1. todo[r] # <<>>
        BY <1>7, <2>3 DEF GradeResponse
      <4>2. Head(todo[r]) \in Marks
        BY <1>b, <4>1 DEF TypeOK
      <4> QED
        BY <4>2 DEF Marks
    <3> HIDE DEF q, m
    <3> QED
      BY <1>4, <1>c, <2>1, <3>1, <3>2
  <2> QED
    BY <2>2, <2>3
<1>8. CASE ComputeScore(r) /\ ~Fail(r)
  <2>1. /\ UNCHANGED <<responses, participants, views>>
        /\ pc'[r] \in {"status", upsert[r].next}
        /\ upsert'[r].score \in {upsert[r].score, CalculateScore(Mode, ReadsResp(r))}
        /\ \A s \in Requests \ {r} : pc'[s] = pc[s] /\ upsert'[s] = upsert[s]
    BY <1>b, <1>8 DEF ComputeScore, Goto, TypeOK, tables, IsUpsert
  <2>2. ReadsResp(r) \in ResponseTable /\ SelectionsOK(ReadsResp(r))
    BY <1>b, <1>c DEF ReadsResp, TypeOK
  <2>3. CalculateScore(Mode, ReadsResp(r)) \in Percentages
    BY <2>2, TablesOK, ScoreIsPercentage, ModeAssumption
  <2> QED
    BY <1>b, <1>c, <2>1, <2>3, RangeQuiet DEF IsUpsert
<1>9. CASE ComputeStatus(r)
  <2>1. /\ UNCHANGED <<responses, participants, views>>
        /\ pc'[r] = "exists" /\ upsert'[r].score = upsert[r].score
        /\ \A s \in Requests \ {r} : pc'[s] = pc[s] /\ upsert'[s] = upsert[s]
    BY <1>b, <1>9 DEF ComputeStatus, Goto, TypeOK, tables, IsUpsert
  <2> QED
    BY <1>c, <2>1, RangeQuiet
<1>10. CASE Exists(r)
  <2>1. /\ UNCHANGED <<responses, participants, views, upsert>>
        /\ pc'[r] = "write"
        /\ \A s \in Requests \ {r} : pc'[s] = pc[s]
    BY <1>b, <1>10 DEF Exists, Goto, TypeOK, tables
  <2> QED
    BY <1>c, <2>1, RangeQuiet
\* A participant row written, in the view or at once.
<1>11. ASSUME NEW i \in RowIds, NEW row, WriteParticipant(r, i, row), row.score \in Percentages,
              UNCHANGED <<responses, viewResp, upsert>>, Goto(r, upsert[r].next)
       PROVE  RangeInv'
  <2>1. \A s \in Requests : pc'[s] # "fix"
    BY <1>b, <1>11 DEF RangeInv, Goto, TypeOK, IsUpsert
  <2>2. ASSUME NEW t, IsParticipantTable(t), ScoresOK(t) PROVE ScoresOK([t EXCEPT ![i] = row])
    BY <1>11, <2>2 DEF ScoresOK, IsParticipantTable
  <2>3. ScoresOK(participants')
    BY <1>b, <1>c, <1>11, <2>2 DEF WriteParticipant, TypeOK
  <2>4. ASSUME NEW s \in Requests PROVE ScoresOK(viewPart'[s])
    <3>1. viewPart'[s] \in {viewPart[s], [viewPart[r] EXCEPT ![i] = row]}
      BY <1>b, <1>11 DEF WriteParticipant, TypeOK
    <3>2. ScoresOK([viewPart[r] EXCEPT ![i] = row])
      BY <1>b, <1>c, <2>2 DEF TypeOK
    <3> QED
      BY <3>1, <3>2 DEF RangeInv
  <2> QED
    BY <1>11, <2>1, <2>3, <2>4 DEF RangeInv, SelectionsOK, ScoresOK
<1>12. CASE InsertParticipant(r)
  <2> DEFINE row == [status |-> upsert[r].status,
                     score |-> IF upsert[r].score = Keep THEN Null ELSE upsert[r].score]
  <2>1. /\ nextId \in RowIds /\ WriteParticipant(r, nextId, row)
        /\ UNCHANGED <<responses, viewResp, upsert>> /\ Goto(r, upsert[r].next)
    BY <1>12 DEF InsertParticipant
  <2>2. row.score \in Percentages
    BY <1>c, NullIsPercentage
  <2> HIDE DEF row
  <2> QED
    BY <1>11, <2>1, <2>2
<1>13. CASE UpdateParticipant(r)
  <2> DEFINE row(i) == [status |-> upsert[r].status,
                        score |-> IF upsert[r].score = Keep THEN CurrentParticipant(r, i).score
                                  ELSE upsert[r].score]
  <2>1. PICK i \in RowIds : WriteParticipant(r, i, row(i))
    BY <1>13 DEF UpdateParticipant
  <2>2. UNCHANGED <<responses, viewResp, upsert>> /\ Goto(r, upsert[r].next)
    BY <1>13 DEF UpdateParticipant
  <2>3. row(i).score \in Percentages
    BY <1>c DEF CurrentParticipant, ScoresOK
  <2> HIDE DEF row
  <2> QED
    BY <1>11, <2>1, <2>2, <2>3
<1>14. CASE Commit(r)
  <2>1. /\ Release(r) /\ pc'[r] \in {"submit", "done"}
        /\ \A s \in Requests \ {r} : pc'[s] = pc[s]
        /\ \A q \in Questions : responses'[q] = CurrentResponse(r, q)
        /\ \A i \in RowIds : participants'[i] = CurrentParticipant(r, i)
    BY <1>b, <1>14 DEF Commit, Goto, TypeOK
  <2>2. SelectionsOK(responses')
    <3> SUFFICES ASSUME NEW q \in Questions, ~Written(q), Row(responses', q), Selected(responses'[q])
                 PROVE  responses'[q].answer \in Selections
      BY DEF SelectionsOK
    <3> QED
      BY <1>c, <2>1 DEF SelectionsOK, CurrentResponse, Row
  <2>3. ScoresOK(participants')
    BY <1>c, <2>1 DEF ScoresOK, CurrentParticipant
  <2> QED
    BY <1>a, <2>1, <2>2, <2>3, RangeReleased
<1>15. CASE Submit(r)
  <2>1. /\ UNCHANGED <<responses, viewResp, viewPart, upsert>> /\ pc'[r] = "done"
        /\ \A s \in Requests \ {r} : pc'[s] = pc[s]
    BY <1>b, <1>15 DEF Submit, Goto, TypeOK, locks, frames, views
  <2>2. ScoresOK(participants')
    <3> SUFFICES ASSUME NEW i \in RowIds PROVE participants'[i].score \in Percentages
      BY DEF ScoresOK
    <3>1. participants'[i] \in {participants[i], SetCompleted(participants[i])}
      BY <1>15 DEF Submit
    <3>2. SetCompleted(participants[i]).score = participants[i].score
      BY <1>b DEF SetCompleted, TypeOK, IsParticipantTable
    <3> QED
      BY <1>c, <3>1, <3>2 DEF ScoresOK
  <2> QED
    BY <2>1, <2>2 DEF RangeInv, SelectionsOK, ScoresOK
<1>16. ~FixOldScaleScores(r)
  BY <1>c DEF FixOldScaleScores
<1> QED
  BY <1>1, <1>2, <1>3, <1>5, <1>6, <1>7, <1>8, <1>9, <1>10, <1>12, <1>13, <1>14, <1>15, <1>16
  DEF Step, DeadlockVictim

LEMMA RangeNext ==
    ASSUME NoFix, ScoresOK(SeededParticipants), IInv, RangeInv, [Next]_vars
    PROVE  RangeInv'
<1>1. CASE UNCHANGED vars
  BY <1>1 DEF RangeInv, SelectionsOK, ScoresOK, vars, tables, frames, views
<1> QED
  BY <1>1, RangeStep DEF Next, Finished

\* "The calculated score (0-100)": however requests overlap, fail and die, a row of the
\* pair has no score or a percentage.  Only --fix-old-scores multiplies what is stored.
THEOREM ScoresStayPercentages ==
    ASSUME NoFix, ScoresOK(SeededParticipants)
    PROVE  Spec => []ScoresArePercentages
<1>1. Init => RangeInv
  BY RangeInit
<1>2. IInv /\ RangeInv /\ [Next]_vars => RangeInv'
  BY RangeNext
<1>3. RangeInv => ScoresArePercentages
  BY DEF RangeInv, ScoresOK, ScoresArePercentages
<1> QED
  BY <1>1, <1>2, <1>3, Invariance, PTL DEF Spec

-----------------------------------------------------------------------------
(***************************************************************************)
(* One row per pair, where transactions do not overlap                     *)
(***************************************************************************)
\* A step outside of the transactions leaves them alone: it commits no answer, adds and
\* removes no row, and but for --fix-old-scores changes no score.
LEMMA Aside ==
    ASSUME IInv, NEW r \in Requests, Start(r) \/ Step(r) \/ Crash(r), ~Writing(r), ~Writing(r)'
    PROVE  /\ responses' = responses
           /\ \A i \in RowIds : /\ Listed(participants', i) <=> Listed(participants, i)
                                /\ pc[r] # "fix" => participants'[i].score = participants[i].score
           /\ \A s \in Requests \ {r} : Bystander(s) /\ found'[s] = found[s]
<1>b. TypeOK
  BY DEF IInv
<1>h. /\ \A q \in Questions : respLock[q] # r
      /\ \A i \in RowIds : partLock[i] # r
  BY HoldsNothing DEF IInv, InTransaction, Writing
<1>1. CASE Start(r)
  <2>1. UNCHANGED <<responses, participants, locks, views, upsert, found>>
    BY <1>1 DEF Start, tables
  <2>2. \A s \in Requests \ {r} : pc'[s] = pc[s] /\ input'[s] = input[s]
    BY <1>1, <1>b DEF Start, Goto, TypeOK
  <2> QED
    BY <2>1, <2>2 DEF Bystander, locks, views, Listed
<1>2. ASSUME Fail(r) \/ Crash(r)
      PROVE  /\ UNCHANGED <<responses, participants>>
             /\ \A s \in Requests \ {r} : Bystander(s) /\ found'[s] = found[s]
  <2>1. UNCHANGED <<responses, participants, input>> /\ Release(r)
    BY <1>2 DEF Fail, Crash, tables
  <2>2. \A s \in Requests \ {r} :
           /\ pc'[s] = pc[s] /\ upsert'[s] = upsert[s] /\ found'[s] = found[s]
           /\ viewResp'[s] = viewResp[s] /\ viewPart'[s] = viewPart[s]
    BY <1>2, <1>b, <2>1 DEF Fail, Crash, Goto, Release, TypeOK
  <2>3. respLock' = respLock /\ partLock' = partLock
    BY <1>b, <1>h, <2>1 DEF Release, TypeOK
  <2> QED
    BY <2>1, <2>2, <2>3 DEF Bystander
<1>3. CASE Submit(r) \/ FixOldScaleScores(r)
  <2>1. UNCHANGED <<responses, locks, frames>> /\ \A i \in RowIds : partLock[i] = Nobody
    BY <1>3 DEF Submit, FixOldScaleScores
  <2>2. \A s \in Requests \ {r} : pc'[s] = pc[s]
    BY <1>3, <1>b DEF Submit, FixOldScaleScores, Goto, TypeOK
  <2>3. \A s \in Requests \ {r} : Bystander(s) /\ found'[s] = found[s]
    BY <2>1, <2>2, NobodyAssumption DEF Bystander, locks, frames, views
  <2>4. ASSUME NEW i \in RowIds
        PROVE  /\ Listed(participants', i) <=> Listed(participants, i)
               /\ pc[r] # "fix" => participants'[i].score = participants[i].score
    <3>1. participants[i] = [status |-> participants[i].status, score |-> participants[i].score]
      BY <1>b DEF TypeOK, IsParticipantTable
    <3>2. FixRow(participants[i]).status = participants[i].status
      BY <3>1 DEF FixRow
    <3>3. /\ SetCompleted(participants[i]).status = "completed"
          /\ SetCompleted(participants[i]).score = participants[i].score
      BY <3>1 DEF SetCompleted
    <3>4. CASE Submit(r)
      <4>1. participants'[i] = IF Listed(participants, i) THEN SetCompleted(participants[i])
                                                          ELSE participants[i]
        BY <3>4 DEF Submit
      <4> QED
        BY <3>3, <4>1 DEF Listed
    <3>5. CASE FixOldScaleScores(r)
      <4>1. participants'[i] = FixRow(participants[i]) /\ pc[r] = "fix"
        BY <3>5 DEF FixOldScaleScores
      <4> QED
        BY <3>2, <4>1 DEF Listed
    <3> QED
      BY <1>3, <3>4, <3>5
  <2> QED
    BY <2>1, <2>3, <2>4
<1>4. Start(r) \/ Submit(r) \/ FixOldScaleScores(r) \/ Fail(r) \/ Crash(r)
  <2>1. ~Load(r)
    BY <1>b DEF Load, Goto, TypeOK, Writing, TxLabels
  <2> QED
    BY <2>1 DEF Step, SaveResponse, EnsureParticipant, GradeResponse, ComputeScore, ComputeStatus,
       Exists, InsertParticipant, UpdateParticipant, Commit, DeadlockVictim, Writing, TxLabels
<1>5. UNCHANGED participants => \A i \in RowIds : Listed(participants', i) <=> Listed(participants, i)
  BY DEF Listed
<1> QED
  BY <1>1, <1>2, <1>3, <1>4, <1>5

\* So where one request writes at a time, what holds of the others goes on to hold.
LEMMA PairOthers ==
    ASSUME OneWriter, OneWriter', IInv, PairInv, NEW r \in Requests,
           Start(r) \/ Step(r) \/ Crash(r), NEW s \in Requests \ {r}, pc'[s] = pc[s]
    PROVE  ViewIsCurrent(s)' /\ PairOK(s)'
<1>1. CASE ~Writing(s)
  BY <1>1 DEF Writing, ViewIsCurrent, PairOK, InTransaction, TxLabels
<1>2. CASE Writing(s)
  <2>1. ~Writing(r) /\ ~Writing(r)'
    BY <1>2 DEF OneWriter, Writing
  <2>2. /\ responses' = responses /\ Bystander(s) /\ found'[s] = found[s]
        /\ \A i \in RowIds : Listed(participants', i) <=> Listed(participants, i)
    BY <2>1, Aside
  <2>3. ViewIsCurrent(s) /\ PairOK(s)
    BY DEF PairInv
  <2>4. InTransaction(s)' <=> InTransaction(s)
    BY <2>2 DEF InTransaction, Bystander
  <2>5. \A i \in RowIds : Listed(viewPart[s], i)' <=> Listed(viewPart[s], i)
    BY <2>2 DEF Listed, Bystander
  <2>6. ViewIsCurrent(s)'
    BY <2>2, <2>3, <2>4, <2>5 DEF ViewIsCurrent, Bystander
  <2>7. \A i \in RowIds : Listed(ReadsPart(s), i)' <=> Listed(ReadsPart(s), i)
    <3>1. CASE InTx(s)
      <4>1. ReadsPart(s) = viewPart[s] /\ ReadsPart(s)' = viewPart'[s]
        BY <2>2, <3>1 DEF ReadsPart, InTx, Bystander
      <4> QED
        BY <2>5, <4>1
    <3>2. CASE ~InTx(s)
      <4>1. ReadsPart(s) = participants /\ ReadsPart(s)' = participants'
        BY <2>2, <3>2 DEF ReadsPart, InTx, Bystander
      <4> QED
        BY <2>2, <4>1
    <3> QED
      BY <3>1, <3>2
  <2>8. PairOK(s)'
    BY <2>2, <2>3, <2>4, <2>5, <2>7 DEF PairOK, AtMostOne, Bystander
  <2> QED
    BY <2>6, <2>8
<1> QED
  BY <1>1, <1>2

LEMMA PairAssemble ==
    ASSUME OneWriter, OneWriter', IInv, PairInv, NEW r \in Requests,
           Start(r) \/ Step(r) \/ Crash(r), \A s \in Requests \ {r} : pc'[s] = pc[s],
           AtMostOne(participants'), ViewIsCurrent(r)', PairOK(r)'
    PROVE  PairInv'
<1>1. \A s \in Requests \ {r} : ViewIsCurrent(s)' /\ PairOK(s)'
  BY PairOthers
<1> QED
  BY <1>1 DEF PairInv, AtMostOne, Listed

\* Outside a transaction there is nothing to claim.
LEMMA PairOutside ==
    ASSUME NEW r \in Requests, pc'[r] \notin TxLabels
    PROVE  ViewIsCurrent(r)' /\ PairOK(r)'
BY DEF ViewIsCurrent, PairOK, InTransaction, TxLabels

\* The row that an update meets first is a row of the view.
LEMMA UpdatesListed ==
    ASSUME IInv, PairInv, NEW r \in Requests, pc[r] = "write", NEW i \in RowIds, IsFirst(i),
           partLock[i] \in {r, Nobody}
    PROVE  Listed(ReadsPart(r), i)
<1>1. Listed(participants, i) \/ partLock[i] = r
  BY DEF IsFirst, PairRows
<1>2. partLock[i] = r => InTransaction(r) /\ Listed(viewPart[r], i)
  BY DEF IInv, OwnersOK
<1>3. input[r].op \in {"store", "grade", "recalculate"}
  BY DEF IInv, RequestOK, ControlOK
<1>4. CASE InTx(r)
  <2>1. InTransaction(r)
    BY <1>3, <1>4 DEF InTx, InTransaction, TxLabels
  <2>2. partLock[i] # r => (Listed(viewPart[r], i) <=> Listed(participants, i))
    BY <2>1 DEF PairInv, ViewIsCurrent
  <2> QED
    BY <1>1, <1>2, <1>4, <2>2 DEF ReadsPart
<1>5. CASE ~InTx(r)
  BY <1>1, <1>2, <1>3, <1>5 DEF ReadsPart, InTx, InTransaction
<1> QED
  BY <1>4, <1>5

\* A row written where none is, or over the one that is.
LEMMA PairWrite ==
    ASSUME IInv, PairInv, NEW r \in Requests, pc[r] = "write", NEW i \in RowIds, NEW row,
           WriteParticipant(r, i, row), UNCHANGED <<responses, respLock, viewResp, input>>,
           Goto(r, upsert[r].next),
           Listed(ReadsPart(r), i) \/ \A j \in RowIds : ~Listed(ReadsPart(r), j)
    PROVE  AtMostOne(participants') /\ ViewIsCurrent(r)' /\ PairOK(r)'
<1>b. TypeOK /\ IsUpsert(upsert[r]) /\ input[r].op \in {"store", "grade", "recalculate"}
  BY DEF IInv, TypeOK, RequestOK, ControlOK
<1>1. pc'[r] = upsert[r].next /\ pc'[r] # "write"
  BY <1>b DEF Goto, IsUpsert, TypeOK
<1>2. ASSUME NEW t, IsParticipantTable(t), AtMostOne(t),
             Listed(t, i) \/ \A j \in RowIds : ~Listed(t, j)
      PROVE  AtMostOne([t EXCEPT ![i] = row])
  <2>1. \A j \in RowIds \ {i} : [t EXCEPT ![i] = row][j] = t[j]
    BY <1>2 DEF IsParticipantTable
  <2> QED
    BY <1>2, <2>1 DEF AtMostOne, Listed
<1>3. CASE InTx(r)
  <2>1. InTransaction(r)
    BY <1>b, <1>3 DEF InTx, InTransaction, TxLabels
  <2>2. /\ partLock' = [partLock EXCEPT ![i] = r] /\ participants' = participants
        /\ viewPart' = [viewPart EXCEPT ![r][i] = row]
    BY <1>3 DEF WriteParticipant
  <2>3. viewPart'[r] = [viewPart[r] EXCEPT ![i] = row]
    BY <1>b, <2>2 DEF TypeOK
  <2>4. AtMostOne(viewPart'[r])
    BY <1>b, <1>2, <1>3, <2>1, <2>3 DEF PairInv, PairOK, ReadsPart, TypeOK
  <2>5. ASSUME NEW j \in RowIds, partLock'[j] # r
        PROVE  Listed(viewPart'[r], j) <=> Listed(participants', j)
    <3>1. j # i /\ partLock[j] # r
      BY <1>b, <2>2, <2>5 DEF TypeOK
    <3>2. viewPart'[r][j] = viewPart[r][j]
      BY <1>b, <2>3, <3>1 DEF TypeOK, IsParticipantTable
    <3> QED
      BY <2>1, <2>2, <3>1, <3>2 DEF PairInv, ViewIsCurrent, Listed
  <2>6. \A q \in Questions : respLock'[q] # r => viewResp'[r][q] = responses'[q]
    BY <2>1 DEF PairInv, ViewIsCurrent
  <2> QED
    BY <1>1, <2>2, <2>4, <2>5, <2>6 DEF PairInv, AtMostOne, ViewIsCurrent, PairOK, Listed
<1>4. CASE ~InTx(r)
  <2>1. ~InTransaction(r)'
    BY <1>4 DEF InTx, InTransaction
  <2>2. participants' = [participants EXCEPT ![i] = row]
    BY <1>4 DEF WriteParticipant
  <2>3. AtMostOne(participants')
    BY <1>b, <1>2, <1>4, <2>2 DEF PairInv, ReadsPart, TypeOK
  <2> QED
    BY <1>1, <2>1, <2>3 DEF ViewIsCurrent, PairOK
<1> QED
  BY <1>3, <1>4

\* A response row written to the view, under its lock.
LEMMA PairKeeps ==
    ASSUME IInv, PairInv, NEW r \in Requests, InTransaction(r),
           UNCHANGED <<responses, participants, partLock, viewPart>>, pc'[r] # "write",
           \/ UNCHANGED <<respLock, viewResp>>
           \/ \E q \in Questions : \E row : WriteResponse(r, q, row)
    PROVE  AtMostOne(participants') /\ ViewIsCurrent(r)' /\ PairOK(r)'
<1>b. TypeOK
  BY DEF IInv
<1>1. AtMostOne(participants') /\ PairOK(r)'
  BY DEF PairInv, AtMostOne, PairOK, Listed
<1>2. \A i \in RowIds :
         partLock'[i] # r => (Listed(viewPart'[r], i) <=> Listed(participants', i))
  BY DEF PairInv, ViewIsCurrent, Listed
<1>3. ASSUME NEW q \in Questions, respLock'[q] # r PROVE viewResp'[r][q] = responses'[q]
  <2>1. CASE UNCHANGED <<respLock, viewResp>>
    BY <1>3, <2>1 DEF PairInv, ViewIsCurrent
  <2>2. ASSUME NEW p \in Questions, NEW row, WriteResponse(r, p, row)
        PROVE  viewResp'[r][q] = responses'[q]
    <3>1. respLock' = [respLock EXCEPT ![p] = r] /\ viewResp' = [viewResp EXCEPT ![r][p] = row]
      BY <2>2 DEF WriteResponse
    <3>2. q # p /\ respLock[q] # r
      BY <1>b, <1>3, <3>1 DEF TypeOK
    <3>3. viewResp'[r][q] = viewResp[r][q]
      BY <1>b, <3>1, <3>2 DEF TypeOK, ResponseTable
    <3> QED
      BY <3>2, <3>3 DEF PairInv, ViewIsCurrent
  <2> QED
    BY <2>1, <2>2
<1> QED
  BY <1>1, <1>2, <1>3 DEF ViewIsCurrent, Listed

LEMMA PairStep ==
    ASSUME OneWriter, OneWriter', IInv, PairInv, NEW r \in Requests,
           Start(r) \/ Step(r) \/ Crash(r)
    PROVE  PairInv'
<1>b. TypeOK /\ ControlOK(r) /\ IsUpsert(upsert[r])
  BY DEF IInv, RequestOK, TypeOK
<1>c. AtMostOne(participants) /\ ViewIsCurrent(r) /\ PairOK(r)
  BY DEF PairInv
<1>e. ASSUME NEW l, Goto(r, l) PROVE pc'[r] = l /\ \A s \in Requests \ {r} : pc'[s] = pc[s]
  BY <1>b, <1>e DEF Goto, TypeOK
<1>f. ASSUME \A s \in Requests \ {r} : pc'[s] = pc[s],
             AtMostOne(participants'), ViewIsCurrent(r)', PairOK(r)'
      PROVE  PairInv'
  BY <1>f, PairAssemble
\* A step that ends outside of a transaction.
<1>g. ASSUME \A s \in Requests \ {r} : pc'[s] = pc[s], AtMostOne(participants'),
             pc'[r] \notin TxLabels
      PROVE  PairInv'
  BY <1>f, <1>g, PairOutside
<1>1. CASE Start(r)
  <2>1. PICK i \in Inputs :
           /\ input' = [input EXCEPT ![r] = i]
           /\ Goto(r, IF i.op # "recalculate" THEN "load"
                      ELSE IF i.fix THEN "fix" ELSE IF i.inScope THEN "score" ELSE "done")
    BY <1>1 DEF Start
  <2>2. AtMostOne(participants')
    BY <1>1, <1>c DEF Start, tables, AtMostOne, Listed
  <2>3. pc'[r] \in TxLabels => i.op = "recalculate" /\ pc'[r] = "score"
    BY <1>e, <2>1 DEF TxLabels
  <2>4. input'[r] = i
    BY <1>b, <2>1 DEF TypeOK
  <2>5. ViewIsCurrent(r)' /\ PairOK(r)'
    BY <2>3, <2>4 DEF ViewIsCurrent, PairOK, InTransaction, TxLabels
  <2> QED
    BY <1>e, <1>f, <2>1, <2>2, <2>5
<1>2. CASE Load(r)
  <2>1. /\ UNCHANGED <<tables, locks, input>>
        /\ viewResp'[r] = responses /\ viewPart'[r] = participants
    BY <1>b, <1>2 DEF Load, TypeOK
  <2>2. Goto(r, IF input[r].op = "store" THEN "save" ELSE "grade")
    BY <1>2 DEF Load
  <2>3. ViewIsCurrent(r)' /\ PairOK(r)' /\ AtMostOne(participants')
    BY <1>c, <1>e, <2>1, <2>2 DEF ViewIsCurrent, PairOK, AtMostOne, Listed, tables
  <2> QED
    BY <1>e, <1>f, <2>2, <2>3
<1>3. ASSUME Fail(r) \/ Crash(r) PROVE PairInv'
  <2>1. UNCHANGED participants /\ (Goto(r, "error") \/ Goto(r, "crashed"))
    BY <1>3 DEF Fail, Crash, tables
  <2>2. AtMostOne(participants')
    BY <1>c, <2>1 DEF AtMostOne
  <2> QED
    BY <1>e, <1>g, <2>1, <2>2 DEF TxLabels
<1>4. CASE SaveResponse(r) /\ ~Fail(r)
  <2> DEFINE q == input[r].q
  <2>1. q \in Questions /\ InTransaction(r)
    BY <1>4, <1>b, InputsAssumption DEF SaveResponse, ControlOK, IsInput, InTransaction, TxLabels
  <2>2. /\ \/ UNCHANGED <<respLock, viewResp>>
           \/ \E row : WriteResponse(r, q, row)
        /\ Goto(r, "score") \/ Goto(r, "ensure")
        /\ UNCHANGED <<tables, partLock, viewPart>>
    BY <1>4 DEF SaveResponse
  <2>3. UNCHANGED <<responses, participants, partLock, viewPart>>
    BY <2>2 DEF tables
  <2>4. AtMostOne(participants') /\ ViewIsCurrent(r)' /\ PairOK(r)'
    BY <1>e, <2>1, <2>2, <2>3, PairKeeps
  <2> QED
    BY <1>e, <1>f, <2>2, <2>4
\* Steps that change neither rows nor locks.
<1>5. ASSUME NEW l, Goto(r, l), UNCHANGED <<tables, locks, input, views>>, pc[r] \in TxLabels,
             l = "write" => found'[r] = \E i \in RowIds : Listed(ReadsPart(r), i)
      PROVE  PairInv'
  <2>1. pc'[r] = l /\ \A s \in Requests \ {r} : pc'[s] = pc[s]
    BY <1>e, <1>5
  <2>2. UNCHANGED <<responses, participants, respLock, partLock, viewResp, viewPart>>
    BY <1>5 DEF tables, locks, views
  <2>3. InTransaction(r)' => InTransaction(r)
    BY <1>5 DEF InTransaction
  <2>4. AtMostOne(participants') /\ ViewIsCurrent(r)'
    BY <1>c, <2>2, <2>3 DEF AtMostOne, Listed, ViewIsCurrent
  <2>5. PairOK(r)'
    BY <1>c, <1>5, <2>1, <2>2, <2>3 DEF PairOK, AtMostOne, Listed, ReadsPart, InTx
  <2> QED
    BY <1>f, <2>1, <2>4, <2>5
<1>6. CASE EnsureParticipant(r)
  BY <1>5, <1>6 DEF EnsureParticipant, TxLabels
<1>7. CASE GradeResponse(r)
  <2>1. InTransaction(r) /\ UNCHANGED <<responses, participants, partLock, viewPart>>
    BY <1>b, <1>7 DEF GradeResponse, ControlOK, InTransaction, TxLabels, tables
  <2>2. /\ pc'[r] # "write" /\ \A s \in Requests \ {r} : pc'[s] = pc[s]
    BY <1>b, <1>7 DEF GradeResponse, Goto, TypeOK
  <2>3. \/ UNCHANGED <<respLock, viewResp>>
        \/ \E q \in Questions : \E row : WriteResponse(r, q, row)
    <3>1. CASE todo[r] = <<>>
      BY <1>7, <3>1 DEF GradeResponse
    <3>2. CASE todo[r] # <<>>
      <4>1. Head(todo[r]) \in Marks
        BY <1>b, <3>2 DEF TypeOK
      <4>2. Head(todo[r]).q \in Questions
        BY <4>1 DEF Marks
      <4> QED
        BY <1>7, <3>2, <4>2 DEF GradeResponse
    <3> QED
      BY <3>1, <3>2
  <2>4. AtMostOne(participants') /\ ViewIsCurrent(r)' /\ PairOK(r)'
    BY <2>1, <2>2, <2>3, PairKeeps
  <2> QED
    BY <1>f, <2>2, <2>4
<1>8. CASE ComputeScore(r) /\ ~Fail(r)
  <2>1. /\ UNCHANGED <<tables, locks, input, views>>
        /\ Goto(r, "status") \/ Goto(r, upsert[r].next)
    BY <1>8 DEF ComputeScore
  <2> QED
    BY <1>5, <1>8, <1>b, <2>1 DEF ComputeScore, TxLabels, IsUpsert
<1>9. CASE ComputeStatus(r)
  BY <1>5, <1>9 DEF ComputeStatus, TxLabels
<1>10. CASE Exists(r)
  <2>1. found'[r] = \E i \in RowIds : Listed(ReadsPart(r), i)
    BY <1>b, <1>10 DEF Exists, TypeOK
  <2> QED
    BY <1>5, <1>10, <2>1 DEF Exists, TxLabels
<1>11. CASE InsertParticipant(r)
  <2>1. \A j \in RowIds : ~Listed(ReadsPart(r), j)
    BY <1>c, <1>11 DEF InsertParticipant, PairOK
  <2>2. Goto(r, upsert[r].next)
    BY <1>11 DEF InsertParticipant
  <2> QED
    BY <1>e, <1>f, <1>11, <2>1, <2>2, PairWrite DEF InsertParticipant
<1>12. CASE UpdateParticipant(r)
  <2>1. PICK i \in RowIds :
           /\ IsFirst(i)
           /\ WriteParticipant(r, i, [status |-> upsert[r].status,
                  score |-> IF upsert[r].score = Keep THEN CurrentParticipant(r, i).score
                            ELSE upsert[r].score])
    BY <1>12 DEF UpdateParticipant
  <2>2. /\ pc[r] = "write" /\ Goto(r, upsert[r].next)
        /\ UNCHANGED <<responses, respLock, viewResp, input>>
    BY <1>12 DEF UpdateParticipant
  <2>3. partLock[i] \in {r, Nobody}
    BY <2>1 DEF WriteParticipant
  <2>4. Listed(ReadsPart(r), i)
    BY <2>1, <2>2, <2>3, UpdatesListed
  <2> QED
    BY <1>e, <1>f, <2>1, <2>2, <2>4, PairWrite
<1>13. CASE Commit(r)
  <2>1. /\ Goto(r, "submit") \/ Goto(r, "done")
        /\ \A i \in RowIds : participants'[i] = CurrentParticipant(r, i)
    BY <1>13 DEF Commit
  <2>2. InTransaction(r)
    BY <1>b, <1>13 DEF Commit, ControlOK, InTransaction, TxLabels
  <2>3. AtMostOne(participants')
    BY <1>c, <2>1, <2>2 DEF PairOK, ViewIsCurrent, AtMostOne, Listed, CurrentParticipant
  <2> QED
    BY <1>e, <1>g, <2>1, <2>3 DEF TxLabels
<1>14. CASE Submit(r) \/ FixOldScaleScores(r)
  <2>1. \A i \in RowIds : Listed(participants', i) => Listed(participants, i)
    <3> SUFFICES ASSUME NEW i \in RowIds PROVE Listed(participants', i) => Listed(participants, i)
      OBVIOUS
    <3>1. participants[i] = [status |-> participants[i].status, score |-> participants[i].score]
      BY <1>b DEF TypeOK, IsParticipantTable
    <3>2. FixRow(participants[i]).status = participants[i].status
      BY <3>1 DEF FixRow
    <3> QED
      BY <1>14, <3>2 DEF Submit, FixOldScaleScores, Listed
  <2>2. AtMostOne(participants')
    BY <1>c, <2>1 DEF AtMostOne
  <2>3. CASE Submit(r)
    BY <1>e, <1>g, <2>2, <2>3 DEF Submit, TxLabels
  <2>4. CASE FixOldScaleScores(r)
    <3>1. /\ Goto(r, "score") \/ Goto(r, "done")
          /\ input' = input /\ input[r].op = "recalculate"
      BY <1>b, <2>4 DEF FixOldScaleScores, ControlOK, frames
    <3>2. ViewIsCurrent(r)' /\ PairOK(r)'
      BY <1>e, <3>1 DEF ViewIsCurrent, PairOK, InTransaction
    <3> QED
      BY <1>e, <1>f, <2>2, <3>1, <3>2
  <2> QED
    BY <1>14, <2>3, <2>4
<1> QED
  BY <1>1, <1>2, <1>3, <1>4, <1>6, <1>7, <1>8, <1>9, <1>10, <1>11, <1>12, <1>13, <1>14
  DEF Step, DeadlockVictim

LEMMA PairNext == OneWriter /\ OneWriter' /\ IInv /\ PairInv /\ [Next]_vars => PairInv'
<1> SUFFICES ASSUME OneWriter, OneWriter', IInv, PairInv, [Next]_vars PROVE PairInv'
  OBVIOUS
<1>1. CASE UNCHANGED vars
  BY <1>1 DEF PairInv, AtMostOne, ViewIsCurrent, PairOK, InTransaction,
     Listed, ReadsPart, InTx, vars, tables, locks, frames, views
<1> QED
  BY <1>1, PairStep DEF Next, Finished

LEMMA PairInit == Init /\ AtMostOne(SeededParticipants) => PairInv
BY DEF Init, PairInv, AtMostOne, ViewIsCurrent, PairOK, InTransaction, TxLabels

\* updateOrInsert looks before it inserts, which is enough as long as no two transactions
\* of the pair overlap: however requests fail and die, it never gets a second row.
THEOREM SerialPairsKeepOneRow ==
    ASSUME AtMostOne(SeededParticipants)
    PROVE  Spec /\ []OneWriter => []OneRowPerPair
<1>1. PairInv => OneRowPerPair
  BY DEF PairInv, AtMostOne, OneRowPerPair
<1>2. Init => PairInv
  BY PairInit
<1> QED
  BY <1>1, <1>2, PairNext, Invariance, PTL DEF Spec

\* Where one request runs at a time, no two transactions overlap.
LEMMA StartsAlone ==
    ASSUME MaxConcurrent = 1, NEW r \in Requests, Start(r)
    PROVE  \A s \in Requests : ~Active(s)
<1> DEFINE A == {x \in Requests : Active(x)}
<1>1. Cardinality(A) < 1
  BY DEF Start
<1>2. A \in SUBSET Requests
  OBVIOUS
<1> HIDE DEF A
<1>3. A = {}
  BY <1>1, <1>2, FS_Subset, FS_CardinalityType, FS_EmptySet, RequestsAssumption
<1> QED
  BY <1>3 DEF A

LEMMA OneRunsAlone == ASSUME MaxConcurrent = 1 PROVE Spec => []OneWriter
<1>1. Init => OneAtATime
  BY DEF Init, OneAtATime, Active
<1>2. ASSUME IInv, OneAtATime, [Next]_vars PROVE OneAtATime'
  <2>1. ASSUME NEW r \in Requests, Start(r) \/ Step(r) \/ Crash(r) PROVE OneAtATime'
    <3>1. \A s \in Requests \ {r} : ~Active(s)
      <4>1. CASE Start(r)
        BY <4>1, StartsAlone
      <4>2. CASE ~Start(r)
        <5>1. Active(r)
          BY <2>1, <4>2, VictimIsActive DEF Step, Load, SaveResponse, EnsureParticipant,
             GradeResponse, ComputeScore, ComputeStatus, Exists, InsertParticipant,
             UpdateParticipant, Commit, Submit, FixOldScaleScores, Crash, Active, Over
        <5> QED
          BY <1>2, <5>1 DEF OneAtATime
      <4> QED
        BY <4>1, <4>2
    <3>2. \A s \in Requests \ {r} : pc'[s] = pc[s]
      BY <1>2, <2>1 DEF IInv, TypeOK, Goto, Step, Start, Crash, DeadlockVictim, Fail, Load,
         SaveResponse, EnsureParticipant, GradeResponse, ComputeScore, ComputeStatus, Exists,
         InsertParticipant, UpdateParticipant, Commit, Submit, FixOldScaleScores
    <3> QED
      BY <3>1, <3>2 DEF OneAtATime, Active, Over
  <2>2. CASE UNCHANGED vars
    BY <1>2, <2>2 DEF OneAtATime, Active, Over, vars
  <2> QED
    BY <1>2, <2>1, <2>2 DEF Next, Finished
<1>3. OneAtATime => OneWriter
  BY DEF OneAtATime, OneWriter, Writing, Active, Over, TxLabels
<1> QED
  BY <1>1, <1>2, <1>3, Invariance, PTL DEF Spec

\* In particular where requests do not overlap at all, as in the run.
THEOREM PairsKeepOneRow ==
    ASSUME MaxConcurrent = 1, AtMostOne(SeededParticipants)
    PROVE  Spec => []OneRowPerPair
BY OneRunsAlone, SerialPairsKeepOneRow, PTL

-----------------------------------------------------------------------------
(***************************************************************************)
(* The score of the stored responses, where transactions do not overlap    *)
(***************************************************************************)
\* Only transactions write scores.
LEMMA ScoresCurrentStep ==
    ASSUME OneWriter, OneWriter', IInv, RangeInv, SyncInv, NEW r \in Requests,
           Start(r) \/ Step(r) \/ Crash(r), \A s \in Requests \ {r} : pc'[s] = pc[s],
           NEW s \in Requests
    PROVE  ScoresCurrent(s)'
<1>b. TypeOK /\ ControlOK(r) /\ ScoresCurrent(s) /\ pc[r] # "fix" /\ IsUpsert(upsert[r])
  BY DEF IInv, RequestOK, SyncInv, RangeInv, TypeOK
<1>1. CASE ~InTransaction(s)'
  BY <1>1 DEF ScoresCurrent
<1>2. CASE InTransaction(s)' /\ s # r
  <2>1. ~Writing(r) /\ ~Writing(r)'
    BY <1>2 DEF OneWriter, Writing, InTransaction
  <2>2. Bystander(s) /\ \A i \in RowIds : participants'[i].score = participants[i].score
    BY <1>2, <1>b, <2>1, Aside
  <2>3. InTransaction(s)
    BY <1>2, <2>2 DEF InTransaction, Bystander
  <2> QED
    BY <1>b, <2>2, <2>3 DEF ScoresCurrent, Bystander
<1>3. CASE InTransaction(s)' /\ s = r
  <2>1. pc'[r] \in TxLabels /\ input'[r].op \in {"store", "grade"}
    BY <1>3 DEF InTransaction
  <2>2. ~Start(r)
    <3>1. Start(r) => \E i \in Inputs :
             /\ input'[r] = i
             /\ pc'[r] = IF i.op # "recalculate" THEN "load"
                         ELSE IF i.fix THEN "fix" ELSE IF i.inScope THEN "score" ELSE "done"
      BY <1>b DEF Start, Goto, TypeOK
    <3> QED
      BY <2>1, <3>1 DEF TxLabels
  <2>3. ~Fail(r) /\ ~Crash(r) /\ ~Commit(r) /\ ~Submit(r) /\ ~FixOldScaleScores(r)
    BY <1>b, <2>1 DEF Fail, Crash, Commit, Submit, FixOldScaleScores, Goto, TypeOK, TxLabels
  <2>4. CASE Load(r)
    <3>1. viewPart'[r] = participants /\ participants' = participants
      BY <1>b, <2>4 DEF Load, TypeOK, tables
    <3> QED
      BY <1>3, <3>1 DEF ScoresCurrent
  <2>5. CASE \/ SaveResponse(r) \/ EnsureParticipant(r) \/ GradeResponse(r)
             \/ ComputeScore(r) \/ ComputeStatus(r) \/ Exists(r)
    <3>1. UNCHANGED <<participants, partLock, viewPart, input>> /\ pc[r] \in TxLabels
      BY <2>3, <2>5 DEF SaveResponse, EnsureParticipant, GradeResponse, ComputeScore,
         ComputeStatus, Exists, tables, locks, views, TxLabels
    <3>2. InTransaction(r)
      BY <2>1, <3>1 DEF InTransaction
    <3> QED
      BY <1>3, <1>b, <3>1, <3>2 DEF ScoresCurrent
  <2>6. CASE InsertParticipant(r) \/ UpdateParticipant(r)
    <3>1. pc[r] = "write" /\ input' = input
      BY <2>6 DEF InsertParticipant, UpdateParticipant
    <3>2. InTransaction(r) /\ InTx(r)
      BY <2>1, <3>1 DEF InTransaction, InTx, TxLabels
    <3>3. PICK i \in RowIds : \E row : WriteParticipant(r, i, row)
      BY <2>6 DEF InsertParticipant, UpdateParticipant
    <3>4. PICK row : WriteParticipant(r, i, row)
      BY <3>3
    <3>5. /\ participants' = participants /\ partLock' = [partLock EXCEPT ![i] = r]
          /\ viewPart' = [viewPart EXCEPT ![r][i] = row]
      BY <3>2, <3>4 DEF WriteParticipant
    <3>6. ASSUME NEW j \in RowIds, partLock'[j] # r
          PROVE  viewPart'[r][j].score = participants'[j].score
      <4>1. j # i /\ partLock[j] # r
        BY <1>b, <3>5, <3>6 DEF TypeOK
      <4>2. viewPart'[r] = [viewPart[r] EXCEPT ![i] = row]
        BY <1>b, <3>5 DEF TypeOK
      <4>3. viewPart'[r][j] = viewPart[r][j]
        BY <1>b, <4>1, <4>2 DEF TypeOK, IsParticipantTable
      <4> QED
        BY <1>3, <1>b, <3>2, <3>5, <4>1, <4>3 DEF ScoresCurrent
    <3> QED
      BY <1>3, <3>6 DEF ScoresCurrent
  <2> QED
    BY <2>2, <2>3, <2>4, <2>5, <2>6 DEF Step, DeadlockVictim
<1> QED
  BY <1>1, <1>2, <1>3

\* What holds of the others goes on to hold.
LEMMA SyncOthers ==
    ASSUME OneWriter, OneWriter', IInv, RangeInv, SyncInv, NEW r \in Requests,
           Start(r) \/ Step(r) \/ Crash(r), NEW s \in Requests \ {r}, pc'[s] = pc[s]
    PROVE  SyncOK(s)'
<1>1. CASE ~Writing(s)
  BY <1>1 DEF Writing, SyncOK, InTransaction, TxLabels
<1>2. CASE Writing(s)
  <2>1. ~Writing(r) /\ ~Writing(r)' /\ pc[r] # "fix"
    BY <1>2 DEF OneWriter, Writing, RangeInv
  <2>2. /\ responses' = responses /\ Bystander(s)
        /\ \A i \in RowIds : /\ Listed(participants', i) <=> Listed(participants, i)
                             /\ participants'[i].score = participants[i].score
    BY <2>1, Aside
  <2>3. SyncOK(s)
    BY DEF SyncInv
  <2>4. /\ InTransaction(s)' <=> InTransaction(s)
        /\ pc'[s] = pc[s] /\ input'[s] = input[s] /\ upsert'[s] = upsert[s]
        /\ viewResp'[s] = viewResp[s] /\ viewPart'[s] = viewPart[s]
    BY <2>2 DEF InTransaction, Bystander
  <2>5. ReadsResp(s)' = ReadsResp(s)
    BY <2>2, <2>4 DEF ReadsResp, InTx
  <2>6. \A resp : Rated(resp, participants) => Rated(resp, participants')
    BY <2>2 DEF Rated
  <2>7. Rated(ReadsResp(s), ReadsPart(s)) => Rated(ReadsResp(s), ReadsPart(s))'
    <3>1. CASE InTx(s)
      <4>1. ReadsPart(s)' = ReadsPart(s)
        BY <2>4, <3>1 DEF ReadsPart, InTx
      <4> QED
        BY <2>5, <4>1 DEF Rated, Listed
    <3>2. CASE ~InTx(s)
      <4>1. ReadsPart(s) = participants /\ ReadsPart(s)' = participants'
        BY <2>4, <3>2 DEF ReadsPart, InTx
      <4>2. Rated(ReadsResp(s), participants) => Rated(ReadsResp(s), participants')
        BY <2>6
      <4> QED
        BY <2>5, <4>1, <4>2 DEF Rated, Listed
    <3> QED
      BY <3>1, <3>2
  <2>8. Rated(viewResp[s], viewPart[s]) => Rated(viewResp[s], viewPart[s])'
    BY <2>4 DEF Rated, Listed
  <2>9. /\ GradesMarked(viewResp[s]) => GradesMarked(viewResp[s])'
        /\ Unselected(viewResp[s]) => Unselected(viewResp[s])'
        /\ Raising(s) => Raising(s)'
    BY <2>4 DEF GradesMarked, Unselected, Raising, StringsOnly, Row
  <2> QED
    BY <2>3, <2>4, <2>5, <2>7, <2>8, <2>9 DEF SyncOK
<1> QED
  BY <1>1, <1>2

LEMMA SyncAssemble ==
    ASSUME OneWriter, OneWriter', IInv, RangeInv, SyncInv, NEW r \in Requests,
           Start(r) \/ Step(r) \/ Crash(r), \A s \in Requests \ {r} : pc'[s] = pc[s],
           Rated(responses', participants'), GradesMarked(responses'), Unselected(responses'),
           SyncOK(r)'
    PROVE  SyncInv'
<1>1. \A s \in Requests \ {r} : SyncOK(s)'
  BY SyncOthers
<1>2. \A s \in Requests : ScoresCurrent(s)'
  BY ScoresCurrentStep
<1> QED
  BY <1>1, <1>2 DEF SyncInv, Rated, GradesMarked, Unselected, Row

\* A request outside of its transaction claims nothing, but for the command.
LEMMA SyncOutside ==
    ASSUME NEW r \in Requests, pc'[r] \notin TxLabels
    PROVE  SyncOK(r)'
BY DEF SyncOK, InTransaction, TxLabels

\* Committed rows are as they were.
LEMMA SyncCommitted ==
    ASSUME SyncInv, UNCHANGED <<responses, participants>>
    PROVE  Rated(responses', participants') /\ GradesMarked(responses') /\ Unselected(responses')
BY DEF SyncInv

\* A pair's row with the score of the responses rates them.
LEMMA RatedByWrite ==
    ASSUME NEW resp, NEW part, NEW i \in RowIds, NEW row, IsParticipantTable(part), AtMostOne(part),
           Listed(part, i) \/ \A j \in RowIds : ~Listed(part, j),
           row.status # "absent", CalculateScore(Mode, resp) # Null => row.score = CalculateScore(Mode, resp)
    PROVE  Rated(resp, [part EXCEPT ![i] = row])
<1> DEFINE new == [part EXCEPT ![i] = row]
<1>1. new[i] = row /\ \A j \in RowIds \ {i} : new[j] = part[j]
  BY DEF IsParticipantTable
<1>2. \A j \in RowIds : Listed(new, j) => j = i
  BY <1>1 DEF AtMostOne, Listed
<1>3. Listed(new, i)
  BY <1>1 DEF Listed
<1> HIDE DEF new
<1>4. Rated(resp, new)
  BY <1>1, <1>2, <1>3 DEF Rated
<1> QED
  BY <1>4 DEF new

\* updateOrInsert puts the score on the pair's row, or keeps the one that is right.
LEMMA SyncWrite ==
    ASSUME IInv, PairInv, SyncInv, NEW r \in Requests, pc[r] = "write", NEW i \in RowIds, NEW sc,
           WriteParticipant(r, i, [status |-> upsert[r].status, score |-> sc]),
           UNCHANGED <<responses, viewResp, input>>, Goto(r, upsert[r].next),
           Listed(ReadsPart(r), i) \/ \A j \in RowIds : ~Listed(ReadsPart(r), j),
           upsert[r].score # Keep => sc = upsert[r].score,
           upsert[r].score = Keep /\ Listed(ReadsPart(r), i) => sc = ReadsPart(r)[i].score
    PROVE  /\ Rated(responses', participants') /\ GradesMarked(responses') /\ Unselected(responses')
           /\ SyncOK(r)'
<1> DEFINE row == [status |-> upsert[r].status, score |-> sc]
<1>b. TypeOK /\ ControlOK(r) /\ IsUpsert(upsert[r])
  BY DEF IInv, TypeOK, RequestOK
<1>c. SyncOK(r) /\ Rated(responses, participants) /\ GradesMarked(responses) /\ Unselected(responses)
  BY DEF SyncInv
<1>1. pc'[r] = upsert[r].next /\ pc'[r] \in {"ensure", "grade", "commit", "done"}
  BY <1>b DEF Goto, IsUpsert, TypeOK
<1>2. row.status # "absent" /\ row.score = sc
  BY <1>b DEF IsUpsert, Statuses
<1>3. CalculateScore(Mode, ReadsResp(r)) # Null => row.score = CalculateScore(Mode, ReadsResp(r))
  BY <1>2, <1>c DEF SyncOK, Rated
<1>4. IsParticipantTable(ReadsPart(r)) /\ AtMostOne(ReadsPart(r))
  BY <1>b DEF TypeOK, ReadsPart, PairInv, PairOK, InTransaction, InTx, TxLabels, ControlOK
<1> HIDE DEF row
<1>5. Rated(ReadsResp(r), [ReadsPart(r) EXCEPT ![i] = row])
  BY <1>2, <1>3, <1>4, RatedByWrite
<1>6. CASE InTx(r)
  <2>1. UNCHANGED participants /\ viewPart' = [viewPart EXCEPT ![r][i] = row]
    BY <1>6 DEF WriteParticipant, row
  <2>2. viewPart'[r] = [viewPart[r] EXCEPT ![i] = row]
    BY <1>b, <2>1 DEF TypeOK
  <2>3. Rated(viewResp[r], viewPart'[r])
    BY <1>5, <1>6, <2>2 DEF ReadsResp, ReadsPart
  <2>4. InTransaction(r) /\ input[r].op # "recalculate"
    BY <1>b, <1>6 DEF InTransaction, InTx, TxLabels, ControlOK
  <2>5. GradesMarked(viewResp[r]) /\ Unselected(viewResp[r])
    BY <1>c, <2>4 DEF SyncOK, Raising
  <2>6. SyncOK(r)'
    BY <1>1, <2>3, <2>5 DEF SyncOK
  <2> QED
    BY <2>1, <2>6, SyncCommitted
<1>7. CASE ~InTx(r)
  <2>1. participants' = [participants EXCEPT ![i] = row]
    BY <1>7 DEF WriteParticipant, row
  <2>2. Rated(responses, participants')
    BY <1>5, <1>7, <2>1 DEF ReadsResp, ReadsPart
  <2>3. pc'[r] = "done"
    BY <1>b, <1>1, <1>7 DEF ControlOK, InTx
  <2> QED
    BY <1>c, <2>2, <2>3, SyncOutside DEF TxLabels
<1> QED
  BY <1>6, <1>7

\* What storeResponse makes of its view.  An answer that is not worth a rescoring leaves
\* the score of the view alone: the row could not be scored before and cannot be now.
LEMMA SyncSave ==
    ASSUME IInv, PairInv, SyncInv, NEW r \in Requests, SaveResponse(r), ~Fail(r)
    PROVE  SyncOK(r)'
<1> DEFINE q == input[r].q
           view == viewResp[r]
           loaded == view[q]
           answer == StoredAnswer(input[r])
           model == [(IF loaded = NoRow THEN NewResponse ELSE loaded) EXCEPT !.answer = answer]
           new == [view EXCEPT ![q] = model]
<1>b. TypeOK /\ ControlOK(r) /\ SyncOK(r)
  BY DEF IInv, RequestOK, SyncInv
<1>1. /\ pc[r] = "save" /\ input[r].op = "store" /\ input[r] \in Inputs /\ q \in Questions
      /\ InTransaction(r)
  BY <1>b, InputsAssumption DEF SaveResponse, ControlOK, IsInput, InTransaction, TxLabels
<1>2. /\ IF loaded = NoRow
         THEN responses[q] = NoRow /\ WriteResponse(r, q, model)
         ELSE IF loaded.answer = answer
         THEN UNCHANGED <<respLock, viewResp>>
         ELSE WriteResponse(r, q, [CurrentResponse(r, q) EXCEPT !.answer = answer])
      /\ Goto(r, IF ShouldCalculateScore(q, model) THEN "score" ELSE "ensure")
      /\ UNCHANGED <<tables, partLock, input, viewPart, todo, found>>
  BY DEF SaveResponse
<1>3. /\ pc'[r] = IF ShouldCalculateScore(q, model) THEN "score" ELSE "ensure"
      /\ input' = input /\ viewPart' = viewPart
  BY <1>b, <1>2 DEF Goto, TypeOK
<1>4. view \in [Questions -> ResponseRow \cup {NoRow}] /\ loaded \in ResponseRow \cup {NoRow}
  BY <1>b, <1>1 DEF TypeOK, ResponseTable
<1>5. model.answer = answer /\ model # NoRow
  <2>1. answer \in Texts \cup Selections \cup {Null}
    BY <1>1, StoredAnswerType
  <2> DEFINE base == IF loaded = NoRow THEN NewResponse ELSE loaded
  <2>2. base \in ResponseRow
    BY <1>4, NewResponseType
  <2> HIDE DEF base, answer
  <2>3. [base EXCEPT !.answer = answer] \in ResponseRow
    BY <2>1, <2>2, RowEdits
  <2>4. [base EXCEPT !.answer = answer].answer = answer
    BY <2>2 DEF ResponseRow
  <2> QED
    BY <2>3, <2>4, NoRowAssumption DEF base
<1>6. IF loaded = NoRow THEN model.grade = Null /\ ~model.graded
      ELSE model.grade = loaded.grade /\ model.graded = loaded.graded
  BY <1>4 DEF NewResponse, ResponseRow
<1>7. CurrentResponse(r, q) = loaded
  BY <1>1 DEF CurrentResponse, PairInv, ViewIsCurrent
<1>8. viewResp'[r] = new
  <2>1. CASE loaded = NoRow
    BY <1>b, <1>2, <2>1 DEF WriteResponse, TypeOK
  <2>2. CASE loaded # NoRow /\ loaded.answer = answer
    <3>1. model = loaded
      BY <1>4, <2>2 DEF ResponseRow
    <3> QED
      BY <1>2, <1>4, <2>2, <3>1
  <2>3. CASE loaded # NoRow /\ loaded.answer # answer
    BY <1>b, <1>2, <1>7, <2>3 DEF WriteResponse, TypeOK
  <2> QED
    BY <2>1, <2>2, <2>3
<1>9. new[q] = model /\ \A p \in Questions \ {q} : new[p] = view[p]
  BY <1>1, <1>4
<1>10. GradesMarked(view) /\ Unselected(view) /\ Rated(view, viewPart[r])
  BY <1>b, <1>1 DEF SyncOK, Raising
<1>11. ~Written(q) /\ answer # Null => answer.enc = "string"
  BY DEF StoredAnswer
<1> HIDE DEF model, new, answer
<1>12. GradesMarked(new)
  BY <1>1, <1>6, <1>9, <1>10 DEF GradesMarked, Row
<1>13. StringsOnly(new)
  BY <1>5, <1>9, <1>10, <1>11 DEF Unselected, StringsOnly, Row, Selected
<1>14. CASE ShouldCalculateScore(q, model)
  BY <1>1, <1>3, <1>8, <1>12, <1>13, <1>14 DEF SyncOK, Raising
<1>15. CASE ~ShouldCalculateScore(q, model)
  <2>1. ~model.graded /\ (~Written(q) => ~Selected(model))
    BY <1>15 DEF ShouldCalculateScore
  <2>2. Unselected(new)
    BY <1>9, <1>10, <2>1 DEF Unselected, Row
  <2>3. q \notin Scorable(view)
    BY <1>1, <1>6, <1>10, <2>1 DEF Scorable, GradesMarked, Unselected, Row
  <2>4. q \notin Scorable(new)
    BY <1>1, <1>9, <1>12, <2>1 DEF Scorable, GradesMarked, Row
  <2>5. \A p \in Questions \ {q} : p \in Scorable(view) <=> p \in Scorable(new)
    BY <1>9 DEF Scorable, Row
  <2>6. ScoredAlike(view, new)
    BY <1>9, <2>3, <2>4, <2>5 DEF ScoredAlike, Scorable
  <2>7. CalculateScore(Mode, new) = CalculateScore(Mode, view)
    BY <2>6, ScoreAlike
  <2>8. Rated(new, viewPart[r])
    BY <1>10, <2>7 DEF Rated
  <2> QED
    BY <1>1, <1>3, <1>8, <1>12, <1>15, <2>2, <2>8 DEF SyncOK
<1> QED
  BY <1>14, <1>15

\* A mark on a written row of the view, before the rescoring that follows it.
LEMMA SyncGrade ==
    ASSUME IInv, PairInv, SyncInv, NEW r \in Requests, GradeResponse(r)
    PROVE  SyncOK(r)'
<1>b. TypeOK /\ ControlOK(r) /\ SyncOK(r) /\ pc[r] = "grade" /\ input[r].op = "grade"
  BY DEF IInv, RequestOK, SyncInv, GradeResponse, ControlOK
<1>1. /\ GradesMarked(viewResp[r]) /\ Unselected(viewResp[r]) /\ Rated(viewResp[r], viewPart[r])
      /\ InTransaction(r)
  BY <1>b DEF SyncOK, Raising, InTransaction, TxLabels
<1>2. UNCHANGED <<input, viewPart>> /\ pc'[r] \in {"grade", "score"}
  BY <1>b DEF GradeResponse, Goto, TypeOK
<1>3. CASE UNCHANGED viewResp
  BY <1>1, <1>2, <1>3 DEF SyncOK
<1>4. CASE viewResp' # viewResp
  <2> DEFINE q == Head(todo[r]).q
             row == GradedRow(r, q, Head(todo[r]).mark)
  <2>1. todo[r] # <<>>
    BY <1>4 DEF GradeResponse
  <2>2. /\ Written(q) /\ Row(viewResp[r], q) /\ WriteResponse(r, q, row) /\ pc'[r] = "score"
    BY <1>b, <1>4, <2>1 DEF GradeResponse, Goto, TypeOK
  <2>3. Head(todo[r]) \in Marks
    BY <1>b, <2>1 DEF TypeOK
  <2>4. q \in Questions
    BY <2>3 DEF Marks
  <2>5. CurrentResponse(r, q) = viewResp[r][q]
    BY <1>1, <2>4 DEF CurrentResponse, PairInv, ViewIsCurrent
  <2>6. CurrentResponse(r, q) \in ResponseRow
    BY <1>b, <2>2, <2>4, <2>5 DEF TypeOK, ResponseTable, Row
  <2>7. row.graded
    BY <2>6 DEF GradedRow, ResponseRow
  <2> HIDE DEF q, row
  <2>8. viewResp'[r] = [viewResp[r] EXCEPT ![q] = row]
    BY <1>b, <2>2 DEF WriteResponse, TypeOK
  <2>9. viewResp'[r][q] = row /\ \A p \in Questions \ {q} : viewResp'[r][p] = viewResp[r][p]
    BY <1>b, <2>4, <2>8 DEF TypeOK, ResponseTable
  <2>10. GradesMarked(viewResp'[r])
    BY <1>1, <2>7, <2>9 DEF GradesMarked, Row
  <2>11. Unselected(viewResp'[r])
    BY <1>1, <2>2, <2>9 DEF Unselected, Row
  <2> QED
    BY <2>2, <2>10, <2>11 DEF SyncOK
<1> QED
  BY <1>3, <1>4

\* The score on its way to the row is one, and is none that means "leave it alone".
LEMMA SyncScore ==
    ASSUME IInv, RangeInv, SyncInv, NEW r \in Requests, ComputeScore(r), ~Fail(r)
    PROVE  SyncOK(r)'
<1> DEFINE score == CalculateScore(Mode, ReadsResp(r))
<1>b. TypeOK /\ ControlOK(r) /\ SyncOK(r) /\ pc[r] = "score"
  BY DEF IInv, RequestOK, SyncInv, ComputeScore
<1>1. /\ ~RaisesTypeError(ReadsResp(r)) /\ UNCHANGED <<tables, locks, input, views>>
      /\ IF score = Null THEN pc'[r] = upsert[r].next /\ UNCHANGED upsert
                         ELSE pc'[r] = "status" /\ upsert'[r].score = score
  BY <1>b DEF ComputeScore, Goto, TypeOK, IsUpsert
<1>2. ReadsResp(r)' = ReadsResp(r)
  BY <1>1 DEF ReadsResp, InTx, tables, views
<1>3. InTransaction(r) => ReadsResp(r) = viewResp[r] /\ GradesMarked(viewResp[r])
  BY <1>b DEF InTransaction, ReadsResp, InTx, SyncOK
<1>4. InTransaction(r) => Unselected(viewResp[r])
  <2> SUFFICES ASSUME InTransaction(r), Raising(r) PROVE Unselected(viewResp[r])
    BY <1>b DEF SyncOK
  <2>1. StringFree(viewResp[r])
    BY <1>1, <1>3, StringsRaise
  <2> QED
    BY <2>1 DEF Raising, StringFree, StringsOnly, Unselected
<1>5. /\ InTransaction(r)' => InTransaction(r)
      /\ viewResp'[r] = viewResp[r] /\ viewPart'[r] = viewPart[r]
  BY <1>b, <1>1 DEF InTransaction, TxLabels, views
<1> HIDE DEF score
<1>6. CASE score = Null
  <2>1. pc'[r] = upsert[r].next
    BY <1>1, <1>6
  <2>2. CASE InTransaction(r)
    <3>1. Rated(viewResp[r], viewPart[r])
      BY <1>3, <1>6, <2>2 DEF Rated, score
    <3>2. pc'[r] \in {"ensure", "grade", "commit", "done"}
      BY <1>b, <2>1 DEF TypeOK, IsUpsert
    <3> QED
      BY <1>3, <1>4, <1>5, <2>2, <3>1, <3>2 DEF SyncOK
  <2>3. CASE ~InTransaction(r)
    <3>1. pc'[r] = "done"
      BY <1>b, <2>1, <2>3 DEF ControlOK, InTransaction, TxLabels
    <3> QED
      BY <3>1, SyncOutside DEF TxLabels
  <2> QED
    BY <2>2, <2>3
<1>7. CASE score # Null
  <2>1. pc'[r] = "status" /\ upsert'[r].score = score
    BY <1>1, <1>7
  <2> QED
    BY <1>2, <1>3, <1>4, <1>5, <1>7, <2>1 DEF SyncOK, score
<1> QED
  BY <1>6, <1>7

\* From the computed status to the write the score stays what it is.
LEMMA SyncOnTheWay ==
    ASSUME IInv, RangeInv, SyncInv, NEW r \in Requests, ComputeStatus(r) \/ Exists(r)
    PROVE  SyncOK(r)'
<1>b. TypeOK /\ ControlOK(r) /\ SyncOK(r)
  BY DEF IInv, RequestOK, SyncInv
<1>1. /\ UNCHANGED <<tables, locks, input, views>> /\ upsert'[r].score = upsert[r].score
      /\ \/ pc[r] = "status" /\ pc'[r] = "exists"
         \/ pc[r] = "exists" /\ pc'[r] = "write"
  BY <1>b DEF ComputeStatus, Exists, Goto, TypeOK, IsUpsert
<1>2. ReadsResp(r)' = ReadsResp(r) /\ ReadsPart(r)' = ReadsPart(r)
  BY <1>1 DEF ReadsResp, ReadsPart, InTx, tables, views
<1>3. pc[r] = "status" => upsert[r].score # Keep
  <2> SUFFICES ASSUME pc[r] = "status" PROVE CalculateScore(Mode, ReadsResp(r)) # Keep
    BY <1>b DEF SyncOK
  <2>1. ReadsResp(r) \in ResponseTable /\ SelectionsOK(ReadsResp(r))
    BY <1>b DEF ReadsResp, TypeOK, RangeInv
  <2> QED
    BY <2>1, TablesOK, ScoreIsPercentage, ModeAssumption, KeepAssumption
<1>4. /\ InTransaction(r)' <=> InTransaction(r)
      /\ viewResp'[r] = viewResp[r] /\ pc[r] # "score"
  BY <1>1 DEF InTransaction, TxLabels, views
<1>5. InTransaction(r)' => GradesMarked(viewResp'[r]) /\ Unselected(viewResp'[r])
  BY <1>b, <1>4 DEF SyncOK, Raising
<1> QED
  BY <1>b, <1>1, <1>2, <1>3, <1>5 DEF SyncOK

LEMMA SyncStep ==
    ASSUME NoFix, OneWriter, OneWriter', IInv, RangeInv, PairInv, SyncInv, NEW r \in Requests,
           Start(r) \/ Step(r) \/ Crash(r)
    PROVE  SyncInv'
<1>b. TypeOK /\ ControlOK(r) /\ SyncOK(r) /\ pc[r] # "fix" /\ IsUpsert(upsert[r])
  BY DEF IInv, RequestOK, SyncInv, RangeInv, TypeOK
<1>c. Rated(responses, participants) /\ GradesMarked(responses) /\ Unselected(responses)
  BY DEF SyncInv
<1>e. ASSUME NEW l, Goto(r, l) PROVE pc'[r] = l /\ \A s \in Requests \ {r} : pc'[s] = pc[s]
  BY <1>b, <1>e DEF Goto, TypeOK
<1>f. ASSUME NEW l, Goto(r, l), SyncOK(r)',
             Rated(responses', participants'), GradesMarked(responses'), Unselected(responses')
      PROVE  SyncInv'
  BY <1>e, <1>f, SyncAssemble
\* A step that commits nothing.
<1>g. ASSUME NEW l, Goto(r, l), UNCHANGED <<responses, participants>>, SyncOK(r)' PROVE SyncInv'
  BY <1>f, <1>g, SyncCommitted
<1>1. CASE Start(r)
  <2>1. PICK i \in Inputs :
           /\ input' = [input EXCEPT ![r] = i]
           /\ Goto(r, IF i.op # "recalculate" THEN "load"
                      ELSE IF i.fix THEN "fix" ELSE IF i.inScope THEN "score" ELSE "done")
    BY <1>1 DEF Start
  <2>2. pc'[r] \in {"load", "done"} \/ (i.op = "recalculate" /\ pc'[r] = "score")
    BY <1>e, <2>1 DEF NoFix
  <2>3. input'[r] = i
    BY <1>b, <2>1 DEF TypeOK
  <2>4. SyncOK(r)'
    BY <2>2, <2>3 DEF SyncOK, InTransaction, TxLabels
  <2> QED
    BY <1>1, <1>g, <2>1, <2>4 DEF Start, tables
<1>2. CASE Load(r)
  <2>1. /\ Goto(r, IF input[r].op = "store" THEN "save" ELSE "grade")
        /\ UNCHANGED <<responses, participants, input>>
        /\ viewResp'[r] = responses /\ viewPart'[r] = participants
    BY <1>b, <1>2 DEF Load, TypeOK, tables
  <2>2. pc'[r] \in {"save", "grade"}
    BY <1>e, <2>1
  <2>3. SyncOK(r)'
    BY <1>c, <2>1, <2>2 DEF SyncOK
  <2> QED
    BY <1>g, <2>1, <2>3
<1>3. ASSUME Fail(r) \/ Crash(r) PROVE SyncInv'
  <2>1. UNCHANGED <<responses, participants>> /\ (Goto(r, "error") \/ Goto(r, "crashed"))
    BY <1>3 DEF Fail, Crash, tables
  <2>2. SyncOK(r)'
    BY <1>e, <2>1, SyncOutside DEF TxLabels
  <2> QED
    BY <1>g, <2>1, <2>2
<1>4. CASE SaveResponse(r) /\ ~Fail(r)
  <2>1. UNCHANGED <<responses, participants>> /\ (Goto(r, "score") \/ Goto(r, "ensure"))
    BY <1>4 DEF SaveResponse, tables
  <2> QED
    BY <1>4, <1>g, <2>1, SyncSave
<1>5. CASE EnsureParticipant(r)
  <2>1. /\ Goto(r, "exists") /\ UNCHANGED <<responses, participants, input, views>>
        /\ upsert'[r].score = Keep /\ input[r].op = "store"
    BY <1>b, <1>5 DEF EnsureParticipant, TypeOK, tables, ControlOK
  <2>2. pc'[r] = "exists" /\ pc[r] = "ensure"
    BY <1>5, <1>e, <2>1 DEF EnsureParticipant
  <2>3. Rated(viewResp[r], viewPart[r]) /\ GradesMarked(viewResp[r]) /\ Unselected(viewResp[r])
    BY <1>b, <2>1, <2>2 DEF SyncOK, InTransaction, TxLabels, Raising
  <2>4. SyncOK(r)'
    BY <2>1, <2>2, <2>3 DEF SyncOK, ReadsResp, ReadsPart, InTx, views
  <2> QED
    BY <1>g, <2>1, <2>4
<1>6. CASE GradeResponse(r)
  <2>1. UNCHANGED <<responses, participants>> /\ (Goto(r, "score") \/ UNCHANGED pc)
    BY <1>6 DEF GradeResponse, tables
  <2>2. Goto(r, "score") \/ Goto(r, pc[r])
    BY <1>b, <2>1 DEF Goto, TypeOK
  <2> QED
    BY <1>6, <1>g, <2>1, <2>2, SyncGrade
<1>7. CASE ComputeScore(r) /\ ~Fail(r)
  <2>1. UNCHANGED <<responses, participants>> /\ (Goto(r, "status") \/ Goto(r, upsert[r].next))
    BY <1>7 DEF ComputeScore, tables
  <2> QED
    BY <1>7, <1>g, <2>1, SyncScore
<1>8. CASE ComputeStatus(r) \/ Exists(r)
  <2>1. UNCHANGED <<responses, participants>> /\ (Goto(r, "exists") \/ Goto(r, "write"))
    BY <1>8 DEF ComputeStatus, Exists, tables
  <2> QED
    BY <1>8, <1>g, <2>1, SyncOnTheWay
<1>9. CASE InsertParticipant(r)
  <2> DEFINE sc == IF upsert[r].score = Keep THEN Null ELSE upsert[r].score
  <2>1. /\ pc[r] = "write" /\ ~found[r] /\ nextId \in RowIds
        /\ WriteParticipant(r, nextId, [status |-> upsert[r].status, score |-> sc])
        /\ UNCHANGED <<responses, viewResp, input>> /\ Goto(r, upsert[r].next)
    BY <1>9 DEF InsertParticipant
  <2>2. \A j \in RowIds : ~Listed(ReadsPart(r), j)
    BY <2>1 DEF PairInv, PairOK
  <2>3. upsert[r].score # Keep => sc = upsert[r].score
    OBVIOUS
  <2> HIDE DEF sc
  <2> QED
    BY <1>f, <2>1, <2>2, <2>3, SyncWrite
<1>10. CASE UpdateParticipant(r)
  <2> DEFINE sc(i) == IF upsert[r].score = Keep THEN CurrentParticipant(r, i).score
                      ELSE upsert[r].score
  <2>1. /\ pc[r] = "write" /\ UNCHANGED <<responses, viewResp, input>> /\ Goto(r, upsert[r].next)
    BY <1>10 DEF UpdateParticipant
  <2>2. PICK i \in RowIds :
           /\ IsFirst(i)
           /\ WriteParticipant(r, i, [status |-> upsert[r].status, score |-> sc(i)])
    BY <1>10 DEF UpdateParticipant
  <2>3. partLock[i] \in {r, Nobody}
    BY <2>2 DEF WriteParticipant
  <2>4. Listed(ReadsPart(r), i)
    BY <2>1, <2>2, <2>3, UpdatesListed
  <2>5. CurrentParticipant(r, i).score = ReadsPart(r)[i].score
    <3>1. CASE InTx(r)
      <4>1. InTransaction(r)
        BY <1>b, <2>1, <3>1 DEF InTransaction, InTx, TxLabels, ControlOK
      <4> QED
        BY <3>1, <4>1 DEF CurrentParticipant, ReadsPart, SyncInv, ScoresCurrent
    <3>2. CASE ~InTx(r)
      <4>1. partLock[i] # r
        BY <3>2, HoldsNothing DEF IInv, InTransaction, InTx
      <4> QED
        BY <3>2, <4>1 DEF CurrentParticipant, ReadsPart
    <3> QED
      BY <3>1, <3>2
  <2>6. /\ upsert[r].score # Keep => sc(i) = upsert[r].score
        /\ upsert[r].score = Keep => sc(i) = ReadsPart(r)[i].score
    BY <2>5
  <2> HIDE DEF sc
  <2> QED
    BY <1>f, <2>1, <2>2, <2>4, <2>6, SyncWrite
<1>11. CASE Commit(r)
  <2>1. /\ Goto(r, "submit") \/ Goto(r, "done")
        /\ responses' = [q \in Questions |-> CurrentResponse(r, q)]
        /\ \A i \in RowIds : participants'[i] = CurrentParticipant(r, i)
    BY <1>11 DEF Commit
  <2>2. InTransaction(r) /\ pc[r] = "commit"
    BY <1>b, <1>11 DEF Commit, ControlOK, InTransaction, TxLabels
  <2>3. \A q \in Questions : CurrentResponse(r, q) = viewResp[r][q]
    BY <2>2 DEF PairInv, ViewIsCurrent, CurrentResponse
  <2>4. viewResp[r] = [q \in Questions |-> viewResp[r][q]]
    BY <1>b DEF TypeOK, ResponseTable
  <2>5. responses' = viewResp[r]
    BY <2>1, <2>3, <2>4
  <2>6. \A i \in RowIds : /\ Listed(participants', i) <=> Listed(viewPart[r], i)
                          /\ participants'[i].score = viewPart[r][i].score
    BY <2>1, <2>2 DEF PairInv, ViewIsCurrent, SyncInv, ScoresCurrent, CurrentParticipant, Listed
  <2>7. GradesMarked(viewResp[r]) /\ Unselected(viewResp[r]) /\ Rated(viewResp[r], viewPart[r])
    BY <1>b, <2>2 DEF SyncOK, Raising
  <2>8. Rated(viewResp[r], participants')
    BY <2>6, <2>7 DEF Rated
  <2>9. SyncOK(r)'
    BY <1>e, <2>1, SyncOutside DEF TxLabels
  <2> QED
    BY <1>f, <2>1, <2>5, <2>7, <2>8, <2>9
<1>12. CASE Submit(r)
  <2>1. /\ Goto(r, "done") /\ UNCHANGED responses
        /\ \A i \in RowIds : participants'[i] = IF Listed(participants, i)
                                                THEN SetCompleted(participants[i])
                                                ELSE participants[i]
    BY <1>12 DEF Submit
  <2>2. ASSUME NEW i \in RowIds
        PROVE  /\ Listed(participants', i) <=> Listed(participants, i)
               /\ participants'[i].score = participants[i].score
    <3>1. participants[i] = [status |-> participants[i].status, score |-> participants[i].score]
      BY <1>b DEF TypeOK, IsParticipantTable
    <3>2. /\ SetCompleted(participants[i]).status = "completed"
          /\ SetCompleted(participants[i]).score = participants[i].score
      BY <3>1 DEF SetCompleted
    <3> QED
      BY <2>1, <3>2 DEF Listed
  <2>3. Rated(responses', participants')
    BY <1>c, <2>1, <2>2 DEF Rated
  <2>4. SyncOK(r)'
    BY <1>e, <2>1, SyncOutside DEF TxLabels
  <2> QED
    BY <1>c, <1>f, <2>1, <2>3, <2>4
<1>13. ~FixOldScaleScores(r)
  BY <1>b DEF FixOldScaleScores
<1> QED
  BY <1>1, <1>2, <1>3, <1>4, <1>5, <1>6, <1>7, <1>8, <1>9, <1>10, <1>11, <1>12, <1>13
  DEF Step, DeadlockVictim

LEMMA SyncNext ==
    ASSUME NoFix, OneWriter, OneWriter', IInv, RangeInv, PairInv, SyncInv, [Next]_vars
    PROVE  SyncInv'
<1>1. CASE UNCHANGED vars
  BY <1>1 DEF SyncInv, SyncOK, ScoresCurrent, Rated, GradesMarked, Unselected, StringsOnly, Raising,
     InTransaction, ReadsResp, ReadsPart, InTx, Listed, Row, vars, tables, locks, frames, views
<1> QED
  BY <1>1, SyncStep DEF Next, Finished

\* "... triggers recalculation so scores stay in sync": where no two transactions of the
\* pair overlap, however requests fail and die, and whatever they do outside of their
\* transactions, the stored score is that of the stored responses.
THEOREM SerialScoresKeepInSync ==
    ASSUME NoFix,
           ScoresOK(SeededParticipants), AtMostOne(SeededParticipants),
           Rated(SeededResponses, SeededParticipants),
           GradesMarked(SeededResponses), Unselected(SeededResponses)
    PROVE  Spec /\ []OneWriter => []ScoresStayInSync
<1>1. Init => RangeInv /\ PairInv /\ SyncInv
  <2> SUFFICES ASSUME Init PROVE RangeInv /\ PairInv /\ SyncInv
    OBVIOUS
  <2>1. SyncInv
    BY DEF Init, SyncInv, SyncOK, ScoresCurrent, InTransaction, TxLabels
  <2> QED
    BY <2>1, RangeInit, PairInit
<1>2. OneWriter /\ OneWriter' /\ IInv /\ RangeInv /\ PairInv /\ SyncInv /\ [Next]_vars
      => RangeInv' /\ PairInv' /\ SyncInv'
  BY RangeNext, PairNext, SyncNext
<1>3. SyncInv => ScoresStayInSync
  BY DEF SyncInv, Rated, ScoresStayInSync
<1> QED
  BY <1>1, <1>2, <1>3, Invariance, PTL DEF Spec

\* In particular where requests do not overlap at all, as in the run.
THEOREM ScoresKeepInSync ==
    ASSUME NoFix, MaxConcurrent = 1,
           ScoresOK(SeededParticipants), AtMostOne(SeededParticipants),
           Rated(SeededResponses, SeededParticipants),
           GradesMarked(SeededResponses), Unselected(SeededResponses)
    PROVE  Spec => []ScoresStayInSync
BY OneRunsAlone, SerialScoresKeepInSync, PTL
=============================================================================
