----------------------- MODULE AssessmentScoringProofs -----------------------
(***************************************************************************)
(* Proofs about AssessmentScoring, for every number of requests, every     *)
(* assessment and every set of inputs.                                     *)
(***************************************************************************)
EXTENDS AssessmentScoring, FiniteSetTheorems, TLAPS

-----------------------------------------------------------------------------
(***************************************************************************)
(* The inductive invariant                                                 *)
(***************************************************************************)
TxLabels == {"save", "grade", "score", "status", "exists", "write", "ensure", "commit"}

\* Where a request can be, by what it asks for, and where its next
\* updateOrInsert returns to.
ControlOK(r) ==
    /\ pc[r] = "idle" \/ input[r] \in Inputs
    /\ pc[r] \in {"idle", "fix"} => upsert[r].next = "done"
    /\ pc[r] \in {"save", "ensure", "submit"} => input[r].op = "store"
    /\ pc[r] = "grade" => input[r].op = "grade"
    /\ pc[r] \in {"load", "commit"} => input[r].op \in {"store", "grade"}
    /\ pc[r] = "fix" => input[r].op = "recalculate"
    /\ pc[r] \in {"score", "status"} =>
          \/ input[r].op = "store" /\ upsert[r].next = "ensure"
          \/ input[r].op = "grade" /\ upsert[r].next \in {"grade", "commit"}
          \/ input[r].op = "recalculate" /\ upsert[r].next = "done"
    /\ pc[r] \in {"exists", "write"} =>
          \/ input[r].op = "store" /\ upsert[r].next \in {"ensure", "commit"}
          \/ input[r].op = "grade" /\ upsert[r].next \in {"grade", "commit"}
          \/ input[r].op = "recalculate" /\ upsert[r].next = "done"

\* Rows are held by requests inside a transaction.
InTransaction(r) == pc[r] \in TxLabels /\ input[r].op \in {"store", "grade"}
OwnersOK ==
    \A s \in Requests :
        /\ \A q \in Questions : respLock[q] = s => InTransaction(s)
        /\ \A i \in RowIds : partLock[i] = s => InTransaction(s) /\ Listed(viewPart[s], i)

\* What a transaction may have made of a response row that it holds: the answer
\* it was asked to store, or a mark, on the committed version.
Answered(r, q) ==
    /\ q = input[r].q
    /\ viewResp[r][q] = [(IF Row(responses, q) THEN responses[q] ELSE NewResponse)
                            EXCEPT !.answer = StoredAnswer(input[r])]
Marked(r, q) ==
    /\ Written(q) /\ Row(responses, q)
    /\ \E m \in Grades \cup {Null} :
          viewResp[r][q] = [responses[q] EXCEPT !.graded = TRUE, !.grade = m]
HeldRowsOK(r) ==
    \A q \in Questions : respLock[q] = r =>
        \/ input[r].op = "store" /\ Answered(r, q)
        \/ input[r].op = "grade" /\ Marked(r, q)

\* A snapshot falls behind the committed rows, never ahead of them: rows are
\* not deleted and a graded_at is not taken back.
SnapshotOK(r) ==
    InTransaction(r) =>
        \A q \in Questions : respLock[q] # r /\ Row(viewResp[r], q) =>
            /\ Row(responses, q)
            /\ viewResp[r][q].graded => responses[q].graded

\* A selection as a JSON string exists nowhere but in the transaction that is
\* about to compute a score from it.
StringFree(tbl) ==
    \A q \in Questions : ~Written(q) /\ Row(tbl, q) /\ Selected(tbl[q])
                         => tbl[q].answer.enc # "string"
StringsOK(r) == StringFree(viewResp[r]) \/ (pc[r] = "score" /\ input[r].op = "store")

\* Wherever a request carries the status completed, the rows it will leave
\* behind are complete.
LeavesComplete(r) == Complete([q \in Questions |-> CurrentResponse(r, q)])
EarnedOK(r) ==
    /\ pc[r] \in {"exists", "write"} /\ upsert[r].status = "completed" => LeavesComplete(r)
    /\ \A i \in RowIds :
          partLock[i] = r /\ IsCompleted(viewPart[r][i]) /\ ~IsCompleted(participants[i])
          => LeavesComplete(r)

\* A storeResponse about to commit has written a participant row.
ListsOK(r) ==
    pc[r] = "commit" /\ input[r].op = "store" => \E i \in RowIds : partLock[i] = r

RequestOK(r) ==
    /\ ControlOK(r) /\ HeldRowsOK(r) /\ SnapshotOK(r)
    /\ StringsOK(r) /\ EarnedOK(r) /\ ListsOK(r)

IInv ==
    /\ TypeOK
    /\ OwnersOK
    /\ NoStringSelection
    /\ AnsweredIsListed
    /\ \A r \in Requests : RequestOK(r)

-----------------------------------------------------------------------------
(***************************************************************************)
(* Type correctness of each action                                         *)
(***************************************************************************)
LEMMA InitType == Init => TypeOK
<1> SUFFICES ASSUME Init PROVE TypeOK
  OBVIOUS
<1>1. nextId \in Nat
  <2>1. IsFiniteSet({i \in RowIds : Listed(SeededParticipants, i)})
    BY FS_Subset, RowIdsAssumption
  <2>2. Cardinality({i \in RowIds : Listed(SeededParticipants, i)}) \in Nat
    BY <2>1, FS_CardinalityType
  <2> QED
    BY <2>2 DEF Init
<1>2. IsUpsert(NoUpsert)
  BY DEF IsUpsert, NoUpsert, Statuses
<1> QED
  BY <1>1, <1>2, SeedAssumption DEF Init, TypeOK, Labels

\* What Release leaves behind is typed, whoever releases.
LEMMA ReleaseType ==
    ASSUME TypeOK, NEW r \in Requests, Release(r)
    PROVE  /\ respLock' \in [Questions -> Requests \cup {Nobody}]
           /\ partLock' \in [RowIds -> Requests \cup {Nobody}]
           /\ viewResp' \in [Requests -> ResponseTable]
           /\ viewPart' = [x \in Requests |-> viewPart'[x]]
           /\ \A x \in Requests : IsParticipantTable(viewPart'[x])
           /\ todo' \in [Requests -> Seq(Marks)]
           /\ upsert' = [x \in Requests |-> upsert'[x]]
           /\ \A x \in Requests : IsUpsert(upsert'[x])
           /\ found' \in [Requests -> BOOLEAN]
<1>1. IsUpsert(NoUpsert)
  BY DEF IsUpsert, NoUpsert, Statuses
<1>2. \A x \in Requests : upsert'[x] = IF x = r THEN NoUpsert ELSE upsert[x]
  BY DEF TypeOK, Release
<1>3. \A x \in Requests : viewPart'[x] = IF x = r THEN SeededParticipants ELSE viewPart[x]
  BY DEF TypeOK, Release
<1>4. \A x \in Requests : IsUpsert(upsert'[x]) /\ IsParticipantTable(viewPart'[x])
  BY <1>1, <1>2, <1>3, SeedAssumption DEF TypeOK
<1>5. /\ upsert' = [x \in Requests |-> upsert'[x]]
      /\ viewPart' = [x \in Requests |-> viewPart'[x]]
  BY DEF TypeOK, Release
<1>6. todo' \in [Requests -> Seq(Marks)]
  BY DEF TypeOK, Release
<1> QED
  BY <1>4, <1>5, <1>6, SeedAssumption DEF TypeOK, Release

LEMMA StoredAnswerType ==
    ASSUME NEW i \in Inputs, i.op = "store"
    PROVE  StoredAnswer(i) \in Texts \cup Selections \cup {Null}
<1>1. IsInput(i)
  BY InputsAssumption
<1>2. i.q \in Questions
  BY <1>1 DEF IsInput
<1>3. CASE i.answer = Null
  BY <1>3 DEF StoredAnswer
<1>4. CASE i.answer # Null /\ Written(i.q)
  BY <1>1, <1>4 DEF IsInput, StoredAnswer
<1>5. CASE i.answer # Null /\ ~Written(i.q)
  <2>1. i.answer \in (SUBSET AnswersOf[i.q]) \ {{}}
    BY <1>1, <1>5 DEF IsInput
  <2>2. i.answer \in (SUBSET AllAnswers) \ {{}}
    BY <1>2, <2>1 DEF AllAnswers
  <2>3. [enc |-> "string", ids |-> i.answer] \in Selections
    BY <2>2 DEF Selections
  <2> QED
    BY <1>5, <2>3 DEF StoredAnswer
<1> QED
  BY <1>3, <1>4, <1>5

\* A new answer or a mark on a row gives a row.
LEMMA RowEdits ==
    ASSUME NEW row \in ResponseRow
    PROVE  /\ \A a \in Texts \cup Selections \cup {Null} :
                 [row EXCEPT !.answer = a] \in ResponseRow
           /\ \A m \in Grades \cup {Null} :
                 [row EXCEPT !.graded = TRUE, !.grade = m] \in ResponseRow
           /\ row # NoRow
  BY NoRowAssumption DEF ResponseRow

LEMMA NewResponseType == NewResponse \in ResponseRow
  BY DEF NewResponse, ResponseRow

LEMMA WriteResponseType ==
    ASSUME TypeOK, NEW r \in Requests, NEW q \in Questions, NEW row \in ResponseRow,
           WriteResponse(r, q, row)
    PROVE  /\ respLock' \in [Questions -> Requests \cup {Nobody}]
           /\ viewResp' \in [Requests -> ResponseTable]
  BY DEF TypeOK, WriteResponse, ResponseTable

LEMMA WriteParticipantType ==
    ASSUME TypeOK, NEW r \in Requests, NEW i \in RowIds,
           NEW st \in Statuses, NEW sc,
           WriteParticipant(r, i, [status |-> st, score |-> sc])
    PROVE  /\ partLock' \in [RowIds -> Requests \cup {Nobody}]
           /\ IsParticipantTable(participants')
           /\ viewPart' = [x \in Requests |-> viewPart'[x]]
           /\ \A x \in Requests : IsParticipantTable(viewPart'[x])
<1> DEFINE row == [status |-> st, score |-> sc]
<1>1. ASSUME NEW t, IsParticipantTable(t)
      PROVE  IsParticipantTable([t EXCEPT ![i] = row])
  BY <1>1 DEF IsParticipantTable
<1>2. CASE InTx(r)
  <2>1. \A x \in Requests :
           viewPart'[x] = IF x = r THEN [viewPart[r] EXCEPT ![i] = row] ELSE viewPart[x]
    BY <1>2 DEF TypeOK, WriteParticipant
  <2>2. \A x \in Requests : IsParticipantTable(viewPart'[x])
    BY <2>1, <1>1 DEF TypeOK
  <2> QED
    BY <1>2, <2>2 DEF TypeOK, WriteParticipant
<1>3. CASE ~InTx(r)
  BY <1>3, <1>1 DEF TypeOK, WriteParticipant
<1> QED
  BY <1>2, <1>3

\* Editing one field of an upsert gives an upsert.
LEMMA UpsertEdits ==
    ASSUME NEW u, IsUpsert(u)
    PROVE  /\ \A n \in {"ensure", "grade", "commit", "done"} : IsUpsert([u EXCEPT !.next = n])
           /\ \A st \in Statuses : IsUpsert([u EXCEPT !.status = st])
           /\ \A sc : IsUpsert([u EXCEPT !.score = sc])
<1> DEFINE Rec(a, b, c) == [score |-> a, status |-> b, next |-> c]
<1>1. u = Rec(u.score, u.status, u.next)
  BY DEF IsUpsert
<1>2. ASSUME NEW n PROVE [u EXCEPT !.next = n] = Rec(u.score, u.status, n)
  BY <1>1
<1>3. ASSUME NEW st PROVE [u EXCEPT !.status = st] = Rec(u.score, st, u.next)
  BY <1>1
<1>4. ASSUME NEW sc PROVE [u EXCEPT !.score = sc] = Rec(sc, u.status, u.next)
  BY <1>1
<1>5. \A a, b, c : b \in Statuses /\ c \in {"ensure", "grade", "commit", "done"}
                   => IsUpsert(Rec(a, b, c))
  BY DEF IsUpsert
<1>6. u.status \in Statuses /\ u.next \in {"ensure", "grade", "commit", "done"}
  BY DEF IsUpsert
<1> HIDE DEF Rec
<1> QED
  BY <1>2, <1>3, <1>4, <1>5, <1>6

\* Setting the upsert of one request keeps the type of the whole.
LEMMA UpsertType ==
    ASSUME TypeOK, NEW r \in Requests, NEW u, IsUpsert(u),
           upsert' = [upsert EXCEPT ![r] = u]
    PROVE  /\ upsert' = [x \in Requests |-> upsert'[x]]
           /\ \A x \in Requests : IsUpsert(upsert'[x])
  BY DEF TypeOK

LEMMA TypeStep ==
    ASSUME IInv, NEW r \in Requests, Start(r) \/ Step(r) \/ Crash(r)
    PROVE  TypeOK'
<1> USE DEF IInv, RequestOK
<1>1. CASE Start(r)
  <2>1. PICK i \in Inputs :
           /\ input' = [input EXCEPT ![r] = i]
           /\ Goto(r, IF i.op # "recalculate" THEN "load"
                      ELSE IF i.fix THEN "fix" ELSE IF i.inScope THEN "score" ELSE "done")
           /\ todo' = [todo EXCEPT ![r] = IF i.op = "grade" THEN i.marks ELSE <<>>]
    BY <1>1 DEF Start
  <2>2. (IF i.op = "grade" THEN i.marks ELSE <<>>) \in Seq(Marks)
    BY InputsAssumption DEF IsInput
  <2>3. pc' \in [Requests -> Labels] /\ input' \in [Requests -> Inputs \cup {NoInput}]
    BY <2>1 DEF TypeOK, Goto, Labels
  <2>4. todo' \in [Requests -> Seq(Marks)]
    BY <2>1, <2>2 DEF TypeOK
  <2> QED
    BY <1>1, <2>3, <2>4 DEF Start, TypeOK, tables, locks, views
<1>2. CASE Load(r)
  <2>1. \A x \in Requests : viewPart'[x] = IF x = r THEN participants ELSE viewPart[x]
    BY <1>2 DEF Load, TypeOK
  <2>2. \A x \in Requests : IsParticipantTable(viewPart'[x])
    BY <2>1 DEF TypeOK
  <2> QED
    BY <1>2, <2>2 DEF Load, TypeOK, Goto, Labels, tables, locks
<1>3. ASSUME Fail(r) PROVE TypeOK'
  BY <1>3, ReleaseType DEF Fail, Goto, TypeOK, Labels, tables
<1>4. CASE SaveResponse(r)
  <2> DEFINE q == input[r].q
             loaded == viewResp[r][q]
             answer == StoredAnswer(input[r])
             model == [(IF loaded = NoRow THEN NewResponse ELSE loaded) EXCEPT !.answer = answer]
  <2>1. /\ pc[r] = "save" /\ input[r].op = "store" /\ input[r] \in Inputs
        /\ q \in Questions /\ answer \in Texts \cup Selections \cup {Null}
    BY <1>4, StoredAnswerType, InputsAssumption DEF SaveResponse, ControlOK, IsInput
  <2>2. loaded \in ResponseRow \cup {NoRow} /\ responses[q] \in ResponseRow \cup {NoRow}
    BY <2>1 DEF TypeOK, ResponseTable
  <2>3. model \in ResponseRow
    BY <2>1, <2>2, RowEdits, NewResponseType
  <2>4. CASE Fail(r)
    BY <2>4, <1>3
  <2>5. CASE ~Fail(r)
    <3>1. /\ IF loaded = NoRow
             THEN responses[q] = NoRow /\ WriteResponse(r, q, model)
             ELSE IF loaded.answer = answer
             THEN UNCHANGED <<respLock, viewResp>>
             ELSE WriteResponse(r, q, [CurrentResponse(r, q) EXCEPT !.answer = answer])
          /\ Goto(r, IF ShouldCalculateScore(q, model) THEN "score" ELSE "ensure")
          /\ upsert' = [upsert EXCEPT ![r].next = "ensure"]
          /\ UNCHANGED <<tables, partLock, input, viewPart, todo, found>>
      BY <1>4, <2>5 DEF SaveResponse
    <3>2. loaded # NoRow => CurrentResponse(r, q) \in ResponseRow
      BY <2>1, <2>2 DEF SnapshotOK, InTransaction, TxLabels, Row, CurrentResponse
    <3>3. loaded # NoRow => [CurrentResponse(r, q) EXCEPT !.answer = answer] \in ResponseRow
      BY <2>1, <3>2, RowEdits
    <3>4. /\ respLock' \in [Questions -> Requests \cup {Nobody}]
          /\ viewResp' \in [Requests -> ResponseTable]
      BY <2>1, <2>3, <3>1, <3>3, WriteResponseType DEF TypeOK
    <3>5. IsUpsert([upsert[r] EXCEPT !.next = "ensure"])
      BY UpsertEdits DEF TypeOK
    <3>6. /\ upsert' = [x \in Requests |-> upsert'[x]]
          /\ \A x \in Requests : IsUpsert(upsert'[x])
      BY <3>1, <3>5, UpsertType
    <3> QED
      BY <3>1, <3>4, <3>6 DEF TypeOK, Goto, Labels, tables
  <2> QED
    BY <2>4, <2>5
<1>5. CASE EnsureParticipant(r)
  <2>1. IsUpsert([score |-> Keep, status |-> "in_progress", next |-> "commit"])
    BY DEF IsUpsert, Statuses
  <2> QED
    BY <1>5, <2>1, UpsertType DEF EnsureParticipant, TypeOK, Goto, Labels, tables, locks, views
<1>6. CASE GradeResponse(r)
  <2>1. CASE todo[r] = <<>>
    <3>1. IsUpsert([upsert[r] EXCEPT !.next = "commit"])
      BY UpsertEdits DEF TypeOK
    <3>2. /\ upsert' = [x \in Requests |-> upsert'[x]]
          /\ \A x \in Requests : IsUpsert(upsert'[x])
      BY <1>6, <2>1, <3>1, UpsertType DEF GradeResponse
    <3> QED
      BY <1>6, <2>1, <3>2 DEF GradeResponse, TypeOK, Goto, Labels, tables
  <2>2. CASE todo[r] # <<>>
    <3> DEFINE q == Head(todo[r]).q
               m == Head(todo[r]).mark
    <3>1. Head(todo[r]) \in Marks /\ Tail(todo[r]) \in Seq(Marks)
      BY <2>2 DEF TypeOK
    <3>2. q \in Questions /\ m \in Grades \cup {Null}
      BY <3>1 DEF Marks
    <3>3. todo' \in [Requests -> Seq(Marks)]
      BY <1>6, <2>2, <3>1 DEF GradeResponse, TypeOK
    <3>4. CASE Written(q) /\ Row(viewResp[r], q)
      <4>1. pc[r] = "grade" /\ input[r].op = "grade"
        BY <1>6 DEF GradeResponse, ControlOK
      <4>2. CurrentResponse(r, q) \in ResponseRow
        BY <3>2, <3>4, <4>1
           DEF SnapshotOK, InTransaction, TxLabels, Row, CurrentResponse, TypeOK, ResponseTable
      <4>3. GradedRow(r, q, m) \in ResponseRow
        BY <3>2, <4>2, RowEdits DEF GradedRow, ResponseRow
      <4>4. /\ respLock' \in [Questions -> Requests \cup {Nobody}]
            /\ viewResp' \in [Requests -> ResponseTable]
        BY <1>6, <2>2, <3>2, <3>4, <4>3, WriteResponseType DEF GradeResponse
      <4>5. IsUpsert([upsert[r] EXCEPT !.next = "grade"])
        BY UpsertEdits DEF TypeOK
      <4>6. /\ upsert' = [x \in Requests |-> upsert'[x]]
            /\ \A x \in Requests : IsUpsert(upsert'[x])
        BY <1>6, <2>2, <3>4, <4>5, UpsertType DEF GradeResponse
      <4> QED
        BY <1>6, <2>2, <3>3, <3>4, <4>4, <4>6 DEF GradeResponse, TypeOK, Goto, Labels, tables
    <3>5. CASE ~(Written(q) /\ Row(viewResp[r], q))
      BY <1>6, <2>2, <3>3, <3>5 DEF GradeResponse, TypeOK, tables
    <3> QED
      BY <3>4, <3>5
  <2> QED
    BY <2>1, <2>2
<1>7. CASE ComputeScore(r)
  <2>1. CASE Fail(r)
    BY <2>1, <1>3
  <2>2. CASE ~Fail(r)
    <3> DEFINE sc == CalculateScore(Mode, ReadsResp(r))
    <3>1. CASE sc = Null
      BY <1>7, <2>2, <3>1 DEF ComputeScore, TypeOK, IsUpsert, Goto, Labels, tables, locks, views
    <3>2. CASE sc # Null
      <4>1. IsUpsert([upsert[r] EXCEPT !.score = sc])
        BY UpsertEdits DEF TypeOK
      <4>2. /\ upsert' = [x \in Requests |-> upsert'[x]]
            /\ \A x \in Requests : IsUpsert(upsert'[x])
        BY <1>7, <2>2, <3>2, <4>1, UpsertType DEF ComputeScore
      <4> QED
        BY <1>7, <2>2, <3>2, <4>2 DEF ComputeScore, TypeOK, Goto, Labels, tables, locks, views
    <3> QED
      BY <3>1, <3>2
  <2> QED
    BY <2>1, <2>2
<1>8. CASE ComputeStatus(r)
  <2>1. DetermineStatus(ReadsResp(r)) \in Statuses
    BY DEF DetermineStatus, Statuses
  <2>2. IsUpsert([upsert[r] EXCEPT !.status = DetermineStatus(ReadsResp(r))])
    BY <2>1, UpsertEdits DEF TypeOK
  <2> QED
    BY <1>8, <2>2, UpsertType DEF ComputeStatus, TypeOK, Goto, Labels, tables, locks, views
<1>9. CASE Exists(r)
  BY <1>9 DEF Exists, TypeOK, Goto, Labels, tables, locks, views
<1>10. CASE InsertParticipant(r)
  <2>1. upsert[r].status \in Statuses /\ upsert[r].next \in Labels
    BY DEF TypeOK, IsUpsert, Labels
  <2> QED
    BY <1>10, <2>1, WriteParticipantType DEF InsertParticipant, TypeOK, Goto
<1>11. CASE UpdateParticipant(r)
  <2>1. upsert[r].status \in Statuses /\ upsert[r].next \in Labels
    BY DEF TypeOK, IsUpsert, Labels
  <2>2. PICK i \in RowIds :
           WriteParticipant(r, i, [status |-> upsert[r].status,
               score |-> IF upsert[r].score = Keep THEN CurrentParticipant(r, i).score
                         ELSE upsert[r].score])
    BY <1>11 DEF UpdateParticipant
  <2>3. /\ partLock' \in [RowIds -> Requests \cup {Nobody}]
        /\ IsParticipantTable(participants')
        /\ viewPart' = [x \in Requests |-> viewPart'[x]]
        /\ \A x \in Requests : IsParticipantTable(viewPart'[x])
    BY <2>1, <2>2, WriteParticipantType
  <2> QED
    BY <1>11, <2>1, <2>3 DEF UpdateParticipant, TypeOK, Goto
<1>12. CASE Commit(r)
  <2>1. responses' \in ResponseTable
    BY <1>12 DEF Commit, TypeOK, ResponseTable, CurrentResponse
  <2>2. IsParticipantTable(participants')
    <3>1. \A i \in RowIds : participants'[i] = CurrentParticipant(r, i)
      BY <1>12 DEF Commit
    <3> QED
      BY <1>12, <3>1 DEF Commit, TypeOK, IsParticipantTable, CurrentParticipant
  <2> QED
    BY <1>12, <2>1, <2>2, ReleaseType DEF Commit, Goto, TypeOK, Labels
<1>13. CASE Submit(r)
  <2>1. IsParticipantTable(participants')
    BY <1>13 DEF Submit, SetCompleted, TypeOK, IsParticipantTable, Statuses
  <2> QED
    BY <1>13, <2>1 DEF Submit, TypeOK, Goto, Labels, locks, frames, views
<1>14. CASE FixOldScaleScores(r)
  <2>1. IsParticipantTable(participants')
    BY <1>14 DEF FixOldScaleScores, FixRow, TypeOK, IsParticipantTable
  <2> QED
    BY <1>14, <2>1 DEF FixOldScaleScores, TypeOK, Goto, Labels, locks, frames, views
<1>15. CASE DeadlockVictim(r)
  BY <1>15, <1>3 DEF DeadlockVictim
<1>16. CASE Crash(r)
  BY <1>16, ReleaseType DEF Crash, Goto, TypeOK, Labels, tables
<1> QED
  BY <1>1, <1>2, <1>4, <1>5, <1>6, <1>7, <1>8, <1>9, <1>10, <1>11, <1>12, <1>13, <1>14,
     <1>15, <1>16 DEF Step

-----------------------------------------------------------------------------
(***************************************************************************)
(* The initial states                                                      *)
(***************************************************************************)
LEMMA InitInv == Init => IInv
<1> SUFFICES ASSUME Init PROVE IInv
  OBVIOUS
<1>1. TypeOK
  BY InitType
<1>2. OwnersOK
  BY NobodyAssumption DEF Init, OwnersOK
<1>3. NoStringSelection /\ AnsweredIsListed
  BY SeedAssumption DEF Init, NoStringSelection, AnsweredIsListed
<1>4. ASSUME NEW r \in Requests PROVE RequestOK(r)
  <2>1. pc[r] = "idle" /\ upsert[r] = NoUpsert /\ viewResp[r] = SeededResponses
    BY DEF Init
  <2>2. /\ \A q \in Questions : respLock[q] # r
        /\ \A i \in RowIds : partLock[i] # r
    BY NobodyAssumption DEF Init
  <2>3. StringFree(viewResp[r])
    BY <2>1, SeedAssumption DEF StringFree
  <2> QED
    BY <2>1, <2>2, <2>3 DEF RequestOK, ControlOK, HeldRowsOK, SnapshotOK, InTransaction,
       TxLabels, StringsOK, EarnedOK, ListsOK, NoUpsert
<1> QED
  BY <1>1, <1>2, <1>3, <1>4 DEF IInv

-----------------------------------------------------------------------------
(***************************************************************************)
(* What a step of one request may do to the others                         *)
(***************************************************************************)
\* Committed responses only grow: no row goes, no graded_at is taken back.
RowsGrow ==
    \A q \in Questions : Row(responses, q) =>
        /\ Row(responses', q)
        /\ responses[q].graded => responses'[q].graded

\* The step is none of s's, and leaves alone what s holds.
Bystander(s) ==
    /\ pc'[s] = pc[s] /\ input'[s] = input[s] /\ upsert'[s] = upsert[s]
    /\ viewResp'[s] = viewResp[s] /\ viewPart'[s] = viewPart[s]
    /\ \A q \in Questions : /\ respLock'[q] = s <=> respLock[q] = s
                            /\ respLock[q] = s => responses'[q] = responses[q]
    /\ \A i \in RowIds : /\ partLock'[i] = s <=> partLock[i] = s
                         /\ partLock[i] = s => participants'[i] = participants[i]

LEMMA HeldRowsKept ==
    ASSUME NEW s, HeldRowsOK(s), input'[s] = input[s], viewResp'[s] = viewResp[s],
           \A q \in Questions :
               respLock'[q] = s => respLock[q] = s /\ responses'[q] = responses[q]
    PROVE  HeldRowsOK(s)'
<1> SUFFICES ASSUME NEW q \in Questions, respLock'[q] = s
             PROVE  \/ input'[s].op = "store" /\ Answered(s, q)'
                    \/ input'[s].op = "grade" /\ Marked(s, q)'
  BY DEF HeldRowsOK
<1>1. /\ responses'[q] = responses[q] /\ input'[s] = input[s]
      /\ viewResp'[s] = viewResp[s] /\ respLock[q] = s
  OBVIOUS
<1>2. Answered(s, q) => Answered(s, q)'
  BY <1>1 DEF Answered, Row
<1>3. Marked(s, q) => Marked(s, q)'
  BY <1>1 DEF Marked, Row
<1> QED
  BY <1>1, <1>2, <1>3 DEF HeldRowsOK

LEMMA BystanderStep ==
    ASSUME NEW s \in Requests, RequestOK(s), Bystander(s), RowsGrow
    PROVE  RequestOK(s)'
<1>1. ControlOK(s)'
  BY DEF RequestOK, ControlOK, Bystander
<1>2. HeldRowsOK(s)'
  BY HeldRowsKept DEF RequestOK, Bystander
<1>3. SnapshotOK(s)'
  BY DEF RequestOK, SnapshotOK, InTransaction, Bystander, RowsGrow, Row
<1>4. StringsOK(s)'
  BY DEF RequestOK, StringsOK, StringFree, Bystander, Row
<1>5. LeavesComplete(s) => LeavesComplete(s)'
  BY DEF Bystander, RowsGrow, LeavesComplete, Complete, AllAnswered, AllGraded, Row,
         CurrentResponse
<1>6. EarnedOK(s)'
  BY <1>5 DEF RequestOK, EarnedOK, Bystander
<1>7. ListsOK(s)'
  BY DEF RequestOK, ListsOK, Bystander
<1> QED
  BY <1>1, <1>2, <1>3, <1>4, <1>6, <1>7 DEF RequestOK

\* Putting the parts of the next state together.
LEMMA Assemble ==
    ASSUME IInv, NEW r \in Requests, TypeOK', OwnersOK', NoStringSelection', AnsweredIsListed',
           RowsGrow, \A s \in Requests \ {r} : Bystander(s), RequestOK(r)'
    PROVE  IInv'
<1>1. \A s \in Requests \ {r} : RequestOK(s)'
  BY BystanderStep DEF IInv
<1> QED
  BY <1>1 DEF IInv

\* A request that holds nothing and is in no transaction has little to keep.
Outside(r) ==
    /\ pc[r] \notin TxLabels \/ input[r].op = "recalculate"
    /\ \A q \in Questions : respLock[q] # r
    /\ \A i \in RowIds : partLock[i] # r

LEMMA HoldsNothing ==
    ASSUME OwnersOK, NEW r \in Requests, ~InTransaction(r)
    PROVE  /\ \A q \in Questions : respLock[q] # r
           /\ \A i \in RowIds : partLock[i] # r
  BY NobodyAssumption DEF OwnersOK

LEMMA OutsideOK ==
    ASSUME NEW r \in Requests, Outside(r)', ControlOK(r)', StringFree(viewResp[r])',
           pc'[r] \notin {"exists", "write", "commit"}
    PROVE  RequestOK(r)'
  BY DEF Outside, RequestOK, HeldRowsOK, SnapshotOK, InTransaction, StringsOK, EarnedOK, ListsOK,
         TxLabels

-----------------------------------------------------------------------------
(***************************************************************************)
(* Steps that touch neither table nor lock                                 *)
(***************************************************************************)
LEMMA StartStep ==
    ASSUME IInv, TypeOK', NEW r \in Requests, Start(r) PROVE IInv'
<1>1. PICK i \in Inputs :
         /\ input' = [input EXCEPT ![r] = i]
         /\ Goto(r, IF i.op # "recalculate" THEN "load"
                    ELSE IF i.fix THEN "fix" ELSE IF i.inScope THEN "score" ELSE "done")
  BY DEF Start
<1>2. /\ pc[r] = "idle" /\ UNCHANGED <<tables, locks, views, upsert, found>>
  BY DEF Start
<1>3. /\ \A q \in Questions : respLock[q] # r
      /\ \A x \in RowIds : partLock[x] # r
  BY <1>2, HoldsNothing DEF IInv, InTransaction, TxLabels
<1>4. /\ \A s \in Requests \ {r} : pc'[s] = pc[s] /\ input'[s] = input[s]
      /\ input'[r] = i
      /\ pc'[r] = IF i.op # "recalculate" THEN "load"
                  ELSE IF i.fix THEN "fix" ELSE IF i.inScope THEN "score" ELSE "done"
  BY <1>1 DEF Goto, IInv, TypeOK
<1>5. i.op \in {"store", "grade", "recalculate"}
  BY InputsAssumption DEF IsInput
<1>6. OwnersOK'
  <2>1. \A s \in Requests \ {r} : InTransaction(s) => InTransaction(s)'
    BY <1>4 DEF InTransaction
  <2> QED
    BY <1>2, <1>3, <2>1 DEF IInv, TypeOK, OwnersOK, locks, views
<1>7. NoStringSelection' /\ AnsweredIsListed' /\ RowsGrow
  BY <1>2 DEF IInv, NoStringSelection, AnsweredIsListed, RowsGrow, tables, Row
<1>8. \A s \in Requests \ {r} : Bystander(s)
  BY <1>2, <1>4 DEF Bystander, tables, locks, views
<1>9. Outside(r)' /\ pc'[r] \notin {"exists", "write", "commit"}
  BY <1>2, <1>3, <1>4 DEF Outside, TxLabels, locks
<1>10. StringFree(viewResp[r])'
  BY <1>2 DEF IInv, RequestOK, StringsOK, StringFree, views
<1>11. ControlOK(r)'
  BY <1>2, <1>4, <1>5 DEF IInv, RequestOK, ControlOK
<1> QED
  BY <1>6, <1>7, <1>8, <1>9, <1>10, <1>11, OutsideOK, Assemble

LEMMA LoadStep ==
    ASSUME IInv, TypeOK', NEW r \in Requests, Load(r) PROVE IInv'
<1>1. /\ pc[r] = "load" /\ UNCHANGED <<tables, locks, input, upsert>>
      /\ \A s \in Requests \ {r} :
            pc'[s] = pc[s] /\ viewResp'[s] = viewResp[s] /\ viewPart'[s] = viewPart[s]
      /\ viewResp'[r] = responses /\ viewPart'[r] = participants
      /\ pc'[r] = IF input[r].op = "store" THEN "save" ELSE "grade"
  BY DEF Load, Goto, IInv, TypeOK
<1>2. /\ \A q \in Questions : respLock[q] # r
      /\ \A x \in RowIds : partLock[x] # r
  BY <1>1, HoldsNothing DEF IInv, InTransaction, TxLabels
<1>3. OwnersOK'
  <2>1. \A s \in Requests \ {r} : InTransaction(s) => InTransaction(s)'
    BY <1>1 DEF InTransaction
  <2> QED
    BY <1>1, <1>2, <2>1 DEF IInv, TypeOK, OwnersOK, locks
<1>4. NoStringSelection' /\ AnsweredIsListed' /\ RowsGrow
  BY <1>1 DEF IInv, NoStringSelection, AnsweredIsListed, RowsGrow, tables, Row
<1>5. \A s \in Requests \ {r} : Bystander(s)
  BY <1>1 DEF Bystander, tables, locks
<1>6. ControlOK(r)'
  BY <1>1 DEF IInv, RequestOK, ControlOK
<1>7. HeldRowsOK(r)' /\ EarnedOK(r)' /\ ListsOK(r)'
  BY <1>1, <1>2 DEF HeldRowsOK, EarnedOK, ListsOK, locks
<1>8. SnapshotOK(r)'
  BY <1>1 DEF SnapshotOK, tables, Row
<1>9. StringsOK(r)'
  BY <1>1 DEF IInv, NoStringSelection, StringsOK, StringFree
<1> QED
  BY <1>3, <1>4, <1>5, <1>6, <1>7, <1>8, <1>9, Assemble DEF RequestOK

\* Steps that only move on inside calculateAndUpdateScore and updateOrInsert.
LEMMA MoveStep ==
    ASSUME IInv, TypeOK', NEW r \in Requests,
           UNCHANGED <<tables, locks, input, views>>,
           \A s \in Requests \ {r} : pc'[s] = pc[s] /\ upsert'[s] = upsert[s],
           pc[r] \in TxLabels, pc'[r] \in TxLabels \/ input[r].op = "recalculate",
           ControlOK(r)', StringFree(viewResp[r]),
           pc'[r] \in {"exists", "write"} /\ upsert'[r].status = "completed" => LeavesComplete(r),
           ListsOK(r)'
    PROVE  IInv'
<1>1. OwnersOK'
  <2>1. InTransaction(r) => InTransaction(r)'
    BY DEF InTransaction
  <2>2. \A s \in Requests \ {r} : InTransaction(s) => InTransaction(s)'
    BY DEF InTransaction
  <2> QED
    BY <2>1, <2>2 DEF IInv, TypeOK, OwnersOK, locks, views
<1>2. NoStringSelection' /\ AnsweredIsListed' /\ RowsGrow
  BY DEF IInv, NoStringSelection, AnsweredIsListed, RowsGrow, tables, Row
<1>3. \A s \in Requests \ {r} : Bystander(s)
  BY DEF Bystander, tables, locks, views
<1>4. HeldRowsOK(r)'
  BY HeldRowsKept DEF IInv, RequestOK, tables, locks, views
<1>5. SnapshotOK(r)'
  <2>1. InTransaction(r)' => InTransaction(r)
    BY DEF InTransaction
  <2> QED
    BY <2>1 DEF IInv, RequestOK, SnapshotOK, Row, tables, locks, views
<1>6. StringsOK(r)'
  BY DEF StringsOK, StringFree, Row, views
<1>7. LeavesComplete(r)' <=> LeavesComplete(r)
  BY DEF LeavesComplete, CurrentResponse, Complete, AllAnswered, AllGraded, Row, tables, locks, views
<1>8. EarnedOK(r)'
  BY <1>7 DEF IInv, RequestOK, EarnedOK, tables, locks, views
<1> QED
  BY <1>1, <1>2, <1>3, <1>4, <1>5, <1>6, <1>8, Assemble DEF RequestOK

LEMMA EnsureStep ==
    ASSUME IInv, TypeOK', NEW r \in Requests, EnsureParticipant(r) PROVE IInv'
<1>1. /\ pc[r] = "ensure" /\ pc'[r] = "exists"
      /\ UNCHANGED <<tables, locks, input, views>>
      /\ upsert'[r] = [score |-> Keep, status |-> "in_progress", next |-> "commit"]
      /\ \A s \in Requests \ {r} : pc'[s] = pc[s] /\ upsert'[s] = upsert[s]
  BY DEF EnsureParticipant, Goto, IInv, TypeOK
<1>2. ControlOK(r)' /\ ListsOK(r)' /\ StringFree(viewResp[r])
  BY <1>1 DEF IInv, RequestOK, ControlOK, ListsOK, StringsOK
<1> QED
  BY <1>1, <1>2, MoveStep DEF TxLabels

\* The observer scores the view of its own transaction: if a selection stored
\* as a string is in it, the scoring fails.
LEMMA StringsRaise ==
    ASSUME NEW tbl, ~RaisesTypeError(tbl) PROVE StringFree(tbl)
  BY DEF RaisesTypeError, StringFree, Scorable, Row

LEMMA ScoreStep ==
    ASSUME IInv, TypeOK', NEW r \in Requests, ComputeScore(r), ~Fail(r) PROVE IInv'
<1>1. /\ pc[r] = "score" /\ ~RaisesTypeError(ReadsResp(r))
      /\ UNCHANGED <<tables, locks, input, views>>
      /\ pc'[r] \in {"status", upsert[r].next}
      /\ upsert'[r].next = upsert[r].next
      /\ \A s \in Requests \ {r} : pc'[s] = pc[s] /\ upsert'[s] = upsert[s]
  BY DEF ComputeScore, Goto, IInv, TypeOK, IsUpsert
<1>2. StringFree(viewResp[r])
  BY <1>1, StringsRaise DEF IInv, RequestOK, StringsOK, ReadsResp, InTx
<1>3. ControlOK(r)' /\ ListsOK(r)'
  BY <1>1 DEF IInv, RequestOK, ControlOK, ListsOK
<1>4. pc'[r] \in TxLabels \/ input[r].op = "recalculate"
  BY <1>1 DEF IInv, RequestOK, ControlOK, TxLabels
<1>5. pc'[r] \notin {"exists", "write"}
  BY <1>1 DEF IInv, RequestOK, ControlOK
<1> QED
  BY <1>1, <1>2, <1>3, <1>4, <1>5, MoveStep DEF TxLabels

\* determineStatus says completed of a snapshot: then what the request leaves
\* behind is complete, for the committed rows are ahead of the snapshot.
LEMMA StatusIsEarned ==
    ASSUME IInv, NEW r \in Requests, pc[r] = "status",
           DetermineStatus(ReadsResp(r)) = "completed"
    PROVE  LeavesComplete(r)
<1>1. Complete(ReadsResp(r))
  BY DEF DetermineStatus, Complete
<1>2. CASE input[r].op = "recalculate"
  <2>1. \A q \in Questions : respLock[q] # r
    BY <1>2, HoldsNothing DEF IInv, InTransaction
  <2> QED
    BY <1>1, <1>2, <2>1 DEF ReadsResp, InTx, LeavesComplete, CurrentResponse, Complete,
       AllAnswered, AllGraded, Row
<1>3. CASE input[r].op # "recalculate"
  <2>1. InTransaction(r) /\ ReadsResp(r) = viewResp[r]
    BY <1>3 DEF IInv, RequestOK, ControlOK, InTransaction, TxLabels, ReadsResp, InTx
  <2> QED
    BY <1>1, <2>1 DEF IInv, RequestOK, SnapshotOK, LeavesComplete, CurrentResponse, Complete,
       AllAnswered, AllGraded, Row
<1> QED
  BY <1>2, <1>3

LEMMA StatusStep ==
    ASSUME IInv, TypeOK', NEW r \in Requests, ComputeStatus(r) PROVE IInv'
<1>1. /\ pc[r] = "status" /\ pc'[r] = "exists"
      /\ UNCHANGED <<tables, locks, input, views>>
      /\ upsert'[r].next = upsert[r].next
      /\ upsert'[r].status = DetermineStatus(ReadsResp(r))
      /\ \A s \in Requests \ {r} : pc'[s] = pc[s] /\ upsert'[s] = upsert[s]
  BY DEF ComputeStatus, Goto, IInv, TypeOK, IsUpsert
<1>2. ControlOK(r)' /\ ListsOK(r)' /\ StringFree(viewResp[r])
  BY <1>1 DEF IInv, RequestOK, ControlOK, ListsOK, StringsOK
<1> QED
  BY <1>1, <1>2, StatusIsEarned, MoveStep DEF TxLabels

LEMMA ExistsStep ==
    ASSUME IInv, TypeOK', NEW r \in Requests, Exists(r) PROVE IInv'
<1>1. /\ pc[r] = "exists" /\ pc'[r] = "write"
      /\ UNCHANGED <<tables, locks, input, views, upsert>>
      /\ \A s \in Requests \ {r} : pc'[s] = pc[s]
  BY DEF Exists, Goto, IInv, TypeOK
<1>2. ControlOK(r)' /\ ListsOK(r)' /\ StringFree(viewResp[r])
  BY <1>1 DEF IInv, RequestOK, ControlOK, ListsOK, StringsOK
<1>3. upsert'[r].status = "completed" => LeavesComplete(r)
  BY <1>1 DEF IInv, RequestOK, EarnedOK
<1> QED
  BY <1>1, <1>2, <1>3, MoveStep DEF TxLabels

-----------------------------------------------------------------------------
(***************************************************************************)
(* Steps that write a row inside a transaction                             *)
(***************************************************************************)
\* A request writes one response row: onto a version at least as far as what
\* it had, in the form that HeldRowsOK allows.
LEMMA WriteResponseStep ==
    ASSUME IInv, TypeOK', NEW r \in Requests, InTransaction(r), InTransaction(r)',
           NEW q \in Questions, NEW row \in ResponseRow, WriteResponse(r, q, row),
           UNCHANGED <<tables, partLock, input, viewPart>>,
           \A s \in Requests \ {r} : pc'[s] = pc[s] /\ upsert'[s] = upsert[s],
           pc'[r] \notin {"exists", "write", "commit"}, ControlOK(r)',
           \/ input[r].op = "store" /\ Answered(r, q)'
           \/ input[r].op = "grade" /\ Marked(r, q)',
           CurrentResponse(r, q) # NoRow /\ CurrentResponse(r, q).graded => row.graded,
           StringFree(viewResp[r]),
           (~Written(q) /\ row.answer # Null /\ row.answer.enc = "string")
               => pc'[r] = "score" /\ input[r].op = "store"
    PROVE  IInv'
<1>1. /\ respLock[q] \in {r, Nobody}
      /\ \A x \in Questions : respLock'[x] = IF x = q THEN r ELSE respLock[x]
      /\ \A s \in Requests \ {r} : viewResp'[s] = viewResp[s]
      /\ \A x \in Questions : viewResp'[r][x] = IF x = q THEN row ELSE viewResp[r][x]
  BY DEF WriteResponse, IInv, TypeOK, ResponseTable
<1>2. OwnersOK'
  <2>1. \A s \in Requests \ {r} : InTransaction(s) => InTransaction(s)'
    BY DEF InTransaction
  <2> QED
    BY <1>1, <2>1, NobodyAssumption DEF IInv, OwnersOK
<1>3. NoStringSelection' /\ AnsweredIsListed' /\ RowsGrow
  BY DEF IInv, NoStringSelection, AnsweredIsListed, RowsGrow, tables, Row
<1>4. \A s \in Requests \ {r} : Bystander(s)
  BY <1>1, NobodyAssumption DEF Bystander, tables
<1>5. HeldRowsOK(r)'
  <2> SUFFICES ASSUME NEW x \in Questions, respLock'[x] = r
               PROVE  \/ input'[r].op = "store" /\ Answered(r, x)'
                      \/ input'[r].op = "grade" /\ Marked(r, x)'
    BY DEF HeldRowsOK
  <2>1. CASE x = q
    BY <2>1
  <2>2. CASE x # q
    <3>1. respLock[x] = r /\ viewResp'[r][x] = viewResp[r][x]
          /\ responses' = responses /\ input' = input
      BY <1>1, <2>2 DEF tables
    <3>2. Answered(r, x) => Answered(r, x)'
      BY <3>1 DEF Answered, Row
    <3>3. Marked(r, x) => Marked(r, x)'
      BY <3>1 DEF Marked, Row
    <3> QED
      BY <3>1, <3>2, <3>3 DEF IInv, RequestOK, HeldRowsOK
  <2> QED
    BY <2>1, <2>2
<1>6. SnapshotOK(r)'
  BY <1>1 DEF IInv, RequestOK, SnapshotOK, Row, tables
<1>7. StringsOK(r)'
  <2>1. CASE ~Written(q) /\ row.answer # Null /\ row.answer.enc = "string"
    BY <2>1 DEF StringsOK
  <2>2. CASE ~(~Written(q) /\ row.answer # Null /\ row.answer.enc = "string")
    BY <1>1, <2>2 DEF StringsOK, StringFree, Selected, Row
  <2> QED
    BY <2>1, <2>2
<1>8. LeavesComplete(r) => LeavesComplete(r)'
  <2>1. row # NoRow
    BY RowEdits
  <2>2. \A x \in Questions :
           CurrentResponse(r, x)' = IF x = q THEN row ELSE CurrentResponse(r, x)
    BY <1>1 DEF CurrentResponse, tables
  <2> QED
    BY <2>1, <2>2 DEF LeavesComplete, Complete, AllAnswered, AllGraded, Row
<1>9. EarnedOK(r)' /\ ListsOK(r)'
  BY <1>8 DEF IInv, RequestOK, EarnedOK, ListsOK, tables
<1> QED
  BY <1>2, <1>3, <1>4, <1>5, <1>6, <1>7, <1>9, Assemble DEF RequestOK

LEMMA SaveStep ==
    ASSUME IInv, TypeOK', NEW r \in Requests, SaveResponse(r), ~Fail(r) PROVE IInv'
<1> DEFINE q == input[r].q
           loaded == viewResp[r][q]
           answer == StoredAnswer(input[r])
           model == [(IF loaded = NoRow THEN NewResponse ELSE loaded) EXCEPT !.answer = answer]
<1>1. /\ pc[r] = "save" /\ input[r].op = "store" /\ input[r] \in Inputs
      /\ q \in Questions /\ answer \in Texts \cup Selections \cup {Null}
  BY StoredAnswerType, InputsAssumption DEF IInv, RequestOK, SaveResponse, ControlOK, IsInput
<1>2. /\ IF loaded = NoRow
         THEN responses[q] = NoRow /\ WriteResponse(r, q, model)
         ELSE IF loaded.answer = answer
         THEN UNCHANGED <<respLock, viewResp>>
         ELSE WriteResponse(r, q, [CurrentResponse(r, q) EXCEPT !.answer = answer])
      /\ Goto(r, IF ShouldCalculateScore(q, model) THEN "score" ELSE "ensure")
      /\ upsert' = [upsert EXCEPT ![r].next = "ensure"]
      /\ UNCHANGED <<tables, partLock, input, viewPart, todo, found>>
  BY DEF SaveResponse
<1>3. /\ pc'[r] = IF ShouldCalculateScore(q, model) THEN "score" ELSE "ensure"
      /\ upsert'[r].next = "ensure"
      /\ \A s \in Requests \ {r} : pc'[s] = pc[s] /\ upsert'[s] = upsert[s]
  BY <1>2 DEF Goto, IInv, TypeOK, IsUpsert
<1>4. InTransaction(r) /\ InTransaction(r)' /\ ControlOK(r)' /\ StringFree(viewResp[r])
  BY <1>1, <1>2, <1>3 DEF IInv, RequestOK, ControlOK, StringsOK, InTransaction, TxLabels
<1>5. loaded \in ResponseRow \cup {NoRow} /\ responses[q] \in ResponseRow \cup {NoRow}
  BY <1>1 DEF IInv, TypeOK, ResponseTable
<1>6. model \in ResponseRow /\ model.answer = answer
  <2>1. (IF loaded = NoRow THEN NewResponse ELSE loaded) \in ResponseRow
    BY <1>5, NewResponseType
  <2> QED
    BY <1>1, <2>1 DEF ResponseRow
<1>7. (~Written(q) /\ answer # Null) => pc'[r] = "score"
  BY <1>3, <1>6 DEF ShouldCalculateScore, Selected
<1>8. CASE loaded = NoRow
  <2>1. responses[q] = NoRow /\ WriteResponse(r, q, model)
    BY <1>2, <1>8
  <2>2. CurrentResponse(r, q) = NoRow
    BY <1>8, <2>1 DEF CurrentResponse
  <2>3. viewResp'[r][q] = model
    BY <1>1, <2>1 DEF WriteResponse, IInv, TypeOK, ResponseTable
  <2>4. Answered(r, q)'
    BY <1>2, <1>8, <2>1, <2>3 DEF Answered, Row, tables
  <2> QED
    BY <1>1, <1>2, <1>3, <1>4, <1>6, <1>7, <2>1, <2>2, <2>4, WriteResponseStep
<1>9. CASE loaded # NoRow /\ loaded.answer # answer
  <2> DEFINE row == [CurrentResponse(r, q) EXCEPT !.answer = answer]
  <2>1. CurrentResponse(r, q) \in ResponseRow
    BY <1>1, <1>4, <1>5, <1>9 DEF IInv, RequestOK, SnapshotOK, Row, CurrentResponse
  <2>2. row \in ResponseRow /\ row.graded = CurrentResponse(r, q).graded /\ row.answer = answer
    BY <1>1, <2>1 DEF ResponseRow
  <2>3. WriteResponse(r, q, row)
    BY <1>2, <1>9
  <2>4. viewResp'[r][q] = row
    BY <1>1, <2>3 DEF WriteResponse, IInv, TypeOK, ResponseTable
  <2>5. row = [(IF Row(responses, q) THEN responses[q] ELSE NewResponse) EXCEPT !.answer = answer]
    <3>1. CASE respLock[q] = r
      <4>1. CurrentResponse(r, q)
              = [(IF Row(responses, q) THEN responses[q] ELSE NewResponse) EXCEPT !.answer = answer]
        BY <1>1, <3>1 DEF IInv, RequestOK, HeldRowsOK, Answered, CurrentResponse
      <4>2. (IF Row(responses, q) THEN responses[q] ELSE NewResponse) \in ResponseRow
        BY <1>5, NewResponseType DEF Row
      <4> QED
        BY <1>1, <4>1, <4>2 DEF ResponseRow
    <3>2. CASE respLock[q] # r
      BY <1>1, <1>4, <1>9, <3>2 DEF IInv, RequestOK, SnapshotOK, Row, CurrentResponse
    <3> QED
      BY <3>1, <3>2
  <2>6. Answered(r, q)'
    BY <1>2, <2>4, <2>5 DEF Answered, Row, tables
  <2> HIDE DEF row
  <2> QED
    BY <1>1, <1>2, <1>3, <1>4, <1>7, <2>2, <2>3, <2>6, WriteResponseStep
<1>10. CASE loaded # NoRow /\ loaded.answer = answer
  <2>1. UNCHANGED <<tables, locks, input, views>>
    BY <1>2, <1>10 DEF locks, views
  <2>2. ListsOK(r)' /\ pc[r] \in TxLabels /\ pc'[r] \in TxLabels /\ pc'[r] \notin {"exists", "write"}
    BY <1>1, <1>3 DEF ListsOK, TxLabels
  <2> QED
    BY <1>3, <1>4, <2>1, <2>2, MoveStep
<1> QED
  BY <1>8, <1>9, <1>10

LEMMA GradeStep ==
    ASSUME IInv, TypeOK', NEW r \in Requests, GradeResponse(r) PROVE IInv'
<1>1. /\ pc[r] = "grade" /\ input[r].op = "grade"
      /\ UNCHANGED <<tables, partLock, input, viewPart, found>>
      /\ InTransaction(r) /\ StringFree(viewResp[r])
  BY DEF GradeResponse, IInv, RequestOK, ControlOK, InTransaction, TxLabels, StringsOK
<1>2. CASE todo[r] = <<>>
  <2>1. /\ UNCHANGED <<tables, locks, input, views>>
        /\ pc'[r] = "score" /\ upsert'[r].next = "commit"
        /\ \A s \in Requests \ {r} : pc'[s] = pc[s] /\ upsert'[s] = upsert[s]
    BY <1>2 DEF GradeResponse, Goto, IInv, TypeOK, IsUpsert, locks, views
  <2>2. ControlOK(r)' /\ ListsOK(r)'
    BY <1>1, <2>1 DEF IInv, RequestOK, ControlOK, ListsOK
  <2> QED
    BY <1>1, <2>1, <2>2, MoveStep DEF TxLabels
<1>3. CASE todo[r] # <<>>
  <2>1. PICK q \in Questions, m \in Grades \cup {Null} :
           q = Head(todo[r]).q /\ m = Head(todo[r]).mark
    <3>1. Head(todo[r]) \in Marks
      BY <1>3 DEF IInv, TypeOK
    <3> QED
      BY <3>1 DEF Marks
  <2>2. CASE Written(q) /\ Row(viewResp[r], q)
    <3>1. /\ WriteResponse(r, q, GradedRow(r, q, m)) /\ pc'[r] = "score" /\ upsert'[r].next = "grade"
          /\ \A s \in Requests \ {r} : pc'[s] = pc[s] /\ upsert'[s] = upsert[s]
      BY <1>3, <2>1, <2>2 DEF GradeResponse, Goto, IInv, TypeOK, IsUpsert
    <3>2. InTransaction(r)' /\ ControlOK(r)'
      BY <1>1, <3>1 DEF IInv, RequestOK, ControlOK, InTransaction, TxLabels
    <3>3. Row(responses, q) /\ responses[q] \in ResponseRow
      <4>1. Row(responses, q)
        BY <1>1, <2>2 DEF IInv, RequestOK, SnapshotOK, HeldRowsOK, Marked
      <4> QED
        BY <4>1 DEF IInv, TypeOK, ResponseTable, Row
    <3>4. PICK g \in Grades \cup {Null} :
             GradedRow(r, q, m) = [responses[q] EXCEPT !.graded = TRUE, !.grade = g]
      <4>1. CASE respLock[q] = r
        <5>1. PICK n \in Grades \cup {Null} :
                 viewResp[r][q] = [responses[q] EXCEPT !.graded = TRUE, !.grade = n]
          BY <1>1, <4>1 DEF IInv, RequestOK, HeldRowsOK, Marked
        <5>2. GradedRow(r, q, m) = [responses[q] EXCEPT !.graded = TRUE, !.grade = m]
          BY <3>3, <4>1, <5>1 DEF GradedRow, CurrentResponse, ResponseRow
        <5> QED
          BY <5>2
      <4>2. CASE respLock[q] # r
        <5>1. responses[q].grade \in Grades \cup {Null}
          BY <3>3 DEF ResponseRow
        <5>2. \/ GradedRow(r, q, m) = [responses[q] EXCEPT !.graded = TRUE, !.grade = m]
              \/ GradedRow(r, q, m) =
                     [responses[q] EXCEPT !.graded = TRUE, !.grade = responses[q].grade]
          BY <3>3, <4>2 DEF GradedRow, CurrentResponse, ResponseRow
        <5> QED
          BY <5>1, <5>2
      <4> QED
        BY <4>1, <4>2
    <3> DEFINE row == [responses[q] EXCEPT !.graded = TRUE, !.grade = g]
    <3>5. row \in ResponseRow /\ row.graded
      BY <3>3 DEF ResponseRow
    <3>6. viewResp'[r][q] = row
      BY <3>1, <3>4 DEF WriteResponse, IInv, TypeOK, ResponseTable
    <3>7. Marked(r, q)'
      <4>1. responses' = responses
        BY <1>1 DEF tables
      <4> QED
        BY <2>2, <3>3, <3>6, <4>1 DEF Marked, Row
    <3>8. PICK w \in ResponseRow : w = row
      BY <3>5
    <3>9. WriteResponse(r, q, w) /\ w.graded /\ ~(~Written(q))
      BY <2>2, <3>1, <3>4, <3>5, <3>8
    <3> HIDE DEF row
    <3> QED
      BY <1>1, <3>1, <3>2, <3>7, <3>9, WriteResponseStep
  <2>3. CASE ~(Written(q) /\ Row(viewResp[r], q))
    <3>1. UNCHANGED <<tables, locks, input, views, pc, upsert>>
      BY <1>1, <1>3, <2>1, <2>3 DEF GradeResponse, locks, views
    <3>2. ControlOK(r)' /\ ListsOK(r)'
      BY <1>1, <3>1 DEF IInv, RequestOK, ControlOK, ListsOK
    <3> QED
      BY <1>1, <3>1, <3>2, MoveStep DEF TxLabels
  <2> QED
    BY <2>2, <2>3
<1> QED
  BY <1>2, <1>3

\* A request writes one participant row with the status of its upsert and goes
\* where the upsert says.
LEMMA WriteParticipantStep ==
    ASSUME IInv, TypeOK', NEW r \in Requests, pc[r] = "write",
           NEW i \in RowIds, NEW sc,
           WriteParticipant(r, i, [status |-> upsert[r].status, score |-> sc]),
           Goto(r, upsert[r].next),
           UNCHANGED <<responses, respLock, input, viewResp, upsert>>
    PROVE  IInv'
<1> DEFINE row == [status |-> upsert[r].status, score |-> sc]
<1>1. /\ pc'[r] = upsert[r].next
      /\ \A s \in Requests \ {r} : pc'[s] = pc[s]
      /\ partLock[i] \in {r, Nobody}
      /\ upsert[r].status \in Statuses
  BY DEF Goto, WriteParticipant, IInv, TypeOK, IsUpsert
<1>2. /\ row.status = upsert[r].status
      /\ row.status # "absent"
  BY <1>1 DEF Statuses
<1>3. ControlOK(r)'
  BY <1>1 DEF IInv, RequestOK, ControlOK
<1>4. NoStringSelection' /\ RowsGrow
  BY DEF IInv, NoStringSelection, RowsGrow, Row
<1>5. StringFree(viewResp[r])
  BY DEF IInv, RequestOK, StringsOK
<1>6. StringsOK(r)'
  BY <1>5 DEF StringsOK, StringFree, Row
<1>7. LeavesComplete(r)' <=> LeavesComplete(r)
  BY DEF LeavesComplete, CurrentResponse, Complete, AllAnswered, AllGraded, Row
<1>8. row.status = "completed" => LeavesComplete(r)
  BY <1>2 DEF IInv, RequestOK, EarnedOK
<1>9. pc'[r] \notin {"exists", "write"}
  BY <1>1 DEF IInv, RequestOK, ControlOK
<1>10. HeldRowsOK(r)'
  BY HeldRowsKept DEF IInv, RequestOK
<1>11. CASE InTx(r)
  <2>1. /\ UNCHANGED participants
        /\ \A x \in RowIds : partLock'[x] = IF x = i THEN r ELSE partLock[x]
        /\ \A s \in Requests \ {r} : viewPart'[s] = viewPart[s]
        /\ \A x \in RowIds : viewPart'[r][x] = IF x = i THEN row ELSE viewPart[r][x]
    BY <1>11 DEF WriteParticipant, IInv, TypeOK, IsParticipantTable
  <2>2. InTransaction(r) /\ InTransaction(r)'
    BY <1>1, <1>11 DEF IInv, RequestOK, ControlOK, InTransaction, InTx, TxLabels
  <2>3. OwnersOK'
    <3>1. \A s \in Requests \ {r} : InTransaction(s) => InTransaction(s)'
      BY <1>1 DEF InTransaction
    <3> HIDE DEF row
    <3> QED
      BY <1>2, <2>1, <2>2, <3>1, NobodyAssumption DEF IInv, OwnersOK, Listed
  <2>4. AnsweredIsListed'
    BY <2>1 DEF IInv, AnsweredIsListed, Row
  <2>5. \A s \in Requests \ {r} : Bystander(s)
    BY <1>1, <2>1, NobodyAssumption DEF Bystander
  <2>6. SnapshotOK(r)'
    BY <2>2 DEF IInv, RequestOK, SnapshotOK, Row
  <2>7. EarnedOK(r)'
    <3> HIDE DEF row
    <3> QED
      BY <1>7, <1>8, <1>9, <2>1 DEF IInv, RequestOK, EarnedOK, IsCompleted
  <2>8. ListsOK(r)'
    BY <2>1 DEF ListsOK
  <2> QED
    BY <1>3, <1>4, <1>6, <1>10, <2>3, <2>4, <2>5, <2>6, <2>7, <2>8, Assemble DEF RequestOK
<1>12. CASE ~InTx(r)
  <2>1. /\ UNCHANGED <<partLock, viewPart>>
        /\ \A x \in RowIds : participants'[x] = IF x = i THEN row ELSE participants[x]
    BY <1>12 DEF WriteParticipant, IInv, TypeOK, IsParticipantTable
  <2>2. ~InTransaction(r) /\ ~InTransaction(r)' /\ pc'[r] = "done"
    BY <1>1, <1>12 DEF IInv, RequestOK, ControlOK, InTransaction, InTx
  <2>3. /\ \A q \in Questions : respLock[q] # r
        /\ \A x \in RowIds : partLock[x] # r
    BY <2>2, HoldsNothing DEF IInv
  <2>4. OwnersOK'
    <3>1. \A s \in Requests \ {r} : InTransaction(s) => InTransaction(s)'
      BY <1>1 DEF InTransaction
    <3> QED
      BY <2>1, <2>3, <3>1 DEF IInv, OwnersOK
  <2>5. AnsweredIsListed'
    <3> HIDE DEF row
    <3> QED
      BY <1>2, <2>1 DEF IInv, AnsweredIsListed, Row, Listed
  <2>6. \A s \in Requests \ {r} : Bystander(s)
    <3>1. partLock[i] = Nobody
      BY <1>1, <2>3
    <3> QED
      BY <1>1, <2>1, <3>1, NobodyAssumption DEF Bystander
  <2>7. Outside(r)'
    BY <2>1, <2>2, <2>3 DEF Outside, TxLabels
  <2> QED
    BY <1>3, <1>4, <1>5, <2>2, <2>4, <2>5, <2>6, <2>7, OutsideOK, Assemble
       DEF StringFree, Row
<1> QED
  BY <1>11, <1>12

LEMMA UpsertStep ==
    ASSUME IInv, TypeOK', NEW r \in Requests, InsertParticipant(r) \/ UpdateParticipant(r)
    PROVE  IInv'
<1>1. CASE InsertParticipant(r)
  BY <1>1, WriteParticipantStep DEF InsertParticipant
<1>2. CASE UpdateParticipant(r)
  <2>1. PICK i \in RowIds :
           WriteParticipant(r, i, [status |-> upsert[r].status,
               score |-> IF upsert[r].score = Keep THEN CurrentParticipant(r, i).score
                         ELSE upsert[r].score])
    BY <1>2 DEF UpdateParticipant
  <2> QED
    BY <1>2, <2>1, WriteParticipantStep DEF UpdateParticipant
<1> QED
  BY <1>1, <1>2

-----------------------------------------------------------------------------
(***************************************************************************)
(* Steps that end a transaction or write the committed tables              *)
(***************************************************************************)
\* A request that ends its transaction, by a commit or a rollback.
LEMMA ReleaseStep ==
    ASSUME IInv, TypeOK', NEW r \in Requests, Release(r), UNCHANGED input,
           \A s \in Requests \ {r} : pc'[s] = pc[s],
           pc'[r] \in {"error", "crashed", "done", "submit"},
           input[r] \in Inputs, pc'[r] = "submit" => input[r].op = "store",
           NoStringSelection', AnsweredIsListed', RowsGrow,
           \A q \in Questions : respLock[q] \in Requests \ {r} => responses'[q] = responses[q],
           \A i \in RowIds : partLock[i] \in Requests \ {r} => participants'[i] = participants[i]
    PROVE  IInv'
<1>1. /\ \A q \in Questions : respLock'[q] = IF respLock[q] = r THEN Nobody ELSE respLock[q]
      /\ \A i \in RowIds : partLock'[i] = IF partLock[i] = r THEN Nobody ELSE partLock[i]
      /\ viewResp'[r] = SeededResponses
      /\ \A s \in Requests \ {r} : /\ viewResp'[s] = viewResp[s] /\ viewPart'[s] = viewPart[s]
                                   /\ upsert'[s] = upsert[s]
  BY DEF Release, IInv, TypeOK
<1>2. /\ \A q \in Questions : respLock'[q] # r
      /\ \A i \in RowIds : partLock'[i] # r
  BY <1>1, NobodyAssumption
<1>3. \A s \in Requests \ {r} : Bystander(s)
  BY <1>1, NobodyAssumption DEF Bystander
<1>4. OwnersOK'
  <2>1. \A s \in Requests \ {r} : InTransaction(s) => InTransaction(s)'
    BY DEF InTransaction
  <2> QED
    BY <1>1, <1>2, <2>1, NobodyAssumption DEF IInv, OwnersOK
<1>5. ControlOK(r)'
  BY DEF ControlOK
<1>6. StringFree(viewResp[r])'
  BY <1>1, SeedAssumption DEF StringFree, Row
<1>7. Outside(r)' /\ pc'[r] \notin {"exists", "write", "commit"}
  BY <1>2 DEF Outside, TxLabels
<1> QED
  BY <1>3, <1>4, <1>5, <1>6, <1>7, OutsideOK, Assemble

LEMMA FailStep ==
    ASSUME IInv, TypeOK', NEW r \in Requests, Active(r), Fail(r) \/ Crash(r) PROVE IInv'
<1>1. /\ Release(r) /\ UNCHANGED <<tables, input>>
      /\ \A s \in Requests \ {r} : pc'[s] = pc[s]
      /\ pc'[r] \in {"error", "crashed"}
  BY DEF Fail, Crash, Goto, IInv, TypeOK
<1>2. input[r] \in Inputs
  BY DEF Active, IInv, RequestOK, ControlOK
<1>3. NoStringSelection' /\ AnsweredIsListed' /\ RowsGrow
  BY <1>1 DEF IInv, NoStringSelection, AnsweredIsListed, RowsGrow, tables, Row
<1> QED
  BY <1>1, <1>2, <1>3, ReleaseStep DEF tables

\* A request that waits for a row is under way.
LEMMA VictimIsActive ==
    ASSUME NEW r, DeadlockVictim(r) PROVE Active(r)
<1>1. PICK S \in SUBSET Requests : r \in S /\ Cycle(S)
  BY DEF DeadlockVictim
<1>2. WaitsFor(r) # {}
  BY <1>1 DEF Cycle
<1>3. NextResponseRow(r) # {} \/ NextParticipantRow(r) # {}
  BY <1>2 DEF WaitsFor
<1>4. pc[r] \in {"save", "grade", "write"}
  BY <1>3 DEF NextResponseRow, NextParticipantRow
<1> QED
  BY <1>4 DEF Active, Over

\* What a transaction leaves of a response row is ahead of what it found.
LEMMA HeldRowsGrow ==
    ASSUME IInv, NEW r \in Requests, NEW q \in Questions, Row(responses, q)
    PROVE  /\ CurrentResponse(r, q) # NoRow
           /\ responses[q].graded => CurrentResponse(r, q).graded
<1>1. responses[q] \in ResponseRow
  BY DEF IInv, TypeOK, ResponseTable, Row
<1>2. CASE respLock[q] # r
  BY <1>2 DEF CurrentResponse, Row
<1>3. CASE respLock[q] = r /\ input[r].op = "store" /\ Answered(r, q)
  <2>1. CurrentResponse(r, q) = [responses[q] EXCEPT !.answer = StoredAnswer(input[r])]
    BY <1>3 DEF Answered, CurrentResponse
  <2>2. CurrentResponse(r, q) \in ResponseRow \cup {NoRow}
    BY <1>3 DEF IInv, TypeOK, ResponseTable, CurrentResponse
  <2>3. CurrentResponse(r, q).graded = responses[q].graded
    BY <1>1, <2>1 DEF ResponseRow
  <2>4. input[r] \in Inputs
    BY <1>3 DEF IInv, TypeOK, NoInput
  <2>5. CurrentResponse(r, q) # NoRow
    BY <1>1, <1>3, <2>1, <2>4, StoredAnswerType, RowEdits
  <2> QED
    BY <2>3, <2>5
<1>4. CASE respLock[q] = r /\ input[r].op = "grade" /\ Marked(r, q)
  <2>1. PICK m \in Grades \cup {Null} :
           CurrentResponse(r, q) = [responses[q] EXCEPT !.graded = TRUE, !.grade = m]
    BY <1>4 DEF Marked, CurrentResponse
  <2>2. CurrentResponse(r, q) # NoRow
    BY <1>1, <2>1, RowEdits
  <2> QED
    BY <1>1, <2>1, <2>2 DEF ResponseRow
<1> QED
  BY <1>2, <1>3, <1>4 DEF IInv, RequestOK, HeldRowsOK

LEMMA CommitStep ==
    ASSUME IInv, TypeOK', NEW r \in Requests, Commit(r) PROVE IInv'
<1>1. /\ pc[r] = "commit" /\ Release(r) /\ UNCHANGED input
      /\ \A q \in Questions : responses'[q] = CurrentResponse(r, q)
      /\ \A i \in RowIds : participants'[i] = CurrentParticipant(r, i)
      /\ \A s \in Requests \ {r} : pc'[s] = pc[s]
      /\ pc'[r] = IF input[r].op = "store" /\ input[r].action = "submit"
                  THEN "submit" ELSE "done"
  BY DEF Commit, Goto, IInv, TypeOK
<1>2. input[r] \in Inputs /\ InTransaction(r) /\ StringFree(viewResp[r])
  BY <1>1 DEF IInv, RequestOK, ControlOK, InTransaction, TxLabels, StringsOK
<1>3. NoStringSelection'
  BY <1>1, <1>2 DEF IInv, NoStringSelection, CurrentResponse, StringFree, Row, Selected
<1>4. RowsGrow
  BY <1>1, HeldRowsGrow DEF RowsGrow, Row
<1>5. \A i \in RowIds : Listed(participants, i) => Listed(participants', i)
  <2>1. \A i \in RowIds : partLock[i] = r => Listed(viewPart[r], i)
    BY DEF IInv, OwnersOK
  <2> QED
    BY <1>1, <2>1 DEF CurrentParticipant, Listed
<1>6. AnsweredIsListed'
  <2>1. CASE \E q \in Questions : Row(responses, q)
    BY <1>5, <2>1 DEF IInv, AnsweredIsListed
  <2>2. CASE \E i \in RowIds : partLock[i] = r
    <3>1. PICK i \in RowIds : partLock[i] = r
      BY <2>2
    <3>2. Listed(viewPart[r], i)
      BY <3>1 DEF IInv, OwnersOK
    <3>3. Listed(participants', i)
      BY <1>1, <3>1, <3>2 DEF CurrentParticipant, Listed
    <3> QED
      BY <3>3 DEF AnsweredIsListed
  <2>3. CASE /\ ~\E q \in Questions : Row(responses, q)
             /\ ~\E i \in RowIds : partLock[i] = r
    <3>1. input[r].op # "store"
      BY <1>1, <2>3 DEF IInv, RequestOK, ListsOK
    <3>2. \A q \in Questions : respLock[q] # r
      BY <2>3, <3>1 DEF IInv, RequestOK, HeldRowsOK, Marked
    <3>3. \A q \in Questions : responses'[q] = responses[q]
      BY <1>1, <3>2 DEF CurrentResponse
    <3> QED
      BY <2>3, <3>3 DEF AnsweredIsListed, Row
  <2> QED
    BY <2>1, <2>2, <2>3
<1>7. /\ \A q \in Questions : respLock[q] \in Requests \ {r} => responses'[q] = responses[q]
      /\ \A i \in RowIds : partLock[i] \in Requests \ {r} => participants'[i] = participants[i]
  BY <1>1 DEF CurrentResponse, CurrentParticipant
<1> QED
  BY <1>1, <1>2, <1>3, <1>4, <1>6, <1>7, ReleaseStep

\* The two UPDATEs outside transactions, while nobody holds a participant row.
LEMMA UpdateAllStep ==
    ASSUME IInv, TypeOK', NEW r \in Requests, Submit(r) \/ FixOldScaleScores(r) PROVE IInv'
<1>1. /\ pc[r] \in {"submit", "fix"} /\ UNCHANGED <<responses, locks, input, views, upsert>>
      /\ \A i \in RowIds : partLock[i] = Nobody
      /\ \A s \in Requests \ {r} : pc'[s] = pc[s]
      /\ pc[r] = "submit" => pc'[r] = "done"
      /\ pc[r] = "fix" => pc'[r] \in {"score", "done"}
  BY DEF Submit, FixOldScaleScores, Goto, IInv, TypeOK, locks, frames, views
<1>2. \A i \in RowIds : Listed(participants, i) => Listed(participants', i)
  <2>1. CASE Submit(r)
    BY <2>1 DEF Submit, Listed, SetCompleted, IInv, TypeOK, IsParticipantTable
  <2>2. CASE FixOldScaleScores(r)
    BY <2>2 DEF FixOldScaleScores, Listed, FixRow, IInv, TypeOK, IsParticipantTable
  <2> QED
    BY <2>1, <2>2
<1>3. NoStringSelection' /\ AnsweredIsListed' /\ RowsGrow
  BY <1>1, <1>2 DEF IInv, NoStringSelection, AnsweredIsListed, RowsGrow, Row
<1>4. \A s \in Requests \ {r} : Bystander(s)
  BY <1>1, NobodyAssumption DEF Bystander, locks, views
<1>5. /\ \A q \in Questions : respLock[q] # r
      /\ \A i \in RowIds : partLock[i] # r
  BY <1>1, HoldsNothing DEF IInv, InTransaction, TxLabels
<1>6. OwnersOK'
  <2>1. \A s \in Requests \ {r} : InTransaction(s) => InTransaction(s)'
    BY <1>1 DEF InTransaction
  <2> QED
    BY <1>1, <1>5, <2>1 DEF IInv, OwnersOK, locks, views
<1>7. ControlOK(r)'
  BY <1>1 DEF IInv, RequestOK, ControlOK
<1>8. Outside(r)' /\ pc'[r] \notin {"exists", "write", "commit"}
  BY <1>1, <1>5 DEF IInv, RequestOK, ControlOK, Outside, TxLabels, locks
<1>9. StringFree(viewResp[r])'
  BY <1>1 DEF IInv, RequestOK, StringsOK, StringFree, Row, views
<1> QED
  BY <1>3, <1>4, <1>6, <1>7, <1>8, <1>9, OutsideOK, Assemble

-----------------------------------------------------------------------------
(***************************************************************************)
(* The invariant is inductive                                              *)
(***************************************************************************)
LEMMA InvStep == IInv /\ [Next]_vars => IInv'
<1> SUFFICES ASSUME IInv, [Next]_vars PROVE IInv'
  OBVIOUS
<1>1. CASE UNCHANGED vars
  <2>1. /\ UNCHANGED <<responses, participants, nextId, respLock, partLock, pc, input>>
        /\ UNCHANGED <<viewResp, viewPart, todo, upsert, found>>
    BY <1>1 DEF vars, tables, locks, frames, views
  <2>2. TypeOK' /\ OwnersOK' /\ NoStringSelection' /\ AnsweredIsListed' /\ RowsGrow
    BY <2>1 DEF IInv, TypeOK, OwnersOK, InTransaction, NoStringSelection, AnsweredIsListed,
       RowsGrow, Row
  <2>3. \A s \in Requests : Bystander(s)
    BY <2>1 DEF Bystander
  <2> QED
    BY <2>2, <2>3, BystanderStep DEF IInv
<1>2. ASSUME NEW r \in Requests, Start(r) \/ Step(r) \/ Crash(r) PROVE IInv'
  <2>1. TypeOK'
    BY <1>2, TypeStep
  <2>2. CASE Start(r)
    BY <2>1, <2>2, StartStep
  <2>3. CASE Load(r)
    BY <2>1, <2>3, LoadStep
  <2>4. CASE SaveResponse(r)
    <3>1. Active(r)
      BY <2>4 DEF SaveResponse, Active, Over
    <3> QED
      BY <2>1, <2>4, <3>1, SaveStep, FailStep
  <2>5. CASE EnsureParticipant(r)
    BY <2>1, <2>5, EnsureStep
  <2>6. CASE GradeResponse(r)
    BY <2>1, <2>6, GradeStep
  <2>7. CASE ComputeScore(r)
    <3>1. Active(r)
      BY <2>7 DEF ComputeScore, Active, Over
    <3> QED
      BY <2>1, <2>7, <3>1, ScoreStep, FailStep
  <2>8. CASE ComputeStatus(r)
    BY <2>1, <2>8, StatusStep
  <2>9. CASE Exists(r)
    BY <2>1, <2>9, ExistsStep
  <2>10. CASE InsertParticipant(r) \/ UpdateParticipant(r)
    BY <2>1, <2>10, UpsertStep
  <2>11. CASE Commit(r)
    BY <2>1, <2>11, CommitStep
  <2>12. CASE Submit(r) \/ FixOldScaleScores(r)
    BY <2>1, <2>12, UpdateAllStep
  <2>13. CASE DeadlockVictim(r)
    BY <2>1, <2>13, VictimIsActive, FailStep DEF DeadlockVictim
  <2>14. CASE Crash(r)
    BY <2>1, <2>14, FailStep DEF Crash
  <2> QED
    BY <1>2, <2>2, <2>3, <2>4, <2>5, <2>6, <2>7, <2>8, <2>9, <2>10, <2>11, <2>12, <2>13, <2>14
       DEF Step
<1> QED
  BY <1>1, <1>2 DEF Next, Finished

\* Every reachable state satisfies the inductive invariant.
THEOREM Invariance == Spec => []IInv
  BY InitInv, InvStep, PTL DEF Spec

-----------------------------------------------------------------------------
(***************************************************************************)
(* The properties                                                          *)
(***************************************************************************)
\* However requests interleave, wait, fail or die, every table, row, lock and
\* local keeps its type.
THEOREM TypeCorrect == Spec => []TypeOK
<1>1. IInv => TypeOK
  BY DEF IInv
<1> QED
  BY <1>1, Invariance, PTL

\* No selection is ever committed as a JSON string inside the JSON column: the
\* transaction that stores it is the one whose observer fails on it.
THEOREM StringsRollBack == Spec => []NoStringSelection
<1>1. IInv => NoStringSelection
  BY DEF IInv
<1> QED
  BY <1>1, Invariance, PTL

\* A pair with a committed response has an assessment_participants row, for any
\* interleaving of answers, grading forms, commands, deadlocks and crashes.
THEOREM AnsweredPairsAreListed == Spec => []AnsweredIsListed
<1>1. IInv => AnsweredIsListed
  BY DEF IInv
<1> QED
  BY <1>1, Invariance, PTL

\* The rows that a request leaves behind are the committed ones, but for those
\* it holds itself.
LEMMA LeavesCommitted ==
    ASSUME NEW r, \A q \in Questions : respLock[q] # r, LeavesComplete(r), UNCHANGED responses
    PROVE  Complete(responses')
  BY DEF LeavesComplete, CurrentResponse, Complete, AllAnswered, AllGraded, Row

LEMMA EarnedByWrite ==
    ASSUME IInv, NEW r \in Requests, NEW i \in RowIds, pc[r] = "write",
           NEW j \in RowIds, NEW sc,
           WriteParticipant(r, j, [status |-> upsert[r].status, score |-> sc]),
           UNCHANGED responses,
           IsCompleted(participants'[i]), ~IsCompleted(participants[i])
    PROVE  Complete(responses')
<1>1. ~InTx(r) /\ i = j /\ upsert[r].status = "completed"
  BY DEF WriteParticipant, IsCompleted, IInv, TypeOK, IsParticipantTable
<1>2. \A q \in Questions : respLock[q] # r
  BY <1>1, HoldsNothing DEF IInv, InTransaction, InTx
<1>3. LeavesComplete(r)
  BY <1>1 DEF IInv, RequestOK, EarnedOK
<1> QED
  BY <1>2, <1>3, LeavesCommitted

LEMMA EarnedStep ==
    ASSUME IInv, NEW r \in Requests, Start(r) \/ Step(r) \/ Crash(r), NEW i \in RowIds,
           IsCompleted(participants'[i]), ~IsCompleted(participants[i])
    PROVE  Submitted \/ Complete(responses')
<1>1. participants' # participants
  OBVIOUS
<1>2. ~Start(r) /\ ~Load(r) /\ ~SaveResponse(r) /\ ~EnsureParticipant(r) /\ ~GradeResponse(r)
  BY <1>1 DEF Start, Load, SaveResponse, EnsureParticipant, GradeResponse, Fail, tables
<1>3. /\ ~ComputeScore(r) /\ ~ComputeStatus(r) /\ ~Exists(r) /\ ~DeadlockVictim(r) /\ ~Crash(r)
  BY <1>1 DEF ComputeScore, ComputeStatus, Exists, DeadlockVictim, Crash, Fail, tables
<1>4. CASE InsertParticipant(r)
  BY <1>4, EarnedByWrite DEF InsertParticipant
<1>5. CASE UpdateParticipant(r)
  <2>1. PICK j \in RowIds :
           WriteParticipant(r, j, [status |-> upsert[r].status,
               score |-> IF upsert[r].score = Keep THEN CurrentParticipant(r, j).score
                         ELSE upsert[r].score])
    BY <1>5 DEF UpdateParticipant
  <2> QED
    BY <1>5, <2>1, EarnedByWrite DEF UpdateParticipant
<1>6. CASE Commit(r)
  <2>1. participants'[i] = CurrentParticipant(r, i)
    BY <1>6 DEF Commit
  <2>2. partLock[i] = r /\ IsCompleted(viewPart[r][i])
    BY <2>1 DEF CurrentParticipant
  <2>3. LeavesComplete(r)
    BY <2>2 DEF IInv, RequestOK, EarnedOK
  <2> QED
    BY <1>6, <2>3 DEF Commit, LeavesComplete
<1>7. CASE Submit(r)
  <2>1. pc[r] = "submit" /\ pc'[r] = "done"
    BY <1>7 DEF Submit, Goto, IInv, TypeOK
  <2> QED
    BY <2>1 DEF Submitted
<1>8. CASE FixOldScaleScores(r)
  <2>1. participants'[i] = FixRow(participants[i])
    BY <1>8 DEF FixOldScaleScores
  <2>2. participants'[i].status = participants[i].status
    BY <2>1 DEF FixRow, IInv, TypeOK, IsParticipantTable
  <2> QED
    BY <2>2 DEF IsCompleted
<1> QED
  BY <1>2, <1>3, <1>4, <1>5, <1>6, <1>7, <1>8 DEF Step

\* Nothing but the participant's Submit and a really complete, fully graded
\* answer sheet turns a row into completed, although the status is computed
\* from a snapshot and written several statements later.
THEOREM CompletionIsEarned == Spec => CompletedIsEarned
<1>1. ASSUME IInv, [Next]_vars
      PROVE  [\A i \in RowIds :
                IsCompleted(participants'[i]) /\ ~IsCompleted(participants[i])
                => Submitted \/ Complete(responses')]_vars
  BY <1>1, EarnedStep DEF Next, Finished
<1> QED
  BY <1>1, Invariance, PTL DEF Spec, CompletedIsEarned

-----------------------------------------------------------------------------
(***************************************************************************)
(* The responses table implements an answer sheet                          *)
(***************************************************************************)
\* A storeResponse commits at most one answer, to the row as it is then.  The
\* answer is one the sheet knows: a selection as a string does not get here.
LEMMA CommitGivesAnswer ==
    ASSUME IInv, NEW r \in Requests, Commit(r), input[r].op = "store"
    PROVE  UNCHANGED responses \/ Sheet!Next
<1>1. /\ pc[r] = "commit" /\ input[r] \in Inputs
      /\ responses' = [x \in Questions |-> CurrentResponse(r, x)]
  BY DEF Commit, IInv, RequestOK, ControlOK
<1>2. responses = [x \in Questions |-> responses[x]]
  BY DEF IInv, TypeOK, ResponseTable
<1>3. CASE \A q \in Questions : respLock[q] # r
  BY <1>1, <1>2, <1>3 DEF CurrentResponse
<1>4. CASE \E q \in Questions : respLock[q] = r
  <2>1. PICK q \in Questions : respLock[q] = r
    BY <1>4
  <2> DEFINE a == StoredAnswer(input[r])
             new == [(IF Row(responses, q) THEN responses[q] ELSE NewResponse) EXCEPT !.answer = a]
  <2>2. /\ \A x \in Questions : respLock[x] = r => x = q
        /\ q = input[r].q /\ viewResp[r][q] = new
    BY <2>1 DEF IInv, RequestOK, HeldRowsOK, Answered
  <2>3. /\ CurrentResponse(r, q) = new
        /\ \A x \in Questions \ {q} : CurrentResponse(r, x) = responses[x]
    BY <2>1, <2>2 DEF CurrentResponse
  <2>4. responses' = [responses EXCEPT ![q] = new]
    BY <1>1, <1>2, <2>3
  <2>5. new \in ResponseRow /\ new.answer = a
    <3>1. (IF Row(responses, q) THEN responses[q] ELSE NewResponse) \in ResponseRow
      BY NewResponseType DEF IInv, TypeOK, ResponseTable, Row
    <3>2. a \in Texts \cup Selections \cup {Null}
      BY <1>1, StoredAnswerType
    <3> QED
      BY <3>1, <3>2 DEF ResponseRow
  <2>6. ~Written(q) => a = Null
    <3> SUFFICES ASSUME ~Written(q), a # Null PROVE FALSE
      OBVIOUS
    <3>1. a.enc = "string"
      BY <2>2 DEF StoredAnswer
    <3>2. new # NoRow
      BY <2>5, NoRowAssumption
    <3>3. Row(viewResp[r], q) /\ Selected(viewResp[r][q]) /\ viewResp[r][q].answer = a
      BY <2>2, <2>5, <3>2 DEF Row, Selected
    <3>4. StringFree(viewResp[r])
      BY <1>1 DEF IInv, RequestOK, StringsOK
    <3> QED
      BY <3>1, <3>3, <3>4 DEF StringFree
  <2>7. a \in Sheet!AnswersTo(q)
    <3>1. Written(q) => a \in Texts \cup {Null}
      BY <1>1, <2>2, InputsAssumption DEF StoredAnswer, IsInput
    <3> QED
      BY <2>6, <3>1 DEF Sheet!AnswersTo, Sheet!Written, Written
  <2>8. Sheet!GiveAnswer(q, a)
    BY <2>4 DEF Sheet!GiveAnswer, Sheet!Ungraded, Sheet!Row, NewResponse, Row
  <2> QED
    BY <2>7, <2>8 DEF Sheet!Next
<1> QED
  BY <1>3, <1>4

\* A grading form commits its marks together, each on the row as it is then.
LEMMA CommitGrades ==
    ASSUME IInv, NEW r \in Requests, Commit(r), input[r].op = "grade"
    PROVE  Sheet!Next
<1> DEFINE S == {q \in Questions : respLock[q] = r}
           marks == [q \in S |-> viewResp[r][q].grade]
<1>1. /\ responses' = [x \in Questions |-> CurrentResponse(r, x)]
  BY DEF Commit
<1>2. ASSUME NEW q \in S
      PROVE  /\ Written(q) /\ Row(responses, q) /\ marks[q] \in Grades \cup {Null}
             /\ CurrentResponse(r, q) = [responses[q] EXCEPT !.graded = TRUE, !.grade = marks[q]]
  <2>1. Marked(r, q)
    BY DEF IInv, RequestOK, HeldRowsOK
  <2>2. responses[q] \in ResponseRow
    BY <2>1 DEF Marked, Row, IInv, TypeOK, ResponseTable
  <2>3. PICK m \in Grades \cup {Null} :
           viewResp[r][q] = [responses[q] EXCEPT !.graded = TRUE, !.grade = m]
    BY <2>1 DEF Marked
  <2>4. marks[q] = m
    BY <2>2, <2>3 DEF ResponseRow
  <2> QED
    BY <2>1, <2>3, <2>4 DEF Marked, CurrentResponse
<1>3. \A q \in Questions \ S : CurrentResponse(r, q) = responses[q]
  BY DEF CurrentResponse
<1>4. S \in SUBSET Questions /\ marks \in [S -> Grades \cup {Null}] /\ DOMAIN marks = S
  BY <1>2
<1> HIDE DEF S, marks
<1>5. responses' = [q \in Questions |->
                       IF q \in S THEN [responses[q] EXCEPT !.graded = TRUE, !.grade = marks[q]]
                       ELSE responses[q]]
  BY <1>1, <1>2, <1>3
<1>6. Sheet!GradeSheet(marks)
  BY <1>2, <1>4, <1>5 DEF Sheet!GradeSheet, Sheet!Written, Sheet!Row, Written, Row
<1> QED
  BY <1>4, <1>6 DEF Sheet!Next

\* Every change of participant_responses is one answer given or one grading
\* form, whole, on the rows as they are when it commits: no update is lost.
THEOREM ResponsesRefineSheet == Spec => RefinesAnswerSheet
<1>1. Init => Sheet!Init
  BY DEF Init, Sheet!Init
<1>2. ASSUME IInv, [Next]_vars PROVE [Sheet!Next]_responses
  <2>1. ASSUME NEW r \in Requests, Start(r) \/ Step(r) \/ Crash(r), responses' # responses
        PROVE  Commit(r)
    <3>1. /\ ~Start(r) /\ ~Load(r) /\ ~SaveResponse(r) /\ ~EnsureParticipant(r)
          /\ ~GradeResponse(r)
      BY <2>1 DEF Start, Load, SaveResponse, EnsureParticipant, GradeResponse, Fail, tables
    <3>2. /\ ~ComputeScore(r) /\ ~ComputeStatus(r) /\ ~Exists(r) /\ ~DeadlockVictim(r)
          /\ ~Crash(r)
      BY <2>1 DEF ComputeScore, ComputeStatus, Exists, DeadlockVictim, Crash, Fail, tables
    <3>3. ~InsertParticipant(r) /\ ~UpdateParticipant(r) /\ ~Submit(r) /\ ~FixOldScaleScores(r)
      BY <2>1 DEF InsertParticipant, UpdateParticipant, Submit, FixOldScaleScores
    <3> QED
      BY <2>1, <3>1, <3>2, <3>3 DEF Step
  <2>2. ASSUME NEW r \in Requests, Commit(r) PROVE UNCHANGED responses \/ Sheet!Next
    <3>1. input[r].op \in {"store", "grade"}
      BY <1>2, <2>2 DEF Commit, IInv, RequestOK, ControlOK
    <3> QED
      BY <1>2, <2>2, <3>1, CommitGivesAnswer, CommitGrades
  <2>3. CASE UNCHANGED vars
    BY <2>3 DEF vars, tables
  <2> QED
    BY <1>2, <2>1, <2>2, <2>3 DEF Next, Finished
<1> QED
  BY <1>1, <1>2, Invariance, PTL DEF Spec, RefinesAnswerSheet, Sheet!Spec
=============================================================================
