-------------------------- MODULE AssessmentScoring --------------------------
(***************************************************************************)
(* Answering, grading and rescoring one assessment of one participant:     *)
(* SurveyController::storeResponse, GradingController::store, the          *)
(* ParticipantResponseObserver both of them fire, AssessmentScoreService   *)
(* and the assessments:recalculate-scores command, run by concurrent       *)
(* requests against the two tables they share.                             *)
(*                                                                         *)
(* The database is MySQL/InnoDB at its default isolation (external): a     *)
(* transaction reads the snapshot of its first read overlaid with its own  *)
(* writes, a write works on the latest committed version of its row and    *)
(* holds the row until the transaction ends, a cycle of waiting            *)
(* transactions loses one of them.  A statement outside a transaction is   *)
(* a step of its own.                                                      *)
(***************************************************************************)
EXTENDS ScoreCalc, Sequences

CONSTANTS
    Mode,            \* the assessment's scoring_mode
    Requests,        \* HTTP requests and command runs; each runs once
    Inputs,          \* what a request may ask for, a set of records IsInput admits
    RowIds,          \* bound: ids of the pair's assessment_participants rows
    MaxConcurrent,   \* bound: requests that may be under way at once
    Texts,           \* written answers
    Grades,          \* graded_score or graded_categories values
    SeededResponses, \* the participant_responses rows there before
    SeededParticipants, \* the assessment_participants rows there before
    Nobody,          \* the owner of a row that nobody has locked
    Keep             \* the score of an updateOrInsert that leaves the column alone

VARIABLES
    responses,     \* committed participant_responses of the pair, by question
    participants,  \* committed assessment_participants rows of the pair, by id
    nextId,        \* AUTO_INCREMENT of assessment_participants
    respLock,      \* the transaction that holds each response row
    partLock,      \* the transaction that holds each participant row
    pc,            \* the statement each request is about to run
    input,         \* what the request asks for
    viewResp,      \* participant_responses as the request's transaction sees it
    viewPart,      \* assessment_participants as its transaction sees it
    todo,          \* the posted marks a grading request has not come to yet
    upsert,        \* what an updateOrInsert is about to write, and what follows it
    found          \* its answer from exists()

tables == <<responses, participants, nextId>>
locks  == <<respLock, partLock>>
views  == <<viewResp, viewPart>>
frames == <<input, views, todo, upsert, found>>
vars   == <<tables, locks, pc, frames>>

-----------------------------------------------------------------------------
(***************************************************************************)
(* Rows.  The column selected_answer_ids holds a JSON list, or (after      *)
(* json_encode and the model's array cast) a JSON string spelling a list.  *)
(***************************************************************************)
AllAnswers == UNION {AnswersOf[q] : q \in Questions}

Selections == [enc : {"list", "string"}, ids : (SUBSET AllAnswers) \ {{}}]

ResponseRow ==
    [answer : Texts \cup Selections \cup {Null},
     graded : BOOLEAN,             \* graded_at is set
     grade  : Grades \cup {Null}]  \* graded_score or graded_categories, by mode

ResponseTable == [Questions -> ResponseRow \cup {NoRow}]

\* A row of assessment_participants has a status; an id without a row is absent.
Statuses == {"not_started", "in_progress", "completed"}
Absent == [status |-> "absent", score |-> Null]
Listed(tbl, i) == tbl[i].status # "absent"

IsParticipantTable(t) ==
    /\ t = [i \in RowIds |-> t[i]]
    /\ \A i \in RowIds : /\ t[i] = [status |-> t[i].status, score |-> t[i].score]
                         /\ t[i].status \in Statuses \cup {"absent"}

\* A request: an answered question with the button pressed, a posted grading
\* form, or a run of the command with or without --fix-old-scores, whose
\* --participant / --assessment options take this pair in or leave it out.
Marks == [q : Questions, mark : Grades \cup {Null}]

IsInput(i) ==
    \/ /\ i.op = "store" /\ i.q \in Questions /\ i.action \in {"move", "submit"}
       /\ i.answer = Null \/ (IF Written(i.q) THEN i.answer \in Texts
                              ELSE i.answer \in (SUBSET AnswersOf[i.q]) \ {{}})
    \/ i.op = "grade" /\ i.marks \in Seq(Marks)
    \/ i.op = "recalculate" /\ i.fix \in BOOLEAN /\ i.inScope \in BOOLEAN

NoInput == [op |-> "none"]

ASSUME ModeAssumption == Mode \in ScoringModes
ASSUME InputsAssumption == \A i \in Inputs : IsInput(i)
ASSUME SeedAssumption ==
    /\ SeededResponses \in ResponseTable
    /\ \A q \in Questions :
          ~Written(q) /\ Row(SeededResponses, q) /\ Selected(SeededResponses[q])
          => SeededResponses[q].answer \in Selections /\ SeededResponses[q].answer.enc # "string"
    /\ IsParticipantTable(SeededParticipants)
    /\ (\E q \in Questions : Row(SeededResponses, q))
       => \E i \in RowIds : Listed(SeededParticipants, i)
ASSUME NoRowAssumption == NoRow \notin ResponseRow
ASSUME GradesAssumption ==
    IF Mode = "percentile" THEN Grades \subseteq Int
    ELSE \A g \in Grades : IsFiniteSet(DOMAIN g) /\ \A c \in DOMAIN g : g[c] \in Int
ASSUME KeepAssumption == Keep \notin Percentages
ASSUME RequestsAssumption == IsFiniteSet(Requests)
ASSUME NobodyAssumption == Nobody \notin Requests
ASSUME RowIdsAssumption == RowIds \subseteq Nat /\ IsFiniteSet(RowIds)

Labels == {"idle", "load", "save", "grade", "score", "status", "exists", "write",
           "ensure", "commit", "submit", "fix", "done", "error", "crashed"}

Over(r)   == pc[r] \in {"done", "error", "crashed"}
Active(r) == pc[r] # "idle" /\ ~Over(r)

NewResponse == [answer |-> Null, graded |-> FALSE, grade |-> Null]

NoUpsert == [score |-> Keep, status |-> "in_progress", next |-> "done"]

Init ==
    /\ responses = SeededResponses
    /\ participants = SeededParticipants
    /\ nextId = 1 + Cardinality({i \in RowIds : Listed(SeededParticipants, i)})
    /\ respLock = [q \in Questions |-> Nobody]
    /\ partLock = [i \in RowIds |-> Nobody]
    /\ pc = [r \in Requests |-> "idle"]
    /\ input = [r \in Requests |-> NoInput]
    /\ viewResp = [r \in Requests |-> SeededResponses]
    /\ viewPart = [r \in Requests |-> SeededParticipants]
    /\ todo = [r \in Requests |-> <<>>]
    /\ upsert = [r \in Requests |-> NoUpsert]
    /\ found = [r \in Requests |-> FALSE]

-----------------------------------------------------------------------------
(***************************************************************************)
(* The database (external).  The command runs outside a transaction, so it *)
(* reads the committed tables; the two handlers read their view.           *)
(***************************************************************************)
InTx(r) == input[r].op # "recalculate"

ReadsResp(r) == IF InTx(r) THEN viewResp[r] ELSE responses
ReadsPart(r) == IF InTx(r) THEN viewPart[r] ELSE participants

Goto(r, label) == pc' = [pc EXCEPT ![r] = label]

\* The version of a row that a write works on.
CurrentResponse(r, q) == IF respLock[q] = r THEN viewResp[r][q] ELSE responses[q]
CurrentParticipant(r, i) == IF partLock[i] = r THEN viewPart[r][i] ELSE participants[i]

\* Write a response row: wait for its lock, keep it to the end of the transaction.
WriteResponse(r, q, row) ==
    /\ respLock[q] \in {r, Nobody}
    /\ respLock' = [respLock EXCEPT ![q] = r]
    /\ viewResp' = [viewResp EXCEPT ![r][q] = row]

\* Write a participant row, in the transaction or at once.
WriteParticipant(r, i, row) ==
    /\ partLock[i] \in {r, Nobody}
    /\ IF InTx(r)
       THEN /\ partLock' = [partLock EXCEPT ![i] = r]
            /\ viewPart' = [viewPart EXCEPT ![r][i] = row]
            /\ UNCHANGED participants
       ELSE /\ participants' = [participants EXCEPT ![i] = row]
            /\ UNCHANGED <<partLock, viewPart>>

\* The rows an UPDATE of the pair meets, those of other transactions included.
PairRows == {i \in RowIds : Listed(participants, i) \/ partLock[i] # Nobody}

IsFirst(i) == i \in PairRows /\ \A j \in PairRows : i <= j

\* End a transaction or a request: release its rows, drop its local state.
Release(r) ==
    /\ respLock' = [q \in Questions |-> IF respLock[q] = r THEN Nobody ELSE respLock[q]]
    /\ partLock' = [i \in RowIds |-> IF partLock[i] = r THEN Nobody ELSE partLock[i]]
    /\ viewResp' = [viewResp EXCEPT ![r] = SeededResponses]
    /\ viewPart' = [viewPart EXCEPT ![r] = SeededParticipants]
    /\ todo' = [todo EXCEPT ![r] = <<>>]
    /\ upsert' = [upsert EXCEPT ![r] = NoUpsert]
    /\ found' = [found EXCEPT ![r] = FALSE]

\* An exception leaves the handler: DB::transaction rolls back and rethrows.
Fail(r) == Goto(r, "error") /\ Release(r) /\ UNCHANGED <<tables, input>>

-----------------------------------------------------------------------------
\* A request arrives; validation and the question lookup read static tables only.
Start(r) ==
    /\ pc[r] = "idle"
    /\ Cardinality({x \in Requests : Active(x)}) < MaxConcurrent
    /\ \E i \in Inputs :
        /\ input' = [input EXCEPT ![r] = i]
        /\ Goto(r, IF i.op # "recalculate" THEN "load"
                   ELSE IF i.fix THEN "fix"
                   ELSE IF i.inScope THEN "score" ELSE "done")
        /\ todo' = [todo EXCEPT ![r] = IF i.op = "grade" THEN i.marks ELSE <<>>]
    /\ UNCHANGED <<tables, locks, views, upsert, found>>

\* The transaction's first read fixes what it sees.
Load(r) ==
    /\ pc[r] = "load"
    /\ viewResp' = [viewResp EXCEPT ![r] = responses]
    /\ viewPart' = [viewPart EXCEPT ![r] = participants]
    /\ Goto(r, IF input[r].op = "store" THEN "save" ELSE "grade")
    /\ UNCHANGED <<tables, locks, input, todo, upsert, found>>

(***************************************************************************)
(* storeResponse: updateOrCreate of the answer.  Eloquent writes the dirty *)
(* column only, and nothing when the answer is the one it loaded; an       *)
(* insert that meets a row committed since the snapshot violates the       *)
(* unique key, and the re-read does not see that row either.  The observer *)
(* judges the model as loaded plus the new answer.                         *)
(***************************************************************************)
StoredAnswer(in) ==
    IF Written(in.q) \/ in.answer = Null
    THEN in.answer
    ELSE [enc |-> "string", ids |-> in.answer]

SaveResponse(r) ==
    /\ pc[r] = "save"
    /\ LET q      == input[r].q
           loaded == viewResp[r][q]
           answer == StoredAnswer(input[r])
           model  == [(IF loaded = NoRow THEN NewResponse ELSE loaded) EXCEPT !.answer = answer]
       IN  \/ /\ loaded = NoRow /\ responses[q] # NoRow /\ respLock[q] = Nobody
              /\ Fail(r)
           \/ /\ IF loaded = NoRow
                 THEN responses[q] = NoRow /\ WriteResponse(r, q, model)
                 ELSE IF loaded.answer = answer
                 THEN UNCHANGED <<respLock, viewResp>>
                 ELSE WriteResponse(r, q, [CurrentResponse(r, q) EXCEPT !.answer = answer])
              /\ Goto(r, IF ShouldCalculateScore(q, model) THEN "score" ELSE "ensure")
              /\ upsert' = [upsert EXCEPT ![r].next = "ensure"]
              /\ UNCHANGED <<tables, partLock, input, viewPart, todo, found>>

\* storeResponse: make sure of the participant row and mark it in_progress.
EnsureParticipantNever(r) ==         \* mutant: no updateOrInsert
    /\ pc[r] = "ensure"
    /\ Goto(r, "commit")
    /\ UNCHANGED <<tables, locks, frames>>
EnsureParticipant(r) ==
    /\ pc[r] = "ensure"
    /\ upsert' = [upsert EXCEPT ![r] = [score |-> Keep, status |-> "in_progress", next |-> "commit"]]
    /\ Goto(r, "exists")
    /\ UNCHANGED <<tables, locks, input, views, todo, found>>

\* A mark goes on the latest version of the row: Eloquent writes dirty columns, so
\* a mark that the loaded row has already leaves the one that is there by now.
GradedRowStale(r, q, mark) ==        \* mutant: saves the row as it was loaded
    [viewResp[r][q] EXCEPT !.graded = TRUE, !.grade = mark]
GradedRow(r, q, mark) ==
    [CurrentResponse(r, q) EXCEPT !.graded = TRUE,
                                  !.grade = IF mark = viewResp[r][q].grade THEN @ ELSE mark]

\* GradingController::store: mark the next posted response if it exists and is
\* written (the observer rescores after each), then rescore once more.
GradeResponse(r) ==
    /\ pc[r] = "grade"
    /\ IF todo[r] = <<>>
       THEN /\ upsert' = [upsert EXCEPT ![r].next = "commit"]
            /\ Goto(r, "score")
            /\ UNCHANGED <<respLock, viewResp, todo>>
       ELSE LET q == Head(todo[r]).q
            IN  /\ todo' = [todo EXCEPT ![r] = Tail(todo[r])]
                /\ IF Written(q) /\ Row(viewResp[r], q)
                   THEN /\ WriteResponse(r, q, GradedRow(r, q, Head(todo[r]).mark))
                        /\ upsert' = [upsert EXCEPT ![r].next = "grade"]
                        /\ Goto(r, "score")
                   ELSE UNCHANGED <<respLock, viewResp, upsert, pc>>
    /\ UNCHANGED <<tables, partLock, input, viewPart, found>>

(***************************************************************************)
(* AssessmentScoreService::calculateAndUpdateScore.  whereIn() of a string *)
(* raises a TypeError; a null score writes nothing.                        *)
(***************************************************************************)
RaisesTypeError(tbl) ==
    \E q \in Questions : ~Written(q) /\ q \in Scorable(tbl) /\ tbl[q].answer.enc = "string"

ComputeScoreTruthy(r) ==             \* mutant: if ($score), which 0 is not
    /\ pc[r] = "score"
    /\ LET tbl   == ReadsResp(r)
           score == CalculateScore(Mode, tbl)
       IN  IF RaisesTypeError(tbl)
           THEN Fail(r)
           ELSE /\ IF score \in {Null, 0}
                   THEN Goto(r, upsert[r].next) /\ UNCHANGED upsert
                   ELSE Goto(r, "status") /\ upsert' = [upsert EXCEPT ![r].score = score]
                /\ UNCHANGED <<tables, locks, input, views, todo, found>>
ComputeScore(r) ==
    /\ pc[r] = "score"
    /\ LET tbl   == ReadsResp(r)
           score == CalculateScore(Mode, tbl)
       IN  IF RaisesTypeError(tbl)
           THEN Fail(r)
           ELSE /\ IF score = Null
                   THEN Goto(r, upsert[r].next) /\ UNCHANGED upsert
                   ELSE Goto(r, "status") /\ upsert' = [upsert EXCEPT ![r].score = score]
                /\ UNCHANGED <<tables, locks, input, views, todo, found>>

ComputeStatus(r) ==
    /\ pc[r] = "status"
    /\ upsert' = [upsert EXCEPT ![r].status = DetermineStatus(ReadsResp(r))]
    /\ Goto(r, "exists")
    /\ UNCHANGED <<tables, locks, input, views, todo, found>>

\* updateOrInsert: exists(), then an insert or an update of one row.
ExistsNever(r) ==                    \* mutant: inserts without looking
    /\ pc[r] = "exists"
    /\ found' = [found EXCEPT ![r] = FALSE]
    /\ Goto(r, "write")
    /\ UNCHANGED <<tables, locks, input, views, todo, upsert>>
Exists(r) ==
    /\ pc[r] = "exists"
    /\ found' = [found EXCEPT ![r] = \E i \in RowIds : Listed(ReadsPart(r), i)]
    /\ Goto(r, "write")
    /\ UNCHANGED <<tables, locks, input, views, todo, upsert>>

InsertParticipant(r) ==
    /\ pc[r] = "write" /\ ~found[r]
    /\ nextId \in RowIds
    /\ WriteParticipant(r, nextId, [status |-> upsert[r].status,
           score |-> IF upsert[r].score = Keep THEN Null ELSE upsert[r].score])
    /\ nextId' = nextId + 1
    /\ Goto(r, upsert[r].next)
    /\ UNCHANGED <<responses, respLock, input, viewResp, todo, upsert, found>>

UpdateParticipant(r) ==
    /\ pc[r] = "write" /\ found[r]
    /\ \E i \in RowIds :
        /\ IsFirst(i)
        /\ WriteParticipant(r, i, [status |-> upsert[r].status,
               score |-> IF upsert[r].score = Keep THEN CurrentParticipant(r, i).score
                         ELSE upsert[r].score])
    /\ Goto(r, upsert[r].next)
    /\ UNCHANGED <<responses, nextId, respLock, input, viewResp, todo, upsert, found>>

Commit(r) ==
    /\ pc[r] = "commit"
    /\ responses' = [q \in Questions |-> CurrentResponse(r, q)]
    /\ participants' = [i \in RowIds |-> CurrentParticipant(r, i)]
    /\ Goto(r, IF input[r].op = "store" /\ input[r].action = "submit" THEN "submit" ELSE "done")
    /\ Release(r)
    /\ UNCHANGED <<nextId, input>>

\* storeResponse, after its transaction: one UPDATE completes the pair's rows.
SetCompleted(row) == [row EXCEPT !.status = "completed"]

Submit(r) ==
    /\ pc[r] = "submit"
    /\ \A i \in RowIds : partLock[i] = Nobody
    /\ participants' = [i \in RowIds |-> IF Listed(participants, i)
                                         THEN SetCompleted(participants[i])
                                         ELSE participants[i]]
    /\ Goto(r, "done")
    /\ UNCHANGED <<responses, nextId, locks, frames>>

\* --fix-old-scores: every score below 20 is taken for one out of 10.
FixRow(row) ==
    IF row.score # Null /\ row.score < 2000
    THEN [row EXCEPT !.score = 10 * row.score]
    ELSE row

FixOldScaleScores(r) ==
    /\ pc[r] = "fix"
    /\ \A i \in RowIds : partLock[i] = Nobody
    /\ participants' = [i \in RowIds |-> FixRow(participants[i])]
    /\ Goto(r, IF input[r].inScope THEN "score" ELSE "done")
    /\ UNCHANGED <<responses, nextId, locks, frames>>

-----------------------------------------------------------------------------
(***************************************************************************)
(* Failures (external): the victim of a deadlock gets an exception, the    *)
(* handlers do not retry; a request may die between any two statements     *)
(* (killed, execution or lock wait timeout) and loses its transaction.     *)
(***************************************************************************)
\* The row that a request's next statement locks, if it does.
NextResponseRow(r) ==
    IF pc[r] = "save"
    THEN {q \in {input[r].q} : viewResp[r][q] = NoRow
                               \/ viewResp[r][q].answer # StoredAnswer(input[r])}
    ELSE IF pc[r] = "grade" /\ todo[r] # <<>>
    THEN {q \in {Head(todo[r]).q} : Written(q) /\ Row(viewResp[r], q)}
    ELSE {}

NextParticipantRow(r) == {i \in PairRows : pc[r] = "write" /\ found[r] /\ IsFirst(i)}

WaitsFor(r) ==
    ({respLock[q] : q \in NextResponseRow(r)} \cup {partLock[i] : i \in NextParticipantRow(r)})
        \ {r, Nobody}

CycleUnseen(S) == FALSE              \* mutant: no deadlock detection
Cycle(S) ==
    /\ \A r \in S : WaitsFor(r) # {} /\ WaitsFor(r) \subseteq S
    /\ \A r \in S : \E x \in S : r \in WaitsFor(x)

DeadlockVictim(r) ==
    /\ \E S \in SUBSET Requests : r \in S /\ Cycle(S)
    /\ Fail(r)

Crash(r) ==
    /\ Active(r)
    /\ Goto(r, "crashed")
    /\ Release(r)
    /\ UNCHANGED <<tables, input>>

Step(r) ==
    \/ Load(r) \/ SaveResponse(r) \/ EnsureParticipant(r) \/ GradeResponse(r)
    \/ ComputeScore(r) \/ ComputeStatus(r) \/ Exists(r)
    \/ InsertParticipant(r) \/ UpdateParticipant(r)
    \/ Commit(r) \/ Submit(r) \/ FixOldScaleScores(r)
    \/ DeadlockVictim(r)

\* Once every request has run, nothing is left to happen.
Finished == (\A r \in Requests : Over(r)) /\ UNCHANGED vars

Next == (\E r \in Requests : Start(r) \/ Step(r) \/ Crash(r)) \/ Finished

Spec == Init /\ [][Next]_vars

\* PHP runs a request it has begun to its end, and InnoDB grants a row's lock
\* to those that wait for it.
FairSpec == Spec /\ \A r \in Requests : WF_vars(Step(r))

-----------------------------------------------------------------------------
(***************************************************************************)
(* Types                                                                   *)
(***************************************************************************)
IsUpsert(u) ==
    /\ u = [score |-> u.score, status |-> u.status, next |-> u.next]
    /\ u.status \in Statuses
    /\ u.next \in {"ensure", "grade", "commit", "done"}

\* Every table, lock and local of a request has the type that the schema and
\* the handlers give it.
TypeOK ==
    /\ responses \in ResponseTable
    /\ IsParticipantTable(participants)
    /\ nextId \in Nat
    /\ respLock \in [Questions -> Requests \cup {Nobody}]
    /\ partLock \in [RowIds -> Requests \cup {Nobody}]
    /\ pc \in [Requests -> Labels]
    /\ input \in [Requests -> Inputs \cup {NoInput}]
    /\ viewResp \in [Requests -> ResponseTable]
    /\ viewPart = [r \in Requests |-> viewPart[r]]
    /\ \A r \in Requests : IsParticipantTable(viewPart[r])
    /\ todo \in [Requests -> Seq(Marks)]
    /\ upsert = [r \in Requests |-> upsert[r]]
    /\ \A r \in Requests : IsUpsert(upsert[r])
    /\ found \in [Requests -> BOOLEAN]

(***************************************************************************)
(* Properties                                                              *)
(***************************************************************************)
\* A selection that the web stores would be a JSON string inside the JSON
\* column, which every later scoring of the pair chokes on.  No such value is
\* ever committed: the observer's own scoring fails first and rolls it back.
NoStringSelection ==
    \A q \in Questions :
        ~Written(q) /\ Row(responses, q) /\ Selected(responses[q])
        => responses[q].answer.enc # "string"

\* storeResponse makes sure that an assessment_participants row exists in the
\* transaction that saves the answer: whatever fails or dies in between, a pair
\* with a committed answer is on the dashboards.
AnsweredIsListed ==
    (\E q \in Questions : Row(responses, q)) => \E i \in RowIds : Listed(participants, i)

\* Apart from the participant's Submit, a row becomes completed only when every
\* question has a committed response and every written one is graded, although
\* determineStatus worked on a snapshot or on rows read statements ago.
Complete(tbl) == AllAnswered(tbl) /\ AllGraded(tbl)

IsCompleted(row) == row.status = "completed"

Submitted == \E r \in Requests : pc[r] = "submit" /\ pc'[r] = "done"

CompletedIsEarned ==
    [][\A i \in RowIds :
         IsCompleted(participants'[i]) /\ ~IsCompleted(participants[i])
         => Submitted \/ Complete(responses')]_vars

\* "... triggers recalculation so scores stay in sync": between requests, the
\* stored score is what calculateScore makes of the stored responses (it stays
\* as it was while that is null).  Requests must not overlap: a scoring works on
\* its transaction's snapshot.
ScoresStayInSync ==
    (\A r \in Requests : ~Active(r)) =>
        \A i \in RowIds : Listed(participants, i) =>
            CalculateScore(Mode, responses) \in {Null, participants[i].score}

\* The service's scores are percentages: "The calculated score (0-100)".
ScoresArePercentages ==
    \A i \in RowIds : Listed(participants, i) =>
        participants[i].score \in Percentages

\* The pair has one assessment_participants row, although no unique key says so
\* and updateOrInsert only looks before it inserts.  Requests must not overlap:
\* two of them may both find no row and insert one each.
OneRowPerPair ==
    \A i, j \in RowIds : Listed(participants, i) /\ Listed(participants, j) => i = j

\* "Saves responses into participant_responses on Next, Previous, Mark for
\* review, and Submit": no answer a participant posts ends in an error.
SavesResponses ==
    \A r \in Requests : ~(input[r].op = "store" /\ pc[r] = "error")

\* A request that was begun ends: however requests wait for one another's rows,
\* they do not wait forever.
RequestsEnd == \A r \in Requests : Active(r) ~> Over(r)

\* What the responses table promises to its readers (module AnswerSheet): every
\* change of it is one answer given or one grading form, applied as a whole and
\* to the rows as they are then.
Sheet == INSTANCE AnswerSheet WITH sheet <- responses
RefinesAnswerSheet == Sheet!Spec
=============================================================================
