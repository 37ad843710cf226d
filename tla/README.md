# Verification of the assessment platform

TLA+ models, TLC runs and TLAPS proofs for the Laravel application under `app/`:
a multilingual platform on which managers author assessments, participants take
them, assessors grade the written answers, a service computes scores, and
admins look after users, languages and forgotten passwords.

Everything runs from this directory:

    tlc -workers 2 -config MCScoringConcurrent.cfg MCAssessmentScoring
    tlapm AssessmentScoringProofs.tla

## 1. Inventory

State lives in MySQL (InnoDB) and in HTTP sessions. Requests run concurrently in
PHP processes that share nothing else: interaction between components is through
rows, through Eloquent events (the observer) and through direct calls.

| Component | State it keeps | Operations | Hard behaviour | What makes it correct |
|---|---|---|---|---|
| Scoring service (`AssessmentScoreService`) | `assessment_participants.score`, `.status` | `calculateAndUpdateScore` and its pure parts | runs in other handlers' transactions, on their snapshots | scores in range, monotone, in sync with the responses; completed only when earned |
| Observer (`ParticipantResponseObserver`) | none | `saved` | fires inside `storeResponse` and once per posted mark in grading | skips only saves that cannot change the score |
| Test taking (`SurveyController`) | `participant_responses`, `assessment_participants` | `take`, `storeResponse` | several tabs, double clicks, answers while a grader saves | an answer is saved whole, never touches a grade, the pair is listed |
| Grading (`GradingController`) | grades in `participant_responses` | `index`, `show`, `store` | two graders at once, a form of many marks that fails half-way | a form is all or nothing; no grade is lost from the score |
| Recalculation command | the scores of all pairs | `handle` | no transaction; runs beside the web | as above; scores stay percentages |
| Password resets (`AuthController`, `Admin\PasswordResetRequestController`) | `password_reset_requests`, `users.password`, `notifications` | `sendResetLinkEmail`, `approve`, `decline` | checks outside the transaction, two admins at once, users deleted meanwhile | one pending request per user, one decision, nobody is left with an unknown password, everybody is told |
| Authentication | session, `users` | `login`, `register`, `logout`, `resetPassword` | sessions read and written whole by requests that overlap, remember-me | a logout sticks |
| User administration (`Admin\UserController`) | `users`, the imported passwords in the session | `store`, `update`, `destroy`, `regeneratePassword`, `importCsv`, download, exports | checks and then inserts; a list that exists only in the session; two admins | an import is all or nothing, unique names and emails, no password unknown to everybody, an admin remains |
| Locale (`SetLocale`, `locale/switch`) | session locale, `users.language_pref` | middleware on every request, switch | order of precedence across login, logout and expiry | the locale in use is available, a switch sticks |
| Languages (`Admin\LanguageController`) | `languages` | `store`, `update`, `destroy` | check and delete against a concurrent switch | no assigned language disappears |
| Authoring (`AssessmentController`) | assessments, questions, answers, weights, files | `store` | uploads inside a transaction, a disk that refuses, languages deleted meanwhile | an assessment exists whole or not at all, with images that are there |
| Dashboards (`DashboardController`) | none | read | the 0-10 scale heuristic | what is shown is in range and ordered like the scores |
| Access control (`EnsureRole`, `ensureAdmin`) | `users.role` | every route | two mechanisms for one rule | a role reaches its own routes only |
| AI assistant and demo | none | prompt, HTTP call, answer | time-outs of the service | nothing is stored |
| `php-8.3.13/` | | | | vendored interpreter, third party |

`PROJECT.json` lists the same components with their sources, and under `hazards`
the places where this code is hard to test.

## 2. Modules

| Module | Models |
|---|---|
| `ScoreCalc` | The pure part of the scoring service and the observer's condition, as operators over a table of responses. Scores are integers, hundredths of a percent. |
| `AssessmentScoring` | One (assessment, participant) pair: `storeResponse`, `GradingController::store`, the observer, `calculateAndUpdateScore` and the command, statement by statement, as concurrent requests against the two tables. |
| `AnswerSheet` | Abstract: what `participant_responses` promises. One answer or one whole grading form at a time; answers and grades never touch each other. |
| `PasswordReset` | `sendResetLinkEmail`, `approve`, `decline`, `regeneratePassword` and `destroy`, as concurrent requests. |
| `WebSession` | Browsers, cookies, remember-me and the framework's sessions, as the application uses them (external). |
| `Accounts` | Extends it: `SetLocale`, `locale/switch`, `login`, `register`, `logout`, the admins' `store`, `update`, `destroy`, `importCsv` and download of users, and `LanguageController`, as concurrent requests of several browsers. |
| `Directory` | Abstract: what the `users` table promises. Unique names and emails, imports that appear whole, one row changed at a time, deleted users who stay deleted. |
| `AssessmentForm` | The list of statements that `AssessmentController::store` issues for a form, and, as its reference, the rows that the form asks for. |
| `Authoring` | `store` and `LanguageController::destroy` as concurrent requests, with the disk. |
| `Catalogue` | Abstract: assessments appear whole, in one step, and lose only the texts of a deleted language. |
| `Dashboards` | The performance page's figures and the progress bar, as operators on what `ScoreCalc` computes. |
| `ScoreTables` | The responses of one pair as answers, seeded selections and grades write them, one row at a time, in either mode; the properties of scores, charts and progress bars of all those tables. |
| `ScoreCalcProofs` | Proofs about the score service: sums over sets, the range of a score, rounding, raised marks, skipped saves. |
| `AssessmentScoringProofs` | Proofs about any overlap of the scoring requests: types, statuses, rollback of string selections, `AnswerSheet`. |
| `AssessmentScoresProofs` | Proofs about the stored scores: percentages under any overlap; one row and the right score without overlap. |
| `PasswordResetProofs`, `AuthoringProofs` | Proofs about their modules. |
| `ScoreTablesProofs` | Proofs about `ScoreTables`: every property of its run, for every assessment. |
| `AccountsProofs` | Proofs about `Accounts`: types and control, languages, the last admin; that it implements `Directory`. |
| `AccountsSessionProofs` | That switches, lists of passwords and logouts survive other requests. |
| `MCScoreCalc`, `MCAssessmentScoring`, `MCPasswordReset`, `MCAccounts`, `MCAuthoring` | Instances for TLC. |

### How `AssessmentScoring` corresponds to the code

A request (`Requests`) is one HTTP request or one run of the command. `pc[r]` is
the statement it is about to run; a statement is a step, and so is the commit.

| Label | Action | Code |
|---|---|---|
| `idle` | `Start` | validation and lookups; `handle` picks the command's first step |
| `load` | `Load` | the transaction's first read, which fixes its snapshot |
| `save` | `SaveResponse` | `updateOrCreate` of the answer, and the observer's decision |
| `grade` | `GradeResponse` | the loop over the posted marks, one save each, then the last rescoring |
| `score`, `status` | `ComputeScore`, `ComputeStatus` | `calculateScore`, `determineStatus` |
| `exists`, `write` | `Exists`, `InsertParticipant`, `UpdateParticipant` | the statements of `updateOrInsert` |
| `ensure` | `EnsureParticipant` | the `updateOrInsert` at the end of `storeResponse` |
| `commit` | `Commit` | the end of `DB::transaction` |
| `submit` | `Submit` | the UPDATE after the transaction |
| `fix` | `FixOldScaleScores` | `--fix-old-scores` |

`responses` and `participants` are the committed tables; `viewResp[r]` and
`viewPart[r]` are what r's transaction sees, its snapshot with its own writes;
`respLock` and `partLock` say who holds a row. `upsert[r]` holds what an
`updateOrInsert` is about to write and where the handler goes on, so that one set
of actions serves the three places that rescore.

The database is external and modelled from how the code uses it: repeatable
read, writes on the latest version with row locks to the end of the transaction,
a victim for every cycle of waiting transactions (`DeadlockVictim`), no retry
(`DB::transaction` is called with one attempt). `Crash` is a request that dies
between two statements, for whatever reason. Eloquent's dirty tracking matters
and is kept: a save writes the columns that differ from the loaded row, on the current
version of the row, and no UPDATE at all when nothing differs, although the observer
still runs. So a posted mark equal to the one that was loaded leaves alone what another
grader committed meanwhile (`GradedRow`).

A selection posted by the form is stored as a JSON string inside the JSON column
(`enc |-> "string"`), because `storeResponse` encodes it and the model's cast
encodes it again; a seeded one is a list.

Abstractions: the pair is fixed, so a lock stands for one row of the pair; gap
locks are left out (inserts of different rows do not wait for each other); the
UPDATEs of all rows (`Submit`, `FixOldScaleScores`) wait until every row of the
pair is free and then run as one step; `graded_at` is whether there is one, so
a mark posted again by the same grader in the same second locks its row here, where Eloquent
would find nothing to write, which no property distinguishes; the command's other pairs are another instance of the
model, and `inScope` says whether its options take this pair in.

### How `PasswordReset` corresponds to the code

`users[u]` is the password of u: a random password is named by the request that
generated it, so two passwords are equal only if they are the same one.
`resets[id]` is a row with its user, token (the request that created it),
temporary password and status. `BindReset` is route binding and the status check
on the loaded row; `LoadUser`, `SetPassword`, `SetStatus`, `InsertNotice` and
`Commit` are the statements of the transaction, whose writes become visible
together at `Commit`. `sendResetLinkEmail` has no transaction: `FindUser`,
`CheckPending`, `CreateReset`, `PluckAdmins` and each `NotifyAdmin` are steps of
their own. `DeleteUser` and `CascadeDelete` are one DELETE: it takes the user's row,
then the rows that refer to it. Reset rows go with the user, rows that the user approved
forget by whom (`approved_by`, `nullOnDelete`), and a notification
forbids the deletion (its foreign key has no delete rule), which fails the request.

Locks follow InnoDB's foreign keys: a statement that makes a row refer to a user shares
that user's row (`userRefs`) with others that do, and neither passes, nor is passed by, one
that writes it (`userLock`, `Free`). So approve's UPDATE of the reset row is two
steps, since it may hold the row while it waits for the admin it names (`SetStatus`,
`ReferApprover`), and a request may wait for several others at once (`WaitsFor`, `Cycle`).

`met` is a history variable: the pairs of requests that contend for the same
thing (two decisions of one row, two requests for one user) and overlapped. The
checks of this code are not atomic with its writes, so the honest statement of
"decided once" and "one pending request" names the overlap that breaks them:
`DecidedOnce` and `OnePendingPerUser` say that nothing else does. So does `ApprovedPasswordIsShown`:
the admins read a new password on the page of its request, which shows it for approved
requests only (`ShownPassword`), and nothing but a decline that overlapped the approval takes it away.

Abstractions: notes, messages and time stamps are left out; new users are not created.

### How `Accounts` and `WebSession` correspond to the code

A request opens its session (`Opened`), is authenticated (`UserOf`: the session's
user, else the one a remember-me cookie names, which logs in and moves the session),
meets `auth` and route binding (`Refused`), then `SetLocale`, then `EnsureRole` and
`ensureAdmin` (`Entry`), in that order, which is the framework's order of priority: a
request that `auth` turns away never reaches `SetLocale`. All of that is `Start`. The handler follows,
one step per statement, and `Close` is the answer: an error page too ends in an answer,
and every answer writes the whole session back, with an UPDATE that does nothing if
the row was destroyed meanwhile. `http[r]` is the request's copy of its session.

| Label | Action | Code |
|---|---|---|
| `find`, `prefer` | `FindLanguage`, `SavePreference` | `locale/switch` |
| `login`, `enter` | `Login`, `Enter` | `Auth::attempt`, `Auth::login` and the regenerated session |
| `logout` | `Logout` | `logout` |
| `validate` | `Validate` | the rules of `register`, `store` and `update` |
| `insert`, `amend`, `delete` | `InsertUser`, `AmendUser`, `DeleteUser` | the statement that follows |
| `import` | `BeginImport`, `SkipRow`, `ImportRow`, `CommitImport` | the transaction of `importCsv` |
| `keep` | `KeepList` | the list of passwords goes into the session |
| `download` | `Download` | `downloadImportedPasswords` |
| `checkcode` to `deletelang` | `CheckCode`, `InsertLanguage`, `AmendLanguage`, `CheckUsers`, `DeleteLanguage` | `LanguageController` |

A password stands for its hash and is named by the request that hashed it: a salted hash is new,
whether the plain text was generated, typed in or the fourth column of the CSV. Two users may
well have the same plain text; no property speaks of it.

Eloquent writes only columns that differ from the loaded row (`Amended`, `SavePreference`,
`AmendLanguage`), on the row as it is now. An import reads its snapshot and its own rows (`Seen`) and
meets committed rows that it does not see only when it inserts (`Taken`); a unique key
that another import has written and not committed makes it wait (`Holders`).

The history variables say what properties are about: `chosen[b]`, the locale that browser
b was last answered a switch to; `owed[b]`, the import whose list b may still
fetch; `clash`, the browsers whose requests overlap; `ended`, sessions logged out.

Abstractions: whether a posted password is right is a choice; CSRF tokens, flash data and
other columns of `users` are left out; the cookie reaches the browser with the save;
rows elsewhere that forbid a deletion are a choice of `DeleteUser` to fail; a crash that loses a
new session id also loses the history that went with it.

### How `Authoring` corresponds to the code

`AssessmentForm` turns a form into the list of statements that `store` issues: translations
without language or text skipped, weights only for categories of the form, answers only for
mcq questions, an image before the row that keeps its path. `Authoring` runs
that list: `Validate` (the rules, on the languages of that moment), `StoreFile` or `DiskRefuses` (the
public disk has `'throw' => false`: `store()` returns false and the row gets no usable path),
`InsertRow` (foreign keys and unique keys may refuse, which rolls back), `Commit`. A row that refers
to a language holds it, so `DeleteLanguage` waits; its cascade takes the texts.

A row is named by kind and place, so that unique keys (parent and language, answer and
category) are equalities of names. The filter for blank titles is left out: `required` refuses a
blank title before it. Column values other than image and language are left out.

### What `Dashboards` computes

`Progress` is `take`'s percentage; `CategoryScores`, `OverallScore` and `Trend` are the figures of the
performance page. They are evaluated on every table that `ScoreTables` reaches. `take` has no
other state: the index is cut to the questions there are, and a 404 answers an empty assessment.
The chart adds what the service leaves out (`ChartEntries`): `graded_categories` of multiple-choice
rows, where `PsychometricResponsesSeeder` keeps the weights of the answer it chose. In `ScoreTables` a
row is saved whole at a time: `Answer` is `storeResponse` (for a multiple-choice question the empty
selection, the only one it can save), `Select` the seeder, `Grade` the grading form.

## 3. Runs

Bounds are constants of the cfg files. Questions: two written ones out of 4 and 2
points and one multiple-choice one, so that partial grading, a written question
without a grade, a mark above the maximum and a question without max_score all
occur. Requests run once each; `MaxConcurrent` bounds how many overlap.

| Run | Checks | Result |
|---|---|---|
| `score` | both modes, every table over three questions, marks 0..4, weights 0, 1, 3 and 10: `ScoreInRange`, `PercentileIsNearest` (against a reference that counts points), `RaisingNeverLowers`, `SkippedSaveKeepsScore`, `ChartMatchesScore`, `FullProgressIsComplete` (every size up to 100 questions), `OverallIsBounded` | holds, 19 275 states |
| `score_full_marks` | `FullMarksAreFullScore` | violated |
| `scoring_concurrent` | three overlapping requests on an answered, ungraded pair: `TypeOK`, `NoStringSelection`, `ScoresArePercentages`, `CompletedIsEarned`, and that the responses implement `AnswerSheet` (`RefinesAnswerSheet`) | holds |
| `scoring_sequential` | four requests one after another from empty tables: `ScoresStayInSync`, `AnsweredIsListed`, `OneRowPerPair` | holds |
| `scoring_liveness` | three overlapping requests that wait for each other, all forms of the command: `RequestsEnd` | holds |
| `scoring_lost_grade` | two graders, a question each: `ScoresStayInSync` | violated |
| `scoring_selection` | a multiple-choice answer: `SavesResponses` | violated |
| `reset_concurrent` | four requests, three at a time, one member and two admins: `TypeOK`, `ApprovedPasswordIsShown`, `DecisionIsNotified`, `AllAdminsNotified`, `DecidedOnce`, `OnePendingPerUser` | holds, 1.1 million states |
| `reset_liveness` | decisions, deletion and regeneration overlapping: `RequestsEnd` | holds |
| `accounts` | three requests, two at a time, of two browsers with an admin each, 18 inputs: `TypeOK`, `AssignedLanguageExists`, `SwitchSticks`, `OwedListIsThere`, `LogoutSticks`, `DeletionLeavesAnAdmin`, `RefinesDirectory` | holds, 470 000 states |
| `accounts_passwords` | an import and its download: `DownloadSendsTheList` | violated |
| `authoring` | three requests, two at a time, three forms and three languages: `TypeOK`, `ImagesExist`, `OrphansAreFailures`, `TextsHaveLanguages`, `RefinesCatalogue`, `RequestsEnd` | holds, 150 000 states |

Why the bounds are enough: every handler touches the rows of one pair (or one
user), so what requests do to each other shows with two of them, and a third is
there to disturb both, or to come after them. Four are needed where a history matters:
two answers, a grade and a regrade; a request, two decisions and a deletion. In `accounts`
two overlap and a third comes before or after: an import, one that meets it, and the
download. `LogoutSticks` is a statement about two overlapping requests: with three of one
browser, a request that still sends the old cookie after the logout destroyed the row
inserts it again, empty, and the UPDATE of one that began before the logout then
finds it and brings the user back. In `authoring` a store meets
another or a deletion, and the forms have between them every branch of `store`. Requests
are interchangeable, so `Permutations` is a sound symmetry for the safety runs; the
liveness runs (`authoring` among them) use none. Every action fires in some passing run. Nothing is lost by
stopping when all requests are over: `Finished` stutters there, and deadlock is
checked everywhere.

Fairness: weak fairness of each request's own steps, and of nothing else. PHP runs a
begun request to its end, InnoDB grants a free row to a waiter and picks a victim
of a cycle (`DeadlockVictim` is among the steps). Requests need not start and need
not crash. The mutants without deadlock detection show that the first two liveness
properties rest on it: nothing in the code orders its locks. In `Authoring` the one who waits
is a deletion, for a transaction that never waits for it, so no cycle arises; there
the mutant leaves a transaction open.

### What the violations show

1. `score_full_marks`: in categorical mode the best possible score is 33.33%;
   the service divides by the maximal weight twice.
2. `scoring_selection`: a multiple-choice answer posted by the form is never
   saved; the request ends in a TypeError. `NoStringSelection` and its proof say
   the same from the other side: it is at least always rolled back.
3. `scoring_lost_grade`: two graders who save together leave a score that misses
   one of the grades until somebody saves again.
4. `accounts_passwords`: the download of imported passwords ends in a TypeError, after the
   list was taken out of the session. The passwords are hashed in `users`, so nobody knows
   them any more; each of the imported users needs a new one. `OwedListIsThere` says that up to
   the download nothing else loses the list.

The models violate more wishes that nobody wrote down as plainly; they are not
runs, and a cfg with other constants shows each of them:

- `OneRowPerPair` with `MaxConcurrent = 2` on empty tables: `assessment_system.sql`
  has a unique key on the pair, the migrations do not.
- `ApprovedPasswordIsShown` without its exception: an approve and a decline that both passed the check and commit
  in this order leave a declined request whose row keeps the user's new password, and `show` decrypts
  it for approved requests only ("temporary password if approved", `README.md:170`). The admin who
  approved has seen it, once, on the page that follows.
- `DecidedOnce` and `OnePendingPerUser` without `met`: two admins who open the same reset both pass
  the check ("This password reset request has already been processed.") and decide it; two clicks on
  "forgot password" open two.
- The expiry of temporary passwords ("Passwords expire after 1 day", `README.md`) is stored in
  `temporary_password_expires_at` and never read; nor does `login` look at `users.status`.
- `DeletionLeavesAnAdmin` without its condition: two admins who delete each other at the same time
  leave none.
- An `OwedListIsThere` that starts at the commit: a crash between commit and answer loses the passwords, and so
  does a second import before the first list is fetched.
- A preference that survives: "Locale middleware persists preferences per-user and across sessions"
  (`README.md`), but every page puts a locale into the session, guests' pages too, and it wins
  over `users.language_pref`. Only a remember-me login, where no page came before, takes the
  preference. A switch to an available locale without a `languages` row erases it.
- A language that is deleted takes the titles in it: an assessment may be left without any
  (`Catalogue` allows it, as the cascade does).
- `OverallIsBounded` for `Trend`: 15% is shown as 150 in the trends and as 100 overall; and `ChartMatchesScore`
  needs its factor of three.
- `ChartMatchesScore` without `CountsEvenly`: "Written questions graded by assessor: use graded_categories"
  (`DashboardController.php:235`), but the chart uses those of every row, and the seeder puts the chosen answer's
  weights there on multiple-choice rows. A seeded answer counts twice against a written one in the same
  category, and goes on counting after its selection is emptied. The service reads neither.
- `ScoresArePercentages` with `--fix-old-scores` for another pair: a score of 16.67
  becomes 166.7. Rescoring the pair in the same run would put it right.
- `AllAdminsNotified` of a request that died instead of finishing: its row stays,
  pending, and blocks further requests of the user, with some admins untold.
- `SkippedSaveKeepsScore` without its exception: emptying a seeded selection changes
  the score, and the observer, which looks at the new value only, skips it.

## 4. Proofs

The proofs hold for every value of the constants that satisfies the modules'
named assumptions: any questions, answers, points, inputs, users, languages, browsers, any number of
requests, rows and overlap. What is assumed of the rows at the start is what the seeders
and the schema give: well-typed rows, unique names and emails, preferences that
exist, no string selection, a participant row wherever there are responses. TLC evaluates
the assumptions on every run. A theorem that needs more than they say names it as a hypothesis.

`AssessmentScoringProofs`. `IInv` is inductive (`Invariance`). Besides the types it says,
for each request by label, what it may rely on:

- a row the request holds is the committed row plus this request's own answer or
  marks, and a row it only read is never ahead of the committed one (otherwise
  `Commit` could undo a committed write);
- a transaction that wrote a string selection is still before its scoring, or
  cannot pass it: `StringsRollBack` needs it, since the string is in the view long
  before anything could commit;
- a `storeResponse` about to commit has written a participant row, and rows are never
  removed: `AnsweredPairsAreListed`;
- a status "completed" on its way through `upsert` was computed from responses that
  the committed ones only extend (rows are never deleted, `graded_at` is never
  reset), so that it is still true when it is written, however late:
  `CompletionIsEarned`;
- what a commit changes is one answer, or grades of written rows that exist:
  `ResponsesRefineSheet`, with `sheet <- responses` as the refinement mapping; every
  other step is a stutter of `AnswerSheet`.

`PasswordResetProofs`. `IInv` adds to the properties that ids are handed out in order,
that a password names a request that has begun, and that from `SetStatus` on the
transaction holds its reset row, so that a deletion cannot take the row between
the check and the commit (`DecisionsAreNotified`); and that the row of the request by which a user got
the password has that password too (`PasswordsOnFile`).
`AdminsAreNotified` rests on `TokensOK`: while a request is notifying, every admin without
a notification is still on its list; and on `OwnersExist`: the user of a reset row
exists, so a decision never brings a deleted user back.
`DecisionsStand` and `PendingIsUnique` need a second invariant, `OverlapInv`: two contending requests that
are under way have met (`ActiveMet`); whoever has passed the check, or decided, has met
everyone who decided that row (`DecidersOK`, `DecidingMet`); and the same for those who are about to create a reset,
or did, of one user (`CreatorsOK`, `CreatingMet`). A request that begins after a decision is committed finds the
row decided, and that is all the code has to offer. With it `ApprovedPasswordsAreShown`: if the row with the user's password is
not approved, somebody declined it, and has met the one who approved.

`AuthoringProofs`. Assumed of the forms (`FormScripts`, which TLC evaluates on the forms of
the run): their statements are in order (an image before its row) and insert exactly the form's rows.
`IInv` says of a store that is writing (`WriteOK`) that some set of rows `made` is in the draft, as
kept, that `made` and what is left make up the form's assessment, and that the images
still to be stored belong to rows that are not in `made`: without the last part a late file would
change what was already inserted. At `Commit` nothing is left, so the draft is the whole
assessment less the refused images, which is `Publish` (`PublishedWhole`, with `shelf <- rows`); a
file of the request is among its rows (`OrphansHaveCauses`), and a row with an image has its file
(`ImagesAreStored`). A deletion that comes through is a `DropLanguage`, or a stutter if
the language is gone already, since by `NoTextIsOrphaned` no row is in it.

`ScoreCalcProofs`. Scores are sums over sets of questions, answers and categories. A sum is a
recursively chosen function, and a fact about all finite sets is proved by taking a smallest subset
that contradicts it. From a few such facts (a sum of bounded terms is bounded, sums of
equal terms are equal, a product of positive denominators is positive) follows
`ScoreIsPercentage`: for a table whose written answers carry marks of the kind the mode
posts and whose selections are finite sets (`TableOK`), the score is missing or in 0..10000, whatever points,
weights and marks there are, negative ones too. `Clamp` sees to the range; the proof shows that
what it is given is a number, so that no division is by zero. `ScoreAlike` says that the score reads
nothing of a table but marks, selections and which rows there are; `SkippedSavesKeepScore` follows for
every save that the observer skips. `PercentileScoreIsNearest` is about the rounding: no other
hundredth of a percent is nearer to the quotient of the two sums. `RaisedMarksNeverLower` matches the terms of two tables
one by one (`SumCompare`; `SumSplit` says that the order of a sum does not matter): questions in
percentile mode, weights in categorical mode, where categories and
denominators stay the same. It needs answers and questions to have different names, as `WeightsAssumption` has
it, since a weight is named by where it comes from.

`ScoreTablesProofs`. `TableInv` is inductive, since each step saves one row (`NextSavesRow`): every row is one of
`Rows`, and a grader's mark comes with its `graded_at`. It was model-checked beside the properties of `score`. From it
and the theorems of `ScoreCalcProofs` follow `ScoresInRange`, `RaisingNeverLowersScore` and `SkippedSavesAreIdle`, as
statements about the behaviours of `ScoreTables`. `ScoresAreNearest` needs that points counted one by one are as many as their
sum (`CountPoints`). `FullProgressCompletes` and `OverallScoresBounded` are arithmetic, the latter over the fold
`SumSeq` of one or two scores. `ChartsMatchScores` first discards what only the chart counts: where it counts
evenly, those marks match the weights of whole categories one by one (`EvenEntries`), which doubles both total and
maximum (`TotalsDouble`) and leaves every bar as it was (`BarsDouble`). Then each bar is three times the category's
share of the common denominator but for its rounding (`ShareAndBar`), the deviations add up (`SumsClose`), and so the
means differ by at most 0.7% (`MeansMatch`). `FullMarksAreAThird` says for every assessment what `score_full_marks` shows
on one: with weights of at most 3 no score is above 33.33%, and full marks are exactly that. Besides the
validation of the forms these proofs assume that an answer belongs to one question (its foreign key) and that
`NULL` is neither a number nor a set of weights.

`AssessmentScoresProofs` uses the proofs about requests and scores. `RangeInv` follows a score through view, `upsert` and row:
`ScoresStayPercentages` holds under any overlap, with `NoFix`, since `--fix-old-scores` multiplies what it
finds. `PairInv` and `SyncInv` need that no transaction of the pair, nor a rescoring by the command, falls into
another (`OneWriter`), because the code itself does (`scoring_lost_grade`). They need no more: requests may wait at their
first read, submit, fail and die while another one's transaction runs (`Aside`: such steps commit no answer, add no row and change no
score). A transaction then sees the committed answers and its own, and which rows there are (`ViewIsCurrent`);
an insert is due only where no row is (`SerialPairsKeepOneRow`). So a lock on the pair for as long as a
transaction lasts is all that both properties lack. `PairsKeepOneRow` and `ScoresKeepInSync` are the
case `MaxConcurrent = 1` of the run, where `OneRunsAlone` discharges `OneWriter`.
`SyncInv` says that between two statements the view's row has the score of the view's
responses, or the request is about to rescore, or the right score is on its way to the row; every
request may still fail or die at any statement (`SerialScoresKeepInSync`). At the start the rows must agree
already (`Rated`), and no multiple-choice row may hold a selection (`Unselected`): emptying one that
was seeded is a save that the observer skips, and the score stays. `SyncInv` was model-checked on
the configuration of `scoring_sequential` before it was proved, and both properties, under `OneWriter`, with three
requests that overlap.

`AccountsProofs`. `Control` says, by label, what a request asks for and what it has
loaded, and gives `TypeOK` (`AccountsTypes`). `LangInv` adds that rows of an unfinished import have no
preference; then the foreign key decides every write and `AssignedLanguages` holds, however a deletion falls between look-up
and write. `DeletionKeepsAnAdmin` is a step property: one row goes at a time, and not one's own.

Its second part proves the refinement. `DirInv` has three parts: names and emails of the table and of
all drafts are pairwise different (`RowsOK`, `DraftsOK`: a unique key makes others wait for keys that are not
committed), and a user holds a password generated by a request only if that request has written it (`PasswordsOK`),
so that the password of an import is new when the import appears. `AccountsRefineDirectory`
follows step by step, with `rows <- users`; all steps but the five that write users are stutters.

`AccountsSessionProofs`. A session id is held, as a cookie or by requests, for one browser
only (`Own`). `SessionInv` then describes a browser whose requests have not overlapped
(`SoloOK`): its stored session has the locale it chose (`ChosenOK`) and the list it is owed, with everybody who
still has a password of that import (`OwedOK`), and so has the copy that its request will write back. Hence
`SwitchesStick` and `OwedListsAreThere`, under any traffic of the other browsers.
`LogoutsStick` has the hypothesis `TwoPerBrowser`, and needs it: with three requests of one browser a
session can come back, as section 3 describes. Under it (`LogoutInv`, `StaleOK`) a request that still
holds the user of a logged-out session saves by an UPDATE of a row that is gone, and nobody else can
put that row back before it has answered. `LogoutsStickInPairs` discharges the hypothesis where
`MaxConcurrent` is at most 2, as in the run.

Only model-checked: liveness, that is `RequestsEnd` of three modules (fairness and ENABLED are out of the
prover's reach); and that `Script` inserts `Content` for every form, which needs induction over data (it is an
assumption of the proofs that TLC evaluates on the forms of the run). Every invariant and every action property
that a passing run checks, and every refinement, is also a theorem. The violated properties of section 3
are counterexamples and need no proof.

## 5. Not modelled, and the plan

Not modelled for good: views, translations of texts, exports and listings, the counts of the admin,
manager and assessor pages (one of them, `development_plans` with status `active`, counts a status that
the schema does not have), the AI services (stateless HTTP), `routes/api.php`
(`bootstrap/app.php` does not load it), the broker's `resetPassword` and `sendResetLink` (no migration creates
its table), the seeders' data. `php-8.3.13/` is the source of a third-party
interpreter, by far the larger part of the repository's lines and no part of this program:
what PHP and the framework do is modelled where the application relies on it
(return types, sessions, transactions) and marked external.

Next, in this order:

1. A model of the same handlers with a lock on the pair at the start of the transaction, which the code does not have yet:
   `OneWriter`, the hypothesis of `SerialPairsKeepOneRow` and `SerialScoresKeepInSync`, would be an invariant of it.
2. The lists and counts of the read-only pages, as operators on the tables the modules have.
