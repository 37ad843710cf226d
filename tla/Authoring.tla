------------------------------- MODULE Authoring -------------------------------
(***************************************************************************)
(* AssessmentController::store, which writes an assessment with all its    *)
(* rows in one transaction and its images to the disk, and                 *)
(* LanguageController::destroy, which takes every text of a language with  *)
(* it, as concurrent requests.                                             *)
(*                                                                         *)
(* The database (external) checks the foreign keys and unique keys of each *)
(* statement; a row that refers to a language holds that language to the   *)
(* end of its transaction.  The disk (external) knows no transactions.     *)
(***************************************************************************)
EXTENDS AssessmentForm, Naturals, FiniteSets

CONSTANTS
    Requests,       \* HTTP requests; each runs once
    MaxConcurrent,  \* bound: requests that may be under way at once
    Forms,          \* the forms that may be posted
    FirstLanguages, \* the languages at the start
    Assigned        \* those that are some user's preference

VARIABLES
    languages,  \* the ids of languages rows
    rows,       \* the committed rows of the assessment that each request made
    files,      \* the images on the disk: who stored them, for which row
    pc,         \* where each request is
    input,      \* the form it posts or the language it deletes
    left,       \* the statements that a store has yet to issue
    draft       \* the rows that its transaction has inserted

vars == <<languages, rows, files, pc, input, left, draft>>

Store(form) == [op |-> "store", form |-> form]
Drop(l) == [op |-> "drop", lang |-> l]
Inputs == {Store(f) : f \in Forms} \cup {Drop(l) : l \in FirstLanguages}
NoInput == [op |-> "none"]

LangOf(row) == IF row.kind \in TextKinds THEN Last(row.at) ELSE Null

\* The rows that a list of statements inserts.
Inserted(script) == {script[k].row : k \in {n \in DOMAIN script : script[n].do = "insert"}}

\* A file is stored for a row of a kind that has images, and before that row is
\* inserted.
InOrder(script) ==
    \A k \in DOMAIN script : script[k].do = "file" =>
        /\ script[k].row.kind \in ImageKinds
        /\ script[k].row \in Inserted(script)
        /\ \A n \in DOMAIN script :
              script[n].do = "insert" /\ script[n].row = script[k].row => k < n

IsStatement(s) ==
    /\ s.do \in {"file", "insert"}
    /\ s.row = Row(s.row.kind, s.row.at, s.row.image) /\ s.row.image \in BOOLEAN
    /\ s.row.kind \in TextKinds => LangOf(s.row) # Null

Statements == UNION {Range(Script(f)) : f \in Forms}

\* What store issues for a form is in order, and is what the form asks for.
ASSUME FormScripts ==
    /\ \A s \in Statements : IsStatement(s)
    /\ \A f \in Forms : /\ Script(f) \in Seq(Statements)
                        /\ InOrder(Script(f))
                        /\ Inserted(Script(f)) = Content(f) /\ Content(f) # {}
ASSUME FormLanguages == FirstLanguages # {} /\ Null \notin FirstLanguages

Over(r) == pc[r] \in {"done", "refused", "failed"}
Active(r) == pc[r] # "idle" /\ ~Over(r)

Init ==
    /\ languages = FirstLanguages
    /\ rows = [r \in Requests |-> {}]
    /\ files = {}
    /\ pc = [r \in Requests |-> "idle"]
    /\ input = [r \in Requests |-> NoInput]
    /\ left = [r \in Requests |-> <<>>]
    /\ draft = [r \in Requests |-> {}]

-----------------------------------------------------------------------------
Goto(r, label) == pc' = [pc EXCEPT ![r] = label]

Start(r) ==
    /\ pc[r] = "idle"
    /\ Cardinality({x \in Requests : Active(x)}) < MaxConcurrent
    /\ \E i \in Inputs :
        /\ input' = [input EXCEPT ![r] = i]
        /\ Goto(r, IF i.op = "store" THEN "validate" ELSE "bind")
    /\ UNCHANGED <<languages, rows, files, left, draft>>

\* validate(), on the languages of that moment; a form that passes has a title,
\* since required refuses an empty list and a blank title.
Validate(r) ==
    /\ pc[r] = "validate"
    /\ IF Languages(input[r].form) \subseteq languages /\ input[r].form.titles # <<>>
       THEN Goto(r, "write") /\ left' = [left EXCEPT ![r] = Script(input[r].form)]
       ELSE Goto(r, "refused") /\ UNCHANGED left
    /\ UNCHANGED <<languages, rows, files, input, draft>>

\* An exception, or the end of the process: the transaction is gone, the files stay.
RollBackCaught(r) ==                 \* mutant: the exception is caught and forgotten
    /\ Goto(r, "done")
    /\ left' = [left EXCEPT ![r] = <<>>]
    /\ draft' = [draft EXCEPT ![r] = {}]
    /\ UNCHANGED <<languages, rows, files, input>>
RollBackNever(r) ==                  \* mutant: the transaction is left open
    /\ Goto(r, "failed")
    /\ left' = [left EXCEPT ![r] = <<>>]
    /\ UNCHANGED <<languages, rows, files, input, draft>>
RollBack(r) ==
    /\ Goto(r, "failed")
    /\ left' = [left EXCEPT ![r] = <<>>]
    /\ draft' = [draft EXCEPT ![r] = {}]
    /\ UNCHANGED <<languages, rows, files, input>>

Writing(r, do) == pc[r] = "write" /\ left[r] # <<>> /\ Head(left[r]).do = do

StoreFileEarly(r) ==                 \* mutant: names the file after a row that has no name yet
    /\ Writing(r, "file")
    /\ files' = files \cup {<<r, Null>>}
    /\ left' = [left EXCEPT ![r] = Tail(@)]
    /\ UNCHANGED <<languages, rows, pc, input, draft>>
StoreFile(r) ==
    /\ Writing(r, "file")
    /\ files' = files \cup {<<r, Head(left[r]).row>>}
    /\ left' = [left EXCEPT ![r] = Tail(@)]
    /\ UNCHANGED <<languages, rows, pc, input, draft>>

\* store() on a disk with 'throw' => false: what cannot be written is no exception.
DiskRefuses(r) ==
    /\ Writing(r, "file")
    /\ left' = [left EXCEPT ![r] = Tail(@)]
    /\ UNCHANGED <<languages, rows, files, pc, input, draft>>

\* The path is what store() returned: nothing was stored, no image is shown.
Kept(r, row) == Row(row.kind, row.at, row.image /\ <<r, row>> \in files)

\* A text needs its language, and there is one per parent and language.
Refuses(r, row) == row \in draft[r] \/ (LangOf(row) # Null /\ LangOf(row) \notin languages)

InsertRowNow(r) ==                   \* mutant: without the transaction
    /\ Writing(r, "insert")
    /\ LET row == Kept(r, Head(left[r]).row)
       IN  IF Refuses(r, row)
           THEN RollBack(r)
           ELSE /\ rows' = [rows EXCEPT ![r] = @ \cup {row}]
                /\ draft' = [draft EXCEPT ![r] = @ \cup {row}]
                /\ left' = [left EXCEPT ![r] = Tail(@)]
                /\ UNCHANGED <<languages, files, pc, input>>
InsertRowPath(r) ==                  \* mutant: a path of its own making, whatever was stored
    /\ Writing(r, "insert")
    /\ LET row == Head(left[r]).row
       IN  IF Refuses(r, row)
           THEN RollBack(r)
           ELSE /\ draft' = [draft EXCEPT ![r] = @ \cup {row}]
                /\ left' = [left EXCEPT ![r] = Tail(@)]
                /\ UNCHANGED <<languages, rows, files, pc, input>>
InsertRow(r) ==
    /\ Writing(r, "insert")
    /\ LET row == Kept(r, Head(left[r]).row)
       IN  IF Refuses(r, row)
           THEN RollBack(r)
           ELSE /\ draft' = [draft EXCEPT ![r] = @ \cup {row}]
                /\ left' = [left EXCEPT ![r] = Tail(@)]
                /\ UNCHANGED <<languages, rows, files, pc, input>>

Commit(r) ==
    /\ pc[r] = "write" /\ left[r] = <<>>
    /\ rows' = [rows EXCEPT ![r] = draft[r]]
    /\ draft' = [draft EXCEPT ![r] = {}]
    /\ Goto(r, "done")
    /\ UNCHANGED <<languages, files, input, left>>

-----------------------------------------------------------------------------
(***************************************************************************)
(* LanguageController::destroy                                             *)
(***************************************************************************)
BindLanguage(r) ==
    /\ pc[r] = "bind"
    /\ Goto(r, IF input[r].lang \in languages \ Assigned THEN "delete" ELSE "refused")
    /\ UNCHANGED <<languages, rows, files, input, left, draft>>

\* The DELETE waits for the transactions that refer to the language; the texts in it
\* go with it.
DeleteLanguageNow(r) ==              \* mutant: does not wait
    /\ pc[r] = "delete"
    /\ languages' = languages \ {input[r].lang}
    /\ rows' = [x \in Requests |-> {row \in rows[x] : LangOf(row) # input[r].lang}]
    /\ Goto(r, "done")
    /\ UNCHANGED <<files, input, left, draft>>
DeleteLanguage(r) ==
    /\ pc[r] = "delete"
    /\ \A x \in Requests : \A row \in draft[x] : LangOf(row) # input[r].lang
    /\ languages' = languages \ {input[r].lang}
    /\ rows' = [x \in Requests |-> {row \in rows[x] : LangOf(row) # input[r].lang}]
    /\ Goto(r, "done")
    /\ UNCHANGED <<files, input, left, draft>>

\* A crash, a lost connection, an author who was deleted meanwhile.
Fail(r) == Active(r) /\ RollBack(r)

Step(r) ==
    \/ Validate(r) \/ StoreFile(r) \/ DiskRefuses(r) \/ InsertRow(r) \/ Commit(r)
    \/ BindLanguage(r) \/ DeleteLanguage(r)

Finished == (\A r \in Requests : Over(r)) /\ UNCHANGED vars

Next == (\E r \in Requests : Start(r) \/ Step(r) \/ Fail(r)) \/ Finished

Spec == Init /\ [][Next]_vars

\* PHP runs a request it has begun to its end, and the database lets a statement
\* that waits for a row go on when the row is free.
FairSpec == Spec /\ \A r \in Requests : WF_vars(Step(r))

-----------------------------------------------------------------------------
(***************************************************************************)
(* Properties                                                              *)
(***************************************************************************)
\* A row of a form, with the image it asks for or without.
FormRows == UNION {{s.row, Row(s.row.kind, s.row.at, FALSE)} : s \in Statements}

\* Tables, disk and locals have the types of the schema and the handlers.
TypeOK ==
    /\ languages \subseteq FirstLanguages
    /\ rows \in [Requests -> SUBSET FormRows]
    /\ files \subseteq Requests \X FormRows
    /\ pc \in [Requests -> {"idle", "validate", "write", "bind", "delete",
                            "done", "refused", "failed"}]
    /\ input \in [Requests -> Inputs \cup {NoInput}]
    /\ left \in [Requests -> Seq(Statements)]
    /\ draft \in [Requests -> SUBSET FormRows]

Without(content, lost) ==
    {IF row \in lost THEN Row(row.kind, row.at, FALSE) ELSE row : row \in content}

Shelf == INSTANCE Catalogue WITH
    Names <- Requests, shelf <- rows, langs <- languages,
    Wholes <- UNION {{Without(Content(f), lost) : lost \in SUBSET {row \in Content(f) : row.image}} :
                        f \in Forms}

\* An assessment is published whole: in one step, with exactly the rows that its
\* form asks for (weights of its own categories, a score per answer, texts), if not
\* with every image, or not at all; and a deleted language takes only its own texts.
RefinesCatalogue == Shelf!Spec

\* An image that a published question or answer refers to is on the disk, although a
\* disk that refuses it raises nothing and the assessment is published all the same.
ImagesExist ==
    \A r \in Requests : \A row \in rows[r] : row.image => <<r, row>> \in files

\* A file that no row refers to was stored by a request that failed or is not over:
\* every store that ends well uses all it stored.
OrphansAreFailures ==
    \A file \in files : file[2] \in rows[file[1]] \/ Active(file[1]) \/ pc[file[1]] = "failed"

\* Every text, committed or about to be, is in a language that exists, although the
\* exists rules look the languages up long before the rows are written.
TextsHaveLanguages ==
    \A r \in Requests : \A row \in rows[r] \cup draft[r] :
        row.kind \in TextKinds => LangOf(row) \in languages

\* A request that was begun ends: the deletion of a language waits for the stores
\* that use it, and they end, well or not, and let go.
RequestsEnd == \A r \in Requests : Active(r) ~> Over(r)
=============================================================================
