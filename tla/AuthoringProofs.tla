---------------------------- MODULE AuthoringProofs ----------------------------
(***************************************************************************)
(* Proofs about Authoring, for every number of requests, every language    *)
(* and every form whose statements are in order.                           *)
(***************************************************************************)
EXTENDS Authoring, TLAPS

-----------------------------------------------------------------------------
(***************************************************************************)
(* The inductive invariant                                                 *)
(***************************************************************************)
\* What a request asks for, and what it has written at each label.
ControlOK(r) ==
    /\ pc[r] \in {"validate", "write"} => input[r].op = "store" /\ input[r].form \in Forms
    /\ pc[r] \in {"bind", "delete"} => input[r].op = "drop" /\ input[r].lang \in FirstLanguages
    /\ pc[r] # "write" => draft[r] = {}
    /\ pc[r] # "done" => rows[r] = {}
    /\ pc[r] \in {"idle", "validate", "bind", "delete"} => \A row : <<r, row>> \notin files

\* While a store writes: what is done and what is left make up the assessment, an
\* image is stored before its row is inserted, and every stored image has its row.
WriteOK(r) ==
    /\ InOrder(left[r])
    /\ \A row : <<r, row>> \in files => row \in Content(input[r].form)
    /\ \E made \in SUBSET Content(input[r].form) :
          /\ made \cup Inserted(left[r]) = Content(input[r].form)
          /\ draft[r] = {Kept(r, row) : row \in made}
          /\ \A k \in DOMAIN left[r] : left[r][k].do = "file" => left[r][k].row \notin made

RequestOK(r) == ControlOK(r) /\ (pc[r] = "write" => WriteOK(r))

\* Files are images of questions and answers, so no language takes their rows.
FilesOK == \A file \in files : file[2].kind \in ImageKinds

IInv ==
    /\ TypeOK /\ FilesOK
    /\ TextsHaveLanguages /\ ImagesExist /\ OrphansAreFailures
    /\ \A r \in Requests : RequestOK(r)

-----------------------------------------------------------------------------
(***************************************************************************)
(* Lists of statements                                                     *)
(***************************************************************************)
\* A list of statements without its first.
LEMMA TailOf ==
    ASSUME NEW s \in Seq(Statements), s # <<>>
    PROVE  /\ Tail(s) \in Seq(Statements) /\ Head(s) = s[1] /\ 1 \in DOMAIN s
           /\ Head(s) \in Statements
           /\ \A k \in DOMAIN Tail(s) : k + 1 \in DOMAIN s /\ Tail(s)[k] = s[k + 1]
           /\ \A k \in DOMAIN s \ {1} : k - 1 \in DOMAIN Tail(s) /\ s[k] = Tail(s)[k - 1]
           /\ DOMAIN s \subseteq Nat /\ DOMAIN Tail(s) \subseteq Nat /\ \A k \in DOMAIN s : k >= 1
  OBVIOUS

LEMMA InsertedTail ==
    ASSUME NEW s \in Seq(Statements), s # <<>>
    PROVE  /\ Head(s).do = "insert" => Inserted(s) = {Head(s).row} \cup Inserted(Tail(s))
           /\ Head(s).do # "insert" => Inserted(s) = Inserted(Tail(s))
<1>1. ASSUME NEW k \in DOMAIN Tail(s), Tail(s)[k].do = "insert"
      PROVE  Tail(s)[k].row \in Inserted(s)
  BY <1>1, TailOf DEF Inserted
<1>2. ASSUME NEW k \in DOMAIN s, s[k].do = "insert"
      PROVE  s[k].row \in Inserted(Tail(s)) \/ (k = 1 /\ s[k].row = Head(s).row)
  <2>1. CASE k = 1
    BY <2>1, TailOf
  <2>2. CASE k # 1
    <3>1. k - 1 \in DOMAIN Tail(s) /\ s[k] = Tail(s)[k - 1]
      BY <2>2, TailOf
    <3>2. Tail(s)[k - 1].do = "insert"
      BY <1>2, <3>1
    <3>3. Tail(s)[k - 1].row \in Inserted(Tail(s))
      BY <3>1, <3>2 DEF Inserted
    <3> QED
      BY <3>1, <3>3
  <2> QED
    BY <2>1, <2>2
<1>3. Inserted(Tail(s)) \subseteq Inserted(s)
  BY <1>1 DEF Inserted
<1>4. Head(s).do = "insert" => Head(s).row \in Inserted(s)
  BY TailOf DEF Inserted
<1>5. Inserted(s) \subseteq Inserted(Tail(s)) \cup (IF Head(s).do = "insert" THEN {Head(s).row} ELSE {})
  BY <1>2, TailOf DEF Inserted
<1> QED
  BY <1>3, <1>4, <1>5

LEMMA InOrderTail ==
    ASSUME NEW s \in Seq(Statements), s # <<>>, InOrder(s)
    PROVE  InOrder(Tail(s))
<1> SUFFICES ASSUME NEW k \in DOMAIN Tail(s), Tail(s)[k].do = "file"
             PROVE  /\ Tail(s)[k].row.kind \in ImageKinds
                    /\ Tail(s)[k].row \in Inserted(Tail(s))
                    /\ \A n \in DOMAIN Tail(s) :
                          Tail(s)[n].do = "insert" /\ Tail(s)[n].row = Tail(s)[k].row => k < n
  BY DEF InOrder
<1>1. /\ k + 1 \in DOMAIN s /\ s[k + 1] = Tail(s)[k] /\ s[k + 1].do = "file" /\ k \in Nat
      /\ s[k + 1].row.kind \in ImageKinds /\ s[k + 1].row \in Inserted(s)
      /\ \A n \in DOMAIN s : s[n].do = "insert" /\ s[n].row = s[k + 1].row => k + 1 < n
  BY TailOf DEF InOrder
<1>2. Tail(s)[k].row \in Inserted(Tail(s))
  <2>1. Head(s).do = "insert" => Head(s).row # s[k + 1].row
    BY <1>1, TailOf
  <2> QED
    BY <1>1, <2>1, InsertedTail
<1>3. ASSUME NEW n \in DOMAIN Tail(s), Tail(s)[n].do = "insert", Tail(s)[n].row = Tail(s)[k].row
      PROVE  k < n
  BY <1>1, <1>3, TailOf
<1> QED
  BY <1>1, <1>2, <1>3

\* Rows of a form, as they are asked for and as they are kept.
LEMMA ContentRows ==
    ASSUME NEW f \in Forms, NEW row \in Content(f)
    PROVE  /\ row = Row(row.kind, row.at, row.image) /\ row.image \in BOOLEAN
           /\ row.kind \in TextKinds => LangOf(row) # Null
           /\ row \in FormRows /\ Row(row.kind, row.at, FALSE) \in FormRows
<1>1. PICK k \in DOMAIN Script(f) : Script(f)[k].row = row
  BY FormScripts DEF Inserted
<1>2. Script(f)[k] \in Statements
  BY <1>1, FormScripts
<1>3. IsStatement(Script(f)[k])
  BY <1>2, FormScripts
<1>4. row \in {Script(f)[k].row, Row(Script(f)[k].row.kind, Script(f)[k].row.at, FALSE)}
  BY <1>1
<1>5. Row(row.kind, row.at, FALSE)
         \in {Script(f)[k].row, Row(Script(f)[k].row.kind, Script(f)[k].row.at, FALSE)}
  BY <1>1
<1>6. row \in FormRows /\ Row(row.kind, row.at, FALSE) \in FormRows
  BY <1>2, <1>4, <1>5 DEF FormRows
<1> QED
  BY <1>1, <1>3, <1>6 DEF IsStatement

LEMMA KeptRow ==
    ASSUME NEW r, NEW f \in Forms, NEW row \in Content(f)
    PROVE  /\ Kept(r, row) \in FormRows
           /\ Kept(r, row).kind = row.kind /\ LangOf(Kept(r, row)) = LangOf(row)
           /\ Kept(r, row).image => Kept(r, row) = row /\ <<r, row>> \in files
           /\ <<r, row>> \in files => Kept(r, row) = row
<1>1. /\ row = Row(row.kind, row.at, row.image) /\ row.image \in BOOLEAN
      /\ row \in FormRows /\ Row(row.kind, row.at, FALSE) \in FormRows
  BY ContentRows
<1>2. CASE row.image /\ <<r, row>> \in files
  BY <1>1, <1>2 DEF Kept, Row
<1>3. CASE ~(row.image /\ <<r, row>> \in files)
  <2>1. Kept(r, row) = Row(row.kind, row.at, FALSE)
    BY <1>1, <1>3 DEF Kept
  <2>2. <<r, row>> \in files => Kept(r, row) = row
    BY <1>1, <1>3, <2>1
  <2>3. LangOf(Kept(r, row)) = LangOf(row) /\ Kept(r, row).kind = row.kind /\ ~Kept(r, row).image
    BY <2>1 DEF LangOf, Row
  <2> QED
    BY <1>1, <2>1, <2>2, <2>3
<1> QED
  BY <1>2, <1>3

\* The rows that a store has kept do not change when a file of another request, or of
\* a row that it has yet to insert, is stored.
LEMMA KeptSame ==
    ASSUME NEW r, NEW row, <<r, row>> \in files' <=> <<r, row>> \in files
    PROVE  Kept(r, row)' = Kept(r, row)
<1>1. CASE <<r, row>> \in files
  BY <1>1 DEF Kept, Row
<1>2. CASE <<r, row>> \notin files
  BY <1>2 DEF Kept, Row
<1> QED
  BY <1>1, <1>2

-----------------------------------------------------------------------------
(***************************************************************************)
(* The steps                                                               *)
(***************************************************************************)
\* A request keeps its part of the invariant when a step leaves its locals and its
\* files alone, and takes at most rows that are committed.
LEMMA Frame ==
    ASSUME NEW x \in Requests, RequestOK(x),
           pc'[x] = pc[x], input'[x] = input[x], left'[x] = left[x], draft'[x] = draft[x],
           rows[x] = {} => rows'[x] = {},
           \A row : <<x, row>> \in files' <=> <<x, row>> \in files
    PROVE  RequestOK(x)'
<1>1. ControlOK(x)'
  BY DEF RequestOK, ControlOK
<1>2. ASSUME pc[x] = "write" PROVE WriteOK(x)'
  <2>1. WriteOK(x)
    BY <1>2 DEF RequestOK
  <2>2. PICK made \in SUBSET Content(input[x].form) :
          /\ made \cup Inserted(left[x]) = Content(input[x].form)
          /\ draft[x] = {Kept(x, row) : row \in made}
          /\ \A k \in DOMAIN left[x] : left[x][k].do = "file" => left[x][k].row \notin made
    BY <2>1 DEF WriteOK
  <2>3. \A row : Kept(x, row)' = Kept(x, row)
    BY KeptSame
  <2>4. draft'[x] = {Kept(x, row)' : row \in made}
    BY <2>2, <2>3
  <2>5. /\ made \cup Inserted(left'[x]) = Content(input'[x].form)
        /\ \A k \in DOMAIN left'[x] : left'[x][k].do = "file" => left'[x][k].row \notin made
    BY <2>2
  <2>6. InOrder(left'[x]) /\ \A row : <<x, row>> \in files' => row \in Content(input'[x].form)
    BY <2>1 DEF WriteOK
  <2>7. made \in SUBSET Content(input'[x].form)
    BY <2>2
  <2> QED
    BY <2>4, <2>5, <2>6, <2>7 DEF WriteOK
<1> QED
  BY <1>1, <1>2 DEF RequestOK

LEMMA InitOK == Init => IInv
  BY FormLanguages DEF Init, IInv, TypeOK, FilesOK, TextsHaveLanguages, ImagesExist,
     OrphansAreFailures, RequestOK, ControlOK

\* A step that only moves a request along, or gives it up, and leaves the tables, the
\* disk and the other requests alone.
LEMMA Moved ==
    ASSUME IInv, NEW r \in Requests, NEW label, pc' = [pc EXCEPT ![r] = label],
           TypeOK', UNCHANGED <<languages, rows, files>>,
           \A x \in Requests \ {r} : input'[x] = input[x] /\ left'[x] = left[x],
           \A x \in Requests : draft'[x] = draft[x] \/ draft'[x] = {},
           \A x \in Requests \ {r} : draft'[x] = draft[x],
           label \in {"validate", "write", "bind", "delete", "failed"} \/ \A row : <<r, row>> \notin files,
           RequestOK(r)'
    PROVE  IInv'
<1>1. \A x \in Requests \ {r} : pc'[x] = pc[x]
  BY DEF IInv, TypeOK
<1>2. \A x \in Requests : RequestOK(x)'
  BY <1>1, Frame DEF IInv
<1>3. FilesOK' /\ ImagesExist'
  BY DEF IInv, FilesOK, ImagesExist
<1>4. TextsHaveLanguages'
  BY DEF IInv, TextsHaveLanguages
<1>5. OrphansAreFailures'
  <2> SUFFICES ASSUME NEW file \in files
               PROVE  file[2] \in rows[file[1]] \/ Active(file[1])' \/ pc'[file[1]] = "failed"
    BY DEF OrphansAreFailures
  <2>1. file[1] \in Requests /\ file = <<file[1], file[2]>>
    BY DEF IInv, TypeOK
  <2>2. file[2] \in rows[file[1]] \/ Active(file[1]) \/ pc[file[1]] = "failed"
    BY DEF IInv, OrphansAreFailures
  <2>3. CASE file[1] = r
    BY <2>1, <2>3 DEF Active, Over, IInv, TypeOK
  <2>4. CASE file[1] # r
    BY <1>1, <2>1, <2>2, <2>4 DEF Active, Over
  <2> QED
    BY <2>3, <2>4
<1> QED
  BY <1>2, <1>3, <1>4, <1>5 DEF IInv

LEMMA StartOK == ASSUME IInv, NEW r \in Requests, Start(r) PROVE IInv'
<1>1. PICK i \in Inputs : /\ input' = [input EXCEPT ![r] = i]
                          /\ pc' = [pc EXCEPT ![r] = IF i.op = "store" THEN "validate" ELSE "bind"]
  BY DEF Start, Goto
<1>2. TypeOK'
  BY <1>1 DEF Start, IInv, TypeOK
<1>3. RequestOK(r)'
  <2>1. ControlOK(r) /\ pc[r] = "idle" /\ UNCHANGED <<rows, files, draft>>
    BY DEF Start, IInv, RequestOK
  <2>2. input'[r] = i /\ pc'[r] = IF i.op = "store" THEN "validate" ELSE "bind"
    BY <1>1 DEF IInv, TypeOK
  <2>3. \/ i.op = "store" /\ i.form \in Forms
        \/ i.op = "drop" /\ i.lang \in FirstLanguages
    BY DEF Inputs, Store, Drop
  <2> QED
    BY <2>1, <2>2, <2>3 DEF RequestOK, ControlOK
<1> QED
  <2> DEFINE label == IF i.op = "store" THEN "validate" ELSE "bind"
  <2>1. label \in {"validate", "write", "bind", "delete", "failed"}
    OBVIOUS
  <2>2. pc' = [pc EXCEPT ![r] = label]
    BY <1>1
  <2> HIDE DEF label
  <2> QED
    BY <1>1, <1>2, <1>3, <2>1, <2>2, Moved DEF Start, IInv, TypeOK

LEMMA ValidateOK == ASSUME IInv, NEW r \in Requests, Validate(r) PROVE IInv'
<1>1. /\ pc[r] = "validate" /\ ControlOK(r)
      /\ input[r].op = "store" /\ input[r].form \in Forms
      /\ UNCHANGED <<languages, rows, files, input, draft>>
      /\ \A row : <<r, row>> \notin files
      /\ draft[r] = {} /\ rows[r] = {}
  BY DEF Validate, IInv, RequestOK, ControlOK
<1>2. CASE pc' = [pc EXCEPT ![r] = "write"] /\ left' = [left EXCEPT ![r] = Script(input[r].form)]
  <2> DEFINE f == input[r].form
  <2>1. /\ Script(f) \in Seq(Statements) /\ InOrder(Script(f))
        /\ Inserted(Script(f)) = Content(f)
    BY <1>1, FormScripts
  <2>2. TypeOK'
    BY <1>1, <1>2, <2>1 DEF IInv, TypeOK
  <2>3. pc'[r] = "write" /\ left'[r] = Script(f) /\ input'[r].form = f
    BY <1>1, <1>2 DEF IInv, TypeOK
  <2>4. WriteOK(r)'
    <3>1. {} \in SUBSET Content(f) /\ {} \cup Inserted(left'[r]) = Content(f)
      BY <2>1, <2>3
    <3>2. draft'[r] = {Kept(r, row)' : row \in {}}
      BY <1>1
    <3> QED
      BY <1>1, <2>1, <2>3, <3>1, <3>2 DEF WriteOK
  <2>5. RequestOK(r)'
    BY <1>1, <2>3, <2>4 DEF RequestOK, ControlOK
  <2> QED
    BY <1>1, <1>2, <2>2, <2>5, Moved DEF IInv, TypeOK
<1>3. CASE pc' = [pc EXCEPT ![r] = "refused"] /\ UNCHANGED left
  <2>1. TypeOK'
    BY <1>1, <1>3 DEF IInv, TypeOK
  <2>2. pc'[r] = "refused"
    BY <1>3 DEF IInv, TypeOK
  <2>3. RequestOK(r)'
    BY <1>1, <2>2 DEF RequestOK, ControlOK
  <2> QED
    BY <1>1, <1>3, <2>1, <2>3, Moved DEF IInv, TypeOK
<1> QED
  BY <1>2, <1>3 DEF Validate, Goto

LEMMA RollBackOK == ASSUME IInv, NEW r \in Requests, Active(r), RollBack(r) PROVE IInv'
<1>1. /\ pc' = [pc EXCEPT ![r] = "failed"] /\ left' = [left EXCEPT ![r] = <<>>]
      /\ draft' = [draft EXCEPT ![r] = {}] /\ UNCHANGED <<languages, rows, files, input>>
  BY DEF RollBack, Goto
<1>2. TypeOK'
  BY <1>1 DEF IInv, TypeOK
<1>3. RequestOK(r)'
  <2>1. pc'[r] = "failed" /\ draft'[r] = {} /\ rows'[r] = rows[r] /\ rows[r] = {}
    BY <1>1 DEF IInv, TypeOK, RequestOK, ControlOK, Active, Over
  <2> QED
    BY <2>1 DEF RequestOK, ControlOK
<1> QED
  BY <1>1, <1>2, <1>3, Moved DEF IInv, TypeOK

LEMMA BindLanguageOK == ASSUME IInv, NEW r \in Requests, BindLanguage(r) PROVE IInv'
<1>1. /\ pc[r] = "bind" /\ ControlOK(r)
      /\ input[r].op = "drop" /\ input[r].lang \in FirstLanguages
      /\ UNCHANGED <<languages, rows, files, input, left, draft>>
      /\ \A row : <<r, row>> \notin files
      /\ draft[r] = {} /\ rows[r] = {}
  BY DEF BindLanguage, IInv, RequestOK, ControlOK
<1>2. PICK label \in {"delete", "refused"} : pc' = [pc EXCEPT ![r] = label]
  BY DEF BindLanguage, Goto
<1>3. TypeOK'
  BY <1>1, <1>2 DEF IInv, TypeOK
<1>4. pc'[r] = label
  BY <1>2 DEF IInv, TypeOK
<1>5. RequestOK(r)'
  BY <1>1, <1>4 DEF RequestOK, ControlOK
<1> QED
  BY <1>1, <1>2, <1>3, <1>5, Moved DEF IInv, TypeOK

\* The state of a store that has a file to write.
LEMMA AtFile ==
    ASSUME IInv, NEW r \in Requests, Writing(r, "file")
    PROVE  /\ pc[r] = "write" /\ left[r] \in Seq(Statements) /\ left[r] # <<>>
           /\ RequestOK(r) /\ WriteOK(r) /\ input[r].form \in Forms
           /\ Head(left[r]).row.kind \in ImageKinds
           /\ Head(left[r]).row \in Content(input[r].form)
           /\ Head(left[r]).row \in FormRows
           /\ Inserted(Tail(left[r])) = Inserted(left[r])
           /\ InOrder(Tail(left[r])) /\ Tail(left[r]) \in Seq(Statements)
<1>1. /\ pc[r] = "write" /\ left[r] \in Seq(Statements) /\ left[r] # <<>>
      /\ Head(left[r]).do = "file" /\ RequestOK(r) /\ WriteOK(r) /\ input[r].form \in Forms
  BY DEF Writing, IInv, TypeOK, RequestOK, ControlOK
<1>2. InOrder(left[r]) /\ Inserted(left[r]) \subseteq Content(input[r].form)
  BY <1>1 DEF WriteOK
<1>3. 1 \in DOMAIN left[r] /\ left[r][1] = Head(left[r]) /\ Tail(left[r]) \in Seq(Statements)
  BY <1>1, TailOf
<1>4. Head(left[r]).row.kind \in ImageKinds /\ Head(left[r]).row \in Inserted(left[r])
  BY <1>1, <1>2, <1>3 DEF InOrder
<1>5. Inserted(Tail(left[r])) = Inserted(left[r]) /\ InOrder(Tail(left[r]))
  BY <1>1, <1>2, InsertedTail, InOrderTail
<1>6. Head(left[r]).row \in Content(input[r].form)
  BY <1>2, <1>4
<1>7. Head(left[r]).row \in FormRows
  BY <1>1, <1>6, ContentRows
<1> QED
  BY <1>1, <1>3, <1>4, <1>5, <1>6, <1>7

\* The file is stored, or the disk refuses it and nobody is told.
LEMMA FileOK ==
    ASSUME IInv, NEW r \in Requests, StoreFile(r) \/ DiskRefuses(r)
    PROVE  IInv'
<1> DEFINE first == Head(left[r]).row
           f == input[r].form
<1>0. Writing(r, "file")
  BY DEF StoreFile, DiskRefuses
<1>1. /\ pc[r] = "write" /\ left[r] \in Seq(Statements) /\ left[r] # <<>>
      /\ RequestOK(r) /\ WriteOK(r) /\ f \in Forms
      /\ first.kind \in ImageKinds /\ first \in Content(f) /\ first \in FormRows
      /\ Inserted(Tail(left[r])) = Inserted(left[r])
      /\ InOrder(Tail(left[r])) /\ Tail(left[r]) \in Seq(Statements)
  BY <1>0, AtFile
<1>2. /\ files' = files \cup {<<r, first>>} \/ files' = files
      /\ left' = [left EXCEPT ![r] = Tail(left[r])]
      /\ UNCHANGED <<languages, rows, pc, input, draft>>
  BY DEF StoreFile, DiskRefuses
<1>3. Head(left[r]).do = "file" /\ 1 \in DOMAIN left[r] /\ left[r][1] = Head(left[r])
  BY <1>0, <1>1, TailOf DEF Writing
<1> HIDE DEF first, f
<1>4. TypeOK'
  BY <1>1, <1>2 DEF IInv, TypeOK
<1>5. left'[r] = Tail(left[r]) /\ \A x \in Requests \ {r} : left'[x] = left[x]
  BY <1>2 DEF IInv, TypeOK
<1>6. WriteOK(r)'
  <2>1. PICK made \in SUBSET Content(f) :
          /\ made \cup Inserted(left[r]) = Content(f)
          /\ draft[r] = {Kept(r, row) : row \in made}
          /\ \A k \in DOMAIN left[r] : left[r][k].do = "file" => left[r][k].row \notin made
    BY <1>1 DEF WriteOK, f
  <2>2. first \notin made
    BY <1>3, <2>1 DEF first
  <2>3. ASSUME NEW row \in made PROVE Kept(r, row)' = Kept(r, row)
    <3>1. <<r, row>> \in files' <=> <<r, row>> \in files
      BY <1>2, <2>2
    <3> QED
      BY <3>1, KeptSame
  <2>4. draft'[r] = {Kept(r, row)' : row \in made}
    BY <1>2, <2>1, <2>3
  <2>5. made \cup Inserted(left'[r]) = Content(f) /\ InOrder(left'[r])
    BY <1>1, <1>5, <2>1
  <2>6. \A k \in DOMAIN left'[r] : left'[r][k].do = "file" => left'[r][k].row \notin made
    BY <1>1, <1>5, <2>1, TailOf
  <2>7. \A row : <<r, row>> \in files' => row \in Content(f)
    BY <1>1, <1>2 DEF WriteOK, f
  <2>8. input'[r].form = f
    BY <1>2 DEF f
  <2> QED
    BY <2>1, <2>4, <2>5, <2>6, <2>7, <2>8 DEF WriteOK
<1>7. RequestOK(r)'
  BY <1>1, <1>2, <1>6 DEF RequestOK, ControlOK
<1>8. \A x \in Requests : RequestOK(x)'
  <2> SUFFICES ASSUME NEW x \in Requests, x # r PROVE RequestOK(x)'
    BY <1>7
  <2>1. \A row : <<x, row>> \in files' <=> <<x, row>> \in files
    BY <1>2
  <2> QED
    BY <1>2, <1>5, <2>1, Frame DEF IInv
<1>9. FilesOK'
  BY <1>1, <1>2 DEF IInv, FilesOK
<1>10. TextsHaveLanguages' /\ ImagesExist'
  BY <1>2 DEF IInv, TextsHaveLanguages, ImagesExist
<1>11. OrphansAreFailures'
  BY <1>1, <1>2 DEF IInv, OrphansAreFailures, Active, Over
<1> QED
  BY <1>4, <1>8, <1>9, <1>10, <1>11 DEF IInv

LEMMA InsertRowOK == ASSUME IInv, NEW r \in Requests, InsertRow(r) PROVE IInv'
<1> DEFINE first == Head(left[r]).row
           f == input[r].form
<1>1. /\ pc[r] = "write" /\ left[r] \in Seq(Statements) /\ left[r] # <<>>
      /\ Head(left[r]).do = "insert" /\ RequestOK(r) /\ WriteOK(r) /\ f \in Forms
  BY DEF InsertRow, Writing, IInv, TypeOK, RequestOK, ControlOK
<1>2. CASE Refuses(r, Kept(r, first))
  BY <1>1, <1>2, RollBackOK DEF InsertRow, Active, Over
<1>3. CASE ~Refuses(r, Kept(r, first))
  <2>1. /\ draft' = [draft EXCEPT ![r] = draft[r] \cup {Kept(r, first)}]
        /\ left' = [left EXCEPT ![r] = Tail(left[r])]
        /\ UNCHANGED <<languages, rows, files, pc, input>>
    BY <1>3 DEF InsertRow
  <2>2. PICK made \in SUBSET Content(f) :
          /\ made \cup Inserted(left[r]) = Content(f)
          /\ draft[r] = {Kept(r, row) : row \in made}
          /\ \A k \in DOMAIN left[r] : left[r][k].do = "file" => left[r][k].row \notin made
    BY <1>1 DEF WriteOK
  <2>3. /\ InOrder(left[r]) /\ InOrder(Tail(left[r]))
        /\ Inserted(left[r]) = {first} \cup Inserted(Tail(left[r]))
        /\ Tail(left[r]) \in Seq(Statements)
    BY <1>1, InsertedTail, InOrderTail, TailOf DEF WriteOK
  <2> HIDE DEF first, f
  <2>4. first \in Content(f)
    BY <2>2, <2>3
  <2>5. Kept(r, first) \in FormRows /\ Kept(r, first).kind = first.kind
        /\ LangOf(Kept(r, first)) = LangOf(first)
        /\ (first.kind \in TextKinds => LangOf(first) # Null)
    BY <1>1, <2>4, KeptRow, ContentRows
  <2>6. TypeOK'
    BY <2>1, <2>3, <2>5 DEF IInv, TypeOK
  <2>7. /\ left'[r] = Tail(left[r]) /\ draft'[r] = draft[r] \cup {Kept(r, first)}
        /\ \A x \in Requests \ {r} : left'[x] = left[x] /\ draft'[x] = draft[x]
    BY <2>1 DEF IInv, TypeOK
  <2>8. WriteOK(r)'
    <3> DEFINE now == made \cup {first}
    <3>1. now \in SUBSET Content(f) /\ now \cup Inserted(left'[r]) = Content(f) /\ InOrder(left'[r])
      BY <2>2, <2>3, <2>4, <2>7
    <3>2. \A row : Kept(r, row)' = Kept(r, row)
      BY <2>1, KeptSame
    <3>3. draft'[r] = {Kept(r, row)' : row \in now}
      BY <2>2, <2>7, <3>2
    <3>4. ASSUME NEW k \in DOMAIN left'[r], left'[r][k].do = "file"
          PROVE  left'[r][k].row \notin now
      <4>1. /\ k + 1 \in DOMAIN left[r] /\ left[r][k + 1] = Tail(left[r])[k] /\ k \in Nat
            /\ 1 \in DOMAIN left[r] /\ left[r][1] = Head(left[r]) /\ left'[r][k] = left[r][k + 1]
        BY <1>1, <2>7, TailOf
      <4>2. left[r][k + 1].row \notin made
        BY <2>2, <3>4, <4>1
      <4>3. left[r][k + 1].row # first
        <5>1. left[r][k + 1].do = "file" /\ left[r][1].do = "insert" /\ ~(k + 1 < 1)
          <6>1. left[r][k + 1].do = "file"
            BY <3>4, <4>1
          <6>2. left[r][1].do = "insert"
            BY <1>1, <4>1
          <6>3. ~(k + 1 < 1)
            BY <4>1
          <6> QED
            BY <6>1, <6>2, <6>3
        <5>2. \A n \in DOMAIN left[r] :
                left[r][n].do = "insert" /\ left[r][n].row = left[r][k + 1].row => k + 1 < n
          BY <2>3, <4>1, <5>1 DEF InOrder
        <5>3. left[r][1].row # left[r][k + 1].row
          BY <4>1, <5>1, <5>2
        <5> QED
          BY <4>1, <5>3 DEF first
      <4> QED
        BY <4>1, <4>2, <4>3
    <3>5. \A row : <<r, row>> \in files' => row \in Content(f)
      BY <1>1, <2>1 DEF WriteOK, f
    <3>6. input'[r].form = f
      BY <2>1 DEF f
    <3> HIDE DEF now
    <3> QED
      BY <3>1, <3>3, <3>4, <3>5, <3>6 DEF WriteOK
  <2>9. RequestOK(r)'
    BY <1>1, <2>1, <2>8 DEF RequestOK, ControlOK
  <2>10. \A x \in Requests : RequestOK(x)'
    BY <2>1, <2>7, <2>9, Frame DEF IInv
  <2>11. FilesOK' /\ ImagesExist' /\ OrphansAreFailures'
    BY <2>1 DEF IInv, FilesOK, ImagesExist, OrphansAreFailures, Active, Over
  <2>12. TextsHaveLanguages'
    <3>1. Kept(r, first).kind \in TextKinds => LangOf(Kept(r, first)) \in languages
      BY <1>3, <2>5 DEF Refuses
    <3> QED
      BY <2>1, <2>7, <3>1 DEF IInv, TextsHaveLanguages
  <2> QED
    BY <2>6, <2>10, <2>11, <2>12 DEF IInv
<1> QED
  BY <1>2, <1>3

\* What is committed: every row of the form, with the images that were stored.
LEMMA AtCommit ==
    ASSUME IInv, NEW r \in Requests, Commit(r)
    PROVE  /\ pc[r] = "write" /\ input[r].form \in Forms /\ rows[r] = {}
           /\ draft[r] = {Kept(r, row) : row \in Content(input[r].form)}
           /\ \A row : <<r, row>> \in files => row \in Content(input[r].form)
<1>1. /\ pc[r] = "write" /\ left[r] = <<>> /\ WriteOK(r) /\ input[r].form \in Forms /\ rows[r] = {}
  BY DEF Commit, IInv, RequestOK, ControlOK
<1>2. Inserted(left[r]) = {}
  BY <1>1 DEF Inserted
<1> QED
  BY <1>1, <1>2 DEF WriteOK

LEMMA CommitOK == ASSUME IInv, NEW r \in Requests, Commit(r) PROVE IInv'
<1> DEFINE f == input[r].form
<1>1. /\ pc[r] = "write" /\ f \in Forms /\ rows[r] = {}
      /\ draft[r] = {Kept(r, row) : row \in Content(f)}
      /\ \A row : <<r, row>> \in files => row \in Content(f)
  BY AtCommit
<1> HIDE DEF f
<1>2. /\ rows' = [rows EXCEPT ![r] = draft[r]] /\ draft' = [draft EXCEPT ![r] = {}]
      /\ pc' = [pc EXCEPT ![r] = "done"] /\ UNCHANGED <<languages, files, input, left>>
  BY DEF Commit, Goto
<1>3. TypeOK'
  BY <1>2 DEF IInv, TypeOK
<1>4. /\ pc'[r] = "done" /\ rows'[r] = draft[r] /\ draft'[r] = {}
      /\ \A x \in Requests \ {r} : pc'[x] = pc[x] /\ rows'[x] = rows[x] /\ draft'[x] = draft[x]
  BY <1>2 DEF IInv, TypeOK
<1>5. RequestOK(r)'
  BY <1>4 DEF RequestOK, ControlOK
<1>6. \A x \in Requests : RequestOK(x)'
  BY <1>2, <1>4, <1>5, Frame DEF IInv
<1>7. FilesOK' /\ TextsHaveLanguages'
  <2>1. FilesOK'
    BY <1>2 DEF IInv, FilesOK
  <2>2. \A x \in Requests : rows'[x] \cup draft'[x] \subseteq rows[x] \cup draft[x]
    BY <1>4
  <2> QED
    BY <1>2, <2>1, <2>2 DEF IInv, TextsHaveLanguages
<1>8. ImagesExist'
  <2>1. ASSUME NEW row \in draft[r], row.image PROVE <<r, row>> \in files
    <3>1. PICK asked \in Content(f) : row = Kept(r, asked)
      BY <1>1
    <3> QED
      BY <1>1, <2>1, <3>1, KeptRow
  <2> QED
    BY <1>2, <1>4, <2>1 DEF IInv, ImagesExist
<1>9. OrphansAreFailures'
  <2> SUFFICES ASSUME NEW file \in files
               PROVE  file[2] \in rows'[file[1]] \/ Active(file[1])' \/ pc'[file[1]] = "failed"
    BY <1>2 DEF OrphansAreFailures
  <2>1. file[1] \in Requests /\ file = <<file[1], file[2]>>
    BY DEF IInv, TypeOK
  <2>2. file[2] \in rows[file[1]] \/ Active(file[1]) \/ pc[file[1]] = "failed"
    BY DEF IInv, OrphansAreFailures
  <2>3. CASE file[1] = r
    <3>1. file[2] \in Content(f) /\ <<r, file[2]>> \in files
      BY <1>1, <2>1, <2>3
    <3>2. Kept(r, file[2]) = file[2]
      BY <1>1, <3>1, KeptRow
    <3> QED
      BY <1>1, <1>4, <2>3, <3>1, <3>2
  <2>4. CASE file[1] # r
    BY <1>4, <2>1, <2>2, <2>4 DEF Active, Over
  <2> QED
    BY <2>3, <2>4
<1> QED
  BY <1>3, <1>6, <1>7, <1>8, <1>9 DEF IInv

\* A language goes with its texts, which are not the rows that files belong to.
LEMMA DeleteLanguageOK == ASSUME IInv, NEW r \in Requests, DeleteLanguage(r) PROVE IInv'
<1> DEFINE l == input[r].lang
<1>1. /\ pc[r] = "delete" /\ ControlOK(r) /\ l \in FirstLanguages /\ l # Null
      /\ \A row : <<r, row>> \notin files
      /\ draft[r] = {} /\ rows[r] = {}
  BY FormLanguages DEF DeleteLanguage, IInv, RequestOK, ControlOK
<1>2. /\ \A x \in Requests : \A row \in draft[x] : LangOf(row) # l
      /\ languages' = languages \ {l}
      /\ rows' = [x \in Requests |-> {row \in rows[x] : LangOf(row) # l}]
      /\ pc' = [pc EXCEPT ![r] = "done"] /\ UNCHANGED <<files, input, left, draft>>
  BY DEF DeleteLanguage, Goto
<1> HIDE DEF l
<1>3. TypeOK'
  BY <1>2 DEF IInv, TypeOK
<1>4. pc'[r] = "done" /\ \A x \in Requests \ {r} : pc'[x] = pc[x]
  BY <1>2 DEF IInv, TypeOK
<1>5. RequestOK(r)'
  BY <1>1, <1>2, <1>4 DEF RequestOK, ControlOK
<1>6. \A x \in Requests : RequestOK(x)'
  BY <1>2, <1>4, <1>5, Frame DEF IInv
<1>7. FilesOK' /\ ImagesExist'
  BY <1>2 DEF IInv, FilesOK, ImagesExist
<1>8. TextsHaveLanguages'
  <2> SUFFICES ASSUME NEW x \in Requests, NEW row \in rows'[x] \cup draft'[x], row.kind \in TextKinds
               PROVE  LangOf(row) \in languages'
    BY DEF TextsHaveLanguages
  <2>1. row \in rows[x] \cup draft[x] /\ LangOf(row) # l
    BY <1>2
  <2>2. LangOf(row) \in languages
    BY <2>1 DEF IInv, TextsHaveLanguages
  <2> QED
    BY <1>2, <2>1, <2>2
<1>9. OrphansAreFailures'
  <2> SUFFICES ASSUME NEW file \in files
               PROVE  file[2] \in rows'[file[1]] \/ Active(file[1])' \/ pc'[file[1]] = "failed"
    BY <1>2 DEF OrphansAreFailures
  <2>1. file[1] \in Requests /\ file = <<file[1], file[2]>> /\ file[2].kind \in ImageKinds
    BY DEF IInv, TypeOK, FilesOK
  <2>2. file[2] \in rows[file[1]] \/ Active(file[1]) \/ pc[file[1]] = "failed"
    BY DEF IInv, OrphansAreFailures
  <2>3. file[1] # r
    BY <1>1, <2>1
  <2>4. LangOf(file[2]) # l
    BY <1>1, <2>1 DEF LangOf, TextKinds, ImageKinds
  <2> QED
    BY <1>2, <1>4, <2>1, <2>2, <2>3, <2>4 DEF Active, Over
<1> QED
  BY <1>3, <1>6, <1>7, <1>8, <1>9 DEF IInv

LEMMA StutterOK == ASSUME IInv, UNCHANGED vars PROVE IInv'
<1>1. /\ TypeOK' /\ FilesOK' /\ TextsHaveLanguages' /\ ImagesExist'
  BY DEF vars, IInv, TypeOK, FilesOK, TextsHaveLanguages, ImagesExist
<1>2. OrphansAreFailures'
  BY DEF vars, IInv, OrphansAreFailures, Active, Over
<1>3. \A x \in Requests : RequestOK(x)'
  BY Frame DEF vars, IInv
<1> QED
  BY <1>1, <1>2, <1>3 DEF IInv

\* The invariant behind everything that is proved about store and destroy: at any
\* point a store has inserted what its statements so far ask for, with the images
\* that reached the disk, and a file belongs to it and to a row it will still insert
\* or has inserted.
THEOREM Invariance == Spec => []IInv
<1>1. IInv /\ [Next]_vars => IInv'
  <2> SUFFICES ASSUME IInv, [Next]_vars PROVE IInv'
    OBVIOUS
  <2>1. ASSUME NEW r \in Requests, Start(r) \/ Step(r) \/ Fail(r) PROVE IInv'
    <3>1. CASE Start(r)
      BY <3>1, StartOK
    <3>2. CASE Step(r)
      BY <3>2, ValidateOK, FileOK, InsertRowOK, CommitOK, BindLanguageOK, DeleteLanguageOK DEF Step
    <3>3. CASE Fail(r)
      BY <3>3, RollBackOK DEF Fail
    <3> QED
      BY <2>1, <3>1, <3>2, <3>3
  <2> QED
    BY <2>1, StutterOK DEF Next, Finished
<1> QED
  BY <1>1, InitOK, PTL DEF Spec

\* Tables, disk and locals keep their types.
THEOREM TypeCorrect == Spec => []TypeOK
  BY Invariance, PTL DEF IInv

\* Every text is in a language that exists, whatever is deleted between the rules
\* that look the languages up and the rows that refer to them.
THEOREM NoTextIsOrphaned == Spec => []TextsHaveLanguages
  BY Invariance, PTL DEF IInv

\* No published row points to an image that is not on the disk.
THEOREM ImagesAreStored == Spec => []ImagesExist
  BY Invariance, PTL DEF IInv

\* Only a failure leaves an image behind that nothing refers to.
THEOREM OrphansHaveCauses == Spec => []OrphansAreFailures
  BY Invariance, PTL DEF IInv

-----------------------------------------------------------------------------
(***************************************************************************)
(* Refinement                                                              *)
(***************************************************************************)
\* What a store commits is its form's assessment, less the images that were refused.
LEMMA CommitPublishes ==
    ASSUME IInv, NEW r \in Requests, Commit(r)
    PROVE  Shelf!Publish(r)
<1> DEFINE f == input[r].form
           content == Content(f)
           lost == {row \in content : row.image /\ <<r, row>> \notin files}
<1>1. f \in Forms /\ rows[r] = {} /\ draft[r] = {Kept(r, row) : row \in content}
  BY AtCommit
<1>2. ASSUME NEW row \in content
      PROVE  Kept(r, row) = IF row \in lost THEN Row(row.kind, row.at, FALSE) ELSE row
  <2>1. row = Row(row.kind, row.at, row.image) /\ row.image \in BOOLEAN
    BY <1>1, ContentRows
  <2>2. CASE row \in lost
    BY <2>2 DEF Kept
  <2>3. CASE row \notin lost
    <3>1. ~row.image \/ <<r, row>> \in files
      BY <2>3
    <3>2. (row.image /\ <<r, row>> \in files) = row.image
      BY <2>1, <3>1
    <3> QED
      BY <2>1, <2>3, <3>2 DEF Kept
  <2> QED
    BY <2>2, <2>3
<1>3. draft[r] = Without(content, lost)
  BY <1>1, <1>2 DEF Without
<1>4. lost \in SUBSET {row \in content : row.image}
  OBVIOUS
<1>5. rows' = [rows EXCEPT ![r] = draft[r]] /\ UNCHANGED languages
  BY DEF Commit
<1> HIDE DEF lost
<1>6. draft[r] \in UNION {{Without(Content(g), gone) :
                              gone \in SUBSET {row \in Content(g) : row.image}} : g \in Forms}
  BY <1>1, <1>3, <1>4
<1> QED
  BY <1>1, <1>5, <1>6 DEF Shelf!Publish

\* Deleting a language takes its texts; a second deletion of it takes nothing.
LEMMA DeleteDrops ==
    ASSUME IInv, NEW r \in Requests, DeleteLanguage(r)
    PROVE  Shelf!Next \/ UNCHANGED <<rows, languages>>
<1> DEFINE l == input[r].lang
<1>1. l \in FirstLanguages /\ l # Null
  BY FormLanguages DEF DeleteLanguage, IInv, RequestOK, ControlOK
<1>2. /\ languages' = languages \ {l}
      /\ rows' = [x \in Requests |-> {row \in rows[x] : LangOf(row) # l}]
  BY DEF DeleteLanguage
<1> HIDE DEF l
<1>3. CASE l \in languages
  BY <1>2, <1>3 DEF Shelf!Next, Shelf!DropLanguage
<1>4. CASE l \notin languages
  <2>1. ASSUME NEW x \in Requests, NEW row \in rows[x] PROVE LangOf(row) # l
    <3>1. CASE row.kind \in TextKinds
      BY <1>4, <3>1 DEF IInv, TextsHaveLanguages
    <3>2. CASE row.kind \notin TextKinds
      BY <1>1, <3>2 DEF LangOf
    <3> QED
      BY <3>1, <3>2
  <2>2. \A x \in Requests : {row \in rows[x] : LangOf(row) # l} = rows[x]
    BY <2>1
  <2>3. rows' = [x \in Requests |-> rows[x]]
    BY <1>2, <2>2
  <2>4. rows = [x \in Requests |-> rows[x]]
    BY DEF IInv, TypeOK
  <2> QED
    BY <1>2, <1>4, <2>3, <2>4
<1> QED
  BY <1>3, <1>4

\* Authoring implements Catalogue: whatever fails, crashes or is deleted meanwhile,
\* an assessment appears whole, in one step, or not at all, and a deleted language
\* takes its own texts and nothing else.
THEOREM PublishedWhole == Spec => RefinesCatalogue
<1>1. Init => Shelf!Init
  BY FormLanguages DEF Init, Shelf!Init
<1>2. ASSUME IInv, [Next]_vars PROVE [Shelf!Next]_<<rows, languages>>
  <2>1. ASSUME NEW r \in Requests, Start(r) \/ Step(r) \/ Fail(r)
        PROVE  Shelf!Next \/ UNCHANGED <<rows, languages>>
    <3>1. CASE Start(r) \/ Fail(r)
      BY <3>1 DEF Start, Fail, RollBack
    <3>2. CASE Commit(r)
      BY <1>2, <3>2, CommitPublishes DEF Shelf!Next
    <3>3. CASE DeleteLanguage(r)
      BY <1>2, <3>3, DeleteDrops
    <3>4. CASE Validate(r) \/ StoreFile(r) \/ DiskRefuses(r) \/ BindLanguage(r)
      BY <3>4 DEF Validate, StoreFile, DiskRefuses, BindLanguage
    <3>5. CASE InsertRow(r)
      BY <3>5 DEF InsertRow, RollBack
    <3> QED
      BY <2>1, <3>1, <3>2, <3>3, <3>4, <3>5 DEF Step
  <2> QED
    BY <1>2, <2>1 DEF Next, Finished, vars
<1>3. IInv /\ [Next]_vars => [Shelf!Next]_<<rows, languages>>
  BY <1>2
<1> QED
  BY <1>1, <1>3, Invariance, PTL DEF Spec, RefinesCatalogue, Shelf!Spec
=============================================================================
