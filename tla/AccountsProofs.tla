---------------------------- MODULE AccountsProofs ----------------------------
(***************************************************************************)
(* Proofs about Accounts, for any number of requests, browsers, users and  *)
(* languages: types, the control of the handlers, and that the users table *)
(* implements Directory.                                                   *)
(***************************************************************************)
EXTENDS Accounts, FiniteSetTheorems, TLAPS

-----------------------------------------------------------------------------
(***************************************************************************)
(* Inputs and labels                                                       *)
(***************************************************************************)
Ops == {"page", "logout", "download", "switch", "login", "register", "store", "update", "destroy",
        "import", "addlang", "editlang", "droplang"}

\* What the fields of a request hold, by what it asks for.
LEMMA InputShape ==
    ASSUME NEW i \in Inputs
    PROVE  /\ i.from \in Browsers /\ i.op \in Ops /\ i # NoInput
           /\ i.op = "switch" => i.locale \in Locales
           /\ i.op \in {"register", "store", "update"} => i.new \in Details
           /\ i.op \in {"update", "destroy"} => i.user \in UserIds
           /\ i.op = "import" => i.rows \in Seq(CsvRow) /\ i.role \in Roles
           /\ i.op \in {"addlang", "editlang"} => i.code \in Codes
           /\ i.op \in {"editlang", "droplang"} => i.lang \in LangIds
<1>1. IsInput(i)
  BY AccountInputs
<1>2. i.op \in Ops
  BY <1>1 DEF IsInput, Ops
<1>3. i # NoInput
  BY <1>2 DEF NoInput, Ops
<1> QED
  BY <1>1, <1>2, <1>3 DEF IsInput

\* Where the middleware sends a request.
LEMMA EntryLabel ==
    ASSUME NEW i \in Inputs, NEW u
    PROVE  /\ Entry(i, u) \in Labels \ {"idle", "over", "prefer", "insert", "enter", "amend", "keep",
                                        "insertlang", "amendlang", "deletelang"}
           /\ Entry(i, u) = "find" => i.op = "switch"
           /\ Entry(i, u) = "login" => i.op = "login" /\ u = Null
           /\ Entry(i, u) = "logout" => i.op = "logout" /\ u # Null
           /\ Entry(i, u) = "validate" => i.op \in {"register", "store", "update"}
           /\ Entry(i, u) \in {"validate", "delete"} /\ i.op \in {"update", "destroy"}
                 => IsUser(i.user)
           /\ Entry(i, u) = "delete" => i.op = "destroy" /\ u # Null
           /\ Entry(i, u) = "import" => i.op = "import"
           /\ Entry(i, u) = "download" => i.op = "download"
           /\ Entry(i, u) = "checkcode" => i.op \in {"addlang", "editlang"}
           /\ Entry(i, u) = "checkusers" => i.op = "droplang"
           /\ i.op = "switch" => Entry(i, u) = "find"
           /\ i.op = "logout" => Entry(i, u) \in {"fail", "logout"}
<1>1. i.op \in Ops
  BY InputShape
<1> QED
  BY <1>1, SMTT(30) DEF Entry, Ops, Labels, ForAdmins, ForGuests, Refused

-----------------------------------------------------------------------------
(***************************************************************************)
(* A step of one request                                                   *)
(***************************************************************************)
SameLocals(x) ==
    /\ pc'[x] = pc[x] /\ input'[x] = input[x] /\ me'[x] = me[x] /\ loaded'[x] = loaded[x]
    /\ found'[x] = found[x] /\ batch'[x] = batch[x] /\ http'[x] = http[x]

\* A step of one request leaves the locals of the others alone.
LEMMA OthersKeep ==
    ASSUME NEW r \in Requests, NEW x \in Requests \ {r}, TypeOK, Start(r) \/ Step(r) \/ Crash(r)
    PROVE  SameLocals(x)
<1> USE DEF TypeOK, SameLocals, Goto, frame, web, history, Put, End
<1>1. CASE Start(r)
  BY <1>1 DEF Start
<1>2. CASE Crash(r)
  BY <1>2 DEF Crash
<1>3. CASE FindLanguage(r)
  BY <1>3 DEF FindLanguage
<1>4. CASE SavePreference(r)
  BY <1>4 DEF SavePreference
<1>5. CASE Login(r)
  BY <1>5 DEF Login
<1>6. CASE Enter(r)
  BY <1>6 DEF Enter, Migrate
<1>7. CASE Logout(r)
  BY <1>7 DEF Logout, Migrate
<1>8. CASE Validate(r)
  BY <1>8 DEF Validate
<1>9. CASE InsertUser(r)
  BY <1>9 DEF InsertUser
<1>10. CASE AmendUser(r)
  BY <1>10 DEF AmendUser
<1>11. CASE DeleteUser(r)
  BY <1>11 DEF DeleteUser
<1>12. CASE BeginImport(r)
  BY <1>12 DEF BeginImport
<1>13. CASE SkipRow(r)
  BY <1>13 DEF SkipRow
<1>14. CASE ImportRow(r)
  BY <1>14 DEF ImportRow, RollBack
<1>15. CASE CommitImport(r)
  BY <1>15 DEF CommitImport
<1>16. CASE KeepList(r)
  BY <1>16 DEF KeepList
<1>17. CASE DeadlockVictim(r)
  BY <1>17 DEF DeadlockVictim, RollBack
<1>18. CASE Download(r)
  BY <1>18 DEF Download
<1>19. CASE CheckCode(r)
  BY <1>19 DEF CheckCode
<1>20. CASE InsertLanguage(r)
  BY <1>20 DEF InsertLanguage
<1>21. CASE AmendLanguage(r)
  BY <1>21 DEF AmendLanguage
<1>22. CASE CheckUsers(r)
  BY <1>22 DEF CheckUsers
<1>23. CASE DeleteLanguage(r)
  BY <1>23 DEF DeleteLanguage
<1>24. CASE Close(r)
  BY <1>24 DEF Close
<1> QED
  BY <1>1, <1>2, <1>3, <1>4, <1>5, <1>6, <1>7, <1>8, <1>9, <1>10, <1>11, <1>12, <1>13, <1>14, <1>15,
     <1>16, <1>17, <1>18, <1>19, <1>20, <1>21, <1>22, <1>23, <1>24 DEF Step

-----------------------------------------------------------------------------
(***************************************************************************)
(* Types and control                                                       *)
(***************************************************************************)
\* What a request asks for, and what it has loaded, at each label.
ControlOK(r) ==
    /\ ~Active(r) => /\ input[r] = NoInput /\ me[r] = Null /\ batch[r] = NoBatch
                     /\ http[r] = [sid |-> r, existed |-> FALSE, data |-> Empty]
    /\ Active(r) => input[r] \in Inputs
    /\ pc[r] \in {"find", "prefer"} => input[r].op = "switch" /\ (me[r] # Null => loaded[r] \in User)
    /\ pc[r] = "prefer" => me[r] # Null
    /\ pc[r] = "login" => input[r].op = "login"
    /\ pc[r] = "enter" => input[r].op \in ForGuests /\ me[r] # Null
    /\ pc[r] = "logout" => input[r].op = "logout" /\ me[r] # Null
    /\ pc[r] = "validate" => input[r].op \in {"register", "store", "update"}
    /\ pc[r] = "insert" => input[r].op \in {"register", "store"}
    /\ pc[r] = "amend" => input[r].op = "update"
    /\ pc[r] \in {"validate", "amend"} /\ input[r].op = "update" => loaded[r] \in User
    /\ pc[r] = "delete" => input[r].op = "destroy" /\ me[r] # Null
    /\ pc[r] \in {"import", "keep"} => input[r].op = "import"
    /\ pc[r] = "keep" => batch[r] # NoBatch
    /\ batch[r] # NoBatch => pc[r] \in {"import", "keep", "close"} /\ input[r].op = "import"
    /\ pc[r] = "download" => input[r].op = "download"
    /\ pc[r] = "checkcode" => input[r].op \in {"addlang", "editlang"}
    /\ pc[r] = "insertlang" => input[r].op = "addlang"
    /\ pc[r] = "amendlang" => input[r].op = "editlang"
    /\ pc[r] \in {"checkusers", "deletelang"} => input[r].op = "droplang"

Control == TypeOK /\ \A r \in Requests : ControlOK(r)

LEMMA ControlInit == Init => Control
<1> SUFFICES ASSUME Init PROVE Control
  OBVIOUS
<1>1. nextUser \in Nat /\ nextLang \in Nat
  <2>1. IsFiniteSet({u \in UserIds : IsUser(u)}) /\ IsFiniteSet({l \in LangIds : IsLang(l)})
    BY FirstRows, FS_Subset
  <2> QED
    BY <2>1, FS_CardinalityType DEF Init
<1>2. Empty \in Payload
  BY DEF Empty, Payload
<1>3. sessions \in [Sids -> Payload \cup {NoSession}]
  BY FirstBrowsers DEF Init, Sids
<1>4. http \in [Requests -> Held]
  BY <1>2 DEF Init, Sids, Held
<1>5. TypeOK
  BY <1>1, <1>3, <1>4, FirstRows, FirstBrowsers DEF Init, TypeOK, Labels, Sids
<1>6. ASSUME NEW r \in Requests PROVE ControlOK(r)
  BY DEF Init, ControlOK, Active
<1> QED
  BY <1>5, <1>6 DEF Control

\* The middleware: what a request starts with.
LEMMA StartStep ==
    ASSUME NEW r \in Requests, Control, Start(r)
    PROVE  TypeOK' /\ ControlOK(r)'
<1> USE DEF Control
<1>1. PICK i \in Inputs :
        LET o == Opened(r, i.from, Empty)
            u == UserOf(o.data, i.from)
            data == IF Refused(i, u) THEN o.data
                    ELSE [o.data EXCEPT !.locale = SetLocale(o.data, u, i.from)]
        IN  /\ input' = [input EXCEPT ![r] = i]
            /\ me' = [me EXCEPT ![r] = u]
            /\ loaded' = [loaded EXCEPT ![r] = Loaded(i, u)]
            /\ IF u \in {Null, o.data.user}
               THEN http' = [http EXCEPT ![r] = [o EXCEPT !.data = data]] /\ UNCHANGED sessions
               ELSE /\ sessions' = [sessions EXCEPT ![o.sid] = NoSession]
                    /\ http' = [http EXCEPT ![r] = [sid |-> r, existed |-> FALSE,
                                                    data |-> [data EXCEPT !.user = u]]]
            /\ Goto(r, Entry(i, u))
            /\ clash' = IF Busy(i.from) THEN clash \cup {i.from} ELSE clash \ {i.from}
            /\ chosen' = IF Busy(i.from) THEN [chosen EXCEPT ![i.from] = Null] ELSE chosen
            /\ owed' = IF Busy(i.from) THEN [owed EXCEPT ![i.from] = Null] ELSE owed
  BY DEF Start
<1> DEFINE o == Opened(r, i.from, Empty)
           u == UserOf(o.data, i.from)
           data == IF Refused(i, u) THEN o.data
                   ELSE [o.data EXCEPT !.locale = SetLocale(o.data, u, i.from)]
<1>2. i.from \in Browsers
  BY InputShape
<1>3. SidFor(r, i.from) \in Sids
  BY <1>2 DEF TypeOK, SidFor, Sids
<1>4. o.sid \in Sids /\ o.existed \in BOOLEAN /\ o.data \in Payload
      /\ o = [sid |-> o.sid, existed |-> o.existed, data |-> o.data]
  <2>1. Empty \in Payload
    BY DEF Empty, Payload
  <2>2. Stored(SidFor(r, i.from), Empty) \in Payload
    BY <1>3, <2>1 DEF TypeOK, Stored
  <2> QED
    BY <1>3, <2>2 DEF Opened
<1>5. u \in UserIds \cup {Null} /\ (u # Null => IsUser(u) /\ users[u] \in User)
  <2>1. o.data.user \in UserIds \cup {Null}
    BY <1>4 DEF Payload
  <2> HIDE DEF o
  <2>2. u \in UserIds \cup {Null} /\ (u # Null => IsUser(u))
    BY <1>2, <2>1 DEF UserOf, TypeOK
  <2> QED
    BY <2>2 DEF TypeOK, Users, IsUser
<1> HIDE DEF o, u
<1>6. data \in Payload /\ (u # Null => [data EXCEPT !.user = u] \in Payload)
  <2>1. SetLocale(o.data, u, i.from) \in Locales
    BY FirstBrowsers DEF SetLocale
  <2>2. data \in Payload
    BY <1>4, <2>1 DEF Payload
  <2> HIDE DEF data
  <2>3. u # Null => [data EXCEPT !.user = u] \in Payload
    BY <1>5, <2>2 DEF Payload
  <2> QED
    BY <2>2, <2>3
<1>7. [o EXCEPT !.data = data] \in Held
  BY <1>4, <1>6 DEF Held
<1>8. Loaded(i, u) \in User \cup Language \cup {Null}
      /\ (Entry(i, u) = "find" /\ u # Null => Loaded(i, u) \in User)
      /\ (Entry(i, u) \in {"validate", "amend"} /\ i.op = "update" => Loaded(i, u) \in User)
  <2>1. i.op = "editlang" /\ IsLang(i.lang) => [code |-> languages[i.lang]] \in Language
    BY InputShape DEF TypeOK, IsLang, Language
  <2> QED
    BY <1>5, <2>1, InputShape, EntryLabel DEF Loaded, TypeOK, Users, IsUser
<1>9. /\ input' = [input EXCEPT ![r] = i] /\ me' = [me EXCEPT ![r] = u]
      /\ loaded' = [loaded EXCEPT ![r] = Loaded(i, u)] /\ pc' = [pc EXCEPT ![r] = Entry(i, u)]
  BY <1>1 DEF o, u, Goto
<1>10. /\ \/ http' = [http EXCEPT ![r] = [o EXCEPT !.data = data]] /\ sessions' = sessions
          \/ /\ sessions' = [sessions EXCEPT ![o.sid] = NoSession] /\ u # Null
             /\ http' = [http EXCEPT ![r] = [sid |-> r, existed |-> FALSE,
                                             data |-> [data EXCEPT !.user = u]]]
  BY <1>1 DEF o, u
<1>11. /\ chosen' \in {chosen, [chosen EXCEPT ![i.from] = Null]}
       /\ owed' \in {owed, [owed EXCEPT ![i.from] = Null]}
       /\ clash' \in {clash \cup {i.from}, clash \ {i.from}}
  BY <1>1
<1> HIDE DEF data
<1>12. /\ http' \in [Requests -> Held]
       /\ sessions' \in [Sids -> Payload \cup {NoSession}]
  <2>1. [sid |-> r, existed |-> FALSE, data |-> [data EXCEPT !.user = u]] \in Held \/ u = Null
    BY <1>6 DEF Sids, Held
  <2> QED
    BY <1>7, <1>10, <2>1 DEF TypeOK
<1>13. chosen' \in [Browsers -> Locales \cup {Null}] /\ owed' \in [Browsers -> Requests \cup {Null}]
       /\ clash' \subseteq Browsers
  BY <1>2, <1>11 DEF TypeOK
<1>14. Entry(i, u) \in Labels
  BY EntryLabel
<1>15. TypeOK'
  BY <1>5, <1>8, <1>9, <1>12, <1>13, <1>14 DEF Start, TypeOK, tables
<1>16. pc'[r] = Entry(i, u) /\ input'[r] = i /\ me'[r] = u /\ loaded'[r] = Loaded(i, u)
       /\ batch'[r] = batch[r] /\ batch[r] = NoBatch
  BY <1>9 DEF Start, TypeOK, ControlOK, Active
<1> QED
  BY <1>8, <1>15, <1>16, EntryLabel DEF ControlOK, Active

\* The file of an import, row by row.
LEMMA ImportedTail ==
    ASSUME NEW rows \in Seq(CsvRow), rows # <<>>
    PROVE  Head(rows) \in CsvRow /\ Tail(rows) \in Seq(CsvRow)
  OBVIOUS

LEMMA ImportedRow ==
    ASSUME NEW r \in Requests, Control, Importing(r), Head(batch[r].left).name # Null
    PROVE  RowOf(r) \in User /\ RowOf(r).password = r /\ RowOf(r).lang = Null
           /\ RowOf(r).name = Head(batch[r].left).name /\ RowOf(r).email = Head(batch[r].left).email
<1>1. batch[r] \in Batch /\ batch[r].left \in Seq(CsvRow) /\ batch[r].left # <<>>
  BY DEF Importing, Control, TypeOK, Batch
<1>2. Head(batch[r].left) \in CsvRow
  BY <1>1, ImportedTail
<1>3. Head(batch[r].left).name \in Names /\ Head(batch[r].left).email \in Emails
  BY <1>2 DEF CsvRow
<1>4. input[r].role \in Roles
  BY InputShape DEF Importing, Control, ControlOK, Active
<1> QED
  BY <1>3, <1>4 DEF RowOf, User, Passwords

LEMMA AmendedRow ==
    ASSUME NEW old, NEW new \in Details, NEW row \in User
    PROVE  Amended(old, new, row) \in User /\ Amended(old, new, row).password = row.password
           /\ Amended(old, new, row).lang \in {row.lang, new.lang}
<1>1. row.name \in Names /\ row.email \in Emails /\ row.role \in Roles
      /\ row.lang \in LangIds \cup {Null} /\ row.password \in Passwords
  BY DEF User
<1>2. new.name \in Names /\ new.email \in Emails /\ new.role \in Roles /\ new.lang \in LangIds \cup {Null}
  BY DEF Details
<1> DEFINE n == IF new.name = old.name THEN row.name ELSE new.name
           e == IF new.email = old.email THEN row.email ELSE new.email
           p == IF new.role = old.role THEN row.role ELSE new.role
           l == IF new.lang = old.lang THEN row.lang ELSE new.lang
<1>3. Amended(old, new, row) = [[[[row EXCEPT !.name = n] EXCEPT !.email = e] EXCEPT !.role = p] EXCEPT !.lang = l]
  BY DEF Amended, User
<1>4. n \in Names /\ e \in Emails /\ p \in Roles /\ l \in LangIds \cup {Null} /\ l \in {row.lang, new.lang}
  BY <1>1, <1>2
<1> HIDE DEF n, e, p, l
<1>5. [row EXCEPT !.name = n] \in User /\ [row EXCEPT !.name = n].lang = row.lang
      /\ [row EXCEPT !.name = n].password = row.password
  BY <1>4 DEF User
<1> QED
  BY <1>3, <1>4, <1>5 DEF User

\* Every later step of a request.
LEMMA StepTypes ==
    ASSUME NEW r \in Requests, Control, Step(r) \/ Crash(r)
    PROVE  TypeOK' /\ ControlOK(r)'
<1> USE DEF Control
<1>0. /\ http[r] \in Held /\ http[r].data \in Payload /\ http[r].sid \in Sids /\ ControlOK(r)
      /\ pc[r] \in Labels
  BY DEF TypeOK, Held
<1>a. ASSUME NEW d \in Payload PROVE [http[r] EXCEPT !.data = d] \in Held
  BY <1>0, <1>a DEF Held
<1>b. ASSUME NEW d \in Payload, Put(r, d) PROVE http' \in [Requests -> Held]
  <2>1. http' = [http EXCEPT ![r] = [http[r] EXCEPT !.data = d]]
    BY <1>b DEF Put
  <2> QED
    BY <1>a, <2>1 DEF TypeOK
<1>c. ASSUME NEW d \in Payload, Migrate(r, d)
      PROVE  http' \in [Requests -> Held] /\ sessions' \in [Sids -> Payload \cup {NoSession}]
  <2>1. [sid |-> r, existed |-> FALSE, data |-> d] \in Held
    BY DEF Held, Sids
  <2> QED
    BY <1>0, <1>c, <2>1 DEF TypeOK, Migrate
<1>d. Empty \in Payload
  BY DEF Empty, Payload
<1>e. ASSUME End(r)
      PROVE  /\ pc' \in [Requests -> Labels] /\ http' \in [Requests -> Held]
             /\ input' \in [Requests -> Inputs \cup {NoInput}] /\ me' \in [Requests -> UserIds \cup {Null}]
             /\ loaded' \in [Requests -> User \cup Language \cup {Null}]
             /\ found' \in [Requests -> LangIds \cup {Null}]
             /\ batch' \in [Requests -> Batch \cup {NoBatch}]
             /\ ControlOK(r)'
  <2>1. [sid |-> r, existed |-> FALSE, data |-> Empty] \in Held
    BY <1>d DEF Held, Sids
  <2>2. http' \in [Requests -> Held]
    BY <1>e, <2>1 DEF End, TypeOK
  <2>3. ControlOK(r)'
    BY <1>e DEF End, TypeOK, Goto, ControlOK, Active
  <2> QED
    BY <1>e, <2>2, <2>3 DEF End, TypeOK, Goto, Labels
<1>f. Active(r) => input[r] \in Inputs
  BY DEF ControlOK
<1>1. CASE FindLanguage(r)
  <2>1. input[r] \in Inputs /\ input[r].locale \in Locales
    BY <1>1, <1>f, InputShape DEF FindLanguage, Active, ControlOK
  <2>2. [http[r].data EXCEPT !.locale = input[r].locale] \in Payload
    BY <1>0, <2>1 DEF Payload
  <2>3. http' \in [Requests -> Held]
    BY <1>1, <1>b, <2>2 DEF FindLanguage
  <2>4. TypeOK'
    BY <1>1, <2>3 DEF FindLanguage, TypeOK, tables, history, Goto, Labels
  <2> QED
    BY <1>1, <2>4, <1>f DEF FindLanguage, TypeOK, ControlOK, Goto, Active
<1>2. CASE SavePreference(r)
  <2>1. me[r] \in UserIds /\ found[r] \in LangIds \cup {Null}
    BY <1>2 DEF SavePreference, TypeOK, ControlOK
  <2>2. users' \in Users
    <3>1. IsUser(me[r]) => [users[me[r]] EXCEPT !.lang = found[r]] \in User
      BY <2>1 DEF IsUser, TypeOK, Users, User
    <3>2. users' = users \/ (IsUser(me[r]) /\ users' = [users EXCEPT ![me[r]] = [users[me[r]] EXCEPT !.lang = found[r]]])
      BY <1>2 DEF SavePreference
    <3> QED
      BY <2>1, <3>1, <3>2 DEF TypeOK, Users
  <2>3. TypeOK'
    BY <1>2, <2>2 DEF SavePreference, TypeOK, web, frame, history, Goto, Labels
  <2> QED
    BY <1>2, <2>3, <1>f DEF SavePreference, TypeOK, ControlOK, Goto, Active, web, frame
<1>3. CASE Login(r)
  <2>1. TypeOK'
    BY <1>3 DEF Login, TypeOK, tables, web, history, Goto, Labels
  <2> QED
    BY <1>3, <2>1, <1>f, Marks DEF Login, TypeOK, ControlOK, Goto, Active, web, ForGuests
<1>4. CASE Enter(r)
  <2>1. me[r] \in UserIds /\ input[r].from \in Browsers
    BY <1>4, <1>f, InputShape DEF Enter, TypeOK, ControlOK, Active
  <2>2. [http[r].data EXCEPT !.user = me[r]] \in Payload
    BY <1>0, <2>1 DEF Payload
  <2>3. http' \in [Requests -> Held] /\ sessions' \in [Sids -> Payload \cup {NoSession}]
    BY <1>4, <1>c, <2>2 DEF Enter
  <2>4. remember' \in [Browsers -> UserIds \cup {Null}]
    BY <1>4, <2>1 DEF Enter, TypeOK
  <2>5. TypeOK'
    BY <1>4, <2>3, <2>4 DEF Enter, TypeOK, tables, frame, history, Goto, Labels
  <2> QED
    BY <1>4, <2>5, <1>f DEF Enter, TypeOK, ControlOK, Goto, Active, frame
<1>5. CASE Logout(r)
  <2>1. http' \in [Requests -> Held] /\ sessions' \in [Sids -> Payload \cup {NoSession}]
    BY <1>5, <1>c, <1>d DEF Logout
  <2>2. remember' \in [Browsers -> UserIds \cup {Null}] /\ ended' \subseteq Sids
    BY <1>0, <1>5 DEF Logout, TypeOK, ForgetRemembered
  <2>3. TypeOK'
    BY <1>5, <2>1, <2>2 DEF Logout, TypeOK, tables, frame, Goto, Labels
  <2> QED
    BY <1>5, <2>3, <1>f DEF Logout, TypeOK, ControlOK, Goto, Active, frame
<1>6. CASE Validate(r)
  <2>1. TypeOK'
    BY <1>6 DEF Validate, TypeOK, tables, web, frame, history, Goto, Labels
  <2> QED
    BY <1>6, <2>1, <1>f DEF Validate, TypeOK, ControlOK, Goto, Active, frame, web
<1>7. CASE InsertUser(r)
  <2> DEFINE new == input[r].new
             row == [name |-> new.name, email |-> new.email, lang |-> new.lang, password |-> r,
                     role |-> IF input[r].op = "register" THEN "participant" ELSE new.role]
  <2>1. new \in Details
    BY <1>7, <1>f, InputShape DEF InsertUser, ControlOK, Active
  <2>2. row \in User
    BY <2>1 DEF Details, User, Passwords, Roles
  <2> HIDE DEF new, row
  <2>3. \/ users' = users /\ nextUser' = nextUser /\ me' = me /\ pc' = [pc EXCEPT ![r] = "fail"]
        \/ /\ nextUser \in UserIds /\ users' = [users EXCEPT ![nextUser] = row]
           /\ nextUser' = nextUser + 1
           /\ \/ me' = [me EXCEPT ![r] = nextUser] /\ pc' = [pc EXCEPT ![r] = "enter"]
                 /\ input[r].op = "register"
              \/ me' = me /\ pc' = [pc EXCEPT ![r] = "close"]
    BY <1>7 DEF InsertUser, Goto, row, new
  <2>4. TypeOK'
    BY <1>7, <2>2, <2>3 DEF InsertUser, TypeOK, Users, web, history, Labels
  <2> QED
    BY <1>7, <2>3, <2>4, <1>f, Marks DEF InsertUser, TypeOK, ControlOK, Active, web, ForGuests
<1>8. CASE AmendUser(r)
  <2> DEFINE u == input[r].user
             row == Amended(loaded[r], input[r].new, users[u])
             saved == [row EXCEPT !.password = IF input[r].reset THEN r ELSE @]
  <2>1. input[r].new \in Details /\ u \in UserIds /\ loaded[r] \in User
    BY <1>8, <1>f, InputShape DEF AmendUser, ControlOK, Active
  <2>2. IsUser(u) => row \in User
    <3>1. IsUser(u) => users[u] \in User
      BY <2>1 DEF TypeOK, Users, IsUser
    <3> QED
      BY <2>1, <3>1, AmendedRow
  <2> HIDE DEF u, row
  <2>3. IsUser(u) => saved \in User
    BY <2>2 DEF User, Passwords
  <2> HIDE DEF saved
  <2>4. \/ users' = users
        \/ IsUser(u) /\ users' = [users EXCEPT ![u] = saved]
    BY <1>8 DEF AmendUser, u, row, saved
  <2>5. users' \in Users
    BY <2>3, <2>4 DEF TypeOK, Users
  <2>6. pc' \in {[pc EXCEPT ![r] = "close"], [pc EXCEPT ![r] = "fail"]}
    BY <1>8 DEF AmendUser, Goto
  <2>7. TypeOK'
    BY <1>8, <2>5, <2>6 DEF AmendUser, TypeOK, web, frame, history, Labels
  <2> QED
    BY <1>8, <2>6, <2>7, <1>f DEF AmendUser, TypeOK, ControlOK, Active, web, frame
<1>9. CASE DeleteUser(r)
  <2>1. input[r].user \in UserIds
    BY <1>9, <1>f, InputShape DEF DeleteUser, ControlOK, Active
  <2>2. users' \in Users
    BY <1>9, <2>1 DEF DeleteUser, TypeOK, Users
  <2>3. TypeOK'
    BY <1>9, <2>2 DEF DeleteUser, TypeOK, web, frame, history, Goto, Labels
  <2> QED
    BY <1>9, <2>3, <1>f DEF DeleteUser, TypeOK, ControlOK, Goto, Active, web, frame
<1>10. CASE BeginImport(r)
  <2>1. [view |-> users, left |-> input[r].rows, draft |-> [u \in UserIds |-> NoUser]] \in Batch
    BY <1>10, <1>f, InputShape DEF BeginImport, ControlOK, Active, Batch, TypeOK, Users
  <2>2. TypeOK'
    BY <1>10, <2>1 DEF BeginImport, TypeOK, tables, web, history
  <2> QED
    BY <1>10, <2>2, <1>f DEF BeginImport, TypeOK, ControlOK, Active, web
<1>11. CASE SkipRow(r)
  <2>1. batch[r] \in Batch
    BY <1>11 DEF SkipRow, Importing, TypeOK
  <2>2. [batch[r] EXCEPT !.left = Tail(batch[r].left)] \in Batch
    BY <1>11, <2>1, ImportedTail DEF SkipRow, Importing, Batch
  <2>3. batch' = [batch EXCEPT ![r] = [batch[r] EXCEPT !.left = Tail(batch[r].left)]]
    BY <1>11 DEF SkipRow
  <2>4. TypeOK'
    BY <1>11, <2>2, <2>3 DEF SkipRow, TypeOK, tables, web, history
  <2> QED
    BY <1>11, <2>4, <1>f DEF SkipRow, Importing, TypeOK, ControlOK, Active, web
<1>g. ASSUME RollBack(r), pc[r] = "import" PROVE TypeOK' /\ ControlOK(r)'
  <2>1. TypeOK'
    BY <1>g DEF RollBack, TypeOK, tables, web, history, Goto, Labels
  <2> QED
    BY <1>g, <2>1, <1>f DEF RollBack, TypeOK, ControlOK, Active, web, Goto
<1>12. CASE ImportRow(r)
  <2>1. CASE RollBack(r)
    BY <1>12, <1>g, <2>1 DEF ImportRow, Importing
  <2>2. CASE ~RollBack(r)
    <3> DEFINE next == [batch[r] EXCEPT !.left = Tail(batch[r].left), !.draft[nextUser] = RowOf(r)]
    <3>1. batch[r] \in Batch /\ batch[r].left # <<>>
      BY <1>12 DEF ImportRow, Importing, TypeOK
    <3>2. RowOf(r) \in User
      BY <1>12, <3>1, ImportedRow DEF ImportRow
    <3>3. nextUser \in UserIds /\ nextUser' = nextUser + 1 /\ batch' = [batch EXCEPT ![r] = next]
          /\ UNCHANGED <<users, languages, nextLang, web, pc, input, me, loaded, found, history>>
      BY <1>12, <2>2 DEF ImportRow
    <3>4. next \in Batch
      BY <3>1, <3>2, <3>3, ImportedTail DEF Batch, Users
    <3> HIDE DEF next
    <3>5. TypeOK'
      BY <3>3, <3>4 DEF TypeOK, web, history
    <3> QED
      BY <1>12, <3>3, <3>5, <1>f DEF ImportRow, Importing, TypeOK, ControlOK, Active, web
  <2> QED
    BY <2>1, <2>2
<1>13. CASE CommitImport(r)
  <2>1. batch[r].draft \in Users
    BY <1>13 DEF CommitImport, TypeOK, Batch
  <2>2. users' \in Users
    BY <1>13, <2>1 DEF CommitImport, TypeOK, Users
  <2>3. TypeOK'
    BY <1>13, <2>2 DEF CommitImport, TypeOK, web, frame, history, Goto, Labels
  <2> QED
    BY <1>13, <2>3, <1>f DEF CommitImport, TypeOK, ControlOK, Active, web, frame, Goto
<1>14. CASE KeepList(r)
  <2> DEFINE list == [by |-> r, who |-> {u \in UserIds : batch[r].draft[u] # NoUser}]
  <2>1. list \in List
    BY DEF List
  <2> HIDE DEF list
  <2>2. [http[r].data EXCEPT !.list = list] \in Payload
    BY <1>0, <2>1 DEF Payload
  <2>3. http' \in [Requests -> Held]
    BY <1>14, <1>b, <2>2 DEF KeepList, list
  <2>4. TypeOK'
    BY <1>14, <2>3 DEF KeepList, TypeOK, tables, frame, history, Goto, Labels
  <2> QED
    BY <1>14, <2>4, <1>f DEF KeepList, TypeOK, ControlOK, Active, frame, Goto
<1>15. CASE DeadlockVictim(r)
  <2>1. pc[r] = "import"
    BY <1>15 DEF DeadlockVictim, WaitsFor, Importing
  <2> QED
    BY <1>15, <1>g, <2>1 DEF DeadlockVictim
<1>16. CASE Download(r)
  <2>1. [http[r].data EXCEPT !.list = NoList] \in Payload
    BY <1>0 DEF Payload
  <2>2. http' \in [Requests -> Held]
    BY <1>16, <1>b, <2>1 DEF Download, TypeOK
  <2>3. TypeOK'
    BY <1>16, <2>2 DEF Download, TypeOK, tables, frame, history, Goto, Labels
  <2> QED
    BY <1>16, <2>3, <1>f DEF Download, TypeOK, ControlOK, Active, frame, Goto
<1>17. CASE CheckCode(r)
  <2>1. TypeOK'
    BY <1>17 DEF CheckCode, TypeOK, tables, web, frame, history, Goto, Labels
  <2> QED
    BY <1>17, <2>1, <1>f DEF CheckCode, TypeOK, ControlOK, Goto, Active, frame, web
<1>18. CASE InsertLanguage(r)
  <2>1. input[r].code \in Codes
    BY <1>18, <1>f, InputShape DEF InsertLanguage, ControlOK, Active
  <2>2. TypeOK'
    BY <1>18, <2>1 DEF InsertLanguage, TypeOK, web, frame, history, Goto, Labels
  <2> QED
    BY <1>18, <2>2, <1>f DEF InsertLanguage, TypeOK, ControlOK, Goto, Active, frame, web
<1>19. CASE AmendLanguage(r)
  <2>1. input[r].code \in Codes /\ input[r].lang \in LangIds
    BY <1>19, <1>f, InputShape DEF AmendLanguage, ControlOK, Active
  <2>2. TypeOK'
    BY <1>19, <2>1 DEF AmendLanguage, TypeOK, web, frame, history, Goto, Labels
  <2> QED
    BY <1>19, <2>2, <1>f DEF AmendLanguage, TypeOK, ControlOK, Goto, Active, frame, web
<1>20. CASE CheckUsers(r)
  <2>1. TypeOK'
    BY <1>20 DEF CheckUsers, TypeOK, tables, web, frame, history, Goto, Labels
  <2> QED
    BY <1>20, <2>1, <1>f DEF CheckUsers, TypeOK, ControlOK, Goto, Active, frame, web
<1>21. CASE DeleteLanguage(r)
  <2>1. input[r].lang \in LangIds
    BY <1>21, <1>f, InputShape DEF DeleteLanguage, ControlOK, Active
  <2>2. TypeOK'
    BY <1>21, <2>1 DEF DeleteLanguage, TypeOK, web, frame, history, Goto, Labels
  <2> QED
    BY <1>21, <2>2, <1>f DEF DeleteLanguage, TypeOK, ControlOK, Goto, Active, frame, web
<1>22. CASE Close(r)
  <2>1. input[r] \in Inputs /\ input[r].from \in Browsers
    BY <1>22, <1>f, InputShape DEF Close, Active
  <2>2. /\ sessions' \in [Sids -> Payload \cup {NoSession}] /\ cookie' \in [Browsers -> Sids \cup {Null}]
    BY <1>0, <1>22, <2>1 DEF Close, SaveSession, TypeOK
  <2>3. chosen' \in [Browsers -> Locales \cup {Null}] /\ owed' \in [Browsers -> Requests \cup {Null}]
    BY <1>22, <2>1, InputShape DEF Close, TypeOK
  <2> QED
    BY <1>22, <1>e, <2>2, <2>3 DEF Close, TypeOK, tables
<1>23. CASE Crash(r)
  <2>1. input[r] \in Inputs /\ input[r].from \in Browsers
    BY <1>23, <1>f, InputShape DEF Crash
  <2>2. /\ chosen' \in [Browsers -> Locales \cup {Null}] /\ owed' \in [Browsers -> Requests \cup {Null}]
        /\ ended' \subseteq Sids /\ remember' \in [Browsers -> UserIds \cup {Null}]
    BY <1>23, <2>1 DEF Crash, TypeOK
  <2> QED
    BY <1>23, <1>e, <2>2 DEF Crash, TypeOK, tables
<1> QED
  BY <1>1, <1>2, <1>3, <1>4, <1>5, <1>6, <1>7, <1>8, <1>9, <1>10, <1>11, <1>12, <1>13, <1>14, <1>15,
     <1>16, <1>17, <1>18, <1>19, <1>20, <1>21, <1>22, <1>23 DEF Step

LEMMA ControlNext == Control /\ [Next]_vars => Control'
<1> SUFFICES ASSUME Control, [Next]_vars PROVE Control'
  OBVIOUS
<1>1. ASSUME NEW x \in Requests, SameLocals(x) PROVE ControlOK(x)'
  BY <1>1 DEF Control, ControlOK, SameLocals, Active
<1>2. ASSUME NEW r \in Requests, Start(r) \/ Step(r) \/ Crash(r) PROVE Control'
  <2>1. TypeOK' /\ ControlOK(r)'
    BY <1>2, StartStep, StepTypes
  <2>2. ASSUME NEW x \in Requests \ {r} PROVE ControlOK(x)'
    BY <1>1, <1>2, OthersKeep DEF Control
  <2> QED
    BY <2>1, <2>2 DEF Control
<1>3. ASSUME NEW b \in Browsers, SessionExpires(b) PROVE Control'
  <2>1. TypeOK'
    BY <1>3 DEF Control, SessionExpires, ExpireSession, TypeOK, tables, frame
  <2>2. ASSUME NEW x \in Requests PROVE SameLocals(x)
    BY <1>3 DEF SessionExpires, ExpireSession, frame, SameLocals
  <2> QED
    BY <1>1, <2>1, <2>2 DEF Control
<1>4. ASSUME UNCHANGED vars PROVE Control'
  <2>1. TypeOK'
    BY <1>4 DEF Control, TypeOK, vars, tables, web, frame, history
  <2>2. ASSUME NEW x \in Requests PROVE SameLocals(x)
    BY <1>4 DEF vars, web, frame, SameLocals
  <2> QED
    BY <1>1, <2>1, <2>2 DEF Control
<1> QED
  BY <1>2, <1>3, <1>4 DEF Next, Finished

\* The statement each handler is at fits what its request asks for, and it has loaded
\* the rows that it goes on to use; with it, TypeOK.
THEOREM AccountsControl == Spec => []Control
<1> QED
  BY ControlInit, ControlNext, PTL DEF Spec

\* Tables, sessions and locals keep their types: every locale that is used is one of
\* the available ones, whatever codes the admins give to languages.
THEOREM AccountsTypes == Spec => []TypeOK
<1>1. Control => TypeOK
  BY DEF Control
<1> QED
  BY <1>1, AccountsControl, PTL

-----------------------------------------------------------------------------
(***************************************************************************)
(* Who writes users and languages                                          *)
(***************************************************************************)
WritesUsers(r) ==
    SavePreference(r) \/ InsertUser(r) \/ AmendUser(r) \/ DeleteUser(r) \/ CommitImport(r)
WritesLanguages(r) == InsertLanguage(r) \/ AmendLanguage(r) \/ DeleteLanguage(r)

LEMMA TablesKept ==
    ASSUME NEW r \in Requests, Start(r) \/ Step(r) \/ Crash(r)
    PROVE  /\ WritesUsers(r) \/ users' = users
           /\ WritesLanguages(r) \/ languages' = languages
           /\ InsertUser(r) \/ ImportRow(r) \/ nextUser' = nextUser
<1>1. CASE Start(r)
  BY <1>1 DEF Start, tables
<1>2. CASE Crash(r)
  BY <1>2 DEF Crash, tables
<1>3. CASE Step(r)
  BY <1>3 DEF Step, WritesUsers, WritesLanguages, tables, FindLanguage, SavePreference, Login, Enter,
              Logout, Validate, InsertUser, AmendUser, DeleteUser, BeginImport, SkipRow, ImportRow,
              RollBack, CommitImport, KeepList, DeadlockVictim, Download, CheckCode, InsertLanguage,
              AmendLanguage, CheckUsers, DeleteLanguage, Close
<1> QED
  BY <1>1, <1>2, <1>3

\* The rows of an import that is under way: no preference, and its own password.
DraftOK(r) ==
    batch[r] # NoBatch => \A u \in UserIds : batch[r].draft[u] # NoUser =>
        batch[r].draft[u].lang = Null /\ batch[r].draft[u].password = r

\* What an import's next statement does to its batch.
LEMMA BatchStep ==
    ASSUME NEW r \in Requests, Control, Start(r) \/ Step(r) \/ Crash(r)
    PROVE  \/ batch'[r] = batch[r]
           \/ batch'[r] = NoBatch
           \/ /\ batch[r] = NoBatch /\ pc'[r] = "import" /\ pc[r] = "import"
              /\ batch'[r].view = users /\ \A u \in UserIds : batch'[r].draft[u] = NoUser
           \/ SkipRow(r) /\ batch'[r].view = batch[r].view /\ batch'[r].draft = batch[r].draft
           \/ /\ ImportRow(r) /\ ~RollBack(r) /\ nextUser \in UserIds
              /\ batch'[r].view = batch[r].view
              /\ batch'[r].draft = [batch[r].draft EXCEPT ![nextUser] = RowOf(r)]
<1>0. batch \in [Requests -> Batch \cup {NoBatch}]
  BY DEF Control, TypeOK
<1>1. CASE Start(r)
  BY <1>1 DEF Start
<1>2. CASE Crash(r) \/ Close(r)
  BY <1>0, <1>2 DEF Crash, Close, End
<1>3. CASE BeginImport(r)
  BY <1>0, <1>3 DEF BeginImport
<1>4. CASE SkipRow(r)
  BY <1>0, <1>4 DEF SkipRow, Importing, Batch
<1>5. CASE ImportRow(r)
  <2>1. CASE RollBack(r)
    BY <1>0, <2>1 DEF RollBack
  <2>2. CASE ~RollBack(r)
    <3>1. nextUser \in UserIds /\ batch[r] \in Batch
          /\ batch' = [batch EXCEPT ![r].left = Tail(@), ![r].draft[nextUser] = RowOf(r)]
      BY <1>0, <1>5, <2>2 DEF ImportRow, Importing
    <3> QED
      BY <1>0, <1>5, <2>2, <3>1 DEF Batch
  <2> QED
    BY <2>1, <2>2
<1>6. CASE DeadlockVictim(r)
  BY <1>0, <1>6 DEF DeadlockVictim, RollBack
<1>7. CASE Step(r) /\ ~BeginImport(r) /\ ~SkipRow(r) /\ ~ImportRow(r) /\ ~DeadlockVictim(r) /\ ~Close(r)
  BY <1>7 DEF Step, frame, FindLanguage, SavePreference, Login, Enter, Logout, Validate, InsertUser,
              AmendUser, DeleteUser, CommitImport, KeepList, Download, CheckCode, InsertLanguage,
              AmendLanguage, CheckUsers, DeleteLanguage
<1> QED
  BY <1>1, <1>2, <1>3, <1>4, <1>5, <1>6, <1>7

LEMMA DraftStep ==
    ASSUME NEW r \in Requests, Control, Start(r) \/ Step(r) \/ Crash(r), NEW x \in Requests, DraftOK(x)
    PROVE  DraftOK(x)'
<1>1. CASE x # r
  BY <1>1, OthersKeep DEF DraftOK, SameLocals, Control
<1>2. CASE x = r
  <2>1. CASE ImportRow(r) /\ ~RollBack(r)
    <3>1. RowOf(r).lang = Null /\ RowOf(r).password = r
      BY <2>1, ImportedRow DEF ImportRow
    <3>2. batch[r] \in Batch /\ batch[r] # NoBatch
      BY <2>1 DEF ImportRow, Importing, Control, TypeOK
    <3>3. batch[r].draft \in Users
      BY <3>2 DEF Batch
    <3>4. batch'[r].draft = [batch[r].draft EXCEPT ![nextUser] = RowOf(r)] \/ batch'[r] \in {batch[r], NoBatch}
      BY <2>1, <3>2, BatchStep DEF SkipRow, ImportRow
    <3> QED
      BY <1>2, <3>1, <3>2, <3>3, <3>4 DEF DraftOK, Users
  <2>2. CASE SkipRow(r)
    BY <1>2, <2>2, BatchStep DEF DraftOK, SkipRow, ImportRow, Importing
  <2>3. CASE ~SkipRow(r) /\ ~(ImportRow(r) /\ ~RollBack(r))
    BY <1>2, <2>3, BatchStep DEF DraftOK
  <2> QED
    BY <2>1, <2>2, <2>3
<1> QED
  BY <1>1, <1>2

-----------------------------------------------------------------------------
(***************************************************************************)
(* Preferences refer to languages that exist                               *)
(***************************************************************************)
LangInv == Control /\ (\A r \in Requests : DraftOK(r)) /\ AssignedLanguageExists

LEMMA LangInit == Init => LangInv
<1> SUFFICES ASSUME Init PROVE LangInv
  OBVIOUS
<1>1. Control
  BY ControlInit
<1>2. AssignedLanguageExists
  BY FirstRows DEF Init, AssignedLanguageExists, IsUser, IsLang
<1>3. \A r \in Requests : DraftOK(r)
  BY DEF Init, DraftOK
<1> QED
  BY <1>1, <1>2, <1>3 DEF LangInv

\* One row or one language at a time.
LEMMA LangStep ==
    ASSUME NEW r \in Requests, LangInv, Start(r) \/ Step(r) \/ Crash(r)
    PROVE  AssignedLanguageExists'
<1> USE DEF LangInv, Control
<1>0. /\ users \in Users /\ languages \in [LangIds -> Codes \cup {NoLang}] /\ ControlOK(r)
      /\ users' \in Users
  BY StartStep, StepTypes DEF TypeOK
<1>a. /\ WritesUsers(r) \/ users' = users
      /\ WritesLanguages(r) \/ languages' = languages
  BY TablesKept
<1>b. ASSUME languages' = languages, NEW u \in UserIds, NEW row \in User \cup {NoUser},
             users' = [users EXCEPT ![u] = row],
             row # NoUser /\ row.lang # Null => IsLang(row.lang)
      PROVE  AssignedLanguageExists'
  BY <1>0, <1>b DEF AssignedLanguageExists, IsUser, IsLang, Users
<1>c. ASSUME users' = users, \A l \in LangIds : IsLang(l) /\ Spoken(l) => IsLang(l)'
      PROVE  AssignedLanguageExists'
  BY <1>0, <1>c DEF AssignedLanguageExists, IsUser, Spoken, Users, User
<1>1. CASE SavePreference(r)
  <2>1. languages' = languages /\ me[r] \in UserIds /\ found[r] \in LangIds \cup {Null}
    BY <1>1 DEF SavePreference, TypeOK, ControlOK
  <2>2. CASE users' = users
    BY <1>c, <2>1, <2>2 DEF IsLang
  <2>3. CASE users' # users
    <3>1. /\ users' = [users EXCEPT ![me[r]] = [users[me[r]] EXCEPT !.lang = found[r]]]
          /\ IsUser(me[r]) /\ (found[r] # Null => IsLang(found[r]))
      BY <1>1, <2>3 DEF SavePreference
    <3>2. [users[me[r]] EXCEPT !.lang = found[r]] \in User
          /\ [users[me[r]] EXCEPT !.lang = found[r]].lang = found[r]
      BY <1>0, <2>1, <3>1 DEF IsUser, Users, User
    <3> QED
      BY <1>b, <2>1, <3>1, <3>2
  <2> QED
    BY <2>2, <2>3
<1>2. CASE InsertUser(r)
  <2> DEFINE new == input[r].new
             row == [name |-> new.name, email |-> new.email, lang |-> new.lang, password |-> r,
                     role |-> IF input[r].op = "register" THEN "participant" ELSE new.role]
  <2>1. languages' = languages /\ new \in Details
    BY <1>2, InputShape DEF InsertUser, ControlOK, Active
  <2>2. row \in User
    BY <2>1 DEF Details, User, Passwords, Roles
  <2>3. \/ users' = users
        \/ /\ nextUser \in UserIds /\ users' = [users EXCEPT ![nextUser] = row]
           /\ row.lang # Null => IsLang(row.lang)
    BY <1>2 DEF InsertUser
  <2> HIDE DEF row, new
  <2>4. CASE users' = users
    BY <1>c, <2>1, <2>4 DEF IsLang
  <2> QED
    BY <1>b, <2>1, <2>2, <2>3, <2>4
<1>3. CASE AmendUser(r)
  <2> DEFINE u == input[r].user
             row == Amended(loaded[r], input[r].new, users[u])
             saved == [row EXCEPT !.password = IF input[r].reset THEN r ELSE @]
  <2>1. languages' = languages /\ input[r].new \in Details /\ u \in UserIds
    BY <1>3, InputShape DEF AmendUser, ControlOK, Active
  <2>2. \/ users' = users
        \/ IsUser(u) /\ users' = [users EXCEPT ![u] = saved] /\ (row.lang # Null => IsLang(row.lang))
    BY <1>3 DEF AmendUser
  <2>3. IsUser(u) => row \in User
    BY <1>0, <2>1, AmendedRow DEF IsUser, Users
  <2> HIDE DEF row, u
  <2>4. IsUser(u) => saved \in User /\ saved.lang = row.lang
    BY <2>3 DEF User, Passwords
  <2> HIDE DEF saved
  <2>5. CASE users' = users
    BY <1>c, <2>1, <2>5 DEF IsLang
  <2> QED
    BY <1>b, <2>1, <2>2, <2>4, <2>5
<1>4. CASE DeleteUser(r)
  <2>1. languages' = languages /\ input[r].user \in UserIds
    BY <1>4, InputShape DEF DeleteUser, ControlOK, Active
  <2>2. CASE users' = users
    BY <1>c, <2>1, <2>2 DEF IsLang
  <2>3. CASE users' = [users EXCEPT ![input[r].user] = NoUser]
    BY <1>b, <2>1, <2>3
  <2> QED
    BY <1>4, <2>2, <2>3 DEF DeleteUser
<1>5. CASE CommitImport(r)
  <2>1. languages' = languages /\ DraftOK(r) /\ batch[r] # NoBatch
    BY <1>5 DEF CommitImport
  <2>2. ASSUME NEW u \in UserIds, users'[u] # NoUser, users'[u].lang # Null PROVE users'[u] = users[u]
    BY <1>5, <2>1, <2>2 DEF CommitImport, DraftOK
  <2> QED
    BY <2>1, <2>2 DEF AssignedLanguageExists, IsUser, IsLang
<1>6. CASE InsertLanguage(r)
  <2>1. users' = users /\ input[r].code \in Codes
    BY <1>6, InputShape DEF InsertLanguage, ControlOK, Active
  <2>2. ASSUME NEW l \in LangIds, IsLang(l) PROVE IsLang(l)'
    BY <1>0, <1>6, <2>1, <2>2, Marks DEF InsertLanguage, IsLang
  <2> QED
    BY <1>c, <2>1, <2>2
<1>7. CASE AmendLanguage(r)
  <2>1. users' = users /\ input[r].code \in Codes
    BY <1>7, InputShape DEF AmendLanguage, ControlOK, Active
  <2>2. ASSUME NEW l \in LangIds, IsLang(l) PROVE IsLang(l)'
    BY <1>0, <1>7, <2>1, <2>2, Marks DEF AmendLanguage, IsLang
  <2> QED
    BY <1>c, <2>1, <2>2
<1>8. CASE DeleteLanguage(r)
  <2>1. users' = users
    BY <1>8 DEF DeleteLanguage
  <2>2. ASSUME NEW l \in LangIds, IsLang(l), Spoken(l) PROVE IsLang(l)'
    BY <1>0, <1>8, <2>2 DEF DeleteLanguage, IsLang
  <2> QED
    BY <1>c, <2>1, <2>2
<1>9. CASE users' = users /\ languages' = languages
  BY <1>c, <1>9 DEF IsLang
<1> QED
  BY <1>a, <1>1, <1>2, <1>3, <1>4, <1>5, <1>6, <1>7, <1>8, <1>9 DEF WritesUsers, WritesLanguages

LEMMA LangNext == LangInv /\ [Next]_vars => LangInv'
<1> SUFFICES ASSUME LangInv, [Next]_vars PROVE LangInv'
  OBVIOUS
<1>1. Control'
  BY ControlNext DEF LangInv
<1>2. ASSUME NEW r \in Requests, Start(r) \/ Step(r) \/ Crash(r)
      PROVE  AssignedLanguageExists' /\ \A x \in Requests : DraftOK(x)'
  BY <1>2, LangStep, DraftStep DEF LangInv
<1>3. ASSUME UNCHANGED <<users, languages, batch>>
      PROVE  AssignedLanguageExists' /\ \A x \in Requests : DraftOK(x)'
  BY <1>3 DEF LangInv, AssignedLanguageExists, IsUser, IsLang, DraftOK
<1>4. ASSUME NEW b \in Browsers, SessionExpires(b) PROVE UNCHANGED <<users, languages, batch>>
  BY <1>4 DEF SessionExpires, tables, frame
<1>5. ASSUME UNCHANGED vars PROVE UNCHANGED <<users, languages, batch>>
  BY <1>5 DEF vars, tables, frame
<1> QED
  BY <1>1, <1>2, <1>3, <1>4, <1>5 DEF LangInv, Next, Finished

\* "Cannot delete a language that is assigned to users.": nobody's preference refers
\* to a language that is gone, however a deletion falls between the look-ups and the
\* writes of switches, forms, registrations and imports.
THEOREM AssignedLanguages == Spec => []AssignedLanguageExists
<1>1. LangInv => AssignedLanguageExists
  BY DEF LangInv
<1> QED
  BY <1>1, LangInit, LangNext, PTL DEF Spec

\* "You cannot delete your own account.": a deletion by somebody who is still an admin
\* leaves an admin.
THEOREM DeletionKeepsAnAdmin == Spec => DeletionLeavesAnAdmin
<1>1. Control /\ [Next]_vars =>
        [\A r \in Requests : pc[r] = "delete" /\ pc'[r] = "close" /\ IsAdmin(me[r])
            => \E u \in UserIds : IsAdmin(u)']_vars
  <2> SUFFICES ASSUME Control, [Next]_vars, NEW r \in Requests, pc[r] = "delete", pc'[r] = "close",
                      IsAdmin(me[r]), vars' # vars
               PROVE  \E u \in UserIds : IsAdmin(u)'
    OBVIOUS
  <2>1. me[r] \in UserIds /\ input[r].user \in UserIds
    BY InputShape DEF Control, TypeOK, ControlOK, Active
  <2>2. ASSUME NEW x \in Requests, Start(x) \/ Step(x) \/ Crash(x) PROVE x = r
    BY <2>2, OthersKeep DEF Control, SameLocals
  <2>3. Start(r) \/ Step(r) \/ Crash(r)
    <3>1. ASSUME NEW b \in Browsers, SessionExpires(b) PROVE FALSE
      BY <3>1 DEF SessionExpires
    <3> QED
      BY <2>2, <3>1 DEF Next, Finished
  <2>4. DeleteUser(r)
    BY <2>3 DEF Start, Step, Crash, End, Goto, Control, TypeOK, FindLanguage, SavePreference, Login,
                Enter, Logout, Validate, InsertUser, AmendUser, BeginImport, SkipRow, ImportRow,
                Importing, WaitsFor, CommitImport, KeepList, DeadlockVictim, Download, CheckCode,
                InsertLanguage, AmendLanguage, CheckUsers, DeleteLanguage, Close
  <2>5. users'[me[r]] = users[me[r]]
    BY <2>1, <2>4 DEF DeleteUser, Control, TypeOK, Users
  <2> QED
    BY <2>1, <2>5 DEF IsAdmin, IsUser
<1> QED
  BY <1>1, AccountsControl, PTL DEF Spec, DeletionLeavesAnAdmin

-----------------------------------------------------------------------------
(***************************************************************************)
(* Accounts implements Directory: whatever registrations, forms, imports   *)
(* and deletions overlap, crash or are rolled back, names and emails stay  *)
(* unique, an import appears whole or not at all and with a password that  *)
(* nobody had, and an id that was given up is never used again.            *)
(*                                                                         *)
(* The inductive invariant                                                 *)
(***************************************************************************)
Differ(v, w) == v.name # w.name /\ v.email # w.email

\* The request has written the passwords that it generates, if it writes any.
Wrote(r) == pc[r] \in {"enter", "keep", "close", "over"}

RowsOK ==
    /\ \A u \in UserIds : IsUser(u) => u < nextUser
    /\ \A u, w \in UserIds : IsUser(u) /\ IsUser(w) /\ u # w => Differ(users[u], users[w])

\* The rows of an import that nobody sees yet: their ids are handed out, and their
\* keys are those of no other row, seen or unseen.
DraftsOK ==
    \A r \in Requests, u \in UserIds : Drafts(r, u) =>
        /\ u < nextUser /\ ~IsUser(u)
        /\ \A w \in UserIds : IsUser(w) => Differ(batch[r].draft[u], users[w])
        /\ \A x \in Requests, w \in UserIds : Drafts(x, w) /\ (x # r \/ w # u) =>
              u # w /\ Differ(batch[r].draft[u], batch[x].draft[w])

PasswordsOK == \A r \in Requests, u \in UserIds : IsUser(u) /\ users[u].password = r => Wrote(r)

DirInv ==
    /\ Control /\ (\A r \in Requests : DraftOK(r))
    /\ RowsOK /\ DraftsOK /\ PasswordsOK

LEMMA DirInit == Init => DirInv
<1> SUFFICES ASSUME Init PROVE DirInv
  OBVIOUS
<1>1. Control /\ \A r \in Requests : DraftOK(r)
  BY ControlInit DEF Init, DraftOK
<1>2. RowsOK
  <2> DEFINE n == Cardinality({w \in UserIds : FirstUsers[w] # NoUser})
  <2>1. nextUser = n + 1
    BY DEF Init, IsUser
  <2>2. n \in Nat
    <3>1. IsFiniteSet({w \in UserIds : FirstUsers[w] # NoUser})
      BY FirstRows, FS_Subset
    <3> QED
      BY <3>1, FS_CardinalityType
  <2>3. \A u \in UserIds : u \in Nat /\ (FirstUsers[u] # NoUser => u <= n)
    BY FirstRows
  <2> HIDE DEF n
  <2>4. \A u \in UserIds : IsUser(u) => u < nextUser
    BY <2>1, <2>2, <2>3 DEF Init, IsUser
  <2> QED
    BY <2>4, FirstRows DEF Init, RowsOK, IsUser, Differ
<1>3. DraftsOK
  BY DEF Init, DraftsOK, Drafts
<1>4. PasswordsOK
  BY FirstRows, Marks DEF Init, PasswordsOK, IsUser
<1> QED
  BY <1>1, <1>2, <1>3, <1>4 DEF DirInv

-----------------------------------------------------------------------------
(***************************************************************************)
(* The kinds of steps                                                      *)
(***************************************************************************)
\* A step that writes no user: it drops the drafts of its request, if it had any.
Drops(r) ==
    /\ users' = users /\ nextUser' = nextUser
    /\ \A u \in UserIds : ~Drafts(r, u)'

\* A step that writes users and does not belong to an import.
WritesOne(r) ==
    /\ SavePreference(r) \/ InsertUser(r) \/ AmendUser(r) \/ DeleteUser(r)
    /\ \A u \in UserIds : ~Drafts(r, u) /\ ~Drafts(r, u)'

LEMMA KindsOfSteps ==
    ASSUME NEW r \in Requests, Control, Start(r) \/ Step(r) \/ Crash(r)
    PROVE  \/ Drops(r) \/ WritesOne(r) \/ CommitImport(r) \/ SkipRow(r)
           \/ ImportRow(r) /\ ~RollBack(r)
<1>0. pc \in [Requests -> Labels] /\ batch \in [Requests -> Batch \cup {NoBatch}] /\ ControlOK(r)
  BY DEF Control, TypeOK
<1>1. CASE Start(r)
  BY <1>0, <1>1 DEF Start, Drops, Drafts, tables, ControlOK, Active
<1>2. CASE Crash(r) \/ Close(r)
  BY <1>0, <1>2 DEF Crash, Close, End, Goto, Drops, Drafts, tables
<1>3. CASE BeginImport(r)
  <2>1. \A u \in UserIds : batch'[r].draft[u] = NoUser
    BY <1>0, <1>3 DEF BeginImport
  <2> QED
    BY <1>3, <2>1 DEF BeginImport, Drops, Drafts, tables
<1>4. ASSUME RollBack(r) PROVE Drops(r)
  BY <1>0, <1>4 DEF RollBack, Goto, Drops, Drafts, tables
<1>5. CASE SavePreference(r) \/ InsertUser(r) \/ AmendUser(r) \/ DeleteUser(r)
  <2>1. pc[r] # "import" /\ pc'[r] # "import"
    BY <1>0, <1>5 DEF SavePreference, InsertUser, AmendUser, DeleteUser, Goto
  <2> QED
    BY <1>5, <2>1 DEF WritesOne, Drafts
<1>6. CASE \/ FindLanguage(r) \/ Login(r) \/ Enter(r) \/ Logout(r) \/ Validate(r) \/ KeepList(r)
           \/ Download(r) \/ CheckCode(r) \/ InsertLanguage(r) \/ AmendLanguage(r) \/ CheckUsers(r)
           \/ DeleteLanguage(r)
  <2>1. users' = users /\ nextUser' = nextUser
    BY <1>6 DEF FindLanguage, Login, Enter, Logout, Validate, KeepList, Download, CheckCode,
                InsertLanguage, AmendLanguage, CheckUsers, DeleteLanguage, tables
  <2>2. pc'[r] # "import"
    BY <1>0, <1>6 DEF FindLanguage, Login, Enter, Logout, Validate, KeepList, Download, CheckCode,
                      InsertLanguage, AmendLanguage, CheckUsers, DeleteLanguage, Goto
  <2> QED
    BY <2>1, <2>2 DEF Drops, Drafts
<1> QED
  BY <1>1, <1>2, <1>3, <1>4, <1>5, <1>6 DEF Step, DeadlockVictim

\* The drafts of the other requests stay as they are.
LEMMA OtherDrafts ==
    ASSUME NEW r \in Requests, Control, Start(r) \/ Step(r) \/ Crash(r),
           NEW x \in Requests \ {r}, NEW u \in UserIds
    PROVE  (Drafts(x, u)' <=> Drafts(x, u)) /\ batch'[x] = batch[x]
BY OthersKeep DEF Control, SameLocals, Drafts

\* Once it has written them, a request writes no passwords again.
LEMMA WroteStays ==
    ASSUME NEW r \in Requests, Control, Start(r) \/ Step(r) \/ Crash(r), NEW x \in Requests, Wrote(x)
    PROVE  Wrote(x)'
<1>1. CASE x # r
  BY <1>1, OthersKeep DEF Control, SameLocals, Wrote
<1>2. CASE x = r
  <2>1. pc \in [Requests -> Labels]
    BY DEF Control, TypeOK
  <2>2. CASE Step(r)
    BY <1>2, <2>1, <2>2
    DEF Wrote, Step, Goto, End, FindLanguage, SavePreference, Login, Enter, Logout, Validate, InsertUser,
        AmendUser, DeleteUser, BeginImport, SkipRow, ImportRow, RollBack, Importing, WaitsFor,
        CommitImport, KeepList, DeadlockVictim, Download, CheckCode, InsertLanguage, AmendLanguage,
        CheckUsers, DeleteLanguage, Close
  <2>3. CASE Start(r) \/ Crash(r)
    BY <1>2, <2>1, <2>3 DEF Wrote, Start, Crash, End, Goto
  <2> QED
    BY <2>2, <2>3
<1> QED
  BY <1>1, <1>2

-----------------------------------------------------------------------------
(***************************************************************************)
(* One row is inserted, amended or deleted                                 *)
(***************************************************************************)
\* The keys of the row are free: no other row has them, seen or unseen.
Keyed(u, row) ==
    /\ row \in User
    /\ \A w \in UserIds \ {u} : IsUser(w) => Differ(row, users[w])
    /\ \A x \in Requests, w \in UserIds : Drafts(x, w) => Differ(batch[x].draft[w], row)

Inserts(r, row) ==
    /\ nextUser \in UserIds /\ Keyed(nextUser, row)
    /\ row.password = r /\ ~Wrote(r) /\ Wrote(r)'
    /\ users' = [users EXCEPT ![nextUser] = row] /\ nextUser' = nextUser + 1

Amends(r, u, row) ==
    /\ IsUser(u) /\ Keyed(u, row)
    /\ row.password = users[u].password \/ (row.password = r /\ Wrote(r)')
    /\ users' = [users EXCEPT ![u] = row] /\ nextUser' = nextUser

Removes(u) ==
    /\ IsUser(u)
    /\ users' = [users EXCEPT ![u] = NoUser] /\ nextUser' = nextUser

\* The unique keys refuse what the table holds, and make a writer wait for what
\* another transaction has not committed.
LEMMA FreeKeys ==
    ASSUME NEW r \in Requests, NEW u, NEW row \in User,
           Holders(r, row) = {}, ~Taken(u, row), \A w \in UserIds : ~Drafts(r, w)
    PROVE  Keyed(u, row)
<1>1. ASSUME NEW w \in UserIds \ {u}, IsUser(w) PROVE Differ(row, users[w])
  BY <1>1 DEF Taken, Differ
<1>2. ASSUME NEW x \in Requests, NEW w \in UserIds, Drafts(x, w) PROVE Differ(batch[x].draft[w], row)
  <2>1. x # r /\ x \notin Holders(r, row)
    BY <1>2
  <2> QED
    BY <1>2, <2>1 DEF Holders, Differ
<1> QED
  BY <1>1, <1>2 DEF Keyed

LEMMA OneRow ==
    ASSUME NEW r \in Requests, DirInv, WritesOne(r)
    PROVE  \/ users' = users /\ nextUser' = nextUser
           \/ \E row \in User : Inserts(r, row)
           \/ \E u \in UserIds, row \in User : Amends(r, u, row)
           \/ \E u \in UserIds : Removes(u)
<1>0. users \in Users /\ pc \in [Requests -> Labels] /\ ControlOK(r)
      /\ (Active(r) => input[r] \in Inputs)
  BY DEF DirInv, Control, TypeOK, ControlOK
<1>a. \A u \in UserIds : IsUser(u) => users[u] \in User
  BY <1>0 DEF Users, IsUser
<1>b. \A w \in UserIds : ~Drafts(r, w)
  BY DEF WritesOne
<1>1. CASE SavePreference(r)
  <2>1. me[r] \in UserIds /\ found[r] \in LangIds \cup {Null} /\ nextUser' = nextUser
    BY <1>0, <1>1 DEF SavePreference, DirInv, Control, TypeOK, ControlOK
  <2> DEFINE row == [users[me[r]] EXCEPT !.lang = found[r]]
  <2>2. CASE users' # users
    <3>1. users' = [users EXCEPT ![me[r]] = row] /\ IsUser(me[r])
      BY <1>1, <2>2 DEF SavePreference
    <3>2. /\ row \in User /\ row.name = users[me[r]].name /\ row.email = users[me[r]].email
          /\ row.password = users[me[r]].password
      BY <1>a, <2>1, <3>1 DEF User
    <3> HIDE DEF row
    <3>3. Keyed(me[r], row)
      BY <2>1, <3>1, <3>2 DEF Keyed, DirInv, RowsOK, DraftsOK, Differ
    <3> QED
      BY <2>1, <3>1, <3>2, <3>3 DEF Amends
  <2> QED
    BY <2>1, <2>2
<1>2. CASE InsertUser(r)
  <2> DEFINE new == input[r].new
             row == [name |-> new.name, email |-> new.email, lang |-> new.lang, password |-> r,
                     role |-> IF input[r].op = "register" THEN "participant" ELSE new.role]
  <2>1. new \in Details
    BY <1>0, <1>2, InputShape DEF InsertUser, ControlOK, Active
  <2>2. row \in User /\ row.password = r
    BY <2>1 DEF Details, User, Passwords, Roles
  <2>3. /\ Holders(r, row) = {}
        /\ \/ users' = users /\ nextUser' = nextUser
           \/ /\ ~Taken(Null, row) /\ nextUser \in UserIds /\ users' = [users EXCEPT ![nextUser] = row]
              /\ nextUser' = nextUser + 1 /\ pc'[r] \in {"enter", "close"}
    BY <1>0, <1>2 DEF InsertUser, Goto
  <2> HIDE DEF row, new
  <2>4. ASSUME ~Taken(Null, row) PROVE Keyed(nextUser, row)
    <3>1. Keyed(Null, row)
      BY <1>b, <2>2, <2>3, <2>4, FreeKeys
    <3> QED
      BY <3>1, Marks DEF Keyed
  <2>5. ~Wrote(r)
    BY <1>2 DEF InsertUser, Wrote
  <2> QED
    BY <2>2, <2>3, <2>4, <2>5 DEF Inserts, Wrote
<1>3. CASE AmendUser(r)
  <2> DEFINE u == input[r].user
             row == Amended(loaded[r], input[r].new, users[u])
             saved == [row EXCEPT !.password = IF input[r].reset THEN r ELSE @]
  <2>1. input[r].new \in Details /\ u \in UserIds /\ nextUser' = nextUser
    BY <1>0, <1>3, InputShape DEF AmendUser, ControlOK, Active
  <2>2. IsUser(u) => row \in User /\ row.password = users[u].password
    BY <1>a, <2>1, AmendedRow
  <2>3. \/ users' = users
        \/ /\ IsUser(u) /\ users' = [users EXCEPT ![u] = saved] /\ pc'[r] = "close"
           /\ Holders(r, row) = {} /\ ~Taken(u, row)
    BY <1>0, <1>3 DEF AmendUser, Goto
  <2> HIDE DEF row, u
  <2>4. IsUser(u) => saved \in User /\ saved.password \in {row.password, r}
                     /\ saved.name = row.name /\ saved.email = row.email
    BY <2>2 DEF User, Passwords
  <2> HIDE DEF saved
  <2>5. ASSUME IsUser(u), Holders(r, row) = {}, ~Taken(u, row) PROVE Keyed(u, saved)
    <3>1. Keyed(u, row)
      BY <1>b, <2>2, <2>5, FreeKeys
    <3> QED
      BY <2>4, <2>5, <3>1 DEF Keyed, Differ
  <2> QED
    BY <2>1, <2>2, <2>3, <2>4, <2>5 DEF Amends, Wrote
<1>4. CASE DeleteUser(r)
  <2>1. input[r].user \in UserIds /\ nextUser' = nextUser
    BY <1>0, <1>4, InputShape DEF DeleteUser, ControlOK, Active
  <2>2. users' = users \/ users' = [users EXCEPT ![input[r].user] = NoUser]
    BY <1>4 DEF DeleteUser
  <2>3. ~IsUser(input[r].user) => users = [users EXCEPT ![input[r].user] = NoUser]
    BY <1>0, <2>1 DEF IsUser, Users
  <2> QED
    BY <2>1, <2>2, <2>3 DEF Removes
<1> QED
  BY <1>1, <1>2, <1>3, <1>4 DEF WritesOne

-----------------------------------------------------------------------------
(***************************************************************************)
(* One row of an import                                                    *)
(***************************************************************************)
LEMMA SkipDrafts ==
    ASSUME NEW r \in Requests, Control, SkipRow(r)
    PROVE  /\ users' = users /\ nextUser' = nextUser /\ batch'[r].draft = batch[r].draft
           /\ \A u \in UserIds : Drafts(r, u)' <=> Drafts(r, u)
<1>1. batch[r] \in Batch /\ batch[r] # NoBatch /\ batch[r].left \in Seq(CsvRow) /\ batch[r].left # <<>>
  BY DEF SkipRow, Importing, Control, TypeOK, Batch
<1>2. batch'[r] = [batch[r] EXCEPT !.left = Tail(batch[r].left)]
  BY DEF SkipRow, Control, TypeOK
<1>3. batch'[r] \in Batch /\ batch'[r].draft = batch[r].draft
  BY <1>1, <1>2, ImportedTail DEF Batch
<1> QED
  BY <1>1, <1>3, Marks DEF SkipRow, Drafts, tables

LEMMA ImportDrafts ==
    ASSUME NEW r \in Requests, Control, ImportRow(r), ~RollBack(r)
    PROVE  /\ users' = users /\ nextUser' = nextUser + 1 /\ nextUser \in UserIds
           /\ batch'[r].draft = [batch[r].draft EXCEPT ![nextUser] = RowOf(r)]
           /\ batch[r].draft \in Users
           /\ \A u \in UserIds : Drafts(r, u)' <=> (Drafts(r, u) \/ u = nextUser)
           /\ Keyed(Null, RowOf(r))
<1>1. /\ batch[r] \in Batch /\ batch[r] # NoBatch /\ batch[r].left \in Seq(CsvRow)
      /\ batch[r].left # <<>> /\ batch[r].draft \in Users
  BY DEF ImportRow, Importing, Control, TypeOK, Batch
<1>2. /\ nextUser \in UserIds /\ nextUser' = nextUser + 1 /\ users' = users /\ pc' = pc
      /\ batch' = [batch EXCEPT ![r].left = Tail(@), ![r].draft[nextUser] = RowOf(r)]
      /\ ~Taken(Null, RowOf(r)) /\ Holders(r, RowOf(r)) = {} /\ pc[r] = "import"
      /\ ~Seen(r, Head(batch[r].left)) /\ Head(batch[r].left).name # Null
  BY DEF ImportRow, Importing
<1>3. RowOf(r) \in User /\ RowOf(r).name = Head(batch[r].left).name /\ RowOf(r).email = Head(batch[r].left).email
  BY ImportedRow DEF ImportRow
<1>4. batch'[r] = [batch[r] EXCEPT !.left = Tail(batch[r].left), !.draft[nextUser] = RowOf(r)]
  BY <1>2 DEF Control, TypeOK
<1>5. batch'[r].draft = [batch[r].draft EXCEPT ![nextUser] = RowOf(r)] /\ batch'[r] \in Batch
  <2> DEFINE left == Tail(batch[r].left)
             draft == [batch[r].draft EXCEPT ![nextUser] = RowOf(r)]
  <2>1. left \in Seq(CsvRow) /\ draft \in Users
    BY <1>1, <1>2, <1>3, ImportedTail DEF Users
  <2>2. batch'[r] = [batch[r] EXCEPT !.left = left, !.draft = draft]
    BY <1>1, <1>4 DEF Batch
  <2> HIDE DEF left, draft
  <2>3. batch'[r].draft = draft /\ batch'[r] \in Batch
    BY <1>1, <2>1, <2>2 DEF Batch
  <2> QED
    BY <2>3 DEF draft
<1>6. \A u \in UserIds : Drafts(r, u)' <=> (Drafts(r, u) \/ u = nextUser)
  BY <1>1, <1>2, <1>3, <1>5, Marks DEF Drafts, Users
<1>7. ASSUME NEW u \in UserIds, Drafts(r, u) PROVE Differ(batch[r].draft[u], RowOf(r))
  BY <1>2, <1>3, <1>7 DEF Drafts, Seen, Differ
<1>8. ASSUME NEW x \in Requests \ {r}, NEW w \in UserIds, Drafts(x, w) PROVE Differ(batch[x].draft[w], RowOf(r))
  <2>1. x \notin Holders(r, RowOf(r))
    BY <1>2
  <2> QED
    BY <1>8, <2>1 DEF Holders, Differ
<1>9. ASSUME NEW w \in UserIds, IsUser(w) PROVE Differ(RowOf(r), users[w])
  BY <1>2, <1>9, Marks DEF Taken, Differ
<1> QED
  BY <1>1, <1>2, <1>3, <1>5, <1>6, <1>7, <1>8, <1>9 DEF Keyed

-----------------------------------------------------------------------------
(***************************************************************************)
(* The invariant is preserved                                              *)
(***************************************************************************)
\* The AUTO_INCREMENT passes the id that it hands out.
LEMMA NextIdIsHigher ==
    \A m, k \in Nat : /\ m < m + 1 /\ (k < m => k # m /\ k < m + 1)
                      /\ k < m + 1 <=> k < m \/ k = m
OBVIOUS

\* Rows, drafts and passwords, when nobody's drafts change.
LEMMA OneRowKeeps ==
    ASSUME NEW r \in Requests, DirInv, Start(r) \/ Step(r) \/ Crash(r), WritesOne(r)
    PROVE  RowsOK' /\ DraftsOK' /\ PasswordsOK'
<1>0. /\ users \in Users /\ nextUser \in Nat /\ UserIds \subseteq Nat
      /\ \A u \in UserIds : IsUser(u) => users[u] \in User
  BY FirstRows DEF DirInv, Control, TypeOK, Users, IsUser
<1>1. ASSUME NEW x \in Requests, NEW u \in UserIds
      PROVE  (Drafts(x, u)' <=> Drafts(x, u)) /\ (Drafts(x, u) => batch'[x] = batch[x])
  BY OtherDrafts DEF DirInv, WritesOne
<1>2. ASSUME NEW x \in Requests, Wrote(x) PROVE Wrote(x)'
  BY <1>2, WroteStays DEF DirInv
<1>3. CASE users' = users /\ nextUser' = nextUser
  <2>1. RowsOK'
    BY <1>3 DEF DirInv, RowsOK, IsUser
  <2>2. DraftsOK'
    BY <1>1, <1>3 DEF DirInv, DraftsOK, IsUser
  <2>3. PasswordsOK'
    BY <1>2, <1>3 DEF DirInv, PasswordsOK, IsUser
  <2> QED
    BY <2>1, <2>2, <2>3
<1>4. ASSUME NEW row \in User, Inserts(r, row) PROVE RowsOK' /\ DraftsOK' /\ PasswordsOK'
  <2>1. /\ nextUser \in UserIds /\ nextUser' = nextUser + 1 /\ users'[nextUser] = row
        /\ \A w \in UserIds \ {nextUser} : users'[w] = users[w]
        /\ Keyed(nextUser, row) /\ row.password = r /\ Wrote(r)'
    BY <1>0, <1>4 DEF Inserts, Users
  <2>2. \A u \in UserIds : u < nextUser => u # nextUser /\ u < nextUser'
    <3>1. nextUser \in Nat /\ UserIds \subseteq Nat /\ nextUser' = nextUser + 1
      BY <1>0, <2>1
    <3> QED
      BY <3>1, NextIdIsHigher
  <2>3. nextUser < nextUser'
    BY <1>0, <2>1, NextIdIsHigher
  <2>4. RowsOK'
    BY <2>1, <2>2, <2>3 DEF DirInv, RowsOK, IsUser, Keyed, Differ
  <2>5. ASSUME NEW x \in Requests, NEW u \in UserIds, Drafts(x, u)
        PROVE  /\ u < nextUser' /\ ~IsUser(u)'
               /\ \A w \in UserIds : IsUser(w)' => Differ(batch[x].draft[u], users'[w])
    BY <2>1, <2>2, <2>5 DEF DirInv, DraftsOK, Keyed, IsUser
  <2>6. DraftsOK'
    BY <1>1, <2>5 DEF DirInv, DraftsOK
  <2>7. PasswordsOK'
    BY <1>2, <2>1 DEF DirInv, PasswordsOK, IsUser
  <2> QED
    BY <2>4, <2>6, <2>7
<1>5. ASSUME NEW u \in UserIds, NEW row \in User, Amends(r, u, row)
      PROVE  RowsOK' /\ DraftsOK' /\ PasswordsOK'
  <2>1. /\ nextUser' = nextUser /\ users'[u] = row /\ IsUser(u)
        /\ \A w \in UserIds \ {u} : users'[w] = users[w]
        /\ Keyed(u, row)
        /\ row.password = users[u].password \/ (row.password = r /\ Wrote(r)')
    BY <1>0, <1>5 DEF Amends, Users
  <2>2. RowsOK'
    BY <2>1 DEF DirInv, RowsOK, IsUser, Keyed, Differ
  <2>3. ASSUME NEW x \in Requests, NEW v \in UserIds, Drafts(x, v)
        PROVE  /\ v < nextUser' /\ ~IsUser(v)'
               /\ \A w \in UserIds : IsUser(w)' => Differ(batch[x].draft[v], users'[w])
    BY <2>1, <2>3 DEF DirInv, DraftsOK, Keyed, IsUser
  <2>4. DraftsOK'
    BY <1>1, <2>3 DEF DirInv, DraftsOK
  <2>5. PasswordsOK'
    BY <1>2, <2>1 DEF DirInv, PasswordsOK, IsUser
  <2> QED
    BY <2>2, <2>4, <2>5
<1>6. ASSUME NEW u \in UserIds, Removes(u) PROVE RowsOK' /\ DraftsOK' /\ PasswordsOK'
  <2>1. /\ nextUser' = nextUser /\ users'[u] = NoUser /\ \A w \in UserIds \ {u} : users'[w] = users[w]
    BY <1>0, <1>6 DEF Removes, Users
  <2>2. RowsOK'
    BY <2>1 DEF DirInv, RowsOK, IsUser
  <2>3. ASSUME NEW x \in Requests, NEW v \in UserIds, Drafts(x, v)
        PROVE  /\ v < nextUser' /\ ~IsUser(v)'
               /\ \A w \in UserIds : IsUser(w)' => Differ(batch[x].draft[v], users'[w])
    BY <2>1, <2>3 DEF DirInv, DraftsOK, IsUser
  <2>4. DraftsOK'
    BY <1>1, <2>3 DEF DirInv, DraftsOK
  <2>5. PasswordsOK'
    BY <1>2, <2>1 DEF DirInv, PasswordsOK, IsUser
  <2> QED
    BY <2>2, <2>4, <2>5
<1> QED
  BY <1>3, <1>4, <1>5, <1>6, OneRow

LEMMA DirStep ==
    ASSUME NEW r \in Requests, DirInv, Start(r) \/ Step(r) \/ Crash(r)
    PROVE  RowsOK' /\ DraftsOK' /\ PasswordsOK'
<1>0. /\ users \in Users /\ nextUser \in Nat /\ UserIds \subseteq Nat /\ Control
  BY FirstRows DEF DirInv, Control, TypeOK
<1>1. ASSUME NEW x \in Requests \ {r}, NEW u \in UserIds
      PROVE  (Drafts(x, u)' <=> Drafts(x, u)) /\ batch'[x] = batch[x]
  BY <1>0, OtherDrafts
<1>2. ASSUME NEW x \in Requests, Wrote(x) PROVE Wrote(x)'
  BY <1>0, <1>2, WroteStays
<1>3. ASSUME users' = users PROVE PasswordsOK' /\ (nextUser' \in {nextUser, nextUser + 1} => RowsOK')
  <2>1. PasswordsOK'
    BY <1>2, <1>3 DEF DirInv, PasswordsOK, IsUser
  <2>2. ASSUME nextUser' \in {nextUser, nextUser + 1} PROVE RowsOK'
    <3>1. \A u \in UserIds : u < nextUser => u < nextUser'
      BY <1>0, <2>2
    <3> QED
      BY <1>3, <3>1 DEF DirInv, RowsOK, IsUser
  <2> QED
    BY <2>1, <2>2
<1>4. CASE Drops(r)
  <2>1. DraftsOK'
    BY <1>1, <1>4 DEF DirInv, DraftsOK, Drops, IsUser
  <2> QED
    BY <1>3, <1>4, <2>1 DEF Drops
<1>5. CASE SkipRow(r)
  <2>1. /\ users' = users /\ nextUser' = nextUser /\ batch'[r].draft = batch[r].draft
        /\ \A u \in UserIds : Drafts(r, u)' <=> Drafts(r, u)
    BY <1>0, <1>5, SkipDrafts
  <2>2. \A x \in Requests, u \in UserIds :
          batch'[x].draft = batch[x].draft /\ (Drafts(x, u)' <=> Drafts(x, u))
    BY <1>1, <2>1
  <2>3. DraftsOK'
    BY <2>1, <2>2 DEF DirInv, DraftsOK, IsUser
  <2> QED
    BY <1>3, <2>1, <2>3
<1>6. CASE ImportRow(r) /\ ~RollBack(r)
  <2>1. /\ users' = users /\ nextUser' = nextUser + 1 /\ nextUser \in UserIds
        /\ batch'[r].draft[nextUser] = RowOf(r)
        /\ \A u \in UserIds \ {nextUser} : batch'[r].draft[u] = batch[r].draft[u]
        /\ \A u \in UserIds : Drafts(r, u)' <=> (Drafts(r, u) \/ u = nextUser)
        /\ Keyed(Null, RowOf(r))
    BY <1>0, <1>6, ImportDrafts DEF Users
  <2>2. \A u \in UserIds : u < nextUser => u # nextUser /\ u < nextUser'
    <3>1. nextUser \in Nat /\ UserIds \subseteq Nat /\ nextUser' = nextUser + 1
      BY <1>0, <2>1
    <3> QED
      BY <3>1, NextIdIsHigher
  <2>3. nextUser < nextUser'
    BY <1>0, <2>1, NextIdIsHigher
  <2>4. \A u \in UserIds : IsUser(u) => u # nextUser
    BY <2>2 DEF DirInv, RowsOK
  <2>5. \A x \in Requests, u \in UserIds : Drafts(x, u) => u # nextUser /\ u < nextUser'
    BY <2>2 DEF DirInv, DraftsOK
  <2>6. ASSUME NEW x \in Requests, NEW u \in UserIds, Drafts(x, u)'
        PROVE  \/ Drafts(x, u) /\ u # nextUser /\ batch'[x].draft[u] = batch[x].draft[u]
               \/ x = r /\ u = nextUser /\ batch'[x].draft[u] = RowOf(r)
    BY <1>1, <2>1, <2>5, <2>6
  <2>7. ASSUME NEW x \in Requests, NEW u \in UserIds, Drafts(x, u)'
        PROVE  /\ u < nextUser' /\ ~IsUser(u)'
               /\ \A w \in UserIds : IsUser(w)' => Differ(batch'[x].draft[u], users'[w])
    <3>1. ~IsUser(nextUser)
      BY <2>1, <2>4
    <3> QED
      BY <2>1, <2>3, <2>5, <2>6, <2>7, <3>1, Marks DEF DirInv, DraftsOK, IsUser, Keyed
  <2>8. ASSUME NEW x \in Requests, NEW u \in UserIds, Drafts(x, u)',
               NEW y \in Requests, NEW w \in UserIds, Drafts(y, w)', y # x \/ w # u
        PROVE  u # w /\ Differ(batch'[x].draft[u], batch'[y].draft[w])
    <3>1. \A z \in Requests, v \in UserIds : Drafts(z, v) => Differ(batch[z].draft[v], RowOf(r))
      BY <2>1 DEF Keyed
    <3>2. CASE Drafts(x, u) /\ u # nextUser /\ batch'[x].draft[u] = batch[x].draft[u]
      <4>1. CASE Drafts(y, w) /\ w # nextUser /\ batch'[y].draft[w] = batch[y].draft[w]
        BY <2>8, <3>2, <4>1 DEF DirInv, DraftsOK
      <4>2. CASE y = r /\ w = nextUser /\ batch'[y].draft[w] = RowOf(r)
        BY <3>1, <3>2, <4>2
      <4> QED
        BY <2>6, <2>8, <4>1, <4>2
    <3>3. CASE x = r /\ u = nextUser /\ batch'[x].draft[u] = RowOf(r)
      <4>1. Drafts(y, w) /\ w # nextUser /\ batch'[y].draft[w] = batch[y].draft[w]
        BY <2>6, <2>8, <3>3
      <4> QED
        BY <3>1, <3>3, <4>1 DEF Differ
    <3> QED
      BY <2>6, <2>8, <3>2, <3>3
  <2>9. DraftsOK'
    BY <2>7, <2>8 DEF DraftsOK
  <2> QED
    BY <1>3, <2>1, <2>9
<1>7. CASE CommitImport(r)
  <2>1. /\ users' = [u \in UserIds |-> IF batch[r].draft[u] # NoUser THEN batch[r].draft[u] ELSE users[u]]
        /\ nextUser' = nextUser /\ batch' = batch /\ pc[r] = "import" /\ batch[r] # NoBatch
        /\ pc'[r] = "keep"
    BY <1>0, <1>7 DEF CommitImport, frame, Goto, Control, TypeOK
  <2>2. \A u \in UserIds : (batch[r].draft[u] # NoUser <=> Drafts(r, u)) /\ ~Drafts(r, u)'
    BY <2>1 DEF Drafts
  <2>3. ASSUME NEW u \in UserIds, IsUser(u)'
        PROVE  \/ Drafts(r, u) /\ users'[u] = batch[r].draft[u]
               \/ IsUser(u) /\ users'[u] = users[u]
    BY <2>1, <2>2, <2>3 DEF IsUser
  <2>4. RowsOK'
    <3>1. ASSUME NEW u \in UserIds, IsUser(u)' PROVE u < nextUser'
      BY <2>1, <2>3, <3>1 DEF DirInv, RowsOK, DraftsOK
    <3>2. ASSUME NEW u \in UserIds, NEW w \in UserIds, IsUser(u)', IsUser(w)', u # w
          PROVE  Differ(users'[u], users'[w])
      BY <2>3, <3>2 DEF DirInv, RowsOK, DraftsOK, Differ
    <3> QED
      BY <3>1, <3>2 DEF RowsOK
  <2>5. ASSUME NEW x \in Requests, NEW u \in UserIds, Drafts(x, u)'
        PROVE  Drafts(x, u) /\ x # r /\ ~IsUser(u)'
               /\ \A w \in UserIds : IsUser(w)' => Differ(batch[x].draft[u], users'[w])
    <3>1. x # r /\ Drafts(x, u)
      BY <1>1, <2>2, <2>5
    <3>2. ~Drafts(r, u)
      BY <3>1 DEF DirInv, DraftsOK
    <3>3. ~IsUser(u)
      BY <3>1 DEF DirInv, DraftsOK
    <3>4. ~IsUser(u)'
      BY <2>3, <3>2, <3>3
    <3>5. ASSUME NEW w \in UserIds, IsUser(w)' PROVE Differ(batch[x].draft[u], users'[w])
      BY <2>3, <3>1, <3>5 DEF DirInv, DraftsOK
    <3> QED
      BY <3>1, <3>4, <3>5
  <2>6. DraftsOK'
    BY <2>1, <2>5 DEF DirInv, DraftsOK
  <2>7. PasswordsOK'
    <3>1. Wrote(r)'
      BY <2>1 DEF Wrote
    <3>2. \A u \in UserIds : Drafts(r, u) => batch[r].draft[u].password = r
      BY DEF DirInv, DraftOK, Drafts
    <3> QED
      BY <1>2, <2>3, <3>1, <3>2 DEF DirInv, PasswordsOK
  <2> QED
    BY <2>4, <2>6, <2>7
<1> QED
  BY <1>0, <1>4, <1>5, <1>6, <1>7, OneRowKeeps, KindsOfSteps

LEMMA DirNext == DirInv /\ [Next]_vars => DirInv'
<1> SUFFICES ASSUME DirInv, [Next]_vars PROVE DirInv'
  OBVIOUS
<1>1. Control'
  BY ControlNext DEF DirInv
<1>2. ASSUME NEW r \in Requests, Start(r) \/ Step(r) \/ Crash(r) PROVE DirInv'
  <2>1. \A x \in Requests : DraftOK(x)'
    BY <1>2, DraftStep DEF DirInv
  <2> QED
    BY <1>1, <1>2, <2>1, DirStep DEF DirInv
<1>3. ASSUME UNCHANGED <<users, nextUser, pc, batch>> PROVE DirInv'
  BY <1>1, <1>3 DEF DirInv, DraftOK, RowsOK, DraftsOK, PasswordsOK, Drafts, IsUser, Wrote
<1>4. ASSUME NEW b \in Browsers, SessionExpires(b) PROVE UNCHANGED <<users, nextUser, pc, batch>>
  BY <1>4 DEF SessionExpires, tables, frame
<1>5. ASSUME UNCHANGED vars PROVE UNCHANGED <<users, nextUser, pc, batch>>
  BY <1>5 DEF vars, tables, frame
<1> QED
  BY <1>2, <1>3, <1>4, <1>5 DEF Next, Finished

-----------------------------------------------------------------------------
(***************************************************************************)
(* The refinement                                                          *)
(***************************************************************************)
LEMMA DirectoryInit == Init => Dir!Init
<1> SUFFICES ASSUME Init PROVE Dir!Init
  OBVIOUS
<1>1. DirInv
  BY DirInit
<1>2. users \in Users /\ Dir!Unique(users)
  BY <1>1 DEF DirInv, Control, TypeOK, RowsOK, IsUser, Differ, Dir!Unique
<1>3. ASSUME NEW u \in Spent PROVE FALSE
  <2> DEFINE n == Cardinality({w \in UserIds : FirstUsers[w] # NoUser})
  <2>1. nextUser = n + 1
    BY DEF Init, IsUser
  <2>2. n \in Nat
    <3>1. IsFiniteSet({w \in UserIds : FirstUsers[w] # NoUser})
      BY FirstRows, FS_Subset
    <3> QED
      BY <3>1, FS_CardinalityType
  <2>3. u \in UserIds /\ u \in Nat /\ (u <= n => FirstUsers[u] # NoUser) /\ u < nextUser /\ ~IsUser(u)
    BY FirstRows DEF Spent
  <2> HIDE DEF n
  <2>4. u <= n
    BY <2>1, <2>2, <2>3
  <2> QED
    BY <2>3, <2>4 DEF Init, IsUser
<1>4. Spent = {}
  BY <1>3
<1> QED
  BY <1>2, <1>4 DEF Dir!Init, Users

\* Every statement of a handler is one promised change of the table, or none.
LEMMA DirectoryStep ==
    ASSUME NEW r \in Requests, DirInv, DirInv', Start(r) \/ Step(r) \/ Crash(r)
    PROVE  Dir!Next \/ (users' = users /\ Spent' = Spent)
<1>0. /\ users \in Users /\ users' \in Users /\ nextUser \in Nat /\ UserIds \subseteq Nat /\ Control
      /\ Dir!Unique(users') /\ users' \in [UserIds -> User \cup {NoUser}]
  BY FirstRows DEF DirInv, Control, TypeOK, RowsOK, IsUser, Differ, Dir!Unique, Users
<1>1. ASSUME NEW x \in Requests \ {r}, NEW u \in UserIds
      PROVE  (Drafts(x, u)' <=> Drafts(x, u)) /\ batch'[x] = batch[x]
  BY <1>0, OtherDrafts
<1>2. \A u : u \in Spent <=> u \in UserIds /\ u < nextUser /\ ~IsUser(u) /\ \A x \in Requests : ~Drafts(x, u)
  BY DEF Spent
<1>3. \A u : u \in Spent' <=> u \in UserIds /\ u < nextUser' /\ ~IsUser(u)' /\ \A x \in Requests : ~Drafts(x, u)'
  BY DEF Spent
<1>4. CASE Drops(r)
  <2> DEFINE ids == {u \in UserIds : Drafts(r, u)}
  <2>1. \A u \in ids : u \in UserIds /\ u < nextUser /\ ~IsUser(u)
    BY DEF DirInv, DraftsOK
  <2>2. ASSUME NEW u \in UserIds, Drafts(r, u), NEW x \in Requests \ {r} PROVE ~Drafts(x, u)
    BY <2>2 DEF DirInv, DraftsOK
  <2>3. \A u : u \in Spent' <=> u \in Spent \/ u \in ids
    BY <1>1, <1>2, <1>3, <1>4, <2>1, <2>2 DEF Drops, IsUser
  <2>4. Spent' = Spent \cup ids
    BY <2>3
  <2>5. Dir!Waste(ids)
    BY <1>4, <2>1, <2>4 DEF Dir!Waste, Dir!IsUser, Drops, IsUser
  <2>6. ids \in SUBSET UserIds
    OBVIOUS
  <2> QED
    BY <2>5, <2>6 DEF Dir!Next
<1>5. CASE SkipRow(r)
  <2>1. /\ users' = users /\ nextUser' = nextUser
        /\ \A u \in UserIds : Drafts(r, u)' <=> Drafts(r, u)
    BY <1>0, <1>5, SkipDrafts
  <2>2. \A u : u \in Spent' <=> u \in Spent
    BY <1>1, <1>2, <1>3, <2>1 DEF IsUser
  <2> QED
    BY <2>1, <2>2
<1>6. CASE ImportRow(r) /\ ~RollBack(r)
  <2>1. /\ users' = users /\ nextUser' = nextUser + 1 /\ nextUser \in UserIds
        /\ \A u \in UserIds : Drafts(r, u)' <=> (Drafts(r, u) \/ u = nextUser)
    BY <1>0, <1>6, ImportDrafts
  <2>2. \A u \in UserIds : u < nextUser' <=> u < nextUser \/ u = nextUser
    <3>1. nextUser \in Nat /\ UserIds \subseteq Nat /\ nextUser' = nextUser + 1
      BY <1>0, <2>1
    <3> QED
      BY <3>1, NextIdIsHigher
  <2>3. \A u \in UserIds : u < nextUser => u # nextUser
    BY <1>0
  <2>4. \A u : u \in Spent' <=> u \in Spent
    BY <1>1, <1>2, <1>3, <2>1, <2>2, <2>3 DEF IsUser
  <2> QED
    BY <2>1, <2>4
<1>7. CASE CommitImport(r)
  <2> DEFINE new == {u \in UserIds : Drafts(r, u)}
  <2>1. /\ users' = [u \in UserIds |-> IF batch[r].draft[u] # NoUser THEN batch[r].draft[u] ELSE users[u]]
        /\ nextUser' = nextUser /\ batch' = batch /\ pc[r] = "import" /\ batch[r] # NoBatch
        /\ pc'[r] = "keep"
    BY <1>0, <1>7 DEF CommitImport, frame, Goto, Control, TypeOK
  <2>2. \A u \in UserIds : (batch[r].draft[u] # NoUser <=> Drafts(r, u)) /\ ~Drafts(r, u)'
    BY <2>1 DEF Drafts
  <2>3. \A u \in UserIds : IsUser(u)' <=> IsUser(u) \/ Drafts(r, u)
    BY <2>1, <2>2 DEF IsUser
  <2>4. \A u : u \in Spent' <=> u \in Spent
    BY <1>1, <1>2, <1>3, <2>1, <2>2, <2>3
  <2>5. CASE new = {}
    <3>1. \A u \in UserIds : users'[u] = users[u]
      BY <2>1, <2>2, <2>5
    <3>2. users' = users
      <4>1. users = [u \in UserIds |-> users[u]] /\ users' = [u \in UserIds |-> users'[u]]
        BY <1>0 DEF Users
      <4>2. [u \in UserIds |-> users[u]] = [u \in UserIds |-> users'[u]]
        BY <3>1
      <4> QED
        BY <4>1, <4>2
    <3> QED
      BY <2>4, <3>2
  <2>6. CASE new # {}
    <3>1. \A u \in new : ~Dir!IsUser(u) /\ u \notin Spent
      BY <1>2 DEF DirInv, DraftsOK, Dir!IsUser, IsUser
    <3>2. \A u \in UserIds \ new : users'[u] = users[u]
      BY <2>1, <2>2
    <3>3. \A u \in new : users'[u] = batch[r].draft[u] /\ users'[u] # NoUser /\ users'[u].password = r
      BY <2>1, <2>2 DEF DirInv, DraftOK
    <3>4. \A u \in new : users'[u] \in User
      BY <1>0, <3>3
    <3>5. \A w \in UserIds : Dir!IsUser(w) => users[w].password # r
      BY <2>1 DEF DirInv, PasswordsOK, Wrote, Dir!IsUser, IsUser
    <3>6. Spent' = Spent
      BY <2>4
    <3> HIDE DEF new
    <3>7. Dir!Enrol(new)
      BY <1>0, <2>6, <3>1, <3>2, <3>3, <3>4, <3>5, <3>6 DEF Dir!Enrol
    <3>8. new \in SUBSET UserIds
      BY DEF new
    <3> QED
      BY <3>7, <3>8 DEF Dir!Next
  <2> QED
    BY <2>5, <2>6
<1>8. CASE WritesOne(r)
  <2>1. \A x \in Requests, u \in UserIds : Drafts(x, u)' <=> Drafts(x, u)
    BY <1>1, <1>8 DEF WritesOne
  <2>2. CASE users' = users /\ nextUser' = nextUser
    <3>1. \A u : u \in Spent' <=> u \in Spent
      BY <1>2, <1>3, <2>1, <2>2 DEF IsUser
    <3> QED
      BY <2>2, <3>1
  <2>3. ASSUME NEW row \in User, Inserts(r, row) PROVE Dir!Next
    <3>1. /\ nextUser \in UserIds /\ nextUser' = nextUser + 1 /\ users'[nextUser] = row
          /\ \A w \in UserIds \ {nextUser} : users'[w] = users[w]
          /\ row.password = r /\ ~Wrote(r) /\ row # NoUser
      BY <1>0, <2>3, Marks DEF Inserts, Users
    <3>2. \A u \in UserIds : u < nextUser' <=> u < nextUser \/ u = nextUser
      <4>1. nextUser \in Nat /\ UserIds \subseteq Nat /\ nextUser' = nextUser + 1
        BY <1>0, <3>1
      <4> QED
        BY <4>1, NextIdIsHigher
    <3>3. \A u \in UserIds : u < nextUser => u # nextUser
      BY <1>0
    <3>4. nextUser \notin Spent /\ ~IsUser(nextUser)
      BY <1>2, <3>1, <3>3 DEF DirInv, RowsOK
    <3>5. \A u : u \in Spent' <=> u \in Spent
      BY <1>2, <1>3, <2>1, <3>1, <3>2, <3>4 DEF IsUser
    <3>6. Spent' = Spent
      BY <3>5
    <3>7. \A w \in UserIds : Dir!IsUser(w) => users[w].password # row.password
      BY <3>1 DEF DirInv, PasswordsOK, Dir!IsUser, IsUser
    <3>8. Dir!Enrol({nextUser})
      BY <1>0, <3>1, <3>4, <3>6, <3>7 DEF Dir!Enrol, Dir!IsUser, IsUser
    <3> QED
      BY <3>1, <3>8 DEF Dir!Next
  <2>4. ASSUME NEW u \in UserIds, NEW row \in User, Amends(r, u, row) PROVE Dir!Next
    <3>1. /\ nextUser' = nextUser /\ users'[u] = row /\ IsUser(u) /\ row # NoUser
          /\ \A w \in UserIds \ {u} : users'[w] = users[w]
      BY <1>0, <2>4, Marks DEF Amends, Users
    <3>2. \A w : w \in Spent' <=> w \in Spent
      BY <1>2, <1>3, <2>1, <3>1 DEF IsUser
    <3>3. Spent' = Spent
      BY <3>2
    <3>4. Dir!Amend(u)
      BY <1>0, <3>1, <3>3 DEF Dir!Amend, Dir!IsUser, IsUser
    <3> QED
      BY <3>4 DEF Dir!Next
  <2>5. ASSUME NEW u \in UserIds, Removes(u) PROVE Dir!Next
    <3>1. /\ nextUser' = nextUser /\ users' = [users EXCEPT ![u] = NoUser] /\ IsUser(u)
          /\ users'[u] = NoUser /\ \A w \in UserIds \ {u} : users'[w] = users[w]
      BY <1>0, <2>5 DEF Removes, Users
    <3>2. u < nextUser /\ \A x \in Requests : ~Drafts(x, u)
      BY <3>1 DEF DirInv, RowsOK, DraftsOK
    <3>3. \A w : w \in Spent' <=> w \in Spent \/ w = u
      BY <1>2, <1>3, <2>1, <3>1, <3>2 DEF IsUser
    <3>4. Spent' = Spent \cup {u}
      BY <3>3
    <3>5. Dir!Remove(u)
      BY <3>1, <3>4 DEF Dir!Remove, Dir!IsUser, IsUser
    <3> QED
      BY <3>5 DEF Dir!Next
  <2> QED
    BY <1>8, <2>2, <2>3, <2>4, <2>5, OneRow
<1> QED
  BY <1>0, <1>4, <1>5, <1>6, <1>7, <1>8, KindsOfSteps

\* Registration, forms, imports and deletions together implement the users table of
\* Directory, for any number of requests that overlap, crash and roll back.
THEOREM AccountsRefineDirectory == Spec => RefinesDirectory
<1>1. DirInv /\ DirInv' /\ [Next]_vars => [Dir!Next]_<<users, Spent>>
  <2> SUFFICES ASSUME DirInv, DirInv', [Next]_vars
               PROVE  Dir!Next \/ (users' = users /\ Spent' = Spent)
    OBVIOUS
  <2>1. ASSUME UNCHANGED <<users, nextUser, pc, batch>> PROVE users' = users /\ Spent' = Spent
    BY <2>1 DEF Spent, IsUser, Drafts
  <2>2. ASSUME NEW b \in Browsers, SessionExpires(b) PROVE UNCHANGED <<users, nextUser, pc, batch>>
    BY <2>2 DEF SessionExpires, tables, frame
  <2>3. ASSUME UNCHANGED vars PROVE UNCHANGED <<users, nextUser, pc, batch>>
    BY <2>3 DEF vars, tables, frame
  <2> QED
    BY <2>1, <2>2, <2>3, DirectoryStep DEF Next, Finished
<1> QED
  BY <1>1, DirInit, DirNext, DirectoryInit, PTL DEF Spec, RefinesDirectory, Dir!Spec
=============================================================================
