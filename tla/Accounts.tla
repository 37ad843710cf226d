------------------------------- MODULE Accounts -------------------------------
(***************************************************************************)
(* Users, languages and sessions: the SetLocale middleware, the switch of  *)
(* locale, AuthController's login, register and logout, Admin\UserController *)
(* with its CSV import, and Admin\LanguageController, run by concurrent    *)
(* requests of several browsers.                                           *)
(*                                                                         *)
(* Each handler outside the import issues statements of its own, so each   *)
(* commits at once; the import is one transaction (external: InnoDB,       *)
(* repeatable read).  A password stands for its hash and is named by the   *)
(* request that hashed it: hashes are salted, so each is new whether the   *)
(* plain text was generated, typed in or read from the CSV.                *)
(***************************************************************************)
EXTENDS WebSession, Naturals, FiniteSets, Sequences

CONSTANTS
    Inputs,         \* what a request may ask for, a set of records IsInput admits
    MaxConcurrent,  \* bound: requests that may be under way at once
    UserIds,        \* bound: ids of users rows
    LangIds,        \* bound: ids of languages rows
    FirstUsers,     \* the users table at the start
    FirstLanguages, \* the languages table at the start
    FirstSessions,  \* the sessions at the start, by id
    FirstCookies,   \* who sends which of them
    FirstRemember,  \* who has a remember-me cookie of which user
    Names, Emails,  \* usernames and email addresses
    Codes,          \* language codes
    Locales,        \* config app.available_locales
    Fallback,       \* config app.fallback_locale
    Accepted,       \* getPreferredLanguage of each browser
    Initial,        \* the passwords that users start with
    NoUser, NoLang, NoList, NoBatch     \* no such row, list or transaction

VARIABLES
    users,      \* the users table, by id
    languages,  \* the languages table: the code of each id
    nextUser,   \* the AUTO_INCREMENT of users
    nextLang,   \* and that of languages
    pc,         \* the statement each request is about to run
    input,      \* what it asks for
    me,         \* the user it is authenticated as
    loaded,     \* the row that it has loaded and will save
    found,      \* the language id that a switch has looked up
    batch,      \* an import under way: [view, left, draft]
    chosen,     \* history: the locale each browser has switched to
    owed,       \* history: the import whose passwords a browser may still fetch
    clash,      \* history: browsers with requests that overlap
    ended       \* history: sessions that were logged out

tables  == <<users, languages, nextUser, nextLang>>
frame   == <<input, me, loaded, found, batch>>
history == <<chosen, owed, clash, ended>>
vars    == <<tables, web, pc, frame, history>>

Roles == {"admin", "manager", "assessor", "participant"}
Passwords == Requests \cup {Initial}

User == [name : Names, email : Emails, role : Roles, lang : LangIds \cup {Null},
         password : Passwords]
Users == [UserIds -> User \cup {NoUser}]
Language == [code : Codes]

\* csv_import_passwords: who was imported, with the passwords of which import.
List == [by : Requests, who : SUBSET UserIds]
Payload == [locale : Locales \cup {Null}, user : UserIds \cup {Null}, list : List \cup {NoList}]
Held == [sid : Sids, existed : BOOLEAN, data : Payload]
Empty == [locale |-> Null, user |-> Null, list |-> NoList]

Details == [name : Names, email : Emails, role : Roles, lang : LangIds \cup {Null}]
CsvRow == [name : Names \cup {Null}, email : Emails]
Batch == [view : Users, left : Seq(CsvRow), draft : Users]

IsInput(i) ==
    /\ i.from \in Browsers
    /\ \/ i.op \in {"page", "logout", "download"}
       \/ i.op = "switch" /\ i.locale \in Locales
       \/ i.op = "login" /\ i.email \in Emails /\ i.remember \in BOOLEAN
       \/ i.op \in {"register", "store"} /\ i.new \in Details
       \/ i.op = "update" /\ i.user \in UserIds /\ i.new \in Details /\ i.reset \in BOOLEAN
       \/ i.op = "destroy" /\ i.user \in UserIds
       \/ i.op = "import" /\ i.rows \in Seq(CsvRow) /\ i.role \in Roles
       \/ i.op = "addlang" /\ i.code \in Codes
       \/ i.op = "editlang" /\ i.lang \in LangIds /\ i.code \in Codes
       \/ i.op = "droplang" /\ i.lang \in LangIds

NoInput == [op |-> "none"]

ASSUME AccountInputs == \A i \in Inputs : IsInput(i)

ASSUME RequestBound == IsFiniteSet(Requests) /\ MaxConcurrent \in Nat

\* The tables at the start are the seeders': typed rows under the first ids, names and
\* emails unique, preferences that exist, passwords that no request has generated.
ASSUME FirstRows ==
    /\ IsFiniteSet(UserIds) /\ UserIds \subseteq Nat
    /\ IsFiniteSet(LangIds) /\ LangIds \subseteq Nat
    /\ FirstUsers \in Users /\ FirstLanguages \in [LangIds -> Codes \cup {NoLang}]
    /\ \A u \in UserIds :
          FirstUsers[u] # NoUser <=> u <= Cardinality({w \in UserIds : FirstUsers[w] # NoUser})
    /\ \A u \in UserIds : FirstUsers[u] # NoUser =>
          /\ FirstUsers[u].password = Initial
          /\ FirstUsers[u].lang # Null => FirstLanguages[FirstUsers[u].lang] # NoLang
          /\ \A w \in UserIds \ {u} : FirstUsers[w] # NoUser =>
                FirstUsers[u].name # FirstUsers[w].name /\ FirstUsers[u].email # FirstUsers[w].email

\* The browsers at the start: each session belongs to one of them at most.
ASSUME FirstBrowsers ==
    /\ FirstSessions \in [FirstSids -> Payload] /\ FirstSids \cap Requests = {}
    /\ FirstCookies \in [Browsers -> FirstSids \cup {Null}]
    /\ \A b, c \in Browsers : b # c /\ FirstCookies[b] # Null => FirstCookies[b] # FirstCookies[c]
    /\ FirstRemember \in [Browsers -> UserIds \cup {Null}]
    /\ \A s \in FirstSids : FirstSessions[s].list = NoList
    /\ Fallback \in Locales

\* The marks for what is absent are not values.
ASSUME Marks ==
    /\ NoUser \notin User /\ NoLang \notin Codes /\ NoList \notin List /\ NoSession \notin Payload
    /\ Null \notin User /\ Null \notin UserIds /\ Null \notin LangIds /\ Null \notin Names
    /\ Null \notin Locales /\ Null \notin Sids /\ NoBatch \notin Batch /\ Initial \notin Requests

IsUser(u) == users[u] # NoUser
IsLang(l) == languages[l] # NoLang
IsAdmin(u) == IsUser(u) /\ users[u].role = "admin"

Labels == {"idle", "find", "prefer", "login", "logout", "validate", "insert", "enter", "amend",
           "delete", "import", "keep", "download", "checkcode", "insertlang", "amendlang",
           "checkusers", "deletelang", "close", "fail", "over"}

Active(r) == pc[r] \notin {"idle", "over"}
Busy(b) == \E r \in Requests : Active(r) /\ input[r].from = b

Init ==
    /\ users = FirstUsers /\ languages = FirstLanguages
    /\ nextUser = Cardinality({u \in UserIds : IsUser(u)}) + 1
    /\ nextLang = Cardinality({l \in LangIds : IsLang(l)}) + 1
    /\ sessions = [s \in Sids |-> IF s \in FirstSids THEN FirstSessions[s] ELSE NoSession]
    /\ cookie = FirstCookies /\ remember = FirstRemember
    /\ http = [r \in Requests |-> [sid |-> r, existed |-> FALSE, data |-> Empty]]
    /\ pc = [r \in Requests |-> "idle"]
    /\ input = [r \in Requests |-> NoInput]
    /\ me = [r \in Requests |-> Null]
    /\ loaded = [r \in Requests |-> Null]
    /\ found = [r \in Requests |-> Null]
    /\ batch = [r \in Requests |-> NoBatch]
    /\ chosen = [b \in Browsers |-> Null]
    /\ owed = [b \in Browsers |-> Null]
    /\ clash = {}
    /\ ended = {}

-----------------------------------------------------------------------------
(***************************************************************************)
(* The middleware: session, authentication, route binding, locale, role    *)
(***************************************************************************)
Goto(r, label) == pc' = [pc EXCEPT ![r] = label]

\* Auth::user(): the session's user if the row is still there, else the one whom a
\* remember-me cookie names.
UserOf(data, b) ==
    IF data.user # Null /\ IsUser(data.user) THEN data.user
    ELSE IF remember[b] # Null /\ IsUser(remember[b]) THEN remember[b] ELSE Null

LocaleOfUser(u) ==
    IF u # Null /\ users[u].lang # Null THEN languages[users[u].lang] ELSE Null

SetLocalePreference(data, u, b) ==   \* mutant: the user's preference goes first
    LET preferred == IF LocaleOfUser(u) # Null THEN LocaleOfUser(u)
                     ELSE IF data.locale # Null THEN data.locale ELSE Accepted[b]
    IN  IF preferred \in Locales THEN preferred ELSE Fallback
SetLocaleUnchecked(data, u, b) ==    \* mutant: no check that the locale is available
    IF data.locale # Null THEN data.locale
    ELSE IF LocaleOfUser(u) # Null THEN LocaleOfUser(u) ELSE Accepted[b]
SetLocale(data, u, b) ==
    LET preferred == IF data.locale # Null THEN data.locale
                     ELSE IF LocaleOfUser(u) # Null THEN LocaleOfUser(u) ELSE Accepted[b]
    IN  IF preferred \in Locales THEN preferred ELSE Fallback

ForGuests == {"login", "register"}
ForAdmins == {"store", "update", "destroy", "import", "download", "addlang", "editlang", "droplang"}

\* auth and route binding come before SetLocale: a redirect to the login form, or 404.
Refused(i, u) ==
    \/ i.op \in ForAdmins \cup {"logout"} /\ u = Null
    \/ i.op \in {"update", "destroy"} /\ ~IsUser(i.user)
    \/ i.op \in {"editlang", "droplang"} /\ ~IsLang(i.lang)

Entry(i, u) ==
    IF Refused(i, u) \/ (i.op \in ForAdmins /\ users[u].role # "admin") THEN "fail"
    ELSE IF i.op = "page" \/ (i.op \in ForGuests /\ u # Null) THEN "close"
    ELSE [switch |-> "find", login |-> "login", logout |-> "logout", register |-> "validate",
          store |-> "validate", update |-> "validate", destroy |-> "delete", import |-> "import",
          download |-> "download", addlang |-> "checkcode", editlang |-> "checkcode",
          droplang |-> "checkusers"][i.op]

Loaded(i, u) ==
    IF i.op = "update" /\ IsUser(i.user) THEN users[i.user]
    ELSE IF i.op = "editlang" /\ IsLang(i.lang) THEN [code |-> languages[i.lang]]
    ELSE IF i.op = "switch" /\ u # Null THEN users[u] ELSE Null

\* A remembered user is logged in, which moves the session to a new id.
Start(r) ==
    /\ pc[r] = "idle"
    /\ Cardinality({x \in Requests : Active(x)}) < MaxConcurrent
    /\ \E i \in Inputs :
        LET o == Opened(r, i.from, Empty)
            u == UserOf(o.data, i.from)
            data == IF Refused(i, u) THEN o.data
                    ELSE [o.data EXCEPT !.locale = SetLocale(o.data, u, i.from)]
        IN  /\ input' = [input EXCEPT ![r] = i]
            /\ me' = [me EXCEPT ![r] = u]
            /\ loaded' = [loaded EXCEPT ![r] = Loaded(i, u)]
            /\ IF u \in {Null, o.data.user}
               THEN http' = [http EXCEPT ![r] = [o EXCEPT !.data = data]] /\ UNCHANGED sessions
               ELSE /\ sessions' = [sessions EXCEPT ![o.sid] = NoSession]
                    /\ http' = [http EXCEPT ![r] = [sid |-> r, existed |-> FALSE,
                                                    data |-> [data EXCEPT !.user = u]]]
            /\ Goto(r, Entry(i, u))
            /\ clash' = IF Busy(i.from) THEN clash \cup {i.from} ELSE clash \ {i.from}
            /\ chosen' = IF Busy(i.from) THEN [chosen EXCEPT ![i.from] = Null] ELSE chosen
            /\ owed' = IF Busy(i.from) THEN [owed EXCEPT ![i.from] = Null] ELSE owed
    /\ UNCHANGED <<tables, cookie, remember, found, batch, ended>>

\* The process ends and its locals go with it.
End(r) ==
    /\ Goto(r, "over")
    /\ http' = [http EXCEPT ![r] = [sid |-> r, existed |-> FALSE, data |-> Empty]]
    /\ input' = [input EXCEPT ![r] = NoInput]
    /\ me' = [me EXCEPT ![r] = Null]
    /\ loaded' = [loaded EXCEPT ![r] = Null]
    /\ found' = [found EXCEPT ![r] = Null]
    /\ batch' = [batch EXCEPT ![r] = NoBatch]

\* The answer: an exception too ends in a response, with which the session is saved.
Close(r) ==
    /\ pc[r] \in {"close", "fail"}
    /\ LET b == input[r].from
           imported == http[r].data.list # NoList /\ http[r].data.list.by = r
       IN  /\ SaveSession(r, b)
           /\ chosen' = [chosen EXCEPT ![b] =
                  IF input[r].op = "switch" /\ b \notin clash THEN input[r].locale
                  ELSE IF input[r].op = "logout" THEN Null ELSE @]
           /\ owed' = [owed EXCEPT ![b] =
                  IF imported /\ b \notin clash THEN r
                  ELSE IF input[r].op \in {"download", "logout"} THEN Null ELSE @]
    /\ End(r)
    /\ UNCHANGED <<tables, remember, clash, ended>>

-----------------------------------------------------------------------------
(***************************************************************************)
(* locale/switch                                                           *)
(***************************************************************************)
FindLanguage(r) ==
    /\ pc[r] = "find"
    /\ Put(r, [http[r].data EXCEPT !.locale = input[r].locale])
    /\ IF me[r] = Null
       THEN Goto(r, "close") /\ UNCHANGED found
       ELSE /\ Goto(r, "prefer")
            /\ \/ \E l \in LangIds : languages[l] = input[r].locale /\ found' = [found EXCEPT ![r] = l]
               \/ /\ \A l \in LangIds : languages[l] # input[r].locale
                  /\ UNCHANGED found
    /\ UNCHANGED <<tables, sessions, cookie, remember, input, me, loaded, batch, history>>

\* The UPDATE names language_pref only if it differs from the loaded row; it must
\* refer to a language, and matches nothing once the user is deleted.
SavePreference(r) ==
    /\ pc[r] = "prefer"
    /\ IF found[r] = loaded[r].lang \/ ~IsUser(me[r])
       THEN Goto(r, "close") /\ UNCHANGED users
       ELSE IF found[r] # Null /\ ~IsLang(found[r])
       THEN Goto(r, "fail") /\ UNCHANGED users
       ELSE users' = [users EXCEPT ![me[r]].lang = found[r]] /\ Goto(r, "close")
    /\ UNCHANGED <<languages, nextUser, nextLang, web, frame, history>>

-----------------------------------------------------------------------------
(***************************************************************************)
(* AuthController                                                          *)
(***************************************************************************)
\* Auth::attempt; whether the posted password is the user's is a choice.
Login(r) ==
    /\ pc[r] = "login"
    /\ \/ \E u \in UserIds :
             /\ IsUser(u) /\ users[u].email = input[r].email
             /\ me' = [me EXCEPT ![r] = u]
             /\ Goto(r, "enter")
       \/ Goto(r, "close") /\ UNCHANGED me
    /\ UNCHANGED <<tables, web, input, loaded, found, batch, history>>

\* Auth::login: the payload, with the locale a guest had, moves to a new session.
Enter(r) ==
    /\ pc[r] = "enter"
    /\ Migrate(r, [http[r].data EXCEPT !.user = me[r]])
    /\ remember' = IF input[r].op = "login" /\ input[r].remember
                   THEN [remember EXCEPT ![input[r].from] = me[r]] ELSE remember
    /\ Goto(r, "close")
    /\ UNCHANGED <<tables, cookie, frame, history>>

LogoutForget(r) ==                   \* mutant: forgets the user, keeps the session
    /\ pc[r] = "logout"
    /\ Put(r, Empty) /\ ForgetRemembered(me[r])
    /\ ended' = ended \cup {http[r].sid}
    /\ Goto(r, "close")
    /\ UNCHANGED <<tables, sessions, cookie, frame, chosen, owed, clash>>
Logout(r) ==
    /\ pc[r] = "logout"
    /\ Migrate(r, Empty) /\ ForgetRemembered(me[r])
    /\ ended' = ended \cup {http[r].sid}
    /\ Goto(r, "close")
    /\ UNCHANGED <<tables, cookie, frame, chosen, owed, clash>>

-----------------------------------------------------------------------------
(***************************************************************************)
(* register, and UserController::store, update and destroy                 *)
(***************************************************************************)
\* The rules unique:users and exists:languages, on the rows of that moment.
Taken(u, w) == \E x \in UserIds \ {u} : IsUser(x) /\ (users[x].name = w.name \/ users[x].email = w.email)

Validate(r) ==
    /\ pc[r] = "validate"
    /\ LET new == input[r].new
           self == IF input[r].op = "update" THEN input[r].user ELSE Null
       IN  Goto(r, IF Taken(self, new) \/ (new.lang # Null /\ ~IsLang(new.lang)) THEN "close"
                   ELSE IF input[r].op = "update" THEN "amend" ELSE "insert")
    /\ UNCHANGED <<tables, web, frame, history>>

\* A unique key that another transaction has written but not committed.
Drafts(r, u) == pc[r] = "import" /\ batch[r] # NoBatch /\ batch[r].draft[u] # NoUser
Holders(r, w) ==
    {x \in Requests \ {r} : \E u \in UserIds :
        /\ Drafts(x, u)
        /\ \/ batch[x].draft[u].name = w.name
           \/ batch[x].draft[u].email = w.email}

\* User::create: one INSERT, which the unique keys and the foreign key may refuse.
InsertUser(r) ==
    /\ pc[r] = "insert"
    /\ LET new == input[r].new
           row == [name |-> new.name, email |-> new.email, lang |-> new.lang, password |-> r,
                   role |-> IF input[r].op = "register" THEN "participant" ELSE new.role]
       IN  /\ Holders(r, row) = {}
           /\ IF Taken(Null, row) \/ (row.lang # Null /\ ~IsLang(row.lang))
              THEN Goto(r, "fail") /\ UNCHANGED <<users, nextUser, me>>
              ELSE /\ nextUser \in UserIds
                   /\ users' = [users EXCEPT ![nextUser] = row]
                   /\ nextUser' = nextUser + 1
                   /\ IF input[r].op = "register"
                      THEN me' = [me EXCEPT ![r] = nextUser] /\ Goto(r, "enter")
                      ELSE UNCHANGED me /\ Goto(r, "close")
    /\ UNCHANGED <<languages, nextLang, web, input, loaded, found, batch, history>>

\* Eloquent writes the columns that differ from the loaded row on the row as it is now.
Amended(old, new, row) ==
    [row EXCEPT !.name  = IF new.name = old.name THEN @ ELSE new.name,
                !.email = IF new.email = old.email THEN @ ELSE new.email,
                !.role  = IF new.role = old.role THEN @ ELSE new.role,
                !.lang  = IF new.lang = old.lang THEN @ ELSE new.lang]

AmendUser(r) ==
    /\ pc[r] = "amend"
    /\ LET u == input[r].user
           row == Amended(loaded[r], input[r].new, users[u])
       IN  IF ~IsUser(u)
           THEN Goto(r, "close") /\ UNCHANGED users
           ELSE /\ Holders(r, row) = {}
                /\ IF Taken(u, row) \/ (row.lang # Null /\ ~IsLang(row.lang))
                   THEN Goto(r, "fail") /\ UNCHANGED users
                   ELSE /\ users' = [users EXCEPT ![u] =
                              [row EXCEPT !.password = IF input[r].reset THEN r ELSE @]]
                        /\ Goto(r, "close")
    /\ UNCHANGED <<languages, nextUser, nextLang, web, frame, history>>

\* Rows elsewhere that refer to the user (assessments, notifications...) may forbid it.
DeleteUserSelf(r) ==                 \* mutant: an admin may delete himself
    /\ pc[r] = "delete"
    /\ \/ users' = [users EXCEPT ![input[r].user] = NoUser] /\ Goto(r, "close")
       \/ IsUser(input[r].user) /\ UNCHANGED users /\ Goto(r, "fail")
    /\ UNCHANGED <<languages, nextUser, nextLang, web, frame, history>>
DeleteUser(r) ==
    /\ pc[r] = "delete"
    /\ IF me[r] = input[r].user
       THEN UNCHANGED users /\ Goto(r, "close")
       ELSE \/ users' = [users EXCEPT ![input[r].user] = NoUser] /\ Goto(r, "close")
            \/ IsUser(input[r].user) /\ UNCHANGED users /\ Goto(r, "fail")
    /\ UNCHANGED <<languages, nextUser, nextLang, web, frame, history>>

-----------------------------------------------------------------------------
(***************************************************************************)
(* importCsv and downloadImportedPasswords                                 *)
(***************************************************************************)
BeginImport(r) ==
    /\ pc[r] = "import" /\ batch[r] = NoBatch
    /\ batch' = [batch EXCEPT ![r] =
           [view |-> users, left |-> input[r].rows, draft |-> [u \in UserIds |-> NoUser]]]
    /\ UNCHANGED <<tables, web, pc, input, me, loaded, found, history>>

\* exists(): the snapshot and the rows that this import has inserted.
Seen(r, w) ==
    \E u \in UserIds : \E row \in {batch[r].view[u], batch[r].draft[u]} :
        row # NoUser /\ (row.name = w.name \/ row.email = w.email)

Importing(r) == pc[r] = "import" /\ batch[r] # NoBatch /\ batch[r].left # <<>>

SkipRow(r) ==
    /\ Importing(r)
    /\ Head(batch[r].left).name = Null \/ Seen(r, Head(batch[r].left))
    /\ batch' = [batch EXCEPT ![r].left = Tail(@)]
    /\ UNCHANGED <<tables, web, pc, input, me, loaded, found, history>>

\* The transaction is rolled back, "Import failed"; the session keeps an earlier list.
RollBackCleared(r) ==                \* mutant: the list is dropped with it
    /\ batch' = [batch EXCEPT ![r] = NoBatch]
    /\ Put(r, [http[r].data EXCEPT !.list = NoList])
    /\ Goto(r, "close")
    /\ UNCHANGED <<tables, sessions, cookie, remember, input, me, loaded, found, history>>
RollBack(r) ==
    /\ batch' = [batch EXCEPT ![r] = NoBatch]
    /\ Goto(r, "close")
    /\ UNCHANGED <<tables, web, input, me, loaded, found, history>>

\* The password is the CSV's fourth column or a generated one; it is hashed here.
RowOf(r) ==
    [name |-> Head(batch[r].left).name, email |-> Head(batch[r].left).email,
     role |-> input[r].role, lang |-> Null, password |-> r]

\* User::create in the transaction; it meets rows that the snapshot does not show.
ImportRowNow(r) ==                   \* mutant: without the transaction
    /\ Importing(r)
    /\ Head(batch[r].left).name # Null /\ ~Seen(r, Head(batch[r].left))
    /\ IF Taken(Null, RowOf(r))
       THEN RollBack(r)
       ELSE /\ nextUser \in UserIds
            /\ users' = [users EXCEPT ![nextUser] = RowOf(r)]
            /\ nextUser' = nextUser + 1
            /\ batch' = [batch EXCEPT ![r].left = Tail(@), ![r].draft[nextUser] = RowOf(r)]
            /\ UNCHANGED <<languages, nextLang, web, pc, input, me, loaded, found, history>>
ImportRow(r) ==
    /\ Importing(r)
    /\ Head(batch[r].left).name # Null /\ ~Seen(r, Head(batch[r].left))
    /\ Holders(r, RowOf(r)) = {}
    /\ IF Taken(Null, RowOf(r))
       THEN RollBack(r)
       ELSE /\ nextUser \in UserIds
            /\ nextUser' = nextUser + 1
            /\ batch' = [batch EXCEPT ![r].left = Tail(@), ![r].draft[nextUser] = RowOf(r)]
            /\ UNCHANGED <<users, languages, nextLang, web, pc, input, me, loaded, found, history>>

CommitImport(r) ==
    /\ pc[r] = "import" /\ batch[r] # NoBatch /\ batch[r].left = <<>>
    /\ users' = [u \in UserIds |-> IF batch[r].draft[u] # NoUser THEN batch[r].draft[u] ELSE users[u]]
    /\ Goto(r, "keep")
    /\ UNCHANGED <<languages, nextUser, nextLang, web, frame, history>>

\* session(['csv_import_passwords' => ...]), after the commit.
KeepList(r) ==
    /\ pc[r] = "keep"
    /\ Put(r, [http[r].data EXCEPT !.list =
           [by |-> r, who |-> {u \in UserIds : batch[r].draft[u] # NoUser}]])
    /\ Goto(r, "close")
    /\ UNCHANGED <<tables, sessions, cookie, remember, frame, history>>

\* 404 without a list; else the list is forgotten and the response is built.  What
\* response()->stream() returns is not the declared Illuminate\Http\Response, which
\* is a TypeError: an error page, with which the session is saved.
Download(r) ==
    /\ pc[r] = "download"
    /\ IF http[r].data.list = NoList \/ http[r].data.list.who = {}
       THEN UNCHANGED http
       ELSE Put(r, [http[r].data EXCEPT !.list = NoList])
    /\ Goto(r, "fail")
    /\ UNCHANGED <<tables, sessions, cookie, remember, frame, history>>

-----------------------------------------------------------------------------
(***************************************************************************)
(* LanguageController                                                      *)
(***************************************************************************)
CodeTaken(r) ==
    \E l \in LangIds : /\ languages[l] = input[r].code
                       /\ input[r].op = "editlang" => l # input[r].lang

CheckCode(r) ==
    /\ pc[r] = "checkcode"
    /\ Goto(r, IF CodeTaken(r) THEN "close"
               ELSE IF input[r].op = "addlang" THEN "insertlang" ELSE "amendlang")
    /\ UNCHANGED <<tables, web, frame, history>>

InsertLanguage(r) ==
    /\ pc[r] = "insertlang"
    /\ IF CodeTaken(r)
       THEN Goto(r, "fail") /\ UNCHANGED <<languages, nextLang>>
       ELSE /\ nextLang \in LangIds
            /\ languages' = [languages EXCEPT ![nextLang] = input[r].code]
            /\ nextLang' = nextLang + 1
            /\ Goto(r, "close")
    /\ UNCHANGED <<users, nextUser, web, frame, history>>

\* The UPDATE names code only if it differs from the loaded row.
AmendLanguage(r) ==
    /\ pc[r] = "amendlang"
    /\ IF ~IsLang(input[r].lang) \/ input[r].code = loaded[r].code
       THEN Goto(r, "close") /\ UNCHANGED languages
       ELSE IF CodeTaken(r)
       THEN Goto(r, "fail") /\ UNCHANGED languages
       ELSE languages' = [languages EXCEPT ![input[r].lang] = input[r].code] /\ Goto(r, "close")
    /\ UNCHANGED <<users, nextUser, nextLang, web, frame, history>>

Spoken(l) == \E u \in UserIds : IsUser(u) /\ users[u].lang = l

CheckUsers(r) ==
    /\ pc[r] = "checkusers"
    /\ Goto(r, IF Spoken(input[r].lang) THEN "close" ELSE "deletelang")
    /\ UNCHANGED <<tables, web, frame, history>>

\* The foreign key of users.language_pref has no delete rule: it forbids.
DeleteLanguageUnchecked(r) ==        \* mutant: no foreign key
    /\ pc[r] = "deletelang"
    /\ languages' = [languages EXCEPT ![input[r].lang] = NoLang]
    /\ Goto(r, "close")
    /\ UNCHANGED <<users, nextUser, nextLang, web, frame, history>>
DeleteLanguage(r) ==
    /\ pc[r] = "deletelang"
    /\ IF Spoken(input[r].lang)
       THEN Goto(r, "fail") /\ UNCHANGED languages
       ELSE languages' = [languages EXCEPT ![input[r].lang] = NoLang] /\ Goto(r, "close")
    /\ UNCHANGED <<users, nextUser, nextLang, web, frame, history>>

-----------------------------------------------------------------------------
(***************************************************************************)
(* Failures (external), and the specification                              *)
(***************************************************************************)
\* Two imports that wait for each other's rows: one of them loses.
WaitsFor(r) ==
    IF Importing(r) /\ Head(batch[r].left).name # Null /\ ~Seen(r, Head(batch[r].left))
    THEN Holders(r, RowOf(r)) ELSE {}

DeadlockVictim(r) == (\E x \in WaitsFor(r) : r \in WaitsFor(x)) /\ RollBack(r)

\* The process dies: no answer, and what it did to its session is not saved.
Crash(r) ==
    /\ Active(r)
    /\ LET b == input[r].from
           lost == http[r].sid # SidFor(r, b)
       IN  /\ chosen' = IF lost THEN [chosen EXCEPT ![b] = Null] ELSE chosen
           /\ owed' = IF lost THEN [owed EXCEPT ![b] = Null] ELSE owed
           /\ ended' = IF lost /\ input[r].op = "logout" THEN ended \ {cookie[b]} ELSE ended
           /\ remember' = IF lost /\ input[r].op = "login" THEN [remember EXCEPT ![b] = Null]
                          ELSE remember
    /\ End(r)
    /\ UNCHANGED <<tables, sessions, cookie, clash>>

SessionExpires(b) ==
    /\ ~Busy(b)
    /\ ExpireSession(b)
    /\ chosen' = [chosen EXCEPT ![b] = Null]
    /\ owed' = [owed EXCEPT ![b] = Null]
    /\ UNCHANGED <<tables, pc, frame, clash, ended>>

Step(r) ==
    \/ FindLanguage(r) \/ SavePreference(r)
    \/ Login(r) \/ Enter(r) \/ Logout(r)
    \/ Validate(r) \/ InsertUser(r) \/ AmendUser(r) \/ DeleteUser(r)
    \/ BeginImport(r) \/ SkipRow(r) \/ ImportRow(r) \/ CommitImport(r) \/ KeepList(r)
    \/ DeadlockVictim(r) \/ Download(r)
    \/ CheckCode(r) \/ InsertLanguage(r) \/ AmendLanguage(r) \/ CheckUsers(r) \/ DeleteLanguage(r)
    \/ Close(r)

Finished == (\A r \in Requests : pc[r] = "over") /\ UNCHANGED vars

Next ==
    \/ \E r \in Requests : Start(r) \/ Step(r) \/ Crash(r)
    \/ \E b \in Browsers : SessionExpires(b)
    \/ Finished

Spec == Init /\ [][Next]_vars

-----------------------------------------------------------------------------
(***************************************************************************)
(* Properties                                                              *)
(***************************************************************************)
\* Tables, sessions and locals have the types of the schema and the handlers; in
\* particular every locale in use is one of the available ones, whatever codes the
\* admins give to languages.
TypeOK ==
    /\ users \in Users
    /\ languages \in [LangIds -> Codes \cup {NoLang}]
    /\ nextUser \in Nat /\ nextLang \in Nat
    /\ sessions \in [Sids -> Payload \cup {NoSession}]
    /\ cookie \in [Browsers -> Sids \cup {Null}]
    /\ remember \in [Browsers -> UserIds \cup {Null}]
    /\ http \in [Requests -> Held]
    /\ pc \in [Requests -> Labels]
    /\ input \in [Requests -> Inputs \cup {NoInput}]
    /\ me \in [Requests -> UserIds \cup {Null}]
    /\ loaded \in [Requests -> User \cup Language \cup {Null}]
    /\ found \in [Requests -> LangIds \cup {Null}]
    /\ batch \in [Requests -> Batch \cup {NoBatch}]
    /\ chosen \in [Browsers -> Locales \cup {Null}]
    /\ owed \in [Browsers -> Requests \cup {Null}]
    /\ clash \subseteq Browsers /\ ended \subseteq Sids

\* "Cannot delete a language that is assigned to users.": nobody's preference refers
\* to a language that is gone, although destroy looks before it deletes and a
\* switch, a form or a registration look a language up before they save it.
AssignedLanguageExists ==
    \A u \in UserIds : IsUser(u) /\ users[u].lang # Null => IsLang(users[u].lang)

\* A browser that was answered a switch of locale sees its pages in that locale
\* until it switches again, logs out or its session expires: across a login, the
\* deletion of the language or the user, failed saves and crashed requests, unless
\* the browser sends requests that overlap.
SwitchSticks ==
    \A b \in Browsers : ~Busy(b) /\ chosen[b] # Null /\ cookie[b] # Null =>
        LET data == Stored(cookie[b], Empty) IN SetLocale(data, UserOf(data, b), b) = chosen[b]

\* An admin who was told that users were imported finds their passwords in the
\* session until the list is fetched: everybody who still has a password of that
\* import is on it, and a later import that fails takes nothing away.
OwedListIsThere ==
    \A b \in Browsers : ~Busy(b) /\ owed[b] # Null =>
        LET list == Stored(cookie[b], Empty).list
        IN  /\ list # NoList /\ list.by = owed[b]
            /\ {u \in UserIds : IsUser(u) /\ users[u].password = owed[b]} \subseteq list.who

\* After a logout the session stays logged out: an answer of another request that
\* read the session before and writes it back later does not revive it, as long as a
\* browser has at most two requests under way.  With three it may: one that opens the
\* session after the logout puts its row back, for the stale one to overwrite.
LogoutSticks ==
    \A s \in ended : sessions[s] # NoSession => sessions[s].user = Null

\* "You cannot delete your own account.": a deletion by somebody who is still an
\* admin leaves an admin.
DeletionLeavesAnAdmin ==
    [][\A r \in Requests : pc[r] = "delete" /\ pc'[r] = "close" /\ IsAdmin(me[r])
          => \E u \in UserIds : IsAdmin(u)']_vars

\* The ids that were handed out and have no row: those of deleted users, and those
\* of imports that were rolled back.
Spent ==
    {u \in UserIds : u < nextUser /\ ~IsUser(u) /\ ~\E r \in Requests : Drafts(r, u)}

Dir == INSTANCE Directory WITH Ids <- UserIds, Row <- User, NoRow <- NoUser,
                               dir <- users, gone <- Spent

\* Registration, forms, imports and deletions together keep what Directory promises:
\* unique names and emails, imports that appear whole or not at all, and no user
\* who comes back.
RefinesDirectory == Dir!Spec

\* "Clear session after download": a list of passwords leaves the session with an
\* answer that sends it.
DownloadSendsTheList ==
    [][\A r \in Requests :
          /\ input[r].op = "download" /\ pc'[r] = "over" /\ pc[r] \in {"close", "fail"}
          /\ Stored(http[r].sid, Empty).list # NoList
          /\ sessions'[http[r].sid] # NoSession /\ sessions'[http[r].sid].list = NoList
          => pc[r] = "close"]_vars
=============================================================================
