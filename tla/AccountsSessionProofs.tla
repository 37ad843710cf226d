------------------------- MODULE AccountsSessionProofs -------------------------
(***************************************************************************)
(* Proofs about the sessions of Accounts: a switch of locale sticks, the   *)
(* list of an import waits for its admin, and a logout is not undone.      *)
(***************************************************************************)
EXTENDS AccountsProofs

-----------------------------------------------------------------------------
(***************************************************************************)
(* What a step does to sessions and cookies                                *)
(***************************************************************************)
\* A statement that leaves the request in its session.
Quiet(r) ==
    /\ UNCHANGED <<sessions, cookie, chosen, owed, clash, ended>>
    /\ pc[r] \notin {"idle", "over", "close", "fail"} /\ Active(r)' /\ input'[r] = input[r]
    /\ http'[r].sid = http[r].sid /\ http'[r].existed = http[r].existed
    /\ http'[r].data.user = http[r].data.user
    /\ http'[r].data.locale = IF pc[r] = "find" THEN input[r].locale ELSE http[r].data.locale
    /\ pc'[r] # "find"
    /\ \/ http'[r].data.list = http[r].data.list
       \/ input[r].op = "download" /\ http'[r].data.list = NoList
       \/ /\ pc[r] = "keep" /\ pc'[r] = "close" /\ input[r].op = "import" /\ users' = users
          /\ http'[r].data.list = [by |-> r, who |-> {u \in UserIds : batch[r].draft[u] # NoUser}]

\* A login or a logout: the session moves to a new id.
Moves(r) ==
    /\ UNCHANGED <<cookie, chosen, owed, clash>>
    /\ pc[r] \in {"enter", "logout"} /\ pc'[r] = "close" /\ input'[r] = input[r]
    /\ sessions' = [sessions EXCEPT ![http[r].sid] = NoSession]
    /\ http'[r].sid = r /\ http'[r].existed = FALSE
    /\ \/ /\ input[r].op = "logout" /\ http'[r].data = Empty
          /\ ended' = ended \cup {http[r].sid}
       \/ /\ input[r].op \in ForGuests /\ ended' = ended
          /\ http'[r].data.locale = http[r].data.locale /\ http'[r].data.list = http[r].data.list

\* The middleware opens the session of browser b, and moves it for a remembered user.
Opens(r, b) ==
    /\ UNCHANGED <<cookie, ended>>
    /\ pc[r] = "idle" /\ Active(r)' /\ input'[r] \in Inputs /\ input'[r].from = b
    /\ input'[r].op = "switch" => pc'[r] = "find"
    /\ LET stored == Stored(SidFor(r, b), Empty)
       IN  /\ http'[r].data.list = stored.list
           /\ stored.locale \in Locales => http'[r].data.locale = stored.locale
           /\ \/ /\ http'[r].sid = SidFor(r, b) /\ sessions' = sessions
                 /\ http'[r].existed <=> sessions[SidFor(r, b)] # NoSession
                 /\ http'[r].data.user = stored.user
              \/ /\ http'[r].sid = r /\ http'[r].existed = FALSE
                 /\ sessions' = [sessions EXCEPT ![SidFor(r, b)] = NoSession]
    /\ clash' = IF Busy(b) THEN clash \cup {b} ELSE clash \ {b}
    /\ chosen' = IF Busy(b) THEN [chosen EXCEPT ![b] = Null] ELSE chosen
    /\ owed' = IF Busy(b) THEN [owed EXCEPT ![b] = Null] ELSE owed

\* The others are where they were.
Rest(r) ==
    \A x \in Requests \ {r} :
        /\ pc'[x] = pc[x] /\ input'[x] = input[x] /\ http'[x] = http[x]
        /\ Active(x)' <=> Active(x)

LEMMA RestStays ==
    ASSUME NEW r \in Requests, Control, Start(r) \/ Step(r) \/ Crash(r)
    PROVE  Rest(r)
BY OthersKeep DEF Control, SameLocals, Rest, Active

LEMMA OpensAtStart ==
    ASSUME NEW r \in Requests, Control, Start(r)
    PROVE  \E b \in Browsers : Opens(r, b)
<1>0. ControlOK(r) /\ TypeOK
  BY DEF Control
<1>1. PICK i \in Inputs :
        LET o == Opened(r, i.from, Empty)
            u == UserOf(o.data, i.from)
            data == IF Refused(i, u) THEN o.data
                    ELSE [o.data EXCEPT !.locale = SetLocale(o.data, u, i.from)]
        IN  /\ input' = [input EXCEPT ![r] = i]
            /\ me' = [me EXCEPT ![r] = u]
            /\ loaded' = [loaded EXCEPT ![r] = Loaded(i, u)]
            /\ IF u \in {Null, o.data.user}
               THEN http' = [http EXCEPT ![r] = [o EXCEPT !.data = data]] /\ UNCHANGED sessions
               ELSE /\ sessions' = [sessions EXCEPT ![o.sid] = NoSession]
                    /\ http' = [http EXCEPT ![r] = [sid |-> r, existed |-> FALSE,
                                                    data |-> [data EXCEPT !.user = u]]]
            /\ Goto(r, Entry(i, u))
            /\ clash' = IF Busy(i.from) THEN clash \cup {i.from} ELSE clash \ {i.from}
            /\ chosen' = IF Busy(i.from) THEN [chosen EXCEPT ![i.from] = Null] ELSE chosen
            /\ owed' = IF Busy(i.from) THEN [owed EXCEPT ![i.from] = Null] ELSE owed
  BY DEF Start
<1> DEFINE b == i.from
           o == Opened(r, b, Empty)
           u == UserOf(o.data, b)
           data == IF Refused(i, u) THEN o.data
                   ELSE [o.data EXCEPT !.locale = SetLocale(o.data, u, b)]
<1>2. b \in Browsers /\ SidFor(r, b) \in Sids
  BY <1>0, InputShape DEF TypeOK, SidFor, Sids
<1>3. Stored(SidFor(r, b), Empty) \in Payload
  BY <1>0, <1>2 DEF TypeOK, Stored, Empty, Payload
<1>4. /\ o.sid = SidFor(r, b) /\ o.data = Stored(SidFor(r, b), Empty) /\ o.data \in Payload
      /\ (o.existed <=> sessions[SidFor(r, b)] # NoSession) /\ o.existed \in BOOLEAN
      /\ o = [sid |-> o.sid, existed |-> o.existed, data |-> o.data]
  BY <1>3 DEF Opened
<1>5. /\ input' = [input EXCEPT ![r] = i] /\ pc' = [pc EXCEPT ![r] = Entry(i, u)]
      /\ \/ http' = [http EXCEPT ![r] = [o EXCEPT !.data = data]] /\ sessions' = sessions
         \/ /\ sessions' = [sessions EXCEPT ![o.sid] = NoSession]
            /\ http' = [http EXCEPT ![r] = [sid |-> r, existed |-> FALSE,
                                            data |-> [data EXCEPT !.user = u]]]
  BY <1>1 DEF Goto
<1> HIDE DEF o, u
<1>6. /\ data \in Payload /\ data.list = o.data.list /\ data.user = o.data.user
      /\ o.data.locale \in Locales => data.locale = o.data.locale
  <2>1. o.data.locale \in Locales => SetLocale(o.data, u, b) = o.data.locale
    BY Marks DEF SetLocale
  <2>2. SetLocale(o.data, u, b) \in Locales
    BY FirstBrowsers DEF SetLocale
  <2> QED
    BY <1>4, <2>1, <2>2 DEF Payload
<1> HIDE DEF data
<1>7. http'[r].data.list = o.data.list /\ (o.data.locale \in Locales => http'[r].data.locale = o.data.locale)
  BY <1>0, <1>4, <1>5, <1>6 DEF TypeOK, Payload
<1>8. \/ /\ http'[r].sid = SidFor(r, b) /\ sessions' = sessions
         /\ http'[r].existed <=> sessions[SidFor(r, b)] # NoSession
         /\ http'[r].data.user = o.data.user
      \/ /\ http'[r].sid = r /\ http'[r].existed = FALSE
         /\ sessions' = [sessions EXCEPT ![SidFor(r, b)] = NoSession]
  BY <1>0, <1>4, <1>5, <1>6 DEF TypeOK
<1>9. /\ pc[r] = "idle" /\ cookie' = cookie /\ ended' = ended
      /\ input'[r] = i /\ pc'[r] = Entry(i, u)
  BY <1>0, <1>5 DEF Start, TypeOK
<1>10. Active(r)' /\ (i.op = "switch" => pc'[r] = "find")
  BY <1>9, EntryLabel DEF Active
<1> QED
  BY <1>1, <1>2, <1>4, <1>7, <1>8, <1>9, <1>10 DEF Opens

LEMMA InnerSteps ==
    ASSUME NEW r \in Requests, Control, Step(r), ~Close(r)
    PROVE  Quiet(r) \/ Moves(r)
<1>0. /\ ControlOK(r) /\ http[r] \in Held /\ http \in [Requests -> Held] /\ pc \in [Requests -> Labels]
      /\ input \in [Requests -> Inputs \cup {NoInput}] /\ http[r].data \in Payload
  BY DEF Control, TypeOK, Held
<1>a. ASSUME NEW d, Put(r, d)
      PROVE  http'[r].sid = http[r].sid /\ http'[r].existed = http[r].existed /\ http'[r].data = d
  BY <1>0, <1>a DEF Put, Held
<1>b. ASSUME NEW d, Migrate(r, d)
      PROVE  /\ http'[r].sid = r /\ http'[r].existed = FALSE /\ http'[r].data = d
             /\ sessions' = [sessions EXCEPT ![http[r].sid] = NoSession]
  BY <1>0, <1>b DEF Migrate
<1>c. Active(r) /\ pc[r] \notin {"close", "fail"}
  BY DEF Step, Close, Active, FindLanguage, SavePreference, Login, Enter, Logout, Validate, InsertUser,
         AmendUser, DeleteUser, BeginImport, SkipRow, ImportRow, Importing, WaitsFor, CommitImport,
         KeepList, DeadlockVictim, Download, CheckCode, InsertLanguage, AmendLanguage, CheckUsers,
         DeleteLanguage
<1>d. pc'[r] \notin {"idle", "over", "find"}
  BY <1>0, <1>c
  DEF Step, Close, Active, FindLanguage, SavePreference, Login, Enter, Logout, Validate, InsertUser,
      AmendUser, DeleteUser, BeginImport, SkipRow, ImportRow, RollBack, Importing, WaitsFor, CommitImport,
      KeepList, DeadlockVictim, Download, CheckCode, InsertLanguage, AmendLanguage, CheckUsers,
      DeleteLanguage, Goto
<1>1. CASE FindLanguage(r)
  <2>1. http'[r].data = [http[r].data EXCEPT !.locale = input[r].locale]
        /\ http'[r].sid = http[r].sid /\ http'[r].existed = http[r].existed
    BY <1>1, <1>a DEF FindLanguage
  <2>2. /\ http'[r].data.locale = input[r].locale /\ http'[r].data.user = http[r].data.user
        /\ http'[r].data.list = http[r].data.list
    BY <1>0, <2>1 DEF Payload
  <2> QED
    BY <1>1, <1>c, <1>d, <2>1, <2>2 DEF FindLanguage, Quiet, Active, history
<1>2. CASE KeepList(r)
  <2>1. /\ http'[r].data = [http[r].data EXCEPT !.list =
               [by |-> r, who |-> {u \in UserIds : batch[r].draft[u] # NoUser}]]
        /\ http'[r].sid = http[r].sid /\ http'[r].existed = http[r].existed
    BY <1>2, <1>a DEF KeepList
  <2>2. /\ http'[r].data.locale = http[r].data.locale /\ http'[r].data.user = http[r].data.user
        /\ http'[r].data.list = [by |-> r, who |-> {u \in UserIds : batch[r].draft[u] # NoUser}]
    BY <1>0, <2>1 DEF Payload
  <2>3. pc[r] = "keep" /\ pc'[r] = "close" /\ input[r].op = "import" /\ input'[r] = input[r]
    BY <1>0, <1>2 DEF KeepList, Goto, ControlOK, frame
  <2> QED
    BY <1>2, <1>c, <1>d, <2>1, <2>2, <2>3 DEF KeepList, Quiet, Active, history, tables
<1>3. CASE Download(r)
  <2>1. /\ http'[r].data \in {http[r].data, [http[r].data EXCEPT !.list = NoList]}
        /\ http'[r].sid = http[r].sid /\ http'[r].existed = http[r].existed
    BY <1>0, <1>3, <1>a DEF Download
  <2>2. /\ http'[r].data.locale = http[r].data.locale /\ http'[r].data.user = http[r].data.user
        /\ http'[r].data.list \in {http[r].data.list, NoList}
    BY <1>0, <2>1 DEF Payload
  <2>3. pc[r] = "download" /\ input[r].op = "download" /\ input'[r] = input[r]
    BY <1>0, <1>3 DEF Download, ControlOK, frame
  <2> QED
    BY <1>3, <1>c, <1>d, <2>1, <2>2, <2>3 DEF Download, Quiet, Active, history
<1>4. CASE Enter(r)
  <2>1. /\ http'[r].sid = r /\ http'[r].existed = FALSE
        /\ http'[r].data = [http[r].data EXCEPT !.user = me[r]]
        /\ sessions' = [sessions EXCEPT ![http[r].sid] = NoSession]
    BY <1>4, <1>b DEF Enter
  <2>2. http'[r].data.locale = http[r].data.locale /\ http'[r].data.list = http[r].data.list
    BY <1>0, <2>1 DEF Payload
  <2>3. pc[r] = "enter" /\ pc'[r] = "close" /\ input[r].op \in ForGuests /\ input'[r] = input[r]
    BY <1>0, <1>4 DEF Enter, Goto, ControlOK, frame
  <2> QED
    BY <1>4, <2>1, <2>2, <2>3 DEF Enter, Moves, history
<1>5. CASE Logout(r)
  <2>1. /\ http'[r].sid = r /\ http'[r].existed = FALSE /\ http'[r].data = Empty
        /\ sessions' = [sessions EXCEPT ![http[r].sid] = NoSession]
    BY <1>5, <1>b DEF Logout
  <2>2. pc[r] = "logout" /\ pc'[r] = "close" /\ input[r].op = "logout" /\ input'[r] = input[r]
    BY <1>0, <1>5 DEF Logout, Goto, ControlOK, frame
  <2> QED
    BY <1>5, <2>1, <2>2 DEF Logout, Moves
<1>6. CASE ~FindLanguage(r) /\ ~KeepList(r) /\ ~Download(r) /\ ~Enter(r) /\ ~Logout(r)
  <2>1. /\ UNCHANGED <<sessions, cookie, chosen, owed, clash, ended>> /\ http' = http /\ input' = input
        /\ pc[r] # "find"
    BY <1>6 DEF Step, SavePreference, Login, Validate, InsertUser, AmendUser, DeleteUser, BeginImport,
                SkipRow, ImportRow, RollBack, Importing, WaitsFor, CommitImport, DeadlockVictim, CheckCode,
                InsertLanguage, AmendLanguage, CheckUsers, DeleteLanguage, web, history, frame
  <2> QED
    BY <1>c, <1>d, <2>1 DEF Quiet, Active
<1> QED
  BY <1>1, <1>2, <1>3, <1>4, <1>5, <1>6

\* The answer, and a crash, end the request.
LEMMA EndStep ==
    ASSUME NEW r \in Requests, Control, Close(r) \/ Crash(r)
    PROVE  /\ Active(r) /\ pc'[r] = "over" /\ ~Active(r)' /\ http'[r].sid = r
           /\ input[r] \in Inputs /\ input[r].from \in Browsers
<1>0. ControlOK(r) /\ http \in [Requests -> Held] /\ pc \in [Requests -> Labels]
  BY DEF Control, TypeOK
<1>1. Active(r) /\ End(r)
  BY DEF Close, Crash, Active
<1>2. input[r] \in Inputs
  BY <1>0, <1>1 DEF ControlOK
<1>3. pc'[r] = "over" /\ http'[r].sid = r
  BY <1>0, <1>1 DEF End, Goto
<1> QED
  BY <1>1, <1>2, <1>3, InputShape DEF Active

-----------------------------------------------------------------------------
(***************************************************************************)
(* Whose session it is                                                     *)
(***************************************************************************)
\* The id that a request may generate is nobody else's before the request ends.
Fresh(r) ==
    /\ \A b \in Browsers : cookie[b] # r
    /\ \A x \in Requests \ {r} : http[x].sid # r
    /\ sessions[r] = NoSession

\* Whoever holds a session id, as a cookie or in a request, belongs to one browser.
Own ==
    /\ \A r \in Requests : pc[r] # "over" => Fresh(r)
    /\ \A b, c \in Browsers : cookie[b] = cookie[c] /\ cookie[b] # Null => b = c
    /\ \A x \in Requests, b \in Browsers : Active(x) /\ http[x].sid = cookie[b] => input[x].from = b
    /\ \A x, y \in Requests :
          Active(x) /\ Active(y) /\ http[x].sid = http[y].sid => input[x].from = input[y].from

LEMMA OwnInit == Init => Own
<1> SUFFICES ASSUME Init PROVE Own
  OBVIOUS
<1>1. ASSUME NEW r \in Requests PROVE Fresh(r)
  BY FirstBrowsers, Marks DEF Init, Fresh, Sids
<1>2. \A x \in Requests : ~Active(x)
  BY DEF Init, Active
<1>3. \A b, c \in Browsers : cookie[b] = cookie[c] /\ cookie[b] # Null => b = c
  BY FirstBrowsers DEF Init
<1> QED
  BY <1>1, <1>2, <1>3 DEF Own

LEMMA OwnStep ==
    ASSUME NEW r \in Requests, Control, Own, Start(r) \/ Step(r) \/ Crash(r)
    PROVE  Own'
<1>0. /\ Rest(r) /\ sessions \in [Sids -> Payload \cup {NoSession}] /\ Requests \subseteq Sids
      /\ cookie \in [Browsers -> Sids \cup {Null}] /\ http[r].sid \in Sids
      /\ \A x \in Requests : pc[x] = "over" => ~Active(x)
  BY RestStays DEF Control, TypeOK, Sids, Held, Active
<1>1. CASE Quiet(r)
  <2>1. \A x \in Requests : /\ http'[x].sid = http[x].sid /\ input'[x] = input[x]
                            /\ Active(x)' => Active(x)
                            /\ pc'[x] # "over" => pc[x] # "over"
    BY <1>0, <1>1 DEF Quiet, Rest, Active
  <2>2. cookie' = cookie /\ sessions' = sessions
    BY <1>1 DEF Quiet
  <2> QED
    BY <2>1, <2>2 DEF Own, Fresh
<1>2. CASE Moves(r)
  <2>1. /\ http'[r].sid = r /\ pc[r] # "over" /\ input'[r] = input[r] /\ Active(r) /\ Active(r)' /\ cookie' = cookie
        /\ \A s \in Sids : sessions[s] = NoSession => sessions'[s] = NoSession
    BY <1>0, <1>2 DEF Moves, Active
  <2>2. ASSUME NEW x \in Requests, pc'[x] # "over" PROVE Fresh(x)'
    BY <1>0, <2>1, <2>2 DEF Own, Fresh, Rest
  <2>3. \A x \in Requests \ {r} : http'[x].sid # r
    BY <1>0, <2>1 DEF Own, Fresh, Rest
  <2> QED
    BY <1>0, <2>1, <2>2, <2>3 DEF Own, Fresh, Rest
<1>3. ASSUME NEW b \in Browsers, Opens(r, b) PROVE Own'
  <2>1. /\ http'[r].sid \in {cookie[b], r} /\ (http'[r].sid = cookie[b] => cookie[b] # Null)
        /\ pc[r] # "over" /\ input'[r].from = b /\ cookie' = cookie /\ ~Active(r)
        /\ \A s \in Sids : sessions[s] = NoSession => sessions'[s] = NoSession
    <3>1. SidFor(r, b) \in {cookie[b], r} /\ SidFor(r, b) # Null /\ SidFor(r, b) \in Sids
      BY <1>0, Marks DEF SidFor
    <3> QED
      BY <1>0, <1>3, <3>1, Marks DEF Opens, Active
  <2>2. ASSUME NEW x \in Requests, pc'[x] # "over" PROVE Fresh(x)'
    BY <1>0, <2>1, <2>2 DEF Own, Fresh, Rest
  <2>3. \A x \in Requests \ {r} : http'[x].sid # r
    BY <1>0, <2>1 DEF Own, Fresh, Rest
  <2> QED
    BY <1>0, <2>1, <2>2, <2>3 DEF Own, Fresh, Rest
<1>4. CASE Close(r)
  <2> DEFINE b == input[r].from
  <2>1. Active(r) /\ pc'[r] = "over" /\ ~Active(r)' /\ http'[r].sid = r /\ b \in Browsers
    BY <1>4, EndStep
  <2>2. /\ cookie' = [cookie EXCEPT ![b] = http[r].sid]
        /\ \A s \in Sids \ {http[r].sid} : sessions'[s] = sessions[s]
    BY <1>0, <1>4 DEF Close, SaveSession
  <2> HIDE DEF b
  <2>3. ASSUME NEW x \in Requests, pc'[x] # "over" PROVE Fresh(x)'
    BY <1>0, <2>1, <2>2, <2>3 DEF Own, Fresh, Rest
  <2>4. \A c \in Browsers, d \in Browsers : cookie'[c] = cookie'[d] /\ cookie'[c] # Null => c = d
    BY <1>0, <2>1, <2>2 DEF Own, b
  <2>5. \A x \in Requests, c \in Browsers : Active(x)' /\ http'[x].sid = cookie'[c] => input'[x].from = c
    BY <1>0, <2>1, <2>2 DEF Own, Rest, b
  <2> QED
    BY <1>0, <2>1, <2>3, <2>4, <2>5 DEF Own, Rest
<1>5. CASE Crash(r)
  <2>1. Active(r) /\ pc'[r] = "over" /\ ~Active(r)' /\ http'[r].sid = r
    BY <1>5, EndStep
  <2>2. cookie' = cookie /\ sessions' = sessions
    BY <1>5 DEF Crash
  <2> QED
    BY <1>0, <2>1, <2>2 DEF Own, Fresh, Rest
<1> QED
  BY <1>1, <1>2, <1>3, <1>4, <1>5, OpensAtStart, InnerSteps

\* Nothing happens to the browser, its requests and their sessions.
Untouched(b) ==
    /\ cookie'[b] = cookie[b] /\ chosen'[b] = chosen[b] /\ owed'[b] = owed[b]
    /\ b \in clash' <=> b \in clash
    /\ cookie[b] # Null => sessions'[cookie[b]] = sessions[cookie[b]]
    /\ \A x \in Requests : Active(x)' /\ input'[x].from = b <=> Active(x) /\ input[x].from = b
    /\ \A x \in Requests : Active(x) /\ input[x].from = b =>
          /\ http'[x] = http[x] /\ input'[x] = input[x] /\ pc'[x] = pc[x]
          /\ sessions'[http[x].sid] = sessions[http[x].sid]

\* A request touches its own browser only.
LEMMA Elsewhere ==
    ASSUME NEW r \in Requests, Control, Own, Start(r) \/ Step(r) \/ Crash(r),
           NEW b \in Browsers, Active(r) => input[r].from # b, Active(r)' => input'[r].from # b
    PROVE  Untouched(b)
<1>0. /\ Rest(r) /\ sessions \in [Sids -> Payload \cup {NoSession}] /\ Requests \subseteq Sids
      /\ cookie \in [Browsers -> Sids \cup {Null}] /\ \A x \in Requests : http[x].sid \in Sids
      /\ chosen \in [Browsers -> Locales \cup {Null}] /\ owed \in [Browsers -> Requests \cup {Null}]
  BY RestStays DEF Control, TypeOK, Sids, Held
<1>1. \A x \in Requests : Active(x)' /\ input'[x].from = b <=> Active(x) /\ input[x].from = b
  BY <1>0 DEF Rest
<1>2. \A x \in Requests : Active(x) /\ input[x].from = b =>
        http'[x] = http[x] /\ input'[x] = input[x] /\ pc'[x] = pc[x]
  BY <1>0 DEF Rest
<1>3. Start(r) \/ Active(r)
  BY InnerSteps, EndStep DEF Quiet, Moves, Active
<1>4. Active(r) => /\ cookie[b] # http[r].sid
                   /\ \A x \in Requests : Active(x) /\ input[x].from = b => http[x].sid # http[r].sid
  BY DEF Own
<1>5. CASE Quiet(r)
  BY <1>1, <1>2, <1>5 DEF Untouched, Quiet
<1>6. CASE Moves(r)
  <2>1. Active(r) /\ cookie' = cookie /\ chosen' = chosen /\ owed' = owed /\ clash' = clash
        /\ \A s \in Sids \ {http[r].sid} : sessions'[s] = sessions[s]
    BY <1>0, <1>6 DEF Moves, Active
  <2> QED
    BY <1>0, <1>1, <1>2, <1>4, <2>1 DEF Untouched
<1>7. ASSUME NEW c \in Browsers, Opens(r, c) PROVE Untouched(b)
  <2>1. c # b /\ pc[r] # "over"
    BY <1>7 DEF Opens
  <2>2. /\ cookie' = cookie /\ chosen'[b] = chosen[b] /\ owed'[b] = owed[b]
        /\ (b \in clash' <=> b \in clash)
        /\ \A s \in Sids \ {SidFor(r, c)} : sessions'[s] = sessions[s]
    BY <1>0, <1>7, <2>1 DEF Opens
  <2>3. cookie[b] # Null => cookie[b] # SidFor(r, c)
    BY <2>1 DEF Own, Fresh, SidFor
  <2>4. \A x \in Requests : Active(x) /\ input[x].from = b => http[x].sid # SidFor(r, c)
    <3>1. ~Active(r)
      BY <1>7 DEF Opens, Active
    <3> QED
      BY <2>1, <3>1 DEF Own, Fresh, SidFor
  <2> QED
    BY <1>0, <1>1, <1>2, <2>2, <2>3, <2>4 DEF Untouched
<1>8. CASE Close(r)
  <2>1. Active(r) /\ input[r].from \in Browsers
    BY <1>8, EndStep
  <2>2. /\ cookie'[b] = cookie[b] /\ chosen'[b] = chosen[b] /\ owed'[b] = owed[b] /\ clash' = clash
        /\ \A s \in Sids \ {http[r].sid} : sessions'[s] = sessions[s]
    BY <1>0, <1>8, <2>1 DEF Close, SaveSession
  <2> QED
    BY <1>0, <1>1, <1>2, <1>4, <2>1, <2>2 DEF Untouched
<1>9. CASE Crash(r)
  <2>1. Active(r) /\ input[r].from \in Browsers
    BY <1>9, EndStep
  <2>2. /\ cookie' = cookie /\ chosen'[b] = chosen[b] /\ owed'[b] = owed[b] /\ clash' = clash
        /\ sessions' = sessions
    BY <1>0, <1>9, <2>1 DEF Crash
  <2> QED
    BY <1>1, <1>2, <2>2 DEF Untouched
<1> QED
  BY <1>5, <1>6, <1>7, <1>8, <1>9, OpensAtStart, InnerSteps

\* What a step may be to a browser.
LEMMA HomeSteps ==
    ASSUME NEW r \in Requests, Control, Own, Start(r) \/ Step(r) \/ Crash(r), NEW b \in Browsers
    PROVE  \/ Untouched(b) \/ Opens(r, b)
           \/ input[r].from = b /\ (Quiet(r) \/ Moves(r) \/ Close(r) \/ Crash(r))
<1>1. CASE Start(r)
  <2>1. PICK c \in Browsers : Opens(r, c)
    BY <1>1, OpensAtStart
  <2>2. CASE c # b
    <3>1. ~Active(r) /\ input'[r].from # b
      BY <2>1, <2>2 DEF Opens, Active
    <3> QED
      BY <3>1, Elsewhere
  <2> QED
    BY <2>1, <2>2
<1>2. CASE ~Start(r) /\ input[r].from # b
  <2>1. input'[r].from # b \/ ~Active(r)'
    BY <1>2, InnerSteps, EndStep DEF Quiet, Moves
  <2> QED
    BY <1>2, <2>1, Elsewhere
<1> QED
  BY <1>1, <1>2, InnerSteps

LEMMA ExpiryElsewhere ==
    ASSUME NEW c \in Browsers, Control, Own, SessionExpires(c), NEW b \in Browsers \ {c}
    PROVE  Untouched(b)
<1>0. /\ sessions \in [Sids -> Payload \cup {NoSession}] /\ cookie \in [Browsers -> Sids \cup {Null}]
      /\ \A x \in Requests : http[x].sid \in Sids
      /\ chosen \in [Browsers -> Locales \cup {Null}] /\ owed \in [Browsers -> Requests \cup {Null}]
  BY DEF Control, TypeOK, Held
<1>1. /\ cookie[c] # Null /\ cookie'[b] = cookie[b] /\ chosen'[b] = chosen[b] /\ owed'[b] = owed[b]
      /\ clash' = clash /\ http' = http /\ pc' = pc /\ input' = input
      /\ \A s \in Sids \ {cookie[c]} : sessions'[s] = sessions[s]
  BY <1>0 DEF SessionExpires, ExpireSession, frame
<1>2. cookie[b] # Null => cookie[b] # cookie[c]
  BY <1>1 DEF Own
<1>3. \A x \in Requests : Active(x) /\ input[x].from = b => http[x].sid # cookie[c]
  BY DEF Own
<1>4. \A x \in Requests : Active(x)' <=> Active(x)
  BY <1>1 DEF Active
<1> QED
  BY <1>0, <1>1, <1>2, <1>3, <1>4 DEF Untouched

LEMMA OwnNext ==
    ASSUME Control, Own, [Next]_vars
    PROVE  Own'
<1>1. ASSUME NEW c \in Browsers, SessionExpires(c) PROVE Own'
  <2>0. /\ sessions \in [Sids -> Payload \cup {NoSession}] /\ cookie \in [Browsers -> Sids \cup {Null}]
        /\ Requests \subseteq Sids
    BY DEF Control, TypeOK, Sids
  <2>1. /\ http' = http /\ pc' = pc /\ input' = input /\ cookie' = [cookie EXCEPT ![c] = Null]
        /\ sessions' = [sessions EXCEPT ![cookie[c]] = NoSession]
    BY <1>1 DEF SessionExpires, ExpireSession, frame
  <2>2. \A s \in Sids : sessions[s] = NoSession => sessions'[s] = NoSession
    BY <2>0, <2>1
  <2>3. \A r \in Requests : r # Null /\ http[r].sid # Null /\ (Active(r)' <=> Active(r))
    BY <2>1, Marks DEF Control, TypeOK, Held, Sids, Active
  <2>4. \A r \in Requests : pc'[r] # "over" => Fresh(r)'
    BY <2>0, <2>1, <2>2, <2>3 DEF Own, Fresh
  <2> QED
    BY <2>0, <2>1, <2>3, <2>4 DEF Own
<1>2. ASSUME UNCHANGED vars PROVE Own'
  BY <1>2 DEF vars, web, frame, Own, Fresh, Active
<1> QED
  BY <1>1, <1>2, OwnStep DEF Next, Finished

-----------------------------------------------------------------------------
(***************************************************************************)
(* A browser whose requests do not overlap                                 *)
(***************************************************************************)
\* It has one request under way at most, and nobody takes the session from under it.
SoloOK(b) ==
    /\ \A x, y \in Requests : Active(x) /\ Active(y) /\ x # y /\ input[x].from = b /\ input[y].from = b
          => b \in clash
    /\ chosen[b] # Null \/ owed[b] # Null => b \notin clash /\ cookie[b] # Null
    /\ \A x \in Requests : Active(x) /\ input[x].from = b /\ b \notin clash /\ http[x].existed
          => sessions[http[x].sid] # NoSession

LEMMA SoloStep ==
    ASSUME NEW r \in Requests, Control, Own, Start(r) \/ Step(r) \/ Crash(r),
           NEW b \in Browsers, SoloOK(b)
    PROVE  SoloOK(b)'
<1>0. /\ Rest(r) /\ sessions \in [Sids -> Payload \cup {NoSession}]
      /\ cookie \in [Browsers -> Sids \cup {Null}] /\ http[r].sid \in Sids
      /\ chosen \in [Browsers -> Locales \cup {Null}] /\ owed \in [Browsers -> Requests \cup {Null}]
  BY RestStays DEF Control, TypeOK, Held
<1>1. CASE Untouched(b)
  BY <1>1 DEF Untouched, SoloOK
<1>2. CASE Quiet(r) /\ input[r].from = b
  BY <1>0, <1>2 DEF SoloOK, Quiet, Rest, Active
<1>3. CASE Moves(r) /\ input[r].from = b
  <2>1. Active(r) /\ Active(r)' /\ input'[r] = input[r] /\ http'[r].existed = FALSE
        /\ cookie' = cookie /\ chosen' = chosen /\ owed' = owed /\ clash' = clash
    BY <1>3 DEF Moves, Active
  <2>2. \A x \in Requests \ {r} : Active(x)' /\ input'[x].from = b => b \in clash
    BY <1>0, <1>3, <2>1 DEF SoloOK, Rest
  <2> QED
    BY <1>0, <1>3, <2>1, <2>2 DEF SoloOK, Rest
<1>4. CASE Opens(r, b)
  <2>1. Busy(b) => b \in clash' /\ chosen'[b] = Null /\ owed'[b] = Null
    BY <1>0, <1>4 DEF Opens
  <2>2. ~Busy(b) => /\ b \notin clash' /\ chosen' = chosen /\ owed' = owed
                    /\ \A x \in Requests \ {r} : Active(x)' => input'[x].from # b
    BY <1>0, <1>4 DEF Opens, Busy, Rest
  <2>3. cookie' = cookie /\ (http'[r].existed => sessions' = sessions /\ sessions[http'[r].sid] # NoSession)
    BY <1>4 DEF Opens
  <2> QED
    BY <2>1, <2>2, <2>3 DEF SoloOK
<1>5. CASE Close(r) /\ input[r].from = b
  <2>1. Active(r) /\ ~Active(r)' /\ clash' = clash /\ cookie'[b] # Null
    <3>1. cookie'[b] = http[r].sid
      BY <1>0, <1>5 DEF Close, SaveSession
    <3> QED
      BY <1>0, <1>5, <3>1, EndStep, Marks DEF Close
  <2>2. \A x \in Requests : Active(x)' /\ input'[x].from = b => b \in clash
    BY <1>0, <1>5, <2>1 DEF SoloOK, Rest
  <2>3. chosen'[b] # Null => b \notin clash
    BY <1>0, <1>5 DEF Close, SoloOK
  <2>4. owed'[b] # Null => b \notin clash
    BY <1>0, <1>5 DEF Close, SoloOK
  <2> QED
    BY <2>1, <2>2, <2>3, <2>4 DEF SoloOK
<1>6. CASE Crash(r) /\ input[r].from = b
  <2>1. /\ Active(r) /\ ~Active(r)' /\ clash' = clash /\ cookie' = cookie /\ sessions' = sessions
        /\ chosen'[b] \in {chosen[b], Null} /\ owed'[b] \in {owed[b], Null}
    BY <1>0, <1>6, EndStep DEF Crash
  <2> QED
    BY <1>0, <2>1 DEF SoloOK, Rest
<1> QED
  BY <1>1, <1>2, <1>3, <1>4, <1>5, <1>6, HomeSteps

\* The session that an answer saves is the browser's, if its requests do not overlap.
LEMMA SoloClose ==
    ASSUME NEW r \in Requests, Control, Own, Close(r), NEW b \in Browsers, input[r].from = b,
           SoloOK(b), b \notin clash
    PROVE  /\ cookie'[b] = http[r].sid /\ sessions'[cookie'[b]] = http[r].data
           /\ http[r].data # NoSession /\ \A x \in Requests : Active(x)' => input'[x].from # b
<1>0. /\ Rest(r) /\ sessions \in [Sids -> Payload \cup {NoSession}] /\ http[r].data \in Payload
      /\ cookie \in [Browsers -> Sids \cup {Null}] /\ http[r].sid \in Sids
  BY RestStays DEF Control, TypeOK, Held, Step
<1>1. Active(r) /\ ~Active(r)'
  BY EndStep
<1>2. http[r].existed => sessions[http[r].sid] # NoSession
  BY <1>1 DEF SoloOK
<1>3. \A x \in Requests : Active(x)' => input'[x].from # b
  BY <1>0, <1>1 DEF SoloOK, Rest
<1> QED
  BY <1>0, <1>2, <1>3, Marks DEF Close, SaveSession

\* A crash that loses nothing: the request was alone and in the browser's session.
LEMMA SoloCrash ==
    ASSUME NEW r \in Requests, Control, Own, Crash(r), NEW b \in Browsers, input[r].from = b,
           SoloOK(b), chosen'[b] # Null \/ owed'[b] # Null
    PROVE  /\ chosen'[b] = chosen[b] /\ owed'[b] = owed[b] /\ cookie' = cookie /\ sessions' = sessions
           /\ \A x \in Requests : Active(x) /\ input[x].from = b => x = r /\ http[x].sid = cookie[b]
           /\ \A x \in Requests : Active(x)' => input'[x].from # b
<1>0. /\ Rest(r) /\ chosen \in [Browsers -> Locales \cup {Null}]
      /\ owed \in [Browsers -> Requests \cup {Null}]
  BY RestStays DEF Control, TypeOK
<1>1. Active(r) /\ ~Active(r)'
  BY EndStep
<1>2. /\ http[r].sid = SidFor(r, b) /\ chosen' = chosen /\ owed' = owed /\ cookie' = cookie
      /\ sessions' = sessions
  BY <1>0 DEF Crash
<1>3. b \notin clash /\ cookie[b] # Null
  BY <1>2 DEF SoloOK
<1>4. \A x \in Requests : Active(x) /\ input[x].from = b => x = r
  BY <1>1, <1>3 DEF SoloOK
<1> QED
  BY <1>0, <1>1, <1>2, <1>3, <1>4 DEF SidFor, Rest

\* A request that opens the session of an idle browser, which has a cookie.
LEMMA SoloOpens ==
    ASSUME NEW r \in Requests, Control, Own, NEW b \in Browsers, Opens(r, b), Rest(r),
           SoloOK(b), chosen'[b] # Null \/ owed'[b] # Null
    PROVE  /\ chosen' = chosen /\ owed' = owed /\ cookie' = cookie /\ SidFor(r, b) = cookie[b]
           /\ \A x \in Requests : Active(x) => input[x].from # b
           /\ \A x \in Requests : Active(x)' /\ input'[x].from = b => x = r
           /\ \/ sessions' = sessions
              \/ Active(r)' /\ input'[r].from = b /\ http'[r].sid # cookie'[b]
<1>0. /\ chosen \in [Browsers -> Locales \cup {Null}] /\ owed \in [Browsers -> Requests \cup {Null}]
  BY DEF Control, TypeOK
<1>1. ~Busy(b)
  BY <1>0 DEF Opens
<1>2. chosen' = chosen /\ owed' = owed /\ cookie' = cookie
  BY <1>1 DEF Opens
<1>3. SidFor(r, b) = cookie[b]
  BY <1>2 DEF SoloOK, SidFor
<1>4. \A x \in Requests : Active(x) => input[x].from # b
  BY <1>1 DEF Busy
<1>5. cookie[b] # r
  BY DEF Own, Fresh, Opens
<1> QED
  BY <1>2, <1>3, <1>4, <1>5 DEF Opens, Rest

-----------------------------------------------------------------------------
(***************************************************************************)
(* A switch of locale sticks                                               *)
(***************************************************************************)
\* A request that leaves its browser's session as it was, so far.
AtHome(b) == \A x \in Requests : Active(x) /\ input[x].from = b => http[x].sid = cookie[b]

\* The switch is in what the request will save.
SwitchedOK(x) ==
    Active(x) /\ input[x].op = "switch" /\ pc[x] # "find" => http[x].data.locale = input[x].locale

\* The locale is in the stored session, unless it moves; and in what the browser's
\* request will save, unless that one switches or logs out.
ChosenOK(b) ==
    chosen[b] # Null =>
        /\ AtHome(b) => sessions[cookie[b]] # NoSession /\ sessions[cookie[b]].locale = chosen[b]
        /\ \A x \in Requests : Active(x) /\ input[x].from = b =>
              \/ http[x].data.locale = chosen[b]
              \/ input[x].op = "logout"
              \/ input[x].op = "switch" /\ pc[x] # "find"

LEMMA SwitchedStep ==
    ASSUME NEW r \in Requests, Control, Start(r) \/ Step(r) \/ Crash(r), NEW x \in Requests, SwitchedOK(x)
    PROVE  SwitchedOK(x)'
<1>0. Rest(r)
  BY RestStays
<1>1. CASE x # r
  BY <1>0, <1>1 DEF Rest, SwitchedOK
<1>2. CASE x = r /\ Quiet(r)
  <2>1. Active(r) /\ (pc[r] = "find" => http'[r].data.locale = input[r].locale)
        /\ (pc[r] # "find" => http'[r].data.locale = http[r].data.locale) /\ input'[r] = input[r]
    BY <1>2 DEF Quiet, Active
  <2> QED
    BY <1>2, <2>1 DEF SwitchedOK
<1>3. CASE x = r /\ Moves(r)
  <2>1. input'[r].op # "switch"
    BY <1>3 DEF Moves, ForGuests
  <2> QED
    BY <1>3, <2>1 DEF SwitchedOK
<1>4. CASE x = r /\ Start(r)
  BY <1>4, OpensAtStart DEF SwitchedOK, Opens
<1>5. CASE x = r /\ (Close(r) \/ Crash(r))
  BY <1>5, EndStep DEF SwitchedOK
<1> QED
  BY <1>1, <1>2, <1>3, <1>4, <1>5, InnerSteps

LEMMA ChosenStep ==
    ASSUME NEW r \in Requests, Control, Own, Start(r) \/ Step(r) \/ Crash(r),
           NEW b \in Browsers, SoloOK(b), SwitchedOK(r), ChosenOK(b)
    PROVE  ChosenOK(b)'
<1>0. Rest(r) /\ chosen \in [Browsers -> Locales \cup {Null}]
  BY RestStays DEF Control, TypeOK
<1> SUFFICES ASSUME chosen'[b] # Null PROVE ChosenOK(b)'
  BY DEF ChosenOK
<1>1. CASE Untouched(b)
  <2>1. AtHome(b)' <=> AtHome(b)
    BY <1>1 DEF Untouched, AtHome
  <2>2. cookie[b] # Null
    BY <1>1 DEF Untouched, SoloOK
  <2> QED
    BY <1>1, <2>1, <2>2 DEF Untouched, ChosenOK
<1>2. CASE Quiet(r) /\ input[r].from = b
  <2>1. /\ Active(r) /\ Active(r)' /\ input'[r] = input[r] /\ http'[r].sid = http[r].sid /\ cookie' = cookie
        /\ sessions' = sessions /\ chosen' = chosen /\ pc'[r] # "find"
        /\ pc[r] # "find" => http'[r].data.locale = http[r].data.locale
    BY <1>2 DEF Quiet, Active
  <2>2. pc[r] = "find" => input[r].op = "switch"
    BY DEF Control, ControlOK
  <2>3. AtHome(b)' => AtHome(b)
    BY <1>0, <2>1 DEF AtHome, Rest
  <2> QED
    BY <1>0, <1>2, <2>1, <2>2, <2>3 DEF ChosenOK, Rest
<1>3. CASE Moves(r) /\ input[r].from = b
  <2>1. /\ Active(r) /\ Active(r)' /\ input'[r] = input[r] /\ http'[r].sid = r /\ cookie' = cookie
        /\ chosen' = chosen /\ pc'[r] # "find" /\ pc[r] # "find" /\ pc[r] # "over"
        /\ input[r].op = "logout" \/ http'[r].data.locale = http[r].data.locale
    BY <1>3 DEF Moves, Active
  <2>2. ~AtHome(b)'
    BY <1>3, <2>1 DEF AtHome, Own, Fresh
  <2> QED
    BY <1>0, <1>3, <2>1, <2>2 DEF ChosenOK, Rest
<1>4. CASE Opens(r, b)
  <2>1. /\ chosen' = chosen /\ cookie' = cookie /\ SidFor(r, b) = cookie[b]
        /\ \A x \in Requests : Active(x) => input[x].from # b
        /\ \A x \in Requests : Active(x)' /\ input'[x].from = b => x = r
        /\ \/ sessions' = sessions
           \/ Active(r)' /\ input'[r].from = b /\ http'[r].sid # cookie'[b]
    BY <1>0, <1>4, SoloOpens
  <2>2. sessions[cookie[b]] # NoSession /\ sessions[cookie[b]].locale = chosen[b]
    BY <2>1 DEF ChosenOK, AtHome
  <2>3. chosen[b] \in Locales
    BY <1>0, <2>1
  <2>4. http'[r].data.locale = chosen[b]
    BY <1>4, <2>1, <2>2, <2>3 DEF Opens, Stored
  <2>5. AtHome(b)' => sessions' = sessions
    BY <2>1 DEF AtHome
  <2> QED
    BY <2>1, <2>2, <2>4, <2>5 DEF ChosenOK
<1>5. CASE Close(r) /\ input[r].from = b
  <2>1. Active(r) /\ pc[r] # "find"
    BY <1>5, EndStep DEF Close
  <2>2. b \notin clash
    BY <1>0, <1>5 DEF Close, SoloOK
  <2>3. /\ cookie'[b] = http[r].sid /\ sessions'[cookie'[b]] = http[r].data
        /\ http[r].data # NoSession /\ \A x \in Requests : Active(x)' => input'[x].from # b
    BY <1>5, <2>2, SoloClose
  <2>4. http[r].data.locale = chosen'[b]
    <3>1. CASE input[r].op = "switch"
      BY <1>0, <1>5, <2>1, <2>2, <3>1 DEF Close, SwitchedOK
    <3>2. CASE input[r].op # "switch"
      <4>1. chosen'[b] = chosen[b] /\ input[r].op # "logout"
        BY <1>0, <1>5, <3>2 DEF Close
      <4> QED
        BY <1>5, <2>1, <3>2, <4>1 DEF ChosenOK
    <3> QED
      BY <3>1, <3>2
  <2> QED
    BY <2>3, <2>4 DEF ChosenOK
<1>6. CASE Crash(r) /\ input[r].from = b
  <2>1. /\ chosen'[b] = chosen[b] /\ cookie' = cookie /\ sessions' = sessions
        /\ \A x \in Requests : Active(x) /\ input[x].from = b => x = r /\ http[x].sid = cookie[b]
        /\ \A x \in Requests : Active(x)' => input'[x].from # b
    BY <1>6, SoloCrash
  <2>2. AtHome(b)
    BY <2>1 DEF AtHome
  <2> QED
    BY <2>1, <2>2 DEF ChosenOK
<1> QED
  BY <1>1, <1>2, <1>3, <1>4, <1>5, <1>6, HomeSteps

-----------------------------------------------------------------------------
(***************************************************************************)
(* The list of an import waits for its admin                               *)
(***************************************************************************)
\* Only the request that generates a password gives it to a user.
LEMMA PasswordOrigin ==
    ASSUME NEW r \in Requests, DirInv, Start(r) \/ Step(r) \/ Crash(r),
           NEW u \in UserIds, IsUser(u)', NEW y \in Requests \ {r}, users'[u].password = y
    PROVE  IsUser(u) /\ users[u].password = y
<1>0. users \in Users /\ Control
  BY DEF DirInv, Control, TypeOK
<1>1. CASE users' = users
  BY <1>1 DEF IsUser
<1>2. CASE CommitImport(r)
  <2>1. batch[r].draft[u] # NoUser => batch[r].draft[u].password = r
    BY <1>2 DEF CommitImport, DirInv, DraftOK
  <2> QED
    BY <1>2, <2>1 DEF CommitImport, IsUser
<1>3. CASE WritesOne(r)
  <2>1. ASSUME NEW row \in User, Inserts(r, row) PROVE IsUser(u) /\ users[u].password = y
    BY <1>0, <2>1 DEF Inserts, Users, IsUser
  <2>2. ASSUME NEW w \in UserIds, NEW row \in User, Amends(r, w, row)
        PROVE  IsUser(u) /\ users[u].password = y
    BY <1>0, <2>2 DEF Amends, Users, IsUser
  <2>3. ASSUME NEW w \in UserIds, Removes(w) PROVE IsUser(u) /\ users[u].password = y
    BY <1>0, <2>3 DEF Removes, Users, IsUser
  <2> QED
    BY <1>1, <1>3, <2>1, <2>2, <2>3, OneRow
<1> QED
  BY <1>0, <1>1, <1>2, <1>3, KindsOfSteps, SkipDrafts, ImportDrafts DEF Drops

\* The list is that of import y, with everybody who still has a password of it.
Lists(data, y) ==
    /\ data.list # NoList /\ data.list.by = y
    /\ {u \in UserIds : IsUser(u) /\ users[u].password = y} \subseteq data.list.who

LEMMA ListsStay ==
    ASSUME NEW r \in Requests, DirInv, Start(r) \/ Step(r) \/ Crash(r),
           NEW data, NEW y \in Requests, y # r \/ users' = users, Lists(data, y)
    PROVE  /\ data.list # NoList /\ data.list.by = y
           /\ {u \in UserIds : IsUser(u)' /\ users'[u].password = y} \subseteq data.list.who
<1>1. ASSUME NEW u \in UserIds, IsUser(u)', users'[u].password = y PROVE IsUser(u) /\ users[u].password = y
  <2>1. CASE y # r
    BY <1>1, <2>1, PasswordOrigin
  <2>2. CASE users' = users
    BY <1>1, <2>2 DEF IsUser
  <2> QED
    BY <2>1, <2>2
<1> QED
  BY <1>1 DEF Lists

\* Whoever has a password of an import that is under way is in its batch.
BatchOK(r) ==
    Active(r) /\ input[r].op = "import" =>
        \A u \in UserIds : IsUser(u) /\ users[u].password = r =>
            batch[r] # NoBatch /\ batch[r].draft[u] # NoUser

LEMMA BatchOKStep ==
    ASSUME NEW r \in Requests, DirInv, Start(r) \/ Step(r) \/ Crash(r), NEW x \in Requests, BatchOK(x)
    PROVE  BatchOK(x)'
<1>0. Control /\ ControlOK(r) /\ pc \in [Requests -> Labels]
  BY DEF DirInv, Control, TypeOK
<1>1. CASE x # r
  <2>1. SameLocals(x)
    BY <1>0, <1>1, OthersKeep DEF Control
  <2>2. \A u \in UserIds : IsUser(u)' /\ users'[u].password = x => IsUser(u) /\ users[u].password = x
    BY <1>1, PasswordOrigin
  <2> QED
    BY <2>1, <2>2 DEF BatchOK, SameLocals, Active
<1>2. CASE x = r
  <2>1. ~Wrote(r) => \A u \in UserIds : IsUser(u) => users[u].password # r
    BY DEF DirInv, PasswordsOK
  <2>2. CASE CommitImport(r)
    <3>1. ~Wrote(r) /\ batch' = batch /\ batch[r] # NoBatch
          /\ users' = [u \in UserIds |-> IF batch[r].draft[u] # NoUser THEN batch[r].draft[u] ELSE users[u]]
      BY <2>2 DEF CommitImport, Wrote, frame
    <3> QED
      BY <1>2, <2>1, <3>1 DEF BatchOK, IsUser
  <2>3. CASE WritesOne(r)
    <3>1. input'[r].op # "import"
      BY <1>0, <2>3 DEF WritesOne, SavePreference, InsertUser, AmendUser, DeleteUser, ControlOK, frame
    <3> QED
      BY <1>2, <3>1 DEF BatchOK
  <2>4. CASE users' = users /\ ~Wrote(r)
    BY <1>2, <2>1, <2>4 DEF BatchOK, IsUser
  <2>5. CASE users' = users /\ Wrote(r)
    <3>1. CASE Close(r) \/ Crash(r)
      BY <1>0, <1>2, <3>1, EndStep DEF BatchOK
    <3>2. CASE Enter(r)
      <4>1. input'[r].op # "import"
        BY <1>0, <3>2 DEF Enter, ControlOK, ForGuests, frame
      <4> QED
        BY <1>2, <4>1 DEF BatchOK
    <3>3. CASE KeepList(r)
      <4>1. batch' = batch /\ input' = input /\ Active(r)
        BY <3>3 DEF KeepList, Active, frame
      <4> QED
        BY <1>2, <2>5, <4>1 DEF BatchOK, IsUser
    <3>4. Close(r) \/ Crash(r) \/ Enter(r) \/ KeepList(r)
      BY <2>5
      DEF Wrote, Start, Step, FindLanguage, SavePreference, Login, Logout, Validate, InsertUser,
          AmendUser, DeleteUser, BeginImport, SkipRow, ImportRow, Importing, WaitsFor,
          CommitImport, DeadlockVictim, Download, CheckCode, InsertLanguage, AmendLanguage,
          CheckUsers, DeleteLanguage
    <3> QED
      BY <3>1, <3>2, <3>3, <3>4
  <2> QED
    BY <1>0, <2>2, <2>3, <2>4, <2>5, KindsOfSteps, SkipDrafts, ImportDrafts DEF Drops
<1> QED
  BY <1>1, <1>2

\* A stored list is that of an import that has ended.
StoredOK == \A s \in Sids : sessions[s] # NoSession /\ sessions[s].list # NoList =>
                pc[sessions[s].list.by] = "over"

\* What a request holds is such a list, or that of its own import, before it is saved.
HeldOK(x) ==
    Active(x) /\ http[x].data.list # NoList =>
        \/ Lists(http[x].data, x) /\ input[x].op = "import" /\ pc[x] = "close"
        \/ http[x].data.list.by # x /\ pc[http[x].data.list.by] = "over"

OwedOK(b) ==
    owed[b] # Null =>
        /\ pc[owed[b]] = "over"
        /\ AtHome(b) => sessions[cookie[b]] # NoSession /\ Lists(sessions[cookie[b]], owed[b])
        /\ \A x \in Requests : Active(x) /\ input[x].from = b =>
              \/ Lists(http[x].data, owed[b])
              \/ input[x].op \in {"download", "logout"}
              \/ http[x].data.list # NoList /\ http[x].data.list.by = x

LEMMA OverStays ==
    ASSUME NEW r \in Requests, Control, Start(r) \/ Step(r) \/ Crash(r), NEW y \in Requests, pc[y] = "over"
    PROVE  y # r /\ pc'[y] = "over"
<1>1. pc[r] # "over"
  BY OpensAtStart, InnerSteps, EndStep DEF Opens, Quiet, Moves, Active
<1> QED
  BY <1>1, RestStays DEF Rest

LEMMA ListTypes ==
    ASSUME Control
    PROVE  /\ \A s \in Sids : sessions[s] # NoSession =>
                 sessions[s].list \in List \cup {NoList}
           /\ \A x \in Requests : http[x].data.list \in List \cup {NoList}
           /\ \A list \in List : list.by \in Requests
BY DEF Control, TypeOK, Held, Payload, List

LEMMA HeldStep ==
    ASSUME NEW r \in Requests, DirInv, Start(r) \/ Step(r) \/ Crash(r), StoredOK,
           NEW x \in Requests, HeldOK(x), BatchOK(x)
    PROVE  HeldOK(x)'
<1>0. /\ Control /\ Rest(r) /\ cookie \in [Browsers -> Sids \cup {Null}] /\ Requests \subseteq Sids
      /\ http[x].data.list \in List \cup {NoList}
  BY RestStays, ListTypes DEF DirInv, Control, TypeOK, Sids
<1>1. http[x].data.list # NoList => http[x].data.list.by \in Requests
  BY <1>0, ListTypes
<1>2. ASSUME Active(x), http[x].data.list # NoList, http[x].data.list.by # x,
             pc[http[x].data.list.by] = "over", http'[x].data.list = http[x].data.list
      PROVE  HeldOK(x)'
  BY <1>0, <1>1, <1>2, OverStays DEF HeldOK
<1>3. CASE x # r
  <2>1. http'[x] = http[x] /\ pc'[x] = pc[x] /\ input'[x] = input[x] /\ (Active(x)' <=> Active(x))
    BY <1>0, <1>3 DEF Rest
  <2>2. CASE Active(x) /\ Lists(http[x].data, x) /\ input[x].op = "import" /\ pc[x] = "close"
    <3>1. {u \in UserIds : IsUser(u)' /\ users'[u].password = x} \subseteq http[x].data.list.who
      BY <1>3, <2>2, ListsStay
    <3> QED
      BY <2>1, <2>2, <3>1 DEF HeldOK, Lists
  <2> QED
    BY <1>2, <2>1, <2>2 DEF HeldOK
<1>4. CASE x = r /\ Quiet(r)
  <2>1. Active(r) /\ pc[r] # "close"
    BY <1>4 DEF Quiet, Active
  <2>2. CASE http'[r].data.list = http[r].data.list
    BY <1>2, <1>4, <2>1, <2>2 DEF HeldOK
  <2>3. CASE http'[r].data.list = NoList
    BY <1>4, <2>3 DEF HeldOK
  <2>4. CASE /\ pc'[r] = "close" /\ input[r].op = "import" /\ users' = users
             /\ http'[r].data.list = [by |-> r, who |-> {u \in UserIds : batch[r].draft[u] # NoUser}]
    <3>1. \A u \in UserIds : IsUser(u) /\ users[u].password = r => batch[r].draft[u] # NoUser
      BY <1>4, <2>1, <2>4 DEF BatchOK
    <3>2. http'[r].data.list.by = r /\ http'[r].data.list.who = {u \in UserIds : batch[r].draft[u] # NoUser}
      BY <2>4
    <3>3. {u \in UserIds : IsUser(u)' /\ users'[u].password = r} \subseteq http'[r].data.list.who
      BY <2>4, <3>1, <3>2 DEF IsUser
    <3>4. input'[r].op = "import"
      BY <1>4, <2>4 DEF Quiet
    <3> QED
      BY <1>4, <2>4, <3>2, <3>3, <3>4 DEF HeldOK, Lists
  <2> QED
    BY <1>4, <2>2, <2>3, <2>4 DEF Quiet
<1>5. CASE x = r /\ Moves(r)
  <2>1. Active(r) /\ pc[r] # "close"
    BY <1>5 DEF Moves, Active
  <2>2. http'[r].data.list = http[r].data.list \/ http'[r].data.list = NoList
    BY <1>5 DEF Moves, Empty
  <2> QED
    BY <1>2, <1>5, <2>1, <2>2 DEF HeldOK
<1>6. CASE x = r /\ Start(r)
  <2>1. PICK b \in Browsers : Opens(r, b)
    BY <1>0, <1>6, OpensAtStart
  <2>2. SidFor(r, b) \in Sids /\ http'[r].data.list = Stored(SidFor(r, b), Empty).list /\ pc[r] = "idle"
    BY <1>0, <2>1 DEF SidFor, Opens
  <2>3. CASE sessions[SidFor(r, b)] = NoSession
    BY <1>6, <2>2, <2>3 DEF Stored, Empty, HeldOK
  <2>4. CASE sessions[SidFor(r, b)] # NoSession
    <3> DEFINE list == sessions[SidFor(r, b)].list
    <3>1. http'[r].data.list = list
      BY <2>2, <2>4 DEF Stored
    <3>2. list # NoList => list.by \in Requests /\ pc[list.by] = "over"
      BY <1>0, <2>2, <2>4, ListTypes DEF StoredOK
    <3>3. list # NoList => list.by # r /\ pc'[list.by] = "over"
      BY <1>0, <3>2, OverStays
    <3> QED
      BY <1>6, <3>1, <3>3 DEF HeldOK
  <2> QED
    BY <2>3, <2>4
<1>7. CASE x = r /\ (Close(r) \/ Crash(r))
  BY <1>0, <1>7, EndStep DEF HeldOK
<1> QED
  BY <1>0, <1>3, <1>4, <1>5, <1>6, <1>7, InnerSteps

LEMMA StoredStep ==
    ASSUME NEW r \in Requests, Control, Start(r) \/ Step(r) \/ Crash(r), StoredOK, HeldOK(r)
    PROVE  StoredOK'
<1>0. /\ sessions \in [Sids -> Payload \cup {NoSession}] /\ http[r].sid \in Sids
      /\ http[r].data.list \in List \cup {NoList}
  BY ListTypes DEF Control, TypeOK, Held
<1>1. ASSUME NEW s \in Sids, sessions[s] # NoSession, sessions[s].list # NoList
      PROVE  pc'[sessions[s].list.by] = "over"
  <2>1. sessions[s].list.by \in Requests /\ pc[sessions[s].list.by] = "over"
    BY <1>1, ListTypes DEF StoredOK
  <2> QED
    BY <2>1, OverStays
<1>2. CASE \A s \in Sids : sessions'[s] \in {sessions[s], NoSession}
  BY <1>1, <1>2 DEF StoredOK
<1>3. CASE Close(r)
  <2>1. \A s \in Sids : sessions'[s] = sessions[s] \/ (s = http[r].sid /\ sessions'[s] = http[r].data)
    BY <1>0, <1>3 DEF Close, SaveSession
  <2>2. http[r].data.list # NoList => pc'[http[r].data.list.by] = "over"
    <3>1. Active(r) /\ pc'[r] = "over"
      BY <1>3, EndStep
    <3>2. http[r].data.list # NoList => http[r].data.list.by \in Requests
      BY <1>0, ListTypes
    <3> QED
      BY <3>1, <3>2, OverStays DEF HeldOK, Lists
  <2> QED
    BY <1>1, <2>1, <2>2 DEF StoredOK
<1>4. ASSUME NEW b \in Browsers, Opens(r, b) PROVE \A s \in Sids : sessions'[s] \in {sessions[s], NoSession}
  BY <1>0, <1>4 DEF Opens
<1>5. ASSUME Quiet(r) \/ Moves(r) PROVE \A s \in Sids : sessions'[s] \in {sessions[s], NoSession}
  BY <1>0, <1>5 DEF Quiet, Moves
<1>6. ASSUME Crash(r) PROVE \A s \in Sids : sessions'[s] \in {sessions[s], NoSession}
  BY <1>6 DEF Crash
<1> QED
  BY <1>2, <1>3, <1>4, <1>5, <1>6, OpensAtStart, InnerSteps

LEMMA OwedStep ==
    ASSUME NEW r \in Requests, DirInv, Own, Start(r) \/ Step(r) \/ Crash(r),
           NEW b \in Browsers, SoloOK(b), HeldOK(r), OwedOK(b)
    PROVE  OwedOK(b)'
<1>0. Control /\ Rest(r) /\ owed \in [Browsers -> Requests \cup {Null}]
  BY RestStays DEF DirInv, Control, TypeOK
<1> SUFFICES ASSUME owed'[b] # Null PROVE OwedOK(b)'
  BY DEF OwedOK
<1>a. ASSUME NEW data, NEW y \in Requests, pc[y] = "over", Lists(data, y)
      PROVE  /\ data.list # NoList /\ data.list.by = y /\ pc'[y] = "over"
             /\ {u \in UserIds : IsUser(u)' /\ users'[u].password = y} \subseteq data.list.who
  BY <1>0, <1>a, OverStays, ListsStay
<1>b. owed[b] # Null => owed[b] \in Requests /\ pc[owed[b]] = "over" /\ pc'[owed[b]] = "over"
  BY <1>0, OverStays DEF OwedOK
<1>c. ASSUME owed'[b] = owed[b], NEW x \in Requests, Lists(http[x].data, owed[b]),
             http'[x].data.list = http[x].data.list
      PROVE  Lists(http[x].data, owed[b])'
  BY <1>a, <1>b, <1>c DEF Lists
<1>d. ASSUME owed'[b] = owed[b], cookie'[b] = cookie[b], sessions'[cookie[b]] = sessions[cookie[b]],
             sessions[cookie[b]] # NoSession, Lists(sessions[cookie[b]], owed[b])
      PROVE  sessions'[cookie'[b]] # NoSession /\ Lists(sessions[cookie[b]], owed[b])'
  BY <1>a, <1>b, <1>d DEF Lists
<1>1. CASE Untouched(b)
  <2>1. AtHome(b)' <=> AtHome(b)
    BY <1>1 DEF Untouched, AtHome
  <2>2. cookie[b] # Null /\ owed'[b] = owed[b]
    BY <1>1 DEF Untouched, SoloOK
  <2>3. AtHome(b)' => sessions'[cookie'[b]] # NoSession /\ Lists(sessions[cookie[b]], owed[b])'
    BY <1>1, <1>d, <2>1, <2>2 DEF Untouched, OwedOK
  <2>4. ASSUME NEW x \in Requests, Active(x)', input'[x].from = b
        PROVE  \/ Lists(http[x].data, owed[b])'
               \/ input'[x].op \in {"download", "logout"}
               \/ http'[x].data.list # NoList /\ http'[x].data.list.by = x
    <3>1. Active(x) /\ input[x].from = b /\ http'[x] = http[x] /\ input'[x] = input[x]
      BY <1>1, <2>4 DEF Untouched
    <3> QED
      BY <1>c, <2>2, <3>1 DEF OwedOK
  <2> QED
    BY <1>b, <2>2, <2>3, <2>4 DEF OwedOK
<1>2. CASE Quiet(r) /\ input[r].from = b
  <2>1. /\ Active(r) /\ Active(r)' /\ input'[r] = input[r] /\ http'[r].sid = http[r].sid /\ cookie' = cookie
        /\ sessions' = sessions /\ owed' = owed
    BY <1>2 DEF Quiet, Active
  <2>2. AtHome(b)' => AtHome(b)
    BY <1>0, <2>1 DEF AtHome, Rest
  <2>3. AtHome(b)' => sessions'[cookie'[b]] # NoSession /\ Lists(sessions[cookie[b]], owed[b])'
    BY <1>d, <2>1, <2>2 DEF OwedOK
  <2>4. ASSUME NEW x \in Requests, Active(x)', input'[x].from = b
        PROVE  \/ Lists(http[x].data, owed[b])'
               \/ input'[x].op \in {"download", "logout"}
               \/ http'[x].data.list # NoList /\ http'[x].data.list.by = x
    <3>1. CASE http'[x].data.list = http[x].data.list
      <4>1. Active(x) /\ input[x].from = b /\ input'[x] = input[x]
        BY <1>0, <2>1, <2>4 DEF Rest
      <4> QED
        BY <1>c, <2>1, <3>1, <4>1 DEF OwedOK
    <3>2. CASE http'[x].data.list # http[x].data.list
      <4>1. x = r
        BY <1>0, <3>2 DEF Rest
      <4>2. CASE input[r].op = "download"
        BY <2>1, <4>1, <4>2
      <4>3. CASE http'[r].data.list = [by |-> r, who |-> {u \in UserIds : batch[r].draft[u] # NoUser}]
        <5>1. http'[r].data.list \in List /\ http'[r].data.list.by = r
          BY <4>3 DEF List
        <5> QED
          BY <4>1, <5>1, Marks
      <4> QED
        BY <1>2, <3>2, <4>1, <4>2, <4>3 DEF Quiet
    <3> QED
      BY <3>1, <3>2
  <2> QED
    BY <1>b, <2>1, <2>3, <2>4 DEF OwedOK
<1>3. CASE Moves(r) /\ input[r].from = b
  <2>1. /\ Active(r) /\ Active(r)' /\ input'[r] = input[r] /\ http'[r].sid = r /\ cookie' = cookie
        /\ owed' = owed /\ pc[r] # "over"
        /\ input[r].op = "logout" \/ http'[r].data.list = http[r].data.list
    BY <1>3 DEF Moves, Active
  <2>2. ~AtHome(b)'
    BY <1>3, <2>1 DEF AtHome, Own, Fresh
  <2>3. ASSUME NEW x \in Requests, Active(x)', input'[x].from = b
        PROVE  \/ Lists(http[x].data, owed[b])'
               \/ input'[x].op \in {"download", "logout"}
               \/ http'[x].data.list # NoList /\ http'[x].data.list.by = x
    <3>1. Active(x) /\ input[x].from = b /\ input'[x] = input[x]
          /\ (input[x].op = "logout" \/ http'[x].data.list = http[x].data.list)
      BY <1>0, <2>1, <2>3 DEF Rest
    <3> QED
      BY <1>c, <2>1, <3>1 DEF OwedOK
  <2> QED
    BY <1>b, <2>1, <2>2, <2>3 DEF OwedOK
<1>4. CASE Opens(r, b)
  <2>1. /\ owed' = owed /\ cookie' = cookie /\ SidFor(r, b) = cookie[b]
        /\ \A x \in Requests : Active(x) => input[x].from # b
        /\ \A x \in Requests : Active(x)' /\ input'[x].from = b => x = r
        /\ \/ sessions' = sessions
           \/ Active(r)' /\ input'[r].from = b /\ http'[r].sid # cookie'[b]
    BY <1>0, <1>4, SoloOpens
  <2>2. sessions[cookie[b]] # NoSession /\ Lists(sessions[cookie[b]], owed[b])
    BY <2>1 DEF OwedOK, AtHome
  <2>3. http'[r].data.list = sessions[cookie[b]].list
    BY <1>4, <2>1, <2>2 DEF Opens, Stored
  <2>4. Lists(http[r].data, owed[b])'
    BY <1>a, <1>b, <2>1, <2>2, <2>3 DEF Lists
  <2>5. AtHome(b)' => sessions' = sessions
    BY <2>1 DEF AtHome
  <2>6. AtHome(b)' => sessions'[cookie'[b]] # NoSession /\ Lists(sessions[cookie[b]], owed[b])'
    BY <1>d, <2>1, <2>2, <2>5
  <2> QED
    BY <1>b, <2>1, <2>4, <2>6 DEF OwedOK
<1>5. CASE Close(r) /\ input[r].from = b
  <2> DEFINE imported == http[r].data.list # NoList /\ http[r].data.list.by = r
  <2>1. Active(r) /\ pc'[r] = "over" /\ users' = users
    BY <1>0, <1>5, EndStep DEF Close, tables
  <2>2. owed'[b] = IF imported /\ b \notin clash THEN r
                   ELSE IF input[r].op \in {"download", "logout"} THEN Null ELSE owed[b]
    BY <1>0, <1>5 DEF Close
  <2>3. b \notin clash
    BY <2>2 DEF SoloOK
  <2>4. /\ cookie'[b] = http[r].sid /\ sessions'[cookie'[b]] = http[r].data
        /\ http[r].data # NoSession /\ \A x \in Requests : Active(x)' => input'[x].from # b
    BY <1>0, <1>5, <2>3, SoloClose
  <2>5. Lists(http[r].data, owed'[b]) /\ pc'[owed'[b]] = "over"
    <3>1. CASE imported
      BY <2>1, <2>2, <2>3, <3>1 DEF HeldOK
    <3>2. CASE ~imported
      BY <1>5, <1>b, <2>1, <2>2, <3>2 DEF OwedOK
    <3> QED
      BY <3>1, <3>2
  <2>6. Lists(sessions[cookie[b]], owed[b])'
    BY <2>1, <2>4, <2>5 DEF Lists, IsUser
  <2> QED
    BY <2>4, <2>5, <2>6 DEF OwedOK
<1>6. CASE Crash(r) /\ input[r].from = b
  <2>1. /\ owed'[b] = owed[b] /\ cookie' = cookie /\ sessions' = sessions
        /\ \A x \in Requests : Active(x) /\ input[x].from = b => x = r /\ http[x].sid = cookie[b]
        /\ \A x \in Requests : Active(x)' => input'[x].from # b
    BY <1>0, <1>6, SoloCrash
  <2>2. AtHome(b)
    BY <2>1 DEF AtHome
  <2>3. sessions'[cookie'[b]] # NoSession /\ Lists(sessions[cookie[b]], owed[b])'
    BY <1>d, <2>1, <2>2 DEF OwedOK
  <2> QED
    BY <1>b, <2>1, <2>3 DEF OwedOK
<1> QED
  BY <1>0, <1>1, <1>2, <1>3, <1>4, <1>5, <1>6, HomeSteps

-----------------------------------------------------------------------------
(***************************************************************************)
(* The invariant of the sessions, and what it gives                        *)
(***************************************************************************)
SessionInv ==
    /\ DirInv /\ Own /\ StoredOK
    /\ \A b \in Browsers : SoloOK(b) /\ ChosenOK(b) /\ OwedOK(b)
    /\ \A x \in Requests : SwitchedOK(x) /\ HeldOK(x) /\ BatchOK(x)

LEMMA SessionInit == Init => SessionInv
<1> SUFFICES ASSUME Init PROVE SessionInv
  OBVIOUS
<1>1. DirInv /\ Own
  BY DirInit, OwnInit
<1>2. \A x \in Requests : ~Active(x)
  BY DEF Init, Active
<1>3. \A b \in Browsers : chosen[b] = Null /\ owed[b] = Null
  BY DEF Init
<1>4. StoredOK
  BY FirstBrowsers DEF Init, StoredOK
<1>5. \A b \in Browsers : SoloOK(b) /\ ChosenOK(b) /\ OwedOK(b)
  BY <1>2, <1>3 DEF SoloOK, ChosenOK, OwedOK
<1>6. \A x \in Requests : SwitchedOK(x) /\ HeldOK(x) /\ BatchOK(x)
  BY <1>2 DEF SwitchedOK, HeldOK, BatchOK
<1> QED
  BY <1>1, <1>4, <1>5, <1>6 DEF SessionInv

LEMMA SessionExpiry ==
    ASSUME SessionInv, NEW c \in Browsers, SessionExpires(c)
    PROVE  /\ StoredOK'
           /\ \A b \in Browsers : (SoloOK(b) /\ ChosenOK(b) /\ OwedOK(b))'
           /\ \A x \in Requests : (SwitchedOK(x) /\ HeldOK(x) /\ BatchOK(x))'
<1>0. /\ Control /\ Own /\ sessions \in [Sids -> Payload \cup {NoSession}]
      /\ chosen \in [Browsers -> Locales \cup {Null}] /\ owed \in [Browsers -> Requests \cup {Null}]
  BY DEF SessionInv, DirInv, Control, TypeOK
<1>1. /\ users' = users /\ batch' = batch /\ http' = http /\ pc' = pc /\ input' = input
      /\ chosen'[c] = Null /\ owed'[c] = Null /\ \A x \in Requests : Active(x) => input[x].from # c
      /\ \A s \in Sids : sessions'[s] \in {sessions[s], NoSession}
  BY <1>0 DEF SessionExpires, ExpireSession, Busy, frame, tables
<1>2. \A x \in Requests : Active(x)' <=> Active(x)
  BY <1>1 DEF Active
<1>3. StoredOK'
  BY <1>1 DEF SessionInv, StoredOK
<1>4. \A x \in Requests : (SwitchedOK(x) /\ HeldOK(x) /\ BatchOK(x))'
  BY <1>1, <1>2 DEF SessionInv, SwitchedOK, HeldOK, BatchOK, Lists, IsUser
<1>5. (SoloOK(c) /\ ChosenOK(c) /\ OwedOK(c))'
  BY <1>1, <1>2 DEF SoloOK, ChosenOK, OwedOK
<1>6. ASSUME NEW b \in Browsers \ {c} PROVE (SoloOK(b) /\ ChosenOK(b) /\ OwedOK(b))'
  <2>1. Untouched(b) /\ SoloOK(b) /\ ChosenOK(b) /\ OwedOK(b)
    BY <1>0, ExpiryElsewhere DEF SessionInv
  <2>2. AtHome(b)' <=> AtHome(b)
    BY <2>1 DEF Untouched, AtHome
  <2>3. SoloOK(b)'
    BY <2>1 DEF Untouched, SoloOK
  <2>4. ChosenOK(b)'
    BY <2>1, <2>2 DEF Untouched, ChosenOK, SoloOK
  <2>5. OwedOK(b)'
    BY <1>1, <2>1, <2>2 DEF Untouched, OwedOK, SoloOK, Lists, IsUser
  <2> QED
    BY <2>3, <2>4, <2>5
<1> QED
  BY <1>3, <1>4, <1>5, <1>6

LEMMA SessionNext == SessionInv /\ [Next]_vars => SessionInv'
<1> SUFFICES ASSUME SessionInv, [Next]_vars PROVE SessionInv'
  OBVIOUS
<1>1. DirInv' /\ Own' /\ Control
  BY DirNext, OwnNext DEF SessionInv, DirInv
<1>2. ASSUME NEW r \in Requests, Start(r) \/ Step(r) \/ Crash(r) PROVE SessionInv'
  <2>1. StoredOK'
    BY <1>1, <1>2, StoredStep DEF SessionInv
  <2>2. ASSUME NEW b \in Browsers PROVE (SoloOK(b) /\ ChosenOK(b) /\ OwedOK(b))'
    BY <1>1, <1>2, SoloStep, ChosenStep, OwedStep DEF SessionInv
  <2>3. ASSUME NEW x \in Requests PROVE (SwitchedOK(x) /\ HeldOK(x) /\ BatchOK(x))'
    BY <1>1, <1>2, SwitchedStep, HeldStep, BatchOKStep DEF SessionInv
  <2> QED
    BY <1>1, <2>1, <2>2, <2>3 DEF SessionInv
<1>3. ASSUME NEW c \in Browsers, SessionExpires(c) PROVE SessionInv'
  BY <1>1, <1>3, SessionExpiry DEF SessionInv
<1>4. ASSUME UNCHANGED vars PROVE SessionInv'
  <2>1. /\ users' = users /\ batch' = batch /\ http' = http /\ pc' = pc /\ input' = input /\ chosen' = chosen
        /\ owed' = owed /\ clash' = clash /\ sessions' = sessions /\ cookie' = cookie
    BY <1>4 DEF vars, tables, web, frame, history
  <2>2. StoredOK'
    BY <2>1 DEF SessionInv, StoredOK
  <2>3. \A b \in Browsers : (SoloOK(b) /\ ChosenOK(b) /\ OwedOK(b))'
    BY <2>1 DEF SessionInv, SoloOK, ChosenOK, OwedOK, AtHome, Active, Lists, IsUser
  <2>4. \A x \in Requests : (SwitchedOK(x) /\ HeldOK(x) /\ BatchOK(x))'
    BY <2>1 DEF SessionInv, SwitchedOK, HeldOK, BatchOK, Active, Lists, IsUser
  <2> QED
    BY <1>1, <2>2, <2>3, <2>4 DEF SessionInv
<1> QED
  BY <1>2, <1>3, <1>4 DEF Next, Finished

\* A browser that was answered a switch of locale sees its pages in that locale until it
\* switches again, logs out or its session expires, whatever the other browsers do.
THEOREM SwitchesStick == Spec => []SwitchSticks
<1>1. SessionInv => SwitchSticks
  <2> SUFFICES ASSUME SessionInv, NEW b \in Browsers, ~Busy(b), chosen[b] # Null, cookie[b] # Null
               PROVE  LET data == Stored(cookie[b], Empty)
                      IN  SetLocale(data, UserOf(data, b), b) = chosen[b]
    BY DEF SwitchSticks
  <2>1. AtHome(b)
    BY DEF Busy, AtHome
  <2>2. sessions[cookie[b]] # NoSession /\ sessions[cookie[b]].locale = chosen[b]
    BY <2>1 DEF SessionInv, ChosenOK
  <2>3. chosen[b] \in Locales
    BY DEF SessionInv, DirInv, Control, TypeOK
  <2> QED
    BY <2>2, <2>3 DEF Stored, SetLocale
<1> QED
  BY <1>1, SessionInit, SessionNext, PTL DEF Spec

\* An admin who was told that users were imported finds their passwords in the session
\* until the list is fetched, unless requests of this browser overlap.
THEOREM OwedListsAreThere == Spec => []OwedListIsThere
<1>1. SessionInv => OwedListIsThere
  <2> SUFFICES ASSUME SessionInv, NEW b \in Browsers, ~Busy(b), owed[b] # Null
               PROVE  LET list == Stored(cookie[b], Empty).list
                      IN  /\ list # NoList /\ list.by = owed[b]
                          /\ {u \in UserIds : IsUser(u) /\ users[u].password = owed[b]} \subseteq list.who
    BY DEF OwedListIsThere
  <2>1. AtHome(b)
    BY DEF Busy, AtHome
  <2>2. sessions[cookie[b]] # NoSession /\ Lists(sessions[cookie[b]], owed[b])
    BY <2>1 DEF SessionInv, OwedOK
  <2> QED
    BY <2>2 DEF Stored, Lists
<1> QED
  BY <1>1, SessionInit, SessionNext, PTL DEF Spec

-----------------------------------------------------------------------------
(***************************************************************************)
(* A logout is not undone by an answer that comes late, as long as each    *)
(* browser has at most two requests under way.                             *)
(***************************************************************************)
\* Of any three requests of one browser that are under way, two are the same.
TwoPerBrowser ==
    \A x, y, z \in Requests :
        /\ Active(x) /\ Active(y) /\ Active(z)
        /\ input[x].from = input[y].from /\ input[y].from = input[z].from
        => x = y \/ y = z \/ x = z

-----------------------------------------------------------------------------
(***************************************************************************)
(* The invariant                                                           *)
(***************************************************************************)
\* A user in a session that the request has not moved comes from a stored row.
ReadOK(x) == Active(x) /\ http[x].data.user # Null /\ http[x].sid # x => http[x].existed

\* The id of a request that was logged out is that of one which has ended, or of a
\* logout that had moved its session before.
EndedOK(x) ==
    x \in ended => pc[x] = "over" \/ (Active(x) /\ input[x].op = "logout" /\ http[x].data.user = Null)

\* The logout has destroyed the session, and its answer has not reached the browser.
LeavesBehind(y, b) == pc[y] = "close" /\ input[y].op = "logout" /\ http[y].sid = y /\ input[y].from = b

\* The request holds a user of a session that was logged out.
Stale(x) == Active(x) /\ http[x].sid \in ended /\ http[x].data.user # Null

\* Its answer will be an UPDATE of a row that is gone; nobody else can put the row back:
\* no request holds the id, and the browser does not send it, or has two requests already.
StaleOK(x) ==
    Stale(x) =>
        /\ http[x].existed /\ sessions[http[x].sid] = NoSession
        /\ \A y \in Requests \ {x} : Active(y) => http[y].sid # http[x].sid
        /\ \/ cookie[input[x].from] # http[x].sid
           \/ \E y \in Requests \ {x} : LeavesBehind(y, input[x].from)

LogoutInv ==
    /\ LogoutSticks
    /\ \A x \in Requests : ReadOK(x) /\ EndedOK(x) /\ StaleOK(x)

LEMMA LogoutInit == Init => LogoutInv
<1> SUFFICES ASSUME Init PROVE LogoutInv
  OBVIOUS
<1>1. ended = {} /\ \A x \in Requests : ~Active(x)
  BY DEF Init, Active
<1> QED
  BY <1>1 DEF LogoutInv, LogoutSticks, ReadOK, EndedOK, Stale, StaleOK

-----------------------------------------------------------------------------
(***************************************************************************)
(* The steps                                                               *)
(***************************************************************************)
LEMMA QuietLogout ==
    ASSUME NEW r \in Requests, Rest(r), Quiet(r), LogoutInv
    PROVE  LogoutInv'
<1>1. /\ sessions' = sessions /\ cookie' = cookie /\ ended' = ended
      /\ Active(r) /\ Active(r)' /\ input'[r] = input[r] /\ http'[r].sid = http[r].sid
      /\ http'[r].existed = http[r].existed /\ http'[r].data.user = http[r].data.user
      /\ pc[r] # "close" /\ pc[r] # "over"
  BY DEF Quiet, Active
<1>2. \A x \in Requests :
         /\ Active(x)' <=> Active(x)
         /\ input'[x] = input[x] /\ http'[x].sid = http[x].sid /\ http'[x].existed = http[x].existed
         /\ http'[x].data.user = http[x].data.user
         /\ pc[x] = "over" => pc'[x] = "over"
         /\ pc[x] = "close" => pc'[x] = "close"
  BY <1>1 DEF Rest
<1>3. LogoutSticks'
  BY <1>1 DEF LogoutInv, LogoutSticks
<1>4. ASSUME NEW x \in Requests PROVE ReadOK(x)' /\ EndedOK(x)'
  BY <1>1, <1>2 DEF LogoutInv, ReadOK, EndedOK
<1>5. ASSUME NEW x \in Requests PROVE StaleOK(x)'
  <2>1. \A y \in Requests, b \in {input[x].from} : LeavesBehind(y, b) => LeavesBehind(y, b)'
    BY <1>2 DEF LeavesBehind
  <2> QED
    BY <1>1, <1>2, <2>1 DEF LogoutInv, Stale, StaleOK
<1> QED
  BY <1>3, <1>4, <1>5 DEF LogoutInv

LEMMA MovesLogout ==
    ASSUME NEW r \in Requests, Control, Own, Rest(r), Moves(r), TwoPerBrowser, LogoutInv
    PROVE  LogoutInv'
<1> DEFINE s == http[r].sid
<1>0. /\ sessions \in [Sids -> Payload \cup {NoSession}] /\ s \in Sids /\ ended \subseteq Sids
      /\ \A x \in Requests : http[x].sid \in Sids
  BY DEF Control, TypeOK, Held
<1>1. /\ cookie' = cookie /\ Active(r) /\ Active(r)' /\ pc[r] # "close" /\ pc[r] # "over" /\ pc'[r] = "close"
      /\ input'[r] = input[r] /\ http'[r].sid = r /\ sessions' = [sessions EXCEPT ![s] = NoSession]
      /\ \/ input[r].op = "logout" /\ http'[r].data.user = Null /\ ended' = ended \cup {s}
         \/ input[r].op # "logout" /\ ended' = ended
  BY DEF Moves, Active, ForGuests, Empty
<1>2. /\ \A x \in Requests \ {r} : http[x].sid # r
      /\ \A x \in Requests \ {r} : http[r].sid = x => pc[x] = "over"
  BY <1>1 DEF Own, Fresh
<1>3. r \in ended => input[r].op = "logout"
  BY <1>1 DEF LogoutInv, EndedOK
<1>4. LogoutSticks'
  BY <1>0, <1>1 DEF LogoutInv, LogoutSticks
<1>5. ReadOK(r)' /\ EndedOK(r)' /\ StaleOK(r)'
  BY <1>1, <1>3 DEF ReadOK, EndedOK, Stale, StaleOK
<1>6. ASSUME NEW x \in Requests \ {r} PROVE ReadOK(x)' /\ EndedOK(x)'
  BY <1>1, <1>2 DEF Rest, LogoutInv, ReadOK, EndedOK
<1>7. ASSUME NEW x \in Requests \ {r}, Stale(x)' PROVE StaleOK(x)'
  <2>1. /\ Active(x) /\ input'[x] = input[x] /\ http'[x] = http[x] /\ http[x].data.user # Null
        /\ http[x].sid \in ended'
    BY <1>7 DEF Stale, Rest
  <2>2. CASE http[x].sid \in ended
    <3>1. /\ http[x].existed /\ sessions[http[x].sid] = NoSession
          /\ \A y \in Requests \ {x} : Active(y) => http[y].sid # http[x].sid
          /\ \/ cookie[input[x].from] # http[x].sid
             \/ \E y \in Requests \ {x} : LeavesBehind(y, input[x].from)
      BY <2>1, <2>2 DEF LogoutInv, Stale, StaleOK
    <3>2. sessions'[http[x].sid] = NoSession
      BY <1>0, <1>1, <3>1
    <3>3. \A y \in Requests \ {x} : Active(y)' => http'[y].sid # http[x].sid
      BY <1>1, <1>2, <3>1 DEF Rest
    <3>4. \A y \in Requests : LeavesBehind(y, input[x].from) => LeavesBehind(y, input[x].from)'
      BY <1>1, <2>1 DEF LeavesBehind, Rest
    <3> QED
      BY <1>1, <2>1, <3>1, <3>2, <3>3, <3>4 DEF StaleOK
  <2>3. CASE http[x].sid = s /\ input[r].op = "logout"
    <3>1. http[x].existed
      BY <1>2, <2>1, <2>3 DEF LogoutInv, ReadOK, Active
    <3>2. input[x].from = input[r].from
      BY <1>1, <2>1, <2>3 DEF Own
    <3>3. \A y \in Requests \ {x} : Active(y)' => http'[y].sid # s
      <4>1. ASSUME NEW y \in Requests \ {x, r}, Active(y)', http'[y].sid = s PROVE FALSE
        <5>1. Active(y) /\ http[y].sid = s
          BY <4>1 DEF Rest
        <5>2. input[y].from = input[r].from
          BY <1>1, <5>1 DEF Own
        <5> QED
          BY <1>1, <2>1, <3>2, <5>1, <5>2 DEF TwoPerBrowser
      <4> QED
        BY <1>1, <1>2, <2>3, <4>1
    <3>4. LeavesBehind(r, input[x].from)'
      BY <1>1, <2>1, <2>3, <3>2 DEF LeavesBehind
    <3>5. sessions'[s] = NoSession
      BY <1>0, <1>1
    <3> QED
      BY <2>1, <2>3, <3>1, <3>3, <3>4, <3>5 DEF StaleOK
  <2> QED
    BY <1>1, <2>1, <2>2, <2>3
<1> QED
  BY <1>4, <1>5, <1>6, <1>7 DEF LogoutInv, StaleOK

LEMMA OpensLogout ==
    ASSUME NEW r \in Requests, Control, Own, Rest(r), NEW b \in Browsers, Opens(r, b),
           TwoPerBrowser', LogoutInv
    PROVE  LogoutInv'
<1>0. /\ sessions \in [Sids -> Payload \cup {NoSession}] /\ SidFor(r, b) \in Sids /\ ended \subseteq Sids
      /\ \A x \in Requests : http[x].sid \in Sids
  BY DEF Control, TypeOK, Held, SidFor, Sids
<1>1. /\ cookie' = cookie /\ ended' = ended /\ pc[r] = "idle" /\ ~Active(r) /\ Active(r)' /\ input'[r].from = b
      /\ r \notin ended /\ \A x \in Requests \ {r} : http[x].sid # r
  BY DEF Opens, Active, LogoutInv, EndedOK, Own, Fresh
<1>2. \A s \in Sids : sessions'[s] \in {sessions[s], NoSession}
  BY <1>0 DEF Opens
<1>3. LogoutSticks'
  BY <1>0, <1>1, <1>2 DEF LogoutInv, LogoutSticks
<1>4. ReadOK(r)' /\ EndedOK(r)' /\ StaleOK(r)'
  <2>1. CASE http'[r].sid = r
    BY <1>1, <2>1 DEF ReadOK, EndedOK, Stale, StaleOK
  <2>2. CASE /\ http'[r].sid = SidFor(r, b) /\ (http'[r].existed <=> sessions[SidFor(r, b)] # NoSession)
             /\ http'[r].data.user = Stored(SidFor(r, b), Empty).user
    <3>1. http'[r].data.user # Null =>
             sessions[SidFor(r, b)] # NoSession /\ sessions[SidFor(r, b)].user # Null
      BY <2>2 DEF Stored, Empty
    <3>2. http'[r].data.user # Null => http'[r].existed /\ http'[r].sid \notin ended
      BY <2>2, <3>1 DEF LogoutInv, LogoutSticks
    <3> QED
      BY <1>1, <3>2 DEF ReadOK, EndedOK, Stale, StaleOK
  <2> QED
    BY <2>1, <2>2 DEF Opens
<1>5. ASSUME NEW x \in Requests \ {r} PROVE ReadOK(x)' /\ EndedOK(x)'
  BY <1>1 DEF Rest, LogoutInv, ReadOK, EndedOK
<1>6. ASSUME NEW x \in Requests \ {r}, Stale(x)' PROVE StaleOK(x)'
  <2>1. /\ Active(x) /\ Active(x)' /\ input'[x] = input[x] /\ http'[x] = http[x] /\ Stale(x)
    BY <1>1, <1>6 DEF Stale, Rest
  <2>2. /\ http[x].existed /\ sessions[http[x].sid] = NoSession
        /\ \A y \in Requests \ {x} : Active(y) => http[y].sid # http[x].sid
        /\ \/ cookie[input[x].from] # http[x].sid
           \/ \E y \in Requests \ {x} : LeavesBehind(y, input[x].from)
    BY <2>1 DEF LogoutInv, StaleOK
  <2>3. \A y \in Requests : LeavesBehind(y, input[x].from) =>
           y # r /\ Active(y)' /\ input'[y].from = input[x].from /\ LeavesBehind(y, input[x].from)'
    BY <1>1, <2>1 DEF LeavesBehind, Rest, Active
  <2>4. http'[r].sid # http[x].sid
    <3> SUFFICES ASSUME http'[r].sid = http[x].sid PROVE FALSE
      OBVIOUS
    <3>1. SidFor(r, b) = http[x].sid /\ SidFor(r, b) # r
      BY <1>1 DEF Opens
    <3>2. cookie[b] = http[x].sid
      BY <3>1 DEF SidFor
    <3>3. input[x].from = b
      BY <2>1, <3>2 DEF Own
    <3>4. PICK y \in Requests \ {x} : LeavesBehind(y, b)
      BY <2>2, <3>2, <3>3
    <3>5. y # r /\ Active(y)' /\ input'[y].from = b
      BY <2>3, <3>3, <3>4
    <3> QED
      BY <1>1, <2>1, <3>3, <3>5 DEF TwoPerBrowser
  <2>5. \A y \in Requests \ {x} : Active(y)' => http'[y].sid # http[x].sid
    BY <2>2, <2>4 DEF Rest
  <2>6. sessions'[http[x].sid] = NoSession
    BY <1>0, <1>2, <2>2
  <2> QED
    BY <1>1, <2>1, <2>2, <2>3, <2>5, <2>6 DEF StaleOK
<1> QED
  BY <1>3, <1>4, <1>5, <1>6 DEF LogoutInv, StaleOK

LEMMA CloseLogout ==
    ASSUME NEW r \in Requests, Control, Rest(r), Close(r), LogoutInv
    PROVE  LogoutInv'
<1> DEFINE b == input[r].from
<1>0. /\ sessions \in [Sids -> Payload \cup {NoSession}] /\ cookie \in [Browsers -> Sids \cup {Null}]
      /\ ended \subseteq Sids /\ \A x \in Requests : http[x].sid \in Sids
  BY DEF Control, TypeOK, Held
<1>1. Active(r) /\ pc'[r] = "over" /\ ~Active(r)' /\ b \in Browsers
  BY EndStep
<1>2. /\ ended' = ended /\ cookie' = [cookie EXCEPT ![b] = http[r].sid]
      /\ \A s \in Sids \ {http[r].sid} : sessions'[s] = sessions[s]
      /\ \/ sessions' = sessions
         \/ /\ ~(http[r].existed /\ sessions[http[r].sid] = NoSession)
            /\ sessions'[http[r].sid] = http[r].data
  BY <1>0 DEF Close, SaveSession
<1>3. LogoutSticks'
  <2>1. ASSUME http[r].sid \in ended, sessions' # sessions PROVE sessions'[http[r].sid].user = Null
    BY <1>1, <1>2, <2>1 DEF LogoutInv, StaleOK, Stale
  <2> QED
    BY <1>0, <1>2, <2>1 DEF LogoutInv, LogoutSticks
<1>4. ReadOK(r)' /\ EndedOK(r)' /\ StaleOK(r)'
  BY <1>1 DEF ReadOK, EndedOK, Stale, StaleOK
<1>5. ASSUME NEW x \in Requests \ {r} PROVE ReadOK(x)' /\ EndedOK(x)'
  BY <1>2 DEF Rest, LogoutInv, ReadOK, EndedOK
<1>6. ASSUME NEW x \in Requests \ {r}, Stale(x)' PROVE StaleOK(x)'
  <2>1. Active(x) /\ input'[x] = input[x] /\ http'[x] = http[x] /\ Stale(x)
    BY <1>2, <1>6 DEF Stale, Rest
  <2>2. /\ http[x].existed /\ sessions[http[x].sid] = NoSession
        /\ \A y \in Requests \ {x} : Active(y) => http[y].sid # http[x].sid
        /\ \/ cookie[input[x].from] # http[x].sid
           \/ \E y \in Requests \ {x} : LeavesBehind(y, input[x].from)
    BY <2>1 DEF LogoutInv, StaleOK
  <2>3. http[r].sid # http[x].sid /\ sessions'[http[x].sid] = NoSession
    BY <1>0, <1>1, <1>2, <2>2
  <2>4. \A y \in Requests \ {x} : Active(y)' => http'[y].sid # http[x].sid
    BY <1>1, <2>2 DEF Rest
  <2>5. input[x].from \in Browsers
    BY <2>1, InputShape DEF Control, ControlOK
  <2>6. CASE input[x].from = b
    <3>1. cookie'[input[x].from] # http[x].sid
      BY <1>0, <1>1, <1>2, <2>3, <2>6
    <3> QED
      BY <2>1, <2>2, <2>3, <2>4, <3>1 DEF StaleOK
  <2>7. CASE input[x].from # b
    <3>1. cookie'[input[x].from] = cookie[input[x].from]
      BY <1>0, <1>2, <2>5, <2>7
    <3>2. \A y \in Requests : LeavesBehind(y, input[x].from) => LeavesBehind(y, input[x].from)'
      BY <2>1, <2>7 DEF LeavesBehind, Rest
    <3> QED
      BY <2>1, <2>2, <2>3, <2>4, <3>1, <3>2 DEF StaleOK
  <2> QED
    BY <2>6, <2>7
<1> QED
  BY <1>3, <1>4, <1>5, <1>6 DEF LogoutInv, StaleOK

LEMMA CrashLogout ==
    ASSUME NEW r \in Requests, Control, Rest(r), Crash(r), LogoutInv
    PROVE  LogoutInv'
<1> DEFINE b == input[r].from
<1>1. Active(r) /\ pc'[r] = "over" /\ ~Active(r)' /\ b \in Browsers
  BY EndStep
<1>2. /\ sessions' = sessions /\ cookie' = cookie
      /\ ended' = IF http[r].sid # SidFor(r, b) /\ input[r].op = "logout" THEN ended \ {cookie[b]} ELSE ended
  BY DEF Crash
<1>3. LogoutSticks'
  BY <1>2 DEF LogoutInv, LogoutSticks
<1>4. ReadOK(r)' /\ EndedOK(r)' /\ StaleOK(r)'
  BY <1>1 DEF ReadOK, EndedOK, Stale, StaleOK
<1>5. ASSUME NEW x \in Requests \ {r} PROVE ReadOK(x)' /\ EndedOK(x)'
  BY <1>2 DEF Rest, LogoutInv, ReadOK, EndedOK
<1>6. ASSUME NEW x \in Requests \ {r}, Stale(x)' PROVE StaleOK(x)'
  <2>1. Active(x) /\ input'[x] = input[x] /\ http'[x] = http[x] /\ http[x].sid \in ended' /\ Stale(x)
    BY <1>2, <1>6 DEF Stale, Rest
  <2>2. /\ http[x].existed /\ sessions[http[x].sid] = NoSession
        /\ \A y \in Requests \ {x} : Active(y) => http[y].sid # http[x].sid
        /\ \/ cookie[input[x].from] # http[x].sid
           \/ \E y \in Requests \ {x} : LeavesBehind(y, input[x].from)
    BY <2>1 DEF LogoutInv, StaleOK
  <2>3. \A y \in Requests \ {x} : Active(y)' => http'[y].sid # http[x].sid
    BY <1>1, <2>2 DEF Rest
  <2>4. LeavesBehind(r, input[x].from) => cookie[input[x].from] # http[x].sid
    <3> SUFFICES ASSUME LeavesBehind(r, input[x].from), cookie[input[x].from] = http[x].sid PROVE FALSE
      OBVIOUS
    <3>1. b = input[x].from /\ input[r].op = "logout" /\ http[r].sid # http[x].sid
      BY <1>1, <2>2 DEF LeavesBehind
    <3>2. SidFor(r, b) # http[r].sid
      <4>1. http[x].sid # Null
        BY Marks DEF Control, TypeOK, Held
      <4> QED
        BY <3>1, <4>1 DEF SidFor
    <3> QED
      BY <1>2, <2>1, <3>1, <3>2
  <2>5. \A y \in Requests \ {r} : LeavesBehind(y, input[x].from) => LeavesBehind(y, input[x].from)'
    BY <2>1 DEF LeavesBehind, Rest
  <2> QED
    BY <1>2, <2>1, <2>2, <2>3, <2>4, <2>5 DEF StaleOK
<1> QED
  BY <1>3, <1>4, <1>5, <1>6 DEF LogoutInv, StaleOK

LEMMA ExpiryLogout ==
    ASSUME Control, NEW c \in Browsers, SessionExpires(c), LogoutInv
    PROVE  LogoutInv'
<1>0. /\ sessions \in [Sids -> Payload \cup {NoSession}] /\ cookie \in [Browsers -> Sids \cup {Null}]
      /\ ended \subseteq Sids /\ \A x \in Requests : http[x].sid \in Sids
  BY DEF Control, TypeOK, Held
<1>1. /\ http' = http /\ pc' = pc /\ input' = input /\ ended' = ended
      /\ \A s \in Sids : sessions'[s] \in {sessions[s], NoSession}
      /\ \A b \in Browsers \ {c} : cookie'[b] = cookie[b]
      /\ \A x \in Requests : Active(x) => input[x].from # c
  BY <1>0 DEF SessionExpires, ExpireSession, Busy, frame
<1>2. LogoutSticks'
  BY <1>0, <1>1 DEF LogoutInv, LogoutSticks
<1>3. ASSUME NEW x \in Requests PROVE ReadOK(x)' /\ EndedOK(x)'
  BY <1>1 DEF LogoutInv, ReadOK, EndedOK, Active
<1>4. ASSUME NEW x \in Requests, Stale(x)' PROVE StaleOK(x)'
  <2>1. Active(x) /\ Stale(x)
    BY <1>1, <1>4 DEF Stale, Active
  <2>2. input[x].from \in Browsers \ {c}
    BY <1>1, <2>1, InputShape DEF Control, ControlOK
  <2>3. /\ http[x].existed /\ sessions[http[x].sid] = NoSession
        /\ \A y \in Requests \ {x} : Active(y) => http[y].sid # http[x].sid
        /\ \/ cookie[input[x].from] # http[x].sid
           \/ \E y \in Requests \ {x} : LeavesBehind(y, input[x].from)
    BY <2>1 DEF LogoutInv, StaleOK
  <2>4. sessions'[http[x].sid] = NoSession /\ cookie'[input[x].from] = cookie[input[x].from]
    BY <1>0, <1>1, <2>2, <2>3
  <2> QED
    BY <1>1, <2>3, <2>4 DEF StaleOK, LeavesBehind, Active
<1> QED
  BY <1>2, <1>3, <1>4 DEF LogoutInv, StaleOK

LEMMA LogoutNext ==
    SessionInv /\ LogoutInv /\ TwoPerBrowser /\ TwoPerBrowser' /\ [Next]_vars => LogoutInv'
<1> SUFFICES ASSUME SessionInv, LogoutInv, TwoPerBrowser, TwoPerBrowser', [Next]_vars PROVE LogoutInv'
  OBVIOUS
<1>0. Control /\ Own
  BY DEF SessionInv, DirInv
<1>1. ASSUME NEW r \in Requests, Start(r) \/ Step(r) \/ Crash(r) PROVE LogoutInv'
  <2>1. Rest(r)
    BY <1>0, <1>1, RestStays
  <2>2. CASE Start(r)
    BY <1>0, <2>1, <2>2, OpensAtStart, OpensLogout
  <2>3. CASE Step(r)
    BY <1>0, <2>1, <2>3, InnerSteps, QuietLogout, MovesLogout, CloseLogout
  <2> QED
    BY <1>0, <1>1, <2>1, <2>2, <2>3, CrashLogout
<1>2. ASSUME UNCHANGED vars PROVE LogoutInv'
  BY <1>2 DEF vars, web, frame, history, LogoutInv, LogoutSticks, ReadOK, EndedOK, Stale, StaleOK,
              LeavesBehind, Active
<1> QED
  BY <1>0, <1>1, <1>2, ExpiryLogout DEF Next, Finished

-----------------------------------------------------------------------------
(***************************************************************************)
(* The theorems                                                            *)
(***************************************************************************)
\* A session that was logged out stays logged out, for any number of browsers and of
\* requests, as long as no browser has more than two of them under way at once.
THEOREM LogoutsStick == Spec /\ []TwoPerBrowser => []LogoutSticks
<1>1. LogoutInv => LogoutSticks
  BY DEF LogoutInv
<1> QED
  BY <1>1, SessionInit, SessionNext, LogoutInit, LogoutNext, PTL DEF Spec

\* The requests under way never exceed the bound.
Under == {x \in Requests : Active(x)}

LEMMA UnderBound == Spec => [](Cardinality(Under) <= MaxConcurrent)
<1> DEFINE Bound == Cardinality(Under) <= MaxConcurrent
<1>1. Init => Bound
  <2> SUFFICES ASSUME Init PROVE Bound
    OBVIOUS
  <2>1. Under = {}
    BY DEF Init, Under, Active
  <2> QED
    BY <2>1, FS_EmptySet, RequestBound
<1>2. Control /\ Bound /\ [Next]_vars => Bound'
  <2> SUFFICES ASSUME Control, Bound, [Next]_vars PROVE Bound'
    OBVIOUS
  <2>0. IsFiniteSet(Under) /\ Cardinality(Under) \in Nat
    BY RequestBound, FS_Subset, FS_CardinalityType DEF Under
  <2>1. ASSUME Under' \subseteq Under PROVE Bound'
    <3>1. IsFiniteSet(Under') /\ Cardinality(Under') <= Cardinality(Under)
      BY <2>0, <2>1, FS_Subset
    <3>2. Cardinality(Under') \in Nat
      BY <3>1, FS_CardinalityType
    <3> QED
      BY <2>0, <3>1, <3>2, RequestBound
  <2>2. ASSUME NEW r \in Requests, Start(r) PROVE Bound'
    <3>1. Rest(r) /\ Cardinality(Under) < MaxConcurrent
      BY <2>2, RestStays DEF Start, Under
    <3>2. ~Active(r) /\ Active(r)'
      BY <2>2, OpensAtStart DEF Opens, Active
    <3>3. Under' = Under \cup {r}
      BY <3>1, <3>2 DEF Under, Rest
    <3>4. Cardinality(Under') = Cardinality(Under) + 1
      BY <2>0, <3>2, <3>3, FS_AddElement DEF Under
    <3> QED
      BY <2>0, <3>1, <3>4, RequestBound
  <2>3. ASSUME NEW r \in Requests, Step(r) \/ Crash(r) PROVE Bound'
    <3>1. Rest(r) /\ Active(r)
      BY <2>3, RestStays, InnerSteps, EndStep DEF Quiet, Moves, Active
    <3> QED
      BY <2>1, <3>1 DEF Under, Rest
  <2>4. ASSUME pc' = pc PROVE Bound'
    BY <2>1, <2>4 DEF Under, Active
  <2> QED
    BY <2>2, <2>3, <2>4 DEF Next, Finished, SessionExpires, vars
<1> QED
  BY <1>1, <1>2, AccountsControl, PTL DEF Spec

\* In particular where at most two requests run at once at all, as in the run.
THEOREM LogoutsStickInPairs == ASSUME MaxConcurrent <= 2 PROVE Spec => []LogoutSticks
<1>1. Cardinality(Under) <= MaxConcurrent => TwoPerBrowser
  <2> SUFFICES ASSUME Cardinality(Under) <= MaxConcurrent, NEW x \in Under, NEW y \in Under, NEW z \in Under,
                      x # y, y # z, x # z
               PROVE  FALSE
    BY DEF TwoPerBrowser, Under
  <2>1. IsFiniteSet(Under) /\ Cardinality(Under) \in Nat
    BY RequestBound, FS_Subset, FS_CardinalityType DEF Under
  <2>2. IsFiniteSet({}) /\ Cardinality({}) = 0
    BY FS_EmptySet
  <2>3. IsFiniteSet({} \cup {x}) /\ Cardinality({} \cup {x}) = 1
    BY <2>2, FS_AddElement
  <2>4. IsFiniteSet({} \cup {x} \cup {y}) /\ Cardinality({} \cup {x} \cup {y}) = 2
    BY <2>3, FS_AddElement
  <2>5. Cardinality({} \cup {x} \cup {y} \cup {z}) = 3
    BY <2>4, FS_AddElement
  <2>6. Cardinality({} \cup {x} \cup {y} \cup {z}) <= Cardinality(Under)
    BY <2>1, FS_Subset
  <2> QED
    BY <2>1, <2>5, <2>6, RequestBound
<1> QED
  BY <1>1, LogoutsStick, UnderBound, PTL
=============================================================================
