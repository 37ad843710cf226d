------------------------------ MODULE WebSession ------------------------------
(***************************************************************************)
(* Browsers, cookies and the framework's sessions (external: the database  *)
(* driver that config/session.php selects), as the application uses them.  *)
(*                                                                         *)
(* A request reads the whole payload of its session when it is opened and  *)
(* writes the whole payload back when it is answered, also when the answer *)
(* is an error page; nothing locks a session in between, so the last       *)
(* answer wins.  Every answer hands its session id to the browser.  A row  *)
(* that was there when the session was opened is written back with an      *)
(* UPDATE, which does nothing once the row is destroyed.                   *)
(***************************************************************************)
CONSTANTS
    Requests,       \* HTTP requests; each runs once
    Browsers,       \* who sends them
    FirstSids,      \* ids of the sessions that exist at the start
    NoSession,      \* no row of sessions with that id
    Null            \* no cookie, no value

VARIABLES
    sessions,   \* the sessions table: the payload stored under each id
    cookie,     \* the session id that each browser sends
    remember,   \* the user whom each browser's valid remember-me cookie names
    http        \* what each request holds of its session: [sid, existed, data]

web == <<sessions, cookie, remember, http>>

\* A generated id is named by the request that generates it.
Sids == Requests \cup FirstSids

\* start(): a browser without a cookie gets a new id, one whose row is gone keeps it.
SidFor(r, b) == IF cookie[b] = Null THEN r ELSE cookie[b]
Stored(s, empty) == IF sessions[s] = NoSession THEN empty ELSE sessions[s]

Opened(r, b, empty) ==
    [sid |-> SidFor(r, b), existed |-> sessions[SidFor(r, b)] # NoSession,
     data |-> Stored(SidFor(r, b), empty)]

\* put() and forget() change what the request holds; others see it when it is saved.
Put(r, data) == http' = [http EXCEPT ![r].data = data]

\* migrate(true): the row is deleted at once, the payload moves to a new id.
Migrate(r, data) ==
    /\ sessions' = [sessions EXCEPT ![http[r].sid] = NoSession]
    /\ http' = [http EXCEPT ![r] = [sid |-> r, existed |-> FALSE, data |-> data]]

\* save() and the cookie of the answer.
SaveSession(r, b) ==
    /\ sessions' = IF http[r].existed /\ sessions[http[r].sid] = NoSession THEN sessions
                   ELSE [sessions EXCEPT ![http[r].sid] = http[r].data]
    /\ cookie' = [cookie EXCEPT ![b] = http[r].sid]

\* logout(): the user's token changes, which ends every cookie that names the user.
ForgetRemembered(u) ==
    remember' = [b \in Browsers |-> IF remember[b] = u THEN Null ELSE remember[b]]

\* The session and its cookie reach the end of their lifetime; remember-me lasts.
ExpireSession(b) ==
    /\ cookie[b] # Null
    /\ sessions' = [sessions EXCEPT ![cookie[b]] = NoSession]
    /\ cookie' = [cookie EXCEPT ![b] = Null]
    /\ UNCHANGED <<remember, http>>
=============================================================================
