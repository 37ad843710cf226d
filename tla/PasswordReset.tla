---------------------------- MODULE PasswordReset ----------------------------
(***************************************************************************)
(* Forgotten passwords: AuthController::sendResetLinkEmail, the admins'    *)
(* PasswordResetRequestController and the two operations of                *)
(* Admin\UserController that meet them, regeneratePassword and destroy,    *)
(* run by concurrent requests.                                             *)
(*                                                                         *)
(* approve and decline check the status of the row that route binding      *)
(* loaded and then write inside a transaction; the other handlers issue    *)
(* statements of their own.  The database (external) is InnoDB: a write    *)
(* waits for its row and a transaction keeps it to its end; a statement    *)
(* that makes a row refer to a user shares that user's row with others     *)
(* that do, and with no one who writes it; a cycle of waiting statements   *)
(* loses one.  A random password is named by the request that generates    *)
(* it.                                                                     *)
(***************************************************************************)
EXTENDS Naturals, FiniteSets

CONSTANTS
    Requests,       \* HTTP requests; each runs once
    Inputs,         \* what a request may ask for, a set of records IsInput admits
    MaxConcurrent,  \* bound: requests that may be under way at once
    Members,        \* users who are not admins
    Admins,         \* users whose role is admin
    ResetIds,       \* bound: ids of password_reset_requests rows
    Initial,        \* the passwords that users start with
    Gone,           \* the password of a user whose row was deleted
    NoReset,        \* no such password_reset_requests row
    Null,           \* SQL NULL
    Nobody          \* the owner of a row that nobody has locked

VARIABLES
    users,      \* the password of each row of users
    resets,     \* password_reset_requests, by id
    nextId,     \* its AUTO_INCREMENT
    notices,    \* notifications of type password_reset
    met,        \* history: <<x, r>> when x was under way as r began and contends with it
    userLock,   \* the request that writes, or wrote, each row of users
    userRefs,   \* the requests whose transactions refer to it: they share it
    resetLock,  \* the request that holds each reset row
    pc,         \* the statement each request is about to run
    input,      \* what the request asks for
    todo        \* the admins whom a forgot-password request has yet to notify

tables == <<users, resets, nextId, notices>>
locks  == <<userLock, userRefs, resetLock>>
frames == <<input, todo>>
vars   == <<tables, met, locks, pc, frames>>

Everyone == Members \cup Admins
Passwords == Requests \cup {Initial}

\* token is a fresh uuid: the request that created the row.
ResetRow == [user : Everyone, token : Requests, temp : Passwords \cup {Null},
             status : {"pending", "approved", "declined"}, by : Admins \cup {Null}]

Notice == [to : Everyone, from : Requests, kind : {"requested", "approved", "declined"}]

IsInput(i) ==
    \/ i.op = "forgot" /\ i.user \in Everyone
    \/ i.op \in {"approve", "decline"} /\ i.id \in ResetIds /\ i.by \in Admins
    \/ i.op = "regenerate" /\ i.user \in Everyone
    \/ i.op = "destroy" /\ i.user \in Everyone /\ i.by \in Admins

NoInput == [op |-> "none"]

\* Both ask for a reset of one user, or both decide one row.
Contend(i, j) ==
    \/ i.op = "forgot" /\ j.op = "forgot" /\ i.user = j.user
    \/ i.op \in {"approve", "decline"} /\ j.op \in {"approve", "decline"} /\ i.id = j.id

ASSUME ResetInputs == \A i \in Inputs : IsInput(i)
ASSUME ResetIdsNat == ResetIds \subseteq Nat
ASSUME RolesDisjoint == Members \cap Admins = {}
ASSUME ResetNames ==
    /\ Nobody \notin Requests /\ Initial \notin Requests /\ Gone \notin Passwords
    /\ Null \notin Passwords \cup Admins /\ NoReset \notin ResetRow

Labels == {"idle", "find", "pending", "create", "pluck", "notify", "bind", "loaduser",
           "setpw", "setrow", "approver", "notice", "commit", "refresh", "binduser",
           "regenerate", "delete", "cascade", "done", "error"}

Over(r)   == pc[r] \in {"done", "error"}
Active(r) == pc[r] # "idle" /\ ~Over(r)
Exists(u) == users[u] # Gone
IsReset(id) == resets[id] # NoReset
Pending(id) == IsReset(id) /\ resets[id].status = "pending"

Init ==
    /\ users = [u \in Everyone |-> Initial]
    /\ resets = [id \in ResetIds |-> NoReset]
    /\ nextId = 1
    /\ notices = {}
    /\ met = {}
    /\ userLock = [u \in Everyone |-> Nobody]
    /\ userRefs = [u \in Everyone |-> {}]
    /\ resetLock = [id \in ResetIds |-> Nobody]
    /\ pc = [r \in Requests |-> "idle"]
    /\ input = [r \in Requests |-> NoInput]
    /\ todo = [r \in Requests |-> {}]

-----------------------------------------------------------------------------
Goto(r, label) == pc' = [pc EXCEPT ![r] = label]

\* No one writes the user's row or refers to it: it may be written.
Free(u) == userLock[u] = Nobody /\ userRefs[u] = {}

\* End of a transaction, or of a request with all it holds.
Release(r) ==
    /\ userLock' = [u \in Everyone |-> IF userLock[u] = r THEN Nobody ELSE userLock[u]]
    /\ userRefs' = [u \in Everyone |-> userRefs[u] \ {r}]
    /\ resetLock' = [id \in ResetIds |-> IF resetLock[id] = r THEN Nobody ELSE resetLock[id]]

\* An exception: the transaction is rolled back, the response is an error page.
Fail(r) ==
    /\ Goto(r, "error") /\ Release(r)
    /\ UNCHANGED <<tables, met, frames>>

Start(r) ==
    /\ pc[r] = "idle"
    /\ Cardinality({x \in Requests : Active(x)}) < MaxConcurrent
    /\ \E i \in Inputs :
        /\ input' = [input EXCEPT ![r] = i]
        /\ met' = met \cup {<<x, r>> : x \in {y \in Requests : Active(y) /\ Contend(input[y], i)}}
        /\ Goto(r, IF i.op = "forgot" THEN "find"
                   ELSE IF i.op \in {"approve", "decline"} THEN "bind"
                   ELSE "binduser")
    /\ UNCHANGED <<tables, locks, todo>>

(***************************************************************************)
(* sendResetLinkEmail, a statement at a time and without a transaction     *)
(***************************************************************************)
FindUser(r) ==
    /\ pc[r] = "find"
    /\ Goto(r, IF Exists(input[r].user) /\ input[r].user \notin Admins THEN "pending" ELSE "done")
    /\ UNCHANGED <<tables, met, locks, frames>>

CheckPendingNever(r) ==              \* mutant: no look for a pending request
    /\ pc[r] = "pending"
    /\ Goto(r, "create")
    /\ UNCHANGED <<tables, met, locks, frames>>
CheckPending(r) ==
    /\ pc[r] = "pending"
    /\ Goto(r, IF \E id \in ResetIds : Pending(id) /\ resets[id].user = input[r].user
               THEN "done" ELSE "create")
    /\ UNCHANGED <<tables, met, locks, frames>>

CreateReset(r) ==
    /\ pc[r] = "create"
    /\ userLock[input[r].user] = Nobody
    /\ IF Exists(input[r].user)
       THEN /\ nextId \in ResetIds
            /\ resets' = [resets EXCEPT ![nextId] =
                   [user |-> input[r].user, token |-> r, temp |-> Null,
                    status |-> "pending", by |-> Null]]
            /\ nextId' = nextId + 1
            /\ Goto(r, "pluck")
            /\ UNCHANGED <<users, notices, met, locks, frames>>
       ELSE Fail(r)

PluckAdmins(r) ==
    /\ pc[r] = "pluck"
    /\ todo' = [todo EXCEPT ![r] = {a \in Admins : Exists(a)}]
    /\ Goto(r, "notify")
    /\ UNCHANGED <<tables, met, locks, input>>

NotifyAdminOnce(r) ==                \* mutant: no loop over the admins
    /\ pc[r] = "notify"
    /\ \E a \in todo[r] :
          /\ userLock[a] = Nobody
          /\ notices' = notices \cup {[to |-> a, from |-> r, kind |-> "requested"]}
          /\ Goto(r, "done")
          /\ UNCHANGED <<users, resets, nextId, met, locks, frames>>
NotifyAdmin(r) ==
    /\ pc[r] = "notify"
    /\ \/ /\ todo[r] = {}
          /\ Goto(r, "done")
          /\ UNCHANGED <<tables, met, locks, frames>>
       \/ \E a \in todo[r] :
             /\ userLock[a] = Nobody
             /\ IF Exists(a)
                THEN /\ notices' = notices \cup {[to |-> a, from |-> r, kind |-> "requested"]}
                     /\ todo' = [todo EXCEPT ![r] = @ \ {a}]
                     /\ UNCHANGED <<users, resets, nextId, met, locks, pc, input>>
                ELSE Fail(r)

-----------------------------------------------------------------------------
(***************************************************************************)
(* approve and decline                                                     *)
(***************************************************************************)
\* Route binding loads the row (404 without one); the status check is on it.
BindResetUnchecked(r) ==             \* mutant: no status check
    /\ pc[r] = "bind"
    /\ Goto(r, IF ~IsReset(input[r].id) \/ ~Exists(input[r].by) THEN "error"
               ELSE IF input[r].op = "approve" THEN "loaduser" ELSE "setrow")
    /\ UNCHANGED <<tables, met, locks, frames>>
BindReset(r) ==
    /\ pc[r] = "bind"
    /\ Goto(r, IF ~IsReset(input[r].id) \/ ~Exists(input[r].by) THEN "error"
               ELSE IF ~Pending(input[r].id) THEN "done"
               ELSE IF input[r].op = "approve" THEN "loaduser" ELSE "setrow")
    /\ UNCHANGED <<tables, met, locks, frames>>

\* The user whom the row was bound to; rows go with their user, ids are not reused.
UserOf(r) == resets[input[r].id].user

\* approve: $passwordResetRequest->user is null once the user is deleted.
LoadUser(r) ==
    /\ pc[r] = "loaduser"
    /\ IF IsReset(input[r].id)
       THEN Goto(r, "setpw") /\ UNCHANGED <<tables, met, locks, frames>>
       ELSE Fail(r)

\* The UPDATE of users; it matches no row once the user is deleted.
SetPassword(r) ==
    /\ pc[r] = "setpw"
    /\ IF IsReset(input[r].id)
       THEN /\ Free(UserOf(r))
            /\ userLock' = [userLock EXCEPT ![UserOf(r)] = r]
       ELSE UNCHANGED userLock
    /\ Goto(r, "setrow")
    /\ UNCHANGED <<tables, met, userRefs, resetLock, frames>>

\* The UPDATE of the reset row; one that changes approved_by has yet to refer to
\* the admin.
SetStatus(r) ==
    /\ pc[r] = "setrow"
    /\ IF ~IsReset(input[r].id)
       THEN Goto(r, "notice") /\ UNCHANGED resetLock
       ELSE /\ resetLock[input[r].id] = Nobody
            /\ resetLock' = [resetLock EXCEPT ![input[r].id] = r]
            /\ Goto(r, IF input[r].op = "approve" /\ resets[input[r].id].by # input[r].by
                       THEN "approver" ELSE "notice")
    /\ UNCHANGED <<tables, met, userLock, userRefs, frames>>

\* The same UPDATE, once it has the row: the foreign key of approved_by.
ReferApprover(r) ==
    /\ pc[r] = "approver"
    /\ userLock[input[r].by] \in {r, Nobody}
    /\ IF Exists(input[r].by)
       THEN /\ userRefs' = [userRefs EXCEPT ![input[r].by] = @ \cup {r}]
            /\ Goto(r, "notice")
            /\ UNCHANGED <<tables, met, userLock, resetLock, frames>>
       ELSE Fail(r)

\* Notification::create for the user, whose row it refers to.
InsertNotice(r) ==
    /\ pc[r] = "notice"
    /\ IF IsReset(input[r].id)
       THEN /\ userLock[UserOf(r)] \in {r, Nobody}
            /\ userRefs' = [userRefs EXCEPT ![UserOf(r)] = @ \cup {r}]
            /\ Goto(r, "commit")
            /\ UNCHANGED <<tables, met, userLock, resetLock, frames>>
       ELSE Fail(r)

DecidedRowOnce(r, row) ==            \* mutant: keeps a temporary password it has
    IF input[r].op = "approve"
    THEN [row EXCEPT !.status = "approved", !.by = input[r].by,
                     !.temp = IF @ = Null THEN r ELSE @]
    ELSE [row EXCEPT !.status = "declined"]
DecidedRowRejected(r, row) ==        \* mutant: a status the enum lacks
    IF input[r].op = "approve"
    THEN [row EXCEPT !.status = "approved", !.by = input[r].by, !.temp = r]
    ELSE [row EXCEPT !.status = "rejected"]
DecidedRow(r, row) ==
    IF input[r].op = "approve"
    THEN [row EXCEPT !.status = "approved", !.by = input[r].by, !.temp = r]
    ELSE [row EXCEPT !.status = "declined"]

NoticeOfUnread(r) == {}              \* mutant: the user is not told
NoticeOf(r) ==
    {[to |-> UserOf(r), from |-> r,
      kind |-> IF input[r].op = "approve" THEN "approved" ELSE "declined"]}

Commit(r) ==
    /\ pc[r] = "commit"
    /\ users' = IF input[r].op = "approve" THEN [users EXCEPT ![UserOf(r)] = r] ELSE users
    /\ resets' = [resets EXCEPT ![input[r].id] = DecidedRow(r, resets[input[r].id])]
    /\ notices' = notices \cup NoticeOf(r)
    /\ Release(r)
    /\ Goto(r, IF input[r].op = "approve" THEN "refresh" ELSE "done")
    /\ UNCHANGED <<nextId, met, frames>>

\* approve, after its transaction: refresh() fails without a row; the response
\* shows the password that this request generated.
Refresh(r) ==
    /\ pc[r] = "refresh"
    /\ IF IsReset(input[r].id)
       THEN Goto(r, "done") ELSE Goto(r, "error")
    /\ UNCHANGED <<tables, met, locks, frames>>

-----------------------------------------------------------------------------
(***************************************************************************)
(* Admin\UserController::regeneratePassword and destroy                    *)
(***************************************************************************)
BindUser(r) ==
    /\ pc[r] = "binduser"
    /\ Goto(r, IF ~Exists(input[r].user) THEN "error"
               ELSE IF input[r].op = "regenerate" THEN "regenerate"
               ELSE IF input[r].by = input[r].user THEN "done" ELSE "delete")
    /\ UNCHANGED <<tables, met, locks, frames>>

RegeneratePassword(r) ==
    /\ pc[r] = "regenerate"
    /\ Free(input[r].user)
    /\ users' = IF Exists(input[r].user) THEN [users EXCEPT ![input[r].user] = r] ELSE users
    /\ Goto(r, "done")
    /\ UNCHANGED <<resets, nextId, notices, met, locks, frames>>

\* DELETE of a user: first its own row, then those that refer to it.  Reset rows
\* of the user go with it, rows that the user approved forget by whom; a
\* notification of the user's forbids it.
DeleteUser(r) ==
    /\ pc[r] = "delete"
    /\ Free(input[r].user)
    /\ IF Exists(input[r].user)
       THEN userLock' = [userLock EXCEPT ![input[r].user] = r] /\ Goto(r, "cascade")
       ELSE Goto(r, "done") /\ UNCHANGED userLock
    /\ UNCHANGED <<tables, met, userRefs, resetLock, frames>>

ResetsOf(u) == {id \in ResetIds : IsReset(id) /\ resets[id].user = u}
ApprovedBy(u) == {id \in ResetIds : IsReset(id) /\ resets[id].by = u}

CascadeDelete(r) ==
    /\ pc[r] = "cascade"
    /\ \A id \in ResetsOf(input[r].user) \cup ApprovedBy(input[r].user) : resetLock[id] = Nobody
    /\ IF \E n \in notices : n.to = input[r].user
       THEN Fail(r)
       ELSE /\ users' = [users EXCEPT ![input[r].user] = Gone]
            /\ resets' = [id \in ResetIds |->
                   IF id \in ResetsOf(input[r].user) THEN NoReset
                   ELSE IF id \in ApprovedBy(input[r].user) THEN [resets[id] EXCEPT !.by = Null]
                   ELSE resets[id]]
            /\ Goto(r, "done") /\ Release(r)
            /\ UNCHANGED <<nextId, notices, met, frames>>

-----------------------------------------------------------------------------
(***************************************************************************)
(* Failures (external)                                                     *)
(***************************************************************************)
\* The rows of users that the statement refers to, or writes, and the reset rows
\* that it writes.
ReferredBy(r) == {u \in Everyone :
    \/ pc[r] = "create" /\ u = input[r].user
    \/ pc[r] = "approver" /\ u = input[r].by
    \/ pc[r] = "notice" /\ IsReset(input[r].id) /\ u = UserOf(r)}
WrittenBy(r) == {u \in Everyone :
    \/ pc[r] = "setpw" /\ IsReset(input[r].id) /\ u = UserOf(r)
    \/ pc[r] \in {"regenerate", "delete"} /\ u = input[r].user}
RowsOf(r) == {id \in ResetIds :
    \/ pc[r] = "setrow" /\ IsReset(id) /\ id = input[r].id
    \/ pc[r] = "cascade" /\ id \in ResetsOf(input[r].user) \cup ApprovedBy(input[r].user)}

WaitsFor(r) ==
    ({userLock[u] : u \in ReferredBy(r) \cup WrittenBy(r)}
     \cup UNION {userRefs[u] : u \in WrittenBy(r)}
     \cup {resetLock[id] : id \in RowsOf(r)}) \ {r, Nobody}

\* The requests of S wait for one another in a circle.
CycleUnseen(S) == FALSE              \* mutant: no deadlock detection
Cycle(S) ==
    \E next \in [S -> S] :
        /\ \A x \in S : next[x] \in WaitsFor(x)
        /\ \A x \in S : \E y \in S : next[y] = x

DeadlockVictim(r) ==
    /\ \E S \in SUBSET {x \in Requests : WaitsFor(x) # {}} : r \in S /\ Cycle(S)
    /\ Fail(r)

Crash(r) == Active(r) /\ Fail(r)

Step(r) ==
    \/ FindUser(r) \/ CheckPending(r) \/ CreateReset(r) \/ PluckAdmins(r) \/ NotifyAdmin(r)
    \/ BindReset(r) \/ LoadUser(r) \/ SetPassword(r) \/ SetStatus(r) \/ ReferApprover(r)
    \/ InsertNotice(r) \/ Commit(r) \/ Refresh(r)
    \/ BindUser(r) \/ RegeneratePassword(r) \/ DeleteUser(r) \/ CascadeDelete(r)
    \/ DeadlockVictim(r)

Finished == (\A r \in Requests : Over(r)) /\ UNCHANGED vars

Next == (\E r \in Requests : Start(r) \/ Step(r) \/ Crash(r)) \/ Finished

Spec == Init /\ [][Next]_vars

\* PHP runs a request it has begun to its end, and InnoDB grants a row's lock
\* to those that wait for it.
FairSpec == Spec /\ \A r \in Requests : WF_vars(Step(r))

-----------------------------------------------------------------------------
(***************************************************************************)
(* Properties                                                              *)
(***************************************************************************)
\* Tables, locks and locals have the types of the schema and the handlers.
TypeOK ==
    /\ users \in [Everyone -> Passwords \cup {Gone}]
    /\ resets \in [ResetIds -> ResetRow \cup {NoReset}]
    /\ nextId \in Nat
    /\ notices \subseteq Notice
    /\ met \subseteq Requests \X Requests
    /\ userLock \in [Everyone -> Requests \cup {Nobody}]
    /\ userRefs \in [Everyone -> SUBSET Requests]
    /\ resetLock \in [ResetIds -> Requests \cup {Nobody}]
    /\ pc \in [Requests -> Labels]
    /\ input \in [Requests -> Inputs \cup {NoInput}]
    /\ todo \in [Requests -> SUBSET Admins]

\* A decided request has told its user so: the decision and the notification are
\* one transaction, whoever else decides at the same time.
DecisionIsNotified ==
    \A id \in ResetIds : IsReset(id) /\ ~Pending(id) =>
        \E n \in notices : n.to = resets[id].user /\ n.kind = resets[id].status

\* The two requests were under way at the same time.
Met(r, x) == <<r, x>> \in met \/ <<x, r>> \in met

\* The request decided a reset row: its transaction committed.
Decided(r) == \E n \in notices : n.from = r /\ n.kind # "requested"

\* show(): the admins may read the password of an approved request, and of no other.
ShownPassword(id) == IF resets[id].status = "approved" THEN resets[id].temp ELSE Null

\* While a user still has the password that an approval gave, the page of that
\* very request shows it to the admins ("temporary password if approved"), however
\* approvals, declines, regenerations, deletions and crashes interleave.  Exempt
\* is an approval that a decline overlapped and overwrote: then the row keeps the
\* password, but as a declined request that no page shows it for.
ApprovedPasswordIsShown ==
    \A u \in Everyone : users[u] \in Requests /\ input[users[u]].op = "approve" =>
        LET id == input[users[u]].id
        IN  /\ IsReset(id) /\ resets[id].user = u /\ resets[id].temp = users[u]
            /\ \/ ShownPassword(id) = users[u]
               \/ \E x \in Requests : /\ input[x].op = "decline" /\ input[x].id = id
                                      /\ Decided(x) /\ Met(users[u], x)

\* "This password reset request has already been processed.": a decision stands.
\* The check is on the row as route binding loaded it, so it only misses what was
\* under way then: of two decisions of a row, neither began after the other ended.
DecidedOnce ==
    \A r, x \in Requests : r # x /\ Decided(r) /\ Decided(x) /\ input[r].id = input[x].id
        => Met(r, x)

\* "A password reset request is already awaiting approval.": one at a time, but
\* for requests that looked for a pending row before either had created its own.
OnePendingPerUser ==
    \A id, x \in ResetIds :
        id # x /\ Pending(id) /\ Pending(x) /\ resets[id].user = resets[x].user
        => Met(resets[id].token, resets[x].token)

\* "All admins receive notifications when requests are made": a request that told
\* its user it is "submitted" has a notification for every admin who is still
\* there, although it creates the row and the notifications one by one and admins
\* come to be deleted meanwhile.
AllAdminsNotified ==
    \A id \in ResetIds : IsReset(id) /\ pc[resets[id].token] = "done" =>
        \A a \in Admins : Exists(a) => \E n \in notices : n.to = a /\ n.from = resets[id].token

\* A request that was begun ends, although approve locks the user before the
\* reset row and decline and destroy lock them in other orders.
RequestsEnd == \A r \in Requests : Active(r) ~> Over(r)
=============================================================================
