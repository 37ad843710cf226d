------------------------- MODULE PasswordResetProofs -------------------------
(***************************************************************************)
(* Proofs about PasswordReset, for every number of users, admins, requests *)
(* and reset rows.                                                         *)
(***************************************************************************)
EXTENDS PasswordReset, TLAPS

-----------------------------------------------------------------------------
(***************************************************************************)
(* The inductive invariant                                                 *)
(***************************************************************************)
Deciding == {"loaduser", "setpw", "setrow", "approver", "notice", "commit"}

\* Which handler a request is in.
ControlOK(r) ==
    /\ pc[r] = "idle" \/ input[r] \in Inputs
    /\ pc[r] \in {"find", "pending", "create", "pluck", "notify"} => input[r].op = "forgot"
    /\ pc[r] = "bind" \/ pc[r] \in Deciding => input[r].op \in {"approve", "decline"}
    /\ pc[r] \in {"loaduser", "setpw", "approver", "refresh"} => input[r].op = "approve"
    /\ pc[r] = "binduser" => input[r].op \in {"regenerate", "destroy"}
    /\ pc[r] = "regenerate" => input[r].op = "regenerate"
    /\ pc[r] \in {"delete", "cascade"} => input[r].op = "destroy"

\* A decision is about a row that was there once: when the row is gone no other
\* row takes its id, and when it is there the transaction holds it.
HoldsOK(r) ==
    /\ pc[r] \in Deciding => input[r].id < nextId
    /\ pc[r] = "notice" /\ IsReset(input[r].id) => resetLock[input[r].id] = r
    /\ pc[r] \in {"approver", "commit"} => IsReset(input[r].id) /\ resetLock[input[r].id] = r

\* Ids are handed out in order.
FreshIds == \A id \in ResetIds : IsReset(id) => id < nextId

\* A password is the work of a request that has begun.
UsedPasswords == \A u \in Everyone : users[u] \in Requests => pc[users[u]] # "idle"

\* A password that an approval set is in the reset row that it decided.
OnFile(u, id) ==
    /\ id \in ResetIds /\ IsReset(id)
    /\ resets[id].user = u /\ resets[id].temp = users[u] /\ resets[id].status # "pending"

PasswordsOnFile ==
    \A u \in Everyone : users[u] \in Requests /\ input[users[u]].op = "approve"
        => OnFile(u, input[users[u]].id)

IInv ==
    /\ TypeOK
    /\ FreshIds
    /\ UsedPasswords
    /\ PasswordsOnFile
    /\ DecisionIsNotified
    /\ \A r \in Requests : ControlOK(r) /\ HoldsOK(r)

-----------------------------------------------------------------------------
\* What the inputs of each handler hold.
LEMMA InputFields ==
    ASSUME NEW i \in Inputs
    PROVE  /\ i.op \in {"forgot", "regenerate", "destroy"} => i.user \in Everyone
           /\ i.op \in {"approve", "decline"} => i.id \in ResetIds /\ i.by \in Admins
           /\ i.op \in {"forgot", "approve", "decline", "regenerate", "destroy"}
  BY ResetInputs DEF IsInput

LEMMA InitInv == Init => IInv
<1> SUFFICES ASSUME Init PROVE IInv
  OBVIOUS
<1>1. TypeOK
  BY DEF Init, TypeOK, Passwords, Labels
<1>2. FreshIds /\ DecisionIsNotified
  BY DEF Init, FreshIds, DecisionIsNotified, IsReset
<1>3. UsedPasswords /\ PasswordsOnFile
  BY ResetNames DEF Init, UsedPasswords, PasswordsOnFile
<1>4. \A r \in Requests : ControlOK(r) /\ HoldsOK(r)
  BY DEF Init, ControlOK, HoldsOK, Deciding
<1> QED
  BY <1>1, <1>2, <1>3, <1>4 DEF IInv

-----------------------------------------------------------------------------
(***************************************************************************)
(* Steps that leave the tables alone                                       *)
(***************************************************************************)
\* One request moves on, and locks at most rows that nobody holds, or releases
\* what it holds: the tables stay, and so does all that is said of them.
LEMMA QuietStep ==
    ASSUME IInv, TypeOK', NEW r \in Requests, UNCHANGED <<tables, input>>,
           \A s \in Requests \ {r} : pc'[s] = pc[s],
           \A id \in ResetIds : \A s \in Requests \ {r} :
               resetLock[id] = s => resetLock'[id] = s,
           pc'[r] # "idle", ControlOK(r)', HoldsOK(r)'
    PROVE  IInv'
<1>1. FreshIds' /\ DecisionIsNotified'
  BY DEF IInv, FreshIds, DecisionIsNotified, IsReset, Pending, tables
<1>2. UsedPasswords'
  BY DEF IInv, UsedPasswords, tables
<1>3. PasswordsOnFile'
  BY DEF IInv, PasswordsOnFile, OnFile, IsReset, tables
<1>4. ASSUME NEW s \in Requests \ {r} PROVE ControlOK(s)' /\ HoldsOK(s)'
  <2>1. ControlOK(s) /\ HoldsOK(s) /\ pc'[s] = pc[s]
    BY DEF IInv
  <2>2. ControlOK(s)'
    BY <2>1 DEF ControlOK
  <2>3. pc[s] \in Deciding => input[s].id \in ResetIds
    BY <2>1, InputFields DEF ControlOK, Deciding
  <2>4. HoldsOK(s)'
    BY <2>1, <2>3 DEF HoldsOK, IsReset, Deciding, tables
  <2> QED
    BY <2>2, <2>4
<1> QED
  BY <1>1, <1>2, <1>3, <1>4 DEF IInv

\* A step of a request through statements that only read, or that fail.
LEMMA MoveStep ==
    ASSUME IInv, NEW r \in Requests, UNCHANGED <<tables, met, locks, input>>,
           NEW label \in Labels, Goto(r, label), label # "idle",
           todo' \in [Requests -> SUBSET Admins],
           ControlOK(r)', HoldsOK(r)'
    PROVE  IInv'
<1>1. TypeOK'
  BY DEF IInv, TypeOK, Goto, tables, locks
<1>2. \A s \in Requests : pc'[s] = IF s = r THEN label ELSE pc[s]
  BY DEF IInv, TypeOK, Goto
<1> QED
  BY <1>1, <1>2, QuietStep DEF locks

LEMMA ReleaseType ==
    ASSUME TypeOK, NEW r \in Requests, Release(r)
    PROVE  /\ userLock' \in [Everyone -> Requests \cup {Nobody}]
           /\ userRefs' \in [Everyone -> SUBSET Requests]
           /\ resetLock' \in [ResetIds -> Requests \cup {Nobody}]
  BY DEF TypeOK, Release

\* An exception or the end of the process: a rollback.
LEMMA FailStep ==
    ASSUME IInv, NEW r \in Requests, Active(r), Fail(r) \/ Crash(r) PROVE IInv'
<1>1. /\ Release(r) /\ UNCHANGED <<tables, met, frames>>
      /\ \A s \in Requests \ {r} : pc'[s] = pc[s]
      /\ pc'[r] \in {"error"}
  BY DEF Fail, Crash, Goto, IInv, TypeOK
<1>2. TypeOK'
  BY <1>1, ReleaseType DEF Fail, Crash, Goto, IInv, TypeOK, Labels, tables, frames
<1>3. input[r] \in Inputs
  BY DEF Active, IInv, ControlOK
<1>4. ControlOK(r)' /\ HoldsOK(r)'
  BY <1>1, <1>3 DEF ControlOK, HoldsOK, Deciding, frames
<1>5. \A id \in ResetIds : \A s \in Requests \ {r} :
         resetLock[id] = s => resetLock'[id] = s
  BY <1>1 DEF Release
<1> QED
  BY <1>1, <1>2, <1>4, <1>5, QuietStep DEF frames

LEMMA VictimIsActive ==
    ASSUME NEW r, DeadlockVictim(r) PROVE Active(r)
<1>1. WaitsFor(r) # {}
  BY DEF DeadlockVictim
<1>2. pc[r] \in {"setpw", "setrow", "approver", "notice", "create", "regenerate", "delete",
                "cascade"}
  BY <1>1 DEF WaitsFor, ReferredBy, WrittenBy, RowsOf
<1> QED
  BY <1>2 DEF Active, Over

LEMMA StartStep ==
    ASSUME IInv, NEW r \in Requests, Start(r) PROVE IInv'
<1>1. PICK i \in Inputs :
         /\ input' = [input EXCEPT ![r] = i]
         /\ met' = met \cup {<<x, r>> : x \in {y \in Requests : Active(y) /\ Contend(input[y], i)}}
         /\ Goto(r, IF i.op = "forgot" THEN "find"
                    ELSE IF i.op \in {"approve", "decline"} THEN "bind"
                    ELSE "binduser")
  BY DEF Start
<1>2. pc[r] = "idle" /\ UNCHANGED <<tables, locks, todo>>
  BY DEF Start
<1>3. /\ \A s \in Requests \ {r} : pc'[s] = pc[s] /\ input'[s] = input[s]
      /\ input'[r] = i
      /\ pc'[r] = IF i.op = "forgot" THEN "find"
                  ELSE IF i.op \in {"approve", "decline"} THEN "bind"
                  ELSE "binduser"
  BY <1>1 DEF Goto, IInv, TypeOK
<1>4. TypeOK'
  BY <1>1, <1>2 DEF IInv, TypeOK, Goto, Labels, tables, locks
<1>5. ControlOK(r)' /\ HoldsOK(r)'
  BY <1>3, InputFields DEF ControlOK, HoldsOK, Deciding
<1>6. FreshIds' /\ DecisionIsNotified'
  BY <1>2 DEF IInv, FreshIds, DecisionIsNotified, IsReset, Pending, tables
<1>7. \A u \in Everyone : users[u] # r
  BY <1>2 DEF IInv, UsedPasswords
<1>8. UsedPasswords'
  BY <1>2, <1>3, <1>7 DEF IInv, UsedPasswords, tables
<1>9. PasswordsOnFile'
  <2>1. \A u \in Everyone : users[u] \in Requests => input'[users[u]] = input[users[u]]
    BY <1>3, <1>7
  <2> QED
    BY <1>2, <2>1 DEF IInv, PasswordsOnFile, OnFile, IsReset, tables
<1>10. ASSUME NEW s \in Requests \ {r} PROVE ControlOK(s)' /\ HoldsOK(s)'
  BY <1>2, <1>3 DEF IInv, ControlOK, HoldsOK, IsReset, tables, locks
<1> QED
  BY <1>4, <1>5, <1>6, <1>8, <1>9, <1>10 DEF IInv

\* The handlers' steps that read and branch.
LEMMA ReadingStep ==
    ASSUME IInv, NEW r \in Requests,
           \/ FindUser(r) \/ CheckPending(r) \/ PluckAdmins(r) \/ BindReset(r) \/ Refresh(r)
           \/ BindUser(r)
           \/ (NotifyAdmin(r) /\ todo[r] = {})
           \/ (LoadUser(r) /\ ~Fail(r))
    PROVE  IInv'
<1>1. ControlOK(r) /\ HoldsOK(r)
  BY DEF IInv
<1>2. CASE FindUser(r)
  <2>1. PICK label \in {"pending", "done"} : Goto(r, label)
    BY <1>2 DEF FindUser
  <2>2. pc'[r] = label
    BY <2>1 DEF Goto, IInv, TypeOK
  <2> QED
    BY <1>1, <1>2, <2>1, <2>2, MoveStep
       DEF FindUser, ControlOK, HoldsOK, Deciding, Labels, IInv, TypeOK, frames
<1>3. CASE CheckPending(r)
  <2>1. PICK label \in {"create", "done"} : Goto(r, label)
    BY <1>3 DEF CheckPending
  <2>2. pc'[r] = label
    BY <2>1 DEF Goto, IInv, TypeOK
  <2> QED
    BY <1>1, <1>3, <2>1, <2>2, MoveStep
       DEF CheckPending, ControlOK, HoldsOK, Deciding, Labels, IInv, TypeOK, frames
<1>4. CASE PluckAdmins(r)
  <2>1. pc'[r] = "notify" /\ todo' \in [Requests -> SUBSET Admins]
    BY <1>4 DEF PluckAdmins, Goto, IInv, TypeOK
  <2> QED
    BY <1>1, <1>4, <2>1, MoveStep
       DEF PluckAdmins, ControlOK, HoldsOK, Deciding, Labels, IInv, TypeOK
<1>5. CASE BindReset(r)
  <2>1. PICK label \in {"error", "done", "loaduser", "setrow"} :
           /\ Goto(r, label)
           /\ label \in {"loaduser", "setrow"} => IsReset(input[r].id)
           /\ label = "loaduser" => input[r].op = "approve"
    BY <1>5 DEF BindReset
  <2>2. pc'[r] = label /\ input[r].id \in ResetIds
    BY <1>1, <1>5, <2>1, InputFields DEF BindReset, ControlOK, Goto, IInv, TypeOK
  <2>3. label \in {"loaduser", "setrow"} => input[r].id < nextId
    BY <2>1, <2>2 DEF IInv, FreshIds
  <2>4. UNCHANGED <<input, nextId, resets>> /\ pc[r] = "bind"
    BY <1>5 DEF BindReset, frames, tables
  <2>5. ControlOK(r)' /\ HoldsOK(r)'
    BY <1>1, <2>1, <2>2, <2>3, <2>4 DEF ControlOK, HoldsOK, Deciding, IsReset
  <2> QED
    BY <1>5, <2>1, <2>5, MoveStep DEF BindReset, Labels, IInv, TypeOK, frames
<1>6. CASE Refresh(r)
  <2>1. PICK label \in {"error", "done"} : Goto(r, label)
    BY <1>6 DEF Refresh
  <2>2. pc'[r] = label
    BY <2>1 DEF Goto, IInv, TypeOK
  <2> QED
    BY <1>1, <1>6, <2>1, <2>2, MoveStep
       DEF Refresh, ControlOK, HoldsOK, Deciding, Labels, IInv, TypeOK, frames
<1>7. CASE BindUser(r)
  <2>1. PICK label \in {"error", "done", "regenerate", "delete"} :
           /\ Goto(r, label)
           /\ label = "regenerate" => input[r].op = "regenerate"
           /\ label = "delete" => input[r].op # "regenerate"
    BY <1>7 DEF BindUser
  <2>2. pc'[r] = label
    BY <2>1 DEF Goto, IInv, TypeOK
  <2> QED
    BY <1>1, <1>7, <2>1, <2>2, MoveStep
       DEF BindUser, ControlOK, HoldsOK, Deciding, Labels, IInv, TypeOK, frames
<1>9. CASE NotifyAdmin(r) /\ todo[r] = {}
  <2>1. Goto(r, "done") /\ UNCHANGED <<tables, met, locks, frames>> /\ pc[r] = "notify"
    BY <1>9 DEF NotifyAdmin
  <2>2. pc'[r] = "done"
    BY <2>1 DEF Goto, IInv, TypeOK
  <2> QED
    BY <1>1, <2>1, <2>2, MoveStep
       DEF ControlOK, HoldsOK, Deciding, Labels, IInv, TypeOK, frames
<1>10. CASE LoadUser(r) /\ ~Fail(r)
  <2>1. Goto(r, "setpw") /\ UNCHANGED <<tables, met, locks, frames>> /\ pc[r] = "loaduser"
    BY <1>10 DEF LoadUser
  <2>2. pc'[r] = "setpw"
    BY <2>1 DEF Goto, IInv, TypeOK
  <2> QED
    BY <1>1, <2>1, <2>2, MoveStep
       DEF ControlOK, HoldsOK, Deciding, Labels, IInv, TypeOK, frames, tables
<1> QED
  BY <1>2, <1>3, <1>4, <1>5, <1>6, <1>7, <1>9, <1>10

\* The steps of a transaction that lock a row.
LEMMA LockingStep ==
    ASSUME IInv, NEW r \in Requests, ~Fail(r),
           \/ SetPassword(r) \/ SetStatus(r) \/ ReferApprover(r) \/ InsertNotice(r)
           \/ DeleteUser(r)
    PROVE  IInv'
<1>1. ControlOK(r) /\ HoldsOK(r)
  BY DEF IInv
<1>2. /\ UNCHANGED <<tables, met, frames>>
      /\ \A s \in Requests \ {r} : pc'[s] = pc[s]
  BY DEF SetPassword, SetStatus, ReferApprover, InsertNotice, DeleteUser, Goto, IInv, TypeOK
<1>3. pc[r] \in Deciding => input[r].id \in ResetIds /\ input[r].by \in Everyone
  BY <1>1, InputFields DEF ControlOK, Deciding, Everyone
<1>4. IsReset(input[r].id) /\ pc[r] \in Deciding => UserOf(r) \in Everyone
  BY <1>3 DEF IInv, TypeOK, IsReset, UserOf, ResetRow
<1>5. CASE SetPassword(r)
  <2>1. /\ pc[r] = "setpw" /\ pc'[r] = "setrow" /\ pc' \in [Requests -> Labels]
        /\ UNCHANGED <<userRefs, resetLock>>
    BY <1>5 DEF SetPassword, Goto, IInv, TypeOK, Labels
  <2>2. userLock' \in [Everyone -> Requests \cup {Nobody}]
    BY <1>4, <1>5, <2>1 DEF SetPassword, IInv, TypeOK
  <2>3. TypeOK'
    BY <1>2, <2>1, <2>2 DEF IInv, TypeOK, tables, frames
  <2>4. ControlOK(r)' /\ HoldsOK(r)'
    BY <1>1, <1>2, <2>1 DEF ControlOK, HoldsOK, Deciding, tables, frames
  <2> QED
    BY <1>2, <2>1, <2>3, <2>4, QuietStep DEF frames
<1>6. CASE SetStatus(r)
  <2>1. /\ pc[r] = "setrow" /\ pc'[r] \in {"approver", "notice"} /\ pc' \in [Requests -> Labels]
        /\ pc'[r] = "approver" => IsReset(input[r].id) /\ input[r].op = "approve"
        /\ UNCHANGED <<userLock, userRefs>>
    BY <1>6 DEF SetStatus, Goto, IInv, TypeOK, Labels
  <2>2. /\ resetLock' \in [ResetIds -> Requests \cup {Nobody}]
        /\ IsReset(input[r].id) => resetLock'[input[r].id] = r
        /\ \A id \in ResetIds : \A s \in Requests \ {r} :
               resetLock[id] = s => resetLock'[id] = s
    BY <1>3, <1>6, <2>1, ResetNames DEF SetStatus, IInv, TypeOK, Deciding
  <2>3. TypeOK'
    BY <1>2, <2>1, <2>2 DEF IInv, TypeOK, tables, frames
  <2>4. ControlOK(r)' /\ HoldsOK(r)'
    BY <1>1, <1>2, <2>1, <2>2 DEF ControlOK, HoldsOK, Deciding, IsReset, tables, frames
  <2> QED
    BY <1>2, <2>1, <2>2, <2>3, <2>4, QuietStep DEF frames
<1>9. CASE ReferApprover(r)
  <2>1. /\ pc[r] = "approver" /\ pc'[r] = "notice" /\ pc' \in [Requests -> Labels]
        /\ userRefs' = [userRefs EXCEPT ![input[r].by] = @ \cup {r}]
        /\ UNCHANGED <<userLock, resetLock>>
    BY <1>9 DEF ReferApprover, Goto, IInv, TypeOK, Labels
  <2>2. TypeOK'
    BY <1>2, <1>3, <2>1 DEF IInv, TypeOK, tables, frames, Deciding
  <2>3. ControlOK(r)' /\ HoldsOK(r)'
    BY <1>1, <1>2, <2>1 DEF ControlOK, HoldsOK, Deciding, IsReset, tables, frames
  <2> QED
    BY <1>2, <2>1, <2>2, <2>3, QuietStep DEF frames
<1>7. CASE InsertNotice(r)
  <2>1. /\ pc[r] = "notice" /\ pc'[r] = "commit" /\ pc' \in [Requests -> Labels]
        /\ IsReset(input[r].id) /\ UNCHANGED <<userLock, resetLock>>
        /\ userRefs' = [userRefs EXCEPT ![UserOf(r)] = @ \cup {r}]
    BY <1>7 DEF InsertNotice, Goto, IInv, TypeOK, Labels
  <2>2. TypeOK'
    BY <1>2, <1>4, <2>1 DEF IInv, TypeOK, tables, frames, Deciding
  <2>3. ControlOK(r)' /\ HoldsOK(r)'
    BY <1>1, <1>2, <2>1 DEF ControlOK, HoldsOK, Deciding, IsReset, tables, frames
  <2> QED
    BY <1>2, <2>1, <2>2, <2>3, QuietStep DEF frames
<1>8. CASE DeleteUser(r)
  <2>1. /\ pc[r] = "delete" /\ pc'[r] \in {"cascade", "done"} /\ pc' \in [Requests -> Labels]
        /\ UNCHANGED <<userRefs, resetLock>>
    BY <1>8 DEF DeleteUser, Goto, IInv, TypeOK, Labels
  <2>2. userLock' \in [Everyone -> Requests \cup {Nobody}]
    BY <1>8 DEF DeleteUser, IInv, TypeOK
  <2>3. TypeOK'
    BY <1>2, <2>1, <2>2 DEF IInv, TypeOK, tables, frames
  <2>4. ControlOK(r)' /\ HoldsOK(r)'
    BY <1>1, <1>2, <2>1 DEF ControlOK, HoldsOK, Deciding, tables, frames
  <2> QED
    BY <1>2, <2>1, <2>3, <2>4, QuietStep DEF frames
<1> QED
  BY <1>5, <1>6, <1>7, <1>8, <1>9

-----------------------------------------------------------------------------
(***************************************************************************)
(* Steps that write the tables                                             *)
(***************************************************************************)
\* What a step of r must leave to a request s: its locks, the rows it holds,
\* and no new row under an old id.
LEMMA OthersStep ==
    ASSUME IInv, NEW r \in Requests, NEW s \in Requests \ {r},
           pc'[s] = pc[s], UNCHANGED input, nextId' \in Nat, nextId' >= nextId,
           \A id \in ResetIds :
               /\ resetLock[id] = s => resetLock'[id] = s /\ (IsReset(id) => IsReset(id)')
               /\ IsReset(id)' /\ id < nextId => IsReset(id)
    PROVE  ControlOK(s)' /\ HoldsOK(s)'
<1>1. ControlOK(s) /\ HoldsOK(s)
  BY DEF IInv
<1>2. ControlOK(s)'
  BY <1>1 DEF ControlOK
<1>3. pc[s] \in Deciding => input[s].id \in ResetIds /\ input[s].id \in Nat
  BY <1>1, InputFields, ResetIdsNat DEF ControlOK, Deciding
<1>4. pc[s] \in Deciding => input'[s].id < nextId'
  BY <1>1, <1>3 DEF HoldsOK, IInv, TypeOK
<1>5. HoldsOK(s)'
  BY <1>1, <1>3, <1>4 DEF HoldsOK, Deciding
<1> QED
  BY <1>2, <1>5

LEMMA CreateStep ==
    ASSUME IInv, NEW r \in Requests, CreateReset(r), ~Fail(r) PROVE IInv'
<1> DEFINE row == [user |-> input[r].user, token |-> r, temp |-> Null,
                    status |-> "pending", by |-> Null]
<1>1. /\ pc[r] = "create" /\ nextId \in ResetIds
      /\ resets' = [resets EXCEPT ![nextId] = row]
      /\ nextId' = nextId + 1 /\ Goto(r, "pluck")
      /\ UNCHANGED <<users, notices, met, locks, frames>>
  BY DEF CreateReset
<1>2. input[r] \in Inputs /\ input[r].op = "forgot" /\ input[r].user \in Everyone
  BY <1>1, InputFields DEF IInv, ControlOK
<1>3. row \in ResetRow /\ row # NoReset /\ row.status = "pending"
  BY <1>2, ResetNames DEF ResetRow
<1>4. ~IsReset(nextId)
  BY <1>1 DEF IInv, FreshIds, TypeOK
<1> HIDE DEF row
<1>5. /\ \A id \in ResetIds : resets'[id] = IF id = nextId THEN row ELSE resets[id]
      /\ pc'[r] = "pluck" /\ \A s \in Requests \ {r} : pc'[s] = pc[s]
  BY <1>1 DEF Goto, IInv, TypeOK
<1>6. TypeOK'
  BY <1>1, <1>3 DEF Goto, IInv, TypeOK, Labels, locks, frames
<1>7. FreshIds'
  BY <1>1, <1>5, ResetIdsNat DEF IInv, FreshIds, IsReset, TypeOK
<1>8. UsedPasswords'
  BY <1>1, <1>5 DEF IInv, UsedPasswords
<1>9. PasswordsOnFile'
  BY <1>1, <1>4, <1>5 DEF IInv, PasswordsOnFile, OnFile, IsReset, frames
<1>10. DecisionIsNotified'
  BY <1>1, <1>3, <1>5 DEF IInv, DecisionIsNotified, IsReset, Pending
<1>11. ASSUME NEW s \in Requests \ {r} PROVE ControlOK(s)' /\ HoldsOK(s)'
  BY <1>1, <1>3, <1>5, <1>6, OthersStep DEF IInv, TypeOK, IsReset, locks, frames
<1>12. ControlOK(r)' /\ HoldsOK(r)'
  BY <1>1, <1>2, <1>5 DEF ControlOK, HoldsOK, Deciding, frames
<1> QED
  BY <1>6, <1>7, <1>8, <1>9, <1>10, <1>11, <1>12 DEF IInv

LEMMA NotifyStep ==
    ASSUME IInv, NEW r \in Requests, NotifyAdmin(r), todo[r] # {}, ~Fail(r) PROVE IInv'
<1>1. PICK a \in todo[r] :
         /\ notices' = notices \cup {[to |-> a, from |-> r, kind |-> "requested"]}
         /\ todo' = [todo EXCEPT ![r] = @ \ {a}]
         /\ UNCHANGED <<users, resets, nextId, met, locks, pc, input>>
  BY DEF NotifyAdmin
<1>2. a \in Everyone
  BY <1>1 DEF IInv, TypeOK, Everyone
<1>3. TypeOK'
  BY <1>1, <1>2 DEF IInv, TypeOK, Notice, locks
<1>4. FreshIds' /\ UsedPasswords' /\ DecisionIsNotified' /\ PasswordsOnFile'
  BY <1>1 DEF IInv, FreshIds, UsedPasswords, DecisionIsNotified, PasswordsOnFile,
     OnFile, IsReset, Pending
<1>5. \A s \in Requests : ControlOK(s)' /\ HoldsOK(s)'
  BY <1>1 DEF IInv, ControlOK, HoldsOK, IsReset, locks
<1> QED
  BY <1>3, <1>4, <1>5 DEF IInv

\* The decision: the user's password, the row and the notification at once.
LEMMA CommitStep ==
    ASSUME IInv, NEW r \in Requests, Commit(r) PROVE IInv'
<1>1. ControlOK(r) /\ HoldsOK(r)
  BY DEF IInv
<1>2. PICK id \in ResetIds : id = input[r].id /\ IsReset(id) /\ resetLock[id] = r
  BY <1>1, InputFields DEF Commit, ControlOK, HoldsOK, Deciding
<1>3. PICK u \in Everyone : u = resets[id].user
  BY <1>2 DEF IInv, TypeOK, IsReset, ResetRow
<1>4. UserOf(r) = u /\ pc[r] = "commit" /\ input[r].op \in {"approve", "decline"}
      /\ input[r] \in Inputs
  BY <1>1, <1>2, <1>3 DEF UserOf, Commit, ControlOK, Deciding
<1> DEFINE row == DecidedRow(r, resets[id])
<1>5. /\ row \in ResetRow /\ row.user = u
      /\ row.status = IF input[r].op = "approve" THEN "approved" ELSE "declined"
      /\ row.temp = IF input[r].op = "approve" THEN r ELSE resets[id].temp
  <2>1. resets[id] \in ResetRow
    BY <1>2 DEF IInv, TypeOK, IsReset
  <2>2. r \in Passwords /\ input[r].by \in Admins
    BY <1>4, InputFields DEF Passwords
  <2> QED
    BY <1>3, <1>4, <2>1, <2>2 DEF DecidedRow, ResetRow
<1>6. row # NoReset
  BY <1>5, ResetNames
<1>7. /\ \A x \in ResetIds : resets'[x] = IF x = id THEN row ELSE resets[x]
      /\ \A x \in Everyone : users'[x] = IF input[r].op = "approve" /\ x = u THEN r ELSE users[x]
      /\ \A s \in Requests \ {r} : pc'[s] = pc[s]
      /\ pc'[r] = IF input[r].op = "approve" THEN "refresh" ELSE "done"
      /\ notices' = notices \cup {[to |-> u, from |-> r,
            kind |-> IF input[r].op = "approve" THEN "approved" ELSE "declined"]}
      /\ Release(r) /\ UNCHANGED <<nextId, met, frames>>
  BY <1>2, <1>4 DEF Commit, Goto, NoticeOf, IInv, TypeOK
<1>8. TypeOK'
  <2>1. resets' \in [ResetIds -> ResetRow \cup {NoReset}]
    BY <1>2, <1>5 DEF Commit, IInv, TypeOK
  <2>2. users' \in [Everyone -> Passwords \cup {Gone}]
    BY <1>4 DEF Commit, IInv, TypeOK, Passwords
  <2>3. notices' \subseteq Notice
    BY <1>7 DEF IInv, TypeOK, Notice
  <2> QED
    BY <1>7, <2>1, <2>2, <2>3, ReleaseType DEF Commit, Goto, IInv, TypeOK, Labels, frames
<1> HIDE DEF row
<1>9. FreshIds'
  BY <1>2, <1>7 DEF IInv, FreshIds, IsReset
<1>10. UsedPasswords'
  BY <1>4, <1>7 DEF IInv, UsedPasswords
<1>11. PasswordsOnFile'
  <2> SUFFICES ASSUME NEW x \in Everyone, users'[x] \in Requests,
                      input[users'[x]].op = "approve"
               PROVE  OnFile(x, input[users[x]].id)'
    BY <1>7 DEF PasswordsOnFile, frames
  <2>1. CASE input[r].op = "approve" /\ x = u
    BY <1>2, <1>5, <1>6, <1>7, <2>1 DEF OnFile, IsReset, frames
  <2>2. CASE ~(input[r].op = "approve" /\ x = u)
    <3>1. users'[x] = users[x] /\ OnFile(x, input[users[x]].id)
      BY <1>7, <2>2 DEF IInv, PasswordsOnFile
    <3>2. CASE input[users[x]].id = id
      BY <1>3, <1>5, <1>6, <1>7, <2>2, <3>1, <3>2 DEF OnFile, IsReset, frames
    <3>3. CASE input[users[x]].id # id
      BY <1>7, <3>1, <3>3 DEF OnFile, IsReset, frames
    <3> QED
      BY <3>2, <3>3
  <2> QED
    BY <2>1, <2>2
<1>12. DecisionIsNotified'
  <2> DEFINE new == [to |-> u, from |-> r,
                     kind |-> IF input[r].op = "approve" THEN "approved" ELSE "declined"]
  <2>1. new \in notices' /\ new.to = row.user /\ new.kind = row.status
    BY <1>5, <1>7
  <2> HIDE DEF new
  <2> QED
    BY <1>7, <2>1 DEF IInv, DecisionIsNotified, IsReset, Pending
<1>13. ASSUME NEW s \in Requests \ {r} PROVE ControlOK(s)' /\ HoldsOK(s)'
  <2>1. UNCHANGED <<input, nextId>> /\ nextId' \in Nat /\ nextId' >= nextId
    BY <1>7 DEF frames, IInv, TypeOK
  <2>2. \A x \in ResetIds :
           /\ resetLock[x] = s => resetLock'[x] = s /\ (IsReset(x) => IsReset(x)')
           /\ IsReset(x)' /\ x < nextId => IsReset(x)
    BY <1>2, <1>6, <1>7 DEF Release, IsReset
  <2> QED
    BY <1>7, <2>1, <2>2, OthersStep
<1>14. ControlOK(r)' /\ HoldsOK(r)'
  BY <1>4, <1>7 DEF ControlOK, HoldsOK, Deciding, frames
<1> QED
  BY <1>8, <1>9, <1>10, <1>11, <1>12, <1>13, <1>14 DEF IInv

LEMMA RegenerateStep ==
    ASSUME IInv, NEW r \in Requests, RegeneratePassword(r) PROVE IInv'
<1>1. /\ pc[r] = "regenerate" /\ input[r].op = "regenerate" /\ input[r] \in Inputs
      /\ input[r].user \in Everyone
  BY InputFields DEF RegeneratePassword, IInv, ControlOK
<1>2. /\ \A x \in Everyone : users'[x] \in {users[x], r}
      /\ pc'[r] = "done" /\ \A s \in Requests \ {r} : pc'[s] = pc[s]
      /\ UNCHANGED <<resets, nextId, notices, met, locks, frames>>
  BY <1>1 DEF RegeneratePassword, Goto, IInv, TypeOK
<1>3. TypeOK'
  BY <1>1, <1>2 DEF RegeneratePassword, Goto, IInv, TypeOK, Labels, Passwords, locks, frames
<1>4. FreshIds' /\ DecisionIsNotified'
  BY <1>2 DEF IInv, FreshIds, DecisionIsNotified, IsReset, Pending
<1>5. UsedPasswords'
  BY <1>2 DEF IInv, UsedPasswords
<1>6. PasswordsOnFile'
  BY <1>1, <1>2 DEF IInv, PasswordsOnFile, OnFile, IsReset, frames
<1>7. ASSUME NEW s \in Requests \ {r} PROVE ControlOK(s)' /\ HoldsOK(s)'
  BY <1>2, OthersStep DEF IInv, TypeOK, IsReset, locks, frames
<1>8. ControlOK(r)' /\ HoldsOK(r)'
  BY <1>1, <1>2 DEF ControlOK, HoldsOK, Deciding, frames
<1> QED
  BY <1>3, <1>4, <1>5, <1>6, <1>7, <1>8 DEF IInv

\* The deletion takes the user's rows, which nobody holds, and no one else's.
LEMMA CascadeStep ==
    ASSUME IInv, NEW r \in Requests, CascadeDelete(r), ~Fail(r) PROVE IInv'
<1>1. PICK u \in Everyone : u = input[r].user
  BY InputFields DEF CascadeDelete, IInv, ControlOK
<1>2. /\ pc[r] = "cascade" /\ input[r] \in Inputs
      /\ users' = [users EXCEPT ![u] = Gone]
      /\ resets' = [id \in ResetIds |->
             IF id \in ResetsOf(u) THEN NoReset
             ELSE IF id \in ApprovedBy(u) THEN [resets[id] EXCEPT !.by = Null]
             ELSE resets[id]]
      /\ \A id \in ResetsOf(u) : resetLock[id] = Nobody
      /\ Goto(r, "done") /\ Release(r) /\ UNCHANGED <<nextId, notices, met, frames>>
  BY <1>1 DEF CascadeDelete, IInv, ControlOK
<1>3. /\ pc'[r] = "done" /\ \A s \in Requests \ {r} : pc'[s] = pc[s]
      /\ \A x \in Everyone : users'[x] = IF x = u THEN Gone ELSE users[x]
  BY <1>2 DEF Goto, IInv, TypeOK
<1>11. ASSUME NEW id \in ResetIds, IsReset(id), resets[id].user # u
       PROVE  /\ resets'[id] \in ResetRow /\ IsReset(id)'
              /\ resets'[id].user = resets[id].user /\ resets'[id].temp = resets[id].temp
              /\ resets'[id].status = resets[id].status
  <2>1. resets[id] \in ResetRow /\ id \notin ResetsOf(u)
    BY <1>11 DEF IInv, TypeOK, IsReset, ResetsOf
  <2>2. resets'[id] = resets[id] \/ resets'[id] = [resets[id] EXCEPT !.by = Null]
    BY <1>2, <2>1
  <2> QED
    BY <2>1, <2>2, ResetNames DEF ResetRow, IsReset
<1>12. ASSUME NEW id \in ResetIds, IsReset(id)' PROVE IsReset(id) /\ resets[id].user # u
  <2>1. id \notin ResetsOf(u)
    BY <1>2, <1>12 DEF IsReset
  <2>2. id \in ApprovedBy(u) => IsReset(id)
    BY DEF ApprovedBy
  <2> QED
    BY <1>2, <1>12, <2>1, <2>2 DEF ResetsOf, IsReset
<1>4. TypeOK'
  <2>1. resets' \in [ResetIds -> ResetRow \cup {NoReset}]
    BY <1>2, <1>11, <1>12 DEF IsReset
  <2>2. users' \in [Everyone -> Passwords \cup {Gone}]
    BY <1>2 DEF IInv, TypeOK
  <2> QED
    BY <1>2, <2>1, <2>2, ReleaseType DEF Goto, IInv, TypeOK, Labels, frames
<1>5. FreshIds' /\ DecisionIsNotified'
  BY <1>2, <1>11, <1>12 DEF IInv, FreshIds, DecisionIsNotified, Pending
<1>6. Gone \notin Requests
  BY ResetNames DEF Passwords
<1>7. UsedPasswords'
  BY <1>3, <1>6 DEF IInv, UsedPasswords
<1>8. PasswordsOnFile'
  <2> SUFFICES ASSUME NEW x \in Everyone, users'[x] \in Requests,
                      input[users'[x]].op = "approve"
               PROVE  OnFile(x, input[users[x]].id)'
    BY <1>2 DEF PasswordsOnFile, frames
  <2>1. x # u /\ users'[x] = users[x] /\ OnFile(x, input[users[x]].id)
    BY <1>3, <1>6 DEF IInv, PasswordsOnFile
  <2>2. PICK id \in ResetIds : id = input[users[x]].id
    BY <2>1 DEF OnFile
  <2>3. id = input'[users'[x]].id
    BY <1>2, <2>1, <2>2 DEF frames
  <2> QED
    BY <1>11, <2>1, <2>2, <2>3 DEF OnFile
<1>9. ASSUME NEW s \in Requests \ {r} PROVE ControlOK(s)' /\ HoldsOK(s)'
  <2>1. \A id \in ResetIds :
           /\ resetLock[id] = s => resetLock'[id] = s /\ (IsReset(id) => IsReset(id)')
           /\ IsReset(id)' /\ id < nextId => IsReset(id)
    BY <1>2, <1>11, <1>12, ResetNames DEF Release, ResetsOf
  <2> QED
    BY <1>2, <1>3, <2>1, OthersStep DEF IInv, TypeOK, frames
<1>10. ControlOK(r)' /\ HoldsOK(r)'
  BY <1>2, <1>3 DEF ControlOK, HoldsOK, Deciding, frames
<1> QED
  BY <1>4, <1>5, <1>7, <1>8, <1>9, <1>10 DEF IInv

-----------------------------------------------------------------------------
LEMMA InvStep == IInv /\ [Next]_vars => IInv'
<1> SUFFICES ASSUME IInv, [Next]_vars PROVE IInv'
  OBVIOUS
<1>1. ASSUME NEW r \in Requests, Start(r) \/ Step(r) \/ Crash(r) PROVE IInv'
  <2>1. CASE Start(r)
    BY <2>1, StartStep
  <2>2. CASE Fail(r) /\ Step(r)
    <3>1. Active(r)
      BY <2>2, VictimIsActive
         DEF Step, Active, Over, FindUser, CheckPending, CreateReset, PluckAdmins, NotifyAdmin,
             BindReset, LoadUser, SetPassword, SetStatus, ReferApprover, InsertNotice, Commit,
             Refresh, BindUser, RegeneratePassword, DeleteUser, CascadeDelete
    <3> QED
      BY <2>2, <3>1, FailStep
  <2>3. CASE Crash(r)
    BY <2>3, FailStep DEF Crash
  <2>4. CASE Step(r) /\ ~Fail(r)
    <3>1. CASE CreateReset(r) \/ Commit(r) \/ RegeneratePassword(r) \/ CascadeDelete(r)
      BY <2>4, <3>1, CreateStep, CommitStep, RegenerateStep, CascadeStep
    <3>2. CASE NotifyAdmin(r)
      BY <2>4, <3>2, NotifyStep, ReadingStep
    <3>3. CASE \/ SetPassword(r) \/ SetStatus(r) \/ ReferApprover(r) \/ InsertNotice(r)
               \/ DeleteUser(r)
      BY <2>4, <3>3, LockingStep
    <3>4. CASE \/ FindUser(r) \/ CheckPending(r) \/ PluckAdmins(r) \/ BindReset(r)
               \/ Refresh(r) \/ BindUser(r) \/ LoadUser(r)
      BY <2>4, <3>4, ReadingStep
    <3> QED
      BY <2>4, <3>1, <3>2, <3>3, <3>4 DEF Step, DeadlockVictim
  <2> QED
    BY <1>1, <2>1, <2>2, <2>3, <2>4
<1>2. CASE UNCHANGED vars
  <2>1. TypeOK'
    BY <1>2 DEF IInv, TypeOK, vars, tables, locks, frames
  <2>2. FreshIds' /\ UsedPasswords' /\ DecisionIsNotified' /\ PasswordsOnFile'
    BY <1>2 DEF IInv, FreshIds, UsedPasswords, DecisionIsNotified, PasswordsOnFile,
       OnFile, IsReset, Pending, vars, tables, frames
  <2>3. \A s \in Requests : ControlOK(s)' /\ HoldsOK(s)'
    BY <1>2 DEF IInv, ControlOK, HoldsOK, IsReset, vars, tables, locks, frames
  <2> QED
    BY <2>1, <2>2, <2>3 DEF IInv
<1> QED
  BY <1>1, <1>2 DEF Next, Finished

\* Every reachable state satisfies the inductive invariant.
THEOREM Invariance == Spec => []IInv
  BY InitInv, InvStep, PTL DEF Spec

\* Whatever requests run together, fail or die, every table, lock and local
\* keeps its type.
THEOREM TypeCorrect == Spec => []TypeOK
<1>1. IInv => TypeOK
  BY DEF IInv
<1> QED
  BY <1>1, Invariance, PTL

\* No decision without its notification, whoever else decides the same request.
THEOREM DecisionsAreNotified == Spec => []DecisionIsNotified
<1>1. IInv => DecisionIsNotified
  BY DEF IInv
<1> QED
  BY <1>1, Invariance, PTL
-----------------------------------------------------------------------------
(***************************************************************************)
(* Every admin is notified.  The row of a forgot-password request is there *)
(* before its notifications are: until the request is done, an admin who   *)
(* has none yet is one whom the request still has to come to.              *)
(***************************************************************************)
Told(a, t) == \E n \in notices : n.to = a /\ n.from = t

TokenOK(t) ==
    /\ pc[t] \in {"pluck", "notify", "done", "error"}
    /\ pc[t] = "notify" => \A a \in Admins : Exists(a) => a \in todo[t] \/ Told(a, t)
    /\ pc[t] = "done" => \A a \in Admins : Exists(a) => Told(a, t)

TokensOK == \A id \in ResetIds : IsReset(id) => TokenOK(resets[id].token)

\* What keeps TokensOK: rows keep their token, users and notifications only go
\* one way, and the request that moves is not one that created a row, or fails.
LEMMA TokensKept ==
    ASSUME TypeOK, TokensOK, NEW r \in Requests, NEW label, Goto(r, label),
           \A id \in ResetIds : resets'[id] # NoReset =>
               resets[id] # NoReset /\ resets'[id].token = resets[id].token,
           \A a \in Admins : users'[a] # Gone => users[a] # Gone,
           notices \subseteq notices', todo' = todo,
           \/ pc[r] \notin {"pluck", "notify", "done", "error"}
           \/ label \in {"error"}
    PROVE  TokensOK'
<1> SUFFICES ASSUME NEW id \in ResetIds, resets'[id] # NoReset
             PROVE  TokenOK(resets[id].token)'
  BY DEF TokensOK, IsReset
<1>1. PICK t \in Requests : t = resets[id].token /\ resets'[id].token = t /\ TokenOK(t)
  BY DEF TokensOK, IsReset, TypeOK, ResetRow
<1> SUFFICES TokenOK(t)'
  BY <1>1
<1>2. CASE t = r
  BY <1>1, <1>2 DEF TokenOK, Goto, TypeOK
<1>3. CASE t # r
  <2>1. pc'[t] = pc[t]
    BY <1>1, <1>3 DEF Goto, TypeOK
  <2>2. \A a \in Admins : Told(a, t) => Told(a, t)'
    BY DEF Told
  <2> QED
    BY <1>1, <2>1, <2>2 DEF TokenOK, Exists
<1> QED
  BY <1>2, <1>3

\* A reset row goes with its user, so the user of a row is there.
OwnersExist == \A id \in ResetIds : IsReset(id) => Exists(resets[id].user)

LEMMA OwnersStep == IInv /\ OwnersExist /\ [Next]_vars => OwnersExist'
<1> SUFFICES ASSUME IInv, OwnersExist, [Next]_vars PROVE OwnersExist'
  OBVIOUS
<1> TypeOK
  BY DEF IInv
<1>1. CASE UNCHANGED <<users, resets>>
  BY <1>1 DEF OwnersExist, IsReset, Exists
<1>2. ASSUME NEW r \in Requests, CreateReset(r), ~Fail(r) PROVE OwnersExist'
  BY <1>2 DEF CreateReset, OwnersExist, IsReset, Exists, TypeOK
<1>3. ASSUME NEW r \in Requests, Commit(r) PROVE OwnersExist'
  <2>1. \A u \in Everyone : users[u] # Gone => users'[u] # Gone
    BY <1>3, ResetNames DEF Commit, TypeOK, Passwords
  <2>2. input[r].id \in ResetIds /\ IsReset(input[r].id)
    BY <1>3, InputFields DEF Commit, IInv, ControlOK, HoldsOK, Deciding
  <2>3. DecidedRow(r, resets[input[r].id]).user = resets[input[r].id].user
    BY <2>2 DEF DecidedRow, TypeOK, ResetRow, IsReset
  <2>4. ASSUME NEW id \in ResetIds, resets'[id] # NoReset
        PROVE  resets[id] # NoReset /\ resets'[id].user = resets[id].user
    BY <1>3, <2>2, <2>3, <2>4 DEF Commit, TypeOK, IsReset
  <2> QED
    BY <2>1, <2>4 DEF OwnersExist, IsReset, Exists, TypeOK, ResetRow
<1>4. ASSUME NEW r \in Requests, RegeneratePassword(r) PROVE OwnersExist'
  BY <1>4, ResetNames DEF RegeneratePassword, OwnersExist, IsReset, Exists, TypeOK, Passwords
<1>5. ASSUME NEW r \in Requests, CascadeDelete(r), ~Fail(r) PROVE OwnersExist'
  BY <1>5 DEF CascadeDelete, OwnersExist, IsReset, Exists, ResetsOf, ApprovedBy,
     TypeOK, ResetRow
<1>6. ASSUME NEW r \in Requests, Start(r) \/ Step(r) \/ Crash(r) PROVE OwnersExist'
  <2>1. CASE Fail(r)
    BY <2>1, <1>1 DEF Fail, tables
  <2>2. CASE \/ Start(r) \/ Crash(r)
             \/ FindUser(r) \/ CheckPending(r) \/ PluckAdmins(r) \/ NotifyAdmin(r)
             \/ BindReset(r) \/ LoadUser(r) \/ SetPassword(r) \/ SetStatus(r)
             \/ ReferApprover(r) \/ InsertNotice(r) \/ Refresh(r) \/ BindUser(r)
             \/ DeleteUser(r)
    BY <2>2, <1>1 DEF Start, Crash, FindUser, CheckPending, PluckAdmins, NotifyAdmin, BindReset,
       LoadUser, SetPassword, SetStatus, ReferApprover, InsertNotice, Refresh, BindUser,
       DeleteUser,        Fail, tables
  <2> QED
    BY <1>2, <1>3, <1>4, <1>5, <1>6, <2>1, <2>2 DEF Step, DeadlockVictim
<1> QED
  BY <1>1, <1>6 DEF Next, Finished, vars, tables

LEMMA TokensStep == IInv /\ OwnersExist /\ TokensOK /\ [Next]_vars => TokensOK'
<1> SUFFICES ASSUME IInv, OwnersExist, TokensOK, [Next]_vars PROVE TokensOK'
  OBVIOUS
<1> TypeOK
  BY DEF IInv
<1>1. ASSUME NEW r \in Requests, Start(r) \/ Step(r) \/ Crash(r) PROVE TokensOK'
  <2>1. CASE Fail(r) \/ Crash(r)
    BY <2>1, TokensKept DEF Fail, Crash, tables, frames
  <2>2. CASE CreateReset(r) /\ ~Fail(r)
    <3>1. /\ pc[r] = "create" /\ Goto(r, "pluck") /\ nextId \in ResetIds
          /\ resets' = [resets EXCEPT ![nextId] =
                 [user |-> input[r].user, token |-> r, temp |-> Null,
                    status |-> "pending", by |-> Null]]
          /\ UNCHANGED <<users, notices, todo>>
      BY <2>2 DEF CreateReset, frames
    <3>2. ASSUME NEW id \in ResetIds, resets'[id] # NoReset
          PROVE  TokenOK(resets[id].token)'
      <4>1. CASE id = nextId
        <5>1. resets'[id].token = r
          BY <3>1, <4>1 DEF TypeOK
        <5>2. TokenOK(r)'
          BY <3>1 DEF TokenOK, Goto, TypeOK
        <5> QED
          BY <5>1, <5>2
      <4>2. CASE id # nextId
        <5>1. PICK t \in Requests : t = resets[id].token /\ resets'[id].token = t /\ TokenOK(t)
          BY <3>1, <3>2, <4>2 DEF TokensOK, IsReset, TypeOK, ResetRow
        <5>2. pc'[t] = pc[t]
          BY <5>1, <3>1 DEF TokenOK, Goto, TypeOK
        <5>3. TokenOK(t)'
          BY <5>1, <5>2, <3>1 DEF TokenOK, Told, Exists
        <5> QED
          BY <5>1, <5>3
      <4> QED
        BY <4>1, <4>2
    <3> QED
      BY <3>2 DEF TokensOK, IsReset
  <2>3. CASE PluckAdmins(r)
    <3>1. /\ pc[r] = "pluck" /\ Goto(r, "notify") /\ UNCHANGED tables
          /\ todo' = [todo EXCEPT ![r] = {a \in Admins : Exists(a)}]
      BY <2>3 DEF PluckAdmins
    <3>2. ASSUME NEW t \in Requests, TokenOK(t) PROVE TokenOK(t)'
      BY <3>1, <3>2 DEF TokenOK, Goto, TypeOK, Exists, Told, tables
    <3> QED
      BY <3>1, <3>2 DEF TokensOK, IsReset, TypeOK, ResetRow, tables
  <2>4. CASE NotifyAdmin(r) /\ ~Fail(r)
    <3>1. /\ pc[r] = "notify" /\ notices \subseteq notices' /\ UNCHANGED <<users, resets>>
          /\ \A s \in Requests \ {r} : pc'[s] = pc[s] /\ todo'[s] = todo[s]
      BY <2>4 DEF NotifyAdmin, Goto, TypeOK, tables, frames
    <3>2. \/ todo[r] = {} /\ pc'[r] = "done"
          \/ \E a \in Admins : Told(a, r)' /\ todo'[r] = todo[r] \ {a} /\ pc'[r] = "notify"
      <4>1. CASE todo[r] = {} /\ Goto(r, "done")
        BY <4>1 DEF Goto, TypeOK
      <4>2. CASE \E a \in todo[r] :
                   /\ notices' = notices \cup {[to |-> a, from |-> r, kind |-> "requested"]}
                   /\ todo' = [todo EXCEPT ![r] = @ \ {a}]
                   /\ UNCHANGED pc
        <5>1. PICK a \in todo[r] :
                 /\ notices' = notices \cup {[to |-> a, from |-> r, kind |-> "requested"]}
                 /\ todo' = [todo EXCEPT ![r] = @ \ {a}]
                 /\ UNCHANGED pc
          BY <4>2
        <5>2. a \in Admins /\ todo'[r] = todo[r] \ {a} /\ pc'[r] = "notify"
          BY <3>1, <5>1 DEF TypeOK
        <5>3. Told(a, r)'
          <6> DEFINE n == [to |-> a, from |-> r, kind |-> "requested"]
          <6>1. n \in notices' /\ n.to = a /\ n.from = r
            BY <5>1
          <6> QED
            BY <6>1 DEF Told
        <5> QED
          BY <5>2, <5>3
      <4> QED
        BY <2>4, <4>1, <4>2 DEF NotifyAdmin
    <3>3. \A a \in Admins : \A t \in Requests : Told(a, t) => Told(a, t)'
      BY <3>1 DEF Told
    <3>4. ASSUME NEW t \in Requests, TokenOK(t) PROVE TokenOK(t)'
      <4>1. CASE t = r
        BY <3>1, <3>2, <3>3, <3>4, <4>1 DEF TokenOK, Exists
      <4>2. CASE t # r
        BY <3>1, <3>3, <3>4, <4>2 DEF TokenOK, Exists
      <4> QED
        BY <4>1, <4>2
    <3> QED
      BY <3>1, <3>4 DEF TokensOK, IsReset, TypeOK, ResetRow
  <2>5. CASE Commit(r)
    <3>1. \A id \in ResetIds : resets'[id] # NoReset =>
              resets[id] # NoReset /\ resets'[id].token = resets[id].token
      <4>1. IsReset(input[r].id)
        BY <2>5 DEF Commit, IInv, HoldsOK
      <4>2. ASSUME NEW id \in ResetIds, id = input[r].id
            PROVE  DecidedRow(r, resets[id]).token = resets[id].token
        BY <4>1, <4>2 DEF DecidedRow, TypeOK, ResetRow, IsReset
      <4> QED
        BY <2>5, <4>1, <4>2 DEF Commit, TypeOK, IsReset
    <3>2. \A a \in Admins : users'[a] # Gone => users[a] # Gone
      <4>1. UserOf(r) \in Everyone /\ Exists(UserOf(r))
        <5>1. pc[r] = "commit" /\ input[r].id \in ResetIds /\ IsReset(input[r].id)
          BY <2>5, InputFields DEF Commit, IInv, ControlOK, HoldsOK, Deciding
        <5> QED
          BY <5>1 DEF OwnersExist, UserOf, TypeOK, ResetRow, IsReset
      <4> QED
        BY <2>5, <4>1 DEF Commit, Exists, TypeOK, Everyone
    <3> QED
      BY <2>5, <3>1, <3>2, TokensKept DEF Commit, frames
  <2>6. CASE RegeneratePassword(r)
    BY <2>6, TokensKept DEF RegeneratePassword, Exists, TypeOK, Everyone, frames
  <2>7. CASE CascadeDelete(r) /\ ~Fail(r)
    <3>1. ASSUME NEW id \in ResetIds, resets'[id] # NoReset
          PROVE  resets[id] # NoReset /\ resets'[id].token = resets[id].token
      <4>1. \/ resets'[id] = resets[id]
            \/ IsReset(id) /\ resets'[id] = [resets[id] EXCEPT !.by = Null]
        BY <2>7, <3>1 DEF CascadeDelete, ApprovedBy
      <4>2. IsReset(id) => resets[id] \in ResetRow
        BY DEF TypeOK, IsReset
      <4> QED
        BY <3>1, <4>1, <4>2 DEF IsReset, ResetRow
    <3> QED
      BY <2>7, <3>1, TokensKept DEF CascadeDelete, TypeOK, frames, Everyone
  <2>8. ASSUME UNCHANGED <<tables, todo>>, \E label : Goto(r, label),
               pc[r] \notin {"pluck", "notify", "done", "error"}
        PROVE  TokensOK'
    BY <2>8, TokensKept DEF tables
  <2>9. CASE \/ Start(r) \/ FindUser(r) \/ CheckPending(r)
             \/ BindReset(r) \/ LoadUser(r) \/ SetPassword(r) \/ SetStatus(r)
             \/ ReferApprover(r) \/ InsertNotice(r) \/ Refresh(r) \/ BindUser(r)
             \/ DeleteUser(r)
    <3>1. CASE Fail(r)
      BY <3>1, <2>1
    <3>2. CASE ~Fail(r)
      <4>1. UNCHANGED <<tables, todo>> /\ \E label : Goto(r, label)
        BY <2>9, <3>2 DEF Start, FindUser, CheckPending, BindReset, LoadUser, SetPassword,
           SetStatus, ReferApprover, InsertNotice, Refresh, BindUser, DeleteUser, frames
      <4>2. pc[r] \notin {"pluck", "notify", "done", "error"}
        BY <2>9 DEF Start, FindUser, CheckPending, BindReset, LoadUser, SetPassword,
           SetStatus, ReferApprover, InsertNotice, Refresh, BindUser, DeleteUser
      <4> QED
        BY <4>1, <4>2, <2>8
    <3> QED
      BY <3>1, <3>2
  <2> QED
    BY <1>1, <2>1, <2>2, <2>3, <2>4, <2>5, <2>6, <2>7, <2>9 DEF Step, DeadlockVictim
<1>2. CASE UNCHANGED <<tables, pc, todo>>
  BY <1>2 DEF TokensOK, TokenOK, Told, IsReset, Exists, tables
<1> QED
  BY <1>1, <1>2 DEF Next, Finished, vars, frames

\* Once a forgot-password request is done, every admin who is still there has its
\* notification, however many admins there are and whoever deletes them meanwhile.
THEOREM AdminsAreNotified == Spec => []AllAdminsNotified
<1>1. Init => OwnersExist /\ TokensOK
  BY DEF Init, OwnersExist, TokensOK, IsReset
<1>2. IInv /\ TokensOK => AllAdminsNotified
  BY DEF IInv, TypeOK, TokensOK, TokenOK, AllAdminsNotified, Told
<1> QED
  BY <1>1, <1>2, OwnersStep, TokensStep, Invariance, PTL DEF Spec

-----------------------------------------------------------------------------
(***************************************************************************)
(* Checks made before the write.  A decision, or a new reset row, follows  *)
(* a check made earlier by the same request; what the check missed is the  *)
(* work of a request that was under way then, and so met this one.         *)
(***************************************************************************)
ActiveMet ==
    \A r, x \in Requests : r # x /\ Active(r) /\ Active(x) /\ Contend(input[r], input[x])
        => Met(r, x)

\* A request that decided a row is past its transaction, and the row, if it is
\* still there, is not pending again.
DecidersOK ==
    \A x \in Requests : Decided(x) =>
        /\ pc[x] \in {"refresh", "done", "error"}
        /\ input[x] \in Inputs /\ input[x].op \in {"approve", "decline"}
        /\ input[x].id < nextId /\ ~Pending(input[x].id)

DecidingMet ==
    \A r, x \in Requests : /\ r # x /\ pc[r] \in Deciding
                           /\ Decided(x) /\ input[r].id = input[x].id
        => Met(r, x)

\* The request that created a row is past the insert, and asked for that user.
CreatorOK(id) ==
    /\ pc[resets[id].token] \in {"pluck", "notify", "done", "error"}
    /\ input[resets[id].token].op = "forgot"
    /\ input[resets[id].token].user = resets[id].user

CreatorsOK == \A id \in ResetIds : IsReset(id) => CreatorOK(id)

CreatingMet ==
    \A r \in Requests, id \in ResetIds :
        pc[r] = "create" /\ Pending(id) /\ resets[id].user = input[r].user
        => Met(r, resets[id].token)

OverlapInv ==
    /\ ActiveMet /\ DecidersOK /\ DecidingMet /\ DecidedOnce
    /\ CreatorsOK /\ CreatingMet /\ OnePendingPerUser

\* Steps that decide no row and create none.
LEMMA OverlapKept ==
    ASSUME IInv, OverlapInv, NEW r \in Requests, Active(r),
           UNCHANGED <<nextId, met, input>>,
           \A id \in ResetIds : IsReset(id)' =>
               /\ IsReset(id) /\ resets'[id].user = resets[id].user
               /\ resets'[id].token = resets[id].token
               /\ resets'[id].status = resets[id].status,
           \A n \in notices' : n \in notices \/ n.kind = "requested",
           \A s \in Requests \ {r} : pc'[s] = pc[s],
           pc'[r] \in Deciding => pc[r] \in Deciding \/ Pending(input[r].id),
           pc'[r] = "create" =>
               \A id \in ResetIds : Pending(id) => resets[id].user # input[r].user,
           pc[r] = "refresh" => pc'[r] \in {"done", "error"},
           pc[r] = "pluck" => pc'[r] \in {"notify", "error"},
           pc[r] = "notify" => pc'[r] \in {"notify", "done", "error"}
    PROVE  OverlapInv'
<1> TypeOK
  BY DEF IInv
<1>1. \A x \in Requests : Active(x)' => Active(x)
  BY DEF Active, Over
<1>2. \A x \in Requests : Decided(x)' => Decided(x)
  BY DEF Decided
<1>3. \A id \in ResetIds : Pending(id)' => Pending(id) /\ IsReset(id)'
  BY DEF Pending
<1>4. \A x, y \in Requests : Met(x, y)' <=> Met(x, y)
  BY DEF Met
<1>5. ActiveMet'
  BY <1>1, <1>4 DEF OverlapInv, ActiveMet
<1>6. DecidersOK'
  <2> SUFFICES ASSUME NEW x \in Requests, Decided(x)'
               PROVE  /\ pc'[x] \in {"refresh", "done", "error"}
                      /\ input[x] \in Inputs /\ input[x].op \in {"approve", "decline"}
                      /\ input[x].id < nextId /\ ~Pending(input[x].id)'
    BY DEF DecidersOK
  <2>1. /\ pc[x] \in {"refresh", "done", "error"}
        /\ input[x] \in Inputs /\ input[x].op \in {"approve", "decline"}
        /\ input[x].id < nextId /\ ~Pending(input[x].id)
    BY <1>2 DEF OverlapInv, DecidersOK
  <2>2. input[x].id \in ResetIds
    BY <2>1, InputFields
  <2>3. pc'[x] \in {"refresh", "done", "error"}
    BY <2>1 DEF Active, Over
  <2> QED
    BY <1>3, <2>1, <2>2, <2>3
<1>7. DecidingMet'
  <2> SUFFICES ASSUME NEW s \in Requests, NEW x \in Requests, s # x, pc'[s] \in Deciding,
                      Decided(x)', input[s].id = input[x].id
               PROVE  Met(s, x)
    BY <1>4 DEF DecidingMet
  <2>1. Decided(x) /\ ~Pending(input[x].id)
    BY <1>2 DEF OverlapInv, DecidersOK
  <2>2. pc[s] \in Deciding
    BY <2>1
  <2> QED
    BY <2>1, <2>2 DEF OverlapInv, DecidingMet
<1>8. DecidedOnce'
  BY <1>2, <1>4 DEF OverlapInv, DecidedOnce
<1>9. CreatorsOK'
  <2> SUFFICES ASSUME NEW id \in ResetIds, IsReset(id)' PROVE CreatorOK(id)'
    BY DEF CreatorsOK
  <2>1. PICK t \in Requests : t = resets[id].token /\ resets'[id].token = t
    BY DEF TypeOK, IsReset, ResetRow
  <2>2. CreatorOK(id)
    BY DEF OverlapInv, CreatorsOK
  <2>3. pc'[t] \in {"pluck", "notify", "done", "error"}
    BY <2>1, <2>2 DEF CreatorOK, Active, Over
  <2> QED
    BY <2>1, <2>2, <2>3 DEF CreatorOK
<1>10. CreatingMet'
  <2> SUFFICES ASSUME NEW s \in Requests, NEW id \in ResetIds, pc'[s] = "create",
                      Pending(id)', resets'[id].user = input[s].user
               PROVE  Met(s, resets'[id].token)
    BY DEF CreatingMet, Met
  <2>1. /\ Pending(id) /\ resets'[id].user = resets[id].user
        /\ resets'[id].token = resets[id].token
    BY <1>3
  <2>2. pc[s] = "create"
    BY <2>1
  <2> QED
    BY <2>1, <2>2 DEF OverlapInv, CreatingMet
<1>11. OnePendingPerUser'
  <2> SUFFICES ASSUME NEW id \in ResetIds, NEW y \in ResetIds, id # y, Pending(id)', Pending(y)',
                      resets'[id].user = resets'[y].user
               PROVE  Met(resets'[id].token, resets'[y].token)
    BY DEF OnePendingPerUser, Met
  <2>1. \A z \in {id, y} : /\ Pending(z) /\ resets'[z].user = resets[z].user
                           /\ resets'[z].token = resets[z].token
    BY <1>3
  <2> QED
    BY <2>1 DEF OverlapInv, OnePendingPerUser
<1> QED
  BY <1>5, <1>6, <1>7, <1>8, <1>9, <1>10, <1>11 DEF OverlapInv

\* A request begins: it met whoever contends with it and is under way.
LEMMA OverlapStart ==
    ASSUME IInv, OverlapInv, NEW r \in Requests, Start(r) PROVE OverlapInv'
<1> TypeOK
  BY DEF IInv
<1>1. PICK i \in Inputs :
         /\ input' = [input EXCEPT ![r] = i]
         /\ met' = met \cup {<<x, r>> : x \in {y \in Requests : Active(y) /\ Contend(input[y], i)}}
         /\ pc[r] = "idle" /\ UNCHANGED tables
         /\ pc'[r] \in {"find", "bind", "binduser"}
         /\ \A s \in Requests \ {r} : pc'[s] = pc[s]
  BY DEF Start, Goto, TypeOK
<1>2. input'[r] = i /\ \A s \in Requests \ {r} : input'[s] = input[s]
  BY <1>1 DEF TypeOK
<1>3. \A x, y \in Requests : Met(x, y) => Met(x, y)'
  BY <1>1 DEF Met
<1>4. \A x \in Requests : /\ Decided(x)' <=> Decided(x)
                          /\ Decided(x) => x # r
  BY <1>1 DEF Decided, OverlapInv, DecidersOK, tables
<1>5. \A id \in ResetIds : /\ IsReset(id)' <=> IsReset(id)
                           /\ Pending(id)' <=> Pending(id)
                           /\ IsReset(id) => resets[id].token \in Requests \ {r}
  <2>1. \A id \in ResetIds : IsReset(id) => resets[id].token \in Requests
    BY DEF TypeOK, IsReset, ResetRow
  <2> QED
    BY <1>1, <2>1 DEF IsReset, Pending, OverlapInv, CreatorsOK, CreatorOK, tables
<1>6. ActiveMet'
  <2> SUFFICES ASSUME NEW s \in Requests, NEW x \in Requests, s # x, Active(s)', Active(x)',
                      Contend(input'[s], input'[x])
               PROVE  Met(s, x)'
    BY DEF ActiveMet
  <2>1. \A y \in Requests \ {r} : Active(y)' => Active(y)
    BY <1>1 DEF Active, Over
  <2>2. CASE s = r
    BY <1>1, <1>2, <2>1, <2>2 DEF Met, Contend
  <2>3. CASE x = r
    BY <1>1, <1>2, <2>1, <2>3 DEF Met
  <2>4. CASE s # r /\ x # r
    BY <1>2, <1>3, <2>1, <2>4 DEF OverlapInv, ActiveMet
  <2> QED
    BY <2>2, <2>3, <2>4
<1>7. DecidersOK'
  <2> SUFFICES ASSUME NEW x \in Requests, Decided(x)
               PROVE  /\ pc'[x] \in {"refresh", "done", "error"}
                      /\ input'[x] \in Inputs /\ input'[x].op \in {"approve", "decline"}
                      /\ input'[x].id < nextId' /\ ~Pending(input[x].id)'
    BY <1>2, <1>4 DEF DecidersOK
  <2>1. /\ input[x] \in Inputs /\ input[x].op \in {"approve", "decline"}
        /\ input[x].id < nextId /\ ~Pending(input[x].id)
        /\ pc[x] \in {"refresh", "done", "error"}
    BY DEF OverlapInv, DecidersOK
  <2>2. input[x].id \in ResetIds
    BY <2>1, InputFields
  <2> QED
    BY <1>1, <1>2, <1>4, <1>5, <2>1, <2>2 DEF tables
<1>8. DecidingMet'
  BY <1>1, <1>2, <1>3, <1>4 DEF OverlapInv, DecidingMet, Deciding
<1>9. DecidedOnce'
  BY <1>2, <1>3, <1>4 DEF OverlapInv, DecidedOnce
<1>10. CreatorsOK'
  BY <1>1, <1>2, <1>5 DEF OverlapInv, CreatorsOK, CreatorOK, tables
<1>11. CreatingMet'
  BY <1>1, <1>2, <1>3, <1>5 DEF OverlapInv, CreatingMet, tables, Pending
<1>12. OnePendingPerUser'
  BY <1>1, <1>3, <1>5 DEF OverlapInv, OnePendingPerUser, tables, Pending
<1> QED
  BY <1>6, <1>7, <1>8, <1>9, <1>10, <1>11, <1>12 DEF OverlapInv

\* A reset row is created: it met the rows that the look for a pending one missed.
LEMMA OverlapCreate ==
    ASSUME IInv, OverlapInv, NEW r \in Requests, CreateReset(r), ~Fail(r) PROVE OverlapInv'
<1> TypeOK
  BY DEF IInv
<1> DEFINE row == [user |-> input[r].user, token |-> r, temp |-> Null,
                    status |-> "pending", by |-> Null]
<1>1. /\ pc[r] = "create" /\ nextId \in ResetIds
      /\ resets' = [resets EXCEPT ![nextId] = row]
      /\ nextId' = nextId + 1 /\ pc'[r] = "pluck"
      /\ \A s \in Requests \ {r} : pc'[s] = pc[s]
      /\ UNCHANGED <<users, notices, met, input>>
  BY DEF CreateReset, Goto, TypeOK, frames
<1>2. input[r].op = "forgot" /\ row.user = input[r].user /\ row.token = r
  BY <1>1 DEF IInv, ControlOK
<1> HIDE DEF row
<1>3. \A id \in ResetIds : resets'[id] = IF id = nextId THEN row ELSE resets[id]
  BY <1>1 DEF TypeOK
<1>4. \A id \in ResetIds \ {nextId} : /\ IsReset(id)' <=> IsReset(id)
                                      /\ Pending(id)' <=> Pending(id)
  BY <1>3 DEF IsReset, Pending
<1>5. \A id \in ResetIds : IsReset(id) => resets[id].token \in Requests \ {r}
  <2>1. \A id \in ResetIds : IsReset(id) => resets[id].token \in Requests
    BY DEF TypeOK, IsReset, ResetRow
  <2> QED
    BY <1>1, <2>1 DEF OverlapInv, CreatorsOK, CreatorOK
<1>6. \A x, y \in Requests : (Met(x, y)' <=> Met(x, y)) /\ (Met(x, y) <=> Met(y, x))
  BY <1>1 DEF Met
<1>7. \A x \in Requests : Decided(x)' <=> Decided(x)
  BY <1>1 DEF Decided
<1>8. \A x \in Requests : Active(x)' <=> Active(x)
  BY <1>1 DEF Active, Over
<1>9. ActiveMet'
  BY <1>1, <1>6, <1>8 DEF OverlapInv, ActiveMet
<1>10. DecidersOK'
  <2> SUFFICES ASSUME NEW x \in Requests, Decided(x)
               PROVE  /\ pc'[x] \in {"refresh", "done", "error"}
                      /\ input[x] \in Inputs /\ input[x].op \in {"approve", "decline"}
                      /\ input[x].id < nextId' /\ ~Pending(input[x].id)'
    BY <1>1, <1>7 DEF DecidersOK
  <2>1. /\ input[x] \in Inputs /\ input[x].op \in {"approve", "decline"}
        /\ input[x].id < nextId /\ ~Pending(input[x].id)
        /\ pc[x] \in {"refresh", "done", "error"}
    BY DEF OverlapInv, DecidersOK
  <2>2. input[x].id \in ResetIds /\ input[x].id \in Nat /\ nextId \in Nat
    BY <2>1, InputFields, ResetIdsNat DEF TypeOK
  <2>3. input[x].id # nextId /\ input[x].id < nextId + 1
    BY <2>1, <2>2
  <2> QED
    BY <1>1, <1>4, <2>1, <2>2, <2>3
<1>11. DecidingMet'
  BY <1>1, <1>6, <1>7 DEF OverlapInv, DecidingMet, Deciding
<1>12. DecidedOnce'
  BY <1>1, <1>6, <1>7 DEF OverlapInv, DecidedOnce
<1>13. CreatorsOK'
  <2>1. ASSUME NEW id \in ResetIds, id = nextId PROVE CreatorOK(id)'
    BY <1>1, <1>2, <1>3, <2>1 DEF CreatorOK
  <2>2. ASSUME NEW id \in ResetIds \ {nextId}, IsReset(id) PROVE CreatorOK(id)'
    BY <1>1, <1>3, <1>5, <2>2 DEF OverlapInv, CreatorsOK, CreatorOK
  <2>3. \A id \in ResetIds : IsReset(id)' => CreatorOK(id)'
    BY <1>4, <2>1, <2>2
  <2> QED
    BY <2>3 DEF CreatorsOK
<1>14. CreatingMet'
  <2> SUFFICES ASSUME NEW s \in Requests, NEW id \in ResetIds, pc'[s] = "create",
                      Pending(id)', resets'[id].user = input[s].user
               PROVE  Met(s, resets'[id].token)
    BY <1>1 DEF CreatingMet, Met
  <2>1. s # r /\ pc[s] = "create" /\ input[s].op = "forgot"
    BY <1>1 DEF IInv, ControlOK
  <2>2. CASE id = nextId
    <3>1. Active(s) /\ Active(r) /\ Contend(input[s], input[r])
      BY <1>1, <1>2, <1>3, <2>1, <2>2 DEF Active, Over, Contend
    <3> QED
      BY <1>2, <1>3, <2>1, <2>2, <3>1 DEF OverlapInv, ActiveMet
  <2>3. CASE id # nextId
    BY <1>3, <1>4, <2>1, <2>3 DEF OverlapInv, CreatingMet
  <2> QED
    BY <2>2, <2>3
<1>15. OnePendingPerUser'
  <2> SUFFICES ASSUME NEW id \in ResetIds, NEW y \in ResetIds, id # y, Pending(id)', Pending(y)',
                      resets'[id].user = resets'[y].user
               PROVE  Met(resets'[id].token, resets'[y].token)
    BY <1>1 DEF OnePendingPerUser, Met
  <2>1. ASSUME NEW z \in ResetIds \ {nextId}, Pending(z), resets[z].user = input[r].user
        PROVE  Met(r, resets[z].token) /\ Met(resets[z].token, r)
    BY <1>1, <1>5, <1>6, <2>1 DEF OverlapInv, CreatingMet, Pending
  <2>2. CASE id = nextId
    BY <1>2, <1>3, <1>4, <2>1, <2>2
  <2>3. CASE y = nextId
    BY <1>2, <1>3, <1>4, <2>1, <2>3
  <2>4. CASE id # nextId /\ y # nextId
    BY <1>3, <1>4, <2>4 DEF OverlapInv, OnePendingPerUser
  <2> QED
    BY <2>2, <2>3, <2>4
<1> QED
  BY <1>9, <1>10, <1>11, <1>12, <1>13, <1>14, <1>15 DEF OverlapInv

\* A decision commits: it met whoever decided the row, or is about to.
LEMMA OverlapCommit ==
    ASSUME IInv, OverlapInv, NEW r \in Requests, Commit(r) PROVE OverlapInv'
<1> TypeOK
  BY DEF IInv
<1>1. /\ pc[r] = "commit" /\ input[r].op \in {"approve", "decline"} /\ input[r] \in Inputs
      /\ input[r].id \in ResetIds /\ IsReset(input[r].id) /\ input[r].id < nextId
  BY InputFields DEF Commit, IInv, ControlOK, HoldsOK, Deciding
<1> DEFINE row == DecidedRow(r, resets[input[r].id])
<1>2. /\ row.status # "pending"
      /\ row.user = resets[input[r].id].user /\ row.token = resets[input[r].id].token
  BY <1>1 DEF DecidedRow, TypeOK, IsReset, ResetRow
<1> HIDE DEF row
<1>3. /\ \A id \in ResetIds : resets'[id] = IF id = input[r].id THEN row ELSE resets[id]
      /\ pc'[r] \in {"refresh", "done"}
      /\ \A s \in Requests \ {r} : pc'[s] = pc[s]
      /\ UNCHANGED <<nextId, met, input>>
  BY <1>1 DEF Commit, Goto, TypeOK, frames, row
<1>4. \A x \in Requests : Decided(x)' => x = r \/ Decided(x)
  BY DEF Commit, NoticeOf, Decided
<1>5. \A id \in ResetIds : /\ Pending(id)' => id # input[r].id /\ Pending(id)
                           /\ IsReset(id)' => /\ IsReset(id)
                                              /\ resets'[id].user = resets[id].user
                                              /\ resets'[id].token = resets[id].token
  BY <1>1, <1>2, <1>3 DEF Pending, IsReset
<1>6. \A x, y \in Requests : (Met(x, y)' <=> Met(x, y)) /\ (Met(x, y) <=> Met(y, x))
  BY <1>3 DEF Met
<1>7. \A x \in Requests : Active(x)' => Active(x)
  BY <1>1, <1>3 DEF Active, Over
<1>8. ActiveMet'
  BY <1>3, <1>6, <1>7 DEF OverlapInv, ActiveMet
<1>9. DecidersOK'
  <2> SUFFICES ASSUME NEW x \in Requests, Decided(x)'
               PROVE  /\ pc'[x] \in {"refresh", "done", "error"}
                      /\ input[x] \in Inputs /\ input[x].op \in {"approve", "decline"}
                      /\ input[x].id < nextId /\ ~Pending(input[x].id)'
    BY <1>3 DEF DecidersOK
  <2>1. CASE x = r
    BY <1>1, <1>3, <1>5, <2>1
  <2>2. CASE x # r
    <3>1. /\ input[x] \in Inputs /\ input[x].op \in {"approve", "decline"}
          /\ input[x].id < nextId /\ ~Pending(input[x].id)
          /\ pc[x] \in {"refresh", "done", "error"}
      BY <1>4, <2>2 DEF OverlapInv, DecidersOK
    <3>2. input[x].id \in ResetIds
      BY <3>1, InputFields
    <3> QED
      BY <1>3, <1>5, <2>2, <3>1, <3>2
  <2> QED
    BY <2>1, <2>2
<1>10. DecidingMet'
  <2> SUFFICES ASSUME NEW s \in Requests, NEW x \in Requests, s # x, pc'[s] \in Deciding,
                      Decided(x)', input[s].id = input[x].id
               PROVE  Met(s, x)
    BY <1>3, <1>6 DEF DecidingMet
  <2>1. s # r /\ pc[s] \in Deciding
    BY <1>3 DEF Deciding
  <2>2. CASE x = r
    <3>1. Active(s) /\ Active(r) /\ input[s].op \in {"approve", "decline"}
      BY <1>1, <2>1 DEF IInv, ControlOK, Active, Over, Deciding
    <3>2. Contend(input[s], input[r])
      BY <1>1, <2>2, <3>1 DEF Contend
    <3> QED
      BY <2>1, <2>2, <3>1, <3>2 DEF OverlapInv, ActiveMet
  <2>3. CASE x # r
    BY <1>4, <2>1, <2>3 DEF OverlapInv, DecidingMet
  <2> QED
    BY <2>2, <2>3
<1>11. DecidedOnce'
  <2>1. ASSUME NEW x \in Requests, x # r, Decided(x), input[r].id = input[x].id
        PROVE  Met(r, x) /\ Met(x, r)
    BY <1>1, <1>6, <2>1 DEF OverlapInv, DecidingMet, Deciding
  <2> QED
    BY <1>3, <1>4, <1>6, <2>1 DEF OverlapInv, DecidedOnce
<1>12. CreatorsOK'
  <2>1. \A id \in ResetIds : IsReset(id) => resets[id].token \in Requests \ {r}
    <3>1. \A id \in ResetIds : IsReset(id) => resets[id].token \in Requests
      BY DEF TypeOK, IsReset, ResetRow
    <3> QED
      BY <1>1, <3>1 DEF OverlapInv, CreatorsOK, CreatorOK
  <2> QED
    BY <1>3, <1>5, <2>1 DEF OverlapInv, CreatorsOK, CreatorOK
<1>13. CreatingMet'
  <2> SUFFICES ASSUME NEW s \in Requests, NEW id \in ResetIds, pc'[s] = "create",
                      Pending(id)', resets'[id].user = input[s].user
               PROVE  Met(s, resets'[id].token)
    BY <1>3 DEF CreatingMet, Met
  <2>1. pc[s] = "create" /\ Pending(id) /\ IsReset(id)'
    BY <1>3, <1>5 DEF Pending
  <2> QED
    BY <1>5, <2>1 DEF OverlapInv, CreatingMet
<1>14. OnePendingPerUser'
  <2> SUFFICES ASSUME NEW id \in ResetIds, NEW y \in ResetIds, id # y, Pending(id)', Pending(y)',
                      resets'[id].user = resets'[y].user
               PROVE  Met(resets'[id].token, resets'[y].token)
    BY <1>3 DEF OnePendingPerUser, Met
  <2>1. IsReset(id)' /\ IsReset(y)'
    BY DEF Pending
  <2> QED
    BY <1>5, <2>1 DEF OverlapInv, OnePendingPerUser
<1> QED
  BY <1>8, <1>9, <1>10, <1>11, <1>12, <1>13, <1>14 DEF OverlapInv

LEMMA OverlapStep == IInv /\ OverlapInv /\ [Next]_vars => OverlapInv'
<1> SUFFICES ASSUME IInv, OverlapInv, [Next]_vars PROVE OverlapInv'
  OBVIOUS
<1> TypeOK
  BY DEF IInv
<1>1. ASSUME NEW r \in Requests, Start(r) \/ Step(r) \/ Crash(r) PROVE OverlapInv'
  <2>1. CASE Start(r)
    BY <2>1, OverlapStart
  <2>2. CASE CreateReset(r) /\ ~Fail(r)
    BY <2>2, OverlapCreate
  <2>3. CASE Commit(r)
    BY <2>3, OverlapCommit
  <2>4. ASSUME Active(r), Fail(r) PROVE OverlapInv'
    <3>1. /\ UNCHANGED <<nextId, met, input, resets, notices>> /\ pc'[r] = "error"
          /\ \A s \in Requests \ {r} : pc'[s] = pc[s]
      BY <2>4 DEF Fail, Goto, TypeOK, tables, frames
    <3> QED
      BY <2>4, <3>1, OverlapKept DEF Deciding, IsReset
  <2>5. CASE DeadlockVictim(r) \/ Crash(r)
    BY <2>4, <2>5, VictimIsActive DEF DeadlockVictim, Crash
  <2>6. CASE \/ FindUser(r) \/ CheckPending(r) \/ PluckAdmins(r) \/ NotifyAdmin(r)
             \/ BindReset(r) \/ LoadUser(r) \/ SetPassword(r) \/ SetStatus(r)
             \/ ReferApprover(r) \/ InsertNotice(r) \/ Refresh(r) \/ BindUser(r)
             \/ RegeneratePassword(r) \/ DeleteUser(r) \/ CascadeDelete(r)
    <3>1. Active(r)
      BY <2>6 DEF Active, Over, FindUser, CheckPending, PluckAdmins, NotifyAdmin, BindReset,
         LoadUser, SetPassword, SetStatus, ReferApprover, InsertNotice, Refresh, BindUser,
         RegeneratePassword, DeleteUser, CascadeDelete
    <3>2. CASE FindUser(r) \/ CheckPending(r) \/ PluckAdmins(r) \/ BindReset(r)
      <4>1. /\ UNCHANGED <<nextId, met, input, resets, notices>>
            /\ \A s \in Requests \ {r} : pc'[s] = pc[s]
        BY <3>2 DEF FindUser, CheckPending, PluckAdmins, BindReset, Goto, TypeOK, tables, frames
      <4>2. /\ pc[r] \notin {"refresh", "notify"}
            /\ pc[r] = "pluck" => pc'[r] = "notify"
            /\ pc'[r] \in Deciding => Pending(input[r].id)
            /\ pc'[r] = "create" =>
                   \A id \in ResetIds : Pending(id) => resets[id].user # input[r].user
        BY <3>2 DEF FindUser, CheckPending, PluckAdmins, BindReset, Goto, TypeOK, Deciding
      <4> QED
        BY <3>1, <4>1, <4>2, OverlapKept DEF IsReset
    <3>3. CASE Refresh(r) \/ BindUser(r) \/ RegeneratePassword(r) \/ DeleteUser(r)
      <4>1. /\ UNCHANGED <<nextId, met, input, resets, notices>>
            /\ \A s \in Requests \ {r} : pc'[s] = pc[s]
        BY <3>3 DEF Refresh, BindUser, RegeneratePassword, DeleteUser, Goto, TypeOK,
           tables, frames
      <4>2. /\ pc[r] \notin {"pluck", "notify"}
            /\ pc'[r] \in {"done", "error", "regenerate", "delete", "cascade"}
            /\ pc[r] = "refresh" => pc'[r] \in {"done", "error"}
        BY <3>3 DEF Refresh, BindUser, RegeneratePassword, DeleteUser, Goto, TypeOK
      <4> QED
        BY <3>1, <4>1, <4>2, OverlapKept DEF Deciding, IsReset
    <3>4. CASE ~Fail(r) /\ (\/ LoadUser(r) \/ SetPassword(r) \/ SetStatus(r)
                          \/ ReferApprover(r) \/ InsertNotice(r))
      <4>1. /\ UNCHANGED <<nextId, met, input, resets, notices>>
            /\ \A s \in Requests \ {r} : pc'[s] = pc[s]
        BY <3>4 DEF LoadUser, SetPassword, SetStatus, ReferApprover, InsertNotice, Goto, TypeOK,
           tables, frames
      <4>2. pc[r] \in Deciding /\ pc'[r] \in Deciding
        BY <3>4 DEF LoadUser, SetPassword, SetStatus, ReferApprover, InsertNotice, Goto, TypeOK,
           Deciding
      <4> QED
        BY <3>1, <4>1, <4>2, OverlapKept DEF Deciding, IsReset
    <3>5. CASE NotifyAdmin(r) /\ ~Fail(r)
      <4>1. /\ UNCHANGED <<nextId, met, input, resets>> /\ pc[r] = "notify"
            /\ \A s \in Requests \ {r} : pc'[s] = pc[s]
            /\ pc'[r] \in {"notify", "done"}
        BY <3>5 DEF NotifyAdmin, Goto, TypeOK, tables, frames
      <4>2. \A n \in notices' : n \in notices \/ n.kind = "requested"
        BY <3>5 DEF NotifyAdmin, tables
      <4> QED
        BY <3>1, <4>1, <4>2, OverlapKept DEF Deciding, IsReset
    <3>6. CASE CascadeDelete(r) /\ ~Fail(r)
      <4>1. /\ UNCHANGED <<nextId, met, input, notices>>
            /\ \A s \in Requests \ {r} : pc'[s] = pc[s]
            /\ pc[r] = "cascade" /\ pc'[r] = "done"
        BY <3>6 DEF CascadeDelete, Goto, TypeOK, frames
      <4>2. ASSUME NEW id \in ResetIds, IsReset(id)'
            PROVE  /\ IsReset(id) /\ resets'[id].user = resets[id].user
                   /\ resets'[id].token = resets[id].token
                   /\ resets'[id].status = resets[id].status
        <5>1. \/ resets'[id] = resets[id]
              \/ IsReset(id) /\ resets'[id] = [resets[id] EXCEPT !.by = Null]
          BY <3>6, <4>2 DEF CascadeDelete, ApprovedBy, IsReset
        <5>2. IsReset(id) => resets[id] \in ResetRow
          BY DEF TypeOK, IsReset
        <5> QED
          BY <4>2, <5>1, <5>2 DEF IsReset, ResetRow
      <4> QED
        BY <3>1, <4>1, <4>2, OverlapKept DEF Deciding
    <3> QED
      BY <2>4, <2>6, <3>1, <3>2, <3>3, <3>4, <3>5, <3>6
  <2>7. CASE CreateReset(r) /\ Fail(r)
    BY <2>4, <2>7 DEF CreateReset, Active, Over
  <2> QED
    BY <1>1, <2>1, <2>2, <2>3, <2>5, <2>6, <2>7 DEF Step
<1>2. CASE UNCHANGED vars
  BY <1>2 DEF OverlapInv, ActiveMet, DecidersOK, DecidingMet, DecidedOnce, CreatorsOK, CreatorOK,
     CreatingMet, OnePendingPerUser, Met, Decided, Active, Over, IsReset, Pending,
     vars, tables, frames
<1> QED
  BY <1>1, <1>2 DEF Next, Finished

\* However many requests run together: two that decided one reset row met, and the
\* creators of two pending rows of one user met.
THEOREM OverlapInvariance == Spec => []OverlapInv
<1>1. Init => OverlapInv
  BY DEF Init, OverlapInv, ActiveMet, DecidersOK, DecidingMet, DecidedOnce, CreatorsOK,
     CreatingMet, OnePendingPerUser, Decided, Active, IsReset, Pending, Deciding
<1> QED
  BY <1>1, OverlapStep, Invariance, PTL DEF Spec

\* The status check of approve and decline only misses a decision that is under
\* way when the request begins, or begins while it runs.
THEOREM DecisionsStand == Spec => []DecidedOnce
<1>1. OverlapInv => DecidedOnce
  BY DEF OverlapInv
<1> QED
  BY <1>1, OverlapInvariance, PTL

\* The look for a pending reset only misses one that is being created at the time.
THEOREM PendingIsUnique == Spec => []OnePendingPerUser
<1>1. OverlapInv => OnePendingPerUser
  BY DEF OverlapInv
<1> QED
  BY <1>1, OverlapInvariance, PTL

-----------------------------------------------------------------------------
(***************************************************************************)
(* What show() shows.  The row that an approval decided keeps its password *)
(* as long as the user does (PasswordsOnFile); if the row is declined, it  *)
(* was declined by a request that decided it too, and so met the approval. *)
(***************************************************************************)
PasswordsDecided ==
    \A u \in Everyone : users[u] \in Requests /\ input[users[u]].op = "approve"
        => Decided(users[u])

DeclinedBy(x, id) == input[x].op = "decline" /\ input[x].id = id /\ Decided(x)

DeclinesDecided ==
    \A id \in ResetIds : IsReset(id) /\ resets[id].status = "declined"
        => \E x \in Requests : DeclinedBy(x, id)

\* Steps that give no user an approved password and decline no row.
LEMMA DecidedKept ==
    ASSUME PasswordsDecided, DeclinesDecided, UNCHANGED input, notices \subseteq notices',
           \A u \in Everyone : \/ users'[u] = users[u]
                               \/ users'[u] \notin Requests
                               \/ input[users'[u]].op # "approve",
           \A id \in ResetIds : IsReset(id)' =>
               \/ resets'[id].status = "pending"
               \/ IsReset(id) /\ resets'[id].status = resets[id].status
    PROVE  PasswordsDecided' /\ DeclinesDecided'
<1>1. \A x \in Requests : Decided(x) => Decided(x)'
  BY DEF Decided
<1>2. PasswordsDecided'
  BY <1>1 DEF PasswordsDecided
<1>3. DeclinesDecided'
  BY <1>1 DEF DeclinesDecided, DeclinedBy
<1> QED
  BY <1>2, <1>3

LEMMA DecidedCommit ==
    ASSUME IInv, PasswordsDecided, DeclinesDecided, NEW r \in Requests, Commit(r)
    PROVE  PasswordsDecided' /\ DeclinesDecided'
<1> TypeOK
  BY DEF IInv
<1>1. /\ input[r].op \in {"approve", "decline"} /\ input[r].id \in ResetIds
      /\ IsReset(input[r].id) /\ input' = input
  BY InputFields DEF Commit, IInv, ControlOK, HoldsOK, Deciding, frames
<1>2. \A x \in Requests : Decided(x) \/ x = r => Decided(x)'
  <2> DEFINE n == [to |-> UserOf(r), from |-> r,
                   kind |-> IF input[r].op = "approve" THEN "approved" ELSE "declined"]
  <2>1. notices' = notices \cup {n} /\ n.from = r /\ n.kind # "requested"
    BY DEF Commit, NoticeOf
  <2> QED
    BY <2>1 DEF Decided
<1>3. \A u \in Everyone : users'[u] = users[u] \/ users'[u] = r
  BY DEF Commit, TypeOK
<1>4. PasswordsDecided'
  BY <1>1, <1>2, <1>3 DEF PasswordsDecided
<1>5. ASSUME NEW id \in ResetIds, IsReset(id)', resets'[id].status = "declined"
      PROVE  \E x \in Requests : DeclinedBy(x, id)'
  <2>1. CASE id = input[r].id /\ input[r].op = "decline"
    BY <1>1, <1>2, <2>1 DEF DeclinedBy
  <2>2. CASE id = input[r].id /\ input[r].op = "approve"
    <3>1. resets'[id].status = "approved"
      BY <1>1, <2>2 DEF Commit, DecidedRow, TypeOK, IsReset, ResetRow
    <3> QED
      BY <1>5, <3>1
  <2>3. CASE id # input[r].id
    <3>1. resets'[id] = resets[id]
      BY <2>3 DEF Commit, TypeOK
    <3> QED
      BY <1>1, <1>2, <1>5, <3>1 DEF DeclinesDecided, DeclinedBy, IsReset
  <2> QED
    BY <1>1, <2>1, <2>2, <2>3
<1> QED
  BY <1>4, <1>5 DEF DeclinesDecided

LEMMA DecidedStep ==
    IInv /\ OverlapInv /\ PasswordsDecided /\ DeclinesDecided /\ [Next]_vars
        => PasswordsDecided' /\ DeclinesDecided'
<1> SUFFICES ASSUME IInv, OverlapInv, PasswordsDecided, DeclinesDecided, [Next]_vars
             PROVE  PasswordsDecided' /\ DeclinesDecided'
  OBVIOUS
<1> TypeOK
  BY DEF IInv
<1>1. CASE UNCHANGED <<tables, input>>
  BY <1>1, DecidedKept DEF tables, IsReset
<1>2. ASSUME NEW r \in Requests, Start(r) \/ Step(r) \/ Crash(r)
      PROVE  PasswordsDecided' /\ DeclinesDecided'
  <2>1. CASE Start(r)
    <3>1. /\ UNCHANGED tables /\ pc[r] = "idle"
          /\ \A s \in Requests \ {r} : input'[s] = input[s]
      BY <2>1 DEF Start, TypeOK
    <3>2. \A x \in Requests : Decided(x) => x # r /\ Decided(x)'
      BY <3>1 DEF OverlapInv, DecidersOK, Decided, tables
    <3>3. \A u \in Everyone : users[u] # r
      BY <3>1 DEF IInv, UsedPasswords
    <3>4. PasswordsDecided'
      BY <3>1, <3>2, <3>3 DEF PasswordsDecided, tables
    <3>5. DeclinesDecided'
      BY <3>1, <3>2 DEF DeclinesDecided, DeclinedBy, IsReset, tables
    <3> QED
      BY <3>4, <3>5
  <2>2. CASE Fail(r) \/ Crash(r)
    BY <2>2, <1>1 DEF Fail, Crash, frames
  <2>3. CASE Commit(r)
    BY <2>3, DecidedCommit
  <2>4. CASE CreateReset(r) /\ ~Fail(r)
    <3>1. /\ UNCHANGED <<users, notices, input>>
          /\ resets' = [resets EXCEPT ![nextId] =
                 [user |-> input[r].user, token |-> r, temp |-> Null,
                  status |-> "pending", by |-> Null]]
      BY <2>4 DEF CreateReset, frames
    <3>2. \A id \in ResetIds : resets'[id] = resets[id] \/ resets'[id].status = "pending"
      BY <3>1 DEF TypeOK
    <3> QED
      BY <3>1, <3>2, DecidedKept DEF IsReset
  <2>5. CASE NotifyAdmin(r)
    <3>1. UNCHANGED <<users, resets, input>> /\ notices \subseteq notices'
      BY <2>2, <2>5, <1>1 DEF NotifyAdmin, Fail, tables, frames
    <3> QED
      BY <3>1, DecidedKept DEF IsReset
  <2>6. CASE RegeneratePassword(r)
    <3>1. /\ UNCHANGED <<resets, notices, input>> /\ input[r].op # "approve"
          /\ \A u \in Everyone : users'[u] \in {users[u], r}
      BY <2>6 DEF RegeneratePassword, IInv, ControlOK, TypeOK, frames
    <3> QED
      BY <3>1, DecidedKept DEF IsReset
  <2>7. CASE CascadeDelete(r) /\ ~Fail(r)
    <3>1. /\ UNCHANGED <<notices, input>>
          /\ \A u \in Everyone : users'[u] \in {users[u], Gone}
      BY <2>7 DEF CascadeDelete, TypeOK, frames
    <3>2. ASSUME NEW id \in ResetIds, IsReset(id)'
          PROVE  IsReset(id) /\ resets'[id].status = resets[id].status
      <4>1. \/ resets'[id] = resets[id]
            \/ IsReset(id) /\ resets'[id] = [resets[id] EXCEPT !.by = Null]
        BY <2>7, <3>2 DEF CascadeDelete, ApprovedBy, IsReset
      <4>2. IsReset(id) => resets[id] \in ResetRow
        BY DEF TypeOK, IsReset
      <4> QED
        BY <3>2, <4>1, <4>2 DEF IsReset, ResetRow
    <3>3. Gone \notin Requests
      BY ResetNames DEF Passwords
    <3> QED
      BY <3>1, <3>2, <3>3, DecidedKept
  <2>8. CASE \/ FindUser(r) \/ CheckPending(r) \/ PluckAdmins(r) \/ BindReset(r)
             \/ LoadUser(r) \/ SetPassword(r) \/ SetStatus(r) \/ ReferApprover(r)
             \/ InsertNotice(r) \/ Refresh(r) \/ BindUser(r) \/ DeleteUser(r)
    BY <2>2, <2>8, <1>1 DEF FindUser, CheckPending, PluckAdmins, BindReset, LoadUser,
       SetPassword, SetStatus, ReferApprover, InsertNotice, Refresh, BindUser, DeleteUser, frames
  <2> QED
    BY <1>2, <2>1, <2>2, <2>3, <2>4, <2>5, <2>6, <2>7, <2>8 DEF Step, DeadlockVictim
<1> QED
  BY <1>1, <1>2 DEF Next, Finished, vars, frames

\* While a user has the password of an approval, its request shows it to the
\* admins, unless a decline of the same request overlapped the approval: for any
\* number of admins who approve, decline, regenerate and delete at once.
THEOREM ApprovedPasswordsAreShown == Spec => []ApprovedPasswordIsShown
<1>1. Init => PasswordsDecided /\ DeclinesDecided
  BY ResetNames DEF Init, PasswordsDecided, DeclinesDecided, IsReset
<1>2. IInv /\ OverlapInv /\ PasswordsDecided /\ DeclinesDecided => ApprovedPasswordIsShown
  <2> SUFFICES ASSUME IInv, OverlapInv, PasswordsDecided, DeclinesDecided,
                      NEW u \in Everyone, NEW r \in Requests, users[u] = r,
                      input[r].op = "approve"
               PROVE  /\ OnFile(u, input[r].id)
                      /\ \/ ShownPassword(input[r].id) = r
                         \/ \E x \in Requests : /\ input[x].op = "decline"
                                                /\ input[x].id = input[r].id
                                                /\ Decided(x) /\ Met(r, x)
    BY DEF ApprovedPasswordIsShown, OnFile
  <2>1. OnFile(u, input[r].id) /\ Decided(r)
    BY DEF IInv, PasswordsOnFile, PasswordsDecided
  <2>2. resets[input[r].id].status \in {"approved", "declined"}
    BY <2>1 DEF OnFile, IInv, TypeOK, IsReset, ResetRow
  <2>3. CASE resets[input[r].id].status = "approved"
    BY <2>1, <2>3 DEF OnFile, ShownPassword
  <2>4. CASE resets[input[r].id].status = "declined"
    <3>1. PICK x \in Requests : DeclinedBy(x, input[r].id)
      BY <2>1, <2>4 DEF DeclinesDecided, OnFile
    <3>2. x # r /\ Met(r, x)
      BY <2>1, <3>1 DEF DeclinedBy, OverlapInv, DecidedOnce
    <3> QED
      BY <2>1, <3>1, <3>2 DEF DeclinedBy
  <2> QED
    BY <2>2, <2>3, <2>4
<1> QED
  BY <1>1, <1>2, DecidedStep, Invariance, OverlapInvariance, PTL DEF Spec
=============================================================================
