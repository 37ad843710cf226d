------------------------------- MODULE Directory -------------------------------
(***************************************************************************)
(* What the users table promises, whoever registers, imports, edits or     *)
(* deletes at the same time: names and emails are unique, rows come in     *)
(* batches that appear whole and with password hashes that no row had, a   *)
(* change touches one row, and a row that is gone stays gone.              *)
(***************************************************************************)
CONSTANTS Ids, Row, NoRow

VARIABLES
    dir,    \* the rows, by id
    gone    \* ids that were handed out and have no row any more

IsUser(u) == dir[u] # NoRow

Unique(d) ==
    \A u, w \in Ids : d[u] # NoRow /\ d[w] # NoRow /\ u # w =>
        d[u].name # d[w].name /\ d[u].email # d[w].email

Init == dir \in [Ids -> Row \cup {NoRow}] /\ Unique(dir) /\ gone = {}

\* One registration, one form, or one whole import.
Enrol(new) ==
    /\ new # {}
    /\ \A u \in new : ~IsUser(u) /\ u \notin gone
    /\ dir' \in [Ids -> Row \cup {NoRow}] /\ Unique(dir')
    /\ \A u \in Ids \ new : dir'[u] = dir[u]
    /\ \A u \in new : /\ dir'[u] \in Row
                      /\ \A w \in Ids : IsUser(w) => dir[w].password # dir'[u].password
                      /\ \A w \in new : dir'[u].password = dir'[w].password
    /\ UNCHANGED gone

Amend(u) ==
    /\ IsUser(u)
    /\ dir' \in [Ids -> Row \cup {NoRow}] /\ Unique(dir')
    /\ dir'[u] \in Row
    /\ \A w \in Ids \ {u} : dir'[w] = dir[w]
    /\ UNCHANGED gone

Remove(u) ==
    /\ IsUser(u)
    /\ dir' = [dir EXCEPT ![u] = NoRow]
    /\ gone' = gone \cup {u}

\* The ids of an import that is rolled back are not handed out again.
Waste(ids) ==
    /\ \A u \in ids : ~IsUser(u)
    /\ gone' = gone \cup ids
    /\ UNCHANGED dir

Next ==
    \/ \E ids \in SUBSET Ids : Enrol(ids) \/ Waste(ids)
    \/ \E u \in Ids : Amend(u) \/ Remove(u)

Spec == Init /\ [][Next]_<<dir, gone>>
=============================================================================
