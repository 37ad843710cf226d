--------------------------- MODULE MCPasswordReset ---------------------------
(***************************************************************************)
(* A member who forgets the password, two admins, and requests that ask    *)
(* for resets, decide them, change passwords and delete users.             *)
(***************************************************************************)
EXTENDS PasswordReset, TLC

CONSTANTS r1, r2, r3, r4, u1, a1, a2

Three == {r1, r2, r3}
Four == {r1, r2, r3, r4}
Symmetric3 == Permutations(Three)
Symmetric4 == Permutations(Four)

Forgot(u) == [op |-> "forgot", user |-> u]
Approve(id, a) == [op |-> "approve", id |-> id, by |-> a]
Decline(id, a) == [op |-> "decline", id |-> id, by |-> a]
Regenerate(u) == [op |-> "regenerate", user |-> u]
Destroy(u, a) == [op |-> "destroy", user |-> u, by |-> a]

Deciding == {Forgot(u1), Approve(1, a1), Decline(1, a2)}

\* What meets on the same rows at the same time.
Contending == Deciding \cup {Regenerate(u1), Destroy(u1, a1), Destroy(a1, a2)}

\* What waits for one another: the two decisions and the deletion.
Waiting == {Forgot(u1), Approve(1, a1), Decline(1, a2), Destroy(u1, a2), Regenerate(u1)}
=============================================================================
