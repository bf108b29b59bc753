--------------------------- MODULE MCUserAccount ---------------------------
(***************************************************************************)
(* Instances of UserAccount for TLC.                                       *)
(***************************************************************************)
EXTENDS UserAccount, TLC

CONSTANTS r1, r2, u1, u2, m1, m2, i1, i2, p1, p2

\* Requests, mails, instances and passwords are interchangeable.
MCSymmetry ==
    Permutations(Request) \cup Permutations(Mail)
        \cup Permutations(Instance) \cup Permutations(Password)

\* Each run sees the records that its properties or its bound read: no action
\* reads any of them.
MCSerialView ==
    <<now, users, mails, req, sweepVars, cancelled, confirmed, guesses, approved>>

MCOverlapView ==
    <<now, users, mails, req, sweepVars, withdrawals, approved, tries, applied>>

\* Bound: an account that sees a wrong password is not withdrawn, and the other
\* way round.
MCBound == \A u \in User : tries[u] = 0 \/ withdrawals[u] = {}
=============================================================================
