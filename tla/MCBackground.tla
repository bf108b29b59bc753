---------------------------- MODULE MCBackground ----------------------------
(***************************************************************************)
(* What goes on behind the requests, for TLC: the sweep of withdrawn       *)
(* accounts, the announcements of waiting users, the deletion of a tenant. *)
(* They share no state; the initial state chooses one of them.             *)
(***************************************************************************)
EXTENDS UserAccount, Digest, TenantDeletion

CONSTANTS r1, u1, i1, i2, p1, t1, t2

VARIABLE part

allVars == <<vars, digestVars, deletionVars, part>>

MCInit ==
    /\ Init /\ DigestInit /\ DeletionInit
    /\ part \in {"sweep", "digest", "deletion"}

MCNext ==
    /\ UNCHANGED part
    /\ \/ part = "sweep" /\ Next /\ UNCHANGED <<digestVars, deletionVars>>
       \/ part = "digest" /\ DigestNext /\ UNCHANGED <<vars, deletionVars>>
       \/ part = "deletion" /\ DeletionNext /\ UNCHANGED <<vars, digestVars>>

\* Fairness of UserAccount and DigestFairness, of the part that is active.
MCSweepFairness ==
    /\ WF_vars(part = "sweep" /\ \E i \in Instance : SweepStart(i))
    /\ \A i \in Instance :
           WF_vars(part = "sweep" /\ (SweepEnd(i)
                       \/ \E u \in User : SweepDelete(i, u) \/ SweepSkip(i, u)))
    /\ \A u \in User :
           SF_vars(part = "sweep" /\ \E i \in Instance : SweepDelete(i, u))

MCDigestFairness ==
    /\ \A i \in Server :
        /\ WF_digestVars(part = "digest" /\ TryLock(i))
        /\ WF_digestVars(part = "digest" /\ SelectTenants(i))
        /\ WF_digestVars(part = "digest" /\ \E t \in Room, delivered \in BOOLEAN :
                                                NotifyDigest(i, t, delivered))
        /\ WF_digestVars(part = "digest" /\ EndRun(i))
    /\ \A t \in Reachable :
        SF_digestVars(part = "digest" /\ \E i \in Server : NotifyDigest(i, t, TRUE))

MCSpec == MCInit /\ [][MCNext]_allVars /\ MCSweepFairness /\ MCDigestFairness
=============================================================================
