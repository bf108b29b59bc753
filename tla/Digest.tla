------------------------------- MODULE Digest -------------------------------
(***************************************************************************)
(* Announcing users who wait for approval in the chat room of their        *)
(* tenant: at once when they register, and every morning those who are     *)
(* still waiting.                                                          *)
(*                                                                         *)
(* Every instance starts the daily run.  An advisory lock, held while the  *)
(* tenants are selected and no longer, turns the others away.              *)
(***************************************************************************)
EXTENDS Naturals, SequencesExt

CONSTANTS
    Room,       \* tenants with a chat room, one applicant each
    Reachable,  \* rooms that accept a message now and then
    Server,     \* instances of the API
    MaxOutages  \* bound on the crashes of instances

ASSUME DigestAssumption ==
    /\ IsFiniteSet(Room) /\ Reachable \subseteq Room /\ MaxOutages \in Nat

VARIABLES
    applicant,  \* applicant[t]: the user who registered in tenant t
    enabled,    \* tenants whose settings ask for announcements
    runs,       \* runs[i]: the daily run of instance i
    lockHolder, \* who holds the advisory lock: one instance or none
    instant,    \* immediate announcements on their way
    outages,
    announced   \* history: the present applicants who have been announced

digestVars == <<applicant, enabled, runs, lockHolder, instant, outages, announced>>

\* The tenants still to be told, in the order of the query.
RunState == [op : {"idle", "locked"}, left : {<<>>}]
            \cup [op : {"sending"}, left : UNION {SetToSeqs(T) : T \in SUBSET Room}]

Resting == [op |-> "idle", left |-> <<>>]

DigestTypeOK ==
    /\ applicant \in [Room -> {"none", "waiting", "held"}]
    /\ enabled \subseteq Room /\ instant \subseteq Room /\ announced \subseteq Room
    /\ runs \in [Server -> RunState]
    /\ lockHolder \subseteq Server
    /\ outages \in 0 .. MaxOutages

DigestInit ==
    /\ applicant = [t \in Room |-> "none"]
    /\ enabled = Room
    /\ runs = [i \in Server |-> Resting]
    /\ lockHolder = {}
    /\ instant = {} /\ announced = {}
    /\ outages = 0

----------------------------------------------------------------------------
(***************************************************************************)
(* The tenant.                                                             *)
(***************************************************************************)
Register(t) ==
    /\ applicant[t] = "none"
    /\ applicant' = [applicant EXCEPT ![t] = "waiting"]
    /\ instant' = instant \cup {t}
    /\ UNCHANGED <<enabled, runs, lockHolder, outages, announced>>

\* Approved, or gone: the next applicant is somebody else.
Decide(t) ==
    /\ applicant[t] # "none"
    /\ applicant' = [applicant EXCEPT ![t] = "none"]
    /\ announced' = announced \ {t}
    /\ UNCHANGED <<enabled, runs, lockHolder, instant, outages>>

PutOff(t) ==
    /\ applicant[t] = "waiting"
    /\ applicant' = [applicant EXCEPT ![t] = "held"]
    /\ UNCHANGED <<enabled, runs, lockHolder, instant, outages, announced>>

TakeUp(t) ==
    /\ applicant[t] = "held"
    /\ applicant' = [applicant EXCEPT ![t] = "waiting"]
    /\ UNCHANGED <<enabled, runs, lockHolder, instant, outages, announced>>

SwitchNotification(t) ==
    /\ enabled' = IF t \in enabled THEN enabled \ {t} ELSE enabled \cup {t}
    /\ UNCHANGED <<applicant, runs, lockHolder, instant, outages, announced>>

----------------------------------------------------------------------------
(***************************************************************************)
(* Sending.  The room answers, or the call fails or times out.             *)
(***************************************************************************)

\* countPending: held users do not count.
Counts(t) == applicant[t] = "waiting"

\* notifyNewPending: whatever goes wrong is logged and forgotten.
Instant(t, delivered) ==
    /\ t \in instant
    /\ instant' = instant \ {t}
    /\ announced' = IF delivered /\ t \in enabled /\ Counts(t)
                    THEN announced \cup {t} ELSE announced
    /\ UNCHANGED <<applicant, enabled, runs, lockHolder, outages>>

\* findTenantsWithPending: held users are selected as well.
WithPending == {t \in enabled : applicant[t] # "none"}

TryLock(i) ==
    /\ runs[i].op = "idle"
    /\ IF lockHolder = {}
       THEN /\ lockHolder' = {i}
            /\ runs' = [runs EXCEPT ![i].op = "locked"]
       ELSE UNCHANGED <<lockHolder, runs>>
    /\ UNCHANGED <<applicant, enabled, instant, outages, announced>>

SelectTenants(i) ==
    /\ runs[i].op = "locked"
    /\ lockHolder' = {}
    /\ \E order \in SetToSeqs(WithPending) :
            runs' = [runs EXCEPT ![i] = [op |-> "sending", left |-> order]]
    /\ UNCHANGED <<applicant, enabled, instant, outages, announced>>

\* Mutant: a failure ends the run.
StopAt(i, delivered) ==
    runs' = [runs EXCEPT ![i] =
                IF delivered THEN [@ EXCEPT !.left = Tail(@)] ELSE Resting]

GoOn(i, delivered) == runs' = [runs EXCEPT ![i].left = Tail(@)]

\* notifyDigest(t): the settings and the count are read again.
NotifyDigest(i, t, delivered) ==
    /\ runs[i].op = "sending" /\ runs[i].left # <<>>
    /\ t = Head(runs[i].left)
    /\ GoOn(i, delivered)
    /\ announced' = IF delivered /\ t \in enabled /\ Counts(t)
                    THEN announced \cup {t} ELSE announced
    /\ UNCHANGED <<applicant, enabled, lockHolder, instant, outages>>

EndRun(i) ==
    /\ runs[i].op = "sending" /\ runs[i].left = <<>>
    /\ runs' = [runs EXCEPT ![i] = Resting]
    /\ UNCHANGED <<applicant, enabled, lockHolder, instant, outages, announced>>

\* The instance goes down: the database releases its lock; its run and the
\* announcements under way (some or all of them were its own) are lost.
Outage(i) ==
    /\ outages < MaxOutages
    /\ outages' = outages + 1
    /\ runs' = [runs EXCEPT ![i] = Resting]
    /\ lockHolder' = lockHolder \ {i}
    /\ \E lost \in SUBSET instant : instant' = instant \ lost
    /\ UNCHANGED <<applicant, enabled, announced>>

DigestNext ==
    \/ \E t \in Room :
        \/ Register(t) \/ Decide(t) \/ PutOff(t) \/ TakeUp(t)
        \/ SwitchNotification(t)
        \/ \E delivered \in BOOLEAN :
            \/ Instant(t, delivered)
            \/ \E i \in Server : NotifyDigest(i, t, delivered)
    \/ \E i \in Server : TryLock(i) \/ SelectTenants(i) \/ EndRun(i) \/ Outage(i)

DigestSpec == DigestInit /\ [][DigestNext]_digestVars

\* The cron fires every day, a call returns (there is a timeout), and of the
\* calls to a reachable room one succeeds sooner or later.
DigestFairness ==
    /\ \A i \in Server :
        /\ WF_digestVars(TryLock(i))
        /\ WF_digestVars(SelectTenants(i))
        /\ WF_digestVars(\E t \in Room, delivered \in BOOLEAN :
                                        NotifyDigest(i, t, delivered))
        /\ WF_digestVars(EndRun(i))
    /\ \A t \in Reachable :
        SF_digestVars(\E i \in Server : NotifyDigest(i, t, TRUE))

----------------------------------------------------------------------------
\* While an instance selects the tenants no other does: the lock is free again
\* as soon as its holder has selected them, or is gone
\* (pending-approval-digest.service.ts:29-41).
OneSelects ==
    \A i, j \in Server : runs[i].op = "locked" /\ runs[j].op = "locked" => i = j

ToBeTold(i) == Range(runs[i].left)

\* A daily run begins with every tenant that has an applicant and asks to be
\* told, and passes none over: a tenant leaves the list with the call for it,
\* delivered or not, or with the instance.
RunMissesNobody ==
    [][\A i \in Server :
          /\ runs[i].op = "locked" /\ runs'[i].op = "sending" => ToBeTold(i)' = WithPending
          /\ \A t \in ToBeTold(i) \ ToBeTold(i)' :
                 Outage(i) \/ \E delivered \in BOOLEAN : NotifyDigest(i, t, delivered)]_digestVars

\* Nobody waits unannounced for ever in a tenant that wants to be told and
\* whose room can be reached: the daily run makes up for a lost announcement,
\* and the failure of one tenant does not stop the others
\* (pending-approval-digest.service.ts:44-47).
WaitingIsAnnounced ==
    \A t \in Reachable :
        applicant[t] = "waiting" /\ t \in enabled
            ~> t \in announced \/ applicant[t] # "waiting" \/ t \notin enabled
=============================================================================
