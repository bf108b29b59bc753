---------------------------- MODULE UserAccount ----------------------------
(***************************************************************************)
(* The life of the user accounts of one tenant: registration, approval,    *)
(* e-mail verification, login and lockout, password reset, withdrawal and  *)
(* the daily job that deletes expired withdrawals.                         *)
(*                                                                         *)
(* Six parts of the server write the same rows of table users.  All but    *)
(* two of them (the mark left by a registration, and a deletion) load the  *)
(* entity, await, change it and call save.  TypeORM's save is two steps:   *)
(* it SELECTs the row and compares the entity with it, column by column;   *)
(* then it UPDATEs the columns that differ, or INSERTs the entity if there *)
(* was no row.  A request in flight therefore holds a snapshot, brings     *)
(* back every column that somebody else has written since it was taken,    *)
(* and mixes its own columns with those that are written between its       *)
(* comparison and its UPDATE.                                              *)
(***************************************************************************)
EXTENDS Naturals, FiniteSets

CONSTANTS
    Request,        \* slots for requests in flight at the same time
    User,           \* user ids; one per registration, never reused
    Mail,           \* one-time tokens sent by mail
    Instance,       \* server processes that run the daily job
    Password,
    Endpoint,       \* bound: the endpoints that are called
    MaxFailed,      \* MAX_FAILED_ATTEMPTS
    LockTime,       \* LOCKOUT_MINUTES
    MailTtl,        \* lifetime of a one-time token
    Grace,          \* accountDeletionGracePeriodDays
    MaxTime,        \* bound on the clock
    Null,           \* NULL in a column; no instance; no mail
    Unissued,       \* the id has not been drawn yet
    Deleted         \* the row was stored and has been deleted

Status == {"ACTIVE", "INACTIVE", "LOCKED"}

\* pendingApprovalSince and approvalHeldAt matter only as set or NULL; the
\* counter only up to MaxFailed, since the code compares it with >=.
UserRow == [status : Status, deactivatedAt : Nat \cup {Null},
            pending : BOOLEAN, held : BOOLEAN,
            failed : 0 .. MaxFailed, lockedUntil : Nat \cup {Null},
            password : Password]

Column == {"status", "deactivatedAt", "pending", "held", "failed",
           "lockedUntil", "password"}

MailRow == [kind : {"verify", "reset"}, user : User, expires : Nat,
            used : BOOLEAN]

ASSUME TimeAssumption ==
    /\ MaxFailed \in Nat \ {0} /\ LockTime \in Nat /\ MailTtl \in Nat
    /\ Grace \in Nat /\ MaxTime \in Nat

ASSUME MarkerAssumption ==
    /\ Unissued # Deleted
    /\ {Unissued, Deleted} \cap UserRow = {}
    /\ Unissued \notin MailRow
    /\ Null \notin Nat /\ Null \notin Instance /\ Null \notin Mail

VARIABLES
    now,        \* the clock
    users,      \* table users
    mails,      \* email_verification_tokens and password_reset_tokens
    req,        \* local state of each request
    sweepLock,  \* the instance that holds the advisory lock of the job
    sweeping,   \* the instances in the middle of a sweep
    targets,    \* targets[i]: what the sweep of instance i still has to delete
    \* History variables: written by the actions, never read by them.
    withdrawals,    \* withdrawals[u]: when u was withdrawn
    cancelled,      \* users whose last withdrawal was cancelled
    confirmed,      \* mails that were confirmed
    guesses,        \* wrong passwords counted since the last clearing
    approved,       \* users somebody has let in, and nobody shut out by status since
    tries,          \* wrong passwords ever found, up to MaxFailed
    applied         \* users marked as applicants for approval

saved == <<withdrawals, cancelled, confirmed, guesses, approved>>
history == <<saved, tries, applied>>
sweepVars == <<sweepLock, sweeping, targets>>
vars == <<now, users, mails, req, sweepVars, history>>

Stored == {u \in User : users[u] \notin {Unissued, Deleted}}

Sent(kind) == {m \in Mail : mails[m] # Unissued /\ mails[m].kind = kind}

(***************************************************************************)
(* Local states of a request.  An operation of the user service ("user")   *)
(* is told apart from the others only when it saves: until then all of     *)
(* them have done the same, findOne.  A save is on its way to an UPDATE of *)
(* the columns that differed, or to an INSERT.                             *)
(***************************************************************************)
Idle == [op |-> "idle"]

\* On whose behalf a row is saved.
Operation == {"activate", "hold", "lock", "unlock", "disable", "enable",
              "profile", "password", "deactivate", "verify", "confirm",
              "reset", "login", "external", "failure"}

\* The operations that let the account in.
Admitting == {"activate", "unlock", "enable", "verify"}

ReqState ==
    [op : {"idle"}]
    \cup [op : {"user", "login"}, user : User, row : UserRow]
    \cup [op : {"verify", "reset"}, user : User, row : UserRow, mail : Mail]
    \cup [op : {"update", "insert"}, user : User, row : UserRow,
          columns : SUBSET Column, by : Operation, mail : Mail \cup {Null}]
    \cup [op : {"markPending", "issueMail"}, user : User]

Saving == {"update", "insert"}

Holding == {"user", "login", "verify", "reset"} \cup Saving

TypeOK ==
    /\ now \in Nat
    /\ users \in [User -> UserRow \cup {Unissued, Deleted}]
    /\ mails \in [Mail -> MailRow \cup {Unissued}]
    /\ req \in [Request -> ReqState]
    /\ sweepLock \in Instance \cup {Null}
    /\ sweeping \subseteq Instance
    /\ targets \in [Instance -> SUBSET User]
    /\ withdrawals \in [User -> SUBSET Nat]
    /\ cancelled \subseteq User
    /\ confirmed \subseteq Mail
    /\ guesses \in [User -> 0 .. MaxFailed]
    /\ approved \subseteq User
    /\ tries \in [User -> 0 .. MaxFailed]
    /\ applied \subseteq User

Init ==
    /\ now = 0
    /\ users = [u \in User |-> Unissued]
    /\ mails = [m \in Mail |-> Unissued]
    /\ req = [r \in Request |-> Idle]
    /\ sweepLock = Null
    /\ sweeping = {}
    /\ targets = [i \in Instance |-> {}]
    /\ withdrawals = [u \in User |-> {}]
    /\ cancelled = {}
    /\ confirmed = {}
    /\ guesses = [u \in User |-> 0]
    /\ approved = {}
    /\ tries = [u \in User |-> 0]
    /\ applied = {}

(***************************************************************************)
(* What the operations change in a row.                                    *)
(***************************************************************************)
NewRow(status, p) ==
    [status |-> status, deactivatedAt |-> Null, pending |-> FALSE,
     held |-> FALSE, failed |-> 0, lockedUntil |-> Null, password |-> p]

\* Mutant: the scheduled deletion is not cancelled.
ActivatedStillDue(row) ==
    [row EXCEPT !.status = "ACTIVE", !.pending = FALSE, !.held = FALSE]

Activated(row) ==
    [row EXCEPT !.status = "ACTIVE", !.deactivatedAt = Null,
                !.pending = FALSE, !.held = FALSE]

CounterCleared(row) == [row EXCEPT !.failed = 0, !.lockedUntil = Null]

Unlocked(row) ==
    [CounterCleared(row) EXCEPT !.status = "ACTIVE", !.deactivatedAt = Null]

\* A login also ends a lock, whoever set it.
LoggedIn(row) ==
    [CounterCleared(row) EXCEPT
        !.status = IF @ = "LOCKED" THEN "ACTIVE" ELSE @]

Verified(row) ==
    [row EXCEPT !.status = IF @ = "INACTIVE" THEN "ACTIVE" ELSE @]

NextCount(n) == IF n < MaxFailed THEN n + 1 ELSE n

\* Mutant: locks one attempt late.
FailedOffByOne(row) ==
    IF row.failed = MaxFailed
    THEN [row EXCEPT !.lockedUntil = now + LockTime, !.status = "LOCKED"]
    ELSE [row EXCEPT !.failed = NextCount(@)]

\* Mutant: locks one attempt early.
FailedTooEarly(row) ==
    IF NextCount(row.failed) >= MaxFailed - 1
    THEN [row EXCEPT !.failed = MaxFailed, !.status = "LOCKED",
                     !.lockedUntil = now + LockTime]
    ELSE [row EXCEPT !.failed = NextCount(@)]

Failed(row) ==
    IF NextCount(row.failed) >= MaxFailed
    THEN [row EXCEPT !.failed = MaxFailed, !.status = "LOCKED",
                     !.lockedUntil = now + LockTime]
    ELSE [row EXCEPT !.failed = NextCount(@)]

\* Mutant: withdrawn accounts are counted.
WaitsThoughWithdrawn(row) ==
    row.status = "INACTIVE" /\ row.pending /\ ~row.held

\* Waits for an administrator: neither withdrawn nor held.
WaitsForApproval(row) ==
    /\ row.status = "INACTIVE" /\ row.pending
    /\ row.deactivatedAt = Null /\ ~row.held

\* Shut out by too many wrong passwords.
LockedOut(row) == row.lockedUntil # Null /\ row.lockedUntil > now

\* Mutant: accounts that wait for verification count as withdrawn.
ExpiredInactive(row) ==
    /\ row.status = "INACTIVE"
    /\ row.deactivatedAt # Null => row.deactivatedAt + Grace < now

Expired(row) ==
    /\ row.status = "INACTIVE"
    /\ row.deactivatedAt # Null /\ row.deactivatedAt + Grace < now

(***************************************************************************)
(* Requests.                                                               *)
(***************************************************************************)
Holds(r, op) == req[r].op = op

Begin(r, state) ==
    /\ Holds(r, "idle")
    /\ req' = [req EXCEPT ![r] = state]

Finish(r) == req' = [req EXCEPT ![r] = Idle]

(***************************************************************************)
(* save(user).                                                             *)
(***************************************************************************)

Differing(row, stored) == {c \in Column : row[c] # stored[c]}

Merged(row, columns, stored) ==
    [c \in Column |-> IF c \in columns THEN row[c] ELSE stored[c]]

\* The entity has become row; save SELECTs what is stored and compares.
Compare(r, row, by, m) ==
    LET u == req[r].user IN
    /\ req' = [req EXCEPT ![r] =
                  [op |-> IF u \in Stored THEN "update" ELSE "insert",
                   user |-> u, row |-> row,
                   columns |-> IF u \in Stored THEN Differing(row, users[u])
                                               ELSE Column,
                   by |-> by, mail |-> m]]
    /\ UNCHANGED <<now, users, mails, sweepVars, saved, applied>>

Save(r, row, by, m) == Compare(r, row, by, m) /\ UNCHANGED tries

\* Mutant: the token is not saved.
NotSpent(m) == mails' = mails

\* The entity of the token is saved with used_at set.
Spend(m) == mails' = [mails EXCEPT ![m].used = TRUE]

LetIn(u) == approved' = approved \cup {u}

\* What is stored and remembered with the row when the save of r commits.
Committed(r) ==
    LET u == req[r].user   by == req[r].by   m == req[r].mail IN
    /\ IF m = Null THEN UNCHANGED <<mails, confirmed>>
       ELSE Spend(m) /\ confirmed' = confirmed \cup {m}
    /\ withdrawals' = IF by = "deactivate"
                      THEN [withdrawals EXCEPT ![u] =
                                @ \cup {req[r].row.deactivatedAt}]
                      ELSE withdrawals
    /\ cancelled' = CASE by \in {"activate", "unlock"} -> cancelled \cup {u}
                      [] by = "deactivate" -> cancelled \ {u}
                      [] OTHER -> cancelled
    /\ guesses' =
           CASE by \in {"login", "external", "unlock"} -> [guesses EXCEPT ![u] = 0]
             [] by = "failure" -> [guesses EXCEPT ![u] = NextCount(@)]
             [] OTHER -> guesses
    /\ CASE by \in Admitting -> LetIn(u)
         [] by = "disable" -> approved' = approved \ {u}
         [] OTHER -> UNCHANGED approved
    /\ Finish(r)
    /\ UNCHANGED <<now, sweepVars, tries, applied>>

\* UPDATE by id of the columns that differed; a row deleted since is not missed.
Update(r) ==
    /\ Holds(r, "update")
    /\ LET u == req[r].user IN
       users' = [users EXCEPT ![u] =
                    IF u \in Stored THEN Merged(req[r].row, req[r].columns, @)
                                    ELSE @]
    /\ Committed(r)

\* INSERT of the whole entity; a row inserted meanwhile makes it fail.
Insert(r) ==
    /\ Holds(r, "insert") /\ req[r].user \notin Stored
    /\ users' = [users EXCEPT ![req[r].user] = req[r].row]
    /\ Committed(r)

(***************************************************************************)
(* Registration.                                                           *)
(***************************************************************************)

\* An administrator creates an account with a status of choice.
Create(u, p, status) ==
    /\ "create" \in Endpoint
    /\ users[u] = Unissued
    /\ users' = [users EXCEPT ![u] = NewRow(status, p)]
    /\ IF status = "INACTIVE" THEN UNCHANGED approved ELSE LetIn(u)
    /\ UNCHANGED <<now, mails, req, sweepVars, withdrawals, cancelled,
                   confirmed, guesses, tries, applied>>

\* A visitor registers.  The settings of the tenant decide whether the
\* account is active at once, or waits for a mail or for an administrator:
\* the row is stored first, what it waits for in a later statement.
RegisterActive(u, p) ==
    /\ "register" \in Endpoint
    /\ users[u] = Unissued
    /\ users' = [users EXCEPT ![u] = NewRow("ACTIVE", p)]
    /\ LetIn(u)
    /\ UNCHANGED <<now, mails, req, sweepVars, withdrawals, cancelled,
                   confirmed, guesses, tries, applied>>

RegisterInactive(r, u, p, next) ==
    /\ "register" \in Endpoint
    /\ users[u] = Unissued
    /\ users' = [users EXCEPT ![u] = NewRow("INACTIVE", p)]
    /\ Begin(r, [op |-> next, user |-> u])
    /\ UNCHANGED <<now, mails, sweepVars, history>>

\* UPDATE users SET pending_approval_since: one column, by id.
MarkPending(r) ==
    /\ Holds(r, "markPending")
    /\ users' = [u \in User |->
                    IF u = req[r].user /\ u \in Stored
                    THEN [users[u] EXCEPT !.pending = TRUE] ELSE users[u]]
    /\ applied' = applied \cup {req[r].user}
    /\ Finish(r)
    /\ UNCHANGED <<now, mails, sweepVars, saved, tries>>

Issue(kind, m, u) ==
    /\ mails[m] = Unissued
    /\ mails' = [mails EXCEPT ![m] = [kind |-> kind, user |-> u,
                                      expires |-> now + MailTtl,
                                      used |-> FALSE]]

IssueMail(r, m) ==
    /\ Holds(r, "issueMail")
    /\ Issue("verify", m, req[r].user)
    /\ Finish(r)
    /\ UNCHANGED <<now, users, sweepVars, history>>

(***************************************************************************)
(* One-time tokens.                                                        *)
(***************************************************************************)

\* The token is known, unused and not expired, and its user is stored.
MailRead(r, m, kind) ==
    /\ m \in Sent(kind) /\ ~mails[m].used /\ mails[m].expires >= now
    /\ mails[m].user \in Stored
    /\ Begin(r, [op |-> kind, user |-> mails[m].user,
                 row |-> users[mails[m].user], mail |-> m])
    /\ UNCHANGED <<now, users, mails, sweepVars, history>>

VerifyRead(r, m) == MailRead(r, m, "verify")

\* The token and the user are saved together.
VerifySave(r) ==
    /\ Holds(r, "verify")
    /\ Save(r, Verified(req[r].row),
            IF req[r].row.status = "INACTIVE" THEN "verify" ELSE "confirm",
            req[r].mail)

ResetRequest(m, u) ==
    /\ "reset" \in Endpoint
    /\ u \in Stored
    /\ Issue("reset", m, u)
    /\ UNCHANGED <<now, users, req, sweepVars, history>>

ResetRead(r, m) == MailRead(r, m, "reset")

ResetSave(r, p) ==
    /\ Holds(r, "reset")
    /\ Save(r, [req[r].row EXCEPT !.password = p], "reset", req[r].mail)

(***************************************************************************)
(* Login.                                                                  *)
(***************************************************************************)

\* Mutant: the status is not looked at.
LoginReadAnyStatus(r, u) ==
    /\ u \in Stored /\ ~LockedOut(users[u])
    /\ Begin(r, [op |-> "login", user |-> u, row |-> users[u]])
    /\ UNCHANGED <<now, users, mails, sweepVars, history>>

\* An inactive or locked-out account is refused; status LOCKED is not.
LoginRead(r, u) ==
    /\ u \in Stored /\ ~LockedOut(users[u]) /\ users[u].status # "INACTIVE"
    /\ Begin(r, [op |-> "login", user |-> u, row |-> users[u]])
    /\ UNCHANGED <<now, users, mails, sweepVars, history>>

\* The right password, or an external provider that accepts it: then the
\* account is made ACTIVE and the password is stored as the local one.
LoginSuccess(r) ==
    /\ Holds(r, "login")
    /\ Save(r, LoggedIn(req[r].row), "login", Null)

ExternalLogin(r, p) ==
    /\ Holds(r, "login") /\ "external" \in Endpoint
    /\ Save(r, LoggedIn([req[r].row EXCEPT !.status = "ACTIVE",
                                           !.password = p]), "external", Null)

\* The provider accepts a visitor without an account: the account is created,
\* and the login goes on with it.
JitProvision(r, u, p) ==
    /\ "external" \in Endpoint
    /\ users[u] = Unissued
    /\ users' = [users EXCEPT ![u] = NewRow("ACTIVE", p)]
    /\ LetIn(u)
    /\ Begin(r, [op |-> "login", user |-> u, row |-> NewRow("ACTIVE", p)])
    /\ UNCHANGED <<now, mails, sweepVars, withdrawals, cancelled,
                   confirmed, guesses, tries, applied>>

\* recordFailedAttempt counts in the snapshot.
LoginFailure(r) ==
    /\ Holds(r, "login")
    /\ Compare(r, Failed(req[r].row), "failure", Null)
    /\ tries' = [tries EXCEPT ![req[r].user] = NextCount(@)]

(***************************************************************************)
(* The user service.  A bulk operation does for each user what the single  *)
(* one does; its own reads and tests before can only end it.               *)
(***************************************************************************)
FindUser(r, u) ==
    /\ u \in Stored
    /\ Begin(r, [op |-> "user", user |-> u, row |-> users[u]])
    /\ UNCHANGED <<now, users, mails, sweepVars, history>>

Operate(r, endpoint, row, by) ==
    /\ endpoint \in Endpoint
    /\ Holds(r, "user")
    /\ Save(r, row, by, Null)

Activate(r) == Operate(r, "activate", Activated(req[r].row), "activate")

Hold(r) ==
    /\ Operate(r, "hold", [req[r].row EXCEPT !.held = TRUE], "hold")
    /\ WaitsForApproval(req[r].row)

Lock(r) == Operate(r, "lock", [req[r].row EXCEPT !.status = "LOCKED"], "lock")

Unlock(r) == Operate(r, "unlock", Unlocked(req[r].row), "unlock")

\* An administrator sets the status and nothing else.
UpdateStatus(r, status) ==
    Operate(r, "update", [req[r].row EXCEPT !.status = status],
            CASE status = "ACTIVE" -> "enable"
              [] status = "INACTIVE" -> "disable"
              [] status = "LOCKED" -> "lock")

\* A change of the profile or the login id, by the user or for the user.
UpdateProfile(r) == Operate(r, "profile", req[r].row, "profile")

ChangePassword(r, p) ==
    Operate(r, "password", [req[r].row EXCEPT !.password = p], "password")

Deactivate(r) ==
    Operate(r, "deactivate", [req[r].row EXCEPT !.status = "INACTIVE",
                                                !.deactivatedAt = now],
            "deactivate")

\* DELETE by id: whatever the row has become since it was read.
DeleteRow(u) ==
    users' = [users EXCEPT ![u] = IF u \in Stored THEN Deleted ELSE @]

DeleteUser(r) ==
    /\ "delete" \in Endpoint
    /\ Holds(r, "user")
    /\ DeleteRow(req[r].user)
    /\ Finish(r)
    /\ UNCHANGED <<now, mails, sweepVars, history>>

\* A handler ends before its commit: a guard, an error, a lost connection, a
\* crash.  What it committed in an earlier statement stays.
Abort(r) ==
    /\ ~Holds(r, "idle")
    /\ Finish(r)
    /\ UNCHANGED <<now, users, mails, sweepVars, history>>

(***************************************************************************)
(* The daily deletion job.                                                 *)
(***************************************************************************)

\* The advisory lock is free: take it and select the expired withdrawals.
SweepStart(i) ==
    /\ i \notin sweeping /\ sweepLock = Null
    /\ sweepLock' = i
    /\ sweeping' = sweeping \cup {i}
    /\ targets' = [targets EXCEPT ![i] = {u \in Stored : Expired(users[u])}]
    /\ UNCHANGED <<now, users, mails, req, history>>

Drop(i, u) == targets' = [targets EXCEPT ![i] = @ \ {u}]

\* usersService.delete, in a transaction of its own.
SweepDelete(i, u) ==
    /\ u \in targets[i]
    /\ DeleteRow(u)
    /\ Drop(i, u)
    /\ UNCHANGED <<now, mails, req, sweepLock, sweeping, history>>

\* The deletion fails (a foreign key, a deadlock); the loop goes on.
SweepSkip(i, u) ==
    /\ u \in targets[i]
    /\ Drop(i, u)
    /\ UNCHANGED <<now, users, mails, req, sweepLock, sweeping, history>>

\* COMMIT releases the lock.
SweepEnd(i) ==
    /\ i \in sweeping /\ targets[i] = {}
    /\ sweepLock' = Null
    /\ sweeping' = sweeping \ {i}
    /\ UNCHANGED <<now, users, mails, req, targets, history>>

\* Mutant: a lock that survives the process.
CrashKeepsLock(i) ==
    /\ i \in sweeping
    /\ sweeping' = sweeping \ {i}
    /\ targets' = [targets EXCEPT ![i] = {}]
    /\ UNCHANGED <<now, users, mails, req, sweepLock, history>>

\* The process dies: the transaction is rolled back, which frees the lock.
SweepCrash(i) ==
    /\ i \in sweeping
    /\ sweepLock' = Null
    /\ sweeping' = sweeping \ {i}
    /\ targets' = [targets EXCEPT ![i] = {}]
    /\ UNCHANGED <<now, users, mails, req, history>>

Tick ==
    /\ now < MaxTime
    /\ now' = now + 1
    /\ UNCHANGED <<users, mails, req, sweepVars, history>>

(***************************************************************************)
(* Specification.                                                          *)
(***************************************************************************)
Registration ==
    \/ \E u \in User, p \in Password :
           RegisterActive(u, p) \/ \E s \in Status : Create(u, p, s)
    \/ \E r \in Request :
           \/ \E u \in User, p \in Password :
                  \E next \in {"markPending", "issueMail"} :
                      RegisterInactive(r, u, p, next)
           \/ MarkPending(r)
           \/ \E m \in Mail : IssueMail(r, m)

MailStep ==
    \/ \E m \in Mail, u \in User : ResetRequest(m, u)
    \/ \E r \in Request, m \in Mail : VerifyRead(r, m) \/ ResetRead(r, m)
    \/ \E r \in Request :
           VerifySave(r) \/ \E p \in Password : ResetSave(r, p)

LoginStep(r) ==
    \/ \E u \in User : LoginRead(r, u)
    \/ LoginSuccess(r)
    \/ LoginFailure(r)
    \/ \E p \in Password :
           ExternalLogin(r, p) \/ \E u \in User : JitProvision(r, u, p)

UserStep(r) ==
    \/ \E u \in User : FindUser(r, u)
    \/ Activate(r) \/ Hold(r) \/ Lock(r) \/ Unlock(r)
    \/ UpdateProfile(r) \/ Deactivate(r) \/ DeleteUser(r)
    \/ \E s \in Status : UpdateStatus(r, s)
    \/ \E p \in Password : ChangePassword(r, p)

SweepStep(i) ==
    \/ SweepStart(i) \/ SweepEnd(i) \/ SweepCrash(i)
    \/ \E u \in User : SweepDelete(i, u) \/ SweepSkip(i, u)

Next ==
    \/ Registration
    \/ MailStep
    \/ \E r \in Request :
           \/ LoginStep(r) \/ UserStep(r)
           \/ Update(r) \/ Insert(r) \/ Abort(r)
    \/ \E i \in Instance : SweepStep(i)
    \/ Tick

Spec == Init /\ [][Next]_vars

\* The job is started every day by every instance, a sweep goes on as long as
\* its process lives, and a deletion that is tried again and again succeeds at
\* last: the errors it meets (SweepSkip, SweepCrash) are transient.  Nothing is
\* assumed of clients, administrators or the clock.
Fairness ==
    /\ WF_vars(\E i \in Instance : SweepStart(i))
    /\ \A i \in Instance :
           WF_vars(SweepEnd(i)
                   \/ \E u \in User : SweepDelete(i, u) \/ SweepSkip(i, u))
    /\ \A u \in User : SF_vars(\E i \in Instance : SweepDelete(i, u))

FairSpec == Spec /\ Fairness

(***************************************************************************)
(* What holds however requests overlap.                                    *)
(***************************************************************************)

\* What a row shows has happened, whichever snapshots it was put together from:
\* a withdrawal date is one of its withdrawals (or the one about to be stored),
\* nothing is counted that was not a wrong password, a lock takes MaxFailed of
\* them, and only applications are pending or held.
MarksEarned(u, row) ==
    /\ row.failed <= tries[u]
    /\ row.lockedUntil # Null => tries[u] = MaxFailed
    /\ row.pending \/ row.held => u \in applied

DateEarned(u, row) ==
    row.deactivatedAt # Null => row.deactivatedAt \in withdrawals[u]

RowOK(u, row) == MarksEarned(u, row) /\ DateEarned(u, row)

SnapshotOK(q) ==
    /\ MarksEarned(q.user, q.row)
    /\ IF q.op \in Saving /\ q.by = "deactivate"
       THEN q.row.deactivatedAt # Null ELSE DateEarned(q.user, q.row)
    /\ q.op \in {"verify", "reset"} \/ (q.op \in Saving /\ q.mail # Null) =>
           mails[q.mail] # Unissued

\* This is the inductive invariant of the proofs.
IInv ==
    /\ TypeOK
    /\ \A u \in Stored : RowOK(u, users[u])
    /\ \A r \in Request : req[r].op \in Holding => SnapshotOK(req[r])
    /\ \A i \in Instance : \A u \in targets[i] :
           \E t \in withdrawals[u] : t + Grace < now

\* However requests overlap and in whichever columns their saves mix: nobody is
\* locked out by fewer than MaxFailed wrong passwords, and only an applicant is
\* counted as waiting or held.
LocksAndHoldsEarned ==
    \A u \in Stored : MarksEarned(u, users[u])

\* The job deletes only accounts that were withdrawn, and no sooner than the
\* period of grace after one of their withdrawals: never an account that waits
\* for its verification or its approval.
SweepSpares ==
    [][\A i \in Instance, u \in User :
           SweepDelete(i, u) /\ u \in Stored =>
               \E t \in withdrawals[u] : t + Grace < now]_vars

\* Nobody gets past the guards of the login with an account that nobody has
\* let in: no mail confirmed, no administrator, no provider.
ApprovalBeforeLogin ==
    \A r \in Request : Holds(r, "login") => req[r].user \in approved

\* One sweep at a time, by the instance that holds the lock, and no list is left
\* behind: what is to be deleted is up to a sweep that goes on.
OneSweep ==
    /\ sweeping = {i \in Instance : i = sweepLock}
    /\ \A i \in Instance \ sweeping : targets[i] = {}

\* An account whose withdrawal has expired does not stay: it is deleted, or no
\* longer withdrawn.
ExpiredIsDeleted ==
    \A u \in User : (u \in Stored /\ Expired(users[u]))
                        ~> ~(u \in Stored /\ Expired(users[u]))

(***************************************************************************)
(* What the documents promise.  These hold as long as no two requests for  *)
(* one user overlap ...                                                    *)
(***************************************************************************)

\* No two requests in flight hold or save a snapshot of the same user.
SaversApart ==
    \A r, s \in Request :
        /\ req[r].op \in Holding /\ req[s].op \in Holding
        /\ req[r].user = req[s].user
        => r = s

\* Activating or unlocking an account cancels its scheduled deletion.
ReactivationCancels ==
    \A u \in Stored \cap cancelled : users[u].deactivatedAt = Null

\* MaxFailed wrong passwords since the last login or unlocking lock an account.
LockedAfterMaxFailed ==
    \A u \in Stored : guesses[u] = MaxFailed => users[u].lockedUntil # Null

\* A reset token works once.
ResetTokenOnce ==
    [][\A r \in Request :
           (Update(r) \/ Insert(r)) /\ req[r].by = "reset" =>
               req[r].mail \notin confirmed]_vars

\* A password, once changed, is replaced only by the next one that is chosen: a
\* confirmed reset, a change, or a login that a provider has accepted.
NewPasswordHolds ==
    [][\A u \in Stored :
           u \in Stored' /\ users'[u].password # users[u].password =>
               \E r \in Request :
                   /\ Update(r) \/ Insert(r)
                   /\ req[r].user = u
                   /\ req[r].by \in {"reset", "password", "external"}]_vars

\* An account that was let in is not counted among those that wait for it.
ApprovedNotCounted ==
    \A u \in Stored \cap approved : ~WaitsForApproval(users[u])

(***************************************************************************)
(* ... and these fail even then.                                           *)
(***************************************************************************)

\* An account that an administrator has locked is refused by the login.
AdminLockHolds ==
    \A r \in Request :
        Holds(r, "login") =>
            ~(req[r].row.status = "LOCKED" /\ req[r].row.lockedUntil = Null)

\* A held account stays inactive until it is activated, which lifts the hold.
HeldStaysOut ==
    \A u \in Stored : users[u].held => users[u].status # "ACTIVE"
=============================================================================
