------------------------- MODULE UserAccountProofs -------------------------
(***************************************************************************)
(* Proofs about UserAccount, for every value of its constants.             *)
(***************************************************************************)
EXTENDS UserAccount, TLAPS

\* The fields of a request's local state have the types its op announces.
LEMMA ReqFields ==
    ASSUME NEW q \in ReqState
    PROVE  /\ q.op \in Holding => q.user \in User /\ q.row \in UserRow
           /\ q.op \in {"verify", "reset"} => q.mail \in Mail
           /\ q.op \in {"markPending", "issueMail"} => q.user \in User
           /\ q.op \in Saving =>
                  /\ q.by \in Operation /\ q.mail \in Mail \cup {Null}
                  /\ q.columns \in SUBSET Column
  BY DEF ReqState, Holding, Saving

\* A save in flight is a request's local state.
LEMMA SaveTypes ==
    ASSUME NEW op \in Saving, NEW u \in User, NEW row \in UserRow,
           NEW columns \in SUBSET Column, NEW by \in Operation,
           NEW m \in Mail \cup {Null}
    PROVE  [op |-> op, user |-> u, row |-> row, columns |-> columns,
            by |-> by, mail |-> m] \in ReqState
  BY DEF ReqState, Saving

(***************************************************************************)
(* What the operations make of a row.                                      *)
(***************************************************************************)

\* What history counts of a user is in its type.
LEMMA TriesTypes ==
    ASSUME TypeOK, NEW u \in User
    PROVE  /\ tries[u] \in 0 .. MaxFailed /\ tries[u] \in Nat /\ 0 <= tries[u]
           /\ MaxFailed \in Nat \ {0}
  BY TimeAssumption DEF TypeOK

\* A new row is a row, and carries no count, no lock and no mark.
LEMMA NewRowFacts ==
    ASSUME TypeOK, NEW s \in Status, NEW p \in Password, NEW u \in User
    PROVE  NewRow(s, p) \in UserRow /\ RowOK(u, NewRow(s, p))
  <1>1. NewRow(s, p) \in UserRow
    BY TimeAssumption DEF NewRow, UserRow
  <1>2. /\ MarksEarned(u, NewRow(s, p))
    BY TriesTypes DEF NewRow, MarksEarned
  <1>3. DateEarned(u, NewRow(s, p))
    BY DEF NewRow, DateEarned
  <1>4. QED
    BY <1>1, <1>2, <1>3 DEF RowOK

LEMMA CountTypes ==
    ASSUME NEW row \in UserRow, NEW s \in Status,
           NEW f \in 0 .. MaxFailed, NEW l \in Nat \cup {Null}
    PROVE  /\ [row EXCEPT !.failed = f, !.lockedUntil = l] \in UserRow
           /\ [row EXCEPT !.failed = f, !.status = s, !.lockedUntil = l]
                  \in UserRow
  BY DEF UserRow

\* Clearing the counter lifts the lock with it.
LEMMA ClearedFacts ==
    ASSUME TypeOK, NEW row \in UserRow, NEW u \in User, RowOK(u, row)
    PROVE  CounterCleared(row) \in UserRow /\ RowOK(u, CounterCleared(row))
  <1>1. CounterCleared(row) \in UserRow
    <2>1. 0 \in 0 .. MaxFailed /\ "ACTIVE" \in Status
      BY TimeAssumption DEF Status
    <2>2. QED
      BY <2>1, CountTypes DEF CounterCleared
  <1>2. LET c == CounterCleared(row) IN
            /\ c.failed = 0 /\ c.lockedUntil = Null
            /\ c.held = row.held /\ c.pending = row.pending
            /\ c.deactivatedAt = row.deactivatedAt
    BY DEF CounterCleared, UserRow
  <1>3. QED
    BY <1>1, <1>2, TriesTypes DEF RowOK, MarksEarned, DateEarned

\* Status and password can be replaced without touching the rest.
LEMMA StatusFacts ==
    ASSUME NEW row \in UserRow, NEW u \in User, RowOK(u, row),
           NEW s \in Status
    PROVE  /\ [row EXCEPT !.status = s] \in UserRow
           /\ RowOK(u, [row EXCEPT !.status = s])
  BY DEF UserRow, RowOK, MarksEarned, DateEarned

LEMMA PasswordFacts ==
    ASSUME NEW row \in UserRow, NEW u \in User, RowOK(u, row),
           NEW p \in Password
    PROVE  /\ [row EXCEPT !.password = p] \in UserRow
           /\ RowOK(u, [row EXCEPT !.password = p])
  BY DEF UserRow, RowOK, MarksEarned, DateEarned

LEMMA ActivatedFacts ==
    ASSUME NEW row \in UserRow, NEW u \in User, RowOK(u, row)
    PROVE  Activated(row) \in UserRow /\ RowOK(u, Activated(row))
  BY DEF Activated, UserRow, RowOK, MarksEarned, DateEarned, Status

LEMMA UnlockedFacts ==
    ASSUME TypeOK, NEW row \in UserRow, NEW u \in User, RowOK(u, row)
    PROVE  Unlocked(row) \in UserRow /\ RowOK(u, Unlocked(row))
  <1> DEFINE c == CounterCleared(row)
  <1>1. c \in UserRow /\ RowOK(u, c)
    BY ClearedFacts
  <1>2. Unlocked(row) = [c EXCEPT !.status = "ACTIVE", !.deactivatedAt = Null]
    BY DEF Unlocked
  <1> HIDE DEF c
  <1>3. QED
    BY <1>1, <1>2 DEF UserRow, RowOK, MarksEarned, DateEarned, Status


LEMMA LoggedInFacts ==
    ASSUME TypeOK, NEW row \in UserRow, NEW u \in User, RowOK(u, row)
    PROVE  LoggedIn(row) \in UserRow /\ RowOK(u, LoggedIn(row))
  <1> DEFINE c == CounterCleared(row)
             s == IF c.status = "LOCKED" THEN "ACTIVE" ELSE c.status
  <1>1. c \in UserRow /\ RowOK(u, c)
    BY ClearedFacts
  <1>2. s \in Status
    BY <1>1 DEF UserRow, Status
  <1>3. LoggedIn(row) = [c EXCEPT !.status = s]
    BY DEF LoggedIn
  <1>4. QED
    BY <1>1, <1>2, <1>3, StatusFacts

LEMMA VerifiedFacts ==
    ASSUME NEW row \in UserRow, NEW u \in User, RowOK(u, row)
    PROVE  Verified(row) \in UserRow /\ RowOK(u, Verified(row))
  <1> DEFINE s == IF row.status = "INACTIVE" THEN "ACTIVE" ELSE row.status
  <1>1. s \in Status
    BY DEF UserRow, Status
  <1>2. Verified(row) = [row EXCEPT !.status = s]
    BY DEF Verified
  <1>3. QED
    BY <1>1, <1>2, StatusFacts

\* A failure counts one wrong password, and locks when the count becomes full:
\* then as many have been found.
LEMMA FailedFacts ==
    ASSUME TypeOK, NEW row \in UserRow, NEW u \in User, RowOK(u, row),
           tries' = [tries EXCEPT ![u] = NextCount(@)],
           UNCHANGED <<withdrawals, applied>>
    PROVE  /\ Failed(row) \in UserRow
           /\ \A new : new = Failed(row) => RowOK(u, new)'
  <1>1. row.failed \in 0 .. MaxFailed /\ MaxFailed \in Nat \ {0}
    BY TimeAssumption DEF UserRow
  <1>2. NextCount(row.failed) \in 0 .. MaxFailed
    BY <1>1 DEF NextCount
  <1>3. now + LockTime \in Nat /\ now + LockTime # Null
    BY TimeAssumption, MarkerAssumption DEF TypeOK
  <1>4. tries'[u] = NextCount(tries[u]) /\ tries[u] \in 0 .. MaxFailed
    BY DEF TypeOK
  <1>5. row.failed <= tries[u]
    BY DEF RowOK, MarksEarned
  <1>6. /\ NextCount(row.failed) <= tries'[u]
        /\ row.lockedUntil # Null => tries'[u] = MaxFailed
    <2>1. tries[u] = MaxFailed => tries'[u] = MaxFailed
      BY <1>1, <1>4 DEF NextCount
    <2>2. row.lockedUntil # Null => tries[u] = MaxFailed
      BY DEF RowOK, MarksEarned
    <2>3. NextCount(row.failed) <= tries'[u]
      BY <1>1, <1>4, <1>5 DEF NextCount
    <2>4. QED
      BY <2>1, <2>2, <2>3
  <1>7. CASE NextCount(row.failed) >= MaxFailed
    <2> DEFINE f == Failed(row)
    <2>1. f = [row EXCEPT !.failed = MaxFailed, !.status = "LOCKED",
                          !.lockedUntil = now + LockTime]
      BY <1>7 DEF Failed
    <2>2. /\ f.failed = MaxFailed /\ f.lockedUntil = now + LockTime
          /\ f.held = row.held /\ f.pending = row.pending
          /\ f.deactivatedAt = row.deactivatedAt
      BY <2>1 DEF UserRow
    <2>3. f \in UserRow
      <3>1. /\ MaxFailed \in 0 .. MaxFailed /\ "LOCKED" \in Status
            /\ now + LockTime \in Nat \cup {Null}
        BY <1>1, <1>3 DEF Status
      <3>2. \A l \in Nat \cup {Null} :
                [row EXCEPT !.failed = MaxFailed, !.status = "LOCKED",
                            !.lockedUntil = l] \in UserRow
        BY <3>1, CountTypes
      <3>3. QED
        BY <2>1, <3>1, <3>2
    <2>4. tries'[u] = MaxFailed
      <3>1. tries'[u] \in 0 .. MaxFailed
        BY <1>1, <1>4 DEF NextCount
      <3>2. QED
        BY <1>1, <1>2, <1>6, <1>7, <3>1
    <2>5. /\ f.pending \/ f.held => u \in applied'
          /\ f.failed <= tries'[u]
      BY <1>1, <2>2, <2>4 DEF RowOK, MarksEarned
    <2>6. f.deactivatedAt # Null => f.deactivatedAt \in withdrawals'[u]
      BY <2>2 DEF RowOK, DateEarned
    <2> HIDE DEF f
    <2>7. ASSUME NEW new, new = f
          PROVE  RowOK(u, new)'
      BY <2>4, <2>5, <2>6, <2>7 DEF RowOK, MarksEarned, DateEarned
    <2>8. QED
      BY <2>3, <2>7 DEF f
  <1>8. CASE ~(NextCount(row.failed) >= MaxFailed)
    <2> DEFINE f == Failed(row)
    <2>1. f = [row EXCEPT !.failed = NextCount(row.failed)]
      BY <1>8 DEF Failed
    <2>2. /\ f.failed = NextCount(row.failed)
          /\ f.lockedUntil = row.lockedUntil
          /\ f.held = row.held /\ f.pending = row.pending
          /\ f.deactivatedAt = row.deactivatedAt
      BY <2>1 DEF UserRow
    <2>3. f \in UserRow
      BY <1>2, <2>1 DEF UserRow
    <2>4. /\ f.failed <= tries'[u]
          /\ f.lockedUntil # Null => tries'[u] = MaxFailed
          /\ f.pending \/ f.held => u \in applied'
      BY <1>6, <2>2 DEF RowOK, MarksEarned
    <2>5. f.deactivatedAt # Null => f.deactivatedAt \in withdrawals'[u]
      BY <2>2 DEF RowOK, DateEarned
    <2> HIDE DEF f
    <2>6. ASSUME NEW new, new = f
          PROVE  RowOK(u, new)'
      BY <2>4, <2>5, <2>6 DEF RowOK, MarksEarned, DateEarned
    <2>7. QED
      BY <2>3, <2>6 DEF f
  <1>9. QED
    BY <1>7, <1>8

\* Only an application that waits is held.
LEMMA HeldFacts ==
    ASSUME NEW row \in UserRow, NEW u \in User, RowOK(u, row),
           WaitsForApproval(row)
    PROVE  /\ [row EXCEPT !.held = TRUE] \in UserRow
           /\ RowOK(u, [row EXCEPT !.held = TRUE])
  BY DEF UserRow, RowOK, MarksEarned, DateEarned, WaitsForApproval

\* A mixture of two rows has each of its columns from one of them.
LEMMA MergedFacts ==
    ASSUME NEW row \in UserRow, NEW stored \in UserRow, NEW columns
    PROVE  LET new == Merged(row, columns, stored) IN
           /\ new \in UserRow
           /\ new.failed \in {row.failed, stored.failed}
           /\ new.lockedUntil \in {row.lockedUntil, stored.lockedUntil}
           /\ new.deactivatedAt \in {row.deactivatedAt, stored.deactivatedAt}
           /\ new.pending => row.pending \/ stored.pending
           /\ new.held => row.held \/ stored.held
  <1>1. Merged(row, columns, stored) \in UserRow
    BY DEF Merged, UserRow, Column
  <1>2. LET new == Merged(row, columns, stored) IN
        /\ new.failed \in {row.failed, stored.failed}
        /\ new.lockedUntil \in {row.lockedUntil, stored.lockedUntil}
        /\ new.deactivatedAt \in {row.deactivatedAt, stored.deactivatedAt}
    BY DEF Merged, Column
  <1>3. LET new == Merged(row, columns, stored) IN
        /\ new.pending => row.pending \/ stored.pending
        /\ new.held => row.held \/ stored.held
    BY DEF Merged, Column
  <1>4. QED
    BY <1>1, <1>2, <1>3

(***************************************************************************)
(* What a step must do to keep the invariant.                              *)
(***************************************************************************)
HistoryOK ==
    /\ withdrawals \in [User -> SUBSET Nat]
    /\ cancelled \subseteq User
    /\ confirmed \subseteq Mail
    /\ guesses \in [User -> 0 .. MaxFailed]
    /\ approved \subseteq User
    /\ tries \in [User -> 0 .. MaxFailed]
    /\ applied \subseteq User

\* What has happened has happened.
HistoryGrows ==
    /\ \A u \in User : withdrawals[u] \subseteq withdrawals'[u]
    /\ \A u \in User : tries[u] <= tries'[u]
    /\ applied \subseteq applied'

\* A token that was sent is never forgotten.
MailsStay ==
    \A m \in Mail : mails'[m] = Unissued => mails[m] = Unissued

\* A row that shows what has happened does so when more has happened.
LEMMA RowOKGrows ==
    ASSUME TypeOK, TypeOK', HistoryGrows, NEW u \in User, NEW row \in UserRow
    PROVE  /\ MarksEarned(u, row) => MarksEarned(u, row)'
           /\ DateEarned(u, row) => DateEarned(u, row)'
           /\ RowOK(u, row) => RowOK(u, row)'
  <1>1. /\ tries[u] \in 0 .. MaxFailed /\ tries'[u] \in 0 .. MaxFailed
        /\ tries[u] <= tries'[u] /\ row.failed \in 0 .. MaxFailed
    BY DEF TypeOK, HistoryGrows, UserRow
  <1>2. MarksEarned(u, row) => MarksEarned(u, row)'
    BY <1>1, TimeAssumption DEF MarksEarned, HistoryGrows
  <1>3. DateEarned(u, row) => DateEarned(u, row)'
    BY DEF DateEarned, HistoryGrows
  <1>4. QED
    BY <1>2, <1>3 DEF RowOK

LEMMA SnapshotOKGrows ==
    ASSUME TypeOK, TypeOK', HistoryGrows, MailsStay, NEW q \in ReqState,
           q.op \in Holding, SnapshotOK(q)
    PROVE  SnapshotOK(q)'
  <1>1. q.user \in User /\ q.row \in UserRow
    BY ReqFields
  <1>2. /\ MarksEarned(q.user, q.row)'
        /\ DateEarned(q.user, q.row) => DateEarned(q.user, q.row)'
    BY <1>1, RowOKGrows DEF SnapshotOK
  <1>3. q.op \in {"verify", "reset"} \/ (q.op \in Saving /\ q.mail # Null) =>
            mails'[q.mail] # Unissued
    BY ReqFields DEF SnapshotOK, MailsStay
  <1>4. QED
    BY <1>2, <1>3 DEF SnapshotOK

\* A stored row or a snapshot may stay as it is or become another good one, and
\* a sweep may only lose targets or gain expired withdrawals.
LEMMA Frame ==
    ASSUME IInv, TypeOK', HistoryGrows, MailsStay, now <= now',
           \A u \in Stored' :
               \/ u \in Stored /\ users'[u] = users[u]
               \/ RowOK(u, users[u])',
           \A r \in Request :
               \/ req'[r] = req[r]
               \/ req'[r].op \notin Holding
               \/ SnapshotOK(req[r])',
           \A i \in Instance : \A u \in targets'[i] :
               \/ u \in targets[i]
               \/ \E t \in withdrawals'[u] : t + Grace < now'
    PROVE  IInv'
  <1>1. ASSUME NEW u \in Stored'
        PROVE  RowOK(u, users[u])'
    <2>1. CASE u \in Stored /\ users'[u] = users[u]
      <3>1. RowOK(u, users[u]) /\ u \in User /\ users[u] \in UserRow
        BY <2>1 DEF IInv, Stored, TypeOK
      <3>2. \A row \in UserRow : row = users[u] => RowOK(u, row)'
        BY <3>1, RowOKGrows DEF IInv
      <3>3. QED
        BY <2>1, <3>1, <3>2
    <2>2. QED
      BY <1>1, <2>1
  <1>2. ASSUME NEW r \in Request, req'[r].op \in Holding
        PROVE  SnapshotOK(req[r])'
    <2>1. CASE req'[r] = req[r]
      <3>1. SnapshotOK(req[r]) /\ req[r] \in ReqState /\ req[r].op \in Holding
        BY <1>2, <2>1 DEF IInv, TypeOK
      <3>2. \A q \in ReqState : q = req[r] => SnapshotOK(q)'
        BY <3>1, SnapshotOKGrows DEF IInv
      <3>3. QED
        BY <2>1, <3>1, <3>2
    <2>2. QED
      BY <1>2, <2>1
  <1>3. ASSUME NEW i \in Instance, NEW u \in targets'[i]
        PROVE  \E t \in withdrawals'[u] : t + Grace < now'
    <2>1. u \in User
      BY DEF TypeOK
    <2>2. CASE u \in targets[i]
      <3>1. PICK t \in withdrawals[u] : t + Grace < now
        BY <2>2 DEF IInv
      <3>2. t \in withdrawals'[u] /\ t \in Nat
        BY <2>1, <3>1 DEF HistoryGrows, IInv, TypeOK
      <3>3. now \in Nat /\ now' \in Nat
        BY DEF IInv, TypeOK
      <3>4. t + Grace < now'
        BY <3>1, <3>2, <3>3, TimeAssumption
      <3>5. QED
        BY <3>2, <3>4
    <2>3. QED
      BY <1>3, <2>2
  <1>4. QED
    BY <1>1, <1>2, <1>3 DEF IInv

\* A step that leaves history alone lets it grow.
LEMMA SameHistoryGrows ==
    ASSUME TypeOK, UNCHANGED <<withdrawals, tries, applied>>
    PROVE  HistoryGrows
  BY DEF HistoryGrows, TypeOK

\* A handler that starts, with or without a snapshot of a stored row.
LEMMA BeginStep ==
    ASSUME IInv, NEW r \in Request, NEW q \in ReqState, Begin(r, q),
           q.op \in Holding => SnapshotOK(q),
           UNCHANGED <<now, users, mails, sweepVars, history>>
    PROVE  IInv'
  <1> USE DEF IInv
  <1>1. req' = [req EXCEPT ![r] = q]
    BY DEF Begin
  <1>2. TypeOK'
    BY <1>1 DEF TypeOK, history, saved, sweepVars
  <1>3. HistoryGrows
    BY SameHistoryGrows DEF history, saved
  <1>4. MailsStay /\ now <= now' /\ targets' = targets
    BY DEF MailsStay, sweepVars, TypeOK
  <1>5. Stored' = Stored /\ users' = users
    BY DEF Stored
  <1>6. \A s \in Request :
            \/ req'[s] = req[s]
            \/ req'[s].op \notin Holding
            \/ SnapshotOK(req[s])'
    <2>1. req'[r] = q /\ \A s \in Request : s # r => req'[s] = req[s]
      BY <1>1 DEF TypeOK
    <2>2. q.op \in Holding => SnapshotOK(q)'
      BY DEF SnapshotOK, MarksEarned, DateEarned, history, saved
    <2>3. QED
      BY <2>1, <2>2
  <1>7. QED
    BY <1>2, <1>3, <1>4, <1>5, <1>6, Frame

\* A new row, with a handler that goes on or without one.
LEMMA InsertStep ==
    ASSUME IInv, NEW u \in User, NEW s \in Status, NEW p \in Password,
           users' = [users EXCEPT ![u] = NewRow(s, p)],
           req' \in [Request -> ReqState],
           \A r \in Request :
               \/ req'[r] = req[r]
               \/ req'[r].op \notin Holding
               \/ /\ req'[r].user = u /\ req'[r].row = NewRow(s, p)
                  /\ req'[r].op \notin {"verify", "reset"} \cup Saving,
           approved' \subseteq User,
           UNCHANGED <<now, mails, sweepVars, withdrawals, cancelled,
                       confirmed, guesses, tries, applied>>
    PROVE  IInv'
  <1> USE DEF IInv
  <1> DEFINE row == NewRow(s, p)
  <1>1. row \in UserRow /\ RowOK(u, row)
    BY NewRowFacts
  <1> HIDE DEF row
  <1>2. MailsStay /\ now <= now' /\ targets' = targets
    BY DEF MailsStay, sweepVars, TypeOK
  <1>3. HistoryGrows
    BY SameHistoryGrows
  <1>4. TypeOK'
    BY <1>1 DEF TypeOK, sweepVars, row
  <1>5. ASSUME NEW new, new = row
        PROVE  RowOK(u, new)'
    BY <1>1, <1>3, <1>4, <1>5, RowOKGrows
  <1>6. \A v \in Stored' :
            \/ v \in Stored /\ users'[v] = users[v]
            \/ RowOK(v, users[v])'
    <2>1. users'[u] = row /\ \A v \in User : v # u => users'[v] = users[v]
      BY DEF TypeOK, row
    <2>2. RowOK(u, users[u])'
      BY <1>5, <2>1
    <2>3. QED
      BY <2>1, <2>2 DEF Stored
  <1>7. ASSUME NEW r \in Request
        PROVE  \/ req'[r] = req[r]
               \/ req'[r].op \notin Holding
               \/ SnapshotOK(req[r])'
    <2>1. CASE /\ req'[r].user = u /\ req'[r].row = NewRow(s, p)
               /\ req'[r].op \notin {"verify", "reset"} \cup Saving
      <3>1. RowOK(req[r].user, req[r].row)'
        BY <1>5, <2>1 DEF row
      <3>2. QED
        BY <2>1, <3>1 DEF SnapshotOK, RowOK
    <2>2. QED
      BY <2>1
  <1>8. QED
    BY <1>2, <1>3, <1>4, <1>6, <1>7, Frame

(***************************************************************************)
(* Saves.                                                                  *)
(***************************************************************************)

\* What a request in flight knows: a row of a user that shows what has happened.
LEMMA Snapshot ==
    ASSUME IInv, NEW r \in Request, req[r].op \in Holding
    PROVE  /\ req[r].user \in User /\ req[r].row \in UserRow
           /\ req[r].op \notin Saving => RowOK(req[r].user, req[r].row)
           /\ req[r].op \in {"verify", "reset"} =>
                  req[r].mail \in Mail /\ mails[req[r].mail] # Unissued
  <1>1. req[r] \in ReqState
    BY DEF IInv, TypeOK
  <1>2. QED
    BY <1>1, ReqFields DEF IInv, SnapshotOK, RowOK

\* The local state of a request that has compared its row.
Compared(r, row, by, m) ==
    LET u == req[r].user IN
    [op |-> IF u \in Stored THEN "update" ELSE "insert",
     user |-> u, row |-> row,
     columns |-> IF u \in Stored THEN Differing(row, users[u]) ELSE Column,
     by |-> by, mail |-> m]

LEMMA ComparedTypes ==
    ASSUME NEW r, NEW row \in UserRow, NEW by \in Operation,
           NEW m \in Mail \cup {Null}, req[r].user \in User
    PROVE  Compared(r, row, by, m) \in ReqState
  <1> DEFINE op == IF req[r].user \in Stored THEN "update" ELSE "insert"
             columns == IF req[r].user \in Stored
                        THEN Differing(row, users[req[r].user]) ELSE Column
  <1>1. op \in Saving
    BY DEF Saving
  <1>2. columns \in SUBSET Column
    BY DEF Differing
  <1>3. Compared(r, row, by, m) =
            [op |-> op, user |-> req[r].user, row |-> row, columns |-> columns,
             by |-> by, mail |-> m]
    BY DEF Compared
  <1> HIDE DEF op, columns
  <1>4. QED
    BY <1>1, <1>2, <1>3, SaveTypes

\* A handler that compares a good row with the stored one.
LEMMA CompareStep ==
    ASSUME IInv, NEW r \in Request, NEW u \in User, NEW row \in UserRow,
           NEW by \in Operation, NEW m \in Mail \cup {Null},
           u = req[r].user, Compare(r, row, by, m),
           tries' \in [User -> 0 .. MaxFailed],
           \A v \in User : tries[v] <= tries'[v],
           m # Null => mails[m] # Unissued,
           MarksEarned(u, row)',
           IF by = "deactivate" THEN row.deactivatedAt # Null
                                ELSE DateEarned(u, row)'
    PROVE  IInv'
  <1> USE DEF IInv
  <1> DEFINE q == Compared(r, row, by, m)
  <1>1. /\ req' = [req EXCEPT ![r] = q]
        /\ UNCHANGED <<now, users, mails, sweepVars, withdrawals, cancelled,
                       confirmed, guesses, approved, applied>>
    BY DEF Compare, Compared, saved
  <1>2. q \in ReqState
    BY ComparedTypes
  <1>3. /\ q.user = u /\ q.row = row /\ q.by = by /\ q.mail = m
        /\ q.op \in Saving
    BY DEF Compared, Saving
  <1> HIDE DEF q
  <1>4. TypeOK'
    BY <1>1, <1>2 DEF TypeOK, sweepVars
  <1>5. HistoryGrows
    BY <1>1 DEF HistoryGrows
  <1>6. MailsStay /\ now <= now' /\ targets' = targets
    BY <1>1 DEF MailsStay, sweepVars, TypeOK
  <1>7. Stored' = Stored /\ users' = users
    BY <1>1 DEF Stored
  <1>8. ASSUME NEW new, new = q
        PROVE  SnapshotOK(new)'
    <2>1. /\ new.user = u /\ new.row = row /\ new.by = by /\ new.mail = m
          /\ new.op \in Saving /\ new.op \notin {"verify", "reset"}
      BY <1>3, <1>8 DEF Saving
    <2>2. MarksEarned(new.user, new.row)'
      BY <2>1
    <2>3. by # "deactivate" => DateEarned(new.user, new.row)'
      BY <2>1
    <2>4. QED
      BY <1>1, <2>1, <2>2, <2>3 DEF SnapshotOK
  <1>9. \A s \in Request : req'[s] = req[s] \/ SnapshotOK(req[s])'
    <2>1. req'[r] = q /\ \A s \in Request : s # r => req'[s] = req[s]
      BY <1>1 DEF TypeOK
    <2>2. SnapshotOK(req[r])'
      BY <1>8, <2>1
    <2>3. QED
      BY <2>1, <2>2
  <1>10. QED
    BY <1>4, <1>5, <1>6, <1>7, <1>9, Frame

\* The usual case: a good row, no password found wrong.
LEMMA SaveStep ==
    ASSUME IInv, NEW r \in Request, req[r].op \in Holding, NEW row \in UserRow,
           NEW by \in Operation, NEW m \in Mail \cup {Null},
           Save(r, row, by, m), RowOK(req[r].user, row),
           by # "deactivate", m # Null => mails[m] # Unissued
    PROVE  IInv'
  <1>1. req[r].user \in User
    BY Snapshot
  <1>2. Compare(r, row, by, m) /\ tries' = tries
    BY DEF Save
  <1>3. UNCHANGED <<withdrawals, applied>>
    BY <1>2 DEF Compare, saved
  <1>4. ASSUME NEW u, u = req[r].user
        PROVE  MarksEarned(u, row)' /\ DateEarned(u, row)'
    BY <1>2, <1>3, <1>4 DEF RowOK, MarksEarned, DateEarned
  <1>5. /\ tries' \in [User -> 0 .. MaxFailed]
        /\ \A v \in User : tries[v] <= tries'[v]
    BY <1>2 DEF IInv, TypeOK
  <1>6. QED
    BY <1>1, <1>2, <1>4, <1>5, CompareStep

LEMMA SpendTypes ==
    ASSUME IInv, NEW m \in Mail, Spend(m), mails[m] # Unissued
    PROVE  mails' \in [Mail -> MailRow \cup {Unissued}] /\ MailsStay
  <1>1. mails \in [Mail -> MailRow \cup {Unissued}] /\ mails[m] \in MailRow
    BY DEF IInv, TypeOK
  <1> DEFINE spent == [mails[m] EXCEPT !.used = TRUE]
  <1>2. spent \in MailRow
    BY <1>1 DEF MailRow
  <1>3. mails' = [mails EXCEPT ![m] = spent]
    BY <1>1 DEF Spend
  <1> HIDE DEF spent
  <1>4. mails' \in [Mail -> MailRow \cup {Unissued}]
    BY <1>1, <1>2, <1>3
  <1>5. MailsStay
    BY <1>1, <1>2, <1>3, MarkerAssumption DEF MailsStay
  <1>6. QED
    BY <1>4, <1>5

LEMMA FinishTypes ==
    ASSUME IInv, NEW r \in Request, Finish(r)
    PROVE  /\ req' \in [Request -> ReqState]
           /\ \A s \in Request : req'[s] = req[s] \/ req'[s].op \notin Holding
  BY DEF Finish, Idle, ReqState, Holding, Saving, IInv, TypeOK

LEMMA GuessTypes ==
    ASSUME TypeOK, NEW u \in User
    PROVE  /\ [guesses EXCEPT ![u] = 0] \in [User -> 0 .. MaxFailed]
           /\ [guesses EXCEPT ![u] = NextCount(@)] \in [User -> 0 .. MaxFailed]
           /\ [tries EXCEPT ![u] = NextCount(@)] \in [User -> 0 .. MaxFailed]
           /\ \A v \in User :
                  tries[v] <= [tries EXCEPT ![u] = NextCount(@)][v]
  <1>1. /\ guesses \in [User -> 0 .. MaxFailed] /\ 0 \in 0 .. MaxFailed
        /\ tries \in [User -> 0 .. MaxFailed]
    BY TimeAssumption DEF TypeOK
  <1>2. /\ NextCount(guesses[u]) \in 0 .. MaxFailed
        /\ NextCount(tries[u]) \in 0 .. MaxFailed /\ tries[u] <= NextCount(tries[u])
    BY <1>1, TimeAssumption DEF NextCount
  <1>3. QED
    BY <1>1, <1>2

\* What is stored and remembered when a save commits: its row has become one
\* that shows what has happened, a withdrawal included.
LEMMA CommittedFacts ==
    ASSUME IInv, NEW r \in Request, req[r].op \in Saving, Committed(r)
    PROVE  /\ mails' \in [Mail -> MailRow \cup {Unissued}] /\ MailsStay
           /\ HistoryOK' /\ HistoryGrows /\ Finish(r)
           /\ UNCHANGED <<now, sweepVars, tries, applied>>
           /\ \A u, row : u = req[r].user /\ row = req[r].row => RowOK(u, row)'
  <1> DEFINE u == req[r].user
             m == req[r].mail
  <1>1. req[r] \in ReqState /\ SnapshotOK(req[r]) /\ req[r].op \in Holding
    BY DEF IInv, TypeOK, Holding
  <1>2. /\ u \in User /\ req[r].row \in UserRow /\ m \in Mail \cup {Null}
        /\ req[r].by \in Operation
        /\ m # Null => mails[m] # Unissued
    BY <1>1, ReqFields DEF SnapshotOK
  <1>3. Finish(r) /\ UNCHANGED <<now, sweepVars, tries, applied>>
    BY DEF Committed
  <1>4. /\ mails' \in [Mail -> MailRow \cup {Unissued}] /\ MailsStay
        /\ confirmed' \subseteq Mail
    <2>1. CASE m = Null
      <3>1. mails' = mails /\ confirmed' = confirmed
        BY <2>1 DEF Committed
      <3>2. QED
        BY <3>1 DEF MailsStay, IInv, TypeOK
    <2>2. CASE m # Null
      <3>1. /\ Spend(m) /\ confirmed' = confirmed \cup {m} /\ m \in Mail
            /\ mails[m] # Unissued
        BY <1>2, <2>2 DEF Committed
      <3>2. mails' \in [Mail -> MailRow \cup {Unissued}] /\ MailsStay
        BY <3>1, SpendTypes
      <3>3. confirmed' \subseteq Mail
        BY <3>1 DEF IInv, TypeOK
      <3>4. QED
        BY <3>2, <3>3
    <2>3. QED
      BY <2>1, <2>2
  <1>5. cancelled' \subseteq User
    BY <1>2 DEF Committed, IInv, TypeOK
  <1>6. approved' \subseteq User
    BY <1>2 DEF Committed, LetIn, IInv, TypeOK
  <1>7. guesses' \in [User -> 0 .. MaxFailed]
    BY <1>2, GuessTypes DEF Committed, IInv, TypeOK
  <1>8. /\ withdrawals' \in [User -> SUBSET Nat]
        /\ \A v \in User : withdrawals[v] \subseteq withdrawals'[v]
        /\ req[r].by = "deactivate" =>
               req[r].row.deactivatedAt \in withdrawals'[u]
    <2>1. withdrawals \in [User -> SUBSET Nat]
      BY DEF IInv, TypeOK
    <2>2. CASE req[r].by = "deactivate"
      <3> DEFINE d == req[r].row.deactivatedAt
      <3>1. d \in Nat
        BY <1>1, <1>2, <2>2 DEF SnapshotOK, UserRow
      <3>2. withdrawals' = [withdrawals EXCEPT ![u] = @ \cup {d}]
        BY <2>2 DEF Committed
      <3> HIDE DEF d
      <3>3. QED
        BY <1>2, <2>1, <3>1, <3>2 DEF d
    <2>3. CASE req[r].by # "deactivate"
      BY <2>1, <2>3 DEF Committed
    <2>4. QED
      BY <2>2, <2>3
  <1>9. HistoryOK'
    BY <1>3, <1>4, <1>5, <1>6, <1>7, <1>8 DEF HistoryOK, IInv, TypeOK
  <1>10. HistoryGrows
    BY <1>3, <1>8 DEF HistoryGrows, IInv, TypeOK
  <1>11. ASSUME NEW v, NEW row, v = u, row = req[r].row
         PROVE  RowOK(v, row)'
    <2>1. MarksEarned(v, row)'
      BY <1>1, <1>3, <1>11 DEF SnapshotOK, MarksEarned
    <2>2. DateEarned(v, row)'
      BY <1>1, <1>2, <1>8, <1>11 DEF SnapshotOK, DateEarned
    <2>3. QED
      BY <2>1, <2>2 DEF RowOK
  <1>12. QED
    BY <1>3, <1>4, <1>9, <1>10, <1>11

\* A save stores a good row, whether it mixes it with what is stored or not.
LEMMA CommitStep ==
    ASSUME IInv, NEW r \in Request, NEW u \in User, NEW new,
           req[r].op \in Saving, u = req[r].user, Committed(r),
           users' = [users EXCEPT ![u] = new],
           \/ u \notin Stored /\ new = users[u]
           \/ new \in UserRow /\ RowOK(u, new)'
    PROVE  IInv'
  <1>1. /\ mails' \in [Mail -> MailRow \cup {Unissued}] /\ MailsStay
        /\ HistoryOK' /\ HistoryGrows /\ Finish(r)
        /\ UNCHANGED <<now, sweepVars, tries, applied>>
    BY CommittedFacts
  <1>2. /\ users \in [User -> UserRow \cup {Unissued, Deleted}]
        /\ users' \in [User -> UserRow \cup {Unissued, Deleted}]
        /\ users'[u] = new /\ \A v \in User : v # u => users'[v] = users[v]
    BY DEF IInv, TypeOK
  <1>3. TypeOK'
    BY <1>1, <1>2, FinishTypes DEF IInv, TypeOK, HistoryOK, sweepVars
  <1>4. \A v \in Stored' :
            \/ v \in Stored /\ users'[v] = users[v]
            \/ RowOK(v, users[v])'
    <2>1. CASE u \notin Stored /\ new = users[u]
      BY <1>2, <2>1 DEF Stored
    <2>2. CASE new \in UserRow /\ RowOK(u, new)'
      BY <1>2, <2>2 DEF Stored
    <2>3. QED
      BY <2>1, <2>2
  <1>5. targets' = targets /\ now <= now'
    BY <1>1 DEF sweepVars, IInv, TypeOK
  <1>6. QED
    BY <1>1, <1>3, <1>4, <1>5, FinishTypes, Frame

LEMMA StoredFacts ==
    ASSUME IInv, NEW u \in Stored
    PROVE  u \in User /\ users[u] \in UserRow
  BY DEF IInv, TypeOK, Stored

LEMMA UpdateKeeps ==
    ASSUME IInv, NEW r \in Request, Update(r)
    PROVE  IInv'
  <1> DEFINE u == req[r].user
             row == req[r].row
             old == users[u]
             merged == Merged(row, req[r].columns, old)
  <1>1. /\ req[r].op \in Saving /\ Committed(r)
        /\ users' = [users EXCEPT ![u] = IF u \in Stored THEN merged ELSE @]
    BY DEF Update, Holds, Saving
  <1>2. u \in User /\ row \in UserRow
    BY <1>1, Snapshot DEF Holding
  <1>3. CASE u \notin Stored
    <2>1. users' = [users EXCEPT ![u] = old]
      BY <1>1, <1>3
    <2>2. QED
      BY <1>1, <1>2, <1>3, <2>1, CommitStep
  <1>4. CASE u \in Stored
    <2>1. TypeOK /\ TypeOK' /\ HistoryGrows
      <3>1. /\ mails' \in [Mail -> MailRow \cup {Unissued}]
            /\ HistoryOK' /\ HistoryGrows /\ Finish(r)
            /\ UNCHANGED <<now, sweepVars, tries, applied>>
        BY <1>1, CommittedFacts
      <3>2. merged \in UserRow
        BY <1>2, <1>4, StoredFacts DEF Merged, UserRow, Column
      <3> HIDE DEF merged
      <3>3. users' \in [User -> UserRow \cup {Unissued, Deleted}]
        BY <1>1, <1>4, <3>2 DEF IInv, TypeOK
      <3>4. QED
        BY <3>1, <3>3, FinishTypes DEF IInv, TypeOK, HistoryOK, sweepVars
    <2>2. old \in UserRow /\ RowOK(u, old)
      BY <1>4, StoredFacts DEF IInv
    <2>3. ASSUME NEW v, NEW new, v = u, new = merged
          PROVE  new \in UserRow /\ RowOK(v, new)'
      <3>1. \A w, x : w = u /\ x = row => RowOK(w, x)'
        BY <1>1, CommittedFacts
      <3>2. \A w, x : w = u /\ x = old => RowOK(w, x)'
        BY <1>2, <2>1, <2>2, RowOKGrows
      <3>3. /\ merged \in UserRow
            /\ merged.failed \in {row.failed, old.failed}
            /\ merged.lockedUntil \in {row.lockedUntil, old.lockedUntil}
            /\ merged.deactivatedAt \in {row.deactivatedAt, old.deactivatedAt}
            /\ merged.pending => row.pending \/ old.pending
            /\ merged.held => row.held \/ old.held
        BY <1>2, <2>2, MergedFacts
      <3> HIDE DEF merged
      <3>4. MarksEarned(v, new)'
        BY <2>3, <3>1, <3>2, <3>3 DEF RowOK, MarksEarned
      <3>5. DateEarned(v, new)'
        BY <2>3, <3>1, <3>2, <3>3 DEF RowOK, DateEarned
      <3>6. QED
        BY <2>3, <3>3, <3>4, <3>5 DEF RowOK
    <2>4. users' = [users EXCEPT ![u] = merged]
      BY <1>1, <1>4
    <2>5. QED
      BY <1>1, <1>2, <2>3, <2>4, CommitStep
  <1>5. QED
    BY <1>3, <1>4

LEMMA InsertKeeps ==
    ASSUME IInv, NEW r \in Request, Insert(r)
    PROVE  IInv'
  <1> DEFINE u == req[r].user
             row == req[r].row
  <1>1. /\ req[r].op \in Saving /\ Committed(r)
        /\ users' = [users EXCEPT ![u] = row]
    BY DEF Insert, Holds, Saving
  <1>2. u \in User /\ row \in UserRow
    BY <1>1, Snapshot DEF Holding
  <1>3. \A v, new : v = u /\ new = row => RowOK(v, new)'
    BY <1>1, CommittedFacts
  <1>4. QED
    BY <1>1, <1>2, <1>3, CommitStep

(***************************************************************************)
(* The operations, one by one.                                             *)
(***************************************************************************)

LEMMA RegistrationKeeps ==
    ASSUME IInv, Registration
    PROVE  IInv'
  <1> USE DEF IInv
  <1>1. ASSUME NEW u \in User, NEW p \in Password, RegisterActive(u, p)
        PROVE  IInv'
    <2>1. "ACTIVE" \in Status /\ approved' \subseteq User /\ req' = req
      BY <1>1 DEF RegisterActive, LetIn, Status, TypeOK
    <2>2. req' \in [Request -> ReqState]
      BY <2>1 DEF TypeOK
    <2>3. QED
      BY <1>1, <2>1, <2>2, InsertStep DEF RegisterActive
  <1>2. ASSUME NEW u \in User, NEW p \in Password, NEW s \in Status,
               Create(u, p, s)
        PROVE  IInv'
    <2>1. approved' \subseteq User /\ req' = req
      BY <1>2 DEF Create, LetIn, TypeOK
    <2>2. req' \in [Request -> ReqState]
      BY <2>1 DEF TypeOK
    <2>3. QED
      BY <1>2, <2>1, <2>2, InsertStep DEF Create
  <1>3. ASSUME NEW r \in Request, NEW u \in User, NEW p \in Password,
               NEW next \in {"markPending", "issueMail"},
               RegisterInactive(r, u, p, next)
        PROVE  IInv'
    <2> DEFINE q == [op |-> next, user |-> u]
    <2>1. q \in ReqState /\ q.op \notin Holding
      BY DEF ReqState, Holding, Saving
    <2>2. req' = [req EXCEPT ![r] = q]
      BY <1>3 DEF RegisterInactive, Begin
    <2>3. /\ req' \in [Request -> ReqState]
          /\ \A t \in Request : req'[t] = req[t] \/ req'[t].op \notin Holding
      BY <2>1, <2>2 DEF TypeOK
    <2>4. "INACTIVE" \in Status /\ approved' \subseteq User
      BY <1>3 DEF RegisterInactive, history, saved, Status, TypeOK
    <2>5. QED
      BY <1>3, <2>3, <2>4, InsertStep DEF RegisterInactive, history, saved
  <1>4. ASSUME NEW r \in Request, MarkPending(r)
        PROVE  IInv'
    <2>1. /\ users' = [u \in User |->
                         IF u = req[r].user /\ u \in Stored
                         THEN [users[u] EXCEPT !.pending = TRUE] ELSE users[u]]
          /\ req' = [req EXCEPT ![r] = Idle]
          /\ applied' = applied \cup {req[r].user}
          /\ UNCHANGED <<now, mails, sweepVars, withdrawals, cancelled,
                         confirmed, guesses, approved, tries>>
      BY <1>4 DEF MarkPending, Finish, saved
    <2>2. req[r].user \in User
      BY <1>4, ReqFields DEF MarkPending, Holds, TypeOK
    <2>3. \A u \in Stored :
              /\ users[u] \in UserRow /\ RowOK(u, users[u]) /\ u \in User
      BY DEF TypeOK, Stored
    <2>4. \A u \in Stored : [users[u] EXCEPT !.pending = TRUE] \in UserRow
      BY <2>3 DEF UserRow
    <2>5. users' \in [User -> UserRow \cup {Unissued, Deleted}]
      BY <2>1, <2>4 DEF TypeOK
    <2>6. TypeOK'
      BY <2>1, <2>2, <2>5 DEF TypeOK, Idle, ReqState, sweepVars
    <2>7. HistoryGrows /\ MailsStay /\ now <= now' /\ targets' = targets
      BY <2>1 DEF HistoryGrows, MailsStay, sweepVars, TypeOK
    <2>8. ASSUME NEW u \in User, u \in Stored'
          PROVE  \/ u \in Stored /\ users'[u] = users[u]
                 \/ RowOK(u, users[u])'
      <3>1. CASE u = req[r].user /\ u \in Stored
        <4>1. users'[u] = [users[u] EXCEPT !.pending = TRUE]
          BY <2>1, <3>1
        <4>2. ASSUME NEW old \in UserRow, NEW new, RowOK(u, old),
                     new = [old EXCEPT !.pending = TRUE]
              PROVE  RowOK(u, new)'
          <5>1. /\ new.failed = old.failed /\ new.held = old.held
                /\ new.lockedUntil = old.lockedUntil
                /\ new.deactivatedAt = old.deactivatedAt
            BY <4>2 DEF UserRow
          <5>2. u \in applied' /\ tries' = tries /\ withdrawals' = withdrawals
            BY <2>1, <3>1
          <5>3. QED
            BY <4>2, <5>1, <5>2 DEF RowOK, MarksEarned, DateEarned
        <4>3. QED
          BY <2>3, <3>1, <4>1, <4>2
      <3>2. CASE ~(u = req[r].user /\ u \in Stored)
        BY <2>1, <2>8, <3>2 DEF Stored
      <3>3. QED
        BY <3>1, <3>2
    <2>9. \A t \in Request : req'[t] = req[t] \/ req'[t].op \notin Holding
      BY <2>1 DEF TypeOK, Idle, Holding, Saving
    <2>10. Stored' \subseteq User
      BY DEF Stored
    <2>11. QED
      BY <2>6, <2>7, <2>8, <2>9, <2>10, Frame
  <1>5. ASSUME NEW r \in Request, NEW m \in Mail, IssueMail(r, m)
        PROVE  IInv'
    <2>1. req[r].user \in User
      BY <1>5, ReqFields DEF IssueMail, Holds, TypeOK
    <2>2. mails' \in [Mail -> MailRow \cup {Unissued}]
      BY <1>5, <2>1, TimeAssumption DEF IssueMail, Issue, MailRow, TypeOK
    <2>3. TypeOK'
      BY <1>5, <2>2
         DEF IssueMail, Finish, TypeOK, Idle, ReqState, history, saved, sweepVars
    <2>4. /\ HistoryGrows /\ now <= now' /\ targets' = targets
          /\ users' = users
      BY <1>5, SameHistoryGrows
         DEF IssueMail, history, saved, sweepVars, TypeOK
    <2>7. MailsStay
      BY <1>5 DEF IssueMail, Issue, MailsStay, TypeOK
    <2>5. \A t \in Request : req'[t] = req[t] \/ req'[t].op \notin Holding
      BY <1>5 DEF IssueMail, Finish, TypeOK, Idle, Holding, Saving
    <2>6. QED
      BY <2>3, <2>4, <2>5, <2>7, Frame DEF Stored
  <1>6. QED
    BY <1>1, <1>2, <1>3, <1>4, <1>5 DEF Registration

\* Reading a stored row gives a good snapshot.
LEMMA ReadKeeps ==
    ASSUME IInv, NEW r \in Request, NEW u \in Stored,
           NEW q \in ReqState, Begin(r, q), q.user = u, q.row = users[u],
           q.op \notin Saving,
           q.op \in {"verify", "reset"} => mails[q.mail] # Unissued,
           UNCHANGED <<now, users, mails, sweepVars, history>>
    PROVE  IInv'
  <1>1. RowOK(u, users[u])
    BY DEF IInv
  <1>2. SnapshotOK(q)
    BY <1>1 DEF SnapshotOK, RowOK
  <1>3. QED
    BY <1>2, BeginStep

LEMMA MailStepKeeps ==
    ASSUME IInv, MailStep
    PROVE  IInv'
  <1>1. ASSUME NEW m \in Mail, NEW u \in User, ResetRequest(m, u)
        PROVE  IInv'
    <2>1. mails' \in [Mail -> MailRow \cup {Unissued}]
      BY <1>1, TimeAssumption
         DEF ResetRequest, Issue, MailRow, IInv, TypeOK
    <2>2. TypeOK'
      BY <1>1, <2>1 DEF ResetRequest, IInv, TypeOK, history, saved, sweepVars
    <2>3. /\ HistoryGrows /\ now <= now' /\ targets' = targets
          /\ users' = users /\ req' = req
      BY <1>1, SameHistoryGrows
         DEF ResetRequest, history, saved, sweepVars, IInv, TypeOK
    <2>4. MailsStay
      BY <1>1 DEF ResetRequest, Issue, MailsStay, IInv, TypeOK
    <2>5. QED
      BY <2>2, <2>3, <2>4, Frame DEF Stored
  <1>2. ASSUME NEW r \in Request, NEW m \in Mail,
               NEW kind \in {"verify", "reset"}, MailRead(r, m, kind)
        PROVE  IInv'
    <2> DEFINE u == mails[m].user
               q == [op |-> kind, user |-> u, row |-> users[u], mail |-> m]
    <2>1. u \in Stored /\ Begin(r, q)
      BY <1>2 DEF MailRead
    <2>2. q \in ReqState
      BY <2>1, StoredFacts DEF ReqState
    <2>3. /\ q.user = u /\ q.row = users[u] /\ mails[q.mail] # Unissued
          /\ q.op \notin Saving
      BY <1>2 DEF MailRead, Sent, Saving
    <2>4. UNCHANGED <<now, users, mails, sweepVars, history>>
      BY <1>2 DEF MailRead
    <2>5. QED
      BY <2>1, <2>2, <2>3, <2>4, ReadKeeps
  <1>3. ASSUME NEW r \in Request, VerifySave(r)
        PROVE  IInv'
    <2> DEFINE by == IF req[r].row.status = "INACTIVE" THEN "verify"
                                                       ELSE "confirm"
    <2>1. /\ req[r].op \in {"verify", "reset"} /\ req[r].op \in Holding
          /\ req[r].op \notin Saving
      BY <1>3 DEF VerifySave, Holds, Holding, Saving
    <2>2. /\ req[r].user \in User /\ req[r].row \in UserRow
          /\ RowOK(req[r].user, req[r].row)
          /\ req[r].mail \in Mail /\ mails[req[r].mail] # Unissued
      BY <2>1, Snapshot
    <2>3. /\ Verified(req[r].row) \in UserRow
          /\ RowOK(req[r].user, Verified(req[r].row))
      BY <2>2, VerifiedFacts
    <2>4. by \in Operation /\ by # "deactivate"
      BY DEF Operation
    <2>5. Save(r, Verified(req[r].row), by, req[r].mail)
      BY <1>3 DEF VerifySave
    <2> HIDE DEF by
    <2>6. QED
      BY <2>1, <2>2, <2>3, <2>4, <2>5, SaveStep
  <1>4. ASSUME NEW r \in Request, NEW p \in Password, ResetSave(r, p)
        PROVE  IInv'
    <2> DEFINE row == [req[r].row EXCEPT !.password = p]
    <2>1. /\ req[r].op \in {"verify", "reset"} /\ req[r].op \in Holding
          /\ req[r].op \notin Saving
      BY <1>4 DEF ResetSave, Holds, Holding, Saving
    <2>2. /\ req[r].user \in User /\ req[r].row \in UserRow
          /\ RowOK(req[r].user, req[r].row)
          /\ req[r].mail \in Mail /\ mails[req[r].mail] # Unissued
      BY <2>1, Snapshot
    <2>3. row \in UserRow /\ RowOK(req[r].user, row)
      BY <2>2, PasswordFacts
    <2>4. Save(r, row, "reset", req[r].mail) /\ "reset" \in Operation
      BY <1>4 DEF ResetSave, Operation
    <2> HIDE DEF row
    <2>5. QED
      BY <2>1, <2>2, <2>3, <2>4, SaveStep
  <1>5. QED
    BY <1>1, <1>2, <1>3, <1>4 DEF MailStep, VerifyRead, ResetRead


LEMMA LoginStepKeeps ==
    ASSUME IInv, NEW r \in Request, LoginStep(r)
    PROVE  IInv'
  <1>1. ASSUME NEW u \in User, LoginRead(r, u)
        PROVE  IInv'
    <2> DEFINE q == [op |-> "login", user |-> u, row |-> users[u]]
    <2>1. /\ u \in Stored /\ Begin(r, q)
          /\ UNCHANGED <<now, users, mails, sweepVars, history>>
      BY <1>1 DEF LoginRead
    <2>2. q \in ReqState
      BY <2>1, StoredFacts DEF ReqState
    <2>3. q.user = u /\ q.row = users[u] /\ q.op \notin {"verify", "reset"} \cup Saving
      BY DEF Saving
    <2>4. QED
      BY <2>1, <2>2, <2>3, ReadKeeps
  <1>2. Holds(r, "login") =>
            /\ req[r].op \in Holding
            /\ req[r].user \in User /\ req[r].row \in UserRow
            /\ RowOK(req[r].user, req[r].row)
    BY Snapshot DEF Holds, Holding, Saving
  <1>3. TypeOK /\ Null \in Mail \cup {Null}
    BY DEF IInv
  <1>4. CASE LoginSuccess(r)
    <2>1. /\ LoggedIn(req[r].row) \in UserRow
          /\ RowOK(req[r].user, LoggedIn(req[r].row))
      BY <1>2, <1>3, <1>4, LoggedInFacts DEF LoginSuccess
    <2>2. Save(r, LoggedIn(req[r].row), "login", Null) /\ "login" \in Operation
      BY <1>4 DEF LoginSuccess, Operation
    <2>3. QED
      BY <1>2, <1>3, <1>4, <2>1, <2>2, SaveStep DEF LoginSuccess
  <1>5. CASE LoginFailure(r)
    <2> DEFINE u == req[r].user
               new == Failed(req[r].row)
    <2>1. /\ req[r].op \in Holding /\ u \in User /\ req[r].row \in UserRow
          /\ RowOK(u, req[r].row)
      BY <1>2, <1>5 DEF LoginFailure
    <2>2. /\ Compare(r, new, "failure", Null)
          /\ tries' = [tries EXCEPT ![u] = NextCount(@)]
          /\ "failure" \in Operation
      BY <1>5 DEF LoginFailure, Operation
    <2>3. UNCHANGED <<withdrawals, applied>>
      BY <2>2 DEF Compare, saved
    <2>4. /\ new \in UserRow
          /\ \A v, x : v = u /\ x = new => RowOK(v, x)'
      BY <1>3, <2>1, <2>2, <2>3, FailedFacts
    <2>5. /\ tries' \in [User -> 0 .. MaxFailed]
          /\ \A v \in User : tries[v] <= tries'[v]
      BY <1>3, <2>1, <2>2, GuessTypes
    <2> HIDE DEF new
    <2>6. ASSUME NEW v, NEW x, v = u, x = new
          PROVE  MarksEarned(v, x)' /\ DateEarned(v, x)'
      BY <2>3, <2>4, <2>6 DEF RowOK, MarksEarned, DateEarned
    <2>7. QED
      BY <1>3, <2>1, <2>2, <2>4, <2>5, <2>6, CompareStep
  <1>6. ASSUME NEW p \in Password, ExternalLogin(r, p)
        PROVE  IInv'
    <2> DEFINE active == [req[r].row EXCEPT !.status = "ACTIVE"]
               known == [active EXCEPT !.password = p]
    <2>1. /\ req[r].user \in User /\ req[r].row \in UserRow
          /\ RowOK(req[r].user, req[r].row) /\ "ACTIVE" \in Status
      BY <1>2, <1>6 DEF ExternalLogin, Status
    <2>2. active \in UserRow /\ RowOK(req[r].user, active)
      BY <2>1, StatusFacts
    <2>3. known \in UserRow /\ RowOK(req[r].user, known)
      <3> HIDE DEF active
      <3>1. QED
        BY <2>1, <2>2, PasswordFacts
    <2>4. Save(r, LoggedIn(known), "external", Null) /\ "external" \in Operation
      BY <1>6 DEF ExternalLogin, Operation
    <2> HIDE DEF known
    <2>5. /\ LoggedIn(known) \in UserRow
          /\ RowOK(req[r].user, LoggedIn(known))
      BY <1>3, <2>1, <2>3, LoggedInFacts
    <2>6. QED
      BY <1>2, <1>3, <1>6, <2>4, <2>5, SaveStep DEF ExternalLogin
  <1>7. ASSUME NEW u \in User, NEW p \in Password, JitProvision(r, u, p)
        PROVE  IInv'
    <2> DEFINE q == [op |-> "login", user |-> u, row |-> NewRow("ACTIVE", p)]
    <2>1. "ACTIVE" \in Status /\ approved' \subseteq User
      BY <1>7 DEF JitProvision, LetIn, Status, IInv, TypeOK
    <2>2. q \in ReqState
      BY <1>3, <2>1, NewRowFacts DEF ReqState
    <2>3. req' = [req EXCEPT ![r] = q]
      BY <1>7 DEF JitProvision, Begin
    <2>4. /\ req' \in [Request -> ReqState]
          /\ \A t \in Request :
                 \/ req'[t] = req[t]
                 \/ /\ req'[t].user = u /\ req'[t].row = NewRow("ACTIVE", p)
                    /\ req'[t].op \notin {"verify", "reset"} \cup Saving
      BY <2>2, <2>3 DEF IInv, TypeOK, Saving
    <2>5. QED
      BY <1>7, <2>1, <2>4, InsertStep DEF JitProvision
  <1>8. QED
    BY <1>1, <1>4, <1>5, <1>6, <1>7 DEF LoginStep

\* A step that stores nothing: rows can only be deleted, requests only end, and
\* a sweep can only select expired withdrawals.
LEMMA QuietStep ==
    ASSUME IInv, TypeOK', UNCHANGED <<mails, history>>, now <= now',
           \A u \in User : users'[u] = users[u] \/ users'[u] = Deleted,
           \A r \in Request : req'[r] = req[r] \/ req'[r].op \notin Holding,
           \A i \in Instance : \A u \in targets'[i] :
               u \in targets[i] \/ (u \in Stored /\ Expired(users[u]))
    PROVE  IInv'
  <1>1. HistoryGrows /\ MailsStay
    BY SameHistoryGrows DEF MailsStay, history, saved, IInv
  <1>2. \A u \in Stored' : u \in Stored /\ users'[u] = users[u]
    BY DEF Stored
  <1>3. ASSUME NEW u \in Stored, Expired(users[u])
        PROVE  \E t \in withdrawals'[u] : t + Grace < now'
    <2>1. /\ users[u].deactivatedAt \in withdrawals[u]
          /\ users[u].deactivatedAt + Grace < now /\ u \in User
      BY <1>3 DEF Expired, IInv, RowOK, DateEarned, Stored
    <2>2. users[u].deactivatedAt \in Nat /\ now \in Nat /\ now' \in Nat
      BY <2>1 DEF IInv, TypeOK
    <2>3. users[u].deactivatedAt + Grace < now'
      BY <2>1, <2>2, TimeAssumption
    <2>4. QED
      BY <2>1, <2>3 DEF history, saved
  <1>4. QED
    BY <1>1, <1>2, <1>3, Frame
LEMMA DeleteTypes ==
    ASSUME IInv, NEW u, DeleteRow(u)
    PROVE  /\ users' \in [User -> UserRow \cup {Unissued, Deleted}]
           /\ \A v \in User : users'[v] = users[v] \/ users'[v] = Deleted
  BY DEF DeleteRow, IInv, TypeOK
LEMMA DeleteKeeps ==
    ASSUME IInv, NEW r \in Request, DeleteUser(r)
    PROVE  IInv'
  <1>1. /\ DeleteRow(req[r].user) /\ Finish(r)
        /\ UNCHANGED <<now, mails, sweepVars, history>>
    BY DEF DeleteUser
  <1>2. TypeOK'
    BY <1>1, DeleteTypes, FinishTypes DEF IInv, TypeOK, sweepVars, history, saved
  <1>3. now <= now' /\ targets' = targets
    BY <1>1 DEF sweepVars, IInv, TypeOK
  <1>4. QED
    BY <1>1, <1>2, <1>3, DeleteTypes, FinishTypes, QuietStep
LEMMA AbortKeeps ==
    ASSUME IInv, NEW r \in Request, Abort(r)
    PROVE  IInv'
  <1>1. Finish(r) /\ UNCHANGED <<now, users, mails, sweepVars, history>>
    BY DEF Abort
  <1>2. TypeOK'
    BY <1>1, FinishTypes DEF IInv, TypeOK, sweepVars, history, saved
  <1>3. now <= now' /\ targets' = targets
    BY <1>1 DEF sweepVars, IInv, TypeOK
  <1>4. QED
    BY <1>1, <1>2, <1>3, FinishTypes, QuietStep

LEMMA UserStepKeeps ==
    ASSUME IInv, NEW r \in Request, UserStep(r)
    PROVE  IInv'
  <1>1. ASSUME NEW u \in User, FindUser(r, u)
        PROVE  IInv'
    <2> DEFINE q == [op |-> "user", user |-> u, row |-> users[u]]
    <2>1. /\ u \in Stored /\ Begin(r, q)
          /\ UNCHANGED <<now, users, mails, sweepVars, history>>
      BY <1>1 DEF FindUser
    <2>2. q \in ReqState
      BY <2>1, StoredFacts DEF ReqState
    <2>3. q.user = u /\ q.row = users[u] /\ q.op \notin {"verify", "reset"} \cup Saving
      BY DEF Saving
    <2>4. QED
      BY <2>1, <2>2, <2>3, ReadKeeps
  <1>2. Holds(r, "user") =>
            /\ req[r].op \in Holding
            /\ req[r].user \in User /\ req[r].row \in UserRow
            /\ RowOK(req[r].user, req[r].row)
    BY Snapshot DEF Holds, Holding, Saving
  <1>3. ASSUME NEW endpoint, NEW row \in UserRow, NEW by \in Operation,
               Operate(r, endpoint, row, by), RowOK(req[r].user, row),
               by # "deactivate"
        PROVE  IInv'
    <2>1. Holds(r, "user") /\ Save(r, row, by, Null) /\ Null \in Mail \cup {Null}
      BY <1>3 DEF Operate
    <2>2. QED
      BY <1>2, <1>3, <2>1, SaveStep
  <1>4. TypeOK
    BY DEF IInv
  <1>5. CASE Activate(r)
    <2>1. /\ Activated(req[r].row) \in UserRow /\ "activate" \in Operation
          /\ RowOK(req[r].user, Activated(req[r].row))
      BY <1>2, <1>5, ActivatedFacts DEF Activate, Operate, Operation
    <2>2. QED
      BY <1>3, <1>5, <2>1 DEF Activate
  <1>6. CASE Hold(r)
    <2> DEFINE row == [req[r].row EXCEPT !.held = TRUE]
    <2>1. row \in UserRow /\ RowOK(req[r].user, row) /\ "hold" \in Operation
      BY <1>2, <1>6, HeldFacts DEF Hold, Operate, Operation
    <2>2. QED
      BY <1>3, <1>6, <2>1 DEF Hold
  <1>7. CASE Lock(r)
    <2> DEFINE row == [req[r].row EXCEPT !.status = "LOCKED"]
    <2>1. "LOCKED" \in Status /\ "lock" \in Operation
      BY DEF Status, Operation
    <2>2. row \in UserRow /\ RowOK(req[r].user, row)
      BY <1>2, <1>7, <2>1, StatusFacts DEF Lock, Operate
    <2>3. QED
      BY <1>3, <1>7, <2>1, <2>2 DEF Lock
  <1>8. CASE Unlock(r)
    <2>1. /\ Unlocked(req[r].row) \in UserRow /\ "unlock" \in Operation
          /\ RowOK(req[r].user, Unlocked(req[r].row))
      BY <1>2, <1>4, <1>8, UnlockedFacts DEF Unlock, Operate, Operation
    <2>2. QED
      BY <1>3, <1>8, <2>1 DEF Unlock
  <1>9. ASSUME NEW s \in Status, UpdateStatus(r, s)
        PROVE  IInv'
    <2> DEFINE row == [req[r].row EXCEPT !.status = s]
               by == CASE s = "ACTIVE" -> "enable"
                       [] s = "INACTIVE" -> "disable"
                       [] s = "LOCKED" -> "lock"
    <2>1. Operate(r, "update", row, by)
      BY <1>9 DEF UpdateStatus
    <2>2. by \in Operation /\ by # "deactivate"
      BY DEF Status, Operation
    <2>3. row \in UserRow /\ RowOK(req[r].user, row)
      BY <1>2, <2>1, StatusFacts DEF Operate
    <2> HIDE DEF row, by
    <2>4. QED
      BY <1>3, <2>1, <2>2, <2>3
  <1>10. CASE UpdateProfile(r)
    <2>1. /\ req[r].row \in UserRow /\ RowOK(req[r].user, req[r].row)
          /\ "profile" \in Operation
      BY <1>2, <1>10 DEF UpdateProfile, Operate, Operation
    <2>2. QED
      BY <1>3, <1>10, <2>1 DEF UpdateProfile
  <1>11. ASSUME NEW p \in Password, ChangePassword(r, p)
         PROVE  IInv'
    <2> DEFINE row == [req[r].row EXCEPT !.password = p]
    <2>1. row \in UserRow /\ RowOK(req[r].user, row) /\ "password" \in Operation
      BY <1>2, <1>11, PasswordFacts DEF ChangePassword, Operate, Operation
    <2>2. QED
      BY <1>3, <1>11, <2>1 DEF ChangePassword
  <1>12. CASE Deactivate(r)
    <2> DEFINE u == req[r].user
               row == [req[r].row EXCEPT !.status = "INACTIVE",
                                         !.deactivatedAt = now]
    <2>1. /\ u \in User /\ req[r].row \in UserRow /\ RowOK(u, req[r].row)
          /\ Compare(r, row, "deactivate", Null) /\ tries' = tries
      BY <1>2, <1>12 DEF Deactivate, Operate, Save
    <2>2. now \in Nat /\ now # Null
      BY <1>4, MarkerAssumption DEF TypeOK
    <2>3. row \in UserRow
      BY <2>1, <2>2 DEF UserRow, Status
    <2>4. /\ row.failed = req[r].row.failed
          /\ row.lockedUntil = req[r].row.lockedUntil
          /\ row.held = req[r].row.held /\ row.pending = req[r].row.pending
          /\ row.deactivatedAt = now
      BY <2>1 DEF UserRow
    <2>5. applied' = applied
      BY <2>1 DEF Compare
    <2> HIDE DEF row
    <2>6. ASSUME NEW v, NEW new, v = u, new = row
          PROVE  MarksEarned(v, new)'
      BY <2>1, <2>4, <2>5, <2>6 DEF RowOK, MarksEarned
    <2>7. /\ tries' \in [User -> 0 .. MaxFailed] /\ row.deactivatedAt # Null
          /\ \A v \in User : tries[v] <= tries'[v]
          /\ "deactivate" \in Operation /\ Null \in Mail \cup {Null}
      BY <1>4, <2>1, <2>2, <2>4 DEF TypeOK, Operation
    <2>8. QED
      BY <2>1, <2>3, <2>6, <2>7, CompareStep
  <1>13. CASE DeleteUser(r)
    BY <1>13, DeleteKeeps DEF DeleteUser
  <1>14. QED
    BY <1>1, <1>5, <1>6, <1>7, <1>8, <1>9, <1>10, <1>11, <1>12, <1>13
       DEF UserStep

LEMMA SweepStepKeeps ==
    ASSUME IInv, NEW i \in Instance, SweepStep(i)
    PROVE  IInv'
  <1>1. \A u \in User, j \in Instance : Drop(j, u) =>
            /\ targets' \in [Instance -> SUBSET User]
            /\ \A k \in Instance : targets'[k] \subseteq targets[k]
    BY DEF Drop, IInv, TypeOK
  <1>2. CASE SweepStart(i)
    <2>1. TypeOK'
      BY <1>2 DEF SweepStart, Stored, IInv, TypeOK, history, saved
    <2>2. \A j \in Instance : \A u \in targets'[j] :
              u \in targets[j] \/ (u \in Stored /\ Expired(users[u]))
      BY <1>2 DEF SweepStart, IInv, TypeOK
    <2>3. UNCHANGED <<now, users, mails, req, history>> /\ now <= now'
      BY <1>2 DEF SweepStart, IInv, TypeOK
    <2>4. QED
      BY <2>1, <2>2, <2>3, QuietStep
  <1>3. CASE SweepEnd(i)
    <2>1. TypeOK'
      BY <1>3 DEF SweepEnd, IInv, TypeOK, history, saved
    <2>2. UNCHANGED <<now, users, mails, req, targets, history>> /\ now <= now'
      BY <1>3 DEF SweepEnd, IInv, TypeOK
    <2>3. QED
      BY <2>1, <2>2, QuietStep
  <1>4. CASE SweepCrash(i)
    <2>1. TypeOK'
      BY <1>4 DEF SweepCrash, IInv, TypeOK, history, saved
    <2>2. \A j \in Instance : targets'[j] \subseteq targets[j]
      BY <1>4 DEF SweepCrash, IInv, TypeOK
    <2>3. UNCHANGED <<now, users, mails, req, history>> /\ now <= now'
      BY <1>4 DEF SweepCrash, IInv, TypeOK
    <2>4. QED
      BY <2>1, <2>2, <2>3, QuietStep
  <1>5. ASSUME NEW u \in User, SweepDelete(i, u)
        PROVE  IInv'
    <2>1. /\ DeleteRow(u) /\ Drop(i, u) /\ now <= now'
          /\ UNCHANGED <<now, mails, req, sweepLock, sweeping, history>>
      BY <1>5 DEF SweepDelete, IInv, TypeOK
    <2>2. TypeOK'
      BY <1>1, <2>1, DeleteTypes DEF IInv, TypeOK, history, saved
    <2>3. QED
      BY <1>1, <2>1, <2>2, DeleteTypes, QuietStep
  <1>6. ASSUME NEW u \in User, SweepSkip(i, u)
        PROVE  IInv'
    <2>1. /\ Drop(i, u) /\ now <= now'
          /\ UNCHANGED <<now, users, mails, req, sweepLock, sweeping, history>>
      BY <1>6 DEF SweepSkip, IInv, TypeOK
    <2>2. TypeOK'
      BY <1>1, <2>1 DEF IInv, TypeOK, history, saved
    <2>3. QED
      BY <1>1, <2>1, <2>2, QuietStep
  <1>7. QED
    BY <1>2, <1>3, <1>4, <1>5, <1>6 DEF SweepStep
LEMMA TickKeeps ==
    ASSUME IInv, Tick
    PROVE  IInv'
  <1>1. now <= now' /\ UNCHANGED <<users, mails, req, sweepVars, history>>
    BY DEF Tick, IInv, TypeOK
  <1>2. TypeOK' /\ targets' = targets
    BY DEF Tick, IInv, TypeOK, sweepVars, history, saved
  <1>3. QED
    BY <1>1, <1>2, QuietStep
LEMMA InitOK ==
    ASSUME Init
    PROVE  IInv
  BY TimeAssumption, MarkerAssumption
     DEF Init, IInv, TypeOK, Stored, Idle, ReqState, Holding, Saving
LEMMA StepOK ==
    ASSUME IInv, [Next]_vars
    PROVE  IInv'
  <1>1. CASE Next
    BY <1>1, RegistrationKeeps, MailStepKeeps, LoginStepKeeps, UserStepKeeps,
       UpdateKeeps, InsertKeeps, AbortKeeps, SweepStepKeeps, TickKeeps DEF Next
  <1>2. CASE UNCHANGED vars
    <2>1. TypeOK' /\ now <= now'
      BY <1>2 DEF vars, IInv, TypeOK, history, saved, sweepVars
    <2>2. UNCHANGED <<now, users, mails, req, sweepVars, history>>
          /\ targets' = targets
      BY <1>2 DEF vars, sweepVars
    <2>3. QED
      BY <2>1, <2>2, QuietStep
  <1>3. QED
    BY <1>1, <1>2

(***************************************************************************)
(* The theorems.                                                           *)
(***************************************************************************)

\* In every state that requests can reach, however they overlap and in whichever
\* columns their saves mix, the stored rows and all the snapshots that a later
\* save can take columns from show what has happened, and the deletion job works
\* on expired withdrawals.
THEOREM Invariance == Spec => []IInv
  <1>1. Init => IInv
    BY InitOK
  <1>2. IInv /\ [Next]_vars => IInv'
    BY StepOK
  <1>3. QED
    BY <1>1, <1>2, PTL DEF Spec

\* Every table and every local state keeps its type.
THEOREM TypeCorrect == Spec => []TypeOK
  <1>1. IInv => TypeOK
    BY DEF IInv
  <1>2. QED
    BY <1>1, Invariance, PTL

\* No mixture of stale columns locks an account out before MaxFailed wrong
\* passwords were found, or has an account wait or held that never applied.
THEOREM EarnedLocksAndHolds == Spec => []LocksAndHoldsEarned
  <1>1. IInv => LocksAndHoldsEarned
    BY DEF IInv, LocksAndHoldsEarned, RowOK
  <1>2. QED
    BY <1>1, Invariance, PTL

\* The daily job deletes withdrawn accounts only, and no sooner than the period
\* of grace after one of their withdrawals.
THEOREM SweepSparesOthers == Spec => SweepSpares
  <1> DEFINE A == \A i \in Instance, u \in User :
                      SweepDelete(i, u) /\ u \in Stored =>
                          \E t \in withdrawals[u] : t + Grace < now
  <1>1. IInv /\ [Next]_vars => [A]_vars
    BY DEF IInv, SweepDelete
  <1>2. QED
    BY <1>1, Invariance, PTL DEF Spec, SweepSpares
(***************************************************************************)
(* Nobody logs in before being let in, as long as administrators use       *)
(* neither lock nor update: both set a status without letting anybody in.  *)
(***************************************************************************)

\* A request for somebody who has not been let in is not a login, and its
\* snapshot is INACTIVE unless its save lets the account in.
OutsiderOK(q) ==
    /\ q.user \notin approved =>
           /\ q.op # "login"
           /\ q.row.status = "INACTIVE" \/ (q.op \in Saving /\ q.by \in Admitting)
    /\ q.op \in Saving => q.by # "disable"

\* Whoever has not been let in is INACTIVE, in the table and in every snapshot.
OutsidersInactive ==
    /\ \A u \in Stored : u \notin approved => users[u].status = "INACTIVE"
    /\ \A r \in Request : req[r].op \in Holding => OutsiderOK(req[r])

LEMMA BeginOutside ==
    ASSUME IInv, OutsidersInactive, NEW r \in Request, NEW q,
           req' = [req EXCEPT ![r] = q],
           users' = users, approved' = approved,
           q.op \in Holding => OutsiderOK(q)
    PROVE  OutsidersInactive'
  <1>1. req'[r] = q /\ \A s \in Request : s # r => req'[s] = req[s]
    BY DEF IInv, TypeOK
  <1>2. Stored' = Stored
    BY DEF Stored
  <1>3. q.op \in Holding => OutsiderOK(q)'
    BY DEF OutsiderOK
  <1>4. \A s \in Request : s # r /\ req[s].op \in Holding => OutsiderOK(req[s])'
    BY <1>1 DEF OutsidersInactive, OutsiderOK
  <1>5. QED
    BY <1>1, <1>2, <1>3, <1>4 DEF OutsidersInactive

\* A handler reads the row of a user.
LEMMA ReadOutside ==
    ASSUME IInv, OutsidersInactive, NEW r \in Request, NEW q, Begin(r, q),
           users' = users, approved' = approved, q.op \notin Saving,
           q.user \in Stored, q.row = users[q.user],
           q.op = "login" => q.row.status # "INACTIVE"
    PROVE  OutsidersInactive'
  <1>1. OutsiderOK(q)
    BY DEF OutsiderOK, OutsidersInactive
  <1>2. QED
    BY <1>1, BeginOutside DEF Begin

\* A handler compares a row: an outsider's is INACTIVE, or lets the outsider in.
LEMMA CompareOutside ==
    ASSUME IInv, OutsidersInactive, NEW r \in Request, NEW row, NEW by, NEW m,
           req[r].op \in Holding, Compare(r, row, by, m), by # "disable",
           \/ by \in Admitting \/ req[r].user \in approved
           \/ row.status = "INACTIVE"
    PROVE  OutsidersInactive'
  <1> DEFINE q == Compared(r, row, by, m)
  <1>1. /\ req' = [req EXCEPT ![r] = q]
        /\ users' = users /\ approved' = approved
    BY DEF Compare, Compared, saved
  <1>2. /\ q.user = req[r].user /\ q.row = row /\ q.by = by
        /\ q.op \in Saving /\ q.op # "login"
    BY DEF Compared, Saving
  <1>3. OutsiderOK(q)
    BY <1>2 DEF OutsiderOK
  <1> HIDE DEF q
  <1>4. QED
    BY <1>1, <1>3, BeginOutside

LEMMA InsertOutside ==
    ASSUME IInv, OutsidersInactive, NEW u \in User, NEW s, NEW p,
           users' = [users EXCEPT ![u] = NewRow(s, p)],
           approved \subseteq approved', u \in approved' \/ s = "INACTIVE",
           \A r \in Request :
               \/ req'[r] = req[r]
               \/ req'[r].op \notin Holding
               \/ req'[r].user \in approved' /\ req'[r].op \notin Saving
    PROVE  OutsidersInactive'
  <1>1. NewRow(s, p).status = s
    BY DEF NewRow
  <1>2. \A v \in Stored' :
            \/ v \in Stored /\ users'[v] = users[v]
            \/ v = u /\ users'[v] = NewRow(s, p)
    BY DEF Stored, IInv, TypeOK
  <1>3. ASSUME NEW r \in Request, req'[r].op \in Holding
        PROVE  OutsiderOK(req[r])'
    BY <1>3 DEF OutsidersInactive, OutsiderOK
  <1>4. QED
    BY <1>1, <1>2, <1>3 DEF OutsidersInactive
LEMMA QuietOutside ==
    ASSUME OutsidersInactive, approved' = approved,
           \A u \in User : \/ users'[u] = users[u]
                           \/ users'[u] = Deleted
                           \/ /\ u \in Stored
                              /\ users'[u].status = users[u].status,
           \A r \in Request : req'[r] = req[r] \/ req'[r].op \notin Holding
    PROVE  OutsidersInactive'
  <1>1. \A u \in Stored' : u \in Stored /\ users'[u].status = users[u].status
    BY DEF Stored
  <1>2. ASSUME NEW r \in Request, req'[r].op \in Holding
        PROVE  OutsiderOK(req[r])'
    BY <1>2 DEF OutsidersInactive, OutsiderOK
  <1>3. QED
    BY <1>1, <1>2 DEF OutsidersInactive

\* A save stores the status of its row, or leaves the stored one.
LEMMA CommitOutside ==
    ASSUME IInv, OutsidersInactive, NEW r \in Request, NEW new,
           req[r].op \in Saving, Committed(r),
           users' = [users EXCEPT ![req[r].user] = new],
           \/ req[r].user \notin Stored /\ new = users[req[r].user]
           \/ req[r].user \in Stored
                  /\ new.status \in {req[r].row.status, users[req[r].user].status}
           \/ new.status = req[r].row.status
    PROVE  OutsidersInactive'
  <1> DEFINE u == req[r].user
  <1>1. OutsiderOK(req[r]) /\ req[r].by # "disable" /\ u \in User
    BY Snapshot DEF OutsidersInactive, OutsiderOK, Holding
  <1>2. /\ approved \subseteq approved'
        /\ req[r].by \in Admitting => u \in approved'
    BY <1>1 DEF Committed, LetIn
  <1>3. /\ users'[u] = new /\ \A v \in User : v # u => users'[v] = users[v]
    BY <1>1 DEF IInv, TypeOK
  <1>4. Finish(r)
    BY DEF Committed
  <1>5. u \notin approved' => req[r].row.status = "INACTIVE"
    BY <1>1, <1>2 DEF OutsiderOK
  <1>6. ASSUME NEW v \in User, v \in Stored', v \notin approved'
        PROVE  users'[v].status = "INACTIVE"
    <2>1. CASE v # u
      BY <1>2, <1>3, <1>6, <2>1 DEF OutsidersInactive, Stored
    <2>2. CASE v = u
      <3>1. u \in Stored => users[u].status = "INACTIVE"
        BY <1>2, <1>6, <2>2 DEF OutsidersInactive
      <3>2. ~(u \notin Stored /\ new = users[u])
        BY <1>3, <1>6, <2>2 DEF Stored
      <3>3. QED
        BY <1>3, <1>5, <1>6, <2>2, <3>1, <3>2
    <2>3. QED
      BY <2>1, <2>2
  <1>7. ASSUME NEW s \in Request, req'[s].op \in Holding
        PROVE  OutsiderOK(req[s])'
    <2>1. req'[s] = req[s]
      BY <1>4, <1>7, FinishTypes
    <2>2. OutsiderOK(req[s])
      BY <1>7, <2>1 DEF OutsidersInactive
    <2>3. QED
      BY <1>2, <2>1, <2>2 DEF OutsiderOK
  <1>8. QED
    BY <1>6, <1>7 DEF OutsidersInactive, Stored

LEMMA UpdateOutside ==
    ASSUME IInv, OutsidersInactive, NEW r \in Request, Update(r) \/ Insert(r)
    PROVE  OutsidersInactive'
  <1> DEFINE u == req[r].user
             merged == Merged(req[r].row, req[r].columns, users[u])
  <1>1. CASE Update(r)
    <2>1. /\ req[r].op \in Saving /\ Committed(r)
          /\ users' = [users EXCEPT ![u] = IF u \in Stored THEN merged ELSE @]
      BY <1>1 DEF Update, Holds, Saving
    <2>2. merged.status \in {req[r].row.status, users[u].status}
      BY DEF Merged, Column
    <2> HIDE DEF merged
    <2>3. CASE u \in Stored
      BY <2>1, <2>2, <2>3, CommitOutside
    <2>4. CASE u \notin Stored
      BY <2>1, <2>4, CommitOutside
    <2>5. QED
      BY <2>3, <2>4
  <1>2. CASE Insert(r)
    <2>1. /\ req[r].op \in Saving /\ Committed(r)
          /\ users' = [users EXCEPT ![u] = req[r].row]
      BY <1>2 DEF Insert, Holds, Saving
    <2>2. QED
      BY <2>1, CommitOutside
  <1>3. QED
    BY <1>1, <1>2

LEMMA RegistrationOutside ==
    ASSUME IInv, OutsidersInactive, Registration
    PROVE  OutsidersInactive'
  <1>1. ASSUME NEW u \in User, NEW p \in Password, RegisterActive(u, p)
        PROVE  OutsidersInactive'
    BY <1>1, InsertOutside DEF RegisterActive, LetIn
  <1>2. ASSUME NEW u \in User, NEW p \in Password, NEW s \in Status,
               Create(u, p, s)
        PROVE  OutsidersInactive'
    <2>1. /\ approved \subseteq approved' /\ req' = req
          /\ u \in approved' \/ s = "INACTIVE"
      BY <1>2 DEF Create, LetIn
    <2>2. QED
      BY <1>2, <2>1, InsertOutside DEF Create
  <1>3. ASSUME NEW r \in Request, NEW u \in User, NEW p \in Password,
               NEW next \in {"markPending", "issueMail"},
               RegisterInactive(r, u, p, next)
        PROVE  OutsidersInactive'
    <2>1. req' = [req EXCEPT ![r] = [op |-> next, user |-> u]]
      BY <1>3 DEF RegisterInactive, Begin
    <2>2. \A t \in Request : req'[t] = req[t] \/ req'[t].op \notin Holding
      BY <2>1 DEF Holding, Saving, IInv, TypeOK
    <2>3. approved' = approved
      BY <1>3 DEF RegisterInactive, history, saved
    <2>4. QED
      BY <1>3, <2>2, <2>3, InsertOutside DEF RegisterInactive
  <1>4. ASSUME NEW r \in Request, MarkPending(r)
        PROVE  OutsidersInactive'
    <2>1. \A u \in User :
              \/ users'[u] = users[u]
              \/ u \in Stored /\ users'[u] = [users[u] EXCEPT !.pending = TRUE]
      BY <1>4 DEF MarkPending
    <2>2. \A u \in Stored :
              [users[u] EXCEPT !.pending = TRUE].status = users[u].status
      BY StoredFacts DEF UserRow
    <2>3. Finish(r) /\ approved' = approved
      BY <1>4 DEF MarkPending, saved
    <2>4. QED
      BY <2>1, <2>2, <2>3, FinishTypes, QuietOutside
  <1>5. ASSUME NEW r \in Request, NEW m \in Mail, IssueMail(r, m)
        PROVE  OutsidersInactive'
    <2>1. Finish(r) /\ users' = users /\ approved' = approved
      BY <1>5 DEF IssueMail, history, saved
    <2>2. QED
      BY <2>1, FinishTypes, QuietOutside
  <1>6. QED
    BY <1>1, <1>2, <1>3, <1>4, <1>5 DEF Registration
LEMMA MailStepOutside ==
    ASSUME IInv, OutsidersInactive, MailStep
    PROVE  OutsidersInactive'
  <1>1. ASSUME NEW m \in Mail, NEW u \in User, ResetRequest(m, u)
        PROVE  OutsidersInactive'
    BY <1>1, QuietOutside DEF ResetRequest, history, saved
  <1>2. ASSUME NEW r \in Request, NEW m \in Mail,
               NEW kind \in {"verify", "reset"}, MailRead(r, m, kind)
        PROVE  OutsidersInactive'
    <2> DEFINE u == mails[m].user
               q == [op |-> kind, user |-> u, row |-> users[u], mail |-> m]
    <2>1. /\ u \in Stored /\ Begin(r, q) /\ users' = users
          /\ approved' = approved
      BY <1>2 DEF MailRead, history, saved
    <2>2. /\ q.op # "login" /\ q.user = u /\ q.row = users[u]
          /\ q.op \notin Saving
      BY DEF Saving
    <2> HIDE DEF q
    <2>3. QED
      BY <2>1, <2>2, ReadOutside
  <1>3. ASSUME NEW r \in Request, VerifySave(r)
        PROVE  OutsidersInactive'
    <2> DEFINE by == IF req[r].row.status = "INACTIVE" THEN "verify"
                                                       ELSE "confirm"
    <2>1. /\ req[r].op \in Holding /\ req[r].op \notin Saving
          /\ Compare(r, Verified(req[r].row), by, req[r].mail)
      BY <1>3 DEF VerifySave, Save, Holds, Holding, Saving
    <2>2. req[r].user \notin approved => req[r].row.status = "INACTIVE"
      BY <2>1 DEF OutsidersInactive, OutsiderOK
    <2>3. by # "disable" /\ (by \in Admitting \/ req[r].user \in approved)
      BY <2>2 DEF Admitting
    <2> HIDE DEF by
    <2>4. QED
      BY <2>1, <2>3, CompareOutside
  <1>4. ASSUME NEW r \in Request, NEW p \in Password, ResetSave(r, p)
        PROVE  OutsidersInactive'
    <2> DEFINE row == [req[r].row EXCEPT !.password = p]
    <2>1. /\ req[r].op \in Holding /\ req[r].op \notin Saving
          /\ Compare(r, row, "reset", req[r].mail)
      BY <1>4 DEF ResetSave, Save, Holds, Holding, Saving
    <2>2. row.status = req[r].row.status
      BY <2>1, Snapshot DEF UserRow
    <2>3. req[r].user \in approved \/ row.status = "INACTIVE"
      BY <2>1, <2>2 DEF OutsidersInactive, OutsiderOK
    <2> HIDE DEF row
    <2>4. QED
      BY <2>1, <2>3, CompareOutside
  <1>5. QED
    BY <1>1, <1>2, <1>3, <1>4 DEF MailStep, VerifyRead, ResetRead


LEMMA LoginStepOutside ==
    ASSUME IInv, OutsidersInactive, NEW r \in Request, LoginStep(r)
    PROVE  OutsidersInactive'
  <1>1. ASSUME NEW u \in User, LoginRead(r, u)
        PROVE  OutsidersInactive'
    <2> DEFINE q == [op |-> "login", user |-> u, row |-> users[u]]
    <2>1. /\ u \in Stored /\ users[u].status # "INACTIVE" /\ Begin(r, q)
          /\ users' = users /\ approved' = approved
      BY <1>1 DEF LoginRead, history, saved
    <2>2. q.user = u /\ q.row = users[u] /\ q.op \notin Saving
      BY DEF Saving
    <2> HIDE DEF q
    <2>3. QED
      BY <2>1, <2>2, ReadOutside
  <1>2. ASSUME NEW row, NEW by, Holds(r, "login"), Compare(r, row, by, Null),
               by # "disable"
        PROVE  OutsidersInactive'
    <2>1. req[r].op \in Holding /\ req[r].user \in approved
      BY <1>2 DEF Holds, Holding, OutsidersInactive, OutsiderOK
    <2>2. QED
      BY <1>2, <2>1, CompareOutside
  <1>3. CASE LoginSuccess(r)
    BY <1>2, <1>3 DEF LoginSuccess, Save
  <1>4. CASE LoginFailure(r)
    BY <1>2, <1>4 DEF LoginFailure
  <1>5. ASSUME NEW p \in Password, ExternalLogin(r, p)
        PROVE  OutsidersInactive'
    BY <1>2, <1>5 DEF ExternalLogin, Save
  <1>6. ASSUME NEW u \in User, NEW p \in Password, JitProvision(r, u, p)
        PROVE  OutsidersInactive'
    <2> DEFINE q == [op |-> "login", user |-> u, row |-> NewRow("ACTIVE", p)]
    <2>1. req' = [req EXCEPT ![r] = q] /\ approved' = approved \cup {u}
      BY <1>6 DEF JitProvision, Begin, LetIn
    <2>2. \A t \in Request :
              \/ req'[t] = req[t]
              \/ req'[t].user \in approved' /\ req'[t].op \notin Saving
      BY <2>1 DEF Saving, IInv, TypeOK
    <2>3. QED
      BY <1>6, <2>1, <2>2, InsertOutside DEF JitProvision
  <1>7. QED
    BY <1>1, <1>3, <1>4, <1>5, <1>6 DEF LoginStep

LEMMA UserStepOutside ==
    ASSUME IInv, OutsidersInactive, NEW r \in Request, UserStep(r),
           "lock" \notin Endpoint, "update" \notin Endpoint
    PROVE  OutsidersInactive'
  <1>1. ASSUME NEW u \in User, FindUser(r, u)
        PROVE  OutsidersInactive'
    <2> DEFINE q == [op |-> "user", user |-> u, row |-> users[u]]
    <2>1. /\ u \in Stored /\ Begin(r, q) /\ users' = users
          /\ approved' = approved
      BY <1>1 DEF FindUser, history, saved
    <2>2. /\ q.op # "login" /\ q.user = u /\ q.row = users[u]
          /\ q.op \notin Saving
      BY DEF Saving
    <2> HIDE DEF q
    <2>3. QED
      BY <2>1, <2>2, ReadOutside
  <1>2. ASSUME NEW endpoint, NEW row, NEW by, Operate(r, endpoint, row, by),
               by # "disable",
               \/ by \in Admitting
               \/ row.status \in {"INACTIVE", req[r].row.status}
        PROVE  OutsidersInactive'
    <2>1. /\ req[r].op \in Holding /\ req[r].op \notin Saving
          /\ Compare(r, row, by, Null)
      BY <1>2 DEF Operate, Save, Holds, Holding, Saving
    <2>2. \/ by \in Admitting \/ req[r].user \in approved
          \/ row.status = "INACTIVE"
      BY <1>2, <2>1 DEF OutsidersInactive, OutsiderOK
    <2>3. QED
      BY <1>2, <2>1, <2>2, CompareOutside
  <1>3. Holds(r, "user") => req[r].row \in UserRow
    BY Snapshot DEF Holds, Holding
  <1>4. CASE Activate(r)
    BY <1>2, <1>4 DEF Activate, Admitting
  <1>5. CASE Unlock(r)
    BY <1>2, <1>5 DEF Unlock, Admitting
  <1>6. CASE Lock(r)
    BY <1>6 DEF Lock, Operate
  <1>7. ASSUME NEW s \in Status, UpdateStatus(r, s)
        PROVE  OutsidersInactive'
    BY <1>7 DEF UpdateStatus, Operate
  <1>8. CASE Hold(r)
    <2> DEFINE row == [req[r].row EXCEPT !.held = TRUE]
    <2>1. Operate(r, "hold", row, "hold")
      BY <1>8 DEF Hold
    <2>2. row.status = req[r].row.status
      BY <1>3, <2>1 DEF Operate, UserRow
    <2> HIDE DEF row
    <2>3. QED
      BY <1>2, <2>1, <2>2
  <1>9. CASE UpdateProfile(r)
    BY <1>2, <1>9 DEF UpdateProfile
  <1>10. ASSUME NEW p \in Password, ChangePassword(r, p)
         PROVE  OutsidersInactive'
    <2> DEFINE row == [req[r].row EXCEPT !.password = p]
    <2>1. Operate(r, "password", row, "password")
      BY <1>10 DEF ChangePassword
    <2>2. row.status = req[r].row.status
      BY <1>3, <2>1 DEF Operate, UserRow
    <2> HIDE DEF row
    <2>3. QED
      BY <1>2, <2>1, <2>2
  <1>11. CASE Deactivate(r)
    <2> DEFINE row == [req[r].row EXCEPT !.status = "INACTIVE",
                                         !.deactivatedAt = now]
    <2>1. Operate(r, "deactivate", row, "deactivate")
      BY <1>11 DEF Deactivate
    <2>2. row.status = "INACTIVE"
      BY <1>3, <2>1 DEF Operate, UserRow
    <2> HIDE DEF row
    <2>3. QED
      BY <1>2, <2>1, <2>2
  <1>12. CASE DeleteUser(r)
    <2>1. DeleteRow(req[r].user) /\ Finish(r) /\ approved' = approved
      BY <1>12 DEF DeleteUser, history, saved
    <2>2. QED
      BY <2>1, DeleteTypes, FinishTypes, QuietOutside
  <1>13. QED
    BY <1>1, <1>4, <1>5, <1>6, <1>7, <1>8, <1>9, <1>10, <1>11, <1>12
       DEF UserStep

LEMMA SweepStepOutside ==
    ASSUME IInv, OutsidersInactive, NEW i \in Instance, SweepStep(i)
    PROVE  OutsidersInactive'
  <1>1. UNCHANGED <<req, history>>
    BY DEF SweepStep, SweepStart, SweepEnd, SweepCrash, SweepDelete, SweepSkip
  <1>2. \A u \in User : users'[u] = users[u] \/ users'[u] = Deleted
    BY DeleteTypes
       DEF SweepStep, SweepStart, SweepEnd, SweepCrash, SweepDelete, SweepSkip
  <1>3. QED
    BY <1>1, <1>2, QuietOutside DEF history, saved
LEMMA StepOutside ==
    ASSUME IInv, OutsidersInactive, [Next]_vars,
           "lock" \notin Endpoint, "update" \notin Endpoint
    PROVE  OutsidersInactive'
  <1>1. ASSUME NEW r \in Request, Abort(r)
        PROVE  OutsidersInactive'
    <2>1. Finish(r) /\ users' = users /\ approved' = approved
      BY <1>1 DEF Abort, history, saved
    <2>2. QED
      BY <2>1, FinishTypes, QuietOutside
  <1>2. CASE Tick
    BY <1>2, QuietOutside DEF Tick, history, saved
  <1>3. CASE UNCHANGED vars
    BY <1>3, QuietOutside DEF vars, history, saved
  <1>4. QED
    BY <1>1, <1>2, <1>3, RegistrationOutside, MailStepOutside,
       LoginStepOutside, UserStepOutside, UpdateOutside, SweepStepOutside DEF Next
\* As long as administrators use neither lock nor update, nobody passes the
\* guards of the login before a confirmed mail, an administrator or a provider
\* has let the account in.
THEOREM NoLoginBeforeApproval ==
    ASSUME "lock" \notin Endpoint, "update" \notin Endpoint
    PROVE  Spec => []ApprovalBeforeLogin
  <1>1. Init => OutsidersInactive
    BY DEF Init, OutsidersInactive, Stored, Idle, Holding, Saving
  <1>2. IInv /\ OutsidersInactive /\ [Next]_vars => OutsidersInactive'
    BY StepOutside
  <1>3. OutsidersInactive => ApprovalBeforeLogin
    BY DEF OutsidersInactive, OutsiderOK, ApprovalBeforeLogin, Holds, Holding
  <1>4. QED
    BY <1>1, <1>2, <1>3, Invariance, PTL DEF Spec
(***************************************************************************)
(* The promises of the documents, as long as no two requests hold a        *)
(* snapshot of the same user.  Requests for other users may overlap, and   *)
(* so may the deletion job.                                                *)
(***************************************************************************)

\* The columns that history says something of.  The mark of an application is
\* none of them: it is written without a snapshot.
Remembered == {"status", "deactivatedAt", "failed", "lockedUntil", "password"}

\* The operations that choose a password.
Choosing == {"reset", "password", "external"}

\* A row of a user whose withdrawal was cancelled or not, with so many wrong
\* passwords, and let in or not.
Fits(row, isCancelled, count, isIn) ==
    /\ isCancelled => row.deactivatedAt = Null
    /\ row.failed = count
    /\ row.failed = MaxFailed => row.lockedUntil # Null
    /\ isIn /\ row.status = "INACTIVE" => row.deactivatedAt # Null

AccountOK(u, row) == Fits(row, u \in cancelled, guesses[u], u \in approved)

\* What will be remembered of the user when a save commits on behalf of by.
CancelledBy(u, by) ==
    by \in {"activate", "unlock"} \/ (by # "deactivate" /\ u \in cancelled)

CountedBy(u, by) ==
    CASE by \in {"login", "external", "unlock"} -> 0
      [] by = "failure" -> NextCount(guesses[u])
      [] OTHER -> guesses[u]

ApprovedBy(u, by) == by \in Admitting \/ (by # "disable" /\ u \in approved)

SaveFits(u, row, by) ==
    Fits(row, CancelledBy(u, by), CountedBy(u, by), ApprovedBy(u, by))

\* A column that a save leaves out of its UPDATE still holds the same value.
LeftOutOK(q) ==
    q.op = "update" /\ q.user \in Stored =>
        \A c \in Remembered : c \in q.columns \/ q.row[c] = users[q.user][c]

SnapshotFresh(q) ==
    /\ users[q.user] # Unissued
    /\ IF q.op \in Saving THEN SaveFits(q.user, q.row, q.by) /\ LeftOutOK(q)
                          ELSE AccountOK(q.user, q.row)
    /\ q.user \in Stored =>
           \/ q.row.password = users[q.user].password
           \/ q.op \in Saving /\ q.by \in Choosing

ApartInv ==
    /\ \A u \in Stored : AccountOK(u, users[u])
    /\ \A u \in User : users[u] = Unissued =>
           u \notin cancelled /\ u \notin approved /\ guesses[u] = 0
    /\ \A r \in Request : req[r].op \in Holding => SnapshotFresh(req[r])

\* Nothing is remembered of a user that was not remembered before.
SameHistory(u) ==
    /\ u \in cancelled' <=> u \in cancelled
    /\ u \in approved' <=> u \in approved
    /\ guesses'[u] = guesses[u]

\* What a snapshot says stays right while its user is left alone.
LEMMA FreshStays ==
    ASSUME NEW q, SnapshotFresh(q), SameHistory(q.user),
           \/ users'[q.user] = users[q.user]
           \/ users[q.user] # Unissued /\ users'[q.user] = Deleted
           \/ /\ q.user \in Stored /\ users'[q.user] \notin {Unissued, Deleted}
              /\ \A c \in Remembered : users'[q.user][c] = users[q.user][c],
           q.user \in User
    PROVE  \A p : p = q => SnapshotFresh(p)'
  <1>1. users'[q.user] # Unissued
    BY MarkerAssumption DEF SnapshotFresh
  <1>2. q.user \in Stored' =>
            /\ q.user \in Stored
            /\ \A c \in Remembered : users'[q.user][c] = users[q.user][c]
    BY DEF Stored
  <1>3. \A by : SaveFits(q.user, q.row, by) => SaveFits(q.user, q.row, by)'
    BY DEF SaveFits, Fits, CancelledBy, CountedBy, ApprovedBy, SameHistory,
           NextCount
  <1>4. AccountOK(q.user, q.row) => AccountOK(q.user, q.row)'
    BY DEF AccountOK, Fits, SameHistory
  <1>5. LeftOutOK(q) => LeftOutOK(q)'
    BY <1>2 DEF LeftOutOK
  <1>6. q.user \in Stored' => users'[q.user].password = users[q.user].password
    BY <1>2 DEF Remembered
  <1>7. SnapshotFresh(q)'
    BY <1>1, <1>2, <1>3, <1>4, <1>5, <1>6 DEF SnapshotFresh
  <1>8. QED
    BY <1>7

\* What is remembered of a user when a save has been committed.
LEMMA CommittedHistory ==
    ASSUME IInv, NEW r \in Request, NEW u \in User, u = req[r].user,
           Committed(r)
    PROVE  /\ u \in cancelled' <=> CancelledBy(u, req[r].by)
           /\ guesses'[u] = CountedBy(u, req[r].by)
           /\ u \in approved' <=> ApprovedBy(u, req[r].by)
           /\ \A v \in User : v # u => SameHistory(v)
  <1>1. /\ u \in cancelled' <=> CancelledBy(u, req[r].by)
        /\ \A v \in User : v # u => (v \in cancelled' <=> v \in cancelled)
    BY DEF Committed, CancelledBy
  <1>2. /\ u \in approved' <=> ApprovedBy(u, req[r].by)
        /\ \A v \in User : v # u => (v \in approved' <=> v \in approved)
    BY DEF Committed, ApprovedBy, LetIn, Admitting
  <1>3. /\ guesses'[u] = CountedBy(u, req[r].by)
        /\ \A v \in User : v # u => guesses'[v] = guesses[v]
    BY DEF Committed, CountedBy, IInv, TypeOK
  <1>4. QED
    BY <1>1, <1>2, <1>3 DEF SameHistory

\* A commit stores the only snapshot of its user, as the operation changed it,
\* or finds that the user has been deleted.
LEMMA CommitApart ==
    ASSUME IInv, SaversApart, ApartInv, NEW r \in Request, NEW u \in User,
           NEW new, req[r].op \in Saving, u = req[r].user, Committed(r),
           users' = [users EXCEPT ![u] = new],
           \/ u \notin Stored /\ new = users[u]
           \/ /\ new \in UserRow
              /\ \A c \in Remembered : new[c] = req[r].row[c]
    PROVE  ApartInv'
  <1>1. users'[u] = new /\ \A v \in User : v # u => users'[v] = users[v]
    BY DEF IInv, TypeOK
  <1>2. SnapshotFresh(req[r]) /\ users[u] # Unissued
    BY DEF ApartInv, SnapshotFresh, Holding
  <1>3. users'[u] # Unissued
    BY <1>1, <1>2, MarkerAssumption
  <1>4. u \in Stored' => AccountOK(u, new)'
    <2>1. CASE u \notin Stored /\ new = users[u]
      BY <1>1, <2>1 DEF Stored
    <2>2. CASE \A c \in Remembered : new[c] = req[r].row[c]
      <3>1. /\ new.status = req[r].row.status
            /\ new.deactivatedAt = req[r].row.deactivatedAt
            /\ new.failed = req[r].row.failed
            /\ new.lockedUntil = req[r].row.lockedUntil
        BY <2>2 DEF Remembered
      <3>2. SaveFits(u, req[r].row, req[r].by)
        BY <1>2 DEF SnapshotFresh
      <3>3. SaveFits(u, new, req[r].by)
        BY <3>1, <3>2 DEF SaveFits, Fits
      <3>4. QED
        BY <3>3, CommittedHistory DEF SaveFits, AccountOK, Fits
    <2>3. QED
      BY <2>1, <2>2
  <1>5. \A v \in User : v # u => SameHistory(v)
    BY CommittedHistory
  <1>6. ASSUME NEW v \in Stored'
        PROVE  AccountOK(v, users[v])'
    <2>1. CASE v = u
      BY <1>1, <1>4, <2>1 DEF AccountOK
    <2>2. CASE v # u
      <3>1. v \in Stored /\ users'[v] = users[v] /\ SameHistory(v)
        BY <1>1, <1>5, <2>2 DEF Stored
      <3>2. QED
        BY <3>1 DEF ApartInv, AccountOK, SameHistory
    <2>3. QED
      BY <2>1, <2>2
  <1>7. ASSUME NEW s \in Request, req'[s].op \in Holding
        PROVE  SnapshotFresh(req[s])'
    <2>1. Finish(r)
      BY DEF Committed
    <2>2. req'[s] = req[s] /\ s # r
      BY <1>7, <2>1, FinishTypes DEF Finish, Idle, Holding, Saving, IInv, TypeOK
    <2>3. req[s].user # u /\ req[s].user \in User
      BY <1>7, <2>2, Snapshot DEF SaversApart, Holding
    <2>4. SnapshotFresh(req[s])
      BY <1>7, <2>2 DEF ApartInv
    <2>5. QED
      BY <1>1, <1>5, <2>2, <2>3, <2>4, FreshStays
  <1>8. QED
    BY <1>1, <1>3, <1>5, <1>6, <1>7 DEF ApartInv, SameHistory

LEMMA UpdateApart ==
    ASSUME IInv, SaversApart, ApartInv, NEW r \in Request, Update(r)
    PROVE  ApartInv'
  <1> DEFINE u == req[r].user
             new == IF u \in Stored
                    THEN Merged(req[r].row, req[r].columns, users[u])
                    ELSE users[u]
  <1>1. /\ req[r].op = "update" /\ req[r].op \in Saving /\ req[r].op \in Holding
        /\ Committed(r) /\ users' = [users EXCEPT ![u] = new]
    BY DEF Update, Holds, Saving, Holding
  <1>2. u \in User /\ req[r].row \in UserRow
    BY <1>1, Snapshot
  <1>3. CASE u \notin Stored
    BY <1>1, <1>2, <1>3, CommitApart
  <1>4. CASE u \in Stored
    <2>1. users[u] \in UserRow /\ new = Merged(req[r].row, req[r].columns, users[u])
      BY <1>4, StoredFacts
    <2>2. new \in UserRow
      BY <1>2, <2>1, MergedFacts
    <2>3. \A c \in Remembered : c \in req[r].columns \/ req[r].row[c] = users[u][c]
      BY <1>1, <1>4 DEF ApartInv, SnapshotFresh, LeftOutOK
    <2>4. Remembered \subseteq Column
      BY DEF Remembered, Column
    <2>5. \A c \in Remembered : new[c] = req[r].row[c]
      BY <2>1, <2>3, <2>4 DEF Merged
    <2> HIDE DEF new
    <2>6. QED
      BY <1>1, <1>2, <2>2, <2>5, CommitApart
  <1>5. QED
    BY <1>3, <1>4

LEMMA InsertApart ==
    ASSUME IInv, SaversApart, ApartInv, NEW r \in Request, Insert(r)
    PROVE  ApartInv'
  <1>1. /\ req[r].op \in Saving /\ req[r].op \in Holding /\ Committed(r)
        /\ users' = [users EXCEPT ![req[r].user] = req[r].row]
    BY DEF Insert, Holds, Saving, Holding
  <1>2. QED
    BY <1>1, Snapshot, CommitApart

\* A handler that starts reads the row as it is.
LEMMA BeginApart ==
    ASSUME IInv, ApartInv, NEW r \in Request, NEW q, Begin(r, q),
           UNCHANGED <<users, cancelled, approved, guesses>>,
           q.op \notin Saving,
           q.op \in Holding => q.user \in Stored /\ q.row = users[q.user]
    PROVE  ApartInv'
  <1>1. req'[r] = q /\ \A s \in Request : s # r => req'[s] = req[s]
    BY DEF Begin, IInv, TypeOK
  <1>2. Stored' = Stored
    BY DEF Stored
  <1>3. q.op \in Holding => SnapshotFresh(q)
    BY DEF SnapshotFresh, ApartInv, Stored
  <1>4. \A s \in Request : req[s].op \in Holding => req[s].user \in User
    BY Snapshot
  <1>5. q.op \in Holding => q.user \in User
    BY DEF Stored
  <1>6. \A u : SameHistory(u)
    BY DEF SameHistory
  <1>7. ASSUME NEW s \in Request, req'[s].op \in Holding
        PROVE  SnapshotFresh(req[s])'
    <2>1. CASE s = r
      BY <1>1, <1>3, <1>5, <1>6, <1>7, <2>1, FreshStays
    <2>2. CASE s # r
      <3>1. SnapshotFresh(req[s]) /\ req'[s] = req[s] /\ req[s].user \in User
        BY <1>1, <1>4, <1>7, <2>2 DEF ApartInv
      <3>2. QED
        BY <1>6, <3>1, FreshStays
    <2>3. QED
      BY <2>1, <2>2
  <1>8. QED
    BY <1>2, <1>7 DEF ApartInv, AccountOK

\* Nothing is remembered of a user whose id was not drawn before.
LEMMA CreateApart ==
    ASSUME IInv, ApartInv, NEW u \in User, NEW s \in Status, NEW p \in Password,
           users[u] = Unissued, users' = [users EXCEPT ![u] = NewRow(s, p)],
           UNCHANGED <<cancelled, guesses>>,
           s = "INACTIVE" => approved' = approved,
           approved' \in {approved, approved \cup {u}},
           \A r \in Request :
               \/ req'[r] = req[r]
               \/ req'[r].op \notin Holding
               \/ /\ req'[r].op \notin Saving
                  /\ req'[r].user = u /\ req'[r].row = NewRow(s, p)
    PROVE  ApartInv'
  <1>1. users'[u] = NewRow(s, p) /\ \A v \in User : v # u => users'[v] = users[v]
    BY DEF IInv, TypeOK
  <1>2. u \in Stored' /\ users'[u] # Unissued
    BY <1>1, NewRowFacts, MarkerAssumption DEF Stored, IInv
  <1>3. \A v \in User : v # u => (v \in Stored' <=> v \in Stored) /\ SameHistory(v)
    BY <1>1 DEF Stored, SameHistory
  <1>4. AccountOK(u, NewRow(s, p))'
    BY TimeAssumption DEF AccountOK, Fits, NewRow, ApartInv
  <1>5. ASSUME NEW v \in Stored'
        PROVE  AccountOK(v, users[v])'
    <2>1. CASE v = u
      BY <1>1, <1>4, <2>1 DEF AccountOK
    <2>2. CASE v # u
      <3>1. v \in User /\ v \in Stored
        BY <1>3, <2>2 DEF Stored
      <3>2. users'[v] = users[v] /\ SameHistory(v) /\ AccountOK(v, users[v])
        BY <1>1, <1>3, <2>2, <3>1 DEF ApartInv
      <3>3. QED
        BY <3>2 DEF AccountOK, Fits, SameHistory
    <2>3. QED
      BY <2>1, <2>2
  <1>6. ASSUME NEW r \in Request, req'[r].op \in Holding
        PROVE  SnapshotFresh(req[r])'
    <2>1. CASE req'[r] = req[r]
      <3>1. SnapshotFresh(req[r]) /\ req[r].user \in User
        BY <1>6, <2>1, Snapshot DEF ApartInv
      <3>2. req[r].user # u
        BY <3>1 DEF SnapshotFresh
      <3>3. QED
        BY <1>1, <1>3, <2>1, <3>1, <3>2, FreshStays
    <2>2. CASE /\ req'[r].op \notin Saving
               /\ req'[r].user = u /\ req'[r].row = NewRow(s, p)
      BY <1>1, <1>2, <1>4, <2>2 DEF SnapshotFresh, AccountOK
    <2>3. QED
      BY <1>6, <2>1, <2>2
  <1>7. QED
    BY <1>1, <1>2, <1>3, <1>5, <1>6 DEF ApartInv, SameHistory

\* A deletion, or the mark of an application, touches nothing that is remembered.
LEMMA QuietApart ==
    ASSUME IInv, ApartInv, UNCHANGED <<cancelled, approved, guesses>>,
           \A u \in User :
               \/ users'[u] = users[u]
               \/ users[u] # Unissued /\ users'[u] = Deleted
               \/ u \in Stored /\ users'[u] = [users[u] EXCEPT !.pending = TRUE],
           \A r \in Request : req'[r] = req[r] \/ req'[r].op \notin Holding
    PROVE  ApartInv'
  <1>1. ASSUME NEW u \in Stored
        PROVE  LET new == [users[u] EXCEPT !.pending = TRUE] IN
                   /\ \A c \in Remembered : new[c] = users[u][c]
                   /\ new \in UserRow
    BY StoredFacts DEF UserRow, Remembered
  <1>2. ASSUME NEW u \in User
        PROVE  \/ users'[u] = users[u]
               \/ users[u] # Unissued /\ users'[u] = Deleted
               \/ /\ u \in Stored /\ users'[u] \notin {Unissued, Deleted}
                  /\ \A c \in Remembered : users'[u][c] = users[u][c]
    BY <1>1, MarkerAssumption
  <1>3. \A u : SameHistory(u)
    BY DEF SameHistory
  <1>4. ASSUME NEW u \in Stored'
        PROVE  AccountOK(u, users[u])'
    <2>1. u \in Stored /\ AccountOK(u, users[u])
      BY <1>2 DEF ApartInv, Stored
    <2>2. \A c \in Remembered : users'[u][c] = users[u][c]
      BY <1>2 DEF Stored
    <2>3. /\ users'[u].status = users[u].status
          /\ users'[u].failed = users[u].failed
          /\ users'[u].deactivatedAt = users[u].deactivatedAt
          /\ users'[u].lockedUntil = users[u].lockedUntil
      BY <2>2 DEF Remembered
    <2>4. QED
      BY <2>1, <2>3 DEF AccountOK, Fits
  <1>5. ASSUME NEW r \in Request, req'[r].op \in Holding
        PROVE  SnapshotFresh(req[r])'
    <2>1. req'[r] = req[r] /\ req[r].user \in User /\ SnapshotFresh(req[r])
      BY <1>5, Snapshot DEF ApartInv
    <2>2. QED
      BY <1>2, <1>3, <2>1, FreshStays
  <1>6. \A u \in User : users'[u] = Unissued => users[u] = Unissued
    BY <1>2, MarkerAssumption
  <1>7. QED
    BY <1>4, <1>5, <1>6 DEF ApartInv

\* A request compares the row it has made of a fresh snapshot with the stored one.
LEMMA CompareApart ==
    ASSUME IInv, ApartInv, NEW r \in Request, NEW row \in UserRow, NEW by, NEW m,
           req[r].op \in Holding \ Saving, Compare(r, row, by, m),
           SaveFits(req[r].user, row, by),
           row.password = req[r].row.password \/ by \in Choosing
    PROVE  ApartInv'
  <1> DEFINE u == req[r].user
             q == [op |-> IF u \in Stored THEN "update" ELSE "insert",
                   user |-> u, row |-> row,
                   columns |-> IF u \in Stored THEN Differing(row, users[u])
                                               ELSE Column,
                   by |-> by, mail |-> m]
  <1>1. /\ req' = [req EXCEPT ![r] = q] /\ users' = users
        /\ UNCHANGED <<cancelled, approved, guesses>>
    BY DEF Compare, saved
  <1>2. req'[r] = q /\ \A s \in Request : s # r => req'[s] = req[s]
    BY <1>1 DEF IInv, TypeOK
  <1>3. /\ q.op \in Saving /\ q.user = u /\ q.row = row /\ q.by = by
        /\ u \in Stored => q.columns = Differing(row, users[u])
    BY DEF Saving
  <1> HIDE DEF q
  <1>4. \A v : SameHistory(v)
    BY <1>1 DEF SameHistory
  <1>5. SnapshotFresh(req[r]) /\ u \in User
    BY Snapshot DEF ApartInv
  <1>6. SnapshotFresh(q)
    <2>1. LeftOutOK(q)
      BY <1>3 DEF LeftOutOK, Differing, Remembered, Column
    <2>2. u \in Stored => row.password = users[u].password \/ by \in Choosing
      BY <1>5 DEF SnapshotFresh
    <2>3. QED
      BY <1>3, <1>5, <2>1, <2>2 DEF SnapshotFresh
  <1>7. ASSUME NEW s \in Request, req'[s].op \in Holding
        PROVE  SnapshotFresh(req[s])'
    <2>1. CASE s = r
      BY <1>1, <1>2, <1>3, <1>4, <1>5, <1>6, <2>1, FreshStays
    <2>2. CASE s # r
      <3>1. SnapshotFresh(req[s]) /\ req'[s] = req[s] /\ req[s].user \in User
        BY <1>2, <1>7, <2>2, Snapshot DEF ApartInv
      <3>2. QED
        BY <1>1, <1>4, <3>1, FreshStays
    <2>3. QED
      BY <2>1, <2>2
  <1>8. QED
    BY <1>1, <1>7 DEF ApartInv, AccountOK, Stored

\* A row that keeps what history says of the user, or loses an INACTIVE status.
LEMMA KeptFits ==
    ASSUME NEW u, NEW old, NEW row, NEW by, AccountOK(u, old),
           by \in {"hold", "lock", "disable", "enable", "profile", "password",
                   "verify", "confirm", "reset"},
           row.failed = old.failed, row.lockedUntil = old.lockedUntil,
           row.deactivatedAt = old.deactivatedAt,
           \/ by = "disable"
           \/ row.status # "INACTIVE"
           \/ by \notin Admitting /\ row.status = old.status
    PROVE  SaveFits(u, row, by)
  BY DEF SaveFits, AccountOK, Fits, CancelledBy, CountedBy, ApprovedBy, Admitting

\* A row whose count is cleared.
LEMMA ClearedFits ==
    ASSUME NEW u, NEW old, NEW row, NEW by, AccountOK(u, old),
           by \in {"login", "external", "unlock"}, row.failed = 0,
           \/ by = "unlock" /\ row.status = "ACTIVE" /\ row.deactivatedAt = Null
           \/ /\ by # "unlock" /\ row.deactivatedAt = old.deactivatedAt
              /\ row.status = "INACTIVE" => old.status = "INACTIVE"
    PROVE  SaveFits(u, row, by)
  BY TimeAssumption
     DEF SaveFits, AccountOK, Fits, CancelledBy, CountedBy, ApprovedBy, Admitting

\* What a login makes of the row it has read.
LEMMA LoggedInFields ==
    ASSUME NEW row \in UserRow
    PROVE  LET l == LoggedIn(row) IN
               /\ l.failed = 0 /\ l.deactivatedAt = row.deactivatedAt
               /\ l.status = "INACTIVE" => row.status = "INACTIVE"
               /\ l.password = row.password
  <1> DEFINE c == CounterCleared(row)
             s == IF c.status = "LOCKED" THEN "ACTIVE" ELSE c.status
  <1>1. /\ c.failed = 0 /\ c.deactivatedAt = row.deactivatedAt
        /\ c.status = row.status /\ c.password = row.password
        /\ c = [row EXCEPT !.failed = 0, !.lockedUntil = Null]
    BY DEF CounterCleared, UserRow
  <1>2. LoggedIn(row) = [c EXCEPT !.status = s]
    BY DEF LoggedIn
  <1>3. DOMAIN c = DOMAIN row /\ DOMAIN row = {"status", "deactivatedAt",
            "pending", "held", "failed", "lockedUntil", "password"}
    BY <1>1 DEF UserRow
  <1>4. QED
    BY <1>1, <1>2, <1>3

\* What a wrong password makes of the row: the attempt that fills the counter
\* locks it.
LEMMA FailedFields ==
    ASSUME TypeOK, NEW row \in UserRow
    PROVE  LET f == Failed(row) IN
               /\ f.failed = NextCount(row.failed)
               /\ f.failed = MaxFailed => f.lockedUntil # Null
               /\ f.deactivatedAt = row.deactivatedAt
               /\ f.status = "INACTIVE" => row.status = "INACTIVE"
               /\ f.password = row.password
  <1>1. row.failed \in 0 .. MaxFailed /\ MaxFailed \in Nat \ {0}
    BY TimeAssumption DEF UserRow
  <1>2. NextCount(row.failed) >= MaxFailed =>
            NextCount(row.failed) = MaxFailed
    BY <1>1 DEF NextCount
  <1>3. now + LockTime # Null
    BY TimeAssumption, MarkerAssumption DEF TypeOK
  <1>4. CASE NextCount(row.failed) >= MaxFailed
    BY <1>2, <1>3, <1>4 DEF Failed, UserRow
  <1>5. CASE ~(NextCount(row.failed) >= MaxFailed)
    BY <1>1, <1>5 DEF Failed, UserRow, NextCount
  <1>6. QED
    BY <1>4, <1>5

\* The operations, one by one.
LEMMA RegistrationApart ==
    ASSUME IInv, ApartInv, Registration
    PROVE  ApartInv'
  <1>1. ASSUME NEW u \in User, NEW p \in Password, RegisterActive(u, p)
        PROVE  ApartInv'
    BY <1>1, CreateApart DEF RegisterActive, LetIn, Status
  <1>2. ASSUME NEW u \in User, NEW p \in Password, NEW s \in Status,
               Create(u, p, s)
        PROVE  ApartInv'
    <2>1. /\ approved' \in {approved, approved \cup {u}} /\ req' = req
          /\ s = "INACTIVE" => approved' = approved
      BY <1>2 DEF Create, LetIn
    <2>2. QED
      BY <1>2, <2>1, CreateApart DEF Create
  <1>3. ASSUME NEW r \in Request, NEW u \in User, NEW p \in Password,
               NEW next \in {"markPending", "issueMail"},
               RegisterInactive(r, u, p, next)
        PROVE  ApartInv'
    <2>1. req' = [req EXCEPT ![r] = [op |-> next, user |-> u]]
      BY <1>3 DEF RegisterInactive, Begin
    <2>2. \A t \in Request : req'[t] = req[t] \/ req'[t].op \notin Holding
      BY <2>1 DEF Holding, Saving, IInv, TypeOK
    <2>3. UNCHANGED <<cancelled, guesses, approved>> /\ "INACTIVE" \in Status
      BY <1>3 DEF RegisterInactive, history, saved, Status
    <2>4. QED
      BY <1>3, <2>2, <2>3, CreateApart DEF RegisterInactive
  <1>4. ASSUME NEW r \in Request, MarkPending(r)
        PROVE  ApartInv'
    <2>1. \A u \in User :
              \/ users'[u] = users[u]
              \/ u \in Stored /\ users'[u] = [users[u] EXCEPT !.pending = TRUE]
      BY <1>4 DEF MarkPending
    <2>2. Finish(r) /\ UNCHANGED <<cancelled, approved, guesses>>
      BY <1>4 DEF MarkPending, saved
    <2>3. QED
      BY <2>1, <2>2, FinishTypes, QuietApart
  <1>5. ASSUME NEW r \in Request, NEW m \in Mail, IssueMail(r, m)
        PROVE  ApartInv'
    <2>1. /\ Finish(r) /\ users' = users
          /\ UNCHANGED <<cancelled, approved, guesses>>
      BY <1>5 DEF IssueMail, history, saved
    <2>2. QED
      BY <2>1, FinishTypes, QuietApart
  <1>6. QED
    BY <1>1, <1>2, <1>3, <1>4, <1>5 DEF Registration

\* A request about to save holds a snapshot that history agrees with.
LEMMA FreshSnapshot ==
    ASSUME IInv, ApartInv, NEW r \in Request, req[r].op \in Holding \ Saving
    PROVE  /\ req[r].user \in User /\ req[r].row \in UserRow
           /\ AccountOK(req[r].user, req[r].row)
           /\ RowOK(req[r].user, req[r].row)
  BY Snapshot DEF ApartInv, SnapshotFresh

LEMMA MailStepApart ==
    ASSUME IInv, ApartInv, MailStep
    PROVE  ApartInv'
  <1>1. ASSUME NEW m \in Mail, NEW u \in User, ResetRequest(m, u)
        PROVE  ApartInv'
    BY <1>1, QuietApart DEF ResetRequest, history, saved
  <1>2. ASSUME NEW r \in Request, NEW m \in Mail,
               NEW kind \in {"verify", "reset"}, MailRead(r, m, kind)
        PROVE  ApartInv'
    <2> DEFINE u == mails[m].user
               q == [op |-> kind, user |-> u, row |-> users[u], mail |-> m]
    <2>1. /\ u \in Stored /\ Begin(r, q)
          /\ UNCHANGED <<users, cancelled, approved, guesses>>
      BY <1>2 DEF MailRead, history, saved
    <2>2. q.user = u /\ q.row = users[u] /\ q.op \notin Saving
      BY DEF Saving
    <2>3. QED
      <3> HIDE DEF q
      <3>1. QED
        BY <2>1, <2>2, BeginApart
  <1>3. ASSUME NEW r \in Request, VerifySave(r)
        PROVE  ApartInv'
    <2> DEFINE old == req[r].row
               row == Verified(old)
               by == IF old.status = "INACTIVE" THEN "verify" ELSE "confirm"
    <2>1. /\ req[r].op \in Holding \ Saving
          /\ Compare(r, row, by, req[r].mail)
      BY <1>3 DEF VerifySave, Save, Holds, Holding, Saving
    <2>2. old \in UserRow /\ AccountOK(req[r].user, old)
      BY <2>1, FreshSnapshot
    <2>3. row \in UserRow
      BY <2>1, FreshSnapshot, VerifiedFacts
    <2>4. /\ row.failed = old.failed /\ row.lockedUntil = old.lockedUntil
          /\ row.deactivatedAt = old.deactivatedAt
          /\ row.status # "INACTIVE" /\ row.password = old.password
      BY <2>2 DEF Verified, UserRow
    <2>5. by \in {"verify", "confirm"}
      OBVIOUS
    <2> HIDE DEF row, by
    <2>6. QED
      BY <2>1, <2>2, <2>3, <2>4, <2>5, KeptFits, CompareApart
  <1>4. ASSUME NEW r \in Request, NEW p \in Password, ResetSave(r, p)
        PROVE  ApartInv'
    <2> DEFINE old == req[r].row
               row == [old EXCEPT !.password = p]
    <2>1. /\ req[r].op \in Holding \ Saving
          /\ Compare(r, row, "reset", req[r].mail)
      BY <1>4 DEF ResetSave, Save, Holds, Holding, Saving
    <2>2. old \in UserRow /\ AccountOK(req[r].user, old)
      BY <2>1, FreshSnapshot
    <2>3. /\ row \in UserRow
          /\ row.failed = old.failed /\ row.lockedUntil = old.lockedUntil
          /\ row.deactivatedAt = old.deactivatedAt /\ row.status = old.status
      BY <2>2 DEF UserRow
    <2>4. "reset" \in Choosing /\ "reset" \notin Admitting
      BY DEF Choosing, Admitting
    <2> HIDE DEF row
    <2>5. QED
      BY <2>1, <2>2, <2>3, <2>4, KeptFits, CompareApart
  <1>5. QED
    BY <1>1, <1>2, <1>3, <1>4 DEF MailStep, VerifyRead, ResetRead

LEMMA LoginStepApart ==
    ASSUME IInv, ApartInv, NEW r \in Request, LoginStep(r)
    PROVE  ApartInv'
  <1> DEFINE old == req[r].row
  <1>1. ASSUME NEW u \in User, LoginRead(r, u)
        PROVE  ApartInv'
    <2> DEFINE q == [op |-> "login", user |-> u, row |-> users[u]]
    <2>1. /\ u \in Stored /\ Begin(r, q)
          /\ UNCHANGED <<users, cancelled, approved, guesses>>
      BY <1>1 DEF LoginRead, history, saved
    <2>2. q.user = u /\ q.row = users[u] /\ q.op \notin Saving
      BY DEF Saving
    <2>3. QED
      <3> HIDE DEF q
      <3>1. QED
        BY <2>1, <2>2, BeginApart
  <1>2. Holds(r, "login") =>
            /\ req[r].op \in Holding \ Saving
            /\ req[r].user \in User /\ old \in UserRow
            /\ AccountOK(req[r].user, old) /\ RowOK(req[r].user, old)
    BY FreshSnapshot DEF Holds, Holding, Saving
  <1>3. CASE LoginSuccess(r)
    <2> DEFINE row == LoggedIn(old)
    <2>1. Holds(r, "login") /\ Compare(r, row, "login", Null)
      BY <1>3 DEF LoginSuccess, Save
    <2>2. /\ row \in UserRow /\ row.failed = 0
          /\ row.deactivatedAt = old.deactivatedAt
          /\ row.status = "INACTIVE" => old.status = "INACTIVE"
          /\ row.password = old.password
      BY <1>2, <2>1, LoggedInFacts, LoggedInFields DEF IInv
    <2> HIDE DEF row
    <2>3. QED
      BY <1>2, <2>1, <2>2, ClearedFits, CompareApart
  <1>4. ASSUME NEW p \in Password, ExternalLogin(r, p)
        PROVE  ApartInv'
    <2> DEFINE known == [old EXCEPT !.status = "ACTIVE", !.password = p]
               row == LoggedIn(known)
    <2>1. Holds(r, "login") /\ Compare(r, row, "external", Null)
      BY <1>4 DEF ExternalLogin, Save
    <2>2. /\ known \in UserRow /\ known.deactivatedAt = old.deactivatedAt
          /\ known.status = "ACTIVE"
      BY <1>2, <2>1 DEF UserRow, Status
    <2>3. RowOK(req[r].user, known)
      <3>1. /\ known.failed = old.failed /\ known.lockedUntil = old.lockedUntil
            /\ known.pending = old.pending /\ known.held = old.held
        BY <1>2, <2>1 DEF UserRow
      <3> HIDE DEF known
      <3>2. QED
        BY <1>2, <2>1, <2>2, <3>1 DEF RowOK, MarksEarned, DateEarned
    <2>4. /\ row \in UserRow /\ row.failed = 0
          /\ row.deactivatedAt = old.deactivatedAt
          /\ row.status # "INACTIVE"
      <3> HIDE DEF known
      <3>1. QED
        BY <1>2, <2>1, <2>2, <2>3, LoggedInFacts, LoggedInFields DEF IInv
    <2>5. "external" \in Choosing
      BY DEF Choosing
    <2> HIDE DEF row
    <2>6. QED
      BY <1>2, <2>1, <2>4, <2>5, ClearedFits, CompareApart
  <1>5. CASE LoginFailure(r)
    <2> DEFINE u == req[r].user
               row == Failed(old)
    <2>1. /\ Holds(r, "login") /\ Compare(r, row, "failure", Null)
          /\ tries' = [tries EXCEPT ![u] = NextCount(@)]
      BY <1>5 DEF LoginFailure
    <2>2. UNCHANGED <<withdrawals, applied>>
      BY <2>1 DEF Compare, saved
    <2>3. row \in UserRow
      BY <1>2, <2>1, <2>2, FailedFacts DEF IInv
    <2>4. /\ row.failed = NextCount(old.failed)
          /\ row.failed = MaxFailed => row.lockedUntil # Null
          /\ row.deactivatedAt = old.deactivatedAt
          /\ row.status = "INACTIVE" => old.status = "INACTIVE"
          /\ row.password = old.password
      BY <1>2, <2>1, FailedFields DEF IInv
    <2> HIDE DEF row
    <2>5. AccountOK(u, old)
      BY <1>2, <2>1
    <2>6. SaveFits(u, row, "failure")
      BY <2>4, <2>5
         DEF SaveFits, AccountOK, Fits, CancelledBy, CountedBy, ApprovedBy,
             Admitting
    <2>7. QED
      BY <1>2, <2>1, <2>3, <2>4, <2>6, CompareApart
  <1>6. ASSUME NEW u \in User, NEW p \in Password, JitProvision(r, u, p)
        PROVE  ApartInv'
    <2> DEFINE q == [op |-> "login", user |-> u, row |-> NewRow("ACTIVE", p)]
    <2>1. req' = [req EXCEPT ![r] = q] /\ approved' = approved \cup {u}
      BY <1>6 DEF JitProvision, Begin, LetIn
    <2>2. \A t \in Request :
              \/ req'[t] = req[t]
              \/ /\ req'[t].op \notin Saving
                 /\ req'[t].user = u /\ req'[t].row = NewRow("ACTIVE", p)
      BY <2>1 DEF Saving, IInv, TypeOK
    <2>3. "ACTIVE" \in Status /\ "ACTIVE" # "INACTIVE"
      BY DEF Status
    <2>4. QED
      BY <1>6, <2>1, <2>2, <2>3, CreateApart DEF JitProvision
  <1>7. QED
    BY <1>1, <1>3, <1>4, <1>5, <1>6 DEF LoginStep

LEMMA UserStepApart ==
    ASSUME IInv, ApartInv, NEW r \in Request, UserStep(r)
    PROVE  ApartInv'
  <1> DEFINE u == req[r].user
             old == req[r].row
  <1>1. ASSUME NEW v \in User, FindUser(r, v)
        PROVE  ApartInv'
    <2> DEFINE q == [op |-> "user", user |-> v, row |-> users[v]]
    <2>1. /\ v \in Stored /\ Begin(r, q)
          /\ UNCHANGED <<users, cancelled, approved, guesses>>
      BY <1>1 DEF FindUser, history, saved
    <2>2. q.user = v /\ q.row = users[v] /\ q.op \notin Saving
      BY DEF Saving
    <2>3. QED
      <3> HIDE DEF q
      <3>1. QED
        BY <2>1, <2>2, BeginApart
  <1>2. Holds(r, "user") =>
            /\ req[r].op \in Holding \ Saving
            /\ u \in User /\ old \in UserRow
            /\ AccountOK(u, old) /\ RowOK(u, old)
    BY FreshSnapshot DEF Holds, Holding, Saving
  <1>3. ASSUME NEW endpoint, NEW row \in UserRow, NEW by,
               Operate(r, endpoint, row, by), SaveFits(u, row, by),
               row.password = old.password \/ by \in Choosing
        PROVE  ApartInv'
    BY <1>2, <1>3, CompareApart DEF Operate, Save
  <1>4. CASE Activate(r)
    <2> DEFINE row == Activated(old)
    <2>1. Operate(r, "activate", row, "activate") /\ Holds(r, "user")
      BY <1>4 DEF Activate, Operate
    <2>2. /\ row \in UserRow /\ row.failed = old.failed
          /\ row.lockedUntil = old.lockedUntil /\ row.password = old.password
          /\ row.deactivatedAt = Null /\ row.status = "ACTIVE"
      BY <1>2, <2>1 DEF Activated, UserRow, Status
    <2> HIDE DEF row
    <2>3. SaveFits(u, row, "activate")
      BY <1>2, <2>1, <2>2
         DEF SaveFits, AccountOK, Fits, CancelledBy, CountedBy, ApprovedBy
    <2>4. QED
      BY <1>3, <2>1, <2>2, <2>3
  <1>5. CASE Unlock(r)
    <2> DEFINE row == Unlocked(old)
    <2>1. Operate(r, "unlock", row, "unlock") /\ Holds(r, "user")
      BY <1>5 DEF Unlock, Operate
    <2>2. row \in UserRow
      BY <1>2, <2>1, UnlockedFacts DEF IInv
    <2>3. /\ row.failed = 0 /\ row.password = old.password
          /\ row.deactivatedAt = Null /\ row.status = "ACTIVE"
      BY <1>2, <2>1 DEF Unlocked, CounterCleared, UserRow
    <2> HIDE DEF row
    <2>4. QED
      BY <1>2, <1>3, <2>1, <2>2, <2>3, ClearedFits
  <1>6. CASE Hold(r)
    <2> DEFINE row == [old EXCEPT !.held = TRUE]
    <2>1. Operate(r, "hold", row, "hold") /\ Holds(r, "user")
      BY <1>6 DEF Hold, Operate
    <2>2. /\ row \in UserRow /\ row.failed = old.failed
          /\ row.lockedUntil = old.lockedUntil /\ row.password = old.password
          /\ row.deactivatedAt = old.deactivatedAt /\ row.status = old.status
      BY <1>2, <2>1 DEF UserRow
    <2> HIDE DEF row
    <2>3. "hold" \notin Admitting
      BY DEF Admitting
    <2>4. QED
      BY <1>2, <1>3, <2>1, <2>2, <2>3, KeptFits
  <1>7. CASE Lock(r)
    <2> DEFINE row == [old EXCEPT !.status = "LOCKED"]
    <2>1. Operate(r, "lock", row, "lock") /\ Holds(r, "user")
      BY <1>7 DEF Lock, Operate
    <2>2. /\ row \in UserRow /\ row.failed = old.failed
          /\ row.lockedUntil = old.lockedUntil /\ row.password = old.password
          /\ row.deactivatedAt = old.deactivatedAt /\ row.status # "INACTIVE"
      BY <1>2, <2>1 DEF UserRow, Status
    <2> HIDE DEF row
    <2>3. QED
      BY <1>2, <1>3, <2>1, <2>2, KeptFits
  <1>8. ASSUME NEW s \in Status, UpdateStatus(r, s)
        PROVE  ApartInv'
    <2> DEFINE row == [old EXCEPT !.status = s]
               by == CASE s = "ACTIVE" -> "enable"
                       [] s = "INACTIVE" -> "disable"
                       [] s = "LOCKED" -> "lock"
    <2>1. Operate(r, "update", row, by) /\ Holds(r, "user")
      BY <1>8 DEF UpdateStatus, Operate
    <2>2. /\ row \in UserRow /\ row.failed = old.failed
          /\ row.lockedUntil = old.lockedUntil /\ row.password = old.password
          /\ row.deactivatedAt = old.deactivatedAt /\ row.status = s
      BY <1>2, <2>1 DEF UserRow
    <2>3. /\ by \in {"enable", "disable", "lock"}
          /\ s = "INACTIVE" => by = "disable"
      BY DEF Status
    <2> HIDE DEF row, by
    <2>4. QED
      BY <1>2, <1>3, <2>1, <2>2, <2>3, KeptFits
  <1>9. CASE UpdateProfile(r)
    <2>1. Operate(r, "profile", old, "profile") /\ Holds(r, "user")
      BY <1>9 DEF UpdateProfile, Operate
    <2>2. "profile" \notin Admitting
      BY DEF Admitting
    <2>3. QED
      BY <1>2, <1>3, <2>1, <2>2, KeptFits
  <1>10. ASSUME NEW p \in Password, ChangePassword(r, p)
         PROVE  ApartInv'
    <2> DEFINE row == [old EXCEPT !.password = p]
    <2>1. Operate(r, "password", row, "password") /\ Holds(r, "user")
      BY <1>10 DEF ChangePassword, Operate
    <2>2. /\ row \in UserRow /\ row.failed = old.failed
          /\ row.lockedUntil = old.lockedUntil
          /\ row.deactivatedAt = old.deactivatedAt /\ row.status = old.status
      BY <1>2, <2>1 DEF UserRow
    <2> HIDE DEF row
    <2>3. "password" \notin Admitting /\ "password" \in Choosing
      BY DEF Admitting, Choosing
    <2>4. QED
      BY <1>2, <1>3, <2>1, <2>2, <2>3, KeptFits
  <1>11. CASE Deactivate(r)
    <2> DEFINE row == [old EXCEPT !.status = "INACTIVE", !.deactivatedAt = now]
    <2>1. Operate(r, "deactivate", row, "deactivate") /\ Holds(r, "user")
      BY <1>11 DEF Deactivate, Operate
    <2>2. now \in Nat /\ now # Null
      BY MarkerAssumption DEF IInv, TypeOK
    <2>3. /\ row \in UserRow /\ row.failed = old.failed
          /\ row.lockedUntil = old.lockedUntil /\ row.password = old.password
          /\ row.deactivatedAt = now
      BY <1>2, <2>1, <2>2 DEF UserRow, Status
    <2> HIDE DEF row
    <2>4. SaveFits(u, row, "deactivate")
      BY <1>2, <2>1, <2>2, <2>3
         DEF SaveFits, AccountOK, Fits, CancelledBy, CountedBy, ApprovedBy
    <2>5. QED
      BY <1>3, <2>1, <2>3, <2>4
  <1>12. CASE DeleteUser(r)
    <2>1. /\ DeleteRow(u) /\ Finish(r)
          /\ UNCHANGED <<cancelled, approved, guesses>>
      BY <1>12 DEF DeleteUser, history, saved
    <2>2. \A v \in User :
              \/ users'[v] = users[v]
              \/ users[v] # Unissued /\ users'[v] = Deleted
      BY <2>1 DEF DeleteRow, Stored, IInv, TypeOK
    <2>3. QED
      BY <2>1, <2>2, FinishTypes, QuietApart
  <1>13. QED
    BY <1>1, <1>4, <1>5, <1>6, <1>7, <1>8, <1>9, <1>10, <1>11, <1>12
       DEF UserStep

LEMMA StepApart ==
    ASSUME IInv, SaversApart, ApartInv, [Next]_vars
    PROVE  ApartInv'
  <1>1. ASSUME NEW r \in Request, Abort(r)
        PROVE  ApartInv'
    <2>1. /\ Finish(r) /\ users' = users
          /\ UNCHANGED <<cancelled, approved, guesses>>
      BY <1>1 DEF Abort, history, saved
    <2>2. QED
      BY <2>1, FinishTypes, QuietApart
  <1>2. ASSUME NEW i \in Instance, SweepStep(i)
        PROVE  ApartInv'
    <2>1. UNCHANGED <<req, history>>
      BY <1>2 DEF SweepStep, SweepStart, SweepEnd, SweepCrash, SweepDelete,
                  SweepSkip
    <2>2. \A u \in User :
              \/ users'[u] = users[u]
              \/ users[u] # Unissued /\ users'[u] = Deleted
      BY <1>2 DEF SweepStep, SweepStart, SweepEnd, SweepCrash, SweepDelete,
                  SweepSkip, DeleteRow, Stored, IInv, TypeOK
    <2>3. QED
      BY <2>1, <2>2, QuietApart DEF history, saved
  <1>3. CASE Tick
    BY <1>3, QuietApart DEF Tick, history, saved
  <1>4. CASE UNCHANGED vars
    BY <1>4, QuietApart DEF vars, history, saved
  <1>5. QED
    BY <1>1, <1>2, <1>3, <1>4, RegistrationApart, MailStepApart,
       LoginStepApart, UserStepApart, UpdateApart, InsertApart DEF Next

LEMMA ApartInvariance == Spec /\ []SaversApart => []ApartInv
  <1>1. Init => ApartInv
    BY DEF Init, ApartInv, Stored, Idle, Holding, Saving
  <1>2. IInv /\ SaversApart /\ ApartInv /\ [Next]_vars => ApartInv'
    BY StepApart
  <1>3. QED
    BY <1>1, <1>2, Invariance, PTL DEF Spec

\* Activating or unlocking an account cancels its scheduled deletion, and stays
\* cancelled, as long as no two requests hold the same user.
THEOREM ReactivationsCancel ==
    Spec /\ []SaversApart => []ReactivationCancels
  <1>1. ApartInv => ReactivationCancels
    BY DEF ApartInv, AccountOK, Fits, ReactivationCancels
  <1>2. QED
    BY <1>1, ApartInvariance, PTL

\* MaxFailed wrong passwords since the last login or unlocking lock an account,
\* as long as no two requests hold the same user.
THEOREM WrongPasswordsLock ==
    Spec /\ []SaversApart => []LockedAfterMaxFailed
  <1>1. ApartInv => LockedAfterMaxFailed
    BY DEF ApartInv, AccountOK, Fits, LockedAfterMaxFailed
  <1>2. QED
    BY <1>1, ApartInvariance, PTL

\* An account that was let in is not counted among those that wait for it, as
\* long as no two requests hold the same user.
THEOREM ApprovedAreNotCounted ==
    Spec /\ []SaversApart => []ApprovedNotCounted
  <1>1. ApartInv => ApprovedNotCounted
    BY DEF ApartInv, AccountOK, Fits, ApprovedNotCounted, WaitsForApproval
  <1>2. QED
    BY <1>1, ApartInvariance, PTL

(***************************************************************************)
(* Mails.                                                                  *)
(***************************************************************************)

\* A request that has read a mail, or saves one with its user.
Confirming(q) ==
    q.op \in {"verify", "reset"} \/ (q.op \in Saving /\ q.mail # Null)

MailOK(q) ==
    /\ Confirming(q) =>
           mails[q.mail].user = q.user /\ q.mail \notin confirmed
    /\ q.op \in Saving /\ q.by = "reset" => q.mail # Null

\* A confirmed mail is marked as used, and a request that is about to confirm
\* one holds the user it was sent to.
MailsOnce ==
    /\ \A m \in confirmed : mails[m] # Unissued /\ mails[m].used
    /\ \A r \in Request : MailOK(req[r])

\* The mail of a request is one that was sent.
LEMMA ConfirmingTypes ==
    ASSUME IInv, NEW r \in Request, Confirming(req[r])
    PROVE  /\ req[r].mail \in Mail /\ mails[req[r].mail] # Unissued
           /\ req[r].op \in Holding
  BY ReqFields DEF Confirming, IInv, TypeOK, SnapshotOK, Holding

\* Nothing happens to the mails, and no request takes one up.
LEMMA QuietMails ==
    ASSUME MailsOnce, UNCHANGED <<mails, confirmed>>,
           \A r \in Request :
               \/ req'[r] = req[r]
               \/ req'[r].op \notin {"verify", "reset"} \cup Saving
               \/ MailOK(req'[r])
    PROVE  MailsOnce'
  <1>1. \A q : MailOK(q) => MailOK(q)'
    BY DEF MailOK
  <1>2. \A q : q.op \notin {"verify", "reset"} \cup Saving => MailOK(q)'
    BY DEF MailOK, Confirming
  <1>3. \A r \in Request : MailOK(req[r])'
    BY <1>1, <1>2 DEF MailsOnce
  <1>4. QED
    BY <1>3 DEF MailsOnce

\* A request passes through its other steps without a mail.
LEMMA StepWithoutMail ==
    ASSUME IInv, MailsOnce, UNCHANGED <<mails, confirmed>>,
           NEW r \in Request, NEW q, req' = [req EXCEPT ![r] = q],
           q.op \notin {"verify", "reset"} \cup Saving
    PROVE  MailsOnce'
  <1>1. \A s \in Request : req'[s] = req[s] \/ req'[s] = q
    BY DEF IInv, TypeOK
  <1>2. QED
    BY <1>1, QuietMails

\* A new mail is none of those confirmed or about to be.
LEMMA IssueMails ==
    ASSUME IInv, MailsOnce, NEW kind, NEW m \in Mail, NEW u,
           Issue(kind, m, u), confirmed' = confirmed,
           \A r \in Request : req'[r] = req[r] \/ req'[r].op \notin Holding
    PROVE  MailsOnce'
  <1>1. /\ mails[m] = Unissued
        /\ \A n \in Mail : n # m => mails'[n] = mails[n]
    BY DEF Issue, IInv, TypeOK
  <1>2. \A n \in confirmed : n \in Mail /\ n # m
    BY <1>1 DEF MailsOnce, IInv, TypeOK
  <1>3. ASSUME NEW r \in Request
        PROVE  MailOK(req[r])'
    <2>1. CASE req'[r] = req[r]
      <3>1. Confirming(req[r]) => req[r].mail \in Mail /\ req[r].mail # m
        BY <1>1, ConfirmingTypes
      <3>2. MailOK(req[r])
        BY DEF MailsOnce
      <3>3. Confirming(req[r]) => mails'[req[r].mail] = mails[req[r].mail]
        BY <1>1, <3>1
      <3>4. QED
        BY <2>1, <3>2, <3>3 DEF MailOK, Confirming
    <2>2. CASE req'[r].op \notin Holding
      BY <2>2 DEF MailOK, Confirming, Holding
    <2>3. QED
      BY <2>1, <2>2
  <1>4. QED
    BY <1>1, <1>2, <1>3 DEF MailsOnce

\* Only a mail that is unused, hence unconfirmed, is taken up.
LEMMA ReadMails ==
    ASSUME IInv, MailsOnce, NEW r \in Request, NEW m \in Mail,
           NEW kind \in {"verify", "reset"}, MailRead(r, m, kind)
    PROVE  MailsOnce'
  <1> DEFINE q == [op |-> kind, user |-> mails[m].user,
                   row |-> users[mails[m].user], mail |-> m]
  <1>1. /\ req' = [req EXCEPT ![r] = q] /\ UNCHANGED <<mails, confirmed>>
        /\ ~mails[m].used
    BY DEF MailRead, Begin, history, saved
  <1>2. q.mail = m /\ q.user = mails[m].user /\ q.op \notin Saving
    BY DEF Saving
  <1> HIDE DEF q
  <1>3. req'[r] = q /\ \A s \in Request : s # r => req'[s] = req[s]
    BY <1>1 DEF IInv, TypeOK
  <1>4. MailOK(q)
    BY <1>1, <1>2 DEF MailOK, MailsOnce
  <1>5. \A s \in Request : req'[s] = req[s] \/ MailOK(req'[s])
    BY <1>3, <1>4
  <1>6. QED
    BY <1>1, <1>5, QuietMails

\* A save takes over the mail that its request has read, or none.
LEMMA CompareMails ==
    ASSUME IInv, MailsOnce, NEW r \in Request, NEW row, NEW by, NEW m,
           Compare(r, row, by, m),
           \/ m = Null /\ by # "reset"
           \/ req[r].op \in {"verify", "reset"} /\ m = req[r].mail
    PROVE  MailsOnce'
  <1> DEFINE u == req[r].user
             q == [op |-> IF u \in Stored THEN "update" ELSE "insert",
                   user |-> u, row |-> row,
                   columns |-> IF u \in Stored THEN Differing(row, users[u])
                                               ELSE Column,
                   by |-> by, mail |-> m]
  <1>1. req' = [req EXCEPT ![r] = q] /\ UNCHANGED <<mails, confirmed>>
    BY DEF Compare, saved
  <1>2. q.user = u /\ q.by = by /\ q.mail = m
    OBVIOUS
  <1>3. q.op \notin {"verify", "reset"}
    OBVIOUS
  <1> HIDE DEF q
  <1>4. \A s \in Request : req'[s] = req[s] \/ req'[s] = q
    BY <1>1 DEF IInv, TypeOK
  <1>5. MailOK(q)
    <2>1. CASE m = Null /\ by # "reset"
      BY <1>2, <1>3, <2>1 DEF MailOK, Confirming
    <2>2. CASE req[r].op \in {"verify", "reset"} /\ m = req[r].mail
      <3>1. Confirming(req[r]) /\ MailOK(req[r])
        BY <2>2 DEF Confirming, MailsOnce
      <3>2. m \in Mail /\ m # Null
        BY <2>2, <3>1, ConfirmingTypes, MarkerAssumption
      <3>3. QED
        BY <1>2, <2>2, <3>1, <3>2 DEF MailOK
    <2>3. QED
      BY <2>1, <2>2
  <1>6. \A s \in Request : req'[s] = req[s] \/ MailOK(req'[s])
    BY <1>4, <1>5
  <1>7. QED
    BY <1>1, <1>6, QuietMails

\* Who confirms a mail is the only one that holds its user, so that no other
\* request is about to confirm it again.
LEMMA CommitMails ==
    ASSUME IInv, SaversApart, MailsOnce, NEW r \in Request,
           req[r].op \in Saving, Committed(r)
    PROVE  MailsOnce'
  <1> DEFINE m == req[r].mail
  <1>1. Finish(r) /\ req[r].op \in Holding
    BY DEF Committed, Holding
  <1>2. /\ req'[r] = Idle /\ Idle.op \notin {"verify", "reset"} \cup Saving
        /\ \A s \in Request : s # r => req'[s] = req[s]
    BY <1>1 DEF Finish, Idle, Saving, IInv, TypeOK
  <1>3. CASE m = Null
    <2>1. UNCHANGED <<mails, confirmed>>
      BY <1>3 DEF Committed
    <2>2. \A s \in Request :
              req'[s] = req[s] \/ req'[s].op \notin {"verify", "reset"} \cup Saving
      BY <1>2
    <2>3. QED
      BY <2>1, <2>2, QuietMails
  <1>4. CASE m # Null
    <2>1. Confirming(req[r]) /\ Spend(m) /\ confirmed' = confirmed \cup {m}
      BY <1>4 DEF Confirming, Committed
    <2>2. m \in Mail /\ mails[m] # Unissued /\ mails[m].user = req[r].user
      BY <2>1, ConfirmingTypes DEF MailsOnce, MailOK
    <2>3. mails[m] \in MailRow /\ mails'[m] = [mails[m] EXCEPT !.used = TRUE]
      BY <2>1, <2>2 DEF Spend, IInv, TypeOK
    <2>4. mails'[m].used /\ mails'[m].user = mails[m].user
      BY <2>3 DEF MailRow
    <2>5. mails'[m] # Unissued
      BY <2>3, MarkerAssumption DEF MailRow
    <2>6. \A n \in Mail : n # m => mails'[n] = mails[n]
      BY <2>1 DEF Spend, IInv, TypeOK
    <2>7. \A n \in confirmed' : mails'[n] # Unissued /\ mails'[n].used
      BY <2>1, <2>4, <2>5, <2>6 DEF MailsOnce, IInv, TypeOK
    <2>8. ASSUME NEW s \in Request
          PROVE  MailOK(req[s])'
      <3>1. CASE s = r
        BY <1>2, <3>1 DEF MailOK, Confirming
      <3>2. CASE s # r /\ Confirming(req[s])
        <4>1. /\ MailOK(req[s]) /\ req'[s] = req[s]
              /\ req[s].mail \in Mail /\ req[s].op \in Holding
          BY <1>2, <3>2, ConfirmingTypes DEF MailsOnce
        <4>2. req[s].mail # m
          BY <1>1, <2>2, <3>2, <4>1 DEF SaversApart, MailOK
        <4>3. mails'[req[s].mail] = mails[req[s].mail]
              /\ req[s].mail \notin confirmed'
          BY <2>1, <2>6, <3>2, <4>1, <4>2 DEF MailOK
        <4>4. QED
          BY <4>1, <4>3 DEF MailOK, Confirming
      <3>3. CASE s # r /\ ~Confirming(req[s])
        BY <1>2, <3>3 DEF MailOK, Confirming, MailsOnce
      <3>4. QED
        BY <3>1, <3>2, <3>3
    <2>9. QED
      BY <2>7, <2>8 DEF MailsOnce
  <1>5. QED
    BY <1>3, <1>4

LEMMA LoginStepMails ==
    ASSUME IInv, MailsOnce, NEW r \in Request, LoginStep(r)
    PROVE  MailsOnce'
  <1>1. CASE LoginSuccess(r)
    BY <1>1, CompareMails DEF LoginSuccess, Save
  <1>2. CASE LoginFailure(r)
    BY <1>2, CompareMails DEF LoginFailure
  <1>3. ASSUME NEW p \in Password, ExternalLogin(r, p)
        PROVE  MailsOnce'
    BY <1>3, CompareMails DEF ExternalLogin, Save
  <1>4. ASSUME NEW u \in User, LoginRead(r, u)
        PROVE  MailsOnce'
    BY <1>4, StepWithoutMail DEF LoginRead, Begin, Saving, history, saved
  <1>5. ASSUME NEW u \in User, NEW p \in Password, JitProvision(r, u, p)
        PROVE  MailsOnce'
    BY <1>5, StepWithoutMail DEF JitProvision, Begin, Saving
  <1>6. QED
    BY <1>1, <1>2, <1>3, <1>4, <1>5 DEF LoginStep

LEMMA UserStepMails ==
    ASSUME IInv, MailsOnce, NEW r \in Request, UserStep(r)
    PROVE  MailsOnce'
  <1>1. ASSUME NEW u \in User, FindUser(r, u)
        PROVE  MailsOnce'
    BY <1>1, StepWithoutMail DEF FindUser, Begin, Saving, history, saved
  <1>2. CASE DeleteUser(r)
    BY <1>2, StepWithoutMail DEF DeleteUser, Finish, Idle, Saving, history, saved
  <1>3. ASSUME NEW endpoint, NEW row, NEW by, by # "reset",
               Operate(r, endpoint, row, by)
        PROVE  MailsOnce'
    BY <1>3, CompareMails DEF Operate, Save
  <1>4. CASE Activate(r) \/ Hold(r) \/ Lock(r) \/ Unlock(r)
             \/ UpdateProfile(r) \/ Deactivate(r)
    BY <1>3, <1>4
       DEF Activate, Hold, Lock, Unlock, UpdateProfile, Deactivate
  <1>5. ASSUME NEW s \in Status, UpdateStatus(r, s)
        PROVE  MailsOnce'
    <2> DEFINE by == CASE s = "ACTIVE" -> "enable"
                       [] s = "INACTIVE" -> "disable"
                       [] s = "LOCKED" -> "lock"
    <2>1. Operate(r, "update", [req[r].row EXCEPT !.status = s], by)
      BY <1>5 DEF UpdateStatus
    <2>2. by # "reset"
      BY DEF Status
    <2> HIDE DEF by
    <2>3. QED
      BY <1>3, <2>1, <2>2
  <1>6. ASSUME NEW p \in Password, ChangePassword(r, p)
        PROVE  MailsOnce'
    BY <1>3, <1>6 DEF ChangePassword
  <1>7. QED
    BY <1>1, <1>2, <1>4, <1>5, <1>6 DEF UserStep

LEMMA StepMails ==
    ASSUME IInv, SaversApart, MailsOnce, [Next]_vars
    PROVE  MailsOnce'
  <1>1. CASE Registration
    <2>1. ASSUME NEW r \in Request, NEW m \in Mail, IssueMail(r, m)
          PROVE  MailsOnce'
      BY <2>1, FinishTypes, IssueMails DEF IssueMail, history, saved
    <2>2. ASSUME NEW u \in User, NEW p \in Password,
                 RegisterActive(u, p) \/ \E s \in Status : Create(u, p, s)
          PROVE  MailsOnce'
      BY <2>2, QuietMails DEF RegisterActive, Create
    <2>3. ASSUME NEW r \in Request, NEW u \in User, NEW p \in Password,
                 NEW next \in {"markPending", "issueMail"},
                 RegisterInactive(r, u, p, next)
          PROVE  MailsOnce'
      BY <2>3, StepWithoutMail DEF RegisterInactive, Begin, Saving, history, saved
    <2>4. ASSUME NEW r \in Request, MarkPending(r)
          PROVE  MailsOnce'
      BY <2>4, StepWithoutMail DEF MarkPending, Finish, Idle, Saving, saved
    <2>5. QED
      BY <1>1, <2>1, <2>2, <2>3, <2>4 DEF Registration
  <1>2. CASE MailStep
    <2>1. ASSUME NEW m \in Mail, NEW u \in User, ResetRequest(m, u)
          PROVE  MailsOnce'
      BY <2>1, IssueMails DEF ResetRequest, history, saved
    <2>2. ASSUME NEW r \in Request, VerifySave(r)
          PROVE  MailsOnce'
      BY <2>2, CompareMails DEF VerifySave, Save, Holds
    <2>3. ASSUME NEW r \in Request, NEW p \in Password, ResetSave(r, p)
          PROVE  MailsOnce'
      BY <2>3, CompareMails DEF ResetSave, Save, Holds
    <2>4. QED
      BY <1>2, <2>1, <2>2, <2>3, ReadMails DEF MailStep, VerifyRead, ResetRead
  <1>3. ASSUME NEW r \in Request, Update(r) \/ Insert(r)
        PROVE  MailsOnce'
    BY <1>3, CommitMails DEF Update, Insert, Holds, Saving
  <1>4. ASSUME NEW r \in Request, Abort(r)
        PROVE  MailsOnce'
    BY <1>4, StepWithoutMail DEF Abort, Finish, Idle, Saving, history, saved
  <1>5. CASE Tick \/ UNCHANGED vars \/ \E i \in Instance : SweepStep(i)
    <2>1. UNCHANGED <<mails, confirmed, req>>
      BY <1>5 DEF Tick, vars, SweepStep, SweepStart, SweepEnd, SweepCrash,
                  SweepDelete, SweepSkip, history, saved
    <2>2. QED
      BY <2>1, QuietMails
  <1>6. QED
    BY <1>1, <1>2, <1>3, <1>4, <1>5, LoginStepMails, UserStepMails DEF Next

\* A reset token works once, as long as no two requests hold the same user.
THEOREM ResetTokensWorkOnce == Spec /\ []SaversApart => ResetTokenOnce
  <1> DEFINE A == \A r \in Request :
                      (Update(r) \/ Insert(r)) /\ req[r].by = "reset" =>
                          req[r].mail \notin confirmed
  <1>1. Init => MailsOnce
    BY DEF Init, MailsOnce, MailOK, Confirming, Idle, Saving
  <1>2. IInv /\ SaversApart /\ MailsOnce /\ [Next]_vars => MailsOnce'
    BY StepMails
  <1>3. MailsOnce /\ [Next]_vars => [A]_vars
    BY DEF MailsOnce, MailOK, Confirming, Update, Insert, Holds, Saving
  <1>4. QED
    BY <1>1, <1>2, <1>3, Invariance, PTL DEF Spec, ResetTokenOnce

(***************************************************************************)
(* Passwords.                                                              *)
(***************************************************************************)

\* No stored password is replaced in the step, other than by one that was chosen.
PasswordsKept ==
    \A u \in Stored : u \in Stored' /\ users'[u].password # users[u].password =>
        \E r \in Request : /\ Update(r) \/ Insert(r)
                           /\ req[r].user = u /\ req[r].by \in Choosing

\* Rows are stored by a registration, by the commit of a save, or by the mark of
\* an application; all other steps leave them alone, or delete one.
LEMMA RowsChange ==
    ASSUME [Next]_vars
    PROVE  \/ users' = users
           \/ \E u \in User : DeleteRow(u)
           \/ \E u \in User : \E row :
                  /\ users[u] = Unissued
                  /\ users' = [users EXCEPT ![u] = row]
           \/ \E r \in Request : MarkPending(r) \/ Update(r) \/ Insert(r)
           \/ \E r \in Request : DeleteUser(r)
  <1>1. Registration =>
            \/ users' = users \/ \E r \in Request : MarkPending(r)
            \/ \E u \in User : \E row :
                   /\ users[u] = Unissued
                   /\ users' = [users EXCEPT ![u] = row]
    BY DEF Registration, Create, RegisterActive, RegisterInactive, IssueMail
  <1>2. MailStep => users' = users
    BY DEF MailStep, ResetRequest, VerifyRead, ResetRead, MailRead, VerifySave,
           ResetSave, Save, Compare
  <1>3. ASSUME NEW r \in Request, LoginStep(r)
        PROVE  \/ users' = users
               \/ \E u \in User : \E row :
                      /\ users[u] = Unissued
                      /\ users' = [users EXCEPT ![u] = row]
    BY <1>3 DEF LoginStep, LoginRead, LoginSuccess, LoginFailure, ExternalLogin,
                JitProvision, Save, Compare
  <1>4. ASSUME NEW r \in Request, UserStep(r)
        PROVE  users' = users \/ DeleteUser(r)
    BY <1>4 DEF UserStep, FindUser, Activate, Hold, Lock, Unlock, UpdateProfile,
                Deactivate, UpdateStatus, ChangePassword, Operate, Save, Compare
  <1>5. ASSUME NEW i \in Instance, SweepStep(i)
        PROVE  users' = users \/ \E u \in User : DeleteRow(u)
    BY <1>5 DEF SweepStep, SweepStart, SweepEnd, SweepCrash, SweepDelete,
                SweepSkip
  <1>6. CASE Tick \/ UNCHANGED vars \/ \E r \in Request : Abort(r)
    BY <1>6 DEF Tick, vars, Abort
  <1>7. QED
    BY <1>1, <1>2, <1>3, <1>4, <1>5, <1>6 DEF Next

\* Only a commit replaces a password, and a fresh snapshot carries the password
\* of the row it is compared with.
LEMMA StepPassword ==
    ASSUME IInv, ApartInv, [Next]_vars
    PROVE  PasswordsKept
  <1>1. CASE users' = users
    BY <1>1 DEF PasswordsKept
  <1>2. CASE (\E u \in User : DeleteRow(u)) \/ \E r \in Request : DeleteUser(r)
    BY <1>2 DEF DeleteUser, DeleteRow, PasswordsKept, Stored, IInv, TypeOK
  <1>3. ASSUME NEW u \in User, NEW row, users[u] = Unissued,
               users' = [users EXCEPT ![u] = row]
        PROVE  PasswordsKept
    BY <1>3 DEF PasswordsKept, Stored, IInv, TypeOK
  <1>4. ASSUME NEW r \in Request, MarkPending(r)
        PROVE  PasswordsKept
    <2>1. \A u \in User :
              \/ users'[u] = users[u]
              \/ u \in Stored /\ users'[u] = [users[u] EXCEPT !.pending = TRUE]
      BY <1>4 DEF MarkPending
    <2>2. \A u \in Stored : /\ u \in User
              /\ [users[u] EXCEPT !.pending = TRUE].password = users[u].password
      BY StoredFacts DEF UserRow
    <2>3. QED
      BY <2>1, <2>2 DEF PasswordsKept
  <1>5. ASSUME NEW r \in Request, Update(r)
        PROVE  PasswordsKept
    <2> DEFINE v == req[r].user
    <2>1. /\ req[r].op \in Holding /\ req[r].op \in Saving
          /\ users' = [users EXCEPT ![v] =
                IF v \in Stored
                THEN Merged(req[r].row, req[r].columns, users[v])
                ELSE users[v]]
      BY <1>5 DEF Update, Holds, Holding, Saving
    <2>2. v \in User /\ SnapshotFresh(req[r])
      BY <2>1, Snapshot DEF ApartInv
    <2>3. v \in Stored =>
              \/ users'[v].password = users[v].password
              \/ users'[v].password = req[r].row.password
      BY <2>1, <2>2 DEF Merged, Column, IInv, TypeOK
    <2>4. v \in Stored => \/ req[r].row.password = users[v].password
                          \/ req[r].by \in Choosing
      BY <2>2 DEF SnapshotFresh
    <2>5. \A u \in Stored : u # v => users'[u] = users[u]
      BY <2>1, <2>2 DEF Stored, IInv, TypeOK
    <2>6. QED
      BY <1>5, <2>3, <2>4, <2>5 DEF PasswordsKept
  <1>6. ASSUME NEW r \in Request, Insert(r)
        PROVE  PasswordsKept
    BY <1>6 DEF Insert, PasswordsKept, Stored, IInv, TypeOK
  <1>7. QED
    BY <1>1, <1>2, <1>3, <1>4, <1>5, <1>6, RowsChange

\* A password is replaced only by the next one that is chosen, as long as no two
\* requests hold the same user: no save puts back the one it has read.
THEOREM NewPasswordsHold == Spec /\ []SaversApart => NewPasswordHolds
  <1> DEFINE A == \A u \in Stored :
                      u \in Stored' /\ users'[u].password # users[u].password =>
                          \E r \in Request :
                              /\ Update(r) \/ Insert(r)
                              /\ req[r].user = u
                              /\ req[r].by \in {"reset", "password", "external"}
  <1>1. IInv /\ ApartInv /\ [Next]_vars => [A]_vars
    BY StepPassword DEF PasswordsKept, Choosing
  <1>2. QED
    BY <1>1, Invariance, ApartInvariance, PTL DEF Spec, NewPasswordHolds

-----------------------------------------------------------------------------
(***************************************************************************)
(* One sweep at a time.                                                    *)
(***************************************************************************)

\* Only the job itself moves the lock, the sweeps and their lists.
LEMMA RequestsLeaveSweeps ==
    ASSUME [Next]_vars
    PROVE  UNCHANGED sweepVars \/ \E i \in Instance : SweepStep(i)
  <1>1. Registration => UNCHANGED sweepVars
    BY DEF Registration, Create, RegisterActive, RegisterInactive, MarkPending, IssueMail,
           sweepVars
  <1>2. MailStep => UNCHANGED sweepVars
    BY DEF MailStep, ResetRequest, VerifyRead, ResetRead, MailRead,
           VerifySave, ResetSave, Save, Compare, sweepVars
  <1>3. ASSUME NEW r \in Request, LoginStep(r) PROVE UNCHANGED sweepVars
    BY <1>3 DEF LoginStep, LoginRead, LoginSuccess, LoginFailure, ExternalLogin,
                JitProvision, Save, Compare, sweepVars
  <1>4. ASSUME NEW r \in Request, UserStep(r) PROVE UNCHANGED sweepVars
    BY <1>4 DEF UserStep, FindUser, Activate, Hold, Lock, Unlock, UpdateProfile, Deactivate,
                DeleteUser, UpdateStatus, ChangePassword, Operate, Save, Compare,
                sweepVars
  <1>5. ASSUME NEW r \in Request, Update(r) \/ Insert(r) \/ Abort(r)
        PROVE  UNCHANGED sweepVars
    BY <1>5 DEF Update, Insert, Committed, Abort, sweepVars
  <1>6. Tick \/ UNCHANGED vars => UNCHANGED sweepVars
    BY DEF Tick, vars, sweepVars
  <1>7. QED
    BY <1>1, <1>2, <1>3, <1>4, <1>5, <1>6 DEF Next

\* A sweep starts while nobody holds the lock and frees it in the end, and its
\* list is empty by then.
LEMMA OneSweepStep ==
    ASSUME TypeOK, OneSweep, [Next]_vars
    PROVE  OneSweep'
  <1>1. /\ sweeping \subseteq Instance /\ Null \notin Instance
        /\ targets \in [Instance -> SUBSET User]
    BY MarkerAssumption DEF TypeOK
  <1>2. CASE UNCHANGED sweepVars
    BY <1>2 DEF sweepVars, OneSweep
  <1>3. ASSUME NEW i \in Instance, SweepStart(i) PROVE OneSweep'
    <2>1. sweeping = {} /\ sweeping' = {i} /\ sweepLock' = i
      BY <1>1, <1>3 DEF SweepStart, OneSweep
    <2>2. \A j \in Instance \ {i} : targets'[j] = {}
      BY <1>1, <1>3, <2>1 DEF SweepStart, OneSweep
    <2>3. QED
      BY <2>1, <2>2 DEF OneSweep
  <1>4. ASSUME NEW i \in Instance, NEW u \in User, SweepDelete(i, u) \/ SweepSkip(i, u)
        PROVE  OneSweep'
    <2>1. /\ targets' = [targets EXCEPT ![i] = @ \ {u}]
          /\ UNCHANGED <<sweepLock, sweeping>>
      BY <1>4 DEF SweepDelete, SweepSkip, Drop
    <2>2. \A j \in Instance : targets'[j] \subseteq targets[j]
      BY <1>1, <2>1
    <2>3. QED
      BY <2>1, <2>2 DEF OneSweep
  <1>5. ASSUME NEW i \in Instance, SweepEnd(i) \/ SweepCrash(i)
        PROVE  OneSweep'
    <2>1. /\ i \in sweeping /\ sweepLock' = Null /\ sweeping' = sweeping \ {i}
          /\ \/ targets' = targets /\ targets[i] = {}
             \/ targets' = [targets EXCEPT ![i] = {}]
      BY <1>5 DEF SweepEnd, SweepCrash
    <2>2. sweeping = {i}
      BY <2>1 DEF OneSweep
    <2>3. \A j \in Instance : targets'[j] = {}
      BY <1>1, <2>1, <2>2 DEF OneSweep
    <2>4. QED
      BY <1>1, <2>1, <2>2, <2>3 DEF OneSweep
  <1>6. QED
    BY <1>2, <1>3, <1>4, <1>5, RequestsLeaveSweeps DEF SweepStep

\* No two instances delete at the same time, however they start, end and crash,
\* and what one has selected is not left behind
\* (account-deletion-sweep.service.ts:40-42).
THEOREM SweepsAreAlone == Spec => []OneSweep
  <1>1. Init => OneSweep
    BY MarkerAssumption DEF Init, OneSweep
  <1>2. TypeOK /\ OneSweep /\ [Next]_vars => OneSweep'
    BY OneSweepStep
  <1>3. QED
    BY <1>1, <1>2, TypeCorrect, PTL DEF Spec
=============================================================================
