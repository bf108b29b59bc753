-------------------------- MODULE BackgroundProofs --------------------------
(***************************************************************************)
(* What goes on behind the requests: the permanent deletion of a tenant,    *)
(* and the daily announcement of the users who wait.                       *)
(*                                                                         *)
(* The invariant of the deletion counts the statements that have run: the  *)
(* tables before the current one are swept and only an insertion can fill   *)
(* them again, so a foreign key stands in the way only of a deletion that  *)
(* was disturbed.                                                          *)
(***************************************************************************)
EXTENDS TenantDeletion, Digest, FiniteSetTheorems, SequenceTheorems, TLAPS

Swept(n) == {Statement(m) : m \in 1 .. n - 1}

DeletionIInv ==
    /\ rows \subseteq Table /\ rows \cap Bound \in {Bound, {}}
    /\ swept \subseteq Bound
    /\ progress \in 0 .. LastStatement + 1
    /\ rows \cap Bound = {} => kept /\ progress = 0
    /\ progress = 0 => swept = {}
    /\ \A x \in Visible : Refers[x] \subseteq Visible
    /\ progress = LastStatement + 1 => "tenants" \in swept
    /\ ~disturbed => ~failed /\ swept = Swept(progress)

\* The tables, and whom they refer to.
LEMMA TableFacts ==
    /\ Table = {"authorization_codes", "access_tokens", "refresh_tokens", "consents",
                "oauth_client_redirect_uris", "oauth_clients", "user_profiles", "users",
                "profile_schema_versions", "external_auth_providers", "signing_keys",
                "audit_logs", "tenant_settings", "tenants"} \cup Loose
    /\ \A x \in Table : Refers[x] \subseteq Bound
    /\ \A n \in 1 .. LastStatement : Statement(n) \in Bound
    /\ {"audit_logs", "tenants"} \subseteq Bound
    /\ Statement(LastStatement) = "tenants"
<1>1. Table = {"authorization_codes", "access_tokens", "refresh_tokens", "consents",
               "oauth_client_redirect_uris", "oauth_clients", "user_profiles", "users",
               "profile_schema_versions", "external_auth_providers", "signing_keys",
               "audit_logs", "tenant_settings", "tenants"} \cup Loose
  BY DEF Table, Refers, Loose
<1>2. {"audit_logs", "tenants"} \subseteq Bound
  BY <1>1 DEF Bound, Loose
<1>3. \A x \in Table : Refers[x] \subseteq Bound
  BY <1>1 DEF Refers, Bound, Loose
<1>4. ASSUME NEW n \in 1 .. LastStatement PROVE Statement(n) \in Bound
  BY <1>1, <1>4 DEF Statement, LastStatement, Bound, Loose
<1>5. Statement(LastStatement) = "tenants"
  BY DEF Statement, LastStatement
<1> QED BY <1>1, <1>2, <1>3, <1>4, <1>5

\* Whoever refers to something is deleted before it.
LEMMA OrderRespectsKeys ==
    ASSUME NEW n \in 1 .. LastStatement, NEW x \in Table, Statement(n) \in Refers[x]
    PROVE  x \in Swept(n)
<1>1. \E m \in 1 .. n - 1 : x = Statement(m)
  BY DEF Table, Refers, Statement, LastStatement
<1> QED BY <1>1 DEF Swept

\* Everything refers to the tenant in the end.
LEMMA NothingVisible ==
    ASSUME rows \subseteq Table, \A x \in Visible : Refers[x] \subseteq Visible,
           "tenants" \notin Visible
    PROVE  Visible \subseteq Loose
<1> DEFINE First == {"users", "oauth_clients", "profile_schema_versions",
                     "external_auth_providers", "signing_keys", "audit_logs",
                     "tenant_settings"}
<1>1. Visible \subseteq Table
  BY DEF Visible
<1>2. ASSUME NEW x \in First PROVE Refers[x] = {"tenants"}
  BY DEF Refers
<1>3. First \cap Visible = {}
  BY <1>2
<1>4. \A x \in Bound \ (First \cup {"tenants"}) : Refers[x] \cap First # {}
  BY TableFacts DEF Refers, Bound, Loose
<1>5. ASSUME NEW x \in Visible, x \notin Loose PROVE x = "tenants"
  <2>1. x \in Bound /\ x \notin First /\ Refers[x] \subseteq Visible
    BY <1>1, <1>3, <1>5 DEF Bound
  <2> HIDE DEF First
  <2> QED BY <1>3, <1>4, <2>1
<1> QED BY <1>5

\* Every statement, insertion, crash and rollback keeps it.
LEMMA DeletionStep == DeletionIInv /\ [DeletionNext]_deletionVars => DeletionIInv'
<1> SUFFICES ASSUME DeletionIInv, [DeletionNext]_deletionVars
             PROVE  DeletionIInv'
  OBVIOUS
<1> USE DEF LastStatement
<1>1. CASE BeginDeletion
  <2>1. Swept(1) = {}
    BY DEF Swept
  <2>2. rows \cap Bound # {}
    BY <1>1, TableFacts DEF BeginDeletion
  <2>3. Visible' = Visible
    BY <1>1 DEF BeginDeletion, DeletionIInv, Visible
  <2> QED BY <1>1, <2>1, <2>2, <2>3 DEF BeginDeletion, DeletionIInv
<1>2. CASE ExecuteStatement
  <2> DEFINE s == Statement(progress)
  <2>1. /\ progress \in 1 .. 14 /\ progress' = progress + 1 /\ swept' = swept \cup {s}
        /\ UNCHANGED <<rows, kept, disturbed, failed>> /\ ~Referred(s)
    BY <1>2 DEF ExecuteStatement
  <2>2. Swept(progress + 1) = Swept(progress) \cup {s}
    BY <2>1 DEF Swept
  <2>3. s \in Bound /\ (progress = 14 => s = "tenants")
    BY <2>1, TableFacts
  <2> HIDE DEF s
  <2>4. ASSUME NEW x \in Visible' PROVE Refers[x] \subseteq Visible'
    <3>1. Visible' = Visible \ {s} /\ s \notin Refers[x]
      BY <2>1 DEF Visible, Referred
    <3> QED BY <3>1 DEF DeletionIInv
  <2> QED BY <2>1, <2>2, <2>3, <2>4 DEF DeletionIInv
<1>3. CASE RefuseStatement
  <2>1. PICK x \in Visible : Statement(progress) \in Refers[x]
    BY <1>3 DEF RefuseStatement, Referred
  <2>2. progress \in 1 .. 14 /\ x \in Table /\ x \notin swept
    BY <1>3 DEF RefuseStatement, Visible, DeletionIInv
  <2>3. x \in Swept(progress)
    BY <2>1, <2>2, OrderRespectsKeys
  <2>4. disturbed
    BY <2>2, <2>3 DEF DeletionIInv
  <2> QED BY <1>3, <2>4, TableFacts DEF RefuseStatement, DeletionIInv, Visible
<1>4. CASE CommitDeletion
  <2>1. Visible \subseteq Loose
    BY <1>4, NothingVisible DEF CommitDeletion, DeletionIInv, Visible
  <2>2. rows \cap Bound = Bound /\ "audit_logs" \in Bound
    BY <1>4, TableFacts DEF CommitDeletion, DeletionIInv
  <2>3. /\ rows' = Visible /\ rows' \subseteq Table
        /\ rows' \cap Bound = {} /\ "audit_logs" \in swept
    BY <1>4, <2>1, <2>2 DEF CommitDeletion, Visible, Bound, DeletionIInv
  <2>4. Swept(0) = {}
    BY DEF Swept
  <2>5. kept'
    BY <1>4, <2>3 DEF CommitDeletion, AuditDetached
  <2>6. ~disturbed' => ~failed'
    BY <1>4 DEF CommitDeletion, DeletionIInv
  <2>7. progress' = 0 /\ swept' = {}
    BY <1>4 DEF CommitDeletion
  <2>8. \A x \in Visible' : Refers[x] \subseteq Visible'
    BY <2>3, <2>7 DEF Visible, DeletionIInv
  <2> QED
    BY <2>3, <2>4, <2>5, <2>6, <2>7, <2>8 DEF DeletionIInv
<1>5. CASE LoseConnection
  <2>1. Swept(0) = {}
    BY DEF Swept
  <2> QED BY <1>5, <2>1, TableFacts DEF LoseConnection, DeletionIInv, Visible
<1>6. ASSUME NEW t \in Table \ {"tenants"}, InsertRow(t)
      PROVE  DeletionIInv'
  <2>1. rows' \subseteq Table /\ rows' \cap Bound = rows \cap Bound
    <3>1. CASE t \in Loose
      BY <1>6, <3>1 DEF InsertRow, Bound, DeletionIInv
    <3>2. CASE t \in Bound
      <4>1. Refers[t] # {} /\ Refers[t] \subseteq Bound
        BY <3>2, TableFacts DEF Refers, Bound
      <4>2. rows \cap Bound = Bound
        BY <1>6, <4>1 DEF InsertRow, Visible, DeletionIInv
      <4> QED BY <1>6, <3>2, <4>2 DEF InsertRow, DeletionIInv
    <3> QED BY <3>1, <3>2 DEF Bound
  <2>2. Visible' = Visible \cup {t}
    BY <1>6, <2>1 DEF InsertRow, Visible
  <2>3. ~disturbed' => swept' = swept /\ ~disturbed
    BY <1>6 DEF InsertRow
  <2>4. UNCHANGED <<progress, kept, failed>> /\ swept' = swept \ {t} /\ Refers[t] \subseteq Visible
    BY <1>6 DEF InsertRow
  <2> QED BY <2>1, <2>2, <2>3, <2>4 DEF DeletionIInv
<1>7. CASE CleanUpPending
  <2>1. /\ rows' = rows \ {"pending_oauth_requests"}
        /\ UNCHANGED <<progress, swept, kept, disturbed, failed>>
    BY <1>7 DEF CleanUpPending
  <2>2. "pending_oauth_requests" \notin Bound
    BY DEF Bound, Loose
  <2>3. \A x \in Visible' : Refers[x] \subseteq Visible'
    <3>1. \A x \in Visible : Refers[x] \subseteq Bound
      BY TableFacts DEF Visible, DeletionIInv
    <3> QED BY <2>1, <2>2, <3>1 DEF Visible, DeletionIInv
  <2>4. rows' \cap Bound = rows \cap Bound /\ rows' \subseteq Table
    BY <2>1, <2>2 DEF DeletionIInv
  <2> QED BY <2>1, <2>3, <2>4 DEF DeletionIInv
<1>8. CASE UNCHANGED deletionVars
  BY <1>8 DEF DeletionIInv, Visible, deletionVars
<1> QED BY <1>1, <1>2, <1>3, <1>4, <1>5, <1>6, <1>7, <1>8 DEF DeletionNext

\* It holds before the first statement.
LEMMA DeletionInitial == DeletionInit => DeletionIInv
<1>1. Swept(0) = {}
  BY DEF Swept
<1>2. Bound \subseteq Table
  BY DEF Bound
<1> SUFFICES ASSUME DeletionInit PROVE DeletionIInv
  OBVIOUS
<1>3. rows = Table /\ rows \cap Bound = Bound /\ rows \cap Bound # {}
  BY <1>2, TableFacts DEF DeletionInit
<1>4. Visible = Table /\ \A x \in Visible : Refers[x] \subseteq Visible
  BY <1>2, <1>3, TableFacts DEF DeletionInit, Visible
<1> QED
  BY <1>1, <1>3, <1>4 DEF DeletionInit, DeletionIInv, LastStatement

\* The order of the statements respects every foreign key: one is refused only
\* when somebody has inserted behind it (tenants.service.ts:183-251).
THEOREM OrderIsRight == DeletionSpec => []RefusedOnlyIfDisturbed
<1>1. DeletionIInv => RefusedOnlyIfDisturbed
  BY DEF DeletionIInv, RefusedOnlyIfDisturbed
<1> QED BY <1>1, DeletionInitial, DeletionStep, PTL DEF DeletionSpec

\* A tenant that is gone has left nothing that refers to it by a foreign key, and
\* the audit records have survived it, wherever a transaction broke off; only the
\* three tables without a key may still name it (tenants.service.ts:183-251).
THEOREM AllButLoose == DeletionSpec => []GoneButLoose
<1>1. DeletionIInv => GoneButLoose
  BY TableFacts DEF DeletionIInv, GoneButLoose, Bound
<1> QED BY <1>1, DeletionInitial, DeletionStep, PTL DEF DeletionSpec

-----------------------------------------------------------------------------
(***************************************************************************)
(* The announcements.                                                      *)
(***************************************************************************)

\* An order of a set lists all of it.
LEMMA OrderIsComplete ==
    ASSUME NEW T, IsFiniteSet(T), NEW order \in SetToSeqs(T)
    PROVE  /\ order \in Seq(T) /\ Range(order) = T
           /\ Len(order) = Cardinality(T)
<1> DEFINE D == 1 .. Cardinality(T)
<1>1. Cardinality(T) \in Nat
  BY FS_CardinalityType
<1>2. order \in [D -> T] /\ \A i, j \in D : i # j => order[i] # order[j]
  BY DEF SetToSeqs
<1>3. order \in Seq(T) /\ Len(order) = Cardinality(T)
  BY <1>1, <1>2
<1>4. order \in Injection(D, T)
  BY <1>2 DEF Injection, IsInjective
<1>5. Cardinality(D) = Cardinality(T)
  BY <1>1, FS_Interval
<1>6. order \in Surjection(D, T)
  BY <1>4, <1>5, FS_Injection
<1>7. Range(order) = T
  BY <1>2, <1>6 DEF Surjection, Range
<1> QED BY <1>3, <1>7

\* A sequence is a function on its positions.
LEMMA SequenceIsFunction ==
    ASSUME NEW T, NEW s \in Seq(T) PROVE s \in [1 .. Len(s) -> T]
OBVIOUS

\* What is left of an order is an order of the rest.
LEMMA RestIsOrder ==
    ASSUME NEW T, IsFiniteSet(T), NEW order \in SetToSeqs(T), order # << >>
    PROVE  /\ Tail(order) \in SetToSeqs(T \ {Head(order)})
           /\ Range(Tail(order)) = Range(order) \ {Head(order)}
           /\ Head(order) \in T
<1> DEFINE h == Head(order)  D == 1 .. Cardinality(T)
<1>1. /\ order \in Seq(T) /\ Range(order) = T /\ Len(order) = Cardinality(T)
      /\ Len(order) \in Nat /\ Len(order) # 0
  BY OrderIsComplete
<1>2. order \in [D -> T] /\ \A i, j \in D : i # j => order[i] # order[j]
  BY DEF SetToSeqs
<1>3. h = order[1] /\ h \in T
  BY <1>1
<1>4. IsFiniteSet(T \ {h}) /\ Cardinality(T \ {h}) = Cardinality(T) - 1
  BY <1>3, FS_RemoveElement
<1>5. /\ Tail(order) \in [1 .. Cardinality(T) - 1 -> T]
      /\ \A i \in 1 .. Cardinality(T) - 1 : Tail(order)[i] = order[i + 1]
  <2> HIDE DEF h, D
  <2>1. /\ Tail(order) \in Seq(T) /\ Len(Tail(order)) = Len(order) - 1
        /\ \A i \in 1 .. Len(Tail(order)) : Tail(order)[i] = order[i + 1]
    <3>1. order \in Seq(T) /\ order # << >>
      BY <1>1
    <3> QED BY ONLY <3>1, HeadTailProperties, Zenon
  <2>2. /\ Tail(order) \in Seq(T) /\ Len(Tail(order)) = Cardinality(T) - 1
        /\ \A i \in 1 .. Cardinality(T) - 1 : Tail(order)[i] = order[i + 1]
    BY <1>1, <2>1
  <2>3. Tail(order) \in [1 .. Len(Tail(order)) -> T]
    BY ONLY <2>2, SequenceIsFunction, Zenon
  <2> QED BY <2>2, <2>3
<1>6. \A i \in 1 .. Cardinality(T) - 1 : Tail(order)[i] \in T \ {h}
  BY <1>1, <1>2, <1>3, <1>5
<1>7. \A i, j \in 1 .. Cardinality(T) - 1 : i # j => Tail(order)[i] # Tail(order)[j]
  BY <1>1, <1>2, <1>5
<1>8. Tail(order) \in SetToSeqs(T \ {h})
  BY <1>4, <1>5, <1>6, <1>7 DEF SetToSeqs
<1>9. Range(Tail(order)) = T \ {h}
  BY <1>4, <1>8, OrderIsComplete
<1> QED BY <1>1, <1>3, <1>8, <1>9

\* Nobody is in an empty list.
LEMMA EmptyRange == Range(<< >>) = {}
BY DEF Range

\* An instance at rest, one that has the lock, and one that sends.
LEMMA RunStates ==
    /\ Resting \in RunState /\ Resting.op = "idle" /\ Resting.left = << >>
    /\ \A w \in RunState : /\ w.op \in {"idle", "locked", "sending"}
                           /\ w = [op |-> w.op, left |-> w.left]
                           /\ w.op # "sending" => w.left = << >>
                           /\ w.op = "sending" => \E T \in SUBSET Room : w.left \in SetToSeqs(T)
    /\ \A T \in SUBSET Room : \A order \in SetToSeqs(T) :
           [op |-> "sending", left |-> order] \in RunState
BY DEF RunState, Resting

\* The lock is with the instance that selects.
LockHeld ==
    /\ lockHolder = {i \in Server : runs[i].op = "locked"}
    /\ OneSelects

DigestIInv == DigestTypeOK /\ LockHeld

\* A call ends and the run goes on with the rest.
LEMMA RunGoesOn ==
    ASSUME DigestTypeOK, NEW i \in Server, NEW t, NEW delivered,
           NotifyDigest(i, t, delivered)
    PROVE  /\ runs[i].op = "sending" /\ t \in Room
           /\ \E w \in RunState : /\ runs' = [runs EXCEPT ![i] = w] /\ w.op = "sending"
                                  /\ Range(w.left) = ToBeTold(i) \ {t}
<1>1. /\ runs[i].op = "sending" /\ runs[i].left # << >> /\ t = Head(runs[i].left)
      /\ runs' = [runs EXCEPT ![i].left = Tail(runs[i].left)]
      /\ runs[i] \in RunState
  BY DEF NotifyDigest, GoOn, DigestTypeOK
<1>2. PICK T \in SUBSET Room : runs[i].left \in SetToSeqs(T)
  BY <1>1, RunStates
<1>3. IsFiniteSet(T)
  BY DigestAssumption, FS_Subset
<1>4. /\ Tail(runs[i].left) \in SetToSeqs(T \ {t})
      /\ Range(Tail(runs[i].left)) = Range(runs[i].left) \ {t}
      /\ t \in T
  BY <1>1, <1>2, <1>3, RestIsOrder
<1> DEFINE rest == Tail(runs[i].left)
           w == [op |-> "sending", left |-> rest]
<1>5. [runs[i] EXCEPT !.left = rest] = w
  <2>1. runs[i] = [op |-> "sending", left |-> runs[i].left]
    BY <1>1, RunStates
  <2> HIDE DEF rest
  <2> QED BY <2>1
<1>6. w \in RunState
  <2>1. T \ {t} \in SUBSET Room /\ rest \in SetToSeqs(T \ {t})
    BY <1>2, <1>4
  <2> HIDE DEF rest
  <2> QED BY <2>1, RunStates
<1>7. runs' = [runs EXCEPT ![i] = w]
  BY <1>1, <1>5
<1>8. w.op = "sending" /\ Range(w.left) = ToBeTold(i) \ {t}
  BY <1>4, <1>5 DEF ToBeTold
<1> HIDE DEF w
<1> QED BY <1>1, <1>2, <1>4, <1>6, <1>7, <1>8

\* Every step of the run keeps the invariant.
LEMMA DigestStep == DigestIInv /\ [DigestNext]_digestVars => DigestIInv'
<1> SUFFICES ASSUME DigestIInv, [DigestNext]_digestVars
             PROVE  DigestIInv'
  OBVIOUS
<1>1. DigestTypeOK /\ LockHeld
  BY DEF DigestIInv
<1>2. /\ runs \in [Server -> RunState] /\ lockHolder \subseteq Server
      /\ WithPending \subseteq Room
  BY <1>1 DEF DigestTypeOK, WithPending
<1>3. ASSUME NEW t \in Room,
             Register(t) \/ Decide(t) \/ PutOff(t) \/ TakeUp(t) \/ SwitchNotification(t)
                 \/ \E delivered \in BOOLEAN : Instant(t, delivered)
      PROVE  DigestIInv'
  <2>1. UNCHANGED <<runs, lockHolder, outages>>
    BY <1>3 DEF Register, Decide, PutOff, TakeUp, SwitchNotification, Instant
  <2>2. applicant' \in [Room -> {"none", "waiting", "held"}]
    BY <1>1, <1>3 DEF DigestTypeOK, Register, Decide, PutOff, TakeUp, SwitchNotification, Instant
  <2>3. enabled' \subseteq Room /\ instant' \subseteq Room /\ announced' \subseteq Room
    BY <1>1, <1>3 DEF DigestTypeOK, Register, Decide, PutOff, TakeUp, SwitchNotification, Instant
  <2> QED BY <1>1, <2>1, <2>2, <2>3 DEF DigestIInv, DigestTypeOK, LockHeld, OneSelects
<1>4. ASSUME NEW i \in Server, NEW t \in Room, NEW delivered \in BOOLEAN,
             NotifyDigest(i, t, delivered)
      PROVE  DigestIInv'
  <2>1. /\ announced' \subseteq Room
        /\ UNCHANGED <<applicant, enabled, lockHolder, instant, outages>>
    BY <1>1, <1>4 DEF NotifyDigest, DigestTypeOK
  <2>2. PICK w \in RunState : runs' = [runs EXCEPT ![i] = w] /\ w.op = "sending"
    BY <1>1, <1>4, RunGoesOn
  <2>3. runs[i].op = "sending"
    BY <1>4 DEF NotifyDigest
  <2>4. runs' \in [Server -> RunState]
    BY <1>2, <2>2
  <2>5. \A j \in Server : runs'[j].op = "locked" <=> runs[j].op = "locked"
    BY <1>2, <2>2, <2>3
  <2> QED BY <1>1, <2>1, <2>4, <2>5 DEF DigestIInv, DigestTypeOK, LockHeld, OneSelects
<1>5. ASSUME NEW i \in Server, TryLock(i)
      PROVE  DigestIInv'
  <2>1. UNCHANGED <<applicant, enabled, instant, outages, announced>> /\ runs[i].op = "idle"
    BY <1>5 DEF TryLock
  <2>2. CASE lockHolder # {}
    BY <1>1, <1>5, <2>1, <2>2 DEF TryLock, DigestIInv, DigestTypeOK, LockHeld, OneSelects
  <2>3. CASE lockHolder = {}
    <3>1. lockHolder' = {i} /\ runs' = [runs EXCEPT ![i].op = "locked"]
      BY <1>5, <2>3 DEF TryLock
    <3> DEFINE w == [runs[i] EXCEPT !.op = "locked"]
    <3>2. w \in RunState /\ w.op = "locked"
      BY <1>2, <2>1, RunStates DEF RunState
    <3>3. runs' = [runs EXCEPT ![i] = w]
      BY <3>1
    <3> HIDE DEF w
    <3>4. \A j \in Server : runs[j].op # "locked"
      BY <1>1, <2>3 DEF LockHeld
    <3>5. \A j \in Server : runs'[j].op = "locked" <=> j = i
      BY <1>2, <3>2, <3>3, <3>4
    <3>6. runs' \in [Server -> RunState]
      BY <1>2, <3>2, <3>3
    <3> QED BY <1>1, <2>1, <3>1, <3>5, <3>6 DEF DigestIInv, DigestTypeOK, LockHeld, OneSelects
  <2> QED BY <2>2, <2>3
<1>6. ASSUME NEW i \in Server, NEW w \in RunState, w.op # "locked",
             runs' = [runs EXCEPT ![i] = w], lockHolder' = lockHolder \ {i}
      PROVE  runs' \in [Server -> RunState] /\ LockHeld'
  <2>1. runs' \in [Server -> RunState]
    BY <1>2, <1>6
  <2>2. \A j \in Server : runs'[j].op = "locked" <=> j # i /\ runs[j].op = "locked"
    BY <1>2, <1>6
  <2> QED BY <1>1, <1>6, <2>1, <2>2 DEF LockHeld, OneSelects
<1>7. ASSUME NEW i \in Server, SelectTenants(i)
      PROVE  DigestIInv'
  <2>1. /\ runs[i].op = "locked" /\ lockHolder' = {}
        /\ UNCHANGED <<applicant, enabled, instant, outages, announced>>
    BY <1>7 DEF SelectTenants
  <2>2. PICK order \in SetToSeqs(WithPending) :
            runs' = [runs EXCEPT ![i] = [op |-> "sending", left |-> order]]
    BY <1>7 DEF SelectTenants
  <2>3. lockHolder' = lockHolder \ {i}
    BY <1>1, <1>2, <2>1 DEF LockHeld, OneSelects
  <2>4. [op |-> "sending", left |-> order] \in RunState
    BY <1>2, <2>2, RunStates
  <2>5. runs' \in [Server -> RunState] /\ LockHeld'
    BY <1>6, <2>2, <2>3, <2>4
  <2> QED BY <1>1, <2>1, <2>5 DEF DigestIInv, DigestTypeOK
<1>8. ASSUME NEW i \in Server, EndRun(i) \/ Outage(i)
      PROVE  DigestIInv'
  <2>1. /\ runs' = [runs EXCEPT ![i] = Resting] /\ instant' \subseteq Room
        /\ UNCHANGED <<applicant, enabled, announced>> /\ outages' \in 0 .. MaxOutages
    BY <1>1, <1>8, DigestAssumption DEF EndRun, Outage, DigestTypeOK
  <2>2. lockHolder' = lockHolder \ {i}
    BY <1>1, <1>8 DEF EndRun, Outage, LockHeld
  <2>3. runs' \in [Server -> RunState] /\ LockHeld'
    BY <1>6, <2>1, <2>2, RunStates
  <2> QED BY <1>1, <2>1, <2>2, <2>3 DEF DigestIInv, DigestTypeOK
<1>9. CASE UNCHANGED digestVars
  BY <1>1, <1>9 DEF digestVars, DigestIInv, DigestTypeOK, LockHeld, OneSelects
<1> QED BY <1>3, <1>4, <1>5, <1>7, <1>8, <1>9 DEF DigestNext

\* It holds before the first day.
LEMMA DigestInitial == DigestInit => DigestIInv
BY DigestAssumption, RunStates DEF DigestInit, DigestIInv, DigestTypeOK, LockHeld, OneSelects

\* Every variable keeps its type, and a run has tenants to announce in some order.
THEOREM DigestTypeCorrect == DigestSpec => []DigestTypeOK
<1>1. DigestIInv => DigestTypeOK
  BY DEF DigestIInv
<1> QED BY <1>1, DigestInitial, DigestStep, PTL DEF DigestSpec

\* One instance at most selects the tenants, whoever crashes with the lock
\* (pending-approval-digest.service.ts:29-41).
THEOREM OneInstanceSelects == DigestSpec => []OneSelects
<1>1. DigestIInv => OneSelects
  BY DEF DigestIInv, LockHeld
<1> QED BY <1>1, DigestInitial, DigestStep, PTL DEF DigestSpec

\* A run starts with every tenant it should tell, and loses one only by a call
\* for it or with the instance (pending-approval-digest.service.ts:44-47).
THEOREM NobodyIsPassedOver == DigestSpec => RunMissesNobody
<1> DEFINE Missed(i) ==
        /\ runs[i].op = "locked" /\ runs'[i].op = "sending" => ToBeTold(i)' = WithPending
        /\ \A t \in ToBeTold(i) \ ToBeTold(i)' :
              Outage(i) \/ \E delivered \in BOOLEAN : NotifyDigest(i, t, delivered)
<1>1. ASSUME DigestIInv, [DigestNext]_digestVars, NEW i \in Server
      PROVE  Missed(i)
  <2>1. DigestTypeOK /\ runs \in [Server -> RunState]
    BY <1>1 DEF DigestIInv, DigestTypeOK
  <2>2. CASE runs'[i] = runs[i]
    BY <2>2 DEF ToBeTold
  <2>3. ASSUME NEW j \in Server, NEW t \in Room, NEW delivered \in BOOLEAN,
               NotifyDigest(j, t, delivered), runs'[i] # runs[i]
        PROVE  Missed(i)
    <3>1. PICK w \in RunState :
              /\ runs' = [runs EXCEPT ![j] = w] /\ Range(w.left) = ToBeTold(j) \ {t}
      BY <2>1, <2>3, RunGoesOn
    <3>2. i = j /\ runs'[i] = w /\ runs[i].op = "sending"
      BY <2>1, <2>3, <3>1, RunGoesOn
    <3>3. ToBeTold(i)' = ToBeTold(i) \ {t}
      BY <3>1, <3>2 DEF ToBeTold
    <3> QED BY <2>3, <3>2, <3>3
  <2>4. ASSUME NEW j \in Server, TryLock(j), runs'[i] # runs[i]
        PROVE  Missed(i)
    <3>1. i = j /\ runs[i].op = "idle" /\ runs'[i] = [runs[i] EXCEPT !.op = "locked"]
      BY <2>1, <2>4 DEF TryLock
    <3>2. runs'[i].left = runs[i].left
      BY <2>1, <3>1 DEF RunState
    <3> QED BY <3>1, <3>2 DEF ToBeTold
  <2>5. ASSUME NEW j \in Server, SelectTenants(j), runs'[i] # runs[i]
        PROVE  Missed(i)
    <3>1. PICK order \in SetToSeqs(WithPending) :
              runs' = [runs EXCEPT ![j] = [op |-> "sending", left |-> order]]
      BY <2>5 DEF SelectTenants
    <3>2. i = j /\ runs[i].op = "locked" /\ runs'[i].left = order
      BY <2>1, <2>5, <3>1 DEF SelectTenants
    <3>3. IsFiniteSet(WithPending)
      BY <2>1, DigestAssumption, FS_Subset DEF WithPending, DigestTypeOK
    <3>4. ToBeTold(i)' = WithPending
      BY <3>2, <3>3, OrderIsComplete DEF ToBeTold
    <3>5. ToBeTold(i) = {}
      BY <2>1, <3>2, RunStates, EmptyRange DEF ToBeTold
    <3> QED BY <3>4, <3>5
  <2>6. ASSUME NEW j \in Server, EndRun(j) \/ Outage(j), runs'[i] # runs[i]
        PROVE  Missed(i)
    <3>1. i = j /\ runs'[i] = Resting
      BY <2>1, <2>6 DEF EndRun, Outage
    <3>2. CASE Outage(i)
      BY <3>1, <3>2, RunStates
    <3>3. CASE EndRun(i)
      <4>1. ToBeTold(i) = {} /\ runs'[i].op # "sending"
        BY <3>1, <3>3, RunStates, EmptyRange DEF EndRun, ToBeTold
      <4> QED BY <4>1
    <3> QED BY <2>6, <3>1, <3>2, <3>3
  <2>7. ASSUME runs' = runs PROVE Missed(i)
    BY <2>2, <2>7
  <2>8. ASSUME NEW t \in Room,
               Register(t) \/ Decide(t) \/ PutOff(t) \/ TakeUp(t) \/ SwitchNotification(t)
                   \/ \E delivered \in BOOLEAN : Instant(t, delivered)
        PROVE  Missed(i)
    BY <2>7, <2>8 DEF Register, Decide, PutOff, TakeUp, SwitchNotification, Instant
  <2>9. CASE UNCHANGED digestVars
    BY <2>7, <2>9 DEF digestVars
  <2> HIDE DEF Missed
  <2> QED BY <1>1, <2>2, <2>3, <2>4, <2>5, <2>6, <2>8, <2>9 DEF DigestNext
<1>2. DigestIInv /\ [DigestNext]_digestVars => \A i \in Server : Missed(i)
  BY <1>1
<1>3. (\A i \in Server : Missed(i)) =>
          [\A i \in Server :
              /\ runs[i].op = "locked" /\ runs'[i].op = "sending" => ToBeTold(i)' = WithPending
              /\ \A t \in ToBeTold(i) \ ToBeTold(i)' :
                    Outage(i) \/ \E delivered \in BOOLEAN :
                                     NotifyDigest(i, t, delivered)]_digestVars
  OBVIOUS
<1> HIDE DEF Missed
<1> QED BY <1>2, <1>3, DigestInitial, DigestStep, PTL DEF DigestSpec, RunMissesNobody
=============================================================================
