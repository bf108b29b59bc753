---------------------------- MODULE LoginProofs -----------------------------
(***************************************************************************)
(* The login, from the pending request to the code.                        *)
(*                                                                         *)
(* An attempt holds what it has established so far: the password, the      *)
(* consent, the roles.  It loses them only to another attempt of the same  *)
(* user or on the same pending request, and then either the two have met,  *)
(* which the history remembers, or it is alone.                            *)
(***************************************************************************)
EXTENDS Login, SequenceTheorems, TLAPS

AttemptOps == {"calling", "accepted", "rejected", "failed", "provisioned",
               "verified", "consenting"}

\* What is known of a local state by its operation.
LEMMA StateFacts ==
    ASSUME NEW w \in ReqState
    PROVE  /\ w.op \in AttemptOps \cup {"idle", "registered", "issued"}
           /\ w.op = "idle" <=> w = Idle
           /\ w.op \in AttemptOps => w \in Attempt
           /\ w.op = "registered" => w \in [op : {"registered"}, user : User]
           /\ w.op = "issued" => w \in [op : {"issued"}, id : Pending, user : User]
           /\ w # Idle => w.user \in User
<1>1. CASE w = Idle
  BY <1>1 DEF Idle, AttemptOps
<1>2. CASE w \in Attempt
  BY <1>2 DEF Attempt, Idle, AttemptOps
<1>3. CASE w \in [op : {"registered"}, user : User]
  BY <1>3 DEF Idle, AttemptOps
<1>4. CASE w \in [op : {"issued"}, id : Pending, user : User]
  BY <1>4 DEF Idle, AttemptOps
<1> QED BY <1>1, <1>2, <1>3, <1>4 DEF ReqState

\* A step that goes on keeps what the attempt has read.
LEMMA GotoFacts ==
    ASSUME NEW w \in Attempt, NEW op \in AttemptOps
    PROVE  LET v == [w EXCEPT !.op = op] IN
           /\ v \in Attempt /\ v.op = op
           /\ v.id = w.id /\ v.client = w.client /\ v.scopes = w.scopes /\ v.user = w.user
           /\ v.secret = w.secret /\ v.hash = w.hash /\ v.jit = w.jit /\ v.via = w.via
           /\ v.consent = w.consent
BY DEF Attempt, AttemptOps

\* The provider that is found is stored, active, and serves the user.
LEMMA FindActiveFacts ==
    ASSUME TypeOK, LoginAssumption, NEW c, NEW d, NEW x \in FindActive(c, d)
    PROVE  providers[x].jit \in BOOLEAN
<1>1. x \in Live
  BY DEF FindActive, Best, Candidates
<1>2. providers[x] \in Row
  BY <1>1 DEF Live, TypeOK
<1> QED BY <1>2 DEF Row

\* What a login has read when it begins.
LEMMA LoginReadShape ==
    ASSUME TypeOK, LoginAssumption, NEW r \in Request, NEW p \in Pending, NEW u \in User,
           NEW s \in Password, LoginRead(r, p, u, s)
    PROVE  \E w \in Attempt :
                /\ req' = [req EXCEPT ![r] = w]
                /\ w.op \in {"calling", "verified"} /\ w.id = p /\ w.user = u
                /\ w.secret = s /\ w.hash = users[u]
                /\ w.op = "verified" => users[u] = s
<1> DEFINE v == NewAttempt(p, u, s)
<1>1. pendings[p] \in PendingRow
  BY DEF TypeOK, LoginRead, Stored
<1>2. users[u] \in Password \cup {NoUser}
  BY DEF TypeOK
<1>3. pendings[p].client \in Client /\ pendings[p].scopes \in SUBSET Scope
  BY <1>1 DEF PendingRow
<1>4. v \in Attempt /\ v.op = "calling" /\ v.id = p /\ v.user = u /\ v.secret = s /\ v.hash = users[u]
  BY <1>2, <1>3 DEF NewAttempt, Attempt, Via
<1>5. \/ req' = [req EXCEPT ![r] = [v EXCEPT !.op = "verified", !.via = "local"]]
         /\ ReadLocal(p, u, s)
      \/ \E x \in FindActive(pendings[p].client, DomainOf[u]) :
            req' = [req EXCEPT ![r] = [v EXCEPT !.jit = providers[x].jit]]
  BY Zenon DEF LoginRead
<1> HIDE DEF v
<1>6. ASSUME ReadLocal(p, u, s),
             req' = [req EXCEPT ![r] = [v EXCEPT !.op = "verified", !.via = "local"]]
      PROVE  \E w \in Attempt :
                /\ req' = [req EXCEPT ![r] = w]
                /\ w.op \in {"calling", "verified"} /\ w.id = p /\ w.user = u
                /\ w.secret = s /\ w.hash = users[u]
                /\ w.op = "verified" => users[u] = s
  <2> DEFINE w == [v EXCEPT !.op = "verified", !.via = "local"]
  <2>1. w \in Attempt /\ w.op = "verified" /\ w.id = p /\ w.user = u /\ w.secret = s
        /\ w.hash = users[u]
    BY <1>4 DEF Attempt, Via
  <2>2. req' = [req EXCEPT ![r] = w] /\ users[u] = s
    BY <1>6, Zenon DEF ReadLocal
  <2> HIDE DEF w
  <2> QED BY <2>1, <2>2
<1>7. ASSUME NEW x \in FindActive(pendings[p].client, DomainOf[u]),
             req' = [req EXCEPT ![r] = [v EXCEPT !.jit = providers[x].jit]]
      PROVE  \E w \in Attempt :
                /\ req' = [req EXCEPT ![r] = w]
                /\ w.op \in {"calling", "verified"} /\ w.id = p /\ w.user = u
                /\ w.secret = s /\ w.hash = users[u]
                /\ w.op = "verified" => users[u] = s
  <2> DEFINE w == [v EXCEPT !.jit = providers[x].jit]
  <2>1. providers[x].jit \in BOOLEAN
    BY <1>7, FindActiveFacts
  <2>2. w \in Attempt /\ w.op = "calling" /\ w.id = p /\ w.user = u /\ w.secret = s
        /\ w.hash = users[u]
    BY <1>4, <2>1 DEF Attempt
  <2>3. req' = [req EXCEPT ![r] = w]
    BY <1>7
  <2> HIDE DEF w
  <2> QED BY <2>2, <2>3
<1> QED BY <1>5, <1>6, <1>7

\* A request of which at most the operation is known to change.
LEMMA ReqStep ==
    ASSUME TypeOK, NEW r \in Request, NEW w, req' = [req EXCEPT ![r] = w]
    PROVE  /\ req'[r] = w
           /\ \A q \in Request \ {r} : req'[q] = req[q]
           /\ w \in ReqState => req' \in [Request -> ReqState]
BY DEF TypeOK

\* A request that is idle, and one that carries an attempt, has its type.
LEMMA IdleIsState == Idle \in ReqState
BY DEF ReqState

\* An attempt is a state of a request.
LEMMA AttemptIsState == \A w \in Attempt : w \in ReqState
BY DEF ReqState

\* A shape for every step of a request: what becomes of its local state.
Becomes(r, w) == req' = [req EXCEPT ![r] = w]

\* What Goto makes of an attempt, as a record.
LEMMA GotoBecomes ==
    ASSUME TypeOK, NEW r \in Request, NEW op \in AttemptOps, req[r].op \in AttemptOps, Goto(r, op)
    PROVE  /\ req[r] \in Attempt
           /\ req' = [req EXCEPT ![r] = [req[r] EXCEPT !.op = op]]
           /\ [req[r] EXCEPT !.op = op] \in Attempt
<1>1. req[r] \in Attempt
  BY StateFacts DEF TypeOK
<1> QED BY <1>1, GotoFacts DEF Goto

TypeRest == /\ pendings \in [Pending -> PendingRow \cup {Unissued, Deleted}]
            /\ users \in [User -> Password \cup {NoUser}]
            /\ roles \subseteq User /\ partial \subseteq User
            /\ consents \in [User \X Client -> (SUBSET Scope) \cup {Unissued}]
            /\ codes \in Seq(Code)
            /\ accepted \in [User -> Password \cup {NoUser}]
            /\ contended \subseteq Pending \cup User

\* Type correctness, in two parts: the requests and the rest.
LEMMA TypeSplit == TypeOK <=> /\ providers \in [Provider -> Row \cup {Unissued}]
                              /\ TypeRest /\ req \in [Request -> ReqState]
BY DEF TypeOK, TypeRest

\* Every operation keeps the types.
LEMMA TypeStep == TypeOK /\ [Next]_vars => TypeOK'
<1> SUFFICES ASSUME TypeOK, [Next]_vars
             PROVE  TypeOK'
  OBVIOUS
<1>0. TypeRest /\ req \in [Request -> ReqState] /\ providers \in [Provider -> Row \cup {Unissued}]
  BY TypeSplit
<1>a. ASSUME NEW r \in Request PROVE req[r] \in ReqState
  BY DEF TypeOK
<1>1. ASSUME NEW r \in Request, LoginStep(r), UNCHANGED providers
      PROVE  TypeOK'
  <2> DEFINE w == req[r]
  <2>f. ASSUME Finish(r) PROVE req' \in [Request -> ReqState]
    BY <2>f, IdleIsState DEF Finish, TypeOK
  <2>g. ASSUME NEW op \in AttemptOps, Goto(r, op), req[r].op \in AttemptOps
        PROVE req' \in [Request -> ReqState]
    BY <2>g, GotoBecomes, AttemptIsState DEF TypeOK
  <2>s. ASSUME req' \in [Request -> ReqState], TypeRest' PROVE TypeOK'
    BY <2>s, <1>0, <1>1 DEF TypeOK, TypeRest
  <2>t. ASSUME UNCHANGED <<tables, shadows>> PROVE TypeRest'
    BY <2>t, <1>0 DEF TypeRest, tables, shadows
  <2>1. ASSUME NEW u \in User, NEW s \in Password, Register(r, u, s)
        PROVE  TypeOK'
    <3>1. [op |-> "registered", user |-> u] \in ReqState
      BY DEF ReqState
    <3>2. req' \in [Request -> ReqState]
      BY <2>1, <3>1 DEF Register, Insert, TypeOK
    <3>3. TypeRest'
      BY <2>1, <1>0 DEF Register, Insert, TypeRest, Meets
    <3> QED BY <2>s, <3>2, <3>3
  <2>2. CASE AssignRoles(r)
    <3>1. w.op \in {"registered", "provisioned"}
      BY <2>2 DEF AssignRoles
    <3>2. w.user \in User
      BY <3>1, <1>a, StateFacts DEF Idle
    <3>3. req' \in [Request -> ReqState]
      BY <2>2, <2>f, <2>g DEF AssignRoles, AttemptOps
    <3>4. TypeRest'
      BY <2>2, <1>0, <3>2 DEF AssignRoles, TypeRest, shadows
    <3> QED BY <2>s, <3>3, <3>4
  <2>3. ASSUME NEW p \in Pending, NEW u \in User, NEW s \in Password, LoginRead(r, p, u, s)
        PROVE  TypeOK'
    <3>1. req' \in [Request -> ReqState]
      BY <2>3, LoginReadShape, AttemptIsState, LoginAssumption DEF TypeOK
    <3>2. TypeRest'
      BY <2>3, <1>0 DEF LoginRead, TypeRest, Meets, tables
    <3> QED BY <2>s, <3>1, <3>2
  <2>4. CASE Accept(r)
    <3>1. w \in Attempt /\ req' \in [Request -> ReqState]
      BY <2>4, <2>g, <1>a, StateFacts DEF Accept, AttemptOps
    <3>2. w.user \in User /\ w.secret \in Password
      BY <3>1 DEF Attempt
    <3>3. TypeRest'
      BY <2>4, <1>0, <3>2 DEF Accept, TypeRest, tables
    <3> QED BY <2>s, <3>1, <3>3
  <2>5. CASE Reject(r)
    BY <2>5, <2>g, <2>t, <2>s DEF Reject, AttemptOps
  <2>6. CASE Fail(r)
    BY <2>6, <2>g, <2>t, <2>s DEF Fail, AttemptOps
  <2>7. CASE Fallback(r)
    <3>1. w \in Attempt
      BY <2>7, <1>a, StateFacts DEF Fallback, MayFallBack, AttemptOps
    <3>2. [w EXCEPT !.op = "verified", !.via = "fallback"] \in Attempt
      BY <3>1 DEF Attempt, Via
    <3>3. req' = [req EXCEPT ![r] = [w EXCEPT !.op = "verified", !.via = "fallback"]]
      BY <2>7, Zenon DEF Fallback
    <3>4. req' \in [Request -> ReqState]
      BY <3>2, <3>3, AttemptIsState DEF TypeOK
    <3> QED BY <2>7, <2>s, <2>t, <3>4 DEF Fallback
  <2>8. CASE Provision(r)
    <3>1. w \in Attempt
      BY <2>8, <1>a, StateFacts DEF Provision, AttemptOps
    <3>2. [w EXCEPT !.op = "provisioned", !.hash = w.secret] \in Attempt
      BY <3>1 DEF Attempt
    <3>3. req' \in [Request -> ReqState]
      BY <2>8, <3>2, AttemptIsState DEF Provision, Insert, TypeOK
    <3>4. w.user \in User /\ w.secret \in Password
      BY <3>1 DEF Attempt
    <3>5. TypeRest'
      BY <2>8, <3>4, <1>0 DEF Provision, Insert, TypeRest, shadows
    <3> QED BY <2>s, <3>3, <3>5
  <2>9. CASE Synchronise(r)
    <3>1. w \in Attempt
      BY <2>9, <1>a, StateFacts DEF Synchronise, AttemptOps
    <3>2. [w EXCEPT !.op = "verified", !.hash = w.secret] \in Attempt
      BY <3>1 DEF Attempt
    <3>3. req' \in [Request -> ReqState]
      BY <2>9, <3>2, AttemptIsState DEF Synchronise, TypeOK
    <3> QED BY <2>9, <2>s, <2>t, <3>3 DEF Synchronise
  <2>10. CASE Refuse(r)
    BY <2>10, <2>f, <2>t, <2>s DEF Refuse
  <2>11. ASSUME NEW granted \in SUBSET Scope, ReadConsent(r, granted)
         PROVE  TypeOK'
    <3>1. w \in Attempt
      BY <2>11, <1>a, StateFacts DEF ReadConsent, AttemptOps
    <3>2. consents[ConsentKey(r)] \in (SUBSET Scope) \cup {Unissued}
      <4>1. w.user \in User /\ w.client \in Client
        BY <3>1 DEF Attempt
      <4> QED BY <1>0, <4>1 DEF ConsentKey, TypeRest
    <3>3. [w EXCEPT !.op = "consenting", !.scopes = granted,
                    !.consent = consents[ConsentKey(r)]] \in Attempt
      BY <3>1, <3>2 DEF Attempt
    <3>4. req' \in [Request -> ReqState]
      BY <2>11, <3>3, AttemptIsState DEF ReadConsent, TypeOK
    <3> QED BY <2>11, <2>s, <2>t, <3>4 DEF ReadConsent
  <2>12. CASE IssueCode(r)
    <3>1. w \in Attempt
      BY <2>12, <1>a, StateFacts DEF IssueCode, AttemptOps
    <3>2. /\ w.user \in User /\ w.client \in Client /\ w.id \in Pending
          /\ w.scopes \in SUBSET Scope /\ w.hash \in Password \cup {NoUser}
          /\ w.consent \in (SUBSET Scope) \cup {Unissued}
      BY <3>1 DEF Attempt
    <3>3. [op |-> "issued", id |-> w.id, user |-> w.user] \in ReqState
      BY <3>2 DEF ReqState
    <3>4. req' \in [Request -> ReqState]
      BY <2>12, <3>3 DEF IssueCode, TypeOK
    <3>5. Granted(w.consent, w.scopes) \in (SUBSET Scope) \cup {Unissued}
      BY <3>2 DEF Granted
    <3>6. consents' \in [User \X Client -> (SUBSET Scope) \cup {Unissued}]
      BY <2>12, <1>0, <3>2, <3>5 DEF IssueCode, TypeRest, ConsentKey
    <3>7. codes' \in Seq(Code)
      <4>1. [pending |-> w.id, user |-> w.user, client |-> w.client, scopes |-> w.scopes] \in Code
        BY <3>2 DEF Code
      <4> QED BY <2>12, <1>0, <4>1 DEF IssueCode, TypeRest
    <3>8. TypeRest'
      BY <2>12, <1>0, <3>2, <3>6, <3>7 DEF IssueCode, TypeRest, shadows
    <3> QED BY <2>s, <3>4, <3>8
  <2>13. CASE DropPending(r)
    <3>1. TypeRest'
      BY <2>13, <1>0 DEF DropPending, TypeRest, shadows
    <3> QED BY <2>13, <2>f, <2>s, <3>1 DEF DropPending
  <2>14. CASE GiveUpLogin(r)
    <3>1. w.op = "issued" => w.id \in Pending
      BY <1>a, StateFacts
    <3>2. w.user \in User
      BY <2>14, <1>a, StateFacts DEF GiveUpLogin
    <3>3. TypeRest'
      BY <2>14, <1>0, <3>1, <3>2 DEF GiveUpLogin, TypeRest, tables
    <3> QED BY <2>14, <2>f, <2>s, <3>3 DEF GiveUpLogin
  <2> QED
    BY <1>1, <2>1, <2>2, <2>3, <2>4, <2>5, <2>6, <2>7, <2>8, <2>9, <2>10, <2>11,
       <2>12, <2>13, <2>14 DEF LoginStep
<1>2. ASSUME PendingStep, UNCHANGED providers PROVE TypeOK'
  <2>1. ASSUME NEW p \in Pending, NEW c \in Client, NEW S \in Asked, Initiate(p, c, S)
        PROVE  TypeOK'
    <3>1. [client |-> c, scopes |-> S, expired |-> FALSE] \in PendingRow
      BY LoginAssumption DEF PendingRow
    <3> QED BY <1>2, <2>1, <3>1 DEF TypeOK, Initiate, shadows
  <2>2. ASSUME NEW p \in Pending, Expire(p) PROVE TypeOK'
    <3>1. pendings[p] \in PendingRow
      BY <2>2 DEF TypeOK, Expire, Stored
    <3>2. [pendings[p] EXCEPT !.expired = TRUE] \in PendingRow
      BY <3>1 DEF PendingRow
    <3>3. pendings' = [pendings EXCEPT ![p] = [pendings[p] EXCEPT !.expired = TRUE]]
      BY <2>2 DEF Expire
    <3> QED BY <1>2, <2>2, <3>2, <3>3 DEF TypeOK, Expire, shadows
  <2>3. ASSUME NEW p \in Pending, GetExpired(p) PROVE TypeOK'
    BY <1>2, <2>3 DEF TypeOK, GetExpired, shadows
  <2>4. CASE Cleanup
    BY <1>2, <2>4 DEF TypeOK, Cleanup, shadows
  <2> QED BY <1>2, <2>1, <2>2, <2>3, <2>4 DEF PendingStep
<1>3. ASSUME NEW x \in Provider, NEW row \in AdminRows, ProviderChange(x, row)
      PROVE  TypeOK'
  BY <1>3, LoginAssumption DEF ProviderChange, loginVars, TypeOK
<1>4. CASE UNCHANGED vars
  BY <1>4 DEF vars, loginVars, TypeOK
<1> QED BY <1>1, <1>2, <1>3, <1>4 DEF Next

----------------------------------------------------------------------------
Provided == roles \cup partial \cup contended

IssuedFor(p) == \E i \in 1 .. Len(codes) : codes[i].pending = p

\* Two requests of one user, or on one pending request, have met.
AloneWithUser ==
    \A r, q \in Request :
        /\ r # q /\ req[r].op # "idle" /\ req[q].op # "idle"
        /\ req[r].user = req[q].user
        => req[r].user \in contended

AloneOnPending ==
    \A r, q \in Request :
        /\ r # q
        /\ req[r].op \notin {"idle", "registered"} /\ req[q].op \notin {"idle", "registered"}
        /\ req[r].id = req[q].id
        => req[r].id \in contended

\* What a login knows is still true, unless its user has met another request.
AttemptHolds(r) ==
    /\ req[r].op \in {"calling", "accepted", "rejected", "failed"} =>
        /\ req[r].hash # NoUser => req[r].user \in Provided
        /\ req[r].user \in contended \/ req[r].hash = users[req[r].user]
    /\ req[r].op \in {"provisioned", "verified", "consenting"} => req[r].hash = req[r].secret
    /\ req[r].op \in {"accepted", "provisioned", "verified", "consenting"} =>
        req[r].user \in contended \/ req[r].secret = accepted[req[r].user]
    /\ req[r].op \in {"verified", "consenting"} => req[r].user \in Provided
    /\ req[r].op \in AttemptOps /\ IssuedFor(req[r].id) => req[r].id \in contended
    /\ req[r].op = "consenting" =>
        req[r].user \in contended
            \/ req[r].consent = consents[<<req[r].user, req[r].client>>]

\* An account has its roles, and its password is the one found right last,
\* unless somebody is about to see to it.
AccountHolds(u) ==
    users[u] # NoUser =>
        /\ \/ u \in Provided
           \/ \E r \in Request : req[r].op \in {"registered", "provisioned"} /\ req[r].user = u
        /\ \/ u \in contended \/ users[u] = accepted[u]
           \/ \E r \in Request :
                req[r].op \in {"accepted", "verified", "consenting"} /\ req[r].user = u

\* The pending request of a code is gone or about to go, and the code has a
\* user with roles and a consent.
CodeHolds(c) ==
    /\ \/ c.pending \in contended \/ pendings[c.pending] = Deleted
       \/ \E r \in Request : req[r].op = "issued" /\ req[r].id = c.pending
    /\ c.user \in Provided
    /\ \/ c.user \in contended
       \/ /\ consents[<<c.user, c.client>>] # Unissued
          /\ c.scopes \subseteq consents[<<c.user, c.client>>]

LoginIInv ==
    /\ TypeOK
    /\ AloneWithUser /\ AloneOnPending
    /\ \A r \in Request : AttemptHolds(r)
    /\ \A u \in User : AccountHolds(u)
    /\ \A i \in 1 .. Len(codes) : CodeHolds(codes[i])
    /\ OneCodePerRequest

\* A request that goes on as whom it was, ends, or has looked around.
LEMMA StillAlone ==
    ASSUME TypeOK, AloneWithUser, AloneOnPending, NEW r \in Request, NEW w,
           req' = [req EXCEPT ![r] = w], contended \subseteq contended',
           \/ w.op = "idle"
           \/ req[r].op # "idle" /\ w.user = req[r].user
           \/ Meets(r, w.user) \subseteq contended',
           \/ w.op \in {"idle", "registered"}
           \/ req[r].op \notin {"idle", "registered"} /\ w.id = req[r].id
           \/ SamePending(r, w.id) => w.id \in contended'
    PROVE  AloneWithUser' /\ AloneOnPending'
<1>0. req'[r] = w /\ \A q \in Request \ {r} : req'[q] = req[q]
  BY DEF TypeOK
<1>1. ASSUME NEW q \in Request \ {r}, w.op # "idle", req[q].op # "idle", w.user = req[q].user
      PROVE  w.user \in contended'
  <2>1. CASE req[r].op # "idle" /\ w.user = req[r].user
    BY <1>1, <2>1 DEF AloneWithUser
  <2>2. CASE Meets(r, w.user) \subseteq contended'
    <3>1. SameUser(r, w.user)
      BY <1>1 DEF SameUser
    <3> QED BY <2>2, <3>1 DEF Meets
  <2> QED BY <1>1, <2>1, <2>2
<1>2. ASSUME NEW q \in Request \ {r}, w.op \notin {"idle", "registered"},
             req[q].op \notin {"idle", "registered"}, w.id = req[q].id
      PROVE  w.id \in contended'
  <2>1. CASE req[r].op \notin {"idle", "registered"} /\ w.id = req[r].id
    BY <1>2, <2>1 DEF AloneOnPending
  <2>2. CASE SamePending(r, w.id) => w.id \in contended'
    <3>1. SamePending(r, w.id)
      BY <1>2 DEF SamePending
    <3> QED BY <2>2, <3>1
  <2> QED BY <1>2, <2>1, <2>2
<1>3. AloneWithUser'
  BY <1>0, <1>1 DEF AloneWithUser
<1>4. AloneOnPending'
  BY <1>0, <1>2 DEF AloneOnPending
<1> QED BY <1>3, <1>4

\* Nobody else works for the user of a request, unless they have met.
LEMMA MetBefore ==
    ASSUME AloneWithUser, NEW r \in Request, req[r].op # "idle"
    PROVE  Meets(r, req[r].user) \subseteq contended
BY DEF AloneWithUser, Meets, SameUser

\* What the step of one request leaves true of the others.
LEMMA OthersHold ==
    ASSUME LoginIInv, NEW r \in Request, NEW w, req' = [req EXCEPT ![r] = w],
           contended \subseteq contended', Provided \subseteq Provided',
           \A u \in User :
                \/ /\ users'[u] = users[u] /\ accepted'[u] = accepted[u]
                   /\ \A c \in Client : consents'[<<u, c>>] = consents[<<u, c>>]
                \/ Meets(r, u) \subseteq contended',
           \A p \in Pending : IssuedFor(p)' =>
                IssuedFor(p) \/ (SamePending(r, p) => p \in contended')
    PROVE  \A q \in Request \ {r} : AttemptHolds(q)'
<1> SUFFICES ASSUME NEW q \in Request \ {r} PROVE AttemptHolds(q)'
  OBVIOUS
<1>0. req'[q] = req[q] /\ AttemptHolds(q) /\ req[q] \in ReqState
  BY DEF LoginIInv, TypeOK
<1>1. CASE req[q].op \notin AttemptOps
  BY <1>0, <1>1 DEF AttemptHolds, AttemptOps
<1>2. CASE req[q].op \in AttemptOps
  <2>1. req[q].user \in User /\ req[q].id \in Pending /\ req[q].client \in Client
    BY <1>0, <1>2, StateFacts DEF Attempt
  <2>2. \/ req[q].user \in contended'
        \/ /\ users'[req[q].user] = users[req[q].user]
           /\ accepted'[req[q].user] = accepted[req[q].user]
           /\ consents'[<<req[q].user, req[q].client>>] = consents[<<req[q].user, req[q].client>>]
    <3>1. SameUser(r, req[q].user)
      BY <1>2 DEF SameUser, AttemptOps
    <3> QED BY <2>1, <3>1 DEF Meets
  <2>3. IssuedFor(req[q].id)' => req[q].id \in contended'
    <3>1. SamePending(r, req[q].id)
      BY <1>2 DEF SamePending, AttemptOps
    <3>2. IssuedFor(req[q].id) => req[q].id \in contended
      BY <1>0, <1>2 DEF AttemptHolds
    <3> QED BY <2>1, <3>1, <3>2
  <2> QED BY <1>0, <2>2, <2>3 DEF AttemptHolds
<1> QED BY <1>1, <1>2

\* What it leaves true of the accounts.
LEMMA AccountsHold ==
    ASSUME LoginIInv, NEW r \in Request, NEW w, req' = [req EXCEPT ![r] = w],
           contended \subseteq contended', Provided \subseteq Provided',
           \A u \in User :
                (users'[u] = users[u] /\ accepted'[u] = accepted[u]) \/ AccountHolds(u)',
           req[r].op \in {"registered", "provisioned"} =>
                \/ w.op \in {"registered", "provisioned"} /\ w.user = req[r].user
                \/ req[r].user \in Provided',
           req[r].op \in {"accepted", "verified", "consenting"} =>
                \/ w.op \in {"accepted", "verified", "consenting"} /\ w.user = req[r].user
                \/ req[r].user \in contended'
                \/ users'[req[r].user] \in {NoUser, accepted'[req[r].user]}
    PROVE  \A u \in User : AccountHolds(u)'
<1> SUFFICES ASSUME NEW u \in User, users'[u] = users[u], accepted'[u] = accepted[u],
                    users[u] # NoUser
             PROVE  AccountHolds(u)'
  BY DEF AccountHolds
<1>0. req'[r] = w /\ (\A q \in Request \ {r} : req'[q] = req[q]) /\ AccountHolds(u)
  BY DEF LoginIInv, TypeOK
<1>1. u \in Provided' \/ \E q \in Request : req'[q].op \in {"registered", "provisioned"} /\ req'[q].user = u
  BY <1>0 DEF AccountHolds
<1>2. \/ u \in contended' \/ users'[u] = accepted'[u]
      \/ \E q \in Request : req'[q].op \in {"accepted", "verified", "consenting"} /\ req'[q].user = u
  BY <1>0 DEF AccountHolds
<1> QED BY <1>1, <1>2 DEF AccountHolds

\* What it leaves true of the codes.
LEMMA CodesHold ==
    ASSUME LoginIInv, NEW r \in Request, NEW w, req' = [req EXCEPT ![r] = w],
           contended \subseteq contended', Provided \subseteq Provided',
           UNCHANGED <<codes, consents>>,
           \A p \in Pending : pendings[p] = Deleted => pendings'[p] = Deleted,
           req[r].op = "issued" =>
                pendings'[req[r].id] = Deleted \/ req[r].id \in contended'
    PROVE  /\ \A i \in 1 .. Len(codes)' : CodeHolds(codes[i])'
           /\ OneCodePerRequest'
<1>1. OneCodePerRequest'
  BY DEF LoginIInv, OneCodePerRequest
<1>2. ASSUME NEW i \in 1 .. Len(codes) PROVE CodeHolds(codes[i])'
  <2>1. codes[i] \in Code /\ CodeHolds(codes[i])
    BY DEF LoginIInv, TypeOK
  <2>2. codes[i].pending \in Pending
    BY <2>1 DEF Code
  <2>3. \A q \in Request \ {r} : req'[q] = req[q]
    BY DEF LoginIInv, TypeOK
  <2>4. CASE \E q \in Request : req[q].op = "issued" /\ req[q].id = codes[i].pending
    BY <2>1, <2>2, <2>3, <2>4 DEF CodeHolds
  <2>5. CASE codes[i].pending \in contended \/ pendings[codes[i].pending] = Deleted
    BY <2>1, <2>2, <2>5 DEF CodeHolds
  <2> QED BY <2>1, <2>4, <2>5 DEF CodeHolds
<1> QED BY <1>1, <1>2

\* A step that leaves the tables alone, and a request that goes on.
LEMMA QuietStep ==
    ASSUME LoginIInv, TypeOK', NEW r \in Request, NEW w, req' = [req EXCEPT ![r] = w],
           UNCHANGED <<tables, roles, partial>>, contended \subseteq contended',
           \A u \in User : accepted'[u] = accepted[u] \/ Meets(r, u) \subseteq contended',
           \A u \in User : accepted'[u] = accepted[u] \/ AccountHolds(u)',
           AloneWithUser' /\ AloneOnPending', AttemptHolds(r)',
           req[r].op \in {"registered", "provisioned"} =>
                \/ w.op \in {"registered", "provisioned"} /\ w.user = req[r].user
                \/ req[r].user \in Provided',
           req[r].op \in {"accepted", "verified", "consenting"} =>
                \/ w.op \in {"accepted", "verified", "consenting"} /\ w.user = req[r].user
                \/ req[r].user \in contended'
                \/ users'[req[r].user] \in {NoUser, accepted'[req[r].user]},
           req[r].op = "issued" =>
                pendings'[req[r].id] = Deleted \/ req[r].id \in contended'
    PROVE  LoginIInv'
<1>1. Provided \subseteq Provided'
  BY DEF Provided, tables
<1>2. \A p : IssuedFor(p)' => IssuedFor(p)
  BY DEF IssuedFor, tables
<1>3. \A q \in Request \ {r} : AttemptHolds(q)'
  BY <1>1, <1>2, OthersHold DEF tables
<1>4. \A u \in User : AccountHolds(u)'
  BY <1>1, AccountsHold DEF tables
<1>5. (\A i \in 1 .. Len(codes)' : CodeHolds(codes[i])') /\ OneCodePerRequest'
  BY <1>1, CodesHold DEF tables
<1> QED BY <1>3, <1>4, <1>5 DEF LoginIInv

\* Every step of an attempt keeps the invariant.
LEMMA LoginInvStep ==
    ASSUME LoginIInv, TypeOK', LoginAssumption, NEW r \in Request, LoginStep(r)
    PROVE  LoginIInv'
<1> DEFINE w == req[r]
<1> DEFINE u == req[r].user
<1>0. TypeOK /\ AloneWithUser /\ AloneOnPending /\ AttemptHolds(r) /\ w \in ReqState
  BY DEF LoginIInv, TypeOK
<1>m. w.op # "idle" => Meets(r, u) \subseteq contended
  BY <1>0, MetBefore
\* A login that only changes its operation.
<1>g. ASSUME NEW op \in AttemptOps, Goto(r, op), w.op \in AttemptOps
      PROVE  /\ req' = [req EXCEPT ![r] = [w EXCEPT !.op = op]]
             /\ w \in Attempt /\ [w EXCEPT !.op = op] \in Attempt
             /\ req'[r].op = op /\ req'[r].user = u /\ req'[r].id = w.id
             /\ req'[r].client = w.client /\ req'[r].secret = w.secret
             /\ req'[r].hash = w.hash
             /\ (contended \subseteq contended' => AloneWithUser' /\ AloneOnPending')
  <2>1. w \in Attempt
    BY <1>0, <1>g, StateFacts
  <2>2. req' = [req EXCEPT ![r] = [w EXCEPT !.op = op]]
    BY <1>g DEF Goto
  <2> DEFINE v == [w EXCEPT !.op = op]
  <2>3. /\ v \in Attempt /\ v.op = op /\ v.id = w.id /\ v.client = w.client
        /\ v.user = w.user /\ v.secret = w.secret /\ v.hash = w.hash
    BY <2>1, GotoFacts
  <2> HIDE DEF v
  <2>4. req' = [req EXCEPT ![r] = v] /\ req'[r] = v
    BY <2>2, <1>0 DEF v, TypeOK
  <2>5. w.op \notin {"idle", "registered"}
    BY <1>g DEF AttemptOps
  <2>6. contended \subseteq contended' => AloneWithUser' /\ AloneOnPending'
    BY <1>0, <2>3, <2>4, <2>5, StillAlone
  <2> QED BY <2>1, <2>2, <2>3, <2>4, <2>6 DEF v
\* A request that ends.
<1>f. ASSUME Finish(r), contended \subseteq contended'
      PROVE  /\ req' = [req EXCEPT ![r] = Idle]
             /\ Idle.op = "idle" /\ req'[r] = Idle
             /\ AloneWithUser' /\ AloneOnPending' /\ AttemptHolds(r)'
  <2>1. req' = [req EXCEPT ![r] = Idle] /\ Idle.op = "idle" /\ req'[r] = Idle
    BY <1>0, <1>f DEF Finish, Idle, TypeOK
  <2>2. AloneWithUser' /\ AloneOnPending'
    BY <1>0, <1>f, <2>1, StillAlone
  <2>3. AttemptHolds(r)'
    BY <2>1 DEF AttemptHolds, AttemptOps
  <2> QED BY <2>1, <2>2, <2>3
<1>1. ASSUME NEW x \in User, NEW s \in Password, Register(r, x, s)
      PROVE  LoginIInv'
  <2> DEFINE v == [op |-> "registered", user |-> x]
  <2>1. /\ w = Idle /\ users[x] = NoUser
        /\ users' = [users EXCEPT ![x] = s] /\ req' = [req EXCEPT ![r] = v]
        /\ accepted' = [accepted EXCEPT ![x] = s]
        /\ contended' = contended \cup Meets(r, x)
        /\ UNCHANGED <<pendings, roles, consents, codes, partial>>
    BY <1>1 DEF Register, Insert
  <2>2. v.op = "registered" /\ v.user = x /\ w.op = "idle"
    BY <2>1 DEF Idle
  <2> HIDE DEF v
  <2>3. req'[r] = v /\ contended \subseteq contended' /\ Provided \subseteq Provided'
    BY <1>0, <2>1 DEF TypeOK, Provided
  <2>4. AloneWithUser' /\ AloneOnPending'
    BY <1>0, <2>1, <2>2, <2>3, StillAlone
  <2>5. AttemptHolds(r)'
    BY <2>2, <2>3 DEF AttemptHolds, AttemptOps
  <2>6. \A p : IssuedFor(p)' => IssuedFor(p)
    BY <2>1 DEF IssuedFor
  <2>7. \A q \in Request \ {r} : AttemptHolds(q)'
    <3>1. \A y \in User : \/ users'[y] = users[y] /\ accepted'[y] = accepted[y]
                          \/ Meets(r, y) \subseteq contended'
      BY <1>0, <2>1 DEF TypeOK
    <3> QED BY <2>1, <2>3, <2>6, <3>1, OthersHold
  <2>8. \A y \in User : AccountHolds(y)'
    <3>1. users'[x] = accepted'[x]
      BY <1>0, <2>1 DEF TypeOK
    <3>2. AccountHolds(x)'
      BY <2>2, <2>3, <3>1 DEF AccountHolds
    <3>3. \A y \in User : (users'[y] = users[y] /\ accepted'[y] = accepted[y]) \/ AccountHolds(y)'
      BY <1>0, <2>1, <3>2 DEF TypeOK
    <3> QED BY <2>1, <2>2, <2>3, <3>3, AccountsHold
  <2>9. (\A i \in 1 .. Len(codes)' : CodeHolds(codes[i])') /\ OneCodePerRequest'
    BY <2>1, <2>2, <2>3, CodesHold
  <2> QED BY <2>4, <2>5, <2>7, <2>8, <2>9 DEF LoginIInv
<1>2. CASE AssignRoles(r)
  <2>1. /\ w.op \in {"registered", "provisioned"} /\ roles' = roles \cup {u}
        /\ UNCHANGED <<pendings, users, consents, codes, accepted, contended, partial>>
    BY <1>2 DEF AssignRoles, shadows
  <2>2. u \in Provided' /\ Provided \subseteq Provided' /\ contended \subseteq contended'
    BY <2>1 DEF Provided
  <2>3. PICK v : /\ req' = [req EXCEPT ![r] = v] /\ AloneWithUser' /\ AloneOnPending'
                 /\ AttemptHolds(r)'
    <3>1. CASE w.op = "registered" /\ Finish(r)
      BY <1>f, <2>2, <3>1
    <3>2. CASE w.op = "provisioned" /\ Goto(r, "verified")
      <4>1. /\ req' = [req EXCEPT ![r] = [w EXCEPT !.op = "verified"]]
            /\ AloneWithUser' /\ AloneOnPending'
            /\ req'[r].op = "verified" /\ req'[r].user = u /\ req'[r].id = w.id
            /\ req'[r].secret = w.secret /\ req'[r].hash = w.hash
        BY <1>g, <2>2, <3>2 DEF AttemptOps
      <4>2. AttemptHolds(r)'
        BY <1>0, <2>1, <2>2, <3>2, <4>1 DEF AttemptHolds, AttemptOps, IssuedFor
      <4> QED BY <4>1, <4>2
    <3> QED BY <1>2, <3>1, <3>2 DEF AssignRoles
  <2>4. \A p : IssuedFor(p)' => IssuedFor(p)
    BY <2>1 DEF IssuedFor
  <2>5. \A q \in Request \ {r} : AttemptHolds(q)'
    BY <2>1, <2>2, <2>3, <2>4, OthersHold
  <2>6. \A y \in User : AccountHolds(y)'
    BY <2>1, <2>2, <2>3, AccountsHold
  <2>7. (\A i \in 1 .. Len(codes)' : CodeHolds(codes[i])') /\ OneCodePerRequest'
    BY <2>1, <2>2, <2>3, CodesHold
  <2> QED BY <2>3, <2>5, <2>6, <2>7 DEF LoginIInv
<1>3. ASSUME NEW p \in Pending, NEW x \in User, NEW s \in Password, LoginRead(r, p, x, s)
      PROVE  LoginIInv'
  <2>1. PICK v \in Attempt :
            /\ req' = [req EXCEPT ![r] = v]
            /\ v.op \in {"calling", "verified"} /\ v.id = p /\ v.user = x
            /\ v.secret = s /\ v.hash = users[x]
            /\ v.op = "verified" => users[x] = s
    BY <1>0, <1>3, LoginReadShape
  <2>2. /\ w = Idle /\ Stored(p) /\ UNCHANGED <<tables, accepted, partial>>
        /\ contended' = contended \cup Meets(r, x) \cup (IF SamePending(r, p) THEN {p} ELSE {})
    BY <1>3 DEF LoginRead
  <2>3. contended \subseteq contended' /\ req'[r] = v /\ w.op = "idle"
    BY <1>0, <2>1, <2>2 DEF TypeOK, Idle
  <2>4. AloneWithUser' /\ AloneOnPending'
    BY <1>0, <2>1, <2>2, <2>3, StillAlone
  <2>5. AccountHolds(x) /\ NoUser \notin Password
    BY DEF LoginIInv, LoginAssumption
  <2>6. users[x] # NoUser => x \in Provided'
    <3>1. CASE \E q \in Request : req[q].op \in {"registered", "provisioned"} /\ req[q].user = x
      <4>1. SameUser(r, x)
        BY <2>3, <3>1 DEF SameUser
      <4> QED BY <2>2, <4>1 DEF Meets, Provided
    <3> QED BY <2>2, <2>3, <2>5, <3>1 DEF AccountHolds, Provided, tables
  <2>7. users[x] = s => x \in contended' \/ s = accepted[x]
    <3>1. CASE \E q \in Request : req[q].op \in {"accepted", "verified", "consenting"} /\ req[q].user = x
      <4>1. SameUser(r, x)
        BY <2>3, <3>1 DEF SameUser
      <4> QED BY <2>2, <4>1 DEF Meets
    <3> QED BY <2>3, <2>5, <3>1 DEF AccountHolds
  <2>8. IssuedFor(p) => p \in contended'
    <3> SUFFICES ASSUME NEW i \in 1 .. Len(codes), codes[i].pending = p
                 PROVE  p \in contended'
      BY DEF IssuedFor
    <3>1. CodeHolds(codes[i])
      BY DEF LoginIInv
    <3>2. CASE \E q \in Request : req[q].op = "issued" /\ req[q].id = p
      <4>1. SamePending(r, p)
        BY <2>3, <3>2 DEF SamePending
      <4> QED BY <2>2, <4>1
    <3> QED BY <2>2, <2>3, <3>1, <3>2 DEF CodeHolds, Stored
  <2>9. IssuedFor(p)' => IssuedFor(p)
    BY <2>2 DEF IssuedFor, tables
  <2>10. AttemptHolds(r)'
    BY <2>1, <2>2, <2>3, <2>5, <2>6, <2>7, <2>8, <2>9 DEF AttemptHolds, AttemptOps, tables
  <2> QED BY <1>0, <2>1, <2>2, <2>3, <2>4, <2>10, QuietStep DEF tables
<1>4. CASE Accept(r)
  <2>1. /\ w.op = "calling" /\ Goto(r, "accepted") /\ UNCHANGED <<tables, contended, partial>>
        /\ accepted' = [accepted EXCEPT ![u] = w.secret]
    BY <1>4 DEF Accept
  <2>2. /\ req' = [req EXCEPT ![r] = [w EXCEPT !.op = "accepted"]] /\ w \in Attempt
        /\ AloneWithUser' /\ AloneOnPending'
        /\ req'[r].op = "accepted" /\ req'[r].user = u /\ req'[r].id = w.id
        /\ req'[r].secret = w.secret /\ req'[r].hash = w.hash
    BY <1>g, <2>1 DEF AttemptOps
  <2>3. u \in User /\ accepted'[u] = w.secret
    BY <1>0, <2>1, <2>2 DEF TypeOK, Attempt
  <2>4. AttemptHolds(r)'
    BY <1>0, <2>1, <2>2, <2>3 DEF AttemptHolds, AttemptOps, IssuedFor, Provided, tables
  <2>5. ASSUME NEW y \in User, y = u PROVE AccountHolds(y)'
    <3>1. users[u] # NoUser => u \in Provided
      BY <1>0, <2>1 DEF AttemptHolds, Provided
    <3> QED BY <2>1, <2>2, <2>5, <3>1 DEF AccountHolds, Provided, tables
  <2>6. \A y \in User : accepted'[y] = accepted[y] \/ y = u
    BY <1>0, <2>1 DEF TypeOK
  <2>7. UNCHANGED <<tables, roles, partial, contended>>
    BY <2>1 DEF tables
  <2>8. \A y \in User : /\ accepted'[y] = accepted[y] \/ Meets(r, y) \subseteq contended'
                        /\ accepted'[y] = accepted[y] \/ AccountHolds(y)'
    BY <1>m, <2>1, <2>2, <2>5, <2>6
  <2> QED BY <2>1, <2>2, <2>4, <2>7, <2>8, QuietStep
<1>5. CASE Reject(r)
  <2>1. w.op = "calling" /\ Goto(r, "rejected") /\ UNCHANGED <<tables, shadows>>
    BY <1>5 DEF Reject
  <2>2. /\ req' = [req EXCEPT ![r] = [w EXCEPT !.op = "rejected"]]
        /\ AloneWithUser' /\ AloneOnPending'
        /\ req'[r].op = "rejected" /\ req'[r].user = u /\ req'[r].id = w.id
        /\ req'[r].hash = w.hash
    BY <1>g, <2>1 DEF AttemptOps, shadows
  <2>3. AttemptHolds(r)'
    BY <1>0, <2>1, <2>2 DEF AttemptHolds, AttemptOps, IssuedFor, Provided, tables, shadows
  <2> QED BY <1>0, <2>1, <2>2, <2>3, QuietStep DEF tables, shadows
<1>6. CASE Fail(r)
  <2>1. w.op = "calling" /\ Goto(r, "failed") /\ UNCHANGED <<tables, shadows>>
    BY <1>6 DEF Fail
  <2>2. /\ req' = [req EXCEPT ![r] = [w EXCEPT !.op = "failed"]]
        /\ AloneWithUser' /\ AloneOnPending'
        /\ req'[r].op = "failed" /\ req'[r].user = u /\ req'[r].id = w.id
        /\ req'[r].hash = w.hash
    BY <1>g, <2>1 DEF AttemptOps, shadows
  <2>3. AttemptHolds(r)'
    BY <1>0, <2>1, <2>2 DEF AttemptHolds, AttemptOps, IssuedFor, Provided, tables, shadows
  <2> QED BY <1>0, <2>1, <2>2, <2>3, QuietStep DEF tables, shadows
<1>7. CASE Fallback(r)
  <2> DEFINE v == [w EXCEPT !.op = "verified", !.via = "fallback"]
  <2>1. /\ w.op = "failed" /\ w.hash = w.secret /\ UNCHANGED <<tables, shadows>>
        /\ req' = [req EXCEPT ![r] = v]
    BY <1>7, Zenon DEF Fallback, MayFallBack
  <2>2. w \in Attempt
    BY <1>0, <2>1, StateFacts DEF AttemptOps
  <2>3. v.op = "verified" /\ v.id = w.id /\ v.user = u /\ v.secret = w.secret /\ v.hash = w.hash
    BY <2>2 DEF Attempt
  <2>4. w.hash # NoUser /\ u \in User
    BY <2>1, <2>2 DEF Attempt, LoginAssumption
  <2> HIDE DEF v
  <2>5. req'[r] = v /\ contended' = contended
    BY <1>0, <2>1 DEF TypeOK, shadows
  <2>6. AloneWithUser' /\ AloneOnPending'
    BY <1>0, <2>1, <2>3, <2>5, StillAlone
  <2>7. u \in contended \/ w.secret = accepted[u]
    <3>1. AccountHolds(u) /\ (u \in contended \/ w.hash = users[u])
      BY <1>0, <2>1, <2>4 DEF LoginIInv, AttemptHolds
    <3>2. CASE \E q \in Request :
                    req[q].op \in {"accepted", "verified", "consenting"} /\ req[q].user = u
      <4>1. SameUser(r, u)
        BY <2>1, <3>2 DEF SameUser
      <4> QED BY <1>m, <2>1, <4>1 DEF Meets
    <3> QED BY <2>1, <2>4, <3>1, <3>2 DEF AccountHolds
  <2>8. AttemptHolds(r)'
    BY <1>0, <2>1, <2>3, <2>4, <2>5, <2>7
    DEF AttemptHolds, AttemptOps, IssuedFor, Provided, tables, shadows
  <2> QED BY <1>0, <2>1, <2>3, <2>5, <2>6, <2>8, QuietStep DEF tables, shadows
<1>8. CASE Provision(r)
  <2> DEFINE v == [w EXCEPT !.op = "provisioned", !.hash = w.secret]
  <2>1. /\ w.op = "accepted" /\ users[u] = NoUser /\ users' = [users EXCEPT ![u] = w.secret]
        /\ req' = [req EXCEPT ![r] = v]
        /\ UNCHANGED <<pendings, roles, consents, codes, shadows>>
    BY <1>8, Zenon DEF Provision, Insert
  <2>2. w \in Attempt
    BY <1>0, <2>1, StateFacts DEF AttemptOps
  <2>3. /\ v.op = "provisioned" /\ v.id = w.id /\ v.user = u /\ v.secret = w.secret
        /\ v.hash = w.secret
    BY <2>2 DEF Attempt
  <2>4. u \in User /\ users'[u] = w.secret
    BY <1>0, <2>1, <2>2 DEF Attempt, TypeOK
  <2> HIDE DEF v
  <2>5. req'[r] = v /\ contended' = contended /\ Provided' = Provided /\ accepted' = accepted
    BY <1>0, <2>1 DEF TypeOK, shadows, Provided
  <2>6. AloneWithUser' /\ AloneOnPending'
    BY <1>0, <2>1, <2>3, <2>5, StillAlone
  <2>7. AttemptHolds(r)'
    BY <1>0, <2>1, <2>3, <2>5 DEF AttemptHolds, AttemptOps, IssuedFor
  <2>8. \A p : IssuedFor(p)' => IssuedFor(p)
    BY <2>1 DEF IssuedFor
  <2>9. \A q \in Request \ {r} : AttemptHolds(q)'
    <3>1. \A y \in User : users'[y] = users[y] \/ Meets(r, y) \subseteq contended'
      BY <1>0, <1>m, <2>1, <2>5 DEF TypeOK
    <3> QED BY <2>1, <2>5, <2>8, <3>1, OthersHold
  <2>10. \A y \in User : AccountHolds(y)'
    <3>1. ASSUME NEW y \in User, y = u PROVE AccountHolds(y)'
      <4>1. u \in contended \/ w.secret = accepted[u]
        BY <1>0, <2>1 DEF AttemptHolds
      <4> QED BY <2>3, <2>4, <2>5, <3>1, <4>1 DEF AccountHolds
    <3>2. \A y \in User : (users'[y] = users[y] /\ accepted'[y] = accepted[y]) \/ AccountHolds(y)'
      BY <1>0, <2>1, <2>5, <3>1 DEF TypeOK
    <3>3. u \in contended' \/ users'[u] = accepted'[u]
      BY <1>0, <2>1, <2>4, <2>5 DEF AttemptHolds
    <3> QED BY <2>1, <2>3, <2>5, <3>2, <3>3, AccountsHold
  <2>11. (\A i \in 1 .. Len(codes)' : CodeHolds(codes[i])') /\ OneCodePerRequest'
    BY <2>1, <2>5, CodesHold
  <2> QED BY <2>6, <2>7, <2>9, <2>10, <2>11 DEF LoginIInv
<1>9. CASE Synchronise(r)
  <2> DEFINE v == [w EXCEPT !.op = "verified", !.hash = w.secret]
  <2>1. /\ w.op = "accepted" /\ w.hash # NoUser /\ UNCHANGED <<tables, shadows>>
        /\ req' = [req EXCEPT ![r] = v]
    BY <1>9, Zenon DEF Synchronise
  <2>2. w \in Attempt
    BY <1>0, <2>1, StateFacts DEF AttemptOps
  <2>3. v.op = "verified" /\ v.id = w.id /\ v.user = u /\ v.secret = w.secret /\ v.hash = w.secret
    BY <2>2 DEF Attempt
  <2> HIDE DEF v
  <2>5. req'[r] = v /\ contended' = contended
    BY <1>0, <2>1 DEF TypeOK, shadows
  <2>6. AloneWithUser' /\ AloneOnPending'
    BY <1>0, <2>1, <2>3, <2>5, StillAlone
  <2>8. AttemptHolds(r)'
    BY <1>0, <2>1, <2>3, <2>5
    DEF AttemptHolds, AttemptOps, IssuedFor, Provided, tables, shadows
  <2> QED BY <1>0, <2>1, <2>3, <2>5, <2>6, <2>8, QuietStep DEF tables, shadows
<1>10. CASE Refuse(r)
  <2>1. /\ w.op \in {"rejected", "failed", "accepted"} /\ (w.op = "accepted" => w.hash = NoUser)
        /\ Finish(r) /\ UNCHANGED <<tables, shadows>>
    BY <1>10 DEF Refuse
  <2>2. /\ req' = [req EXCEPT ![r] = Idle] /\ AloneWithUser' /\ AloneOnPending' /\ AttemptHolds(r)'
    BY <1>f, <2>1 DEF shadows
  <2>3. w.op = "accepted" => u \in contended \/ users[u] = NoUser
    BY <1>0, <2>1 DEF AttemptHolds
  <2> QED BY <1>0, <2>1, <2>2, <2>3, QuietStep DEF tables, shadows
<1>11. ASSUME NEW granted \in SUBSET Scope, ReadConsent(r, granted)
       PROVE  LoginIInv'
  <2> DEFINE k == ConsentKey(r)
  <2> DEFINE v == [w EXCEPT !.op = "consenting", !.scopes = granted, !.consent = consents[k]]
  <2>1. /\ w.op = "verified" /\ UNCHANGED <<tables, shadows>> /\ req' = [req EXCEPT ![r] = v]
    BY <1>11, Zenon DEF ReadConsent
  <2>2. w \in Attempt
    BY <1>0, <2>1, StateFacts DEF AttemptOps
  <2>3. /\ v.op = "consenting" /\ v.id = w.id /\ v.user = u /\ v.secret = w.secret
        /\ v.hash = w.hash /\ v.client = w.client /\ v.consent = consents[k]
    BY <2>2 DEF Attempt
  <2> HIDE DEF v
  <2>5. req'[r] = v /\ contended' = contended /\ k = <<u, w.client>>
    BY <1>0, <2>1 DEF TypeOK, shadows, ConsentKey
  <2>6. AloneWithUser' /\ AloneOnPending'
    BY <1>0, <2>1, <2>3, <2>5, StillAlone
  <2>8. AttemptHolds(r)'
    BY <1>0, <2>1, <2>3, <2>5
    DEF AttemptHolds, AttemptOps, IssuedFor, Provided, tables, shadows
  <2> QED BY <1>0, <2>1, <2>3, <2>5, <2>6, <2>8, QuietStep DEF tables, shadows
<1>12. CASE IssueCode(r)
  <2> DEFINE c == w.client
  <2> DEFINE new == [pending |-> w.id, user |-> u, client |-> c, scopes |-> w.scopes]
  <2> DEFINE v == [op |-> "issued", id |-> w.id, user |-> u]
  <2> DEFINE now == Granted(w.consent, w.scopes)
  <2>1. /\ w.op = "consenting" /\ (w.consent = Unissued => consents[<<u, c>>] = Unissued)
        /\ users' = [users EXCEPT ![u] = w.hash]
        /\ consents' = [consents EXCEPT ![<<u, c>>] = now]
        /\ codes' = Append(codes, new)
        /\ req' = [req EXCEPT ![r] = v]
        /\ UNCHANGED <<pendings, roles, shadows>>
    BY <1>12 DEF IssueCode, ConsentKey
  <2>2. w \in Attempt
    BY <1>0, <2>1, StateFacts DEF AttemptOps
  <2>3. /\ u \in User /\ c \in Client /\ w.id \in Pending
        /\ w.scopes \in SUBSET Scope /\ w.consent \in (SUBSET Scope) \cup {Unissued}
    BY <2>2 DEF Attempt
  <2>4. /\ users'[u] = w.hash /\ consents'[<<u, c>>] = now
        /\ \A y \in User \ {u} : users'[y] = users[y]
        /\ \A y \in User \ {u} : \A d \in Client : consents'[<<y, d>>] = consents[<<y, d>>]
        /\ \A d \in Client \ {c} : consents'[<<u, d>>] = consents[<<u, d>>]
    BY <1>0, <2>1, <2>3 DEF TypeOK
  <2>5. /\ v.op = "issued" /\ v.id = w.id /\ v.user = u
        /\ new.pending = w.id /\ new.user = u /\ new.client = c /\ new.scopes = w.scopes
    OBVIOUS
  <2> HIDE DEF v, new
  <2>6. req'[r] = v /\ UNCHANGED <<accepted, contended, partial, Provided>>
    BY <1>0, <2>1 DEF TypeOK, shadows, Provided
  <2>7. /\ Len(codes)' = Len(codes) + 1 /\ Len(codes) \in Nat
        /\ codes'[Len(codes) + 1] = new
        /\ \A i \in 1 .. Len(codes) : codes'[i] = codes[i]
    BY <1>0, <2>1 DEF TypeOK
  <2>8. AloneWithUser' /\ AloneOnPending'
    BY <1>0, <2>1, <2>5, <2>6, StillAlone
  <2>9. AttemptHolds(r)'
    BY <2>5, <2>6 DEF AttemptHolds, AttemptOps
  <2>10. SamePending(r, w.id) => w.id \in contended
    BY <1>0, <2>1 DEF SamePending, AloneOnPending
  <2>11. \A p \in Pending : IssuedFor(p)' => IssuedFor(p) \/ p = w.id
    BY <2>5, <2>7 DEF IssuedFor
  <2>12. \A q \in Request \ {r} : AttemptHolds(q)'
    <3>1. \A y \in User :
            \/ /\ users'[y] = users[y] /\ accepted'[y] = accepted[y]
               /\ \A d \in Client : consents'[<<y, d>>] = consents[<<y, d>>]
            \/ Meets(r, y) \subseteq contended'
      BY <1>m, <2>1, <2>4, <2>6
    <3>2. \A p \in Pending : IssuedFor(p)' =>
                IssuedFor(p) \/ (SamePending(r, p) => p \in contended')
      BY <2>6, <2>10, <2>11
    <3> QED BY <2>1, <2>6, <3>1, <3>2, OthersHold
  <2>13. u \in Provided /\ (u \in contended \/ w.hash = accepted[u])
         /\ (u \in contended \/ w.consent = consents[<<u, c>>])
         /\ (IssuedFor(w.id) => w.id \in contended)
    BY <1>0, <2>1 DEF AttemptHolds, AttemptOps
  <2>14. \A y \in User : AccountHolds(y)'
    <3>1. ASSUME NEW y \in User, y = u PROVE AccountHolds(y)'
      BY <2>4, <2>6, <2>13, <3>1 DEF AccountHolds
    <3>2. \A y \in User : (users'[y] = users[y] /\ accepted'[y] = accepted[y]) \/ AccountHolds(y)'
      BY <2>4, <2>6, <3>1
    <3> QED BY <2>1, <2>4, <2>6, <2>13, <3>2, AccountsHold
  <2>15. now # Unissued /\ w.scopes \subseteq now /\ now \in SUBSET Scope
    BY <2>3 DEF Granted, LoginAssumption
  <2>16. ASSUME NEW i \in 1 .. Len(codes)' PROVE CodeHolds(codes[i])'
    <3>1. ASSUME NEW x, x = new PROVE CodeHolds(x)'
      <4>1. x.pending = w.id /\ x.user = u /\ x.client = c /\ x.scopes = w.scopes
        BY <2>5, <3>1
      <4>2. req'[r].op = "issued" /\ req'[r].id = x.pending
        BY <2>5, <2>6, <4>1
      <4>3. x.user \in Provided' /\ consents'[<<x.user, x.client>>] = now
        BY <2>4, <2>6, <2>13, <4>1
      <4> QED BY <2>15, <4>1, <4>2, <4>3 DEF CodeHolds
    <3>2. ASSUME NEW old \in Code, CodeHolds(old) PROVE CodeHolds(old)'
      <4>2. old.user \in User /\ old.client \in Client
        BY <3>2 DEF Code
      <4>3. \/ old.pending \in contended' \/ pendings'[old.pending] = Deleted
            \/ \E q \in Request : req'[q].op = "issued" /\ req'[q].id = old.pending
        <5>1. \A q \in Request \ {r} : req'[q] = req[q]
          BY <1>0, <2>1 DEF TypeOK
        <5> QED BY <2>1, <2>6, <3>2, <5>1 DEF CodeHolds
      <4>4. \/ old.user \in contended'
            \/ /\ consents'[<<old.user, old.client>>] # Unissued
               /\ old.scopes \subseteq consents'[<<old.user, old.client>>]
        <5>1. CASE old.user = u /\ old.client = c
          <6>1. \/ u \in contended
                \/ consents[<<u, c>>] # Unissued /\ old.scopes \subseteq consents[<<u, c>>]
            BY <3>2, <5>1 DEF CodeHolds
          <6>2. \/ u \in contended
                \/ w.consent # Unissued /\ old.scopes \subseteq w.consent
            BY <2>13, <6>1
          <6>3. u \in contended \/ old.scopes \subseteq now
            BY <6>2 DEF Granted
          <6> QED BY <2>4, <2>6, <2>15, <5>1, <6>3
        <5>2. CASE ~(old.user = u /\ old.client = c)
          BY <2>4, <2>6, <3>2, <4>2, <5>2 DEF CodeHolds
        <5> QED BY <5>1, <5>2
      <4>5. old.user \in Provided'
        BY <2>6, <3>2 DEF CodeHolds
      <4> QED BY <4>3, <4>4, <4>5 DEF CodeHolds
    <3>3. \A x : x = new => CodeHolds(x)'
      BY <3>1
    <3>4. \A x \in Code : CodeHolds(x) => CodeHolds(x)'
      BY <3>2
    <3>5. ASSUME NEW x, x = codes'[i] PROVE CodeHolds(x)'
      <4>1. CASE i = Len(codes) + 1
        BY <2>7, <3>3, <3>5, <4>1
      <4>2. CASE i \in 1 .. Len(codes)
        <5>1. x = codes[i] /\ codes[i] \in Code /\ CodeHolds(codes[i])
          BY <1>0, <2>7, <3>5, <4>2 DEF LoginIInv, TypeOK
        <5> QED BY <3>4, <5>1
      <4> QED BY <2>7, <4>1, <4>2
    <3> QED BY <3>5 DEF CodeHolds
  <2>17. OneCodePerRequest'
    <3> SUFFICES ASSUME NEW i \in 1 .. Len(codes)', NEW j \in 1 .. Len(codes)',
                        i # j, codes'[i].pending = codes'[j].pending
                 PROVE  codes'[i].pending \in contended'
      BY DEF OneCodePerRequest
    <3>1. CASE i \in 1 .. Len(codes) /\ j \in 1 .. Len(codes)
      BY <2>6, <2>7, <3>1 DEF LoginIInv, OneCodePerRequest
    <3>2. CASE i = Len(codes) + 1 /\ j \in 1 .. Len(codes)
      BY <2>5, <2>6, <2>7, <2>13, <3>2 DEF IssuedFor
    <3>3. CASE j = Len(codes) + 1 /\ i \in 1 .. Len(codes)
      BY <2>5, <2>6, <2>7, <2>13, <3>3 DEF IssuedFor
    <3> QED BY <2>7, <3>1, <3>2, <3>3
  <2> QED BY <2>8, <2>9, <2>12, <2>14, <2>16, <2>17 DEF LoginIInv
<1>13. CASE DropPending(r)
  <2>1. /\ w.op = "issued" /\ pendings' = [pendings EXCEPT ![w.id] = Deleted] /\ Finish(r)
        /\ UNCHANGED <<users, roles, consents, codes, shadows>>
    BY <1>13 DEF DropPending
  <2>2. /\ req' = [req EXCEPT ![r] = Idle] /\ AloneWithUser' /\ AloneOnPending' /\ AttemptHolds(r)'
    BY <1>f, <2>1 DEF shadows
  <2>3. w.id \in Pending
    BY <1>0, <2>1, StateFacts
  <2>4. /\ pendings'[w.id] = Deleted
        /\ \A p \in Pending : pendings[p] = Deleted => pendings'[p] = Deleted
    BY <1>0, <2>1, <2>3 DEF TypeOK
  <2>5. UNCHANGED <<accepted, contended, partial, Provided>>
    BY <2>1 DEF shadows, Provided
  <2>6. \A p : IssuedFor(p)' => IssuedFor(p)
    BY <2>1 DEF IssuedFor
  <2>7. \A q \in Request \ {r} : AttemptHolds(q)'
    BY <2>1, <2>2, <2>5, <2>6, OthersHold
  <2>8. \A y \in User : AccountHolds(y)'
    BY <2>1, <2>2, <2>5, AccountsHold
  <2>9. (\A i \in 1 .. Len(codes)' : CodeHolds(codes[i])') /\ OneCodePerRequest'
    BY <2>1, <2>2, <2>4, <2>5, CodesHold
  <2> QED BY <2>2, <2>7, <2>8, <2>9 DEF LoginIInv
<1>14. CASE GiveUpLogin(r)
  <2>1. /\ Finish(r) /\ UNCHANGED <<tables, accepted>>
        /\ partial' = IF w.op \in {"registered", "provisioned"} THEN partial \cup {u} ELSE partial
        /\ contended' = contended
                \cup (IF w.op = "issued" THEN {w.id} ELSE {})
                \cup (IF w.op \in {"accepted", "verified", "consenting"} THEN {u} ELSE {})
    BY <1>14 DEF GiveUpLogin
  <2>2. contended \subseteq contended' /\ Provided \subseteq Provided'
    BY <2>1 DEF Provided, tables
  <2>3. /\ req' = [req EXCEPT ![r] = Idle] /\ AloneWithUser' /\ AloneOnPending' /\ AttemptHolds(r)'
    BY <1>f, <2>1, <2>2
  <2>4. w.op \in {"registered", "provisioned"} => u \in Provided'
    BY <2>1 DEF Provided
  <2>5. /\ w.op = "issued" => w.id \in contended'
        /\ w.op \in {"accepted", "verified", "consenting"} => u \in contended'
    BY <2>1
  <2>6. \A p : IssuedFor(p)' => IssuedFor(p)
    BY <2>1 DEF IssuedFor, tables
  <2>7. \A q \in Request \ {r} : AttemptHolds(q)'
    BY <2>1, <2>2, <2>3, <2>6, OthersHold DEF tables
  <2>8. \A y \in User : AccountHolds(y)'
    BY <2>1, <2>2, <2>3, <2>4, <2>5, AccountsHold DEF tables
  <2>9. (\A i \in 1 .. Len(codes)' : CodeHolds(codes[i])') /\ OneCodePerRequest'
    BY <2>1, <2>2, <2>3, <2>5, CodesHold DEF tables
  <2> QED BY <2>3, <2>7, <2>8, <2>9 DEF LoginIInv
<1> QED
  BY <1>1, <1>2, <1>3, <1>4, <1>5, <1>6, <1>7, <1>8, <1>9, <1>10, <1>11, <1>12,
     <1>13, <1>14 DEF LoginStep

\* So does every step of the pending requests and of the administration.
LEMMA PendingInvStep ==
    ASSUME LoginIInv, TypeOK', LoginAssumption,
           \/ PendingStep
           \/ \E x \in Provider, row \in AdminRows : ProviderChange(x, row)
           \/ UNCHANGED loginVars
    PROVE  LoginIInv'
<1>1. /\ UNCHANGED <<users, roles, consents, codes, req, accepted, contended, partial>>
      /\ \A p \in Pending : pendings[p] = Deleted => pendings'[p] = Deleted
  <2>1. ASSUME PendingStep
        PROVE  /\ UNCHANGED <<users, roles, consents, codes, req, accepted, contended, partial>>
               /\ \A p \in Pending : pendings[p] = Deleted => pendings'[p] = Deleted
    <3>1. Unissued # Deleted
      BY RowsAssumption
    <3> QED
      BY <2>1, <3>1 DEF PendingStep, Initiate, Expire, GetExpired, Cleanup, Expired, Stored,
                        LoginIInv, TypeOK, shadows
  <2>2. ASSUME NEW x \in Provider, NEW row \in AdminRows, ProviderChange(x, row)
        PROVE  UNCHANGED loginVars
    BY <2>2 DEF ProviderChange
  <2> QED BY <2>1, <2>2 DEF loginVars
<1>2. AloneWithUser' /\ AloneOnPending' /\ OneCodePerRequest'
  BY <1>1 DEF LoginIInv, AloneWithUser, AloneOnPending, OneCodePerRequest
<1>3. \A r \in Request : AttemptHolds(r)'
  BY <1>1 DEF LoginIInv, AttemptHolds, IssuedFor, Provided
<1>4. \A u \in User : AccountHolds(u)'
  BY <1>1 DEF LoginIInv, AccountHolds, Provided
<1>5. ASSUME NEW i \in 1 .. Len(codes)' PROVE CodeHolds(codes[i])'
  <2>1. codes[i] \in Code /\ CodeHolds(codes[i])
    BY <1>1 DEF LoginIInv, TypeOK
  <2>2. codes[i].pending \in Pending
    BY <2>1 DEF Code
  <2> QED BY <1>1, <2>1, <2>2 DEF CodeHolds, Provided
<1> QED BY <1>2, <1>3, <1>4, <1>5 DEF LoginIInv

\* Every step keeps the invariant.
LEMMA LoginInvariantStep == LoginIInv /\ [Next]_vars => LoginIInv'
<1> SUFFICES ASSUME LoginIInv, [Next]_vars
             PROVE  LoginIInv'
  OBVIOUS
<1>1. TypeOK'
  BY TypeStep DEF LoginIInv
<1>2. CASE \E r \in Request : LoginStep(r)
  BY <1>1, <1>2, LoginInvStep, LoginAssumption
<1>3. CASE ~ \E r \in Request : LoginStep(r)
  BY <1>1, <1>3, PendingInvStep, LoginAssumption DEF Next, vars
<1> QED BY <1>2, <1>3

\* It holds at the start.
LEMMA LoginInitial == Init => LoginIInv
<1> SUFFICES ASSUME Init PROVE LoginIInv
  OBVIOUS
<1>1. \A r \in Request : req[r] = Idle /\ Idle.op = "idle"
  BY DEF Init, Idle
<1>2. codes = << >> /\ Len(codes) = 0
  BY DEF Init
<1>3. TypeOK
  BY <1>2, IdleIsState, LoginAssumption DEF Init, TypeOK
<1>4. \A u \in User : AccountHolds(u)
  BY DEF Init, AccountHolds
<1> QED
  BY <1>1, <1>2, <1>3, <1>4
  DEF LoginIInv, AloneWithUser, AloneOnPending, AttemptHolds, AttemptOps, OneCodePerRequest

\* Rows, codes and attempts keep their types, whatever overlaps.
THEOREM LoginTypeCorrect == Spec => []TypeOK
BY LoginInitial, TypeStep, PTL DEF Spec, LoginIInv

\* Whatever overlaps, a pending request is good for one code, the consent covers
\* the scopes of the codes, and who got one has the default roles, up to the
\* overlaps that the history remembers (authorize.service.ts:310-312, :513-565).
THEOREM EveryCodeIsBacked == Spec => []CodeIsBacked
<1>1. LoginIInv => CodeIsBacked
  <2> SUFFICES ASSUME LoginIInv PROVE CodeIsBacked
    OBVIOUS
  <2>1. \A i \in 1 .. Len(codes) : CodeHolds(codes[i])
    BY DEF LoginIInv
  <2> QED BY <2>1 DEF LoginIInv, CodeIsBacked, ConsentCovers, SignedInWithRoles, CodeHolds, Provided
<1> QED BY <1>1, LoginInitial, LoginInvariantStep, PTL DEF Spec

\* The local password that lets a user in when the provider fails is the one
\* found right last (authorize.service.ts:352-395, :440), up to the same overlaps.
THEOREM FallbackStaysCurrent == Spec => FallbackIsCurrent
<1>1. LoginIInv /\ [Next]_vars =>
        [\A r \in Request : IssueCode(r) /\ req[r].via = "fallback" =>
            \/ req[r].secret = accepted[req[r].user]
            \/ req[r].user \in contended]_vars
  BY DEF LoginIInv, AttemptHolds, IssueCode
<1> QED BY <1>1, LoginInitial, LoginInvariantStep, PTL DEF Spec, FallbackIsCurrent
=============================================================================
