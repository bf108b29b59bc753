------------------------------- MODULE Login -------------------------------
(***************************************************************************)
(* From an authorization request to a code: the pending request, the       *)
(* choice between an external provider and the local password, just in     *)
(* time provisioning, consent, and the code.                               *)
(*                                                                         *)
(* Status and lockout of an account are in UserAccount, what becomes of a  *)
(* code in TokenService.  Here a user is a password hash and the roles he  *)
(* is given when the account is made.                                      *)
(***************************************************************************)
EXTENDS ProviderChoice, Sequences

CONSTANTS
    Request,    \* slots for logins and registrations in flight
    Pending,    \* ids of pending requests
    User,       \* e-mail addresses
    Password,
    Scope,
    DomainOf,   \* DomainOf[u]: the domain of an address
    Allowed,    \* Allowed[c]: the scopes registered for client c
    Asked,      \* bound: the scopes that authorization requests ask for
    MaxCodes,   \* bound on the codes issued
    AdminRows,  \* bound: the settings administrators save
    NoUser      \* no row

\* expired: the ten minutes of the row are over.
PendingRow == [client : Client, scopes : SUBSET Scope, expired : BOOLEAN]

Via == {"local", "external", "fallback"}

ASSUME LoginAssumption ==
    /\ DomainOf \in [User -> Domain]
    /\ Allowed \in [Client -> SUBSET Scope]
    /\ Asked \subseteq SUBSET Scope /\ AdminRows \subseteq Row
    /\ MaxCodes \in Nat
    /\ NoUser \notin Password
    /\ {Unissued, Deleted} \cap PendingRow = {} /\ \A S \in SUBSET Scope : Unissued # S

VARIABLES
    pendings,   \* table pending_oauth_requests
    users,      \* users[u]: the local password (its hash), or NoUser
    roles,      \* users whose default roles have been assigned
    consents,   \* table consents: scopes granted by u to c
    codes,      \* history of issuances, in order
    req,        \* local state of each login and registration
    \* History variables: written by the actions, never read by them.
    accepted,   \* accepted[u]: the password that was last found to be right
    contended,  \* pending requests and users that two handlers worked on at
                \* once, or that a handler left halfway
    partial     \* users whose creation ended before the roles were assigned

loginVars == <<pendings, users, roles, consents, codes, req,
               accepted, contended, partial>>
vars == <<loginVars, providers>>

Code == [pending : Pending, user : User, client : Client,
         scopes : SUBSET Scope]

Idle == [op |-> "idle"]

\* A login in flight carries what it has read (the pending request, the
\* password of the loaded user, whether the provider provisions), then how the
\* password was found right, then the scopes granted and the consent.
Attempt ==
    [op : {"calling", "accepted", "rejected", "failed", "provisioned",
           "verified", "consenting"},
     id : Pending, client : Client, scopes : SUBSET Scope, user : User,
     secret : Password, hash : Password \cup {NoUser}, jit : BOOLEAN, via : Via,
     consent : (SUBSET Scope) \cup {Unissued}]

ReqState == {Idle} \cup Attempt \cup [op : {"registered"}, user : User]
            \cup [op : {"issued"}, id : Pending, user : User]

TypeOK ==
    /\ providers \in [Provider -> Row \cup {Unissued}]
    /\ pendings \in [Pending -> PendingRow \cup {Unissued, Deleted}]
    /\ users \in [User -> Password \cup {NoUser}]
    /\ roles \subseteq User /\ partial \subseteq User
    /\ consents \in [User \X Client -> (SUBSET Scope) \cup {Unissued}]
    /\ codes \in Seq(Code)
    /\ req \in [Request -> ReqState]
    /\ accepted \in [User -> Password \cup {NoUser}]
    /\ contended \subseteq Pending \cup User

Init ==
    /\ providers = [x \in Provider |-> Unissued]
    /\ pendings = [p \in Pending |-> Unissued]
    /\ users = [u \in User |-> NoUser]
    /\ roles = {} /\ partial = {}
    /\ consents = [k \in User \X Client |-> Unissued]
    /\ codes = << >>
    /\ req = [r \in Request |-> Idle]
    /\ accepted = [u \in User |-> NoUser]
    /\ contended = {}

----------------------------------------------------------------------------
(***************************************************************************)
(* Helpers.                                                                *)
(***************************************************************************)
Stored(p) == pendings[p] \notin {Unissued, Deleted}

\* Both the store and the cleanup compare expires_at < now.
Expired(p) == Stored(p) /\ pendings[p].expired

Goto(r, op) == req' = [req EXCEPT ![r].op = op]

Finish(r) == req' = [req EXCEPT ![r] = Idle]

SameUser(r, u) ==
    \E q \in Request \ {r} : req[q].op # "idle" /\ req[q].user = u

SamePending(r, p) ==
    \E q \in Request \ {r} :
        req[q].op \notin {"idle", "registered"} /\ req[q].id = p

Meets(r, u) == IF SameUser(r, u) THEN {u} ELSE {}

tables == <<pendings, users, roles, consents, codes>>
shadows == <<accepted, contended, partial>>

----------------------------------------------------------------------------
(***************************************************************************)
(* Pending requests.                                                       *)
(***************************************************************************)

\* initiateAuthorize: the scopes asked for are among those of the client.
Initiate(p, c, S) ==
    /\ pendings[p] = Unissued
    /\ S \subseteq Allowed[c]
    /\ pendings' = [pendings EXCEPT ![p] =
            [client |-> c, scopes |-> S, expired |-> FALSE]]
    /\ UNCHANGED <<users, roles, consents, codes, req, shadows>>

\* Time passes.
Expire(p) ==
    /\ Stored(p)
    /\ pendings' = [pendings EXCEPT ![p].expired = TRUE]
    /\ UNCHANGED <<users, roles, consents, codes, req, shadows>>

\* A request that is asked for after its time is deleted on the way.
GetExpired(p) ==
    /\ Expired(p)
    /\ pendings' = [pendings EXCEPT ![p] = Deleted]
    /\ UNCHANGED <<users, roles, consents, codes, req, shadows>>

\* Every five minutes, one DELETE.
Cleanup ==
    /\ \E p \in Pending : Expired(p)
    /\ pendings' = [p \in Pending |-> IF Expired(p) THEN Deleted ELSE pendings[p]]
    /\ UNCHANGED <<users, roles, consents, codes, req, shadows>>

----------------------------------------------------------------------------
(***************************************************************************)
(* Registration: the user is stored first, the roles follow.  A second     *)
(* account with the same address is refused by a unique index.             *)
(***************************************************************************)
Insert(r, u, pw, state) ==
    /\ users[u] = NoUser
    /\ users' = [users EXCEPT ![u] = pw]
    /\ req' = [req EXCEPT ![r] = state]

Register(r, u, pw) ==
    /\ req[r] = Idle
    /\ Insert(r, u, pw, [op |-> "registered", user |-> u])
    /\ accepted' = [accepted EXCEPT ![u] = pw]
    /\ contended' = contended \cup Meets(r, u)
    /\ UNCHANGED <<pendings, roles, consents, codes, partial>>

\* assignDefaultRolesToUser, after a registration or a provisioning.
AssignRoles(r) ==
    /\ \/ req[r].op = "registered" /\ Finish(r)
       \/ req[r].op = "provisioned" /\ Goto(r, "verified")
    /\ roles' = roles \cup {req[r].user}
    /\ UNCHANGED <<pendings, users, consents, codes, shadows>>

----------------------------------------------------------------------------
(***************************************************************************)
(* Login.                                                                  *)
(***************************************************************************)
NewAttempt(p, u, s) ==
    [op |-> "calling", id |-> p, client |-> pendings[p].client,
     scopes |-> pendings[p].scopes, user |-> u, secret |-> s,
     hash |-> users[u], jit |-> FALSE, via |-> "external", consent |-> Unissued]

\* Without a provider the password is compared with the loaded user's.
ReadLocal(p, u, s) ==
    /\ FindActive(pendings[p].client, DomainOf[u]) = {}
    /\ users[u] = s

LoginRead(r, p, u, s) ==
    /\ req[r] = Idle
    /\ Stored(p) /\ ~Expired(p)
    /\ \/ /\ ReadLocal(p, u, s)
          /\ req' = [req EXCEPT ![r] =
                [NewAttempt(p, u, s) EXCEPT !.op = "verified", !.via = "local"]]
       \/ \E x \in FindActive(pendings[p].client, DomainOf[u]) :
            req' = [req EXCEPT ![r] =
                [NewAttempt(p, u, s) EXCEPT !.jit = providers[x].jit]]
    /\ contended' = contended \cup Meets(r, u)
            \cup (IF SamePending(r, p) THEN {p} ELSE {})
    /\ UNCHANGED <<tables, accepted, partial>>

\* External: the provider takes the password, or it does not.
Accept(r) ==
    /\ req[r].op = "calling"
    /\ Goto(r, "accepted")
    /\ accepted' = [accepted EXCEPT ![req[r].user] = req[r].secret]
    /\ UNCHANGED <<tables, contended, partial>>

Reject(r) ==
    /\ req[r].op = "calling"
    /\ Goto(r, "rejected")
    /\ UNCHANGED <<tables, shadows>>

\* Timeout, connection error, status 5xx, or an answer that is no JSON.
Fail(r) ==
    /\ req[r].op = "calling"
    /\ Goto(r, "failed")
    /\ UNCHANGED <<tables, shadows>>

\* The local password decides when the provider has failed, never when it has
\* rejected.
MayFallBack(r) == req[r].op = "failed" /\ req[r].hash = req[r].secret

Fallback(r) ==
    /\ MayFallBack(r)
    /\ req' = [req EXCEPT ![r] = [@ EXCEPT !.op = "verified", !.via = "fallback"]]
    /\ UNCHANGED <<tables, shadows>>

\* jitProvisionUser.
Provision(r) ==
    /\ req[r].op = "accepted" /\ req[r].hash = NoUser /\ req[r].jit
    /\ Insert(r, req[r].user, req[r].secret,
            [req[r] EXCEPT !.op = "provisioned", !.hash = req[r].secret])
    /\ UNCHANGED <<pendings, roles, consents, codes, shadows>>

\* Mutant: the local password is left as it is.
SynchroniseNothing(r) ==
    /\ req[r].op = "accepted" /\ req[r].hash # NoUser
    /\ Goto(r, "verified")
    /\ UNCHANGED <<tables, shadows>>

\* The local password follows the provider's.
Synchronise(r) ==
    /\ req[r].op = "accepted" /\ req[r].hash # NoUser
    /\ req' = [req EXCEPT ![r] = [@ EXCEPT !.op = "verified", !.hash = req[r].secret]]
    /\ UNCHANGED <<tables, shadows>>

Refuse(r) ==
    /\ \/ req[r].op = "rejected"
       \/ req[r].op = "failed" /\ ~MayFallBack(r)
       \/ req[r].op = "accepted" /\ req[r].hash = NoUser /\ ~req[r].jit
    /\ Finish(r)
    /\ UNCHANGED <<tables, shadows>>

----------------------------------------------------------------------------
(***************************************************************************)
(* issueAuthCode.                                                          *)
(***************************************************************************)
ConsentKey(r) == <<req[r].user, req[r].client>>

\* Scopes beyond the pending request are refused (GiveUpLogin).
ReadConsent(r, granted) ==
    /\ req[r].op = "verified"
    /\ granted \subseteq req[r].scopes
    /\ req' = [req EXCEPT ![r] =
            [@ EXCEPT !.op = "consenting", !.scopes = granted,
                      !.consent = consents[ConsentKey(r)]]]
    /\ UNCHANGED <<tables, shadows>>

\* Mutant: the consent is overwritten.
GrantedAnew(old, new) == new

Granted(old, new) == IF old = Unissued THEN new ELSE old \cup new

\* The user is saved with it.  A consent that was not there when it was read is
\* inserted: the unique index refuses a second one.
IssueCode(r) ==
    /\ req[r].op = "consenting"
    /\ req[r].consent = Unissued => consents[ConsentKey(r)] = Unissued
    /\ Len(codes) < MaxCodes
    /\ users' = [users EXCEPT ![req[r].user] = req[r].hash]
    /\ consents' = [consents EXCEPT
            ![ConsentKey(r)] = Granted(req[r].consent, req[r].scopes)]
    /\ codes' = Append(codes,
            [pending |-> req[r].id, user |-> req[r].user,
             client |-> req[r].client, scopes |-> req[r].scopes])
    /\ req' = [req EXCEPT ![r] =
            [op |-> "issued", id |-> req[r].id, user |-> req[r].user]]
    /\ UNCHANGED <<pendings, roles, shadows>>

DropPending(r) ==
    /\ req[r].op = "issued"
    /\ pendings' = [pendings EXCEPT ![req[r].id] = Deleted]
    /\ Finish(r)
    /\ UNCHANGED <<users, roles, consents, codes, shadows>>

\* A guard, an error, a lost connection, a crash: the handler ends where it is
\* and what it has committed stays.
GiveUpLogin(r) ==
    /\ req[r] # Idle
    /\ Finish(r)
    /\ partial' = IF req[r].op \in {"registered", "provisioned"}
                  THEN partial \cup {req[r].user} ELSE partial
    /\ contended' = contended
            \cup (IF req[r].op = "issued" THEN {req[r].id} ELSE {})
            \cup (IF req[r].op \in {"accepted", "verified", "consenting"}
                  THEN {req[r].user} ELSE {})
    /\ UNCHANGED <<tables, accepted>>

----------------------------------------------------------------------------
(***************************************************************************)
(* The environment, and the next-state relation.                           *)
(***************************************************************************)
\* A committed change of the providers: Providers has the requests behind it.
ProviderChange(x, row) ==
    /\ providers' = [providers EXCEPT ![x] = row]
    /\ UNCHANGED loginVars

LoginStep(r) ==
    \/ \E u \in User, s \in Password : Register(r, u, s)
    \/ AssignRoles(r)
    \/ \E p \in Pending, u \in User, s \in Password : LoginRead(r, p, u, s)
    \/ Accept(r) \/ Reject(r) \/ Fail(r)
    \/ Fallback(r) \/ Provision(r) \/ Synchronise(r) \/ Refuse(r)
    \/ \E granted \in SUBSET Scope : ReadConsent(r, granted)
    \/ IssueCode(r) \/ DropPending(r) \/ GiveUpLogin(r)

PendingStep ==
    \/ \E p \in Pending, c \in Client, S \in Asked : Initiate(p, c, S)
    \/ \E p \in Pending : Expire(p) \/ GetExpired(p)
    \/ Cleanup

Next ==
    \/ /\ \/ \E r \in Request : LoginStep(r)
          \/ PendingStep
       /\ UNCHANGED providers
    \/ \E x \in Provider, row \in AdminRows : ProviderChange(x, row)

Spec == Init /\ [][Next]_vars

----------------------------------------------------------------------------
(***************************************************************************)
(* Properties.                                                             *)
(***************************************************************************)

OneCodePerRequest ==
    \A i, j \in 1 .. Len(codes) :
        i # j /\ codes[i].pending = codes[j].pending =>
            codes[i].pending \in contended

ConsentCovers ==
    \A i \in 1 .. Len(codes) :
        \/ codes[i].scopes \subseteq consents[<<codes[i].user, codes[i].client>>]
        \/ codes[i].user \in contended

SignedInWithRoles ==
    \A i \in 1 .. Len(codes) :
        codes[i].user \in roles \cup partial \cup contended

\* A pending request is good for one code (authorize.service.ts:310-312, :590),
\* unless two logins on it overlap or one ends between the transaction and the
\* deletion of the request.  What a user ever granted to a client stays in the
\* consent (:553-565): only logins of the same user that overlap can lose
\* scopes that a code already carries.  And whoever gets a code has been given
\* the default roles, although user and roles are stored in separate statements
\* (:217-239, :513-515), unless the creation broke off or the login overlaps it.
CodeIsBacked == OneCodePerRequest /\ ConsentCovers /\ SignedInWithRoles

\* When the provider fails, the local password that lets a user in is the one
\* found right last (authorize.service.ts:352-395, :440): an older one can
\* come back only through logins that overlap or end halfway.
FallbackIsCurrent ==
    [][\A r \in Request : IssueCode(r) /\ req[r].via = "fallback" =>
            \/ req[r].secret = accepted[req[r].user]
            \/ req[r].user \in contended]_vars

=============================================================================
