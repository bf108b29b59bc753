---------------------------- MODULE TokenService ----------------------------
(***************************************************************************)
(* The token endpoint and the revocation endpoint of one tenant, over the  *)
(* tables they share with the user service: authorization_codes,           *)
(* access_tokens, refresh_tokens and users.                                *)
(*                                                                         *)
(* Every HTTP request is a process.  A handler reads a row outside any     *)
(* transaction, awaits, and commits later in a READ COMMITTED transaction  *)
(* without testing again what it read, so the row it read is kept in the   *)
(* request's local state as a snapshot that may be stale at the commit.    *)
(* TypeORM's save of a loaded entity writes the snapshot back, and inserts *)
(* it again when the row is gone.                                          *)
(***************************************************************************)
EXTENDS Naturals, FiniteSets

CONSTANTS
    Request,        \* slots for requests in flight at the same time
    User, Client, Scope,
    Code,           \* authorization codes (random strings, never reused)
    TokenId,        \* one id per issuance: the jti of its access token and
                    \* the hash of its refresh token
    AllowedScopes,  \* AllowedScopes[c]: the scopes registered for client c
    CodeTtl, AccessTtl, RefreshTtl,
    MaxTime,        \* bound on the clock
    NoUser,         \* user_id of a client_credentials token (NULL)
    Unissued,       \* the id has not been drawn yet
    Deleted         \* the row was stored and has been deleted

CodeRow == [client : Client, user : User, scopes : SUBSET Scope,
            expires : Nat, used : BOOLEAN]

AccessRow == [client : Client, user : User \cup {NoUser},
              scopes : SUBSET Scope, expires : Nat, revoked : BOOLEAN]

\* A refresh token is minted with a family of its own, named after the token;
\* a rotation then puts it in the family of the token it replaces.
RefreshRow == [client : Client, user : User, family : TokenId,
               scopes : SUBSET Scope, expires : Nat, revoked : BOOLEAN]

\* What a login approved: for which user, to which client, with which scopes.
Grant == [client : Client, user : User, scopes : SUBSET Scope]

ASSUME TtlAssumption ==
    /\ CodeTtl \in Nat /\ AccessTtl \in Nat /\ RefreshTtl \in Nat
    /\ MaxTime \in Nat

ASSUME ClientAssumption == AllowedScopes \in [Client -> SUBSET Scope]

ASSUME RowAssumption ==
    /\ NoUser \notin User
    /\ Unissued # Deleted
    /\ \A v \in {Unissued, Deleted} :
           v \notin CodeRow /\ v \notin AccessRow /\ v \notin RefreshRow
    /\ Unissued \notin Grant
    /\ Unissued \notin Code

VARIABLES
    now,        \* the clock
    users,      \* ids stored in the users table
    clients,    \* clients whose status is ACTIVE
    codes,      \* authorization_codes
    access,     \* access_tokens
    refresh,    \* refresh_tokens
    req,        \* local state of each request
    \* History variables: written by the actions, never read by them.
    granted,    \* granted[c]: what the login that issued code c approved
    origin,     \* origin[k]: the code that token k descends from
    late,       \* tokens issued from a code or a refresh token that was no
                \* longer usable when the issuance committed, and the tokens
                \* rotated from those
    killed      \* families that a family-wide revocation has hit

tables == <<users, clients, codes, access, refresh>>
history == <<granted, origin, late, killed>>
vars == <<now, tables, req, history>>

(***************************************************************************)
(* Tables.                                                                 *)
(***************************************************************************)
Rows(table) == {i \in DOMAIN table : table[i] \notin {Unissued, Deleted}}

Live(table) == {i \in Rows(table) : ~table[i].revoked}

RowsOf(table, u) == {i \in Rows(table) : table[i].user = u}

\* Mutant: the token that started the family, and none rotated from it.
FamilyRootOnly(f) == {f} \cap Rows(refresh)

Family(f) == {k \in Rows(refresh) : refresh[k].family = f}

\* Mutants: the entity is saved as it was loaded.
UsedNotSet(row) == row
RevokedNotSet(row) == row

Used(row) == [row EXCEPT !.used = TRUE]

Revoked(row) == [row EXCEPT !.revoked = TRUE]

\* Mutant: the rotated token is saved as it was loaded.
RotatedNotSet(row) == row

\* The token that a rotation replaces, as it is saved.
Rotated(row) == Revoked(row)

\* UPDATE ... SET revoked = true on the rows with ids in ks.
RevokeRows(table, ks) ==
    [i \in DOMAIN table |->
        IF i \in ks /\ i \in Rows(table)
        THEN Revoked(table[i]) ELSE table[i]]

\* DELETE of the rows with ids in ks.
DeleteRows(table, ks) ==
    [i \in DOMAIN table |->
        IF i \in ks /\ i \in Rows(table) THEN Deleted ELSE table[i]]

NewAccess(c, u, S) ==
    [client |-> c, user |-> u, scopes |-> S,
     expires |-> now + AccessTtl, revoked |-> FALSE]

NewRefresh(c, u, S, f) ==
    [client |-> c, user |-> u, family |-> f, scopes |-> S,
     expires |-> now + RefreshTtl, revoked |-> FALSE]

(***************************************************************************)
(* Local states of a request.                                              *)
(***************************************************************************)
Idle == [op |-> "idle"]

ReqState ==
    [op : {"idle"}]
    \cup [op : {"login"}, user : User, client : Client, scopes : SUBSET Scope]
    \cup [op : {"redeem"}, client : Client, code : Code, row : CodeRow]
    \cup [op : {"rotate"}, client : Client, token : TokenId, row : RefreshRow,
          scopes : SUBSET Scope]
    \cup [op : {"client"}, client : Client, scopes : SUBSET Scope]
    \cup [op : {"family"}, family : TokenId]
    \cup [op : {"withdraw"}, user : User, known : SUBSET TokenId]
    \cup [op : {"withdrawAccess"}, user : User, known : SUBSET TokenId,
          reborn : BOOLEAN, access : SUBSET TokenId]
    \cup [op : {"withdrawRefresh"}, user : User, known : SUBSET TokenId,
          reborn : BOOLEAN, access : SUBSET TokenId, refresh : SUBSET TokenId]
    \cup [op : {"delete"}, user : User]
    \cup [op : {"deleteRows"}, user : User, access : SUBSET TokenId,
          refresh : SUBSET TokenId, codes : SUBSET Code]

TypeOK ==
    /\ now \in Nat
    /\ users \subseteq User
    /\ clients \subseteq Client
    /\ codes \in [Code -> CodeRow \cup {Unissued, Deleted}]
    /\ access \in [TokenId -> AccessRow \cup {Unissued, Deleted}]
    /\ refresh \in [TokenId -> RefreshRow \cup {Unissued, Deleted}]
    /\ req \in [Request -> ReqState]
    /\ granted \in [Code -> Grant \cup {Unissued}]
    /\ origin \in [TokenId -> Code \cup {Unissued}]
    /\ late \subseteq TokenId
    /\ killed \subseteq TokenId

Init ==
    /\ now = 0
    /\ users = User
    /\ clients = Client
    /\ codes = [c \in Code |-> Unissued]
    /\ access = [k \in TokenId |-> Unissued]
    /\ refresh = [k \in TokenId |-> Unissued]
    /\ req = [r \in Request |-> Idle]
    /\ granted = [c \in Code |-> Unissued]
    /\ origin = [k \in TokenId |-> Unissued]
    /\ late = {}
    /\ killed = {}

Start(r, state) == req[r] = Idle /\ req' = [req EXCEPT ![r] = state]

Advance(r, state) == req' = [req EXCEPT ![r] = state]

Finish(r) == req' = [req EXCEPT ![r] = Idle]

(***************************************************************************)
(* Login: the user row is read, the password is checked, and the code is   *)
(* stored in the transaction that saves the user row back.                 *)
(***************************************************************************)
\* Mutant: a login finds the user in spite of the deletion.
LoginReadOfDeleted(r, u, c, S) ==
    /\ Start(r, [op |-> "login", user |-> u, client |-> c, scopes |-> S])
    /\ UNCHANGED <<now, tables, history>>

LoginRead(r, u, c, S) ==
    /\ u \in users
    /\ Start(r, [op |-> "login", user |-> u, client |-> c, scopes |-> S])
    /\ UNCHANGED <<now, tables, history>>

IssueAuthCode(r, code) ==
    LET q == req[r] IN
    /\ q.op = "login"
    /\ codes[code] = Unissued
    /\ users' = users \cup {q.user}
    /\ codes' = [codes EXCEPT ![code] =
                    [client |-> q.client, user |-> q.user, scopes |-> q.scopes,
                     expires |-> now + CodeTtl, used |-> FALSE]]
    /\ granted' = [granted EXCEPT ![code] =
                    [client |-> q.client, user |-> q.user, scopes |-> q.scopes]]
    /\ Finish(r)
    /\ UNCHANGED <<now, clients, access, refresh, origin, late, killed>>

(***************************************************************************)
(* grant_type = authorization_code.  redirect_uri and the PKCE verifier    *)
(* are compared with the row in the same read and change nothing: only the *)
(* requests that present the right ones are followed.                      *)
(***************************************************************************)
RedeemRead(r, code, c) ==
    /\ c \in clients
    /\ code \in Rows(codes)
    /\ ~codes[code].used
    /\ now <= codes[code].expires
    /\ codes[code].client = c
    /\ Start(r, [op |-> "redeem", client |-> c, code |-> code,
                 row |-> codes[code]])
    /\ UNCHANGED <<now, tables, history>>

RedeemCommit(r, k) ==
    LET q == req[r]
        fresh == q.code \in Rows(codes) /\ ~codes[q.code].used
    IN
    /\ q.op = "redeem"
    /\ q.row.user \in users                   \* foreign keys on user_id
    /\ access[k] = Unissued /\ refresh[k] = Unissued
    /\ codes' = [codes EXCEPT ![q.code] = Used(q.row)]
    /\ access' = [access EXCEPT ![k] =
                    NewAccess(q.client, q.row.user, q.row.scopes)]
    /\ refresh' = [refresh EXCEPT ![k] =
                    NewRefresh(q.client, q.row.user, q.row.scopes, k)]
    /\ origin' = [origin EXCEPT ![k] = q.code]
    /\ late' = IF fresh THEN late ELSE late \cup {k}
    /\ Finish(r)
    /\ UNCHANGED <<now, users, clients, granted, killed>>

(***************************************************************************)
(* grant_type = refresh_token.                                             *)
(***************************************************************************)
\* The scopes of the new pair: the requested ones the old token carries.
\* Mutant: the requested scopes are not compared with the token's.
ScopesAsAsked(asked, row) == asked

NarrowScopes(asked, row) == asked \cap row.scopes

\* Mutant: expiry is not tested.
RotateReadExpired(r, k, c, asked) ==
    /\ c \in clients
    /\ k \in Live(refresh)
    /\ refresh[k].client = c
    /\ Start(r, [op |-> "rotate", client |-> c, token |-> k,
                 row |-> refresh[k],
                 scopes |-> NarrowScopes(asked, refresh[k])])
    /\ UNCHANGED <<now, tables, history>>

RotateRead(r, k, c, asked) ==
    /\ c \in clients
    /\ k \in Rows(refresh)
    /\ refresh[k].client = c
    /\ ~refresh[k].revoked
    /\ now <= refresh[k].expires
    /\ Start(r, [op |-> "rotate", client |-> c, token |-> k,
                 row |-> refresh[k],
                 scopes |-> NarrowScopes(asked, refresh[k])])
    /\ UNCHANGED <<now, tables, history>>

\* A revoked token is presented again: the handler goes on to revoke the
\* whole family, expired or not.
DetectReuse(r, k, c) ==
    /\ c \in clients
    /\ k \in Rows(refresh)
    /\ refresh[k].client = c
    /\ refresh[k].revoked
    /\ Start(r, [op |-> "family", family |-> refresh[k].family])
    /\ UNCHANGED <<now, tables, history>>

RotateCommit(r, k) ==
    LET q == req[r]
        fresh == q.token \in Live(refresh) /\ q.token \notin late
    IN
    /\ q.op = "rotate"
    /\ q.row.user \in users                   \* foreign keys on user_id
    /\ access[k] = Unissued /\ refresh[k] = Unissued
    /\ access' = [access EXCEPT ![k] =
                    NewAccess(q.client, q.row.user, q.scopes)]
    /\ refresh' = [refresh EXCEPT
                    ![q.token] = Rotated(q.row),
                    ![k] = NewRefresh(q.client, q.row.user, q.scopes,
                                      q.row.family)]
    /\ origin' = [origin EXCEPT ![k] = origin[q.token]]
    /\ late' = IF fresh THEN late ELSE late \cup {k}
    /\ Finish(r)
    /\ UNCHANGED <<now, users, clients, codes, granted, killed>>

(***************************************************************************)
(* grant_type = client_credentials: an access token without a user.        *)
(***************************************************************************)
ClientCredentialsRead(r, c, asked) ==
    /\ c \in clients
    /\ Start(r, [op |-> "client", client |-> c,
                 scopes |-> asked \cap AllowedScopes[c]])
    /\ UNCHANGED <<now, tables, history>>

ClientCredentialsCommit(r, k) ==
    LET q == req[r] IN
    /\ q.op = "client"
    /\ access[k] = Unissued /\ refresh[k] = Unissued
    /\ access' = [access EXCEPT ![k] = NewAccess(q.client, NoUser, q.scopes)]
    /\ Finish(r)
    /\ UNCHANGED <<now, users, clients, codes, refresh, history>>

(***************************************************************************)
(* POST /revoke.  Naming a client is optional, and the token need not be   *)
(* that client's.                                                          *)
(***************************************************************************)
RevokeRead(r, k) ==
    /\ k \in Rows(refresh)
    /\ Start(r, [op |-> "family", family |-> refresh[k].family])
    /\ UNCHANGED <<now, tables, history>>

\* The family-wide UPDATE that ends a detected reuse and a revocation.
RevokeFamily(r) ==
    LET q == req[r] IN
    /\ q.op = "family"
    /\ refresh' = RevokeRows(refresh, Family(q.family))
    /\ killed' = killed \cup {q.family}
    /\ Finish(r)
    /\ UNCHANGED <<now, users, clients, codes, access, granted, origin, late>>

RevokeAccess(k) ==
    /\ k \in Live(access)
    /\ access' = RevokeRows(access, {k})
    /\ UNCHANGED <<now, users, clients, codes, refresh, req, history>>

(***************************************************************************)
(* Withdrawal of all of a user's tokens, by a deactivation or a confirmed  *)
(* password reset: the user row is read; a transaction saves it back,      *)
(* updates access_tokens, updates refresh_tokens and commits.  Each UPDATE *)
(* sees the rows committed when it starts.                                 *)
(***************************************************************************)
WithdrawRead(r, u) ==
    /\ u \in users
    /\ Start(r, [op |-> "withdraw", user |-> u,
                 known |-> RowsOf(access, u) \cup RowsOf(refresh, u)])
    /\ UNCHANGED <<now, tables, history>>

\* The save of the user row locks it until the transaction ends.
UserRowFree(u) ==
    \A s \in Request :
        req[s].op \in {"withdrawAccess", "withdrawRefresh"} => req[s].user # u

WithdrawAccess(r) ==
    LET q == req[r] IN
    /\ q.op = "withdraw"
    /\ UserRowFree(q.user)
    /\ Advance(r, [op |-> "withdrawAccess", user |-> q.user, known |-> q.known,
                   reborn |-> q.user \notin users,
                   access |-> RowsOf(access, q.user)])
    /\ UNCHANGED <<now, tables, history>>

\* Mutant: the UPDATE of refresh_tokens is missing.
WithdrawAccessOnly(r) ==
    LET q == req[r] IN
    /\ q.op = "withdrawAccess"
    /\ Advance(r, [op |-> "withdrawRefresh", user |-> q.user,
                   known |-> q.known, reborn |-> q.reborn,
                   access |-> q.access, refresh |-> {}])
    /\ UNCHANGED <<now, tables, history>>

WithdrawRefresh(r) ==
    LET q == req[r] IN
    /\ q.op = "withdrawAccess"
    /\ Advance(r, [op |-> "withdrawRefresh", user |-> q.user,
                   known |-> q.known, reborn |-> q.reborn,
                   access |-> q.access,
                   refresh |-> RowsOf(refresh, q.user)])
    /\ UNCHANGED <<now, tables, history>>

WithdrawCommit(r) ==
    LET q == req[r] IN
    /\ q.op = "withdrawRefresh"
    /\ q.reborn => q.user \notin users        \* primary key of users
    /\ users' = IF q.reborn THEN users \cup {q.user} ELSE users
    /\ access' = RevokeRows(access, q.access)
    /\ refresh' = RevokeRows(refresh, q.refresh)
    /\ Finish(r)
    /\ UNCHANGED <<now, clients, codes, history>>

(***************************************************************************)
(* Deletion of a user.  The statements of the transaction empty the tables *)
(* that refer to the user, then delete the user; a row that was inserted   *)
(* in between makes the last statement fail on its foreign key.            *)
(***************************************************************************)
DeleteRead(r, u) ==
    /\ u \in users
    /\ Start(r, [op |-> "delete", user |-> u])
    /\ UNCHANGED <<now, tables, history>>

DeleteUserRows(r) ==
    LET q == req[r] IN
    /\ q.op = "delete"
    /\ Advance(r, [op |-> "deleteRows", user |-> q.user,
                   access |-> RowsOf(access, q.user),
                   refresh |-> RowsOf(refresh, q.user),
                   codes |-> RowsOf(codes, q.user)])
    /\ UNCHANGED <<now, tables, history>>

\* The foreign keys on user_id: the DELETE statements took every row.
ForeignKeys(q) ==
    /\ RowsOf(access, q.user) \subseteq q.access
    /\ RowsOf(refresh, q.user) \subseteq q.refresh
    /\ RowsOf(codes, q.user) \subseteq q.codes

DeleteCommit(r) ==
    LET q == req[r] IN
    /\ q.op = "deleteRows"
    /\ UserRowFree(q.user)
    /\ ForeignKeys(q)
    /\ users' = users \ {q.user}
    /\ access' = DeleteRows(access, q.access)
    /\ refresh' = DeleteRows(refresh, q.refresh)
    /\ codes' = DeleteRows(codes, q.codes)
    /\ Finish(r)
    /\ UNCHANGED <<now, clients, history>>

(***************************************************************************)
(* A request ends without committing: a statement fails (a foreign key, a  *)
(* lost connection) or the process crashes.  Nothing of it is kept.        *)
(***************************************************************************)
Abort(r) ==
    /\ req[r] # Idle
    /\ Finish(r)
    /\ UNCHANGED <<now, tables, history>>

SetClientStatus(c) ==
    /\ clients' = IF c \in clients THEN clients \ {c} ELSE clients \cup {c}
    /\ UNCHANGED <<now, users, codes, access, refresh, req, history>>

Tick ==
    /\ now < MaxTime
    /\ now' = now + 1
    /\ UNCHANGED <<tables, req, history>>

LoginStep(r) ==
    \/ \E u \in User, c \in Client, S \in SUBSET Scope : LoginRead(r, u, c, S)
    \/ \E code \in Code : IssueAuthCode(r, code)

TokenStep(r) ==
    \/ \E code \in Code, c \in Client : RedeemRead(r, code, c)
    \/ \E k \in TokenId : RedeemCommit(r, k)
    \/ \E k \in TokenId, c \in Client, asked \in SUBSET Scope :
           RotateRead(r, k, c, asked)
    \/ \E k \in TokenId, c \in Client : DetectReuse(r, k, c)
    \/ \E k \in TokenId : RotateCommit(r, k)
    \/ \E c \in Client, asked \in SUBSET Scope :
           ClientCredentialsRead(r, c, asked)
    \/ \E k \in TokenId : ClientCredentialsCommit(r, k)

RevokeStep(r) ==
    \/ \E k \in TokenId : RevokeRead(r, k)
    \/ RevokeFamily(r)

UserStep(r) ==
    \/ \E u \in User : WithdrawRead(r, u)
    \/ WithdrawAccess(r)
    \/ WithdrawRefresh(r)
    \/ WithdrawCommit(r)
    \/ \E u \in User : DeleteRead(r, u)
    \/ DeleteUserRows(r)
    \/ DeleteCommit(r)

Next ==
    \/ \E r \in Request :
           LoginStep(r) \/ TokenStep(r) \/ RevokeStep(r) \/ UserStep(r)
           \/ Abort(r)
    \/ \E k \in TokenId : RevokeAccess(k)
    \/ \E c \in Client : SetClientStatus(c)
    \/ Tick

Spec == Init /\ [][Next]_vars
-----------------------------------------------------------------------------
(***************************************************************************)
(* What the resource servers see: the verifier accepts a token that is     *)
(* stored, not revoked and not expired.                                    *)
(***************************************************************************)
Accepts(k) == k \in Live(access) /\ access[k].expires > now

(***************************************************************************)
(* Properties.                                                             *)
(***************************************************************************)
Within(row, c) ==
    /\ granted[c] # Unissued
    /\ row.client = granted[c].client
    /\ row.user = granted[c].user
    /\ row.scopes \subseteq granted[c].scopes

\* However often it is rotated, and whatever overlaps, a token acts for the
\* user and the client that the login behind it approved, with no scope the
\* login did not grant; every token of a family comes from one login.  A
\* client_credentials token carries registered scopes only.
Lineage ==
    /\ \A k \in Rows(refresh) :
           /\ origin[k] \in Code
           /\ Within(refresh[k], origin[k])
           /\ origin[refresh[k].family] = origin[k]
    /\ \A k \in Rows(access) :
           IF access[k].user = NoUser
           THEN access[k].scopes \subseteq AllowedScopes[access[k].client]
           ELSE origin[k] \in Code /\ Within(access[k], origin[k])

\* Marking the code and storing the tokens is one transaction: no code is
\* burnt without tokens, and no tokens leave their code redeemable.
CodeSpentWithTokens ==
    \A c \in Rows(codes) :
        codes[c].used <=> \E k \in TokenId : origin[k] = c

\* A login is worth one live refresh token at a time: two live tokens of one
\* login need an issuance that committed on a stale read.
OneLiveTokenPerLogin ==
    \A j, k \in Live(refresh) \ late : origin[j] = origin[k] => j = k

\* A family-wide revocation (a detected reuse, a logout) leaves nothing alive
\* in the family, then or later, but for issuances that committed on a stale
\* read and what is rotated from them.
RevokedFamilyOnlyLate ==
    \A k \in Live(refresh) : refresh[k].family \in killed => k \in late

\* Whatever a stale save writes back: a refresh token that was revoked or
\* deleted is never live again, an access token neither, and a code that was
\* used or deleted cannot be redeemed from the table again.
SpentStaysSpent ==
    [][/\ \A k \in TokenId :
              /\ refresh[k] # Unissued /\ k \notin Live(refresh)
                    => k \notin Live(refresh')
              /\ access[k] # Unissued /\ k \notin Live(access)
                    => k \notin Live(access')
       /\ \A c \in Code :
              codes[c] # Unissued /\ ~(c \in Rows(codes) /\ ~codes[c].used)
                    => ~(c \in Rows(codes') /\ ~codes'[c].used)]_vars

\* A session is over once every token of its family is revoked, expired or
\* deleted and no rotation of it is in flight.
SessionOver(f) ==
    /\ origin[f] # Unissued
    /\ \A k \in Live(refresh) : refresh[k].family = f => refresh[k].expires < now
    /\ \A r \in Request : req[r].op = "rotate" => req[r].row.family # f

\* Nothing a client presents, and no other session, brings a session back.
SessionEndIsFinal ==
    [][\A f \in TokenId : SessionOver(f) => SessionOver(f)']_vars

\* Deleting a user is all or nothing under every overlap: no stored code or
\* token refers to a user that is not stored.
NoOrphans ==
    /\ \A c \in Rows(codes) : codes[c].user \in users
    /\ \A k \in Rows(refresh) : refresh[k].user \in users
    /\ \A k \in Rows(access) : access[k].user \in users \cup {NoUser}

\* When a deactivation or a password reset commits, every token that was
\* stored when its handler read the user is dead.
WithdrawReachesBack ==
    [][\A r \in Request : WithdrawCommit(r) =>
          \A k \in req[r].known :
              k \notin Live(refresh') /\ ~Accepts(k)']_vars

(***************************************************************************)
(* Promises of the documents.  They hold when requests do not overlap.     *)
(***************************************************************************)
\* An authorization code is exchanged for tokens once
\* (docs/runbooks/spa-public-client-integration.md:125).
CodeIsOneTime ==
    \A j, k \in Rows(refresh) :
        origin[j] = origin[k] => refresh[j].family = refresh[k].family

\* Revoking a refresh token revokes every refresh token of its family
\* (docs/runbooks/spa-public-client-integration.md:226).
RevokedFamilyIsDead ==
    \A k \in Live(refresh) : refresh[k].family \notin killed

\* A deactivation revokes the user's active access and refresh tokens
\* (docs/requirements/2026-07-07-password-reset-and-withdrawal-requirements.md:55).
WithdrawLeavesNothing ==
    [][\A r \in Request : WithdrawCommit(r) =>
          \A k \in TokenId :
              /\ k \in Live(refresh') => refresh'[k].user # req[r].user
              /\ Accepts(k)' => access'[k].user # req[r].user]_vars

\* Deleting a user is a hard deletion: the account does not come back
\* (docs/requirements/2026-07-07-password-reset-and-withdrawal-requirements.md:59).
DeletedUserStaysDeleted == [][users' \subseteq users]_vars

(***************************************************************************)
(* What must not overlap for each promise to hold.                         *)
(***************************************************************************)
\* No two exchanges of one code are in flight.
ExchangesApart ==
    \A r, s \in Request :
        /\ req[r].op = "redeem" /\ req[s].op = "redeem"
        /\ req[r].code = req[s].code
        => r = s

\* No rotation in a family is in flight while the family is being revoked.
RevocationsApart ==
    \A r, s \in Request :
        req[r].op = "family" /\ req[s].op = "rotate"
            => req[s].row.family # req[r].family

\* No exchange or rotation for a user is in flight during the transaction that
\* withdraws the user's tokens.
WithdrawalsApart ==
    \A r, s \in Request :
        /\ req[r].op \in {"withdrawAccess", "withdrawRefresh"}
        /\ req[s].op \in {"redeem", "rotate"}
        => req[s].row.user # req[r].user

\* No login and no withdrawal of a user is in flight while the user is deleted.
DeletionsApart ==
    \A r, s \in Request :
        /\ req[r].op = "deleteRows"
        /\ req[s].op \in {"login", "withdraw", "withdrawAccess", "withdrawRefresh"}
        => req[s].user # req[r].user
-----------------------------------------------------------------------------
(***************************************************************************)
(* The inductive invariant behind the properties: what the identifiers and *)
(* the snapshots in flight have to do with the tables.                     *)
(***************************************************************************)
\* Codes are issued by logins, refresh tokens descend from codes.
Provenance ==
    /\ \A c \in Code :
           /\ codes[c] # Unissued <=> granted[c] # Unissued
           /\ c \in Rows(codes) => Within(codes[c], c)
    /\ \A k \in TokenId :
           /\ refresh[k] # Unissued <=> origin[k] # Unissued
           /\ origin[k] # Unissued =>
                  /\ access[k] # Unissued
                  /\ granted[origin[k]] # Unissued
                  /\ k \in Rows(access) => access[k].user # NoUser
    /\ \A f \in killed : origin[f] # Unissued

\* A stale snapshot is wrong about used and revoked only.
SnapshotOK(q) ==
    /\ q.op = "redeem" =>
           /\ codes[q.code] # Unissued
           /\ Within(q.row, q.code)
           /\ q.client = q.row.client
    /\ q.op = "rotate" =>
           /\ origin[q.token] \in Code
           /\ Within(q.row, origin[q.token])
           /\ origin[q.row.family] = origin[q.token]
           /\ q.token \in Rows(refresh) => refresh[q.token].family = q.row.family
           /\ q.client = q.row.client
           /\ q.scopes \subseteq q.row.scopes
    /\ q.op = "client" => q.scopes \subseteq AllowedScopes[q.client]
    /\ q.op = "family" => origin[q.family] # Unissued

\* Two requests that hold the same refresh token agree on its family.
SnapshotsAgree ==
    \A r, s \in Request :
        req[r].op = "rotate" /\ req[s].op = "rotate" /\ req[r].token = req[s].token
            => req[r].row.family = req[s].row.family

\* The tokens a withdrawal started from are the user's, and the statements
\* it has executed caught those of them that are still alive.
WithdrawalOK(q) ==
    /\ q.op \in {"withdraw", "withdrawAccess", "withdrawRefresh"} =>
           \A k \in q.known :
               origin[k] # Unissued /\ granted[origin[k]].user = q.user
    /\ q.op \in {"withdrawAccess", "withdrawRefresh"} =>
           \A k \in q.known : k \in Live(access) => k \in q.access
    /\ q.op = "withdrawRefresh" =>
           \A k \in q.known : k \in Live(refresh) => k \in q.refresh

Snapshots ==
    /\ \A r \in Request : SnapshotOK(req[r]) /\ WithdrawalOK(req[r])
    /\ SnapshotsAgree

IInv ==
    /\ TypeOK
    /\ Provenance
    /\ Snapshots
    /\ Lineage
    /\ CodeSpentWithTokens
    /\ OneLiveTokenPerLogin
    /\ RevokedFamilyOnlyLate
    /\ NoOrphans
=============================================================================
