# Formal models of authori

authori is a multi-tenant OAuth 2 / OpenID Connect server: a NestJS application
(`src/apps/api`) over PostgreSQL through TypeORM, with a Vue console
(`src/apps/web`) and example applications (`src/example`). This directory holds
TLA+ models of the three, TLC configurations that check them, and TLAPS proofs.

## 1. Inventory

### 1.1 How the server runs

Any number of stateless processes serve HTTP requests; all state is in the
database. A handler is a sequence of awaited steps. Most handlers of this code
have the same shape:

1. *read*: load rows with `findOne`, outside any transaction;
2. *decide*: test the loaded entities, hash a password, call a provider, ...;
3. *commit*: change the loaded entities and `save` them, alone or in a
   READ COMMITTED transaction, without testing again what was read.

Between 1 and 3 any other request may commit. TypeORM's `save` of a loaded
entity is itself two steps: it SELECTs the row again and compares, then UPDATEs
the columns in which the *entity* differed from the row it has just read, or
inserts the entity when the row is gone. A stale entity overwrites newer values
and revives deleted rows, and two saves that overlap can leave a mixture of
their columns. `update` and `delete` are single statements, which see the rows
committed when they start. These facts decide almost everything about the
server.

`UserAccount` and `Clients`, whose rows have several columns that belong together
and many writers, take both steps of a save. The other modules take one, because
the mixture cannot be told apart from a save that came earlier or later: in
`TokenService` a save changes one column of a code or a token, and only to TRUE;
`Login` stores one column of a user; roles, schemas and signing keys are saved with
one column changed, or are inserted. Administrators, tenants and providers have
several columns, and there a mixture can only arise where both saves are of rows
that were read before the other's commit: these rows are `late`, and their
properties leave them out, but for what a unique index decides.

The console has the same shape on the other side of the wire: a view copies rows
into refs, a form copies a row into fields, a tab copies the session out of the
storage it shares with other tabs; each goes on with its copy, and answers come
late, in another order, or never.

### 1.2 Components

| Component | State | Operations | What makes it correct | Module |
|---|---|---|---|---|
| Token endpoint (`oauth/token`) | access_tokens, refresh_tokens, `used` of a code | redeem a code, rotate a refresh token, client credentials | a code is worth one family; a family has one live token; tokens carry no more than the login granted; reuse kills the family | `TokenService`, `Session`, `TokenSession` |
| Revocation (`oauth/revoke`) | `revoked` of tokens | revoke a family, revoke an access token | nothing of the family lives on | `TokenService` |
| Verifier (`oauth/token-verifier`) | none | decide on a bearer token | accepts what is stored, not revoked, not expired | `TokenService` (row), `SigningKeys` (key) |
| Login (`oauth/authorize/authorize.service`) | pending_oauth_requests, authorization_codes, consents, lock counters of users | initiate, log in, issue a code, count a failure, register | one pending request yields one code; lockout after five failures; locked and inactive users stay out | `Login`, `UserAccount` |
| Password reset | password_reset_tokens, password | request, confirm | a token works once; old sessions end; the status is untouched | `UserAccount`, `TokenService` |
| Email verification | email_verification_tokens, status | issue, confirm | activates only accounts that wait for verification | `UserAccount` |
| Users (`users/users.service`) | users: status, deactivatedAt, pendingApprovalSince, approvalHeldAt | create, activate, hold, bulk, lock, unlock, update, deactivate, delete | the four meanings of INACTIVE stay apart; a withdrawal ends sessions; deletion is complete | `UserAccount`, `TokenService` |
| Deletion sweep | advisory lock | daily deletion of expired withdrawals | one sweep at a time; a reactivation cancels; every expired withdrawal is deleted in the end | `UserAccount` |
| Approval notification | advisory lock | notify at once, daily digest | whoever waits is announced in the end; one room's failure does not stop the others | `Digest` |
| External authentication | external_auth_providers | choose a provider, call it, fall back, provision; create, update, delete | at most one provider applies; rejection is final, failure falls back | `ProviderChoice`, `Providers`, `Login` |
| Signing keys (`oauth/keys`) | signing_keys | generate, retire, sign, verify | what was signed verifies | `SigningKeys` |
| Clients, scopes | oauth_clients, redirect URIs, tenant_scopes | create, update, deactivate, rotate the secret; create and delete a scope | the last secret works and no other, and a confidential client has one, unless requests overlapped | `Clients` |
| RBAC | roles, permissions, assignments | create, delete, replace a set, default roles, claims | a replacement leaves what was asked for; claims agree | `Rbac` |
| Tenants | tenants, settings | create, update, delete permanently | the platform decides the status; deletion leaves nothing that refers to the tenant | `Administration`, `TenantDeletion` |
| Profile schemas | versions | publish, deprecate | versions are distinct and gapless | `Schemas` |
| Admins (`admin/`) | admin_users, assignments | bootstrap, log in, create, update, assign, deactivate, guards | role and assignments fit; a stale token grants nothing new | `Administration` |
| Console: lists | refs of a view | load, search, filter, select, act | what is in sight is what the server holds | `ConsolePages` |
| Console: forms | fields of a form | open, fill, edit, save | nothing unseen is overwritten; one form creates one thing | `ConsoleForms`, `ConsoleSecret` |
| Console: session | storage, tabs, router | log in, log out, 401, navigate, switch the tenant | no view beyond one's rights; calls carry one's own token | `ConsoleSession` |
| Example applications | what they await, their tokens | log in, open a link, exchange, refresh, log out, restart | a code goes with its own verifier; tokens given up stay out | `RelyingParty` |
| Audit, mail, userinfo, discovery | — | — | nothing the rest depends on | — |

### 1.3 Interactions

`UsersService.deactivate`, `PasswordResetService.confirmReset`,
`UsersService.delete` and the sweep write the tables of the token endpoint; the
token endpoint never reads `users`. The login reads and saves back `users`,
inserts codes, and is the only source of sessions. The foreign keys from codes
and tokens to users (`InitialSchema`, all NO ACTION) are what stops a deletion
that overlaps an issuance, and a tenant's deletion too. Email verification,
external login, approval, hold, lock and the sweep all read and write
`users.status` and its markers. The settings of the providers change while logins
are on their way. A registration is announced and, by the daily run, announced
again. The console calls the administration; the example applications call login,
token endpoint and revocation.

The hazards of each component are listed with their lines in `PROJECT.json`.

## 2. Plan

| Module | Content | State |
|---|---|---|
| `TokenService` | codes, tokens, families, revocation, withdrawal, deletion | done, proved |
| `Session`, `TokenSession` | abstract sessions, and the refinement mapping | done, proved |
| `UserAccount` | status and markers with stale saves, registration, verification, login and lockout, reset tokens, approval, the deletion job and its liveness | done, proved |
| `Rows`, `Requests` | what the modules of the administration share: absent rows and fields, requests that read, await and commit | done |
| `ProviderChoice`, `Login` | pending requests, providers and fallback, provisioning, consent | done, proved |
| `Providers`, `Rbac`, `Clients`, `Schemas`, `SigningKeys`, `Administration` | what administrators manage, and the keys | done, proved |
| `TenantDeletion`, `Digest` | jobs and long transactions | done; proved but for liveness |
| `ConsolePages`, `ConsoleForms`, `ConsoleSecret`, `ConsoleSession` | the console | done; proved |
| `RelyingParty` | the example applications | done, proved |
| locks of rows | lock order of the transactions, deadlock | not planned: PostgreSQL detects a deadlock and aborts one transaction, which is `Abort` of the modules above |
| the forms' validation, the sample servers | | not planned: no state, or only calls passed on |

Composition. `Login` EXTENDS `ProviderChoice`, which `Providers` EXTENDS as well:
the rule that picks a provider is written once, under the administration that
writes the table and under the login that reads it. `TokenSession` EXTENDS
`TokenService` and instantiates `Session`. The modules of the administration
EXTEND `Requests`, so that an MC module can let them share the requests. What one
component does to another's tables is modelled in the module of the table:
withdrawal and deletion of users in `TokenService`, the two jobs in `UserAccount`
and `Digest`.

The MC modules `MCManagement`, `MCBackground` and `MCBrowser` check several
components in one run. A variable `part`, chosen by the initial state and never
changed, says which of them moves; the others stay in one initial state. So a run
explores the sum of the state spaces, never the product, and a behaviour of it is
a behaviour of one component.

Wherever a property holds only as long as nothing overlaps, the module has a
history variable that remembers the overlap (`late`, `stale`, `contended`,
`overtaken`, `crossed`, `overlapped`), and the property says what overlaps can
break and that nothing else does. History variables are marked as such; no guard
and no effect on the state of the code reads them.

## 3. `TokenService`

### 3.1 State

| Variable | Code |
|---|---|
| `codes`, `access`, `refresh` | tables authorization_codes, access_tokens, refresh_tokens of one tenant; `Unissued` before the row exists, `Deleted` after |
| `users` | ids in table users |
| `clients` | clients with status ACTIVE |
| `req[r]` | the local variables of a handler in flight: what it has read |
| `now` | `new Date()` |
| `granted`, `origin`, `late`, `killed` | history: what a login approved, which code a token descends from, which issuances committed on a stale read, which families were revoked as a whole. No action's guard or effect on the tables reads them |

An id of `TokenId` stands for one issuance: the `jti` of its access token and
the hash of its refresh token. A family is named after the token that started
it, as the comment in `refresh-token.entity.ts:39` puts it; the code draws a
random id instead, which is equally distinct.

### 3.2 Actions

Each handler is its read (`...Read`) and its commit. `RedeemRead` /
`RedeemCommit` are `handleAuthorizationCode`; `RotateRead` / `RotateCommit` and
`DetectReuse` / `RevokeFamily` are the two outcomes of `handleRefreshToken`;
`ClientCredentialsRead` / `Commit`; `RevokeRead` / `RevokeFamily` and
`RevokeAccess` are `RevokeService.revoke`. `WithdrawRead`, `WithdrawAccess`,
`WithdrawRefresh`, `WithdrawCommit` are the statements that
`UsersService.deactivate` and `confirmReset` share, `DeleteRead`,
`DeleteUserRows`, `DeleteCommit` those of `UsersService.delete`. `Abort` ends
any handler before its commit (foreign key, deadlock victim, lost connection,
crash): nothing it did is kept, since every multi-statement change is a
transaction.

The statements of a withdrawal are separate steps because each sees the rows
committed when it starts; the save of the user row locks it
(`UserRowFree`). The deletion's statements are one step: whatever is inserted
between them makes the last one fail on a foreign key (`ForeignKeys`).

### 3.3 What is abstracted

Client authentication, PKCE, `redirect_uri`, JWT contents, nonce and audit
records change no state the properties speak of: requests that would fail them
are not followed. One tenant: every query is by `tenantId`, with the exception
of the reuse UPDATE, by a random family id. The scopes registered for a client
are constant. Ids are never drawn twice.

## 4. What the runs of `TokenService` show

Safety only: no property of these runs is a liveness property and no fairness
is assumed. `CHECK_DEADLOCK` stays on: `SetClientStatus` is always possible.

Symmetry is over requests, codes and token ids, which the module only compares
for equality.

### 4.1 `TokenOverlap`

Two requests at once, one user and client, one code, three issuances, no scope,
one tick of the clock, after which everything with a time to live of 1 or less has
expired. One code and three issuances are the least with which a code is redeemed
twice and a token of it rotated, or a token rotated twice; a third request adds no
new overlap of a pair of commits. Once the clock has ticked two issuances are enough
(`MCBound`, a CONSTRAINT): whether the third one comes before the tick or after it,
what it descends from is decided by the two before it.

- `IInv`, the inductive invariant of the proofs; it contains `TypeOK`, `NoOrphans`
  (no row refers to a user that is gone) and `CodeSpentWithTokens` (the code is
  spent exactly when tokens were issued for it).
- `SpentStaysSpent`, `WithdrawReachesBack` hold under every overlap: stale saves
  only ever write `used` and `revoked` as TRUE, and a withdrawal reaches back to
  its own read.
- `OneLiveTokenPerLogin` and `RevokedFamilyOnlyLate` say exactly what overlaps
  can break: a second live token of a login, or a live token of a revoked
  family, stems from an issuance whose code or token was no longer usable when
  it committed (`late`).
- `KeepsPromise` is the refinement, section 4.4. It contains that the end of a
  session is final: once the tokens of a login are revoked, deleted or expired and
  no request on it is in flight, nothing a client presents revives it.

### 4.2 `TokenSerial`

Two requests at once, two clients, two scopes, one code, two issuances. Each promise
of the documents fails under one kind of overlap, and the module names it:

| Promise | What must not overlap |
|---|---|
| `CodeIsOneTime` | `ExchangesApart`: two exchanges of one code |
| `WithdrawLeavesNothing` | `WithdrawalsApart`: the transaction of a withdrawal with an exchange or a rotation for that user |
| `DeletedUserStaysDeleted` | `DeletionsApart`: the transaction of a deletion with a login or a withdrawal of that user |
| `RevokedFamilyIsDead` | `RevocationsApart`: the UPDATE of a family with a rotation in it |

The run explores everything but these overlaps (the first three are its CONSTRAINTs):
a withdrawal may begin while an exchange is in flight, a stale rotation may commit
after the deletion of its client, one exchange may run next to a rotation. The
promises hold, so nothing else is to blame. `Lineage`, that along any chain of
rotations client, user and family stay those of the login and scopes only shrink, is
checked here because it takes two clients and scopes to go wrong. Two issuances are a
login's and one more: a code redeemed twice, a rotation next to an exchange, a token
next to the withdrawal that should end it.

### 4.3 The races

Where they do overlap each promise fails. Two of them have a run:

| Promise | Interleaving | Run |
|---|---|---|
| a code is one-time | two exchanges read `used = false`, both commit | `CodeRace` |
| deactivation revokes all tokens | redeem reads; deactivate updates access_tokens; redeem inserts; deactivate updates refresh_tokens | `WithdrawRace` |
| deletion is final | login reads the user; delete commits; login saves the user, which inserts it | `TokenSerial` without `DeletionsApart` |
| revocation reaches the whole family | rotate reads; revoke updates the family; rotate inserts a new token | what `RevokedFamilyOnlyLate` allows |

The runs are listed under `findings` in `PROJECT.json` with the documents' lines.

### 4.4 `Session` and the refinement

`Session` says what a login is worth, with no tables, clocks or requests: it grants
rights; its code opens the session at most once; while the session is open its
rights only shrink; when it is over nothing opens it again. `TokenSession` maps the
token endpoint to it. The phase of a login is read off its code, its refresh tokens
and the requests that have read one of them: such a request counts as a session
still open, since it will commit on its snapshot. The rights are those of the code,
of the refresh tokens that can be rotated and of the snapshots in flight.
`KeepsPromise` is `Session`'s specification under this mapping. It holds although
`CodeIsOneTime` does not: a code redeemed twice opens one session with two
families, which is the precise sense in which the race of the exchange stays
within what the login granted.

### 4.5 Mutants

Beside some definitions stands a mutated form ("Mutant: ...") that changes it as
a plausible bug would; each property is violated when one of them replaces the
original. The specifications use none of them. `PROJECT.json` lists the pairs.

## 5. `UserAccount`

One row of table users is written by six parts of the server, each of which
loads the entity, awaits something and saves the entity. The module is about what
these snapshots do to each other, column by column, and about what the columns of
the row mean together: `INACTIVE` alone stands for four things (waiting for a mail,
waiting for an administrator, held, withdrawn), told apart by
`pendingApprovalSince`, `approvalHeldAt` and `deactivatedAt`.

### 5.1 State

| Variable | Code |
|---|---|
| `users` | table users of one tenant: status, the three markers, the failure counter, `lockedUntil`, the password; `Unissued` before the row exists, `Deleted` after |
| `mails` | email_verification_tokens and password_reset_tokens, which have the same columns |
| `req[r]` | the local variables of a handler in flight: which user it has loaded and the snapshot of the row; while it saves, the columns that differed and on whose behalf |
| `sweepLock`, `sweeping`, `targets` | the advisory lock of the daily job, the instances in the middle of it, and what each still has to delete |
| `now` | `new Date()`, and `now()` in the job's SELECT |
| `withdrawals`, `cancelled`, `confirmed`, `guesses`, `approved` | history, written when a save commits: when an account was withdrawn, whether the last withdrawal was cancelled, which mails were confirmed, the wrong passwords since the counter was last cleared, who has been let in |
| `tries`, `applied` | history: the wrong passwords ever found, who has applied for approval. No guard reads any of them |

### 5.2 Actions

| Actions | Code |
|---|---|
| `Create` | `UsersService.create` by an administrator |
| `RegisterActive`, `RegisterInactive`, then `MarkPending` or `IssueMail` | `AuthorizeService.register`: the row is stored first, what it waits for in a later statement |
| `VerifyRead`, `VerifySave` | `EmailVerificationService.confirm` |
| `ResetRequest`, `ResetRead`, `ResetSave` | `PasswordResetService.requestReset`, `confirmReset` |
| `LoginRead`, then `LoginSuccess`, `ExternalLogin` or `LoginFailure` | `AuthorizeService.loginAndAuthorize` with `issueAuthCode` or `recordFailedAttempt` |
| `JitProvision` | `jitProvisionUser`; the login goes on with the new entity |
| `FindUser`, then one of `Activate`, `Hold`, `Lock`, `Unlock`, `UpdateStatus`, `UpdateProfile`, `ChangePassword`, `Deactivate`, `DeleteUser` | the operations of `UsersService`, which all begin with `findOne`; the bulk operations call them per user |
| `Update`, `Insert` | the second half of any save |
| `Abort` | a handler ends before its commit: a guard, an error, a lost connection, a crash |
| `SweepStart`, `SweepDelete`, `SweepSkip`, `SweepEnd`, `SweepCrash` | `AccountDeletionSweepService` |

Each operation that saves ends in `Compare`, the SELECT of TypeORM's `save`: it
notes in which columns the entity, as the handler has changed it, differs from the
row of the moment, or that there is no row. `Update` then writes these columns and
no others, `Insert` the whole entity. Anything may happen in between: another save
of the same row, its deletion, a crash. Only the tables, never the entity, are
read for the comparison, which is how a snapshot that loaded an old value brings it
back although the handler never touched that column. The deletions are by id and
look at nothing else; `MarkPending` is an UPDATE of one column.

### 5.3 What is abstracted

`pendingApprovalSince` and `approvalHeldAt` are kept as set or not set, since the
code only tests them for NULL. The failure counter stops at
`MAX_FAILED_ATTEMPTS`, since the code compares with `>=`. E-mail addresses,
profiles, roles and audit records change nothing the properties speak of. What a
withdrawal does to tokens is in `TokenService`. A provider is the choice between
`ExternalLogin`, `LoginSuccess` (fallback) and `Abort` (rejection). The settings
of the tenant may change between two registrations, so all three ways to
register stay open. Ids are never drawn twice.

`Endpoint` is a bound: the endpoints that are called. The runs use it to leave
out what would only multiply their states, and to show that a violation needs
nothing but the named ones. It holds back the operations of administrators and
visitors, never a step of a handler that has begun.

### 5.4 What the runs show

Symmetry, where it is used, is over requests, mails, instances and passwords.

`AccountOverlap`: two overlapping requests, one user, one mail, one instance, the
endpoints register, activate, hold, unlock and deactivate beside login and
verification, a lockout after two failures, one tick; about 1.3 million states. Two
requests are what an overlap takes, two failures the least with a count that is
neither empty nor full, one tick what a lock, a mail and a period of grace of 0 take
to run out. Each endpoint left out changes columns that one of these changes too
(`lock`, `update`, `delete`), or one that no property of this run reads (password).
`MCBound`, a CONSTRAINT, keeps wrong passwords and withdrawals in separate behaviours,
since no property relates the two. `MCOverlapView`, a VIEW, leaves out the history
that only `AccountSerial` reads.

- `IInv`: the inductive invariant of the proofs. What a row or a snapshot shows has
  happened to its user: the count is at most the wrong passwords found, a lock needs
  `MAX_FAILED_ATTEMPTS` of them, who is pending or held has applied, a date of
  withdrawal is one of its withdrawals (`MarksEarned`, `DateEarned`). Each part is
  about one column and history that only grows, and so survives any mixture of
  columns. Stronger relations between the columns do not: a fifth failure that
  overlaps a success leaves a lock beside an empty count, a hold that overlaps an
  activation leaves the mark of the hold beside ACTIVE.
- `LocksAndHoldsEarned`: the part of it that concerns the stored rows: however saves
  mix, nobody is locked out by fewer than `MAX_FAILED_ATTEMPTS` wrong passwords, and
  only an applicant is counted as waiting or held.
- `SweepSpares`: the job never deletes an account that was not withdrawn long
  enough ago, though verification and login change the status and leave
  `deactivatedAt` behind. It does not say that the account is withdrawn still.
- `ApprovalBeforeLogin`: whoever passes the guards of the login has been let in
  by a confirmed mail, an administrator or a provider.

`AccountSerial`: two requests and all endpoints, one user, one mail, a lockout after
three failures, a period of grace of 1 and two ticks, as long as no two requests hold
or save a snapshot of the user (`SaversApart`, a CONSTRAINT); about 600 000 states.
What holds no snapshot goes on next to the one that does: registrations, mails, the
deletion job at each of its steps. `MCSerialView`, a VIEW, leaves out the history that
only `AccountOverlap` reads.
The documents' promises hold: `ReactivationCancels`, `LockedAfterMaxFailed`,
`ApprovedNotCounted`, `ResetTokenOnce`. So every failure in the table below that
needs an overlap needs one of two snapshots.

The liveness of the deletion job is in the run `Background`, section 8.

What fails, with the shortest sequence TLC finds:

| Promise | Sequence | Run |
|---|---|---|
| a new password holds | a request reads; the password changes; the request saves the old hash | `PasswordRace` |
| a locked user is refused | lock sets LOCKED and no `lockedUntil`; the login lets the user in | `AdminLock` |
| a held user stays INACTIVE | unlock sets ACTIVE and leaves the hold | `HeldUnlock` |
| reactivation cancels the deletion | the job selects; activate commits; the job deletes | no run: `SweepDelete` looks at nothing but the id |
| enough failures lock | two logins read the same counter; both fail; one failure is counted | `LockedAfterMaxFailed` without `SaversApart` |
| reactivation cancels the deletion | a request reads the withdrawn user; activate commits; the request saves `deactivatedAt` back | `ReactivationCancels` without `SaversApart` |
| a reset token works once | two confirmations read it unused | `ResetTokenOnce` without `SaversApart` |
| an applicant must be activated | lock turns INACTIVE into LOCKED; the login turns LOCKED into ACTIVE | `ApprovalBeforeLogin` with the endpoint lock |
| an activated user is not held | hold and activate read an applicant; both saves compare before either writes; each writes its own columns | `HeldStaysOut` with the endpoints hold and activate |

The locked user and the held user of the first rows need no overlap. The last five
rows drop the CONSTRAINT or change one constant of a run.

## 6. The login: `Login`, `ProviderChoice`

`UserAccount` follows the row of a user through a login, `TokenService` what the
code is worth; `Login` is what lies between: the pending request, the provider, the
password, the consent, the code.

| Variable | Code |
|---|---|
| `providers` | table external_auth_providers of a tenant, with `deleted` and the order of creation |
| `pendings` | table pending_oauth_requests |
| `users`, `roles` | the local password of each address, and whose default roles have been assigned |
| `consents` | table consents |
| `codes` | the codes issued, in order |
| `req[r]` | the local variables of a login or registration in flight |
| `accepted`, `contended`, `partial` | history: the password that was found right last; the users and pending requests on which two handlers worked at once or one broke off; users created without roles |

| Actions | Code |
|---|---|
| `Initiate`, `Expire`, `GetExpired`, `Cleanup` | the store of pending requests and its job |
| `Register`, `AssignRoles` | `AuthorizeService.register`, whose statements are not one transaction |
| `LoginRead` | `loginAndAuthorize` up to its first await on the provider: the pending request, `FindActive`, the user |
| `Accept`, `Reject`, `Fail` | the three answers of a provider |
| `Fallback`, `Refuse` | the local password after a failure; a rejection is final |
| `Provision`, `Synchronise` | `jitProvisionUser`, and the local password that follows the provider's |
| `ReadConsent`, `IssueCode`, `DropPending` | `issueAuthCode`: the consent read outside the transaction, the transaction, the deletion of the pending request after it |
| `GiveUpLogin` | an error or a crash between any two of them |
| `ProviderChange` | an administrator, at any moment |

`FindActive` and `Rank` are `ExternalAuthService.findActive`: the providers that serve the
client and the domain, by how precisely they do.

Properties, in the part `login` of `Browser` (two logins, one user, one pending
request, two passwords, two codes, one provider that serves everybody):

- `CodeIsBacked`. One code per pending request, scopes within the consent, default
  roles for whoever signs in. Each part fails only where two handlers worked on the
  same thing at once or one broke off halfway; that nothing else can break it is
  what the property says.
- `FallbackIsCurrent`. The local password accepted in place of a provider is the one
  found right last: rejection, failure, provisioning and change of the provider's
  settings in any order leave no older one that works.

## 7. What administrators manage: run `Management`

`Requests` is the frame of these modules: a request that has read objects and will
commit; it is `stale` once somebody else has committed to one of them, and what it
saves is `late`. Each module adds its tables, the read and the commit of each
operation, and the indexes and foreign keys that the database enforces at the
commit. Part by part, two overlapping requests each; about 840 000 states
together. Two requests are what an overlap takes; `Deleted` and `Unissued` ids give
every table rows that never were and rows that are gone.

| Part | Module | Instance | Actions | Properties |
|---|---|---|---|---|
| `assignments`, `status`, `tenants` | `Administration` | two administrators, one tenant | bootstrap, creation, update with replacement of the assignments (DELETE, then INSERT), deactivation, login, creation of a tenant with its scopes, its update and deletion; the guards decide by the role in the token and the assignments of the moment | `AssignmentsFit`, `TenantsAsDecided` |
| `providers` | `Providers` | two providers, one client, one domain | creation and update with `checkDuplicate`, deletion; the two partial unique indexes | `ScopesApart` |
| `roles` | `Rbac` | one user, one role, two permissions | roles, permissions, replacement of sets, default roles, deletion with its cascades, the two queries behind the claims of a token | `RolesAsAsked` |
| `clients` | `Clients` | one client, one scope, one URI, two secrets | creation, update with change of type, rotation, deactivation, redirect URIs, scopes; a save as the two steps it is | `SettingsStick` |
| `schemas` | `Schemas` | three rows, three versions | publication and deprecation | `VersionsGapless` |
| `keys` | `SigningKeys` | three keys | generation at start or on demand, retirement, signing | `SignerStaysVerifier` |

The three parts of `Administration` differ in which changes of an administrator are
sent (`Change`): role and assignments, status, or none beside those of a tenant.
What each property means, and the lines it is about, stands before it in its module.
They have a common pattern. What an index keeps right holds whatever overlaps: the
versions are gapless, a client has one provider without domains. The rest holds unless
a stale request committed, and the property names exactly the objects (`late`) for
which it may fail: the secret, status and URIs of a client, the assignments that fit a
role, two providers with domains, the key that verifies. What overlaps do to those is
not claimed: two bootstraps can both create an administrator, a platform administrator
can keep assignments that another request stored, two saves of a client can leave it
confidential and without a secret. Administrators send a client a change of its type,
or an activation with other URIs (`MCSentClient`); beside rotation and deactivation
secret and status are then written by several operations each. Scopes come and
go until the first client is stored, which is registered for none (`MCBound`, a
CONSTRAINT): no property reads a client's scopes.
`CHECK_DEADLOCK` is off: keys and ids are never drawn twice, so a part ends
when they are used up.

## 8. Behind the requests: run `Background`

Three parts; about 50 000 states; no symmetry, since two properties are liveness
properties.

`sweep`: `UserAccount` with one user, two instances, one request, one tick.
`ExpiredIsDeleted`: an account whose withdrawal has expired is deleted or stops
being withdrawn. Fairness: the job is started again and again (`@Cron`, every day on
every instance), a sweep goes on as long as its process lives (weak fairness), and a
deletion that is tried again and again succeeds at last (strong fairness); the
errors that the loop catches are transient. Crashes are allowed at any point, any
number of times. Nothing is assumed of clients, administrators and the clock.

`digest`: `Digest` with two tenants, of which one has a room that can be reached,
two instances and one crash. Actions: a registration with its immediate
announcement, delivered or lost; approval, hold and withdrawal; the settings; the
daily run with its lock, its SELECT, one call per tenant in some order, its end; a
crash. `WaitingIsAnnounced`: nobody waits unannounced for ever in a tenant that
wants to be told and whose room can be reached. Fairness: the daily run is tried
again and again and goes on (weak), and a room of `Reachable` accepts a message at
last if it is tried again and again (strong). The room that never answers is what
makes the property worth something: its failure must not stop the others.

`deletion`: `TenantDeletion`, the fourteen statements of `TenantsService` in their
order against the foreign keys of the schema, while others insert rows into any
table at any moment. `RefusedOnlyIfDisturbed`: without an insertion behind it no
foreign key stops it, so the order is right. `GoneButLoose`: a tenant that is gone has
left no row that refers to it by a foreign key, and its audit records are kept. Three
tables name the tenant in a column that is no foreign key (`Loose`): pending requests,
which a job removes once they expire (`CleanUpPending`), and the tokens of mails, which
nothing removes. They outlive the tenant, and rows may even be stored in them after it.

## 9. The console: run `Browser`

The parts `pages`, `forms`, `secret` and `session`. A part that is not active has
one initial state. Deadlock is off: tokens, secrets and slots are bounded.

`ConsolePages` is the skeleton that eleven views share, with a record per view that
says how it deviates (search with a timer, filters, boxes to tick, a dialog, what it
does when a load fails, whether it loads anew after an action). Two loads at once,
one row, two queries. `ListIsTrue`: with nothing on its way the list is what the
server holds for the filter in sight, and what is ticked is in the list.

`ConsoleForms` does the same for 26 forms and dialogs (where the content comes from,
whether it can be saved before or without it, whether the server refuses a second
one, whether the form stays). Two calls, three contents. `SavedAsSeen`: a form
overwrites nothing that it has not shown, and creates one thing.

`ConsoleSecret` is the page of a client, where two calls that draw a secret can
overlap (`SecretInSightIsLive`).

`ConsoleSession` is two tabs over one storage, two tenants, two tokens: login, accepted
or refused, logout, reload at any address, links, the switch between tenants, calls,
401, the guard of the router. A refused login is a 401 like any other
(`RefuseSignIn`): the interceptor signs out, and removes the session that the other
tabs have in the storage. `LocationIsAllowed`: no tab shows what its session may not
see. `SessionIsOwn`: a tab that shows a session shows the one in the storage and sends
its token, until another tab signs in or out, has a password or a call refused, or the
tab itself signs in again with a call on its way (`foreign`); and when all tabs are
signed out, the storage signs nobody in again.

## 10. The example applications: part `party` of `Browser`

`RelyingParty` is an application that signs its user in, for the browser (`vite`),
the desktop (`tauri`) and the phone (`flutter`), with what distinguishes them in a
record: whether it survives a restart, when it begins to await the answer, whether it
revokes at logout. The answer comes back as a link that may be opened late, twice, or
when another login has begun. Two logins, two exchanges. `AnswersFit`: a code goes
with the verifier of its own login, and the answer to the newest login finds the
application waiting. `GivenUpStaysOut`: tokens given up do not come back.
`AnswersFit` has two exceptions, named in the property: an application that begins
to wait only when the browser is open, and a user who started something else.

## 11. Disagreements without a run

Besides the five runs that expect a violation, the models showed the following. Each
is left out of `findings` because no single property of a run isolates it.

| Where | What |
|---|---|
| `TenantSwitcher.vue:59` | The switch pushes the same route with another tenant. Views read the tenant when they are set up and are not set up anew, so the view goes on with the old tenant under the new path. FR-21 (`docs/requirements/2026-09-23-multi-tenant-admin-requirements.md:84`) wants the new tenant's list. `ConsoleSession` follows path and view apart (`tenant`, `page`); only what both may show is a property. |
| `account-deletion-sweep.service.ts:71` | The deletion looks at nothing but the id: an account reactivated after the SELECT is deleted. |
| `authorize.service.ts:311` | Two logins on one pending request both get a code. |
| `UserListView.vue:117` | A bulk action sends rows ticked while the next list was on its way, which may not be in sight. |
| `SchemaPublishView.vue:76` | "No earlier schema, start empty" is also what a failed load looks like; publishing replaces the active version. |
| `UserRoleDialog.vue:43` | After a failed load the dialog can be saved, and takes all roles away. |
| `keys.service.ts:24` | Two instances that start on an empty table generate a key each; a token signed with the older one no longer verifies. |
| `auth.store.ts:84` | `refreshTenants` has no caller: assignments removed since the login stay in the tab. |
| `admin-auth.service.ts` | Nothing keeps the last platform administrator from being deactivated, and the bootstrap counts inactive ones. |
| `tenants.service.ts:183` | Pending requests and the tokens of mails, which have no foreign key to the tenant, outlive its deletion (`GoneButLoose` admits them and nothing else). |
| `http.ts:19` | A wrong password at the login of one tab removes the session of all the others from the storage; they go on showing it and send calls without a token. |
| `clients.service.ts:182` | A change of a client to CONFIDENTIAL and one to PUBLIC that overlap can leave it CONFIDENTIAL with no secret, or PUBLIC with one. |
| `authorize.service.ts:630` | A success that overlaps the fifth failure can leave the account locked out with an empty count. |

## 12. What is proved

With TLAPS 1.4.5 (SMT, Zenon, PTL), for every value of the constants that the named
assumptions admit: any number of requests, users, rows, tabs, slots. The bounds of
the modules (`MaxTime`, `MaxCodes`, `MaxLogin`, ...) are constants too, so the
theorems hold for each bound. Eight modules hold the proofs; each says at its top what
its argument is.

### 12.1 `TokenServiceProofs`

`TokenServiceProofs` proves, for any number of requests, users, clients, scopes,
codes and tokens and any times to live, with TLAPS (SMT, Zenon and PTL):
`TypeOK`, `IInv`, `Lineage`, `CodeSpentWithTokens`, `OneLiveTokenPerLogin`,
`RevokedFamilyOnlyLate`, `NoOrphans`, `SpentStaysSpent`, `WithdrawReachesBack`
and `SessionEndIsFinal`; and the four promises of 4.2, each under its own condition,
in the form `Spec /\ []ExchangesApart => []CodeIsOneTime`.

Assumptions: the times to live are natural numbers (`TtlAssumption`), every
client has a set of registered scopes (`ClientAssumption`), and the markers
`NoUser`, `Unissued`, `Deleted` are no ordinary values (`RowAssumption`).

The argument. None of the properties is inductive alone: a commit acts on a
snapshot, so what holds of the tables after it depends on what was true of the
snapshot. `IInv` adds

- `Provenance`: a row exists only with its history (a code has a grant, a
  refresh token an origin and an access token);
- `SnapshotOK`: a snapshot in flight differs from the stored row in `used` and
  `revoked` only, and never in user, client, scopes or family;
- `SnapshotsAgree`: two requests that hold the same token agree on its family,
  needed because a stale save may insert a deleted row again;
- `WithdrawalOK`: the statements a withdrawal has executed caught every token it
  knew that is still alive.

The proof splits a step in two. For the tables, one lemma per committing action
(`RedeemCommitData`, `RotateCommitData`, ...) shows that the table part of
`IInv` holds again and that the step moved `Forward`: rows keep their history,
and no code or token becomes usable again. For the snapshots of the *other*
requests one lemma, `SnapshotsForward`, shows that any forward step preserves
them. The action properties follow from `Forward` and from `LiveStep`, which
says where live tokens come from.

The promises need one more invariant each, inductive next to `IInv` as long as the
condition holds. `OneFamily`: the tokens of a login and the rotations in flight agree
on one family, and a code that is being exchanged has no tokens yet.
`NoRotationRevoked`: no rotation in flight belongs to a family that was revoked.
`WithdrawSeesAll`: the statements of a withdrawal have seen every token of the user.
`SaversStored`: whoever will save a user row back has read one that is still there.
The conditions are about two requests at a time and say nothing about third ones;
every instance with one request satisfies them, and `TokenSerial` shows how much more
they admit.

### 12.2 `UserAccountProofs`

For any number of requests, users, mails, instances and passwords, any set of
endpoints and any times: `TypeOK`, `IInv`, `LocksAndHoldsEarned` and `SweepSpares`;
and `ApprovalBeforeLogin` if administrators use neither `lock` nor `update`, the two
operations that set a status and let nobody in (with `lock` it is false, see 5.4). As
long as no two requests hold a snapshot of the same user (`SaversApart`):
`ReactivationCancels`, `LockedAfterMaxFailed`, `ApprovedNotCounted`, `ResetTokenOnce`
and `NewPasswordHolds`, the promise that `PasswordRace` refutes without that
condition.

Assumptions: `MAX_FAILED_ATTEMPTS` is at least 1, the times are natural numbers
(`TimeAssumption`), and the markers `Null`, `Unissued`, `Deleted` are no ordinary
values (`MarkerAssumption`).

The argument. A save writes any subset of the columns of its snapshot over the stored
row, so a property of stored rows is inductive only together with the same property of
the snapshots, and only if it speaks of one column at a time: a relation between two
columns does not survive the mixture. `IInv` therefore relates each column to what has
happened to the user (`tries`, `applied`, `withdrawals`), which only grows; `RowOKGrows`
and `SnapshotOKGrows` say that a good row stays good then, `MergedFacts` that a mixture
has each column from one of two good rows. It also says that a token in use has been
sent, and that what the job still has to delete was withdrawn long enough ago. One
lemma per operation on rows (`FailedFacts`, `UnlockedFacts`, ...) shows that it makes
good rows of good rows. `Frame` says what a step must do to keep `IInv`; `BeginStep`,
`InsertStep`, `CompareStep`, `CommitStep` and `QuietStep` specialise it to the five
shapes of steps: a handler that starts, a new row, the comparison of a save, its
commit, and a step that stores nothing. Each action is one of the five.
`LocksAndHoldsEarned` is part of `IInv`, and `SweepSpares` follows from the part about
the targets. `ApprovalBeforeLogin` needs one more invariant, `OutsidersInactive`:
whoever has not been let in is INACTIVE in the table and in every snapshot, unless the
snapshot is being saved to let the user in; its lemmas follow the same shapes.

The promises rest on `ApartInv`: the row of an account agrees with what history says
of it (`AccountOK`: cancelled means no withdrawal, the counter counts the wrong
passwords, an approved account is INACTIVE only if withdrawn), and so does the one
snapshot of it in flight, which still has the stored password. While it is saved it
agrees with what history will say at the commit (`SaveFits`), and the columns that the
UPDATE leaves out still hold its values (`LeftOutOK`): the mixture is the snapshot
itself. `UpdateApart` shows that this suffices, whatever the job and the requests for
other users do. `MailsOnce` is about the mails: a confirmed one is marked as used, and
who is about to confirm one holds its user.

`OneSweep` is about the job alone (account-deletion-sweep.service.ts:40-42): however
instances start, end and crash, one sweep at a time, and no list is left behind.
It is what safety contributes to `ExpiredIsDeleted`.

### 12.3 `TokenSessionProofs`

`PromiseKept`: every step of the token endpoint is a step of `Session` or a stutter,
from the invariant of `TokenServiceProofs`. A step moves one login at a time but for
the clock and the deletion of a user, which is why `Session` lets several sessions
end at once. For each action the proof computes the phase and the rights of the
login it works on and shows that those of the others rest.

### 12.4 `LoginProofs`

`EveryCodeIsBacked` and `FallbackStaysCurrent`. What a login has established (the
password, the consent, the roles) it keeps until somebody else works on the same
user or the same pending request. The invariant says of every login in flight what
it holds, of every account that its password is the accepted one or the account is
`contended`, and of every code that its pending request is gone or about to go. One
lemma per thing held (`OthersHold`, `AccountsHold`, `CodesHold`) says what a step may
do without taking it away; each action meets their hypotheses.

### 12.5 `ManagementProofs`, `BackgroundProofs`

The properties of section 7 and of the deletion of a tenant. Each invariant says, for
a request in flight, that what it has read is still true unless it is `stale` (or the
row it is about to replace is gone); a request that commits undisturbed then stores
what it was asked to. For a client this takes two steps: between the comparison and
the UPDATE the invariant says of the columns left out that they still hold the
entity's values. For the deletion the invariant is the set of tables that the
statements before the current one have emptied, which with the foreign keys leaves no
reference behind.

`BackgroundProofs` also has what safety contributes to `WaitingIsAnnounced`, for any
number of tenants and instances: one instance at a time selects (`OneSelects`), a run
starts with everybody it should tell, and only a call for a tenant or the end of the
instance takes it off the list (`RunMissesNobody`). The invariant is that the
advisory lock is with the instance that selects; lemmas about orders of a set give
what a run has still to do (`OrderIsComplete`, `RestIsOrder`). Beside its type it is
assumed that the tenants are finitely many (`DigestAssumption`).

The types of the six modules are theorems of their own, and `ManagementTypeCorrect`
puts them together: whichever part `MCManagement` runs, for any number of requests
and rows, the part keeps its types. Most type invariants are inductive alone; those
of `Rbac` and `Clients` need the invariant of their properties beside them, because a
commit writes into a table what its request has read from another.

### 12.6 `ConsoleProofs`, `BrowserProofs`

The properties of sections 9 and 10. `ListsAreTrue` rests on what is known of every
row: unless loads overtook each other or a reply was lost, the rows in sight, or in
the answer on its way, are right but for those that a call has touched and the view
has not heard of. `SavesAreAsSeen` rests on the call in flight carrying what the form
was filled with. `LocationsAreAllowed` and `SessionsAreOwn` say of each tab that its
memory admits its path and the view it has kept, and of each tab that no other has
interfered with that its memory, the storage and its call have one token.
`BrowserProofs`: as long as nothing overlapped, one thing is in flight at most, and
nothing held, awaited or on its way has been given up.

The types follow the same way. They assume besides that the slots for calls are finite
(`FormsAssumption`), since a form counts what it has created. A dialog about one row at
most and one call per tab are part of them. `BrowserTypeCorrect` joins the six parts
of `MCBrowser`, the login with `LoginTypeCorrect` included.

## 13. Limits

Every safety property of the passing runs is proved. Only model-checked:

- liveness (`ExpiredIsDeleted`, `WaitingIsAnnounced`): the step from fairness to
  progress needs ENABLED, which is out of the prover's reach. What they need of the
  jobs besides fairness is proved (`OneSweep`, `OneSelects`, `RunMissesNobody`);
- the five violations, which are behaviours and not theorems.

The promises of 4.2 and 5.4 are proved under a condition on what overlaps, which the
code does not enforce; the violations show that it cannot be dropped.

Not modelled: audit records, mail delivery, userinfo and discovery, which decide
nothing; contents (profiles, schemas, branding, names, texts) and their validation,
which no property speaks of; cryptography, HTTP and the field mapping of a provider;
the sample servers, which pass calls on; the page of the consent in the console.

Hazards that no property covers: `users.service.ts:428` against `:359` (deletion and
deactivation lock rows in different orders; PostgreSQL aborts one of the two, which
is `Abort`), and `tauri-testapp/src/App.vue:284` (an error leaves what is awaited in
place until the next login replaces it).
