--------------------------- MODULE Administration ---------------------------
(***************************************************************************)
(* Administrators, the tenants they are assigned to, and the settings of a *)
(* tenant that only the platform may change.                               *)
(*                                                                         *)
(* A request carries a token.  The token holds the role its bearer had at  *)
(* login; the guards believe it, and look up the assignments.  A service   *)
(* loads the row, and saves it in a later transaction.                     *)
(***************************************************************************)
EXTENDS Requests

CONSTANTS
    Account,    \* ids of administrators, never drawn twice
    Tenant,     \* ids of tenants
    Change      \* bound: the changes of an administrator that are sent

Role == {"PLATFORM_ADMIN", "TENANT_ADMIN"}

\* The status stands for the issuer as well: both are the platform's to decide.
TenantRow == [active : BOOLEAN]

AdminRow == [role : Role, active : BOOLEAN]

Token == [sub : Account, role : Role]

ASSUME AdministrationAssumption ==
    /\ Keep \notin Role /\ Keep \notin BOOLEAN /\ \A T \in SUBSET Tenant : T # Keep
    /\ {Unissued, Deleted} \cap AdminRow = {} /\ {Unissued, Deleted} \cap TenantRow = {}
    /\ \A c \in Change :
        /\ c.role \in Role \cup {Keep} /\ c.active \in BOOLEAN \cup {Keep}
        /\ c.tenants \in (SUBSET Tenant) \cup {Keep}

VARIABLES
    admins,     \* table admin_users
    assigned,   \* table admin_user_tenants
    tenants,    \* table tenants
    seeded,     \* tenants whose default scopes are stored
    tokens,     \* the tokens issued; that they expire only takes steps away
    \* History variables: written by the actions, never read by them.
    decided,    \* what the platform last decided for each tenant
    bereft,     \* administrators who lost a tenant that was deleted
    halfway     \* tenants whose creation broke off

tables == <<admins, assigned, tenants, seeded>>
shadows == <<decided, bereft, halfway>>
vars == <<tables, tokens, shadows, requestVars>>

Object == Account \cup Tenant

Working ==
    {[op |-> "bootstrap", on |-> Account]}
    \cup [op : {"create"}, on : {{}}, role : Role, tenants : SUBSET Tenant]
    \cup [op : {"update"}, on : SUBSET Account, admin : Account, row : AdminRow,
          tenants : (SUBSET Tenant) \cup {Keep}]
    \cup [op : {"replace"}, on : SUBSET Account, admin : Account,
          row : AdminRow, tenants : SUBSET Tenant, seen : SUBSET Tenant]
    \cup [op : {"seed"}, on : {{}}, tenant : Tenant]
    \cup [op : {"settings"}, on : SUBSET Tenant, tenant : Tenant,
          row : TenantRow, platform : BOOLEAN]

TypeOK ==
    /\ admins \in [Account -> AdminRow \cup {Unissued}]
    /\ assigned \subseteq Account \X Tenant
    /\ tenants \in [Tenant -> TenantRow \cup {Unissued, Deleted}]
    /\ seeded \subseteq Tenant
    /\ tokens \subseteq Token
    /\ decided \in [Tenant -> BOOLEAN]
    /\ bereft \subseteq Account /\ halfway \subseteq Tenant
    /\ RequestTypeOK(Working, Object)

Init ==
    /\ admins = [a \in Account |-> Unissued]
    /\ assigned = {}
    /\ tenants = [t \in Tenant |-> Unissued]
    /\ seeded = {} /\ tokens = {}
    /\ RequestInit
    /\ decided = [t \in Tenant |-> TRUE]
    /\ bereft = {} /\ halfway = {}

----------------------------------------------------------------------------
(***************************************************************************)
(* Tables, requests, guards.                                               *)
(***************************************************************************)
Existing == {a \in Account : admins[a] # Unissued}

Stored == {t \in Tenant : tenants[t] \notin {Unissued, Deleted}}

\* listTenantIds.
TenantsOf(a) == {t \in Tenant : <<a, t>> \in assigned}

Platforms == {a \in Existing : admins[a].role = "PLATFORM_ADMIN"}

\* PlatformAdminGuard: the role in the token.
Platform(tok) == tok \in tokens /\ tok.role = "PLATFORM_ADMIN"

\* TenantAdminGuard: the assignment is looked up with every request.
TenantAdmin(tok, t) ==
    tok \in tokens
        /\ (tok.role = "PLATFORM_ADMIN" \/ <<tok.sub, t>> \in assigned)

----------------------------------------------------------------------------
(***************************************************************************)
(* Logging in.                                                             *)
(***************************************************************************)
Login(a) ==
    /\ a \in Existing /\ admins[a].active
    /\ tokens' = tokens \cup {[sub |-> a, role |-> admins[a].role]}
    /\ UNCHANGED <<tables, shadows, requestVars>>

----------------------------------------------------------------------------
(***************************************************************************)
(* Administrators.                                                         *)
(***************************************************************************)

\* With the secret of the deployment; an inactive administrator counts too.
BootstrapRead(r) ==
    /\ Platforms = {}
    /\ Start(r, [op |-> "bootstrap", on |-> Account])
    /\ UNCHANGED <<tables, tokens, shadows>>

Insert(a, role, T) ==
    /\ admins[a] = Unissued
    /\ admins' = [admins EXCEPT ![a] = [role |-> role, active |-> TRUE]]
    /\ assigned' = assigned \cup ({a} \X T)

BootstrapSave(r, a) ==
    /\ req[r].op = "bootstrap"
    /\ Insert(a, "PLATFORM_ADMIN", {})
    /\ Commit(r, a)
    /\ UNCHANGED <<tenants, seeded, tokens, decided, bereft, halfway>>

\* resolveAssignments: nothing for the platform; active tenants, one at least.
Resolve(role, T) == IF role = "PLATFORM_ADMIN" THEN {} ELSE T

Assignable(role, T) ==
    role = "PLATFORM_ADMIN" \/ (T # {} /\ \A t \in T : t \in Stored /\ tenants[t].active)

CreateRead(r, tok, role, T) ==
    /\ Platform(tok)
    /\ Assignable(role, T)
    /\ Start(r, [op |-> "create", on |-> {}, role |-> role, tenants |-> Resolve(role, T)])
    /\ UNCHANGED <<tables, tokens, shadows>>

CreateSave(r, a) ==
    /\ req[r].op = "create"
    /\ req[r].tenants \subseteq Stored                  \* foreign key
    /\ Insert(a, req[r].role, req[r].tenants)
    /\ Commit(r, a)
    /\ UNCHANGED <<tenants, seeded, tokens, decided, bereft, halfway>>

\* Without tenantIds the assignments stay; then whoever becomes a tenant
\* administrator must have one.
UpdateAllowed(a, role, T) ==
    IF T # Keep THEN Assignable(role, T)
    ELSE role = "TENANT_ADMIN" /\ admins[a].role # role => TenantsOf(a) # {}

\* Mutant: a promotion leaves the assignments alone.
ReplacementOnlyIfGiven(role, T) == IF T = Keep THEN Keep ELSE Resolve(role, T)

\* What replaces the assignments; a promotion clears them.
Replacement(role, T) ==
    IF T = Keep /\ role = "TENANT_ADMIN" THEN Keep ELSE Resolve(role, T)

UpdateRead(r, tok, a, role, active, T) ==
    LET next == Given(role, admins[a].role) IN
    /\ Platform(tok)
    /\ a \in Existing
    /\ UpdateAllowed(a, next, T)
    /\ Start(r, [op |-> "update", on |-> {a}, admin |-> a,
                 tenants |-> Replacement(next, T),
                 row |-> [role |-> next, active |-> Given(active, admins[a].active)]])
    /\ UNCHANGED <<tables, tokens, shadows>>

\* The transaction: the row is saved, the assignments that the DELETE
\* sees go, the new ones come.  Two transactions do not see each other.
UpdateDelete(r) ==
    /\ req[r].op = "update" /\ req[r].tenants # Keep
    /\ Continue(r, [op |-> "replace", on |-> req[r].on, admin |-> req[r].admin,
                    row |-> req[r].row, tenants |-> req[r].tenants,
                    seen |-> TenantsOf(req[r].admin)])
    /\ UNCHANGED <<tables, tokens, shadows>>

UpdateCommit(r) ==
    LET a == req[r].admin IN
    /\ \/ /\ req[r].op = "update" /\ req[r].tenants = Keep
          /\ UNCHANGED assigned
       \/ /\ req[r].op = "replace"
          /\ req[r].tenants \subseteq Stored            \* foreign key
          /\ req[r].tenants \cap TenantsOf(a) \subseteq req[r].seen  \* primary key
          /\ assigned' = (assigned \ ({a} \X req[r].seen))
                            \cup ({a} \X req[r].tenants)
    /\ admins' = [admins EXCEPT ![a] = req[r].row]
    /\ Commit(r, a)
    /\ UNCHANGED <<tenants, seeded, tokens, decided, bereft, halfway>>

\* One UPDATE, whatever the row holds.
Deactivate(tok, a) ==
    /\ Platform(tok)
    /\ a \in Existing
    /\ admins' = [admins EXCEPT ![a].active = FALSE]
    /\ Touch(a)
    /\ UNCHANGED <<assigned, tenants, seeded, tokens, shadows>>

----------------------------------------------------------------------------
(***************************************************************************)
(* Tenants.                                                                *)
(***************************************************************************)
CreateTenant(r, tok, t) ==
    /\ Platform(tok)
    /\ tenants[t] = Unissued
    /\ Start(r, [op |-> "seed", on |-> {}, tenant |-> t])
    /\ tenants' = [tenants EXCEPT ![t] = [active |-> TRUE]]
    /\ UNCHANGED <<admins, assigned, seeded, tokens, shadows>>

SeedDefaults(r) ==
    /\ req[r].op = "seed"
    /\ req[r].tenant \in Stored                         \* foreign key
    /\ seeded' = seeded \cup {req[r].tenant}
    /\ Continue(r, Idle)
    /\ UNCHANGED <<admins, assigned, tenants, tokens, shadows>>

\* Mutant: whoever may edit the tenant may edit all of it.
AnyoneUpdates(tok, active) == TRUE

\* assertUpdatableBy: status and issuer are the platform's.
MayUpdate(tok, active) == active # Keep => tok.role = "PLATFORM_ADMIN"

SettingsRead(r, tok, t, active) ==
    /\ TenantAdmin(tok, t)
    /\ MayUpdate(tok, active)
    /\ t \in Stored
    /\ Start(r, [op |-> "settings", on |-> {t}, tenant |-> t,
                 platform |-> active # Keep /\ tok.role = "PLATFORM_ADMIN",
                 row |-> [active |-> Given(active, tenants[t].active)]])
    /\ UNCHANGED <<tables, tokens, shadows>>

\* A row that has been deleted is inserted again.
SettingsSave(r) ==
    LET t == req[r].tenant IN
    /\ req[r].op = "settings"
    /\ tenants' = [tenants EXCEPT ![t] = req[r].row]
    /\ decided' = IF req[r].platform
                  THEN [decided EXCEPT ![t] = req[r].row.active] ELSE decided
    /\ Commit(r, t)
    /\ UNCHANGED <<admins, assigned, seeded, tokens, bereft, halfway>>

\* deletePermanently: TenantDeletion has the statements.
DeleteTenant(tok, t) ==
    /\ Platform(tok)
    /\ t \in Stored
    /\ tenants' = [tenants EXCEPT ![t] = Deleted]
    /\ seeded' = seeded \ {t}
    /\ assigned' = assigned \ (Account \X {t})
    /\ bereft' = bereft \cup {a \in Account : <<a, t>> \in assigned}
    /\ Touch(t)
    /\ UNCHANGED <<admins, tokens, decided, halfway>>

GiveUp(r) ==
    /\ Abandon(r)
    /\ halfway' = IF req[r].op = "seed" THEN halfway \cup {req[r].tenant} ELSE halfway
    /\ UNCHANGED <<tables, tokens, decided, bereft>>

----------------------------------------------------------------------------
\* Requests without a token, and what any platform administrator does.
CommonStep(r) ==
    \/ \E a \in Account : Login(a)
    \/ BootstrapRead(r)
    \/ \E a \in Account : BootstrapSave(r, a) \/ CreateSave(r, a)
    \/ \E tok \in tokens :
        \/ \E role \in Role, T \in SUBSET Tenant : CreateRead(r, tok, role, T)
        \/ \E t \in Tenant : CreateTenant(r, tok, t)
    \/ SeedDefaults(r) \/ GiveUp(r)

DeleteStep == \E tok \in tokens, t \in Tenant : DeleteTenant(tok, t)

DeactivateStep == \E tok \in tokens, a \in Account : Deactivate(tok, a)

AdminStep(r, Changes) ==
    \/ \E tok \in tokens, a \in Account, c \in Changes :
        UpdateRead(r, tok, a, c.role, c.active, c.tenants)
    \/ UpdateDelete(r) \/ UpdateCommit(r)

TenantStep(r) ==
    \/ \E tok \in tokens, t \in Tenant, active \in BOOLEAN \cup {Keep} :
        SettingsRead(r, tok, t, active)
    \/ SettingsSave(r)

Next ==
    \E r \in Request :
        CommonStep(r) \/ AdminStep(r, Change) \/ TenantStep(r)
            \/ DeactivateStep \/ DeleteStep

Spec == Init /\ [][Next]_vars

----------------------------------------------------------------------------
(***************************************************************************)
(* Properties.                                                             *)
(***************************************************************************)

StatusByPlatform == \A t \in Stored : tenants[t].active = decided[t] \/ t \in late

ScopesAreSeeded ==
    \A t \in Stored :
        \/ t \in seeded \cup halfway \cup late
        \/ \E r \in Request : req[r].op = "seed" /\ req[r].tenant = t

\* Status and issuer of a tenant are what the platform decided last
\* (tenants.controller.ts:90-102): an administrator of the tenant changes them
\* only by saving a row read before another request committed.  And a tenant
\* has its default scopes once its creation is over, although tenant and
\* scopes are stored in separate statements (tenants.service.ts:105-106); only
\* a creation that broke off, or a save that brought a deleted tenant back,
\* leaves it without.
TenantsAsDecided == StatusByPlatform /\ ScopesAreSeeded

\* An administrator of the platform has no assignments
\* (admin-user-tenant.entity.ts:12), and a tenant administrator has a tenant to
\* administer (admin-auth.service.ts:188-201), unless it was deleted or updates
\* overlapped.
AssignmentsFit ==
    /\ \A a \in Platforms : TenantsOf(a) = {} \/ a \in late
    /\ \A a \in Existing \ Platforms : TenantsOf(a) # {} \/ a \in late \cup bereft
=============================================================================
