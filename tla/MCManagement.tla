---------------------------- MODULE MCManagement ----------------------------
(***************************************************************************)
(* What administrators manage, for TLC: each other and the tenants, and of *)
(* a tenant the providers, roles, clients and profile schemas; and the     *)
(* signing keys of the platform.  They share the requests and nothing      *)
(* else; the initial state chooses one.                                    *)
(***************************************************************************)
EXTENDS Administration, Providers, Rbac, Clients, Schemas, SigningKeys, TLC

CONSTANTS r1, r2, x1, x2, c1, d1, u1, o1, e1, e2, s1, v1, k1, k2, k3, t1

VARIABLE part

\* One of them is switched off; provisioning makes no difference here.
MCSent ==
    [client : {c1, AnyClient}, domains : SUBSET Domain, enabled : {TRUE}, jit : {TRUE}]
    \cup {[client |-> c1, domains |-> Domain, enabled |-> FALSE, jit |-> TRUE]}

\* A change of type, or an activation with other redirect URIs.
MCSentClient ==
    [type : ClientType, active : {Keep}, scopes : {Keep}, uris : {Keep}]
    \cup [type : {Keep}, active : {TRUE}, scopes : {Keep}, uris : {{}}]

\* Bound: scopes come and go before the first client, which is created without
\* any; nobody sends others later, and no property reads them.
MCBound ==
    Registered # {} => scopes = {} /\ \A c \in Registered : clients[c].allowed = {}

\* What changes of an administrator: the role and the assignments, or the status.
\* An empty list of tenants is refused, or makes no difference.
RoleChange ==
    [role : Role \cup {Keep}, active : {Keep}, tenants : {Keep, Tenant}]

StatusChange == [role : {Keep}, active : BOOLEAN, tenants : {Keep}]

MCChange == RoleChange \cup StatusChange

adminOnly == <<tables, tokens, shadows>>
clientOnly == <<clientTables, drawn, wanted>>
keyOnly == <<keys, signers>>
allVars ==
    <<adminOnly, providers, rbacTables, clientOnly, schemas, keyOnly, requestVars, part>>

AdminPart == {"assignments", "status", "tenants"}

MCInit ==
    /\ Init /\ ProviderInit /\ RbacInit /\ ClientInit /\ SchemaInit /\ KeyInit
    /\ part \in AdminPart \cup {"providers", "roles", "clients", "schemas", "keys"}

AdminNext ==
    \E r \in Request :
        \/ CommonStep(r)
        \/ part = "assignments" /\ AdminStep(r, RoleChange)
        \/ part = "status" /\ (AdminStep(r, StatusChange) \/ DeactivateStep)
        \/ part = "tenants" /\ TenantStep(r)
        \/ part # "status" /\ DeleteStep

MCNext ==
    /\ UNCHANGED part
    /\ \/ /\ part \in AdminPart /\ AdminNext
          /\ UNCHANGED <<providers, rbacTables, clientOnly, schemas, keyOnly>>
       \/ /\ part = "providers" /\ ProviderNext
          /\ UNCHANGED <<adminOnly, rbacTables, clientOnly, schemas, keyOnly>>
       \/ /\ part = "roles" /\ RbacNext
          /\ UNCHANGED <<adminOnly, providers, clientOnly, schemas, keyOnly>>
       \/ /\ part = "clients" /\ ClientNext
          /\ UNCHANGED <<adminOnly, providers, rbacTables, schemas, keyOnly>>
       \/ /\ part = "schemas" /\ SchemaNext
          /\ UNCHANGED <<adminOnly, providers, rbacTables, clientOnly, keyOnly>>
       \/ /\ part = "keys" /\ KeyNext
          /\ UNCHANGED <<adminOnly, providers, rbacTables, clientOnly, schemas>>

MCSpec == MCInit /\ [][MCNext]_allVars

MCTypeOK ==
    CASE part \in AdminPart -> TypeOK
      [] part = "providers" -> ProviderTypeOK
      [] part = "roles" -> RbacTypeOK
      [] part = "clients" -> ClientTypeOK
      [] part = "schemas" -> SchemaTypeOK
      [] part = "keys" -> KeyTypeOK

\* Requests are interchangeable in every part, and so are providers and
\* administrators, which are the same model values.
MCSymmetry == Permutations(Request) \cup Permutations(Provider)
=============================================================================
