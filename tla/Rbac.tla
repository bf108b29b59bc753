-------------------------------- MODULE Rbac --------------------------------
(***************************************************************************)
(* Roles and permissions of a tenant, the roles of its users, and the      *)
(* claims that a token takes from them.                                    *)
(***************************************************************************)
EXTENDS Requests

CONSTANTS
    User,
    TenantRole,         \* ids of roles, never drawn twice
    Permission          \* permissions, named after their id

RoleRow == [isDefault : BOOLEAN]

ASSUME RbacAssumption ==
    {Unissued, Deleted} \cap RoleRow = {}

VARIABLES
    roles,          \* table tenant_roles
    permissions,    \* table tenant_permissions
    granted,        \* table role_permissions
    members         \* table user_roles

rbacTables == <<roles, permissions, granted, members>>
rbacVars == <<rbacTables, requestVars>>

RbacWorking ==
    [op : {"saveRole"}, on : SUBSET TenantRole, role : TenantRole, row : RoleRow]
    \cup [op : {"setPermissions"}, on : SUBSET TenantRole, role : TenantRole,
          new : SUBSET Permission, seen : SUBSET Permission, begun : BOOLEAN]
    \cup [op : {"setRoles"}, on : SUBSET User, user : User,
          new : SUBSET TenantRole, seen : SUBSET TenantRole, begun : BOOLEAN]
    \cup [op : {"assign"}, on : SUBSET User, user : User, new : SUBSET TenantRole]
    \cup [op : {"claims"}, on : SUBSET (User \cup TenantRole), user : User,
          roles : SUBSET TenantRole]
    \cup [op : {"signed"}, on : {{}}, roles : SUBSET TenantRole,
          permissions : SUBSET Permission]

Roles == {x \in TenantRole : roles[x] \notin {Unissued, Deleted}}

\* What refers to a role or a permission refers to one that exists.
RbacTypeOK ==
    /\ roles \in [TenantRole -> RoleRow \cup {Unissued, Deleted}]
    /\ permissions \subseteq Permission
    /\ granted \subseteq Roles \X permissions
    /\ members \subseteq User \X Roles
    /\ RequestTypeOK(RbacWorking, User \cup TenantRole)

RbacInit ==
    /\ roles = [x \in TenantRole |-> Unissued]
    /\ permissions = {} /\ granted = {} /\ members = {}
    /\ RequestInit

----------------------------------------------------------------------------
PermissionsOf(x) == {p \in Permission : <<x, p>> \in granted}

RolesOf(u) == {x \in TenantRole : <<u, x>> \in members}

\* Roles and permissions.  A name in use is refused by a unique index.
CreateRole(x, isDefault) ==
    /\ roles[x] = Unissued
    /\ roles' = [roles EXCEPT ![x] = [isDefault |-> isDefault]]
    /\ Touch(x)
    /\ UNCHANGED <<permissions, granted, members>>

UpdateRoleRead(r, x, isDefault) ==
    /\ x \in Roles
    /\ Start(r, [op |-> "saveRole", on |-> {x}, role |-> x,
                 row |-> [isDefault |-> isDefault]])
    /\ UNCHANGED rbacTables

\* The role is inserted again if it has been removed.  When other permissions
\* have been stored since, the mapper refuses the role with its loaded ones
\* (AbandonRbac), unless they come after it has looked.
UpdateRoleSave(r) ==
    /\ req[r].op = "saveRole"
    /\ roles' = [roles EXCEPT ![req[r].role] = req[r].row]
    /\ Commit(r, req[r].role)
    /\ UNCHANGED <<permissions, granted, members>>

\* Mutant: the foreign key does not cascade.
MembersStay(x) == members \ ({} \X {x})

MembersWithout(x) == members \ (User \X {x})

\* The rows that refer to it go with it (ON DELETE CASCADE).
RemoveRole(x) ==
    /\ x \in Roles
    /\ roles' = [roles EXCEPT ![x] = Deleted]
    /\ granted' = granted \ ({x} \X Permission)
    /\ members' = MembersWithout(x)
    /\ stale' = stale \cup {q \in Request : req[q] # Idle}
    /\ UNCHANGED <<permissions, req, late>>

CreatePermission(p) ==
    /\ p \notin permissions
    /\ permissions' = permissions \cup {p}
    /\ UNCHANGED <<roles, granted, members, requestVars>>

RemovePermission(p) ==
    /\ p \in permissions
    /\ permissions' = permissions \ {p}
    /\ granted' = granted \ (TenantRole \X {p})
    /\ stale' = stale \cup {q \in Request : req[q] # Idle}
    /\ UNCHANGED <<roles, members, req, late>>

----------------------------------------------------------------------------
(***************************************************************************)
(* Replacing a set: the ids are tested; a transaction deletes the rows     *)
(* that it sees and inserts the new ones.                                  *)
(***************************************************************************)
SetRolePermissions(r, x, P) ==
    /\ x \in Roles /\ P \subseteq permissions
    /\ Start(r, [op |-> "setPermissions", on |-> {x}, role |-> x, new |-> P,
                 seen |-> {}, begun |-> FALSE])
    /\ UNCHANGED rbacTables

SetUserRoles(r, u, X) ==
    /\ X \subseteq Roles
    /\ Start(r, [op |-> "setRoles", on |-> {u}, user |-> u, new |-> X,
                 seen |-> {}, begun |-> FALSE])
    /\ UNCHANGED rbacTables

\* Mutant: the old rows stay.
DeleteNothing(r, old) ==
    Continue(r, [req[r] EXCEPT !.begun = TRUE]) /\ UNCHANGED rbacTables

DeleteSeen(r, old) ==
    Continue(r, [req[r] EXCEPT !.begun = TRUE, !.seen = old])
        /\ UNCHANGED rbacTables

ReplaceDelete(r) ==
    \/ /\ req[r].op = "setPermissions" /\ ~req[r].begun
       /\ DeleteSeen(r, PermissionsOf(req[r].role))
    \/ /\ req[r].op = "setRoles" /\ ~req[r].begun
       /\ DeleteSeen(r, RolesOf(req[r].user))

\* Foreign keys refuse what has been removed since.
RolePermissionsCommit(r) ==
    LET x == req[r].role IN
    /\ req[r].op = "setPermissions" /\ req[r].begun
    /\ x \in Roles /\ req[r].new \subseteq permissions
    /\ granted' = (granted \ ({x} \X req[r].seen)) \cup ({x} \X req[r].new)
    /\ Commit(r, x)
    /\ UNCHANGED <<roles, permissions, members>>

UserRolesCommit(r) ==
    LET u == req[r].user IN
    /\ req[r].op = "setRoles" /\ req[r].begun
    /\ req[r].new \subseteq Roles
    /\ members' = (members \ ({u} \X req[r].seen)) \cup ({u} \X req[r].new)
    /\ Commit(r, u)
    /\ UNCHANGED <<roles, permissions, granted>>

\* One statement each; a row that is there already is ignored.
AddUserRole(u, x) ==
    /\ x \in Roles
    /\ members' = members \cup {<<u, x>>}
    /\ Touch(u)
    /\ UNCHANGED <<roles, permissions, granted>>

RemoveUserRole(u, x) ==
    /\ x \in Roles
    /\ members' = members \ {<<u, x>>}
    /\ Touch(u)
    /\ UNCHANGED <<roles, permissions, granted>>

AssignDefaultRead(r, u) ==
    /\ Start(r, [op |-> "assign", on |-> {}, user |-> u,
                 new |-> {x \in Roles : roles[x].isDefault}])
    /\ UNCHANGED rbacTables

AssignDefaultInsert(r) ==
    /\ req[r].op = "assign"
    /\ req[r].new \subseteq Roles
    /\ members' = members \cup ({req[r].user} \X req[r].new)
    /\ Commit(r, req[r].user)
    /\ UNCHANGED <<roles, permissions, granted>>

----------------------------------------------------------------------------
(***************************************************************************)
(* Claims: two queries run at once.  Here the roles come first; in the      *)
(* other order a change between them reaches the other answer.             *)
(***************************************************************************)
ReadRoleNames(r, u) ==
    /\ Start(r, [op |-> "claims", on |-> {u} \cup TenantRole, user |-> u,
                 roles |-> RolesOf(u)])
    /\ UNCHANGED rbacTables

PermissionNames(u) == {p \in permissions : \E x \in RolesOf(u) : <<x, p>> \in granted}

ReadPermissionNames(r) ==
    /\ req[r].op = "claims"
    /\ Continue(r, [op |-> "signed", on |-> {}, roles |-> req[r].roles,
                    permissions |-> PermissionNames(req[r].user)])
    /\ UNCHANGED rbacTables

AbandonRbac(r) == Abandon(r) /\ UNCHANGED rbacTables

RbacNext ==
    \/ \E x \in TenantRole, isDefault \in BOOLEAN : CreateRole(x, isDefault)
    \/ \E x \in TenantRole : RemoveRole(x)
    \/ \E p \in Permission : CreatePermission(p) \/ RemovePermission(p)
    \/ \E u \in User, x \in TenantRole : AddUserRole(u, x) \/ RemoveUserRole(u, x)
    \/ \E r \in Request :
        \/ \E x \in TenantRole :
            \/ \E isDefault \in BOOLEAN : UpdateRoleRead(r, x, isDefault)
            \/ \E P \in SUBSET Permission : SetRolePermissions(r, x, P)
        \/ \E u \in User :
            \/ \E X \in SUBSET TenantRole : SetUserRoles(r, u, X)
            \/ AssignDefaultRead(r, u) \/ ReadRoleNames(r, u)
        \/ UpdateRoleSave(r) \/ ReplaceDelete(r) \/ RolePermissionsCommit(r)
        \/ UserRolesCommit(r) \/ AssignDefaultInsert(r)
        \/ ReadPermissionNames(r) \/ AbandonRbac(r)

RbacSpec == RbacInit /\ [][RbacNext]_rbacVars

----------------------------------------------------------------------------
(***************************************************************************)
(* Properties.                                                             *)
(***************************************************************************)
ReplacedExactly(r) ==
    /\ UserRolesCommit(r) =>
           \A u \in {req[r].user} : RolesOf(u)' = req[r].new
    /\ RolePermissionsCommit(r) =>
           \A x \in {req[r].role} : PermissionsOf(x)' = req[r].new

ClaimsAgree(r) ==
    ReadPermissionNames(r) =>
        req'[r].permissions = UNION {PermissionsOf(x) : x \in req[r].roles}

\* A replacement leaves what was asked for and nothing else
\* (rbac.service.ts:161-176), and the permissions in a token are those of the
\* roles in it, although two queries read them (rbac.service.ts:222-249): the
\* union of two sets, or claims that do not agree, need an overlap.
RolesAsAsked ==
    [][\A r \in Request \ stale : ReplacedExactly(r) /\ ClaimsAgree(r)]_rbacVars
=============================================================================
