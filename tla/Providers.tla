----------------------------- MODULE Providers -----------------------------
(***************************************************************************)
(* How administrators create, change and remove the providers of a tenant. *)
(*                                                                         *)
(* The service tests that no two providers claim the same scope and then   *)
(* saves; only the scope without domains is also guarded by unique indexes *)
(* of the database.                                                        *)
(***************************************************************************)
EXTENDS ProviderChoice, Requests

Settings == [client : Client \cup {AnyClient}, domains : SUBSET Domain,
             enabled : BOOLEAN, jit : BOOLEAN]

CONSTANT Sent   \* bound: the settings that administrators send

ASSUME ProvidersAssumption == IsFiniteSet(Provider) /\ Sent \subseteq Settings

providerVars == <<providers, requestVars>>

ProviderWorking == [op : {"create"}, on : {Provider}, row : Row]
           \cup [op : {"update"}, on : {Provider}, id : Provider, row : Row]

ProviderTypeOK ==
    /\ providers \in [Provider -> Row \cup {Unissued}]
    /\ RequestTypeOK(ProviderWorking, Provider)

ProviderInit ==
    /\ providers = [x \in Provider |-> Unissued]
    /\ RequestInit

----------------------------------------------------------------------------
(***************************************************************************)
(* What keeps scopes apart.                                                *)
(***************************************************************************)

\* checkDuplicate: no other provider claims the scope.
ScopeFree(row, except) ==
    \A x \in Live \ except : ~Overlap(row, providers[x])

\* Mutant: there is no index.
IndexMissing(row, except) == row.domains = {} => except \subseteq Provider

\* The two partial unique indexes know the scopes without domains only.
IndexAllows(row, except) ==
    row.domains = {} => ScopeFree(row, except)

----------------------------------------------------------------------------
(***************************************************************************)
(* Administration.                                                         *)
(***************************************************************************)
NewRow(settings, n) ==
    [client |-> settings.client, domains |-> settings.domains,
     enabled |-> settings.enabled, jit |-> settings.jit,
     deleted |-> FALSE, created |-> n]

CreateCheck(r, settings) ==
    /\ ScopeFree(settings, {})
    /\ Start(r, [op |-> "create", on |-> Provider, row |-> NewRow(settings, 0)])
    /\ UNCHANGED providers

Store(r, x, row) ==
    /\ IndexAllows(row, {x})
    /\ providers' = [providers EXCEPT ![x] = row]
    /\ Commit(r, x)

CreateProviderSave(r, x) ==
    /\ req[r].op = "create"
    /\ providers[x] = Unissued
    /\ Store(r, x, [req[r].row EXCEPT !.created =
            Cardinality({y \in Provider : providers[y] # Unissued}) + 1])

\* The scope is tested only when the change touches it.
UpdateCheck(r, x, settings) ==
    LET row == NewRow(settings, providers[x].created) IN
    /\ x \in Live
    /\ \/ row.client = providers[x].client /\ row.domains = providers[x].domains
       \/ ScopeFree(row, {x})
    /\ Start(r, [op |-> "update", on |-> Provider, id |-> x, row |-> row])
    /\ UNCHANGED providers

\* The loaded entity is saved: it undoes what others have changed since,
\* a removal included.
UpdateSave(r) ==
    /\ req[r].op = "update"
    /\ Store(r, req[r].id, req[r].row)

Remove(x) ==
    /\ x \in Live
    /\ providers' = [providers EXCEPT ![x].deleted = TRUE]
    /\ Touch(x)

AbandonProvider(r) == Abandon(r) /\ UNCHANGED providers

ProviderNext ==
    \/ \E r \in Request :
        \/ \E settings \in Sent : CreateCheck(r, settings)
        \/ \E x \in Provider :
            \/ CreateProviderSave(r, x)
            \/ \E settings \in Sent : UpdateCheck(r, x, settings)
        \/ UpdateSave(r) \/ AbandonProvider(r)
    \/ \E x \in Provider : Remove(x)

ProviderSpec == ProviderInit /\ [][ProviderNext]_providerVars

----------------------------------------------------------------------------
(***************************************************************************)
(* Properties.                                                             *)
(***************************************************************************)

AmbiguousOnlyLate ==
    \A x, y \in Live :
        x # y /\ Overlap(providers[x], providers[y]) => x \in late \/ y \in late

OneWithoutDomains ==
    \A x, y \in Live :
        /\ providers[x].domains = {} /\ providers[y].domains = {}
        /\ providers[x].client = providers[y].client
        => x = y

ChoiceIsUnique ==
    \A c \in Client, d \in Domain : \A x, y \in Best(c, d) :
        x = y \/ x \in late \/ y \in late

\* Two providers claim the same scope only if one of them was saved by a
\* request that had read before another committed: without overlap the
\* duplicate check of external-auth.service.ts:362-401 keeps scopes apart, and
\* the indexes leave at most one provider without domains for a client whatever
\* the requests do.  So which of them decides a login
\* (external-auth.service.ts:148-154) does not hang on the order of creation.
ScopesApart == AmbiguousOnlyLate /\ OneWithoutDomains /\ ChoiceIsUnique
=============================================================================
