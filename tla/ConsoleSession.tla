--------------------------- MODULE ConsoleSession ---------------------------
(***************************************************************************)
(* Sessions of administrators: the tabs of one browser, their router, and  *)
(* the storage they share.                                                 *)
(*                                                                         *)
(* A tab copies the token and the assigned tenants from the storage when   *)
(* it is loaded, and the guard of the router asks this copy; requests take *)
(* the token from the storage.  A view reads the tenant of its path when   *)
(* it is set up, and the router sets up a view anew only if the name of    *)
(* the route changes.                                                      *)
(***************************************************************************)
EXTENDS Naturals, FiniteSets

CONSTANTS
    Tab,
    Room,       \* tenants
    Ticket,     \* tokens: bound on the logins
    Nothing     \* no token, no tenant

ASSUME SessionAssumption == Nothing \notin Room \cup Ticket /\ IsFiniteSet(Room)

VARIABLES
    holder,     \* on the server: whose each token is, and whether it has expired
    storage,    \* localStorage
    tab,        \* memory, location, view and call in flight of each tab
    \* History variable: written by the actions, never read by them.
    foreign     \* tabs whose session another tab has replaced or removed from the
                \* storage, or a later login while a call was on its way

sessionVars == <<holder, storage, tab, foreign>>

----------------------------------------------------------------------------
Public == {"login", "forbidden"}
\* The views of a tenant, and those that show an item of it; the dashboard is one
\* of the former.
Scoped == {"list", "item"}
Names == Public \cup Scoped \cup {"platform", "select"}

Memory == [token : {Nothing} \cup Ticket, tenants : SUBSET Room]
NoMemory == [token |-> Nothing, tenants |-> {}]

SessionTypeOK ==
    /\ holder \in [Ticket -> {"unissued", "platform", "tenant"} \X BOOLEAN]
    /\ storage \in Memory
    /\ \A b \in Tab :
        /\ tab[b].memory \in Memory
        /\ tab[b].name \in Names
        /\ {tab[b].tenant, tab[b].page} \subseteq {Nothing} \cup Room
        /\ tab[b].item \in {Nothing} \cup Room
        /\ tab[b].call \subseteq {Nothing} \cup Ticket /\ Cardinality(tab[b].call) <= 1
    /\ foreign \subseteq Tab

SessionInit ==
    /\ holder = [k \in Ticket |-> <<"unissued", FALSE>>]
    /\ storage = NoMemory
    /\ tab = [b \in Tab |->
           [memory |-> NoMemory, name |-> "login", tenant |-> Nothing, page |-> Nothing,
            item |-> Nothing, call |-> {}]]
    /\ foreign = {}

----------------------------------------------------------------------------
(***************************************************************************)
(* The router.  The item is a user or a client: it belongs to a tenant.    *)
(***************************************************************************)
Platform(m) == m.token \in Ticket /\ holder[m.token][1] = "platform"

\* Mutant: whoever has a token may go anywhere.
AllowsTokens(m, name, t) == name \in Public \/ m.token # Nothing

Allows(m, name, t) ==
    \/ name \in Public
    \/ /\ m.token # Nothing
       /\ name = "platform" => Platform(m)
       /\ name \in Scoped /\ ~Platform(m) => t \in m.tenants

\* Tab b with m in memory, once it is at a route.
At(b, m, name, t, x) ==
    [memory |-> m, name |-> name, tenant |-> t, item |-> x, call |-> tab[b].call,
     page |-> IF name = tab[b].name THEN tab[b].page ELSE t]

\* Where a navigation leads.
Go(b, m, name, t, x) ==
    IF Allows(m, name, t) THEN At(b, m, name, t, x)
    ELSE At(b, m, IF m.token = Nothing THEN "login" ELSE "forbidden", Nothing, Nothing)

\* Mutant: the name of a route that is gone.
OldLandingRoute(role, T) ==
    IF role = "platform" THEN <<"admins", Nothing>> ELSE <<"select", Nothing>>

LandingRoute(role, T) ==
    CASE role = "platform" -> <<"platform", Nothing>>
      [] role = "tenant" /\ T = {} -> <<"forbidden", Nothing>>
      [] role = "tenant" /\ Cardinality(T) = 1 -> <<"list", CHOOSE t \in T : TRUE>>
      [] role = "tenant" /\ Cardinality(T) > 1 -> <<"select", Nothing>>

\* Mutant: the session is kept in memory only.
StoreNothing(m) == UNCHANGED storage

Store(m) == storage' = m

\* T: the tenants that are assigned to the administrator when he signs in.
SignIn(b, k, role, T) ==
    /\ tab[b].name = "login"
    /\ holder[k][1] = "unissued"
    /\ role = "platform" => T = {}
    /\ holder' = [holder EXCEPT ![k] = <<role, FALSE>>]
    /\ LET m == [token |-> k, tenants |-> T]
           landing == LandingRoute(role, T)
       IN  /\ Store(m)
           /\ tab' = [tab EXCEPT ![b] = At(b, m, landing[1], landing[2], Nothing)]
    /\ foreign' = (Tab \ {b}) \cup {c \in {b} : tab[c].call # {}}

\* logout of the store: what the tabs share is removed.
Forget(b) ==
    /\ storage' = NoMemory
    /\ tab' = [tab EXCEPT ![b] = At(b, NoMemory, "login", Nothing, Nothing)]
    /\ foreign' = foreign \cup (Tab \ {b})
    /\ UNCHANGED holder

Logout(b) == tab[b].memory.token # Nothing /\ Forget(b)

\* A wrong password is answered 401 as well, and the interceptor does not ask
\* whose session it is: it signs out whoever is signed in in any tab.
RefuseSignIn(b) == tab[b].name = "login" /\ Forget(b)

\* The tab is loaded anew at some address.
Reload(b, name, t) ==
    /\ (name \in Scoped) = (t \in Room)
    /\ LET x == IF name = "item" THEN t ELSE Nothing
           next == Go(b, storage, name, t, x)
       IN  tab' = [tab EXCEPT ![b] = [next EXCEPT !.page = next.tenant, !.call = {}]]
    /\ foreign' = foreign \ {b}
    /\ UNCHANGED <<holder, storage>>

\* Links lead within the tenant of the path, or out of the lists of tenants.
Follow(b, name, t) ==
    /\ tab[b].name \notin Public
    /\ \/ tab[b].name \in Scoped /\ t = tab[b].tenant /\ name \in Scoped
       \/ tab[b].name = "platform" /\ t \in Room /\ name = "list"
       \/ tab[b].name = "select" /\ t \in tab[b].memory.tenants /\ name = "list"
       \/ Platform(tab[b].memory) /\ name = "platform" /\ t = Nothing
    /\ LET x == IF name = "item" THEN t ELSE Nothing
       IN  tab' = [tab EXCEPT ![b] = Go(b, tab[b].memory, name, t, x)]
    /\ UNCHANGED <<holder, storage, foreign>>

KeepsView(b) == tab[b].item = Nothing

SwitchTo(b, t) ==
    /\ tab[b].name \in Scoped /\ t # tab[b].tenant
    /\ t \in tab[b].memory.tenants /\ Cardinality(tab[b].memory.tenants) > 1
    /\ tab' = [tab EXCEPT ![b] =
           IF KeepsView(b) THEN Go(b, tab[b].memory, tab[b].name, t, tab[b].item)
           ELSE Go(b, tab[b].memory, "list", t, Nothing)]
    /\ UNCHANGED <<holder, storage, foreign>>

----------------------------------------------------------------------------
(***************************************************************************)
(* Calls of the views.                                                     *)
(***************************************************************************)
Send(b) ==
    /\ tab[b].name \notin Public /\ tab[b].call = {}
    /\ tab' = [tab EXCEPT ![b].call = {storage.token}]
    /\ UNCHANGED <<holder, storage, foreign>>

Unauthorised(k) == k \in Ticket => holder[k][2]

\* 401, whichever session it belongs to, ends the session of the tab.
RefuseCall(b) ==
    /\ \E k \in tab[b].call : Unauthorised(k)
    /\ storage' = NoMemory
    /\ tab' = [tab EXCEPT ![b] =
           [At(b, NoMemory, "login", Nothing, Nothing) EXCEPT !.call = {}]]
    /\ foreign' = foreign \cup (Tab \ {b})
    /\ UNCHANGED holder

\* An answer, or a 403 of TenantAdminGuard: the session goes on.
Serve(b) ==
    /\ \E k \in tab[b].call : ~Unauthorised(k)
    /\ tab' = [tab EXCEPT ![b].call = {}]
    /\ UNCHANGED <<holder, storage, foreign>>

ExpireTicket(k) ==
    /\ holder[k][1] # "unissued" /\ ~holder[k][2]
    /\ holder' = [holder EXCEPT ![k] = <<@[1], TRUE>>]
    /\ UNCHANGED <<storage, tab, foreign>>

SessionNext ==
    \/ \E b \in Tab :
        \/ Logout(b) \/ RefuseSignIn(b) \/ Send(b) \/ RefuseCall(b) \/ Serve(b)
        \/ \E k \in Ticket, role \in {"platform", "tenant"}, T \in SUBSET Room :
               SignIn(b, k, role, T)
        \/ \E name \in Names, t \in {Nothing} \cup Room :
               Reload(b, name, t) \/ Follow(b, name, t)
        \/ \E t \in Room : SwitchTo(b, t)
    \/ \E k \in Ticket : ExpireTicket(k)

SessionSpec == SessionInit /\ [][SessionNext]_sessionVars

----------------------------------------------------------------------------
(***************************************************************************)
(* Properties.                                                             *)
(***************************************************************************)

\* No login, switch, end of a session or reload with what another tab has left
\* in the storage leads a tab to a view that its own session may not see
\* (router/index.ts:232), be it the view that a switch has kept, nor to the user
\* or client of one tenant in a path of another (TenantSwitcher.vue:54).
LocationIsAllowed ==
    \A b \in Tab :
        LET m == tab[b].memory IN
        /\ m.token = Nothing => tab[b].name \in Public
        /\ tab[b].name = "platform" => Platform(m)
        /\ Platform(m) \/ {tab[b].tenant, tab[b].page} \subseteq {Nothing} \cup m.tenants
        /\ tab[b].item \in {Nothing, tab[b].tenant}

\* A tab that shows a session shows the one in the storage, and its call carries
\* that token (http.ts:9-15), until another tab writes or removes it: by a login,
\* a logout, a call answered 401, or a mere wrong password (http.ts:19-23); or the
\* tab itself signs in again while a call is on its way.  And when the last tab
\* has signed out, or has been, nothing in the storage signs anybody in again
\* (auth.store.ts:89-96).
SessionIsOwn ==
    /\ \A b \in Tab : tab[b].memory.token # Nothing /\ b \notin foreign =>
           /\ storage.token = tab[b].memory.token
           /\ tab[b].call \subseteq {tab[b].memory.token}
    /\ (\A b \in Tab : tab[b].memory.token = Nothing) => storage.token = Nothing
=============================================================================
