---------------------------- MODULE ConsolePages ----------------------------
(***************************************************************************)
(* A list in the console, from the moment its view is mounted.             *)
(*                                                                         *)
(* The views share one skeleton: refs for the rows, a loading flag and an  *)
(* error; a load that replaces the rows when its answer comes, whichever   *)
(* load it belongs to; an action on a row or on the selected rows, and a   *)
(* load after it.  A record says how each of them deviates.                *)
(***************************************************************************)
EXTENDS Naturals, FiniteSets

CONSTANTS
    Item,       \* rows of the list
    Query,      \* combinations of search, filter and page
    AllQuery,   \* the one without a filter
    Load        \* slots: bound on the loads in flight

ASSUME PagesAssumption == AllQuery \in Query

VARIABLES
    page,       \* the view that is mounted
    table,      \* on the server: the queries that list each row
    query,      \* what search, filter and page say
    typed,      \* what has been typed and the debounce timer holds back
    loads,      \* the loads in flight
    loading,    \* the flag
    failed,     \* the last load that ended has failed
    shown,      \* the rows of the list
    selected,   \* the rows ticked
    target,     \* the row named by the dialog that asks for confirmation
    calls,      \* actions sent to the server: the rows, and whether done
    \* History variables: written by the actions, never read by them.
    overtaken,  \* a load was started before another one had ended
    unheard,    \* an action was done and its reply lost since the last load
    midway      \* rows ticked while a load was in flight

pageVars == <<page, table, query, typed, loads, loading, failed, shown, selected,
              target, calls, overtaken, unheard, midway>>
server == <<table, calls>>
shadow == <<unheard, midway>>

----------------------------------------------------------------------------
(***************************************************************************)
(* The views.                                                              *)
(*   debounced   has a search field, which loads 300 ms after the last key *)
(*   filters     has filters and pages, which load at once                 *)
(*   ticks       rows can be selected for a common action                  *)
(*   acts        rows offer an action behind a dialog                      *)
(*   reports     a failed load replaces the list by a message              *)
(*   hides       the list is hidden while it loads, and has no refresh     *)
(*   closes      the dialog closes after a failure as well                 *)
(*   reloads     an action is followed by a load, else the row is dropped  *)
(***************************************************************************)
View ==
    [debounced : BOOLEAN, filters : BOOLEAN, ticks : BOOLEAN, acts : BOOLEAN,
     reports : BOOLEAN, hides : BOOLEAN, closes : BOOLEAN, reloads : BOOLEAN]

UserList ==
    [debounced |-> TRUE, filters |-> TRUE, ticks |-> TRUE, acts |-> TRUE,
     reports |-> TRUE, hides |-> FALSE, closes |-> FALSE, reloads |-> TRUE]

ClientList == [UserList EXCEPT !.ticks = FALSE]

AdminList == [ClientList EXCEPT !.reports = FALSE]

\* Two dialogs, and a button without one; all of them go on alike.
TenantList == AdminList

\* The names behind the ids are fetched first; they may be missing.
AuditLog == [ClientList EXCEPT !.debounced = FALSE, !.acts = FALSE]

RoleList == [ClientList EXCEPT !.debounced = FALSE, !.filters = FALSE, !.closes = TRUE]

PermissionList == RoleList

ScopeList == RoleList

ExternalAuthList == [RoleList EXCEPT !.hides = TRUE, !.reloads = FALSE]

SchemaList == [RoleList EXCEPT !.hides = TRUE, !.acts = FALSE]

Dashboard == SchemaList

Views == {UserList, ClientList, AdminList, TenantList, AuditLog, RoleList,
          PermissionList, ScopeList, ExternalAuthList, SchemaList, Dashboard}

----------------------------------------------------------------------------
NoLoad == [op |-> "none", query |-> AllQuery, rows |-> {}, closes |-> FALSE]

\* closes: the dialog closes when the load ends.
LoadState == [op : {"none", "sent", "answered"}, query : Query, rows : SUBSET Item,
              closes : BOOLEAN]

PageTypeOK ==
    /\ page \in View
    /\ table \in [Item -> SUBSET Query]
    /\ query \in Query /\ typed \subseteq Query
    /\ loads \in [Load -> LoadState]
    /\ {loading, failed, overtaken, unheard} \subseteq BOOLEAN
    /\ shown \subseteq Item /\ selected \subseteq Item /\ midway \subseteq Item
    /\ target \subseteq Item /\ Cardinality(target) <= 1
    /\ calls \subseteq [rows : SUBSET Item, bulk : BOOLEAN, done : BOOLEAN]

InFlight == {l \in Load : loads[l].op # "none"}

Listed(q) == {x \in Item : q \in table[x]}

\* Mounting starts the first load.
PageInit ==
    /\ page \in Views
    /\ table \in [Item -> {Query, {AllQuery}}]
    /\ query = AllQuery /\ typed = {}
    /\ \E l \in Load :
        loads = [k \in Load |-> IF k = l THEN [NoLoad EXCEPT !.op = "sent"] ELSE NoLoad]
    /\ loading = TRUE /\ failed = FALSE
    /\ shown = {} /\ selected = {} /\ target = {} /\ calls = {}
    /\ overtaken = FALSE /\ unheard = FALSE /\ midway = {}

----------------------------------------------------------------------------
(***************************************************************************)
(* Loading.                                                                *)
(***************************************************************************)

ClearSelection == selected' = {} /\ midway' = {}

\* loadPage up to its await.
StartLoad(l, q, closes) ==
    /\ loads[l].op = "none"
    /\ loads' = [loads EXCEPT ![l] = [op |-> "sent", query |-> q, rows |-> {},
                                      closes |-> closes]]
    /\ loading' = TRUE /\ failed' = FALSE
    /\ ClearSelection
    /\ overtaken' = (InFlight # {})
    /\ unheard' = FALSE

Answer(l) ==
    /\ loads[l].op = "sent"
    /\ loads' = [loads EXCEPT ![l] =
           [op |-> "answered", query |-> loads[l].query, rows |-> Listed(loads[l].query),
            closes |-> loads[l].closes]]
    /\ UNCHANGED <<page, server, query, typed, loading, failed, shown, selected, target,
                   overtaken, shadow>>

\* The rest of loadPage, in whichever order the answers arrive.
Deliver(l) ==
    /\ loads[l].op = "answered"
    /\ loads' = [loads EXCEPT ![l] = NoLoad]
    /\ shown' = loads[l].rows
    /\ loading' = FALSE
    /\ target' = IF loads[l].closes THEN {} ELSE target
    /\ UNCHANGED <<page, server, query, typed, failed, selected, overtaken, shadow>>

LoadFails(l) ==
    /\ loads[l].op # "none"
    /\ loads' = [loads EXCEPT ![l] = NoLoad]
    /\ failed' = TRUE
    /\ loading' = FALSE
    /\ target' = IF loads[l].closes THEN {} ELSE target
    /\ UNCHANGED <<page, server, query, typed, shown, selected, overtaken, shadow>>

----------------------------------------------------------------------------
(***************************************************************************)
(* What the user can do.                                                   *)
(***************************************************************************)
TypeSearch(q) ==
    /\ page.debounced
    /\ typed' = {q}
    /\ UNCHANGED <<page, server, query, loads, loading, failed, shown, selected, target,
                   overtaken, shadow>>

\* Mutant: the load is started before the search has been copied.
LoadsOldQuery(l, q) == StartLoad(l, query, FALSE)

LoadsNewQuery(l, q) == StartLoad(l, q, FALSE)

DebounceFires(l, q) ==
    /\ typed = {q}
    /\ query' = q /\ typed' = {}
    /\ LoadsNewQuery(l, q)
    /\ UNCHANGED <<page, server, shown, target>>

\* A filter or the size of a page.
ChangeFilter(l, q) ==
    /\ page.filters
    /\ query' = q
    /\ StartLoad(l, q, FALSE)
    /\ UNCHANGED <<page, server, typed, shown, target>>

\* The buttons for refreshing and for another page are off while it loads; in
\* some views there is only one to try again.
Refresh(l) ==
    /\ ~loading
    /\ page.hides => failed
    /\ StartLoad(l, query, FALSE)
    /\ UNCHANGED <<page, server, query, typed, shown, target>>

\* A list that has rows stays in sight while it loads.
TableVisible == ~(page.reports /\ failed) /\ (loading => ~page.hides /\ shown # {})

ToggleSelect(x) ==
    /\ page.ticks /\ TableVisible /\ x \in shown
    /\ selected' = IF x \in selected THEN selected \ {x} ELSE selected \cup {x}
    /\ midway' = IF InFlight # {} THEN midway \cup {x} ELSE midway
    /\ UNCHANGED <<page, server, query, typed, loads, loading, failed, shown, target,
                   overtaken, unheard>>

Ask(x) ==
    /\ page.acts /\ TableVisible /\ x \in shown
    /\ target' = {x}
    /\ UNCHANGED <<page, server, query, typed, loads, loading, failed, shown, selected,
                   overtaken, shadow>>

Dismiss ==
    /\ target # {}
    /\ target' = {}
    /\ UNCHANGED <<page, server, query, typed, loads, loading, failed, shown, selected,
                   overtaken, shadow>>

\* Nothing keeps the user from confirming twice, but in the list that has the
\* dialog of the browser and switches the button off.
Confirm ==
    /\ target # {}
    /\ page.reloads \/ \A c \in calls : c.rows # target
    /\ calls' = calls \cup {[rows |-> target, bulk |-> FALSE, done |-> FALSE]}
    /\ target' = IF page.reloads THEN target ELSE {}
    /\ UNCHANGED <<page, table, query, typed, loads, loading, failed, shown, selected,
                   overtaken, shadow>>

\* runBulk sends the selection, whether its rows are in the list or not.
RunBulk ==
    /\ selected # {}
    /\ \A c \in calls : ~c.bulk
    /\ calls' = calls \cup {[rows |-> selected, bulk |-> TRUE, done |-> FALSE]}
    /\ UNCHANGED <<page, table, query, typed, loads, loading, failed, shown, selected,
                   target, overtaken, shadow>>

----------------------------------------------------------------------------
(***************************************************************************)
(* Actions on the server: the rows leave the filtered lists, and when they *)
(* are deleted the whole table.                                            *)
(***************************************************************************)
Perform(c) ==
    /\ c \in calls /\ ~c.done
    /\ \E rest \in {{}, {AllQuery}} :
        /\ page.reloads \/ rest = {}
        /\ table' = [x \in Item |-> IF x \in c.rows THEN table[x] \cap rest ELSE table[x]]
    /\ calls' = (calls \ {c}) \cup {[c EXCEPT !.done = TRUE]}
    /\ UNCHANGED <<page, query, typed, loads, loading, failed, shown, selected, target,
                   overtaken, shadow>>

ReloadRows(l) == StartLoad(l, query, page.closes)

Succeed(l, c) ==
    /\ c \in calls /\ c.done
    /\ calls' = calls \ {c}
    /\ target' = IF c.bulk \/ page.closes THEN target ELSE {}
    /\ \/ page.reloads /\ ReloadRows(l) /\ UNCHANGED shown
       \/ /\ ~page.reloads
          /\ shown' = shown \ c.rows
          /\ UNCHANGED <<loads, loading, failed, selected, overtaken, shadow>>
    /\ UNCHANGED <<page, table, query, typed>>

\* The call failed, or its reply was lost: there is no load.
CallFails(c) ==
    /\ c \in calls
    /\ calls' = calls \ {c}
    /\ target' = IF page.closes THEN {} ELSE target
    /\ unheard' = (unheard \/ c.done)
    /\ UNCHANGED <<page, table, query, typed, loads, loading, failed, shown, selected,
                   overtaken, midway>>

PageNext ==
    \/ \E l \in Load :
        \/ Answer(l) \/ Deliver(l) \/ LoadFails(l) \/ Refresh(l)
        \/ \E q \in Query : DebounceFires(l, q) \/ ChangeFilter(l, q)
        \/ \E c \in calls : Succeed(l, c)
    \/ \E q \in Query : TypeSearch(q)
    \/ \E x \in Item : ToggleSelect(x) \/ Ask(x)
    \/ \E c \in calls : Perform(c) \/ CallFails(c)
    \/ Dismiss \/ Confirm \/ RunBulk

PageSpec == PageInit /\ [][PageNext]_pageVars

----------------------------------------------------------------------------
(***************************************************************************)
(* Properties.                                                             *)
(***************************************************************************)
Quiet == InFlight = {} /\ calls = {}

ShownIsCurrent ==
    Quiet /\ ~overtaken /\ ~failed /\ ~unheard => shown = Listed(query)

SelectionIsShown == selected \ midway \subseteq shown

\* What is in sight, with nothing on its way, is what the server holds for the
\* filter in sight: every change of the filter and every action is followed by
\* a load (UserListView.vue:114-189); only loads that overtook others, a load
\* that failed or a lost reply leave something else.  And no row is ticked that
\* is not in the list (UserListView.vue:117), unless it was ticked while the
\* next list was on its way.
ListIsTrue == ShownIsCurrent /\ SelectionIsShown
=============================================================================
