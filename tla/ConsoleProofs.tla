--------------------------- MODULE ConsoleProofs ----------------------------
(***************************************************************************)
(* The web console: lists, forms, the page that shows a secret, and the    *)
(* session that tabs share.                                                *)
(*                                                                         *)
(* Each invariant says what the copy that the browser holds has to do with *)
(* the original, and what in flight can still change that.                 *)
(***************************************************************************)
EXTENDS ConsolePages, ConsoleForms, ConsoleSecret, ConsoleSession, FiniteSetTheorems, TLAPS

-----------------------------------------------------------------------------
(***************************************************************************)
(* The list in sight.                                                      *)
(***************************************************************************)
CallState == [rows : SUBSET Item, bulk : BOOLEAN, done : BOOLEAN]

PageTypes ==
    /\ page \in Views
    /\ query \in Query /\ typed \subseteq Query
    /\ loads \in [Load -> LoadState]
    /\ shown \subseteq Item /\ selected \subseteq Item /\ target \subseteq Item
    /\ calls \subseteq CallState

\* A call has been done on the row, and the view has not heard of it yet.
Touched(x) == \E c \in calls : c.done /\ x \in c.rows

\* The load in flight, if it is alone, is for the query in sight.
OneLoad ==
    ~overtaken => \A l \in InFlight :
                      /\ loads[l].query = query
                      /\ \A k \in InFlight : k = l

\* What is in sight, or about to be, is right but for the rows touched since.
KnownIsCurrent ==
    ~overtaken /\ ~unheard =>
        \A x \in Item :
            \/ Touched(x)
            \/ /\ \A l \in InFlight : loads[l].op = "answered" =>
                      (x \in loads[l].rows <=> query \in table[x])
               /\ InFlight = {} /\ ~failed => (x \in shown <=> query \in table[x])

\* A list that drops a row instead of loading anew shows nothing while it loads,
\* and what has been done to a row has deleted it.
DropsDeleted ==
    ~page.reloads =>
        /\ ~overtaken /\ selected = {} /\ typed = {}
        /\ InFlight # {} => loading /\ ~failed
        /\ InFlight # {} \/ failed => shown = {} /\ calls = {} /\ target = {}
        /\ \A x \in Item : Touched(x) => table[x] = {}

PageIInv ==
    /\ PageTypes /\ OneLoad /\ KnownIsCurrent /\ DropsDeleted
    /\ InFlight # {} => selected \subseteq midway
    /\ SelectionIsShown

\* The view that does not load anew after an action has neither search nor
\* filters nor boxes to tick, and no button to refresh what is in sight.
LEMMA ViewFacts ==
    \A v \in Views : /\ v.closes \in BOOLEAN
                     /\ ~v.reloads => v.hides /\ ~v.debounced /\ ~v.filters /\ ~v.ticks
<1>1. /\ UserList.reloads /\ UserList.closes \in BOOLEAN
      /\ ClientList.reloads /\ ClientList.closes \in BOOLEAN
      /\ AdminList.reloads /\ AdminList.closes \in BOOLEAN
      /\ AuditLog.reloads /\ AuditLog.closes \in BOOLEAN
      /\ RoleList.reloads /\ RoleList.closes \in BOOLEAN
      /\ SchemaList.reloads /\ SchemaList.closes \in BOOLEAN
  BY DEF UserList, ClientList, AdminList, AuditLog, RoleList, SchemaList
<1>2. /\ ExternalAuthList.closes \in BOOLEAN /\ ExternalAuthList.hides
      /\ ~ExternalAuthList.debounced /\ ~ExternalAuthList.filters /\ ~ExternalAuthList.ticks
  BY DEF UserList, ClientList, RoleList, ExternalAuthList
<1> QED BY <1>1, <1>2 DEF Views, TenantList, PermissionList, ScopeList, Dashboard

\* An empty slot.
LEMMA NoLoadFacts == NoLoad \in LoadState /\ NoLoad.op = "none"
BY PagesAssumption DEF NoLoad, LoadState

\* What becomes of the loads when one of them moves.
LEMMA LoadMoves ==
    ASSUME PageTypes, NEW l \in Load, NEW w \in LoadState, loads' = [loads EXCEPT ![l] = w]
    PROVE  /\ loads' \in [Load -> LoadState] /\ loads'[l] = w
           /\ \A k \in Load \ {l} : loads'[k] = loads[k]
           /\ \A k \in Load : k \in InFlight' <=> (k = l /\ w.op # "none") \/ (k # l /\ k \in InFlight)
BY DEF PageTypes, InFlight

\* A load that is started forgets what was known before.
LEMMA LoadStarts ==
    ASSUME PageIInv, NEW l \in Load, NEW q \in Query, NEW closes \in BOOLEAN,
           StartLoad(l, q, closes), query' = q, UNCHANGED <<page, shown>>,
           typed' \subseteq Query, target' \subseteq Item, calls' \subseteq CallState,
           typed' \in {{}, typed},
           page.reloads \/ (InFlight = {} /\ failed /\ calls' = calls /\ target' = target)
    PROVE  PageIInv'
<1> DEFINE w == [op |-> "sent", query |-> q, rows |-> {}, closes |-> closes]
<1>1. w \in LoadState /\ w.op = "sent" /\ w.query = q
  BY DEF LoadState
<1>2. /\ loads' = [loads EXCEPT ![l] = w] /\ loading' /\ ~failed'
      /\ selected' = {} /\ midway' = {} /\ overtaken' = (InFlight # {})
  BY DEF StartLoad, ClearSelection
<1> HIDE DEF w
<1>3. /\ loads' \in [Load -> LoadState] /\ loads'[l] = w
      /\ \A k \in Load \ {l} : loads'[k] = loads[k]
      /\ \A k \in Load : k \in InFlight' <=> k = l \/ k \in InFlight
  BY <1>1, <1>2, LoadMoves DEF PageIInv
<1>4. InFlight' \subseteq Load
  BY DEF InFlight
<1>5. PageTypes'
  BY <1>2, <1>3 DEF PageIInv, PageTypes
<1>6. OneLoad'
  BY <1>1, <1>2, <1>3, <1>4 DEF OneLoad
<1>7. KnownIsCurrent'
  <2>1. CASE InFlight = {}
    <3>1. \A k \in InFlight' : loads'[k].op # "answered"
      BY <1>1, <1>3, <1>4, <2>1
    <3>2. InFlight' # {}
      BY <1>3
    <3> QED BY <3>1, <3>2 DEF KnownIsCurrent
  <2>2. CASE InFlight # {}
    BY <1>2, <2>2 DEF KnownIsCurrent
  <2> QED BY <2>1, <2>2
<1>8. DropsDeleted'
  <2> SUFFICES ASSUME ~page.reloads PROVE DropsDeleted'
    BY DEF DropsDeleted
  <2>1. shown = {} /\ calls' = {} /\ target' = {} /\ typed' = {}
    BY DEF PageIInv, DropsDeleted
  <2>2. \A x \in Item : ~Touched(x)'
    BY <2>1 DEF Touched
  <2> QED BY <1>2, <2>1, <2>2 DEF DropsDeleted
<1>9. SelectionIsShown'
  BY <1>2 DEF SelectionIsShown
<1> QED BY <1>2, <1>5, <1>6, <1>7, <1>8, <1>9 DEF PageIInv

\* A click that starts no load.
LEMMA Clicks ==
    ASSUME PageIInv,
           UNCHANGED <<page, table, query, loads, loading, failed, shown, overtaken, unheard>>,
           typed' \subseteq Query, target' \subseteq Item, calls' \subseteq CallState,
           selected' \subseteq Item,
           \A x : Touched(x)' <=> Touched(x),
           ~page.reloads /\ (InFlight # {} \/ failed) => calls' = {} /\ target' = {},
           ~page.reloads => selected' = {} /\ typed' = {},
           InFlight # {} => selected' \subseteq midway',
           SelectionIsShown'
    PROVE  PageIInv'
<1>1. InFlight' = InFlight
  BY DEF InFlight
<1>2. PageTypes'
  BY DEF PageIInv, PageTypes
<1>3. OneLoad'
  BY <1>1 DEF PageIInv, OneLoad
<1>4. KnownIsCurrent'
  BY <1>1 DEF PageIInv, KnownIsCurrent
<1>5. DropsDeleted'
  BY <1>1 DEF PageIInv, DropsDeleted
<1> QED BY <1>1, <1>2, <1>3, <1>4, <1>5 DEF PageIInv

\* The answer of the server.
LEMMA AnswerStep == ASSUME PageIInv, NEW l \in Load, Answer(l) PROVE PageIInv'
<1> DEFINE w == [op |-> "answered", query |-> loads[l].query, rows |-> Listed(loads[l].query),
                 closes |-> loads[l].closes]
<1>1. /\ w \in LoadState /\ w.op = "answered" /\ w.query = loads[l].query
      /\ w.rows = Listed(loads[l].query)
  BY DEF PageIInv, PageTypes, LoadState, Listed
<1>2. /\ loads[l].op = "sent" /\ loads' = [loads EXCEPT ![l] = w]
      /\ UNCHANGED <<page, table, calls, query, typed, loading, failed, shown, selected, target,
                     overtaken, unheard, midway>>
  BY DEF Answer, server, shadow
<1> HIDE DEF w
<1>3. /\ loads' \in [Load -> LoadState] /\ loads'[l] = w
      /\ \A k \in Load \ {l} : loads'[k] = loads[k]
      /\ InFlight' = InFlight /\ l \in InFlight /\ InFlight \subseteq Load
  BY <1>1, <1>2, LoadMoves DEF PageIInv, InFlight
<1>4. PageTypes'
  BY <1>2, <1>3 DEF PageIInv, PageTypes
<1>5. OneLoad'
  BY <1>1, <1>2, <1>3 DEF PageIInv, OneLoad
<1>6. KnownIsCurrent'
  <2> SUFFICES ASSUME ~overtaken PROVE KnownIsCurrent'
    BY <1>2 DEF KnownIsCurrent
  <2>1. \A k \in InFlight : k = l /\ loads'[k].rows = Listed(query)
    BY <1>1, <1>3 DEF PageIInv, OneLoad
  <2>2. \A x \in Item : x \in Listed(query) <=> query \in table[x]
    BY DEF Listed
  <2> QED BY <1>2, <1>3, <2>1, <2>2 DEF KnownIsCurrent
<1>7. DropsDeleted'
  BY <1>2, <1>3 DEF PageIInv, DropsDeleted, Touched
<1> QED BY <1>2, <1>3, <1>4, <1>5, <1>6, <1>7 DEF PageIInv, SelectionIsShown

\* A load ends, with an answer or without.
LEMMA LoadEnds ==
    ASSUME PageIInv, NEW l \in Load, loads[l].op # "none", loads' = [loads EXCEPT ![l] = NoLoad],
           UNCHANGED <<page, table, calls, query, typed, selected, overtaken, unheard, midway>>,
           ~loading', target' \in {{}, target},
           \/ loads[l].op = "answered" /\ shown' = loads[l].rows /\ failed' = failed
           \/ shown' = shown /\ failed'
    PROVE  PageIInv'
<1>1. /\ loads' \in [Load -> LoadState]
      /\ InFlight' = InFlight \ {l} /\ l \in InFlight /\ InFlight \subseteq Load
      /\ \A k \in InFlight' : loads'[k] = loads[k]
  BY NoLoadFacts, LoadMoves DEF PageIInv, InFlight
<1>2. shown' \subseteq Item
  BY DEF PageIInv, PageTypes, LoadState
<1>3. PageTypes'
  BY <1>1, <1>2 DEF PageIInv, PageTypes
<1>4. OneLoad'
  BY <1>1 DEF PageIInv, OneLoad
<1>5. ~overtaken => InFlight' = {}
  BY <1>1 DEF PageIInv, OneLoad
<1>6. KnownIsCurrent'
  <2> SUFFICES ASSUME ~overtaken, ~unheard, NEW x \in Item, ~Touched(x), ~failed'
               PROVE  x \in shown' <=> query \in table[x]
    BY <1>5 DEF KnownIsCurrent, Touched
  <2> QED BY <1>1 DEF PageIInv, KnownIsCurrent
<1>7. DropsDeleted'
  <2> SUFFICES ASSUME ~page.reloads PROVE DropsDeleted'
    BY DEF DropsDeleted
  <2>1. InFlight' = {} /\ shown = {} /\ calls = {} /\ target = {} /\ ~failed
    BY <1>1, <1>5 DEF PageIInv, DropsDeleted
  <2> QED BY <2>1 DEF PageIInv, DropsDeleted, Touched
<1>8. selected \subseteq midway
  BY <1>1 DEF PageIInv
<1> QED BY <1>3, <1>4, <1>6, <1>7, <1>8 DEF PageIInv, SelectionIsShown

\* The server does what it was asked.
LEMMA PerformStep == ASSUME PageIInv, NEW c \in calls, Perform(c) PROVE PageIInv'
<1> DEFINE d == [c EXCEPT !.done = TRUE]
<1>1. c \in CallState /\ d \in CallState /\ d.done /\ d.rows = c.rows
  BY DEF PageIInv, PageTypes, CallState
<1>2. /\ ~c.done /\ calls' = (calls \ {c}) \cup {d}
      /\ UNCHANGED <<page, query, typed, loads, loading, failed, shown, selected, target,
                     overtaken, unheard, midway>>
  BY DEF Perform, shadow
<1> HIDE DEF d
<1>3. \A x : Touched(x)' <=> Touched(x) \/ x \in c.rows
  BY <1>1, <1>2 DEF Touched
<1>4. /\ \A x \in Item \ c.rows : table'[x] = table[x]
      /\ ~page.reloads => \A x \in c.rows : table'[x] = {}
  BY <1>1 DEF Perform, CallState
<1>5. InFlight' = InFlight
  BY <1>2 DEF InFlight
<1>6. PageTypes'
  BY <1>1, <1>2 DEF PageIInv, PageTypes
<1>7. OneLoad'
  BY <1>2, <1>5 DEF PageIInv, OneLoad
<1>8. KnownIsCurrent'
  BY <1>2, <1>3, <1>4, <1>5 DEF PageIInv, KnownIsCurrent
<1>9. DropsDeleted'
  <2> SUFFICES ASSUME ~page.reloads PROVE DropsDeleted'
    BY <1>2 DEF DropsDeleted
  <2>1. InFlight = {} /\ ~failed
    BY DEF PageIInv, DropsDeleted
  <2>2. \A x \in Item : Touched(x)' => table'[x] = {}
    BY <1>3, <1>4 DEF PageIInv, DropsDeleted
  <2> QED BY <1>2, <1>5, <2>1, <2>2 DEF PageIInv, DropsDeleted
<1> QED BY <1>2, <1>5, <1>6, <1>7, <1>8, <1>9 DEF PageIInv, SelectionIsShown

\* The list drops the rows instead of loading anew.
LEMMA DropStep ==
    ASSUME PageIInv, NEW c \in calls, c.done, ~page.reloads,
           calls' = calls \ {c}, target' \in {{}, target}, shown' = shown \ c.rows,
           UNCHANGED <<page, table, query, typed, loads, loading, failed, selected, overtaken,
                       unheard, midway>>
    PROVE  PageIInv'
<1>1. InFlight = {} /\ InFlight' = {} /\ ~failed /\ selected = {}
  BY DEF PageIInv, DropsDeleted, InFlight
<1>2. \A x \in Item : Touched(x) <=> Touched(x)' \/ x \in c.rows
  BY DEF Touched
<1>3. \A x \in c.rows : x \in Item => table[x] = {}
  BY <1>2 DEF PageIInv, DropsDeleted
<1>4. PageTypes'
  BY DEF PageIInv, PageTypes
<1>5. OneLoad'
  BY <1>1 DEF OneLoad
<1>6. KnownIsCurrent'
  BY <1>1, <1>2, <1>3 DEF PageIInv, KnownIsCurrent
<1>7. DropsDeleted'
  BY <1>1, <1>2 DEF PageIInv, DropsDeleted
<1> QED BY <1>1, <1>4, <1>5, <1>6, <1>7 DEF PageIInv, SelectionIsShown

\* A call fails, or its reply is lost.
LEMMA CallFailsStep == ASSUME PageIInv, NEW c \in calls, CallFails(c) PROVE PageIInv'
<1>1. /\ calls' = calls \ {c} /\ target' \in {{}, target} /\ unheard' = (unheard \/ c.done)
      /\ UNCHANGED <<page, table, query, typed, loads, loading, failed, shown, selected, overtaken,
                     midway>>
  BY DEF CallFails
<1>2. \A x : /\ Touched(x)' => Touched(x)
             /\ ~c.done => (Touched(x)' <=> Touched(x))
  BY <1>1 DEF Touched
<1>3. InFlight' = InFlight
  BY <1>1 DEF InFlight
<1>4. PageTypes'
  BY <1>1 DEF PageIInv, PageTypes
<1>5. OneLoad'
  BY <1>1, <1>3 DEF PageIInv, OneLoad
<1>6. KnownIsCurrent'
  BY <1>1, <1>2, <1>3 DEF PageIInv, KnownIsCurrent
<1>7. DropsDeleted'
  BY <1>1, <1>2, <1>3 DEF PageIInv, DropsDeleted
<1> QED BY <1>1, <1>3, <1>4, <1>5, <1>6, <1>7 DEF PageIInv, SelectionIsShown

\* Every operation keeps the invariant.
LEMMA PageStep == PageIInv /\ [PageNext]_pageVars => PageIInv'
<1> SUFFICES ASSUME PageIInv, [PageNext]_pageVars PROVE PageIInv'
  OBVIOUS
<1>0. /\ page.closes \in BOOLEAN
      /\ ~page.reloads => page.hides /\ ~page.debounced /\ ~page.filters /\ ~page.ticks
      /\ ~page.reloads =>
            /\ ~loading => InFlight = {}
            /\ failed => calls = {} /\ target = {}
            /\ typed = {}
      /\ query \in Query /\ typed \subseteq Query /\ target \subseteq Item
      /\ calls \subseteq CallState /\ selected \subseteq Item /\ shown \subseteq Item
  BY ViewFacts DEF PageIInv, PageTypes, DropsDeleted
<1>1. ASSUME NEW l \in Load, Answer(l) PROVE PageIInv'
  BY <1>1, AnswerStep
<1>2. ASSUME NEW l \in Load, Deliver(l) PROVE PageIInv'
  <2>1. /\ loads[l].op = "answered" /\ loads' = [loads EXCEPT ![l] = NoLoad]
        /\ shown' = loads[l].rows /\ ~loading' /\ target' \in {{}, target} /\ failed' = failed
        /\ UNCHANGED <<page, table, calls, query, typed, selected, overtaken, unheard, midway>>
    BY <1>2 DEF Deliver, server, shadow
  <2> QED BY <2>1, LoadEnds
<1>3. ASSUME NEW l \in Load, LoadFails(l) PROVE PageIInv'
  <2>1. /\ loads[l].op # "none" /\ loads' = [loads EXCEPT ![l] = NoLoad]
        /\ shown' = shown /\ ~loading' /\ target' \in {{}, target} /\ failed'
        /\ UNCHANGED <<page, table, calls, query, typed, selected, overtaken, unheard, midway>>
    BY <1>3 DEF LoadFails, server, shadow
  <2> QED BY <2>1, LoadEnds
<1>4. ASSUME NEW l \in Load, Refresh(l) PROVE PageIInv'
  <2>1. /\ StartLoad(l, query, FALSE) /\ ~loading
        /\ page.hides => failed
        /\ UNCHANGED <<page, table, calls, query, typed, shown, target>>
    BY <1>4 DEF Refresh, server
  <2> QED BY <1>0, <2>1, LoadStarts
<1>5. ASSUME NEW l \in Load, NEW q \in Query, DebounceFires(l, q) PROVE PageIInv'
  <2>1. /\ StartLoad(l, q, FALSE) /\ typed = {q} /\ query' = q /\ typed' = {}
        /\ UNCHANGED <<page, table, calls, shown, target>>
    BY <1>5 DEF DebounceFires, LoadsNewQuery, server
  <2>2. page.reloads
    BY <1>0, <2>1
  <2> QED BY <1>0, <2>1, <2>2, LoadStarts
<1>6. ASSUME NEW l \in Load, NEW q \in Query, ChangeFilter(l, q) PROVE PageIInv'
  <2>1. /\ StartLoad(l, q, FALSE) /\ page.filters /\ query' = q
        /\ UNCHANGED <<page, table, calls, typed, shown, target>>
    BY <1>6 DEF ChangeFilter, server
  <2>2. page.reloads
    BY <1>0, <2>1
  <2> QED BY <1>0, <2>1, <2>2, LoadStarts
<1>7. ASSUME NEW l \in Load, NEW c \in calls, Succeed(l, c) PROVE PageIInv'
  <2>1. /\ c.done /\ calls' = calls \ {c} /\ target' \in {{}, target}
        /\ UNCHANGED <<page, table, query, typed>>
    BY <1>7 DEF Succeed
  <2>2. CASE page.reloads /\ ReloadRows(l) /\ UNCHANGED shown
    BY <1>0, <2>1, <2>2, LoadStarts DEF ReloadRows
  <2>3. CASE /\ ~page.reloads /\ shown' = shown \ c.rows
             /\ UNCHANGED <<loads, loading, failed, selected, overtaken, shadow>>
    BY <2>1, <2>3, DropStep DEF shadow
  <2> QED BY <1>7, <2>2, <2>3 DEF Succeed
<1>8. ASSUME NEW q \in Query, TypeSearch(q) PROVE PageIInv'
  BY <1>0, <1>8, Clicks DEF TypeSearch, server, shadow, PageIInv, DropsDeleted, Touched, SelectionIsShown
<1>9. ASSUME NEW x \in Item, ToggleSelect(x) PROVE PageIInv'
  BY <1>0, <1>9, Clicks DEF ToggleSelect, server, PageIInv, DropsDeleted, Touched, SelectionIsShown
<1>10. ASSUME NEW x \in Item, Ask(x) PROVE PageIInv'
  BY <1>0, <1>10, Clicks DEF Ask, server, shadow, PageIInv, DropsDeleted, Touched, SelectionIsShown
<1>11. ASSUME NEW c \in calls, Perform(c) PROVE PageIInv'
  BY <1>11, PerformStep
<1>12. ASSUME NEW c \in calls, CallFails(c) PROVE PageIInv'
  BY <1>12, CallFailsStep
<1>13. CASE Dismiss
  BY <1>0, <1>13, Clicks DEF Dismiss, server, shadow, PageIInv, DropsDeleted, Touched, SelectionIsShown
<1>14. CASE Confirm
  <2> DEFINE c == [rows |-> target, bulk |-> FALSE, done |-> FALSE]
  <2>1. c \in CallState /\ ~c.done
    BY <1>0 DEF CallState
  <2>2. /\ target # {} /\ calls' = calls \cup {c} /\ target' \in {{}, target}
        /\ UNCHANGED <<page, table, query, typed, loads, loading, failed, shown, selected,
                       overtaken, unheard, midway>>
    BY <1>14 DEF Confirm, shadow
  <2> HIDE DEF c
  <2>3. \A x : Touched(x)' <=> Touched(x)
    BY <2>1, <2>2 DEF Touched
  <2> QED BY <1>0, <2>1, <2>2, <2>3, Clicks DEF PageIInv, DropsDeleted, SelectionIsShown
<1>15. CASE RunBulk
  <2> DEFINE c == [rows |-> selected, bulk |-> TRUE, done |-> FALSE]
  <2>1. c \in CallState /\ ~c.done
    BY <1>0 DEF CallState
  <2>2. /\ selected # {} /\ calls' = calls \cup {c}
        /\ UNCHANGED <<page, table, query, typed, loads, loading, failed, shown, selected, target,
                       overtaken, unheard, midway>>
    BY <1>15 DEF RunBulk, shadow
  <2> HIDE DEF c
  <2>3. \A x : Touched(x)' <=> Touched(x)
    BY <2>1, <2>2 DEF Touched
  <2> QED BY <1>0, <2>1, <2>2, <2>3, Clicks DEF PageIInv, DropsDeleted, SelectionIsShown
<1>16. CASE UNCHANGED pageVars
  BY <1>0, <1>16, Clicks DEF pageVars, PageIInv, DropsDeleted, Touched, SelectionIsShown
<1> QED BY <1>1, <1>2, <1>3, <1>4, <1>5, <1>6, <1>7, <1>8, <1>9, <1>10, <1>11, <1>12, <1>13,
           <1>14, <1>15, <1>16 DEF PageNext

\* It holds of a view that has been mounted: its first load is on its way.
LEMMA PageInitial == PageInit => PageIInv
<1> SUFFICES ASSUME PageInit PROVE PageIInv
  OBVIOUS
<1>1. PICK l \in Load :
        loads = [k \in Load |-> IF k = l THEN [NoLoad EXCEPT !.op = "sent"] ELSE NoLoad]
  BY DEF PageInit
<1>2. /\ page \in Views /\ query = AllQuery /\ typed = {} /\ loading /\ ~failed /\ ~overtaken
      /\ shown = {} /\ selected = {} /\ target = {} /\ calls = {}
  BY DEF PageInit
<1>3. /\ [NoLoad EXCEPT !.op = "sent"] \in LoadState
      /\ [NoLoad EXCEPT !.op = "sent"].op = "sent"
      /\ [NoLoad EXCEPT !.op = "sent"].query = AllQuery
  BY PagesAssumption DEF NoLoad, LoadState
<1>4. /\ loads \in [Load -> LoadState] /\ InFlight = {l}
      /\ loads[l].op = "sent" /\ loads[l].query = AllQuery
  BY <1>1, <1>3, NoLoadFacts DEF InFlight
<1>5. \A x : ~Touched(x)
  BY <1>2 DEF Touched
<1>6. PageTypes
  BY <1>2, <1>4, PagesAssumption DEF PageTypes
<1>7. OneLoad
  BY <1>2, <1>4 DEF OneLoad
<1>8. KnownIsCurrent
  BY <1>4 DEF KnownIsCurrent
<1>9. DropsDeleted
  BY <1>2, <1>4, <1>5 DEF DropsDeleted
<1> QED BY <1>2, <1>6, <1>7, <1>8, <1>9 DEF PageIInv, SelectionIsShown

\* With nothing on its way, the rows in sight are those that the server holds for
\* the filter in sight, and the rows ticked are among them, for any number of rows,
\* queries, loads and calls, unless loads overtook each other, the last one failed, a
\* reply was lost, or a row was ticked while the next list was on its way
\* (UserListView.vue:114-189).
THEOREM ListsAreTrue == PageSpec => []ListIsTrue
<1>1. PageIInv => ListIsTrue
  <2> SUFFICES ASSUME PageIInv PROVE ListIsTrue
    OBVIOUS
  <2>1. ShownIsCurrent
    <3> SUFFICES ASSUME Quiet, ~overtaken, ~failed, ~unheard PROVE shown = Listed(query)
      BY DEF ShownIsCurrent
    <3>1. \A x \in Item : ~Touched(x)
      BY DEF Quiet, Touched
    <3>2. \A x \in Item : x \in shown <=> query \in table[x]
      BY <3>1 DEF PageIInv, KnownIsCurrent, Quiet
    <3> QED BY <3>2 DEF PageIInv, PageTypes, Listed
  <2> QED BY <2>1 DEF PageIInv, ListIsTrue
<1> QED BY <1>1, PageInitial, PageStep, PTL DEF PageSpec

-----------------------------------------------------------------------------
(***************************************************************************)
(* Forms and dialogs.                                                      *)
(***************************************************************************)
SaveState == [op : {"none", "sent", "done", "refused"}, value : Content, basis : Content]

\* One call at a time, and only from a form that is offered.
CallsOneByOne ==
    /\ \A k \in Save : saves[k].op # "none" => saving /\ Offered
    /\ \A k, l \in Save : saves[k].op # "none" /\ saves[l].op # "none" => k = l

\* A form that waits for its content carries what the resource still holds,
\* unless somebody has written it since.
SeenIsBasis ==
    ~form.early /\ ~form.creates =>
        /\ phase = "filled" => changed \/ basis = stored
        /\ \A k \in Save :
            /\ saves[k].op = "sent" => changed \/ saves[k].basis = stored \/ phase = "failed"
            /\ saves[k].op = "done" => changed
        /\ wiped => form.blank /\ phase \in {"failed", "left"}

\* A form that could create a second one has heard of the first one, is about to,
\* or never will.
CreationKnown ==
    /\ form.creates => ~wiped
    /\ ~form.creates => copies = 0
    /\ form.unique => copies < 2
    /\ form.creates /\ copies # 0 /\ ~form.unique /\ ~lostReply =>
           phase = "left" \/ \E k \in Save : saves[k].op = "done"

FormIInv ==
    /\ form \in Forms
    /\ phase \in {"loading", "filled", "failed", "left"}
    /\ saves \in [Save -> SaveState]
    /\ {fields, basis, stored} \subseteq Content
    /\ copies \in Nat
    /\ CallsOneByOne /\ SeenIsBasis /\ CreationKnown
    /\ SavedAsSeen

\* A form that can create the same thing twice closes when it has; one that can
\* be saved before it has been filled changes a resource.
LEMMA FormsFacts ==
    \A f \in Forms : /\ f.creates /\ ~f.unique => ~f.stays
                     /\ f.early => ~f.creates /\ f.blank
<1>1. /\ ~RoleEdit.creates /\ RoleEdit.unique /\ ~RoleEdit.stays /\ ~RoleEdit.early
      /\ RoleNew.unique /\ ~RoleNew.stays /\ ~RoleNew.early
      /\ LoginPage.unique /\ ~LoginPage.early
      /\ Registration.unique /\ ~Registration.early
      /\ ~ClientNew.stays /\ ~ClientNew.early
      /\ ~UserEdit.creates /\ ~UserEdit.early
      /\ ~UserRoles.creates /\ ~UserRoles.early
      /\ ~TenantSettings.creates /\ ~TenantSettings.early
      /\ ~OwnProfile.creates /\ ~OwnProfile.early
      /\ ~SchemaPublish.creates /\ SchemaPublish.blank
  BY DEF RoleEdit, RoleNew, LoginPage, Registration, ClientNew, UserEdit, UserRoles,
         TenantSettings, OwnProfile, SchemaPublish
<1> QED
  BY <1>1
  DEF Forms, PermissionEdit, ScopeEdit, AdminEdit, PermissionNew, ScopeNew, AdminNew, TenantNew,
      UserNew, Bootstrap, ChangePassword, ResetPassword, ForgotPassword, ProviderNew,
      RolePermissions, ProviderEdit, ClientEdit

\* An empty slot.
LEMMA NoSaveFacts == NoSave \in SaveState /\ NoSave.op = "none"
BY FormsAssumption DEF NoSave, SaveState

\* What becomes of the calls when one of them moves.
LEMMA SaveMoves ==
    ASSUME FormIInv, NEW k \in Save, NEW w \in SaveState, saves' = [saves EXCEPT ![k] = w]
    PROVE  /\ saves' \in [Save -> SaveState] /\ saves'[k] = w
           /\ \A l \in Save \ {k} : saves'[l] = saves[l]
           /\ saves[k].op # "none" => \A l \in Save \ {k} : saves'[l].op = "none"
BY DEF FormIInv, CallsOneByOne

\* Every operation keeps the invariant.
LEMMA FormStep == FormIInv /\ [FormNext]_formVars => FormIInv'
<1> SUFFICES ASSUME FormIInv, [FormNext]_formVars PROVE FormIInv'
  OBVIOUS
<1>0. /\ form.creates /\ ~form.unique => ~form.stays
      /\ form.early => ~form.creates /\ form.blank
  BY FormsFacts DEF FormIInv
<1>1. CASE Fill
  <2>1. /\ phase = "loading" /\ phase' = "filled" /\ basis' = stored /\ fields' = stored
        /\ UNCHANGED <<form, saving, saves, stored, copies, wiped, lostReply>>
    BY <1>1 DEF Fill
  <2>2. CallsOneByOne'
    BY <2>1 DEF FormIInv, CallsOneByOne, Offered
  <2>3. SeenIsBasis'
    BY <2>1 DEF FormIInv, CallsOneByOne, SeenIsBasis, Offered
  <2>4. CreationKnown'
    BY <2>1 DEF FormIInv, CreationKnown
  <2>5. SavedAsSeen'
    BY <2>1 DEF FormIInv, SeenIsBasis, CreationKnown, SavedAsSeen, NothingWipedUnseen, OneCreation
  <2> QED BY <2>1, <2>2, <2>3, <2>4, <2>5 DEF FormIInv
<1>2. CASE FillFails
  <2>1. /\ phase = "loading" /\ phase' = "failed"
        /\ UNCHANGED <<form, fields, basis, saving, saves, stored, copies, formShadow>>
    BY <1>2 DEF FillFails
  <2>2. CallsOneByOne'
    BY <1>0, <2>1 DEF FormIInv, CallsOneByOne, Offered
  <2>3. SeenIsBasis'
    BY <2>1 DEF FormIInv, SeenIsBasis, formShadow
  <2>4. CreationKnown'
    BY <2>1 DEF FormIInv, CreationKnown, formShadow
  <2>5. SavedAsSeen'
    BY <2>1 DEF FormIInv, SeenIsBasis, CreationKnown, SavedAsSeen, NothingWipedUnseen, OneCreation, formShadow
  <2> QED BY <2>1, <2>2, <2>3, <2>4, <2>5 DEF FormIInv, formShadow
<1>3. ASSUME NEW v \in Content, Edit(v) PROVE FormIInv'
  BY <1>3 DEF Edit, formShadow, FormIInv, CallsOneByOne, SeenIsBasis, CreationKnown, Offered,
              SavedAsSeen, NothingWipedUnseen, OneCreation
<1>4. ASSUME NEW v \in Content, ChangeElsewhere(v) PROVE FormIInv'
  BY <1>4 DEF ChangeElsewhere, FormIInv, CallsOneByOne, SeenIsBasis, CreationKnown, Offered,
              SavedAsSeen, NothingWipedUnseen, OneCreation
<1>5. ASSUME NEW k \in Save, Submit(k) PROVE FormIInv'
  <2> DEFINE w == [op |-> "sent", value |-> fields, basis |-> basis]
  <2>1. /\ Offered /\ ~saving /\ saving'
        /\ UNCHANGED <<form, phase, fields, basis, stored, copies, changed, wiped, lostReply>>
    BY <1>5 DEF Submit, MaySave, formShadow
  <2>2. w \in SaveState /\ w.op = "sent" /\ w.basis = basis
    BY DEF FormIInv, SaveState
  <2>3. saves' = [saves EXCEPT ![k] = w]
    BY <1>5 DEF Submit
  <2> HIDE DEF w
  <2>4. /\ saves' \in [Save -> SaveState] /\ saves'[k] = w
        /\ \A l \in Save \ {k} : saves'[l] = saves[l]
    BY <2>2, <2>3, SaveMoves
  <2>5. \A l \in Save : saves[l].op = "none"
    BY <2>1 DEF FormIInv, CallsOneByOne
  <2>6. CallsOneByOne'
    BY <2>1, <2>4, <2>5 DEF CallsOneByOne, Offered
  <2>7. SeenIsBasis'
    BY <2>1, <2>2, <2>4, <2>5 DEF FormIInv, SeenIsBasis, Offered
  <2>8. CreationKnown'
    BY <2>1, <2>4, <2>5 DEF FormIInv, CreationKnown, Offered
  <2>9. SavedAsSeen'
    BY <2>1 DEF FormIInv, SavedAsSeen, NothingWipedUnseen, OneCreation
  <2> QED BY <2>1, <2>4, <2>6, <2>7, <2>8, <2>9 DEF FormIInv
<1>6. ASSUME NEW k \in Save, Create(k) PROVE FormIInv'
  <2> DEFINE w == IF form.unique /\ copies > 0 THEN [saves[k] EXCEPT !.op = "refused"]
                  ELSE [saves[k] EXCEPT !.op = "done"]
  <2>1. /\ saves[k].op = "sent" /\ form.creates
        /\ UNCHANGED <<form, phase, fields, basis, saving, stored, changed, wiped, lostReply>>
    BY <1>6 DEF Create, formShadow
  <2>2. w \in SaveState /\ w.op \in {"refused", "done"}
    BY DEF FormIInv, SaveState
  <2>3. saves' = [saves EXCEPT ![k] = w]
    BY <1>6 DEF Create, FormIInv
  <2>a. \/ form.unique /\ copies > 0 /\ copies' = copies /\ w.op = "refused"
        \/ ~(form.unique /\ copies > 0) /\ copies' = copies + 1 /\ w.op = "done"
    BY <1>6 DEF Create, FormIInv, SaveState
  <2> HIDE DEF w
  <2>4. /\ saves' \in [Save -> SaveState] /\ saves'[k] = w
        /\ \A l \in Save \ {k} : saves'[l] = saves[l] /\ saves'[l].op = "none"
    BY <2>1, <2>2, <2>3, SaveMoves
  <2>5. saving /\ Offered
    BY <2>1 DEF FormIInv, CallsOneByOne
  <2>6. CallsOneByOne'
    BY <2>1, <2>4, <2>5 DEF CallsOneByOne, Offered
  <2>7. SeenIsBasis'
    BY <2>1 DEF SeenIsBasis
  <2>8. copies' \in Nat
    BY <2>a DEF FormIInv
  <2>9. copies # 0 /\ ~form.unique => lostReply
    BY <2>1, <2>4, <2>5 DEF FormIInv, CreationKnown, Offered
  <2>10. CreationKnown'
    BY <2>1, <2>4, <2>a, <2>8 DEF FormIInv, CreationKnown
  <2>11. SavedAsSeen'
    BY <2>1, <2>9, <2>a DEF FormIInv, CreationKnown, SavedAsSeen, NothingWipedUnseen, OneCreation
  <2> QED BY <2>1, <2>4, <2>6, <2>7, <2>8, <2>10, <2>11 DEF FormIInv
<1>7. ASSUME NEW k \in Save, Change(k) PROVE FormIInv'
  <2> DEFINE w == [saves[k] EXCEPT !.op = "done"]
  <2>1. /\ saves[k].op = "sent" /\ ~form.creates
        /\ stored' = saves[k].value /\ changed'
        /\ wiped' = (wiped \/ (~changed /\ stored # saves[k].basis))
        /\ UNCHANGED <<form, phase, fields, basis, saving, copies, lostReply>>
    BY <1>7 DEF Change
  <2>2. w \in SaveState /\ w.op = "done" /\ saves[k].value \in Content
    BY DEF FormIInv, SaveState
  <2>3. saves' = [saves EXCEPT ![k] = w]
    BY <1>7 DEF Change, FormIInv
  <2> HIDE DEF w
  <2>4. /\ saves' \in [Save -> SaveState] /\ saves'[k] = w
        /\ \A l \in Save \ {k} : saves'[l] = saves[l] /\ saves'[l].op = "none"
    BY <2>1, <2>2, <2>3, SaveMoves
  <2>5. saving /\ Offered
    BY <2>1 DEF FormIInv, CallsOneByOne
  <2>6. CallsOneByOne'
    BY <2>1, <2>4, <2>5 DEF CallsOneByOne, Offered
  <2>7. ~form.early /\ wiped' => form.blank /\ phase = "failed"
    BY <2>1, <2>5 DEF FormIInv, SeenIsBasis, Offered
  <2>8. SeenIsBasis'
    BY <2>1, <2>2, <2>4, <2>7 DEF SeenIsBasis
  <2>9. CreationKnown'
    BY <2>1 DEF FormIInv, CreationKnown
  <2>10. SavedAsSeen'
    BY <2>1, <2>7 DEF FormIInv, SavedAsSeen, NothingWipedUnseen, OneCreation
  <2> QED BY <2>1, <2>2, <2>4, <2>6, <2>8, <2>9, <2>10 DEF FormIInv
<1>8. ASSUME NEW k \in Save, saves[k].op # "none", saves' = [saves EXCEPT ![k] = NoSave],
             UNCHANGED <<form, stored, copies, changed, wiped>>,
             phase' = phase \/ phase' = "left",
             \/ basis' = basis /\ fields' = fields
             \/ saves[k].op = "done" /\ basis' \in Content /\ fields' \in Content,
             \/ lostReply' = (lostReply \/ saves[k].op = "done")
             \/ lostReply' = lostReply /\ saves[k].op = "done" /\ (form.stays \/ phase' = "left")
      PROVE  FormIInv'
  <2>1. /\ saves' \in [Save -> SaveState]
        /\ \A l \in Save : saves'[l].op = "none"
    BY <1>8, NoSaveFacts, SaveMoves
  <2>2. saving /\ Offered
    BY <1>8 DEF FormIInv, CallsOneByOne
  <2>3. CallsOneByOne'
    BY <2>1 DEF CallsOneByOne
  <2>4. SeenIsBasis'
    BY <1>8, <2>1 DEF FormIInv, SeenIsBasis
  <2>5. CreationKnown'
    <3>1. CASE lostReply' = (lostReply \/ saves[k].op = "done")
      <4>1. form.creates /\ copies # 0 /\ ~form.unique => lostReply'
        BY <1>8, <2>2, <3>1 DEF FormIInv, CallsOneByOne, CreationKnown, Offered
      <4> QED BY <1>8, <4>1 DEF FormIInv, CreationKnown
    <3>2. CASE form.stays \/ phase' = "left"
      BY <1>0, <1>8, <3>2 DEF FormIInv, CreationKnown
    <3> QED BY <1>8, <3>1, <3>2
  <2>6. SavedAsSeen'
    <3>1. NothingWipedUnseen'
      BY <1>8 DEF FormIInv, SavedAsSeen, NothingWipedUnseen
    <3>2. lostReply => lostReply'
      BY <1>8
    <3>3. OneCreation'
      BY <1>8, <3>2 DEF FormIInv, SavedAsSeen, OneCreation
    <3> QED BY <3>1, <3>3 DEF SavedAsSeen
  <2> QED BY <1>8, <2>1, <2>3, <2>4, <2>5, <2>6 DEF FormIInv
<1>9. ASSUME NEW k \in Save, Saved(k) PROVE FormIInv'
  <2>1. saves[k].value \in Content
    BY DEF FormIInv, SaveState
  <2>2. /\ saves[k].op = "done" /\ saves' = [saves EXCEPT ![k] = NoSave]
        /\ UNCHANGED <<form, stored, copies, changed, wiped>> /\ lostReply' = lostReply
    BY <1>9 DEF Saved, formShadow
  <2>3. /\ phase' = phase \/ phase' = "left"
        /\ form.stays \/ phase' = "left"
        /\ \/ basis' = basis /\ fields' = fields
           \/ basis' = saves[k].value /\ fields' = saves[k].value
    BY <1>9 DEF Saved
  <2> QED BY <1>8, <2>1, <2>2, <2>3
<1>10. ASSUME NEW k \in Save, SaveFails(k) PROVE FormIInv'
  <2>1. /\ saves[k].op # "none" /\ saves' = [saves EXCEPT ![k] = NoSave]
        /\ UNCHANGED <<form, phase, fields, basis, stored, copies, changed, wiped>>
        /\ lostReply' = (lostReply \/ saves[k].op = "done")
    BY <1>10 DEF SaveFails
  <2> QED BY <1>8, <2>1
<1>11. CASE UNCHANGED formVars
  BY <1>11 DEF formVars, FormIInv, CallsOneByOne, SeenIsBasis, CreationKnown, Offered,
               SavedAsSeen, NothingWipedUnseen, OneCreation
<1> QED BY <1>1, <1>2, <1>3, <1>4, <1>5, <1>6, <1>7, <1>9, <1>10, <1>11 DEF FormNext

\* It holds of a form that has been opened.
LEMMA FormInitial == FormInit => FormIInv
<1> SUFFICES ASSUME FormInit PROVE FormIInv
  OBVIOUS
<1>1. /\ form \in Forms /\ phase \in {"loading", "filled"} /\ ~wiped /\ copies = 0
      /\ stored \in Content /\ basis \in Content /\ fields = basis
      /\ phase = "filled" => basis = stored
  BY FormsAssumption DEF FormInit
<1>2. saves \in [Save -> SaveState] /\ \A k \in Save : saves[k].op = "none"
  BY NoSaveFacts DEF FormInit
<1>3. CallsOneByOne
  BY <1>2 DEF CallsOneByOne
<1>4. SeenIsBasis
  BY <1>1, <1>2 DEF SeenIsBasis
<1>5. CreationKnown
  BY <1>1 DEF CreationKnown
<1>6. SavedAsSeen
  BY <1>1 DEF SavedAsSeen, NothingWipedUnseen, OneCreation
<1> QED BY <1>1, <1>2, <1>3, <1>4, <1>5, <1>6 DEF FormIInv

\* A form that has been filled overwrites nothing that it has not shown, and one
\* form creates one thing, for any content and any number of calls, but for the
\* forms that can be saved unfilled (UserRoleDialog.vue:43,
\* SchemaPublishView.vue:68) and a lost reply to a creation that may be repeated
\* (ClientCreateView.vue:50).
THEOREM SavesAreAsSeen == FormSpec => []SavedAsSeen
<1>1. FormIInv => SavedAsSeen
  BY DEF FormIInv
<1> QED BY <1>1, FormInitial, FormStep, PTL DEF FormSpec

-----------------------------------------------------------------------------
(***************************************************************************)
(* The secret in sight.                                                    *)
(***************************************************************************)
----------------------------------------------------------------------------
Call == [op : {"none", "sent", "done"}, type : Type, secret : 0 .. MaxDraw]

Server == [type : Type, secret : 0 .. MaxDraw, drawn : 0 .. MaxDraw]

SecretIInv ==
    /\ client \in Server
    /\ newSecret \in 0 .. MaxDraw
    /\ edit \in Call /\ rotation \in Call
    /\ edit.op # "done" => edit.secret = 0
    /\ rotation.op # "done" => rotation.secret = 0
    /\ rotation.op = "done" => rotation.secret # 0
    /\ ~crossed /\ ~missed =>
        /\ edit.op = "none" \/ rotation.op = "none"
        /\ edit.secret \in {0, client.secret} /\ rotation.secret \in {0, client.secret}
        /\ client.type = "CONFIDENTIAL" /\ edit.secret = 0 /\ rotation.secret = 0 =>
                newSecret \in {0, client.secret}

\* The secret that the server draws.
LEMMA DrawFacts ==
    ASSUME SecretIInv, client.drawn < MaxDraw
    PROVE  /\ client.drawn + 1 \in 1 .. MaxDraw
           /\ \A type \in Type :
                /\ FreshClient(type) \in Server /\ FreshClient(type).secret = client.drawn + 1
                /\ FreshAnswer(type) \in Call /\ FreshAnswer(type).op = "done"
                /\ FreshAnswer(type).secret = client.drawn + 1
<1>1. client.drawn + 1 \in 1 .. MaxDraw
  BY SecretAssumption DEF SecretIInv, Server
<1> QED BY <1>1 DEF FreshClient, FreshAnswer, Server, Call

\* Every step keeps it, the answers that overtake one another included.
LEMMA SecretStep == SecretIInv /\ [SecretNext]_secretVars => SecretIInv'
<1> SUFFICES ASSUME SecretIInv, [SecretNext]_secretVars PROVE SecretIInv'
  OBVIOUS
<1>1. ASSUME NEW type \in Type, StartSave(type) PROVE SecretIInv'
  BY <1>1 DEF StartSave, SecretIInv, Call
<1>2. CASE StartRotate
  <2>1. NoEdit \in Call /\ NoEdit.secret = 0
    BY SecretAssumption DEF NoEdit, Call, Type
  <2>2. /\ rotation' = [NoEdit EXCEPT !.op = "sent"] /\ rotation.op = "none"
        /\ crossed' = (crossed \/ edit.op # "none")
        /\ UNCHANGED <<client, newSecret, edit, missed>>
    BY <1>2 DEF StartRotate
  <2>3. rotation' \in Call /\ rotation'.op = "sent" /\ rotation'.secret = 0
    BY <2>1, <2>2 DEF Call
  <2> QED BY <2>2, <2>3 DEF SecretIInv
<1>3. CASE PerformSave
  <2>1. /\ edit.op = "sent" /\ edit.secret = 0
        /\ UNCHANGED <<newSecret, rotation, crossed, missed>>
    BY <1>3 DEF PerformSave, SecretIInv
  <2>2. CASE edit.type = client.type /\ edit' = [edit EXCEPT !.op = "done"] /\ UNCHANGED client
    <3>1. edit' \in Call /\ edit'.op = "done" /\ edit'.secret = 0
      BY <2>1, <2>2 DEF SecretIInv, Call
    <3> QED BY <2>1, <2>2, <3>1 DEF SecretIInv
  <2>3. CASE /\ edit' = [edit EXCEPT !.op = "done"]
             /\ client' = [type |-> "PUBLIC", secret |-> 0, drawn |-> client.drawn]
    <3>1. edit' \in Call /\ edit'.op = "done" /\ edit'.secret = 0
      BY <2>1, <2>3 DEF SecretIInv, Call
    <3>2. client' \in Server /\ client'.type = "PUBLIC" /\ client'.secret = 0
      BY <2>3, SecretAssumption DEF SecretIInv, Server, Type
    <3>3. ~crossed /\ ~missed => rotation.secret = 0
      BY <2>1 DEF SecretIInv
    <3> QED BY <2>1, <3>1, <3>2, <3>3 DEF SecretIInv
  <2>4. CASE client.drawn < MaxDraw /\ edit' = FreshAnswer(edit.type) /\ client' = FreshClient("CONFIDENTIAL")
    <3>1. edit.type \in Type /\ "CONFIDENTIAL" \in Type
      BY DEF SecretIInv, Call, Type
    <3>2. ~crossed /\ ~missed => rotation.secret = 0
      BY <2>1 DEF SecretIInv
    <3> QED BY <2>1, <2>4, <3>1, <3>2, DrawFacts DEF SecretIInv
  <2> QED BY <1>3, <2>2, <2>3, <2>4 DEF PerformSave
<1>4. CASE PerformRotate
  <2>1. /\ rotation.op = "sent" /\ client.drawn < MaxDraw
        /\ rotation' = FreshAnswer(rotation.type) /\ client' = FreshClient(client.type)
        /\ UNCHANGED <<newSecret, edit, crossed, missed>>
    BY <1>4 DEF PerformRotate
  <2>2. rotation.type \in Type /\ client.type \in Type
    BY DEF SecretIInv, Call, Server
  <2>3. ~crossed /\ ~missed => edit.secret = 0
    BY <2>1 DEF SecretIInv
  <2> QED BY <2>1, <2>2, <2>3, DrawFacts DEF SecretIInv
<1>5. CASE DeliverSave
  <2>1. NoEdit \in Call /\ NoEdit.secret = 0 /\ NoEdit.op = "none"
    BY SecretAssumption DEF NoEdit, Call, Type
  <2>2. edit.secret \in 0 .. MaxDraw
    BY DEF SecretIInv, Call
  <2>3. edit.op = "done" => (~crossed /\ ~missed => rotation.secret = 0)
    BY DEF SecretIInv
  <2> QED BY <1>5, <2>1, <2>2, <2>3 DEF DeliverSave, Show, SecretIInv
<1>6. CASE DeliverRotate
  <2>1. NoEdit \in Call /\ NoEdit.secret = 0 /\ NoEdit.op = "none"
    BY SecretAssumption DEF NoEdit, Call, Type
  <2>2. rotation.secret \in 0 .. MaxDraw
    BY DEF SecretIInv, Call
  <2> QED BY <1>6, <2>1, <2>2 DEF DeliverRotate, SecretIInv
<1>7. CASE LoseCall
  <2>1. NoEdit \in Call /\ NoEdit.secret = 0 /\ NoEdit.op = "none"
    BY SecretAssumption DEF NoEdit, Call, Type
  <2>2. edit.secret \in 0 .. MaxDraw /\ rotation.secret \in 0 .. MaxDraw
    BY DEF SecretIInv, Call
  <2>3. UNCHANGED <<client, newSecret, crossed>>
    BY <1>7 DEF LoseCall
  <2>4. CASE edit' = NoEdit /\ missed' = (missed \/ edit.secret # 0) /\ UNCHANGED rotation
    BY <2>1, <2>2, <2>3, <2>4 DEF SecretIInv
  <2>5. CASE rotation' = NoEdit /\ missed' = (missed \/ rotation.secret # 0) /\ UNCHANGED edit
    BY <2>1, <2>2, <2>3, <2>5 DEF SecretIInv
  <2> QED BY <1>7, <2>4, <2>5 DEF LoseCall
<1>8. CASE UNCHANGED secretVars
  BY <1>8 DEF secretVars, SecretIInv
<1> QED BY <1>1, <1>2, <1>3, <1>4, <1>5, <1>6, <1>7, <1>8 DEF SecretNext

\* It holds when the page opens.
LEMMA SecretInitial == SecretInit => SecretIInv
BY SecretAssumption DEF SecretInit, SecretIInv, Server, Call, NoEdit, Type

\* The secret in sight is the one the server accepts once nothing is on its way,
\* unless calls overlapped or an answer was lost (ClientDetailView.vue:76-110).
THEOREM SecretIsLive == SecretSpec => []SecretInSightIsLive
<1>1. SecretIInv => SecretInSightIsLive
  BY DEF SecretIInv, SecretInSightIsLive, Call
<1> QED BY <1>1, SecretInitial, SecretStep, PTL DEF SecretSpec

-----------------------------------------------------------------------------
(***************************************************************************)
(* The session that the tabs share.                                        *)
(***************************************************************************)
TabRow == [memory : Memory, name : Names, tenant : {Nothing} \cup Room,
           item : {Nothing} \cup Room, call : SUBSET ({Nothing} \cup Ticket),
           page : {Nothing} \cup Room]

Issued(m) == m.token \in Ticket => holder[m.token][1] # "unissued"

\* A tab is where its own session may be.
Seated(w) ==
    /\ w \in TabRow /\ Issued(w.memory)
    /\ w.memory.token = Nothing => w.name \in Public
    /\ w.name = "platform" => Platform(w.memory)
    /\ w.name \notin Scoped => w.tenant = Nothing /\ w.item = Nothing
    /\ w.name \in Scoped /\ ~Platform(w.memory) => w.tenant \in w.memory.tenants
    /\ w.item \in {Nothing, w.tenant}

\* The view that a tab has kept is one of them.
Viewing(w) ==
    /\ w.name \notin Scoped => w.page = Nothing
    /\ w.name \in Scoped /\ ~Platform(w.memory) => w.page \in {Nothing} \cup w.memory.tenants

SessionIInv ==
    /\ holder \in [Ticket -> {"unissued", "platform", "tenant"} \X BOOLEAN]
    /\ storage \in Memory /\ Issued(storage)
    /\ tab \in [Tab -> TabRow]
    /\ \A b \in Tab : Seated(tab[b]) /\ Viewing(tab[b])
    /\ \A b \in Tab \ foreign : tab[b].memory.token # Nothing =>
            /\ storage.token = tab[b].memory.token
            /\ tab[b].call \subseteq {tab[b].memory.token}
    /\ storage.token # Nothing => \E b \in Tab : tab[b].memory.token = storage.token

\* A tab that remembers nothing.
LEMMA NoMemoryFacts == NoMemory \in Memory /\ NoMemory.token = Nothing /\ Issued(NoMemory)
BY SessionAssumption DEF NoMemory, Memory, Issued

\* Where a tab is after a navigation.
LEMMA AtFacts ==
    ASSUME SessionIInv, NEW b \in Tab, NEW m \in Memory, NEW name \in Names,
           NEW t \in {Nothing} \cup Room, NEW x \in {Nothing, t}
    PROVE  LET w == At(b, m, name, t, x) IN
           /\ w \in TabRow
           /\ w.memory = m /\ w.name = name /\ w.tenant = t /\ w.item = x
           /\ w.call = tab[b].call
           /\ w.page = IF name = tab[b].name THEN tab[b].page ELSE t
BY DEF At, TabRow, SessionIInv

\* The guard of the router leaves a tab in a place its memory allows.
LEMMA GoFacts ==
    ASSUME SessionIInv, NEW b \in Tab, NEW m \in Memory, Issued(m), NEW name \in Names,
           NEW t \in {Nothing} \cup Room, NEW x \in {Nothing, t},
           name \notin Scoped => t = Nothing
    PROVE  LET w == Go(b, m, name, t, x) IN
           /\ Seated(w) /\ w.memory = m /\ w.call = tab[b].call
           /\ m = tab[b].memory => Viewing(w)
<1> DEFINE w == Go(b, m, name, t, x)
<1>1. CASE Allows(m, name, t)
  <2>1. w = At(b, m, name, t, x)
    BY <1>1 DEF Go
  <2>2. /\ w \in TabRow /\ w.memory = m /\ w.name = name /\ w.tenant = t /\ w.item = x
        /\ w.call = tab[b].call /\ w.page = IF name = tab[b].name THEN tab[b].page ELSE t
    BY <2>1, AtFacts
  <2> HIDE DEF w
  <2>3. Seated(w)
    BY <1>1, <2>2, SessionAssumption DEF Seated, Allows, Scoped, Public
  <2>4. m = tab[b].memory => Viewing(w)
    BY <1>1, <2>2 DEF Viewing, Allows, SessionIInv, Scoped, Public
  <2> QED BY <2>2, <2>3, <2>4 DEF w
<1>2. CASE ~Allows(m, name, t)
  <2> DEFINE n == IF m.token = Nothing THEN "login" ELSE "forbidden"
  <2>1. w = At(b, m, n, Nothing, Nothing) /\ n \in Public /\ n \in Names /\ n \notin Scoped
        /\ n # "platform"
    BY <1>2 DEF Go, Names, Public, Scoped
  <2>2. /\ w \in TabRow /\ w.memory = m /\ w.name = n /\ w.tenant = Nothing /\ w.item = Nothing
        /\ w.call = tab[b].call /\ w.page = IF n = tab[b].name THEN tab[b].page ELSE Nothing
    BY <2>1, AtFacts
  <2> HIDE DEF w, n
  <2>3. Seated(w)
    BY <2>1, <2>2 DEF Seated
  <2>4. Viewing(w)
    BY <2>1, <2>2 DEF Viewing, SessionIInv
  <2> QED BY <2>2, <2>3, <2>4 DEF w
<1> QED BY <1>1, <1>2

\* Tokens do not change hands.
LEMMA HoldersStay ==
    ASSUME \A k \in Ticket : holder[k][1] # "unissued" => holder'[k][1] = holder[k][1]
    PROVE  /\ \A m : Issued(m) => Issued(m)' /\ (Platform(m)' <=> Platform(m))
           /\ \A w : Seated(w) => Seated(w)'
           /\ \A w : Seated(w) /\ Viewing(w) => Viewing(w)'
<1>1. \A m : Issued(m) => Issued(m)' /\ (Platform(m)' <=> Platform(m))
  BY DEF Issued, Platform
<1>2. ASSUME NEW w, Seated(w)
      PROVE  Seated(w)' /\ (Viewing(w) => Viewing(w)')
  <2>1. Issued(w.memory)' /\ (Platform(w.memory)' <=> Platform(w.memory))
    BY <1>1, <1>2 DEF Seated
  <2> QED BY <1>2, <2>1 DEF Seated, Viewing
<1> QED BY <1>1, <1>2

\* Where a login leads.
LEMMA LandingFacts ==
    ASSUME NEW role \in {"platform", "tenant"}, NEW T \in SUBSET Room
    PROVE  LET l == LandingRoute(role, T) IN
           \/ role = "platform" /\ l = <<"platform", Nothing>>
           \/ role = "tenant" /\ l = <<"forbidden", Nothing>>
           \/ role = "tenant" /\ l = <<"select", Nothing>>
           \/ role = "tenant" /\ l[1] = "list" /\ l[2] \in T
<1>1. IsFiniteSet(T)
  BY SessionAssumption, FS_Subset
<1>2. Cardinality(T) \in Nat /\ (Cardinality(T) = 0 <=> T = {})
  BY <1>1, FS_CardinalityType, FS_EmptySet
<1>3. CASE role = "tenant" /\ Cardinality(T) = 1
  <2>1. PICK t : t \in T
    BY <1>2, <1>3
  <2>2. (CHOOSE y \in T : TRUE) \in T
    BY <2>1
  <2>3. LandingRoute(role, T) = <<"list", CHOOSE y \in T : TRUE>>
    BY <1>2, <1>3, <2>1 DEF LandingRoute
  <2> QED BY <1>3, <2>2, <2>3
<1>4. CASE role = "tenant" /\ T = {}
  BY <1>2, <1>4 DEF LandingRoute
<1>5. CASE role = "tenant" /\ Cardinality(T) > 1
  BY <1>2, <1>5 DEF LandingRoute
<1>6. CASE role = "platform"
  BY <1>6 DEF LandingRoute
<1> QED BY <1>2, <1>3, <1>4, <1>5, <1>6

\* Every step of every tab keeps it.
LEMMA SessionStep == SessionIInv /\ [SessionNext]_sessionVars => SessionIInv'
<1> SUFFICES ASSUME SessionIInv, [SessionNext]_sessionVars PROVE SessionIInv'
  OBVIOUS
\* A step of one tab that leaves the server and the storage alone.
<1>s. ASSUME NEW b \in Tab, NEW w, tab' = [tab EXCEPT ![b] = w], UNCHANGED <<holder, storage>>,
             foreign' = foreign \/ foreign' = foreign \ {b},
             Seated(w), Viewing(w), w.memory = tab[b].memory \/ w.memory = storage,
             b \notin foreign' /\ w.memory.token # Nothing =>
                /\ storage.token = w.memory.token
                /\ w.call \subseteq {w.memory.token}
      PROVE  SessionIInv'
  <2>1. tab'[b] = w /\ (\A c \in Tab \ {b} : tab'[c] = tab[c]) /\ tab' \in [Tab -> TabRow]
    BY <1>s DEF SessionIInv, Seated
  <2>2. \A x : (Seated(x) => Seated(x)') /\ (Viewing(x) => Viewing(x)')
    BY <1>s DEF Seated, Viewing, Issued, Platform
  <2>3. \A c \in Tab : Seated(tab[c])' /\ Viewing(tab[c])'
    <3>1. \A c \in Tab : \A x : x = tab'[c] => Seated(x) /\ Viewing(x)
      BY <1>s, <2>1 DEF SessionIInv
    <3>2. \A c \in Tab : \A x : x = tab'[c] => Seated(x)' /\ Viewing(x)'
      BY <2>2, <3>1
    <3> QED BY <3>2 DEF Seated, Viewing
  <2>4. Issued(storage)'
    BY <1>s DEF SessionIInv, Issued
  <2>5. \A c \in Tab \ foreign' : tab'[c].memory.token # Nothing =>
            storage'.token = tab'[c].memory.token /\ tab'[c].call \subseteq {tab'[c].memory.token}
    BY <1>s, <2>1 DEF SessionIInv
  <2>6. storage'.token # Nothing => \E c \in Tab : tab'[c].memory.token = storage'.token
    BY <1>s, <2>1 DEF SessionIInv
  <2> QED BY <1>s, <2>1, <2>3, <2>4, <2>5, <2>6 DEF SessionIInv
\* The session of a tab ends, and with it what the storage holds.
<1>e. ASSUME NEW b \in Tab, NEW w \in TabRow, tab' = [tab EXCEPT ![b] = w], storage' = NoMemory,
             w.memory = NoMemory, w.name = "login", w.tenant = Nothing, w.item = Nothing,
             w.page = Nothing, foreign' = foreign \cup (Tab \ {b}), UNCHANGED holder
      PROVE  SessionIInv'
  <2>1. tab'[b] = w /\ (\A c \in Tab \ {b} : tab'[c] = tab[c]) /\ tab' \in [Tab -> TabRow]
    BY <1>e DEF SessionIInv
  <2>2. \A x : (Seated(x) => Seated(x)') /\ (Viewing(x) => Viewing(x)')
    BY <1>e DEF Seated, Viewing, Issued, Platform
  <2>3. Seated(w) /\ Viewing(w)
    BY <1>e, NoMemoryFacts DEF Seated, Viewing, Scoped, Public
  <2>4. \A c \in Tab : Seated(tab[c])' /\ Viewing(tab[c])'
    <3>1. \A c \in Tab : \A x : x = tab'[c] => Seated(x) /\ Viewing(x)
      BY <2>1, <2>3 DEF SessionIInv
    <3>2. \A c \in Tab : \A x : x = tab'[c] => Seated(x)' /\ Viewing(x)'
      BY <2>2, <3>1
    <3> QED BY <3>2 DEF Seated, Viewing
  <2>5. storage' \in Memory /\ storage'.token = Nothing /\ Issued(storage)'
    BY <1>e, NoMemoryFacts, SessionAssumption DEF Issued
  <2>6. \A c \in Tab \ foreign' : tab'[c].memory.token = Nothing
    BY <1>e, <2>1, NoMemoryFacts
  <2> QED BY <1>e, <2>1, <2>4, <2>5, <2>6 DEF SessionIInv
<1>1. ASSUME NEW b \in Tab, Logout(b) \/ RefuseSignIn(b) PROVE SessionIInv'
  <2> DEFINE w == At(b, NoMemory, "login", Nothing, Nothing)
  <2>1. /\ w \in TabRow /\ w.memory = NoMemory /\ w.name = "login" /\ w.tenant = Nothing
        /\ w.item = Nothing /\ w.page = IF "login" = tab[b].name THEN tab[b].page ELSE Nothing
    BY AtFacts, NoMemoryFacts DEF Names, Public
  <2>2. w.page = Nothing
    BY <2>1 DEF SessionIInv, Viewing, Scoped
  <2>3. /\ tab' = [tab EXCEPT ![b] = w] /\ storage' = NoMemory
        /\ foreign' = foreign \cup (Tab \ {b}) /\ UNCHANGED holder
    BY <1>1 DEF Logout, RefuseSignIn, Forget
  <2> HIDE DEF w
  <2> QED BY <1>e, <2>1, <2>2, <2>3
<1>2. ASSUME NEW b \in Tab, RefuseCall(b) PROVE SessionIInv'
  <2> DEFINE v == At(b, NoMemory, "login", Nothing, Nothing)
  <2> DEFINE w == [v EXCEPT !.call = {}]
  <2>1. /\ v \in TabRow /\ v.memory = NoMemory /\ v.name = "login" /\ v.tenant = Nothing
        /\ v.item = Nothing /\ v.page = IF "login" = tab[b].name THEN tab[b].page ELSE Nothing
    BY AtFacts, NoMemoryFacts DEF Names, Public
  <2>2. v.page = Nothing
    BY <2>1 DEF SessionIInv, Viewing, Scoped
  <2>3. /\ tab' = [tab EXCEPT ![b] = w] /\ storage' = NoMemory
        /\ foreign' = foreign \cup (Tab \ {b}) /\ UNCHANGED holder
    BY <1>2 DEF RefuseCall
  <2> HIDE DEF v
  <2>4. /\ w \in TabRow /\ w.memory = NoMemory /\ w.name = "login" /\ w.tenant = Nothing
        /\ w.item = Nothing /\ w.page = Nothing
    BY <2>1, <2>2 DEF TabRow
  <2> HIDE DEF w
  <2> QED BY <1>e, <2>3, <2>4
<1>3. ASSUME NEW b \in Tab, NEW name \in Names, NEW t \in {Nothing} \cup Room, Reload(b, name, t)
      PROVE  SessionIInv'
  <2> DEFINE x == IF name = "item" THEN t ELSE Nothing
  <2> DEFINE next == Go(b, storage, name, t, x)
  <2> DEFINE w == [next EXCEPT !.page = next.tenant, !.call = {}]
  <2>1. /\ (name \in Scoped) = (t \in Room)
        /\ tab' = [tab EXCEPT ![b] = w] /\ foreign' = foreign \ {b} /\ UNCHANGED <<holder, storage>>
    BY <1>3, Zenon DEF Reload
  <2>2. storage \in Memory /\ Issued(storage) /\ x \in {Nothing, t}
        /\ (name \notin Scoped => t = Nothing)
    BY <2>1, SessionAssumption DEF SessionIInv
  <2>3. Seated(next) /\ next.memory = storage
    BY <2>2, GoFacts
  <2> HIDE DEF next
  <2>4. next \in TabRow
    BY <2>3 DEF Seated
  <2>5. /\ w \in TabRow /\ w.memory = storage /\ w.name = next.name /\ w.tenant = next.tenant
        /\ w.item = next.item /\ w.page = next.tenant /\ w.call = {}
    BY <2>3, <2>4 DEF TabRow
  <2> HIDE DEF w
  <2>6. Seated(w) /\ Viewing(w)
    BY <2>3, <2>5 DEF Seated, Viewing
  <2> QED BY <1>s, <2>1, <2>5, <2>6
<1>4. ASSUME NEW b \in Tab, NEW name \in Names, NEW t \in {Nothing} \cup Room, Follow(b, name, t)
      PROVE  SessionIInv'
  <2> DEFINE x == IF name = "item" THEN t ELSE Nothing
  <2> DEFINE w == Go(b, tab[b].memory, name, t, x)
  <2>1. /\ tab' = [tab EXCEPT ![b] = w] /\ UNCHANGED <<holder, storage, foreign>>
        /\ name \notin Scoped => t = Nothing
    BY <1>4 DEF Follow, Scoped
  <2>2. tab[b].memory \in Memory /\ Issued(tab[b].memory) /\ x \in {Nothing, t}
    BY DEF SessionIInv, Seated, TabRow
  <2>3. Seated(w) /\ Viewing(w) /\ w.memory = tab[b].memory /\ w.call = tab[b].call
    BY <2>1, <2>2, GoFacts
  <2> HIDE DEF w
  <2>4. b \notin foreign /\ tab[b].memory.token # Nothing =>
            storage.token = tab[b].memory.token /\ tab[b].call \subseteq {tab[b].memory.token}
    BY DEF SessionIInv
  <2> QED BY <1>s, <2>1, <2>3, <2>4
<1>5. ASSUME NEW b \in Tab, NEW t \in Room, SwitchTo(b, t)
      PROVE  SessionIInv'
  <2> DEFINE n == IF KeepsView(b) THEN tab[b].name ELSE "list"
  <2> DEFINE w == Go(b, tab[b].memory, n, t, Nothing)
  <2>1. /\ tab' = [tab EXCEPT ![b] = w] /\ UNCHANGED <<holder, storage, foreign>>
        /\ n \in Scoped /\ n \in Names
    BY <1>5 DEF SwitchTo, KeepsView, Scoped, Names
  <2>2. tab[b].memory \in Memory /\ Issued(tab[b].memory)
    BY DEF SessionIInv, Seated, TabRow
  <2> HIDE DEF n
  <2>3. Seated(w) /\ Viewing(w) /\ w.memory = tab[b].memory /\ w.call = tab[b].call
    BY <2>1, <2>2, GoFacts
  <2> HIDE DEF w
  <2>4. b \notin foreign /\ tab[b].memory.token # Nothing =>
            storage.token = tab[b].memory.token /\ tab[b].call \subseteq {tab[b].memory.token}
    BY DEF SessionIInv
  <2> QED BY <1>s, <2>1, <2>3, <2>4
<1>6. ASSUME NEW b \in Tab, Send(b) \/ Serve(b) PROVE SessionIInv'
  <2>1. PICK carried : /\ tab' = [tab EXCEPT ![b] = [tab[b] EXCEPT !.call = carried]]
                       /\ carried = {storage.token} \/ carried = {}
                       /\ UNCHANGED <<holder, storage, foreign>>
    BY <1>6 DEF Send, Serve
  <2> DEFINE w == [tab[b] EXCEPT !.call = carried]
  <2>2. tab[b] \in TabRow /\ Seated(tab[b]) /\ Viewing(tab[b])
    BY DEF SessionIInv
  <2>3. storage.token \in {Nothing} \cup Ticket
    BY DEF SessionIInv, Memory
  <2>4. /\ w \in TabRow /\ w.memory = tab[b].memory /\ w.name = tab[b].name
        /\ w.tenant = tab[b].tenant /\ w.item = tab[b].item /\ w.page = tab[b].page
        /\ w.call = carried
    BY <2>1, <2>2, <2>3 DEF TabRow
  <2> HIDE DEF w
  <2>5. Seated(w) /\ Viewing(w)
    BY <2>2, <2>4 DEF Seated, Viewing
  <2>6. b \notin foreign /\ tab[b].memory.token # Nothing => storage.token = tab[b].memory.token
    BY DEF SessionIInv
  <2>7. tab' = [tab EXCEPT ![b] = w]
    BY <2>1 DEF w
  <2> QED BY <1>s, <2>1, <2>4, <2>5, <2>6, <2>7
<1>7. ASSUME NEW b \in Tab, NEW k \in Ticket, NEW role \in {"platform", "tenant"},
             NEW T \in SUBSET Room, SignIn(b, k, role, T)
      PROVE  SessionIInv'
  <2> DEFINE m == [token |-> k, tenants |-> T]
  <2> DEFINE l == LandingRoute(role, T)
  <2> DEFINE w == At(b, m, l[1], l[2], Nothing)
  <2>1. /\ tab[b].name = "login" /\ holder[k][1] = "unissued"
        /\ holder' = [holder EXCEPT ![k] = <<role, FALSE>>]
        /\ storage' = m /\ tab' = [tab EXCEPT ![b] = w]
        /\ foreign' = (Tab \ {b}) \cup {c \in {b} : tab[c].call # {}}
    BY <1>7 DEF SignIn, Store
  <2>2. m \in Memory /\ m.token = k /\ m.tenants = T /\ k # Nothing
    BY SessionAssumption DEF Memory
  <2>3. l[1] \in Names \ {"login"} /\ l[2] \in {Nothing} \cup Room
    BY LandingFacts DEF Names, Public, Scoped
  <2>4. /\ w \in TabRow /\ w.memory = m /\ w.name = l[1] /\ w.tenant = l[2] /\ w.item = Nothing
        /\ w.call = tab[b].call /\ w.page = IF l[1] = tab[b].name THEN tab[b].page ELSE l[2]
    BY <2>2, <2>3, AtFacts
  <2>5. w.page = l[2]
    BY <2>1, <2>3, <2>4
  <2>6. \/ role = "platform" /\ w.name = "platform" /\ w.tenant = Nothing
        \/ role = "tenant" /\ w.name \in {"forbidden", "select"} /\ w.tenant = Nothing
        \/ role = "tenant" /\ w.name = "list" /\ w.tenant \in T
    BY <2>4, LandingFacts
  <2> HIDE DEF w, m, l
  <2>7. holder' \in [Ticket -> {"unissued", "platform", "tenant"} \X BOOLEAN] /\ holder'[k][1] = role
    BY <2>1 DEF SessionIInv
  <2>8. \A y \in Ticket : holder[y][1] # "unissued" => holder'[y][1] = holder[y][1]
    BY <2>1 DEF SessionIInv
  <2>9. \A y : y = m => Issued(y)' /\ (Platform(y)' <=> role = "platform")
    BY <2>2, <2>7 DEF Issued, Platform
  <2>10. \A y : y = w => Seated(y)' /\ Viewing(y)'
    BY <2>2, <2>4, <2>5, <2>6, <2>9 DEF Seated, Viewing, Scoped, Public
  <2>11. tab'[b] = w /\ (\A c \in Tab \ {b} : tab'[c] = tab[c]) /\ tab' \in [Tab -> TabRow]
    BY <2>1, <2>4 DEF SessionIInv
  <2>12. \A c \in Tab : Seated(tab[c])' /\ Viewing(tab[c])'
    <3>1. \A c \in Tab \ {b} : \A y : y = tab[c] => Seated(y)' /\ Viewing(y)'
      BY <2>8, HoldersStay DEF SessionIInv
    <3>2. \A c \in Tab : \A y : y = tab'[c] => Seated(y)' /\ Viewing(y)'
      BY <2>10, <2>11, <3>1
    <3> QED BY <3>2 DEF Seated, Viewing
  <2>13. storage' \in Memory /\ Issued(storage)'
    BY <2>1, <2>2, <2>9 DEF Issued
  <2>14. \A c \in Tab \ foreign' : /\ storage'.token = tab'[c].memory.token
                                   /\ tab'[c].call \subseteq {tab'[c].memory.token}
    BY <2>1, <2>4, <2>11
  <2>15. \E c \in Tab : tab'[c].memory.token = storage'.token
    BY <2>1, <2>4, <2>11
  <2> QED BY <2>7, <2>11, <2>12, <2>13, <2>14, <2>15 DEF SessionIInv
<1>8. ASSUME NEW k \in Ticket, ExpireTicket(k) PROVE SessionIInv'
  <2>1. /\ holder' = [holder EXCEPT ![k] = <<holder[k][1], TRUE>>]
        /\ UNCHANGED <<storage, tab, foreign>>
    BY <1>8 DEF ExpireTicket
  <2>2. holder[k] \in {"unissued", "platform", "tenant"} \X BOOLEAN
    BY DEF SessionIInv
  <2>4. /\ holder' \in [Ticket -> {"unissued", "platform", "tenant"} \X BOOLEAN]
        /\ \A y \in Ticket : holder'[y][1] = holder[y][1]
    BY <2>1, <2>2 DEF SessionIInv
  <2>5. \A c \in Tab : Seated(tab[c])' /\ Viewing(tab[c])'
    <3>1. \A c \in Tab : \A y : y = tab'[c] => Seated(y)' /\ Viewing(y)'
      BY <2>1, <2>4, HoldersStay DEF SessionIInv
    <3> QED BY <3>1 DEF Seated, Viewing
  <2>6. Issued(storage)'
    BY <2>1, <2>4 DEF SessionIInv, Issued
  <2> QED BY <2>1, <2>4, <2>5, <2>6 DEF SessionIInv
<1>9. CASE UNCHANGED sessionVars
  BY <1>9 DEF sessionVars, SessionIInv, Seated, Viewing, Issued, Platform
<1> QED
  BY <1>1, <1>2, <1>3, <1>4, <1>5, <1>6, <1>7, <1>8, <1>9 DEF SessionNext

\* It holds of freshly opened tabs.
LEMMA SessionInitial == SessionInit => SessionIInv
<1> SUFFICES ASSUME SessionInit PROVE SessionIInv
  OBVIOUS
<1>1. NoMemory \in Memory /\ NoMemory.token = Nothing /\ Issued(NoMemory)
  BY NoMemoryFacts
<1>2. ASSUME NEW b \in Tab PROVE tab[b] \in TabRow /\ Seated(tab[b]) /\ Viewing(tab[b])
  BY <1>1 DEF SessionInit, TabRow, Seated, Viewing, Names, Public, Scoped
<1>3. tab \in [Tab -> TabRow]
  BY <1>2 DEF SessionInit
<1> QED BY <1>1, <1>2, <1>3 DEF SessionInit, SessionIInv

\* Whatever the tabs do to the storage they share, none is in a view, or holds
\* an item of a tenant, that its own session may not see (router/index.ts:232,
\* TenantSwitcher.vue:54).
THEOREM LocationsAreAllowed == SessionSpec => []LocationIsAllowed
<1>1. SessionIInv => LocationIsAllowed
  BY DEF SessionIInv, Seated, Viewing, LocationIsAllowed, Scoped
<1> QED BY <1>1, SessionInitial, SessionStep, PTL DEF SessionSpec

\* Any number of tabs, with logins accepted and refused, calls answered 401 and
\* reloads in any order: a tab whose storage no other tab has touched shows the
\* session that is stored, and its call carries that token (http.ts:9-23); when
\* all are signed out, nothing in the storage signs anybody in again.
THEOREM SessionsAreOwn == SessionSpec => []SessionIsOwn
<1>1. SessionIInv => SessionIsOwn
  BY DEF SessionIInv, SessionIsOwn
<1> QED BY <1>1, SessionInitial, SessionStep, PTL DEF SessionSpec

-----------------------------------------------------------------------------
(***************************************************************************)
(* Types.                                                                  *)
(***************************************************************************)
\* A dialog is about one row, if it is open.
OneTarget == target = {} \/ \E x \in Item : target = {x}

PageFlags == {loading, failed, overtaken, unheard} \subseteq BOOLEAN

PageTypeIInv ==
    /\ PageIInv
    /\ table \in [Item -> SUBSET Query] /\ midway \subseteq Item
    /\ PageFlags /\ OneTarget

\* The views are views.
LEMMA ViewsAreViews == Views \subseteq View
<1>1. UserList \in View
  BY DEF UserList, View
<1>2. ClientList \in View
  BY <1>1 DEF ClientList, View
<1>3. AdminList \in View /\ AuditLog \in View /\ RoleList \in View
  BY <1>2 DEF AdminList, AuditLog, RoleList, View
<1>4. ExternalAuthList \in View /\ SchemaList \in View
  BY <1>3 DEF ExternalAuthList, SchemaList, View
<1> QED BY <1>1, <1>2, <1>3, <1>4 DEF Views, TenantList, PermissionList, ScopeList, Dashboard

\* The flags and the dialog, when a load starts.
LEMMA LoadFlags ==
    ASSUME PageTypeIInv, NEW l, NEW q, NEW c, StartLoad(l, q, c)
    PROVE  PageFlags' /\ midway' \subseteq Item
<1>1. /\ loading' = TRUE /\ failed' = FALSE /\ overtaken' = (InFlight # {})
      /\ unheard' = FALSE /\ midway' = {}
  BY DEF StartLoad, ClearSelection
<1>2. (InFlight # {}) \in BOOLEAN
  OBVIOUS
<1> QED BY <1>1, <1>2 DEF PageFlags

\* Every step keeps the types of the page.
LEMMA PageTypeStep == PageTypeIInv /\ [PageNext]_pageVars => PageTypeIInv'
<1> DEFINE RestOK == /\ table \in [Item -> SUBSET Query] /\ midway \subseteq Item
                     /\ PageFlags /\ OneTarget
<1> SUFFICES ASSUME PageTypeIInv, [PageNext]_pageVars PROVE RestOK'
  BY PageStep DEF PageTypeIInv
<1>0. RestOK /\ calls \subseteq CallState /\ shown \subseteq Item
  BY DEF PageTypeIInv, PageIInv, PageTypes
<1>f. loading \in BOOLEAN /\ failed \in BOOLEAN /\ overtaken \in BOOLEAN /\ unheard \in BOOLEAN
  BY <1>0 DEF PageFlags
<1>1. ASSUME NEW l \in Load, Answer(l) PROVE RestOK'
  BY <1>0, <1>1 DEF Answer, server, shadow, PageFlags, OneTarget
<1>2. ASSUME NEW l \in Load, Deliver(l) \/ LoadFails(l) PROVE RestOK'
  <2>1. UNCHANGED <<table, midway>> /\ target' \in {{}, target}
    BY <1>2 DEF Deliver, LoadFails, server, shadow
  <2>2. PageFlags'
    BY <1>f, <1>2 DEF Deliver, LoadFails, shadow, PageFlags
  <2> QED BY <1>0, <2>1, <2>2 DEF OneTarget
<1>3. ASSUME NEW l \in Load,
             \/ Refresh(l)
             \/ \E q \in Query : DebounceFires(l, q) \/ ChangeFilter(l, q)
      PROVE  RestOK'
  <2>1. UNCHANGED <<table, target>> /\ \E p, c : StartLoad(l, p, c)
    BY <1>3 DEF Refresh, DebounceFires, LoadsNewQuery, ChangeFilter, server
  <2> QED BY <1>0, <2>1, LoadFlags DEF OneTarget
<1>4. ASSUME NEW l \in Load, NEW c \in calls, Succeed(l, c) PROVE RestOK'
  <2>1. UNCHANGED table /\ target' \in {{}, target}
    BY <1>4 DEF Succeed
  <2>2. PageFlags' /\ midway' \subseteq Item
    <3>1. CASE ReloadRows(l)
      BY <3>1, LoadFlags DEF ReloadRows
    <3>2. CASE ~page.reloads
      BY <1>0, <1>4, <3>2 DEF Succeed, shadow, PageFlags
    <3> QED BY <1>4, <3>1, <3>2 DEF Succeed
  <2> QED BY <1>0, <2>1, <2>2 DEF OneTarget
<1>5. ASSUME NEW q \in Query, TypeSearch(q) PROVE RestOK'
  BY <1>0, <1>5 DEF TypeSearch, server, shadow, PageFlags, OneTarget
<1>6. ASSUME NEW x \in Item, ToggleSelect(x) PROVE RestOK'
  BY <1>0, <1>6 DEF ToggleSelect, server, PageFlags, OneTarget
<1>7. ASSUME NEW x \in Item, Ask(x) PROVE RestOK'
  BY <1>0, <1>7 DEF Ask, server, shadow, PageFlags, OneTarget
<1>8. ASSUME NEW c \in calls, Perform(c) PROVE RestOK'
  <2>1. PICK rest \in {{}, {AllQuery}} :
            table' = [x \in Item |-> IF x \in c.rows THEN table[x] \cap rest ELSE table[x]]
    BY <1>8 DEF Perform
  <2>2. table' \in [Item -> SUBSET Query]
    BY <1>0, <2>1
  <2>3. UNCHANGED <<loading, failed, overtaken, unheard, midway, target>>
    BY <1>8 DEF Perform, shadow
  <2> QED BY <1>0, <2>2, <2>3 DEF PageFlags, OneTarget
<1>9. ASSUME NEW c \in calls, CallFails(c) PROVE RestOK'
  <2>1. UNCHANGED <<table, midway>> /\ target' \in {{}, target}
    BY <1>9 DEF CallFails
  <2>2. c.done \in BOOLEAN
    BY <1>0 DEF CallState
  <2>3. PageFlags'
    BY <1>f, <1>9, <2>2 DEF CallFails, PageFlags
  <2> QED BY <1>0, <2>1, <2>3 DEF OneTarget
<1>10. ASSUME Dismiss \/ Confirm \/ RunBulk PROVE RestOK'
  <2>1. UNCHANGED <<table, midway, loading, failed, overtaken, unheard>> /\ target' \in {{}, target}
    BY <1>10 DEF Dismiss, Confirm, RunBulk, server, shadow
  <2> QED BY <1>0, <2>1 DEF PageFlags, OneTarget
<1>11. CASE UNCHANGED pageVars
  BY <1>0, <1>11 DEF pageVars, PageFlags, OneTarget
<1> HIDE DEF RestOK
<1>12. CASE \E l \in Load :
                \/ Answer(l) \/ Deliver(l) \/ LoadFails(l) \/ Refresh(l)
                \/ \E q \in Query : DebounceFires(l, q) \/ ChangeFilter(l, q)
                \/ \E c \in calls : Succeed(l, c)
  BY <1>1, <1>2, <1>3, <1>4, <1>12
<1> QED
  BY <1>5, <1>6, <1>7, <1>8, <1>9, <1>10, <1>11, <1>12 DEF PageNext

\* They are the types of a page that has been opened, and imply PageTypeOK.
LEMMA PageTypeFacts == (PageInit => PageTypeIInv) /\ (PageTypeIInv => PageTypeOK)
<1>1. PageInit => PageTypeIInv
  <2> SUFFICES ASSUME PageInit PROVE PageTypeIInv
    OBVIOUS
  <2>1. table \in [Item -> SUBSET Query]
    BY PagesAssumption DEF PageInit
  <2> QED BY <2>1, PageInitial DEF PageInit, PageTypeIInv, PageFlags, OneTarget
<1>2. PageTypeIInv => PageTypeOK
  <2> SUFFICES ASSUME PageTypeIInv PROVE PageTypeOK
    OBVIOUS
  <2>1. Cardinality(target) <= 1
    <3>1. CASE target = {}
      BY <3>1, FS_EmptySet
    <3>2. ASSUME NEW x \in Item, target = {x} PROVE Cardinality(target) <= 1
      <4>1. Cardinality({x}) = 1
        BY FS_Singleton
      <4> QED BY <3>2, <4>1
    <3> QED BY <3>1, <3>2 DEF PageTypeIInv, OneTarget
  <2> QED
    BY <2>1, ViewsAreViews DEF PageTypeIInv, PageIInv, PageTypes, PageFlags, CallState, PageTypeOK
<1> QED BY <1>1, <1>2

\* The page, its rows, loads, calls and flags keep their types, and a dialog is
\* about one row at most.
THEOREM PageTypeCorrect == PageSpec => []PageTypeOK
BY PageTypeFacts, PageTypeStep, PTL DEF PageSpec

----------------------------------------------------------------------------
FormFlags == {saving, changed, wiped, lostReply} \subseteq BOOLEAN

FormTypeIInv == FormIInv /\ FormFlags /\ copies \in 0 .. Cardinality(Save)

\* Every step keeps the types of the form.
LEMMA FormTypeStep == FormTypeIInv /\ [FormNext]_formVars => FormTypeIInv'
<1> SUFFICES ASSUME FormTypeIInv, [FormNext]_formVars
             PROVE  FormFlags' /\ copies' \in 0 .. Cardinality(Save)
  BY FormStep DEF FormTypeIInv
<1>0. /\ saving \in BOOLEAN /\ changed \in BOOLEAN /\ wiped \in BOOLEAN /\ lostReply \in BOOLEAN
      /\ copies \in 0 .. Cardinality(Save)
  BY DEF FormTypeIInv, FormFlags
<1>1. FormFlags'
  <2>1. saving' \in {saving, TRUE, FALSE} /\ changed' \in {changed, TRUE, FALSE}
    BY DEF FormNext, Fill, FillFails, Edit, ChangeElsewhere, Submit, Create, Change, Saved,
           SaveFails, formVars, formShadow
  <2>2. \/ wiped' = wiped
        \/ \E k \in Save : wiped' = (wiped \/ (~changed /\ stored # saves[k].basis))
    BY DEF FormNext, Fill, FillFails, Edit, ChangeElsewhere, Submit, Create, Change, Saved,
           SaveFails, formVars, formShadow
  <2>3. lostReply' = lostReply \/ \E k \in Save : lostReply' = (lostReply \/ saves[k].op = "done")
    BY DEF FormNext, Fill, FillFails, Edit, ChangeElsewhere, Submit, Create, Change, Saved,
           SaveFails, formVars, formShadow
  <2>4. wiped' \in BOOLEAN
    BY <1>0, <2>2
  <2>5. lostReply' \in BOOLEAN
    BY <1>0, <2>3
  <2> QED BY <1>0, <2>1, <2>4, <2>5 DEF FormFlags
<1>2. copies' = copies \/ (copies < Cardinality(Save) /\ copies' = copies + 1)
  BY DEF FormNext, Fill, FillFails, Edit, ChangeElsewhere, Submit, Create, Change, Saved,
         SaveFails, formVars, formShadow
<1>3. Cardinality(Save) \in Nat
  BY FormsAssumption, FS_CardinalityType
<1> QED BY <1>0, <1>1, <1>2, <1>3

\* They are the types of a form that has been opened, and imply FormTypeOK.
LEMMA FormTypeFacts == (FormInit => FormTypeIInv) /\ (FormTypeIInv => FormTypeOK)
<1>1. Cardinality(Save) \in Nat
  BY FormsAssumption, FS_CardinalityType
<1>2. FormInit => FormTypeIInv
  <2> SUFFICES ASSUME FormInit PROVE FormTypeIInv
    OBVIOUS
  <2>1. /\ saving = FALSE /\ changed = FALSE /\ wiped = FALSE /\ lostReply = FALSE
        /\ copies = 0
    BY DEF FormInit, formShadow
  <2>2. FormFlags
    BY <2>1 DEF FormFlags
  <2>3. copies \in 0 .. Cardinality(Save)
    BY <1>1, <2>1
  <2> QED BY <2>2, <2>3, FormInitial DEF FormTypeIInv
<1>3. FormTypeIInv => FormTypeOK
  BY DEF FormTypeIInv, FormIInv, FormFlags, SaveState, FormTypeOK
<1> QED BY <1>2, <1>3

\* The form, its content, calls and flags keep their types, and it creates no
\* more than it has calls.
THEOREM FormTypeCorrect == FormSpec => []FormTypeOK
BY FormTypeFacts, FormTypeStep, PTL DEF FormSpec

----------------------------------------------------------------------------
SecretFlags == {crossed, missed} \subseteq BOOLEAN

SecretTypeIInv == SecretIInv /\ SecretFlags

\* Every step keeps the types of the page that shows a secret.
LEMMA SecretTypeStep == SecretTypeIInv /\ [SecretNext]_secretVars => SecretTypeIInv'
<1> SUFFICES ASSUME SecretTypeIInv, [SecretNext]_secretVars PROVE SecretFlags'
  BY SecretStep DEF SecretTypeIInv
<1>0. crossed \in BOOLEAN /\ missed \in BOOLEAN
  BY DEF SecretTypeIInv, SecretFlags
<1>1. \/ crossed' = crossed
      \/ crossed' = (crossed \/ rotation.op # "none")
      \/ crossed' = (crossed \/ edit.op # "none")
  BY DEF SecretNext, StartSave, StartRotate, PerformSave, PerformRotate, DeliverSave,
         DeliverRotate, LoseCall, secretVars
<1>2. \/ missed' = missed
      \/ missed' = (missed \/ rotation.secret # 0)
      \/ missed' = (missed \/ edit.secret # 0)
  BY DEF SecretNext, StartSave, StartRotate, PerformSave, PerformRotate, DeliverSave,
         DeliverRotate, LoseCall, secretVars
<1>3. crossed' \in BOOLEAN
  BY <1>0, <1>1
<1>4. missed' \in BOOLEAN
  BY <1>0, <1>2
<1> QED BY <1>3, <1>4 DEF SecretFlags

\* They are the types of a page that has been opened, and imply SecretTypeOK.
LEMMA SecretTypeFacts == (SecretInit => SecretTypeIInv) /\ (SecretTypeIInv => SecretTypeOK)
<1>1. SecretInit => SecretTypeIInv
  BY SecretInitial DEF SecretInit, SecretTypeIInv, SecretFlags
<1>2. SecretTypeIInv => SecretTypeOK
  BY DEF SecretTypeIInv, SecretIInv, SecretFlags, Server, Call, SecretTypeOK
<1> QED BY <1>1, <1>2

\* The client, the secret in sight and the calls keep their types.
THEOREM SecretTypeCorrect == SecretSpec => []SecretTypeOK
BY SecretTypeFacts, SecretTypeStep, PTL DEF SecretSpec

----------------------------------------------------------------------------
\* A tab has one call at a time.
OneCall == \A b \in Tab : tab[b].call = {} \/ \E k \in {Nothing} \cup Ticket : tab[b].call = {k}

SessionTypeIInv == SessionIInv /\ OneCall /\ foreign \subseteq Tab

\* Where a tab goes, its call goes with it.
LEMMA GoKeepsCall ==
    \A b, m, name, t, x : /\ At(b, m, name, t, x).call = tab[b].call
                          /\ Go(b, m, name, t, x).call = tab[b].call
BY DEF At, Go

\* Every step keeps the types of the tabs.
LEMMA SessionTypeStep == SessionTypeIInv /\ [SessionNext]_sessionVars => SessionTypeIInv'
<1> SUFFICES ASSUME SessionTypeIInv, [SessionNext]_sessionVars
             PROVE  OneCall' /\ (foreign \subseteq Tab)'
  BY SessionStep DEF SessionTypeIInv
<1>0. /\ OneCall /\ foreign \subseteq Tab /\ tab \in [Tab -> TabRow]
      /\ storage.token \in {Nothing} \cup Ticket
  BY DEF SessionTypeIInv, SessionIInv, Memory
\* A step of one tab.
<1>a. ASSUME NEW b \in Tab, NEW w, tab' = [tab EXCEPT ![b] = w],
             w.call \in {{}, {storage.token}, tab[b].call}
      PROVE  OneCall'
  <2>1. tab'[b] = w /\ \A c \in Tab \ {b} : tab'[c] = tab[c]
    BY <1>0, <1>a
  <2>2. ASSUME NEW c \in Tab
        PROVE  tab'[c].call = {} \/ \E k \in {Nothing} \cup Ticket : tab'[c].call = {k}
    <3>1. tab[c].call = {} \/ \E k \in {Nothing} \cup Ticket : tab[c].call = {k}
      BY <1>0 DEF OneCall
    <3> QED BY <1>0, <1>a, <2>1, <3>1
  <2> QED BY <2>2 DEF OneCall
<1>1. ASSUME NEW b \in Tab, NEW k, NEW role, NEW T, SignIn(b, k, role, T)
      PROVE  OneCall' /\ (foreign \subseteq Tab)'
  <2>1. PICK m, name, t : tab' = [tab EXCEPT ![b] = At(b, m, name, t, Nothing)]
    BY <1>1 DEF SignIn
  <2> DEFINE w == At(b, m, name, t, Nothing)
  <2>2. w.call = tab[b].call /\ tab' = [tab EXCEPT ![b] = w]
    BY <2>1, GoKeepsCall
  <2> HIDE DEF w
  <2>3. OneCall'
    BY <1>a, <2>2
  <2> QED BY <1>1, <2>3 DEF SignIn
<1>2. ASSUME NEW b \in Tab, Logout(b) \/ RefuseSignIn(b)
      PROVE  OneCall' /\ (foreign \subseteq Tab)'
  <2> DEFINE w == At(b, NoMemory, "login", Nothing, Nothing)
  <2>1. w.call = tab[b].call /\ tab' = [tab EXCEPT ![b] = w]
    BY <1>2, GoKeepsCall DEF Logout, RefuseSignIn, Forget
  <2> HIDE DEF w
  <2>2. OneCall'
    BY <1>a, <2>1
  <2> QED BY <1>0, <1>2, <2>2 DEF Logout, RefuseSignIn, Forget
<1>3. ASSUME NEW b \in Tab, NEW name, NEW t, Reload(b, name, t)
      PROVE  OneCall' /\ (foreign \subseteq Tab)'
  <2>1. PICK m, n, u, x :
            tab' = [tab EXCEPT ![b] = [At(b, m, n, u, x) EXCEPT !.page = At(b, m, n, u, x).tenant,
                                                                !.call = {}]]
    BY <1>3 DEF Reload, Go
  <2> DEFINE w == [At(b, m, n, u, x) EXCEPT !.page = At(b, m, n, u, x).tenant, !.call = {}]
  <2>2. w.call = {}
    BY DEF At
  <2>3. tab' = [tab EXCEPT ![b] = w]
    BY <2>1
  <2> HIDE DEF w
  <2>4. OneCall'
    BY <1>a, <2>2, <2>3
  <2> QED BY <1>0, <1>3, <2>4 DEF Reload
<1>4. ASSUME NEW b \in Tab, NEW name, NEW t, Follow(b, name, t) \/ SwitchTo(b, t)
      PROVE  OneCall' /\ (foreign \subseteq Tab)'
  <2>1. PICK m, n, s, x : tab' = [tab EXCEPT ![b] = Go(b, m, n, s, x)]
    BY <1>4 DEF Follow, SwitchTo
  <2> DEFINE w == Go(b, m, n, s, x)
  <2>2. w.call = tab[b].call /\ tab' = [tab EXCEPT ![b] = w]
    BY <2>1, GoKeepsCall
  <2> HIDE DEF w
  <2>3. OneCall'
    BY <1>a, <2>2
  <2> QED BY <1>0, <1>4, <2>3 DEF Follow, SwitchTo
<1>5. ASSUME NEW b \in Tab, Send(b) \/ Serve(b) PROVE OneCall' /\ (foreign \subseteq Tab)'
  <2>1. PICK K \in {{}, {storage.token}} : tab' = [tab EXCEPT ![b] = [tab[b] EXCEPT !.call = K]]
    BY <1>5 DEF Send, Serve
  <2>2. [tab[b] EXCEPT !.call = K].call = K
    BY <1>0 DEF TabRow
  <2> QED BY <1>0, <1>a, <1>5, <2>1, <2>2 DEF Send, Serve
<1>6. ASSUME NEW b \in Tab, RefuseCall(b) PROVE OneCall' /\ (foreign \subseteq Tab)'
  <2> DEFINE w == [At(b, NoMemory, "login", Nothing, Nothing) EXCEPT !.call = {}]
  <2>1. w.call = {}
    BY DEF At
  <2>2. tab' = [tab EXCEPT ![b] = w] /\ foreign' = foreign \cup (Tab \ {b})
    BY <1>6 DEF RefuseCall
  <2> HIDE DEF w
  <2> QED BY <1>0, <1>a, <2>1, <2>2
<1>7. ASSUME NEW k, ExpireTicket(k) PROVE OneCall' /\ (foreign \subseteq Tab)'
  BY <1>0, <1>7 DEF ExpireTicket, OneCall
<1>8. CASE UNCHANGED sessionVars
  BY <1>0, <1>8 DEF sessionVars, OneCall
<1>9. OneCall' /\ (foreign \subseteq Tab)'
  BY <1>1, <1>2, <1>3, <1>4, <1>5, <1>6, <1>7, <1>8 DEF SessionNext
<1> QED BY <1>9

\* They are the types of tabs that have been opened, and imply SessionTypeOK.
LEMMA SessionTypeFacts ==
    (SessionInit => SessionTypeIInv) /\ (SessionTypeIInv => SessionTypeOK)
<1>1. SessionInit => SessionTypeIInv
  BY SessionInitial DEF SessionInit, SessionTypeIInv, OneCall
<1>2. SessionTypeIInv => SessionTypeOK
  <2> SUFFICES ASSUME SessionTypeIInv PROVE SessionTypeOK
    OBVIOUS
  <2>1. ASSUME NEW b \in Tab PROVE tab[b] \in TabRow /\ Cardinality(tab[b].call) <= 1
    <3>1. \A k : Cardinality({k}) = 1
      BY FS_Singleton
    <3>2. Cardinality({}) = 0
      BY FS_EmptySet
    <3>3. tab[b].call = {} \/ \E k \in {Nothing} \cup Ticket : tab[b].call = {k}
      BY DEF SessionTypeIInv, OneCall
    <3>4. Cardinality(tab[b].call) <= 1
      <4>1. CASE tab[b].call = {}
        BY <3>2, <4>1
      <4>2. ASSUME NEW k, tab[b].call = {k} PROVE Cardinality(tab[b].call) <= 1
        <5>1. Cardinality({k}) = 1
          BY <3>1
        <5> QED BY <4>2, <5>1
      <4> QED BY <3>3, <4>1, <4>2
    <3> QED BY <3>4 DEF SessionTypeIInv, SessionIInv
  <2> QED BY <2>1 DEF SessionTypeIInv, SessionIInv, TabRow, SessionTypeOK
<1> QED BY <1>1, <1>2

\* Tickets, the storage and the tabs keep their types, and a tab waits for one
\* answer at a time.
THEOREM SessionTypeCorrect == SessionSpec => []SessionTypeOK
BY SessionTypeFacts, SessionTypeStep, PTL DEF SessionSpec
=============================================================================
