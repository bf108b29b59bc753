---------------------------- MODULE RelyingParty ----------------------------
(***************************************************************************)
(* An application that signs its user in with Authori: the example for the *)
(* browser and the two for a desktop or a phone, to which the answer comes *)
(* back as a link.                                                         *)
(*                                                                         *)
(* Every login draws a state and a verifier; here both are the number of   *)
(* the login, and so is the code that the server issues for it.  Buttons   *)
(* are off while the flag says busy, but a link arrives when it likes, may *)
(* arrive twice, and lowers the flag when it has been dealt with.          *)
(***************************************************************************)
EXTENDS Naturals, FiniteSets

CONSTANTS
    MaxLogin,   \* bound on the logins
    Exchange    \* slots: bound on the exchanges in flight

ASSUME RelyingPartyAssumption == MaxLogin \in Nat \ {0}

VARIABLES
    app,        \* the application
    begun,      \* the logins begun
    busy,       \* the flag
    pending,    \* the login whose answer is awaited, 0 for none
    session,    \* the login whose tokens it holds, 0 for none
    login,      \* the login being submitted
    other,      \* the refresh or the revocation in flight
    exchanges,  \* the exchanges in flight
    links,      \* links that can be opened
    used,       \* on the server: codes that have been exchanged
    live,       \* on the server: logins with live tokens
    \* History variables: written by the actions, never read by them.
    overlapped, \* an operation was begun, or a link opened, during another one
    restarted,  \* the application has been started again
    outside,    \* logins whose tokens have been given up
    turnedAway  \* the newest login's link found nothing pending

partyVars == <<app, begun, busy, pending, session, login, other, exchanges, links,
               used, live, overlapped, restarted, outside, turnedAway>>
partyShadow == <<overlapped, restarted, outside, turnedAway>>

----------------------------------------------------------------------------
(***************************************************************************)
(* The applications.                                                       *)
(*   persists  keeps what it awaits, and the tokens, across a restart      *)
(*   sooner    awaits the answer before it has submitted the login         *)
(*   waits     awaits it only when the browser has been opened             *)
(*   revokes   asks the server to revoke the tokens at logout              *)
(*   resets    can forget them without asking                              *)
(***************************************************************************)
App == [persists : BOOLEAN, sooner : BOOLEAN, waits : BOOLEAN, revokes : BOOLEAN,
        resets : BOOLEAN]

Vite == [persists |-> TRUE, sooner |-> TRUE, waits |-> FALSE, revokes |-> FALSE,
         resets |-> TRUE]

Tauri == [persists |-> FALSE, sooner |-> FALSE, waits |-> FALSE, revokes |-> TRUE,
          resets |-> FALSE]

Flutter == [Tauri EXCEPT !.waits = TRUE, !.resets = TRUE]

----------------------------------------------------------------------------
LoginId == 0..MaxLogin
NoLogin == [op |-> "none", id |-> 0]
NoExchange == [op |-> "none", code |-> 0, verifier |-> 0]

PartyTypeOK ==
    /\ app \in {Vite, Tauri, Flutter}
    /\ {begun, pending, session} \subseteq LoginId
    /\ login \in [op : {"none", "sent", "opened"}, id : LoginId]
    /\ other \in [op : {"none", "refresh", "refreshed", "revoke", "revoked"}, id : LoginId]
    /\ exchanges \in [Exchange -> [op : {"none", "sent", "read", "done", "refused"},
                                   code : LoginId, verifier : LoginId]]
    /\ links \subseteq LoginId /\ used \subseteq LoginId /\ live \subseteq LoginId
    /\ outside \subseteq LoginId
    /\ {busy, overlapped, restarted, turnedAway} \subseteq BOOLEAN

PartyInit ==
    /\ app \in {Vite, Tauri, Flutter}
    /\ begun = 0 /\ busy = FALSE /\ pending = 0 /\ session = 0
    /\ login = NoLogin /\ other = NoLogin
    /\ exchanges = [e \in Exchange |-> NoExchange]
    /\ links = {} /\ used = {} /\ live = {}
    /\ overlapped = FALSE /\ restarted = FALSE
    /\ outside = {} /\ turnedAway = FALSE

Exchanging == \E e \in Exchange : exchanges[e].op # "none"
Working == login.op # "none" \/ other.op # "none" \/ Exchanging

----------------------------------------------------------------------------
(***************************************************************************)
(* The login, up to the browser.                                           *)
(***************************************************************************)
SubmitLogin ==
    /\ ~busy /\ login.op = "none" /\ begun < MaxLogin
    /\ begun' = begun + 1
    /\ busy' = TRUE
    /\ login' = [op |-> "sent", id |-> begun + 1]
    /\ pending' = IF app.sooner THEN begun + 1 ELSE pending
    /\ overlapped' = (overlapped \/ Working)
    /\ UNCHANGED <<app, session, other, exchanges, links, used, live, restarted,
                   outside, turnedAway>>

\* The application awaits the answer, and has no tokens any more.
Await(id) == pending' = id /\ session' = 0

OpensBeforeItAwaits == app.waits

OpenBrowser ==
    /\ login.op = "sent"
    /\ links' = links \cup {login.id}
    /\ IF app.sooner    \* the browser leaves the page
       THEN login' = NoLogin /\ busy' \in BOOLEAN /\ UNCHANGED <<pending, session>>
       ELSE /\ login' = [login EXCEPT !.op = "opened"]
            /\ IF OpensBeforeItAwaits THEN UNCHANGED <<pending, session>> ELSE Await(login.id)
            /\ UNCHANGED busy
    /\ UNCHANGED <<app, begun, other, exchanges, used, live, partyShadow>>

\* The links that come meanwhile are dealt with.
BrowserIsOpen ==
    /\ login.op = "opened"
    /\ IF OpensBeforeItAwaits THEN Await(login.id) ELSE UNCHANGED <<pending, session>>
    /\ login' = NoLogin /\ busy' = FALSE
    /\ UNCHANGED <<app, begun, other, exchanges, links, used, live, partyShadow>>

LoginFails ==
    /\ login.op # "none"
    /\ login' = NoLogin /\ busy' = FALSE
    /\ UNCHANGED <<app, begun, pending, session, other, exchanges, links, used, live,
                   partyShadow>>

----------------------------------------------------------------------------
(***************************************************************************)
(* The link.  The bridge opens it by itself and has a button for opening   *)
(* it again; a page that is reloaded finds the code in its address.        *)
(***************************************************************************)

\* Mutant: whatever comes back is taken for the answer that is awaited.
AcceptsAny(id) == pending # 0

Accepts(id) == pending = id

OpenLink(e, id) ==
    /\ id \in links /\ (app.persists => ~Working)
    /\ IF Accepts(id)
       THEN /\ exchanges[e].op = "none"
            /\ exchanges' = [exchanges EXCEPT ![e] =
                   [op |-> "sent", code |-> id, verifier |-> pending]]
            /\ busy' = TRUE
            /\ overlapped' = (overlapped \/ login.op = "sent" \/ other.op # "none" \/ Exchanging)
            /\ UNCHANGED turnedAway
       ELSE /\ turnedAway' = (turnedAway \/ (id = begun /\ id \notin used /\ id \notin outside
                                             /\ ~restarted))
            /\ UNCHANGED <<exchanges, busy, overlapped>>
    /\ UNCHANGED <<app, begun, pending, session, login, other, links, used, live,
                   restarted, outside>>

\* The page has gone to the server; it is loaded again with what comes back,
\* or with nothing.
Return ==
    /\ app.persists /\ busy /\ ~Working
    /\ busy' = FALSE
    /\ UNCHANGED <<app, begun, pending, session, login, other, exchanges, links, used,
                   live, partyShadow>>

\* The server reads the code, and marks it used in a transaction of its own.
ReadCode(e) ==
    /\ exchanges[e].op = "sent"
    /\ exchanges' = [exchanges EXCEPT ![e].op =
           IF exchanges[e].code \in used \/ exchanges[e].code # exchanges[e].verifier
           THEN "refused" ELSE "read"]
    /\ UNCHANGED <<app, begun, busy, pending, session, login, other, links, used, live,
                   partyShadow>>

IssueTokens(e) ==
    /\ exchanges[e].op = "read"
    /\ exchanges' = [exchanges EXCEPT ![e].op = "done"]
    /\ used' = used \cup {exchanges[e].code}
    /\ live' = live \cup {exchanges[e].code}
    /\ UNCHANGED <<app, begun, busy, pending, session, login, other, links, overlapped,
                   restarted, outside, turnedAway>>

\* Whatever is pending by now is dropped.
TakeTokens(e) ==
    /\ exchanges[e].op = "done"
    /\ exchanges' = [exchanges EXCEPT ![e] = NoExchange]
    /\ session' = exchanges[e].code
    /\ pending' = 0 /\ busy' = FALSE
    /\ UNCHANGED <<app, begun, login, other, links, used, live, overlapped,
                   restarted, outside, turnedAway>>

ExchangeFails(e) ==
    /\ exchanges[e].op # "none"
    /\ exchanges' = [exchanges EXCEPT ![e] = NoExchange]
    /\ busy' = FALSE
    /\ UNCHANGED <<app, begun, pending, session, login, other, links, used, live,
                   partyShadow>>

----------------------------------------------------------------------------
(***************************************************************************)
(* The tokens.                                                             *)
(***************************************************************************)
StartOther(op) ==
    /\ ~busy /\ session # 0 /\ other.op = "none" /\ app.revokes
    /\ busy' = TRUE
    /\ other' = [op |-> op, id |-> session]
    /\ overlapped' = (overlapped \/ Working)
    /\ UNCHANGED <<app, begun, pending, session, login, exchanges, links, used, live,
                   restarted, outside, turnedAway>>

Rotate ==
    /\ other.op = "refresh" /\ other.id \in live
    /\ other' = [other EXCEPT !.op = "refreshed"]
    /\ UNCHANGED <<app, begun, busy, pending, session, login, exchanges, links, used, live,
                   partyShadow>>

\* The tokens are put back into the session the refresh began with.
TakeRefreshed ==
    /\ other.op = "refreshed"
    /\ other' = NoLogin /\ busy' = FALSE
    /\ session' = other.id
    /\ UNCHANGED <<app, begun, pending, login, exchanges, links, used, live, partyShadow>>

Revoke ==
    /\ other.op = "revoke"
    /\ other' = [other EXCEPT !.op = "revoked"]
    /\ live' = live \ {other.id}
    /\ UNCHANGED <<app, begun, busy, pending, session, login, exchanges, links, used,
                   partyShadow>>

\* Mutant: the tokens are revoked and kept.
KeepTokens == UNCHANGED <<pending, session>>

ClearAuthState == pending' = 0 /\ session' = 0

SignOut ==
    /\ other.op = "revoked"
    /\ other' = NoLogin /\ busy' = FALSE
    /\ ClearAuthState
    /\ outside' = outside \cup {other.id}
    /\ UNCHANGED <<app, begun, login, exchanges, links, used, live, overlapped,
                   restarted, turnedAway>>

\* The call failed, before or after the server did what it was asked.
OtherFails ==
    /\ other.op # "none"
    /\ other' = NoLogin /\ busy' = FALSE
    /\ UNCHANGED <<app, begun, pending, session, login, exchanges, links, used, live,
                   partyShadow>>

\* Forgets without asking the server; the tokens live on.
Reset ==
    /\ ~busy /\ (app.resets \/ session = 0)
    /\ ClearAuthState
    /\ outside' = outside \cup ({session, pending} \ {0})
    /\ overlapped' = (overlapped \/ Working)
    /\ UNCHANGED <<app, begun, busy, login, other, exchanges, links, used, live,
                   restarted, turnedAway>>

\* Closed and started again, or the page reloaded: calls in flight are dropped,
\* and with them what only the memory held.
Restart ==
    /\ restarted' = TRUE
    /\ busy' = FALSE /\ login' = NoLogin /\ other' = NoLogin
    /\ exchanges' = [e \in Exchange |-> NoExchange]
    /\ IF app.persists THEN UNCHANGED <<pending, session>> ELSE ClearAuthState
    /\ UNCHANGED <<app, begun, links, used, live, overlapped, outside, turnedAway>>

PartyNext ==
    \/ SubmitLogin \/ OpenBrowser \/ BrowserIsOpen \/ LoginFails
    \/ \E e \in Exchange :
        \/ \E id \in links : OpenLink(e, id)
        \/ ReadCode(e) \/ IssueTokens(e) \/ TakeTokens(e) \/ ExchangeFails(e)
    \/ StartOther("refresh") \/ StartOther("revoke") \/ Rotate \/ TakeRefreshed \/ Revoke
    \/ Return \/ SignOut \/ OtherFails \/ Reset \/ Restart

PartySpec == PartyInit /\ [][PartyNext]_partyVars

----------------------------------------------------------------------------
(***************************************************************************)
(* Properties.                                                             *)
(***************************************************************************)

\* Tokens that the user has given up do not come back by themselves, however
\* links are opened and answers are lost: only operations that overlapped bring
\* them back (tauri App.vue:349).
GivenUpStaysOut == session \in outside => overlapped

\* A code is sent with the verifier of the login it was issued for, whatever
\* links are opened, and in which order (tauri App.vue:258).  And the answer to
\* the newest login finds the application waiting for it, unless it awaits the
\* answer only when the browser is open (home_screen.dart:289), or the user has
\* started something else.
AnswersFit ==
    /\ \A e \in Exchange : exchanges[e].code = exchanges[e].verifier
    /\ turnedAway => app.waits \/ overlapped
=============================================================================
