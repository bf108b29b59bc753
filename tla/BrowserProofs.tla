--------------------------- MODULE BrowserProofs ----------------------------
(***************************************************************************)
(* What a browser does: an application that signs its user in, and the     *)
(* types of all the parts together.                                        *)
(*                                                                         *)
(* While no two operations have overlapped, one thing is in flight at most, *)
(* nothing that is held, awaited or on its way has been given up, and the  *)
(* application awaits its newest login.                                    *)
(***************************************************************************)
EXTENDS MCBrowser, LoginProofs, ConsoleProofs

Flight == {e \in Exchange : exchanges[e].op # "none"}

PartyNumbers ==
    /\ app \in {Vite, Tauri, Flutter}
    /\ begun \in Nat /\ pending \in 0 .. begun /\ session \in 0 .. begun
    /\ login \in [op : {"none", "sent", "opened"}, id : Nat]
    /\ login.op # "none" => login.id = begun /\ begun # 0
    /\ other \in [op : {"none", "refresh", "refreshed", "revoke", "revoked"}, id : Nat]
    /\ other.op # "none" => other.id \in 1 .. begun
    /\ exchanges \in [Exchange -> [op : {"none", "sent", "read", "done", "refused"},
                                   code : Nat, verifier : Nat]]
    /\ links \subseteq 1 .. begun /\ outside \subseteq 1 .. begun
    /\ \A e \in Exchange : exchanges[e].code = exchanges[e].verifier
    /\ \A e \in Flight : exchanges[e].code \in 1 .. begun
    /\ \A e \in Exchange : exchanges[e].op = "done" => exchanges[e].code \in used

\* One thing at a time; a link may arrive when the browser is open.
OneAtATime ==
    /\ login.op = "sent" \/ other.op # "none" => Flight = {}
    /\ other.op # "none" => login.op = "none"
    /\ \A e, f \in Flight : e = f

\* Nothing that is held, awaited or on its way has been given up.
NothingGivenUp ==
    /\ session \notin outside /\ pending \notin outside
    /\ login.op # "none" => login.id \notin outside
    /\ other.op # "none" => other.id \notin outside
    /\ \A e \in Flight : exchanges[e].code \notin outside

\* Whom the application awaits.
AwaitsNewest ==
    /\ ~app.sooner => session = 0 \/ pending = 0
    /\ other.op # "none" => pending = 0
    /\ app.sooner /\ login.op = "sent" => pending = begun
    /\ ~app.waits /\ ~restarted /\ begun \in links /\ begun \notin used \cup outside =>
        pending = begun /\ \A e \in Flight : exchanges[e].code = begun

PartyIInv ==
    /\ PartyNumbers
    /\ ~overlapped => OneAtATime /\ NothingGivenUp /\ AwaitsNewest
    /\ turnedAway => app.waits \/ overlapped

\* The three applications.
LEMMA Apps ==
    /\ Vite.sooner /\ ~Vite.waits /\ ~Vite.revokes /\ Vite.persists
    /\ ~Tauri.sooner /\ ~Tauri.waits /\ Tauri.revokes /\ ~Tauri.persists
    /\ ~Flutter.sooner /\ Flutter.waits /\ Flutter.revokes /\ ~Flutter.persists
BY DEF Vite, Tauri, Flutter

\* A slot that is free.
LEMMA Nothings ==
    /\ NoLogin.op = "none" /\ NoExchange.op = "none"
    /\ NoLogin \in [op : {"none", "sent", "opened"}, id : Nat]
    /\ NoLogin \in [op : {"none", "refresh", "refreshed", "revoke", "revoked"}, id : Nat]
    /\ NoExchange \in [op : {"none", "sent", "read", "done", "refused"}, code : Nat, verifier : Nat]
    /\ NoExchange.code = NoExchange.verifier
BY DEF NoLogin, NoExchange

\* An exchange that goes on keeps its code.
LEMMA ExchangeGoesOn ==
    ASSUME PartyNumbers, NEW e \in Exchange, exchanges[e].op # "none",
           NEW op \in {"read", "done", "refused"},
           exchanges' = [exchanges EXCEPT ![e].op = op]
    PROVE  /\ Flight' = Flight
           /\ exchanges' \in [Exchange -> [op : {"none", "sent", "read", "done", "refused"},
                                           code : Nat, verifier : Nat]]
           /\ \A f \in Exchange : /\ exchanges'[f].code = exchanges[f].code
                                  /\ exchanges'[f].verifier = exchanges[f].verifier
                                  /\ f # e => exchanges'[f] = exchanges[f]
           /\ exchanges'[e].op = op
<1> DEFINE w == [exchanges[e] EXCEPT !.op = op]
<1>1. exchanges[e] \in [op : {"none", "sent", "read", "done", "refused"}, code : Nat, verifier : Nat]
  BY DEF PartyNumbers
<1>2. /\ w \in [op : {"none", "sent", "read", "done", "refused"}, code : Nat, verifier : Nat]
      /\ w.op = op /\ w.code = exchanges[e].code /\ w.verifier = exchanges[e].verifier
  BY <1>1
<1>3. exchanges' = [exchanges EXCEPT ![e] = w]
  OBVIOUS
<1> HIDE DEF w
<1> QED BY <1>2, <1>3 DEF PartyNumbers, Flight

\* One that ends is gone.
LEMMA ExchangeEnds ==
    ASSUME PartyNumbers, NEW e \in Exchange, exchanges' = [exchanges EXCEPT ![e] = NoExchange]
    PROVE  /\ Flight' = Flight \ {e}
           /\ exchanges' \in [Exchange -> [op : {"none", "sent", "read", "done", "refused"},
                                           code : Nat, verifier : Nat]]
           /\ \A f \in Exchange \ {e} : exchanges'[f] = exchanges[f]
           /\ exchanges'[e] = NoExchange
BY Nothings DEF PartyNumbers, Flight

\* Every step of the application, of the server and of the links keeps it.
LEMMA PartyStep == PartyIInv /\ [PartyNext]_partyVars => PartyIInv'
<1> SUFFICES ASSUME PartyIInv, [PartyNext]_partyVars PROVE PartyIInv'
  OBVIOUS
<1>0. PartyNumbers /\ (app.sooner => app = Vite)
  BY Apps DEF PartyIInv, PartyNumbers
<1>w. ~Working => login.op = "none" /\ other.op = "none" /\ Flight = {}
  BY DEF Working, Exchanging, Flight
<1>x. ~Exchanging => Flight = {}
  BY DEF Exchanging, Flight
\* A call fails, or has done nothing that matters here.
<1>a. ASSUME UNCHANGED <<app, begun, pending, session, exchanges, links, used, partyShadow>>,
             login' = login \/ login' = NoLogin, other' = other \/ other' = NoLogin
      PROVE  PartyIInv'
  <2>1. Flight' = Flight
    BY <1>a DEF Flight
  <2>2. PartyNumbers'
    BY <1>0, <1>a, <2>1, Nothings DEF PartyNumbers, partyShadow
  <2>3. ASSUME ~overlapped' PROVE OneAtATime' /\ NothingGivenUp' /\ AwaitsNewest'
    <3>1. OneAtATime /\ NothingGivenUp /\ AwaitsNewest
      BY <1>a, <2>3 DEF PartyIInv, partyShadow
    <3>2. OneAtATime'
      BY <1>a, <2>1, <3>1, Nothings DEF OneAtATime
    <3>3. NothingGivenUp'
      BY <1>a, <2>1, <3>1, Nothings DEF NothingGivenUp, partyShadow
    <3>4. AwaitsNewest'
      BY <1>a, <2>1, <3>1, Nothings DEF AwaitsNewest, partyShadow
    <3> QED BY <3>2, <3>3, <3>4
  <2> QED BY <1>a, <2>2, <2>3 DEF PartyIInv, partyShadow
<1>1. CASE SubmitLogin
  <2>1. /\ login.op = "none" /\ begun' = begun + 1 /\ login' = [op |-> "sent", id |-> begun + 1]
        /\ pending' = IF app.sooner THEN begun + 1 ELSE pending
        /\ overlapped' = (overlapped \/ Working)
        /\ UNCHANGED <<app, session, other, exchanges, links, used, restarted, outside, turnedAway>>
    BY <1>1 DEF SubmitLogin
  <2>2. Flight' = Flight /\ begun \in Nat
    BY <1>0, <2>1 DEF Flight, PartyNumbers
  <2>3. PartyNumbers'
    BY <1>0, <2>1, <2>2 DEF PartyNumbers
  <2>4. ASSUME ~overlapped' PROVE OneAtATime' /\ NothingGivenUp' /\ AwaitsNewest'
    <3>1. ~overlapped /\ login.op = "none" /\ other.op = "none" /\ Flight = {}
      BY <1>w, <2>1, <2>4
    <3>2. OneAtATime /\ NothingGivenUp /\ AwaitsNewest
      BY <3>1 DEF PartyIInv
    <3>3. begun' \notin outside /\ begun' \notin links
      BY <1>0, <2>1 DEF PartyNumbers
    <3>4. OneAtATime'
      BY <2>1, <2>2, <3>1 DEF OneAtATime
    <3>5. NothingGivenUp'
      BY <2>1, <2>2, <3>1, <3>2, <3>3 DEF NothingGivenUp
    <3>6. AwaitsNewest'
      BY <2>1, <2>2, <3>1, <3>2, <3>3 DEF AwaitsNewest
    <3> QED BY <3>4, <3>5, <3>6
  <2> QED BY <2>1, <2>3, <2>4 DEF PartyIInv
<1>2. CASE OpenBrowser
  <2>1. /\ login.op = "sent" /\ links' = links \cup {login.id}
        /\ UNCHANGED <<app, begun, other, exchanges, used, overlapped, restarted, outside, turnedAway>>
    BY <1>2 DEF OpenBrowser, partyShadow
  <2>2. login.id = begun /\ begun \in 1 .. begun /\ Flight' = Flight
    BY <1>0, <2>1 DEF PartyNumbers, Flight
  <2>3. \/ app.sooner /\ login' = NoLogin /\ UNCHANGED <<pending, session>>
        \/ /\ ~app.sooner /\ login' = [op |-> "opened", id |-> begun]
           /\ \/ app.waits /\ UNCHANGED <<pending, session>>
              \/ ~app.waits /\ pending' = begun /\ session' = 0
    <3>1. CASE app.sooner
      BY <1>2, <3>1 DEF OpenBrowser
    <3>2. CASE ~app.sooner
      <4>1. login \in [op : {"none", "sent", "opened"}, id : Nat]
        BY <1>0 DEF PartyNumbers
      <4>2. login' = [login EXCEPT !.op = "opened"]
        BY <1>2, <3>2 DEF OpenBrowser
      <4>3. login' = [op |-> "opened", id |-> begun]
        BY <2>2, <4>1, <4>2
      <4>4. IF app.waits THEN UNCHANGED <<pending, session>> ELSE pending' = begun /\ session' = 0
        BY <1>2, <2>2, <3>2 DEF OpenBrowser, OpensBeforeItAwaits, Await
      <4> QED BY <3>2, <4>3, <4>4
    <3> QED BY <3>1, <3>2
  <2>4. PartyNumbers'
    <3>1. /\ login' \in [op : {"none", "sent", "opened"}, id : Nat]
          /\ login'.op # "none" => login'.id = begun /\ begun # 0
      BY <1>0, <2>2, <2>3, Nothings DEF PartyNumbers
    <3>2. pending' \in 0 .. begun /\ session' \in 0 .. begun
      BY <1>0, <2>2, <2>3 DEF PartyNumbers
    <3> QED BY <1>0, <2>1, <2>2, <3>1, <3>2 DEF PartyNumbers
  <2>5. ASSUME ~overlapped' PROVE OneAtATime' /\ NothingGivenUp' /\ AwaitsNewest'
    <3>1. OneAtATime /\ NothingGivenUp /\ AwaitsNewest
      BY <2>1, <2>5 DEF PartyIInv
    <3>2. other.op = "none" /\ Flight = {} /\ 0 \notin outside
      BY <1>0, <2>1, <3>1 DEF OneAtATime, PartyNumbers
    <3>3. OneAtATime'
      BY <2>1, <2>2, <3>2 DEF OneAtATime
    <3>4. NothingGivenUp'
      <4>1. begun \notin outside
        BY <2>1, <2>2, <3>1 DEF NothingGivenUp
      <4>2. login'.op # "none" => login'.id = begun
        BY <2>3, Nothings
      <4> QED BY <2>1, <2>2, <2>3, <3>1, <3>2, <4>1, <4>2 DEF NothingGivenUp
    <3>5. AwaitsNewest'
      <4>1. login'.op # "sent"
        BY <2>3, Nothings
      <4> QED BY <2>1, <2>2, <2>3, <3>1, <3>2, <4>1 DEF AwaitsNewest
    <3> QED BY <3>3, <3>4, <3>5
  <2> QED BY <2>1, <2>4, <2>5 DEF PartyIInv
<1>3. CASE BrowserIsOpen
  <2>1. /\ login.op = "opened" /\ login' = NoLogin
        /\ \/ app.waits /\ pending' = login.id /\ session' = 0
           \/ UNCHANGED <<pending, session>>
        /\ UNCHANGED <<app, begun, other, exchanges, links, used, overlapped, restarted, outside,
                       turnedAway>>
    BY <1>3 DEF BrowserIsOpen, OpensBeforeItAwaits, Await, partyShadow
  <2>2. login.id = begun /\ begun \in 1 .. begun /\ Flight' = Flight
    BY <1>0, <2>1 DEF PartyNumbers, Flight
  <2>3. PartyNumbers'
    BY <1>0, <2>1, <2>2, Nothings DEF PartyNumbers
  <2>4. ASSUME ~overlapped' PROVE OneAtATime' /\ NothingGivenUp' /\ AwaitsNewest'
    <3>1. OneAtATime /\ NothingGivenUp /\ AwaitsNewest
      BY <2>1, <2>4 DEF PartyIInv
    <3>2. other.op = "none" /\ login'.op = "none" /\ 0 \notin outside /\ begun \notin outside
      BY <1>0, <2>1, <2>2, <3>1, Nothings DEF OneAtATime, PartyNumbers, NothingGivenUp
    <3>3. OneAtATime'
      BY <2>1, <2>2, <3>1, <3>2 DEF OneAtATime
    <3>4. NothingGivenUp'
      BY <2>1, <2>2, <3>1, <3>2 DEF NothingGivenUp
    <3>5. AwaitsNewest'
      BY <2>1, <2>2, <3>1, <3>2 DEF AwaitsNewest
    <3> QED BY <3>3, <3>4, <3>5
  <2> QED BY <2>1, <2>3, <2>4 DEF PartyIInv
<1>4. ASSUME NEW e \in Exchange, NEW id \in links, OpenLink(e, id), pending = id
      PROVE  PartyIInv'
  <2> DEFINE new == [op |-> "sent", code |-> id, verifier |-> pending]
  <2>1. /\ exchanges[e].op = "none" /\ exchanges' = [exchanges EXCEPT ![e] = new]
        /\ overlapped' = (overlapped \/ login.op = "sent" \/ other.op # "none" \/ Exchanging)
        /\ UNCHANGED <<app, begun, pending, session, login, other, links, used, restarted, outside,
                       turnedAway>>
    BY <1>4 DEF OpenLink, Accepts
  <2>2. id \in 1 .. begun /\ id \in Nat
    BY <1>0 DEF PartyNumbers
  <2>3. /\ new \in [op : {"none", "sent", "read", "done", "refused"}, code : Nat, verifier : Nat]
        /\ new.op = "sent" /\ new.code = id /\ new.verifier = id
    BY <1>4, <2>2
  <2> HIDE DEF new
  <2>4. /\ Flight' = Flight \cup {e} /\ exchanges'[e] = new
        /\ \A f \in Exchange \ {e} : exchanges'[f] = exchanges[f]
    BY <1>0, <2>1, <2>3 DEF PartyNumbers, Flight
  <2>5. PartyNumbers'
    BY <1>0, <2>1, <2>2, <2>3, <2>4 DEF PartyNumbers
  <2>6. ASSUME ~overlapped' PROVE OneAtATime' /\ NothingGivenUp' /\ AwaitsNewest'
    <3>1. ~overlapped /\ login.op # "sent" /\ other.op = "none" /\ Flight = {}
      BY <1>x, <2>1, <2>6
    <3>2. OneAtATime /\ NothingGivenUp /\ AwaitsNewest
      BY <3>1 DEF PartyIInv
    <3>3. OneAtATime'
      BY <2>1, <2>4, <3>1 DEF OneAtATime
    <3>4. NothingGivenUp'
      BY <1>4, <2>1, <2>3, <2>4, <3>1, <3>2 DEF NothingGivenUp
    <3>5. AwaitsNewest'
      BY <1>4, <2>1, <2>3, <2>4, <3>1, <3>2 DEF AwaitsNewest
    <3> QED BY <3>3, <3>4, <3>5
  <2> QED BY <2>1, <2>5, <2>6 DEF PartyIInv
<1>5. ASSUME NEW e \in Exchange, NEW id \in links, OpenLink(e, id), pending # id
      PROVE  PartyIInv'
  <2>1. /\ turnedAway' = (turnedAway \/ (id = begun /\ id \notin used /\ id \notin outside
                                         /\ ~restarted))
        /\ UNCHANGED <<app, begun, pending, session, login, other, exchanges, links, used,
                       overlapped, restarted, outside>>
    BY <1>5 DEF OpenLink, Accepts
  <2>2. turnedAway' => app.waits \/ overlapped
    BY <1>5, <2>1 DEF PartyIInv, AwaitsNewest
  <2>3. Flight' = Flight
    BY <2>1 DEF Flight
  <2>4. PartyNumbers'
    BY <1>0, <2>1, <2>3 DEF PartyNumbers
  <2>5. ~overlapped' => OneAtATime' /\ NothingGivenUp' /\ AwaitsNewest'
    BY <2>1, <2>3 DEF PartyIInv, OneAtATime, NothingGivenUp, AwaitsNewest
  <2> QED BY <2>1, <2>2, <2>4, <2>5 DEF PartyIInv
<1>6. ASSUME NEW e \in Exchange, ReadCode(e) \/ IssueTokens(e) PROVE PartyIInv'
  <2>1. PICK op \in {"read", "done", "refused"} :
            /\ exchanges[e].op # "none" /\ exchanges' = [exchanges EXCEPT ![e].op = op]
            /\ \/ op # "done" /\ used' = used
               \/ used' = used \cup {exchanges[e].code}
            /\ UNCHANGED <<app, begun, pending, session, login, other, links, overlapped, restarted,
                           outside, turnedAway>>
    BY <1>6 DEF ReadCode, IssueTokens, partyShadow
  <2>2. /\ Flight' = Flight
        /\ exchanges' \in [Exchange -> [op : {"none", "sent", "read", "done", "refused"},
                                        code : Nat, verifier : Nat]]
        /\ \A f \in Exchange : /\ exchanges'[f].code = exchanges[f].code
                               /\ exchanges'[f].verifier = exchanges[f].verifier
                               /\ f # e => exchanges'[f] = exchanges[f]
        /\ exchanges'[e].op = op
    BY <1>0, <2>1, ExchangeGoesOn
  <2>3. \A f \in Exchange : exchanges'[f].op = "done" => exchanges'[f].code \in used'
    BY <1>0, <2>1, <2>2 DEF PartyNumbers
  <2>4. Flight \subseteq Exchange /\ used \subseteq used'
    BY <2>1 DEF Flight
  <2>5. PartyNumbers'
    BY <1>0, <2>1, <2>2, <2>3, <2>4 DEF PartyNumbers
  <2>6. ~overlapped' => OneAtATime' /\ NothingGivenUp' /\ AwaitsNewest'
    BY <2>1, <2>2, <2>4 DEF PartyIInv, OneAtATime, NothingGivenUp, AwaitsNewest
  <2> QED BY <2>1, <2>5, <2>6 DEF PartyIInv
<1>7. ASSUME NEW e \in Exchange, TakeTokens(e) PROVE PartyIInv'
  <2>1. /\ exchanges[e].op = "done" /\ exchanges' = [exchanges EXCEPT ![e] = NoExchange]
        /\ session' = exchanges[e].code /\ pending' = 0
        /\ UNCHANGED <<app, begun, login, other, links, used, overlapped, restarted, outside, turnedAway>>
    BY <1>7 DEF TakeTokens
  <2>2. /\ Flight' = Flight \ {e} /\ e \in Flight
        /\ exchanges' \in [Exchange -> [op : {"none", "sent", "read", "done", "refused"},
                                        code : Nat, verifier : Nat]]
        /\ \A f \in Exchange \ {e} : exchanges'[f] = exchanges[f]
        /\ exchanges'[e] = NoExchange
    BY <1>0, <2>1, ExchangeEnds DEF Flight
  <2>3. exchanges[e].code \in used /\ exchanges[e].code \in 1 .. begun /\ begun \in Nat
    BY <1>0, <2>1, <2>2 DEF PartyNumbers
  <2>4. PartyNumbers'
    BY <1>0, <2>1, <2>2, <2>3, Nothings DEF PartyNumbers
  <2>5. ASSUME ~overlapped' PROVE OneAtATime' /\ NothingGivenUp' /\ AwaitsNewest'
    <3>1. OneAtATime /\ NothingGivenUp /\ AwaitsNewest
      BY <2>1, <2>5 DEF PartyIInv
    <3>2. login.op # "sent" /\ other.op = "none" /\ 0 \notin outside /\ Flight' = {}
      BY <1>0, <2>2, <3>1 DEF OneAtATime, PartyNumbers
    <3>3. OneAtATime'
      BY <2>1, <3>2 DEF OneAtATime
    <3>4. NothingGivenUp'
      BY <2>1, <2>2, <3>1, <3>2 DEF NothingGivenUp
    <3>5. AwaitsNewest'
      BY <2>1, <2>2, <2>3, <3>1, <3>2 DEF AwaitsNewest
    <3> QED BY <3>3, <3>4, <3>5
  <2> QED BY <2>1, <2>4, <2>5 DEF PartyIInv
<1>8. ASSUME NEW e \in Exchange, ExchangeFails(e) PROVE PartyIInv'
  <2>1. /\ exchanges' = [exchanges EXCEPT ![e] = NoExchange]
        /\ UNCHANGED <<app, begun, pending, session, login, other, links, used, overlapped,
                       restarted, outside, turnedAway>>
    BY <1>8 DEF ExchangeFails, partyShadow
  <2>2. /\ Flight' = Flight \ {e}
        /\ exchanges' \in [Exchange -> [op : {"none", "sent", "read", "done", "refused"},
                                        code : Nat, verifier : Nat]]
        /\ \A f \in Exchange \ {e} : exchanges'[f] = exchanges[f]
        /\ exchanges'[e] = NoExchange
    BY <1>0, <2>1, ExchangeEnds
  <2>3. Flight \subseteq Exchange
    BY DEF Flight
  <2>4. PartyNumbers'
    BY <1>0, <2>1, <2>2, <2>3, Nothings DEF PartyNumbers
  <2>5. ~overlapped' => OneAtATime' /\ NothingGivenUp' /\ AwaitsNewest'
    BY <2>1, <2>2, <2>3 DEF PartyIInv, OneAtATime, NothingGivenUp, AwaitsNewest
  <2> QED BY <2>1, <2>4, <2>5 DEF PartyIInv
<1>9. ASSUME NEW op \in {"refresh", "revoke"}, StartOther(op) PROVE PartyIInv'
  <2>1. /\ session # 0 /\ other.op = "none" /\ app.revokes /\ other' = [op |-> op, id |-> session]
        /\ overlapped' = (overlapped \/ Working)
        /\ UNCHANGED <<app, begun, pending, session, login, exchanges, links, used, restarted,
                       outside, turnedAway>>
    BY <1>9 DEF StartOther
  <2>2. other'.op = op /\ other'.id = session /\ session \in 1 .. begun /\ ~app.sooner
        /\ Flight' = Flight
        /\ other' \in [op : {"none", "refresh", "refreshed", "revoke", "revoked"}, id : Nat]
    BY <1>0, <2>1, Apps DEF PartyNumbers, Flight
  <2>3. PartyNumbers'
    BY <1>0, <2>1, <2>2 DEF PartyNumbers
  <2>4. ASSUME ~overlapped' PROVE OneAtATime' /\ NothingGivenUp' /\ AwaitsNewest'
    <3>1. ~overlapped /\ login.op = "none" /\ other.op = "none" /\ Flight = {}
      BY <1>w, <2>1, <2>4
    <3>2. OneAtATime /\ NothingGivenUp /\ AwaitsNewest
      BY <3>1 DEF PartyIInv
    <3>3. OneAtATime'
      BY <2>1, <2>2, <3>1 DEF OneAtATime
    <3>4. NothingGivenUp'
      BY <2>1, <2>2, <3>1, <3>2 DEF NothingGivenUp
    <3>5. AwaitsNewest'
      BY <2>1, <2>2, <3>1, <3>2 DEF AwaitsNewest
    <3> QED BY <3>3, <3>4, <3>5
  <2> QED BY <2>1, <2>3, <2>4 DEF PartyIInv
<1>10. CASE Rotate \/ Revoke
  <2>1. PICK op \in {"refreshed", "revoked"} :
            /\ other.op # "none" /\ other' = [other EXCEPT !.op = op]
            /\ UNCHANGED <<app, begun, pending, session, login, exchanges, links, used, overlapped,
                           restarted, outside, turnedAway>>
    BY <1>10 DEF Rotate, Revoke, partyShadow
  <2>2. /\ other'.op = op /\ other'.id = other.id /\ Flight' = Flight
        /\ other' \in [op : {"none", "refresh", "refreshed", "revoke", "revoked"}, id : Nat]
    BY <1>0, <2>1 DEF PartyNumbers, Flight
  <2>3. PartyNumbers'
    BY <1>0, <2>1, <2>2 DEF PartyNumbers
  <2>4. ~overlapped' => OneAtATime' /\ NothingGivenUp' /\ AwaitsNewest'
    BY <2>1, <2>2 DEF PartyIInv, OneAtATime, NothingGivenUp, AwaitsNewest
  <2> QED BY <2>1, <2>3, <2>4 DEF PartyIInv
<1>11. CASE TakeRefreshed
  <2>1. /\ other.op = "refreshed" /\ other' = NoLogin /\ session' = other.id
        /\ UNCHANGED <<app, begun, pending, login, exchanges, links, used, overlapped, restarted,
                       outside, turnedAway>>
    BY <1>11 DEF TakeRefreshed, partyShadow
  <2>2. other'.op = "none" /\ other.id \in 1 .. begun /\ Flight' = Flight
    BY <1>0, <2>1, Nothings DEF PartyNumbers, Flight
  <2>3. PartyNumbers'
    BY <1>0, <2>1, <2>2, Nothings DEF PartyNumbers
  <2>4. ~overlapped' => OneAtATime' /\ NothingGivenUp' /\ AwaitsNewest'
    BY <2>1, <2>2 DEF PartyIInv, OneAtATime, NothingGivenUp, AwaitsNewest
  <2> QED BY <2>1, <2>3, <2>4 DEF PartyIInv
<1>12. CASE SignOut
  <2>1. /\ other.op = "revoked" /\ other' = NoLogin /\ pending' = 0 /\ session' = 0
        /\ outside' = outside \cup {other.id}
        /\ UNCHANGED <<app, begun, login, exchanges, links, used, overlapped, restarted, turnedAway>>
    BY <1>12 DEF SignOut, ClearAuthState
  <2>2. other'.op = "none" /\ other.id \in 1 .. begun /\ Flight' = Flight /\ 0 \notin outside'
    BY <1>0, <2>1, Nothings DEF PartyNumbers, Flight
  <2>3. PartyNumbers'
    <3>1. pending' \in 0 .. begun' /\ session' \in 0 .. begun'
      BY <1>0, <2>1 DEF PartyNumbers
    <3>2. outside \subseteq 1 .. begun
      BY <1>0 DEF PartyNumbers
    <3>3. outside' \subseteq 1 .. begun'
      BY <2>1, <2>2, <3>2
    <3>4. other' \in [op : {"none", "refresh", "refreshed", "revoke", "revoked"}, id : Nat]
      BY <2>1, Nothings
    <3> QED
      BY <1>0, <2>1, <2>2, <3>1, <3>3, <3>4 DEF PartyNumbers
  <2>4. ASSUME ~overlapped' PROVE OneAtATime' /\ NothingGivenUp' /\ AwaitsNewest'
    <3>1. OneAtATime /\ NothingGivenUp /\ AwaitsNewest
      BY <2>1, <2>4 DEF PartyIInv
    <3>2. login.op = "none" /\ Flight = {} /\ pending = 0
      BY <2>1, <3>1 DEF OneAtATime, AwaitsNewest
    <3>3. OneAtATime'
      BY <2>1, <2>2, <3>2 DEF OneAtATime
    <3>4. NothingGivenUp'
      BY <2>1, <2>2, <3>2 DEF NothingGivenUp
    <3>5. AwaitsNewest'
      BY <1>0, <2>1, <2>2, <3>1, <3>2 DEF AwaitsNewest, PartyNumbers
    <3> QED BY <3>3, <3>4, <3>5
  <2> QED BY <2>1, <2>3, <2>4 DEF PartyIInv
<1>13. CASE Reset
  <2>1. /\ pending' = 0 /\ session' = 0 /\ outside' = outside \cup ({session, pending} \ {0})
        /\ overlapped' = (overlapped \/ Working)
        /\ UNCHANGED <<app, begun, login, other, exchanges, links, used, restarted, turnedAway>>
    BY <1>13 DEF Reset, ClearAuthState
  <2>2. Flight' = Flight /\ 0 \notin outside'
    BY <1>0, <2>1 DEF PartyNumbers, Flight
  <2>3. PartyNumbers'
    BY <1>0, <2>1, <2>2 DEF PartyNumbers
  <2>4. ASSUME ~overlapped' PROVE OneAtATime' /\ NothingGivenUp' /\ AwaitsNewest'
    <3>1. ~overlapped /\ login.op = "none" /\ other.op = "none" /\ Flight = {}
      BY <1>w, <2>1, <2>4
    <3>2. OneAtATime /\ NothingGivenUp /\ AwaitsNewest
      BY <3>1 DEF PartyIInv
    <3>3. OneAtATime'
      BY <2>1, <2>2, <3>1 DEF OneAtATime
    <3>4. NothingGivenUp'
      BY <2>1, <2>2, <3>1 DEF NothingGivenUp
    <3>5. AwaitsNewest'
      <4>1. ~app.waits /\ ~restarted /\ begun \in links /\ begun \notin used =>
                begun \in outside'
        BY <1>0, <2>1, <3>2 DEF AwaitsNewest, PartyNumbers
      <4> QED BY <2>1, <2>2, <3>1, <4>1 DEF AwaitsNewest
    <3> QED BY <3>3, <3>4, <3>5
  <2> QED BY <2>1, <2>3, <2>4 DEF PartyIInv
<1>14. CASE Restart
  <2>1. /\ restarted' = TRUE /\ login' = NoLogin /\ other' = NoLogin
        /\ exchanges' = [e \in Exchange |-> NoExchange]
        /\ UNCHANGED <<pending, session>> \/ (pending' = 0 /\ session' = 0)
        /\ UNCHANGED <<app, begun, links, used, overlapped, outside, turnedAway>>
    BY <1>14 DEF Restart, ClearAuthState
  <2>2. Flight' = {} /\ login'.op = "none" /\ other'.op = "none"
    BY <2>1, Nothings DEF Flight
  <2>3. PartyNumbers'
    BY <1>0, <2>1, <2>2, Nothings DEF PartyNumbers
  <2>4. ~overlapped' => OneAtATime' /\ NothingGivenUp' /\ AwaitsNewest'
    BY <1>0, <2>1, <2>2 DEF PartyIInv, OneAtATime, NothingGivenUp, AwaitsNewest, PartyNumbers
  <2> QED BY <2>1, <2>3, <2>4 DEF PartyIInv
<1>15. CASE LoginFails \/ OtherFails \/ Return
  BY <1>15, <1>a DEF LoginFails, OtherFails, Return, partyShadow
<1>16. CASE UNCHANGED partyVars
  BY <1>16, <1>a DEF partyVars, partyShadow
<1>17. \A e \in Exchange, id \in links : OpenLink(e, id) => PartyIInv'
  BY <1>4, <1>5
<1> QED
  BY <1>1, <1>2, <1>3, <1>6, <1>7, <1>8, <1>9, <1>10, <1>11, <1>12, <1>13, <1>14, <1>15,
     <1>16, <1>17 DEF PartyNext

\* It holds when the application starts for the first time.
LEMMA PartyInitial == PartyInit => PartyIInv
<1> SUFFICES ASSUME PartyInit PROVE PartyIInv
  OBVIOUS
<1>1. Flight = {}
  BY Nothings DEF PartyInit, Flight
<1>2. PartyNumbers
  BY <1>1, Nothings DEF PartyInit, PartyNumbers
<1> QED
  BY <1>1, <1>2, Nothings DEF PartyInit, PartyIInv, OneAtATime, NothingGivenUp, AwaitsNewest

\* Tokens that the user has given up do not come back, however links are opened
\* and answers are lost, unless operations overlapped (tauri App.vue:349).
THEOREM GivenUpTokensStayOut == PartySpec => []GivenUpStaysOut
<1>1. PartyIInv => GivenUpStaysOut
  BY DEF PartyIInv, NothingGivenUp, GivenUpStaysOut
<1> QED BY <1>1, PartyInitial, PartyStep, PTL DEF PartySpec

\* A code is sent with the verifier of its own login, and the answer to the
\* newest login finds the application waiting for it (tauri App.vue:258,
\* home_screen.dart:289).
THEOREM EveryAnswerFits == PartySpec => []AnswersFit
<1>1. PartyIInv => AnswersFit
  BY DEF PartyIInv, PartyNumbers, AnswersFit
<1> QED BY <1>1, PartyInitial, PartyStep, PTL DEF PartySpec

-----------------------------------------------------------------------------
(***************************************************************************)
(* Types.                                                                  *)
(***************************************************************************)

\* A slot that is free, and one that is taken, have their types.
LEMMA SlotTypes ==
    /\ 0 \in LoginId
    /\ NoLogin \in [op : {"none", "sent", "opened"}, id : LoginId]
    /\ NoLogin \in [op : {"none", "refresh", "refreshed", "revoke", "revoked"}, id : LoginId]
    /\ NoExchange \in [op : {"none", "sent", "read", "done", "refused"},
                       code : LoginId, verifier : LoginId]
<1>1. 0 \in LoginId
  BY RelyingPartyAssumption DEF LoginId
<1> QED BY <1>1 DEF NoLogin, NoExchange

PartyFlags == {busy, overlapped, restarted, turnedAway} \subseteq BOOLEAN

\* No step makes anything but a flag of a flag.
LEMMA FlagStep == PartyFlags /\ [PartyNext]_partyVars => PartyFlags'
<1> SUFFICES ASSUME PartyFlags, [PartyNext]_partyVars PROVE PartyFlags'
  OBVIOUS
<1>0. /\ busy \in BOOLEAN /\ overlapped \in BOOLEAN /\ restarted \in BOOLEAN
      /\ turnedAway \in BOOLEAN
  BY DEF PartyFlags
<1>1. CASE \/ SubmitLogin \/ OpenBrowser \/ BrowserIsOpen \/ LoginFails
           \/ StartOther("refresh") \/ StartOther("revoke") \/ Rotate \/ TakeRefreshed
           \/ Revoke \/ Return \/ SignOut \/ OtherFails \/ Reset \/ Restart
  <2>1. busy' \in BOOLEAN /\ restarted' \in BOOLEAN /\ turnedAway' = turnedAway
    BY <1>0, <1>1 DEF SubmitLogin, OpenBrowser, BrowserIsOpen, LoginFails, StartOther, Rotate,
       TakeRefreshed, Revoke, Return, SignOut, OtherFails, Reset, Restart, partyShadow
  <2>2. overlapped' = overlapped \/ overlapped' = (overlapped \/ Working)
    BY <1>1 DEF SubmitLogin, OpenBrowser, BrowserIsOpen, LoginFails, StartOther, Rotate,
       TakeRefreshed, Revoke, Return, SignOut, OtherFails, Reset, Restart, partyShadow
  <2>3. overlapped' \in BOOLEAN
    BY <1>0, <2>2
  <2> QED BY <1>0, <2>1, <2>3 DEF PartyFlags
<1>2. ASSUME NEW e \in Exchange, NEW id \in links, OpenLink(e, id) PROVE PartyFlags'
  <2>1. busy' \in BOOLEAN /\ restarted' = restarted
    BY <1>0, <1>2 DEF OpenLink
  <2>2. \/ overlapped' = overlapped
        \/ overlapped' = (overlapped \/ login.op = "sent" \/ other.op # "none" \/ Exchanging)
    BY <1>2 DEF OpenLink
  <2>3. \/ turnedAway' = turnedAway
        \/ turnedAway' = (turnedAway \/ (id = begun /\ id \notin used /\ id \notin outside
                                         /\ ~restarted))
    BY <1>2 DEF OpenLink
  <2>4. overlapped' \in BOOLEAN
    BY <1>0, <2>2
  <2>5. turnedAway' \in BOOLEAN
    BY <1>0, <2>3
  <2> QED BY <1>0, <2>1, <2>4, <2>5 DEF PartyFlags
<1>3. ASSUME NEW e \in Exchange,
             ReadCode(e) \/ IssueTokens(e) \/ TakeTokens(e) \/ ExchangeFails(e)
      PROVE  PartyFlags'
  BY <1>0, <1>3 DEF ReadCode, IssueTokens, TakeTokens, ExchangeFails, partyShadow, PartyFlags
<1>4. CASE UNCHANGED partyVars
  BY <1>0, <1>4 DEF partyVars, PartyFlags
<1> QED BY <1>1, <1>2, <1>3, <1>4 DEF PartyNext

PartySlots ==
    /\ login \in [op : {"none", "sent", "opened"}, id : LoginId]
    /\ other \in [op : {"none", "refresh", "refreshed", "revoke", "revoked"}, id : LoginId]
    /\ exchanges \in [Exchange -> [op : {"none", "sent", "read", "done", "refused"},
                                   code : LoginId, verifier : LoginId]]

PartyIds ==
    /\ app \in {Vite, Tauri, Flutter}
    /\ {begun, pending, session} \subseteq LoginId
    /\ links \subseteq LoginId /\ used \subseteq LoginId /\ live \subseteq LoginId
    /\ outside \subseteq LoginId

\* What is in flight keeps its type.
LEMMA SlotStep == PartySlots /\ PartyIds /\ [PartyNext]_partyVars => PartySlots'
<1> SUFFICES ASSUME PartySlots, PartyIds, [PartyNext]_partyVars PROVE PartySlots'
  OBVIOUS
<1>1. CASE UNCHANGED <<login, other, exchanges>>
  BY <1>1 DEF PartySlots
<1>2. CASE SubmitLogin
  <2>1. begun + 1 \in LoginId
    BY <1>2, RelyingPartyAssumption DEF SubmitLogin, PartyIds, LoginId
  <2> QED BY <1>2, <2>1 DEF SubmitLogin, PartySlots
<1>3. CASE \/ OpenBrowser \/ BrowserIsOpen \/ LoginFails \/ TakeRefreshed \/ Rotate \/ Revoke
           \/ SignOut \/ OtherFails \/ Restart
  <2>1. login' \in {login, NoLogin, [login EXCEPT !.op = "opened"]}
    BY <1>3 DEF OpenBrowser, BrowserIsOpen, LoginFails, TakeRefreshed, Rotate, Revoke, SignOut,
       OtherFails, Restart
  <2>2. other' \in {other, NoLogin, [other EXCEPT !.op = "refreshed"],
                    [other EXCEPT !.op = "revoked"]}
    BY <1>3 DEF OpenBrowser, BrowserIsOpen, LoginFails, TakeRefreshed, Rotate, Revoke, SignOut,
       OtherFails, Restart
  <2>3. exchanges' \in {exchanges, [e \in Exchange |-> NoExchange]}
    BY <1>3 DEF OpenBrowser, BrowserIsOpen, LoginFails, TakeRefreshed, Rotate, Revoke, SignOut,
       OtherFails, Restart
  <2> QED BY <2>1, <2>2, <2>3, SlotTypes DEF PartySlots
<1>4. ASSUME NEW op \in {"refresh", "revoke"}, StartOther(op) PROVE PartySlots'
  BY <1>4 DEF StartOther, PartySlots, PartyIds
<1>5. ASSUME NEW e \in Exchange, NEW id \in links, OpenLink(e, id) PROVE PartySlots'
  <2>1. id \in LoginId /\ pending \in LoginId
    BY DEF PartyIds
  <2>2. [op |-> "sent", code |-> id, verifier |-> pending]
            \in [op : {"none", "sent", "read", "done", "refused"},
                 code : LoginId, verifier : LoginId]
    BY <2>1
  <2> QED BY <1>5, <2>2 DEF OpenLink, PartySlots
<1>6. ASSUME NEW e \in Exchange, ReadCode(e) \/ IssueTokens(e) PROVE PartySlots'
  <2>1. PICK op \in {"read", "done", "refused"} :
            exchanges' = [exchanges EXCEPT ![e] = [exchanges[e] EXCEPT !.op = op]]
    BY <1>6 DEF ReadCode, IssueTokens
  <2>2. UNCHANGED <<login, other>>
    BY <1>6 DEF ReadCode, IssueTokens
  <2> QED BY <2>1, <2>2 DEF PartySlots
<1>7. ASSUME NEW e \in Exchange, TakeTokens(e) \/ ExchangeFails(e) PROVE PartySlots'
  BY <1>7, SlotTypes DEF TakeTokens, ExchangeFails, PartySlots
<1>8. CASE Return \/ Reset \/ UNCHANGED partyVars
  BY <1>1, <1>8 DEF Return, Reset, partyVars
<1> QED BY <1>2, <1>3, <1>4, <1>5, <1>6, <1>7, <1>8 DEF PartyNext

\* Whatever the application and the server hold is a login that was begun.
LEMMA IdStep == PartySlots /\ PartyIds /\ [PartyNext]_partyVars => PartyIds'
<1> SUFFICES ASSUME PartySlots, PartyIds, [PartyNext]_partyVars PROVE PartyIds'
  OBVIOUS
<1>0. /\ 0 \in LoginId /\ login.id \in LoginId /\ other.id \in LoginId
      /\ \A e \in Exchange : exchanges[e].code \in LoginId
  BY SlotTypes DEF PartySlots
<1>1. app' = app
  BY DEF PartyNext, SubmitLogin, OpenBrowser, BrowserIsOpen, LoginFails, StartOther, Rotate,
     TakeRefreshed, Revoke, Return, SignOut, OtherFails, Reset, Restart, OpenLink, ReadCode,
     IssueTokens, TakeTokens, ExchangeFails, partyVars
<1>2. begun' = begun \/ (SubmitLogin /\ begun' = begun + 1)
  BY DEF PartyNext, SubmitLogin, OpenBrowser, BrowserIsOpen, LoginFails, StartOther, Rotate,
     TakeRefreshed, Revoke, Return, SignOut, OtherFails, Reset, Restart, OpenLink, ReadCode,
     IssueTokens, TakeTokens, ExchangeFails, partyVars
<1>3. SubmitLogin => begun + 1 \in LoginId
  BY RelyingPartyAssumption DEF SubmitLogin, PartyIds, LoginId
<1>4. begun' \in LoginId
  BY <1>2, <1>3 DEF PartyIds
<1>5. \/ pending' \in {pending, 0, login.id}
      \/ SubmitLogin /\ pending' = begun + 1
  BY DEF PartyNext, SubmitLogin, OpenBrowser, BrowserIsOpen, LoginFails, StartOther, Rotate,
     TakeRefreshed, Revoke, Return, SignOut, OtherFails, Reset, Restart, OpenLink, ReadCode,
     IssueTokens, TakeTokens, ExchangeFails, partyVars, Await, ClearAuthState
<1>6. pending' \in LoginId
  BY <1>0, <1>3, <1>5 DEF PartyIds
<1>7. session' \in {session, 0, other.id} \cup {exchanges[e].code : e \in Exchange}
  BY DEF PartyNext, SubmitLogin, OpenBrowser, BrowserIsOpen, LoginFails, StartOther, Rotate,
     TakeRefreshed, Revoke, Return, SignOut, OtherFails, Reset, Restart, OpenLink, ReadCode,
     IssueTokens, TakeTokens, ExchangeFails, partyVars, Await, ClearAuthState
<1>8. session' \in LoginId
  BY <1>0, <1>7 DEF PartyIds
<1>9. links' \subseteq links \cup {login.id}
  BY DEF PartyNext, SubmitLogin, OpenBrowser, BrowserIsOpen, LoginFails, StartOther, Rotate,
     TakeRefreshed, Revoke, Return, SignOut, OtherFails, Reset, Restart, OpenLink, ReadCode,
     IssueTokens, TakeTokens, ExchangeFails, partyVars
<1>10. \E K \in SUBSET {exchanges[e].code : e \in Exchange} :
           used' \subseteq used \cup K /\ live' \subseteq live \cup K
  <2>1. CASE used' = used /\ live' \subseteq live
    BY <2>1
  <2>2. ASSUME NEW e \in Exchange, IssueTokens(e)
        PROVE  \E K \in SUBSET {exchanges[f].code : f \in Exchange} :
                   used' \subseteq used \cup K /\ live' \subseteq live \cup K
    <3>1. used' = used \cup {exchanges[e].code} /\ live' = live \cup {exchanges[e].code}
      BY <2>2 DEF IssueTokens
    <3>2. {exchanges[e].code} \in SUBSET {exchanges[f].code : f \in Exchange}
      OBVIOUS
    <3> QED BY <3>1, <3>2
  <2>3. \/ used' = used /\ live' \subseteq live
        \/ \E e \in Exchange : IssueTokens(e)
    BY DEF PartyNext, SubmitLogin, OpenBrowser, BrowserIsOpen, LoginFails, StartOther, Rotate,
       TakeRefreshed, Revoke, Return, SignOut, OtherFails, Reset, Restart, OpenLink, ReadCode,
       TakeTokens, ExchangeFails, partyVars
  <2> QED BY <2>1, <2>2, <2>3
<1>11. used' \subseteq LoginId /\ live' \subseteq LoginId
  BY <1>0, <1>10 DEF PartyIds
<1>12. outside' \subseteq outside \cup {other.id, session, pending}
  BY DEF PartyNext, SubmitLogin, OpenBrowser, BrowserIsOpen, LoginFails, StartOther, Rotate,
     TakeRefreshed, Revoke, Return, SignOut, OtherFails, Reset, Restart, OpenLink, ReadCode,
     IssueTokens, TakeTokens, ExchangeFails, partyVars, partyShadow
<1> QED BY <1>0, <1>1, <1>4, <1>6, <1>8, <1>9, <1>11, <1>12 DEF PartyIds

\* Together these are PartyTypeOK.
LEMMA PartyTypeParts == PartyTypeOK <=> PartyIds /\ PartySlots /\ PartyFlags
BY DEF PartyTypeOK, PartyIds, PartySlots, PartyFlags

\* An application that has been started has its types.
LEMMA PartyTypeInitial == PartyInit => PartyTypeOK
BY SlotTypes DEF PartyInit, PartyTypeOK

\* Every step keeps them.
LEMMA PartyTypeStep == PartyTypeOK /\ [PartyNext]_partyVars => PartyTypeOK'
<1> SUFFICES ASSUME PartyTypeOK, [PartyNext]_partyVars PROVE PartyTypeOK'
  OBVIOUS
<1>1. PartyIds' /\ PartySlots' /\ PartyFlags'
  BY PartyTypeParts, FlagStep, SlotStep, IdStep
<1> QED BY <1>1 DEF PartyTypeOK, PartyIds, PartySlots, PartyFlags

\* Whatever the application and the server hold, wait for or send is a login of
\* this application, and each slot has the type of its step.
THEOREM PartyTypeCorrect == PartySpec => []PartyTypeOK
BY PartyTypeInitial, PartyTypeStep, PTL DEF PartySpec

-----------------------------------------------------------------------------
(***************************************************************************)
(* The parts together.                                                     *)
(***************************************************************************)

\* Each part keeps its types by an invariant of its own.
MCTypeIInv ==
    \/ part = "login" /\ TypeOK
    \/ part = "pages" /\ PageTypeIInv
    \/ part = "forms" /\ FormTypeIInv
    \/ part = "secret" /\ SecretTypeIInv
    \/ part = "session" /\ SessionTypeIInv
    \/ part = "party" /\ PartyTypeOK

\* A browser that has been opened has its types, whatever it is opened for.
LEMMA MCTypeInitial == MCInit => MCTypeIInv
<1> SUFFICES ASSUME MCInit PROVE MCTypeIInv
  OBVIOUS
<1>1. TypeOK
  BY LoginInitial DEF MCInit, LoginIInv
<1>2. PageTypeIInv /\ FormTypeIInv /\ SecretTypeIInv /\ SessionTypeIInv
  BY PageTypeFacts, FormTypeFacts, SecretTypeFacts, SessionTypeFacts DEF MCInit
<1>3. PartyTypeOK
  BY PartyTypeInitial DEF MCInit
<1> QED BY <1>1, <1>2, <1>3 DEF MCInit, MCTypeIInv

\* Every step of a part keeps the types of the part.
LEMMA MCTypeStep == MCTypeIInv /\ [MCNext]_allVars => MCTypeIInv'
<1> SUFFICES ASSUME MCTypeIInv, [MCNext]_allVars PROVE MCTypeIInv'
  OBVIOUS
<1>0. part' = part
  BY DEF MCNext, allVars
<1>1. CASE part = "login"
  <2>1. [Next]_vars
    BY <1>1 DEF MCNext, allVars
  <2> QED BY <1>0, <1>1, <2>1, TypeStep DEF MCTypeIInv
<1>2. CASE part = "pages"
  <2>1. [PageNext]_pageVars
    BY <1>2 DEF MCNext, allVars
  <2> QED BY <1>0, <1>2, <2>1, PageTypeStep DEF MCTypeIInv
<1>3. CASE part = "forms"
  <2>1. [FormNext]_formVars
    BY <1>3 DEF MCNext, allVars
  <2> QED BY <1>0, <1>3, <2>1, FormTypeStep DEF MCTypeIInv
<1>4. CASE part = "secret"
  <2>1. [SecretNext]_secretVars
    BY <1>4 DEF MCNext, allVars
  <2> QED BY <1>0, <1>4, <2>1, SecretTypeStep DEF MCTypeIInv
<1>5. CASE part = "session"
  <2>1. [SessionNext]_sessionVars
    BY <1>5 DEF MCNext, allVars
  <2> QED BY <1>0, <1>5, <2>1, SessionTypeStep DEF MCTypeIInv
<1>6. CASE part = "party"
  <2>1. [PartyNext]_partyVars
    BY <1>6 DEF MCNext, allVars
  <2> QED BY <1>0, <1>6, <2>1, PartyTypeStep DEF MCTypeIInv
<1> QED BY <1>1, <1>2, <1>3, <1>4, <1>5, <1>6 DEF MCTypeIInv

\* Whichever part runs, what it shows, holds and has on its way keeps its type:
\* the type invariant of the run Browser, for every number of tabs, calls,
\* logins and requests.
THEOREM BrowserTypeCorrect == MCSpec => []MCTypeOK
<1>1. MCTypeIInv => MCTypeOK
  BY PageTypeFacts, FormTypeFacts, SecretTypeFacts, SessionTypeFacts DEF MCTypeIInv, MCTypeOK
<1> QED BY <1>1, MCTypeInitial, MCTypeStep, PTL DEF MCSpec
=============================================================================
