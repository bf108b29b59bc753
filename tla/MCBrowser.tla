----------------------------- MODULE MCBrowser -----------------------------
(***************************************************************************)
(* What a browser does, for TLC: the login of a user, the lists and forms  *)
(* of the web application, the page that shows a secret, the sessions of   *)
(* administrators, and an application that signs its user in.  They share  *)
(* no state; the initial state chooses one of them.                        *)
(***************************************************************************)
EXTENDS Login, ConsolePages, ConsoleForms, ConsoleSecret, ConsoleSession, RelyingParty, TLC

CONSTANTS r1, r2, x1, c1, d1, u1, p1, k1, k2, s1, i1, q1, q2, l1, l2, v1, v2, v3, t1, t2

VARIABLE part

allVars == <<vars, pageVars, formVars, secretVars, sessionVars, partyVars, part>>

MCDomainOf == [u \in User |-> d1]
MCAllowed == [c \in Client |-> Scope]
MCAsked == {Scope}

\* The provider is for everybody and provisions.
MCAdminRows ==
    [client : {AnyClient}, domains : {{}}, enabled : {TRUE}, jit : {TRUE},
     deleted : {FALSE}, created : {1}]

\* What the parts that are not active start with.
MCIdle ==
    /\ part # "pages" =>
        page = UserList /\ loads[l1].op = "sent" /\ \A x \in Item : table[x] = Query
    /\ part # "forms" => form = RoleEdit /\ stored = Blank
    /\ part # "secret" => client.type = "PUBLIC"
    /\ part # "party" => app = Vite

MCInit ==
    /\ Init /\ PageInit /\ FormInit /\ SecretInit /\ SessionInit /\ PartyInit
    /\ part \in {"login", "pages", "forms", "secret", "session", "party"}
    /\ MCIdle

MCNext ==
    /\ UNCHANGED part
    /\ \/ /\ part = "login" /\ Next
          /\ UNCHANGED <<pageVars, formVars, secretVars, sessionVars, partyVars>>
       \/ /\ part = "pages" /\ PageNext
          /\ UNCHANGED <<vars, formVars, secretVars, sessionVars, partyVars>>
       \/ /\ part = "forms" /\ FormNext
          /\ UNCHANGED <<vars, pageVars, secretVars, sessionVars, partyVars>>
       \/ /\ part = "secret" /\ SecretNext
          /\ UNCHANGED <<vars, pageVars, formVars, sessionVars, partyVars>>
       \/ /\ part = "session" /\ SessionNext
          /\ UNCHANGED <<vars, pageVars, formVars, secretVars, partyVars>>
       \/ /\ part = "party" /\ PartyNext
          /\ UNCHANGED <<vars, pageVars, formVars, secretVars, sessionVars>>

MCSpec == MCInit /\ [][MCNext]_allVars

MCTypeOK ==
    CASE part = "login" -> TypeOK
      [] part = "pages" -> PageTypeOK
      [] part = "forms" -> FormTypeOK
      [] part = "secret" -> SecretTypeOK
      [] part = "session" -> SessionTypeOK
      [] part = "party" -> PartyTypeOK

\* Requests and tabs are the same model values, and so are passwords and tenants.
MCSymmetry == Permutations(Request) \cup Permutations(Password)
=============================================================================
