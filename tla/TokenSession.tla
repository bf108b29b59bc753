---------------------------- MODULE TokenSession ----------------------------
(***************************************************************************)
(* The token endpoint implements Session: how far a login has come, and    *)
(* what it is still worth, in terms of the tables and of the requests that *)
(* have read a code or a refresh token and not committed yet.              *)
(***************************************************************************)
EXTENDS TokenService

Redeemed(c) == \E k \in TokenId : origin[k] = c

\* A code that can be redeemed.
Usable(c) == c \in Rows(codes) /\ ~codes[c].used /\ now <= codes[c].expires

\* The refresh tokens of the login that can be rotated.
Usables(c) ==
    {k \in Live(refresh) : origin[k] = c /\ now <= refresh[k].expires}

Redeeming(c) == {r \in Request : req[r].op = "redeem" /\ req[r].code = c}

Rotating(c) == {r \in Request : req[r].op = "rotate" /\ origin[req[r].token] = c}

Pending(c) == Redeeming(c) \cup Rotating(c)

SessionPhase(c) ==
    IF granted[c] = Unissued THEN "none"
    ELSE IF Redeemed(c)
         THEN IF Usables(c) # {} \/ Pending(c) # {} THEN "open" ELSE "over"
         ELSE IF Usable(c) \/ Redeeming(c) # {} THEN "granted" ELSE "over"

RightsOf(row, S) == {row.client} \X {row.user} \X S

\* A request in flight will issue what its snapshot allows.
SessionRights(c) ==
    UNION ({RightsOf(refresh[k], refresh[k].scopes) : k \in Usables(c)}
           \cup {RightsOf(req[r].row, req[r].scopes) : r \in Rotating(c)}
           \cup {RightsOf(req[r].row, req[r].row.scopes) : r \in Redeeming(c)}
           \cup {RightsOf(codes[d], codes[d].scopes) : d \in {d \in {c} : Usable(c)}})

Promise ==
    INSTANCE Session WITH
        Login <- Code,
        Right <- Client \X User \X Scope,
        phase <- [c \in Code |-> SessionPhase(c)],
        rights <- [c \in Code |-> SessionRights(c)]

\* Every step of the token endpoint, whatever overlaps, is a step of a session
\* or none: a code opens one session (token.service.ts:121-168), a rotation
\* gives no right that the token did not have (token.service.ts:195-240), and
\* nothing opens a session that is over.
KeepsPromise == Promise!Spec
=============================================================================
