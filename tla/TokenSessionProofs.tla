------------------------- MODULE TokenSessionProofs -------------------------
(***************************************************************************)
(* The token endpoint implements Session, for every value of the constants *)
(* and whatever overlaps.                                                  *)
(*                                                                         *)
(* For one login, four kinds of things are worth something: its code while *)
(* it can be redeemed, its refresh tokens while they can be rotated, and   *)
(* the redemptions and the rotations in flight.  Each of them that a step  *)
(* leaves behind was there before the step, or was made from another that  *)
(* was; so what the login is worth only shrinks, and once there is none    *)
(* there is none again.                                                    *)
(***************************************************************************)
EXTENDS TokenSession, TokenServiceProofs

\* A code, and a redemption of it in flight, are worth what was granted.
CodesAsGranted ==
    /\ \A c \in Rows(codes) : codes[c].scopes = granted[c].scopes
    /\ \A r \in Request : req[r].op = "redeem" =>
           req[r].row.scopes = granted[req[r].code].scopes

SInv == IInv /\ CodesAsGranted

\* Something of the login can still be used.
Alive(c) ==
    Usable(c) \/ Usables(c) # {} \/ Redeeming(c) # {} \/ Rotating(c) # {}

-----------------------------------------------------------------------------
(***************************************************************************)
(* The mapping, read off the four kinds.  A lemma about one state is       *)
(* used of the state before a step and, primed, of the state after it.      *)
(***************************************************************************)
RightsAre(c) ==
    \A x \in Client \X User \X Scope :
        x \in SessionRights(c) <=>
            \/ \E k \in Usables(c) : x \in RightsOf(refresh[k], refresh[k].scopes)
            \/ \E r \in Rotating(c) : x \in RightsOf(req[r].row, req[r].scopes)
            \/ \E r \in Redeeming(c) : x \in RightsOf(req[r].row, req[r].row.scopes)
            \/ Usable(c) /\ x \in RightsOf(codes[c], codes[c].scopes)

LEMMA RightsOfKinds == \A c \in Code : RightsAre(c)
  BY DEF RightsAre, SessionRights

\* Rights are rights of a client and a user, for scopes.
LEMMA RightsTyped ==
    TypeOK => \A c \in Code : SessionRights(c) \subseteq Client \X User \X Scope
  <1> SUFFICES ASSUME TypeOK, NEW c \in Code
               PROVE  SessionRights(c) \subseteq Client \X User \X Scope
    OBVIOUS
  <1>1. \A r \in Request : req[r] \in ReqState
    BY DEF TypeOK
  <1>2. \A k \in Usables(c) : refresh[k] \in RefreshRow
    BY DEF TypeOK, Usables, Live, Rows
  <1>3. \A r \in Rotating(c) : req[r].row \in RefreshRow /\ req[r].scopes \in SUBSET Scope
    BY <1>1, ReqFields DEF Rotating
  <1>4. \A r \in Redeeming(c) : req[r].row \in CodeRow
    BY <1>1, ReqFields DEF Redeeming
  <1>5. Usable(c) => codes[c] \in CodeRow
    BY DEF TypeOK, Usable, Rows
  <1>6. QED
    BY <1>2, <1>3, <1>4, <1>5 DEF SessionRights, RightsOf, RefreshRow, CodeRow

\* A login that has not granted anything yet is worth nothing, nor is one of
\* which nothing can be used.  Before its code is redeemed a login is worth
\* what it granted.
PhaseFacts(c) ==
    /\ Alive(c) => granted[c] # Unissued
    /\ ~Alive(c) => SessionRights(c) = {}
    /\ Redeemed(c) => granted[c] # Unissued /\ ~Usable(c)
    /\ ~Redeemed(c) => Usables(c) = {} /\ Rotating(c) = {}
    /\ ~Redeemed(c) /\ Alive(c) =>
           SessionRights(c) = RightsOf(granted[c], granted[c].scopes)

LEMMA PhaseFactsHold == SInv => \A c \in Code : PhaseFacts(c)
  <1> SUFFICES ASSUME SInv, NEW c \in Code
               PROVE  PhaseFacts(c)
    OBVIOUS
  <1>1. TypeOK /\ Provenance /\ CodeSpentWithTokens /\ CodesAsGranted
    BY DEF SInv, IInv
  <1>2. \A r \in Request : req[r] \in ReqState /\ SnapshotOK(req[r])
    BY <1>1 DEF SInv, IInv, Snapshots, TypeOK
  <1>3. ASSUME NEW k \in Usables(c)
        PROVE  k \in TokenId /\ origin[k] = c
    BY <1>1 DEF Usables, Live, Rows, TypeOK
  <1>4. ASSUME NEW r \in Rotating(c)
        PROVE  req[r].token \in TokenId /\ origin[req[r].token] = c
    BY <1>2, ReqFields DEF Rotating
  <1>5. ASSUME NEW k \in TokenId, origin[k] = c
        PROVE  granted[c] # Unissued
    BY <1>1, <1>5, RowAssumption DEF Provenance
  <1>6. ASSUME NEW r \in Redeeming(c)
        PROVE  /\ granted[c] # Unissued
               /\ RightsOf(req[r].row, req[r].row.scopes) =
                      RightsOf(granted[c], granted[c].scopes)
    BY <1>1, <1>2 DEF Redeeming, SnapshotOK, Within, RightsOf, CodesAsGranted
  <1>7. ASSUME Usable(c)
        PROVE  /\ granted[c] # Unissued
               /\ RightsOf(codes[c], codes[c].scopes) =
                      RightsOf(granted[c], granted[c].scopes)
    BY <1>1, <1>7 DEF Usable, Provenance, Within, RightsOf, CodesAsGranted
  <1>8. Redeemed(c) => granted[c] # Unissued /\ ~Usable(c)
    BY <1>1, <1>5 DEF Redeemed, Usable, CodeSpentWithTokens
  <1>9. ~Redeemed(c) => Usables(c) = {} /\ Rotating(c) = {}
    BY <1>3, <1>4 DEF Redeemed
  <1>10. Alive(c) => granted[c] # Unissued
    BY <1>3, <1>4, <1>5, <1>6, <1>7 DEF Alive
  <1>11. ~Alive(c) => SessionRights(c) = {}
    BY DEF Alive, SessionRights
  <1>12. ASSUME ~Redeemed(c), Alive(c)
         PROVE  SessionRights(c) = RightsOf(granted[c], granted[c].scopes)
    <2>1. SessionRights(c) =
              UNION ({RightsOf(req[r].row, req[r].row.scopes) : r \in Redeeming(c)}
                     \cup {RightsOf(codes[d], codes[d].scopes) : d \in {d \in {c} : Usable(c)}})
      BY <1>9, <1>12 DEF SessionRights
    <2>2. Redeeming(c) # {} \/ Usable(c)
      BY <1>9, <1>12 DEF Alive
    <2>3. QED
      BY <1>6, <1>7, <2>1, <2>2
  <1>13. QED
    BY <1>8, <1>9, <1>10, <1>11, <1>12 DEF PhaseFacts

LEMMA After ==
    /\ (\A c \in Code : RightsAre(c))'
    /\ (TypeOK => \A c \in Code : SessionRights(c) \subseteq Client \X User \X Scope)'
    /\ (SInv => \A c \in Code : PhaseFacts(c))'
  <1>1. (\A c \in Code : RightsAre(c))'
    BY RightsOfKinds, PTL
  <1>2. (TypeOK => \A c \in Code : SessionRights(c) \subseteq Client \X User \X Scope)'
    BY RightsTyped, PTL
  <1>3. (SInv => \A c \in Code : PhaseFacts(c))'
    BY PhaseFactsHold, PTL
  <1>4. QED
    BY <1>1, <1>2, <1>3

-----------------------------------------------------------------------------
(***************************************************************************)
(* A step on each of the four kinds.                                       *)
(***************************************************************************)
\* The steps that are not commits of the token endpoint leave a stored row as
\* it is, or revoke or delete it.
LEMMA RefreshSteps ==
    ASSUME IInv, [Next]_vars
    PROVE  \/ refresh' = refresh
           \/ \E ks : refresh' = RevokeRows(refresh, ks) \/ refresh' = DeleteRows(refresh, ks)
           \/ \E r \in Request, j \in TokenId : RedeemCommit(r, j) \/ RotateCommit(r, j)
  BY TokenSteps DEF TokensMove

LEMMA CodeSteps ==
    ASSUME IInv, [Next]_vars
    PROVE  \/ UNCHANGED <<codes, granted>>
           \/ \E r \in Request, c \in Code : IssueAuthCode(r, c)
           \/ \E r \in Request, j \in TokenId : RedeemCommit(r, j)
           \/ \E ks : codes' = DeleteRows(codes, ks) /\ granted' = granted
  <1> USE DEF tables, history
  <1>1. ASSUME NEW r \in Request, LoginStep(r)
        PROVE  UNCHANGED <<codes, granted>> \/ \E c \in Code : IssueAuthCode(r, c)
    BY <1>1 DEF LoginStep, LoginRead
  <1>2. ASSUME NEW r \in Request, TokenStep(r)
        PROVE  UNCHANGED <<codes, granted>> \/ \E j \in TokenId : RedeemCommit(r, j)
    BY <1>2 DEF TokenStep, RedeemRead, RotateRead, DetectReuse, RotateCommit,
                ClientCredentialsRead, ClientCredentialsCommit
  <1>3. ASSUME NEW r \in Request, UserStep(r)
        PROVE  \/ UNCHANGED <<codes, granted>>
               \/ \E ks : codes' = DeleteRows(codes, ks) /\ granted' = granted
    BY <1>3 DEF UserStep, WithdrawRead, WithdrawAccess, WithdrawRefresh,
                WithdrawCommit, DeleteRead, DeleteUserRows, DeleteCommit
  <1>4. ASSUME NEW r \in Request, RevokeStep(r) \/ Abort(r)
        PROVE  UNCHANGED <<codes, granted>>
    BY <1>4 DEF RevokeStep, RevokeRead, RevokeFamily, Abort
  <1>5. CASE \/ \E k \in TokenId : RevokeAccess(k)
             \/ \E c \in Client : SetClientStatus(c)
             \/ Tick \/ UNCHANGED vars
    BY <1>5 DEF RevokeAccess, SetClientStatus, Tick, vars
  <1>6. QED
    BY <1>1, <1>2, <1>3, <1>4, <1>5 DEF Next

\* A request begins to redeem a code that is usable, or to rotate a live token
\* that has not expired, with no more scopes than the token has.
LEMMA RequestSteps ==
    ASSUME IInv, [Next]_vars, NEW r \in Request
    PROVE  /\ req'[r].op = "redeem" =>
                  \/ req'[r] = req[r]
                  \/ Usable(req'[r].code) /\ req'[r].row = codes[req'[r].code]
           /\ req'[r].op = "rotate" =>
                  \/ req'[r] = req[r]
                  \/ /\ req'[r].token \in Live(refresh)
                     /\ now <= refresh[req'[r].token].expires
                     /\ req'[r].row = refresh[req'[r].token]
                     /\ req'[r].scopes \subseteq req'[r].row.scopes
  <1> USE DEF Start, Advance, Finish, Idle
  <1>1. req \in [Request -> ReqState]
    BY DEF IInv, TypeOK
  <1>2. ASSUME NEW s \in Request, NEW k \in TokenId, NEW c \in Client,
               NEW asked \in SUBSET Scope, RotateRead(s, k, c, asked)
        PROVE  \/ req'[r] = req[r]
               \/ /\ req'[r].op = "rotate"
                  /\ req'[r].token \in Live(refresh)
                  /\ now <= refresh[req'[r].token].expires
                  /\ req'[r].row = refresh[req'[r].token]
                  /\ req'[r].scopes \subseteq req'[r].row.scopes
    <2>1. k \in Live(refresh)
      BY <1>2 DEF RotateRead, Live
    <2>2. CASE s = r
      BY <1>1, <1>2, <2>1, <2>2 DEF RotateRead, NarrowScopes
    <2>3. CASE s # r
      BY <1>1, <1>2, <2>3 DEF RotateRead
    <2>4. QED
      BY <2>2, <2>3
  <1>3. ASSUME NEW s \in Request, NEW d \in Code, NEW c \in Client, RedeemRead(s, d, c)
        PROVE  \/ req'[r] = req[r]
               \/ /\ req'[r].op = "redeem"
                  /\ Usable(req'[r].code) /\ req'[r].row = codes[req'[r].code]
    <2>1. Usable(d)
      BY <1>3 DEF RedeemRead, Usable
    <2>2. CASE s = r
      BY <1>1, <1>3, <2>1, <2>2 DEF RedeemRead
    <2>3. CASE s # r
      BY <1>1, <1>3, <2>3 DEF RedeemRead
    <2>4. QED
      BY <2>2, <2>3
  <1>4. ASSUME NEW s \in Request,
               LoginStep(s) \/ RevokeStep(s) \/ UserStep(s) \/ Abort(s)
        PROVE  req'[r] = req[r] \/ req'[r].op \notin {"redeem", "rotate"}
    <2>1. CASE LoginStep(s) \/ RevokeStep(s) \/ Abort(s)
      BY <1>1, <2>1 DEF LoginStep, RevokeStep, LoginRead, IssueAuthCode,
                        RevokeRead, RevokeFamily, Abort
    <2>2. CASE UserStep(s)
      BY <1>1, <2>2 DEF UserStep, WithdrawRead, WithdrawAccess, WithdrawRefresh,
                        WithdrawCommit, DeleteRead, DeleteUserRows, DeleteCommit
    <2>3. QED
      BY <1>4, <2>1, <2>2
  <1>5. ASSUME NEW s \in Request, TokenStep(s)
        PROVE  \/ req'[r] = req[r] \/ req'[r].op \notin {"redeem", "rotate"}
               \/ \E d \in Code, c \in Client : RedeemRead(s, d, c)
               \/ \E k \in TokenId, c \in Client, asked \in SUBSET Scope :
                      RotateRead(s, k, c, asked)
    BY <1>1, <1>5 DEF TokenStep, RedeemCommit, DetectReuse, RotateCommit,
                      ClientCredentialsRead, ClientCredentialsCommit
  <1>6. CASE \/ \E k \in TokenId : RevokeAccess(k)
             \/ \E c \in Client : SetClientStatus(c)
             \/ Tick \/ UNCHANGED vars
    BY <1>6 DEF RevokeAccess, SetClientStatus, Tick, vars
  <1>7. QED
    BY <1>2, <1>3, <1>4, <1>5, <1>6 DEF Next

\* The four kinds of one login, before and after a step.
LEMMA UsableStep ==
    ASSUME IInv, [Next]_vars, NEW c \in Code, granted[c] # Unissued, Usable(c)'
    PROVE  Usable(c) /\ codes'[c] = codes[c]
  <1>1. TypeOK /\ TypeOK' /\ Provenance /\ now' >= now /\ now \in Nat /\ now' \in Nat
    BY NextTypeOK, ClockStep DEF IInv, TypeOK
  <1>2. codes[c] # Unissued /\ codes \in [Code -> CodeRow \cup {Unissued, Deleted}]
    BY <1>1 DEF Provenance, TypeOK
  <1>3. codes'[c] = codes[c]
    <2>1. ASSUME NEW r \in Request, NEW d \in Code, IssueAuthCode(r, d)
          PROVE  codes'[c] = codes[c]
      BY <1>2, <2>1 DEF IssueAuthCode
    <2>2. ASSUME NEW r \in Request, NEW j \in TokenId, RedeemCommit(r, j)
          PROVE  codes'[c] = codes[c]
      <3>1. req[r].code \in Code /\ req[r].row \in CodeRow
        BY <1>1, <2>2, ReqFields DEF RedeemCommit, TypeOK
      <3>2. req[r].code # c
        <4>1. SUFFICES ASSUME req[r].code = c PROVE FALSE
          OBVIOUS
        <4>2. codes'[c] = [req[r].row EXCEPT !.used = TRUE]
          BY <1>2, <2>2, <4>1 DEF RedeemCommit, Used
        <4>3. codes'[c].used
          BY <3>1, <4>2 DEF CodeRow
        <4>4. QED
          BY <4>3 DEF Usable
      <3>3. QED
        BY <1>2, <2>2, <3>2 DEF RedeemCommit
    <2>3. ASSUME NEW ks, codes' = DeleteRows(codes, ks)
          PROVE  codes'[c] = codes[c]
      BY <1>2, <2>3 DEF DeleteRows, Usable, Rows
    <2>4. QED
      BY <2>1, <2>2, <2>3, CodeSteps
  <1>4. codes[c] \in CodeRow
    BY <1>2, <1>3 DEF Usable, Rows
  <1>5. QED
    BY <1>1, <1>2, <1>3, <1>4 DEF Usable, Rows, CodeRow

\* A usable refresh token is an old one, or one that a redemption or a rotation
\* in flight has just issued.
LEMMA UsablesStep ==
    ASSUME IInv, [Next]_vars, NEW c \in Code, NEW k \in Usables(c)'
    PROVE  \/ k \in Usables(c) /\ refresh'[k] = refresh[k]
           \/ \E r \in Redeeming(c) :
                  RightsOf(refresh'[k], refresh'[k].scopes)
                      = RightsOf(req[r].row, req[r].row.scopes)
           \/ \E r \in Rotating(c) :
                  RightsOf(refresh'[k], refresh'[k].scopes)
                      = RightsOf(req[r].row, req[r].scopes)
  <1>1. /\ TypeOK /\ TypeOK' /\ Provenance /\ Forward
        /\ now' >= now /\ now \in Nat /\ now' \in Nat
    BY NextTypeOK, NextIInv, ClockStep DEF IInv, TypeOK
  <1>2. /\ refresh \in [TokenId -> RefreshRow \cup {Unissued, Deleted}]
        /\ origin \in [TokenId -> Code \cup {Unissued}]
        /\ k \in TokenId /\ k \in Live(refresh') /\ origin'[k] = c
        /\ now' <= refresh'[k].expires
    BY <1>1 DEF TypeOK, Usables, Live, Rows
  <1>3. ASSUME refresh'[k] = refresh[k]
        PROVE  k \in Usables(c)
    <2>1. k \in Live(refresh)
      BY <1>2, <1>3 DEF Live, Rows
    <2>2. origin[k] = c
      BY <1>1, <1>2, <2>1 DEF Forward, Live, Rows
    <2>3. refresh[k].expires \in Nat
      BY <1>2, <2>1 DEF Live, Rows, RefreshRow
    <2>4. QED
      BY <1>1, <1>2, <1>3, <2>1, <2>2, <2>3 DEF Usables
  <1>4. ASSUME NEW ks, refresh' = RevokeRows(refresh, ks)
        PROVE  refresh'[k] = refresh[k]
    <2>1. k \in Live(refresh) /\ k \notin ks
      BY <1>2, <1>4, RevokeRefreshRows
    <2>2. QED
      BY <1>2, <1>4, <2>1 DEF RevokeRows
  <1>5. ASSUME NEW ks, refresh' = DeleteRows(refresh, ks)
        PROVE  refresh'[k] = refresh[k]
    BY <1>2, <1>5 DEF DeleteRows, Live, Rows
  <1>6. ASSUME NEW r \in Request, NEW j \in TokenId, RedeemCommit(r, j)
        PROVE  \/ refresh'[k] = refresh[k]
               \/ /\ r \in Redeeming(c)
                  /\ RightsOf(refresh'[k], refresh'[k].scopes)
                         = RightsOf(req[r].row, req[r].row.scopes)
    <2>1. SnapshotOK(req[r]) /\ req[r].op = "redeem"
      BY <1>6 DEF IInv, Snapshots, RedeemCommit
    <2>2. CASE k = j
      <3>1. r \in Redeeming(c)
        BY <1>2, <1>6, <2>1, <2>2 DEF RedeemCommit, Redeeming
      <3>2. refresh'[k] = NewRefresh(req[r].client, req[r].row.user, req[r].row.scopes, j)
        BY <1>2, <1>6, <2>2 DEF RedeemCommit
      <3>3. QED
        BY <2>1, <3>1, <3>2 DEF NewRefresh, SnapshotOK, RightsOf
    <2>3. CASE k # j
      BY <1>2, <1>6, <2>3 DEF RedeemCommit
    <2>4. QED
      BY <2>2, <2>3
  <1>7. ASSUME NEW r \in Request, NEW j \in TokenId, RotateCommit(r, j)
        PROVE  \/ refresh'[k] = refresh[k]
               \/ /\ r \in Rotating(c)
                  /\ RightsOf(refresh'[k], refresh'[k].scopes)
                         = RightsOf(req[r].row, req[r].scopes)
    <2>1. /\ SnapshotOK(req[r]) /\ req[r].op = "rotate"
          /\ req[r].token \in TokenId /\ req[r].row \in RefreshRow
      BY <1>1, <1>7, ReqFields DEF IInv, Snapshots, RotateCommit, TypeOK
    <2>2. CASE k = j
      <3>1. r \in Rotating(c)
        BY <1>2, <1>7, <2>1, <2>2 DEF RotateCommit, Rotating
      <3>2. refresh'[k] = NewRefresh(req[r].client, req[r].row.user, req[r].scopes,
                                     req[r].row.family)
        BY <1>2, <1>7, <2>2 DEF RotateCommit
      <3>3. QED
        BY <2>1, <3>1, <3>2 DEF NewRefresh, SnapshotOK, RightsOf
    <2>3. CASE k # j /\ k = req[r].token
      <3>1. refresh'[k] = [req[r].row EXCEPT !.revoked = TRUE]
        BY <1>2, <1>7, <2>3 DEF RotateCommit, Rotated, Revoked
      <3>2. refresh'[k].revoked
        BY <2>1, <3>1 DEF RefreshRow
      <3>3. QED
        BY <1>2, <3>2 DEF Live
    <2>4. CASE k # j /\ k # req[r].token
      BY <1>2, <1>7, <2>4 DEF RotateCommit
    <2>5. QED
      BY <2>2, <2>3, <2>4
  <1>8. QED
    BY <1>3, <1>4, <1>5, <1>6, <1>7, RefreshSteps

LEMMA RequestsStep ==
    ASSUME IInv, [Next]_vars, NEW c \in Code
    PROVE  /\ \A r \in Redeeming(c)' :
                  \/ r \in Redeeming(c) /\ req'[r] = req[r]
                  \/ Usable(c) /\ req'[r].row = codes[c]
           /\ \A r \in Rotating(c)' :
                  \/ r \in Rotating(c) /\ req'[r] = req[r]
                  \/ \E k \in Usables(c) :
                         req'[r].row = refresh[k] /\ req'[r].scopes \subseteq refresh[k].scopes
  <1>1. TypeOK /\ Provenance /\ Forward
    BY NextIInv DEF IInv
  <1>2. ASSUME NEW r \in Redeeming(c)'
        PROVE  \/ r \in Redeeming(c) /\ req'[r] = req[r]
               \/ Usable(c) /\ req'[r].row = codes[c]
    BY <1>2, RequestSteps DEF Redeeming
  <1>3. ASSUME NEW r \in Rotating(c)'
        PROVE  \/ r \in Rotating(c) /\ req'[r] = req[r]
               \/ \E k \in Usables(c) :
                      req'[r].row = refresh[k] /\ req'[r].scopes \subseteq refresh[k].scopes
    <2>1. r \in Request /\ req'[r].op = "rotate" /\ origin'[req'[r].token] = c
      BY <1>3 DEF Rotating
    <2>2. CASE req'[r] = req[r]
      <3>1. origin[req[r].token] \in Code /\ req[r].token \in TokenId
        BY <1>1, <2>1, <2>2, ReqFields DEF IInv, Snapshots, SnapshotOK, TypeOK
      <3>2. refresh[req[r].token] # Unissued
        BY <1>1, <3>1, RowAssumption DEF Provenance
      <3>3. origin'[req[r].token] = origin[req[r].token]
        BY <1>1, <3>1, <3>2 DEF Forward
      <3>4. QED
        BY <2>1, <2>2, <3>3 DEF Rotating
    <2>3. CASE /\ req'[r].token \in Live(refresh)
               /\ now <= refresh[req'[r].token].expires
               /\ req'[r].row = refresh[req'[r].token]
               /\ req'[r].scopes \subseteq req'[r].row.scopes
      <3>1. req'[r].token \in TokenId /\ refresh[req'[r].token] # Unissued
        BY <1>1, <2>3 DEF TypeOK, Live, Rows
      <3>2. origin[req'[r].token] = c
        BY <1>1, <2>1, <3>1 DEF Forward
      <3>3. req'[r].token \in Usables(c)
        BY <2>3, <3>2 DEF Usables
      <3>4. QED
        BY <2>3, <3>3
    <2>4. QED
      BY <2>1, <2>2, <2>3, RequestSteps
  <1>4. QED
    BY <1>2, <1>3

-----------------------------------------------------------------------------
(***************************************************************************)
(* What a login is worth shrinks, and does not come back.                  *)
(***************************************************************************)
LEMMA WorthShrinks ==
    ASSUME SInv, SInv', [Next]_vars, NEW c \in Code, granted[c] # Unissued
    PROVE  /\ Alive(c)' => Alive(c)
           /\ SessionRights(c)' \subseteq SessionRights(c)
  <1>1. IInv /\ TypeOK'
    BY DEF SInv, IInv
  <1>2. Alive(c)' => Alive(c)
    BY <1>1, UsableStep, UsablesStep, RequestsStep DEF Alive
  <1>3. ASSUME NEW x \in Client \X User \X Scope, x \in SessionRights(c)'
        PROVE  x \in SessionRights(c)
    <2>1. \/ \E k \in Usables(c)' : x \in RightsOf(refresh'[k], refresh'[k].scopes)
          \/ \E r \in Rotating(c)' : x \in RightsOf(req'[r].row, req'[r].scopes)
          \/ \E r \in Redeeming(c)' : x \in RightsOf(req'[r].row, req'[r].row.scopes)
          \/ Usable(c)' /\ x \in RightsOf(codes'[c], codes'[c].scopes)
      BY <1>3, After DEF RightsAre
    <2>2. SUFFICES
              \/ \E k \in Usables(c) : x \in RightsOf(refresh[k], refresh[k].scopes)
              \/ \E r \in Rotating(c) : x \in RightsOf(req[r].row, req[r].scopes)
              \/ \E r \in Redeeming(c) : x \in RightsOf(req[r].row, req[r].row.scopes)
              \/ Usable(c) /\ x \in RightsOf(codes[c], codes[c].scopes)
      BY RightsOfKinds DEF RightsAre
    <2>3. ASSUME NEW k \in Usables(c)', x \in RightsOf(refresh'[k], refresh'[k].scopes)
          PROVE  \/ \E j \in Usables(c) : x \in RightsOf(refresh[j], refresh[j].scopes)
                 \/ \E r \in Rotating(c) : x \in RightsOf(req[r].row, req[r].scopes)
                 \/ \E r \in Redeeming(c) : x \in RightsOf(req[r].row, req[r].row.scopes)
      BY <1>1, <2>3, UsablesStep
    <2>4. ASSUME NEW r \in Rotating(c)', x \in RightsOf(req'[r].row, req'[r].scopes)
          PROVE  \/ \E k \in Usables(c) : x \in RightsOf(refresh[k], refresh[k].scopes)
                 \/ \E s \in Rotating(c) : x \in RightsOf(req[s].row, req[s].scopes)
      <3>1. CASE r \in Rotating(c) /\ req'[r] = req[r]
        BY <2>4, <3>1
      <3>2. ASSUME NEW k \in Usables(c), req'[r].row = refresh[k],
                   req'[r].scopes \subseteq refresh[k].scopes
            PROVE  x \in RightsOf(refresh[k], refresh[k].scopes)
        BY <2>4, <3>2 DEF RightsOf
      <3>3. QED
        BY <1>1, <2>4, <3>1, <3>2, RequestsStep
    <2>5. ASSUME NEW r \in Redeeming(c)', x \in RightsOf(req'[r].row, req'[r].row.scopes)
          PROVE  \/ \E s \in Redeeming(c) : x \in RightsOf(req[s].row, req[s].row.scopes)
                 \/ Usable(c) /\ x \in RightsOf(codes[c], codes[c].scopes)
      BY <1>1, <2>5, RequestsStep
    <2>6. Usable(c)' => Usable(c) /\ codes'[c] = codes[c]
      BY <1>1, UsableStep
    <2>7. QED
      BY <2>1, <2>3, <2>4, <2>5, <2>6
  <1>4. QED
    BY <1>1, <1>2, <1>3, After

-----------------------------------------------------------------------------
(***************************************************************************)
(* The invariant that the mapping needs beside IInv.                       *)
(***************************************************************************)
LEMMA InitSInv == Init => SInv
  BY InitIInv DEF SInv, CodesAsGranted, Init, Rows, Idle

LEMMA NextSInv == SInv /\ [Next]_vars => SInv'
  <1> SUFFICES ASSUME SInv, [Next]_vars
               PROVE  SInv'
    OBVIOUS
  <1>1. /\ IInv /\ IInv' /\ TypeOK /\ TypeOK' /\ Provenance /\ Forward
        /\ CodesAsGranted
    BY NextIInv DEF SInv, IInv
  <1>2. \A r \in Request : req[r] \in ReqState /\ SnapshotOK(req[r])
    BY <1>1 DEF IInv, Snapshots, TypeOK
  <1>3. ASSUME NEW c \in Rows(codes')
        PROVE  codes'[c].scopes = granted'[c].scopes
    <2>1. c \in Code /\ codes'[c] \in CodeRow
      BY <1>1, <1>3 DEF TypeOK, Rows
    <2>2. ASSUME codes'[c] = codes[c]
          PROVE  codes'[c].scopes = granted'[c].scopes
      <3>1. c \in Rows(codes) /\ granted[c] # Unissued
        BY <1>1, <1>3, <2>1, <2>2 DEF TypeOK, Rows, Provenance
      <3>2. QED
        BY <1>1, <2>1, <2>2, <3>1 DEF CodesAsGranted, Forward
    <2>3. ASSUME NEW r \in Request, NEW d \in Code, IssueAuthCode(r, d)
          PROVE  codes'[c] = codes[c] \/ codes'[c].scopes = granted'[c].scopes
      BY <1>1, <2>1, <2>3 DEF IssueAuthCode, TypeOK
    <2>4. ASSUME NEW r \in Request, NEW j \in TokenId, RedeemCommit(r, j)
          PROVE  codes'[c] = codes[c] \/ codes'[c].scopes = granted'[c].scopes
      <3>1. /\ req[r].op = "redeem" /\ req[r].code \in Code /\ req[r].row \in CodeRow
            /\ granted' = granted
        BY <1>2, <2>4, ReqFields DEF RedeemCommit
      <3>2. CASE c = req[r].code
        <4>1. codes'[c] = [req[r].row EXCEPT !.used = TRUE]
          BY <1>1, <2>1, <2>4, <3>2 DEF RedeemCommit, Used, TypeOK
        <4>2. codes'[c].scopes = req[r].row.scopes
          BY <3>1, <4>1 DEF CodeRow
        <4>3. QED
          BY <1>1, <3>1, <3>2, <4>2 DEF CodesAsGranted
      <3>3. CASE c # req[r].code
        BY <1>1, <2>1, <2>4, <3>3 DEF RedeemCommit, TypeOK
      <3>4. QED
        BY <3>2, <3>3
    <2>5. ASSUME NEW ks, codes' = DeleteRows(codes, ks)
          PROVE  codes'[c] = codes[c]
      BY <1>1, <1>3, <2>1, <2>5 DEF DeleteRows, Rows, TypeOK
    <2>6. QED
      BY <1>1, <2>2, <2>3, <2>4, <2>5, CodeSteps
  <1>4. ASSUME NEW r \in Request, req'[r].op = "redeem"
        PROVE  req'[r].row.scopes = granted'[req'[r].code].scopes
    <2>1. CASE req'[r] = req[r]
      <3>1. req[r].code \in Code /\ granted[req[r].code] # Unissued
        BY <1>2, <1>4, <2>1, ReqFields DEF SnapshotOK, Within
      <3>2. QED
        BY <1>1, <1>4, <2>1, <3>1 DEF CodesAsGranted, Forward
    <2>2. CASE Usable(req'[r].code) /\ req'[r].row = codes[req'[r].code]
      <3>1. req'[r].code \in Rows(codes) /\ req'[r].code \in Code
        BY <1>1, <2>2 DEF Usable, Rows, TypeOK
      <3>2. granted[req'[r].code] # Unissued
        BY <1>1, <3>1 DEF Provenance, Rows
      <3>3. QED
        BY <1>1, <2>2, <3>1, <3>2 DEF CodesAsGranted, Forward
    <2>3. QED
      BY <1>1, <1>4, <2>1, <2>2, RequestSteps
  <1>5. QED
    BY <1>1, <1>3, <1>4 DEF SInv, CodesAsGranted

-----------------------------------------------------------------------------
(***************************************************************************)
(* Every step is a step of Session or none.                                *)
(***************************************************************************)
\* A login grants by storing its code, which can be redeemed then.
LEMMA GrantStep ==
    ASSUME SInv, SInv', [Next]_vars, NEW c \in Code,
           granted[c] = Unissued, granted'[c] # Unissued
    PROVE  Usable(c)' /\ ~Redeemed(c)'
  <1>1. TypeOK /\ TypeOK' /\ IInv /\ IInv'
    BY DEF SInv, IInv
  <1>2. PICK r \in Request, d \in Code : IssueAuthCode(r, d)
    BY <1>1, CodeSteps DEF RedeemCommit
  <1>3. c = d
    BY <1>1, <1>2 DEF IssueAuthCode, TypeOK
  <1>4. /\ codes'[c].used = FALSE /\ codes'[c].expires = now + CodeTtl
        /\ codes'[c] \notin {Unissued, Deleted}
    <2>1. codes'[c] = [client |-> req[r].client, user |-> req[r].user,
                       scopes |-> req[r].scopes, expires |-> now + CodeTtl, used |-> FALSE]
      BY <1>1, <1>2, <1>3 DEF IssueAuthCode, TypeOK
    <2>2. req[r].user \in User /\ req[r].client \in Client /\ req[r].scopes \in SUBSET Scope
      BY <1>1, <1>2, ReqFields DEF IssueAuthCode, TypeOK
    <2>3. now \in Nat /\ now + CodeTtl \in Nat
      BY <1>1, TtlAssumption DEF TypeOK
    <2>4. codes'[c] \in CodeRow
      BY <2>1, <2>2, <2>3 DEF CodeRow
    <2>5. codes'[c] \notin {Unissued, Deleted}
      BY <2>4, RowAssumption
    <2>6. QED
      BY <2>1, <2>5
  <1>5. Usable(c)'
    <2>1. now' = now /\ now \in Nat /\ DOMAIN codes' = Code
      BY <1>1, <1>2 DEF IssueAuthCode, TypeOK
    <2>2. now' <= codes'[c].expires
      BY <1>4, <2>1, TtlAssumption
    <2>3. QED
      BY <1>4, <2>1, <2>2 DEF Usable, Rows
  <1>6. ~Redeemed(c)'
    BY <1>5, After DEF PhaseFacts
  <1>7. QED
    BY <1>5, <1>6

LEMMA PhaseStep ==
    ASSUME SInv, SInv', [Next]_vars, NEW c \in Code
    PROVE  \/ SessionPhase(c) = "none" /\ SessionPhase(c)' = "granted"
           \/ /\ SessionPhase(c) = "granted" /\ SessionPhase(c)' = "open"
              /\ SessionRights(c)' \subseteq SessionRights(c)
           \/ /\ SessionPhase(c) = "open" /\ SessionPhase(c)' = "open"
              /\ SessionRights(c)' \subseteq SessionRights(c)
           \/ /\ SessionPhase(c) \in {"granted", "open"} /\ SessionPhase(c)' = "over"
              /\ SessionRights(c)' = {}
           \/ /\ SessionPhase(c)' = SessionPhase(c)
              /\ SessionRights(c)' = SessionRights(c)
  <1>1. PhaseFacts(c) /\ PhaseFacts(c)'
    BY PhaseFactsHold, After
  <1>2. Forward /\ Provenance
    BY NextIInv DEF SInv, IInv
  <1>3. /\ granted[c] # Unissued /\ ~Alive(c) => SessionPhase(c) = "over"
        /\ Alive(c) /\ Redeemed(c) => SessionPhase(c) = "open"
        /\ Alive(c) /\ ~Redeemed(c) => SessionPhase(c) = "granted"
    BY <1>1 DEF SessionPhase, PhaseFacts, Alive, Pending
  <1>4. /\ granted'[c] # Unissued /\ ~Alive(c)' => SessionPhase(c)' = "over"
        /\ Alive(c)' /\ Redeemed(c)' => SessionPhase(c)' = "open"
        /\ Alive(c)' /\ ~Redeemed(c)' => SessionPhase(c)' = "granted"
    BY <1>1 DEF SessionPhase, PhaseFacts, Alive, Pending
  <1>5. CASE granted[c] = Unissued /\ granted'[c] = Unissued
    BY <1>1, <1>5 DEF PhaseFacts, SessionPhase
  <1>6. CASE granted[c] = Unissued /\ granted'[c] # Unissued
    <2>1. Usable(c)' /\ ~Redeemed(c)'
      BY <1>6, GrantStep
    <2>2. SessionPhase(c)' = "granted"
      BY <1>4, <2>1 DEF Alive
    <2>3. SessionPhase(c) = "none"
      BY <1>6 DEF SessionPhase
    <2>4. QED
      BY <2>2, <2>3
  <1>7. CASE granted[c] # Unissued
    <2>1. granted'[c] = granted[c]
      BY <1>2, <1>7 DEF Forward
    <2>2. Alive(c)' => Alive(c)
      BY <1>7, WorthShrinks
    <2>3. SessionRights(c)' \subseteq SessionRights(c)
      BY <1>7, WorthShrinks
    <2>4. Redeemed(c) => Redeemed(c)'
      BY <1>2, RowAssumption DEF Redeemed, Forward, Provenance
    <2>5. CASE ~Alive(c)'
      BY <1>1, <1>3, <1>4, <1>7, <2>1, <2>5 DEF PhaseFacts
    <2>6. CASE Alive(c)' /\ ~Redeemed(c)'
      <3>1. SessionRights(c)' = RightsOf(granted'[c], granted'[c].scopes)
        BY <1>1, <2>6 DEF PhaseFacts
      <3>2. SessionRights(c) = RightsOf(granted[c], granted[c].scopes)
        BY <1>1, <2>2, <2>4, <2>6 DEF PhaseFacts
      <3>3. QED
        BY <1>3, <1>4, <2>1, <2>2, <2>4, <2>6, <3>1, <3>2 DEF RightsOf
    <2>7. CASE Alive(c)' /\ Redeemed(c)'
      BY <1>3, <1>4, <2>2, <2>3, <2>7
    <2>8. QED
      BY <2>5, <2>6, <2>7
  <1>8. QED
    BY <1>5, <1>6, <1>7

\* The token endpoint, with every overlap of its handlers, implements Session.
THEOREM PromiseKept == Spec => KeepsPromise
  <1>1. Init => Promise!Init
    <2> SUFFICES ASSUME Init
                 PROVE  Promise!Init
      OBVIOUS
    <2>1. SInv
      BY InitSInv
    <2>2. \A c \in Code : granted[c] = Unissued
      BY DEF Init
    <2>3. \A c \in Code : SessionPhase(c) = "none" /\ SessionRights(c) = {}
      BY <2>1, <2>2, PhaseFactsHold DEF PhaseFacts, SessionPhase
    <2>4. /\ [c \in Code |-> SessionPhase(c)] = [c \in Code |-> "none"]
          /\ [c \in Code |-> SessionRights(c)] = [c \in Code |-> {}]
      BY <2>3
    <2>5. QED
      BY <2>4 DEF Promise!Init
  <1>2. SInv /\ SInv' /\ [Next]_vars => Promise!Next
    BY PhaseStep DEF Promise!Next, Promise!Grant, Promise!Open, Promise!Narrow,
                     Promise!End, Promise!Rest
  <1>3. QED
    BY <1>1, <1>2, InitSInv, NextSInv, PTL DEF Spec, KeepsPromise, Promise!Spec
=============================================================================
