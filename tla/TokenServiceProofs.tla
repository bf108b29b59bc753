------------------------- MODULE TokenServiceProofs -------------------------
(***************************************************************************)
(* Proofs about TokenService, for every value of its constants.            *)
(***************************************************************************)
EXTENDS TokenService, TLAPS

\* Used, Revoked and Rotated set one field; every proof may look inside them.
USE DEF Used, Revoked, Rotated

\* The fields of a request's local state have the types its op announces.
LEMMA ReqFields ==
    ASSUME NEW q \in ReqState
    PROVE  /\ q.op = "login" =>
                q.user \in User /\ q.client \in Client /\ q.scopes \in SUBSET Scope
           /\ q.op = "redeem" =>
                q.client \in Client /\ q.code \in Code /\ q.row \in CodeRow
           /\ q.op = "rotate" =>
                /\ q.client \in Client /\ q.token \in TokenId
                /\ q.row \in RefreshRow /\ q.scopes \in SUBSET Scope
           /\ q.op = "client" => q.client \in Client /\ q.scopes \in SUBSET Scope
           /\ q.op = "family" => q.family \in TokenId
           /\ q.op = "withdraw" => q.user \in User /\ q.known \in SUBSET TokenId
           /\ q.op = "withdrawAccess" =>
                /\ q.user \in User /\ q.known \in SUBSET TokenId
                /\ q.reborn \in BOOLEAN /\ q.access \in SUBSET TokenId
           /\ q.op = "withdrawRefresh" =>
                /\ q.user \in User /\ q.known \in SUBSET TokenId
                /\ q.reborn \in BOOLEAN /\ q.access \in SUBSET TokenId
                /\ q.refresh \in SUBSET TokenId
           /\ q.op = "delete" => q.user \in User
           /\ q.op = "deleteRows" =>
                /\ q.user \in User /\ q.access \in SUBSET TokenId
                /\ q.refresh \in SUBSET TokenId /\ q.codes \in SUBSET Code
  BY DEF ReqState

\* A revoking UPDATE keeps every row and every field but revoked, and leaves
\* exactly the rows outside ks alive.
LEMMA RevokeAccessRows ==
    ASSUME NEW table \in [TokenId -> AccessRow \cup {Unissued, Deleted}], NEW ks
    PROVE  /\ RevokeRows(table, ks) \in [TokenId -> AccessRow \cup {Unissued, Deleted}]
           /\ Rows(RevokeRows(table, ks)) = Rows(table)
           /\ Live(RevokeRows(table, ks)) = Live(table) \ ks
           /\ \A k \in TokenId :
                 RevokeRows(table, ks)[k] = Unissued <=> table[k] = Unissued
           /\ \A k \in Rows(table) :
                 /\ RevokeRows(table, ks)[k].client = table[k].client
                 /\ RevokeRows(table, ks)[k].user = table[k].user
                 /\ RevokeRows(table, ks)[k].scopes = table[k].scopes
  BY RowAssumption DEF RevokeRows, Rows, Live, AccessRow

\* The same of refresh tokens, which also keep their family.
LEMMA RevokeRefreshRows ==
    ASSUME NEW table \in [TokenId -> RefreshRow \cup {Unissued, Deleted}], NEW ks
    PROVE  /\ RevokeRows(table, ks) \in [TokenId -> RefreshRow \cup {Unissued, Deleted}]
           /\ Rows(RevokeRows(table, ks)) = Rows(table)
           /\ Live(RevokeRows(table, ks)) = Live(table) \ ks
           /\ \A k \in TokenId :
                 RevokeRows(table, ks)[k] = Unissued <=> table[k] = Unissued
           /\ \A k \in Rows(table) :
                 /\ RevokeRows(table, ks)[k].client = table[k].client
                 /\ RevokeRows(table, ks)[k].user = table[k].user
                 /\ RevokeRows(table, ks)[k].scopes = table[k].scopes
                 /\ RevokeRows(table, ks)[k].family = table[k].family
  BY RowAssumption DEF RevokeRows, Rows, Live, RefreshRow

-----------------------------------------------------------------------------
(***************************************************************************)
(* Type correctness.                                                       *)
(***************************************************************************)
LEMMA InitTypeOK == Init => TypeOK
  BY TtlAssumption DEF Init, TypeOK, ReqState, Idle

\* Every action keeps the types of the tables and of the requests in flight.
LEMMA NextTypeOK == TypeOK /\ [Next]_vars => TypeOK'
  <1> SUFFICES ASSUME TypeOK, [Next]_vars
               PROVE  TypeOK'
    OBVIOUS
  <1> USE DEF TypeOK, Start, Advance, Finish, Idle, tables, history
  <1>0. \A r \in Request : req[r] \in ReqState
    OBVIOUS
  <1>1. ASSUME NEW r \in Request, LoginStep(r)
        PROVE  TypeOK'
    <2>1. CASE \E u \in User, c \in Client, S \in SUBSET Scope : LoginRead(r, u, c, S)
      BY <2>1 DEF LoginRead, ReqState
    <2>2. ASSUME NEW code \in Code, IssueAuthCode(r, code)
          PROVE  TypeOK'
      <3>1. /\ req[r].user \in User /\ req[r].client \in Client
            /\ req[r].scopes \in SUBSET Scope
        BY <1>0, <2>2, ReqFields DEF IssueAuthCode
      <3>2. codes' \in [Code -> CodeRow \cup {Unissued, Deleted}]
        BY <2>2, <3>1, TtlAssumption DEF IssueAuthCode, CodeRow
      <3>3. granted' \in [Code -> Grant \cup {Unissued}]
        BY <2>2, <3>1 DEF IssueAuthCode, Grant
      <3>4. req' \in [Request -> ReqState]
        BY <2>2 DEF IssueAuthCode, ReqState
      <3>5. QED
        BY <2>2, <3>1, <3>2, <3>3, <3>4 DEF IssueAuthCode
    <2>3. QED
      BY <1>1, <2>1, <2>2 DEF LoginStep
  <1>2. ASSUME NEW r \in Request, TokenStep(r)
        PROVE  TypeOK'
    <2>1. ASSUME NEW code \in Code, NEW c \in Client, RedeemRead(r, code, c)
          PROVE  TypeOK'
      <3>1. codes[code] \in CodeRow
        BY <2>1 DEF RedeemRead, Rows
      <3>2. QED
        BY <2>1, <3>1 DEF RedeemRead, ReqState
    <2>2. ASSUME NEW k \in TokenId, RedeemCommit(r, k)
          PROVE  TypeOK'
      <3>1. /\ req[r].client \in Client /\ req[r].code \in Code
            /\ req[r].row \in CodeRow
        BY <1>0, <2>2, ReqFields DEF RedeemCommit
      <3>2. /\ [req[r].row EXCEPT !.used = TRUE] \in CodeRow
            /\ req[r].row.user \in User /\ req[r].row.scopes \in SUBSET Scope
        BY <3>1 DEF CodeRow
      <3>3. NewAccess(req[r].client, req[r].row.user, req[r].row.scopes) \in AccessRow
        BY <3>1, <3>2, TtlAssumption DEF NewAccess, AccessRow
      <3>4. NewRefresh(req[r].client, req[r].row.user, req[r].row.scopes, k) \in RefreshRow
        BY <3>1, <3>2, TtlAssumption DEF NewRefresh, RefreshRow
      <3>5. req' \in [Request -> ReqState]
        BY <2>2 DEF RedeemCommit, ReqState
      <3>6. QED
        BY <2>2, <3>1, <3>2, <3>3, <3>4, <3>5 DEF RedeemCommit
    <2>3. ASSUME NEW k \in TokenId, NEW c \in Client, NEW asked \in SUBSET Scope,
                 RotateRead(r, k, c, asked)
          PROVE  TypeOK'
      <3>1. refresh[k] \in RefreshRow
        BY <2>3 DEF RotateRead, Rows
      <3>2. NarrowScopes(asked, refresh[k]) \in SUBSET Scope
        BY DEF NarrowScopes
      <3>3. QED
        BY <2>3, <3>1, <3>2 DEF RotateRead, ReqState
    <2>4. ASSUME NEW k \in TokenId, NEW c \in Client, DetectReuse(r, k, c)
          PROVE  TypeOK'
      <3>1. refresh[k].family \in TokenId
        BY <2>4 DEF DetectReuse, Rows, RefreshRow
      <3>2. QED
        BY <2>4, <3>1 DEF DetectReuse, ReqState
    <2>5. ASSUME NEW k \in TokenId, RotateCommit(r, k)
          PROVE  TypeOK'
      <3>1. /\ req[r].client \in Client /\ req[r].token \in TokenId
            /\ req[r].row \in RefreshRow /\ req[r].scopes \in SUBSET Scope
        BY <1>0, <2>5, ReqFields DEF RotateCommit
      <3>2. /\ [req[r].row EXCEPT !.revoked = TRUE] \in RefreshRow
            /\ req[r].row.user \in User /\ req[r].row.family \in TokenId
        BY <3>1 DEF RefreshRow
      <3>3. NewAccess(req[r].client, req[r].row.user, req[r].scopes) \in AccessRow
        BY <3>1, <3>2, TtlAssumption DEF NewAccess, AccessRow
      <3>4. NewRefresh(req[r].client, req[r].row.user, req[r].scopes,
                       req[r].row.family) \in RefreshRow
        BY <3>1, <3>2, TtlAssumption DEF NewRefresh, RefreshRow
      <3>5. req' \in [Request -> ReqState]
        BY <2>5 DEF RotateCommit, ReqState
      <3>6. QED
        BY <2>5, <3>1, <3>2, <3>3, <3>4, <3>5 DEF RotateCommit
    <2>6. ASSUME NEW c \in Client, NEW asked \in SUBSET Scope,
                 ClientCredentialsRead(r, c, asked)
          PROVE  TypeOK'
      BY <2>6 DEF ClientCredentialsRead, ReqState
    <2>7. ASSUME NEW k \in TokenId, ClientCredentialsCommit(r, k)
          PROVE  TypeOK'
      <3>1. req[r].client \in Client /\ req[r].scopes \in SUBSET Scope
        BY <1>0, <2>7, ReqFields DEF ClientCredentialsCommit
      <3>2. NewAccess(req[r].client, NoUser, req[r].scopes) \in AccessRow
        BY <3>1, TtlAssumption DEF NewAccess, AccessRow
      <3>3. req' \in [Request -> ReqState]
        BY <2>7 DEF ClientCredentialsCommit, ReqState
      <3>4. QED
        BY <2>7, <3>2, <3>3 DEF ClientCredentialsCommit
    <2>8. QED
      BY <1>2, <2>1, <2>2, <2>3, <2>4, <2>5, <2>6, <2>7 DEF TokenStep
  <1>3. ASSUME NEW r \in Request, RevokeStep(r)
        PROVE  TypeOK'
    <2>1. ASSUME NEW k \in TokenId, RevokeRead(r, k)
          PROVE  TypeOK'
      <3>1. refresh[k].family \in TokenId
        BY <2>1 DEF RevokeRead, Rows, RefreshRow
      <3>2. QED
        BY <2>1, <3>1 DEF RevokeRead, ReqState
    <2>2. CASE RevokeFamily(r)
      <3>1. req[r].family \in TokenId
        BY <1>0, <2>2, ReqFields DEF RevokeFamily
      <3>2. refresh' \in [TokenId -> RefreshRow \cup {Unissued, Deleted}]
        BY <2>2, RevokeRefreshRows DEF RevokeFamily
      <3>3. req' \in [Request -> ReqState]
        BY <2>2 DEF RevokeFamily, ReqState
      <3>4. QED
        BY <2>2, <3>1, <3>2, <3>3 DEF RevokeFamily
    <2>3. QED
      BY <1>3, <2>1, <2>2 DEF RevokeStep
  <1>4. ASSUME NEW r \in Request, UserStep(r)
        PROVE  TypeOK'
    <2>0. \A u \in User : /\ RowsOf(access, u) \in SUBSET TokenId
                          /\ RowsOf(refresh, u) \in SUBSET TokenId
                          /\ RowsOf(codes, u) \in SUBSET Code
      BY DEF RowsOf, Rows
    <2>1. ASSUME NEW u \in User, WithdrawRead(r, u)
          PROVE  TypeOK'
      BY <2>0, <2>1 DEF WithdrawRead, ReqState
    <2>2. CASE WithdrawAccess(r)
      <3>1. req[r].user \in User /\ req[r].known \in SUBSET TokenId
        BY <1>0, <2>2, ReqFields DEF WithdrawAccess
      <3>2. QED
        BY <2>0, <2>2, <3>1 DEF WithdrawAccess, ReqState
    <2>3. CASE WithdrawRefresh(r)
      <3>1. /\ req[r].user \in User /\ req[r].known \in SUBSET TokenId
            /\ req[r].reborn \in BOOLEAN /\ req[r].access \in SUBSET TokenId
        BY <1>0, <2>3, ReqFields DEF WithdrawRefresh
      <3>2. QED
        BY <2>0, <2>3, <3>1 DEF WithdrawRefresh, ReqState
    <2>4. CASE WithdrawCommit(r)
      <3>1. req[r].user \in User
        BY <1>0, <2>4, ReqFields DEF WithdrawCommit
      <3>2. /\ access' \in [TokenId -> AccessRow \cup {Unissued, Deleted}]
            /\ refresh' \in [TokenId -> RefreshRow \cup {Unissued, Deleted}]
        BY <2>4, RevokeAccessRows, RevokeRefreshRows DEF WithdrawCommit
      <3>3. req' \in [Request -> ReqState]
        BY <2>4 DEF WithdrawCommit, ReqState
      <3>4. QED
        BY <2>4, <3>1, <3>2, <3>3 DEF WithdrawCommit
    <2>5. ASSUME NEW u \in User, DeleteRead(r, u)
          PROVE  TypeOK'
      BY <2>5 DEF DeleteRead, ReqState
    <2>6. CASE DeleteUserRows(r)
      <3>1. req[r].user \in User
        BY <1>0, <2>6, ReqFields DEF DeleteUserRows
      <3>2. QED
        BY <2>0, <2>6, <3>1 DEF DeleteUserRows, ReqState
    <2>7. CASE DeleteCommit(r)
      <3>1. req' \in [Request -> ReqState]
        BY <2>7 DEF DeleteCommit, ReqState
      <3>2. QED
        BY <2>7, <3>1 DEF DeleteCommit, DeleteRows
    <2>8. QED
      BY <1>4, <2>1, <2>2, <2>3, <2>4, <2>5, <2>6, <2>7 DEF UserStep
  <1>5. ASSUME NEW r \in Request, Abort(r)
        PROVE  TypeOK'
    BY <1>5 DEF Abort, ReqState
  <1>6. ASSUME NEW k \in TokenId, RevokeAccess(k)
        PROVE  TypeOK'
    <2>1. access' \in [TokenId -> AccessRow \cup {Unissued, Deleted}]
      BY <1>6, RevokeAccessRows DEF RevokeAccess
    <2>2. QED
      BY <1>6, <2>1 DEF RevokeAccess
  <1>7. ASSUME NEW c \in Client, SetClientStatus(c)
        PROVE  TypeOK'
    BY <1>7 DEF SetClientStatus
  <1>8. CASE Tick
    BY <1>8 DEF Tick
  <1>9. CASE UNCHANGED vars
    BY <1>9 DEF vars
  <1>10. QED
    BY <1>1, <1>2, <1>3, <1>4, <1>5, <1>6, <1>7, <1>8, <1>9 DEF Next

\* Every table and every request in flight keeps its type, whatever overlaps.
THEOREM TypeCorrect == Spec => []TypeOK
  BY InitTypeOK, NextTypeOK, PTL DEF Spec

-----------------------------------------------------------------------------
(***************************************************************************)
(* The inductive invariant.  Its part about the tables is preserved by the *)
(* actions that only read; every action moves the tables forward, which    *)
(* keeps the snapshots of the other requests as wrong as they were and no  *)
(* worse.                                                                  *)
(***************************************************************************)
DataInv ==
    /\ Provenance
    /\ Lineage
    /\ CodeSpentWithTokens
    /\ OneLiveTokenPerLogin
    /\ RevokedFamilyOnlyLate
    /\ NoOrphans

\* What no step undoes.
Forward ==
    /\ \A c \in Code :
           /\ granted[c] # Unissued => granted'[c] = granted[c]
           /\ codes[c] # Unissued =>
                  /\ codes'[c] # Unissued
                  /\ c \in Rows(codes') /\ ~codes'[c].used
                         => c \in Rows(codes) /\ ~codes[c].used
    /\ \A k \in TokenId :
           /\ access[k] # Unissued =>
                  (k \in Live(access') => k \in Live(access))
           /\ refresh[k] # Unissued =>
                  /\ origin'[k] = origin[k]
                  /\ k \in Live(refresh') => k \in Live(refresh)
                  /\ k \in Rows(refresh') =>
                        \/ k \in Rows(refresh) /\ refresh'[k].family = refresh[k].family
                        \/ \E s \in Request :
                              /\ req[s].op = "rotate" /\ req[s].token = k
                              /\ refresh'[k].family = req[s].row.family

\* A step that touches neither the users nor the codes nor the tokens.
LEMMA ReadFrame ==
    DataInv /\ TypeOK /\ UNCHANGED <<users, codes, access, refresh, history>>
        => DataInv' /\ Forward
  BY DEF DataInv, Forward, history, Provenance, Lineage, Within,
         CodeSpentWithTokens, OneLiveTokenPerLogin, RevokedFamilyOnlyLate,
         NoOrphans, Rows, Live, TypeOK

\* A rotation adds a token to the family its snapshot names, and writes that
\* snapshot back revoked: whatever the token has become since, it ends spent.
LEMMA RotateCommitData ==
    ASSUME IInv, TypeOK', NEW r \in Request, NEW k \in TokenId, RotateCommit(r, k)
    PROVE  DataInv' /\ Forward
  <1> DEFINE q == req[r]
  <1>1. /\ q \in ReqState /\ q.op = "rotate"
        /\ q.client \in Client /\ q.token \in TokenId
        /\ q.row \in RefreshRow /\ q.scopes \in SUBSET Scope
        /\ q.row.family \in TokenId /\ q.row.user \in User
    BY ReqFields DEF IInv, TypeOK, RotateCommit, RefreshRow
  <1>2. SnapshotOK(q)
    BY DEF IInv, Snapshots
  <1>3. /\ origin[k] = Unissued /\ k # q.token /\ k # q.row.family
        /\ origin[q.token] \in Code /\ origin[q.row.family] = origin[q.token]
        /\ granted[origin[q.token]] # Unissued
        /\ refresh[q.token] # Unissued
    BY <1>1, <1>2, RowAssumption
       DEF IInv, TypeOK, Provenance, SnapshotOK, RotateCommit
  <1>4. /\ refresh'[k] = NewRefresh(q.client, q.row.user, q.scopes, q.row.family)
        /\ refresh'[q.token] = [q.row EXCEPT !.revoked = TRUE]
        /\ access'[k] = NewAccess(q.client, q.row.user, q.scopes)
        /\ origin'[k] = origin[q.token]
        /\ \A j \in TokenId : j # k => access'[j] = access[j] /\ origin'[j] = origin[j]
        /\ \A j \in TokenId \ {k, q.token} : refresh'[j] = refresh[j]
        /\ UNCHANGED <<now, users, clients, codes, granted, killed>>
        /\ late' = IF q.token \in Live(refresh) /\ q.token \notin late
                   THEN late ELSE late \cup {k}
        /\ q.row.user \in users
    BY <1>1, <1>3 DEF IInv, TypeOK, RotateCommit
  <1>5. /\ k \in Rows(refresh') /\ k \in Live(refresh') /\ k \in Rows(access')
        /\ refresh'[k].client = q.client /\ refresh'[k].user = q.row.user
        /\ refresh'[k].scopes = q.scopes /\ refresh'[k].family = q.row.family
        /\ access'[k].client = q.client /\ access'[k].user = q.row.user
        /\ access'[k].scopes = q.scopes
        /\ q.token \in Rows(refresh') /\ q.token \notin Live(refresh')
        /\ refresh'[q.token].client = q.row.client
        /\ refresh'[q.token].user = q.row.user
        /\ refresh'[q.token].scopes = q.row.scopes
        /\ refresh'[q.token].family = q.row.family
        /\ access'[k] # Unissued /\ refresh'[k] # Unissued
        /\ refresh'[q.token] # Unissued
    <2>1. /\ refresh'[k] \in RefreshRow
          /\ refresh'[k].client = q.client /\ refresh'[k].user = q.row.user
          /\ refresh'[k].scopes = q.scopes /\ refresh'[k].family = q.row.family
          /\ ~refresh'[k].revoked
      BY <1>1, <1>4, TtlAssumption DEF IInv, TypeOK, NewRefresh, RefreshRow
    <2>2. /\ access'[k] \in AccessRow
          /\ access'[k].client = q.client /\ access'[k].user = q.row.user
          /\ access'[k].scopes = q.scopes
      BY <1>1, <1>4, TtlAssumption DEF IInv, TypeOK, NewAccess, AccessRow
    <2>3. /\ refresh'[q.token] \in RefreshRow
          /\ refresh'[q.token].client = q.row.client
          /\ refresh'[q.token].user = q.row.user
          /\ refresh'[q.token].scopes = q.row.scopes
          /\ refresh'[q.token].family = q.row.family
          /\ refresh'[q.token].revoked
      BY <1>1, <1>4 DEF RefreshRow
    <2>4. DOMAIN refresh' = TokenId /\ DOMAIN access' = TokenId
      BY DEF TypeOK
    <2>5. \A v \in {Unissued, Deleted} : v \notin RefreshRow /\ v \notin AccessRow
      BY RowAssumption
    <2>6. k \in Rows(refresh') /\ k \in Rows(access') /\ q.token \in Rows(refresh')
      BY <1>1, <2>1, <2>2, <2>3, <2>4, <2>5 DEF Rows
    <2>7. k \in Live(refresh') /\ q.token \notin Live(refresh')
      BY <2>1, <2>3, <2>6 DEF Live
    <2>8. QED
      BY <2>1, <2>2, <2>3, <2>5, <2>6, <2>7
  <1>6. /\ \A j \in TokenId \ {k, q.token} :
               /\ j \in Rows(refresh') <=> j \in Rows(refresh)
               /\ j \in Live(refresh') <=> j \in Live(refresh)
        /\ \A j \in TokenId \ {k} :
               /\ j \in Rows(access') <=> j \in Rows(access)
               /\ j \in Live(access') <=> j \in Live(access)
        /\ Rows(codes') = Rows(codes)
        /\ Rows(refresh') \subseteq TokenId /\ Rows(access') \subseteq TokenId
        /\ Rows(codes') \subseteq Code
        /\ Live(refresh') \subseteq TokenId
    BY <1>4 DEF IInv, TypeOK, Rows, Live
  <1>7. Provenance'
    <2>1. \A c \in Code : /\ codes'[c] # Unissued <=> granted'[c] # Unissued
                          /\ c \in Rows(codes') => Within(codes[c], c)'
      BY <1>4, <1>6 DEF IInv, Provenance, Within
    <2>2. \A j \in TokenId : refresh'[j] # Unissued <=> origin'[j] # Unissued
      BY <1>1, <1>3, <1>4, <1>5, RowAssumption DEF IInv, Provenance
    <2>3. \A j \in TokenId : origin'[j] # Unissued =>
              /\ access'[j] # Unissued
              /\ granted'[origin'[j]] # Unissued
              /\ j \in Rows(access') => access'[j].user # NoUser
      BY <1>1, <1>3, <1>4, <1>5, <1>6, RowAssumption DEF IInv, Provenance
    <2>4. \A f \in killed' : origin'[f] # Unissued
      BY <1>3, <1>4, RowAssumption DEF IInv, TypeOK, Provenance
    <2>5. QED
      BY <2>1, <2>2, <2>3, <2>4 DEF Provenance
  <1>8. Lineage'
    <2>1. ASSUME NEW j \in Rows(refresh')
          PROVE  /\ origin'[j] \in Code
                 /\ Within(refresh[j], origin[j])'
                 /\ origin'[refresh'[j].family] = origin'[j]
      <3>0. /\ Within(q.row, origin[q.token]) /\ q.scopes \subseteq q.row.scopes
            /\ q.client = q.row.client /\ origin'[q.token] = origin[q.token]
            /\ origin'[q.row.family] = origin[q.token]
        BY <1>1, <1>2, <1>3, <1>4 DEF SnapshotOK
      <3>1. CASE j = k
        <4>1. Within(refresh'[k], origin[q.token])
          BY <1>5, <3>0 DEF Within
        <4>2. QED
          BY <3>0, <3>1, <4>1, <1>3, <1>4, <1>5 DEF Within
      <3>2. CASE j = q.token
        <4>1. Within(refresh'[q.token], origin[q.token])
          BY <1>5, <3>0 DEF Within
        <4>2. QED
          BY <3>0, <3>2, <4>1, <1>3, <1>4, <1>5 DEF Within
      <3>3. CASE j \in TokenId \ {k, q.token}
        <4>1. j \in Rows(refresh) /\ refresh'[j] = refresh[j]
          BY <3>3, <1>4, <1>6
        <4>2. refresh[j].family # k
          BY <4>1, <1>3, RowAssumption DEF IInv, Lineage
        <4>3. refresh[j].family \in TokenId
          BY <4>1, <3>3 DEF IInv, TypeOK, Rows, RefreshRow
        <4>4. QED
          BY <3>3, <4>1, <4>2, <4>3, <1>4 DEF IInv, Lineage, Within
      <3>4. QED
        BY <3>1, <3>2, <3>3, <1>6
    <2>2. ASSUME NEW j \in Rows(access')
          PROVE  IF access'[j].user = NoUser
                 THEN access'[j].scopes \subseteq AllowedScopes[access'[j].client]
                 ELSE origin'[j] \in Code /\ Within(access[j], origin[j])'
      <3>1. CASE j = k
        <4>1. /\ access'[k].user \in User /\ access'[k].user # NoUser
              /\ origin'[k] = origin[q.token] /\ origin'[k] \in Code
              /\ granted' = granted
          BY <1>1, <1>3, <1>4, <1>5, RowAssumption
        <4>2. Within(access[k], origin[k])'
          BY <4>1, <1>2, <1>1, <1>5 DEF SnapshotOK, Within
        <4>3. QED
          BY <3>1, <4>1, <4>2
      <3>2. CASE j \in TokenId \ {k}
        <4>1. /\ j \in Rows(access) /\ access'[j] = access[j]
              /\ origin'[j] = origin[j] /\ granted' = granted
          BY <3>2, <1>4, <1>6
        <4>2. QED
          BY <4>1 DEF IInv, Lineage, Within
      <3>3. QED
        BY <3>1, <3>2, <1>6
    <2>3. QED
      BY <2>1, <2>2 DEF Lineage
  <1>9. CodeSpentWithTokens'
    <2>1. \A c \in Code :
              (\E j \in TokenId : origin'[j] = c) <=> (\E j \in TokenId : origin[j] = c)
      BY <1>1, <1>3, <1>4, RowAssumption
    <2>2. QED
      BY <2>1, <1>4, <1>6 DEF IInv, CodeSpentWithTokens
  <1>10. OneLiveTokenPerLogin'
    <2>1. SUFFICES ASSUME NEW i \in Live(refresh') \ late', NEW j \in Live(refresh') \ late',
                          origin'[i] = origin'[j]
                   PROVE  i = j
      BY DEF OneLiveTokenPerLogin
    <2>2. \A m \in Live(refresh') \ late' :
              \/ m = k /\ q.token \in Live(refresh) \ late
              \/ m \in Live(refresh) \ late /\ m # k /\ m # q.token
      BY <1>4, <1>5, <1>6
    <2>3. \A m \in Live(refresh') \ late' : m # k => origin'[m] = origin[m]
      BY <1>4, <1>6
    <2>4. QED
      BY <2>1, <2>2, <2>3, <1>4 DEF IInv, OneLiveTokenPerLogin
  <1>11. RevokedFamilyOnlyLate'
    <2>1. SUFFICES ASSUME NEW j \in Live(refresh'), refresh'[j].family \in killed'
                   PROVE  j \in late'
      BY DEF RevokedFamilyOnlyLate
    <2>2. CASE j = k
      <3>1. q.row.family \in killed
        BY <2>1, <2>2, <1>4, <1>5
      <3>2. q.token \in Live(refresh) => q.token \in Rows(refresh)
        BY DEF Live
      <3>3. q.token \in Live(refresh) => q.token \in late
        BY <3>1, <3>2, <1>1, <1>2 DEF IInv, RevokedFamilyOnlyLate, SnapshotOK
      <3>4. QED
        BY <2>2, <3>3, <1>4
    <2>3. CASE j # k
      BY <2>1, <2>3, <1>4, <1>5, <1>6 DEF IInv, RevokedFamilyOnlyLate
    <2>4. QED
      BY <2>2, <2>3
  <1>12. NoOrphans'
    BY <1>1, <1>4, <1>5, <1>6 DEF IInv, NoOrphans
  <1>13. Forward
    <2>1. \A c \in Code :
              /\ granted[c] # Unissued => granted'[c] = granted[c]
              /\ codes[c] # Unissued =>
                     /\ codes'[c] # Unissued
                     /\ c \in Rows(codes') /\ ~codes'[c].used
                            => c \in Rows(codes) /\ ~codes[c].used
      BY <1>4, <1>6
    <2>2. access[k] = Unissued /\ refresh[k] = Unissued
      BY DEF RotateCommit
    <2>3. \A j \in TokenId : access[j] # Unissued =>
              (j \in Live(access') => j \in Live(access))
      BY <2>2, <1>6
    <2>4. ASSUME NEW j \in TokenId, refresh[j] # Unissued
          PROVE  /\ origin'[j] = origin[j]
                 /\ j \in Live(refresh') => j \in Live(refresh)
                 /\ j \in Rows(refresh') =>
                       \/ j \in Rows(refresh) /\ refresh'[j].family = refresh[j].family
                       \/ \E s \in Request :
                             /\ req[s].op = "rotate" /\ req[s].token = j
                             /\ refresh'[j].family = req[s].row.family
      BY <2>2, <2>4, <1>1, <1>4, <1>5, <1>6
    <2>5. QED
      BY <2>1, <2>3, <2>4 DEF Forward
  <1>14. QED
    BY <1>7, <1>8, <1>9, <1>10, <1>11, <1>12, <1>13 DEF DataInv

\* A redemption starts a family of its own, and writes its code back used.
LEMMA RedeemCommitData ==
    ASSUME IInv, TypeOK', NEW r \in Request, NEW k \in TokenId, RedeemCommit(r, k)
    PROVE  DataInv' /\ Forward
  <1> DEFINE q == req[r]
  <1>1. /\ q \in ReqState /\ q.op = "redeem"
        /\ q.client \in Client /\ q.code \in Code /\ q.row \in CodeRow
        /\ q.row.user \in User /\ q.row.scopes \in SUBSET Scope
    BY ReqFields DEF IInv, TypeOK, RedeemCommit, CodeRow
  <1>2. SnapshotOK(q)
    BY DEF IInv, Snapshots
  <1>3. /\ origin[k] = Unissued /\ q.code # Unissued
        /\ codes[q.code] # Unissued /\ granted[q.code] # Unissued
        /\ access[k] = Unissued /\ refresh[k] = Unissued
        /\ \A j \in TokenId : origin[j] # q.code \/ refresh[j] # Unissued
    BY <1>1, <1>2, RowAssumption
       DEF IInv, TypeOK, Provenance, SnapshotOK, RedeemCommit
  <1>4. /\ refresh'[k] = NewRefresh(q.client, q.row.user, q.row.scopes, k)
        /\ codes'[q.code] = [q.row EXCEPT !.used = TRUE]
        /\ access'[k] = NewAccess(q.client, q.row.user, q.row.scopes)
        /\ origin'[k] = q.code
        /\ \A j \in TokenId : j # k =>
               access'[j] = access[j] /\ origin'[j] = origin[j] /\ refresh'[j] = refresh[j]
        /\ \A c \in Code : c # q.code => codes'[c] = codes[c]
        /\ UNCHANGED <<now, users, clients, granted, killed>>
        /\ late' = IF q.code \in Rows(codes) /\ ~codes[q.code].used
                   THEN late ELSE late \cup {k}
        /\ q.row.user \in users
    BY <1>1 DEF IInv, TypeOK, RedeemCommit
  <1>5. /\ k \in Rows(refresh') /\ k \in Live(refresh') /\ k \in Rows(access')
        /\ refresh'[k].client = q.client /\ refresh'[k].user = q.row.user
        /\ refresh'[k].scopes = q.row.scopes /\ refresh'[k].family = k
        /\ access'[k].client = q.client /\ access'[k].user = q.row.user
        /\ access'[k].scopes = q.row.scopes
        /\ q.code \in Rows(codes') /\ codes'[q.code].used
        /\ codes'[q.code].client = q.row.client
        /\ codes'[q.code].user = q.row.user
        /\ codes'[q.code].scopes = q.row.scopes
        /\ access'[k] # Unissued /\ refresh'[k] # Unissued
        /\ codes'[q.code] # Unissued
    <2>1. /\ refresh'[k] \in RefreshRow
          /\ refresh'[k].client = q.client /\ refresh'[k].user = q.row.user
          /\ refresh'[k].scopes = q.row.scopes /\ refresh'[k].family = k
          /\ ~refresh'[k].revoked
      BY <1>1, <1>4, TtlAssumption DEF IInv, TypeOK, NewRefresh, RefreshRow
    <2>2. /\ access'[k] \in AccessRow
          /\ access'[k].client = q.client /\ access'[k].user = q.row.user
          /\ access'[k].scopes = q.row.scopes
      BY <1>1, <1>4, TtlAssumption DEF IInv, TypeOK, NewAccess, AccessRow
    <2>3. /\ codes'[q.code] \in CodeRow
          /\ codes'[q.code].client = q.row.client
          /\ codes'[q.code].user = q.row.user
          /\ codes'[q.code].scopes = q.row.scopes
          /\ codes'[q.code].used
      BY <1>1, <1>4 DEF CodeRow
    <2>4. DOMAIN refresh' = TokenId /\ DOMAIN access' = TokenId /\ DOMAIN codes' = Code
      BY DEF TypeOK
    <2>5. \A v \in {Unissued, Deleted} :
              v \notin RefreshRow /\ v \notin AccessRow /\ v \notin CodeRow
      BY RowAssumption
    <2>6. k \in Rows(refresh') /\ k \in Rows(access') /\ q.code \in Rows(codes')
      BY <1>1, <2>1, <2>2, <2>3, <2>4, <2>5 DEF Rows
    <2>7. k \in Live(refresh')
      BY <2>1, <2>6 DEF Live
    <2>8. QED
      BY <2>1, <2>2, <2>3, <2>5, <2>6, <2>7
  <1>6. /\ \A j \in TokenId \ {k} :
               /\ j \in Rows(refresh') <=> j \in Rows(refresh)
               /\ j \in Live(refresh') <=> j \in Live(refresh)
               /\ j \in Rows(access') <=> j \in Rows(access)
               /\ j \in Live(access') <=> j \in Live(access)
        /\ \A c \in Code \ {q.code} : c \in Rows(codes') <=> c \in Rows(codes)
        /\ Rows(refresh') \subseteq TokenId /\ Rows(access') \subseteq TokenId
        /\ Rows(codes') \subseteq Code /\ Rows(codes) \subseteq Code
        /\ Live(refresh') \subseteq TokenId
    BY <1>4 DEF IInv, TypeOK, TypeOK, Rows, Live
  <1>7. Provenance'
    <2>1. ASSUME NEW c \in Code
          PROVE  /\ codes'[c] # Unissued <=> granted'[c] # Unissued
                 /\ c \in Rows(codes') => Within(codes[c], c)'
      <3>1. CASE c = q.code
        BY <3>1, <1>2, <1>1, <1>3, <1>4, <1>5 DEF SnapshotOK, Within
      <3>2. CASE c # q.code
        BY <3>2, <1>4, <1>6 DEF IInv, Provenance, Within
      <3>3. QED
        BY <3>1, <3>2
    <2>2. \A j \in TokenId : refresh'[j] # Unissued <=> origin'[j] # Unissued
      BY <1>1, <1>3, <1>4, <1>5 DEF IInv, Provenance
    <2>3. \A j \in TokenId : origin'[j] # Unissued =>
              /\ access'[j] # Unissued
              /\ granted'[origin'[j]] # Unissued
              /\ j \in Rows(access') => access'[j].user # NoUser
      BY <1>1, <1>3, <1>4, <1>5, <1>6, RowAssumption DEF IInv, Provenance
    <2>4. \A f \in killed' : origin'[f] # Unissued
      BY <1>3, <1>4 DEF IInv, TypeOK, Provenance
    <2>5. QED
      BY <2>1, <2>2, <2>3, <2>4 DEF Provenance
  <1>8. Lineage'
    <2>1. ASSUME NEW j \in Rows(refresh')
          PROVE  /\ origin'[j] \in Code
                 /\ Within(refresh[j], origin[j])'
                 /\ origin'[refresh'[j].family] = origin'[j]
      <3>1. CASE j = k
        BY <3>1, <1>1, <1>2, <1>3, <1>4, <1>5 DEF SnapshotOK, Within
      <3>2. CASE j \in TokenId \ {k}
        <4>1. j \in Rows(refresh) /\ refresh'[j] = refresh[j]
          BY <3>2, <1>4, <1>6
        <4>2. refresh[j].family # k
          BY <4>1, <1>3, RowAssumption DEF IInv, Lineage
        <4>3. refresh[j].family \in TokenId
          BY <4>1, <3>2 DEF IInv, TypeOK, Rows, RefreshRow
        <4>4. QED
          BY <3>2, <4>1, <4>2, <4>3, <1>4 DEF IInv, Lineage, Within
      <3>3. QED
        BY <3>1, <3>2, <1>6
    <2>2. ASSUME NEW j \in Rows(access')
          PROVE  IF access'[j].user = NoUser
                 THEN access'[j].scopes \subseteq AllowedScopes[access'[j].client]
                 ELSE origin'[j] \in Code /\ Within(access[j], origin[j])'
      <3>1. CASE j = k
        BY <3>1, <1>1, <1>2, <1>3, <1>4, <1>5, RowAssumption DEF SnapshotOK, Within
      <3>2. CASE j \in TokenId \ {k}
        <4>1. /\ j \in Rows(access) /\ access'[j] = access[j]
              /\ origin'[j] = origin[j] /\ granted' = granted
          BY <3>2, <1>4, <1>6
        <4>2. QED
          BY <4>1 DEF IInv, Lineage, Within
      <3>3. QED
        BY <3>1, <3>2, <1>6
    <2>3. QED
      BY <2>1, <2>2 DEF Lineage
  <1>9. CodeSpentWithTokens'
    <2>1. ASSUME NEW c \in Rows(codes')
          PROVE  codes'[c].used <=> \E j \in TokenId : origin'[j] = c
      <3>1. CASE c = q.code
        BY <3>1, <1>4, <1>5
      <3>2. CASE c # q.code
        <4>1. (\E j \in TokenId : origin'[j] = c) <=> (\E j \in TokenId : origin[j] = c)
          <5>1. origin[k] # c
            BY <2>1, <1>3, <1>6, RowAssumption
          <5>2. QED
            BY <3>2, <5>1, <1>4
        <4>2. QED
          BY <3>2, <4>1, <1>4, <1>6 DEF IInv, CodeSpentWithTokens
      <3>3. QED
        BY <3>1, <3>2
    <2>2. QED
      BY <2>1 DEF CodeSpentWithTokens
  <1>10. OneLiveTokenPerLogin'
    <2>1. SUFFICES ASSUME NEW i \in Live(refresh') \ late', NEW j \in Live(refresh') \ late',
                          origin'[i] = origin'[j]
                   PROVE  i = j
      BY DEF OneLiveTokenPerLogin
    <2>2. \A m \in Live(refresh') \ late' :
              \/ m = k /\ q.code \in Rows(codes) /\ ~codes[q.code].used
              \/ m \in Live(refresh) \ late /\ m \in TokenId \ {k}
      BY <1>4, <1>5, <1>6
    <2>3. q.code \in Rows(codes) /\ ~codes[q.code].used =>
              \A m \in TokenId : origin[m] # q.code
      BY DEF IInv, CodeSpentWithTokens
    <2>4. QED
      BY <2>1, <2>2, <2>3, <1>4 DEF IInv, OneLiveTokenPerLogin
  <1>11. RevokedFamilyOnlyLate'
    <2>1. k \notin killed
      BY <1>3 DEF IInv, Provenance
    <2>2. QED
      BY <2>1, <1>4, <1>5, <1>6 DEF IInv, RevokedFamilyOnlyLate
  <1>12. NoOrphans'
    <2>1. ASSUME NEW c \in Rows(codes') PROVE codes'[c].user \in users'
      BY <1>4, <1>5, <1>6 DEF IInv, NoOrphans
    <2>2. ASSUME NEW j \in Rows(refresh') PROVE refresh'[j].user \in users'
      BY <1>4, <1>5, <1>6 DEF IInv, NoOrphans
    <2>3. ASSUME NEW j \in Rows(access') PROVE access'[j].user \in users' \cup {NoUser}
      BY <1>4, <1>5, <1>6 DEF IInv, NoOrphans
    <2>4. QED
      BY <2>1, <2>2, <2>3 DEF NoOrphans
  <1>13. Forward
    BY <1>1, <1>3, <1>4, <1>5, <1>6 DEF Forward
  <1>14. QED
    BY <1>7, <1>8, <1>9, <1>10, <1>11, <1>12, <1>13 DEF DataInv

\* A login adds a code and what it grants, and may insert its user again.
LEMMA IssueAuthCodeData ==
    ASSUME IInv, TypeOK', NEW r \in Request, NEW c \in Code, IssueAuthCode(r, c)
    PROVE  DataInv' /\ Forward
  <1> DEFINE q == req[r]
  <1>1. /\ q \in ReqState /\ q.op = "login"
        /\ q.user \in User /\ q.client \in Client /\ q.scopes \in SUBSET Scope
    BY ReqFields DEF IInv, TypeOK, IssueAuthCode
  <1>2. /\ codes[c] = Unissued /\ granted[c] = Unissued
        /\ \A k \in TokenId : origin[k] # c
        /\ \A k \in TokenId : origin[k] # Unissued => granted[origin[k]] # Unissued
    BY RowAssumption DEF IInv, Provenance, IssueAuthCode
  <1>3. /\ codes'[c] \in CodeRow /\ ~codes'[c].used
        /\ codes'[c].client = q.client /\ codes'[c].user = q.user
        /\ codes'[c].scopes = q.scopes
        /\ granted'[c] \in Grant
        /\ granted'[c].client = q.client /\ granted'[c].user = q.user
        /\ granted'[c].scopes = q.scopes
        /\ \A d \in Code \ {c} : codes'[d] = codes[d] /\ granted'[d] = granted[d]
        /\ users' = users \cup {q.user}
        /\ UNCHANGED <<access, refresh, origin, late, killed>>
    BY <1>1, TtlAssumption DEF IInv, TypeOK, IssueAuthCode, CodeRow, Grant
  <1>4. /\ c \in Rows(codes') /\ codes'[c] # Unissued /\ granted'[c] # Unissued
        /\ \A d \in Code \ {c} : d \in Rows(codes') <=> d \in Rows(codes)
        /\ Rows(codes') \subseteq Code
        /\ Rows(access) \subseteq TokenId /\ Rows(refresh) \subseteq TokenId
        /\ Rows(access') = Rows(access) /\ Rows(refresh') = Rows(refresh)
        /\ Live(access') = Live(access) /\ Live(refresh') = Live(refresh)
    BY <1>3, RowAssumption DEF IInv, TypeOK, Rows, Live
  <1>5. Provenance'
    <2>1. \A d \in Code : /\ codes'[d] # Unissued <=> granted'[d] # Unissued
                          /\ d \in Rows(codes') => Within(codes[d], d)'
      BY <1>1, <1>3, <1>4 DEF IInv, Provenance, Within
    <2>2. QED
      BY <2>1, <1>2, <1>3, <1>4 DEF IInv, TypeOK, Provenance
  <1>6. Lineage'
    BY <1>2, <1>3, <1>4 DEF IInv, Lineage, Within
  <1>7. CodeSpentWithTokens'
    BY <1>2, <1>3, <1>4 DEF IInv, CodeSpentWithTokens
  <1>8. OneLiveTokenPerLogin' /\ RevokedFamilyOnlyLate' /\ NoOrphans'
    BY <1>3, <1>4 DEF IInv, OneLiveTokenPerLogin, RevokedFamilyOnlyLate, NoOrphans
  <1>9. Forward
    BY <1>2, <1>3, <1>4 DEF Forward
  <1>10. QED
    BY <1>5, <1>6, <1>7, <1>8, <1>9 DEF DataInv

\* An access token without a user descends from no code.
LEMMA ClientCredentialsCommitData ==
    ASSUME IInv, TypeOK', NEW r \in Request, NEW k \in TokenId,
           ClientCredentialsCommit(r, k)
    PROVE  DataInv' /\ Forward
  <1> DEFINE q == req[r]
  <1>1. /\ q \in ReqState /\ q.op = "client"
        /\ q.client \in Client /\ q.scopes \in SUBSET Scope
        /\ q.scopes \subseteq AllowedScopes[q.client]
    BY ReqFields DEF IInv, TypeOK, ClientCredentialsCommit, Snapshots, SnapshotOK
  <1>2. /\ access'[k] \in AccessRow
        /\ access'[k].client = q.client /\ access'[k].user = NoUser
        /\ access'[k].scopes = q.scopes
        /\ access[k] = Unissued /\ refresh[k] = Unissued /\ origin[k] = Unissued
        /\ \A j \in TokenId : j # k => access'[j] = access[j]
        /\ UNCHANGED <<users, clients, codes, refresh, granted, origin, late, killed>>
    BY <1>1, TtlAssumption
       DEF IInv, TypeOK, Provenance, ClientCredentialsCommit, NewAccess, AccessRow, history
  <1>3. /\ k \in Rows(access') /\ access'[k] # Unissued
        /\ \A j \in TokenId \ {k} : /\ j \in Rows(access') <=> j \in Rows(access)
                                    /\ j \in Live(access') <=> j \in Live(access)
        /\ Rows(access') \subseteq TokenId
        /\ Rows(codes') = Rows(codes) /\ Rows(refresh') = Rows(refresh)
        /\ Live(refresh') = Live(refresh)
    BY <1>2, RowAssumption DEF IInv, TypeOK, Rows, Live
  <1>4. Provenance'
    <2>1. \A c \in Code : /\ codes'[c] # Unissued <=> granted'[c] # Unissued
                          /\ c \in Rows(codes') => Within(codes[c], c)'
      BY <1>2, <1>3 DEF IInv, Provenance, Within
    <2>2. \A j \in TokenId : origin'[j] # Unissued =>
              /\ access'[j] # Unissued
              /\ granted'[origin'[j]] # Unissued
              /\ j \in Rows(access') => access'[j].user # NoUser
      BY <1>2, <1>3 DEF IInv, Provenance
    <2>3. QED
      BY <2>1, <2>2, <1>2 DEF IInv, Provenance
  <1>5. Lineage'
    <2>1. \A j \in Rows(refresh') :
              /\ origin'[j] \in Code
              /\ Within(refresh[j], origin[j])'
              /\ origin'[refresh'[j].family] = origin'[j]
      BY <1>2, <1>3 DEF IInv, Lineage, Within
    <2>2. ASSUME NEW j \in Rows(access')
          PROVE  IF access'[j].user = NoUser
                 THEN access'[j].scopes \subseteq AllowedScopes[access'[j].client]
                 ELSE origin'[j] \in Code /\ Within(access[j], origin[j])'
      <3>1. CASE j = k
        BY <3>1, <1>1, <1>2
      <3>2. CASE j \in TokenId \ {k}
        BY <3>2, <1>2, <1>3 DEF IInv, Lineage, Within
      <3>3. QED
        BY <3>1, <3>2, <1>3
    <2>3. QED
      BY <2>1, <2>2 DEF Lineage
  <1>6. CodeSpentWithTokens' /\ OneLiveTokenPerLogin' /\ RevokedFamilyOnlyLate'
    BY <1>2, <1>3
       DEF IInv, CodeSpentWithTokens, OneLiveTokenPerLogin, RevokedFamilyOnlyLate
  <1>7. NoOrphans'
    BY <1>2, <1>3 DEF IInv, NoOrphans
  <1>8. Forward
    BY <1>2, <1>3 DEF Forward
  <1>9. QED
    BY <1>4, <1>5, <1>6, <1>7, <1>8 DEF DataInv

\* A step that only sets revoked on tokens, possibly a whole family at once,
\* and only adds users.
LEMMA RevokingStepData ==
    ASSUME IInv, TypeOK',
           Rows(access') = Rows(access), Live(access') \subseteq Live(access),
           Rows(refresh') = Rows(refresh), Live(refresh') \subseteq Live(refresh),
           \A k \in TokenId : /\ access'[k] = Unissued <=> access[k] = Unissued
                              /\ refresh'[k] = Unissued <=> refresh[k] = Unissued,
           \A k \in Rows(access) : /\ access'[k].client = access[k].client
                                   /\ access'[k].user = access[k].user
                                   /\ access'[k].scopes = access[k].scopes,
           \A k \in Rows(refresh) : /\ refresh'[k].client = refresh[k].client
                                    /\ refresh'[k].user = refresh[k].user
                                    /\ refresh'[k].scopes = refresh[k].scopes
                                    /\ refresh'[k].family = refresh[k].family,
           UNCHANGED <<codes, granted, origin, late>>,
           users \subseteq users',
           \A f \in killed' \ killed : /\ origin[f] # Unissued
                                       /\ \A k \in Live(refresh') : refresh[k].family # f
    PROVE  DataInv' /\ Forward
  <1>1. /\ Rows(access) \subseteq TokenId /\ Rows(refresh) \subseteq TokenId
        /\ Live(access) \subseteq Rows(access) /\ Live(refresh) \subseteq Rows(refresh)
        /\ Rows(codes') = Rows(codes)
    BY DEF IInv, TypeOK, Rows, Live
  <1>2. Provenance'
    BY <1>1 DEF IInv, Provenance, Within
  <1>3. Lineage'
    BY <1>1 DEF IInv, Lineage, Within
  <1>4. CodeSpentWithTokens' /\ OneLiveTokenPerLogin'
    BY <1>1 DEF IInv, CodeSpentWithTokens, OneLiveTokenPerLogin
  <1>5. RevokedFamilyOnlyLate'
    BY <1>1 DEF IInv, RevokedFamilyOnlyLate
  <1>6. NoOrphans'
    BY <1>1 DEF IInv, NoOrphans
  <1>7. Forward
    BY <1>1 DEF Forward
  <1>8. QED
    BY <1>2, <1>3, <1>4, <1>5, <1>6, <1>7 DEF DataInv

\* The family-wide UPDATE leaves nothing alive in the family it records.
LEMMA RevokeFamilyData ==
    ASSUME IInv, TypeOK', NEW r \in Request, RevokeFamily(r)
    PROVE  DataInv' /\ Forward
  <1>1. req[r].family \in TokenId /\ origin[req[r].family] # Unissued
    BY ReqFields DEF IInv, TypeOK, Snapshots, SnapshotOK, RevokeFamily
  <1>2. /\ Rows(refresh') = Rows(refresh)
        /\ Live(refresh') = Live(refresh) \ Family(req[r].family)
        /\ \A k \in TokenId : refresh'[k] = Unissued <=> refresh[k] = Unissued
        /\ \A k \in Rows(refresh) : /\ refresh'[k].client = refresh[k].client
                                    /\ refresh'[k].user = refresh[k].user
                                    /\ refresh'[k].scopes = refresh[k].scopes
                                    /\ refresh'[k].family = refresh[k].family
    <2>1. refresh \in [TokenId -> RefreshRow \cup {Unissued, Deleted}]
      BY DEF IInv, TypeOK
    <2>2. refresh' = RevokeRows(refresh, Family(req[r].family))
      BY DEF RevokeFamily
    <2>3. QED
      BY <2>1, <2>2, RevokeRefreshRows
  <1>3. \A f \in killed' \ killed : /\ origin[f] # Unissued
                                    /\ \A k \in Live(refresh') : refresh[k].family # f
    BY <1>1, <1>2 DEF RevokeFamily, Family, Live
  <1>4. UNCHANGED <<users, codes, access, granted, origin, late>>
    BY DEF RevokeFamily
  <1>5. Rows(access') = Rows(access) /\ Live(access') = Live(access)
    BY <1>4 DEF Rows, Live
  <1>6. QED
    BY <1>2, <1>3, <1>4, <1>5, RevokingStepData

\* The revocation of one access token.
LEMMA RevokeAccessData ==
    ASSUME IInv, TypeOK', NEW k \in TokenId, RevokeAccess(k)
    PROVE  DataInv' /\ Forward
  <1>1. /\ Rows(access') = Rows(access) /\ Live(access') \subseteq Live(access)
        /\ \A j \in TokenId : access'[j] = Unissued <=> access[j] = Unissued
        /\ \A j \in Rows(access) : /\ access'[j].client = access[j].client
                                   /\ access'[j].user = access[j].user
                                   /\ access'[j].scopes = access[j].scopes
    <2>1. access \in [TokenId -> AccessRow \cup {Unissued, Deleted}]
      BY DEF IInv, TypeOK
    <2>2. access' = RevokeRows(access, {k})
      BY DEF RevokeAccess
    <2>3. QED
      BY <2>1, <2>2, RevokeAccessRows
  <1>2. UNCHANGED <<users, codes, refresh, history>>
    BY DEF RevokeAccess
  <1>3. /\ Rows(refresh') = Rows(refresh) /\ Live(refresh') = Live(refresh)
        /\ UNCHANGED <<granted, origin, late, killed>>
    BY <1>2 DEF Rows, Live, history
  <1>4. QED
    BY <1>1, <1>2, <1>3, RevokingStepData

\* A withdrawal revokes the tokens its statements saw, of any family.
LEMMA WithdrawCommitData ==
    ASSUME IInv, TypeOK', NEW r \in Request, WithdrawCommit(r)
    PROVE  DataInv' /\ Forward
  <1>1. /\ Rows(access') = Rows(access) /\ Live(access') \subseteq Live(access)
        /\ \A j \in TokenId : access'[j] = Unissued <=> access[j] = Unissued
        /\ \A j \in Rows(access) : /\ access'[j].client = access[j].client
                                   /\ access'[j].user = access[j].user
                                   /\ access'[j].scopes = access[j].scopes
    <2>1. access \in [TokenId -> AccessRow \cup {Unissued, Deleted}]
      BY DEF IInv, TypeOK
    <2>2. access' = RevokeRows(access, req[r].access)
      BY DEF WithdrawCommit
    <2>3. QED
      BY <2>1, <2>2, RevokeAccessRows
  <1>2. /\ Rows(refresh') = Rows(refresh) /\ Live(refresh') \subseteq Live(refresh)
        /\ \A k \in TokenId : refresh'[k] = Unissued <=> refresh[k] = Unissued
        /\ \A k \in Rows(refresh) : /\ refresh'[k].client = refresh[k].client
                                    /\ refresh'[k].user = refresh[k].user
                                    /\ refresh'[k].scopes = refresh[k].scopes
                                    /\ refresh'[k].family = refresh[k].family
    <2>1. refresh \in [TokenId -> RefreshRow \cup {Unissued, Deleted}]
      BY DEF IInv, TypeOK
    <2>2. refresh' = RevokeRows(refresh, req[r].refresh)
      BY DEF WithdrawCommit
    <2>3. QED
      BY <2>1, <2>2, RevokeRefreshRows
  <1>3. /\ users \subseteq users'
        /\ UNCHANGED <<codes, granted, origin, late, killed>>
    BY DEF WithdrawCommit, history
  <1>4. QED
    BY <1>1, <1>2, <1>3, RevokingStepData

\* A deletion removes every code and token of its user along with the user.
LEMMA DeleteCommitData ==
    ASSUME IInv, TypeOK', NEW r \in Request, DeleteCommit(r)
    PROVE  DataInv' /\ Forward
  <1> DEFINE u == req[r].user
  <1>1. /\ Rows(access') \subseteq Rows(access) /\ Rows(refresh') \subseteq Rows(refresh)
        /\ Rows(codes') \subseteq Rows(codes)
        /\ \A k \in Rows(access') : access'[k] = access[k] /\ access[k].user # u
        /\ \A k \in Rows(refresh') : refresh'[k] = refresh[k] /\ refresh[k].user # u
        /\ \A c \in Rows(codes') : codes'[c] = codes[c] /\ codes[c].user # u
        /\ \A k \in TokenId : /\ access'[k] = Unissued <=> access[k] = Unissued
                              /\ refresh'[k] = Unissued <=> refresh[k] = Unissued
        /\ \A c \in Code : codes'[c] = Unissued <=> codes[c] = Unissued
        /\ users' = users \ {u}
        /\ UNCHANGED <<granted, origin, late, killed>>
    BY RowAssumption DEF IInv, TypeOK, DeleteCommit, ForeignKeys, DeleteRows, Rows, RowsOf,
                         history
  <1>2. /\ Live(access') \subseteq Live(access) /\ Live(refresh') \subseteq Live(refresh)
        /\ Rows(access) \subseteq TokenId /\ Rows(refresh) \subseteq TokenId
        /\ Live(refresh') \subseteq Rows(refresh')
        /\ Rows(codes) \subseteq Code
    BY <1>1 DEF IInv, TypeOK, Rows, Live
  <1>3. Provenance'
    BY <1>1, <1>2 DEF IInv, Provenance, Within
  <1>4. Lineage'
    BY <1>1, <1>2 DEF IInv, Lineage, Within
  <1>5. CodeSpentWithTokens' /\ OneLiveTokenPerLogin'
    BY <1>1, <1>2 DEF IInv, CodeSpentWithTokens, OneLiveTokenPerLogin
  <1>6. RevokedFamilyOnlyLate'
    BY <1>1, <1>2 DEF IInv, RevokedFamilyOnlyLate
  <1>7. NoOrphans'
    BY <1>1, <1>2, RowAssumption DEF IInv, NoOrphans
  <1>8. Forward
    BY <1>1, <1>2 DEF Forward
  <1>9. QED
    BY <1>3, <1>4, <1>5, <1>6, <1>7, <1>8 DEF DataInv

\* A request that has just read a refresh token holds the stored row.
FreshRotation(q) ==
    q.op = "rotate" => /\ q.token \in Rows(refresh)
                       /\ q.row.family = refresh[q.token].family

\* A step that moves the tables forward keeps a snapshot it does not touch no
\* more stale than SnapshotOK allows; the request it moves on is given.
LEMMA SnapshotsForward ==
    ASSUME IInv, DataInv', Forward,
           \A r \in Request :
              \/ req'[r] = req[r]
              \/ SnapshotOK(req[r])' /\ WithdrawalOK(req[r])' /\ FreshRotation(req'[r])
    PROVE  Snapshots'
  <1>1. ASSUME NEW r \in Request, req'[r] = req[r]
        PROVE  SnapshotOK(req[r])' /\ WithdrawalOK(req[r])'
    <2> DEFINE q == req[r]
    <2>0. /\ req'[r] = q /\ q \in ReqState /\ SnapshotOK(q) /\ WithdrawalOK(q)
      BY <1>1 DEF IInv, TypeOK, Snapshots
    <2>1. CASE q.op = "redeem"
      <3>1. q.code \in Code
        BY <2>0, <2>1, ReqFields
      <3>2. granted[q.code] # Unissued /\ codes[q.code] # Unissued
        BY <2>0, <2>1 DEF SnapshotOK, Within
      <3>3. granted'[q.code] = granted[q.code] /\ codes'[q.code] # Unissued
        BY <3>1, <3>2 DEF Forward
      <3>4. QED
        BY <2>0, <2>1, <3>3 DEF SnapshotOK, WithdrawalOK, Within
    <2>2. CASE q.op = "rotate"
      <3>1. q.token \in TokenId /\ q.row \in RefreshRow /\ q.row.family \in TokenId
        BY <2>0, <2>2, ReqFields DEF RefreshRow
      <3>2. /\ origin[q.token] \in Code /\ origin[q.row.family] = origin[q.token]
            /\ granted[origin[q.token]] # Unissued
            /\ refresh[q.token] # Unissued /\ refresh[q.row.family] # Unissued
        BY <2>0, <2>2, <3>1, RowAssumption DEF SnapshotOK, Within, IInv, Provenance
      <3>3. /\ origin'[q.token] = origin[q.token]
            /\ origin'[q.row.family] = origin[q.row.family]
            /\ granted'[origin[q.token]] = granted[origin[q.token]]
        BY <3>1, <3>2 DEF Forward
      <3>4. q.token \in Rows(refresh') => refresh'[q.token].family = q.row.family
        <4>1. ASSUME NEW s \in Request, req[s].op = "rotate", req[s].token = q.token
              PROVE  req[s].row.family = q.row.family
          BY <4>1, <2>2 DEF IInv, Snapshots, SnapshotsAgree
        <4>2. q.token \in Rows(refresh) => refresh[q.token].family = q.row.family
          BY <2>0, <2>2 DEF SnapshotOK
        <4>3. QED
          BY <3>1, <3>2, <4>1, <4>2 DEF Forward
      <3>5. /\ q.row.client = granted[origin[q.token]].client
            /\ q.row.user = granted[origin[q.token]].user
            /\ q.row.scopes \subseteq granted[origin[q.token]].scopes
            /\ q.client = q.row.client /\ q.scopes \subseteq q.row.scopes
        BY <2>0, <2>2 DEF SnapshotOK, Within
      <3>6. /\ granted'[origin'[q.token]] # Unissued
            /\ q.row.client = granted'[origin'[q.token]].client
            /\ q.row.user = granted'[origin'[q.token]].user
            /\ q.row.scopes \subseteq granted'[origin'[q.token]].scopes
            /\ origin'[q.token] \in Code /\ origin'[q.row.family] = origin'[q.token]
        BY <3>2, <3>3, <3>5
      <3>7. SnapshotOK(req[r])'
        BY <2>0, <2>2, <3>4, <3>5, <3>6 DEF SnapshotOK, Within
      <3>8. WithdrawalOK(req[r])'
        BY <2>0, <2>2 DEF WithdrawalOK
      <3>9. QED
        BY <3>7, <3>8
    <2>3. CASE q.op = "family"
      <3>1. q.family \in TokenId /\ origin[q.family] # Unissued
        BY <2>0, <2>3, ReqFields DEF SnapshotOK
      <3>2. origin'[q.family] # Unissued
        BY <3>1 DEF Forward, IInv, Provenance
      <3>3. QED
        BY <2>0, <2>3, <3>2 DEF SnapshotOK, WithdrawalOK
    <2>4. CASE q.op \in {"withdraw", "withdrawAccess", "withdrawRefresh"}
      <3>1. q.known \in SUBSET TokenId
        BY <2>0, <2>4, ReqFields
      <3>2. ASSUME NEW k \in q.known
            PROVE  /\ origin'[k] = origin[k] /\ origin[k] # Unissued
                   /\ granted'[origin[k]].user = q.user
                   /\ k \in Live(access') => k \in Live(access)
                   /\ k \in Live(refresh') => k \in Live(refresh)
        <4>1. origin[k] # Unissued /\ granted[origin[k]].user = q.user
          BY <2>0, <2>4 DEF WithdrawalOK
        <4>2. /\ k \in TokenId /\ access[k] # Unissued /\ refresh[k] # Unissued
              /\ origin[k] \in Code /\ granted[origin[k]] # Unissued
          BY <3>1, <4>1 DEF IInv, TypeOK, Provenance
        <4>3. QED
          BY <4>1, <4>2 DEF Forward
      <3>3. WithdrawalOK(req[r])'
        BY <2>0, <2>4, <3>2 DEF WithdrawalOK
      <3>4. QED
        BY <2>0, <2>4, <3>3 DEF SnapshotOK
    <2>5. CASE q.op \notin {"redeem", "rotate", "family", "withdraw",
                            "withdrawAccess", "withdrawRefresh"}
      BY <2>0, <2>5 DEF SnapshotOK, WithdrawalOK
    <2>6. QED
      BY <2>1, <2>2, <2>3, <2>4, <2>5
  <1>2. ASSUME NEW r \in Request, NEW s \in Request,
               req'[r].op = "rotate", req'[s].op = "rotate",
               req'[r].token = req'[s].token
        PROVE  req'[r].row.family = req'[s].row.family
    <2>1. \A p \in Request :
              (/\ req'[p].op = "rotate" /\ req'[p] = req[p]
               /\ req'[p].token \in Rows(refresh)) =>
                  refresh[req'[p].token].family = req'[p].row.family
      BY DEF IInv, Snapshots, SnapshotOK
    <2>2. CASE req'[r] = req[r] /\ req'[s] = req[s]
      BY <1>2, <2>2 DEF IInv, Snapshots, SnapshotsAgree
    <2>3. CASE FreshRotation(req'[r]) \/ FreshRotation(req'[s])
      BY <1>2, <2>1, <2>3 DEF FreshRotation
    <2>4. QED
      BY <2>2, <2>3
  <1>3. SnapshotsAgree'
    BY <1>2 DEF SnapshotsAgree
  <1>4. QED
    BY <1>1, <1>3 DEF Snapshots

\* Nothing is stored and nothing is in flight.
LEMMA InitIInv == Init => IInv
  <1> SUFFICES ASSUME Init PROVE IInv
    OBVIOUS
  <1>1. TypeOK
    BY InitTypeOK
  <1>2. /\ Rows(codes) = {} /\ Rows(access) = {} /\ Rows(refresh) = {}
        /\ Live(access) = {} /\ Live(refresh) = {}
    BY DEF Init, Rows, Live
  <1>3. Provenance
    BY <1>2 DEF Init, Provenance
  <1>4. Snapshots
    BY DEF Init, Idle, Snapshots, SnapshotOK, WithdrawalOK, SnapshotsAgree
  <1>5. Lineage /\ CodeSpentWithTokens /\ NoOrphans
    BY <1>2 DEF Lineage, CodeSpentWithTokens, NoOrphans
  <1>6. OneLiveTokenPerLogin /\ RevokedFamilyOnlyLate
    BY <1>2 DEF OneLiveTokenPerLogin, RevokedFamilyOnlyLate
  <1>7. QED
    BY <1>1, <1>3, <1>4, <1>5, <1>6 DEF IInv

\* What remains of a step is the request it moves on: it goes idle, or holds
\* what it has just read.
LEMMA StepOK ==
    ASSUME IInv, TypeOK', NEW r \in Request,
           LoginStep(r) \/ TokenStep(r) \/ RevokeStep(r) \/ UserStep(r) \/ Abort(r)
    PROVE  DataInv' /\ Forward /\ Snapshots'
  <1> USE DEF Start, Advance, Finish, Idle
  <1>1. DataInv /\ TypeOK /\ Snapshots
    BY DEF IInv, DataInv
  <1>2. SUFFICES /\ DataInv' /\ Forward
                 /\ \A s \in Request \ {r} : req'[s] = req[s]
                 /\ SnapshotOK(req[r])' /\ WithdrawalOK(req[r])' /\ FreshRotation(req'[r])
    BY SnapshotsForward
  <1>3. ASSUME req' = [req EXCEPT ![r] = [op |-> "idle"]]
        PROVE  /\ \A s \in Request \ {r} : req'[s] = req[s]
               /\ SnapshotOK(req[r])' /\ WithdrawalOK(req[r])' /\ FreshRotation(req'[r])
    <2>1. req'[r] = [op |-> "idle"] /\ \A s \in Request \ {r} : req'[s] = req[s]
      BY <1>1, <1>3 DEF TypeOK
    <2>2. QED
      BY <2>1 DEF SnapshotOK, WithdrawalOK, FreshRotation
  <1>4. CASE LoginStep(r)
    <2>1. ASSUME NEW u \in User, NEW c \in Client, NEW S \in SUBSET Scope, LoginRead(r, u, c, S)
          PROVE  /\ DataInv' /\ Forward
                 /\ \A s \in Request \ {r} : req'[s] = req[s]
                 /\ SnapshotOK(req[r])' /\ WithdrawalOK(req[r])' /\ FreshRotation(req'[r])
      <3>1. DataInv' /\ Forward
        BY <1>1, <2>1, ReadFrame DEF tables, LoginRead
      <3>2. /\ req'[r] = [op |-> "login", user |-> u, client |-> c, scopes |-> S]
            /\ \A s \in Request \ {r} : req'[s] = req[s]
        BY <1>1, <2>1 DEF LoginRead, TypeOK
      <3>3. QED
        BY <3>1, <3>2 DEF SnapshotOK, WithdrawalOK, FreshRotation
    <2>2. ASSUME NEW c \in Code, IssueAuthCode(r, c)
          PROVE  DataInv' /\ Forward /\ req' = [req EXCEPT ![r] = [op |-> "idle"]]
      BY <2>2, IssueAuthCodeData DEF IssueAuthCode
    <2>3. QED
      BY <1>3, <1>4, <2>1, <2>2 DEF LoginStep
  <1>5. CASE TokenStep(r)
    <2>1. ASSUME NEW code \in Code, NEW c \in Client, RedeemRead(r, code, c)
          PROVE  /\ DataInv' /\ Forward
                 /\ \A s \in Request \ {r} : req'[s] = req[s]
                 /\ SnapshotOK(req[r])' /\ WithdrawalOK(req[r])' /\ FreshRotation(req'[r])
      <3>1. DataInv' /\ Forward
        BY <1>1, <2>1, ReadFrame DEF tables, RedeemRead
      <3>2. /\ req'[r] = [op |-> "redeem", client |-> c, code |-> code, row |-> codes[code]]
            /\ \A s \in Request \ {r} : req'[s] = req[s]
        BY <1>1, <2>1 DEF RedeemRead, TypeOK
      <3>3. /\ codes[code] # Unissued /\ Within(codes[code], code)
            /\ codes[code].client = c
            /\ UNCHANGED <<codes, granted>>
        BY <2>1 DEF RedeemRead, Rows, IInv, Provenance, tables, history
      <3>4. SnapshotOK(req[r])'
        <4>1. /\ req'[r].op = "redeem" /\ req'[r].client = c
              /\ req'[r].code = code /\ req'[r].row = codes[code]
          BY <3>2
        <4>2. codes' = codes /\ granted' = granted
          BY <3>3
        <4>3. /\ codes'[code] # Unissued /\ granted'[code] # Unissued
              /\ codes[code].client = granted'[code].client
              /\ codes[code].user = granted'[code].user
              /\ codes[code].scopes \subseteq granted'[code].scopes
              /\ c = codes[code].client
          BY <3>3, <4>2 DEF Within
        <4>4. QED
          BY <4>1, <4>3 DEF SnapshotOK, Within
      <3>5. QED
        BY <3>1, <3>2, <3>4 DEF WithdrawalOK, FreshRotation
    <2>2. ASSUME NEW k \in TokenId, RedeemCommit(r, k)
          PROVE  DataInv' /\ Forward /\ req' = [req EXCEPT ![r] = [op |-> "idle"]]
      BY <2>2, RedeemCommitData DEF RedeemCommit
    <2>3. ASSUME NEW k \in TokenId, NEW c \in Client, NEW asked \in SUBSET Scope,
                 RotateRead(r, k, c, asked)
          PROVE  /\ DataInv' /\ Forward
                 /\ \A s \in Request \ {r} : req'[s] = req[s]
                 /\ SnapshotOK(req[r])' /\ WithdrawalOK(req[r])' /\ FreshRotation(req'[r])
      <3>1. DataInv' /\ Forward
        BY <1>1, <2>3, ReadFrame DEF tables, RotateRead
      <3>2. /\ req'[r] = [op |-> "rotate", client |-> c, token |-> k, row |-> refresh[k],
                          scopes |-> NarrowScopes(asked, refresh[k])]
            /\ \A s \in Request \ {r} : req'[s] = req[s]
        BY <1>1, <2>3 DEF RotateRead, TypeOK
      <3>3. /\ origin[k] \in Code /\ Within(refresh[k], origin[k])
            /\ origin[refresh[k].family] = origin[k]
            /\ refresh[k].client = c /\ k \in Rows(refresh)
            /\ UNCHANGED <<refresh, granted, origin>>
        BY <2>3 DEF RotateRead, IInv, Lineage, tables, history
      <3>4. NarrowScopes(asked, refresh[k]) \subseteq refresh[k].scopes
        BY DEF NarrowScopes
      <3>5. SnapshotOK(req[r])'
        <4>1. /\ req'[r].op = "rotate" /\ req'[r].client = c
              /\ req'[r].token = k /\ req'[r].row = refresh[k]
              /\ req'[r].scopes = NarrowScopes(asked, refresh[k])
          BY <3>2
        <4>2. refresh' = refresh /\ granted' = granted /\ origin' = origin
          BY <3>3
        <4>3. /\ origin'[k] \in Code /\ granted'[origin'[k]] # Unissued
              /\ refresh[k].client = granted'[origin'[k]].client
              /\ refresh[k].user = granted'[origin'[k]].user
              /\ refresh[k].scopes \subseteq granted'[origin'[k]].scopes
              /\ origin'[refresh[k].family] = origin'[k]
              /\ refresh'[k].family = refresh[k].family
              /\ c = refresh[k].client
          BY <3>3, <4>2 DEF Within
        <4>4. QED
          BY <3>4, <4>1, <4>3 DEF SnapshotOK, Within
      <3>6. QED
        BY <3>1, <3>2, <3>3, <3>5 DEF WithdrawalOK, FreshRotation
    <2>4. ASSUME NEW k \in TokenId, NEW c \in Client, DetectReuse(r, k, c)
          PROVE  /\ DataInv' /\ Forward
                 /\ \A s \in Request \ {r} : req'[s] = req[s]
                 /\ SnapshotOK(req[r])' /\ WithdrawalOK(req[r])' /\ FreshRotation(req'[r])
      <3>1. DataInv' /\ Forward
        BY <1>1, <2>4, ReadFrame DEF tables, DetectReuse
      <3>2. /\ req'[r] = [op |-> "family", family |-> refresh[k].family]
            /\ \A s \in Request \ {r} : req'[s] = req[s]
        BY <1>1, <2>4 DEF DetectReuse, TypeOK
      <3>3. origin'[refresh[k].family] # Unissued
        BY <2>4, RowAssumption DEF DetectReuse, IInv, Lineage, history
      <3>4. QED
        BY <3>1, <3>2, <3>3 DEF SnapshotOK, WithdrawalOK, FreshRotation
    <2>5. ASSUME NEW k \in TokenId, RotateCommit(r, k)
          PROVE  DataInv' /\ Forward /\ req' = [req EXCEPT ![r] = [op |-> "idle"]]
      BY <2>5, RotateCommitData DEF RotateCommit
    <2>6. ASSUME NEW c \in Client, NEW asked \in SUBSET Scope, ClientCredentialsRead(r, c, asked)
          PROVE  /\ DataInv' /\ Forward
                 /\ \A s \in Request \ {r} : req'[s] = req[s]
                 /\ SnapshotOK(req[r])' /\ WithdrawalOK(req[r])' /\ FreshRotation(req'[r])
      <3>1. DataInv' /\ Forward
        BY <1>1, <2>6, ReadFrame DEF tables, ClientCredentialsRead
      <3>2. /\ req'[r] = [op |-> "client", client |-> c, scopes |-> asked \cap AllowedScopes[c]]
            /\ \A s \in Request \ {r} : req'[s] = req[s]
        BY <1>1, <2>6 DEF ClientCredentialsRead, TypeOK
      <3>3. QED
        BY <3>1, <3>2 DEF SnapshotOK, WithdrawalOK, FreshRotation
    <2>7. ASSUME NEW k \in TokenId, ClientCredentialsCommit(r, k)
          PROVE  DataInv' /\ Forward /\ req' = [req EXCEPT ![r] = [op |-> "idle"]]
      BY <2>7, ClientCredentialsCommitData DEF ClientCredentialsCommit
    <2>8. QED
      BY <1>3, <1>5, <2>1, <2>2, <2>3, <2>4, <2>5, <2>6, <2>7 DEF TokenStep
  <1>6. CASE RevokeStep(r)
    <2>1. ASSUME NEW k \in TokenId, RevokeRead(r, k)
          PROVE  /\ DataInv' /\ Forward
                 /\ \A s \in Request \ {r} : req'[s] = req[s]
                 /\ SnapshotOK(req[r])' /\ WithdrawalOK(req[r])' /\ FreshRotation(req'[r])
      <3>1. DataInv' /\ Forward
        BY <1>1, <2>1, ReadFrame DEF tables, RevokeRead
      <3>2. /\ req'[r] = [op |-> "family", family |-> refresh[k].family]
            /\ \A s \in Request \ {r} : req'[s] = req[s]
        BY <1>1, <2>1 DEF RevokeRead, TypeOK
      <3>3. origin'[refresh[k].family] # Unissued
        BY <2>1, RowAssumption DEF RevokeRead, IInv, Lineage, history
      <3>4. QED
        BY <3>1, <3>2, <3>3 DEF SnapshotOK, WithdrawalOK, FreshRotation
    <2>2. ASSUME RevokeFamily(r)
          PROVE  DataInv' /\ Forward /\ req' = [req EXCEPT ![r] = [op |-> "idle"]]
      BY <2>2, RevokeFamilyData DEF RevokeFamily
    <2>3. QED
      BY <1>3, <1>6, <2>1, <2>2 DEF RevokeStep
  <1>7. CASE UserStep(r)
    <2>1. ASSUME NEW u \in User, WithdrawRead(r, u)
          PROVE  /\ DataInv' /\ Forward
                 /\ \A s \in Request \ {r} : req'[s] = req[s]
                 /\ SnapshotOK(req[r])' /\ WithdrawalOK(req[r])' /\ FreshRotation(req'[r])
      <3>1. DataInv' /\ Forward
        BY <1>1, <2>1, ReadFrame DEF tables, WithdrawRead
      <3>2. /\ req'[r] = [op |-> "withdraw", user |-> u,
                          known |-> RowsOf(access, u) \cup RowsOf(refresh, u)]
            /\ \A s \in Request \ {r} : req'[s] = req[s]
            /\ UNCHANGED <<origin, granted>>
        BY <1>1, <2>1 DEF WithdrawRead, TypeOK, history
      <3>3. ASSUME NEW k \in RowsOf(access, u) \cup RowsOf(refresh, u)
            PROVE  origin[k] # Unissued /\ granted[origin[k]].user = u
        BY <3>3, RowAssumption DEF RowsOf, IInv, Lineage, Within
      <3>4. WithdrawalOK(req[r])'
        BY <3>2, <3>3 DEF WithdrawalOK
      <3>5. QED
        BY <3>1, <3>2, <3>4 DEF SnapshotOK, FreshRotation
    <2>2. CASE WithdrawAccess(r)
      <3> DEFINE q == req[r]
      <3>1. DataInv' /\ Forward
        BY <1>1, <2>2, ReadFrame DEF tables, WithdrawAccess
      <3>2. /\ req'[r] = [op |-> "withdrawAccess", user |-> q.user, known |-> q.known,
                          reborn |-> q.user \notin users,
                          access |-> RowsOf(access, q.user)]
            /\ \A s \in Request \ {r} : req'[s] = req[s]
            /\ UNCHANGED <<origin, granted, access>>
        BY <1>1, <2>2 DEF WithdrawAccess, TypeOK, tables, history
      <3>3. /\ q \in ReqState /\ q.op = "withdraw" /\ WithdrawalOK(q)
        BY <1>1, <2>2 DEF WithdrawAccess, TypeOK, Snapshots
      <3>4. ASSUME NEW k \in q.known
            PROVE  /\ origin[k] # Unissued /\ granted[origin[k]].user = q.user
                   /\ k \in Live(access) => k \in RowsOf(access, q.user)
        <4>1. /\ k \in TokenId /\ origin[k] # Unissued /\ granted[origin[k]].user = q.user
          BY <3>3, <3>4, ReqFields DEF WithdrawalOK
        <4>2. k \in Live(access) => k \in Rows(access) /\ access[k].user = q.user
          BY <4>1 DEF Live, IInv, Provenance, Lineage, Within
        <4>3. QED
          BY <4>1, <4>2 DEF RowsOf
      <3>5. WithdrawalOK(req[r])'
        BY <3>2, <3>4 DEF WithdrawalOK
      <3>6. QED
        BY <3>1, <3>2, <3>5 DEF SnapshotOK, FreshRotation
    <2>3. CASE WithdrawRefresh(r)
      <3> DEFINE q == req[r]
      <3>1. DataInv' /\ Forward
        BY <1>1, <2>3, ReadFrame DEF tables, WithdrawRefresh
      <3>2. /\ req'[r] = [op |-> "withdrawRefresh", user |-> q.user, known |-> q.known,
                          reborn |-> q.reborn, access |-> q.access,
                          refresh |-> RowsOf(refresh, q.user)]
            /\ \A s \in Request \ {r} : req'[s] = req[s]
            /\ UNCHANGED <<origin, granted, access, refresh>>
        BY <1>1, <2>3 DEF WithdrawRefresh, TypeOK, tables, history
      <3>3. /\ q \in ReqState /\ q.op = "withdrawAccess" /\ WithdrawalOK(q)
        BY <1>1, <2>3 DEF WithdrawRefresh, TypeOK, Snapshots
      <3>4. ASSUME NEW k \in q.known
            PROVE  /\ origin[k] # Unissued /\ granted[origin[k]].user = q.user
                   /\ k \in Live(access) => k \in q.access
                   /\ k \in Live(refresh) => k \in RowsOf(refresh, q.user)
        <4>1. /\ k \in TokenId /\ origin[k] # Unissued /\ granted[origin[k]].user = q.user
              /\ k \in Live(access) => k \in q.access
          BY <3>3, <3>4, ReqFields DEF WithdrawalOK
        <4>2. k \in Live(refresh) => k \in Rows(refresh) /\ refresh[k].user = q.user
          BY <4>1 DEF Live, IInv, Lineage, Within
        <4>3. QED
          BY <4>1, <4>2 DEF RowsOf
      <3>5. WithdrawalOK(req[r])'
        BY <3>2, <3>4 DEF WithdrawalOK
      <3>6. QED
        BY <3>1, <3>2, <3>5 DEF SnapshotOK, FreshRotation
    <2>4. ASSUME WithdrawCommit(r)
          PROVE  DataInv' /\ Forward /\ req' = [req EXCEPT ![r] = [op |-> "idle"]]
      BY <2>4, WithdrawCommitData DEF WithdrawCommit
    <2>5. ASSUME NEW u \in User, DeleteRead(r, u)
          PROVE  /\ DataInv' /\ Forward
                 /\ \A s \in Request \ {r} : req'[s] = req[s]
                 /\ SnapshotOK(req[r])' /\ WithdrawalOK(req[r])' /\ FreshRotation(req'[r])
      <3>1. DataInv' /\ Forward
        BY <1>1, <2>5, ReadFrame DEF tables, DeleteRead
      <3>2. /\ req'[r] = [op |-> "delete", user |-> u]
            /\ \A s \in Request \ {r} : req'[s] = req[s]
        BY <1>1, <2>5 DEF DeleteRead, TypeOK
      <3>3. QED
        BY <3>1, <3>2 DEF SnapshotOK, WithdrawalOK, FreshRotation
    <2>6. CASE DeleteUserRows(r)
      <3>1. DataInv' /\ Forward
        BY <1>1, <2>6, ReadFrame DEF tables, DeleteUserRows
      <3>2. /\ req'[r].op = "deleteRows"
            /\ \A s \in Request \ {r} : req'[s] = req[s]
        BY <1>1, <2>6 DEF DeleteUserRows, TypeOK
      <3>3. QED
        BY <3>1, <3>2 DEF SnapshotOK, WithdrawalOK, FreshRotation
    <2>7. ASSUME DeleteCommit(r)
          PROVE  DataInv' /\ Forward /\ req' = [req EXCEPT ![r] = [op |-> "idle"]]
      BY <2>7, DeleteCommitData DEF DeleteCommit
    <2>8. QED
      BY <1>3, <1>7, <2>1, <2>2, <2>3, <2>4, <2>5, <2>6, <2>7 DEF UserStep
  <1>8. CASE Abort(r)
    <2>1. DataInv' /\ Forward /\ req' = [req EXCEPT ![r] = [op |-> "idle"]]
      BY <1>1, <1>8, ReadFrame DEF tables, Abort
    <2>2. QED
      BY <1>3, <2>1
  <1>9. QED
    BY <1>4, <1>5, <1>6, <1>7, <1>8

\* The invariant is inductive.
LEMMA NextIInv == IInv /\ [Next]_vars => IInv' /\ Forward
  <1> SUFFICES ASSUME IInv, [Next]_vars
               PROVE  IInv' /\ Forward
    OBVIOUS
  <1>1. TypeOK'
    BY NextTypeOK DEF IInv
  <1>2. ASSUME NEW r \in Request,
               LoginStep(r) \/ TokenStep(r) \/ RevokeStep(r) \/ UserStep(r) \/ Abort(r)
        PROVE  DataInv' /\ Forward /\ Snapshots'
    BY <1>1, <1>2, StepOK
  <1>3. ASSUME DataInv', Forward, req' = req
        PROVE  Snapshots'
    BY <1>3, SnapshotsForward
  <1>4. ASSUME NEW k \in TokenId, RevokeAccess(k)
        PROVE  DataInv' /\ Forward /\ Snapshots'
    <2>1. DataInv' /\ Forward
      BY <1>1, <1>4, RevokeAccessData
    <2>2. QED
      BY <1>3, <1>4, <2>1 DEF RevokeAccess
  <1>5. ASSUME NEW c \in Client, SetClientStatus(c)
        PROVE  DataInv' /\ Forward /\ Snapshots'
    <2>1. UNCHANGED <<users, codes, access, refresh, history, req>>
      BY <1>5 DEF SetClientStatus
    <2>2. DataInv' /\ Forward
      BY <2>1, ReadFrame DEF IInv, DataInv
    <2>3. QED
      BY <1>3, <2>1, <2>2
  <1>6. ASSUME Tick \/ UNCHANGED vars
        PROVE  DataInv' /\ Forward /\ Snapshots'
    <2>1. UNCHANGED <<users, codes, access, refresh, history, req>>
      BY <1>6 DEF Tick, vars, tables
    <2>2. DataInv' /\ Forward
      BY <2>1, ReadFrame DEF IInv, DataInv
    <2>3. QED
      BY <1>3, <2>1, <2>2
  <1>7. DataInv' /\ Forward /\ Snapshots'
    BY <1>2, <1>4, <1>5, <1>6 DEF Next
  <1>8. QED
    BY <1>1, <1>7 DEF IInv, DataInv

\* The inductive invariant holds in every state of every behaviour of the
\* handlers, whatever the number of requests, users, clients and tokens.
THEOREM Invariance == Spec => []IInv
  BY InitIInv, NextIInv, PTL DEF Spec

-----------------------------------------------------------------------------
(***************************************************************************)
(* The invariants.                                                         *)
(***************************************************************************)
\* Every token acts for the user and the client of the login behind it, with
\* no scope that login did not grant, through any number of rotations
\* (handleRefreshToken and issueTokenPairInTx of token.service.ts).
THEOREM LineageHolds == Spec => []Lineage
  <1>1. IInv => Lineage
    BY DEF IInv
  <1>2. QED
    BY <1>1, Invariance, PTL

\* handleAuthorizationCode neither burns a code without issuing tokens nor
\* issues tokens that leave their code redeemable.
THEOREM CodesSpentWithTokens == Spec => []CodeSpentWithTokens
  <1>1. IInv => CodeSpentWithTokens
    BY DEF IInv
  <1>2. QED
    BY <1>1, Invariance, PTL

\* Two live refresh tokens of one login need an issuance that committed on a
\* stale read: refresh rotation and code redemption make no other.
THEOREM LoginHasOneLiveToken == Spec => []OneLiveTokenPerLogin
  <1>1. IInv => OneLiveTokenPerLogin
    BY DEF IInv
  <1>2. QED
    BY <1>1, Invariance, PTL

\* After RevokeService.revoke or a detected reuse has revoked a family, a live
\* token of it stems from an issuance that committed on a stale read.
THEOREM RevokedFamiliesOnlyLate == Spec => []RevokedFamilyOnlyLate
  <1>1. IInv => RevokedFamilyOnlyLate
    BY DEF IInv
  <1>2. QED
    BY <1>1, Invariance, PTL

\* UsersService.delete is all or nothing: no code or token is left that
\* refers to a user who is gone.
THEOREM NoRowIsOrphaned == Spec => []NoOrphans
  <1>1. IInv => NoOrphans
    BY DEF IInv
  <1>2. QED
    BY <1>1, Invariance, PTL

-----------------------------------------------------------------------------
(***************************************************************************)
(* The action properties.                                                  *)
(***************************************************************************)
\* No save of a stale entity brings a revoked token or a used code back.
THEOREM NothingSpentComesBack == Spec => SpentStaysSpent
  <1>1. ASSUME IInv, [Next]_vars
        PROVE  /\ \A k \in TokenId :
                      /\ refresh[k] # Unissued /\ k \notin Live(refresh)
                            => k \notin Live(refresh')
                      /\ access[k] # Unissued /\ k \notin Live(access)
                            => k \notin Live(access')
               /\ \A c \in Code :
                      codes[c] # Unissued /\ ~(c \in Rows(codes) /\ ~codes[c].used)
                            => ~(c \in Rows(codes') /\ ~codes'[c].used)
    BY <1>1, NextIInv DEF Forward
  <1>2. QED
    BY <1>1, Invariance, PTL DEF Spec, SpentStaysSpent

\* The tokens a withdrawal knew when its handler read the user are dead once
\* it commits.
LEMMA WithdrawCommitReachesBack ==
    ASSUME IInv, NEW r \in Request, WithdrawCommit(r), NEW k \in req[r].known
    PROVE  k \notin Live(refresh') /\ k \notin Live(access')
  <1>1. /\ req[r].op = "withdrawRefresh"
        /\ access' = RevokeRows(access, req[r].access)
        /\ refresh' = RevokeRows(refresh, req[r].refresh)
    BY DEF WithdrawCommit
  <1>2. /\ k \in Live(access) => k \in req[r].access
        /\ k \in Live(refresh) => k \in req[r].refresh
    BY <1>1 DEF IInv, Snapshots, WithdrawalOK
  <1>3. /\ access \in [TokenId -> AccessRow \cup {Unissued, Deleted}]
        /\ refresh \in [TokenId -> RefreshRow \cup {Unissued, Deleted}]
    BY DEF IInv, TypeOK
  <1>4. /\ Live(access') = Live(access) \ req[r].access
        /\ Live(refresh') = Live(refresh) \ req[r].refresh
    BY <1>1, <1>3, RevokeAccessRows, RevokeRefreshRows
  <1>5. QED
    BY <1>2, <1>4

\* The transactions of UsersService.deactivate and confirmReset catch every
\* token that was stored when the handler read the user, whatever commits
\* between that read and the commit.
THEOREM WithdrawalsReachBack == Spec => WithdrawReachesBack
  <1>1. ASSUME IInv
        PROVE  \A r \in Request : WithdrawCommit(r) =>
                   \A k \in req[r].known : k \notin Live(refresh') /\ ~Accepts(k)'
    BY <1>1, WithdrawCommitReachesBack DEF Accepts
  <1>2. QED
    BY <1>1, Invariance, PTL DEF WithdrawReachesBack

\* Tokens appear in the commits of the token endpoint only; every other step
\* leaves the two tables of tokens as they are, or revokes or deletes rows.
TokensMove == /\ UNCHANGED origin
              /\ \/ refresh' = refresh
                 \/ \E ks : refresh' = RevokeRows(refresh, ks) \/ refresh' = DeleteRows(refresh, ks)
              /\ \/ access' = access
                 \/ \E ks : access' = RevokeRows(access, ks) \/ access' = DeleteRows(access, ks)

LEMMA TokenSteps ==
    ASSUME [Next]_vars
    PROVE  \/ TokensMove
           \/ \E r \in Request, j \in TokenId :
                  \/ RedeemCommit(r, j) \/ RotateCommit(r, j)
                  \/ ClientCredentialsCommit(r, j) /\ UNCHANGED <<refresh, origin>>
  <1> DEFINE Adds == \E r \in Request, j \in TokenId :
                         \/ RedeemCommit(r, j) \/ RotateCommit(r, j)
                         \/ ClientCredentialsCommit(r, j) /\ UNCHANGED <<refresh, origin>>
  <1>1. ASSUME UNCHANGED <<refresh, access, origin>> PROVE TokensMove
    BY <1>1 DEF TokensMove
  <1>2. ASSUME UNCHANGED <<tables, history>> PROVE TokensMove
    <2>1. UNCHANGED <<refresh, access, origin>>
      BY <1>2 DEF tables, history
    <2>2. QED
      BY <1>1, <2>1
  <1>3. ASSUME NEW r \in Request, LoginStep(r) PROVE TokensMove
    <2>1. UNCHANGED <<refresh, access, origin>>
      BY <1>3 DEF LoginStep, LoginRead, IssueAuthCode, tables, history
    <2>2. QED
      BY <1>1, <2>1
  <1>4. ASSUME NEW r \in Request, TokenStep(r) PROVE TokensMove \/ Adds
    <2>1. ASSUME \/ \E code \in Code, c \in Client : RedeemRead(r, code, c)
                 \/ \E k \in TokenId, c \in Client, asked \in SUBSET Scope :
                        RotateRead(r, k, c, asked)
                 \/ \E k \in TokenId, c \in Client : DetectReuse(r, k, c)
                 \/ \E c \in Client, asked \in SUBSET Scope :
                        ClientCredentialsRead(r, c, asked)
          PROVE  UNCHANGED <<tables, history>>
      BY <2>1 DEF RedeemRead, RotateRead, DetectReuse, ClientCredentialsRead
    <2>2. ASSUME NEW k \in TokenId, ClientCredentialsCommit(r, k)
          PROVE  UNCHANGED <<refresh, origin>>
      BY <2>2 DEF ClientCredentialsCommit, history
    <2>3. QED
      BY <1>2, <1>4, <2>1, <2>2 DEF TokenStep
  <1>5. ASSUME NEW r \in Request, RevokeStep(r) PROVE TokensMove
    <2>1. CASE \E k \in TokenId : RevokeRead(r, k)
      BY <1>2, <2>1 DEF RevokeRead
    <2>2. CASE RevokeFamily(r)
      BY <2>2 DEF RevokeFamily, TokensMove
    <2>3. QED
      BY <1>5, <2>1, <2>2 DEF RevokeStep
  <1>6. ASSUME NEW r \in Request, UserStep(r) PROVE TokensMove
    <2>1. ASSUME \/ \E u \in User : WithdrawRead(r, u) \/ DeleteRead(r, u)
                 \/ WithdrawAccess(r) \/ WithdrawRefresh(r) \/ DeleteUserRows(r)
          PROVE  UNCHANGED <<tables, history>>
      BY <2>1 DEF WithdrawRead, DeleteRead, WithdrawAccess, WithdrawRefresh, DeleteUserRows
    <2>2. CASE WithdrawCommit(r)
      BY <2>2 DEF WithdrawCommit, TokensMove, history
    <2>3. CASE DeleteCommit(r)
      BY <2>3 DEF DeleteCommit, TokensMove, history
    <2>4. QED
      BY <1>2, <1>6, <2>1, <2>2, <2>3 DEF UserStep
  <1>7. ASSUME NEW k \in TokenId, RevokeAccess(k) PROVE TokensMove
    BY <1>7 DEF RevokeAccess, TokensMove, history
  <1>8. ASSUME \/ \E r \in Request : Abort(r)
               \/ \E c \in Client : SetClientStatus(c)
               \/ Tick \/ UNCHANGED vars
        PROVE  TokensMove
    <2>1. UNCHANGED <<refresh, access, origin>>
      BY <1>8 DEF Abort, SetClientStatus, Tick, vars, tables, history
    <2>2. QED
      BY <1>1, <2>1
  <1>9. QED
    BY <1>3, <1>4, <1>5, <1>6, <1>7, <1>8 DEF Next

\* A step adds a live refresh token by a redemption, in a family of its own,
\* or by a rotation, in the family of the row it read; the live tokens it
\* leaves are as they were.
LEMMA LiveStep ==
    ASSUME IInv, [Next]_vars, NEW k \in Live(refresh')
    PROVE  \/ k \in Live(refresh) /\ refresh'[k] = refresh[k]
           \/ refresh[k] = Unissued /\ refresh'[k].family = k
           \/ \E r \in Request : /\ req[r].op = "rotate"
                                 /\ refresh'[k].family = req[r].row.family
  <1>1. /\ refresh \in [TokenId -> RefreshRow \cup {Unissued, Deleted}]
        /\ req \in [Request -> ReqState]
    BY DEF IInv, TypeOK
  <1>2. TypeOK'
    BY NextTypeOK DEF IInv
  <1>3. k \in TokenId
    BY <1>2 DEF TypeOK, Live, Rows
  <1>4. CASE refresh' = refresh
    BY <1>4 DEF Live, Rows
  <1>5. ASSUME NEW ks, refresh' = RevokeRows(refresh, ks)
        PROVE  k \in Live(refresh) /\ refresh'[k] = refresh[k]
    <2>1. k \in Live(refresh) /\ k \notin ks
      BY <1>1, <1>5, RevokeRefreshRows
    <2>2. QED
      BY <1>1, <1>3, <1>5, <2>1 DEF RevokeRows
  <1>6. ASSUME NEW ks, refresh' = DeleteRows(refresh, ks)
        PROVE  k \in Live(refresh) /\ refresh'[k] = refresh[k]
    <2>1. refresh'[k] = IF k \in ks /\ k \in Rows(refresh) THEN Deleted ELSE refresh[k]
      BY <1>1, <1>3, <1>6 DEF DeleteRows
    <2>2. refresh'[k] = refresh[k]
      BY <2>1 DEF Live, Rows
    <2>3. QED
      BY <1>1, <1>3, <2>2 DEF Live, Rows
  <1>7. ASSUME NEW r \in Request, NEW j \in TokenId, RedeemCommit(r, j)
        PROVE  \/ k \in Live(refresh) /\ refresh'[k] = refresh[k]
               \/ refresh[k] = Unissued /\ refresh'[k].family = k
    <2>1. CASE k = j
      BY <1>1, <1>3, <1>7, <2>1 DEF RedeemCommit, NewRefresh
    <2>2. CASE k # j
      <3>1. refresh'[k] = refresh[k]
        BY <1>1, <1>3, <1>7, <2>2 DEF RedeemCommit
      <3>2. QED
        BY <1>1, <1>3, <3>1 DEF Live, Rows
    <2>3. QED
      BY <2>1, <2>2
  <1>8. ASSUME NEW r \in Request, NEW j \in TokenId, RotateCommit(r, j)
        PROVE  \/ k \in Live(refresh) /\ refresh'[k] = refresh[k]
               \/ req[r].op = "rotate" /\ refresh'[k].family = req[r].row.family
    <2>1. req[r].op = "rotate" /\ req[r].row \in RefreshRow /\ req[r].token \in TokenId
      BY <1>1, <1>8, ReqFields DEF RotateCommit
    <2>2. CASE k = j
      BY <1>1, <1>3, <1>8, <2>1, <2>2 DEF RotateCommit, NewRefresh
    <2>3. CASE k = req[r].token /\ k # j
      <3>1. refresh'[k] = [req[r].row EXCEPT !.revoked = TRUE]
        BY <1>1, <1>3, <1>8, <2>3 DEF RotateCommit
      <3>2. refresh'[k].revoked
        BY <2>1, <3>1 DEF RefreshRow
      <3>3. QED
        BY <3>2 DEF Live
    <2>4. CASE k # req[r].token /\ k # j
      <3>1. refresh'[k] = refresh[k]
        BY <1>1, <1>3, <1>8, <2>4 DEF RotateCommit
      <3>2. QED
        BY <1>1, <1>3, <3>1 DEF Live, Rows
    <2>5. QED
      BY <2>2, <2>3, <2>4
  <1>9. \/ refresh' = refresh
        \/ \E ks : refresh' = RevokeRows(refresh, ks) \/ refresh' = DeleteRows(refresh, ks)
        \/ \E r \in Request, j \in TokenId : RedeemCommit(r, j) \/ RotateCommit(r, j)
    BY TokenSteps DEF TokensMove
  <1>10. QED
    BY <1>4, <1>5, <1>6, <1>7, <1>8, <1>9

\* A step starts a rotation only from a live token that has not expired.
LEMMA RotationStep ==
    ASSUME TypeOK, [Next]_vars, NEW r \in Request, req'[r].op = "rotate"
    PROVE  \/ req'[r] = req[r]
           \/ \E k \in Live(refresh) : /\ now <= refresh[k].expires
                                       /\ req'[r].row = refresh[k]
  <1> USE DEF Start, Advance, Finish, Idle
  <1>1. req \in [Request -> ReqState]
    BY DEF TypeOK
  <1>2. ASSUME NEW s \in Request, NEW k \in TokenId, NEW c \in Client,
               NEW asked \in SUBSET Scope, RotateRead(s, k, c, asked)
        PROVE  \/ req'[r] = req[r]
               \/ \E j \in Live(refresh) : /\ now <= refresh[j].expires
                                           /\ req'[r].row = refresh[j]
    <2>1. k \in Live(refresh) /\ now <= refresh[k].expires
      BY <1>2 DEF RotateRead, Live
    <2>2. CASE s = r
      BY <1>1, <1>2, <2>1, <2>2 DEF RotateRead
    <2>3. CASE s # r
      BY <1>1, <1>2, <2>3 DEF RotateRead
    <2>4. QED
      BY <2>2, <2>3
  <1>3. ASSUME NEW s \in Request,
               LoginStep(s) \/ RevokeStep(s) \/ UserStep(s) \/ Abort(s)
        PROVE  req'[r] = req[r]
    <2>1. CASE LoginStep(s) \/ RevokeStep(s) \/ Abort(s)
      BY <1>1, <2>1 DEF LoginStep, RevokeStep, LoginRead, IssueAuthCode,
                        RevokeRead, RevokeFamily, Abort
    <2>2. CASE UserStep(s)
      BY <1>1, <2>2 DEF UserStep, WithdrawRead, WithdrawAccess, WithdrawRefresh,
                        WithdrawCommit, DeleteRead, DeleteUserRows, DeleteCommit
    <2>3. QED
      BY <1>3, <2>1, <2>2
  <1>4. ASSUME NEW s \in Request, TokenStep(s)
        PROVE  \/ req'[r] = req[r]
               \/ \E k \in TokenId, c \in Client, asked \in SUBSET Scope :
                      RotateRead(s, k, c, asked)
    BY <1>1, <1>4 DEF TokenStep, RedeemRead, RedeemCommit, DetectReuse, RotateCommit,
                      ClientCredentialsRead, ClientCredentialsCommit
  <1>5. CASE \/ \E k \in TokenId : RevokeAccess(k)
             \/ \E c \in Client : SetClientStatus(c)
             \/ Tick \/ UNCHANGED vars
    BY <1>5 DEF RevokeAccess, SetClientStatus, Tick, vars
  <1>6. QED
    BY <1>2, <1>3, <1>4, <1>5 DEF Next

\* The clock does not go back.
LEMMA ClockStep == TypeOK /\ [Next]_vars => now' >= now
  <1>1. ASSUME NEW r \in Request, LoginStep(r) \/ TokenStep(r)
        PROVE  now' = now
    BY <1>1 DEF LoginStep, TokenStep, LoginRead, IssueAuthCode, RedeemRead, RedeemCommit,
                RotateRead, DetectReuse, RotateCommit, ClientCredentialsRead,
                ClientCredentialsCommit
  <1>2. ASSUME NEW r \in Request, RevokeStep(r) \/ UserStep(r) \/ Abort(r)
        PROVE  now' = now
    BY <1>2 DEF RevokeStep, UserStep, RevokeRead, RevokeFamily, WithdrawRead,
                WithdrawAccess, WithdrawRefresh, WithdrawCommit, DeleteRead,
                DeleteUserRows, DeleteCommit, Abort
  <1>3. [Next]_vars => now' = now \/ now' = now + 1
    BY <1>1, <1>2 DEF Next, RevokeAccess, SetClientStatus, Tick, vars
  <1>4. QED
    BY <1>3 DEF TypeOK

\* No step adds a live token to a family that is over, nor a rotation of it.
LEMMA SessionOverStep ==
    ASSUME IInv, [Next]_vars, NEW f \in TokenId, SessionOver(f)
    PROVE  SessionOver(f)'
  <1>1. TypeOK /\ TypeOK' /\ Forward /\ Provenance /\ now' >= now /\ now \in Nat /\ now' \in Nat
    BY NextTypeOK, NextIInv, ClockStep DEF IInv, TypeOK
  <1>2. origin'[f] # Unissued /\ refresh[f] # Unissued
    BY <1>1 DEF Forward, Provenance, SessionOver
  <1>3. ASSUME NEW k \in Live(refresh'), refresh'[k].family = f
        PROVE  refresh'[k].expires < now'
    <2>1. k \in Live(refresh) /\ refresh'[k] = refresh[k]
      BY <1>2, <1>3, LiveStep DEF SessionOver
    <2>2. refresh[k].expires < now /\ refresh[k].expires \in Nat
      BY <1>1, <1>3, <2>1 DEF SessionOver, TypeOK, Live, Rows, RefreshRow
    <2>3. QED
      BY <1>1, <2>1, <2>2
  <1>4. ASSUME NEW r \in Request, req'[r].op = "rotate"
        PROVE  req'[r].row.family # f
    <2>1. ASSUME NEW k \in Live(refresh), now <= refresh[k].expires
          PROVE  refresh[k].family # f
      <3>1. refresh[k].expires \in Nat
        BY <1>1 DEF TypeOK, Live, Rows, RefreshRow
      <3>2. QED
        BY <1>1, <2>1, <3>1 DEF SessionOver
    <2>2. QED
      BY <1>1, <1>4, <2>1, RotationStep DEF SessionOver
  <1>5. QED
    BY <1>2, <1>3, <1>4 DEF SessionOver

\* Once every token of a family is revoked, deleted or expired and no rotation
\* of it is in flight, no request of any kind revives the session.
THEOREM SessionEndsAreFinal == Spec => SessionEndIsFinal
  <1>1. ASSUME IInv, [Next]_vars
        PROVE  \A f \in TokenId : SessionOver(f) => SessionOver(f)'
    BY <1>1, SessionOverStep
  <1>2. QED
    BY <1>1, Invariance, PTL DEF Spec, SessionEndIsFinal

-----------------------------------------------------------------------------
(***************************************************************************)
(* The promises of the documents.  Each holds as long as two kinds of      *)
(* requests for one code, family or user do not overlap; everything else   *)
(* may, in any number of requests.                                         *)
(***************************************************************************)
\* How the local state of a request changes: it ends, or it takes a step of its
\* own.
LEMMA Moves ==
    ASSUME TypeOK, [Next]_vars, NEW r \in Request
    PROVE  \/ req'[r] = req[r]
           \/ req'[r] = Idle
           \/ \E u \in User, c \in Client, S \in SUBSET Scope : LoginRead(r, u, c, S)
           \/ \E code \in Code, c \in Client : RedeemRead(r, code, c)
           \/ \E k \in TokenId, c \in Client, asked \in SUBSET Scope :
                  RotateRead(r, k, c, asked)
           \/ req'[r].op \in {"client", "family", "delete"}
           \/ \E u \in User : WithdrawRead(r, u)
           \/ WithdrawAccess(r)
           \/ WithdrawRefresh(r)
           \/ DeleteUserRows(r)
  <1> USE DEF Start, Advance, Finish
  <1>1. req \in [Request -> ReqState]
    BY DEF TypeOK
  <1>2. ASSUME NEW s \in Request, s # r,
               LoginStep(s) \/ TokenStep(s) \/ RevokeStep(s) \/ UserStep(s) \/ Abort(s)
        PROVE  req'[r] = req[r]
    <2>1. CASE LoginStep(s) \/ RevokeStep(s) \/ Abort(s)
      BY <1>1, <1>2, <2>1 DEF LoginStep, RevokeStep, LoginRead, IssueAuthCode,
                        RevokeRead, RevokeFamily, Abort
    <2>2. CASE UserStep(s)
      BY <1>1, <1>2, <2>2 DEF UserStep, WithdrawRead, WithdrawAccess, WithdrawRefresh,
                        WithdrawCommit, DeleteRead, DeleteUserRows, DeleteCommit
    <2>3. CASE TokenStep(s)
      BY <1>1, <1>2, <2>3 DEF TokenStep, RedeemRead, RedeemCommit, DetectReuse, RotateRead,
                      RotateCommit, ClientCredentialsRead, ClientCredentialsCommit
    <2>4. QED
      BY <1>2, <2>1, <2>2, <2>3
  <1>3. CASE LoginStep(r)
    BY <1>1, <1>3 DEF LoginStep, IssueAuthCode
  <1>4. CASE RevokeStep(r) \/ Abort(r)
    BY <1>1, <1>4 DEF RevokeStep, RevokeRead, RevokeFamily, Abort
  <1>5. CASE TokenStep(r)
    BY <1>1, <1>5 DEF TokenStep, RedeemCommit, RotateCommit, DetectReuse,
                      ClientCredentialsRead, ClientCredentialsCommit
  <1>6. CASE UserStep(r)
    BY <1>1, <1>6 DEF UserStep, WithdrawCommit, DeleteRead, DeleteCommit
  <1>7. CASE \/ \E k \in TokenId : RevokeAccess(k)
             \/ \E c \in Client : SetClientStatus(c)
             \/ Tick \/ UNCHANGED vars
    BY <1>7 DEF RevokeAccess, SetClientStatus, Tick, vars
  <1>8. QED
    BY <1>2, <1>3, <1>4, <1>5, <1>6, <1>7 DEF Next

\* Where the rows of refresh tokens come from: they are there already, in the
\* same family and with the same origin, or a redemption or a rotation stores
\* them.
LEMMA RefreshRows ==
    ASSUME IInv, [Next]_vars, NEW k \in Rows(refresh')
    PROVE  /\ k \in TokenId
           /\ \/ /\ k \in Rows(refresh) /\ origin'[k] = origin[k]
                 /\ refresh'[k].family = refresh[k].family
                 /\ refresh'[k].user = refresh[k].user
                 /\ k \in Live(refresh') => k \in Live(refresh)
              \/ \E r \in Request : /\ RedeemCommit(r, k)
                                    /\ refresh'[k].user = req[r].row.user
              \/ \E r \in Request :
                     /\ \E j \in TokenId : RotateCommit(r, j) /\ k \in {j, req[r].token}
                     /\ origin'[k] = origin[req[r].token]
                     /\ refresh'[k].family = req[r].row.family
                     /\ refresh'[k].user = req[r].row.user
  <1>1. /\ refresh \in [TokenId -> RefreshRow \cup {Unissued, Deleted}]
        /\ origin \in [TokenId -> Code \cup {Unissued}]
        /\ req \in [Request -> ReqState]
    BY DEF IInv, TypeOK
  <1>2. k \in TokenId
    <2>1. TypeOK'
      BY NextTypeOK DEF IInv
    <2>2. QED
      BY <2>1 DEF TypeOK, Rows
  <1> DEFINE Same == /\ k \in Rows(refresh) /\ origin'[k] = origin[k]
                     /\ refresh'[k].family = refresh[k].family
                     /\ refresh'[k].user = refresh[k].user
                     /\ k \in Live(refresh') => k \in Live(refresh)
  <1>3. ASSUME refresh' = refresh, origin' = origin
        PROVE  Same
    <2>1. Rows(refresh') = Rows(refresh) /\ Live(refresh') = Live(refresh)
      BY <1>3
    <2>2. QED
      BY <1>3, <2>1
  <1>4. ASSUME NEW ks, refresh' = RevokeRows(refresh, ks), origin' = origin
        PROVE  Same
    <2>1. k \in Rows(refresh) /\ Live(refresh') = Live(refresh) \ ks
      BY <1>1, <1>4, RevokeRefreshRows
    <2>2. /\ refresh'[k].family = refresh[k].family
          /\ refresh'[k].user = refresh[k].user
      BY <1>1, <1>4, <2>1, RevokeRefreshRows
    <2>3. QED
      BY <1>4, <2>1, <2>2
  <1>5. ASSUME NEW ks, refresh' = DeleteRows(refresh, ks), origin' = origin
        PROVE  Same
    <2>1. refresh'[k] = IF k \in ks /\ k \in Rows(refresh) THEN Deleted ELSE refresh[k]
      BY <1>1, <1>2, <1>5 DEF DeleteRows
    <2>2. refresh'[k] = refresh[k]
      BY <2>1 DEF Rows
    <2>3. QED
      BY <1>1, <1>2, <1>5, <2>2 DEF Live, Rows
  <1>6. ASSUME NEW r \in Request, NEW j \in TokenId, RedeemCommit(r, j), j # k
        PROVE  Same
    <2>1. refresh'[k] = refresh[k] /\ origin'[k] = origin[k]
      BY <1>1, <1>2, <1>6 DEF RedeemCommit
    <2>2. QED
      BY <1>1, <1>2, <2>1 DEF Live, Rows
  <1>7. ASSUME NEW r \in Request, NEW j \in TokenId, RotateCommit(r, j)
        PROVE  \/ Same
               \/ /\ k \in {j, req[r].token}
                  /\ origin'[k] = origin[req[r].token]
                  /\ refresh'[k].family = req[r].row.family
                  /\ refresh'[k].user = req[r].row.user
    <2>1. req[r].op = "rotate" /\ req[r].row \in RefreshRow /\ req[r].token \in TokenId
      BY <1>1, <1>7, ReqFields DEF RotateCommit
    <2>2. CASE k = j
      BY <1>1, <1>2, <1>7, <2>1, <2>2 DEF RotateCommit, NewRefresh
    <2>3. CASE k = req[r].token /\ k # j
      <3>1. /\ refresh'[k] = [req[r].row EXCEPT !.revoked = TRUE]
            /\ origin'[k] = origin[k]
        BY <1>1, <1>2, <1>7, <2>3 DEF RotateCommit
      <3>2. /\ refresh'[k].family = req[r].row.family
            /\ refresh'[k].user = req[r].row.user
        BY <2>1, <3>1 DEF RefreshRow
      <3>3. QED
        BY <2>3, <3>1, <3>2
    <2>4. CASE k # req[r].token /\ k # j
      <3>1. refresh'[k] = refresh[k] /\ origin'[k] = origin[k]
        BY <1>1, <1>2, <1>7, <2>4 DEF RotateCommit
      <3>2. QED
        BY <1>1, <1>2, <3>1 DEF Live, Rows
    <2>5. QED
      BY <2>2, <2>3, <2>4
  <1>8. \/ refresh' = refresh /\ origin' = origin
        \/ /\ origin' = origin
           /\ \E ks : refresh' = RevokeRows(refresh, ks) \/ refresh' = DeleteRows(refresh, ks)
        \/ \E r \in Request, j \in TokenId : RedeemCommit(r, j) \/ RotateCommit(r, j)
    BY TokenSteps DEF TokensMove
  <1>9. ASSUME NEW r \in Request, RedeemCommit(r, k)
        PROVE  refresh'[k].user = req[r].row.user
    BY <1>1, <1>2, <1>9 DEF RedeemCommit, NewRefresh
  <1>10. QED
    BY <1>2, <1>3, <1>4, <1>5, <1>6, <1>7, <1>8, <1>9

\* Where the rows of access tokens come from.
LEMMA AccessRows ==
    ASSUME IInv, [Next]_vars, NEW k \in Rows(access')
    PROVE  \/ k \in Rows(access) /\ access'[k].user = access[k].user
           \/ access'[k].user = NoUser
           \/ \E r \in Request :
                  /\ RedeemCommit(r, k) \/ RotateCommit(r, k)
                  /\ access'[k].user = req[r].row.user
  <1>1. access \in [TokenId -> AccessRow \cup {Unissued, Deleted}]
    BY DEF IInv, TypeOK
  <1>2. k \in TokenId
    <2>1. TypeOK'
      BY NextTypeOK DEF IInv
    <2>2. QED
      BY <2>1 DEF TypeOK, Rows
  <1> DEFINE Same == k \in Rows(access) /\ access'[k].user = access[k].user
  <1>3. ASSUME access' = access
        PROVE  Same
    <2>1. Rows(access') = Rows(access)
      BY <1>3
    <2>2. QED
      BY <1>3, <2>1
  <1>4. ASSUME NEW ks, access' = RevokeRows(access, ks)
        PROVE  Same
    <2>1. k \in Rows(access)
      BY <1>1, <1>4, RevokeAccessRows
    <2>2. access'[k].user = access[k].user
      BY <1>1, <1>4, <2>1, RevokeAccessRows
    <2>3. QED
      BY <2>1, <2>2
  <1>5. ASSUME NEW ks, access' = DeleteRows(access, ks)
        PROVE  Same
    <2>1. access'[k] = IF k \in ks /\ k \in Rows(access) THEN Deleted ELSE access[k]
      BY <1>1, <1>2, <1>5 DEF DeleteRows
    <2>2. access'[k] = access[k]
      BY <2>1 DEF Rows
    <2>3. QED
      BY <1>1, <1>2, <2>2 DEF Rows
  <1>6. ASSUME NEW j \in TokenId, NEW row, access' = [access EXCEPT ![j] = row], j # k
        PROVE  Same
    <2>1. access'[k] = access[k]
      BY <1>1, <1>2, <1>6
    <2>2. QED
      BY <1>1, <1>2, <2>1 DEF Rows
  <1>7. ASSUME NEW r \in Request, NEW j \in TokenId,
               \/ RedeemCommit(r, j) \/ RotateCommit(r, j)
               \/ ClientCredentialsCommit(r, j)
        PROVE  \E row : access' = [access EXCEPT ![j] = row]
    BY <1>7 DEF RedeemCommit, RotateCommit, ClientCredentialsCommit
  <1>8. ASSUME NEW r \in Request,
               \/ RedeemCommit(r, k) \/ RotateCommit(r, k)
               \/ ClientCredentialsCommit(r, k)
        PROVE  access'[k].user = IF ClientCredentialsCommit(r, k) THEN NoUser
                                 ELSE req[r].row.user
    BY <1>1, <1>2, <1>8 DEF RedeemCommit, RotateCommit, ClientCredentialsCommit, NewAccess
  <1>9. \/ access' = access
        \/ \E ks : access' = RevokeRows(access, ks) \/ access' = DeleteRows(access, ks)
        \/ \E r \in Request, j \in TokenId :
               \/ RedeemCommit(r, j) \/ RotateCommit(r, j)
               \/ ClientCredentialsCommit(r, j)
    BY TokenSteps DEF TokensMove
  <1>10. QED
    BY <1>3, <1>4, <1>5, <1>6, <1>7, <1>8, <1>9

\* What a step does to the origins of tokens.
LEMMA OriginStep ==
    ASSUME IInv, [Next]_vars, NEW k \in TokenId
    PROVE  \/ origin'[k] = origin[k]
           \/ \E r \in Request : RedeemCommit(r, k)
           \/ \E r \in Request : RotateCommit(r, k) /\ origin'[k] = origin[req[r].token]
  <1>1. origin \in [TokenId -> Code \cup {Unissued}] /\ req \in [Request -> ReqState]
    BY DEF IInv, TypeOK
  <1>2. \/ origin' = origin
        \/ \E r \in Request, j \in TokenId : RedeemCommit(r, j) \/ RotateCommit(r, j)
    BY TokenSteps DEF TokensMove
  <1>3. ASSUME NEW r \in Request, NEW j \in TokenId, RedeemCommit(r, j), j # k
        PROVE  origin'[k] = origin[k]
    BY <1>1, <1>3 DEF RedeemCommit
  <1>4. ASSUME NEW r \in Request, NEW j \in TokenId, RotateCommit(r, j)
        PROVE  origin'[k] = IF k = j THEN origin[req[r].token] ELSE origin[k]
    BY <1>1, <1>4 DEF RotateCommit
  <1>5. QED
    BY <1>2, <1>3, <1>4

\* The tokens of a login, and the rotations in flight, agree on one family, and
\* a code that is being exchanged has no tokens yet.
OneFamily ==
    /\ \E f \in [Code -> TokenId \cup {Unissued}] :
           /\ \A k \in Rows(refresh) : refresh[k].family = f[origin[k]]
           /\ \A r \in Request : req[r].op = "rotate" =>
                  req[r].row.family = f[origin[req[r].token]]
    /\ \A r \in Request : req[r].op = "redeem" =>
           \A k \in TokenId : origin[k] # req[r].code

\* A second family would need a code that is read unused and stored again after
\* its exchange, which takes a second exchange of it in flight.
LEMMA OneFamilyStep ==
    ASSUME IInv, ExchangesApart, OneFamily, [Next]_vars
    PROVE  OneFamily'
  <1>1. /\ req \in [Request -> ReqState] /\ Idle.op = "idle"
        /\ refresh \in [TokenId -> RefreshRow \cup {Unissued, Deleted}]
        /\ origin \in [TokenId -> Code \cup {Unissued}]
        /\ Provenance /\ Lineage /\ Forward
    BY NextIInv DEF IInv, TypeOK, Idle
  <1>2. ASSUME NEW r \in Request, req'[r].op = "rotate"
        PROVE  \/ req'[r] = req[r]
               \/ \E k \in Rows(refresh) : /\ req'[r].token = k
                                           /\ req'[r].row = refresh[k]
                                           /\ UNCHANGED <<refresh, origin>>
    <2>1. ASSUME NEW k \in TokenId, NEW c \in Client, NEW asked \in SUBSET Scope,
                 RotateRead(r, k, c, asked)
          PROVE  /\ k \in Rows(refresh) /\ req'[r].token = k
                 /\ req'[r].row = refresh[k] /\ UNCHANGED <<refresh, origin>>
      BY <1>1, <2>1 DEF RotateRead, Start, tables, history
    <2>2. QED
      BY <1>1, <1>2, <2>1, Moves
         DEF IInv, LoginRead, RedeemRead, WithdrawRead, WithdrawAccess,
             WithdrawRefresh, DeleteUserRows, Start, Advance
  <1>3. ASSUME NEW r \in Request, req'[r].op = "redeem"
        PROVE  \/ req'[r] = req[r]
               \/ \E c \in Rows(codes) : /\ ~codes[c].used /\ req'[r].code = c
                                         /\ origin' = origin
    <2>1. ASSUME NEW code \in Code, NEW c \in Client, RedeemRead(r, code, c)
          PROVE  /\ code \in Rows(codes) /\ ~codes[code].used
                 /\ req'[r].code = code /\ origin' = origin
      BY <1>1, <2>1 DEF RedeemRead, Start, history
    <2>2. QED
      BY <1>1, <1>3, <2>1, Moves
         DEF IInv, LoginRead, RotateRead, WithdrawRead, WithdrawAccess,
             WithdrawRefresh, DeleteUserRows, Start, Advance
  <1>4. ASSUME NEW r \in Request, req'[r].op = "redeem", NEW k \in TokenId
        PROVE  origin'[k] # req'[r].code
    <2>1. ASSUME NEW c \in Rows(codes), ~codes[c].used
          PROVE  origin[k] # c
      BY <2>1 DEF IInv, CodeSpentWithTokens
    <2>2. ASSUME req'[r] = req[r], NEW s \in Request, RedeemCommit(s, k)
          PROVE  origin'[k] # req[r].code
      <3>1. origin'[k] = req[s].code /\ req[s].op = "redeem" /\ req'[s] = Idle
        BY <1>1, <2>2 DEF RedeemCommit, Finish
      <3>2. QED
        BY <1>1, <1>4, <2>2, <3>1 DEF ExchangesApart
    <2>3. ASSUME req'[r] = req[r], NEW s \in Request, RotateCommit(s, k),
                 origin'[k] = origin[req[s].token]
          PROVE  origin'[k] # req[r].code
      BY <1>1, <1>4, <2>3, ReqFields DEF OneFamily, RotateCommit
    <2>4. QED
      BY <1>3, <1>4, <2>1, <2>2, <2>3, OriginStep DEF OneFamily
  <1> PICK f \in [Code -> TokenId \cup {Unissued}] :
           /\ \A k \in Rows(refresh) : refresh[k].family = f[origin[k]]
           /\ \A r \in Request : req[r].op = "rotate" =>
                  req[r].row.family = f[origin[req[r].token]]
    BY DEF OneFamily
  <1>5. ASSUME NEW r \in Request, req[r].op = "rotate"
        PROVE  /\ req[r].token \in TokenId /\ origin[req[r].token] \in Code
               /\ origin'[req[r].token] = origin[req[r].token]
    <2>1. req[r].token \in TokenId /\ origin[req[r].token] \in Code
      BY <1>1, <1>5, ReqFields DEF IInv, Snapshots, SnapshotOK
    <2>2. refresh[req[r].token] # Unissued
      BY <1>1, <2>1, RowAssumption DEF Provenance
    <2>3. QED
      BY <1>1, <2>1, <2>2 DEF Forward
  <1>6. ASSUME NEW s \in Request, NEW j \in TokenId, RedeemCommit(s, j)
        PROVE  OneFamily'
    <2> DEFINE c == req[s].code
               g == [f EXCEPT ![c] = j]
    <2>1. /\ c \in Code /\ req[s].op = "redeem"
          /\ \A k \in TokenId : origin[k] # c
      BY <1>1, <1>6, ReqFields DEF RedeemCommit, OneFamily
    <2>2. g \in [Code -> TokenId \cup {Unissued}]
      OBVIOUS
    <2>3. /\ origin'[j] = c /\ refresh'[j].family = j
          /\ \A k \in TokenId : k # j =>
                 refresh'[k] = refresh[k] /\ origin'[k] = origin[k]
      BY <1>1, <1>6 DEF RedeemCommit, NewRefresh
    <2>4. ASSUME NEW k \in Rows(refresh')
          PROVE  refresh'[k].family = g[origin'[k]]
      <3>1. k \in TokenId
        BY <1>1, <1>6, <2>4 DEF RedeemCommit, Rows
      <3>2. CASE k = j
        BY <2>1, <2>3, <3>2
      <3>3. CASE k # j
        <4>1. k \in Rows(refresh) /\ origin[k] \in Code
          BY <1>1, <2>3, <2>4, <3>1, <3>3 DEF Rows, Lineage
        <4>2. QED
          BY <2>1, <2>3, <3>1, <3>3, <4>1
      <3>4. QED
        BY <3>2, <3>3
    <2>5. ASSUME NEW r \in Request, req'[r].op = "rotate"
          PROVE  req'[r].row.family = g[origin'[req'[r].token]]
      <3>1. req'[r] = req[r]
        BY <1>1, <1>6, <2>5 DEF RedeemCommit, Finish
      <3>2. QED
        BY <1>5, <2>1, <2>5, <3>1
    <2>6. QED
      <3> HIDE DEF g
      <3>1. QED
        BY <1>4, <2>2, <2>4, <2>5 DEF OneFamily
  <1>7. ASSUME ~ \E s \in Request, j \in TokenId : RedeemCommit(s, j)
        PROVE  OneFamily'
    <2>1. ASSUME NEW k \in Rows(refresh')
          PROVE  refresh'[k].family = f[origin'[k]]
      <3>1. \/ k \in Rows(refresh) /\ origin'[k] = origin[k]
                 /\ refresh'[k].family = refresh[k].family
            \/ \E r \in Request : /\ req[r].op = "rotate"
                                  /\ origin'[k] = origin[req[r].token]
                                  /\ refresh'[k].family = req[r].row.family
        BY <1>7, RefreshRows DEF RotateCommit
      <3>2. QED
        BY <3>1
    <2>2. ASSUME NEW r \in Request, req'[r].op = "rotate"
          PROVE  req'[r].row.family = f[origin'[req'[r].token]]
      BY <1>2, <1>5, <2>2
    <2>3. QED
      BY <1>4, <2>1, <2>2 DEF OneFamily
  <1>8. QED
    BY <1>6, <1>7

\* An authorization code is exchanged for one family of tokens, as long as no
\* two exchanges of the same code overlap (handleAuthorizationCode tests `used`
\* in a read of its own): whatever else is in flight, stale rotations included,
\* makes no second family.
THEOREM CodesAreOneTime == Spec /\ []ExchangesApart => []CodeIsOneTime
  <1>1. Init => OneFamily
    <2> SUFFICES ASSUME Init PROVE OneFamily
      OBVIOUS
    <2>1. [c \in Code |-> Unissued] \in [Code -> TokenId \cup {Unissued}]
      OBVIOUS
    <2>2. Rows(refresh) = {} /\ \A r \in Request : req[r].op = "idle"
      BY DEF Init, Rows, Idle
    <2>3. QED
      BY <2>1, <2>2 DEF OneFamily
  <1>2. IInv /\ ExchangesApart /\ OneFamily /\ [Next]_vars => OneFamily'
    BY OneFamilyStep
  <1>3. OneFamily => CodeIsOneTime
    BY DEF OneFamily, CodeIsOneTime
  <1>4. QED
    BY <1>1, <1>2, <1>3, Invariance, PTL DEF Spec

\* No rotation in flight belongs to a revoked family.
NoRotationRevoked ==
    \A r \in Request : req[r].op = "rotate" => req[r].row.family \notin killed

\* A revoked family gets no new token: only a rotation could store one.
LEMMA RevokedStep ==
    ASSUME IInv, RevocationsApart, RevokedFamilyIsDead, NoRotationRevoked, [Next]_vars
    PROVE  RevokedFamilyIsDead' /\ NoRotationRevoked'
  <1>1. /\ req \in [Request -> ReqState] /\ Idle.op = "idle"
        /\ refresh \in [TokenId -> RefreshRow \cup {Unissued, Deleted}]
        /\ killed \subseteq TokenId
        /\ Provenance
    BY DEF IInv, TypeOK, Idle
  <1>2. ASSUME NEW k \in Live(refresh')
        PROVE  refresh'[k].family \notin killed
    <2>1. refresh[k] = Unissued => k \notin killed
      BY <1>1, RowAssumption DEF Provenance
    <2>2. QED
      BY <1>2, <2>1, LiveStep DEF RevokedFamilyIsDead, NoRotationRevoked
  <1>3. ASSUME NEW r \in Request, req'[r].op = "rotate"
        PROVE  req'[r].row.family \notin killed
    BY <1>3, RotationStep DEF IInv, RevokedFamilyIsDead, NoRotationRevoked
  <1>4. ASSUME NEW s \in Request, RevokeFamily(s)
        PROVE  RevokedFamilyIsDead' /\ NoRotationRevoked'
    <2>1. /\ req[s].op = "family" /\ req' = [req EXCEPT ![s] = Idle]
          /\ refresh' = RevokeRows(refresh, Family(req[s].family))
          /\ killed' = killed \cup {req[s].family}
      BY <1>4 DEF RevokeFamily, Finish
    <2>2. ASSUME NEW k \in Live(refresh')
          PROVE  refresh'[k].family # req[s].family
      <3>1. k \in Live(refresh) /\ k \notin Family(req[s].family)
        BY <1>1, <2>1, <2>2, RevokeRefreshRows
      <3>2. k \in Rows(refresh)
        BY <3>1 DEF Live
      <3>3. refresh'[k].family = refresh[k].family
        BY <1>1, <2>1, <3>2, RevokeRefreshRows
      <3>4. QED
        BY <3>1, <3>2, <3>3 DEF Family
    <2>3. ASSUME NEW r \in Request, req'[r].op = "rotate"
          PROVE  req'[r].row.family # req[s].family
      BY <1>1, <2>1, <2>3 DEF RevocationsApart
    <2>4. QED
      BY <1>2, <1>3, <2>1, <2>2, <2>3 DEF RevokedFamilyIsDead, NoRotationRevoked
  <1>5. killed' = killed \/ \E s \in Request : RevokeFamily(s)
    <2>1. ASSUME NEW r \in Request, LoginStep(r) \/ TokenStep(r)
          PROVE  killed' = killed
      BY <2>1 DEF LoginStep, TokenStep, history, LoginRead, IssueAuthCode,
             RedeemRead, RedeemCommit, RotateRead, RotateCommit, DetectReuse,
             ClientCredentialsRead, ClientCredentialsCommit
    <2>2. ASSUME NEW r \in Request, RevokeStep(r) \/ UserStep(r) \/ Abort(r)
          PROVE  killed' = killed \/ RevokeFamily(r)
      BY <2>2 DEF RevokeStep, UserStep, history, RevokeRead, WithdrawRead,
             WithdrawAccess, WithdrawRefresh, WithdrawCommit, DeleteRead,
             DeleteUserRows, DeleteCommit, Abort
    <2>3. QED
      BY <2>1, <2>2 DEF Next, vars, history, RevokeAccess, SetClientStatus, Tick
  <1>6. QED
    BY <1>2, <1>3, <1>4, <1>5 DEF RevokedFamilyIsDead, NoRotationRevoked

\* RevokeService.revoke, and the detection of a reuse, end a family for good, as
\* long as no rotation of it is in flight while its tokens are updated.
THEOREM RevokedFamiliesAreDead == Spec /\ []RevocationsApart => []RevokedFamilyIsDead
  <1>1. Init => RevokedFamilyIsDead /\ NoRotationRevoked
    BY DEF Init, RevokedFamilyIsDead, NoRotationRevoked, Idle
  <1>2. IInv /\ RevocationsApart /\ RevokedFamilyIsDead /\ NoRotationRevoked /\ [Next]_vars
            => RevokedFamilyIsDead' /\ NoRotationRevoked'
    BY RevokedStep
  <1>3. QED
    BY <1>1, <1>2, Invariance, PTL DEF Spec

\* The statements of a withdrawal have seen every token of the user.
WithdrawSeesAll ==
    \A r \in Request :
        /\ req[r].op \in {"withdrawAccess", "withdrawRefresh"} =>
               RowsOf(access, req[r].user) \subseteq req[r].access
        /\ req[r].op = "withdrawRefresh" =>
               RowsOf(refresh, req[r].user) \subseteq req[r].refresh

\* What the statements of a withdrawal have listed stays all there is, as long
\* as nothing that stores tokens of the user is in flight.
LEMMA WithdrawSeesAllStep ==
    ASSUME IInv, WithdrawalsApart, WithdrawSeesAll, [Next]_vars
    PROVE  WithdrawSeesAll'
  <1>1. req \in [Request -> ReqState] /\ Idle.op = "idle"
    BY DEF IInv, TypeOK, Idle
  <1>2. ASSUME NEW r \in Request, req'[r] = req[r],
               req[r].op \in {"withdrawAccess", "withdrawRefresh"}
        PROVE  /\ RowsOf(access, req[r].user)' \subseteq RowsOf(access, req[r].user)
               /\ RowsOf(refresh, req[r].user)' \subseteq RowsOf(refresh, req[r].user)
    <2>1. req[r].user \in User
      BY <1>1, <1>2, ReqFields
    <2>2. ASSUME NEW k \in Rows(access'), access'[k].user = req[r].user
          PROVE  k \in Rows(access) /\ access[k].user = req[r].user
      <3>1. access'[k].user # NoUser
        BY <2>1, <2>2, RowAssumption
      <3>2. ASSUME NEW s \in Request, RedeemCommit(s, k) \/ RotateCommit(s, k)
            PROVE  req[s].row.user # req[r].user
        BY <1>2, <3>2 DEF WithdrawalsApart, RedeemCommit, RotateCommit
      <3>3. QED
        BY <2>2, <3>1, <3>2, AccessRows
    <2>3. ASSUME NEW k \in Rows(refresh'), refresh'[k].user = req[r].user
          PROVE  k \in Rows(refresh) /\ refresh[k].user = req[r].user
      <3>1. ASSUME NEW s \in Request, NEW j \in TokenId,
                   RedeemCommit(s, j) \/ RotateCommit(s, j)
            PROVE  req[s].row.user # req[r].user
        BY <1>2, <3>1 DEF WithdrawalsApart, RedeemCommit, RotateCommit
      <3>2. QED
        BY <2>3, <3>1, RefreshRows
    <2>4. QED
      BY <1>2, <2>2, <2>3 DEF RowsOf
  <1>3. ASSUME NEW r \in Request, WithdrawAccess(r)
        PROVE  /\ req'[r].op = "withdrawAccess"
               /\ RowsOf(access, req[r].user)' \subseteq req'[r].access
    BY <1>1, <1>3 DEF WithdrawAccess, Advance, tables, RowsOf, Rows
  <1>4. ASSUME NEW r \in Request, WithdrawRefresh(r)
        PROVE  /\ req'[r].op = "withdrawRefresh"
               /\ RowsOf(access, req[r].user)' \subseteq req'[r].access
               /\ RowsOf(refresh, req[r].user)' \subseteq req'[r].refresh
    BY <1>1, <1>4 DEF WithdrawRefresh, Advance, tables, RowsOf, Rows, WithdrawSeesAll
  <1>5. ASSUME NEW r \in Request
        PROVE  \/ req'[r] = req[r] \/ WithdrawAccess(r) \/ WithdrawRefresh(r)
               \/ req'[r].op \notin {"withdrawAccess", "withdrawRefresh"}
    BY <1>1, Moves DEF IInv, LoginRead, RedeemRead, RotateRead, WithdrawRead,
                       DeleteUserRows, Start, Advance
  <1>6. ASSUME NEW r \in Request, WithdrawAccess(r) \/ WithdrawRefresh(r)
        PROVE  req'[r].user = req[r].user
    BY <1>1, <1>6 DEF WithdrawAccess, WithdrawRefresh, Advance
  <1>7. QED
    BY <1>2, <1>3, <1>4, <1>5, <1>6 DEF WithdrawSeesAll, RowsOf

\* UsersService.deactivate and confirmReset leave the user no token, as long as
\* no exchange or rotation for the user is in flight during their transaction:
\* what was in flight before it began, or belongs to others, does no harm.
THEOREM WithdrawalsLeaveNothing == Spec /\ []WithdrawalsApart => WithdrawLeavesNothing
  <1>1. Init => WithdrawSeesAll
    BY DEF Init, WithdrawSeesAll, Idle
  <1>2. IInv /\ WithdrawalsApart /\ WithdrawSeesAll /\ [Next]_vars => WithdrawSeesAll'
    BY WithdrawSeesAllStep
  <1>3. ASSUME IInv, WithdrawSeesAll
        PROVE  \A r \in Request : WithdrawCommit(r) =>
                   \A k \in TokenId :
                       /\ k \in Live(refresh') => refresh'[k].user # req[r].user
                       /\ Accepts(k)' => access'[k].user # req[r].user
    <2> SUFFICES ASSUME NEW r \in Request, WithdrawCommit(r), NEW k \in TokenId
                 PROVE  /\ k \in Live(refresh') => refresh'[k].user # req[r].user
                        /\ k \in Live(access') => access'[k].user # req[r].user
      BY DEF Accepts
    <2>1. /\ req[r].op = "withdrawRefresh"
          /\ access' = RevokeRows(access, req[r].access)
          /\ refresh' = RevokeRows(refresh, req[r].refresh)
      BY DEF WithdrawCommit
    <2>2. /\ access \in [TokenId -> AccessRow \cup {Unissued, Deleted}]
          /\ refresh \in [TokenId -> RefreshRow \cup {Unissued, Deleted}]
      BY <1>3 DEF IInv, TypeOK
    <2>3. ASSUME k \in Live(refresh')
          PROVE  refresh'[k].user # req[r].user
      <3>1. k \in Live(refresh) /\ k \notin req[r].refresh /\ k \in Rows(refresh)
        BY <2>1, <2>2, <2>3, RevokeRefreshRows DEF Live
      <3>2. refresh'[k].user = refresh[k].user
        BY <2>1, <2>2, <3>1, RevokeRefreshRows
      <3>3. QED
        BY <1>3, <2>1, <3>1, <3>2 DEF WithdrawSeesAll, RowsOf
    <2>4. ASSUME k \in Live(access')
          PROVE  access'[k].user # req[r].user
      <3>1. k \in Live(access) /\ k \notin req[r].access /\ k \in Rows(access)
        BY <2>1, <2>2, <2>4, RevokeAccessRows DEF Live
      <3>2. access'[k].user = access[k].user
        BY <2>1, <2>2, <3>1, RevokeAccessRows
      <3>3. QED
        BY <1>3, <2>1, <3>1, <3>2 DEF WithdrawSeesAll, RowsOf
    <2>5. QED
      BY <2>3, <2>4
  <1>4. QED
    BY <1>1, <1>2, <1>3, Invariance, PTL DEF Spec, WithdrawLeavesNothing

\* Whoever logs in or is being withdrawn is stored.
SaversStored ==
    \A r \in Request :
        /\ req[r].op \in {"login", "withdraw", "withdrawAccess", "withdrawRefresh"} =>
               req[r].user \in users
        /\ req[r].op \in {"withdrawAccess", "withdrawRefresh"} => ~req[r].reborn

\* How the row of a user changes: only the savers bring a deleted one back.
LEMMA UsersStep ==
    ASSUME IInv, SaversStored, [Next]_vars
    PROVE  \/ users' = users
           \/ \E s \in Request : DeleteCommit(s)
  <1>1. ASSUME NEW r \in Request, LoginStep(r)
        PROVE  users' = users
    <2>1. users \subseteq User
      BY DEF IInv, TypeOK
    <2>2. QED
      BY <1>1, <2>1 DEF LoginStep, LoginRead, IssueAuthCode, SaversStored, tables
  <1>2. ASSUME NEW r \in Request, TokenStep(r) \/ RevokeStep(r) \/ Abort(r)
        PROVE  users' = users
    BY <1>2 DEF TokenStep, RevokeStep, Abort, tables, RedeemRead, RedeemCommit,
           RotateRead, RotateCommit, DetectReuse, ClientCredentialsRead,
           ClientCredentialsCommit, RevokeRead, RevokeFamily
  <1>3. ASSUME NEW r \in Request, UserStep(r)
        PROVE  users' = users \/ DeleteCommit(r)
    BY <1>3 DEF UserStep, tables, SaversStored, WithdrawRead, WithdrawAccess,
           WithdrawRefresh, WithdrawCommit, DeleteRead, DeleteUserRows
  <1>4. QED
    BY <1>1, <1>2, <1>3 DEF Next, vars, tables, RevokeAccess, SetClientStatus, Tick

\* A user that is about to be saved stays stored.
LEMMA SaversStoredStep ==
    ASSUME IInv, DeletionsApart, SaversStored, [Next]_vars
    PROVE  SaversStored'
  <1> DEFINE Saving == {"login", "withdraw", "withdrawAccess", "withdrawRefresh"}
  <1>1. req \in [Request -> ReqState] /\ Idle.op = "idle" /\ users \subseteq User
    BY DEF IInv, TypeOK, Idle
  <1>2. ASSUME NEW r \in Request, req'[r] = req[r], req[r].op \in Saving
        PROVE  req[r].user \in users'
    <2>1. ASSUME NEW s \in Request, DeleteCommit(s)
          PROVE  req[r].user \in users'
      BY <1>2, <2>1 DEF DeleteCommit, DeletionsApart, SaversStored
    <2>2. QED
      BY <1>2, <2>1, UsersStep DEF SaversStored
  <1>3. ASSUME NEW r \in Request, NEW u \in User,
               \/ WithdrawRead(r, u)
               \/ \E c \in Client, S \in SUBSET Scope : LoginRead(r, u, c, S)
        PROVE  req'[r].user \in users' /\ req'[r].op \in {"login", "withdraw"}
    BY <1>1, <1>3 DEF WithdrawRead, LoginRead, Start, tables
  <1>4. ASSUME NEW r \in Request, WithdrawAccess(r) \/ WithdrawRefresh(r)
        PROVE  /\ req'[r].user \in users' /\ ~req'[r].reborn
    <2>1. CASE WithdrawAccess(r)
      <3>1. req[r].user \in users /\ users' = users
        BY <2>1 DEF WithdrawAccess, tables, SaversStored
      <3>2. req'[r] = [op |-> "withdrawAccess", user |-> req[r].user,
                       known |-> req[r].known, reborn |-> req[r].user \notin users,
                       access |-> RowsOf(access, req[r].user)]
        BY <1>1, <2>1 DEF WithdrawAccess, Advance
      <3>3. req'[r].user = req[r].user /\ req'[r].reborn = (req[r].user \notin users)
        BY <3>2
      <3>4. QED
        BY <3>1, <3>3
    <2>2. CASE WithdrawRefresh(r)
      BY <1>1, <2>2 DEF WithdrawRefresh, Advance, tables, SaversStored
    <2>3. QED
      BY <1>4, <2>1, <2>2
  <1>5. ASSUME NEW r \in Request
        PROVE  \/ req'[r] = req[r] \/ WithdrawAccess(r) \/ WithdrawRefresh(r)
               \/ \E u \in User :
                      \/ WithdrawRead(r, u)
                      \/ \E c \in Client, S \in SUBSET Scope : LoginRead(r, u, c, S)
               \/ req'[r].op \notin Saving
    <2>1. ASSUME \/ \E code \in Code, c \in Client : RedeemRead(r, code, c)
                 \/ \E k \in TokenId, c \in Client, asked \in SUBSET Scope :
                        RotateRead(r, k, c, asked)
                 \/ DeleteUserRows(r)
          PROVE  req'[r].op \notin Saving
      BY <1>1, <2>1 DEF RedeemRead, RotateRead, DeleteUserRows, Start, Advance
    <2>2. TypeOK
      BY DEF IInv
    <2>3. QED
      BY <1>1, <2>1, <2>2, Moves
  <1>6. QED
    BY <1>2, <1>3, <1>4, <1>5 DEF SaversStored

\* A user whom UsersService.delete has removed does not come back, as long as no
\* login and no withdrawal of that user is in flight at the deletion: the two
\* that save the user row back.
THEOREM DeletedUsersStayDeleted == Spec /\ []DeletionsApart => DeletedUserStaysDeleted
  <1>1. Init => SaversStored
    BY DEF Init, SaversStored, Idle
  <1>2. IInv /\ DeletionsApart /\ SaversStored /\ [Next]_vars => SaversStored'
    BY SaversStoredStep
  <1>3. IInv /\ SaversStored /\ [Next]_vars => users' \subseteq users
    BY UsersStep DEF DeleteCommit
  <1>4. QED
    BY <1>1, <1>2, <1>3, Invariance, PTL DEF Spec, DeletedUserStaysDeleted
=============================================================================
