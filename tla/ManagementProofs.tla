-------------------------- MODULE ManagementProofs --------------------------
(***************************************************************************)
(* What a tenant's administration keeps up while its requests overlap, for *)
(* every number of requests and rows.                                      *)
(*                                                                         *)
(* Each part has one invariant.  It says, for a request in flight, that what *)
(* it has read is still true unless another request has committed since (late, *)
(* stale, or the row it is about to replace); the property follows because a *)
(* request that commits undisturbed stores what it was asked to.           *)
(***************************************************************************)
EXTENDS MCManagement, FiniteSetTheorems, TLAPS

-----------------------------------------------------------------------------
(***************************************************************************)
(* Schemas: the numbers of the versions.                                   *)
(***************************************************************************)
\* What a request in flight has read is still there: the number before the one
\* it takes, or the version that it deprecates.
VersionInHand(r) ==
    /\ req[r].op = "publish" =>
        /\ req[r].version \in 1 .. MaxVersion
        /\ req[r].version = 1 \/ req[r].version - 1 \in VersionsStored
    /\ req[r].op = "deprecate" =>
        /\ req[r].schema \in Published
        /\ req[r].row = [schemas[req[r].schema] EXCEPT !.published = FALSE]

SchemaIInv ==
    /\ schemas \in [Schema -> SchemaRow \cup {Unissued}]
    /\ DOMAIN req = Request
    /\ \A r \in Request : VersionInHand(r)
    /\ VersionsGapless

\* Every operation keeps the numbers gapless and what the others have read.
LEMMA SchemaStep == SchemaIInv /\ [SchemaNext]_schemaVars => SchemaIInv'
<1> SUFFICES ASSUME SchemaIInv, [SchemaNext]_schemaVars
             PROVE  SchemaIInv'
  OBVIOUS
<1> USE SchemasAssumption
\* A step that stores nothing keeps what the other requests have read.
<1>q. ASSUME UNCHANGED schemas, NEW r \in Request, NEW state,
             req' = [req EXCEPT ![r] = state], VersionInHand(r)'
      PROVE  SchemaIInv'
  <2>1. Published' = Published /\ VersionsStored' = VersionsStored
    BY <1>q DEF Published, VersionsStored
  <2>2. ASSUME NEW q \in Request PROVE VersionInHand(q)'
    <3>1. CASE q = r
      BY <1>q, <3>1
    <3>2. CASE q # r
      BY <1>q, <2>1, <3>2 DEF SchemaIInv, VersionInHand
    <3> QED BY <3>1, <3>2
  <2> QED BY <1>q, <2>1, <2>2 DEF SchemaIInv, VersionsGapless
<1>1. ASSUME NEW r \in Request, NEW n \in 1 .. MaxVersion, PublishRead(r, n)
      PROVE  SchemaIInv'
  <2>1. VersionInHand(r)'
    BY <1>1 DEF SchemaIInv, VersionInHand, VersionsStored, Published, PublishRead, Start
  <2> QED BY <1>1, <2>1, <1>q DEF PublishRead, Start
<1>2. ASSUME NEW r \in Request, NEW x \in Schema, DeprecateRead(r, x)
      PROVE  SchemaIInv'
  <2>1. VersionInHand(r)'
    BY <1>2 DEF SchemaIInv, VersionInHand, Published, DeprecateRead, Start
  <2> QED BY <1>2, <2>1, <1>q DEF DeprecateRead, Start
<1>3. ASSUME NEW r \in Request, AbandonSchema(r)
      PROVE  SchemaIInv'
  <2>1. VersionInHand(r)'
    BY <1>3 DEF SchemaIInv, VersionInHand, AbandonSchema, Abandon, Finish, Idle
  <2> QED BY <1>3, <2>1, <1>q DEF AbandonSchema, Abandon, Finish
<1>4. ASSUME NEW r \in Request, NEW x \in Schema, PublishSave(r, x)
      PROVE  SchemaIInv'
  <2> DEFINE n == req[r].version
  <2>1. n \in 1 .. MaxVersion /\ (n = 1 \/ n - 1 \in VersionsStored) /\ n \notin VersionsStored
    BY <1>4 DEF SchemaIInv, VersionInHand, PublishSave, VersionFree
  <2>2. schemas' = [schemas EXCEPT ![x] = [version |-> n, published |-> TRUE]]
        /\ schemas[x] = Unissued /\ req' = [req EXCEPT ![r] = Idle]
    BY <1>4 DEF PublishSave, Commit, Finish
  <2>3. schemas' \in [Schema -> SchemaRow \cup {Unissued}] /\ DOMAIN req' = Request
    BY <2>1, <2>2 DEF SchemaIInv, SchemaRow
  <2>4. Published' = Published \cup {x} /\ x \notin Published
    <3>1. [version |-> n, published |-> TRUE] \in SchemaRow
      BY <2>1 DEF SchemaRow
    <3> QED BY <2>2, <3>1 DEF Published, SchemaIInv
  <2>5. VersionsStored' = VersionsStored \cup {n}
    BY <2>2, <2>4 DEF VersionsStored, Published, SchemaIInv
  <2>6. VersionsGapless'
    <3>1. schemas'[x].version = n /\ \A y \in Published : schemas'[y] = schemas[y]
      BY <2>2, <2>4 DEF SchemaIInv, Published
    <3>2. \A y \in Published : schemas[y].version \in VersionsStored
      BY DEF VersionsStored
    <3>3. ASSUME NEW y \in Published', NEW z \in Published',
                 schemas'[y].version = schemas'[z].version
          PROVE  y = z
      <4>1. CASE y \in Published /\ z \in Published
        BY <3>1, <3>3, <4>1 DEF SchemaIInv, VersionsGapless
      <4>2. CASE y = x \/ z = x
        BY <2>1, <2>4, <3>1, <3>2, <3>3, <4>2
      <4> QED BY <2>4, <4>1, <4>2
    <3>4. \A m \in VersionsStored' : m = 1 \/ m - 1 \in VersionsStored'
      BY <2>1, <2>5 DEF SchemaIInv, VersionsGapless
    <3> QED BY <3>3, <3>4 DEF VersionsGapless
  <2>7. ASSUME NEW q \in Request PROVE VersionInHand(q)'
    <3>1. CASE q = r
      BY <2>2, <3>1 DEF VersionInHand, Idle, SchemaIInv
    <3>2. CASE q # r
      <4>1. req'[q] = req[q] /\ VersionInHand(q)
        BY <2>2, <3>2 DEF SchemaIInv
      <4> QED BY <4>1, <2>2, <2>4, <2>5 DEF VersionInHand, Published, SchemaIInv
    <3> QED BY <3>1, <3>2
  <2> QED BY <2>3, <2>6, <2>7 DEF SchemaIInv
<1>5. ASSUME NEW r \in Request, DeprecateSave(r)
      PROVE  SchemaIInv'
  <2> DEFINE x == req[r].schema
  <2>1. x \in Published /\ x \in Schema /\ schemas[x] \in SchemaRow
    BY <1>5 DEF SchemaIInv, VersionInHand, DeprecateSave, Published
  <2>2. schemas' = [schemas EXCEPT ![x] = [schemas[x] EXCEPT !.published = FALSE]]
        /\ req' = [req EXCEPT ![r] = Idle]
    BY <1>5 DEF SchemaIInv, VersionInHand, DeprecateSave, Commit, Finish
  <2>3. schemas' \in [Schema -> SchemaRow \cup {Unissued}] /\ DOMAIN req' = Request
    BY <2>1, <2>2 DEF SchemaIInv, SchemaRow
  <2>4. \A y \in Published : y \in Published' /\ schemas'[y].version = schemas[y].version
                             /\ schemas'[y] \in SchemaRow
                             /\ [schemas'[y] EXCEPT !.published = FALSE]
                                    = [schemas[y] EXCEPT !.published = FALSE]
    BY <2>1, <2>2 DEF Published, SchemaIInv, SchemaRow
  <2>5. Published' = Published
    BY <2>1, <2>2, <2>4 DEF Published, SchemaIInv
  <2>6. VersionsStored' = VersionsStored
    BY <2>4, <2>5 DEF VersionsStored
  <2>7. VersionsGapless'
    <3>1. \A y, z \in Published' : schemas'[y].version = schemas'[z].version => y = z
      <4>1. \A y \in Published : schemas'[y].version = schemas[y].version
        BY <2>4
      <4> QED BY <2>5, <4>1 DEF VersionsGapless, SchemaIInv
    <3>2. \A m \in VersionsStored' : m = 1 \/ m - 1 \in VersionsStored'
      BY <2>6 DEF VersionsGapless, SchemaIInv
    <3> QED BY <3>1, <3>2 DEF VersionsGapless
  <2>8. ASSUME NEW q \in Request PROVE VersionInHand(q)'
    <3>1. CASE q = r
      BY <2>2, <3>1 DEF VersionInHand, Idle, SchemaIInv
    <3>2. CASE q # r
      <4>1. req'[q] = req[q] /\ VersionInHand(q)
        BY <2>2, <3>2 DEF SchemaIInv
      <4> QED BY <4>1, <2>4, <2>6 DEF VersionInHand
    <3> QED BY <3>1, <3>2
  <2> QED BY <2>3, <2>7, <2>8 DEF SchemaIInv
<1>6. ASSUME UNCHANGED schemaVars PROVE SchemaIInv'
  BY <1>6 DEF schemaVars, requestVars, SchemaIInv, VersionInHand, VersionsGapless,
              VersionsStored, Published
<1> QED
  BY <1>1, <1>2, <1>3, <1>4, <1>5, <1>6 DEF SchemaNext

\* However publications overlap, numbers are distinct and have no gap.
THEOREM VersionsAreGapless == SchemaSpec => []VersionsGapless
<1>1. SchemaInit => SchemaIInv
  BY SchemasAssumption DEF SchemaInit, RequestInit, SchemaIInv, VersionInHand, VersionsGapless,
     VersionsStored, Published, Idle
<1>2. SchemaIInv => VersionsGapless
  BY DEF SchemaIInv
<1> QED BY <1>1, <1>2, SchemaStep, PTL DEF SchemaSpec

-----------------------------------------------------------------------------
(***************************************************************************)
(* Signing keys: who signs and who verifies.                               *)
(***************************************************************************)
\* Whoever has found no key and has not missed another one's still finds none.
KeyIInv ==
    /\ keys \in [SigningKey -> KeyRow \cup {Unissued}]
    /\ req \in [Request -> {Idle} \cup KeyWorking]
    /\ \A r \in Request \ stale : req[r].op \in {"absent", "retired"} => ActiveKeys = {}
    /\ SignerStaysVerifier

\* Every operation keeps it: a key is stored or retired, never changed.
LEMMA KeyStep == KeyIInv /\ [KeyNext]_keyVars => KeyIInv'
<1> SUFFICES ASSUME KeyIInv, [KeyNext]_keyVars
             PROVE  KeyIInv'
  OBVIOUS
<1>0. Idle.op = "idle"
  BY DEF Idle
<1>1. ASSUME NEW r \in Request, LookUp(r)
      PROVE  KeyIInv'
  <2>1. ActiveKeys = {} /\ UNCHANGED <<keys, signers, stale, late>>
        /\ req' = [req EXCEPT ![r] = [op |-> "absent", on |-> SigningKey]]
    BY <1>1 DEF LookUp, KeyMissing, Start
  <2>2. ActiveKeys' = ActiveKeys /\ NewestActive' = NewestActive
    BY <2>1 DEF ActiveKeys, NewestActive, Drawn
  <2>3. [op |-> "absent", on |-> SigningKey] \in KeyWorking
    BY DEF KeyWorking
  <2> QED BY <1>0, <2>1, <2>2, <2>3 DEF KeyIInv, SignerStaysVerifier
<1>2. ASSUME NEW r \in Request, RetireActive(r)
      PROVE  KeyIInv'
  <2>1. /\ req[r].op = "absent" /\ UNCHANGED <<signers, stale>>
        /\ req' = [req EXCEPT ![r].op = "retired"]
    BY <1>2 DEF RetireActive
  <2>2. /\ req' \in [Request -> {Idle} \cup KeyWorking]
        /\ \A q \in Request : req'[q].op \in {"absent", "retired"} =>
                                   req[q].op \in {"absent", "retired"}
    <3>1. req[r] \in KeyWorking
      BY <1>0, <2>1 DEF KeyIInv
    <3>2. [req[r] EXCEPT !.op = "retired"] \in KeyWorking
      BY <3>1 DEF KeyWorking
    <3> QED BY <2>1, <3>2 DEF KeyIInv
  <2>3. CASE UNCHANGED <<keys, late>>
    <3>1. ActiveKeys' = ActiveKeys /\ NewestActive' = NewestActive
      BY <2>3 DEF ActiveKeys, NewestActive, Drawn
    <3> QED BY <2>1, <2>2, <2>3, <3>1 DEF KeyIInv, SignerStaysVerifier
  <2>4. CASE /\ keys' = [k \in SigningKey |->
                            IF k \in ActiveKeys THEN [keys[k] EXCEPT !.status = "RETIRED"]
                                                ELSE keys[k]]
             /\ late' = IF r \in stale THEN late \cup ActiveKeys ELSE late
    <3>1. CASE ActiveKeys = {}
      <4>1. keys' = keys /\ late' = late
        BY <2>4, <3>1 DEF KeyIInv
      <4> QED BY <2>3, <4>1
    <3>2. CASE ActiveKeys # {}
      <4>1. r \in stale /\ late' # {}
        BY <2>1, <2>4, <3>2 DEF KeyIInv
      <4>2. \A q \in Request \ stale : req[q].op \notin {"absent", "retired"}
        BY <3>2 DEF KeyIInv
      <4>3. keys' \in [SigningKey -> KeyRow \cup {Unissued}]
        <5>1. \A k \in ActiveKeys : keys[k] \in KeyRow
          BY DEF ActiveKeys, Drawn, KeyIInv
        <5>2. \A k \in ActiveKeys : [keys[k] EXCEPT !.status = "RETIRED"] \in KeyRow
          BY <5>1 DEF KeyRow, KeyStatus
        <5> QED BY <2>4, <5>2 DEF KeyIInv
      <4> QED BY <2>1, <2>2, <4>1, <4>2, <4>3 DEF KeyIInv, SignerStaysVerifier
    <3> QED BY <3>1, <3>2
  <2> QED BY <1>2, <2>3, <2>4 DEF RetireActive
<1>3. ASSUME NEW r \in Request, NEW k \in SigningKey, InsertKey(r, k)
      PROVE  KeyIInv'
  <2>1. /\ req[r].op = "retired" /\ UNCHANGED signers
        /\ req' = [req EXCEPT ![r] = Idle]
        /\ late' = IF r \in stale THEN late \cup {k} ELSE late
        /\ stale' = (stale \cup {q \in Request : Reads(q, k)}) \ {r}
    BY <1>3 DEF InsertKey, Commit, Finish
  <2>2. \A q \in Request \ stale' : req'[q].op \notin {"absent", "retired"}
    BY <1>0, <2>1 DEF KeyIInv, KeyWorking, Reads
  <2>4. late # {} => late' # {}
    BY <2>1
  <2>5. SignerStaysVerifier'
    <3>1. CASE r \in stale
      BY <2>1, <3>1 DEF SignerStaysVerifier
    <3>2. CASE r \notin stale
      <4>1. ActiveKeys = {}
        BY <2>1, <3>2 DEF KeyIInv
      <4>2. signers = {} \/ late # {}
        BY <4>1 DEF KeyIInv, SignerStaysVerifier, NewestActive
      <4> QED BY <2>1, <2>4, <4>2 DEF SignerStaysVerifier
    <3> QED BY <3>1, <3>2
  <2>6. keys' \in [SigningKey -> KeyRow \cup {Unissued}]
    <3>1. IsFiniteSet(Drawn)
      BY KeysAssumption, FS_Subset DEF Drawn
    <3>2. Cardinality(Drawn) + 1 \in Nat
      BY <3>1, FS_CardinalityType
    <3> QED BY <1>3, <3>2 DEF KeyIInv, InsertKey, KeyRow, KeyStatus
  <2>7. req' \in [Request -> {Idle} \cup KeyWorking]
    BY <2>1 DEF KeyIInv
  <2> QED BY <2>2, <2>5, <2>6, <2>7 DEF KeyIInv
<1>4. ASSUME NEW k \in SigningKey, Sign(k)
      PROVE  KeyIInv'
  <2>1. /\ k \in NewestActive /\ signers' = signers \cup {k}
        /\ UNCHANGED <<keys, req, stale, late>>
    BY <1>4 DEF Sign, requestVars
  <2>2. ActiveKeys' = ActiveKeys /\ NewestActive' = NewestActive
    BY <2>1 DEF ActiveKeys, NewestActive, Drawn
  <2> QED BY <2>1, <2>2 DEF KeyIInv, SignerStaysVerifier
<1>5. ASSUME NEW r \in Request, AbandonKey(r)
      PROVE  KeyIInv'
  <2>1. /\ req' = [req EXCEPT ![r] = Idle] /\ stale' = stale \ {r}
        /\ UNCHANGED <<keys, signers, late>>
    BY <1>5 DEF AbandonKey, Abandon, Finish
  <2>2. ActiveKeys' = ActiveKeys /\ NewestActive' = NewestActive
    BY <2>1 DEF ActiveKeys, NewestActive, Drawn
  <2> QED BY <1>0, <2>1, <2>2 DEF KeyIInv, SignerStaysVerifier
<1>6. ASSUME UNCHANGED keyVars PROVE KeyIInv'
  BY <1>6 DEF keyVars, requestVars, KeyIInv, SignerStaysVerifier, ActiveKeys, NewestActive, Drawn
<1> QED
  BY <1>1, <1>2, <1>3, <1>4, <1>5, <1>6 DEF KeyNext

\* Every key that signed a live token is the one a verifier takes
\* (oauth-token-verifier.service.ts:69), for any number of instances and keys,
\* unless a key was generated by somebody who had missed another one's.
THEOREM SignersVerify == KeySpec => []SignerStaysVerifier
<1>1. KeyInit => KeyIInv
  BY DEF KeyInit, RequestInit, KeyIInv, SignerStaysVerifier, Idle
<1>2. KeyIInv => SignerStaysVerifier
  BY DEF KeyIInv
<1> QED BY <1>1, <1>2, KeyStep, PTL DEF KeySpec

-----------------------------------------------------------------------------
(***************************************************************************)
(* Providers: what each of them serves.                                    *)
(***************************************************************************)
\* Whoever saves has found the scope free, or owns it already, unless somebody
\* has committed since.
ScopeDecided(r) ==
    /\ req[r].op = "create" => ScopeFree(req[r].row, {})
    /\ req[r].op = "update" =>
        \/ ScopeFree(req[r].row, {req[r].id})
        \/ /\ req[r].id \in Live
           /\ req[r].row.client = providers[req[r].id].client
           /\ req[r].row.domains = providers[req[r].id].domains

ProviderIInv ==
    /\ providers \in [Provider -> Row \cup {Unissued}]
    /\ req \in [Request -> {Idle} \cup ProviderWorking]
    /\ \A r \in Request : req[r] # Idle => ~req[r].row.deleted
    /\ \A r \in Request \ stale : ScopeDecided(r)
    /\ AmbiguousOnlyLate
    /\ OneWithoutDomains

\* Whether two providers overlap does not depend on the order.
LEMMA OverlapSymmetric ==
    ASSUME NEW row \in Row, NEW other \in Row, Overlap(row, other)
    PROVE  Overlap(other, row)
BY DEF Overlap

\* What a request in flight carries.
LEMMA WorkingFacts ==
    ASSUME NEW w \in ProviderWorking
    PROVE  /\ w.row \in Row /\ w.on = Provider /\ w # Idle
           /\ w.op \in {"create", "update"}
           /\ w.op = "update" => w.id \in Provider
BY DEF ProviderWorking, Idle

\* A provider stored in a free scope overlaps no other.
LEMMA ProviderStore ==
    ASSUME ProviderIInv, NEW r \in Request, NEW x \in Provider, NEW row \in Row,
           ~row.deleted, req[r] # Idle, Store(r, x, row),
           r \notin stale =>
               \/ ScopeFree(row, {x})
               \/ /\ x \in Live
                  /\ row.client = providers[x].client /\ row.domains = providers[x].domains
    PROVE  ProviderIInv'
<1> USE ProviderAssumption
<1>1. /\ providers' = [providers EXCEPT ![x] = row]
      /\ req' = [req EXCEPT ![r] = Idle]
      /\ late' = IF r \in stale THEN late \cup {x} ELSE late
      /\ stale' = (stale \cup {q \in Request : Reads(q, x)}) \ {r}
      /\ row.domains = {} => ScopeFree(row, {x})
  BY DEF Store, IndexAllows, Commit, Finish
<1>2. providers' \in [Provider -> Row \cup {Unissued}]
  BY <1>1 DEF ProviderIInv
<1>3. /\ req' \in [Request -> {Idle} \cup ProviderWorking]
      /\ \A q \in Request : req'[q] # Idle => ~req'[q].row.deleted
  BY <1>1 DEF ProviderIInv
<1>4. \A q \in Request \ stale' : ScopeDecided(q)'
  <2>1. \A q \in Request \ stale' : req'[q] = Idle
    BY <1>1, WorkingFacts DEF ProviderIInv, Reads
  <2> QED BY <2>1 DEF ScopeDecided, Idle
<1>5. Live' = Live \cup {x} /\ \A y \in Live \ {x} : providers'[y] = providers[y]
  BY <1>1, <1>2 DEF Live, ProviderIInv
<1>6. providers'[x] = row /\ \A y \in Live : providers[y] \in Row
  BY <1>1 DEF ProviderIInv, Live
<1>7. AmbiguousOnlyLate'
  <2>1. ASSUME NEW y \in Live \ {x}, Overlap(row, providers[y])
        PROVE  x \in late' \/ y \in late'
    <3>1. CASE r \in stale
      BY <1>1, <3>1
    <3>2. CASE r \notin stale /\ ~ScopeFree(row, {x})
      <4>1. x \in Live /\ Overlap(providers[x], providers[y])
        BY <3>2, <2>1 DEF Overlap
      <4> QED BY <1>1, <3>2, <4>1 DEF ProviderIInv, AmbiguousOnlyLate
    <3> QED BY <2>1, <3>1, <3>2 DEF ScopeFree
  <2>2. ASSUME NEW y \in Live', NEW z \in Live', y # z, Overlap(providers'[y], providers'[z])
        PROVE  y \in late' \/ z \in late'
    <3>1. CASE y = x
      BY <1>5, <1>6, <2>1, <2>2, <3>1
    <3>2. CASE z = x
      <4>1. y \in Live \ {x} /\ providers'[y] = providers[y] /\ providers[y] \in Row
        BY <1>5, <1>6, <2>2, <3>2
      <4>2. Overlap(row, providers[y])
        BY <1>6, <2>2, <3>2, <4>1, OverlapSymmetric
      <4> QED BY <2>1, <3>2, <4>1, <4>2
    <3>3. CASE y # x /\ z # x
      <4>1. y \in late \/ z \in late
        BY <1>5, <2>2, <3>3 DEF ProviderIInv, AmbiguousOnlyLate
      <4> QED BY <1>1, <4>1
    <3> QED BY <3>1, <3>2, <3>3
  <2> QED BY <2>2 DEF AmbiguousOnlyLate, Overlap
<1>8. OneWithoutDomains'
  <2>1. ASSUME NEW y \in Live \ {x}, row.domains = {}, providers[y].domains = {}
        PROVE  row.client # providers[y].client
    BY <1>1, <2>1 DEF ScopeFree, Overlap
  <2> QED BY <1>5, <1>6, <2>1 DEF OneWithoutDomains, ProviderIInv
<1> QED BY <1>2, <1>3, <1>4, <1>7, <1>8 DEF ProviderIInv

\* Every operation keeps it; the indexes decide where the look was too early.
LEMMA ProviderStep == ProviderIInv /\ [ProviderNext]_providerVars => ProviderIInv'
<1> SUFFICES ASSUME ProviderIInv, [ProviderNext]_providerVars
             PROVE  ProviderIInv'
  OBVIOUS
<1> USE ProviderAssumption
\* A request begins, or is abandoned.
<1>q. ASSUME UNCHANGED <<providers, late>>, NEW r \in Request,
             NEW state \in {Idle} \cup ProviderWorking,
             req' = [req EXCEPT ![r] = state], stale \subseteq stale' \cup {r},
             state # Idle => ~state.row.deleted, ScopeDecided(r)'
      PROVE  ProviderIInv'
  <2>1. Live' = Live
    BY <1>q DEF Live
  <2>2. ASSUME NEW q \in Request \ stale' PROVE ScopeDecided(q)'
    <3>1. CASE q = r
      BY <1>q, <3>1
    <3>2. CASE q # r
      <4>1. req'[q] = req[q] /\ ScopeDecided(q)
        BY <1>q, <3>2 DEF ProviderIInv
      <4> QED BY <1>q, <2>1, <4>1 DEF ScopeDecided, ScopeFree
    <3> QED BY <3>1, <3>2
  <2>3. AmbiguousOnlyLate' /\ OneWithoutDomains'
    BY <1>q, <2>1 DEF ProviderIInv, AmbiguousOnlyLate, OneWithoutDomains
  <2>4. /\ req' \in [Request -> {Idle} \cup ProviderWorking]
        /\ \A q \in Request : req'[q] # Idle => ~req'[q].row.deleted
    BY <1>q DEF ProviderIInv
  <2> QED BY <1>q, <2>2, <2>3, <2>4 DEF ProviderIInv
<1>1. ASSUME NEW r \in Request, NEW settings \in Sent, CreateCheck(r, settings)
      PROVE  ProviderIInv'
  <2> DEFINE row == NewRow(settings, 0)
             state == [op |-> "create", on |-> Provider, row |-> row]
  <2>1. row \in Row /\ ~row.deleted
    BY ProvidersAssumption DEF NewRow, Row, Settings
  <2>2. state \in ProviderWorking
    BY <2>1 DEF ProviderWorking
  <2>3. ScopeDecided(r)'
    BY <1>1 DEF CreateCheck, Start, ScopeDecided, ScopeFree, Live, Overlap, NewRow, ProviderIInv
  <2> QED BY <1>1, <1>q, <2>1, <2>2, <2>3 DEF CreateCheck, Start
<1>2. ASSUME NEW r \in Request, NEW x \in Provider, NEW settings \in Sent,
             UpdateCheck(r, x, settings)
      PROVE  ProviderIInv'
  <2> DEFINE row == NewRow(settings, providers[x].created)
             state == [op |-> "update", on |-> Provider, id |-> x, row |-> row]
  <2>1. providers[x] \in Row
    BY <1>2 DEF UpdateCheck, Live, ProviderIInv
  <2>2. row \in Row /\ ~row.deleted
    BY <2>1, ProvidersAssumption DEF NewRow, Row, Settings
  <2>3. state \in ProviderWorking
    BY <2>2 DEF ProviderWorking
  <2>4. ScopeDecided(r)'
    BY <1>2 DEF UpdateCheck, Start, ScopeDecided, ScopeFree, Live, Overlap, ProviderIInv
  <2> QED BY <1>2, <1>q, <2>2, <2>3, <2>4 DEF UpdateCheck, Start
<1>3. ASSUME NEW r \in Request, NEW x \in Provider, CreateProviderSave(r, x)
      PROVE  ProviderIInv'
  <2> DEFINE n == Cardinality({y \in Provider : providers[y] # Unissued}) + 1
             row == [req[r].row EXCEPT !.created = n]
  <2>1. req[r].op = "create" /\ req[r] \in ProviderWorking /\ Store(r, x, row)
        /\ req[r] # Idle /\ ~req[r].row.deleted /\ req[r].row \in Row
    BY <1>3, WorkingFacts DEF CreateProviderSave, ProviderIInv, Idle
  <2>2. n \in Nat
    <3>1. IsFiniteSet({y \in Provider : providers[y] # Unissued})
      BY ProvidersAssumption, FS_Subset
    <3> QED BY <3>1, FS_CardinalityType
  <2>3. row \in Row /\ ~row.deleted
    BY <2>1, <2>2 DEF Row
  <2>4. ASSUME r \notin stale PROVE ScopeFree(row, {x})
    BY <2>1, <2>4 DEF ProviderIInv, ScopeDecided, ScopeFree, Overlap, Row
  <2> HIDE DEF row
  <2> QED BY <2>1, <2>3, <2>4, ProviderStore
<1>4. ASSUME NEW r \in Request, UpdateSave(r)
      PROVE  ProviderIInv'
  <2>1. /\ req[r].op = "update" /\ req[r] # Idle /\ Store(r, req[r].id, req[r].row)
        /\ ~req[r].row.deleted /\ req[r].row \in Row /\ req[r].id \in Provider
    BY <1>4, WorkingFacts DEF UpdateSave, ProviderIInv, Idle
  <2>2. r \notin stale => ScopeDecided(r)
    BY DEF ProviderIInv
  <2> QED BY <2>1, <2>2, ProviderStore DEF ScopeDecided
<1>5. ASSUME NEW r \in Request, AbandonProvider(r)
      PROVE  ProviderIInv'
  <2>1. ScopeDecided(r)'
    BY <1>5 DEF AbandonProvider, Abandon, Finish, ScopeDecided, Idle, ProviderIInv
  <2> QED BY <1>5, <1>q, <2>1 DEF AbandonProvider, Abandon, Finish
<1>6. ASSUME NEW x \in Provider, Remove(x)
      PROVE  ProviderIInv'
  <2>1. /\ providers' = [providers EXCEPT ![x].deleted = TRUE]
        /\ UNCHANGED <<req, late>> /\ stale' = stale \cup {q \in Request : Reads(q, x)}
        /\ x \in Live /\ providers[x] \in Row
    BY <1>6 DEF Remove, Touch, Live, ProviderIInv
  <2>2. providers' \in [Provider -> Row \cup {Unissued}]
    <3>1. [providers[x] EXCEPT !.deleted = TRUE] \in Row
      BY <2>1 DEF Row
    <3> QED BY <2>1, <3>1 DEF ProviderIInv
  <2>3. Live' \subseteq Live /\ \A y \in Live' : providers'[y] = providers[y]
    <3>1. providers'[x].deleted
      BY <2>1 DEF ProviderIInv, Row
    <3>2. \A y \in Provider \ {x} : providers'[y] = providers[y]
      BY <2>1 DEF ProviderIInv
    <3> QED BY <3>1, <3>2 DEF Live
  <2>4. AmbiguousOnlyLate' /\ OneWithoutDomains'
    <3>1. AmbiguousOnlyLate'
      BY <2>1, <2>3 DEF ProviderIInv, AmbiguousOnlyLate
    <3>2. OneWithoutDomains'
      BY <2>3 DEF ProviderIInv, OneWithoutDomains
    <3> QED BY <3>1, <3>2
  <2>5. \A q \in Request \ stale' : ScopeDecided(q)'
    <3>1. \A q \in Request : req[q] = Idle \/ req[q].on = Provider
      BY WorkingFacts DEF ProviderIInv
    <3>2. \A q \in Request \ stale' : req'[q] = Idle
      BY <2>1, <3>1 DEF Reads
    <3> QED BY <3>2 DEF ScopeDecided, Idle
  <2> QED BY <2>1, <2>2, <2>4, <2>5 DEF ProviderIInv
<1>7. ASSUME UNCHANGED providerVars PROVE ProviderIInv'
  BY <1>7 DEF providerVars, requestVars, ProviderIInv, AmbiguousOnlyLate, OneWithoutDomains,
              ScopeDecided, ScopeFree, Live
<1> QED
  BY <1>1, <1>2, <1>3, <1>4, <1>5, <1>6, <1>7 DEF ProviderNext

\* Two of the best for a login claim the same scope, so the rank decides unless
\* the scopes have clashed.
LEMMA RankDecides == ProviderIInv => ChoiceIsUnique
<1> SUFFICES ASSUME ProviderIInv, NEW c \in Client, NEW d \in Domain,
                    NEW x \in Best(c, d), NEW y \in Best(c, d), x # y
             PROVE  x \in late \/ y \in late
  BY DEF ChoiceIsUnique
<1>1. /\ x \in Live /\ y \in Live /\ Rank(x, c) <= Rank(y, c) /\ Rank(y, c) <= Rank(x, c)
      /\ providers[x].client \in {c, AnyClient} /\ providers[y].client \in {c, AnyClient}
      /\ providers[x].domains = {} \/ d \in providers[x].domains
      /\ providers[y].domains = {} \/ d \in providers[y].domains
  BY DEF Best, Candidates, Serves
<1>2. providers[x].client = providers[y].client
      /\ (providers[x].domains = {} <=> providers[y].domains = {})
  BY <1>1 DEF Rank
<1>3. Overlap(providers[x], providers[y])
  BY <1>1, <1>2 DEF Overlap
<1> QED BY <1>1, <1>3 DEF ProviderIInv, AmbiguousOnlyLate

\* Two active providers claim the same client and domain only if one of them was
\* saved by a request that had read before another committed, and at most one
\* without domains is stored for a client whatever the requests do
\* (external-auth.service.ts:362-401).
THEOREM ScopesStayApart == ProviderSpec => []ScopesApart
<1>1. ProviderInit => ProviderIInv
  BY DEF ProviderInit, RequestInit, ProviderIInv, ScopeDecided, AmbiguousOnlyLate,
         OneWithoutDomains, Live, Idle
<1>2. ProviderIInv => ScopesApart
  BY RankDecides DEF ProviderIInv, ScopesApart
<1> QED BY <1>1, <1>2, ProviderStep, PTL DEF ProviderSpec

-----------------------------------------------------------------------------
(***************************************************************************)
(* Roles and permissions.                                                  *)
(***************************************************************************)
\* The rows that a request is to replace, and those a token has been read from,
\* are still there unless somebody has changed them since.
SetInHand(r) ==
    /\ req[r].op = "setPermissions" /\ req[r].begun =>
           PermissionsOf(req[r].role) = req[r].seen
    /\ req[r].op = "setRoles" /\ req[r].begun => RolesOf(req[r].user) = req[r].seen
    /\ req[r].op = "claims" => RolesOf(req[r].user) = req[r].roles

\* What a request has to have read for that.
ReadsItsSet(w) ==
    /\ w.op = "setPermissions" => w.role \in w.on
    /\ w.op = "setRoles" => w.user \in w.on
    /\ w.op = "claims" => w.user \in w.on /\ TenantRole \subseteq w.on

RbacRows ==
    /\ roles \in [TenantRole -> RoleRow \cup {Unissued, Deleted}]
    /\ permissions \subseteq Permission
    /\ granted \subseteq Roles \X permissions
    /\ members \subseteq User \X Roles

RbacRequests ==
    /\ req \in [Request -> {Idle} \cup RbacWorking]
    /\ \A r \in Request : ReadsItsSet(req[r])

RbacIInv ==
    /\ RbacRows
    /\ RbacRequests
    /\ \A r \in Request \ stale : SetInHand(r)

RbacOps == {"saveRole", "setPermissions", "setRoles", "assign", "claims", "signed"}

\* What a request in flight carries.
LEMMA RbacWorkingFacts ==
    ASSUME NEW w \in RbacWorking
    PROVE  /\ w.op \in RbacOps /\ w # Idle
           /\ w.op = "saveRole" => w.role \in TenantRole /\ w.row \in RoleRow
           /\ w.op = "setPermissions" =>
                w \in [op : {"setPermissions"}, on : SUBSET TenantRole, role : TenantRole,
                       new : SUBSET Permission, seen : SUBSET Permission, begun : BOOLEAN]
           /\ w.op = "setRoles" =>
                w \in [op : {"setRoles"}, on : SUBSET User, user : User,
                       new : SUBSET TenantRole, seen : SUBSET TenantRole, begun : BOOLEAN]
           /\ w.op = "assign" => w.user \in User
           /\ w.op = "claims" => w.user \in User
BY DEF RbacWorking, RbacOps, Idle

\* The roles stored are roles of the tenant.
LEMMA RolesFacts == Roles \subseteq TenantRole
BY DEF Roles

\* A handler begins, goes on or is abandoned: the tables stay.
LEMMA RbacQuiet ==
    ASSUME RbacIInv, UNCHANGED rbacTables, NEW r \in Request,
           NEW state \in {Idle} \cup RbacWorking, req' = [req EXCEPT ![r] = state],
           stale \subseteq stale' \cup {r}, ReadsItsSet(state),
           r \in stale' \/ SetInHand(r)'
    PROVE  RbacIInv'
<1>1. RbacRows'
  BY DEF RbacIInv, RbacRows, Roles, rbacTables
<1>2. RbacRequests'
  BY DEF RbacIInv, RbacRequests, ReadsItsSet
<1>3. ASSUME NEW q \in Request \ stale' PROVE SetInHand(q)'
  <2>1. CASE q = r
    BY <1>3, <2>1
  <2>2. CASE q # r
    <3>1. req'[q] = req[q] /\ SetInHand(q)
      BY <1>3, <2>2 DEF RbacIInv, RbacRequests
    <3> QED BY <3>1 DEF SetInHand, PermissionsOf, RolesOf, rbacTables
  <2> QED BY <2>1, <2>2
<1> QED BY <1>1, <1>2, <1>3 DEF RbacIInv

\* A commit to x: whoever has not read x still has what it has read.
LEMMA RbacCommit ==
    ASSUME RbacIInv, RbacRows', NEW x, NEW r,
           \A y \in TenantRole \ {x} : PermissionsOf(y)' = PermissionsOf(y),
           \A u \in User \ {x} : RolesOf(u)' = RolesOf(u),
           req' = [req EXCEPT ![r] = Idle],
           stale' = (stale \cup {q \in Request : Reads(q, x)}) \ {r}
    PROVE  RbacIInv'
<1>1. RbacRequests'
  BY DEF RbacIInv, RbacRequests, ReadsItsSet, Idle
<1>2. ASSUME NEW q \in Request \ stale' PROVE SetInHand(q)'
  <2>1. CASE q = r
    BY <2>1 DEF RbacIInv, RbacRequests, SetInHand, Idle
  <2>2. CASE q # r /\ req[q] = Idle
    BY <2>2 DEF RbacIInv, RbacRequests, SetInHand, Idle
  <2>3. CASE q # r /\ req[q] # Idle
    <3>1. req'[q] = req[q] /\ SetInHand(q) /\ x \notin req[q].on
          /\ ReadsItsSet(req[q]) /\ req[q] \in RbacWorking
      BY <1>2, <2>3 DEF RbacIInv, RbacRequests, Reads
    <3>2. /\ req[q].op = "setPermissions" =>
                req[q].role \in TenantRole /\ req[q].role # x
          /\ req[q].op = "setRoles" => req[q].user \in User /\ req[q].user # x
          /\ req[q].op = "claims" => req[q].user \in User /\ req[q].user # x
      BY <3>1, RbacWorkingFacts DEF ReadsItsSet
    <3> QED BY <3>1, <3>2 DEF SetInHand
  <2> QED BY <2>1, <2>2, <2>3
<1> QED BY <1>1, <1>2 DEF RbacIInv

\* The same, of a request that reads and writes x in one statement.
LEMMA RbacTouch ==
    ASSUME RbacIInv, RbacRows', NEW x,
           \A y \in TenantRole \ {x} : PermissionsOf(y)' = PermissionsOf(y),
           \A u \in User \ {x} : RolesOf(u)' = RolesOf(u),
           Touch(x)
    PROVE  RbacIInv'
<1>1. RbacRequests'
  BY DEF RbacIInv, RbacRequests, ReadsItsSet, Touch
<1>2. ASSUME NEW q \in Request \ stale' PROVE SetInHand(q)'
  <2>1. CASE req[q] = Idle
    BY <2>1 DEF Touch, RbacIInv, RbacRequests, SetInHand, Idle
  <2>2. CASE req[q] # Idle
    <3>1. req'[q] = req[q] /\ SetInHand(q) /\ x \notin req[q].on
          /\ ReadsItsSet(req[q]) /\ req[q] \in RbacWorking
      BY <1>2, <2>2 DEF RbacIInv, RbacRequests, Reads, Touch
    <3>2. /\ req[q].op = "setPermissions" =>
                req[q].role \in TenantRole /\ req[q].role # x
          /\ req[q].op = "setRoles" => req[q].user \in User /\ req[q].user # x
          /\ req[q].op = "claims" => req[q].user \in User /\ req[q].user # x
      BY <3>1, RbacWorkingFacts DEF ReadsItsSet
    <3> QED BY <3>1, <3>2 DEF SetInHand
  <2> QED BY <2>1, <2>2
<1> QED BY <1>1, <1>2 DEF RbacIInv

\* A removal outdates every request in flight.
LEMMA RbacRemoval ==
    ASSUME RbacIInv, RbacRows', req' = req,
           stale' = stale \cup {q \in Request : req[q] # Idle}
    PROVE  RbacIInv'
<1>1. RbacRequests'
  BY DEF RbacIInv, RbacRequests, ReadsItsSet
<1>2. \A q \in Request \ stale' : SetInHand(q)'
  BY DEF RbacIInv, RbacRequests, SetInHand, Idle
<1> QED BY <1>1, <1>2 DEF RbacIInv

\* Creation, change and deletion of roles.
LEMMA RbacRoleSteps ==
    ASSUME RbacIInv, NEW x \in TenantRole,
           \/ \E isDefault \in BOOLEAN : CreateRole(x, isDefault)
           \/ RemoveRole(x)
    PROVE  RbacIInv'
<1> USE RbacAssumption
<1>1. ASSUME NEW isDefault \in BOOLEAN, CreateRole(x, isDefault)
      PROVE  RbacIInv'
  <2>1. RbacRows'
    <3>1. [isDefault |-> isDefault] \in RoleRow
      BY DEF RoleRow
    <3>2. roles' \in [TenantRole -> RoleRow \cup {Unissued, Deleted}]
      BY <1>1, <3>1 DEF CreateRole, RbacIInv, RbacRows
    <3>3. Roles \subseteq Roles'
      BY <1>1, <3>1 DEF CreateRole, RbacIInv, RbacRows, Roles
    <3> QED BY <1>1, <3>2, <3>3 DEF CreateRole, RbacIInv, RbacRows
  <2> QED BY <1>1, <2>1, RbacTouch DEF CreateRole, PermissionsOf, RolesOf
<1>2. ASSUME RemoveRole(x)
      PROVE  RbacIInv'
  <2>1. RbacRows'
    <3>1. roles' \in [TenantRole -> RoleRow \cup {Unissued, Deleted}]
      BY <1>2 DEF RemoveRole, RbacIInv, RbacRows
    <3>2. Roles' = Roles \ {x}
      BY <1>2 DEF RemoveRole, RbacIInv, RbacRows, Roles
    <3>3. granted' \subseteq Roles' \X permissions'
      BY <1>2, <3>2 DEF RemoveRole, RbacIInv, RbacRows
    <3>4. members' \subseteq User \X Roles'
      BY <1>2, <3>2 DEF RemoveRole, MembersWithout, RbacIInv, RbacRows
    <3> QED BY <1>2, <3>1, <3>3, <3>4 DEF RemoveRole, RbacIInv, RbacRows
  <2> QED BY <1>2, <2>1, RbacRemoval DEF RemoveRole
<1> QED BY <1>1, <1>2

\* Creation and deletion of permissions.
LEMMA RbacPermissionSteps ==
    ASSUME RbacIInv, NEW p \in Permission, CreatePermission(p) \/ RemovePermission(p)
    PROVE  RbacIInv'
<1>1. ASSUME CreatePermission(p) PROVE RbacIInv'
  <2>1. RbacRows'
    BY <1>1 DEF CreatePermission, RbacIInv, RbacRows, Roles
  <2>2. RbacRequests'
    BY <1>1 DEF CreatePermission, requestVars, RbacIInv, RbacRequests, ReadsItsSet
  <2>3. \A q \in Request \ stale' : SetInHand(q)'
    BY <1>1 DEF CreatePermission, requestVars, RbacIInv, SetInHand, PermissionsOf, RolesOf
  <2> QED BY <2>1, <2>2, <2>3 DEF RbacIInv
<1>2. ASSUME RemovePermission(p) PROVE RbacIInv'
  <2>1. RbacRows'
    <3>1. granted' \subseteq Roles \X (permissions \ {p})
      BY <1>2 DEF RemovePermission, RbacIInv, RbacRows, Roles
    <3> QED BY <1>2, <3>1 DEF RemovePermission, RbacIInv, RbacRows, Roles
  <2> QED BY <1>2, <2>1, RbacRemoval DEF RemovePermission
<1> QED BY <1>1, <1>2

\* Users come and go.
LEMMA RbacMemberSteps ==
    ASSUME RbacIInv, NEW u \in User, NEW x \in TenantRole,
           AddUserRole(u, x) \/ RemoveUserRole(u, x)
    PROVE  RbacIInv'
<1>1. members' \in {members \cup {<<u, x>>}, members \ {<<u, x>>}} /\ x \in Roles
      /\ UNCHANGED <<roles, permissions, granted>> /\ Touch(u)
  BY DEF AddUserRole, RemoveUserRole
<1>2. RbacRows'
  BY <1>1 DEF RbacIInv, RbacRows, Roles
<1>3. \A v \in User \ {u} : RolesOf(v)' = RolesOf(v)
  BY <1>1 DEF RolesOf
<1>4. \A y \in TenantRole : PermissionsOf(y)' = PermissionsOf(y)
  BY <1>1 DEF PermissionsOf
<1> QED BY <1>1, <1>2, <1>3, <1>4, RbacTouch

\* The first step of a request.
LEMMA RbacReads ==
    ASSUME RbacIInv, NEW r \in Request,
           \/ \E x \in TenantRole, isDefault \in BOOLEAN : UpdateRoleRead(r, x, isDefault)
           \/ \E x \in TenantRole, P \in SUBSET Permission : SetRolePermissions(r, x, P)
           \/ \E u \in User, X \in SUBSET TenantRole : SetUserRoles(r, u, X)
           \/ \E u \in User : AssignDefaultRead(r, u) \/ ReadRoleNames(r, u)
    PROVE  RbacIInv'
<1>1. ASSUME NEW state \in RbacWorking, Start(r, state), UNCHANGED rbacTables,
             ReadsItsSet(state), SetInHand(r)'
      PROVE  RbacIInv'
  BY <1>1, RbacQuiet DEF Start
<1>0. req \in [Request -> {Idle} \cup RbacWorking]
  BY DEF RbacIInv, RbacRequests
<1>2. ASSUME NEW x \in TenantRole, NEW isDefault \in BOOLEAN, UpdateRoleRead(r, x, isDefault)
      PROVE  RbacIInv'
  <2> DEFINE state == [op |-> "saveRole", on |-> {x}, role |-> x,
                       row |-> [isDefault |-> isDefault]]
  <2>1. state \in RbacWorking /\ ReadsItsSet(state)
    BY DEF RbacWorking, RoleRow, ReadsItsSet
  <2>2. SetInHand(r)'
    BY <1>0, <1>2 DEF UpdateRoleRead, Start, SetInHand
  <2> QED BY <1>1, <1>2, <2>1, <2>2 DEF UpdateRoleRead
<1>3. ASSUME NEW x \in TenantRole, NEW P \in SUBSET Permission, SetRolePermissions(r, x, P)
      PROVE  RbacIInv'
  <2> DEFINE state == [op |-> "setPermissions", on |-> {x}, role |-> x, new |-> P,
                       seen |-> {}, begun |-> FALSE]
  <2>1. state \in RbacWorking /\ ReadsItsSet(state)
    BY DEF RbacWorking, ReadsItsSet
  <2>2. SetInHand(r)'
    BY <1>0, <1>3 DEF SetRolePermissions, Start, SetInHand
  <2> QED BY <1>1, <1>3, <2>1, <2>2 DEF SetRolePermissions
<1>4. ASSUME NEW u \in User, NEW X \in SUBSET TenantRole, SetUserRoles(r, u, X)
      PROVE  RbacIInv'
  <2> DEFINE state == [op |-> "setRoles", on |-> {u}, user |-> u, new |-> X,
                       seen |-> {}, begun |-> FALSE]
  <2>1. state \in RbacWorking /\ ReadsItsSet(state)
    BY DEF RbacWorking, ReadsItsSet
  <2>2. SetInHand(r)'
    BY <1>0, <1>4 DEF SetUserRoles, Start, SetInHand
  <2> QED BY <1>1, <1>4, <2>1, <2>2 DEF SetUserRoles
<1>5. ASSUME NEW u \in User, AssignDefaultRead(r, u)
      PROVE  RbacIInv'
  <2> DEFINE state == [op |-> "assign", on |-> {}, user |-> u,
                       new |-> {x \in Roles : roles[x].isDefault}]
  <2>1. state \in RbacWorking /\ ReadsItsSet(state)
    BY DEF RbacWorking, ReadsItsSet, Roles
  <2>2. SetInHand(r)'
    BY <1>0, <1>5 DEF AssignDefaultRead, Start, SetInHand
  <2> QED BY <1>1, <1>5, <2>1, <2>2 DEF AssignDefaultRead
<1>6. ASSUME NEW u \in User, ReadRoleNames(r, u)
      PROVE  RbacIInv'
  <2> DEFINE state == [op |-> "claims", on |-> {u} \cup TenantRole, user |-> u,
                       roles |-> RolesOf(u)]
  <2>1. state \in RbacWorking /\ ReadsItsSet(state)
    BY DEF RbacWorking, ReadsItsSet, RolesOf
  <2>2. SetInHand(r)'
    BY <1>0, <1>6 DEF ReadRoleNames, Start, SetInHand, RolesOf, rbacTables
  <2> QED BY <1>1, <1>6, <2>1, <2>2 DEF ReadRoleNames
<1> QED BY <1>2, <1>3, <1>4, <1>5, <1>6

\* The DELETE of a replacement, and the reads of a token.
LEMMA RbacContinues ==
    ASSUME RbacIInv, NEW r \in Request,
           ReplaceDelete(r) \/ ReadPermissionNames(r) \/ AbandonRbac(r)
    PROVE  RbacIInv'
<1>0. req \in [Request -> {Idle} \cup RbacWorking] /\ ReadsItsSet(req[r])
  BY DEF RbacIInv, RbacRequests
<1>1. CASE req[r].op = "setPermissions" /\ DeleteSeen(r, PermissionsOf(req[r].role))
  <2> DEFINE state == [req[r] EXCEPT !.begun = TRUE, !.seen = PermissionsOf(req[r].role)]
  <2>1. req[r] \in [op : {"setPermissions"}, on : SUBSET TenantRole, role : TenantRole,
                    new : SUBSET Permission, seen : SUBSET Permission, begun : BOOLEAN]
    BY <1>0, <1>1, RbacWorkingFacts DEF Idle
  <2>2. state \in RbacWorking /\ ReadsItsSet(state)
    BY <1>0, <2>1 DEF RbacWorking, PermissionsOf, ReadsItsSet
  <2>3. req' = [req EXCEPT ![r] = state] /\ stale' = stale /\ UNCHANGED rbacTables
    BY <1>1 DEF DeleteSeen, Continue
  <2>4. SetInHand(r)'
    BY <1>0, <2>1, <2>3 DEF SetInHand, PermissionsOf, rbacTables
  <2> QED BY <2>2, <2>3, <2>4, RbacQuiet
<1>2. CASE req[r].op = "setRoles" /\ DeleteSeen(r, RolesOf(req[r].user))
  <2> DEFINE state == [req[r] EXCEPT !.begun = TRUE, !.seen = RolesOf(req[r].user)]
  <2>1. req[r] \in [op : {"setRoles"}, on : SUBSET User, user : User,
                    new : SUBSET TenantRole, seen : SUBSET TenantRole, begun : BOOLEAN]
    BY <1>0, <1>2, RbacWorkingFacts DEF Idle
  <2>2. state \in RbacWorking /\ ReadsItsSet(state)
    BY <1>0, <2>1 DEF RbacWorking, RolesOf, ReadsItsSet
  <2>3. req' = [req EXCEPT ![r] = state] /\ stale' = stale /\ UNCHANGED rbacTables
    BY <1>2 DEF DeleteSeen, Continue
  <2>4. SetInHand(r)'
    BY <1>0, <2>1, <2>3 DEF SetInHand, RolesOf, rbacTables
  <2> QED BY <2>2, <2>3, <2>4, RbacQuiet
<1>3. CASE ReadPermissionNames(r)
  <2> DEFINE state == [op |-> "signed", on |-> {}, roles |-> req[r].roles,
                       permissions |-> PermissionNames(req[r].user)]
  <2>1. req[r].op = "claims" /\ req[r].roles \in SUBSET TenantRole
    BY <1>0, <1>3 DEF ReadPermissionNames, RbacWorking, Idle
  <2>2. state \in RbacWorking /\ ReadsItsSet(state)
    BY <2>1 DEF RbacWorking, PermissionNames, ReadsItsSet, RbacIInv, RbacRows
  <2>3. req' = [req EXCEPT ![r] = state] /\ stale' = stale /\ UNCHANGED rbacTables
    BY <1>3 DEF ReadPermissionNames, Continue
  <2>4. SetInHand(r)'
    BY <1>0, <2>3 DEF SetInHand
  <2> QED BY <2>2, <2>3, <2>4, RbacQuiet
<1>4. CASE AbandonRbac(r)
  <2>1. req' = [req EXCEPT ![r] = Idle] /\ stale' = stale \ {r} /\ UNCHANGED rbacTables
    BY <1>4 DEF AbandonRbac, Abandon, Finish
  <2>2. SetInHand(r)' /\ ReadsItsSet(Idle)
    BY <1>0, <2>1 DEF SetInHand, ReadsItsSet, Idle
  <2> QED BY <2>1, <2>2, RbacQuiet
<1> QED BY <1>1, <1>2, <1>3, <1>4 DEF ReplaceDelete

\* The last step of a request.
LEMMA RbacCommits ==
    ASSUME RbacIInv, NEW r \in Request,
           \/ UpdateRoleSave(r) \/ RolePermissionsCommit(r)
           \/ UserRolesCommit(r) \/ AssignDefaultInsert(r)
    PROVE  RbacIInv'
<1> USE RbacAssumption
<1>0. req \in [Request -> {Idle} \cup RbacWorking]
  BY DEF RbacIInv, RbacRequests
<1>1. CASE UpdateRoleSave(r)
  <2>1. req[r].role \in TenantRole /\ req[r].row \in RoleRow
    BY <1>0, <1>1, RbacWorkingFacts DEF UpdateRoleSave, Idle
  <2>2. RbacRows'
    <3>1. roles' \in [TenantRole -> RoleRow \cup {Unissued, Deleted}] /\ Roles \subseteq Roles'
      BY <1>1, <2>1 DEF UpdateRoleSave, RbacIInv, RbacRows, Roles
    <3> QED BY <1>1, <3>1 DEF UpdateRoleSave, RbacIInv, RbacRows
  <2> QED BY <1>1, <2>2, RbacCommit
          DEF UpdateRoleSave, Commit, Finish, PermissionsOf, RolesOf
<1>2. CASE RolePermissionsCommit(r)
  <2> DEFINE x == req[r].role
  <2>1. x \in Roles /\ req[r].new \subseteq permissions
        /\ granted' = (granted \ ({x} \X req[r].seen)) \cup ({x} \X req[r].new)
        /\ UNCHANGED <<roles, permissions, members>> /\ Commit(r, x)
    BY <1>2 DEF RolePermissionsCommit
  <2>2. RbacRows'
    BY <2>1 DEF RbacIInv, RbacRows, Roles
  <2>3. \A y \in TenantRole \ {x} : PermissionsOf(y)' = PermissionsOf(y)
    BY <2>1 DEF PermissionsOf
  <2>4. \A u \in User : RolesOf(u)' = RolesOf(u)
    BY <2>1 DEF RolesOf
  <2> QED BY <2>1, <2>2, <2>3, <2>4, RbacCommit DEF Commit, Finish
<1>3. CASE UserRolesCommit(r) \/ AssignDefaultInsert(r)
  <2> DEFINE u == req[r].user
  <2>1. u \in User /\ req[r].new \subseteq Roles
        /\ UNCHANGED <<roles, permissions, granted>> /\ Commit(r, u)
    BY <1>0, <1>3, RbacWorkingFacts DEF UserRolesCommit, AssignDefaultInsert, Idle
  <2>2. \/ members' = (members \ ({u} \X req[r].seen)) \cup ({u} \X req[r].new)
        \/ members' = members \cup ({u} \X req[r].new)
    BY <1>3 DEF UserRolesCommit, AssignDefaultInsert
  <2>3. RbacRows'
    BY <2>1, <2>2 DEF RbacIInv, RbacRows, Roles
  <2>4. \A v \in User \ {u} : RolesOf(v)' = RolesOf(v)
    BY <2>2 DEF RolesOf
  <2>5. \A y \in TenantRole : PermissionsOf(y)' = PermissionsOf(y)
    BY <2>1 DEF PermissionsOf
  <2> QED BY <2>1, <2>3, <2>4, <2>5, RbacCommit DEF Commit, Finish
<1> QED BY <1>1, <1>2, <1>3

\* Every operation keeps the invariant.
LEMMA RbacStep == RbacIInv /\ [RbacNext]_rbacVars => RbacIInv'
<1>1. ASSUME RbacIInv, UNCHANGED rbacVars PROVE RbacIInv'
  BY <1>1 DEF rbacVars, rbacTables, requestVars, RbacIInv, RbacRows, RbacRequests, Roles,
              SetInHand, ReadsItsSet, PermissionsOf, RolesOf
<1> QED
  BY <1>1, RbacRoleSteps, RbacPermissionSteps, RbacMemberSteps, RbacReads, RbacContinues,
     RbacCommits DEF RbacNext

\* It holds of an empty tenant.
LEMMA RbacInitial == RbacInit => RbacIInv
BY DEF RbacInit, RequestInit, RbacIInv, RbacRows, RbacRequests, SetInHand, ReadsItsSet, Idle

\* A replacement that nobody disturbed leaves what was asked for.
LEMMA ReplacesExactly ==
    ASSUME RbacIInv, NEW r \in Request \ stale
    PROVE  ReplacedExactly(r)
<1>0. SetInHand(r) /\ req \in [Request -> {Idle} \cup RbacWorking]
  BY DEF RbacIInv, RbacRequests
<1>1. ASSUME UserRolesCommit(r), NEW u \in {req[r].user} PROVE RolesOf(u)' = req[r].new
  <2>1. members' = (members \ ({u} \X req[r].seen)) \cup ({u} \X req[r].new)
        /\ req[r].new \subseteq TenantRole /\ RolesOf(u) = req[r].seen
    BY <1>0, <1>1, RolesFacts DEF UserRolesCommit, SetInHand
  <2>2. \A x \in TenantRole : <<u, x>> \in members' <=> x \in req[r].new
    BY <2>1 DEF RolesOf
  <2> QED BY <2>1, <2>2 DEF RolesOf
<1>2. ASSUME RolePermissionsCommit(r), NEW x \in {req[r].role}
      PROVE  PermissionsOf(x)' = req[r].new
  <2>1. granted' = (granted \ ({x} \X req[r].seen)) \cup ({x} \X req[r].new)
        /\ req[r].new \subseteq Permission /\ PermissionsOf(x) = req[r].seen
    BY <1>0, <1>2 DEF RolePermissionsCommit, SetInHand, RbacIInv, RbacRows
  <2>2. \A p \in Permission : <<x, p>> \in granted' <=> p \in req[r].new
    BY <2>1 DEF PermissionsOf
  <2> QED BY <2>1, <2>2 DEF PermissionsOf
<1> QED BY <1>1, <1>2 DEF ReplacedExactly

\* A token read undisturbed carries the permissions of its roles.
LEMMA ClaimsDoAgree ==
    ASSUME RbacIInv, NEW r \in Request \ stale
    PROVE  ClaimsAgree(r)
<1> SUFFICES ASSUME ReadPermissionNames(r)
             PROVE  req'[r].permissions = UNION {PermissionsOf(x) : x \in req[r].roles}
  BY DEF ClaimsAgree
<1> DEFINE u == req[r].user
<1>1. req'[r].permissions = PermissionNames(u) /\ RolesOf(u) = req[r].roles
  BY DEF ReadPermissionNames, Continue, RbacIInv, RbacRequests, SetInHand
<1>2. \A p : p \in PermissionNames(u) <=> \E x \in RolesOf(u) : p \in PermissionsOf(x)
  BY DEF PermissionNames, PermissionsOf, RbacIInv, RbacRows
<1>3. PermissionNames(u) = UNION {PermissionsOf(x) : x \in RolesOf(u)}
  BY <1>2
<1> QED BY <1>1, <1>3

\* A replacement of roles or permissions that nobody disturbed leaves exactly
\* what was asked for (rbac.service.ts:161-176), and the permissions in a token
\* are those of the roles in it (rbac.service.ts:222-249).
THEOREM SetsAsAsked == RbacSpec => RolesAsAsked
<1>1. RbacIInv /\ [RbacNext]_rbacVars =>
        [\A r \in Request \ stale : ReplacedExactly(r) /\ ClaimsAgree(r)]_rbacVars
  BY ReplacesExactly, ClaimsDoAgree
<1> QED BY <1>1, RbacInitial, RbacStep, PTL DEF RbacSpec, RolesAsAsked

-----------------------------------------------------------------------------
(***************************************************************************)
(* Clients: secret, status and redirect URIs.                              *)
(***************************************************************************)
Saves == {"save", "replace", "update"}

\* A confidential client has a secret.
Armed(row) == row.type = "CONFIDENTIAL" => row.secret # 0

\* A request that is about to save client c has read it; and unless somebody
\* has committed since, the settings it does not decide are those of the client,
\* and so are the columns it will not write.
SaveInHand(r, c) ==
    /\ c \in Registered /\ req[r].on = {c}
    /\ req[r].op = "replace" => req[r].uris # Keep
    /\ r \notin stale =>
        /\ "secret" \in req[r].decides \/ req[r].row.secret = clients[c].secret
        /\ "active" \in req[r].decides \/ req[r].row.active = clients[c].active
        /\ req[r].op # "save" /\ req[r].uris # Keep => req[r].seen = UrisOf(c)
        /\ req[r].op = "update" =>
             \A k \in Column \ req[r].columns : SaveRow(r)[k] = clients[c][k]
        /\ c \notin late => Armed(req[r].row)

\* A new client has its secret if it is confidential, and is active.
RowInHand(r) ==
    /\ req[r].op = "create" => Armed(req[r].row) /\ req[r].row.active
    /\ req[r].op \in Saves => \A c \in ClientId : req[r].client = c => SaveInHand(r, c)

ClientIInv ==
    /\ clients \in [ClientId -> ClientRow \cup {Unissued}]
    /\ drawn \in 0 .. MaxSecret
    /\ wanted \in [ClientId -> Wanted]
    /\ req \in [Request -> {Idle} \cup ClientWorking]
    /\ \A c \in ClientId \ Registered : UrisOf(c) = {}
    /\ \A r \in Request : RowInHand(r)
    /\ SettingsStick

\* What a request in flight carries.
LEMMA ClientWorkingFacts ==
    ASSUME NEW w \in ClientWorking
    PROVE  /\ w # Idle /\ w.op \in {"create"} \cup Saves /\ w.row \in ClientRow
           /\ w.op = "create" => w.on = {} /\ w.uris \in SUBSET Uri
           /\ w.op \in Saves =>
               /\ w.client \in ClientId /\ w.on \in SUBSET ClientId
               /\ w.uris \in (SUBSET Uri) \cup {Keep} /\ w.seen \in SUBSET Uri
               /\ w.columns \in SUBSET Column /\ w.decides \in SUBSET {"secret", "active"}
<1>1. CASE w \in [op : {"create"}, on : {{}}, row : ClientRow, uris : SUBSET Uri]
  BY <1>1 DEF Idle, Saves
<1>2. CASE w \in [op : {"save", "replace", "update"}, on : SUBSET ClientId, client : ClientId,
                  row : ClientRow, uris : (SUBSET Uri) \cup {Keep}, seen : SUBSET Uri,
                  columns : SUBSET Column, decides : SUBSET {"secret", "active"}]
  BY <1>2 DEF Idle, Saves
<1> QED BY <1>1, <1>2 DEF ClientWorking

\* A request that is under way has what ClientWorking says.
LEMMA UnderWay ==
    ASSUME ClientIInv, NEW r \in Request, req[r] # Idle
    PROVE  req[r] \in ClientWorking
BY DEF ClientIInv

\* A step that stores nothing.
LEMMA ClientReads ==
    ASSUME ClientIInv, UNCHANGED <<clients, uris, wanted, late>>, drawn' \in 0 .. MaxSecret,
           NEW r \in Request, NEW w \in {Idle} \cup ClientWorking,
           req' = [req EXCEPT ![r] = w], stale \subseteq stale' \cup {r}, RowInHand(r)'
    PROVE  ClientIInv'
<1>1. Registered' = Registered /\ \A c : UrisOf(c)' = UrisOf(c)
  BY DEF Registered, UrisOf
<1>2. req' \in [Request -> {Idle} \cup ClientWorking]
  BY DEF ClientIInv
<1>3. ASSUME NEW q \in Request PROVE RowInHand(q)'
  <2>1. CASE q = r
    BY <2>1
  <2>2. CASE q # r
    <3>1. req'[q] = req[q] /\ RowInHand(q) /\ (q \in stale => q \in stale')
      BY <2>2 DEF ClientIInv
    <3>2. ASSUME NEW c \in ClientId, SaveInHand(q, c) PROVE SaveInHand(q, c)'
      BY <1>1, <3>1, <3>2 DEF SaveInHand, SaveRow
    <3> QED BY <3>1, <3>2 DEF RowInHand
  <2> QED BY <2>1, <2>2
<1>4. SettingsStick'
  BY <1>1 DEF SettingsStick, ClientIInv
<1> QED BY <1>1, <1>2, <1>3, <1>4 DEF ClientIInv

\* A step that stores a client.
LEMMA ClientStores ==
    ASSUME ClientIInv, NEW r \in Request, NEW c \in ClientId, NEW row \in ClientRow,
           NEW w \in Wanted,
           clients' = [clients EXCEPT ![c] = row], wanted' = [wanted EXCEPT ![c] = w],
           \A d \in ClientId \ {c} : UrisOf(d)' = UrisOf(d),
           UNCHANGED drawn, Commit(r, c),
           c \notin late' => /\ row.secret = w.secret /\ row.active = w.active /\ Armed(row)
                             /\ UrisOf(c)' = w.uris
    PROVE  ClientIInv'
<1>1. /\ req' = [req EXCEPT ![r] = Idle]
      /\ late \subseteq late'
      /\ stale' = (stale \cup {q \in Request : Reads(q, c)}) \ {r}
  BY DEF Commit, Finish
<1>2. /\ clients' \in [ClientId -> ClientRow \cup {Unissued}]
      /\ wanted' \in [ClientId -> Wanted]
      /\ req' \in [Request -> {Idle} \cup ClientWorking]
  BY <1>1 DEF ClientIInv
<1>3. clients'[c] = row /\ wanted'[c] = w /\ row # Unissued
  BY ClientsAssumption DEF ClientIInv
<1>4. \A d \in ClientId \ {c} : clients'[d] = clients[d] /\ wanted'[d] = wanted[d]
  BY DEF ClientIInv
<1>5. Registered' = Registered \cup {c}
  BY <1>3, <1>4 DEF Registered
<1>6. \A d \in ClientId \ Registered' : UrisOf(d)' = {}
  BY <1>5 DEF ClientIInv
<1>7. ASSUME NEW q \in Request PROVE RowInHand(q)'
  <2>1. CASE q = r
    BY <1>1, <2>1 DEF RowInHand, Idle, Saves, ClientIInv
  <2>2. CASE q # r
    <3>1. req'[q] = req[q] /\ RowInHand(q)
      BY <1>1, <2>2 DEF ClientIInv
    <3>2. ASSUME NEW d \in ClientId, req[q].op \in Saves, req[q].client = d, SaveInHand(q, d)
          PROVE  SaveInHand(q, d)'
      <4>1. req[q] # Idle /\ req[q].on = {d}
        BY <3>2 DEF Idle, Saves, SaveInHand
      <4>2. CASE d = c
        BY <1>1, <1>5, <2>2, <3>1, <3>2, <4>1, <4>2 DEF SaveInHand, Reads
      <4>3. CASE d # c
        BY <1>1, <1>4, <1>5, <2>2, <3>1, <3>2, <4>3 DEF SaveInHand, SaveRow
      <4> QED BY <4>2, <4>3
    <3> QED BY <3>1, <3>2 DEF RowInHand
  <2> QED BY <2>1, <2>2
<1>8. SettingsStick'
  <2>1. ASSUME NEW d \in Registered' \ late'
        PROVE  /\ clients'[d].secret = wanted'[d].secret
               /\ clients'[d].type = "CONFIDENTIAL" => clients'[d].secret # 0
               /\ clients'[d].active = wanted'[d].active
               /\ UrisOf(d)' = wanted'[d].uris
    <3>1. CASE d = c
      BY <1>3, <2>1, <3>1 DEF Armed
    <3>2. CASE d # c
      BY <1>1, <1>4, <1>5, <2>1, <3>2 DEF ClientIInv, SettingsStick, Registered
    <3> QED BY <3>1, <3>2
  <2> QED BY <2>1 DEF SettingsStick
<1> QED BY <1>2, <1>6, <1>7, <1>8 DEF ClientIInv

\* The row of an update is a row, a confidential one has its secret, and it
\* differs from the client where the update says so.
LEMMA UpdateRowFacts ==
    ASSUME ClientIInv, NEW c \in Registered, NEW s \in SentClient,
           UpdateRow(clients[c], s.type, s.active, s.scopes).secret = drawn + 1 => drawn < MaxSecret
    PROVE  LET row == UpdateRow(clients[c], s.type, s.active, s.scopes) IN
           /\ row \in ClientRow
           /\ c \notin late => Armed(row)
           /\ row.type = clients[c].type => row.secret = clients[c].secret
           /\ s.active = Keep => row.active = clients[c].active
<1> DEFINE old == clients[c]
           row == UpdateRow(old, s.type, s.active, s.scopes)
<1> USE ClientsAssumption
<1>1. old \in ClientRow /\ (c \notin late => Armed(old))
  BY DEF ClientIInv, Registered, SettingsStick, Armed
<1>2. /\ row.type = Given(s.type, old.type) /\ row.active = Given(s.active, old.active)
      /\ row.allowed = Given(s.scopes, old.allowed)
      /\ row.secret = UpdatedSecret(old, s.type)
  BY DEF UpdateRow
<1> HIDE DEF row
<1>3. /\ row.type \in ClientType /\ row.active \in BOOLEAN /\ row.allowed \in SUBSET Scope
      /\ s.active = Keep => row.active = old.active
  BY <1>1, <1>2 DEF Given, ClientRow
<1>4. /\ row.secret \in 0 .. MaxSecret
      /\ c \notin late => Armed(row)
      /\ row.type = old.type => row.secret = old.secret
  <2>0. drawn \in Nat /\ MaxSecret \in Nat /\ old.secret \in 0 .. MaxSecret
    BY <1>1 DEF ClientIInv, ClientRow
  <2>1. CASE s.type \in {Keep, old.type}
    <3>1. row.secret = old.secret /\ row.type = old.type
      BY <1>2, <2>1 DEF UpdatedSecret, Given
    <3> QED BY <1>1, <2>0, <3>1 DEF Armed
  <2>2. CASE s.type \notin {Keep, old.type} /\ s.type = "CONFIDENTIAL"
    <3>1. row.secret = drawn + 1
      BY <1>2, <2>2 DEF UpdatedSecret
    <3>2. row.type = s.type
      BY <1>2, <2>2 DEF Given
    <3>3. row.secret = drawn + 1 => drawn < MaxSecret
      BY DEF row
    <3> QED BY <2>0, <2>2, <3>1, <3>2, <3>3 DEF Armed
  <2>3. CASE s.type \notin {Keep, old.type} /\ s.type # "CONFIDENTIAL"
    <3>1. row.secret = 0 /\ row.type = s.type
      BY <1>2, <2>3 DEF UpdatedSecret, Given
    <3> QED BY <2>0, <2>3, <3>1 DEF Armed
  <2> QED BY <2>1, <2>2, <2>3
<1>5. row \in ClientRow
  BY <1>3, <1>4 DEF row, UpdateRow, ClientRow
<1> QED BY <1>3, <1>4, <1>5 DEF row

\* Every operation keeps the invariant.
LEMMA ClientStep == ClientIInv /\ [ClientNext]_clientVars => ClientIInv'
<1> SUFFICES ASSUME ClientIInv, [ClientNext]_clientVars PROVE ClientIInv'
  OBVIOUS
<1> USE ClientsAssumption
<1>0. drawn \in Nat /\ MaxSecret \in Nat
  BY DEF ClientIInv
<1>1. ASSUME NEW s \in Scope, CreateScope(s) \/ RemoveScope(s) PROVE ClientIInv'
  <2>1. UNCHANGED <<clients, uris, drawn, wanted, req, stale, late>>
    BY <1>1 DEF CreateScope, RemoveScope, requestVars
  <2> QED BY <2>1 DEF ClientIInv, RowInHand, SaveInHand, SaveRow, SettingsStick, Registered, UrisOf
<1>2. ASSUME NEW r \in Request, NEW type \in ClientType, NEW S \in SUBSET Scope,
             NEW U \in SUBSET Uri, CreateClientRead(r, type, S, U)
      PROVE  ClientIInv'
  <2> DEFINE row == [type |-> type, active |-> TRUE, allowed |-> S,
                     secret |-> IF type = "CONFIDENTIAL" THEN drawn' ELSE 0]
             w == [op |-> "create", on |-> {}, uris |-> U, row |-> row]
  <2>1. drawn' \in 0 .. MaxSecret /\ (type = "CONFIDENTIAL" => drawn' # 0)
    BY <1>0, <1>2 DEF CreateClientRead, Draw, ClientIInv
  <2>2. row \in ClientRow
    BY <1>0, <2>1 DEF ClientRow
  <2>3. w \in ClientWorking
    BY <2>2 DEF ClientWorking
  <2>4. UNCHANGED <<clients, uris, wanted, late, stale>> /\ req' = [req EXCEPT ![r] = w]
    BY <1>2 DEF CreateClientRead, Start, clientTables
  <2>5. req'[r] = w
    BY <2>4 DEF ClientIInv
  <2>6. RowInHand(r)'
    BY <2>1, <2>5 DEF RowInHand, Saves, Armed
  <2> QED BY <2>1, <2>3, <2>4, <2>6, ClientReads
<1>3. ASSUME NEW r \in Request, NEW c \in ClientId, CreateClientSave(r, c) PROVE ClientIInv'
  <2> DEFINE row == req[r].row
             w == [secret |-> row.secret, active |-> TRUE, uris |-> req[r].uris]
  <2>1. /\ req[r].op = "create" /\ clients[c] = Unissued
        /\ clients' = [clients EXCEPT ![c] = row] /\ wanted' = [wanted EXCEPT ![c] = w]
        /\ uris' = uris \cup ({c} \X req[r].uris)
        /\ Commit(r, c) /\ UNCHANGED drawn
    BY <1>3 DEF CreateClientSave
  <2>2. req[r] # Idle
    BY <2>1 DEF Idle
  <2>3. /\ row \in ClientRow /\ req[r].uris \in SUBSET Uri
        /\ Armed(row)
        /\ row.active = TRUE
    <3>1. req[r] \in ClientWorking /\ RowInHand(r)
      BY <2>2, UnderWay DEF ClientIInv
    <3>2. row \in ClientRow /\ req[r].uris \in SUBSET Uri
      BY <2>1, <3>1, ClientWorkingFacts
    <3>3. row.active
      BY <2>1, <3>1 DEF RowInHand
    <3>4. row.active = TRUE
      BY <3>2, <3>3 DEF ClientRow
    <3> QED BY <2>1, <3>1, <3>2, <3>4 DEF RowInHand
  <2>4. w \in Wanted
    BY <2>3 DEF Wanted, ClientRow
  <2>5. \A d \in ClientId \ {c} : UrisOf(d)' = UrisOf(d)
    BY <2>1 DEF UrisOf
  <2>6. UrisOf(c)' = w.uris
    <3>1. UrisOf(c) = {}
      BY <2>1 DEF ClientIInv, Registered
    <3>2. \A v \in Uri : <<c, v>> \notin uris
      BY <3>1 DEF UrisOf
    <3> QED BY <2>1, <2>3, <3>2 DEF UrisOf
  <2>7. w.secret = row.secret /\ w.active = row.active
    BY <2>3
  <2> HIDE DEF w, row
  <2> QED BY <2>1, <2>3, <2>4, <2>5, <2>6, <2>7, ClientStores
<1>4. ASSUME NEW r \in Request, NEW c \in ClientId, NEW s \in SentClient,
             UpdateClientRead(r, c, s.type, s.active, s.scopes, s.uris)
      PROVE  ClientIInv'
  <2> DEFINE row == UpdateRow(clients[c], s.type, s.active, s.scopes)
             what == (IF row.type # clients[c].type THEN {"secret"} ELSE {})
                        \cup (IF s.active # Keep THEN {"active"} ELSE {})
             w == Holding(c, row, s.uris, what)
  <2>1. /\ c \in Registered
        /\ IF row.secret = drawn + 1 THEN Draw ELSE UNCHANGED drawn
        /\ UNCHANGED <<clients, uris, wanted, late, stale>> /\ req' = [req EXCEPT ![r] = w]
    BY <1>4 DEF UpdateClientRead, Start, clientTables
  <2>2. drawn' \in 0 .. MaxSecret /\ (row.secret = drawn + 1 => drawn < MaxSecret)
    BY <1>0, <2>1 DEF Draw, ClientIInv
  <2>3. /\ row \in ClientRow
        /\ c \notin late => Armed(row)
        /\ row.type = clients[c].type => row.secret = clients[c].secret
        /\ s.active = Keep => row.active = clients[c].active
    BY <2>1, <2>2, UpdateRowFacts
  <2> HIDE DEF row
  <2>4. w \in ClientWorking
    BY <2>1, <2>3 DEF Holding, ClientWorking, Registered
  <2>5. req'[r] = w /\ Registered' = Registered
    BY <2>1 DEF ClientIInv, Registered
  <2>6. RowInHand(r)'
    <3>1. SaveInHand(r, c)'
      BY <2>1, <2>3, <2>5 DEF Holding, SaveInHand
    <3> QED BY <2>5, <3>1 DEF Holding, RowInHand, Saves
  <2> HIDE DEF w
  <2> QED BY <2>1, <2>2, <2>4, <2>6, ClientReads
\* One setting of the client is decided, the others are as they have been read.
<1>5. ASSUME NEW r \in Request, NEW c \in ClientId, RotateSecretRead(r, c) \/ DeactivateRead(r, c)
      PROVE  ClientIInv'
  <2> DEFINE old == clients[c]
             change(row, what) == Holding(c, row, Keep, what)
  <2>1. c \in Registered /\ UNCHANGED <<clients, uris, wanted, late, stale>>
    BY <1>5 DEF RotateSecretRead, DeactivateRead, Start, clientTables
  <2>2. old \in ClientRow /\ (c \notin late => Armed(old))
    BY <2>1 DEF ClientIInv, Registered, SettingsStick, Armed
  <2>3. drawn' \in 0 .. MaxSecret
    BY <1>0, <1>5 DEF RotateSecretRead, DeactivateRead, Draw, ClientIInv
  <2>4. PICK row \in ClientRow, what \in SUBSET {"secret", "active"} :
            /\ req' = [req EXCEPT ![r] = change(row, what)]
            /\ c \notin late => Armed(row)
            /\ "secret" \in what \/ row.secret = old.secret
            /\ "active" \in what \/ row.active = old.active
    <3>1. CASE RotateSecretRead(r, c)
      <4> DEFINE row == [old EXCEPT !.secret = drawn']
      <4>1. row \in ClientRow /\ row.secret = drawn' /\ row.active = old.active
        BY <2>2, <2>3 DEF ClientRow
      <4>2. drawn' # 0
        BY <1>0, <3>1 DEF RotateSecretRead, Draw
      <4>3. req' = [req EXCEPT ![r] = change(row, {"secret"})]
        BY <3>1 DEF RotateSecretRead, Start
      <4>4. "secret" \in {"secret"} /\ {"secret"} \in SUBSET {"secret", "active"}
        OBVIOUS
      <4>5. Armed(row)
        BY <4>1, <4>2 DEF Armed
      <4> HIDE DEF row, change
      <4> QED BY <4>1, <4>3, <4>4, <4>5
    <3>2. CASE DeactivateRead(r, c)
      <4> DEFINE row == [old EXCEPT !.active = FALSE]
      <4>1. /\ row \in ClientRow /\ row.secret = old.secret /\ row.type = old.type
        BY <2>2 DEF ClientRow
      <4>2. req' = [req EXCEPT ![r] = change(row, {"active"})]
        BY <3>2 DEF DeactivateRead, Start
      <4> HIDE DEF row
      <4>3. c \notin late => Armed(row)
        BY <2>2, <4>1 DEF Armed
      <4> QED BY <2>2, <4>1, <4>2, <4>3
    <3> QED BY <1>5, <3>1, <3>2
  <2>5. change(row, what) \in ClientWorking
    BY <2>1 DEF Holding, ClientWorking, Registered
  <2>6. req'[r] = change(row, what) /\ Registered' = Registered
    BY <2>1, <2>4 DEF ClientIInv, Registered
  <2>7. RowInHand(r)'
    <3>1. SaveInHand(r, c)'
      BY <2>1, <2>4, <2>6 DEF Holding, SaveInHand
    <3> QED BY <2>6, <3>1 DEF Holding, RowInHand, Saves
  <2> HIDE DEF change
  <2> QED BY <2>1, <2>3, <2>4, <2>5, <2>7, ClientReads
<1>6. ASSUME NEW r \in Request, UrisDelete(r) PROVE ClientIInv'
  <2> DEFINE c == req[r].client
             v == [req[r] EXCEPT !.op = "replace"]
             w == [v EXCEPT !.seen = UrisOf(c)]
  <2>1. /\ req[r].op = "save" /\ req[r].uris # Keep
        /\ UNCHANGED <<clients, uris, drawn, wanted, late, stale>>
        /\ req' = [req EXCEPT ![r] = [req[r] EXCEPT !.op = "replace", !.seen = UrisOf(c)]]
    BY <1>6 DEF UrisDelete, Continue, clientTables
  <2>2. req[r] \in ClientWorking /\ RowInHand(r)
    BY <2>1, UnderWay DEF Idle, ClientIInv
  <2>3. req[r] \in [op : {"save", "replace", "update"}, on : SUBSET ClientId, client : ClientId,
                    row : ClientRow, uris : (SUBSET Uri) \cup {Keep}, seen : SUBSET Uri,
                    columns : SUBSET Column, decides : SUBSET {"secret", "active"}]
    BY <2>1, <2>2 DEF ClientWorking
  <2>4. v \in ClientWorking /\ v.op = "replace" /\ v.on = req[r].on /\ v.client = c
        /\ v.row = req[r].row /\ v.decides = req[r].decides /\ v.uris # Keep
    BY <2>1, <2>3 DEF ClientWorking
  <2>5. UrisOf(c) \in SUBSET Uri
    BY DEF UrisOf
  <2>6. w \in ClientWorking /\ w.op = "replace" /\ w.on = req[r].on /\ w.client = c
        /\ w.row = req[r].row /\ w.decides = req[r].decides /\ w.seen = UrisOf(c)
        /\ w.uris # Keep
    <3>1. v \in [op : {"save", "replace", "update"}, on : SUBSET ClientId, client : ClientId,
                 row : ClientRow, uris : (SUBSET Uri) \cup {Keep}, seen : SUBSET Uri,
                 columns : SUBSET Column, decides : SUBSET {"secret", "active"}]
      BY <2>3
    <3> HIDE DEF v
    <3> QED BY <2>4, <2>5, <3>1 DEF ClientWorking
  <2>7. w = [req[r] EXCEPT !.op = "replace", !.seen = UrisOf(c)]
    OBVIOUS
  <2>8. req' = [req EXCEPT ![r] = w]
    BY <2>1, <2>7, Zenon
  <2> HIDE DEF w, v
  <2>9. req'[r] = w /\ Registered' = Registered /\ UrisOf(c)' = UrisOf(c)
    BY <2>1, <2>8 DEF ClientIInv, Registered, UrisOf
  <2>10. RowInHand(r)'
    <3>1. req[r].client \in ClientId /\ req[r] # Idle
      BY <2>1, <2>2, ClientWorkingFacts DEF Saves
    <3>2. ASSUME NEW d \in ClientId, d = req[r].client PROVE SaveInHand(r, d)'
      <4>1. SaveInHand(r, d)
        BY <2>1, <2>2, <3>2 DEF RowInHand, Saves
      <4>2. UrisOf(d)' = UrisOf(d)
        BY <2>1 DEF UrisOf
      <4>3. w.seen = UrisOf(d)
        BY <2>6, <3>2
      <4> QED BY <2>1, <2>6, <2>9, <4>1, <4>2, <4>3 DEF SaveInHand
    <3> QED BY <2>2, <2>6, <2>9, <3>1, <3>2 DEF RowInHand
  <2>11. drawn' \in 0 .. MaxSecret
    BY <2>1 DEF ClientIInv
  <2> QED BY <2>1, <2>6, <2>8, <2>10, <2>11, ClientReads
\* What is not written is as it has been read, unless somebody has committed since.
<1>7. ASSUME NEW r \in Request, ClientSave(r) PROVE ClientIInv'
  <2> DEFINE K == Differing(SaveRow(r), clients[req[r].client])
             w == [req[r] EXCEPT !.op = "update", !.columns = K]
  <2>1. /\ req[r].op \in Saves /\ UNCHANGED <<clients, uris, drawn, wanted, late, stale>>
        /\ req' = [req EXCEPT ![r] = w]
        /\ req[r].op = "replace" \/ req[r].uris = Keep
    BY <1>7 DEF ClientSave, Continue, clientTables, Saves
  <2>2. req[r] \in ClientWorking /\ RowInHand(r)
    BY <2>1, UnderWay DEF Idle, Saves, ClientIInv
  <2>3. /\ req[r].client \in ClientId /\ req[r] # Idle
        /\ req[r] \in [op : {"save", "replace", "update"}, on : SUBSET ClientId, client : ClientId,
                       row : ClientRow, uris : (SUBSET Uri) \cup {Keep}, seen : SUBSET Uri,
                       columns : SUBSET Column, decides : SUBSET {"secret", "active"}]
    BY <2>1, <2>2, ClientWorkingFacts DEF ClientWorking, Saves
  <2>4. K \in SUBSET Column
    BY DEF Differing
  <2>5. /\ w \in ClientWorking /\ w.op = "update" /\ w.on = req[r].on /\ w.client = req[r].client
        /\ w.row = req[r].row /\ w.decides = req[r].decides /\ w.seen = req[r].seen
        /\ w.uris = req[r].uris /\ w.columns = K
    <3> HIDE DEF K
    <3> QED BY <2>3, <2>4 DEF ClientWorking
  <2>6. \A k \in Column \ K : SaveRow(r)[k] = clients[req[r].client][k]
    BY DEF Differing
  <2> HIDE DEF w, K
  <2>7. req'[r] = w /\ Registered' = Registered /\ \A d : UrisOf(d)' = UrisOf(d)
    BY <2>1 DEF ClientIInv, Registered, UrisOf
  <2>8. SaveRow(r)' = SaveRow(r)
    BY <2>5, <2>7 DEF SaveRow
  <2>9. RowInHand(r)'
    <3>1. ASSUME NEW d \in ClientId, d = req[r].client PROVE SaveInHand(r, d)'
      <4>1. SaveInHand(r, d)
        BY <2>1, <2>2, <3>1 DEF RowInHand
      <4>2. r \notin stale /\ req[r].uris # Keep => req[r].seen = UrisOf(d)
        BY <2>1, <4>1 DEF SaveInHand
      <4>3. \A k \in Column \ w.columns : SaveRow(r)[k] = clients[d][k]
        BY <2>5, <2>6, <3>1
      <4> QED BY <2>1, <2>5, <2>7, <2>8, <4>1, <4>2, <4>3 DEF SaveInHand
    <3> QED BY <2>5, <2>7, <3>1 DEF RowInHand
  <2>10. drawn' \in 0 .. MaxSecret
    BY <2>1 DEF ClientIInv
  <2> QED BY <2>1, <2>5, <2>9, <2>10, ClientReads
<1>8. ASSUME NEW r \in Request, ClientUpdate(r) PROVE ClientIInv'
  <2>0. PICK c : c = req[r].client
    OBVIOUS
  <2> DEFINE mine == SaveRow(r)
             row == Merged(mine, req[r].columns, clients[c])
  <2>1. /\ req[r].op = "update" /\ UNCHANGED drawn /\ Commit(r, c)
        /\ clients' = [clients EXCEPT ![c] = row]
        /\ uris' = IF req[r].uris = Keep THEN uris
                   ELSE (uris \ ({c} \X req[r].seen)) \cup ({c} \X req[r].uris)
    BY <1>8, <2>0 DEF ClientUpdate, UrisReplaced
  <2>2. req[r] \in ClientWorking /\ RowInHand(r)
    BY <2>1, UnderWay DEF Idle, ClientIInv
  <2>3. /\ c \in ClientId /\ mine \in ClientRow /\ req[r] # Idle /\ SaveInHand(r, c)
        /\ req[r].decides \in SUBSET {"secret", "active"}
        /\ req[r].uris \in (SUBSET Uri) \cup {Keep}
    BY <2>0, <2>1, <2>2, ClientWorkingFacts DEF RowInHand, SaveRow, Saves
  <2>4. mine = req[r].row
    BY DEF SaveRow
  <2>5. clients[c] \in ClientRow /\ c \in Registered
    BY <2>3 DEF SaveInHand, ClientIInv, Registered
  <2> HIDE DEF mine
  <2>6. row \in ClientRow
    BY <2>3, <2>5 DEF Merged, Column, ClientRow
  <2>7. r \notin stale => row = mine
    <3>1. ASSUME r \notin stale, NEW k \in Column PROVE row[k] = mine[k]
      <4>1. k \notin req[r].columns => mine[k] = clients[c][k]
        BY <2>1, <2>3, <3>1 DEF SaveInHand, mine
      <4> QED BY <4>1 DEF Merged
    <3>2. \A v \in ClientRow : v = [type |-> v.type, secret |-> v.secret, active |-> v.active,
                                     allowed |-> v.allowed]
      BY DEF ClientRow
    <3>3. r \notin stale => /\ row.type = mine.type /\ row.secret = mine.secret
                            /\ row.active = mine.active /\ row.allowed = mine.allowed
      BY <3>1 DEF Column
    <3> HIDE DEF row
    <3> QED BY <2>3, <2>6, <3>2, <3>3
  <2> HIDE DEF row
  <2> DEFINE old == wanted[c]
             w == [secret |-> IF "secret" \in req[r].decides THEN req[r].row.secret ELSE old.secret,
                   active |-> IF "active" \in req[r].decides THEN req[r].row.active ELSE old.active,
                   uris |-> IF req[r].uris = Keep THEN old.uris ELSE req[r].uris]
  <2>8. wanted' = [wanted EXCEPT ![c] = w]
    BY <1>8, <2>0 DEF ClientUpdate
  <2>9. old \in Wanted
    BY <2>3 DEF ClientIInv
  <2>10. w \in Wanted
    BY <2>3, <2>4, <2>9 DEF Wanted, ClientRow
  <2>11. \A d \in ClientId \ {c} : UrisOf(d)' = UrisOf(d)
    BY <2>1 DEF UrisOf
  <2>12. ASSUME c \notin late'
         PROVE  row.secret = w.secret /\ row.active = w.active /\ Armed(row) /\ UrisOf(c)' = w.uris
    <3>1. r \notin stale /\ c \notin late
      BY <2>1, <2>12 DEF Commit
    <3>2. /\ clients[c].secret = old.secret /\ clients[c].active = old.active
          /\ UrisOf(c) = old.uris
      BY <2>5, <3>1 DEF ClientIInv, SettingsStick
    <3>3. /\ "secret" \in req[r].decides \/ row.secret = old.secret
          /\ "active" \in req[r].decides \/ row.active = old.active
          /\ req[r].uris # Keep => req[r].seen = UrisOf(c)
          /\ Armed(row) /\ row = req[r].row
      BY <2>1, <2>3, <2>4, <2>7, <3>1, <3>2 DEF SaveInHand
    <3>4. CASE req[r].uris = Keep
      <4>1. UrisOf(c)' = old.uris
        BY <2>1, <3>2, <3>4 DEF UrisOf
      <4> QED BY <3>3, <3>4, <4>1
    <3>5. CASE req[r].uris # Keep
      <4>1. UrisOf(c)' = req[r].uris
        BY <2>1, <2>3, <3>3, <3>5 DEF UrisOf
      <4> QED BY <3>3, <3>5, <4>1
    <3> QED BY <3>4, <3>5
  <2> HIDE DEF w
  <2> QED BY <2>1, <2>3, <2>6, <2>8, <2>10, <2>11, <2>12, ClientStores
<1>9. ASSUME NEW r \in Request, AbandonClient(r) PROVE ClientIInv'
  <2>1. /\ UNCHANGED <<clients, uris, drawn, wanted, late>> /\ req' = [req EXCEPT ![r] = Idle]
        /\ stale' = stale \ {r}
    BY <1>9 DEF AbandonClient, Abandon, Finish, clientTables
  <2>2. req'[r] = Idle
    BY <2>1 DEF ClientIInv
  <2>3. RowInHand(r)'
    BY <2>2 DEF RowInHand, Idle, Saves
  <2>4. drawn' \in 0 .. MaxSecret
    BY <2>1 DEF ClientIInv
  <2> QED BY <2>1, <2>3, <2>4, ClientReads
<1>10. CASE UNCHANGED clientVars
  BY <1>10 DEF clientVars, clientTables, requestVars, ClientIInv, RowInHand, SaveInHand, SaveRow,
              SettingsStick, Registered, UrisOf
<1> QED
  BY <1>1, <1>2, <1>3, <1>4, <1>5, <1>6, <1>7, <1>8, <1>9, <1>10
  DEF ClientNext

\* It holds of a tenant without clients.
LEMMA ClientInitial == ClientInit => ClientIInv
<1> SUFFICES ASSUME ClientInit PROVE ClientIInv
  OBVIOUS
<1> USE ClientsAssumption
<1>1. Registered = {} /\ \A c : UrisOf(c) = {}
  BY DEF ClientInit, Registered, UrisOf
<1>2. \A r \in Request : req[r] = Idle
  BY DEF ClientInit, RequestInit
<1>3. wanted \in [ClientId -> Wanted]
  BY DEF ClientInit, Wanted
<1> QED
  BY <1>1, <1>2, <1>3
  DEF ClientInit, RequestInit, ClientIInv, RowInHand, SettingsStick, Idle, Saves

\* Any number of requests, in any order: a client that no stale request has saved
\* answers to the secret handed out last, and has one if it is confidential; its
\* status is the one decided last and its redirect URIs are those of one request,
\* although save compares and writes in two steps (clients.service.ts:163-214).
THEOREM SettingsDoStick == ClientSpec => []SettingsStick
<1>1. ClientIInv => SettingsStick
  BY DEF ClientIInv
<1> QED BY <1>1, ClientInitial, ClientStep, PTL DEF ClientSpec

-----------------------------------------------------------------------------
(***************************************************************************)
(* Administrators and their assignments.                                   *)
(***************************************************************************)
Updates == {"update", "replace"}

\* Assignments that go with a role.
Fitting(role, T) ==
    /\ role \in Role /\ T \in SUBSET Tenant
    /\ role = "PLATFORM_ADMIN" <=> T = {}

\* A request that is about to save administrator a has read it, and replaces its
\* assignments by fitting ones; or keeps those it has found to fit.
UpdateInHand(r, a) ==
    /\ a \in Existing /\ req[r].on = {a} /\ req[r].row \in AdminRow
    /\ req[r].tenants # Keep => Fitting(req[r].row.role, req[r].tenants)
    /\ req[r].tenants = Keep => req[r].op = "update" /\ req[r].row.role = "TENANT_ADMIN"
    /\ r \notin stale =>
        /\ req[r].tenants = Keep => TenantsOf(a) # {} \/ a \in late \cup bereft
        /\ req[r].op = "replace" => TenantsOf(a) \subseteq req[r].seen

AccountInHand(r) ==
    /\ req[r].op = "create" => Fitting(req[r].role, req[r].tenants)
    /\ req[r].op \in Updates => \A a : req[r].admin = a => UpdateInHand(r, a)

AccountsIInv ==
    /\ admins \in [Account -> AdminRow \cup {Unissued}]
    /\ DOMAIN req = Request
    /\ \A a \in Account \ Existing : TenantsOf(a) = {}
    /\ \A r \in Request : AccountInHand(r)
    /\ AssignmentsFit

\* An idle request has nothing in hand.
LEMMA IdleHolds == Idle.op \notin {"bootstrap", "create", "seed", "settings"} \cup Updates
BY DEF Idle, Updates

\* A step that leaves the roles of the administrators alone, and takes
\* assignments away only from those it makes bereft; R are the requests it moves.
LEMMA AccountsKept ==
    ASSUME AccountsIInv, admins' \in [Account -> AdminRow \cup {Unissued}],
           Existing' = Existing, Platforms' = Platforms, late \subseteq late', bereft \subseteq bereft',
           \A a \in Account : TenantsOf(a)' \subseteq TenantsOf(a),
           \A a \in Account : TenantsOf(a)' # TenantsOf(a) => a \in bereft',
           DOMAIN req' = Request, NEW R,
           \A q \in Request \ R : req'[q] = req[q] /\ (q \in stale => q \in stale'),
           \A q \in Request \cap R : AccountInHand(q)'
    PROVE  AccountsIInv'
<1>1. ASSUME NEW q \in Request \ R PROVE AccountInHand(q)'
  <2>1. req'[q] = req[q] /\ AccountInHand(q) /\ (q \in stale => q \in stale')
    BY DEF AccountsIInv
  <2>2. ASSUME NEW a, UpdateInHand(q, a) PROVE UpdateInHand(q, a)'
    <3>1. a \in Account
      BY <2>2 DEF UpdateInHand, Existing
    <3>2. TenantsOf(a)' \subseteq TenantsOf(a) /\ (TenantsOf(a)' = TenantsOf(a) \/ a \in bereft')
      BY <3>1
    <3> QED BY <2>1, <2>2, <3>1, <3>2 DEF UpdateInHand
  <2> QED BY <2>1, <2>2 DEF AccountInHand
<1>2. AssignmentsFit'
  <2>1. Platforms \subseteq Account /\ Existing \subseteq Account
    BY DEF Platforms, Existing
  <2>2. ASSUME NEW a \in Account
        PROVE  /\ TenantsOf(a)' \subseteq TenantsOf(a)
               /\ TenantsOf(a)' = TenantsOf(a) \/ a \in bereft'
    OBVIOUS
  <2>3. \A a \in Platforms : TenantsOf(a)' = {} \/ a \in late'
    BY <2>1, <2>2 DEF AccountsIInv, AssignmentsFit
  <2>4. \A a \in Existing \ Platforms : TenantsOf(a)' # {} \/ a \in late' \cup bereft'
    BY <2>1, <2>2 DEF AccountsIInv, AssignmentsFit
  <2> QED BY <2>3, <2>4 DEF AssignmentsFit
<1>3. \A a \in Account \ Existing' : TenantsOf(a)' = {}
  <2>1. \A a \in Account \ Existing : TenantsOf(a) = {} /\ TenantsOf(a)' \subseteq TenantsOf(a)
    BY DEF AccountsIInv
  <2> QED BY <2>1
<1> QED BY <1>1, <1>2, <1>3 DEF AccountsIInv

\* One that moves a request and stores no administrator.
LEMMA AccountsRead ==
    ASSUME AccountsIInv, UNCHANGED <<admins, assigned, bereft>>, late \subseteq late',
           NEW r \in Request, NEW w, req' = [req EXCEPT ![r] = w],
           stale \subseteq stale' \cup {r}, AccountInHand(r)'
    PROVE  AccountsIInv'
<1>1. Existing' = Existing /\ Platforms' = Platforms /\ \A a : TenantsOf(a)' = TenantsOf(a)
  BY DEF Existing, Platforms, TenantsOf
<1>2. /\ DOMAIN req' = Request
      /\ \A q \in Request \ {r} : req'[q] = req[q] /\ (q \in stale => q \in stale')
  BY DEF AccountsIInv
<1>3. admins' \in [Account -> AdminRow \cup {Unissued}]
  BY DEF AccountsIInv
<1>4. /\ \A a \in Account : TenantsOf(a)' \subseteq TenantsOf(a)
      /\ \A a \in Account : TenantsOf(a)' # TenantsOf(a) => a \in bereft'
      /\ \A q \in Request \cap {r} : AccountInHand(q)'
      /\ bereft \subseteq bereft'
  BY <1>1
<1>5. Existing' = Existing /\ Platforms' = Platforms
  BY <1>1
<1> DEFINE R == {r}
<1> HIDE DEF R
<1> QED BY <1>2, <1>3, <1>4, <1>5, AccountsKept DEF R

\* A step that commits to administrator a.
LEMMA AccountsStore ==
    ASSUME AccountsIInv, NEW r \in Request, NEW a \in Account, NEW row \in AdminRow,
           admins' = [admins EXCEPT ![a] = row], UNCHANGED bereft, Commit(r, a),
           \A b \in Account \ {a} : TenantsOf(b)' = TenantsOf(b),
           a \notin late' \cup bereft => Fitting(row.role, TenantsOf(a)'),
           a \notin late' /\ row.role = "PLATFORM_ADMIN" => TenantsOf(a)' = {}
    PROVE  AccountsIInv'
<1> USE AdministrationAssumption
<1>1. /\ req' = [req EXCEPT ![r] = Idle]
      /\ late \subseteq late'
      /\ stale' = (stale \cup {q \in Request : Reads(q, a)}) \ {r}
  BY DEF Commit, Finish
<1>2. admins'[a] = row /\ row # Unissued /\ \A b \in Account \ {a} : admins'[b] = admins[b]
  BY DEF AccountsIInv
<1>3. Existing' = Existing \cup {a} /\ Platforms' \subseteq Platforms \cup {a}
  BY <1>2 DEF Existing, Platforms
<1>4. ASSUME NEW q \in Request PROVE AccountInHand(q)'
  <2>1. CASE q = r
    BY <1>1, <2>1, IdleHolds DEF AccountInHand, AccountsIInv
  <2>2. CASE q # r
    <3>1. req'[q] = req[q] /\ AccountInHand(q)
      BY <1>1, <2>2 DEF AccountsIInv
    <3>2. req[q].op \in Updates => req[q] # Idle
      BY IdleHolds
    <3>3. ASSUME NEW b, req[q].op \in Updates, UpdateInHand(q, b) PROVE UpdateInHand(q, b)'
      <4>1. req[q].on = {b} /\ b \in Account
        BY <3>3 DEF UpdateInHand, Existing
      <4>2. CASE b = a
        <5>1. q \in stale'
          BY <1>1, <2>2, <3>2, <3>3, <4>1, <4>2 DEF Reads
        <5> QED BY <1>3, <3>1, <3>3, <4>2, <5>1 DEF UpdateInHand
      <4>3. CASE b # a
        BY <1>1, <1>3, <2>2, <3>1, <3>3, <4>1, <4>3 DEF UpdateInHand
      <4> QED BY <4>2, <4>3
    <3> QED BY <3>1, <3>3 DEF AccountInHand, Updates
  <2> QED BY <2>1, <2>2
<1>5. AssignmentsFit'
  <2>1. ASSUME NEW b \in Platforms' PROVE TenantsOf(b)' = {} \/ b \in late'
    <3>1. CASE b = a
      BY <1>2, <2>1, <3>1 DEF Platforms
    <3>2. CASE b # a
      BY <1>1, <1>3, <2>1, <3>2 DEF AccountsIInv, AssignmentsFit, Platforms, Existing
    <3> QED BY <3>1, <3>2
  <2>2. ASSUME NEW b \in Existing' \ Platforms' PROVE TenantsOf(b)' # {} \/ b \in (late \cup bereft)'
    <3>1. CASE b = a
      BY <1>2, <2>2, <3>1 DEF Platforms, Fitting
    <3>2. CASE b # a
      BY <1>1, <1>2, <1>3, <2>2, <3>2 DEF AccountsIInv, AssignmentsFit, Platforms, Existing
    <3> QED BY <3>1, <3>2
  <2> QED BY <2>1, <2>2 DEF AssignmentsFit
<1>6. \A b \in Account \ Existing' : TenantsOf(b)' = {}
  BY <1>3 DEF AccountsIInv
<1>7. admins' \in [Account -> AdminRow \cup {Unissued}] /\ DOMAIN req' = Request
  BY <1>1 DEF AccountsIInv
<1> QED BY <1>4, <1>5, <1>6, <1>7 DEF AccountsIInv

\* What UpdateRead and the two statements of the transaction do.
LEMMA UpdateReads ==
    ASSUME AccountsIInv, NEW r \in Request, NEW tok, NEW a \in Account, NEW c,
           c.role \in Role \cup {Keep}, c.active \in BOOLEAN \cup {Keep},
           c.tenants \in (SUBSET Tenant) \cup {Keep},
           UpdateRead(r, tok, a, c.role, c.active, c.tenants)
    PROVE  AccountsIInv'
<1> USE AdministrationAssumption
<1> DEFINE next == Given(c.role, admins[a].role)
           row == [role |-> next, active |-> Given(c.active, admins[a].active)]
           T == Replacement(next, c.tenants)
           w == [op |-> "update", on |-> {a}, admin |-> a, tenants |-> T, row |-> row]
<1>1. /\ a \in Existing /\ UpdateAllowed(a, next, c.tenants)
      /\ UNCHANGED <<admins, assigned, bereft, late, stale>> /\ req' = [req EXCEPT ![r] = w]
  BY DEF UpdateRead, Start, tables, shadows
<1>2. admins[a] \in AdminRow
  BY <1>1 DEF Existing, AccountsIInv
<1>3. next \in Role /\ row \in AdminRow /\ row.role = next
  BY <1>2 DEF Given, AdminRow
<1>4. T # Keep => Fitting(next, T)
  BY <1>1, <1>3 DEF Replacement, Resolve, UpdateAllowed, Assignable, Fitting, Role
<1>5. T = Keep => next = "TENANT_ADMIN" /\ (TenantsOf(a) # {} \/ a \in late \cup bereft)
  <2>1. T = Keep => c.tenants = Keep /\ next = "TENANT_ADMIN"
    BY <1>3 DEF Replacement, Resolve, Role
  <2>2. ASSUME c.tenants = Keep, next = "TENANT_ADMIN"
        PROVE  TenantsOf(a) # {} \/ a \in late \cup bereft
    <3>1. CASE admins[a].role # next
      BY <1>1, <2>2, <3>1 DEF UpdateAllowed
    <3>2. CASE admins[a].role = next
      BY <1>1, <2>2, <3>2 DEF AccountsIInv, AssignmentsFit, Platforms
    <3> QED BY <3>1, <3>2
  <2> QED BY <2>1, <2>2
<1> HIDE DEF row, T, next
<1>6. req'[r] = w /\ Existing' = Existing /\ TenantsOf(a)' = TenantsOf(a)
  BY <1>1 DEF AccountsIInv, Existing, TenantsOf
<1>7. UpdateInHand(r, a)'
  BY <1>1, <1>3, <1>4, <1>5, <1>6 DEF UpdateInHand
<1>8. AccountInHand(r)'
  BY <1>6, <1>7 DEF AccountInHand, Updates
<1> QED BY <1>1, <1>8, AccountsRead

\* The first statement of the transaction remembers what it saw.
LEMMA UpdateDeletes ==
    ASSUME AccountsIInv, NEW r \in Request, UpdateDelete(r)
    PROVE  AccountsIInv'
<1> DEFINE w == [op |-> "replace", on |-> req[r].on, admin |-> req[r].admin,
                 row |-> req[r].row, tenants |-> req[r].tenants,
                 seen |-> TenantsOf(req[r].admin)]
<1>1. /\ req[r].op = "update" /\ req[r].tenants # Keep
      /\ UNCHANGED <<admins, assigned, bereft, late, stale>> /\ req' = [req EXCEPT ![r] = w]
  BY DEF UpdateDelete, Continue, tables, shadows
<1>2. req'[r] = w /\ Existing' = Existing
  BY <1>1 DEF AccountsIInv, Existing
<1>3. ASSUME NEW a, a = req[r].admin PROVE UpdateInHand(r, a)'
  <2>1. UpdateInHand(r, a)
    BY <1>1, <1>3 DEF AccountsIInv, AccountInHand, Updates
  <2>2. TenantsOf(a)' = w.seen
    BY <1>1, <1>3 DEF TenantsOf
  <2> QED BY <1>1, <1>2, <2>1, <2>2 DEF UpdateInHand
<1>4. AccountInHand(r)'
  BY <1>2, <1>3 DEF AccountInHand, Updates
<1> QED BY <1>1, <1>4, AccountsRead

\* The second leaves fitting assignments, or was late.
LEMMA UpdateCommits ==
    ASSUME AccountsIInv, NEW r \in Request, UpdateCommit(r)
    PROVE  AccountsIInv'
<1> USE AdministrationAssumption
<1>0. PICK a : a = req[r].admin
  OBVIOUS
<1> DEFINE row == req[r].row
<1>1. /\ req[r].op \in Updates
      /\ req[r].op = "update" => req[r].tenants = Keep /\ UNCHANGED assigned
      /\ req[r].op = "replace" =>
             assigned' = (assigned \ ({a} \X req[r].seen)) \cup ({a} \X req[r].tenants)
      /\ admins' = [admins EXCEPT ![a] = row]
      /\ Commit(r, a) /\ UNCHANGED bereft
  BY <1>0 DEF UpdateCommit, Updates
<1>2. UpdateInHand(r, a)
  BY <1>0, <1>1 DEF AccountsIInv, AccountInHand
<1>3. a \in Account /\ row \in AdminRow
  BY <1>2 DEF UpdateInHand, Existing
<1>4. \A b \in Account \ {a} : TenantsOf(b)' = TenantsOf(b)
  BY <1>1 DEF TenantsOf, Updates
<1>5. a \notin late' => r \notin stale /\ a \notin late
  BY <1>1 DEF Commit
<1>6. CASE req[r].op = "update"
  <2>1. row.role = "TENANT_ADMIN" /\ TenantsOf(a)' = TenantsOf(a) /\ TenantsOf(a) \in SUBSET Tenant
    BY <1>1, <1>2, <1>6 DEF UpdateInHand, TenantsOf
  <2>2. a \notin late' \cup bereft => TenantsOf(a) # {}
    BY <1>1, <1>2, <1>5, <1>6 DEF UpdateInHand
  <2>3. a \notin late' \cup bereft => Fitting(row.role, TenantsOf(a)')
    BY <2>1, <2>2 DEF Fitting, Role
  <2> HIDE DEF row
  <2> QED BY <1>1, <1>3, <1>4, <2>1, <2>3, AccountsStore
<1>7. CASE req[r].op = "replace"
  <2>1. Fitting(row.role, req[r].tenants)
    BY <1>2, <1>7 DEF UpdateInHand
  <2>2. ASSUME a \notin late' PROVE TenantsOf(a)' = req[r].tenants
    <3>1. TenantsOf(a) \subseteq req[r].seen
      BY <1>2, <1>5, <1>7, <2>2 DEF UpdateInHand
    <3>2. \A t \in Tenant : <<a, t>> \in assigned => t \in req[r].seen
      BY <3>1 DEF TenantsOf
    <3> QED BY <1>1, <1>3, <1>7, <2>1, <3>2 DEF TenantsOf, Fitting
  <2>3. a \notin late' => Fitting(row.role, TenantsOf(a)')
    BY <2>1, <2>2
  <2>4. a \notin late' /\ row.role = "PLATFORM_ADMIN" => TenantsOf(a)' = {}
    BY <2>3 DEF Fitting
  <2> HIDE DEF row
  <2> QED BY <1>1, <1>3, <1>4, <2>3, <2>4, AccountsStore
<1> QED BY <1>1, <1>6, <1>7 DEF Updates

\* Nobody has yet the id of the administrator that is inserted.
LEMMA Inserts ==
    ASSUME AccountsIInv, NEW r \in Request, NEW a \in Account, NEW role, NEW T,
           Fitting(role, T), Insert(a, role, T), Commit(r, a), UNCHANGED bereft
    PROVE  AccountsIInv'
<1> DEFINE row == [role |-> role, active |-> TRUE]
<1>1. row \in AdminRow /\ row.role = role
  BY DEF Fitting, AdminRow
<1>2. /\ admins[a] = Unissued /\ admins' = [admins EXCEPT ![a] = row]
      /\ assigned' = assigned \cup ({a} \X T)
  BY DEF Insert
<1>3. \A t \in Tenant : <<a, t>> \notin assigned
  BY <1>2 DEF AccountsIInv, Existing, TenantsOf
<1>4. TenantsOf(a)' = T /\ \A b \in Account \ {a} : TenantsOf(b)' = TenantsOf(b)
  BY <1>2, <1>3 DEF TenantsOf, Fitting
<1>5. row.role = "PLATFORM_ADMIN" => TenantsOf(a)' = {}
  BY <1>1, <1>4 DEF Fitting
<1>6. Fitting(row.role, TenantsOf(a)')
  BY <1>1, <1>4
<1> HIDE DEF row
<1> QED BY <1>1, <1>2, <1>4, <1>5, <1>6, AccountsStore

\* Every operation keeps what is said of the administrators.
LEMMA AccountsStep == AccountsIInv /\ [Next]_vars => AccountsIInv'
<1> SUFFICES ASSUME AccountsIInv, [Next]_vars PROVE AccountsIInv'
  OBVIOUS
<1> USE AdministrationAssumption
\* No request moves.
<1>a. ASSUME UNCHANGED <<admins, assigned, bereft, req, stale, late>> PROVE AccountsIInv'
  <2>1. Existing' = Existing /\ Platforms' = Platforms /\ \A a : TenantsOf(a)' = TenantsOf(a)
    BY <1>a DEF Existing, Platforms, TenantsOf
  <2>2. \A r, a : UpdateInHand(r, a) => UpdateInHand(r, a)'
    BY <1>a, <2>1 DEF UpdateInHand
  <2>3. \A r : AccountInHand(r) => AccountInHand(r)'
    BY <1>a, <2>2 DEF AccountInHand
  <2> QED BY <1>a, <2>1, <2>3 DEF AccountsIInv, AssignmentsFit
\* A request that has nothing to do with the administrators moves.
<1>b. ASSUME UNCHANGED <<admins, assigned, bereft>>, late \subseteq late', NEW r \in Request,
             NEW w, w.op \notin {"create"} \cup Updates,
             req' = [req EXCEPT ![r] = w], stale \subseteq stale' \cup {r}
      PROVE  AccountsIInv'
  <2>1. req'[r] = w
    BY <1>b DEF AccountsIInv
  <2>2. AccountInHand(r)'
    BY <1>b, <2>1 DEF AccountInHand
  <2> QED BY <1>b, <2>2, AccountsRead
<1>1. ASSUME NEW a \in Account, Login(a) PROVE AccountsIInv'
  BY <1>1, <1>a DEF Login, tables, shadows, requestVars
<1>2. ASSUME NEW r \in Request, BootstrapRead(r) PROVE AccountsIInv'
  <2> DEFINE w == [op |-> "bootstrap", on |-> Account]
  <2>1. req' = [req EXCEPT ![r] = w] /\ UNCHANGED <<admins, assigned, bereft, stale, late>>
    BY <1>2 DEF BootstrapRead, Start, tables, shadows
  <2>2. w.op \notin {"create"} \cup Updates
    BY DEF Updates
  <2> HIDE DEF w
  <2> QED BY <2>1, <2>2, <1>b
<1>3. ASSUME NEW r \in Request, NEW a \in Account, BootstrapSave(r, a) PROVE AccountsIInv'
  <2>1. Fitting("PLATFORM_ADMIN", {})
    BY DEF Fitting, Role
  <2> QED BY <1>3, <2>1, Inserts DEF BootstrapSave
<1>4. ASSUME NEW r \in Request, NEW a \in Account, CreateSave(r, a) PROVE AccountsIInv'
  <2>1. Fitting(req[r].role, req[r].tenants)
    BY <1>4 DEF CreateSave, AccountsIInv, AccountInHand
  <2> QED BY <1>4, <2>1, Inserts DEF CreateSave
<1>5. ASSUME NEW r \in Request, NEW tok, NEW role \in Role, NEW T \in SUBSET Tenant,
             CreateRead(r, tok, role, T)
      PROVE  AccountsIInv'
  <2> DEFINE w == [op |-> "create", on |-> {}, role |-> role, tenants |-> Resolve(role, T)]
  <2>1. /\ Assignable(role, T) /\ req' = [req EXCEPT ![r] = w]
        /\ UNCHANGED <<admins, assigned, bereft, stale, late>>
    BY <1>5 DEF CreateRead, Start, tables, shadows
  <2>2. Fitting(role, Resolve(role, T))
    BY <2>1 DEF Fitting, Resolve, Assignable, Role
  <2>3. req'[r] = w
    BY <2>1 DEF AccountsIInv
  <2>4. AccountInHand(r)'
    BY <2>2, <2>3 DEF AccountInHand, Updates
  <2> QED BY <2>1, <2>4, AccountsRead
<1>6. ASSUME NEW tok, NEW a \in Account, Deactivate(tok, a) PROVE AccountsIInv'
  <2> DEFINE row == [admins[a] EXCEPT !.active = FALSE]
  <2>1. /\ a \in Existing /\ admins' = [admins EXCEPT ![a] = row]
        /\ UNCHANGED <<assigned, bereft, req, late>> /\ stale \subseteq stale'
    BY <1>6 DEF Deactivate, Touch, shadows
  <2>2. admins[a] \in AdminRow
    BY <2>1 DEF Existing, AccountsIInv
  <2>3. row \in AdminRow /\ row.role = admins[a].role
    BY <2>2 DEF AdminRow
  <2> HIDE DEF row
  <2>4. admins' \in [Account -> AdminRow \cup {Unissued}]
    BY <2>1, <2>3 DEF AccountsIInv
  <2>5. Existing' = Existing /\ Platforms' = Platforms
    BY <2>1, <2>3 DEF AccountsIInv, Existing, Platforms
  <2>6. \A b : TenantsOf(b)' = TenantsOf(b)
    BY <2>1 DEF TenantsOf
  <2>7. DOMAIN req' = Request
    BY <2>1 DEF AccountsIInv
  <2> DEFINE R == {}
  <2>8. /\ \A q \in Request \ R : req'[q] = req[q] /\ (q \in stale => q \in stale')
        /\ \A q \in Request \cap R : AccountInHand(q)'
    BY <2>1
  <2> HIDE DEF R
  <2>9. /\ \A b \in Account : TenantsOf(b)' \subseteq TenantsOf(b)
        /\ \A b \in Account : TenantsOf(b)' # TenantsOf(b) => b \in bereft'
    BY <2>6
  <2> QED BY <2>1, <2>4, <2>5, <2>7, <2>8, <2>9, AccountsKept
<1>7. ASSUME NEW tok, NEW t \in Tenant, DeleteTenant(tok, t) PROVE AccountsIInv'
  <2>1. /\ UNCHANGED <<admins, req, late>> /\ stale \subseteq stale'
        /\ assigned' = assigned \ (Account \X {t})
        /\ bereft' = bereft \cup {a \in Account : <<a, t>> \in assigned}
    BY <1>7 DEF DeleteTenant, Touch
  <2>2. Existing' = Existing /\ Platforms' = Platforms
    BY <2>1 DEF Existing, Platforms
  <2>3. ASSUME NEW b \in Account
        PROVE  TenantsOf(b)' \subseteq TenantsOf(b) /\ (TenantsOf(b)' # TenantsOf(b) => b \in bereft')
    <3>1. TenantsOf(b)' = TenantsOf(b) \ {t}
      BY <2>1 DEF TenantsOf
    <3>2. t \in TenantsOf(b) => b \in bereft'
      BY <2>1 DEF TenantsOf
    <3> QED BY <3>1, <3>2
  <2>4. admins' \in [Account -> AdminRow \cup {Unissued}] /\ DOMAIN req' = Request
    BY <2>1 DEF AccountsIInv
  <2> DEFINE R == {}
  <2>5. /\ \A q \in Request \ R : req'[q] = req[q] /\ (q \in stale => q \in stale')
        /\ \A q \in Request \cap R : AccountInHand(q)'
    BY <2>1
  <2> HIDE DEF R
  <2>6. bereft \subseteq bereft' /\ late \subseteq late'
    BY <2>1
  <2> QED BY <2>2, <2>3, <2>4, <2>5, <2>6, AccountsKept
<1>8. ASSUME NEW r \in Request, NEW tok, NEW t \in Tenant, CreateTenant(r, tok, t)
      PROVE  AccountsIInv'
  <2> DEFINE w == [op |-> "seed", on |-> {}, tenant |-> t]
  <2>1. /\ UNCHANGED <<admins, assigned, bereft, stale, late>> /\ req' = [req EXCEPT ![r] = w]
    BY <1>8 DEF CreateTenant, Start, shadows
  <2>2. w.op \notin {"create"} \cup Updates
    BY DEF Updates
  <2> HIDE DEF w
  <2> QED BY <2>1, <2>2, <1>b
<1>9. ASSUME NEW r \in Request, NEW tok, NEW t \in Tenant, NEW active, SettingsRead(r, tok, t, active)
      PROVE  AccountsIInv'
  <2> DEFINE w == [op |-> "settings", on |-> {t}, tenant |-> t,
                   platform |-> active # Keep /\ tok.role = "PLATFORM_ADMIN",
                   row |-> [active |-> Given(active, tenants[t].active)]]
  <2>1. /\ UNCHANGED <<admins, assigned, bereft, stale, late>> /\ req' = [req EXCEPT ![r] = w]
    BY <1>9 DEF SettingsRead, Start, tables, shadows
  <2>2. w.op \notin {"create"} \cup Updates
    BY DEF Updates
  <2> HIDE DEF w
  <2> QED BY <2>1, <2>2, <1>b
\* A request ends without storing an administrator.
<1>10. ASSUME NEW r \in Request, SeedDefaults(r) \/ SettingsSave(r) \/ GiveUp(r)
       PROVE  AccountsIInv'
  <2>1. /\ UNCHANGED <<admins, assigned, bereft>> /\ req' = [req EXCEPT ![r] = Idle]
        /\ late \subseteq late' /\ stale \subseteq stale' \cup {r}
    BY <1>10 DEF SeedDefaults, SettingsSave, GiveUp, Continue, Commit, Abandon, Finish, tables,
                 shadows
  <2> QED BY <2>1, <1>b, IdleHolds
<1>11. ASSUME NEW r \in Request, NEW tok, NEW a \in Account, NEW c \in Change,
              UpdateRead(r, tok, a, c.role, c.active, c.tenants)
       PROVE  AccountsIInv'
  BY <1>11, UpdateReads
<1>12. CASE UNCHANGED vars
  BY <1>12, <1>a DEF vars, tables, shadows, requestVars
<1> QED
  BY <1>1, <1>2, <1>3, <1>4, <1>5, <1>6, <1>7, <1>8, <1>9, <1>10, <1>11, <1>12,
     UpdateDeletes, UpdateCommits
  DEF Next, CommonStep, AdminStep, TenantStep, DeleteStep, DeactivateStep

----------------------------------------------------------------------------
\* A request that is about to save tenant t has read it; if it does not speak
\* for the platform, it has left the status alone.
SettingsInHand(r, t) ==
    /\ t \in Tenant /\ req[r].on = {t} /\ req[r].row \in TenantRow /\ tenants[t] # Unissued
    /\ r \notin stale =>
           t \in Stored /\ (req[r].platform \/ req[r].row.active = tenants[t].active)

TenantInHand(r) ==
    req[r].op = "settings" => \A t : req[r].tenant = t => SettingsInHand(r, t)

TenantsIInv ==
    /\ tenants \in [Tenant -> TenantRow \cup {Unissued, Deleted}]
    /\ decided \in [Tenant -> BOOLEAN]
    /\ DOMAIN req = Request
    /\ \A t \in Tenant : tenants[t] = Unissued => decided[t] = TRUE
    /\ \A r \in Request : TenantInHand(r)
    /\ TenantsAsDecided

\* The tenant whose scopes request r is to store.
Seeding(r, t) == req[r].op = "seed" /\ req[r].tenant = t

\* A step that leaves the tables of the tenants alone.
LEMMA TenantsRead ==
    ASSUME TenantsIInv, UNCHANGED <<tenants, decided, seeded>>, late \subseteq late',
           halfway \subseteq halfway', NEW r \in Request, NEW w, req' = [req EXCEPT ![r] = w],
           stale \subseteq stale' \cup {r}, TenantInHand(r)',
           req[r].op = "seed" => req[r].tenant \in halfway'
    PROVE  TenantsIInv'
<1>1. Stored' = Stored
  BY DEF Stored
<1>2. \A q \in Request \ {r} : req'[q] = req[q] /\ TenantInHand(q) /\ (q \in stale => q \in stale')
  BY DEF TenantsIInv
<1>3. ASSUME NEW q \in Request PROVE TenantInHand(q)'
  <2>1. CASE q = r
    BY <2>1
  <2>2. CASE q # r
    <3>1. ASSUME NEW t, SettingsInHand(q, t) PROVE SettingsInHand(q, t)'
      BY <1>1, <1>2, <2>2, <3>1 DEF SettingsInHand
    <3> QED BY <1>2, <2>2, <3>1 DEF TenantInHand
  <2> QED BY <2>1, <2>2
<1>4. StatusByPlatform'
  BY <1>1 DEF TenantsIInv, TenantsAsDecided, StatusByPlatform
<1>5. ScopesAreSeeded'
  <2> SUFFICES ASSUME NEW t \in Stored', t \notin (seeded \cup halfway \cup late)'
               PROVE  \E q \in Request : req'[q].op = "seed" /\ req'[q].tenant = t
    BY DEF ScopesAreSeeded
  <2>1. PICK q \in Request : Seeding(q, t)
    BY <1>1 DEF TenantsIInv, TenantsAsDecided, ScopesAreSeeded, Seeding
  <2>2. q # r
    BY <2>1 DEF Seeding
  <2> QED BY <1>2, <2>1, <2>2 DEF Seeding
<1> QED BY <1>3, <1>4, <1>5 DEF TenantsIInv, TenantsAsDecided

\* The status is what it was decided to be, or the tenant has been saved late.
LEMMA SettingsSaves ==
    ASSUME TenantsIInv, NEW r \in Request, SettingsSave(r)
    PROVE  TenantsIInv'
<1> USE AdministrationAssumption
<1>0. PICK t : t = req[r].tenant
  OBVIOUS
<1> DEFINE row == req[r].row
<1>1. /\ req[r].op = "settings" /\ tenants' = [tenants EXCEPT ![t] = row]
      /\ decided' = IF req[r].platform THEN [decided EXCEPT ![t] = row.active] ELSE decided
      /\ req' = [req EXCEPT ![r] = Idle]
      /\ late' = IF r \in stale THEN late \cup {t} ELSE late
      /\ stale' = (stale \cup {q \in Request : Reads(q, t)}) \ {r}
      /\ UNCHANGED <<seeded, halfway>>
  BY <1>0 DEF SettingsSave, Commit, Finish
<1>2. SettingsInHand(r, t)
  BY <1>0, <1>1 DEF TenantsIInv, TenantInHand
<1>3. t \in Tenant /\ row \in TenantRow /\ row.active \in BOOLEAN
  BY <1>2 DEF SettingsInHand, TenantRow
<1>4. /\ tenants' \in [Tenant -> TenantRow \cup {Unissued, Deleted}]
      /\ decided' \in [Tenant -> BOOLEAN] /\ DOMAIN req' = Request
  BY <1>1, <1>3 DEF TenantsIInv
<1>5. /\ tenants'[t] = row /\ row \notin {Unissued, Deleted}
      /\ \A s \in Tenant \ {t} : tenants'[s] = tenants[s] /\ decided'[s] = decided[s]
  BY <1>1, <1>3 DEF TenantsIInv
<1>6. Stored' = Stored \cup {t}
  BY <1>3, <1>5 DEF Stored
<1>7. ASSUME NEW q \in Request PROVE TenantInHand(q)'
  <2>1. CASE q = r
    BY <1>1, <2>1, IdleHolds DEF TenantInHand, TenantsIInv
  <2>2. CASE q # r
    <3>1. req'[q] = req[q] /\ TenantInHand(q)
      BY <1>1, <2>2 DEF TenantsIInv
    <3>2. ASSUME NEW s, req[q].op = "settings", SettingsInHand(q, s) PROVE SettingsInHand(q, s)'
      <4>1. req[q] # Idle /\ req[q].on = {s} /\ s \in Tenant
        BY <3>2, IdleHolds DEF SettingsInHand
      <4>2. CASE s = t
        <5>1. q \in stale'
          BY <1>1, <2>2, <4>1, <4>2 DEF Reads
        <5> QED BY <1>5, <3>1, <3>2, <4>2, <5>1 DEF SettingsInHand
      <4>3. CASE s # t
        BY <1>1, <1>5, <1>6, <2>2, <3>1, <3>2, <4>1, <4>3 DEF SettingsInHand
      <4> QED BY <4>2, <4>3
    <3> QED BY <3>1, <3>2 DEF TenantInHand
  <2> QED BY <2>1, <2>2
<1>8. StatusByPlatform'
  <2> SUFFICES ASSUME NEW s \in Stored', s \notin late'
               PROVE  tenants'[s].active = decided'[s]
    BY DEF StatusByPlatform
  <2>1. CASE s # t
    BY <1>1, <1>5, <1>6, <2>1 DEF TenantsIInv, TenantsAsDecided, StatusByPlatform, Stored
  <2>2. CASE s = t
    <3>1. r \notin stale /\ t \notin late
      BY <1>1, <2>2
    <3>2. t \in Stored /\ (req[r].platform \/ row.active = tenants[t].active)
      BY <1>2, <3>1 DEF SettingsInHand
    <3>3. tenants[t].active = decided[t]
      BY <3>1, <3>2 DEF TenantsIInv, TenantsAsDecided, StatusByPlatform
    <3>4. CASE req[r].platform
      BY <1>1, <1>3, <1>5, <2>2, <3>4 DEF TenantsIInv
    <3>5. CASE ~req[r].platform
      BY <1>1, <1>5, <2>2, <3>2, <3>3, <3>5
    <3> QED BY <3>4, <3>5
  <2> QED BY <2>1, <2>2
<1>9. ScopesAreSeeded'
  <2> SUFFICES ASSUME NEW s \in Stored', s \notin (seeded \cup halfway \cup late)'
               PROVE  \E q \in Request : req'[q].op = "seed" /\ req'[q].tenant = s
    BY DEF ScopesAreSeeded
  <2>1. s \in Stored /\ s \notin late
    BY <1>1, <1>2, <1>6 DEF SettingsInHand
  <2>2. PICK q \in Request : Seeding(q, s)
    BY <1>1, <2>1 DEF TenantsIInv, TenantsAsDecided, ScopesAreSeeded, Seeding
  <2>3. q # r
    BY <1>1, <2>2 DEF Seeding
  <2> QED BY <1>1, <2>2, <2>3 DEF Seeding, TenantsIInv
<1>10. \A s \in Tenant : tenants'[s] = Unissued => decided'[s] = TRUE
  BY <1>5 DEF TenantsIInv
<1> QED BY <1>4, <1>7, <1>8, <1>9, <1>10 DEF TenantsIInv, TenantsAsDecided

\* What was read is the status decided last.
LEMMA SettingsReads ==
    ASSUME TenantsIInv, NEW r \in Request, NEW tok, NEW t \in Tenant,
           NEW active \in BOOLEAN \cup {Keep}, SettingsRead(r, tok, t, active)
    PROVE  TenantsIInv'
<1> USE AdministrationAssumption
<1> DEFINE row == [active |-> Given(active, tenants[t].active)]
           platform == active # Keep /\ tok.role = "PLATFORM_ADMIN"
           w == [op |-> "settings", on |-> {t}, tenant |-> t, platform |-> platform, row |-> row]
<1>1. /\ t \in Stored /\ (active # Keep => tok.role = "PLATFORM_ADMIN")
      /\ req[r] = Idle /\ req' = [req EXCEPT ![r] = w]
      /\ UNCHANGED <<tenants, decided, seeded, halfway, stale, late>>
  BY DEF SettingsRead, MayUpdate, Start, tables, shadows
<1>2. tenants[t] \in TenantRow /\ tenants[t] # Unissued
  BY <1>1 DEF Stored, TenantsIInv
<1>3. row \in TenantRow
  BY <1>2 DEF TenantRow, Given
<1>4. platform \/ row.active = tenants[t].active
  BY <1>1 DEF Given
<1> HIDE DEF row, platform
<1>5. req'[r] = w /\ Stored' = Stored
  BY <1>1 DEF TenantsIInv, Stored
<1>6. SettingsInHand(r, t)'
  BY <1>1, <1>2, <1>3, <1>4, <1>5 DEF SettingsInHand
<1>7. TenantInHand(r)'
  BY <1>5, <1>6 DEF TenantInHand
<1> QED BY <1>1, <1>7, IdleHolds, TenantsRead

\* A new tenant is active, and its scopes are on their way.
LEMMA TenantCreates ==
    ASSUME TenantsIInv, NEW r \in Request, NEW tok, NEW t \in Tenant, CreateTenant(r, tok, t)
    PROVE  TenantsIInv'
<1> USE AdministrationAssumption
<1> DEFINE row == [active |-> TRUE]
           w == [op |-> "seed", on |-> {}, tenant |-> t]
<1>1. /\ tenants[t] = Unissued /\ tenants' = [tenants EXCEPT ![t] = row]
      /\ req[r] = Idle /\ req' = [req EXCEPT ![r] = w]
      /\ UNCHANGED <<decided, seeded, halfway, stale, late>>
  BY DEF CreateTenant, Start, shadows
<1>2. row \in TenantRow /\ row.active = TRUE
  BY DEF TenantRow
<1> HIDE DEF row
<1>3. /\ tenants'[t] = row /\ decided[t] = TRUE /\ req'[r] = w
      /\ \A s \in Tenant \ {t} : tenants'[s] = tenants[s]
      /\ \A q \in Request \ {r} : req'[q] = req[q] /\ TenantInHand(q)
  BY <1>1 DEF TenantsIInv
<1>4. Stored' = Stored \cup {t}
  BY <1>2, <1>3 DEF Stored
<1>5. ASSUME NEW q \in Request PROVE TenantInHand(q)'
  <2>1. CASE q = r
    BY <1>3, <2>1 DEF TenantInHand
  <2>2. CASE q # r
    <3>1. ASSUME NEW s, SettingsInHand(q, s) PROVE SettingsInHand(q, s)'
      <4>1. s \in Tenant /\ s # t
        BY <1>1, <3>1 DEF SettingsInHand
      <4> QED BY <1>1, <1>3, <1>4, <2>2, <3>1, <4>1 DEF SettingsInHand
    <3> QED BY <1>3, <2>2, <3>1 DEF TenantInHand
  <2> QED BY <2>1, <2>2
<1>6. StatusByPlatform'
  BY <1>1, <1>2, <1>3, <1>4 DEF TenantsIInv, TenantsAsDecided, StatusByPlatform, Stored
<1>7. ScopesAreSeeded'
  <2> SUFFICES ASSUME NEW s \in Stored', s \notin (seeded \cup halfway \cup late)'
               PROVE  \E q \in Request : req'[q].op = "seed" /\ req'[q].tenant = s
    BY DEF ScopesAreSeeded
  <2>1. CASE s = t
    BY <1>3, <2>1
  <2>2. CASE s # t
    <3>1. PICK q \in Request : Seeding(q, s)
      BY <1>1, <1>4, <2>2 DEF TenantsIInv, TenantsAsDecided, ScopesAreSeeded, Seeding
    <3>2. q # r
      BY <1>1, <3>1, IdleHolds DEF Seeding
    <3> QED BY <1>3, <3>1, <3>2 DEF Seeding
  <2> QED BY <2>1, <2>2
<1>8. /\ tenants' \in [Tenant -> TenantRow \cup {Unissued, Deleted}] /\ DOMAIN req' = Request
      /\ \A s \in Tenant : tenants'[s] = Unissued => decided'[s] = TRUE
  BY <1>1, <1>2, <1>3 DEF TenantsIInv
<1> QED BY <1>1, <1>5, <1>6, <1>7, <1>8 DEF TenantsIInv, TenantsAsDecided

\* The creation of a tenant ends with its scopes.
LEMMA ScopesAreStored ==
    ASSUME TenantsIInv, NEW r \in Request, SeedDefaults(r)
    PROVE  TenantsIInv'
<1>1. /\ req[r].op = "seed" /\ seeded' = seeded \cup {req[r].tenant}
      /\ req' = [req EXCEPT ![r] = Idle]
      /\ UNCHANGED <<tenants, decided, halfway, stale, late>>
  BY DEF SeedDefaults, Continue, shadows
<1>2. Stored' = Stored
  BY <1>1 DEF Stored
<1>3. /\ req'[r] = Idle /\ DOMAIN req' = Request
      /\ \A q \in Request \ {r} : req'[q] = req[q] /\ TenantInHand(q)
  BY <1>1 DEF TenantsIInv
<1>4. ASSUME NEW q \in Request PROVE TenantInHand(q)'
  <2>1. CASE q = r
    BY <1>3, <2>1, IdleHolds DEF TenantInHand
  <2>2. CASE q # r
    BY <1>1, <1>2, <1>3, <2>2 DEF TenantInHand, SettingsInHand
  <2> QED BY <2>1, <2>2
<1>5. StatusByPlatform'
  BY <1>1, <1>2 DEF TenantsIInv, TenantsAsDecided, StatusByPlatform
<1>6. ScopesAreSeeded'
  <2> SUFFICES ASSUME NEW s \in Stored', s \notin (seeded \cup halfway \cup late)'
               PROVE  \E q \in Request : req'[q].op = "seed" /\ req'[q].tenant = s
    BY DEF ScopesAreSeeded
  <2>1. PICK q \in Request : Seeding(q, s)
    BY <1>1, <1>2 DEF TenantsIInv, TenantsAsDecided, ScopesAreSeeded, Seeding
  <2>2. q # r
    BY <1>1, <2>1 DEF Seeding
  <2> QED BY <1>3, <2>1, <2>2 DEF Seeding
<1> QED BY <1>1, <1>3, <1>4, <1>5, <1>6 DEF TenantsIInv, TenantsAsDecided

\* Whoever has read the tenant may bring it back, and is stale.
LEMMA TenantDeletes ==
    ASSUME TenantsIInv, NEW tok, NEW t \in Tenant, DeleteTenant(tok, t)
    PROVE  TenantsIInv'
<1> USE AdministrationAssumption, RowsAssumption
<1>1. /\ t \in Stored /\ tenants' = [tenants EXCEPT ![t] = Deleted] /\ seeded' = seeded \ {t}
      /\ stale' = stale \cup {q \in Request : Reads(q, t)}
      /\ UNCHANGED <<decided, halfway, req, late>>
  BY DEF DeleteTenant, Touch
<1>2. tenants'[t] = Deleted /\ \A s \in Tenant \ {t} : tenants'[s] = tenants[s]
  BY <1>1 DEF TenantsIInv
<1>3. Stored' = Stored \ {t}
  BY <1>2 DEF Stored
<1>4. ASSUME NEW q \in Request PROVE TenantInHand(q)'
  <2>1. req'[q] = req[q] /\ TenantInHand(q) /\ (req[q].op = "settings" => req[q] # Idle)
    BY <1>1, IdleHolds DEF TenantsIInv
  <2>2. ASSUME NEW s, req[q].op = "settings", SettingsInHand(q, s) PROVE SettingsInHand(q, s)'
    <3>1. CASE s = t
      <4>1. q \in stale'
        BY <1>1, <2>1, <2>2, <3>1 DEF SettingsInHand, Reads
      <4> QED BY <1>2, <2>1, <2>2, <3>1, <4>1 DEF SettingsInHand
    <3>2. CASE s # t
      BY <1>1, <1>2, <1>3, <2>1, <2>2, <3>2 DEF SettingsInHand
    <3> QED BY <3>1, <3>2
  <2> QED BY <2>1, <2>2 DEF TenantInHand
<1>5. StatusByPlatform'
  BY <1>1, <1>2, <1>3 DEF TenantsIInv, TenantsAsDecided, StatusByPlatform, Stored
<1>6. ScopesAreSeeded'
  BY <1>1, <1>3 DEF TenantsIInv, TenantsAsDecided, ScopesAreSeeded
<1>7. /\ tenants' \in [Tenant -> TenantRow \cup {Unissued, Deleted}]
      /\ \A s \in Tenant : tenants'[s] = Unissued => decided'[s] = TRUE
  BY <1>1, <1>2 DEF TenantsIInv
<1> QED BY <1>1, <1>4, <1>5, <1>6, <1>7 DEF TenantsIInv, TenantsAsDecided

\* Every operation keeps what is said of the tenants.
LEMMA TenantsStep == TenantsIInv /\ [Next]_vars => TenantsIInv'
<1> SUFFICES ASSUME TenantsIInv, [Next]_vars PROVE TenantsIInv'
  OBVIOUS
\* No request moves.
<1>a. ASSUME UNCHANGED <<tenants, decided, seeded, halfway, req, late>>, stale \subseteq stale'
      PROVE  TenantsIInv'
  <2>1. Stored' = Stored
    BY <1>a DEF Stored
  <2>2. \A r \in Request : TenantInHand(r)'
    BY <1>a, <2>1 DEF TenantsIInv, TenantInHand, SettingsInHand
  <2> QED BY <1>a, <2>1, <2>2 DEF TenantsIInv, TenantsAsDecided, StatusByPlatform, ScopesAreSeeded
\* A request that has nothing to do with the tenants moves.
<1>b. ASSUME UNCHANGED <<tenants, decided, seeded, halfway>>, late \subseteq late',
             NEW r \in Request, req[r].op # "seed", NEW w, w.op # "settings",
             req' = [req EXCEPT ![r] = w], stale \subseteq stale' \cup {r}
      PROVE  TenantsIInv'
  <2>1. req'[r] = w
    BY <1>b DEF TenantsIInv
  <2>2. TenantInHand(r)'
    BY <1>b, <2>1 DEF TenantInHand
  <2> QED BY <1>b, <2>2, TenantsRead
<1>1. ASSUME NEW tok, NEW a \in Account, Login(a) \/ Deactivate(tok, a) PROVE TenantsIInv'
  <2>1. UNCHANGED <<tenants, decided, seeded, halfway, req, late>> /\ stale \subseteq stale'
    BY <1>1 DEF Login, Deactivate, Touch, tables, shadows, requestVars
  <2> QED BY <2>1, <1>a
<1>2. ASSUME NEW r \in Request, BootstrapRead(r) PROVE TenantsIInv'
  <2>1. /\ req[r] = Idle /\ req' = [req EXCEPT ![r] = [op |-> "bootstrap", on |-> Account]]
        /\ UNCHANGED <<tenants, decided, seeded, halfway, stale, late>>
    BY <1>2 DEF BootstrapRead, Start, tables, shadows
  <2> QED BY <2>1, <1>b, IdleHolds
<1>3. ASSUME NEW r \in Request, NEW tok, NEW role, NEW T, CreateRead(r, tok, role, T)
      PROVE  TenantsIInv'
  <2>1. /\ req[r] = Idle
        /\ req' = [req EXCEPT ![r] =
               [op |-> "create", on |-> {}, role |-> role, tenants |-> Resolve(role, T)]]
        /\ UNCHANGED <<tenants, decided, seeded, halfway, stale, late>>
    BY <1>3 DEF CreateRead, Start, tables, shadows
  <2> QED BY <2>1, <1>b, IdleHolds
<1>4. ASSUME NEW r \in Request, NEW tok, NEW a, NEW c,
             UpdateRead(r, tok, a, c.role, c.active, c.tenants)
      PROVE  TenantsIInv'
  <2> DEFINE next == Given(c.role, admins[a].role)
             w == [op |-> "update", on |-> {a}, admin |-> a,
                   tenants |-> Replacement(next, c.tenants),
                   row |-> [role |-> next, active |-> Given(c.active, admins[a].active)]]
  <2>1. /\ req[r] = Idle /\ req' = [req EXCEPT ![r] = w]
        /\ UNCHANGED <<tenants, decided, seeded, halfway, stale, late>>
    BY <1>4 DEF UpdateRead, Start, tables, shadows
  <2>2. w.op = "update"
    OBVIOUS
  <2> HIDE DEF w
  <2> QED BY <2>1, <2>2, <1>b, IdleHolds
<1>5. ASSUME NEW r \in Request, UpdateDelete(r) PROVE TenantsIInv'
  <2> DEFINE w == [op |-> "replace", on |-> req[r].on, admin |-> req[r].admin,
                   row |-> req[r].row, tenants |-> req[r].tenants,
                   seen |-> TenantsOf(req[r].admin)]
  <2>1. /\ req[r].op = "update" /\ req' = [req EXCEPT ![r] = w]
        /\ UNCHANGED <<tenants, decided, seeded, halfway, stale, late>>
    BY <1>5 DEF UpdateDelete, Continue, tables, shadows
  <2>2. w.op = "replace"
    OBVIOUS
  <2> HIDE DEF w
  <2> QED BY <2>1, <2>2, <1>b
\* A request ends that has stored an administrator.
<1>6. ASSUME NEW r \in Request, NEW a,
             BootstrapSave(r, a) \/ CreateSave(r, a) \/ UpdateCommit(r)
      PROVE  TenantsIInv'
  <2>1. /\ req[r].op # "seed" /\ req' = [req EXCEPT ![r] = Idle]
        /\ UNCHANGED <<tenants, decided, seeded, halfway>>
        /\ late \subseteq late' /\ stale \subseteq stale' \cup {r}
    BY <1>6 DEF BootstrapSave, CreateSave, UpdateCommit, Commit, Finish
  <2> QED BY <2>1, <1>b, IdleHolds
<1>7. ASSUME NEW r \in Request, GiveUp(r) PROVE TenantsIInv'
  <2>1. /\ req' = [req EXCEPT ![r] = Idle]
        /\ UNCHANGED <<tenants, decided, seeded, late>> /\ halfway \subseteq halfway'
        /\ stale' = stale \ {r} /\ (req[r].op = "seed" => req[r].tenant \in halfway')
    BY <1>7 DEF GiveUp, Abandon, Finish, tables
  <2>2. req'[r] = Idle
    BY <2>1 DEF TenantsIInv
  <2>3. TenantInHand(r)'
    BY <2>2, IdleHolds DEF TenantInHand
  <2> QED BY <2>1, <2>3, TenantsRead
<1>8. CASE UNCHANGED vars
  BY <1>8, <1>a DEF vars, tables, shadows, requestVars
<1> QED
  BY <1>1, <1>2, <1>3, <1>4, <1>5, <1>6, <1>7, <1>8, SettingsReads, SettingsSaves, TenantCreates,
     ScopesAreStored, TenantDeletes
  DEF Next, CommonStep, AdminStep, TenantStep, DeleteStep, DeactivateStep

\* It holds of an empty database.
LEMMA AdministrationInitial == Init => AccountsIInv /\ TenantsIInv
<1> SUFFICES ASSUME Init PROVE AccountsIInv /\ TenantsIInv
  OBVIOUS
<1>1. Existing = {} /\ Stored = {} /\ \A a : TenantsOf(a) = {}
  BY DEF Init, Existing, Stored, TenantsOf
<1>2. DOMAIN req = Request /\ \A r \in Request : req[r] = Idle
  BY DEF Init, RequestInit
<1>3. \A r \in Request : AccountInHand(r) /\ TenantInHand(r)
  BY <1>2, IdleHolds DEF AccountInHand, TenantInHand
<1>4. AssignmentsFit /\ TenantsAsDecided
  BY <1>1 DEF AssignmentsFit, Platforms, TenantsAsDecided, StatusByPlatform, ScopesAreSeeded
<1> QED BY <1>1, <1>2, <1>3, <1>4 DEF Init, AccountsIInv, TenantsIInv

\* An administrator of the platform has no assignments and a tenant administrator
\* has one, unless a stale request saved it or the tenant was deleted
\* (admin-auth.service.ts:188-201, admin-user-tenant.entity.ts:12).
THEOREM AssignmentsDoFit == Spec => []AssignmentsFit
<1>1. AccountsIInv => AssignmentsFit
  BY DEF AccountsIInv
<1> QED BY <1>1, AdministrationInitial, AccountsStep, PTL DEF Spec

\* A tenant's status is what the platform decided last (tenants.controller.ts:90-102)
\* and its default scopes are stored once its creation is over
\* (tenants.service.ts:105-106), unless a stale request saved it or the creation
\* broke off.
THEOREM TenantsStayAsDecided == Spec => []TenantsAsDecided
<1>1. TenantsIInv => TenantsAsDecided
  BY DEF TenantsIInv
<1> QED BY <1>1, AdministrationInitial, TenantsStep, PTL DEF Spec

-----------------------------------------------------------------------------
(***************************************************************************)
(* Types.                                                                  *)
(***************************************************************************)

\* Requests keep their types in every part: what starts or goes on is a state
\* of the part, and what is saved late is one of its objects.
LEMMA RequestTypes ==
    ASSUME NEW State, NEW Object_, RequestTypeOK(State, Object_), NEW r \in Request
    PROVE  /\ \A w \in State : Start(r, w) \/ Continue(r, w) =>
                RequestTypeOK(State, Object_)'
           /\ \A x \in Object_ : Commit(r, x) => RequestTypeOK(State, Object_)'
           /\ Abandon(r) => RequestTypeOK(State, Object_)'
BY DEF RequestTypeOK, Start, Continue, Commit, Finish, Abandon

\* So they do in a step that touches an object, or leaves the requests alone.
LEMMA TouchTypes ==
    ASSUME NEW State, NEW Object_, RequestTypeOK(State, Object_)
    PROVE  /\ \A x : Touch(x) => RequestTypeOK(State, Object_)'
           /\ UNCHANGED requestVars => RequestTypeOK(State, Object_)'
BY DEF RequestTypeOK, Touch, requestVars

\* Every operation keeps the types.
LEMMA SchemaTypeStep == SchemaTypeOK /\ [SchemaNext]_schemaVars => SchemaTypeOK'
<1> SUFFICES ASSUME SchemaTypeOK, [SchemaNext]_schemaVars
             PROVE  SchemaTypeOK'
  OBVIOUS
<1>0. RequestTypeOK(SchemaWorking, Schema)
  BY DEF SchemaTypeOK
<1>1. ASSUME NEW r \in Request, NEW n \in 1 .. MaxVersion, PublishRead(r, n)
      PROVE  SchemaTypeOK'
  <2>1. [op |-> "publish", on |-> Schema, version |-> n] \in SchemaWorking
    BY DEF SchemaWorking
  <2> QED BY <1>0, <1>1, <2>1, RequestTypes DEF PublishRead, SchemaTypeOK
<1>2. ASSUME NEW r \in Request, NEW x \in Schema, PublishSave(r, x)
      PROVE  SchemaTypeOK'
  <2>1. req[r].version \in 1 .. MaxVersion
    BY <1>0, <1>2 DEF PublishSave, RequestTypeOK, SchemaWorking, Idle
  <2>2. schemas' \in [Schema -> SchemaRow \cup {Unissued}]
    BY <1>2, <2>1 DEF PublishSave, SchemaTypeOK, SchemaRow
  <2> QED BY <1>0, <1>2, <2>2, RequestTypes DEF PublishSave, SchemaTypeOK
<1>3. ASSUME NEW r \in Request, NEW x \in Schema, DeprecateRead(r, x)
      PROVE  SchemaTypeOK'
  <2> DEFINE w == [op |-> "deprecate", on |-> {x}, schema |-> x,
                   row |-> [schemas[x] EXCEPT !.published = FALSE]]
  <2>1. schemas[x] \in SchemaRow
    BY <1>3 DEF DeprecateRead, Published, SchemaTypeOK
  <2>2. w \in SchemaWorking
    BY <2>1 DEF SchemaWorking, SchemaRow
  <2>3. Start(r, w) /\ UNCHANGED schemas
    BY <1>3 DEF DeprecateRead
  <2> HIDE DEF w
  <2> QED BY <1>0, <2>2, <2>3, RequestTypes DEF SchemaTypeOK
<1>4. ASSUME NEW r \in Request, DeprecateSave(r)
      PROVE  SchemaTypeOK'
  <2>1. req[r].schema \in Schema /\ req[r].row \in SchemaRow
    BY <1>0, <1>4 DEF DeprecateSave, RequestTypeOK, SchemaWorking, Idle
  <2>2. schemas' \in [Schema -> SchemaRow \cup {Unissued}]
    BY <1>4, <2>1 DEF DeprecateSave, SchemaTypeOK
  <2> QED BY <1>0, <1>4, <2>1, <2>2, RequestTypes DEF DeprecateSave, SchemaTypeOK
<1>5. ASSUME NEW r \in Request, AbandonSchema(r)
      PROVE  SchemaTypeOK'
  BY <1>0, <1>5, RequestTypes DEF AbandonSchema, SchemaTypeOK
<1>6. ASSUME UNCHANGED schemaVars
      PROVE  SchemaTypeOK'
  BY <1>0, <1>6, TouchTypes DEF schemaVars, SchemaTypeOK
<1> QED BY <1>1, <1>2, <1>3, <1>4, <1>5, <1>6 DEF SchemaNext

\* Every version and every publication keeps its type.
THEOREM SchemaTypeCorrect == SchemaSpec => []SchemaTypeOK
<1>1. SchemaInit => SchemaTypeOK
  BY DEF SchemaInit, SchemaTypeOK, RequestInit, RequestTypeOK
<1> QED BY <1>1, SchemaTypeStep, PTL DEF SchemaSpec

\* Every operation keeps the types.
LEMMA KeyTypeStep == KeyTypeOK /\ [KeyNext]_keyVars => KeyTypeOK'
<1> SUFFICES ASSUME KeyTypeOK, [KeyNext]_keyVars
             PROVE  KeyTypeOK'
  OBVIOUS
<1>0. RequestTypeOK(KeyWorking, SigningKey)
  BY DEF KeyTypeOK
<1>1. ASSUME NEW r \in Request, LookUp(r)
      PROVE  KeyTypeOK'
  <2>1. [op |-> "absent", on |-> SigningKey] \in KeyWorking
    BY DEF KeyWorking
  <2> QED BY <1>0, <1>1, <2>1, RequestTypes DEF LookUp, KeyTypeOK
<1>2. ASSUME NEW r \in Request, RetireActive(r)
      PROVE  KeyTypeOK'
  <2>1. req[r] \in KeyWorking
    BY <1>0, <1>2 DEF RetireActive, RequestTypeOK, Idle
  <2>2. [req[r] EXCEPT !.op = "retired"] \in KeyWorking
    BY <2>1 DEF KeyWorking
  <2>3. req' \in [Request -> {Idle} \cup KeyWorking]
    BY <1>0, <1>2, <2>2 DEF RetireActive, RequestTypeOK
  <2>4. ActiveKeys \subseteq SigningKey /\ \A k \in ActiveKeys : keys[k] \in KeyRow
    BY DEF ActiveKeys, Drawn, KeyTypeOK
  <2>5. \A k \in ActiveKeys : [keys[k] EXCEPT !.status = "RETIRED"] \in KeyRow
    BY <2>4 DEF KeyRow, KeyStatus
  <2>6. keys' \in [SigningKey -> KeyRow \cup {Unissued}]
    BY <1>2, <2>5 DEF RetireActive, KeyTypeOK
  <2>7. stale' \subseteq Request /\ late' \subseteq SigningKey
    BY <1>0, <1>2, <2>4 DEF RetireActive, RequestTypeOK
  <2> QED BY <1>2, <2>3, <2>6, <2>7 DEF RetireActive, KeyTypeOK, RequestTypeOK
<1>3. ASSUME NEW r \in Request, NEW k \in SigningKey, InsertKey(r, k)
      PROVE  KeyTypeOK'
  <2>1. Cardinality(Drawn) \in Nat
    <3>1. Drawn \subseteq SigningKey
      BY DEF Drawn
    <3> QED BY <3>1, KeysAssumption, FS_Subset, FS_CardinalityType
  <2>2. [status |-> "ACTIVE", created |-> Cardinality(Drawn) + 1] \in KeyRow
    BY <2>1 DEF KeyRow, KeyStatus
  <2>3. keys' \in [SigningKey -> KeyRow \cup {Unissued}]
    BY <1>3, <2>2 DEF InsertKey, KeyTypeOK
  <2> QED BY <1>0, <1>3, <2>3, RequestTypes DEF InsertKey, KeyTypeOK
<1>4. ASSUME NEW k \in SigningKey, Sign(k)
      PROVE  KeyTypeOK'
  BY <1>0, <1>4, TouchTypes DEF Sign, KeyTypeOK
<1>5. ASSUME NEW r \in Request, AbandonKey(r)
      PROVE  KeyTypeOK'
  BY <1>0, <1>5, RequestTypes DEF AbandonKey, KeyTypeOK
<1>6. ASSUME UNCHANGED keyVars
      PROVE  KeyTypeOK'
  BY <1>0, <1>6, TouchTypes DEF keyVars, KeyTypeOK
<1> QED BY <1>1, <1>2, <1>3, <1>4, <1>5, <1>6 DEF KeyNext

\* Every key keeps its type.
THEOREM KeyTypeCorrect == KeySpec => []KeyTypeOK
<1>1. KeyInit => KeyTypeOK
  BY DEF KeyInit, KeyTypeOK, RequestInit, RequestTypeOK
<1> QED BY <1>1, KeyTypeStep, PTL DEF KeySpec

\* Every operation keeps the types.
LEMMA ProviderTypeStep == ProviderTypeOK /\ [ProviderNext]_providerVars => ProviderTypeOK'
<1> SUFFICES ASSUME ProviderTypeOK, [ProviderNext]_providerVars
             PROVE  ProviderTypeOK'
  OBVIOUS
<1>0. RequestTypeOK(ProviderWorking, Provider)
  BY DEF ProviderTypeOK
<1>r. ASSUME NEW settings \in Sent, NEW n \in Nat
      PROVE  NewRow(settings, n) \in Row
  BY <1>r, ProvidersAssumption DEF NewRow, Row, Settings
<1>1. ASSUME NEW r \in Request, NEW settings \in Sent, CreateCheck(r, settings)
      PROVE  ProviderTypeOK'
  <2> DEFINE w == [op |-> "create", on |-> Provider, row |-> NewRow(settings, 0)]
  <2>1. w \in ProviderWorking
    BY <1>r DEF ProviderWorking
  <2>2. Start(r, w) /\ UNCHANGED providers
    BY <1>1 DEF CreateCheck
  <2> HIDE DEF w
  <2> QED BY <1>0, <2>1, <2>2, RequestTypes DEF ProviderTypeOK
<1>2. ASSUME NEW r \in Request, NEW x \in Provider, NEW row \in Row, Store(r, x, row)
      PROVE  ProviderTypeOK'
  BY <1>0, <1>2, RequestTypes DEF Store, ProviderTypeOK
<1>3. ASSUME NEW r \in Request, NEW x \in Provider, CreateProviderSave(r, x)
      PROVE  ProviderTypeOK'
  <2> DEFINE Drawn_ == {y \in Provider : providers[y] # Unissued}
             row == [req[r].row EXCEPT !.created = Cardinality(Drawn_) + 1]
  <2>1. req[r].row \in Row
    BY <1>0, <1>3 DEF CreateProviderSave, RequestTypeOK, ProviderWorking, Idle
  <2>2. Cardinality(Drawn_) \in Nat
    <3>1. Drawn_ \subseteq Provider
      OBVIOUS
    <3> QED BY <3>1, ProvidersAssumption, FS_Subset, FS_CardinalityType
  <2>3. Store(r, x, row)
    BY <1>3 DEF CreateProviderSave
  <2> HIDE DEF Drawn_
  <2>4. row \in Row
    BY <2>1, <2>2 DEF Row
  <2> HIDE DEF row
  <2> QED BY <1>2, <2>3, <2>4
<1>4. ASSUME NEW r \in Request, NEW x \in Provider, NEW settings \in Sent,
             UpdateCheck(r, x, settings)
      PROVE  ProviderTypeOK'
  <2> DEFINE w == [op |-> "update", on |-> Provider, id |-> x,
                   row |-> NewRow(settings, providers[x].created)]
  <2>1. providers[x].created \in Nat
    BY <1>4 DEF UpdateCheck, Live, ProviderTypeOK, Row
  <2>2. w \in ProviderWorking
    BY <1>r, <2>1 DEF ProviderWorking
  <2>3. Start(r, w) /\ UNCHANGED providers
    BY <1>4 DEF UpdateCheck
  <2> HIDE DEF w
  <2> QED BY <1>0, <2>2, <2>3, RequestTypes DEF ProviderTypeOK
<1>5. ASSUME NEW r \in Request, UpdateSave(r)
      PROVE  ProviderTypeOK'
  <2>1. req[r].id \in Provider /\ req[r].row \in Row
    BY <1>0, <1>5 DEF UpdateSave, RequestTypeOK, ProviderWorking, Idle
  <2> QED BY <1>2, <1>5, <2>1 DEF UpdateSave
<1>6. ASSUME NEW x \in Provider, Remove(x)
      PROVE  ProviderTypeOK'
  <2>1. providers[x] \in Row
    BY <1>6 DEF Remove, Live, ProviderTypeOK
  <2>2. providers' \in [Provider -> Row \cup {Unissued}]
    BY <1>6, <2>1 DEF Remove, ProviderTypeOK, Row
  <2> QED BY <1>0, <1>6, <2>2, TouchTypes DEF Remove, ProviderTypeOK
<1>7. ASSUME NEW r \in Request, AbandonProvider(r)
      PROVE  ProviderTypeOK'
  BY <1>0, <1>7, RequestTypes DEF AbandonProvider, ProviderTypeOK
<1>8. ASSUME UNCHANGED providerVars
      PROVE  ProviderTypeOK'
  BY <1>0, <1>8, TouchTypes DEF providerVars, ProviderTypeOK
<1> QED BY <1>1, <1>3, <1>4, <1>5, <1>6, <1>7, <1>8 DEF ProviderNext

\* Every provider keeps its type.
THEOREM ProviderTypeCorrect == ProviderSpec => []ProviderTypeOK
<1>1. ProviderInit => ProviderTypeOK
  BY DEF ProviderInit, ProviderTypeOK, RequestInit, RequestTypeOK
<1> QED BY <1>1, ProviderTypeStep, PTL DEF ProviderSpec

\* The history of the requests names requests and objects.
HistoryOK(Object_) == stale \subseteq Request /\ late \subseteq Object_

\* Every step of a request leaves it so.
LEMMA HistoryTypes ==
    ASSUME NEW Object_, HistoryOK(Object_), NEW r
    PROVE  /\ \A w : Start(r, w) \/ Continue(r, w) => HistoryOK(Object_)'
           /\ \A x \in Object_ : Commit(r, x) => HistoryOK(Object_)'
           /\ \A x : Touch(x) => HistoryOK(Object_)'
           /\ Abandon(r) => HistoryOK(Object_)'
           /\ UNCHANGED requestVars => HistoryOK(Object_)'
BY DEF HistoryOK, Start, Continue, Commit, Touch, Abandon, requestVars

\* Roles, permissions and what refers to them.
RbacTypeIInv == RbacIInv /\ HistoryOK(User \cup TenantRole)

\* The tables and requests are typed by RbacIInv; the history follows.
LEMMA RbacTypeStep == RbacTypeIInv /\ [RbacNext]_rbacVars => RbacTypeIInv'
<1> SUFFICES ASSUME RbacTypeIInv, [RbacNext]_rbacVars
             PROVE  HistoryOK(User \cup TenantRole)'
  BY RbacStep DEF RbacTypeIInv
<1> DEFINE O == User \cup TenantRole
<1>0. HistoryOK(O) /\ req \in [Request -> {Idle} \cup RbacWorking]
  BY DEF RbacTypeIInv, RbacIInv, RbacRequests
<1> HIDE DEF O
<1>1. ASSUME NEW x, NEW isDefault, CreateRole(x, isDefault) PROVE HistoryOK(O)'
  BY <1>0, <1>1, HistoryTypes DEF CreateRole
<1>2. ASSUME NEW x, RemoveRole(x) \/ RemovePermission(x) PROVE HistoryOK(O)'
  BY <1>0, <1>2 DEF RemoveRole, RemovePermission, HistoryOK
<1>3. ASSUME NEW p, CreatePermission(p) PROVE HistoryOK(O)'
  BY <1>0, <1>3, HistoryTypes DEF CreatePermission
<1>4. ASSUME NEW u, NEW x, AddUserRole(u, x) \/ RemoveUserRole(u, x) PROVE HistoryOK(O)'
  BY <1>0, <1>4, HistoryTypes DEF AddUserRole, RemoveUserRole
<1>5. ASSUME NEW r \in Request, NEW x, NEW isDefault, UpdateRoleRead(r, x, isDefault)
      PROVE  HistoryOK(O)'
  BY <1>0, <1>5, HistoryTypes DEF UpdateRoleRead
<1>6. ASSUME NEW r \in Request, NEW x, NEW P, SetRolePermissions(r, x, P) \/ SetUserRoles(r, x, P)
      PROVE  HistoryOK(O)'
  BY <1>0, <1>6, HistoryTypes DEF SetRolePermissions, SetUserRoles
<1>7. ASSUME NEW r \in Request, NEW u, AssignDefaultRead(r, u) \/ ReadRoleNames(r, u)
      PROVE  HistoryOK(O)'
  BY <1>0, <1>7, HistoryTypes DEF AssignDefaultRead, ReadRoleNames
<1>8. ASSUME NEW r \in Request, ReplaceDelete(r) \/ ReadPermissionNames(r)
      PROVE  HistoryOK(O)'
  BY <1>0, <1>8, HistoryTypes DEF ReplaceDelete, DeleteSeen, ReadPermissionNames
<1>9. ASSUME NEW r \in Request, AbandonRbac(r) PROVE HistoryOK(O)'
  BY <1>0, <1>9, HistoryTypes DEF AbandonRbac
<1>10. ASSUME NEW r \in Request,
              \/ UpdateRoleSave(r) \/ RolePermissionsCommit(r)
              \/ UserRolesCommit(r) \/ AssignDefaultInsert(r)
       PROVE  HistoryOK(O)'
  <2>1. /\ req[r].op \in {"saveRole", "setPermissions"} => req[r].role \in O
        /\ req[r].op \in {"setRoles", "assign"} => req[r].user \in O
    BY <1>0, RbacWorkingFacts DEF O, Idle
  <2>2. \/ req[r].op \in {"saveRole", "setPermissions"} /\ Commit(r, req[r].role)
        \/ req[r].op \in {"setRoles", "assign"} /\ Commit(r, req[r].user)
    BY <1>10 DEF UpdateRoleSave, RolePermissionsCommit, UserRolesCommit, AssignDefaultInsert
  <2> QED BY <1>0, <2>1, <2>2, HistoryTypes
<1>11. ASSUME UNCHANGED rbacVars PROVE HistoryOK(O)'
  BY <1>0, <1>11, HistoryTypes DEF rbacVars
<1>12. HistoryOK(O)'
  BY <1>1, <1>2, <1>3, <1>4, <1>5, <1>6, <1>7, <1>8, <1>9, <1>10, <1>11 DEF RbacNext
<1> QED BY <1>12 DEF O

\* Roles, permissions, what refers to them and what requests carry keep their
\* types; and no permission or user refers to a role that is gone
\* (rbac.service.ts:80-130).
THEOREM RbacTypeCorrect == RbacSpec => []RbacTypeOK
<1>1. RbacInit => RbacTypeIInv
  BY RbacInitial DEF RbacInit, RequestInit, RbacTypeIInv, HistoryOK
<1>2. RbacTypeIInv => RbacTypeOK
  BY DEF RbacTypeIInv, RbacIInv, RbacRows, RbacRequests, HistoryOK, RbacTypeOK, RequestTypeOK
<1> QED BY <1>1, <1>2, RbacTypeStep, PTL DEF RbacSpec

\* Scopes, clients and redirect URIs.
ClientTypeIInv ==
    /\ ClientIInv
    /\ scopes \subseteq Scope /\ uris \subseteq ClientId \X Uri
    /\ HistoryOK(ClientId)

\* ClientIInv has the clients; scopes, URIs and history follow.
LEMMA ClientTypeStep == ClientTypeIInv /\ [ClientNext]_clientVars => ClientTypeIInv'
<1> DEFINE TablesOK == scopes \subseteq Scope /\ uris \subseteq ClientId \X Uri
<1> SUFFICES ASSUME ClientTypeIInv, [ClientNext]_clientVars
             PROVE  TablesOK' /\ HistoryOK(ClientId)'
  BY ClientStep DEF ClientTypeIInv
<1>0. TablesOK /\ HistoryOK(ClientId) /\ ClientIInv
  BY DEF ClientTypeIInv
<1>a. ASSUME UNCHANGED clientTables PROVE TablesOK'
  BY <1>0, <1>a DEF clientTables
<1>1. ASSUME NEW s \in Scope, CreateScope(s) \/ RemoveScope(s)
      PROVE  TablesOK' /\ HistoryOK(ClientId)'
  BY <1>0, <1>1, HistoryTypes DEF CreateScope, RemoveScope
<1>2. ASSUME NEW r \in Request, NEW type, NEW S, NEW U, CreateClientRead(r, type, S, U)
      PROVE  TablesOK' /\ HistoryOK(ClientId)'
  <2>1. UNCHANGED clientTables /\ \E w : Start(r, w)
    BY <1>2 DEF CreateClientRead
  <2> QED BY <1>0, <1>a, <2>1, HistoryTypes
<1>3. ASSUME NEW r \in Request, NEW c \in ClientId, CreateClientSave(r, c)
      PROVE  TablesOK' /\ HistoryOK(ClientId)'
  <2>1. req[r].uris \in SUBSET Uri
    BY <1>0, <1>3, UnderWay, ClientWorkingFacts DEF CreateClientSave, Idle
  <2> QED BY <1>0, <1>3, <2>1, HistoryTypes DEF CreateClientSave
<1>4. ASSUME NEW r \in Request, NEW c,
             \/ RotateSecretRead(r, c) \/ DeactivateRead(r, c)
             \/ \E type, active, S, U : UpdateClientRead(r, c, type, active, S, U)
      PROVE  TablesOK' /\ HistoryOK(ClientId)'
  <2>1. UNCHANGED clientTables /\ \E w : Start(r, w)
    BY <1>4 DEF RotateSecretRead, DeactivateRead, UpdateClientRead
  <2> QED BY <1>0, <1>a, <2>1, HistoryTypes
<1>5. ASSUME NEW r \in Request, UrisDelete(r) \/ ClientSave(r)
      PROVE  TablesOK' /\ HistoryOK(ClientId)'
  <2>1. UNCHANGED clientTables /\ \E w : Continue(r, w)
    BY <1>5 DEF UrisDelete, ClientSave
  <2> QED BY <1>0, <1>a, <2>1, HistoryTypes
<1>6. ASSUME NEW r \in Request, ClientUpdate(r) PROVE TablesOK' /\ HistoryOK(ClientId)'
  <2>0. PICK c : c = req[r].client
    OBVIOUS
  <2>1. /\ req[r].op \in Saves /\ Commit(r, c) /\ UNCHANGED scopes
        /\ uris' = IF req[r].uris = Keep THEN uris
                   ELSE (uris \ ({c} \X req[r].seen)) \cup ({c} \X req[r].uris)
    BY <1>6, <2>0 DEF ClientUpdate, UrisReplaced, Saves
  <2>2. req[r] \in ClientWorking
    BY <1>0, <2>1, UnderWay DEF Idle, Saves
  <2>3. c \in ClientId /\ req[r].uris \in (SUBSET Uri) \cup {Keep}
    BY <2>0, <2>1, <2>2, ClientWorkingFacts
  <2> QED BY <1>0, <2>1, <2>3, HistoryTypes
<1>7. ASSUME NEW r \in Request, AbandonClient(r) PROVE TablesOK' /\ HistoryOK(ClientId)'
  BY <1>0, <1>a, <1>7, HistoryTypes DEF AbandonClient
<1>8. ASSUME UNCHANGED clientVars PROVE TablesOK' /\ HistoryOK(ClientId)'
  BY <1>0, <1>a, <1>8, HistoryTypes DEF clientVars
<1> HIDE DEF TablesOK
<1> QED BY <1>1, <1>2, <1>3, <1>4, <1>5, <1>6, <1>7, <1>8 DEF ClientNext

\* Scopes, clients, secrets, redirect URIs and what requests carry keep their
\* types (clients.service.ts:49-214).
THEOREM ClientTypeCorrect == ClientSpec => []ClientTypeOK
<1>1. ClientInit => ClientTypeIInv
  BY ClientInitial, ClientsAssumption DEF ClientInit, RequestInit, ClientTypeIInv, HistoryOK
<1>2. ClientTypeIInv => ClientTypeOK
  BY DEF ClientTypeIInv, ClientIInv, HistoryOK, ClientTypeOK, RequestTypeOK
<1> QED BY <1>1, <1>2, ClientTypeStep, PTL DEF ClientSpec

\* What a request about administrators or tenants carries.
LEMMA WorkingTypes ==
    ASSUME NEW w \in Working
    PROVE  /\ w # Idle
           /\ w.op = "create" => w.role \in Role /\ w.tenants \in SUBSET Tenant
           /\ w.op \in Updates => w.admin \in Account /\ w.row \in AdminRow
           /\ w.op = "update" => w.on \in SUBSET Account
                                 /\ w.tenants \in (SUBSET Tenant) \cup {Keep}
           /\ w.op = "replace" => w.tenants \in SUBSET Tenant
           /\ w.op = "seed" => w.tenant \in Tenant
           /\ w.op = "settings" => w.tenant \in Tenant /\ w.row \in TenantRow
                                   /\ w.platform \in BOOLEAN
BY DEF Working, Idle, Updates

\* An operation that stores no row: it starts, goes on, or gives up.
LEMMA AdminReads ==
    ASSUME TypeOK, UNCHANGED <<tables, tokens, decided, bereft>>, halfway' \subseteq Tenant,
           NEW r \in Request,
           \/ \E w \in Working : Start(r, w) \/ Continue(r, w)
           \/ Abandon(r)
    PROVE  TypeOK'
<1>1. RequestTypeOK(Working, Object)'
  BY RequestTypes DEF TypeOK
<1>2. Object' = Object /\ Working' = Working
  BY DEF Object, Working, AdminRow, TenantRow, Role
<1> QED BY <1>1, <1>2 DEF TypeOK, tables

\* What carries a change of an administrator.
GoodChange(c) ==
    /\ c.role \in Role \cup {Keep} /\ c.active \in BOOLEAN \cup {Keep}
    /\ c.tenants \in (SUBSET Tenant) \cup {Keep}

\* The changes that are sent are.
LEMMA ChangesAreGood == \A c \in Change : GoodChange(c)
BY AdministrationAssumption DEF GoodChange

\* Updates of an administrator.
LEMMA AdminTypes ==
    ASSUME TypeOK, NEW r \in Request, NEW Changes, \A c \in Changes : GoodChange(c),
           AdminStep(r, Changes)
    PROVE  TypeOK'
<1>0. RequestTypeOK(Working, Object) /\ req \in [Request -> {Idle} \cup Working]
  BY DEF TypeOK, RequestTypeOK
<1>1. ASSUME NEW tok, NEW a \in Account, NEW c \in Changes,
             UpdateRead(r, tok, a, c.role, c.active, c.tenants)
      PROVE  TypeOK'
  <2> DEFINE next == Given(c.role, admins[a].role)
             T == Replacement(next, c.tenants)
             row == [role |-> next, active |-> Given(c.active, admins[a].active)]
             w == [op |-> "update", on |-> {a}, admin |-> a, tenants |-> T, row |-> row]
  <2>1. admins[a] \in AdminRow
    BY <1>1 DEF UpdateRead, Existing, TypeOK
  <2>2. row \in AdminRow
    BY <2>1 DEF GoodChange, Given, AdminRow
  <2>3. T \in (SUBSET Tenant) \cup {Keep}
    BY DEF GoodChange, Replacement, Resolve
  <2>4. Start(r, w) /\ UNCHANGED <<tables, tokens, shadows>>
    BY <1>1 DEF UpdateRead
  <2> HIDE DEF row, T
  <2>5. w \in Working
    BY <2>2, <2>3 DEF Working
  <2> HIDE DEF w
  <2>6. halfway' \subseteq Tenant
    BY <2>4 DEF shadows, TypeOK
  <2> QED BY <2>4, <2>5, <2>6, AdminReads DEF shadows
<1>2. ASSUME UpdateDelete(r) PROVE TypeOK'
  <2> DEFINE w == [op |-> "replace", on |-> req[r].on, admin |-> req[r].admin,
                   row |-> req[r].row, tenants |-> req[r].tenants,
                   seen |-> TenantsOf(req[r].admin)]
  <2>1. req[r] \in Working
    BY <1>0, <1>2 DEF UpdateDelete, Idle
  <2>2. /\ req[r].on \in SUBSET Account /\ req[r].admin \in Account /\ req[r].row \in AdminRow
        /\ req[r].tenants \in SUBSET Tenant
    BY <1>2, <2>1, WorkingTypes DEF UpdateDelete, Updates
  <2>3. w \in Working
    BY <2>2 DEF Working, TenantsOf
  <2>4. Continue(r, w) /\ UNCHANGED <<tables, tokens, shadows>>
    BY <1>2 DEF UpdateDelete
  <2> HIDE DEF w
  <2>5. halfway' \subseteq Tenant
    BY <2>4 DEF shadows, TypeOK
  <2> QED BY <2>3, <2>4, <2>5, AdminReads DEF shadows
<1>3. ASSUME UpdateCommit(r) PROVE TypeOK'
  <2>0. PICK a : a = req[r].admin
    OBVIOUS
  <2>1. /\ req[r].op \in Updates /\ Commit(r, a)
        /\ admins' = [admins EXCEPT ![a] = req[r].row]
        /\ req[r].op = "update" => UNCHANGED assigned
        /\ req[r].op = "replace" =>
               assigned' = (assigned \ ({a} \X req[r].seen)) \cup ({a} \X req[r].tenants)
        /\ UNCHANGED <<tenants, seeded, tokens, decided, bereft, halfway>>
    BY <1>3, <2>0 DEF UpdateCommit, Updates
  <2>2. /\ a \in Account /\ req[r].row \in AdminRow
        /\ req[r].op = "replace" => req[r].tenants \in SUBSET Tenant
    BY <1>0, <2>0, <2>1, WorkingTypes DEF Updates, Idle
  <2>3. assigned' \subseteq Account \X Tenant /\ admins' \in [Account -> AdminRow \cup {Unissued}]
    BY <2>1, <2>2 DEF Updates, TypeOK
  <2>4. RequestTypeOK(Working, Object)'
    BY <1>0, <2>1, <2>2, RequestTypes DEF Object
  <2> QED BY <2>1, <2>3, <2>4 DEF TypeOK
<1> QED BY <1>1, <1>2, <1>3 DEF AdminStep

\* Logins, bootstrap, creation of administrators and tenants.
LEMMA CommonTypes ==
    ASSUME TypeOK, NEW r \in Request, CommonStep(r)
    PROVE  TypeOK'
<1>0. RequestTypeOK(Working, Object) /\ req \in [Request -> {Idle} \cup Working]
  BY DEF TypeOK, RequestTypeOK
<1>1. ASSUME NEW a \in Account, Login(a) PROVE TypeOK'
  <2>1. admins[a] \in AdminRow
    BY <1>1 DEF Login, Existing, TypeOK
  <2>2. tokens' \subseteq Token
    BY <1>1, <2>1 DEF Login, TypeOK, Token, AdminRow
  <2>3. RequestTypeOK(Working, Object)'
    BY <1>0, <1>1, TouchTypes DEF Login
  <2> QED BY <1>1, <2>2, <2>3 DEF Login, tables, shadows, TypeOK
<1>2. ASSUME BootstrapRead(r) PROVE TypeOK'
  <2>1. [op |-> "bootstrap", on |-> Account] \in Working
    BY DEF Working
  <2>2. halfway' \subseteq Tenant
    BY <1>2 DEF BootstrapRead, shadows, TypeOK
  <2> QED BY <1>2, <2>1, <2>2, AdminReads DEF BootstrapRead, shadows
<1>a. ASSUME NEW a \in Account, NEW role \in Role, NEW T \in SUBSET Tenant,
             Insert(a, role, T), Commit(r, a),
             UNCHANGED <<tenants, seeded, tokens, decided, bereft, halfway>>
      PROVE  TypeOK'
  <2>1. [role |-> role, active |-> TRUE] \in AdminRow
    BY DEF AdminRow
  <2>2. assigned' \subseteq Account \X Tenant /\ admins' \in [Account -> AdminRow \cup {Unissued}]
    BY <1>a, <2>1 DEF Insert, TypeOK
  <2>3. RequestTypeOK(Working, Object)'
    BY <1>0, <1>a, RequestTypes DEF Object
  <2> QED BY <1>a, <2>2, <2>3 DEF TypeOK
<1>3. ASSUME NEW a \in Account, BootstrapSave(r, a) PROVE TypeOK'
  BY <1>3, <1>a DEF BootstrapSave, Role
<1>4. ASSUME NEW a \in Account, CreateSave(r, a) PROVE TypeOK'
  <2>1. req[r].role \in Role /\ req[r].tenants \in SUBSET Tenant
    BY <1>0, <1>4, WorkingTypes DEF CreateSave, Idle
  <2> QED BY <1>4, <1>a, <2>1 DEF CreateSave
<1>5. ASSUME NEW tok, NEW role \in Role, NEW T \in SUBSET Tenant, CreateRead(r, tok, role, T)
      PROVE  TypeOK'
  <2>1. [op |-> "create", on |-> {}, role |-> role, tenants |-> Resolve(role, T)] \in Working
    BY DEF Working, Resolve
  <2>2. halfway' \subseteq Tenant
    BY <1>5 DEF CreateRead, shadows, TypeOK
  <2> QED BY <1>5, <2>1, <2>2, AdminReads DEF CreateRead, shadows
<1>6. ASSUME NEW tok, NEW t \in Tenant, CreateTenant(r, tok, t) PROVE TypeOK'
  <2>1. [op |-> "seed", on |-> {}, tenant |-> t] \in Working
    BY DEF Working
  <2>2. RequestTypeOK(Working, Object)'
    BY <1>0, <1>6, <2>1, RequestTypes DEF CreateTenant
  <2>3. [active |-> TRUE] \in TenantRow
    BY DEF TenantRow
  <2>4. tenants' \in [Tenant -> TenantRow \cup {Unissued, Deleted}]
    BY <1>6, <2>3 DEF CreateTenant, TypeOK
  <2> QED BY <1>6, <2>2, <2>4 DEF CreateTenant, shadows, TypeOK
<1>7. ASSUME SeedDefaults(r) PROVE TypeOK'
  <2>1. RequestTypeOK(Working, Object)'
    BY <1>0, <1>7 DEF SeedDefaults, Continue, RequestTypeOK
  <2>2. seeded' \subseteq Tenant
    BY <1>7 DEF SeedDefaults, Stored, TypeOK
  <2> QED BY <1>7, <2>1, <2>2 DEF SeedDefaults, shadows, TypeOK
<1>8. ASSUME GiveUp(r) PROVE TypeOK'
  <2>1. halfway' \subseteq Tenant
    BY <1>0, <1>8, WorkingTypes DEF GiveUp, Abandon, TypeOK
  <2> QED BY <1>8, <2>1, AdminReads DEF GiveUp
<1> QED BY <1>1, <1>2, <1>3, <1>4, <1>5, <1>6, <1>7, <1>8 DEF CommonStep, TypeOK

\* Updates of a tenant.
LEMMA TenantTypes ==
    ASSUME TypeOK, NEW r \in Request, TenantStep(r)
    PROVE  TypeOK'
<1>0. RequestTypeOK(Working, Object) /\ req \in [Request -> {Idle} \cup Working]
  BY DEF TypeOK, RequestTypeOK
<1>1. ASSUME NEW tok, NEW t \in Tenant, NEW active \in BOOLEAN \cup {Keep},
             SettingsRead(r, tok, t, active)
      PROVE  TypeOK'
  <2> DEFINE p == active # Keep /\ tok.role = "PLATFORM_ADMIN"
             row == [active |-> Given(active, tenants[t].active)]
             w == [op |-> "settings", on |-> {t}, tenant |-> t, platform |-> p, row |-> row]
  <2>1. tenants[t] \in TenantRow
    BY <1>1 DEF SettingsRead, Stored, TypeOK
  <2>2. row \in TenantRow
    BY <2>1 DEF Given, TenantRow
  <2>3. p \in BOOLEAN
    OBVIOUS
  <2>4. Start(r, w) /\ UNCHANGED <<tables, tokens, shadows>>
    BY <1>1 DEF SettingsRead
  <2> HIDE DEF row, p
  <2>5. w \in Working
    BY <2>2, <2>3 DEF Working
  <2> HIDE DEF w
  <2>6. halfway' \subseteq Tenant
    BY <2>4 DEF shadows, TypeOK
  <2> QED BY <2>4, <2>5, <2>6, AdminReads DEF shadows
<1>2. ASSUME SettingsSave(r) PROVE TypeOK'
  <2>0. PICK t : t = req[r].tenant
    OBVIOUS
  <2>1. t \in Tenant /\ req[r].row \in TenantRow /\ req[r].row.active \in BOOLEAN
    BY <1>0, <1>2, <2>0, WorkingTypes DEF SettingsSave, Idle, TenantRow
  <2>2. /\ tenants' = [tenants EXCEPT ![t] = req[r].row]
        /\ decided' \in {decided, [decided EXCEPT ![t] = req[r].row.active]}
        /\ Commit(r, t)
        /\ UNCHANGED <<admins, assigned, seeded, tokens, bereft, halfway>>
    BY <1>2, <2>0 DEF SettingsSave
  <2>3. /\ tenants' \in [Tenant -> TenantRow \cup {Unissued, Deleted}]
        /\ decided' \in [Tenant -> BOOLEAN]
    BY <2>1, <2>2 DEF TypeOK
  <2>4. RequestTypeOK(Working, Object)'
    BY <1>0, <2>1, <2>2, RequestTypes DEF Object
  <2> QED BY <2>2, <2>3, <2>4 DEF TypeOK
<1> QED BY <1>1, <1>2 DEF TenantStep

\* Deactivation and deletion, one statement each.
LEMMA DeletionTypes ==
    ASSUME TypeOK, DeleteStep \/ DeactivateStep
    PROVE  TypeOK'
<1>0. RequestTypeOK(Working, Object)
  BY DEF TypeOK
<1>1. ASSUME NEW tok, NEW t \in Tenant, DeleteTenant(tok, t) PROVE TypeOK'
  <2>1. RequestTypeOK(Working, Object)'
    BY <1>0, <1>1, TouchTypes DEF DeleteTenant
  <2> QED BY <1>1, <2>1 DEF DeleteTenant, TypeOK
<1>2. ASSUME NEW tok, NEW a \in Account, Deactivate(tok, a) PROVE TypeOK'
  <2>1. RequestTypeOK(Working, Object)'
    BY <1>0, <1>2, TouchTypes DEF Deactivate
  <2>2. admins[a] \in AdminRow
    BY <1>2 DEF Deactivate, Existing, TypeOK
  <2>3. admins' \in [Account -> AdminRow \cup {Unissued}]
    BY <1>2, <2>2 DEF Deactivate, TypeOK, AdminRow
  <2> QED BY <1>2, <2>1, <2>3 DEF Deactivate, shadows, TypeOK
<1> QED BY <1>1, <1>2 DEF DeleteStep, DeactivateStep

\* Rows, assignments, tokens and what requests carry keep their types
\* (admin-auth.service.ts, tenants.service.ts).
THEOREM AdministrationTypeCorrect == Spec => []TypeOK
<1>1. Init => TypeOK
  BY DEF Init, RequestInit, TypeOK, RequestTypeOK
<1>2. TypeOK /\ [Next]_vars => TypeOK'
  <2>1. ASSUME TypeOK, UNCHANGED vars PROVE TypeOK'
    BY <2>1, TouchTypes DEF vars, tables, shadows, TypeOK
  <2> QED BY <2>1, CommonTypes, AdminTypes, ChangesAreGood, TenantTypes, DeletionTypes DEF Next
<1> QED BY <1>1, <1>2, PTL DEF Spec

----------------------------------------------------------------------------
\* What TLC runs: one of the parts, the others as they were at first.
MCTypeIInv ==
    /\ part \in AdminPart \cup {"providers", "roles", "clients", "schemas", "keys"}
    /\ part \in AdminPart => TypeOK
    /\ part = "providers" => ProviderTypeOK
    /\ part = "roles" => RbacTypeIInv
    /\ part = "clients" => ClientTypeIInv
    /\ part = "schemas" => SchemaTypeOK
    /\ part = "keys" => KeyTypeOK

\* The changes that TLC sends are good ones.
LEMMA MCChangesAreGood == \A c \in RoleChange \cup StatusChange : GoodChange(c)
BY DEF RoleChange, StatusChange, GoodChange

\* Every step of a part keeps the types of the part.
LEMMA MCTypeStep == MCTypeIInv /\ [MCNext]_allVars => MCTypeIInv'
<1> SUFFICES ASSUME MCTypeIInv, [MCNext]_allVars PROVE MCTypeIInv'
  OBVIOUS
<1>0. part' = part
  BY DEF MCNext, allVars
<1>1. CASE part \in AdminPart
  <2>0. TypeOK
    BY <1>1 DEF MCTypeIInv
  <2>1. ASSUME AdminNext PROVE TypeOK'
    <3>1. PICK r \in Request : \/ CommonStep(r) \/ TenantStep(r) \/ DeactivateStep \/ DeleteStep
                               \/ AdminStep(r, RoleChange) \/ AdminStep(r, StatusChange)
      BY <2>1 DEF AdminNext
    <3>2. AdminStep(r, RoleChange) => TypeOK'
      BY <2>0, AdminTypes, MCChangesAreGood
    <3>3. AdminStep(r, StatusChange) => TypeOK'
      BY <2>0, AdminTypes, MCChangesAreGood
    <3> QED BY <2>0, <3>1, <3>2, <3>3, CommonTypes, TenantTypes, DeletionTypes
  <2>2. ASSUME UNCHANGED vars PROVE TypeOK'
    BY <2>0, <2>2, TouchTypes DEF vars, tables, shadows, TypeOK
  <2>3. AdminNext \/ UNCHANGED vars
    <3>1. ASSUME MCNext PROVE AdminNext
      BY <1>1, <3>1 DEF MCNext, AdminPart
    <3>2. ASSUME UNCHANGED allVars PROVE UNCHANGED vars
      BY <3>2 DEF allVars, vars, adminOnly
    <3> QED BY <3>1, <3>2
  <2>4. TypeOK'
    BY <2>1, <2>2, <2>3
  <2> QED BY <1>0, <1>1, <2>4 DEF MCTypeIInv, AdminPart
<1>2. CASE part = "providers"
  <2>1. [ProviderNext]_providerVars
    BY <1>2 DEF MCNext, AdminPart, allVars, providerVars
  <2> QED BY <1>0, <1>2, <2>1, ProviderTypeStep DEF MCTypeIInv, AdminPart
<1>3. CASE part = "roles"
  <2>1. [RbacNext]_rbacVars
    BY <1>3 DEF MCNext, AdminPart, allVars, rbacVars
  <2> QED BY <1>0, <1>3, <2>1, RbacTypeStep DEF MCTypeIInv, AdminPart
<1>4. CASE part = "clients"
  <2>1. [ClientNext]_clientVars
    BY <1>4 DEF MCNext, AdminPart, allVars, clientVars, clientOnly
  <2> QED BY <1>0, <1>4, <2>1, ClientTypeStep DEF MCTypeIInv, AdminPart
<1>5. CASE part = "schemas"
  <2>1. [SchemaNext]_schemaVars
    BY <1>5 DEF MCNext, AdminPart, allVars, schemaVars
  <2> QED BY <1>0, <1>5, <2>1, SchemaTypeStep DEF MCTypeIInv, AdminPart
<1>6. CASE part = "keys"
  <2>1. [KeyNext]_keyVars
    BY <1>6 DEF MCNext, AdminPart, allVars, keyVars, keyOnly
  <2> QED BY <1>0, <1>6, <2>1, KeyTypeStep DEF MCTypeIInv, AdminPart
<1> QED BY <1>1, <1>2, <1>3, <1>4, <1>5, <1>6 DEF MCTypeIInv

\* Whichever part runs, its rows and requests keep their types: the type
\* invariant of the run Management, for every number of requests and rows.
THEOREM ManagementTypeCorrect == MCSpec => []MCTypeOK
<1>1. MCInit => MCTypeIInv
  <2> SUFFICES ASSUME MCInit PROVE MCTypeIInv
    OBVIOUS
  <2>1. TypeOK
    BY DEF MCInit, Init, RequestInit, TypeOK, RequestTypeOK
  <2>2. ProviderTypeOK /\ SchemaTypeOK /\ KeyTypeOK
    BY DEF MCInit, ProviderInit, SchemaInit, KeyInit, RequestInit, ProviderTypeOK,
           SchemaTypeOK, KeyTypeOK, RequestTypeOK
  <2>3. RbacTypeIInv
    BY RbacInitial DEF MCInit, RbacInit, RequestInit, RbacTypeIInv, HistoryOK
  <2>4. ClientTypeIInv
    BY ClientInitial, ClientsAssumption
    DEF MCInit, ClientInit, RequestInit, ClientTypeIInv, HistoryOK
  <2> QED BY <2>1, <2>2, <2>3, <2>4 DEF MCInit, MCTypeIInv
<1>2. MCTypeIInv => MCTypeOK
  <2>1. RbacTypeIInv => RbacTypeOK
    BY DEF RbacTypeIInv, RbacIInv, RbacRows, RbacRequests, HistoryOK, RbacTypeOK, RequestTypeOK
  <2>2. ClientTypeIInv => ClientTypeOK
    BY DEF ClientTypeIInv, ClientIInv, HistoryOK, ClientTypeOK, RequestTypeOK
  <2> QED BY <2>1, <2>2 DEF MCTypeIInv, MCTypeOK, AdminPart
<1> QED BY <1>1, <1>2, MCTypeStep, PTL DEF MCSpec
=============================================================================
