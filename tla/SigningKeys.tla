----------------------------- MODULE SigningKeys -----------------------------
(***************************************************************************)
(* The signing keys of the platform.                                       *)
(*                                                                         *)
(* An instance looks for an active key when it starts, a request when it   *)
(* signs or verifies; whoever finds none generates one: the active keys    *)
(* are retired, the new one is inserted.  Signer and verifier both take    *)
(* the newest active key, whatever key id the token names.                 *)
(***************************************************************************)
EXTENDS Requests, Naturals, FiniteSets

CONSTANT SigningKey     \* ids, never drawn twice

KeyStatus == {"ACTIVE", "RETIRED"}

KeyRow == [status : KeyStatus, created : Nat]

ASSUME KeysAssumption == IsFiniteSet(SigningKey) /\ Unissued \notin KeyRow

VARIABLES
    keys,       \* table signing_keys
    signers     \* history: the keys that have signed a token

keyVars == <<keys, signers, requestVars>>

KeyWorking == [op : {"absent", "retired"}, on : {SigningKey}]

KeyTypeOK ==
    /\ keys \in [SigningKey -> KeyRow \cup {Unissued}]
    /\ signers \subseteq SigningKey
    /\ RequestTypeOK(KeyWorking, SigningKey)

KeyInit ==
    /\ keys = [k \in SigningKey |-> Unissued]
    /\ signers = {}
    /\ RequestInit

----------------------------------------------------------------------------
Drawn == {k \in SigningKey : keys[k] # Unissued}

\* What getJwks hands out.
ActiveKeys == {k \in Drawn : keys[k].status = "ACTIVE"}

NewestActive ==
    {k \in ActiveKeys : \A l \in ActiveKeys : keys[l].created <= keys[k].created}

\* Mutant: every start generates a key.
AlwaysMissing == Drawn \subseteq SigningKey

KeyMissing == ActiveKeys = {}

\* onModuleInit, and getActiveKey without a result.
LookUp(r) ==
    /\ KeyMissing
    /\ Start(r, [op |-> "absent", on |-> SigningKey])
    /\ UNCHANGED <<keys, signers>>

\* The condition tenant_id = NULL of the update matches no row in some builds
\* of the query and every platform key in others.
RetireActive(r) ==
    /\ req[r].op = "absent"
    /\ \/ UNCHANGED <<keys, late>>
       \/ /\ keys' = [k \in SigningKey |->
                        IF k \in ActiveKeys THEN [keys[k] EXCEPT !.status = "RETIRED"]
                                            ELSE keys[k]]
          /\ late' = IF r \in stale THEN late \cup ActiveKeys ELSE late
    /\ req' = [req EXCEPT ![r].op = "retired"]
    /\ UNCHANGED <<signers, stale>>

InsertKey(r, k) ==
    /\ req[r].op = "retired"
    /\ keys[k] = Unissued
    /\ keys' = [keys EXCEPT ![k] = [status |-> "ACTIVE", created |-> Cardinality(Drawn) + 1]]
    /\ Commit(r, k)
    /\ UNCHANGED signers

Sign(k) ==
    /\ k \in NewestActive
    /\ signers' = signers \cup {k}
    /\ UNCHANGED <<keys, requestVars>>

AbandonKey(r) == Abandon(r) /\ UNCHANGED <<keys, signers>>

KeyNext ==
    \/ \E r \in Request :
        \/ LookUp(r) \/ RetireActive(r) \/ AbandonKey(r)
        \/ \E k \in SigningKey : InsertKey(r, k)
    \/ \E k \in SigningKey : Sign(k)

KeySpec == KeyInit /\ [][KeyNext]_keyVars

----------------------------------------------------------------------------
\* Every token verifies as long as it lives: the key that signed it is the one
\* a verifier takes (oauth-token-verifier.service.ts:69), unless a key was
\* generated by somebody who had not seen another one appear
\* (keys.service.ts:24-32).
SignerStaysVerifier == \A k \in signers : k \in NewestActive \/ late # {}
=============================================================================
