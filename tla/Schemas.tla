------------------------------- MODULE Schemas -------------------------------
(***************************************************************************)
(* The versions of a tenant's profile schema.                              *)
(*                                                                         *)
(* A publication takes the number after the highest one it has read; a     *)
(* unique index on tenant and number refuses the second of two that read   *)
(* the same.                                                               *)
(***************************************************************************)
EXTENDS Requests, Naturals

CONSTANTS
    Schema,     \* ids of versions, never drawn twice
    MaxVersion  \* bound on the versions published

SchemaRow == [version : 1 .. MaxVersion, published : BOOLEAN]

ASSUME SchemasAssumption == MaxVersion \in Nat /\ Unissued \notin SchemaRow

VARIABLE schemas    \* table profile_schema_versions

schemaVars == <<schemas, requestVars>>

SchemaWorking ==
    [op : {"publish"}, on : {Schema}, version : 1 .. MaxVersion]
    \cup [op : {"deprecate"}, on : SUBSET Schema, schema : Schema, row : SchemaRow]

SchemaTypeOK ==
    /\ schemas \in [Schema -> SchemaRow \cup {Unissued}]
    /\ RequestTypeOK(SchemaWorking, Schema)

SchemaInit ==
    /\ schemas = [x \in Schema |-> Unissued]
    /\ RequestInit

----------------------------------------------------------------------------
Published == {x \in Schema : schemas[x] # Unissued}

VersionsStored == {schemas[x].version : x \in Published}

PublishRead(r, n) ==
    /\ n \in 1 .. MaxVersion
    /\ \A m \in VersionsStored : m < n
    /\ n = 1 \/ n - 1 \in VersionsStored
    /\ Start(r, [op |-> "publish", on |-> Schema, version |-> n])
    /\ UNCHANGED schemas

\* Mutant: the index is missing.
VersionUnindexed(n) == n \in 1 .. MaxVersion

VersionFree(n) == n \notin VersionsStored

PublishSave(r, x) ==
    /\ req[r].op = "publish"
    /\ schemas[x] = Unissued
    /\ VersionFree(req[r].version)
    /\ schemas' = [schemas EXCEPT ![x] = [version |-> req[r].version, published |-> TRUE]]
    /\ Commit(r, x)

DeprecateRead(r, x) ==
    /\ x \in Published
    /\ Start(r, [op |-> "deprecate", on |-> {x}, schema |-> x,
                 row |-> [schemas[x] EXCEPT !.published = FALSE]])
    /\ UNCHANGED schemas

DeprecateSave(r) ==
    /\ req[r].op = "deprecate"
    /\ schemas' = [schemas EXCEPT ![req[r].schema] = req[r].row]
    /\ Commit(r, req[r].schema)

AbandonSchema(r) == Abandon(r) /\ UNCHANGED schemas

SchemaNext ==
    \E r \in Request :
        \/ \E n \in 1 .. MaxVersion : PublishRead(r, n)
        \/ \E x \in Schema : PublishSave(r, x) \/ DeprecateRead(r, x)
        \/ DeprecateSave(r) \/ AbandonSchema(r)

SchemaSpec == SchemaInit /\ [][SchemaNext]_schemaVars

----------------------------------------------------------------------------
\* A number names one version and the numbers have no gap
\* (profile-schema.service.ts:32-36), whichever publications overlap.
VersionsGapless ==
    /\ \A x, y \in Published : schemas[x].version = schemas[y].version => x = y
    /\ \A n \in VersionsStored : n = 1 \/ n - 1 \in VersionsStored
=============================================================================
