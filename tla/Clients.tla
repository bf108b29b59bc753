------------------------------ MODULE Clients ------------------------------
(***************************************************************************)
(* The OAuth clients and the scopes of a tenant.                           *)
(*                                                                         *)
(* Update, rotation of the secret and deactivation load the client and     *)
(* save it.  The save reads the row again and writes the columns in which  *)
(* the entity differs from it, so each of them can undo the others, and    *)
(* two that overlap can leave a mixture of both.                           *)
(***************************************************************************)
EXTENDS Requests, Naturals

CONSTANTS
    ClientId,   \* client ids, never drawn twice
    Scope, DefaultScope,
    Uri,
    MaxSecret,  \* bound on the secrets drawn
    SentClient  \* bound: the updates that administrators send

ClientType == {"CONFIDENTIAL", "PUBLIC"}

\* Secrets are numbered as they are drawn; 0 is no secret.
ClientRow == [type : ClientType, secret : 0 .. MaxSecret, active : BOOLEAN,
              allowed : SUBSET Scope]

\* The columns of a client that a save compares.
Column == {"type", "secret", "active", "allowed"}

ASSUME ClientsAssumption ==
    /\ DefaultScope \subseteq Scope
    /\ MaxSecret \in Nat
    /\ Unissued \notin ClientRow
    /\ Keep \notin ClientType /\ Keep \notin BOOLEAN /\ \A U \in SUBSET Uri : U # Keep
    /\ \A s \in SentClient :
        /\ s.type \in ClientType \cup {Keep} /\ s.active \in BOOLEAN \cup {Keep}
        /\ s.scopes \in (SUBSET Scope) \cup {Keep} /\ s.uris \in (SUBSET Uri) \cup {Keep}

VARIABLES
    scopes,     \* table tenant_scopes
    clients,    \* table oauth_clients
    uris,       \* table oauth_client_redirect_uris
    drawn,      \* the number of the last secret
    \* History variable: what the last requests that decided it asked for.
    wanted

clientTables == <<scopes, clients, uris>>
clientVars == <<clientTables, drawn, wanted, requestVars>>

Wanted == [secret : 0 .. MaxSecret, active : BOOLEAN, uris : SUBSET Uri]

ClientWorking ==
    [op : {"create"}, on : {{}}, row : ClientRow, uris : SUBSET Uri]
    \cup [op : {"save", "replace", "update"}, on : SUBSET ClientId, client : ClientId,
          row : ClientRow, uris : (SUBSET Uri) \cup {Keep}, seen : SUBSET Uri,
          columns : SUBSET Column, decides : SUBSET {"secret", "active"}]

ClientTypeOK ==
    /\ scopes \subseteq Scope
    /\ clients \in [ClientId -> ClientRow \cup {Unissued}]
    /\ uris \subseteq ClientId \X Uri
    /\ drawn \in 0 .. MaxSecret
    /\ wanted \in [ClientId -> Wanted]
    /\ RequestTypeOK(ClientWorking, ClientId)

ClientInit ==
    /\ scopes = DefaultScope
    /\ clients = [c \in ClientId |-> Unissued]
    /\ uris = {}
    /\ drawn = 0
    /\ wanted = [c \in ClientId |-> [secret |-> 0, active |-> TRUE, uris |-> {}]]
    /\ RequestInit

----------------------------------------------------------------------------
(***************************************************************************)
(* Scopes.                                                                 *)
(***************************************************************************)
CreateScope(s) ==
    /\ s \notin scopes
    /\ scopes' = scopes \cup {s}
    /\ UNCHANGED <<clients, uris, drawn, wanted, requestVars>>

\* Clients that are registered for it keep it.
RemoveScope(s) ==
    /\ s \in scopes \ DefaultScope
    /\ scopes' = scopes \ {s}
    /\ UNCHANGED <<clients, uris, drawn, wanted, requestVars>>

----------------------------------------------------------------------------
(***************************************************************************)
(* Clients.                                                                *)
(***************************************************************************)
Registered == {c \in ClientId : clients[c] # Unissued}

UrisOf(c) == {v \in Uri : <<c, v>> \in uris}

Draw == drawn' = drawn + 1 /\ drawn < MaxSecret

CreateClientRead(r, type, S, U) ==
    /\ S \subseteq scopes
    /\ IF type = "CONFIDENTIAL" THEN Draw ELSE UNCHANGED drawn
    /\ Start(r, [op |-> "create", on |-> {}, uris |-> U,
                 row |-> [type |-> type, active |-> TRUE, allowed |-> S,
                          secret |-> IF type = "CONFIDENTIAL" THEN drawn' ELSE 0]])
    /\ UNCHANGED <<clientTables, wanted>>

CreateClientSave(r, c) ==
    /\ req[r].op = "create"
    /\ clients[c] = Unissued
    /\ clients' = [clients EXCEPT ![c] = req[r].row]
    /\ uris' = uris \cup ({c} \X req[r].uris)
    /\ wanted' = [wanted EXCEPT ![c] =
            [secret |-> req[r].row.secret, active |-> TRUE, uris |-> req[r].uris]]
    /\ Commit(r, c)
    /\ UNCHANGED <<scopes, drawn>>

\* A change of type draws a secret or takes it away.
UpdatedSecret(row, type) ==
    IF type \in {Keep, row.type} THEN row.secret
    ELSE IF type = "CONFIDENTIAL" THEN drawn + 1 ELSE 0

UpdateRow(row, type, active, S) ==
    [type |-> Given(type, row.type), secret |-> UpdatedSecret(row, type),
     active |-> Given(active, row.active), allowed |-> Given(S, row.allowed)]

\* A request that has client c in hand, as row.
Holding(c, row, U, what) ==
    [op |-> "save", on |-> {c}, client |-> c, row |-> row, uris |-> U,
     seen |-> {}, columns |-> {}, decides |-> what]

UpdateClientRead(r, c, type, active, S, U) ==
    LET row == UpdateRow(clients[c], type, active, S) IN
    /\ c \in Registered
    /\ S # Keep => S \subseteq scopes
    /\ IF row.secret = drawn + 1 THEN Draw ELSE UNCHANGED drawn
    /\ Start(r, Holding(c, row, U, (IF row.type # clients[c].type THEN {"secret"} ELSE {})
                                     \cup (IF active # Keep THEN {"active"} ELSE {})))
    /\ UNCHANGED <<clientTables, wanted>>

\* The secret of a public client is set as well.
RotateSecretRead(r, c) ==
    /\ c \in Registered
    /\ Draw
    /\ Start(r, Holding(c, [clients[c] EXCEPT !.secret = drawn'], Keep, {"secret"}))
    /\ UNCHANGED <<clientTables, wanted>>

DeactivateRead(r, c) ==
    /\ c \in Registered
    /\ Start(r, Holding(c, [clients[c] EXCEPT !.active = FALSE], Keep, {"active"}))
    /\ UNCHANGED <<clientTables, drawn, wanted>>

\* New redirect URIs replace those that the DELETE sees, in the transaction
\* that saves the client.
UrisDelete(r) ==
    /\ req[r].op = "save" /\ req[r].uris # Keep
    /\ Continue(r, [req[r] EXCEPT !.op = "replace", !.seen = UrisOf(req[r].client)])
    /\ UNCHANGED <<clientTables, drawn, wanted>>

UrisReplaced(r) ==
    (uris \ ({req[r].client} \X req[r].seen)) \cup ({req[r].client} \X req[r].uris)

\* Mutant: the secret is drawn and handed out, and not saved.
SaveRowOldSecret(r) == [req[r].row EXCEPT !.secret = clients[req[r].client].secret]

SaveRow(r) == req[r].row

Differing(row, stored) == {k \in Column : row[k] # stored[k]}

Merged(row, columns, stored) ==
    [k \in Column |-> IF k \in columns THEN row[k] ELSE stored[k]]

\* save reads the client again.  When other URIs have been stored since, the
\* mapper refuses the client with its loaded ones (AbandonClient), unless they
\* come after it has looked.
ClientSave(r) ==
    /\ \/ req[r].op = "save" /\ req[r].uris = Keep
       \/ req[r].op = "replace"
    /\ Continue(r, [req[r] EXCEPT !.op = "update",
                        !.columns = Differing(SaveRow(r), clients[req[r].client])])
    /\ UNCHANGED <<clientTables, drawn, wanted>>

\* It writes what differed then; new URIs are committed with it.
ClientUpdate(r) ==
    LET c == req[r].client
        w == wanted[c]
    IN
    /\ req[r].op = "update"
    /\ clients' = [clients EXCEPT ![c] = Merged(SaveRow(r), req[r].columns, clients[c])]
    /\ uris' = IF req[r].uris = Keep THEN uris ELSE UrisReplaced(r)
    /\ wanted' = [wanted EXCEPT ![c] =
            [secret |-> IF "secret" \in req[r].decides THEN req[r].row.secret ELSE w.secret,
             active |-> IF "active" \in req[r].decides THEN req[r].row.active ELSE w.active,
             uris |-> IF req[r].uris = Keep THEN w.uris ELSE req[r].uris]]
    /\ Commit(r, c)
    /\ UNCHANGED <<scopes, drawn>>

AbandonClient(r) == Abandon(r) /\ UNCHANGED <<clientTables, drawn, wanted>>

ClientNext ==
    \/ \E s \in Scope : CreateScope(s) \/ RemoveScope(s)
    \/ \E r \in Request :
        \/ \E type \in ClientType, S \in SUBSET Scope, U \in SUBSET Uri :
            CreateClientRead(r, type, S, U)
        \/ \E c \in ClientId :
            \/ CreateClientSave(r, c) \/ RotateSecretRead(r, c) \/ DeactivateRead(r, c)
            \/ \E s \in SentClient :
                UpdateClientRead(r, c, s.type, s.active, s.scopes, s.uris)
        \/ UrisDelete(r) \/ ClientSave(r) \/ ClientUpdate(r) \/ AbandonClient(r)

ClientSpec == ClientInit /\ [][ClientNext]_clientVars

----------------------------------------------------------------------------
(***************************************************************************)
(* Properties.                                                             *)
(***************************************************************************)

\* Unless requests overlapped, a client answers to the secret that was handed out
\* last and to no other (clients.service.ts:191-208), a confidential one has a
\* secret after any sequence of changes of its type (clients.service.ts:163-171),
\* one that was deactivated stays out until somebody activates it, and the redirect
\* URIs are those of one request (clients.service.ts:173-183, :210-214).
SettingsStick ==
    \A c \in Registered \ late :
        /\ clients[c].secret = wanted[c].secret
        /\ clients[c].type = "CONFIDENTIAL" => clients[c].secret # 0
        /\ clients[c].active = wanted[c].active
        /\ UrisOf(c) = wanted[c].uris
=============================================================================
