--------------------------- MODULE TenantDeletion ---------------------------
(***************************************************************************)
(* The permanent deletion of a tenant: one transaction of fourteen         *)
(* statements, while other requests go on inserting rows.                  *)
(*                                                                         *)
(* Every statement sees what is committed when it starts.  A row can be    *)
(* deleted only when no row refers to it any more, and a row can be        *)
(* inserted only while the rows it refers to are neither deleted nor about *)
(* to be.  Three tables name the tenant without a foreign key: nothing     *)
(* keeps a row out of them or takes it out with the tenant.  Only whether  *)
(* a table still has rows of the tenant is followed.                       *)
(***************************************************************************)
EXTENDS Naturals, Sequences

\* The foreign keys that do not cascade.
Refers ==
    [authorization_codes |-> {"users", "oauth_clients"},
     access_tokens |-> {"users", "oauth_clients"},
     refresh_tokens |-> {"users", "oauth_clients"},
     consents |-> {"users", "oauth_clients"},
     oauth_client_redirect_uris |-> {"oauth_clients"},
     oauth_clients |-> {"tenants"},
     user_profiles |-> {"users", "profile_schema_versions"},
     users |-> {"tenants"},
     profile_schema_versions |-> {"tenants"},
     external_auth_providers |-> {"tenants"},
     signing_keys |-> {"tenants"},
     audit_logs |-> {"tenants"},
     tenant_settings |-> {"tenants"},
     pending_oauth_requests |-> {},
     email_verification_tokens |-> {},
     password_reset_tokens |-> {},
     tenants |-> {}]

Table == DOMAIN Refers

\* Tables whose column tenant_id is no foreign key.
Loose == {"pending_oauth_requests", "email_verification_tokens",
          "password_reset_tokens"}

\* What refers to the tenant, directly or not, and the tenant itself.
Bound == Table \ Loose

\* Mutant: the users go before what refers to them.
UsersFirst(n) ==
    <<"users", "authorization_codes", "access_tokens", "refresh_tokens",
      "consents", "oauth_client_redirect_uris", "oauth_clients", "user_profiles",
      "profile_schema_versions", "external_auth_providers", "signing_keys",
      "audit_logs", "tenant_settings", "tenants">>[n]

\* The statements in order; that on audit_logs clears the reference instead.
Statement(n) ==
    <<"authorization_codes", "access_tokens", "refresh_tokens", "consents",
      "oauth_client_redirect_uris", "oauth_clients", "user_profiles", "users",
      "profile_schema_versions", "external_auth_providers", "signing_keys",
      "audit_logs", "tenant_settings", "tenants">>[n]

LastStatement == 14

VARIABLES
    rows,       \* tables with committed rows that belong to the tenant
    progress,   \* the next statement of the transaction, 0 without one
    swept,      \* tables whose rows the transaction has deleted so far
    kept,       \* rows in audit_logs whose tenant has been set to NULL
    \* History variables: written by the actions, never read by them.
    disturbed,  \* a row was inserted into a table already swept
    failed      \* a foreign key has refused a statement

deletionVars == <<rows, progress, swept, kept, disturbed, failed>>

DeletionTypeOK ==
    /\ rows \subseteq Table /\ swept \subseteq Table
    /\ progress \in 0 .. LastStatement + 1
    /\ {kept, disturbed, failed} \subseteq BOOLEAN

\* A tenant that is in use.
DeletionInit ==
    /\ rows = Table
    /\ progress = 0 /\ swept = {}
    /\ kept = FALSE /\ disturbed = FALSE /\ failed = FALSE

----------------------------------------------------------------------------
BeginDeletion ==
    /\ progress = 0 /\ "tenants" \in rows
    /\ progress' = 1
    /\ swept' = {}
    /\ disturbed' = FALSE /\ failed' = FALSE
    /\ UNCHANGED <<rows, kept>>

\* A row committed after its table was swept is visible again.
Visible == rows \ swept

Referred(t) == \E x \in Visible : t \in Refers[x]

ExecuteStatement ==
    /\ progress \in 1 .. LastStatement
    /\ ~Referred(Statement(progress))
    /\ swept' = swept \cup {Statement(progress)}
    /\ progress' = progress + 1
    /\ UNCHANGED <<rows, kept, disturbed, failed>>

\* A refused statement rolls everything back.
RefuseStatement ==
    /\ progress \in 1 .. LastStatement
    /\ Referred(Statement(progress))
    /\ failed' = TRUE
    /\ progress' = 0 /\ swept' = {}
    /\ UNCHANGED <<rows, kept, disturbed>>

\* Mutant: the audit records are deleted with the rest.
AuditDeleted == kept /\ swept = {}

AuditDetached == kept \/ "audit_logs" \in swept

CommitDeletion ==
    /\ progress = LastStatement + 1
    /\ rows' = rows \ swept
    /\ kept' = AuditDetached
    /\ progress' = 0 /\ swept' = {}
    /\ UNCHANGED <<disturbed, failed>>

\* Another request stores a row of the tenant; into a loose table, a request
\* that has found the tenant may do so even when the tenant is gone.
InsertRow(t) ==
    /\ Refers[t] \subseteq Visible
    /\ rows' = rows \cup {t}
    /\ swept' = swept \ {t}
    /\ disturbed' = (disturbed \/ t \in swept)
    /\ UNCHANGED <<progress, kept, failed>>

\* The job that removes requests left pending too long, or a login that ends the
\* last of them.  Nothing ever removes a token sent by mail.
CleanUpPending ==
    /\ "pending_oauth_requests" \in rows
    /\ rows' = rows \ {"pending_oauth_requests"}
    /\ UNCHANGED <<progress, swept, kept, disturbed, failed>>

LoseConnection ==
    /\ progress # 0
    /\ progress' = 0 /\ swept' = {}
    /\ UNCHANGED <<rows, kept, disturbed, failed>>

DeletionNext ==
    \/ BeginDeletion \/ ExecuteStatement \/ RefuseStatement \/ CommitDeletion \/ LoseConnection
    \/ CleanUpPending
    \/ \E t \in Table \ {"tenants"} : InsertRow(t)

DeletionSpec == DeletionInit /\ [][DeletionNext]_deletionVars

\* The transaction is not left open.
DeletionFairness == WF_deletionVars(ExecuteStatement \/ RefuseStatement \/ CommitDeletion)

----------------------------------------------------------------------------
\* A deletion is refused only when somebody has inserted behind it
\* (tenants.service.ts:183-251): the order of its statements respects every
\* foreign key.
RefusedOnlyIfDisturbed == failed => disturbed

\* All or nothing: a tenant that is gone has left no row that refers to it by a
\* foreign key, directly or not, and the audit records have survived it
\* (tenants.service.ts:183-251).  What may outlive it are the rows of the three
\* loose tables, and those alone.
GoneButLoose == "tenants" \notin rows => rows \subseteq Loose /\ kept
=============================================================================
