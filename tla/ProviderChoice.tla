--------------------------- MODULE ProviderChoice ---------------------------
(***************************************************************************)
(* The external authentication providers of one tenant, and which of them  *)
(* decides a login.                                                        *)
(*                                                                         *)
(* A provider applies to one client or to all (AnyClient), and to some     *)
(* e-mail domains or to all (the empty set).                               *)
(***************************************************************************)
EXTENDS Naturals, FiniteSets, Rows

CONSTANTS
    Provider,   \* ids of rows, never drawn twice
    Client,
    Domain,     \* e-mail domains, normalised (lower case, without @)
    AnyClient   \* client_id IS NULL

Row == [client : Client \cup {AnyClient}, domains : SUBSET Domain,
        enabled : BOOLEAN, jit : BOOLEAN, deleted : BOOLEAN, created : Nat]

ASSUME ProviderAssumption ==
    /\ AnyClient \notin Client
    /\ Unissued \notin Row

VARIABLE providers  \* table external_auth_providers

\* Soft-deleted rows are invisible to every query.
Live == {x \in Provider : providers[x] # Unissued /\ ~providers[x].deleted}

\* Two rows claim the same scope.
Overlap(row, other) ==
    /\ row.client = other.client
    /\ IF row.domains = {} THEN other.domains = {}
                           ELSE row.domains \cap other.domains # {}

Serves(x, c) == providers[x].enabled /\ providers[x].client \in {c, AnyClient}

\* A provider that names the client, or the domain, goes first.
Rank(x, c) ==
    (IF providers[x].client = c THEN 0 ELSE 2)
        + (IF providers[x].domains # {} THEN 0 ELSE 1)

Candidates(c, d) ==
    {x \in Live : /\ Serves(x, c)
                  /\ \/ providers[x].domains = {}
                     \/ d \in providers[x].domains}

Best(c, d) ==
    {x \in Candidates(c, d) : \A y \in Candidates(c, d) : Rank(x, c) <= Rank(y, c)}

\* findActive: among equals the newest.
FindActive(c, d) ==
    {x \in Best(c, d) :
        \A y \in Best(c, d) : providers[y].created <= providers[x].created}

=============================================================================
