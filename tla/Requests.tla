------------------------------ MODULE Requests ------------------------------
(***************************************************************************)
(* Requests of administrators that read, await, and commit later.          *)
(*                                                                         *)
(* Services load what they need outside a transaction, test it, and save   *)
(* the loaded entity; nothing is locked or versioned in between.  A        *)
(* request is therefore a local state with the objects it has read (on);   *)
(* it is stale once another one has committed to any of them, and what a   *)
(* stale request saves is late.                                            *)
(*                                                                         *)
(* save reads the row again and writes the columns that differ.  Clients   *)
(* takes both steps.  The other modules store the loaded entity in one,    *)
(* which differs for a stale request alone: what they say of a row is said *)
(* of rows that are not late, and what they say of late ones rests on      *)
(* indexes and keys that the database checks at every write.               *)
(***************************************************************************)
EXTENDS Rows

CONSTANT Request    \* slots for requests in flight

VARIABLES
    req,        \* local state of each request
    \* History variables: written by the actions, never read by them.
    stale,      \* requests that read before another one committed
    late        \* objects saved by such a request

requestVars == <<req, stale, late>>

Idle == [op |-> "idle"]

Reads(q, x) == req[q] # Idle /\ x \in req[q].on

RequestTypeOK(State, Object) ==
    /\ req \in [Request -> {Idle} \cup State]
    /\ stale \subseteq Request
    /\ late \subseteq Object

RequestInit ==
    /\ req = [r \in Request |-> Idle]
    /\ stale = {} /\ late = {}

Start(r, state) ==
    /\ req[r] = Idle
    /\ req' = [req EXCEPT ![r] = state]
    /\ UNCHANGED <<stale, late>>

Continue(r, state) ==
    /\ req' = [req EXCEPT ![r] = state]
    /\ UNCHANGED <<stale, late>>

Finish(r) == req' = [req EXCEPT ![r] = Idle]

\* Request r commits to x and ends.
Commit(r, x) ==
    /\ Finish(r)
    /\ late' = IF r \in stale THEN late \cup {x} ELSE late
    /\ stale' = (stale \cup {q \in Request : Reads(q, x)}) \ {r}

\* A request that reads and writes x in one statement.
Touch(x) ==
    /\ stale' = stale \cup {q \in Request : Reads(q, x)}
    /\ UNCHANGED <<req, late>>

\* A guard, an error, a lost connection, a crash: what has not been committed
\* is lost.
Abandon(r) ==
    /\ req[r] # Idle
    /\ Finish(r)
    /\ stale' = stale \ {r}
    /\ UNCHANGED late
=============================================================================
