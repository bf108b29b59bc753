------------------------------ MODULE Session ------------------------------
(***************************************************************************)
(* What a login is worth: the promise that the token endpoint keeps.       *)
(*                                                                         *)
(* A login grants rights.  Its code opens the session at most once.  While *)
(* the session is open its rights only shrink, and when it is over nothing *)
(* opens it again.                                                         *)
(***************************************************************************)
CONSTANTS
    Login,      \* the logins
    Right       \* what a token may do: for which client and user, which scope

VARIABLES
    phase,      \* how far each login has come
    rights      \* what its tokens may still do

Phase == {"none", "granted", "open", "over"}

TypeOK == phase \in [Login -> Phase] /\ rights \in [Login -> SUBSET Right]

Init ==
    /\ phase = [l \in Login |-> "none"]
    /\ rights = [l \in Login |-> {}]

Grant(l) == phase[l] = "none" /\ phase'[l] = "granted"

Open(l) ==
    phase[l] = "granted" /\ phase'[l] = "open" /\ rights'[l] \subseteq rights[l]

Narrow(l) ==
    phase[l] = "open" /\ phase'[l] = "open" /\ rights'[l] \subseteq rights[l]

\* Used up, revoked, expired or deleted.
End(l) == phase[l] \in {"granted", "open"} /\ phase'[l] = "over" /\ rights'[l] = {}

Rest(l) == phase'[l] = phase[l] /\ rights'[l] = rights[l]

\* The clock and the deletion of a user end several sessions at once.
Next ==
    \A l \in Login : Grant(l) \/ Open(l) \/ Narrow(l) \/ End(l) \/ Rest(l)

Spec == Init /\ [][Next]_<<phase, rights>>
=============================================================================
