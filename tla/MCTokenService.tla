--------------------------- MODULE MCTokenService ---------------------------
(***************************************************************************)
(* Instances of TokenService for TLC.                                      *)
(***************************************************************************)
EXTENDS TokenSession, TLC

CONSTANTS r1, r2, u1, u2, c1, c2, s1, s2, a1, a2, t1, t2, t3, t4

\* Every client is registered for the scope s1 only.
MCAllowedScopes == [c \in Client |-> {s1} \cap Scope]

\* Requests, clients, codes and token ids are interchangeable.
MCSymmetry ==
    Permutations(Request) \cup Permutations(Client)
        \cup Permutations(Code) \cup Permutations(TokenId)

\* Once the clock has ticked two token ids are enough.
MCBound ==
    now > 0 =>
        Cardinality({k \in TokenId : access[k] # Unissued \/ refresh[k] # Unissued}) <= 2

=============================================================================
