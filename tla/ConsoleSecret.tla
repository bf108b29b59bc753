---------------------------- MODULE ConsoleSecret ----------------------------
(***************************************************************************)
(* The page of a client, where a secret is shown once: after its rotation, *)
(* and after a change of type that draws one.  The two calls have flags of *)
(* their own, so that they can overlap.                                    *)
(***************************************************************************)
EXTENDS Naturals

CONSTANT MaxDraw    \* bound on the secrets drawn

ASSUME SecretAssumption == MaxDraw \in Nat \ {0}

VARIABLES
    client,     \* on the server: type, secret, 0 for none, secrets drawn
    newSecret,  \* the secret in sight
    edit,       \* the call of saveEdit
    rotation,   \* the call of rotateSecret
    \* History variables: written by the actions, never read by them.
    crossed,    \* the two calls have overlapped
    missed      \* an answer with a secret was lost

secretVars == <<client, newSecret, edit, rotation, crossed, missed>>

----------------------------------------------------------------------------
Type == {"PUBLIC", "CONFIDENTIAL"}
NoEdit == [op |-> "none", type |-> "PUBLIC", secret |-> 0]

\* secret: the one in the answer.
SecretTypeOK ==
    /\ client \in [type : Type, secret : 0..MaxDraw, drawn : 0..MaxDraw]
    /\ newSecret \in 0..MaxDraw
    /\ {edit, rotation} \subseteq [op : {"none", "sent", "done"}, type : Type,
                                   secret : 0..MaxDraw]
    /\ {crossed, missed} \subseteq BOOLEAN

SecretInit ==
    /\ \E type \in Type, n \in {0, 1} :
        /\ (n = 0) = (type = "PUBLIC")
        /\ client = [type |-> type, secret |-> n, drawn |-> n]
    /\ newSecret = 0
    /\ edit = NoEdit /\ rotation = NoEdit
    /\ crossed = FALSE /\ missed = FALSE

StartSave(type) ==
    /\ edit.op = "none"
    /\ edit' = [op |-> "sent", type |-> type, secret |-> 0]
    /\ crossed' = (crossed \/ rotation.op # "none")
    /\ UNCHANGED <<client, newSecret, rotation, missed>>

StartRotate ==
    /\ rotation.op = "none"
    /\ rotation' = [NoEdit EXCEPT !.op = "sent"]
    /\ crossed' = (crossed \/ edit.op # "none")
    /\ UNCHANGED <<client, newSecret, edit, missed>>

\* A secret is drawn, stored and handed out.
FreshClient(type) == [type |-> type, secret |-> client.drawn + 1, drawn |-> client.drawn + 1]
FreshAnswer(type) == [op |-> "done", type |-> type, secret |-> client.drawn + 1]

\* A secret is drawn for a client that becomes confidential, and the one of a
\* client that becomes public is removed.
PerformSave ==
    /\ edit.op = "sent"
    /\ \/ /\ edit.type = client.type
          /\ edit' = [edit EXCEPT !.op = "done"] /\ UNCHANGED client
       \/ /\ edit.type = "PUBLIC" /\ client.type = "CONFIDENTIAL"
          /\ edit' = [edit EXCEPT !.op = "done"]
          /\ client' = [type |-> "PUBLIC", secret |-> 0, drawn |-> client.drawn]
       \/ /\ edit.type = "CONFIDENTIAL" /\ client.type = "PUBLIC"
          /\ client.drawn < MaxDraw
          /\ edit' = FreshAnswer(edit.type)
          /\ client' = FreshClient("CONFIDENTIAL")
    /\ UNCHANGED <<newSecret, rotation, crossed, missed>>

PerformRotate ==
    /\ rotation.op = "sent" /\ client.drawn < MaxDraw
    /\ rotation' = FreshAnswer(rotation.type)
    /\ client' = FreshClient(client.type)
    /\ UNCHANGED <<newSecret, edit, crossed, missed>>

\* Mutant: only a rotation shows its secret.
ShowNothing(n) == UNCHANGED newSecret

Show(n) == newSecret' = IF n # 0 THEN n ELSE newSecret

DeliverSave ==
    /\ edit.op = "done"
    /\ edit' = NoEdit
    /\ Show(edit.secret)
    /\ UNCHANGED <<client, rotation, crossed, missed>>

DeliverRotate ==
    /\ rotation.op = "done"
    /\ rotation' = NoEdit
    /\ newSecret' = rotation.secret
    /\ UNCHANGED <<client, edit, crossed, missed>>

\* An error, or a lost answer.
LoseCall ==
    /\ \/ edit.op # "none" /\ edit' = NoEdit /\ missed' = (missed \/ edit.secret # 0)
          /\ UNCHANGED rotation
       \/ rotation.op # "none" /\ rotation' = NoEdit
          /\ missed' = (missed \/ rotation.secret # 0) /\ UNCHANGED edit
    /\ UNCHANGED <<client, newSecret, crossed>>

SecretNext ==
    \/ \E type \in Type : StartSave(type)
    \/ StartRotate \/ PerformSave \/ PerformRotate \/ DeliverSave \/ DeliverRotate
    \/ LoseCall

SecretSpec == SecretInit /\ [][SecretNext]_secretVars

----------------------------------------------------------------------------
(***************************************************************************)
(* Properties.                                                             *)
(***************************************************************************)

\* The secret in sight, which the administrator copies, is the one the server
\* accepts, once nothing is on its way: only calls that overlapped, a lost
\* answer, or a change to PUBLIC leave another one (ClientDetailView.vue:76-110).
SecretInSightIsLive ==
    /\ edit.op = "none" /\ rotation.op = "none"
    /\ client.type = "CONFIDENTIAL" /\ ~crossed /\ ~missed
    => newSecret \in {0, client.secret}
=============================================================================
