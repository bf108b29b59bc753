---------------------------- MODULE ConsoleForms ----------------------------
(***************************************************************************)
(* A form or a dialog of the web application, of the console as of the     *)
(* pages for users, from its opening to the answer of the server that      *)
(* closes it.                                                              *)
(*                                                                         *)
(* A form that creates starts empty; one that changes a resource starts    *)
(* with the row of the list it was opened from or asks the server, and     *)
(* sends the whole content back.  Nothing carries a version.               *)
(***************************************************************************)
EXTENDS Naturals, FiniteSets

CONSTANTS
    Content,    \* what a resource can hold
    Blank,      \* what a form holds before it has been filled
    Save        \* slots: bound on the calls in flight

ASSUME FormsAssumption == Blank \in Content /\ IsFiniteSet(Save)

VARIABLES
    form,       \* the form that is open
    phase,      \* whether it has been filled
    fields,     \* what it says
    basis,      \* what it was filled with
    saving,     \* the flag
    saves,      \* the calls in flight
    stored,     \* on the server: the resource
    copies,     \* resources created from this form
    \* History variables: written by the actions, never read by them.
    changed,    \* the resource has been written since the form was filled
    wiped,      \* the content replaced had neither been seen nor just changed
    lostReply   \* a call was done and its reply lost

formVars == <<form, phase, fields, basis, saving, saves, stored, copies, changed,
              wiped, lostReply>>
formShadow == <<changed, wiped, lostReply>>

----------------------------------------------------------------------------
(***************************************************************************)
(* The forms.                                                              *)
(*   creates  a resource, or uses something up; else changes a resource    *)
(*   fetches  asks the server for the content, else takes a row            *)
(*   early    can be saved before it has been filled                       *)
(*   blank    can be saved when filling has failed                         *)
(*   unique   the server refuses a second resource of that name            *)
(*   stays    remains in sight with the answer of the server               *)
(***************************************************************************)
Form ==
    [creates : BOOLEAN, fetches : BOOLEAN, early : BOOLEAN, blank : BOOLEAN,
     unique : BOOLEAN, stays : BOOLEAN]

RoleEdit ==
    [creates |-> FALSE, fetches |-> FALSE, early |-> FALSE, blank |-> FALSE,
     unique |-> TRUE, stays |-> FALSE]

PermissionEdit == RoleEdit
ScopeEdit == RoleEdit
AdminEdit == RoleEdit

RoleNew == [RoleEdit EXCEPT !.creates = TRUE]
PermissionNew == RoleNew
ScopeNew == RoleNew
AdminNew == RoleNew
TenantNew == RoleNew
UserNew == RoleNew
Bootstrap == RoleNew
ChangePassword == RoleNew
\* The second use of a token is refused, and of a pending request.
ResetPassword == RoleNew
LoginPage == [RoleNew EXCEPT !.stays = TRUE]
\* Nothing is sent before the configuration has said that it is allowed.
Registration == [RoleNew EXCEPT !.fetches = TRUE]

\* Names of clients and of providers need not differ; the second provider of
\* the same client and domains is refused.
ClientNew == [RoleNew EXCEPT !.unique = FALSE]
ForgotPassword == ClientNew
ProviderNew == RoleNew

UserEdit == [RoleEdit EXCEPT !.fetches = TRUE]
UserRoles == [UserEdit EXCEPT !.blank = TRUE]
RolePermissions == UserRoles
ProviderEdit == UserRoles
TenantSettings == [UserEdit EXCEPT !.stays = TRUE]
ClientEdit == TenantSettings
\* Offered without the fields of the schema when those could not be read.
OwnProfile == [UserRoles EXCEPT !.stays = TRUE]

\* Publishing adds a version; what it replaces is the active one.
SchemaPublish == [UserRoles EXCEPT !.early = TRUE]

Forms ==
    {RoleEdit, PermissionEdit, ScopeEdit, AdminEdit, RoleNew, PermissionNew, ScopeNew,
     AdminNew, TenantNew, UserNew, Bootstrap, ChangePassword, ResetPassword, LoginPage,
     Registration, ClientNew, ForgotPassword, ProviderNew, UserRoles, RolePermissions,
     ProviderEdit, UserEdit, TenantSettings, ClientEdit, OwnProfile, SchemaPublish}

----------------------------------------------------------------------------
NoSave == [op |-> "none", value |-> Blank, basis |-> Blank]

FormTypeOK ==
    /\ form \in Forms
    /\ phase \in {"loading", "filled", "failed", "left"}
    /\ {fields, basis, stored} \subseteq Content
    /\ saves \in [Save -> [op : {"none", "sent", "done", "refused"}, value : Content,
                          basis : Content]]
    /\ copies \in 0..Cardinality(Save)
    /\ {saving, changed, wiped, lostReply} \subseteq BOOLEAN

FormInit ==
    /\ form \in Forms
    /\ stored \in IF form.creates THEN {Blank} ELSE Content
    /\ phase = IF form.fetches THEN "loading" ELSE "filled"
    /\ basis = IF form.fetches THEN Blank ELSE stored
    /\ fields = basis
    /\ saving = FALSE /\ saves = [k \in Save |-> NoSave] /\ copies = 0
    /\ changed = FALSE /\ wiped = FALSE /\ lostReply = FALSE

----------------------------------------------------------------------------
\* An answer that comes late replaces what has been typed.
Fill ==
    /\ phase = "loading"
    /\ phase' = "filled"
    /\ fields' = stored /\ basis' = stored
    /\ changed' = FALSE
    /\ UNCHANGED <<form, saving, saves, stored, copies, wiped, lostReply>>

FillFails ==
    /\ phase = "loading"
    /\ phase' = "failed"
    /\ UNCHANGED <<form, fields, basis, saving, saves, stored, copies, formShadow>>

\* Mutant: nothing is switched off while it loads.
OfferedAlways == phase # "left"

Offered ==
    \/ phase = "filled"
    \/ phase = "loading" /\ form.early
    \/ phase = "failed" /\ form.blank

Edit(v) ==
    /\ Offered
    /\ fields' = v
    /\ UNCHANGED <<form, phase, basis, saving, saves, stored, copies, formShadow>>

MaySave == ~saving

Submit(k) ==
    /\ Offered /\ MaySave
    /\ saves[k].op = "none"
    /\ saves' = [saves EXCEPT ![k] = [op |-> "sent", value |-> fields, basis |-> basis]]
    /\ saving' = TRUE
    /\ UNCHANGED <<form, phase, fields, basis, stored, copies, formShadow>>

Create(k) ==
    /\ saves[k].op = "sent" /\ form.creates
    /\ IF form.unique /\ copies > 0
       THEN /\ saves' = [saves EXCEPT ![k].op = "refused"]
            /\ UNCHANGED copies
       ELSE /\ copies < Cardinality(Save)
            /\ saves' = [saves EXCEPT ![k].op = "done"]
            /\ copies' = copies + 1
    /\ UNCHANGED <<form, phase, fields, basis, saving, stored, formShadow>>

Change(k) ==
    /\ saves[k].op = "sent" /\ ~form.creates
    /\ saves' = [saves EXCEPT ![k].op = "done"]
    /\ stored' = saves[k].value
    /\ wiped' = (wiped \/ (~changed /\ stored # saves[k].basis))
    /\ changed' = TRUE
    /\ UNCHANGED <<form, phase, fields, basis, saving, copies, lostReply>>

\* Another administrator.
ChangeElsewhere(v) ==
    /\ ~form.creates
    /\ stored' = v /\ changed' = TRUE
    /\ UNCHANGED <<form, phase, fields, basis, saving, saves, copies, wiped, lostReply>>

\* The form closes, or stays with the row that the server has returned.
Saved(k) ==
    /\ saves[k].op = "done"
    /\ saves' = [saves EXCEPT ![k] = NoSave]
    /\ saving' = FALSE
    /\ IF form.stays
       THEN fields' = saves[k].value /\ basis' = saves[k].value /\ UNCHANGED phase
       ELSE phase' = "left" /\ UNCHANGED <<fields, basis>>
    /\ UNCHANGED <<form, stored, copies, formShadow>>

\* The server has refused, or the connection was lost before or after it did
\* what it was asked: the form shows a message and can be sent again.
SaveFails(k) ==
    /\ saves[k].op # "none"
    /\ saves' = [saves EXCEPT ![k] = NoSave]
    /\ saving' = FALSE
    /\ lostReply' = (lostReply \/ saves[k].op = "done")
    /\ UNCHANGED <<form, phase, fields, basis, stored, copies, changed, wiped>>

FormNext ==
    \/ Fill \/ FillFails
    \/ \E v \in Content : Edit(v) \/ ChangeElsewhere(v)
    \/ \E k \in Save :
        Submit(k) \/ Create(k) \/ Change(k) \/ Saved(k) \/ SaveFails(k)

FormSpec == FormInit /\ [][FormNext]_formVars

----------------------------------------------------------------------------
(***************************************************************************)
(* Properties.                                                             *)
(***************************************************************************)

NothingWipedUnseen == wiped => form.early \/ (form.blank /\ phase # "filled")

OneCreation == copies > 1 => ~form.unique /\ lostReply

\* A form that has been filled from the server never overwrites content that
\* nobody has seen in it: only another administrator can have written in
\* between.  The dialogs that are offered empty after a failed load
\* (UserRoleDialog.vue:43), and the one that does not wait for it
\* (SchemaPublishView.vue:68), do.  And one form creates one resource, however
\* often its button is pressed or it is sent again after an error, unless the
\* server accepts a second one and the first answer was lost
\* (ClientCreateView.vue:50).
SavedAsSeen == NothingWipedUnseen /\ OneCreation
=============================================================================
