-------------------------------- MODULE Rows --------------------------------
(***************************************************************************)
(* Values that stand for the absence of a row or of a field.               *)
(***************************************************************************)
CONSTANTS
    Unissued,   \* the id has not been drawn yet
    Deleted,    \* the row has been removed
    Keep        \* the field is absent from the request

ASSUME RowsAssumption == Unissued # Deleted

\* The value of a field of which a request may say nothing.
Given(new, old) == IF new = Keep THEN old ELSE new
=============================================================================
