----------------------------- MODULE BindingLog -----------------------------
(***************************************************************************)
(* What the Bedrock adapter promises about the registry's model bindings,  *)
(* whatever the registry answers: the row of a model only moves forward.   *)
(* A row is replaced by one with a higher revision, kept, or removed; a    *)
(* removed model comes back only with a revision it never had.             *)
(***************************************************************************)
EXTENDS Naturals

CONSTANTS Models, Rows, None

VARIABLES
    row,        \* the row in force of each model, or None
    floor       \* the highest revision each model has had, 0 before any

Init == row = [m \in Models |-> None] /\ floor = [m \in Models |-> 0]

Forward(m, next) ==
    \/ next = None
    \/ next = row[m]
    \/ next.revision > floor[m]

Adopt(rows) ==
    /\ \A m \in Models : Forward(m, rows[m])
    /\ row' = rows
    /\ floor' = [m \in Models |-> IF rows[m] = None THEN floor[m] ELSE rows[m].revision]

Next == \E rows \in [Models -> Rows \cup {None}] : Adopt(rows)

Spec == Init /\ [][Next]_<<row, floor>>
=============================================================================
