------------------------------ MODULE Fulfilment ------------------------------
(***************************************************************************)
(* What following a parcel promises, whichever carrier reports it and      *)
(* however late, often or out of order: the order's status and payment say *)
(* nothing of the parcel that is not true of it.  happened is the truth,   *)
(* what the carrier saw happen to the parcel.                              *)
(***************************************************************************)
EXTENDS Integers

VARIABLES status, payment, happened

fulfilmentVars == <<status, payment, happened>>

Kinds == {"moving", "arrived", "delivered", "returned", "missing", "canceled"}

\* The statuses a report may take an order to, over any number of hops.
Ahead(from) ==
  CASE from = "PENDING" -> {"PROCESSING", "CANCELED"}
    [] from = "PROCESSING" ->
         {"SHIPPED", "DELIVERED", "COMPLETED", "RETURNED", "CANCELED"}
    [] from = "SHIPPED" -> {"DELIVERED", "COMPLETED", "RETURNED"}
    [] from = "DELIVERED" -> {"COMPLETED"}
    [] OTHER -> {}

\* What must have happened to the parcel before a status may be given.
Grounds(to) ==
  /\ to = "SHIPPED" => happened \cap {"moving", "arrived"} # {}
  /\ to \in {"DELIVERED", "COMPLETED"} => "delivered" \in happened
  /\ to = "RETURNED" => happened \cap {"returned", "missing"} # {}

FulfilmentInit ==
  /\ status \in {"PENDING", "PROCESSING"}
  /\ payment \in {"PENDING", "COMPLETED"}
  /\ happened = {}

Happens ==
  /\ \E k \in Kinds : happened' = happened \cup {k}
  /\ UNCHANGED <<status, payment>>

\* Cash on delivery counts as paid once the parcel was handed over.
Collected == payment = "PENDING" /\ "delivered" \in happened

Report ==
  /\ \E to \in Ahead(status) : Grounds(to) /\ status' = to
  /\ payment' = payment \/ (Collected /\ payment' = "COMPLETED")
  /\ status' = "COMPLETED" => payment' = "COMPLETED"
  /\ UNCHANGED happened

Collect ==
  /\ Collected /\ payment' = "COMPLETED"
  /\ UNCHANGED <<status, happened>>

Refund ==
  /\ payment = "COMPLETED" /\ payment' = "REFUNDED"
  /\ UNCHANGED <<status, happened>>

\* A cancellation stops the parcel and the order in one step.
Stop ==
  /\ status \in {"PENDING", "PROCESSING"} /\ status' = "CANCELED"
  /\ happened' = happened \cup {"canceled"}
  /\ UNCHANGED payment

FulfilmentNext == Happens \/ Report \/ Collect \/ Refund \/ Stop

FulfilmentSpec == FulfilmentInit /\ [][FulfilmentNext]_fulfilmentVars

=============================================================================
