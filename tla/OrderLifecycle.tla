---------------------------- MODULE OrderLifecycle ----------------------------
(***************************************************************************)
(* What every entrance to an order promises together: the status moves     *)
(* only along the published transitions, one at a time, and a courier      *)
(* shipment is asked for only for an order that exists and is not          *)
(* canceled.  Nothing is said here of payments, webhooks or refunds.       *)
(***************************************************************************)
EXTENDS Integers

VARIABLES status, shipments

lifeVars == <<status, shipments>>

Transitions ==
  { <<"PENDING", "PROCESSING">>, <<"PENDING", "CANCELED">>,
    <<"PROCESSING", "SHIPPED">>, <<"PROCESSING", "CANCELED">>,
    <<"SHIPPED", "DELIVERED">>, <<"SHIPPED", "RETURNED">>,
    <<"DELIVERED", "COMPLETED">>, <<"DELIVERED", "RETURNED">>,
    <<"RETURNED", "REFUNDED">> }

LifeInit == status = "NONE" /\ shipments = 0

Place == status = "NONE" /\ status' = "PENDING" /\ UNCHANGED shipments

Move(to) ==
  /\ <<status, to>> \in Transitions
  /\ status' = to
  /\ UNCHANGED shipments

\* A payment reached the order: it leaves PENDING and a shipment is asked for.
Ship ==
  /\ status \notin {"NONE", "CANCELED"}
  /\ status' = IF status = "PENDING" THEN "PROCESSING" ELSE status
  /\ shipments' = shipments + 1

LifeNext ==
  \/ Place
  \/ \E edge \in Transitions : Move(edge[2])
  \/ Ship

LifeSpec == LifeInit /\ [][LifeNext]_lifeVars

=============================================================================
