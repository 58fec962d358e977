-------------------------- MODULE MCEventDelivery --------------------------
(* Instances of EventDelivery for TLC. *)
EXTENDS EventDelivery

CONSTANTS d1, d2, v1, p1
=============================================================================
