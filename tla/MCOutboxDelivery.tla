--------------------------- MODULE MCOutboxDelivery ---------------------------
(* TLC instances of OutboxDelivery. *)
EXTENDS OutboxDelivery

CONSTANTS r1, r2

MCOneEvent == {1}
=============================================================================
