--------------------------- MODULE MCEventDelivery --------------------------
(* Model values for EventDelivery: events are told apart so that the order *)
(* of the log matters to the contract.                                     *)
EXTENDS EventDelivery

CONSTANTS published, unpublished

MCEvent == {published, unpublished}
=============================================================================
