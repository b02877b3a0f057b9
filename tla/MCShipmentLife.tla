--------------------------- MODULE MCShipmentLife ---------------------------
(* One lot of the goods is there, and every shipment wants one.              *)
EXTENDS ShipmentLife, TLC

MCWants == [s \in Shipments |-> 1]
MCAsked == {"REGISTERED", "CONFIRMED", "CANCELLED"}
=============================================================================
