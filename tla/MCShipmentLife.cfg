SPECIFICATION Spec
CONSTANTS
  NoShipment = NoShipment
  Shipments = {s1}
  Wants <- MCWants
  Opening = 1
  MaxOnHand = 1
  MaxMoves = 1
  Jobs = {j1, j2}
  Deliveries = {d1}
  Asked <- MCAsked
  Outcomes = {"pending", "delivered"}
  MaxStops = 1
INVARIANTS LifeTypeOK ReservedIsOwned NothingVanishes ChargedOnce
PROPERTIES ConfirmedIsCharged DeliveredIsReceipted
CHECK_DEADLOCK FALSE
