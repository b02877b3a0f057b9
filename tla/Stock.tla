------------------------------- MODULE Stock -------------------------------
(* The stock of one item in one warehouse (item_stock) and the movements     *)
(* shipments cause in it (shipment_inventory_movements).  Every operation is *)
(* one transaction of ShipmentInventoryMovementRepository.                   *)
EXTENDS FiniteSums

CONSTANTS
  Shipments,  \* shipments, by id
  Wants,      \* Wants[s]: the quantity the lines of shipment s ask for
  Opening,    \* what is on hand at first
  MaxOnHand,  \* bound: the most an adjustment may leave on hand
  MaxMoves    \* bound: the releases written for one shipment

ASSUME StockAssumption ==
  /\ IsFiniteSet(Shipments) /\ Wants \in [Shipments -> Nat \ {0}]
  /\ Opening \in Nat /\ MaxOnHand \in Nat /\ MaxMoves \in Nat

VARIABLES
  onHand,    \* item_stock.quantity_on_hand
  reserved,  \* item_stock.quantity_reserved
  moves,     \* moves[s]: the movements of shipment s, by type
  adjusted   \* the sum of the adjustment movements

stockVars == <<onHand, reserved, moves, adjusted>>

Moves == [reserved: {0, 1}, released: Nat, deducted: {0, 1}]

StockInit ==
  /\ onHand = Opening /\ reserved = 0 /\ adjusted = 0
  /\ moves = [s \in Shipments |-> [reserved |-> 0, released |-> 0, deducted |-> 0]]

(* The two checks of the table: nothing is negative, and no more is reserved *)
(* than is there.                                                            *)
StockTypeOK ==
  /\ onHand \in Nat /\ reserved \in 0 .. onHand /\ adjusted \in Int
  /\ moves \in [Shipments -> Moves]

(* greatest(n, 0).  Faulty variant: n.                                       *)
NoFloor(n) == n

Floor(n) == IF n < 0 THEN 0 ELSE n

(* Faulty variant: the sum of the wrong type of movement.                    *)
TotalReleased(s) == moves[s].released * Wants[s]

(* What the movements of type reserved add up to: the releases and the       *)
(* deduction made since do not count.                                        *)
TotalReserved(s) == moves[s].reserved * Wants[s]

-----------------------------------------------------------------------------
Available(s) == onHand - reserved >= Wants[s]

(* reserveStock, with the stock row locked.                                  *)
ReserveStock(s) ==
  /\ moves[s].reserved = 0 /\ Available(s)
  /\ reserved' = reserved + Wants[s]
  /\ moves' = [moves EXCEPT ![s].reserved = 1]
  /\ UNCHANGED <<onHand, adjusted>>

(* releaseStock: whatever was released or deducted before.                   *)
ReleaseStock(s) ==
  /\ moves[s].released < MaxMoves
  /\ reserved' = Floor(reserved - TotalReserved(s))
  /\ moves' = IF moves[s].reserved = 1 THEN [moves EXCEPT ![s].released = @ + 1] ELSE moves
  /\ UNCHANGED <<onHand, adjusted>>

(* Faulty variant: no unique index on the deductions of a shipment.          *)
DeductibleAgain(s) == moves[s].reserved = 1

Deductible(s) == moves[s].reserved = 1 /\ moves[s].deducted = 0

(* deductStock: only the first deducted movement of a shipment counts.       *)
DeductStock(s) ==
  /\ IF Deductible(s)
     THEN /\ onHand' = Floor(onHand - Wants[s])
          /\ reserved' = Floor(reserved - Wants[s])
          /\ moves' = [moves EXCEPT ![s].deducted = 1]
     ELSE UNCHANGED <<onHand, reserved, moves>>
  /\ UNCHANGED adjusted

(* adjustStock: never below zero; the check of the table also refuses to go  *)
(* below what is reserved.                                                   *)
AdjustStock(delta) ==
  /\ delta # 0 /\ onHand + delta >= reserved /\ onHand + delta <= MaxOnHand
  /\ onHand' = onHand + delta
  /\ adjusted' = adjusted + delta
  /\ UNCHANGED <<reserved, moves>>

-----------------------------------------------------------------------------
Outstanding(s) == moves[s].reserved = 1 /\ moves[s].released = 0 /\ moves[s].deducted = 0

(* What the stock row holds back is held back for somebody: the quantities   *)
(* of the reservations neither released nor deducted cover it.               *)
ReservedIsOwned ==
  reserved <= Sum(Wants, {s \in Shipments : Outstanding(s)})

(* Goods leave only with a delivery that is written down: what was there at  *)
(* first and what adjustments added is on hand or was deducted.              *)
NothingVanishes ==
  onHand + Sum(Wants, {s \in Shipments : moves[s].deducted = 1}) >= Opening + adjusted

(* "Safe to call even if reservations were already released (idempotent)"    *)
(* (releaseStock): the row holds back every open reservation.                *)
EveryReservationIsHeld ==
  reserved >= Sum(Wants, {s \in Shipments : Outstanding(s)})
=============================================================================
