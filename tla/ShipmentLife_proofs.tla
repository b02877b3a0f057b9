------------------------- MODULE ShipmentLife_proofs -------------------------
(* Stock, charges and deliveries of shipments, for any number of shipments,  *)
(* deliveries and handlers, whatever is cut off and when.                    *)
EXTENDS ShipmentLife, FiniteSums_proofs

(* Nothing is released or deducted that was not reserved.                    *)
StockInv ==
  /\ StockTypeOK
  /\ \A s \in Shipments : moves[s].reserved = 0 => moves[s].released = 0 /\ moves[s].deducted = 0
  /\ ReservedIsOwned /\ NothingVanishes

ShipmentType ==
  [at: {"none", "live", "deleted"}, status: Statuses, fin: {"UNPOSTED", "POSTED"}, charges: Nat]

Charged(x) == x.charges = IF x.fin = "POSTED" THEN 1 ELSE 0

ShipmentsInv == shipment \in [Shipments -> {x \in ShipmentType : Charged(x)}]

DeliveryType ==
  [at: {"none", "live", "deleted"}, of: Shipments \cup {NoShipment}, status: DeliveryStatuses,
   receipt: {"none", "standing", "cancelled"}]

DeliveriesInv ==
  delivery \in [Deliveries -> {x \in DeliveryType : x.at # "none" => x.of \in Shipments}]

(* What a handler remembers.                                                 *)
JobType ==
  {Idle}
    \cup [at: {"reserve", "unwind", "post"}, of: Shipments]
    \cup [at: {"release", "write"}, of: Shipments, to: Statuses, saw: ShipmentType, posts: BOOLEAN]
    \cup [at: {"deliver"}, by: Deliveries, of: Shipments, to: DeliveryStatuses]
    \cup [at: {"deduct", "receipt"}, of: Shipments, by: Deliveries]

JobsInv == job \in [Jobs -> JobType] /\ stops \in 0 .. MaxStops

Inv == StockInv /\ ShipmentsInv /\ DeliveriesInv /\ JobsInv

-----------------------------------------------------------------------------
(* The stock.                                                                *)
Owners == {s \in Shipments : Outstanding(s)}
Takers == {s \in Shipments : moves[s].deducted = 1}

LEMMA WantsType == \A s \in Shipments : Wants[s] \in Nat /\ Wants[s] \in Int /\ Wants[s] > 0
BY StockAssumption

LEMMA SumOfWants ==
  ASSUME NEW S \in SUBSET Shipments
  PROVE  /\ Sum(Wants, S) \in Nat
         /\ \A s \in S : Sum(Wants, S \ {s}) \in Nat /\ Sum(Wants, S) = Wants[s] + Sum(Wants, S \ {s})
<1>1. IsFiniteSet(S) /\ \A s \in S : IsFiniteSet(S \ {s})
  BY StockAssumption, FS_Subset
<1>2. Sum(Wants, S) \in Nat /\ \A s \in S : Sum(Wants, S \ {s}) \in Nat
  BY <1>1, WantsType, SumNat
<1>3. \A s \in S : Sum(Wants, S) = Wants[s] + Sum(Wants, S \ {s})
  BY <1>1, WantsType, SumRemove
<1> QED BY <1>2, <1>3

LEMMA StockFacts ==
  ASSUME StockInv
  PROVE  /\ onHand \in Nat /\ reserved \in Nat /\ reserved <= onHand /\ adjusted \in Int
         /\ moves \in [Shipments -> Moves] /\ Opening \in Nat
         /\ \A s \in Shipments : moves[s].reserved \in {0, 1} /\ moves[s].released \in Nat
                                   /\ moves[s].deducted \in {0, 1}
         /\ \A s \in Shipments : moves[s].reserved = 0 => moves[s].released = 0 /\ moves[s].deducted = 0
         /\ reserved <= Sum(Wants, Owners) /\ onHand + Sum(Wants, Takers) >= Opening + adjusted
         /\ Sum(Wants, Owners) \in Nat /\ Sum(Wants, Takers) \in Nat
<1>1. Owners \in SUBSET Shipments /\ Takers \in SUBSET Shipments
  BY DEF Owners, Takers
<1>2. Sum(Wants, Owners) \in Nat /\ Sum(Wants, Takers) \in Nat
  BY <1>1, SumOfWants
<1> QED BY <1>2, StockAssumption
        DEF StockInv, StockTypeOK, Moves, ReservedIsOwned, NothingVanishes, Owners, Takers

(* The movements of one shipment change.                                     *)
LEMMA StockMoves ==
  ASSUME StockInv, NEW s \in Shipments, NEW m \in Moves, moves' = [moves EXCEPT ![s] = m],
         m.reserved = 0 => m.released = 0 /\ m.deducted = 0,
         onHand' \in Nat, reserved' \in Nat, reserved' <= onHand', adjusted' = adjusted,
         reserved' <= Sum(Wants, Owners'), onHand' + Sum(Wants, Takers') >= Opening + adjusted
  PROVE  StockInv'
<1>1. moves' \in [Shipments -> Moves] /\ moves'[s] = m
      /\ \A u \in Shipments \ {s} : moves'[u] = moves[u]
  BY StockFacts
<1>2. StockTypeOK'
  BY <1>1, StockFacts DEF StockTypeOK
<1>3. \A u \in Shipments : moves'[u].reserved = 0 => moves'[u].released = 0 /\ moves'[u].deducted = 0
  BY <1>1, StockFacts
<1> QED BY <1>2, <1>3 DEF StockInv, ReservedIsOwned, NothingVanishes, Owners, Takers

LEMMA ReserveStockStep ==
  ASSUME StockInv, NEW s \in Shipments, ReserveStock(s) PROVE StockInv'
<1> DEFINE m == [moves[s] EXCEPT !.reserved = 1]
<1>1. /\ moves[s].reserved = 0 /\ onHand - reserved >= Wants[s] /\ reserved' = reserved + Wants[s]
      /\ moves' = [moves EXCEPT ![s] = m] /\ UNCHANGED <<onHand, adjusted>>
  BY DEF ReserveStock, Available
<1>2. m \in Moves /\ m.reserved = 1 /\ m.released = 0 /\ m.deducted = 0
      /\ moves[s].released = 0 /\ moves[s].deducted = 0
  BY <1>1, StockFacts DEF Moves
<1> HIDE DEF m
<1>3. moves'[s] = m /\ \A u \in Shipments \ {s} : moves'[u] = moves[u]
  BY <1>1, StockFacts
<1>4. Takers' = Takers /\ Owners' \ {s} = Owners /\ s \in Owners' /\ Owners' \in SUBSET Shipments
  BY <1>1, <1>2, <1>3 DEF Takers, Owners, Outstanding
<1>5. Sum(Wants, Owners') = Wants[s] + Sum(Wants, Owners)
  BY <1>4, SumOfWants
<1>6. m.reserved = 0 => m.released = 0 /\ m.deducted = 0
  BY <1>2
<1>7. /\ onHand' \in Nat /\ reserved' \in Nat /\ reserved' <= onHand' /\ reserved' <= Sum(Wants, Owners')
      /\ onHand' + Sum(Wants, Takers') >= Opening + adjusted
  BY <1>1, <1>4, <1>5, StockFacts, WantsType
<1> QED BY <1>1, <1>2, <1>6, <1>7, StockMoves, Zenon

LEMMA ReleaseStockStep ==
  ASSUME StockInv, NEW s \in Shipments, ReleaseStock(s) PROVE StockInv'
<1> DEFINE m == [moves[s] EXCEPT !.released = @ + 1]
<1>1. /\ reserved' = Floor(reserved - moves[s].reserved * Wants[s])
      /\ moves' = IF moves[s].reserved = 1 THEN [moves EXCEPT ![s] = m] ELSE moves
      /\ UNCHANGED <<onHand, adjusted>>
  BY DEF ReleaseStock, TotalReserved
<1>2. CASE moves[s].reserved = 1
  <2>1. reserved' = Floor(reserved - Wants[s]) /\ moves' = [moves EXCEPT ![s] = m]
    BY <1>1, <1>2, WantsType
  <2>2. m \in Moves /\ m.reserved = 1 /\ m.released # 0 /\ m.deducted = moves[s].deducted
    BY <1>2, StockFacts DEF Moves
  <2> HIDE DEF m
  <2>3. moves'[s] = m /\ \A u \in Shipments \ {s} : moves'[u] = moves[u]
    BY <2>1, StockFacts
  <2>4. Takers' = Takers /\ Owners' = Owners \ {s} /\ Owners \in SUBSET Shipments
    BY <2>2, <2>3 DEF Takers, Owners, Outstanding
  <2>5. reserved' \in Nat /\ reserved' <= onHand' /\ reserved' <= reserved
        /\ (reserved >= Wants[s] => reserved' = reserved - Wants[s])
        /\ (reserved < Wants[s] => reserved' = 0)
    BY <1>1, <2>1, StockFacts, WantsType DEF Floor
  <2>6. reserved' <= Sum(Wants, Owners')
    <3>1. CASE s \in Owners
      BY <2>4, <2>5, <3>1, SumOfWants, StockFacts, WantsType
    <3>2. CASE s \notin Owners
      <4>1. Owners' = Owners BY <2>4, <3>2
      <4> QED BY <2>5, <4>1, StockFacts
    <3> QED BY <3>1, <3>2
  <2>7. m.reserved = 0 => m.released = 0 /\ m.deducted = 0
    BY <2>2
  <2>8. onHand' \in Nat /\ onHand' + Sum(Wants, Takers') >= Opening + adjusted
    BY <1>1, <2>4, StockFacts
  <2> QED BY <1>1, <2>1, <2>2, <2>5, <2>6, <2>7, <2>8, StockMoves, Zenon
<1>3. CASE moves[s].reserved # 1
  <2>1. moves[s].reserved = 0 /\ moves' = moves
    BY <1>1, <1>3, StockFacts
  <2>2. reserved' = reserved
    BY <1>1, <2>1, StockFacts, WantsType DEF Floor
  <2> QED BY <1>1, <2>1, <2>2
      DEF StockInv, StockTypeOK, ReservedIsOwned, NothingVanishes, Outstanding
<1> QED BY <1>2, <1>3

LEMMA DeductStockStep ==
  ASSUME StockInv, NEW s \in Shipments, DeductStock(s) PROVE StockInv'
<1> DEFINE m == [moves[s] EXCEPT !.deducted = 1]
<1>1. CASE ~Deductible(s)
  <2>1. UNCHANGED <<onHand, reserved, moves, adjusted>>
    BY <1>1 DEF DeductStock
  <2> QED BY <2>1 DEF StockInv, StockTypeOK, ReservedIsOwned, NothingVanishes, Outstanding
<1>2. CASE Deductible(s)
  <2>1. /\ onHand' = Floor(onHand - Wants[s]) /\ reserved' = Floor(reserved - Wants[s])
        /\ moves' = [moves EXCEPT ![s] = m] /\ adjusted' = adjusted
        /\ moves[s].reserved = 1 /\ moves[s].deducted = 0
    BY <1>2 DEF DeductStock, Deductible
  <2>2. m \in Moves /\ m.reserved = 1 /\ m.deducted = 1
    BY <2>1, StockFacts DEF Moves
  <2> HIDE DEF m
  <2>3. moves'[s] = m /\ \A u \in Shipments \ {s} : moves'[u] = moves[u]
    BY <2>1, StockFacts
  <2>4. /\ Takers' \ {s} = Takers /\ s \in Takers' /\ Owners' = Owners \ {s}
        /\ Owners \in SUBSET Shipments /\ Takers' \in SUBSET Shipments
    BY <2>1, <2>2, <2>3 DEF Takers, Owners, Outstanding
  <2>5. /\ reserved' \in Nat /\ reserved' <= reserved /\ onHand' \in Nat /\ reserved' <= onHand'
        /\ (reserved >= Wants[s] => reserved' = reserved - Wants[s])
        /\ (reserved < Wants[s] => reserved' = 0) /\ onHand' >= onHand - Wants[s]
    BY <2>1, StockFacts, WantsType DEF Floor
  <2>6. reserved' <= Sum(Wants, Owners')
    <3>1. CASE s \in Owners
      BY <2>4, <2>5, <3>1, SumOfWants, StockFacts, WantsType
    <3>2. CASE s \notin Owners
      <4>1. Owners' = Owners BY <2>4, <3>2
      <4> QED BY <2>5, <4>1, StockFacts
    <3> QED BY <3>1, <3>2
  <2>7. Sum(Wants, Takers') = Wants[s] + Sum(Wants, Takers)
    BY <2>4, SumOfWants
  <2>8. onHand' + Sum(Wants, Takers') >= Opening + adjusted
    BY <2>5, <2>7, StockFacts, WantsType
  <2>9. m.reserved = 0 => m.released = 0 /\ m.deducted = 0
    BY <2>2
  <2> QED BY <2>1, <2>2, <2>5, <2>6, <2>8, <2>9, StockMoves, Zenon
<1> QED BY <1>1, <1>2

LEMMA AdjustStockStep ==
  ASSUME StockInv, NEW delta \in {-1, 1}, AdjustStock(delta) PROVE StockInv'
<1>1. /\ onHand' = onHand + delta /\ adjusted' = adjusted + delta /\ onHand + delta >= reserved
      /\ UNCHANGED <<reserved, moves>>
  BY DEF AdjustStock
<1>2. Owners' = Owners /\ Takers' = Takers
  BY <1>1 DEF Owners, Takers, Outstanding
<1>3. StockTypeOK'
  BY <1>1, StockFacts DEF StockTypeOK
<1>4. reserved' <= Sum(Wants, Owners') /\ onHand' + Sum(Wants, Takers') >= Opening + adjusted'
  BY <1>1, <1>2, StockFacts
<1> QED BY <1>1, <1>3, <1>4 DEF StockInv, ReservedIsOwned, NothingVanishes, Owners, Takers

LEMMA StockUntouched == ASSUME StockInv, UNCHANGED stockVars PROVE StockInv'
BY DEF stockVars, StockInv, StockTypeOK, ReservedIsOwned, NothingVanishes, Outstanding

-----------------------------------------------------------------------------
(* Shipments, deliveries and handlers.                                       *)
LEMMA StatusNames ==
  /\ {"DELIVERED", "RETURNED", "RETURN_REQUESTED", "CONFIRMED", "DRAFT"} \subseteq Statuses
  /\ Asked \subseteq Statuses /\ Outcomes \subseteq DeliveryStatuses
BY AskedAssumption DEF Statuses, Returnable, Cancellable, Terminal

LEMMA PostedFacts ==
  ASSUME NEW x \in ShipmentType, Charged(x)
  PROVE  /\ Posted(x) \in ShipmentType /\ Charged(Posted(x)) /\ Posted(x).fin = "POSTED"
         /\ Posted(x).status = x.status /\ Posted(x).at = x.at
<1>1. CASE x.fin = "POSTED"
  BY <1>1 DEF Posted
<1>2. CASE x.fin # "POSTED"
  <2>1. x.charges = 0
    BY <1>2 DEF Charged
  <2> DEFINE y == [x EXCEPT !.fin = "POSTED", !.charges = 1]
  <2>2. Posted(x) = y
    <3>1. x.charges + 1 = 1
      BY <2>1
    <3> QED BY <1>2, <3>1, Zenon DEF Posted
  <2>3. y \in ShipmentType /\ y.fin = "POSTED" /\ y.charges = 1 /\ y.status = x.status /\ y.at = x.at
    BY DEF ShipmentType
  <2> HIDE DEF y
  <2>4. /\ Posted(x) \in ShipmentType /\ Posted(x).fin = "POSTED" /\ Posted(x).charges = 1
        /\ Posted(x).status = x.status /\ Posted(x).at = x.at
    BY <2>2, <2>3
  <2> QED BY <2>4 DEF Charged
<1> QED BY <1>1, <1>2

(* A new status or the mark of the deletion keep the charge.                 *)
LEMMA Restated ==
  ASSUME NEW x \in ShipmentType, Charged(x), NEW status \in Statuses,
         NEW at \in {"none", "live", "deleted"}
  PROVE  /\ [x EXCEPT !.status = status] \in ShipmentType /\ Charged([x EXCEPT !.status = status])
         /\ [x EXCEPT !.at = at] \in ShipmentType /\ Charged([x EXCEPT !.at = at])
BY DEF ShipmentType, Charged

LEMMA OneShipmentChanges ==
  ASSUME ShipmentsInv, NEW s \in Shipments, NEW x \in ShipmentType, Charged(x),
         shipment' = [shipment EXCEPT ![s] = x]
  PROVE  ShipmentsInv'
BY DEF ShipmentsInv

LEMMA OneDeliveryChanges ==
  ASSUME DeliveriesInv, NEW d \in Deliveries, NEW x \in DeliveryType,
         x.at # "none" => x.of \in Shipments, delivery' = [delivery EXCEPT ![d] = x]
  PROVE  DeliveriesInv'
BY DEF DeliveriesInv

LEMMA OneJobChanges ==
  ASSUME JobsInv, NEW j \in Jobs, NEW x \in JobType, job' = [job EXCEPT ![j] = x], stops' = stops
  PROVE  JobsInv'
BY DEF JobsInv

LEMMA JobEnds == ASSUME JobsInv, NEW j \in Jobs, End(j), stops' = stops PROVE JobsInv'
<1>1. Idle \in JobType
  BY DEF JobType
<1> QED BY <1>1, OneJobChanges DEF End

LEMMA ImposeStep ==
  ASSUME ShipmentsInv, NEW s \in Shipments, NEW status \in DeliveryStatuses, Impose(s, status)
  PROVE  ShipmentsInv'
<1> DEFINE to == CHOOSE to \in Imposed(status) : TRUE
<1>1. CASE Live(s) /\ Imposed(status) # {}
  <2>1. to \in Imposed(status)
    BY <1>1
  <2>2. Imposed(status) \subseteq Statuses
    BY StatusNames DEF Imposed, DeliveryStatuses
  <2>3. to \in Statuses
    BY <2>1, <2>2
  <2> DEFINE x == [shipment[s] EXCEPT !.status = to]
  <2>4. shipment' = [shipment EXCEPT ![s] = x]
    BY <1>1 DEF Impose
  <2>5. x \in ShipmentType /\ Charged(x)
    <3> HIDE DEF to
    <3> QED BY <2>3, Restated DEF ShipmentsInv
  <2> HIDE DEF x, to
  <2> QED BY <2>4, <2>5, OneShipmentChanges
<1>2. CASE ~(Live(s) /\ Imposed(status) # {})
  <2>1. shipment' = shipment
    BY <1>2 DEF Impose
  <2> QED BY <2>1 DEF ShipmentsInv
<1> QED BY <1>1, <1>2

LEMMA ReceiptChanges ==
  ASSUME DeliveriesInv, NEW d \in Deliveries, NEW status \in {"none", "standing", "cancelled"},
         delivery' = [delivery EXCEPT ![d].receipt = status]
  PROVE  DeliveriesInv'
<1> DEFINE x == [delivery[d] EXCEPT !.receipt = status]
<1>1. delivery[d] \in DeliveryType /\ (delivery[d].at # "none" => delivery[d].of \in Shipments)
  BY DEF DeliveriesInv
<1>2. x \in DeliveryType /\ (x.at # "none" => x.of \in Shipments)
  BY <1>1 DEF DeliveryType
<1>3. delivery' = [delivery EXCEPT ![d] = x]
  OBVIOUS
<1> HIDE DEF x
<1> QED BY <1>2, <1>3, OneDeliveryChanges

LEMMA MakeReceiptStep ==
  ASSUME DeliveriesInv, NEW d \in Deliveries, MakeReceipt(d) PROVE DeliveriesInv'
<1>1. CASE delivery' = [delivery EXCEPT ![d].receipt = "standing"]
  BY <1>1, ReceiptChanges
<1>2. CASE delivery' = delivery
  BY <1>2 DEF DeliveriesInv
<1> QED BY <1>1, <1>2 DEF MakeReceipt

-----------------------------------------------------------------------------
(* What a handler does next.                                                 *)
LEMMA JobAt ==
  ASSUME JobsInv, NEW j \in Jobs
  PROVE  /\ job[j].at \in {"reserve", "unwind", "release", "write", "post", "deliver", "deduct",
                           "receipt"} => job[j].of \in Shipments
         /\ job[j].at \in {"release", "write"} =>
              job[j].to \in Statuses /\ job[j].saw \in ShipmentType /\ job[j].posts \in BOOLEAN
         /\ job[j].at \in {"deliver", "deduct", "receipt"} => job[j].by \in Deliveries
         /\ job[j].at = "deliver" => job[j].to \in DeliveryStatuses
<1>1. job[j] \in JobType
  BY DEF JobsInv
<1> QED BY <1>1 DEF JobType, Idle

LEMMA GoesOn ==
  ASSUME JobsInv, NEW j \in Jobs, NEW step, Go(j, step), stops' = stops,
         \/ job[j].at = "reserve" /\ step = "unwind"
         \/ job[j].at = "release" /\ step = "write"
         \/ job[j].at = "deduct" /\ step = "receipt"
  PROVE  JobsInv'
<1> DEFINE x == [job[j] EXCEPT !.at = step]
<1>1. job[j] \in JobType
  BY DEF JobsInv
<1>2. x \in JobType
  BY <1>1 DEF JobType, Idle
<1>3. job' = [job EXCEPT ![j] = x]
  BY DEF Go
<1> HIDE DEF x
<1> QED BY <1>2, <1>3, OneJobChanges

LEMMA ShipmentAt ==
  ASSUME ShipmentsInv, NEW s \in Shipments
  PROVE  shipment[s] \in ShipmentType /\ Charged(shipment[s])
BY DEF ShipmentsInv

LEMMA ContinueStep ==
  ASSUME Inv, NEW j \in Jobs, Continue(j) PROVE Inv'
<1> DEFINE s == job[j].of
<1>0. StockInv /\ ShipmentsInv /\ DeliveriesInv /\ JobsInv
  BY DEF Inv
<1>1. CASE Reserve(j)
  <2>1. job[j].at = "reserve" /\ s \in Shipments /\ UNCHANGED <<shipment, delivery, stops>>
    BY <1>0, <1>1, JobAt DEF Reserve
  <2>2. (ReserveStock(s) /\ End(j)) \/ (Go(j, "unwind") /\ UNCHANGED stockVars)
    BY <1>1 DEF Reserve
  <2>3. StockInv'
    BY <1>0, <2>1, <2>2, ReserveStockStep, StockUntouched
  <2>4. JobsInv'
    BY <1>0, <2>1, <2>2, JobEnds, GoesOn
  <2> QED BY <1>0, <2>1, <2>3, <2>4 DEF Inv, ShipmentsInv, DeliveriesInv
<1>2. CASE Unwind(j)
  <2> DEFINE x == [shipment[s] EXCEPT !.at = "deleted"]
  <2>1. job[j].at = "unwind" /\ s \in Shipments /\ End(j) /\ UNCHANGED <<stockVars, delivery, stops>>
    BY <1>0, <1>2, JobAt DEF Unwind
  <2>2. shipment' = [shipment EXCEPT ![s] = x]
    BY <1>2 DEF Unwind
  <2>3. x \in ShipmentType /\ Charged(x)
    BY <1>0, <2>1, ShipmentAt, Restated, StatusNames
  <2> HIDE DEF x
  <2>4. ShipmentsInv'
    BY <1>0, <2>1, <2>2, <2>3, OneShipmentChanges
  <2>5. StockInv' /\ JobsInv'
    BY <1>0, <2>1, StockUntouched, JobEnds
  <2> QED BY <1>0, <2>1, <2>4, <2>5 DEF Inv, DeliveriesInv
<1>3. CASE Release(j)
  <2>1. job[j].at = "release" /\ s \in Shipments /\ ReleaseStock(s) /\ Go(j, "write")
        /\ UNCHANGED <<shipment, delivery, stops>>
    BY <1>0, <1>3, JobAt DEF Release
  <2>2. StockInv' /\ JobsInv'
    BY <1>0, <2>1, ReleaseStockStep, GoesOn
  <2> QED BY <1>0, <2>1, <2>2 DEF Inv, ShipmentsInv, DeliveriesInv
<1>4. CASE WriteStatus(j)
  <2> DEFINE x == [shipment[s] EXCEPT !.status = job[j].to]
             y == IF job[j].posts THEN [at |-> "post", of |-> s] ELSE Idle
  <2>1. /\ s \in Shipments /\ job[j].to \in Statuses /\ UNCHANGED <<stockVars, delivery, stops>>
        /\ \/ shipment' = [shipment EXCEPT ![s] = x] /\ job' = [job EXCEPT ![j] = y]
           \/ UNCHANGED shipment /\ End(j)
    BY <1>0, <1>4, JobAt DEF WriteStatus
  <2>2. x \in ShipmentType /\ Charged(x) /\ y \in JobType
    <3>1. x \in ShipmentType /\ Charged(x)
      BY <1>0, <2>1, ShipmentAt, Restated
    <3>2. y \in JobType
      <4> HIDE DEF s
      <4> QED BY <2>1 DEF JobType
    <3> QED BY <3>1, <3>2
  <2> HIDE DEF x, y
  <2>3. ShipmentsInv'
    <3>1. CASE shipment' = [shipment EXCEPT ![s] = x]
      BY <1>0, <2>1, <2>2, <3>1, OneShipmentChanges
    <3>2. CASE UNCHANGED shipment
      BY <1>0, <3>2 DEF ShipmentsInv
    <3> QED BY <2>1, <3>1, <3>2
  <2>4. JobsInv'
    BY <1>0, <2>1, <2>2, OneJobChanges, JobEnds
  <2>5. StockInv'
    BY <1>0, <2>1, StockUntouched
  <2> QED BY <1>0, <2>1, <2>3, <2>4, <2>5 DEF Inv, DeliveriesInv
<1>5. CASE Post(j)
  <2> DEFINE x == Posted(shipment[s])
  <2>1. job[j].at = "post" /\ s \in Shipments /\ End(j) /\ UNCHANGED <<stockVars, delivery, stops>>
        /\ (shipment' = [shipment EXCEPT ![s] = x] \/ shipment' = shipment)
    BY <1>0, <1>5, JobAt DEF Post
  <2>2. x \in ShipmentType /\ Charged(x)
    BY <1>0, <2>1, ShipmentAt, PostedFacts
  <2> HIDE DEF x
  <2>3. ShipmentsInv'
    <3>1. CASE shipment' = [shipment EXCEPT ![s] = x]
      BY <1>0, <2>1, <2>2, <3>1, OneShipmentChanges
    <3>2. CASE UNCHANGED shipment
      BY <1>0, <3>2 DEF ShipmentsInv
    <3> QED BY <2>1, <3>1, <3>2
  <2>4. StockInv' /\ JobsInv'
    BY <1>0, <2>1, StockUntouched, JobEnds
  <2> QED BY <1>0, <2>1, <2>3, <2>4 DEF Inv, DeliveriesInv
<1>6. CASE WriteDelivery(j)
  <2> DEFINE d == job[j].by
             x == [delivery[d] EXCEPT !.status = job[j].to]
             y == IF job[j].to # "delivered" THEN Idle ELSE [at |-> "deduct", of |-> s, by |-> d]
  <2>1. /\ s \in Shipments /\ d \in Deliveries /\ job[j].to \in DeliveryStatuses
        /\ UNCHANGED <<stockVars, stops>>
    BY <1>0, <1>6, JobAt DEF WriteDelivery
  <2>2. StockInv'
    BY <1>0, <2>1, StockUntouched
  <2>3. CASE delivery[d].at = "live"
    <3>1. /\ delivery' = [delivery EXCEPT ![d] = x] /\ Impose(s, job[j].to)
          /\ job' = [job EXCEPT ![j] = y]
      BY <1>6, <2>3 DEF WriteDelivery
    <3>2. delivery[d] \in DeliveryType /\ delivery[d].of \in Shipments
      BY <1>0, <2>1, <2>3 DEF DeliveriesInv
    <3>3. x \in DeliveryType /\ x.of \in Shipments
      BY <2>1, <3>2 DEF DeliveryType
    <3>4. y \in JobType
      <4> HIDE DEF s, d
      <4> QED BY <2>1 DEF JobType
    <3> HIDE DEF x, y, d, s
    <3>5. DeliveriesInv' /\ JobsInv'
      BY <1>0, <2>1, <3>1, <3>3, <3>4, OneDeliveryChanges, OneJobChanges
    <3>6. ShipmentsInv'
      BY <1>0, <2>1, <3>1, ImposeStep
    <3> QED BY <2>2, <3>5, <3>6 DEF Inv
  <2>4. CASE delivery[d].at # "live"
    <3>1. UNCHANGED <<delivery, shipment>> /\ End(j)
      BY <1>6, <2>4 DEF WriteDelivery
    <3>2. JobsInv'
      BY <1>0, <2>1, <3>1, JobEnds
    <3> QED BY <1>0, <2>2, <3>1, <3>2 DEF Inv, ShipmentsInv, DeliveriesInv
  <2> QED BY <2>3, <2>4
<1>7. CASE Deduct(j)
  <2>1. job[j].at = "deduct" /\ s \in Shipments /\ DeductStock(s) /\ Go(j, "receipt")
        /\ UNCHANGED <<shipment, delivery, stops>>
    BY <1>0, <1>7, JobAt DEF Deduct
  <2>2. StockInv' /\ JobsInv'
    BY <1>0, <2>1, DeductStockStep, GoesOn
  <2> QED BY <1>0, <2>1, <2>2 DEF Inv, ShipmentsInv, DeliveriesInv
<1>8. CASE Receipt(j)
  <2>1. job[j].by \in Deliveries /\ MakeReceipt(job[j].by) /\ End(j)
        /\ UNCHANGED <<stockVars, shipment, stops>>
    BY <1>0, <1>8, JobAt DEF Receipt
  <2>2. DeliveriesInv'
    BY <1>0, <2>1, MakeReceiptStep
  <2>3. StockInv' /\ JobsInv'
    BY <1>0, <2>1, StockUntouched, JobEnds
  <2> QED BY <1>0, <2>1, <2>2, <2>3 DEF Inv, ShipmentsInv
<1> QED BY <1>1, <1>2, <1>3, <1>4, <1>5, <1>6, <1>7, <1>8 DEF Continue

LEMMA ScreensStep ==
  ASSUME Inv, NEW j \in Jobs, ShipmentScreens(j) PROVE Inv'
<1>0. StockInv /\ ShipmentsInv /\ DeliveriesInv /\ JobsInv
  BY DEF Inv
<1>1. ASSUME NEW s \in Shipments, NEW status \in Asked, NEW lines \in BOOLEAN,
             CreateShipment(j, s, status, lines)
      PROVE  Inv'
  <2> DEFINE r == [Absent EXCEPT !.at = "live", !.status = status]
             x == IF status = "CONFIRMED" THEN Posted(r) ELSE r
             y == [at |-> "reserve", of |-> s]
  <2>1. /\ shipment' = [shipment EXCEPT ![s] = x] /\ UNCHANGED <<stockVars, delivery, stops>>
        /\ (job' = [job EXCEPT ![j] = y] \/ job' = job)
    BY <1>1 DEF CreateShipment
  <2>2. r \in ShipmentType /\ Charged(r)
    BY StatusNames DEF Absent, ShipmentType, Charged
  <2>3. x \in ShipmentType /\ Charged(x)
    <3> HIDE DEF r
    <3> QED BY <2>2, PostedFacts
  <2>4. y \in JobType
    BY DEF JobType
  <2> HIDE DEF x, y
  <2>5. ShipmentsInv' /\ StockInv'
    BY <1>0, <2>1, <2>3, OneShipmentChanges, StockUntouched
  <2>6. JobsInv'
    <3>1. CASE job' = job
      BY <1>0, <2>1, <3>1 DEF JobsInv
    <3> QED BY <1>0, <2>1, <2>4, <3>1, OneJobChanges
  <2> QED BY <1>0, <2>1, <2>5, <2>6 DEF Inv, DeliveriesInv
<1>2. ASSUME NEW x \in JobType, Begin(j, x), UNCHANGED <<stockVars, shipment, delivery, stops>>
      PROVE  Inv'
  <2>1. JobsInv' /\ StockInv'
    BY <1>0, <1>2, OneJobChanges, StockUntouched DEF Begin
  <2> QED BY <1>0, <1>2, <2>1 DEF Inv, ShipmentsInv, DeliveriesInv
<1>3. ASSUME NEW s \in Shipments, NEW to \in Asked, NEW expects \in BOOLEAN,
             BeginUpdate(j, s, to, expects)
      PROVE  Inv'
  <2> DEFINE saw == IF expects THEN shipment[s] ELSE Absent
             posts == MustPost(to) /\ to # shipment[s].status
             at == IF to = "CANCELLED" THEN "release" ELSE "write"
             x == [at |-> at, of |-> s, to |-> to, saw |-> saw, posts |-> posts]
  <2>1. Begin(j, x) /\ UNCHANGED <<stockVars, shipment, delivery, stops>>
    BY <1>3 DEF BeginUpdate
  <2>2. saw \in ShipmentType /\ posts \in BOOLEAN /\ to \in Statuses /\ at \in {"release", "write"}
    BY <1>0, ShipmentAt, StatusNames DEF Absent, ShipmentType, MustPost
  <2> HIDE DEF saw, posts, at
  <2>3. x \in JobType
    BY <2>2 DEF JobType
  <2> QED BY <1>2, <2>1, <2>3
<1>4. ASSUME NEW s \in Shipments, NEW to \in Asked, BeginTransition(j, s, to)
      PROVE  Inv'
  <2> DEFINE posts == MustPost(to)
             x == [at |-> "write", of |-> s, to |-> to, saw |-> Absent, posts |-> posts]
  <2>1. Begin(j, x) /\ UNCHANGED <<stockVars, shipment, delivery, stops>>
    BY <1>4 DEF BeginTransition
  <2>2. Absent \in ShipmentType /\ posts \in BOOLEAN /\ to \in Statuses
    BY StatusNames DEF Absent, ShipmentType, MustPost
  <2> HIDE DEF posts
  <2>3. x \in JobType
    BY <2>2 DEF JobType
  <2> QED BY <1>2, <2>1, <2>3
<1>5. ASSUME NEW s \in Shipments, Repost(j, s) PROVE Inv'
  <2> DEFINE x == [at |-> "post", of |-> s]
  <2>1. Begin(j, x) /\ UNCHANGED <<stockVars, shipment, delivery, stops>>
    BY <1>5 DEF Repost
  <2>2. x \in JobType
    BY DEF JobType
  <2> QED BY <1>2, <2>1, <2>2
<1>6. ASSUME NEW d \in Deliveries, NEW s \in Shipments, NEW status \in Outcomes,
             CreateDelivery(j, d, s, status)
      PROVE  Inv'
  <2> DEFINE x == [at |-> "live", of |-> s, status |-> status, receipt |-> "none"]
             y == [at |-> "deduct", of |-> s, by |-> d]
  <2>1. /\ delivery' = [delivery EXCEPT ![d] = x] /\ UNCHANGED <<stockVars, stops>>
        /\ \/ Impose(s, status) /\ job' = [job EXCEPT ![j] = y]
           \/ UNCHANGED <<shipment, job>>
    BY <1>6 DEF CreateDelivery
  <2>2. x \in DeliveryType /\ x.of \in Shipments /\ y \in JobType
    BY StatusNames DEF DeliveryType, JobType
  <2> HIDE DEF x, y
  <2>3. DeliveriesInv' /\ StockInv'
    BY <1>0, <2>1, <2>2, OneDeliveryChanges, StockUntouched
  <2>4. CASE Impose(s, status) /\ job' = [job EXCEPT ![j] = y]
    <3>1. ShipmentsInv' /\ JobsInv'
      BY <1>0, <2>1, <2>2, <2>4, ImposeStep, OneJobChanges, StatusNames
    <3> QED BY <2>3, <3>1 DEF Inv
  <2>5. CASE UNCHANGED <<shipment, job>>
    BY <1>0, <2>1, <2>3, <2>5 DEF Inv, ShipmentsInv, JobsInv
  <2> QED BY <2>1, <2>4, <2>5
<1>7. ASSUME NEW d \in Deliveries, NEW to \in Outcomes, BeginDelivery(j, d, to)
      PROVE  Inv'
  <2> DEFINE s == delivery[d].of
             x == [at |-> "deliver", by |-> d, of |-> s, to |-> to]
  <2>1. Begin(j, x) /\ UNCHANGED <<stockVars, shipment, delivery, stops>>
    BY <1>7 DEF BeginDelivery
  <2>2. s \in Shipments
    BY <1>0, <1>7 DEF BeginDelivery, DeliveriesInv
  <2> HIDE DEF s
  <2>3. x \in JobType
    BY <2>2, StatusNames DEF JobType
  <2> QED BY <1>2, <2>1, <2>3
<1> QED BY <1>1, <1>3, <1>4, <1>5, <1>6, <1>7 DEF ShipmentScreens

LEMMA DirectStep ==
  ASSUME Inv, Direct PROVE Inv'
<1>0. StockInv /\ ShipmentsInv /\ DeliveriesInv /\ JobsInv
  BY DEF Inv
<1>1. ASSUME NEW s \in Shipments, RemoveShipment(s) \/ ConfirmWithFinancials(s) PROVE Inv'
  <2> DEFINE x == IF RemoveShipment(s) THEN [shipment[s] EXCEPT !.at = "deleted"]
                  ELSE [Posted(shipment[s]) EXCEPT !.status = "CONFIRMED"]
  <2>1. UNCHANGED <<stockVars, delivery, job, stops>>
    BY <1>1 DEF RemoveShipment, ConfirmWithFinancials
  <2>2. shipment' = [shipment EXCEPT ![s] = x]
    <3>1. CASE RemoveShipment(s)
      BY <3>1 DEF RemoveShipment
    <3>2. CASE ~RemoveShipment(s)
      BY <1>1, <3>2 DEF ConfirmWithFinancials
    <3> QED BY <3>1, <3>2
  <2>3. x \in ShipmentType /\ Charged(x)
    <3>1. shipment[s] \in ShipmentType /\ Charged(shipment[s])
      BY <1>0, ShipmentAt
    <3>2. Posted(shipment[s]) \in ShipmentType /\ Charged(Posted(shipment[s]))
      BY <3>1, PostedFacts
    <3> QED BY <3>1, <3>2, Restated, StatusNames
  <2> HIDE DEF x
  <2>4. ShipmentsInv' /\ StockInv'
    BY <1>0, <2>1, <2>2, <2>3, OneShipmentChanges, StockUntouched
  <2> QED BY <1>0, <2>1, <2>4 DEF Inv, DeliveriesInv, JobsInv
<1>2. ASSUME NEW d \in Deliveries, RemoveDelivery(d) PROVE Inv'
  <2> DEFINE x == [delivery[d] EXCEPT !.at = "deleted"]
  <2>1. /\ delivery[d].at = "live" /\ delivery' = [delivery EXCEPT ![d] = x]
        /\ UNCHANGED <<stockVars, shipment, job, stops>>
    BY <1>2 DEF RemoveDelivery
  <2>2. x \in DeliveryType /\ x.of \in Shipments
    BY <1>0, <2>1 DEF DeliveriesInv, DeliveryType
  <2> HIDE DEF x
  <2>3. DeliveriesInv' /\ StockInv'
    BY <1>0, <2>1, <2>2, OneDeliveryChanges, StockUntouched
  <2> QED BY <1>0, <2>1, <2>3 DEF Inv, ShipmentsInv, JobsInv
<1>3. ASSUME NEW d \in Deliveries, ReceiptFromScreen(d) PROVE Inv'
  <2>1. MakeReceipt(d) /\ UNCHANGED <<stockVars, shipment, job, stops>>
    BY <1>3 DEF ReceiptFromScreen
  <2>2. DeliveriesInv' /\ StockInv'
    BY <1>0, <2>1, MakeReceiptStep, StockUntouched
  <2> QED BY <1>0, <2>1, <2>2 DEF Inv, ShipmentsInv, JobsInv
<1>4. ASSUME NEW d \in Deliveries, EnterReceipt(d) \/ CancelReceipt(d) PROVE Inv'
  <2>1. PICK status \in {"standing", "cancelled"} :
          delivery' = [delivery EXCEPT ![d].receipt = status]
    BY <1>4 DEF EnterReceipt, CancelReceipt
  <2>2. UNCHANGED <<stockVars, shipment, job, stops>>
    BY <1>4 DEF EnterReceipt, CancelReceipt
  <2>3. DeliveriesInv' /\ StockInv'
    BY <1>0, <2>1, <2>2, ReceiptChanges, StockUntouched
  <2> QED BY <1>0, <2>2, <2>3 DEF Inv, ShipmentsInv, JobsInv
<1>5. ASSUME NEW delta \in {-1, 1}, AdjustStock(delta), UNCHANGED lifeVars PROVE Inv'
  <2>1. StockInv'
    BY <1>0, <1>5, AdjustStockStep
  <2> QED BY <1>0, <1>5, <2>1 DEF Inv, lifeVars, ShipmentsInv, DeliveriesInv, JobsInv
<1> QED BY <1>1, <1>2, <1>3, <1>4, <1>5 DEF Direct

LEMMA StopStep ==
  ASSUME Inv, NEW j \in Jobs, Stop(j) PROVE Inv'
<1>1. StockInv /\ ShipmentsInv /\ DeliveriesInv /\ JobsInv /\ Idle \in JobType
  BY DEF Inv, JobType
<1>2. /\ stops < MaxStops /\ stops' = stops + 1 /\ job' = [job EXCEPT ![j] = Idle]
      /\ UNCHANGED <<stockVars, shipment, delivery>>
  BY DEF Stop, End
<1>3. stops' \in 0 .. MaxStops
  BY <1>1, <1>2, LifeAssumption DEF JobsInv
<1>4. JobsInv'
  BY <1>1, <1>2, <1>3 DEF JobsInv
<1> QED BY <1>1, <1>2, <1>4, StockUntouched DEF Inv, ShipmentsInv, DeliveriesInv

LEMMA NextStep == Inv /\ [Next]_vars => Inv'
<1> SUFFICES ASSUME Inv, [Next]_vars PROVE Inv'
  OBVIOUS
<1>1. CASE UNCHANGED vars
  <2>1. StockInv'
    BY <1>1, StockUntouched DEF Inv, vars
  <2> QED BY <1>1, <2>1 DEF Inv, vars, lifeVars, ShipmentsInv, DeliveriesInv, JobsInv
<1> QED BY <1>1, DirectStep, ScreensStep, ContinueStep, StopStep DEF Next

LEMMA InitInv == Init => Inv
<1> SUFFICES ASSUME Init PROVE Inv
  OBVIOUS
<1>1. /\ onHand = Opening /\ reserved = 0 /\ adjusted = 0 /\ stops = 0
      /\ moves = [s \in Shipments |-> [reserved |-> 0, released |-> 0, deducted |-> 0]]
      /\ shipment = [s \in Shipments |-> Absent] /\ delivery = [d \in Deliveries |-> Unwritten]
      /\ job = [j \in Jobs |-> Idle]
  BY DEF Init, StockInit
<1>2. Owners = {} /\ Takers = {}
  BY <1>1 DEF Owners, Takers, Outstanding
<1>3. StockTypeOK
  BY <1>1, StockAssumption DEF StockTypeOK, Moves
<1>4. reserved <= Sum(Wants, Owners) /\ onHand + Sum(Wants, Takers) >= Opening + adjusted
  BY <1>1, <1>2, SumEmpty, StockAssumption
<1>5. StockInv
  BY <1>1, <1>3, <1>4 DEF StockInv, ReservedIsOwned, NothingVanishes, Owners, Takers
<1>6. ShipmentsInv /\ DeliveriesInv
  BY <1>1, StatusNames
     DEF ShipmentsInv, DeliveriesInv, Absent, Unwritten, ShipmentType, DeliveryType, Charged,
         DeliveryStatuses
<1>7. JobsInv
  BY <1>1, LifeAssumption DEF JobsInv, JobType
<1> QED BY <1>5, <1>6, <1>7 DEF Inv

-----------------------------------------------------------------------------
(* The inductive invariant.                                                  *)
THEOREM LifeInvariant == Spec => []Inv
BY InitInv, NextStep, PTL DEF Spec

(* Every variable keeps its type; in particular the two checks of item_stock *)
(* never refuse what a shipment does: nothing is negative and no more is     *)
(* reserved than is on hand.                                                 *)
THEOREM LifeTypes == Spec => []LifeTypeOK
<1>1. Inv => LifeTypeOK
  BY DEF Inv, StockInv, ShipmentsInv, DeliveriesInv, JobsInv, LifeTypeOK, ShipmentType, DeliveryType
<1> QED BY LifeInvariant, <1>1, PTL

(* The account of a shipment is charged once, by confirmation, delivery,     *)
(* transition or repost (postShipmentConfirmationFinancials).                *)
THEOREM ChargesOnce == Spec => []ChargedOnce
<1>1. Inv => ChargedOnce
  BY DEF Inv, ShipmentsInv, Charged, ChargedOnce
<1> QED BY LifeInvariant, <1>1, PTL

(* What item_stock holds back is covered by reservations neither released    *)
(* nor deducted (reserveStock, releaseStock, deductStock).                   *)
THEOREM ReservationsCover == Spec => []ReservedIsOwned
<1>1. Inv => ReservedIsOwned
  BY DEF Inv, StockInv
<1> QED BY LifeInvariant, <1>1, PTL

(* What was there at first and what adjustments added is on hand or was      *)
(* deducted by a delivery (deductStock, adjustStock).                        *)
THEOREM GoodsAreAccounted == Spec => []NothingVanishes
<1>1. Inv => NothingVanishes
  BY DEF Inv, StockInv
<1> QED BY LifeInvariant, <1>1, PTL
=============================================================================
