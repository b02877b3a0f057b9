---------------------------- MODULE ShipmentLife ----------------------------
(* Shipments from their entry to their end: status, charge, stock, delivery. *)
(* A handler is a chain of transactions (a job); what it checked it read     *)
(* before, without a lock.                                                   *)
EXTENDS Stock

CONSTANTS
  Jobs,        \* handlers that run at once
  Deliveries,  \* deliveries, by id
  Asked,       \* bound: the statuses the screens ask for
  Outcomes,    \* bound: the statuses they give deliveries
  NoShipment,
  MaxStops     \* bound: handlers cut off by an error or a crash

ASSUME LifeAssumption == NoShipment \notin Shipments /\ MaxStops \in Nat

VARIABLES
  shipment,  \* shipment[s]: its status, financial status and charges
  delivery,  \* delivery[d]: the shipment, the status and the receipt voucher
  job,       \* job[j]: the handler's place and what it remembers
  stops      \* the handlers cut off so far

lifeVars == <<shipment, delivery, job, stops>>
vars == <<stockVars, lifeVars>>

(* SHIPMENT_TRANSITIONS.                                                     *)
Returnable == {"CONFIRMED", "READY_FOR_PICKUP", "HANDED_TO_DRIVER", "HANDED_TO_AGENT",
  "AGENT_RECEIVED", "IN_TRANSIT", "ARRIVED_AT_DESTINATION", "OUT_FOR_DELIVERY", "DELIVERED"}
Cancellable == {"DRAFT", "REGISTERED", "CONFIRMED", "READY_FOR_PICKUP"}
Terminal == {"CANCELLED", "FINANCIALLY_CLOSED"}
Statuses == Returnable \cup Cancellable \cup Terminal \cup {"RETURN_REQUESTED", "RETURNED"}

CanTransition(from, to) ==
  \/ from = to
  \/ from \in Returnable /\ to = "RETURN_REQUESTED"
  \/ from \in Cancellable /\ to = "CANCELLED"
  \/ <<from, to>> \in {<<"DRAFT", "REGISTERED">>, <<"REGISTERED", "CONFIRMED">>,
       <<"CONFIRMED", "READY_FOR_PICKUP">>, <<"HANDED_TO_AGENT", "AGENT_RECEIVED">>,
       <<"OUT_FOR_DELIVERY", "DELIVERED">>, <<"RETURN_REQUESTED", "RETURNED">>}
  \/ from \in {"CONFIRMED", "READY_FOR_PICKUP"} /\ to \in {"HANDED_TO_DRIVER", "HANDED_TO_AGENT"}
  \/ from \in {"HANDED_TO_DRIVER", "AGENT_RECEIVED"}
       /\ to \in {"IN_TRANSIT", "ARRIVED_AT_DESTINATION"}
  \/ from = "IN_TRANSIT" /\ to = "ARRIVED_AT_DESTINATION"
  \/ from = "ARRIVED_AT_DESTINATION" /\ to \in {"OUT_FOR_DELIVERY", "DELIVERED"}
  \/ from \in {"DELIVERED", "RETURNED"} /\ to = "FINANCIALLY_CLOSED"

DeliveryStatuses == {"pending", "delivered", "failed", "returned"}

ASSUME AskedAssumption == Asked \subseteq Statuses /\ Outcomes \subseteq DeliveryStatuses

CanDeliver(from, to) ==
  from = to \/ <<from, to>> \in {<<"pending", "delivered">>, <<"pending", "failed">>,
    <<"pending", "returned">>, <<"failed", "pending">>, <<"failed", "returned">>}

Absent == [at |-> "none", status |-> "DRAFT", fin |-> "UNPOSTED", charges |-> 0]
Unwritten == [at |-> "none", of |-> NoShipment, status |-> "pending", receipt |-> "none"]
Idle == [at |-> "idle"]

Init ==
  /\ StockInit
  /\ shipment = [s \in Shipments |-> Absent]
  /\ delivery = [d \in Deliveries |-> Unwritten]
  /\ job = [j \in Jobs |-> Idle]
  /\ stops = 0

Live(s) == shipment[s].at = "live"

Begin(j, record) == job[j] = Idle /\ job' = [job EXCEPT ![j] = record]
Go(j, step) == job' = [job EXCEPT ![j].at = step]
End(j) == job' = [job EXCEPT ![j] = Idle]

-----------------------------------------------------------------------------
(* postShipmentConfirmationFinancials, with the shipment locked.  Faulty     *)
(* variant: it does not look at the financial status.                        *)
PostedAgain(record) == [record EXCEPT !.fin = "POSTED", !.charges = @ + 1]

Posted(record) ==
  IF record.fin = "POSTED" THEN record
  ELSE [record EXCEPT !.fin = "POSTED", !.charges = @ + 1]

(* create: the shipment, charged in the same transaction if it is confirmed; *)
(* then its lines are reserved.                                              *)
CreateShipment(j, s, status, lines) ==
  LET record == [Absent EXCEPT !.at = "live", !.status = status] IN
  /\ shipment[s].at = "none"
  /\ shipment' = [shipment EXCEPT ![s] = IF status = "CONFIRMED" THEN Posted(record) ELSE record]
  /\ job[j] = Idle
  /\ IF lines THEN job' = [job EXCEPT ![j] = [at |-> "reserve", of |-> s]] ELSE UNCHANGED job
  /\ UNCHANGED <<stockVars, delivery, stops>>

Reserve(j) ==
  LET s == job[j].of IN
  /\ job[j].at = "reserve"
  /\ \/ ReserveStock(s) /\ End(j)
     \/ ~Available(s) /\ Go(j, "unwind") /\ UNCHANGED stockVars
  /\ UNCHANGED <<shipment, delivery, stops>>

(* Without stock there is no shipment; its charge stays.                     *)
Unwind(j) ==
  /\ job[j].at = "unwind"
  /\ shipment' = [shipment EXCEPT ![job[j].of].at = "deleted"]
  /\ End(j)
  /\ UNCHANGED <<stockVars, delivery, stops>>

RemoveShipment(s) ==
  /\ Live(s)
  /\ shipment' = [shipment EXCEPT ![s].at = "deleted"]
  /\ UNCHANGED <<stockVars, delivery, job, stops>>

-----------------------------------------------------------------------------
(* Which statuses have the shipment charged.  Faulty variant: the last one.  *)
MustPostDelivered(to) == to = "DELIVERED"

MustPost(to) == to \in {"DELIVERED", "CONFIRMED"}

(* update: the transition is checked against what was read; a cancellation   *)
(* releases the stock before the row is written.  expects: the screen sent   *)
(* the time stamp of what it had read.                                       *)
BeginUpdate(j, s, to, expects) ==
  /\ Live(s) /\ shipment[s].status \notin Terminal
  /\ CanTransition(shipment[s].status, to)
  /\ Begin(j, [at |-> IF to = "CANCELLED" THEN "release" ELSE "write", of |-> s, to |-> to,
               saw |-> IF expects THEN shipment[s] ELSE Absent,
               posts |-> MustPost(to) /\ to # shipment[s].status])
  /\ UNCHANGED <<stockVars, shipment, delivery, stops>>

Release(j) ==
  /\ job[j].at = "release" /\ ReleaseStock(job[j].of)
  /\ Go(j, "write")
  /\ UNCHANGED <<shipment, delivery, stops>>

(* transitionStatus, the action buttons of a shipment: nothing of the stock. *)
BeginTransition(j, s, to) ==
  /\ Live(s)
  /\ shipment[s].status \in Terminal => to = shipment[s].status
  /\ CanTransition(shipment[s].status, to)
  /\ Begin(j, [at |-> "write", of |-> s, to |-> to, saw |-> Absent,
               posts |-> MustPost(to)])
  /\ UNCHANGED <<stockVars, shipment, delivery, stops>>

(* The write does not check again.  A row that changed since the screen read *)
(* it refuses an update that says so, even before this handler read it.      *)
WriteStatus(j) ==
  LET s == job[j].of
      expects == job[j].saw # Absent
  IN
  /\ job[j].at = "write"
  /\ \/ /\ Live(s) /\ (expects => shipment[s] = job[j].saw)
        /\ shipment' = [shipment EXCEPT ![s].status = job[j].to]
        /\ job' = [job EXCEPT ![j] = IF job[j].posts THEN [at |-> "post", of |-> s] ELSE Idle]
     \/ (~Live(s) \/ expects) /\ UNCHANGED shipment /\ End(j)
  /\ UNCHANGED <<stockVars, delivery, stops>>

(* ensurePostedFromLifecycle.                                                *)
Post(j) ==
  LET s == job[j].of IN
  /\ job[j].at = "post"
  /\ shipment' = IF Live(s) THEN [shipment EXCEPT ![s] = Posted(@)] ELSE shipment
  /\ End(j)
  /\ UNCHANGED <<stockVars, delivery, stops>>

(* confirmWithFinancials: check, charge and status in one transaction; a     *)
(* shipment that is posted already is refused.                               *)
ConfirmWithFinancials(s) ==
  /\ Live(s) /\ CanTransition(shipment[s].status, "CONFIRMED") /\ shipment[s].fin # "POSTED"
  /\ shipment' = [shipment EXCEPT ![s] = [Posted(@) EXCEPT !.status = "CONFIRMED"]]
  /\ UNCHANGED <<stockVars, delivery, job, stops>>

(* repostFinancials, of a shipment on its way.                               *)
Repost(j, s) ==
  /\ Live(s) /\ shipment[s].status \in Returnable /\ shipment[s].fin # "POSTED"
  /\ Begin(j, [at |-> "post", of |-> s])
  /\ UNCHANGED <<stockVars, shipment, delivery, stops>>

-----------------------------------------------------------------------------
(* What a delivery makes of its shipment, whatever the status of that is.    *)
Imposed(status) ==
  CASE status = "delivered" -> {"DELIVERED"}
    [] status = "returned" -> {"RETURNED"}
    [] status = "failed" -> {"RETURN_REQUESTED"}
    [] OTHER -> {}

Impose(s, status) ==
  shipment' = IF Live(s) /\ Imposed(status) # {}
              THEN [shipment EXCEPT ![s].status = CHOOSE to \in Imposed(status) : TRUE]
              ELSE shipment

(* One delivery of a shipment that is not deleted (ux_deliveries_active_     *)
(* shipment); one entered as failed or returned imposes nothing.             *)
CreateDelivery(j, d, s, status) ==
  /\ job[j] = Idle /\ delivery[d].at = "none" /\ shipment[s].at # "none"
  /\ \A e \in Deliveries : delivery[e].at = "live" => delivery[e].of # s
  /\ delivery' = [delivery EXCEPT ![d] = [at |-> "live", of |-> s, status |-> status, receipt |-> "none"]]
  /\ IF status = "delivered"
     THEN /\ Impose(s, status)
          /\ job' = [job EXCEPT ![j] = [at |-> "deduct", of |-> s, by |-> d]]
     ELSE UNCHANGED <<shipment, job>>
  /\ UNCHANGED <<stockVars, stops>>

(* update of a delivery, checked against what was read.                      *)
BeginDelivery(j, d, to) ==
  /\ delivery[d].at = "live" /\ CanDeliver(delivery[d].status, to)
  /\ Begin(j, [at |-> "deliver", by |-> d, of |-> delivery[d].of, to |-> to])
  /\ UNCHANGED <<stockVars, shipment, delivery, stops>>

WriteDelivery(j) ==
  LET d == job[j].by IN
  /\ job[j].at = "deliver"
  /\ IF delivery[d].at = "live"
     THEN /\ delivery' = [delivery EXCEPT ![d].status = job[j].to]
          /\ Impose(job[j].of, job[j].to)
          /\ job' = [job EXCEPT ![j] = IF @.to # "delivered" THEN Idle
                                       ELSE [at |-> "deduct", of |-> @.of, by |-> d]]
     ELSE UNCHANGED <<delivery, shipment>> /\ End(j)
  /\ UNCHANGED <<stockVars, stops>>

RemoveDelivery(d) ==
  /\ delivery[d].at = "live"
  /\ delivery' = [delivery EXCEPT ![d].at = "deleted"]
  /\ UNCHANGED <<stockVars, shipment, job, stops>>

(* _handleDeliveredPostProcessing: the stock, then the receipt.              *)
Deduct(j) ==
  /\ job[j].at = "deduct" /\ DeductStock(job[j].of)
  /\ Go(j, "receipt")
  /\ UNCHANGED <<shipment, delivery, stops>>

(* autoGenerateReceiptFromDelivery, with the delivery locked, looks for a    *)
(* receipt that is not cancelled.  Faulty variant: only for goods taken off  *)
(* the stock.                                                                *)
ReceiptDueForStock(d) ==
  /\ delivery[d].status = "delivered" /\ delivery[d].receipt # "standing"
  /\ moves[delivery[d].of].deducted = 1

ReceiptDue(d) == delivery[d].status = "delivered" /\ delivery[d].receipt # "standing"

(* receipt_vouchers.delivery_id is unique: after a cancelled receipt the     *)
(* insert fails, and the delivery is delivered all the same.                 *)
MakeReceipt(d) ==
  delivery' = IF ReceiptDue(d) /\ delivery[d].receipt = "none"
              THEN [delivery EXCEPT ![d].receipt = "standing"] ELSE delivery

Receipt(j) ==
  /\ job[j].at = "receipt" /\ MakeReceipt(job[j].by)
  /\ End(j)
  /\ UNCHANGED <<stockVars, shipment, stops>>

(* The finance screen: the receipt asked for with the button, one entered by *)
(* hand for whatever delivery, and its cancellation.                         *)
ReceiptFromScreen(d) ==
  /\ delivery[d].at # "none" /\ MakeReceipt(d)
  /\ UNCHANGED <<stockVars, shipment, job, stops>>

EnterReceipt(d) ==
  /\ delivery[d].at # "none" /\ delivery[d].receipt = "none"
  /\ \E status \in {"standing", "cancelled"} :
       delivery' = [delivery EXCEPT ![d].receipt = status]
  /\ UNCHANGED <<stockVars, shipment, job, stops>>

CancelReceipt(d) ==
  /\ delivery[d].receipt = "standing"
  /\ delivery' = [delivery EXCEPT ![d].receipt = "cancelled"]
  /\ UNCHANGED <<stockVars, shipment, job, stops>>

-----------------------------------------------------------------------------
(* An error or a crash between two transactions.                             *)
Stop(j) ==
  /\ job[j] # Idle /\ stops < MaxStops
  /\ stops' = stops + 1
  /\ End(j)
  /\ UNCHANGED <<stockVars, shipment, delivery>>

Continue(j) ==
  \/ Reserve(j) \/ Unwind(j) \/ Release(j) \/ WriteStatus(j) \/ Post(j)
  \/ WriteDelivery(j) \/ Deduct(j) \/ Receipt(j)

ShipmentScreens(j) ==
  \/ \E s \in Shipments :
       \/ \E status \in Asked, lines \in BOOLEAN : CreateShipment(j, s, status, lines)
       \/ \E to \in Asked, expects \in BOOLEAN : BeginUpdate(j, s, to, expects)
       \/ \E to \in Asked : BeginTransition(j, s, to)
       \/ Repost(j, s)
  \/ \E d \in Deliveries :
       \/ \E s \in Shipments, status \in Outcomes : CreateDelivery(j, d, s, status)
       \/ \E to \in Outcomes : BeginDelivery(j, d, to)

Direct ==
  \/ \E s \in Shipments : RemoveShipment(s) \/ ConfirmWithFinancials(s)
  \/ \E d \in Deliveries : RemoveDelivery(d) \/ ReceiptFromScreen(d) \/ EnterReceipt(d) \/ CancelReceipt(d)
  \/ \E delta \in {-1, 1} : AdjustStock(delta) /\ UNCHANGED lifeVars

Next == Direct \/ \E j \in Jobs : ShipmentScreens(j) \/ Continue(j) \/ Stop(j)

(* A handler that is not cut off goes on.                                    *)
Spec == Init /\ [][Next]_vars /\ \A j \in Jobs : WF_vars(Continue(j))

-----------------------------------------------------------------------------
LifeTypeOK ==
  /\ StockTypeOK
  /\ shipment \in [Shipments -> [at: {"none", "live", "deleted"}, status: Statuses,
                                 fin: {"UNPOSTED", "POSTED"}, charges: Nat]]
  /\ delivery \in [Deliveries -> [at: {"none", "live", "deleted"}, of: Shipments \cup {NoShipment},
                                  status: DeliveryStatuses,
                                  receipt: {"none", "standing", "cancelled"}]]
  /\ stops \in 0 .. MaxStops

(* The account of a shipment is charged once, and exactly when its financial *)
(* status says so, however confirmation, delivery, transition and repost     *)
(* meet (postShipmentConfirmationFinancials, ensurePostedFromLifecycle).     *)
ChargedOnce ==
  \A s \in Shipments : shipment[s].charges = IF shipment[s].fin = "POSTED" THEN 1 ELSE 0

(* A shipment that is confirmed is charged in the end: the status is         *)
(* committed before ensurePostedFromLifecycle runs, so unless a handler is   *)
(* cut off or the shipment deleted in between.                               *)
ConfirmedIsCharged ==
  \A s \in Shipments :
    (shipment[s].status = "CONFIRMED" /\ Live(s))
      ~> (shipment[s].fin = "POSTED" \/ ~Live(s) \/ stops > 0)

(* A delivery that is delivered gets its receipt in the end: the status is   *)
(* committed before the stock is deducted and the receipt is made, so unless *)
(* a handler is cut off or another one takes the status back; whether it is  *)
(* delivered when it is entered or later, and has stock to deduct or not     *)
(* (_handleDeliveredPostProcessing, autoGenerateReceiptFromDelivery).        *)
DeliveredIsReceipted ==
  \A d \in Deliveries :
    delivery[d].status = "delivered"
      ~> (delivery[d].receipt # "none" \/ delivery[d].status # "delivered" \/ stops > 0)

(* "guaranteeing that finance posting cannot succeed without a successful    *)
(* inventory deduction" (_handleDeliveredPostProcessing): a receipt is made  *)
(* for a delivery whose goods, if any were reserved, have left the stock.    *)
ReceiptsFollowDeductions ==
  [][\A d \in Deliveries : MakeReceipt(d) /\ delivery'[d] # delivery[d] =>
       LET s == delivery[d].of IN moves[s].reserved = 1 => moves[s].deducted = 1]_vars

(* The refusal of transitionStatus: a shipment in a terminal status is not   *)
(* changed any more.                                                         *)
TerminalStays ==
  [][\A s \in Shipments : shipment[s].status \in Terminal =>
       shipment'[s].status = shipment[s].status]_vars
=============================================================================
