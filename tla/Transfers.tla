----------------------------- MODULE Transfers ------------------------------
(* Money transfers: collected at the origin, paid out at the destination,    *)
(* and the vouchers each step leaves; and the settlements agents ask for in  *)
(* their portal.  A step locks the transfer, so it is one action.            *)
EXTENDS Vouchers

CONSTANT Transfers  \* transfers, by id

VARIABLE transfer  \* transfer[t]: the transfer and its vouchers

vars == <<voucherVars, transfer>>

Statuses == {"PENDING", "COMPLETED", "CANCELLED"}

(* linked: of a shipment.  bypassed: it is cancelled without cancelTransfer, *)
(* created so or deleted, or its status was set directly after it had ended  *)
(* (history).                                                                *)
TransferType ==
  [status: {"none"} \cup Statuses, linked: BOOLEAN,
   collected: Vouchers \cup {NoVoucher}, payout: Vouchers \cup {NoVoucher},
   bypassed: BOOLEAN]

Unmade == [status |-> "none", linked |-> FALSE, collected |-> NoVoucher,
           payout |-> NoVoucher, bypassed |-> FALSE]

Init == VouchersInit /\ transfer = [t \in Transfers |-> Unmade]

Waiting(t) == transfer[t].status \notin {"none", "COMPLETED", "CANCELLED"}

(* A confirmed voucher of the transaction, and its money.                    *)
Issue(kind) ==
  /\ Fresh # {}
  /\ voucher' = [voucher EXCEPT ![NextVoucher] = New(kind, Unit)]
  /\ Move(Standing(New(kind, Unit)))
  /\ UNCHANGED <<job, outdated, drift>>

-----------------------------------------------------------------------------
(* create: the screen may name any status, and nothing is done for it.       *)
Created(status, linked) ==
  [Unmade EXCEPT !.status = status, !.linked = linked, !.bypassed = (status = "CANCELLED")]

(* ensureShipmentLinkedTransfer, pending, on confirmation of a shipment; and *)
(* the screen, with a shipment and no cashbox: nothing is collected.         *)
CreateLinked(t, status) ==
  /\ transfer[t].status = "none"
  /\ transfer' = [transfer EXCEPT ![t] = Created(status, TRUE)]
  /\ UNCHANGED voucherVars

(* createTransferAndCollect, of the office, with a shipment or without, and  *)
(* of the portal: the money is collected whatever the status.                *)
CreateAndCollect(t, status, linked) ==
  /\ transfer[t].status = "none"
  /\ Issue("receipt")
  /\ transfer' = [transfer EXCEPT ![t] =
       [Created(status, linked) EXCEPT !.collected = NextVoucher]]

Completable(x) ==
  /\ x.status \notin {"none", "CANCELLED", "COMPLETED"}
  /\ x.linked \/ x.collected # NoVoucher

(* completeTransfer: markCompleted takes the new payout voucher.             *)
CompleteTransfer(t) ==
  /\ Completable(transfer[t])
  /\ Issue("payment")
  /\ transfer' = [transfer EXCEPT ![t].status = "COMPLETED", ![t].payout = NextVoucher]

(* Which vouchers a cancellation takes back.  Faulty variant: the collection *)
(* only while nothing is paid out.                                           *)
TakenBackOne(x) == {IF x.status = "COMPLETED" THEN x.payout ELSE x.collected} \ {NoVoucher}

TakenBack(x) ==
  ({x.collected} \cup (IF x.status = "COMPLETED" THEN {x.payout} ELSE {})) \ {NoVoucher}

CancelTransfer(t) ==
  /\ transfer[t].status \notin {"none", "CANCELLED"}
  /\ CancelLocked(TakenBack(transfer[t]))
  /\ transfer' = [transfer EXCEPT ![t].status = "CANCELLED"]

(* deleteTransfer: cancelled in name, its vouchers stay.                     *)
DeleteTransfer(t) ==
  /\ Waiting(t)
  /\ transfer' = [transfer EXCEPT ![t].status = "CANCELLED", ![t].bypassed = TRUE]
  /\ UNCHANGED voucherVars

(* PUT status, which refuses COMPLETED and CANCELLED as the new status but   *)
(* not as the old one.                                                       *)
PutStatus(t) ==
  /\ transfer[t].status \in {"COMPLETED", "CANCELLED"}
  /\ transfer' = [transfer EXCEPT ![t].status = "PENDING", ![t].bypassed = TRUE]
  /\ UNCHANGED voucherVars

-----------------------------------------------------------------------------
(* createDraftRequest: a draft payment that asks for a settlement.           *)
AskSettlement(amount) ==
  /\ Fresh # {}
  /\ voucher' = [voucher EXCEPT ![NextVoucher] =
       [Blank EXCEPT !.kind = "payment", !.amount = amount, !.status = "draft", !.settlement = TRUE]]
  /\ UNCHANGED <<balance, job, outdated, drift, transfer>>

(* confirmDraftPaymentVoucher: the draft is read first, without a lock, with *)
(* its amount.                                                               *)
BeginSettle(j, v) ==
  /\ job[j] = Idle /\ voucher[v].settlement /\ voucher[v].status = "draft"
  /\ job' = [job EXCEPT ![j] = [at |-> "settle", of |-> v, amount |-> voucher[v].amount]]
  /\ UNCHANGED <<voucher, balance, outdated, drift, transfer>>

(* update ... where status = 'draft'.  Faulty variant: by id alone.          *)
SettleableAlways(v) == voucher[v].settlement

Settleable(v) == voucher[v].status = "draft"

(* The payment and its receipt, in one transaction; a draft that is none any *)
(* more is refused.                                                          *)
Settle(j) ==
  LET v == job[j].of
      receipt == [New("receipt", job[j].amount) EXCEPT !.mate = v]
  IN
  /\ job[j].at = "settle"
  /\ IF Settleable(v)
     THEN /\ Fresh # {}
          /\ voucher' = [voucher EXCEPT ![v] = Confirm(@), ![NextVoucher] = receipt]
          /\ Move(ConfirmDelta(voucher[v]) + ConfirmDelta(receipt))
          /\ drift' = (drift \/ v \in outdated)
     ELSE UNCHANGED <<voucher, balance, drift>>
  /\ job' = [job EXCEPT ![j] = Idle]
  /\ UNCHANGED <<outdated, transfer>>

-----------------------------------------------------------------------------
(* What the finance screens ask for: a status, or another amount.            *)
Requests ==
  {[to |-> to, amount |-> 0] : to \in {"confirmed", "cancelled"}}
    \cup {[to |-> "same", amount |-> a] : a \in Amounts \ {Unit}}

FinanceScreens ==
  \/ \E kind \in {"receipt", "payment"}, c \in BOOLEAN : CreateVoucher(kind, Unit, c)
  \/ \E j \in Jobs, v \in Vouchers, r \in Requests : BeginUpdate(j, v, r.to, r.amount)
  \/ \E j \in Jobs : WriteVoucher(j) \/ BeginReconcile(j) \/ Reconcile(j)
  \/ \E j \in Jobs \cup Approvals : Stop(j)

TransferScreens ==
  \E t \in Transfers :
    \/ \E status \in Statuses :
         \/ CreateLinked(t, status)
         \/ \E linked \in BOOLEAN : CreateAndCollect(t, status, linked)
    \/ CompleteTransfer(t) \/ CancelTransfer(t) \/ DeleteTransfer(t) \/ PutStatus(t)

Portal ==
  \/ AskSettlement(Unit)
  \/ \E j \in Approvals : Settle(j) \/ \E v \in Vouchers : BeginSettle(j, v)

Next ==
  \/ FinanceScreens /\ UNCHANGED transfer
  \/ TransferScreens
  \/ Portal

Spec == Init /\ [][Next]_vars

-----------------------------------------------------------------------------
MoneyTypeOK == VouchersTypeOK /\ transfer \in [Transfers -> TransferType]

(* Receipt voucher: on confirmation a cashbox inflow, on cancellation        *)
(* reversal entries.  Unless a handler wrote it on a reading that no longer  *)
(* held, a voucher is confirmed exactly when one entry of it stands, however *)
(* finance screens, transfers and settlements meet on it                     *)
(* (updateReceiptVoucher, cancelTransfer).                                   *)
StatusFollowsEntries ==
  \A v \in Vouchers \ outdated :
    (voucher[v].status = "confirmed") <=> (Standing(voucher[v]) # 0)

(* The running balance of the cashbox is the sum of its entries, unless a    *)
(* handler wrote on a reading that no longer held since the last             *)
(* reconciliation; edits of the amount of a confirmed voucher, reversals and *)
(* whole transfers keep it (applyCashboxBalanceDelta).                       *)
BalanceIsTrue == ~drift => balance = Entries

(* A transfer that cancelTransfer cancelled left no money behind, in either  *)
(* direction: not the collection, not the payout, whatever status it was     *)
(* created with and whoever else worked on its vouchers.  Transfers created  *)
(* cancelled or deleted keep their money; they, statuses set directly and    *)
(* outdated writes of the vouchers are excepted (cancelTransfer).            *)
CancelledTransfersAreCleared ==
  \A t \in Transfers :
    LET x == transfer[t] IN
    x.status = "CANCELLED" /\ ~x.bypassed =>
      \A v \in {x.collected, x.payout} \ ({NoVoucher} \cup outdated) : Standing(voucher[v]) = 0

(* The voucher of a payout is never left behind by a second one: what a      *)
(* transfer paid is found through it, and taken back through it              *)
(* (completeTransfer, under the lock of the transfer).                       *)
PaidOutOnce ==
  [][\A t \in Transfers :
       transfer'[t].payout # transfer[t].payout =>
         \/ transfer[t].payout = NoVoucher
         \/ transfer[t].bypassed]_vars

(* A settlement moves money on both sides or on neither: it gets its receipt *)
(* in the step that confirms the draft, although two clerks may approve it   *)
(* at once, or one refuse it meanwhile (confirmDraftPaymentVoucher).         *)
SettledOnBothSides ==
  [][\A v \in Vouchers :
       voucher[v].settlement =>
         ((\E w \in Vouchers : voucher'[w].mate = v /\ voucher[w].mate # v)
            <=> (voucher[v].status = "draft" /\ voucher'[v].status = "confirmed"))]_vars

(* "لا يمكن تسليم حوالة مستقلة قبل تسجيل قبضها من المصدر" (completeTransfer):   *)
(* an independent transfer is paid out only while its collection stands.     *)
PayoutsAreCovered ==
  [][\A t \in Transfers :
       transfer[t].status \notin {"none", "COMPLETED"} /\ transfer'[t].status = "COMPLETED"
         /\ ~transfer[t].linked
       => Standing(voucher[transfer[t].collected]) # 0]_vars
=============================================================================
