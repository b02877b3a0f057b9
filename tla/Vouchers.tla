------------------------------ MODULE Vouchers ------------------------------
(* Receipt and payment vouchers, the entries they leave in a cashbox and the *)
(* running balance of that cashbox.  The finance screens read a voucher      *)
(* without a lock and write it in a transaction of their own; what happens   *)
(* in between they do not see.                                               *)
EXTENDS FiniteSums

CONSTANTS
  MaxVouchers,  \* bound: vouchers created
  Jobs,         \* handlers of the finance screens that run at once
  Approvals,    \* approvals of settlements that run at once
  Amounts,      \* bound: the amounts entered
  MaxBalance    \* bound: how far the balance may go astray

ASSUME VouchersAssumption ==
  /\ MaxVouchers \in Nat /\ MaxBalance \in Nat
  /\ Amounts \subseteq Nat \ {0} /\ Amounts # {}

Vouchers == 1 .. MaxVouchers
NoVoucher == 0

VARIABLES
  voucher,   \* voucher[v]: the voucher and its entries in cashbox_transactions
  balance,   \* cashboxes.current_balance
  job,       \* job[j]: the handler's place and what it has read
  outdated,  \* history: vouchers written on a reading that no longer held
  drift      \* history: such a write since the last reconciliation

voucherVars == <<voucher, balance, job, outdated, drift>>

(* entry: the amount of its entry that is not a reversal, 0 before there is  *)
(* one.  settlement: a voucher asked for in the agent portal; mate: on the   *)
(* receipt made with one, that voucher.                                      *)
VoucherType ==
  [kind: {"receipt", "payment"}, status: {"none", "draft", "confirmed", "cancelled"},
   amount: Amounts \cup {0}, entry: Amounts \cup {0}, reversed: BOOLEAN,
   settlement: BOOLEAN, mate: Vouchers \cup {NoVoucher}]

Blank == [kind |-> "receipt", status |-> "none", amount |-> 0, entry |-> 0,
          reversed |-> FALSE, settlement |-> FALSE, mate |-> NoVoucher]

Idle == [at |-> "idle"]

VouchersInit ==
  /\ voucher = [v \in Vouchers |-> Blank] /\ balance = 0
  /\ job = [j \in Jobs \cup Approvals |-> Idle]
  /\ outdated = {} /\ drift = FALSE

VouchersTypeOK ==
  /\ voucher \in [Vouchers -> VoucherType] /\ balance \in -MaxBalance .. MaxBalance
  /\ \A j \in Jobs \cup Approvals : job[j].at \in {"idle", "read", "settle", "sum"}
  /\ outdated \subseteq Vouchers /\ drift \in BOOLEAN

Sign(x) == IF x.kind = "receipt" THEN 1 ELSE -1

(* What the two entries of a voucher come to.                                *)
Standing(x) == IF x.entry > 0 /\ ~x.reversed THEN Sign(x) * x.entry ELSE 0

Entries == Sum([v \in Vouchers |-> Standing(voucher[v])], Vouchers)

(* cashbox_transactions only grows.                                          *)
Written == {v \in Vouchers : voucher[v].entry > 0}
EntryCount == Cardinality(Written) + Cardinality({v \in Written : voucher[v].reversed})

-----------------------------------------------------------------------------
(* insertCashboxAndMovementFor...: one original entry to a voucher, but the  *)
(* balance moves in any case.                                                *)
Confirm(x) ==
  [x EXCEPT !.status = "confirmed", !.entry = IF x.entry = 0 THEN x.amount ELSE x.entry]
ConfirmDelta(x) == Sign(x) * x.amount

(* createVoucherReversalEntries: the entry is reversed, for the amount it    *)
(* was made for.  Faulty variants: for the amount of the voucher now; by     *)
(* turning the entry itself round.                                           *)
CancelDeltaNow(x) == IF x.entry = 0 THEN 0 ELSE -Sign(x) * x.amount
CancelInPlace(x) == [x EXCEPT !.status = "cancelled", !.entry = -@]

Cancel(x) == [x EXCEPT !.status = "cancelled", !.reversed = x.entry > 0]
CancelDelta(x) == IF x.entry = 0 THEN 0 ELSE -Sign(x) * x.entry

Move(delta) == balance' = balance + delta /\ balance' \in -MaxBalance .. MaxBalance

Unit == CHOOSE a \in Amounts : \A b \in Amounts : a <= b

(* The vouchers not made yet, the next one, and a confirmed one, made inside *)
(* whatever transaction.                                                     *)
Fresh == {v \in Vouchers : voucher[v].status = "none"}
NextVoucher == Min(Fresh)
New(kind, amount) == Confirm([Blank EXCEPT !.kind = kind, !.amount = amount])

-----------------------------------------------------------------------------
(* createReceiptVoucher and createPaymentVoucher, of the finance screens.    *)
CreateVoucher(kind, amount, confirmed) ==
  LET x == [Blank EXCEPT !.kind = kind, !.amount = amount, !.status = "draft"] IN
  /\ Fresh # {}
  /\ voucher' = [voucher EXCEPT ![NextVoucher] = IF confirmed THEN Confirm(x) ELSE x]
  /\ Move(IF confirmed THEN ConfirmDelta(x) ELSE 0)
  /\ UNCHANGED <<job, outdated, drift>>

(* Faulty variant: a cancelled voucher may be confirmed again.               *)
AllowedReopening(from, to) ==
  to = from \/ <<from, to>> \in {<<"draft", "confirmed">>, <<"draft", "cancelled">>,
                                 <<"confirmed", "cancelled">>, <<"cancelled", "confirmed">>}

(* allowedVoucherTransitions.                                                *)
Allowed(from, to) ==
  to = from \/ <<from, to>> \in {<<"draft", "confirmed">>, <<"draft", "cancelled">>,
                                 <<"confirmed", "cancelled">>}

(* updateReceiptVoucher and updatePaymentVoucher: the service checks what it *)
(* reads, the repository reads again; neither locks.  Any pair of readings   *)
(* has the effect of one.  to = "same": the request names no status.         *)
BeginUpdate(j, v, to, amount) ==
  LET x == voucher[v] IN
  /\ job[j] = Idle /\ x.status # "none"
  /\ to # "same" => Allowed(x.status, to)
  /\ ~(x.settlement /\ x.status = "draft" /\ to = "confirmed")
  /\ job' = [job EXCEPT ![j] = [at |-> "read", of |-> v, was |-> x.status,
                                to |-> to, amount |-> amount]]
  /\ UNCHANGED <<voucher, balance, outdated, drift>>

Confirms(was, to) == was # "confirmed" /\ to = "confirmed"
Reverses(was, to) == was = "confirmed" /\ to = "cancelled"

(* Cashbox and entries follow the status read, not the one overwritten.      *)
WriteVoucher(j) ==
  LET v == job[j].of
      was == job[j].was
      to == IF job[j].to = "same" THEN voucher[v].status ELSE job[j].to
      x == [voucher[v] EXCEPT !.status = to,
              !.amount = IF job[j].amount = 0 THEN @ ELSE job[j].amount]
  IN
  /\ job[j].at = "read"
  /\ voucher' = [voucher EXCEPT ![v] =
       IF Confirms(was, to) THEN Confirm(x) ELSE IF Reverses(was, to) THEN Cancel(x) ELSE x]
  /\ Move(IF Confirms(was, to) THEN ConfirmDelta(x)
          ELSE IF Reverses(was, to) THEN CancelDelta(x) ELSE 0)
  /\ outdated' = IF voucher[v].status = was THEN outdated ELSE outdated \cup {v}
  /\ drift' = (drift \/ v \in outdated')
  /\ job' = [job EXCEPT ![j] = Idle]

(* The WithClient variants cancel with the row locked, inside the            *)
(* transaction of their caller: vs are the vouchers it cancels.              *)
CancelLocked(vs) ==
  LET real == {v \in vs : v # NoVoucher /\ voucher[v].status = "confirmed"} IN
  /\ voucher' = [v \in Vouchers |->
       IF v \in real THEN Cancel(voucher[v])
       ELSE IF v \in vs THEN [voucher[v] EXCEPT !.status = "cancelled"] ELSE voucher[v]]
  /\ Move(Sum([v \in Vouchers |-> CancelDelta(voucher[v])], real))
  /\ drift' = (drift \/ real \cap outdated # {})
  /\ UNCHANGED <<job, outdated>>

(* reconcileCashboxBalances, whenever the cashboxes are listed: the entries  *)
(* are summed up as of the start of the statement, which then waits for the  *)
(* row of the cashbox.                                                       *)
BeginReconcile(j) ==
  /\ job[j] = Idle
  /\ job' = [job EXCEPT ![j] = [at |-> "sum", net |-> Entries, count |-> EntryCount]]
  /\ UNCHANGED <<voucher, balance, outdated, drift>>

Reconcile(j) ==
  /\ job[j].at = "sum"
  /\ balance' = job[j].net /\ balance' \in -MaxBalance .. MaxBalance
  /\ drift' = (job[j].count # EntryCount)
  /\ job' = [job EXCEPT ![j] = Idle]
  /\ UNCHANGED <<voucher, outdated>>

(* An error or a lost connection rolls the write back.                       *)
Stop(j) ==
  /\ job[j] # Idle
  /\ job' = [job EXCEPT ![j] = Idle]
  /\ UNCHANGED <<voucher, balance, outdated, drift>>
=============================================================================
