------------------------------ MODULE Payroll -------------------------------
(* Salaries and advances of one employee.  Open advances are merged into a   *)
(* pending salary when it is made and when they change, and taken off again  *)
(* when it is paid (paySalary, under the lock of the employee).  The routes  *)
(* read, write and adjust in statements of their own.  One currency.         *)
EXTENDS FiniteSums

CONSTANTS
  Salaries,       \* months a salary is paid for
  NAdvances,      \* bound: advances granted
  Month,          \* Month[a]: the month of the date of advance a
  Gross,          \* basic amount and bonuses of a salary
  Amounts,        \* bound: amounts entered for advances
  Entered,        \* bound: deductions entered for salaries
  Settable,       \* bound: statuses of advances set by a request
  MaxDeductions,  \* bound: deductions of a salary
  MaxPayments,    \* bound: how often one salary is paid
  Jobs            \* handlers that run at once

Advances == 1 .. NAdvances

ASSUME PayrollAssumption ==
  /\ NAdvances \in Nat /\ Gross \in Nat /\ MaxDeductions \in Nat /\ MaxPayments \in Nat
  /\ IsFiniteSet(Salaries) /\ Month \in [Advances -> Salaries]
  /\ Amounts \subseteq Nat \ {0} /\ Entered \subseteq Nat
  /\ Settable \subseteq {"pending", "partially_repaid", "repaid", "cancelled"}

VARIABLES
  salary,   \* salary[s]: the record, and history: how often it was paid
  advance,  \* advance[a], in the order of their dates
  taken,    \* taken[s][a]: salary_advance_deductions, 0 where there is no row
  job       \* job[j]: where the handler is and what it has read

vars == <<salary, advance, taken, job>>

(* reopened: made pending again by an edit (history).                        *)
SalaryType ==
  [status: {"none", "pending", "paid", "cancelled"}, deleted: BOOLEAN, manual: Nat,
   advance: Nat, deductions: Nat, payout: Nat, times: Nat, reopened: BOOLEAN]

AdvanceStatuses == {"pending", "partially_repaid", "repaid", "cancelled"}

(* byHand: its repayment was entered on the page; restated: its status was   *)
(* set by a request (history).                                               *)
AdvanceType ==
  [status: {"none"} \cup AdvanceStatuses, deleted: BOOLEAN,
   amount: Nat, repaid: Nat, byHand: BOOLEAN, restated: BOOLEAN]

Idle == [at |-> "idle"]

Init ==
  /\ salary = [s \in Salaries |->
       [status |-> "none", deleted |-> FALSE, manual |-> 0, advance |-> 0,
        deductions |-> 0, payout |-> 0, times |-> 0, reopened |-> FALSE]]
  /\ advance = [a \in Advances |->
       [status |-> "none", deleted |-> FALSE, amount |-> 0, repaid |-> 0,
        byHand |-> FALSE, restated |-> FALSE]]
  /\ taken = [s \in Salaries |-> [a \in Advances |-> 0]]
  /\ job = [j \in Jobs |-> Idle]

Least(m, n) == IF m < n THEN m ELSE n

(* advanceOutstandingForPayroll: what is open of an advance as read.         *)
Outstanding(x) == IF x.status \in {"pending", "partially_repaid"} THEN x.amount - x.repaid ELSE 0

(* sumOpenAdvanceBalance, whatever the month.                                *)
Open(a) == IF advance[a].deleted THEN 0 ELSE Outstanding(advance[a])
OpenBalance == Sum([a \in Advances |-> Open(a)], Advances)

(* greatest(0, n).  Faulty variant: n.                                       *)
NoFloor(n) == n

Floor(n) == IF n < 0 THEN 0 ELSE n

-----------------------------------------------------------------------------
(* POST salary-records: the open advances are summed up first, then the      *)
(* record is inserted.  One a month for ever, deleted ones included.         *)
SumAdvances(j, s, manual) ==
  /\ job[j] = Idle
  /\ job' = [job EXCEPT ![j] = [at |-> "sum", of |-> s, manual |-> manual, open |-> OpenBalance]]
  /\ UNCHANGED <<salary, advance, taken>>

CreateSalary(j) ==
  LET s == job[j].of
      merged == Least(job[j].open, Floor(Gross - job[j].manual))
  IN
  /\ job[j].at = "sum"
  /\ salary' = IF salary[s].status # "none" THEN salary
               ELSE [salary EXCEPT ![s].status = "pending", ![s].manual = job[j].manual,
                       ![s].advance = merged, ![s].deductions = job[j].manual + merged]
  /\ job' = [job EXCEPT ![j] = Idle]
  /\ UNCHANGED <<advance, taken>>

Present(s) == salary[s].status # "none" /\ ~salary[s].deleted

(* PUT salary-records/:id: the deductions and the status the form shows.     *)
EditSalary(s, deductions, status) ==
  /\ Present(s)
  /\ status = "pending" => salary[s].times < MaxPayments
  /\ salary' = [salary EXCEPT ![s].deductions = deductions, ![s].status = status,
                  ![s].reopened = @ \/ (salary[s].status # "pending" /\ status = "pending")]
  /\ UNCHANGED <<advance, taken, job>>

DeleteSalary(s) ==
  /\ Present(s)
  /\ salary' = [salary EXCEPT ![s].deleted = TRUE]
  /\ UNCHANGED <<advance, taken, job>>

-----------------------------------------------------------------------------
(* What paying salary s takes off advance a: nothing when it took anything   *)
(* before; else the oldest advances first, up to what is left of the salary. *)
(* Faulty variant: every advance up to the whole salary.                     *)
Capacity(s) ==
  IF \E a \in Advances : taken[s][a] > 0 THEN 0 ELSE Floor(Gross - salary[s].manual)

TakeFromAll(s, a) == Least(Open(a), Capacity(s))

Take(s, a) ==
  Least(Open(a), Floor(Capacity(s) - Sum([b \in Advances |-> Open(b)], 1 .. a - 1)))

(* Faulty variant: without the look at the status.                           *)
PayableAgain(s) == Present(s)

Payable(s) == Present(s) /\ salary[s].status = "pending"

(* paySalary: what is taken now is added to what was merged before.          *)
PaySalary(s) ==
  LET take == [a \in Advances |-> Take(s, a)]
      all == salary[s].advance + Sum(take, Advances)
      manual == salary[s].manual
  IN
  /\ Payable(s)
  /\ salary' = [salary EXCEPT ![s].status = "paid", ![s].advance = all,
                  ![s].deductions = manual + all, ![s].times = @ + 1,
                  ![s].payout = Floor(Gross - manual - all)]
  /\ advance' = [a \in Advances |->
       IF take[a] = 0 THEN advance[a]
       ELSE [advance[a] EXCEPT !.repaid = @ + take[a],
               !.status = IF take[a] = Open(a) THEN "repaid" ELSE "partially_repaid"]]
  /\ taken' = IF Sum(take, Advances) = 0 THEN taken ELSE [taken EXCEPT ![s] = take]
  /\ UNCHANGED job

-----------------------------------------------------------------------------
(* adjustPendingSalaryDeductions, the last step of every advance route: the  *)
(* difference goes to the pending salary of the month of the advance.        *)
SyncLater(j, a, delta) == job' = [job EXCEPT ![j] = [at |-> "sync", of |-> a, delta |-> delta]]

SyncSalary(j) ==
  LET s == Month[job[j].of] IN
  /\ job[j].at = "sync"
  /\ salary' = IF Present(s) /\ salary[s].status = "pending"
               THEN [salary EXCEPT ![s].deductions = Floor(@ + job[j].delta)] ELSE salary
  /\ salary'[s].deductions <= MaxDeductions
  /\ job' = [job EXCEPT ![j] = Idle]
  /\ UNCHANGED <<advance, taken>>

CreateAdvance(j, a, amount) ==
  /\ job[j] = Idle /\ advance[a].status = "none"
  /\ advance' = [advance EXCEPT ![a].status = "pending", ![a].amount = amount]
  /\ SyncLater(j, a, amount)
  /\ UNCHANGED <<salary, taken>>

(* PUT and DELETE of an advance read it first.                               *)
Granted(a) == advance[a].status # "none" /\ ~advance[a].deleted

ReadAdvance(j, a, wish) ==
  /\ job[j] = Idle /\ Granted(a)
  /\ wish.do = "amount" => advance[a].status = "pending" /\ advance[a].repaid = 0
  /\ wish.do = "repay" => wish.value <= advance[a].amount
  /\ job' = [job EXCEPT ![j] = [at |-> "read", of |-> a, wish |-> wish, was |-> advance[a]]]
  /\ UNCHANGED <<salary, advance, taken>>

(* The amount changes only while nothing is repaid, as of the write.  Faulty *)
(* variant: as of the reading.                                               *)
AmountEditableAsRead(x) == TRUE

AmountEditable(x) == x.status = "pending" /\ x.repaid = 0

(* What the request does not name stays as it is.  Faulty variant: stays as  *)
(* it was read.                                                              *)
KeptAsRead(x, was) == [x EXCEPT !.repaid = was.repaid]

Kept(x, was) == x

(* The page enters the total repaid, and the status that goes with it.       *)
RepaidStatus(repaid, amount) ==
  IF repaid >= amount THEN "repaid" ELSE IF repaid > 0 THEN "partially_repaid" ELSE "pending"

Changed(x, was, wish) ==
  CASE wish.do = "amount" ->
         IF AmountEditable(x) THEN [Kept(x, was) EXCEPT !.amount = wish.value] ELSE Kept(x, was)
    [] wish.do = "repay" ->
         [x EXCEPT !.repaid = wish.value, !.byHand = TRUE,
                   !.status = RepaidStatus(wish.value, was.amount)]
    [] wish.do = "status" -> [Kept(x, was) EXCEPT !.status = wish.status, !.restated = TRUE]

(* updateAdvance; the check of the table refuses to repay more than was      *)
(* granted, which ends the handler.                                          *)
UpdateAdvance(j) ==
  LET a == job[j].of
      x == Changed(advance[a], job[j].was, job[j].wish)
      valid == ~advance[a].deleted /\ x.repaid <= x.amount
  IN
  /\ job[j].at = "read" /\ job[j].wish.do # "delete"
  /\ advance' = IF valid THEN [advance EXCEPT ![a] = x] ELSE advance
  /\ IF valid THEN SyncLater(j, a, Outstanding(x) - Outstanding(job[j].was))
              ELSE job' = [job EXCEPT ![j] = Idle]
  /\ UNCHANGED <<salary, taken>>

DeleteAdvance(j) ==
  LET a == job[j].of IN
  /\ job[j].at = "read" /\ job[j].wish.do = "delete"
  /\ advance' = [advance EXCEPT ![a].deleted = TRUE]
  /\ IF advance[a].deleted THEN job' = [job EXCEPT ![j] = Idle]
                           ELSE SyncLater(j, a, -Outstanding(job[j].was))
  /\ UNCHANGED <<salary, taken>>

(* The server stops between two statements.                                  *)
Stop(j) ==
  /\ job[j] # Idle
  /\ job' = [job EXCEPT ![j] = Idle]
  /\ UNCHANGED <<salary, advance, taken>>

-----------------------------------------------------------------------------
Wishes ==
  [do: {"amount"}, value: Amounts] \cup [do: {"repay"}, value: Amounts \cup {0}]
    \cup [do: {"status"}, status: Settable] \cup [do: {"delete"}]

Next ==
  \/ \E j \in Jobs :
       \/ \E s \in Salaries, m \in Entered : SumAdvances(j, s, m)
       \/ \E a \in Advances :
            (\E n \in Amounts : CreateAdvance(j, a, n)) \/ (\E w \in Wishes : ReadAdvance(j, a, w))
       \/ CreateSalary(j) \/ UpdateAdvance(j) \/ DeleteAdvance(j) \/ SyncSalary(j) \/ Stop(j)
  \/ \E s \in Salaries :
       \/ \E d \in Entered, st \in {"pending", "paid", "cancelled"} : EditSalary(s, d, st)
       \/ DeleteSalary(s) \/ PaySalary(s)

Spec == Init /\ [][Next]_vars

-----------------------------------------------------------------------------
PayrollTypeOK ==
  /\ salary \in [Salaries -> SalaryType] /\ advance \in [Advances -> AdvanceType]
  /\ taken \in [Salaries -> [Advances -> Nat]]
  /\ \A j \in Jobs : job[j].at \in {"idle", "sum", "read", "sync"}

(* What is written off an advance came off a salary: unless a repayment was  *)
(* entered by hand, its repaid amount is the sum of the deductions made for  *)
(* it, although the page and payments change it at once (paySalary,          *)
(* updateAdvance).                                                           *)
RepaymentsAreDeductions ==
  \A a \in Advances :
    advance[a].byHand \/
      advance[a].repaid = Sum([s \in Salaries |-> taken[s][a]], Salaries)

(* The status of an advance, which decides whether it is still deducted,     *)
(* tells what is repaid of it; repayments entered by hand and statuses set   *)
(* by a request excepted (updateAdvance).                                    *)
AdvanceStatusIsTrue ==
  \A a \in Advances :
    advance[a].status = "none" \/ advance[a].byHand \/ advance[a].restated \/
      advance[a].status = RepaidStatus(advance[a].repaid, advance[a].amount)

(* "يمكن دفع الرواتب المعلقة فقط" (paySalary): a salary is paid once, whoever   *)
(* pays it, unless an edit made it pending again.                            *)
PaidOnce == \A s \in Salaries : salary[s].times > 1 => salary[s].reopened

(* What a payment hands out and what it takes off advances never come to     *)
(* more than the salary (paySalary).                                         *)
NeverMoreThanTheSalary ==
  [][\A s \in Salaries :
       salary'[s].times # salary[s].times =>
         salary'[s].payout + Sum([a \in Advances |-> taken'[s][a] - taken[s][a]], Advances)
           <= Floor(Gross - salary[s].manual)]_vars

(* The salary holds exactly what is open: the advances merged into it when   *)
(* it was made, none of them repaid, changed or joined by another since.     *)
HoldsOpenAdvances(s) ==
  /\ salary[s].advance = Least(OpenBalance, Floor(Gross - salary[s].manual)) /\ salary[s].advance > 0
  /\ salary[s].deductions = salary[s].manual + salary[s].advance

(* "تم دفع صافي الراتب" (paySalary of the page): a salary that holds the open  *)
(* advances and is paid with no other request under way hands out the net    *)
(* amount the page shows: an advance merged into it is deducted once.        *)
PaysWhatItShows ==
  [][\A s \in Salaries :
       /\ salary'[s].times # salary[s].times
       /\ HoldsOpenAdvances(s) /\ \A j \in Jobs : job[j] = Idle
       => salary'[s].payout = Floor(Gross - salary[s].deductions)]_vars
=============================================================================
