----------------------------- MODULE RowPosting -----------------------------
(* The handlers that save a ledger row and post it as a shipment.  Each is a *)
(* chain of transactions, and other handlers run between two of them; what   *)
(* one has read it keeps in its job.                                         *)
EXTENDS LedgerRows

CONSTANTS
  Jobs,  \* handlers that run at once
  Ops,   \* daily_ledger_dispatch_operations, by id
  NoOp,  \* the request names no operation
  Torn   \* whether a job may stop inside markPostedShipment

ASSUME PostingAssumption == NoOp \notin Ops /\ Torn \in BOOLEAN

VARIABLES
  ship,  \* ship[n]: the shipment numbered n
  job,   \* job[j]: the handler's place and what it remembers
  op     \* op[o]: the dispatch operation and its rows

postVars == <<ship, job, op>>

Tags == Ops \cup {NoOp}

(* charges[t]: the charge movements of the shipment that are not reversed    *)
(* and carry source_operation_id t.                                          *)
NoCharge == [t \in Tags |-> 0]
Shipment == [state: {"none", "live", "deleted"},
             fin: {"UNPOSTED", "POSTED", "REVERSED"}, charges: [Tags -> Nat]]

Idle == [at |-> "idle"]
Steps == {"insert", "journal", "look", "fund", "create", "mark", "record", "tag"}

(* A row of daily_ledger_dispatch_operation_rows: where the row was before,  *)
(* where the save left it (Unknown until journalled), and what became of the *)
(* posting.                                                                  *)
Unknown == [at |-> "unknown"]
Where(r) == [at |-> row[r].at, no |-> row[r].no, posted |-> row[r].posted]
NoEntry == [in |-> FALSE]
Entry(existed, before, after) ==
  [in |-> TRUE, existed |-> existed, before |-> before, after |-> after,
   disposition |-> "NONE", funded |-> FALSE]

PostInit ==
  /\ ship = [n \in Receipts |-> [state |-> "none", fin |-> "UNPOSTED", charges |-> NoCharge]]
  /\ job = [j \in Jobs |-> Idle]
  /\ op = [o \in Ops |-> [status |-> "NONE", rows |-> [r \in Rows |-> NoEntry]]]

PostTypeOK ==
  /\ ship \in [Receipts -> Shipment]
  /\ \A j \in Jobs : job[j].at \in {"idle"} \cup Steps
  /\ \A o \in Ops : op[o].status \in {"NONE", "PROCESSING", "COMPLETED", "UNDONE"}

Only(t) == [NoCharge EXCEPT ![t] = 1]

Go(j, step) == job' = [job EXCEPT ![j].at = step]
End(j) == job' = [job EXCEPT ![j] = Idle]
EndUnless(j, more, step) == IF more THEN Go(j, step) ELSE End(j)

(* The screen passes the operation it began and has not finished.            *)
Named(o) == o = NoOp \/ (o \in Ops /\ op[o].status = "PROCESSING")

-----------------------------------------------------------------------------
(* POST rows/upsert: update of the row with this receipt, or, after the      *)
(* check of the receipt, a new row.                                          *)
SaveRow(j, n, driver, o) ==
  /\ job[j] = Idle /\ Named(o)
  /\ IF ReceiptIsFree(n)
     THEN /\ job' = [job EXCEPT ![j] = [at |-> "insert", n |-> n, driver |-> driver, op |-> o]]
          /\ UNCHANGED rowVars
     ELSE \E r \in Rows :
            /\ row[r] # NoRow /\ row[r].receipt = n
            /\ UpdateRow(r, driver)
            /\ IF o = NoOp THEN UNCHANGED job
               ELSE job' = [job EXCEPT ![j] = [at |-> "journal", row |-> r, op |-> o]]
  /\ UNCHANGED <<ship, op>>

SaveNewRow(j, r) ==
  /\ job[j].at = "insert"
  /\ InsertRow(r, job[j].n, job[j].driver)
  /\ IF job[j].op = NoOp THEN End(j)
     ELSE job' = [job EXCEPT ![j] = [at |-> "journal", row |-> r, op |-> job[j].op]]
  /\ UNCHANGED <<ship, op>>

(* ensureRowForUpsert, a statement of its own after the commit.              *)
Journalled(e, r) == IF e.in THEN [e EXCEPT !.after = Where(r)]
                    ELSE Entry(FALSE, Unknown, Where(r))

Journal(j) ==
  /\ job[j].at = "journal"
  /\ LET r == job[j].row IN
     IF Shown(r) THEN op' = [op EXCEPT ![job[j].op].rows[r] = Journalled(@, r)]
     ELSE UNCHANGED op
  /\ End(j)
  /\ UNCHANGED <<rowVars, ship>>

-----------------------------------------------------------------------------
(* postRowAsShipment.  A row that is posted already is only recorded.        *)
PostRow(j, r, o) ==
  /\ job[j] = Idle /\ Named(o) /\ Shown(r)
  /\ row[r].posted => o # NoOp
  /\ job' = [job EXCEPT ![j] =
       [at |-> IF row[r].posted THEN "record" ELSE "look", row |-> r, n |-> row[r].receipt,
        op |-> o, disposition |-> "EXISTING_POSTED", funded |-> FALSE]]
  /\ UNCHANGED <<rowVars, ship, op>>

(* The handler remembers for the operation what becomes of the posting.      *)
Noted(w, step, disposition, funded) ==
  IF w.op = NoOp THEN [w EXCEPT !.at = step]
  ELSE [w EXCEPT !.at = step, !.disposition = disposition, !.funded = funded]

Notes(j, step, disposition, funded) ==
  job' = [job EXCEPT ![j] = Noted(@, step, disposition, funded)]

(* A shipment of this number that is not deleted, the rows linked to it and  *)
(* its financial status, read without a lock.                                *)
LinkedElsewhere(j) ==
  \E q \in Rows \ {job[j].row} : Kept(q) /\ row[q].posted /\ row[q].receipt = job[j].n

Look(j) ==
  /\ job[j].at = "look"
  /\ LET s == ship[job[j].n] IN
     IF s.state # "live" THEN Go(j, "create")
     ELSE IF LinkedElsewhere(j) THEN End(j)
     ELSE Notes(j, IF s.fin = "UNPOSTED" THEN "fund" ELSE "mark", "REUSED", FALSE)
  /\ UNCHANGED <<rowVars, ship, op>>

(* postShipmentConfirmationFinancials, in a transaction: the status is read  *)
(* again under the lock of the shipment.                                     *)
(* Faulty variant: it is not.                                                *)
ChargeableUnlocked(n) == ship[n].state = "live"

Chargeable(n) == ship[n].state = "live" /\ ship[n].fin # "POSTED"
Charged(s) == [s EXCEPT !.fin = "POSTED", !.charges[NoOp] = @ + 1]

Fund(j) ==
  LET n == job[j].n IN
  /\ job[j].at = "fund" /\ n \notin held
  /\ IF Chargeable(n)
     THEN /\ ship' = [ship EXCEPT ![n] = Charged(@)]
          /\ Notes(j, "mark", "REUSED", TRUE)
     ELSE UNCHANGED ship /\ End(j)
  /\ UNCHANGED <<rowVars, op>>

(* shipmentService.create with status CONFIRMED, one transaction; shipment_no *)
(* is unique, over deleted shipments as well.                                *)
Create(j) ==
  LET n == job[j].n IN
  /\ job[j].at = "create"
  /\ IF ship[n].state = "none"
     THEN /\ ship' = [ship EXCEPT ![n] = Charged([@ EXCEPT !.state = "live"])]
          /\ Notes(j, "mark", "CREATED", TRUE)
     ELSE UNCHANGED ship /\ End(j)
  /\ UNCHANGED <<rowVars, op>>

(* markPosted: whatever the row was posted to meanwhile.                     *)
Mark(j) ==
  LET r == job[j].row IN
  /\ job[j].at = "mark" /\ r \notin held
  /\ IF Shown(r)
     THEN /\ row' = [row EXCEPT ![r].posted = TRUE]
          /\ EndUnless(j, job[j].op # NoOp, "record")
     ELSE UNCHANGED row /\ End(j)
  /\ UNCHANGED <<session, held, ship, op>>

(* markPostedShipment, its first and its later statements: the row of the    *)
(* operation, if there is one, then the tags of the charges.                 *)
Recorded(e, w) ==
  IF e.in THEN [e EXCEPT !.disposition = w.disposition, !.funded = w.funded,
                         !.after = IF @ = Unknown THEN @ ELSE [@ EXCEPT !.posted = TRUE]]
  ELSE e

Record(j) ==
  LET r == job[j].row IN
  /\ job[j].at = "record"
  /\ op' = [op EXCEPT ![job[j].op].rows[r] = Recorded(@, job[j])]
  /\ EndUnless(j, job[j].funded, "tag")
  /\ UNCHANGED <<rowVars, ship>>

Tagged(charges, o) ==
  [t \in Tags |-> IF t = NoOp THEN 0
                  ELSE charges[t] + IF t = o THEN charges[NoOp] ELSE 0]

Tag(j) ==
  /\ job[j].at = "tag"
  /\ ship' = [ship EXCEPT ![job[j].n].charges = Tagged(@, job[j].op)]
  /\ End(j)
  /\ UNCHANGED <<rowVars, op>>

(* A job ends anywhere: an error, a stop, the journal that is only tried.    *)
Stop(j) ==
  /\ job[j] # Idle /\ (job[j].at = "tag" => Torn)
  /\ End(j)
  /\ UNCHANGED <<rowVars, ship, op>>

-----------------------------------------------------------------------------
(* The shipment screens: a shipment entered there as a draft, and            *)
(* ensurePostedFromLifecycle (on confirmation, delivery or repost).          *)
DraftShipment(n) ==
  /\ ship[n].state = "none"
  /\ ship' = [ship EXCEPT ![n].state = "live"]
  /\ UNCHANGED <<rowVars, job, op>>

PostFromLifecycle(n) ==
  /\ Chargeable(n) /\ n \notin held
  /\ ship' = [ship EXCEPT ![n] = Charged(@)]
  /\ UNCHANGED <<rowVars, job, op>>
=============================================================================
