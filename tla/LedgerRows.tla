----------------------------- MODULE LedgerRows -----------------------------
(* The rows of one daily ledger and the dispatches (sessions) they are       *)
(* spread over: entering, moving, cancelling, deleting and loading them.     *)
(* An action is a transaction; the session and row locks it takes make it    *)
(* one.  What reads without a lock before it writes takes two actions.       *)
EXTENDS Integers, FiniteSets, FiniteSetsExt, Functions

CONSTANTS
  Rows,      \* daily_ledger_rows, by id
  Receipts,  \* receipt numbers, after lower(trim())
  Sessions,  \* daily_ledger_sessions of one branch, date and line, by id
  DriverOf,  \* DriverOf[s]: the driver of session s
  NoDriver,  \* the driver of the main session, which cannot be cancelled
  MaxNo,     \* bound: the largest row number handed out
  NoRow

Drivers == {DriverOf[s] : s \in Sessions}

ASSUME RowsAssumption ==
  /\ DriverOf \in [Sessions -> Drivers]
  /\ IsFiniteSet(Rows) /\ MaxNo \in Nat /\ Rows \cap Receipts = {}

VARIABLES
  row,      \* row[r]: the row, or NoRow before it is inserted
  session,  \* session[s]: "unused", "live" or "deleted"
  held      \* rows and shipments (by receipt) an open undo has locked

rowVars == <<row, session, held>>

RowType == [at: Sessions, no: Nat, receipt: Receipts, posted: BOOLEAN,
            loaded: BOOLEAN, deleted: BOOLEAN]

ASSUME NoRowAssumption == NoRow \notin RowType

RowsInit ==
  /\ row = [r \in Rows |-> NoRow]
  /\ session = [s \in Sessions |-> IF DriverOf[s] = NoDriver THEN "live" ELSE "unused"]
  /\ held = {}

RowsTypeOK ==
  /\ row \in [Rows -> RowType \cup {NoRow}]
  /\ session \in [Sessions -> {"unused", "live", "deleted"}]
  /\ held \subseteq Rows \cup Receipts

Kept(r) == row[r] # NoRow /\ ~row[r].deleted

(* What every query of the screens joins: a kept row of a kept session.      *)
Shown(r) == Kept(r) /\ session[row[r].at] = "live"

RowsOf(s) == {r \in Rows : Kept(r) /\ row[r].at = s}

(* Faulty variant: as many as there are, and one.                            *)
NextNoByCount(s) == 1 + Cardinality(RowsOf(s))

(* nextRowNoForSession, under the lock of the session.                       *)
NextNo(s) == 1 + Max({0} \cup {row[r].no : r \in RowsOf(s)})

(* insert into daily_ledger_sessions ... on conflict do update: the live     *)
(* session of the driver, locked, or a new one.                              *)
SessionFor(driver) ==
  LET own == {s \in Sessions : DriverOf[s] = driver}
      live == {s \in own : session[s] = "live"}
  IN IF live # {} THEN live ELSE {s \in own : session[s] = "unused"}

(* Faulty variant: found, but not brought to life.                           *)
EnsuredAsItIs(s) == session

Ensured(s) == [session EXCEPT ![s] = "live"]

(* The ways to number the rows rs on arrival in session s; keep: in the      *)
(* order of their old numbers.                                               *)
Numberings(rs, s, keep) ==
  {f \in Injection(rs, NextNo(s) .. (NextNo(s) + Cardinality(rs) - 1)) :
     keep => \A p, q \in rs : row[p].no < row[q].no => f[p] < f[q]}

Arrive(rs, s, f) ==
  row' = [r \in Rows |-> IF r \in rs THEN [row[r] EXCEPT !.at = s, !.no = f[r]] ELSE row[r]]

-----------------------------------------------------------------------------
(* upsertRow of a row that exists, named by the screen or found by its       *)
(* receipt: it migrates to the session of the driver asked for.              *)
UpdateRow(r, driver) ==
  /\ Shown(r) /\ ~row[r].loaded /\ r \notin held
  /\ \E s \in SessionFor(driver) :
       /\ session' = Ensured(s)
       /\ IF s = row[r].at THEN UNCHANGED row
          ELSE NextNo(s) <= MaxNo /\ Arrive({r}, s, [x \in {r} |-> NextNo(s)])
  /\ UNCHANGED held

(* assertUniqueLedgerReceiptNo, which no lock protects until the insert.     *)
ReceiptIsFree(n) == \A r \in Rows : Shown(r) => row[r].receipt # n

InsertRow(r, n, driver) ==
  /\ row[r] = NoRow
  /\ \E s \in SessionFor(driver) :
       /\ NextNo(s) <= MaxNo
       /\ session' = Ensured(s)
       /\ row' = [row EXCEPT ![r] = [at |-> s, no |-> NextNo(s), receipt |-> n,
                                     posted |-> FALSE, loaded |-> FALSE, deleted |-> FALSE]]
  /\ UNCHANGED held

(* confirmTransfer, with the rows locked; rows that are in the target        *)
(* session already are only tagged.  A target that names a vehicle and no    *)
(* driver is the main session.                                               *)
Transferable(rs, s) ==
  /\ \A r \in rs : Shown(r) /\ ~row[r].loaded /\ r \notin held
  /\ \A p, q \in rs : p # q => row[p].receipt # row[q].receipt
  /\ \A r \in rs, q \in RowsOf(s) \ rs : row[q].receipt # row[r].receipt

ConfirmTransfer(rs, driver) ==
  /\ rs # {}
  /\ \E s \in SessionFor(driver) :
       LET moving == {r \in rs : row[r].at # s} IN
       /\ Transferable(rs, s)
       /\ NextNo(s) + Cardinality(moving) - 1 <= MaxNo
       /\ session' = Ensured(s)
       /\ \E f \in Numberings(moving, s, FALSE) : Arrive(moving, s, f)
  /\ UNCHANGED held

(* Faulty variant: loaded rows do not stop it.                               *)
CancellableLoaded(s) == session[s] = "live" /\ DriverOf[s] # NoDriver

Cancellable(s) ==
  /\ session[s] = "live" /\ DriverOf[s] # NoDriver
  /\ \A r \in RowsOf(s) : ~row[r].loaded

(* cancelSession: the rows go to the main session, then the session goes.    *)
CancelSession(s) ==
  /\ Cancellable(s) /\ RowsOf(s) \cap held = {}
  /\ \E main \in SessionFor(NoDriver) :
       /\ \A r \in RowsOf(s), q \in RowsOf(main) : row[q].receipt # row[r].receipt
       /\ NextNo(main) + Cardinality(RowsOf(s)) - 1 <= MaxNo
       /\ \E f \in Numberings(RowsOf(s), main, TRUE) : Arrive(RowsOf(s), main, f)
       /\ session' = [Ensured(main) EXCEPT ![s] = "deleted"]
  /\ UNCHANGED held

(* deleteRows; a posted row may go, its shipment stays.                      *)
DeleteRow(r) ==
  /\ Shown(r) /\ ~row[r].loaded /\ r \notin held
  /\ row' = [row EXCEPT ![r].deleted = TRUE]
  /\ UNCHANGED <<session, held>>

(* markLoadedByShipmentIds, for the shipment of receipt n: every kept row    *)
(* posted to it, whatever its session.                                       *)
LoadShipment(n) ==
  LET rs == {r \in Rows : Kept(r) /\ row[r].receipt = n /\ row[r].posted} IN
  /\ rs # {} /\ rs \cap held = {} /\ \E r \in rs : ~row[r].loaded
  /\ row' = [r \in Rows |-> IF r \in rs THEN [row[r] EXCEPT !.loaded = TRUE] ELSE row[r]]
  /\ UNCHANGED <<session, held>>
=============================================================================
