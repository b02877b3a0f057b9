---------------------------- MODULE LedgerOffice ----------------------------
(* The ledger screens of one office at work together: rows, dispatches,      *)
(* postings, and the dispatch operations that can be undone as a whole.      *)
EXTENDS DeferredPosting, SequencesExt

VARIABLE undo  \* undo[o]: the open undo of operation o and what it has read

vars == <<rowVars, postVars, deferredVars, undo>>

Closed == [at |-> "closed"]

Init == RowsInit /\ PostInit /\ DeferredInit /\ undo = [o \in Ops |-> Closed]

Members(entries) == {r \in Rows : entries[r].in}

-----------------------------------------------------------------------------
(* begin: the rows the save starts from, with their places.                  *)
BeginOperation(o, rs) ==
  /\ op[o].status = "NONE" /\ \A r \in rs : Shown(r)
  /\ op' = [op EXCEPT ![o] = [status |-> "PROCESSING",
       rows |-> [r \in Rows |-> IF r \in rs THEN Entry(TRUE, Where(r), Unknown) ELSE NoEntry]]]
  /\ UNCHANGED <<rowVars, ship, job, undo>>

(* finalize, with the save log, which the page sends once, when it has all   *)
(* its answers.                                                              *)
Finalize(o) ==
  /\ op[o].status = "PROCESSING"
  /\ \A j \in Jobs : job[j].at \in Steps => job[j].op # o
  /\ op' = [op EXCEPT ![o].status = "COMPLETED"]
  /\ UNCHANGED <<rowVars, ship, job, undo>>

(* collectBlockers, as far as it looks at rows: a kept one is loaded, or is  *)
(* no longer where the save left it.                                         *)
Moved(r, e) == e.after # Unknown /\ e.after # Where(r)
Blocked(entries) ==
  \E r \in Members(entries) : Kept(r) /\ (row[r].loaded \/ Moved(r, entries[r]))

(* undo reads the operation's rows, locks the operation and looks for what   *)
(* forbids it; none of the rows is locked yet.                               *)
CheckUndo(o) ==
  /\ op[o].status = "COMPLETED" /\ undo[o] = Closed
  /\ Members(op[o].rows) # {} /\ ~Blocked(op[o].rows)
  /\ undo' = [undo EXCEPT ![o] = [at |-> "checked", rows |-> op[o].rows]]
  /\ UNCHANGED <<rowVars, postVars>>

(* It locks rows and shipments and revives the deleted sessions the rows     *)
(* come from; a live one it does not touch.  Two live sessions of one driver *)
(* are forbidden by uq_daily_ledger_sessions_unique.                         *)
Origins(entries) ==
  {entries[r].before.at : r \in {m \in Members(entries) : entries[m].existed}}
Locks(entries) ==
  Members(entries) \cup
    {row[r].receipt : r \in {m \in Members(entries) : entries[m].disposition # "NONE"}}

LockUndo(o) ==
  LET entries == undo[o].rows
      gone == {s \in Origins(entries) : session[s] = "deleted"}
  IN
  /\ undo[o].at = "checked"
  /\ Locks(entries) \cap held = {}
  /\ \A s \in gone, t \in Sessions :
       t # s /\ DriverOf[t] = DriverOf[s] => session[t] # "live" /\ t \notin gone
  /\ held' = held \cup Locks(entries)
  /\ undo' = [undo EXCEPT ![o] = [at |-> "locked", rows |-> entries, revive |-> gone]]
  /\ UNCHANGED <<row, session, postVars>>

(* Back to where it was, under its old number unless a kept row has it.      *)
PutBack(table, r, before) ==
  LET there == {q \in Rows : /\ table[q] # NoRow /\ ~table[q].deleted
                             /\ table[q].at = before.at}
      taken == \E q \in there \ {r} : table[q].no = before.no
  IN [table EXCEPT ![r].at = before.at, ![r].posted = before.posted,
        ![r].no = IF taken THEN 1 + Max({0} \cup {table[q].no : q \in there}) ELSE before.no]

Restore(entries, table, r) ==
  IF entries[r].existed THEN PutBack(table, r, entries[r].before)
  ELSE [table EXCEPT ![r].posted = FALSE]

(* listRows sorts by the number the save left the row at; equal numbers come *)
(* in any order.                                                             *)
AfterNo(e) == IF e.after # Unknown THEN e.after.no ELSE IF e.existed THEN e.before.no ELSE 0
Orders(entries) ==
  {order \in SetToSeqs(Members(entries)) :
     \A i, k \in DOMAIN order :
       i < k => AfterNo(entries[order[i]]) <= AfterNo(entries[order[k]])}

(* The loop over the rows: the table after each of them.                     *)
RowsAfter(entries, order) ==
  LET table[k \in 0 .. Len(order)] ==
        IF k = 0 THEN row ELSE Restore(entries, table[k - 1], order[k])
  IN table[Len(order)]

(* Faulty variant: one charge is taken off, whether it is there or not.      *)
ReversedBlindly(s, es, o) ==
  LET created == \E e \in es : e.disposition = "CREATED" IN
  IF ~created /\ ~ \E e \in es : e.funded THEN s
  ELSE [s EXCEPT !.fin = "REVERSED", !.state = IF created THEN "deleted" ELSE @,
                 !.charges = [t \in Tags |-> IF t = o \/ (created /\ t = NoOp) THEN @[t] - 1 ELSE @[t]]]

(* The shipment the entries es refer to: removed if the save created it; its *)
(* charges reversed if the save posted them.                                 *)
Reversed(s, es, o) ==
  LET created == \E e \in es : e.disposition = "CREATED" IN
  IF ~created /\ ~ \E e \in es : e.funded THEN s
  ELSE [s EXCEPT !.fin = "REVERSED", !.state = IF created THEN "deleted" ELSE @,
                 !.charges = [t \in Tags |-> IF t = o \/ (created /\ t = NoOp) THEN 0 ELSE @[t]]]

EntriesOf(entries, n) ==
  {entries[r] : r \in {m \in Members(entries) :
                         row[m].receipt = n /\ entries[m].disposition # "NONE"}}

CommitUndo(o) ==
  LET entries == undo[o].rows IN
  /\ undo[o].at = "locked"
  /\ \E order \in Orders(entries) : row' = RowsAfter(entries, order)
  /\ session' = [s \in Sessions |-> IF s \in undo[o].revive THEN "live" ELSE session[s]]
  /\ ship' = [n \in Receipts |-> Reversed(ship[n], EntriesOf(entries, n), o)]
  /\ op' = [op EXCEPT ![o].status = "UNDONE"]
  /\ held' = held \ Locks(entries)
  /\ undo' = [undo EXCEPT ![o] = Closed]
  /\ UNCHANGED job

(* Any error rolls the transaction back.                                     *)
AbandonUndo(o) ==
  /\ undo[o] # Closed
  /\ held' = IF undo[o].at = "locked" THEN held \ Locks(undo[o].rows) ELSE held
  /\ undo' = [undo EXCEPT ![o] = Closed]
  /\ UNCHANGED <<row, session, postVars>>

-----------------------------------------------------------------------------
(* The screens of the ledger, with no job of theirs in between.              *)
Screens ==
  \/ \E rs \in SUBSET Rows, d \in Drivers : ConfirmTransfer(rs, d)
  \/ \E s \in Sessions : CancelSession(s)
  \/ \E r \in Rows : DeleteRow(r)
  \/ \E n \in Receipts : LoadShipment(n)

ShipmentScreens == \E n \in Receipts : DraftShipment(n) \/ PostFromLifecycle(n)

Requests(j) ==
  /\ ~Executing(j)
  /\ \/ \E n \in Receipts, d \in Drivers, o \in Tags : SaveRow(j, n, d, o)
     \/ \E r \in Rows, o \in Tags : PostRow(j, r, o)

Continue(j) ==
  \/ \E r \in Rows : SaveNewRow(j, r)
  \/ Journal(j) \/ Look(j) \/ Fund(j) \/ Create(j) \/ Mark(j) \/ Record(j) \/ Tag(j)
  \/ Stop(j)

Operations(o) ==
  \/ \E rs \in SUBSET Rows : BeginOperation(o, rs)
  \/ Finalize(o) \/ CheckUndo(o) \/ LockUndo(o) \/ CommitUndo(o) \/ AbandonUndo(o)

Next ==
  \/ Screens /\ UNCHANGED <<postVars, deferredVars, undo>>
  \/ ShipmentScreens /\ UNCHANGED <<deferredVars, undo>>
  \/ \E j \in Jobs : (Requests(j) \/ Continue(j)) /\ UNCHANGED <<deferredVars, undo>>
  \/ \E j \in Jobs : Deferred(j) /\ UNCHANGED undo
  \/ \E a \in Actions : Answers(a) /\ UNCHANGED undo
  \/ \E o \in Ops : Operations(o) /\ UNCHANGED deferredVars

Spec == Init /\ [][Next]_vars

-----------------------------------------------------------------------------
OfficeTypeOK ==
  /\ RowsTypeOK /\ PostTypeOK /\ DeferredTypeOK
  /\ \A o \in Ops : undo[o].at \in {"closed", "checked", "locked"}

(* What financial_status says of a shipment is true of its account: POSTED   *)
(* means one charge that is not reversed, anything else none.  Saves,        *)
(* deferred postings, lifecycle postings and undos meet on one shipment; a   *)
(* charge posted twice, reversed halfway or left behind breaks it            *)
(* (postShipmentConfirmationFinancials, undo).                               *)
FinancialStatusIsTrue ==
  \A n \in Receipts :
    IF ship[n].fin = "POSTED" THEN \E t \in Tags : ship[n].charges = Only(t)
    ELSE ship[n].charges = NoCharge

(* Two kept rows of one session never share a number, although rows come in  *)
(* by entry, migration, transfer and the cancellation of another session,    *)
(* and leave gaps when they go (nextRowNoForSession).                        *)
RowNumbersAreUnique ==
  \A p, q \in Rows :
    Kept(p) /\ Kept(q) /\ p # q /\ row[p].at = row[q].at => row[p].no # row[q].no

(* A row on a loading manifest stays in its dispatch, under its number and   *)
(* kept.  Transfer, migration, cancellation and deletion all refuse it;      *)
(* only an undo that looked for loaded rows before this one was loaded may   *)
(* still move it (collectBlockers runs before the rows are locked).          *)
LoadedRowsStay ==
  [][\A r \in Rows : Kept(r) /\ row[r].loaded =>
       \/ row'[r] = [row[r] EXCEPT !.posted = row'[r].posted]
       \/ \E o \in Ops : undo[o].at = "locked"]_vars

(* No kept row belongs to a deleted session, where no screen would show it:  *)
(* a row that arrives while its session is cancelled is moved along or       *)
(* finds another session (ensureDriverSession, cancelSession).               *)
RowsInLiveSessions == \A r \in Rows : Kept(r) => Shown(r)

(* "so undo reverses only this operation's effects"                          *)
(* (dailyLedgerDispatchOperationRepository): a shown row that is posted has  *)
(* its shipment, whichever operation is undone.                              *)
PostedRowsHaveShipments ==
  \A r \in Rows : Shown(r) /\ row[r].posted => ship[row[r].receipt].state = "live"
=============================================================================
