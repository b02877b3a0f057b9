----------------------------- MODULE ChangeFeed -----------------------------
(* The change feed under concurrent transactions.  cursor_id is a bigserial: *)
(* its value is drawn when the trigger inserts, the entry becomes visible    *)
(* when the transaction commits.  CentralSync takes the two for one step;    *)
(* here they are apart, and a reader pulls or takes a snapshot in between.   *)
EXTENDS Integers, FiniteSets

CONSTANTS
  Transactions,  \* what writes synchronised rows, one row each
  Rows,
  PullSize,      \* SYNC_PULL_BATCH_SIZE
  MaxDrawn,      \* bound: values drawn from the sequence
  NoRow

ASSUME FeedAssumption ==
  PullSize \in Nat \ {0} /\ MaxDrawn \in Nat /\ NoRow \notin Rows

VARIABLES
  target,   \* target[t]: the row transaction t holds the lock of
  version,  \* version[r]: the committed sync_version of row r
  drawn,    \* the last value of the sequence behind cursor_id
  pending,  \* entries inserted and not committed
  feed,     \* entries committed
  cursor,   \* last_central_cursor of the reader
  known     \* known[r]: the version of row r the reader has

vars == <<target, version, drawn, pending, feed, cursor, known>>

Init ==
  /\ target = [t \in Transactions |-> NoRow]
  /\ version = [r \in Rows |-> 0]
  /\ drawn = 0 /\ pending = {} /\ feed = {}
  /\ cursor = 0 /\ known = [r \in Rows |-> 0]

Top(S) == CHOOSE k \in S : \A j \in S : j <= k

(* Faulty variant: writers of one row do not wait for each other.            *)
UnlockedAlways(r) == r \in Rows

Unlocked(r) == \A t \in Transactions : target[t] # r

(* An insert or update of row r, its version trigger and its feed trigger.   *)
WriteRow(t, r) ==
  /\ target[t] = NoRow /\ Unlocked(r) /\ drawn < MaxDrawn
  /\ target' = [target EXCEPT ![t] = r]
  /\ drawn' = drawn + 1
  /\ pending' = pending \cup
       {[cursor |-> drawn + 1, row |-> r, version |-> version[r] + 1, by |-> t]}
  /\ UNCHANGED <<version, feed, cursor, known>>

OwnEntries(t) == {e \in pending : e.by = t}

Commit(t) ==
  /\ target[t] # NoRow
  /\ target' = [target EXCEPT ![t] = NoRow]
  /\ version' = [version EXCEPT ![target[t]] = @ + 1]
  /\ feed' = feed \cup OwnEntries(t)
  /\ pending' = pending \ OwnEntries(t)
  /\ UNCHANGED <<drawn, cursor, known>>

(* Faulty variant: the value drawn is given back.                            *)
RollbackRedraws(t) ==
  /\ target[t] # NoRow
  /\ target' = [target EXCEPT ![t] = NoRow]
  /\ pending' = pending \ OwnEntries(t)
  /\ drawn' = drawn - 1
  /\ UNCHANGED <<version, feed, cursor, known>>

(* The value drawn from the sequence is lost.                                *)
Rollback(t) ==
  /\ target[t] # NoRow
  /\ target' = [target EXCEPT ![t] = NoRow]
  /\ pending' = pending \ OwnEntries(t)
  /\ UNCHANGED <<version, drawn, feed, cursor, known>>

(* pullChanges, and pullOnce applying what it gets.                          *)
Page ==
  LET after == {e \in feed : e.cursor > cursor} IN
  {e \in after : Cardinality({f \in after : f.cursor < e.cursor}) < PullSize}

Latest(S, r) == CHOOSE e \in S : e.row = r /\ \A f \in S : f.row = r => f.cursor <= e.cursor

Pull ==
  /\ Page # {}
  /\ cursor' = Top({e.cursor : e \in Page})
  /\ known' = [r \in Rows |-> IF \E e \in Page : e.row = r THEN Latest(Page, r).version
                              ELSE known[r]]
  /\ UNCHANGED <<target, version, drawn, pending, feed>>

(* createScopedSnapshot: rows and max(cursor_id) as one transaction sees     *)
(* them; applyScopedSnapshot replaces the mirror.                            *)
Snapshot ==
  /\ cursor' = IF feed = {} THEN 0 ELSE Top({e.cursor : e \in feed})
  /\ known' = version
  /\ UNCHANGED <<target, version, drawn, pending, feed>>

Next ==
  \/ \E t \in Transactions : (\E r \in Rows : WriteRow(t, r)) \/ Commit(t) \/ Rollback(t)
  \/ Snapshot \/ Pull

Spec == Init /\ [][Next]_vars

-----------------------------------------------------------------------------
(* Correctness.                                                              *)

FeedTypeOK ==
  /\ target \in [Transactions -> Rows \cup {NoRow}]
  /\ version \in [Rows -> Nat] /\ known \in [Rows -> Nat]
  /\ drawn \in Nat /\ cursor \in 0 .. drawn
  /\ \A e \in feed \cup pending : e.cursor \in 1 .. drawn /\ e.row \in Rows

(* The committed entries about one row carry its versions in cursor order,   *)
(* and a reader never goes back to an older version of a row: the lock on    *)
(* the row is held from the draw to the commit.                              *)
RowsAreReadInOrder ==
  /\ \A e, f \in feed : e.row = f.row /\ e.cursor < f.cursor => e.version < f.version
  /\ \A e \in feed : e.cursor > cursor => known[e.row] < e.version

-----------------------------------------------------------------------------
(* A statement of the report the code does not keep: run feed_snapshot.      *)

(* A "cursor consistent with the snapshot"                                   *)
(* (docs/OFFLINE_FIRST_SHIPPING_IMPLEMENTATION_REPORT_2026-07-17.md:211):    *)
(* what the snapshot does not show yet comes after its cursor.               *)
CursorFitsSnapshot ==
  [][Snapshot => \A e \in pending : e.cursor > cursor']_vars
=============================================================================
