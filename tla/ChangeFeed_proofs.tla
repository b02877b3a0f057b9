------------------------- MODULE ChangeFeed_proofs -------------------------
(* Theorems about the change feed under concurrent transactions, for any     *)
(* number of transactions and rows and any page size.                        *)
EXTENDS ChangeFeed, TLAPS, WellFoundedInduction

-----------------------------------------------------------------------------
(* The largest of bounded numbers.                                           *)

(* A nonempty set of numbers up to a bound has a largest element.            *)
LEMMA LargestExists ==
  ASSUME NEW bound \in Nat, NEW S \in SUBSET (0 .. bound), S # {}
  PROVE  \E k \in S : \A j \in S : j <= k
<1> DEFINE T == {bound - k : k \in S}
           R == OpToRel(<, Nat)
<1>1. T \subseteq Nat /\ T # {}
  <2>1. \A k \in S : k \in 0 .. bound /\ bound - k \in Nat
    OBVIOUS
  <2>2. PICK k \in S : TRUE
    OBVIOUS
  <2>3. bound - k \in T
    OBVIOUS
  <2> QED
    BY <2>1, <2>3
<1>2. PICK x \in T : \A y \in T : <<y, x>> \notin R
  BY <1>1, NatLessThanWellFounded, WFMin
<1>3. \A y \in T : ~(y < x)
  BY <1>1, <1>2 DEF OpToRel
<1>4. PICK k \in S : x = bound - k
  OBVIOUS
<1>5. ASSUME NEW j \in S
      PROVE  j <= k
  <2>1. bound - j \in T
    OBVIOUS
  <2>2. ~(bound - j < bound - k)
    BY <1>3, <1>4, <2>1
  <2>3. j \in 0 .. bound /\ k \in 0 .. bound
    OBVIOUS
  <2> QED
    BY <2>2, <2>3
<1> QED
  BY <1>5

(* Top chooses it.                                                           *)
LEMMA TopIsLargest ==
  ASSUME NEW bound \in Nat, NEW S \in SUBSET (0 .. bound), S # {}
  PROVE  Top(S) \in S /\ \A j \in S : j <= Top(S)
BY LargestExists DEF Top

-----------------------------------------------------------------------------
(* The invariant.  A transaction that has written holds the lock of its row  *)
(* alone, and its one entry carries the version after the committed one and  *)
(* the highest cursor value drawn for the row so far.                        *)

Entry == [cursor: 1 .. drawn, row: Rows, version: Nat, by: Transactions]

ShapeOK ==
  /\ target \in [Transactions -> Rows \cup {NoRow}]
  /\ version \in [Rows -> Nat] /\ known \in [Rows -> Nat]
  /\ drawn \in Nat /\ cursor \in 0 .. drawn
  /\ feed \subseteq Entry /\ pending \subseteq Entry

LocksAreExclusive ==
  \A t, u \in Transactions : t # u /\ target[t] # NoRow => target[t] # target[u]

PendingIsNext ==
  \A e \in pending :
    /\ target[e.by] = e.row
    /\ e.version = version[e.row] + 1
    /\ \A f \in feed : f.row = e.row => f.cursor < e.cursor
    /\ \A f \in pending : f.by = e.by => f = e

VersionsAreCommitted ==
  /\ \A e \in feed : e.version <= version[e.row]
  /\ \A r \in Rows : known[r] <= version[r]

FeedInv ==
  /\ ShapeOK /\ LocksAreExclusive /\ PendingIsNext /\ VersionsAreCommitted
  /\ RowsAreReadInOrder

(* A page holds entries after the cursor.                                    *)
LEMMA PageIsAhead == \A e \in Page : e \in feed /\ e.cursor > cursor
BY DEF Page

(* The pull moves the cursor to the last entry of its page.                  *)
LEMMA PullMovesOn ==
  ASSUME ShapeOK, Pull
  PROVE  /\ cursor' \in 0 .. drawn /\ cursor < cursor'
         /\ \A e \in Page : e.cursor <= cursor'
<1> DEFINE S == {e.cursor : e \in Page}
<1>1. S \in SUBSET (0 .. drawn) /\ S # {} /\ drawn \in Nat
  BY PageIsAhead DEF Pull, ShapeOK, Entry
<1>2. cursor' = Top(S)
  BY DEF Pull
<1>3. Top(S) \in S /\ \A j \in S : j <= Top(S)
  BY <1>1, TopIsLargest
<1>4. PICK e \in Page : Top(S) = e.cursor
  BY <1>3
<1> QED
  BY <1>1, <1>2, <1>3, <1>4, PageIsAhead DEF ShapeOK

(* What a reader knows of a row of the page is its last entry there.         *)
LEMMA LatestIsLast ==
  ASSUME ShapeOK, NEW r \in Rows, \E e \in Page : e.row = r
  PROVE  /\ Latest(Page, r) \in Page /\ Latest(Page, r).row = r
         /\ \A f \in Page : f.row = r => f.cursor <= Latest(Page, r).cursor
<1> DEFINE S == {e.cursor : e \in {g \in Page : g.row = r}}
<1>1. S \in SUBSET (0 .. drawn) /\ S # {} /\ drawn \in Nat
  BY PageIsAhead DEF ShapeOK, Entry
<1>2. PICK k \in S : \A j \in S : j <= k
  BY <1>1, LargestExists
<1>3. PICK e \in Page : e.row = r /\ e.cursor = k
  OBVIOUS
<1>4. \A f \in Page : f.row = r => f.cursor <= e.cursor
  BY <1>2, <1>3
<1> QED
  BY <1>3, <1>4 DEF Latest

(* An entry that is committed passes no entry about its row that was drawn   *)
(* later, and the transaction's entry is the only one that appears.          *)
LEMMA CommitKeepsInv ==
  ASSUME FeedInv, NEW t \in Transactions, Commit(t)
  PROVE  FeedInv'
<1> DEFINE r == target[t]
           own == OwnEntries(t)
<1>1. /\ r \in Rows /\ target' = [target EXCEPT ![t] = NoRow]
      /\ version' = [version EXCEPT ![r] = @ + 1]
      /\ feed' = feed \cup own /\ pending' = pending \ own
      /\ UNCHANGED <<drawn, cursor, known>>
  BY DEF Commit, FeedInv, ShapeOK
<1>2. \A e \in own : e \in pending /\ e.by = t /\ e.row = r /\ e.version = version[r] + 1
  BY DEF OwnEntries, FeedInv, PendingIsNext
<1>3. \A e, f \in own : e = f
  BY DEF OwnEntries, FeedInv, PendingIsNext
<1>4. /\ version[r] \in Nat /\ version'[r] = version[r] + 1
      /\ \A q \in Rows \ {r} : version'[q] = version[q]
  BY <1>1 DEF FeedInv, ShapeOK
<1>5. \A e \in pending' : e \in pending /\ e.by # t /\ e.row # r
  <2>1. SUFFICES ASSUME NEW e \in pending' PROVE e \in pending /\ e.by # t /\ e.row # r
    OBVIOUS
  <2>2. e \in pending /\ e.by # t /\ e.by \in Transactions
    BY <1>1 DEF OwnEntries, FeedInv, ShapeOK, Entry
  <2>3. target[e.by] = e.row
    BY <2>2 DEF FeedInv, PendingIsNext
  <2> QED
    BY <1>1, <2>2, <2>3, FeedAssumption DEF FeedInv, LocksAreExclusive
<1>6. ShapeOK'
  BY <1>1, <1>2, <1>4, FeedAssumption DEF FeedInv, ShapeOK, Entry
<1>7. LocksAreExclusive'
  BY <1>1, FeedAssumption DEF FeedInv, ShapeOK, LocksAreExclusive
<1>8. PendingIsNext'
  <2> SUFFICES ASSUME NEW e \in pending'
               PROVE  /\ target'[e.by] = e.row
                      /\ e.version = version'[e.row] + 1
                      /\ \A f \in feed' : f.row = e.row => f.cursor < e.cursor
                      /\ \A f \in pending' : f.by = e.by => f = e
    BY DEF PendingIsNext
  <2>1. /\ e \in pending /\ e.by # t /\ e.row # r
        /\ e.by \in Transactions /\ e.row \in Rows
    BY <1>5 DEF FeedInv, ShapeOK, Entry
  <2>2. /\ target[e.by] = e.row /\ e.version = version[e.row] + 1
        /\ \A f \in feed : f.row = e.row => f.cursor < e.cursor
        /\ \A f \in pending : f.by = e.by => f = e
    BY <2>1 DEF FeedInv, PendingIsNext
  <2>3. target'[e.by] = e.row /\ version'[e.row] = version[e.row]
    BY <1>1, <1>4, <2>1, <2>2 DEF FeedInv, ShapeOK
  <2> QED
    BY <1>1, <1>2, <2>1, <2>2, <2>3
<1>9. VersionsAreCommitted'
  <2>1. \A e \in feed : e.row \in Rows /\ e.version \in Nat /\ e.version <= version[e.row]
    BY DEF FeedInv, ShapeOK, Entry, VersionsAreCommitted
  <2>2. \A q \in Rows : version[q] \in Nat /\ known[q] \in Nat /\ known[q] <= version[q]
    BY DEF FeedInv, ShapeOK, VersionsAreCommitted
  <2>3. \A q \in Rows : version'[q] \in Nat /\ version[q] <= version'[q]
    BY <1>4, <2>2
  <2>4. \A e \in feed' : e.version <= version'[e.row]
    BY <1>1, <1>2, <1>4, <2>1, <2>2, <2>3
  <2>5. \A q \in Rows : known'[q] <= version'[q]
    BY <1>1, <2>2, <2>3
  <2> QED
    BY <2>4, <2>5 DEF VersionsAreCommitted
<1>10. RowsAreReadInOrder'
  <2>1. ASSUME NEW e \in feed', NEW f \in feed', e.row = f.row, e.cursor < f.cursor
        PROVE  e.version < f.version
    <3>1. CASE e \in feed /\ f \in feed
      BY <2>1, <3>1 DEF FeedInv, RowsAreReadInOrder
    <3>2. CASE e \in feed /\ f \in own
      <4>1. e.version \in Nat /\ e.version <= version[r]
        BY <1>2, <2>1, <3>2 DEF FeedInv, ShapeOK, Entry, VersionsAreCommitted
      <4> QED
        BY <1>2, <1>4, <3>2, <4>1
    <3>3. CASE e \in own /\ f \in feed
      <4>1. f.cursor < e.cursor /\ e.cursor \in Nat /\ f.cursor \in Nat
        BY <1>2, <2>1, <3>3 DEF FeedInv, PendingIsNext, ShapeOK, Entry
      <4> QED
        BY <2>1, <4>1
    <3>4. CASE e \in own /\ f \in own
      <4>1. e = f /\ e.cursor \in Nat
        BY <1>2, <1>3, <3>4 DEF FeedInv, ShapeOK, Entry
      <4> QED
        BY <2>1, <4>1
    <3> QED
      BY <1>1, <2>1, <3>1, <3>2, <3>3, <3>4
  <2>2. ASSUME NEW e \in feed', e.cursor > cursor
        PROVE  known[e.row] < e.version
    <3>1. CASE e \in feed
      BY <2>2, <3>1 DEF FeedInv, RowsAreReadInOrder
    <3>2. CASE e \in own
      <4>1. known[r] \in Nat /\ known[r] <= version[r]
        BY <1>1 DEF FeedInv, ShapeOK, VersionsAreCommitted
      <4> QED
        BY <1>2, <1>4, <3>2, <4>1
    <3> QED
      BY <1>1, <2>2, <3>1, <3>2
  <2> QED
    BY <1>1, <2>1, <2>2 DEF RowsAreReadInOrder
<1> QED
  BY <1>6, <1>7, <1>8, <1>9, <1>10 DEF FeedInv

(* A write draws a value above all others, for a row nobody else holds.      *)
LEMMA WriteKeepsInv ==
  ASSUME FeedInv, NEW t \in Transactions, NEW r \in Rows, WriteRow(t, r)
  PROVE  FeedInv'
<1> DEFINE new == [cursor |-> drawn + 1, row |-> r, version |-> version[r] + 1, by |-> t]
<1>1. /\ target[t] = NoRow /\ \A u \in Transactions : target[u] # r
      /\ target' = [target EXCEPT ![t] = r]
      /\ drawn' = drawn + 1 /\ pending' = pending \cup {new}
      /\ UNCHANGED <<version, feed, cursor, known>>
  BY DEF WriteRow, Unlocked
<1>2. /\ drawn \in Nat /\ version[r] \in Nat
      /\ \A e \in feed \cup pending :
           /\ e.cursor \in 1 .. drawn /\ e.row \in Rows /\ e.version \in Nat
           /\ e.by \in Transactions
  BY DEF FeedInv, ShapeOK, Entry
<1>3. \A e \in pending : e.by # t /\ e.row # r
  BY <1>1, <1>2, FeedAssumption DEF FeedInv, PendingIsNext
<1>4. Entry \subseteq Entry' /\ new \in Entry'
  BY <1>1, <1>2 DEF Entry
<1>5. ShapeOK'
  <2>1. feed' \subseteq Entry' /\ pending' \subseteq Entry'
    BY <1>1, <1>4 DEF FeedInv, ShapeOK
  <2> QED
    BY <1>1, <1>2, <2>1 DEF FeedInv, ShapeOK
<1>6. LocksAreExclusive'
  BY <1>1, FeedAssumption DEF FeedInv, ShapeOK, LocksAreExclusive
<1>7. PendingIsNext'
  <2> SUFFICES ASSUME NEW e \in pending'
               PROVE  /\ target'[e.by] = e.row
                      /\ e.version = version'[e.row] + 1
                      /\ \A f \in feed' : f.row = e.row => f.cursor < e.cursor
                      /\ \A f \in pending' : f.by = e.by => f = e
    BY DEF PendingIsNext
  <2>1. CASE e \in pending
    <3>1. /\ target[e.by] = e.row /\ e.version = version[e.row] + 1
          /\ \A f \in feed : f.row = e.row => f.cursor < e.cursor
          /\ \A f \in pending : f.by = e.by => f = e
      BY <2>1 DEF FeedInv, PendingIsNext
    <3>2. target'[e.by] = target[e.by]
      BY <1>1, <1>2, <1>3, <2>1 DEF FeedInv, ShapeOK
    <3> QED
      BY <1>1, <1>3, <2>1, <3>1, <3>2
  <2>2. CASE e = new
    <3>1. target'[t] = r
      BY <1>1 DEF FeedInv, ShapeOK
    <3>2. \A f \in feed : f.cursor < drawn + 1
      BY <1>2
    <3> QED
      BY <1>1, <1>3, <2>2, <3>1, <3>2
  <2> QED
    BY <1>1, <2>1, <2>2
<1>8. VersionsAreCommitted' /\ RowsAreReadInOrder'
  BY <1>1 DEF FeedInv, VersionsAreCommitted, RowsAreReadInOrder
<1> QED
  BY <1>5, <1>6, <1>7, <1>8 DEF FeedInv

(* A rollback takes the entry of the transaction away.                       *)
LEMMA RollbackKeepsInv ==
  ASSUME FeedInv, NEW t \in Transactions, Rollback(t)
  PROVE  FeedInv'
<1>1. /\ target' = [target EXCEPT ![t] = NoRow]
      /\ pending' = pending \ OwnEntries(t)
      /\ UNCHANGED <<version, drawn, feed, cursor, known>>
  BY DEF Rollback
<1>2. \A e \in pending' : e \in pending /\ e.by # t /\ e.by \in Transactions
  BY <1>1 DEF OwnEntries, FeedInv, ShapeOK, Entry
<1>3. ShapeOK'
  BY <1>1 DEF FeedInv, ShapeOK, Entry
<1>4. LocksAreExclusive'
  BY <1>1, FeedAssumption DEF FeedInv, ShapeOK, LocksAreExclusive
<1>5. PendingIsNext'
  <2>1. \A e \in pending' : target'[e.by] = target[e.by]
    BY <1>1, <1>2 DEF FeedInv, ShapeOK
  <2> QED
    BY <1>1, <1>2, <2>1 DEF FeedInv, PendingIsNext
<1>6. VersionsAreCommitted' /\ RowsAreReadInOrder'
  BY <1>1 DEF FeedInv, VersionsAreCommitted, RowsAreReadInOrder
<1> QED
  BY <1>3, <1>4, <1>5, <1>6 DEF FeedInv

(* A pull brings every row of its page to the last version there; what comes *)
(* after the page is newer.                                                  *)
LEMMA PullKeepsInv ==
  ASSUME FeedInv, Pull
  PROVE  FeedInv'
<1>1. /\ cursor' \in 0 .. drawn /\ cursor < cursor'
      /\ \A e \in Page : e.cursor <= cursor'
  BY PullMovesOn DEF FeedInv
<1>2. /\ UNCHANGED <<target, version, drawn, pending, feed>>
      /\ known' = [r \in Rows |-> IF \E e \in Page : e.row = r THEN Latest(Page, r).version
                                  ELSE known[r]]
  BY DEF Pull
<1>3. ASSUME NEW r \in Rows
      PROVE  /\ known'[r] \in Nat /\ known'[r] <= version[r]
             /\ \A e \in feed : e.row = r /\ e.cursor > cursor' => known'[r] < e.version
  <2>1. CASE \E e \in Page : e.row = r
    <3> DEFINE last == Latest(Page, r)
    <3>1. last \in Page /\ last.row = r
      BY <2>1, LatestIsLast DEF FeedInv
    <3>2. last \in feed /\ last.cursor <= cursor' /\ known'[r] = last.version
      BY <1>1, <1>2, <2>1, <3>1, PageIsAhead
    <3> HIDE DEF last
    <3>3. last.version \in Nat /\ last.version <= version[r] /\ last.cursor \in Nat
      BY <3>1, <3>2 DEF FeedInv, ShapeOK, Entry, VersionsAreCommitted
    <3>4. ASSUME NEW e \in feed, e.row = r, e.cursor > cursor'
          PROVE  last.version < e.version
      <4>1. e.cursor \in Nat /\ cursor' \in Nat
        BY <1>1 DEF FeedInv, ShapeOK, Entry
      <4>2. last.cursor < e.cursor
        BY <3>2, <3>3, <3>4, <4>1
      <4> QED
        BY <3>1, <3>2, <3>4, <4>2 DEF FeedInv, RowsAreReadInOrder
    <3> QED
      BY <3>2, <3>3, <3>4
  <2>2. CASE ~ \E e \in Page : e.row = r
    <3>1. known'[r] = known[r]
      BY <1>2, <2>2
    <3>2. known[r] \in Nat /\ known[r] <= version[r]
      BY DEF FeedInv, ShapeOK, VersionsAreCommitted
    <3>3. ASSUME NEW e \in feed, e.row = r, e.cursor > cursor'
          PROVE  known[r] < e.version
      <4>1. e.cursor \in Nat /\ cursor \in Nat /\ cursor' \in Nat
        BY <1>1 DEF FeedInv, ShapeOK, Entry
      <4>2. e.cursor > cursor
        BY <1>1, <3>3, <4>1
      <4> QED
        BY <3>3, <4>2 DEF FeedInv, RowsAreReadInOrder
    <3> QED
      BY <3>1, <3>2, <3>3
  <2> QED
    BY <2>1, <2>2
<1>4. known' \in [Rows -> Nat]
  BY <1>2, <1>3
<1>5. ShapeOK'
  BY <1>1, <1>2, <1>4 DEF FeedInv, ShapeOK, Entry
<1>6. LocksAreExclusive' /\ PendingIsNext'
  BY <1>2 DEF FeedInv, LocksAreExclusive, PendingIsNext
<1>7. VersionsAreCommitted'
  BY <1>2, <1>3 DEF FeedInv, VersionsAreCommitted
<1>8. RowsAreReadInOrder'
  <2>1. \A e \in feed : e.row \in Rows
    BY DEF FeedInv, ShapeOK, Entry
  <2> QED
    BY <1>2, <1>3, <2>1 DEF FeedInv, RowsAreReadInOrder
<1> QED
  BY <1>5, <1>6, <1>7, <1>8 DEF FeedInv

(* A snapshot shows what is committed, and no committed entry is beyond it.  *)
LEMMA SnapshotKeepsInv ==
  ASSUME FeedInv, Snapshot
  PROVE  FeedInv'
<1> DEFINE S == {e.cursor : e \in feed}
<1>1. /\ UNCHANGED <<target, version, drawn, pending, feed>> /\ known' = version
      /\ cursor' = IF feed = {} THEN 0 ELSE Top(S)
  BY DEF Snapshot
<1>2. cursor' \in 0 .. drawn /\ \A e \in feed : e.cursor <= cursor'
  <2>1. CASE feed = {}
    BY <1>1, <2>1 DEF FeedInv, ShapeOK
  <2>2. CASE feed # {}
    <3>1. S \in SUBSET (0 .. drawn) /\ S # {} /\ drawn \in Nat
      BY <2>2 DEF FeedInv, ShapeOK, Entry
    <3>2. Top(S) \in S /\ \A j \in S : j <= Top(S)
      BY <3>1, TopIsLargest
    <3> QED
      BY <1>1, <2>2, <3>1, <3>2
  <2> QED
    BY <2>1, <2>2
<1>3. \A e \in feed : e.cursor \in Nat
  BY DEF FeedInv, ShapeOK, Entry
<1>4. ShapeOK'
  BY <1>1, <1>2 DEF FeedInv, ShapeOK, Entry
<1>5. LocksAreExclusive' /\ PendingIsNext'
  BY <1>1 DEF FeedInv, LocksAreExclusive, PendingIsNext
<1>6. VersionsAreCommitted'
  BY <1>1 DEF FeedInv, ShapeOK, VersionsAreCommitted
<1>7. RowsAreReadInOrder'
  <2>1. drawn \in Nat /\ \A e \in feed : ~(e.cursor > cursor')
    BY <1>2, <1>3 DEF FeedInv, ShapeOK
  <2> QED
    BY <1>1, <2>1 DEF FeedInv, RowsAreReadInOrder
<1> QED
  BY <1>4, <1>5, <1>6, <1>7 DEF FeedInv

-----------------------------------------------------------------------------
(* The invariant of every behaviour.                                         *)
LEMMA FeedInvariant == Spec => []FeedInv
<1>1. Init => FeedInv
  BY FeedAssumption
     DEF Init, FeedInv, ShapeOK, LocksAreExclusive, PendingIsNext, VersionsAreCommitted,
         RowsAreReadInOrder
<1>2. FeedInv /\ [Next]_vars => FeedInv'
  <2> SUFFICES ASSUME FeedInv, [Next]_vars
               PROVE  FeedInv'
    OBVIOUS
  <2>1. ASSUME NEW t \in Transactions, NEW r \in Rows, WriteRow(t, r)
        PROVE  FeedInv'
    BY <2>1, WriteKeepsInv
  <2>2. ASSUME NEW t \in Transactions, Commit(t)
        PROVE  FeedInv'
    BY <2>2, CommitKeepsInv
  <2>3. ASSUME NEW t \in Transactions, Rollback(t)
        PROVE  FeedInv'
    BY <2>3, RollbackKeepsInv
  <2>4. CASE Snapshot
    BY <2>4, SnapshotKeepsInv
  <2>5. CASE Pull
    BY <2>5, PullKeepsInv
  <2>6. CASE UNCHANGED vars
    BY <2>6 DEF vars, FeedInv, ShapeOK, Entry, LocksAreExclusive, PendingIsNext,
                VersionsAreCommitted, RowsAreReadInOrder
  <2> QED
    BY <2>1, <2>2, <2>3, <2>4, <2>5, <2>6 DEF Next
<1> QED
  BY <1>1, <1>2, PTL DEF Spec

(* The sequence behind cursor_id is never behind an entry or a reader,       *)
(* whatever is rolled back.                                                  *)
THEOREM FeedIsTyped == Spec => []FeedTypeOK
<1>1. FeedInv => FeedTypeOK
  BY DEF FeedInv, ShapeOK, Entry, FeedTypeOK
<1> QED
  BY <1>1, FeedInvariant, PTL

(* The entries about one row are committed in the order of their cursor      *)
(* values, and no reader goes back to an older version of a row, whatever    *)
(* transactions overlap, wherever pages end and whenever a snapshot is taken *)
(* again.                                                                    *)
THEOREM RowsStayInOrder == Spec => []RowsAreReadInOrder
<1>1. FeedInv => RowsAreReadInOrder
  BY DEF FeedInv
<1> QED
  BY <1>1, FeedInvariant, PTL
=============================================================================
