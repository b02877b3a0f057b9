------------------------- MODULE CentralSync_proofs -------------------------
(* Theorems about the central node, for any devices, entities, scopes and    *)
(* operations.  First the types and what a step does to the tables and the   *)
(* feed; then what the entries of a row say about the row; then that the     *)
(* node implements DecisionLog.                                              *)
EXTENDS CentralSync, SequenceTheorems, TLAPS

-----------------------------------------------------------------------------
(* A step on any operation whatever.  CentralNext takes them from Requests;  *)
(* in LedgerSync they are those the node has sent.                           *)
CentralStep ==
  \/ \E op \in Operation : Push(op) \/ ReplayFails(op)
  \/ \E i \in OpIds : ResolveSyncConflict(i)
  \/ \E e \in Entities : CentralEdit(e) \/ CentralRevive(e)
  \/ \E d \in Devices : SetDevice(d)

LEMMA NextIsStep == [CentralNext]_centralVars => [CentralStep]_centralVars
BY CentralAssumption DEF CentralNext, CentralStep

-----------------------------------------------------------------------------
(* Types.                                                                    *)

(* A stored verdict keeps the table of results well typed.                   *)
LEMMA FinishTyped ==
  ASSUME CentralTypeOK, NEW op \in Operation, NEW status \in Verdicts,
         NEW version \in Nat, NEW content \in Contents \cup {NoContent},
         FinishResult(op, status, version, content)
  PROVE  results' \in [OpIds -> Result \cup {NoResult}]
<1>1. op \in Operation /\ op.entity \in Entities /\ op.payload \in Contents
  BY DEF Operation
<1>2. [status |-> status, entity |-> op.entity, hash |-> op.payload,
       version |-> version, content |-> content] \in Result
  BY <1>1 DEF Result
<1> QED
  BY <1>2 DEF FinishResult, CentralTypeOK

(* An insert or an update keeps the tables and the feed well typed.          *)
LEMMA WriteTyped ==
  ASSUME CentralTypeOK, NEW e \in Entities, NEW row \in Row, NEW source \in Sources,
         Write(e, row, source)
  PROVE  rows' \in [Entities -> Row \cup {NoRow}] /\ feed' \in Seq(FeedEntry)
<1>1. [entity |-> e, version |-> row.version, content |-> row.content,
       source |-> source, tombstone |-> FALSE] \in FeedEntry
  BY DEF Row, FeedEntry
<1> QED
  BY <1>1 DEF Write, Publish, CentralTypeOK

(* A hard delete keeps the tables and the feed well typed.                   *)
LEMMA EraseTyped ==
  ASSUME CentralTypeOK, NEW e \in Entities, Exists(e), NEW source \in Sources,
         Erase(e, source)
  PROVE  rows' \in [Entities -> Row \cup {NoRow}] /\ feed' \in Seq(FeedEntry)
<1>1. rows[e] \in Row
  BY DEF Exists, CentralTypeOK
<1>2. [entity |-> e, version |-> rows[e].version, content |-> NoContent,
       source |-> source, tombstone |-> TRUE] \in FeedEntry
  BY <1>1 DEF Row, FeedEntry
<1> QED
  BY <1>2 DEF Erase, Publish, CentralTypeOK

(* The version trigger adds one and touches nothing else.                    *)
LEMMA BumpedRow ==
  ASSUME NEW row \in Row
  PROVE  /\ Bumped(row) \in Row
         /\ Bumped(row).version = row.version + 1
         /\ Bumped(row).origin = row.origin
BY DEF Bumped, Row

(* An accepted operation leaves a row of its device.                         *)
LEMMA StampedRow ==
  ASSUME NEW row \in Row, NEW content \in Contents, NEW op \in Operation
  PROVE  /\ Stamped(Bumped(row), content, op) \in Row
         /\ Stamped(Bumped(row), content, op).version = row.version + 1
         /\ Stamped(Bumped(row), content, op).origin = op.device
<1>1. op.device \in Devices /\ op.seq \in Nat
  BY DEF Operation
<1> QED
  BY <1>1, BumpedRow DEF Stamped, Row, Sources

(* A row written by a reviewed conflict is well typed.                       *)
LEMMA ReviewedRowTyped ==
  ASSUME CentralTypeOK, NEW e \in Entities, NEW content \in Contents, NEW d \in Devices
  PROVE  /\ ReviewedRow(e, content, d) \in Row
         /\ ReviewedRow(e, content, d).origin = d
         /\ ReviewedRow(e, content, d).content = content
         /\ ReviewedRow(e, content, d).version =
              IF Exists(e) THEN rows[e].version + 1 ELSE 0
<1>1. CASE Exists(e)
  <2>1. rows[e] \in Row
    BY <1>1 DEF Exists, CentralTypeOK
  <2>2. Bumped(rows[e]) \in Row /\ Bumped(rows[e]).version = rows[e].version + 1
    BY <2>1, BumpedRow
  <2> QED
    BY <1>1, <2>2 DEF ReviewedRow, Row, Sources
<1>2. CASE ~Exists(e)
  BY <1>2 DEF ReviewedRow, Row, Sources
<1> QED
  BY <1>1, <1>2

-----------------------------------------------------------------------------
(* What a step does to the tables and to the feed: it leaves both alone,     *)
(* writes one row, erases one, or publishes a tombstone for a row that is    *)
(* gone.                                                                     *)

(* The version of the row one write leaves.                                  *)
NextVersion(e) == IF Exists(e) THEN rows[e].version + 1 ELSE 0

(* A write of a row for a device makes the device its origin; the screens    *)
(* leave the origin as it was.                                               *)
WritesRow(e, row, source) ==
  /\ Write(e, row, source)
  /\ row.version = NextVersion(e)
  /\ IF source = NoDevice
     THEN row.origin = IF Exists(e) THEN rows[e].origin ELSE NoDevice
     ELSE row.origin = source

ErasesRow(e, source) ==
  e \notin SoftEntities /\ Exists(e) /\ Erase(e, source)

RepeatsTombstone(i) ==
  /\ conflicts[i] # NoConflict /\ ~Exists(conflicts[i].entity)
  /\ UNCHANGED rows
  /\ Publish(conflicts[i].entity, conflicts[i].version, NoContent, i[1], TRUE)

LedgerStep ==
  \/ UNCHANGED <<rows, feed>>
  \/ \E e \in Entities, row \in Row, source \in Sources : WritesRow(e, row, source)
  \/ \E e \in Entities, source \in Sources : ErasesRow(e, source)
  \/ \E i \in OpIds : RepeatsTombstone(i)

(* The row a screen of the centre leaves.                                    *)
LEMMA RewordWrites ==
  ASSUME CentralTypeOK, NEW e \in Entities, NEW content \in Contents,
         Exists(e), Reword(e, content)
  PROVE  \E row \in Row : WritesRow(e, row, NoDevice)
<1> DEFINE row == [Bumped(rows[e]) EXCEPT !.content = content]
<1>1. rows[e] \in Row
  BY DEF Exists, CentralTypeOK
<1>2. /\ Bumped(rows[e]) \in Row
      /\ Bumped(rows[e]).version = rows[e].version + 1
      /\ Bumped(rows[e]).origin = rows[e].origin
  BY <1>1, BumpedRow
<1>3. row \in Row /\ row.version = rows[e].version + 1 /\ row.origin = rows[e].origin
  BY <1>2 DEF Row
<1> HIDE DEF row
<1>4. Write(e, row, NoDevice)
  BY DEF Reword, row
<1>5. WritesRow(e, row, NoDevice)
  BY <1>3, <1>4 DEF WritesRow, NextVersion
<1> QED
  BY <1>3, <1>5

(* Every step of the centre is one of the four.                              *)
LEMMA StepsOfTheLedger ==
  ASSUME CentralTypeOK, [CentralStep]_centralVars
  PROVE  LedgerStep
<1>1. ASSUME NEW op \in Operation, Push(op)
      PROVE  LedgerStep
  <2> DEFINE e == op.entity
  <2>1. op \in Operation /\ e \in Entities /\ op.device \in Devices /\ op.payload \in Contents
        /\ op.seq \in Nat
    BY DEF Operation
  <2>2. op.device \in Sources /\ op.device # NoDevice
    BY <2>1, BaseAssumption DEF Sources
  <2>3. CASE ParkDependency(op) \/ RejectScope(op) \/ RaiseConflict(op) \/ KeepRow(op)
             \/ DeleteNothing(op) \/ ProcessingFails(op)
    BY <2>3 DEF LedgerStep, ParkDependency, RejectScope, RaiseConflict, KeepRow,
                DeleteNothing, ProcessingFails
  <2>4. CASE InsertRow(op)
    <3> DEFINE row == [content |-> op.payload, version |-> 0,
                       origin |-> op.device, lastSeq |-> op.seq]
    <3>1. row \in Row
      BY <2>1, <2>2 DEF Row
    <3>2. WritesRow(e, row, op.device)
      BY <2>2, <2>4 DEF InsertRow, WritesRow, NextVersion
    <3> QED
      BY <2>1, <2>2, <3>1, <3>2 DEF LedgerStep
  <2>5. ASSUME NEW content \in Contents, Exists(e),
               Write(e, Stamped(Bumped(rows[e]), content, op), op.device)
        PROVE  LedgerStep
    <3> DEFINE row == Stamped(Bumped(rows[e]), content, op)
    <3>1. rows[e] \in Row
      BY <2>1, <2>5 DEF Exists, CentralTypeOK
    <3>2. row \in Row /\ row.version = rows[e].version + 1 /\ row.origin = op.device
      BY <3>1, StampedRow
    <3>3. Write(e, row, op.device)
      BY <2>5
    <3> HIDE DEF row
    <3>4. WritesRow(e, row, op.device)
      BY <2>2, <2>5, <3>2, <3>3 DEF WritesRow, NextVersion
    <3> QED
      BY <2>1, <2>2, <3>2, <3>4 DEF LedgerStep
  <2>6. CASE UpdateRow(op)
    BY <2>1, <2>5, <2>6 DEF UpdateRow
  <2>7. CASE SoftDelete(op)
    BY <2>5, <2>7, BaseAssumption DEF SoftDelete
  <2>8. CASE HardDelete(op)
    BY <2>1, <2>2, <2>8 DEF HardDelete, LedgerStep, ErasesRow
  <2> QED
    BY <1>1, <2>3, <2>4, <2>6, <2>7, <2>8 DEF Push
<1>2. ASSUME NEW op \in Operation, ReplayFails(op)
      PROVE  LedgerStep
  BY <1>2 DEF ReplayFails, LedgerStep
<1>3. ASSUME NEW i \in OpIds, ReviewRow(i)
      PROVE  LedgerStep
  <2> DEFINE e == conflicts[i].entity
  <2>1. e \in Entities
    BY <1>3 DEF ReviewRow, IsOpen, CentralTypeOK, Conflict
  <2>2. PICK content \in Contents : ResolveWith(i, content)
    BY <1>3 DEF ReviewRow, ContentsOf
  <2>3. i[1] \in Devices /\ i[1] \in Sources /\ i[1] # NoDevice
    BY BaseAssumption DEF OpIds, Sources
  <2> DEFINE row == ReviewedRow(e, content, i[1])
  <2>4. row \in Row /\ row.origin = i[1] /\ row.version = NextVersion(e)
    BY <2>1, <2>3, ReviewedRowTyped DEF NextVersion
  <2>5. Write(e, row, i[1])
    BY <2>2 DEF ResolveWith
  <2> HIDE DEF row
  <2>6. WritesRow(e, row, i[1])
    BY <2>3, <2>4, <2>5 DEF WritesRow
  <2> QED
    BY <2>1, <2>3, <2>4, <2>6 DEF LedgerStep
<1>4. ASSUME NEW i \in OpIds, KeepGone(i)
      PROVE  LedgerStep
  BY <1>4 DEF KeepGone, IsOpen, LedgerStep, RepeatsTombstone
<1>5. ASSUME NEW e \in Entities, CentralInsert(e)
      PROVE  LedgerStep
  <2>1. PICK content \in Contents :
          Write(e, [content |-> content, version |-> 0, origin |-> NoDevice, lastSeq |-> 0],
                NoDevice)
    BY <1>5 DEF CentralInsert
  <2> DEFINE row == [content |-> content, version |-> 0, origin |-> NoDevice, lastSeq |-> 0]
  <2>2. row \in Row
    BY DEF Row, Sources
  <2>3. WritesRow(e, row, NoDevice)
    BY <1>5, <2>1 DEF CentralInsert, WritesRow, NextVersion
  <2> QED
    BY <2>2, <2>3 DEF LedgerStep, Sources
<1>6. ASSUME NEW e \in Entities, CentralUpdate(e) \/ CentralRevive(e)
      PROVE  LedgerStep
  <2>1. PICK content \in Contents : Exists(e) /\ Reword(e, content)
    BY <1>6 DEF CentralUpdate, CentralRevive
  <2> QED
    BY <2>1, RewordWrites DEF LedgerStep, Sources
<1>7. ASSUME NEW e \in Entities, CentralDelete(e)
      PROVE  LedgerStep
  BY <1>7 DEF CentralDelete, ErasableOnScreen, ErasesRow, LedgerStep, Sources
<1>8. ASSUME NEW d \in Devices, SetDevice(d)
      PROVE  LedgerStep
  BY <1>8 DEF SetDevice, LedgerStep
<1>9. CASE UNCHANGED centralVars
  BY <1>9 DEF centralVars, LedgerStep
<1> QED
  BY <1>1, <1>2, <1>3, <1>4, <1>5, <1>6, <1>7, <1>8, <1>9
     DEF CentralStep, ResolveSyncConflict, CentralEdit

-----------------------------------------------------------------------------
(* Types and conflicts.  The review of a conflict updates the result of its  *)
(* operation, so that the types hold only because an open case has a result: *)
(* the two are invariant together.                                           *)
CentralInv == CentralTypeOK /\ ConflictsHaveACase

(* An entry of the feed about row e, on behalf of source.                    *)
PublishesFor(e, source) ==
  \E version \in Nat, content \in Contents \cup {NoContent}, tombstone \in BOOLEAN :
    Publish(e, version, content, source, tombstone)

(* A decision stores one of the verdicts, on an operation without one, opens *)
(* a case exactly for a CONFLICT, and publishes for an ACCEPTED at most.     *)
DecidesOperation(op) ==
  \E status \in Verdicts, version \in Nat, content \in Contents \cup {NoContent} :
    /\ FirstSeen(op)
    /\ FinishResult(op, status, version, content)
    /\ IF status # "CONFLICT" THEN UNCHANGED conflicts
       ELSE \E c \in Conflict :
              /\ conflicts' = [conflicts EXCEPT ![IdOf(op)] = c]
              /\ c.status = "OPEN" /\ c.entity = op.entity
    /\ UNCHANGED feed \/ (status = "ACCEPTED" /\ PublishesFor(op.entity, op.device))

(* Every disjunct of applyPushOperation is such a decision.                  *)
LEMMA PushDecides ==
  ASSUME CentralTypeOK, NEW op \in Operation, Push(op)
  PROVE  DecidesOperation(op) /\ UNCHANGED active
<1> DEFINE e == op.entity
<1>1. /\ e \in Entities /\ op.device \in Devices /\ op.payload \in Contents
      /\ op.seq \in Nat
  BY DEF Operation
<1>2. Exists(e) => rows[e].version \in Nat /\ rows[e].content \in Contents
  BY <1>1 DEF Exists, CentralTypeOK, Row
<1>3. CASE ParkDependency(op)
  BY <1>3 DEF ParkDependency, DecidesOperation, Verdicts
<1>4. CASE RejectScope(op)
  BY <1>4 DEF RejectScope, DecidesOperation, Verdicts
<1>5. CASE RaiseConflict(op)
  <2> DEFINE c == [status |-> "OPEN", entity |-> e, content |-> op.payload,
                   version |-> rows[e].version]
  <2>1. Exists(e)
    BY <1>5 DEF RaiseConflict, VersionMismatch
  <2>2. c \in Conflict
    BY <1>1, <1>2, <2>1 DEF Conflict
  <2>3. conflicts' = [conflicts EXCEPT ![IdOf(op)] = c]
    BY <1>5 DEF RaiseConflict
  <2> QED
    BY <1>2, <1>5, <2>1, <2>2, <2>3
       DEF RaiseConflict, Admitted, DecidesOperation, Verdicts
<1>6. CASE InsertRow(op)
  <2>1. Publish(e, 0, op.payload, op.device, FALSE)
    BY <1>6 DEF InsertRow, Write
  <2>2. PublishesFor(e, op.device)
    BY <1>1, <2>1 DEF PublishesFor
  <2> QED
    BY <1>1, <1>6, <2>2 DEF InsertRow, Accepts, Admitted, DecidesOperation, Verdicts
<1>7. CASE KeepRow(op)
  BY <1>2, <1>7 DEF KeepRow, Accepts, Admitted, DecidesOperation, Verdicts
<1>8. ASSUME NEW content \in Contents, Exists(e), Accepts(op), UNCHANGED <<conflicts, active>>,
             LET row == Stamped(Bumped(rows[e]), content, op)
             IN  /\ FinishResult(op, "ACCEPTED", row.version, row.content)
                 /\ Write(e, row, op.device)
      PROVE  DecidesOperation(op) /\ UNCHANGED active
  <2> DEFINE row == Stamped(Bumped(rows[e]), content, op)
  <2>1. row \in Row
    BY <1>1, <1>8, StampedRow DEF Exists, CentralTypeOK
  <2>2. row.version \in Nat /\ row.content \in Contents
    BY <2>1 DEF Row
  <2>3. FinishResult(op, "ACCEPTED", row.version, row.content) /\ Write(e, row, op.device)
    BY <1>8
  <2> HIDE DEF row
  <2>4. PublishesFor(e, op.device)
    BY <2>2, <2>3 DEF Write, PublishesFor
  <2> QED
    BY <1>8, <2>2, <2>3, <2>4 DEF Accepts, Admitted, DecidesOperation, Verdicts
<1>9. CASE UpdateRow(op)
  BY <1>1, <1>8, <1>9 DEF UpdateRow
<1>10. CASE SoftDelete(op)
  BY <1>8, <1>10, BaseAssumption DEF SoftDelete
<1>11. CASE HardDelete(op)
  <2>1. Publish(e, rows[e].version, NoContent, op.device, TRUE)
    BY <1>11 DEF HardDelete, Erase
  <2>2. PublishesFor(e, op.device)
    BY <1>2, <1>11, <2>1 DEF HardDelete, PublishesFor
  <2> QED
    BY <1>2, <1>11, <2>2 DEF HardDelete, Accepts, Admitted, DecidesOperation, Verdicts
<1>12. CASE DeleteNothing(op)
  BY <1>12, BaseAssumption DEF DeleteNothing, Accepts, Admitted, DecidesOperation, Verdicts
<1>13. CASE ProcessingFails(op)
  BY <1>13 DEF ProcessingFails, DecidesOperation, Verdicts
<1> QED
  BY <1>3, <1>4, <1>5, <1>6, <1>7, <1>9, <1>10, <1>11, <1>12, <1>13 DEF Push

(* A review closes one open case, with a version and a content on record,    *)
(* and publishes on behalf of the device of the operation.                   *)
LEMMA ReviewCloses ==
  ASSUME CentralTypeOK, NEW i \in OpIds, ResolveSyncConflict(i)
  PROVE  /\ IsOpen(i) /\ conflicts[i].entity \in Entities
         /\ \E version \in Nat, content \in Contents \cup {NoContent} :
              Close(i, version, content)
         /\ PublishesFor(conflicts[i].entity, i[1])
<1> DEFINE e == conflicts[i].entity
<1>1. IsOpen(i) /\ e \in Entities /\ conflicts[i].version \in Nat /\ i[1] \in Devices
  BY DEF ResolveSyncConflict, ReviewRow, KeepGone, IsOpen, CentralTypeOK, Conflict, OpIds
<1>2. CASE ReviewRow(i)
  <2>1. PICK content \in Contents : ResolveWith(i, content)
    BY <1>2 DEF ReviewRow, ContentsOf
  <2> DEFINE row == ReviewedRow(e, content, i[1])
  <2>2. row \in Row
    BY <1>1, ReviewedRowTyped
  <2>3. row.version \in Nat /\ row.content \in Contents
    BY <2>2 DEF Row
  <2>4. Close(i, row.version, content) /\ Publish(e, row.version, row.content, i[1], FALSE)
    BY <2>1 DEF ResolveWith, Write
  <2> HIDE DEF row
  <2>5. PublishesFor(e, i[1])
    BY <2>3, <2>4 DEF PublishesFor
  <2> QED
    BY <1>1, <2>3, <2>4, <2>5
<1>3. CASE KeepGone(i)
  <2>1. Publish(e, conflicts[i].version, NoContent, i[1], TRUE)
    BY <1>3 DEF KeepGone
  <2>2. PublishesFor(e, i[1])
    BY <1>1, <2>1 DEF PublishesFor
  <2> QED
    BY <1>1, <1>3, <2>2 DEF KeepGone
<1> QED
  BY <1>2, <1>3 DEF ResolveSyncConflict

(* A decision on an operation preserves types and conflicts.                 *)
LEMMA DecisionKeepsInv ==
  ASSUME CentralInv, NEW op \in Operation, DecidesOperation(op)
  PROVE  /\ results' \in [OpIds -> Result \cup {NoResult}]
         /\ conflicts' \in [OpIds -> Conflict \cup {NoConflict}]
         /\ ConflictsHaveACase'
<1> DEFINE id == IdOf(op)
<1>1. PICK status \in Verdicts, version \in Nat, content \in Contents \cup {NoContent} :
        /\ FirstSeen(op)
        /\ FinishResult(op, status, version, content)
        /\ IF status # "CONFLICT" THEN UNCHANGED conflicts
           ELSE \E c \in Conflict :
                  /\ conflicts' = [conflicts EXCEPT ![id] = c]
                  /\ c.status = "OPEN" /\ c.entity = op.entity
  BY DEF DecidesOperation
<1>2. id \in OpIds
  BY DEF Operation, IdOf, OpIds
<1>3. results' \in [OpIds -> Result \cup {NoResult}]
  BY <1>1, FinishTyped DEF CentralInv
<1>4. conflicts' \in [OpIds -> Conflict \cup {NoConflict}]
  BY <1>1, <1>2 DEF CentralInv, CentralTypeOK
<1>5. results[id] = NoResult /\ ~IsOpen(id)
  BY <1>1, <1>2 DEF FirstSeen, CentralInv, ConflictsHaveACase
<1>6. /\ results'[id] \in Result
      /\ results'[id].status = status /\ results'[id].entity = op.entity
  <2>1. results'[id] = [status |-> status, entity |-> op.entity, hash |-> op.payload,
                        version |-> version, content |-> content]
    BY <1>1, <1>2 DEF FinishResult, CentralInv, CentralTypeOK
  <2>2. op.entity \in Entities /\ op.payload \in Contents
    BY DEF Operation
  <2> QED
    BY <2>1, <2>2 DEF Result
<1>7. \A i \in OpIds \ {id} : results'[i] = results[i] /\ conflicts'[i] = conflicts[i]
  BY <1>1, <1>2 DEF FinishResult, CentralInv, CentralTypeOK
<1>8. CASE status # "CONFLICT"
  <2>1. ~IsOpen(id)'
    BY <1>1, <1>5, <1>8 DEF IsOpen
  <2> QED
    BY <1>3, <1>4, <1>6, <1>7, <1>8, <2>1 DEF CentralInv, ConflictsHaveACase, IsOpen
<1>9. CASE status = "CONFLICT"
  <2>1. PICK c \in Conflict : /\ conflicts' = [conflicts EXCEPT ![id] = c]
                              /\ c.status = "OPEN" /\ c.entity = op.entity
    BY <1>1, <1>9
  <2>2. conflicts'[id] = c /\ c # NoConflict
    BY <1>2, <2>1, SentinelAssumption DEF CentralInv, CentralTypeOK
  <2>3. results'[id] # NoResult
    BY <1>6, SentinelAssumption
  <2>4. IsOpen(id)' /\ results'[id].entity = conflicts'[id].entity
    BY <1>6, <2>1, <2>2 DEF IsOpen
  <2> QED
    BY <1>3, <1>4, <1>6, <1>7, <1>9, <2>3, <2>4 DEF CentralInv, ConflictsHaveACase, IsOpen
<1> QED
  BY <1>8, <1>9

(* So does a replay that fails.                                              *)
LEMMA ReplayKeepsInv ==
  ASSUME CentralInv, NEW op \in Operation, ReplayFails(op)
  PROVE  /\ results' \in [OpIds -> Result \cup {NoResult}]
         /\ ConflictsHaveACase'
<1> DEFINE id == IdOf(op)
           r == [results[id] EXCEPT !.status = "CENTRAL_PROCESSING_FAILED"]
<1>1. id \in OpIds
  BY DEF Operation, IdOf, OpIds
<1>2. results[id] \in Result /\ results' = [results EXCEPT ![id] = r]
  BY <1>1 DEF ReplayFails, CentralInv, CentralTypeOK
<1>3. r \in Result /\ r.status = "CENTRAL_PROCESSING_FAILED" /\ r.entity = results[id].entity
  BY <1>2 DEF Result, Verdicts
<1> HIDE DEF r
<1>4. /\ results'[id] = r /\ r # NoResult
      /\ \A i \in OpIds \ {id} : results'[i] = results[i]
  BY <1>1, <1>2, <1>3, SentinelAssumption DEF CentralInv, CentralTypeOK
<1>5. results' \in [OpIds -> Result \cup {NoResult}]
  BY <1>2, <1>3 DEF CentralInv, CentralTypeOK
<1>6. UNCHANGED conflicts
  BY DEF ReplayFails
<1> QED
  BY <1>3, <1>4, <1>5, <1>6 DEF CentralInv, ConflictsHaveACase, IsOpen

(* And the end of a review: the case is closed, the result ACCEPTED.         *)
LEMMA CloseKeepsInv ==
  ASSUME CentralInv, NEW i \in OpIds, IsOpen(i), NEW version \in Nat,
         NEW content \in Contents \cup {NoContent}, Close(i, version, content)
  PROVE  /\ results' \in [OpIds -> Result \cup {NoResult}]
         /\ conflicts' \in [OpIds -> Conflict \cup {NoConflict}]
         /\ ConflictsHaveACase'
<1> DEFINE r == [[[results[i] EXCEPT !.status = "ACCEPTED"] EXCEPT !.version = version]
                    EXCEPT !.content = content]
           c == [conflicts[i] EXCEPT !.status = "RESOLVED"]
<1>1. results[i] \in Result /\ conflicts[i] \in Conflict
  BY DEF CentralInv, CentralTypeOK, ConflictsHaveACase, IsOpen
<1>2. r \in Result /\ r.status = "ACCEPTED"
  BY <1>1 DEF Result, Verdicts
<1>3. c \in Conflict /\ c.status = "RESOLVED"
  BY <1>1 DEF Conflict
<1>4. results' = [results EXCEPT ![i] = r] /\ conflicts' = [conflicts EXCEPT ![i] = c]
  BY DEF Close, CentralInv, CentralTypeOK
<1> HIDE DEF r, c
<1>5. /\ results'[i] = r /\ conflicts'[i] = c
      /\ \A j \in OpIds \ {i} : results'[j] = results[j] /\ conflicts'[j] = conflicts[j]
  BY <1>4 DEF CentralInv, CentralTypeOK
<1>6. /\ results' \in [OpIds -> Result \cup {NoResult}]
      /\ conflicts' \in [OpIds -> Conflict \cup {NoConflict}]
  BY <1>2, <1>3, <1>4 DEF CentralInv, CentralTypeOK
<1> QED
  BY <1>2, <1>3, <1>5, <1>6 DEF CentralInv, ConflictsHaveACase, IsOpen

(* The ledger and the feed stay well typed, whatever the step.               *)
LEMMA LedgerStaysTyped ==
  ASSUME CentralTypeOK, LedgerStep
  PROVE  rows' \in [Entities -> Row \cup {NoRow}] /\ feed' \in Seq(FeedEntry)
<1>1. CASE UNCHANGED <<rows, feed>>
  BY <1>1 DEF CentralTypeOK
<1>2. ASSUME NEW e \in Entities, NEW row \in Row, NEW source \in Sources,
             WritesRow(e, row, source)
      PROVE  rows' \in [Entities -> Row \cup {NoRow}] /\ feed' \in Seq(FeedEntry)
  BY <1>2, WriteTyped DEF WritesRow
<1>3. ASSUME NEW e \in Entities, NEW source \in Sources, ErasesRow(e, source)
      PROVE  rows' \in [Entities -> Row \cup {NoRow}] /\ feed' \in Seq(FeedEntry)
  BY <1>3, EraseTyped DEF ErasesRow
<1>4. ASSUME NEW i \in OpIds, RepeatsTombstone(i)
      PROVE  rows' \in [Entities -> Row \cup {NoRow}] /\ feed' \in Seq(FeedEntry)
  <2>1. conflicts[i] \in Conflict /\ i[1] \in Sources
    BY <1>4 DEF RepeatsTombstone, CentralTypeOK, OpIds, Sources
  <2>2. [entity |-> conflicts[i].entity, version |-> conflicts[i].version,
         content |-> NoContent, source |-> i[1], tombstone |-> TRUE] \in FeedEntry
    BY <2>1 DEF Conflict, FeedEntry
  <2> QED
    BY <1>4, <2>2 DEF RepeatsTombstone, Publish, CentralTypeOK
<1> QED
  BY <1>1, <1>2, <1>3, <1>4 DEF LedgerStep

(* Every step keeps the types and the conflicts right.                       *)
LEMMA CentralInvStep == CentralInv /\ [CentralStep]_centralVars => CentralInv'
<1> SUFFICES ASSUME CentralInv, [CentralStep]_centralVars
             PROVE  CentralInv'
  OBVIOUS
<1> USE DEF CentralInv
<1>1. rows' \in [Entities -> Row \cup {NoRow}] /\ feed' \in Seq(FeedEntry)
  BY StepsOfTheLedger, LedgerStaysTyped
<1>2. ASSUME NEW op \in Operation, Push(op)
      PROVE  CentralInv'
  BY <1>1, <1>2, PushDecides, DecisionKeepsInv DEF CentralTypeOK
<1>3. ASSUME NEW op \in Operation, ReplayFails(op)
      PROVE  CentralInv'
  BY <1>1, <1>3, ReplayKeepsInv DEF CentralTypeOK, ReplayFails
<1>4. ASSUME NEW i \in OpIds, ResolveSyncConflict(i)
      PROVE  CentralInv'
  <2>1. PICK version \in Nat, content \in Contents \cup {NoContent} :
          Close(i, version, content)
    BY <1>4, ReviewCloses
  <2>2. UNCHANGED active
    BY <2>1 DEF Close
  <2> QED
    BY <1>1, <1>4, <2>1, <2>2, ReviewCloses, CloseKeepsInv DEF CentralTypeOK
<1>5. ASSUME UNCHANGED <<results, conflicts>>, active' \subseteq Devices
      PROVE  CentralInv'
  BY <1>1, <1>5 DEF CentralTypeOK, ConflictsHaveACase, IsOpen
<1>6. ASSUME NEW e \in Entities, CentralEdit(e) \/ CentralRevive(e)
      PROVE  CentralInv'
  BY <1>5, <1>6
     DEF CentralEdit, CentralInsert, CentralUpdate, CentralRevive, CentralDelete,
         CentralTypeOK
<1>7. ASSUME NEW d \in Devices, SetDevice(d)
      PROVE  CentralInv'
  BY <1>5, <1>7 DEF SetDevice, CentralTypeOK
<1>8. CASE UNCHANGED centralVars
  BY <1>5, <1>8 DEF centralVars, CentralTypeOK
<1> QED
  BY <1>2, <1>3, <1>4, <1>6, <1>7, <1>8 DEF CentralStep

(* The invariant of the two.                                                 *)
LEMMA CentralInvariant == CentralSpec => []CentralInv
<1>1. CentralInit => CentralInv
  BY BaseAssumption DEF CentralInit, CentralInv, CentralTypeOK, ConflictsHaveACase, IsOpen
<1> QED
  BY <1>1, CentralInvStep, NextIsStep, PTL DEF CentralSpec

(* Every table, result, conflict and feed entry keeps the shape of its DDL,  *)
(* whatever is pushed, replayed, reviewed or edited, in whatever order.      *)
THEOREM TypeCorrect == CentralSpec => []CentralTypeOK
<1>1. CentralInv => CentralTypeOK
  BY DEF CentralInv
<1> QED
  BY <1>1, CentralInvariant, PTL

(* A stored CONFLICT has its open case, and an open case its result: a       *)
(* reviewer finds what a device was told, and nothing else.                  *)
THEOREM DisputesAreReviewable == CentralSpec => []ConflictsHaveACase
<1>1. CentralInv => ConflictsHaveACase
  BY DEF CentralInv
<1> QED
  BY <1>1, CentralInvariant, PTL

-----------------------------------------------------------------------------
(* The change feed: what the entries of a row say about the row.             *)

(* One more entry at the end of the feed.                                    *)
Appended(e, version, content, source, tombstone) ==
  /\ Len(feed) \in Nat /\ Len(feed') = Len(feed) + 1
  /\ \A k \in 1 .. Len(feed) : feed'[k] = feed[k]
  /\ feed'[Len(feed) + 1] = [entity |-> e, version |-> version, content |-> content,
                             source |-> source, tombstone |-> tombstone]

(* What a trigger publishes becomes the last entry.                         *)
LEMMA PublishAppends ==
  ASSUME CentralTypeOK, NEW e \in Entities, NEW version \in Nat,
         NEW content \in Contents \cup {NoContent}, NEW source \in Sources,
         NEW tombstone \in BOOLEAN, Publish(e, version, content, source, tombstone)
  PROVE  Appended(e, version, content, source, tombstone)
<1>1. [entity |-> e, version |-> version, content |-> content, source |-> source,
       tombstone |-> tombstone] \in FeedEntry
  BY DEF FeedEntry
<1> QED
  BY <1>1 DEF Publish, Appended, CentralTypeOK

(* The three steps that publish, in terms of the tables and the feed.        *)
LEMMA WriteAppends ==
  ASSUME CentralTypeOK, NEW e \in Entities, NEW row \in Row, NEW source \in Sources,
         WritesRow(e, row, source)
  PROVE  /\ Appended(e, row.version, row.content, source, FALSE)
         /\ rows'[e] = row /\ Exists(e)'
         /\ \A f \in Entities \ {e} : rows'[f] = rows[f]
<1>1. row.version \in Nat /\ row.content \in Contents
  BY DEF Row
<1>2. rows' = [rows EXCEPT ![e] = row] /\ Publish(e, row.version, row.content, source, FALSE)
  BY DEF WritesRow, Write
<1>3. rows'[e] = row /\ \A f \in Entities \ {e} : rows'[f] = rows[f]
  BY <1>2 DEF CentralTypeOK
<1> QED
  BY <1>1, <1>2, <1>3, PublishAppends, SentinelAssumption DEF Exists

(* A hard delete publishes a tombstone; the row is gone, the others stay.   *)
LEMMA EraseAppends ==
  ASSUME CentralTypeOK, NEW e \in Entities, NEW source \in Sources, ErasesRow(e, source)
  PROVE  /\ Appended(e, rows[e].version, NoContent, source, TRUE)
         /\ e \notin SoftEntities /\ ~Exists(e)'
         /\ \A f \in Entities \ {e} : rows'[f] = rows[f]
<1>1. rows[e].version \in Nat
  BY DEF ErasesRow, Exists, CentralTypeOK, Row
<1>2. /\ e \notin SoftEntities /\ rows' = [rows EXCEPT ![e] = NoRow]
      /\ Publish(e, rows[e].version, NoContent, source, TRUE)
  BY DEF ErasesRow, Erase
<1>3. rows'[e] = NoRow /\ \A f \in Entities \ {e} : rows'[f] = rows[f]
  BY <1>2 DEF CentralTypeOK
<1> QED
  BY <1>1, <1>2, <1>3, PublishAppends DEF Exists

(* A KEEP_CENTRAL that finds the row gone publishes a tombstone only.       *)
LEMMA TombstoneAppends ==
  ASSUME CentralTypeOK, NEW i \in OpIds, RepeatsTombstone(i)
  PROVE  /\ conflicts[i].entity \in Entities /\ conflicts[i].version \in Nat
         /\ Appended(conflicts[i].entity, conflicts[i].version, NoContent, i[1], TRUE)
         /\ ~Exists(conflicts[i].entity) /\ UNCHANGED rows
<1>1. conflicts[i].entity \in Entities /\ conflicts[i].version \in Nat /\ i[1] \in Sources
  BY DEF RepeatsTombstone, CentralTypeOK, Conflict, OpIds, Sources
<1>2. Publish(conflicts[i].entity, conflicts[i].version, NoContent, i[1], TRUE)
  BY DEF RepeatsTombstone
<1> QED
  BY <1>1, <1>2, PublishAppends DEF RepeatsTombstone

-----------------------------------------------------------------------------
(* The last entry about a row tells its state.                               *)

Rebuilt(e) ==
  IF Exists(e)
  THEN \E k \in 1 .. Len(feed) :
         /\ LastAbout(k, e) /\ ~feed[k].tombstone
         /\ feed[k].content = rows[e].content /\ feed[k].version = rows[e].version
  ELSE \A k \in 1 .. Len(feed) : LastAbout(k, e) => feed[k].tombstone

(* An entry about another row changes nothing.                               *)
LEMMA OthersStayRebuilt ==
  ASSUME NEW e, NEW version, NEW content, NEW source, NEW tombstone,
         Appended(e, version, content, source, tombstone),
         NEW f \in Entities, f # e, rows'[f] = rows[f], Rebuilt(f)
  PROVE  Rebuilt(f)'
<1>1. feed'[Len(feed) + 1].entity # f
  BY DEF Appended
<1>2. \A k \in 1 .. Len(feed) : LastAbout(k, f) <=> LastAbout(k, f)'
  BY <1>1 DEF Appended, LastAbout
<1>3. \A k \in 1 .. Len(feed') : LastAbout(k, f)' => k # Len(feed) + 1
  BY <1>1 DEF LastAbout
<1>4. CASE Exists(f)
  <2>1. PICK k \in 1 .. Len(feed) :
          /\ LastAbout(k, f) /\ ~feed[k].tombstone
          /\ feed[k].content = rows[f].content /\ feed[k].version = rows[f].version
    BY <1>4 DEF Rebuilt
  <2>2. k \in 1 .. Len(feed') /\ feed'[k] = feed[k] /\ LastAbout(k, f)'
    BY <1>2, <2>1 DEF Appended
  <2> QED
    BY <1>4, <2>1, <2>2 DEF Rebuilt, Exists
<1>5. CASE ~Exists(f)
  <2> SUFFICES ASSUME NEW k \in 1 .. Len(feed'), LastAbout(k, f)'
               PROVE  feed'[k].tombstone
    BY <1>5 DEF Rebuilt, Exists
  <2>1. k \in 1 .. Len(feed) /\ feed'[k] = feed[k]
    BY <1>3 DEF Appended
  <2> QED
    BY <1>2, <1>5, <2>1 DEF Rebuilt
<1> QED
  BY <1>4, <1>5

(* The new entry is the last one about its own row.                          *)
LEMMA NewestIsLast ==
  ASSUME NEW e, NEW version, NEW content, NEW source, NEW tombstone,
         Appended(e, version, content, source, tombstone)
  PROVE  /\ Len(feed) + 1 \in 1 .. Len(feed')
         /\ \A k \in 1 .. Len(feed') : LastAbout(k, e)' <=> k = Len(feed) + 1
<1>1. /\ Len(feed) \in Nat /\ Len(feed') = Len(feed) + 1
      /\ feed'[Len(feed) + 1].entity = e
  BY DEF Appended
<1> QED
  BY <1>1 DEF LastAbout

(* Each of the four kinds of step keeps every row rebuilt by the feed.      *)
LEMMA FeedRebuildsStep ==
  CentralInv /\ FeedRebuildsRows /\ [CentralStep]_centralVars => FeedRebuildsRows'
<1> SUFFICES ASSUME CentralInv, FeedRebuildsRows, [CentralStep]_centralVars,
                    NEW f \in Entities
             PROVE  Rebuilt(f)'
  BY DEF FeedRebuildsRows, Rebuilt
<1>1. CentralTypeOK /\ LedgerStep /\ Rebuilt(f)
  BY StepsOfTheLedger DEF CentralInv, FeedRebuildsRows, Rebuilt
<1>2. CASE UNCHANGED <<rows, feed>>
  BY <1>1, <1>2 DEF Rebuilt, Exists, LastAbout
<1>3. ASSUME NEW e \in Entities, NEW row \in Row, NEW source \in Sources,
             WritesRow(e, row, source)
      PROVE  Rebuilt(f)'
  <2>1. /\ Appended(e, row.version, row.content, source, FALSE)
        /\ rows'[e] = row /\ Exists(e)'
        /\ \A g \in Entities \ {e} : rows'[g] = rows[g]
    BY <1>1, <1>3, WriteAppends
  <2>2. CASE f = e
    <3>1. PICK k \in 1 .. Len(feed') : k = Len(feed) + 1 /\ LastAbout(k, e)'
      BY <2>1, NewestIsLast
    <3>2. /\ ~feed'[k].tombstone
          /\ feed'[k].content = rows'[e].content /\ feed'[k].version = rows'[e].version
      BY <2>1, <3>1 DEF Appended
    <3> QED
      BY <2>1, <2>2, <3>1, <3>2 DEF Rebuilt
  <2>3. CASE f # e
    BY <1>1, <2>1, <2>3, OthersStayRebuilt
  <2> QED
    BY <2>2, <2>3
<1>4. ASSUME NEW e \in Entities, NEW version, NEW source, ~Exists(e)',
             Appended(e, version, NoContent, source, TRUE),
             \A g \in Entities \ {e} : rows'[g] = rows[g]
      PROVE  Rebuilt(f)'
  <2>1. CASE f = e
    <3> SUFFICES ASSUME NEW k \in 1 .. Len(feed'), LastAbout(k, e)'
                 PROVE  feed'[k].tombstone
      BY <1>4, <2>1 DEF Rebuilt
    <3>1. k = Len(feed) + 1
      BY <1>4, NewestIsLast
    <3> QED
      BY <1>4, <3>1 DEF Appended
  <2>2. CASE f # e
    BY <1>1, <1>4, <2>2, OthersStayRebuilt
  <2> QED
    BY <2>1, <2>2
<1>5. ASSUME NEW e \in Entities, NEW source \in Sources, ErasesRow(e, source)
      PROVE  Rebuilt(f)'
  BY <1>1, <1>4, <1>5, EraseAppends
<1>6. ASSUME NEW i \in OpIds, RepeatsTombstone(i)
      PROVE  Rebuilt(f)'
  BY <1>1, <1>4, <1>6, TombstoneAppends DEF Exists
<1> QED
  BY <1>1, <1>2, <1>3, <1>5, <1>6 DEF LedgerStep

(* Replaying the feed rebuilds the tables: whoever reads every entry ends    *)
(* with the central rows, whatever devices, reviewers and screens wrote.     *)
THEOREM FeedIsComplete == CentralSpec => []FeedRebuildsRows
<1>1. CentralInit => FeedRebuildsRows
  BY DEF CentralInit, FeedRebuildsRows, Exists
<1> QED
  BY <1>1, CentralInvariant, FeedRebuildsStep, NextIsStep, PTL DEF CentralSpec

-----------------------------------------------------------------------------
(* Versions of the rows that are deleted softly.  Such a row never goes, and *)
(* its version is the highest that was published for it; a conflict on it    *)
(* therefore never ends with a second tombstone.                             *)
SoftRowsStay ==
  \A e \in SoftEntities :
    /\ \A i \in OpIds : conflicts[i] # NoConflict /\ conflicts[i].entity = e => Exists(e)
    /\ \A k \in 1 .. Len(feed) :
         feed[k].entity = e => Exists(e) /\ feed[k].version <= rows[e].version

(* A published version is a number.                                         *)
LEMMA PublishedVersions ==
  ASSUME CentralTypeOK
  PROVE  \A k \in 1 .. Len(feed) : feed[k].version \in Nat
<1> SUFFICES ASSUME NEW k \in 1 .. Len(feed)
             PROVE  feed[k].version \in Nat
  OBVIOUS
<1>1. feed[k] \in FeedEntry
  BY DEF CentralTypeOK
<1> QED
  BY <1>1 DEF FeedEntry

(* A step opens a conflict on a row that exists only.                        *)
LEMMA ConflictsAreOnRows ==
  ASSUME CentralInv, [CentralStep]_centralVars
  PROVE  \A i \in OpIds : conflicts'[i] # NoConflict =>
           \/ Exists(conflicts'[i].entity)
           \/ conflicts[i] # NoConflict /\ conflicts[i].entity = conflicts'[i].entity
<1> DEFINE P == \A i \in OpIds : conflicts'[i] # NoConflict =>
                  \/ Exists(conflicts'[i].entity)
                  \/ conflicts[i] # NoConflict /\ conflicts[i].entity = conflicts'[i].entity
<1>1. ASSUME UNCHANGED conflicts
      PROVE  P
  BY <1>1
<1>2. ASSUME NEW op \in Operation, RaiseConflict(op)
      PROVE  P
  <2>1. IdOf(op) \in OpIds
    BY DEF Operation, IdOf, OpIds
  <2>2. Exists(op.entity) /\ conflicts'[IdOf(op)].entity = op.entity
    BY <1>2, <2>1 DEF RaiseConflict, VersionMismatch, CentralInv, CentralTypeOK
  <2>3. \A i \in OpIds \ {IdOf(op)} : conflicts'[i] = conflicts[i]
    BY <1>2, <2>1 DEF RaiseConflict, CentralInv, CentralTypeOK
  <2> QED
    BY <2>2, <2>3
<1>3. ASSUME NEW i \in OpIds, ResolveSyncConflict(i)
      PROVE  P
  <2>1. IsOpen(i) /\ conflicts' = [conflicts EXCEPT ![i].status = "RESOLVED"]
    BY <1>3, ReviewCloses DEF CentralInv, Close
  <2>2. conflicts[i] \in Conflict
    BY <2>1 DEF IsOpen, CentralInv, CentralTypeOK
  <2>3. conflicts'[i].entity = conflicts[i].entity
    BY <2>1, <2>2 DEF Conflict, CentralInv, CentralTypeOK
  <2>4. \A j \in OpIds \ {i} : conflicts'[j] = conflicts[j]
    BY <2>1 DEF CentralInv, CentralTypeOK
  <2> QED
    BY <2>1, <2>3, <2>4 DEF IsOpen
<1>4. ASSUME NEW op \in Operation, Push(op)
      PROVE  RaiseConflict(op) \/ UNCHANGED conflicts
  BY <1>4 DEF Push, ParkDependency, RejectScope, InsertRow, KeepRow, UpdateRow,
              SoftDelete, HardDelete, DeleteNothing, ProcessingFails
<1>5. ASSUME NEW e \in Entities, CentralEdit(e) \/ CentralRevive(e)
      PROVE  UNCHANGED conflicts
  BY <1>5 DEF CentralEdit, CentralInsert, CentralUpdate, CentralRevive, CentralDelete
<1> HIDE DEF P
<1>6. ASSUME NEW op \in Operation, ReplayFails(op)
      PROVE  UNCHANGED conflicts
  BY <1>6 DEF ReplayFails
<1>7. ASSUME NEW d \in Devices, SetDevice(d)
      PROVE  UNCHANGED conflicts
  BY <1>7 DEF SetDevice
<1>8. ASSUME UNCHANGED centralVars
      PROVE  UNCHANGED conflicts
  BY <1>8 DEF centralVars
<1>9. P
  BY <1>1, <1>2, <1>3, <1>4, <1>5, <1>6, <1>7, <1>8 DEF CentralStep
<1> QED
  BY <1>9 DEF P

(* No step removes such a row or publishes for it above its version.        *)
LEMMA SoftRowsStayStep ==
  CentralInv /\ SoftRowsStay /\ [CentralStep]_centralVars => SoftRowsStay'
<1> SUFFICES ASSUME CentralInv, SoftRowsStay, [CentralStep]_centralVars,
                    NEW e \in SoftEntities
             PROVE  /\ \A i \in OpIds : conflicts'[i] # NoConflict /\ conflicts'[i].entity = e
                         => Exists(e)'
                    /\ \A k \in 1 .. Len(feed') : feed'[k].entity = e
                         => Exists(e)' /\ feed'[k].version <= rows'[e].version
  BY DEF SoftRowsStay
<1> DEFINE Highest == \A k \in 1 .. Len(feed') : feed'[k].entity = e
                        => Exists(e)' /\ feed'[k].version <= rows'[e].version
<1>1. CentralTypeOK /\ LedgerStep /\ e \in Entities
  BY StepsOfTheLedger, BaseAssumption DEF CentralInv
<1>2. /\ \A i \in OpIds : conflicts[i] # NoConflict /\ conflicts[i].entity = e => Exists(e)
      /\ \A k \in 1 .. Len(feed) :
           feed[k].entity = e => Exists(e) /\ feed[k].version <= rows[e].version
  BY DEF SoftRowsStay
<1>3. \A k \in 1 .. Len(feed) : feed[k].version \in Nat
  BY <1>1, PublishedVersions
<1>4. Exists(e) => rows[e].version \in Nat
  BY <1>1 DEF Exists, CentralTypeOK, Row
<1>5. Highest /\ (Exists(e) => Exists(e)')
  <2>1. CASE UNCHANGED <<rows, feed>>
    BY <1>2, <2>1 DEF Exists
  <2>2. ASSUME NEW f \in Entities, NEW row \in Row, NEW source \in Sources,
               WritesRow(f, row, source)
        PROVE  Highest /\ (Exists(e) => Exists(e)')
    <3>1. /\ Appended(f, row.version, row.content, source, FALSE)
          /\ rows'[f] = row /\ Exists(f)'
          /\ \A g \in Entities \ {f} : rows'[g] = rows[g]
      BY <1>1, <2>2, WriteAppends
    <3>2. CASE e = f
      <4>1. row.version = NextVersion(e) /\ row.version \in Nat
        BY <2>2, <3>2 DEF WritesRow, Row
      <4>2. \A k \in 1 .. Len(feed) : feed[k].entity = e => feed[k].version <= row.version
        BY <1>2, <1>3, <1>4, <4>1 DEF NextVersion
      <4>3. feed'[Len(feed) + 1].version <= row.version
        BY <3>1, <4>1 DEF Appended
      <4> QED
        BY <3>1, <3>2, <4>2, <4>3 DEF Appended
    <3>3. CASE e # f
      BY <1>1, <1>2, <3>1, <3>3 DEF Appended, Exists
    <3> QED
      BY <3>2, <3>3
  <2>3. ASSUME NEW f \in Entities, NEW source \in Sources, ErasesRow(f, source)
        PROVE  Highest /\ (Exists(e) => Exists(e)')
    <3>1. /\ Appended(f, rows[f].version, NoContent, source, TRUE)
          /\ f \notin SoftEntities
          /\ \A g \in Entities \ {f} : rows'[g] = rows[g]
      BY <1>1, <2>3, EraseAppends
    <3> QED
      BY <1>1, <1>2, <3>1 DEF Appended, Exists
  <2>4. ASSUME NEW i \in OpIds, RepeatsTombstone(i)
        PROVE  Highest /\ (Exists(e) => Exists(e)')
    <3>1. /\ Appended(conflicts[i].entity, conflicts[i].version, NoContent, i[1], TRUE)
          /\ ~Exists(conflicts[i].entity) /\ UNCHANGED rows
      BY <1>1, <2>4, TombstoneAppends
    <3>2. conflicts[i].entity # e
      BY <1>2, <2>4, <3>1 DEF RepeatsTombstone
    <3> QED
      BY <1>2, <3>1, <3>2 DEF Appended, Exists
  <2> QED
    BY <1>1, <2>1, <2>2, <2>3, <2>4 DEF LedgerStep
<1>6. \A i \in OpIds : conflicts'[i] # NoConflict /\ conflicts'[i].entity = e => Exists(e)'
  BY <1>2, <1>5, ConflictsAreOnRows
<1> QED
  BY <1>5, <1>6

(* With the rows as they were, the next entry about a soft row is higher.    *)
LEMMA SoftVersionsGrowStep ==
  CentralInv /\ SoftRowsStay /\ SoftVersionsGrow /\ [CentralStep]_centralVars
    => SoftVersionsGrow'
<1> SUFFICES ASSUME CentralInv, SoftRowsStay, SoftVersionsGrow, [CentralStep]_centralVars,
                    NEW j \in 1 .. Len(feed'), NEW k \in 1 .. Len(feed'),
                    j < k, feed'[j].entity = feed'[k].entity,
                    feed'[j].entity \in SoftEntities
             PROVE  feed'[j].version < feed'[k].version
  BY DEF SoftVersionsGrow
<1>1. CentralTypeOK /\ LedgerStep
  BY StepsOfTheLedger DEF CentralInv
<1>2. CASE UNCHANGED <<rows, feed>>
  BY <1>2 DEF SoftVersionsGrow
<1>3. ASSUME NEW e, NEW version \in Nat, NEW content, NEW source, NEW tombstone,
             Appended(e, version, content, source, tombstone),
             e \in SoftEntities =>
               \A n \in 1 .. Len(feed) : feed[n].entity = e => feed[n].version < version
      PROVE  feed'[j].version < feed'[k].version
  <2>1. j \in 1 .. Len(feed) /\ feed'[j] = feed[j]
    BY <1>3 DEF Appended
  <2>2. CASE k \in 1 .. Len(feed)
    BY <1>3, <2>1, <2>2 DEF Appended, SoftVersionsGrow
  <2>3. CASE k = Len(feed) + 1
    BY <1>3, <2>1, <2>3 DEF Appended
  <2> QED
    BY <1>3, <2>2, <2>3 DEF Appended
<1>4. ASSUME NEW e \in Entities, NEW row \in Row, NEW source \in Sources,
             WritesRow(e, row, source)
      PROVE  feed'[j].version < feed'[k].version
  <2>1. Appended(e, row.version, row.content, source, FALSE)
    BY <1>1, <1>4, WriteAppends
  <2>2. row.version = NextVersion(e) /\ row.version \in Nat
    BY <1>4 DEF WritesRow, Row
  <2>3. Exists(e) => rows[e].version \in Nat
    BY <1>1 DEF Exists, CentralTypeOK, Row
  <2>4. ASSUME e \in SoftEntities, NEW n \in 1 .. Len(feed), feed[n].entity = e
        PROVE  feed[n].version < row.version
    <3>1. Exists(e) /\ feed[n].version <= rows[e].version
      BY <2>4 DEF SoftRowsStay
    <3>2. feed[n].version \in Nat
      BY <1>1, PublishedVersions
    <3> QED
      BY <2>2, <2>3, <3>1, <3>2 DEF NextVersion
  <2> QED
    BY <1>3, <2>1, <2>2, <2>4
<1>5. ASSUME NEW e \in Entities, NEW source \in Sources, ErasesRow(e, source)
      PROVE  feed'[j].version < feed'[k].version
  <2>1. rows[e].version \in Nat
    BY <1>1, <1>5 DEF ErasesRow, Exists, CentralTypeOK, Row
  <2> QED
    BY <1>1, <1>3, <1>5, <2>1, EraseAppends
<1>6. ASSUME NEW i \in OpIds, RepeatsTombstone(i)
      PROVE  feed'[j].version < feed'[k].version
  <2>1. conflicts[i].entity \notin SoftEntities
    BY <1>6 DEF RepeatsTombstone, SoftRowsStay
  <2> QED
    BY <1>1, <1>3, <1>6, <2>1, TombstoneAppends
<1> QED
  BY <1>1, <1>2, <1>4, <1>5, <1>6 DEF LedgerStep

(* A version names one content of a ledger row: what the feed publishes for  *)
(* a row that is only ever deleted softly has ever higher versions.          *)
THEOREM VersionsNameContents == CentralSpec => []SoftVersionsGrow
<1>1. CentralInit => SoftRowsStay /\ SoftVersionsGrow
  BY DEF CentralInit, SoftRowsStay, SoftVersionsGrow
<1> QED
  BY <1>1, CentralInvariant, SoftRowsStayStep, SoftVersionsGrowStep, NextIsStep, PTL DEF CentralSpec

-----------------------------------------------------------------------------
(* The origin of a row.                                                      *)

OriginRight(e) ==
  Exists(e) =>
    IF rows[e].origin # NoDevice
    THEN \E k \in 1 .. Len(feed) :
           /\ feed[k].entity = e /\ feed[k].source = rows[e].origin
           /\ \A j \in k + 1 .. Len(feed) : feed[j].entity = e =>
                feed[j].source = NoDevice /\ ~feed[j].tombstone
    ELSE \A k \in 1 .. Len(feed) : feed[k].entity = e /\ feed[k].source # NoDevice =>
           \E j \in k .. Len(feed) : feed[j].entity = e /\ feed[j].tombstone

(* What was published about a row that is gone is behind a tombstone.        *)
Buried(e) ==
  ~Exists(e) => \A k \in 1 .. Len(feed) : feed[k].entity = e =>
                  \E j \in k .. Len(feed) : feed[j].entity = e /\ feed[j].tombstone

OriginInv == \A e \in Entities : OriginRight(e) /\ Buried(e)

(* An entry about another row changes neither.                               *)
LEMMA OthersKeepOrigin ==
  ASSUME NEW e, NEW version, NEW content, NEW source, NEW tombstone,
         Appended(e, version, content, source, tombstone),
         NEW f \in Entities, f # e, rows'[f] = rows[f], OriginRight(f), Buried(f)
  PROVE  OriginRight(f)' /\ Buried(f)'
<1>1. /\ Len(feed) \in Nat /\ Len(feed') = Len(feed) + 1
      /\ \A k \in 1 .. Len(feed) : feed'[k] = feed[k]
      /\ feed'[Len(feed) + 1].entity # f
  BY DEF Appended
<1>2. Exists(f)' <=> Exists(f)
  BY DEF Exists
<1>3. Buried(f)'
  <2> SUFFICES ASSUME ~Exists(f), NEW k \in 1 .. Len(feed'), feed'[k].entity = f
               PROVE  \E j \in k .. Len(feed') : feed'[j].entity = f /\ feed'[j].tombstone
    BY <1>2 DEF Buried
  <2>1. k \in 1 .. Len(feed) /\ feed[k].entity = f
    BY <1>1
  <2>2. PICK j \in k .. Len(feed) : feed[j].entity = f /\ feed[j].tombstone
    BY <2>1 DEF Buried
  <2> QED
    BY <1>1, <2>1, <2>2
<1>4. OriginRight(f)'
  <2>1. CASE ~Exists(f)
    BY <1>2, <2>1 DEF OriginRight
  <2>2. CASE Exists(f) /\ rows[f].origin # NoDevice
    <3>1. PICK k \in 1 .. Len(feed) :
            /\ feed[k].entity = f /\ feed[k].source = rows[f].origin
            /\ \A j \in k + 1 .. Len(feed) : feed[j].entity = f =>
                 feed[j].source = NoDevice /\ ~feed[j].tombstone
      BY <2>2 DEF OriginRight
    <3>2. /\ k \in 1 .. Len(feed') /\ feed'[k] = feed[k]
          /\ \A j \in k + 1 .. Len(feed') : feed'[j].entity = f =>
               feed'[j].source = NoDevice /\ ~feed'[j].tombstone
      BY <1>1, <3>1
    <3> QED
      BY <2>2, <3>1, <3>2 DEF OriginRight
  <2>3. CASE Exists(f) /\ rows[f].origin = NoDevice
    <3> SUFFICES ASSUME NEW k \in 1 .. Len(feed'), feed'[k].entity = f,
                        feed'[k].source # NoDevice
                 PROVE  \E j \in k .. Len(feed') : feed'[j].entity = f /\ feed'[j].tombstone
      BY <2>3 DEF OriginRight
    <3>1. k \in 1 .. Len(feed) /\ feed[k].entity = f /\ feed[k].source # NoDevice
      BY <1>1
    <3>2. PICK j \in k .. Len(feed) : feed[j].entity = f /\ feed[j].tombstone
      BY <2>3, <3>1 DEF OriginRight
    <3> QED
      BY <1>1, <3>1, <3>2
  <2> QED
    BY <2>1, <2>2, <2>3
<1> QED
  BY <1>3, <1>4

(* Each of the four kinds of step keeps the origins right.                  *)
LEMMA OriginStep == CentralInv /\ OriginInv /\ [CentralStep]_centralVars => OriginInv'
<1> SUFFICES ASSUME CentralInv, OriginInv, [CentralStep]_centralVars, NEW f \in Entities
             PROVE  OriginRight(f)' /\ Buried(f)'
  BY DEF OriginInv
<1>1. CentralTypeOK /\ LedgerStep /\ OriginRight(f) /\ Buried(f)
  BY StepsOfTheLedger DEF CentralInv, OriginInv
<1>2. CASE UNCHANGED <<rows, feed>>
  BY <1>1, <1>2 DEF OriginRight, Buried, Exists
<1>3. ASSUME NEW e \in Entities, NEW row \in Row, NEW source \in Sources,
             WritesRow(e, row, source)
      PROVE  OriginRight(f)' /\ Buried(f)'
  <2>1. /\ Appended(e, row.version, row.content, source, FALSE)
        /\ rows'[e] = row /\ Exists(e)'
        /\ \A g \in Entities \ {e} : rows'[g] = rows[g]
    BY <1>1, <1>3, WriteAppends
  <2>2. CASE f # e
    BY <1>1, <2>1, <2>2, OthersKeepOrigin
  <2>3. CASE f = e
    <3>1. Buried(f)'
      BY <2>1, <2>3 DEF Buried
    <3>2. PICK n \in 1 .. Len(feed') :
            /\ n = Len(feed) + 1 /\ Len(feed) \in Nat /\ Len(feed') = Len(feed) + 1
            /\ \A k \in 1 .. Len(feed) : feed'[k] = feed[k]
            /\ feed'[n].entity = f /\ feed'[n].source = source /\ ~feed'[n].tombstone
      BY <2>1, <2>3 DEF Appended
    <3>3. CASE source # NoDevice
      <4>1. rows'[f].origin = source
        BY <1>3, <2>1, <2>3, <3>3 DEF WritesRow
      <4>2. \A j \in n + 1 .. Len(feed') : FALSE
        BY <3>2
      <4> QED
        BY <3>1, <3>2, <3>3, <4>1, <4>2 DEF OriginRight
    <3>4. CASE source = NoDevice /\ Exists(f) /\ rows[f].origin # NoDevice
      <4>1. rows'[f].origin = rows[f].origin
        BY <1>3, <2>1, <2>3, <3>4 DEF WritesRow
      <4>2. PICK k \in 1 .. Len(feed) :
              /\ feed[k].entity = f /\ feed[k].source = rows[f].origin
              /\ \A j \in k + 1 .. Len(feed) : feed[j].entity = f =>
                   feed[j].source = NoDevice /\ ~feed[j].tombstone
        BY <1>1, <3>4 DEF OriginRight
      <4>3. /\ k \in 1 .. Len(feed') /\ feed'[k] = feed[k]
            /\ \A j \in k + 1 .. Len(feed') : feed'[j].entity = f =>
                 feed'[j].source = NoDevice /\ ~feed'[j].tombstone
        BY <3>2, <3>4, <4>2
      <4> QED
        BY <3>1, <3>4, <4>1, <4>2, <4>3 DEF OriginRight
    <3>5. CASE source = NoDevice /\ ~(Exists(f) /\ rows[f].origin # NoDevice)
      <4>1. rows'[f].origin = NoDevice
        BY <1>3, <2>1, <2>3, <3>5 DEF WritesRow
      <4>2. ASSUME NEW k \in 1 .. Len(feed'), feed'[k].entity = f, feed'[k].source # NoDevice
            PROVE  \E j \in k .. Len(feed') : feed'[j].entity = f /\ feed'[j].tombstone
        <5>1. k \in 1 .. Len(feed) /\ feed[k].entity = f /\ feed[k].source # NoDevice
          BY <3>2, <3>5, <4>2
        <5>2. PICK j \in k .. Len(feed) : feed[j].entity = f /\ feed[j].tombstone
          BY <1>1, <3>5, <5>1 DEF OriginRight, Buried
        <5> QED
          BY <3>2, <5>1, <5>2
      <4> QED
        BY <3>1, <4>1, <4>2 DEF OriginRight
    <3> QED
      BY <3>3, <3>4, <3>5
  <2> QED
    BY <2>2, <2>3
<1>4. ASSUME NEW e \in Entities, NEW version, NEW source, ~Exists(e)',
             Appended(e, version, NoContent, source, TRUE),
             \A g \in Entities \ {e} : rows'[g] = rows[g]
      PROVE  OriginRight(f)' /\ Buried(f)'
  <2>1. CASE f # e
    BY <1>1, <1>4, <2>1, OthersKeepOrigin
  <2>2. CASE f = e
    <3>1. PICK n \in 1 .. Len(feed') :
            /\ n = Len(feed) + 1 /\ Len(feed') = Len(feed) + 1 /\ Len(feed) \in Nat
            /\ feed'[n].entity = f /\ feed'[n].tombstone
      BY <1>4, <2>2 DEF Appended
    <3>2. \A k \in 1 .. Len(feed') : n \in k .. Len(feed')
      BY <3>1
    <3> QED
      BY <1>4, <2>2, <3>1, <3>2 DEF OriginRight, Buried
  <2> QED
    BY <2>1, <2>2
<1>5. ASSUME NEW e \in Entities, NEW source \in Sources, ErasesRow(e, source)
      PROVE  OriginRight(f)' /\ Buried(f)'
  BY <1>1, <1>4, <1>5, EraseAppends
<1>6. ASSUME NEW i \in OpIds, RepeatsTombstone(i)
      PROVE  OriginRight(f)' /\ Buried(f)'
  BY <1>1, <1>4, <1>6, TombstoneAppends DEF Exists
<1> QED
  BY <1>1, <1>2, <1>3, <1>5, <1>6 DEF LedgerStep

(* What sameDeviceContinuation relies on: sync_origin_device_id is the last  *)
(* device that wrote the row, or had a conflict on it reviewed, since the    *)
(* row was created; whatever came after came from the central screens.       *)
THEOREM OriginIsTheLastWriter == CentralSpec => []OriginIsLastDevice
<1>1. CentralInit => OriginInv
  BY DEF CentralInit, OriginInv, OriginRight, Buried, Exists
<1>2. OriginInv => OriginIsLastDevice
  BY DEF OriginInv, OriginRight, OriginIsLastDevice
<1> QED
  BY <1>1, <1>2, CentralInvariant, OriginStep, NextIsStep, PTL DEF CentralSpec

-----------------------------------------------------------------------------
(* The central node implements DecisionLog: whatever is sent again, replayed, *)
(* failed and reviewed, an operation is decided once and written at most once. *)

(* The three variables of DecisionLog, as functions of the central state.    *)
verdictNow == [i \in OpIds |-> Verdict(i)]
disputedNow == {i \in OpIds : IsOpen(i)}
logNow == [k \in 1 .. Len(feed) |-> feed[k].source]

(* The log has one author per entry of the feed.                            *)
LEMMA LogIsASequence ==
  ASSUME feed \in Seq(FeedEntry)
  PROVE  logNow \in Seq(Sources) /\ Len(logNow) = Len(feed)
<1>1. ASSUME NEW k \in 1 .. Len(feed)
      PROVE  feed[k].source \in Sources
  <2>1. feed[k] \in FeedEntry
    OBVIOUS
  <2> QED
    BY <2>1 DEF FeedEntry
<1>2. logNow \in [1 .. Len(feed) -> Sources]
  BY <1>1 DEF logNow
<1> QED
  BY <1>2

(* One published entry is one entry of the log.                              *)
LEMMA AppendedIsLogged ==
  ASSUME NEW e, NEW version, NEW content, NEW source \in Sources, NEW tombstone,
         feed \in Seq(FeedEntry), feed' \in Seq(FeedEntry),
         Appended(e, version, content, source, tombstone)
  PROVE  logNow' = Append(logNow, source)
<1>1. /\ Len(feed) \in Nat /\ Len(feed') = Len(feed) + 1
      /\ \A k \in 1 .. Len(feed) : feed'[k] = feed[k]
      /\ feed'[Len(feed) + 1].source = source
  BY DEF Appended
<1>2. logNow \in Seq(Sources) /\ Len(logNow) = Len(feed)
  BY LogIsASequence
<1>3. logNow' \in Seq(Sources) /\ Len(logNow') = Len(feed) + 1
  <2>1. (feed \in Seq(FeedEntry) => logNow \in Seq(Sources) /\ Len(logNow) = Len(feed))'
    BY LogIsASequence, PTL
  <2> QED
    BY <1>1, <2>1
<1>4. /\ Append(logNow, source) \in Seq(Sources)
      /\ Len(Append(logNow, source)) = Len(feed) + 1
      /\ \A k \in 1 .. Len(feed) : Append(logNow, source)[k] = logNow[k]
      /\ Append(logNow, source)[Len(feed) + 1] = source
  BY <1>1, <1>2, AppendProperties
<1>5. ASSUME NEW k \in 1 .. Len(feed) + 1
      PROVE  logNow'[k] = Append(logNow, source)[k]
  <2>1. logNow'[k] = feed'[k].source
    BY <1>1 DEF logNow
  <2>2. CASE k = Len(feed) + 1
    BY <1>1, <1>4, <2>1, <2>2
  <2>3. CASE k \in 1 .. Len(feed)
    BY <1>1, <1>4, <2>1, <2>3 DEF logNow
  <2>4. k = Len(feed) + 1 \/ k \in 1 .. Len(feed)
    BY <1>1
  <2> QED
    BY <2>2, <2>3, <2>4
<1> QED
  BY <1>3, <1>4, <1>5, SeqEqual

(* What a trigger publishes is one entry of the log.                        *)
LEMMA PublishIsLogged ==
  ASSUME CentralTypeOK, feed' \in Seq(FeedEntry), NEW e \in Entities,
         NEW source \in Sources, PublishesFor(e, source)
  PROVE  logNow' = Append(logNow, source)
<1>1. PICK version \in Nat, content \in Contents \cup {NoContent}, tombstone \in BOOLEAN :
        Publish(e, version, content, source, tombstone)
  BY DEF PublishesFor
<1>2. Appended(e, version, content, source, tombstone)
  BY <1>1, PublishAppends
<1> QED
  BY <1>2, AppendedIsLogged DEF CentralTypeOK

(* The screens of the centre write on nobody's behalf.                       *)
LEMMA ScreensPublish ==
  ASSUME CentralTypeOK, NEW e \in Entities, CentralEdit(e) \/ CentralRevive(e)
  PROVE  PublishesFor(e, NoDevice) /\ UNCHANGED <<results, conflicts>>
<1>1. CASE CentralInsert(e)
  <2>1. PICK content \in Contents :
          Write(e, [content |-> content, version |-> 0, origin |-> NoDevice, lastSeq |-> 0],
                NoDevice)
    BY <1>1 DEF CentralInsert
  <2>2. Publish(e, 0, content, NoDevice, FALSE)
    BY <2>1 DEF Write
  <2>3. PublishesFor(e, NoDevice)
    BY <2>2 DEF PublishesFor
  <2> QED
    BY <1>1, <2>3 DEF CentralInsert
<1>2. CASE CentralUpdate(e) \/ CentralRevive(e)
  <2>1. PICK content \in Contents : Exists(e) /\ Reword(e, content)
    BY <1>2 DEF CentralUpdate, CentralRevive
  <2>2. PICK row \in Row : WritesRow(e, row, NoDevice)
    BY <2>1, RewordWrites
  <2>3. row.version \in Nat /\ row.content \in Contents
    BY DEF Row
  <2>4. Publish(e, row.version, row.content, NoDevice, FALSE)
    BY <2>2 DEF WritesRow, Write
  <2>5. PublishesFor(e, NoDevice)
    BY <2>3, <2>4 DEF PublishesFor
  <2> QED
    BY <1>2, <2>5 DEF CentralUpdate, CentralRevive
<1>3. CASE CentralDelete(e)
  <2>1. rows[e].version \in Nat
    BY <1>3 DEF CentralDelete, Exists, CentralTypeOK, Row
  <2>2. Publish(e, rows[e].version, NoContent, NoDevice, TRUE)
    BY <1>3 DEF CentralDelete, Erase
  <2>3. PublishesFor(e, NoDevice)
    BY <2>1, <2>2 DEF PublishesFor
  <2> QED
    BY <1>3, <2>3 DEF CentralDelete
<1> QED
  BY <1>1, <1>2, <1>3 DEF CentralEdit

-----------------------------------------------------------------------------
(* The steps of DecisionLog in these terms.                                  *)

LogsFor(source) == logNow' = Append(logNow, source)

Sets(i, v) == verdictNow' = [verdictNow EXCEPT ![i] = v]

Accepts_(i) ==
  /\ verdictNow[i] = "none" /\ Sets(i, "accepted")
  /\ LogsFor(i[1]) \/ UNCHANGED logNow
  /\ UNCHANGED disputedNow

Refuses_(i) ==
  verdictNow[i] = "none" /\ Sets(i, "refused") /\ UNCHANGED <<disputedNow, logNow>>

Disputes_(i) ==
  /\ verdictNow[i] = "none" /\ Sets(i, "disputed")
  /\ disputedNow' = disputedNow \cup {i}
  /\ UNCHANGED logNow

Spoils_(i) ==
  verdictNow[i] # "none" /\ Sets(i, "refused") /\ UNCHANGED <<disputedNow, logNow>>

Settles_(i) ==
  /\ i \in disputedNow
  /\ Sets(i, "accepted")
  /\ disputedNow' = disputedNow \ {i}
  /\ LogsFor(i[1])

Edits_ == LogsFor(NoDevice) /\ UNCHANGED <<verdictNow, disputedNow>>

DecisionStep ==
  \/ \E i \in OpIds : Accepts_(i) \/ Refuses_(i) \/ Disputes_(i) \/ Spoils_(i) \/ Settles_(i)
  \/ Edits_
  \/ UNCHANGED <<verdictNow, disputedNow, logNow>>

(* They are the steps of DecisionLog.                                        *)
LEMMA DecisionStepIsNext ==
  DecisionStep <=> [Decisions!Next]_(Decisions!decisionVars)
BY DEF DecisionStep, Accepts_, Refuses_, Disputes_, Spoils_, Settles_, Edits_, LogsFor, Sets,
       verdictNow, disputedNow, logNow, Decisions!Next, Decisions!decisionVars,
       Decisions!Accept, Decisions!Refuse, Decisions!Dispute, Decisions!Spoil,
       Decisions!Settle, Decisions!Edit, Decisions!Wrote

-----------------------------------------------------------------------------
(* What the stored results say of the verdicts.                              *)

(* A verdict follows the stored status.                                      *)
LEMMA VerdictOfResult ==
  ASSUME NEW i \in OpIds, NEW r \in Result, results[i] = r
  PROVE  Verdict(i) = IF r.status = "ACCEPTED" THEN "accepted"
                      ELSE IF r.status = "CONFLICT" THEN "disputed" ELSE "refused"
<1>1. results[i] # NoResult
  BY SentinelAssumption
<1> QED
  BY <1>1 DEF Verdict

(* Storing a result changes the verdict on its operation and no other.       *)
LEMMA StoredResult ==
  ASSUME NEW i \in OpIds, NEW r \in Result, CentralTypeOK,
         results' = [results EXCEPT ![i] = r]
  PROVE  Sets(i, IF r.status = "ACCEPTED" THEN "accepted"
                 ELSE IF r.status = "CONFLICT" THEN "disputed" ELSE "refused")
<1> DEFINE v == IF r.status = "ACCEPTED" THEN "accepted"
                ELSE IF r.status = "CONFLICT" THEN "disputed" ELSE "refused"
<1>1. results'[i] = r /\ \A j \in OpIds \ {i} : results'[j] = results[j]
  BY DEF CentralTypeOK
<1>2. (Verdict(i))' = v
  <2>1. results'[i] # NoResult
    BY <1>1, SentinelAssumption
  <2> QED
    BY <1>1, <2>1 DEF Verdict
<1>3. ASSUME NEW j \in OpIds \ {i}
      PROVE  (Verdict(j))' = Verdict(j)
  BY <1>1, <1>3 DEF Verdict
<1> HIDE DEF v
<1>4. verdictNow' = [verdictNow EXCEPT ![i] = v]
  BY <1>2, <1>3 DEF verdictNow
<1> QED
  BY <1>4 DEF Sets, v

(* Results that stay leave the verdicts alone, and so do the conflicts and   *)
(* the feed for the disputes and the log.                                    *)
LEMMA NothingStored ==
  /\ UNCHANGED results => UNCHANGED verdictNow
  /\ UNCHANGED conflicts => UNCHANGED disputedNow
  /\ UNCHANGED feed => UNCHANGED logNow
BY DEF verdictNow, Verdict, disputedNow, IsOpen, logNow

-----------------------------------------------------------------------------
(* Each step of the centre is a step of DecisionLog.                         *)

(* applyPushOperation accepts, refuses or disputes an undecided operation.   *)
LEMMA PushIsADecision ==
  ASSUME CentralInv, feed' \in Seq(FeedEntry), NEW op \in Operation, Push(op)
  PROVE  DecisionStep
<1> DEFINE id == IdOf(op)
<1>1. PICK status \in Verdicts, version \in Nat, content \in Contents \cup {NoContent} :
        /\ FirstSeen(op)
        /\ FinishResult(op, status, version, content)
        /\ IF status # "CONFLICT" THEN UNCHANGED conflicts
           ELSE \E c \in Conflict :
                  /\ conflicts' = [conflicts EXCEPT ![id] = c]
                  /\ c.status = "OPEN" /\ c.entity = op.entity
        /\ UNCHANGED feed \/ (status = "ACCEPTED" /\ PublishesFor(op.entity, op.device))
  BY PushDecides DEF DecidesOperation, CentralInv
<1>2. /\ id \in OpIds /\ id[1] = op.device /\ op.device \in Sources
      /\ op.entity \in Entities /\ op.payload \in Contents
  BY DEF Operation, IdOf, OpIds, Sources
<1> DEFINE r == [status |-> status, entity |-> op.entity, hash |-> op.payload,
                 version |-> version, content |-> content]
<1>3. r \in Result /\ r.status = status /\ results' = [results EXCEPT ![id] = r]
  BY <1>1, <1>2 DEF Result, FinishResult
<1> HIDE DEF r
<1>4. Sets(id, IF status = "ACCEPTED" THEN "accepted"
               ELSE IF status = "CONFLICT" THEN "disputed" ELSE "refused")
  BY <1>2, <1>3, StoredResult DEF CentralInv
<1>5. verdictNow[id] = "none"
  BY <1>1, <1>2 DEF FirstSeen, verdictNow, Verdict
<1>6. CASE status = "ACCEPTED"
  <2>1. LogsFor(op.device) \/ UNCHANGED logNow
    BY <1>1, <1>2, NothingStored, PublishIsLogged DEF LogsFor, CentralInv
  <2>2. UNCHANGED disputedNow
    BY <1>1, <1>6, NothingStored
  <2>3. Accepts_(id)
    BY <1>2, <1>4, <1>5, <1>6, <2>1, <2>2 DEF Accepts_
  <2> QED
    BY <1>2, <2>3 DEF DecisionStep
<1>7. CASE status = "CONFLICT"
  <2>1. PICK c \in Conflict : conflicts' = [conflicts EXCEPT ![id] = c] /\ c.status = "OPEN"
    BY <1>1, <1>7
  <2>2. /\ conflicts'[id] = c /\ c # NoConflict
        /\ \A j \in OpIds \ {id} : conflicts'[j] = conflicts[j]
    BY <1>2, <2>1, SentinelAssumption DEF CentralInv, CentralTypeOK
  <2>3. disputedNow' = disputedNow \cup {id}
    BY <1>2, <2>1, <2>2 DEF disputedNow, IsOpen
  <2>4. UNCHANGED logNow
    BY <1>1, <1>7, NothingStored
  <2>5. Disputes_(id)
    BY <1>4, <1>5, <1>7, <2>3, <2>4 DEF Disputes_
  <2> QED
    BY <1>2, <2>5 DEF DecisionStep
<1>8. CASE status \notin {"ACCEPTED", "CONFLICT"}
  <2>1. UNCHANGED <<disputedNow, logNow>>
    BY <1>1, <1>8, NothingStored
  <2>2. Refuses_(id)
    BY <1>4, <1>5, <1>8, <2>1 DEF Refuses_
  <2> QED
    BY <1>2, <2>2 DEF DecisionStep
<1> QED
  BY <1>6, <1>7, <1>8

(* A replay that fails spoils the record of its decision.                    *)
LEMMA ReplaySpoils ==
  ASSUME CentralInv, NEW op \in Operation, ReplayFails(op)
  PROVE  DecisionStep
<1> DEFINE id == IdOf(op)
           r == [results[id] EXCEPT !.status = "CENTRAL_PROCESSING_FAILED"]
<1>1. id \in OpIds
  BY DEF Operation, IdOf, OpIds
<1>2. results[id] \in Result /\ results' = [results EXCEPT ![id] = r]
  BY <1>1 DEF ReplayFails, CentralInv, CentralTypeOK
<1>3. r \in Result /\ r.status = "CENTRAL_PROCESSING_FAILED"
  BY <1>2 DEF Result, Verdicts
<1> HIDE DEF r
<1>4. Sets(id, "refused")
  BY <1>1, <1>2, <1>3, StoredResult DEF CentralInv
<1>5. verdictNow[id] # "none"
  <2>1. Verdict(id) # "none"
    BY <1>1, <1>2, VerdictOfResult
  <2> QED
    BY <1>1, <2>1 DEF verdictNow
<1>6. UNCHANGED <<disputedNow, logNow>>
  BY NothingStored DEF ReplayFails
<1>7. Spoils_(id)
  BY <1>4, <1>5, <1>6 DEF Spoils_
<1> QED
  BY <1>1, <1>7 DEF DecisionStep

(* A review settles one dispute and writes once for its operation.           *)
LEMMA ReviewSettles ==
  ASSUME CentralInv, feed' \in Seq(FeedEntry), NEW i \in OpIds, ResolveSyncConflict(i)
  PROVE  DecisionStep
<1>1. /\ IsOpen(i) /\ conflicts[i].entity \in Entities
      /\ PublishesFor(conflicts[i].entity, i[1])
  BY ReviewCloses DEF CentralInv
<1>2. PICK version \in Nat, content \in Contents \cup {NoContent} : Close(i, version, content)
  BY ReviewCloses DEF CentralInv
<1> DEFINE r == [[[results[i] EXCEPT !.status = "ACCEPTED"] EXCEPT !.version = version]
                    EXCEPT !.content = content]
           c == [conflicts[i] EXCEPT !.status = "RESOLVED"]
<1>3. results[i] \in Result /\ conflicts[i] \in Conflict
  BY <1>1 DEF CentralInv, CentralTypeOK, ConflictsHaveACase, IsOpen
<1>4. r \in Result /\ r.status = "ACCEPTED" /\ c.status = "RESOLVED"
  BY <1>3 DEF Result, Verdicts, Conflict
<1>5. results' = [results EXCEPT ![i] = r] /\ conflicts' = [conflicts EXCEPT ![i] = c]
  BY <1>2 DEF Close, CentralInv, CentralTypeOK
<1> HIDE DEF r, c
<1>6. Sets(i, "accepted")
  BY <1>4, <1>5, StoredResult DEF CentralInv
<1>7. conflicts'[i] = c /\ \A j \in OpIds \ {i} : conflicts'[j] = conflicts[j]
  BY <1>5 DEF CentralInv, CentralTypeOK
<1>8. i \in disputedNow /\ disputedNow' = disputedNow \ {i}
  BY <1>1, <1>4, <1>7 DEF disputedNow, IsOpen
<1>9. LogsFor(i[1])
  <2>1. i[1] \in Sources
    BY DEF OpIds, Sources
  <2> QED
    BY <1>1, <2>1, PublishIsLogged DEF LogsFor, CentralInv
<1>10. Settles_(i)
  BY <1>6, <1>8, <1>9 DEF Settles_
<1> QED
  BY <1>10 DEF DecisionStep

(* So every step of the centre is a decision or leaves the record alone.     *)
LEMMA CentralDecides ==
  CentralInv /\ [CentralStep]_centralVars => DecisionStep
<1> SUFFICES ASSUME CentralInv, [CentralStep]_centralVars
             PROVE  DecisionStep
  OBVIOUS
<1>1. feed' \in Seq(FeedEntry)
  BY StepsOfTheLedger, LedgerStaysTyped DEF CentralInv
<1>2. ASSUME NEW op \in Operation, Push(op)
      PROVE  DecisionStep
  BY <1>1, <1>2, PushIsADecision
<1>3. ASSUME NEW op \in Operation, ReplayFails(op)
      PROVE  DecisionStep
  BY <1>3, ReplaySpoils
<1>4. ASSUME NEW i \in OpIds, ResolveSyncConflict(i)
      PROVE  DecisionStep
  BY <1>1, <1>4, ReviewSettles
<1>5. ASSUME NEW e \in Entities, CentralEdit(e) \/ CentralRevive(e)
      PROVE  DecisionStep
  <2>1. PublishesFor(e, NoDevice) /\ UNCHANGED <<results, conflicts>>
    BY <1>5, ScreensPublish DEF CentralInv
  <2>2. logNow' = Append(logNow, NoDevice)
    BY <1>1, <2>1, PublishIsLogged DEF CentralInv, Sources
  <2>3. Edits_
    BY <2>1, <2>2, NothingStored DEF Edits_, LogsFor
  <2> QED
    BY <2>3 DEF DecisionStep
<1>6. ASSUME NEW d \in Devices, SetDevice(d)
      PROVE  DecisionStep
  BY <1>6, NothingStored DEF SetDevice, DecisionStep
<1>7. CASE UNCHANGED centralVars
  BY <1>7, NothingStored DEF centralVars, DecisionStep
<1> QED
  BY <1>2, <1>3, <1>4, <1>5, <1>6, <1>7 DEF CentralStep

(* The central node implements DecisionLog: an operation is decided once,    *)
(* and the ledger is written at most once on its behalf, by the push that    *)
(* accepts it or by the review that settles it, however often it is sent     *)
(* again.                                                                    *)
THEOREM ImplementsDecisionLog == CentralSpec => DecidesOnce
<1>1. CentralInit => Decisions!Init
  <2> SUFFICES ASSUME CentralInit
               PROVE  Decisions!Init
    OBVIOUS
  <2>1. \A i \in OpIds : Verdict(i) = "none" /\ ~IsOpen(i)
    BY DEF CentralInit, Verdict, IsOpen
  <2>2. [k \in 1 .. Len(feed) |-> feed[k].source] = << >>
    BY DEF CentralInit
  <2> QED
    BY <2>1, <2>2 DEF Decisions!Init
<1>2. CentralInv /\ [CentralStep]_centralVars => [Decisions!Next]_(Decisions!decisionVars)
  BY CentralDecides, DecisionStepIsNext
<1> QED
  BY <1>1, <1>2, CentralInvariant, NextIsStep, PTL DEF CentralSpec, DecidesOnce, Decisions!Spec

=============================================================================
