---------------------------- MODULE CentralSync ----------------------------
(* The central node: the ledger tables with their triggers, the durable      *)
(* results of pushed operations, the change feed and the conflict review.    *)
(* Each action is one committed transaction.  On its own the module accepts  *)
(* any operation of Requests, any number of times and in any order: what a   *)
(* network that repeats and reorders, and any number of devices, can send.   *)
EXTENDS SyncBase

CONSTANTS
  Requests,  \* the operations devices may push
  MaxFeed    \* bound: length of the change feed

ASSUME CentralAssumption == Requests \subseteq Operation /\ MaxFeed \in Nat

VARIABLES
  rows,       \* the synchronised tables
  results,    \* sync_operation_results
  conflicts,  \* sync_conflicts
  feed,       \* sync_change_feed; the position is cursor_id
  active      \* linked_devices that are not blocked and 'active'

centralVars == <<rows, results, conflicts, feed, active>>

CentralInit ==
  /\ rows = [e \in Entities |-> NoRow]
  /\ results = [i \in OpIds |-> NoResult]
  /\ conflicts = [i \in OpIds |-> NoConflict]
  /\ feed = << >>
  /\ active = Devices

-----------------------------------------------------------------------------
(* Tables and triggers.                                                      *)

Exists(e) == rows[e] # NoRow

(* Faulty variant: an update the version trigger does not see.               *)
BumpedNever(row) == row

(* sync_increment_row_version, before every update *)
Bumped(row) == [row EXCEPT !.version = @ + 1]

FeedHasRoom == Len(feed) < MaxFeed

Publish(e, version, content, source, tombstone) ==
  /\ FeedHasRoom
  /\ feed' = Append(feed, [entity |-> e, version |-> version, content |-> content,
                           source |-> source, tombstone |-> tombstone])

(* An insert or update of row e and the feed entry its trigger writes.       *)
Write(e, row, source) ==
  /\ rows' = [rows EXCEPT ![e] = row]
  /\ Publish(e, row.version, row.content, source, FALSE)

(* Faulty variant: the delete is published as if it were an update.          *)
EraseWithoutTombstone(e, source) ==
  /\ \A c \in Entities : Parent[c] = e => ~Exists(c)
  /\ rows' = [rows EXCEPT ![e] = NoRow]
  /\ Publish(e, rows[e].version, NoContent, source, FALSE)

(* A hard delete and its tombstone.                                          *)
Erase(e, source) ==
  /\ \A c \in Entities : Parent[c] = e => ~Exists(c)
  /\ rows' = [rows EXCEPT ![e] = NoRow]
  /\ Publish(e, rows[e].version, NoContent, source, TRUE)

-----------------------------------------------------------------------------
(* applyPushOperation                                                        *)

(* Faulty variants: the stored result, or the state of the device, is not    *)
(* looked at.                                                                *)
FirstSeenAlways(op) == op.device \in active

FirstSeenOfAnyDevice(op) == results[IdOf(op)] = NoResult

FirstSeen(op) == op.device \in active /\ results[IdOf(op)] = NoResult

DependencyMissing(e) == Parent[e] # NoEntity /\ ~Exists(Parent[e])

InScope(op) == op.entity \in Scope[op.device]

Admitted(op) == FirstSeen(op) /\ ~DependencyMissing(op.entity) /\ InScope(op)

SameBusinessPayload(op) == rows[op.entity].content = op.payload

(* The device that wrote the row last may continue on a stale base.          *)
SameDeviceContinuation(op) ==
  /\ rows[op.entity].origin = op.device
  /\ rows[op.entity].lastSeq < op.seq

VersionMismatch(op) ==
  /\ Exists(op.entity)
  /\ rows[op.entity].version # op.base
  /\ ~SameDeviceContinuation(op)
  /\ ~SameBusinessPayload(op)

FinishResult(op, status, version, content) ==
  results' = [results EXCEPT ![IdOf(op)] =
    [status |-> status, entity |-> op.entity, hash |-> op.payload,
     version |-> version, content |-> content]]

ParkDependency(op) ==
  /\ FirstSeen(op) /\ DependencyMissing(op.entity)
  /\ FinishResult(op, "DEPENDENCY_PENDING", 0, NoContent)
  /\ UNCHANGED <<rows, conflicts, feed, active>>

RejectScope(op) ==
  /\ FirstSeen(op) /\ ~DependencyMissing(op.entity) /\ ~InScope(op)
  /\ FinishResult(op, "PERMISSION_REJECTED", 0, NoContent)
  /\ UNCHANGED <<rows, conflicts, feed, active>>

RaiseConflict(op) ==
  LET current == rows[op.entity] IN
  /\ Admitted(op) /\ VersionMismatch(op)
  /\ conflicts' = [conflicts EXCEPT ![IdOf(op)] =
       [status |-> "OPEN", entity |-> op.entity, content |-> op.payload,
        version |-> current.version]]
  /\ FinishResult(op, "CONFLICT", current.version, current.content)
  /\ UNCHANGED <<rows, feed, active>>

Accepts(op) == Admitted(op) /\ ~VersionMismatch(op)

(* Faulty variant: the update keeps the old sync_origin_device_id.           *)
StampedWithoutOrigin(row, content, op) ==
  [row EXCEPT !.content = content, !.lastSeq = op.seq]

(* The row as an accepted operation leaves it.                               *)
Stamped(row, content, op) ==
  [row EXCEPT !.content = content, !.origin = op.device, !.lastSeq = op.seq]

InsertRow(op) ==
  LET row == [content |-> op.payload, version |-> 0,
              origin |-> op.device, lastSeq |-> op.seq] IN
  /\ Accepts(op) /\ op.type = "UPSERT" /\ ~Exists(op.entity)
  /\ Write(op.entity, row, op.device)
  /\ FinishResult(op, "ACCEPTED", row.version, row.content)
  /\ UNCHANGED <<conflicts, active>>

(* The payload is already there: nothing is written.                         *)
KeepRow(op) ==
  /\ Accepts(op) /\ op.type = "UPSERT" /\ Exists(op.entity) /\ SameBusinessPayload(op)
  /\ FinishResult(op, "ACCEPTED", rows[op.entity].version, rows[op.entity].content)
  /\ UNCHANGED <<rows, conflicts, feed, active>>

UpdateRow(op) ==
  LET row == Stamped(Bumped(rows[op.entity]), op.payload, op) IN
  /\ Accepts(op) /\ op.type = "UPSERT" /\ Exists(op.entity) /\ ~SameBusinessPayload(op)
  /\ Write(op.entity, row, op.device)
  /\ FinishResult(op, "ACCEPTED", row.version, row.content)
  /\ UNCHANGED <<conflicts, active>>

SoftDelete(op) ==
  LET row == Stamped(Bumped(rows[op.entity]), Deleted, op) IN
  /\ Accepts(op) /\ op.type = "DELETE" /\ Exists(op.entity) /\ op.entity \in SoftEntities
  /\ Write(op.entity, row, op.device)
  /\ FinishResult(op, "ACCEPTED", row.version, row.content)
  /\ UNCHANGED <<conflicts, active>>

(* The answer carries the row as it was before it went.                      *)
HardDelete(op) ==
  /\ Accepts(op) /\ op.type = "DELETE" /\ Exists(op.entity) /\ op.entity \notin SoftEntities
  /\ Erase(op.entity, op.device)
  /\ FinishResult(op, "ACCEPTED", rows[op.entity].version, rows[op.entity].content)
  /\ UNCHANGED <<conflicts, active>>

DeleteNothing(op) ==
  /\ Accepts(op) /\ op.type = "DELETE" /\ ~Exists(op.entity)
  /\ FinishResult(op, "ACCEPTED", 0, Deleted)
  /\ UNCHANGED <<rows, conflicts, feed, active>>

(* An exception rolls the transaction back; the failure is stored in a       *)
(* transaction of its own.                                                   *)
ProcessingFails(op) ==
  /\ FirstSeen(op)
  /\ FinishResult(op, "CENTRAL_PROCESSING_FAILED", 0, NoContent)
  /\ UNCHANGED <<rows, conflicts, feed, active>>

(* The same handler covers the replay of an operation that has a result: the *)
(* insert hits operation_id and turns the stored row into a failure.         *)
ReplayFails(op) ==
  /\ results[IdOf(op)] # NoResult
  /\ results[IdOf(op)].hash = op.payload
  /\ results' = [results EXCEPT ![IdOf(op)].status = "CENTRAL_PROCESSING_FAILED"]
  /\ UNCHANGED <<rows, conflicts, feed, active>>

Push(op) ==
  \/ ParkDependency(op) \/ RejectScope(op) \/ RaiseConflict(op)
  \/ InsertRow(op) \/ KeepRow(op) \/ UpdateRow(op)
  \/ SoftDelete(op) \/ HardDelete(op) \/ DeleteNothing(op)
  \/ ProcessingFails(op)

-----------------------------------------------------------------------------
(* resolveSyncConflict                                                       *)

IsOpen(i) == conflicts[i] # NoConflict /\ conflicts[i].status = "OPEN"

(* Faulty variant: the stored result is left as it was.                      *)
CloseCaseOnly(i, version, content) ==
  /\ conflicts' = [conflicts EXCEPT ![i].status = "RESOLVED"]
  /\ UNCHANGED <<results, active>>

Close(i, version, content) ==
  /\ conflicts' = [conflicts EXCEPT ![i].status = "RESOLVED"]
  /\ results' = [results EXCEPT ![i].status = "ACCEPTED",
                                ![i].version = version, ![i].content = content]
  /\ UNCHANGED active

ReviewedRow(e, content, device) ==
  IF Exists(e) THEN [Bumped(rows[e]) EXCEPT !.content = content, !.origin = device]
               ELSE [content |-> content, version |-> 0, origin |-> device, lastSeq |-> 0]

ResolveWith(i, content) ==
  LET e == conflicts[i].entity
      row == ReviewedRow(e, content, i[1])
  IN /\ ~DependencyMissing(e)
     /\ Write(e, row, i[1])
     /\ Close(i, row.version, content)

(* Faulty variant: a decision without a payload is not refused.              *)
ReviewRowWithoutPayload(i) ==
  IsOpen(i) /\ \E content \in Contents \cup {NoContent} : ResolveWith(i, content)

(* APPLY_LOCAL writes what the device sent, APPLY_EDITED anything, and       *)
(* KEEP_CENTRAL rewrites the row with its own columns.                       *)
ReviewRow(i) ==
  IsOpen(i) /\ \E content \in ContentsOf(conflicts[i].entity) : ResolveWith(i, content)

(* KEEP_CENTRAL finds the row gone: only a tombstone is published.           *)
KeepGone(i) ==
  LET c == conflicts[i] IN
  /\ IsOpen(i) /\ ~Exists(c.entity)
  /\ Publish(c.entity, c.version, NoContent, i[1], TRUE)
  /\ UNCHANGED rows
  /\ Close(i, c.version, NoContent)

ResolveSyncConflict(i) == ReviewRow(i) \/ KeepGone(i)

-----------------------------------------------------------------------------
(* The ledger screens of the central node write the same tables without an   *)
(* app.sync_device_id, and leave the two origin columns as they are.         *)

CentralInsert(e) ==
  /\ ~Exists(e)
  /\ \E content \in Contents :
       /\ ScreenMayWrite(rows, e, content)
       /\ Write(e, [content |-> content, version |-> 0, origin |-> NoDevice, lastSeq |-> 0],
                NoDevice)
  /\ UNCHANGED <<results, conflicts, active>>

Reword(e, content) == Write(e, [Bumped(rows[e]) EXCEPT !.content = content], NoDevice)

CentralUpdate(e) ==
  /\ Exists(e)
  /\ \E content \in Contents : ScreenMayWrite(rows, e, content) /\ Reword(e, content)
  /\ UNCHANGED <<results, conflicts, active>>

(* The undo of a dispatch brings a deleted session back for its rows.        *)
CentralRevive(e) ==
  /\ Exists(e) /\ ~Alive(rows, e) /\ \E c \in Entities : Parent[c] = e
  /\ \E content \in Contents \ {Deleted} : Reword(e, content)
  /\ UNCHANGED <<results, conflicts, active>>

CentralDelete(e) ==
  /\ Exists(e) /\ ErasableOnScreen(e)
  /\ Erase(e, NoDevice)
  /\ UNCHANGED <<results, conflicts, active>>

CentralEdit(e) == CentralInsert(e) \/ CentralUpdate(e) \/ CentralDelete(e)

(* An administrator blocks a device, or lifts the block.                     *)
SetDevice(d) ==
  /\ active' = IF d \in active THEN active \ {d} ELSE active \cup {d}
  /\ UNCHANGED <<rows, results, conflicts, feed>>

CentralNext ==
  \/ \E op \in Requests : Push(op) \/ ReplayFails(op)
  \/ \E i \in OpIds : ResolveSyncConflict(i)
  \/ \E e \in Entities : CentralEdit(e) \/ CentralRevive(e)
  \/ \E d \in Devices : SetDevice(d)

CentralSpec == CentralInit /\ [][CentralNext]_centralVars

-----------------------------------------------------------------------------
(* Correctness.                                                              *)

(* Every table, result, conflict and feed entry has the shape of its DDL.    *)
CentralTypeOK ==
  /\ rows \in [Entities -> Row \cup {NoRow}]
  /\ results \in [OpIds -> Result \cup {NoResult}]
  /\ conflicts \in [OpIds -> Conflict \cup {NoConflict}]
  /\ feed \in Seq(FeedEntry)
  /\ active \subseteq Devices

LastAbout(k, e) ==
  /\ k \in 1 .. Len(feed) /\ feed[k].entity = e
  /\ \A j \in 1 .. Len(feed) : feed[j].entity = e => j <= k

(* Replaying the feed rebuilds the tables: the last entry about a row that   *)
(* exists carries its content and version, and the last entry about a row    *)
(* that is gone is a tombstone.  A puller that reads every entry therefore   *)
(* ends with the central rows, whatever wrote them.                          *)
FeedRebuildsRows ==
  \A e \in Entities :
    IF Exists(e)
    THEN \E k \in 1 .. Len(feed) :
           /\ LastAbout(k, e) /\ ~feed[k].tombstone
           /\ feed[k].content = rows[e].content /\ feed[k].version = rows[e].version
    ELSE \A k \in 1 .. Len(feed) : LastAbout(k, e) => feed[k].tombstone

(* The versions published for a row that is only ever deleted softly go up,  *)
(* so that a version names one content of the row for every device.          *)
SoftVersionsGrow ==
  \A j, k \in 1 .. Len(feed) :
    j < k /\ feed[j].entity = feed[k].entity /\ feed[j].entity \in SoftEntities
      => feed[j].version < feed[k].version

(* A stored CONFLICT always has its open case for the reviewer, and an open  *)
(* case is answered CONFLICT to every replay, unless a replay has failed.    *)
ConflictsHaveACase ==
  \A i \in OpIds :
    /\ results[i] # NoResult /\ results[i].status = "CONFLICT" => IsOpen(i)
    /\ IsOpen(i) =>
         /\ results[i] # NoResult
         /\ results[i].status \in {"CONFLICT", "CENTRAL_PROCESSING_FAILED"}
         /\ results[i].entity = conflicts[i].entity

(* sameDeviceContinuation trusts sync_origin_device_id.  What it means: the  *)
(* last device whose operation or reviewed conflict wrote the row since it   *)
(* was created; central edits do not show in it.                             *)
OriginIsLastDevice ==
  \A e \in Entities : Exists(e) =>
    IF rows[e].origin # NoDevice
    THEN \E k \in 1 .. Len(feed) :
           /\ feed[k].entity = e /\ feed[k].source = rows[e].origin
           /\ \A j \in k + 1 .. Len(feed) : feed[j].entity = e =>
                feed[j].source = NoDevice /\ ~feed[j].tombstone
    ELSE \A k \in 1 .. Len(feed) : feed[k].entity = e /\ feed[k].source # NoDevice =>
           \E j \in k .. Len(feed) : feed[j].entity = e /\ feed[j].tombstone

(* What is on record for operation i, as far as the node acts on it.         *)
Verdict(i) ==
  IF results[i] = NoResult THEN "none"
  ELSE CASE results[i].status = "ACCEPTED" -> "accepted"
         [] results[i].status = "CONFLICT" -> "disputed"
         [] OTHER -> "refused"

Decisions == INSTANCE DecisionLog WITH
  Ops <- OpIds,
  Device <- [i \in OpIds |-> i[1]],
  Nobody <- NoDevice,
  verdict <- [i \in OpIds |-> Verdict(i)],
  disputed <- {i \in OpIds : IsOpen(i)},
  log <- [k \in 1 .. Len(feed) |-> feed[k].source]

(* However often an operation is sent, replayed, failed and reviewed, it is  *)
(* decided once, and the ledger is written at most once on its behalf.       *)
DecidesOnce == Decisions!Spec

(* "Central processing failed. The operation was not applied."               *)
(* (centralSyncService.ts:353): what was applied is not reported so.         *)
FailedMeansNotApplied ==
  [][\A i \in OpIds : results[i] # NoResult /\ results[i].status = "ACCEPTED"
       => results'[i].status # "CENTRAL_PROCESSING_FAILED"]_centralVars

-----------------------------------------------------------------------------
(* Statements of the report the code does not keep, for whoever changes it.  *)
(* No configuration checks them: see README, deviations.                     *)

(* Operations of one device take effect in the order of device_sequence: a   *)
(* row never goes back to an earlier operation of the device that wrote it.  *)
DeviceOrder ==
  [][\A e \in Entities :
       Exists(e) /\ rows'[e] # NoRow /\ rows'[e].origin = rows[e].origin
         => rows[e].lastSeq <= rows'[e].lastSeq]_centralVars

(* A conflict arises when the base of an operation differs from the central  *)
(* version: an update never runs over somebody else's newer write.           *)
StaleBaseConflicts ==
  [][\A op \in Requests : UpdateRow(op) =>
       \A k \in 1 .. Len(feed) :
         feed[k].entity = op.entity /\ feed[k].version > op.base
           => feed[k].source = op.device]_centralVars
=============================================================================
