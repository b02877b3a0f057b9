----------------------------- MODULE LocalNode -----------------------------
(* One desktop node: its PostgreSQL mirror of the ledger, the outbox that    *)
(* the triggers fill in the transaction of every local write, and the sync   *)
(* worker that empties it.  The operators here change the node only; module  *)
(* LedgerSync joins them with the centre and the network between.            *)
EXTENDS SyncBase, FiniteSetsExt, SequencesExt

CONSTANTS
  Self,       \* SYNC_DEVICE_ID
  BatchSize,  \* SYNC_PUSH_BATCH_SIZE
  NoOp

VARIABLES
  mirror,    \* the local copy of the synchronised tables
  outbox,    \* sync_outbox, by device_sequence
  issued,    \* sync_device_sequence
  flagged,   \* local sync_conflicts that are OPEN, by device_sequence
  cursor,    \* last_central_cursor
  ready,     \* snapshot_initialized_at is set
  stale,     \* resnapshot_required
  granted,   \* offline_grant_expires_at is in the future
  phase,     \* where runLocalSyncCycle stands
  batch,     \* pushOnce: the rows in hand, by device_sequence
  handled    \* pushOnce: how many of their results are processed

tableVars == <<mirror, outbox, issued, flagged>>
stateVars == <<cursor, ready, stale, granted>>
workerVars == <<phase, batch, handled>>
localVars == <<tableVars, stateVars, workerVars>>

Seqs == 1 .. MaxSeq

Statuses == {"PENDING", "SENDING", "RETRY", "ACKNOWLEDGED", "CONFLICT", "REJECTED"}

MirrorRow == [content: Contents, base: Nat]

OutboxOp == [entity: Entities, type: {"UPSERT", "DELETE"}, payload: Contents,
             base: Nat, status: Statuses]

Phases == {"idle", "drain", "fetch", "check", "replace", "push", "pull", "apply"}

ASSUME LocalAssumption ==
  /\ Self \in Devices /\ BatchSize \in Nat \ {0}
  /\ NoOp \notin OutboxOp /\ NoRow \notin MirrorRow

LocalInit ==
  /\ mirror = [e \in Entities |-> NoRow]
  /\ outbox = [n \in Seqs |-> NoOp]
  /\ issued = 0 /\ flagged = {}
  /\ cursor = 0 /\ ready = FALSE /\ stale = FALSE /\ granted = FALSE
  /\ phase = "idle" /\ batch = << >> /\ handled = 0

LocalTypeOK ==
  /\ mirror \in [Entities -> MirrorRow \cup {NoRow}]
  /\ outbox \in [Seqs -> OutboxOp \cup {NoOp}]
  /\ issued \in 0 .. MaxSeq /\ flagged \subseteq Seqs
  /\ cursor \in Nat /\ ready \in BOOLEAN /\ stale \in BOOLEAN /\ granted \in BOOLEAN
  /\ phase \in Phases /\ batch \in Seq(Seqs) /\ handled \in 0 .. Len(batch)

HasStatus(n, S) == outbox[n] # NoOp /\ outbox[n].status \in S

Unresolved(n) == HasStatus(n, Statuses \ {"ACKNOWLEDGED", "REJECTED"})

(* What pullOnce takes for a pending local operation.                        *)
Waiting(n) == HasStatus(n, {"PENDING", "SENDING", "RETRY"})

(* Faulty variant: any waiting operation counts, of whatever row.            *)
WaitingForAny(e) == {n \in Seqs : Waiting(n)}

WaitingFor(e) == {n \in Seqs : Waiting(n) /\ outbox[n].entity = e}

(* The operation as pushOnce puts it into the request.                       *)
Sent(n) == [device |-> Self, seq |-> n, entity |-> outbox[n].entity,
            type |-> outbox[n].type, payload |-> outbox[n].payload,
            base |-> outbox[n].base]

SetStatus(S, status) ==
  [n \in Seqs |-> IF n \in S THEN [outbox[n] EXCEPT !.status = status] ELSE outbox[n]]

-----------------------------------------------------------------------------
(* A write of the ledger screens, under localOfflinePolicy: the row and the  *)
(* outbox operation of trigger sync_capture_local_outbox in one transaction. *)

BaseOf(e) == IF mirror[e] = NoRow THEN 0 ELSE mirror[e].base

Enqueue(e, type, payload) ==
  /\ ready /\ granted /\ issued < MaxSeq
  /\ issued' = issued + 1
  /\ outbox' = [outbox EXCEPT ![issued + 1] =
       [entity |-> e, type |-> type, payload |-> payload, base |-> BaseOf(e),
        status |-> "PENDING"]]
  /\ UNCHANGED <<flagged, stateVars, workerVars>>

LocalUpsert(e, content) ==
  /\ ScreenMayWrite(mirror, e, content)
  /\ Enqueue(e, "UPSERT", content)
  /\ mirror' = [mirror EXCEPT ![e] = [content |-> content, base |-> BaseOf(e)]]

LocalDelete(e) ==
  /\ mirror[e] # NoRow /\ ErasableOnScreen(e)
  /\ Enqueue(e, "DELETE", mirror[e].content)
  /\ mirror' = [mirror EXCEPT ![e] = NoRow]

GrantExpires ==
  /\ granted /\ granted' = FALSE
  /\ UNCHANGED <<tableVars, cursor, ready, stale, workerVars>>

-----------------------------------------------------------------------------
(* runLocalSyncCycle: one cycle at a time.                                   *)

StartCycle ==
  /\ phase = "idle"
  /\ phase' = IF ~ready THEN "fetch" ELSE IF stale THEN "drain" ELSE "push"
  /\ UNCHANGED <<tableVars, stateVars, batch, handled>>

AfterPush == IF phase = "drain" THEN "fetch" ELSE "pull"

Selecting == phase \in {"drain", "push"} /\ batch = << >>

(* limit SYNC_PUSH_BATCH_SIZE                                                *)
Limited(s) == SubSeq(s, 1, IF Len(s) < BatchSize THEN Len(s) ELSE BatchSize)

(* order by device_sequence asc                                              *)
Upwards(S) == {q \in SetToSeqs(S) : \A j, k \in DOMAIN q : j < k => q[j] < q[k]}

(* Faulty variants: the backoff of an operation also holds back those that   *)
(* were never tried; RETRY is never selected.                                *)
BatchesOfDue ==
  {Limited(q) : q \in UNION {Upwards(due) :
                  due \in SUBSET {n \in Seqs : HasStatus(n, {"PENDING", "RETRY"})}}}

BatchesOfPending == {Limited(q) : q \in Upwards({n \in Seqs : HasStatus(n, {"PENDING"})})}

(* The batches a selection may return: the lowest sequences among those that *)
(* are PENDING or whose random backoff has run out.                          *)
Batches ==
  LET fresh == {n \in Seqs : HasStatus(n, {"PENDING"})}
      again == {n \in Seqs : HasStatus(n, {"RETRY"})}
  IN {Limited(q) : q \in UNION {Upwards(fresh \cup due) : due \in SUBSET again}}

SelectBatch(b) ==
  /\ Selecting /\ b \in Batches /\ b # << >>
  /\ batch' = b /\ handled' = 0
  /\ outbox' = SetStatus(ToSet(b), "SENDING")
  /\ UNCHANGED <<mirror, issued, flagged, stateVars, phase>>

NothingToPush ==
  /\ Selecting /\ << >> \in Batches
  /\ phase' = AfterPush
  /\ UNCHANGED <<tableVars, stateVars, batch, handled>>

(* The loop over the results has come to its end.                            *)
FinishPush ==
  /\ batch # << >> /\ handled = Len(batch)
  /\ batch' = << >> /\ handled' = 0 /\ phase' = AfterPush
  /\ UNCHANGED <<tableVars, stateVars>>

(* The catch of pushOnce: an answer that does not come, or an exception      *)
(* while one result is applied, sends every row of the batch to RETRY.       *)
BatchFails ==
  /\ batch # << >>
  /\ outbox' = SetStatus(ToSet(batch), "RETRY")
  /\ batch' = << >> /\ handled' = 0 /\ phase' = AfterPush
  /\ UNCHANGED <<mirror, issued, flagged, stateVars>>

-----------------------------------------------------------------------------
(* Faulty variant: sync_central_version is not written with the row.         *)
AuthoritativeKeepsBase(e, content, version, tombstone) ==
  IF tombstone THEN NoRow
  ELSE [content |-> content, base |-> IF mirror[e] = NoRow THEN version ELSE mirror[e].base]

(* applyAuthoritativeRow writes mirror row e with both triggers off.  The    *)
(* bare id and deleted_at that answer a delete of nothing change no column   *)
(* of a hard table but the version.                                          *)
Authoritative(e, content, version, tombstone) ==
  IF tombstone
  THEN IF e \in SoftEntities /\ mirror[e] # NoRow
       THEN [content |-> Deleted, base |-> version]
       ELSE NoRow
  ELSE IF content = Deleted /\ e \notin SoftEntities
       THEN [mirror[e] EXCEPT !.base = version]
       ELSE [content |-> content, base |-> version]

ParentHere(e) == Parent[e] # NoEntity => mirror[Parent[e]] # NoRow

(* It throws when a required parent row is not here, and when that bare      *)
(* answer meets a missing row.                                               *)
ApplyThrows(e, content) ==
  \/ content # NoContent /\ ~ParentHere(e)
  \/ content = Deleted /\ e \notin SoftEntities /\ mirror[e] = NoRow

(* The result of the next row of the batch.                                  *)
HandleResult(answer) ==
  LET n == batch[handled + 1]
      e == outbox[n].entity
  IN
  /\ batch # << >> /\ handled < Len(batch)
  /\ handled' = handled + 1
  /\ \/ /\ answer.status = "ACCEPTED" /\ ~ApplyThrows(e, answer.content)
        /\ mirror' = IF answer.content = NoContent THEN mirror
                     ELSE [mirror EXCEPT ![e] =
                             Authoritative(e, answer.content, answer.version, FALSE)]
        /\ outbox' = SetStatus({n}, "ACKNOWLEDGED")
        /\ UNCHANGED flagged
     \/ /\ answer.status = "CONFLICT"
        /\ outbox' = SetStatus({n}, "CONFLICT")
        /\ flagged' = flagged \cup {n}
        /\ UNCHANGED mirror
     \/ /\ answer.status \in {"DEPENDENCY_PENDING", "CENTRAL_PROCESSING_FAILED"}
        /\ outbox' = SetStatus({n}, "RETRY")
        /\ UNCHANGED <<mirror, flagged>>
     \/ /\ answer.status \in {"PERMISSION_REJECTED", "DEVICE_REVOKED"}
        /\ outbox' = SetStatus({n}, "REJECTED")
        /\ UNCHANGED <<mirror, flagged>>
  /\ UNCHANGED <<issued, stateVars, phase, batch>>

-----------------------------------------------------------------------------
(* pullOnce, one change per transaction (SYNC_PULL_BATCH_SIZE = 1).          *)

MustResnapshot ==
  /\ phase = "pull"
  /\ stale' = TRUE /\ phase' = "idle"
  /\ UNCHANGED <<tableVars, cursor, ready, granted, batch, handled>>

PullNothing ==
  /\ phase = "pull" /\ phase' = "idle"
  /\ UNCHANGED <<tableVars, stateVars, batch, handled>>

(* A change of another origin meets a waiting operation: the latest one      *)
(* becomes a conflict, the change is left out and the cursor moves on.       *)
PullConflict(change, position) ==
  LET latest == Max(WaitingFor(change.entity)) IN
  /\ phase = "pull" /\ WaitingFor(change.entity) # {} /\ change.source # Self
  /\ outbox' = SetStatus({latest}, "CONFLICT")
  /\ flagged' = flagged \cup {latest}
  /\ cursor' = position /\ phase' = "idle"
  /\ UNCHANGED <<mirror, issued, ready, stale, granted, batch, handled>>

(* Otherwise the change is applied, in a statement of its own: a local write *)
(* may commit between the check and the update.                              *)
PullCheck(change) ==
  /\ phase = "pull" /\ (WaitingFor(change.entity) = {} \/ change.source = Self)
  /\ phase' = "apply"
  /\ UNCHANGED <<tableVars, stateVars, batch, handled>>

(* Faulty variant: the cursor stops short of the change.                     *)
PullApplyShort(change, position) ==
  /\ phase = "apply" /\ ~ApplyThrows(change.entity, change.content)
  /\ mirror' = [mirror EXCEPT ![change.entity] =
       Authoritative(change.entity, change.content, change.version, change.tombstone)]
  /\ cursor' = position - 1 /\ phase' = "idle"
  /\ UNCHANGED <<outbox, issued, flagged, ready, stale, granted, batch, handled>>

PullApply(change, position) ==
  LET e == change.entity
      reviewed == {n \in Seqs : HasStatus(n, {"CONFLICT"}) /\ outbox[n].entity = e}
  IN
  /\ phase = "apply" /\ ~ApplyThrows(e, change.content)
  /\ mirror' = [mirror EXCEPT ![e] =
       Authoritative(e, change.content, change.version, change.tombstone)]
  /\ outbox' = SetStatus(reviewed, "ACKNOWLEDGED")
  /\ flagged' = flagged \ reviewed
  /\ cursor' = position /\ phase' = "idle"
  /\ UNCHANGED <<issued, ready, stale, granted, batch, handled>>

PullAborts ==
  /\ phase = "apply" /\ phase' = "idle"
  /\ UNCHANGED <<tableVars, stateVars, batch, handled>>

-----------------------------------------------------------------------------
(* ensureSnapshotReady and applyScopedSnapshot.                              *)

SnapshotFetched ==
  /\ phase = "fetch" /\ phase' = "check"
  /\ UNCHANGED <<tableVars, stateVars, batch, handled>>

(* SCOPED_SNAPSHOT_BLOCKED_BY_UNRESOLVED_OUTBOX                              *)
SnapshotBlocked ==
  /\ phase = "check" /\ \E n \in Seqs : Unresolved(n)
  /\ phase' = "idle"
  /\ UNCHANGED <<tableVars, stateVars, batch, handled>>

SnapshotCleared ==
  /\ phase = "check" /\ ~ \E n \in Seqs : Unresolved(n)
  /\ phase' = "replace"
  /\ UNCHANGED <<tableVars, stateVars, batch, handled>>

(* TRUNCATE companies CASCADE empties every table that refers to a company:  *)
(* the ledger, and sync_outbox and sync_conflicts with it.                   *)
SnapshotReplaces(image, position) ==
  /\ phase = "replace" /\ phase' = "push"
  /\ mirror' = image
  /\ outbox' = [n \in Seqs |-> NoOp]
  /\ flagged' = {}
  /\ cursor' = position /\ ready' = TRUE /\ stale' = FALSE /\ granted' = TRUE
  /\ UNCHANGED <<issued, batch, handled>>

CycleFails ==
  /\ phase \in {"fetch", "check", "replace", "pull"} /\ phase' = "idle"
  /\ UNCHANGED <<tableVars, stateVars, batch, handled>>

(* Faulty variants: nothing is recovered; the worker resumes a batch that is *)
(* gone.                                                                     *)
RestartWithoutRecovery ==
  /\ phase' = "idle" /\ batch' = << >> /\ handled' = 0
  /\ UNCHANGED <<tableVars, stateVars>>

RestartMidBatch ==
  /\ outbox' = SetStatus({n \in Seqs : HasStatus(n, {"SENDING"})}, "RETRY")
  /\ phase' = "idle" /\ batch' = << >>
  /\ UNCHANGED <<mirror, issued, flagged, stateVars, handled>>

(* The process stops and is started again: recoverInterruptedOutboxOperations *)
(* runs before the server listens and the worker starts.                     *)
Restart ==
  /\ outbox' = SetStatus({n \in Seqs : HasStatus(n, {"SENDING"})}, "RETRY")
  /\ phase' = "idle" /\ batch' = << >> /\ handled' = 0
  /\ UNCHANGED <<mirror, issued, flagged, stateVars>>
=============================================================================
