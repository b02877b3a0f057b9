------------------------- MODULE LedgerSync_proofs -------------------------
(* Theorems about a desktop node and the centre, for any instance: first the *)
(* shape of what the node holds and of what travels, then how far the cursor *)
(* moves, then what a blocked device can do, then what the mirror shows,     *)
(* then in which order the centre hears of the writes of the node, and last  *)
(* that the rows the node only reads are those of the centre.                *)
EXTENDS LedgerSync, CentralSync_proofs, FiniteSums_proofs

-----------------------------------------------------------------------------
(* What travels.                                                             *)

(* The operations the node can have sent: of one of its own sequences, on    *)
(* the row the outbox has under it if it has one, the erasure only of a row  *)
(* a screen erases, and no deleted_at for a table that has none.             *)
OwnOps ==
  {op \in Operation :
     /\ op.device = Self /\ op.seq <= issued
     /\ op.type = "DELETE" => ErasableOnScreen(op.entity)
     /\ op.type = "UPSERT" => op.payload \in ContentsOf(op.entity)
     /\ outbox[op.seq] # NoOp => outbox[op.seq].entity = op.entity}

AnswerType ==
  [status: Verdicts \cup {"DEVICE_REVOKED"}, version: Nat, content: Contents \cup {NoContent}]

ImageType == [rows: [Entities -> MirrorRow \cup {NoRow}], cursor: Nat]

NetTypeOK ==
  /\ request \in Seq(OwnOps) /\ orphan \in Seq(OwnOps)
  /\ answers \in Seq(AnswerType)
  /\ image \in ImageType
  /\ pulled \in Nat /\ purged \in Nat
  /\ phase = "apply" => pulled \in 1 .. Len(feed)

(* A tombstone is an entry without a content, and is about a hard row.       *)
TombstonesAreHard ==
  \A k \in 1 .. Len(feed) :
    /\ feed[k].tombstone <=> feed[k].content = NoContent
    /\ feed[k].tombstone => feed[k].entity \notin SoftEntities

CentreInv == CentralInv /\ SoftRowsStay /\ FeedRebuildsRows /\ TombstonesAreHard

(* A row of the outbox has a sequence that was issued.                       *)
OutboxIsIssued ==
  \A n \in Seqs : outbox[n] # NoOp =>
    /\ n <= issued
    /\ outbox[n].type = "DELETE" => ErasableOnScreen(outbox[n].entity)
    /\ outbox[n].type = "UPSERT" => outbox[n].payload \in ContentsOf(outbox[n].entity)

(* A batch is in hand in the push only, and its rows are in the outbox.      *)
BatchInHand ==
  /\ batch # << >> => phase \in {"drain", "push"}
  /\ \A k \in 1 .. Len(batch) : outbox[batch[k]] # NoOp

NodeInv == LocalTypeOK /\ OutboxIsIssued /\ BatchInHand /\ NoStrandedSending

SyncInv == CentreInv /\ NodeInv /\ NetTypeOK

-----------------------------------------------------------------------------
(* The centre in a step of the whole: it decides or replays an operation of  *)
(* the node, decides one of another device, or is at work on its own.        *)
CentreStep ==
  \/ UNCHANGED centralVars
  \/ \E op \in OwnOps : Push(op) \/ ReplayFails(op)
  \/ \E op \in Others : Push(op)
  \/ \E i \in OpIds : ResolveSyncConflict(i)
  \/ \E e \in Entities : CentralEdit(e) \/ CentralRevive(e)
  \/ \E d \in Devices : SetDevice(d)

LEMMA ServedAtTheCentre ==
  ASSUME NEW s \in Seq(OwnOps), s # << >>, NEW who, ApplyPushOperation(Head(s), who)
  PROVE  CentreStep
<1>1. Head(s) \in OwnOps
  BY HeadTailProperties
<1> QED
  BY <1>1 DEF ApplyPushOperation, Decide, CentreStep

LEMMA StepsOfTheCentre ==
  ASSUME NetTypeOK, [Next]_vars
  PROVE  CentreStep
<1>1. CASE Worker
  BY <1>1
     DEF Worker, BeginCycle, SkipPush, BeginPush, Deliver, EndPush, PullGap, PullEmpty,
         PullOne, ApplyOne, EndPull, FetchSnapshot, RefuseSnapshot, ClearSnapshot,
         ApplySnapshot, Quiet, CentreStep
<1>2. CASE Serve
  BY <1>2, ServedAtTheCentre DEF Serve, NetTypeOK
<1>3. CASE ServeOrphan
  BY <1>3, ServedAtTheCentre DEF ServeOrphan, NetTypeOK
<1>4. CASE Mishaps
  BY <1>4 DEF Mishaps, LosePush, AbortOne, EndPull, AbandonCycle, Crash, Quiet, CentreStep
<1>5. CASE UserWrites \/ Expire \/ Purge \/ UNCHANGED vars
  BY <1>5 DEF UserWrites, Expire, Purge, vars, CentreStep
<1>6. CASE World
  <2>1. CASE OthersPush
    BY <2>1 DEF OthersPush, Decide, CentreStep
  <2>2. CASE CentralScreens \/ Reviewer \/ Administrator
    BY <2>2, LocalAssumption DEF CentralScreens, Reviewer, Administrator, CentreStep
  <2> QED
    BY <1>6, <2>1, <2>2 DEF World
<1> QED
  BY <1>1, <1>2, <1>3, <1>4, <1>5, <1>6 DEF Next

LEMMA OthersOps ==
  \A op \in Others : /\ op \in Operation /\ op.device # Self
                     /\ op.type = "UPSERT" => op.payload \in ContentsOf(op.entity)
BY LedgerAssumption, CentralAssumption

LEMMA CentreStepsAreCentral == CentreStep => [CentralStep]_centralVars
BY OthersOps DEF CentreStep, CentralStep, OwnOps

(* The feed only grows, and what it gains about a soft row is no tombstone.  *)
FeedGrows ==
  /\ Len(feed) \in Nat /\ Len(feed') \in Nat /\ Len(feed) <= Len(feed')
  /\ \A k \in 1 .. Len(feed) : feed'[k] = feed[k]

LEMMA FeedOnlyGrows ==
  ASSUME CentralTypeOK, LedgerStep
  PROVE  FeedGrows
<1>1. CASE UNCHANGED <<rows, feed>>
  BY <1>1 DEF FeedGrows, CentralTypeOK
<1>2. ASSUME NEW e \in Entities, NEW row \in Row, NEW source \in Sources,
             WritesRow(e, row, source)
      PROVE  FeedGrows
  <2>1. Appended(e, row.version, row.content, source, FALSE)
    BY <1>2, WriteAppends
  <2> QED
    BY <2>1 DEF Appended, FeedGrows
<1>3. ASSUME NEW e \in Entities, NEW source \in Sources, ErasesRow(e, source)
      PROVE  FeedGrows
  <2>1. Appended(e, rows[e].version, NoContent, source, TRUE)
    BY <1>3, EraseAppends
  <2> QED
    BY <2>1 DEF Appended, FeedGrows
<1>4. ASSUME NEW i \in OpIds, RepeatsTombstone(i)
      PROVE  FeedGrows
  <2>1. Appended(conflicts[i].entity, conflicts[i].version, NoContent, i[1], TRUE)
    BY <1>4, TombstoneAppends
  <2> QED
    BY <2>1 DEF Appended, FeedGrows
<1> QED
  BY <1>1, <1>2, <1>3, <1>4 DEF LedgerStep

(* One more entry keeps tombstones apart from contents and from soft rows.   *)
LEMMA TombstonesStayHard ==
  ASSUME TombstonesAreHard, NEW e, NEW version, NEW content, NEW source,
         NEW tombstone \in BOOLEAN, Appended(e, version, content, source, tombstone),
         tombstone <=> content = NoContent, tombstone => e \notin SoftEntities
  PROVE  TombstonesAreHard'
<1> SUFFICES ASSUME NEW k \in 1 .. Len(feed')
             PROVE  /\ feed'[k].tombstone <=> feed'[k].content = NoContent
                    /\ feed'[k].tombstone => feed'[k].entity \notin SoftEntities
  BY DEF TombstonesAreHard
<1>1. CASE k \in 1 .. Len(feed)
  BY <1>1 DEF Appended, TombstonesAreHard
<1>2. CASE k = Len(feed) + 1
  BY <1>2 DEF Appended
<1> QED
  BY <1>1, <1>2 DEF Appended

LEMMA TombstonesStep ==
  ASSUME CentralTypeOK, SoftRowsStay, TombstonesAreHard, LedgerStep
  PROVE  TombstonesAreHard'
<1>1. CASE UNCHANGED <<rows, feed>>
  BY <1>1 DEF TombstonesAreHard
<1>2. ASSUME NEW e \in Entities, NEW row \in Row, NEW source \in Sources,
             WritesRow(e, row, source)
      PROVE  TombstonesAreHard'
  <2>1. Appended(e, row.version, row.content, source, FALSE)
    BY <1>2, WriteAppends
  <2>2. row.content # NoContent
    BY BaseAssumption DEF Row
  <2> QED
    BY <2>1, <2>2, TombstonesStayHard
<1>3. ASSUME NEW e \in Entities, NEW source \in Sources, ErasesRow(e, source)
      PROVE  TombstonesAreHard'
  <2>1. Appended(e, rows[e].version, NoContent, source, TRUE) /\ e \notin SoftEntities
    BY <1>3, EraseAppends
  <2> QED
    BY <2>1, TombstonesStayHard
<1>4. ASSUME NEW i \in OpIds, RepeatsTombstone(i)
      PROVE  TombstonesAreHard'
  <2>1. Appended(conflicts[i].entity, conflicts[i].version, NoContent, i[1], TRUE)
    BY <1>4, TombstoneAppends
  <2>2. conflicts[i].entity \notin SoftEntities
    BY <1>4 DEF RepeatsTombstone, SoftRowsStay
  <2> QED
    BY <2>1, <2>2, TombstonesStayHard
<1> QED
  BY <1>1, <1>2, <1>3, <1>4 DEF LedgerStep

LEMMA CentreInvStep ==
  ASSUME CentreInv, CentreStep
  PROVE  CentreInv' /\ FeedGrows /\ LedgerStep
<1>1. CentralTypeOK /\ [CentralStep]_centralVars
  BY CentreStepsAreCentral DEF CentreInv, CentralInv
<1>2. LedgerStep
  BY <1>1, StepsOfTheLedger
<1>3. FeedGrows /\ TombstonesAreHard'
  BY <1>1, <1>2, FeedOnlyGrows, TombstonesStep DEF CentreInv
<1>4. CentralInv' /\ SoftRowsStay' /\ FeedRebuildsRows'
  BY <1>1, CentralInvStep, SoftRowsStayStep, FeedRebuildsStep DEF CentreInv
<1> QED
  BY <1>2, <1>3, <1>4 DEF CentreInv

-----------------------------------------------------------------------------
(* The outbox.  A step of the worker changes statuses only, a local write    *)
(* adds the next operation, a snapshot empties the outbox.                   *)

OutboxType == [Seqs -> OutboxOp \cup {NoOp}]

SameOps ==
  /\ issued' = issued
  /\ \A n \in Seqs : /\ outbox'[n] = NoOp <=> outbox[n] = NoOp
                     /\ outbox[n] # NoOp => /\ outbox'[n].entity = outbox[n].entity
                                            /\ outbox'[n].type = outbox[n].type
                                            /\ outbox'[n].payload = outbox[n].payload

(* The operation a local write adds.                                         *)
AddsOp(op) ==
  /\ op \in OutboxOp /\ op.status = "PENDING"
  /\ op.type = "DELETE" => ErasableOnScreen(op.entity)
  /\ op.type = "UPSERT" => op.payload \in ContentsOf(op.entity)
  /\ issued + 1 \in Seqs /\ issued' = issued + 1
  /\ outbox' = [outbox EXCEPT ![issued + 1] = op]

NoOpsLeft == issued' = issued /\ \A n \in Seqs : outbox'[n] = NoOp

LEMMA StatusSet ==
  ASSUME outbox \in OutboxType, NEW S, \A n \in S : outbox[n] # NoOp,
         NEW status \in Statuses, outbox' = SetStatus(S, status)
  PROVE  /\ outbox' \in OutboxType
         /\ issued' = issued => SameOps
         /\ \A n \in Seqs : outbox[n] # NoOp =>
              outbox'[n].status = IF n \in S THEN status ELSE outbox[n].status
<1>1. ASSUME NEW n \in Seqs
      PROVE  /\ outbox'[n] \in OutboxOp \cup {NoOp}
             /\ outbox'[n] = NoOp <=> outbox[n] = NoOp
             /\ outbox[n] # NoOp =>
                  /\ outbox'[n].entity = outbox[n].entity
                  /\ outbox'[n].type = outbox[n].type
                  /\ outbox'[n].payload = outbox[n].payload
                  /\ outbox'[n].status = IF n \in S THEN status ELSE outbox[n].status
  <2>1. outbox'[n] = IF n \in S THEN [outbox[n] EXCEPT !.status = status] ELSE outbox[n]
    BY DEF SetStatus
  <2>2. outbox[n] # NoOp => outbox[n] \in OutboxOp
    BY DEF OutboxType
  <2>3. outbox[n] # NoOp => [outbox[n] EXCEPT !.status = status] \in OutboxOp
    BY <2>2 DEF OutboxOp
  <2> QED
    BY <2>1, <2>2, <2>3, LocalAssumption DEF OutboxType, OutboxOp
<1>2. outbox' \in OutboxType
  BY <1>1 DEF SetStatus, OutboxType
<1> QED
  BY <1>1, <1>2 DEF SameOps

(* The rows HasStatus finds are in the outbox.                               *)
LEMMA FoundRowsAreThere == \A n, S : HasStatus(n, S) => outbox[n] # NoOp
BY DEF HasStatus

LEMMA OwnOpsStay ==
  ASSUME issued \in 0 .. MaxSeq, OutboxIsIssued,
         SameOps \/ NoOpsLeft \/ \E op : AddsOp(op)
  PROVE  OutboxIsIssued' /\ OwnOps \subseteq OwnOps'
<1>0. issued \in Nat /\ \A op \in Operation : op.seq \in Seqs
  BY BaseAssumption DEF Operation, Seqs
<1>1. CASE SameOps
  BY <1>0, <1>1 DEF SameOps, OutboxIsIssued, OwnOps
<1>2. CASE NoOpsLeft
  BY <1>0, <1>2 DEF NoOpsLeft, OutboxIsIssued, OwnOps
<1>3. ASSUME NEW op, AddsOp(op)
      PROVE  OutboxIsIssued' /\ OwnOps \subseteq OwnOps'
  <2>1. /\ issued' = issued + 1 /\ \A n \in Seqs : n <= issued => outbox'[n] = outbox[n]
        /\ \A n \in Seqs : outbox'[n] # outbox[n] => n = issued + 1 /\ outbox'[n] = op
    BY <1>0, <1>3 DEF AddsOp, Seqs
  <2>2. OutboxIsIssued'
    BY <1>0, <1>3, <2>1 DEF AddsOp, OutboxIsIssued, Seqs
  <2>3. ASSUME NEW o \in OwnOps
        PROVE  o \in OwnOps'
    <3>1. /\ o \in Operation /\ o.seq \in Seqs /\ o.seq <= issued
          /\ outbox'[o.seq] = outbox[o.seq]
      BY <1>0, <2>1 DEF OwnOps
    <3>2. o.seq <= issued'
      BY <1>0, <2>1, <3>1 DEF Seqs
    <3> QED
      BY <3>1, <3>2 DEF OwnOps
  <2> QED
    BY <2>2, <2>3
<1> QED
  BY <1>1, <1>2, <1>3

(* The selection takes operations that are PENDING or to be tried again.     *)
LEMMA BatchesAreQueued ==
  ASSUME NEW b \in Batches
  PROVE  /\ b \in Seq(Seqs)
         /\ \A k \in 1 .. Len(b) : HasStatus(b[k], {"PENDING", "RETRY"})
<1> DEFINE Queued == {n \in Seqs : HasStatus(n, {"PENDING", "RETRY"})}
<1>1. PICK due, q : /\ due \subseteq {n \in Seqs : HasStatus(n, {"RETRY"})}
                    /\ q \in Upwards({n \in Seqs : HasStatus(n, {"PENDING"})} \cup due)
                    /\ b = Limited(q)
  BY DEF Batches
<1> DEFINE S == {n \in Seqs : HasStatus(n, {"PENDING"})} \cup due
<1>2. S \subseteq Queued /\ IsFiniteSet(S)
  <2>1. S \subseteq 1 .. MaxSeq /\ S \subseteq Queued
    BY <1>1 DEF Seqs, HasStatus
  <2>2. IsFiniteSet(1 .. MaxSeq)
    BY FS_Interval, BaseAssumption
  <2> QED
    BY <2>1, <2>2, FS_Subset
<1>3. Cardinality(S) \in Nat
  BY <1>2, FS_CardinalityType
<1>4. q \in [1 .. Cardinality(S) -> S]
  BY <1>1 DEF Upwards, SetToSeqs
<1> HIDE DEF Queued, S
<1>5. q \in Seq(Queued)
  <2>1. q \in [1 .. Cardinality(S) -> Queued]
    BY <1>2, <1>4
  <2> QED
    BY <1>3, <2>1
<1>6. b \in Seq(Queued)
  <2>1. Len(q) \in Nat /\ \A k \in 1 .. Len(q) : q[k] \in Queued
    BY <1>5
  <2> DEFINE m == IF Len(q) < BatchSize THEN Len(q) ELSE BatchSize
  <2>2. m \in Nat /\ m <= Len(q)
    BY <2>1, LocalAssumption
  <2>3. SubSeq(q, 1, m) \in Seq(Queued)
    BY <2>1, <2>2, SubSeqProperties
  <2> QED
    BY <1>1, <2>3 DEF Limited
<1> QED
  BY <1>6 DEF Queued

(* What the selection asks the centre to decide is an operation of the node. *)
LEMMA SentIsOwn ==
  ASSUME outbox \in OutboxType, OutboxIsIssued, NEW n \in Seqs, outbox[n] # NoOp
  PROVE  Sent(n) \in OwnOps
<1>1. outbox[n] \in OutboxOp
  BY DEF OutboxType
<1>2. Sent(n) \in Operation
  BY <1>1, LocalAssumption DEF Sent, Operation, OutboxOp, Seqs
<1> QED
  BY <1>2 DEF Sent, OwnOps, OutboxIsIssued

-----------------------------------------------------------------------------
(* The steps of the node.                                                    *)

OutboxStep == SameOps \/ NoOpsLeft \/ \E op : AddsOp(op)

LEMMA EmptyBatch ==
  ASSUME LocalTypeOK, batch = << >>
  PROVE  Len(batch) = 0 /\ handled = 0
BY DEF LocalTypeOK

(* A step that leaves tables and batch alone.                                *)
LEMMA PhaseStep ==
  ASSUME NodeInv, UNCHANGED <<tableVars, batch, handled>>, phase' \in Phases,
         batch # << >> => phase' \in {"drain", "push"},
         cursor' \in Nat, ready' \in BOOLEAN, stale' \in BOOLEAN, granted' \in BOOLEAN
  PROVE  NodeInv' /\ OutboxStep
<1> USE DEF tableVars
<1>1. LocalTypeOK'
  BY DEF NodeInv, LocalTypeOK
<1>2. OutboxIsIssued' /\ BatchInHand'
  BY DEF NodeInv, OutboxIsIssued, BatchInHand
<1>3. NoStrandedSending'
  BY DEF NodeInv, NoStrandedSending, HasStatus
<1>4. SameOps
  BY DEF SameOps
<1> QED
  BY <1>1, <1>2, <1>3, <1>4 DEF NodeInv, OutboxStep

(* A step that sets the status of operations, to anything but SENDING, and   *)
(* may let go of some of the batch once none of that is SENDING.             *)
LEMMA StatusStep ==
  ASSUME NodeInv, NEW S, \A n \in S : outbox[n] # NoOp,
         NEW status \in Statuses \ {"SENDING"}, outbox' = SetStatus(S, status),
         issued' = issued,
         mirror' \in [Entities -> MirrorRow \cup {NoRow}], flagged' \subseteq Seqs,
         cursor' \in Nat, UNCHANGED <<ready, stale, granted>>, phase' \in Phases,
         \/ batch' = << >> /\ handled' = 0
         \/ batch' = batch /\ handled' \in 0 .. Len(batch)
            /\ (batch # << >> => phase' \in {"drain", "push"}),
         \A n \in Seqs : HasStatus(n, {"SENDING"}) =>
           n \in S \/ \E k \in handled' + 1 .. Len(batch') : batch'[k] = n
  PROVE  NodeInv' /\ OutboxStep
<1>1. outbox \in OutboxType /\ issued \in 0 .. MaxSeq
  BY DEF NodeInv, LocalTypeOK, OutboxType
<1>2. /\ outbox' \in OutboxType /\ SameOps
      /\ \A n \in Seqs : outbox[n] # NoOp =>
           outbox'[n].status = IF n \in S THEN status ELSE outbox[n].status
  BY <1>1, StatusSet
<1>3. batch \in Seq(Seqs) /\ batch' \in Seq(Seqs) /\ handled' \in 0 .. Len(batch')
  <2>1. batch \in Seq(Seqs)
    BY DEF NodeInv, LocalTypeOK
  <2>2. CASE batch' = << >> /\ handled' = 0
    BY <2>1, <2>2, EmptySeq
  <2>3. CASE batch' = batch /\ handled' \in 0 .. Len(batch)
    BY <2>1, <2>3
  <2> QED
    BY <2>1, <2>2, <2>3
<1>4. LocalTypeOK'
  BY <1>1, <1>2, <1>3 DEF NodeInv, LocalTypeOK, OutboxType
<1>5. OutboxIsIssued'
  BY <1>1, <1>2, OwnOpsStay DEF NodeInv
<1>6. BatchInHand'
  <2>1. CASE batch' = << >>
    BY <2>1 DEF BatchInHand
  <2>2. CASE batch' = batch /\ (batch # << >> => phase' \in {"drain", "push"})
    BY <1>2, <1>3, <2>2 DEF NodeInv, BatchInHand, SameOps
  <2> QED
    BY <2>1, <2>2
<1>7. NoStrandedSending'
  <2> SUFFICES ASSUME NEW n \in Seqs, HasStatus(n, {"SENDING"})'
               PROVE  \E k \in handled' + 1 .. Len(batch') : batch'[k] = n
    BY DEF NoStrandedSending
  <2>1. outbox[n] # NoOp /\ outbox'[n].status = "SENDING"
    BY <1>2 DEF HasStatus, SameOps
  <2>2. n \notin S /\ HasStatus(n, {"SENDING"})
    BY <1>2, <2>1 DEF HasStatus
  <2> QED
    BY <2>2
<1> QED
  BY <1>2, <1>4, <1>5, <1>6, <1>7 DEF NodeInv, OutboxStep

(* A local write.                                                            *)
LEMMA EnqueueStep ==
  ASSUME NodeInv, NEW e \in Entities, NEW type \in {"UPSERT", "DELETE"},
         NEW payload \in Contents, Enqueue(e, type, payload),
         type = "DELETE" => ErasableOnScreen(e),
         type = "UPSERT" => payload \in ContentsOf(e),
         mirror' \in [Entities -> MirrorRow \cup {NoRow}]
  PROVE  NodeInv' /\ OutboxStep
<1> DEFINE op == [entity |-> e, type |-> type, payload |-> payload, base |-> BaseOf(e),
                  status |-> "PENDING"]
<1>1. issued \in 0 .. MaxSeq /\ issued + 1 \in Seqs /\ issued' \in 0 .. MaxSeq
  BY BaseAssumption DEF NodeInv, LocalTypeOK, Enqueue, Seqs
<1>2. BaseOf(e) \in Nat
  BY DEF BaseOf, NodeInv, LocalTypeOK, MirrorRow
<1>3. op \in OutboxOp
  BY <1>2 DEF OutboxOp, Statuses
<1>4. /\ op.status = "PENDING" /\ (op.type = "DELETE" => ErasableOnScreen(op.entity))
      /\ op.type = "UPSERT" => op.payload \in ContentsOf(op.entity)
  OBVIOUS
<1>5. /\ issued' = issued + 1 /\ outbox' = [outbox EXCEPT ![issued + 1] = op]
      /\ UNCHANGED <<flagged, stateVars, workerVars>>
  BY DEF Enqueue
<1> HIDE DEF op
<1>6. AddsOp(op)
  BY <1>1, <1>3, <1>4, <1>5 DEF AddsOp
<1>7. OutboxIsIssued'
  BY <1>1, <1>6, OwnOpsStay DEF NodeInv
<1>8. outbox' \in [Seqs -> OutboxOp \cup {NoOp}] /\ outbox'[issued + 1] = op /\ op # NoOp
      /\ \A n \in Seqs : n # issued + 1 => outbox'[n] = outbox[n]
  BY <1>1, <1>3, <1>5, LocalAssumption DEF NodeInv, LocalTypeOK
<1>9. LocalTypeOK'
  BY <1>1, <1>5, <1>8 DEF NodeInv, LocalTypeOK, stateVars, workerVars
<1>10. BatchInHand'
  <2>1. batch \in Seq(Seqs) /\ batch' = batch /\ phase' = phase
    BY <1>5 DEF NodeInv, LocalTypeOK, workerVars
  <2> QED
    BY <1>8, <2>1 DEF NodeInv, BatchInHand
<1>11. NoStrandedSending'
  <2> SUFFICES ASSUME NEW n \in Seqs, HasStatus(n, {"SENDING"})'
               PROVE  \E k \in handled + 1 .. Len(batch) : batch[k] = n
    BY <1>5 DEF NoStrandedSending, workerVars
  <2>1. HasStatus(n, {"SENDING"})
    BY <1>4, <1>8 DEF HasStatus
  <2> QED
    BY <2>1 DEF NodeInv, NoStrandedSending
<1> QED
  BY <1>6, <1>7, <1>9, <1>10, <1>11 DEF NodeInv, OutboxStep

LEMMA LocalUpsertStep ==
  ASSUME NodeInv, NEW e \in Entities, NEW content \in Contents, LocalUpsert(e, content)
  PROVE  NodeInv' /\ OutboxStep
<1>1. [content |-> content, base |-> BaseOf(e)] \in MirrorRow
  BY DEF BaseOf, NodeInv, LocalTypeOK, MirrorRow
<1>2. mirror' \in [Entities -> MirrorRow \cup {NoRow}]
  BY <1>1 DEF LocalUpsert, NodeInv, LocalTypeOK
<1>3. Enqueue(e, "UPSERT", content) /\ content \in ContentsOf(e)
  BY DEF LocalUpsert, ScreenMayWrite, ContentsOf
<1> QED
  BY <1>2, <1>3, EnqueueStep

LEMMA LocalDeleteStep ==
  ASSUME NodeInv, NEW e \in Entities, LocalDelete(e)
  PROVE  NodeInv' /\ OutboxStep
<1>1. mirror[e].content \in Contents /\ ErasableOnScreen(e)
  BY DEF LocalDelete, NodeInv, LocalTypeOK, MirrorRow
<1>2. mirror' \in [Entities -> MirrorRow \cup {NoRow}]
  BY DEF LocalDelete, NodeInv, LocalTypeOK
<1>3. Enqueue(e, "DELETE", mirror[e].content)
  BY DEF LocalDelete
<1> QED
  BY <1>1, <1>2, <1>3, EnqueueStep

(* The selection of a batch.                                                 *)
LEMMA SelectBatchStep ==
  ASSUME NodeInv, NEW b, SelectBatch(b)
  PROVE  /\ NodeInv' /\ OutboxStep
         /\ b \in Seq(Seqs) /\ \A k \in 1 .. Len(b) : outbox[b[k]] # NoOp
<1>1. /\ b \in Batches /\ outbox' = SetStatus(ToSet(b), "SENDING") /\ batch' = b
      /\ handled' = 0 /\ batch = << >> /\ phase' = phase /\ phase \in {"drain", "push"}
      /\ UNCHANGED <<mirror, issued, flagged, cursor, ready, stale, granted>>
  BY DEF SelectBatch, Selecting, stateVars
<1>2. /\ b \in Seq(Seqs) /\ \A k \in 1 .. Len(b) : HasStatus(b[k], {"PENDING", "RETRY"})
      /\ \A k \in 1 .. Len(b) : outbox[b[k]] # NoOp
  BY <1>1, BatchesAreQueued, FoundRowsAreThere
<1>3. ToSet(b) = {b[k] : k \in 1 .. Len(b)} /\ \A n \in ToSet(b) : outbox[n] # NoOp
  BY <1>2 DEF ToSet
<1>4. outbox \in OutboxType /\ issued \in 0 .. MaxSeq
  BY DEF NodeInv, LocalTypeOK, OutboxType
<1>5. /\ outbox' \in OutboxType /\ SameOps
      /\ \A n \in Seqs : outbox[n] # NoOp =>
           outbox'[n].status = IF n \in ToSet(b) THEN "SENDING" ELSE outbox[n].status
  BY <1>1, <1>3, <1>4, StatusSet DEF Statuses
<1>6. LocalTypeOK'
  BY <1>1, <1>2, <1>5 DEF NodeInv, LocalTypeOK, OutboxType
<1>7. OutboxIsIssued'
  BY <1>4, <1>5, OwnOpsStay DEF NodeInv
<1>8. BatchInHand'
  BY <1>1, <1>2, <1>5 DEF BatchInHand, SameOps
<1>9. NoStrandedSending'
  <2> SUFFICES ASSUME NEW n \in Seqs, HasStatus(n, {"SENDING"})'
               PROVE  \E k \in handled' + 1 .. Len(batch') : batch'[k] = n
    BY DEF NoStrandedSending
  <2>1. outbox[n] # NoOp /\ outbox'[n].status = "SENDING"
    BY <1>5 DEF HasStatus, SameOps
  <2>2. Len(batch) = 0 /\ handled = 0
    BY <1>1, EmptyBatch DEF NodeInv
  <2>3. ~HasStatus(n, {"SENDING"})
    BY <2>2 DEF NodeInv, NoStrandedSending
  <2>4. n \in ToSet(b)
    BY <1>5, <2>1, <2>3 DEF HasStatus
  <2> QED
    BY <1>1, <1>3, <2>4
<1> QED
  BY <1>2, <1>5, <1>6, <1>7, <1>8, <1>9 DEF NodeInv, OutboxStep

LEMMA FinishPushStep ==
  ASSUME NodeInv, FinishPush
  PROVE  NodeInv' /\ OutboxStep
<1>1. /\ batch # << >> /\ handled = Len(batch) /\ batch' = << >> /\ handled' = 0
      /\ phase' = AfterPush /\ UNCHANGED <<tableVars, stateVars>>
  BY DEF FinishPush
<1>2. \A n \in Seqs : ~HasStatus(n, {"SENDING"})
  BY <1>1 DEF NodeInv, NoStrandedSending, LocalTypeOK
<1>3. phase' \in Phases
  BY <1>1 DEF AfterPush, Phases
<1>4. << >> \in Seq(Seqs) /\ Len(<< >>) = 0
  BY EmptySeq
<1>5. LocalTypeOK'
  BY <1>1, <1>3, <1>4 DEF NodeInv, LocalTypeOK, tableVars, stateVars
<1>6. OutboxIsIssued' /\ BatchInHand'
  BY <1>1, <1>4 DEF NodeInv, OutboxIsIssued, BatchInHand, tableVars
<1>7. NoStrandedSending'
  BY <1>1, <1>2 DEF NoStrandedSending, HasStatus, tableVars
<1>8. SameOps
  BY <1>1 DEF SameOps, tableVars
<1> QED
  BY <1>5, <1>6, <1>7, <1>8 DEF NodeInv, OutboxStep

LEMMA BatchFailsStep ==
  ASSUME NodeInv, BatchFails
  PROVE  NodeInv' /\ OutboxStep
<1>1. /\ outbox' = SetStatus(ToSet(batch), "RETRY") /\ batch' = << >> /\ handled' = 0
      /\ phase' = AfterPush /\ UNCHANGED <<mirror, issued, flagged, cursor>>
      /\ UNCHANGED <<ready, stale, granted>>
  BY DEF BatchFails, stateVars
<1>2. batch \in Seq(Seqs) /\ handled \in 0 .. Len(batch)
  BY DEF NodeInv, LocalTypeOK
<1>3. ToSet(batch) = {batch[k] : k \in 1 .. Len(batch)}
  BY <1>2 DEF ToSet
<1>4. \A n \in ToSet(batch) : outbox[n] # NoOp
  BY <1>3 DEF NodeInv, BatchInHand
<1>5. \A n \in Seqs : HasStatus(n, {"SENDING"}) => n \in ToSet(batch)
  BY <1>2, <1>3 DEF NodeInv, NoStrandedSending
<1>6. phase' \in Phases /\ "RETRY" \in Statuses \ {"SENDING"}
  BY <1>1 DEF AfterPush, Phases, Statuses
<1>7. /\ mirror' \in [Entities -> MirrorRow \cup {NoRow}] /\ flagged' \subseteq Seqs
      /\ cursor' \in Nat
  BY <1>1 DEF NodeInv, LocalTypeOK
<1> QED
  BY <1>1, <1>4, <1>5, <1>6, <1>7, StatusStep

LEMMA RestartStep ==
  ASSUME NodeInv, Restart
  PROVE  NodeInv' /\ OutboxStep
<1> DEFINE S == {n \in Seqs : HasStatus(n, {"SENDING"})}
<1>1. /\ outbox' = SetStatus(S, "RETRY") /\ batch' = << >> /\ handled' = 0
      /\ phase' = "idle" /\ UNCHANGED <<mirror, issued, flagged, cursor>>
      /\ UNCHANGED <<ready, stale, granted>>
  BY DEF Restart, stateVars
<1>2. /\ \A n \in S : outbox[n] # NoOp
      /\ \A n \in Seqs : HasStatus(n, {"SENDING"}) => n \in S
  BY DEF HasStatus
<1>3. phase' \in Phases /\ "RETRY" \in Statuses \ {"SENDING"}
  BY <1>1 DEF Phases, Statuses
<1>4. /\ mirror' \in [Entities -> MirrorRow \cup {NoRow}] /\ flagged' \subseteq Seqs
      /\ cursor' \in Nat
  BY <1>1 DEF NodeInv, LocalTypeOK
<1> HIDE DEF S
<1> QED
  BY <1>1, <1>2, <1>3, <1>4, StatusStep

(* What is written to the mirror is a row, or removes it.                    *)
LEMMA AuthoritativeTyped ==
  ASSUME LocalTypeOK, NEW e \in Entities, NEW content, NEW version \in Nat,
         NEW tombstone \in BOOLEAN, ~tombstone => content \in Contents,
         ~ApplyThrows(e, content)
  PROVE  [mirror EXCEPT ![e] = Authoritative(e, content, version, tombstone)]
           \in [Entities -> MirrorRow \cup {NoRow}]
<1>1. mirror[e] # NoRow => mirror[e] \in MirrorRow
  BY DEF LocalTypeOK
<1>2. Authoritative(e, content, version, tombstone) \in MirrorRow \cup {NoRow}
  BY <1>1, BaseAssumption DEF Authoritative, ApplyThrows, MirrorRow
<1> QED
  BY <1>2 DEF LocalTypeOK

(* The next result of the answer.                                            *)
LEMMA HandleResultStep ==
  ASSUME NodeInv, NEW answer \in AnswerType, HandleResult(answer)
  PROVE  NodeInv' /\ OutboxStep
<1> DEFINE n == batch[handled + 1]
           e == outbox[n].entity
<1>1. /\ batch # << >> /\ handled < Len(batch) /\ handled' = handled + 1
      /\ UNCHANGED <<issued, cursor, ready, stale, granted, phase, batch>>
  BY DEF HandleResult, stateVars
<1>2. /\ batch \in Seq(Seqs) /\ Len(batch) \in Nat /\ handled \in 0 .. Len(batch)
      /\ handled + 1 \in 1 .. Len(batch)
  BY <1>1 DEF NodeInv, LocalTypeOK
<1>3. n \in Seqs /\ outbox[n] # NoOp
  BY <1>2 DEF NodeInv, BatchInHand
<1>4. e \in Entities
  BY <1>3 DEF NodeInv, LocalTypeOK, OutboxOp
<1>5. /\ answer.content \in Contents \cup {NoContent} /\ answer.version \in Nat
  BY DEF AnswerType
<1>6. \E status \in Statuses \ {"SENDING"} : outbox' = SetStatus({n}, status)
  BY DEF HandleResult, Statuses
<1>7. mirror' \in [Entities -> MirrorRow \cup {NoRow}]
  <2>1. CASE mirror' = mirror
    BY <2>1 DEF NodeInv, LocalTypeOK
  <2>2. CASE /\ answer.content # NoContent /\ ~ApplyThrows(e, answer.content)
             /\ mirror' = [mirror EXCEPT ![e] =
                  Authoritative(e, answer.content, answer.version, FALSE)]
    <3>1. LocalTypeOK /\ answer.content \in Contents
      BY <1>5, <2>2 DEF NodeInv
    <3> HIDE DEF e
    <3> QED
      BY <1>4, <1>5, <2>2, <3>1, AuthoritativeTyped
  <2> QED
    BY <2>1, <2>2 DEF HandleResult
<1>8. flagged' \subseteq Seqs
  BY <1>3 DEF HandleResult, NodeInv, LocalTypeOK
<1>9. handled' \in 0 .. Len(batch) /\ phase' \in Phases
      /\ (batch # << >> => phase' \in {"drain", "push"}) /\ cursor' \in Nat
  BY <1>1, <1>2 DEF NodeInv, LocalTypeOK, BatchInHand
<1>10. \A m \in Seqs : HasStatus(m, {"SENDING"}) =>
         m \in {n} \/ \E k \in handled' + 1 .. Len(batch') : batch'[k] = m
  <2> SUFFICES ASSUME NEW m \in Seqs, HasStatus(m, {"SENDING"}), m # n
               PROVE  \E k \in handled' + 1 .. Len(batch') : batch'[k] = m
    OBVIOUS
  <2>1. PICK k \in handled + 1 .. Len(batch) : batch[k] = m
    BY DEF NodeInv, NoStrandedSending
  <2> QED
    BY <1>1, <1>2, <2>1
<1>11. \A m \in {n} : outbox[m] # NoOp
  BY <1>3
<1> HIDE DEF n, e
<1> QED
  BY <1>1, <1>6, <1>7, <1>8, <1>9, <1>10, <1>11, StatusStep

(* The latest of the operations that wait on a row.                          *)
LEMMA LatestWaits ==
  ASSUME NEW e, WaitingFor(e) # {}
  PROVE  Max(WaitingFor(e)) \in WaitingFor(e)
<1>1. WaitingFor(e) \subseteq 1 .. MaxSeq
  BY DEF WaitingFor, Seqs
<1>2. IsFiniteSet(1 .. MaxSeq)
  BY FS_Interval, BaseAssumption
<1>3. IsFiniteSet(WaitingFor(e))
  BY <1>1, <1>2, FS_Subset
<1>4. WaitingFor(e) \in SUBSET Int
  BY <1>1
<1> QED
  BY <1>3, <1>4, MaxIsGreatest

LEMMA PullConflictStep ==
  ASSUME NodeInv, NEW change, NEW position \in Nat, PullConflict(change, position)
  PROVE  NodeInv' /\ OutboxStep
<1> DEFINE latest == Max(WaitingFor(change.entity))
<1>1. latest \in Seqs /\ outbox[latest] # NoOp
  BY LatestWaits DEF PullConflict, WaitingFor, Waiting, HasStatus
<1>2. /\ outbox' = SetStatus({latest}, "CONFLICT") /\ flagged' = flagged \cup {latest}
      /\ cursor' = position /\ phase = "pull" /\ phase' = "idle"
      /\ UNCHANGED <<mirror, issued, ready, stale, granted, batch, handled>>
  BY DEF PullConflict
<1> HIDE DEF latest
<1>3. batch = << >> /\ Len(batch) = 0 /\ handled = 0
  BY <1>2, EmptyBatch DEF NodeInv, BatchInHand
<1>4. \A n \in Seqs : ~HasStatus(n, {"SENDING"})
  BY <1>3 DEF NodeInv, NoStrandedSending
<1>5. /\ mirror' \in [Entities -> MirrorRow \cup {NoRow}] /\ flagged' \subseteq Seqs
      /\ cursor' \in Nat /\ phase' \in Phases /\ "CONFLICT" \in Statuses \ {"SENDING"}
  BY <1>1, <1>2 DEF NodeInv, LocalTypeOK, Phases, Statuses
<1>6. batch' = << >> /\ handled' = 0 /\ \A n \in {latest} : outbox[n] # NoOp
  BY <1>1, <1>2, <1>3
<1> QED
  BY <1>2, <1>4, <1>5, <1>6, StatusStep

LEMMA PullApplyStep ==
  ASSUME NodeInv, NEW change \in FeedEntry, NEW position \in Nat,
         PullApply(change, position), change.tombstone <=> change.content = NoContent
  PROVE  NodeInv' /\ OutboxStep
<1> DEFINE e == change.entity
           reviewed == {n \in Seqs : HasStatus(n, {"CONFLICT"}) /\ outbox[n].entity = e}
<1>1. /\ phase = "apply" /\ phase' = "idle" /\ ~ApplyThrows(e, change.content)
      /\ mirror' = [mirror EXCEPT ![e] =
           Authoritative(e, change.content, change.version, change.tombstone)]
      /\ outbox' = SetStatus(reviewed, "ACKNOWLEDGED") /\ flagged' = flagged \ reviewed
      /\ cursor' = position /\ UNCHANGED <<issued, ready, stale, granted, batch, handled>>
  BY DEF PullApply
<1>2. \A n \in reviewed : outbox[n] # NoOp
  BY DEF HasStatus
<1>3. /\ e \in Entities /\ change.version \in Nat /\ change.tombstone \in BOOLEAN
      /\ ~change.tombstone => change.content \in Contents
  BY DEF FeedEntry
<1> HIDE DEF e, reviewed
<1>4. mirror' \in [Entities -> MirrorRow \cup {NoRow}]
  BY <1>1, <1>3, AuthoritativeTyped DEF NodeInv
<1>5. batch = << >> /\ Len(batch) = 0 /\ handled = 0
  BY <1>1, EmptyBatch DEF NodeInv, BatchInHand
<1>6. \A n \in Seqs : ~HasStatus(n, {"SENDING"})
  BY <1>5 DEF NodeInv, NoStrandedSending
<1>7. /\ flagged' \subseteq Seqs /\ cursor' \in Nat /\ phase' \in Phases
      /\ "ACKNOWLEDGED" \in Statuses \ {"SENDING"} /\ batch' = << >> /\ handled' = 0
  BY <1>1, <1>5 DEF NodeInv, LocalTypeOK, Phases, Statuses
<1> QED
  BY <1>1, <1>2, <1>4, <1>6, <1>7, StatusStep

LEMMA SnapshotReplacesStep ==
  ASSUME NodeInv, NEW table \in [Entities -> MirrorRow \cup {NoRow}],
         NEW position \in Nat, SnapshotReplaces(table, position)
  PROVE  NodeInv' /\ OutboxStep
<1>1. /\ phase = "replace" /\ phase' = "push" /\ mirror' = table
      /\ outbox' = [n \in Seqs |-> NoOp] /\ flagged' = {} /\ cursor' = position
      /\ ready' = TRUE /\ stale' = FALSE /\ granted' = TRUE
      /\ UNCHANGED <<issued, batch, handled>>
  BY DEF SnapshotReplaces
<1>2. batch = << >> /\ Len(batch) = 0
  BY <1>1, EmptyBatch DEF NodeInv, BatchInHand
<1>3. LocalTypeOK'
  BY <1>1 DEF NodeInv, LocalTypeOK, Phases
<1>4. OutboxIsIssued' /\ BatchInHand' /\ NoStrandedSending'
  BY <1>1, <1>2 DEF OutboxIsIssued, BatchInHand, NoStrandedSending, HasStatus
<1>5. NoOpsLeft
  BY <1>1 DEF NoOpsLeft
<1> QED
  BY <1>3, <1>4, <1>5 DEF NodeInv, OutboxStep

-----------------------------------------------------------------------------
(* The whole: every step keeps SyncInv.                                      *)

LEMMA OwnSequencesStay ==
  ASSUME NEW s \in Seq(OwnOps), NodeInv, OutboxStep
  PROVE  s \in Seq(OwnOps')
<1>1. OwnOps \subseteq OwnOps'
  BY OwnOpsStay DEF NodeInv, LocalTypeOK, OutboxStep
<1> QED
  BY <1>1, SeqMonotonic

(* What the net holds while a step changes the node only.                    *)
LEMMA NetStays ==
  ASSUME NetTypeOK, FeedGrows, NodeInv, OutboxStep,
         UNCHANGED <<answers, image, purged>>,
         request' = request \/ request' = << >>,
         orphan' = orphan \/ orphan' = request,
         pulled' \in Nat, phase' = "apply" => pulled' \in 1 .. Len(feed)
  PROVE  NetTypeOK'
<1>1. request' \in Seq(OwnOps) /\ orphan' \in Seq(OwnOps)
  BY EmptySeq DEF NetTypeOK
<1>2. request' \in Seq(OwnOps') /\ orphan' \in Seq(OwnOps')
  BY <1>1, OwnSequencesStay
<1> QED
  BY <1>2 DEF NetTypeOK, FeedGrows

(* The answers that came so far go when the push is over.                    *)
LEMMA NetForgets ==
  ASSUME NetTypeOK, FeedGrows, NodeInv, OutboxStep, UNCHANGED purged,
         answers' = << >>, image' = image \/ image' = NoImage,
         request' = request \/ request' = << >>,
         orphan' = orphan \/ orphan' = request,
         pulled' \in Nat, phase' # "apply"
  PROVE  NetTypeOK'
<1>1. request' \in Seq(OwnOps) /\ orphan' \in Seq(OwnOps) /\ answers' \in Seq(AnswerType)
  BY EmptySeq DEF NetTypeOK
<1>2. request' \in Seq(OwnOps') /\ orphan' \in Seq(OwnOps')
  BY <1>1, OwnSequencesStay
<1>3. image' \in ImageType
  BY DEF NetTypeOK, NoImage, ImageType
<1> QED
  BY <1>1, <1>2, <1>3 DEF NetTypeOK

(* A step of the node that asks nothing of the net and gives it nothing.     *)
LEMMA QuietStep ==
  ASSUME NetTypeOK, FeedGrows, NodeInv, OutboxStep, UNCHANGED netVars,
         phase' = "apply" => phase = "apply"
  PROVE  NetTypeOK'
<1>1. /\ UNCHANGED <<answers, image, purged>> /\ request' = request /\ orphan' = orphan
      /\ pulled' = pulled
  BY DEF netVars
<1>2. pulled' \in Nat /\ (phase' = "apply" => pulled' \in 1 .. Len(feed))
  BY <1>1 DEF NetTypeOK
<1> QED
  BY <1>1, <1>2, NetStays

(* The node stays as it is.                                                  *)
LEMMA IdleNode ==
  ASSUME NodeInv, UNCHANGED localVars
  PROVE  NodeInv' /\ OutboxStep
<1>1. /\ UNCHANGED <<tableVars, batch, handled>> /\ phase' \in Phases
      /\ batch # << >> => phase' \in {"drain", "push"}
      /\ cursor' \in Nat /\ ready' \in BOOLEAN /\ stale' \in BOOLEAN /\ granted' \in BOOLEAN
  BY DEF localVars, stateVars, workerVars, NodeInv, LocalTypeOK, BatchInHand
<1> QED
  BY <1>1, PhaseStep

(* The steps of the cycle that only move it on.                              *)
LEMMA CycleMoves ==
  ASSUME NodeInv,
         \/ StartCycle \/ NothingToPush \/ MustResnapshot \/ PullNothing \/ PullAborts
         \/ SnapshotFetched \/ SnapshotBlocked \/ SnapshotCleared \/ CycleFails
         \/ GrantExpires \/ \E change \in FeedEntry : PullCheck(change)
  PROVE  NodeInv' /\ OutboxStep
<1>1. /\ UNCHANGED <<tableVars, batch, handled>> /\ cursor' = cursor /\ ready' = ready
      /\ stale' \in {stale, TRUE} /\ granted' \in {granted, FALSE}
      /\ phase' \in Phases /\ (batch # << >> => phase' = phase)
  BY DEF StartCycle, NothingToPush, MustResnapshot, PullNothing, PullAborts,
         SnapshotFetched, SnapshotBlocked, SnapshotCleared, CycleFails, GrantExpires,
         PullCheck, stateVars, workerVars, Selecting, AfterPush, Phases, NodeInv, LocalTypeOK,
         BatchInHand
<1>2. /\ cursor' \in Nat /\ ready' \in BOOLEAN /\ stale' \in BOOLEAN /\ granted' \in BOOLEAN
      /\ batch # << >> => phase' \in {"drain", "push"}
  BY <1>1 DEF NodeInv, LocalTypeOK, BatchInHand
<1> QED
  BY <1>1, <1>2, PhaseStep

(* The answer to an operation is the verdict on record after it was served.  *)
LEMMA AnswerIsOnRecord ==
  ASSUME CentralInv, CentralInv', NEW op \in Operation, NEW who, ApplyPushOperation(op, who)
  PROVE  /\ Answer(op) \in AnswerType
         /\ op.device \in active => results'[IdOf(op)] # NoResult
<1>1. IdOf(op) \in OpIds
  BY DEF IdOf, OpIds, Operation
<1>2. /\ results' \in [OpIds -> Result \cup {NoResult}]
      /\ results \in [OpIds -> Result \cup {NoResult}]
  BY DEF CentralInv, CentralTypeOK
<1>3. op.device \in active => results'[IdOf(op)] # NoResult
  <2>1. CASE Push(op)
    <3>1. \E status \in Verdicts, version \in Nat, content \in Contents \cup {NoContent} :
            FinishResult(op, status, version, content)
      BY <2>1, PushDecides DEF CentralInv, DecidesOperation
    <3>2. PICK status \in Verdicts, version \in Nat, content \in Contents \cup {NoContent} :
            FinishResult(op, status, version, content)
      BY <3>1
    <3> DEFINE r == [status |-> status, entity |-> op.entity, hash |-> op.payload,
                     version |-> version, content |-> content]
    <3>3. r \in Result
      BY DEF Result, Operation
    <3>4. results' = [results EXCEPT ![IdOf(op)] = r]
      BY <3>2 DEF FinishResult
    <3> QED
      BY <1>1, <1>2, <3>3, <3>4, SentinelAssumption
  <2>2. CASE UNCHANGED centralVars /\ (op.device \notin active \/ results[IdOf(op)] # NoResult)
    BY <2>2 DEF centralVars
  <2>3. CASE ReplayFails(op)
    <3> DEFINE r == [results[IdOf(op)] EXCEPT !.status = "CENTRAL_PROCESSING_FAILED"]
    <3>1. results[IdOf(op)] \in Result /\ results' = [results EXCEPT ![IdOf(op)] = r]
      BY <1>1, <1>2, <2>3 DEF ReplayFails
    <3>2. r \in Result
      BY <3>1 DEF Result, Verdicts
    <3> QED
      BY <1>1, <1>2, <3>1, <3>2, SentinelAssumption
  <2> QED
    BY <2>1, <2>2, <2>3 DEF ApplyPushOperation, Decide
<1>4. Answer(op) \in AnswerType
  <2>1. Denied \in AnswerType
    BY DEF Denied, AnswerType
  <2>2. ASSUME op.device \in active
        PROVE  [status |-> results'[IdOf(op)].status, version |-> results'[IdOf(op)].version,
                content |-> results'[IdOf(op)].content] \in AnswerType
    <3>1. results'[IdOf(op)] \in Result
      BY <1>1, <1>2, <1>3, <2>2
    <3> QED
      BY <3>1 DEF Result, AnswerType
  <2> QED
    BY <2>1, <2>2 DEF Answer
<1> QED
  BY <1>3, <1>4

(* The centre serves the request, or one the node has given up.              *)
LEMMA ServeStep ==
  ASSUME SyncInv, CentreInv', FeedGrows, Serve \/ ServeOrphan
  PROVE  NodeInv' /\ NetTypeOK' /\ OutboxStep
<1>1. UNCHANGED localVars /\ UNCHANGED <<image, pulled, purged, phase>>
  BY DEF Serve, ServeOrphan, localVars, workerVars
<1>2. NodeInv' /\ OutboxStep
  BY <1>1, IdleNode DEF SyncInv
<1>3. /\ request \in Seq(OwnOps) /\ orphan \in Seq(OwnOps) /\ answers \in Seq(AnswerType)
  BY DEF SyncInv, NetTypeOK
<1>4. request' \in Seq(OwnOps) /\ orphan' \in Seq(OwnOps) /\ answers' \in Seq(AnswerType)
  <2>1. CASE Serve
    <3> DEFINE op == Head(request)
    <3>1. /\ request # << >> /\ ApplyPushOperation(op, "request")
          /\ answers' = Append(answers, Answer(op)) /\ request' = Tail(request)
          /\ orphan' = orphan
      BY <2>1 DEF Serve
    <3>2. op \in OwnOps /\ Tail(request) \in Seq(OwnOps)
      BY <1>3, <3>1, HeadTailProperties
    <3>3. op \in Operation
      BY <3>2 DEF OwnOps
    <3> HIDE DEF op
    <3>4. Answer(op) \in AnswerType
      BY <3>1, <3>3, AnswerIsOnRecord DEF SyncInv, CentreInv
    <3> QED
      BY <1>3, <3>1, <3>2, <3>4
  <2>2. CASE ServeOrphan
    BY <1>3, <2>2, HeadTailProperties DEF ServeOrphan
  <2> QED
    BY <2>1, <2>2
<1>5. request' \in Seq(OwnOps') /\ orphan' \in Seq(OwnOps')
  BY <1>2, <1>4, OwnSequencesStay DEF SyncInv
<1> QED
  BY <1>1, <1>2, <1>4, <1>5 DEF SyncInv, NetTypeOK, FeedGrows

LEMMA BeginPushStep ==
  ASSUME SyncInv, FeedGrows, NEW b, BeginPush(b)
  PROVE  NodeInv' /\ NetTypeOK' /\ OutboxStep
<1>1. SelectBatch(b)
  BY DEF BeginPush
<1>2. /\ NodeInv' /\ OutboxStep
      /\ b \in Seq(Seqs) /\ \A k \in 1 .. Len(b) : outbox[b[k]] # NoOp
  BY <1>1, SelectBatchStep DEF SyncInv
<1>3. /\ request' = [k \in 1 .. Len(b) |-> Sent(b[k])] /\ answers' = << >>
      /\ UNCHANGED <<orphan, image, pulled, purged>>
  BY <1>2 DEF BeginPush
<1>4. phase' = phase
  BY <1>1 DEF SelectBatch
<1>5. request' \in Seq(OwnOps)
  <2>1. ASSUME NEW k \in 1 .. Len(b)
        PROVE  Sent(b[k]) \in OwnOps
    BY <1>2, SentIsOwn DEF SyncInv, NodeInv, LocalTypeOK, OutboxType
  <2>2. Len(b) \in Nat
    BY <1>2
  <2> QED
    BY <1>3, <2>1, <2>2
<1>6. request' \in Seq(OwnOps') /\ orphan' \in Seq(OwnOps')
  BY <1>2, <1>3, <1>5, OwnSequencesStay DEF SyncInv, NetTypeOK
<1>7. answers' \in Seq(AnswerType)
  BY <1>3, EmptySeq
<1> QED
  BY <1>2, <1>3, <1>4, <1>6, <1>7 DEF SyncInv, NetTypeOK, FeedGrows

(* The position PullOne takes is one of the feed, and the first ahead.       *)
LEMMA FirstAhead ==
  ASSUME cursor \in Nat, Len(feed) \in Nat, Ahead # {}
  PROVE  /\ Min(Ahead) \in Ahead /\ Min(Ahead) \in 1 .. Len(feed)
         /\ \A k \in Ahead : Min(Ahead) <= k
<1>1. Ahead \subseteq cursor + 1 .. Len(feed)
  BY DEF Ahead
<1>2. IsFiniteSet(cursor + 1 .. Len(feed))
  BY FS_Interval
<1>3. IsFiniteSet(Ahead)
  BY <1>1, <1>2, FS_Subset
<1>4. Ahead \in SUBSET Int
  BY <1>1
<1>5. Min(Ahead) \in Ahead /\ \A k \in Ahead : Min(Ahead) <= k
  BY <1>3, <1>4, MinIsLeast
<1>6. Min(Ahead) \in cursor + 1 .. Len(feed)
  BY <1>1, <1>5
<1>7. Min(Ahead) \in 1 .. Len(feed)
  BY <1>6
<1> QED
  BY <1>5, <1>7

LEMMA PullOneStep ==
  ASSUME SyncInv, FeedGrows, PullOne
  PROVE  NodeInv' /\ NetTypeOK' /\ OutboxStep
<1> DEFINE k == Min(Ahead)
<1>1. k \in 1 .. Len(feed)
  BY FirstAhead DEF PullOne, SyncInv, NodeInv, LocalTypeOK, FeedGrows
<1>2. feed[k] \in FeedEntry /\ k \in Nat
  BY <1>1 DEF SyncInv, CentreInv, CentralInv, CentralTypeOK
<1>3. UNCHANGED <<answers, image, purged>> /\ request' = request /\ orphan' = orphan
  BY DEF PullOne, EndPull
<1>4. CASE PullConflict(feed[k], k) /\ EndPull
  <2>1. NodeInv' /\ OutboxStep
    BY <1>2, <1>4, PullConflictStep DEF SyncInv
  <2>2. pulled' \in Nat /\ phase' # "apply"
    BY <1>4 DEF EndPull, PullConflict
  <2> QED
    BY <1>3, <2>1, <2>2, NetStays DEF SyncInv
<1>5. CASE PullCheck(feed[k]) /\ pulled' = k
  <2>1. NodeInv' /\ OutboxStep
    BY <1>2, <1>5, CycleMoves DEF SyncInv
  <2> QED
    BY <1>1, <1>2, <1>3, <1>5, <2>1, NetStays DEF SyncInv
<1> QED
  BY <1>4, <1>5 DEF PullOne

LEMMA ApplyOneStep ==
  ASSUME SyncInv, FeedGrows, ApplyOne
  PROVE  NodeInv' /\ NetTypeOK' /\ OutboxStep
<1>1. PullApply(feed[pulled], pulled) /\ EndPull /\ phase = "apply"
  BY DEF ApplyOne, PullApply
<1>2. pulled \in 1 .. Len(feed) /\ pulled \in Nat
  BY <1>1 DEF SyncInv, NetTypeOK
<1>3. /\ feed[pulled] \in FeedEntry
      /\ feed[pulled].tombstone <=> feed[pulled].content = NoContent
  BY <1>2 DEF SyncInv, CentreInv, CentralInv, CentralTypeOK, TombstonesAreHard
<1>4. NodeInv' /\ OutboxStep
  BY <1>1, <1>2, <1>3, PullApplyStep DEF SyncInv
<1>5. /\ UNCHANGED <<answers, image, purged>> /\ request' = request /\ orphan' = orphan
      /\ pulled' \in Nat /\ phase' # "apply"
  BY <1>1 DEF EndPull, PullApply
<1> QED
  BY <1>4, <1>5, NetStays DEF SyncInv

LEMMA FetchStep ==
  ASSUME SyncInv, FeedGrows, FetchSnapshot
  PROVE  NodeInv' /\ NetTypeOK' /\ OutboxStep
<1>1. NodeInv' /\ OutboxStep
  BY CycleMoves DEF SyncInv, FetchSnapshot
<1>2. /\ UNCHANGED <<request, orphan, answers, pulled, purged>> /\ phase' # "apply"
  BY DEF FetchSnapshot, SnapshotFetched
<1>3. image' \in ImageType
  <2> DEFINE M == [e \in Entities |->
                 IF InImage(e) THEN [content |-> rows[e].content, base |-> rows[e].version]
                 ELSE NoRow]
             p == IF purged < Len(feed) THEN Len(feed) ELSE 0
  <2>1. image' = [rows |-> M, cursor |-> p]
    BY DEF FetchSnapshot
  <2>2. p \in Nat
    BY DEF FeedGrows
  <2>3. ASSUME NEW e \in Entities, InImage(e)
        PROVE  [content |-> rows[e].content, base |-> rows[e].version] \in MirrorRow
    <3>1. Exists(e)
      BY <2>3 DEF InImage, Lineage
    <3>2. rows[e] \in Row
      BY <3>1 DEF Exists, SyncInv, CentreInv, CentralInv, CentralTypeOK
    <3> QED
      BY <3>2 DEF Row, MirrorRow
  <2>4. M \in [Entities -> MirrorRow \cup {NoRow}]
    BY <2>3
  <2> QED
    BY <2>1, <2>2, <2>4 DEF ImageType
<1>4. request' \in Seq(OwnOps') /\ orphan' \in Seq(OwnOps')
  BY <1>1, <1>2, OwnSequencesStay DEF SyncInv, NetTypeOK
<1> QED
  BY <1>1, <1>2, <1>3, <1>4 DEF SyncInv, NetTypeOK

LEMMA ApplySnapshotStep ==
  ASSUME SyncInv, FeedGrows, ApplySnapshot
  PROVE  NodeInv' /\ NetTypeOK' /\ OutboxStep
<1>1. /\ image.rows \in [Entities -> MirrorRow \cup {NoRow}] /\ image.cursor \in Nat
      /\ SnapshotReplaces(image.rows, image.cursor)
  BY DEF SyncInv, NetTypeOK, ImageType, ApplySnapshot
<1>2. NodeInv' /\ OutboxStep
  BY <1>1, SnapshotReplacesStep DEF SyncInv
<1>3. /\ image' = NoImage /\ UNCHANGED <<request, orphan, answers, pulled, purged>>
      /\ phase' # "apply"
  BY <1>1 DEF ApplySnapshot, SnapshotReplaces
<1>4. image' \in ImageType
  BY <1>3 DEF NoImage, ImageType
<1>5. request' \in Seq(OwnOps') /\ orphan' \in Seq(OwnOps')
  BY <1>2, <1>3, OwnSequencesStay DEF SyncInv, NetTypeOK
<1> QED
  BY <1>2, <1>3, <1>4, <1>5 DEF SyncInv, NetTypeOK

LEMMA WorkerStep ==
  ASSUME SyncInv, FeedGrows, Worker
  PROVE  NodeInv' /\ NetTypeOK' /\ OutboxStep
<1>1. CASE BeginCycle \/ SkipPush \/ PullGap \/ PullEmpty \/ RefuseSnapshot \/ ClearSnapshot
  <2>1. /\ StartCycle \/ NothingToPush \/ MustResnapshot \/ PullNothing
           \/ SnapshotBlocked \/ SnapshotCleared
        /\ UNCHANGED netVars
    BY <1>1
       DEF BeginCycle, SkipPush, PullGap, PullEmpty, RefuseSnapshot, ClearSnapshot, Quiet
  <2>2. NodeInv' /\ OutboxStep
    BY <2>1, CycleMoves DEF SyncInv
  <2>3. phase' # "apply"
    BY <2>1
       DEF StartCycle, NothingToPush, AfterPush, MustResnapshot, PullNothing,
           SnapshotBlocked, SnapshotCleared
  <2> QED
    BY <2>1, <2>2, <2>3, QuietStep DEF SyncInv
<1>2. CASE Deliver
  <2> DEFINE answer == answers[handled + 1]
  <2>1. handled < Len(answers) /\ HandleResult(answer) /\ UNCHANGED netVars
    BY <1>2 DEF Deliver, Quiet
  <2>2. answers \in Seq(AnswerType) /\ handled \in Nat
    BY DEF SyncInv, NetTypeOK, NodeInv, LocalTypeOK
  <2>3. answer \in AnswerType /\ phase' = phase
    BY <2>1, <2>2 DEF HandleResult
  <2> HIDE DEF answer
  <2>4. NodeInv' /\ OutboxStep
    BY <2>1, <2>3, HandleResultStep DEF SyncInv
  <2> QED
    BY <2>1, <2>3, <2>4, QuietStep DEF SyncInv
<1>3. CASE EndPush
  <2>1. NodeInv' /\ OutboxStep
    BY <1>3, FinishPushStep DEF EndPush, SyncInv
  <2>2. /\ UNCHANGED purged /\ answers' = << >> /\ image' = image /\ request' = request
        /\ orphan' = orphan /\ pulled' \in Nat /\ phase' # "apply"
    BY <1>3 DEF EndPush, FinishPush, AfterPush, SyncInv, NetTypeOK
  <2> QED
    BY <2>1, <2>2, NetForgets DEF SyncInv
<1> QED
  BY <1>1, <1>2, <1>3, BeginPushStep, PullOneStep, ApplyOneStep, FetchStep, ApplySnapshotStep
     DEF Worker

LEMMA MishapStep ==
  ASSUME SyncInv, FeedGrows, Mishaps
  PROVE  NodeInv' /\ NetTypeOK' /\ OutboxStep
<1>1. CASE LosePush
  <2>1. NodeInv' /\ OutboxStep
    BY <1>1, BatchFailsStep DEF LosePush, SyncInv
  <2>2. /\ UNCHANGED purged /\ answers' = << >> /\ image' = image /\ request' = << >>
        /\ orphan' = orphan \/ orphan' = request
        /\ pulled' \in Nat /\ phase' # "apply"
    BY <1>1 DEF LosePush, GiveUp, BatchFails, AfterPush, SyncInv, NetTypeOK
  <2> QED
    BY <2>1, <2>2, NetForgets DEF SyncInv
<1>2. CASE AbortOne
  <2>1. NodeInv' /\ OutboxStep
    BY <1>2, CycleMoves DEF AbortOne, SyncInv
  <2>2. /\ UNCHANGED <<answers, image, purged>> /\ request' = request /\ orphan' = orphan
        /\ pulled' \in Nat /\ phase' # "apply"
    BY <1>2 DEF AbortOne, PullAborts, EndPull
  <2> QED
    BY <2>1, <2>2, NetStays DEF SyncInv
<1>3. CASE AbandonCycle
  <2>1. NodeInv' /\ OutboxStep
    BY <1>3, CycleMoves DEF AbandonCycle, SyncInv
  <2>2. UNCHANGED netVars /\ phase' # "apply"
    BY <1>3 DEF AbandonCycle, CycleFails, Quiet
  <2> QED
    BY <2>1, <2>2, QuietStep DEF SyncInv
<1>4. CASE Crash
  <2>1. NodeInv' /\ OutboxStep
    BY <1>4, RestartStep DEF Crash, SyncInv
  <2>2. /\ UNCHANGED purged /\ answers' = << >> /\ image' = NoImage /\ request' = << >>
        /\ orphan' = orphan \/ orphan' = request
        /\ pulled' \in Nat /\ phase' # "apply"
    BY <1>4 DEF Crash, GiveUp, Restart
  <2> QED
    BY <2>1, <2>2, NetForgets DEF SyncInv
<1> QED
  BY <1>1, <1>2, <1>3, <1>4 DEF Mishaps

LEMMA OtherStep ==
  ASSUME SyncInv, FeedGrows, UserWrites \/ Expire \/ World \/ Purge \/ UNCHANGED vars
  PROVE  NodeInv' /\ NetTypeOK' /\ OutboxStep
<1>1. CASE UserWrites
  <2>1. NodeInv' /\ OutboxStep
    BY <1>1, LocalUpsertStep, LocalDeleteStep DEF UserWrites, SyncInv
  <2>2. UNCHANGED netVars /\ phase' = phase
    BY <1>1 DEF UserWrites, LocalUpsert, LocalDelete, Enqueue, workerVars
  <2> QED
    BY <2>1, <2>2, QuietStep DEF SyncInv
<1>2. CASE Expire
  <2>1. NodeInv' /\ OutboxStep
    BY <1>2, CycleMoves DEF Expire, SyncInv
  <2>2. UNCHANGED netVars /\ phase' = phase
    BY <1>2 DEF Expire, GrantExpires, workerVars
  <2> QED
    BY <2>1, <2>2, QuietStep DEF SyncInv
<1>3. CASE World \/ UNCHANGED vars
  <2>1. UNCHANGED localVars /\ UNCHANGED netVars /\ phase' = phase
    BY <1>3 DEF World, vars, localVars, workerVars
  <2>2. NodeInv' /\ OutboxStep
    BY <2>1, IdleNode DEF SyncInv
  <2> QED
    BY <2>1, <2>2, QuietStep DEF SyncInv
<1>4. CASE Purge
  <2>1. /\ UNCHANGED localVars /\ UNCHANGED <<request, orphan, answers, image, pulled, phase>>
    BY <1>4 DEF Purge, localVars, workerVars
  <2>2. NodeInv' /\ OutboxStep
    BY <2>1, IdleNode DEF SyncInv
  <2>3. purged' \in Nat
    BY <1>4 DEF Purge, SyncInv, NetTypeOK, FeedGrows
  <2>4. request' \in Seq(OwnOps') /\ orphan' \in Seq(OwnOps')
    BY <2>1, <2>2, OwnSequencesStay DEF SyncInv, NetTypeOK
  <2> QED
    BY <2>1, <2>2, <2>3, <2>4 DEF SyncInv, NetTypeOK, FeedGrows
<1> QED
  BY <1>1, <1>2, <1>3, <1>4

LEMMA StepsOfTheWhole ==
  ASSUME SyncInv, [Next]_vars
  PROVE  SyncInv' /\ OutboxStep /\ FeedGrows /\ CentreStep
<1>1. CentreStep
  BY StepsOfTheCentre DEF SyncInv
<1>2. CentreInv' /\ FeedGrows
  BY <1>1, CentreInvStep DEF SyncInv
<1>3. NodeInv' /\ NetTypeOK' /\ OutboxStep
  BY <1>2, WorkerStep, ServeStep, MishapStep, OtherStep DEF Next
<1> QED
  BY <1>1, <1>2, <1>3 DEF SyncInv

LEMMA SyncInvStep == SyncInv /\ [Next]_vars => SyncInv'
BY StepsOfTheWhole

LEMMA SyncInvInit == Init => SyncInv
<1> SUFFICES ASSUME Init
             PROVE  SyncInv
  OBVIOUS
<1>1. CentralInv /\ SoftRowsStay /\ FeedRebuildsRows /\ TombstonesAreHard
  BY BaseAssumption
     DEF Init, CentralInit, CentralInv, CentralTypeOK, ConflictsHaveACase, IsOpen,
         SoftRowsStay, FeedRebuildsRows, Exists, TombstonesAreHard
<1>2. \A S : << >> \in Seq(S) /\ Len(<< >>) = 0
  BY EmptySeq
<1>3. NodeInv
  <2>1. LocalTypeOK
    <3>1. << >> \in Seq(Seqs) /\ Len(<< >>) = 0
      BY <1>2
    <3>2. batch = << >> /\ handled = 0 /\ issued = 0 /\ flagged = {} /\ phase = "idle"
      BY DEF Init, LocalInit
    <3>3. batch \in Seq(Seqs) /\ handled \in 0 .. Len(batch)
      BY <3>1, <3>2
    <3>4. issued \in 0 .. MaxSeq /\ flagged \subseteq Seqs /\ phase \in Phases
      BY <3>2, BaseAssumption DEF Phases
    <3> QED
      BY <3>3, <3>4 DEF Init, LocalInit, LocalTypeOK
  <2>2. OutboxIsIssued /\ BatchInHand /\ NoStrandedSending
    BY <1>2 DEF Init, LocalInit, OutboxIsIssued, BatchInHand, NoStrandedSending, HasStatus
  <2> QED
    BY <2>1, <2>2 DEF NodeInv
<1>4. NetTypeOK
  BY <1>2 DEF Init, LocalInit, NetTypeOK, NoImage, ImageType
<1> QED
  BY <1>1, <1>3, <1>4 DEF SyncInv, CentreInv

LEMMA SyncInvariant == Spec => []SyncInv
BY SyncInvInit, SyncInvStep, PTL DEF Spec

(* The tables of a node, the state of its worker and its batch keep their    *)
(* shape, whatever is written, sent, lost, answered, pulled and replaced.    *)
THEOREM NodeTypeCorrect == Spec => []LocalTypeOK
<1>1. SyncInv => LocalTypeOK
  BY DEF SyncInv, NodeInv
<1> QED
  BY <1>1, SyncInvariant, PTL

(* No operation stays in SENDING once nobody is sending it: a crash, a lost  *)
(* answer and an answer that cannot be applied all give it back to the queue. *)
THEOREM NothingIsStranded == Spec => []NoStrandedSending
<1>1. SyncInv => NoStrandedSending
  BY DEF SyncInv, NodeInv
<1> QED
  BY <1>1, SyncInvariant, PTL

-----------------------------------------------------------------------------
(* The cursor.                                                               *)

(* What lies between the cursor and the change in hand is not for this node. *)
NothingBetween ==
  phase = "apply" /\ cursor > 0 =>
    \A k \in cursor + 1 .. pulled - 1 : feed[k].entity \notin Scope[Self]

LEMMA NothingSkipped ==
  ASSUME cursor \in Nat, Len(feed) \in Nat, purged \in Nat, cursor > 0,
         ~RetentionGap, Ahead # {}
  PROVE  \A k \in cursor + 1 .. Min(Ahead) - 1 : feed[k].entity \notin Scope[Self]
<1>1. /\ Min(Ahead) \in Ahead /\ Min(Ahead) \in 1 .. Len(feed)
      /\ \A k \in Ahead : Min(Ahead) <= k
  BY FirstAhead
<1>2. purged < Min(Ahead)
  BY <1>1 DEF Ahead
<1>3. purged <= cursor
  BY <1>1, <1>2 DEF RetentionGap
<1> SUFFICES ASSUME NEW k \in cursor + 1 .. Min(Ahead) - 1, feed[k].entity \in Scope[Self]
             PROVE  FALSE
  OBVIOUS
<1>4. k \in cursor + 1 .. Len(feed) /\ k > purged /\ k < Min(Ahead)
  BY <1>1, <1>3
<1>5. k \in Ahead
  BY <1>4 DEF Ahead
<1> QED
  BY <1>1, <1>4, <1>5

(* How the node comes to have a change in hand, and how its cursor moves.    *)
LEMMA StepsOfTheCursor ==
  ASSUME NodeInv, [Next]_vars
  PROVE  /\ phase' = "apply" =>
              \/ phase = "apply" /\ cursor' = cursor /\ pulled' = pulled
              \/ PullOne /\ cursor' = cursor /\ pulled' = Min(Ahead)
         /\ cursor' # cursor =>
              \/ phase = "replace"
              \/ PullOne /\ cursor' = Min(Ahead)
              \/ phase = "apply" /\ cursor' = pulled
<1> DEFINE Held == /\ phase' = "apply" => phase = "apply" /\ pulled' = pulled
                   /\ cursor' = cursor
<1>1. CASE Worker
  <2>1. CASE BeginCycle \/ SkipPush \/ PullGap \/ PullEmpty \/ RefuseSnapshot \/ ClearSnapshot
             \/ FetchSnapshot \/ EndPush
    <3>1. Held
      BY <2>1
         DEF BeginCycle, SkipPush, PullGap, PullEmpty, RefuseSnapshot, ClearSnapshot,
             FetchSnapshot, EndPush, StartCycle, NothingToPush, MustResnapshot, PullNothing,
             SnapshotBlocked, SnapshotCleared, SnapshotFetched, FinishPush, AfterPush,
             stateVars
    <3> QED
      BY <3>1
  <2>2. CASE Deliver \/ \E b \in Batches : BeginPush(b)
    <3>1. Held
      BY <2>2
         DEF Deliver, HandleResult, Quiet, netVars, BeginPush, SelectBatch, stateVars
    <3> QED
      BY <3>1
  <2>3. CASE PullOne
    BY <2>3 DEF PullOne, PullConflict, PullCheck, EndPull, stateVars
  <2>4. CASE ApplyOne
    BY <2>4 DEF ApplyOne, PullApply
  <2>5. CASE ApplySnapshot
    BY <2>5 DEF ApplySnapshot, SnapshotReplaces
  <2> QED
    BY <1>1, <2>1, <2>2, <2>3, <2>4, <2>5 DEF Worker
<1>2. CASE Mishaps
  <2>1. Held
    BY <1>2
       DEF Mishaps, LosePush, BatchFails, AfterPush, AbortOne, PullAborts, AbandonCycle,
           CycleFails, Crash, Restart, stateVars
  <2> QED
    BY <2>1
<1>3. CASE Serve \/ ServeOrphan \/ UserWrites \/ Expire \/ World \/ Purge \/ UNCHANGED vars
  <2>1. Held
    BY <1>3
       DEF Serve, ServeOrphan, UserWrites, LocalUpsert, LocalDelete, Enqueue, Expire,
           GrantExpires, World, Purge, vars, localVars, stateVars, workerVars, netVars
  <2> QED
    BY <2>1
<1> QED
  BY <1>1, <1>2, <1>3 DEF Next

LEMMA NothingBetweenStep ==
  SyncInv /\ NothingBetween /\ [Next]_vars => NothingBetween'
<1> SUFFICES ASSUME SyncInv, NothingBetween, [Next]_vars, phase' = "apply", cursor' > 0,
                    NEW k \in cursor' + 1 .. pulled' - 1
             PROVE  feed'[k].entity \notin Scope[Self]
  BY DEF NothingBetween
<1>1. FeedGrows
  BY StepsOfTheCentre, CentreInvStep DEF SyncInv
<1>2. cursor \in Nat /\ pulled \in Nat /\ purged \in Nat
  BY DEF SyncInv, NodeInv, LocalTypeOK, NetTypeOK
<1>3. CASE phase = "apply" /\ cursor' = cursor /\ pulled' = pulled
  <2>1. pulled \in 1 .. Len(feed)
    BY <1>3 DEF SyncInv, NetTypeOK
  <2>2. k \in 1 .. Len(feed) /\ feed[k].entity \notin Scope[Self]
    BY <1>1, <1>2, <1>3, <2>1 DEF NothingBetween, FeedGrows
  <2> QED
    BY <1>1, <2>2 DEF FeedGrows
<1>4. CASE PullOne /\ cursor' = cursor /\ pulled' = Min(Ahead)
  <2>1. ~RetentionGap /\ Ahead # {} /\ Len(feed) \in Nat
    BY <1>1, <1>4 DEF PullOne, FeedGrows
  <2>2. feed[k].entity \notin Scope[Self]
    BY <1>2, <1>4, <2>1, NothingSkipped
  <2>3. Min(Ahead) \in 1 .. Len(feed)
    BY <1>2, <2>1, FirstAhead
  <2>4. k \in 1 .. Len(feed)
    BY <1>2, <1>4, <2>1, <2>3
  <2> QED
    BY <1>1, <2>2, <2>4 DEF FeedGrows
<1> QED
  BY <1>3, <1>4, StepsOfTheCursor DEF SyncInv

(* Past the first change the cursor skips nothing the node is meant to see,  *)
(* although the oldest entries of the feed may be gone.                      *)
THEOREM NoChangeIsSkipped == Spec => NoSilentGap
<1>1. Init => NothingBetween
  BY DEF Init, LocalInit, NothingBetween
<1>2. SyncInv /\ NothingBetween /\ [Next]_vars =>
        [cursor > 0 /\ cursor' > cursor /\ phase # "replace" =>
           \A k \in cursor + 1 .. cursor' - 1 : feed[k].entity \notin Scope[Self]]_vars
  <2> SUFFICES ASSUME SyncInv, NothingBetween, [Next]_vars,
                      cursor > 0, cursor' > cursor, phase # "replace"
               PROVE  \A k \in cursor + 1 .. cursor' - 1 : feed[k].entity \notin Scope[Self]
    OBVIOUS
  <2>1. cursor \in Nat /\ purged \in Nat /\ Len(feed) \in Nat /\ cursor' # cursor
    BY DEF SyncInv, NodeInv, LocalTypeOK, NetTypeOK, CentreInv, CentralInv, CentralTypeOK
  <2>2. CASE PullOne /\ cursor' = Min(Ahead)
    <3>1. ~RetentionGap /\ Ahead # {}
      BY <2>2 DEF PullOne
    <3> QED
      BY <2>1, <2>2, <3>1, NothingSkipped
  <2>3. CASE phase = "apply" /\ cursor' = pulled
    BY <2>3 DEF NothingBetween
  <2> QED
    BY <2>1, <2>2, <2>3, StepsOfTheCursor DEF SyncInv
<1> QED
  BY <1>1, <1>2, NothingBetweenStep, SyncInvariant, PTL DEF Spec, NoSilentGap

-----------------------------------------------------------------------------
(* Who decides what is on record for the node.                               *)

LEMMA DecisionIsStored ==
  ASSUME CentralTypeOK, NEW op \in Operation, Push(op)
  PROVE  /\ op.device \in active
         /\ \E r \in Result : /\ results' = [results EXCEPT ![IdOf(op)] = r]
                              /\ r.entity = op.entity
<1>1. DecidesOperation(op)
  BY PushDecides
<1>2. PICK status \in Verdicts, version \in Nat, content \in Contents \cup {NoContent} :
        FirstSeen(op) /\ FinishResult(op, status, version, content)
  BY <1>1 DEF DecidesOperation
<1> DEFINE r == [status |-> status, entity |-> op.entity, hash |-> op.payload,
                 version |-> version, content |-> content]
<1>3. r \in Result /\ r.entity = op.entity
  BY DEF Result, Operation
<1>4. results' = [results EXCEPT ![IdOf(op)] = r]
  BY <1>2 DEF FinishResult
<1> HIDE DEF r
<1> QED
  BY <1>2, <1>3, <1>4 DEF FirstSeen

(* An operation of another device leaves the results of this one alone.      *)
LEMMA OthersKeepResults ==
  ASSUME CentralTypeOK, NEW op \in Operation, op.device # Self, Push(op), NEW n \in Seqs
  PROVE  results'[<<Self, n>>] = results[<<Self, n>>]
<1>1. PICK r \in Result : results' = [results EXCEPT ![IdOf(op)] = r]
  BY DecisionIsStored
<1>2. IdOf(op) # <<Self, n>> /\ <<Self, n>> \in OpIds
  BY LocalAssumption DEF IdOf, OpIds, Seqs
<1> QED
  BY <1>1, <1>2 DEF CentralTypeOK

(* Disabling a device stops push and pull at the next request: nothing is    *)
(* decided for it any more, as long as no failing replay and no reviewer     *)
(* touches what was decided before.                                          *)
THEOREM BlockedStaysOut ==
  ASSUME "failure" \notin Faults, "review" \notin Faults
  PROVE  Spec => BlockedDeviceIsShutOut
<1>1. SyncInv /\ [Next]_vars =>
        [Self \notin active =>
           \A n \in Seqs : results'[<<Self, n>>] = results[<<Self, n>>]]_vars
  <2> SUFFICES ASSUME SyncInv, [Next]_vars, Self \notin active, NEW n \in Seqs
               PROVE  results'[<<Self, n>>] = results[<<Self, n>>]
    OBVIOUS
  <2>0. CentralTypeOK
    BY DEF SyncInv, CentreInv, CentralInv
  <2>1. ASSUME NEW s \in Seq(OwnOps), s # << >>, NEW who, ApplyPushOperation(Head(s), who)
        PROVE  results' = results
    <3>1. Head(s) \in Operation /\ Head(s).device = Self
      BY <2>1, HeadTailProperties DEF OwnOps
    <3>2. ~Push(Head(s))
      BY <2>0, <3>1, DecisionIsStored
    <3> QED
      BY <2>1, <3>1, <3>2 DEF ApplyPushOperation, Decide, centralVars
  <2>2. CASE Serve \/ ServeOrphan
    BY <2>1, <2>2 DEF Serve, ServeOrphan, SyncInv, NetTypeOK
  <2>3. CASE World
    <3>1. CASE OthersPush
      BY <2>0, <3>1, OthersOps, OthersKeepResults DEF OthersPush, Decide
    <3>2. CASE CentralScreens \/ Administrator
      BY <3>2
         DEF CentralScreens, Administrator, CentralEdit, CentralInsert, CentralUpdate,
             CentralDelete, CentralRevive, SetDevice
    <3> QED
      BY <2>3, <3>1, <3>2 DEF World, Reviewer
  <2>4. CASE Worker
    BY <2>4
       DEF Worker, BeginCycle, SkipPush, BeginPush, Deliver, EndPush, PullGap, PullEmpty,
           PullOne, ApplyOne, EndPull, FetchSnapshot, RefuseSnapshot, ClearSnapshot,
           ApplySnapshot, Quiet, centralVars
  <2>5. CASE Mishaps \/ UserWrites \/ Expire \/ Purge \/ UNCHANGED vars
    BY <2>5
       DEF Mishaps, LosePush, AbortOne, EndPull, AbandonCycle, Crash, Quiet, UserWrites,
           Expire, Purge, vars, centralVars
  <2> QED
    BY <2>2, <2>3, <2>4, <2>5 DEF Next
<1> QED
  BY <1>1, SyncInvariant, PTL DEF Spec, BlockedDeviceIsShutOut

-----------------------------------------------------------------------------
(* What the mirror shows.  Where a row of the mirror comes from, an answer,  *)
(* a change or a snapshot, it was published; the invariant follows it from   *)
(* the feed through the record, the answer and the image into the mirror.    *)

Published(e, content, version) ==
  \E k \in 1 .. Len(feed) :
    feed[k].entity = e /\ feed[k].content = content /\ feed[k].version = version

(* What is accepted about a soft row has a content, and was published.       *)
AcceptanceIsPublished(e, r) ==
  r.status = "ACCEPTED" /\ e \in SoftEntities =>
    r.content # NoContent /\ Published(e, r.content, r.version)

RecordIsRight(n) ==
  LET r == results[<<Self, n>>] IN
  r # NoResult =>
    /\ n <= issued
    /\ outbox[n] # NoOp => outbox[n].entity = r.entity
    /\ AcceptanceIsPublished(r.entity, r)

RecordsAreRight == \A n \in Seqs : RecordIsRight(n)

(* The batch is made up of what was answered and what is still to be served. *)
AnswersAreRight ==
  /\ Len(answers) + Len(request) = Len(batch)
  /\ handled > 0 => request = << >>
  /\ \A j \in 1 .. Len(request) : request[j].seq = batch[Len(answers) + j]
  /\ \A k \in 1 .. Len(answers) :
       AcceptanceIsPublished(outbox[batch[k]].entity, answers[k])

ImageIsPublished ==
  \A e \in SoftEntities : image.rows[e] # NoRow =>
    Published(e, image.rows[e].content, image.rows[e].base)

Unsettled(e) ==
  \E n \in Seqs : outbox[n] # NoOp /\ outbox[n].entity = e /\ ~HasStatus(n, {"ACKNOWLEDGED"})

RowIsRight(e) ==
  mirror[e] # NoRow => Unsettled(e) \/ Published(e, mirror[e].content, mirror[e].base)

MirrorIsRight == \A e \in SoftEntities : RowIsRight(e)

TraceInv == RecordsAreRight /\ AnswersAreRight /\ ImageIsPublished /\ MirrorIsRight

LEMMA PublishedStays ==
  ASSUME FeedGrows, NEW e, NEW content, NEW version, Published(e, content, version)
  PROVE  Published(e, content, version)'
BY DEF FeedGrows, Published

LEMMA WriteIsPublished ==
  ASSUME CentralTypeOK, NEW e \in Entities, NEW row \in Row, NEW source \in Sources,
         Write(e, row, source)
  PROVE  Published(e, row.content, row.version)' /\ row.content # NoContent
<1>1. row.version \in Nat /\ row.content \in Contents
  BY DEF Row
<1>2. Publish(e, row.version, row.content, source, FALSE)
  BY DEF Write
<1>3. Appended(e, row.version, row.content, source, FALSE)
  BY <1>1, <1>2, PublishAppends
<1>4. /\ Len(feed) + 1 \in 1 .. Len(feed')
      /\ feed'[Len(feed) + 1].entity = e /\ feed'[Len(feed) + 1].content = row.content
      /\ feed'[Len(feed) + 1].version = row.version
  BY <1>3 DEF Appended
<1> QED
  BY <1>1, <1>4, BaseAssumption DEF Published

LEMMA RowsArePublished ==
  ASSUME FeedRebuildsRows, NEW e \in Entities, Exists(e)
  PROVE  Published(e, rows[e].content, rows[e].version)
BY DEF FeedRebuildsRows, LastAbout, Published

(* A first decision about an operation of the node.                          *)
LEMMA AcceptedIsPublished ==
  ASSUME CentreInv, FeedGrows, NEW op \in OwnOps, Push(op)
  PROVE  \E r \in Result : /\ results' = [results EXCEPT ![IdOf(op)] = r]
                           /\ r.entity = op.entity
                           /\ AcceptanceIsPublished(op.entity, r)'
<1> DEFINE e == op.entity
<1>0. /\ op \in Operation /\ e \in Entities /\ op.device \in Sources
      /\ op.payload \in Contents /\ op.seq \in Nat
      /\ e \in SoftEntities => op.type = "UPSERT"
  BY DEF OwnOps, Operation, Sources, ErasableOnScreen
<1>1. CentralTypeOK /\ FeedRebuildsRows
  BY DEF CentreInv, CentralInv
<1>2. PICK r \in Result : results' = [results EXCEPT ![IdOf(op)] = r] /\ r.entity = op.entity
  BY <1>0, <1>1, DecisionIsStored
<1>3. results'[IdOf(op)] = r
  BY <1>0, <1>1, <1>2 DEF CentralTypeOK, IdOf, OpIds, Operation
<1>4. ASSUME NEW status, NEW version, NEW content, FinishResult(op, status, version, content)
      PROVE  r.status = status /\ r.version = version /\ r.content = content
  BY <1>0, <1>1, <1>3, <1>4 DEF FinishResult, CentralTypeOK, IdOf, OpIds, Operation
<1>5. SUFFICES ASSUME r.status = "ACCEPTED", e \in SoftEntities
               PROVE  r.content # NoContent /\ Published(e, r.content, r.version)'
  <2>1. AcceptanceIsPublished(op.entity, r)'
    BY <1>5 DEF AcceptanceIsPublished
  <2> QED
    BY <1>2, <2>1
<1>6. CASE InsertRow(op)
  <2> DEFINE row == [content |-> op.payload, version |-> 0,
                     origin |-> op.device, lastSeq |-> op.seq]
  <2>1. row \in Row
    BY <1>0 DEF Row
  <2>2. Write(e, row, op.device) /\ FinishResult(op, "ACCEPTED", row.version, row.content)
    BY <1>6 DEF InsertRow
  <2> HIDE DEF row
  <2> QED
    BY <1>0, <1>1, <1>4, <2>1, <2>2, WriteIsPublished
<1>7. CASE KeepRow(op)
  <2>1. Exists(e) /\ FinishResult(op, "ACCEPTED", rows[e].version, rows[e].content)
    BY <1>7 DEF KeepRow
  <2>2. rows[e].content # NoContent
    BY <1>0, <1>1, <2>1, BaseAssumption DEF CentralTypeOK, Exists, Row
  <2>3. Published(e, rows[e].content, rows[e].version)
    BY <1>0, <1>1, <2>1, RowsArePublished
  <2>4. Published(e, r.content, r.version)
    BY <1>4, <2>1, <2>3
  <2>5. Published(e, r.content, r.version)'
    BY <2>4 DEF FeedGrows, Published
  <2> QED
    BY <1>4, <2>1, <2>2, <2>5
<1>8. CASE UpdateRow(op)
  <2> DEFINE row == Stamped(Bumped(rows[e]), op.payload, op)
  <2>1. rows[e] \in Row
    BY <1>0, <1>1, <1>8 DEF UpdateRow, Exists, CentralTypeOK
  <2>2. row \in Row
    BY <1>0, <2>1, StampedRow
  <2>3. Write(e, row, op.device) /\ FinishResult(op, "ACCEPTED", row.version, row.content)
    BY <1>8 DEF UpdateRow
  <2> HIDE DEF row
  <2> QED
    BY <1>0, <1>1, <1>4, <2>2, <2>3, WriteIsPublished
<1>9. CASE SoftDelete(op) \/ HardDelete(op) \/ DeleteNothing(op)
  BY <1>0, <1>5, <1>9 DEF SoftDelete, HardDelete, DeleteNothing
<1>10. CASE ParkDependency(op) \/ RejectScope(op) \/ RaiseConflict(op) \/ ProcessingFails(op)
  BY <1>4, <1>5, <1>10 DEF ParkDependency, RejectScope, RaiseConflict, ProcessingFails
<1> QED
  BY <1>6, <1>7, <1>8, <1>9, <1>10 DEF Push

(* How the record of a sequence of the node changes: an operation of the     *)
(* node is decided, or the entry keeps its row.                              *)
LEMMA RecordChanges ==
  ASSUME CentreInv, CentreInv', CentreStep, FeedGrows,
         NEW n \in Seqs, results'[<<Self, n>>] # results[<<Self, n>>]
  PROVE  /\ \/ \E op \in OwnOps : /\ Push(op) /\ op.seq = n
                                  /\ results'[<<Self, n>>].entity = op.entity
            \/ /\ results[<<Self, n>>] # NoResult
               /\ results'[<<Self, n>>].entity = results[<<Self, n>>].entity
         /\ AcceptanceIsPublished(results[<<Self, n>>].entity, results[<<Self, n>>])'
<1> DEFINE i == <<Self, n>>
           Right == AcceptanceIsPublished(results[i].entity, results[i])'
<1>1. /\ CentralInv /\ CentralTypeOK /\ i \in OpIds
      /\ results \in [OpIds -> Result \cup {NoResult}]
  BY LocalAssumption DEF CentreInv, CentralInv, CentralTypeOK, OpIds, Seqs
<1>2. ASSUME NEW op \in OwnOps, Push(op)
      PROVE  op.seq = n /\ results'[i].entity = op.entity /\ Right
  <2>1. PICK r \in Result : /\ results' = [results EXCEPT ![IdOf(op)] = r]
                            /\ r.entity = op.entity
                            /\ AcceptanceIsPublished(op.entity, r)'
    BY <1>2, AcceptedIsPublished
  <2>2. IdOf(op) = <<Self, op.seq>>
    BY DEF IdOf, OwnOps
  <2>3. op.seq = n /\ results'[i] = r
    BY <1>1, <2>1, <2>2
  <2> QED
    BY <2>1, <2>3 DEF AcceptanceIsPublished
<1>3. ASSUME NEW op \in OwnOps, ReplayFails(op)
      PROVE  results[i] # NoResult /\ results'[i].entity = results[i].entity /\ Right
  <2> DEFINE r == [results[IdOf(op)] EXCEPT !.status = "CENTRAL_PROCESSING_FAILED"]
  <2>1. results' = [results EXCEPT ![IdOf(op)] = r] /\ results[IdOf(op)] # NoResult
    BY <1>3 DEF ReplayFails
  <2>2. IdOf(op) = i
    BY <1>1, <2>1
  <2>3. /\ results[i] \in Result
        /\ results'[i] = [results[i] EXCEPT !.status = "CENTRAL_PROCESSING_FAILED"]
    BY <1>1, <2>1, <2>2
  <2>4. results'[i].status # "ACCEPTED" /\ results'[i].entity = results[i].entity
    BY <2>3 DEF Result
  <2> QED
    BY <2>1, <2>2, <2>4 DEF AcceptanceIsPublished
<1>4. ASSUME NEW op \in Others, Push(op)
      PROVE  FALSE
  BY <1>1, <1>4, OthersOps, OthersKeepResults
<1>5. ASSUME NEW j \in OpIds, ResolveSyncConflict(j)
      PROVE  results[i] # NoResult /\ results'[i].entity = results[i].entity /\ Right
  <2> DEFINE e == conflicts[i].entity
  <2>1. IsOpen(j) /\ \E version \in Nat, content \in Contents \cup {NoContent} :
                       Close(j, version, content)
    BY <1>1, <1>5, ReviewCloses
  <2>2. i = j
    BY <1>1, <2>1 DEF Close
  <2>3. /\ results[i] # NoResult /\ results[i].entity = e /\ results[i] \in Result
    BY <1>1, <2>1, <2>2 DEF CentralInv, ConflictsHaveACase
  <2>4. e \in Entities /\ i[1] \in Devices /\ conflicts[i] # NoConflict
    BY <1>1, <2>1, <2>2 DEF IsOpen, CentralTypeOK, Conflict, OpIds
  <2>5. ASSUME NEW version, NEW content, Close(i, version, content)
        PROVE  results'[i].entity = e /\ results'[i].version = version
               /\ results'[i].content = content
    BY <1>1, <2>3, <2>5 DEF Close, Result
  <2>6. CASE ReviewRow(i)
    <3>1. PICK content \in Contents : ResolveWith(i, content)
      BY <2>6 DEF ReviewRow, ContentsOf
    <3> DEFINE row == ReviewedRow(e, content, i[1])
    <3>2. Write(e, row, i[1]) /\ Close(i, row.version, content)
      BY <3>1 DEF ResolveWith
    <3>3. row \in Row /\ row.content = content
      BY <1>1, <2>4, ReviewedRowTyped
    <3> HIDE DEF row, e
    <3>4. PICK f \in Entities, w \in Row : f = e /\ w = row
      BY <2>4, <3>3
    <3>5. Published(f, content, w.version)' /\ content # NoContent
      BY <1>1, <2>4, <3>2, <3>3, <3>4, WriteIsPublished DEF Sources
    <3>6. results'[i].entity = f /\ results'[i].version = w.version
          /\ results'[i].content = content
      BY <2>5, <3>2, <3>4
    <3>7. Right
      BY <3>5, <3>6 DEF AcceptanceIsPublished
    <3> QED
      BY <2>3, <3>4, <3>6, <3>7
  <2>7. CASE KeepGone(i)
    <3>1. e \notin SoftEntities
      BY <1>1, <2>4, <2>7 DEF KeepGone, CentreInv, SoftRowsStay
    <3>2. results'[i].entity = e
      BY <2>5, <2>7 DEF KeepGone
    <3>3. Right
      BY <3>1, <3>2 DEF AcceptanceIsPublished
    <3> QED
      BY <2>3, <3>2, <3>3
  <2> QED
    BY <1>5, <2>2, <2>6, <2>7 DEF ResolveSyncConflict
<1>6. CASE \/ UNCHANGED centralVars
           \/ \E e \in Entities : CentralEdit(e) \/ CentralRevive(e)
           \/ \E d \in Devices : SetDevice(d)
  BY <1>6
     DEF centralVars, CentralEdit, CentralInsert, CentralUpdate, CentralDelete, CentralRevive,
         SetDevice
<1> QED
  BY <1>2, <1>3, <1>4, <1>5, <1>6 DEF CentreStep

(* What the outbox has under a sequence that was issued, it has had before.  *)
LEMMA IssuedOpsStay ==
  ASSUME NodeInv, OutboxStep, NEW n \in Seqs, n <= issued
  PROVE  /\ n <= issued'
         /\ outbox'[n] # NoOp => outbox[n] # NoOp /\ outbox'[n].entity = outbox[n].entity
<1>1. issued \in Nat /\ n \in Nat
  BY BaseAssumption DEF NodeInv, LocalTypeOK, Seqs
<1>2. CASE SameOps
  BY <1>2 DEF SameOps
<1>3. CASE NoOpsLeft
  BY <1>3 DEF NoOpsLeft
<1>4. ASSUME NEW op, AddsOp(op)
      PROVE  issued' = issued + 1 /\ outbox'[n] = outbox[n]
  BY <1>1, <1>4 DEF AddsOp, NodeInv, LocalTypeOK
<1> QED
  BY <1>1, <1>2, <1>3, <1>4 DEF OutboxStep

LEMMA RecordsStep ==
  ASSUME CentreInv, CentreInv', CentreStep, FeedGrows, NodeInv, OutboxStep, RecordsAreRight
  PROVE  RecordsAreRight'
<1> SUFFICES ASSUME NEW n \in Seqs, results'[<<Self, n>>] # NoResult
             PROVE  /\ n <= issued'
                    /\ outbox'[n] # NoOp => outbox'[n].entity = results'[<<Self, n>>].entity
                    /\ AcceptanceIsPublished(results[<<Self, n>>].entity, results[<<Self, n>>])'
  BY DEF RecordsAreRight, RecordIsRight
<1>1. RecordIsRight(n)
  BY DEF RecordsAreRight
<1>2. CASE results'[<<Self, n>>] = results[<<Self, n>>]
  <2>1. /\ n <= issued /\ (outbox[n] # NoOp => outbox[n].entity = results[<<Self, n>>].entity)
        /\ AcceptanceIsPublished(results[<<Self, n>>].entity, results[<<Self, n>>])
    BY <1>1, <1>2 DEF RecordIsRight
  <2>2. AcceptanceIsPublished(results[<<Self, n>>].entity, results[<<Self, n>>])'
    BY <1>2, <2>1 DEF AcceptanceIsPublished, Published, FeedGrows
  <2> QED
    BY <1>2, <2>1, <2>2, IssuedOpsStay
<1>3. CASE results'[<<Self, n>>] # results[<<Self, n>>]
  <2>1. /\ n <= issued
        /\ outbox[n] # NoOp => outbox[n].entity = results'[<<Self, n>>].entity
    BY <1>1, <1>3, RecordChanges DEF RecordIsRight, OwnOps
  <2> QED
    BY <1>3, <2>1, RecordChanges, IssuedOpsStay
<1> QED
  BY <1>2, <1>3

(* The rows of the batch are those the answers are about, as long as the     *)
(* batch is in hand.                                                         *)
LEMMA BatchRowsStay ==
  ASSUME NodeInv, NodeInv', OutboxStep, batch' = batch, NEW k \in 1 .. Len(batch)
  PROVE  batch[k] \in Seqs /\ outbox'[batch[k]].entity = outbox[batch[k]].entity
<1>1. batch[k] \in Seqs
  BY DEF NodeInv, LocalTypeOK
<1>2. outbox[batch[k]] # NoOp /\ outbox'[batch[k]] # NoOp
  BY DEF NodeInv, BatchInHand
<1>3. batch[k] <= issued
  BY <1>1, <1>2 DEF NodeInv, OutboxIsIssued
<1> QED
  BY <1>1, <1>2, <1>3, IssuedOpsStay

LEMMA AnswersStay ==
  ASSUME SyncInv, SyncInv', OutboxStep, FeedGrows, AnswersAreRight,
         UNCHANGED <<request, answers, batch>>, handled' = handled \/ request = << >>
  PROVE  AnswersAreRight'
<1>1. Len(answers) \in Nat /\ Len(request) \in Nat /\ Len(batch) \in Nat
  BY DEF SyncInv, NetTypeOK, NodeInv, LocalTypeOK
<1>2. ASSUME NEW k \in 1 .. Len(answers)
      PROVE  AcceptanceIsPublished(outbox[batch[k]].entity, answers[k])'
  <2>1. k \in 1 .. Len(batch)
    BY <1>1 DEF AnswersAreRight
  <2>2. outbox'[batch[k]].entity = outbox[batch[k]].entity
    BY <2>1, BatchRowsStay DEF SyncInv
  <2>3. AcceptanceIsPublished(outbox[batch[k]].entity, answers[k])
    BY DEF AnswersAreRight
  <2> QED
    BY <2>2, <2>3 DEF AcceptanceIsPublished, Published, FeedGrows
<1> QED
  BY <1>2 DEF AnswersAreRight

LEMMA NoAnswers ==
  ASSUME request = << >>, answers = << >>, batch = << >>
  PROVE  AnswersAreRight
<1>1. Len(<< >>) = 0
  BY EmptySeq
<1> QED
  BY <1>1 DEF AnswersAreRight

(* The centre answers the next operation of the request.                     *)
LEMMA ServedAnswer ==
  ASSUME SyncInv, SyncInv', RecordsAreRight', AnswersAreRight, FeedGrows, Serve
  PROVE  AnswersAreRight'
<1> DEFINE m == Len(answers)
<1>1. /\ request # << >> /\ ApplyPushOperation(Head(request), "request")
      /\ answers' = Append(answers, Answer(Head(request))) /\ request' = Tail(request)
      /\ UNCHANGED <<outbox, batch, handled>>
  BY DEF Serve, localVars, tableVars, workerVars
<1>2. /\ request \in Seq(OwnOps) /\ answers \in Seq(AnswerType) /\ batch \in Seq(Seqs)
      /\ m \in Nat /\ Len(batch) \in Nat /\ Len(request) \in Nat
  BY DEF SyncInv, NetTypeOK, NodeInv, LocalTypeOK
<1>3. PICK op \in OwnOps :
        /\ op = Head(request) /\ op = request[1] /\ Len(request) >= 1
        /\ Len(request') = Len(request) - 1
        /\ \A j \in 1 .. Len(request') : request'[j] = request[j + 1]
  BY <1>1, <1>2, HeadTailProperties, EmptySeq
<1>4. op \in Operation /\ op.device = Self /\ op.seq \in Seqs /\ IdOf(op) = <<Self, op.seq>>
  BY <1>3 DEF OwnOps, Operation, Seqs, IdOf
<1>5. op.seq = batch[m + 1] /\ m + 1 \in 1 .. Len(batch)
  BY <1>2, <1>3 DEF AnswersAreRight
<1>6. outbox[op.seq] # NoOp /\ outbox[op.seq].entity = op.entity
  BY <1>3, <1>5 DEF SyncInv, NodeInv, BatchInHand, OwnOps
<1>7. PICK x \in AnswerType : x = Answer(op)
  BY <1>1, <1>3, <1>4, AnswerIsOnRecord DEF SyncInv, CentreInv
<1>8. AcceptanceIsPublished(op.entity, x)'
  <2> SUFFICES ASSUME x.status = "ACCEPTED", op.entity \in SoftEntities
               PROVE  x.content # NoContent /\ Published(op.entity, x.content, x.version)'
    BY DEF AcceptanceIsPublished
  <2>1. /\ op.device \in active
        /\ x = [status |-> results'[<<Self, op.seq>>].status,
                version |-> results'[<<Self, op.seq>>].version,
                content |-> results'[<<Self, op.seq>>].content]
    BY <1>4, <1>7 DEF Answer, Denied
  <2>2. results'[<<Self, op.seq>>] # NoResult
    BY <1>1, <1>3, <1>4, <2>1, AnswerIsOnRecord DEF SyncInv, CentreInv
  <2>3. RecordIsRight(op.seq)'
    BY <1>4 DEF RecordsAreRight
  <2>4. /\ outbox'[op.seq] # NoOp => outbox'[op.seq].entity = results'[<<Self, op.seq>>].entity
        /\ AcceptanceIsPublished(results[<<Self, op.seq>>].entity, results[<<Self, op.seq>>])'
    BY <2>2, <2>3 DEF RecordIsRight
  <2>5. op.entity = results'[<<Self, op.seq>>].entity
    BY <1>1, <1>6, <2>4
  <2> QED
    BY <2>1, <2>4, <2>5 DEF AcceptanceIsPublished
<1>9. ASSUME NEW k \in 1 .. Len(answers')
      PROVE  AcceptanceIsPublished(outbox[batch[k]].entity, answers[k])'
  <2>1. /\ Len(answers') = m + 1 /\ answers'[m + 1] = x
        /\ \A j \in 1 .. m : answers'[j] = answers[j]
    BY <1>1, <1>2, <1>3, <1>7
  <2>2. CASE k = m + 1
    <3>1. outbox'[batch'[k]].entity = op.entity /\ answers'[k] = x
      BY <1>1, <1>5, <1>6, <2>1, <2>2
    <3> QED
      BY <1>8, <3>1 DEF AcceptanceIsPublished
  <2>3. CASE k \in 1 .. m
    <3>1. AcceptanceIsPublished(outbox[batch[k]].entity, answers[k])
      BY <2>3 DEF AnswersAreRight
    <3>2. answers'[k] = answers[k] /\ outbox' = outbox /\ batch' = batch
      BY <1>1, <2>1, <2>3
    <3> QED
      BY <3>1, <3>2 DEF AcceptanceIsPublished, Published, FeedGrows
  <2> QED
    BY <1>2, <2>1, <2>2, <2>3
<1>10. /\ Len(answers') + Len(request') = Len(batch')
       /\ \A j \in 1 .. Len(request') : request'[j].seq = batch'[Len(answers') + j]
  <2>1. Len(answers') = m + 1
    BY <1>1, <1>2, <1>3, <1>7
  <2> QED
    BY <1>1, <1>2, <1>3, <2>1 DEF AnswersAreRight
<1>11. handled' > 0 => request' = << >>
  BY <1>1 DEF AnswersAreRight
<1> QED
  BY <1>9, <1>10, <1>11 DEF AnswersAreRight

LEMMA AnswersStep ==
  ASSUME SyncInv, SyncInv', OutboxStep, FeedGrows, RecordsAreRight', AnswersAreRight,
         [Next]_vars
  PROVE  AnswersAreRight'
<1>1. CASE Serve
  BY <1>1, ServedAnswer
<1>2. ASSUME NEW b, BeginPush(b)
      PROVE  AnswersAreRight'
  <2>1. SelectBatch(b) /\ b \in Seq(Seqs)
    BY <1>2, SelectBatchStep DEF BeginPush, SyncInv
  <2>2. /\ request' = [k \in 1 .. Len(b) |-> Sent(b[k])] /\ answers' = << >> /\ batch' = b
        /\ handled' = 0 /\ Len(b) \in Nat
    BY <1>2, <2>1 DEF BeginPush, SelectBatch
  <2>3. Len(answers') = 0 /\ Len(request') = Len(b)
    BY <2>2, EmptySeq
  <2>4. \A k \in 1 .. Len(b) : request'[k].seq = b[k]
    BY <2>2 DEF Sent
  <2> QED
    BY <2>2, <2>3, <2>4 DEF AnswersAreRight
<1>3. CASE Deliver
  BY <1>3, AnswersStay DEF Deliver, HandleResult, Quiet, netVars
<1>4. CASE EndPush
  <2>1. handled > 0
    <3>1. batch # << >> /\ handled = Len(batch)
      BY <1>4 DEF EndPush, FinishPush
    <3>2. batch \in Seq(Seqs)
      BY DEF SyncInv, NodeInv, LocalTypeOK
    <3> QED
      BY <3>1, <3>2, EmptySeq
  <2>2. request = << >>
    BY <2>1 DEF AnswersAreRight
  <2>3. request' = << >> /\ answers' = << >> /\ batch' = << >>
    BY <1>4, <2>2 DEF EndPush, FinishPush
  <2> QED
    BY <2>3, NoAnswers DEF AnswersAreRight
<1>5. CASE LosePush \/ Crash
  <2>1. request' = << >> /\ answers' = << >> /\ batch' = << >>
    BY <1>5 DEF LosePush, Crash, GiveUp, BatchFails, Restart
  <2> QED
    BY <2>1, NoAnswers DEF AnswersAreRight
<1>6. CASE \/ BeginCycle \/ SkipPush \/ PullGap \/ PullEmpty \/ PullOne \/ ApplyOne
           \/ FetchSnapshot \/ RefuseSnapshot \/ ClearSnapshot \/ ApplySnapshot
  <2>1. UNCHANGED <<request, answers, batch, handled>>
    BY <1>6
       DEF BeginCycle, SkipPush, PullGap, PullEmpty, PullOne, ApplyOne, FetchSnapshot,
           RefuseSnapshot, ClearSnapshot, ApplySnapshot, StartCycle, NothingToPush,
           MustResnapshot, PullNothing, PullConflict, PullCheck, PullApply, EndPull,
           SnapshotFetched, SnapshotBlocked, SnapshotCleared, SnapshotReplaces, Quiet, netVars
  <2> QED
    BY <2>1, AnswersStay
<1>7. CASE ServeOrphan \/ AbortOne \/ AbandonCycle \/ UserWrites \/ Expire \/ World \/ Purge
           \/ UNCHANGED vars
  <2>1. UNCHANGED <<request, answers, batch, handled>>
    BY <1>7
       DEF ServeOrphan, AbortOne, PullAborts, EndPull, AbandonCycle, CycleFails, Quiet,
           UserWrites, LocalUpsert, LocalDelete, Enqueue, Expire, GrantExpires, World, Purge,
           vars, localVars, workerVars, netVars
  <2> QED
    BY <2>1, AnswersStay
<1> QED
  BY <1>1, <1>2, <1>3, <1>4, <1>5, <1>6, <1>7 DEF Next, Worker, Mishaps

(* The snapshot carries rows as they are.                                    *)
LEMMA ImageStep ==
  ASSUME SyncInv, FeedGrows, ImageIsPublished, [Next]_vars
  PROVE  ImageIsPublished'
<1>1. CASE FetchSnapshot
  <2> SUFFICES ASSUME NEW e \in SoftEntities, image'.rows[e] # NoRow
               PROVE  Published(e, image.rows[e].content, image.rows[e].base)'
    BY DEF ImageIsPublished
  <2>1. e \in Entities
    BY BaseAssumption
  <2>2. image'.rows[e] = IF InImage(e) THEN [content |-> rows[e].content, base |-> rows[e].version]
                         ELSE NoRow
    BY <1>1, <2>1 DEF FetchSnapshot
  <2>3. InImage(e) /\ Exists(e)
    BY <2>2 DEF InImage, Lineage
  <2>4. Published(e, rows[e].content, rows[e].version)
    BY <2>1, <2>3, RowsArePublished DEF SyncInv, CentreInv
  <2>5. feed' = feed
    BY <1>1 DEF FetchSnapshot, centralVars
  <2> QED
    BY <2>2, <2>3, <2>4, <2>5 DEF Published
<1>2. CASE ApplySnapshot \/ Crash
  <2>1. image' = NoImage
    BY <1>2 DEF ApplySnapshot, Crash
  <2> QED
    BY <2>1, BaseAssumption DEF NoImage, ImageIsPublished
<1>3. CASE image' = image
  BY <1>3 DEF ImageIsPublished, Published, FeedGrows
<1>4. CASE Worker
  BY <1>1, <1>2, <1>3, <1>4
     DEF Worker, BeginCycle, SkipPush, BeginPush, Deliver, EndPush, PullGap, PullEmpty,
         PullOne, ApplyOne, EndPull, RefuseSnapshot, ClearSnapshot, Quiet, netVars
<1>5. CASE Serve \/ ServeOrphan \/ Mishaps
  BY <1>2, <1>3, <1>5
     DEF Serve, ServeOrphan, Mishaps, LosePush, AbortOne, EndPull, AbandonCycle, Quiet, netVars
<1>6. CASE UserWrites \/ Expire \/ World \/ Purge \/ UNCHANGED vars
  BY <1>3, <1>6 DEF UserWrites, Expire, World, Purge, vars, netVars
<1> QED
  BY <1>4, <1>5, <1>6 DEF Next

(* A row of the mirror stays right while it and the operations on it stay.   *)
LEMMA RowStays ==
  ASSUME FeedGrows, NEW e, RowIsRight(e), mirror'[e] = mirror[e],
         \A n \in Seqs : outbox[n] # NoOp /\ outbox[n].entity = e /\ ~HasStatus(n, {"ACKNOWLEDGED"})
           => /\ outbox'[n] # NoOp /\ outbox'[n].entity = e
              /\ ~HasStatus(n, {"ACKNOWLEDGED"})'
  PROVE  RowIsRight(e)'
<1>1. Unsettled(e) => Unsettled(e)'
  BY DEF Unsettled
<1>2. CASE mirror[e] # NoRow /\ Published(e, mirror[e].content, mirror[e].base)
  BY <1>2 DEF RowIsRight, Published, FeedGrows
<1> QED
  BY <1>1, <1>2 DEF RowIsRight

(* No operation on the row is acknowledged.                                  *)
LEMMA RowKeepsStatus ==
  ASSUME SyncInv, FeedGrows, NEW e, RowIsRight(e), mirror'[e] = mirror[e],
         NEW S, \A n \in S : outbox[n] # NoOp, NEW status \in Statuses,
         outbox' = SetStatus(S, status), issued' = issued,
         status # "ACKNOWLEDGED" \/ \A n \in S : outbox[n].entity # e
  PROVE  RowIsRight(e)'
<1>1. outbox \in OutboxType
  BY DEF SyncInv, NodeInv, LocalTypeOK, OutboxType
<1>2. /\ SameOps
      /\ \A n \in Seqs : outbox[n] # NoOp =>
           outbox'[n].status = IF n \in S THEN status ELSE outbox[n].status
  BY <1>1, StatusSet
<1> QED
  BY <1>2, RowStays DEF SameOps, HasStatus

(* A row that was published is written to the mirror.                        *)
LEMMA RowIsWritten ==
  ASSUME FeedGrows, NEW e, NEW content, NEW version, Published(e, content, version),
         mirror'[e] = [content |-> content, base |-> version]
  PROVE  RowIsRight(e)'
BY DEF RowIsRight, Published, FeedGrows

LEMMA DeliverKeepsMirror ==
  ASSUME SyncInv, FeedGrows, AnswersAreRight, MirrorIsRight, Deliver, NEW f \in SoftEntities
  PROVE  RowIsRight(f)'
<1> DEFINE n == batch[handled + 1]
           e == outbox[n].entity
           answer == answers[handled + 1]
<1>1. /\ handled \in Nat /\ handled < Len(answers) /\ HandleResult(answer)
      /\ handled + 1 \in 1 .. Len(answers) /\ Len(answers) \in Nat
  BY DEF Deliver, SyncInv, NodeInv, LocalTypeOK, NetTypeOK
<1>2. handled + 1 \in 1 .. Len(batch) /\ outbox[n] # NoOp /\ n \in Seqs
  BY <1>1 DEF AnswersAreRight, SyncInv, NetTypeOK, NodeInv, LocalTypeOK, BatchInHand
<1>3. RowIsRight(f) /\ f \in Entities /\ issued' = issued
  BY <1>1, BaseAssumption DEF MirrorIsRight, HandleResult
<1>4. AcceptanceIsPublished(e, answer)
  BY <1>1 DEF AnswersAreRight
<1>5. e \in Entities /\ mirror \in [Entities -> MirrorRow \cup {NoRow}]
  BY <1>2 DEF SyncInv, NodeInv, LocalTypeOK, OutboxOp
<1>6. \A m \in {n} : outbox[m] # NoOp
  BY <1>2
<1> HIDE DEF n, answer
<1>7. CASE /\ answer.status = "ACCEPTED" /\ ~ApplyThrows(e, answer.content)
           /\ mirror' = IF answer.content = NoContent THEN mirror
                        ELSE [mirror EXCEPT ![e] =
                                Authoritative(e, answer.content, answer.version, FALSE)]
           /\ outbox' = SetStatus({n}, "ACKNOWLEDGED")
  <2>1. CASE f # e
    <3>1. mirror'[f] = mirror[f]
      BY <1>5, <1>7, <2>1
    <3>2. \A m \in {n} : outbox[m].entity # f
      BY <2>1
    <3>3. "ACKNOWLEDGED" \in Statuses
      BY DEF Statuses
    <3> QED
      BY <1>3, <1>6, <1>7, <3>1, <3>2, <3>3, RowKeepsStatus
  <2>2. CASE f = e
    <3>1. answer.content # NoContent /\ Published(e, answer.content, answer.version)
      BY <1>4, <1>7, <2>2 DEF AcceptanceIsPublished
    <3>2. mirror'[e] = [content |-> answer.content, base |-> answer.version]
      BY <1>5, <1>7, <2>2, <3>1 DEF Authoritative
    <3> HIDE DEF e
    <3>3. Published(f, answer.content, answer.version)
      BY <2>2, <3>1
    <3>4. mirror'[f] = [content |-> answer.content, base |-> answer.version]
      BY <2>2, <3>2
    <3> QED
      BY <3>3, <3>4, RowIsWritten
  <2> QED
    BY <2>1, <2>2
<1>8. CASE \E status \in {"CONFLICT", "RETRY", "REJECTED"} :
             mirror' = mirror /\ outbox' = SetStatus({n}, status)
  BY <1>3, <1>6, <1>8, RowKeepsStatus DEF Statuses
<1> QED
  BY <1>1, <1>7, <1>8 DEF HandleResult, n, answer

LEMMA ApplyKeepsMirror ==
  ASSUME SyncInv, FeedGrows, MirrorIsRight, ApplyOne, NEW f \in SoftEntities
  PROVE  RowIsRight(f)'
<1> DEFINE change == feed[pulled]
           e == change.entity
           reviewed == {n \in Seqs : HasStatus(n, {"CONFLICT"}) /\ outbox[n].entity = e}
<1>1. /\ phase = "apply" /\ ~ApplyThrows(e, change.content)
      /\ mirror' = [mirror EXCEPT ![e] =
           Authoritative(e, change.content, change.version, change.tombstone)]
      /\ outbox' = SetStatus(reviewed, "ACKNOWLEDGED") /\ issued' = issued
  BY DEF ApplyOne, PullApply
<1>2. pulled \in 1 .. Len(feed) /\ change \in FeedEntry /\ e \in Entities
  <2>1. pulled \in 1 .. Len(feed)
    BY <1>1 DEF SyncInv, NetTypeOK
  <2>2. feed \in Seq(FeedEntry)
    BY DEF SyncInv, CentreInv, CentralInv, CentralTypeOK
  <2>3. change \in FeedEntry
    BY <2>1, <2>2
  <2> QED
    BY <2>1, <2>3 DEF FeedEntry
<1>3. RowIsRight(f) /\ f \in Entities /\ mirror \in [Entities -> MirrorRow \cup {NoRow}]
  BY BaseAssumption DEF MirrorIsRight, SyncInv, NodeInv, LocalTypeOK
<1>4. CASE f # e
  <2>1. mirror'[f] = mirror[f]
    BY <1>1, <1>3, <1>4
  <2>2. \A m \in reviewed : outbox[m] # NoOp /\ outbox[m].entity # f
    BY <1>4 DEF HasStatus
  <2>3. "ACKNOWLEDGED" \in Statuses
    BY DEF Statuses
  <2> HIDE DEF reviewed
  <2> QED
    BY <1>1, <1>3, <2>1, <2>2, <2>3, RowKeepsStatus
<1>5. CASE f = e
  <2>1. change.tombstone = FALSE
    BY <1>2, <1>5 DEF SyncInv, CentreInv, TombstonesAreHard, FeedEntry
  <2>2. mirror'[e] = [content |-> change.content, base |-> change.version]
    BY <1>1, <1>2, <1>3, <1>5, <2>1 DEF Authoritative
  <2>3. Published(e, change.content, change.version)
    BY <1>2 DEF Published
  <2> HIDE DEF e, change
  <2>4. /\ Published(f, change.content, change.version)
        /\ mirror'[f] = [content |-> change.content, base |-> change.version]
    BY <1>5, <2>2, <2>3
  <2> QED
    BY <2>4, RowIsWritten
<1> QED
  BY <1>4, <1>5

(* A local write leaves an operation that is not settled.                    *)
LEMMA WriteKeepsMirror ==
  ASSUME SyncInv, FeedGrows, MirrorIsRight, UserWrites, NEW f \in SoftEntities
  PROVE  RowIsRight(f)'
<1>1. PICK e \in Entities, type \in {"UPSERT", "DELETE"}, payload \in Contents :
        /\ Enqueue(e, type, payload)
        /\ mirror'[f] # mirror[f] => e = f
  <2>1. f \in Entities /\ mirror \in [Entities -> MirrorRow \cup {NoRow}]
    BY BaseAssumption DEF SyncInv, NodeInv, LocalTypeOK
  <2>2. ASSUME NEW e \in Entities, NEW c \in Contents, LocalUpsert(e, c)
        PROVE  Enqueue(e, "UPSERT", c) /\ (mirror'[f] # mirror[f] => e = f)
    BY <2>1, <2>2 DEF LocalUpsert
  <2>3. ASSUME NEW e \in Entities, LocalDelete(e)
        PROVE  /\ mirror[e].content \in Contents /\ Enqueue(e, "DELETE", mirror[e].content)
               /\ mirror'[f] # mirror[f] => e = f
    BY <2>1, <2>3 DEF LocalDelete, MirrorRow
  <2> QED
    BY <2>2, <2>3 DEF UserWrites
<1>2. PICK m \in Seqs :
        /\ outbox[m] = NoOp /\ outbox'[m] # NoOp /\ outbox'[m].entity = e
        /\ outbox'[m].status = "PENDING"
        /\ \A n \in Seqs : n # m => outbox'[n] = outbox[n]
  <2>1. issued \in 0 .. MaxSeq /\ issued + 1 \in Seqs
    BY <1>1, BaseAssumption DEF Enqueue, SyncInv, NodeInv, LocalTypeOK, Seqs
  <2> DEFINE op == [entity |-> e, type |-> type, payload |-> payload, base |-> BaseOf(e),
                    status |-> "PENDING"]
  <2>2. outbox' = [outbox EXCEPT ![issued + 1] = op] /\ op.entity = e /\ op.status = "PENDING"
    BY <1>1 DEF Enqueue
  <2>3. op \in OutboxOp
    <3>1. BaseOf(e) \in Nat
      BY DEF BaseOf, SyncInv, NodeInv, LocalTypeOK, MirrorRow
    <3> QED
      BY <3>1 DEF OutboxOp, Statuses
  <2> HIDE DEF op
  <2>4. outbox \in [Seqs -> OutboxOp \cup {NoOp}]
    BY DEF SyncInv, NodeInv, LocalTypeOK
  <2>5. outbox[issued + 1] = NoOp
    <3>1. issued \in Nat /\ ~(issued + 1 <= issued)
      BY <2>1
    <3> QED
      BY <2>1, <3>1 DEF SyncInv, NodeInv, OutboxIsIssued
  <2>6. op # NoOp
    BY <2>3, LocalAssumption
  <2> QED
    BY <2>1, <2>2, <2>4, <2>5, <2>6
<1>3. CASE e = f
  <2>1. ~HasStatus(m, {"ACKNOWLEDGED"})'
    BY <1>2 DEF HasStatus
  <2> QED
    BY <1>2, <1>3, <2>1 DEF RowIsRight, Unsettled
<1>4. CASE mirror'[f] = mirror[f]
  <2>1. RowIsRight(f)
    BY DEF MirrorIsRight
  <2>2. \A n \in Seqs : outbox[n] # NoOp => outbox'[n] = outbox[n]
    BY <1>2
  <2> QED
    BY <1>4, <2>1, <2>2, RowStays DEF HasStatus
<1> QED
  BY <1>1, <1>3, <1>4

(* A snapshot takes the place of the whole mirror.                           *)
LEMMA SnapshotKeepsMirror ==
  ASSUME SyncInv, FeedGrows, ImageIsPublished, ApplySnapshot, NEW f \in SoftEntities
  PROVE  RowIsRight(f)'
<1>1. mirror' = image.rows
  BY DEF ApplySnapshot, SnapshotReplaces
<1>2. CASE image.rows[f] = NoRow
  BY <1>1, <1>2 DEF RowIsRight
<1>3. CASE image.rows[f] # NoRow
  <2>1. Published(f, image.rows[f].content, image.rows[f].base)
    BY <1>3 DEF ImageIsPublished
  <2>2. f \in Entities /\ image.rows[f] \in MirrorRow
    BY <1>3, BaseAssumption DEF SyncInv, NetTypeOK, ImageType
  <2>3. mirror'[f] = [content |-> image.rows[f].content, base |-> image.rows[f].base]
    BY <1>1, <2>2 DEF MirrorRow
  <2> QED
    BY <2>1, <2>3, RowIsWritten
<1> QED
  BY <1>2, <1>3

(* A step that moves operations to a status which is not ACKNOWLEDGED.       *)
LEMMA StatusKeepsMirror ==
  ASSUME SyncInv, FeedGrows, MirrorIsRight, NEW f \in SoftEntities, mirror' = mirror,
         NEW S, \A n \in S : outbox[n] # NoOp,
         \E status \in {"SENDING", "RETRY", "CONFLICT"} : outbox' = SetStatus(S, status),
         issued' = issued
  PROVE  RowIsRight(f)'
<1>1. PICK status \in {"SENDING", "RETRY", "CONFLICT"} : outbox' = SetStatus(S, status)
  OBVIOUS
<1>2. status \in Statuses /\ status # "ACKNOWLEDGED" /\ RowIsRight(f)
  BY DEF Statuses, MirrorIsRight
<1> QED
  BY <1>1, <1>2, RowKeepsStatus

LEMMA MirrorStep ==
  ASSUME SyncInv, SyncInv', FeedGrows, AnswersAreRight, ImageIsPublished, MirrorIsRight,
         [Next]_vars
  PROVE  MirrorIsRight'
<1> SUFFICES ASSUME NEW f \in SoftEntities
             PROVE  RowIsRight(f)'
  BY DEF MirrorIsRight
<1>1. CASE UNCHANGED <<mirror, outbox>>
  BY <1>1, RowStays DEF MirrorIsRight, HasStatus
<1>2. CASE Deliver
  BY <1>2, DeliverKeepsMirror
<1>3. CASE ApplyOne
  BY <1>3, ApplyKeepsMirror
<1>4. CASE ApplySnapshot
  BY <1>4, SnapshotKeepsMirror
<1>5. CASE UserWrites
  BY <1>5, WriteKeepsMirror
<1>6. ASSUME NEW b, BeginPush(b)
      PROVE  RowIsRight(f)'
  <2>1. SelectBatch(b)
    BY <1>6 DEF BeginPush
  <2>2. \A n \in ToSet(b) : outbox[n] # NoOp
    BY <2>1, BatchesAreQueued, FoundRowsAreThere DEF SelectBatch, SyncInv, ToSet
  <2> QED
    BY <2>1, <2>2, StatusKeepsMirror DEF SelectBatch
<1>7. CASE LosePush
  <2>1. \A n \in ToSet(batch) : outbox[n] # NoOp
    BY DEF SyncInv, NodeInv, BatchInHand, ToSet
  <2> QED
    BY <1>7, <2>1, StatusKeepsMirror DEF LosePush, BatchFails
<1>8. CASE Crash
  <2> DEFINE S == {n \in Seqs : HasStatus(n, {"SENDING"})}
  <2>1. \A n \in S : outbox[n] # NoOp
    BY FoundRowsAreThere
  <2>2. outbox' = SetStatus(S, "RETRY") /\ mirror' = mirror /\ issued' = issued
    BY <1>8 DEF Crash, Restart
  <2> HIDE DEF S
  <2> QED
    BY <2>1, <2>2, StatusKeepsMirror
<1>9. ASSUME NEW k, PullConflict(feed[k], k)
      PROVE  RowIsRight(f)'
  <2> DEFINE latest == Max(WaitingFor(feed[k].entity))
  <2>1. /\ outbox' = SetStatus({latest}, "CONFLICT") /\ mirror' = mirror /\ issued' = issued
        /\ WaitingFor(feed[k].entity) # {}
    BY <1>9 DEF PullConflict
  <2>2. \A n \in {latest} : outbox[n] # NoOp
    BY <2>1, LatestWaits, FoundRowsAreThere DEF Waiting, WaitingFor
  <2> HIDE DEF latest
  <2> QED
    BY <2>1, <2>2, StatusKeepsMirror
<1>10. CASE PullOne
  BY <1>1, <1>9, <1>10 DEF PullOne, PullCheck, tableVars
<1>11. CASE Worker
  BY <1>1, <1>2, <1>3, <1>4, <1>6, <1>10, <1>11
     DEF Worker, BeginCycle, SkipPush, EndPush, PullGap, PullEmpty, FetchSnapshot,
         RefuseSnapshot, ClearSnapshot, StartCycle, NothingToPush, FinishPush, MustResnapshot,
         PullNothing, SnapshotFetched, SnapshotBlocked, SnapshotCleared, tableVars
<1>12. CASE Serve \/ ServeOrphan \/ Expire \/ World \/ Purge \/ AbortOne \/ AbandonCycle
            \/ UNCHANGED vars
  BY <1>1, <1>12
     DEF Serve, ServeOrphan, Expire, GrantExpires, World, Purge, AbortOne, PullAborts,
         AbandonCycle, CycleFails, vars, localVars, tableVars
<1> QED
  BY <1>5, <1>7, <1>8, <1>11, <1>12 DEF Next, Mishaps

LEMMA TraceInvStep ==
  ASSUME SyncInv, TraceInv, [Next]_vars
  PROVE  TraceInv'
<1>1. /\ SyncInv' /\ OutboxStep /\ FeedGrows /\ CentreStep
      /\ CentreInv /\ CentreInv' /\ NodeInv
  BY StepsOfTheWhole DEF SyncInv
<1>2. RecordsAreRight'
  BY <1>1, RecordsStep DEF TraceInv
<1>3. AnswersAreRight' /\ ImageIsPublished' /\ MirrorIsRight'
  BY <1>1, <1>2, AnswersStep, ImageStep, MirrorStep DEF TraceInv
<1> QED
  BY <1>2, <1>3 DEF TraceInv

LEMMA TraceInvInit == Init => TraceInv
<1> SUFFICES ASSUME Init
             PROVE  TraceInv
  OBVIOUS
<1>1. RecordsAreRight
  BY LocalAssumption DEF Init, CentralInit, RecordsAreRight, RecordIsRight, OpIds, Seqs
<1>2. AnswersAreRight
  BY NoAnswers DEF Init, LocalInit
<1>3. ImageIsPublished /\ MirrorIsRight
  BY BaseAssumption
     DEF Init, LocalInit, NoImage, ImageIsPublished, MirrorIsRight, RowIsRight
<1> QED
  BY <1>1, <1>2, <1>3 DEF TraceInv

(* What a user of the node sees of a row is what the centre has published,   *)
(* unless the outbox holds an operation on the row that is not acknowledged: *)
(* whatever is lost, answered twice, reviewed, edited or erased meanwhile,   *)
(* an accepted answer, a change that is pulled and a snapshot bring nothing  *)
(* into the mirror that the feed does not have (localSyncWorker.ts,          *)
(* applyAuthoritativeRow, pullOnce and applyScopedSnapshot).                 *)
THEOREM SettledIsPublished == Spec => []SettledRowsArePublished
<1>1. Spec => []TraceInv
  BY TraceInvInit, TraceInvStep, SyncInvariant, PTL DEF Spec
<1>2. TraceInv => SettledRowsArePublished
  BY DEF TraceInv, MirrorIsRight, RowIsRight, Unsettled, Published, SettledRowsArePublished
<1> QED
  BY <1>1, <1>2, PTL
-----------------------------------------------------------------------------
(* The order in which the centre hears of the node.  A write counts as tried *)
(* from its first selection on: the batch, the request, a request given up,  *)
(* a status and a result remember it.  The selection ascends and takes every *)
(* write that was never tried, so none of those is older than a tried one.   *)

Carries(s, n) == \E k \in 1 .. Len(s) : s[k].seq = n

Tried(n) ==
  \/ results[<<Self, n>>] # NoResult
  \/ HasStatus(n, {"SENDING", "RETRY"})
  \/ \E k \in 1 .. Len(batch) : batch[k] = n
  \/ Carries(request, n) \/ Carries(orphan, n)

TriesInOrder == \A m, n \in Seqs : m < n /\ Tried(n) => ~HasStatus(m, {"PENDING"})

LEMMA TriedIsIssued ==
  ASSUME SyncInv, TraceInv, NEW n \in Seqs, Tried(n)
  PROVE  n <= issued
<1>0. issued \in Nat /\ n \in Nat
  BY BaseAssumption DEF SyncInv, NodeInv, LocalTypeOK, Seqs
<1>1. CASE results[<<Self, n>>] # NoResult
  BY <1>1 DEF TraceInv, RecordsAreRight, RecordIsRight
<1>2. CASE outbox[n] # NoOp
  BY <1>2 DEF SyncInv, NodeInv, OutboxIsIssued
<1>3. ASSUME NEW s \in Seq(OwnOps), Carries(s, n)
      PROVE  n <= issued
  <2>1. PICK k \in 1 .. Len(s) : s[k].seq = n
    BY <1>3 DEF Carries
  <2>2. s[k] \in OwnOps
    OBVIOUS
  <2> QED
    BY <2>1, <2>2 DEF OwnOps
<1> QED
  BY <1>1, <1>2, <1>3 DEF Tried, HasStatus, SyncInv, NodeInv, BatchInHand, NetTypeOK

(* A step that tries nothing for the first time.                             *)
NothingTried ==
  /\ \A n \in Seqs : Tried(n)' => Tried(n)
  /\ \A m \in Seqs : HasStatus(m, {"PENDING"})' => HasStatus(m, {"PENDING"}) \/ m = issued + 1

LEMMA OrderIsKept ==
  ASSUME SyncInv, TraceInv, TriesInOrder, NothingTried
  PROVE  TriesInOrder'
<1> SUFFICES ASSUME NEW m \in Seqs, NEW n \in Seqs, m < n, Tried(n)', HasStatus(m, {"PENDING"})'
             PROVE  FALSE
  BY DEF TriesInOrder
<1>1. Tried(n) /\ n <= issued
  BY TriedIsIssued DEF NothingTried
<1>2. ~HasStatus(m, {"PENDING"})
  BY <1>1 DEF TriesInOrder
<1>3. m = issued + 1 /\ issued \in Nat /\ n \in Nat
  BY <1>2, BaseAssumption DEF NothingTried, SyncInv, NodeInv, LocalTypeOK, Seqs
<1> QED
  BY <1>1, <1>3

(* Only what a request carries gets its first result.                        *)
LEMMA FirstResults ==
  ASSUME SyncInv, [Next]_vars, NEW n \in Seqs, results'[<<Self, n>>] # NoResult
  PROVE  results[<<Self, n>>] # NoResult \/ Carries(request, n) \/ Carries(orphan, n)
<1> DEFINE i == <<Self, n>>
<1>0. /\ CentralInv /\ CentralTypeOK /\ i \in OpIds
      /\ results \in [OpIds -> Result \cup {NoResult}]
      /\ request \in Seq(OwnOps) /\ orphan \in Seq(OwnOps)
  BY LocalAssumption
     DEF SyncInv, CentreInv, CentralInv, CentralTypeOK, NetTypeOK, OpIds, Seqs
<1>1. ASSUME NEW s \in Seq(OwnOps), s # << >>, NEW who, ApplyPushOperation(Head(s), who),
             results[i] = NoResult
      PROVE  Carries(s, n)
  <2>1. Head(s) \in OwnOps /\ Head(s) = s[1] /\ 1 \in 1 .. Len(s)
    BY <1>1, HeadTailProperties
  <2>2. PICK op \in OwnOps : op = s[1] /\ ApplyPushOperation(op, who)
    BY <1>1, <2>1
  <2>3. op \in Operation /\ IdOf(op) = <<Self, op.seq>>
    BY DEF OwnOps, IdOf
  <2>4. CASE Push(op)
    <3>1. PICK r \in Result : results' = [results EXCEPT ![IdOf(op)] = r]
      BY <1>0, <2>3, <2>4, DecisionIsStored
    <3>2. op.seq = n
      BY <1>0, <1>1, <2>3, <3>1
    <3> QED
      BY <2>1, <2>2, <3>2 DEF Carries
  <2>5. CASE ReplayFails(op)
    BY <1>0, <1>1, <2>5 DEF ReplayFails
  <2>6. CASE UNCHANGED centralVars
    BY <1>1, <2>6 DEF centralVars
  <2> QED
    BY <2>2, <2>4, <2>5, <2>6 DEF ApplyPushOperation, Decide
<1>2. CASE Serve \/ ServeOrphan
  BY <1>0, <1>1, <1>2 DEF Serve, ServeOrphan
<1>3. CASE World
  <2>1. CASE OthersPush
    BY <1>0, <2>1, OthersOps, OthersKeepResults DEF OthersPush, Decide
  <2>2. CASE Reviewer
    <3>1. PICK j \in OpIds : ResolveSyncConflict(j)
      BY <2>2 DEF Reviewer
    <3>2. PICK version \in Nat, content \in Contents \cup {NoContent} :
            IsOpen(j) /\ Close(j, version, content)
      BY <1>0, <3>1, ReviewCloses
    <3>3. results[j] # NoResult
      BY <1>0, <3>2 DEF CentralInv, ConflictsHaveACase
    <3>4. i # j => results'[i] = results[i]
      BY <1>0, <3>2 DEF Close
    <3> QED
      BY <3>3, <3>4
  <2>3. CASE CentralScreens \/ Administrator
    BY <2>3
       DEF CentralScreens, Administrator, CentralEdit, CentralInsert, CentralUpdate,
           CentralDelete, CentralRevive, SetDevice
  <2> QED
    BY <1>3, <2>1, <2>2, <2>3 DEF World
<1>4. CASE Worker
  BY <1>4
     DEF Worker, BeginCycle, SkipPush, BeginPush, Deliver, EndPush, PullGap, PullEmpty,
         PullOne, ApplyOne, EndPull, FetchSnapshot, RefuseSnapshot, ClearSnapshot,
         ApplySnapshot, Quiet, centralVars
<1>5. CASE Mishaps \/ UserWrites \/ Expire \/ Purge \/ UNCHANGED vars
  BY <1>5
     DEF Mishaps, LosePush, AbortOne, EndPull, AbandonCycle, Crash, Quiet, UserWrites,
         Expire, Purge, vars, centralVars
<1> QED
  BY <1>2, <1>3, <1>4, <1>5 DEF Next

(* The selection ascends and passes over nothing that is PENDING.            *)
LEMMA BatchesAscend ==
  ASSUME NEW b \in Batches
  PROVE  /\ \A j, k \in 1 .. Len(b) : j < k => b[j] < b[k]
         /\ \A k \in 1 .. Len(b), n \in Seqs : HasStatus(n, {"PENDING"}) /\ n < b[k] =>
              \E j \in 1 .. Len(b) : j < k /\ b[j] = n
<1>1. PICK due, q : /\ due \subseteq {n \in Seqs : HasStatus(n, {"RETRY"})}
                    /\ q \in Upwards({n \in Seqs : HasStatus(n, {"PENDING"})} \cup due)
                    /\ b = Limited(q)
  BY DEF Batches
<1> DEFINE S == {n \in Seqs : HasStatus(n, {"PENDING"})} \cup due
           c == Cardinality(S)
<1>2. S \subseteq Seqs /\ IsFiniteSet(S)
  <2>1. S \subseteq 1 .. MaxSeq /\ S \subseteq Seqs
    BY <1>1 DEF Seqs
  <2>2. IsFiniteSet(1 .. MaxSeq)
    BY FS_Interval, BaseAssumption
  <2> QED
    BY <2>1, <2>2, FS_Subset
<1>3. c \in Nat /\ IsFiniteSet(1 .. c) /\ Cardinality(1 .. c) = c
  <2>1. c \in Nat
    BY <1>2, FS_CardinalityType
  <2> QED
    BY <2>1, FS_Interval
<1>4. /\ q \in [1 .. c -> S] /\ \A i, j \in 1 .. c : i # j => q[i] # q[j]
      /\ \A j, k \in DOMAIN q : j < k => q[j] < q[k]
  BY <1>1 DEF Upwards, SetToSeqs
<1>5. \A n \in Seqs : HasStatus(n, {"PENDING"}) => n \in S
  OBVIOUS
<1> HIDE DEF S, c
<1>6. \A n \in S : \E j \in 1 .. c : q[j] = n
  <2>1. q \in Injection(1 .. c, S)
    BY <1>4 DEF Injection, IsInjective
  <2>2. q \in Surjection(1 .. c, S)
    BY <1>2, <1>3, <2>1, FS_Injection DEF c
  <2> QED
    BY <2>2 DEF Surjection
<1>7. q \in Seq(Seqs) /\ Len(q) = c
  <2>1. q \in [1 .. c -> Seqs]
    BY <1>2, <1>4
  <2> QED
    BY <1>3, <2>1
<1>8. PICK m \in Nat : m <= c /\ Len(b) = m /\ \A k \in 1 .. m : b[k] = q[k]
  <2> DEFINE l == IF c < BatchSize THEN c ELSE BatchSize
  <2>1. l \in Nat /\ l <= c
    BY <1>3, LocalAssumption
  <2>2. b = SubSeq(q, 1, l)
    BY <1>1, <1>7 DEF Limited
  <2> HIDE DEF l
  <2>3. Len(b) = l /\ \A k \in 1 .. l : b[k] = q[k]
    BY <1>3, <1>7, <2>1, <2>2, SubSeqProperties
  <2> QED
    BY <2>1, <2>3
<1>9. /\ \A k \in 1 .. m : k \in 1 .. c
      /\ \A j, k \in 1 .. c : j < k => q[j] < q[k]
  BY <1>3, <1>4, <1>8
<1>10. ASSUME NEW k \in 1 .. m, NEW n \in Seqs, HasStatus(n, {"PENDING"}), n < b[k]
       PROVE  \E j \in 1 .. m : j < k /\ b[j] = n
  <2>1. PICK j \in 1 .. c : q[j] = n
    BY <1>5, <1>6, <1>10
  <2>2. b[k] = q[k] /\ k \in 1 .. c /\ q[k] \in Int /\ n \in Int
    <3>1. b[k] = q[k] /\ k \in 1 .. c
      BY <1>8, <1>9
    <3>2. q[k] \in Seqs
      BY <1>2, <1>4, <3>1
    <3> QED
      BY <3>1, <3>2, BaseAssumption DEF Seqs
  <2>3. j < k
    <3>1. CASE j = k
      BY <1>10, <2>1, <2>2, <3>1
    <3>2. CASE k < j
      <4>1. q[k] < q[j]
        BY <1>9, <2>2, <3>2
      <4> QED
        BY <1>10, <2>1, <2>2, <4>1
    <3> QED
      BY <1>3, <2>2, <3>1, <3>2
  <2> QED
    BY <1>8, <2>1, <2>3
<1>11. \A j, k \in 1 .. m : j < k => b[j] < b[k]
  BY <1>8, <1>9
<1> QED
  BY <1>8, <1>10, <1>11
(* Setting a status tries nothing but the operations it is set of.           *)
LEMMA StatusTries ==
  ASSUME NodeInv, NEW S, \A n \in S : outbox[n] # NoOp,
         NEW status \in Statuses \ {"PENDING"}, outbox' = SetStatus(S, status)
  PROVE  /\ \A n \in Seqs : HasStatus(n, {"PENDING"})' => HasStatus(n, {"PENDING"}) /\ n \notin S
         /\ \A n \in Seqs : HasStatus(n, {"SENDING", "RETRY"})' =>
              \/ HasStatus(n, {"SENDING", "RETRY"})
              \/ n \in S /\ status \in {"SENDING", "RETRY"}
<1>1. outbox \in OutboxType /\ status \in Statuses
  BY DEF NodeInv, LocalTypeOK, OutboxType
<1>2. /\ \A n \in Seqs : outbox[n] # NoOp =>
           outbox'[n].status = IF n \in S THEN status ELSE outbox[n].status
      /\ \A n \in Seqs : outbox'[n] = NoOp <=> outbox[n] = NoOp
  <2>1. ASSUME NEW n \in Seqs
        PROVE  outbox'[n] = NoOp <=> outbox[n] = NoOp
    <3>1. outbox[n] # NoOp => outbox[n] \in OutboxOp
      BY <1>1 DEF OutboxType
    <3>2. outbox[n] # NoOp => [outbox[n] EXCEPT !.status = status] \in OutboxOp
      BY <1>1, <3>1 DEF OutboxOp
    <3> QED
      BY <3>2, LocalAssumption DEF SetStatus
  <2> QED
    BY <1>1, <2>1, StatusSet
<1> QED
  BY <1>2 DEF HasStatus

(* The results aside, a step that leaves these alone tries nothing.          *)
LEMMA NothingSent ==
  ASSUME SyncInv, [Next]_vars, UNCHANGED <<outbox, batch>>,
         \A n \in Seqs : Carries(request', n) => Carries(request, n),
         \A n \in Seqs : Carries(orphan', n) => Carries(request, n) \/ Carries(orphan, n)
  PROVE  NothingTried
BY FirstResults DEF NothingTried, Tried, Carries, HasStatus

LEMMA TailCarries ==
  ASSUME NEW s \in Seq(OwnOps), s # << >>, NEW n, Carries(Tail(s), n)
  PROVE  Carries(s, n)
<1>1. /\ Len(s) \in Nat /\ Len(s) > 0 /\ Len(Tail(s)) = Len(s) - 1
      /\ \A k \in 1 .. Len(Tail(s)) : Tail(s)[k] = s[k + 1]
  BY HeadTailProperties
<1>2. PICK k \in 1 .. Len(Tail(s)) : Tail(s)[k].seq = n
  BY DEF Carries
<1>3. k + 1 \in 1 .. Len(s) /\ s[k + 1].seq = n
  BY <1>1, <1>2
<1> QED
  BY <1>3 DEF Carries

LEMMA GivenUpCarries ==
  ASSUME GiveUp
  PROVE  /\ \A n \in Seqs : ~Carries(request', n)
         /\ \A n \in Seqs : Carries(orphan', n) => Carries(request, n) \/ Carries(orphan, n)
<1>1. Len(request') = 0 /\ (orphan' = request \/ orphan' = orphan)
  BY EmptySeq DEF GiveUp
<1> QED
  BY <1>1 DEF Carries

(* The worker sets a status, or lets go of the batch.                        *)
LEMMA StatusTriesNothing ==
  ASSUME SyncInv, [Next]_vars, NEW S, \A n \in S : outbox[n] # NoOp,
         NEW status \in Statuses \ {"PENDING"}, outbox' = SetStatus(S, status),
         status \in {"SENDING", "RETRY"} => \A n \in S \cap Seqs : Tried(n),
         batch' = batch \/ batch' = << >>,
         \A n \in Seqs : Carries(request', n) => Carries(request, n),
         \A n \in Seqs : Carries(orphan', n) => Carries(request, n) \/ Carries(orphan, n)
  PROVE  NothingTried
<1>1. /\ \A n \in Seqs : HasStatus(n, {"PENDING"})' => HasStatus(n, {"PENDING"})
      /\ \A n \in Seqs : HasStatus(n, {"SENDING", "RETRY"})' => Tried(n)
  BY StatusTries DEF SyncInv, Tried
<1>2. \A n, k : k \in 1 .. Len(batch') /\ batch'[k] = n => k \in 1 .. Len(batch) /\ batch[k] = n
  BY EmptySeq
<1>3. ASSUME NEW n \in Seqs, Tried(n)'
      PROVE  Tried(n)
  <2>1. CASE results'[<<Self, n>>] # NoResult
    BY <2>1, FirstResults DEF Tried
  <2>2. CASE \E k \in 1 .. Len(batch') : batch'[k] = n
    BY <1>2, <2>2 DEF Tried
  <2>3. CASE Carries(request', n) \/ Carries(orphan', n)
    BY <2>3 DEF Tried
  <2> QED
    BY <1>1, <1>3, <2>1, <2>2, <2>3 DEF Tried, Carries
<1> QED
  BY <1>1, <1>3 DEF NothingTried

LEMMA PushTriesNothing ==
  ASSUME SyncInv, [Next]_vars, Deliver \/ EndPush \/ LosePush \/ Crash
  PROVE  NothingTried
<1>0. /\ batch \in Seq(Seqs) /\ handled \in 0 .. Len(batch) /\ Len(batch) \in Nat
      /\ \A k \in 1 .. Len(batch) : outbox[batch[k]] # NoOp
  BY DEF SyncInv, NodeInv, LocalTypeOK, BatchInHand
<1>1. CASE Deliver
  <2> DEFINE n == batch[handled + 1]
  <2>1. handled + 1 \in 1 .. Len(batch)
    BY <1>0, <1>1 DEF Deliver, HandleResult
  <2>2. outbox[n] # NoOp /\ Tried(n)
    BY <1>0, <2>1 DEF Tried
  <2>3. /\ \E status \in Statuses \ {"PENDING"} : outbox' = SetStatus({n}, status)
        /\ batch' = batch /\ request' = request /\ orphan' = orphan
    BY <1>1 DEF Deliver, HandleResult, Quiet, netVars, Statuses
  <2> HIDE DEF n
  <2>4. /\ \A m \in {n} : outbox[m] # NoOp /\ Tried(m)
        /\ \A m \in Seqs : Carries(request', m) => Carries(request, m)
        /\ \A m \in Seqs : Carries(orphan', m) => Carries(request, m) \/ Carries(orphan, m)
    BY <2>2, <2>3
  <2> QED
    BY <2>3, <2>4, StatusTriesNothing
<1>2. CASE EndPush
  <2>1. /\ outbox' = outbox /\ batch' = << >> /\ request' = request /\ orphan' = orphan
    BY <1>2 DEF EndPush, FinishPush, tableVars
  <2>2. Len(batch') = 0
    BY <2>1, EmptySeq
  <2> QED
    BY <2>1, <2>2, FirstResults DEF NothingTried, Tried, Carries, HasStatus
<1>3. CASE LosePush
  <2>1. outbox' = SetStatus(ToSet(batch), "RETRY") /\ batch' = << >> /\ GiveUp
    BY <1>3 DEF LosePush, BatchFails
  <2>2. ToSet(batch) = {batch[k] : k \in 1 .. Len(batch)}
    BY <1>0 DEF ToSet
  <2>3. \A n \in ToSet(batch) : outbox[n] # NoOp /\ Tried(n)
    BY <1>0, <2>2 DEF Tried
  <2>4. "RETRY" \in Statuses \ {"PENDING"}
    BY DEF Statuses
  <2> QED
    BY <2>1, <2>3, <2>4, GivenUpCarries, StatusTriesNothing
<1>4. CASE Crash
  <2> DEFINE S == {n \in Seqs : HasStatus(n, {"SENDING"})}
  <2>1. outbox' = SetStatus(S, "RETRY") /\ batch' = << >> /\ GiveUp
    BY <1>4 DEF Crash, Restart
  <2>2. \A n \in S : outbox[n] # NoOp /\ Tried(n)
    BY DEF HasStatus, Tried
  <2>3. "RETRY" \in Statuses \ {"PENDING"}
    BY DEF Statuses
  <2> HIDE DEF S
  <2> QED
    BY <2>1, <2>2, <2>3, GivenUpCarries, StatusTriesNothing
<1> QED
  BY <1>1, <1>2, <1>3, <1>4

LEMMA PullTriesNothing ==
  ASSUME SyncInv, [Next]_vars, PullOne \/ ApplyOne \/ ApplySnapshot
  PROVE  NothingTried
<1>1. request' = request /\ orphan' = orphan /\ batch' = batch
  BY DEF PullOne, ApplyOne, ApplySnapshot, EndPull, PullConflict, PullCheck, PullApply,
         SnapshotReplaces
<1>2. /\ \A m \in Seqs : Carries(request', m) => Carries(request, m)
      /\ \A m \in Seqs : Carries(orphan', m) => Carries(request, m) \/ Carries(orphan, m)
  BY <1>1
<1>3. ASSUME NEW change, NEW position, PullConflict(change, position)
      PROVE  NothingTried
  <2> DEFINE latest == Max(WaitingFor(change.entity))
  <2>1. outbox[latest] # NoOp
    BY <1>3, LatestWaits DEF PullConflict, WaitingFor, Waiting, HasStatus
  <2>2. outbox' = SetStatus({latest}, "CONFLICT")
    BY <1>3 DEF PullConflict
  <2> HIDE DEF latest
  <2>3. "CONFLICT" \in Statuses \ {"PENDING"} /\ \A m \in {latest} : outbox[m] # NoOp
    BY <2>1 DEF Statuses
  <2> QED
    BY <1>1, <1>2, <2>2, <2>3, StatusTriesNothing
<1>4. ASSUME NEW change, NEW position, PullApply(change, position)
      PROVE  NothingTried
  <2> DEFINE S == {n \in Seqs : HasStatus(n, {"CONFLICT"}) /\ outbox[n].entity = change.entity}
  <2>1. outbox' = SetStatus(S, "ACKNOWLEDGED") /\ \A n \in S : outbox[n] # NoOp
    BY <1>4 DEF PullApply, HasStatus
  <2> HIDE DEF S
  <2>2. "ACKNOWLEDGED" \in Statuses \ {"PENDING"}
    BY DEF Statuses
  <2> QED
    BY <1>1, <1>2, <2>1, <2>2, StatusTriesNothing
<1>5. CASE ApplySnapshot
  <2>1. \A n \in Seqs : outbox'[n] = NoOp
    BY <1>5 DEF ApplySnapshot, SnapshotReplaces
  <2> QED
    BY <1>1, <2>1, FirstResults DEF NothingTried, Tried, Carries, HasStatus
<1>6. ASSUME NEW change, PullCheck(change)
      PROVE  NothingTried
  BY <1>1, <1>2, <1>6, NothingSent DEF PullCheck, tableVars
<1> QED
  BY <1>3, <1>4, <1>5, <1>6 DEF PullOne, ApplyOne

LEMMA WriteTriesNothing ==
  ASSUME SyncInv, [Next]_vars, UserWrites
  PROVE  NothingTried
<1>1. PICK e, type, payload : Enqueue(e, type, payload)
  BY DEF UserWrites, LocalUpsert, LocalDelete
<1>2. /\ batch' = batch /\ request' = request /\ orphan' = orphan
      /\ \A n \in Seqs : n # issued + 1 => outbox'[n] = outbox[n]
      /\ issued + 1 \in Seqs => outbox'[issued + 1].status = "PENDING"
  BY <1>1 DEF Enqueue, workerVars, UserWrites, netVars, SyncInv, NodeInv, LocalTypeOK
<1>3. \A n \in Seqs : HasStatus(n, {"SENDING", "RETRY"})' => HasStatus(n, {"SENDING", "RETRY"})
  BY <1>2 DEF HasStatus
<1>4. \A n \in Seqs : HasStatus(n, {"PENDING"})' => HasStatus(n, {"PENDING"}) \/ n = issued + 1
  BY <1>2 DEF HasStatus
<1> QED
  BY <1>2, <1>3, <1>4, FirstResults DEF NothingTried, Tried, Carries

LEMMA OthersTryNothing ==
  ASSUME SyncInv, [Next]_vars,
         \/ BeginCycle \/ SkipPush \/ PullGap \/ PullEmpty \/ FetchSnapshot \/ RefuseSnapshot
         \/ ClearSnapshot \/ AbortOne \/ AbandonCycle \/ Expire \/ World \/ Purge
         \/ UNCHANGED vars \/ Serve \/ ServeOrphan
  PROVE  NothingTried
<1>1. request \in Seq(OwnOps) /\ orphan \in Seq(OwnOps)
  BY DEF SyncInv, NetTypeOK
<1>2. CASE Serve \/ ServeOrphan
  <2>1. UNCHANGED <<outbox, batch>>
    BY <1>2 DEF Serve, ServeOrphan, localVars, tableVars, workerVars
  <2>2. /\ request' = request \/ (request # << >> /\ request' = Tail(request))
        /\ orphan' = orphan \/ (orphan # << >> /\ orphan' = Tail(orphan))
    BY <1>2 DEF Serve, ServeOrphan
  <2> QED
    BY <1>1, <2>1, <2>2, TailCarries, NothingSent
<1>3. CASE ~(Serve \/ ServeOrphan)
  <2>1. UNCHANGED <<outbox, batch>> /\ request' = request /\ orphan' = orphan
    BY <1>3
       DEF BeginCycle, SkipPush, PullGap, PullEmpty, FetchSnapshot, RefuseSnapshot,
           ClearSnapshot, AbortOne, AbandonCycle, Expire, World, Purge, vars, localVars, netVars,
           tableVars, workerVars, Quiet, EndPull, StartCycle, NothingToPush, MustResnapshot,
           PullNothing, SnapshotFetched, SnapshotBlocked, SnapshotCleared, PullAborts,
           CycleFails, GrantExpires
  <2> QED
    BY <2>1, NothingSent
<1> QED
  BY <1>2, <1>3

(* The selection is the one step that tries something new.                   *)
LEMMA SelectionInOrder ==
  ASSUME SyncInv, TriesInOrder, [Next]_vars, NEW b \in Batches, BeginPush(b)
  PROVE  TriesInOrder'
<1>1. /\ outbox' = SetStatus(ToSet(b), "SENDING") /\ batch' = b /\ orphan' = orphan
      /\ request' = [k \in DOMAIN b |-> Sent(b[k])]
  BY DEF BeginPush, SelectBatch
<1>2. /\ b \in Seq(Seqs) /\ Len(b) \in Nat
      /\ \A k \in 1 .. Len(b) : HasStatus(b[k], {"PENDING", "RETRY"})
  BY BatchesAreQueued
<1>3. ToSet(b) = {b[k] : k \in 1 .. Len(b)} /\ \A n \in ToSet(b) : outbox[n] # NoOp
  BY <1>2, FoundRowsAreThere DEF ToSet
<1>4. \A n \in Seqs : HasStatus(n, {"PENDING"})' => HasStatus(n, {"PENDING"}) /\ n \notin ToSet(b)
  BY <1>1, <1>3, StatusTries DEF SyncInv, Statuses
<1>5. \A n \in Seqs : HasStatus(n, {"SENDING", "RETRY"})' =>
        HasStatus(n, {"SENDING", "RETRY"}) \/ n \in ToSet(b)
  BY <1>1, <1>3, StatusTries DEF SyncInv, Statuses
<1>6. ASSUME NEW n \in Seqs, Carries(request', n)
      PROVE  n \in ToSet(b)
  <2>1. Len(request') = Len(b) /\ \A k \in 1 .. Len(b) : request'[k] = Sent(b[k])
    BY <1>1, <1>2
  <2>2. PICK k \in 1 .. Len(b) : Sent(b[k]).seq = n
    BY <1>6, <2>1 DEF Carries
  <2> QED
    BY <1>3, <2>2 DEF Sent
<1>7. ASSUME NEW n \in Seqs, Tried(n)'
      PROVE  Tried(n) \/ n \in ToSet(b)
  <2>1. CASE results'[<<Self, n>>] # NoResult
    BY <2>1, FirstResults DEF Tried
  <2>2. CASE HasStatus(n, {"SENDING", "RETRY"})'
    BY <1>5, <2>2 DEF Tried
  <2>3. CASE \E k \in 1 .. Len(batch') : batch'[k] = n
    BY <1>1, <1>3, <2>3
  <2>4. CASE Carries(request', n) \/ Carries(orphan', n)
    BY <1>1, <1>6, <2>4 DEF Tried
  <2> QED
    BY <1>7, <2>1, <2>2, <2>3, <2>4 DEF Tried, Carries
<1> SUFFICES ASSUME NEW m \in Seqs, NEW n \in Seqs, m < n, Tried(n)', HasStatus(m, {"PENDING"})'
             PROVE  FALSE
  BY DEF TriesInOrder
<1>8. HasStatus(m, {"PENDING"}) /\ m \notin ToSet(b)
  BY <1>4
<1>9. n \in ToSet(b)
  BY <1>7, <1>8 DEF TriesInOrder
<1>10. PICK k \in 1 .. Len(b) : b[k] = n
  BY <1>3, <1>9
<1>11. \E j \in 1 .. Len(b) : b[j] = m
  BY <1>8, <1>10, BatchesAscend
<1> QED
  BY <1>3, <1>8, <1>11

LEMMA TriesInOrderStep == SyncInv /\ TraceInv /\ TriesInOrder /\ [Next]_vars => TriesInOrder'
<1> SUFFICES ASSUME SyncInv, TraceInv, TriesInOrder, [Next]_vars
             PROVE  TriesInOrder'
  OBVIOUS
<1>1. CASE \E b \in Batches : BeginPush(b)
  BY <1>1, SelectionInOrder
<1>2. CASE ~ \E b \in Batches : BeginPush(b)
  BY <1>2, OrderIsKept, PushTriesNothing, PullTriesNothing, WriteTriesNothing, OthersTryNothing
     DEF Next, Worker, Mishaps
<1> QED
  BY <1>1, <1>2

LEMMA TriesInOrderInit == Init => TriesInOrder
BY DEF Init, LocalInit, TriesInOrder, HasStatus

(* The centre never decides a write of a row, or of a row attached to it,    *)
(* while an older write of that row waits that was never sent: for no batch  *)
(* size, and whatever is lost, repeated, handled twice, withdrawn by a       *)
(* conflict, emptied by a snapshot or restarted (pushOnce's selection by     *)
(* device_sequence, localSyncWorker.ts).                                     *)
THEOREM TriesKeepOrder == Spec => []HeardInOrder
<1>1. Spec => []TraceInv
  BY TraceInvInit, TraceInvStep, SyncInvariant, PTL DEF Spec
<1>2. Spec => []TriesInOrder
  BY <1>1, TriesInOrderInit, TriesInOrderStep, SyncInvariant, PTL DEF Spec
<1>3. TriesInOrder => HeardInOrder
  BY DEF TriesInOrder, Tried, HeardInOrder
<1> QED
  BY <1>2, <1>3, PTL
-----------------------------------------------------------------------------
(* The rows the node only reads.  Up to the cursor they are those of the     *)
(* centre; what the centre writes after that is news.                        *)

(* The rows in the branches of the node.                                     *)
Mine == Scope[Self]

LEMMA MineAreRows == Mine \subseteq Entities
BY LocalAssumption, BaseAssumption DEF Mine

(* A copy m of row e is what the centre has; no copy, of a row that hangs on *)
(* nothing, when the centre does not show it.                                *)
Holds(m, e) ==
  IF m = NoRow THEN Parent[e] = NoEntity => ~Alive(rows, e)
  ELSE Exists(e) /\ rows[e].content = m.content /\ rows[e].version = m.base

(* The feed has something about row e after this position.                   *)
News(e, from) == \E k \in from + 1 .. Len(feed) : feed[k].entity = e

Follows(m, e, from) == News(e, from) \/ Holds(m, e)

(* A hard row has no deleted_at to set.                                      *)
HardRowsLive == \A e \in Entities \ SoftEntities : Exists(e) => rows[e].content # Deleted

Positions == cursor <= Len(feed) /\ image.cursor <= Len(feed)

(* While the feed is whole: the mirror, the snapshot in hand, and the change *)
(* in hand, which is the next one for this node.                             *)
MirrorFollows ==
  purged = 0 /\ ready => \A e \in Mine : Untouched(e) => Follows(mirror[e], e, cursor)

ImageFollows ==
  purged = 0 /\ phase \in {"check", "replace"} =>
    \A e \in Mine : Follows(image.rows[e], e, image.cursor)

NextInHand ==
  purged = 0 /\ phase = "apply" =>
    \A k \in cursor + 1 .. pulled - 1 : feed[k].entity \notin Mine

ReadInv == HardRowsLive /\ Positions /\ MirrorFollows /\ ImageFollows /\ NextInHand

-----------------------------------------------------------------------------
(* What the centre writes.                                                   *)

LEMMA NewsStays ==
  ASSUME FeedGrows, NEW e, NEW from \in Nat, News(e, from)
  PROVE  News(e, from)'
<1>1. PICK k \in from + 1 .. Len(feed) : feed[k].entity = e
  BY DEF News
<1>2. k \in from + 1 .. Len(feed') /\ k \in 1 .. Len(feed)
  BY DEF FeedGrows
<1> QED
  BY <1>1, <1>2 DEF News, FeedGrows

(* A row the centre changes has news for whoever has read the feed so far.   *)
LEMMA NewsOrSame ==
  ASSUME CentralTypeOK, LedgerStep, NEW e \in Entities, NEW from \in Nat, from <= Len(feed)
  PROVE  News(e, from)' \/ rows'[e] = rows[e]
<1>1. ASSUME NEW version, NEW content, NEW source, NEW tombstone,
             Appended(e, version, content, source, tombstone)
      PROVE  News(e, from)'
  <2>1. Len(feed) + 1 \in from + 1 .. Len(feed') /\ feed'[Len(feed) + 1].entity = e
    BY <1>1 DEF Appended
  <2> QED
    BY <2>1 DEF News
<1>2. ASSUME NEW f \in Entities, NEW row \in Row, NEW source \in Sources,
             WritesRow(f, row, source)
      PROVE  News(e, from)' \/ rows'[e] = rows[e]
  BY <1>1, <1>2, WriteAppends
<1>3. ASSUME NEW f \in Entities, NEW source \in Sources, ErasesRow(f, source)
      PROVE  News(e, from)' \/ rows'[e] = rows[e]
  BY <1>1, <1>3, EraseAppends
<1>4. ASSUME NEW i \in OpIds, RepeatsTombstone(i)
      PROVE  rows'[e] = rows[e]
  BY <1>4 DEF RepeatsTombstone
<1> QED
  BY <1>2, <1>3, <1>4 DEF LedgerStep

(* So a copy that followed the centre follows it still.                      *)
LEMMA FollowsOn ==
  ASSUME SyncInv, [Next]_vars, NEW e \in Entities, NEW from \in Nat, from <= Len(feed),
         NEW m, Follows(m, e, from)
  PROVE  News(e, from)' \/ Holds(m, e)'
<1>1. CentralTypeOK /\ LedgerStep /\ FeedGrows
  BY StepsOfTheWhole, CentreStepsAreCentral, StepsOfTheLedger
     DEF SyncInv, CentreInv, CentralInv
<1>2. CASE News(e, from)
  BY <1>1, <1>2, NewsStays
<1>3. CASE Holds(m, e) /\ rows'[e] = rows[e]
  BY <1>3 DEF Holds, Alive, Exists
<1> QED
  BY <1>1, <1>2, <1>3, NewsOrSame DEF Follows

OthersKept(e) == \A f \in Entities \ {e} : rows'[f] = rows[f]

RowWritten ==
  \/ UNCHANGED rows
  \/ \E e \in Entities : OthersKept(e) /\ (Exists(e)' => rows'[e].content \in ContentsOf(e))

LEMMA WriteIsOfItsTable ==
  ASSUME CentralTypeOK, NEW e \in Entities, NEW row \in Row, NEW source,
         Write(e, row, source), row.content \in ContentsOf(e)
  PROVE  RowWritten
<1>1. rows' = [rows EXCEPT ![e] = row]
  BY DEF Write
<1>2. rows'[e] = row /\ OthersKept(e)
  BY <1>1 DEF CentralTypeOK, OthersKept
<1> QED
  BY <1>2 DEF RowWritten

LEMMA EraseIsOfItsTable ==
  ASSUME CentralTypeOK, NEW e \in Entities, NEW source, Erase(e, source)
  PROVE  RowWritten
<1>1. rows' = [rows EXCEPT ![e] = NoRow]
  BY DEF Erase
<1>2. rows'[e] = NoRow /\ OthersKept(e)
  BY <1>1 DEF CentralTypeOK, OthersKept
<1> QED
  BY <1>2 DEF RowWritten, Exists

LEMMA PushIsOfItsTable ==
  ASSUME CentralTypeOK, NEW op \in Operation, Push(op),
         op.type = "UPSERT" => op.payload \in ContentsOf(op.entity)
  PROVE  RowWritten
<1> DEFINE e == op.entity
<1>1. /\ e \in Entities /\ op.device \in Sources /\ op.payload \in Contents /\ op.seq \in Nat
      /\ op.device \in Devices
  BY DEF Operation, Sources
<1>2. CASE InsertRow(op)
  <2> DEFINE row == [content |-> op.payload, version |-> 0,
                     origin |-> op.device, lastSeq |-> op.seq]
  <2>1. row \in Row /\ row.content \in ContentsOf(e)
    BY <1>1, <1>2 DEF Row, InsertRow
  <2>2. Write(e, row, op.device)
    BY <1>2 DEF InsertRow
  <2> HIDE DEF row
  <2> QED
    BY <1>1, <2>1, <2>2, WriteIsOfItsTable
<1>3. ASSUME NEW content \in ContentsOf(e), Exists(e),
             Write(e, Stamped(Bumped(rows[e]), content, op), op.device)
      PROVE  RowWritten
  <2> DEFINE row == Stamped(Bumped(rows[e]), content, op)
  <2>1. rows[e] \in Row /\ content \in Contents
    BY <1>1, <1>3 DEF Exists, CentralTypeOK, ContentsOf
  <2>2. row \in Row
    BY <1>1, <2>1, StampedRow
  <2>3. row.content = content
    BY <2>1 DEF Stamped, Bumped, Row
  <2>4. Write(e, row, op.device)
    BY <1>3
  <2> HIDE DEF row
  <2> QED
    BY <1>1, <2>2, <2>3, <2>4, WriteIsOfItsTable
<1>4. CASE UpdateRow(op)
  BY <1>3, <1>4 DEF UpdateRow
<1>5. CASE SoftDelete(op)
  BY <1>3, <1>5, BaseAssumption DEF SoftDelete, ContentsOf
<1>6. CASE HardDelete(op)
  BY <1>1, <1>6, EraseIsOfItsTable DEF HardDelete
<1>7. CASE ParkDependency(op) \/ RejectScope(op) \/ RaiseConflict(op) \/ KeepRow(op)
           \/ DeleteNothing(op) \/ ProcessingFails(op)
  BY <1>7
     DEF ParkDependency, RejectScope, RaiseConflict, KeepRow, DeleteNothing, ProcessingFails,
         RowWritten
<1> QED
  BY <1>2, <1>4, <1>5, <1>6, <1>7 DEF Push

LEMMA ScreenIsOfItsTable ==
  ASSUME CentralTypeOK, NEW e \in Entities, CentralEdit(e) \/ CentralRevive(e)
  PROVE  RowWritten
<1>1. CASE CentralInsert(e)
  <2>1. PICK content \in Contents :
          /\ ScreenMayWrite(rows, e, content)
          /\ Write(e, [content |-> content, version |-> 0, origin |-> NoDevice, lastSeq |-> 0],
                   NoDevice)
    BY <1>1 DEF CentralInsert
  <2> DEFINE row == [content |-> content, version |-> 0, origin |-> NoDevice, lastSeq |-> 0]
  <2>2. row \in Row /\ row.content = content /\ Write(e, row, NoDevice)
    BY <2>1 DEF Row, Sources
  <2>3. content \in ContentsOf(e)
    BY <2>1 DEF ScreenMayWrite, ContentsOf
  <2> HIDE DEF row
  <2> QED
    BY <2>2, <2>3, WriteIsOfItsTable
<1>2. ASSUME NEW content \in ContentsOf(e), Exists(e), Reword(e, content)
      PROVE  RowWritten
  <2> DEFINE row == [Bumped(rows[e]) EXCEPT !.content = content]
  <2>1. rows[e] \in Row /\ content \in Contents
    BY <1>2 DEF Exists, CentralTypeOK, ContentsOf
  <2>2. Bumped(rows[e]) \in Row
    BY <2>1, BumpedRow
  <2>3. row \in Row /\ row.content = content
    BY <2>1, <2>2 DEF Row
  <2>4. Write(e, row, NoDevice)
    BY <1>2 DEF Reword
  <2> HIDE DEF row
  <2> QED
    BY <2>3, <2>4, WriteIsOfItsTable
<1>3. CASE CentralUpdate(e)
  BY <1>2, <1>3 DEF CentralUpdate, ScreenMayWrite, Exists, ContentsOf
<1>4. CASE CentralRevive(e)
  BY <1>2, <1>4 DEF CentralRevive, ContentsOf
<1>5. CASE CentralDelete(e)
  BY <1>5, EraseIsOfItsTable DEF CentralDelete
<1> QED
  BY <1>1, <1>3, <1>4, <1>5 DEF CentralEdit

LEMMA ReviewIsOfItsTable ==
  ASSUME CentralTypeOK, NEW i \in OpIds, ResolveSyncConflict(i)
  PROVE  RowWritten
<1>1. CASE KeepGone(i)
  BY <1>1 DEF KeepGone, RowWritten
<1>2. CASE ReviewRow(i)
  <2>1. i[1] \in Devices /\ conflicts[i].entity \in Entities
    BY <1>2 DEF ReviewRow, IsOpen, CentralTypeOK, Conflict, OpIds
  <2>2. PICK e \in Entities : e = conflicts[i].entity
    BY <2>1
  <2>3. PICK content \in ContentsOf(e) : ResolveWith(i, content)
    BY <1>2, <2>2 DEF ReviewRow
  <2>4. content \in Contents
    BY DEF ContentsOf
  <2> DEFINE row == ReviewedRow(e, content, i[1])
  <2>5. row \in Row
    BY <2>1, <2>4, ReviewedRowTyped
  <2>6. row.content = content
    <3>1. Exists(e) => Bumped(rows[e]) \in Row
      BY <2>2, BumpedRow DEF Exists, CentralTypeOK
    <3> QED
      BY <3>1 DEF ReviewedRow, Row
  <2>7. Write(e, row, i[1])
    BY <2>2, <2>3 DEF ResolveWith
  <2> HIDE DEF row
  <2> QED
    BY <2>5, <2>6, <2>7, WriteIsOfItsTable
<1> QED
  BY <1>1, <1>2 DEF ResolveSyncConflict

LEMMA HardRowsStayLive ==
  ASSUME SyncInv, [Next]_vars, HardRowsLive
  PROVE  HardRowsLive'
<1>1. CentralTypeOK /\ CentreStep
  BY StepsOfTheWhole DEF SyncInv, CentreInv, CentralInv
<1>2. RowWritten
  <2>1. CASE \E op \in OwnOps : Push(op)
    BY <1>1, <2>1, PushIsOfItsTable DEF OwnOps
  <2>2. CASE \E op \in Others : Push(op)
    BY <1>1, <2>2, OthersOps, PushIsOfItsTable
  <2>3. CASE \/ UNCHANGED centralVars
             \/ \E op \in OwnOps : ReplayFails(op)
             \/ \E d \in Devices : SetDevice(d)
    BY <2>3 DEF centralVars, ReplayFails, SetDevice, RowWritten
  <2> QED
    BY <1>1, <2>1, <2>2, <2>3, ScreenIsOfItsTable, ReviewIsOfItsTable DEF CentreStep
<1> SUFFICES ASSUME NEW f \in Entities \ SoftEntities, Exists(f)'
             PROVE  rows'[f].content # Deleted
  BY DEF HardRowsLive
<1>3. CASE rows'[f] = rows[f]
  BY <1>3 DEF HardRowsLive, Exists
<1>4. CASE rows'[f].content \in ContentsOf(f)
  BY <1>4 DEF ContentsOf
<1> QED
  BY <1>2, <1>3, <1>4 DEF RowWritten, OthersKept
-----------------------------------------------------------------------------
(* What the node does to a row it has not written.                           *)

KeepsOps ==
  \A n \in Seqs : outbox[n] # NoOp => outbox'[n] # NoOp /\ outbox'[n].entity = outbox[n].entity

LEMMA StatusKeepsOps ==
  ASSUME NodeInv, NEW S, \A n \in S : outbox[n] # NoOp, NEW status \in Statuses,
         outbox' = SetStatus(S, status), issued' = issued
  PROVE  KeepsOps
BY StatusSet DEF NodeInv, LocalTypeOK, OutboxType, SameOps, KeepsOps

LEMMA TouchedStays ==
  ASSUME KeepsOps, NEW e, Untouched(e)'
  PROVE  Untouched(e)
BY DEF KeepsOps, Untouched

SparesRows ==
  /\ KeepsOps /\ cursor' = cursor /\ ready' = ready
  /\ \A e \in Entities : Untouched(e)' => mirror'[e] = mirror[e]

LEMMA DeliverSparesRows ==
  ASSUME SyncInv, Deliver
  PROVE  SparesRows
<1>1. HandleResult(answers[handled + 1])
  BY DEF Deliver
<1>2. PICK n : n = batch[handled + 1]
  OBVIOUS
<1>3. n \in Seqs /\ outbox[n] # NoOp
  <2>1. handled + 1 \in 1 .. Len(batch)
    BY <1>1 DEF HandleResult, SyncInv, NodeInv, LocalTypeOK
  <2> QED
    BY <1>2, <2>1 DEF SyncInv, NodeInv, LocalTypeOK, BatchInHand
<1>4. PICK e \in Entities : e = outbox[n].entity
  BY <1>3 DEF SyncInv, NodeInv, LocalTypeOK, OutboxOp
<1>5. /\ issued' = issued /\ cursor' = cursor /\ ready' = ready
      /\ \E status \in Statuses : outbox' = SetStatus({n}, status)
      /\ mirror' = mirror \/ \E row : mirror' = [mirror EXCEPT ![e] = row]
  BY <1>1, <1>2, <1>4 DEF HandleResult, stateVars, Statuses
<1>6. KeepsOps
  BY <1>3, <1>5, StatusKeepsOps DEF SyncInv
<1>7. ~Untouched(e)'
  BY <1>3, <1>4, <1>6, TouchedStays DEF Untouched
<1>8. \A f \in Entities : f # e => mirror'[f] = mirror[f]
  BY <1>5 DEF SyncInv, NodeInv, LocalTypeOK
<1> QED
  BY <1>5, <1>6, <1>7, <1>8 DEF SparesRows

LEMMA WriteSparesRows ==
  ASSUME SyncInv, UserWrites
  PROVE  SparesRows
<1>0. /\ mirror \in [Entities -> MirrorRow \cup {NoRow}]
      /\ outbox \in [Seqs -> OutboxOp \cup {NoOp}] /\ issued \in Nat
      /\ \A n \in Seqs : outbox[n] # NoOp => n <= issued
  BY DEF SyncInv, NodeInv, LocalTypeOK, OutboxIsIssued
<1>1. PICK e \in Entities : (\E c \in Contents : LocalUpsert(e, c)) \/ LocalDelete(e)
  BY DEF UserWrites
<1>2. /\ \E type \in {"UPSERT", "DELETE"}, payload \in Contents : Enqueue(e, type, payload)
      /\ \E row : mirror' = [mirror EXCEPT ![e] = row]
  BY <1>0, <1>1 DEF LocalUpsert, LocalDelete, MirrorRow
<1>3. PICK type \in {"UPSERT", "DELETE"}, payload \in Contents : Enqueue(e, type, payload)
  BY <1>2
<1> DEFINE op == [entity |-> e, type |-> type, payload |-> payload, base |-> BaseOf(e),
                  status |-> "PENDING"]
<1>4. /\ issued + 1 \in Seqs /\ outbox' = [outbox EXCEPT ![issued + 1] = op]
      /\ cursor' = cursor /\ ready' = ready
  BY <1>0, <1>3, BaseAssumption DEF Enqueue, stateVars, Seqs
<1>5. BaseOf(e) \in Nat
  BY <1>0 DEF BaseOf, MirrorRow
<1>6. op \in OutboxOp /\ op.entity = e
  BY <1>5 DEF OutboxOp, Statuses
<1> HIDE DEF op
<1>7. /\ outbox'[issued + 1] = op /\ op # NoOp
      /\ \A n \in Seqs : n # issued + 1 => outbox'[n] = outbox[n]
  BY <1>0, <1>4, <1>6, LocalAssumption
<1>8. KeepsOps
  <2>1. \A n \in Seqs : outbox[n] # NoOp => n # issued + 1
    BY <1>0 DEF Seqs
  <2> QED
    BY <1>7, <2>1 DEF KeepsOps
<1>9. ~Untouched(e)'
  BY <1>4, <1>6, <1>7 DEF Untouched
<1>10. \A f \in Entities : f # e => mirror'[f] = mirror[f]
  BY <1>0, <1>2
<1> QED
  BY <1>4, <1>8, <1>9, <1>10 DEF SparesRows

(* The steps that write the mirror of a row the node only reads are the      *)
(* application of a change and of a snapshot.                                *)
LEMMA StepsOfTheRows ==
  ASSUME SyncInv, [Next]_vars
  PROVE  SparesRows \/ PullOne \/ ApplyOne \/ ApplySnapshot
<1>1. CASE (\E b \in Batches : BeginPush(b)) \/ LosePush \/ Crash
  <2>1. /\ UNCHANGED <<mirror, issued, cursor, ready>>
        /\ \E S \in SUBSET Seqs, status \in Statuses :
             (\A n \in S : outbox[n] # NoOp) /\ outbox' = SetStatus(S, status)
    <3>1. ASSUME NEW b \in Batches, BeginPush(b)
          PROVE  /\ \A n \in ToSet(b) : outbox[n] # NoOp
                 /\ ToSet(b) \in SUBSET Seqs
                 /\ outbox' = SetStatus(ToSet(b), "SENDING")
                 /\ UNCHANGED <<mirror, issued, cursor, ready>>
      <4>1. /\ b \in Seq(Seqs) /\ \A k \in 1 .. Len(b) : outbox[b[k]] # NoOp
        BY BatchesAreQueued, FoundRowsAreThere
      <4>2. ToSet(b) = {b[k] : k \in 1 .. Len(b)}
        BY <4>1 DEF ToSet
      <4> QED
        BY <3>1, <4>1, <4>2 DEF BeginPush, SelectBatch, stateVars
    <3>2. ASSUME LosePush
          PROVE  /\ \A n \in ToSet(batch) : outbox[n] # NoOp
                 /\ ToSet(batch) \in SUBSET Seqs
                 /\ outbox' = SetStatus(ToSet(batch), "RETRY")
                 /\ UNCHANGED <<mirror, issued, cursor, ready>>
      <4>1. /\ batch \in Seq(Seqs) /\ \A k \in 1 .. Len(batch) : outbox[batch[k]] # NoOp
        BY DEF SyncInv, NodeInv, LocalTypeOK, BatchInHand
      <4>2. ToSet(batch) = {batch[k] : k \in 1 .. Len(batch)}
        BY <4>1 DEF ToSet
      <4> QED
        BY <3>2, <4>1, <4>2 DEF LosePush, BatchFails, stateVars
    <3>3. ASSUME Crash
          PROVE  /\ outbox' = SetStatus({n \in Seqs : HasStatus(n, {"SENDING"})}, "RETRY")
                 /\ UNCHANGED <<mirror, issued, cursor, ready>>
      BY <3>3 DEF Crash, Restart, stateVars
    <3>4. \A n \in {m \in Seqs : HasStatus(m, {"SENDING"})} : outbox[n] # NoOp
      BY DEF HasStatus
    <3>5. "RETRY" \in Statuses /\ "SENDING" \in Statuses
      BY DEF Statuses
    <3> QED
      BY <1>1, <3>1, <3>2, <3>3, <3>4, <3>5
  <2>2. KeepsOps
    BY <2>1, StatusKeepsOps DEF SyncInv
  <2> QED
    BY <2>1, <2>2 DEF SparesRows
<1>2. CASE \/ BeginCycle \/ SkipPush \/ PullGap \/ PullEmpty \/ FetchSnapshot \/ RefuseSnapshot
           \/ ClearSnapshot \/ EndPush \/ AbortOne \/ AbandonCycle \/ Expire \/ World \/ Purge
           \/ UNCHANGED vars \/ Serve \/ ServeOrphan
  <2>1. UNCHANGED <<mirror, outbox, cursor, ready>>
    BY <1>2
       DEF BeginCycle, SkipPush, PullGap, PullEmpty, FetchSnapshot, RefuseSnapshot, EndPush,
           ClearSnapshot, AbortOne, AbandonCycle, Expire, World, Purge, vars, localVars,
           tableVars, stateVars, StartCycle, NothingToPush, MustResnapshot, PullNothing,
           SnapshotFetched, SnapshotBlocked, SnapshotCleared, FinishPush, PullAborts,
           CycleFails, GrantExpires, Serve, ServeOrphan
  <2> QED
    BY <2>1 DEF SparesRows, KeepsOps
<1> QED
  BY <1>1, <1>2, DeliverSparesRows, WriteSparesRows DEF Next, Worker, Mishaps

(* How the node comes to have a snapshot in hand.                            *)
LEMMA StepsOfTheImage ==
  ASSUME [Next]_vars
  PROVE  /\ phase' \in {"check", "replace"} =>
              FetchSnapshot \/ (phase \in {"check", "replace"} /\ image' = image)
         /\ image' = image \/ image' = NoImage \/ FetchSnapshot
<1>1. CASE Worker
  BY <1>1
     DEF Worker, BeginCycle, SkipPush, BeginPush, Deliver, EndPush, PullGap, PullEmpty,
         PullOne, ApplyOne, EndPull, RefuseSnapshot, ClearSnapshot, ApplySnapshot, Quiet,
         StartCycle, NothingToPush, SelectBatch, HandleResult, FinishPush, AfterPush,
         MustResnapshot, PullNothing, PullConflict, PullCheck, PullApply, SnapshotBlocked,
         SnapshotCleared, SnapshotReplaces, netVars
<1>2. CASE Mishaps
  BY <1>2
     DEF Mishaps, LosePush, BatchFails, AfterPush, AbortOne, PullAborts, AbandonCycle,
         CycleFails, Crash, Restart, EndPull, Quiet, netVars
<1>3. CASE Serve \/ ServeOrphan \/ UserWrites \/ Expire \/ World \/ Purge \/ UNCHANGED vars
  BY <1>3
     DEF Serve, ServeOrphan, UserWrites, LocalUpsert, LocalDelete, Enqueue, Expire,
         GrantExpires, World, Purge, vars, localVars, workerVars, netVars
<1> QED
  BY <1>1, <1>2, <1>3 DEF Next

LEMMA PurgedStays == [Next]_vars /\ SyncInv /\ purged' = 0 => purged = 0
<1> SUFFICES ASSUME [Next]_vars, SyncInv, purged' = 0
             PROVE  purged = 0
  OBVIOUS
<1>0. purged \in Nat
  BY DEF SyncInv, NetTypeOK
<1>1. CASE Purge
  BY <1>0, <1>1 DEF Purge
<1>2. CASE ~Purge
  <2>1. purged' = purged
    BY <1>2
       DEF Next, Worker, BeginCycle, SkipPush, BeginPush, Deliver, EndPush, PullGap,
           PullEmpty, PullOne, ApplyOne, EndPull, FetchSnapshot, RefuseSnapshot, ClearSnapshot,
           ApplySnapshot, Quiet, Mishaps, LosePush, AbortOne, AbandonCycle, Crash, Serve,
           ServeOrphan, UserWrites, Expire, World, vars, netVars
  <2> QED
    BY <2>1
<1> QED
  BY <1>1, <1>2

-----------------------------------------------------------------------------
(* How far the node has read.                                                *)

LEMMA PositionsStep ==
  ASSUME SyncInv, [Next]_vars, Positions
  PROVE  Positions'
<1>0. /\ FeedGrows /\ cursor \in Nat /\ pulled \in Nat /\ Len(feed) \in Nat
      /\ image.cursor \in Nat
  BY StepsOfTheWhole, StepsOfTheCentre, CentreInvStep
     DEF SyncInv, NodeInv, LocalTypeOK, NetTypeOK, ImageType, FeedGrows
<1>1. image'.cursor <= Len(feed')
  <2>1. CASE image' = image
    BY <1>0, <2>1 DEF FeedGrows, Positions
  <2>2. CASE image' = NoImage
    BY <1>0, <2>2 DEF NoImage, FeedGrows
  <2>3. CASE FetchSnapshot
    <3>1. image'.cursor = (IF purged < Len(feed) THEN Len(feed) ELSE 0)
      BY <2>3 DEF FetchSnapshot
    <3> QED
      BY <1>0, <3>1 DEF FeedGrows
  <2> QED
    BY <2>1, <2>2, <2>3, StepsOfTheImage
<1>2. cursor' <= Len(feed')
  <2>1. CASE cursor' = cursor
    BY <1>0, <2>1 DEF FeedGrows, Positions
  <2>2. CASE ApplySnapshot
    BY <1>0, <2>2 DEF ApplySnapshot, SnapshotReplaces, FeedGrows, Positions
  <2>3. CASE PullOne /\ cursor' = Min(Ahead)
    <3>1. Min(Ahead) \in 1 .. Len(feed)
      BY <1>0, <2>3, FirstAhead DEF PullOne
    <3> QED
      BY <1>0, <2>3, <3>1 DEF FeedGrows
  <2>4. CASE phase = "apply" /\ cursor' = pulled
    BY <1>0, <2>4 DEF SyncInv, NetTypeOK, FeedGrows
  <2>5. CASE SparesRows
    BY <2>1, <2>5 DEF SparesRows
  <2>6. CASE ApplyOne
    BY <2>4, <2>6 DEF ApplyOne, PullApply
  <2>7. CASE PullOne
    <3>1. phase # "replace"
      BY <2>7 DEF PullOne, PullConflict, PullCheck
    <3> QED
      BY <2>1, <2>3, <2>4, <2>7, <3>1, StepsOfTheCursor DEF SyncInv
  <2> QED
    BY <2>2, <2>5, <2>6, <2>7, StepsOfTheRows
<1> QED
  BY <1>1, <1>2 DEF Positions

(* The first change ahead: nothing of this node's is passed over.            *)
LEMMA NothingPassedOver ==
  ASSUME SyncInv, Ahead # {}, purged = 0
  PROVE  /\ Min(Ahead) \in 1 .. Len(feed)
         /\ \A j \in cursor + 1 .. Min(Ahead) - 1 : feed[j].entity \notin Mine
<1>0. cursor \in Nat /\ Len(feed) \in Nat
  BY DEF SyncInv, NodeInv, LocalTypeOK, CentreInv, CentralInv, CentralTypeOK
<1>1. PICK k : k = Min(Ahead)
  OBVIOUS
<1>2. k \in Ahead /\ k \in 1 .. Len(feed) /\ \A j \in Ahead : k <= j
  BY <1>0, <1>1, FirstAhead
<1>3. ASSUME NEW j \in cursor + 1 .. k - 1, feed[j].entity \in Mine
      PROVE  FALSE
  <2>1. j \in cursor + 1 .. Len(feed) /\ j > 0 /\ j < k
    BY <1>0, <1>2
  <2>2. j \in Ahead
    BY <1>3, <2>1 DEF Ahead, Mine
  <2> QED
    BY <1>2, <2>1, <2>2
<1> QED
  BY <1>1, <1>2, <1>3

LEMMA NextInHandStep ==
  ASSUME SyncInv, [Next]_vars, NextInHand
  PROVE  NextInHand'
<1> SUFFICES ASSUME purged' = 0, phase' = "apply", NEW k \in cursor' + 1 .. pulled' - 1
             PROVE  feed'[k].entity \notin Mine
  BY DEF NextInHand, Mine
<1>0. /\ FeedGrows /\ cursor \in Nat /\ pulled \in Nat /\ Len(feed) \in Nat /\ purged = 0
  BY StepsOfTheCentre, CentreInvStep, PurgedStays
     DEF SyncInv, NodeInv, LocalTypeOK, NetTypeOK, FeedGrows
<1>1. CASE phase = "apply" /\ cursor' = cursor /\ pulled' = pulled
  <2>1. pulled \in 1 .. Len(feed)
    BY <1>1 DEF SyncInv, NetTypeOK
  <2>2. k \in 1 .. Len(feed) /\ feed[k].entity \notin Mine
    BY <1>0, <1>1, <2>1 DEF NextInHand
  <2> QED
    BY <1>0, <2>2 DEF FeedGrows
<1>2. CASE PullOne /\ cursor' = cursor /\ pulled' = Min(Ahead)
  <2>1. Ahead # {}
    BY <1>2 DEF PullOne
  <2>2. Min(Ahead) \in 1 .. Len(feed) /\ feed[k].entity \notin Mine
    BY <1>0, <1>2, <2>1, NothingPassedOver
  <2>3. k \in 1 .. Len(feed)
    BY <1>0, <1>2, <2>2
  <2> QED
    BY <1>0, <2>2, <2>3 DEF FeedGrows
<1> QED
  BY <1>1, <1>2, StepsOfTheCursor DEF SyncInv

(* The cursor passes the change in hand, and no other of this node.          *)
LEMMA NewsBeyond ==
  ASSUME cursor \in Nat, NEW k \in 1 .. Len(feed), NEW f \in Mine, f # feed[k].entity,
         \A j \in cursor + 1 .. k - 1 : feed[j].entity \notin Mine, News(f, cursor)
  PROVE  News(f, k)
<1>1. PICK j \in cursor + 1 .. Len(feed) : feed[j].entity = f
  BY DEF News
<1>2. j # k /\ j \notin cursor + 1 .. k - 1
  BY <1>1
<1>3. j \in k + 1 .. Len(feed)
  BY <1>1, <1>2
<1> QED
  BY <1>1, <1>3 DEF News

(* What a pull does to the rows it is not about.                             *)
LEMMA PulledFollows ==
  ASSUME SyncInv, MirrorFollows, KeepsOps, UNCHANGED <<rows, feed, purged, ready>>,
         NEW k \in 1 .. Len(feed), cursor' = k, NEW e, e = feed[k].entity,
         purged = 0 => \A j \in cursor + 1 .. k - 1 : feed[j].entity \notin Mine,
         \A f \in Entities \ {e} : mirror'[f] = mirror[f],
         e \in Mine /\ Untouched(e)' => Follows(mirror[e], e, cursor)'
  PROVE  MirrorFollows'
<1> SUFFICES ASSUME purged = 0, ready, NEW f \in Mine, Untouched(f)'
             PROVE  Follows(mirror[f], f, cursor)'
  BY DEF MirrorFollows, Mine
<1>1. CASE f = e
  BY <1>1
<1>2. CASE f # e
  <2>1. Untouched(f) /\ mirror'[f] = mirror[f] /\ cursor \in Nat
    BY <1>2, TouchedStays, MineAreRows DEF SyncInv, NodeInv, LocalTypeOK
  <2>2. News(f, cursor) => News(f, k)
    BY <1>2, <2>1, NewsBeyond
  <2>3. News(f, k) \/ Holds(mirror[f], f)
    BY <2>1, <2>2 DEF MirrorFollows, Follows
  <2> QED
    BY <2>1, <2>3 DEF Follows, News, Holds, Alive, Exists
<1> QED
  BY <1>1, <1>2

(* The node leaves a change out for a row it has written itself.             *)
LEMMA PullFollows ==
  ASSUME SyncInv, [Next]_vars, MirrorFollows, PullOne
  PROVE  MirrorFollows'
<1>0. /\ UNCHANGED <<rows, feed, purged>> /\ Ahead # {} /\ cursor \in Nat /\ Len(feed) \in Nat
  BY DEF PullOne, EndPull, centralVars, SyncInv, NodeInv, LocalTypeOK, CentreInv, CentralInv,
         CentralTypeOK
<1>1. PICK k : k = Min(Ahead)
  OBVIOUS
<1>2. /\ k \in 1 .. Len(feed)
      /\ purged = 0 => \A j \in cursor + 1 .. k - 1 : feed[j].entity \notin Mine
  BY <1>0, <1>1, FirstAhead, NothingPassedOver
<1>3. CASE PullConflict(feed[k], k) /\ EndPull
  <2>1. PICK e : e = feed[k].entity
    OBVIOUS
  <2>2. PICK latest \in WaitingFor(e) : outbox' = SetStatus({latest}, "CONFLICT")
    BY <1>3, <2>1, LatestWaits DEF PullConflict, SyncInv
  <2>3. cursor' = k /\ UNCHANGED <<mirror, issued, ready>>
    BY <1>3 DEF PullConflict
  <2>4. latest \in Seqs /\ outbox[latest] # NoOp /\ outbox[latest].entity = e
    BY <2>2 DEF WaitingFor, Waiting, HasStatus
  <2>5. KeepsOps
    BY <2>2, <2>3, <2>4, StatusKeepsOps DEF SyncInv, Statuses
  <2>6. ~Untouched(e)'
    BY <2>4, <2>5, TouchedStays DEF Untouched
  <2> QED
    BY <1>0, <1>2, <2>1, <2>3, <2>5, <2>6, PulledFollows
<1>4. CASE PullCheck(feed[k])
  <2>1. UNCHANGED <<mirror, outbox, cursor, ready>>
    BY <1>4 DEF PullCheck, tableVars, stateVars
  <2> QED
    BY <1>0, <2>1
       DEF MirrorFollows, Follows, News, Holds, Alive, Exists, Untouched, Mine
<1> QED
  BY <1>1, <1>3, <1>4 DEF PullOne

(* The last entry about a row makes the copy what the centre has.            *)
LEMMA LastEntryHolds ==
  ASSUME SyncInv, HardRowsLive, NEW k \in 1 .. Len(feed), ~News(feed[k].entity, k),
         ~ApplyThrows(feed[k].entity, feed[k].content)
  PROVE  Holds(Authoritative(feed[k].entity, feed[k].content, feed[k].version,
                             feed[k].tombstone), feed[k].entity)
<1>1. PICK change, e : change = feed[k] /\ e = change.entity
  OBVIOUS
<1>2. change \in FeedEntry /\ e \in Entities
  <2>1. change \in FeedEntry
    BY <1>1 DEF SyncInv, CentreInv, CentralInv, CentralTypeOK
  <2> QED
    BY <1>1, <2>1 DEF FeedEntry
<1>3. LastAbout(k, e)
  <2>1. ASSUME NEW j \in 1 .. Len(feed), feed[j].entity = e, ~(j <= k)
        PROVE  FALSE
    <3>1. j \in k + 1 .. Len(feed)
      BY <2>1
    <3> QED
      BY <1>1, <2>1, <3>1 DEF News
  <2> QED
    BY <1>1, <2>1 DEF LastAbout
<1>4. PICK row : row = Authoritative(e, change.content, change.version, change.tombstone)
  OBVIOUS
<1>5. CASE Exists(e)
  <2>1. PICK j \in 1 .. Len(feed) :
          /\ LastAbout(j, e) /\ ~feed[j].tombstone
          /\ feed[j].content = rows[e].content /\ feed[j].version = rows[e].version
    BY <1>2, <1>5 DEF SyncInv, CentreInv, FeedRebuildsRows
  <2>2. j = k
    BY <1>3, <2>1 DEF LastAbout
  <2>3. /\ change.tombstone = FALSE /\ change.content = rows[e].content
        /\ change.version = rows[e].version
    BY <1>1, <1>2, <2>1, <2>2 DEF FeedEntry
  <2>4. ~(change.content = Deleted /\ e \notin SoftEntities)
    BY <1>2, <1>5, <2>3 DEF HardRowsLive
  <2>5. row = [content |-> rows[e].content, base |-> rows[e].version]
    BY <1>4, <2>3, <2>4 DEF Authoritative
  <2>6. rows[e] \in Row
    BY <1>2, <1>5 DEF Exists, SyncInv, CentreInv, CentralInv, CentralTypeOK
  <2>7. row \in MirrorRow
    BY <2>5, <2>6 DEF Row, MirrorRow
  <2>8. row # NoRow
    BY <2>7, LocalAssumption
  <2> QED
    BY <1>1, <1>4, <1>5, <2>5, <2>8 DEF Holds
<1>6. CASE ~Exists(e)
  <2>1. change.tombstone /\ e \notin SoftEntities
    BY <1>1, <1>2, <1>3, <1>6 DEF SyncInv, CentreInv, FeedRebuildsRows, TombstonesAreHard
  <2>2. row = NoRow
    BY <1>4, <2>1 DEF Authoritative
  <2> QED
    BY <1>1, <1>4, <1>6, <2>2 DEF Holds, Alive, Exists
<1> QED
  BY <1>5, <1>6

LEMMA ApplyFollows ==
  ASSUME SyncInv, [Next]_vars, HardRowsLive, NextInHand, MirrorFollows, ApplyOne
  PROVE  MirrorFollows'
<1>1. /\ phase = "apply" /\ EndPull /\ UNCHANGED <<issued, ready>>
      /\ UNCHANGED <<rows, feed, purged>>
  BY DEF ApplyOne, PullApply, EndPull, centralVars
<1>2. PICK k, e : k = pulled /\ e = feed[k].entity
  OBVIOUS
<1>3. k \in 1 .. Len(feed) /\ cursor' = k /\ e \in Entities
  <2>1. k \in 1 .. Len(feed) /\ cursor' = k
    BY <1>1, <1>2 DEF ApplyOne, PullApply, SyncInv, NetTypeOK
  <2>2. feed[k] \in FeedEntry
    BY <2>1 DEF SyncInv, CentreInv, CentralInv, CentralTypeOK
  <2> QED
    BY <1>2, <2>1, <2>2 DEF FeedEntry
<1>4. PICK S : /\ outbox' = SetStatus(S, "ACKNOWLEDGED")
               /\ S = {n \in Seqs : HasStatus(n, {"CONFLICT"}) /\ outbox[n].entity = e}
  BY <1>2 DEF ApplyOne, PullApply
<1>5. \A n \in S : outbox[n] # NoOp
  BY <1>4 DEF HasStatus
<1>6. KeepsOps
  BY <1>1, <1>4, <1>5, StatusKeepsOps DEF SyncInv, Statuses
<1>7. PICK row : row = Authoritative(e, feed[k].content, feed[k].version, feed[k].tombstone)
  OBVIOUS
<1>8. mirror' = [mirror EXCEPT ![e] = row] /\ ~ApplyThrows(e, feed[k].content)
  BY <1>2, <1>7 DEF ApplyOne, PullApply
<1>9. mirror'[e] = row /\ \A f \in Entities \ {e} : mirror'[f] = mirror[f]
  BY <1>3, <1>8 DEF SyncInv, NodeInv, LocalTypeOK
<1>10. News(e, k) \/ Holds(row, e)
  BY <1>2, <1>3, <1>7, <1>8, LastEntryHolds
<1>11. Follows(mirror[e], e, cursor)'
  BY <1>1, <1>3, <1>9, <1>10 DEF Follows, News, Holds, Alive, Exists
<1>12. purged = 0 => \A j \in cursor + 1 .. k - 1 : feed[j].entity \notin Mine
  BY <1>1, <1>2 DEF NextInHand
<1> QED
  BY <1>1, <1>2, <1>3, <1>6, <1>9, <1>11, <1>12, PulledFollows

LEMMA MirrorFollowsStep ==
  ASSUME SyncInv, [Next]_vars, ReadInv
  PROVE  MirrorFollows'
<1>1. CASE SparesRows
  <2> SUFFICES ASSUME purged' = 0, ready', NEW e \in Mine, Untouched(e)'
               PROVE  Follows(mirror[e], e, cursor)'
    BY DEF MirrorFollows, Mine
  <2>1. /\ purged = 0 /\ ready /\ Untouched(e) /\ cursor' = cursor /\ mirror'[e] = mirror[e]
        /\ e \in Entities /\ cursor \in Nat /\ cursor <= Len(feed)
    BY <1>1, PurgedStays, TouchedStays, MineAreRows
       DEF SparesRows, ReadInv, Positions, SyncInv, NodeInv, LocalTypeOK
  <2>2. PICK m : m = mirror[e]
    OBVIOUS
  <2>3. Follows(m, e, cursor)
    BY <2>1, <2>2 DEF ReadInv, MirrorFollows
  <2>4. PICK from : from = cursor
    OBVIOUS
  <2>5. News(e, from)' \/ Holds(m, e)'
    BY <2>1, <2>3, <2>4, FollowsOn
  <2> QED
    BY <2>1, <2>2, <2>4, <2>5 DEF Follows, News, Holds, Alive, Exists
<1>2. CASE ApplySnapshot
  <2>1. /\ phase = "replace" /\ mirror' = image.rows /\ cursor' = image.cursor
        /\ UNCHANGED <<rows, feed, purged>>
    BY <1>2 DEF ApplySnapshot, SnapshotReplaces, centralVars
  <2> QED
    BY <2>1 DEF ReadInv, ImageFollows, MirrorFollows, Follows, News, Holds, Alive, Exists, Mine
<1> QED
  BY <1>1, <1>2, PullFollows, ApplyFollows, StepsOfTheRows DEF ReadInv

(* A snapshot is the centre's rows at the end of the feed; one of an empty   *)
(* feed is of a centre that has written nothing.                             *)
LEMMA FetchFollows ==
  ASSUME SyncInv, FetchSnapshot
  PROVE  ImageFollows'
<1> SUFFICES ASSUME purged = 0, NEW e \in Mine
             PROVE  Follows(image.rows[e], e, image.cursor)'
  BY DEF FetchSnapshot, ImageFollows, Mine
<1>1. UNCHANGED <<rows, feed>> /\ e \in Entities
  BY MineAreRows DEF FetchSnapshot, centralVars
<1>2. image'.rows[e] = IF InImage(e)
                       THEN [content |-> rows[e].content, base |-> rows[e].version] ELSE NoRow
  BY <1>1 DEF FetchSnapshot
<1>3. CASE InImage(e)
  <2>1. Exists(e)
    BY <1>3 DEF InImage, Lineage
  <2>2. rows[e] \in Row
    BY <1>1, <2>1 DEF Exists, SyncInv, CentreInv, CentralInv, CentralTypeOK
  <2>3. [content |-> rows[e].content, base |-> rows[e].version] \in MirrorRow
    BY <2>2 DEF Row, MirrorRow
  <2>4. /\ image'.rows[e] # NoRow /\ image'.rows[e].content = rows[e].content
        /\ image'.rows[e].base = rows[e].version
    BY <1>2, <1>3, <2>3, LocalAssumption
  <2> QED
    BY <1>1, <2>1, <2>4 DEF Follows, Holds, Exists
<1>4. CASE ~InImage(e)
  <2>1. Parent[e] = NoEntity => ~Alive(rows, e)
    <3>1. Parent[e] = NoEntity => Lineage(e) = {e}
      BY DEF Lineage
    <3> QED
      BY <1>4, <3>1 DEF InImage, Mine, Alive, Exists
  <2> QED
    BY <1>1, <1>2, <1>4, <2>1 DEF Follows, Holds, Alive
<1> QED
  BY <1>3, <1>4

LEMMA ImageFollowsStep ==
  ASSUME SyncInv, [Next]_vars, ReadInv
  PROVE  ImageFollows'
<1>1. CASE FetchSnapshot
  BY <1>1, FetchFollows
<1>2. CASE ~FetchSnapshot
  <2> SUFFICES ASSUME purged' = 0, phase' \in {"check", "replace"}, NEW e \in Mine
               PROVE  Follows(image.rows[e], e, image.cursor)'
    BY DEF ImageFollows, Mine
  <2>1. purged = 0 /\ phase \in {"check", "replace"} /\ image' = image
    BY <1>2, StepsOfTheImage, PurgedStays
  <2>2. PICK m, from : m = image.rows[e] /\ from = image.cursor
    OBVIOUS
  <2>3. e \in Entities /\ from \in Nat /\ from <= Len(feed) /\ Follows(m, e, from)
    BY <2>1, <2>2, MineAreRows
       DEF ReadInv, ImageFollows, Positions, SyncInv, NetTypeOK, ImageType
  <2>4. News(e, from)' \/ Holds(m, e)'
    BY <2>3, FollowsOn
  <2> QED
    BY <2>1, <2>2, <2>4 DEF Follows, News, Holds, Alive, Exists
<1> QED
  BY <1>1, <1>2

LEMMA ReadInvStep == SyncInv /\ ReadInv /\ [Next]_vars => ReadInv'
BY HardRowsStayLive, PositionsStep, MirrorFollowsStep, ImageFollowsStep, NextInHandStep
   DEF ReadInv

LEMMA ReadInvInit == Init => ReadInv
BY DEF Init, CentralInit, LocalInit, ReadInv, HardRowsLive, Exists, Positions, NoImage,
       MirrorFollows, ImageFollows, NextInHand

(* For any number of devices and rows: once it has read the feed to its end, *)
(* a node holds of every row it has not written what the centre holds, over  *)
(* lost and doubled requests, restarts in the middle of a pull, snapshots of *)
(* a table that is written meanwhile, scopes, reviews and tombstones         *)
(* (pullOnce and applyScopedSnapshot, localSyncWorker.ts).                   *)
THEOREM ReadRowsStayTrue == Spec => []ReadRowsAreTrue
<1>1. Spec => []ReadInv
  BY ReadInvInit, ReadInvStep, SyncInvariant, PTL DEF Spec
<1>2. SyncInv /\ ReadInv => ReadRowsAreTrue
  <2> SUFFICES ASSUME SyncInv, ReadInv, ready, Ahead = {}, purged = 0, NEW e \in Mine,
                      Untouched(e)
               PROVE  Holds(mirror[e], e)
    BY DEF ReadRowsAreTrue, Holds, Mine
  <2>1. Follows(mirror[e], e, cursor)
    BY DEF ReadInv, MirrorFollows
  <2>2. ASSUME NEW k \in cursor + 1 .. Len(feed), feed[k].entity = e
        PROVE  FALSE
    <3>1. k > 0
      BY <2>2 DEF SyncInv, NodeInv, LocalTypeOK
    <3> QED
      BY <2>2, <3>1 DEF Ahead, Mine
  <2> QED
    BY <2>1, <2>2 DEF Follows, News
<1> QED
  BY <1>1, <1>2, SyncInvariant, PTL
=============================================================================
