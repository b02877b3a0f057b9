----------------------------- MODULE LedgerSync -----------------------------
(* A desktop node and the centre, with HTTP requests between them that may   *)
(* be lost on the way or answered into the void, other devices that push,    *)
(* the ledger screens of both nodes, and the reviewer of conflicts.          *)
EXTENDS CentralSync, LocalNode

CONSTANTS
  Others,  \* the operations other devices push
  Faults   \* the disturbances of the instance, of AllFaults

AllFaults ==
  {"loss", "overlap", "restart", "failure", "edit", "undo", "review", "block",
   "purge", "expiry"}

ASSUME LedgerAssumption ==
  /\ Faults \subseteq AllFaults
  /\ \A op \in Others : /\ op \in Requests /\ op.device # Self
                        /\ op.type = "UPSERT" => op.payload \in ContentsOf(op.entity)

VARIABLES
  request,  \* operations of the current push request the centre has not served
  orphan,   \* those of a request the node has given up; bound: one such request
  late,     \* which of the two has looked for the result of its head in vain
  answers,  \* what the current request will be answered
  image,    \* the snapshot fetched: [rows, cursor]
  pulled,   \* the position of the change pullOnce has in hand
  purged    \* feed entries removed by maintenance outside this code

netVars == <<request, orphan, late, answers, image, pulled, purged>>
vars == <<centralVars, localVars, netVars>>

NoImage == [rows |-> [e \in Entities |-> NoRow], cursor |-> 0]

Init ==
  /\ CentralInit /\ LocalInit
  /\ request = << >> /\ orphan = << >> /\ late = {} /\ answers = << >>
  /\ image = NoImage /\ pulled = 0 /\ purged = 0

-----------------------------------------------------------------------------
(* Row ids are random UUIDs: a new row never reuses one.                     *)
Unused(e) ==
  /\ \A k \in 1 .. Len(feed) : feed[k].entity # e
  /\ \A n \in Seqs : outbox[n] # NoOp => outbox[n].entity # e

(* The bound on the feed keeps room for the operations already issued.       *)
Spare ==
  Len(feed) + Cardinality({n \in 1 .. issued : results[<<Self, n>>] = NoResult}) < MaxFeed

UserWrites ==
  /\ Spare
  /\ \E e \in Entities :
       \/ (mirror[e] # NoRow \/ Unused(e)) /\ \E c \in Contents : LocalUpsert(e, c)
       \/ LocalDelete(e)
  /\ UNCHANGED <<centralVars, netVars>>

Expire == "expiry" \in Faults /\ GrantExpires /\ UNCHANGED <<centralVars, netVars>>

-----------------------------------------------------------------------------
(* The push request: a sequence of operations the centre works through.      *)

Quiet == UNCHANGED <<centralVars, netVars>>

BeginCycle == StartCycle /\ Quiet

SkipPush == NothingToPush /\ Quiet

BeginPush(b) ==
  /\ SelectBatch(b)
  /\ request' = [k \in DOMAIN b |-> Sent(b[k])]
  /\ answers' = << >>
  /\ UNCHANGED <<centralVars, orphan, late, image, pulled, purged>>

Denied == [status |-> "DEVICE_REVOKED", version |-> 0, content |-> NoContent]

(* mapStoredResult; ALREADY_APPLIED is handled as ACCEPTED is.               *)
Answer(op) ==
  LET r == results'[IdOf(op)] IN
  IF op.device \in active
  THEN [status |-> r.status, version |-> r.version, content |-> r.content]
  ELSE Denied

Decide(op) == Push(op) /\ ("failure" \in Faults \/ ~ProcessingFails(op))

(* Two handlers work on the same operation, and neither finds a result.      *)
Twins ==
  /\ request # << >> /\ orphan # << >> /\ Head(request) = Head(orphan)
  /\ results[IdOf(Head(request))] = NoResult

(* The handler that is not first waits in validateDevice for the device row; *)
(* its own insert then hits the result the first one has committed.          *)
Overtakes(who, other) ==
  \/ late' = late \ {who}
  \/ "overlap" \in Faults /\ Twins /\ late' = (late \ {who}) \cup {other}

(* applyPushOperation: a first decision, or the stored one once more.        *)
ApplyPushOperation(op, who) ==
  \/ Decide(op)
  \/ /\ op.device \notin active \/ (results[IdOf(op)] # NoResult /\ who \notin late)
     /\ UNCHANGED centralVars
  \/ /\ "failure" \in Faults \/ (who \in late /\ op.device \in active)
     /\ ReplayFails(op)

Serve ==
  /\ request # << >>
  /\ ApplyPushOperation(Head(request), "request")
  /\ Overtakes("request", "orphan")
  /\ answers' = Append(answers, Answer(Head(request)))
  /\ request' = Tail(request)
  /\ UNCHANGED <<localVars, orphan, image, pulled, purged>>

(* The answer of the whole request is here: its results one by one.          *)
Deliver ==
  /\ request = << >> /\ handled < Len(answers)
  /\ HandleResult(answers[handled + 1])
  /\ Quiet

EndPush ==
  /\ FinishPush
  /\ answers' = << >>
  /\ UNCHANGED <<centralVars, request, orphan, late, image, pulled, purged>>

(* One result of the answer cannot be applied to the mirror.                 *)
Unusable ==
  /\ request = << >> /\ handled < Len(answers)
  /\ answers[handled + 1].status = "ACCEPTED"
  /\ ApplyThrows(outbox[batch[handled + 1]].entity, answers[handled + 1].content)

(* The node no longer waits, but the centre may be at work on the request.   *)
GiveUp ==
  /\ request' = << >> /\ answers' = << >>
  /\ \/ /\ orphan = << >> /\ orphan' = request
        /\ late' = IF "request" \in late THEN {"orphan"} ELSE {}
     \/ orphan' = orphan /\ late' = late \ {"request"}

LosePush ==
  /\ "loss" \in Faults \/ Self \notin active \/ Unusable
  /\ BatchFails /\ GiveUp
  /\ UNCHANGED <<centralVars, image, pulled, purged>>

ServeOrphan ==
  /\ orphan # << >>
  /\ ApplyPushOperation(Head(orphan), "orphan")
  /\ Overtakes("orphan", "request")
  /\ orphan' = Tail(orphan)
  /\ UNCHANGED <<localVars, request, answers, image, pulled, purged>>

-----------------------------------------------------------------------------
(* pullChanges: the entries after the cursor in the device's scope.          *)

(* Faulty variant: a device is spared its own changes.                       *)
AheadOfOthers ==
  {k \in cursor + 1 .. Len(feed) : /\ k > purged /\ feed[k].entity \in Scope[Self]
                                   /\ feed[k].source # Self}

Ahead == {k \in cursor + 1 .. Len(feed) : k > purged /\ feed[k].entity \in Scope[Self]}

(* Faulty variant: off by one.                                               *)
RetentionGapByTwo == cursor > 0 /\ purged < Len(feed) /\ cursor < purged - 1

(* The oldest entry kept is beyond the cursor.  min() of an empty feed, and a *)
(* cursor of 0, do not count as a gap.                                       *)
RetentionGap == cursor > 0 /\ purged < Len(feed) /\ cursor < purged

PullGap == Self \in active /\ RetentionGap /\ MustResnapshot /\ Quiet

PullEmpty == Self \in active /\ ~RetentionGap /\ Ahead = {} /\ PullNothing /\ Quiet

EndPull == pulled' = 0 /\ UNCHANGED <<centralVars, request, orphan, late, answers, image, purged>>

PullOne ==
  /\ Self \in active /\ ~RetentionGap /\ Ahead # {}
  /\ LET k == Min(Ahead) IN
       \/ PullConflict(feed[k], k) /\ EndPull
       \/ /\ PullCheck(feed[k])
          /\ pulled' = k
          /\ UNCHANGED <<centralVars, request, orphan, late, answers, image, purged>>

ApplyOne == pulled # 0 /\ PullApply(feed[pulled], pulled) /\ EndPull

AbortOne ==
  /\ PullAborts
  /\ "loss" \in Faults \/ ApplyThrows(feed[pulled].entity, feed[pulled].content)
  /\ EndPull

-----------------------------------------------------------------------------
(* createScopedSnapshot reads in one repeatable-read transaction; rows and   *)
(* what hangs on them are left out when they are deleted or out of scope.    *)

Lineage(e) ==
  LET up == IF Parent[e] = NoEntity THEN {} ELSE {Parent[e]} IN
  {e} \cup up \cup {Parent[p] : p \in {q \in up : Parent[q] # NoEntity}}

InImage(e) == \A p \in Lineage(e) :
  Exists(p) /\ rows[p].content # Deleted /\ p \in Scope[Self]

FetchSnapshot ==
  /\ Self \in active /\ SnapshotFetched
  /\ image' = [rows |-> [e \in Entities |->
                 IF InImage(e) THEN [content |-> rows[e].content, base |-> rows[e].version]
                 ELSE NoRow],
               cursor |-> IF purged < Len(feed) THEN Len(feed) ELSE 0]
  /\ UNCHANGED <<centralVars, request, orphan, late, answers, pulled, purged>>

RefuseSnapshot == SnapshotBlocked /\ Quiet

ClearSnapshot == SnapshotCleared /\ Quiet

ApplySnapshot ==
  /\ SnapshotReplaces(image.rows, image.cursor)
  /\ image' = NoImage
  /\ UNCHANGED <<centralVars, request, orphan, late, answers, pulled, purged>>

AbandonCycle ==
  /\ "loss" \in Faults \/ Self \notin active
  /\ CycleFails /\ Quiet

Crash ==
  /\ "restart" \in Faults
  /\ Restart /\ GiveUp
  /\ image' = NoImage /\ pulled' = 0
  /\ UNCHANGED <<centralVars, purged>>

-----------------------------------------------------------------------------
(* The rest of the world.                                                    *)

(* Nobody else knows the id of a row before the centre has published it, and *)
(* a hard row is inserted once.                                              *)
Public(op) ==
  \/ Unused(op.entity)
  \/ /\ op.entity \in SoftEntities \/ op.type = "DELETE"
     /\ \E k \in 1 .. Len(feed) : feed[k].entity = op.entity

OthersPush == \E op \in Others : Public(op) /\ Decide(op)

CentralScreens ==
  \E e \in Entities :
    \/ "edit" \in Faults /\ (Exists(e) \/ Unused(e)) /\ CentralEdit(e)
    \/ "undo" \in Faults /\ CentralRevive(e)

Reviewer == "review" \in Faults /\ \E i \in OpIds : ResolveSyncConflict(i)

Administrator == "block" \in Faults /\ SetDevice(Self)

World ==
  /\ \/ Spare /\ (OthersPush \/ CentralScreens \/ Reviewer)
     \/ Administrator
  /\ UNCHANGED <<localVars, netVars>>

(* Housekeeping of the feed is not part of this code, coping with it is.     *)
Purge ==
  /\ "purge" \in Faults
  /\ \E k \in purged + 1 .. Len(feed) : purged' = k
  /\ UNCHANGED <<centralVars, localVars, request, orphan, late, answers, image, pulled>>

Worker ==
  \/ BeginCycle \/ SkipPush \/ (\E b \in Batches : BeginPush(b)) \/ Deliver \/ EndPush
  \/ PullGap \/ PullEmpty \/ PullOne \/ ApplyOne
  \/ FetchSnapshot \/ RefuseSnapshot \/ ClearSnapshot \/ ApplySnapshot

Mishaps == LosePush \/ AbortOne \/ AbandonCycle \/ Crash

Next ==
  \/ Worker \/ Serve \/ ServeOrphan \/ Mishaps
  \/ UserWrites \/ Expire \/ World \/ Purge

Spec == Init /\ [][Next]_vars
-----------------------------------------------------------------------------
(* Fairness: the timer starts cycles, a cycle that waits for nothing goes on, *)
(* the centre works through the requests it has, and the backoff of a RETRY  *)
(* operation, some minutes at most, runs out.  Nothing is assumed of users,  *)
(* reviewers, other devices or mishaps.                                      *)
Fairness ==
  /\ WF_vars(Worker) /\ WF_vars(Serve) /\ WF_vars(ServeOrphan)
  /\ \A n \in Seqs : SF_vars(\E b \in Batches : n \in ToSet(b) /\ BeginPush(b))

FairSpec == Spec /\ Fairness

-----------------------------------------------------------------------------
(* Correctness.                                                              *)

(* What a user of a node sees of a row: the screens leave out deleted rows   *)
(* and the rows of a deleted session.                                        *)
Shown(table, e) ==
  IF \A p \in Lineage(e) : Alive(table, p) THEN table[e].content ELSE Deleted

(* An operation in SENDING is in the hands of a push that is still running:  *)
(* recovery after a stop, and the catch of pushOnce, leave none behind.      *)
NoStrandedSending ==
  \A n \in Seqs : HasStatus(n, {"SENDING"}) =>
    \E k \in handled + 1 .. Len(batch) : batch[k] = n

(* Nothing unresolved, nothing rejected: then the row the user sees, with    *)
(* the version his next write will be based on, is one the centre published. *)
SettledRowsArePublished ==
  \A e \in SoftEntities :
    /\ mirror[e] # NoRow
    /\ ~ \E n \in Seqs : outbox[n] # NoOp /\ outbox[n].entity = e
                          /\ ~HasStatus(n, {"ACKNOWLEDGED"})
    => \E k \in 1 .. Len(feed) :
         /\ feed[k].entity = e
         /\ feed[k].content = mirror[e].content /\ feed[k].version = mirror[e].base

(* The node is at rest, has read the whole feed and has nothing to decide.   *)
Quiescent ==
  /\ phase = "idle" /\ ready /\ ~stale /\ ~RetentionGap /\ Ahead = {}
  /\ \A n \in Seqs : outbox[n] # NoOp => outbox[n].status = "ACKNOWLEDGED"

(* "The central database is the authority"                                   *)
(* (docs/OFFLINE_FIRST_SHIPPING_IMPLEMENTATION_REPORT_2026-07-17.md:45): a   *)
(* quiescent node shows what the centre shows.                               *)
Converged == Quiescent => \A e \in Scope[Self] : Shown(mirror, e) = Shown(rows, e)

(* ACKNOWLEDGED means the centre has decided: the operation has a result and *)
(* no case is open for it.  pullOnce acknowledges a conflict as "Resolved by *)
(* a central conflict-review decision received through pull."                *)
(* (localSyncWorker.ts:354).                                                 *)
AcknowledgedMeansDecided ==
  \A n \in Seqs : HasStatus(n, {"ACKNOWLEDGED"}) =>
    results[<<Self, n>>] # NoResult /\ ~IsOpen(<<Self, n>>)

(* "The mirror is replaced only with no unresolved work."                    *)
(* (localSyncWorker.ts:370)                                                  *)
ReplacedOnlyWhenResolved ==
  [][\A n \in Seqs : Unresolved(n) => outbox'[n] # NoOp]_vars

(* The network and the node stay up from some moment on: whatever fails then *)
(* looks like a step of the worker.                                          *)
Calm == <>[][Mishaps => Worker]_vars

(* Every operation leaves the queue once the node can reach the centre.      *)
QueueDrains == Calm => \A n \in Seqs : Waiting(n) ~> ~Waiting(n)

(* A node that can reach the centre reads the feed to its end.               *)
ReadsToTheEnd == Calm => []<>(Ahead = {})

(* The centre hears of a row, and of the rows attached to it, in the order of *)
(* the writes (localSyncWorker.ts:266), whatever is lost, repeated, withdrawn *)
(* or restarted: only a write that was tried before can be overtaken, and so  *)
(* a child that is parked was never sent ahead of its parent.  Row locks and  *)
(* foreign keys put the numbers of such writes in the order of the commits.   *)
HeardInOrder ==
  \A m, n \in Seqs :
    m < n /\ HasStatus(m, {"PENDING"}) /\ results[<<Self, n>>] # NoResult =>
      LET e == results[<<Self, n>>].entity IN outbox[m].entity \notin {e, Parent[e]}

Untouched(e) == \A n \in Seqs : outbox[n] # NoOp => outbox[n].entity # e

(* A node that has read the feed to its end holds, of every row it has not    *)
(* itself written since its snapshot, what the centre holds: none is missing, *)
(* outdated or left over, whichever requests were lost, snapshots taken and   *)
(* cases reviewed on the way.  A row whose parent was deleted at the time of  *)
(* the snapshot may be missing.                                               *)
ReadRowsAreTrue ==
  ready /\ Ahead = {} /\ purged = 0 =>
    \A e \in Scope[Self] : Untouched(e) =>
      IF mirror[e] = NoRow THEN Parent[e] = NoEntity => ~Alive(rows, e)
      ELSE /\ Exists(e)
           /\ rows[e].content = mirror[e].content /\ rows[e].version = mirror[e].base

(* What the feed no longer holds is not skipped: past the first change, the  *)
(* cursor moves over positions the node has read or was never meant to.      *)
NoSilentGap ==
  [][cursor > 0 /\ cursor' > cursor /\ phase # "replace" =>
       \A k \in cursor + 1 .. cursor' - 1 : feed[k].entity \notin Scope[Self]]_vars

(* "Disabling the device stops push and pull at the next request" (the       *)
(* report, line 248): nothing is decided for a blocked device.               *)
BlockedDeviceIsShutOut ==
  [][Self \notin active =>
       \A n \in Seqs : results'[<<Self, n>>] = results[<<Self, n>>]]_vars

-----------------------------------------------------------------------------
(* Statements of the report the code does not keep, for whoever changes it.  *)
(* No configuration checks them: see README, deviations.                     *)

(* Every conflict flagged on the node has a case at the centre, where alone  *)
(* it can be reviewed: section 6 of the report counts a pull that meets a    *)
(* pending operation among the conflicts with the solutions implemented.     *)
ConflictsAreReviewable ==
  \A n \in flagged : conflicts[<<Self, n>>] # NoConflict

(* "Pull does not write over" a row with a pending local operation (the      *)
(* report, line 209).                                                        *)
PullSparesPending ==
  [][phase = "apply" /\ phase' = "idle" =>
       \A e \in Entities : WaitingFor(e) # {} => mirror'[e] = mirror[e]]_vars

(* "The failure of one operation does not cancel the results of independent  *)
(* operations" (the report, line 201).                                       *)
ResultsAreFinal ==
  [][\A n \in Seqs : HasStatus(n, {"ACKNOWLEDGED"}) => ~HasStatus(n, {"RETRY"})']_vars

(* "Connect to the server to renew the authentication"                       *)
(* (localOfflinePolicy.ts:30): a node in contact gets its grant back.        *)
GrantIsRenewed == Calm => (ready /\ ~granted ~> granted)
=============================================================================
