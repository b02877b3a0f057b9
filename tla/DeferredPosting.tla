-------------------------- MODULE DeferredPosting --------------------------
(* "Save the shipments" asked for on a desktop node: the centre posts the    *)
(* pending rows of the ledger when the action arrives.  A node that got no   *)
(* answer sends the action again while the first request may still run.      *)
EXTENDS RowPosting

CONSTANT Actions  \* central_action.post_shipments operations, by operation_id

VARIABLES
  deferred,  \* deferred[a]: result_status of the action
  request    \* request[j]: the action handler j executes, and the rows still to post

deferredVars == <<deferred, request>>

NoRequest == [left |-> {}]
Request(a, rs) == [action |-> a, left |-> rs]

DeferredInit ==
  /\ deferred = [a \in Actions |-> "NONE"]
  /\ request = [j \in Jobs |-> NoRequest]

DeferredTypeOK ==
  /\ deferred \in [Actions -> {"NONE", "PROCESSING", "ACCEPTED", "CENTRAL_PROCESSING_FAILED"}]
  /\ request \in [Jobs -> {NoRequest} \cup [action: Actions, left: SUBSET Rows]]

Executing(j) == request[j] # NoRequest

Answered(j) == request' = [request EXCEPT ![j] = NoRequest]
Decided(a, status) == deferred' = [deferred EXCEPT ![a] = status]

(* applyPushOperation, the first time: the PROCESSING row.                   *)
Receive(a) ==
  /\ deferred[a] = "NONE"
  /\ Decided(a, "PROCESSING")
  /\ UNCHANGED <<rowVars, postVars, request>>

(* The catch: insert ... on conflict do update, over any stored verdict.     *)
(* Any request may come to it, and the slower one of two first requests      *)
(* must, whose insert meets the unique operation_id.  What the failed        *)
(* transaction did is rolled back: all it leaves is this write.              *)
PersistFailure(a) ==
  /\ Decided(a, "CENTRAL_PROCESSING_FAILED")
  /\ UNCHANGED <<rowVars, postVars, request>>

(* processDeferredAction, for the first request and for every later one that *)
(* finds no ACCEPTED: it reads the result again and lists the rows that      *)
(* wait.  Its advisory lock excludes nobody here: the call is not awaited,   *)
(* so the client that holds the lock is released to the pool at once and     *)
(* may serve the second request, for whose session the lock is re-entrant.   *)
Pending == {r \in Rows : Shown(r) /\ ~row[r].posted}

Execute(j, a) ==
  /\ job[j] = Idle /\ ~Executing(j) /\ deferred[a] \notin {"NONE", "ACCEPTED"}
  /\ request' = [request EXCEPT ![j] = Request(a, Pending)]
  /\ UNCHANGED <<rowVars, postVars, deferred>>

(* postPendingShipments, through the pool: one row after the other, read     *)
(* again when its turn comes.  The operation the node named is in the node's *)
(* own database: the centre records nothing.                                 *)
PostNext(j, r) ==
  /\ job[j] = Idle /\ r \in request[j].left
  /\ request' = [request EXCEPT ![j].left = @ \ {r}]
  /\ IF Shown(r) /\ ~row[r].posted THEN PostRow(j, r, NoOp)
     ELSE UNCHANGED <<rowVars, postVars>>
  /\ UNCHANGED deferred

(* Whatever became of the single rows, and whatever is stored meanwhile, the *)
(* action is accepted.                                                       *)
Accept(j) ==
  /\ Executing(j) /\ job[j] = Idle /\ request[j].left = {}
  /\ Decided(request[j].action, "ACCEPTED")
  /\ Answered(j)
  /\ UNCHANGED <<rowVars, postVars>>

(* Listing the rows, or recording the verdict, fails.                        *)
Refuse(j) ==
  /\ Executing(j) /\ job[j] = Idle
  /\ Decided(request[j].action, "CENTRAL_PROCESSING_FAILED")
  /\ Answered(j)
  /\ UNCHANGED <<rowVars, postVars>>

(* The process stops: nothing is written any more.                           *)
Die(j) ==
  /\ Executing(j)
  /\ Answered(j) /\ End(j)
  /\ UNCHANGED <<rowVars, ship, op, deferred>>

Answers(a) == Receive(a) \/ PersistFailure(a)

Deferred(j) ==
  \/ \E a \in Actions : Execute(j, a)
  \/ \E r \in Rows : PostNext(j, r)
  \/ Accept(j) \/ Refuse(j) \/ Die(j)
=============================================================================
