---------------------------- MODULE DecisionLog ----------------------------
(* What the central node promises of the operations devices push: each is    *)
(* decided once, a disputed one waits for a review, and the ledger is written *)
(* at most once for an operation, when it is accepted or its dispute settled. *)
EXTENDS Sequences

CONSTANTS
  Ops,     \* the operations
  Device,  \* Device[i]: who issued operation i
  Nobody   \* writes of the ledger that carry out no operation


VARIABLES
  verdict,   \* what is on record for each operation
  disputed,  \* the operations waiting for a review
  log        \* on whose behalf each write of the ledger was made

decisionVars == <<verdict, disputed, log>>

Init ==
  /\ verdict = [i \in Ops |-> "none"]
  /\ disputed = {}
  /\ log = << >>

Wrote(who) == log' = Append(log, who)

Accept(i) ==
  /\ verdict[i] = "none"
  /\ verdict' = [verdict EXCEPT ![i] = "accepted"]
  /\ Wrote(Device[i]) \/ UNCHANGED log
  /\ UNCHANGED disputed

Refuse(i) ==
  /\ verdict[i] = "none"
  /\ verdict' = [verdict EXCEPT ![i] = "refused"]
  /\ UNCHANGED <<disputed, log>>

Dispute(i) ==
  /\ verdict[i] = "none"
  /\ verdict' = [verdict EXCEPT ![i] = "disputed"]
  /\ disputed' = disputed \cup {i}
  /\ UNCHANGED log

(* The record of a decision may be spoilt; the ledger is not touched.        *)
Spoil(i) ==
  /\ verdict[i] # "none"
  /\ verdict' = [verdict EXCEPT ![i] = "refused"]
  /\ UNCHANGED <<disputed, log>>

Settle(i) ==
  /\ i \in disputed
  /\ verdict' = [verdict EXCEPT ![i] = "accepted"]
  /\ disputed' = disputed \ {i}
  /\ Wrote(Device[i])

Edit == Wrote(Nobody) /\ UNCHANGED <<verdict, disputed>>

Next ==
  \/ \E i \in Ops : Accept(i) \/ Refuse(i) \/ Dispute(i) \/ Spoil(i) \/ Settle(i)
  \/ Edit

Spec == Init /\ [][Next]_decisionVars
=============================================================================
