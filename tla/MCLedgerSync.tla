---------------------------- MODULE MCLedgerSync ----------------------------
(* Desktop node d1 and another device d2.  The rows of an instance are among *)
(* a ledger session, a row of it and a print document; d2 has at most one    *)
(* operation, on the session or the document.                                *)
EXTENDS LedgerSync, TLC

CONSTANTS d1, d2, session, line, document, a, b

MCParent == [e \in Entities |-> IF e = line THEN session ELSE NoEntity]
MCScope == [d \in Devices |-> Entities]
MCRequests ==
  [device : Devices, seq : 1 .. MaxSeq, entity : Entities,
   type : {"UPSERT", "DELETE"}, payload : Contents, base : 0 .. MaxFeed]
MCOthers ==
  {op \in MCRequests : /\ op.device # d1 /\ op.seq = 1 /\ op.entity # line
                       /\ op.type = "UPSERT" /\ op.base = 0
                       /\ op.payload \in ContentsOf(op.entity) \ {a}}
MCReword == {op \in MCOthers : op.payload = b}
MCNobody == {}
=============================================================================
