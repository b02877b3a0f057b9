--------------------------- MODULE MCCentralSync ---------------------------
(* Device d1 pushes to a ledger session, to a row of it and to a print        *)
(* document, with base 0 or 1; d2, which may not write the document, to all   *)
(* but the row, and it has seen version 0 only.  Devices send a for sessions and *)
(* rows and b for documents; screens and reviewers choose.                    *)
EXTENDS CentralSync, TLC

CONSTANTS d1, d2, session, line, document, a, b

MCParent == [e \in Entities |-> IF e = line THEN session ELSE NoEntity]
MCScope == d1 :> Entities @@ d2 :> Entities \ {document}
MCRequests ==
  {op \in [device : Devices, seq : 1 .. MaxSeq, entity : Entities,
           type : {"UPSERT", "DELETE"}, payload : Contents, base : 0 .. 1] :
     /\ op.payload \in ContentsOf(op.entity) \ {IF op.entity = document THEN a ELSE b}
     /\ op.type = "DELETE" => op.payload # Deleted
     /\ op.device = d2 => op.entity # line /\ op.base = 0}
=============================================================================
