--------------------------- MODULE MCLedgerOffice ---------------------------
(* The main session and the trip of one driver.                              *)
EXTENDS LedgerOffice, TLC

CONSTANTS main, trip, driver

MCDriverOf == [s \in Sessions |-> IF s = main THEN NoDriver ELSE driver]

(* Without operations no definition tells handlers, rows or receipts apart.  *)
Symmetry == Permutations(Jobs) \cup Permutations(Rows) \cup Permutations(Receipts)
=============================================================================
