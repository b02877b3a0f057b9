---------------------------- MODULE MCTransfers -----------------------------
EXTENDS Transfers, TLC

(* The approvals are interchangeable.                                        *)
Symmetry == Permutations(Approvals)
=============================================================================
