---------------------------- MODULE MCChangeFeed ----------------------------
(* Transactions and rows are interchangeable.                                *)
EXTENDS ChangeFeed, TLC

CONSTANTS t1, t2, t3, r1, r2

MCSymmetry == Permutations(Transactions) \cup Permutations(Rows)
=============================================================================
