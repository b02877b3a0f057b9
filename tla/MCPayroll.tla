----------------------------- MODULE MCPayroll ------------------------------
EXTENDS Payroll, TLC

CONSTANT m1

(* Both advances are dated in the first month.                               *)
MCMonth == [a \in Advances |-> m1]
=============================================================================
