------------------------------ MODULE FiniteSums ------------------------------
(* What a set of entries comes to.                                           *)
EXTENDS Integers, FiniteSets, FiniteSetsExt

(* The sum of f[x] over x in the finite set S.                               *)
Sum(f, S) == MapThenSumSet(LAMBDA x : f[x], S)
===============================================================================
