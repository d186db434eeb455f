------------------------------ MODULE MCPayments ------------------------------
(* Instances of Payments for TLC.                                          *)
EXTENDS Payments, TLC

CONSTANTS t1, t2

\* Tasks are interchangeable.  Payments are not: they are numbered in the order
\* of creation.
TaskSymmetry == Permutations(Task)
=============================================================================
