------------------------------ MODULE MCRefunds ------------------------------
(* Instances of Refunds for TLC.                                           *)
EXTENDS Refunds, TLC

CONSTANTS t1, t2

\* Tasks are interchangeable.  Refunds are not: they are numbered in order.
RequestSymmetry == Permutations(Task)
=============================================================================
