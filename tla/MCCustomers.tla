----------------------------- MODULE MCCustomers -----------------------------
(* Instances of Customers for TLC.                                         *)
EXTENDS Customers

CONSTANTS t1, t2, n1, n2, k1, e1, bad
=============================================================================
