------------------------------ MODULE MCAccounts ------------------------------
(* An instance of Accounts for TLC: two seeds, and a platform made by hand. *)
EXTENDS Accounts

CONSTANTS t1, t2, insurance, dg, other, m1, m2

ListOfSeeds == [s \in Seed |-> IF s = insurance THEN 1 ELSE 2]
=============================================================================
