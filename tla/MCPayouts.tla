------------------------------ MODULE MCPayouts ------------------------------
(* Instances of Payouts for TLC.                                           *)
EXTENDS Payouts

CONSTANTS t1, t2, k1, k2
=============================================================================
