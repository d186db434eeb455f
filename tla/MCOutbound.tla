------------------------------ MODULE MCOutbound ------------------------------
(* Instances of Outbound for TLC.                                          *)
EXTENDS Outbound

CONSTANTS n1, n2, w1, w2
=============================================================================
