------------------------------ MODULE MCInvoices ------------------------------
(* Instances of Invoices for TLC.                                          *)
EXTENDS Invoices

CONSTANTS t1, t2, t3, p1, p2
=============================================================================
