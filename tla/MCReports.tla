------------------------------ MODULE MCReports ------------------------------
(* Instances of Reports for TLC.                                           *)
EXTENDS Reports

CONSTANTS p1, p2, p3, n1, n2, y1, y2, m1, m2, usd, cad

TableSymmetry == Permutations(Payment) \cup Permutations(Tenant)
                   \cup Permutations(Year) \cup Permutations(Month)
=============================================================================
