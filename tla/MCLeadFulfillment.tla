---- MODULE MCLeadFulfillment ----
(* LeadFulfillment for TLC: two venues, two transactions at a time, alike.     *)
EXTENDS LeadFulfillment, TLC

Symmetry == Permutations(Venues) \cup Permutations(Txns)
=============================
