---- MODULE MCLeadPricing ----
(* LeadPricing for TLC: the two leads one organization may have, executives    *)
(* that compete for it, two transactions at a time.                            *)
EXTENDS LeadPricing, TLC
=============================
