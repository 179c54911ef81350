---------------------------- MODULE MCUsageLedger ----------------------------
(* Two refills of one executive race with two supervisors who decide a request *)
(* for more capacity, across one midnight. The policy allows one full buffer a *)
(* day, so that the second refill is refused unless something was granted,     *)
(* completed or left over.                                                     *)
EXTENDS UsageLedger
=============================================================================
