---------------------------- MODULE MCJobQueue ----------------------------
(* Instances of JobQueue for TLC. *)
EXTENDS JobQueue, TLC

CONSTANTS j1, j2, p1, p2

MCJobs == {j1, j2}
MCOneJob == {j1}
MCProcs == {p1, p2}
MCOneProc == {p1}
MCWorkerId == [p \in Procs |-> p]
MCSymmetry == Permutations(Jobs) \cup Permutations(Procs)
===========================================================================
