---------------------------- MODULE MCRecorder ----------------------------
(* Instances of Recorder for TLC. *)
EXTENDS Recorder, TLC

CONSTANTS s1, s2

MCTwoStarts == {s1, s2}
MCSymmetry == Permutations(Starts)
===========================================================================
