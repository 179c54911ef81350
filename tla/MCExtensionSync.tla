-------------------------- MODULE MCExtensionSync --------------------------
(* Instances of ExtensionSync for TLC. *)
EXTENDS ExtensionSync, TLC

CONSTANTS r1, r2

MCOneRecording == {r1}
MCTwoRecordings == {r1, r2}
MCSymmetry == Permutations(Recordings)
============================================================================
