------------------------- MODULE MCRecordingServer -------------------------
(* Instances of RecordingServer for TLC. *)
EXTENDS RecordingServer, TLC

CONSTANTS r1, r2, b1, b2, q1, q2, q3

MCOneRecording == {r1}
MCTwoRecordings == {r1, r2}
MCBodies == {b1, b2}
MCOneBody == {b1}
MCSizeOf == [b \in Bodies |-> IF b = b1 THEN 1 ELSE 2]
MCTwoRequests == {q1, q2}
MCThreeRequests == {q1, q2, q3}
MCSymmetry == Permutations(Requests)
============================================================================
