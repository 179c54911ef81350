---------------------------- MODULE AudioCustody ----------------------------
(***************************************************************************)
(* What the recording pipeline promises about audio, with no queue, no     *)
(* network and no process in sight: every captured chunk is on the device  *)
(* until the server keeps the whole recording, and only then does the      *)
(* device let go.                                                          *)
(***************************************************************************)
EXTENDS Naturals

CONSTANTS
  Recordings,
  MaxChunks,  \* bound: chunks of one recording
  Nothing     \* the server has not taken over

VARIABLES
  taken,   \* [Recordings -> number of chunks captured, numbered 0..n-1]
  device,  \* [Recordings -> chunks on the device]
  kept     \* [Recordings -> Nothing, or the chunks the server answers for]

Chunks == 0..(MaxChunks - 1)
Taken(r) == {s \in Chunks : s < taken[r]}

Init ==
  /\ taken = [r \in Recordings |-> 0]
  /\ device = [r \in Recordings |-> {}]
  /\ kept = [r \in Recordings |-> Nothing]

Capture(r) ==
  /\ kept[r] = Nothing /\ taken[r] < MaxChunks
  /\ taken' = [taken EXCEPT ![r] = @ + 1]
  /\ device' = [device EXCEPT ![r] = @ \cup {taken[r]}]
  /\ UNCHANGED kept

\* The server answers for the whole recording, never for a part of it.
TakeOver(r) ==
  /\ kept[r] = Nothing
  /\ kept' = [kept EXCEPT ![r] = Taken(r)]
  /\ UNCHANGED <<taken, device>>

LetGo(r) ==
  /\ kept[r] = Taken(r)
  /\ device' = [device EXCEPT ![r] = {}]
  /\ UNCHANGED <<taken, kept>>

Next == \E r \in Recordings : Capture(r) \/ TakeOver(r) \/ LetGo(r)

Spec == Init /\ [][Next]_<<taken, device, kept>>

\* No captured chunk is in neither place.
NothingLost ==
  \A r \in Recordings : device[r] = Taken(r) \/ kept[r] = Taken(r)

=============================================================================
