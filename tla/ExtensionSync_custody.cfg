\* One recording of two chunks under lost and late requests, refusals, dead
\* workers and segments the server forgets.
SPECIFICATION FairSpec
CONSTANTS
  r1 = r1  r2 = r2
  Recordings <- MCOneRecording
  MaxChunks = 2
  MaxAttempts = 3
  MaxFaults = 4
  Nothing = Nothing
INVARIANTS SyncInv
PROPERTIES KeepsCustody ClosedIsDelivered
