\* Three uploads of one segment that may die at any step, one insert that throws, closes and sweeps.
SPECIFICATION FairSpec
CONSTANTS
  r1 = r1  r2 = r2  b1 = b1  b2 = b2  q1 = q1  q2 = q2  q3 = q3
  None = None
  Recordings <- MCOneRecording
  MaxSegments = 1
  Bodies <- MCBodies
  SizeOf <- MCSizeOf
  Requests <- MCThreeRequests
  MaxErrors = 1
INVARIANTS BlobsSurviveRaces AnswersAreTrue
PROPERTIES CompleteIsFrozen IdleIsSwept
