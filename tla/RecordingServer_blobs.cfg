\* Two uploads of the same bytes, one of whose inserts throws.
SPECIFICATION Spec
CONSTANTS
  r1 = r1  r2 = r2  b1 = b1  b2 = b2  q1 = q1  q2 = q2  q3 = q3
  None = None
  Recordings <- MCOneRecording
  MaxSegments = 1
  Bodies <- MCOneBody
  SizeOf <- MCSizeOf
  Requests <- MCTwoRequests
  MaxErrors = 1
INVARIANT RowsHaveBlobs
