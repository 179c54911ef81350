SPECIFICATION Spec
CONSTANTS
  MaxCalls = 1
  MaxChunks = 1
  MaxFaults = 0
  Starts <- MCTwoStarts
  s1 = s1
  s2 = s2
  None = None
  Sweeper = Sweeper
INVARIANTS InterruptedHasCause
