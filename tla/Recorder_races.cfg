\* Two calls and two start requests under any one fault at any await.
SPECIFICATION FairSpec
CONSTANTS
  MaxCalls = 2
  MaxChunks = 1
  MaxFaults = 1
  Starts <- MCTwoStarts
  s1 = s1
  s2 = s2
  None = None
  Sweeper = Sweeper
INVARIANTS RecorderOwnsItsRow
PROPERTIES ClosedAudioIsFinal LossIsReported OrphansAreClosed
