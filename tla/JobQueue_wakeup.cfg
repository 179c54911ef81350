\* No poll and no faults, but connections that open late and break: everything
\* may legally stop when all work is done.
SPECIFICATION FairSpec
CONSTANTS
  j1 = j1  j2 = j2  p1 = p1  p2 = p2
  Jobs <- MCJobs
  Procs <- MCOneProc
  WorkerId <- MCWorkerId
  Unowned = Unowned
  MaxAttempts = 2
  MaxConcurrency = 2
  MaxFaults = 0
  Polling = FALSE
PROPERTY NewJobsAreClaimed
CHECK_DEADLOCK FALSE
