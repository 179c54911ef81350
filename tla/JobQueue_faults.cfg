\* One job fought over by two processes: crashes, stolen leases, failed
\* statements and broken connections, under the fairness of the workers.
SPECIFICATION FairSpec
CONSTANTS
  j1 = j1  j2 = j2  p1 = p1  p2 = p2
  Jobs <- MCOneJob
  Procs <- MCProcs
  WorkerId <- MCWorkerId
  Unowned = Unowned
  MaxAttempts = 2
  MaxConcurrency = 1
  MaxFaults = 2
  Polling = TRUE
INVARIANTS FencedRuns OutcomesAreTrue
PROPERTIES StaleRunsAreFenced EveryJobSettles
