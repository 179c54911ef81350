\* Two reports, two runs at a time, one crash or stolen lease.
SPECIFICATION FairSpec
CONSTANTS
    r1 = r1
    r2 = r2
    k1 = k1
    u1 = u1
    u2 = u2
    Reports = {r1, r2}
    CutsOf <- MCCutsOf
    Keys = {k1}
    Rucs = {u1, u2}
    Absent = Absent
    RowsOf <- MCRowsOf
    RowNumbers = {1}
    RejectedRows <- MCRejectedRows
    Workers = {w1, w2}
    Unowned = Unowned
    NoCredit = NoCredit
    MaxAttempts = 2
    MaxFaults = 1
INVARIANTS PublishedIsConsistent
PROPERTIES ChangesAreReviewed DecidedStays SnapshotsSettle
CHECK_DEADLOCK FALSE
