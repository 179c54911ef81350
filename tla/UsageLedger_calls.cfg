SPECIFICATION FairSpec
CONSTANTS
    Calls = {c1, c2}
    Reviewers = {s1, s2}
    Requests = {r1}
    DailyLimit = 2
    BufferTarget = 2
    LastDay = 2
    MaxDirect = 1
INVARIANTS WithinLimit ChargesMatch GrantsFollowApprovals
PROPERTIES CallsEnd
CHECK_DEADLOCK FALSE
