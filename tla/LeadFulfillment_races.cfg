SPECIFICATION Spec
CONSTANTS
    Venues = {v1, v2}
    Txns = {t1, t2}
    MaxVersion = 3
    MaxUnits = 3
INVARIANTS FundedSetupAdvances OrderFollowsLead LiveIsRegistered
PROPERTIES OnlyForward
SYMMETRY Symmetry
CHECK_DEADLOCK FALSE
