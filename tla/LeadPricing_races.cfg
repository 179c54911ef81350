SPECIFICATION FairSpec
CONSTANTS
    Leads = {l1, l2}
    Executives = {e1, e2}
    BackOffice = bo
    Txns = {t1, t2}
    Sweeper = t2
    Validity = 1
    MaxRevisions = 1
    MaxTime = 2
    MaxVersion = 4
INVARIANTS LeadInv OneLiveLead
PROPERTIES DecisionsStand RenewedHoldsSurvive OwnerDecides LapsedIsReleased
CHECK_DEADLOCK FALSE
