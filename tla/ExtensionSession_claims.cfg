SPECIFICATION FairSessionSpec
CONSTANTS
    h1 = h1
    h2 = h2
    a = a
    b = b
    c1 = c1
    c2 = c2
    c3 = c3
    Logins = {l1}
    Handoffs = {h1, h2}
    Browsers = {a, b}
    Claims = {c1, c2, c3}
    HandoffsOf <- MCHandoffsOf
    BrowserOf <- MCBrowserOf
    MaxFaults = 1
INVARIANTS SessionInv StoredIsCurrent
PROPERTIES ClaimedOnce StaleSessionsEnd EndedLoginsSignOut
CHECK_DEADLOCK FALSE
