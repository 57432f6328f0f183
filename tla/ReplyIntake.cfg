\* Two deliveries, two keys, with failures and crashes.
SPECIFICATION Spec
CONSTANTS
    k1 = k1
    k2 = k2
    Keys = {k1, k2}
    Deliveries = {d1, d2}
    HarnessReports = {h1}
    Events <- MCEvents
    FlatItems <- MCFlatItems
    ChatConfigured = TRUE
    MaxClock = 1
    Nothing = Nothing
SYMMETRY Symmetry
INVARIANTS
    EngineCallsAreSimultaneous
    NoReplyVanishes
CHECK_DEADLOCK FALSE
