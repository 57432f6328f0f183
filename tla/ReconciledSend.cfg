SPECIFICATION FairSpec
CONSTANTS
    Runs = {r1, r2, r3}
    MaxCopies = 2
    MaxChecks = 4
    NoRun = NoRun
    NoState = NoState
INVARIANTS
    OnePost
    ReconciledMeansSent
PROPERTIES
    FileOnlyAdvances
    RunsEnd
CHECK_DEADLOCK FALSE
