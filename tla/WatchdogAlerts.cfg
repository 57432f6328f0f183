\* Runs in turn over one error record, for ever.
SPECIFICATION FairSpec
CONSTANTS
    k1 = k1
    x1 = x1
    r1 = r1
    r2 = r2
    NoRun = NoRun
    NoAlert = NoAlert
    NoRequest = NoRequest
    Sends = {}
    Errors <- OneError
    ErrorClasses <- OneErrorClass
    Runs <- TwoRuns
    Restarts = TRUE
    SLA_WARNING_THRESHOLD = 1
    SLA_BREACH_THRESHOLD = 2
PROPERTIES
    StuckErrorIsAlerted
CHECK_DEADLOCK FALSE
