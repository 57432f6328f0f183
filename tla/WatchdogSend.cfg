\* Two overlapping runs over one send record, in all its states.
SPECIFICATION Spec
CONSTANTS
    k1 = k1
    x1 = x1
    r1 = r1
    r2 = r2
    NoRun = NoRun
    NoAlert = NoAlert
    NoRequest = NoRequest
    Sends <- OneSend
    Errors = {}
    ErrorClasses <- OneErrorClass
    Runs <- TwoRuns
    Restarts = FALSE
    SLA_WARNING_THRESHOLD = 1
    SLA_BREACH_THRESHOLD = 2
SYMMETRY RunSymmetry
INVARIANTS
    TypeOK
    NotifiedAtMostOnce
    RecordedIsNotified
PROPERTIES
    BreachOutlivesTransitions
    AlertsOnce
CHECK_DEADLOCK FALSE
