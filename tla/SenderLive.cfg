\* A DRY_RUN and two live executions for one key under the fairness of n8n; they
\* end, so the system may stop.
SPECIFICATION FairSenderSpec
CONSTANTS
    k1 = k1
    s1 = s1
    e1 = e1
    e2 = e2
    e3 = e3
    NoKey = NoKey
    NoReq = NoReq
    NoExec = NoExec
    Keys <- OneKey
    Servers <- OneServerSet
    Execs <- ThreeExecs
    KeyOf <- SameKey
    DryRun <- OneDry
    MaxPosts = 2
INVARIANTS
    OnePosterPerKey
    EveryPostIsListed
    SentMeansMailed
    RefusalHasCause
PROPERTIES
    NoPostAfterDefiniteOutcome
    EndsUnlessLooping
    SendsOnce
CHECK_DEADLOCK FALSE
