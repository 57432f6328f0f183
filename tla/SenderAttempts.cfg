\* One execution, one more POST than the documented three.
SPECIFICATION SenderSpec
CONSTANTS
    k1 = k1
    s1 = s1
    e1 = e1
    e2 = e2
    e3 = e3
    NoKey = NoKey
    NoReq = NoReq
    NoExec = NoExec
    Keys <- OneKey
    Servers <- OneServerSet
    Execs <- OneExec
    KeyOf <- SameKey
    DryRun <- AllLive
    MaxPosts = 4
INVARIANTS
    AtMostThreeAttempts
CHECK_DEADLOCK FALSE
