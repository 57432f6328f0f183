\* One process, two keys: the deployed sidecar.
SPECIFICATION Spec
CONSTANTS
    k1 = k1
    k2 = k2
    s1 = s1
    NoKey = NoKey
    NoReq = NoReq
    Keys <- TwoKeys
    Servers <- OneServerSet
INVARIANTS
    UnfinishedIsLocked
    AtMostOneGrant
    OrphanLockNeedsAbort
PROPERTIES
    OwnershipSpec
