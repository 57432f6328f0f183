SPECIFICATION HSpec
CONSTANTS
    c1 = c1
    NoRow = NoRow
    NoPage = NoPage
    NoDecision = NoDecision
    Cases = {c1}
    Creations = {h1, h2}
    Tabs = {t1, t2}
    Keys = {h1, h2}
    CaseOf <- MCCaseOf
    KeyOf <- MCKeyOf
SYMMETRY Symmetry
INVARIANTS
    HTypeOK
    RepliesAreApproved
    LinkSendsItsDraft
    OneReplyPerKey
PROPERTIES
    DenialIsFinal
    ApprovalIsFinal
CHECK_DEADLOCK FALSE
