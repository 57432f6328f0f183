SPECIFICATION HSpec
CONSTANTS
    c1 = c1
    NoRow = NoRow
    NoPage = NoPage
    NoDecision = NoDecision
    Cases = {c1}
    Creations = {h1}
    Tabs = {t1, t2}
    Keys = {h1}
    CaseOf <- MCCaseOf
    KeyOf <- MCKeyOf
SYMMETRY Symmetry
PROPERTIES
    ReopenedMeansNotSent
CHECK_DEADLOCK FALSE
