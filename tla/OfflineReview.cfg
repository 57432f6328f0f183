SPECIFICATION Spec
CONSTANTS
    MaxCreations = 2
    Submissions = {s1, s2}
    Identities = {"reviewer", "stranger"}
    Allowlist = {"reviewer"}
    CaseInputs <- MCCaseInputs
    Blank = Blank
    NoRow = NoRow
    NoForm = NoForm
SYMMETRY Symmetry
INVARIANTS
    HandoffIsApproved
PROPERTIES
    StoredDecisionIsFinal
CHECK_DEADLOCK FALSE
