\* Every list of up to four outcomes (one more than the attempts allowed) and
\* of up to five polls.
SPECIFICATION PlansSpec
CONSTANTS
    Outcomes <- SampleOutcomes
    Matches <- SamplePolls
    MaxOutcomes = 4
    MaxPolls = 5
INVARIANTS
    PlanIsFirstDefiniteAnswer
    PlanFollowsLayer1
    ReconcileIsFirstDecidingPoll
CHECK_DEADLOCK FALSE
