\* Every learning rule and text that drafting tells apart, all safety actions
\* enabled, and a host that answers in every way.
SPECIFICATION FairSpec
CONSTANTS
    NoReply = NoReply
    Replies <- AllReplies
    Rows <- AllRows
    Tables <- AllTables
    AITexts <- DraftTexts
    EnabledActions <- Actions
    HasKey = TRUE
INVARIANTS
    ReclassifiedByNewestRule
    TokensNeverLeave
    ClaimsAreFlagged
    ActionsPrecedeApproval
    VerifiedMeansBlocked
PROPERTIES
    DecisionEnds
CHECK_DEADLOCK FALSE
