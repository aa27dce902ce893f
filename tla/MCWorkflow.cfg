SPECIFICATION Spec
CONSTANTS
    Drafts <- MCDrafts
    Library <- MCLibrary
    MaxCalls = 3
    MaxRetries = 1
INVARIANTS PublishedIsTrue PlanRunsThrough GoalIsCarried
CHECK_DEADLOCK FALSE
