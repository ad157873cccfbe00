SPECIFICATION Spec
CONSTANTS
    None = None
    Count = 3
    Texts <- Questions
    Deliveries = 3
    Crashes = 0
    MaxConcurrent = 2
INVARIANT FollowupsAreAnswered
CHECK_DEADLOCK FALSE
