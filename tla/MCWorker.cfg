SPECIFICATION FairSpec
CONSTANTS
    Responses <- MCResponses
    SharedTurns = 4
    TurnCap = 3
    StallLimit = 2
    Nudges = 1
    SilentNudges = 1
    MissingNudges = 1
    Rejections = 2
    Says = 1
INVARIANTS SuccessIsSettled QueueIsDrained
PROPERTIES StoppedIsSilent EndIsReached
CHECK_DEADLOCK FALSE
