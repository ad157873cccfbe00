SPECIFICATION AgentsSpec
CONSTANTS
    None = None
    Kinds = {"chat", "fork", "root", "sub"}
    Responses <- MCResponses
    Requests = 3
    Spawns = 1
    Inputs = 1
    Nudges = 2
    SilentNudges = 1
    Chain <- MCChain
    Other = "other"
    Cli = {"cli"}
    MaxRetries = 2
    Heard = 3
    Selections = 1
    Restarts = 1
    Members = {a}
    Wait = 2
    Limit = 1
    Ticks = 6
    Starts = 2
    Workers = {"x", "y"}
    CallIds <- MCIds
    Claims = {TRUE, FALSE}
    Issued = 2
    Deaths = 1
    Ring = 2
    Shown = 1
    TopFacts = 1
    LastDecisions = 1
    Talk = 4
    Epochs = 2
    Role <- MCRole
    Parent <- MCParent
    Happens = 3
    Lost = 1
    Dies = 1
    Count = 3
    Texts = {"change", "task", "ask", "follow", "status"}
    Deliveries = 3
    Crashes = 1
    MaxConcurrent = 2
INVARIANTS CountIsExact NoDeadZone RepliedReleases RequestsAreAccounted ChildrenAreTimed  OneFinal InboxHasTaker
PROPERTIES ParentIsTold
CHECK_DEADLOCK FALSE
