SPECIFICATION Spec
CONSTANTS
  Contracts = {"file", "suite"}
  Sigs = {"write", "cmd"}
  Kinds = {"turns"}
  MaxAttempts = 2
  MaxUsed = 1
  MaxTools = 2
  Slots = 2
  MaxRev = 2
  Dispatched = {1}
  MaxTrouble = 1
CHECK_DEADLOCK FALSE
PROPERTIES StopsAreResolved RetriesAreLaunched
