SPECIFICATION Spec
SYMMETRY Symmetry
CONSTANTS
    None = None
    Mail = {1, 2, 3, 4}
    Kind <- MCKind
    Content <- MCContent
    Blank = Blank
    Reconnects = 2
    Window = 2
    EventWindow = 1
    Broken = 4
    Sent = 5
    Links = 2
    Limits = {1, 3}
    Drains = {TRUE, FALSE}
    Messages = 6
    Fragments = 3
    Refusals = 1
    Expiries = 1
    Leader = leader
    Child = child
    Facts = {a, b}
    Decisions = {d}
    Keep = 1
    Recent = 1
    JournalKeep = 2
    Observed = 3
    Lives = 1
    Publishers = {service, cli}
    Versions = 2
    Edits = {e}
    Attempts = 2
    Failures = 2
    Reviews = 1
    Moments = 3
    Batch = 2
    Tries = 1
    Losses = 1
    Seekers = {"service", "cli"}
    Root = Root
    Children = {a, b}
    Goals = {g, h}
    Modes = {"adaptive", "hierarchical"}
    MaxDepth = 4
    Fanout = {1}
    Routings = {TRUE}
    Interrupts = 1
    Processes = {p1, p2, p3}
INVARIANTS MessagesAreCarried MemoryIsKept ReportIsPublishedOnce WorklogIsComplete WaitedForIsAlive ExclusiveUnlessCleared
CHECK_DEADLOCK FALSE
