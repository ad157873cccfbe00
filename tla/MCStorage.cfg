SPECIFICATION Spec
SYMMETRY Symmetry
CONSTANTS
    None = None
    Limit = 1
    Length = 3
    Restores = 1
    Indices = 1
    Archives = {a, b}
    Blocks = 3
    Entries = 2
    Rots = 1
    Stamps = 1
    Commanded = {a, b}
    Starts = 2
    Requests = 2
    Tokens = 3
    Talk = 1
    Sizes = {1, 2}
    Additions = 1
    Prices = 1
    Lives = 2
    Clerks = {a, b}
    Rows <- MCRows
    Fetched = "m"
    Listing = {1}
    Documents = 2
    Valid = 2
    Times = 2
    Begun = 3
    Deaths = 1
INVARIANTS CachesAgree ArchivesAreExact NoOrphans MoneyIsAccounted
CHECK_DEADLOCK FALSE
