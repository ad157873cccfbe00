SPECIFICATION Spec
SYMMETRY Symmetry
CONSTANTS
    Processes = {p, q}
    Rows <- MCRows
    Fetched = "m"
    Listing = {1}
    Documents = 2
    Valid = 4
    Times = 3
    Begun = 3
    Deaths = 1
    None = None
INVARIANT PriceIsListed
CHECK_DEADLOCK FALSE
