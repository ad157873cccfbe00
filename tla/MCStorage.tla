------------------------------ MODULE MCStorage ------------------------------
(* What lies around the journal of a session and shares no state: one part is *)
(* picked at the start, the others stay off.                                  *)
EXTENDS Naturals, FiniteSets, TLC

CONSTANTS
    None,
    \* the databases and filters of the history
    Limit, Length, Restores, Indices,
    \* the archives in chunks
    Archives, Blocks, Entries, Rots, Stamps,
    \* the commands
    Commanded, Starts,
    \* the budget
    Requests, Tokens, Talk, Sizes, Additions, Prices, Lives,
    \* the prices
    Clerks, Rows, Fetched, Listing, Documents, Valid, Times, Begun, Deaths

VARIABLES part, cache, archive, command, budget, book

vars == <<part, cache, archive, command, budget, book>>

Caches == INSTANCE Caches WITH v <- cache
Chunks == INSTANCE Archives WITH v <- archive
Commands == INSTANCE Commands WITH v <- command, Tokens <- Commanded
Budget == INSTANCE Budget WITH v <- budget
Book == INSTANCE Prices WITH v <- book, Processes <- Clerks

ASSUME StorageAssumption ==
    /\ Caches!CachesAssumption /\ Chunks!ArchivesAssumption
    /\ Commands!CommandsAssumption /\ Budget!BudgetAssumption /\ Book!PricesAssumption

\* The parts that are off.
NoHistory == cache = None /\ archive = None
NoMoney == budget = None /\ book = None

Init ==
    \/ part = "caches" /\ Caches!Init /\ archive = None /\ command = None /\ NoMoney
    \/ part = "archives" /\ Chunks!Init /\ cache = None /\ command = None /\ NoMoney
    \/ part = "commands" /\ Commands!Init /\ NoHistory /\ NoMoney
    \/ part = "budget" /\ Budget!Init /\ book = None /\ NoHistory /\ command = None
    \/ part = "prices" /\ Book!Init /\ budget = None /\ NoHistory /\ command = None

Next ==
    /\ UNCHANGED part
    /\ \/ part = "caches" /\ Caches!Next /\ UNCHANGED <<archive, command, budget, book>>
       \/ part = "archives" /\ Chunks!Next /\ UNCHANGED <<cache, command, budget, book>>
       \/ part = "commands" /\ Commands!Next /\ UNCHANGED <<cache, archive, budget, book>>
       \/ part = "budget" /\ Budget!Next /\ UNCHANGED <<cache, archive, command, book>>
       \/ part = "prices" /\ Book!Next /\ UNCHANGED <<cache, archive, command, budget>>

Spec == Init /\ [][Next]_vars

\* Two tables that overlap; the first has a row of another scope too.
MCRows ==
    {[table |-> "a", scope |-> "m", since |-> 0, to |-> 2],
     [table |-> "a", scope |-> "n", since |-> 0, to |-> 3],
     [table |-> "b", scope |-> "m", since |-> 1, to |-> 3]}

\* These have the same names: they are never there together.
Symmetry == Permutations(Archives \cup Commanded \cup Clerks)

-----------------------------------------------------------------------------

\* What is kept of the history agrees with it: a page or an audit shows what a replay of the
\* history shows, and a search misses nothing (session/AuditIndex.ts, session/SearchIndex.ts).
CachesAgree == part = "caches" => Caches!ShownIsReplay /\ Caches!SearchIsComplete

\* What a reader of an archive is given is what was stored, and it does not come to the end of
\* a damaged file (session/ArchiveChunkStore.ts).
ArchivesAreExact == part = "archives" => Chunks!ReadIsExact /\ Chunks!DamageIsFound

\* A command that runs is known to the journal (tools/command.ts, tools/supervisor.ts).
NoOrphans == part = "commands" => Commands!NoOrphans

\* Money spent is not forgotten, contracts never overlap or come back, and a reservation quotes
\* a price in force (session/Budget.ts, session/PriceImport.ts).
MoneyIsAccounted ==
    /\ part = "budget" => Budget!SpendingIsKept
    /\ part = "prices" => Book!BookIsSound /\ Book!QuoteIsCurrent

=============================================================================
