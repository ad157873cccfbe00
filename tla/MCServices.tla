------------------------------ MODULE MCServices ------------------------------
(* The way of a message of Feishu (the connection, the base agent and its forks,   *)
(* the card of the answer) and what runs beside the conversations.  These parts    *)
(* share no state with each other: one of them is picked at the start, the others  *)
(* stay off.                                                                       *)
EXTENDS Naturals, FiniteSets, TLC

CONSTANTS
    None,
    \* the connection
    Mail, Kind, Content, Blank, Reconnects, Window, EventWindow, Broken, Sent, Links,
    \* the forks and the cards
    Limits, Drains, Messages, Fragments, Refusals, Expiries,
    \* the memory
    Leader, Child, Facts, Decisions, Keep, Recent, JournalKeep, Observed, Lives,
    \* publication and the work log
    Publishers, Versions, Edits, Attempts, Failures, Reviews,
    Moments, Batch, Tries, Losses, Seekers,
    \* the tree of agents
    Root, Children, Goals, Modes, MaxDepth, Fanout, Routings, Interrupts,
    \* the locks
    Processes

VARIABLES part, link, crowd, card,
          live, mem, old, later, disk, archive, journal, heard, count, pub, w, mode, t, lock

deliveryVars == <<link, crowd, card>>
memoryVars == <<live, mem, old, later, disk, archive, journal, heard, count>>
teamVars == <<mode, t>>
vars == <<part, deliveryVars, memoryVars, pub, w, teamVars, lock>>

Socket == INSTANCE Socket WITH Lives <- Links, w <- link
Forks == INSTANCE Forks WITH f <- crowd
Cards == INSTANCE Cards WITH Failures <- Refusals, k <- card
Memory == INSTANCE Memory
Publisher == INSTANCE Publisher
Worklog == INSTANCE Worklog WITH Failures <- Losses
Team == INSTANCE Team
Locks == INSTANCE Locks WITH v <- lock

ASSUME ServicesAssumption ==
    /\ Socket!SocketAssumption /\ Forks!ForksAssumption /\ Cards!CardsAssumption
    /\ Memory!MemoryAssumption
    /\ Publisher!PublisherAssumption /\ Worklog!WorklogAssumption
    /\ Team!TeamAssumption /\ Locks!LocksAssumption

MCKind == <<"text", "post", "garbled", "image">>
MCContent == <<"hello", "hello", "status", Blank>>

NoDelivery == link = None /\ crowd = None /\ card = None

NoMemory ==
    /\ live = None /\ mem = None /\ old = None /\ later = None /\ disk = None
    /\ archive = None /\ journal = None /\ heard = None /\ count = None

NoWork == pub = None /\ w = None
NoTeam == mode = None /\ t = None

NoServices == NoMemory /\ NoWork /\ NoTeam /\ lock = None

Init ==
    \/ /\ NoServices
       /\ \/ part = "socket" /\ Socket!Init /\ crowd = None /\ card = None
          \/ part = "forks" /\ Forks!Init /\ link = None /\ card = None
          \/ part = "cards" /\ Cards!Init /\ link = None /\ crowd = None
    \/ /\ NoDelivery
       /\ \/ part = "memory" /\ Memory!Init /\ NoWork /\ NoTeam /\ lock = None
          \/ part = "publisher" /\ Publisher!Init /\ NoMemory /\ w = None /\ NoTeam /\ lock = None
          \/ part = "worklog" /\ Worklog!Init /\ NoMemory /\ pub = None /\ NoTeam /\ lock = None
          \/ part = "team" /\ Team!Init /\ NoMemory /\ NoWork /\ lock = None
          \/ part = "locks" /\ Locks!Init /\ NoMemory /\ NoWork /\ NoTeam

DeliveryNext ==
    /\ UNCHANGED <<memoryVars, pub, w, teamVars, lock>>
    /\ \/ part = "socket" /\ Socket!Next /\ UNCHANGED <<crowd, card>>
       \/ part = "forks" /\ Forks!Next /\ UNCHANGED <<link, card>>
       \/ part = "cards" /\ Cards!Next /\ UNCHANGED <<link, crowd>>

ServicesNext ==
    /\ UNCHANGED deliveryVars
    /\ \/ part = "memory" /\ Memory!Next /\ UNCHANGED <<pub, w, teamVars, lock>>
       \/ part = "publisher" /\ Publisher!Next /\ UNCHANGED <<memoryVars, w, teamVars, lock>>
       \/ part = "worklog" /\ Worklog!Next /\ UNCHANGED <<memoryVars, pub, teamVars, lock>>
       \/ part = "team" /\ Team!Next /\ UNCHANGED <<memoryVars, pub, w, lock>>
       \/ part = "locks" /\ Locks!Next /\ UNCHANGED <<memoryVars, pub, w, teamVars>>

Next == UNCHANGED part /\ (DeliveryNext \/ ServicesNext)

Spec == Init /\ [][Next]_vars

Symmetry == Permutations(Facts) \cup Permutations(Children) \cup Permutations(Goals)

-----------------------------------------------------------------------------

\* A message comes through the connection once, is worked on once and in order, its answer
\* enters the history once, and the card of an answer ends with the last state of it,
\* however its calls and timers fall (feishu/websocket.ts, runtime/ConversationRuntime.ts,
\* feishu/patch-scheduler.ts).
MessagesAreCarried ==
    /\ part = "socket" => Socket!SocketIsKept
    /\ part = "forks" => Forks!ForksAreExact
    /\ part = "cards" => Cards!CardsAreKept

\* A file with nothing put off holds what the latest secretary of the agent knows, and the
\* limit of the working set forgets nothing that a secretary has taken in
\* (memory/SecretaryProxy.ts).
MemoryIsKept == part = "memory" => Memory!SnapshotIsLatest /\ Memory!NothingIsForgotten

\* A report has one document and one audit document, whatever was lost, and a complete job is
\* in both (worklog/Publisher.ts).
ReportIsPublishedOnce ==
    part = "publisher" => Publisher!OneDocument /\ Publisher!CompleteIsPublished

\* The capture keeps what the cursor passed but for the paused and what is older than the process
\* that wrote the first cursor, and nothing private; what no report contains yet is noted as new
\* or pending (worklog/Store.ts, worklog/Service.ts).
WorklogIsComplete ==
    part = "worklog" => Worklog!CaptureIsExact /\ Worklog!NothingUnreported

\* An agent that is waited for can still end (pm/ProcessManager.ts, store.ts).
WaitedForIsAlive == part = "team" => Team!WaitedForIsAlive

\* Nobody gets in beside a living owner unless the wrong lock was cleared
\* (session/JournalLock.ts, session/RuntimeOwner.ts).
ExclusiveUnlessCleared == part = "locks" => Locks!ExclusiveUnlessCleared

=============================================================================
