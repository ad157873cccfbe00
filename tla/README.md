# A TLA+ model of spawn

This directory holds TLA+ specifications of `spawn`, a terminal program in which
a leading agent (the PM) dispatches goals to worker agents that talk to language
models, run tools and commands, and work on copies of the user's project. It
lives in `src/tui-ink/`; paths below are relative to `src/tui-ink/src/` unless
they start with `src/`.

The program is one Node process per project, with helpers (`storage:session`
commands, a second terminal, audit workers, a publisher of work reports) that
open the same files. Inside the process everything runs in one thread, so what
interleaves are the pieces between two `await`s, callbacks, timers, answers of
models, ends of tools and messages. Across processes, every system call
interleaves. The models take these pieces as their actions.

1. Inventory, 2. Modules, 3. What the runs show, 4. What is proved,
5. Where code and documents disagree, 6. Abstractions, 7. Plan, 8. Not modelled.

## 1. Inventory

| part (source) | state | operations | correct when |
|---|---|---|---|
| **Session journal** `session/Journal.ts`, `session/Storage.ts` | the active file, sealed segments, checkpoint; per process the reduced projection and cached stamps | `refresh` (no lock), `append` under the lock, repair of a torn tail, `rotate`, checkpoint | the files are one hash chain; an acknowledged event stays; a projection is a prefix of the log, and the whole log in the guard of an append |
| **Retention, history, backup** same, `session/Backup.ts`, `session/ArchiveChunkStore.ts` | two copies of a baseline, archives of memory events and their cache of unpacked rows, pins, the backup store | maintenance, `removeRetired`, `backup`, `visitHistory`, reading an archive in pieces | nothing is deleted that a baseline, a running backup or a reader still needs; a reader is given what was stored |
| **Locks** `session/JournalLock.ts`, `session/RuntimeOwner.ts` | lock directory, owner file, transition file | acquire, clear after a death, release | nobody is beside a living owner |
| **Budget and prices** `session/Budget.ts`, `PriceImport.ts`, `PriceSync.ts`, `Pricing.ts` | reservations in the journal, a floor file beside it, the price book | reserve, settle, import, replace, revoke, fetch | money spent is never forgotten; a reservation quotes a price in force |
| **Audit, transcript, search** `session/AuditIndex.ts`, `TranscriptWorker.ts`, `SearchIndex.ts` | a private database of rows with a manifest, filters of sources | load, build, checkpoint, search | what is shown is what a replay would show |
| **Tasks and attempts** `session/Tasks.ts`, `runtime/TaskRecovery.ts`, `session/Control.ts` | journaled tasks with budgets, operations, outcomes and verdicts; timers, evaluations and launches in memory | admission, tools, evaluation, retry, commands of the PM, change of the requirement, stop, restart | no effect is repeated; acceptance is verified; a closed task stays closed; no stop or retry is forgotten |
| **Private workspaces** `session/Workspaces.ts` | a copy of the project per task, its base, a pending publication | enter, publish file by file, resume, resolve conflicts | publishing never overwrites what the task does not know; accepted means published |
| **Worker, leader, HTTP agent** `runtime/WorkerHandler.ts`, `runtime/LeaderHandler.ts`, `adapters/httpAgent.ts` | queue of prompts, the request under way with its permit and chain of models, batches of tools, children, counters of reminders and limits | answers, tool batches, approvals, reminders, circuits, retries, stop | success is accepted only on settled work; every agent ends or is reminded; permits are settled |
| **The tree of agents** `store.ts`, `pm/ProcessManager.ts`, `runtime/SessionRuntime.ts`, `runtime/SessionController.ts` | for each agent what the store shows, its instance, its bus entry, its foreground wait and its statistics | spawn with its rules, ends, kill, interrupt, changed requirement, resume, prune, time limits | who is waited for can still end; a child is told of its own time only |
| **Tools and commands** `tools/registry.ts`, `tools/command.ts`, `tools/supervisor.ts`, `tools/processRecovery.ts` | records of calls, approvals that are owed, records of commands, supervisors and shells | decide, ask the leader or the user, run, recover | a command runs as often as it was issued or approved; one that runs is known |
| **Feishu** `feishu/*`, `runtime/FeishuBridge.ts`, `runtime/ConversationRuntime.ts` | the link, filters of ids, input window, inbox in the journal, locks and queues of a conversation, forks, aggregators, cards and patches | receive, filter, join, dispatch, fork, reply, patch, reconnect | a message is worked on and answered once; its card ends in the last state |
| **Memory and context** `memory/*`, `bus/Bus.ts`, `context/LogContextBuilder.ts` | working set, snapshot, archive of facts, ring of events with cursors | note, cut, save (put off), load, pass up, replay | a snapshot is what the latest secretary knew; a gap is said |
| **Work log** `worklog/*` | captured events, cursor, uploads, reports, outbox of versions, leases, intents | capture, pause, upload, generate, publish, review | a report has one document; nothing unreported is forgotten; nothing private is captured |
| **Runtime trace** `runtime/AgentOSJournal*.ts` | entries in memory and in a file | map an event to a command between two roles, append, save, load | ends are traced; what was saved stays |

How they interact: the worker handler reports to the task controller through
journal events (`agent.done`, `task.*`), which `queueTaskResolution` turns into
an evaluation; the evaluation asks `publishWorkspace` to copy the task's files
back; all three append to the journal under its lock and read it through
`refresh`. A change of the user's requirement raises the conversation's
revision, and the reducer of the journal fences every task event of an older
revision. Leaders and workers meet in the bus, which calls `sendCommand` of the
target and so queues a prompt; in the store, where a parent reads whether a
child is active; and in the process manager, whose promise for a foreground
child resolves with its end, with the two minutes, or with nothing when it is
killed. Every request of an agent takes a permit from the budget, which quotes a
price from the book and writes to the journal. Messages of Feishu come through
the socket's filters and the input window to the dispatcher, which journals them,
locks the conversation and starts or wakes a PM; what the PM says goes through
the aggregator back to Feishu.

The hard behaviours are the `hazards` of `PROJECT.json`, each at its line. They
are of five families: readers without a lock against writers that rename files;
values read before an await and used after it; callbacks that overtake each other
in one process while counters stand for "something is still under way"; deaths
between two writes that belong together; and answers that are late, lost or
repeated.

## 2. Modules

`PROJECT.json` maps every definition to its lines. Names of the source are kept
where TLA+ allows. The newer modules keep the state of a component in one record
and describe events as operators from record to record, because one answer of a
model is a list of events handled without interruption.

| module | models | state and actions |
|---|---|---|
| `EventLog` | what the journal promises: a log that only grows, acknowledgements, prefixes shown to readers | abstract; four actions |
| `Journal` | journal files and processes | `entries`, `cuts`, `torn`, `ckpt` are the files; `cache[p]` is the `SessionJournal` object, `pc[p]`/`found[p]` the system call it stands before and what earlier calls returned. The unlocked `refresh` is cut at every system call, the locked one is a single step, since writers are excluded; writing, fsync, rename and checkpoint may fail or be the last before a crash |
| `JournalProofs` | theorems about `Journal` | |
| `Retention` | baselines, archives, deletion, backup, history visits | segments are positions in the log; each piece of `performMaintenance` between awaits is an action |
| `RetentionProofs` | theorems about `Retention` | |
| `Archives` | reading an archive through the cache of unpacked blocks | blocks and rows rot, files are replaced, readers die; the digest comes last |
| `Caches` | database of a page or an audit, filters of the search | the history is a sequence of events cut into sources; a hash is a prefix of it |
| `Locks` | both locks, call by call | three processes that may die anywhere |
| `Budget`, `Prices` | spending with its floor; contracts and fetched prices with the reservations that quote them | the journal and the floor are two writes; a price command reads twice and appends under a guard |
| `Tasks` | one goal over revisions: task, attempts, operations, evaluation, timers, launches, PM | the journaled part is `work`, the part that dies with the process is `here`, `live`, `eval`, `armed`, `launch`, `publishing`; an evaluation runs its tests, checks its files, publishes and decides in steps of its own |
| `TasksProofs` | theorems about `Tasks` | |
| `Workspaces` | several tasks that publish into one project | calls under way are `job[j]`, with what they have read; `lock` is `workspaceExclusive` |
| `WorkspacesProofs` | theorems about `Workspaces` | |
| `Worker` | one worker: event handler and agent | one record `w`; `w.loop` is the queue of `setImmediate` callbacks |
| `WorkerProofs` | theorems about `Worker` | |
| `Leader` | one leader of four kinds: the PM of a terminal, of a Feishu conversation, a fork, a leader under another | one record `l`; children are counted, in the foreground or in the background; `missed` is history |
| `LeaderProofs` | theorems about `Leader`, `Requests`, `Watch`, `Calls`, `Replay` and `Trace`, as `MCAgents` composes them | |
| `Requests` | one agent's requests over the chain of models | phases of a request, its permit, the queue, the stop of a subscription |
| `Team` | the tree of agents | `info` is the store, `live` the instances, `fg` the foreground waits, three records of one fact |
| `Watch` | the process manager's clocks | ticks; handles, timers, statistics, approvals |
| `Calls` | from a tool call to its effect | records in the journal, approvals owed by leaders and shown to the user |
| `Commands` | application, supervisor, shell and their files | any of them dies at any step |
| `Socket`, `Conversations`, `Cards`, `Forks` | a message from Feishu to its answer: link and filters; window, dispatcher, PM, forks, replies; the card and the token; `ConversationRuntime` | `Conversations` starts behind the filters, `Cards` shows what a reply becomes |
| `Memory`, `Replay` | a secretary's working set and files; the ring and what is rebuilt from it | two agents and a restart; saves are put off |
| `Worklog`, `Publisher` | capture, upload and reports; publication of one report | requests may be carried out without an answer, or later |
| `ServicesProofs` | theorems about `Worklog`, `Publisher`, `Memory`, `Socket`, `Forks`, `Cards` and `Locks`, as `MCServices` composes them | |
| `StorageProofs` | theorems about `Commands`, `Prices`, `Budget` and `Archives`, as `MCStorage` composes them | |
| `Trace` | entries of who told whom what | the routes are a table over roles |

`MC<module>` gives values to constants that a configuration cannot express, and
symmetry sets. Components that share no state are checked together:
`MCStorage` (Caches, Archives, Commands, Budget, Prices), `MCServices` (Socket,
Forks, Cards, Memory, Publisher, Worklog, Team, Locks) and `MCAgents` (Leader,
Requests, Watch, Calls, Replay, Trace, Conversations) pick one part at the start
and leave the others off, so a property of a part is about all behaviours of it.

How they fit: `Retention` uses `Journal`'s files as positions and replaces the
chain by their order; `Tasks` takes the journal as atomic appends, which is what
`EventLog` allows and `JournalImplementsEventLog` justifies for a process that
appends under the lock; `Locks` looks at that lock; `Workspaces` takes a task's
status from the steps of `Tasks` it needs; `Worker` sees the task controller as
two facts, the shared turns and `Granted`; `Leader` sees its children as a count
and their ends as events, which `EndIsReached` of `Worker` promises; `Team` sees
the turns of both only as starts and ends; `Conversations` sees the turns of a PM
as replies and releases of the lock, in the orders that `Leader` allows.

## 3. What the runs show

Safety runs explore all reachable states of their instance.

| run | instance | shows |
|---|---|---|
| `journal` | 2 processes, 2 records, a segment holds 2, 1 crash; torn writes, failed fsync, failed checkpoint, forced rotation | the hash chain, durability of acknowledged events, prefixes, currency of a writer's projection, no refusal of undamaged files; `EventLog` is implemented |
| `retention` | 2 processes, log of 2, 2 cuts, 2 jobs, 1 fault, one event that is not memory | the files always load, and either copy alone after the loss of the other unless two maintainers overlap; running backups keep their files, finished visits are complete |
| `tasks` | 2 attempts, 1 shared turn, 2 tools, contracts "file" and "suite", 2 revisions, 2 launches at once, 2 disturbances | one attempt per effect and budgets over retries, verified acceptance, ends stay, no two workers of a task |
| `tasks_live` | the same with 1 disturbance | stops are resolved, retries are launched or given up |
| `workspaces` | 2 tasks, 2 files, 2 calls at once, 2 writes, 1 request of the PM, 2 disturbances | nothing is overwritten unknown, obsolete publications stop; accepted means published |
| `worker` | 4 shared turns, a cap of 3, 11 kinds of answers, 1 message of the parent, 1 reminder of each kind, 2 refused successes | success on settled work only, no stranded queue, silence after the end, an end in every fair run |
| `agents` | see `MCAgents.cfg` | the count of running tools is exact; no exit of a turn leaves a leader silent and the conversation locked; the parent of a leader is told (liveness); permits, queues and stops of requests; foreground waits; effects of calls, replay and trace. Conversations with 3 messages of any of 5 classes, 3 deliveries, 1 crash and 2 concurrent tasks: at most one final answer per message; every journaled message has somebody to take it |
| `storage` | histories of 3 events with a restore, archives of 3 blocks, 2 commands, a budget of 2 requests over 2 lives, 2 price clerks | caches agree with a replay, archives are exact, commands that run are known, money is accounted |
| `services` | 4 messages of Feishu and 2 reconnects, 6 of a conversation with 1 or 3 at work, 1 card with a refused call, 1 restart of memory, 2 publishers with 2 failures, 3 moments of work with a pause, a tree of 3 agents with 1 kill or change, 3 processes at a lock | messages through the socket, the forks and the card, snapshots and facts, one document per report, nothing unreported forgotten or private captured, who is waited for can end, locks exclude |

Three more runs expect a violation, `conversations_answer`, `prices_listed` and
`tasks_review`; section 5 tells them.

What the composed properties say, part by part:

- `MessagesAreCarried`: `Socket!SocketIsKept` (a message handed on twice in one
  life has fallen out of a filter; the client gives up only after five failures
  in a row), `Forks!ForksAreExact` (each accepted message runs once, the history
  holds each answer once), `Cards!CardsAreKept` (a change has somebody to send
  it, the last call to arrive shows the last state, one token request at a time).
- `AcceptedIsVerified`: a task is accepted with no effect in doubt and a passing run
  of its suite. Its file check holds at the acceptance, though the publication is
  awaited in between, unless somebody edited the file during it (`slipped`).
- `StoppedIsSilent`: the one callback that wakes a worker after a kill, the refusal of a
  success that was on the loop by then (`WorkerHandler.ts:295`), is excepted by
  `Rouses`, with what queues behind it; the request of that turn is refused.
- `NoOrphans`: under a record that says ended, neither the shell runs nor a child that
  holds its pipes; one that has closed them may (section 5).
- `WorklogIsComplete`: no event that the server has is left out of every report and
  every request for one, and what the cursor has passed is captured but for pauses
  and for what is older than the process that wrote the first cursor (section 5).
- `DeedsAreKept`: `Calls!CallsAreExact` (an effect for each issue or approval,
  no result without a record, an approval owed to each worker that waits; calls
  that share an id share the approval, `mixed`, and one on an id that is still open
  is not told from the first, `again`), `Replay!NothingSlips` and `GapIsReal` (what an
  agent did and was told is in the context that takes the place of its history, or
  the context says that some is missing, and only then; `Unsaid` names what the code
  leaves out silently),
  `Trace!TraceIsKept` (ends of children are traced, saved entries stay, a route
  is never around the mode's rules).
- `RequestsAreAccounted`: permits settled, queue drained, stops kept.
- `CachesAgree`, `ArchivesAreExact`, `MoneyIsAccounted`, `MemoryIsKept`,
  `ReportIsPublishedOnce`, `WorklogIsComplete`, `ReadersAreServed`: the
  conjunctions their comments name.

Every property has a mutant: an operator such as `CompareBlind`,
`ReportLast` or `ExecuteAnyway` that a plausible mistake would make of the
definition it follows; with it the run of the property fails. Mutants are not
part of the model. Conjuncts whose mutant is not in the files were tried by hand:
a client that counts one failure less or does not reset its count, a `getLog`
whose gap is off by one, a table of routes without the PM's way to workers in
adaptive mode, and a projection taken over from an archive or a raw file that has
been replaced, are all found.

### Bounds, and why they suffice

- *Processes, tasks, launches, calls: 2.* Every hazard listed is between one
  actor that looks and acts and one that changes things in between. `Locks` has 3:
  one that is slow, one that clears the same dead owner, one that enters.
- *Journal: two records, segment of two, one crash.* The cases are an empty, a
  non-empty and a freshly sealed active file for a process that knows it, knows
  an older one, or none. The proofs lift the bound.
- *Tasks: two attempts* give "the earlier" and "the latest"; two revisions "old"
  and "current". `MaxTrouble` caps deaths, stops, edits, expiries, refusals and
  commands of the PM together at two, so that all pairs occur in every order.
- *Workspaces: two files* give a publication that is half done.
- *Worker, Leader: limits of 1 or 2 where the code has up to 5, cap 3 for 40.* A
  limit is reached, exceeded or missed by one within the turns there are.
- *Archives: 3 blocks for 2 entries*, so that an entry spans a block and a block
  two entries. *Caches: 3 events*: one source taken over, one half, one new.
  *Prices: two tables that overlap, 2 documents, prices valid for 2 of the
  intervals between fetches*.
- *Socket, Replay: windows of 1 and 2 for 500 to 2000*, with one message more than fits;
  contexts of one fact, one decision and one line for 15, 5 and 50. *Calls: two workers
  with an id of their own each and one they share.* *Requests: a command-line model
  before one behind an API, another to select, 3 prompts, 2 retries, 1 restart.*
- *Team: 2 children* under the root or each other, two goals, both modes with
  rules about layers, one kill or changed requirement; the limit of children is
  1, so that it is reached. With a limit that the user moves between 1 and 2,
  everything holds too (twice the states).

`CHECK_DEADLOCK FALSE` is set throughout because every system may stop: bounds
run out, tasks close, agents end, and no process need start again.

### Fairness

- `Tasks`: weak fairness of evaluations, launches, timers, tools that end, the
  clean-up of orphans and recovery after a restart. These are promises, timers
  and child processes that Node completes, commands have time limits, and none of
  them needs the user. No fairness of the PM, of deaths or of edits.
- `Worker`: weak fairness of the workspace preparation, of a request's end
  (answer, failure or abort; requests have an idle timeout), of the event loop
  and of tools' ends. None for approvals, messages of the parent, retries, the
  user, the deadline or the wall clock: `EndIsReached` must not depend on them.
- `Leader`: the same, and weak fairness of the ends of children, which
  `ParentIsTold` is the reason for. None for messages, follow-ups or kills.
- The others state safety only, except `Conversations`, where
  `FollowupsAreAnswered` is stated at rest and needs none.

## 4. What is proved

Eight modules hold proofs that TLAPS checks. Each theorem holds for every value of
the module's constants: any number of processes, tasks, segments, files, tools and
events, limits of any size, and runs of any length; nothing depends on the bounds
of the runs.

| module | theorems | property of a run |
|---|---|---|
| `JournalProofs` | `TypesHold`, `ChainHolds`, `AcknowledgedStays`, `PrefixesHold`, `WriterHasTheLog`, `NeverRefused` | the six invariants of `journal` |
| | `JournalImplementsEventLog` | `ImplementsEventLog`: initial states map to initial states, each step to a step of `EventLog` or a stutter |
| `RetentionProofs` | `RetentionKept`, `FilesAlwaysLoad`, `ReadersServed` | `Recoverable`, `ReadersAreServed` |
| `TasksProofs` | `EffectsAreOfOneAttempt`, `AcceptanceIsVerified`, `WhatEndedStays`, `NoOverlap` | `EffectsOfOneAttempt`, `AcceptedIsVerified`, `EndsStay`, `WorkersDoNotOverlap` |
| `WorkerProofs` | `WorkerIsSound`, `WorkerTyped`, `SuccessSettled`, `QueueDrained`, `StoppedSilent` | `SuccessIsSettled`, `QueueIsDrained`, `StoppedIsSilent` |
| `LeaderProofs` | `LeaderIsCalm`, `CountTheorem`, `NoDeadZoneTheorem`, `RepliedReleasesTheorem` | `CountIsExact`, `NoDeadZone`, `RepliedReleases` |
| | `RequestsTheorem`, `WatchTheorem`, `DeedsTheorem` | `RequestsAreAccounted`, `ChildrenAreTimed`, `DeedsAreKept` |
| `WorkspacesProofs` | `WsInvariant`, `NothingIsLost`, `AcceptedArePublished` | `NothingLost`, `AcceptedIsPublished` |
| `ServicesProofs` | `WorklogKept`, `LocksExclude`, `PublishedOnce`, `MemoryTheorem`, `MessagesTheorem` | `WorklogIsComplete`, `ExclusiveUnlessCleared`, `ReportIsPublishedOnce`, `MemoryIsKept`, `MessagesAreCarried` |
| `StorageProofs` | `NoOrphansTheorem`, `MoneyTheorem`, `ArchivesTheorem` | `NoOrphans`, `MoneyIsAccounted`, `ArchivesAreExact` |

### Assumptions

The assumptions about constants are those the modules state, and TLC evaluates them in
the runs: `Free` and `None` are no processes, `None` is also no record, limits are
numbers (some at least 1), answers are sequences of events, kinds of contracts and tools
are among those the code knows, contents that the model writes differ from those of
users. Models, the records of handles and calls, and agents of a trace are not `None`,
nobody of a trace is called "user", no text of a message is `None`; a time and the
number of lives in `Watch` are positive.

`JournalProofs` has another one, in each theorem: `LateDirStamps = FALSE`, the time
stamp of a directory changes with a rename in it. The code tries to do without
(`Journal.ts:173`), with the identity of the active file as a second signal. With
`LateDirStamps = TRUE` TLC refutes `WriterIsCurrent`: a process that had read
everything up to the last rotation has offset 0 and no active file, so all three
signals stay silent when another process appends and rotates again.

### Arguments

None of the properties is inductive alone. For each module TLC checked the
invariant below on the module's run before it was proved.

- *Journal.* That a projection is a prefix does not say why `refresh` may skip
  reading. `IInv` adds what a cached stamp vouches for. `FilesInv` orders the cuts
  and makes the checkpoint a prefix that ends at one. `CacheInv` says that the
  directory stamp of a cache never exceeds the segments it has read, and that a file
  stamp with the current identity covers no more than what has been reduced.
  `FoundInv` says the same of what an unlocked `refresh` has collected so far, label
  by label, since its stamps were taken at different moments. `LockInv` says what
  each label of the critical section has established. One lemma per action
  (`StatDirectoryStep` ... `StartStep`) over frame lemmas: a process's part survives
  when another process extends, truncates a torn tail of, or seals the file.
- *Retention.* `Founded` is the core: copy 1 is always the best baseline, copy 2 is
  not ahead of it, the archives of copy 1 and the raw segments after it exist. So
  a deletion up to any baseline a process has ever loaded is harmless, which
  `Works(p)` says of each process (`retire \subseteq 1..copies[1].segs`), together
  with what its label has established: who prepares has archived what it counted,
  who holds the journal lock writes what copy 1 has. `Spared` is about pairs: who
  has read the pins spares what was captured by then, and who captures later needs
  nothing that is listed, since it starts from the best baseline. `Ahead` is the
  visit: requests follow each other without a gap up to the boundary, and what was
  heard is the memory before the next request. `Calm` holds until maintenance of
  two processes overlaps: one maintains (`Single`), both copies are equal once it
  saves and deletes, and its snapshot reaches beyond what it may delete (`Steady`).
- *Tasks.* `TaskInv` is a formula `Sound(...)` over a task's own row of each
  variable and the few values all share. Operations with the same signature are one
  attempt's; what an evaluation or a launch has read is not ahead of the record and
  says how it can have fallen behind; who is stopped is known to be; while nothing
  was overtaken (`stray`) the status tells what is under way. A step changes one row
  in one of eight manners (`Moves`, `RestatingGoes`, `RestingGoes`, `AmendingGoes`,
  `ClosingGoes`, `EndingGoes`, `ReapingGoes`, `DyingGoes`), each with a lemma; each
  action is shown to be of one manner. The action properties are proved from the
  same lemmas (`StepOk`).
- *Worker.* The handler knows its tools by the count `outstanding` and flags only.
  `Whole` ties the count to the tools in callbacks of the event loop and in batches
  that run, one slot of a finite set each, and says what a failure waits for, what
  a stop leaves and who drains the queue. Each operator on the record keeps `Whole`
  and leaves what `Alike` names, so that an answer, a list of events heard without
  interruption, keeps it by well-founded induction over the list.
- *Leader.* `Good` has the count (`Counted`, with the slots of the worker's proof),
  the agreement of the flags (`Tied`), that nothing of a leader at work is marked as
  superseded (`Fresh`), and for a conversation what goes with a failure of an older
  requirement that still waits for its tools (`Late`). Whoever ends a turn leaves
  the leader `Rested`: shown as ended, `Awake` (a message, a batch or a callback
  that wakes it is under way), or `Paid` (reported, children at work, lock free). So
  the three properties follow at rest. An operator that takes a callback or ends a
  batch leaves the count owed (`Owed(v, n)`) until the callback that pays for it is
  appended or run. What is not in `Awake` is the callback that drains the queue: it
  wakes only if something is queued, which `Awake` has.
- *Requests.* `RequestIs` ties the phase of a request to its permit: none at rest, in a
  backoff or while prices are loaded, one that is open and priced for the model that is
  asked while a call is out, and one still open after a kill until the call ends. All
  ways out of a request go through two operators (`Free`, `Settled`), which give the
  permit back and leave a drain if something is queued; a stop is either still set or
  was forgotten as the property says.
- *Watch.* `WatchIs` has for each child one timer for each foreground wait, of the life
  the handle is about (`WaitIs`): a handle whose name was taken over keeps no timer of
  the new life. What a child has lived and what it has waited for together cover the time
  since its start (`LifeIs`), so the time measured with the waits taken off was lived.
  A step moves one child and leaves the others as they are (`Elsewhere`), except for
  the tick.
- *Calls.* `CallsAre` says where a call is: at one place of the queue, under way, or
  read by the leader, and, of calls no model claims, at most one for a worker and an id
  that it did not take again too early (`Single`). Its effect implies that its record is
  no longer pending or its worker was killed, which is why a replay finds it; effects
  together with what is under way are at most what was approved (`Earned`); whom a
  leader has told of a call it owes an answer (`Asked`). Kills and restarts only take
  away (`Cut`, `Fewer`), and records get no weaker (`Stronger`), so one lemma serves
  both.
- *Replay.* `ReplayIs`: the ring is an interval of offsets that ends at the head; the
  facts and decisions recorded are those of the agent's log, in memory all of them and in
  the saved memory all before its cursor; a fact or decision behind the cursor waits for
  its save. So what is not in the saved memory is in the ring and among its newest
  entries, or the context is cut or told to have a gap. How many facts and decisions are
  shown is counted by their cardinality.
- *Socket, Forks, Cards.* `LinkIs` has the failures counted against the client;
  `FilterIs` has a message that was handed on as many places from the end of the filter
  as were claimed since, until the window is over. `ForksIs` has each accepted message at
  one place, waiting, with the base, with a fork or in the history, and if forks are
  drained nothing waits while there is room. `CardIs`: of what is not shown a timer or a
  call is to come, and as long as no end overlaps and no call fails the calls carry the
  last state or the next one does.
- *Trace.* `TraceIs`: entries are of events seen, in order, on routes of the
  mode, the file is the front of them, and what has ended has its entry.
- *Workspaces.* `WsInv` says for each kind of call and each label how far what the
  call carries agrees with record, copy and project (`Knowledge`, `Looked`,
  `Progressed`, `Fetched`), and who is to blame where it does not (`raced`, `late`,
  `foreign`, `touched`). The holder of the lock moves by `Moves`, everybody else by
  `Outside`. That a merge leaves each file in the project follows by induction
  over the rows of a publication.
- *Services.* Work log: an event is secret exactly if a pause holds it, what the
  scanner has passed was captured, skipped or is older than the start of the process that
  wrote the first cursor, a report being written covers what
  the server has or has been marked again. Locks: a contender that found a dead
  owner found one who stays dead (`FoundDead`), owner and transition files belong
  to who holds them (`HeldByHolder`), and the gate of the second lock admits one
  (`Gated`); `wrong` is the exception the property names. Publication: `PubInv` has
  the ledger (`Single`: one document per kind at most, and one that may still come is
  absent and intended; `Placed` and `Written`: where the records point), that only
  the holder of the lease is at work (`Leased`), and what each await has established
  (`Busy`, for the audit `Auditing`); each helper a step may leave by has a lemma.
  Memory: `MemoryInv` says of each agent what its file and archive owe its working
  set (`AgentOk`). A cut of the working set, and what goes up from a child, are
  functions defined by recursion; that they exist and keep the facts is shown by
  induction.
- *Storage.* Commands: `CommandsInv` says of each command how far its supervisor,
  its record and its shell agree (`InStep`: nothing runs before the record is there
  or after it says so), and of the recovery that what it has passed is `Safe`: not
  running, and with no supervisor that could still start it. A step that keeps a
  safe command of an earlier life safe keeps the invariant (`Keeps`). Budget:
  `BudgetInv` has what is used within the limits in the journal, the floor and the
  backup, the floor never below what is due (`FloorHolds`), and between the two
  writes of a reservation the journal ahead by what is about to be granted
  (`Pays`). Prices: `BookInv` keeps what an operation under way is entitled to
  (`Entitled`): as long as no row was appended since its last reading (`current`),
  the revision it is about to append is allowed, and a reservation that was
  appended quoted a price in force.
- *Archives*: a page is a function of the entries that end in a range of blocks
  (`PageIs`), so two pages that meet are one (`PagesJoin`), an entry depends on the
  blocks it lies in alone (`LiesIn`, `JudgedSame`, arithmetic on the two divisions),
  and where as many entries have ended the pages are the same (`PageEnds`). The
  invariant `ArchiveIs`: there is one snapshot of a file at most, its chunks are cut
  in order in what it holds, and one whose digest was checked holds the whole right
  text and all entries (`SnapshotIs`); a reader has been given exactly what its step
  says (`InItsStep`): nothing before it yields, of a stream the entries of what it
  read, of a cache the right entries up to the chunk it is at; and what is right of
  its inputs, cached ones after they were compared, was right in the file it opened
  (`Held`, `Opened`), so a digest that matches means the file was whole.

### Only model-checked

- Liveness (`EndIsReached`, `StopsAreResolved`, `RetriesAreLaunched`,
  `ParentIsTold`): it needs `ENABLED` and fairness, which this prover cannot use.
- `WaitedForIsAlive` of `Team` is not true for all constants: when a child's model
  may be missing (`Routings` contains `FALSE`) the child is left idle without an
  instance (`WorkerHandler.ts:88`), a kill of its parent marks it, and a later spawn
  of the same identity lives while it is still among the killed agents. The run
  takes models that are found.
- `OneFinal` and `InboxHasTaker` of `agents` and `CachesAgree` of `storage`: no proof has been
  attempted; the plan names them.
- Induction over data works here in one form: well-founded induction whose instance the
  prover can unfold, used for a list of events (`Worker`, `Leader`) and the rows of a
  publication (`Workspaces`). The library's theorems that take an operator as a
  parameter cannot be instantiated, so nothing is proved of what a recursive definition
  computes; the modules use no recursive operators, and where an operator had to be
  reasoned about it is a set or a function (`Covering`, `Inserted` and `Requests` of
  `Retention`).

## 5. Where code and documents disagree

Three runs show a violation in every check; `findings` quotes the lines.

| run | statement | what happens |
|---|---|---|
| `conversations_answer` | all follow-ups are eventually answered (`src/tui-ink/src/tests/feishu/convmode-converge.test.ts:141`) | an instruction to an idle PM gets no task of its own, so its reply is taken for a second one to the last message |
| `prices_listed` | a 304 prolongs a verified price only (`src/README.md:899`) | it prolongs a price that the current document no longer lists |
| `tasks_review` (`ReviewRespectsTests`) | acceptance cannot override a failed check (`src/README.md:505`) | a task blocked for inspection keeps the verdict of an earlier attempt, and the PM accepts on it (`TaskRecovery.ts:90`, `:186`) |

The others are found by hand: name the property in the place of the
configuration's own, `tlc -config MC<name>.cfg MC<module>.tla`, and TLC shows the
violation.

| property (configuration) | statement | what happens |
|---|---|---|
| `EitherCopyRecovers` (`MCRetention`) | original segments go only after both baselines are written, either copy then recovers (`src/README.md:403`, `:405`) | `removeRetired` deletes up to the baseline the process last loaded (`Journal.ts:388`), which another maintainer may have written in one copy only |
| `StopIsFinal` (`MCTasks`) | a deliberate stop is not retried by itself (`src/README.md:491`) | an evaluation decides on the outcome it read before its test suite (`TaskRecovery.ts:56`) |
| `OldWorkIsQuiet` (`MCTasksChange`, module `MCTasks`) | tools of the new requirement wait for the old ones (`src/README.md:377`) | a worker stopped just before is `failed`, and not waited for (`Control.ts:64`) |
| `ResolutionsStay` (`MCWorkspaces` with `MaxAsks = 2`) | a resolution is recorded (`src/README.md:582`) | of two resolutions in one turn the second writes back a task read before the lock (`Workspaces.ts:133`) |
| `ProgressIsNotCut` (`MCWorker`, see below) | the hard circuit ends stalled workers (`WorkerHandler.ts:205`) | it ends one that hands over tools in every turn, in the fourth |
| `KilledIsSilent` (`MCAgents`) | no notice to the parent after a kill (`SessionRuntime.ts:79`) | `pm.cancelForeground` resolves the killed leader's waits with nothing, which `WorkerHandler.ts:75` takes for the two minutes; the leader's next request fails and its parent is told of a failure |

`ProgressIsNotCut` needs the limits of the code: `SPECIFICATION Spec`,
`Responses <- DiligentResponses`, `SharedTurns = 40`, `TurnCap = 40`, `StallLimit = 5`,
`Nudges = 3`, `SilentNudges = 2`, `MissingNudges = 2`, `Rejections = 2`, `Says = 0`.

Met while modelling, without a configuration of their own:

- *Locks.* A dead owner is recognised and removed in two calls
  (`JournalLock.ts:27`); with three processes `Locks!Exclusive` is violated: the
  slower of two removes the lock of a third, which `wrong` records. A process
  that dies inside the gate of `RuntimeOwner` leaves it shut, and a record that
  nobody finished is never repaired.
- *Calls.* `Calls!ReplaysAreStopped` ("a replay of the same call id is stopped",
  `src/README.md:379`) is violated: a command that a leader approved runs without
  its id and leaves no record, nor evidence of an execution. Owed approvals are
  kept by call id alone (`WorkerHandler.ts:599`), and every prompt shows the same
  example id: the call of a second worker takes the place of the first one's, whose
  leader then approves the other command, and the first waits for good; so does a
  worker's call on an id it has open. A call whose model claims
  `needs_approval` is shown to the user although the registry decides
  (`registry.ts:1044`): it may run twice, or be rejected after it ran. A risky
  call of a leader below the PM is answered by nobody (`LeaderHandler.ts:402`).
- *Replay.* "The working_set reflects all events published up to this point"
  (`SecretaryProxy.ts:34`) holds of facts and decisions alone: a message that is no
  decision, a call and a known result leave nothing, and the next save moves the cursor
  past them. A context shows 15 facts and 5 decisions without telling that there are more
  (`LogContextBuilder.ts:114`), and a recorded decision has no line in the log until it is
  saved. `Unsaid` excepts these. Before the first save of a new process nothing is
  replayed and no gap is told.
- *Worker.* The refusal of a success with open todos looks whether the worker has ended
  and not whether it was stopped (`WorkerHandler.ts:295`): one stopped in between begins
  one more turn, whose request the task controller refuses.
- *Commands.* A supervisor takes a command for ended when the shell has exited and its
  pipes are closed (`supervisor.ts:56`): a child in the background with redirected
  output runs on under a record that says completed or cancelled, and no recovery looks
  for it. `src/README.md:387` speaks of the whole tree of processes; the limit it names,
  at `:397`, is of children that leave the tree.
- *Publisher.* An edit between the two readings of `appendParts`
  (`Publisher.ts:58`) becomes part of the snapshot and no revision, which
  `src/tui-ink/docs/work-secretary-setup.md:117` promises. *Worklog.* Events
  scanned during a pause are skipped for good; one refused event holds up its
  batch of 100. A scan that finds no cursor passes what is older than its own process
  (`RelayCapture.ts:41`): what a session wrote before it died without a first capture
  stays uncaptured, against "restarting reads the events not consumed yet" and "no
  committed event is lost" (`src/tui-ink/docs/work-secretary-feishu.md:57`, `:83`).
- *Watch.* A killed child's parent is told that it was in the foreground too long
  (`ProcessManager.ts:131`); statistics of a killed child count for its next
  start.
- *Cards.* An end that comes while the card is being created makes a second one
  (`card-renderer.ts:2`); a failed patch is not tried again; the text meant for
  the case that a card cannot be created is never sent.
- *Socket.* An address that `WebSocket` refuses throws out of the timer and ends
  the reconnecting; a link that dies without a close is not noticed; a text
  repeated within five seconds is dropped although it was claimed.
- *Team.* A refused spawn shows the agent as failed for good although it goes on;
  the limit of children counts only those that run, so several spawns of one turn
  exceed it (`src/README.md:101`); a leader whose model cannot be found is waited
  for in the foreground; `resume` loses what was promoted to a parent's memory.
- *Leader.* A PM that replies and fails in one answer, while tools of an earlier turn
  run, waits for them deaf; a requirement changed meanwhile begins a turn whose
  beginning the handler drops with everything else (`LeaderHandler.ts:238`). Its
  flags are then those of the turn before, and the lock of the conversation may
  stay until the next message. `missed` records it; the proof attempt found it, and
  the run has an answer that reaches it.
- *Requests.* The stop of a subscription is remembered over a restart only as the
  agent's last error, which any other error replaces; the path of `context_error`
  leaves its queue waiting (`stuck`); a permit of a changed workspace stays open.
- *Budget, Prices.* A death between a settlement and its floor makes the next
  start take the older, higher one, which is safe. The lease of `PriceSync` is
  taken from a dead owner in two steps and released whoever holds it.
- *Trace.* The sequence starts again with each process, messages of children to
  parents and ends of leaders under leaders have no route, and an unreadable file
  is replaced by the next save.
- *Forks.* `FeishuBridge` runs `ConversationRuntime` beside its own bookkeeping
  without draining it, so the two drift apart.
- *Journal.* An unlocked refresh that loads the baseline before, and lists the
  segments after, somebody's first maintenance finds neither and shows an empty
  session until its next refresh (`Journal.ts:122`).
- *Tasks.* An acceptance is journaled before the publication (`registry.ts:113`):
  a death between the two leaves an accepted task whose changes are in its copy
  only, and nothing publishes it by itself.
- *Interface.* Two commands of `tui/commands.ts` are called `tasks` (261, 379),
  so the scheduler's cannot be reached; scheduled tasks end with the process.

## 6. Abstractions to know about

- *Journal.* A record is its sequence number, an identity and the identity of
  its predecessor, which stands for the SHA-256 chain. The re-verification of a
  file of unchanged size (`Journal.ts:185`) is one step, so a rotation between its
  own calls is not seen: its outcome there would be a shorter prefix or a refusal.
- *Retention.* A history visit hears a set of positions per source, source after
  source. Refresh is one step. The chunk
  format of archives is module `Archives`'s subject.
- *Caches.* A hash is the prefix of the history it stands for. Damage to rows and
  manifests of older versions are left out.
- *Tasks.* One goal, and the PM is there. Evidence by inspection is folded into
  `ReconcileTask` and `ReviewTask`. A launch that another one has overtaken and
  that finds a conflict writes without looking again; `stray` records it, and
  `EndsStay` and `WorkersDoNotOverlap` except it.
- *Workspaces.* One revision, one launch per task at a time, the PM resolves
  conflicts that the status shows. `known`, `foreign`, `raced`, `late`
  and `touched` are history variables for the properties and restrict
  nothing. An edit by another program between the last look at a file and the
  write (`raced`) cannot be noticed by any code; the property excepts it. A
  retried task that changes more files resumes only the recorded list
  (`touched`).
- *Worker, Leader.* A tool stands for its name and arguments. Texts, quality
  scores and artifact paths are left out; children of a leader are counted.
- *Leader.* `missed` is a history variable: the handler was deaf when the turn began.
  `RepliedReleases` excepts it, section 5 tells the case.
- *Team.* Turns are a start and an end; the state the store shows for the PM is
  left out, since nobody waits for it. `Routings` is whether the model of a child is
  found; section 4 tells why the run takes `TRUE`. `WaitedForIsAlive` says of started
  children only that they can end; that they do is `Worker` and `Leader`.
- *Calls.* Claimed calls are excepted from the count of effects, calls that share an
  approval need one between them, and thirty records are enough.
- *Replay.* The weights of facts are left out, any choice of the top ones is taken; the
  removal of facts beyond fifty leaves more than a context shows.
- *Watch, Cards, Locks, Requests.* Conjuncts that a known disagreement breaks
  except it by name in the property: statistics left by a kill, a card whose end
  overlaps a change, a lock cleared wrongly (`wrong`), a stop that was forgotten
  (`forgot`), a queue behind `context_error` (`stuck`).
- *Clocks* are nondeterminism everywhere but in `Watch` and `Prices`, where ticks
  are counted. Leases in `Publisher` do not run out while their owner lives, although
  `publish()` renews its lease only in `appendParts` and a search may take longer than the
  two minutes of a lease: what two publishers then do at once is not modelled.
- *Worklog.* One collector at a time is assumed.
- *Memory.* A resumed working set keeps the decisions of its snapshot, where the code takes
  those of the journal (`MemoryStore.ts:78`); the properties are about facts.
- *`Conversations`* leaves out reactions and artifacts, and takes from `Leader`
  only how turns may end.

## 7. Plan

Done of the earlier plan: leaders, the tree of agents, locks, budget, delivery,
bus and replay, and beyond it archives, caches, prices, commands, calls, memory,
work log, publication, cards, forks, trace. Next, in this order; the theorems
are what is worth proving for all constants:

1. Done: `WorkerProofs`, `LeaderProofs`, `TasksProofs`, `WorkspacesProofs`,
   `RetentionProofs`, of the services all but the tree of agents, of the storage all but
   the caches of the history, of the agents all but the conversations
   and liveness.
2. `CachesAgree` in `StorageProofs`, the invariants of `Conversations`, a `Publisher`
   whose leases run out.
3. `Team` without missing models, as a theorem that assumes them found.
4. Restoring a backup into a session, and the refresh that meets a first
   maintenance, on top of `Journal` and `Retention`.
5. Abstract specifications besides `EventLog`: a mutex that `Locks` refines where
   no lock is cleared wrongly, an account for `Budget`.

## 8. Not modelled

- *Terminal user interface* (`ui.tsx`, `runtime/AgentRuntime.tsx`, `tui/*`):
  rendering, keys and the view state. Of `store.ts`, what other components read is
  in `Team` and `Calls`.
- *Configuration, models and accounts*: static tables, files of settings, sign-in
  flows against external services.
- *HTTP server, scenarios and development tools*: thin entry points and test
  drivers.
- *Inside modelled parts*: what single tools do to files and the network, protocols
  of the providers, formatting of cards and reports, text selection by tokens, the
  relay's worker and the set-up of the work log, `pm/ProcessMonitor.ts` (imported
  nowhere), `TurnController` (a shadow that decides nothing), the timer list of
  `TaskScheduler`, health counters.

`PROJECT.json` lists each component with its files, its status and the reason.
