------------------------------- MODULE Worker -------------------------------
(***************************************************************************)
(* One worker from its start to its end: the event handler of startWorker  *)
(* (runtime/WorkerHandler.ts) together with the agent that talks to the    *)
(* model (adapters/httpAgent.ts).  All of it runs in one thread; what      *)
(* interleaves are the callbacks of setImmediate, the answers of the       *)
(* model, the ends of tools, decisions of the leader on risky commands,    *)
(* timers, messages of the parent, and a stop by the user.                 *)
(*                                                                         *)
(* The whole memory of handler and agent is the record w.  An event of the *)
(* agent is an operator from w to w, because one answer of the model is a  *)
(* list of events which the handler sees without interruption.             *)
(*                                                                         *)
(* Left out: texts, the store's display, health records.  A tool stands    *)
(* for its name and its arguments, so calling it again repeats the call.   *)
(* The task controller (module Tasks) enters as two facts: it grants turns *)
(* from the shared budget, and it grants tools and requests while the task *)
(* is running, that is until the worker has reported its end or is         *)
(* stopped.                                                                *)
(***************************************************************************)
EXTENDS Naturals, Sequences, FiniteSets, SequencesExt

CONSTANTS
    Responses,        \* answers the model may give: sequences of events
    SharedTurns,      \* turns left in the task's shared budget (maxTurns)
    TurnCap,          \* MAX_WORKER_TURNS
    StallLimit,       \* WORKER_HARD_STALL_N
    Nudges,           \* reminders of open todos in a row
    SilentNudges,     \* reminders after turns without any output
    MissingNudges,    \* reminders to report the end
    Rejections,       \* rejected successes with open todos
    Says              \* messages of the parent (bound of the model)

Tools == {"edit", "test", "look", "risky"}
Events == Tools \cup {"plan", "talk", "stray", "opens", "closes", "done", "fails"}

ASSUME ResponsesAssumption == Responses \subseteq Seq(Events)
ASSUME LimitsAssumption ==
    /\ {SharedTurns, TurnCap, StallLimit} \subseteq Nat \ {0}
    /\ {Nudges, SilentNudges, MissingNudges, Rejections, Says} \subseteq Nat

VARIABLES
    w,      \* what the handler and the agent hold in memory
    said,   \* messages the parent has sent
    clock   \* which time limits have passed

vars == <<w, said, clock>>

Callback(kind, tools, results) == [kind |-> kind, tools |-> tools, results |-> results]
Kinds == {"say", "sayLive", "sayOpen", "drain", "batch", "deliver"}
Verdicts == {"edited", "red", "green", "other"}

Workers ==
    [begun : BOOLEAN, busy : BOOLEAN, aborted : BOOLEAN, queue : Nat,
     loop : Seq([kind : Kinds, tools : Seq(Tools), results : Seq(Verdicts)]),
     running : SUBSET [id : Nat, tools : Seq(Tools), leader : BOOLEAN],
     tools : Seq(Tools), outstanding : Nat, approvals : Nat,
     waits : SUBSET Nat, finishing : BOOLEAN, fired : BOOLEAN,
     acted : BOOLEAN, corrected : BOOLEAN, nudge : BOOLEAN,
     cont : 0..Nudges \cup 0..SilentNudges, stall : 0..StallLimit,
     missing : 0..(MissingNudges + 1), rejected : 0..(Rejections + 1),
     turns : 0..SharedTurns, last : Tools \cup {"none"}, same : 0..3,
     open : BOOLEAN, lastTest : {"none", "red", "green"}, ranTest : BOOLEAN,
     killed : BOOLEAN, roused : BOOLEAN, outcome : {"none", "success", "failure"}]

TypeOK == w \in Workers /\ said \in 0..Says /\ clock \subseteq {"wall", "deadline"}

Init ==
    /\ w = [begun |-> FALSE, busy |-> FALSE, aborted |-> FALSE, queue |-> 0,
            loop |-> <<>>, running |-> {}, tools |-> <<>>, outstanding |-> 0,
            approvals |-> 0, waits |-> {}, finishing |-> FALSE, fired |-> FALSE,
            acted |-> FALSE, corrected |-> FALSE, nudge |-> FALSE, cont |-> 0,
            stall |-> 0, missing |-> 0, rejected |-> 0, turns |-> 0,
            last |-> "none", same |-> 0, open |-> FALSE, lastTest |-> "none",
            ranTest |-> FALSE, killed |-> FALSE, roused |-> FALSE, outcome |-> "none"]
    /\ said = 0
    /\ clock = {}

-----------------------------------------------------------------------------
(* Reporting the end *)

Terminal(v) == v.outcome # "none"
\* Tests of later callbacks: the store shows a failed worker as `err', so
\* they recognise only a successful or a killed one.
Gone(v) == v.outcome = "success" \/ v.killed
\* finishingFailure and workerTerminal: events of the agent are dropped.
Deaf(v) == v.finishing \/ Terminal(v)

Later(v, kind) == [v EXCEPT !.loop = Append(@, Callback(kind, <<>>, <<>>))]

\* The report is accepted: the parent is told, the agent is killed, which
\* drops its queue and aborts its request.
Finish(v, outcome) ==
    [v EXCEPT !.outcome = outcome, !.tools = <<>>, !.acted = TRUE,
              !.queue = 0, !.aborted = v.busy]

Ids(v) == {b.id : b \in v.running}

\* agent.done without success; with tools out it waits for those that run.
Fail(v) ==
    CASE Deaf(v) -> v
      [] ~Deaf(v) /\ v.outstanding > 0 ->
             [v EXCEPT !.finishing = TRUE, !.tools = <<>>, !.waits = Ids(v)]
      [] OTHER -> Finish(v, "failure")

\* fireHardCircuit
Circuit(v) == IF v.fired \/ Gone(v) THEN v ELSE Fail([v EXCEPT !.fired = TRUE])

\* The continuation of cancelAgentToolsAndWait: it runs when the tools that
\* were running then have ended, before any other callback.
Settle(v) ==
    IF v.finishing /\ v.waits \cap Ids(v) = {}
    THEN Finish([v EXCEPT !.finishing = FALSE, !.waits = {}, !.outstanding = 0], "failure")
    ELSE v

\* Tool calls the journal still shows as pending, beyond those in batches.
ForLeader(v) == v.approvals > 0 \/ \E b \in v.running : b.leader

\* Mutant of Unsettled: commands that wait for the leader are forgotten.
UnsettledBatches(v) == v.tools # <<>> \/ v.outstanding > 0

Unsettled(v) == v.tools # <<>> \/ v.outstanding > 0 \/ ForLeader(v)

\* decideDoneGuard: a red test, or a test command without any verdict
Unproven(v) == v.lastTest = "red" \/ (v.ranTest /\ v.lastTest = "none")

\* agent.done with success
Succeed(v) ==
    CASE Deaf(v) \/ Unsettled(v) -> v
      [] ~Deaf(v) /\ ~Unsettled(v) /\ v.open ->
             IF v.rejected < Rejections
             THEN Later([v EXCEPT !.rejected = @ + 1], "sayOpen")
             ELSE Circuit([v EXCEPT !.rejected = Rejections + 1])
      [] ~Deaf(v) /\ ~Unsettled(v) /\ ~v.open /\ Unproven(v) -> Later(v, "say")
      [] OTHER -> Finish(v, "success")

-----------------------------------------------------------------------------
(* Turns of the agent *)

\* agent.state run: a turn is taken from both budgets; only a turn that the
\* handler has asked for keeps the count of reminders.
OnRun(v) ==
    CASE Deaf(v) -> v
      [] ~Deaf(v) /\ (v.turns = SharedTurns \/ "deadline" \in clock) -> Circuit(v)
      [] ~Deaf(v) /\ v.turns < SharedTurns /\ "deadline" \notin clock /\ v.turns = TurnCap ->
             Circuit([v EXCEPT !.turns = @ + 1])
      [] OTHER -> [v EXCEPT !.turns = @ + 1, !.acted = FALSE, !.corrected = FALSE,
                            !.cont = IF v.nudge THEN @ ELSE 0, !.nudge = FALSE]

Send(v) == OnRun([v EXCEPT !.busy = TRUE, !.aborted = FALSE])
Enqueue(v) == IF v.busy THEN [v EXCEPT !.queue = @ + 1] ELSE Send(v)

\* Mutant of EndOfSend: the queue is left to the next message.
EndOfSendAlone(v) == [v EXCEPT !.busy = FALSE, !.aborted = FALSE]

\* The finally block of send: one queued message is taken up later.
EndOfSend(v) ==
    LET u == [v EXCEPT !.busy = FALSE, !.aborted = FALSE]
    IN  IF u.queue > 0 THEN Later(u, "drain") ELSE u

Drain(v) == IF ~v.busy /\ v.queue > 0 THEN Send([v EXCEPT !.queue = @ - 1]) ELSE v

-----------------------------------------------------------------------------
(* Events of an answer *)

\* tool.call: repeated calls and tests after a green one are answered
\* without running them, risky commands go to the leader, others wait for
\* the end of the turn.
OnCall(v, tool) ==
    LET same == IF v.last = tool THEN IF v.same < 3 THEN v.same + 1 ELSE 3 ELSE 1
        u == [v EXCEPT !.acted = TRUE, !.ranTest = @ \/ tool = "test",
                       !.last = tool, !.same = same]
    IN  CASE same >= 3 \/ (v.lastTest = "green" /\ tool = "test") -> Enqueue(u)
          [] same < 3 /\ tool = "risky" -> [u EXCEPT !.approvals = @ + 1]
          [] OTHER -> [u EXCEPT !.tools = Append(@, tool)]

\* An illegal message is passed on to the parent and corrected once a turn.
OnStray(v) ==
    LET u == [v EXCEPT !.acted = TRUE, !.corrected = TRUE]
    IN  IF v.corrected THEN u ELSE Later(u, "say")

OnEvent(v, e) ==
    CASE Deaf(v) \/ e = "plan" -> v
      [] ~Deaf(v) /\ e \in Tools -> OnCall(v, e)
      [] ~Deaf(v) /\ e = "talk" -> [v EXCEPT !.acted = TRUE]
      [] ~Deaf(v) /\ e = "stray" -> OnStray(v)
      [] ~Deaf(v) /\ e \in {"opens", "closes"} -> [v EXCEPT !.open = (e = "opens")]
      [] ~Deaf(v) /\ e = "done" -> Succeed(v)
      [] OTHER -> Fail(v)

Reminded(v, kind) == Later([v EXCEPT !.nudge = TRUE], kind)

\* The turn ended with tools to run: they are handed over as one batch, and
\* open todos are reminded of at once.
StartTools(v) ==
    LET warned == IF v.same >= 2 THEN Later(v, "say") ELSE v
        u == [warned EXCEPT !.loop = Append(@, Callback("batch", v.tools, <<>>)),
                            !.outstanding = @ + Len(v.tools), !.tools = <<>>]
    IN  CASE ~v.open -> u
          [] v.open /\ v.cont < Nudges -> Reminded([u EXCEPT !.cont = @ + 1], "say")
          [] OTHER -> Circuit(u)

\* The turn ended without any action.
Prompt(v) ==
    IF v.cont < (IF v.open THEN Nudges ELSE SilentNudges)
    THEN Reminded([v EXCEPT !.cont = @ + 1], "say")
    ELSE Circuit(v)

\* Mutant of AskForEnd: a worker that has acted is not asked for its end.
AskForNothing(v) == v

\* The worker has acted, nothing is out, and it has not reported its end.
AskForEnd(v) ==
    IF Deaf(v) \/ v.tools # <<>> \/ v.outstanding > 0 \/ ~v.acted \/ v.nudge THEN v
    ELSE IF v.missing < MissingNudges
         THEN Reminded([v EXCEPT !.missing = @ + 1], "sayLive")
         ELSE Circuit([v EXCEPT !.missing = MissingNudges + 1])

\* agent.state idle
OnIdle(v) ==
    LET u == [v EXCEPT !.stall = IF v.tools = <<>> /\ ~v.acted THEN @ + 1 ELSE 0]
        due == ~v.fired /\ (u.stall >= StallLimit \/ "wall" \in clock)
    IN  CASE Deaf(v) -> v
          [] ~Deaf(v) /\ due -> Circuit(u)
          [] ~Deaf(v) /\ ~due /\ v.tools # <<>> -> AskForEnd(StartTools(u))
          [] ~Deaf(v) /\ ~due /\ v.tools = <<>> /\ ~v.acted -> AskForEnd(Prompt(u))
          [] OTHER -> AskForEnd(u)

-----------------------------------------------------------------------------
(* Steps.  Each is one uninterrupted piece of the program, with Settle for  *)
(* the continuation that follows it.                                        *)

Step(v) == \E u \in {v} : w' = Settle(u)
Still == UNCHANGED <<said, clock>>

\* The private workspace is ready: the first message, unless stopped.
Begin ==
    /\ ~w.begun
    /\ LET v == [w EXCEPT !.begun = TRUE] IN Step(IF w.killed THEN v ELSE Enqueue(v))
    /\ Still

\* It could not be prepared: context_error.
CannotBegin ==
    /\ ~w.begun
    /\ LET v == [w EXCEPT !.begun = TRUE] IN Step(IF Deaf(v) THEN v ELSE Circuit(v))
    /\ Still

\* consumeTaskRequest, beginTaskOperation: a stop is recorded with the task, whose
\* evaluation begins before any other callback.
Granted(v) == ~Terminal(v) /\ ~v.killed /\ "deadline" \notin clock

\* The model answers; the handler sees all its events, then idle.
Respond ==
    /\ w.busy /\ ~w.aborted /\ Granted(w)
    /\ \E answer \in Responses :
           LET heard[i \in 0..Len(answer)] ==
                   IF i = 0 THEN w ELSE OnEvent(heard[i - 1], answer[i])
           IN  \E v \in {heard[Len(answer)]} : Step(EndOfSend(OnIdle(v)))
    /\ Still

\* A retry after a network error announces the same request as a new run.
Retry ==
    /\ w.busy /\ ~w.aborted /\ Granted(w) /\ ~w.finishing
    /\ Step(OnRun(w))
    /\ Still

\* The request fails for good, or is refused by the task controller.
RequestFails ==
    /\ w.busy /\ ~w.aborted
    /\ Step(EndOfSend(IF Deaf(w) THEN w ELSE Circuit(w)))
    /\ Still

\* An aborted request ends with idle as well.
RequestAborted ==
    /\ w.busy /\ w.aborted
    /\ Step(EndOfSend(OnIdle(w)))
    /\ Still

NewId(v) == CHOOSE n \in 0..Cardinality(v.running) : n \notin Ids(v)
Run(v, tools, leader) ==
    [v EXCEPT !.running = @ \cup {[id |-> NewId(v), tools |-> tools, leader |-> leader]}]

\* Results the worker's handler can tell apart.
Verdict(tool) ==
    CASE tool = "edit" -> {"edited"}
      [] tool = "test" -> {"red", "green", "other"}
      [] OTHER -> {"other"}
Results(tools) == {r \in [1..Len(tools) -> Verdicts] : \A i \in 1..Len(tools) : r[i] \in Verdict(tools[i])}

Hand(v, tools, results) == [v EXCEPT !.loop = Append(@, Callback("deliver", tools, results))]
Minus(n, k) == IF n > k THEN n - k ELSE 0

\* The batch starts, unless the worker is gone; a tool that the controller
\* refuses is answered without running.
StartBatch(v, b) ==
    CASE Gone(v) -> [v EXCEPT !.outstanding = Minus(@, Len(b.tools))]
      [] ~Gone(v) /\ Granted(v) -> Run(v, b.tools, FALSE)
      [] OTHER -> Hand(v, b.tools, [i \in 1..Len(b.tools) |-> "other"])

\* What results say of the tests: the last of them that says anything, where an edit
\* takes back what was known.
Learned(lastTest, results) ==
    LET told == {i \in DOMAIN results : results[i] # "other"}
    IN  IF told = {} THEN lastTest
        ELSE IF results[Max(told)] \in {"red", "green"} THEN results[Max(told)]
        ELSE "none"

\* Mutant of Deliver: the results go out whatever has become of the worker.
DeliverBlind(v, b) ==
    Enqueue([v EXCEPT !.outstanding = Minus(@, Len(b.tools)),
                      !.lastTest = Learned(@, b.results)])

\* The results go to the model as one message.
Deliver(v, b) ==
    LET u == [v EXCEPT !.outstanding = Minus(@, Len(b.tools))]
    IN  IF Gone(v) THEN u
        ELSE Enqueue([u EXCEPT !.lastTest = Learned(@, b.results)])

\* The refusal of a success with open todos looks whether the worker has reported its
\* end, and not whether it has been stopped since; `roused' remembers that it has.
SayOpen(v) == IF Terminal(v) THEN v ELSE Enqueue([v EXCEPT !.roused = @ \/ v.killed])

\* The next callback of setImmediate
Callbacks(v, c) ==
    CASE c.kind = "say" -> IF Gone(v) THEN v ELSE Enqueue(v)
      [] c.kind = "sayLive" -> IF Terminal(v) \/ v.killed THEN v ELSE Enqueue(v)
      [] c.kind = "sayOpen" -> SayOpen(v)
      [] c.kind = "drain" -> Drain(v)
      [] c.kind = "batch" -> StartBatch(v, c)
      [] OTHER -> Deliver(v, c)

RunCallback ==
    /\ w.loop # <<>>
    /\ Step(Callbacks([w EXCEPT !.loop = Tail(@)], Head(w.loop)))
    /\ Still

\* All tools of a batch have ended, or those of an approved command.
ToolsEnd(b) ==
    /\ \E r \in Results(b.tools) :
           LET v == [w EXCEPT !.running = @ \ {b}]
           IN  Step(CASE ~b.leader -> Hand(v, b.tools, r)
                      [] b.leader /\ Gone(w) -> v
                      [] OTHER -> Enqueue(v))
    /\ Still

\* tool.approved: the leader has the command run for the worker.
Approve ==
    /\ w.approvals > 0
    /\ LET v == [w EXCEPT !.approvals = @ - 1]
       IN  Step(IF Granted(w) THEN Run(v, <<"risky">>, TRUE)
                ELSE IF Gone(w) THEN v ELSE Enqueue(v))
    /\ Still

\* tool.rejected
Reject ==
    /\ w.approvals > 0
    /\ Step(Enqueue([w EXCEPT !.approvals = @ - 1]))
    /\ Still

\* A message of the parent, while the worker is registered at the bus.
ParentSays ==
    /\ said < Says /\ ~Terminal(w) /\ ~w.killed
    /\ Step(Enqueue(w))
    /\ said' = said + 1
    /\ UNCHANGED clock

\* The wall-clock limit is only looked at when a turn ends.
WallClock ==
    /\ "wall" \notin clock
    /\ clock' = clock \cup {"wall"}
    /\ UNCHANGED <<w, said>>

\* The timer of the task's deadline; it is cleared with the worker's end.
Deadline ==
    /\ "deadline" \notin clock /\ ~Terminal(w)
    /\ clock' = clock \cup {"deadline"}
    /\ Step(Circuit(w))
    /\ UNCHANGED said

\* killAgent by the user, a parent, or a changed requirement
Kill ==
    /\ ~w.killed /\ ~Terminal(w)
    /\ w' = [w EXCEPT !.killed = TRUE, !.queue = 0, !.aborted = w.busy, !.approvals = 0]
    /\ Still

Next ==
    \/ Begin \/ CannotBegin
    \/ Respond \/ Retry \/ RequestFails \/ RequestAborted
    \/ RunCallback
    \/ \E b \in w.running : ToolsEnd(b)
    \/ Approve \/ Reject
    \/ ParentSays \/ WallClock \/ Deadline \/ Kill

Spec == Init /\ [][Next]_vars

\* The event loop turns, requests and tools end.  Nobody has to approve,
\* speak, or stop the worker, and no time limit has to pass.
Fairness ==
    /\ WF_vars(Begin \/ CannotBegin)
    /\ WF_vars(Respond \/ RequestFails \/ RequestAborted)
    /\ WF_vars(RunCallback)
    /\ WF_vars(\E b \in w.running : ToolsEnd(b))

FairSpec == Spec /\ Fairness

-----------------------------------------------------------------------------
(* Properties *)

\* A success is accepted only when the worker's work is settled: no tool of
\* it runs or waits to run, no result of one is on its way, no command waits
\* for the leader, and no todo is open.  The handler knows this only through
\* counters which callbacks keep.  (With the types of the variables.)
SuccessIsSettled ==
    /\ TypeOK
    /\ w.outcome = "success" =>
        /\ w.running = {} /\ w.approvals = 0 /\ ~w.open
        /\ \A i \in DOMAIN w.loop : w.loop[i].kind \notin {"batch", "deliver"}

\* The agent never rests on a queue: if messages wait and no request is out,
\* a callback that takes one is on its way, however reminders, results and
\* messages of the parent have overtaken each other.
QueueIsDrained ==
    ~w.busy /\ w.queue > 0 /\ ~w.finishing =>
        \E i \in DOMAIN w.loop : w.loop[i].kind = "drain"

\* Once the worker has been given its goal and then succeeded or been stopped,
\* no callback, result or decision of the leader wakes its model again, but for
\* one: the refusal of a success that was on the loop when the worker was stopped,
\* and messages that queue behind it.
\* (Preparing the workspace does not look at the end of the worker: a message
\* of the parent can start and end it before it is given its goal.)  And once
\* its end is reported or it is stopped, no tool of it starts.
Rouses(v) ==
    /\ v.loop # <<>> /\ v.killed /\ ~Terminal(v)
    /\ \/ Head(v.loop).kind = "sayOpen"
       \/ Head(v.loop).kind = "drain" /\ v.roused

StoppedIsSilent ==
    [][/\ Gone(w) /\ w.begun /\ ~Rouses(w) => ~(~w.busy /\ w'.busy)
       /\ Terminal(w) \/ w.killed => w'.running \subseteq w.running]_vars

\* The worker never stays active for ever: whatever the model answers, and
\* even if no time limit passes, it reports an end, unless it is stopped.
EndIsReached == <>(Terminal(w) \/ w.killed)

\* The hard circuit is for stalled workers (WorkerHandler.ts:205, :213): it
\* does not fire at the end of a turn that has handed over tools to run.
\* The limits of time are looked at before the tools are handed over.
ProgressIsNotCut ==
    [][~w.fired /\ w'.fired =>
         ~\E i \in DOMAIN w'.loop :
             /\ w'.loop[i].kind = "batch"
             /\ ~\E k \in DOMAIN w.loop : w.loop[k] = w'.loop[i]]_vars

=============================================================================
