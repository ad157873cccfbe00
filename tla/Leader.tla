------------------------------- MODULE Leader -------------------------------
(***************************************************************************)
(* One leader: the handler of startLeaderAgent (runtime/LeaderHandler.ts)  *)
(* with the agent that talks to the model (adapters/httpAgent.ts).  Four   *)
(* kinds of leader share the handler and differ in its branches:           *)
(*   chat  the PM of a Feishu conversation, which holds the conversation's *)
(*         serial lock (feishuBusy) while it works on a message            *)
(*   fork  a concurrent task of such a conversation, for one message       *)
(*   root  the PM of the terminal                                          *)
(*   sub   a leader that another leader has spawned and waits for          *)
(* The memory of handler and agent is the record l; an event of the agent  *)
(* is an operator on it, as an answer is heard without interruption.       *)
(*                                                                         *)
(* Left out: texts, artifact paths, quality scores, the secretary, and the *)
(* approvals a leader gives (they are in module Calls).  Children are      *)
(* counted: they run in the foreground or in the background until they     *)
(* end.  feishuMsgQueue is read by the handler but nothing ever fills it.  *)
(***************************************************************************)
EXTENDS Naturals, Sequences, FiniteSets

CONSTANTS
    Kinds,         \* kinds of leader to look at
    Responses,     \* answers the model may give: sequences of events
    Requests,      \* requests the budget of the leader allows
    Spawns,        \* children it may have (maxFanout)
    Inputs,        \* messages of the user, the parent or a child (bound)
    Nudges,        \* reminders in a row
    SilentNudges   \* reminders after turns without any output

Events ==
    {"tool", "again", "risky", "spawn", "respawn", "kill", "plan", "runs", "clear",
     "user", "parent", "lost", "handup", "done", "fails"}

ASSUME LeaderAssumption ==
    /\ Kinds \subseteq {"chat", "fork", "root", "sub"}
    /\ Responses \subseteq Seq(Events)
    /\ {Requests, Spawns, Inputs, Nudges, SilentNudges} \subseteq Nat

VARIABLE l

Callback(kind, n) == [kind |-> kind, n |-> n, stale |-> FALSE]

Leaders ==
    [kind : Kinds, store : {"live", "done", "err"}, busy : BOOLEAN, aborted : BOOLEAN,
     old : BOOLEAN, queue : Nat,
     loop : Seq([kind : {"say", "sayAny", "refuse", "drain", "batch", "deliver"},
                 n : Nat, stale : BOOLEAN]),
     running : SUBSET [id : Nat, n : Nat, stale : BOOLEAN],
     calls : Nat, loops : BOOLEAN, out : Nat, waits : SUBSET Nat,
     finishing : {"no", "yes", "old"}, terminal : BOOLEAN, killed : BOOLEAN,
     acted : BOOLEAN, replied : BOOLEAN, reported : BOOLEAN, nudge : BOOLEAN,
     cont : 0..Nudges \cup 0..SilentNudges, gaveUp : BOOLEAN,
     missed : BOOLEAN, todo : {"none", "run", "todo"}, fg : 0..Spawns, bg : 0..Spawns,
     cancelled : 0..Spawns, lock : BOOLEAN, told : BOOLEAN,
     requests : Nat, spawned : 0..Spawns, inputs : 0..Inputs]

LeaderTypeOK == l \in Leaders

Conv(v) == v.kind \in {"chat", "fork"}
Sub(v) == v.kind = "sub"
Children(v) == v.fg + v.bg
Gone(v) == v.store = "done" \/ v.killed
Deaf(v) == v.finishing # "no" \/ v.terminal
Ids(v) == {b.id : b \in v.running}
Minus(n, k) == IF n > k THEN n - k ELSE 0

Later(v, kind, n) == [v EXCEPT !.loop = Append(@, Callback(kind, n))]

-----------------------------------------------------------------------------
(* Turns of the agent *)

\* agent.state run: only a turn that the handler has asked for keeps the
\* count of reminders.  A turn may begin while the failure of an older revision
\* waits for its tools: the handler misses its beginning (`missed' is history).
OnRun(v) ==
    IF Deaf(v) THEN [v EXCEPT !.missed = @ \/ v.finishing = "old"]
    ELSE [v EXCEPT !.missed = FALSE, !.acted = FALSE, !.replied = FALSE, !.reported = FALSE,
                   !.loops = FALSE,
                   !.cont = IF v.nudge THEN @ ELSE 0, !.gaveUp = v.nudge /\ @, !.nudge = FALSE]

Send(v) == OnRun([v EXCEPT !.busy = TRUE, !.aborted = FALSE, !.old = FALSE, !.requests = @ + 1])
Enqueue(v) == IF v.busy THEN [v EXCEPT !.queue = @ + 1] ELSE Send(v)

EndOfSend(v) ==
    LET u == [v EXCEPT !.busy = FALSE, !.aborted = FALSE, !.old = FALSE]
    IN  IF u.queue > 0 THEN Later(u, "drain", 0) ELSE u

-----------------------------------------------------------------------------
(* The end of a leader *)

\* Mutant of Finish: the parent is told of successes only.
FinishUntold(v, success) ==
    [v EXCEPT !.store = IF success THEN "done" ELSE "err", !.acted = TRUE, !.calls = 0,
              !.terminal = v.kind \in {"sub", "fork"}, !.told = @ \/ success,
              !.queue = 0, !.aborted = v.busy]

\* The end is accepted.  It is final for those with a parent and for forks;
\* the parent of a sub-leader is told, and its agent is killed.
Finish(v, success) ==
    LET u == [v EXCEPT !.store = IF success THEN "done" ELSE "err", !.acted = TRUE,
                       !.terminal = v.kind \in {"sub", "fork"},
                       !.calls = IF v.kind \in {"sub", "fork"} THEN 0 ELSE @]
    IN  IF Sub(v) THEN [u EXCEPT !.told = TRUE, !.queue = 0, !.aborted = v.busy] ELSE u

\* agent.done with success is dropped while tools or children are out.
Succeed(v) ==
    IF Deaf(v) \/ v.calls > 0 \/ v.out > 0 \/ Children(v) > 0 THEN v ELSE Finish(v, TRUE)

\* agent.done without success waits for the tools that run.
Fail(v) ==
    CASE Deaf(v) -> v
      [] ~Deaf(v) /\ v.out > 0 ->
             [v EXCEPT !.finishing = "yes", !.calls = 0, !.waits = Ids(v)]
      [] OTHER -> Finish(v, FALSE)

\* Continuations that run before any other callback: the failure that has
\* waited for its tools (one of an older revision is not recorded), and the
\* foreground promises of children that were killed, which resolve to null:
\* each sends this leader the message that the child is in the background.
Settle(v) ==
    LET ended == v.finishing # "no" /\ v.waits \cap Ids(v) = {}
        u == IF ~ended THEN v
             ELSE LET f == [v EXCEPT !.finishing = "no", !.waits = {}, !.out = 0]
                  IN  IF v.finishing = "old" THEN [f EXCEPT !.acted = TRUE] ELSE Finish(f, FALSE)
    IN  IF u.cancelled = 0 THEN u
        ELSE LET first == Enqueue([u EXCEPT !.cancelled = 0])
             IN  [first EXCEPT !.queue = @ + u.cancelled - 1]

\* convergeChildLeader: the last words go to the parent, then the end.
Converge(v) == Succeed([v EXCEPT !.told = TRUE, !.reported = TRUE])

-----------------------------------------------------------------------------
(* Events of an answer *)

\* A spawn that the process manager refuses shows the leader as failed; one
\* that the task control refuses, or with an id in use, is answered.
OnSpawn(v) ==
    IF v.spawned = Spawns THEN [v EXCEPT !.store = IF @ = "live" THEN "err" ELSE @]
    ELSE [v EXCEPT !.spawned = @ + 1, !.fg = @ + 1, !.acted = TRUE]

OnKill(v) ==
    CASE v.fg > 0 -> [v EXCEPT !.fg = @ - 1, !.cancelled = @ + 1]
      [] v.fg = 0 /\ v.bg > 0 -> [v EXCEPT !.bg = @ - 1]
      [] OTHER -> v

\* Risky tools: a conversation approves them itself, the terminal's PM is
\* refused, and for a sub-leader the code has no branch.
OnCall(v, e) ==
    LET u == [v EXCEPT !.acted = TRUE, !.loops = (e = "again")]
    IN  CASE e # "risky" \/ Conv(v) -> [u EXCEPT !.calls = @ + 1]
          [] e = "risky" /\ v.kind = "root" -> Later(u, "refuse", 0)
          [] OTHER -> u

\* A sub-leader's message to the user is passed to its parent instead, and
\* is not counted as an action of the turn.
OnMessage(v, e) ==
    CASE e = "user" /\ Sub(v) -> [v EXCEPT !.reported = TRUE, !.told = TRUE]
      [] e = "user" /\ ~Sub(v) -> [v EXCEPT !.acted = TRUE, !.replied = TRUE]
      [] e = "parent" /\ Sub(v) -> [v EXCEPT !.acted = TRUE, !.reported = TRUE, !.told = TRUE]
      [] OTHER -> Enqueue([v EXCEPT !.acted = TRUE])

OnEvent(v, e) ==
    CASE e = "done" -> Succeed(v)
      [] e = "fails" -> Fail(v)
      [] Deaf(v) /\ e \notin {"done", "fails"} -> v
      [] ~Deaf(v) /\ e = "spawn" -> OnSpawn(v)
      [] ~Deaf(v) /\ e = "respawn" -> Enqueue(v)
      [] ~Deaf(v) /\ e = "kill" -> OnKill(v)
      [] ~Deaf(v) /\ e \in {"tool", "again", "risky"} -> OnCall(v, e)
      [] ~Deaf(v) /\ e \in {"user", "parent", "lost"} -> OnMessage(v, e)
      [] ~Deaf(v) /\ e = "handup" -> [v EXCEPT !.told = @ \/ Sub(v)]
      [] OTHER -> [v EXCEPT !.todo = CASE e = "plan" -> "todo" [] e = "runs" -> "run"
                                       [] OTHER -> "none"]

-----------------------------------------------------------------------------
(* The end of a turn *)

Remind(v, kind) == Later([v EXCEPT !.cont = @ + 1, !.nudge = TRUE], kind, 0)

\* drainConvModePM: the turn of the conversation is over.
Release(v) == [v EXCEPT !.lock = FALSE]

\* Mutant of HandOver: a batch counts once.
HandOverOnce(v) == Later([v EXCEPT !.out = @ + 1, !.calls = 0], "batch", v.calls)

HandOver(v) ==
    LET warned == IF v.loops THEN Later([v EXCEPT !.loops = FALSE], "say", 0) ELSE v
    IN  Later([warned EXCEPT !.out = @ + v.calls, !.calls = 0], "batch", v.calls)

\* Mutant of AfterReply: the conversation keeps the lock with stale todos.
AfterReplyStuck(v) ==
    IF v.todo # "todo" THEN Release(v) ELSE IF v.cont < Nudges THEN Remind(v, "sayAny") ELSE v

\* A conversation that has replied.
AfterReply(v) ==
    CASE v.todo # "todo" -> Release(v)
      [] v.todo = "todo" /\ v.cont < Nudges -> Remind(v, "sayAny")
      [] OTHER -> Release([v EXCEPT !.todo = "none"])

\* The turn acted and has no tools to run.
AfterAction(v) ==
    IF Children(v) > 0 THEN IF Conv(v) /\ v.replied THEN Release(v) ELSE v
    ELSE IF v.reported /\ v.todo # "todo" THEN [v EXCEPT !.todo = "none"]
    ELSE IF Conv(v) /\ v.replied THEN AfterReply(v)
    ELSE IF v.replied /\ v.todo # "todo" THEN v
    ELSE IF v.todo = "run" /\ ~Sub(v) THEN [v EXCEPT !.todo = "none"]
    ELSE IF v.todo # "run" /\ v.cont < Nudges THEN Remind(v, "say")
    ELSE IF v.todo = "todo" /\ ~Sub(v) THEN [v EXCEPT !.gaveUp = TRUE]
    ELSE IF Conv(v) THEN Release(v)
    ELSE IF Sub(v) /\ ~v.reported THEN Converge(v)
    ELSE v

\* Mutant of AfterSilence: silent leaders are reminded, and that is all.
AfterSilenceForgotten(v) ==
    IF v.cont < SilentNudges THEN Remind(v, "say") ELSE [v EXCEPT !.cont = 0]

\* The turn brought nothing.
AfterSilence(v) ==
    CASE v.todo # "none" /\ Children(v) > 0 -> v
      [] v.todo # "none" /\ Children(v) = 0 /\ v.cont < Nudges -> Remind(v, "say")
      [] v.todo # "none" /\ Children(v) = 0 /\ v.cont >= Nudges /\ ~Sub(v) ->
             [v EXCEPT !.gaveUp = TRUE]
      [] v.todo = "none" /\ v.cont < SilentNudges -> Remind(v, "say")
      [] OTHER -> IF Sub(v) /\ Children(v) = 0 /\ ~v.reported THEN Converge(v)
                  ELSE [v EXCEPT !.cont = 0]

\* agent.state idle
OnIdle(v) ==
    CASE Deaf(v) \/ v.store = "done" -> v
      [] ~Deaf(v) /\ v.store # "done" /\ v.calls > 0 -> HandOver(v)
      [] ~Deaf(v) /\ v.store # "done" /\ v.calls = 0 /\ v.acted -> AfterAction(v)
      [] ~Deaf(v) /\ v.store # "done" /\ v.calls = 0 /\ ~v.acted /\ ~v.gaveUp -> AfterSilence(v)
      [] OTHER -> IF Sub(v) /\ ~v.reported /\ Children(v) = 0 THEN Converge(v) ELSE v

-----------------------------------------------------------------------------
(* Steps: uninterrupted pieces of the program *)

Step(v) == \E u \in {v} : l' = Settle(u)

Start(kind) ==
    Send([kind |-> kind, store |-> "live", busy |-> FALSE, aborted |-> FALSE, old |-> FALSE,
          queue |-> 0, loop |-> <<>>, running |-> {}, calls |-> 0, loops |-> FALSE, out |-> 0,
          waits |-> {}, finishing |-> "no", terminal |-> FALSE, killed |-> FALSE,
          acted |-> FALSE, replied |-> FALSE, reported |-> FALSE, nudge |-> FALSE, cont |-> 0,
          gaveUp |-> FALSE, missed |-> FALSE, todo |-> "none", fg |-> 0, bg |-> 0, cancelled |-> 0,
          lock |-> kind \in {"chat", "fork"}, told |-> FALSE, requests |-> 0, spawned |-> 0,
          inputs |-> 0])

\* startLeaderAgent, with its first message
Init == \E kind \in Kinds : l = Start(kind)

\* The budget of the session, and for a task that it has not ended.
Granted(v) == v.requests <= Requests /\ ~(Sub(v) /\ (v.terminal \/ v.killed))

\* The model answers; the handler hears all its events, then idle.
Respond ==
    /\ l.busy /\ ~l.aborted /\ Granted(l)
    /\ \E answer \in Responses :
           LET heard[i \in 0..Len(answer)] ==
                   IF i = 0 THEN l ELSE OnEvent(heard[i - 1], answer[i])
           IN  \E v \in {heard[Len(answer)]} : Step(EndOfSend(OnIdle(v)))

\* agent.error: a sub-leader's request that fails is its end.
OnFailure(v) ==
    IF Deaf(v) THEN v
    ELSE LET u == [v EXCEPT !.store = IF @ = "live" THEN "err" ELSE @]
         IN  IF Sub(v) THEN Fail(u) ELSE u

\* The request fails for good, or is refused by the task controller.
RequestFails ==
    /\ l.busy /\ ~l.aborted
    /\ Step(EndOfSend(OnFailure(l)))

\* SESSION_BUDGET: a PM tells the user, and keeps only questions queued.
BudgetFails ==
    /\ l.busy /\ ~l.aborted /\ ~Sub(l) /\ l.requests > Requests
    /\ \E n \in 0..l.queue :
           LET v == OnFailure(l)
               u == IF Deaf(v) THEN v ELSE [v EXCEPT !.acted = TRUE, !.replied = TRUE]
           IN  Step(EndOfSend([u EXCEPT !.queue = n]))

\* An aborted request ends with idle, unless its revision is superseded.
RequestAborted ==
    /\ l.busy /\ l.aborted
    /\ Step(EndOfSend(IF l.old THEN l ELSE OnIdle(l)))

NewId(v) == CHOOSE n \in 0..Cardinality(v.running) : n \notin Ids(v)

\* The results of a batch go to the model as one message.
Deliver(v, c) ==
    LET u == [v EXCEPT !.out = Minus(@, c.n)]
    IN  IF c.stale \/ Gone(v) THEN u ELSE Enqueue(u)

StartBatch(v, c) ==
    IF Gone(v) THEN [v EXCEPT !.out = Minus(@, c.n)]
    ELSE [v EXCEPT !.running = @ \cup {[id |-> NewId(v), n |-> c.n, stale |-> c.stale]}]

\* The next callback of setImmediate.  The reminder after a reply does not
\* look at the revision, the refusal of a risky tool at nothing.
Called(v, c) ==
    CASE c.kind = "say" -> IF c.stale \/ Gone(v) THEN v ELSE Enqueue(v)
      [] c.kind = "sayAny" -> IF Gone(v) THEN v ELSE Enqueue(v)
      [] c.kind = "refuse" -> Enqueue(v)
      [] c.kind = "drain" ->
             IF ~v.busy /\ v.queue > 0 THEN Send([v EXCEPT !.queue = @ - 1]) ELSE v
      [] c.kind = "batch" -> StartBatch(v, c)
      [] OTHER -> Deliver(v, c)

RunCallback ==
    /\ l.loop # <<>>
    /\ Step(Called([l EXCEPT !.loop = Tail(@)], Head(l.loop)))

\* All tools of a batch have ended.  Those of a superseded revision are
\* forgotten here, before their count is taken back.
ToolsEnd(b) ==
    LET v == [l EXCEPT !.running = @ \ {b}]
    IN  Step(IF b.stale THEN v ELSE Later(v, "deliver", b.n))

-----------------------------------------------------------------------------
(* What comes from outside *)

Registered == ~l.killed /\ ~l.terminal
Stale(s) == [i \in DOMAIN s |-> [s[i] EXCEPT !.stale = TRUE]]

\* A question of the user, or a message of the parent or of a child.
Hear ==
    /\ l.inputs < Inputs /\ Registered
    /\ Step(Enqueue([l EXCEPT !.inputs = @ + 1, !.lock = @ \/ l.kind = "chat"]))

\* What becomes of the work under way when the requirement has changed.
Superseded(v) ==
    [v EXCEPT !.queue = 0, !.aborted = v.busy, !.old = v.busy, !.calls = 0, !.fg = 0, !.bg = 0,
              !.loop = Stale(@), !.running = {[b EXCEPT !.stale = TRUE] : b \in @},
              !.finishing = IF @ = "no" THEN @ ELSE "old"]

\* acceptSessionInput with a changed requirement: the work under way is
\* superseded, the children are stopped, and the input starts the next turn.
Revise ==
    /\ l.inputs < Inputs /\ l.kind \in {"chat", "root"}
    /\ Step(Enqueue([Superseded(l) EXCEPT !.inputs = @ + 1]))

\* The same for a sub-leader, which is stopped with its conversation's work.
Supersede ==
    /\ Sub(l) /\ Registered
    /\ Step([Superseded(l) EXCEPT !.killed = TRUE, !.store = "err"])

\* killAgent by the parent or the user: the children are stopped first.
Kill ==
    /\ Sub(l) /\ Registered
    /\ Step([l EXCEPT !.killed = TRUE, !.store = "err", !.queue = 0, !.aborted = l.busy,
                      !.fg = 0, !.bg = 0, !.cancelled = l.fg])

\* A child has reported its end.  taskNotice passes over a sub-leader that
\* the store shows as ended.
ChildEnds ==
    \E place \in {"fg", "bg"} :
        /\ l[place] > 0
        /\ LET v == [l EXCEPT ![place] = @ - 1]
           IN  Step(IF v.killed \/ (Sub(v) /\ v.store # "live") THEN v ELSE Enqueue(v))

\* After two minutes the parent is told that the child is in the background.
ChildGoesOn ==
    /\ l.fg > 0
    /\ Step(Enqueue([l EXCEPT !.fg = @ - 1, !.bg = @ + 1]))

Next ==
    \/ Respond \/ RequestFails \/ BudgetFails \/ RequestAborted
    \/ RunCallback
    \/ \E b \in l.running : ToolsEnd(b)
    \/ Hear \/ Revise \/ Supersede \/ Kill
    \/ ChildEnds \/ ChildGoesOn

Spec == Init /\ [][Next]_l

\* The event loop turns, requests, tools and children end.  Nobody has to
\* write, revise or stop anything.
Fairness ==
    /\ WF_l(Respond \/ RequestFails \/ BudgetFails \/ RequestAborted)
    /\ WF_l(RunCallback)
    /\ WF_l(\E b \in l.running : ToolsEnd(b))
    /\ WF_l(ChildEnds)

FairSpec == Spec /\ Fairness

-----------------------------------------------------------------------------
(* Properties *)

\* Nothing is under way that could wake the leader.
Quiet ==
    ~l.busy /\ l.queue = 0 /\ l.loop = <<>> /\ l.running = {} /\ l.finishing = "no"

\* Tools handed over: in callbacks that carry a batch before or after it runs,
\* and in batches that run, one slot for each tool.
Carries(c) == c.kind \in {"batch", "deliver"}
LoopSlots(loop) ==
    UNION {{i} \X (1..loop[i].n) : i \in {k \in DOMAIN loop : Carries(loop[k])}}
RunSlots(running) == UNION {{b} \X (1..b.n) : b \in running}

\* The handler counts the tools it has handed over in callbacks that may find
\* the leader ended, stopped or superseded.  For a leader that is none of
\* these the count is exactly what runs, waits to run or is on its way, so
\* that its success is neither accepted early nor dropped for ever.
CountIsExact ==
    /\ LeaderTypeOK
    /\ Sub(l) /\ Registered /\ l.finishing = "no" =>
          l.out = Cardinality(LoopSlots(l.loop)) + Cardinality(RunSlots(l.running))

\* No dead zone (LeaderHandler.ts:156): a sub-leader that its parent still
\* counts as active rests only when its last turn has reported to the parent
\* or children of it are at work.
NoDeadZone == Sub(l) /\ l.store = "live" /\ Quiet => l.reported \/ Children(l) > 0

\* The conversation's lock is free whenever its PM, not ended and without a
\* failed request, rests after a turn that has replied to the user, whatever
\* todos, children, reminders and changes of the requirement came between,
\* unless the handler has missed the beginning of the turn.
RepliedReleases ==
    Conv(l) /\ l.store = "live" /\ Quiet /\ l.replied => ~l.lock \/ l.missed

\* The parent of a sub-leader never waits for ever without a word: it is told
\* something, unless the sub-leader is stopped, or shown as failed without an
\* end, which is what a refused spawn makes of it.
ParentIsTold == <>(Sub(l) => l.told \/ l.killed \/ (l.store = "err" /\ ~l.terminal))

\* After a kill the parent is not notified, "so the parent isn't restarted"
\* (SessionRuntime.ts:80).
KilledIsSilent == [][l.killed => l'.told = l.told]_l

=============================================================================
