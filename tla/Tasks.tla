------------------------------- MODULE Tasks --------------------------------
(***************************************************************************)
(* Logical tasks: durable budgets, deduplicated operations, evaluation     *)
(* after a worker stops, and automatic or requested retries                *)
(* (session/Tasks.ts, runtime/TaskRecovery.ts, session/Control.ts and the  *)
(* task part of Journal.ts `reduce').                                      *)
(*                                                                         *)
(* A conversation has a revision; every change of the requirement raises   *)
(* it.  A task belongs to a revision and is carried out by attempts, each  *)
(* a worker of its own.  One goal is followed, so the task of revision r   *)
(* is work[r] and its attempts are 1..work[r].attempts.  Everything is     *)
(* asynchronous: a tool call, an evaluation and the launch of a retry each *)
(* wait between their steps, while workers end, users stop them or change  *)
(* the requirement, the PM intervenes and the process dies and restarts.   *)
(***************************************************************************)
EXTENDS Integers, Sequences, FiniteSets

CONSTANTS
  Contracts,    \* what the dispatch may promise: subset of the four below
  Sigs,         \* operations a worker may ask for: subset of the three below
  Kinds,        \* shared budgets besides: subset of {"turns", "requests"}
  MaxAttempts,  \* recovery.max_attempts
  MaxUsed,      \* recovery.max_turns, recovery.max_requests
  MaxTools,     \* recovery.max_tools
  Slots,        \* bound: launches of one task under way at once
  MaxRev,       \* bound: revisions
  Dispatched,   \* bound: revisions for which the goal is dispatched
  MaxTrouble    \* bound: deaths, stops, edits, expiries, refusals and commands

(* "none" no machine check; "part" a file check that leaves a criterion
   uncovered; "file" and "suite" a check that covers them all. *)
ASSUME ContractsAssumption == Contracts \subseteq {"none", "part", "file", "suite"}

(* "write" is verified by the hash of its file, "cmd" has unknown effects,
   "read" has none. *)
ASSUME SigsAssumption == Sigs \subseteq {"write", "cmd", "read"}

ASSUME BudgetsAssumption ==
  /\ Kinds \subseteq {"turns", "requests"} /\ MaxUsed \in Nat \ {0}
  /\ MaxAttempts \in Nat \ {0} /\ MaxTools \in Nat \ {0}

ASSUME BoundsAssumption == Slots \in Nat /\ MaxRev \in Nat \ {0} /\ MaxTrouble \in Nat

VARIABLES
  rev,      \* current revision of the conversation
  work,     \* journaled: the task of each revision
  here,     \* attempts whose worker lives in this process
  live,     \* operations being executed, as <<revision, index>>
  done,     \* operations whose effect has happened
  disk,     \* the file that writes and file checks are about
  reap,     \* orphans of the last process: "no", "yes" or "failed"
  settle,   \* operations stopAffected waits for
  recover,  \* recoverTasks has still to run in this process
  publishing, \* tasks the PM has accepted whose files are being published
  eval,     \* the evaluation of each task
  armed,    \* tasks with a retry timer
  launch,   \* launches under way
  stops,    \* history: <<attempt, status>> of the user's stops, per revision
  stray,    \* history: a launch overtaken by another one has found a conflict
  slipped,  \* history: tasks whose file was edited while they were being published
  trouble

effects == <<live, done, disk>>
process == <<reap, settle, recover, publishing>>
retries == <<armed, launch>>
history == <<stops, stray, slipped>>
vars == <<rev, work, here, effects, process, eval, retries, history, trouble>>

Revs == 1..MaxRev
Troubled == trouble < MaxTrouble /\ trouble' = trouble + 1

-----------------------------------------------------------------------------
(* The journaled task and the reducer's view of it. *)

NoOutcome == [why |-> "none", left |-> FALSE]

(* How a worker reports its end: what it says and whether items are left. *)
Outcomes == {[why |-> "success", left |-> FALSE], [why |-> "success", left |-> TRUE],
             [why |-> "transient", left |-> FALSE], [why |-> "unfinished", left |-> TRUE]}

NoTask == [status |-> "absent", contract |-> "none", attempts |-> 0,
           used |-> [k \in Kinds |-> 0], mode |-> "auto", requested |-> FALSE, late |-> FALSE,
           outcome |-> NoOutcome, ops |-> << >>, verdict |-> "none",
           suite |-> [a \in 1..MaxAttempts |-> "none"]]

Mutates(op) == op.sig # "read"

(* reserveAttempt's event: the next attempt, whose worker has not stopped. *)
Reserved(t) ==
  [t EXCEPT !.attempts = @ + 1, !.status = "running", !.outcome = NoOutcome]

Spent(t) ==
  \/ t.attempts >= MaxAttempts \/ Len(t.ops) >= MaxTools \/ t.late
  \/ \E k \in Kinds : t.used[k] >= MaxUsed

(* agent.done and session.recovered leave what is pending uncertain. *)
Unsure(ops) == [i \in DOMAIN ops |->
  IF ops[i].status = "pending" THEN [ops[i] EXCEPT !.status = "uncertain"] ELSE ops[i]]
UnsureSuite(s) == [a \in DOMAIN s |-> IF s[a] = "pending" THEN "uncertain" ELSE s[a]]

(* taskState under the reducer's fence: only the current revision changes. *)
Patched(r, t) == IF r = rev THEN [work EXCEPT ![r] = t] ELSE work

(* safeToRetry finds nothing to inspect. *)
Guards(t) == {i \in DOMAIN t.ops : t.ops[i].guard # "none"}
Safe(t) ==
  /\ \A a \in DOMAIN t.suite : t.suite[a] \notin {"pending", "uncertain"}
  /\ \A i \in DOMAIN t.ops : LET op == t.ops[i] IN
       ~Mutates(op) \/ op.rec \/ (op.status = "completed" /\ op.ok /\ op.guard # "none")
  /\ \A i \in Guards(t) : (\A j \in Guards(t) : j <= i) => t.ops[i].guard = disk

Succeeded(op) == op.status = "completed" /\ op.ok

(* Attempt a has done something no other attempt has. *)
Progress(t, a) ==
  \E i \in DOMAIN t.ops :
    /\ t.ops[i].by = a /\ Succeeded(t.ops[i])
    /\ \A j \in DOMAIN t.ops : ~( t.ops[j].by # a /\ Succeeded(t.ops[j])
                                  /\ t.ops[j].sig = t.ops[i].sig )

(* scheduleRetry's decision. *)
Retried(t, requested) ==
  CASE Spent(t) -> [t EXCEPT !.status = "exhausted"]
    [] ~Spent(t) /\ (~Safe(t) \/ (t.mode = "manual" /\ ~requested)) ->
         [t EXCEPT !.status = "blocked"]
    [] OTHER -> [t EXCEPT !.status = "retry_wait", !.requested = requested]

(* armTask does nothing while the task has a timer. *)
ArmIfWaiting(r, t) ==
  armed' = IF r = rev /\ t.status = "retry_wait" THEN armed \cup {r} ELSE armed

-----------------------------------------------------------------------------
(* What waiting means: tools, evaluations and launches go on only when the
   orphans of the last process are gone and stopAffected's barrier is down. *)

Cleared == reap = "no" /\ settle \cap live = {}
Executing(r, a) == {x \in live : x[1] = r /\ work[r].ops[x[2]].by = a}

NoEval == [stage |-> "no", of |-> 0, saw |-> NoOutcome, passed |-> FALSE, covered |-> FALSE]
NoLaunch == [stage |-> "no", of |-> 0]

Init ==
  /\ rev = 1
  /\ work = [r \in Revs |-> NoTask]
  /\ here = [r \in Revs |-> {}]
  /\ live = {} /\ done = {}
  /\ disk = "old"
  /\ reap = "no" /\ settle = {} /\ recover = FALSE
  /\ eval = [r \in Revs |-> NoEval]
  /\ publishing = {} /\ armed = {}
  /\ launch = [r \in Revs |-> [s \in 1..Slots |-> NoLaunch]]
  /\ stops = [r \in Revs |-> {}] /\ stray = FALSE /\ slipped = {}
  /\ trouble = 0

-----------------------------------------------------------------------------
(* The worker of an attempt. *)

Admit(r, c) ==
  /\ r = rev /\ r \in Dispatched /\ work[r].status = "absent" /\ ~recover
  /\ work' = [work EXCEPT ![r] = Reserved([NoTask EXCEPT !.contract = c])]
  /\ here' = [here EXCEPT ![r] = {1}]
  /\ UNCHANGED <<rev, effects, process, eval, retries, history, trouble>>

(* consumeTaskTurn and consumeTaskRequest; the former does not ask that the
   task is running. *)
Use(r, a, k) ==
  /\ a \in here[r] /\ a = work[r].attempts
  /\ work[r].status \notin {"superseded", "accepted"}
  /\ k = "requests" => work[r].status = "running"
  /\ work[r].used[k] < MaxUsed /\ ~work[r].late
  /\ work' = Patched(r, [work[r] EXCEPT !.used[k] = @ + 1])
  /\ UNCHANGED <<rev, here, effects, process, eval, retries, history, trouble>>

(* A wrong Prior: only what the PM has reconciled is looked up. *)
PriorReconciled(t, a, sig) ==
  {i \in DOMAIN t.ops : t.ops[i].by # a /\ t.ops[i].sig = sig /\ Mutates(t.ops[i])
                        /\ t.ops[i].rec}

(* An operation of another attempt with the same signature is answered from
   the record or refused; either way nothing runs. *)
Prior(t, a, sig) ==
  {i \in DOMAIN t.ops : t.ops[i].by # a /\ t.ops[i].sig = sig /\ Mutates(t.ops[i])}

(* executeTool: the wait for the barrier, the fence, beginTaskOperation and the
   start of the tool, without a pause after the wait. *)
Begin(r, a, sig) ==
  /\ a \in here[r] /\ Executing(r, a) = {}
  /\ Cleared /\ r = rev
  /\ a = work[r].attempts /\ work[r].status = "running"
  /\ Len(work[r].ops) < MaxTools /\ ~work[r].late
  /\ Prior(work[r], a, sig) = {}
  /\ work' = [work EXCEPT ![r].ops = Append(@,
       [by |-> a, sig |-> sig, status |-> "pending", ok |-> FALSE, guard |-> "none",
        rec |-> FALSE])]
  /\ live' = live \cup {<<r, Len(work[r].ops) + 1>>}
  /\ UNCHANGED <<rev, here, done, disk, process, eval, retries, history, trouble>>

(* The tool does its work, whoever has lost interest in it by then. *)
Effect(x) ==
  /\ x \in live \ done
  /\ done' = done \cup {x}
  /\ disk' = IF work[x[1]].ops[x[2]].sig = "write" THEN "new" ELSE disk
  /\ UNCHANGED <<rev, work, here, live, process, eval, retries, history, trouble>>

(* The tool returns and finishTaskOperation records what it said; a write that
   succeeded is recorded with what the file holds at that moment. *)
Finish(x) ==
  /\ x \in live /\ reap = "no"
  /\ \E ok \in BOOLEAN :
       LET r == x[1]  op == work[r].ops[x[2]] IN
       /\ (op.sig = "write") => (ok = (x \in done))
       /\ (op.sig = "cmd" /\ ok) => x \in done
       /\ work' = Patched(r, [work[r] EXCEPT !.ops[x[2]] =
            [op EXCEPT !.status = "completed", !.ok = ok,
                       !.guard = IF op.sig = "write" /\ ok THEN disk ELSE "none"]])
  /\ live' = live \ {x}
  /\ UNCHANGED <<rev, here, done, disk, process, eval, retries, history, trouble>>

-----------------------------------------------------------------------------
(* Evaluation. *)

(* queueTaskResolution and the first stretch of evaluateTask, which runs before
   anything else: t has just stopped with its outcome.  While an evaluation is
   under way the request is dropped. *)
Queue(r, t) ==
  IF eval[r].stage = "no" /\ t.status \in {"running", "evaluating"} /\ r = rev
  THEN /\ work' = Patched(r, [t EXCEPT !.status = "evaluating"])
       /\ eval' = [eval EXCEPT ![r] = [NoEval EXCEPT !.stage = "settle", !.of = t.attempts,
                                             !.saw = t.outcome]]
  ELSE /\ work' = Patched(r, t)
       /\ UNCHANGED eval

(* A wrong Stopped: the stop of a user looks like a lost connection. *)
StoppedAlike(t, outcome) ==
  [t EXCEPT !.outcome = IF outcome.why = "stop" THEN [outcome EXCEPT !.why = "transient"]
                        ELSE outcome,
            !.ops = Unsure(@)]

Stopped(t, outcome) == [t EXCEPT !.outcome = outcome, !.ops = Unsure(@)]

(* The worker reports agent.done, or one of its limits makes it stop. *)
WorkerDone(r, outcome) ==
  /\ r = rev /\ work[r].attempts \in here[r] /\ work[r].outcome = NoOutcome
  /\ Executing(r, work[r].attempts) = {}
  /\ Queue(r, Stopped(work[r], outcome))
  /\ UNCHANGED <<rev, here, effects, process, retries, history, trouble>>

(* recordTaskCancellation: /pause or the kill of a worker. *)
UserStop(r) ==
  /\ Troubled /\ r = rev /\ work[r].status \in {"running", "evaluating"}
  /\ work[r].attempts \in here[r] \/ work[r].outcome # NoOutcome
  /\ \E left \in BOOLEAN :
       /\ work[r].outcome.left => left
       /\ Queue(r, Stopped(work[r], [why |-> "stop", left |-> left]))
  /\ stops' = [stops EXCEPT ![r] = @ \cup {<<work[r].attempts, work[r].status>>}]
  /\ UNCHANGED <<rev, here, effects, process, retries, stray, slipped>>

EndEval(r) == eval' = [eval EXCEPT ![r] = NoEval]

(* The wait for the barrier and for the tools of the worker; a wait that fails
   blocks the task. *)
Settle(r) ==
  /\ eval[r].stage = "settle" /\ reap # "yes"
  /\ IF reap = "failed"
     THEN work' = Patched(r, [work[r] EXCEPT !.status = "blocked"]) /\ EndEval(r)
     ELSE /\ settle \cap live = {} /\ Executing(r, eval[r].of) = {}
          /\ UNCHANGED work
          /\ IF r = rev THEN eval' = [eval EXCEPT ![r].stage = "check"] ELSE EndEval(r)
  /\ UNCHANGED <<rev, here, effects, process, retries, history, trouble>>

ToDecide(r, passed, covered) ==
  eval' = [eval EXCEPT ![r].stage = "decide", ![r].passed = passed, ![r].covered = covered]

(* The checks of the contract.  A test suite is a tool call of its own whose id
   names the attempt: one that has an answer is not run again. *)
Check(r) ==
  /\ eval[r].stage = "check"
  /\ LET t == work[r]  a == eval[r].of  s == t.suite[a]  expired == t.late \/ r # rev IN
     \/ /\ expired \/ t.contract = "none"
        /\ ToDecide(r, FALSE, FALSE) /\ UNCHANGED work
     \/ /\ ~expired /\ t.contract \in {"file", "part"}
        /\ ToDecide(r, disk = "new", t.contract = "file") /\ UNCHANGED work
     \/ /\ ~expired /\ t.contract = "suite" /\ s # "none"
        /\ ToDecide(r, s = "passed", TRUE) /\ UNCHANGED work
     \/ /\ ~expired /\ t.contract = "suite" /\ s = "none"
        /\ work' = [work EXCEPT ![r].suite[a] = "pending"]
        /\ eval' = [eval EXCEPT ![r].stage = "suite"]
  /\ UNCHANGED <<rev, here, effects, process, retries, history, trouble>>

SuiteEnds(r) ==
  /\ eval[r].stage = "suite"
  /\ \E ok \in BOOLEAN :
       /\ ToDecide(r, ok, TRUE)
       /\ work' = Patched(r, [work[r] EXCEPT !.suite[eval[r].of] =
                                IF ok THEN "passed" ELSE "failed"])
  /\ UNCHANGED <<rev, here, effects, process, retries, history, trouble>>

(* What evaluateTask makes of the stop it saw when it began, e.saw.  The branch for
   unsafe effects and the one for a spent budget leave the verdict alone. *)
Verdict(t, e) == IF t.contract = "suite" /\ e.passed THEN "pass" ELSE "fail"
Judged(t, e) == [t EXCEPT !.verdict = Verdict(t, e)]
Holds(t, e) == e.passed /\ (t.contract \in {"file", "part"} => disk = "new")
Accepts(t, e) == Holds(t, e) /\ e.covered /\ Safe(t) /\ ~e.saw.left

Decision(t, e) ==
  LET judged == Judged(t, e)
      reported == e.saw.why = "success"
      retry == \/ e.saw.why = "transient"
               \/ e.saw.why = "unfinished" /\ Progress(t, e.of)
               \/ reported /\ t.contract # "none"
  IN  IF reported /\ ~e.covered THEN [judged EXCEPT !.status = "awaiting_review"]
      ELSE IF ~Safe(t) THEN [t EXCEPT !.status = "blocked"]
      ELSE IF Spent([t EXCEPT !.attempts = 0]) THEN Retried(t, FALSE)
      ELSE IF e.saw.why # "stop" /\ retry THEN Retried(judged, FALSE)
      ELSE [judged EXCEPT !.status = "blocked"]

(* The files of a task that may be accepted are published first. *)
Decide(r) ==
  /\ eval[r].stage = "decide"
  /\ LET t == work[r]  u == Decision(t, eval[r]) IN
     IF r # rev THEN EndEval(r) /\ UNCHANGED <<work, armed>>
     ELSE IF Accepts(t, eval[r])
          THEN eval' = [eval EXCEPT ![r].stage = "publish"] /\ UNCHANGED <<work, armed>>
          ELSE /\ EndEval(r)
               /\ work' = [work EXCEPT ![r] = u]
               /\ ArmIfWaiting(r, u)
  /\ UNCHANGED <<rev, here, effects, process, launch, history, trouble>>

(* publishWorkspace returns or fails (Workspaces takes it apart); the task is
   accepted or blocked without another look at it or at its files. *)
Published(r) ==
  /\ eval[r].stage = "publish"
  /\ EndEval(r)
  /\ \E t \in {[Judged(work[r], eval[r]) EXCEPT !.status = "accepted"],
               [work[r] EXCEPT !.status = "blocked"]} : work' = Patched(r, t)
  /\ UNCHANGED <<rev, here, effects, process, retries, history, trouble>>

-----------------------------------------------------------------------------
(* Launch of a retry. *)

Willing(r) ==
  /\ r = rev /\ work[r].status = "retry_wait"
  /\ work[r].mode = "auto" \/ work[r].requested

(* The timer fires and launchAttempt begins to wait for the tools of the latest
   attempt; nothing keeps a second one from beginning while it waits. *)
Fire(r) ==
  /\ r \in armed
  /\ armed' = armed \ {r}
  /\ IF Willing(r)
     THEN \E s \in 1..Slots :
            /\ launch[r][s] = NoLaunch
            /\ launch' = [launch EXCEPT ![r][s] = [stage |-> "wait", of |-> work[r].attempts]]
     ELSE UNCHANGED launch
  /\ UNCHANGED <<rev, work, here, effects, process, eval, history, trouble>>

EndLaunch(r, s) == launch' = [launch EXCEPT ![r][s] = NoLaunch]

(* The waits are over, or have failed; the task is looked at afresh. *)
LaunchChecked(r, s) ==
  /\ launch[r][s].stage = "wait" /\ reap # "yes"
  /\ LET to(status) == /\ EndLaunch(r, s)
                       /\ work' = Patched(r, [work[r] EXCEPT !.status = status])
     IN  IF reap = "failed" THEN to("blocked")
         ELSE /\ settle \cap live = {} /\ Executing(r, launch[r][s].of) = {}
              /\ IF ~Willing(r) THEN EndLaunch(r, s) /\ UNCHANGED work
                 ELSE IF work[r].late THEN to("exhausted")
                 ELSE IF ~Safe(work[r]) THEN to("blocked")
                 ELSE launch' = [launch EXCEPT ![r][s].stage = "compare"] /\ UNCHANGED work
  /\ UNCHANGED <<rev, here, effects, process, eval, armed, history, trouble>>

(* Both copies of the workspace have been compared.  A conflict is recorded
   without another look at the task. *)
Conflict(r, s) ==
  /\ Troubled /\ launch[r][s].stage = "compare"
  /\ EndLaunch(r, s)
  /\ work' = Patched(r, [work[r] EXCEPT !.status = "blocked"])
  /\ stray' = (stray \/ (r = rev /\ work[r].status # "retry_wait"))
  /\ UNCHANGED <<rev, here, effects, process, eval, armed, stops, slipped>>

StillWaiting(r) == r = rev /\ work[r].status = "retry_wait"

Ready(r, s) ==
  /\ launch[r][s].stage = "compare"
  /\ StillWaiting(r)

Overtaken(r, s) ==
  /\ launch[r][s].stage = "compare" /\ ~StillWaiting(r)
  /\ EndLaunch(r, s)
  /\ UNCHANGED <<rev, work, here, effects, process, eval, armed, history, trouble>>

(* preCheckSpawn finds no room now, or a policy against it. *)
NotNow(r, s) ==
  /\ Troubled /\ Ready(r, s) /\ EndLaunch(r, s)
  /\ \/ armed' = armed \cup {r} /\ UNCHANGED work
     \/ work' = [work EXCEPT ![r].status = "blocked"] /\ UNCHANGED armed
  /\ UNCHANGED <<rev, here, effects, process, eval, history>>

(* reserveAttempt; other tasks may have used up the attempts of the revision. *)
Start(r, s) ==
  /\ Ready(r, s) /\ EndLaunch(r, s)
  /\ \/ /\ work' = [work EXCEPT ![r].status = "exhausted"]
        /\ UNCHANGED here
     \/ /\ ~Spent(work[r])
        /\ work' = [work EXCEPT ![r] = Reserved(@)]
        /\ here' = [here EXCEPT ![r] = @ \cup {work[r].attempts + 1}]
  /\ UNCHANGED <<rev, effects, process, eval, armed, history, trouble>>

-----------------------------------------------------------------------------
(* What the PM decides with its tools, which wait like every tool. *)

(* A wrong MayControl: whatever state the task is in. *)
MayControlAny(r, statuses) ==
  Troubled /\ Cleared /\ r = rev /\ work[r].status \in statuses \cup {"running"}

MayControl(r, statuses) == Troubled /\ Cleared /\ r = rev /\ work[r].status \in statuses

RetryTask(r) ==
  /\ MayControl(r, {"blocked", "awaiting_review"})
  /\ LET t == Retried(work[r], TRUE) IN
       /\ work' = [work EXCEPT ![r] = t]
       /\ ArmIfWaiting(r, t)
  /\ UNCHANGED <<rev, here, effects, process, eval, launch, history>>

(* TaskPolicy and /tasks pause | resume. *)
TaskMode(r, mode) ==
  /\ Troubled /\ r = rev /\ work[r].status \notin {"absent"}
  /\ work' = [work EXCEPT ![r].mode = mode, ![r].requested = FALSE]
  /\ armed' = IF mode = "auto" /\ work[r].status = "retry_wait" THEN armed \cup {r} ELSE armed
  /\ UNCHANGED <<rev, here, effects, process, eval, launch, history>>

(* The PM has inspected an operation, or a test suite that was cut short, and
   decides that it must not be repeated. *)
ReconcileTask(r) ==
  /\ MayControl(r, {"blocked"})
  /\ \/ \E i \in DOMAIN work[r].ops :
          LET op == work[r].ops[i] IN
          /\ Mutates(op)
          /\ work' = [work EXCEPT ![r].ops[i] =
               [op EXCEPT !.status = "completed", !.ok = TRUE, !.rec = TRUE,
                          !.guard = IF op.sig = "write" THEN disk ELSE "none"]]
     \/ \E a \in 1..MaxAttempts :
          /\ work[r].suite[a] = "uncertain"
          /\ work' = [work EXCEPT ![r].suite[a] = "failed"]
  /\ UNCHANGED <<rev, here, effects, process, eval, retries, history>>

(* A wrong Acceptable: operations that did not finish are overlooked. *)
AcceptableUnfinished(t, proof) ==
  /\ ~t.outcome.left
  /\ t.contract \in {"file", "part"} => disk = "new"
  /\ t.contract = "suite" => proof = "tests" \/ t.verdict = "pass"

(* Nothing in the way of an acceptance by the PM whose own fresh checks since
   the stop were of this kind, "read" or "tests". *)
Acceptable(t, proof) ==
  /\ ~t.outcome.left
  /\ \A i \in DOMAIN t.ops : Mutates(t.ops[i]) => t.ops[i].rec \/ Succeeded(t.ops[i])
  /\ t.contract \in {"file", "part"} => disk = "new"
  /\ t.contract = "suite" => proof = "tests" \/ t.verdict = "pass"

ReviewTask(r) ==
  /\ MayControl(r, {"awaiting_review", "blocked"})
  /\ work[r].outcome.why = "success"
  /\ \E proof \in {"read", "tests"} :
       \/ /\ Acceptable(work[r], proof)
          /\ work' = [work EXCEPT ![r].status = "accepted", ![r].verdict = proof]
          /\ publishing' = publishing \cup {r}
          /\ UNCHANGED armed
       \/ LET t == Retried([work[r] EXCEPT !.verdict = proof], FALSE) IN
            /\ work' = [work EXCEPT ![r] = t]
            /\ ArmIfWaiting(r, t)
            /\ UNCHANGED publishing
  /\ UNCHANGED <<rev, here, effects, reap, settle, recover, eval, launch, history>>

(* The tool then publishes the files of the accepted task.  If that fails it
   blocks the task. *)
ReviewPublished(r) ==
  /\ r \in publishing
  /\ publishing' = publishing \ {r}
  /\ \/ UNCHANGED work
     \/ work' = Patched(r, [work[r] EXCEPT !.status = "blocked"])
  /\ UNCHANGED <<rev, here, effects, reap, settle, recover, eval, retries, history, trouble>>

-----------------------------------------------------------------------------
(* The environment. *)

(* The workers whose tools stopAffected cancels and waits for: those that the
   journal has as running. *)
Affected(r) ==
  {x \in live : x[1] = r /\ work[r].outcome = NoOutcome
                /\ work[r].ops[x[2]].by = work[r].attempts}

Superseded(t) ==
  IF t.status = "absent" THEN t
  ELSE [t EXCEPT !.status = "superseded", !.suite = UnsureSuite(t.suite)]

(* acceptSessionInput and interruptSession: the change is journaled first. *)
RequirementChange ==
  /\ Troubled /\ rev < MaxRev
  /\ rev' = rev + 1
  /\ work' = [work EXCEPT ![rev] = Superseded(work[rev])]
  /\ settle' = settle \cup Affected(rev)
  /\ UNCHANGED <<here, effects, reap, recover, publishing, eval, retries, history>>

(* Somebody else changes the file. *)
Edit ==
  /\ Troubled /\ disk' = "ext"
  /\ slipped' = slipped \cup {r \in Revs : eval[r].stage = "publish"}
  /\ UNCHANGED <<rev, work, here, live, done, process, eval, retries, stops, stray>>

Deadline(r) ==
  /\ Troubled /\ r = rev /\ work[r].status # "absent" /\ ~work[r].late
  /\ work' = [work EXCEPT ![r].late = TRUE]
  /\ UNCHANGED <<rev, here, effects, process, eval, retries, history>>

(* session.recovered: workers that were running are interrupted. *)
Recovered(t, running, left) ==
  [t EXCEPT !.ops = Unsure(@), !.suite = UnsureSuite(@),
            !.outcome = IF running /\ @ = NoOutcome
                        THEN [why |-> "unfinished", left |-> left] ELSE @]

(* The process dies with w journaled and is started again; commands outlive
   it. *)
Dies(w) ==
  /\ Troubled
  /\ \E left \in BOOLEAN : work' = [w EXCEPT ![rev] =
       Recovered(@, w[rev].attempts \in here[rev], left)]
  /\ here' = [r \in Revs |-> {}]
  /\ live' = {x \in live : work[x[1]].ops[x[2]].sig = "cmd"}
  /\ reap' = "yes" /\ settle' = {} /\ recover' = TRUE
  /\ eval' = [r \in Revs |-> NoEval]
  /\ publishing' = {} /\ armed' = {}
  /\ launch' = [r \in Revs |-> [s \in 1..Slots |-> NoLaunch]]
  /\ UNCHANGED <<rev, done, disk, history>>

Crash == Dies(work)

(* Between the events of an admission, before the worker exists. *)
AdmitDies(r, c) ==
  /\ r = rev /\ r \in Dispatched /\ work[r].status = "absent" /\ ~recover
  /\ LET created == [NoTask EXCEPT !.contract = c, !.status = "running"] IN
     \E t \in {created, Reserved(created)} : Dies([work EXCEPT ![r] = t])

(* Between the reservation of a retry and the start of its worker. *)
StartDies(r, s) ==
  /\ Ready(r, s) /\ ~Spent(work[r])
  /\ Dies([work EXCEPT ![r] = Reserved(@)])

(* recoverOrphanCommands ends every orphan, or cannot. *)
Reap ==
  /\ reap = "yes"
  /\ reap' = "no" /\ live' = {}
  /\ UNCHANGED <<rev, work, here, done, disk, settle, recover, publishing, eval, retries,
                 history, trouble>>

ReapFails ==
  /\ reap = "yes" /\ Troubled
  /\ reap' = "failed"
  /\ UNCHANGED <<rev, work, here, effects, settle, recover, publishing, eval, retries, history>>

(* recoverTasks finds an attempt without an outcome: a reservation that was cut
   short, unless its worker lives here. *)
Interrupted(t) ==
  work' = IF t.attempts \in here[rev] THEN work ELSE [work EXCEPT ![rev].status = "blocked"]

(* Wrong forms of RecoverTasks: stops are forgotten, or retries. *)
RecoverTasksRetriesOnly ==
  /\ recover /\ recover' = FALSE
  /\ ArmIfWaiting(rev, work[rev])
  /\ UNCHANGED <<rev, work, here, effects, reap, settle, publishing, eval, launch, history, trouble>>

RecoverTasksStopsOnly ==
  /\ recover /\ recover' = FALSE
  /\ LET t == work[rev] IN
     IF t.status \in {"running", "evaluating"} /\ t.outcome = NoOutcome
     THEN Interrupted(t) /\ UNCHANGED eval
     ELSE Queue(rev, t)
  /\ UNCHANGED <<rev, here, effects, reap, settle, publishing, retries, history, trouble>>

RecoverTasks ==
  /\ recover /\ recover' = FALSE
  /\ LET t == work[rev] IN
     /\ ArmIfWaiting(rev, t)
     /\ IF t.status \in {"running", "evaluating"} /\ t.outcome = NoOutcome
        THEN Interrupted(t) /\ UNCHANGED eval
        ELSE Queue(rev, t)
  /\ UNCHANGED <<rev, here, effects, reap, settle, publishing, launch, history, trouble>>

-----------------------------------------------------------------------------
Worker(r, a) == (\E k \in Kinds : Use(r, a, k)) \/ \E sig \in Sigs : Begin(r, a, sig)
Evaluation(r) == Settle(r) \/ Check(r) \/ SuiteEnds(r) \/ Decide(r) \/ Published(r)
Launch(r, s) ==
  LaunchChecked(r, s) \/ Overtaken(r, s) \/ Conflict(r, s) \/ NotNow(r, s) \/ Start(r, s)
PM(r) == RetryTask(r) \/ ReconcileTask(r) \/ ReviewTask(r) \/ ReviewPublished(r)
         \/ \E mode \in {"auto", "manual"} : TaskMode(r, mode)

Next ==
  \/ \E r \in Revs :
       \/ \E c \in Contracts : Admit(r, c) \/ AdmitDies(r, c)
       \/ \E a \in here[r] : Worker(r, a)
       \/ \E outcome \in Outcomes : WorkerDone(r, outcome)
       \/ UserStop(r) \/ Deadline(r)
       \/ Evaluation(r)
       \/ Fire(r)
       \/ \E s \in 1..Slots : Launch(r, s) \/ StartDies(r, s)
       \/ PM(r)
  \/ \E x \in live : Effect(x) \/ Finish(x)
  \/ RequirementChange \/ Edit \/ Crash
  \/ Reap \/ ReapFails \/ RecoverTasks

(* Tools end, cancelled or timed out; the event loop runs what is due. *)
Fairness ==
  /\ \A r \in Revs :
       /\ WF_vars(Evaluation(r)) /\ WF_vars(Fire(r))
       /\ \A s \in 1..Slots : WF_vars(Launch(r, s))
  /\ WF_vars(\E x \in live : Finish(x))
  /\ WF_vars(Reap \/ ReapFails) /\ WF_vars(RecoverTasks)

Spec == Init /\ [][Next]_vars /\ Fairness

-----------------------------------------------------------------------------
(* Properties. *)

Tasks ==
  [status : {"absent", "running", "evaluating", "retry_wait", "blocked", "awaiting_review",
             "accepted", "exhausted", "superseded"},
   contract : {"none", "part", "file", "suite"}, attempts : 0..MaxAttempts,
   used : [Kinds -> 0..MaxUsed], mode : {"auto", "manual"},
   requested : BOOLEAN, late : BOOLEAN,
   outcome : [why : {"none", "success", "transient", "unfinished", "stop"}, left : BOOLEAN],
   ops : Seq([by : 1..MaxAttempts, sig : {"write", "cmd", "read"},
              status : {"pending", "completed", "uncertain"}, ok : BOOLEAN,
              guard : {"none", "old", "new", "ext"}, rec : BOOLEAN]),
   verdict : {"none", "pass", "fail", "read", "tests"},
   suite : [1..MaxAttempts -> {"none", "pending", "passed", "failed", "uncertain"}]]

(* Every variable has its type; with the bounds of its counters this says that
   attempts, turns, requests and tools together stay within the budget the
   dispatch was given, over every retry and restart (Tasks.ts reserveAttempt). *)
TypeOK ==
  /\ rev \in Revs
  /\ work \in [Revs -> Tasks] /\ \A r \in Revs : Len(work[r].ops) <= MaxTools
  /\ here \in [Revs -> SUBSET (1..MaxAttempts)]
  /\ \A x \in live \cup done \cup settle : x[1] \in Revs /\ x[2] \in DOMAIN work[x[1]].ops
  /\ disk \in {"old", "new", "ext"} /\ reap \in {"no", "yes", "failed"} /\ recover \in BOOLEAN
  /\ publishing \cup armed \subseteq Revs
  /\ eval \in [Revs -> [stage : {"no", "settle", "check", "suite", "decide", "publish"},
                        of : 0..MaxAttempts,
                        saw : [why : {"none", "success", "transient", "unfinished", "stop"},
                               left : BOOLEAN],
                        passed : BOOLEAN, covered : BOOLEAN]]
  /\ launch \in [Revs -> [1..Slots -> [stage : {"no", "wait", "compare"}, of : 0..MaxAttempts]]]
  /\ stray \in BOOLEAN /\ slipped \subseteq Revs /\ trouble \in 0..MaxTrouble

(* A write or a command has been carried out by one attempt only: a retry is
   answered from the record or refused, also when the earlier attempt was cut
   short and nobody knows what it did (beginTaskOperation).  With the types of
   the variables. *)
EffectsOfOneAttempt ==
  /\ TypeOK
  /\ \A x, y \in done :
      LET p == work[x[1]].ops[x[2]]  q == work[y[1]].ops[y[2]]
      IN  (x[1] = y[1] /\ p.sig = q.sig /\ Mutates(p)) => p.by = q.by

(* A task enters `accepted' only with no effect in doubt, with its file check true
   of the file at that moment unless somebody has edited the file since its
   publication began, and with a passing run of its test suite: evaluateTask accepts
   on the run of the latest attempt, the PM on a run of its own or on the record of
   any attempt.  A stop, a new deadline or a change of policy while the files are
   published do not come between.  Only a launch that another one has overtaken does
   (below): the PM may then start an attempt under the publication of the one before
   (evaluateTask, reviewTask). *)
TestsPassed(t) ==
  \/ t.verdict = "tests"
  \/ t.verdict = "pass" /\ t.suite[t.attempts] = "passed"
  \/ t.verdict = "read" /\ \E a \in 1..MaxAttempts : t.suite[a] = "passed"

AcceptedIsVerified ==
  [][\A r \in Revs :
       ~stray /\ work'[r].status = "accepted" /\ work[r].status # "accepted" =>
         LET t == work'[r] IN
         /\ \A i \in DOMAIN t.ops : Mutates(t.ops[i]) => t.ops[i].rec \/ Succeeded(t.ops[i])
         /\ t.contract \in {"file", "part"} => disk' = "new" \/ r \in slipped
         /\ t.contract = "suite" => TestsPassed(t)]_vars

(* Accepted and exhausted tasks are closed, and a superseded one does not change
   at all: no late evaluation, launch or answer opens them again.  There are two
   exceptions: the publication that follows an acceptance by the PM may fail, and
   a launch that another one has overtaken records a conflict without looking at
   the task again (TaskReview, launchAttempt). *)
FinalStays(r) ==
    /\ work[r].status = "superseded" => work'[r] = work[r]
    /\ ~stray' /\ r \notin publishing /\ work[r].status \in {"accepted", "exhausted"} =>
         work'[r].status \in {work[r].status, "superseded"}

(* A new attempt is reserved only when the worker of the one before has
   stopped, with the same exception. *)
WorkersDoNotOverlap ==
  [][\A r \in Revs :
       ~stray /\ work'[r].attempts > work[r].attempts /\ work[r].attempts \in here[r] =>
         work[r].outcome # NoOutcome]_vars

(* A worker the user stopped while it was running is not replaced unless the PM
   asks for it (evaluateTask, README `主动取消'), with the second exception: after
   such a conflict the PM may start an attempt under an evaluation of the one
   before, which then hides the stop of the new one. *)
AutomaticRetry(r) ==
  /\ work'[r].status = "retry_wait" /\ work[r].status # "retry_wait"
  /\ ~work'[r].requested

StopOfRunningIsFinal(r) ==
    ~stray /\ AutomaticRetry(r) =>
        <<work[r].attempts, "running">> \notin stops[r] \/ work'[r].verdict \in {"read", "tests"}

(* What has ended stays ended, whether the task is closed or its worker was
   stopped by the user. *)
EndsStay == [][\A r \in Revs : FinalStays(r) /\ StopOfRunningIsFinal(r)]_vars

(* The same of every stop that was recorded. *)
StopIsFinal ==
  [][\A r \in Revs :
       AutomaticRetry(r) =>
         \A stop \in stops[r] : stop[1] # work[r].attempts
                                \/ work'[r].verdict \in {"read", "tests"}]_vars

(* When a tool starts, nothing started for an older requirement still executes. *)
OldWorkIsQuiet ==
  [][\A x \in live' \ live : \A y \in live : y[1] >= x[1]]_vars

(* The PM does not accept over a failed run of the tests without a passing one
   of its own. *)
ReviewRespectsTests ==
  [][\A r \in Revs :
       LET t == work'[r] IN
       t.status = "accepted" /\ work[r].status # "accepted" /\ t.contract = "suite"
         => t.verdict = "tests" \/ t.suite[t.attempts] # "failed"]_vars

(* Every stop is resolved: a task whose worker has stopped does not stay
   running or evaluating, over crashes too (queueTaskResolution, recoverTasks). *)
StopsAreResolved ==
  \A r \in Revs :
    work[r].outcome # NoOutcome /\ work[r].status \in {"running", "evaluating"}
      ~> work[r].status \notin {"running", "evaluating"}

(* A retry that was promised is started or given up: no timer is lost
   (armTask, launchAttempt). *)
RetriesAreLaunched ==
  \A r \in Revs :
    work[r].status = "retry_wait" /\ (work[r].mode = "auto" \/ work[r].requested)
      ~> work[r].status # "retry_wait" \/ (work[r].mode = "manual" /\ ~work[r].requested)
=============================================================================
