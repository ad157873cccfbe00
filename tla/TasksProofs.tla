------------------------------ MODULE TasksProofs ------------------------------
(***************************************************************************)
(* Proofs about logical tasks (module Tasks): effects belong to one        *)
(* attempt, what is accepted has been verified, what has ended stays       *)
(* ended, and attempts do not overlap.                                     *)
(*                                                                         *)
(* The invariant TaskInv is a formula Sound(...) about each task, whose    *)
(* arguments are the task's own row of the variables and the few values    *)
(* that all rows share.  A step changes one row, or makes the revision     *)
(* pass on, or ends the process; so there is a lemma for each manner in    *)
(* which a row may change (Moves, RestatingGoes, RestingGoes,              *)
(* AmendingGoes, ClosingGoes, EndingGoes, ReapingGoes, DyingGoes), and     *)
(* each action is shown to be of one of these manners.                     *)
(***************************************************************************)
EXTENDS Tasks, SequenceTheorems, TLAPS

-----------------------------------------------------------------------------
(* The invariant. *)

\* The types of the fields of a task and of the other rows.
Statuses == {"absent", "running", "evaluating", "retry_wait", "blocked", "awaiting_review",
             "accepted", "exhausted", "superseded"}
Reports == [why : {"none", "success", "transient", "unfinished", "stop"}, left : BOOLEAN]
Ops ==
  [by : 1..MaxAttempts, sig : {"write", "cmd", "read"},
   status : {"pending", "completed", "uncertain"}, ok : BOOLEAN,
   guard : {"none", "old", "new", "ext"}, rec : BOOLEAN]
Suites == [1..MaxAttempts -> {"none", "pending", "passed", "failed", "uncertain"}]
Verdicts == {"none", "pass", "fail", "read", "tests"}
Evals == [stage : {"no", "settle", "check", "suite", "decide", "publish"}, of : 0..MaxAttempts,
          saw : Reports, passed : BOOLEAN, covered : BOOLEAN]
Launches == [stage : {"no", "wait", "compare"}, of : 0..MaxAttempts]
Stops == (0..MaxAttempts) \X {"running", "evaluating"}

\* Operations with the same signature were begun by the same attempt.
OneOwner(t) ==
  \A i, j \in DOMAIN t.ops :
    t.ops[i].sig = t.ops[j].sig /\ Mutates(t.ops[i]) => t.ops[i].by = t.ops[j].by

\* A run of the test suite has passed.
Passed(t) == \E a \in 1..MaxAttempts : t.suite[a] = "passed"

\* Nothing has been done for a goal that was not dispatched.
Fresh(t) == t.attempts = 0 /\ t.ops = << >> /\ t.outcome = NoOutcome

\* No launch is under way.
Idle(ls) == \A s \in 1..Slots : ls[s].stage = "no"

\* Nothing is known of a revision that has not come yet.
Ahead(r, n, t, ls) == r > n => t.status = "absent" /\ Idle(ls)

\* Only the tasks of earlier revisions are superseded, only a dispatched goal is
\* evaluated, and a task is marked as evaluating only after its worker has stopped.
OfRevision(r, n, t, e) ==
  /\ t.status = "superseded" => r < n
  /\ t.status = "absent" => Fresh(t)
  /\ e.stage # "no" => r <= n /\ e.of \in 1..MaxAttempts /\ t.status # "absent"
  /\ t.outcome # NoOutcome => t.attempts \in 1..MaxAttempts
  /\ t.status = "evaluating" => t.outcome # NoOutcome

\* A verdict `pass' has a passing run of the suite behind it, and an evaluation
\* about to give one that of its attempt; while the suite runs, its answer is
\* outstanding.
Proved(current, t, e) ==
  /\ t.verdict = "pass" => Passed(t)
  /\ current /\ e.stage = "suite" => t.suite[e.of] = "pending"
  /\ current /\ e.stage \in {"decide", "publish"} /\ e.passed /\ t.contract = "suite" =>
       t.suite[e.of] = "passed"

\* Unless a launch was overtaken, an evaluation has the task to itself and is of
\* its last attempt, and a worker here that has not stopped belongs to a running
\* task.
Undisturbed(t, e, h) ==
  /\ e.stage # "no" => t.status = "evaluating" /\ e.of = t.attempts
  /\ t.attempts \in h /\ t.outcome = NoOutcome => t.status = "running"

\* Until the orphans are gone no evaluation gets past its wait, nor a launch, and
\* the task it is for can only be waiting or blocked.
Reaping(t, e, ls) ==
  /\ e.stage \in {"no", "settle"}
  /\ \A s \in 1..Slots : ls[s].stage # "no" =>
       ls[s].stage = "wait" /\ t.status \in {"retry_wait", "blocked"}

\* A stop by the user names an attempt that was made; that of the last one, had
\* it been running, is its outcome.
StopKnown(t, st) ==
  /\ \A stop \in st : stop[1] <= t.attempts
  /\ <<t.attempts, "running">> \in st => t.outcome.why = "stop"

\* The evaluation of an attempt the user stopped while it ran has seen the stop.
StopSeen(t, e, st) == <<t.attempts, "running">> \in st /\ e.stage # "no" => e.saw.why = "stop"

\* What holds of revision r when n is the current one: its task t, evaluation e,
\* workers h, launches ls and stops st.
Sound(r, n, wild, orphans, t, e, h, ls, st) ==
  /\ OneOwner(t) /\ OfRevision(r, n, t, e) /\ Proved(r = n, t, e) /\ StopKnown(t, st)
  /\ Ahead(r, n, t, ls)
  /\ ~wild /\ r = n => Undisturbed(t, e, h) /\ StopSeen(t, e, st)
  /\ orphans # "no" /\ r = n => Reaping(t, e, ls)

\* The same of a row of the variables.
SoundAt(r) == Sound(r, rev, stray, reap, work[r], eval[r], here[r], launch[r], stops[r])

\* The type invariant of Tasks, with the type of the history variable.
Typed == TypeOK /\ stops \in [Revs -> SUBSET Stops]

\* What is being published after a review has been accepted.
PublishingIs ==
  \A r \in publishing : r <= rev /\ (~stray /\ r = rev => work[r].status = "accepted")

\* No mutating operation of the task is in doubt.
Settled(t) ==
  \A i \in DOMAIN t.ops : Mutates(t.ops[i]) => t.ops[i].rec \/ Succeeded(t.ops[i])

\* An operation under way has no answer on record but one the PM gave.
Open(op) == op.status # "completed" \/ op.rec
OpenOps == \A x \in live : x = <<x[1], x[2]>> /\ Open(work[x[1]].ops[x[2]])

\* What the evaluation e of task t has established before its files are published,
\* if files says that they are as they were, or that somebody has edited them.
Established(t, e, files) ==
  /\ e.passed /\ Settled(t)
  /\ t.contract \in {"file", "part"} => files

\* The same of a row of the variables while the files are being published.
Files(r) == disk = "new" \/ r \in slipped
Publishable(r) ==
  ~stray /\ r = rev /\ eval[r].stage = "publish" => Established(work[r], eval[r], Files(r))

\* The inductive invariant.
TaskInv ==
  /\ Typed /\ PublishingIs /\ \A r \in Revs : SoundAt(r)
  /\ OpenOps /\ \A r \in Revs : Publishable(r)

\* The fields of a task have their types.
LEMMA TasksAre ==
  ASSUME NEW t \in Tasks
  PROVE  /\ t.status \in Statuses /\ t.contract \in {"none", "part", "file", "suite"}
         /\ t.attempts \in 0..MaxAttempts /\ t.used \in [Kinds -> 0..MaxUsed]
         /\ t.mode \in {"auto", "manual"} /\ t.requested \in BOOLEAN /\ t.late \in BOOLEAN
         /\ t.outcome \in Reports /\ t.ops \in Seq(Ops) /\ t.verdict \in Verdicts
         /\ t.suite \in Suites
BY DEF Tasks, Statuses, Reports, Ops, Verdicts, Suites

\* A task with another value of one field: status.
LEMMA NewStatus ==
  ASSUME NEW t \in Tasks, NEW s \in Statuses, NEW u, u = [t EXCEPT !.status = s]
  PROVE  /\ u \in Tasks /\ u.status = s /\ u.contract = t.contract /\ u.attempts = t.attempts
              /\ u.used = t.used /\ u.mode = t.mode /\ u.requested = t.requested
         /\ u.late = t.late /\ u.outcome = t.outcome /\ u.ops = t.ops /\ u.verdict = t.verdict
              /\ u.suite = t.suite
BY DEF Tasks, Statuses

\* A task with another value of one field: attempts.
LEMMA NewAttempts ==
  ASSUME NEW t \in Tasks, NEW s \in 0..MaxAttempts, NEW u, u = [t EXCEPT !.attempts = s]
  PROVE  /\ u \in Tasks /\ u.status = t.status /\ u.contract = t.contract /\ u.attempts = s
              /\ u.used = t.used /\ u.mode = t.mode /\ u.requested = t.requested
         /\ u.late = t.late /\ u.outcome = t.outcome /\ u.ops = t.ops /\ u.verdict = t.verdict
              /\ u.suite = t.suite
BY DEF Tasks

\* A task with another value of one field: used.
LEMMA NewUsed ==
  ASSUME NEW t \in Tasks, NEW s \in [Kinds -> 0..MaxUsed], NEW u, u = [t EXCEPT !.used = s]
  PROVE  /\ u \in Tasks /\ u.status = t.status /\ u.contract = t.contract
              /\ u.attempts = t.attempts /\ u.used = s /\ u.mode = t.mode
                   /\ u.requested = t.requested
         /\ u.late = t.late /\ u.outcome = t.outcome /\ u.ops = t.ops /\ u.verdict = t.verdict
              /\ u.suite = t.suite
BY DEF Tasks

\* A task with another value of one field: mode.
LEMMA NewMode ==
  ASSUME NEW t \in Tasks, NEW s \in {"auto", "manual"}, NEW u, u = [t EXCEPT !.mode = s]
  PROVE  /\ u \in Tasks /\ u.status = t.status /\ u.contract = t.contract
              /\ u.attempts = t.attempts /\ u.used = t.used /\ u.mode = s
                   /\ u.requested = t.requested
         /\ u.late = t.late /\ u.outcome = t.outcome /\ u.ops = t.ops /\ u.verdict = t.verdict
              /\ u.suite = t.suite
BY DEF Tasks

\* A task with another value of one field: requested.
LEMMA NewRequested ==
  ASSUME NEW t \in Tasks, NEW s \in BOOLEAN, NEW u, u = [t EXCEPT !.requested = s]
  PROVE  /\ u \in Tasks /\ u.status = t.status /\ u.contract = t.contract
              /\ u.attempts = t.attempts /\ u.used = t.used /\ u.mode = t.mode /\ u.requested = s
         /\ u.late = t.late /\ u.outcome = t.outcome /\ u.ops = t.ops /\ u.verdict = t.verdict
              /\ u.suite = t.suite
BY DEF Tasks

\* A task with another value of one field: outcome.
LEMMA NewOutcome ==
  ASSUME NEW t \in Tasks, NEW s \in Reports, NEW u, u = [t EXCEPT !.outcome = s]
  PROVE  /\ u \in Tasks /\ u.status = t.status /\ u.contract = t.contract
              /\ u.attempts = t.attempts /\ u.used = t.used /\ u.mode = t.mode
                   /\ u.requested = t.requested
         /\ u.late = t.late /\ u.outcome = s /\ u.ops = t.ops /\ u.verdict = t.verdict
              /\ u.suite = t.suite
BY DEF Tasks, Reports

\* A task with another value of one field: ops.
LEMMA NewOps ==
  ASSUME NEW t \in Tasks, NEW s \in Seq(Ops), NEW u, u = [t EXCEPT !.ops = s]
  PROVE  /\ u \in Tasks /\ u.status = t.status /\ u.contract = t.contract
              /\ u.attempts = t.attempts /\ u.used = t.used /\ u.mode = t.mode
                   /\ u.requested = t.requested
         /\ u.late = t.late /\ u.outcome = t.outcome /\ u.ops = s /\ u.verdict = t.verdict
              /\ u.suite = t.suite
BY DEF Tasks, Ops

\* A task with another value of one field: verdict.
LEMMA NewVerdict ==
  ASSUME NEW t \in Tasks, NEW s \in Verdicts, NEW u, u = [t EXCEPT !.verdict = s]
  PROVE  /\ u \in Tasks /\ u.status = t.status /\ u.contract = t.contract
              /\ u.attempts = t.attempts /\ u.used = t.used /\ u.mode = t.mode
                   /\ u.requested = t.requested
         /\ u.late = t.late /\ u.outcome = t.outcome /\ u.ops = t.ops /\ u.verdict = s
              /\ u.suite = t.suite
BY DEF Tasks, Verdicts

\* A task with another value of one field: suite.
LEMMA NewSuite ==
  ASSUME NEW t \in Tasks, NEW s \in Suites, NEW u, u = [t EXCEPT !.suite = s]
  PROVE  /\ u \in Tasks /\ u.status = t.status /\ u.contract = t.contract
              /\ u.attempts = t.attempts /\ u.used = t.used /\ u.mode = t.mode
                   /\ u.requested = t.requested
         /\ u.late = t.late /\ u.outcome = t.outcome /\ u.ops = t.ops /\ u.verdict = t.verdict
              /\ u.suite = s
BY DEF Tasks, Suites

\* Operation p is q but for being pending or uncertain.
OpLike(q, p) ==
  /\ p.sig = q.sig /\ p.ok = q.ok /\ p.rec = q.rec
  /\ p.status = "completed" <=> q.status = "completed"

\* Marking pending operations uncertain keeps who began them and what they are.
LEMMA UnsureOps ==
  ASSUME NEW ops \in Seq(Ops)
  PROVE  /\ Unsure(ops) \in Seq(Ops) /\ Len(Unsure(ops)) = Len(ops)
         /\ DOMAIN Unsure(ops) = DOMAIN ops
         /\ \A i \in DOMAIN ops : /\ Unsure(ops)[i].by = ops[i].by
                                  /\ Unsure(ops)[i].sig = ops[i].sig
                                  /\ OpLike(ops[i], Unsure(ops)[i])
<1> DEFINE n == Len(ops)
<1>1. n \in Nat /\ DOMAIN ops = 1..n /\ ops \in [1..n -> Ops]
  OBVIOUS
<1>2. \A i \in 1..n : IF ops[i].status = "pending"
        THEN [ops[i] EXCEPT !.status = "uncertain"] \in Ops
                                                    ELSE ops[i] \in Ops
  <2> TAKE i \in 1..n
  <2>1. ops[i] \in Ops
    BY <1>1
  <2>2. \A op \in Ops : [op EXCEPT !.status = "uncertain"] \in Ops
    BY DEF Ops
  <2> QED BY <2>1, <2>2
<1>3. Unsure(ops) \in [1..n -> Ops]
  BY <1>1, <1>2 DEF Unsure
<1>4. Unsure(ops) \in Seq(Ops) /\ Len(Unsure(ops)) = n
  BY <1>1, <1>3
<1>5. \A i \in DOMAIN ops : /\ Unsure(ops)[i].by = ops[i].by /\ Unsure(ops)[i].sig = ops[i].sig
                            /\ OpLike(ops[i], Unsure(ops)[i])
  <2> SUFFICES ASSUME NEW i \in 1..n, NEW op, op = ops[i]
               PROVE  /\ Unsure(ops)[i].by = op.by /\ Unsure(ops)[i].sig = op.sig
                      /\ OpLike(op, Unsure(ops)[i])
    BY <1>1
  <2>1. op \in Ops /\ Unsure(ops)[i] = IF op.status = "pending"
                                       THEN [op EXCEPT !.status = "uncertain"] ELSE op
    BY <1>1 DEF Unsure
  <2> QED BY <2>1 DEF Ops, OpLike
<1> QED BY <1>1, <1>3, <1>4, <1>5

\* What the three action properties say of the task of revision q.
StepOk(q) ==
  /\ ~stray /\ work'[q].status = "accepted" /\ work[q].status # "accepted" =>
         LET t == work'[q] IN
         /\ \A i \in DOMAIN t.ops : Mutates(t.ops[i]) => t.ops[i].rec \/ Succeeded(t.ops[i])
         /\ t.contract \in {"file", "part"} => disk' = "new" \/ q \in slipped
         /\ t.contract = "suite" => TestsPassed(t)
  /\ FinalStays(q) /\ StopOfRunningIsFinal(q)
  /\ ~stray /\ work'[q].attempts > work[q].attempts /\ work[q].attempts \in here[q] =>
         work[q].outcome # NoOutcome

\* What each action is shown to do: keep the invariant, and be such a step.
Goal == TaskInv' /\ \A q \in Revs : StepOk(q)

\* A task that does not change satisfies the action properties.
LEMMA Unchanged ==
  ASSUME Typed, NEW q \in Revs, work'[q] = work[q] PROVE StepOk(q)
<1>1. work[q] \in Tasks
  BY DEF Typed, TypeOK
<1>2. work[q].attempts \in 0..MaxAttempts
  BY <1>1, TasksAre
<1>3. work'[q].status = work[q].status /\ ~(work'[q].attempts > work[q].attempts)
  BY <1>2, BudgetsAssumption
<1> QED BY <1>3 DEF StepOk, FinalStays, StopOfRunningIsFinal, AutomaticRetry

\* The row of revision r, and a variable that keeps it.
LEMMA Still ==
  ASSUME Typed, NEW r \in Revs
  PROVE  /\ work = [work EXCEPT ![r] = work[r]] /\ eval = [eval EXCEPT ![r] = eval[r]]
         /\ here = [here EXCEPT ![r] = here[r]] /\ launch = [launch EXCEPT ![r] = launch[r]]
         /\ stops = [stops EXCEPT ![r] = stops[r]]
         /\ work[r] \in Tasks /\ Len(work[r].ops) <= MaxTools /\ eval[r] \in Evals
         /\ here[r] \in SUBSET (1..MaxAttempts) /\ launch[r] \in [1..Slots -> Launches]
         /\ stops[r] \in SUBSET Stops
BY DEF Typed, TypeOK, Evals, Launches, Reports

\* A step that concerns one task leaves the revision and the orphans alone, and
\* gives the shared variables values of their types; no file that is being
\* published changes unnoticed.
Calm ==
  /\ rev' = rev /\ reap' = reap /\ stray' \in BOOLEAN /\ (stray => stray')
  /\ disk' \in {"old", "new", "ext"} /\ recover' \in BOOLEAN
  /\ publishing' \cup armed' \subseteq Revs /\ trouble' \in 0..MaxTrouble
  /\ slipped' \subseteq Revs
  /\ \A q \in Revs : Files(q) => Files(q)' \/ eval[q].stage # "publish"

\* Only the current task joins what is being published, and only accepted.
Publishes(r, t) ==
  /\ \A q \in publishing' : q \in publishing \/ (q = r /\ r = rev)
  /\ (~stray' /\ r = rev /\ r \in publishing' => t.status = "accepted")

\* No operation under way gets an answer, and the task and its evaluation are as
\* they must be while files are published.
Carries(r, t, e) ==
  /\ \A x \in live' : IF x[1] = r THEN Open(t.ops[x[2]]) ELSE x \in live
  /\ \A x \in live' \ live : x = <<x[1], x[2]>>
  /\ ~stray' /\ r = rev /\ e.stage = "publish" => Established(t, e, Files(r)')

\* The variables change in row r only, to these values.
Row(r, t, e, h, ls, st) ==
  /\ t \in Tasks /\ Len(t.ops) <= MaxTools /\ DOMAIN work[r].ops \subseteq DOMAIN t.ops
  /\ e \in Evals /\ h \in SUBSET (1..MaxAttempts)
  /\ ls \in [1..Slots -> Launches] /\ st \in SUBSET Stops
  /\ work' = [work EXCEPT ![r] = t] /\ eval' = [eval EXCEPT ![r] = e]
  /\ here' = [here EXCEPT ![r] = h] /\ launch' = [launch EXCEPT ![r] = ls]
  /\ stops' = [stops EXCEPT ![r] = st]
  /\ \A x \in live' \cup done' \cup settle' :
       x \in live \cup done \cup settle \/ (x[1] = r /\ x[2] \in DOMAIN t.ops)

\* What the invariant says of a revision, and of the values all share.
LEMMA Facts ==
  ASSUME TaskInv, NEW r \in Revs
  PROVE  /\ Typed /\ SoundAt(r) /\ PublishingIs /\ rev \in Nat /\ r \in Nat
         /\ stray \in BOOLEAN /\ disk \in {"old", "new", "ext"} /\ recover \in BOOLEAN
         /\ publishing \cup armed \subseteq Revs /\ trouble \in 0..MaxTrouble
         /\ slipped \subseteq Revs /\ Publishable(r)
         /\ \A x \in live : x = <<x[1], x[2]>> /\ (x[1] = r => Open(work[r].ops[x[2]]))
BY BoundsAssumption DEF TaskInv, Typed, TypeOK, Revs, OpenOps

\* A step that changes one row does what is needed if the new row is sound and
\* the action properties hold of it.
LEMMA Moves ==
  ASSUME TaskInv, NEW r \in Revs, Calm, NEW t, NEW e, NEW h, NEW ls, NEW st,
         Row(r, t, e, h, ls, st), Sound(r, rev, stray', reap, t, e, h, ls, st), Publishes(r, t),
         Carries(r, t, e), work'[r] = t => StepOk(r)
  PROVE  Goal
<1> USE DEF Calm, Row
<1>1. /\ work \in [Revs -> Tasks] /\ eval \in [Revs -> Evals] /\ rev \in Revs
      /\ here \in [Revs -> SUBSET (1..MaxAttempts)] /\ launch \in [Revs -> [1..Slots -> Launches]]
      /\ stops \in [Revs -> SUBSET Stops] /\ reap \in {"no", "yes", "failed"} /\ stray \in BOOLEAN
      /\ \A q \in Revs : Len(work[q].ops) <= MaxTools
      /\ \A x \in live \cup done \cup settle : x[1] \in Revs /\ x[2] \in DOMAIN work[x[1]].ops
  BY DEF TaskInv, Typed, TypeOK, Evals, Launches, Reports
<1>2. /\ work'[r] = t /\ eval'[r] = e /\ here'[r] = h /\ launch'[r] = ls /\ stops'[r] = st
  BY <1>1
<1>3. \A q \in Revs \ {r} : /\ work'[q] = work[q] /\ eval'[q] = eval[q] /\ here'[q] = here[q]
                            /\ launch'[q] = launch[q] /\ stops'[q] = stops[q]
  BY <1>1
<1>4. /\ work' \in [Revs -> Tasks] /\ eval' \in [Revs -> Evals]
      /\ here' \in [Revs -> SUBSET (1..MaxAttempts)] /\ launch' \in [Revs -> [1..Slots -> Launches]]
      /\ stops' \in [Revs -> SUBSET Stops]
  BY <1>1
<1>5. \A q \in Revs : Len(work'[q].ops) <= MaxTools
  BY <1>1, <1>2, <1>3
<1>6. \A x \in live' \cup done' \cup settle' : x[1] \in Revs /\ x[2] \in DOMAIN work'[x[1]].ops
  BY SMTT(20), <1>1, <1>2, <1>3
<1>7. Typed'
  BY <1>1, <1>4, <1>5, <1>6 DEF Typed, TypeOK, Evals, Launches, Reports
<1>8. SoundAt(r)'
  BY <1>2 DEF SoundAt
<1>9. ASSUME NEW q \in Revs \ {r} PROVE SoundAt(q)'
  <2>1. SoundAt(q)
    BY DEF TaskInv
  <2>2. Sound(q, rev, stray', reap, work[q], eval[q], here[q], launch[q], stops[q])
    BY <2>1 DEF SoundAt, Sound
  <2> QED BY <2>2, <1>3 DEF SoundAt
<1>10. \A q \in Revs \ {r} : StepOk(q)
  BY <1>3, Unchanged DEF TaskInv
<1>11. PublishingIs'
  <2>1. \A q \in publishing' : q <= rev
    BY Facts DEF PublishingIs, Publishes
  <2>2. ASSUME ~stray', rev \in publishing' PROVE work'[rev].status = "accepted"
    <3>1. CASE r = rev
      BY <1>2, <2>2, <3>1 DEF Publishes
    <3>2. CASE r # rev
      BY <1>1, <1>3, <2>2, <3>2, Facts DEF PublishingIs, Publishes
    <3> QED BY <3>1, <3>2
  <2> QED BY <2>1, <2>2 DEF PublishingIs
<1>12. OpenOps'
  <2> SUFFICES ASSUME NEW x \in live' PROVE Open(work'[x[1]].ops[x[2]])
    BY DEF OpenOps, Carries, TaskInv
  <2>1. CASE x[1] = r
    BY <1>2, <2>1 DEF Carries
  <2>2. CASE x[1] # r
    BY <1>1, <1>3, <2>2 DEF Carries, TaskInv, OpenOps
  <2> QED BY <2>1, <2>2
<1>13. ASSUME NEW q \in Revs PROVE Publishable(q)'
  <2>1. CASE q = r
    BY <1>2, <2>1 DEF Publishable, Carries
  <2>2. CASE q # r
    <3>1. Publishable(q) /\ work'[q] = work[q] /\ eval'[q] = eval[q]
      BY <1>3, <2>2 DEF TaskInv
    <3> QED BY <3>1 DEF Publishable, Established
  <2> QED BY <2>1, <2>2
<1> QED BY <1>2, <1>7, <1>8, <1>9, <1>10, <1>11, <1>12, <1>13 DEF Goal, TaskInv

\* The fields of a goal that was not dispatched.
LEMMA NoTaskIs ==
  /\ NoTask \in Tasks /\ NoTask.ops = << >> /\ NoTask.attempts = 0 /\ NoTask.status = "absent"
  /\ NoTask.outcome = NoOutcome /\ NoTask.verdict = "none" /\ NoTask.contract = "none"
  /\ NoTask.suite = [a \in 1..MaxAttempts |-> "none"]
<1>1. [k \in Kinds |-> 0] \in [Kinds -> 0..MaxUsed] /\ 0 \in 0..MaxAttempts
  BY BudgetsAssumption
<1>2. << >> \in Seq(Ops)
  OBVIOUS
<1> QED BY <1>1, <1>2 DEF NoTask, Tasks, NoOutcome, Ops

\* A reservation counts the attempt and forgets the last outcome.
LEMMA NewAttempt ==
  ASSUME NEW t \in Tasks, t.attempts < MaxAttempts
  PROVE  LET u == Reserved(t) IN
         /\ u \in Tasks
         /\ u.status = "running" /\ u.contract = t.contract /\ u.attempts = t.attempts + 1
         /\ u.outcome = NoOutcome /\ u.ops = t.ops /\ u.verdict = t.verdict /\ u.suite = t.suite
<1> DEFINE n == t.attempts + 1
<1>1. t.attempts \in 0..MaxAttempts
  BY TasksAre
<1>2. n \in 0..MaxAttempts
  BY <1>1, BudgetsAssumption
<1>3. Reserved(t) = [t EXCEPT !.attempts = n, !.status = "running", !.outcome = NoOutcome]
  BY DEF Reserved
<1>4. n = t.attempts + 1
  OBVIOUS
<1> DEFINE u == [t EXCEPT !.attempts = n]
           v == [u EXCEPT !.status = "running"]
           w == [v EXCEPT !.outcome = NoOutcome]
<1> HIDE DEF n
<1>5. u \in Tasks /\ u.attempts = n
      /\ u.contract = t.contract /\ u.ops = t.ops /\ u.verdict = t.verdict /\ u.suite = t.suite
  BY <1>2, NewAttempts
<1>6. v \in Tasks /\ v.attempts = n /\ v.status = "running"
      /\ v.contract = u.contract /\ v.ops = u.ops /\ v.verdict = u.verdict /\ v.suite = u.suite
  <2> HIDE DEF u
  <2> QED BY <1>5, NewStatus DEF Statuses
<1>7. w \in Tasks /\ w.attempts = n /\ w.status = "running" /\ w.outcome = NoOutcome
      /\ w.contract = v.contract /\ w.ops = v.ops /\ w.verdict = v.verdict /\ w.suite = v.suite
  <2>1. NoOutcome \in Reports
    BY DEF NoOutcome, Reports
  <2> HIDE DEF v
  <2> QED BY <1>6, <2>1, NewOutcome
<1>8. Reserved(t) = w
  BY <1>3, Zenon
<1> HIDE DEF u, v, w
<1> QED BY <1>4, <1>5, <1>6, <1>7, <1>8

\* Admission (Control.ts) starts the first attempt of a fresh goal.
LEMMA AdmitStep ==
  ASSUME TaskInv, NEW r \in Revs, NEW c \in Contracts, Admit(r, c)
  PROVE  Goal
<1> DEFINE o == [NoTask EXCEPT !.contract = c]
           t == Reserved(o)
<1>1. Typed /\ SoundAt(r) /\ r = rev /\ Fresh(work[r]) /\ eval[r].stage = "no"
  BY Facts DEF Admit, SoundAt, Sound, OfRevision
<1>2. o \in Tasks /\ o.attempts = 0 /\ o.ops = << >> /\ o.verdict = "none" /\ o.status = "absent"
  BY SMTT(20), NoTaskIs, ContractsAssumption DEF Tasks
<1>3. /\ t \in Tasks /\ t.status = "running" /\ t.attempts = 1 /\ t.outcome = NoOutcome
      /\ t.ops = << >> /\ t.verdict = "none"
  <2> HIDE DEF o
  <2> QED BY <1>2, NewAttempt, BudgetsAssumption
<1>4. \A stop \in stops[r] : stop[1] <= 0
  BY <1>1 DEF SoundAt, Sound, StopKnown, Fresh
<1>5. work' = [work EXCEPT ![r] = t] /\ here' = [here EXCEPT ![r] = {1}]
  BY DEF Admit
<1> HIDE DEF t
<1>6. Sound(r, rev, stray, reap, t, eval[r], {1}, launch[r], stops[r])
  <2>1. OneOwner(t) /\ OfRevision(r, rev, t, eval[r]) /\ Proved(r = rev, t, eval[r])
    BY <1>1, <1>3 DEF OneOwner, OfRevision, Proved
  <2>2. StopKnown(t, stops[r]) /\ StopSeen(t, eval[r], stops[r])
    <3>1. stops[r] \subseteq Stops
      BY <1>1 DEF Typed
    <3>2. \A stop \in stops[r] : stop[1] \in Nat
      BY <3>1 DEF Stops
    <3> QED BY <1>3, <1>4, <1>1, <3>2 DEF StopKnown, StopSeen
  <2>3. Undisturbed(t, eval[r], {1})
    BY <1>1, <1>3 DEF Undisturbed
  <2>4. reap # "no" => Reaping(t, eval[r], launch[r])
    BY <1>1 DEF SoundAt, Sound, Reaping, Admit
  <2>5. Ahead(r, rev, t, launch[r])
    BY <1>1 DEF Ahead, Revs
  <2> QED BY <2>1, <2>2, <2>3, <2>4, <2>5 DEF Sound
<1>7. work'[r] = t => StepOk(r)
  BY <1>1, <1>3, Still, BudgetsAssumption
     DEF StepOk, FinalStays, StopOfRunningIsFinal, AutomaticRetry, Fresh, Admit
<1>8. DOMAIN work[r].ops \subseteq DOMAIN t.ops /\ Len(t.ops) <= MaxTools
  BY <1>1, <1>3, BudgetsAssumption DEF Fresh
<1>9. /\ rev' = rev /\ reap' = reap /\ stray' = stray /\ slipped' = slipped /\ live' = live
           /\ done' = done
           /\ settle' = settle
      /\ eval' = eval /\ launch' = launch /\ stops' = stops /\ disk' = disk /\ recover' = recover
      /\ publishing' = publishing /\ armed' = armed /\ trouble' = trouble
  BY DEF Admit, effects, process, retries, history
<1>10. {1} \in SUBSET (1..MaxAttempts)
  BY BudgetsAssumption
<1>11. Calm
  BY <1>9, Facts DEF Calm, Files
<1>12. /\ eval' = [eval EXCEPT ![r] = eval[r]] /\ launch' = [launch EXCEPT ![r] = launch[r]]
       /\ stops' = [stops EXCEPT ![r] = stops[r]]
       /\ eval[r] \in Evals /\ launch[r] \in [1..Slots -> Launches] /\ stops[r] \in SUBSET Stops
  BY <1>9, Still, <1>1
<1>13. Row(r, t, eval[r], {1}, launch[r], stops[r])
  BY <1>3, <1>5, <1>8, <1>9, <1>10, <1>12 DEF Row
<1>14. stray' = stray
  BY <1>9
<1>15. Publishes(r, t)
  BY <1>1, <1>9, Facts DEF Publishes, PublishingIs, Admit
<1>16. Carries(r, t, eval[r])
  <2>1. \A x \in live : x[1] # r
    BY <1>1 DEF Typed, TypeOK, Fresh
  <2> QED BY <1>1, <1>9, <2>1 DEF Carries
<1> QED BY <1>6, <1>7, <1>11, <1>13, <1>14, <1>15, <1>16, Moves

\* Task u is t with another status or verdict.
Restated(t, u) ==
  /\ u \in Tasks /\ u.contract = t.contract /\ u.attempts = t.attempts
  /\ u.outcome = t.outcome /\ u.ops = t.ops /\ u.suite = t.suite

\* A new status restates a task.
LEMMA StatusRestates ==
  ASSUME NEW t \in Tasks, NEW s \in Statuses, NEW u, u = [t EXCEPT !.status = s]
  PROVE  Restated(t, u) /\ u.status = s /\ u.verdict = t.verdict /\ u.requested = t.requested
BY NewStatus DEF Restated

\* A new verdict restates a task.
LEMMA VerdictRestates ==
  ASSUME NEW t \in Tasks, NEW s \in Verdicts, NEW u, u = [t EXCEPT !.verdict = s]
  PROVE  Restated(t, u) /\ u.status = t.status /\ u.verdict = s /\ u.requested = t.requested
BY NewVerdict DEF Restated

\* What is asked of effects and of the suite does not depend on status or verdict.
LEMMA JudgedAlike ==
  ASSUME NEW t \in Tasks, NEW u \in Tasks, Restated(t, u)
  PROVE  Safe(u) = Safe(t) /\ Passed(u) = Passed(t)
<1>1. Guards(u) = Guards(t)
  BY DEF Restated, Guards
<1>2. u.ops = t.ops /\ u.suite = t.suite
  BY DEF Restated
<1> QED BY <1>1, <1>2 DEF Safe, Passed

\* scheduleRetry restates the task; it waits only with budget left and no effect
\* in doubt.
LEMMA RetriedIs ==
  ASSUME NEW t \in Tasks, NEW requested \in BOOLEAN
  PROVE  LET u == Retried(t, requested) IN
         /\ Restated(t, u) /\ u.verdict = t.verdict
         /\ u.status \in {"exhausted", "blocked", "retry_wait"}
         /\ u.status = "retry_wait" => ~Spent(t) /\ Safe(t) /\ u.requested = requested
<1>1. CASE Spent(t)
  <2>1. Retried(t, requested) = [t EXCEPT !.status = "exhausted"]
    BY <1>1 DEF Retried
  <2> QED BY <2>1, StatusRestates DEF Statuses
<1>2. CASE ~Spent(t) /\ (~Safe(t) \/ (t.mode = "manual" /\ ~requested))
  <2>1. Retried(t, requested) = [t EXCEPT !.status = "blocked"]
    BY <1>2 DEF Retried
  <2> QED BY <2>1, StatusRestates DEF Statuses
<1>3. CASE ~Spent(t) /\ Safe(t) /\ ~(t.mode = "manual" /\ ~requested)
  <2> DEFINE v == [t EXCEPT !.status = "retry_wait"]
             u == [v EXCEPT !.requested = requested]
  <2>1. Retried(t, requested) = [t EXCEPT !.status = "retry_wait", !.requested = requested]
    BY <1>3 DEF Retried
  <2>2. Retried(t, requested) = u
    BY <2>1, Zenon
  <2>3. Restated(t, v) /\ v.status = "retry_wait" /\ v.verdict = t.verdict
    BY StatusRestates DEF Statuses
  <2>4. Restated(v, u) /\ u.status = "retry_wait" /\ u.verdict = v.verdict
          /\ u.requested = requested
    <3> HIDE DEF v
    <3> QED BY <2>3, NewRequested DEF Restated
  <2>5. Restated(t, u)
    <3> HIDE DEF u, v
    <3> QED BY <2>3, <2>4 DEF Restated
  <2> HIDE DEF u, v
  <2> QED BY <1>3, <2>2, <2>3, <2>4, <2>5
<1> QED BY <1>1, <1>2, <1>3

\* Task u is t after its worker has stopped: its operations keep who began them.
StoppedLike(t, u) ==
  /\ u \in Tasks /\ u.contract = t.contract /\ u.attempts = t.attempts /\ u.status = t.status
  /\ u.verdict = t.verdict /\ u.requested = t.requested
  /\ Len(u.ops) = Len(t.ops) /\ DOMAIN u.ops = DOMAIN t.ops
  /\ \A i \in DOMAIN t.ops : u.ops[i].by = t.ops[i].by /\ u.ops[i].sig = t.ops[i].sig
  /\ \A i \in DOMAIN t.ops : OpLike(t.ops[i], u.ops[i])

\* Recording a stop is such a change.
LEMMA StoppedIs ==
  ASSUME NEW t \in Tasks, NEW outcome \in Reports
  PROVE  LET u == Stopped(t, outcome) IN
         StoppedLike(t, u) /\ u.outcome = outcome /\ u.suite = t.suite
<1> DEFINE v == [t EXCEPT !.outcome = outcome]
           s == Unsure(t.ops)
           u == [v EXCEPT !.ops = s]
<1>1. v \in Tasks /\ v.ops = t.ops /\ v.outcome = outcome /\ v.suite = t.suite
        /\ v.status = t.status
      /\ v.contract = t.contract /\ v.attempts = t.attempts /\ v.verdict = t.verdict
           /\ v.requested = t.requested
  BY NewOutcome
<1>2. /\ s \in Seq(Ops) /\ Len(s) = Len(t.ops) /\ DOMAIN s = DOMAIN t.ops
      /\ \A i \in DOMAIN t.ops : s[i].by = t.ops[i].by /\ s[i].sig = t.ops[i].sig
      /\ \A i \in DOMAIN t.ops : OpLike(t.ops[i], s[i])
  BY UnsureOps, TasksAre
<1>3. Stopped(t, outcome) = [t EXCEPT !.outcome = outcome, !.ops = s]
  BY DEF Stopped
<1>4. Stopped(t, outcome) = u
  BY <1>3, Zenon
<1>5. u \in Tasks /\ u.ops = s /\ u.outcome = v.outcome /\ u.suite = v.suite /\ u.status = v.status
      /\ u.contract = v.contract /\ u.attempts = v.attempts /\ u.verdict = v.verdict
           /\ u.requested = v.requested
  <2> HIDE DEF v, s
  <2> QED BY <1>1, <1>2, NewOps
<1> HIDE DEF u, v, s
<1> QED BY <1>1, <1>2, <1>4, <1>5 DEF StoppedLike

\* The worker's stop leaves no operation in doubt that was not.
LEMMA StoppedCarries ==
  ASSUME NEW t, NEW u, StoppedLike(t, u)
  PROVE  /\ \A i \in DOMAIN t.ops : Open(t.ops[i]) => Open(u.ops[i])
         /\ Settled(t) => Settled(u)
BY DEF StoppedLike, OpLike, Open, Settled, Mutates, Succeeded

\* Marking pending suites uncertain keeps the passing ones.
LEMMA UnsureSuiteIs ==
  ASSUME NEW s \in Suites
  PROVE  /\ UnsureSuite(s) \in Suites
         /\ \A a \in 1..MaxAttempts : (UnsureSuite(s)[a] = "passed") <=> (s[a] = "passed")
BY DEF UnsureSuite, Suites

\* So is recovery, which invents an outcome only for a worker that had none.
LEMMA RecoveredIs ==
  ASSUME NEW t \in Tasks, NEW running \in BOOLEAN, NEW left \in BOOLEAN
  PROVE  LET u == Recovered(t, running, left) IN
         /\ StoppedLike(t, u) /\ Passed(u) = Passed(t)
         /\ u.outcome = IF running /\ t.outcome = NoOutcome
                        THEN [why |-> "unfinished", left |-> left] ELSE t.outcome
<1> DEFINE s == Unsure(t.ops)
           k == UnsureSuite(t.suite)
           o == IF running /\ t.outcome = NoOutcome
                THEN [why |-> "unfinished", left |-> left] ELSE t.outcome
           v == [t EXCEPT !.ops = s]
           w == [v EXCEPT !.suite = k]
           u == [w EXCEPT !.outcome = o]
<1>1. /\ s \in Seq(Ops) /\ Len(s) = Len(t.ops) /\ DOMAIN s = DOMAIN t.ops
      /\ \A i \in DOMAIN t.ops : s[i].by = t.ops[i].by /\ s[i].sig = t.ops[i].sig
      /\ \A i \in DOMAIN t.ops : OpLike(t.ops[i], s[i])
  BY UnsureOps, TasksAre
<1>2. k \in Suites /\ \A a \in 1..MaxAttempts : (k[a] = "passed") <=> (t.suite[a] = "passed")
  BY UnsureSuiteIs, TasksAre
<1>3. o \in Reports
  BY TasksAre DEF Reports
<1>4. v \in Tasks /\ v.ops = s /\ v.outcome = t.outcome /\ v.suite = t.suite /\ v.status = t.status
      /\ v.contract = t.contract /\ v.attempts = t.attempts /\ v.verdict = t.verdict
           /\ v.requested = t.requested
  <2> HIDE DEF s
  <2> QED BY <1>1, NewOps
<1>5. w \in Tasks /\ w.ops = s /\ w.outcome = t.outcome /\ w.suite = k /\ w.status = t.status
      /\ w.contract = t.contract /\ w.attempts = t.attempts /\ w.verdict = t.verdict
           /\ w.requested = t.requested
  <2> HIDE DEF v, s, k
  <2> QED BY <1>2, <1>4, NewSuite
<1>6. u \in Tasks /\ u.ops = s /\ u.outcome = o /\ u.suite = k /\ u.status = t.status
      /\ u.contract = t.contract /\ u.attempts = t.attempts /\ u.verdict = t.verdict
           /\ u.requested = t.requested
  <2> HIDE DEF w, s, k, o
  <2> QED BY <1>3, <1>5, NewOutcome
<1>7. Recovered(t, running, left) = [t EXCEPT !.ops = s, !.suite = k, !.outcome = o]
  BY DEF Recovered
<1>8. Recovered(t, running, left) = u
  BY <1>7, Zenon
<1>9. (\E a \in 1..MaxAttempts : k[a] = "passed") <=> (\E a \in 1..MaxAttempts : t.suite[a]
        = "passed")
  BY <1>2
<1>10. o = IF running /\ t.outcome = NoOutcome
                THEN [why |-> "unfinished", left |-> left] ELSE t.outcome
  OBVIOUS
<1> HIDE DEF u, v, w, s, k, o
<1> QED BY <1>1, <1>6, <1>8, <1>9, <1>10 DEF StoppedLike, Passed

\* What AcceptedIsVerified asks of a task.
Checked(r, u) ==
  /\ Settled(u)
  /\ u.contract \in {"file", "part"} => disk' = "new" \/ r \in slipped
  /\ u.contract = "suite" => TestsPassed(u)

\* A step that decides about the current task: it gets a closed or waiting status,
\* once nothing else is at work on it.
Restates(r, u, e, ls) ==
  /\ r = rev /\ Restated(work[r], u)
  /\ u.status \in {"retry_wait", "blocked", "awaiting_review", "accepted", "exhausted"}
  /\ e \in {eval[r], NoEval} /\ ls \in [1..Slots -> Launches]
  /\ work' = [work EXCEPT ![r] = u] /\ eval' = [eval EXCEPT ![r] = e]
  /\ launch' = [launch EXCEPT ![r] = ls]
  /\ here' = here /\ live' = live /\ done' = done /\ settle' = settle /\ stops' = stops
  /\ ~stray' => e.stage = "no"
  /\ ~stray' /\ work[r].attempts \in here[r] => work[r].outcome # NoOutcome
  /\ reap # "no" => Reaping(u, e, ls)
  /\ u.verdict = "pass" => Passed(u)
  /\ ~stray /\ u.status = "accepted" => Checked(r, u)
  /\ publishing' \subseteq publishing \cup {r}
  /\ ~stray' /\ r \in publishing' => u.status = "accepted"
  /\ ~stray' /\ r \notin publishing => work[r].status \notin {"accepted", "exhausted"}
  /\ ~stray /\ u.status = "retry_wait" /\ work[r].status # "retry_wait" /\ ~u.requested =>
       <<work[r].attempts, "running">> \notin stops[r] \/ u.verdict \in {"read", "tests"}

\* Such a step does what is needed.
LEMMA RestatingGoes ==
  ASSUME TaskInv, NEW r \in Revs, Calm, NEW u, NEW e, NEW ls, Restates(r, u, e, ls)
  PROVE  Goal
<1> DEFINE t == work[r]
<1>1. Typed /\ SoundAt(r) /\ t \in Tasks /\ r = rev
  BY Facts, Still DEF Restates
<1>2. /\ u \in Tasks /\ u.contract = t.contract /\ u.attempts = t.attempts
      /\ u.outcome = t.outcome /\ u.ops = t.ops /\ u.suite = t.suite
  BY DEF Restates, Restated
<1>3. e \in Evals
  <2>1. NoEval \in Evals
    BY BudgetsAssumption DEF NoEval, Evals, NoOutcome, Reports
  <2> QED BY <2>1, Still, <1>1 DEF Restates
<1>4. NoEval.stage = "no"
  BY DEF NoEval
<1>5. Row(r, u, e, here[r], ls, stops[r])
  <2>1. /\ here' = [here EXCEPT ![r] = here[r]] /\ stops' = [stops EXCEPT ![r] = stops[r]]
        /\ Len(t.ops) <= MaxTools /\ here[r] \in SUBSET (1..MaxAttempts)
             /\ stops[r] \in SUBSET Stops
    BY Still, <1>1 DEF Restates
  <2>2. DOMAIN t.ops = DOMAIN u.ops /\ Len(u.ops) = Len(t.ops)
    BY <1>2
  <2> QED BY <2>1, <2>2, <1>2, <1>3 DEF Row, Restates
<1>6. Sound(r, rev, stray', reap, u, e, here[r], ls, stops[r])
  <2>1. OneOwner(u)
    BY <1>1, <1>2 DEF SoundAt, Sound, OneOwner
  <2>2. OfRevision(r, rev, u, e)
    BY <1>1, <1>2, <1>4 DEF SoundAt, Sound, OfRevision, Restates
  <2>3. Proved(TRUE, u, e)
    <3>1. Passed(u) = Passed(t)
      BY <1>2 DEF Passed
    <3> QED BY <3>1, <1>1, <1>2, <1>4 DEF SoundAt, Sound, Proved, Restates
  <2>4. StopKnown(u, stops[r])
    BY <1>1, <1>2 DEF SoundAt, Sound, StopKnown
  <2>5. ~stray' => Undisturbed(u, e, here[r]) /\ StopSeen(u, e, stops[r])
    BY <1>2 DEF Undisturbed, StopSeen, Restates
  <2>6. reap # "no" => Reaping(u, e, ls)
    BY DEF Restates
  <2>7. Ahead(r, rev, u, ls)
    BY <1>1 DEF Ahead, Revs
  <2> QED BY <1>1, <2>1, <2>2, <2>3, <2>4, <2>5, <2>6, <2>7 DEF Sound
<1>7. ASSUME work'[r] = u PROVE StepOk(r)
  <2>1. t.status # "superseded"
    BY <1>1 DEF SoundAt, Sound, OfRevision, Revs
  <2>2. FinalStays(r)
    BY <1>7, <2>1 DEF FinalStays, Restates
  <2>3. StopOfRunningIsFinal(r)
    BY <1>7 DEF StopOfRunningIsFinal, AutomaticRetry, Restates
  <2>4. ~(u.attempts > t.attempts)
    BY <1>1, <1>2, TasksAre, BudgetsAssumption
  <2>5. ~stray /\ u.status = "accepted" => Checked(r, u)
    BY DEF Restates
  <2> QED BY <1>7, <2>2, <2>3, <2>4, <2>5 DEF StepOk, Checked, Settled
<1>8. Publishes(r, u)
  BY DEF Publishes, Restates
<1>9. Carries(r, u, e)
  <2>1. live' = live /\ (~stray' => e.stage = "no")
    BY DEF Restates
  <2>2. \A x \in live : x[1] = r => Open(u.ops[x[2]])
    BY <1>2, Facts
  <2> QED BY <2>1, <2>2 DEF Carries
<1> QED BY <1>5, <1>6, <1>7, <1>8, <1>9, Moves

\* The PM asks for a retry (TaskRetry).
LEMMA RetryTaskStep ==
  ASSUME TaskInv, NEW r \in Revs, RetryTask(r) PROVE Goal
<1> DEFINE t == work[r]
           u == Retried(t, TRUE)
<1>1. /\ Typed /\ SoundAt(r) /\ t \in Tasks /\ r = rev
           /\ t.status \in {"blocked", "awaiting_review"}
      /\ reap = "no" /\ trouble < MaxTrouble /\ trouble' = trouble + 1
  BY Facts, Still DEF RetryTask, MayControl, Troubled, Cleared
<1>2. /\ work' = [work EXCEPT ![r] = u] /\ armed' \subseteq Revs
  BY Facts, <1>1 DEF RetryTask, ArmIfWaiting
<1>3. /\ rev' = rev /\ here' = here /\ live' = live /\ done' = done /\ disk' = disk /\ reap' = reap
      /\ settle' = settle /\ recover' = recover /\ publishing' = publishing /\ eval' = eval
      /\ launch' = launch /\ stops' = stops /\ stray' = stray /\ slipped' = slipped
  BY DEF RetryTask, effects, process, history
<1>4. Calm
  BY <1>1, <1>2, <1>3, Facts, BoundsAssumption DEF Calm, Files
<1>5. /\ Restated(t, u) /\ u.verdict = t.verdict
           /\ u.status \in {"exhausted", "blocked", "retry_wait"}
      /\ u.status = "retry_wait" => u.requested
  BY <1>1, RetriedIs
<1>6. eval' = [eval EXCEPT ![r] = eval[r]] /\ launch' = [launch EXCEPT ![r] = launch[r]]
      /\ launch[r] \in [1..Slots -> Launches]
  BY <1>1, <1>3, Still
<1>7. Restates(r, u, eval[r], launch[r])
  <2>1. u.verdict = "pass" => Passed(u)
    BY <1>1, <1>5, JudgedAlike DEF SoundAt, Sound, Proved, Restated
  <2>2. ~stray => eval[r].stage = "no" /\ (t.attempts \in here[r] => t.outcome # NoOutcome)
    BY <1>1 DEF SoundAt, Sound, Undisturbed
  <2>3. ~stray => r \notin publishing
    BY <1>1, Facts DEF PublishingIs
  <2> HIDE DEF u
  <2> QED BY <1>1, <1>2, <1>3, <1>5, <1>6, <2>1, <2>2, <2>3 DEF Restates
<1> QED BY <1>4, <1>7, RestatingGoes

\* A step that leaves the tasks alone: an evaluation or a launch moves on.
Rests(r, e, ls) ==
  /\ work' = work /\ here' = here /\ stops' = stops /\ publishing' \subseteq publishing
  /\ live' \subseteq live /\ settle' \subseteq settle /\ done' \subseteq done \cup live
  /\ e \in Evals /\ ls \in [1..Slots -> Launches]
  /\ eval' = [eval EXCEPT ![r] = e] /\ launch' = [launch EXCEPT ![r] = ls]
  /\ e.stage # "no" => eval[r].stage # "no" /\ e.of = eval[r].of /\ e.saw = eval[r].saw
  /\ r = rev \/ (Idle(launch[r]) => Idle(ls))
  /\ r = rev => Proved(TRUE, work[r], e) /\ (reap # "no" => Reaping(work[r], e, ls))
  /\ r = rev /\ e.stage = "publish" => e = eval[r] \/ Established(work[r], e, Files(r)')

\* Such a step does what is needed.
LEMMA RestingGoes ==
  ASSUME TaskInv, NEW r \in Revs, Calm, NEW e, NEW ls, Rests(r, e, ls)
  PROVE  Goal
<1>1. Typed /\ SoundAt(r) /\ stray \in BOOLEAN
  BY Facts
<1>2. Row(r, work[r], e, here[r], ls, stops[r])
  BY <1>1, Still DEF Row, Rests
<1>3. Sound(r, rev, stray', reap, work[r], e, here[r], ls, stops[r])
  <2>1. OneOwner(work[r]) /\ StopKnown(work[r], stops[r])
    BY <1>1 DEF SoundAt, Sound
  <2>2. OfRevision(r, rev, work[r], e)
    BY <1>1 DEF SoundAt, Sound, OfRevision, Rests
  <2>3. Proved(r = rev, work[r], e)
    BY <1>1 DEF SoundAt, Sound, Proved, Rests
  <2>4. ~stray' /\ r = rev => Undisturbed(work[r], e, here[r]) /\ StopSeen(work[r], e, stops[r])
    BY <1>1 DEF SoundAt, Sound, Undisturbed, StopSeen, Rests, Calm
  <2>5. reap # "no" /\ r = rev => Reaping(work[r], e, ls)
    BY DEF Rests
  <2>6. Ahead(r, rev, work[r], ls)
    BY <1>1 DEF SoundAt, Sound, Ahead, Rests, Revs
  <2> QED BY <2>1, <2>2, <2>3, <2>4, <2>5, <2>6 DEF Sound
<1>4. work'[r] = work[r] => StepOk(r)
  BY <1>1, Unchanged
<1>5. Publishes(r, work[r])
  BY <1>1, Facts DEF Publishes, Rests, PublishingIs, Calm
<1>6. Carries(r, work[r], e)
  <2>1. \A x \in live' : IF x[1] = r THEN Open(work[r].ops[x[2]]) ELSE x \in live
    BY Facts DEF Rests
  <2>2. ASSUME ~stray', r = rev, e = eval[r], e.stage = "publish"
        PROVE  Established(work[r], e, Files(r)')
    BY <1>1, <2>2, Facts DEF Calm, Publishable, Established
  <2> QED BY <2>1, <2>2 DEF Carries, Rests
<1> QED BY <1>2, <1>3, <1>4, <1>5, <1>6, Moves

\* A row that stays as it is.
LEMMA RestsIn ==
  ASSUME TaskInv, NEW r \in Revs
  PROVE  r = rev => Proved(TRUE, work[r], eval[r])
           /\ (reap # "no" => Reaping(work[r], eval[r], launch[r]))
BY Facts DEF SoundAt, Sound

\* An evaluation that enters another stage.
LEMMA EvalsAre ==
  ASSUME NEW e \in Evals
  PROVE  /\ e.of \in 0..MaxAttempts /\ e.saw \in Reports /\ e.passed \in BOOLEAN
              /\ e.covered \in BOOLEAN
         /\ \A s \in {"no", "settle", "check", "suite", "decide", "publish"} :
              LET u == [e EXCEPT !.stage = s] IN
              u \in Evals /\ u.stage = s /\ u.of = e.of /\ u.saw = e.saw /\ u.passed = e.passed
BY DEF Evals

\* No evaluation.
LEMMA NoEvalIs == NoEval \in Evals /\ NoEval.stage = "no"
BY BudgetsAssumption DEF NoEval, Evals, NoOutcome, Reports

\* A row of launches with one over.
LEMMA LaunchOver ==
  ASSUME NEW ls \in [1..Slots -> Launches], NEW s \in 1..Slots
  PROVE  /\ [ls EXCEPT ![s] = NoLaunch] \in [1..Slots -> Launches]
         /\ \A q \in 1..Slots : [ls EXCEPT ![s] = NoLaunch][q].stage # "no" =>
              [ls EXCEPT ![s] = NoLaunch][q] = ls[q] /\ ls[q].stage # "no"
BY BudgetsAssumption DEF NoLaunch, Launches

\* The end of a launch leaves no more launches under way.
LEMMA EndsLaunch ==
  ASSUME Typed, NEW r \in Revs, NEW s \in 1..Slots, EndLaunch(r, s)
  PROVE  LET ls == [launch[r] EXCEPT ![s] = NoLaunch] IN
         /\ launch' = [launch EXCEPT ![r] = ls] /\ ls \in [1..Slots -> Launches]
         /\ Idle(launch[r]) => Idle(ls)
         /\ \A t, e : Reaping(t, e, launch[r]) => Reaping(t, e, ls)
<1> DEFINE ls == [launch[r] EXCEPT ![s] = NoLaunch]
<1>1. launch[r] \in [1..Slots -> Launches]
  BY Still
<1>2. launch' = [launch EXCEPT ![r] = ls]
  BY DEF EndLaunch
<1>3. /\ ls \in [1..Slots -> Launches]
      /\ \A q \in 1..Slots : ls[q].stage # "no" => ls[q] = launch[r][q] /\ launch[r][q].stage # "no"
  BY <1>1, LaunchOver
<1> HIDE DEF ls
<1>4. \A t, e : Reaping(t, e, launch[r]) => Reaping(t, e, ls)
  BY <1>3 DEF Reaping
<1>5. Idle(launch[r]) => Idle(ls)
  BY <1>3 DEF Idle
<1> QED BY <1>2, <1>3, <1>4, <1>5 DEF ls

\* A tool does its work.
LEMMA EffectStep ==
  ASSUME TaskInv, NEW x \in live, Effect(x) PROVE Goal
<1> DEFINE r == rev
<1>1. Typed /\ r \in Revs
  BY DEF TaskInv, Typed, TypeOK
<1>2. /\ rev' = rev /\ work' = work /\ here' = here /\ live' = live /\ reap' = reap
           /\ stops' = stops
      /\ settle' = settle /\ recover' = recover /\ publishing' = publishing /\ eval' = eval
      /\ launch' = launch /\ armed' = armed /\ stray' = stray /\ slipped' = slipped
           /\ trouble' = trouble
      /\ done' = done \cup {x} /\ disk' \in {disk, "new"}
  BY DEF Effect, process, retries, history
<1>3. Calm
  BY <1>1, <1>2, Facts DEF Calm, Files
<1>4. Rests(r, eval[r], launch[r])
  BY <1>1, <1>2, Still, RestsIn DEF Rests
<1> QED BY <1>1, <1>3, <1>4, RestingGoes

\* Somebody else changes the file.
LEMMA EditStep ==
  ASSUME TaskInv, Edit PROVE Goal
<1> DEFINE r == rev
<1>1. Typed /\ r \in Revs
  BY DEF TaskInv, Typed, TypeOK
<1>2. /\ rev' = rev /\ work' = work /\ here' = here /\ live' = live /\ reap' = reap
           /\ stops' = stops
      /\ settle' = settle /\ recover' = recover /\ publishing' = publishing /\ eval' = eval
      /\ launch' = launch /\ armed' = armed /\ stray' = stray
      /\ done' = done /\ disk' = "ext"
      /\ slipped' = slipped \cup {q \in Revs : eval[q].stage = "publish"}
      /\ trouble' = trouble + 1 /\ trouble < MaxTrouble
  BY DEF Edit, process, retries, history, Troubled
<1>3. Calm
  BY <1>1, <1>2, Facts, BoundsAssumption DEF Calm, Files
<1>4. Rests(r, eval[r], launch[r])
  BY <1>1, <1>2, Still, RestsIn DEF Rests
<1> QED BY <1>1, <1>3, <1>4, RestingGoes

\* The timer fires (armTask, launchAttempt).
LEMMA FireStep ==
  ASSUME TaskInv, NEW r \in Revs, Fire(r) PROVE Goal
<1>1. Typed /\ SoundAt(r)
  BY Facts
<1>2. /\ rev' = rev /\ work' = work /\ here' = here /\ live' = live /\ reap' = reap
           /\ stops' = stops
      /\ settle' = settle /\ recover' = recover /\ publishing' = publishing /\ eval' = eval
      /\ armed' = armed \ {r} /\ stray' = stray /\ slipped' = slipped
      /\ done' = done /\ disk' = disk
      /\ trouble' = trouble
  BY DEF Fire, process, effects, history
<1>3. Calm
  BY <1>1, <1>2, Facts, BoundsAssumption DEF Calm, Files
<1>4. CASE Willing(r)
  <2>1. PICK s \in 1..Slots : launch' = [launch EXCEPT ![r][s]
               = [stage |-> "wait", of |-> work[r].attempts]]
    BY <1>4 DEF Fire
  <2> DEFINE l == [stage |-> "wait", of |-> work[r].attempts]
             ls == [launch[r] EXCEPT ![s] = l]
  <2>2. l \in Launches /\ l.stage = "wait"
    BY <1>1, Still, TasksAre DEF Launches
  <2>3. launch[r] \in [1..Slots -> Launches]
    BY <1>1, Still
  <2>4. launch' = [launch EXCEPT ![r] = ls]
    BY <2>1
  <2> HIDE DEF l
  <2>5. ls \in [1..Slots -> Launches] /\ \A q \in 1..Slots : ls[q] = IF q = s THEN l
          ELSE launch[r][q]
    BY <2>2, <2>3
  <2>6. reap # "no" => Reaping(work[r], eval[r], ls)
    BY <1>1, <1>4, <2>2, <2>5 DEF SoundAt, Sound, Reaping, Willing
  <2> HIDE DEF ls
  <2>7. r = rev
    BY <1>4 DEF Willing
  <2>8. Rests(r, eval[r], ls)
    BY <1>1, <1>2, <2>4, <2>5, <2>6, <2>7, Still, RestsIn DEF Rests
  <2> QED BY <1>3, <2>8, RestingGoes
<1>5. CASE ~Willing(r)
  <2>1. Rests(r, eval[r], launch[r])
    BY <1>1, <1>2, <1>5, Still, RestsIn DEF Rests, Fire
  <2> QED BY <1>3, <2>1, RestingGoes
<1> QED BY <1>4, <1>5

\* A launch finds that it is too late.
LEMMA OvertakenStep ==
  ASSUME TaskInv, NEW r \in Revs, NEW s \in 1..Slots, Overtaken(r, s) PROVE Goal
<1>1. Typed
  BY Facts
<1>2. /\ rev' = rev /\ work' = work /\ here' = here /\ live' = live /\ reap' = reap
           /\ stops' = stops
      /\ settle' = settle /\ recover' = recover /\ publishing' = publishing /\ eval' = eval
      /\ armed' = armed /\ stray' = stray /\ slipped' = slipped /\ done' = done /\ disk' = disk
           /\ trouble' = trouble
  BY DEF Overtaken, process, effects, history
<1>3. Calm
  BY <1>1, <1>2, Facts, BoundsAssumption DEF Calm, Files
<1> DEFINE ls == [launch[r] EXCEPT ![s] = NoLaunch]
<1>4. /\ launch' = [launch EXCEPT ![r] = ls] /\ ls \in [1..Slots -> Launches]
      /\ Reaping(work[r], eval[r], launch[r]) => Reaping(work[r], eval[r], ls)
      /\ Idle(launch[r]) => Idle(ls)
  BY <1>1, EndsLaunch DEF Overtaken
<1> HIDE DEF ls
<1>5. Rests(r, eval[r], ls)
  BY <1>1, <1>2, <1>4, Still, RestsIn DEF Rests
<1> QED BY <1>3, <1>5, RestingGoes

\* A step that records something in the current task without a new status.
Amends(r, u, e) ==
  /\ r = rev /\ u \in Tasks /\ Len(u.ops) <= MaxTools /\ DOMAIN work[r].ops \subseteq DOMAIN u.ops
  /\ work[r].status # "absent"
  /\ u.status = work[r].status /\ u.attempts = work[r].attempts /\ u.outcome = work[r].outcome
  /\ OneOwner(u) /\ e \in Evals /\ Proved(TRUE, u, e)
  /\ e.stage # "no" => eval[r].stage # "no" /\ e.of = eval[r].of /\ e.saw = eval[r].saw
  /\ reap # "no" => e.stage \in {"no", "settle"}
  /\ work' = [work EXCEPT ![r] = u] /\ eval' = [eval EXCEPT ![r] = e]
  /\ here' = here /\ launch' = launch /\ stops' = stops /\ done' = done /\ settle' = settle
  /\ publishing' = publishing
  /\ \A x \in live' : x \in live \/ (x[1] = r /\ x[2] \in DOMAIN u.ops)
  /\ Carries(r, u, e)

\* Such a step does what is needed.
LEMMA AmendingGoes ==
  ASSUME TaskInv, NEW r \in Revs, Calm, NEW u, NEW e, Amends(r, u, e)
  PROVE  Goal
<1> DEFINE t == work[r]
<1>1. Typed /\ SoundAt(r) /\ t \in Tasks
  BY Facts, Still
<1>2. Row(r, u, e, here[r], launch[r], stops[r])
  <2>1. /\ here' = [here EXCEPT ![r] = here[r]] /\ stops' = [stops EXCEPT ![r] = stops[r]]
        /\ launch' = [launch EXCEPT ![r] = launch[r]] /\ launch[r] \in [1..Slots -> Launches]
        /\ here[r] \in SUBSET (1..MaxAttempts) /\ stops[r] \in SUBSET Stops
    BY Still, <1>1 DEF Amends
  <2> QED BY <2>1 DEF Row, Amends
<1>3. Sound(r, rev, stray', reap, u, e, here[r], launch[r], stops[r])
  <2>1. OneOwner(u) /\ Proved(TRUE, u, e)
    BY DEF Amends
  <2>2. StopKnown(u, stops[r])
    BY <1>1 DEF SoundAt, Sound, StopKnown, Amends
  <2>3. OfRevision(r, rev, u, e)
    BY <1>1 DEF SoundAt, Sound, OfRevision, Amends
  <2>4. ~stray' => Undisturbed(u, e, here[r]) /\ StopSeen(u, e, stops[r])
    BY <1>1, Facts DEF SoundAt, Sound, Undisturbed, StopSeen, Amends, Calm
  <2>5. reap # "no" => Reaping(u, e, launch[r])
    BY <1>1 DEF SoundAt, Sound, Reaping, Amends
  <2>6. Ahead(r, rev, u, launch[r])
    BY <1>1 DEF SoundAt, Sound, Ahead, Amends
  <2> QED BY <2>1, <2>2, <2>3, <2>4, <2>5, <2>6 DEF Sound, Amends
<1>4. ASSUME work'[r] = u PROVE StepOk(r)
  <2>1. t.status # "superseded" /\ u.status = t.status
    BY <1>1 DEF SoundAt, Sound, OfRevision, Amends, Revs
  <2>2. ~(u.attempts > t.attempts)
    BY <1>1, TasksAre, BudgetsAssumption DEF Amends
  <2> QED BY <1>4, <2>1, <2>2 DEF StepOk, FinalStays, StopOfRunningIsFinal, AutomaticRetry
<1>5. Publishes(r, u)
  BY <1>1, Facts DEF Publishes, Amends, PublishingIs, Calm
<1>6. Carries(r, u, e)
  BY DEF Amends
<1> QED BY <1>2, <1>3, <1>4, <1>5, <1>6, Moves

\* A change that leaves the operations, the contract and the evaluation alone.
LEMMA Carried ==
  ASSUME TaskInv, NEW r \in Revs, Calm, live' = live, NEW u, u.ops = work[r].ops,
         u.contract = work[r].contract
  PROVE  Carries(r, u, eval[r])
<1>1. \A x \in live' : IF x[1] = r THEN Open(u.ops[x[2]]) ELSE x \in live
  BY Facts
<1>2. ASSUME ~stray', r = rev, eval[r].stage = "publish" PROVE Established(u, eval[r], Files(r)')
  BY <1>2, Facts DEF Calm, Publishable, Established, Settled
<1> QED BY <1>1, <1>2 DEF Carries

\* Effects keep their owner while operations keep who began them.
LEMMA OwnersKept ==
  ASSUME NEW t, NEW u, OneOwner(t), DOMAIN u.ops = DOMAIN t.ops,
         \A i \in DOMAIN t.ops : u.ops[i].by = t.ops[i].by /\ u.ops[i].sig = t.ops[i].sig
  PROVE  OneOwner(u)
BY DEF OneOwner, Mutates

\* An evaluation that has what it needs to decide.
LEMMA ToDecideIs ==
  ASSUME Typed, NEW r \in Revs, NEW p \in BOOLEAN, NEW c \in BOOLEAN, ToDecide(r, p, c)
  PROVE  \E e \in Evals : /\ eval' = [eval EXCEPT ![r] = e] /\ e.stage = "decide"
           /\ e.of = eval[r].of
                          /\ e.saw = eval[r].saw /\ e.passed = p
<1> DEFINE e1 == [eval[r] EXCEPT !.stage = "decide"]
           e2 == [e1 EXCEPT !.passed = p]
           e3 == [e2 EXCEPT !.covered = c]
<1>1. eval[r] \in Evals /\ eval \in [Revs -> Evals]
  BY Still DEF Typed, TypeOK, Evals, Reports
<1>2. e1 \in Evals /\ e1.stage = "decide" /\ e1.of = eval[r].of /\ e1.saw = eval[r].saw
  BY <1>1 DEF Evals
<1>3. e2 \in Evals /\ e2.stage = "decide" /\ e2.of = eval[r].of /\ e2.saw = eval[r].saw
        /\ e2.passed = p
  <2> HIDE DEF e1
  <2> QED BY <1>2 DEF Evals
<1>4. e3 \in Evals /\ e3.stage = "decide" /\ e3.of = eval[r].of /\ e3.saw = eval[r].saw
        /\ e3.passed = p
  <2> HIDE DEF e2
  <2> QED BY <1>3 DEF Evals
<1>5. eval' = [eval EXCEPT ![r] = e3]
  <2>1. eval' = [eval EXCEPT ![r] = [eval[r] EXCEPT !.stage = "decide", !.passed = p,
          !.covered = c]]
    BY <1>1 DEF ToDecide
  <2>2. [eval[r] EXCEPT !.stage = "decide", !.passed = p, !.covered = c] = e3
    BY Zenon
  <2> HIDE DEF e3
  <2> QED BY <2>1, <2>2
<1> HIDE DEF e3
<1> QED BY <1>4, <1>5

\* The evaluation has waited for the barrier and for the worker's tools.
LEMMA SettleStep ==
  ASSUME TaskInv, NEW r \in Revs, Settle(r) PROVE Goal
<1> DEFINE t == work[r]
           u == [t EXCEPT !.status = "blocked"]
<1>1. Typed /\ SoundAt(r) /\ t \in Tasks /\ eval[r].stage = "settle" /\ reap # "yes"
  BY Facts, Still DEF Settle
<1>2. /\ rev' = rev /\ here' = here /\ live' = live /\ reap' = reap /\ stops' = stops
      /\ settle' = settle /\ recover' = recover /\ publishing' = publishing
      /\ armed' = armed /\ stray' = stray /\ slipped' = slipped /\ done' = done /\ disk' = disk
           /\ trouble' = trouble
      /\ launch' = launch
  BY DEF Settle, process, effects, retries, history
<1>3. Calm
  BY <1>1, <1>2, Facts DEF Calm, Files
<1>4. launch' = [launch EXCEPT ![r] = launch[r]] /\ launch[r] \in [1..Slots -> Launches]
  BY <1>1, <1>2, Still
<1>5. CASE reap = "failed" /\ r = rev
  <2>1. Restated(t, u) /\ u.status = "blocked" /\ u.verdict = t.verdict
    BY <1>1, StatusRestates DEF Statuses
  <2>2. work' = [work EXCEPT ![r] = u] /\ eval' = [eval EXCEPT ![r] = NoEval]
    BY <1>5 DEF Settle, Patched, EndEval
  <2>3. u.verdict = "pass" => Passed(u)
    BY <1>1, <2>1, JudgedAlike DEF SoundAt, Sound, Proved, Restated
  <2>4. ~stray => t.status = "evaluating"
    BY <1>1, <1>5 DEF SoundAt, Sound, Undisturbed
  <2>5. t.status # "absent" /\ (t.status = "evaluating" => t.outcome # NoOutcome)
    BY <1>1 DEF SoundAt, Sound, OfRevision
  <2> HIDE DEF u
  <2>6. Reaping(u, NoEval, launch[r])
    BY <1>1, <1>5, <2>1, NoEvalIs DEF SoundAt, Sound, Reaping
  <2>7. ~stray => r \notin publishing
    BY <1>5, <2>4, Facts DEF PublishingIs
  <2>8. Restates(r, u, NoEval, launch[r])
    BY <2>7, <1>2, <1>4, <1>5, <2>1, <2>2, <2>3, <2>4, <2>5, <2>6, NoEvalIs DEF Restates
  <2> QED BY <1>3, <2>8, RestatingGoes
<1>6. CASE ~(reap = "failed" /\ r = rev) /\ eval' = [eval EXCEPT ![r] = NoEval]
  <2>1. work' = work
    BY <1>6 DEF Settle, Patched
  <2>2. r = rev => reap = "no"
    BY <1>1, <1>6 DEF Typed, TypeOK
  <2>3. r = rev => Proved(TRUE, t, NoEval)
    BY <1>1, NoEvalIs DEF SoundAt, Sound, Proved
  <2>4. Rests(r, NoEval, launch[r])
    BY <1>2, <1>4, <1>6, <2>1, <2>2, <2>3, NoEvalIs DEF Rests
  <2> QED BY <1>3, <2>4, RestingGoes
<1>7. CASE reap # "failed" /\ r = rev /\ eval' = [eval EXCEPT ![r].stage = "check"]
  <2> DEFINE e == [eval[r] EXCEPT !.stage = "check"]
  <2>1. eval' = [eval EXCEPT ![r] = e]
    BY <1>7
  <2>2. e \in Evals /\ e.stage = "check" /\ e.of = eval[r].of /\ e.saw = eval[r].saw
    <3>1. eval[r] \in Evals
      BY <1>1, Still
    <3> QED BY <3>1 DEF Evals
  <2>3. work' = work
    BY <1>7 DEF Settle
  <2>4. reap = "no"
    BY <1>1, <1>7 DEF Typed, TypeOK
  <2> HIDE DEF e
  <2>5. Proved(TRUE, t, e)
    BY <1>1, <2>2 DEF SoundAt, Sound, Proved
  <2>6. Rests(r, e, launch[r])
    BY <1>1, <1>2, <1>4, <2>1, <2>2, <2>3, <2>4, <2>5 DEF Rests
  <2> QED BY <1>3, <2>6, RestingGoes
<1> QED BY <1>5, <1>6, <1>7 DEF Settle, EndEval

\* The answer of a suite.
SuiteSet(t, a, k) == [t EXCEPT !.suite[a] = k]

\* What a suite can have answered.
Answers == {"none", "pending", "passed", "failed", "uncertain"}

\* Recording an answer changes that one.
LEMMA NewVerdictOf ==
  ASSUME NEW t \in Tasks, NEW a \in 1..MaxAttempts, NEW k \in Answers
  PROVE  LET u == SuiteSet(t, a, k) IN
         /\ u \in Tasks /\ u.status = t.status /\ u.contract = t.contract /\ u.attempts = t.attempts
         /\ u.outcome = t.outcome /\ u.ops = t.ops /\ u.verdict = t.verdict
              /\ u.requested = t.requested
         /\ u.suite \in Suites /\ u.suite[a] = k
         /\ \A b \in 1..MaxAttempts : b # a => u.suite[b] = t.suite[b]
<1> DEFINE s == [t.suite EXCEPT ![a] = k]
           u == [t EXCEPT !.suite = s]
<1>1. t.suite \in Suites
  BY TasksAre
<1>2. s \in Suites /\ s[a] = k /\ \A b \in 1..MaxAttempts : b # a => s[b] = t.suite[b]
  BY <1>1 DEF Suites, Answers
<1>3. SuiteSet(t, a, k) = u
  BY DEF SuiteSet
<1> HIDE DEF s
<1>4. u = [t EXCEPT !.suite = s]
  OBVIOUS
<1> HIDE DEF u
<1>5. /\ u \in Tasks /\ u.status = t.status /\ u.contract = t.contract /\ u.attempts = t.attempts
      /\ u.outcome = t.outcome /\ u.ops = t.ops /\ u.verdict = t.verdict
           /\ u.requested = t.requested
      /\ u.suite = s
  BY <1>2, <1>4, NewSuite
<1> QED BY <1>2, <1>3, <1>5

\* The checks of the contract (evaluateTask).
LEMMA CheckStep ==
  ASSUME TaskInv, NEW r \in Revs, Check(r) PROVE Goal
<1> DEFINE t == work[r]
           a == eval[r].of
<1>1. Typed /\ SoundAt(r) /\ t \in Tasks /\ eval[r].stage = "check" /\ eval[r] \in Evals
  BY Facts, Still DEF Check
<1>2. /\ rev' = rev /\ here' = here /\ live' = live /\ reap' = reap /\ stops' = stops
      /\ settle' = settle /\ recover' = recover /\ publishing' = publishing
      /\ armed' = armed /\ stray' = stray /\ slipped' = slipped /\ done' = done /\ disk' = disk
           /\ trouble' = trouble
      /\ launch' = launch
  BY DEF Check, process, effects, retries, history
<1>3. Calm
  BY <1>1, <1>2, Facts DEF Calm, Files
<1>4. launch' = [launch EXCEPT ![r] = launch[r]] /\ launch[r] \in [1..Slots -> Launches]
  BY <1>1, <1>2, Still
<1>5. a \in 1..MaxAttempts /\ t.status # "absent" /\ (r = rev => reap = "no")
  BY <1>1 DEF SoundAt, Sound, OfRevision, Reaping
<1>6. ASSUME NEW p \in BOOLEAN, NEW c \in BOOLEAN, ToDecide(r, p, c), work' = work,
             r = rev /\ p /\ t.contract = "suite" => t.suite[a] = "passed"
      PROVE  Goal
  <2>1. PICK e \in Evals : /\ eval' = [eval EXCEPT ![r] = e] /\ e.stage = "decide" /\ e.of = a
                           /\ e.saw = eval[r].saw /\ e.passed = p
    BY <1>1, <1>6, ToDecideIs
  <2>2. r = rev => Proved(TRUE, t, e)
    BY <1>1, <1>6, <2>1 DEF SoundAt, Sound, Proved
  <2>3. Rests(r, e, launch[r])
    BY <1>1, <1>2, <1>4, <1>5, <1>6, <2>1, <2>2 DEF Rests
  <2> QED BY <1>3, <2>3, RestingGoes
<1>7. CASE (t.late \/ r # rev \/ t.contract = "none") /\ ToDecide(r, FALSE, FALSE) /\ UNCHANGED work
  BY <1>6, <1>7
<1>8. CASE t.contract \in {"file", "part"} /\ ToDecide(r, disk = "new", t.contract = "file")
             /\ UNCHANGED work
  <2>1. (disk = "new") \in BOOLEAN /\ (t.contract = "file") \in BOOLEAN /\ t.contract # "suite"
    BY <1>8
  <2> QED BY <1>6, <1>8, <2>1
<1>9. CASE ToDecide(r, t.suite[a] = "passed", TRUE) /\ UNCHANGED work
  <2>1. (t.suite[a] = "passed") \in BOOLEAN
    OBVIOUS
  <2> QED BY <1>6, <1>9, <2>1
<1>10. CASE /\ r = rev /\ t.suite[a] = "none"
            /\ work' = [work EXCEPT ![r].suite[a] = "pending"]
                 /\ eval' = [eval EXCEPT ![r].stage = "suite"]
  <2> DEFINE u == SuiteSet(t, a, "pending")
             e == [eval[r] EXCEPT !.stage = "suite"]
  <2>1. work' = [work EXCEPT ![r] = u] /\ eval' = [eval EXCEPT ![r] = e]
    BY <1>10 DEF SuiteSet
  <2>2. /\ u \in Tasks /\ u.status = t.status /\ u.contract = t.contract /\ u.attempts = t.attempts
        /\ u.outcome = t.outcome /\ u.ops = t.ops /\ u.verdict = t.verdict
        /\ u.suite[a] = "pending" /\ \A b \in 1..MaxAttempts : b # a => u.suite[b] = t.suite[b]
    <3>1. t \in Tasks /\ a \in 1..MaxAttempts
      BY <1>1, <1>5
    <3>2. "pending" \in Answers
      BY DEF Answers
    <3> HIDE DEF t, a
    <3> QED BY <3>1, <3>2, NewVerdictOf
  <2>3. e \in Evals /\ e.stage = "suite" /\ e.of = a /\ e.saw = eval[r].saw
    BY <1>1, EvalsAre
  <2>4. Len(t.ops) <= MaxTools
    BY <1>1, Still
  <2> HIDE DEF u, e
  <2>5. Passed(t) => Passed(u)
    BY <1>10, <2>2 DEF Passed
  <2>6. Proved(TRUE, u, e)
    BY <1>1, <1>10, <2>2, <2>3, <2>5 DEF SoundAt, Sound, Proved
  <2>7. OneOwner(u)
    BY <1>1, <2>2 DEF SoundAt, Sound, OneOwner
  <2>8. Carries(r, u, e)
    BY <1>2, <2>2, <2>3, Facts DEF Carries
  <2>9. Amends(r, u, e)
    BY <1>1, <1>2, <1>5, <1>10, <2>1, <2>2, <2>3, <2>4, <2>6, <2>7, <2>8 DEF Amends
  <2> QED BY <1>3, <2>9, AmendingGoes
<1> QED BY <1>7, <1>8, <1>9, <1>10 DEF Check

\* The suite answers.
LEMMA SuiteEndsStep ==
  ASSUME TaskInv, NEW r \in Revs, SuiteEnds(r) PROVE Goal
<1> DEFINE t == work[r]
           a == eval[r].of
<1>1. Typed /\ SoundAt(r) /\ t \in Tasks /\ eval[r].stage = "suite" /\ eval[r] \in Evals
  BY Facts, Still DEF SuiteEnds
<1>2. /\ rev' = rev /\ here' = here /\ live' = live /\ reap' = reap /\ stops' = stops
      /\ settle' = settle /\ recover' = recover /\ publishing' = publishing
      /\ armed' = armed /\ stray' = stray /\ slipped' = slipped /\ done' = done /\ disk' = disk
           /\ trouble' = trouble
      /\ launch' = launch
  BY DEF SuiteEnds, process, effects, retries, history
<1>3. Calm
  BY <1>1, <1>2, Facts DEF Calm, Files
<1>4. launch' = [launch EXCEPT ![r] = launch[r]] /\ launch[r] \in [1..Slots -> Launches]
  BY <1>1, <1>2, Still
<1>5. a \in 1..MaxAttempts /\ t.status # "absent"
        /\ (r = rev => reap = "no" /\ t.suite[a] = "pending")
  BY <1>1 DEF SoundAt, Sound, OfRevision, Reaping, Proved
<1>6. PICK ok \in BOOLEAN :
        /\ ToDecide(r, ok, TRUE)
        /\ work' = Patched(r, [t EXCEPT !.suite[a] = IF ok THEN "passed" ELSE "failed"])
  BY DEF SuiteEnds
<1>7. PICK e \in Evals : /\ eval' = [eval EXCEPT ![r] = e] /\ e.stage = "decide" /\ e.of = a
                         /\ e.saw = eval[r].saw /\ e.passed = ok
  BY <1>1, <1>6, ToDecideIs
<1>8. CASE r # rev
  <2>1. work' = work
    BY <1>6, <1>8 DEF Patched
  <2>2. Rests(r, e, launch[r])
    BY <1>1, <1>2, <1>4, <1>7, <1>8, <2>1 DEF Rests
  <2> QED BY <1>3, <2>2, RestingGoes
<1>9. CASE r = rev
  <2>1. PICK k \in Answers :
          (ok => k = "passed") /\ work' = [work EXCEPT ![r] = SuiteSet(t, a, k)]
    BY <1>6, <1>9 DEF Patched, SuiteSet, Answers
  <2> DEFINE u == SuiteSet(t, a, k)
  <2>2. work' = [work EXCEPT ![r] = u]
    BY <2>1
  <2>3. /\ u \in Tasks /\ u.status = t.status /\ u.contract = t.contract /\ u.attempts = t.attempts
        /\ u.outcome = t.outcome /\ u.ops = t.ops /\ u.verdict = t.verdict
        /\ u.suite[a] = k /\ \A b \in 1..MaxAttempts : b # a => u.suite[b] = t.suite[b]
    <3>1. t \in Tasks /\ a \in 1..MaxAttempts
      BY <1>1, <1>5
    <3> HIDE DEF t, a
    <3> QED BY <3>1, NewVerdictOf
  <2>4. Len(t.ops) <= MaxTools
    BY <1>1, Still
  <2> HIDE DEF u
  <2>5. (Passed(t) => Passed(u)) /\ (ok => u.suite[a] = "passed")
    BY <1>5, <1>9, <2>1, <2>3 DEF Passed
  <2>6. Proved(TRUE, u, e)
    BY <1>1, <1>7, <2>3, <2>5 DEF SoundAt, Sound, Proved
  <2>7. OneOwner(u)
    BY <1>1, <2>3 DEF SoundAt, Sound, OneOwner
  <2>8. Carries(r, u, e)
    BY <1>2, <1>7, <2>3, Facts DEF Carries
  <2>9. Amends(r, u, e)
    BY <1>1, <1>2, <1>5, <1>7, <1>9, <2>2, <2>3, <2>4, <2>6, <2>7, <2>8 DEF Amends
  <2> QED BY <1>3, <2>9, AmendingGoes
<1> QED BY <1>8, <1>9

\* A verdict on the check restates a task.
LEMMA JudgedIs ==
  ASSUME NEW t \in Tasks, NEW e
  PROVE  /\ Judged(t, e) \in Tasks /\ Restated(t, Judged(t, e))
         /\ Judged(t, e).verdict = Verdict(t, e)
BY VerdictRestates DEF Judged, Verdict, Verdicts, Restated

\* The decisions of evaluateTask that are not to accept: a retry never after a stop
\* by the user.
LEMMA DecisionIs ==
  ASSUME NEW t \in Tasks, NEW e \in Evals, NEW u, u = Decision(t, e)
  PROVE  /\ Restated(t, u)
         /\ u.status \in {"retry_wait", "blocked", "awaiting_review", "exhausted"}
         /\ u.verdict \in {t.verdict, Verdict(t, e)}
         /\ u.status = "retry_wait" => e.saw.why # "stop"
<1> DEFINE judged == Judged(t, e)
           fresh == [t EXCEPT !.attempts = 0]
<1>1. judged \in Tasks /\ Restated(t, judged) /\ judged.verdict = Verdict(t, e)
  BY JudgedIs
<1>2. \/ \E s \in {"awaiting_review", "blocked"} : u = [judged EXCEPT !.status = s]
      \/ u = [t EXCEPT !.status = "blocked"]
      \/ Spent(fresh) /\ u = Retried(t, FALSE)
      \/ e.saw.why # "stop" /\ u = Retried(judged, FALSE)
  BY DEF Decision
<1>3. ASSUME NEW s \in {"awaiting_review", "blocked"}, u = [judged EXCEPT !.status = s]
      PROVE  Restated(t, u) /\ u.status = s /\ u.verdict = Verdict(t, e)
  <2> HIDE DEF judged
  <2>1. Restated(judged, u) /\ u.status = s /\ u.verdict = judged.verdict
    BY <1>1, <1>3, StatusRestates DEF Statuses
  <2> QED BY <1>1, <2>1 DEF Restated
<1>4. CASE u = [t EXCEPT !.status = "blocked"]
  <2>1. Restated(t, u) /\ u.status = "blocked" /\ u.verdict = t.verdict
    BY <1>4, StatusRestates DEF Statuses
  <2> QED BY <2>1
<1>5. CASE Spent(fresh) /\ u = Retried(t, FALSE)
  <2>1. /\ fresh.attempts = 0 /\ fresh.ops = t.ops /\ fresh.late = t.late /\ fresh.used = t.used
    BY NewAttempts, BudgetsAssumption
  <2> HIDE DEF fresh
  <2>2. Spent(t)
    BY <1>5, <2>1, BudgetsAssumption DEF Spent
  <2> QED BY <1>5, <2>2, RetriedIs
<1>6. CASE e.saw.why # "stop" /\ u = Retried(judged, FALSE)
  <2> HIDE DEF judged
  <2>1. /\ Restated(judged, u) /\ u.verdict = judged.verdict
        /\ u.status \in {"exhausted", "blocked", "retry_wait"}
    BY <1>1, <1>6, RetriedIs
  <2> QED BY <1>1, <1>6, <2>1 DEF Restated
<1> QED BY <1>2, <1>3, <1>4, <1>5, <1>6

\* The evaluation decides, or has the files published first.
LEMMA DecideStep ==
  ASSUME TaskInv, NEW r \in Revs, Decide(r) PROVE Goal
<1> DEFINE t == work[r]
<1>1. Typed /\ SoundAt(r) /\ t \in Tasks /\ eval[r].stage = "decide" /\ eval[r] \in Evals
  BY Facts, Still DEF Decide
<1>2. /\ rev' = rev /\ here' = here /\ live' = live /\ reap' = reap /\ stops' = stops
      /\ settle' = settle /\ recover' = recover /\ publishing' = publishing
      /\ stray' = stray /\ slipped' = slipped /\ done' = done /\ disk' = disk
      /\ trouble' = trouble /\ launch' = launch
  BY DEF Decide, process, effects, history
<1>3. Calm
  <2>1. armed' \subseteq Revs
    BY Facts DEF Decide, ArmIfWaiting
  <2> QED BY <1>1, <1>2, <2>1, Facts DEF Calm, Files
<1>4. launch' = [launch EXCEPT ![r] = launch[r]] /\ launch[r] \in [1..Slots -> Launches]
  BY <1>1, <1>2, Still
<1>5. t.status # "absent" /\ (r = rev => reap = "no")
  BY <1>1 DEF SoundAt, Sound, OfRevision, Reaping
<1>6. CASE r # rev
  <2>1. work' = work /\ eval' = [eval EXCEPT ![r] = NoEval]
    BY <1>6 DEF Decide, EndEval
  <2>2. Rests(r, NoEval, launch[r])
    BY <1>2, <1>4, <1>6, <2>1, NoEvalIs DEF Rests
  <2> QED BY <1>3, <2>2, RestingGoes
<1>7. CASE r = rev /\ Accepts(t, eval[r])
  <2> DEFINE e == [eval[r] EXCEPT !.stage = "publish"]
  <2>1. work' = work /\ eval' = [eval EXCEPT ![r] = e]
    BY <1>7 DEF Decide
  <2>2. /\ e \in Evals /\ e.stage = "publish" /\ e.of = eval[r].of /\ e.saw = eval[r].saw
        /\ e.passed = eval[r].passed
    BY <1>1 DEF Evals
  <2> HIDE DEF e
  <2>3. Proved(TRUE, t, e)
    BY <1>1, <1>7, <2>2 DEF SoundAt, Sound, Proved
  <2>4. Established(t, e, Files(r)')
    BY <1>2, <1>7, <2>2 DEF Accepts, Holds, Safe, Established, Settled, Succeeded, Files
  <2>5. Rests(r, e, launch[r])
    BY <1>1, <1>2, <1>4, <1>5, <1>7, <2>1, <2>2, <2>3, <2>4 DEF Rests
  <2> QED BY <1>3, <2>5, RestingGoes
<1>8. CASE r = rev /\ ~Accepts(t, eval[r])
  <2> DEFINE u == Decision(t, eval[r])
  <2>1. work' = [work EXCEPT ![r] = u] /\ eval' = [eval EXCEPT ![r] = NoEval]
    BY <1>8 DEF Decide, EndEval
  <2>2. /\ Restated(t, u)
        /\ u.status \in {"retry_wait", "blocked", "awaiting_review", "exhausted"}
        /\ u.verdict \in {t.verdict, Verdict(t, eval[r])}
        /\ u.status = "retry_wait" => eval[r].saw.why # "stop"
    BY <1>1, DecisionIs
  <2> HIDE DEF u
  <2>3. eval[r].passed /\ t.contract = "suite" => Passed(u)
    BY <1>1, <1>8, <2>2 DEF SoundAt, Sound, Proved, OfRevision, Restated, Passed
  <2>4. u.verdict = "pass" => Passed(u)
    BY <1>1, <2>2, <2>3 DEF SoundAt, Sound, Proved, Restated, Passed, Verdict
  <2>5. ~stray => t.status = "evaluating" /\ t.outcome # NoOutcome
    BY <1>1, <1>8 DEF SoundAt, Sound, Undisturbed, OfRevision
  <2>6. ~stray /\ u.status = "retry_wait" => <<t.attempts, "running">> \notin stops[r]
    BY <1>1, <1>8, <2>2 DEF SoundAt, Sound, StopSeen
  <2>7. ~stray => r \notin publishing
    BY <1>8, <2>5, Facts DEF PublishingIs
  <2>8. Restates(r, u, NoEval, launch[r])
    BY <2>7, <1>1, <1>2, <1>4, <1>5, <1>8, <2>1, <2>2, <2>4, <2>5, <2>6, NoEvalIs DEF Restates
  <2> QED BY <1>3, <2>8, RestatingGoes
<1> QED BY <1>6, <1>7, <1>8

\* The files are published, or not: the task is accepted as it was found, or blocked.
LEMMA PublishedStep ==
  ASSUME TaskInv, NEW r \in Revs, Published(r) PROVE Goal
<1> DEFINE t == work[r]
<1>1. /\ Typed /\ SoundAt(r) /\ t \in Tasks /\ eval[r].stage = "publish" /\ eval[r] \in Evals
      /\ Publishable(r)
  BY Facts, Still DEF Published
<1>2. /\ rev' = rev /\ here' = here /\ live' = live /\ reap' = reap /\ stops' = stops
      /\ settle' = settle /\ recover' = recover /\ publishing' = publishing
      /\ armed' = armed /\ stray' = stray /\ slipped' = slipped /\ done' = done /\ disk' = disk
      /\ trouble' = trouble /\ launch' = launch /\ eval' = [eval EXCEPT ![r] = NoEval]
  BY DEF Published, process, effects, retries, history, EndEval
<1>3. Calm
  BY <1>1, <1>2, Facts DEF Calm, Files
<1>4. launch' = [launch EXCEPT ![r] = launch[r]] /\ launch[r] \in [1..Slots -> Launches]
  BY <1>1, <1>2, Still
<1>5. t.status # "absent" /\ (r = rev => reap = "no") /\ eval[r].of \in 1..MaxAttempts
  BY <1>1 DEF SoundAt, Sound, OfRevision, Reaping
<1>6. CASE r # rev
  <2>1. work' = work
    BY <1>6 DEF Published, Patched
  <2>2. Rests(r, NoEval, launch[r])
    BY <1>2, <1>4, <1>6, <2>1, NoEvalIs DEF Rests
  <2> QED BY <1>3, <2>2, RestingGoes
<1>7. CASE r = rev
  <2>1. ~stray => /\ t.status = "evaluating" /\ t.outcome # NoOutcome /\ eval[r].of = t.attempts
                  /\ r \notin publishing
    BY <1>1, <1>7, Facts DEF SoundAt, Sound, Undisturbed, OfRevision, PublishingIs
  <2>2. ASSUME NEW u, work' = [work EXCEPT ![r] = u], Restated(t, u),
               u.status \in {"accepted", "blocked"}, u.verdict = "pass" => Passed(u),
               ~stray /\ u.status = "accepted" => Checked(r, u)
        PROVE  Goal
    <3>1. Restates(r, u, NoEval, launch[r])
      BY <1>1, <1>2, <1>4, <1>5, <1>7, <2>1, <2>2, NoEvalIs DEF Restates
    <3> QED BY <1>3, <3>1, RestatingGoes
  <2>3. CASE work' = [work EXCEPT ![r] = [t EXCEPT !.status = "blocked"]]
    <3> DEFINE u == [t EXCEPT !.status = "blocked"]
    <3>1. Restated(t, u) /\ u.status = "blocked" /\ u.verdict = t.verdict
      BY <1>1, StatusRestates DEF Statuses
    <3>2. u.verdict = "pass" => Passed(u)
      BY <1>1, <3>1, JudgedAlike DEF SoundAt, Sound, Proved, Restated
    <3> HIDE DEF u
    <3> QED BY <2>2, <2>3, <3>1, <3>2 DEF u
  <2>4. CASE work' = [work EXCEPT ![r] = [Judged(t, eval[r]) EXCEPT !.status = "accepted"]]
    <3> DEFINE judged == Judged(t, eval[r])
               u == [judged EXCEPT !.status = "accepted"]
    <3>1. /\ judged \in Tasks /\ Restated(t, judged)
          /\ judged.verdict = Verdict(t, eval[r])
      BY <1>1, JudgedIs
    <3> HIDE DEF judged
    <3>2. Restated(judged, u) /\ u.status = "accepted" /\ u.verdict = judged.verdict
      BY <3>1, StatusRestates DEF Statuses
    <3>3. work' = [work EXCEPT ![r] = u]
      BY <2>4 DEF judged
    <3> HIDE DEF u
    <3>4. Restated(t, u) /\ u.verdict = Verdict(t, eval[r])
      BY <3>1, <3>2 DEF Restated
    <3>5. u.verdict = "pass" => t.contract = "suite" /\ eval[r].passed
      BY <3>4 DEF Verdict
    <3>6. u.verdict = "pass" => u.suite[eval[r].of] = "passed"
      BY <1>1, <1>7, <3>4, <3>5 DEF SoundAt, Sound, Proved, Restated
    <3>7. u.verdict = "pass" => Passed(u)
      BY <1>5, <3>6 DEF Passed
    <3>8. ASSUME ~stray PROVE Checked(r, u)
      <4>1. Established(t, eval[r], Files(r)) /\ eval[r].of = t.attempts
        BY <1>1, <1>7, <2>1, <3>8 DEF Publishable
      <4>2. u.ops = t.ops /\ u.contract = t.contract /\ u.attempts = t.attempts
        BY <3>4 DEF Restated
      <4>3. u.contract = "suite" => u.verdict = "pass"
        BY <3>4, <4>1, <4>2 DEF Verdict, Established
      <4> QED BY <1>2, <3>6, <4>1, <4>2, <4>3 DEF Checked, Established, Settled, Files, TestsPassed
    <3> QED BY <2>2, <3>2, <3>3, <3>4, <3>7, <3>8
  <2> QED BY <1>7, <2>3, <2>4 DEF Published, Patched
<1> QED BY <1>6, <1>7

\* A step that blocks or exhausts the current task.
Closes(r, s, ls) ==
  /\ r = rev /\ s \in {"blocked", "exhausted"}
  /\ ls \in [1..Slots -> Launches]
  /\ work' = [work EXCEPT ![r] = [work[r] EXCEPT !.status = s]]
       /\ launch' = [launch EXCEPT ![r] = ls]
  /\ eval' = eval /\ here' = here /\ live' = live /\ done' = done /\ settle' = settle
  /\ stops' = stops /\ publishing' \subseteq publishing
  /\ ~stray' =>
       /\ eval[r].stage = "no" /\ r \notin publishing'
       /\ work[r].attempts \in here[r] => work[r].outcome # NoOutcome
       /\ r \in publishing \/ work[r].status \notin {"accepted", "exhausted"}
  /\ reap # "no" =>
       s = "blocked" /\ (Reaping(work[r], eval[r], launch[r]) => Reaping(work[r], eval[r], ls))

\* Such a step does what is needed.
LEMMA ClosingGoes ==
  ASSUME TaskInv, NEW r \in Revs, Calm, NEW s, NEW ls, Closes(r, s, ls)
  PROVE  Goal
<1> DEFINE t == work[r]
           u == [t EXCEPT !.status = s]
<1>1. Typed /\ SoundAt(r) /\ t \in Tasks /\ r = rev
  BY Facts, Still DEF Closes
<1>2. Restated(t, u) /\ u.status = s /\ u.verdict = t.verdict
  BY <1>1, StatusRestates DEF Closes, Statuses
<1>3. work' = [work EXCEPT ![r] = u]
  BY DEF Closes
<1> HIDE DEF u
<1>4. u.verdict = "pass" => Passed(u)
  BY <1>1, <1>2, JudgedAlike DEF SoundAt, Sound, Proved, Restated
<1>5. reap # "no" => Reaping(u, eval[r], ls)
  BY <1>1, <1>2 DEF SoundAt, Sound, Reaping, Closes
<1>6. eval' = [eval EXCEPT ![r] = eval[r]]
  BY <1>1, Still DEF Closes
<1>7. Restates(r, u, eval[r], ls)
  BY <1>1, <1>2, <1>3, <1>4, <1>5, <1>6 DEF Closes, Restates
<1> QED BY <1>7, RestatingGoes

\* Nothing else is at work on a task that neither runs nor is evaluated, unless a
\* launch was overtaken.
LEMMA SlotUndisturbed ==
  ASSUME TaskInv, NEW r \in Revs, r = rev, ~stray, work[r].status \notin {"running", "evaluating"}
  PROVE  /\ eval[r].stage = "no"
         /\ work[r].attempts \in here[r] => work[r].outcome # NoOutcome
         /\ r \in publishing => work[r].status = "accepted"
BY Facts DEF SoundAt, Sound, Undisturbed, PublishingIs

\* The launch of a retry has waited and looks at the task afresh.
LEMMA LaunchCheckedStep ==
  ASSUME TaskInv, NEW r \in Revs, NEW s \in 1..Slots, LaunchChecked(r, s) PROVE Goal
<1>1. /\ Typed /\ SoundAt(r) /\ launch[r][s].stage = "wait" /\ reap # "yes"
      /\ reap \in {"no", "yes", "failed"}
  BY Facts DEF LaunchChecked, Typed, TypeOK
<1>2. /\ rev' = rev /\ here' = here /\ live' = live /\ reap' = reap /\ stops' = stops
      /\ settle' = settle /\ recover' = recover /\ publishing' = publishing /\ eval' = eval
      /\ armed' = armed /\ stray' = stray /\ slipped' = slipped /\ done' = done /\ disk' = disk
           /\ trouble' = trouble
  BY DEF LaunchChecked, process, effects, history
<1>3. Calm
  BY <1>1, <1>2, Facts DEF Calm, Files
<1> DEFINE ls == [launch[r] EXCEPT ![s] = NoLaunch]
<1>4. EndLaunch(r, s) => /\ launch' = [launch EXCEPT ![r] = ls] /\ ls \in [1..Slots -> Launches]
                         /\ Reaping(work[r], eval[r], launch[r]) => Reaping(work[r], eval[r], ls)
                         /\ Idle(launch[r]) => Idle(ls)
  BY <1>1, EndsLaunch
<1>5. CASE EndLaunch(r, s) /\ work' = work
  <2> HIDE DEF ls
  <2>1. Rests(r, eval[r], ls)
    BY <1>1, <1>2, <1>4, <1>5, Still, RestsIn DEF Rests
  <2> QED BY <1>3, <2>1, RestingGoes
<1>6. ASSUME NEW k \in {"blocked", "exhausted"}, EndLaunch(r, s), r = rev,
             work' = [work EXCEPT ![r] = [work[r] EXCEPT !.status = k]],
             work[r].status \in {"retry_wait", "blocked"}, reap # "no" => k = "blocked"
      PROVE  Goal
  <2>1. ~stray => eval[r].stage = "no" /\ (work[r].attempts \in here[r]
          => work[r].outcome # NoOutcome)
                  /\ r \notin publishing
    BY <1>6, SlotUndisturbed
  <2> HIDE DEF ls
  <2>2. Closes(r, k, ls)
    BY <1>2, <1>4, <1>6, <2>1 DEF Closes
  <2> QED BY <1>3, <2>2, ClosingGoes
<1>7. CASE reap = "failed" /\ r # rev
  BY <1>5, <1>7 DEF LaunchChecked, Patched
<1>8. CASE reap = "failed" /\ r = rev
  <2>1. work[r].status \in {"retry_wait", "blocked"}
    BY <1>1, <1>8 DEF SoundAt, Sound, Reaping
  <2>2. EndLaunch(r, s) /\ work' = [work EXCEPT ![r] = [work[r] EXCEPT !.status = "blocked"]]
    BY <1>8 DEF LaunchChecked, Patched
  <2> QED BY <1>6, <1>8, <2>1, <2>2
<1>9. CASE reap = "no" /\ ~Willing(r)
  BY <1>5, <1>9 DEF LaunchChecked
<1>10. CASE reap = "no" /\ Willing(r) /\ (work[r].late \/ ~Safe(work[r]))
  <2>1. r = rev /\ work[r].status = "retry_wait"
    BY <1>10 DEF Willing
  <2>2. EndLaunch(r, s) /\ \E k \in {"blocked", "exhausted"} :
          work' = [work EXCEPT ![r] = [work[r] EXCEPT !.status = k]]
    BY <1>10, <2>1 DEF LaunchChecked, Patched
  <2> QED BY <1>6, <1>10, <2>1, <2>2
<1>11. CASE reap = "no" /\ Willing(r) /\ ~work[r].late /\ Safe(work[r])
  <2> DEFINE l == [launch[r][s] EXCEPT !.stage = "compare"]
             ns == [launch[r] EXCEPT ![s] = l]
  <2>1. work' = work /\ launch' = [launch EXCEPT ![r][s].stage = "compare"]
    BY <1>11 DEF LaunchChecked
  <2>2. launch' = [launch EXCEPT ![r] = ns]
    BY <2>1
  <2>3. launch[r] \in [1..Slots -> Launches]
    BY <1>1, Still
  <2>4. l \in Launches
    BY <2>3 DEF Launches
  <2>5. ns \in [1..Slots -> Launches]
    BY <2>3, <2>4
  <2> HIDE DEF ns
  <2>6. Rests(r, eval[r], ns)
    BY <1>1, <1>2, <1>11, <2>1, <2>2, <2>5, Still, RestsIn DEF Rests, Willing
  <2> QED BY <1>3, <2>6, RestingGoes
<1> QED BY <1>1, <1>7, <1>8, <1>9, <1>10, <1>11

\* A launch finds a conflict and blocks the task without another look at it.
LEMMA ConflictStep ==
  ASSUME TaskInv, NEW r \in Revs, NEW s \in 1..Slots, Conflict(r, s) PROVE Goal
<1>1. /\ Typed /\ SoundAt(r) /\ launch[r][s].stage = "compare" /\ stray \in BOOLEAN
      /\ trouble < MaxTrouble /\ trouble' = trouble + 1
  BY Facts DEF Conflict, Troubled
<1>2. /\ rev' = rev /\ here' = here /\ live' = live /\ reap' = reap /\ stops' = stops
      /\ settle' = settle /\ recover' = recover /\ publishing' = publishing /\ eval' = eval
      /\ armed' = armed /\ done' = done /\ disk' = disk
      /\ stray' = (stray \/ (r = rev /\ work[r].status # "retry_wait")) /\ slipped' = slipped
  BY DEF Conflict, process, effects, history
<1>3. Calm
  BY <1>1, <1>2, Facts, BoundsAssumption DEF Calm, Files
<1> DEFINE ls == [launch[r] EXCEPT ![s] = NoLaunch]
<1>4. /\ launch' = [launch EXCEPT ![r] = ls] /\ ls \in [1..Slots -> Launches]
      /\ Reaping(work[r], eval[r], launch[r]) => Reaping(work[r], eval[r], ls)
      /\ Idle(launch[r]) => Idle(ls)
  BY <1>1, EndsLaunch DEF Conflict
<1>5. CASE r # rev
  <2>1. work' = work
    BY <1>5 DEF Conflict, Patched
  <2> HIDE DEF ls
  <2>2. Rests(r, eval[r], ls)
    BY <1>1, <1>2, <1>4, <1>5, <2>1, Still, RestsIn DEF Rests
  <2> QED BY <1>3, <2>2, RestingGoes
<1>6. CASE r = rev
  <2>1. work' = [work EXCEPT ![r] = [work[r] EXCEPT !.status = "blocked"]]
    BY <1>6 DEF Conflict, Patched
  <2>2. ~stray' => ~stray /\ work[r].status = "retry_wait"
    BY <1>1, <1>2, <1>6
  <2>3. ~stray' => eval[r].stage = "no" /\ (work[r].attempts \in here[r]
          => work[r].outcome # NoOutcome)
                  /\ r \notin publishing
    BY <1>6, <2>2, SlotUndisturbed
  <2> HIDE DEF ls
  <2>5. Closes(r, "blocked", ls)
    BY <1>2, <1>4, <1>6, <2>1, <2>2, <2>3 DEF Closes
  <2> QED BY <1>3, <2>5, ClosingGoes
<1> QED BY <1>5, <1>6

\* preCheckSpawn refuses.
LEMMA NotNowStep ==
  ASSUME TaskInv, NEW r \in Revs, NEW s \in 1..Slots, NotNow(r, s) PROVE Goal
<1>1. /\ Typed /\ SoundAt(r) /\ launch[r][s].stage = "compare" /\ stray \in BOOLEAN
      /\ trouble < MaxTrouble /\ trouble' = trouble + 1 /\ r = rev /\ work[r].status = "retry_wait"
  BY Facts DEF NotNow, Troubled, Ready, StillWaiting
<1>2. /\ rev' = rev /\ here' = here /\ live' = live /\ reap' = reap /\ stops' = stops
      /\ settle' = settle /\ recover' = recover /\ publishing' = publishing /\ eval' = eval
      /\ armed' \subseteq armed \cup {r} /\ done' = done /\ disk' = disk /\ stray' = stray
           /\ slipped' = slipped
  BY DEF NotNow, process, effects, history
<1>3. Calm
  BY <1>1, <1>2, Facts, BoundsAssumption DEF Calm, Files
<1> DEFINE ls == [launch[r] EXCEPT ![s] = NoLaunch]
<1>4. /\ launch' = [launch EXCEPT ![r] = ls] /\ ls \in [1..Slots -> Launches]
      /\ Reaping(work[r], eval[r], launch[r]) => Reaping(work[r], eval[r], ls)
      /\ Idle(launch[r]) => Idle(ls)
  BY <1>1, EndsLaunch DEF NotNow
<1> HIDE DEF ls
<1>5. CASE work' = work
  <2>1. Rests(r, eval[r], ls)
    BY <1>1, <1>2, <1>4, <1>5, Still, RestsIn DEF Rests
  <2> QED BY <1>3, <2>1, RestingGoes
<1>6. CASE work' = [work EXCEPT ![r].status = "blocked"]
  <2>1. work' = [work EXCEPT ![r] = [work[r] EXCEPT !.status = "blocked"]]
    BY <1>6
  <2>2. ~stray => eval[r].stage = "no" /\ (work[r].attempts \in here[r]
          => work[r].outcome # NoOutcome)
                  /\ r \notin publishing
    BY <1>1, SlotUndisturbed
  <2>3. Closes(r, "blocked", ls)
    BY <1>1, <1>2, <1>4, <2>1, <2>2 DEF Closes
  <2> QED BY <1>3, <2>3, ClosingGoes
<1> QED BY <1>5, <1>6 DEF NotNow

\* The retry starts (reserveAttempt).
LEMMA StartStep ==
  ASSUME TaskInv, NEW r \in Revs, NEW s \in 1..Slots, Start(r, s) PROVE Goal
<1> DEFINE t == work[r]
<1>1. /\ Typed /\ SoundAt(r) /\ launch[r][s].stage = "compare" /\ stray \in BOOLEAN
      /\ r = rev /\ work[r].status = "retry_wait" /\ t \in Tasks
  BY Facts, Still DEF Start, Ready, StillWaiting
<1>2. /\ rev' = rev /\ live' = live /\ reap' = reap /\ stops' = stops
      /\ settle' = settle /\ recover' = recover /\ publishing' = publishing /\ eval' = eval
      /\ armed' = armed /\ done' = done /\ disk' = disk /\ stray' = stray /\ slipped' = slipped
           /\ trouble' = trouble
  BY DEF Start, process, effects, history
<1>3. Calm
  BY <1>1, <1>2, Facts DEF Calm, Files
<1> DEFINE ls == [launch[r] EXCEPT ![s] = NoLaunch]
<1>4. /\ launch' = [launch EXCEPT ![r] = ls] /\ ls \in [1..Slots -> Launches]
      /\ Reaping(work[r], eval[r], launch[r]) => Reaping(work[r], eval[r], ls)
      /\ Idle(launch[r]) => Idle(ls)
  BY <1>1, EndsLaunch DEF Start
<1> HIDE DEF ls
<1>5. ~stray => eval[r].stage = "no" /\ (work[r].attempts \in here[r]
        => work[r].outcome # NoOutcome)
                  /\ r \notin publishing
  BY <1>1, SlotUndisturbed
<1>6. reap = "no"
  BY <1>1 DEF SoundAt, Sound, Reaping
<1>7. CASE work' = [work EXCEPT ![r].status = "exhausted"] /\ here' = here
  <2>1. work' = [work EXCEPT ![r] = [work[r] EXCEPT !.status = "exhausted"]]
    BY <1>7
  <2>2. Closes(r, "exhausted", ls)
    BY <1>1, <1>2, <1>4, <1>5, <1>6, <1>7, <2>1 DEF Closes
  <2> QED BY <1>3, <2>2, ClosingGoes
<1>8. CASE /\ ~Spent(t) /\ work' = [work EXCEPT ![r] = Reserved(@)]
           /\ here' = [here EXCEPT ![r] = @ \cup {t.attempts + 1}]
  <2> DEFINE u == Reserved(t)
             n == t.attempts + 1
             h == here[r] \cup {n}
  <2>1. t.attempts \in 0..MaxAttempts /\ t.attempts < MaxAttempts /\ t.attempts \in Nat
    BY <1>1, <1>8, TasksAre, BudgetsAssumption DEF Spent
  <2>2. n \in 1..MaxAttempts /\ n > t.attempts /\ n \in Nat
    BY <2>1, BudgetsAssumption
  <2>3. /\ u \in Tasks /\ u.status = "running" /\ u.contract = t.contract /\ u.attempts = n
        /\ u.outcome = NoOutcome /\ u.ops = t.ops /\ u.verdict = t.verdict /\ u.suite = t.suite
    BY <1>1, <2>1, NewAttempt
  <2>4. work' = [work EXCEPT ![r] = u] /\ here' = [here EXCEPT ![r] = h]
    BY <1>8
  <2>5. h \in SUBSET (1..MaxAttempts)
    BY <1>1, <2>2, Still
  <2> HIDE DEF u, n, h
  <2>6. Row(r, u, eval[r], h, ls, stops[r])
    <3>1. /\ eval' = [eval EXCEPT ![r] = eval[r]] /\ stops' = [stops EXCEPT ![r] = stops[r]]
          /\ eval[r] \in Evals /\ stops[r] \in SUBSET Stops /\ Len(t.ops) <= MaxTools
      BY <1>1, <1>2, Still
    <3>2. Len(u.ops) <= MaxTools /\ DOMAIN work[r].ops \subseteq DOMAIN u.ops
      BY <2>3, <3>1
    <3> QED BY <1>2, <1>4, <2>3, <2>4, <2>5, <3>1, <3>2 DEF Row
  <2>7. Sound(r, rev, stray', reap, u, eval[r], h, ls, stops[r])
    <3>1. OneOwner(u)
      BY <1>1, <2>3 DEF SoundAt, Sound, OneOwner
    <3>2. OfRevision(r, rev, u, eval[r])
      BY <1>1, <2>3 DEF SoundAt, Sound, OfRevision
    <3>3. Passed(u) = Passed(t)
      BY <2>3 DEF Passed
    <3>4. Proved(r = rev, u, eval[r])
      BY <1>1, <2>3, <3>3 DEF SoundAt, Sound, Proved
    <3>5. \A stop \in stops[r] : stop[1] \in Nat /\ stop[1] <= t.attempts
      BY <1>1 DEF SoundAt, Sound, StopKnown, Typed, Stops
    <3>6. StopKnown(u, stops[r]) /\ <<n, "running">> \notin stops[r]
      BY <2>1, <2>2, <2>3, <3>5 DEF StopKnown
    <3>7. ~stray => Undisturbed(u, eval[r], h) /\ StopSeen(u, eval[r], stops[r])
      BY <1>5, <2>3 DEF Undisturbed, StopSeen
    <3>8. Ahead(r, rev, u, ls)
      BY <1>1 DEF Ahead, Revs
    <3> QED BY <1>2, <1>6, <3>1, <3>2, <3>4, <3>6, <3>7, <3>8 DEF Sound
  <2>8. ASSUME work'[r] = u PROVE StepOk(r)
    BY <1>1, <1>5, <2>3, <2>8 DEF StepOk, FinalStays, StopOfRunningIsFinal, AutomaticRetry
  <2>9. Publishes(r, u)
    BY <1>2, <1>5 DEF Publishes
  <2>10. Carries(r, u, eval[r])
    BY <1>2, <1>3, <2>3, Carried
  <2> QED BY <1>3, <2>6, <2>7, <2>8, <2>9, <2>10, Moves
<1> QED BY <1>7, <1>8 DEF Start

\* The PM reviews (TaskReview).
LEMMA ReviewTaskStep ==
  ASSUME TaskInv, NEW r \in Revs, ReviewTask(r) PROVE Goal
<1> DEFINE t == work[r]
<1>1. /\ Typed /\ SoundAt(r) /\ t \in Tasks /\ r = rev
           /\ t.status \in {"blocked", "awaiting_review"}
      /\ reap = "no" /\ trouble < MaxTrouble /\ trouble' = trouble + 1
  BY Facts, Still DEF ReviewTask, MayControl, Troubled, Cleared
<1>2. /\ rev' = rev /\ here' = here /\ live' = live /\ done' = done /\ disk' = disk /\ reap' = reap
      /\ settle' = settle /\ recover' = recover /\ eval' = eval
      /\ launch' = launch /\ stops' = stops /\ stray' = stray /\ slipped' = slipped
  BY DEF ReviewTask, process, effects, history
<1>3. armed' \subseteq Revs /\ publishing' \subseteq publishing \cup {r}
  BY Facts, <1>1 DEF ReviewTask, ArmIfWaiting
<1>4. Calm
  BY <1>1, <1>2, <1>3, Facts, BoundsAssumption DEF Calm, Files
<1>5. PICK proof \in {"read", "tests"} :
       \/ /\ Acceptable(work[r], proof)
          /\ work' = [work EXCEPT ![r].status = "accepted", ![r].verdict = proof]
       \/ /\ work' = [work EXCEPT ![r] = Retried([work[r] EXCEPT !.verdict = proof], FALSE)]
          /\ publishing' = publishing
  BY DEF ReviewTask
<1>6. PICK u \in Tasks :
        /\ work' = [work EXCEPT ![r] = u] /\ Restated(t, u) /\ u.verdict = proof
        /\ \/ u.status = "accepted" /\ Acceptable(t, proof)
           \/ u.status \in {"exhausted", "blocked", "retry_wait"} /\ publishing' = publishing
  <2>1. CASE /\ Acceptable(t, proof)
             /\ work' = [work EXCEPT ![r].status = "accepted", ![r].verdict = proof]
    <3> DEFINE v == [t EXCEPT !.status = "accepted"]
               u == [v EXCEPT !.verdict = proof]
    <3>1. Restated(t, v) /\ v.status = "accepted"
      BY <1>1, StatusRestates DEF Statuses
    <3>2. work' = [work EXCEPT ![r] = u]
      <4>1. work' = [work EXCEPT ![r] = [t EXCEPT !.status = "accepted", !.verdict = proof]]
        BY <1>1, <2>1 DEF Typed, TypeOK
      <4>2. [t EXCEPT !.status = "accepted", !.verdict = proof] = u
        BY Zenon
      <4> HIDE DEF u
      <4> QED BY <4>1, <4>2
    <3>3. Restated(v, u) /\ u.status = v.status /\ u.verdict = proof
      <4> HIDE DEF v
      <4> QED BY <3>1, VerdictRestates DEF Restated, Verdicts
    <3> HIDE DEF u, v
    <3> QED BY <2>1, <3>1, <3>2, <3>3 DEF Restated
  <2>2. CASE /\ work' = [work EXCEPT ![r] = Retried([work[r] EXCEPT !.verdict = proof], FALSE)]
             /\ publishing' = publishing
    <3> DEFINE v == [t EXCEPT !.verdict = proof]
               u == Retried(v, FALSE)
    <3>1. Restated(t, v) /\ v.verdict = proof /\ v \in Tasks
      BY <1>1, VerdictRestates DEF Verdicts, Restated
    <3>2. work' = [work EXCEPT ![r] = u]
      BY <2>2
    <3> HIDE DEF v
    <3>3. Restated(v, u) /\ u.verdict = v.verdict
            /\ u.status \in {"exhausted", "blocked", "retry_wait"}
      BY <3>1, RetriedIs
    <3> HIDE DEF u
    <3> QED BY <2>2, <3>1, <3>2, <3>3 DEF Restated
  <2> QED BY <1>5, <2>1, <2>2
<1>7. u.status = "accepted" => Checked(r, u)
  <2>1. u.suite = t.suite /\ u.ops = t.ops /\ u.contract = t.contract
          /\ (t.verdict = "pass" => Passed(t))
    BY <1>1, <1>6 DEF SoundAt, Sound, Proved, Restated
  <2> QED BY <1>2, <1>6, <2>1 DEF Checked, Acceptable, Settled, TestsPassed, Passed
<1>8. eval' = [eval EXCEPT ![r] = eval[r]] /\ launch' = [launch EXCEPT ![r] = launch[r]]
      /\ launch[r] \in [1..Slots -> Launches]
  BY <1>1, <1>2, Still
<1>9. ~stray => eval[r].stage = "no" /\ (t.attempts \in here[r] => t.outcome # NoOutcome)
                /\ r \notin publishing
  BY <1>1, SlotUndisturbed
<1>10. Restates(r, u, eval[r], launch[r])
  BY <1>1, <1>2, <1>3, <1>6, <1>7, <1>8, <1>9 DEF Restates
<1> QED BY <1>4, <1>10, RestatingGoes

\* The files of an accepted task are published, or not.
LEMMA ReviewPublishedStep ==
  ASSUME TaskInv, NEW r \in Revs, ReviewPublished(r) PROVE Goal
<1>1. Typed /\ SoundAt(r) /\ r \in publishing /\ publishing' = publishing \ {r}
  BY Facts DEF ReviewPublished
<1>2. /\ rev' = rev /\ here' = here /\ live' = live /\ done' = done /\ disk' = disk /\ reap' = reap
      /\ settle' = settle /\ recover' = recover /\ eval' = eval /\ armed' = armed
      /\ launch' = launch /\ stops' = stops /\ stray' = stray /\ slipped' = slipped
           /\ trouble' = trouble
  BY DEF ReviewPublished, effects, history, retries
<1>3. Calm
  BY <1>1, <1>2, Facts, BoundsAssumption DEF Calm, Files
<1>4. launch' = [launch EXCEPT ![r] = launch[r]] /\ launch[r] \in [1..Slots -> Launches]
  BY <1>1, <1>2, Still
<1>5. CASE work' = work
  <2>1. Rests(r, eval[r], launch[r])
    BY <1>1, <1>2, <1>4, <1>5, Still, RestsIn DEF Rests
  <2> QED BY <1>3, <2>1, RestingGoes
<1>6. CASE work' # work
  <2>1. r = rev /\ work' = [work EXCEPT ![r] = [work[r] EXCEPT !.status = "blocked"]]
    BY <1>6 DEF ReviewPublished, Patched
  <2>2. ~stray => work[r].status = "accepted"
    BY <1>1, <2>1, Facts DEF PublishingIs
  <2>3. ~stray => eval[r].stage = "no" /\ (work[r].attempts \in here[r]
          => work[r].outcome # NoOutcome)
    BY <2>1, <2>2, SlotUndisturbed
  <2>4. Closes(r, "blocked", launch[r])
    BY <1>1, <1>2, <1>4, <2>1, <2>2, <2>3 DEF Closes
  <2> QED BY <1>3, <2>4, ClosingGoes
<1> QED BY <1>5, <1>6

\* The retry policy is changed (TaskPolicy).
LEMMA TaskModeStep ==
  ASSUME TaskInv, NEW r \in Revs, NEW mode \in {"auto", "manual"}, TaskMode(r, mode) PROVE Goal
<1> DEFINE t == work[r]
<1>1. /\ Typed /\ SoundAt(r) /\ t \in Tasks /\ r = rev /\ t.status # "absent"
      /\ trouble < MaxTrouble /\ trouble' = trouble + 1
  BY Facts, Still DEF TaskMode, Troubled
<1>2. /\ rev' = rev /\ here' = here /\ live' = live /\ done' = done /\ disk' = disk /\ reap' = reap
      /\ settle' = settle /\ recover' = recover /\ publishing' = publishing /\ eval' = eval
      /\ launch' = launch /\ stops' = stops /\ stray' = stray /\ slipped' = slipped
  BY DEF TaskMode, process, effects, history
<1>3. Calm
  BY <1>1, <1>2, Facts, BoundsAssumption DEF Calm, Files, TaskMode
<1> DEFINE v == [t EXCEPT !.mode = mode]
           u == [v EXCEPT !.requested = FALSE]
<1>4. /\ v \in Tasks /\ v.status = t.status /\ v.attempts = t.attempts /\ v.contract = t.contract
      /\ v.outcome = t.outcome /\ v.ops = t.ops /\ v.verdict = t.verdict /\ v.suite = t.suite
  BY <1>1, NewMode
<1>5. /\ u \in Tasks /\ u.status = v.status /\ u.attempts = v.attempts /\ u.contract = v.contract
      /\ u.outcome = v.outcome /\ u.ops = v.ops /\ u.verdict = v.verdict /\ u.suite = v.suite
  <2> HIDE DEF v
  <2> QED BY <1>4 DEF Tasks
<1>6. work' = [work EXCEPT ![r] = u]
  <2>1. work' = [work EXCEPT ![r].mode = mode, ![r].requested = FALSE]
    BY DEF TaskMode
  <2>2. work' = [work EXCEPT ![r] = [t EXCEPT !.mode = mode, !.requested = FALSE]]
    BY <1>1, <2>1 DEF Typed, TypeOK
  <2>3. [t EXCEPT !.mode = mode, !.requested = FALSE] = u
    BY Zenon
  <2> HIDE DEF u
  <2> QED BY <2>2, <2>3
<1> HIDE DEF u, v
<1>7. eval' = [eval EXCEPT ![r] = eval[r]] /\ eval[r] \in Evals /\ Len(t.ops) <= MaxTools
  BY <1>1, <1>2, Still
<1>8. OneOwner(u) /\ Proved(TRUE, u, eval[r])
  BY <1>1, <1>4, <1>5 DEF SoundAt, Sound, OneOwner, Proved, Passed
<1>9. reap # "no" => eval[r].stage \in {"no", "settle"}
  BY <1>1 DEF SoundAt, Sound, Reaping
<1>10. Carries(r, u, eval[r])
  BY <1>2, <1>3, <1>4, <1>5, Carried
<1>11. Amends(r, u, eval[r])
  BY <1>1, <1>2, <1>4, <1>5, <1>6, <1>7, <1>8, <1>9, <1>10 DEF Amends
<1> QED BY <1>3, <1>11, AmendingGoes

\* The deadline passes.
LEMMA DeadlineStep ==
  ASSUME TaskInv, NEW r \in Revs, Deadline(r) PROVE Goal
<1> DEFINE t == work[r]
<1>1. /\ Typed /\ SoundAt(r) /\ t \in Tasks /\ r = rev /\ t.status # "absent"
      /\ trouble < MaxTrouble /\ trouble' = trouble + 1
  BY Facts, Still DEF Deadline, Troubled
<1>2. /\ rev' = rev /\ here' = here /\ live' = live /\ done' = done /\ disk' = disk /\ reap' = reap
      /\ settle' = settle /\ recover' = recover /\ publishing' = publishing /\ eval' = eval
      /\ armed' = armed /\ launch' = launch /\ stops' = stops /\ stray' = stray
           /\ slipped' = slipped
  BY DEF Deadline, process, effects, retries, history
<1>3. Calm
  BY <1>1, <1>2, Facts, BoundsAssumption DEF Calm, Files
<1> DEFINE u == [t EXCEPT !.late = TRUE]
<1>4. /\ u \in Tasks /\ u.status = t.status /\ u.attempts = t.attempts /\ u.contract = t.contract
      /\ u.outcome = t.outcome /\ u.ops = t.ops /\ u.verdict = t.verdict /\ u.suite = t.suite
  BY <1>1 DEF Tasks
<1>5. work' = [work EXCEPT ![r] = u]
  BY DEF Deadline
<1> HIDE DEF u
<1>6. eval' = [eval EXCEPT ![r] = eval[r]] /\ eval[r] \in Evals /\ Len(t.ops) <= MaxTools
  BY <1>1, <1>2, Still
<1>7. OneOwner(u) /\ Proved(TRUE, u, eval[r])
  BY <1>1, <1>4 DEF SoundAt, Sound, OneOwner, Proved, Passed
<1>8. reap # "no" => eval[r].stage \in {"no", "settle"}
  BY <1>1 DEF SoundAt, Sound, Reaping
<1>9. Carries(r, u, eval[r])
  BY <1>2, <1>3, <1>4, Carried
<1>10. Amends(r, u, eval[r])
  BY <1>1, <1>2, <1>4, <1>5, <1>6, <1>7, <1>8, <1>9 DEF Amends
<1> QED BY <1>3, <1>10, AmendingGoes

\* A worker uses a turn or a request.
LEMMA UseStep ==
  ASSUME TaskInv, NEW r \in Revs, NEW a \in here[r], NEW k \in Kinds, Use(r, a, k) PROVE Goal
<1> DEFINE t == work[r]
<1>1. /\ Typed /\ SoundAt(r) /\ t \in Tasks
  BY Facts, Still
<1>2. /\ rev' = rev /\ here' = here /\ live' = live /\ done' = done /\ disk' = disk /\ reap' = reap
      /\ settle' = settle /\ recover' = recover /\ publishing' = publishing /\ eval' = eval
      /\ armed' = armed /\ launch' = launch /\ stops' = stops /\ stray' = stray
           /\ slipped' = slipped
           /\ trouble' = trouble
  BY DEF Use, process, effects, retries, history
<1>3. Calm
  BY <1>1, <1>2, Facts, BoundsAssumption DEF Calm, Files
<1>4. CASE r # rev
  <2>1. work' = work
    BY <1>4 DEF Use, Patched
  <2>2. launch' = [launch EXCEPT ![r] = launch[r]] /\ launch[r] \in [1..Slots -> Launches]
    BY <1>1, <1>2, Still
  <2>3. Rests(r, eval[r], launch[r])
    BY <1>1, <1>2, <1>4, <2>1, <2>2, Still, RestsIn DEF Rests
  <2> QED BY <1>3, <2>3, RestingGoes
<1>5. CASE r = rev
  <2> DEFINE n == t.used[k] + 1
             v == [t.used EXCEPT ![k] = n]
             u == [t EXCEPT !.used = v]
  <2>1. t.used \in [Kinds -> 0..MaxUsed] /\ t.used[k] < MaxUsed
    BY <1>1, TasksAre DEF Use
  <2>2. n \in 0..MaxUsed
    BY <2>1, BudgetsAssumption
  <2> HIDE DEF n
  <2>3. v \in [Kinds -> 0..MaxUsed]
    BY <2>1, <2>2
  <2> HIDE DEF v
  <2>4. /\ u \in Tasks /\ u.status = t.status /\ u.attempts = t.attempts /\ u.contract = t.contract
        /\ u.outcome = t.outcome /\ u.ops = t.ops /\ u.verdict = t.verdict /\ u.suite = t.suite
    BY <1>1, <2>3, NewUsed
  <2>5. work' = [work EXCEPT ![r] = u]
    <3>1. work' = [work EXCEPT ![r] = [t EXCEPT !.used[k] = @ + 1]]
      BY <1>5 DEF Use, Patched
    <3> QED BY <3>1 DEF v, n
  <2>6. t.status # "absent"
    <3>1. a \in 1..MaxAttempts /\ a = t.attempts
      BY <1>1, Still DEF Use
    <3>2. t.attempts # 0
      BY <3>1, BudgetsAssumption
    <3> QED BY <1>1, <3>2 DEF SoundAt, Sound, OfRevision, Fresh
  <2> HIDE DEF u
  <2>7. eval' = [eval EXCEPT ![r] = eval[r]] /\ eval[r] \in Evals /\ Len(t.ops) <= MaxTools
    BY <1>1, <1>2, Still
  <2>8. OneOwner(u) /\ Proved(TRUE, u, eval[r])
    BY <1>1, <1>5, <2>4 DEF SoundAt, Sound, OneOwner, Proved, Passed
  <2>9. reap # "no" => eval[r].stage \in {"no", "settle"}
    BY <1>1, <1>5 DEF SoundAt, Sound, Reaping
  <2>10. Carries(r, u, eval[r])
    BY <1>2, <1>3, <2>4, Carried
  <2>11. Amends(r, u, eval[r])
    BY <1>1, <1>2, <1>5, <2>4, <2>5, <2>6, <2>7, <2>8, <2>9, <2>10 DEF Amends
  <2> QED BY <1>3, <2>11, AmendingGoes
<1> QED BY <1>4, <1>5

\* Operation i becomes op.
OpAt(t, i, op) == [t EXCEPT !.ops[i] = op]

\* An operation that keeps who began it and what it is changes no owner.
LEMMA NewOpAt ==
  ASSUME NEW t \in Tasks, NEW i \in DOMAIN t.ops, NEW op \in Ops,
         op.by = t.ops[i].by, op.sig = t.ops[i].sig
  PROVE  LET u == OpAt(t, i, op) IN
         /\ u \in Tasks /\ u.status = t.status /\ u.attempts = t.attempts /\ u.contract = t.contract
         /\ u.outcome = t.outcome /\ u.verdict = t.verdict /\ u.suite = t.suite
         /\ DOMAIN u.ops = DOMAIN t.ops /\ Len(u.ops) = Len(t.ops)
         /\ u.ops[i] = op /\ \A j \in DOMAIN t.ops : j # i => u.ops[j] = t.ops[j]
         /\ OneOwner(t) => OneOwner(u)
<1> DEFINE s == [t.ops EXCEPT ![i] = op]
           u == [t EXCEPT !.ops = s]
<1>1. t.ops \in Seq(Ops)
  BY TasksAre
<1>2. /\ s \in Seq(Ops) /\ Len(s) = Len(t.ops) /\ DOMAIN s = DOMAIN t.ops
      /\ \A j \in DOMAIN t.ops : s[j].by = t.ops[j].by /\ s[j].sig = t.ops[j].sig
      /\ s[i] = op /\ \A j \in DOMAIN t.ops : j # i => s[j] = t.ops[j]
  BY <1>1
<1>3. OpAt(t, i, op) = u
  BY DEF OpAt
<1> HIDE DEF s
<1>4. u = [t EXCEPT !.ops = s]
  OBVIOUS
<1> HIDE DEF u
<1>5. /\ u \in Tasks /\ u.status = t.status /\ u.attempts = t.attempts /\ u.contract = t.contract
      /\ u.outcome = t.outcome /\ u.verdict = t.verdict /\ u.suite = t.suite /\ u.ops = s
  BY <1>2, <1>4, NewOps
<1>6. OneOwner(t) => OneOwner(u)
  BY <1>2, <1>5, OwnersKept
<1> QED BY <1>2, <1>3, <1>5, <1>6

\* A tool returns (finishTaskOperation).
LEMMA FinishStep ==
  ASSUME TaskInv, NEW x \in live, Finish(x) PROVE Goal
<1> DEFINE r == x[1]
           t == work[r]
           i == x[2]
<1>1. /\ TypeOK /\ r \in Revs /\ i \in DOMAIN t.ops
  BY DEF TaskInv, Typed, TypeOK
<1>2. Typed /\ SoundAt(r) /\ t \in Tasks /\ t.ops \in Seq(Ops) /\ disk \in {"old", "new", "ext"}
  BY <1>1, Facts, Still, TasksAre
<1>3. /\ rev' = rev /\ here' = here /\ done' = done /\ disk' = disk /\ reap' = reap
      /\ settle' = settle /\ recover' = recover /\ publishing' = publishing /\ eval' = eval
      /\ armed' = armed /\ launch' = launch /\ stops' = stops /\ stray' = stray
           /\ slipped' = slipped
           /\ trouble' = trouble
      /\ live' = live \ {x}
  BY DEF Finish, process, retries, history
<1>4. Calm
  BY <1>1, <1>3, Facts, BoundsAssumption DEF Calm, Files
<1>5. CASE r # rev
  <2>1. work' = work
    BY <1>5 DEF Finish, Patched
  <2>2. launch' = [launch EXCEPT ![r] = launch[r]] /\ launch[r] \in [1..Slots -> Launches]
    BY <1>1, <1>2, <1>3, Still
  <2>3. Rests(r, eval[r], launch[r])
    BY <1>1, <1>2, <1>3, <1>5, <2>1, <2>2, Still, RestsIn DEF Rests
  <2> QED BY <1>1, <1>4, <2>3, RestingGoes
<1>6. CASE r = rev
  <2>1. PICK op \in Ops : /\ work' = [work EXCEPT ![r] = OpAt(t, i, op)]
                          /\ op.by = t.ops[i].by /\ op.sig = t.ops[i].sig
                          /\ op.rec = t.ops[i].rec
    <3>1. PICK ok \in BOOLEAN : work' = Patched(r, [t EXCEPT !.ops[i] =
            [t.ops[i] EXCEPT !.status = "completed", !.ok = ok,
                             !.guard = IF t.ops[i].sig = "write" /\ ok THEN disk ELSE "none"]])
      BY DEF Finish
    <3> DEFINE op == [t.ops[i] EXCEPT !.status = "completed", !.ok = ok,
                             !.guard = IF t.ops[i].sig = "write" /\ ok THEN disk ELSE "none"]
    <3>2. t.ops[i] \in Ops
      BY <1>1, <1>2
    <3>3. op \in Ops /\ op.by = t.ops[i].by /\ op.sig = t.ops[i].sig /\ op.rec = t.ops[i].rec
      BY <1>2, <3>2 DEF Ops
    <3>4. work' = [work EXCEPT ![r] = OpAt(t, i, op)]
      BY <1>6, <3>1 DEF Patched, OpAt
    <3> QED BY <3>3, <3>4
  <2> DEFINE u == OpAt(t, i, op)
  <2>2. /\ u \in Tasks /\ u.status = t.status /\ u.attempts = t.attempts /\ u.contract = t.contract
        /\ u.outcome = t.outcome /\ u.verdict = t.verdict /\ u.suite = t.suite
        /\ DOMAIN u.ops = DOMAIN t.ops /\ Len(u.ops) = Len(t.ops) /\ OneOwner(u)
        /\ u.ops[i] = op /\ \A j \in DOMAIN t.ops : j # i => u.ops[j] = t.ops[j]
    <3>1. OneOwner(t)
      BY <1>2 DEF SoundAt, Sound
    <3> HIDE DEF t, i
    <3> QED BY <1>1, <1>2, <2>1, <3>1, NewOpAt
  <2>3. work' = [work EXCEPT ![r] = u]
    BY <2>1
  <2> HIDE DEF u
  <2>4. eval' = [eval EXCEPT ![r] = eval[r]] /\ eval[r] \in Evals /\ Len(t.ops) <= MaxTools
    BY <1>1, <1>2, <1>3, Still
  <2>5. Proved(TRUE, u, eval[r])
    BY <1>2, <1>6, <2>2 DEF SoundAt, Sound, Proved, Passed
  <2>6. reap # "no" => eval[r].stage \in {"no", "settle"}
    BY <1>2, <1>6 DEF SoundAt, Sound, Reaping
  <2>7. t.status # "absent"
    BY <1>1, <1>2 DEF SoundAt, Sound, OfRevision, Fresh
  <2>8. Carries(r, u, eval[r])
    <3>1. \A y \in live' : IF y[1] = r THEN Open(u.ops[y[2]]) ELSE y \in live
      <4> SUFFICES ASSUME NEW y \in live, y # x, y[1] = r PROVE Open(u.ops[y[2]])
        BY <1>3
      <4>1. Open(t.ops[y[2]]) /\ y[2] \in DOMAIN t.ops /\ Open(t.ops[i])
        BY <1>1, Facts DEF TypeOK
      <4>2. y[2] # i
        <5>1. x = <<r, i>> /\ y = <<y[1], y[2]>>
          BY <1>1, Facts
        <5> QED BY <5>1
      <4> QED BY <2>2, <4>1, <4>2
    <3>2. ASSUME ~stray', eval[r].stage = "publish" PROVE Established(u, eval[r], Files(r)')
      <4>1. Established(t, eval[r], Files(r)) /\ Files(r)' = Files(r)
        BY <1>1, <1>3, <1>6, <3>2, Facts DEF Publishable, Files
      <4>2. Open(t.ops[i])
        BY <1>1, Facts
      <4>3. Mutates(op) => op.rec
        BY <1>1, <2>1, <4>1, <4>2 DEF Established, Settled, Open, Succeeded, Mutates
      <4>4. Settled(u)
        BY <2>2, <4>1, <4>3 DEF Established, Settled
      <4> QED BY <2>2, <4>1, <4>4 DEF Established
    <3> QED BY <1>3, <3>1, <3>2 DEF Carries
  <2>9. Amends(r, u, eval[r])
    BY <1>2, <1>3, <1>6, <2>2, <2>3, <2>4, <2>5, <2>6, <2>7, <2>8 DEF Amends
  <2> QED BY <1>1, <1>4, <2>9, AmendingGoes
<1> QED BY <1>5, <1>6

\* An operation begins: no other attempt has begun the same one
\* (beginTaskOperation).
LEMMA BeginStep ==
  ASSUME TaskInv, NEW r \in Revs, NEW a \in here[r], NEW sig \in Sigs, Begin(r, a, sig) PROVE Goal
<1> DEFINE t == work[r]
           op == [by |-> a, sig |-> sig, status |-> "pending", ok |-> FALSE, guard |-> "none",
                  rec |-> FALSE]
           n == Len(t.ops)
           s == Append(t.ops, op)
           u == [t EXCEPT !.ops = s]
<1>1. /\ Typed /\ SoundAt(r) /\ t \in Tasks /\ t.ops \in Seq(Ops) /\ r = rev /\ reap = "no"
      /\ t.status = "running" /\ n < MaxTools /\ Prior(t, a, sig) = {}
  BY Facts, Still, TasksAre DEF Begin, Cleared
<1>2. /\ rev' = rev /\ here' = here /\ done' = done /\ disk' = disk /\ reap' = reap
      /\ settle' = settle /\ recover' = recover /\ publishing' = publishing /\ eval' = eval
      /\ armed' = armed /\ launch' = launch /\ stops' = stops /\ stray' = stray
           /\ slipped' = slipped
           /\ trouble' = trouble
      /\ live' = live \cup {<<r, n + 1>>}
  BY DEF Begin, process, retries, history
<1>3. Calm
  BY <1>1, <1>2, Facts, BoundsAssumption DEF Calm, Files
<1>4. op \in Ops /\ op.by = a /\ op.sig = sig
  BY <1>1, Still, SigsAssumption DEF Ops
<1>5. work' = [work EXCEPT ![r] = u]
  BY DEF Begin
<1>6. n \in Nat /\ DOMAIN t.ops = 1..n
  BY <1>1
<1>7. t.ops \in Seq(Ops)
  BY <1>1
<1>8. OneOwner(t)
  BY <1>1 DEF SoundAt, Sound
<1>9. \A i \in DOMAIN t.ops : t.ops[i].sig = sig /\ Mutates(t.ops[i]) => t.ops[i].by = a
  BY <1>1 DEF Prior
<1> HIDE DEF op
<1>10. /\ s \in Seq(Ops) /\ Len(s) = n + 1 /\ DOMAIN s = 1..(n + 1) /\ s[n + 1] = op
       /\ \A i \in 1..n : s[i] = t.ops[i]
  <2> HIDE DEF t
  <2> QED BY <1>4, <1>7
<1> HIDE DEF s
<1>11. /\ u \in Tasks /\ u.status = t.status /\ u.attempts = t.attempts /\ u.contract = t.contract
       /\ u.outcome = t.outcome /\ u.verdict = t.verdict /\ u.suite = t.suite /\ u.ops = s
  BY <1>1, <1>10, NewOps
<1> HIDE DEF u
<1>12. OneOwner(u)
  <2>1. \A i \in 1..(n + 1) : i \in 1..n \/ i = n + 1
    BY <1>6
  <2> SUFFICES ASSUME NEW i \in 1..(n + 1), NEW j \in 1..(n + 1), s[i].sig = s[j].sig, Mutates(s[i])
               PROVE  s[i].by = s[j].by
    BY <1>10, <1>11 DEF OneOwner
  <2>2. Mutates(s[j]) /\ Mutates(s[i])
    BY DEF Mutates
  <2>3. CASE i \in 1..n /\ j \in 1..n
    BY <1>6, <1>8, <1>10, <2>2, <2>3 DEF OneOwner
  <2>4. CASE i = n + 1 /\ j \in 1..n
    BY <1>4, <1>6, <1>9, <1>10, <2>2, <2>4
  <2>5. CASE i \in 1..n /\ j = n + 1
    BY <1>4, <1>6, <1>9, <1>10, <2>2, <2>5
  <2> QED BY <2>1, <2>3, <2>4, <2>5
<1>13. eval' = [eval EXCEPT ![r] = eval[r]] /\ eval[r] \in Evals
  BY <1>1, <1>2, Still
<1>14. Proved(TRUE, u, eval[r])
  BY <1>1, <1>11 DEF SoundAt, Sound, Proved, Passed
<1>15. /\ Len(u.ops) <= MaxTools /\ DOMAIN t.ops \subseteq DOMAIN u.ops /\ n + 1 \in DOMAIN u.ops
  BY <1>1, <1>6, <1>10, <1>11, BudgetsAssumption
<1>16. \A x \in live' : x \in live \/ (x[1] = r /\ x[2] \in DOMAIN u.ops)
  BY <1>2, <1>15
<1>17. Carries(r, u, eval[r])
  <2>1. ~stray => eval[r].stage = "no"
    BY <1>1 DEF SoundAt, Sound, Undisturbed
  <2>2. Open(op)
    BY DEF op, Open
  <2>3. \A x \in live : x[1] = r => x[2] \in 1..n /\ Open(t.ops[x[2]])
    BY <1>1, <1>6, Facts DEF Typed, TypeOK
  <2> QED BY <1>2, <1>10, <1>11, <2>1, <2>2, <2>3 DEF Carries
<1>18. Amends(r, u, eval[r])
  BY <1>1, <1>2, <1>5, <1>11, <1>12, <1>13, <1>14, <1>15, <1>16, <1>17 DEF Amends
<1> QED BY <1>3, <1>18, AmendingGoes

\* The PM settles an operation or a suite that was in doubt (TaskReconcile).
LEMMA ReconcileTaskStep ==
  ASSUME TaskInv, NEW r \in Revs, ReconcileTask(r) PROVE Goal
<1> DEFINE t == work[r]
<1>1. /\ Typed /\ SoundAt(r) /\ t \in Tasks /\ r = rev /\ t.status = "blocked"
      /\ reap = "no" /\ trouble < MaxTrouble /\ trouble' = trouble + 1
  BY Facts, Still DEF ReconcileTask, MayControl, Troubled, Cleared
<1>2. /\ rev' = rev /\ here' = here /\ live' = live /\ done' = done /\ disk' = disk /\ reap' = reap
      /\ settle' = settle /\ recover' = recover /\ publishing' = publishing /\ eval' = eval
      /\ armed' = armed /\ launch' = launch /\ stops' = stops /\ stray' = stray
           /\ slipped' = slipped
  BY DEF ReconcileTask, process, effects, retries, history
<1>3. Calm
  BY <1>1, <1>2, Facts, BoundsAssumption DEF Calm, Files
<1>4. eval' = [eval EXCEPT ![r] = eval[r]] /\ eval[r] \in Evals /\ Len(t.ops) <= MaxTools
  BY <1>1, <1>2, Still
<1>5. OneOwner(t) /\ t.ops \in Seq(Ops) /\ disk \in {"old", "new", "ext"}
  BY <1>1, TasksAre, Facts DEF SoundAt, Sound
<1>6. ASSUME NEW u \in Tasks, work' = [work EXCEPT ![r] = u], OneOwner(u), Proved(TRUE, u, eval[r]),
             u.status = t.status /\ u.attempts = t.attempts /\ u.outcome = t.outcome,
             DOMAIN u.ops = DOMAIN t.ops /\ Len(u.ops) = Len(t.ops),
             \A i \in DOMAIN t.ops : Open(t.ops[i]) => Open(u.ops[i])
      PROVE  Goal
  <2>1. ~stray => eval[r].stage = "no"
    BY <1>1, SlotUndisturbed
  <2>2. \A x \in live : x[1] = r => Open(u.ops[x[2]])
    BY <1>1, <1>6, Facts DEF Typed, TypeOK
  <2>3. Carries(r, u, eval[r])
    BY <1>2, <2>1, <2>2 DEF Carries
  <2>4. Amends(r, u, eval[r])
    BY <1>1, <1>2, <1>4, <1>6, <2>3 DEF Amends
  <2> QED BY <1>3, <2>4, AmendingGoes
<1>7. ASSUME NEW i \in DOMAIN t.ops, NEW op,
             op = [t.ops[i] EXCEPT !.status = "completed", !.ok = TRUE,
               !.rec = TRUE, !.guard = IF t.ops[i].sig = "write" THEN disk ELSE "none"],
             work' = [work EXCEPT ![r].ops[i] = op]
      PROVE  Goal
  <2>1. t.ops[i] \in Ops
    BY <1>5
  <2>2. op \in Ops /\ op.by = t.ops[i].by /\ op.sig = t.ops[i].sig /\ op.rec
    BY <1>5, <1>7, <2>1 DEF Ops
  <2> DEFINE u == OpAt(t, i, op)
  <2>3. work' = [work EXCEPT ![r] = u]
    BY <1>7 DEF OpAt
  <2>4. /\ u \in Tasks /\ u.status = t.status /\ u.attempts = t.attempts /\ u.contract = t.contract
        /\ u.outcome = t.outcome /\ u.verdict = t.verdict /\ u.suite = t.suite
        /\ DOMAIN u.ops = DOMAIN t.ops /\ Len(u.ops) = Len(t.ops) /\ OneOwner(u)
        /\ u.ops[i] = op /\ \A j \in DOMAIN t.ops : j # i => u.ops[j] = t.ops[j]
    <3>1. i \in DOMAIN t.ops
      OBVIOUS
    <3> HIDE DEF t
    <3> QED BY <1>1, <1>5, <2>2, <3>1, NewOpAt
  <2> HIDE DEF u
  <2>5. Proved(TRUE, u, eval[r])
    BY <1>1, <2>4 DEF SoundAt, Sound, Proved, Passed
  <2>6. \A j \in DOMAIN t.ops : Open(t.ops[j]) => Open(u.ops[j])
    BY <2>2, <2>4 DEF Open
  <2> QED BY <1>6, <2>3, <2>4, <2>5, <2>6
<1>8. ASSUME NEW a \in 1..MaxAttempts, t.suite[a] = "uncertain",
             work' = [work EXCEPT ![r].suite[a] = "failed"]
      PROVE  Goal
  <2> DEFINE u == SuiteSet(t, a, "failed")
  <2>1. work' = [work EXCEPT ![r] = u]
    BY <1>8 DEF SuiteSet
  <2>2. /\ u \in Tasks /\ u.status = t.status /\ u.contract = t.contract /\ u.attempts = t.attempts
        /\ u.outcome = t.outcome /\ u.ops = t.ops /\ u.verdict = t.verdict
        /\ u.suite[a] = "failed" /\ \A b \in 1..MaxAttempts : b # a => u.suite[b] = t.suite[b]
    <3>1. "failed" \in Answers
      BY DEF Answers
    <3> HIDE DEF t
    <3> QED BY <1>1, <3>1, NewVerdictOf
  <2> HIDE DEF u
  <2>3. /\ Passed(t) => Passed(u)
        /\ eval[r].of \in 1..MaxAttempts => \A k \in {"pending", "passed"} :
             t.suite[eval[r].of] = k => u.suite[eval[r].of] = k
    BY <1>8, <2>2 DEF Passed
  <2>4. OneOwner(u)
    BY <1>5, <2>2 DEF OneOwner
  <2>5. Proved(TRUE, u, eval[r])
    BY <1>1, <2>2, <2>3 DEF SoundAt, Sound, Proved, OfRevision
  <2> QED BY <1>6, <2>1, <2>2, <2>4, <2>5
<1> QED BY <1>7, <1>8 DEF ReconcileTask

\* A step that records the stop of the worker and asks for an evaluation.
Ends(r, t, st) ==
  /\ r = rev /\ StoppedLike(work[r], t) /\ t.suite = work[r].suite
  /\ Queue(r, t) /\ t.outcome # NoOutcome /\ t.attempts \in 1..MaxAttempts
  /\ st \in SUBSET Stops /\ stops' = [stops EXCEPT ![r] = st] /\ StopKnown(t, st)
  /\ ~stray => StopSeen(t, eval[r], st)
  /\ stray' = stray /\ here' = here /\ live' = live /\ done' = done /\ settle' = settle
  /\ publishing' = publishing /\ launch' = launch

\* Such a step does what is needed.
LEMMA EndingGoes ==
  ASSUME TaskInv, NEW r \in Revs, Calm, NEW t, NEW st, Ends(r, t, st)
  PROVE  Goal
<1>1. /\ Typed /\ SoundAt(r) /\ work[r] \in Tasks /\ r = rev /\ rev \in Nat
      /\ Len(work[r].ops) <= MaxTools
  BY Facts, Still DEF Ends
<1>2. /\ t \in Tasks /\ t.contract = work[r].contract /\ t.attempts = work[r].attempts
      /\ t.status = work[r].status /\ t.verdict = work[r].verdict
      /\ Len(t.ops) = Len(work[r].ops) /\ DOMAIN t.ops = DOMAIN work[r].ops
           /\ t.suite = work[r].suite
      /\ t.outcome # NoOutcome /\ t.attempts \in 1..MaxAttempts
  BY DEF Ends, StoppedLike
<1>3. OneOwner(t)
  BY <1>1, OwnersKept DEF SoundAt, Sound, Ends, StoppedLike
<1>4. t.status # "absent" /\ t.status # "superseded"
  BY <1>1, <1>2, BudgetsAssumption DEF SoundAt, Sound, OfRevision, Fresh
<1>5. PICK u \in Tasks, e \in Evals :
        /\ work' = [work EXCEPT ![r] = u] /\ eval' = [eval EXCEPT ![r] = e]
        /\ Restated(t, u) /\ u.verdict = t.verdict
        /\ \/ u.status = t.status /\ e = eval[r]
           \/ /\ u.status = "evaluating" /\ t.status \in {"running", "evaluating"}
              /\ e.stage = "settle" /\ e.of = t.attempts /\ e.saw = t.outcome
  <2>1. CASE eval[r].stage = "no" /\ t.status \in {"running", "evaluating"}
    <3> DEFINE u == [t EXCEPT !.status = "evaluating"]
               e == [NoEval EXCEPT !.stage = "settle", !.of = t.attempts, !.saw = t.outcome]
    <3>1. Restated(t, u) /\ u.status = "evaluating" /\ u.verdict = t.verdict
      BY <1>2, StatusRestates DEF Statuses
    <3>2. work' = [work EXCEPT ![r] = u] /\ eval' = [eval EXCEPT ![r] = e]
      BY <1>1, <2>1 DEF Ends, Queue, Patched
    <3>3. t.outcome \in Reports /\ t.attempts \in 0..MaxAttempts
      BY <1>2, TasksAre
    <3>4. e \in Evals /\ e.stage = "settle" /\ e.of = t.attempts /\ e.saw = t.outcome
      BY <3>3 DEF NoEval, Evals
    <3> HIDE DEF u, e
    <3> QED BY <2>1, <3>1, <3>2, <3>4 DEF Restated
  <2>2. CASE ~(eval[r].stage = "no" /\ t.status \in {"running", "evaluating"})
    <3>1. work' = [work EXCEPT ![r] = t] /\ eval' = eval
      BY <1>1, <2>2 DEF Ends, Queue, Patched
    <3>2. eval' = [eval EXCEPT ![r] = eval[r]] /\ eval[r] \in Evals
      BY <1>1, <3>1, Still
    <3> QED BY <1>2, <3>1, <3>2 DEF Restated
  <2> QED BY <2>1, <2>2
<1>6. /\ u.attempts = t.attempts /\ u.ops = t.ops /\ u.suite = t.suite /\ u.outcome = t.outcome
      /\ u.contract = t.contract
  BY <1>5 DEF Restated
<1>7. Row(r, u, e, here[r], launch[r], st)
  <2>1. /\ here' = [here EXCEPT ![r] = here[r]] /\ launch' = [launch EXCEPT ![r] = launch[r]]
        /\ launch[r] \in [1..Slots -> Launches] /\ here[r] \in SUBSET (1..MaxAttempts)
    BY Still, <1>1 DEF Ends
  <2>2. Len(u.ops) <= MaxTools /\ DOMAIN work[r].ops \subseteq DOMAIN u.ops
    BY <1>1, <1>2, <1>6
  <2> QED BY <1>5, <2>1, <2>2 DEF Row, Ends
<1>8. Sound(r, rev, stray', reap, u, e, here[r], launch[r], st)
  <2>1. OneOwner(u)
    BY <1>3, <1>6 DEF OneOwner
  <2>2. OfRevision(r, rev, u, e)
    BY <1>1, <1>2, <1>4, <1>5, <1>6 DEF SoundAt, Sound, OfRevision
  <2>3. Proved(r = rev, u, e)
    <3>1. Passed(u) = Passed(work[r])
      BY <1>2, <1>6 DEF Passed
    <3> QED BY <3>1, <1>1, <1>2, <1>5, <1>6 DEF SoundAt, Sound, Proved
  <2>4. StopKnown(u, st)
    BY <1>6 DEF StopKnown, Ends
  <2>5. ~stray' => Undisturbed(u, e, here[r])
    BY <1>1, <1>2, <1>5, <1>6 DEF SoundAt, Sound, Undisturbed, Ends
  <2>6. ~stray' => StopSeen(u, e, st)
    BY <1>5, <1>6 DEF StopKnown, StopSeen, Ends
  <2>7. reap # "no" => Reaping(u, e, launch[r])
    BY <1>1, <1>2, <1>5 DEF SoundAt, Sound, Reaping
  <2>8. Ahead(r, rev, u, launch[r])
    BY <1>1 DEF Ahead
  <2> QED BY <2>1, <2>2, <2>3, <2>4, <2>5, <2>6, <2>7, <2>8 DEF Sound
<1>9. ASSUME work'[r] = u PROVE StepOk(r)
  <2>1. ~(u.attempts > work[r].attempts)
    BY <1>1, <1>2, <1>6, TasksAre, BudgetsAssumption
  <2> QED BY <1>2, <1>4, <1>5, <1>9, <2>1
             DEF StepOk, FinalStays, StopOfRunningIsFinal, AutomaticRetry
<1>10. Publishes(r, u)
  BY <1>1, <1>2, <1>5, Facts DEF Publishes, PublishingIs, Ends
<1>11. Carries(r, u, e)
  <2>1. /\ \A i \in DOMAIN work[r].ops : Open(work[r].ops[i]) => Open(t.ops[i])
        /\ Settled(work[r]) => Settled(t)
    BY StoppedCarries DEF Ends
  <2>2. \A x \in live' : IF x[1] = r THEN Open(u.ops[x[2]]) ELSE x \in live
    BY <1>1, <1>6, <2>1, Facts DEF Ends, Typed, TypeOK
  <2>3. ASSUME ~stray', e.stage = "publish" PROVE Established(u, e, Files(r)')
    <3>1. e = eval[r] /\ ~stray
      BY <1>5, <2>3 DEF Ends
    <3>2. Established(work[r], e, Files(r)) /\ (Files(r) => Files(r)')
      BY <1>1, <2>3, <3>1, Facts DEF Publishable, Calm
    <3>3. Settled(u)
      BY <1>6, <2>1, <3>2 DEF Established, Settled
    <3> QED BY <1>2, <1>6, <3>2, <3>3 DEF Established
  <2>4. live' = live
    BY <1>5 DEF Ends
  <2> QED BY <2>2, <2>3, <2>4 DEF Carries
<1> QED BY <1>7, <1>8, <1>9, <1>10, <1>11, Moves

\* The worker reports its end.
LEMMA WorkerDoneStep ==
  ASSUME TaskInv, NEW r \in Revs, NEW outcome \in Outcomes, WorkerDone(r, outcome) PROVE Goal
<1> DEFINE t == Stopped(work[r], outcome)
<1>1. /\ Typed /\ SoundAt(r) /\ work[r] \in Tasks /\ r = rev /\ work[r].outcome = NoOutcome
      /\ work[r].attempts \in 1..MaxAttempts /\ stops[r] \in SUBSET Stops
  BY Facts, Still DEF WorkerDone
<1>2. /\ rev' = rev /\ here' = here /\ live' = live /\ done' = done /\ disk' = disk /\ reap' = reap
      /\ settle' = settle /\ recover' = recover /\ publishing' = publishing
      /\ armed' = armed /\ launch' = launch /\ stops' = stops /\ stray' = stray
           /\ slipped' = slipped
           /\ trouble' = trouble
      /\ Queue(r, t)
  BY DEF WorkerDone, process, effects, retries, history
<1>3. Calm
  BY <1>1, <1>2, Facts, BoundsAssumption DEF Calm, Files
<1>4. outcome \in Reports /\ outcome # NoOutcome
  <2>1. outcome.why # "none"
    BY DEF Outcomes
  <2>2. NoOutcome.why = "none"
    BY DEF NoOutcome
  <2>3. /\ [why |-> "success", left |-> FALSE] \in Reports
        /\ [why |-> "success", left |-> TRUE] \in Reports
        /\ [why |-> "transient", left |-> FALSE] \in Reports
        /\ [why |-> "unfinished", left |-> TRUE] \in Reports
    BY DEF Reports
  <2>4. outcome \in Reports
    BY <2>3 DEF Outcomes
  <2> QED BY <2>1, <2>2, <2>4
<1>5. StoppedLike(work[r], t) /\ t.outcome = outcome /\ t.suite = work[r].suite
  BY <1>1, <1>4, StoppedIs
<1> HIDE DEF t
<1>6. t.attempts = work[r].attempts
  BY <1>5 DEF StoppedLike
<1>7. <<t.attempts, "running">> \notin stops[r]
  BY <1>1, <1>6 DEF SoundAt, Sound, StopKnown, NoOutcome
<1>8. StopKnown(t, stops[r]) /\ StopSeen(t, eval[r], stops[r])
  BY <1>1, <1>6, <1>7 DEF SoundAt, Sound, StopKnown, StopSeen
<1>9. stops' = [stops EXCEPT ![r] = stops[r]]
  BY <1>1, <1>2, Still
<1>10. Ends(r, t, stops[r])
  BY <1>1, <1>2, <1>4, <1>5, <1>6, <1>8, <1>9 DEF Ends
<1> QED BY <1>3, <1>10, EndingGoes

\* The user stops the worker.
LEMMA UserStopStep ==
  ASSUME TaskInv, NEW r \in Revs, UserStop(r) PROVE Goal
<1>1. /\ Typed /\ SoundAt(r) /\ work[r] \in Tasks /\ r = rev /\ stops[r] \in SUBSET Stops
      /\ work[r].status \in {"running", "evaluating"} /\ here[r] \in SUBSET (1..MaxAttempts)
      /\ trouble < MaxTrouble /\ trouble' = trouble + 1
  BY Facts, Still DEF UserStop, Troubled
<1>2. work[r].attempts \in 1..MaxAttempts
  BY <1>1 DEF UserStop, SoundAt, Sound, OfRevision
<1>3. PICK left \in BOOLEAN : Queue(r, Stopped(work[r], [why |-> "stop", left |-> left]))
  BY DEF UserStop
<1> DEFINE outcome == [why |-> "stop", left |-> left]
           t == Stopped(work[r], outcome)
           stop == <<work[r].attempts, work[r].status>>
           st == stops[r] \cup {stop}
<1>4. /\ rev' = rev /\ here' = here /\ live' = live /\ done' = done /\ disk' = disk /\ reap' = reap
      /\ settle' = settle /\ recover' = recover /\ publishing' = publishing
      /\ armed' = armed /\ launch' = launch /\ stray' = stray /\ slipped' = slipped
      /\ stops' = [stops EXCEPT ![r] = st]
  BY DEF UserStop, process, effects, retries
<1>5. Calm
  BY <1>1, <1>4, Facts, BoundsAssumption DEF Calm, Files
<1>6. outcome \in Reports /\ outcome # NoOutcome /\ outcome.why = "stop"
  BY DEF Reports, NoOutcome
<1>7. stop \in Stops /\ st \in SUBSET Stops
  BY <1>1, <1>2 DEF Stops
<1>8. Queue(r, t)
  BY <1>3
<1> HIDE DEF outcome
<1>9. StoppedLike(work[r], t) /\ t.outcome = outcome /\ t.suite = work[r].suite
  BY <1>1, <1>6, StoppedIs
<1> HIDE DEF t
<1>10. t.attempts = work[r].attempts
  BY <1>9 DEF StoppedLike
<1>11. StopKnown(t, st)
  BY <1>1, <1>2, <1>6, <1>9, <1>10 DEF SoundAt, Sound, StopKnown
<1>12. ASSUME ~stray PROVE StopSeen(t, eval[r], st)
  <2>1. SUFFICES ASSUME <<t.attempts, "running">> \in st, eval[r].stage # "no"
                 PROVE  eval[r].saw.why = "stop"
    BY DEF StopSeen
  <2>2. work[r].status = "evaluating"
    BY <1>1, <1>12, <2>1 DEF SoundAt, Sound, Undisturbed
  <2>3. <<work[r].attempts, "running">> \in stops[r]
    BY <1>10, <2>1, <2>2
  <2> QED BY <1>1, <1>12, <2>1, <2>3 DEF SoundAt, Sound, StopSeen
<1> HIDE DEF st
<1>13. Ends(r, t, st)
  BY <1>1, <1>2, <1>4, <1>6, <1>7, <1>8, <1>9, <1>10, <1>11, <1>12 DEF Ends
<1> QED BY <1>5, <1>13, EndingGoes

\* After a restart (recoverTasks) the stops are evaluated that were not.
LEMMA RecoverTasksStep ==
  ASSUME TaskInv, RecoverTasks PROVE Goal
<1> DEFINE r == rev
           t == work[r]
<1>1. /\ r \in Revs /\ TypeOK
  BY DEF TaskInv, Typed, TypeOK
<1>2. Typed /\ SoundAt(r) /\ t \in Tasks /\ stops[r] \in SUBSET Stops
  BY <1>1, Facts, Still
<1>3. /\ rev' = rev /\ here' = here /\ live' = live /\ done' = done /\ disk' = disk /\ reap' = reap
      /\ settle' = settle /\ publishing' = publishing /\ recover' = FALSE
      /\ launch' = launch /\ stray' = stray /\ slipped' = slipped /\ stops' = stops
           /\ trouble' = trouble
  BY DEF RecoverTasks, effects, history
<1>4. armed' \subseteq Revs
  BY <1>1, Facts DEF RecoverTasks, ArmIfWaiting
<1>5. Calm
  BY <1>1, <1>3, <1>4, Facts DEF Calm, Files
<1>6. launch' = [launch EXCEPT ![r] = launch[r]] /\ launch[r] \in [1..Slots -> Launches]
      /\ stops' = [stops EXCEPT ![r] = stops[r]]
  BY <1>1, <1>2, <1>3, Still
<1>7. CASE work' = work /\ eval' = eval
  <2>1. Rests(r, eval[r], launch[r])
    BY <1>1, <1>2, <1>3, <1>6, <1>7, Still, RestsIn DEF Rests
  <2> QED BY <1>1, <1>5, <2>1, RestingGoes
<1>8. CASE /\ t.status \in {"running", "evaluating"} /\ t.outcome = NoOutcome
           /\ t.attempts \notin here[rev] /\ work' = [work EXCEPT ![rev].status = "blocked"]
                /\ eval' = eval
  <2>1. ~stray => eval[r].stage = "no"
    BY <1>2, <1>8 DEF SoundAt, Sound, Undisturbed, OfRevision
  <2>2. ~stray => r \notin publishing
    BY <1>1, <1>2, <1>8, Facts DEF PublishingIs
  <2>3. work' = [work EXCEPT ![r] = [t EXCEPT !.status = "blocked"]]
    BY <1>8
  <2>4. Closes(r, "blocked", launch[r])
    BY <1>1, <1>3, <1>6, <1>8, <2>1, <2>2, <2>3 DEF Closes
  <2> QED BY <1>1, <1>5, <2>4, ClosingGoes
<1>9. CASE /\ t.status \in {"running", "evaluating"} /\ t.outcome # NoOutcome /\ Queue(r, t)
  <2>1. t.attempts \in 1..MaxAttempts
    BY <1>2, <1>9 DEF SoundAt, Sound, OfRevision
  <2>2. StopKnown(t, stops[r]) /\ (~stray => StopSeen(t, eval[r], stops[r]))
    BY <1>2 DEF SoundAt, Sound
  <2>3. StoppedLike(t, t)
    BY <1>2 DEF StoppedLike, OpLike
  <2>4. Ends(r, t, stops[r])
    BY <1>2, <1>3, <1>6, <1>9, <2>1, <2>2, <2>3 DEF Ends
  <2> QED BY <1>1, <1>5, <2>4, EndingGoes
<1>10. CASE t.status \notin {"running", "evaluating"} /\ Queue(r, t)
  <2>1. work' = work /\ eval' = eval
    BY <1>1, <1>2, <1>10, Still DEF Queue, Patched
  <2> QED BY <1>7, <2>1
<1> QED BY <1>7, <1>8, <1>9, <1>10 DEF RecoverTasks, Interrupted

\* Once the orphans are gone, or known to stay, less is asked.
LEMMA ReapingGoes ==
  ASSUME TaskInv, rev' = rev, work' = work, here' = here, live' \subseteq live, done' = done,
         disk' = disk, reap = "yes", reap' \in {"no", "failed"}, settle' = settle,
         recover' = recover, publishing' = publishing, eval' = eval, armed' = armed,
         launch' = launch, stops' = stops, stray' = stray, slipped' = slipped,
         trouble' \in 0..MaxTrouble
  PROVE  Goal
<1>1. Typed
  BY DEF TaskInv
<1>2. Typed'
  BY <1>1 DEF Typed, TypeOK
<1>3. PublishingIs'
  BY DEF TaskInv, PublishingIs
<1>4. ASSUME NEW q \in Revs PROVE SoundAt(q)'
  <2>1. Sound(q, rev, stray, reap, work[q], eval[q], here[q], launch[q], stops[q])
    BY DEF TaskInv, SoundAt
  <2>2. Sound(q, rev, stray, reap', work[q], eval[q], here[q], launch[q], stops[q])
    BY <2>1 DEF Sound
  <2> QED BY <2>2 DEF SoundAt
<1>5. \A q \in Revs : StepOk(q)
  BY <1>1, Unchanged
<1>6. OpenOps' /\ \A q \in Revs : Publishable(q)'
  BY DEF TaskInv, OpenOps, Publishable, Files
<1> QED BY <1>2, <1>3, <1>4, <1>5, <1>6 DEF Goal, TaskInv

\* recoverOrphanCommands ends.
LEMMA ReapStep ==
  ASSUME TaskInv, Reap \/ ReapFails PROVE Goal
<1>1. trouble \in 0..MaxTrouble
  BY DEF TaskInv, Typed, TypeOK
<1>2. CASE Reap
  BY <1>1, <1>2, ReapingGoes DEF Reap, retries, history
<1>3. CASE ReapFails
  <2>1. trouble' \in 0..MaxTrouble
    BY <1>1, <1>3, BoundsAssumption DEF ReapFails, Troubled
  <2> QED BY <1>3, <2>1, ReapingGoes DEF ReapFails, effects, retries, history
<1> QED BY <1>2, <1>3

\* Superseding a task keeps its operations, outcome and passing suites.
LEMMA SupersededIs ==
  ASSUME NEW t \in Tasks, t.status # "absent"
  PROVE  LET u == Superseded(t) IN
         /\ u \in Tasks /\ u.status = "superseded" /\ u.attempts = t.attempts
         /\ u.outcome = t.outcome /\ u.ops = t.ops /\ u.verdict = t.verdict
         /\ Passed(t) => Passed(u)
<1> DEFINE s == UnsureSuite(t.suite)
           v == [t EXCEPT !.status = "superseded"]
           u == [v EXCEPT !.suite = s]
<1>1. s \in Suites /\ \A a \in 1..MaxAttempts : (s[a] = "passed") <=> (t.suite[a] = "passed")
  BY UnsureSuiteIs, TasksAre
<1>2. /\ v \in Tasks /\ v.status = "superseded" /\ v.attempts = t.attempts
      /\ v.outcome = t.outcome /\ v.ops = t.ops /\ v.verdict = t.verdict
  BY NewStatus DEF Statuses
<1>3. /\ u \in Tasks /\ u.status = v.status /\ u.attempts = v.attempts
      /\ u.outcome = v.outcome /\ u.ops = v.ops /\ u.verdict = v.verdict /\ u.suite = s
  <2> HIDE DEF v, s
  <2> QED BY <1>1, <1>2, NewSuite
<1>4. Superseded(t) = u
  <2>1. Superseded(t) = [t EXCEPT !.status = "superseded", !.suite = s]
    BY DEF Superseded
  <2>2. [t EXCEPT !.status = "superseded", !.suite = s] = u
    BY Zenon
  <2> QED BY <2>1, <2>2, Zenon
<1> HIDE DEF s, v, u
<1>5. Passed(t) => Passed(u)
  BY <1>1, <1>3 DEF Passed
<1> QED BY <1>2, <1>3, <1>4, <1>5

\* The requirement changes: the current task is superseded, and the row of the
\* next revision becomes the current one.
LEMMA RequirementChangeStep ==
  ASSUME TaskInv, RequirementChange PROVE Goal
<1> DEFINE t == work[rev]
<1>1. /\ Typed /\ TypeOK /\ rev \in Revs /\ rev \in Nat /\ rev + 1 \in Revs /\ t \in Tasks
      /\ rev' = rev + 1 /\ trouble < MaxTrouble /\ trouble' = trouble + 1
      /\ work \in [Revs -> Tasks]
  <2>1. Typed /\ TypeOK /\ rev \in Revs /\ work \in [Revs -> Tasks]
    BY DEF TaskInv, Typed, TypeOK
  <2>2. rev < MaxRev /\ rev' = rev + 1 /\ trouble < MaxTrouble /\ trouble' = trouble + 1
    BY DEF RequirementChange, Troubled
  <2>3. rev \in Nat /\ rev + 1 \in Revs
    BY <2>1, <2>2, BoundsAssumption DEF Revs
  <2> QED BY <2>1, <2>2, <2>3
<1>2. /\ here' = here /\ live' = live /\ done' = done /\ disk' = disk /\ reap' = reap
      /\ recover' = recover /\ publishing' = publishing /\ eval' = eval
      /\ armed' = armed /\ launch' = launch /\ stops' = stops /\ stray' = stray
           /\ slipped' = slipped
      /\ settle' = settle \cup Affected(rev)
  BY DEF RequirementChange, effects, retries, history
<1>3. PICK u \in Tasks :
        /\ work' = [work EXCEPT ![rev] = u] /\ u.status \in {"absent", "superseded"}
        /\ u.attempts = t.attempts /\ u.outcome = t.outcome /\ u.ops = t.ops
        /\ u.verdict = t.verdict /\ (Passed(t) => Passed(u))
        /\ u.status = "absent" => u = t
        /\ u.status = "superseded" => t.status # "absent"
  <2> DEFINE u == Superseded(t)
  <2>1. work' = [work EXCEPT ![rev] = u]
    BY DEF RequirementChange
  <2>2. CASE t.status = "absent"
    <3>1. u = t
      BY <2>2 DEF Superseded
    <3> HIDE DEF u
    <3> QED BY <1>1, <2>1, <2>2, <3>1
  <2>3. CASE t.status # "absent"
    <3>1. /\ u \in Tasks /\ u.status = "superseded" /\ u.attempts = t.attempts
          /\ u.outcome = t.outcome /\ u.ops = t.ops /\ u.verdict = t.verdict
          /\ Passed(t) => Passed(u)
      BY <1>1, <2>3, SupersededIs
    <3> HIDE DEF u
    <3> QED BY <2>1, <2>3, <3>1
  <2> QED BY <2>2, <2>3
<1>4. work'[rev] = u /\ work' \in [Revs -> Tasks] /\ \A q \in Revs \ {rev} : work'[q] = work[q]
  BY <1>1, <1>3
<1>5. \A q \in Revs : work'[q].ops = work[q].ops
  BY <1>3, <1>4
<1>6. \A x \in settle' : x \in live \cup settle
  BY <1>2 DEF Affected
<1>7. Typed'
  <2>1. \A x \in live' \cup done' \cup settle' : x[1] \in Revs /\ x[2] \in DOMAIN work'[x[1]].ops
    BY <1>1, <1>2, <1>5, <1>6 DEF TypeOK
  <2>2. \A q \in Revs : Len(work'[q].ops) <= MaxTools
    BY <1>1, <1>5 DEF TypeOK
  <2>3. rev' \in Revs /\ trouble' \in 0..MaxTrouble
    BY <1>1, BoundsAssumption DEF TypeOK
  <2> QED BY <1>1, <1>2, <1>4, <2>1, <2>2, <2>3 DEF Typed, TypeOK
<1>8. PublishingIs'
  <2>1. \A q \in publishing : q \in Nat /\ q <= rev
    BY <1>1 DEF TaskInv, PublishingIs, TypeOK, Revs
  <2>2. \A q \in publishing : q <= rev + 1 /\ q # rev + 1
    BY <1>1, <2>1
  <2> QED BY <1>1, <1>2, <2>2 DEF PublishingIs
<1>9. Sound(rev, rev + 1, stray, reap, u, eval[rev], here[rev], launch[rev], stops[rev])
  <2>1. SoundAt(rev) /\ rev # rev + 1 /\ rev < rev + 1 /\ ~(rev > rev + 1)
    BY <1>1, Facts
  <2>2. OneOwner(u)
    BY <1>3, <2>1 DEF SoundAt, Sound, OneOwner
  <2>3. OfRevision(rev, rev + 1, u, eval[rev])
    BY <1>1, <1>3, <2>1 DEF SoundAt, Sound, OfRevision
  <2>4. Proved(FALSE, u, eval[rev])
    BY <1>3, <2>1 DEF SoundAt, Sound, Proved
  <2>5. StopKnown(u, stops[rev])
    BY <1>3, <2>1 DEF SoundAt, Sound, StopKnown
  <2> QED BY <2>1, <2>2, <2>3, <2>4, <2>5 DEF Sound, Ahead
<1>10. ASSUME NEW q \in Revs \ {rev}
       PROVE  Sound(q, rev + 1, stray, reap, work[q], eval[q], here[q], launch[q], stops[q])
  <2>1. SoundAt(q) /\ q \in Nat /\ q # rev
    BY Facts
  <2>2. OfRevision(q, rev + 1, work[q], eval[q]) /\ Ahead(q, rev + 1, work[q], launch[q])
    BY <1>1, <2>1 DEF SoundAt, Sound, OfRevision, Ahead
  <2>3. CASE q # rev + 1
    BY <1>1, <2>1, <2>2, <2>3 DEF SoundAt, Sound
  <2>4. CASE q = rev + 1
    <3>1. q > rev
      BY <1>1, <2>4
    <3>2. work[q].status = "absent" /\ Idle(launch[q])
      BY <2>1, <3>1 DEF SoundAt, Sound, Ahead
    <3>3. eval[q].stage = "no" /\ Fresh(work[q])
      BY <2>1, <3>2 DEF SoundAt, Sound, OfRevision
    <3>4. here[q] \in SUBSET (1..MaxAttempts)
      BY <1>1, Still
    <3>5. Undisturbed(work[q], eval[q], here[q])
      BY <3>3, <3>4, BudgetsAssumption DEF Undisturbed, Fresh
    <3>6. StopSeen(work[q], eval[q], stops[q]) /\ Reaping(work[q], eval[q], launch[q])
      BY <3>2, <3>3 DEF StopSeen, Reaping, Idle
    <3>7. Proved(TRUE, work[q], eval[q])
      BY <2>1, <3>3 DEF SoundAt, Sound, Proved
    <3> QED BY <2>1, <2>2, <2>4, <3>5, <3>6, <3>7 DEF SoundAt, Sound
  <2> QED BY <2>3, <2>4
<1>11. \A q \in Revs : SoundAt(q)'
  BY <1>1, <1>2, <1>4, <1>9, <1>10 DEF SoundAt
<1>12. ASSUME NEW q \in Revs PROVE StepOk(q)
  <2>1. CASE q # rev
    BY <1>1, <1>4, <2>1, Unchanged
  <2>2. CASE q = rev
    <3>1. t.status # "superseded"
      BY <1>1, Facts DEF SoundAt, Sound, OfRevision
    <3>2. ~(u.attempts > t.attempts)
      BY <1>1, <1>3, TasksAre, BudgetsAssumption
    <3> QED BY <1>3, <1>4, <2>2, <3>1, <3>2
               DEF StepOk, FinalStays, StopOfRunningIsFinal, AutomaticRetry
  <2> QED BY <2>1, <2>2
<1>13. OpenOps'
  <2>1. \A x \in live : x = <<x[1], x[2]>> /\ x[1] \in Revs /\ Open(work[x[1]].ops[x[2]])
    BY <1>1 DEF TaskInv, TypeOK, OpenOps
  <2> QED BY <1>2, <1>5, <2>1 DEF OpenOps
<1>14. ASSUME NEW q \in Revs PROVE Publishable(q)'
  <2>1. SUFFICES ASSUME q = rev + 1 PROVE eval[q].stage # "publish"
    BY <1>1, <1>2 DEF Publishable
  <2>2. SoundAt(q) /\ ~(q <= rev)
    BY <1>1, <2>1, Facts
  <2> QED BY <2>2 DEF SoundAt, Sound, OfRevision
<1> QED BY <1>7, <1>8, <1>11, <1>12, <1>13, <1>14 DEF Goal, TaskInv

\* What the journal may hold of the current task when the process dies.
Outlives(t) ==
  LET old == work[rev] IN
  /\ t \in Tasks /\ t.ops = old.ops /\ (t.verdict = "pass" => Passed(t))
  /\ \/ t = old
     \/ /\ t.status = "running" /\ t.outcome = NoOutcome
        /\ old.status \in {"absent", "retry_wait"}
        /\ \/ t.attempts = old.attempts /\ old.outcome = NoOutcome
           \/ t.attempts = old.attempts + 1
        /\ ~stray /\ t.attempts > old.attempts /\ old.attempts \in here[rev] =>
             old.outcome # NoOutcome

\* A death and a restart do what is needed, whatever was journaled last.
LEMMA DyingGoes ==
  ASSUME TaskInv, NEW w, NEW t, Dies(w), w = [work EXCEPT ![rev] = t], Outlives(t)
  PROVE  Goal
<1> DEFINE old == work[rev]
           b == t.attempts \in here[rev]
<1>1. /\ Typed /\ TypeOK /\ rev \in Revs /\ rev \in Nat /\ work \in [Revs -> Tasks]
      /\ old \in Tasks /\ here[rev] \in SUBSET (1..MaxAttempts)
      /\ stops[rev] \in SUBSET Stops /\ trouble' \in 0..MaxTrouble
  <2>1. Typed /\ TypeOK /\ rev \in Revs /\ work \in [Revs -> Tasks]
    BY DEF TaskInv, Typed, TypeOK
  <2>2. trouble' \in 0..MaxTrouble
    BY <2>1, BoundsAssumption DEF Dies, Troubled, TypeOK
  <2> QED BY <2>1, <2>2, Still DEF Revs
<1>2. /\ rev' = rev /\ done' = done /\ disk' = disk /\ reap' = "yes" /\ settle' = {}
      /\ recover' = TRUE /\ publishing' = {} /\ armed' = {} /\ live' \subseteq live
      /\ stops' = stops /\ stray' = stray /\ slipped' = slipped
      /\ here' = [q \in Revs |-> {}] /\ eval' = [q \in Revs |-> NoEval]
      /\ launch' = [q \in Revs |-> [s \in 1..Slots |-> NoLaunch]]
  BY DEF Dies, history
<1>3. w[rev] = t /\ \A q \in Revs \ {rev} : w[q] = work[q]
  BY <1>1
<1>4. b \in BOOLEAN
  OBVIOUS
<1>5. PICK left \in BOOLEAN : work' = [w EXCEPT ![rev] = Recovered(t, b, left)]
  BY <1>1, <1>3 DEF Dies
<1> DEFINE u == Recovered(t, b, left)
<1>6. t \in Tasks
  BY DEF Outlives
<1>7. /\ StoppedLike(t, u) /\ Passed(u) = Passed(t)
      /\ u.outcome = IF b /\ t.outcome = NoOutcome
                     THEN [why |-> "unfinished", left |-> left] ELSE t.outcome
  <2> HIDE DEF b
  <2> QED BY <1>4, <1>6, RecoveredIs
<1>8. work' = [w EXCEPT ![rev] = u]
  BY <1>5
<1> HIDE DEF u
<1>9. work'[rev] = u /\ \A q \in Revs \ {rev} : work'[q] = work[q]
  BY <1>1, <1>3, <1>8
<1>10. /\ u \in Tasks /\ u.contract = t.contract /\ u.attempts = t.attempts /\ u.status = t.status
      /\ u.verdict = t.verdict /\ u.requested = t.requested
      /\ Len(u.ops) = Len(t.ops) /\ DOMAIN u.ops = DOMAIN t.ops
      /\ \A i \in DOMAIN t.ops : u.ops[i].by = t.ops[i].by /\ u.ops[i].sig = t.ops[i].sig
  BY <1>7 DEF StoppedLike
<1>11. work' \in [Revs -> Tasks]
  BY <1>1, <1>10, <1>8
<1>12. NoLaunch \in Launches /\ NoLaunch.stage = "no"
  BY BudgetsAssumption DEF NoLaunch, Launches
<1>13. Typed'
  <2>1. \A q \in Revs : DOMAIN work'[q].ops = DOMAIN work[q].ops
          /\ Len(work'[q].ops) = Len(work[q].ops)
    BY <1>9, <1>10 DEF Outlives
  <2>2. \A x \in live' \cup done' \cup settle' : x[1] \in Revs /\ x[2] \in DOMAIN work'[x[1]].ops
    BY <1>1, <1>2, <2>1 DEF TypeOK
  <2>3. \A q \in Revs : Len(work'[q].ops) <= MaxTools
    BY <1>1, <2>1 DEF TypeOK
  <2>4. eval' \in [Revs -> Evals] /\ launch' \in [Revs -> [1..Slots -> Launches]]
        /\ here' \in [Revs -> SUBSET (1..MaxAttempts)]
    BY <1>2, <1>12, NoEvalIs
  <2> QED BY <1>1, <1>2, <1>11, <2>2, <2>3, <2>4 DEF Typed, TypeOK, Evals, Launches, Reports
<1>14. PublishingIs'
  BY <1>2 DEF PublishingIs
<1> DEFINE ls == [s \in 1..Slots |-> NoLaunch]
<1>15. Idle(ls) /\ \A x : Reaping(x, NoEval, ls)
  BY <1>12, NoEvalIs DEF Idle, Reaping
<1> HIDE DEF ls
<1>16. ASSUME NEW q \in Revs \ {rev}
       PROVE  Sound(q, rev, stray, "yes", work[q], NoEval, {}, ls, stops[q])
  <2>1. SoundAt(q)
    BY Facts
  <2> QED BY <1>15, <2>1, NoEvalIs DEF SoundAt, Sound, OfRevision, Proved, Ahead
<1>17. Sound(rev, rev, stray, "yes", u, NoEval, {}, ls, stops[rev])
  <2>1. SoundAt(rev)
    BY <1>1, Facts
  <2>2. OneOwner(t)
    BY <2>1 DEF SoundAt, Sound, OneOwner, Outlives
  <2>3. OneOwner(u)
    BY <1>10, <2>2, OwnersKept
  <2>4. OfRevision(rev, rev, u, NoEval)
    <3>1. t.status = "absent" => Fresh(u)
      <4>1. ASSUME t.status = "absent" PROVE Fresh(u)
        <5>1. Fresh(t)
          BY <2>1, <4>1 DEF Outlives, SoundAt, Sound, OfRevision
        <5>2. ~b
          BY <1>1, <5>1, BudgetsAssumption DEF Fresh
        <5>3. u.ops \in Seq(Ops) /\ Len(u.ops) = 0
          BY <1>10, <5>1, TasksAre DEF Fresh
        <5>4. u.ops = << >>
          BY <5>3
        <5> QED BY <1>7, <1>10, <5>1, <5>2, <5>4 DEF Fresh
      <4> QED BY <4>1
    <3>2. t.outcome # NoOutcome => t.attempts \in 1..MaxAttempts
      BY <2>1 DEF Outlives, SoundAt, Sound, OfRevision
    <3>3. t.status = "evaluating" => t.outcome # NoOutcome
      BY <2>1 DEF Outlives, SoundAt, Sound, OfRevision
    <3>4. t.status # "superseded"
      BY <1>1, <2>1 DEF Outlives, SoundAt, Sound, OfRevision
    <3>5. [why |-> "unfinished", left |-> left] # NoOutcome
      BY DEF NoOutcome
    <3>6. b => t.attempts \in 1..MaxAttempts
      BY <1>1
    <3> HIDE DEF b
    <3> QED BY <1>7, <1>10, <3>1, <3>2, <3>3, <3>4, <3>5, <3>6, NoEvalIs DEF OfRevision
  <2>5. Proved(TRUE, u, NoEval)
    BY <1>7, <1>10, NoEvalIs DEF Outlives, Proved
  <2>6. StopKnown(u, stops[rev])
    <3>1. StopKnown(old, stops[rev]) /\ \A stop \in stops[rev] : stop[1] \in Nat
      BY <1>1, <2>1 DEF SoundAt, Sound, Stops
    <3>2. old.attempts \in Nat /\ t.attempts \in Nat
      BY <1>1, <1>6, TasksAre, BudgetsAssumption
    <3>3. StopKnown(t, stops[rev])
      <4>1. CASE t = old
        BY <3>1, <4>1
      <4>2. CASE t.attempts = old.attempts /\ old.outcome = NoOutcome /\ t.outcome = NoOutcome
        BY <3>1, <4>2 DEF StopKnown
      <4>3. CASE t.attempts = old.attempts + 1
        BY <3>1, <3>2, <4>3 DEF StopKnown
      <4> QED BY <4>1, <4>2, <4>3 DEF Outlives
    <3>4. NoOutcome.why # "stop"
      BY DEF NoOutcome
    <3>5. <<t.attempts, "running">> \in stops[rev] => u.outcome = t.outcome
      BY <1>7, <3>3, <3>4 DEF StopKnown
    <3> QED BY <1>10, <3>3, <3>5 DEF StopKnown
  <2>7. Undisturbed(u, NoEval, {}) /\ StopSeen(u, NoEval, stops[rev])
    BY NoEvalIs DEF Undisturbed, StopSeen
  <2>8. Ahead(rev, rev, u, ls)
    BY <1>1 DEF Ahead
  <2> QED BY <1>15, <2>3, <2>4, <2>5, <2>6, <2>7, <2>8 DEF Sound
<1>18. \A q \in Revs : SoundAt(q)'
  <2>1. \A q \in Revs : eval'[q] = NoEval /\ here'[q] = {} /\ launch'[q] = ls
    BY <1>2 DEF ls
  <2> QED BY <1>2, <1>9, <1>16, <1>17, <2>1 DEF SoundAt
<1>19. ASSUME NEW q \in Revs PROVE StepOk(q)
  <2>1. CASE q # rev
    BY <1>1, <1>9, <2>1, Unchanged
  <2>2. CASE q = rev
    <3>1. old.status # "superseded"
      BY <1>1, Facts DEF SoundAt, Sound, OfRevision
    <3>2. old.attempts \in Nat
      BY <1>1, TasksAre, BudgetsAssumption
    <3> QED BY <1>2, <1>9, <1>10, <2>2, <3>1, <3>2
            DEF StepOk, FinalStays, StopOfRunningIsFinal, AutomaticRetry, Outlives
  <2> QED BY <2>1, <2>2
<1>20. OpenOps'
  <2>1. \A i \in DOMAIN t.ops : Open(t.ops[i]) => Open(u.ops[i])
    BY <1>7, StoppedCarries
  <2>2. \A x \in live : /\ x[1] \in Revs /\ x[2] \in DOMAIN work[x[1]].ops
                       /\ x = <<x[1], x[2]>> /\ Open(work[x[1]].ops[x[2]])
    BY <1>1 DEF TaskInv, TypeOK, OpenOps
  <2>3. ASSUME NEW x \in live PROVE Open(work'[x[1]].ops[x[2]])
    <3>1. CASE x[1] = rev
      BY <1>9, <2>1, <2>2, <3>1 DEF Outlives
    <3>2. CASE x[1] # rev
      BY <1>9, <2>2, <3>2
    <3> QED BY <3>1, <3>2
  <2> QED BY <1>2, <2>2, <2>3 DEF OpenOps
<1>21. \A q \in Revs : Publishable(q)'
  BY <1>2, NoEvalIs DEF Publishable
<1> QED BY <1>13, <1>14, <1>18, <1>19, <1>20, <1>21 DEF Goal, TaskInv

\* The process dies between steps,
LEMMA CrashStep ==
  ASSUME TaskInv, Crash PROVE Goal
<1>1. rev \in Revs /\ work = [work EXCEPT ![rev] = work[rev]] /\ work[rev] \in Tasks
  BY DEF TaskInv, Typed, TypeOK
<1>2. work[rev].verdict = "pass" => Passed(work[rev])
  BY <1>1, Facts DEF SoundAt, Sound, Proved
<1>3. Outlives(work[rev])
  BY <1>1, <1>2 DEF Outlives
<1> QED BY <1>1, <1>3, DyingGoes DEF Crash

\* during an admission,
LEMMA AdmitDiesStep ==
  ASSUME TaskInv, NEW r \in Revs, NEW c \in Contracts, AdmitDies(r, c) PROVE Goal
<1> DEFINE old == work[rev]
           created == [NoTask EXCEPT !.contract = c, !.status = "running"]
           o == [NoTask EXCEPT !.contract = c]
           v == [o EXCEPT !.status = "running"]
<1>1. /\ SoundAt(rev) /\ r = rev /\ old.status = "absent" /\ old \in Tasks /\ Typed
  BY Facts, Still DEF AdmitDies
<1>2. old.ops = << >> /\ old.attempts = 0 /\ old.outcome = NoOutcome
  BY <1>1 DEF SoundAt, Sound, OfRevision, Fresh
<1>3. 0 \notin here[rev]
  BY <1>1, Still, BudgetsAssumption
<1>4. /\ o \in Tasks /\ o.attempts = 0 /\ o.ops = << >> /\ o.verdict = "none"
           /\ o.outcome = NoOutcome
  BY SMTT(20), NoTaskIs, ContractsAssumption DEF Tasks
<1>5. /\ v \in Tasks /\ v.attempts = 0 /\ v.ops = << >> /\ v.verdict = "none"
           /\ v.outcome = NoOutcome
      /\ v.status = "running"
  <2> HIDE DEF o
  <2> QED BY <1>4, NewStatus DEF Statuses
<1>6. created = v
  BY Zenon
<1>7. PICK t \in {created, Reserved(created)} : Dies([work EXCEPT ![r] = t])
  BY DEF AdmitDies
<1> HIDE DEF v, created
<1>8. /\ Reserved(v) \in Tasks /\ Reserved(v).status = "running" /\ Reserved(v).attempts = 1
      /\ Reserved(v).outcome = NoOutcome /\ Reserved(v).ops = << >> /\ Reserved(v).verdict = "none"
  BY <1>5, NewAttempt, BudgetsAssumption
<1>9. /\ t \in Tasks /\ t.status = "running" /\ t.attempts \in {0, 1} /\ t.outcome = NoOutcome
      /\ t.ops = << >> /\ t.verdict = "none"
  BY <1>5, <1>6, <1>7, <1>8
<1>10. Outlives(t)
  BY <1>1, <1>2, <1>3, <1>9 DEF Outlives
<1> QED BY <1>1, <1>7, <1>10, DyingGoes

\* or during the start of a retry.
LEMMA StartDiesStep ==
  ASSUME TaskInv, NEW r \in Revs, NEW s \in 1..Slots, StartDies(r, s) PROVE Goal
<1> DEFINE old == work[rev]
           t == Reserved(old)
<1>1. /\ SoundAt(rev) /\ r = rev /\ old.status = "retry_wait" /\ old \in Tasks /\ Typed
           /\ ~Spent(old)
  BY Facts, Still DEF StartDies, Ready, StillWaiting
<1>2. old.attempts \in Nat /\ old.attempts < MaxAttempts
  BY <1>1, TasksAre, BudgetsAssumption DEF Spent
<1>3. /\ t \in Tasks /\ t.status = "running" /\ t.attempts = old.attempts + 1
      /\ t.outcome = NoOutcome /\ t.ops = old.ops /\ t.verdict = old.verdict /\ t.suite = old.suite
  BY <1>1, <1>2, NewAttempt
<1>4. Dies([work EXCEPT ![rev] = t])
  BY <1>1 DEF StartDies
<1> HIDE DEF t
<1>5. t.verdict = "pass" => Passed(t)
  BY <1>1, <1>3 DEF SoundAt, Sound, Proved, Passed
<1>6. ~stray /\ old.attempts \in here[rev] => old.outcome # NoOutcome
  BY <1>1, SlotUndisturbed
<1>7. Outlives(t)
  BY <1>1, <1>3, <1>5, <1>6 DEF Outlives
<1> QED BY <1>4, <1>7, DyingGoes

\* The invariant holds initially.
LEMMA InitSound ==
  ASSUME Init PROVE TaskInv
<1>1. \A r \in Revs : /\ work[r] = NoTask /\ here[r] = {} /\ eval[r] = NoEval /\ stops[r] = {}
                      /\ launch[r] = [s \in 1..Slots |-> NoLaunch]
  BY DEF Init
<1>2. NoLaunch \in Launches /\ NoLaunch.stage = "no"
  BY BudgetsAssumption DEF NoLaunch, Launches
<1>3. Typed
  <2>1. /\ rev \in Revs /\ trouble \in 0..MaxTrouble
    BY BoundsAssumption DEF Init, Revs
  <2>2. /\ work \in [Revs -> Tasks] /\ eval \in [Revs -> Evals] /\ stops \in [Revs -> SUBSET Stops]
        /\ launch \in [Revs -> [1..Slots -> Launches]] /\ here \in [Revs -> SUBSET (1..MaxAttempts)]
    BY <1>2, NoTaskIs, NoEvalIs DEF Init
  <2>3. \A r \in Revs : Len(work[r].ops) <= MaxTools
    BY <1>1, NoTaskIs, BudgetsAssumption
  <2> QED BY <2>1, <2>2, <2>3 DEF Init, Typed, TypeOK, Evals, Launches, Reports
<1>4. PublishingIs
  BY DEF Init, PublishingIs
<1>5. ASSUME NEW r \in Revs PROVE SoundAt(r)
  <2>1. rev = 1 /\ reap = "no" /\ r \in Nat
    BY DEF Init, Revs
  <2>2. Idle(launch[r])
    BY <1>1, <1>2 DEF Idle
  <2>3. OneOwner(NoTask)
    BY NoTaskIs DEF OneOwner
  <2>4. OfRevision(r, rev, NoTask, NoEval)
    BY NoTaskIs, NoEvalIs DEF OfRevision, Fresh
  <2>5. Proved(r = rev, NoTask, NoEval) /\ StopKnown(NoTask, {}) /\ StopSeen(NoTask, NoEval, {})
    BY NoTaskIs, NoEvalIs DEF Proved, StopKnown, StopSeen
  <2>6. Undisturbed(NoTask, NoEval, {})
    BY NoEvalIs DEF Undisturbed
  <2>7. Ahead(r, rev, NoTask, launch[r])
    BY <2>2, NoTaskIs DEF Ahead
  <2> QED BY <1>1, <2>1, <2>3, <2>4, <2>5, <2>6, <2>7 DEF SoundAt, Sound
<1>6. OpenOps /\ \A r \in Revs : Publishable(r)
  BY <1>1, NoEvalIs DEF Init, OpenOps, Publishable
<1> QED BY <1>3, <1>4, <1>5, <1>6 DEF TaskInv

\* Every step does what is needed.
LEMMA StepSound ==
  ASSUME TaskInv, Next PROVE Goal
<1>1. ASSUME NEW r \in Revs, NEW c \in Contracts, Admit(r, c) \/ AdmitDies(r, c) PROVE Goal
  BY <1>1, AdmitStep, AdmitDiesStep
<1>2. ASSUME NEW r \in Revs, NEW a \in here[r], Worker(r, a) PROVE Goal
  BY <1>2, UseStep, BeginStep DEF Worker
<1>3. ASSUME NEW r \in Revs, NEW outcome \in Outcomes, WorkerDone(r, outcome) PROVE Goal
  BY <1>3, WorkerDoneStep
<1>4. ASSUME NEW r \in Revs, UserStop(r) \/ Deadline(r) \/ Fire(r) PROVE Goal
  BY <1>4, UserStopStep, DeadlineStep, FireStep
<1>5. ASSUME NEW r \in Revs, Evaluation(r) PROVE Goal
  BY <1>5, SettleStep, CheckStep, SuiteEndsStep, DecideStep, PublishedStep DEF Evaluation
<1>6. ASSUME NEW r \in Revs, NEW s \in 1..Slots, Launch(r, s) \/ StartDies(r, s) PROVE Goal
  BY <1>6, LaunchCheckedStep, OvertakenStep, ConflictStep, NotNowStep, StartStep, StartDiesStep
     DEF Launch
<1>7. ASSUME NEW r \in Revs, PM(r) PROVE Goal
  BY <1>7, RetryTaskStep, ReconcileTaskStep, ReviewTaskStep, ReviewPublishedStep, TaskModeStep
     DEF PM
<1>8. ASSUME NEW x \in live, Effect(x) \/ Finish(x) PROVE Goal
  BY <1>8, EffectStep, FinishStep
<1>9. ASSUME RequirementChange \/ Edit \/ Crash \/ Reap \/ ReapFails \/ RecoverTasks PROVE Goal
  BY <1>9, RequirementChangeStep, EditStep, CrashStep, ReapStep, RecoverTasksStep
<1> QED BY <1>1, <1>2, <1>3, <1>4, <1>5, <1>6, <1>7, <1>8, <1>9 DEF Next

\* So does a stutter.
LEMMA StutterSound ==
  ASSUME TaskInv, UNCHANGED vars PROVE Goal
<1>1. /\ rev' = rev /\ work' = work /\ here' = here /\ live' = live /\ done' = done /\ disk' = disk
      /\ reap' = reap /\ settle' = settle /\ recover' = recover /\ publishing' = publishing
      /\ eval' = eval /\ armed' = armed /\ launch' = launch /\ stops' = stops /\ stray' = stray
           /\ slipped' = slipped
      /\ trouble' = trouble
  BY DEF vars, effects, process, retries, history
<1>2. TaskInv'
  <2>1. Typed' /\ PublishingIs'
    BY <1>1 DEF TaskInv, Typed, TypeOK, PublishingIs
  <2>2. \A r \in Revs : SoundAt(r)'
    BY <1>1 DEF TaskInv, SoundAt
  <2>3. OpenOps' /\ \A r \in Revs : Publishable(r)'
    BY <1>1 DEF TaskInv, OpenOps, Publishable, Files
  <2> QED BY <2>1, <2>2, <2>3 DEF TaskInv
<1>3. \A q \in Revs : StepOk(q)
  BY <1>1, Unchanged DEF TaskInv
<1> QED BY <1>2, <1>3 DEF Goal

\* The invariant is one.
LEMMA Invariance == Spec => []TaskInv
<1>1. Init => TaskInv
  BY InitSound
<1>2. TaskInv /\ [Next]_vars => TaskInv'
  BY StepSound, StutterSound DEF Goal
<1> QED BY <1>1, <1>2, PTL DEF Spec

\* Type correctness, and a write or a command is carried out by one attempt only,
\* for any number of attempts, tools, revisions, launches and crashes.
THEOREM EffectsAreOfOneAttempt == Spec => []EffectsOfOneAttempt
<1>1. TaskInv => EffectsOfOneAttempt
  <2> SUFFICES ASSUME TaskInv, NEW x \in done, NEW y \in done, x[1] = y[1],
                      work[x[1]].ops[x[2]].sig = work[y[1]].ops[y[2]].sig,
                      Mutates(work[x[1]].ops[x[2]])
               PROVE  work[x[1]].ops[x[2]].by = work[y[1]].ops[y[2]].by
    BY DEF EffectsOfOneAttempt, TaskInv, Typed
  <2>1. x[1] \in Revs /\ x[2] \in DOMAIN work[x[1]].ops /\ y[2] \in DOMAIN work[x[1]].ops
    BY DEF TaskInv, Typed, TypeOK
  <2>2. OneOwner(work[x[1]])
    BY <2>1, Facts DEF SoundAt, Sound
  <2> QED BY <2>1, <2>2 DEF OneOwner
<1> QED BY <1>1, Invariance, PTL

\* A task is accepted only with no effect in doubt, its file check true unless
\* somebody has edited the file while it was being published, and a passing run of
\* its test suite on record: of the latest attempt when the evaluation accepts.
THEOREM AcceptanceIsVerified == Spec => AcceptedIsVerified
<1>1. TaskInv /\ [Next]_vars =>
        [\A r \in Revs :
           ~stray /\ work'[r].status = "accepted" /\ work[r].status # "accepted" =>
             LET t == work'[r] IN
             /\ \A i \in DOMAIN t.ops : Mutates(t.ops[i]) => t.ops[i].rec \/ Succeeded(t.ops[i])
             /\ t.contract \in {"file", "part"} => disk' = "new" \/ r \in slipped
             /\ t.contract = "suite" => TestsPassed(t)]_vars
  BY StepSound DEF Goal, StepOk
<1> QED BY <1>1, Invariance, PTL DEF Spec, AcceptedIsVerified

\* No late answer opens a closed task, and a worker the user stopped while it was
\* running is not replaced unless the PM asks.
THEOREM WhatEndedStays == Spec => EndsStay
<1>1. TaskInv /\ [Next]_vars => [\A r \in Revs : FinalStays(r) /\ StopOfRunningIsFinal(r)]_vars
  BY StepSound DEF Goal, StepOk
<1> QED BY <1>1, Invariance, PTL DEF Spec, EndsStay

\* No attempt is reserved before the worker of the last one has stopped, unless a
\* launch was overtaken.
THEOREM NoOverlap == Spec => WorkersDoNotOverlap
<1>1. TaskInv /\ [Next]_vars =>
        [\A r \in Revs :
           ~stray /\ work'[r].attempts > work[r].attempts /\ work[r].attempts \in here[r] =>
             work[r].outcome # NoOutcome]_vars
  BY StepSound DEF Goal, StepOk
<1> QED BY <1>1, Invariance, PTL DEF Spec, WorkersDoNotOverlap

===============================================================================
