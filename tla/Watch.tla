-------------------------------- MODULE Watch --------------------------------
(* What the process manager measures of the children of an agent                *)
(* (pm/ProcessManager.ts): the two minutes that a parent waits for a child in    *)
(* the foreground, and the time that a child was given with its dispatch, which   *)
(* does not run while the user is asked for an approval.                         *)
(*                                                                              *)
(* Time is counted in the manager's ticks.  Alerts have no effect and are left   *)
(* out, as are the children's work (modules Worker and Leader) and the tree      *)
(* (module Team).                                                                *)
EXTENDS Naturals, FiniteSets

CONSTANTS
    Members,    \* children of one agent
    Wait,       \* BG_TIMEOUT_MS
    Limit,      \* dispatch.timeout_ms
    Ticks,      \* bound of the time
    Lives,      \* bound: starts of a child under the same name
    None

WatchAssumption ==
    /\ Wait \in Nat /\ Limit \in Nat /\ Ticks \in Nat \ {0} /\ Lives \in Nat \ {0}
    /\ None \notin {"idle", "run", "ended"}
    /\ None \notin [life : Nat, at : Nat, mode : {"foreground"}]

VARIABLE s

Stats == [start : 0..Ticks, paused : 0..Ticks, since : 0..Ticks, nudged : BOOLEAN,
          life : 1..Lives]

\* `clock' is the timer that the manager knows of for a child, `timers' all that are
\* armed.  `lived' are the ticks of this life that count against the limit and `told'
\* the lives of which the parent has heard that they are in the background.
TypeOK ==
    s \in [now : 1..Ticks, state : [Members -> {None, "idle", "run", "ended"}],
           life : [Members -> 0..Lives], killed : SUBSET Members,
           handle : [Members -> {None} \cup [life : 1..Lives, at : 1..Ticks,
                                  mode : {"foreground", "background", "done"}]],
           clock : [Members -> {None} \cup (1..Lives)],
           timers : SUBSET [child : Members, life : 1..Lives, due : Nat],
           stats : [Members -> {None} \cup Stats], waiting : SUBSET Members,
           lived : [Members -> 0..Ticks], told : SUBSET (Members \X (1..Lives))]

Init ==
    s = [now |-> 1, state |-> [c \in Members |-> None], life |-> [c \in Members |-> 0],
         killed |-> {}, handle |-> [c \in Members |-> None],
         clock |-> [c \in Members |-> None], timers |-> {},
         stats |-> [c \in Members |-> None], waiting |-> {},
         lived |-> [c \in Members |-> 0], told |-> {}]

Foreground(v, c) == v.handle[c] # None /\ v.handle[c].mode = "foreground"

-----------------------------------------------------------------------------
(* Foreground waits *)

\* The promise of the wait is resolved with nothing: the parent is told that two
\* minutes have passed, whatever the reason.  It can be resolved only once.
Resolved(v, c) ==
    IF ~Foreground(v, c) THEN v ELSE [v EXCEPT !.told = @ \cup {<<c, v.handle[c].life>>}]

Disarmed(v, c) ==
    [v EXCEPT !.timers = {x \in @ : <<x.child, x.life>> # <<c, v.clock[c]>>}, !.clock[c] = None]

\* cancelForeground.
Cancelled(v, c) == [Resolved(Disarmed(v, c), c) EXCEPT !.handle[c] = None]

\* completeForeground: a handle in the background stays there.
Completed(v, c) ==
    LET u == Disarmed(v, c)
    IN  IF Foreground(v, c) THEN [u EXCEPT !.handle[c].mode = "done"] ELSE u

\* registerSpawn.
Registered(v, c) ==
    [Cancelled(v, c) EXCEPT
        !.handle[c] = [life |-> v.life[c], at |-> v.now, mode |-> "foreground"],
        !.clock[c] = v.life[c],
        !.timers = @ \cup {[child |-> c, life |-> v.life[c], due |-> v.now + Wait]}]

\* The timer looks up the handle that there is now under the child's name.
TimerFires ==
    \E x \in s.timers :
        /\ x.due <= s.now
        /\ LET c == x.child
               v == [s EXCEPT !.timers = @ \ {x}, !.clock[c] = None]
           IN  s' = IF Foreground(v, c) THEN [Resolved(v, c) EXCEPT !.handle[c].mode = "background"]
                    ELSE v

-----------------------------------------------------------------------------
(* Children *)

Begun(v, c) ==
    [v EXCEPT !.life[c] = @ + 1, !.state[c] = "idle", !.killed = @ \ {c}, !.lived[c] = 0]

Spawn(c) ==
    /\ s.life[c] = 0
    /\ s' = Registered(Begun(s, c), c)

\* /resume of a child, whatever has become of it: a worker is registered again, a
\* leader is only started.
ResumeAgain(c) ==
    /\ s.life[c] \in 1..(Lives - 1)
    /\ s' \in {Registered(Begun(s, c), c), Begun(s, c)}

\* observe: the first event of an agent makes its statistics, its first turn starts
\* the time.
Runs(c) ==
    /\ s.state[c] = "idle"
    /\ LET x == s.stats[c]
       IN  s' = [s EXCEPT
            !.state[c] = "run",
            !.stats[c] = IF x = None
                         THEN [start |-> s.now, paused |-> 0, since |-> 0, nudged |-> FALSE,
                               life |-> s.life[c]]
                         ELSE IF x.start = 0 THEN [x EXCEPT !.start = s.now] ELSE x]

Rests(c) == s.state[c] = "run" /\ s' = [s EXCEPT !.state[c] = "idle"]

\* agent.done.
Ends(c) ==
    /\ s.state[c] \in {"idle", "run"}
    /\ s' = [Completed(s, c) EXCEPT !.state[c] = "ended", !.stats[c] = None]

\* killAgent: approvals are taken back, but the manager does not observe it.
Killed(c) ==
    /\ s.state[c] \in {"idle", "run"}
    /\ s' = [Cancelled(s, c) EXCEPT !.state[c] = "ended", !.killed = @ \cup {c},
                                    !.waiting = @ \ {c}]

\* An approval is asked for and given.
Asks(c) == s.state[c] = "run" /\ c \notin s.waiting /\ s' = [s EXCEPT !.waiting = @ \cup {c}]
Answered(c) == c \in s.waiting /\ s' = [s EXCEPT !.waiting = @ \ {c}]

-----------------------------------------------------------------------------
(* The tick *)

\* Mutant of Measured: the time of an approval is not taken off.
MeasuredThrough(x, now, waits) ==
    IF waits THEN [x EXCEPT !.since = IF @ = 0 THEN now ELSE @]
    ELSE LET y == [x EXCEPT !.since = 0]
         IN  [y EXCEPT !.nudged = @ \/ (y.start # 0 /\ now - y.start - y.paused > Limit)]

\* A wait counts from the tick that finds it to the tick that finds it over.
Measured(x, now, waits) ==
    IF waits THEN [x EXCEPT !.since = IF x.since = 0 THEN now ELSE x.since]
    ELSE LET paused == x.paused + (IF x.since = 0 THEN 0 ELSE now - x.since)
             over == x.start # 0 /\ now - x.start - paused > Limit
         IN  [x EXCEPT !.paused = paused, !.since = 0, !.nudged = x.nudged \/ over]

Observed(v, c) == v.stats[c] # None /\ v.state[c] = "run"

Tick ==
    /\ s.now < Ticks
    /\ s' = [s EXCEPT
        !.now = @ + 1,
        !.stats = [c \in Members |->
                     IF Observed(s, c) THEN Measured(@[c], s.now + 1, c \in s.waiting) ELSE @[c]],
        !.lived = [c \in Members |->
                     IF s.stats[c] = None \/ s.stats[c].start = 0 \/ s.state[c] = "ended"
                        \/ (s.state[c] = "run" /\ c \in s.waiting)
                     THEN @[c] ELSE @[c] + 1]]

Next ==
    \/ Tick \/ TimerFires
    \/ \E c \in Members :
          Spawn(c) \/ ResumeAgain(c) \/ Runs(c) \/ Rests(c) \/ Ends(c) \/ Killed(c)
          \/ Asks(c) \/ Answered(c)

-----------------------------------------------------------------------------
(* Properties *)

\* A parent's wait for a child in the foreground has exactly one timer, its own, and
\* a child that is not waited for has none: no wait lasts for ever and none is cut
\* short by the timer of an earlier start.
WaitsHaveTheirTimer ==
    \A c \in Members :
        {<<x.life, x.due>> : x \in {y \in s.timers : y.child = c}} =
        IF Foreground(s, c) THEN {<<s.handle[c].life, s.handle[c].at + Wait>>} ELSE {}

\* A child is told that its time is over only when it has had it in this life, waits
\* for approvals not counted; statistics that a killed life has left behind are the
\* exception.
NudgeIsDue ==
    \A c \in Members :
        s.stats[c] # None /\ s.stats[c].nudged /\ s.stats[c].life = s.life[c] =>
            s.lived[c] > Limit

\* What the parent is told, "more than two minutes, now in the background", is not so when
\* the child was killed or started again, which ends the wait in the same way.
BackgroundIsTrue ==
    [][\A c \in Members, n \in 1..Lives :
          <<c, n>> \in s'.told \ s.told => s.now >= s.handle[c].at + Wait]_s

ChildrenAreTimed == TypeOK /\ WaitsHaveTheirTimer /\ NudgeIsDue

=============================================================================
