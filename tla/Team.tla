-------------------------------- MODULE Team --------------------------------
(***************************************************************************)
(* The agents of one conversation as a tree: what the store says of each   *)
(* (store.ts), which have an instance (the map agents) and a bus entry,    *)
(* the rules of spawning (pm/ProcessManager.ts preCheckSpawn), foreground  *)
(* waits, kills that go down the tree (runtime/SessionRuntime.ts), and the *)
(* user's controls: send, interrupt, revise, resume                        *)
(* (runtime/SessionController.ts, tui/commands.ts).                        *)
(*                                                                         *)
(* The store, the instances and the foreground handles are three records   *)
(* of one fact, written at different places: a parent that reads a child   *)
(* as active waits for it.                                                 *)
(*                                                                         *)
(* Left out: what turns contain (modules Leader and Worker), text, aliases *)
(* of renamed children, the state the store shows for the PM itself        *)
(* (nobody waits for it), Feishu's own roots, alerts and time: a           *)
(* foreground wait may turn into a background one at any moment.           *)
(***************************************************************************)
EXTENDS Naturals, FiniteSets

CONSTANTS
    Root,       \* the PM of the conversation
    Children,   \* identities of other agents
    Goals,      \* goals of spawned agents, normalised
    Modes,      \* orchestration modes
    MaxDepth,   \* 4 in the code
    Fanout,     \* limits the user may set
    Routings,   \* whether a model is found for an agent: outcomes considered
    Interrupts, \* kills and changes of the requirement (bound)
    None        \* nobody, nothing

\* What the constants are (assumed where the module is instantiated).
TeamAssumption ==
    /\ Root \notin Children
    /\ Modes \subseteq {"adaptive", "hierarchical", "single"}
    /\ {MaxDepth, Interrupts} \subseteq Nat
    /\ Fanout \subseteq 1..16
    /\ Routings \subseteq BOOLEAN

VARIABLES
    mode,   \* SPAWN_ORCHESTRATION, fixed for the process
    t       \* the rest: see TypeOK

vars == <<mode, t>>

Ids == Children \cup {Root}
Roles == {"Leader", "Worker", "Secretary"}
Ended == {"done", "err"}                \* states of the store that nothing waits for

Info == [state : {"idle", "run"} \cup Ended, role : Roles, parent : Ids \cup {None},
         goal : Goals \cup {None}, hidden : BOOLEAN]

TypeOK ==
    /\ mode \in Modes
    /\ t \in [info : [Ids -> Info \cup {None}], live : SUBSET Ids, over : SUBSET Ids,
              killed : SUBSET Ids, bus : SUBSET Ids, current : SUBSET Ids,
              fg : [Children -> {None, "foreground", "background", "done"}],
              tasks : SUBSET Goals, fanout : Fanout, attach : BOOLEAN,
              bound : BOOLEAN, interrupts : 0..Interrupts]

-----------------------------------------------------------------------------
(* The store *)

Known(v) == {i \in Ids : v.info[i] # None}
ChildrenOf(v, p) == {c \in Known(v) : v.info[c].parent = p}
State(v, i) == IF v.info[i] = None THEN None ELSE v.info[i].state
Active(v, i) == State(v, i) \in {"idle", "run"}

SetState(v, i, s) ==
    IF v.info[i] = None \/ i = Root THEN v ELSE [v EXCEPT !.info[i].state = s]

\* Mutant of Report: whatever state was there.
ReportLast(v, i, s) == SetState(v, i, s)

\* agent.state: an agent that has ended in the store keeps that state.
Report(v, i, s) == IF State(v, i) \in Ended THEN v ELSE SetState(v, i, s)
\* agent.error: whatever the error is about.
Err(v, i) == SetState(v, i, "err")

\* ensureAgent merges the event of a spawn into what is there.
Record(v, p, c, role, goal) ==
    [v EXCEPT !.info[c] = [state |-> "idle", role |-> role, parent |-> p, goal |-> goal,
                           hidden |-> v.info[c] # None /\ v.info[c].hidden]]

\* The agents above i, i included, as far as the store knows them.
Above(v, i) ==
    LET up[n \in 0..Cardinality(Ids)] ==
            IF n = 0 THEN {i}
            ELSE up[n - 1] \cup ({v.info[j].parent : j \in up[n - 1] \cap Known(v)} \ {None})
    IN up[Cardinality(Ids)]
Depth(v, i) == Cardinality(Above(v, i)) - 1

-----------------------------------------------------------------------------
(* Spawning *)

\* preCheckSpawn, for an event whose dispatch is complete: parent is the one the event
\* names, asker the role of the agent that asks.
Allowed(v, parent, asker, role, goal) ==
    LET depth == Depth(v, parent)
        running == {c \in ChildrenOf(v, parent) : State(v, c) = "run"}
        same == {c \in ChildrenOf(v, parent) :
                    Active(v, c) /\ ~v.info[c].hidden /\ v.info[c].goal = goal}
    IN /\ mode # "single"
       /\ asker # "Worker"
       /\ ~(mode = "adaptive" /\ depth >= 1 /\ role = "Leader")
       /\ ~(mode = "hierarchical" /\ depth = 0 /\ role = "Worker")
       /\ ~(depth >= 2 /\ role = "Leader")
       /\ depth + 1 <= MaxDepth
       /\ Cardinality(running) < v.fanout
       /\ same = {}

Enter(v, c) ==
    [v EXCEPT !.live = @ \cup {c}, !.bus = @ \cup {c}, !.current = @ \cup {c}, !.over = @ \ {c}]

\* registerSpawn: an older wait for the same child is given up.
Foreground(v, c) == [v EXCEPT !.fg[c] = "foreground"]

\* startWorker; routed: a model could be found for the role, or for the name in the event.
Start(v, p, c, role, routed) ==
    CASE role = "Leader" -> Foreground(IF routed THEN Enter(v, c) ELSE Err(v, c), c)
      [] role # "Leader" /\ ~routed -> Err(v, p)
      [] OTHER -> IF v.info[p] # None /\ v.info[p].role # "Worker"
                  THEN Foreground(Enter(v, c), c) ELSE Enter(v, c)

\* admitWorker: a goal the conversation has had is refused; the agent is told.
Admitted(v, role, goal) == role = "Worker" => goal \notin v.tasks
Admit(v, role, goal) == IF role = "Worker" THEN [v EXCEPT !.tasks = @ \cup {goal}] ELSE v

\* A leader's spawn: a taken identity is refused, the parent is always the leader itself.
LeaderSpawn(v, p, c, role, goal, routed) ==
    CASE c \in v.live -> v
      [] c \notin v.live /\ ~Allowed(v, p, v.info[p].role, role, goal) -> Err(v, p)
      [] c \notin v.live /\ Allowed(v, p, v.info[p].role, role, goal)
         /\ ~Admitted(v, role, goal) -> v
      [] OTHER -> Start(Record(Admit(v, role, goal), p, c, role, goal), p, c, role, routed)

\* Any other agent's: a taken identity is replaced by a new one, and the parent is the one
\* the event names.  Nothing is admitted: this handler starts no logical task.
OtherSpawn(v, p, parent, c, role, goal, routed) ==
    IF Allowed(v, parent, v.info[p].role, role, goal)
    THEN Start(Record(v, parent, c, role, goal), parent, c, role, routed)
    ELSE Err(v, p)

-----------------------------------------------------------------------------
(* Ends *)

\* killAgent goes down through children that have not ended and were not killed before.
Victims(v, i) ==
    LET down[n \in 0..Cardinality(Ids)] ==
            IF n = 0 THEN {i}
            ELSE down[n - 1] \cup {c \in Known(v) \ v.killed :
                                     v.info[c].parent \in down[n - 1] /\ Active(v, c)}
    IN down[Cardinality(Ids)]

HasParent(v, i) == v.info[i] # None /\ v.info[i].parent # None

Kill(v, i) ==
    LET gone == Victims(v, i)
        below == {c \in gone : HasParent(v, c)}
    IN [v EXCEPT !.killed = @ \cup gone,
                 !.fg = [c \in Children |-> IF c \in gone THEN None ELSE @[c]],
                 !.bus = @ \ below,
                 !.info = [j \in Ids |-> IF j \in below THEN [@[j] EXCEPT !.state = "err"]
                                         ELSE @[j]]]

\* stopAffected: every agent of the revision that still listens is killed; the PM's own
\* instance only drops its request.
Supersede(v) ==
    LET stopped == (v.live \cap v.current) \ (v.over \cup {Root})
        kill[S \in SUBSET stopped] ==
            IF S = {} THEN v
            ELSE LET i == CHOOSE i \in S : TRUE IN Err(Kill(kill[S \ {i}], i), i)
    IN [kill[stopped] EXCEPT !.current = {Root}]

\* An accepted agent.done of a child.
Finish(v, c, ok) ==
    [SetState(v, c, IF ok THEN "done" ELSE "err") EXCEPT
        !.over = @ \cup {c}, !.bus = @ \ {c},
        !.fg[c] = IF @ = "foreground" THEN "done" ELSE @]

\* replaceAgentForResume
Replace(v, i) ==
    [v EXCEPT !.live = @ \ {i}, !.bus = @ \ {i}, !.killed = @ \ {i}]

-----------------------------------------------------------------------------
(* The program, one step at a time *)

Able(i) == i \in t.live /\ i \notin t.over /\ i \notin t.killed

\* A request of an agent starts; it ends, by itself or by a kill's abort.
TurnStarts(i) ==
    /\ Able(i)
    /\ t' = Report(t, i, "run")
TurnEnds(i) ==
    /\ i \in t.live
    /\ t' = Report(t, i, "idle")

MaySpawn(p) == Able(p) /\ (p = Root \/ p \in t.current)

AgentSpawns(p, parent, c, role, goal, routed) ==
    IF t.info[p].role = "Leader"
    THEN t' = LeaderSpawn(t, p, c, role, goal, routed)
    ELSE /\ c \notin t.live          \* or the name it is replaced by
         /\ t' = OtherSpawn(t, p, parent, c, role, goal, routed)

\* agent.done of a child; a leader's success is ignored while a child of it is active in
\* the store.
AgentEnds(i, ok) ==
    /\ Able(i)
    /\ ok /\ t.info[i].role = "Leader" => \A c \in ChildrenOf(t, i) : ~Active(t, c)
    /\ t' = Finish(t, i, ok)

\* An error that does not end the agent: a spawn with an incomplete dispatch, a message it
\* may not send.
AgentErrs(i) ==
    /\ Able(i)
    /\ t' = Err(t, i)

\* A parent kills a child by name, or the user the selected agent.
AgentIsKilled(i) ==
    /\ t.interrupts < Interrupts
    /\ i \in Known(t) /\ Active(t, i)
    /\ t' = Kill([t EXCEPT !.interrupts = @ + 1], i)

\* Two minutes in the foreground.
GoesToBackground(c) ==
    /\ t.fg[c] = "foreground"
    /\ t' = [t EXCEPT !.fg[c] = "background"]

\* SessionController.interrupt
Interrupt ==
    /\ t.interrupts < Interrupts
    /\ t.bound
    /\ t' = Kill(Supersede([t EXCEPT !.interrupts = @ + 1]), Root)

\* A changed requirement; interrupted or attached sessions accept it too.
Revise ==
    /\ t.interrupts < Interrupts
    /\ Root \in t.live
    /\ t' = [Supersede([t EXCEPT !.interrupts = @ + 1]) EXCEPT
                !.killed = @ \ {Root}, !.attach = FALSE]

\* SessionController.send of a question.  The first message of a process starts the PM;
\* a PM of an earlier process is attached for communication only.
Send ==
    /\ t' = IF Root \in t.live THEN [t EXCEPT !.killed = @ \ {Root}]
            ELSE [Enter(t, Root) EXCEPT !.bound = TRUE, !.attach = t.bound,
                                        !.killed = @ \ {Root}]

\* SessionController.resume
ResumeRoot ==
    /\ t.bound
    /\ Root \in t.live => Root \in t.killed \/ t.attach
    /\ t' = [Enter(Replace(t, Root), Root) EXCEPT !.attach = FALSE]

\* /resume of a child whose task is of the current requirement.
ResumeChild(c, routed) ==
    /\ c \in t.current \cap t.live /\ t.info[c] # None
    /\ LET i == t.info[c]
           again == Record(Replace(t, c), i.parent, c, i.role, i.goal)
       IN t' = IF i.role = "Leader" THEN IF routed THEN Enter(again, c) ELSE Err(again, c)
               ELSE Start(again, i.parent, c, i.role, routed)

\* /prune of one agent's subtree
Prune(i) ==
    /\ i \in Known(t)
    /\ t' = [t EXCEPT !.info = [j \in Ids |->
                IF t.info[j] # None /\ j # Root /\ i \in Above(t, j)
                THEN [t.info[j] EXCEPT !.hidden = TRUE] ELSE t.info[j]]]

\* /fanout
SetFanout(n) == t' = [t EXCEPT !.fanout = n]

Init ==
    /\ mode \in Modes
    /\ \E bound \in BOOLEAN :
        t = [info |-> [i \in Ids |-> IF i = Root
                        THEN [state |-> "idle", role |-> "Leader", parent |-> None,
                              goal |-> None, hidden |-> FALSE] ELSE None],
             live |-> {}, over |-> {}, killed |-> {}, bus |-> {}, current |-> {},
             fg |-> [c \in Children |-> None], tasks |-> {},
             fanout |-> CHOOSE n \in Fanout : \A m \in Fanout : m <= n,
             attach |-> FALSE, bound |-> bound, interrupts |-> 0]

Next ==
    /\ UNCHANGED mode
    /\ \/ \E i \in Children : TurnStarts(i)
       \/ \E i \in Children : TurnEnds(i)
       \/ \E p \in {i \in Ids : MaySpawn(i)}, c \in Children, role \in Roles, goal \in Goals :
            \E parent \in IF t.info[p].role = "Leader" THEN {p} ELSE {p, Root} :
                \E routed \in Routings : AgentSpawns(p, parent, c, role, goal, routed)
       \/ \E i \in Children, ok \in BOOLEAN : AgentEnds(i, ok)
       \/ \E i \in Children : AgentErrs(i)
       \/ \E i \in Children : AgentIsKilled(i)
       \/ \E c \in Children : GoesToBackground(c)
       \/ Interrupt
       \/ Revise
       \/ Send
       \/ ResumeRoot
       \/ \E c \in Children, routed \in Routings : ResumeChild(c, routed)
       \/ \E i \in Children : Prune(i)
       \/ \E n \in Fanout : SetFanout(n)

Spec == Init /\ [][Next]_vars

-----------------------------------------------------------------------------
(* Properties *)

\* A leader waits for a child while the store shows it idle or running, or its start is in
\* the foreground.  A child that was started and is waited for is one that can still end:
\* it has not ended before, nobody has killed it, and messages reach it.
WaitedForIsAlive ==
    \A c \in Children \cap t.live :
        Active(t, c) \/ t.fg[c] = "foreground" => c \in t.bus \ (t.over \cup t.killed)

=============================================================================
