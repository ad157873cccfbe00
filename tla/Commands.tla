------------------------------- MODULE Commands -------------------------------
(***************************************************************************)
(* Shell commands.  The application writes an intent and starts a          *)
(* supervisor (tools/command.ts); the supervisor is a process of its own   *)
(* that starts the shell, watches for a cancel file and for the life of    *)
(* its owner, and records how the tree of processes ended                  *)
(* (tools/supervisor.ts).  The application of the next life, and each tool *)
(* call of this one, first looks for commands that are left                *)
(* (tools/processRecovery.ts); what has ended is cleared away in time      *)
(* (session/completedProcesses.ts).                                        *)
(*                                                                         *)
(* The supervisor does not see the tree, only the exit of the shell and    *)
(* the end of the pipes that it and its children hold.  A child that has   *)
(* closed them, in the group of the shell or out of it, is not waited for. *)
(*                                                                         *)
(* Any process may be killed at any step.  Process numbers are not reused, *)
(* and one application owns the workspace at a time (module Locks).  Of a  *)
(* record only matters whether the command is under way, has ended or is   *)
(* blocked.  Output, exit codes and damaged records are left out.          *)
(***************************************************************************)
EXTENDS Naturals

CONSTANTS
    Tokens,     \* the commands, each with its own directory
    Starts,     \* lives of the application (bound)
    None

VARIABLE v

vars == v

\* rootless: the shell has exited, a child holds its pipes; loose: what is left has closed them.
Running == {"running", "rootless"}
\* What may remain of a tree.
Remains == [running |-> {"running", "rootless", "loose", "gone"},
            rootless |-> {"rootless", "loose", "gone"}, loose |-> {"loose", "gone"},
            gone |-> {"gone"}]
Command ==
    [life : 1..Starts, sup : {"none", "boot", "saved", "spawn", "run", "stopping", "gone"},
     record : {None, "open", "ended", "blocked"}, tree : {"none"} \cup DOMAIN Remains,
     cancel : BOOLEAN, fresh : BOOLEAN, place : {"active", "completed", "removed"},
     heard : BOOLEAN]

\* What the constants are (assumed where the module is instantiated).
CommandsAssumption ==
    Starts \in Nat \ {0} /\ None \notin Command \cup {"open", "ended", "blocked"}

TypeOK ==
    /\ v.life \in 1..Starts /\ v.up \in BOOLEAN /\ v.clear \in BOOLEAN
    /\ v.cmd \in [Tokens -> {None} \cup Command]
    /\ v.todo \subseteq Tokens
    /\ v.at \in {None} \cup [c : Tokens, seen : {None, "open"}, step : {"lease", "wait"}]

Known(c) == v.cmd[c] # None
Own(c) == Known(c) /\ v.up /\ v.cmd[c].life = v.life
Set(c, x) == v' = [v EXCEPT !.cmd[c] = x]

\* The process is there and has renewed its lease in the last fifteen seconds.
OwnerAlive(c) == Own(c) /\ v.cmd[c].fresh

-----------------------------------------------------------------------------
(* The application: tools/command.ts *)

\* Nothing starts before the recovery has returned.
Intends(c) ==
    /\ ~Known(c) /\ v.up /\ v.clear
    /\ Set(c, [life |-> v.life, sup |-> "none", record |-> None, tree |-> "none",
               cancel |-> FALSE, fresh |-> TRUE, place |-> "active", heard |-> FALSE])

Launches(c) ==
    /\ Own(c) /\ v.cmd[c].sup = "none" /\ ~v.cmd[c].heard
    /\ \/ Set(c, [v.cmd[c] EXCEPT !.sup = "boot"])
       \/ Set(c, [v.cmd[c] EXCEPT !.heard = TRUE])

\* Aborted or out of time.
Cancels(c) ==
    /\ Own(c) /\ v.cmd[c].sup # "none" /\ ~v.cmd[c].heard
    /\ v.cmd[c].place = "active" /\ ~v.cmd[c].cancel
    /\ Set(c, [v.cmd[c] EXCEPT !.cancel = TRUE])

\* A busy or suspended process renews its leases late.
Lapses(c) == Own(c) /\ v.cmd[c].fresh /\ Set(c, [v.cmd[c] EXCEPT !.fresh = FALSE])
Renews(c) == Own(c) /\ ~v.cmd[c].heard /\ ~v.cmd[c].fresh /\ Set(c, [v.cmd[c] EXCEPT !.fresh = TRUE])

Archived(x) == [x EXCEPT !.place = IF @ = "active" THEN "completed" ELSE @]

\* The supervisor has exited: without a word that all has ended, the command stays blocked.
Hears(c) ==
    /\ Own(c) /\ v.cmd[c].sup = "gone" /\ ~v.cmd[c].heard
    /\ LET x == [v.cmd[c] EXCEPT !.heard = TRUE]
       IN Set(c, IF x.record = "ended" THEN Archived(x) ELSE [x EXCEPT !.record = "blocked"])

Dies == v.up /\ v' = [v EXCEPT !.up = FALSE, !.clear = FALSE, !.todo = {}, !.at = None]
Restarts == ~v.up /\ v.life < Starts /\ v' = [v EXCEPT !.up = TRUE, !.life = @ + 1]

-----------------------------------------------------------------------------
(* The supervisor: tools/supervisor.ts *)

\* Mutant of Boots: the record comes after the check.
BootsSilently(c) ==
    Known(c) /\ v.cmd[c].sup = "boot" /\ Set(c, [v.cmd[c] EXCEPT !.sup = "saved"])

Boots(c) ==
    /\ Known(c) /\ v.cmd[c].sup = "boot"
    /\ Set(c, [v.cmd[c] EXCEPT !.sup = "saved", !.record = "open"])

Ended(x) == [x EXCEPT !.sup = "gone", !.record = "ended"]
Blocked(x) == [x EXCEPT !.sup = "gone", !.record = "blocked"]

\* Whether it is still wanted; then the shell starts, or fails to.
Checks(c) ==
    /\ Known(c) /\ v.cmd[c].sup = "saved"
    /\ Set(c, IF v.cmd[c].cancel \/ ~OwnerAlive(c) THEN Ended(v.cmd[c])
              ELSE [v.cmd[c] EXCEPT !.sup = "spawn"])
Spawns(c) ==
    /\ Known(c) /\ v.cmd[c].sup = "spawn"
    /\ \/ Set(c, [v.cmd[c] EXCEPT !.sup = "run", !.tree = "running"])
       \/ Set(c, Ended(v.cmd[c]))

\* Five times a second: the tree is killed as a group.  What left the group is not, and once
\* the supervisor has heard that the shell exited, its number means nothing.
Watches(c) ==
    /\ Known(c) /\ v.cmd[c].sup = "run" /\ (v.cmd[c].cancel \/ ~OwnerAlive(c))
    /\ \/ Set(c, Blocked(v.cmd[c]))
       \/ \E tree \in Remains[v.cmd[c].tree] \ {"running"} :
            Set(c, [v.cmd[c] EXCEPT !.sup = "stopping", !.tree = tree])

\* The shell has exited and its pipes are closed, whoever is left.
Closes(c) ==
    /\ Known(c) /\ v.cmd[c].sup \in {"run", "stopping"} /\ v.cmd[c].tree \notin Running
    /\ Set(c, Ended(v.cmd[c]))

IsKilled(c) ==
    Known(c) /\ v.cmd[c].sup \notin {"none", "gone"} /\ Set(c, [v.cmd[c] EXCEPT !.sup = "gone"])

\* The tree itself: the shell may exit before its children, and they may outlive its pipes.
Exits(c) ==
    /\ Known(c) /\ v.cmd[c].tree # "none"
    /\ \E tree \in Remains[v.cmd[c].tree] \ {v.cmd[c].tree} :
        Set(c, [v.cmd[c] EXCEPT !.tree = tree])

-----------------------------------------------------------------------------
(* The recovery: tools/processRecovery.ts *)

Begins ==
    /\ v.up /\ v.at = None /\ v.todo = {}
    /\ LET left == {c \in Tokens : Known(c) /\ v.cmd[c].place = "active"}
       IN v' = [v EXCEPT !.todo = left, !.clear = (left = {})]

\* On to the next command; the last one ends the recovery.
Passes(c, x) ==
    v' = [v EXCEPT !.cmd[c] = x, !.at = None, !.todo = @ \ {c}, !.clear = (v.todo = {c})]
Fails == v' = [v EXCEPT !.at = None, !.todo = {}]

\* A supervisor that is gone without an end is for a person to look at.
Picks(c) ==
    /\ v.at = None /\ c \in v.todo
    /\ LET x == v.cmd[c]
       IN CASE x.place # "active" -> Passes(c, x)
            [] x.place = "active" /\ x.record = "ended" -> Passes(c, Archived(x))
            [] /\ x.place = "active"
               /\ x.record = "blocked" \/ (x.record = "open" /\ x.sup = "gone") -> Fails
            [] OTHER -> v' = [v EXCEPT !.at = [c |-> c, seen |-> x.record, step |-> "lease"]]

\* The command of a living owner is left alone.  One without a record is given up: its
\* supervisor, if there is one, will find the cancel file, or its owner dead.
Takes ==
    /\ v.at # None /\ v.at.step = "lease"
    /\ LET c == v.at.c
           x == [v.cmd[c] EXCEPT !.cancel = TRUE]
       IN IF OwnerAlive(c) THEN Passes(c, v.cmd[c])
          ELSE IF v.at.seen = None THEN Passes(c, x)
          ELSE v' = [v EXCEPT !.cmd[c] = x, !.at.step = "wait"]

Waits ==
    /\ v.at # None /\ v.at.step = "wait"
    /\ \/ v.cmd[v.at.c].record = "ended" /\ Passes(v.at.c, Archived(v.cmd[v.at.c]))
       \/ v.cmd[v.at.c].record # "ended" /\ Fails   \* blocked, gone or out of time

\* Completed commands are removed after a week, or when they take too much room.
Cleans(c) ==
    /\ Known(c) /\ v.cmd[c].place = "completed" /\ (v.cmd[c].heard \/ ~Own(c))
    /\ Set(c, [v.cmd[c] EXCEPT !.place = "removed"])

-----------------------------------------------------------------------------

Init == v = [life |-> 1, up |-> TRUE, clear |-> FALSE, cmd |-> [c \in Tokens |-> None],
             todo |-> {}, at |-> None]

Application(c) == Intends(c) \/ Launches(c) \/ Cancels(c) \/ Lapses(c) \/ Renews(c) \/ Hears(c)
Supervisor(c) == Boots(c) \/ Checks(c) \/ Spawns(c) \/ Watches(c) \/ Closes(c) \/ IsKilled(c)
Recovery == Begins \/ (\E c \in Tokens : Picks(c)) \/ Takes \/ Waits

Next ==
    \/ \E c \in Tokens : Application(c) \/ Supervisor(c) \/ Exits(c) \/ Cleans(c)
    \/ Dies \/ Restarts \/ Recovery

Spec == Init /\ [][Next]_vars

-----------------------------------------------------------------------------

\* Once the recovery of a life has returned, no command of an earlier life runs, and none is
\* ever started any more; and of a command on record as ended neither the shell runs nor a
\* child that holds its pipes, whoever was killed when.  A child that has closed the pipes may
\* run on under either (tools/processRecovery.ts, tools/supervisor.ts).
NoOrphans ==
    \A c \in Tokens : Known(c) =>
        /\ v.clear /\ v.cmd[c].life < v.life => v.cmd[c].tree \notin Running
        /\ v.cmd[c].record = "ended" => v.cmd[c].tree \notin Running

=============================================================================
