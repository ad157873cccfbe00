-------------------------------- MODULE Locks ---------------------------------
(***************************************************************************)
(* The two locks between processes, one call of the file system at a time: *)
(* the lock of the journal (session/JournalLock.ts), a directory with an   *)
(* owner in it that is renamed into place, and the ownership of the        *)
(* workspace (session/RuntimeOwner.ts), a file behind the gate of another. *)
(* A behaviour is about one of the two.                                    *)
(*                                                                         *)
(* A process may die between any two calls; what it made stays.  Process   *)
(* numbers are not reused.  Left out: locks of older formats, damaged      *)
(* records, and the pauses between two tries.                              *)
(***************************************************************************)
EXTENDS Naturals

CONSTANTS
    Processes,
    None

\* What the constants are (assumed where the module is instantiated).
LocksAssumption == {None, "made"} \cap Processes = {}

VARIABLE v

vars == v

Holding(p) == v.pc[p] = "held"
Alive(p) == v.pc[p] # "dead"

\* A directory (owner None: it is empty), a file with its owner, or a file created and
\* not written yet.
Places == {None, "made"} \cup Processes
TypeOK ==
    /\ v.kind \in {"journal", "workspace"}
    /\ v.pc \in [Processes -> {"idle", "try", "move", "read", "check", "clear", "remove",
                               "create", "write", "open", "held", "leave", "dead"}]
    /\ v.seen \in [Processes -> Processes \cup {None}]
    /\ v.lock \in Places /\ v.gate \in Processes \cup {None} /\ v.wrong \in BOOLEAN

Go(p, step) == v' = [v EXCEPT !.pc[p] = step]
\* What has been read is only kept until it is used.
GoPast(p, step) == [v EXCEPT !.pc[p] = step, !.seen[p] = None]

Calls(p) == v.pc[p] = "idle" /\ Go(p, "try")
\* After a second, or at once where nothing waits.
GivesUp(p) == v.pc[p] = "try" /\ Go(p, "idle")
Dies(p) == Alive(p) /\ v' = GoPast(p, "dead")

-----------------------------------------------------------------------------
(* The lock of the journal: "made" is the directory without its owner *)

Looks(p) == v.pc[p] = "try" /\ Go(p, IF v.lock = None THEN "move" ELSE "read")

\* Mutant of Moves: the owner is written in place, whatever has come meanwhile.
MovesOver(p) == v.pc[p] = "move" /\ v' = [v EXCEPT !.pc[p] = "held", !.lock = p]

\* A directory is renamed onto nothing or onto an empty one.
Moves(p) ==
    /\ v.pc[p] = "move"
    /\ IF v.lock \in {None, "made"} THEN v' = [v EXCEPT !.pc[p] = "held", !.lock = p]
       ELSE Go(p, "read")

IsDead(x) == x \in Processes /\ ~Alive(x)

Reads(p) ==
    /\ v.pc[p] = "read"
    /\ IF IsDead(v.lock) THEN v' = [v EXCEPT !.pc[p] = "check", !.seen[p] = v.lock]
       ELSE Go(p, "try")

\* Read a second time, the owner is the same.
Checks(p) ==
    /\ v.pc[p] = "check"
    /\ IF v.lock = v.seen[p] THEN Go(p, "clear") ELSE v' = GoPast(p, "try")

\* The owner is removed: by now it may be another one.
Clears(p) ==
    /\ v.pc[p] = "clear"
    /\ v' = [GoPast(p, "remove") EXCEPT
                !.lock = IF @ \in Processes THEN "made" ELSE @,
                !.wrong = @ \/ v.lock \notin {None, "made", v.seen[p]}]

\* The directory too, if it is empty.
Removes(p) ==
    /\ v.pc[p] = "remove"
    /\ v' = [v EXCEPT !.pc[p] = "try", !.lock = IF @ = "made" THEN None ELSE @]

\* A holder that finds another owner fails.
Releases(p) ==
    /\ v.pc[p] = "held"
    /\ v' = [v EXCEPT !.pc[p] = "idle", !.lock = IF @ = p THEN None ELSE @]

JournalLock(p) ==
    \/ Looks(p) \/ Moves(p) \/ Reads(p) \/ Checks(p) \/ Clears(p) \/ Removes(p)
    \/ Releases(p)

-----------------------------------------------------------------------------
(* The ownership of the workspace: "made" is the file without its owner *)

\* The gate of a process that died inside stays shut.
Passes(p) == v.pc[p] = "try" /\ v.gate = None /\ v' = [v EXCEPT !.pc[p] = "open", !.gate = p]

Opens(p) ==
    /\ v.pc[p] = "open"
    /\ IF v.lock = None THEN v' = [v EXCEPT !.pc[p] = "write", !.lock = "made"]
       ELSE Go(p, "read")

\* A record that nobody finished is never repaired.
Finds(p) ==
    /\ v.pc[p] = "read"
    /\ IF IsDead(v.lock) THEN v' = [v EXCEPT !.pc[p] = "check", !.seen[p] = v.lock]
       ELSE v' = [v EXCEPT !.pc[p] = "idle", !.gate = None]

\* Behind the gate nobody replaces the record of the dead owner, or makes another: the two
\* failures of the code for these cases are out of reach, and are waits here.
Confirms(p) == v.pc[p] = "check" /\ v.lock = v.seen[p] /\ v' = GoPast(p, "clear")

Unlinks(p) == v.pc[p] = "clear" /\ v' = [v EXCEPT !.pc[p] = "create", !.lock = None]

Creates(p) ==
    v.pc[p] = "create" /\ v.lock = None /\ v' = [v EXCEPT !.pc[p] = "write", !.lock = "made"]

Writes(p) ==
    /\ v.pc[p] = "write"
    /\ v' = [v EXCEPT !.pc[p] = "held", !.lock = p, !.gate = None]

\* Released without the gate: read, then removed.
Leaves(p) == v.pc[p] = "held" /\ Go(p, IF v.lock = p THEN "leave" ELSE "idle")
Gone(p) == v.pc[p] = "leave" /\ v' = [v EXCEPT !.pc[p] = "idle", !.lock = None]

Ownership(p) ==
    \/ Passes(p) \/ Opens(p) \/ Finds(p) \/ Confirms(p) \/ Unlinks(p) \/ Creates(p)
    \/ Writes(p) \/ Leaves(p) \/ Gone(p)

-----------------------------------------------------------------------------

Init ==
    \E kind \in {"journal", "workspace"} :
        v = [kind |-> kind, pc |-> [p \in Processes |-> "idle"],
             seen |-> [p \in Processes |-> None], lock |-> None, gate |-> None, wrong |-> FALSE]

Next ==
    \E p \in Processes :
        \/ Calls(p) \/ GivesUp(p) \/ Dies(p)
        \/ v.kind = "journal" /\ JournalLock(p)
        \/ v.kind = "workspace" /\ Ownership(p)

Spec == Init /\ [][Next]_vars

-----------------------------------------------------------------------------

\* Two processes never hold the same lock (session/JournalLock.ts).
Exclusive == \A p, q \in Processes : Holding(p) /\ Holding(q) => p = q

\* Two processes hold the journal only after one of them took the lock of the other for that of
\* a dead owner; the workspace has one owner whatever dies (session/RuntimeOwner.ts).
ExclusiveUnlessCleared == Exclusive \/ (v.kind = "journal" /\ v.wrong)

=============================================================================
