------------------------------- MODULE Memory -------------------------------
(***************************************************************************)
(* What an agent remembers: the working set its secretary keeps in memory  *)
(* (memory/SecretaryProxy.ts), the snapshot file and the cold archive of   *)
(* facts (memory/MemoryStore.ts), and what is taken from the journal when  *)
(* an agent is resumed (MemoryStore.loadMemory, runtime/MemoryRuntime.ts). *)
(* Two agents: a leader and its child, whose memory goes up when it ends.  *)
(*                                                                         *)
(* Saves are put off to the next turn of the event loop (setImmediate) by  *)
(* a closure that outlives its secretary: a resumed agent has a new one.   *)
(*                                                                         *)
(* Facts and decisions are members of small sets, equal when their         *)
(* normalised texts are.  Left out: rationales, reminders, the transcript  *)
(* of a session, health metrics, and snapshots that cannot be written.     *)
(***************************************************************************)
EXTENDS Naturals, Sequences, FiniteSets, SequencesExt

CONSTANTS
    Leader, Child,  \* the two agents
    Facts,          \* normalised texts of facts
    Decisions,
    Keep,           \* facts of a working set: 50 in the code
    Recent,         \* fewer recent facts than this and age does not count: 20
    JournalKeep,    \* facts a conversation keeps in the journal's state: 100
    Observed,       \* observed events (bound)
    Lives,          \* starts of a secretary by a resume or after a crash (bound)
    None

\* What the constants are (assumed where the module is instantiated).
MemoryAssumption ==
    /\ Leader # Child
    /\ {Keep, Recent, JournalKeep, Observed, Lives} \subseteq Nat /\ Keep > 0

VARIABLES
    live,      \* which agents have a secretary that was not destroyed
    mem,       \* the working set of the agent's latest secretary
    old,       \* that of the one before, while a save of it is put off
    later,     \* put off saves: of the latest secretary, of the one before
    disk,      \* the snapshot file
    archive,   \* texts in the cold archive
    journal,   \* the facts of the conversation in the journal's state
    heard,     \* facts the latest secretary has taken in
    count      \* [observed, lives]

vars == <<live, mem, old, later, disk, archive, journal, heard, count>>

Agents == {Leader, Child}
Finals == {"done", "error"}

\* What comes up from the child carries its name.
Up(x) == <<Child, x>>
All(S) == S \cup {Up(x) : x \in S}

\* A fact of a working set: old ones are older than thirty days.
Fact == [text : All(Facts), weight : Nat, aged : BOOLEAN]
Empty == [facts |-> <<>>, decisions |-> <<>>, child |-> None, flight |-> FALSE, final |-> None]

TypeOK ==
    LET Memories == [facts : Seq(Fact), decisions : Seq(All(Decisions)),
                     child : Finals \cup {"running", None}, flight : BOOLEAN,
                     final : Finals \cup {None}]
    IN /\ live \subseteq Agents
       /\ mem \in [Agents -> Memories] /\ old \in [Agents -> Memories]
       /\ later \in [Agents -> SUBSET {"latest", "before"}]
       /\ disk \in [Agents -> Memories \cup {None}]
       /\ archive \in [Agents -> SUBSET All(Facts)] /\ heard \in [Agents -> SUBSET All(Facts)]
       /\ journal \in Seq(Facts) /\ Len(journal) <= JournalKeep

-----------------------------------------------------------------------------
(* The working set *)

Texts(m) == {m.facts[i].text : i \in DOMAIN m.facts}
LastOf(s, n) == IF Len(s) <= n THEN s ELSE SubSeq(s, Len(s) - n + 1, Len(s))

\* An exact repeat adds to the weight and makes the fact young again, where it stands.
Repeated(f) == [f EXCEPT !.weight = @ + 1, !.aged = FALSE]
Merge(m, f) ==
    IF f \in Texts(m)
    THEN [m EXCEPT !.facts =
            [i \in DOMAIN @ |-> IF @[i].text = f THEN Repeated(@[i]) ELSE @[i]]]
    ELSE [m EXCEPT !.facts = Append(@, [text |-> f, weight |-> 1, aged |-> FALSE])]

\* gc: beyond the limit the last ones stay, of the young ones if they are enough.
Kept(facts) ==
    LET young[i \in 0..Len(facts)] ==
            IF i = 0 THEN <<>>
            ELSE IF facts[i].aged THEN young[i - 1] ELSE Append(young[i - 1], facts[i])
        recent == young[Len(facts)]
    IN IF Len(facts) <= Keep THEN facts
       ELSE LastOf(IF Len(recent) < Recent THEN facts ELSE recent, Keep)
Collect(m) == [m EXCEPT !.facts = Kept(@)]
Dropped(m) == Texts(m) \ Texts(Collect(m))

AddFact(m, f) == Collect(Merge(m, f))
\* What addFact writes to the archive.
Archived(m, f) == Dropped(Merge(m, f))

\* The same decision twice in a row is one.
Decide(m, d) ==
    IF m.decisions # <<>> /\ Last(m.decisions) = d THEN m
    ELSE [m EXCEPT !.decisions = Append(@, d)]

\* topFactsByWeight: heaviest first, and in order among equals.
TopFacts(m, n) ==
    LET before(i, j) == m.facts[i].weight > m.facts[j].weight
                        \/ (m.facts[i].weight = m.facts[j].weight /\ i < j)
        rank(i) == Cardinality({j \in DOMAIN m.facts : before(j, i)})
        size == IF Len(m.facts) < n THEN Len(m.facts) ELSE n
    IN [k \in 1..size |-> m.facts[CHOOSE i \in DOMAIN m.facts : rank(i) = k - 1]]

-----------------------------------------------------------------------------
(* Saving *)

Flush(a, m) == disk' = [disk EXCEPT ![a] = m]
Put(a) == later' = [later EXCEPT ![a] = @ \cup {"latest"}]

Count == count.observed < Observed /\ count' = [count EXCEPT !.observed = @ + 1]

\* A secretary takes something in and puts a save off.
Takes(a, m) ==
    /\ a \in live
    /\ mem' = [mem EXCEPT ![a] = m]
    /\ Put(a)
    /\ UNCHANGED <<live, old, disk>>

NoFacts == UNCHANGED <<archive, journal, heard>>

-----------------------------------------------------------------------------
(* What a secretary observes *)

ToolCall(a) ==
    /\ Count /\ NoFacts
    /\ Takes(a, [mem[a] EXCEPT !.flight = TRUE])

\* A tool's result is a fact for its agent when it is good, and for the journal always.
ToolResult(a, f, ok) ==
    /\ Count
    /\ mem[a].flight
    /\ LET m == [mem[a] EXCEPT !.flight = FALSE]
       IN /\ Takes(a, IF ok THEN AddFact(m, f) ELSE m)
          /\ archive' = [archive EXCEPT ![a] = IF ok THEN @ \cup Archived(m, f) ELSE @]
    /\ journal' = LastOf(Append(journal, f), JournalKeep)
    /\ heard' = [heard EXCEPT ![a] = IF ok THEN @ \cup {f} ELSE @]

\* A note of the user ("btw:"), or a fact a handup promotes: not in the journal's state.
Note(a, f) ==
    /\ Count
    /\ Takes(a, AddFact(mem[a], f))
    /\ archive' = [archive EXCEPT ![a] = @ \cup Archived(mem[a], f)]
    /\ heard' = [heard EXCEPT ![a] = @ \cup {f}]
    /\ UNCHANGED journal

\* decision.record, a message that reads like a decision, or a todo that is done.
Decision(a, d) ==
    /\ Count /\ NoFacts
    /\ Takes(a, Decide(mem[a], d))

\* agent.error
Errs(a) ==
    /\ Count /\ NoFacts
    /\ a \in live
    /\ mem' = [mem EXCEPT ![a] = [@ EXCEPT !.final = "error"]]
    /\ Flush(a, mem'[a])
    /\ UNCHANGED <<live, old, later>>

\* A closure of the secretary there was goes on holding its working set.
Behind(a) == IF "latest" \in later[a] THEN [old EXCEPT ![a] = mem[a]] ELSE old

\* The leader spawns the child: the event first, then the child's secretary.
Spawns ==
    /\ Leader \in live /\ Child \notin live /\ disk[Child] = None
    /\ live' = live \cup {Child}
    /\ mem' = [mem EXCEPT ![Leader] = [@ EXCEPT !.child = "running"], ![Child] = Empty]
    /\ heard' = [heard EXCEPT ![Child] = {}]
    /\ later' = [later EXCEPT ![Leader] = @ \cup {"latest"}]
    /\ Flush(Child, Empty)
    /\ UNCHANGED <<old, archive, journal, count>>

\* The child's agent.done: its own secretary writes its last snapshot, the leader's notes the
\* end, takes in the five heaviest facts and the last three decisions, and the child's
\* secretary is destroyed.
ChildEnds(ok) ==
    LET final == IF ok THEN "done" ELSE "error"
        last == [mem[Child] EXCEPT !.flight = FALSE, !.final = final]
        top == TopFacts(mem[Child], 5)
        noted == [mem[Leader] EXCEPT !.child = IF @ = None THEN None ELSE final]
        taken[i \in 0..Len(top)] ==
            IF i = 0 THEN noted ELSE AddFact(taken[i - 1], Up(top[i].text))
        lost == UNION {Archived(taken[i - 1], Up(top[i].text)) : i \in DOMAIN top}
        said == LastOf(mem[Child].decisions, 3)
        told[i \in 0..Len(said)] ==
            IF i = 0 THEN taken[Len(top)] ELSE Decide(told[i - 1], Up(said[i]))
        up == Leader \in live
    IN /\ Child \in live
       /\ mem' = [mem EXCEPT ![Child] = Empty, ![Leader] = IF up THEN told[Len(said)] ELSE @]
       /\ old' = IF "latest" \in later[Child] THEN [old EXCEPT ![Child] = last] ELSE old
       /\ Flush(Child, last)
       /\ live' = live \ {Child}
       /\ later' = [later EXCEPT ![Leader] = IF up THEN @ \cup {"latest"} ELSE @,
                                 ![Child] = IF @ = {} THEN {} ELSE {"before"}]
       /\ archive' = [archive EXCEPT ![Leader] = IF up THEN @ \cup lost ELSE @]
       /\ heard' = [heard EXCEPT ![Child] = {}, ![Leader] =
                        IF up THEN @ \cup {Up(top[i].text) : i \in DOMAIN top} ELSE @]
       /\ UNCHANGED <<journal, count>>

-----------------------------------------------------------------------------
(* Saves that were put off, and the timer *)

SaveLatest(a) ==
    /\ "latest" \in later[a]
    /\ later' = [later EXCEPT ![a] = @ \ {"latest"}]
    /\ IF a \in live THEN Flush(a, mem[a]) ELSE UNCHANGED disk
    /\ UNCHANGED <<live, mem, old, archive, journal, heard, count>>

\* Mutant of SaveBefore: it writes what it held.
SaveBeforeLate(a) ==
    /\ "before" \in later[a]
    /\ later' = [later EXCEPT ![a] = @ \ {"before"}]
    /\ old' = [old EXCEPT ![a] = Empty]
    /\ Flush(a, old[a])
    /\ UNCHANGED <<live, mem, archive, journal, heard, count>>

\* The closure of a destroyed secretary does nothing.
SaveBefore(a) ==
    /\ "before" \in later[a]
    /\ later' = [later EXCEPT ![a] = @ \ {"before"}]
    /\ old' = [old EXCEPT ![a] = Empty]
    /\ UNCHANGED <<live, mem, disk, archive, journal, heard, count>>

\* Every sixty seconds.
Snapshot(a) ==
    /\ a \in live
    /\ Flush(a, mem[a])
    /\ UNCHANGED <<live, mem, old, later, archive, journal, heard, count>>

\* Time passes: a fact is older than thirty days.
Ages(a) ==
    /\ a \in live /\ "latest" \notin later[a]
    /\ \E i \in DOMAIN mem[a].facts :
        /\ ~mem[a].facts[i].aged
        /\ mem' = [mem EXCEPT ![a].facts[i].aged = TRUE]
        /\ Flush(a, mem'[a])            \* its stamp is the same on disk
    /\ UNCHANGED <<live, old, later, archive, journal, heard, count>>

-----------------------------------------------------------------------------
(* Resuming *)

\* loadMemory: the snapshot, with the facts of the journal's state in place of its own.
Loaded(base) ==
    [base EXCEPT !.facts = [i \in DOMAIN journal |->
                                [text |-> journal[i], weight |-> 1, aged |-> FALSE]],
                 !.final = None]

\* destroy of the secretary there is (it flushes), then a new one from what is on disk.
Resume(a) ==
    /\ count.lives < Lives
    /\ disk[a] # None
    /\ count' = [count EXCEPT !.lives = @ + 1]
    /\ mem' = [mem EXCEPT ![a] = Loaded(IF a \in live THEN mem[a] ELSE disk[a])]
    /\ Flush(a, mem'[a])
    /\ live' = live \cup {a}
    /\ old' = Behind(a)
    /\ later' = [later EXCEPT ![a] = IF @ = {} THEN {} ELSE {"before"}]
    /\ heard' = [heard EXCEPT ![a] = {}]
    /\ UNCHANGED <<archive, journal>>

\* The process dies: working sets and put off saves are gone.
Crash ==
    /\ count.lives < Lives
    /\ live # {}
    /\ live' = {} /\ later' = [a \in Agents |-> {}]
    /\ mem' = [a \in Agents |-> Empty] /\ old' = mem'
    /\ heard' = [a \in Agents |-> {}]
    /\ UNCHANGED <<disk, archive, journal, count>>

\* shutdownRuntime: every secretary is destroyed, which flushes it.
Shutdown ==
    /\ count.lives < Lives
    /\ live # {}
    /\ disk' = [a \in Agents |-> IF a \in live THEN mem[a] ELSE disk[a]]
    /\ live' = {} /\ later' = [a \in Agents |-> {}]
    /\ mem' = [a \in Agents |-> Empty] /\ old' = mem'
    /\ heard' = [a \in Agents |-> {}]
    /\ UNCHANGED <<archive, journal, count>>

Init ==
    /\ live = {Leader}
    /\ mem = [a \in Agents |-> Empty] /\ old = mem
    /\ later = [a \in Agents |-> {}]
    /\ disk = [a \in Agents |-> IF a = Leader THEN Empty ELSE None]
    /\ archive = [a \in Agents |-> {}] /\ heard = archive
    /\ journal = <<>>
    /\ count = [observed |-> 0, lives |-> 0]

Next ==
    \/ \E a \in Agents : ToolCall(a)
    \/ \E a \in Agents, f \in Facts, ok \in BOOLEAN : ToolResult(a, f, ok)
    \/ \E a \in Agents, f \in Facts : Note(a, f)
    \/ \E a \in Agents, d \in Decisions : Decision(a, d)
    \/ \E a \in Agents : Errs(a)
    \/ Spawns
    \/ \E ok \in BOOLEAN : ChildEnds(ok)
    \/ \E a \in Agents : SaveLatest(a) \/ SaveBefore(a) \/ Snapshot(a) \/ Ages(a) \/ Resume(a)
    \/ Crash
    \/ Shutdown

Spec == Init /\ [][Next]_vars

-----------------------------------------------------------------------------
(* Properties *)

\* Once nothing is put off, the file holds what the latest secretary knows, and no closure of
\* an earlier one of the same agent has written over it.
SnapshotIsLatest ==
    \A a \in live : later[a] \cap {"latest"} = {} => disk[a] = mem[a]

\* What a secretary has taken in is in its working set or in the archive: the limit of the
\* working set, repeats and what comes up from a child forget nothing.
NothingIsForgotten ==
    \A a \in live : heard[a] \subseteq Texts(mem[a]) \cup archive[a]
=============================================================================
