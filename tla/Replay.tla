-------------------------------- MODULE Replay --------------------------------
(* The context that is rebuilt from an agent's last saved memory and from the log of  *)
(* the bus behind it (bus/Bus.ts, context/LogContextBuilder.ts), with the secretary   *)
(* that records some of the agent's events and saves (memory/SecretaryProxy.ts).  The *)
(* code compares it with the agent's own history before each request, or takes it.    *)
(*                                                                                    *)
(* Left out: the wording; the weights, by which the facts at the top are chosen: any  *)
(* choice is taken; and the removal of facts beyond fifty, which leaves more of them  *)
(* than a context shows (SecretaryProxy.ts:343).                                      *)
EXTENDS Naturals, Sequences, FiniteSets, Functions

CONSTANTS
    Ring,           \* LOG_RING_SIZE (2000)
    Shown,          \* entries of the log that a context shows (50)
    TopFacts,       \* facts that it shows (15)
    LastDecisions,  \* decisions that it shows (5)
    Talk,           \* bound: events of a process
    Epochs          \* bound: processes

VARIABLE b

ReplayAssumption ==
    /\ Ring \in Nat \ {0} /\ Shown \in Nat \ {0}
    /\ {TopFacts, LastDecisions, Talk, Epochs} \subseteq Nat

\* The events of the agent's log: a fact (a result, what a child hands up, a `btw'); a
\* message that reads like a decision, and one recorded as such; a call, a failed or known
\* result, a spawn, the end; any other message from it or to it; and what the context
\* passes over (a state, tokens, an error).
EventKinds == {"fact", "said", "decided", "call", "plain", "noise"}
Recorded == {"fact", "said", "decided"}
Saving == Recorded \cup {"call"}
Listed == {"fact", "said", "call", "plain"}

\* A memory records facts and decisions by their offsets in this process; `olds' counts the
\* facts of earlier ones.  Its tombstone claims to know all up to a cursor of a process.
NoMemory == [facts |-> {}, decisions |-> {}, olds |-> 0, cursor |-> 0, epoch |-> 0]

\* `mem' is the secretary's memory, `disk' the saved one, `due' a save put off by
\* setImmediate; `own' has the offsets of the agent's events of each kind.
Init ==
    b = [log |-> <<>>, head |-> 0, epoch |-> 1, mem |-> NoMemory, disk |-> NoMemory, due |-> FALSE,
         own |-> [kind \in EventKinds |-> {}]]

-----------------------------------------------------------------------------
(* The bus *)

publish(v) ==
    LET log == Append(v.log, v.head)
    IN  [v EXCEPT !.head = @ + 1, !.log = IF Len(log) > Ring THEN Tail(log) ELSE log]

\* isRelevantEvent leaves out what does not concern the agent.
getLog(v, cursor) ==
    [entries |-> {i \in Range(v.log) : i >= cursor /\ \E kind \in EventKinds : i \in v.own[kind]},
     hasGap |-> v.log # <<>> /\ cursor < Head(v.log)]

\* The cursor of another process is worth nothing.
Cursor(v) == IF v.disk.epoch = v.epoch THEN v.disk.cursor ELSE v.head
Newest(offsets, n) == {i \in offsets : Cardinality({k \in offsets : k > i}) < n}

\* What topFactsByWeight may choose of the facts of this process.
Tops(memory) ==
    {top \in SUBSET memory.facts :
        /\ Cardinality(top) <= TopFacts
        /\ top = memory.facts \/ Cardinality(top) + memory.olds >= TopFacts}

\* buildLogContextFromMemory.  Only the number of the entries is told.
Context(v, top) ==
    LET got == getLog(v, Cursor(v))
        lines == {i \in Newest(got.entries, Shown) : \E kind \in Listed : i \in v.own[kind]}
    IN  [shown |-> top \cup Newest(v.disk.decisions, LastDecisions) \cup lines,
         cut |-> Cardinality(got.entries) > Shown]

\* With SHADOW_MODE off, the context takes the place of the agent's history.
Taken(v) == ~getLog(v, Cursor(v)).hasGap

-----------------------------------------------------------------------------
(* Steps *)

\* saveAsync and flushSync take the cursor at once.
Stamped(v) == [v EXCEPT !.mem.cursor = v.head, !.mem.epoch = v.epoch]

\* observe, of an event at offset i.
Observed(memory, kind, i) ==
    CASE kind = "fact" -> [memory EXCEPT !.facts = @ \cup {i}]
      [] kind \in {"said", "decided"} -> [memory EXCEPT !.decisions = @ \cup {i}]
      [] OTHER -> memory

\* An event of the agent, or to it: first the log, then the secretary, which may save.
Emit ==
    /\ b.head < Talk
    /\ \E kind \in EventKinds :
          LET v == [publish(b) EXCEPT !.own[kind] = @ \cup {b.head},
                                      !.mem = Observed(@, kind, b.head)]
          IN  b' = IF kind \in Saving THEN [Stamped(v) EXCEPT !.due = TRUE] ELSE v

\* An event that does not concern the agent.
OtherSpeaks == b.head < Talk /\ b' = publish(b)

\* What is written is the memory of that moment.
SaveLater == b.due /\ b' = [b EXCEPT !.due = FALSE, !.disk = b.mem]

Flush == b' = [Stamped(b) EXCEPT !.disk = Stamped(b).mem]

Restart ==
    /\ b.epoch < Epochs
    /\ LET left == [b.disk EXCEPT !.facts = {}, !.decisions = {},
                                  !.olds = @ + Cardinality(b.disk.facts)]
       IN  b' = [b EXCEPT !.log = <<>>, !.head = 0, !.epoch = @ + 1, !.due = FALSE,
                          !.mem = left, !.disk = left, !.own = [kind \in EventKinds |-> {}]]

Next == Emit \/ OtherSpeaks \/ SaveLater \/ Flush \/ Restart

-----------------------------------------------------------------------------
(* Properties *)

\* What a context does not show and does not tell: what the cursor has passed although
\* nothing of it is recorded; a fact or a decision beyond those that are shown; and a
\* decision that waits for its save, of which the log has no line.
Unsaid(v, top, kind, i) ==
    \/ kind = "noise"
    \/ kind \notin Recorded /\ i < v.disk.cursor
    \/ i \in v.disk.facts \ top /\ Cardinality(v.disk.facts) + v.disk.olds > TopFacts
    \/ i \in v.disk.decisions \ Newest(v.disk.decisions, LastDecisions)
    \/ kind = "decided" /\ i >= v.disk.cursor

\* Once the memory has been saved by this process, a context that takes the place of the
\* history has all that the agent has done and was told, from its memory or from the log,
\* or tells how much it does not show, but for what Unsaid names
\* (LogContextBuilder.ts:100-146, httpAgent.ts:404).
NothingSlips ==
    b.disk.epoch = b.epoch /\ Taken(b) =>
        \A top \in Tops(b.disk), kind \in EventKinds : \A i \in b.own[kind] :
            \/ i \in Context(b, top).shown \/ Context(b, top).cut
            \/ Unsaid(b, top, kind, i)

\* A context that is complete is not taken for one with a gap: all that came after the
\* save is still in the log.
GapIsReal ==
    b.disk.epoch = b.epoch /\ b.head - b.disk.cursor <= Ring => Taken(b)

=============================================================================
