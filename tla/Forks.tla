-------------------------------- MODULE Forks --------------------------------
(* The class that decides which message of a conversation runs where            *)
(* (runtime/ConversationRuntime.ts): the base agent takes one, forks of its      *)
(* history take more up to a limit, the rest waits, and what forks have answered *)
(* is merged into the history of the base agent.  FeishuBridge runs it beside     *)
(* its own bookkeeping, for comparison, without draining.                        *)
EXTENDS Naturals, Sequences, FiniteSets, Functions

CONSTANTS
    Limits,     \* values of maxConcurrent
    Drains,     \* values of autoDrainOnComplete
    Messages    \* bound: messages accepted

VARIABLE f

ForksAssumption ==
    Limits \subseteq Nat \ {0} /\ Drains \subseteq BOOLEAN /\ Messages \in Nat

\* Messages are numbered as they are accepted; 0 is none.  A fork is its number and
\* its message, an entry of the history a message whose question and answer it holds.
\* `silent' are the messages whose forks answered nothing.
Init ==
    \E max \in Limits, drain \in Drains :
        f = [max |-> max, drain |-> drain, heard |-> 0, base |-> 0, forks |-> {},
             pending |-> <<>>, buffer |-> <<>>, checkpoint |-> <<>>, seq |-> 0,
             silent |-> {}]

Running(v) == (IF v.base # 0 THEN 1 ELSE 0) + Cardinality(v.forks)

\* sortedForkBuffer: each behind those whose forks were started before.
Sorted(buffer) ==
    [i \in DOMAIN buffer |->
        CHOOSE x \in Range(buffer) :
            Cardinality({y \in Range(buffer) : y[1] < x[1]}) = i - 1]
Entries(buffer) == [i \in DOMAIN buffer |-> Sorted(buffer)[i][2]]

\* flushForkBuffer.
\* Mutant of Flush: the buffer is left to the next end of a turn.
FlushTwice(v) == [v EXCEPT !.checkpoint = @ \o Entries(v.buffer)]

Flush(v) == [v EXCEPT !.checkpoint = @ \o Entries(v.buffer), !.buffer = <<>>]

StartFork(v, m) == [v EXCEPT !.seq = @ + 1, !.forks = @ \cup {<<v.seq + 1, m>>}]

\* dispatch: the base agent if it is free, a fork, or the queue.
Dispatch(v, m) ==
    IF v.base = 0 THEN [Flush(v) EXCEPT !.base = m]
    ELSE IF Cardinality(v.forks) < v.max - 1 THEN StartFork(v, m)
    ELSE [v EXCEPT !.pending = Append(@, m)]

\* drain: one message at a time, when there is room.
Drain(v) ==
    IF ~v.drain \/ v.pending = <<>> \/ Running(v) >= v.max THEN v
    ELSE Dispatch([v EXCEPT !.pending = Tail(@)], Head(v.pending))

-----------------------------------------------------------------------------

Accept ==
    /\ f.heard < Messages
    /\ f' = Dispatch([f EXCEPT !.heard = @ + 1], f.heard + 1)

\* The place of the fork is free whether it has answered or not.
CompleteFork ==
    \E fork \in f.forks, answered \in BOOLEAN :
        LET v == [f EXCEPT !.forks = @ \ {fork}]
        IN  f' = Drain(IF answered THEN [v EXCEPT !.buffer = Append(@, fork)]
                       ELSE [v EXCEPT !.silent = @ \cup {fork[2]}])

\* The history that the base agent hands over begins with the checkpoint it got.
CompleteBase ==
    /\ f.base # 0
    /\ f' = Drain(Flush([f EXCEPT !.base = 0, !.checkpoint = Append(@, f.base)]))

Next == Accept \/ CompleteFork \/ CompleteBase

-----------------------------------------------------------------------------
(* Properties *)

Occurrences(seq, m) == Cardinality({i \in DOMAIN seq : seq[i] = m})
Forked(forks, m) == Cardinality({x \in forks : x[2] = m})

\* Every message is in exactly one place: under way, waiting, answered and not yet
\* merged, in the history, or dropped because its fork answered nothing.
EachOnce ==
    \A m \in 1..f.heard :
        1 = (IF f.base = m THEN 1 ELSE 0) + Forked(f.forks, m) + Occurrences(f.pending, m)
            + Forked(Range(f.buffer), m) + Occurrences(f.checkpoint, m)
            + (IF m \in f.silent THEN 1 ELSE 0)

\* While messages are drained nothing waits with room left, and nothing is started
\* before what was accepted earlier.
RoomIsUsed ==
    /\ Running(f) <= f.max
    /\ f.drain /\ f.pending # <<>> =>
          /\ Running(f) = f.max
          /\ \A i \in DOMAIN f.pending :
                f.pending[i] = f.heard - Len(f.pending) + i

ForksAreExact == EachOnce /\ RoomIsUsed

=============================================================================
