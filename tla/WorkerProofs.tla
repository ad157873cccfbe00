---------------------------- MODULE WorkerProofs ----------------------------
(***************************************************************************)
(* Proofs about one worker (module Worker).  The handler knows the state of *)
(* its tools only through a count and through flags; the invariant relates  *)
(* the count to the tools in the callbacks of the event loop and in the     *)
(* batches that run, each tool one slot of a finite set.  Each operator of  *)
(* the handler has a lemma that says it keeps the parts of the invariant    *)
(* (Whole) and what else it leaves (Alike); each action of the program is a *)
(* move made of such operators, followed by the continuation Settle.        *)
(***************************************************************************)
EXTENDS Worker, TLAPS, FiniteSetTheorems, SequenceTheorems, WellFoundedInduction

\* A callback of setImmediate, a batch of tools that runs.
LoopEntries == [kind : Kinds, tools : Seq(Tools), results : Seq(Verdicts)]
Batches == [id : Nat, tools : Seq(Tools), leader : BOOLEAN]

\* Callbacks that carry tools of a batch, before they run or after.
Carries(c) == c.kind \in {"batch", "deliver"}
\* One slot for each tool that the loop carries, and that runs in a batch of
\* the worker: the count `outstanding' is proved against their number.
LoopSlots(loop) ==
    {s \in (1..Len(loop)) \X Nat :
        Carries(loop[s[1]]) /\ s[2] \in 1..Len(loop[s[1]].tools)}
RunSlots(running) ==
    {s \in running \X Nat : ~s[1].leader /\ s[2] \in 1..Len(s[1].tools)}
\* Tools that one callback carries.
Load(c) == IF Carries(c) THEN Len(c.tools) ELSE 0

\* A row of slots has as many as its tools.
LEMMA RowSize ==
    ASSUME NEW x, NEW n \in Nat
    PROVE  IsFiniteSet({x} \X (1..n)) /\ Cardinality({x} \X (1..n)) = n
<1>1. IsFiniteSet(1..n) /\ Cardinality(1..n) = n
    BY FS_Interval
<1>2. IsFiniteSet({x}) /\ Cardinality({x}) = 1
    BY FS_Singleton
<1>3. 1 * n = n
    OBVIOUS
<1> QED BY <1>1, <1>2, <1>3, FS_Product

\* A callback appended to the loop adds the tools it carries.
LEMMA AppendSlots ==
    ASSUME NEW loop \in Seq(LoopEntries), NEW c \in LoopEntries, IsFiniteSet(LoopSlots(loop))
    PROVE  /\ IsFiniteSet(LoopSlots(Append(loop, c)))
           /\ Cardinality(LoopSlots(Append(loop, c))) = Cardinality(LoopSlots(loop)) + Load(c)
<1> DEFINE n == Len(loop)
           row == {n + 1} \X (1..Len(c.tools))
           more == Append(loop, c)
<1>0. n \in Nat /\ Len(c.tools) \in Nat
    BY DEF LoopEntries
<1>1. Len(more) = n + 1 /\ more[n + 1] = c /\ \A i \in 1..n : more[i] = loop[i]
    BY AppendProperties
<1>2. CASE ~Carries(c)
  <2>1. LoopSlots(more) = LoopSlots(loop)
    BY <1>0, <1>1, <1>2 DEF LoopSlots
  <2>2. Cardinality(LoopSlots(loop)) \in Nat
    BY FS_CardinalityType
  <2> QED BY <1>2, <2>1, <2>2 DEF Load
<1>3. CASE Carries(c)
  <2>1. LoopSlots(more) = LoopSlots(loop) \cup row
    BY <1>0, <1>1, <1>3 DEF LoopSlots
  <2>2. LoopSlots(loop) \cap row = {}
    BY <1>0 DEF LoopSlots
  <2>3. IsFiniteSet(row) /\ Cardinality(row) = Len(c.tools)
    BY <1>0, RowSize
  <2>4. Cardinality(LoopSlots(loop)) \in Nat /\ Cardinality(LoopSlots(loop) \cap row) = 0
    BY <2>2, FS_CardinalityType, FS_EmptySet, Zenon
  <2> HIDE DEF row, more
  <2>5. /\ IsFiniteSet(LoopSlots(loop) \cup row)
        /\ Cardinality(LoopSlots(loop) \cup row)
              = Cardinality(LoopSlots(loop)) + Cardinality(row) - Cardinality(LoopSlots(loop) \cap row)
    BY <2>3, FS_Union
  <2>6. Load(c) = Len(c.tools)
    BY <1>3 DEF Load
  <2> HIDE DEF n
  <2>7. /\ IsFiniteSet(LoopSlots(more))
        /\ Cardinality(LoopSlots(more)) = Cardinality(LoopSlots(loop)) + Len(c.tools)
    BY <1>0, <2>1, <2>2, <2>3, <2>4, <2>5
  <2> QED BY <2>6, <2>7 DEF more
<1> QED BY <1>2, <1>3

\* The first callback taken off the loop takes the tools it carries.
LEMMA TailSlots ==
    ASSUME NEW loop \in Seq(LoopEntries), loop # <<>>, IsFiniteSet(LoopSlots(loop))
    PROVE  /\ IsFiniteSet(LoopSlots(Tail(loop)))
           /\ Cardinality(LoopSlots(loop)) = Cardinality(LoopSlots(Tail(loop))) + Load(Head(loop))
<1> DEFINE n == Len(loop)
           c == Head(loop)
           rest == Tail(loop)
           row == {1} \X (1..Load(c))
           above == LoopSlots(loop) \ row
           up == [s \in LoopSlots(rest) |-> <<s[1] + 1, s[2]>>]
<1>1. /\ n \in Nat \ {0} /\ c = loop[1] /\ c \in LoopEntries
      /\ Len(rest) = n - 1 /\ \A i \in 1..(n - 1) : rest[i] = loop[i + 1]
    BY HeadTailProperties, EmptySeq
<1>2. Load(c) \in Nat
    BY <1>1 DEF Load, LoopEntries
<1>3. row \subseteq LoopSlots(loop)
    BY <1>1, <1>2 DEF LoopSlots, Load
<1>4. above = {s \in LoopSlots(loop) : s[1] # 1}
    BY <1>1, <1>2 DEF LoopSlots, Load
<1>5. up \in Bijection(LoopSlots(rest), above)
  <2>1. \A s \in LoopSlots(rest) : up[s] \in above
    <3> SUFFICES ASSUME NEW s \in LoopSlots(rest) PROVE <<s[1] + 1, s[2]>> \in above
        OBVIOUS
    <3>1. /\ s[1] \in 1..(n - 1) /\ s[2] \in Nat
          /\ Carries(rest[s[1]]) /\ s[2] \in 1..Len(rest[s[1]].tools)
      BY <1>1 DEF LoopSlots
    <3> DEFINE t == <<s[1] + 1, s[2]>>
    <3>2. t[1] = s[1] + 1 /\ t[2] = s[2] /\ t \in (1..n) \X Nat /\ t[1] # 1
      BY <1>1, <3>1
    <3>3. rest[s[1]] = loop[t[1]]
      BY <1>1, <3>1, <3>2
    <3> QED BY <1>4, <3>1, <3>2, <3>3 DEF LoopSlots
  <2>2. \A s, t \in LoopSlots(rest) : up[s] = up[t] => s = t
    BY SMTT(20), <1>1 DEF LoopSlots
  <2>3. \A t \in above : \E s \in LoopSlots(rest) : up[s] = t
    <3> SUFFICES ASSUME NEW t \in above PROVE \E s \in LoopSlots(rest) : up[s] = t
        OBVIOUS
    <3>1. t = <<t[1], t[2]>> /\ t[1] \in 2..n /\ t[2] \in Nat
        BY <1>1, <1>4 DEF LoopSlots
    <3>2. <<t[1] - 1, t[2]>> \in LoopSlots(rest)
        BY <1>1, <1>4, <3>1 DEF LoopSlots
    <3>3. up[<<t[1] - 1, t[2]>>] = t
        BY <3>1, <3>2
    <3> QED BY <3>2, <3>3
  <2> HIDE DEF up, above
  <2>4. up \in [LoopSlots(rest) -> above]
    BY <2>1 DEF up
  <2> QED BY <2>2, <2>3, <2>4, Zenon DEF Bijection, Injection, Surjection, IsInjective
<1>6. IsFiniteSet(above) /\ Cardinality(above) = Cardinality(LoopSlots(loop)) - Load(c)
  <2>1. IsFiniteSet(row) /\ Cardinality(row) = Load(c)
    BY <1>2, RowSize
  <2>2. LoopSlots(loop) \cap row = row
    BY <1>3
  <2> HIDE DEF row, c
  <2>3. /\ IsFiniteSet(LoopSlots(loop) \ row)
        /\ Cardinality(LoopSlots(loop) \ row) = Cardinality(LoopSlots(loop)) - Load(c)
    <3>1. Cardinality(LoopSlots(loop) \cap row) = Load(c)
      BY <2>1, <2>2, Zenon
    <3>2. /\ IsFiniteSet(LoopSlots(loop) \ row)
          /\ Cardinality(LoopSlots(loop) \ row)
                = Cardinality(LoopSlots(loop)) - Cardinality(LoopSlots(loop) \cap row)
      BY FS_Difference, Zenon
    <3> QED BY <3>1, <3>2, Zenon
  <2> QED BY <2>3
<1>7. IsFiniteSet(LoopSlots(rest)) /\ Cardinality(above) = Cardinality(LoopSlots(rest))
  <2> HIDE DEF up, above
  <2>1. up \in Injection(LoopSlots(rest), above) /\ up \in Surjection(LoopSlots(rest), above)
    BY <1>5 DEF Bijection
  <2> QED BY <1>6, <2>1, FS_Injection
<1>8. Cardinality(LoopSlots(loop)) \in Nat
    BY FS_CardinalityType
<1> HIDE DEF above, rest, c, row, up
<1> QED BY <1>2, <1>6, <1>7, <1>8 DEF rest, c

\* A batch that starts adds at most its tools, none if it is the leader's.
LEMMA StartSlots ==
    ASSUME NEW running \in SUBSET Batches, NEW b \in Batches, IsFiniteSet(RunSlots(running))
    PROVE  /\ IsFiniteSet(RunSlots(running \cup {b}))
           /\ Cardinality(RunSlots(running \cup {b}))
                <= Cardinality(RunSlots(running)) + (IF b.leader THEN 0 ELSE Len(b.tools))
<1> DEFINE row == {b} \X (1..Len(b.tools))
           sum == RunSlots(running) \cup row
<1>1. Len(b.tools) \in Nat
    BY DEF Batches
<1>2. Cardinality(RunSlots(running)) \in Nat
    BY FS_CardinalityType
<1>3. CASE b.leader
  <2>1. RunSlots(running \cup {b}) = RunSlots(running)
    BY <1>3 DEF RunSlots
  <2> QED BY <1>2, <1>3, <2>1
<1>4. CASE ~b.leader
  <2>1. RunSlots(running \cup {b}) = sum
    BY <1>1, <1>4 DEF RunSlots
  <2>2. IsFiniteSet(row) /\ Cardinality(row) = Len(b.tools)
    BY <1>1, RowSize
  <2>3. /\ IsFiniteSet(sum)
        /\ Cardinality(sum) = Cardinality(RunSlots(running)) + Cardinality(row)
                                - Cardinality(RunSlots(running) \cap row)
    <3> HIDE DEF row
    <3> QED BY <2>2, FS_Union
  <2>4. Cardinality(RunSlots(running) \cap row) \in Nat
    BY FS_Intersection, FS_CardinalityType
  <2> HIDE DEF row, sum
  <2> QED BY <1>1, <1>2, <1>4, <2>1, <2>2, <2>3, <2>4
<1> QED BY <1>3, <1>4

\* A batch that ends takes its tools.
LEMMA EndSlots ==
    ASSUME NEW running \in SUBSET Batches, NEW b \in running, IsFiniteSet(RunSlots(running))
    PROVE  /\ IsFiniteSet(RunSlots(running \ {b}))
           /\ Cardinality(RunSlots(running))
                = Cardinality(RunSlots(running \ {b})) + (IF b.leader THEN 0 ELSE Len(b.tools))
<1> DEFINE n == IF b.leader THEN 0 ELSE Len(b.tools)
           row == {b} \X (1..n)
<1>1. n \in Nat
    BY DEF Batches
<1>2. RunSlots(running \ {b}) = RunSlots(running) \ row
    BY <1>1 DEF RunSlots
<1>3. RunSlots(running) \cap row = row
    BY <1>1 DEF RunSlots
<1>4. IsFiniteSet(row) /\ Cardinality(row) = n
    BY <1>1, RowSize
<1>5. Cardinality(RunSlots(running)) \in Nat
    BY FS_CardinalityType
<1> HIDE DEF row, n
<1>6. /\ IsFiniteSet(RunSlots(running) \ row)
      /\ Cardinality(RunSlots(running) \ row) = Cardinality(RunSlots(running)) - n
    BY <1>3, <1>4, FS_Difference
<1>7. Cardinality(RunSlots(running)) = Cardinality(RunSlots(running \ {b})) + n
    BY <1>1, <1>2, <1>5, <1>6
<1> QED BY <1>2, <1>6, <1>7 DEF n

-----------------------------------------------------------------------------
(* The inductive invariant of a worker, in parts *)

\* No batch is empty.
Filled(v) ==
    /\ \A i \in DOMAIN v.loop : Carries(v.loop[i]) => v.loop[i].tools # <<>>
    /\ \A b \in v.running : b.tools # <<>>

\* Until the end, at least as many tools are counted as out as the loop and the
\* running batches hold (toolResultsOutstanding).
Counted(v) ==
    /\ IsFiniteSet(v.running)
    /\ IsFiniteSet(LoopSlots(v.loop)) /\ IsFiniteSet(RunSlots(v.running))
    /\ ~Terminal(v) =>
          v.outstanding >= Cardinality(LoopSlots(v.loop)) + Cardinality(RunSlots(v.running))

\* A success leaves nothing behind.
Settled(v) ==
    v.outcome = "success" =>
        /\ v.running = {} /\ v.approvals = 0 /\ ~v.open /\ v.queue = 0
        /\ \A i \in DOMAIN v.loop : ~Carries(v.loop[i])

\* A worker that ends has not ended; one that has ended collects no tools.
Ending(v) ==
    /\ v.finishing => v.outcome = "none"
    /\ Terminal(v) => v.tools = <<>>

\* A stopped worker has nothing to come: its request, if one is out, is aborted,
\* unless the refusal of a success has roused it.
Stopped(v) ==
    v.killed =>
        /\ v.approvals = 0
        /\ ~v.roused \/ Terminal(v) => v.queue = 0 /\ (v.busy => v.aborted)

\* Messages never rest without a request or a callback that takes one.
Drained(v) == ~v.busy /\ v.queue > 0 => \E i \in DOMAIN v.loop : v.loop[i].kind = "drain"

\* The stall count is below its limit while the circuit has not fired, but for
\* a worker that no longer hears, or that was stopped and has no request to end.
Patient(v) ==
    \/ v.stall < StallLimit /\ ~v.fired
    \/ Deaf(v)
    \/ v.killed /\ ~(v.busy /\ v.aborted)

\* The parts that each operator of the handler preserves.
Whole(v) ==
    /\ v \in Workers /\ Filled(v) /\ Counted(v) /\ Settled(v)
    /\ Ending(v) /\ Stopped(v) /\ Drained(v)

\* What the operators of the handler leave as it was, or do not undo.
Alike(u, v) ==
    /\ u.killed = v.killed /\ u.roused = v.roused /\ u.begun = v.begun /\ u.running = v.running
    /\ Deaf(v) => Deaf(u)
    /\ Patient(v) => Patient(u)

\* The fields that the parts of Whole speak of.
Core(v) ==
    <<v.loop, v.running, v.outcome, v.outstanding, v.approvals, v.open, v.queue,
      v.finishing, v.tools, v.killed, v.roused, v.busy, v.aborted>>

\* The empty list of tools, and of results.
LEMMA NoTools == <<>> \in Seq(Tools) /\ <<>> \in Seq(Verdicts) /\ Len(<<>>) = 0
    BY EmptySeq

\* The limits are numbers.
LEMMA Bounds ==
    /\ SharedTurns \in Nat \ {0} /\ TurnCap \in Nat \ {0} /\ StallLimit \in Nat \ {0}
    /\ Nudges \in Nat /\ SilentNudges \in Nat /\ MissingNudges \in Nat
    /\ Rejections \in Nat /\ Says \in Nat
    BY LimitsAssumption

\* Other fields do not matter to Whole.
LEMMA SameCore ==
    ASSUME NEW v, NEW u \in Workers, Whole(v), Core(u) = Core(v)
    PROVE  Whole(u)
<1>1. /\ u.loop = v.loop /\ u.running = v.running /\ u.outcome = v.outcome
      /\ u.outstanding = v.outstanding /\ u.approvals = v.approvals /\ u.open = v.open
      /\ u.queue = v.queue /\ u.finishing = v.finishing /\ u.tools = v.tools
      /\ u.killed = v.killed /\ u.roused = v.roused /\ u.busy = v.busy /\ u.aborted = v.aborted
    BY DEF Core
<1>2. Filled(u) /\ Counted(u) /\ Settled(u)
    BY <1>1 DEF Whole, Filled, Counted, Settled, Terminal
<1>3. Ending(u) /\ Stopped(u) /\ Drained(u)
    BY <1>1 DEF Whole, Ending, Stopped, Drained, Terminal
<1> QED BY <1>2, <1>3 DEF Whole

\* Nor to Alike, if the stall count and the circuit are as they were.
LEMMA SameKeeps ==
    ASSUME NEW v, NEW u \in Workers, Whole(v), Core(u) = Core(v),
           u.begun = v.begun, u.stall = v.stall, u.fired = v.fired
    PROVE  Whole(u) /\ Alike(u, v) /\ u.busy = v.busy /\ u.aborted = v.aborted
           /\ u.outcome = v.outcome /\ u.finishing = v.finishing
<1>1. Whole(u)
    BY SameCore
<1>2. /\ u.loop = v.loop /\ u.running = v.running /\ u.outcome = v.outcome
      /\ u.finishing = v.finishing /\ u.killed = v.killed /\ u.roused = v.roused /\ u.busy = v.busy
      /\ u.aborted = v.aborted
    BY DEF Core
<1> QED BY <1>1, <1>2 DEF Alike, Deaf, Terminal, Patient

\* Alike is reflexive,
LEMMA SelfKeeps ==
    ASSUME NEW v
    PROVE  Alike(v, v)
    BY DEF Alike

\* and transitive.
LEMMA AlikeChain ==
    ASSUME NEW u, NEW v, NEW x, Alike(u, v), Alike(x, u)
    PROVE  Alike(x, v)
    BY DEF Alike

\* The report of an end yields a worker again.
LEMMA FinishType ==
    ASSUME NEW v \in Workers, NEW outcome \in {"success", "failure"}
    PROVE  /\ Finish(v, outcome) \in Workers
           /\ Finish(v, outcome) =
                [v EXCEPT !.outcome = outcome, !.tools = <<>>, !.acted = TRUE, !.queue = 0,
                          !.aborted = v.busy]
    BY ZenonT(40), NoTools DEF Workers, Finish

\* A failure can be reported of whatever state the worker is in.
LEMMA FinishFails ==
    ASSUME NEW v, Whole(v), NEW x \in Workers, x.begun = v.begun,
           x.loop = v.loop, x.running = v.running, x.killed = v.killed, x.roused = v.roused,
             x.busy = v.busy,
           x.approvals = v.approvals, x.finishing = FALSE
    PROVE  /\ Whole(Finish(x, "failure")) /\ Alike(Finish(x, "failure"), v)
           /\ Finish(x, "failure").outcome = "failure"
           /\ Finish(x, "failure").busy = v.busy
<1> DEFINE u == Finish(x, "failure")
<1>1. u \in Workers
    BY FinishType
<1>2. /\ u.loop = v.loop /\ u.running = v.running /\ u.outcome = "failure" /\ u.queue = 0
           /\ u.tools = <<>>
      /\ u.busy = v.busy /\ u.killed = v.killed /\ u.roused = v.roused /\ u.begun = v.begun
           /\ u.aborted = u.busy
      /\ u.approvals = v.approvals /\ u.finishing = FALSE
    BY DEF Workers, Finish
<1> HIDE DEF u
<1>3. Terminal(u) /\ Alike(u, v)
    BY <1>2 DEF Terminal, Alike, Deaf, Patient
<1>4. Filled(u)
    BY <1>2 DEF Whole, Filled
<1>5. Counted(u)
    BY <1>2, <1>3 DEF Whole, Counted
<1>6. Settled(u) /\ Ending(u) /\ Stopped(u) /\ Drained(u)
    BY <1>1, <1>2 DEF Whole, Settled, Ending, Stopped, Drained, Workers
<1> QED BY <1>1, <1>2, <1>3, <1>4, <1>5, <1>6 DEF Whole, u

\* The heart of the matter: decideSuccess finds nothing counted as out, so no slot
\* is left in the loop and in the running batches, and the success leaves nothing.
LEMMA FinishSucceeds ==
    ASSUME NEW v, Whole(v), ~Deaf(v), ~Unsettled(v), ~v.open, ~v.killed
    PROVE  /\ Whole(Finish(v, "success")) /\ Alike(Finish(v, "success"), v)
           /\ Finish(v, "success").outcome = "success"
           /\ Finish(v, "success").busy = v.busy
<1> DEFINE u == Finish(v, "success")
<1>1. u \in Workers
    BY FinishType DEF Whole
<1>2. /\ u.loop = v.loop /\ u.running = v.running /\ u.outcome = "success" /\ u.queue = 0
           /\ u.tools = <<>>
      /\ u.busy = v.busy /\ u.killed = v.killed /\ u.roused = v.roused /\ u.begun = v.begun
           /\ u.aborted = u.busy
      /\ u.approvals = v.approvals /\ u.finishing = v.finishing /\ u.open = v.open
    BY DEF Whole, Workers, Finish
<1> HIDE DEF u
<1>3. Terminal(u) /\ Alike(u, v)
    BY <1>2 DEF Terminal, Alike, Deaf, Patient
<1>4. Filled(u)
    BY <1>2 DEF Whole, Filled
<1>5. Counted(u)
    BY <1>2, <1>3 DEF Whole, Counted
<1>6. /\ v.outstanding = 0 /\ v.approvals = 0 /\ v.finishing = FALSE /\ ~Terminal(v)
      /\ \A b \in v.running : ~b.leader
    BY DEF Whole, Workers, Unsettled, ForLeader, Deaf
<1>7. LoopSlots(v.loop) = {} /\ RunSlots(v.running) = {}
  <2>1. /\ IsFiniteSet(LoopSlots(v.loop)) /\ IsFiniteSet(RunSlots(v.running))
        /\ Cardinality(LoopSlots(v.loop)) + Cardinality(RunSlots(v.running)) <= 0
    BY <1>6 DEF Whole, Counted
  <2>2. Cardinality(LoopSlots(v.loop)) \in Nat /\ Cardinality(RunSlots(v.running)) \in Nat
    BY <2>1, FS_CardinalityType
  <2>3. Cardinality(LoopSlots(v.loop)) = 0 /\ Cardinality(RunSlots(v.running)) = 0
    BY <2>1, <2>2
  <2> QED BY <2>1, <2>3, FS_EmptySet
<1>8. v.running = {}
  <2> SUFFICES ASSUME NEW b \in v.running PROVE FALSE
    OBVIOUS
  <2>1. b.tools \in Seq(Tools) /\ b.tools # <<>>
    BY DEF Whole, Workers, Filled
  <2>2. 1 \in 1..Len(b.tools)
    BY <2>1, EmptySeq
  <2>3. <<b, 1>> \in RunSlots(v.running)
    BY <1>6, <2>2 DEF RunSlots
  <2> QED BY <1>7, <2>3
<1>9. ASSUME NEW i \in DOMAIN v.loop, Carries(v.loop[i]) PROVE FALSE
  <2>1. v.loop \in Seq(LoopEntries)
    BY DEF Whole, Workers, LoopEntries
  <2>2. i \in 1..Len(v.loop) /\ v.loop[i] \in LoopEntries
    BY <2>1
  <2>3. v.loop[i].tools \in Seq(Tools) /\ v.loop[i].tools # <<>>
    BY <1>9, <2>2 DEF LoopEntries, Whole, Filled
  <2>4. 1 \in 1..Len(v.loop[i].tools)
    BY <2>3, EmptySeq
  <2>5. <<i, 1>> \in LoopSlots(v.loop)
    BY <1>9, <2>2, <2>4 DEF LoopSlots
  <2> QED BY <1>7, <2>5
<1>10. Settled(u)
    BY <1>2, <1>6, <1>8, <1>9 DEF Settled
<1>11. Ending(u) /\ Stopped(u) /\ Drained(u)
    BY <1>1, <1>2, <1>6 DEF Ending, Stopped, Drained, Workers
<1> QED BY <1>1, <1>2, <1>3, <1>4, <1>5, <1>10, <1>11 DEF Whole, u

\* A callback without tools may be appended at any time.
LEMMA LaterKeeps ==
    ASSUME NEW v, Whole(v), NEW kind \in {"say", "sayLive", "sayOpen", "drain"}
    PROVE  /\ Whole(Later(v, kind)) /\ Alike(Later(v, kind), v) 
           /\ Later(v, kind).busy = v.busy /\ Later(v, kind).outcome = v.outcome
<1> DEFINE u == Later(v, kind)
           c == Callback(kind, <<>>, <<>>)
<1>0. c \in LoopEntries /\ ~Carries(c) /\ c.kind = kind
    BY NoTools DEF LoopEntries, Callback, Kinds, Carries
<1> HIDE DEF c
<1>2. u = [v EXCEPT !.loop = Append(v.loop, c)]
    BY DEF Later, c
<1> HIDE DEF u
<1>3. v \in Workers /\ v.loop \in Seq(LoopEntries) /\ Append(v.loop, c) \in Seq(LoopEntries)
    BY <1>0 DEF Whole, Workers, LoopEntries
<1>1. u \in Workers
    BY ZenonT(40), <1>2, <1>3 DEF Workers, LoopEntries
<1>4. /\ u.loop = Append(v.loop, c) 
      /\ u.running = v.running /\ u.outcome = v.outcome /\ u.queue = v.queue /\ u.tools = v.tools
      /\ u.busy = v.busy /\ u.killed = v.killed /\ u.roused = v.roused /\ u.begun = v.begun
           /\ u.aborted = v.aborted
      /\ u.approvals = v.approvals /\ u.finishing = v.finishing /\ u.outstanding = v.outstanding
      /\ u.open = v.open /\ u.stall = v.stall /\ u.fired = v.fired
    BY <1>2, <1>3 DEF Workers
<1>5. /\ DOMAIN u.loop = 1..(Len(v.loop) + 1) /\ DOMAIN v.loop = 1..Len(v.loop)
           /\ Len(v.loop) \in Nat
      /\ \A i \in DOMAIN v.loop : u.loop[i] = v.loop[i]
      /\ u.loop[Len(v.loop) + 1] = c
    BY <1>3, <1>4, <1>0, AppendProperties, LenProperties
<1>6. Filled(u)
    BY <1>0, <1>4, <1>5 DEF Whole, Filled
<1>7. /\ IsFiniteSet(LoopSlots(u.loop))
      /\ Cardinality(LoopSlots(u.loop)) = Cardinality(LoopSlots(v.loop))
  <2>1. IsFiniteSet(LoopSlots(v.loop))
    BY DEF Whole, Counted
  <2>2. Cardinality(LoopSlots(v.loop)) \in Nat
    BY <2>1, FS_CardinalityType
  <2>3. /\ IsFiniteSet(LoopSlots(Append(v.loop, c)))
        /\ Cardinality(LoopSlots(Append(v.loop, c))) = Cardinality(LoopSlots(v.loop)) + Load(c)
    BY <1>0, <1>3, <2>1, AppendSlots
  <2>4. Load(c) = 0
    BY <1>0 DEF Load
  <2> QED BY <1>4, <2>2, <2>3, <2>4
<1>8. Counted(u)
    BY <1>4, <1>7 DEF Whole, Counted, Terminal
<1>9. Settled(u)
    BY <1>0, <1>4, <1>5 DEF Whole, Settled
<1>10. Ending(u) /\ Stopped(u)
    BY <1>4 DEF Whole, Ending, Stopped, Terminal
<1>11. Drained(u)
    BY <1>0, <1>4, <1>5 DEF Whole, Drained
<1>12. Whole(u)
    BY <1>1, <1>6, <1>8, <1>9, <1>10, <1>11 DEF Whole
<1>13. Alike(u, v)
    BY <1>4 DEF Alike, Deaf, Terminal, Patient
<1> QED BY <1>4, <1>12, <1>13 DEF u

\* A failure is reported at once or after the running tools have ended; the
\* worker hears no more events in either case.
LEMMA FailKeeps ==
    ASSUME NEW v, Whole(v)
    PROVE  Whole(Fail(v)) /\ Alike(Fail(v), v) /\ Fail(v).busy = v.busy /\ Deaf(Fail(v))
<1>1. CASE Deaf(v)
  <2>1. Fail(v) = v
    BY <1>1 DEF Fail
  <2> QED BY <1>1, <2>1, SelfKeeps
<1>2. CASE ~Deaf(v) /\ v.outstanding > 0
  <2> DEFINE u == [v EXCEPT !.finishing = TRUE, !.tools = <<>>, !.waits = Ids(v)]
  <2>1. Fail(v) = u
    BY <1>2 DEF Fail
  <2>2. Ids(v) \in SUBSET Nat
    BY DEF Whole, Workers, Ids
  <2>3. u \in Workers
    BY ZenonT(40), <2>2, NoTools DEF Whole, Workers
  <2>4. /\ u.loop = v.loop /\ u.running = v.running /\ u.outcome = v.outcome
        /\ u.outstanding = v.outstanding /\ u.approvals = v.approvals /\ u.open = v.open
        /\ u.queue = v.queue /\ u.finishing = TRUE /\ u.tools = <<>> /\ u.begun = v.begun
        /\ u.killed = v.killed /\ u.roused = v.roused /\ u.busy = v.busy /\ u.aborted = v.aborted
    BY DEF Whole, Workers
  <2> HIDE DEF u
  <2>5. Filled(u) /\ Counted(u) /\ Settled(u)
    BY <2>4 DEF Whole, Filled, Counted, Settled, Terminal
  <2>6. Ending(u) /\ Stopped(u) /\ Drained(u)
    BY <1>2, <2>4 DEF Whole, Ending, Stopped, Drained, Terminal, Deaf
  <2>7. Deaf(u) /\ Alike(u, v)
    BY <2>4 DEF Alike, Deaf, Patient
  <2> QED BY <2>1, <2>3, <2>4, <2>5, <2>6, <2>7 DEF Whole
<1>3. CASE ~Deaf(v) /\ ~(v.outstanding > 0)
  <2>1. Fail(v) = Finish(v, "failure")
    BY <1>3 DEF Fail
  <2>2. v \in Workers /\ v.finishing = FALSE
    BY <1>3 DEF Whole, Workers, Deaf
  <2>3. /\ Whole(Finish(v, "failure")) /\ Alike(Finish(v, "failure"), v)
        /\ Finish(v, "failure").outcome = "failure"
        /\ Finish(v, "failure").busy = v.busy
    BY <2>2, FinishFails
  <2> QED BY <2>1, <2>3 DEF Deaf, Terminal
<1> QED BY <1>1, <1>2, <1>3

\* fireHardCircuit
LEMMA CircuitKeeps ==
    ASSUME NEW v, Whole(v)
    PROVE  /\ Whole(Circuit(v)) /\ Alike(Circuit(v), v) /\ Circuit(v).busy = v.busy
           /\ ~v.fired /\ ~v.killed => Deaf(Circuit(v))
<1>1. CASE v.fired \/ Gone(v)
  <2>1. Circuit(v) = v
    BY <1>1 DEF Circuit
  <2> QED BY <1>1, <2>1, SelfKeeps DEF Gone, Deaf, Terminal
<1>2. CASE ~(v.fired \/ Gone(v))
  <2> DEFINE u == [v EXCEPT !.fired = TRUE]
  <2>1. Circuit(v) = Fail(u)
    BY <1>2 DEF Circuit
  <2>2. u \in Workers /\ Core(u) = Core(v) /\ u.begun = v.begun /\ u.stall = v.stall
    BY DEF Whole, Workers, Core
  <2> HIDE DEF u
  <2>3. Whole(u) /\ u.busy = v.busy /\ u.killed = v.killed /\ u.roused = v.roused
          /\ u.running = v.running
    BY <2>2, SameCore DEF Core
  <2>4. Whole(Fail(u)) /\ Alike(Fail(u), u) /\ Fail(u).busy = u.busy /\ Deaf(Fail(u))
    BY <2>3, FailKeeps
  <2> QED BY <2>1, <2>2, <2>3, <2>4 DEF Alike, Patient
<1> QED BY <1>1, <1>2

\* The continuation of cancelAgentToolsAndWait
LEMMA SettleKeeps ==
    ASSUME NEW v, Whole(v)
    PROVE  Whole(Settle(v)) /\ Alike(Settle(v), v) /\ Settle(v).busy = v.busy
<1>1. CASE v.finishing /\ v.waits \cap Ids(v) = {}
  <2> DEFINE x == [v EXCEPT !.finishing = FALSE, !.waits = {}, !.outstanding = 0]
  <2>1. Settle(v) = Finish(x, "failure")
    BY <1>1 DEF Settle
  <2>2. /\ x \in Workers /\ x.begun = v.begun /\ x.loop = v.loop /\ x.running = v.running
        /\ x.killed = v.killed /\ x.roused = v.roused /\ x.busy = v.busy
             /\ x.approvals = v.approvals
        /\ x.finishing = FALSE
    BY ZenonT(40) DEF Whole, Workers
  <2> HIDE DEF x
  <2> QED BY <2>1, <2>2, FinishFails
<1>2. CASE ~(v.finishing /\ v.waits \cap Ids(v) = {})
  <2>1. Settle(v) = v
    BY <1>2 DEF Settle
  <2> QED BY <2>1, SelfKeeps
<1> QED BY <1>1, <1>2

\* agent.done with success, while the worker is not stopped
LEMMA SucceedKeeps ==
    ASSUME NEW v, Whole(v), ~v.killed
    PROVE  Whole(Succeed(v)) /\ Alike(Succeed(v), v) /\ Succeed(v).busy = v.busy
<1>1. CASE Deaf(v) \/ Unsettled(v)
  <2>1. Succeed(v) = v
    BY <1>1 DEF Succeed
  <2> QED BY <2>1, SelfKeeps
<1>2. CASE ~Deaf(v) /\ ~Unsettled(v) /\ v.open /\ v.rejected < Rejections
  <2> DEFINE u == [v EXCEPT !.rejected = @ + 1]
  <2>1. Succeed(v) = Later(u, "sayOpen")
    BY <1>2 DEF Succeed
  <2>2. u \in Workers /\ Core(u) = Core(v) /\ u.begun = v.begun /\ u.stall = v.stall
        /\ u.fired = v.fired
    <3>1. v \in Workers /\ v.rejected + 1 \in 0..(Rejections + 1)
      <4>1. v \in Workers /\ v.rejected \in 0..(Rejections + 1)
        BY DEF Whole, Workers
      <4> QED BY <1>2, <4>1, Bounds
    <3> QED BY <3>1 DEF Workers, Core
  <2> HIDE DEF u
  <2>3. Whole(u) /\ Alike(u, v) /\ u.busy = v.busy
    BY <2>2, SameKeeps
  <2> QED BY <2>1, <2>3, LaterKeeps, AlikeChain
<1>3. CASE ~Deaf(v) /\ ~Unsettled(v) /\ v.open /\ ~(v.rejected < Rejections)
  <2> DEFINE u == [v EXCEPT !.rejected = Rejections + 1]
  <2>1. Succeed(v) = Circuit(u)
    BY <1>3 DEF Succeed
  <2>2. u \in Workers /\ Core(u) = Core(v) /\ u.begun = v.begun /\ u.stall = v.stall
        /\ u.fired = v.fired
    <3>1. v \in Workers /\ Rejections + 1 \in 0..(Rejections + 1)
      BY Bounds DEF Whole
    <3> QED BY ZenonT(40), <3>1 DEF Workers, Core
  <2> HIDE DEF u
  <2>3. Whole(u) /\ Alike(u, v) /\ u.busy = v.busy
    BY <2>2, SameKeeps
  <2> QED BY <2>1, <2>3, CircuitKeeps, AlikeChain
<1>4. CASE ~Deaf(v) /\ ~Unsettled(v) /\ ~v.open /\ Unproven(v)
  <2>1. Succeed(v) = Later(v, "say")
    BY <1>4 DEF Succeed
  <2> QED BY <2>1, LaterKeeps
<1>5. CASE ~Deaf(v) /\ ~Unsettled(v) /\ ~v.open /\ ~Unproven(v)
  <2>1. Succeed(v) = Finish(v, "success")
    BY <1>5 DEF Succeed
  <2> QED BY <1>5, <2>1, FinishSucceeds
<1> QED BY <1>1, <1>2, <1>3, <1>4, <1>5

\* agent.state run
LEMMA OnRunKeeps ==
    ASSUME NEW v, Whole(v)
    PROVE  Whole(OnRun(v)) /\ Alike(OnRun(v), v) /\ OnRun(v).busy = v.busy
<1>1. CASE Deaf(v)
  <2>1. OnRun(v) = v
    BY <1>1 DEF OnRun
  <2> QED BY <2>1, SelfKeeps
<1>2. CASE ~Deaf(v) /\ (v.turns = SharedTurns \/ "deadline" \in clock)
  <2>1. OnRun(v) = Circuit(v)
    <3>1. v.turns \in 0..SharedTurns /\ SharedTurns \in Nat
      BY Bounds DEF Whole, Workers
    <3>2. v.turns = SharedTurns => ~(v.turns < SharedTurns)
      BY <3>1
    <3> QED BY <1>2, <3>2 DEF OnRun
  <2> QED BY <2>1, CircuitKeeps
<1>3. ASSUME ~Deaf(v), v.turns # SharedTurns, "deadline" \notin clock
      PROVE  v \in Workers /\ v.turns < SharedTurns /\ v.turns + 1 \in 0..SharedTurns
  <2>1. v \in Workers /\ v.turns \in 0..SharedTurns
    BY DEF Whole, Workers
  <2>2. SharedTurns \in Nat
    BY Bounds
  <2> QED BY <1>3, <2>1, <2>2
<1>4. CASE ~Deaf(v) /\ v.turns # SharedTurns /\ "deadline" \notin clock /\ v.turns = TurnCap
  <2> DEFINE u == [v EXCEPT !.turns = @ + 1]
  <2>1. OnRun(v) = Circuit(u)
    BY <1>3, <1>4 DEF OnRun
  <2>2. u \in Workers /\ Core(u) = Core(v) /\ u.begun = v.begun /\ u.stall = v.stall
        /\ u.fired = v.fired
    BY <1>3, <1>4 DEF Workers, Core
  <2> HIDE DEF u
  <2>3. Whole(u) /\ Alike(u, v) /\ u.busy = v.busy
    BY <2>2, SameKeeps
  <2> QED BY <2>1, <2>3, CircuitKeeps, AlikeChain
<1>5. CASE ~Deaf(v) /\ v.turns # SharedTurns /\ "deadline" \notin clock /\ v.turns # TurnCap
  <2> DEFINE kept == IF v.nudge THEN v.cont ELSE 0
             u == [v EXCEPT !.turns = @ + 1, !.acted = FALSE, !.corrected = FALSE,
                            !.cont = kept, !.nudge = FALSE]
  <2>1. OnRun(v) = u
    BY <1>3, <1>5 DEF OnRun
  <2>2. kept \in 0..Nudges \cup 0..SilentNudges
    <3>1. v.cont \in 0..Nudges \cup 0..SilentNudges
      BY DEF Whole, Workers
    <3> QED BY <3>1, Bounds
  <2>4. v \in Workers
    BY DEF Whole
  <2> HIDE DEF kept
  <2>3. u \in Workers /\ Core(u) = Core(v) /\ u.begun = v.begun /\ u.stall = v.stall
        /\ u.fired = v.fired
    <3>1. v.turns + 1 \in 0..SharedTurns
      BY <1>3, <1>5
    <3>2. u \in Workers
      BY ZenonT(40), <2>2, <2>4, <3>1 DEF Workers
    <3>3. Core(u) = Core(v) /\ u.begun = v.begun /\ u.stall = v.stall
        /\ u.fired = v.fired
      BY <2>4 DEF Workers, Core
    <3> QED BY <3>2, <3>3
  <2> HIDE DEF u
  <2> QED BY <2>1, <2>3, SameKeeps
<1> QED BY <1>1, <1>2, <1>4, <1>5

\* What a request makes of the worker, apart from its being busy.
LEMMA SendKeeps ==
    ASSUME NEW v, v \in Workers, Filled(v), Counted(v), Settled(v), Ending(v),
           v.killed => v.roused /\ v.approvals = 0 /\ ~Terminal(v)
    PROVE  Whole(Send(v)) /\ Alike(Send(v), v) /\ Send(v).busy
<1> DEFINE u == [v EXCEPT !.busy = TRUE, !.aborted = FALSE]
<1>1. Send(v) = OnRun(u)
    BY DEF Send
<1>2. /\ u \in Workers /\ u.loop = v.loop /\ u.running = v.running /\ u.outcome = v.outcome
      /\ u.outstanding = v.outstanding /\ u.approvals = v.approvals /\ u.open = v.open
      /\ u.queue = v.queue /\ u.finishing = v.finishing /\ u.tools = v.tools
      /\ u.begun = v.begun /\ u.stall = v.stall /\ u.fired = v.fired /\ u.killed = v.killed
           /\ u.roused = v.roused /\ u.busy = TRUE /\ u.aborted = FALSE
    BY ZenonT(40) DEF Workers
<1> HIDE DEF u
<1>3. Filled(u) /\ Counted(u)
    BY <1>2 DEF Filled, Counted, Terminal
<1>4. Settled(u) /\ Ending(u) /\ Stopped(u) /\ Drained(u)
    BY <1>2 DEF Settled, Ending, Stopped, Drained, Terminal
<1>5. Whole(u)
    BY <1>2, <1>3, <1>4 DEF Whole
<1>6. Alike(u, v)
    BY <1>2 DEF Alike, Deaf, Terminal, Patient
<1> QED BY <1>1, <1>2, <1>5, <1>6, OnRunKeeps, AlikeChain

\* A message for the agent: sent, or queued behind the request that is out.
LEMMA EnqueueKeeps ==
    ASSUME NEW v, Whole(v), v.outcome = "success" => ~v.busy,
           v.killed => v.roused /\ v.approvals = 0 /\ ~Terminal(v)
    PROVE  Whole(Enqueue(v)) /\ Alike(Enqueue(v), v) /\ Enqueue(v).busy
<1>1. CASE ~v.busy
  <2>1. Enqueue(v) = Send(v)
    BY <1>1 DEF Enqueue
  <2> QED BY <2>1, SendKeeps DEF Whole
<1>2. CASE v.busy
  <2> DEFINE u == [v EXCEPT !.queue = @ + 1]
  <2>1. Enqueue(v) = u
    BY <1>2 DEF Enqueue
  <2>2. /\ u \in Workers /\ u.loop = v.loop /\ u.running = v.running /\ u.outcome = v.outcome
        /\ u.outstanding = v.outstanding /\ u.approvals = v.approvals /\ u.open = v.open
        /\ u.finishing = v.finishing /\ u.tools = v.tools
        /\ u.begun = v.begun /\ u.stall = v.stall /\ u.fired = v.fired /\ u.killed = v.killed
             /\ u.roused = v.roused /\ u.busy = v.busy /\ u.aborted = v.aborted
    <3>1. v \in Workers /\ v.queue + 1 \in Nat
      BY DEF Whole, Workers
    <3> QED BY ZenonT(40), <3>1 DEF Workers
  <2> HIDE DEF u
  <2>3. Filled(u) /\ Counted(u)
    BY <2>2 DEF Whole, Filled, Counted, Terminal
  <2>4. Settled(u) /\ Ending(u) /\ Stopped(u) /\ Drained(u)
    BY <1>2, <2>2 DEF Whole, Settled, Ending, Stopped, Drained, Terminal
  <2>5. Alike(u, v)
    BY <2>2 DEF Alike, Deaf, Terminal, Patient
  <2> QED BY <1>2, <2>1, <2>2, <2>3, <2>4, <2>5 DEF Whole
<1>3. v.busy \in BOOLEAN
    BY DEF Whole, Workers
<1> QED BY <1>1, <1>2, <1>3

\* The end of a request leaves a callback for what waits.
LEMMA EndOfSendKeeps ==
    ASSUME NEW v, Whole(v), Patient(v) \/ v.killed
    PROVE  /\ Whole(EndOfSend(v)) /\ Patient(EndOfSend(v)) /\ ~EndOfSend(v).busy
           /\ EndOfSend(v).killed = v.killed /\ EndOfSend(v).begun = v.begun
           /\ EndOfSend(v).running = v.running
<1> DEFINE u == [v EXCEPT !.busy = FALSE, !.aborted = FALSE]
           c == Callback("drain", <<>>, <<>>)
           x == [v EXCEPT !.busy = FALSE, !.aborted = FALSE, !.loop = Append(v.loop, c)]
           y == Later(v, "drain")
<1>1. /\ u \in Workers /\ u.loop = v.loop /\ u.running = v.running /\ u.outcome = v.outcome
      /\ u.outstanding = v.outstanding /\ u.approvals = v.approvals /\ u.open = v.open
      /\ u.queue = v.queue /\ u.finishing = v.finishing /\ u.tools = v.tools
      /\ u.begun = v.begun /\ u.stall = v.stall /\ u.fired = v.fired /\ u.killed = v.killed
           /\ u.roused = v.roused /\ u.busy = FALSE
    BY ZenonT(40) DEF Whole, Workers
<1>2. u.queue \in Nat
    BY <1>1 DEF Workers
<1>3. CASE ~(u.queue > 0)
  <2>1. EndOfSend(v) = u
    BY <1>3 DEF EndOfSend
  <2> HIDE DEF u
  <2>2. Filled(u) /\ Counted(u)
    BY <1>1 DEF Whole, Filled, Counted, Terminal
  <2>3. Settled(u) /\ Ending(u) /\ Stopped(u) /\ Drained(u)
    BY <1>1, <1>3 DEF Whole, Settled, Ending, Stopped, Drained, Terminal
  <2>4. Patient(u)
    BY <1>1 DEF Patient, Deaf, Terminal
  <2> QED BY <1>1, <2>1, <2>2, <2>3, <2>4 DEF Whole
<1>4. CASE u.queue > 0
  <2>1. EndOfSend(v) = Later(u, "drain")
    BY <1>4 DEF EndOfSend
  <2>2. Later(u, "drain") = x
    BY DEF Later, Whole, Workers
  <2>3. y = [v EXCEPT !.loop = Append(v.loop, c)]
    BY DEF Later
  <2>4. /\ x.loop = Append(v.loop, c) /\ x.running = v.running /\ x.outcome = v.outcome
        /\ x.outstanding = v.outstanding /\ x.approvals = v.approvals /\ x.open = v.open
        /\ x.queue = v.queue /\ x.finishing = v.finishing /\ x.tools = v.tools
        /\ x.begun = v.begun /\ x.stall = v.stall /\ x.fired = v.fired /\ x.killed = v.killed
             /\ x.roused = v.roused /\ x.busy = FALSE
    BY DEF Whole, Workers
  <2>5. /\ y.loop = Append(v.loop, c) /\ y.running = v.running /\ y.outcome = v.outcome
        /\ y.outstanding = v.outstanding /\ y.approvals = v.approvals /\ y.open = v.open
        /\ y.queue = v.queue /\ y.finishing = v.finishing /\ y.tools = v.tools
    BY <2>3 DEF Whole, Workers
  <2>6. Whole(y)
    BY LaterKeeps
  <2>7. x \in Workers
    <3>1. v.loop \in Seq(LoopEntries) /\ c \in LoopEntries
      BY NoTools DEF Whole, Workers, LoopEntries, Callback, Kinds
    <3>2. v \in Workers /\ Append(v.loop, c) \in Seq(LoopEntries)
      BY <3>1 DEF Whole
    <3> HIDE DEF c
    <3> QED BY ZenonT(40), <3>2 DEF Workers, LoopEntries
  <2>8. \E i \in DOMAIN x.loop : x.loop[i].kind = "drain"
    <3>1. v.loop \in Seq(LoopEntries) /\ c \in LoopEntries /\ c.kind = "drain"
      BY NoTools DEF Whole, Workers, LoopEntries, Callback, Kinds
    <3> HIDE DEF c, x
    <3>2. x.loop \in Seq(LoopEntries) /\ x.loop[Len(v.loop) + 1] = c
            /\ Len(x.loop) = Len(v.loop) + 1
      BY <2>4, <3>1, AppendProperties
    <3>3. Len(v.loop) + 1 \in DOMAIN x.loop
      BY <3>1, <3>2, LenProperties
    <3> QED BY <3>1, <3>2, <3>3
  <2> HIDE DEF x, y, u, c
  <2>9. Filled(x) /\ Counted(x)
    BY <2>4, <2>5, <2>6 DEF Whole, Filled, Counted, Terminal
  <2>10. Settled(x) /\ Ending(x) /\ Stopped(x)
    BY <2>4, <2>5, <2>6 DEF Whole, Settled, Ending, Stopped, Terminal
  <2>11. Drained(x)
    BY <2>8 DEF Drained
  <2>12. Patient(x)
    BY <2>4 DEF Patient, Deaf, Terminal
  <2> QED BY <2>1, <2>2, <2>4, <2>7, <2>9, <2>10, <2>11, <2>12 DEF Whole
<1> QED BY <1>2, <1>3, <1>4

\* What a worker that runs may change freely.
LEMMA TouchKeeps ==
    ASSUME NEW v, Whole(v), ~Terminal(v), ~v.killed, NEW u \in Workers,
           u.loop = v.loop, u.running = v.running, u.outcome = v.outcome,
           u.outstanding = v.outstanding, u.queue = v.queue, u.finishing = v.finishing,
           u.killed = v.killed, u.roused = v.roused, u.busy = v.busy, u.begun = v.begun,
             u.stall = v.stall,
           u.fired = v.fired
    PROVE  Whole(u) /\ Alike(u, v) /\ ~Terminal(u) /\ ~u.killed /\ (Deaf(u) <=> Deaf(v))
<1>1. u.outcome = "none" /\ v.outcome = "none"
    BY DEF Terminal
<1>2. Filled(u) /\ Counted(u)
    BY DEF Whole, Filled, Counted, Terminal
<1>3. Settled(u) /\ Ending(u) /\ Stopped(u) /\ Drained(u)
    BY <1>1 DEF Whole, Settled, Ending, Stopped, Drained, Terminal
<1>4. Alike(u, v) /\ (Deaf(u) <=> Deaf(v))
    BY DEF Alike, Deaf, Terminal, Patient
<1> QED BY <1>1, <1>2, <1>3, <1>4 DEF Whole, Terminal

\* The callback that takes a message from the queue
LEMMA DrainKeeps ==
    ASSUME NEW v, v \in Workers, Filled(v), Counted(v), Settled(v), Ending(v), Stopped(v),
           Drained(v) \/ (~v.busy /\ v.queue > 0)
    PROVE  /\ Whole(Drain(v)) /\ Alike(Drain(v), v)
           /\ Drain(v).busy => v.busy \/ ~Gone(v) \/ (v.killed /\ v.roused /\ ~Terminal(v))
<1>1. CASE ~v.busy /\ v.queue > 0
  <2> DEFINE u == [v EXCEPT !.queue = @ - 1]
  <2>1. Drain(v) = Send(u)
    BY <1>1 DEF Drain
  <2>2. /\ v.outcome # "success"
        /\ v.killed => v.roused /\ v.approvals = 0 /\ ~Terminal(v)
    BY <1>1 DEF Settled, Stopped
  <2>3. /\ u \in Workers /\ u.loop = v.loop /\ u.running = v.running /\ u.outcome = v.outcome
        /\ u.outstanding = v.outstanding /\ u.approvals = v.approvals /\ u.open = v.open
        /\ u.finishing = v.finishing /\ u.tools = v.tools /\ u.begun = v.begun
        /\ u.stall = v.stall /\ u.fired = v.fired /\ u.killed = v.killed /\ u.roused = v.roused
             /\ u.busy = v.busy
        /\ u.aborted = v.aborted
    <3>1. v.queue - 1 \in Nat
      BY <1>1 DEF Workers
    <3> QED BY ZenonT(40), <3>1 DEF Workers
  <2> HIDE DEF u
  <2>4. Filled(u) /\ Counted(u)
    BY <2>3 DEF Filled, Counted, Terminal
  <2>5. Settled(u) /\ Ending(u)
    BY <2>2, <2>3 DEF Settled, Ending, Terminal
  <2>6. Alike(u, v) /\ (u.killed => u.roused /\ u.approvals = 0 /\ ~Terminal(u))
    BY <2>2, <2>3 DEF Alike, Deaf, Terminal, Patient
  <2>7. Whole(Send(u)) /\ Alike(Send(u), u)
    BY <2>3, <2>4, <2>5, <2>6, SendKeeps
  <2> QED BY <2>1, <2>2, <2>6, <2>7, AlikeChain DEF Gone
<1>2. CASE ~(~v.busy /\ v.queue > 0)
  <2>1. Drain(v) = v
    BY <1>2 DEF Drain
  <2> QED BY <1>2, <2>1, SelfKeeps DEF Whole
<1> QED BY <1>1, <1>2

\* What one event leaves of a worker that hears it.
Heard(u, v) == Whole(u) /\ Alike(u, v) /\ u.busy

\* tool.call
LEMMA OnCallKeeps ==
    ASSUME NEW v, Whole(v), ~Deaf(v), v.busy, ~v.killed, NEW tool \in Tools
    PROVE  Heard(OnCall(v, tool), v)
<1> DEFINE same == IF v.last = tool THEN IF v.same < 3 THEN v.same + 1 ELSE 3 ELSE 1
           u == [v EXCEPT !.acted = TRUE, !.ranTest = @ \/ tool = "test",
                          !.last = tool, !.same = same]
           asked == [u EXCEPT !.approvals = @ + 1]
           kept == [u EXCEPT !.tools = Append(@, tool)]
<1>1. v \in Workers /\ same \in 0..3 /\ tool \in Tools \cup {"none"}
    BY DEF Whole, Workers
<1>2. (v.ranTest \/ tool = "test") \in BOOLEAN
    OBVIOUS
<1> DEFINE tested == v.ranTest \/ tool = "test"
<1>3. u = [v EXCEPT !.acted = TRUE, !.ranTest = tested, !.last = tool, !.same = same]
    OBVIOUS
<1> HIDE DEF same, tested, u
<1>4. u \in Workers
  <2> DEFINE x == [v EXCEPT !.acted = TRUE, !.ranTest = tested]
  <2>1. tested \in BOOLEAN
    BY <1>2 DEF tested
  <2>2. x \in Workers
    BY ZenonT(40), <1>1, <2>1 DEF Workers
  <2>3. u = [x EXCEPT !.last = tool, !.same = same]
    BY <1>1, <1>3 DEF Workers
  <2> HIDE DEF x
  <2> DEFINE y == [x EXCEPT !.last = tool]
  <2>4. y \in Workers
    BY ZenonT(40), <1>1, <2>2 DEF Workers
  <2>5. u = [y EXCEPT !.same = same]
    BY <1>1, <2>2, <2>3 DEF Workers
  <2> HIDE DEF y
  <2> QED BY ZenonT(40), <1>1, <2>4, <2>5 DEF Workers
<1>5. /\ u.loop = v.loop /\ u.running = v.running /\ u.outcome = v.outcome
      /\ u.outstanding = v.outstanding /\ u.queue = v.queue /\ u.finishing = v.finishing
      /\ u.killed = v.killed /\ u.roused = v.roused /\ u.busy = v.busy /\ u.begun = v.begun
           /\ u.stall = v.stall
      /\ u.fired = v.fired /\ u.approvals = v.approvals /\ u.tools = v.tools
    BY <1>1, <1>3 DEF Workers
<1>6. ~Terminal(v)
    BY DEF Deaf
<1>7. Whole(u) /\ Alike(u, v) /\ ~Terminal(u) /\ ~u.killed
    BY <1>4, <1>5, <1>6, TouchKeeps
<1>8. OnCall(v, tool) \in {Enqueue(u), asked, kept}
    BY DEF OnCall, u, same
<1>9. Heard(Enqueue(u), v)
    BY <1>5, <1>7, EnqueueKeeps, AlikeChain DEF Heard, Terminal
<1>10. Heard(asked, v)
  <2>1. u.approvals + 1 \in Nat
    BY <1>4 DEF Workers
  <2>2. asked \in Workers
    BY <1>4, <2>1 DEF Workers
  <2>3. /\ asked.loop = v.loop /\ asked.running = v.running /\ asked.outcome = v.outcome
        /\ asked.outstanding = v.outstanding /\ asked.queue = v.queue
        /\ asked.finishing = v.finishing /\ asked.killed = v.killed /\ asked.roused = v.roused
             /\ asked.busy = v.busy
        /\ asked.begun = v.begun /\ asked.stall = v.stall /\ asked.fired = v.fired
    BY <1>4, <1>5 DEF Workers
  <2> HIDE DEF asked
  <2> QED BY <1>6, <2>2, <2>3, TouchKeeps DEF Heard
<1>11. Heard(kept, v)
  <2>1. Append(u.tools, tool) \in Seq(Tools)
    BY <1>4 DEF Workers
  <2>2. kept \in Workers
    BY <1>4, <2>1 DEF Workers
  <2>3. /\ kept.loop = v.loop /\ kept.running = v.running /\ kept.outcome = v.outcome
        /\ kept.outstanding = v.outstanding /\ kept.queue = v.queue
        /\ kept.finishing = v.finishing /\ kept.killed = v.killed /\ kept.roused = v.roused
             /\ kept.busy = v.busy
        /\ kept.begun = v.begun /\ kept.stall = v.stall /\ kept.fired = v.fired
    BY <1>4, <1>5 DEF Workers
  <2> HIDE DEF kept
  <2> QED BY <1>6, <2>2, <2>3, TouchKeeps DEF Heard
<1> HIDE DEF asked, kept
<1> QED BY <1>8, <1>9, <1>10, <1>11

\* An illegal message
LEMMA OnStrayKeeps ==
    ASSUME NEW v, Whole(v), ~Deaf(v), v.busy, ~v.killed
    PROVE  Heard(OnStray(v), v)
<1> DEFINE u == [v EXCEPT !.acted = TRUE, !.corrected = TRUE]
<1>1. /\ u \in Workers
      /\ u.loop = v.loop /\ u.running = v.running /\ u.outcome = v.outcome
      /\ u.outstanding = v.outstanding /\ u.queue = v.queue /\ u.finishing = v.finishing
      /\ u.killed = v.killed /\ u.roused = v.roused /\ u.busy = v.busy /\ u.begun = v.begun
           /\ u.stall = v.stall
      /\ u.fired = v.fired
    BY ZenonT(40) DEF Whole, Workers
<1>2. OnStray(v) \in {u, Later(u, "say")}
    BY DEF OnStray
<1> HIDE DEF u
<1>3. ~Terminal(v)
    BY DEF Deaf
<1>4. Whole(u) /\ Alike(u, v) /\ u.busy
    BY <1>1, <1>3, TouchKeeps
<1>5. Whole(Later(u, "say")) /\ Alike(Later(u, "say"), u) /\ Later(u, "say").busy
    BY <1>4, LaterKeeps
<1> QED BY <1>2, <1>4, <1>5, AlikeChain DEF Heard

\* Any event of an answer
LEMMA OnEventKeeps ==
    ASSUME NEW v, Whole(v), v.busy, ~v.killed, NEW e \in Events
    PROVE  Heard(OnEvent(v, e), v)
<1>1. CASE Deaf(v) \/ e = "plan"
  <2>1. OnEvent(v, e) = v
    BY <1>1 DEF OnEvent, Tools
  <2> QED BY <2>1, SelfKeeps DEF Heard
<1>2. CASE ~Deaf(v) /\ e \in Tools
  <2>1. OnEvent(v, e) = OnCall(v, e)
    BY <1>2 DEF OnEvent, Tools
  <2> QED BY <1>2, <2>1, OnCallKeeps
<1>3. CASE ~Deaf(v) /\ e = "talk"
  <2> DEFINE u == [v EXCEPT !.acted = TRUE]
  <2>1. OnEvent(v, e) = u
    BY <1>3 DEF OnEvent, Tools
  <2>2. /\ u \in Workers
        /\ u.loop = v.loop /\ u.running = v.running /\ u.outcome = v.outcome
        /\ u.outstanding = v.outstanding /\ u.queue = v.queue /\ u.finishing = v.finishing
        /\ u.killed = v.killed /\ u.roused = v.roused /\ u.busy = v.busy /\ u.begun = v.begun
             /\ u.stall = v.stall
        /\ u.fired = v.fired
    BY ZenonT(40) DEF Whole, Workers
  <2> HIDE DEF u
  <2>3. ~Terminal(v)
    BY <1>3 DEF Deaf
  <2> QED BY <2>1, <2>2, <2>3, TouchKeeps DEF Heard
<1>4. CASE ~Deaf(v) /\ e = "stray"
  <2>1. OnEvent(v, e) = OnStray(v)
    BY <1>4 DEF OnEvent, Tools
  <2> QED BY <1>4, <2>1, OnStrayKeeps
<1>5. CASE ~Deaf(v) /\ e \in {"opens", "closes"}
  <2> DEFINE opened == (e = "opens")
             u == [v EXCEPT !.open = opened]
  <2>1. OnEvent(v, e) = u
    BY <1>5 DEF OnEvent, Tools
  <2>2. opened \in BOOLEAN
    OBVIOUS
  <2> HIDE DEF opened
  <2>3. /\ u \in Workers
        /\ u.loop = v.loop /\ u.running = v.running /\ u.outcome = v.outcome
        /\ u.outstanding = v.outstanding /\ u.queue = v.queue /\ u.finishing = v.finishing
        /\ u.killed = v.killed /\ u.roused = v.roused /\ u.busy = v.busy /\ u.begun = v.begun
             /\ u.stall = v.stall
        /\ u.fired = v.fired
    BY ZenonT(40), <2>2 DEF Whole, Workers
  <2> HIDE DEF u
  <2>4. ~Terminal(v)
    BY <1>5 DEF Deaf
  <2> QED BY <2>1, <2>3, <2>4, TouchKeeps DEF Heard
<1>6. CASE ~Deaf(v) /\ e = "done"
  <2>1. OnEvent(v, e) = Succeed(v)
    BY <1>6 DEF OnEvent, Tools
  <2> QED BY <2>1, SucceedKeeps DEF Heard
<1>7. CASE ~Deaf(v) /\ e = "fails"
  <2>1. OnEvent(v, e) = Fail(v)
    BY <1>7 DEF OnEvent, Tools
  <2> QED BY <2>1, FailKeeps DEF Heard
<1> QED BY <1>1, <1>2, <1>3, <1>4, <1>5, <1>6, <1>7 DEF Events

\* Nothing but a report of the worker itself makes it a success.
LEMMA OnlyFailures ==
    ASSUME NEW v \in Workers
    PROVE  /\ Fail(v).outcome \in {v.outcome, "failure"}
           /\ Circuit(v).outcome \in {v.outcome, "failure"}
           /\ OnRun(v).outcome \in {v.outcome, "failure"}
           /\ Send(v).outcome \in {v.outcome, "failure"}
           /\ Enqueue(v).outcome \in {v.outcome, "failure"}
           /\ Settle(v).outcome \in {v.outcome, "failure"}
<1>1. ASSUME NEW u \in Workers PROVE Finish(u, "failure").outcome = "failure"
    BY DEF Finish, Workers
<1>2. ASSUME NEW u \in Workers PROVE Fail(u).outcome \in {u.outcome, "failure"}
  <2> DEFINE x == [u EXCEPT !.finishing = TRUE, !.tools = <<>>, !.waits = Ids(u)]
  <2>1. x.outcome = u.outcome
    BY DEF Workers
  <2>2. Fail(u) \in {u, x, Finish(u, "failure")}
    BY DEF Fail
  <2> HIDE DEF x
  <2> QED BY <1>1, <2>1, <2>2
<1>3. ASSUME NEW u \in Workers PROVE Circuit(u).outcome \in {u.outcome, "failure"}
  <2> DEFINE x == [u EXCEPT !.fired = TRUE]
  <2>1. x.outcome = u.outcome /\ x \in Workers
    BY ZenonT(40) DEF Workers
  <2>2. Circuit(u) \in {u, Fail(x)}
    BY DEF Circuit
  <2> HIDE DEF x
  <2> QED BY <1>2, <2>1, <2>2
<1>4. ASSUME NEW u \in Workers PROVE OnRun(u).outcome \in {u.outcome, "failure"}
  <2> DEFINE x == [u EXCEPT !.turns = @ + 1]
             kept == IF u.nudge THEN u.cont ELSE 0
             y == [u EXCEPT !.turns = @ + 1, !.acted = FALSE, !.corrected = FALSE,
                            !.cont = kept, !.nudge = FALSE]
  <2>0. u.turns \in Nat
    BY Bounds DEF Workers
  <2>1. x.outcome = u.outcome /\ y.outcome = u.outcome
    BY DEF Workers
  <2>2. u.turns < SharedTurns => u.turns # SharedTurns
    BY <2>0, Bounds
  <2>3. \/ OnRun(u) \in {u, Circuit(u), y}
        \/ OnRun(u) = Circuit(x) /\ u.turns < SharedTurns
    BY <2>2 DEF OnRun
  <2>4. u.turns < SharedTurns => x \in Workers
    <3>1. u.turns < SharedTurns => u.turns + 1 \in 0..SharedTurns
      BY <2>0, Bounds
    <3> QED BY ZenonT(40), <3>1 DEF Workers
  <2> HIDE DEF x, y
  <2> QED BY <1>3, <2>1, <2>3, <2>4
<1>5. ASSUME NEW u \in Workers PROVE Send(u).outcome \in {u.outcome, "failure"}
  <2> DEFINE x == [u EXCEPT !.busy = TRUE, !.aborted = FALSE]
  <2>1. x.outcome = u.outcome /\ x \in Workers
    <3>1. x.outcome = u.outcome
      BY DEF Workers
    <3>2. x \in Workers
      BY ZenonT(40) DEF Workers
    <3> QED BY <3>1, <3>2
  <2>2. Send(u) = OnRun(x)
    BY DEF Send
  <2> HIDE DEF x
  <2> QED BY <1>4, <2>1, <2>2
<1>6. Enqueue(v).outcome \in {v.outcome, "failure"}
  <2>1. [v EXCEPT !.queue = @ + 1].outcome = v.outcome
    BY DEF Workers
  <2> QED BY <1>5, <2>1 DEF Enqueue
<1>7. Settle(v).outcome \in {v.outcome, "failure"}
  <2> DEFINE x == [v EXCEPT !.finishing = FALSE, !.waits = {}, !.outstanding = 0]
  <2>1. x.outcome = v.outcome /\ x \in Workers
    BY ZenonT(40) DEF Workers
  <2>2. Settle(v) \in {v, Finish(x, "failure")}
    BY DEF Settle
  <2> HIDE DEF x
  <2> QED BY <1>1, <2>1, <2>2
<1> QED BY <1>2, <1>3, <1>4, <1>5, <1>6, <1>7

\* Tools are handed over as one batch; the count of what is out grows by them.
LEMMA HandOverKeeps ==
    ASSUME NEW v, Whole(v), ~Terminal(v), v.tools # <<>>, NEW u,
           u = [v EXCEPT !.loop = Append(@, Callback("batch", v.tools, <<>>)),
                         !.outstanding = @ + Len(v.tools), !.tools = <<>>]
    PROVE  Whole(u) /\ Alike(u, v) /\ u.busy = v.busy /\ u.cont = v.cont
<1> DEFINE c == Callback("batch", v.tools, <<>>)
<1>1. v \in Workers /\ v.loop \in Seq(LoopEntries) /\ v.tools \in Seq(Tools)
    BY DEF Whole, Workers, LoopEntries
<1>2. c \in LoopEntries /\ Carries(c) /\ c.tools = v.tools /\ c.kind = "batch"
    BY <1>1, NoTools DEF LoopEntries, Callback, Kinds, Carries
<1>3. Append(v.loop, c) \in Seq(LoopEntries) /\ v.outstanding + Len(v.tools) \in Nat
    BY <1>1, <1>2 DEF Workers
<1>4. u = [v EXCEPT !.loop = Append(v.loop, c), !.outstanding = v.outstanding + Len(v.tools),
                    !.tools = <<>>]
    OBVIOUS
<1> HIDE DEF c
<1>5. u \in Workers
  <2>0. <<>> \in Seq(Tools)
    BY NoTools
  <2> DEFINE x == [v EXCEPT !.loop = Append(v.loop, c)]
             y == [x EXCEPT !.outstanding = v.outstanding + Len(v.tools)]
  <2>1. x \in Workers
    BY <1>1, <1>3 DEF Workers, LoopEntries
  <2>2. y \in Workers
    BY ZenonT(40), <1>3, <2>1 DEF Workers
  <2>3. u = [y EXCEPT !.tools = <<>>]
    BY <1>1, <1>4 DEF Workers
  <2> HIDE DEF x, y
  <2> DEFINE z == [y EXCEPT !.tools = <<>>]
  <2>4. z \in Workers
    BY <2>0, <2>2 DEF Workers
  <2> HIDE DEF z
  <2> QED BY <2>3, <2>4 DEF z
<1>6. /\ u.loop = Append(v.loop, c) /\ u.outstanding = v.outstanding + Len(v.tools)
      /\ u.tools = <<>> /\ u.running = v.running /\ u.outcome = v.outcome
      /\ u.queue = v.queue /\ u.busy = v.busy /\ u.killed = v.killed /\ u.roused = v.roused
           /\ u.begun = v.begun
      /\ u.aborted = v.aborted /\ u.approvals = v.approvals /\ u.finishing = v.finishing
      /\ u.open = v.open /\ u.stall = v.stall /\ u.fired = v.fired /\ u.cont = v.cont
    BY ZenonT(40), <1>1, <1>4 DEF Workers
<1>7. /\ DOMAIN u.loop = 1..(Len(v.loop) + 1) /\ DOMAIN v.loop = 1..Len(v.loop)
      /\ Len(v.loop) \in Nat /\ u.loop[Len(v.loop) + 1] = c
      /\ \A i \in DOMAIN v.loop : u.loop[i] = v.loop[i]
    BY <1>1, <1>2, <1>6, AppendProperties, LenProperties
<1>8. Filled(u)
    BY <1>2, <1>6, <1>7 DEF Whole, Filled
<1>9. Counted(u)
  <2>1. /\ IsFiniteSet(LoopSlots(v.loop)) /\ IsFiniteSet(RunSlots(v.running))
        /\ IsFiniteSet(v.running)
        /\ v.outstanding >= Cardinality(LoopSlots(v.loop)) + Cardinality(RunSlots(v.running))
    BY DEF Whole, Counted
  <2>2. Cardinality(LoopSlots(v.loop)) \in Nat /\ Cardinality(RunSlots(v.running)) \in Nat
    BY <2>1, FS_CardinalityType
  <2>3. /\ IsFiniteSet(LoopSlots(u.loop))
        /\ Cardinality(LoopSlots(u.loop)) = Cardinality(LoopSlots(v.loop)) + Load(c)
    BY <1>1, <1>2, <1>6, <2>1, AppendSlots
  <2>4. Load(c) = Len(v.tools) /\ Len(v.tools) \in Nat /\ v.outstanding \in Nat
    BY <1>1, <1>2 DEF Load, Workers
  <2> QED BY <1>6, <2>1, <2>2, <2>3, <2>4 DEF Counted
<1>10. Settled(u)
    BY <1>6 DEF Settled, Terminal
<1>11. Ending(u) /\ Stopped(u) /\ Drained(u)
    BY <1>6, <1>7 DEF Whole, Ending, Stopped, Drained, Terminal
<1>12. Alike(u, v)
    BY <1>6 DEF Alike, Deaf, Terminal, Patient
<1> QED BY <1>5, <1>6, <1>8, <1>9, <1>10, <1>11, <1>12 DEF Whole

\* A reminder
LEMMA RemindedKeeps ==
    ASSUME NEW v, Whole(v), NEW kind \in {"say", "sayLive"}
    PROVE  /\ Whole(Reminded(v, kind)) /\ Alike(Reminded(v, kind), v)
           /\ Reminded(v, kind).busy = v.busy
<1> DEFINE u == [v EXCEPT !.nudge = TRUE]
<1>1. Reminded(v, kind) = Later(u, kind)
    BY DEF Reminded
<1>2. u \in Workers /\ Core(u) = Core(v) /\ u.begun = v.begun /\ u.stall = v.stall
      /\ u.fired = v.fired
    BY ZenonT(40) DEF Whole, Workers, Core
<1> HIDE DEF u
<1>3. Whole(u) /\ Alike(u, v) /\ u.busy = v.busy
    BY <1>2, SameKeeps
<1> QED BY <1>1, <1>3, LaterKeeps, AlikeChain

\* A reminder of open todos, counted below one of the two limits.
LEMMA CountedReminder ==
    ASSUME NEW v, Whole(v), NEW limit \in {Nudges, SilentNudges}, v.cont < limit
    PROVE  LET r == Reminded([v EXCEPT !.cont = @ + 1], "say")
           IN  Whole(r) /\ Alike(r, v) /\ r.busy = v.busy
<1> DEFINE u == [v EXCEPT !.cont = @ + 1]
<1>1. v.cont + 1 \in 0..Nudges \cup 0..SilentNudges
  <2>1. v.cont \in Nat
    BY Bounds DEF Whole, Workers
  <2> QED BY <2>1, Bounds
<1>2. u \in Workers /\ Core(u) = Core(v) /\ u.begun = v.begun /\ u.stall = v.stall
      /\ u.fired = v.fired
    BY ZenonT(40), <1>1 DEF Whole, Workers, Core
<1> HIDE DEF u
<1>3. Whole(u) /\ Alike(u, v) /\ u.busy = v.busy
    BY <1>2, SameKeeps
<1>4. /\ Whole(Reminded(u, "say")) /\ Alike(Reminded(u, "say"), u)
      /\ Reminded(u, "say").busy = u.busy
    BY <1>3, RemindedKeeps
<1> QED BY <1>3, <1>4, AlikeChain DEF u

\* The turn ended with tools to run.
LEMMA StartToolsKeeps ==
    ASSUME NEW v, Whole(v), ~Terminal(v), v.tools # <<>>
    PROVE  Whole(StartTools(v)) /\ Alike(StartTools(v), v) /\ StartTools(v).busy = v.busy
<1> DEFINE warned == IF v.same >= 2 THEN Later(v, "say") ELSE v
           u == [warned EXCEPT !.loop = Append(@, Callback("batch", v.tools, <<>>)),
                               !.outstanding = @ + Len(v.tools), !.tools = <<>>]
           r == Reminded([u EXCEPT !.cont = @ + 1], "say")
<1>1. /\ Whole(warned) /\ Alike(warned, v) /\ warned.busy = v.busy
      /\ warned.outcome = v.outcome /\ warned.tools = v.tools /\ warned.cont = v.cont
  <2>1. Later(v, "say").tools = v.tools /\ Later(v, "say").cont = v.cont
    BY DEF Later, Whole, Workers
  <2> QED BY <2>1, LaterKeeps, SelfKeeps
<1>2. \/ StartTools(v) \in {u, Circuit(u)}
      \/ StartTools(v) = r /\ v.cont < Nudges
    BY DEF StartTools
<1> HIDE DEF warned
<1>3. u = [warned EXCEPT !.loop = Append(@, Callback("batch", warned.tools, <<>>)),
                         !.outstanding = @ + Len(warned.tools), !.tools = <<>>]
    BY <1>1
<1> HIDE DEF u
<1>4. Whole(u) /\ Alike(u, warned) /\ u.busy = warned.busy /\ u.cont = warned.cont
    BY <1>1, <1>3, HandOverKeeps DEF Terminal
<1>5. Alike(u, v)
    BY <1>1, <1>4, AlikeChain
<1>6. Whole(Circuit(u)) /\ Alike(Circuit(u), v) /\ Circuit(u).busy = v.busy
    BY <1>1, <1>4, <1>5, CircuitKeeps, AlikeChain
<1>7. ASSUME v.cont < Nudges PROVE Whole(r) /\ Alike(r, v) /\ r.busy = v.busy
  <2>1. Whole(r) /\ Alike(r, u) /\ r.busy = u.busy
    BY <1>1, <1>4, <1>7, CountedReminder
  <2> HIDE DEF r
  <2> QED BY <1>1, <1>4, <1>5, <2>1, AlikeChain
<1> HIDE DEF r
<1> QED BY <1>1, <1>2, <1>4, <1>5, <1>6, <1>7

\* The turn ended without any action.
LEMMA PromptKeeps ==
    ASSUME NEW v, Whole(v)
    PROVE  Whole(Prompt(v)) /\ Alike(Prompt(v), v) /\ Prompt(v).busy = v.busy
<1> DEFINE limit == IF v.open THEN Nudges ELSE SilentNudges
           r == Reminded([v EXCEPT !.cont = @ + 1], "say")
<1>1. CASE v.cont < limit
  <2>1. Prompt(v) = r
    BY <1>1 DEF Prompt
  <2>2. limit \in {Nudges, SilentNudges}
    OBVIOUS
  <2> HIDE DEF limit
  <2>3. Whole(r) /\ Alike(r, v) /\ r.busy = v.busy
    BY <1>1, <2>2, CountedReminder
  <2> QED BY <2>1, <2>3
<1>2. CASE ~(v.cont < limit)
  <2>1. Prompt(v) = Circuit(v)
    BY <1>2 DEF Prompt
  <2> QED BY <2>1, CircuitKeeps
<1> QED BY <1>1, <1>2

\* The worker is asked for the report of its end.
LEMMA AskForEndKeeps ==
    ASSUME NEW v, Whole(v)
    PROVE  Whole(AskForEnd(v)) /\ Alike(AskForEnd(v), v) /\ AskForEnd(v).busy = v.busy
<1> DEFINE asked == [v EXCEPT !.missing = @ + 1]
           over == [v EXCEPT !.missing = MissingNudges + 1]
<1>1. \/ AskForEnd(v) \in {v, Circuit(over)}
      \/ AskForEnd(v) = Reminded(asked, "sayLive") /\ v.missing < MissingNudges
    BY DEF AskForEnd
<1>2. /\ over \in Workers /\ Core(over) = Core(v) /\ over.begun = v.begun
      /\ over.stall = v.stall /\ over.fired = v.fired
  <2>1. v \in Workers /\ MissingNudges + 1 \in 0..(MissingNudges + 1)
    BY Bounds DEF Whole
  <2> QED BY ZenonT(40), <2>1 DEF Workers, Core
<1>3. ASSUME v.missing < MissingNudges
      PROVE  /\ asked \in Workers /\ Core(asked) = Core(v) /\ asked.begun = v.begun
             /\ asked.stall = v.stall /\ asked.fired = v.fired
  <2>1. v \in Workers /\ v.missing + 1 \in 0..(MissingNudges + 1)
    <3>1. v \in Workers /\ v.missing \in 0..(MissingNudges + 1)
      BY DEF Whole, Workers
    <3> QED BY <1>3, <3>1, Bounds
  <2> QED BY <2>1 DEF Workers, Core
<1> HIDE DEF asked, over
<1>4. Whole(over) /\ Alike(over, v) /\ over.busy = v.busy
    BY <1>2, SameKeeps
<1>5. v.missing < MissingNudges => Whole(asked) /\ Alike(asked, v) /\ asked.busy = v.busy
    BY <1>3, SameKeeps
<1>6. Whole(Circuit(over)) /\ Alike(Circuit(over), v) /\ Circuit(over).busy = v.busy
    BY <1>4, CircuitKeeps, AlikeChain
<1>7. v.missing < MissingNudges =>
          /\ Whole(Reminded(asked, "sayLive")) /\ Alike(Reminded(asked, "sayLive"), v)
          /\ Reminded(asked, "sayLive").busy = v.busy
    BY <1>5, RemindedKeeps, AlikeChain
<1> QED BY <1>1, <1>6, <1>7, SelfKeeps

\* At the end of a turn the stall count stays below its limit, or the
\* worker is ended, unless it was stopped before.
LEMMA OnIdleKeeps ==
    ASSUME NEW v, Whole(v), Patient(v), v.busy, v.killed => v.aborted
    PROVE  /\ Whole(OnIdle(v))
           /\ Patient(OnIdle(v)) \/ OnIdle(v).killed
           /\ OnIdle(v).killed = v.killed /\ OnIdle(v).begun = v.begun
           /\ OnIdle(v).running = v.running /\ OnIdle(v).busy = v.busy
<1>1. CASE Deaf(v)
  <2>1. OnIdle(v) = v
    BY <1>1 DEF OnIdle
  <2> QED BY <2>1
<1>2. CASE ~Deaf(v)
  <2> DEFINE u == [v EXCEPT !.stall = IF v.tools = <<>> /\ ~v.acted THEN @ + 1 ELSE 0]
             n == IF v.tools = <<>> /\ ~v.acted THEN v.stall + 1 ELSE 0
  <2>1. v.stall < StallLimit /\ ~v.fired /\ ~Terminal(v)
    BY <1>2 DEF Patient, Deaf
  <2>2. n \in 0..StallLimit
    <3>1. v.stall \in Nat
      BY Bounds DEF Whole, Workers
    <3> QED BY <2>1, <3>1, Bounds
  <2>3. u = [v EXCEPT !.stall = n]
    OBVIOUS
  <2> HIDE DEF n, u
  <2>4. u \in Workers
    BY ZenonT(40), <2>2, <2>3 DEF Whole, Workers
  <2>5. /\ Core(u) = Core(v) /\ u.stall = n /\ u.fired = v.fired /\ u.begun = v.begun
        /\ u.killed = v.killed /\ u.roused = v.roused /\ u.running = v.running /\ u.busy = v.busy
        /\ u.tools = v.tools /\ u.outcome = v.outcome /\ u.finishing = v.finishing
    BY <2>3 DEF Core, Whole, Workers
  <2>6. Whole(u) /\ ~Terminal(u)
    BY <2>1, <2>4, <2>5, SameCore DEF Terminal
  <2>7. CASE u.stall >= StallLimit \/ "wall" \in clock
    <3>1. OnIdle(v) = Circuit(u)
      <4> DEFINE due == ~v.fired /\ (u.stall >= StallLimit \/ "wall" \in clock)
      <4>1. due
        BY <2>1, <2>7
      <4> HIDE DEF due
      <4>2. OnIdle(v) = CASE Deaf(v) -> v
              [] ~Deaf(v) /\ due -> Circuit(u)
              [] ~Deaf(v) /\ ~due /\ v.tools # <<>> -> AskForEnd(StartTools(u))
              [] ~Deaf(v) /\ ~due /\ v.tools = <<>> /\ ~v.acted -> AskForEnd(Prompt(u))
              [] OTHER -> AskForEnd(u)
        BY DEF OnIdle, u, due
      <4> QED BY <1>2, <4>1, <4>2
    <3>2. /\ Whole(Circuit(u)) /\ Alike(Circuit(u), u) /\ Circuit(u).busy = u.busy
          /\ ~u.fired /\ ~u.killed => Deaf(Circuit(u))
      BY <2>6, CircuitKeeps
    <3>3. u.killed \/ Patient(Circuit(u))
      BY <2>1, <2>5, <3>2 DEF Patient
    <3>4. /\ Circuit(u).killed = u.killed /\ Circuit(u).begun = u.begun
          /\ Circuit(u).running = u.running
      BY <3>2 DEF Alike
    <3> QED BY <2>5, <3>1, <3>2, <3>3, <3>4
  <2>8. CASE ~(u.stall >= StallLimit \/ "wall" \in clock)
    <3>1. OnIdle(v) \in {AskForEnd(Prompt(u)), AskForEnd(u)} \/
             (v.tools # <<>> /\ OnIdle(v) = AskForEnd(StartTools(u)))
      BY <1>2, <2>8 DEF OnIdle, u
    <3>2. Patient(u)
      <4>1. u.stall < StallLimit
        BY <2>2, <2>5, <2>8, Bounds
      <4> QED BY <2>1, <2>5, <4>1 DEF Patient
    <3>3. /\ Whole(AskForEnd(Prompt(u))) /\ Alike(AskForEnd(Prompt(u)), u)
          /\ AskForEnd(Prompt(u)).busy = u.busy
      BY <2>6, PromptKeeps, AskForEndKeeps, AlikeChain
    <3>4. /\ Whole(AskForEnd(u)) /\ Alike(AskForEnd(u), u) /\ AskForEnd(u).busy = u.busy
      BY <2>6, AskForEndKeeps
    <3>5. v.tools # <<>> =>
            /\ Whole(AskForEnd(StartTools(u))) /\ Alike(AskForEnd(StartTools(u)), u)
            /\ AskForEnd(StartTools(u)).busy = u.busy
      <4>1. v.tools # <<>> =>
              Whole(StartTools(u)) /\ Alike(StartTools(u), u) /\ StartTools(u).busy = u.busy
        BY <2>5, <2>6, StartToolsKeeps
      <4> QED BY <4>1, AskForEndKeeps, AlikeChain
    <3>6. /\ Whole(OnIdle(v)) /\ Alike(OnIdle(v), u) /\ OnIdle(v).busy = u.busy
      BY <3>1, <3>3, <3>4, <3>5
    <3> QED BY <2>5, <3>2, <3>6 DEF Alike
  <2> QED BY <2>7, <2>8
<1> QED BY <1>1, <1>2

\* There are more numbers than batches that run.
LEMMA NewIdFits ==
    ASSUME NEW v \in Workers, IsFiniteSet(v.running)
    PROVE  NewId(v) \in Nat
<1> DEFINE n == Cardinality(v.running)
           f == [b \in v.running |-> b.id]
<1>1. n \in Nat
    BY FS_CardinalityType
<1>2. f \in Surjection(v.running, Ids(v))
    BY DEF Surjection, Ids
<1>3. IsFiniteSet(Ids(v)) /\ Cardinality(Ids(v)) <= n
    BY <1>2, FS_Surjection
<1>4. IsFiniteSet(0..n) /\ Cardinality(0..n) = n + 1
  <2>1. 0 \in Int /\ n \in Int
    BY <1>1
  <2> HIDE DEF n, f
  <2>2. IsFiniteSet(0..n) /\ Cardinality(0..n) = IF 0 > n THEN 0 ELSE n - 0 + 1
    BY <2>1, FS_Interval
  <2> QED BY <1>1, <2>2
<1>5. ~(0..n \subseteq Ids(v))
  <2> SUFFICES ASSUME 0..n \subseteq Ids(v) PROVE FALSE
    OBVIOUS
  <2>1. Cardinality(0..n) <= Cardinality(Ids(v))
    BY <1>3, FS_Subset
  <2>2. Cardinality(Ids(v)) \in Nat
    BY <1>3, FS_CardinalityType
  <2> QED BY <1>1, <1>3, <1>4, <2>1, <2>2
<1>6. \E m \in 0..n : m \notin Ids(v)
    BY <1>5
<1>7. NewId(v) \in 0..n
    BY <1>6 DEF NewId
<1> QED BY <1>1, <1>7

\* A worker that owes n results besides those its loop and its batches carry.
Owes(v, n) ==
    /\ v \in Workers /\ Filled(v) /\ Settled(v) /\ Ending(v) /\ Stopped(v) /\ Drained(v)
    /\ IsFiniteSet(v.running)
    /\ IsFiniteSet(LoopSlots(v.loop)) /\ IsFiniteSet(RunSlots(v.running))
    /\ ~Terminal(v) => v.outstanding >= n + Cardinality(LoopSlots(v.loop))
                                          + Cardinality(RunSlots(v.running))

\* A worker that owes nothing is whole.
LEMMA OwesNothing ==
    ASSUME NEW v, Owes(v, 0)
    PROVE  Whole(v)
<1>1. Cardinality(LoopSlots(v.loop)) \in Nat
    BY FS_CardinalityType DEF Owes
<1> QED BY <1>1 DEF Owes, Whole, Counted

\* A batch starts, of the worker or for the leader.
LEMMA RunKeeps ==
    ASSUME NEW v, NEW tools \in Seq(Tools), tools # <<>>, NEW leader \in BOOLEAN,
           Owes(v, IF leader THEN 0 ELSE Len(tools)), v.outcome # "success"
    PROVE  /\ Whole(Run(v, tools, leader)) /\ Run(v, tools, leader).busy = v.busy
           /\ Run(v, tools, leader).outcome = v.outcome
           /\ Run(v, tools, leader).begun = v.begun
           /\ Run(v, tools, leader).killed = v.killed
           /\ Patient(v) => Patient(Run(v, tools, leader))
<1> DEFINE b == [id |-> NewId(v), tools |-> tools, leader |-> leader]
           u == Run(v, tools, leader)
           n == IF leader THEN 0 ELSE Len(tools)
<1>1. v \in Workers /\ NewId(v) \in Nat
    BY NewIdFits DEF Owes
<1>2. b \in Batches /\ b.tools = tools /\ b.leader = leader /\ n \in Nat
    BY <1>1 DEF Batches
<1>3. u = [v EXCEPT !.running = v.running \cup {b}]
    BY DEF Run
<1> HIDE DEF b, u
<1>4. v.running \in SUBSET Batches /\ v.running \cup {b} \in SUBSET Batches
    BY <1>1, <1>2 DEF Workers, Batches
<1>5. u \in Workers
    BY ZenonT(40), <1>1, <1>3, <1>4 DEF Workers, Batches
<1>6. /\ u.running = v.running \cup {b} /\ u.loop = v.loop /\ u.outcome = v.outcome
      /\ u.outstanding = v.outstanding /\ u.approvals = v.approvals /\ u.open = v.open
      /\ u.queue = v.queue /\ u.finishing = v.finishing /\ u.tools = v.tools
      /\ u.begun = v.begun /\ u.stall = v.stall /\ u.fired = v.fired
      /\ u.killed = v.killed /\ u.roused = v.roused /\ u.busy = v.busy /\ u.aborted = v.aborted
    BY <1>1, <1>3 DEF Workers
<1>7. Filled(u)
    BY <1>2, <1>6 DEF Owes, Filled
<1>8. Counted(u)
  <2>1. /\ IsFiniteSet(LoopSlots(v.loop)) /\ IsFiniteSet(RunSlots(v.running))
        /\ IsFiniteSet(v.running)
        /\ ~Terminal(v) => v.outstanding >= n + Cardinality(LoopSlots(v.loop))
                                              + Cardinality(RunSlots(v.running))
    BY DEF Owes
  <2>2. /\ Cardinality(LoopSlots(v.loop)) \in Nat /\ Cardinality(RunSlots(v.running)) \in Nat
        /\ v.outstanding \in Nat
    BY <1>1, <2>1, FS_CardinalityType DEF Workers
  <2>3. /\ IsFiniteSet(RunSlots(u.running))
        /\ Cardinality(RunSlots(u.running)) <= Cardinality(RunSlots(v.running)) + n
    BY <1>2, <1>4, <1>6, <2>1, StartSlots
  <2>4. IsFiniteSet(u.running)
    BY <1>6, <2>1, FS_AddElement
  <2>5. Cardinality(RunSlots(u.running)) \in Nat
    BY <2>3, FS_CardinalityType
  <2> HIDE DEF n
  <2> QED BY <1>2, <1>6, <2>1, <2>2, <2>3, <2>4, <2>5 DEF Counted, Terminal
<1>9. Settled(u)
    BY <1>6 DEF Settled
<1>10. Ending(u) /\ Stopped(u) /\ Drained(u)
    BY <1>6 DEF Owes, Ending, Stopped, Drained, Terminal
<1>11. Patient(v) => Patient(u)
    BY <1>6 DEF Patient, Deaf, Terminal
<1> QED BY <1>5, <1>6, <1>7, <1>8, <1>9, <1>10, <1>11 DEF Whole, u

\* Results are put on the loop.
LEMMA HandKeeps ==
    ASSUME NEW v, NEW tools \in Seq(Tools), tools # <<>>, NEW results \in Seq(Verdicts),
           Owes(v, Len(tools)), v.outcome # "success"
    PROVE  /\ Whole(Hand(v, tools, results)) /\ Alike(Hand(v, tools, results), v)
           /\ Hand(v, tools, results).busy = v.busy
           /\ Hand(v, tools, results).outcome = v.outcome
<1> DEFINE c == Callback("deliver", tools, results)
           u == Hand(v, tools, results)
<1>1. v \in Workers /\ v.loop \in Seq(LoopEntries)
    BY DEF Owes, Workers, LoopEntries
<1>2. c \in LoopEntries /\ Carries(c) /\ c.tools = tools
    BY DEF LoopEntries, Callback, Kinds, Carries
<1>3. Append(v.loop, c) \in Seq(LoopEntries)
    BY <1>1, <1>2
<1>4. u = [v EXCEPT !.loop = Append(v.loop, c)]
    BY DEF Hand
<1> HIDE DEF c, u
<1>5. u \in Workers
    BY ZenonT(40), <1>1, <1>3, <1>4 DEF Workers, LoopEntries
<1>6. /\ u.loop = Append(v.loop, c) /\ u.outstanding = v.outstanding
      /\ u.tools = v.tools /\ u.running = v.running /\ u.outcome = v.outcome
      /\ u.queue = v.queue /\ u.busy = v.busy /\ u.killed = v.killed /\ u.roused = v.roused
           /\ u.begun = v.begun
      /\ u.aborted = v.aborted /\ u.approvals = v.approvals /\ u.finishing = v.finishing
      /\ u.open = v.open /\ u.stall = v.stall /\ u.fired = v.fired
    BY <1>1, <1>4 DEF Workers
<1>7. /\ DOMAIN u.loop = 1..(Len(v.loop) + 1) /\ DOMAIN v.loop = 1..Len(v.loop)
      /\ Len(v.loop) \in Nat /\ u.loop[Len(v.loop) + 1] = c
      /\ \A i \in DOMAIN v.loop : u.loop[i] = v.loop[i]
    BY <1>1, <1>2, <1>6, AppendProperties, LenProperties
<1>8. Filled(u)
    BY <1>2, <1>6, <1>7 DEF Owes, Filled
<1>9. Counted(u)
  <2>1. /\ IsFiniteSet(LoopSlots(v.loop)) /\ IsFiniteSet(RunSlots(v.running))
        /\ IsFiniteSet(v.running)
        /\ ~Terminal(v) => v.outstanding >= Len(tools) + Cardinality(LoopSlots(v.loop))
                                              + Cardinality(RunSlots(v.running))
    BY DEF Owes
  <2>2. /\ Cardinality(LoopSlots(v.loop)) \in Nat /\ Cardinality(RunSlots(v.running)) \in Nat
        /\ v.outstanding \in Nat
    BY <1>1, <2>1, FS_CardinalityType DEF Workers
  <2>3. /\ IsFiniteSet(LoopSlots(u.loop))
        /\ Cardinality(LoopSlots(u.loop)) = Cardinality(LoopSlots(v.loop)) + Load(c)
    BY <1>1, <1>2, <1>6, <2>1, AppendSlots
  <2>4. Load(c) = Len(tools) /\ Len(tools) \in Nat
    BY <1>2 DEF Load
  <2> QED BY <1>6, <2>1, <2>2, <2>3, <2>4 DEF Counted, Terminal
<1>10. Settled(u)
    BY <1>6 DEF Settled
<1>11. Ending(u) /\ Stopped(u) /\ Drained(u)
    BY <1>6, <1>7 DEF Owes, Ending, Stopped, Drained, Terminal
<1>12. Alike(u, v)
    BY <1>6 DEF Alike, Deaf, Terminal, Patient
<1> QED BY <1>5, <1>6, <1>8, <1>9, <1>10, <1>11, <1>12 DEF Whole, u

\* What is owed no more is taken off the count.
LEMMA PayKeeps ==
    ASSUME NEW v, NEW n \in Nat, Owes(v, n), NEW u,
           u = [v EXCEPT !.outstanding = Minus(@, n)]
    PROVE  /\ Whole(u) /\ Alike(u, v) /\ u.busy = v.busy /\ u.outcome = v.outcome
           /\ u.lastTest = v.lastTest
<1>1. v \in Workers /\ v.outstanding \in Nat /\ Minus(v.outstanding, n) \in Nat
    BY DEF Owes, Workers, Minus
<1>2. u \in Workers
    BY ZenonT(40), <1>1 DEF Workers
<1>3. /\ u.loop = v.loop /\ u.outstanding = Minus(v.outstanding, n)
      /\ u.tools = v.tools /\ u.running = v.running /\ u.outcome = v.outcome
      /\ u.queue = v.queue /\ u.busy = v.busy /\ u.killed = v.killed /\ u.roused = v.roused
           /\ u.begun = v.begun
      /\ u.aborted = v.aborted /\ u.approvals = v.approvals /\ u.finishing = v.finishing
      /\ u.open = v.open /\ u.stall = v.stall /\ u.fired = v.fired /\ u.lastTest = v.lastTest
    BY <1>1 DEF Workers
<1>4. Filled(u) /\ Settled(u)
    BY <1>3 DEF Owes, Filled, Settled
<1>5. Counted(u)
  <2>1. /\ IsFiniteSet(LoopSlots(v.loop)) /\ IsFiniteSet(RunSlots(v.running))
        /\ IsFiniteSet(v.running)
        /\ ~Terminal(v) => v.outstanding >= n + Cardinality(LoopSlots(v.loop))
                                              + Cardinality(RunSlots(v.running))
    BY DEF Owes
  <2>2. /\ Cardinality(LoopSlots(v.loop)) \in Nat /\ Cardinality(RunSlots(v.running)) \in Nat
    BY <2>1, FS_CardinalityType
  <2> QED BY <1>1, <1>3, <2>1, <2>2 DEF Counted, Terminal, Minus
<1>6. Ending(u) /\ Stopped(u) /\ Drained(u)
    BY <1>3 DEF Owes, Ending, Stopped, Drained, Terminal
<1>7. Alike(u, v)
    BY <1>3 DEF Alike, Deaf, Terminal, Patient
<1> QED BY <1>2, <1>3, <1>4, <1>5, <1>6, <1>7 DEF Whole

\* A batch starts, is answered without running, or is dropped.
LEMMA StartBatchKeeps ==
    ASSUME NEW v, NEW b \in LoopEntries, b.tools # <<>>, Owes(v, Len(b.tools)),
           v.outcome # "success"
    PROVE  /\ Whole(StartBatch(v, b)) /\ StartBatch(v, b).busy = v.busy
           /\ StartBatch(v, b).outcome = v.outcome /\ StartBatch(v, b).begun = v.begun
           /\ StartBatch(v, b).killed = v.killed
           /\ Patient(v) => Patient(StartBatch(v, b))
           /\ Terminal(v) \/ v.killed => StartBatch(v, b).running = v.running
<1>1. b.tools \in Seq(Tools) /\ Len(b.tools) \in Nat
    BY DEF LoopEntries
<1>2. CASE Gone(v)
  <2> DEFINE u == [v EXCEPT !.outstanding = Minus(@, Len(b.tools))]
  <2>1. StartBatch(v, b) = u
    BY <1>2 DEF StartBatch
  <2> HIDE DEF u
  <2>2. Whole(u) /\ Alike(u, v) /\ u.busy = v.busy /\ u.outcome = v.outcome
    BY <1>1, PayKeeps DEF u
  <2> QED BY <2>1, <2>2 DEF Alike
<1>3. CASE ~Gone(v) /\ Granted(v)
  <2>1. StartBatch(v, b) = Run(v, b.tools, FALSE)
    BY <1>3 DEF StartBatch
  <2>2. Owes(v, IF FALSE THEN 0 ELSE Len(b.tools))
    OBVIOUS
  <2> QED BY ZenonT(40), <1>1, <1>3, <2>1, <2>2, RunKeeps DEF Granted
<1>4. CASE ~Gone(v) /\ ~Granted(v)
  <2> DEFINE results == [i \in 1..Len(b.tools) |-> "other"]
  <2>1. StartBatch(v, b) = Hand(v, b.tools, results)
    BY <1>4 DEF StartBatch
  <2>2. results \in Seq(Verdicts)
    BY <1>1 DEF Verdicts
  <2> HIDE DEF results
  <2>3. /\ Whole(Hand(v, b.tools, results)) /\ Alike(Hand(v, b.tools, results), v)
        /\ Hand(v, b.tools, results).busy = v.busy
        /\ Hand(v, b.tools, results).outcome = v.outcome
    BY <1>1, <2>2, HandKeeps
  <2> QED BY <2>1, <2>3 DEF Alike
<1> QED BY <1>2, <1>3, <1>4

\* What is known of the tests
LEMMA LearnedType ==
    ASSUME NEW lastTest \in {"none", "red", "green"}, NEW results
    PROVE  Learned(lastTest, results) \in {"none", "red", "green"}
    BY DEF Learned

\* The results go to the model as one message.
LEMMA DeliverKeeps ==
    ASSUME NEW v, NEW b \in LoopEntries, Owes(v, Len(b.tools))
    PROVE  /\ Whole(Deliver(v, b)) /\ Alike(Deliver(v, b), v)
           /\ Deliver(v, b).outcome \in {v.outcome, "failure"}
           /\ Deliver(v, b).busy => v.busy \/ ~Gone(v)
<1> DEFINE u == [v EXCEPT !.outstanding = Minus(@, Len(b.tools))]
           x == [u EXCEPT !.lastTest = Learned(@, b.results)]
<1>1. Len(b.tools) \in Nat
    BY DEF LoopEntries
<1>2. /\ Whole(u) /\ Alike(u, v) /\ u.busy = v.busy /\ u.outcome = v.outcome
      /\ u.lastTest = v.lastTest
  <2> HIDE DEF u
  <2> QED BY <1>1, PayKeeps DEF u
<1>3. Deliver(v, b) = IF Gone(v) THEN u ELSE Enqueue(x)
    BY DEF Deliver
<1> HIDE DEF u
<1>4. Learned(u.lastTest, b.results) \in {"none", "red", "green"}
    BY <1>2, LearnedType DEF Whole, Workers
<1>5. x \in Workers
    BY ZenonT(40), <1>2, <1>4 DEF Whole, Workers
<1>6. /\ Core(x) = Core(u) /\ x.begun = u.begun /\ x.stall = u.stall /\ x.fired = u.fired
    BY <1>2 DEF Whole, Workers, Core
<1> HIDE DEF x
<1>7. Whole(x) /\ Alike(x, u) /\ x.busy = u.busy /\ x.outcome = u.outcome
    BY <1>2, <1>5, <1>6, SameKeeps
<1>8. CASE Gone(v)
    BY <1>2, <1>3, <1>8
<1>9. CASE ~Gone(v)
  <2>1. ~x.killed /\ x.outcome # "success"
    BY <1>2, <1>7, <1>9 DEF Gone, Alike
  <2>2. Whole(Enqueue(x)) /\ Alike(Enqueue(x), x)
    BY <1>7, <2>1, EnqueueKeeps
  <2>3. Enqueue(x).outcome \in {x.outcome, "failure"}
    BY <1>5, OnlyFailures
  <2> QED BY <1>2, <1>3, <1>7, <1>9, <2>2, <2>3, AlikeChain
<1> QED BY <1>8, <1>9

\* The first callback is taken off the loop: what it carried is owed.
LEMMA TakeKeeps ==
    ASSUME NEW v, Whole(v), v.loop # <<>>
    PROVE  LET c == Head(v.loop)
               u == [v EXCEPT !.loop = Tail(@)]
           IN  /\ c \in LoopEntries
               /\ c.kind # "drain" => Owes(u, Load(c))
               /\ c.kind = "drain" => Owes(u, 0) \/ (~u.busy /\ u.queue > 0)
               /\ u \in Workers /\ Filled(u) /\ Counted(u) /\ Settled(u) /\ Ending(u) /\ Stopped(u)
               /\ Carries(c) => c.tools # <<>> /\ u.outcome # "success"
               /\ u.busy = v.busy /\ u.killed = v.killed /\ u.roused = v.roused /\ u.begun = v.begun
               /\ u.outcome = v.outcome /\ u.running = v.running
               /\ Patient(v) => Patient(u)
<1> DEFINE c == Head(v.loop)
           rest == Tail(v.loop)
           u == [v EXCEPT !.loop = Tail(@)]
<1>1. v \in Workers /\ v.loop \in Seq(LoopEntries)
    BY DEF Whole, Workers, LoopEntries
<1>2. /\ c \in LoopEntries /\ c = v.loop[1] /\ Len(v.loop) \in Nat \ {0}
      /\ rest \in Seq(LoopEntries) /\ Len(rest) = Len(v.loop) - 1
      /\ \A i \in 1..(Len(v.loop) - 1) : rest[i] = v.loop[i + 1]
    BY <1>1, HeadTailProperties, EmptySeq
<1>3. u = [v EXCEPT !.loop = rest]
    OBVIOUS
<1>4. /\ IsFiniteSet(LoopSlots(rest))
      /\ Cardinality(LoopSlots(v.loop)) = Cardinality(LoopSlots(rest)) + Load(c)
    BY <1>1, TailSlots DEF Whole, Counted
<1> HIDE DEF c, rest, u
<1>5. u \in Workers
    BY ZenonT(40), <1>1, <1>2, <1>3 DEF Workers, LoopEntries
<1>6. /\ u.loop = rest /\ u.outstanding = v.outstanding
      /\ u.tools = v.tools /\ u.running = v.running /\ u.outcome = v.outcome
      /\ u.queue = v.queue /\ u.busy = v.busy /\ u.killed = v.killed /\ u.roused = v.roused
           /\ u.begun = v.begun
      /\ u.aborted = v.aborted /\ u.approvals = v.approvals /\ u.finishing = v.finishing
      /\ u.open = v.open /\ u.stall = v.stall /\ u.fired = v.fired
    BY <1>1, <1>3 DEF Workers
<1>7. /\ DOMAIN u.loop = 1..(Len(v.loop) - 1) /\ DOMAIN v.loop = 1..Len(v.loop)
      /\ Len(v.loop) \in Nat \ {0} /\ v.loop[1] = c
      /\ \A i \in DOMAIN u.loop : i + 1 \in DOMAIN v.loop /\ u.loop[i] = v.loop[i + 1]
      /\ \A i \in DOMAIN v.loop \ {1} : i - 1 \in DOMAIN u.loop /\ u.loop[i - 1] = v.loop[i]
  <2>1. DOMAIN rest = 1..(Len(v.loop) - 1) /\ DOMAIN v.loop = 1..Len(v.loop)
    BY <1>1, <1>2, LenProperties
  <2>2. \A i \in 1..(Len(v.loop) - 1) :
            i + 1 \in 1..Len(v.loop) /\ rest[i] = v.loop[i + 1]
    BY <1>2
  <2>3. \A i \in 1..Len(v.loop) \ {1} :
            i - 1 \in 1..(Len(v.loop) - 1) /\ rest[i - 1] = v.loop[i]
    <3> SUFFICES ASSUME NEW i \in 1..Len(v.loop) \ {1}
                 PROVE  i - 1 \in 1..(Len(v.loop) - 1) /\ rest[i - 1] = v.loop[i]
      OBVIOUS
    <3>1. i - 1 \in 1..(Len(v.loop) - 1) /\ (i - 1) + 1 = i
      BY <1>2
    <3> QED BY <1>2, <3>1
  <2> QED BY <1>2, <1>6, <2>1, <2>2, <2>3
<1>8. Filled(u) /\ (Carries(c) => c.tools # <<>> /\ u.outcome # "success")
    BY <1>6, <1>7 DEF Whole, Filled, Settled
<1>9. Load(c) \in Nat
    BY <1>2 DEF Load, LoopEntries
<1>10. /\ IsFiniteSet(u.running) /\ IsFiniteSet(LoopSlots(u.loop))
       /\ IsFiniteSet(RunSlots(u.running))
       /\ ~Terminal(u) => u.outstanding >= Load(c) + Cardinality(LoopSlots(u.loop))
                                             + Cardinality(RunSlots(u.running))
  <2>1. /\ IsFiniteSet(v.running) /\ IsFiniteSet(RunSlots(v.running))
        /\ ~Terminal(v) => v.outstanding >= Cardinality(LoopSlots(v.loop))
                                              + Cardinality(RunSlots(v.running))
    BY DEF Whole, Counted
  <2>2. /\ Cardinality(LoopSlots(rest)) \in Nat /\ Cardinality(RunSlots(v.running)) \in Nat
        /\ v.outstanding \in Nat
    BY <1>1, <1>4, <2>1, FS_CardinalityType DEF Workers
  <2> QED BY <1>4, <1>6, <1>9, <2>1, <2>2 DEF Terminal
<1>11. Counted(u)
  <2>1. /\ Cardinality(LoopSlots(u.loop)) \in Nat /\ Cardinality(RunSlots(u.running)) \in Nat
        /\ u.outstanding \in Nat
    BY <1>5, <1>10, FS_CardinalityType DEF Workers
  <2> QED BY <1>9, <1>10, <2>1 DEF Counted
<1>12. Settled(u)
    BY <1>6, <1>7 DEF Whole, Settled
<1>13. Ending(u) /\ Stopped(u)
    BY <1>6 DEF Whole, Ending, Stopped, Terminal
<1>14. Drained(u) \/ (c.kind = "drain" /\ ~u.busy /\ u.queue > 0)
  <2> SUFFICES ASSUME ~u.busy, u.queue > 0, c.kind # "drain"
               PROVE  \E i \in DOMAIN u.loop : u.loop[i].kind = "drain"
    BY DEF Drained
  <2>1. PICK i \in DOMAIN v.loop : v.loop[i].kind = "drain"
    BY <1>6 DEF Whole, Drained
  <2>2. i # 1
    BY <1>7, <2>1
  <2> QED BY <1>7, <2>1, <2>2
<1>15. c.kind = "drain" => Load(c) = 0
    BY DEF Load, Carries
<1>16. Patient(v) => Patient(u)
    BY <1>6 DEF Patient, Deaf, Terminal
<1>17. c.kind # "drain" => Owes(u, Load(c))
    BY <1>5, <1>8, <1>10, <1>12, <1>13, <1>14 DEF Owes
<1>18. c.kind = "drain" => Owes(u, 0) \/ (~u.busy /\ u.queue > 0)
    BY <1>5, <1>8, <1>10, <1>12, <1>13, <1>14, <1>15 DEF Owes
<1> QED BY <1>2, <1>5, <1>6, <1>8, <1>11, <1>12, <1>13, <1>16, <1>17, <1>18 DEF c, u

\* What the invariant says of a worker.
Sound(v) ==
    /\ Whole(v) /\ Patient(v)
    /\ v.outcome = "success" /\ ~v.begun => ~v.busy

\* One step of the worker, before the continuation Settle.
Moves(u, v) ==
    /\ Whole(u) /\ Patient(u)
    /\ u.outcome = "success" /\ ~u.begun => ~u.busy
    /\ Gone(v) /\ v.begun /\ ~Rouses(v) => ~(~v.busy /\ u.busy)
    /\ Terminal(v) \/ v.killed => u.running \subseteq v.running

\* A step that leaves the worker alike and reports no success is a move.
LEMMA MovesOn ==
    ASSUME NEW v, Sound(v), NEW u, Whole(u), Alike(u, v),
           u.outcome \in {v.outcome, "failure"}, u.busy => v.busy \/ ~Gone(v)
    PROVE  Moves(u, v)
    BY DEF Sound, Moves, Alike, Gone

\* A message for a worker that is neither stopped nor has succeeded.
LEMMA EnqueueMoves ==
    ASSUME NEW v, Sound(v), NEW u, Whole(u), ~u.killed, u.outcome # "success",
           Alike(u, v), u.outcome = v.outcome
    PROVE  Moves(Enqueue(u), v)
<1>1. Whole(Enqueue(u)) /\ Alike(Enqueue(u), u)
    BY EnqueueKeeps
<1>2. Enqueue(u).outcome \in {u.outcome, "failure"}
    BY OnlyFailures DEF Whole
<1>3. ~Gone(v)
    BY DEF Gone, Alike
<1> QED BY <1>1, <1>2, <1>3, AlikeChain, MovesOn

\* The next callback of setImmediate
LEMMA CallbacksMove ==
    ASSUME NEW v, Sound(v), v.loop # <<>>
    PROVE  Moves(Callbacks([v EXCEPT !.loop = Tail(@)], Head(v.loop)), v)
<1> DEFINE c == Head(v.loop)
           u == [v EXCEPT !.loop = Tail(@)]
<1>1. /\ c \in LoopEntries
      /\ c.kind # "drain" => Owes(u, Load(c))
      /\ c.kind = "drain" => Owes(u, 0) \/ (~u.busy /\ u.queue > 0)
      /\ u \in Workers /\ Filled(u) /\ Counted(u) /\ Settled(u) /\ Ending(u) /\ Stopped(u)
      /\ Carries(c) => c.tools # <<>> /\ u.outcome # "success"
      /\ u.busy = v.busy /\ u.killed = v.killed /\ u.roused = v.roused /\ u.begun = v.begun
      /\ u.outcome = v.outcome /\ u.running = v.running
      /\ Patient(v) => Patient(u)
    BY TakeKeeps, Zenon DEF Sound
<1>2. Patient(u)
    BY <1>1 DEF Sound
<1> HIDE DEF c, u
<1> SUFFICES Moves(Callbacks(u, c), v)
    BY DEF c, u
<1>3. c.kind \in Kinds
    BY <1>1 DEF LoopEntries
<1>4. CASE c.kind \in {"say", "sayLive"}
  <2>1. Load(c) = 0
    BY <1>4 DEF Load, Carries
  <2>2. Whole(u)
    BY <1>1, <1>4, <2>1, OwesNothing
  <2>3. Callbacks(u, c) \in {u, Enqueue(u)}
    BY <1>4 DEF Callbacks
  <2>4. Callbacks(u, c) = Enqueue(u) => ~Gone(u) \/ Callbacks(u, c) = u
    BY <1>4 DEF Callbacks, Gone, Terminal
  <2>5. Moves(u, v)
    BY <1>1, <1>2, <2>2 DEF Sound, Moves
  <2>6. ~Gone(u) => Moves(Enqueue(u), v)
    <3>1. ~Gone(u) => Whole(Enqueue(u)) /\ Alike(Enqueue(u), u)
      BY <2>2, EnqueueKeeps DEF Gone
    <3>2. Enqueue(u).outcome \in {u.outcome, "failure"}
      BY <1>1, OnlyFailures
    <3> QED BY <1>1, <1>2, <3>1, <3>2 DEF Moves, Alike, Gone
  <2> QED BY <2>3, <2>4, <2>5, <2>6
<1>5. CASE c.kind = "drain"
  <2>1. Callbacks(u, c) = Drain(u)
    BY <1>5 DEF Callbacks
  <2>2. Drained(u) \/ (~u.busy /\ u.queue > 0)
    BY <1>1, <1>5 DEF Owes
  <2>3. /\ Whole(Drain(u)) /\ Alike(Drain(u), u)
        /\ Drain(u).busy => u.busy \/ ~Gone(u) \/ (u.killed /\ u.roused /\ ~Terminal(u))
    BY <1>1, <2>2, DrainKeeps
  <2>4. Drain(u).outcome \in {u.outcome, "failure"}
    <3> DEFINE x == [u EXCEPT !.queue = @ - 1]
    <3>1. Drain(u) = u \/ (Drain(u) = Send(x) /\ u.queue > 0)
      BY DEF Drain
    <3>2. u.queue > 0 => x \in Workers /\ x.outcome = u.outcome
      <4>1. u.queue > 0 => u.queue - 1 \in Nat
        BY <1>1 DEF Workers
      <4> QED BY ZenonT(40), <1>1, <4>1 DEF Workers
    <3> HIDE DEF x
    <3> QED BY <3>1, <3>2, OnlyFailures
  <2>5. u.killed /\ u.roused /\ ~Terminal(u) => Rouses(v)
    <3>1. Head(v.loop).kind = "drain"
      BY <1>5 DEF c
    <3>2. u.killed = v.killed /\ u.roused = v.roused /\ u.outcome = v.outcome
      BY <1>1
    <3> QED BY <3>1, <3>2, Zenon DEF Rouses, Terminal
  <2> DEFINE d == Drain(u)
  <2>6. /\ Whole(d) /\ Alike(d, u) /\ d.outcome \in {u.outcome, "failure"}
        /\ d.busy => u.busy \/ ~Gone(u) \/ Rouses(v)
    BY <2>3, <2>4, <2>5
  <2>7. u.busy = v.busy /\ (Gone(u) <=> Gone(v)) /\ u.begun = v.begun /\ u.running = v.running
    BY <1>1 DEF Gone
  <2>8. Patient(d) /\ d.begun = v.begun /\ d.running = v.running
    BY <1>2, <2>6, <2>7 DEF Alike
  <2> HIDE DEF d
  <2>9. d.outcome = "success" /\ ~d.begun => ~d.busy
    <3>1. d.outcome = "success" => v.outcome = "success" /\ Gone(v) /\ ~Rouses(v)
      BY <1>1, <2>6 DEF Gone, Rouses, Terminal
    <3> QED BY <2>6, <2>7, <2>8, <3>1 DEF Sound
  <2>10. Moves(d, v)
    BY <2>6, <2>7, <2>8, <2>9 DEF Moves
  <2> QED BY <2>1, <2>10 DEF d
<1>8. CASE c.kind = "sayOpen"
  <2> DEFINE x == [u EXCEPT !.roused = @ \/ u.killed]
  <2>1. Callbacks(u, c) = IF Terminal(u) THEN u ELSE Enqueue(x)
    BY <1>8 DEF Callbacks, SayOpen
  <2>2. Whole(u)
    BY <1>1, <1>8, OwesNothing DEF Load, Carries
  <2>3. CASE Terminal(u)
    BY <1>1, <1>2, <2>1, <2>2, <2>3 DEF Sound, Moves
  <2>4. CASE ~Terminal(u)
    <3>1. /\ x \in Workers /\ x.loop = u.loop /\ x.running = u.running /\ x.outcome = u.outcome
          /\ x.outstanding = u.outstanding /\ x.approvals = u.approvals /\ x.open = u.open
          /\ x.queue = u.queue /\ x.finishing = u.finishing /\ x.tools = u.tools
          /\ x.begun = u.begun /\ x.stall = u.stall /\ x.fired = u.fired /\ x.killed = u.killed
          /\ x.busy = u.busy /\ x.aborted = u.aborted /\ (x.killed => x.roused)
      <4>1. u.roused \in BOOLEAN /\ u.killed \in BOOLEAN
        BY <1>1 DEF Workers
      <4>2. (u.roused \/ u.killed) \in BOOLEAN
        BY <4>1
      <4> DEFINE told == u.roused \/ u.killed
      <4>3. x = [u EXCEPT !.roused = told]
        OBVIOUS
      <4>4. u.killed => told
        OBVIOUS
      <4> HIDE DEF told, x
      <4>5. u \in Workers
        BY <1>1
      <4>6. x \in Workers
        BY ONLY ZenonT(60), <4>2, <4>3, <4>5 DEF Workers, told
      <4>7. x.killed = u.killed /\ x.roused = told
        BY <4>3, <4>5 DEF Workers
      <4> QED BY ZenonT(40), <4>3, <4>4, <4>5, <4>6, <4>7 DEF Workers
    <3> HIDE DEF x
    <3>2. Filled(x) /\ Counted(x) /\ Settled(x)
      BY <2>2, <3>1 DEF Whole, Filled, Counted, Settled, Terminal
    <3>3. Ending(x) /\ Stopped(x) /\ Drained(x)
      BY <2>2, <2>4, <3>1 DEF Whole, Ending, Stopped, Drained, Terminal
    <3>4. Whole(x) /\ Patient(x)
      BY <1>2, <3>1, <3>2, <3>3 DEF Whole, Patient, Deaf, Terminal
    <3>5. /\ x.outcome = "success" => ~x.busy
          /\ x.killed => x.roused /\ x.approvals = 0 /\ ~Terminal(x)
      BY <2>4, <3>1, <3>3 DEF Terminal, Stopped
    <3>6. Whole(Enqueue(x)) /\ Alike(Enqueue(x), x)
      BY <3>4, <3>5, EnqueueKeeps
    <3>7. Enqueue(x).outcome \in {x.outcome, "failure"}
      BY <3>1, OnlyFailures
    <3>8. u.killed => Rouses(v)
      <4>1. Head(v.loop).kind = "sayOpen"
        BY <1>8 DEF c
      <4>2. u.killed = v.killed /\ u.outcome = v.outcome
        BY <1>1
      <4> QED BY <2>4, <4>1, <4>2, Zenon DEF Rouses, Terminal
    <3>9. ~Terminal(v) /\ (Gone(v) => v.killed)
      BY <1>1, <2>4 DEF Terminal, Gone
    <3>10. Enqueue(x).running = v.running
      BY <1>1, <3>1, <3>6 DEF Alike
    <3>11. Callbacks(u, c) = Enqueue(x) /\ Enqueue(x).outcome # "success"
      BY <2>1, <2>4, <3>1, <3>7 DEF Terminal
    <3> QED BY <1>1, <3>4, <3>6, <3>8, <3>9, <3>10, <3>11 DEF Moves, Alike
  <2> QED BY <2>3, <2>4
<1>6. CASE c.kind = "batch"
  <2>1. Callbacks(u, c) = StartBatch(u, c)
    BY <1>6 DEF Callbacks
  <2>2. Carries(c) /\ Load(c) = Len(c.tools)
    BY <1>6 DEF Carries, Load
  <2>3. /\ Whole(StartBatch(u, c)) /\ StartBatch(u, c).busy = u.busy
        /\ StartBatch(u, c).outcome = u.outcome /\ StartBatch(u, c).begun = u.begun
        /\ StartBatch(u, c).killed = u.killed
        /\ Patient(u) => Patient(StartBatch(u, c))
        /\ Terminal(u) \/ u.killed => StartBatch(u, c).running = u.running
    BY <1>1, <1>6, <2>2, StartBatchKeeps
  <2> QED BY <1>1, <1>2, <2>1, <2>2, <2>3 DEF Moves, Gone, Terminal, Sound
<1>7. CASE c.kind = "deliver"
  <2>1. Callbacks(u, c) = Deliver(u, c)
    BY <1>7 DEF Callbacks
  <2>2. Load(c) = Len(c.tools)
    BY <1>7 DEF Carries, Load
  <2>3. /\ Whole(Deliver(u, c)) /\ Alike(Deliver(u, c), u)
        /\ Deliver(u, c).outcome \in {u.outcome, "failure"}
        /\ Deliver(u, c).busy => u.busy \/ ~Gone(u)
    BY <1>1, <1>7, <2>2, DeliverKeeps
  <2> QED BY <1>1, <1>2, <2>1, <2>3 DEF Moves, Alike, Gone, Sound
<1> QED BY <1>3, <1>4, <1>5, <1>6, <1>7, <1>8 DEF Kinds

\* Tools end: results are put on the loop, or those of the leader are sent.
LEMMA ToolsEndMoves ==
    ASSUME NEW v, Sound(v), NEW b \in v.running, NEW r \in Results(b.tools)
    PROVE  LET u == [v EXCEPT !.running = @ \ {b}]
           IN  Moves(CASE ~b.leader -> Hand(u, b.tools, r)
                       [] b.leader /\ Gone(v) -> u
                       [] OTHER -> Enqueue(u), v)
<1> DEFINE u == [v EXCEPT !.running = @ \ {b}]
           n == IF b.leader THEN 0 ELSE Len(b.tools)
<1>1. v \in Workers /\ v.running \in SUBSET Batches /\ b \in Batches
    BY DEF Sound, Whole, Workers, Batches
<1>2. b.tools \in Seq(Tools) /\ b.leader \in BOOLEAN /\ n \in Nat /\ b.tools # <<>>
    BY <1>1 DEF Batches, Sound, Whole, Filled
<1>3. u = [v EXCEPT !.running = v.running \ {b}] /\ v.running \ {b} \in SUBSET Batches
    BY <1>1
<1>4. u \in Workers
    BY <1>1, <1>3 DEF Workers, Batches
<1>5. /\ u.running = v.running \ {b} /\ u.loop = v.loop /\ u.outcome = v.outcome
      /\ u.outstanding = v.outstanding /\ u.approvals = v.approvals /\ u.open = v.open
      /\ u.queue = v.queue /\ u.finishing = v.finishing /\ u.tools = v.tools
      /\ u.begun = v.begun /\ u.stall = v.stall /\ u.fired = v.fired
      /\ u.killed = v.killed /\ u.roused = v.roused /\ u.busy = v.busy /\ u.aborted = v.aborted
    BY <1>1 DEF Workers
<1> HIDE DEF u
<1>6. v.outcome # "success" /\ (Gone(u) <=> Gone(v))
    BY <1>5 DEF Sound, Whole, Settled, Gone
<1>7. Owes(u, n)
  <2>1. /\ IsFiniteSet(LoopSlots(v.loop)) /\ IsFiniteSet(RunSlots(v.running))
        /\ IsFiniteSet(v.running)
        /\ ~Terminal(v) => v.outstanding >= Cardinality(LoopSlots(v.loop))
                                              + Cardinality(RunSlots(v.running))
    BY DEF Sound, Whole, Counted
  <2>2. /\ IsFiniteSet(RunSlots(u.running))
        /\ Cardinality(RunSlots(v.running)) = Cardinality(RunSlots(u.running)) + n
    BY <1>1, <1>5, <2>1, EndSlots
  <2>3. IsFiniteSet(u.running)
    BY <1>5, <2>1, FS_RemoveElement
  <2>4. /\ Cardinality(LoopSlots(v.loop)) \in Nat /\ Cardinality(RunSlots(u.running)) \in Nat
        /\ v.outstanding \in Nat
    BY <1>1, <2>1, <2>2, FS_CardinalityType DEF Workers
  <2>5. Filled(u) /\ Settled(u)
    BY <1>5, <1>6 DEF Sound, Whole, Filled, Settled
  <2>6. Ending(u) /\ Stopped(u) /\ Drained(u)
    BY <1>5 DEF Sound, Whole, Ending, Stopped, Drained, Terminal
  <2> HIDE DEF n
  <2> QED BY <1>2, <1>4, <1>5, <2>1, <2>2, <2>3, <2>4, <2>5, <2>6 DEF Owes, Terminal
<1>8. Patient(u)
    BY <1>5 DEF Sound, Patient, Deaf, Terminal
<1>9. r \in Seq(Verdicts)
    BY <1>2 DEF Results
<1>10. CASE ~b.leader
  <2>1. /\ Whole(Hand(u, b.tools, r)) /\ Alike(Hand(u, b.tools, r), u)
        /\ Hand(u, b.tools, r).busy = u.busy
        /\ Hand(u, b.tools, r).outcome = u.outcome
    BY <1>2, <1>5, <1>6, <1>7, <1>9, <1>10, HandKeeps
  <2>2. Moves(Hand(u, b.tools, r), v)
    BY <1>5, <1>6, <1>8, <2>1 DEF Moves, Alike, Gone
  <2> QED BY <1>10, <2>2 DEF u
<1>11. CASE b.leader
  <2>1. Whole(u)
    BY <1>7, <1>11, OwesNothing
  <2>2. Moves(u, v)
    BY <1>5, <1>6, <1>8, <2>1 DEF Moves
  <2>3. ~Gone(v) => Moves(Enqueue(u), v)
    <3>1. ~Gone(v) => Whole(Enqueue(u)) /\ Alike(Enqueue(u), u)
      BY <1>5, <2>1, EnqueueKeeps DEF Gone
    <3>2. Enqueue(u).outcome \in {u.outcome, "failure"}
      BY <1>4, OnlyFailures
    <3> QED BY <1>5, <1>6, <1>8, <3>1, <3>2 DEF Moves, Alike
  <2> QED BY <1>11, <2>2, <2>3 DEF u
<1> QED BY <1>2, <1>10, <1>11

\* Sets of numbers that hold 0 and with i also i + 1.
LEMMA Induction ==
    ASSUME NEW n \in Nat, NEW S \in SUBSET (0..n), 0 \in S,
           \A i \in S : i + 1 \in 0..n => i + 1 \in S
    PROVE  S = 0..n
<1> DEFINE T == {0..i : i \in (0..n) \ S}
           R == StrictSubsetOrdering(0..n)
<1>1. SUFFICES ASSUME T # {} PROVE FALSE
    OBVIOUS
<1>2. IsWellFoundedOn(R, SUBSET (0..n))
  <2>1. IsFiniteSet(0..n)
    BY FS_Interval
  <2>2. FiniteSubsetsOf(0..n) = SUBSET (0..n)
    BY <2>1, FS_FiniteSubsetsOfFinite
  <2>3. IsWellFoundedOn(R, FiniteSubsetsOf(0..n))
    BY FS_StrictSubsetOrderingWellFounded
  <2> QED BY <2>2, <2>3
<1>3. PICK x \in T : \A y \in T : ~(<<y, x>> \in R)
  <2>1. T \subseteq SUBSET (0..n)
    OBVIOUS
  <2> HIDE DEF T, R
  <2> QED BY <1>1, <1>2, <2>1, WFMin
<1>4. PICK i \in (0..n) \ S : x = 0..i
    OBVIOUS
<1>5. i # 0 /\ i - 1 \in 0..n
    OBVIOUS
<1>6. CASE i - 1 \in S
    BY <1>4, <1>5, <1>6
<1>7. CASE i - 1 \notin S
  <2>1. 0..(i - 1) \in T
    BY <1>5, <1>7
  <2>2. 0..(i - 1) \subseteq 0..i /\ 0..(i - 1) # 0..i
    <3>1. i \in 0..i /\ i \notin 0..(i - 1)
      OBVIOUS
    <3> QED BY <3>1, <1>5
  <2>3. <<0..(i - 1), 0..i>> \in R
    BY <2>2, <1>5 DEF StrictSubsetOrdering
  <2> QED BY <1>3, <1>4, <2>1, <2>3
<1> QED BY <1>6, <1>7

\* The equation of the function by which Respond hears an answer.
Hears(h, n, v, answer) == h = [i \in 0..n |-> IF i = 0 THEN v ELSE OnEvent(h[i - 1], answer[i])]

\* The function of Respond that hears an answer event by event exists.
LEMMA HearingExists ==
    ASSUME NEW n \in Nat, NEW v, NEW answer
    PROVE  \E h : Hears(h, n, v, answer)
<1> DEFINE E == {m \in 0..n : \E h : Hears(h, m, v, answer)}
<1>1. 0 \in E
  <2> DEFINE h == [i \in 0..0 |-> v]
  <2>1. h = [i \in 0..0 |-> IF i = 0 THEN v ELSE OnEvent(h[i - 1], answer[i])]
    OBVIOUS
  <2> HIDE DEF h
  <2>2. Hears(h, 0, v, answer)
    BY <2>1 DEF Hears
  <2> QED BY <2>2
<1>2. ASSUME NEW m \in E, m + 1 \in 0..n PROVE m + 1 \in E
  <2>1. PICK h : h = [i \in 0..m |-> IF i = 0 THEN v ELSE OnEvent(h[i - 1], answer[i])]
    BY DEF Hears
  <2> DEFINE g == [i \in 0..(m + 1) |-> IF i = 0 THEN v ELSE OnEvent(h[i - 1], answer[i])]
  <2>2. \A i \in 0..m : g[i] = h[i]
    BY <2>1
  <2>3. g = [i \in 0..(m + 1) |-> IF i = 0 THEN v ELSE OnEvent(g[i - 1], answer[i])]
    <3>1. ASSUME NEW i \in 0..(m + 1)
          PROVE  (IF i = 0 THEN v ELSE OnEvent(h[i - 1], answer[i]))
                    = IF i = 0 THEN v ELSE OnEvent(g[i - 1], answer[i])
      <4>1. CASE i = 0
        BY <4>1
      <4>2. CASE i # 0
        <5>1. i - 1 \in 0..m
          BY <4>2
        <5>2. g[i - 1] = h[i - 1]
          BY <5>1, <2>2
        <5> HIDE DEF g
        <5> QED BY <4>2, <5>2
      <4> QED BY <4>1, <4>2
    <3> QED BY <3>1
  <2> HIDE DEF g
  <2>4. Hears(g, m + 1, v, answer)
    BY <2>3 DEF Hears
  <2> QED BY <2>4, <1>2, Zenon
<1>3. n \in E
  <2>1. E \in SUBSET (0..n)
    OBVIOUS
  <2> HIDE DEF E
  <2>2. E = 0..n
    BY <1>1, <1>2, <2>1, Induction
  <2> QED BY <2>2
<1> QED BY <1>3

\* The worker after a whole answer is as one that has heard its events in turn.
LEMMA HearingKeeps ==
    ASSUME NEW v, Whole(v), Patient(v), v.busy, ~v.killed, NEW answer \in Responses,
           NEW h, Hears(h, Len(answer), v, answer)
    PROVE  LET u == h[Len(answer)]
           IN  /\ Whole(u) /\ Patient(u) /\ u.busy /\ ~u.killed
               /\ u.begun = v.begun /\ u.running = v.running
<1> DEFINE n == Len(answer)
           Fine(u) == /\ Whole(u) /\ Patient(u) /\ u.busy /\ ~u.killed
                      /\ u.begun = v.begun /\ u.running = v.running
           S == {i \in 0..n : Fine(h[i])}
<1>1. n \in Nat /\ answer \in Seq(Events)
    BY ResponsesAssumption
<1>2. \A i \in 0..n : h[i] = IF i = 0 THEN v ELSE OnEvent(h[i - 1], answer[i])
  <2>1. h = [i \in 0..n |-> IF i = 0 THEN v ELSE OnEvent(h[i - 1], answer[i])]
    BY DEF Hears
  <2> QED BY <2>1, Zenon
<1>3. 0 \in S
    BY <1>1, <1>2
<1>4. ASSUME NEW i \in S, i + 1 \in 0..n PROVE i + 1 \in S
  <2>1. /\ i \in 0..n /\ Fine(h[i])
    OBVIOUS
  <2>2. answer[i + 1] \in Events /\ h[i + 1] = OnEvent(h[i], answer[i + 1])
    BY <1>1, <1>2, <1>4, <2>1
  <2>3. Heard(OnEvent(h[i], answer[i + 1]), h[i])
    BY <2>1, <2>2, OnEventKeeps
  <2>4. Fine(h[i + 1])
    BY <2>1, <2>2, <2>3 DEF Heard, Alike
  <2> QED BY <1>4, <2>4
<1>5. S \in SUBSET (0..n)
    OBVIOUS
<1> HIDE DEF S, Fine
<1>6. S = 0..n
    BY <1>1, <1>3, <1>4, <1>5, Induction
<1>7. Fine(h[n])
  <2>1. n \in S
    BY <1>1, <1>6
  <2> QED BY <2>1 DEF S
<1> QED BY <1>7 DEF Fine

\* A request ends.
LEMMA EndOfSendMoves ==
    ASSUME NEW v, Sound(v), NEW u, Whole(u), Patient(u) \/ u.killed,
           u.killed = v.killed, u.begun = v.begun, u.running = v.running
    PROVE  Moves(EndOfSend(u), v)
<1>1. /\ Whole(EndOfSend(u)) /\ Patient(EndOfSend(u)) /\ ~EndOfSend(u).busy
      /\ EndOfSend(u).running = u.running
    BY EndOfSendKeeps
<1> QED BY <1>1 DEF Moves

\* The continuation that follows a step keeps what the step did.
LEMMA SettleMoves ==
    ASSUME NEW v, Sound(v), NEW u, Moves(u, v)
    PROVE  Moves(Settle(u), v) /\ Sound(Settle(u))
<1>1. Whole(Settle(u)) /\ Alike(Settle(u), u) /\ Settle(u).busy = u.busy
    BY SettleKeeps DEF Moves
<1>2. Settle(u).outcome \in {u.outcome, "failure"}
    BY OnlyFailures DEF Moves, Whole
<1> QED BY <1>1, <1>2 DEF Moves, Sound, Alike

-----------------------------------------------------------------------------
(* The specification *)

\* The inductive invariant: what is sound of the worker, and types.
WorkerInv == Sound(w) /\ said \in 0..Says /\ clock \subseteq {"wall", "deadline"}

\* It holds before the workspace is ready.
LEMMA SoundInit == Init => WorkerInv
<1> SUFFICES ASSUME Init PROVE WorkerInv
    OBVIOUS
<1>1. w \in Workers
  <2>1. /\ <<>> \in Seq(Tools) /\ <<>> \in Seq([kind : Kinds, tools : Seq(Tools),
             results : Seq(Verdicts)])
    BY NoTools, EmptySeq
  <2>2. /\ 0 \in 0..Nudges \cup 0..SilentNudges /\ 0 \in 0..StallLimit
        /\ 0 \in 0..(MissingNudges + 1) /\ 0 \in 0..(Rejections + 1) /\ 0 \in 0..SharedTurns
    BY Bounds
  <2> QED BY <2>1, <2>2 DEF Init, Workers
<1>2. /\ w.loop = <<>> /\ w.running = {} /\ w.outcome = "none" /\ w.outstanding = 0
      /\ w.tools = <<>> /\ ~w.finishing /\ ~w.killed /\ w.queue = 0 /\ w.stall = 0
      /\ ~w.fired /\ ~w.busy
    BY DEF Init
<1>3. LoopSlots(<<>>) = {} /\ RunSlots({}) = {} /\ DOMAIN <<>> = {}
    BY NoTools DEF LoopSlots, RunSlots
<1>4. Counted(w)
  <2>1. IsFiniteSet({}) /\ Cardinality({}) = 0
    BY FS_EmptySet
  <2>2. LoopSlots(w.loop) = {} /\ RunSlots(w.running) = {}
    BY <1>2, <1>3
  <2>3. Cardinality(LoopSlots(w.loop)) = 0 /\ Cardinality(RunSlots(w.running)) = 0
    BY <2>1, <2>2, Zenon
  <2>4. /\ IsFiniteSet(w.running) /\ IsFiniteSet(LoopSlots(w.loop))
        /\ IsFiniteSet(RunSlots(w.running))
    BY <1>2, <2>1, <2>2, Zenon
  <2>5. w.outstanding >= Cardinality(LoopSlots(w.loop)) + Cardinality(RunSlots(w.running))
    BY <1>2, <2>3
  <2> QED BY <2>4, <2>5 DEF Counted
<1>5. Filled(w) /\ Settled(w) /\ Ending(w) /\ Stopped(w) /\ Drained(w)
    BY <1>2, <1>3 DEF Filled, Settled, Ending, Stopped, Drained, Terminal
<1>6. Patient(w)
    BY <1>2, Bounds DEF Patient
<1>7. said \in 0..Says /\ clock \subseteq {"wall", "deadline"}
    BY Bounds DEF Init
<1> QED BY <1>1, <1>2, <1>4, <1>5, <1>6, <1>7 DEF WorkerInv, Sound, Whole

\* Every step of the program is a move followed by the continuation, except
\* the stop by the user, which nothing follows.
LEMMA WorkerMoves ==
    ASSUME WorkerInv, Next, w' # w, ~Kill
    PROVE  \E u : Moves(u, w) /\ w' = Settle(u)
<1> USE DEF Step
<1>0. Sound(w) /\ Whole(w) /\ w \in Workers
    BY DEF WorkerInv, Sound, Whole
<1>1. CASE Begin
  <2> DEFINE v == [w EXCEPT !.begun = TRUE]
  <2>1. w' = Settle(IF w.killed THEN v ELSE Enqueue(v)) /\ ~w.begun
    BY <1>1 DEF Begin
  <2>2. v \in Workers /\ Core(v) = Core(w) /\ v.begun = TRUE /\ v.stall = w.stall
          /\ v.fired = w.fired
    BY ZenonT(40), <1>0 DEF Workers, Core
  <2> HIDE DEF v
  <2>3. Whole(v) /\ v.busy = w.busy /\ v.outcome = w.outcome /\ v.finishing = w.finishing
        /\ v.killed = w.killed /\ v.running = w.running /\ v.aborted = w.aborted
    BY <1>0, <2>2, SameCore DEF Core
  <2>4. Patient(v)
    BY <1>0, <2>2, <2>3 DEF Sound, Patient, Deaf, Terminal
  <2>5. Moves(v, w)
    BY <2>1, <2>2, <2>3, <2>4 DEF Moves
  <2>6. ~w.killed => Moves(Enqueue(v), w)
    <3>1. ~w.killed => Whole(Enqueue(v)) /\ Alike(Enqueue(v), v)
      BY <1>0, <2>1, <2>3, EnqueueKeeps DEF Sound
    <3> QED BY <2>1, <2>2, <2>3, <2>4, <3>1 DEF Moves, Alike
  <2> QED BY <2>1, <2>5, <2>6
<1>2. CASE CannotBegin
  <2> DEFINE v == [w EXCEPT !.begun = TRUE]
  <2>1. w' = Settle(IF Deaf(v) THEN v ELSE Circuit(v)) /\ ~w.begun
    BY <1>2 DEF CannotBegin
  <2>2. v \in Workers /\ Core(v) = Core(w) /\ v.begun = TRUE /\ v.stall = w.stall
          /\ v.fired = w.fired
    BY ZenonT(40), <1>0 DEF Workers, Core
  <2> HIDE DEF v
  <2>3. Whole(v) /\ v.busy = w.busy /\ v.outcome = w.outcome /\ v.finishing = w.finishing
        /\ v.killed = w.killed /\ v.running = w.running /\ v.aborted = w.aborted
    BY <1>0, <2>2, SameCore DEF Core
  <2>4. Patient(v)
    BY <1>0, <2>2, <2>3 DEF Sound, Patient, Deaf, Terminal
  <2>5. Moves(v, w)
    BY <2>1, <2>2, <2>3, <2>4 DEF Moves
  <2>6. Moves(Circuit(v), w)
    <3>1. Whole(Circuit(v)) /\ Alike(Circuit(v), v) /\ Circuit(v).busy = v.busy
      BY <2>3, CircuitKeeps
    <3> QED BY <2>1, <2>2, <2>3, <2>4, <3>1 DEF Moves, Alike
  <2> QED BY <2>1, <2>5, <2>6
<1>3. CASE Respond
  <2>1. PICK answer \in Responses :
          LET heard[i \in 0..Len(answer)] ==
                  IF i = 0 THEN w ELSE OnEvent(heard[i - 1], answer[i])
          IN  w' = Settle(EndOfSend(OnIdle(heard[Len(answer)])))
    BY <1>3 DEF Respond
  <2> DEFINE h == CHOOSE f : f = [i \in 0..Len(answer) |->
                                    IF i = 0 THEN w ELSE OnEvent(f[i - 1], answer[i])]
             u == h[Len(answer)]
  <2>2. w' = Settle(EndOfSend(OnIdle(u)))
    BY <2>1
  <2>3. Hears(h, Len(answer), w, answer)
    <3>1. Len(answer) \in Nat
      BY ResponsesAssumption
    <3>2. \E f : Hears(f, Len(answer), w, answer)
      BY <3>1, HearingExists
    <3> QED BY <3>2, Zenon DEF Hears
  <2>4. w.busy /\ ~w.aborted
    BY <1>3 DEF Respond
  <2> HIDE DEF h
  <2>5. /\ Whole(u) /\ Patient(u) /\ u.busy /\ ~u.killed
        /\ u.begun = w.begun /\ u.running = w.running
    <3>1. ~w.killed /\ Patient(w)
      BY <1>0, <1>3 DEF Sound, Respond, Granted
    <3> QED BY <1>0, <2>3, <2>4, <3>1, HearingKeeps
  <2>6. ~w.killed
    BY <1>3 DEF Respond, Granted
  <2> HIDE DEF u
  <2>7. /\ Whole(OnIdle(u))
        /\ Patient(OnIdle(u)) \/ OnIdle(u).killed
        /\ OnIdle(u).killed = u.killed /\ OnIdle(u).begun = u.begun
        /\ OnIdle(u).running = u.running
    BY <2>5, OnIdleKeeps
  <2>8. u.killed = w.killed
    BY <2>5, <2>6, <1>0 DEF Whole, Workers
  <2>9. Moves(EndOfSend(OnIdle(u)), w)
    BY <1>0, <2>5, <2>7, <2>8, EndOfSendMoves
  <2> QED BY <2>2, <2>9
<1>4. CASE Retry
  <2>1. w' = Settle(OnRun(w)) /\ w.busy /\ ~w.aborted
    BY <1>4 DEF Retry
  <2>2. Whole(OnRun(w)) /\ Alike(OnRun(w), w) /\ OnRun(w).busy = w.busy
    BY <1>0, OnRunKeeps
  <2>3. OnRun(w).outcome \in {w.outcome, "failure"}
    BY <1>0, OnlyFailures
  <2>4. Moves(OnRun(w), w)
    BY <1>0, <2>1, <2>2, <2>3, MovesOn
  <2> QED BY <2>1, <2>4
<1>5. CASE RequestFails
  <2> DEFINE u == IF Deaf(w) THEN w ELSE Circuit(w)
  <2>1. w' = Settle(EndOfSend(u))
    BY <1>5 DEF RequestFails
  <2>2. Whole(u) /\ Alike(u, w)
    BY <1>0, CircuitKeeps, SelfKeeps
  <2> HIDE DEF u
  <2>3. Moves(EndOfSend(u), w)
    BY <1>0, <2>2, EndOfSendMoves DEF Sound, Alike
  <2> QED BY <2>1, <2>3
<1>6. CASE RequestAborted
  <2>1. w' = Settle(EndOfSend(OnIdle(w))) /\ w.busy /\ w.aborted
    BY <1>6 DEF RequestAborted
  <2>2. /\ Whole(OnIdle(w))
        /\ Patient(OnIdle(w)) \/ OnIdle(w).killed
        /\ OnIdle(w).killed = w.killed /\ OnIdle(w).begun = w.begun
        /\ OnIdle(w).running = w.running
    BY <1>0, <2>1, OnIdleKeeps DEF Sound
  <2>3. Moves(EndOfSend(OnIdle(w)), w)
    BY <1>0, <2>2, EndOfSendMoves
  <2> QED BY <2>1, <2>3
<1>7. CASE RunCallback
  <2>1. /\ w' = Settle(Callbacks([w EXCEPT !.loop = Tail(@)], Head(w.loop))) 
        /\ w.loop # <<>>
    BY <1>7 DEF RunCallback
  <2>2. Moves(Callbacks([w EXCEPT !.loop = Tail(@)], Head(w.loop)), w)
    BY <1>0, <2>1, CallbacksMove
  <2> QED BY <2>1, <2>2
<1>8. ASSUME NEW b \in w.running, ToolsEnd(b)
      PROVE  \E u : Moves(u, w) /\ w' = Settle(u)
  <2> DEFINE v == [w EXCEPT !.running = @ \ {b}]
             u(r) == CASE ~b.leader -> Hand(v, b.tools, r)
                       [] b.leader /\ Gone(w) -> v
                       [] OTHER -> Enqueue(v)
  <2>1. PICK r \in Results(b.tools) : w' = Settle(u(r))
    BY <1>8 DEF ToolsEnd
  <2>2. Moves(u(r), w)
    BY <1>0, ToolsEndMoves
  <2> HIDE DEF u
  <2> QED BY <2>1, <2>2
<1>9. ASSUME w.approvals > 0
      PROVE  LET v == [w EXCEPT !.approvals = @ - 1]
             IN  /\ Whole(v) /\ Alike(v, w) /\ v.outcome = w.outcome /\ v.busy = w.busy
                 /\ ~v.killed /\ ~Gone(w) /\ v.outcome # "success"
  <2> DEFINE v == [w EXCEPT !.approvals = @ - 1]
  <2>1. w.approvals - 1 \in Nat
    BY <1>0, <1>9 DEF Workers
  <2>2. v \in Workers
    BY <1>0, <2>1 DEF Workers
  <2>3. /\ v.loop = w.loop /\ v.running = w.running /\ v.outcome = w.outcome
        /\ v.outstanding = w.outstanding /\ v.open = w.open /\ v.queue = w.queue
        /\ v.finishing = w.finishing /\ v.tools = w.tools /\ v.begun = w.begun
        /\ v.stall = w.stall /\ v.fired = w.fired /\ v.killed = w.killed /\ v.roused = w.roused
             /\ v.busy = w.busy
        /\ v.aborted = w.aborted
    BY <1>0 DEF Workers
  <2> HIDE DEF v
  <2>4. ~Gone(w)
    BY <1>0, <1>9 DEF Whole, Settled, Stopped, Gone
  <2>5. Filled(v) /\ Counted(v) /\ Settled(v)
    BY <1>0, <2>3, <2>4 DEF Whole, Filled, Counted, Settled, Terminal, Gone
  <2>6. Ending(v) /\ Stopped(v) /\ Drained(v)
    BY <1>0, <2>3, <2>4 DEF Whole, Ending, Stopped, Drained, Terminal, Gone
  <2>7. Alike(v, w)
    BY <2>3 DEF Alike, Deaf, Terminal, Patient
  <2> QED BY <2>2, <2>3, <2>4, <2>5, <2>6, <2>7 DEF Whole, Gone, v
<1>10. CASE Approve
  <2> DEFINE v == [w EXCEPT !.approvals = @ - 1]
             u == IF Granted(w) THEN Run(v, <<"risky">>, TRUE)
                  ELSE IF Gone(w) THEN v ELSE Enqueue(v)
  <2>1. w' = Settle(u) /\ w.approvals > 0
    BY <1>10 DEF Approve
  <2>2. /\ Whole(v) /\ Alike(v, w) /\ v.outcome = w.outcome /\ v.busy = w.busy
        /\ ~v.killed /\ ~Gone(w) /\ v.outcome # "success"
    BY <1>9, <2>1
  <2> HIDE DEF v
  <2>3. CASE Granted(w)
    <3>1. Owes(v, 0)
      <4>1. v \in Workers /\ Counted(v)
        BY <2>2 DEF Whole
      <4>2. Cardinality(LoopSlots(v.loop)) \in Nat
        BY <4>1, FS_CardinalityType DEF Counted
      <4> QED BY <2>2, <4>1, <4>2 DEF Whole, Counted, Owes
    <3>2. <<"risky">> \in Seq(Tools) /\ <<"risky">> # <<>>
      BY DEF Tools
    <3>3. /\ Whole(Run(v, <<"risky">>, TRUE)) /\ Run(v, <<"risky">>, TRUE).busy = v.busy
          /\ Run(v, <<"risky">>, TRUE).outcome = v.outcome
          /\ Run(v, <<"risky">>, TRUE).begun = v.begun
          /\ Run(v, <<"risky">>, TRUE).killed = v.killed
          /\ Patient(v) => Patient(Run(v, <<"risky">>, TRUE))
      BY <2>2, <3>1, <3>2, RunKeeps
    <3>4. Moves(Run(v, <<"risky">>, TRUE), w)
      BY <1>0, <2>2, <2>3, <3>3 DEF Moves, Sound, Alike, Granted
    <3> QED BY <2>1, <2>3, <3>4
  <2>4. CASE ~Granted(w)
    <3>1. Moves(Enqueue(v), w)
      BY <1>0, <2>2, EnqueueMoves
    <3> QED BY <2>1, <2>2, <2>4, <3>1
  <2> QED BY <2>3, <2>4
<1>11. CASE Reject
  <2> DEFINE v == [w EXCEPT !.approvals = @ - 1]
  <2>1. w' = Settle(Enqueue(v)) /\ w.approvals > 0
    BY <1>11 DEF Reject
  <2>2. /\ Whole(v) /\ Alike(v, w) /\ v.outcome = w.outcome
        /\ ~v.killed /\ v.outcome # "success"
    BY <1>9, <2>1
  <2> HIDE DEF v
  <2>3. Moves(Enqueue(v), w)
    BY <1>0, <2>2, EnqueueMoves
  <2> QED BY <2>1, <2>3
<1>12. CASE ParentSays
  <2>1. w' = Settle(Enqueue(w)) /\ ~Terminal(w) /\ ~w.killed
    BY <1>12 DEF ParentSays
  <2>2. Moves(Enqueue(w), w)
    BY <1>0, <2>1, SelfKeeps, EnqueueMoves DEF Terminal
  <2> QED BY <2>1, <2>2
<1>13. CASE Deadline
  <2>1. w' = Settle(Circuit(w)) 
    BY <1>13 DEF Deadline
  <2>2. Whole(Circuit(w)) /\ Alike(Circuit(w), w) /\ Circuit(w).busy = w.busy
    BY <1>0, CircuitKeeps
  <2>3. Circuit(w).outcome \in {w.outcome, "failure"}
    BY <1>0, OnlyFailures
  <2>4. Moves(Circuit(w), w)
    BY <1>0, <2>2, <2>3, MovesOn
  <2> QED BY <2>1, <2>4
<1>14. ~WallClock
    BY DEF WallClock
<1> QED BY <1>1, <1>2, <1>3, <1>4, <1>5, <1>6, <1>7, <1>8, <1>10, <1>11, <1>12, <1>13, <1>14
           DEF Next

\* The stop by the user wakes nothing and starts nothing.
LEMMA KillKeeps ==
    ASSUME WorkerInv, Kill
    PROVE  Sound(w') /\ w'.busy = w.busy /\ w'.running = w.running
<1> DEFINE u == [w EXCEPT !.killed = TRUE, !.queue = 0, !.aborted = w.busy, !.approvals = 0]
<1>1. w \in Workers /\ w' = u /\ ~w.killed /\ ~Terminal(w) /\ Sound(w) /\ Whole(w)
    BY DEF Kill, WorkerInv, Sound, Whole
<1>2. u \in Workers
    BY ZenonT(40), <1>1 DEF Workers
<1>3. /\ u.loop = w.loop /\ u.running = w.running /\ u.outcome = w.outcome
      /\ u.outstanding = w.outstanding /\ u.open = w.open /\ u.queue = 0
      /\ u.finishing = w.finishing /\ u.tools = w.tools /\ u.begun = w.begun
      /\ u.stall = w.stall /\ u.fired = w.fired /\ u.killed = TRUE /\ u.busy = w.busy
      /\ u.aborted = w.busy /\ u.approvals = 0
    BY <1>1 DEF Workers
<1> HIDE DEF u
<1>4. Filled(u) /\ Counted(u) /\ Settled(u)
    BY <1>1, <1>3 DEF Whole, Filled, Counted, Settled, Terminal
<1>5. Ending(u) /\ Stopped(u) /\ Drained(u)
    BY <1>1, <1>3 DEF Whole, Ending, Stopped, Drained, Terminal
<1>6. Patient(u)
    BY <1>1, <1>3 DEF Sound, Patient, Deaf, Terminal
<1> QED BY <1>1, <1>2, <1>3, <1>4, <1>5, <1>6 DEF Sound, Whole, Terminal

\* Every step preserves the invariant and wakes no worker that is to be silent.
LEMMA WorkerSteps ==
    ASSUME WorkerInv, [Next]_vars
    PROVE  /\ WorkerInv'
           /\ Gone(w) /\ w.begun /\ ~Rouses(w) => ~(~w.busy /\ w'.busy)
           /\ Terminal(w) \/ w.killed => w'.running \subseteq w.running
<1>1. said' \in 0..Says /\ clock' \subseteq {"wall", "deadline"}
  <2>1. /\ clock' \in {clock, clock \cup {"wall"}, clock \cup {"deadline"}}
        /\ said' = said \/ (said < Says /\ said' = said + 1)
    BY DEF Next, Begin, CannotBegin, Respond, Retry, RequestFails, RequestAborted, RunCallback,
           ToolsEnd, Approve, Reject, ParentSays, WallClock, Deadline, Kill, Still, vars
  <2> QED BY <2>1, Bounds DEF WorkerInv
<1>2. CASE w' = w
    BY <1>1, <1>2 DEF WorkerInv
<1>3. CASE Kill
    BY <1>1, <1>3, KillKeeps DEF WorkerInv
<1>4. CASE w' # w /\ ~Kill
  <2>1. Next
    BY <1>4 DEF vars
  <2>2. PICK u : Moves(u, w) /\ w' = Settle(u)
    BY <1>4, <2>1, WorkerMoves
  <2>3. Moves(w', w) /\ Sound(w')
    BY <2>2, SettleMoves DEF WorkerInv
  <2> QED BY <1>1, <2>3 DEF WorkerInv, Moves
<1> QED BY <1>2, <1>3, <1>4

\* The inductive invariant holds of every behaviour, for every set of answers of
\* the model and every value of the limits.
THEOREM WorkerIsSound == Spec => []WorkerInv
<1>1. Init => WorkerInv
    BY SoundInit
<1>2. WorkerInv /\ [Next]_vars => WorkerInv'
    BY WorkerSteps
<1> QED BY <1>1, <1>2, PTL DEF Spec

\* TypeOK: what the handler and the agent hold has its type; the counts of
\* reminders, rejections, stalls and turns stay below the limits they are compared with.
THEOREM WorkerTyped == Spec => []TypeOK
<1>1. WorkerInv => TypeOK
    BY DEF WorkerInv, Sound, Whole, TypeOK
<1> QED BY <1>1, WorkerIsSound, PTL

\* SuccessIsSettled: when decideSuccess accepts a success, no tool of the worker runs
\* or waits to run, no result is on its way, no command waits for the leader, and no
\* todo is open - for the counters of the handler cover all of them.
THEOREM SuccessSettled == Spec => []SuccessIsSettled
<1>1. WorkerInv => SuccessIsSettled
    BY DEF WorkerInv, Sound, Whole, TypeOK, Settled, Carries, SuccessIsSettled
<1> QED BY <1>1, WorkerIsSound, PTL

\* QueueIsDrained: the agent never rests on queued messages (send, httpAgent.ts).
THEOREM QueueDrained == Spec => []QueueIsDrained
<1>1. WorkerInv => QueueIsDrained
    BY DEF WorkerInv, Sound, Whole, Drained, QueueIsDrained
<1> QED BY <1>1, WorkerIsSound, PTL

\* StoppedIsSilent: no callback, result or decision wakes the model of a worker that
\* has succeeded or was stopped, but the refusal of a success that waited when it was
\* stopped (WorkerHandler.ts:295), and none starts a tool of a worker that has ended
\* or was stopped.
THEOREM StoppedSilent == Spec => StoppedIsSilent
<1>1. WorkerInv /\ [Next]_vars =>
        [/\ Gone(w) /\ w.begun /\ ~Rouses(w) => ~(~w.busy /\ w'.busy)
         /\ Terminal(w) \/ w.killed => w'.running \subseteq w.running]_vars
    BY WorkerSteps
<1> QED BY <1>1, WorkerIsSound, PTL DEF Spec, StoppedIsSilent

=============================================================================
