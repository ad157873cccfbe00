---------------------------- MODULE LeaderProofs ----------------------------
(***************************************************************************)
(* Proofs about one agent: its leader (module Leader), its requests to     *)
(* the model (Requests), its tools (Watch, Calls) and the record of what   *)
(* happened to it (Replay, Trace), as MCAgents composes them.              *)
(* Two relations are kept by each operator of the handler: the count of    *)
(* the tools handed over is the number of their slots in callbacks and     *)
(* running batches, and the flags of the leader agree with each other      *)
(* (Good).  At the end of every turn the leader is busy, has something     *)
(* under way that wakes it, or has done what its kind owes before it may   *)
(* rest (Rested).  The other components each have an inductive invariant   *)
(* of their own (RequestIs, WatchIs, CallsAre, ReplayIs, TraceIs), and     *)
(* none of them takes a step that another one's invariant reads.           *)
(***************************************************************************)
EXTENDS MCAgents, TLAPS, FiniteSetTheorems, SequenceTheorems, WellFoundedInduction

\* A callback of setImmediate, a batch of tools that runs.
Entries ==
    [kind : {"say", "sayAny", "refuse", "drain", "batch", "deliver"}, n : Nat, stale : BOOLEAN]
Batches == [id : Nat, n : Nat, stale : BOOLEAN]
\* Tools that one callback carries.
Load(cb) == IF Carries(cb) THEN cb.n ELSE 0
Loaded(loop) == Cardinality(LoopSlots(loop))
Runs(running) == Cardinality(RunSlots(running))

\* A row of slots has as many as its tools.
LEMMA RowSize ==
    ASSUME NEW x, NEW n \in Nat
    PROVE  IsFiniteSet({x} \X (1..n)) /\ Cardinality({x} \X (1..n)) = n
<1>1. IsFiniteSet(1..n) /\ Cardinality(1..n) = n
    BY FS_Interval
<1>2. IsFiniteSet({x}) /\ Cardinality({x}) = 1
    BY FS_Singleton
<1>3. 1 * n = n
    OBVIOUS
<1> QED BY <1>1, <1>2, <1>3, FS_Product

\* A slot of the loop is the place of a callback with the number of a tool.
LEMMA LoopSlotsAre ==
    ASSUME NEW loop \in Seq(Entries)
    PROVE  LoopSlots(loop) =
             {slot \in (1..Len(loop)) \X Nat : Carries(loop[slot[1]])
               /\ slot[2] \in 1..loop[slot[1]].n}
<1> DEFINE S == {slot \in (1..Len(loop)) \X Nat : Carries(loop[slot[1]])
      /\ slot[2] \in 1..loop[slot[1]].n}
<1>1. ASSUME NEW slot \in LoopSlots(loop) PROVE slot \in S
  <2>1. PICK key \in DOMAIN loop : Carries(loop[key]) /\ slot \in {key} \X (1..loop[key].n)
    BY <1>1 DEF LoopSlots
  <2>2. loop[key].n \in Nat /\ key \in 1..Len(loop)
    <3>1. key \in 1..Len(loop) /\ loop[key] \in Entries
      OBVIOUS
    <3> QED BY <3>1 DEF Entries
  <2>3. slot[1] = key /\ slot[2] \in 1..loop[key].n /\ slot = <<slot[1], slot[2]>>
    BY <2>1
  <2> QED BY <2>1, <2>2, <2>3
<1>2. ASSUME NEW slot \in S PROVE slot \in LoopSlots(loop)
  <2>1. /\ slot[1] \in {key \in DOMAIN loop : Carries(loop[key])}
        /\ slot[2] \in 1..loop[slot[1]].n /\ slot = <<slot[1], slot[2]>>
    OBVIOUS
  <2>2. slot \in {slot[1]} \X (1..loop[slot[1]].n)
    BY <2>1
  <2> HIDE DEF S
  <2> QED BY <2>1, <2>2 DEF LoopSlots
<1> QED BY <1>1, <1>2

\* A slot of the batches is a batch with the number of a tool.
LEMMA RunSlotsAre ==
    ASSUME NEW running \in SUBSET Batches
    PROVE  RunSlots(running) = {slot \in running \X Nat : slot[2] \in 1..slot[1].n}
<1> DEFINE S == {slot \in running \X Nat : slot[2] \in 1..slot[1].n}
<1>1. ASSUME NEW slot \in RunSlots(running) PROVE slot \in S
  <2>1. PICK batch \in running : slot \in {batch} \X (1..batch.n)
    BY <1>1 DEF RunSlots
  <2>2. batch.n \in Nat
    BY <2>1 DEF Batches
  <2>3. slot[1] = batch /\ slot[2] \in 1..batch.n /\ slot = <<slot[1], slot[2]>>
    BY <2>1
  <2> QED BY <2>1, <2>2, <2>3
<1>2. ASSUME NEW slot \in S PROVE slot \in RunSlots(running)
  <2>1. slot[1] \in running /\ slot[2] \in 1..slot[1].n /\ slot = <<slot[1], slot[2]>>
    OBVIOUS
  <2>2. slot \in {slot[1]} \X (1..slot[1].n)
    BY <2>1
  <2> HIDE DEF S
  <2> QED BY <2>1, <2>2 DEF RunSlots
<1> QED BY <1>1, <1>2

\* A callback appended to the loop adds the tools it carries.
LEMMA AppendSlots ==
    ASSUME NEW loop \in Seq(Entries), NEW cb \in Entries, IsFiniteSet(LoopSlots(loop))
    PROVE  /\ IsFiniteSet(LoopSlots(Append(loop, cb)))
           /\ Loaded(Append(loop, cb)) = Loaded(loop) + Load(cb)
<1> DEFINE n == Len(loop)
           row == {n + 1} \X (1..cb.n)
           more == Append(loop, cb)
<1>0. n \in Nat /\ cb.n \in Nat /\ more \in Seq(Entries)
    BY DEF Entries
<1>1. Len(more) = n + 1 /\ more[n + 1] = cb /\ \A i \in 1..n : more[i] = loop[i]
    BY AppendProperties
<1>2. /\ LoopSlots(loop) =
             {slot \in (1..n) \X Nat : Carries(loop[slot[1]]) /\ slot[2] \in 1..loop[slot[1]].n}
      /\ LoopSlots(more) =
             {slot \in (1..(n + 1)) \X Nat : Carries(more[slot[1]])
               /\ slot[2] \in 1..more[slot[1]].n}
    BY <1>0, <1>1, LoopSlotsAre
<1>3. CASE ~Carries(cb)
  <2>1. LoopSlots(more) = LoopSlots(loop)
    BY <1>0, <1>1, <1>2, <1>3
  <2>2. Cardinality(LoopSlots(loop)) \in Nat
    BY FS_CardinalityType
  <2> QED BY <1>3, <2>1, <2>2 DEF Load, Loaded
<1>4. CASE Carries(cb)
  <2>1. LoopSlots(more) = LoopSlots(loop) \cup row
    BY <1>0, <1>1, <1>2, <1>4
  <2>2. LoopSlots(loop) \cap row = {}
    BY <1>0, <1>2
  <2>3. IsFiniteSet(row) /\ Cardinality(row) = cb.n
    BY <1>0, RowSize
  <2>4. Cardinality(LoopSlots(loop)) \in Nat /\ Cardinality(LoopSlots(loop) \cap row) = 0
    BY <2>2, FS_CardinalityType, FS_EmptySet, Zenon
  <2> HIDE DEF row, more
  <2>5. /\ IsFiniteSet(LoopSlots(loop) \cup row)
        /\ Cardinality(LoopSlots(loop) \cup row)
              = Cardinality(LoopSlots(loop)) + Cardinality(row)
                 - Cardinality(LoopSlots(loop) \cap row)
    BY <2>3, FS_Union
  <2>6. Load(cb) = cb.n
    BY <1>4 DEF Load
  <2> HIDE DEF n
  <2>7. /\ IsFiniteSet(LoopSlots(more))
        /\ Cardinality(LoopSlots(more)) = Cardinality(LoopSlots(loop)) + cb.n
    BY <1>0, <2>1, <2>3, <2>4, <2>5
  <2> QED BY <2>6, <2>7 DEF more, Loaded
<1> QED BY <1>3, <1>4

\* The first callback taken off the loop takes the tools it carries.
LEMMA TailSlots ==
    ASSUME NEW loop \in Seq(Entries), loop # <<>>, IsFiniteSet(LoopSlots(loop))
    PROVE  /\ IsFiniteSet(LoopSlots(Tail(loop)))
           /\ Loaded(loop) = Loaded(Tail(loop)) + Load(Head(loop))
<1> DEFINE n == Len(loop)
           cb == Head(loop)
           tail == Tail(loop)
           row == {1} \X (1..Load(cb))
           above == LoopSlots(loop) \ row
           up == [slot \in LoopSlots(tail) |-> <<slot[1] + 1, slot[2]>>]
<1>1. /\ n \in Nat \ {0} /\ cb = loop[1] /\ cb \in Entries /\ tail \in Seq(Entries)
      /\ Len(tail) = n - 1 /\ \A i \in 1..(n - 1) : tail[i] = loop[i + 1]
    BY HeadTailProperties, EmptySeq
<1>2. Load(cb) \in Nat
    BY <1>1 DEF Load, Entries
<1>0. /\ LoopSlots(loop) =
             {slot \in (1..n) \X Nat : Carries(loop[slot[1]]) /\ slot[2] \in 1..loop[slot[1]].n}
      /\ LoopSlots(tail) =
             {slot \in (1..(n - 1)) \X Nat : Carries(tail[slot[1]])
               /\ slot[2] \in 1..tail[slot[1]].n}
    BY <1>1, LoopSlotsAre
<1>3. row \subseteq LoopSlots(loop)
    BY <1>0, <1>1, <1>2 DEF Load
<1>4. above = {slot \in LoopSlots(loop) : slot[1] # 1}
    BY <1>0, <1>1, <1>2 DEF Load
<1>5. up \in Bijection(LoopSlots(tail), above)
  <2>1. \A slot \in LoopSlots(tail) : up[slot] \in above
    <3> SUFFICES ASSUME NEW slot \in LoopSlots(tail) PROVE <<slot[1] + 1, slot[2]>> \in above
        OBVIOUS
    <3>1. /\ slot[1] \in 1..(n - 1) /\ slot[2] \in Nat
          /\ Carries(tail[slot[1]]) /\ slot[2] \in 1..tail[slot[1]].n
      BY <1>0
    <3> DEFINE t == <<slot[1] + 1, slot[2]>>
    <3>2. t[1] = slot[1] + 1 /\ t[2] = slot[2] /\ t \in (1..n) \X Nat /\ t[1] # 1
      BY <1>1, <3>1
    <3>3. tail[slot[1]] = loop[t[1]]
      BY <1>1, <3>1, <3>2
    <3> QED BY <1>0, <1>4, <3>1, <3>2, <3>3
  <2>2. \A slot, t \in LoopSlots(tail) : up[slot] = up[t] => slot = t
    BY <1>0, <1>1
  <2>3. \A t \in above : \E slot \in LoopSlots(tail) : up[slot] = t
    <3> SUFFICES ASSUME NEW t \in above PROVE \E slot \in LoopSlots(tail) : up[slot] = t
        OBVIOUS
    <3>1. t = <<t[1], t[2]>> /\ t[1] \in 2..n /\ t[2] \in Nat
        BY <1>0, <1>1, <1>4
    <3> DEFINE slot == <<t[1] - 1, t[2]>>
    <3>2. slot[1] = t[1] - 1 /\ slot[2] = t[2] /\ slot \in (1..(n - 1)) \X Nat
      BY <1>1, <3>1
    <3>3. tail[slot[1]] = loop[t[1]]
      BY <1>1, <3>1, <3>2
    <3>4. Carries(loop[t[1]]) /\ t[2] \in 1..loop[t[1]].n
      BY <1>0, <1>4, <3>1
    <3>5. slot \in LoopSlots(tail)
      BY <1>0, <3>2, <3>3, <3>4
    <3>6. up[slot] = t
      BY <1>1, <3>1, <3>5
    <3> QED BY <3>5, <3>6
  <2> HIDE DEF up, above
  <2>4. up \in [LoopSlots(tail) -> above]
    BY <2>1 DEF up
  <2> QED BY <2>2, <2>3, <2>4, Zenon DEF Bijection, Injection, Surjection, IsInjective
<1>6. IsFiniteSet(above) /\ Cardinality(above) = Cardinality(LoopSlots(loop)) - Load(cb)
  <2>1. IsFiniteSet(row) /\ Cardinality(row) = Load(cb)
    BY <1>2, RowSize
  <2>2. LoopSlots(loop) \cap row = row
    BY <1>3
  <2> HIDE DEF row, cb
  <2>3. /\ IsFiniteSet(LoopSlots(loop) \ row)
        /\ Cardinality(LoopSlots(loop) \ row) = Cardinality(LoopSlots(loop)) - Load(cb)
    <3>1. Cardinality(LoopSlots(loop) \cap row) = Load(cb)
      BY <2>1, <2>2, Zenon
    <3>2. /\ IsFiniteSet(LoopSlots(loop) \ row)
          /\ Cardinality(LoopSlots(loop) \ row)
                = Cardinality(LoopSlots(loop)) - Cardinality(LoopSlots(loop) \cap row)
      BY FS_Difference, Zenon
    <3> QED BY <3>1, <3>2, Zenon
  <2> QED BY <2>3
<1>7. IsFiniteSet(LoopSlots(tail)) /\ Cardinality(above) = Cardinality(LoopSlots(tail))
  <2> HIDE DEF up, above
  <2>1. up \in Injection(LoopSlots(tail), above) /\ up \in Surjection(LoopSlots(tail), above)
    BY <1>5 DEF Bijection
  <2> QED BY <1>6, <2>1, FS_Injection
<1>8. Cardinality(LoopSlots(loop)) \in Nat
    BY FS_CardinalityType
<1> HIDE DEF above, tail, cb, row, up
<1> QED BY <1>2, <1>6, <1>7, <1>8 DEF tail, cb, Loaded

\* A new batch adds its tools.
LEMMA StartSlots ==
    ASSUME NEW running \in SUBSET Batches, NEW batch \in Batches, batch \notin running,
           IsFiniteSet(RunSlots(running))
    PROVE  /\ IsFiniteSet(RunSlots(running \cup {batch}))
           /\ Runs(running \cup {batch}) = Runs(running) + batch.n
<1> DEFINE row == {batch} \X (1..batch.n)
<1>1. batch.n \in Nat
    BY DEF Batches
<1>2. /\ RunSlots(running) = {slot \in running \X Nat : slot[2] \in 1..slot[1].n}
      /\ RunSlots(running \cup {batch}) = {slot \in (running \cup {batch}) \X Nat : slot[2]
           \in 1..slot[1].n}
    BY RunSlotsAre
<1>3. RunSlots(running \cup {batch}) = RunSlots(running) \cup row
  <2>1. ASSUME NEW slot \in (running \cup {batch}) \X Nat
        PROVE  slot[1] = batch \/ slot \in running \X Nat
    OBVIOUS
  <2>2. row \subseteq (running \cup {batch}) \X Nat /\ \A slot \in row : slot[1] = batch
    BY <1>1
  <2>3. \A slot \in {batch} \X Nat : slot[2] \in 1..slot[1].n => slot \in row
    OBVIOUS
  <2>4. RunSlots(running \cup {batch}) \subseteq RunSlots(running) \cup row
    BY <1>2, <2>3
  <2>5. row \subseteq RunSlots(running \cup {batch})
    BY <1>2, <2>2
  <2> QED BY <1>2, <2>4, <2>5
<1>4. RunSlots(running) \cap row = {}
    BY <1>2
<1>5. IsFiniteSet(row) /\ Cardinality(row) = batch.n
    BY <1>1, RowSize
<1>6. Cardinality(RunSlots(running)) \in Nat /\ Cardinality(RunSlots(running) \cap row) = 0
    BY <1>4, FS_CardinalityType, FS_EmptySet, Zenon
<1> HIDE DEF row
<1>7. /\ IsFiniteSet(RunSlots(running) \cup row)
      /\ Cardinality(RunSlots(running) \cup row)
            = Cardinality(RunSlots(running)) + Cardinality(row)
               - Cardinality(RunSlots(running) \cap row)
    BY <1>5, FS_Union
<1>8. Cardinality(RunSlots(running) \cup row) = Cardinality(RunSlots(running)) + batch.n
    BY <1>1, <1>5, <1>6, <1>7
<1> QED BY <1>3, <1>7, <1>8, Zenon DEF Runs

\* A batch that ends takes its tools.
LEMMA EndSlots ==
    ASSUME NEW running \in SUBSET Batches, NEW batch \in running, IsFiniteSet(RunSlots(running))
    PROVE  /\ IsFiniteSet(RunSlots(running \ {batch}))
           /\ Runs(running) = Runs(running \ {batch}) + batch.n
<1> DEFINE tail == running \ {batch}
<1>1. tail \in SUBSET Batches /\ batch \notin tail /\ running = tail \cup {batch}
        /\ batch \in Batches
    OBVIOUS
<1>2. RunSlots(tail) \subseteq RunSlots(running)
    BY <1>1 DEF RunSlots
<1>3. IsFiniteSet(RunSlots(tail))
    BY <1>2, FS_Subset
<1> HIDE DEF tail
<1>4. Runs(tail \cup {batch}) = Runs(tail) + batch.n
    BY <1>1, <1>3, StartSlots
<1> QED BY <1>1, <1>3, <1>4 DEF tail

-----------------------------------------------------------------------------
(* The inductive invariant, in parts *)

\* The flags of a leader, its children and what its turn has done agree.
Tied(v) ==
    /\ v.fg + v.bg + v.cancelled <= v.spawned
    /\ v.terminal => v.store # "live"
    /\ v.killed => Sub(v) /\ v.store # "live"
    /\ Sub(v) /\ v.store = "done" => v.terminal
    /\ v.aborted => v.busy
    /\ v.old => v.aborted
    /\ Sub(v) /\ v.aborted => v.store # "live"
    /\ Conv(v) => ~v.reported /\ (v.replied => v.acted)
    /\ Sub(v) => ~v.replied
    /\ Sub(v) /\ v.finishing = "old" => v.killed

\* Work of a sub-leader that is not stopped is not superseded.
Fresh(v) ==
    Sub(v) /\ ~v.killed =>
        /\ \A i \in DOMAIN v.loop : ~v.loop[i].stale
        /\ \A batch \in v.running : ~batch.stale

\* While tools can still hold a success back, their count is exact.
Counting(v) == Sub(v) /\ ~v.killed /\ ~v.terminal /\ v.finishing = "no"
Counted(v) ==
    Counting(v) =>
        /\ IsFiniteSet(LoopSlots(v.loop)) /\ IsFiniteSet(RunSlots(v.running))
        /\ v.out = Loaded(v.loop) + Runs(v.running)

Kept(v) == IsFiniteSet(v.running) /\ Fresh(v) /\ Counted(v)

\* A failure of an older revision waits for its tools beside the message that
\* changed the requirement, or has made the handler miss the turn it began.
Late(v) ==
    Conv(v) =>
        /\ v.finishing = "old" => v.missed \/ (v.queue > 0 /\ (v.busy => v.aborted))
        /\ v.old => v.queue > 0

Base(v) == v \in Leaders /\ Tied(v) /\ Kept(v)
Good(v) == Base(v) /\ Late(v)

\* Callbacks that wake a leader at work, and what else can.
Wakes(cb) == cb.kind \in {"sayAny", "refuse"}
  \/ (cb.kind \in {"say", "batch", "deliver"} /\ ~cb.stale)
Awake(v) ==
    \/ v.queue > 0
    \/ \E batch \in v.running : ~batch.stale
    \/ \E i \in DOMAIN v.loop : Wakes(v.loop[i])

\* What a leader owes before it rests.
Paid(v) ==
    /\ Sub(v) => v.reported \/ Children(v) > 0
    /\ Conv(v) /\ v.replied => ~v.lock \/ v.missed
Rested(v) == v.store = "live" /\ v.finishing = "no" => Awake(v) \/ Paid(v)

\* Between two steps no child is left half killed.
Calm(v) == Good(v) /\ (v.busy \/ Rested(v))
LeaderInv == Calm(l) /\ l.cancelled = 0

\* The constants are numbers.
LEMMA Bounds ==
    /\ Requests \in Nat /\ Spawns \in Nat /\ Inputs \in Nat /\ Nudges \in Nat
    /\ SilentNudges \in Nat
    BY LeaderAssumption

\* Fields that the count and the revision of the work depend on.
Work(v) == <<v.kind, v.killed, v.terminal, v.finishing, v.out, v.loop, v.running>>
\* Fields that the agreement of the flags depends on.
Flags(v) ==
    <<v.kind, v.store, v.busy, v.aborted, v.old, v.finishing, v.terminal, v.killed,
      v.fg, v.bg, v.cancelled, v.spawned, v.acted, v.replied, v.reported>>
\* Fields that the wait of an old failure depends on.
Waits(v) == <<v.kind, v.finishing, v.missed, v.queue, v.busy, v.aborted, v.old>>

\* Other fields do not matter to the parts.
LEMMA SameWork ==
    ASSUME NEW v, NEW u, Kept(v), Work(u) = Work(v)
    PROVE  Kept(u)
<1>1. /\ u.kind = v.kind /\ u.killed = v.killed /\ u.terminal = v.terminal
      /\ u.finishing = v.finishing /\ u.out = v.out /\ u.loop = v.loop /\ u.running = v.running
    BY DEF Work
<1> QED BY <1>1 DEF Kept, Fresh, Counted, Counting, Sub

LEMMA SameFlags ==
    ASSUME NEW v, NEW u, Tied(v), Flags(u) = Flags(v)
    PROVE  Tied(u)
<1>1. /\ u.kind = v.kind /\ u.store = v.store /\ u.busy = v.busy /\ u.aborted = v.aborted
      /\ u.old = v.old /\ u.finishing = v.finishing /\ u.terminal = v.terminal
      /\ u.killed = v.killed /\ u.fg = v.fg /\ u.bg = v.bg /\ u.cancelled = v.cancelled
      /\ u.spawned = v.spawned /\ u.acted = v.acted /\ u.replied = v.replied
      /\ u.reported = v.reported
    BY DEF Flags
<1> QED BY <1>1 DEF Tied, Sub, Conv

LEMMA SameWait ==
    ASSUME NEW v, NEW u, Late(v), Waits(u) = Waits(v)
    PROVE  Late(u)
<1>1. /\ u.kind = v.kind /\ u.finishing = v.finishing /\ u.missed = v.missed
      /\ u.queue = v.queue /\ u.busy = v.busy /\ u.aborted = v.aborted /\ u.old = v.old
    BY DEF Waits
<1> QED BY <1>1 DEF Late, Conv

-----------------------------------------------------------------------------
(* Turns *)

\* A turn that begins clears what the one before has done, and counts reminders.
LEMMA ClearedTyped ==
    ASSUME NEW v \in Leaders
    PROVE  [v EXCEPT !.missed = FALSE, !.acted = FALSE, !.replied = FALSE, !.reported = FALSE]
             \in Leaders
    BY ZenonT(120) DEF Leaders

LEMMA RemindersTyped ==
    ASSUME NEW v \in Leaders, NEW m \in 0..Nudges \cup 0..SilentNudges, NEW g \in BOOLEAN,
           NEW n \in BOOLEAN
    PROVE  [v EXCEPT !.loops = FALSE, !.cont = m, !.gaveUp = g, !.nudge = n] \in Leaders
    BY ZenonT(120) DEF Leaders

\* The fields after a turn has begun.
LEMMA SendIs ==
    ASSUME NEW v \in Leaders
    PROVE  LET u == Send(v)
           IN  /\ u \in Leaders /\ Work(u) = Work(v)
               /\ u.busy /\ ~u.aborted /\ ~u.old
               /\ u.store = v.store /\ u.queue = v.queue
               /\ u.fg = v.fg /\ u.bg = v.bg /\ u.cancelled = v.cancelled
               /\ u.spawned = v.spawned
               /\ Deaf(v) => /\ u.acted = v.acted /\ u.replied = v.replied
                             /\ u.reported = v.reported
                             /\ u.missed \/ v.finishing # "old"
               /\ ~Deaf(v) => ~u.acted /\ ~u.replied /\ ~u.reported
<1>0. PICK x : x = [v EXCEPT !.busy = TRUE, !.aborted = FALSE, !.old = FALSE,
                            !.requests = v.requests + 1]
    OBVIOUS
<1>1. v.requests + 1 \in Nat /\ v.cont \in 0..Nudges \cup 0..SilentNudges
      /\ 0 \in 0..Nudges \cup 0..SilentNudges /\ v.nudge \in BOOLEAN /\ v.gaveUp \in BOOLEAN
      /\ v.missed \in BOOLEAN
    BY Bounds DEF Leaders
<1>2. x \in Leaders
    BY ZenonT(120), <1>0, <1>1 DEF Leaders
<1>3. /\ Work(x) = Work(v) /\ x.busy /\ ~x.aborted /\ ~x.old
      /\ x.store = v.store /\ x.queue = v.queue
      /\ x.fg = v.fg /\ x.bg = v.bg /\ x.cancelled = v.cancelled /\ x.spawned = v.spawned
      /\ x.acted = v.acted /\ x.replied = v.replied /\ x.reported = v.reported
      /\ x.missed = v.missed /\ x.finishing = v.finishing /\ x.terminal = v.terminal
      /\ x.nudge = v.nudge /\ x.cont = v.cont /\ x.gaveUp = v.gaveUp
    BY <1>0 DEF Leaders, Work
<1>4. Send(v) = OnRun(x)
    BY <1>0 DEF Send
<1>5. Deaf(x) <=> Deaf(v)
    BY <1>3 DEF Deaf
<1>6. CASE Deaf(v)
  <2>0. PICK q \in BOOLEAN : q = (x.missed \/ x.finishing = "old")
    BY <1>1
  <2> PICK u : u = [x EXCEPT !.missed = q]
    OBVIOUS
  <2>1. Send(v) = u
    BY <1>4, <1>5, <1>6, <2>0 DEF OnRun
  <2>3. u \in Leaders
    BY ZenonT(120), <1>2 DEF Leaders
  <2>4. /\ Work(u) = Work(x) /\ u.busy = x.busy /\ u.aborted = x.aborted /\ u.old = x.old
        /\ u.store = x.store /\ u.queue = x.queue
        /\ u.fg = x.fg /\ u.bg = x.bg /\ u.cancelled = x.cancelled /\ u.spawned = x.spawned
        /\ u.acted = x.acted /\ u.replied = x.replied /\ u.reported = x.reported
        /\ u.missed = q
    BY <1>2 DEF Leaders, Work
  <2> QED BY <1>3, <1>6, <2>0, <2>1, <2>3, <2>4
<1>7. CASE ~Deaf(v)
  <2>0. PICK m \in 0..Nudges \cup 0..SilentNudges : m = IF x.nudge THEN x.cont ELSE 0
    BY <1>1, <1>3
  <2>2. PICK g \in BOOLEAN : g = (x.nudge /\ x.gaveUp)
    BY <1>1, <1>3
  <2>3. PICK y : y = [x EXCEPT !.missed = FALSE, !.acted = FALSE, !.replied = FALSE,
                              !.reported = FALSE]
    OBVIOUS
  <2>4. PICK u : u = [y EXCEPT !.loops = FALSE, !.cont = m, !.gaveUp = g, !.nudge = FALSE]
    OBVIOUS
  <2>1. Send(v) = u
    BY <1>4, <1>5, <1>7, <2>0, <2>2, <2>3, <2>4 DEF OnRun
  <2>5. y \in Leaders
    BY <1>2, <2>3, ClearedTyped
  <2>6. u \in Leaders
    BY <2>4, <2>5, RemindersTyped
  <2>7. /\ Work(y) = Work(x) /\ y.busy = x.busy /\ y.aborted = x.aborted /\ y.old = x.old
        /\ y.store = x.store /\ y.queue = x.queue
        /\ y.fg = x.fg /\ y.bg = x.bg /\ y.cancelled = x.cancelled /\ y.spawned = x.spawned
        /\ ~y.acted /\ ~y.replied /\ ~y.reported
    BY <1>2, <2>3 DEF Leaders, Work
  <2>8. /\ Work(u) = Work(y) /\ u.busy = y.busy /\ u.aborted = y.aborted /\ u.old = y.old
        /\ u.store = y.store /\ u.queue = y.queue
        /\ u.fg = y.fg /\ u.bg = y.bg /\ u.cancelled = y.cancelled /\ u.spawned = y.spawned
        /\ u.acted = y.acted /\ u.replied = y.replied /\ u.reported = y.reported
    BY <2>4, <2>5 DEF Leaders, Work
  <2> QED BY <1>3, <1>7, <2>1, <2>6, <2>7, <2>8
<1> QED BY <1>6, <1>7

\* A turn that begins leaves the leader good, whatever waited.
LEMMA SendKeeps ==
    ASSUME NEW v, Base(v)
    PROVE  Good(Send(v)) /\ Send(v).busy /\ Send(v).cancelled = v.cancelled
<1> PICK u : u = Send(v)
    OBVIOUS
<1>1. /\ u \in Leaders /\ Work(u) = Work(v)
      /\ u.busy /\ ~u.aborted /\ ~u.old
      /\ u.store = v.store /\ u.queue = v.queue
      /\ u.fg = v.fg /\ u.bg = v.bg /\ u.cancelled = v.cancelled
      /\ u.spawned = v.spawned
      /\ Deaf(v) => /\ u.acted = v.acted /\ u.replied = v.replied
                    /\ u.reported = v.reported
                    /\ u.missed \/ v.finishing # "old"
      /\ ~Deaf(v) => ~u.acted /\ ~u.replied /\ ~u.reported
    BY SendIs DEF Base
<1>2. /\ u.kind = v.kind /\ u.killed = v.killed /\ u.terminal = v.terminal
      /\ u.finishing = v.finishing
    BY <1>1 DEF Work
<1>3. Kept(u)
    BY <1>1, SameWork DEF Base
<1>4. Tied(u)
    BY <1>1, <1>2 DEF Base, Tied, Sub, Conv
<1>5. Late(u)
    BY <1>1, <1>2 DEF Late, Deaf, Conv
<1> QED BY <1>1, <1>3, <1>4, <1>5 DEF Good, Base

\* Nothing but an old failure that the running turn did not miss is in the way
\* of another message.
Prompt(v) ==
    Conv(v) /\ v.busy /\ v.finishing = "old" => v.missed \/ v.aborted

\* A message waits in the queue of a busy leader, or begins a turn.
LEMMA EnqueueKeeps ==
    ASSUME NEW v, Base(v), Prompt(v)
    PROVE  Good(Enqueue(v)) /\ Enqueue(v).busy /\ Enqueue(v).cancelled = v.cancelled
<1>1. CASE ~v.busy
    BY <1>1, SendKeeps DEF Enqueue
<1>2. CASE v.busy
  <2> PICK u : u = [v EXCEPT !.queue = v.queue + 1]
    OBVIOUS
  <2>1. Enqueue(v) = u
    BY <1>2 DEF Enqueue
  <2>2. v \in Leaders /\ v.queue \in Nat /\ v.queue + 1 \in Nat
    BY DEF Base, Leaders
  <2>3. u \in Leaders
    BY ZenonT(120), <2>2 DEF Leaders
  <2>4. /\ Work(u) = Work(v) /\ Flags(u) = Flags(v) /\ u.queue = v.queue + 1
        /\ u.missed = v.missed /\ u.busy = v.busy /\ u.cancelled = v.cancelled
        /\ u.finishing = v.finishing /\ u.aborted = v.aborted /\ u.kind = v.kind
    BY <2>2 DEF Leaders, Work, Flags
  <2>5. Base(u)
    BY <2>3, <2>4, SameWork, SameFlags DEF Base
  <2>6. Late(u)
    BY <1>2, <2>2, <2>4 DEF Late, Prompt, Conv
  <2> QED BY <1>2, <2>1, <2>4, <2>5, <2>6 DEF Good
<1> QED BY <1>1, <1>2

\* A good leader takes messages.
LEMMA GoodIsPrompt ==
    ASSUME NEW v, Good(v)
    PROVE  Prompt(v)
    BY DEF Good, Late, Prompt

-----------------------------------------------------------------------------
(* The count of the tools handed over *)

\* A leader that counts n tools more than its callbacks and batches hold.
Owed(v, n) ==
    /\ v \in Leaders /\ Tied(v) /\ Late(v) /\ IsFiniteSet(v.running) /\ Fresh(v)
    /\ Counting(v) =>
          /\ IsFiniteSet(LoopSlots(v.loop)) /\ IsFiniteSet(RunSlots(v.running))
          /\ v.out = n + Loaded(v.loop) + Runs(v.running)

LEMMA OwedNothing ==
    ASSUME NEW v
    PROVE  Owed(v, 0) <=> Good(v)
<1>1. IsFiniteSet(LoopSlots(v.loop)) => Loaded(v.loop) \in Nat
    BY FS_CardinalityType DEF Loaded
<1>2. IsFiniteSet(RunSlots(v.running)) => Runs(v.running) \in Nat
    BY FS_CardinalityType DEF Runs
<1> QED BY <1>1, <1>2 DEF Owed, Good, Base, Kept, Counted

LEMMA LoopTyped ==
    ASSUME NEW v \in Leaders, NEW loop \in Seq(Entries)
    PROVE  [v EXCEPT !.loop = loop] \in Leaders
    BY ZenonT(120) DEF Leaders, Entries

LEMMA OutTyped ==
    ASSUME NEW v \in Leaders, NEW n \in Nat
    PROVE  [v EXCEPT !.out = n] \in Leaders
    BY ZenonT(120) DEF Leaders

LEMMA FieldsTyped ==
    ASSUME NEW v \in Leaders
    PROVE  /\ v.loop \in Seq(Entries) /\ v.running \in SUBSET Batches /\ v.out \in Nat
           /\ v.queue \in Nat /\ v.calls \in Nat /\ v.busy \in BOOLEAN
    BY DEF Leaders, Entries, Batches

\* Another loop is all that changes.
LEMMA LoopIs ==
    ASSUME NEW v \in Leaders, NEW loop \in Seq(Entries), NEW u, u = [v EXCEPT !.loop = loop]
    PROVE  /\ u \in Leaders /\ u.loop = loop /\ u.running = v.running /\ u.out = v.out
           /\ Flags(u) = Flags(v) /\ Waits(u) = Waits(v)
           /\ u.kind = v.kind /\ u.killed = v.killed /\ u.terminal = v.terminal
           /\ u.finishing = v.finishing /\ u.busy = v.busy /\ u.store = v.store
           /\ u.queue = v.queue /\ u.cancelled = v.cancelled
           /\ u.reported = v.reported /\ u.replied = v.replied /\ u.missed = v.missed
           /\ u.fg = v.fg /\ u.bg = v.bg /\ u.lock = v.lock
<1>1. u \in Leaders
    BY LoopTyped
<1>2. /\ u.kind = v.kind /\ u.store = v.store /\ u.busy = v.busy /\ u.aborted = v.aborted
      /\ u.old = v.old /\ u.finishing = v.finishing /\ u.terminal = v.terminal
      /\ u.killed = v.killed /\ u.acted = v.acted
    BY DEF Leaders
<1>3. /\ u.replied = v.replied /\ u.reported = v.reported /\ u.queue = v.queue
      /\ u.missed = v.missed /\ u.fg = v.fg /\ u.bg = v.bg /\ u.cancelled = v.cancelled
      /\ u.spawned = v.spawned /\ u.lock = v.lock
    BY DEF Leaders
<1>4. /\ u.loop = loop /\ u.running = v.running /\ u.out = v.out
    BY DEF Leaders
<1> QED BY <1>1, <1>2, <1>3, <1>4 DEF Flags, Waits

\* Another count is all that changes.
LEMMA OutIs ==
    ASSUME NEW v \in Leaders, NEW n \in Nat, NEW u, u = [v EXCEPT !.out = n]
    PROVE  /\ u \in Leaders /\ u.loop = v.loop /\ u.running = v.running /\ u.out = n
           /\ Flags(u) = Flags(v) /\ Waits(u) = Waits(v)
           /\ u.kind = v.kind /\ u.killed = v.killed /\ u.terminal = v.terminal
           /\ u.finishing = v.finishing /\ u.busy = v.busy /\ u.store = v.store
           /\ u.queue = v.queue /\ u.cancelled = v.cancelled
           /\ u.reported = v.reported /\ u.replied = v.replied /\ u.missed = v.missed
           /\ u.fg = v.fg /\ u.bg = v.bg /\ u.lock = v.lock
<1>1. u \in Leaders
    BY OutTyped
<1>2. /\ u.kind = v.kind /\ u.store = v.store /\ u.busy = v.busy /\ u.aborted = v.aborted
      /\ u.old = v.old /\ u.finishing = v.finishing /\ u.terminal = v.terminal
      /\ u.killed = v.killed /\ u.acted = v.acted
    BY DEF Leaders
<1>3. /\ u.replied = v.replied /\ u.reported = v.reported /\ u.queue = v.queue
      /\ u.missed = v.missed /\ u.fg = v.fg /\ u.bg = v.bg /\ u.cancelled = v.cancelled
      /\ u.spawned = v.spawned /\ u.lock = v.lock
    BY DEF Leaders
<1>4. /\ u.loop = v.loop /\ u.running = v.running /\ u.out = n
    BY DEF Leaders
<1> QED BY <1>1, <1>2, <1>3, <1>4 DEF Flags, Waits

\* A callback appended to the loop pays for the tools it carries.
LEMMA LaterKeeps ==
    ASSUME NEW v, NEW n \in Nat,
           NEW kind \in {"say", "sayAny", "refuse", "drain", "batch", "deliver"},
           Owed(v, Load(Callback(kind, n)))
    PROVE  LET u == Later(v, kind, n)
           IN  /\ Good(u) /\ u.busy = v.busy /\ u.cancelled = v.cancelled
               /\ u.store = v.store /\ u.queue = v.queue /\ u.finishing = v.finishing
               /\ Awake(v) => Awake(u)
               /\ kind # "drain" => Awake(u)
<1>0. PICK cb : cb = Callback(kind, n)
    OBVIOUS
<1>1. cb \in Entries /\ cb.kind = kind /\ cb.n = n /\ ~cb.stale
    BY <1>0 DEF Callback, Entries
<1>2. PICK u : u = Later(v, kind, n)
    OBVIOUS
<1>3. v \in Leaders /\ v.loop \in Seq(Entries) /\ v.running \in SUBSET Batches
    BY FieldsTyped DEF Owed
<1>4. PICK loop \in Seq(Entries) : loop = Append(v.loop, cb)
    BY <1>1, <1>3, AppendProperties
<1>5. u = [v EXCEPT !.loop = loop]
    BY <1>0, <1>2, <1>4 DEF Later
<1>6. /\ u \in Leaders /\ u.loop = loop /\ u.running = v.running /\ u.out = v.out
      /\ Flags(u) = Flags(v) /\ Waits(u) = Waits(v)
      /\ u.kind = v.kind /\ u.killed = v.killed /\ u.terminal = v.terminal
      /\ u.finishing = v.finishing /\ u.busy = v.busy /\ u.store = v.store
      /\ u.queue = v.queue /\ u.cancelled = v.cancelled
    BY <1>3, <1>5, LoopIs
<1>7. /\ DOMAIN loop = 1..(Len(v.loop) + 1) /\ DOMAIN v.loop = 1..Len(v.loop)
      /\ Len(v.loop) \in Nat
      /\ \A i \in DOMAIN v.loop : loop[i] = v.loop[i]
      /\ loop[Len(v.loop) + 1] = cb
    BY <1>1, <1>3, <1>4, AppendProperties, LenProperties
<1>8. Tied(u) /\ Late(u)
    BY <1>6, SameFlags, SameWait DEF Owed
<1>9. Fresh(u)
    BY SMTT(20), <1>1, <1>6, <1>7 DEF Owed, Fresh, Sub
<1>10. ASSUME Counting(u)
       PROVE  /\ IsFiniteSet(LoopSlots(u.loop)) /\ IsFiniteSet(RunSlots(u.running))
              /\ u.out = Loaded(u.loop) + Runs(u.running)
  <2>1. Counting(v)
    BY <1>6, <1>10 DEF Counting, Sub
  <2>2. /\ IsFiniteSet(LoopSlots(v.loop)) /\ IsFiniteSet(RunSlots(v.running))
        /\ v.out = Load(cb) + Loaded(v.loop) + Runs(v.running)
    BY <1>0, <2>1 DEF Owed
  <2>3. IsFiniteSet(LoopSlots(loop)) /\ Loaded(loop) = Loaded(v.loop) + Load(cb)
    BY <1>1, <1>3, <1>4, <2>2, AppendSlots
  <2>4. Loaded(v.loop) \in Nat /\ Runs(v.running) \in Nat
    BY <2>2, FS_CardinalityType DEF Loaded, Runs
  <2>5. Load(cb) \in Nat
    BY <1>1 DEF Load
  <2> QED BY <1>6, <2>2, <2>3, <2>4, <2>5
<1>11. Good(u)
    BY <1>6, <1>8, <1>9, <1>10 DEF Good, Base, Kept, Counted, Owed
<1>12. Awake(v) => Awake(u)
    BY <1>6, <1>7 DEF Awake
<1>13. kind # "drain" => Awake(u)
  <2>1. kind # "drain" => Wakes(loop[Len(v.loop) + 1])
    BY <1>1, <1>7 DEF Wakes
  <2> QED BY <1>6, <1>7, <2>1 DEF Awake
<1> QED BY <1>2, <1>6, <1>11, <1>12, <1>13

\* Callbacks without tools only wake.
LEMMA SayKeeps ==
    ASSUME NEW v, Good(v), NEW n \in Nat, NEW kind \in {"say", "sayAny", "refuse", "drain"}
    PROVE  LET u == Later(v, kind, n)
           IN  /\ Good(u) /\ u.busy = v.busy /\ u.cancelled = v.cancelled
               /\ u.store = v.store /\ u.queue = v.queue /\ u.finishing = v.finishing
               /\ Awake(v) => Awake(u)
               /\ kind # "drain" => Awake(u)
<1>1. Load(Callback(kind, n)) = 0
    BY DEF Load, Callback, Carries
<1>2. Owed(v, Load(Callback(kind, n)))
    BY <1>1, OwedNothing
<1> QED BY <1>2, LaterKeeps

\* The first callback is taken: its tools are owed, and it may have been what
\* wakes the leader.
LEMMA TakeKeeps ==
    ASSUME NEW v, Good(v), v.loop # <<>>, NEW cb, cb = Head(v.loop)
    PROVE  LET u == [v EXCEPT !.loop = Tail(v.loop)]
           IN  /\ Owed(u, Load(cb)) /\ cb \in Entries
               /\ Sub(u) /\ ~u.killed => ~cb.stale
               /\ u.busy = v.busy /\ u.cancelled = v.cancelled /\ u.queue = v.queue
               /\ Rested(v) => Wakes(cb) \/ Rested(u)
<1>1. v \in Leaders /\ v.loop \in Seq(Entries) /\ v.running \in SUBSET Batches
    BY FieldsTyped DEF Good, Base
<1>2. PICK n : n = Len(v.loop)
    OBVIOUS
<1>3. PICK tail \in Seq(Entries) : tail = Tail(v.loop)
    BY <1>1, HeadTailProperties
<1>4. /\ n \in Nat \ {0} /\ cb = v.loop[1] /\ cb \in Entries
      /\ Len(tail) = n - 1 /\ \A i \in 1..(n - 1) : tail[i] = v.loop[i + 1]
      /\ DOMAIN v.loop = 1..n /\ DOMAIN tail = 1..(n - 1)
    BY <1>1, <1>2, <1>3, HeadTailProperties, EmptySeq, LenProperties
<1>5. PICK u : u = [v EXCEPT !.loop = tail]
    OBVIOUS
<1>6. /\ u \in Leaders /\ u.loop = tail /\ u.running = v.running /\ u.out = v.out
      /\ Flags(u) = Flags(v) /\ Waits(u) = Waits(v)
      /\ u.kind = v.kind /\ u.killed = v.killed /\ u.terminal = v.terminal
      /\ u.finishing = v.finishing /\ u.busy = v.busy /\ u.store = v.store
      /\ u.queue = v.queue /\ u.cancelled = v.cancelled
      /\ u.reported = v.reported /\ u.replied = v.replied /\ u.missed = v.missed
      /\ u.fg = v.fg /\ u.bg = v.bg /\ u.lock = v.lock
    BY <1>1, <1>5, LoopIs
<1>7. Tied(u) /\ Late(u)
    BY <1>6, SameFlags, SameWait DEF Good, Base
<1>8. Fresh(u) /\ (Sub(u) /\ ~u.killed => ~cb.stale)
  <2>1. Sub(u) /\ ~u.killed => /\ \A i \in 1..n : ~v.loop[i].stale
                               /\ \A batch \in v.running : ~batch.stale
    BY <1>4, <1>6 DEF Good, Base, Kept, Fresh, Sub
  <2>2. \A i \in 1..(n - 1) : i + 1 \in 1..n
    BY <1>4
  <2> QED BY <1>4, <1>6, <2>1, <2>2 DEF Fresh
<1>9. ASSUME Counting(u)
      PROVE  /\ IsFiniteSet(LoopSlots(u.loop)) /\ IsFiniteSet(RunSlots(u.running))
             /\ u.out = Load(cb) + Loaded(u.loop) + Runs(u.running)
  <2>1. Counting(v)
    BY <1>6, <1>9 DEF Counting, Sub
  <2>2. /\ IsFiniteSet(LoopSlots(v.loop)) /\ IsFiniteSet(RunSlots(v.running))
        /\ v.out = Loaded(v.loop) + Runs(v.running)
    BY <2>1 DEF Good, Base, Kept, Counted
  <2>3. IsFiniteSet(LoopSlots(tail)) /\ Loaded(v.loop) = Loaded(tail) + Load(cb)
    BY <1>1, <1>3, <2>2, TailSlots
  <2>4. Loaded(tail) \in Nat /\ Runs(v.running) \in Nat
    BY <2>2, <2>3, FS_CardinalityType DEF Loaded, Runs
  <2>5. Load(cb) \in Nat
    BY <1>4 DEF Load, Entries
  <2>6. v.out = Load(cb) + Loaded(tail) + Runs(v.running)
    BY <2>2, <2>3, <2>4, <2>5
  <2> QED BY <1>6, <2>2, <2>3, <2>6
<1>10. Owed(u, Load(cb))
    BY <1>6, <1>7, <1>8, <1>9 DEF Good, Base, Kept, Owed
<1>11. Awake(v) => Wakes(cb) \/ Awake(u)
  <2>1. ASSUME NEW i \in DOMAIN v.loop, Wakes(v.loop[i])
        PROVE  Wakes(cb) \/ \E idx \in DOMAIN tail : Wakes(tail[idx])
    <3>1. i = 1 \/ i - 1 \in 1..(n - 1)
      BY <1>4
    <3>2. i - 1 \in 1..(n - 1) => tail[i - 1] = v.loop[i]
      BY <1>4
    <3> QED BY <1>4, <2>1, <3>1, <3>2
  <2> QED BY <1>6, <2>1 DEF Awake
<1>12. Rested(v) => Wakes(cb) \/ Rested(u)
    BY <1>6, <1>11 DEF Rested, Paid, Sub, Conv, Children
<1> QED BY <1>3, <1>4, <1>5, <1>6, <1>8, <1>10, <1>12

\* The end of a request: a queued message is drained later.
LEMMA EndOfSendKeeps ==
    ASSUME NEW v, Good(v)
    PROVE  LET u == EndOfSend(v)
           IN  /\ Good(u) /\ u.cancelled = v.cancelled /\ ~u.busy
               /\ Rested(v) => Rested(u)
<1>0. PICK u : u = [v EXCEPT !.busy = FALSE, !.aborted = FALSE, !.old = FALSE]
    OBVIOUS
<1>1. v \in Leaders
    BY DEF Good, Base
<1>2. u \in Leaders
    BY ZenonT(120), <1>0, <1>1 DEF Leaders
<1>3. /\ Work(u) = Work(v) /\ ~u.busy /\ ~u.aborted /\ ~u.old
      /\ u.store = v.store /\ u.queue = v.queue /\ u.missed = v.missed
      /\ u.fg = v.fg /\ u.bg = v.bg /\ u.cancelled = v.cancelled /\ u.spawned = v.spawned
      /\ u.acted = v.acted /\ u.replied = v.replied /\ u.reported = v.reported
      /\ u.lock = v.lock
    BY <1>0, <1>1 DEF Leaders, Work
<1>4. /\ u.kind = v.kind /\ u.killed = v.killed /\ u.terminal = v.terminal
      /\ u.finishing = v.finishing /\ u.loop = v.loop /\ u.running = v.running
    BY <1>3 DEF Work
<1>5. Tied(u)
    BY <1>3, <1>4 DEF Good, Base, Tied, Sub, Conv
<1>6. Late(u)
    BY <1>3, <1>4 DEF Good, Late, Conv
<1>7. Good(u)
    BY <1>2, <1>3, <1>5, <1>6, SameWork DEF Good, Base
<1>8. Rested(v) => Rested(u)
    BY <1>3, <1>4 DEF Rested, Awake, Paid, Sub, Conv, Children
<1>9. CASE ~(u.queue > 0)
  <2>1. EndOfSend(v) = u
    BY <1>0, <1>9 DEF EndOfSend
  <2> QED BY <1>3, <1>7, <1>8, <2>1
<1>10. CASE u.queue > 0
  <2>0. PICK after : after = Later(u, "drain", 0)
    OBVIOUS
  <2>1. EndOfSend(v) = after
    BY <1>0, <1>10, <2>0 DEF EndOfSend
  <2>2. /\ Good(after) /\ after.busy = u.busy /\ after.cancelled = u.cancelled
             /\ after.queue = u.queue
    BY <1>7, <2>0, SayKeeps
  <2>3. Rested(after)
    BY <1>10, <2>2 DEF Rested, Awake
  <2> QED BY <1>3, <2>1, <2>2, <2>3
<1> QED BY <1>9, <1>10

-----------------------------------------------------------------------------
(* The end of a leader *)

\* What the end of a leader needs: the count no longer matters.
Loose(v) == v \in Leaders /\ Tied(v) /\ Late(v) /\ IsFiniteSet(v.running) /\ Fresh(v)

LEMMA GoodIsLoose ==
    ASSUME NEW v, Good(v)
    PROVE  Loose(v) /\ v \in Leaders /\ Tied(v) /\ Late(v) /\ Kept(v)
    BY DEF Good, Base, Kept, Loose

\* A change of flags that agree again leaves a leader good.
LEMMA GoodChange ==
    ASSUME NEW v, Good(v), NEW u \in Leaders, Work(u) = Work(v), Waits(u) = Waits(v), Tied(u)
    PROVE  Good(u)
    BY GoodIsLoose, SameWork, SameWait DEF Good, Base

\* So does a change of none of them.
LEMMA GoodAside ==
    ASSUME NEW v, Good(v), NEW u \in Leaders, Work(u) = Work(v), Waits(u) = Waits(v),
           Flags(u) = Flags(v)
    PROVE  Good(u)
    BY GoodIsLoose, GoodChange, SameFlags

\* The end is accepted.
LEMMA FinishKeeps ==
    ASSUME NEW v, Loose(v), NEW success \in BOOLEAN
    PROVE  LET u == Finish(v, success)
           IN  /\ Good(u) /\ u.busy = v.busy /\ u.cancelled = v.cancelled /\ u.store # "live"
<1>1. v \in Leaders /\ v.calls \in Nat /\ v.busy \in BOOLEAN
    BY FieldsTyped DEF Loose
<1>2. PICK slot \in {"done", "err"} : slot = IF success THEN "done" ELSE "err"
    OBVIOUS
<1>3. PICK t \in BOOLEAN : t = (v.kind \in {"sub", "fork"})
  <2>1. (v.kind \in {"sub", "fork"}) \in BOOLEAN
    OBVIOUS
  <2> QED BY <2>1, Zenon
<1>4. PICK n \in Nat : n = IF v.kind \in {"sub", "fork"} THEN 0 ELSE v.calls
    BY <1>1
<1>5. PICK x : x = [v EXCEPT !.store = slot, !.acted = TRUE, !.terminal = t, !.calls = n]
    OBVIOUS
<1>6. PICK u : u = IF Sub(v) THEN [x EXCEPT !.told = TRUE, !.queue = 0, !.aborted = v.busy] ELSE x
    OBVIOUS
<1>7. u = Finish(v, success)
    BY <1>2, <1>3, <1>4, <1>5, <1>6 DEF Finish
<1>8. x \in Leaders
    BY ZenonT(120), <1>1, <1>5 DEF Leaders
<1>9. /\ x.kind = v.kind /\ x.busy = v.busy /\ x.aborted = v.aborted /\ x.old = v.old
      /\ x.queue = v.queue /\ x.loop = v.loop /\ x.running = v.running
      /\ x.finishing = v.finishing /\ x.killed = v.killed /\ x.missed = v.missed
      /\ x.fg = v.fg /\ x.bg = v.bg /\ x.cancelled = v.cancelled /\ x.spawned = v.spawned
      /\ x.replied = v.replied /\ x.reported = v.reported
      /\ x.store = slot /\ x.acted /\ x.terminal = t
    BY <1>1, <1>5 DEF Leaders
<1>10. /\ u \in Leaders
       /\ u.kind = v.kind /\ u.busy = v.busy /\ u.old = v.old
       /\ u.loop = v.loop /\ u.running = v.running
       /\ u.finishing = v.finishing /\ u.killed = v.killed /\ u.missed = v.missed
       /\ u.fg = v.fg /\ u.bg = v.bg /\ u.cancelled = v.cancelled /\ u.spawned = v.spawned
       /\ u.replied = v.replied /\ u.reported = v.reported
       /\ u.store = slot /\ u.acted /\ u.terminal = t
       /\ u.aborted = (IF Sub(v) THEN v.busy ELSE v.aborted)
       /\ ~Sub(v) => u.queue = v.queue
  <2>1. CASE ~Sub(v)
    BY <1>6, <1>8, <1>9, <2>1
  <2>2. CASE Sub(v)
    <3>1. u = [x EXCEPT !.told = TRUE, !.queue = 0, !.aborted = v.busy]
      BY <1>6, <2>2
    <3>2. u \in Leaders
      BY ZenonT(120), <1>1, <1>8, <3>1 DEF Leaders
    <3>3. /\ u.kind = x.kind /\ u.busy = x.busy /\ u.old = x.old
          /\ u.loop = x.loop /\ u.running = x.running
          /\ u.finishing = x.finishing /\ u.killed = x.killed /\ u.missed = x.missed
          /\ u.fg = x.fg /\ u.bg = x.bg /\ u.cancelled = x.cancelled /\ u.spawned = x.spawned
          /\ u.replied = x.replied /\ u.reported = x.reported
          /\ u.store = x.store /\ u.acted = x.acted /\ u.terminal = x.terminal
          /\ u.aborted = v.busy
      BY <1>8, <3>1 DEF Leaders
    <3> QED BY <1>9, <2>2, <3>2, <3>3
  <2> QED BY <2>1, <2>2
<1>11. Tied(u)
    BY <1>1, <1>3, <1>10 DEF Loose, Tied, Sub, Conv
<1>12. Late(u)
    BY <1>10 DEF Loose, Late, Sub, Conv
<1>13. Fresh(u) /\ Counted(u)
    BY <1>3, <1>10 DEF Loose, Fresh, Counted, Counting, Sub
<1> QED BY <1>7, <1>10, <1>11, <1>12, <1>13 DEF Good, Base, Kept, Loose

\* agent.done with success
LEMMA SucceedKeeps ==
    ASSUME NEW v, Good(v)
    PROVE  /\ Good(Succeed(v)) /\ Succeed(v).busy = v.busy
           /\ Succeed(v) = v \/ Succeed(v).store # "live"
<1>1. Succeed(v) \in {v, Finish(v, TRUE)}
    BY DEF Succeed
<1>2. LET u == Finish(v, TRUE) IN Good(u) /\ u.busy = v.busy /\ u.store # "live"
    BY GoodIsLoose, FinishKeeps
<1> QED BY <1>1, <1>2

\* agent.done without success
LEMMA FailKeeps ==
    ASSUME NEW v, Good(v)
    PROVE  /\ Good(Fail(v)) /\ Fail(v).busy = v.busy
           /\ Deaf(v) \/ Fail(v).finishing # "no" \/ Fail(v).store # "live"
           /\ Deaf(v) => Fail(v) = v
<1>1. CASE Deaf(v)
    BY <1>1 DEF Fail
<1>2. CASE ~Deaf(v) /\ v.out > 0
  <2>1. v \in Leaders /\ Tied(v) /\ Late(v) /\ Kept(v)
    BY GoodIsLoose
  <2>2. Ids(v) \in SUBSET Nat
    BY <2>1, FieldsTyped DEF Ids, Batches
  <2>3. PICK u : u = [v EXCEPT !.finishing = "yes", !.calls = 0, !.waits = Ids(v)]
    OBVIOUS
  <2>4. Fail(v) = u
    BY <1>2, <2>3 DEF Fail
  <2>5. u \in Leaders
    BY ZenonT(120), <2>1, <2>2, <2>3 DEF Leaders
  <2>6. /\ u.kind = v.kind /\ u.store = v.store /\ u.busy = v.busy /\ u.aborted = v.aborted
        /\ u.old = v.old /\ u.finishing = "yes" /\ u.terminal = v.terminal
        /\ u.killed = v.killed /\ u.acted = v.acted /\ u.replied = v.replied
        /\ u.reported = v.reported /\ u.queue = v.queue /\ u.missed = v.missed /\ u.fg = v.fg
        /\ u.bg = v.bg /\ u.cancelled = v.cancelled /\ u.spawned = v.spawned
        /\ u.loop = v.loop /\ u.running = v.running
    BY <2>1, <2>3 DEF Leaders
  <2>7. Tied(u)
    BY <2>1, <2>6 DEF Tied, Sub, Conv
  <2>8. Late(u)
    BY <2>1, <2>6 DEF Late, Conv
  <2>9. Kept(u)
    BY <2>1, <2>6 DEF Kept, Fresh, Counted, Counting, Sub
  <2> QED BY <1>2, <2>4, <2>5, <2>6, <2>7, <2>8, <2>9 DEF Good, Base
<1>3. CASE ~Deaf(v) /\ ~(v.out > 0)
  <2>1. Fail(v) = Finish(v, FALSE)
    BY <1>3 DEF Fail
  <2>2. LET u == Finish(v, FALSE) IN Good(u) /\ u.busy = v.busy /\ u.store # "live"
    BY GoodIsLoose, FinishKeeps
  <2> QED BY <1>3, <2>1, <2>2
<1> QED BY <1>1, <1>2, <1>3

\* convergeChildLeader: the sub-leader has reported, or has ended.
LEMMA ConvergeKeeps ==
    ASSUME NEW v, Good(v), Sub(v)
    PROVE  Good(Converge(v)) /\ Converge(v).busy = v.busy /\ Rested(Converge(v))
<1>1. v \in Leaders /\ Tied(v)
    BY GoodIsLoose
<1>2. PICK u : u = [v EXCEPT !.told = TRUE, !.reported = TRUE]
    OBVIOUS
<1>3. u \in Leaders
    BY ZenonT(120), <1>1, <1>2 DEF Leaders
<1>4. /\ Work(u) = Work(v) /\ Waits(u) = Waits(v)
    BY <1>1, <1>2 DEF Leaders, Work, Waits
<1>5. /\ u.kind = v.kind /\ u.store = v.store /\ u.busy = v.busy /\ u.aborted = v.aborted
      /\ u.old = v.old /\ u.finishing = v.finishing /\ u.terminal = v.terminal
      /\ u.killed = v.killed /\ u.acted = v.acted /\ u.replied = v.replied
      /\ u.reported /\ u.fg = v.fg
      /\ u.bg = v.bg /\ u.cancelled = v.cancelled /\ u.spawned = v.spawned
    BY <1>1, <1>2 DEF Leaders
<1>6. Tied(u)
    BY <1>1, <1>5 DEF Tied, Sub, Conv
<1>7. Good(u)
    BY <1>3, <1>4, <1>6, GoodChange
<1>8. Rested(u)
    BY <1>5 DEF Rested, Paid, Sub, Conv
<1>9. Converge(v) = Succeed(u)
    BY <1>2 DEF Converge
<1>10. Good(Succeed(u)) /\ Succeed(u).busy = u.busy /\ (Succeed(u) = u \/ Succeed(u).store # "live")
    BY <1>7, SucceedKeeps
<1>11. Succeed(u).store # "live" => Rested(Succeed(u))
    BY DEF Rested
<1> QED BY <1>5, <1>8, <1>9, <1>10, <1>11

\* The failure that waited, and the children that were killed.
LEMMA SettleKeeps ==
    ASSUME NEW v, Calm(v)
    PROVE  Calm(Settle(v)) /\ Settle(v).cancelled = 0
<1>0. Good(v) /\ v \in Leaders /\ Tied(v) /\ Late(v) /\ Kept(v) /\ (v.busy \/ Rested(v))
    BY GoodIsLoose DEF Calm
<1>1. PICK ended \in BOOLEAN : ended = (v.finishing # "no" /\ v.waits \cap Ids(v) = {})
    OBVIOUS
<1>2. PICK fun : fun = [v EXCEPT !.finishing = "no", !.waits = {}, !.out = 0]
    OBVIOUS
<1>3. PICK u : u = IF ~ended THEN v
                   ELSE IF v.finishing = "old" THEN [fun EXCEPT !.acted = TRUE]
                     ELSE Finish(fun, FALSE)
    OBVIOUS
<1>4. fun \in Leaders
    BY ZenonT(120), <1>0, <1>2 DEF Leaders
<1>5. /\ fun.kind = v.kind /\ fun.store = v.store /\ fun.busy = v.busy /\ fun.aborted = v.aborted
      /\ fun.old = v.old /\ fun.finishing = "no" /\ fun.terminal = v.terminal
      /\ fun.killed = v.killed /\ fun.acted = v.acted /\ fun.replied = v.replied
      /\ fun.reported = v.reported /\ fun.queue = v.queue /\ fun.missed = v.missed /\ fun.fg = v.fg
      /\ fun.bg = v.bg /\ fun.cancelled = v.cancelled /\ fun.spawned = v.spawned
      /\ fun.loop = v.loop /\ fun.running = v.running /\ fun.lock = v.lock
    BY <1>0, <1>2 DEF Leaders
<1>6. Tied(fun)
    BY <1>0, <1>5 DEF Tied, Sub, Conv
<1>7. Late(fun)
    BY <1>0, <1>5 DEF Late, Conv
<1>8. Fresh(fun)
    BY <1>0, <1>5 DEF Kept, Fresh, Sub
<1>9. Loose(fun)
    BY <1>0, <1>4, <1>5, <1>6, <1>7, <1>8 DEF Loose, Kept
<1>10. Calm(u)
  <2>1. CASE ~ended
    BY <1>3, <2>1
  <2>2. CASE ended /\ v.finishing # "old"
    <3>1. LET g == Finish(fun, FALSE) IN Good(g) /\ g.busy = fun.busy /\ g.store # "live"
      BY <1>9, FinishKeeps
    <3> QED BY <1>3, <2>2, <3>1 DEF Calm, Rested
  <2>3. CASE ended /\ v.finishing = "old"
    <3>1. u = [fun EXCEPT !.acted = TRUE]
      BY <1>3, <2>3
    <3>2. u \in Leaders
      BY ZenonT(120), <1>4, <3>1 DEF Leaders
    <3>3. /\ u.kind = fun.kind /\ u.store = fun.store /\ u.busy = fun.busy
               /\ u.aborted = fun.aborted
          /\ u.old = fun.old /\ u.finishing = fun.finishing /\ u.terminal = fun.terminal
          /\ u.killed = fun.killed /\ u.acted /\ u.replied = fun.replied
          /\ u.reported = fun.reported /\ u.queue = fun.queue /\ u.missed = fun.missed
               /\ u.fg = fun.fg
          /\ u.bg = fun.bg /\ u.cancelled = fun.cancelled /\ u.spawned = fun.spawned
          /\ u.loop = fun.loop /\ u.running = fun.running
      BY <1>4, <3>1 DEF Leaders
    <3>4. Tied(u)
      BY <1>6, <3>3 DEF Tied, Sub, Conv
    <3>5. Late(u)
      BY <1>7, <3>3 DEF Late, Conv
    <3>6. Sub(u) => u.killed
      BY <1>0, <1>5, <2>3, <3>3 DEF Tied, Sub
    <3>7. Kept(u)
      BY <1>0, <1>5, <3>3, <3>6 DEF Kept, Fresh, Counted, Counting
    <3>8. Rested(u)
      <4>1. Sub(u) => u.store # "live"
        BY <3>4, <3>6 DEF Tied
      <4>2. Conv(u) => u.missed \/ u.queue > 0
        BY <1>0, <1>5, <2>3, <3>3 DEF Late, Conv
      <4> QED BY <4>1, <4>2 DEF Rested, Awake, Paid, Sub, Conv
    <3> QED BY <3>2, <3>4, <3>5, <3>7, <3>8 DEF Calm, Good, Base
  <2> QED BY <2>1, <2>2, <2>3
<1>11. CASE u.cancelled = 0
  <2>1. Settle(v) = u
    BY <1>1, <1>2, <1>3, <1>11 DEF Settle
  <2> QED BY <1>10, <1>11, <2>1
<1>12. CASE u.cancelled # 0
  <2>0. Good(u) /\ u \in Leaders /\ Tied(u) /\ Late(u) /\ Kept(u)
    BY <1>10, GoodIsLoose DEF Calm
  <2>1. PICK x : x = [u EXCEPT !.cancelled = 0]
    OBVIOUS
  <2>2. PICK first : first = Enqueue(x)
    OBVIOUS
  <2>3. PICK q : q = first.queue + u.cancelled - 1
    OBVIOUS
  <2>4. Settle(v) = [first EXCEPT !.queue = q]
    BY <1>1, <1>2, <1>3, <1>12, <2>1, <2>2, <2>3 DEF Settle
  <2>5. 0 \in 0..Spawns /\ u.cancelled \in 1..Spawns
    BY <1>12, <2>0, Bounds DEF Leaders
  <2>6. x \in Leaders
    BY ZenonT(120), <2>0, <2>1, <2>5 DEF Leaders
  <2>7. /\ Work(x) = Work(u) /\ Waits(x) = Waits(u) /\ x.cancelled = 0
    BY <2>0, <2>1 DEF Leaders, Work, Waits
  <2>8. /\ x.kind = u.kind /\ x.store = u.store /\ x.busy = u.busy /\ x.aborted = u.aborted
        /\ x.old = u.old /\ x.finishing = u.finishing /\ x.terminal = u.terminal
        /\ x.killed = u.killed /\ x.acted = u.acted /\ x.replied = u.replied
        /\ x.reported = u.reported /\ x.fg = u.fg /\ x.bg = u.bg /\ x.spawned = u.spawned
    BY <2>0, <2>1 DEF Leaders
  <2>9. Tied(x)
    <3>1. u.fg \in Nat /\ u.bg \in Nat /\ u.spawned \in Nat
      BY <2>0 DEF Leaders
    <3> QED BY <2>0, <2>5, <2>7, <2>8, <3>1 DEF Tied, Sub, Conv
  <2>10. Good(x)
    BY <2>0, <2>6, <2>7, <2>9, GoodChange
  <2>11. Good(first) /\ first.busy /\ first.cancelled = 0
    BY <2>2, <2>7, <2>10, GoodIsPrompt, EnqueueKeeps DEF Good
  <2>12. first \in Leaders /\ first.queue \in Nat
    BY <2>11, GoodIsLoose, FieldsTyped
  <2>13. q \in Nat /\ q >= first.queue
    BY <2>3, <2>5, <2>12, Bounds
  <2>14. PICK z : z = [first EXCEPT !.queue = q]
    OBVIOUS
  <2>15. z \in Leaders
    BY ZenonT(120), <2>12, <2>13, <2>14 DEF Leaders
  <2>16. /\ Work(z) = Work(first) /\ Flags(z) = Flags(first) /\ z.queue = q
         /\ z.busy = first.busy /\ z.cancelled = first.cancelled
         /\ z.kind = first.kind /\ z.finishing = first.finishing /\ z.missed = first.missed
         /\ z.aborted = first.aborted /\ z.old = first.old
    BY <2>12, <2>14 DEF Leaders, Work, Flags
  <2>17. Late(z)
    BY <2>11, <2>12, <2>13, <2>16 DEF Good, Late, Conv
  <2>18. Good(z)
    BY <2>11, <2>15, <2>16, <2>17, SameWork, SameFlags DEF Good, Base
  <2> QED BY <2>4, <2>11, <2>14, <2>16, <2>18 DEF Calm
<1> QED BY <1>11, <1>12

-----------------------------------------------------------------------------
(* The events of an answer *)

\* What each event leaves: a good leader, busy if it was.
Stays(u, v) == Good(u) /\ u.busy = v.busy

\* Changes of what is said, planned and counted aside.
LEMMA AsideTyped ==
    ASSUME NEW v, v \in Leaders, NEW t \in {"none", "run", "todo"}, NEW batch \in BOOLEAN
    PROVE  /\ [v EXCEPT !.todo = t] \in Leaders /\ [v EXCEPT !.told = batch] \in Leaders
           /\ [v EXCEPT !.gaveUp = batch] \in Leaders /\ [v EXCEPT !.cont = 0] \in Leaders
           /\ [v EXCEPT !.loops = batch] \in Leaders /\ [v EXCEPT !.lock = FALSE] \in Leaders
<1>1. [v EXCEPT !.todo = t] \in Leaders
    BY ZenonT(120) DEF Leaders
<1>2. [v EXCEPT !.told = batch] \in Leaders
    BY ZenonT(120) DEF Leaders
<1>3. [v EXCEPT !.gaveUp = batch] \in Leaders
    BY ZenonT(120) DEF Leaders
<1>4. 0 \in 0..Nudges \cup 0..SilentNudges
    BY Bounds
<1>5. [v EXCEPT !.cont = 0] \in Leaders
    BY ZenonT(120), <1>4 DEF Leaders
<1>6. [v EXCEPT !.loops = batch] \in Leaders
    BY ZenonT(120) DEF Leaders
<1>7. [v EXCEPT !.lock = FALSE] \in Leaders
    BY ZenonT(120) DEF Leaders
<1> QED BY <1>1, <1>2, <1>3, <1>5, <1>6, <1>7

\* They leave the parts of the invariant alone.
LEMMA AsideKeeps ==
    ASSUME NEW v, Good(v), NEW t \in {"none", "run", "todo"}, NEW batch \in BOOLEAN,
           NEW u \in {[v EXCEPT !.todo = t], [v EXCEPT !.told = batch], [v EXCEPT !.gaveUp = batch],
                      [v EXCEPT !.cont = 0], [v EXCEPT !.loops = batch]}
    PROVE  /\ Stays(u, v) /\ (Paid(v) => Rested(u))
           /\ u.kind = v.kind /\ u.calls = v.calls /\ u.store = v.store
<1>1. v \in Leaders
    BY GoodIsLoose
<1>2. u \in Leaders
  <2>1. /\ [v EXCEPT !.todo = t] \in Leaders /\ [v EXCEPT !.told = batch] \in Leaders
        /\ [v EXCEPT !.gaveUp = batch] \in Leaders /\ [v EXCEPT !.cont = 0] \in Leaders
        /\ [v EXCEPT !.loops = batch] \in Leaders
    BY <1>1, AsideTyped, Zenon
  <2> QED BY <2>1, Zenon
<1>3. /\ Work(u) = Work(v) /\ Waits(u) = Waits(v) /\ Flags(u) = Flags(v)
    BY <1>1 DEF Leaders, Work, Waits, Flags
<1>4. u.lock = v.lock /\ u.missed = v.missed /\ u.calls = v.calls
    BY <1>1 DEF Leaders
<1>5. Good(u)
    BY <1>2, <1>3, GoodAside
<1>6. /\ u.busy = v.busy /\ u.kind = v.kind /\ u.reported = v.reported /\ u.fg = v.fg
      /\ u.bg = v.bg /\ u.replied = v.replied /\ u.store = v.store
    BY <1>3 DEF Flags
<1>7. Paid(v) => Rested(u)
    BY <1>4, <1>6 DEF Paid, Rested, Sub, Conv, Children
<1> QED BY <1>4, <1>5, <1>6, <1>7 DEF Stays

\* A turn that has acted, and what it has said.
LEMMA ActedTyped ==
    ASSUME NEW v, v \in Leaders, NEW a \in BOOLEAN, NEW p \in BOOLEAN, NEW said \in BOOLEAN,
           NEW batch \in BOOLEAN
    PROVE  [v EXCEPT !.acted = a, !.replied = p, !.reported = said, !.told = batch] \in Leaders
    BY ZenonT(120) DEF Leaders

LEMMA ActedKeeps ==
    ASSUME NEW v, Good(v), NEW a \in BOOLEAN, NEW p \in BOOLEAN, NEW said \in BOOLEAN,
           NEW batch \in BOOLEAN, Conv(v) => ~said /\ (p => a), Sub(v) => ~p
    PROVE  Stays([v EXCEPT !.acted = a, !.replied = p, !.reported = said, !.told = batch], v)
<1>1. v \in Leaders /\ Tied(v)
    BY GoodIsLoose
<1>2. PICK x : x = [v EXCEPT !.acted = a, !.replied = p, !.reported = said, !.told = batch]
    OBVIOUS
<1>3. x \in Leaders
    BY <1>1, <1>2, ActedTyped
<1>4. Work(x) = Work(v) /\ Waits(x) = Waits(v)
    BY <1>1, <1>2 DEF Leaders, Work, Waits
<1>5. /\ x.kind = v.kind /\ x.store = v.store /\ x.busy = v.busy /\ x.aborted = v.aborted
      /\ x.old = v.old /\ x.finishing = v.finishing /\ x.terminal = v.terminal
      /\ x.killed = v.killed /\ x.acted = a /\ x.replied = p
      /\ x.reported = said /\ x.fg = v.fg /\ x.bg = v.bg /\ x.cancelled = v.cancelled
      /\ x.spawned = v.spawned
    BY <1>1, <1>2 DEF Leaders
<1>6. Tied(x)
    BY <1>1, <1>5 DEF Tied, Sub, Conv
<1>7. Good(x)
    BY <1>3, <1>4, <1>6, GoodChange
<1> QED BY <1>2, <1>5, <1>7 DEF Stays

\* A child more, or a leader shown as failed.
LEMMA OnSpawnKeeps ==
    ASSUME NEW v, Good(v)
    PROVE  Stays(OnSpawn(v), v)
<1>1. v \in Leaders /\ Tied(v)
    BY GoodIsLoose
<1>2. CASE v.spawned = Spawns
  <2>1. PICK slot \in {"live", "done", "err"} : slot = IF v.store = "live" THEN "err" ELSE v.store
    BY <1>1 DEF Leaders
  <2>2. PICK u : u = [v EXCEPT !.store = slot]
    OBVIOUS
  <2>3. OnSpawn(v) = u
    BY <1>2, <2>1, <2>2 DEF OnSpawn
  <2>4. u \in Leaders
    BY ZenonT(120), <1>1, <2>2 DEF Leaders
  <2>5. Work(u) = Work(v) /\ Waits(u) = Waits(v)
    BY <1>1, <2>2 DEF Leaders, Work, Waits
  <2>6. /\ u.kind = v.kind /\ u.store = slot /\ u.busy = v.busy /\ u.aborted = v.aborted
        /\ u.old = v.old /\ u.finishing = v.finishing /\ u.terminal = v.terminal
        /\ u.killed = v.killed /\ u.acted = v.acted /\ u.replied = v.replied
        /\ u.reported = v.reported /\ u.fg = v.fg /\ u.bg = v.bg /\ u.cancelled = v.cancelled
        /\ u.spawned = v.spawned
    BY <1>1, <2>2 DEF Leaders
  <2>7. Tied(u)
    BY <1>1, <2>1, <2>6 DEF Tied, Sub, Conv
  <2> QED BY <2>3, <2>4, <2>5, <2>6, <2>7, GoodChange DEF Stays
<1>3. CASE v.spawned # Spawns
  <2>1. /\ v.spawned \in 0..Spawns /\ v.fg \in Nat /\ v.bg \in Nat /\ v.cancelled \in Nat
        /\ Spawns \in Nat
    BY <1>1, Bounds DEF Leaders
  <2>2. /\ v.spawned + 1 \in 0..Spawns /\ v.fg + 1 \in 0..Spawns
        /\ v.fg + 1 + v.bg + v.cancelled <= v.spawned + 1
    BY <1>1, <1>3, <2>1 DEF Tied
  <2>3. PICK u : u = [v EXCEPT !.spawned = v.spawned + 1, !.fg = v.fg + 1, !.acted = TRUE]
    OBVIOUS
  <2>4. OnSpawn(v) = u
    BY <1>3, <2>3 DEF OnSpawn
  <2>5. u \in Leaders
    BY ZenonT(120), <1>1, <2>2, <2>3 DEF Leaders
  <2>6. Work(u) = Work(v) /\ Waits(u) = Waits(v)
    BY <1>1, <2>3 DEF Leaders, Work, Waits
  <2>7. /\ u.kind = v.kind /\ u.store = v.store /\ u.busy = v.busy /\ u.aborted = v.aborted
        /\ u.old = v.old /\ u.finishing = v.finishing /\ u.terminal = v.terminal
        /\ u.killed = v.killed /\ u.acted /\ u.replied = v.replied
        /\ u.reported = v.reported /\ u.fg = v.fg + 1 /\ u.bg = v.bg
        /\ u.cancelled = v.cancelled /\ u.spawned = v.spawned + 1
    BY <1>1, <2>3 DEF Leaders
  <2>8. Tied(u)
    BY <1>1, <2>2, <2>7 DEF Tied, Sub, Conv
  <2> QED BY <2>4, <2>5, <2>6, <2>7, <2>8, GoodChange DEF Stays
<1> QED BY <1>2, <1>3

\* The flags but the numbers of children.
Plain(v) ==
    <<v.kind, v.store, v.busy, v.aborted, v.old, v.finishing, v.terminal, v.killed, v.acted,
      v.replied, v.reported>>

\* Other numbers of children, not more than were ever spawned.
LEMMA ChildrenKeep ==
    ASSUME NEW v, Good(v), NEW u, u \in Leaders, Work(u) = Work(v), Waits(u) = Waits(v),
           Plain(u) = Plain(v), u.fg + u.bg + u.cancelled <= u.spawned
    PROVE  Stays(u, v) /\ u.store = v.store /\ u.killed = v.killed
<1>1. Tied(v)
    BY GoodIsLoose
<1>2. /\ u.kind = v.kind /\ u.store = v.store /\ u.busy = v.busy /\ u.aborted = v.aborted
      /\ u.old = v.old /\ u.finishing = v.finishing /\ u.terminal = v.terminal
      /\ u.killed = v.killed /\ u.acted = v.acted /\ u.replied = v.replied
      /\ u.reported = v.reported
    BY DEF Plain
<1>3. Tied(u)
    BY <1>1, <1>2 DEF Tied, Sub, Conv
<1> QED BY <1>2, <1>3, GoodChange DEF Stays

LEMMA ChildrenTyped ==
    ASSUME NEW v, v \in Leaders, NEW fun \in 0..Spawns, NEW batch \in 0..Spawns
    PROVE  /\ [v EXCEPT !.fg = fun, !.bg = batch] \in Leaders
           /\ [v EXCEPT !.fg = fun, !.cancelled = batch] \in Leaders
           /\ [v EXCEPT !.fg = fun] \in Leaders /\ [v EXCEPT !.bg = batch] \in Leaders
<1>1. [v EXCEPT !.fg = fun, !.bg = batch] \in Leaders
    BY ZenonT(120) DEF Leaders
<1>2. [v EXCEPT !.fg = fun, !.cancelled = batch] \in Leaders
    BY ZenonT(120) DEF Leaders
<1>3. [v EXCEPT !.fg = fun] \in Leaders
    BY ZenonT(120) DEF Leaders
<1>4. [v EXCEPT !.bg = batch] \in Leaders
    BY ZenonT(120) DEF Leaders
<1> QED BY <1>1, <1>2, <1>3, <1>4

\* Numbers of children.
LEMMA ChildrenAre ==
    ASSUME NEW v, Good(v)
    PROVE  /\ v.fg \in Nat /\ v.bg \in Nat /\ v.cancelled \in Nat /\ v.spawned \in Nat
           /\ v.fg + v.bg + v.cancelled <= v.spawned /\ v.spawned <= Spawns
           /\ Spawns \in Nat /\ v \in Leaders
<1>1. v \in Leaders /\ Tied(v) /\ Spawns \in Nat
    BY GoodIsLoose, Bounds
<1> QED BY <1>1 DEF Leaders, Tied

LEMMA OnKillKeeps ==
    ASSUME NEW v, Good(v)
    PROVE  Stays(OnKill(v), v)
<1>1. /\ v.fg \in Nat /\ v.bg \in Nat /\ v.cancelled \in Nat /\ v.spawned \in Nat
      /\ v.fg + v.bg + v.cancelled <= v.spawned /\ v.spawned <= Spawns
      /\ Spawns \in Nat /\ v \in Leaders
    BY ChildrenAre
<1>2. CASE v.fg > 0
  <2>1. PICK fun \in 0..Spawns : fun = v.fg - 1
    BY <1>1, <1>2
  <2>2. PICK n \in 0..Spawns : n = v.cancelled + 1
    BY <1>1, <1>2
  <2>3. PICK u : u = [v EXCEPT !.fg = fun, !.cancelled = n]
    OBVIOUS
  <2>4. OnKill(v) = u
    BY <1>2, <2>1, <2>2, <2>3 DEF OnKill
  <2>5. u \in Leaders
    BY <1>1, <2>3, ChildrenTyped
  <2>6. /\ Work(u) = Work(v) /\ Waits(u) = Waits(v) /\ Plain(u) = Plain(v)
        /\ u.fg = fun /\ u.bg = v.bg /\ u.cancelled = n /\ u.spawned = v.spawned
    BY <1>1, <2>3 DEF Leaders, Work, Waits, Plain
  <2>7. u.fg + u.bg + u.cancelled <= u.spawned
    BY <1>1, <2>1, <2>2, <2>6
  <2> QED BY <2>4, <2>5, <2>6, <2>7, ChildrenKeep
<1>3. CASE v.fg = 0 /\ v.bg > 0
  <2>1. PICK batch \in 0..Spawns : batch = v.bg - 1
    BY <1>1, <1>3
  <2>2. PICK u : u = [v EXCEPT !.bg = batch]
    OBVIOUS
  <2>3. OnKill(v) = u
    BY <1>3, <2>1, <2>2 DEF OnKill
  <2>4. u \in Leaders
    <3>1. 0 \in 0..Spawns
      BY <1>1
    <3> QED BY <1>1, <2>2, <3>1, ChildrenTyped
  <2>5. /\ Work(u) = Work(v) /\ Waits(u) = Waits(v) /\ Plain(u) = Plain(v)
        /\ u.fg = v.fg /\ u.bg = batch /\ u.cancelled = v.cancelled /\ u.spawned = v.spawned
    BY <1>1, <2>2 DEF Leaders, Work, Waits, Plain
  <2>6. u.fg + u.bg + u.cancelled <= u.spawned
    BY <1>1, <2>1, <2>5
  <2> QED BY <2>3, <2>4, <2>5, <2>6, ChildrenKeep
<1>4. CASE ~(v.fg > 0) /\ ~(v.fg = 0 /\ v.bg > 0)
  <2>1. OnKill(v) = v
    BY <1>4 DEF OnKill
  <2> QED BY <2>1 DEF Stays
<1> QED BY <1>2, <1>3, <1>4

\* A message in the queue of a busy leader.
LEMMA MessageStays ==
    ASSUME NEW v, Good(v), v.busy
    PROVE  Stays(Enqueue(v), v) /\ Enqueue(v).busy
<1>1. v \in Leaders /\ v.busy \in BOOLEAN
    BY GoodIsLoose, FieldsTyped
<1>2. Good(Enqueue(v)) /\ Enqueue(v) = [v EXCEPT !.queue = @ + 1]
    BY GoodIsPrompt, EnqueueKeeps DEF Enqueue, Good
<1>3. [v EXCEPT !.queue = @ + 1].busy = v.busy
    BY <1>1 DEF Leaders
<1> QED BY <1>2, <1>3 DEF Stays

\* A tool that the handler collects, refuses or passes over.
LEMMA OnCallKeeps ==
    ASSUME NEW v, Good(v), NEW e \in {"tool", "again", "risky"}
    PROVE  Stays(OnCall(v, e), v)
<1>1. v \in Leaders /\ Tied(v) /\ v.calls \in Nat
    BY GoodIsLoose, FieldsTyped
<1>2. PICK batch \in BOOLEAN : batch = (e = "again")
    OBVIOUS
<1>3. PICK u : u = [v EXCEPT !.acted = TRUE, !.loops = batch]
    OBVIOUS
<1>4. u \in Leaders
    BY ZenonT(120), <1>1, <1>3 DEF Leaders
<1>5. /\ Work(u) = Work(v) /\ Waits(u) = Waits(v) /\ u.calls = v.calls
    BY <1>1, <1>3 DEF Leaders, Work, Waits
<1>6. /\ u.kind = v.kind /\ u.store = v.store /\ u.busy = v.busy /\ u.aborted = v.aborted
      /\ u.old = v.old /\ u.finishing = v.finishing /\ u.terminal = v.terminal
      /\ u.killed = v.killed /\ u.acted /\ u.replied = v.replied
      /\ u.reported = v.reported /\ u.fg = v.fg /\ u.bg = v.bg /\ u.cancelled = v.cancelled
      /\ u.spawned = v.spawned
    BY <1>1, <1>3 DEF Leaders
<1>7. Tied(u)
    BY <1>1, <1>6 DEF Tied, Sub, Conv
<1>8. Good(u)
    BY <1>4, <1>5, <1>7, GoodChange
<1>9. PICK x : x = [u EXCEPT !.calls = u.calls + 1]
    OBVIOUS
<1>10. u.calls + 1 \in Nat
    BY <1>1, <1>5
<1>11. x \in Leaders
    BY ZenonT(120), <1>4, <1>9, <1>10 DEF Leaders
<1>12. /\ Work(x) = Work(u) /\ Waits(x) = Waits(u) /\ Flags(x) = Flags(u) /\ x.busy = u.busy
    BY <1>4, <1>9 DEF Leaders, Work, Waits, Flags
<1>13. Good(x)
    BY <1>8, <1>11, <1>12, GoodAside
<1>14. LET y == Later(u, "refuse", 0) IN Good(y) /\ y.busy = u.busy
    BY <1>8, SayKeeps
<1>15. OnCall(v, e) \in {x, Later(u, "refuse", 0), u}
    BY <1>2, <1>3, <1>9 DEF OnCall
<1> QED BY <1>6, <1>8, <1>12, <1>13, <1>14, <1>15 DEF Stays

\* A message of the leader.
LEMMA OnMessageKeeps ==
    ASSUME NEW v, Good(v), v.busy, NEW e \in {"user", "parent", "lost"}
    PROVE  Stays(OnMessage(v, e), v)
<1>1. /\ v \in Leaders /\ Tied(v) /\ v.acted \in BOOLEAN /\ v.replied \in BOOLEAN
      /\ v.reported \in BOOLEAN /\ v.told \in BOOLEAN
    BY GoodIsLoose DEF Leaders
<1>2. CASE e = "user" /\ Sub(v)
  <2>1. PICK u : u = [v EXCEPT !.acted = v.acted, !.replied = v.replied, !.reported = TRUE,
                            !.told = TRUE]
    OBVIOUS
  <2>2. OnMessage(v, e) = u
    BY <1>1, <1>2, <2>1 DEF OnMessage, Leaders
  <2>3. Stays(u, v)
    BY <1>1, <1>2, <2>1, ActedKeeps DEF Tied, Sub, Conv
  <2> QED BY <2>2, <2>3
<1>3. CASE e = "user" /\ ~Sub(v)
  <2>1. PICK u : u = [v EXCEPT !.acted = TRUE, !.replied = TRUE, !.reported = v.reported,
                            !.told = v.told]
    OBVIOUS
  <2>2. OnMessage(v, e) = u
    BY <1>1, <1>3, <2>1 DEF OnMessage, Leaders
  <2>3. Stays(u, v)
    BY <1>1, <1>3, <2>1, ActedKeeps DEF Tied
  <2> QED BY <2>2, <2>3
<1>4. CASE e = "parent" /\ Sub(v)
  <2>1. PICK u : u = [v EXCEPT !.acted = TRUE, !.replied = v.replied, !.reported = TRUE,
                            !.told = TRUE]
    OBVIOUS
  <2>2. OnMessage(v, e) = u
    BY <1>1, <1>4, <2>1 DEF OnMessage, Leaders
  <2>3. Stays(u, v)
    BY <1>1, <1>4, <2>1, ActedKeeps DEF Tied, Sub, Conv
  <2> QED BY <2>2, <2>3
<1>5. CASE e # "user" /\ ~(e = "parent" /\ Sub(v))
  <2>1. PICK u : u = [v EXCEPT !.acted = TRUE, !.replied = v.replied, !.reported = v.reported,
                            !.told = v.told]
    OBVIOUS
  <2>2. OnMessage(v, e) = Enqueue(u)
    BY <1>1, <1>5, <2>1 DEF OnMessage, Leaders
  <2>3. Stays(u, v)
    BY <1>1, <2>1, ActedKeeps DEF Tied
  <2>4. Stays(Enqueue(u), u)
    BY <2>3, MessageStays DEF Stays
  <2> QED BY <2>2, <2>3, <2>4 DEF Stays
<1> QED BY <1>2, <1>3, <1>4, <1>5

\* Each event of an answer leaves a busy leader good and busy.
LEMMA OnEventKeeps ==
    ASSUME NEW v, Good(v), v.busy, NEW e \in Events
    PROVE  Stays(OnEvent(v, e), v)
<1>1. Stays(v, v)
    BY DEF Stays
<1>2. v \in Leaders /\ v.told \in BOOLEAN
    BY GoodIsLoose DEF Leaders
<1>3. CASE e = "done"
  <2>1. OnEvent(v, e) = Succeed(v)
    BY <1>3 DEF OnEvent
  <2> QED BY <2>1, SucceedKeeps DEF Stays
<1>4. CASE e = "fails"
  <2>1. OnEvent(v, e) = Fail(v)
    BY <1>4 DEF OnEvent
  <2> QED BY <2>1, FailKeeps DEF Stays
<1>5. CASE Deaf(v) /\ e \notin {"done", "fails"}
  <2>1. OnEvent(v, e) = v
    BY <1>5 DEF OnEvent
  <2> QED BY <1>1, <2>1
<1>6. CASE ~Deaf(v) /\ e = "spawn"
  <2>1. OnEvent(v, e) = OnSpawn(v)
    BY <1>6 DEF OnEvent
  <2> QED BY <2>1, OnSpawnKeeps
<1>7. CASE ~Deaf(v) /\ e = "respawn"
  <2>1. OnEvent(v, e) = Enqueue(v)
    BY <1>7 DEF OnEvent
  <2> QED BY <2>1, MessageStays
<1>8. CASE ~Deaf(v) /\ e = "kill"
  <2>1. OnEvent(v, e) = OnKill(v)
    BY <1>8 DEF OnEvent
  <2> QED BY <2>1, OnKillKeeps
<1>9. CASE ~Deaf(v) /\ e \in {"tool", "again", "risky"}
  <2>1. OnEvent(v, e) = OnCall(v, e)
    BY <1>9 DEF OnEvent
  <2> QED BY <1>9, <2>1, OnCallKeeps
<1>10. CASE ~Deaf(v) /\ e \in {"user", "parent", "lost"}
  <2>1. OnEvent(v, e) = OnMessage(v, e)
    BY <1>10 DEF OnEvent
  <2> QED BY <1>10, <2>1, OnMessageKeeps
<1>11. CASE ~Deaf(v) /\ e = "handup"
  <2>1. PICK batch \in BOOLEAN : batch = (v.told \/ Sub(v))
    <3>1. (v.told \/ Sub(v)) \in BOOLEAN
      BY <1>2
    <3> QED BY <3>1, Zenon
  <2>2. OnEvent(v, e) = [v EXCEPT !.told = batch]
    BY <1>11, <2>1 DEF OnEvent
  <2>3. Stays([v EXCEPT !.told = batch], v)
    <3>1. "none" \in {"none", "run", "todo"}
      OBVIOUS
    <3> QED BY <3>1, AsideKeeps
  <2> QED BY <2>2, <2>3
<1>12. CASE ~Deaf(v) /\ e \in {"plan", "runs", "clear"}
  <2>1. PICK t \in {"none", "run", "todo"} :
            t = CASE e = "plan" -> "todo" [] e = "runs" -> "run" [] OTHER -> "none"
    BY <1>12
  <2>2. OnEvent(v, e) = [v EXCEPT !.todo = t]
    BY <1>12, <2>1 DEF OnEvent
  <2>3. Stays([v EXCEPT !.todo = t], v)
    <3>1. TRUE \in BOOLEAN
      OBVIOUS
    <3> QED BY <3>1, AsideKeeps
  <2> QED BY <2>2, <2>3
<1>13. \/ e \in {"done", "fails", "spawn", "respawn", "kill", "handup"}
       \/ e \in {"tool", "again", "risky"} \/ e \in {"user", "parent", "lost"}
       \/ e \in {"plan", "runs", "clear"}
    BY DEF Events
<1> QED BY <1>3, <1>4, <1>5, <1>6, <1>7, <1>8, <1>9, <1>10, <1>11, <1>12, <1>13

-----------------------------------------------------------------------------
(* The end of a turn *)

\* Whoever ends a turn is good and busy as before, and may rest.
Ends(u, v) == Stays(u, v) /\ Rested(u)

\* A reminder wakes.
LEMMA RemindKeeps ==
    ASSUME NEW v, Good(v), v.cont < Nudges \/ v.cont < SilentNudges, NEW kind \in {"say", "sayAny"}
    PROVE  Ends(Remind(v, kind), v)
<1>1. v \in Leaders /\ v.cont \in 0..Nudges \cup 0..SilentNudges
    BY GoodIsLoose DEF Leaders
<1>2. PICK n \in 0..Nudges \cup 0..SilentNudges : n = v.cont + 1
    BY <1>1, Bounds
<1>3. PICK u : u = [v EXCEPT !.cont = n, !.nudge = TRUE]
    OBVIOUS
<1>4. u \in Leaders
    BY ZenonT(120), <1>1, <1>3 DEF Leaders
<1>5. Work(u) = Work(v) /\ Waits(u) = Waits(v) /\ Flags(u) = Flags(v) /\ u.busy = v.busy
    BY <1>1, <1>3 DEF Leaders, Work, Waits, Flags
<1>6. Good(u)
    BY <1>4, <1>5, GoodAside
<1>7. LET after == Later(u, kind, 0) IN Good(after) /\ after.busy = u.busy /\ Awake(after)
  <2>1. kind \in {"say", "sayAny", "refuse", "drain"} /\ kind # "drain" /\ 0 \in Nat
    OBVIOUS
  <2> QED BY <1>6, <2>1, SayKeeps
<1>8. Remind(v, kind) = Later(u, kind, 0)
    BY <1>2, <1>3 DEF Remind
<1> QED BY <1>5, <1>7, <1>8 DEF Ends, Stays, Rested

\* drainConvModePM frees the lock.
LEMMA ReleaseKeeps ==
    ASSUME NEW v, Good(v)
    PROVE  Stays(Release(v), v) /\ (~Sub(v) \/ Children(v) > 0 => Rested(Release(v)))
<1>1. v \in Leaders /\ "none" \in {"none", "run", "todo"} /\ TRUE \in BOOLEAN
    BY GoodIsLoose
<1>2. PICK u : u = [v EXCEPT !.lock = FALSE]
    OBVIOUS
<1>3. u \in Leaders
    BY <1>1, <1>2, AsideTyped
<1>4. Work(u) = Work(v) /\ Waits(u) = Waits(v) /\ Flags(u) = Flags(v) /\ ~u.lock
    BY <1>1, <1>2 DEF Leaders, Work, Waits, Flags
<1>5. Good(u)
    BY <1>3, <1>4, GoodAside
<1>6. u.busy = v.busy /\ u.kind = v.kind /\ u.fg = v.fg /\ u.bg = v.bg
    BY <1>4 DEF Flags
<1>7. ~Sub(v) \/ Children(v) > 0 => Rested(u)
    BY <1>4, <1>6 DEF Rested, Paid, Sub, Conv, Children
<1> QED BY <1>2, <1>5, <1>6, <1>7 DEF Release, Stays

\* The tools of the turn are handed over in one batch.
LEMMA HandOverKeeps ==
    ASSUME NEW v, Good(v)
    PROVE  Ends(HandOver(v), v)
<1>1. v \in Leaders /\ v.calls \in Nat /\ v.busy \in BOOLEAN /\ v.loops \in BOOLEAN
    BY GoodIsLoose, FieldsTyped DEF Leaders
<1>2. PICK x : x = [v EXCEPT !.loops = FALSE]
    OBVIOUS
<1>3. Stays(x, v)
    <2>1. "none" \in {"none", "run", "todo"} /\ FALSE \in BOOLEAN
      OBVIOUS
    <2> QED BY <1>2, <2>1, AsideKeeps
<1>4. PICK warned : warned = IF v.loops THEN Later(x, "say", 0) ELSE v
    OBVIOUS
<1>5. Stays(warned, v)
  <2>1. LET after == Later(x, "say", 0) IN Good(after) /\ after.busy = x.busy
    BY <1>3, SayKeeps DEF Stays
  <2> QED BY <1>3, <1>4, <2>1 DEF Stays
<1>6. /\ warned \in Leaders /\ warned.out \in Nat /\ Tied(warned) /\ Late(warned)
      /\ Kept(warned)
    BY <1>5, GoodIsLoose, FieldsTyped DEF Stays
<1>7. PICK n \in Nat : n = v.calls
    BY <1>1
<1>8. PICK y : y = [warned EXCEPT !.out = warned.out + n, !.calls = 0]
    OBVIOUS
<1>9. HandOver(v) = Later(y, "batch", n)
    BY <1>2, <1>4, <1>7, <1>8 DEF HandOver
<1>10. warned.out + n \in Nat
    BY <1>6
<1>11. y \in Leaders
    BY ZenonT(120), <1>6, <1>8, <1>10 DEF Leaders
<1>12. /\ Waits(y) = Waits(warned) /\ Flags(y) = Flags(warned) /\ y.busy = warned.busy
       /\ y.kind = warned.kind /\ y.killed = warned.killed /\ y.terminal = warned.terminal
       /\ y.finishing = warned.finishing /\ y.loop = warned.loop /\ y.running = warned.running
       /\ y.out = warned.out + n
    BY <1>6, <1>8 DEF Leaders, Waits, Flags
<1>13. Tied(y) /\ Late(y)
    BY <1>6, <1>12, SameFlags, SameWait
<1>14. Owed(y, n)
  <2>1. Fresh(y) /\ IsFiniteSet(y.running)
    BY <1>6, <1>12 DEF Kept, Fresh, Sub
  <2>2. ASSUME Counting(y)
        PROVE  /\ IsFiniteSet(LoopSlots(y.loop)) /\ IsFiniteSet(RunSlots(y.running))
               /\ y.out = n + Loaded(y.loop) + Runs(y.running)
    <3>1. /\ IsFiniteSet(LoopSlots(y.loop)) /\ IsFiniteSet(RunSlots(y.running))
          /\ warned.out = Loaded(y.loop) + Runs(y.running)
      BY <1>6, <1>12, <2>2 DEF Kept, Counted, Counting, Sub
    <3>2. Loaded(y.loop) \in Nat /\ Runs(y.running) \in Nat
      BY <3>1, FS_CardinalityType DEF Loaded, Runs
    <3> QED BY <1>12, <3>1, <3>2
  <2> QED BY <1>11, <1>13, <2>1, <2>2 DEF Owed
<1>15. Load(Callback("batch", n)) = n
    BY DEF Load, Callback, Carries
<1>16. LET after == Later(y, "batch", n) IN Good(after) /\ after.busy = y.busy /\ Awake(after)
    BY <1>14, <1>15, LaterKeeps
<1> QED BY <1>5, <1>9, <1>12, <1>16 DEF Ends, Stays, Rested

\* A conversation that has replied gives its lock back or is reminded.
LEMMA AfterReplyKeeps ==
    ASSUME NEW v, Good(v), Conv(v)
    PROVE  Ends(AfterReply(v), v)
<1>1. "none" \in {"none", "run", "todo"} /\ TRUE \in BOOLEAN /\ ~Sub(v)
    BY DEF Conv, Sub
<1>2. CASE v.todo # "todo"
  <2>1. AfterReply(v) = Release(v)
    BY <1>2 DEF AfterReply
  <2> QED BY <1>1, <2>1, ReleaseKeeps DEF Ends
<1>3. CASE v.todo = "todo" /\ v.cont < Nudges
  <2>1. AfterReply(v) = Remind(v, "sayAny")
    BY <1>3 DEF AfterReply
  <2> QED BY <1>3, <2>1, RemindKeeps
<1>4. CASE v.todo = "todo" /\ ~(v.cont < Nudges)
  <2>1. PICK u : u = [v EXCEPT !.todo = "none"]
    OBVIOUS
  <2>2. AfterReply(v) = Release(u)
    BY <1>4, <2>1 DEF AfterReply
  <2>3. Stays(u, v) /\ u.kind = v.kind
    BY <1>1, <2>1, AsideKeeps
  <2>4. Stays(Release(u), u) /\ Rested(Release(u))
    <3>1. ~Sub(u)
      BY <1>1, <2>3 DEF Sub
    <3> QED BY <2>3, <3>1, ReleaseKeeps DEF Stays
  <2> QED BY <2>2, <2>3, <2>4 DEF Ends, Stays
<1> QED BY <1>2, <1>3, <1>4

\* The turn acted and has no tools to run.
LEMMA AfterActionKeeps ==
    ASSUME NEW v, Good(v)
    PROVE  Ends(AfterAction(v), v)
<1>0. /\ Tied(v) /\ "none" \in {"none", "run", "todo"} /\ TRUE \in BOOLEAN
      /\ Stays(v, v)
    BY GoodIsLoose DEF Stays
<1>1. Paid(v) => Rested(v)
    BY DEF Rested
<1>2. /\ Stays([v EXCEPT !.todo = "none"], v) /\ (Paid(v) => Rested([v EXCEPT !.todo = "none"]))
    BY <1>0, AsideKeeps
<1>3. /\ Stays([v EXCEPT !.gaveUp = TRUE], v) /\ (Paid(v) => Rested([v EXCEPT !.gaveUp = TRUE]))
    BY <1>0, AsideKeeps
<1>4. CASE Children(v) > 0
  <2>1. CASE Conv(v) /\ v.replied
    <3>1. AfterAction(v) = Release(v)
      BY <1>4, <2>1 DEF AfterAction
    <3> QED BY <1>4, <3>1, ReleaseKeeps DEF Ends
  <2>2. CASE ~(Conv(v) /\ v.replied)
    <3>1. AfterAction(v) = v
      BY <1>4, <2>2 DEF AfterAction
    <3>2. Paid(v)
      BY <1>4, <2>2 DEF Paid
    <3> QED BY <1>0, <1>1, <3>1, <3>2 DEF Ends
  <2> QED BY <2>1, <2>2
<1>5. CASE ~(Children(v) > 0)
  <2>1. CASE v.reported /\ v.todo # "todo"
    <3>1. AfterAction(v) = [v EXCEPT !.todo = "none"]
      BY <1>5, <2>1 DEF AfterAction
    <3>2. Paid(v)
      BY <1>0, <2>1 DEF Paid, Tied
    <3> QED BY <1>2, <3>1, <3>2 DEF Ends
  <2>2. CASE ~(v.reported /\ v.todo # "todo") /\ Conv(v) /\ v.replied
    <3>1. AfterAction(v) = AfterReply(v)
      BY <1>5, <2>2 DEF AfterAction
    <3> QED BY <2>2, <3>1, AfterReplyKeeps
  <2>3. CASE ~(v.reported /\ v.todo # "todo") /\ ~(Conv(v) /\ v.replied)
    <3>1. \/ AfterAction(v) = v /\ (Sub(v) => v.reported \/ (v.replied /\ v.todo # "todo"))
          \/ AfterAction(v) = [v EXCEPT !.todo = "none"] /\ ~Sub(v)
          \/ AfterAction(v) = Remind(v, "say") /\ v.cont < Nudges
          \/ AfterAction(v) = [v EXCEPT !.gaveUp = TRUE] /\ ~Sub(v)
          \/ AfterAction(v) = Release(v) /\ Conv(v)
          \/ AfterAction(v) = Converge(v) /\ Sub(v)
      BY <1>5, <2>3 DEF AfterAction
    <3>2. CASE AfterAction(v) = v /\ (Sub(v) => v.reported \/ (v.replied /\ v.todo # "todo"))
      <4>1. Paid(v)
        BY <1>0, <2>3, <3>2 DEF Paid, Tied
      <4> QED BY <1>0, <1>1, <3>2, <4>1 DEF Ends
    <3>3. CASE AfterAction(v) = [v EXCEPT !.todo = "none"] /\ ~Sub(v)
      <4>1. Paid(v)
        BY <2>3, <3>3 DEF Paid
      <4> QED BY <1>2, <3>3, <4>1 DEF Ends
    <3>4. CASE AfterAction(v) = Remind(v, "say") /\ v.cont < Nudges
      BY <3>4, RemindKeeps
    <3>5. CASE AfterAction(v) = [v EXCEPT !.gaveUp = TRUE] /\ ~Sub(v)
      <4>1. Paid(v)
        BY <2>3, <3>5 DEF Paid
      <4> QED BY <1>3, <3>5, <4>1 DEF Ends
    <3>6. CASE AfterAction(v) = Release(v) /\ Conv(v)
      <4>1. ~Sub(v)
        BY <3>6 DEF Conv, Sub
      <4> QED BY <3>6, <4>1, ReleaseKeeps DEF Ends
    <3>7. CASE AfterAction(v) = Converge(v) /\ Sub(v)
      BY <3>7, ConvergeKeeps DEF Ends, Stays
    <3> QED BY <3>1, <3>2, <3>3, <3>4, <3>5, <3>6, <3>7
  <2> QED BY <2>1, <2>2, <2>3
<1> QED BY <1>4, <1>5

\* The turn brought nothing.
LEMMA AfterSilenceKeeps ==
    ASSUME NEW v, Good(v), ~v.acted
    PROVE  Ends(AfterSilence(v), v)
<1>0. /\ Tied(v) /\ "none" \in {"none", "run", "todo"} /\ TRUE \in BOOLEAN
      /\ Stays(v, v) /\ (Conv(v) => ~v.replied)
    BY GoodIsLoose DEF Stays, Tied
<1>1. Paid(v) => Rested(v)
    BY DEF Rested
<1>2. /\ Stays([v EXCEPT !.gaveUp = TRUE], v) /\ (Paid(v) => Rested([v EXCEPT !.gaveUp = TRUE]))
    BY <1>0, AsideKeeps
<1>3. /\ Stays([v EXCEPT !.cont = 0], v) /\ (Paid(v) => Rested([v EXCEPT !.cont = 0]))
    BY <1>0, AsideKeeps
<1>4. \/ AfterSilence(v) = v /\ Children(v) > 0
      \/ AfterSilence(v) = Remind(v, "say") /\ (v.cont < Nudges \/ v.cont < SilentNudges)
      \/ AfterSilence(v) = [v EXCEPT !.gaveUp = TRUE] /\ ~Sub(v)
      \/ AfterSilence(v) = Converge(v) /\ Sub(v)
      \/ AfterSilence(v) = [v EXCEPT !.cont = 0] /\ ~(Sub(v) /\ Children(v) = 0 /\ ~v.reported)
  <2>1. CASE v.todo # "none" /\ Children(v) > 0
    BY <2>1 DEF AfterSilence
  <2>2. CASE v.todo # "none" /\ Children(v) = 0 /\ v.cont < Nudges
    BY <2>2 DEF AfterSilence
  <2>3. CASE v.todo # "none" /\ Children(v) = 0 /\ v.cont >= Nudges /\ ~Sub(v)
    <3>1. ~(Children(v) > 0) /\ ~(v.cont < Nudges)
      BY SMTT(20), <2>3, GoodIsLoose, Bounds DEF Leaders
    <3> QED BY <2>3, <3>1 DEF AfterSilence
  <2>4. CASE v.todo = "none" /\ v.cont < SilentNudges
    BY <2>4 DEF AfterSilence
  <2>5. CASE /\ ~(v.todo # "none" /\ Children(v) > 0)
             /\ ~(v.todo # "none" /\ Children(v) = 0 /\ v.cont < Nudges)
             /\ ~(v.todo # "none" /\ Children(v) = 0 /\ v.cont >= Nudges /\ ~Sub(v))
             /\ ~(v.todo = "none" /\ v.cont < SilentNudges)
    <3>1. AfterSilence(v) = IF Sub(v) /\ Children(v) = 0 /\ ~v.reported THEN Converge(v)
                            ELSE [v EXCEPT !.cont = 0]
      BY <2>5 DEF AfterSilence
    <3> QED BY <3>1
  <2> QED BY <2>1, <2>2, <2>3, <2>4, <2>5
<1>5. CASE AfterSilence(v) = v /\ Children(v) > 0
  <2>1. Paid(v)
    BY <1>0, <1>5 DEF Paid
  <2> QED BY <1>0, <1>1, <1>5, <2>1 DEF Ends
<1>6. CASE AfterSilence(v) = Remind(v, "say") /\ (v.cont < Nudges \/ v.cont < SilentNudges)
    BY <1>6, RemindKeeps
<1>7. CASE AfterSilence(v) = [v EXCEPT !.gaveUp = TRUE] /\ ~Sub(v)
  <2>1. Paid(v)
    BY <1>0, <1>7 DEF Paid
  <2> QED BY <1>2, <1>7, <2>1 DEF Ends
<1>8. CASE AfterSilence(v) = Converge(v) /\ Sub(v)
    BY <1>8, ConvergeKeeps DEF Ends, Stays
<1>9. CASE AfterSilence(v) = [v EXCEPT !.cont = 0] /\ ~(Sub(v) /\ Children(v) = 0 /\ ~v.reported)
  <2>1. Children(v) = 0 \/ Children(v) > 0
    BY ChildrenAre DEF Children
  <2>2. Paid(v)
    BY <1>0, <1>9, <2>1 DEF Paid
  <2> QED BY <1>3, <1>9, <2>2 DEF Ends
<1> QED BY <1>4, <1>5, <1>6, <1>7, <1>8, <1>9

\* agent.state idle: the leader may rest, has something to come, or is reminded.
LEMMA OnIdleKeeps ==
    ASSUME NEW v, Good(v)
    PROVE  Ends(OnIdle(v), v)
<1>0. Tied(v) /\ Stays(v, v) /\ v \in Leaders /\ v.calls \in Nat
    BY GoodIsLoose, FieldsTyped DEF Stays
<1>1. CASE Deaf(v) \/ v.store = "done"
  <2>1. OnIdle(v) = v
    BY <1>1 DEF OnIdle
  <2>2. Rested(v)
    BY <1>0, <1>1 DEF Rested, Deaf, Tied
  <2> QED BY <1>0, <2>1, <2>2 DEF Ends
<1>2. CASE ~Deaf(v) /\ v.store # "done" /\ v.calls > 0
  <2>1. OnIdle(v) = HandOver(v)
    BY <1>2 DEF OnIdle
  <2> QED BY <2>1, HandOverKeeps
<1>3. CASE ~Deaf(v) /\ v.store # "done" /\ v.calls = 0 /\ v.acted
  <2>1. OnIdle(v) = AfterAction(v)
    BY <1>3 DEF OnIdle
  <2> QED BY <2>1, AfterActionKeeps
<1>4. CASE ~Deaf(v) /\ v.store # "done" /\ v.calls = 0 /\ ~v.acted /\ ~v.gaveUp
  <2>1. OnIdle(v) = AfterSilence(v)
    BY <1>4 DEF OnIdle
  <2> QED BY <1>4, <2>1, AfterSilenceKeeps
<1>5. CASE ~Deaf(v) /\ v.store # "done" /\ v.calls = 0 /\ ~v.acted /\ v.gaveUp
  <2>1. OnIdle(v) = IF Sub(v) /\ ~v.reported /\ Children(v) = 0 THEN Converge(v) ELSE v
    BY <1>5 DEF OnIdle
  <2>2. CASE Sub(v) /\ ~v.reported /\ Children(v) = 0
    BY <2>1, <2>2, ConvergeKeeps DEF Ends, Stays
  <2>3. CASE ~(Sub(v) /\ ~v.reported /\ Children(v) = 0)
    <3>1. Children(v) = 0 \/ Children(v) > 0
      BY ChildrenAre DEF Children
    <3>2. Paid(v)
      BY <1>0, <1>5, <2>3, <3>1 DEF Paid, Tied
    <3> QED BY <1>0, <2>1, <2>3, <3>2 DEF Ends, Rested
  <2> QED BY <2>2, <2>3
<1> QED BY <1>0, <1>1, <1>2, <1>3, <1>4, <1>5

\* agent.error
LEMMA OnFailureKeeps ==
    ASSUME NEW v, Good(v)
    PROVE  Ends(OnFailure(v), v) /\ (~Deaf(v) /\ ~Sub(v) => OnFailure(v).store # "live")
<1>0. Tied(v) /\ Stays(v, v) /\ v \in Leaders
    BY GoodIsLoose DEF Stays
<1>1. CASE Deaf(v)
  <2>1. OnFailure(v) = v
    BY <1>1 DEF OnFailure
  <2>2. Rested(v)
    BY <1>0, <1>1 DEF Rested, Deaf, Tied
  <2> QED BY <1>0, <1>1, <2>1, <2>2 DEF Ends
<1>2. CASE ~Deaf(v)
  <2>1. PICK slot \in {"done", "err"} : slot = IF v.store = "live" THEN "err" ELSE v.store
    BY <1>0 DEF Leaders
  <2>2. PICK u : u = [v EXCEPT !.store = slot]
    OBVIOUS
  <2>3. OnFailure(v) = IF Sub(v) THEN Fail(u) ELSE u
    BY <1>2, <2>1, <2>2 DEF OnFailure, Sub
  <2>4. u \in Leaders
    BY ZenonT(120), <1>0, <2>2 DEF Leaders
  <2>5. Work(u) = Work(v) /\ Waits(u) = Waits(v)
    BY <1>0, <2>2 DEF Leaders, Work, Waits
  <2>6. /\ u.kind = v.kind /\ u.store = slot /\ u.busy = v.busy /\ u.aborted = v.aborted
        /\ u.old = v.old /\ u.finishing = v.finishing /\ u.terminal = v.terminal
        /\ u.killed = v.killed /\ u.acted = v.acted /\ u.replied = v.replied
        /\ u.reported = v.reported /\ u.fg = v.fg /\ u.bg = v.bg /\ u.cancelled = v.cancelled
        /\ u.spawned = v.spawned
    BY <1>0, <2>2 DEF Leaders
  <2>7. Tied(u)
    BY <1>0, <2>1, <2>6 DEF Tied, Sub, Conv
  <2>8. Good(u) /\ u.store # "live"
    BY <2>4, <2>5, <2>6, <2>7, GoodChange
  <2>9. /\ Good(Fail(u)) /\ Fail(u).busy = u.busy
        /\ Fail(u).finishing # "no" \/ Fail(u).store # "live"
    BY <1>2, <2>6, <2>8, FailKeeps DEF Deaf
  <2>10. Rested(u) /\ Rested(Fail(u))
    BY <2>8, <2>9 DEF Rested
  <2> QED BY <2>3, <2>6, <2>8, <2>9, <2>10 DEF Ends, Stays
<1> QED BY <1>1, <1>2

-----------------------------------------------------------------------------
(* Whole answers *)

\* Induction up to n, by the least element that is missing.
LEMMA Induction ==
    ASSUME NEW n \in Nat, NEW S \in SUBSET (0..n), 0 \in S,
           \A i \in S : i + 1 \in 0..n => i + 1 \in S
    PROVE  S = 0..n
<1> DEFINE T == {0..i : i \in (0..n) \ S}
           R == StrictSubsetOrdering(0..n)
<1>1. SUFFICES ASSUME T # {} PROVE FALSE
    OBVIOUS
<1>2. IsWellFoundedOn(R, SUBSET (0..n))
  <2>1. IsFiniteSet(0..n)
    BY FS_Interval
  <2>2. FiniteSubsetsOf(0..n) = SUBSET (0..n)
    BY <2>1, FS_FiniteSubsetsOfFinite
  <2>3. IsWellFoundedOn(R, FiniteSubsetsOf(0..n))
    BY FS_StrictSubsetOrderingWellFounded
  <2> QED BY <2>2, <2>3
<1>3. PICK x \in T : \A y \in T : ~(<<y, x>> \in R)
  <2>1. T \subseteq SUBSET (0..n)
    OBVIOUS
  <2> HIDE DEF T, R
  <2> QED BY <1>1, <1>2, <2>1, WFMin
<1>4. PICK i \in (0..n) \ S : x = 0..i
    OBVIOUS
<1>5. i # 0 /\ i - 1 \in 0..n
    OBVIOUS
<1>6. CASE i - 1 \in S
    BY <1>4, <1>5, <1>6
<1>7. CASE i - 1 \notin S
  <2>1. 0..(i - 1) \in T
    BY <1>5, <1>7
  <2>2. 0..(i - 1) \subseteq 0..i /\ 0..(i - 1) # 0..i
    <3>1. i \in 0..i /\ i \notin 0..(i - 1)
      OBVIOUS
    <3> QED BY <3>1, <1>5
  <2>3. <<0..(i - 1), 0..i>> \in R
    BY <2>2, <1>5 DEF StrictSubsetOrdering
  <2> QED BY <1>3, <1>4, <2>1, <2>3
<1> QED BY <1>6, <1>7

\* The equation of the function by which Respond hears an answer.
Hears(h, n, v, answer) == h = [i \in 0..n |-> IF i = 0 THEN v ELSE OnEvent(h[i - 1], answer[i])]

\* The function of Respond that hears an answer event by event exists.
LEMMA HearingExists ==
    ASSUME NEW n \in Nat, NEW v, NEW answer
    PROVE  \E h : Hears(h, n, v, answer)
<1> DEFINE E == {m \in 0..n : \E h : Hears(h, m, v, answer)}
<1>1. 0 \in E
  <2> DEFINE h == [i \in 0..0 |-> v]
  <2>1. h = [i \in 0..0 |-> IF i = 0 THEN v ELSE OnEvent(h[i - 1], answer[i])]
    OBVIOUS
  <2> HIDE DEF h
  <2>2. Hears(h, 0, v, answer)
    BY <2>1 DEF Hears
  <2> QED BY <2>2
<1>2. ASSUME NEW m \in E, m + 1 \in 0..n PROVE m + 1 \in E
  <2>1. PICK h : h = [i \in 0..m |-> IF i = 0 THEN v ELSE OnEvent(h[i - 1], answer[i])]
    BY DEF Hears
  <2> DEFINE g == [i \in 0..(m + 1) |-> IF i = 0 THEN v ELSE OnEvent(h[i - 1], answer[i])]
  <2>2. \A i \in 0..m : g[i] = h[i]
    BY <2>1
  <2>3. g = [i \in 0..(m + 1) |-> IF i = 0 THEN v ELSE OnEvent(g[i - 1], answer[i])]
    <3>1. ASSUME NEW i \in 0..(m + 1)
          PROVE  (IF i = 0 THEN v ELSE OnEvent(h[i - 1], answer[i]))
                    = IF i = 0 THEN v ELSE OnEvent(g[i - 1], answer[i])
      <4>1. CASE i = 0
        BY <4>1
      <4>2. CASE i # 0
        <5>1. i - 1 \in 0..m
          BY <4>2
        <5>2. g[i - 1] = h[i - 1]
          BY <5>1, <2>2
        <5> HIDE DEF g
        <5> QED BY <4>2, <5>2
      <4> QED BY <4>1, <4>2
    <3> QED BY <3>1
  <2> HIDE DEF g
  <2>4. Hears(g, m + 1, v, answer)
    BY <2>3 DEF Hears
  <2> QED BY <2>4, <1>2, Zenon
<1>3. n \in E
  <2>1. E \in SUBSET (0..n)
    OBVIOUS
  <2> HIDE DEF E
  <2>2. E = 0..n
    BY <1>1, <1>2, <2>1, Induction
  <2> QED BY <2>2
<1> QED BY <1>3

\* After a whole answer the leader is good and busy.
LEMMA HearingKeeps ==
    ASSUME NEW v, Good(v), v.busy, NEW answer \in Responses,
           NEW h, Hears(h, Len(answer), v, answer)
    PROVE  Good(h[Len(answer)])
<1> DEFINE n == Len(answer)
           Fine(u) == Good(u) /\ u.busy
           S == {i \in 0..n : Fine(h[i])}
<1>1. n \in Nat /\ answer \in Seq(Events)
    BY LeaderAssumption
<1>2. \A i \in 0..n : h[i] = IF i = 0 THEN v ELSE OnEvent(h[i - 1], answer[i])
  <2>1. h = [i \in 0..n |-> IF i = 0 THEN v ELSE OnEvent(h[i - 1], answer[i])]
    BY DEF Hears
  <2> QED BY <2>1, Zenon
<1>3. 0 \in S
    BY <1>1, <1>2
<1>4. ASSUME NEW i \in S, i + 1 \in 0..n PROVE i + 1 \in S
  <2>1. i \in 0..n /\ Fine(h[i])
    OBVIOUS
  <2>2. answer[i + 1] \in Events /\ h[i + 1] = OnEvent(h[i], answer[i + 1])
    BY <1>1, <1>2, <1>4, <2>1
  <2>3. Stays(OnEvent(h[i], answer[i + 1]), h[i])
    BY <2>1, <2>2, OnEventKeeps
  <2>4. Fine(h[i + 1])
    BY <2>1, <2>2, <2>3 DEF Stays
  <2> QED BY <1>4, <2>4
<1>5. S \in SUBSET (0..n)
    OBVIOUS
<1> HIDE DEF S, Fine
<1>6. S = 0..n
    BY <1>1, <1>3, <1>4, <1>5, Induction
<1>7. Fine(h[n])
  <2>1. n \in S
    BY <1>1, <1>6
  <2> QED BY <2>1 DEF S
<1> QED BY <1>7 DEF Fine

\* A request that ends leaves the leader calm.
LEMMA EndsCalm ==
    ASSUME NEW v, NEW u, Ends(u, v)
    PROVE  Calm(EndOfSend(u))
    BY EndOfSendKeeps DEF Ends, Stays, Calm

\* A message to a good leader leaves it calm.
LEMMA MessageCalm ==
    ASSUME NEW v, Good(v)
    PROVE  Calm(Enqueue(v))
    BY GoodIsPrompt, EnqueueKeeps DEF Good, Calm

\* A step of the program ends with the continuations that run first.
LEMMA StepCalm ==
    ASSUME NEW v, Calm(v), Step(v)
    PROVE  LeaderInv'
    BY SettleKeeps DEF Step, LeaderInv

-----------------------------------------------------------------------------
(* Callbacks and batches *)

\* A new batch has an id of its own.
LEMMA NewIdFits ==
    ASSUME NEW v \in Leaders, IsFiniteSet(v.running)
    PROVE  NewId(v) \in Nat /\ NewId(v) \notin Ids(v)
<1> DEFINE n == Cardinality(v.running)
           fun == [batch \in v.running |-> batch.id]
<1>1. n \in Nat
    BY FS_CardinalityType
<1>2. fun \in Surjection(v.running, Ids(v))
    BY DEF Surjection, Ids
<1>3. IsFiniteSet(Ids(v)) /\ Cardinality(Ids(v)) <= n
    BY <1>2, FS_Surjection
<1>4. IsFiniteSet(0..n) /\ Cardinality(0..n) = n + 1
  <2>1. 0 \in Int /\ n \in Int
    BY <1>1
  <2> HIDE DEF n, fun
  <2>2. IsFiniteSet(0..n) /\ Cardinality(0..n) = IF 0 > n THEN 0 ELSE n - 0 + 1
    BY <2>1, FS_Interval
  <2> QED BY <1>1, <2>2
<1>5. ~(0..n \subseteq Ids(v))
  <2> SUFFICES ASSUME 0..n \subseteq Ids(v) PROVE FALSE
    OBVIOUS
  <2>1. Cardinality(0..n) <= Cardinality(Ids(v))
    BY <1>3, FS_Subset
  <2>2. Cardinality(Ids(v)) \in Nat
    BY <1>3, FS_CardinalityType
  <2> QED BY <1>1, <1>3, <1>4, <2>1, <2>2
<1>6. \E m \in 0..n : m \notin Ids(v)
    BY <1>5
<1>7. NewId(v) \in 0..n /\ NewId(v) \notin Ids(v)
    BY <1>6 DEF NewId
<1> QED BY <1>1, <1>7

LEMMA RunningTyped ==
    ASSUME NEW v, v \in Leaders, NEW running \in SUBSET Batches
    PROVE  [v EXCEPT !.running = running] \in Leaders
    BY ZenonT(120) DEF Leaders, Batches

\* Other batches are all that changes.
LEMMA RunningIs ==
    ASSUME NEW v, v \in Leaders, NEW running \in SUBSET Batches, NEW u,
           u = [v EXCEPT !.running = running]
    PROVE  /\ u \in Leaders /\ u.loop = v.loop /\ u.running = running /\ u.out = v.out
           /\ Flags(u) = Flags(v) /\ Waits(u) = Waits(v)
           /\ u.kind = v.kind /\ u.killed = v.killed /\ u.terminal = v.terminal
           /\ u.finishing = v.finishing /\ u.busy = v.busy /\ u.store = v.store
           /\ u.queue = v.queue /\ u.cancelled = v.cancelled
           /\ u.reported = v.reported /\ u.replied = v.replied /\ u.missed = v.missed
           /\ u.fg = v.fg /\ u.bg = v.bg /\ u.lock = v.lock
<1>1. u \in Leaders
    BY RunningTyped
<1>2. /\ u.kind = v.kind /\ u.store = v.store /\ u.busy = v.busy /\ u.aborted = v.aborted
      /\ u.old = v.old /\ u.finishing = v.finishing /\ u.terminal = v.terminal
      /\ u.killed = v.killed /\ u.acted = v.acted
    BY DEF Leaders
<1>3. /\ u.replied = v.replied /\ u.reported = v.reported /\ u.queue = v.queue
      /\ u.missed = v.missed /\ u.fg = v.fg /\ u.bg = v.bg /\ u.cancelled = v.cancelled
      /\ u.spawned = v.spawned /\ u.lock = v.lock
    BY DEF Leaders
<1>4. /\ u.loop = v.loop /\ u.running = running /\ u.out = v.out
    BY DEF Leaders
<1> QED BY <1>1, <1>2, <1>3, <1>4 DEF Flags, Waits

\* A leader that is ended or stopped no longer counts.
LEMMA GoneIsNotCounting ==
    ASSUME NEW v, Tied(v), Gone(v)
    PROVE  ~Counting(v)
    BY DEF Tied, Gone, Counting, Sub

\* The count goes back by the tools of a callback.
LEMMA PayKeeps ==
    ASSUME NEW v, NEW n \in Nat, Owed(v, n)
    PROVE  LET u == [v EXCEPT !.out = Minus(v.out, n)]
           IN  /\ Good(u) /\ u.busy = v.busy /\ u.store = v.store
               /\ Rested(v) => Rested(u)
<1>1. v \in Leaders /\ v.out \in Nat
    BY FieldsTyped DEF Owed
<1>2. PICK m \in Nat : m = Minus(v.out, n)
    BY <1>1 DEF Minus
<1>3. PICK u : u = [v EXCEPT !.out = m]
    OBVIOUS
<1>4. /\ u \in Leaders /\ u.loop = v.loop /\ u.running = v.running /\ u.out = m
      /\ Flags(u) = Flags(v) /\ Waits(u) = Waits(v)
      /\ u.kind = v.kind /\ u.killed = v.killed /\ u.terminal = v.terminal
      /\ u.finishing = v.finishing /\ u.busy = v.busy /\ u.store = v.store
      /\ u.queue = v.queue /\ u.cancelled = v.cancelled
      /\ u.reported = v.reported /\ u.replied = v.replied /\ u.missed = v.missed
      /\ u.fg = v.fg /\ u.bg = v.bg /\ u.lock = v.lock
    BY <1>1, <1>3, OutIs
<1>5. Tied(u) /\ Late(u)
    BY <1>4, SameFlags, SameWait DEF Owed
<1>6. Fresh(u) /\ IsFiniteSet(u.running)
    BY <1>4 DEF Owed, Fresh, Sub
<1>7. Counted(u)
  <2> SUFFICES ASSUME Counting(u)
               PROVE  /\ IsFiniteSet(LoopSlots(u.loop)) /\ IsFiniteSet(RunSlots(u.running))
                      /\ u.out = Loaded(u.loop) + Runs(u.running)
    BY DEF Counted
  <2>1. /\ IsFiniteSet(LoopSlots(v.loop)) /\ IsFiniteSet(RunSlots(v.running))
        /\ v.out = n + Loaded(v.loop) + Runs(v.running)
    BY <1>4 DEF Owed, Counting, Sub
  <2>2. Loaded(v.loop) \in Nat /\ Runs(v.running) \in Nat
    BY <2>1, FS_CardinalityType DEF Loaded, Runs
  <2>3. m = Loaded(v.loop) + Runs(v.running)
    BY <1>2, <2>1, <2>2 DEF Minus
  <2> QED BY <1>4, <2>1, <2>3
<1>8. Good(u)
    BY <1>4, <1>5, <1>6, <1>7 DEF Good, Base, Kept
<1>9. Rested(v) => Rested(u)
    BY <1>4 DEF Rested, Awake, Paid, Sub, Conv, Children
<1> QED BY <1>2, <1>3, <1>4, <1>8, <1>9

\* A batch starts with the tools of its callback.
LEMMA StartBatchKeeps ==
    ASSUME NEW v, NEW cb \in Entries, cb.kind = "batch", Owed(v, Load(cb)),
           Sub(v) /\ ~v.killed => ~cb.stale
    PROVE  LET u == StartBatch(v, cb)
           IN  /\ Good(u) /\ u.busy = v.busy
               /\ Rested(v) \/ Wakes(cb) => Rested(u)
<1>1. cb.n \in Nat /\ Load(cb) = cb.n /\ cb.stale \in BOOLEAN
    BY DEF Entries, Load, Carries
<1>2. /\ v \in Leaders /\ v.running \in SUBSET Batches /\ v.loop \in Seq(Entries)
      /\ Tied(v) /\ IsFiniteSet(v.running) /\ Late(v) /\ Fresh(v)
    BY FieldsTyped DEF Owed
<1>3. CASE Gone(v)
  <2>1. PICK u : u = [v EXCEPT !.out = Minus(v.out, cb.n)]
    OBVIOUS
  <2>2. StartBatch(v, cb) = u
    BY <1>3, <2>1 DEF StartBatch
  <2>3. Good(u) /\ u.busy = v.busy /\ u.store = v.store
    BY <1>1, <2>1, PayKeeps
  <2>4. Rested(u)
    BY <1>2, <1>3, <2>3 DEF Rested, Gone, Tied
  <2> QED BY <2>2, <2>3, <2>4
<1>4. CASE ~Gone(v)
  <2>1. PICK id \in Nat : id = NewId(v)
    BY <1>2, NewIdFits
  <2>2. PICK batch : batch = [id |-> id, n |-> cb.n, stale |-> cb.stale]
    OBVIOUS
  <2>3. batch \in Batches /\ batch.n = cb.n /\ batch.stale = cb.stale /\ batch.id = id
    BY <1>1, <2>2 DEF Batches
  <2>4. batch \notin v.running
    BY <1>2, <2>1, <2>3, NewIdFits DEF Ids
  <2>5. PICK more \in SUBSET Batches : more = v.running \cup {batch}
    BY <1>2, <2>3
  <2>6. PICK u : u = [v EXCEPT !.running = more]
    OBVIOUS
  <2>7. StartBatch(v, cb) = u
    BY <1>4, <2>1, <2>2, <2>5, <2>6 DEF StartBatch
  <2>0. v \in Leaders
    BY <1>2
  <2>8. /\ u \in Leaders /\ u.loop = v.loop /\ u.running = more /\ u.out = v.out
        /\ Flags(u) = Flags(v) /\ Waits(u) = Waits(v)
        /\ u.kind = v.kind /\ u.killed = v.killed /\ u.terminal = v.terminal
        /\ u.finishing = v.finishing /\ u.busy = v.busy /\ u.store = v.store
        /\ u.queue = v.queue /\ u.cancelled = v.cancelled
        /\ u.reported = v.reported /\ u.replied = v.replied /\ u.missed = v.missed
        /\ u.fg = v.fg /\ u.bg = v.bg /\ u.lock = v.lock
    BY <2>0, <2>6, RunningIs
  <2>9. Tied(u) /\ Late(u)
    BY <1>2, <2>8, SameFlags, SameWait
  <2>10. IsFiniteSet(u.running)
    BY SMTT(20), <1>2, <2>5, <2>8, FS_AddElement
  <2>11. Fresh(u)
    BY <1>2, <2>3, <2>5, <2>8 DEF Fresh, Sub
  <2>12. Counted(u)
    <3> SUFFICES ASSUME Counting(u)
                 PROVE  /\ IsFiniteSet(LoopSlots(u.loop)) /\ IsFiniteSet(RunSlots(u.running))
                        /\ u.out = Loaded(u.loop) + Runs(u.running)
      BY DEF Counted
    <3>1. /\ IsFiniteSet(LoopSlots(v.loop)) /\ IsFiniteSet(RunSlots(v.running))
          /\ v.out = cb.n + Loaded(v.loop) + Runs(v.running)
      BY <1>1, <2>8 DEF Owed, Counting, Sub
    <3>2. IsFiniteSet(RunSlots(more)) /\ Runs(more) = Runs(v.running) + cb.n
      BY <1>2, <2>3, <2>4, <2>5, <3>1, StartSlots
    <3>3. Loaded(v.loop) \in Nat /\ Runs(v.running) \in Nat
      BY <3>1, FS_CardinalityType DEF Loaded, Runs
    <3> QED BY <1>1, <2>8, <3>1, <3>2, <3>3
  <2>13. Good(u)
    BY <2>8, <2>9, <2>10, <2>11, <2>12 DEF Good, Base, Kept
  <2>14. Wakes(cb) => Awake(u)
    BY <2>3, <2>5, <2>8 DEF Wakes, Awake
  <2>15. Awake(v) => Awake(u)
    BY <2>5, <2>8 DEF Awake
  <2>16. Paid(v) => Paid(u)
    BY <2>8 DEF Paid, Sub, Conv, Children
  <2> QED BY <2>7, <2>8, <2>13, <2>14, <2>15, <2>16 DEF Rested
<1> QED BY <1>3, <1>4

\* A leader that is ended or stopped may rest.
LEMMA GoneRests ==
    ASSUME NEW v, Tied(v), Gone(v)
    PROVE  Rested(v)
    BY DEF Tied, Gone, Rested

\* The results of a batch reach a leader at work as a message.
LEMMA DeliverKeeps ==
    ASSUME NEW v, NEW cb \in Entries, cb.kind = "deliver", Owed(v, Load(cb)),
           v.busy \/ Rested(v) \/ Wakes(cb)
    PROVE  Calm(Deliver(v, cb))
<1>1. cb.n \in Nat /\ Load(cb) = cb.n /\ cb.stale \in BOOLEAN
    BY DEF Entries, Load, Carries
<1>2. PICK u : u = [v EXCEPT !.out = Minus(v.out, cb.n)]
    OBVIOUS
<1>3. /\ Good(u) /\ u.busy = v.busy /\ u.store = v.store
      /\ Rested(v) => Rested(u)
    BY <1>1, <1>2, PayKeeps
<1>4. Deliver(v, cb) = IF cb.stale \/ Gone(v) THEN u ELSE Enqueue(u)
    BY <1>2 DEF Deliver
<1>5. CASE ~(cb.stale \/ Gone(v))
    BY <1>3, <1>4, <1>5, MessageCalm
<1>6. CASE cb.stale \/ Gone(v)
  <2>1. Tied(v)
    BY DEF Owed
  <2>2. Wakes(cb) => Rested(v)
    BY <1>6, <2>1, GoneRests DEF Wakes
  <2> QED BY <1>3, <1>4, <1>6, <2>2 DEF Calm
<1> QED BY <1>5, <1>6

\* A message taken from the queue begins a turn.
LEMMA DrainKeeps ==
    ASSUME NEW v, Good(v), v.queue > 0
    PROVE  Calm(Send([v EXCEPT !.queue = @ - 1]))
<1>1. v \in Leaders /\ v.queue \in Nat /\ Tied(v) /\ Kept(v)
    BY FieldsTyped DEF Good, Base
<1>2. PICK n \in Nat : n = v.queue - 1
    BY <1>1
<1>3. PICK u : u = [v EXCEPT !.queue = n]
    OBVIOUS
<1>4. u \in Leaders
    BY ZenonT(120), <1>1, <1>3 DEF Leaders
<1>5. Work(u) = Work(v) /\ Flags(u) = Flags(v)
    BY <1>1, <1>3 DEF Leaders, Work, Flags
<1>6. Base(u)
    BY <1>1, <1>4, <1>5, SameWork, SameFlags DEF Base
<1>7. Calm(Send(u))
    BY <1>6, SendKeeps DEF Calm
<1> QED BY <1>2, <1>3, <1>7

\* Each callback leaves the leader calm.
LEMMA CalledKeeps ==
    ASSUME NEW v, NEW cb \in Entries, Owed(v, Load(cb)), Sub(v) /\ ~v.killed => ~cb.stale,
           v.busy \/ Rested(v) \/ Wakes(cb)
    PROVE  Calm(Called(v, cb))
<1>1. CASE cb.kind \in {"say", "sayAny", "refuse", "drain"}
  <2>1. Load(cb) = 0
    BY <1>1 DEF Load, Carries
  <2>2. Good(v) /\ Tied(v)
    BY <2>1, OwedNothing DEF Good, Base
  <2>3. Calm(Enqueue(v))
    BY <2>2, MessageCalm
  <2>4. v.busy \/ Rested(v) => Calm(v)
    BY <2>2 DEF Calm
  <2>5. Gone(v) => Calm(v)
    BY <2>2, <2>4, GoneRests
  <2>6. CASE cb.kind = "say"
    <3>1. Called(v, cb) = IF cb.stale \/ Gone(v) THEN v ELSE Enqueue(v)
      BY <2>6 DEF Called
    <3>2. cb.stale => ~Wakes(cb)
      BY <2>6 DEF Wakes
    <3> QED BY <2>3, <2>4, <2>5, <3>1, <3>2
  <2>7. CASE cb.kind = "sayAny"
    <3>1. Called(v, cb) = IF Gone(v) THEN v ELSE Enqueue(v)
      BY <2>7 DEF Called
    <3> QED BY <2>3, <2>5, <3>1
  <2>8. CASE cb.kind = "refuse"
    <3>1. Called(v, cb) = Enqueue(v)
      BY <2>8 DEF Called
    <3> QED BY <2>3, <3>1
  <2>9. CASE cb.kind = "drain"
    <3>1. Called(v, cb) = IF ~v.busy /\ v.queue > 0 THEN Send([v EXCEPT !.queue = @ - 1]) ELSE v
      BY <2>9 DEF Called
    <3>2. ~Wakes(cb)
      BY <2>9 DEF Wakes
    <3>3. v.queue > 0 => Calm(Send([v EXCEPT !.queue = @ - 1]))
      BY <2>2, DrainKeeps
    <3> QED BY <2>4, <3>1, <3>2, <3>3
  <2> QED BY <1>1, <2>6, <2>7, <2>8, <2>9
<1>2. CASE cb.kind = "batch"
  <2>1. Called(v, cb) = StartBatch(v, cb)
    BY <1>2 DEF Called
  <2>2. /\ Good(StartBatch(v, cb)) /\ StartBatch(v, cb).busy = v.busy
        /\ Rested(v) \/ Wakes(cb) => Rested(StartBatch(v, cb))
    BY <1>2, StartBatchKeeps
  <2> QED BY <2>1, <2>2 DEF Calm
<1>3. CASE cb.kind = "deliver"
  <2>1. Called(v, cb) = Deliver(v, cb)
    BY <1>3 DEF Called
  <2> QED BY <1>3, <2>1, DeliverKeeps
<1> QED BY <1>1, <1>2, <1>3 DEF Entries

\* A batch that ends is owed: its results will be delivered.
LEMMA EndBatchKeeps ==
    ASSUME NEW v, Good(v), NEW batch \in v.running
    PROVE  LET u == [v EXCEPT !.running = v.running \ {batch}]
           IN  /\ Owed(u, batch.n) /\ u.busy = v.busy /\ batch.n \in Nat
               /\ batch.stale => Good(u) /\ (Rested(v) => Rested(u))
<1>1. /\ v \in Leaders /\ v.running \in SUBSET Batches /\ batch \in Batches /\ batch.n \in Nat
      /\ Tied(v) /\ Late(v) /\ IsFiniteSet(v.running) /\ Fresh(v)
    BY FieldsTyped DEF Good, Base, Kept, Batches
<1>2. PICK tail \in SUBSET Batches : tail = v.running \ {batch}
    BY <1>1
<1>3. PICK u : u = [v EXCEPT !.running = tail]
    OBVIOUS
<1>0. v \in Leaders
    BY <1>1
<1>4. /\ u \in Leaders /\ u.loop = v.loop /\ u.running = tail /\ u.out = v.out
      /\ Flags(u) = Flags(v) /\ Waits(u) = Waits(v)
      /\ u.kind = v.kind /\ u.killed = v.killed /\ u.terminal = v.terminal
      /\ u.finishing = v.finishing /\ u.busy = v.busy /\ u.store = v.store
      /\ u.queue = v.queue /\ u.cancelled = v.cancelled
      /\ u.reported = v.reported /\ u.replied = v.replied /\ u.missed = v.missed
      /\ u.fg = v.fg /\ u.bg = v.bg /\ u.lock = v.lock
    BY <1>0, <1>3, RunningIs
<1>5. Tied(u) /\ Late(u)
    BY <1>1, <1>4, SameFlags, SameWait
<1>6. Fresh(u)
    BY <1>1, <1>2, <1>4 DEF Fresh, Sub
<1>7. IsFiniteSet(u.running)
    BY <1>1, <1>2, <1>4, FS_Subset
<1>8. ASSUME Counting(u)
      PROVE  /\ IsFiniteSet(LoopSlots(u.loop)) /\ IsFiniteSet(RunSlots(u.running))
             /\ u.out = batch.n + Loaded(u.loop) + Runs(u.running)
  <2>1. Counting(v)
    BY <1>4, <1>8 DEF Counting, Sub
  <2>2. /\ IsFiniteSet(LoopSlots(v.loop)) /\ IsFiniteSet(RunSlots(v.running))
        /\ v.out = Loaded(v.loop) + Runs(v.running)
    BY <2>1 DEF Good, Base, Kept, Counted
  <2>3. IsFiniteSet(RunSlots(tail)) /\ Runs(v.running) = Runs(tail) + batch.n
    BY <1>1, <1>2, <2>2, EndSlots
  <2>4. Loaded(v.loop) \in Nat /\ Runs(tail) \in Nat
    BY <2>2, <2>3, FS_CardinalityType DEF Loaded, Runs
  <2> QED BY <1>1, <1>4, <2>2, <2>3, <2>4
<1>9. Owed(u, batch.n)
    BY <1>4, <1>5, <1>6, <1>7, <1>8 DEF Owed
<1>10. ASSUME batch.stale PROVE Good(u) /\ (Rested(v) => Rested(u))
  <2>1. ~Counting(u)
    BY <1>1, <1>4, <1>10 DEF Fresh, Counting, Sub
  <2>2. Good(u)
    BY <1>4, <1>5, <1>6, <1>7, <2>1 DEF Good, Base, Kept, Counted
  <2>3. Awake(v) => Awake(u)
    BY <1>2, <1>4, <1>10 DEF Awake
  <2>4. Paid(v) => Paid(u)
    BY <1>4 DEF Paid, Sub, Conv, Children
  <2> QED BY <1>4, <2>2, <2>3, <2>4 DEF Rested
<1> QED BY <1>1, <1>2, <1>3, <1>4, <1>9, <1>10

-----------------------------------------------------------------------------
(* A changed requirement, a kill *)

\* What waits and runs for a superseded requirement is marked.
LEMMA StaleTyped ==
    ASSUME NEW v \in Leaders, IsFiniteSet(v.running)
    PROVE  /\ Stale(v.loop) \in Seq(Entries)
           /\ {[batch EXCEPT !.stale = TRUE] : batch \in v.running} \in SUBSET Batches
           /\ IsFiniteSet({[batch EXCEPT !.stale = TRUE] : batch \in v.running})
<1>1. v.loop \in Seq(Entries) /\ v.running \in SUBSET Batches
    BY FieldsTyped
<1>2. \A cb \in Entries : [cb EXCEPT !.stale = TRUE] \in Entries
    BY DEF Entries
<1>3. \A batch \in Batches : [batch EXCEPT !.stale = TRUE] \in Batches
    BY DEF Batches
<1>4. Stale(v.loop) \in Seq(Entries)
  <2>1. v.loop \in [1..Len(v.loop) -> Entries] /\ Len(v.loop) \in Nat
    BY <1>1, SeqDef, LenProperties
  <2>2. DOMAIN v.loop = 1..Len(v.loop) /\ \A i \in 1..Len(v.loop) : v.loop[i] \in Entries
    BY <1>1, LenProperties, ElementOfSeq
  <2>3. Stale(v.loop) \in [1..Len(v.loop) -> Entries]
    BY <1>2, <2>2 DEF Stale
  <2> QED BY <2>1, <2>3, IsASeq
<1> DEFINE image == {[batch EXCEPT !.stale = TRUE] : batch \in v.running}
           fun == [batch \in v.running |-> [batch EXCEPT !.stale = TRUE]]
<1>5. fun \in Surjection(v.running, image)
    BY DEF Surjection
<1>6. IsFiniteSet(image)
    BY <1>5, FS_Surjection
<1>7. image \in SUBSET Batches
    BY <1>1, <1>3
<1> QED BY <1>4, <1>6, <1>7

\* The fields of a leader whose work is superseded.
LEMMA SupersededIs ==
    ASSUME NEW v, v \in Leaders, IsFiniteSet(v.running)
    PROVE  LET u == Superseded(v)
           IN  /\ u \in Leaders /\ IsFiniteSet(u.running)
               /\ u.kind = v.kind /\ u.store = v.store /\ u.busy = v.busy
               /\ u.aborted = v.busy /\ u.old = v.busy /\ u.terminal = v.terminal
               /\ u.killed = v.killed /\ u.acted = v.acted /\ u.replied = v.replied
               /\ u.reported = v.reported /\ u.missed = v.missed
               /\ u.fg = 0 /\ u.bg = 0 /\ u.cancelled = v.cancelled /\ u.spawned = v.spawned
               /\ u.inputs = v.inputs
<1>1. PICK turned \in Seq(Entries) : turned = Stale(v.loop)
    BY StaleTyped
<1>2. PICK gone \in SUBSET Batches : /\ gone = {[batch EXCEPT !.stale = TRUE] : batch \in v.running}
                                     /\ IsFiniteSet(gone)
    BY StaleTyped
<1>3. v.finishing \in {"no", "yes", "old"} /\ v.busy \in BOOLEAN /\ 0 \in Nat /\ 0 \in 0..Spawns
    BY Bounds DEF Leaders
<1>4. PICK fun \in {"no", "yes", "old"} : fun = IF v.finishing = "no" THEN v.finishing ELSE "old"
    BY <1>3
<1>5. PICK x : x = [v EXCEPT !.queue = 0, !.aborted = v.busy, !.old = v.busy, !.calls = 0]
    OBVIOUS
<1>6. PICK y : y = [x EXCEPT !.fg = 0, !.bg = 0, !.finishing = fun]
    OBVIOUS
<1>7. PICK z : z = [y EXCEPT !.loop = turned]
    OBVIOUS
<1>8. PICK u : u = [z EXCEPT !.running = gone]
    OBVIOUS
<1>9. x \in Leaders
    BY ZenonT(120), <1>3, <1>5 DEF Leaders
<1>10. y \in Leaders
    BY ZenonT(120), <1>3, <1>6, <1>9 DEF Leaders
<1>11. z \in Leaders
    BY <1>7, <1>10, LoopTyped
<1>12. u \in Leaders
    BY <1>8, <1>11, RunningTyped
<1>13. Superseded(v) = u
  <2>1. /\ x.fg = v.fg /\ x.bg = v.bg /\ x.finishing = v.finishing /\ x.loop = v.loop
        /\ x.running = v.running
    BY <1>5, <1>9 DEF Leaders
  <2> QED BY <1>1, <1>2, <1>4, <1>5, <1>6, <1>7, <1>8 DEF Superseded
<1>14. /\ x.kind = v.kind /\ x.store = v.store /\ x.busy = v.busy
       /\ x.aborted = v.busy /\ x.old = v.busy /\ x.terminal = v.terminal
       /\ x.killed = v.killed /\ x.acted = v.acted /\ x.replied = v.replied
       /\ x.reported = v.reported /\ x.missed = v.missed
       /\ x.cancelled = v.cancelled /\ x.spawned = v.spawned /\ x.inputs = v.inputs
    BY <1>5, v \in Leaders DEF Leaders
<1>15. /\ y.kind = x.kind /\ y.store = x.store /\ y.busy = x.busy
       /\ y.aborted = x.aborted /\ y.old = x.old /\ y.terminal = x.terminal
       /\ y.killed = x.killed /\ y.acted = x.acted /\ y.replied = x.replied
       /\ y.reported = x.reported /\ y.missed = x.missed
       /\ y.cancelled = x.cancelled /\ y.spawned = x.spawned /\ y.inputs = x.inputs
       /\ y.fg = 0 /\ y.bg = 0
    BY <1>6, <1>9 DEF Leaders
<1>16. /\ u.kind = y.kind /\ u.store = y.store /\ u.busy = y.busy
       /\ u.aborted = y.aborted /\ u.old = y.old /\ u.terminal = y.terminal
       /\ u.killed = y.killed /\ u.acted = y.acted /\ u.replied = y.replied
       /\ u.reported = y.reported /\ u.missed = y.missed
    BY <1>7, <1>8, <1>10, <1>11 DEF Leaders
<1>17. /\ u.cancelled = y.cancelled /\ u.spawned = y.spawned /\ u.inputs = y.inputs
       /\ u.fg = y.fg /\ u.bg = y.bg /\ u.running = gone
    BY <1>7, <1>8, <1>10, <1>11 DEF Leaders
<1> QED BY <1>2, <1>12, <1>13, <1>14, <1>15, <1>16, <1>17

\* The input that changes the requirement begins the next turn, or is the
\* first in the queue.
LEMMA ReviseKeeps ==
    ASSUME NEW v, Good(v), v.kind \in {"chat", "root"}, v.inputs < Inputs
    PROVE  Calm(Enqueue([Superseded(v) EXCEPT !.inputs = @ + 1]))
<1>1. v \in Leaders /\ Tied(v) /\ IsFiniteSet(v.running) /\ v.cancelled \in Nat
      /\ v.spawned \in Nat /\ v.fg \in Nat /\ v.bg \in Nat
    BY ChildrenAre DEF Good, Base, Kept
<1>2. PICK u : u = Superseded(v)
    OBVIOUS
<1>3. /\ u \in Leaders /\ IsFiniteSet(u.running)
      /\ u.kind = v.kind /\ u.store = v.store /\ u.busy = v.busy
      /\ u.aborted = v.busy /\ u.old = v.busy /\ u.terminal = v.terminal
      /\ u.killed = v.killed /\ u.acted = v.acted /\ u.replied = v.replied
      /\ u.reported = v.reported /\ u.missed = v.missed
      /\ u.fg = 0 /\ u.bg = 0 /\ u.cancelled = v.cancelled /\ u.spawned = v.spawned
      /\ u.inputs = v.inputs
    BY <1>1, <1>2, SupersededIs
<1>4. PICK n \in 0..Inputs : n = u.inputs + 1
  <2>1. u.inputs \in 0..Inputs
    BY <1>3 DEF Leaders
  <2> QED BY <1>3, <2>1, Bounds
<1>5. PICK after : after = [u EXCEPT !.inputs = n]
    OBVIOUS
<1>6. u \in Leaders
    BY <1>3
<1>7. after \in Leaders
    BY ZenonT(120), <1>5, <1>6 DEF Leaders
<1>8. /\ after.kind = u.kind /\ after.store = u.store /\ after.busy = u.busy
      /\ after.aborted = u.aborted /\ after.old = u.old /\ after.terminal = u.terminal
      /\ after.killed = u.killed /\ after.acted = u.acted /\ after.replied = u.replied
      /\ after.reported = u.reported /\ after.missed = u.missed
    BY <1>5, <1>6 DEF Leaders
<1>9. /\ after.fg = u.fg /\ after.bg = u.bg /\ after.cancelled = u.cancelled
           /\ after.spawned = u.spawned
      /\ after.running = u.running
    BY <1>5, <1>6 DEF Leaders
<1>10. ~Sub(after)
    BY <1>3, <1>8 DEF Sub
<1>11. Tied(after)
    BY <1>1, <1>3, <1>8, <1>9, <1>10 DEF Tied, Sub, Conv
<1>12. Base(after)
    BY <1>3, <1>7, <1>9, <1>10, <1>11 DEF Base, Kept, Fresh, Counted, Counting
<1>13. Prompt(after)
    BY <1>3, <1>8 DEF Prompt
<1>14. Calm(Enqueue(after))
    BY <1>12, <1>13, EnqueueKeeps DEF Calm
<1> QED BY <1>2, <1>4, <1>5, <1>14

\* A sub-leader that is stopped owes nothing.
LEMMA StoppedIsCalm ==
    ASSUME NEW u, u \in Leaders, IsFiniteSet(u.running), Sub(u), u.killed, u.store = "err",
           u.aborted = u.busy, u.busy \in BOOLEAN, u.old => u.busy, ~u.replied,
           u.fg + u.bg + u.cancelled <= u.spawned
    PROVE  Calm(u)
<1>1. Tied(u)
    BY DEF Tied, Sub, Conv
<1>2. Kept(u) /\ Late(u) /\ Rested(u)
    BY DEF Kept, Fresh, Counted, Counting, Late, Rested, Sub, Conv
<1> QED BY <1>1, <1>2 DEF Calm, Good, Base

LEMMA SupersedeKeeps ==
    ASSUME NEW v, Good(v), Sub(v)
    PROVE  Calm([Superseded(v) EXCEPT !.killed = TRUE, !.store = "err"])
<1>1. v \in Leaders /\ Tied(v) /\ IsFiniteSet(v.running) /\ v.cancelled \in Nat
      /\ v.spawned \in Nat /\ v.fg \in Nat /\ v.bg \in Nat /\ v.busy \in BOOLEAN
    BY ChildrenAre, FieldsTyped DEF Good, Base, Kept
<1>2. PICK u : u = Superseded(v)
    OBVIOUS
<1>3. /\ u \in Leaders /\ IsFiniteSet(u.running)
      /\ u.kind = v.kind /\ u.busy = v.busy
      /\ u.aborted = v.busy /\ u.old = v.busy /\ u.replied = v.replied
      /\ u.fg = 0 /\ u.bg = 0 /\ u.cancelled = v.cancelled /\ u.spawned = v.spawned
    BY <1>1, <1>2, SupersededIs
<1>4. PICK after : after = [u EXCEPT !.killed = TRUE, !.store = "err"]
    OBVIOUS
<1>5. u \in Leaders
    BY <1>3
<1>6. after \in Leaders
    BY ZenonT(120), <1>4, <1>5 DEF Leaders
<1>7. /\ after.kind = u.kind /\ after.store = "err" /\ after.busy = u.busy
      /\ after.aborted = u.aborted /\ after.old = u.old /\ after.killed /\ after.replied = u.replied
      /\ after.fg = u.fg /\ after.bg = u.bg /\ after.cancelled = u.cancelled
           /\ after.spawned = u.spawned
      /\ after.running = u.running
    BY <1>4, <1>5 DEF Leaders
<1>8. /\ Sub(after) /\ IsFiniteSet(after.running) /\ after.killed /\ after.store = "err"
      /\ after.aborted = after.busy /\ after.busy \in BOOLEAN /\ (after.old => after.busy)
           /\ ~after.replied
      /\ after.fg + after.bg + after.cancelled <= after.spawned
    BY <1>1, <1>3, <1>7 DEF Sub, Tied
<1>9. Calm(after)
    BY <1>6, <1>8, StoppedIsCalm
<1> QED BY <1>2, <1>4, <1>9

LEMMA KillKeeps ==
    ASSUME NEW v, Good(v), Sub(v)
    PROVE  Calm([v EXCEPT !.killed = TRUE, !.store = "err", !.queue = 0, !.aborted = v.busy,
                          !.fg = 0, !.bg = 0, !.cancelled = v.fg])
<1>1. v \in Leaders /\ Tied(v) /\ IsFiniteSet(v.running) /\ v.cancelled \in Nat
      /\ v.spawned \in Nat /\ v.fg \in Nat /\ v.bg \in Nat /\ v.busy \in BOOLEAN
      /\ v.fg + v.bg + v.cancelled <= v.spawned /\ 0 \in Nat
    BY ChildrenAre, FieldsTyped DEF Good, Base, Kept
<1>2. v.fg \in 0..Spawns /\ 0 \in 0..Spawns
    BY <1>1, Bounds DEF Leaders
<1>3. PICK x : x = [v EXCEPT !.killed = TRUE, !.store = "err", !.queue = 0, !.aborted = v.busy]
    OBVIOUS
<1>4. PICK u : u = [x EXCEPT !.fg = 0, !.bg = 0, !.cancelled = v.fg]
    OBVIOUS
<1>0. v \in Leaders /\ v.busy \in BOOLEAN /\ 0 \in Nat
    BY <1>1
<1>5. x \in Leaders
    BY ZenonT(120), <1>0, <1>3 DEF Leaders
<1>6. u \in Leaders
    BY ZenonT(120), <1>2, <1>4, <1>5 DEF Leaders
<1>7. /\ x.kind = v.kind /\ x.store = "err" /\ x.busy = v.busy
      /\ x.aborted = v.busy /\ x.old = v.old /\ x.killed /\ x.replied = v.replied
      /\ x.spawned = v.spawned /\ x.running = v.running
    BY <1>0, <1>3 DEF Leaders
<1>8. /\ u.kind = x.kind /\ u.store = x.store /\ u.busy = x.busy
      /\ u.aborted = x.aborted /\ u.old = x.old /\ u.killed = x.killed /\ u.replied = x.replied
      /\ u.spawned = x.spawned /\ u.running = x.running
      /\ u.fg = 0 /\ u.bg = 0 /\ u.cancelled = v.fg
    BY <1>4, <1>5 DEF Leaders
<1>9. /\ Sub(u) /\ IsFiniteSet(u.running) /\ u.killed /\ u.store = "err"
      /\ u.aborted = u.busy /\ u.busy \in BOOLEAN /\ (u.old => u.busy) /\ ~u.replied
      /\ u.fg + u.bg + u.cancelled <= u.spawned
    BY <1>1, <1>7, <1>8 DEF Sub, Tied
<1>10. Calm(u)
    BY <1>6, <1>9, StoppedIsCalm
<1>11. u = [v EXCEPT !.killed = TRUE, !.store = "err", !.queue = 0, !.aborted = v.busy,
                     !.fg = 0, !.bg = 0, !.cancelled = v.fg]
    BY <1>3, <1>4
<1> QED BY <1>10, <1>11

-----------------------------------------------------------------------------
(* The steps from outside, and requests that fail *)

\* A question or a message.
LEMMA HearKeeps ==
    ASSUME NEW v, Good(v), v.inputs < Inputs
    PROVE  Calm(Enqueue([v EXCEPT !.inputs = @ + 1, !.lock = @ \/ v.kind = "chat"]))
<1>1. v \in Leaders
    BY DEF Good, Base
<1>2. PICK n \in 0..Inputs : n = v.inputs + 1
  <2>1. v.inputs \in 0..Inputs
    BY <1>1 DEF Leaders
  <2> QED BY <2>1, Bounds
<1>3. PICK batch \in BOOLEAN : batch = (v.lock \/ v.kind = "chat")
  <2>1. (v.lock \/ v.kind = "chat") \in BOOLEAN
    OBVIOUS
  <2> QED BY <2>1, Zenon
<1>4. PICK u : u = [v EXCEPT !.inputs = n, !.lock = batch]
    OBVIOUS
<1>5. u \in Leaders
    BY ZenonT(120), <1>1, <1>4 DEF Leaders
<1>6. Work(u) = Work(v) /\ Flags(u) = Flags(v) /\ Waits(u) = Waits(v)
    BY <1>1, <1>4 DEF Leaders, Work, Flags, Waits
<1>7. Calm(Enqueue(u))
    BY <1>5, <1>6, GoodAside, MessageCalm
<1>8. u = [v EXCEPT !.inputs = @ + 1, !.lock = @ \/ v.kind = "chat"]
    BY <1>2, <1>3, <1>4, Zenon
<1> QED BY <1>7, <1>8

\* A child less in the foreground or in the background.
LEMMA ChildLeaves ==
    ASSUME NEW v, Good(v), NEW place \in {"fg", "bg"}, v[place] > 0
    PROVE  Stays([v EXCEPT ![place] = @ - 1], v) /\ [v EXCEPT ![place] = @ - 1].store = v.store
           /\ [v EXCEPT ![place] = @ - 1].killed = v.killed
           /\ [v EXCEPT ![place] = @ - 1].kind = v.kind
<1>1. /\ v.fg \in Nat /\ v.bg \in Nat /\ v.cancelled \in Nat /\ v.spawned \in Nat
      /\ v.fg + v.bg + v.cancelled <= v.spawned /\ v.spawned <= Spawns
      /\ Spawns \in Nat /\ v \in Leaders
    BY ChildrenAre
<1>0. v \in Leaders
    BY <1>1
<1>2. CASE place = "fg"
  <2>1. PICK n \in 0..Spawns : n = v.fg - 1
    BY <1>1, <1>2
  <2>2. PICK u : u = [v EXCEPT !.fg = n]
    OBVIOUS
  <2>3. u = [v EXCEPT ![place] = @ - 1]
    BY <1>2, <2>1, <2>2
  <2>4. u \in Leaders
    BY <1>0, <2>2, ChildrenTyped
  <2>5. /\ Work(u) = Work(v) /\ Waits(u) = Waits(v) /\ Plain(u) = Plain(v)
    BY <1>0, <2>2 DEF Leaders, Work, Waits, Plain
  <2>6. u.fg = n /\ u.bg = v.bg /\ u.cancelled = v.cancelled /\ u.spawned = v.spawned
        /\ u.kind = v.kind
    BY <1>0, <2>2 DEF Leaders
  <2>7. u.fg + u.bg + u.cancelled <= u.spawned
    BY <1>1, <2>1, <2>6
  <2>8. Stays(u, v) /\ u.store = v.store /\ u.killed = v.killed
    BY <2>4, <2>5, <2>7, ChildrenKeep
  <2> QED BY <2>3, <2>6, <2>8
<1>3. CASE place = "bg"
  <2>1. PICK n \in 0..Spawns : n = v.bg - 1
    BY <1>1, <1>3
  <2>2. PICK u : u = [v EXCEPT !.bg = n]
    OBVIOUS
  <2>3. u = [v EXCEPT ![place] = @ - 1]
    BY <1>3, <2>1, <2>2
  <2>4. u \in Leaders
    BY <1>0, <2>2, ChildrenTyped
  <2>5. /\ Work(u) = Work(v) /\ Waits(u) = Waits(v) /\ Plain(u) = Plain(v)
    BY <1>0, <2>2 DEF Leaders, Work, Waits, Plain
  <2>6. u.fg = v.fg /\ u.bg = n /\ u.cancelled = v.cancelled /\ u.spawned = v.spawned
        /\ u.kind = v.kind
    BY <1>0, <2>2 DEF Leaders
  <2>7. u.fg + u.bg + u.cancelled <= u.spawned
    BY <1>1, <2>1, <2>6
  <2>8. Stays(u, v) /\ u.store = v.store /\ u.killed = v.killed
    BY <2>4, <2>5, <2>7, ChildrenKeep
  <2> QED BY <2>3, <2>6, <2>8
<1> QED BY <1>2, <1>3

\* A child has ended: its leader hears of it, unless it is ended itself.
LEMMA ChildEndsKeeps ==
    ASSUME NEW v, Good(v), NEW place \in {"fg", "bg"}, v[place] > 0, NEW u,
           u = [v EXCEPT ![place] = @ - 1]
    PROVE  Calm(IF u.killed \/ (Sub(u) /\ u.store # "live") THEN u ELSE Enqueue(u))
<1>1. Good(u) /\ u.store = v.store /\ u.killed = v.killed
    BY ChildLeaves DEF Stays
<1>2. Calm(Enqueue(u))
    BY <1>1, MessageCalm
<1>3. Tied(u)
    BY <1>1 DEF Good, Base
<1>4. u.killed \/ (Sub(u) /\ u.store # "live") => Calm(u)
    BY <1>1, <1>3 DEF Tied, Rested, Calm
<1> QED BY <1>2, <1>4

\* A child goes on in the background.
LEMMA ChildGoesOnKeeps ==
    ASSUME NEW v, Good(v), v.fg > 0
    PROVE  Calm(Enqueue([v EXCEPT !.fg = @ - 1, !.bg = @ + 1]))
<1>1. /\ v.fg \in Nat /\ v.bg \in Nat /\ v.cancelled \in Nat /\ v.spawned \in Nat
      /\ v.fg + v.bg + v.cancelled <= v.spawned /\ v.spawned <= Spawns
      /\ Spawns \in Nat /\ v \in Leaders
    BY ChildrenAre
<1>0. v \in Leaders
    BY <1>1
<1>2. PICK n \in 0..Spawns : n = v.fg - 1
    BY <1>1
<1>3. PICK m \in 0..Spawns : m = v.bg + 1
    BY <1>1
<1>4. PICK u : u = [v EXCEPT !.fg = n, !.bg = m]
    OBVIOUS
<1>5. u \in Leaders
    BY <1>0, <1>4, ChildrenTyped
<1>6. /\ Work(u) = Work(v) /\ Waits(u) = Waits(v) /\ Plain(u) = Plain(v)
    BY <1>0, <1>4 DEF Leaders, Work, Waits, Plain
<1>7. u.fg = n /\ u.bg = m /\ u.cancelled = v.cancelled /\ u.spawned = v.spawned
    BY <1>0, <1>4 DEF Leaders
<1>8. u.fg + u.bg + u.cancelled <= u.spawned
    BY <1>1, <1>2, <1>3, <1>7
<1>9. Calm(Enqueue(u))
    BY <1>5, <1>6, <1>8, ChildrenKeep, MessageCalm DEF Stays
<1> QED BY <1>2, <1>3, <1>4, <1>9

LEMMA BudgetTyped ==
    ASSUME NEW v, v \in Leaders, NEW store \in {"live", "done", "err"}, NEW a \in BOOLEAN,
           NEW p \in BOOLEAN, NEW n \in Nat
    PROVE  [v EXCEPT !.store = store, !.acted = a, !.replied = p, !.queue = n] \in Leaders
    BY ZenonT(120) DEF Leaders

\* The budget of the session is used up: the user is told, and some of what
\* is queued is dropped.
LEMMA BudgetKeeps ==
    ASSUME NEW v, Good(v), v.busy, ~v.aborted, ~Sub(v), NEW n \in 0..v.queue
    PROVE  LET fun == OnFailure(v)
               u == IF Deaf(fun) THEN fun ELSE [fun EXCEPT !.acted = TRUE, !.replied = TRUE]
           IN  Calm(EndOfSend([u EXCEPT !.queue = n]))
<1>1. /\ v \in Leaders /\ Tied(v) /\ Late(v) /\ v.queue \in Nat /\ n \in Nat
      /\ v.acted \in BOOLEAN /\ v.replied \in BOOLEAN
      /\ v.store \in {"live", "done", "err"} /\ v.finishing \in {"no", "yes", "old"}
    BY DEF Good, Base, Leaders
<1>0. v \in Leaders
    BY <1>1
<1>2. PICK slot \in {"live", "done", "err"} :
          slot = IF Deaf(v) THEN v.store ELSE IF v.store = "live" THEN "err" ELSE v.store
    BY <1>1
<1>3. PICK a \in BOOLEAN : a = IF Deaf(v) THEN v.acted ELSE TRUE
    BY <1>1
<1>4. PICK p \in BOOLEAN : p = IF Deaf(v) THEN v.replied ELSE TRUE
    BY <1>1
<1>5. PICK z : z = [v EXCEPT !.store = slot, !.acted = a, !.replied = p, !.queue = n]
    OBVIOUS
<1>6. z \in Leaders
  <2>1. n \in Nat
    BY <1>1
  <2> QED BY <1>0, <1>5, <2>1, BudgetTyped
<1>7. /\ Work(z) = Work(v) /\ z.kind = v.kind /\ z.busy = v.busy /\ z.aborted = v.aborted
      /\ z.old = v.old /\ z.finishing = v.finishing /\ z.terminal = v.terminal
      /\ z.killed = v.killed /\ z.missed = v.missed
    BY <1>0, <1>5 DEF Leaders, Work
<1>8. /\ z.reported = v.reported /\ z.fg = v.fg /\ z.bg = v.bg /\ z.cancelled = v.cancelled
      /\ z.spawned = v.spawned /\ z.store = slot /\ z.acted = a /\ z.replied = p /\ z.queue = n
    BY <1>0, <1>5 DEF Leaders
<1>9. ~Deaf(v) => slot # "live"
    BY <1>2
<1>10. Tied(z)
  <2>1. v.terminal => Deaf(v)
    BY DEF Deaf
  <2>2. (slot = "live" => v.store = "live") /\ (slot = "done" => v.store = "done")
    BY <1>1, <1>2, <1>9
  <2>3. Conv(v) => (p => a)
    BY <1>1, <1>3, <1>4 DEF Tied
  <2> QED BY <1>1, <1>7, <1>8, <2>2, <2>3 DEF Tied, Sub, Conv
<1>11. Late(z)
  <2>1. ~v.old
    BY <1>1 DEF Tied
  <2>2. Conv(v) /\ v.finishing = "old" => v.missed
    BY <1>1 DEF Late
  <2> QED BY <1>7, <2>1, <2>2 DEF Late, Conv
<1>12. Kept(z)
    BY <1>7, SameWork DEF Good, Base
<1>13. Good(z)
    BY <1>6, <1>10, <1>11, <1>12 DEF Good, Base
<1>14. Rested(z)
  <2>1. v.terminal => v.store # "live"
    BY <1>1 DEF Tied
  <2>2. Deaf(v) => slot = v.store
    BY <1>2
  <2>3. v.finishing # "no" \/ slot # "live"
    BY <1>9, <2>1, <2>2 DEF Deaf
  <2> QED BY <1>7, <1>8, <2>3 DEF Rested
<1>15. Calm(EndOfSend(z))
    BY <1>13, <1>14, EndOfSendKeeps DEF Calm
<1>16. ASSUME NEW fun, fun = OnFailure(v), NEW u,
              u = IF Deaf(fun) THEN fun ELSE [fun EXCEPT !.acted = TRUE, !.replied = TRUE]
       PROVE  [u EXCEPT !.queue = n] = z
  <2>1. CASE Deaf(v)
    <3>1. fun = v
      BY <1>16, <2>1 DEF OnFailure
    <3>2. u = v
      BY <1>16, <2>1, <3>1
    <3>3. slot = v.store /\ a = v.acted /\ p = v.replied
      BY <1>2, <1>3, <1>4, <2>1
    <3> QED BY <1>0, <1>5, <3>2, <3>3 DEF Leaders
  <2>2. CASE ~Deaf(v)
    <3>1. fun = [v EXCEPT !.store = slot]
      BY <1>2, <1>16, <2>2 DEF OnFailure
    <3>2. ~Deaf(fun)
      BY <1>0, <2>2, <3>1 DEF Leaders, Deaf
    <3>3. u = [fun EXCEPT !.acted = TRUE, !.replied = TRUE]
      BY <1>16, <3>2
    <3>4. a = TRUE /\ p = TRUE
      BY <1>3, <1>4, <2>2
    <3> QED BY <1>5, <3>1, <3>3, <3>4
  <2> QED BY <2>1, <2>2
<1> QED BY <1>15, <1>16

\* A request that was aborted for a changed requirement leaves the message
\* that changed it in the queue.
LEMMA AbortedKeeps ==
    ASSUME NEW v, Good(v), v.aborted
    PROVE  Calm(EndOfSend(IF v.old THEN v ELSE OnIdle(v)))
<1>1. CASE v.old
  <2>1. Rested(v)
    BY <1>1 DEF Good, Base, Tied, Late, Rested, Awake, Paid
  <2> QED BY <1>1, <2>1, EndOfSendKeeps DEF Calm
<1>2. CASE ~v.old
    BY <1>2, OnIdleKeeps, EndsCalm
<1> QED BY <1>1, <1>2

-----------------------------------------------------------------------------
(* The invariant *)

\* The leader of Start, before its first turn.
Newborn(kind) ==
    [kind |-> kind, store |-> "live", busy |-> FALSE, aborted |-> FALSE, old |-> FALSE,
     queue |-> 0, loop |-> <<>>, running |-> {}, calls |-> 0, loops |-> FALSE, out |-> 0,
     waits |-> {}, finishing |-> "no", terminal |-> FALSE, killed |-> FALSE,
     acted |-> FALSE, replied |-> FALSE, reported |-> FALSE, nudge |-> FALSE, cont |-> 0,
     gaveUp |-> FALSE, missed |-> FALSE, todo |-> "none", fg |-> 0, bg |-> 0, cancelled |-> 0,
     lock |-> kind \in {"chat", "fork"}, told |-> FALSE, requests |-> 0, spawned |-> 0,
     inputs |-> 0]

LEMMA NewbornTyped ==
    ASSUME NEW kind \in Kinds
    PROVE  Newborn(kind) \in Leaders
<1>1. 0 \in 0..Nudges \cup 0..SilentNudges /\ 0 \in 0..Spawns /\ 0 \in 0..Inputs /\ 0 \in Nat
    BY Bounds
<1>2. <<>> \in Seq(Entries)
    BY EmptySeq
<1>3. (kind \in {"chat", "fork"}) \in BOOLEAN
    OBVIOUS
<1>4. {} \in SUBSET Batches /\ {} \in SUBSET Nat
    OBVIOUS
<1> QED BY ZenonT(60), <1>1, <1>2, <1>3, <1>4 DEF Newborn, Leaders, Entries, Batches

\* The first turn of a leader leaves it good and busy.
LEMMA StartKeeps ==
    ASSUME NEW kind \in Kinds
    PROVE  Calm(Start(kind)) /\ Start(kind).cancelled = 0
<1>1. PICK v : v = Newborn(kind)
    OBVIOUS
<1>2. v \in Leaders
    BY <1>1, NewbornTyped
<1>3. /\ v.store = "live" /\ ~v.busy /\ ~v.aborted /\ ~v.old /\ v.loop = <<>> /\ v.running = {}
      /\ v.out = 0 /\ v.finishing = "no" /\ ~v.terminal /\ ~v.killed /\ ~v.acted
    BY <1>1 DEF Newborn
<1>4. /\ ~v.replied /\ ~v.reported /\ v.fg = 0 /\ v.bg = 0 /\ v.cancelled = 0 /\ v.spawned = 0
    BY <1>1 DEF Newborn
<1>5. Tied(v)
    BY <1>3, <1>4 DEF Tied
<1>6. IsFiniteSet({}) /\ Cardinality({}) = 0
    BY FS_EmptySet
<1>7. LoopSlots(v.loop) = {} /\ RunSlots(v.running) = {}
    BY <1>3 DEF LoopSlots, RunSlots
<1>8. Kept(v)
  <2>1. Fresh(v)
    BY <1>3 DEF Fresh
  <2>2. Loaded(v.loop) = 0 /\ Runs(v.running) = 0
    BY <1>6, <1>7, Zenon DEF Loaded, Runs
  <2>3. IsFiniteSet(LoopSlots(v.loop)) /\ IsFiniteSet(RunSlots(v.running))
    BY <1>6, <1>7, Zenon
  <2>4. v.out = Loaded(v.loop) + Runs(v.running)
    BY <1>3, <2>2
  <2>5. Counted(v)
    BY <2>3, <2>4, Zenon DEF Counted
  <2>6. IsFiniteSet(v.running)
    BY <1>3, <1>6, Zenon
  <2> QED BY <2>1, <2>5, <2>6 DEF Kept
<1>9. Good(Send(v)) /\ Send(v).busy /\ Send(v).cancelled = 0
    BY <1>2, <1>4, <1>5, <1>8, SendKeeps DEF Base
<1>10. Start(kind) = Send(v)
    BY <1>1 DEF Start, Newborn
<1> QED BY <1>9, <1>10 DEF Calm

\* Every step of the program and of its surroundings keeps the invariant.
LEMMA NextKeeps ==
    ASSUME LeaderInv, Next
    PROVE  LeaderInv'
<1>0. Calm(l) /\ Good(l) /\ l \in Leaders
    BY DEF LeaderInv, Calm, Good, Base
<1>1. CASE Respond
  <2>1. PICK answer \in Responses :
          LET heard[i \in 0..Len(answer)] ==
                  IF i = 0 THEN l ELSE OnEvent(heard[i - 1], answer[i])
          IN  \E v \in {heard[Len(answer)]} : Step(EndOfSend(OnIdle(v)))
    BY <1>1 DEF Respond
  <2> DEFINE h == CHOOSE fun : fun = [i \in 0..Len(answer) |->
                                    IF i = 0 THEN l ELSE OnEvent(fun[i - 1], answer[i])]
             u == h[Len(answer)]
  <2>2. Step(EndOfSend(OnIdle(u)))
    BY <2>1
  <2>3. Hears(h, Len(answer), l, answer)
    <3>1. Len(answer) \in Nat
      BY LeaderAssumption
    <3>2. \E fun : Hears(fun, Len(answer), l, answer)
      BY <3>1, HearingExists
    <3> QED BY <3>2, Zenon DEF Hears
  <2>4. l.busy
    BY <1>1 DEF Respond
  <2> HIDE DEF h
  <2>5. Good(u)
    BY <1>0, <2>3, <2>4, HearingKeeps
  <2> HIDE DEF u
  <2>6. Calm(EndOfSend(OnIdle(u)))
    BY <2>5, OnIdleKeeps, EndsCalm
  <2> QED BY <2>2, <2>6, StepCalm
<1>2. CASE RequestFails
  <2>1. Step(EndOfSend(OnFailure(l)))
    BY <1>2 DEF RequestFails
  <2>2. Calm(EndOfSend(OnFailure(l)))
    BY <1>0, OnFailureKeeps, EndsCalm
  <2> QED BY <2>1, <2>2, StepCalm
<1>3. CASE BudgetFails
  <2>1. l.busy /\ ~l.aborted /\ ~Sub(l)
    BY <1>3 DEF BudgetFails
  <2>2. PICK n \in 0..l.queue :
          LET v == OnFailure(l)
              u == IF Deaf(v) THEN v ELSE [v EXCEPT !.acted = TRUE, !.replied = TRUE]
          IN  Step(EndOfSend([u EXCEPT !.queue = n]))
    BY <1>3 DEF BudgetFails
  <2> DEFINE v == OnFailure(l)
             u == IF Deaf(v) THEN v ELSE [v EXCEPT !.acted = TRUE, !.replied = TRUE]
  <2>3. Calm(EndOfSend([u EXCEPT !.queue = n]))
    BY <1>0, <2>1, BudgetKeeps
  <2>4. Step(EndOfSend([u EXCEPT !.queue = n]))
    BY <2>2
  <2> HIDE DEF u, v
  <2> QED BY <2>3, <2>4, StepCalm
<1>4. CASE RequestAborted
  <2>1. l.aborted /\ Step(EndOfSend(IF l.old THEN l ELSE OnIdle(l)))
    BY <1>4 DEF RequestAborted
  <2>2. Calm(EndOfSend(IF l.old THEN l ELSE OnIdle(l)))
    BY <1>0, <2>1, AbortedKeeps
  <2> QED BY <2>1, <2>2, StepCalm
<1>5. CASE RunCallback
  <2>1. l.loop # <<>> /\ Step(Called([l EXCEPT !.loop = Tail(@)], Head(l.loop)))
    BY <1>5 DEF RunCallback
  <2>2. PICK v : v = [l EXCEPT !.loop = Tail(l.loop)]
    OBVIOUS
  <2>3. PICK cb : cb = Head(l.loop)
    OBVIOUS
  <2>4. /\ Owed(v, Load(cb)) /\ cb \in Entries
        /\ Sub(v) /\ ~v.killed => ~cb.stale
        /\ v.busy = l.busy
        /\ Rested(l) => Wakes(cb) \/ Rested(v)
    BY <1>0, <2>1, <2>2, <2>3, TakeKeeps
  <2>5. Calm(Called(v, cb))
    BY <1>0, <2>4, CalledKeeps DEF Calm
  <2> QED BY <2>1, <2>2, <2>3, <2>5, StepCalm
<1>6. ASSUME NEW batch \in l.running, ToolsEnd(batch) PROVE LeaderInv'
  <2>1. PICK v : v = [l EXCEPT !.running = l.running \ {batch}]
    OBVIOUS
  <2>2. Step(IF batch.stale THEN v ELSE Later(v, "deliver", batch.n))
    BY <1>6, <2>1 DEF ToolsEnd
  <2>3. /\ Owed(v, batch.n) /\ v.busy = l.busy /\ batch.n \in Nat
        /\ batch.stale => Good(v) /\ (Rested(l) => Rested(v))
    BY <1>0, <2>1, EndBatchKeeps
  <2>4. CASE batch.stale
    BY <1>0, <2>2, <2>3, <2>4, StepCalm DEF Calm
  <2>5. CASE ~batch.stale
    <3>1. Load(Callback("deliver", batch.n)) = batch.n
      BY DEF Load, Callback, Carries
    <3>2. LET u == Later(v, "deliver", batch.n) IN Good(u) /\ Awake(u)
      BY <2>3, <3>1, LaterKeeps
    <3>3. Calm(Later(v, "deliver", batch.n))
      BY <3>2 DEF Calm, Rested
    <3> QED BY <2>2, <2>5, <3>3, StepCalm
  <2> QED BY <2>4, <2>5
<1>7. CASE Hear
  <2>1. /\ l.inputs < Inputs
        /\ Step(Enqueue([l EXCEPT !.inputs = @ + 1, !.lock = @ \/ l.kind = "chat"]))
    BY <1>7 DEF Hear
  <2> QED BY <1>0, <2>1, HearKeeps, StepCalm
<1>8. CASE Revise
  <2>1. /\ l.inputs < Inputs /\ l.kind \in {"chat", "root"}
        /\ Step(Enqueue([Superseded(l) EXCEPT !.inputs = @ + 1]))
    BY <1>8 DEF Revise
  <2> QED BY <1>0, <2>1, ReviseKeeps, StepCalm
<1>9. CASE Supersede
  <2>1. Sub(l) /\ Step([Superseded(l) EXCEPT !.killed = TRUE, !.store = "err"])
    BY <1>9 DEF Supersede
  <2> QED BY <1>0, <2>1, SupersedeKeeps, StepCalm
<1>10. CASE Kill
  <2>1. Sub(l) /\ Step([l EXCEPT !.killed = TRUE, !.store = "err", !.queue = 0,
                                 !.aborted = l.busy, !.fg = 0, !.bg = 0, !.cancelled = l.fg])
    BY <1>10 DEF Kill
  <2> QED BY <1>0, <2>1, KillKeeps, StepCalm
<1>11. CASE ChildEnds
  <2>1. PICK place \in {"fg", "bg"} :
           /\ l[place] > 0
           /\ LET v == [l EXCEPT ![place] = @ - 1]
              IN  Step(IF v.killed \/ (Sub(v) /\ v.store # "live") THEN v ELSE Enqueue(v))
    BY <1>11 DEF ChildEnds
  <2>2. PICK v : v = [l EXCEPT ![place] = @ - 1]
    OBVIOUS
  <2>3. Step(IF v.killed \/ (Sub(v) /\ v.store # "live") THEN v ELSE Enqueue(v))
    BY <2>1, <2>2
  <2>4. Calm(IF v.killed \/ (Sub(v) /\ v.store # "live") THEN v ELSE Enqueue(v))
    BY <1>0, <2>1, <2>2, ChildEndsKeeps
  <2> QED BY <2>3, <2>4, StepCalm
<1>12. CASE ChildGoesOn
  <2>1. l.fg > 0 /\ Step(Enqueue([l EXCEPT !.fg = @ - 1, !.bg = @ + 1]))
    BY <1>12 DEF ChildGoesOn
  <2> QED BY <1>0, <2>1, ChildGoesOnKeeps, StepCalm
<1> QED BY <1>1, <1>2, <1>3, <1>4, <1>5, <1>6, <1>7, <1>8, <1>9, <1>10, <1>11, <1>12 DEF Next

\* In every state the flags of the leader agree, the count of the tools handed
\* over is kept, and a leader that rests has done what it owes.
THEOREM LeaderIsCalm == Spec => []LeaderInv
<1>1. Init => LeaderInv
    BY StartKeeps DEF Init, LeaderInv
<1>2. LeaderInv /\ [Next]_l => LeaderInv'
  <2>1. CASE UNCHANGED l
    BY <2>1 DEF LeaderInv
  <2> QED BY <2>1, NextKeeps
<1> QED BY <1>1, <1>2, PTL DEF Spec

\* The type of the leader, and its count of the tools handed over, are exact
\* (CountIsExact): what onDone waits for is what runs or is on its way.
THEOREM CountTheorem == Spec => []CountIsExact
<1>1. LeaderInv => CountIsExact
    BY DEF LeaderInv, Calm, Good, Base, Kept, Counted, Counting, CountIsExact, LeaderTypeOK,
           Registered, Loaded, Runs
<1> QED BY <1>1, LeaderIsCalm, PTL

\* A leader at rest has nothing to wake it.
LEMMA QuietRests ==
    ASSUME LeaderInv, Quiet, l.store = "live"
    PROVE  Paid(l)
<1>1. Rested(l) /\ l.finishing = "no"
    BY DEF LeaderInv, Calm, Quiet
<1>2. ~Awake(l)
    BY DEF Quiet, Awake
<1> QED BY <1>1, <1>2 DEF Rested

\* No dead zone (NoDeadZone): a sub-leader its parent counts as active rests
\* only after it has reported, or with children at work.
THEOREM NoDeadZoneTheorem == Spec => []NoDeadZone
<1>1. LeaderInv => NoDeadZone
    BY QuietRests DEF NoDeadZone, Paid
<1> QED BY <1>1, LeaderIsCalm, PTL

\* The conversation's lock is free when its PM rests after a turn that has
\* replied (RepliedReleases), but for a turn whose beginning was missed.
THEOREM RepliedReleasesTheorem == Spec => []RepliedReleases
<1>1. LeaderInv => RepliedReleases
    BY QuietRests DEF RepliedReleases, Paid
<1> QED BY <1>1, LeaderIsCalm, PTL

-----------------------------------------------------------------------------
(* The requests of the PM's agent *)

\* What the agent keeps between its steps, and inside them.
RequestFields ==
    {"phase", "queue", "item", "attempt", "corrected", "models", "route", "selected", "permit",
     "open", "aborted", "current", "talk", "stopped", "drain", "mark", "halted", "forgot",
     "stuck", "heard", "chosen", "lives"}

\* The models it may ask, and a stop that is kept or has been forgotten.
Asking(v) ==
    /\ RequestFields \subseteq DOMAIN v
    /\ Len(v.models) \in Nat /\ v.route \in 1..Len(v.models)
    /\ \A i \in 1..Len(v.models) : v.models[i] # None
    /\ v.selected \in {None, Other}
    /\ v.halted => v.stopped \/ v.forgot

NoPermit(v) == v.permit = None /\ v.open = 0

\* The inductive invariant of the requests.
RequestIs(v) ==
    /\ Asking(v) /\ v.phase \in {"rest", "backoff", "prices", "call", "gone"}
    /\ v.phase \in {"rest", "backoff", "prices"} => NoPermit(v)
    /\ v.phase = "call" =>
        v.open = 1 /\ v.permit = Http!Model(v) /\ (v.stopped => v.item = "query")
    /\ v.phase = "gone" => v.open = 1 /\ v.drain = FALSE
    /\ v.phase = "rest" /\ v.queue # <<>> => v.drain \/ v.stuck

LEMMA FreeIs ==
    ASSUME NEW v, Asking(v), NoPermit(v)
    PROVE  RequestIs(Http!Free(v))
BY DEF Http!Free, RequestIs, Asking, NoPermit, RequestFields

LEMMA ReportIs ==
    ASSUME NEW v, Asking(v), NoPermit(v), NEW e
    PROVE  RequestIs(Http!Report(v, e))
<1> DEFINE left == Http!Left(v.queue, e)
           u == [v EXCEPT !.queue = left, !.mark = (e = "allowance"),
                   !.stopped = v.stopped \/ e = "allowance", !.halted = v.halted \/ e = "allowance"]
<1>1. Http!Report(v, e) = Http!Free(u)
  BY DEF Http!Report
<1> HIDE DEF left
<1>2. Asking(u) /\ NoPermit(u)
  BY DEF Asking, NoPermit, RequestFields
<1> HIDE DEF u
<1> QED BY <1>1, <1>2, FreeIs

LEMMA NextAttemptIs ==
    ASSUME NEW v, Asking(v), NoPermit(v)
    PROVE  RequestIs(Http!NextAttempt(v))
<1> DEFINE u == [v EXCEPT !.attempt = v.attempt + 1, !.phase = "backoff"]
<1>1. RequestIs(u)
  BY DEF RequestIs, Asking, NoPermit, RequestFields
<1> HIDE DEF u
<1>2. Http!NextAttempt(v) = Http!Free(v) \/ Http!NextAttempt(v) = u
  BY DEF Http!NextAttempt, u
<1> QED BY <1>1, <1>2, FreeIs

\* A permit is settled, whatever comes of the attempt.
LEMMA SettledIs ==
    ASSUME NEW v, Asking(v), NoPermit(v) \/ (v.permit # None /\ v.open = 1)
    PROVE  Asking(Http!Settled(v)) /\ NoPermit(Http!Settled(v))
BY DEF Http!Settled, Asking, NoPermit, RequestFields

LEMMA FailedIs ==
    ASSUME NEW u, Asking(u), NoPermit(u) \/ (u.permit # None /\ u.open = 1), NEW e
    PROVE  RequestIs(Http!Failed(u, e))
<1> DEFINE v == Http!Settled(u)
           x == [v EXCEPT !.corrected = TRUE]
           y == [v EXCEPT !.route = v.route + 1]
<1>1. Asking(v) /\ NoPermit(v)
  BY SettledIs
<1> HIDE DEF v
<1>2. Asking(x) /\ NoPermit(x)
  BY <1>1 DEF Asking, NoPermit, RequestFields
<1>3. v.route < Len(v.models) => Asking(y) /\ NoPermit(y)
  BY <1>1 DEF Asking, NoPermit, RequestFields
<1> HIDE DEF x, y
<1>4. \/ Http!Failed(u, e) = Http!NextAttempt(x)
      \/ v.route < Len(v.models) /\ Http!Failed(u, e) = Http!NextAttempt(y)
      \/ Http!Failed(u, e) = Http!NextAttempt(v)
      \/ Http!Failed(u, e) = Http!Report(v, e)
      \/ Http!Failed(u, e) = Http!Free(v)
  BY Zenon DEF Http!Failed, v, x, y
<1> QED BY <1>1, <1>2, <1>3, <1>4, NextAttemptIs, ReportIs, FreeIs

LEMMA ResumedIs ==
    ASSUME NEW v, Asking(v), NoPermit(v)
    PROVE  /\ Asking(Http!Resumed(v)) /\ NoPermit(Http!Resumed(v))
           /\ Http!Resumed(v).item = v.item
BY DEF Http!Resumed, Asking, NoPermit, RequestFields

LEMMA ReserveIs ==
    ASSUME NEW u, Asking(u), NoPermit(u), NEW next, Http!Reserve(u, next)
    PROVE  RequestIs(next)
<1> DEFINE v == Http!Resumed(u)
<1>1. Asking(v) /\ NoPermit(v)
  BY ResumedIs
<1> HIDE DEF v
<1>2. \/ next = Http!Failed(u, "refused") \/ next = Http!Failed(v, "allowance")
           \/ next = Http!Failed(v, "pool")
      \/ /\ ~(v.stopped /\ v.item # "query")
         /\ \E talk : next = [v EXCEPT !.phase = "call", !.permit = Http!Model(v),
              !.open = v.open + 1,
                                !.talk = talk]
  BY DEF Http!Reserve, v
<1>3. ASSUME ~(v.stopped /\ v.item # "query"), NEW talk,
             next = [v EXCEPT !.phase = "call", !.permit = Http!Model(v), !.open = v.open + 1,
                           !.talk = talk]
      PROVE  RequestIs(next)
  BY <1>1, <1>3 DEF RequestIs, Asking, NoPermit, RequestFields, Http!Model
<1> QED BY <1>1, <1>2, <1>3, FailedIs

LEMMA ApplyIs ==
    ASSUME NEW v, Asking(v), NoPermit(v), Http!RequestsAssumption
    PROVE  Asking(Http!Apply(v)) /\ NoPermit(Http!Apply(v)) /\ Http!Apply(v).phase = v.phase
              /\ Http!Apply(v).queue = v.queue /\ Http!Apply(v).drain = v.drain
              /\ Http!Apply(v).stuck = v.stuck
<1> DEFINE x == [v EXCEPT !.models = <<v.selected>>, !.route = 1, !.selected = None]
<1>1. CASE v.selected = None
  BY <1>1 DEF Http!Apply
<1>2. CASE v.selected # None
  <2>1. Http!Apply(v) = x
    BY <1>2 DEF Http!Apply
  <2>2. v.selected = Other /\ Other # None
    BY <1>2 DEF Asking, Http!RequestsAssumption
  <2>3. x.models = <<Other>> /\ x.route = 1 /\ x.selected = None /\ DOMAIN x = DOMAIN v
        /\ x.permit = v.permit /\ x.open = v.open /\ x.halted = v.halted /\ x.stopped = v.stopped
        /\ x.forgot = v.forgot /\ x.phase = v.phase /\ x.queue = v.queue /\ x.drain = v.drain
        /\ x.stuck = v.stuck
    BY <2>2 DEF Asking, RequestFields
  <2> HIDE DEF x
  <2>4. Len(<<Other>>) = 1 /\ <<Other>>[1] = Other
    OBVIOUS
  <2>5. Asking(x) /\ NoPermit(x)
    BY <2>2, <2>3, <2>4 DEF Asking, NoPermit
  <2> QED BY <2>1, <2>3, <2>5
<1> QED BY <1>1, <1>2

LEMMA TryIs ==
    ASSUME NEW u, Asking(u), NoPermit(u), NEW next, Http!Try(u, next), Http!RequestsAssumption
    PROVE  RequestIs(next)
<1> DEFINE v == Http!Apply(u)
<1>1. Asking(v) /\ NoPermit(v)
  BY ApplyIs
<1> HIDE DEF v
<1>2. next = Http!Free(u) \/ next = [v EXCEPT !.phase = "prices"] \/ Http!Reserve(v, next)
  BY DEF Http!Try, v
<1>3. CASE next = [v EXCEPT !.phase = "prices"]
  BY <1>1, <1>3 DEF RequestIs, Asking, NoPermit, RequestFields
<1> QED BY <1>1, <1>2, <1>3, FreeIs, ReserveIs

LEMMA RequestSent ==
    ASSUME NEW v, Asking(v), NoPermit(v), v.phase = "rest", NEW item, NEW next,
           Http!Send(v, item, next), Http!RequestsAssumption
    PROVE  RequestIs(next)
<1> DEFINE u == [v EXCEPT !.item = item, !.attempt = 0, !.corrected = FALSE, !.talk = FALSE]
           x == [v EXCEPT !.mark = FALSE, !.stuck = v.queue # <<>>]
<1>1. Asking(u) /\ NoPermit(u)
  BY DEF Asking, NoPermit, RequestFields
<1>2. RequestIs(x)
  BY DEF RequestIs, Asking, NoPermit, RequestFields
<1>3. Http!Try(u, next) \/ next = x
  BY DEF Http!Send
<1> HIDE DEF u, x
<1> QED BY <1>1, <1>2, <1>3, TryIs

LEMMA EnqueueIs ==
    ASSUME NEW v, Asking(v), v.phase \in {"rest", "backoff", "prices", "call"},
           v.phase # "call" => NoPermit(v),
           v.phase = "call" =>
              v.open = 1 /\ v.permit = Http!Model(v) /\ (v.stopped => v.item = "query"),
           NEW item, NEW next, Http!Enqueue(v, item, next), Http!RequestsAssumption
    PROVE  RequestIs(next)
<1>1. CASE Http!Busy(v)
  <2>1. next = [v EXCEPT !.queue = Append(v.queue, item)]
    BY <1>1 DEF Http!Enqueue
  <2> QED BY <1>1, <2>1 DEF RequestIs, Asking, NoPermit, RequestFields, Http!Busy, Http!Model
<1>2. CASE ~Http!Busy(v)
  BY <1>2, RequestSent DEF Http!Enqueue, Http!Busy
<1> QED BY <1>1, <1>2


LEMMA RequestHeard ==
    ASSUME RequestIs(r), Http!RequestsAssumption, Http!Hear
    PROVE  RequestIs(r')
<1>1. PICK item \in Http!Sorts :
        LET v == [r EXCEPT !.heard = r.heard + 1, !.stuck = FALSE]
        IN  r.phase # "gone"
            /\ Http!Enqueue(IF item = "change"
                 THEN [Http!Killed(v) EXCEPT !.current = ~Http!Busy(v)]
                            ELSE v, item, r')
  BY DEF Http!Hear
<1> DEFINE v == [r EXCEPT !.heard = r.heard + 1, !.stuck = FALSE]
           x == [Http!Killed(v) EXCEPT !.current = ~Http!Busy(v)]
           u == IF item = "change" THEN x ELSE v
<1>2. /\ Asking(v) /\ v.phase = r.phase /\ v.permit = r.permit /\ v.open = r.open
      /\ v.models = r.models /\ v.route = r.route /\ v.stopped = r.stopped /\ v.item = r.item
  BY DEF RequestIs, Asking, RequestFields
<1> HIDE DEF v
<1>3. /\ Asking(x) /\ x.phase = v.phase /\ x.permit = v.permit /\ x.open = v.open
      /\ x.models = v.models /\ x.route = v.route /\ x.stopped = v.stopped /\ x.item = v.item
  BY <1>2 DEF Asking, RequestFields, Http!Killed
<1>4. /\ Asking(u) /\ u.phase = r.phase /\ u.permit = r.permit /\ u.open = r.open
      /\ u.models = r.models /\ u.route = r.route /\ u.stopped = r.stopped /\ u.item = r.item
  <2> HIDE DEF x
  <2> QED BY <1>2, <1>3
<1>5. Http!Enqueue(u, item, r') /\ r.phase # "gone"
  BY <1>1 DEF v
<1> HIDE DEF u
<1> QED BY <1>4, <1>5, EnqueueIs DEF RequestIs, NoPermit, Http!Model

LEMMA RequestDrained ==
    ASSUME RequestIs(r), Http!RequestsAssumption, Http!Drain
    PROVE  RequestIs(r')
<1> DEFINE v == [r EXCEPT !.drain = FALSE]
           u == [v EXCEPT !.queue = Tail(v.queue)]
<1>1. r.drain /\ (\/ (Http!Busy(v) \/ v.queue = <<>>) /\ r' = v
                  \/ ~Http!Busy(v) /\ Http!Send(u, Head(v.queue), r'))
  BY DEF Http!Drain
<1>2. /\ Asking(v) /\ v.phase = r.phase /\ v.permit = r.permit /\ v.open = r.open
      /\ v.models = r.models /\ v.route = r.route /\ v.stopped = r.stopped /\ v.item = r.item
      /\ v.drain = FALSE
  BY DEF RequestIs, Asking, RequestFields
<1>3. r.phase # "gone"
  BY <1>1 DEF RequestIs
<1> HIDE DEF v
<1>4. CASE (Http!Busy(v) \/ v.queue = <<>>) /\ r' = v
  BY <1>2, <1>3, <1>4 DEF RequestIs, NoPermit, Http!Model, Http!Busy
<1>5. CASE ~Http!Busy(v) /\ Http!Send(u, Head(v.queue), r')
  <2>1. Asking(u) /\ u.phase = v.phase /\ u.permit = v.permit /\ u.open = v.open
    BY <1>2 DEF Asking, RequestFields
  <2> HIDE DEF u
  <2>2. u.phase = "rest" /\ NoPermit(u)
    BY <1>2, <1>3, <1>5, <2>1 DEF RequestIs, NoPermit, Http!Busy
  <2> QED BY <1>5, <2>1, <2>2, RequestSent
<1> QED BY <1>1, <1>4, <1>5

LEMMA RestartKeeps ==
    ASSUME RequestIs(r), Http!RequestsAssumption, Http!Restart
    PROVE  RequestIs(r')
<1> DEFINE v == [Http!Unasked EXCEPT !.lives = r.lives + 1, !.heard = r.heard, !.chosen = r.chosen,
                          !.mark = r.mark, !.stopped = r.mark, !.halted = r.halted,
                          !.forgot = r.forgot \/ (r.halted /\ ~r.mark)]
<1>1. Http!Send(v, "plain", r')
  BY DEF Http!Restart
<1>2. /\ RequestFields \subseteq DOMAIN v /\ v.phase = "rest" /\ v.models = Chain /\ v.route = 1
      /\ v.selected = None /\ v.permit = None /\ v.open = 0 /\ v.stopped = r.mark
      /\ v.halted = r.halted /\ (v.forgot <=> r.forgot \/ (r.halted /\ ~r.mark))
  BY DEF Http!Unasked, RequestFields
<1> HIDE DEF v
<1>3. Len(Chain) \in Nat /\ 1 \in 1..Len(Chain) /\ \A i \in 1..Len(Chain) : Chain[i] # None
  BY DEF Http!RequestsAssumption
<1>4. Asking(v) /\ NoPermit(v)
  BY <1>2, <1>3 DEF Asking, NoPermit
<1> QED BY <1>1, <1>2, <1>4, RequestSent

\* Every step of the requests keeps the invariant.
LEMMA RequestsStep ==
    ASSUME RequestIs(r), Http!RequestsAssumption, Http!Next
    PROVE  RequestIs(r')
<1>1. /\ Asking(r) /\ (r.phase \in {"backoff", "prices"} => NoPermit(r))
      /\ (r.phase = "call" => r.permit # None /\ r.open = 1)
  <2>1. r.models[r.route] # None
    BY DEF RequestIs, Asking
  <2> QED BY <2>1 DEF RequestIs, Http!Model
<1>2. CASE Http!Backoff
  BY <1>1, <1>2, TryIs DEF Http!Backoff
<1>3. CASE Http!Prices
  <2>1. r.phase = "prices" /\ (r' = Http!Free(r) \/ Http!Reserve(r, r'))
    BY <1>3 DEF Http!Prices
  <2> QED BY <1>1, <2>1, FreeIs, ReserveIs
<1>4. CASE Http!Answer \/ Http!Aborted
  <2>1. r.phase = "call" /\ r' = Http!Free(Http!Settled(r))
    BY <1>4 DEF Http!Answer, Http!Aborted
  <2>2. Asking(Http!Settled(r)) /\ NoPermit(Http!Settled(r))
    BY <1>1, <2>1, SettledIs
  <2> QED BY <2>1, <2>2, FreeIs
<1>5. CASE Http!CallFails
  <2>1. r.phase = "call" /\ \E e : r' = Http!Failed(r, e)
    BY <1>5 DEF Http!CallFails
  <2> QED BY <1>1, <2>1, FailedIs
<1>6. CASE Http!Leave
  <2>1. r.phase = "call" /\ r' = [r EXCEPT !.phase = "gone", !.queue = <<>>, !.drain = FALSE]
    BY <1>6 DEF Http!Leave
  <2> QED BY <1>1, <2>1 DEF RequestIs, Asking, RequestFields
<1>7. CASE Http!Select
  <2> DEFINE v == [r EXCEPT !.chosen = r.chosen + 1, !.selected = Other]
  <2>1. r.phase # "gone" /\ r' = IF Http!Busy(v) THEN v ELSE Http!Apply(v)
    BY <1>7 DEF Http!Select
  <2>2. /\ Asking(v) /\ v.phase = r.phase /\ v.permit = r.permit /\ v.open = r.open
        /\ v.models = r.models /\ v.route = r.route /\ v.stopped = r.stopped /\ v.item = r.item
        /\ v.queue = r.queue /\ v.drain = r.drain /\ v.stuck = r.stuck
    BY <1>1 DEF Asking, RequestFields
  <2> HIDE DEF v
  <2>3. CASE Http!Busy(v)
    BY <2>1, <2>2, <2>3 DEF RequestIs, NoPermit, Http!Model, Http!Busy
  <2>4. CASE ~Http!Busy(v)
    <3> DEFINE x == Http!Apply(v)
    <3>1. v.phase = "rest" /\ NoPermit(v)
      BY <2>1, <2>2, <2>4 DEF Http!Busy, RequestIs, NoPermit
    <3>2. Asking(x) /\ NoPermit(x) /\ x.phase = v.phase /\ x.queue = v.queue /\ x.drain = v.drain
          /\ x.stuck = v.stuck
      BY <2>2, <3>1, ApplyIs
    <3> HIDE DEF x
    <3>3. RequestIs(x)
      BY <2>2, <3>1, <3>2 DEF RequestIs
    <3> QED BY <2>1, <2>4, <3>3 DEF x
  <2> QED BY <2>3, <2>4
<1> QED BY <1>2, <1>3, <1>4, <1>5, <1>6, <1>7, RequestHeard, RequestDrained, RestartKeeps
           DEF Http!Next

LEMMA RequestsStart == Http!Init /\ Http!RequestsAssumption => RequestIs(r)
<1> SUFFICES ASSUME Http!Init, Http!RequestsAssumption PROVE RequestIs(r)
  OBVIOUS
<1>1. /\ RequestFields \subseteq DOMAIN r /\ r.phase = "rest" /\ r.models = Chain /\ r.route = 1
      /\ r.selected = None /\ r.permit = None /\ r.open = 0 /\ r.halted = FALSE /\ r.queue = <<>>
  BY DEF Http!Init, Http!Unasked, RequestFields
<1>2. Len(Chain) \in Nat /\ 1 \in 1..Len(Chain) /\ \A i \in 1..Len(Chain) : Chain[i] # None
  BY DEF Http!RequestsAssumption
<1> QED BY <1>1, <1>2 DEF RequestIs, Asking, NoPermit

\* Every attempt settles its permit, the queue of an idle agent has a drain to come, and
\* the stop of a subscription holds until the user goes on (adapters/httpAgent.ts): for any
\* chain of models, number of retries, inputs, selections and restarts.
THEOREM RequestsTheorem == AgentsSpec => []RequestsAreAccounted
<1> DEFINE I == part = "requests" => RequestIs(r)
<1>0. Http!RequestsAssumption
  BY AgentsAssumption DEF AgentsAssumption
<1>1. AgentsInit => I
  BY <1>0, RequestsStart DEF AgentsInit
<1>2. I /\ [AgentsNext]_vars => I'
  <2> SUFFICES ASSUME I, [AgentsNext]_vars, part' = "requests" PROVE RequestIs(r')
    OBVIOUS
  <2>1. CASE AgentsNext
    <3>1. Http!Next /\ RequestIs(r)
      BY <2>1 DEF AgentsNext, LeaderStep
    <3> QED BY <1>0, <3>1, RequestsStep
  <2>2. CASE UNCHANGED vars
    BY <2>2 DEF vars, rest
  <2> QED BY <2>1, <2>2
<1>3. I => RequestsAreAccounted
  BY DEF RequestIs, NoPermit, RequestsAreAccounted, Http!RequestsAreAccounted,
     Http!PermitsAreSettled, Http!QueueHasDrain, Http!StopHolds, Asking
<1> QED BY <1>1, <1>2, <1>3, PTL DEF AgentsSpec

-----------------------------------------------------------------------------
(* The watch over the children *)

\* The timers of a child; a wait has the one that its clock names.
Timers(v, m) == {x \in v.timers : x.child = m}
Timer(v, m) == [child |-> m, life |-> v.handle[m].life, due |-> v.handle[m].at + Wait]
WaitIs(v, m) ==
    IF Watch!Foreground(v, m)
    THEN Timers(v, m) = {Timer(v, m)} /\ v.clock[m] = v.handle[m].life
    ELSE Timers(v, m) = {}

\* What has been taken off or will be at the next look, for a wait that is not over.
Waited(x, now) == x.paused + (IF x.since = 0 THEN 0 ELSE now - x.since + 1)

\* Statistics of a life: the time it has lived is at least what is measured of it.
StatsAre(x, now) ==
    /\ x.start \in 1..now /\ x.since <= now /\ x.paused <= now
    /\ x.since # 0 => x.paused <= x.since
LifeIs(v, m) ==
    /\ v.lived[m] <= v.now
    /\ v.state[m] # None => v.life[m] >= 1
    /\ v.stats[m] # None =>
        /\ StatsAre(v.stats[m], v.now) /\ v.stats[m].life <= v.life[m]
        /\ v.stats[m].life = v.life[m] =>
            /\ v.state[m] # "ended" =>
                v.lived[m] + Waited(v.stats[m], v.now) >= v.now - v.stats[m].start
            /\ v.stats[m].nudged => v.lived[m] > Limit

Handles == [life : 1..Starts, at : 1..Ticks, mode : {"foreground", "background", "done"}]
Watched ==
    [now : 1..Ticks, state : [Members -> {None, "idle", "run", "ended"}],
     life : [Members -> 0..Starts], killed : SUBSET Members,
     handle : [Members -> {None} \cup Handles],
     clock : [Members -> {None} \cup (1..Starts)],
     timers : SUBSET [child : Members, life : 1..Starts, due : Nat],
     stats : [Members -> {None} \cup Watch!Stats], waiting : SUBSET Members,
     lived : [Members -> 0..Ticks], told : SUBSET (Members \X (1..Starts))]

\* The inductive invariant of the watch.
WatchIs(v) == v \in Watched /\ \A m \in Members : WaitIs(v, m) /\ LifeIs(v, m)

\* A change that concerns one child leaves what is known of the others.
Elsewhere(v, u, m) ==
    /\ u \in Watched /\ u.now = v.now
    /\ \A o \in Members \ {m} :
        /\ u.handle[o] = v.handle[o] /\ u.clock[o] = v.clock[o] /\ Timers(u, o) = Timers(v, o)
        /\ u.lived[o] = v.lived[o] /\ u.state[o] = v.state[o] /\ u.life[o] = v.life[o]
        /\ u.stats[o] = v.stats[o]

LEMMA OthersStay ==
    ASSUME NEW v, WatchIs(v), NEW u, NEW m, Elsewhere(v, u, m), WaitIs(u, m), LifeIs(u, m)
    PROVE  WatchIs(u)
<1>1. ASSUME NEW o \in Members PROVE WaitIs(u, o) /\ LifeIs(u, o)
  <2>1. CASE o = m
    BY <2>1
  <2>2. CASE o # m
    BY <2>2 DEF WatchIs, Elsewhere, WaitIs, LifeIs, Watch!Foreground, Timer
  <2> QED BY <2>1, <2>2
<1> QED BY <1>1 DEF WatchIs, Elsewhere

\* Only the wait of a child changes.
SameLife(v, u, m) ==
    u.now = v.now /\ u.lived[m] = v.lived[m] /\ u.state[m] = v.state[m]
    /\ u.life[m] = v.life[m] /\ u.stats[m] = v.stats[m]
WaitSame(v, u, m) ==
    u.handle[m] = v.handle[m] /\ u.clock[m] = v.clock[m] /\ Timers(u, m) = Timers(v, m)

LEMMA LifeStays ==
    ASSUME NEW v, NEW u, NEW m, SameLife(v, u, m), LifeIs(v, m)
    PROVE  LifeIs(u, m)
BY DEF SameLife, LifeIs

LEMMA WaitStays ==
    ASSUME NEW v, NEW u, NEW m, WaitSame(v, u, m), WaitIs(v, m)
    PROVE  WaitIs(u, m)
BY DEF WaitSame, WaitIs, Watch!Foreground, Timer

\* The timer of a wait that ends is taken back.
LEMMA DisarmedIs ==
    ASSUME NEW v \in Watched, NEW m \in Members, WaitIs(v, m)
    PROVE  /\ Elsewhere(v, Watch!Disarmed(v, m), m) /\ SameLife(v, Watch!Disarmed(v, m), m)
           /\ Timers(Watch!Disarmed(v, m), m) = {}
           /\ Watch!Disarmed(v, m).handle = v.handle /\ Watch!Disarmed(v, m).told = v.told
<1> DEFINE kept == {x \in v.timers : <<x.child, x.life>> # <<m, v.clock[m]>>}
           u == [v EXCEPT !.timers = kept, !.clock[m] = None]
<1>1. Watch!Disarmed(v, m) = u
  BY DEF Watch!Disarmed
<1>2. kept \subseteq v.timers
  OBVIOUS
<1>3. /\ u.now = v.now /\ u.lived = v.lived /\ u.state = v.state /\ u.life = v.life
      /\ u.stats = v.stats /\ u.handle = v.handle /\ u.told = v.told /\ u.timers = kept
      /\ u.clock = [v.clock EXCEPT ![m] = None]
  BY DEF Watched
<1>4. ASSUME NEW o \in Members, o # m PROVE Timers(u, o) = Timers(v, o)
  BY <1>3, <1>4 DEF Timers
<1>5. Timers(u, m) = {}
  <2>1. CASE Watch!Foreground(v, m)
    <3>1. Timers(v, m) = {Timer(v, m)} /\ v.clock[m] = v.handle[m].life
      BY <2>1 DEF WaitIs
    <3>2. \A x \in v.timers : x.child = m => x.life = v.clock[m]
      BY <3>1 DEF Timers, Timer
    <3> QED BY <1>3, <3>2 DEF Timers
  <2>2. CASE ~Watch!Foreground(v, m)
    BY <1>3, <2>2 DEF Timers, WaitIs
  <2> QED BY <2>1, <2>2
<1>6. u \in Watched
  <2> HIDE DEF kept
  <2> QED BY <1>2 DEF Watched
<1> HIDE DEF u, kept
<1>7. Elsewhere(v, u, m)
  BY <1>3, <1>4, <1>6 DEF Elsewhere, Watched
<1> QED BY <1>1, <1>3, <1>5, <1>7 DEF SameLife


LEMMA ResolvedIs ==
    ASSUME NEW v \in Watched, NEW m \in Members
    PROVE  /\ Elsewhere(v, Watch!Resolved(v, m), m) /\ SameLife(v, Watch!Resolved(v, m), m)
           /\ WaitSame(v, Watch!Resolved(v, m), m)
<1> DEFINE told == v.told \cup {<<m, v.handle[m].life>>}
           u == [v EXCEPT !.told = told]
<1>1. CASE ~Watch!Foreground(v, m)
  BY <1>1 DEF Watch!Resolved, Elsewhere, SameLife, WaitSame, Watched
<1>2. CASE Watch!Foreground(v, m)
  <2>1. Watch!Resolved(v, m) = u
    BY <1>2 DEF Watch!Resolved
  <2>2. v.handle[m] \in Handles
    BY <1>2 DEF Watch!Foreground, Watched
  <2>3. told \in SUBSET (Members \X (1..Starts))
    BY <2>2 DEF Watched, Handles
  <2> HIDE DEF told
  <2>4. u \in Watched
    BY <2>3 DEF Watched
  <2>5. /\ u.now = v.now /\ u.lived = v.lived /\ u.state = v.state /\ u.life = v.life
        /\ u.stats = v.stats /\ u.handle = v.handle /\ u.timers = v.timers /\ u.clock = v.clock
    BY DEF Watched
  <2> HIDE DEF u
  <2> QED BY <2>1, <2>4, <2>5 DEF Elsewhere, SameLife, WaitSame, Timers
<1> QED BY <1>1, <1>2

\* One change after another, both of the same child.
LEMMA ElsewhereAgain ==
    ASSUME NEW v, NEW u, NEW q, NEW m, Elsewhere(v, u, m), Elsewhere(u, q, m)
    PROVE  Elsewhere(v, q, m)
BY DEF Elsewhere

LEMMA CancelledIs ==
    ASSUME NEW v \in Watched, NEW m \in Members, WaitIs(v, m)
    PROVE  /\ Elsewhere(v, Watch!Cancelled(v, m), m) /\ SameLife(v, Watch!Cancelled(v, m), m)
           /\ Timers(Watch!Cancelled(v, m), m) = {} /\ WaitIs(Watch!Cancelled(v, m), m)
<1> DEFINE d == Watch!Disarmed(v, m)
           u == Watch!Resolved(d, m)
           q == [u EXCEPT !.handle[m] = None]
<1>1. /\ d \in Watched /\ Elsewhere(v, d, m) /\ SameLife(v, d, m) /\ Timers(d, m) = {}
  BY DisarmedIs DEF Elsewhere
<1> HIDE DEF d
<1>2. /\ u \in Watched /\ Elsewhere(d, u, m) /\ SameLife(d, u, m) /\ WaitSame(d, u, m)
  BY <1>1, ResolvedIs DEF Elsewhere
<1>3. Watch!Cancelled(v, m) = q
  BY DEF Watch!Cancelled, d
<1> HIDE DEF u
<1>4. /\ q.now = u.now /\ q.lived = u.lived /\ q.state = u.state /\ q.life = u.life
      /\ q.stats = u.stats /\ q.timers = u.timers /\ q.clock = u.clock
      /\ q.handle = [u.handle EXCEPT ![m] = None]
  BY <1>2 DEF Watched
<1>5. q \in Watched
  BY <1>2 DEF Watched
<1> HIDE DEF q
<1>6. q.handle[m] = None /\ \A o \in Members \ {m} : q.handle[o] = u.handle[o]
  BY <1>2, <1>4 DEF Watched
<1>7. Elsewhere(u, q, m) /\ SameLife(u, q, m) /\ Timers(q, m) = {}
  BY <1>1, <1>2, <1>4, <1>5, <1>6 DEF Elsewhere, SameLife, WaitSame, Timers
<1>8. WaitIs(q, m)
  BY <1>6, <1>7 DEF WaitIs, Watch!Foreground
<1>9. Elsewhere(v, q, m)
  BY <1>1, <1>2, <1>7, ElsewhereAgain
<1>10. SameLife(v, q, m)
  BY <1>1, <1>2, <1>7 DEF SameLife
<1> QED BY <1>3, <1>7, <1>8, <1>9, <1>10

LEMMA CompletedIs ==
    ASSUME NEW v \in Watched, NEW m \in Members, WaitIs(v, m)
    PROVE  /\ Elsewhere(v, Watch!Completed(v, m), m) /\ SameLife(v, Watch!Completed(v, m), m)
           /\ WaitIs(Watch!Completed(v, m), m)
<1> DEFINE u == Watch!Disarmed(v, m)
           h == [u.handle[m] EXCEPT !.mode = "done"]
           q == [u EXCEPT !.handle = [u.handle EXCEPT ![m] = h]]
<1>1. /\ u \in Watched /\ Elsewhere(v, u, m) /\ SameLife(v, u, m) /\ Timers(u, m) = {}
      /\ u.handle = v.handle
  BY DisarmedIs DEF Elsewhere
<1>2. CASE ~Watch!Foreground(v, m)
  <2>1. Watch!Completed(v, m) = u
    BY <1>2 DEF Watch!Completed
  <2> HIDE DEF u
  <2> QED BY <1>1, <1>2, <2>1 DEF WaitIs, Watch!Foreground
<1>3. CASE Watch!Foreground(v, m)
  <2>1. Watch!Completed(v, m) = q
    BY <1>3 DEF Watch!Completed
  <2> HIDE DEF u
  <2>2. u.handle[m] \in Handles
    BY <1>1, <1>3 DEF Watch!Foreground, Watched
  <2>3. h \in Handles /\ h.mode = "done"
    BY <2>2 DEF Handles
  <2> HIDE DEF h
  <2>4. q \in Watched
    BY <1>1, <2>3 DEF Watched
  <2>5. /\ q.now = u.now /\ q.lived = u.lived /\ q.state = u.state /\ q.life = u.life
        /\ q.stats = u.stats /\ q.timers = u.timers /\ q.clock = u.clock
        /\ q.handle = [u.handle EXCEPT ![m] = h]
    BY <1>1 DEF Watched
  <2> HIDE DEF q
  <2>6. q.handle[m] = h /\ \A o \in Members \ {m} : q.handle[o] = u.handle[o]
    BY <1>1, <2>5 DEF Watched
  <2>7. Elsewhere(u, q, m) /\ SameLife(v, q, m) /\ Timers(q, m) = {}
    BY <1>1, <2>4, <2>5, <2>6 DEF Elsewhere, SameLife, Timers
  <2>8. WaitIs(q, m)
    BY <2>3, <2>6, <2>7 DEF WaitIs, Watch!Foreground
  <2> QED BY <1>1, <2>1, <2>7, <2>8, ElsewhereAgain
<1> QED BY <1>2, <1>3

\* A child that is registered is waited for with the timer of its start.
LEMMA RegisteredIs ==
    ASSUME NEW v \in Watched, NEW m \in Members, WaitIs(v, m), v.life[m] \in 1..Starts,
           Watch!WatchAssumption
    PROVE  /\ Elsewhere(v, Watch!Registered(v, m), m) /\ SameLife(v, Watch!Registered(v, m), m)
           /\ WaitIs(Watch!Registered(v, m), m)
<1> DEFINE u == Watch!Cancelled(v, m)
           h == [life |-> v.life[m], at |-> v.now, mode |-> "foreground"]
           t == [child |-> m, life |-> v.life[m], due |-> v.now + Wait]
           q == [u EXCEPT !.handle[m] = h, !.clock[m] = v.life[m], !.timers = u.timers \cup {t}]
<1>1. /\ u \in Watched /\ Elsewhere(v, u, m) /\ SameLife(v, u, m) /\ Timers(u, m) = {}
  BY CancelledIs DEF Elsewhere
<1>2. Watch!Registered(v, m) = q
  BY DEF Watch!Registered
<1>3. /\ h \in Handles /\ h # None /\ t \in [child : Members, life : 1..Starts, due : Nat]
  BY DEF Watched, Handles, Watch!WatchAssumption
<1>4. h.life = v.life[m] /\ h.at = v.now /\ h.mode = "foreground"
  OBVIOUS
<1>5. t = [child |-> m, life |-> h.life, due |-> h.at + Wait]
  OBVIOUS
<1>6. t.child = m
  OBVIOUS
<1> HIDE DEF u, h, t
<1>7. /\ q.now = u.now /\ q.lived = u.lived /\ q.state = u.state /\ q.life = u.life
      /\ q.stats = u.stats /\ q.timers = u.timers \cup {t}
      /\ q.clock = [u.clock EXCEPT ![m] = v.life[m]] /\ q.handle = [u.handle EXCEPT ![m] = h]
  BY <1>1 DEF Watched
<1>8. q \in Watched
  BY <1>1, <1>3 DEF Watched
<1> HIDE DEF q
<1>9. /\ q.handle[m] = h /\ q.clock[m] = v.life[m]
      /\ \A o \in Members \ {m} : q.handle[o] = u.handle[o] /\ q.clock[o] = u.clock[o]
  BY <1>1, <1>7 DEF Watched
<1>10. Timers(q, m) = {t} /\ \A o \in Members \ {m} : Timers(q, o) = Timers(u, o)
  BY <1>1, <1>6, <1>7 DEF Timers
<1>11. WaitIs(q, m)
  BY <1>3, <1>4, <1>5, <1>9, <1>10 DEF WaitIs, Watch!Foreground, Timer
<1>12. Elsewhere(u, q, m) /\ SameLife(v, q, m)
  BY <1>1, <1>7, <1>8, <1>9, <1>10 DEF Elsewhere, SameLife
<1> QED BY <1>1, <1>2, <1>11, <1>12, ElsewhereAgain

\* A new life begins with no time, and none of what was measured is about it.
LEMMA BegunIs ==
    ASSUME NEW v, WatchIs(v), NEW m \in Members, v.life[m] < Starts, Watch!WatchAssumption
    PROVE  /\ Elsewhere(v, Watch!Begun(v, m), m) /\ WaitSame(v, Watch!Begun(v, m), m)
           /\ LifeIs(Watch!Begun(v, m), m) /\ Watch!Begun(v, m).life[m] \in 1..Starts
<1> DEFINE u == [v EXCEPT !.life[m] = v.life[m] + 1, !.state[m] = "idle",
                   !.killed = v.killed \ {m}, !.lived[m] = 0]
<1>1. Watch!Begun(v, m) = u
  BY DEF Watch!Begun
<1>2. v \in Watched /\ LifeIs(v, m) /\ v.life[m] \in Nat /\ v.now \in Nat
  BY DEF WatchIs, Watched
<1>3. u \in Watched
  <2>1. v.life[m] + 1 \in 0..Starts /\ 0 \in 0..Ticks
    BY <1>2 DEF Watch!WatchAssumption
  <2>2. v.killed \ {m} \in SUBSET Members
    BY <1>2 DEF Watched
  <2>3. /\ [v.life EXCEPT ![m] = v.life[m] + 1] \in [Members -> 0..Starts]
        /\ [v.lived EXCEPT ![m] = 0] \in [Members -> 0..Ticks]
        /\ [v.state EXCEPT ![m] = "idle"] \in [Members -> {None, "idle", "run", "ended"}]
    BY <1>2, <2>1 DEF Watched
  <2> QED BY <1>2, <2>2, <2>3 DEF Watched
<1>4. /\ u.now = v.now /\ u.handle = v.handle /\ u.clock = v.clock /\ u.timers = v.timers
      /\ u.stats = v.stats /\ u.life = [v.life EXCEPT ![m] = v.life[m] + 1]
      /\ u.state = [v.state EXCEPT ![m] = "idle"] /\ u.lived = [v.lived EXCEPT ![m] = 0]
  BY <1>2 DEF Watched
<1> HIDE DEF u
<1>5. /\ u.life[m] = v.life[m] + 1 /\ u.state[m] = "idle" /\ u.lived[m] = 0
      /\ \A o \in Members \ {m} : u.life[o] = v.life[o] /\ u.state[o] = v.state[o]
            /\ u.lived[o] = v.lived[o]
  BY <1>2, <1>4 DEF Watched
<1>6. Elsewhere(v, u, m) /\ WaitSame(v, u, m)
  BY <1>3, <1>4, <1>5 DEF Elsewhere, WaitSame, Timers
<1>7. v.stats[m] # None => v.stats[m].life \in Nat
  BY <1>2 DEF Watched, Watch!Stats
<1>8. LifeIs(u, m)
  BY <1>2, <1>4, <1>5, <1>7 DEF LifeIs
<1> QED BY <1>1, <1>2, <1>5, <1>6, <1>8 DEF Watch!WatchAssumption


LEMMA TimerFiresKeeps ==
    ASSUME WatchIs(s), Watch!TimerFires
    PROVE  WatchIs(s')
<1>1. PICK x \in s.timers :
        LET m == x.child
            v == [s EXCEPT !.timers = s.timers \ {x}, !.clock[m] = None]
        IN  s' = IF Watch!Foreground(v, m)
                 THEN [Watch!Resolved(v, m) EXCEPT !.handle[m].mode = "background"]
                 ELSE v
  BY DEF Watch!TimerFires
<1> DEFINE m == x.child
           v == [s EXCEPT !.timers = s.timers \ {x}, !.clock[m] = None]
           u == Watch!Resolved(v, m)
           h == [u.handle[m] EXCEPT !.mode = "background"]
           q == [u EXCEPT !.handle = [u.handle EXCEPT ![m] = h]]
<1>2. s \in Watched /\ m \in Members /\ x \in Timers(s, m)
  BY DEF WatchIs, Watched, Timers
<1>3. WaitIs(s, m) /\ LifeIs(s, m)
  BY <1>2 DEF WatchIs
<1>4. Watch!Foreground(s, m) /\ Timers(s, m) = {x}
  BY <1>2, <1>3 DEF WaitIs
<1>5. /\ v.now = s.now /\ v.lived = s.lived /\ v.state = s.state /\ v.life = s.life
      /\ v.stats = s.stats /\ v.handle = s.handle /\ v.timers = s.timers \ {x}
      /\ v.clock = [s.clock EXCEPT ![m] = None]
  BY <1>2 DEF Watched
<1>6. v \in Watched
  <2>1. s.timers \ {x} \in SUBSET [child : Members, life : 1..Starts, due : Nat]
    BY <1>2 DEF Watched
  <2>2. [s.clock EXCEPT ![m] = None] \in [Members -> {None} \cup (1..Starts)]
    BY <1>2 DEF Watched
  <2> QED BY <1>2, <2>1, <2>2 DEF Watched
<1>7. s' = q
  <2>1. Watch!Foreground(v, m)
    BY <1>4, <1>5 DEF Watch!Foreground
  <2> QED BY <1>1, <2>1
<1> HIDE DEF v
<1>8. Elsewhere(s, v, m) /\ SameLife(s, v, m) /\ Timers(v, m) = {}
  <2>1. \A o \in Members \ {m} : v.clock[o] = s.clock[o]
    BY <1>2, <1>5 DEF Watched
  <2>2. \A o \in Members \ {m} : Timers(v, o) = Timers(s, o)
    BY <1>5 DEF Timers
  <2>3. Timers(v, m) = {}
    BY <1>4, <1>5 DEF Timers
  <2> QED BY <1>5, <1>6, <2>1, <2>2, <2>3 DEF Elsewhere, SameLife
<1> HIDE DEF m
<1>9. /\ u \in Watched /\ Elsewhere(v, u, m) /\ SameLife(v, u, m) /\ WaitSame(v, u, m)
  BY <1>2, <1>6, ResolvedIs DEF Elsewhere
<1> HIDE DEF u
<1>10. u.handle[m] \in Handles
  BY <1>2, <1>4, <1>5, <1>9 DEF Watch!Foreground, WaitSame, Watched
<1>11. h \in Handles /\ h.mode = "background"
  BY <1>10 DEF Handles
<1> HIDE DEF h
<1>12. q \in Watched
  BY <1>9, <1>11 DEF Watched
<1>13. /\ q.now = u.now /\ q.lived = u.lived /\ q.state = u.state /\ q.life = u.life
       /\ q.stats = u.stats /\ q.timers = u.timers /\ q.clock = u.clock
       /\ q.handle = [u.handle EXCEPT ![m] = h]
  BY <1>9 DEF Watched
<1> HIDE DEF q
<1>14. q.handle[m] = h /\ \A o \in Members \ {m} : q.handle[o] = u.handle[o]
  BY <1>2, <1>9, <1>13 DEF Watched
<1>15. Elsewhere(u, q, m) /\ SameLife(u, q, m) /\ Timers(q, m) = {}
  BY <1>8, <1>9, <1>12, <1>13, <1>14 DEF Elsewhere, SameLife, WaitSame, Timers
<1>16. WaitIs(q, m)
  BY <1>11, <1>14, <1>15 DEF WaitIs, Watch!Foreground
<1>17. SameLife(s, q, m)
  BY <1>8, <1>9, <1>15 DEF SameLife
<1>18. Elsewhere(s, q, m)
  <2>1. Elsewhere(s, u, m)
    BY <1>8, <1>9, ElsewhereAgain
  <2> QED BY <1>15, <2>1, ElsewhereAgain
<1>19. LifeIs(q, m)
  BY <1>3, <1>17, LifeStays
<1>20. WatchIs(q)
  BY <1>16, <1>18, <1>19, OthersStay
<1> QED BY <1>7, <1>20

LEMMA SpawnKeeps ==
    ASSUME WatchIs(s), Watch!WatchAssumption, NEW m \in Members,
           Watch!Spawn(m) \/ Watch!ResumeAgain(m)
    PROVE  WatchIs(s')
<1> DEFINE u == Watch!Begun(s, m)
           q == Watch!Registered(u, m)
<1>1. s.life[m] < Starts /\ (s' = q \/ s' = u)
  BY DEF Watch!Spawn, Watch!ResumeAgain, Watch!WatchAssumption
<1>2. /\ Elsewhere(s, u, m) /\ WaitSame(s, u, m) /\ LifeIs(u, m) /\ u.life[m] \in 1..Starts
  BY <1>1, BegunIs
<1> HIDE DEF u
<1>3. WaitIs(u, m) /\ u \in Watched
  BY <1>2, WaitStays DEF WatchIs, Elsewhere
<1>4. Elsewhere(u, q, m) /\ SameLife(u, q, m) /\ WaitIs(q, m)
  BY <1>2, <1>3, RegisteredIs
<1> HIDE DEF q
<1>5. WatchIs(u)
  BY <1>2, <1>3, OthersStay
<1>6. WatchIs(q)
  BY <1>2, <1>4, <1>5, LifeStays, OthersStay
<1> QED BY <1>1, <1>5, <1>6

\* The first turn of a child starts its time.
LEMMA RunsKeeps ==
    ASSUME WatchIs(s), Watch!WatchAssumption, NEW m \in Members, Watch!Runs(m)
    PROVE  WatchIs(s')
<1> DEFINE x == s.stats[m]
           new == [start |-> s.now, paused |-> 0, since |-> 0, nudged |-> FALSE,
                   life |-> s.life[m]]
           y == IF x = None THEN new
                ELSE IF x.start = 0 THEN [x EXCEPT !.start = s.now] ELSE x
           q == [s EXCEPT !.state[m] = "run", !.stats[m] = y]
<1>1. s.state[m] = "idle" /\ s' = q
  BY DEF Watch!Runs
<1>2. /\ s \in Watched /\ WaitIs(s, m) /\ LifeIs(s, m) /\ s.now \in 1..Ticks
      /\ s.life[m] \in 1..Starts /\ s.lived[m] \in Nat
  <2>1. s \in Watched /\ WaitIs(s, m) /\ LifeIs(s, m)
    BY DEF WatchIs
  <2>2. s.life[m] >= 1
    BY <1>1, <2>1 DEF LifeIs, Watch!WatchAssumption
  <2> QED BY <2>1, <2>2 DEF Watched, Watch!WatchAssumption
<1>3. /\ new \in Watch!Stats /\ new.start = s.now /\ new.paused = 0 /\ new.since = 0
      /\ ~new.nudged /\ new.life = s.life[m]
  BY <1>2 DEF Watch!Stats, Watch!WatchAssumption
<1> HIDE DEF new
<1>4. (x = None /\ y = new) \/ (x # None /\ y = x)
  <2>1. x # None => x.start # 0
    BY <1>2 DEF LifeIs, StatsAre
  <2> QED BY <2>1
<1>5. y \in {None} \cup Watch!Stats
  <2>1. x \in {None} \cup Watch!Stats
    BY <1>2 DEF Watched
  <2> QED BY <1>3, <1>4, <2>1
<1> HIDE DEF y
<1>6. q \in Watched
  BY <1>2, <1>5 DEF Watched
<1>7. /\ q.now = s.now /\ q.lived = s.lived /\ q.life = s.life /\ q.timers = s.timers
      /\ q.clock = s.clock /\ q.handle = s.handle /\ q.stats = [s.stats EXCEPT ![m] = y]
      /\ q.state = [s.state EXCEPT ![m] = "run"]
  BY <1>2 DEF Watched
<1> HIDE DEF q
<1>8. /\ q.stats[m] = y /\ q.state[m] = "run"
      /\ \A o \in Members \ {m} : q.stats[o] = s.stats[o] /\ q.state[o] = s.state[o]
  BY <1>2, <1>7 DEF Watched
<1>9. Elsewhere(s, q, m) /\ WaitSame(s, q, m)
  BY <1>6, <1>7, <1>8 DEF Elsewhere, WaitSame, Timers
<1>10. LifeIs(q, m)
  <2>1. CASE x # None /\ y = x
    BY <1>1, <1>2, <1>7, <1>8, <2>1 DEF LifeIs
  <2>2. CASE y = new
    BY <1>2, <1>3, <1>7, <1>8, <2>2 DEF LifeIs, StatsAre, Waited
  <2> QED BY <1>4, <2>1, <2>2
<1> QED BY <1>1, <1>2, <1>9, <1>10, WaitStays, OthersStay


\* A child that stops running, for a while or for good, has lived no less.
LEMMA RestsKeeps ==
    ASSUME WatchIs(s), Watch!WatchAssumption, NEW m \in Members, Watch!Rests(m)
    PROVE  WatchIs(s')
<1> DEFINE q == [s EXCEPT !.state[m] = "idle"]
<1>1. s.state[m] = "run" /\ s' = q
  BY DEF Watch!Rests
<1>2. s \in Watched /\ WaitIs(s, m) /\ LifeIs(s, m)
  BY DEF WatchIs
<1>3. q \in Watched
  BY <1>2 DEF Watched
<1>4. /\ q.now = s.now /\ q.lived = s.lived /\ q.life = s.life /\ q.timers = s.timers
      /\ q.clock = s.clock /\ q.handle = s.handle /\ q.stats = s.stats
      /\ q.state = [s.state EXCEPT ![m] = "idle"]
  BY <1>2 DEF Watched
<1> HIDE DEF q
<1>5. q.state[m] = "idle" /\ \A o \in Members \ {m} : q.state[o] = s.state[o]
  BY <1>2, <1>4 DEF Watched
<1>6. Elsewhere(s, q, m) /\ WaitSame(s, q, m)
  BY <1>3, <1>4, <1>5 DEF Elsewhere, WaitSame, Timers
<1>7. LifeIs(q, m)
  BY <1>1, <1>2, <1>4, <1>5 DEF LifeIs, Watch!WatchAssumption
<1> QED BY <1>1, <1>2, <1>6, <1>7, WaitStays, OthersStay

LEMMA EndsKeeps ==
    ASSUME WatchIs(s), Watch!WatchAssumption, NEW m \in Members, Watch!Ends(m)
    PROVE  WatchIs(s')
<1> DEFINE u == Watch!Completed(s, m)
           q == [u EXCEPT !.state[m] = "ended", !.stats[m] = None]
<1>1. s.state[m] \in {"idle", "run"} /\ s' = q
  BY DEF Watch!Ends
<1>2. s \in Watched /\ WaitIs(s, m) /\ LifeIs(s, m)
  BY DEF WatchIs
<1>3. u \in Watched /\ Elsewhere(s, u, m) /\ SameLife(s, u, m) /\ WaitIs(u, m)
  BY <1>2, CompletedIs DEF Elsewhere
<1> HIDE DEF u
<1>4. q \in Watched
  BY <1>3 DEF Watched
<1>5. /\ q.now = u.now /\ q.lived = u.lived /\ q.life = u.life /\ q.timers = u.timers
      /\ q.clock = u.clock /\ q.handle = u.handle
      /\ q.stats = [u.stats EXCEPT ![m] = None] /\ q.state = [u.state EXCEPT ![m] = "ended"]
  BY <1>3 DEF Watched
<1> HIDE DEF q
<1>6. /\ q.state[m] = "ended" /\ q.stats[m] = None
      /\ \A o \in Members \ {m} : q.state[o] = u.state[o] /\ q.stats[o] = u.stats[o]
  BY <1>3, <1>5 DEF Watched
<1>7. Elsewhere(u, q, m) /\ WaitSame(u, q, m)
  BY <1>4, <1>5, <1>6 DEF Elsewhere, WaitSame, Timers
<1>8. LifeIs(q, m)
  BY <1>1, <1>2, <1>3, <1>5, <1>6 DEF LifeIs, SameLife, Watch!WatchAssumption
<1> QED BY <1>1, <1>3, <1>7, <1>8, ElsewhereAgain, WaitStays, OthersStay

LEMMA KilledKeeps ==
    ASSUME WatchIs(s), Watch!WatchAssumption, NEW m \in Members, Watch!Killed(m)
    PROVE  WatchIs(s')
<1> DEFINE u == Watch!Cancelled(s, m)
           q == [u EXCEPT !.state[m] = "ended", !.killed = u.killed \cup {m},
                   !.waiting = u.waiting \ {m}]
<1>1. s.state[m] \in {"idle", "run"} /\ s' = q
  BY DEF Watch!Killed
<1>2. s \in Watched /\ WaitIs(s, m) /\ LifeIs(s, m)
  BY DEF WatchIs
<1>3. u \in Watched /\ Elsewhere(s, u, m) /\ SameLife(s, u, m) /\ WaitIs(u, m)
  BY <1>2, CancelledIs DEF Elsewhere
<1> HIDE DEF u
<1>4. q \in Watched
  <2>1. u.killed \cup {m} \in SUBSET Members /\ u.waiting \ {m} \in SUBSET Members
    BY <1>3 DEF Watched
  <2>2. [u.state EXCEPT ![m] = "ended"] \in [Members -> {None, "idle", "run", "ended"}]
    BY <1>3 DEF Watched
  <2> QED BY <1>3, <2>1, <2>2 DEF Watched
<1>5. /\ q.now = u.now /\ q.lived = u.lived /\ q.life = u.life /\ q.timers = u.timers
      /\ q.clock = u.clock /\ q.handle = u.handle /\ q.stats = u.stats
      /\ q.state = [u.state EXCEPT ![m] = "ended"]
  BY <1>3 DEF Watched
<1> HIDE DEF q
<1>6. q.state[m] = "ended" /\ \A o \in Members \ {m} : q.state[o] = u.state[o]
  BY <1>3, <1>5 DEF Watched
<1>7. Elsewhere(u, q, m) /\ WaitSame(u, q, m)
  BY <1>4, <1>5, <1>6 DEF Elsewhere, WaitSame, Timers
<1>8. LifeIs(q, m)
  BY <1>1, <1>2, <1>3, <1>5, <1>6 DEF LifeIs, SameLife, Watch!WatchAssumption
<1> QED BY <1>1, <1>3, <1>7, <1>8, ElsewhereAgain, WaitStays, OthersStay

LEMMA AsksKeeps ==
    ASSUME WatchIs(s), NEW m \in Members, Watch!Asks(m) \/ Watch!Answered(m)
    PROVE  WatchIs(s')
<1>1. PICK waits \in SUBSET Members : s' = [s EXCEPT !.waiting = waits]
  <2>1. s.waiting \cup {m} \in SUBSET Members /\ s.waiting \ {m} \in SUBSET Members
    BY DEF WatchIs, Watched
  <2> QED BY <2>1 DEF Watch!Asks, Watch!Answered
<1> DEFINE q == [s EXCEPT !.waiting = waits]
<1>2. s \in Watched /\ WaitIs(s, m) /\ LifeIs(s, m)
  BY DEF WatchIs
<1>3. q \in Watched
  BY <1>2 DEF Watched
<1>4. /\ q.now = s.now /\ q.lived = s.lived /\ q.life = s.life /\ q.timers = s.timers
      /\ q.clock = s.clock /\ q.handle = s.handle /\ q.stats = s.stats /\ q.state = s.state
  BY <1>2 DEF Watched
<1>5. s' = q
  BY <1>1
<1> HIDE DEF q
<1>6. Elsewhere(s, q, m) /\ WaitSame(s, q, m) /\ SameLife(s, q, m)
  BY <1>3, <1>4 DEF Elsewhere, WaitSame, SameLife, Timers
<1> QED BY <1>2, <1>5, <1>6, WaitStays, LifeStays, OthersStay

\* One look at a child that runs: a wait is noted when it is found and taken off when it
\* is found to be over.
Look(x, y, now, waits) ==
    /\ y \in Watch!Stats /\ y.start = x.start /\ y.life = x.life /\ StatsAre(y, now + 1)
    /\ Waited(y, now + 1) = IF waits THEN Waited(x, now) + 1 ELSE Waited(x, now)
    /\ y.nudged => x.nudged \/ (~waits /\ (now + 1) - y.start - Waited(x, now) > Limit)

LEMMA MeasuredIs ==
    ASSUME NEW x \in Watch!Stats, NEW now \in Nat, now < Ticks, StatsAre(x, now), Ticks \in Nat,
           Limit \in Nat, Starts \in Nat, NEW waits
    PROVE  Look(x, Watch!Measured(x, now + 1, waits), now, waits)
<1> DEFINE noted == IF x.since = 0 THEN now + 1 ELSE x.since
           a == [x EXCEPT !.since = noted]
           p == x.paused + (IF x.since = 0 THEN 0 ELSE (now + 1) - x.since)
           n == x.nudged \/ (x.start # 0 /\ (now + 1) - x.start - p > Limit)
           e == [x EXCEPT !.paused = p, !.since = 0, !.nudged = n]
           got == Watch!Measured(x, now + 1, waits)
<1>1. /\ x.start \in 0..Ticks /\ x.paused \in 0..Ticks /\ x.since \in 0..Ticks
      /\ x.nudged \in BOOLEAN /\ x.life \in 1..Starts /\ x.start \in 1..now /\ x.since <= now
      /\ x.paused <= now /\ (x.since # 0 => x.paused <= x.since)
  BY DEF Watch!Stats, StatsAre
<1>2. CASE waits
  <2>1. got = a
    BY <1>2 DEF Watch!Measured
  <2>2. noted \in 0..Ticks /\ noted # 0 /\ noted <= now + 1 /\ x.paused <= noted
    BY <1>1
  <2>3. Waited(x, now) + 1 = x.paused + now + 1 - noted + 1
    BY <1>1 DEF Waited
  <2> HIDE DEF noted
  <2>4. /\ a \in Watch!Stats /\ a.start = x.start /\ a.life = x.life /\ a.nudged = x.nudged
        /\ a.since = noted /\ a.paused = x.paused
    BY <2>2 DEF Watch!Stats
  <2> HIDE DEF a, got
  <2>5. StatsAre(a, now + 1) /\ Waited(a, now + 1) = Waited(x, now) + 1
    BY <1>1, <2>2, <2>3, <2>4 DEF StatsAre, Waited
  <2> HIDE DEF got
  <2>6. got = Watch!Measured(x, now + 1, waits)
    BY DEF got
  <2>7. Look(x, a, now, waits)
    BY <1>2, <2>4, <2>5 DEF Look
  <2> QED BY <2>1, <2>6, <2>7
<1>3. CASE ~waits
  <2>1. got = e
    <3>1. got = IF waits THEN a ELSE e
      BY DEF Watch!Measured
    <3> HIDE DEF got, a, e
    <3> QED BY <1>3, <3>1
  <2>2. p \in 0..Ticks /\ p = Waited(x, now) /\ p <= now + 1
    BY <1>1 DEF Waited
  <2> HIDE DEF p
  <2>3. n \in BOOLEAN
    BY <1>1, Zenon
  <2>4. n => x.nudged \/ (now + 1) - x.start - Waited(x, now) > Limit
    <3>1. n => x.nudged \/ (now + 1) - x.start - p > Limit
      OBVIOUS
    <3> QED BY <2>2, <3>1
  <2> HIDE DEF n
  <2>5. e.start = x.start /\ e.life = x.life /\ e.since = 0 /\ e.paused = p
    BY DEF Watch!Stats
  <2>6. e.nudged = n
    BY DEF Watch!Stats
  <2>7. e \in Watch!Stats
    <3>1. [x EXCEPT !.paused = p] \in Watch!Stats
      BY <2>2 DEF Watch!Stats
    <3> DEFINE u == [x EXCEPT !.paused = p]
               v == [u EXCEPT !.since = 0]
    <3>2. u \in Watch!Stats
      BY <3>1
    <3> HIDE DEF u
    <3>3. v \in Watch!Stats
      BY <1>1, <3>2 DEF Watch!Stats
    <3> HIDE DEF v
    <3>4. [v EXCEPT !.nudged = n] \in Watch!Stats
      BY <2>3, <3>3 DEF Watch!Stats
    <3>5. e = [v EXCEPT !.nudged = n]
      BY DEF u, v
    <3> QED BY <3>4, <3>5
  <2> HIDE DEF e
  <2>8. StatsAre(e, now + 1) /\ Waited(e, now + 1) = Waited(x, now)
    BY <1>1, <2>2, <2>5 DEF StatsAre, Waited
  <2> HIDE DEF got
  <2>9. got = Watch!Measured(x, now + 1, waits)
    BY DEF got
  <2>10. Look(x, e, now, waits)
    BY <1>3, <2>4, <2>5, <2>6, <2>7, <2>8 DEF Look
  <2> QED BY <2>1, <2>9, <2>10
<1> QED BY <1>2, <1>3


\* A tick takes every child that is running further.
LEMMA TickKeeps ==
    ASSUME WatchIs(s), Watch!WatchAssumption, Watch!Tick
    PROVE  WatchIs(s')
<1> DEFINE stats == [m \in Members |->
                       IF Watch!Observed(s, m)
                       THEN Watch!Measured(s.stats[m], s.now + 1, m \in s.waiting)
                       ELSE s.stats[m]]
           still(m) == \/ s.stats[m] = None \/ s.stats[m].start = 0 \/ s.state[m] = "ended"
                       \/ (s.state[m] = "run" /\ m \in s.waiting)
           lived == [m \in Members |-> IF still(m) THEN s.lived[m] ELSE s.lived[m] + 1]
           q == [s EXCEPT !.now = s.now + 1, !.stats = stats, !.lived = lived]
<1>1. s.now < Ticks /\ s' = q
  BY DEF Watch!Tick
<1>2. /\ s \in Watched /\ s.now \in 1..Ticks /\ s.now + 1 \in 1..Ticks
      /\ Ticks \in Nat /\ Limit \in Nat /\ Starts \in Nat
  BY <1>1 DEF WatchIs, Watched, Watch!WatchAssumption
<1>3. ASSUME NEW m \in Members
      PROVE  /\ stats[m] \in {None} \cup Watch!Stats /\ lived[m] \in 0..Ticks
             /\ lived[m] <= s.now + 1
             /\ stats[m] # None =>
                 /\ StatsAre(stats[m], s.now + 1) /\ stats[m].life <= s.life[m]
                 /\ stats[m].life = s.life[m] =>
                     /\ s.state[m] # "ended" =>
                         lived[m] + Waited(stats[m], s.now + 1) >= (s.now + 1) - stats[m].start
                     /\ stats[m].nudged => lived[m] > Limit
  <2> DEFINE x == s.stats[m]
             y == Watch!Measured(x, s.now + 1, m \in s.waiting)
  <2>1. /\ LifeIs(s, m) /\ x \in {None} \cup Watch!Stats /\ s.lived[m] \in 0..Ticks
        /\ s.lived[m] <= s.now
    BY <1>2 DEF WatchIs, LifeIs, Watched
  <2>2. lived[m] = IF still(m) THEN s.lived[m] ELSE s.lived[m] + 1
    OBVIOUS
  <2>3. stats[m] = IF Watch!Observed(s, m) THEN y ELSE x
    OBVIOUS
  <2>4. lived[m] \in 0..Ticks /\ lived[m] <= s.now + 1
    <3> HIDE DEF lived, still
    <3> QED BY <1>1, <1>2, <2>1, <2>2
  <2>5. CASE x = None
    <3>1. stats[m] = None
      BY <2>3, <2>5 DEF Watch!Observed
    <3> QED BY <2>4, <3>1
  <2>6. CASE x # None
    <3>1. /\ x \in Watch!Stats /\ StatsAre(x, s.now) /\ x.life <= s.life[m] /\ x.start # 0
          /\ x.start \in Nat /\ Waited(x, s.now) \in Nat
          /\ x.life = s.life[m] =>
              /\ s.state[m] # "ended" =>
                  s.lived[m] + Waited(x, s.now) >= s.now - x.start
              /\ x.nudged => s.lived[m] > Limit
      BY <1>2, <2>1, <2>6 DEF LifeIs, StatsAre, Watch!Stats, Waited
    <3>2. still(m) <=> s.state[m] = "ended" \/ (s.state[m] = "run" /\ m \in s.waiting)
      BY <2>6, <3>1
    <3> HIDE DEF lived, still, stats
    <3>3. lived[m] >= s.lived[m] /\ lived[m] \in Nat /\ s.lived[m] \in Nat
      BY <2>1, <2>2
    <3>4. CASE ~Watch!Observed(s, m)
      <4>1. stats[m] = x /\ s.state[m] # "run"
        BY <2>3, <2>6, <3>4 DEF Watch!Observed
      <4>2. StatsAre(x, s.now + 1) /\ Waited(x, s.now + 1) >= Waited(x, s.now)
            /\ Waited(x, s.now + 1) \in Nat
        BY <1>2, <3>1 DEF StatsAre, Waited, Watch!Stats
      <4>3. s.state[m] # "ended" => lived[m] = s.lived[m] + 1
        BY <2>2, <3>2, <4>1
      <4> HIDE DEF x, y
      <4>4. x.life = s.life[m] /\ s.state[m] # "ended" =>
               lived[m] + Waited(x, s.now + 1) >= (s.now + 1) - x.start
        BY <1>2, <3>1, <3>3, <4>2, <4>3
      <4>5. x.life = s.life[m] /\ x.nudged => lived[m] > Limit
        BY <1>2, <3>1, <3>3
      <4> QED BY <2>4, <3>1, <4>1, <4>2, <4>4, <4>5
    <3>5. CASE Watch!Observed(s, m)
      <4>1. stats[m] = y /\ s.state[m] = "run"
        BY <2>3, <3>5 DEF Watch!Observed
      <4>2. Look(x, y, s.now, m \in s.waiting)
        BY <1>1, <1>2, <3>1, MeasuredIs
      <4> HIDE DEF x, y
      <4>3. lived[m] = IF m \in s.waiting THEN s.lived[m] ELSE s.lived[m] + 1
        BY <2>2, <3>2, <4>1
      <4>4. x.life = s.life[m] => s.lived[m] + Waited(x, s.now) >= s.now - x.start
        BY <3>1, <4>1
      <4>5. x.life = s.life[m] => lived[m] + Waited(y, s.now + 1) >= (s.now + 1) - y.start
        BY <1>2, <3>1, <3>3, <4>2, <4>3, <4>4 DEF Look
      <4>6. x.life = s.life[m] /\ y.nudged => lived[m] > Limit
        <5>1. CASE x.nudged
          BY <1>2, <3>1, <3>3, <5>1
        <5>2. CASE ~x.nudged
          BY <1>2, <3>1, <3>3, <4>2, <4>3, <4>4, <5>2 DEF Look
        <5> QED BY <5>1, <5>2
      <4> QED BY <2>4, <3>1, <4>1, <4>2, <4>5, <4>6 DEF Look
    <3> QED BY <3>4, <3>5
  <2> QED BY <2>5, <2>6
<1>4. /\ stats \in [Members -> {None} \cup Watch!Stats] /\ lived \in [Members -> 0..Ticks]
  BY <1>3
<1> HIDE DEF stats, lived
<1>5. q \in Watched
  BY <1>2, <1>4 DEF Watched
<1>6. /\ q.now = s.now + 1 /\ q.lived = lived /\ q.life = s.life /\ q.timers = s.timers
      /\ q.clock = s.clock /\ q.handle = s.handle /\ q.stats = stats /\ q.state = s.state
  BY <1>2 DEF Watched
<1> HIDE DEF q
<1>7. ASSUME NEW m \in Members PROVE WaitIs(q, m) /\ LifeIs(q, m)
  <2>1. WaitIs(s, m) /\ LifeIs(s, m)
    BY DEF WatchIs
  <2>2. WaitIs(q, m)
    BY <1>6, <2>1, WaitStays DEF WaitSame, Timers
  <2>3. LifeIs(q, m)
    BY <1>3, <1>6, <2>1 DEF LifeIs
  <2> QED BY <2>2, <2>3
<1> QED BY <1>1, <1>5, <1>7 DEF WatchIs

LEMMA WatchStep ==
    ASSUME WatchIs(s), Watch!WatchAssumption, Watch!Next
    PROVE  WatchIs(s')
BY TickKeeps, TimerFiresKeeps, SpawnKeeps, RunsKeeps, RestsKeeps, EndsKeeps, KilledKeeps,
   AsksKeeps DEF Watch!Next

LEMMA WatchStart ==
    ASSUME Watch!Init, Watch!WatchAssumption
    PROVE  WatchIs(s)
<1> DEFINE q == [now |-> 1, state |-> [m \in Members |-> None], life |-> [m \in Members |-> 0],
                 killed |-> {}, handle |-> [m \in Members |-> None],
                 clock |-> [m \in Members |-> None], timers |-> {},
                 stats |-> [m \in Members |-> None], waiting |-> {},
                 lived |-> [m \in Members |-> 0], told |-> {}]
<1>1. s = q
  BY DEF Watch!Init
<1>2. q \in Watched
  BY DEF Watched, Watch!WatchAssumption
<1>3. /\ q.now = 1 /\ q.timers = {} /\ q.handle = [m \in Members |-> None]
      /\ q.stats = [m \in Members |-> None] /\ q.lived = [m \in Members |-> 0]
      /\ q.state = [m \in Members |-> None]
  OBVIOUS
<1> HIDE DEF q
<1>4. ASSUME NEW m \in Members PROVE WaitIs(q, m) /\ LifeIs(q, m)
  BY <1>3 DEF WaitIs, LifeIs, Watch!Foreground, Timers
<1> QED BY <1>1, <1>2, <1>4 DEF WatchIs

\* A foreground wait has its own timer and no other, and a child is told that its time is
\* over only when it has lived it, waits for approvals taken off (pm/ProcessManager.ts): for
\* any children, times, limits and restarts under the same name.
THEOREM WatchTheorem == AgentsSpec => []ChildrenAreTimed
<1> DEFINE I == part = "watch" => WatchIs(s)
<1>0. Watch!WatchAssumption
  BY AgentsAssumption DEF AgentsAssumption
<1>1. AgentsInit => I
  BY <1>0, WatchStart DEF AgentsInit
<1>2. I /\ [AgentsNext]_vars => I'
  <2> SUFFICES ASSUME I, [AgentsNext]_vars, part' = "watch" PROVE WatchIs(s')
    OBVIOUS
  <2>1. CASE AgentsNext
    <3>1. Watch!Next /\ WatchIs(s)
      BY <2>1 DEF AgentsNext, LeaderStep
    <3> QED BY <1>0, <3>1, WatchStep
  <2>2. CASE UNCHANGED vars
    BY <2>2 DEF vars, rest
  <2> QED BY <2>1, <2>2
<1>3. I => ChildrenAreTimed
  <2> SUFFICES ASSUME WatchIs(s) PROVE Watch!ChildrenAreTimed
    BY DEF ChildrenAreTimed
  <2>1. Watch!TypeOK
    BY DEF WatchIs, Watched, Handles, Watch!TypeOK
  <2>2. Watch!WaitsHaveTheirTimer
    <3> SUFFICES ASSUME NEW m \in Members
                 PROVE  {<<x.life, x.due>> : x \in {y \in s.timers : y.child = m}} =
                        IF Watch!Foreground(s, m)
                        THEN {<<s.handle[m].life, s.handle[m].at + Wait>>} ELSE {}
      BY DEF Watch!WaitsHaveTheirTimer
    <3>1. WaitIs(s, m)
      BY DEF WatchIs
    <3>2. Timers(s, m) = {y \in s.timers : y.child = m}
      BY DEF Timers
    <3>3. CASE Watch!Foreground(s, m)
      <4>1. Timers(s, m) = {Timer(s, m)}
        BY <3>1, <3>3 DEF WaitIs
      <4>2. /\ Timer(s, m).life = s.handle[m].life
            /\ Timer(s, m).due = s.handle[m].at + Wait
        BY DEF Timer
      <4> QED BY <3>2, <3>3, <4>1, <4>2
    <3>4. CASE ~Watch!Foreground(s, m)
      BY <3>1, <3>2, <3>4 DEF WaitIs
    <3> QED BY <3>3, <3>4
  <2>3. Watch!NudgeIsDue
    BY DEF WatchIs, LifeIs, Watch!NudgeIsDue
  <2> QED BY <2>1, <2>2, <2>3 DEF Watch!ChildrenAreTimed
<1> QED BY <1>1, <1>2, <1>3, PTL DEF AgentsSpec

-----------------------------------------------------------------------------
(* The context that is rebuilt from the bus *)

ReplayFields == {"log", "head", "epoch", "mem", "disk", "due", "own"}
MemoryFields == {"facts", "decisions", "olds", "cursor", "epoch"}

\* The ring holds the last events, in order.
LogIs(v) ==
    /\ v.head \in Nat /\ Len(v.log) = IF v.head <= Ring THEN v.head ELSE Ring
    /\ v.log \in Seq(Nat)
    /\ \A i \in 1..Len(v.log) : v.log[i] = v.head - Len(v.log) + i - 1

\* A memory of this process is not ahead of it.
MemoryIs(v, memory) ==
    /\ MemoryFields \subseteq DOMAIN memory
    /\ IsFiniteSet(memory.facts) /\ memory.olds \in Nat
    /\ memory.epoch \in Nat /\ memory.epoch <= v.epoch /\ memory.cursor \in Nat
    /\ memory.epoch = v.epoch => memory.cursor <= v.head

\* What is to be recorded of an event is in the memory.
Has(memory, kind, i) ==
    /\ kind = "fact" => i \in memory.facts
    /\ kind \in {"said", "decided"} => i \in memory.decisions

\* The inductive invariant of the replay: what is to be recorded is in the memory, and
\* saved or behind the saved cursor.
ReplayIs(v) ==
    /\ ReplayFields \subseteq DOMAIN v
    /\ LogIs(v) /\ v.epoch \in Nat \ {0} /\ DOMAIN v.own = Replay!EventKinds
    /\ \A kind \in Replay!EventKinds : v.own[kind] \subseteq 0..(v.head - 1)
    /\ MemoryIs(v, v.mem) /\ MemoryIs(v, v.disk)
    /\ \A kind \in Replay!EventKinds : \A i \in v.own[kind] : Has(v.mem, kind, i)
    /\ v.disk.epoch = v.epoch =>
        \A kind \in Replay!EventKinds : \A i \in v.own[kind] :
            Has(v.disk, kind, i) \/ i >= v.disk.cursor

LEMMA PublishIs ==
    ASSUME NEW v, ReplayFields \subseteq DOMAIN v, LogIs(v), Ring \in Nat \ {0}
    PROVE  LET u == Replay!publish(v)
           IN  /\ DOMAIN u = DOMAIN v /\ LogIs(u) /\ u.head = v.head + 1
               /\ u.epoch = v.epoch /\ u.mem = v.mem /\ u.disk = v.disk /\ u.own = v.own
<1> DEFINE long == Append(v.log, v.head)
           log == IF Len(long) > Ring THEN Tail(long) ELSE long
           u == [v EXCEPT !.head = v.head + 1, !.log = log]
<1>1. Replay!publish(v) = u
  BY DEF Replay!publish
<1>2. /\ DOMAIN u = DOMAIN v /\ u.head = v.head + 1 /\ u.log = log
      /\ u.epoch = v.epoch /\ u.mem = v.mem /\ u.disk = v.disk /\ u.own = v.own
  BY DEF ReplayFields
<1>3. /\ v.log \in Seq(Nat) /\ v.head \in Nat /\ Len(v.log) \in Nat
      /\ Len(v.log) = IF v.head <= Ring THEN v.head ELSE Ring
      /\ \A i \in 1..Len(v.log) : v.log[i] = v.head - Len(v.log) + i - 1
  BY DEF LogIs
<1>4. /\ long \in Seq(Nat) /\ Len(long) = Len(v.log) + 1
      /\ \A i \in 1..Len(long) : long[i] = v.head - Len(v.log) + i - 1
  BY <1>3
<1> HIDE DEF long
<1>5. /\ log \in Seq(Nat) /\ Len(log) = IF v.head + 1 <= Ring THEN v.head + 1 ELSE Ring
      /\ \A i \in 1..Len(log) : log[i] = (v.head + 1) - Len(log) + i - 1
  <2>1. CASE Len(long) > Ring
    <3>1. log = Tail(long) /\ Len(v.log) = Ring
      BY <1>3, <1>4, <2>1
    <3>2. Tail(long) \in Seq(Nat) /\ Len(Tail(long)) = Ring
          /\ \A i \in 1..Ring : Tail(long)[i] = long[i + 1]
      BY <1>3, <1>4, <2>1, <3>1
    <3> HIDE DEF log
    <3>3. log \in Seq(Nat) /\ Len(log) = Ring /\ v.head >= Ring
      BY <1>3, <3>1, <3>2
    <3>4. ASSUME NEW i \in 1..Ring PROVE log[i] = (v.head + 1) - Ring + i - 1
      <4>1. log[i] = long[i + 1] /\ i + 1 \in 1..Len(long)
        <5>1. log[i] = long[i + 1]
          BY <3>1, <3>2
        <5>2. i + 1 \in 1..Len(long)
          <6>1. Len(long) = Ring + 1
            BY <1>4, <3>1
          <6> QED BY <6>1
        <5> QED BY <5>1, <5>2
      <4>2. long[i + 1] = v.head - Ring + (i + 1) - 1
        BY <1>4, <3>1, <4>1
      <4> QED BY <1>3, <4>1, <4>2
    <3> QED BY <1>3, <3>3, <3>4
  <2>2. CASE ~(Len(long) > Ring)
    <3>1. log = long
      BY <2>2
    <3> HIDE DEF log
    <3> QED BY <1>3, <1>4, <2>2, <3>1
  <2> QED BY <2>1, <2>2
<1> HIDE DEF u, log
<1>6. LogIs(u)
  BY <1>2, <1>3, <1>5 DEF LogIs
<1> QED BY <1>1, <1>2, <1>6

\* Both ways to stamp the memory.
LEMMA StampedIs ==
    ASSUME NEW v, ReplayFields \subseteq DOMAIN v, MemoryFields \subseteq DOMAIN v.mem
    PROVE  LET u == Replay!Stamped(v)
           IN  /\ DOMAIN u = DOMAIN v /\ DOMAIN u.mem = DOMAIN v.mem
               /\ u.mem.cursor = v.head /\ u.mem.epoch = v.epoch /\ u.mem.olds = v.mem.olds
               /\ u.mem.facts = v.mem.facts /\ u.mem.decisions = v.mem.decisions
               /\ u.log = v.log /\ u.head = v.head /\ u.epoch = v.epoch /\ u.disk = v.disk
               /\ u.own = v.own
BY DEF Replay!Stamped, ReplayFields, MemoryFields

\* What the secretary takes of an event.
LEMMA ObservedIs ==
    ASSUME NEW memory, MemoryFields \subseteq DOMAIN memory, NEW kind \in Replay!EventKinds, NEW i
    PROVE  LET u == Replay!Observed(memory, kind, i)
           IN  /\ DOMAIN u = DOMAIN memory /\ Has(u, kind, i)
               /\ u.cursor = memory.cursor /\ u.epoch = memory.epoch /\ u.olds = memory.olds
               /\ u.facts = memory.facts \/ u.facts = memory.facts \cup {i}
               /\ memory.decisions \subseteq u.decisions
<1>1. CASE kind = "fact"
  BY <1>1 DEF Replay!Observed, MemoryFields, Has
<1>2. CASE kind \in {"said", "decided"}
  BY <1>2 DEF Replay!Observed, MemoryFields, Has
<1>3. CASE kind \notin {"fact", "said", "decided"}
  <2>1. Replay!Observed(memory, kind, i) = memory
    BY <1>3 DEF Replay!Observed
  <2> QED BY <1>3, <2>1 DEF Has
<1> QED BY <1>1, <1>2, <1>3

LEMMA EmitKeeps ==
    ASSUME ReplayIs(b), Ring \in Nat \ {0}, Replay!Emit
    PROVE  ReplayIs(b')
<1>1. PICK kind \in Replay!EventKinds :
        LET v == [Replay!publish(b) EXCEPT !.own[kind] = @ \cup {b.head},
                                           !.mem = Replay!Observed(@, kind, b.head)]
        IN  b' = IF kind \in Replay!Saving THEN [Replay!Stamped(v) EXCEPT !.due = TRUE] ELSE v
  BY Zenon DEF Replay!Emit
<1> DEFINE p == Replay!publish(b)
           own == [p.own EXCEPT ![kind] = p.own[kind] \cup {b.head}]
           mem == Replay!Observed(p.mem, kind, b.head)
           v == [p EXCEPT !.own = own, !.mem = mem]
           t == Replay!Stamped(v)
           d == [t EXCEPT !.due = TRUE]
<1>2. b' = v \/ b' = d
  BY <1>1
<1>3. /\ ReplayFields \subseteq DOMAIN p /\ LogIs(p) /\ p.head = b.head + 1
      /\ p.epoch = b.epoch /\ p.mem = b.mem /\ p.disk = b.disk /\ p.own = b.own
  BY PublishIs DEF ReplayIs
<1> HIDE DEF p
<1>4. /\ MemoryFields \subseteq DOMAIN p.mem /\ b.head \in Nat
  BY <1>3 DEF ReplayIs, MemoryIs, LogIs
<1>5. /\ DOMAIN mem = DOMAIN b.mem /\ Has(mem, kind, b.head)
      /\ mem.cursor = b.mem.cursor /\ mem.epoch = b.mem.epoch /\ mem.olds = b.mem.olds
      /\ mem.facts = b.mem.facts \/ mem.facts = b.mem.facts \cup {b.head}
      /\ b.mem.decisions \subseteq mem.decisions
  BY <1>3, <1>4, ObservedIs
<1>6. /\ DOMAIN own = Replay!EventKinds /\ own[kind] = b.own[kind] \cup {b.head}
      /\ \A sort \in Replay!EventKinds \ {kind} : own[sort] = b.own[sort]
  BY <1>3 DEF ReplayIs
<1> HIDE DEF own, mem
<1>7. /\ ReplayFields \subseteq DOMAIN v /\ v.own = own /\ v.mem = mem
      /\ v.disk = b.disk /\ v.head = p.head /\ v.log = p.log /\ v.epoch = b.epoch
  BY <1>3 DEF ReplayFields
<1> HIDE DEF v
<1>8. ReplayIs(v)
  <2>1. LogIs(v)
    BY <1>3, <1>7 DEF LogIs
  <2>2. ASSUME NEW sort \in Replay!EventKinds, NEW i \in v.own[sort]
        PROVE  i \in b.own[sort] \/ (sort = kind /\ i = b.head)
    BY <1>6, <1>7, <2>2
  <2>3. ASSUME NEW sort \in Replay!EventKinds PROVE v.own[sort] \subseteq 0..(v.head - 1)
    <3>1. b.own[sort] \subseteq 0..(b.head - 1)
      BY DEF ReplayIs
    <3> QED BY <1>3, <1>4, <1>7, <2>2, <3>1
  <2>4. MemoryIs(v, v.mem)
    <3>1. IsFiniteSet(b.mem.facts) /\ MemoryIs(b, b.mem)
      BY DEF ReplayIs, MemoryIs
    <3>2. IsFiniteSet(mem.facts)
      BY <1>5, <3>1, FS_AddElement
    <3> QED BY <1>3, <1>4, <1>5, <1>7, <3>1, <3>2 DEF MemoryIs
  <2>5. MemoryIs(v, v.disk)
    BY <1>3, <1>4, <1>7 DEF ReplayIs, MemoryIs
  <2>6. ASSUME NEW sort \in Replay!EventKinds, NEW i \in v.own[sort] PROVE Has(v.mem, sort, i)
    <3>1. CASE i \in b.own[sort]
      <4>1. Has(b.mem, sort, i)
        BY <3>1 DEF ReplayIs
      <4> QED BY <1>5, <1>7, <4>1 DEF Has
    <3>2. CASE sort = kind /\ i = b.head
      BY <1>5, <1>7, <3>2
    <3> QED BY <2>2, <2>6, <3>1, <3>2
  <2>7. ASSUME v.disk.epoch = v.epoch, NEW sort \in Replay!EventKinds, NEW i \in v.own[sort]
        PROVE  Has(v.disk, sort, i) \/ i >= v.disk.cursor
    <3>1. CASE i \in b.own[sort]
      BY <1>7, <2>7, <3>1 DEF ReplayIs
    <3>2. CASE sort = kind /\ i = b.head
      BY <1>7, <2>7, <3>2 DEF ReplayIs, MemoryIs
    <3> QED BY <2>2, <2>7, <3>1, <3>2
  <2>8. v.epoch \in Nat \ {0} /\ DOMAIN v.own = Replay!EventKinds
    BY <1>6, <1>7 DEF ReplayIs
  <2> QED BY <1>7, <2>1, <2>3, <2>4, <2>5, <2>6, <2>7, <2>8 DEF ReplayIs
<1>9. /\ DOMAIN t = DOMAIN v /\ DOMAIN t.mem = DOMAIN v.mem
      /\ t.mem.cursor = v.head /\ t.mem.epoch = v.epoch /\ t.mem.olds = v.mem.olds
      /\ t.mem.facts = v.mem.facts /\ t.mem.decisions = v.mem.decisions
      /\ t.log = v.log /\ t.head = v.head /\ t.epoch = v.epoch /\ t.disk = v.disk
      /\ t.own = v.own
  <2>1. ReplayFields \subseteq DOMAIN v /\ MemoryFields \subseteq DOMAIN v.mem
    BY <1>8 DEF ReplayIs, MemoryIs
  <2> QED BY <2>1, StampedIs
<1> HIDE DEF t
<1>10. /\ DOMAIN d = DOMAIN v /\ d.mem = t.mem /\ d.log = t.log /\ d.head = t.head
       /\ d.epoch = t.epoch /\ d.disk = t.disk /\ d.own = t.own
  BY <1>7, <1>9 DEF ReplayFields
<1> HIDE DEF d
<1>11. ReplayIs(d)
  <2>1. LogIs(d)
    BY <1>8, <1>9, <1>10 DEF ReplayIs, LogIs
  <2>2. MemoryIs(d, d.mem)
    <3>1. MemoryIs(v, v.mem) /\ v.head \in Nat
      BY <1>8 DEF ReplayIs, LogIs
    <3>2. /\ DOMAIN d.mem = DOMAIN v.mem /\ d.mem.facts = v.mem.facts
          /\ d.mem.olds = v.mem.olds /\ d.mem.cursor = v.head /\ d.mem.epoch = v.epoch
          /\ d.head = v.head /\ d.epoch = v.epoch
      BY <1>9, <1>10
    <3>3. v.epoch \in Nat
      BY <1>8 DEF ReplayIs
    <3> QED BY <3>1, <3>2, <3>3 DEF MemoryIs
  <2>4. MemoryIs(d, d.disk)
    <3>1. MemoryIs(v, v.disk)
      BY <1>8 DEF ReplayIs
    <3>2. d.disk = v.disk /\ d.head = v.head /\ d.epoch = v.epoch
      BY <1>9, <1>10
    <3> QED BY <3>1, <3>2 DEF MemoryIs
  <2>3. \A sort \in Replay!EventKinds : \A i \in d.own[sort] : Has(d.mem, sort, i)
    BY <1>8, <1>9, <1>10 DEF ReplayIs, Has
  <2> QED BY <1>8, <1>9, <1>10, <2>1, <2>2, <2>3, <2>4 DEF ReplayIs
<1> QED BY <1>2, <1>8, <1>11

LEMMA OtherSpeaksKeeps ==
    ASSUME ReplayIs(b), Ring \in Nat \ {0}, Replay!OtherSpeaks
    PROVE  ReplayIs(b')
<1> DEFINE p == Replay!publish(b)
<1>1. b' = p
  BY DEF Replay!OtherSpeaks
<1>2. /\ ReplayFields \subseteq DOMAIN p /\ LogIs(p) /\ p.head = b.head + 1
      /\ p.epoch = b.epoch /\ p.mem = b.mem /\ p.disk = b.disk /\ p.own = b.own
  BY PublishIs DEF ReplayIs
<1> HIDE DEF p
<1>3. b.head \in Nat
  BY DEF ReplayIs, LogIs
<1>4. ASSUME NEW kind \in Replay!EventKinds PROVE p.own[kind] \subseteq 0..(p.head - 1)
  <2>1. b.own[kind] \subseteq 0..(b.head - 1)
    BY DEF ReplayIs
  <2> QED BY <1>2, <1>3, <2>1
<1>5. MemoryIs(p, p.mem) /\ MemoryIs(p, p.disk)
  BY <1>2, <1>3 DEF ReplayIs, MemoryIs
<1>6. ReplayIs(p)
  BY <1>2, <1>4, <1>5 DEF ReplayIs
<1> QED BY <1>1, <1>6


LEMMA SavesKeep ==
    ASSUME ReplayIs(b), Replay!SaveLater \/ Replay!Flush
    PROVE  ReplayIs(b')
<1>1. CASE Replay!SaveLater
  <2> DEFINE q == [b EXCEPT !.due = FALSE, !.disk = b.mem]
  <2>1. b' = q
    BY <1>1 DEF Replay!SaveLater
  <2>2. /\ DOMAIN q = DOMAIN b /\ q.disk = b.mem /\ q.mem = b.mem /\ q.log = b.log
        /\ q.head = b.head /\ q.epoch = b.epoch /\ q.own = b.own
    BY DEF ReplayIs, ReplayFields
  <2> HIDE DEF q
  <2>3. LogIs(q) /\ MemoryIs(q, b.mem)
    BY <2>2 DEF ReplayIs, MemoryIs, LogIs
  <2>4. ReplayIs(q)
    BY <2>2, <2>3 DEF ReplayIs
  <2> QED BY <2>1, <2>4
<1>2. CASE Replay!Flush
  <2> DEFINE t == Replay!Stamped(b)
             q == [t EXCEPT !.disk = t.mem]
  <2>1. b' = q
    BY <1>2 DEF Replay!Flush
  <2>2. /\ ReplayFields \subseteq DOMAIN b /\ MemoryFields \subseteq DOMAIN b.mem
    BY DEF ReplayIs, MemoryIs
  <2>3. /\ DOMAIN t = DOMAIN b /\ DOMAIN t.mem = DOMAIN b.mem
        /\ t.mem.cursor = b.head /\ t.mem.epoch = b.epoch /\ t.mem.olds = b.mem.olds
        /\ t.mem.facts = b.mem.facts /\ t.mem.decisions = b.mem.decisions
        /\ t.log = b.log /\ t.head = b.head /\ t.epoch = b.epoch /\ t.disk = b.disk
        /\ t.own = b.own
    BY <2>2, StampedIs
  <2> HIDE DEF t
  <2>4. /\ DOMAIN q = DOMAIN b /\ q.disk = t.mem /\ q.mem = t.mem /\ q.log = b.log
        /\ q.head = b.head /\ q.epoch = b.epoch /\ q.own = b.own
    BY <2>2, <2>3 DEF ReplayFields
  <2> HIDE DEF q
  <2>5. LogIs(q)
    BY <2>4 DEF ReplayIs, LogIs
  <2>6. MemoryIs(q, t.mem)
    BY <2>2, <2>3, <2>4 DEF ReplayIs, MemoryIs, LogIs
  <2>7. \A kind \in Replay!EventKinds : \A i \in b.own[kind] : Has(t.mem, kind, i)
    BY <2>3 DEF ReplayIs, Has
  <2>8. ReplayIs(q)
    BY <2>4, <2>5, <2>6, <2>7 DEF ReplayIs
  <2> QED BY <2>1, <2>8
<1> QED BY <1>1, <1>2

LEMMA ReplayCounts == \A S : Replay!Cardinality(S) = Cardinality(S)
BY Zenon DEF Replay!Cardinality, Cardinality

LEMMA NextProcessKeeps ==
    ASSUME ReplayIs(b), Ring \in Nat \ {0}, Replay!Restart
    PROVE  ReplayIs(b')
<1> DEFINE count == b.disk.olds + Replay!Cardinality(b.disk.facts)
           left == [b.disk EXCEPT !.facts = {}, !.decisions = {}, !.olds = count]
           none == [kind \in Replay!EventKinds |-> {}]
           q == [b EXCEPT !.log = <<>>, !.head = 0, !.epoch = b.epoch + 1, !.due = FALSE,
                   !.mem = left, !.disk = left, !.own = none]
<1>1. b' = q
  BY DEF Replay!Restart
<1>2. count \in Nat
  <2>1. IsFiniteSet(b.disk.facts) /\ b.disk.olds \in Nat
    BY DEF ReplayIs, MemoryIs
  <2>2. Cardinality(b.disk.facts) \in Nat
    BY <2>1, FS_CardinalityType
  <2> QED BY <2>1, <2>2, ReplayCounts
<1> HIDE DEF count
<1>3. /\ left.epoch = b.disk.epoch /\ left.cursor = b.disk.cursor /\ DOMAIN left = DOMAIN b.disk
      /\ left.facts = {} /\ left.olds = count
  BY DEF ReplayIs, MemoryIs, MemoryFields
<1> HIDE DEF left
<1>4. DOMAIN none = Replay!EventKinds /\ \A kind \in Replay!EventKinds : none[kind] = {}
  OBVIOUS
<1> HIDE DEF none
<1>5. /\ DOMAIN q = DOMAIN b /\ q.log = <<>> /\ q.head = 0 /\ q.epoch = b.epoch + 1
      /\ q.mem = left /\ q.disk = left /\ q.own = none
  BY DEF ReplayIs, ReplayFields
<1> HIDE DEF q
<1>6. LogIs(q)
  BY <1>5 DEF LogIs
<1>7. MemoryIs(q, left) /\ left.epoch # q.epoch /\ q.epoch \in Nat \ {0}
  <2>1. IsFiniteSet({})
    BY FS_EmptySet
  <2> QED BY <1>2, <1>3, <1>5, <2>1 DEF ReplayIs, MemoryIs
<1>8. ReplayIs(q)
  BY <1>4, <1>5, <1>6, <1>7 DEF ReplayIs
<1> QED BY <1>1, <1>8

\* The offsets of a ring with n events, of h.
Offsets(h, n) == {h - n + at - 1 : at \in 1..n}
LEMMA RingOffsets ==
    ASSUME NEW h \in Nat, NEW n \in Nat
    PROVE  Offsets(h, n) = (h - n)..(h - 1)
<1>1. ASSUME NEW i \in Offsets(h, n) PROVE i \in (h - n)..(h - 1)
  BY DEF Offsets
<1>2. ASSUME NEW i \in (h - n)..(h - 1) PROVE i \in Offsets(h, n)
  <2> DEFINE at == i - (h - n) + 1
  <2>1. at \in 1..n /\ i = h - n + at - 1
    OBVIOUS
  <2> HIDE DEF at
  <2> QED BY <2>1 DEF Offsets
<1> QED BY <1>1, <1>2

\* A smaller set has fewer members.
LEMMA ReplayFewer ==
    ASSUME NEW S, IsFiniteSet(S), NEW T \in SUBSET S, T # S
    PROVE  Cardinality(T) \in Nat /\ Cardinality(S) \in Nat /\ Cardinality(T) < Cardinality(S)
<1>1. /\ IsFiniteSet(T) /\ Cardinality(T) <= Cardinality(S)
      /\ Cardinality(S) = Cardinality(T) => S = T
  BY FS_Subset
<1>2. Cardinality(T) \in Nat /\ Cardinality(S) \in Nat
  BY <1>1, FS_CardinalityType
<1> QED BY <1>1, <1>2

\* What a context has of the log: what is behind the saved cursor, if the ring still has it.
Behind(v) ==
    {i \in Replay!Range(v.log) :
        i >= Replay!Cursor(v) /\ \E kind \in Replay!EventKinds : i \in v.own[kind]}
Gap(v) == v.log # <<>> /\ Replay!Cursor(v) < Head(v.log)
Lines(v) == {i \in Replay!Newest(Behind(v), Shown) : \E kind \in Replay!Listed : i \in v.own[kind]}

LEMMA ContextIs ==
    ASSUME NEW v, NEW top
    PROVE  /\ Replay!Context(v, top).shown =
                 top \cup Replay!Newest(v.disk.decisions, LastDecisions) \cup Lines(v)
           /\ Replay!Context(v, top).cut <=> Cardinality(Behind(v)) > Shown
           /\ Replay!Taken(v) <=> ~Gap(v)
<1> DEFINE got == Replay!getLog(v, Replay!Cursor(v))
<1>1. got = [entries |-> Behind(v), hasGap |-> Gap(v)]
  BY Zenon DEF Replay!getLog, Behind, Gap
<1>2. got.entries = Behind(v) /\ (got.hasGap <=> Gap(v))
  <2> DEFINE g == [entries |-> Behind(v), hasGap |-> Gap(v)]
  <2>1. g.entries = Behind(v) /\ g.hasGap = Gap(v)
    BY Zenon
  <2>2. got = g
    BY <1>1
  <2> HIDE DEF g, got
  <2> QED BY <2>1, <2>2, Zenon
<1> HIDE DEF got
<1> DEFINE news == top \cup Replay!Newest(v.disk.decisions, LastDecisions) \cup
                   {i \in Replay!Newest(got.entries, Shown) :
                        \E kind \in Replay!Listed : i \in v.own[kind]}
           many == Replay!Cardinality(got.entries) > Shown
           e == [shown |-> news, cut |-> many]
<1>3. Replay!Context(v, top) = e
  BY Zenon DEF Replay!Context, got
<1>4. e.shown = news /\ (e.cut <=> many)
  <2> HIDE DEF news, many
  <2> QED BY Zenon
<1>5. many <=> Cardinality(Behind(v)) > Shown
  BY <1>2, ReplayCounts
<1>6. news = top \cup Replay!Newest(v.disk.decisions, LastDecisions) \cup Lines(v)
  BY <1>2 DEF Lines
<1>7. Replay!Taken(v) <=> ~Gap(v)
  BY <1>2 DEF Replay!Taken, got
<1> HIDE DEF e, news, many
<1> QED BY <1>3, <1>4, <1>5, <1>6, <1>7

LEMMA RingIs ==
    ASSUME ReplayIs(b), Ring \in Nat \ {0}, b.disk.epoch = b.epoch
    PROVE  /\ Replay!Cursor(b) = b.disk.cursor /\ b.disk.cursor \in Nat /\ b.head \in Nat
           /\ b.disk.cursor <= b.head /\ b.head - b.disk.cursor <= Ring => ~Gap(b)
           /\ IsFiniteSet(Behind(b))
           /\ ~Gap(b) => \A i \in 0..(b.head - 1) :
                i >= b.disk.cursor => i \in Replay!Range(b.log)
<1> DEFINE cursor == b.disk.cursor
<1>1. /\ b.log \in Seq(Nat) /\ b.head \in Nat /\ cursor \in Nat /\ cursor <= b.head
      /\ Len(b.log) = IF b.head <= Ring THEN b.head ELSE Ring
      /\ \A i \in 1..Len(b.log) : b.log[i] = b.head - Len(b.log) + i - 1
  BY DEF ReplayIs, LogIs, MemoryIs
<1>2. Replay!Cursor(b) = cursor
  BY DEF Replay!Cursor
<1>3. Replay!Range(b.log) = (b.head - Len(b.log))..(b.head - 1)
  <2>1. Len(b.log) \in Nat /\ b.head \in Nat /\ DOMAIN b.log = 1..Len(b.log)
    BY <1>1
  <2>2. \A at \in 1..Len(b.log) : b.log[at] = b.head - Len(b.log) + at - 1
    BY <1>1
  <2>3. Replay!Range(b.log) = Offsets(b.head, Len(b.log))
    BY <2>1, <2>2 DEF Replay!Range, Offsets
  <2>4. Offsets(b.head, Len(b.log)) = (b.head - Len(b.log))..(b.head - 1)
    BY <2>1, RingOffsets
  <2> QED BY <2>3, <2>4
<1>4. IsFiniteSet(Behind(b))
  <2>1. IsFiniteSet((b.head - Len(b.log))..(b.head - 1))
    BY <1>1, FS_Interval
  <2>2. Behind(b) \subseteq (b.head - Len(b.log))..(b.head - 1)
    BY <1>3 DEF Behind
  <2> QED BY <2>1, <2>2, FS_Subset
<1>5. Gap(b) <=> b.log # <<>> /\ cursor < b.head - Len(b.log)
  <2>1. b.log # <<>> => Head(b.log) = b.head - Len(b.log)
    <3>1. b.log # <<>> => 1 \in 1..Len(b.log) /\ Head(b.log) = b.log[1]
      BY <1>1
    <3> QED BY <1>1, <3>1
  <2> QED BY <1>2, <2>1, Zenon DEF Gap
<1>6. b.head - cursor <= Ring => ~Gap(b)
  BY <1>1, <1>5
<1>7. ASSUME ~Gap(b), NEW i \in 0..(b.head - 1), i >= cursor PROVE i \in Replay!Range(b.log)
  <2>1. b.log # <<>> /\ Len(b.log) \in Nat
    BY <1>1, <1>7
  <2>2. cursor >= b.head - Len(b.log)
    BY <1>1, <1>5, <1>7, <2>1
  <2> QED BY <1>1, <1>3, <1>7, <2>1, <2>2
<1> QED BY <1>1, <1>2, <1>4, <1>6, <1>7

\* The context of a saved memory has the rest of what the agent did and was told, or the
\* log has lost the start of it.
LEMMA ReplayHolds ==
    ASSUME ReplayIs(b), Ring \in Nat \ {0}, Shown \in Nat \ {0}, TopFacts \in Nat
    PROVE  Replay!NothingSlips /\ Replay!GapIsReal
<1>1. Replay!GapIsReal
  <2> SUFFICES ASSUME b.disk.epoch = b.epoch, b.head - b.disk.cursor <= Ring
               PROVE  Replay!Taken(b)
    BY DEF Replay!GapIsReal
  <2> QED BY RingIs, ContextIs DEF ReplayIs, MemoryIs
<1>2. ASSUME b.disk.epoch = b.epoch, Replay!Taken(b), NEW top \in Replay!Tops(b.disk),
             NEW kind \in Replay!EventKinds, NEW i \in b.own[kind]
      PROVE  \/ i \in Replay!Context(b, top).shown \/ Replay!Context(b, top).cut
             \/ Replay!Unsaid(b, top, kind, i)
  <2>1. /\ ~Gap(b) /\ Replay!Cursor(b) = b.disk.cursor /\ b.disk.cursor \in Nat
        /\ IsFiniteSet(Behind(b)) /\ b.head \in Nat
    BY <1>2, RingIs, ContextIs
  <2>2. i \in 0..(b.head - 1) /\ (Has(b.disk, kind, i) \/ i >= b.disk.cursor)
    BY <1>2 DEF ReplayIs
  <2>3. ASSUME i >= b.disk.cursor, kind \in Replay!Listed, ~Replay!Context(b, top).cut
        PROVE  i \in Replay!Context(b, top).shown
    <3>1. i \in Behind(b)
      BY <1>2, <2>1, <2>2, <2>3, RingIs DEF Behind
    <3> DEFINE more == {n \in Behind(b) : n > i}
    <3>2. more \in SUBSET Behind(b) /\ more # Behind(b)
      <4>1. i \in Nat
        BY <2>2
      <4> QED BY <3>1, <4>1
    <3> HIDE DEF more
    <3>3. /\ Cardinality(more) \in Nat /\ Cardinality(Behind(b)) \in Nat
          /\ Cardinality(more) < Cardinality(Behind(b))
      BY <2>1, <3>2, ReplayFewer
    <3>4. ~(Cardinality(Behind(b)) > Shown)
      BY <2>3, ContextIs
    <3>5. Cardinality(more) < Shown
      BY <3>3, <3>4
    <3>6. i \in Replay!Newest(Behind(b), Shown)
      BY <3>1, <3>5, ReplayCounts DEF Replay!Newest, more
    <3>7. i \in Lines(b)
      BY <1>2, <2>3, <3>6 DEF Lines
    <3> QED BY <3>7, ContextIs
  <2>4. CASE kind = "noise"
    BY <2>4 DEF Replay!Unsaid
  <2>5. CASE kind \in {"call", "plain"}
    <3>1. kind \notin Replay!Recorded /\ kind \in Replay!Listed
      BY <2>5 DEF Replay!Recorded, Replay!Listed
    <3>2. i >= b.disk.cursor \/ i < b.disk.cursor
      BY <2>1, <2>2
    <3> QED BY <2>3, <3>1, <3>2 DEF Replay!Unsaid
  <2>6. CASE kind = "fact"
    <3>1. CASE i >= b.disk.cursor
      <4>1. kind \in Replay!Listed
        BY <2>6 DEF Replay!Listed
      <4> QED BY <2>3, <3>1, <4>1
    <3>2. CASE i \in b.disk.facts /\ i \notin top
      <4>1. /\ top \in SUBSET b.disk.facts /\ top # b.disk.facts
            /\ top = b.disk.facts
                 \/ Replay!Cardinality(top) + b.disk.olds >= TopFacts
        BY <1>2, <3>2 DEF Replay!Tops
      <4>2. IsFiniteSet(b.disk.facts) /\ b.disk.olds \in Nat
        BY DEF ReplayIs, MemoryIs
      <4>3. /\ Cardinality(top) \in Nat /\ Cardinality(b.disk.facts) \in Nat
            /\ Cardinality(top) < Cardinality(b.disk.facts)
        BY <4>1, <4>2, ReplayFewer
      <4>4. Cardinality(top) + b.disk.olds >= TopFacts
        BY <4>1, ReplayCounts
      <4>5. Cardinality(b.disk.facts) + b.disk.olds > TopFacts
        BY <4>2, <4>3, <4>4
      <4>6. Replay!Cardinality(b.disk.facts) + b.disk.olds > TopFacts
        BY <4>5, ReplayCounts
      <4> QED BY <3>2, <4>6 DEF Replay!Unsaid
    <3>3. CASE i \in top
      BY <3>3, ContextIs
    <3> QED BY <2>2, <2>6, <3>1, <3>2, <3>3 DEF Has
  <2>7. CASE kind \in {"said", "decided"}
    <3>1. CASE i \in b.disk.decisions
      <4>1. i \in Replay!Newest(b.disk.decisions, LastDecisions) =>
                i \in Replay!Context(b, top).shown
        BY ContextIs
      <4> QED BY <3>1, <4>1 DEF Replay!Unsaid
    <3>2. CASE i >= b.disk.cursor
      <4>1. CASE kind = "decided"
        BY <3>2, <4>1 DEF Replay!Unsaid
      <4>2. CASE kind = "said"
        <5>1. kind \in Replay!Listed
          BY <4>2 DEF Replay!Listed
        <5> QED BY <2>3, <3>2, <5>1
      <4> QED BY <2>7, <4>1, <4>2
    <3> QED BY <2>2, <2>7, <3>1, <3>2 DEF Has
  <2> QED BY <2>4, <2>5, <2>6, <2>7 DEF Replay!EventKinds
<1>3. Replay!NothingSlips
  BY <1>2 DEF Replay!NothingSlips
<1> QED BY <1>1, <1>3

LEMMA ReplayStep ==
    ASSUME ReplayIs(b), Ring \in Nat \ {0}, Replay!Next
    PROVE  ReplayIs(b')
BY EmitKeeps, OtherSpeaksKeeps, SavesKeep, NextProcessKeeps DEF Replay!Next

LEMMA ReplayStart ==
    ASSUME Replay!Init, Ring \in Nat \ {0}
    PROVE  ReplayIs(b)
<1>1. /\ ReplayFields \subseteq DOMAIN b /\ b.log = <<>> /\ b.head = 0 /\ b.epoch = 1
      /\ b.mem = Replay!NoMemory /\ b.disk = Replay!NoMemory
      /\ b.own = [kind \in Replay!EventKinds |-> {}]
  BY DEF Replay!Init, ReplayFields
<1>2. LogIs(b)
  BY <1>1 DEF LogIs
<1>3. /\ MemoryFields \subseteq DOMAIN Replay!NoMemory /\ Replay!NoMemory.epoch = 0
      /\ Replay!NoMemory.cursor = 0 /\ Replay!NoMemory.olds = 0 /\ Replay!NoMemory.facts = {}
  BY DEF MemoryFields, Replay!NoMemory
<1>4. MemoryIs(b, Replay!NoMemory)
  BY <1>1, <1>3, FS_EmptySet DEF MemoryIs
<1>5. DOMAIN b.own = Replay!EventKinds /\ \A kind \in Replay!EventKinds : b.own[kind] = {}
  BY <1>1
<1> QED BY <1>1, <1>2, <1>3, <1>4, <1>5 DEF ReplayIs

-----------------------------------------------------------------------------
(* The trace *)

TraceFields ==
    {"mode", "known", "entries", "file", "seen", "ended", "saved", "lost", "died"}
Roles == {"pm", "leader", "worker", "secretary", "user", "system"}
Deeds ==
    {"agent.spawn", "task.result", "ctx.provide", "tool.result", "agent.done",
     "exception.report", "task.fail"}
Envelopes == [from : Roles, to : Roles, cmd : Deeds, n : Nat]
Numbers(log) == {e.n : e \in Trace!Range(log)}

\* A trace in order, of events seen, on routes of the mode.
Traced(v, log) ==
    /\ log \in Seq(Envelopes)
    /\ \A x \in 1..Len(log) :
        log[x].n <= v.seen /\ Trace!validateRoute(v.mode, log[x].from, log[x].to, log[x].cmd)
    /\ \A x \in 1..Len(log) : \A y \in 1..(x - 1) : log[y].n < log[x].n

\* The inductive invariant of the trace.
TraceIs(v) ==
    /\ TraceFields \subseteq DOMAIN v /\ v.seen \in Nat
    /\ v.known \subseteq DOMAIN Role
    /\ \A a \in v.known : Parent[a] # None => Parent[a] \in v.known
    /\ Traced(v, v.entries) /\ v.file \in Seq(Envelopes) /\ Len(v.file) <= Len(v.entries)
    /\ \A x \in 1..Len(v.file) : v.file[x] = v.entries[x]
    /\ v.saved \subseteq Numbers(v.file) /\ v.ended \subseteq Numbers(v.entries)

LEMMA RoleIs ==
    ASSUME NEW v, v.known \subseteq DOMAIN Role, Trace!TraceAssumption, NEW a
    PROVE  /\ Trace!roleOf(v, a) \in Roles
           /\ a \in v.known => Trace!roleOf(v, a) = Role[a]
           /\ a = None => Trace!roleOf(v, a) = "system"
           /\ a \in DOMAIN Role => Role[a] \in Roles
<1>1. \A x \in DOMAIN Role : Role[x] \in {"pm", "leader", "worker", "secretary"}
  BY DEF Trace!TraceAssumption, Trace!Range
<1> QED BY <1>1 DEF Trace!roleOf, Roles, Trace!TraceAssumption, Trace!Staff

\* The types of the events, and what an ending tells whom.
Types == {"spawn", "message", "tool.result", "agent.done", "agent.error", "notified", "failed"}

LEMMA EnvelopeIs ==
    ASSUME NEW v, v.known \subseteq DOMAIN Role, Trace!TraceAssumption, NEW a \in DOMAIN Role,
           NEW to, NEW type \in Types
    PROVE  LET e == Trace!Envelope(v, type, a, to)
           IN  e.from \in Roles /\ e.to \in Roles /\ e.cmd \in Deeds
<1>1. \A x : Trace!roleOf(v, x) \in Roles
  BY RoleIs
<1>2. Role[a] \in Roles
  BY RoleIs
<1>3. CASE type = "spawn"
  BY <1>1, <1>2, <1>3 DEF Trace!Envelope, Deeds, Roles
<1>4. CASE type = "message"
  BY <1>1, <1>4 DEF Trace!Envelope, Deeds, Roles
<1>5. CASE type = "tool.result"
  BY <1>1, <1>5 DEF Trace!Envelope, Deeds, Roles
<1>6. CASE type = "agent.done"
  BY <1>1, <1>6 DEF Trace!Envelope, Deeds, Roles
<1>7. CASE type = "agent.error"
  BY <1>1, <1>7 DEF Trace!Envelope, Deeds, Roles
<1>8. CASE type = "notified"
  BY <1>1, <1>8 DEF Trace!Envelope, Deeds, Roles
<1>9. CASE type = "failed"
  BY <1>1, <1>9 DEF Trace!Envelope, Deeds, Roles
<1> QED BY <1>3, <1>4, <1>5, <1>6, <1>7, <1>8, <1>9 DEF Types

\* Every ending of an agent that reports has a route.
LEMMA EndingHasRoute ==
    ASSUME NEW v, v.known \subseteq DOMAIN Role, Trace!TraceAssumption, NEW a \in v.known,
           Parent[a] # None => Parent[a] \in v.known, NEW to, NEW type \in Trace!Endings,
           type \in {"notified", "failed"} => Parent[a] # None, Trace!Reports(v, a)
    PROVE  LET e == Trace!Envelope(v, type, a, to)
           IN  Trace!validateRoute(v.mode, e.from, e.to, e.cmd)
<1> DEFINE cmd == IF type = "agent.done" THEN "agent.done"
                  ELSE IF type = "agent.error" THEN "exception.report"
                  ELSE IF type = "notified" THEN "task.result" ELSE "task.fail"
           e == Trace!Envelope(v, type, a, to)
<1>1. e.from = Trace!roleOf(v, a) /\ e.to = Trace!roleOf(v, Parent[a]) /\ e.cmd = cmd
  <2>1. CASE type = "agent.done"
    BY <2>1 DEF Trace!Envelope
  <2>2. CASE type = "agent.error"
    BY <2>2 DEF Trace!Envelope
  <2>3. CASE type = "notified"
    BY <2>3 DEF Trace!Envelope
  <2>4. CASE type = "failed"
    BY <2>4 DEF Trace!Envelope
  <2> QED BY <2>1, <2>2, <2>3, <2>4 DEF Trace!Endings
<1>2. e.from = Role[a]
  BY <1>1, RoleIs
<1>3. cmd \in {"agent.done", "exception.report", "task.result", "task.fail"}
  OBVIOUS
<1>4. CASE Parent[a] = None
  <2>1. e.to = "system"
    BY <1>1, <1>4, RoleIs
  <2>2. cmd \in {"agent.done", "exception.report"}
    BY <1>4 DEF Trace!Endings
  <2> HIDE DEF cmd, e
  <2>3. Trace!Table(e.from, e.to, e.cmd)
    BY <1>1, <2>1, <2>2 DEF Trace!Table, Trace!TO_SYSTEM
  <2> QED BY <2>3 DEF Trace!validateRoute, e
<1>5. CASE Parent[a] # None
  <2>1. e.to = Role[Parent[a]]
    BY <1>1, <1>5, RoleIs
  <2>2. \/ <<e.from, e.to>> \in {<<"worker", "leader">>, <<"leader", "pm">>}
        \/ v.mode = "adaptive" /\ <<e.from, e.to>> = <<"worker", "pm">>
    BY <1>2, <1>5, <2>1 DEF Trace!Reports
  <2> HIDE DEF cmd, e
  <2>3. CASE <<e.from, e.to>> = <<"worker", "leader">>
    <3>1. Trace!Table(e.from, e.to, e.cmd)
      BY <1>1, <1>3, <2>3 DEF Trace!Table, Trace!WORKER_TO_LEADER
    <3> QED BY <3>1 DEF Trace!validateRoute, e
  <2>4. CASE <<e.from, e.to>> = <<"leader", "pm">>
    <3>1. e.cmd \in Trace!LEADER_TO_PM
      BY <1>1, <1>3 DEF Trace!LEADER_TO_PM, Trace!WORKER_TO_LEADER
    <3>2. Trace!Table(e.from, e.to, e.cmd)
      BY <2>4, <3>1 DEF Trace!Table
    <3> QED BY <3>2 DEF Trace!validateRoute, e
  <2>5. CASE v.mode = "adaptive" /\ <<e.from, e.to>> = <<"worker", "pm">>
    <3>1. e.cmd \in Trace!WORKER_TO_LEADER
      BY <1>1, <1>3 DEF Trace!WORKER_TO_LEADER
    <3>2. Trace!validateRoute(v.mode, e.from, e.to, e.cmd)
      BY <2>5, <3>1 DEF Trace!validateRoute
    <3> QED BY <3>2 DEF e
  <2> QED BY <2>2, <2>3, <2>4, <2>5
<1> QED BY <1>4, <1>5

\* No route goes around the leader.
LEMMA NoRouteAround ==
    ASSUME NEW mode, NEW from, NEW to, NEW cmd, Trace!validateRoute(mode, from, to, cmd)
    PROVE  /\ <<from, to>> # <<"worker", "user">>
           /\ <<from, to>> = <<"worker", "pm">> => mode = "adaptive"
<1>1. \A x, y : <<from, to>> = <<x, y>> <=> from = x /\ to = y
  OBVIOUS
<1> QED BY <1>1 DEF Trace!validateRoute, Trace!Table


\* What was in the trace is in a longer one.
LEMMA NumbersGrow ==
    ASSUME NEW log \in Seq(Envelopes), NEW e \in Envelopes
    PROVE  /\ Numbers(log) \subseteq Numbers(Append(log, e)) /\ e.n \in Numbers(Append(log, e))
<1> DEFINE q == Append(log, e)
<1>1. /\ q \in Seq(Envelopes) /\ Len(q) = Len(log) + 1 /\ Len(log) \in Nat /\ q[Len(log) + 1] = e
      /\ \A x \in 1..Len(log) : q[x] = log[x]
  OBVIOUS
<1> HIDE DEF q
<1>2. DOMAIN log = 1..Len(log) /\ DOMAIN q = 1..(Len(log) + 1)
  BY <1>1
<1>3. ASSUME NEW m \in Numbers(log) PROVE m \in Numbers(q)
  <2>1. PICK x \in DOMAIN log : m = log[x].n
    BY DEF Numbers, Trace!Range
  <2>2. x \in DOMAIN q /\ q[x] = log[x]
    BY <1>1, <1>2, <2>1
  <2> QED BY <2>1, <2>2 DEF Numbers, Trace!Range
<1>4. e.n \in Numbers(q)
  <2>1. Len(log) + 1 \in DOMAIN q
    BY <1>1, <1>2
  <2> QED BY <1>1, <2>1 DEF Numbers, Trace!Range
<1> QED BY <1>3, <1>4 DEF q

LEMMA TracedMore ==
    ASSUME NEW v, NEW log, Traced(v, log), v.seen \in Nat, NEW e \in Envelopes, e.n = v.seen,
           \A x \in 1..Len(log) : log[x].n < v.seen,
           Trace!validateRoute(v.mode, e.from, e.to, e.cmd)
    PROVE  Traced(v, Append(log, e))
<1> DEFINE q == Append(log, e)
<1>1. log \in Seq(Envelopes) /\ \A x \in 1..Len(log) : log[x] \in Envelopes
  BY DEF Traced
<1>2. /\ q \in Seq(Envelopes) /\ Len(q) = Len(log) + 1 /\ Len(log) \in Nat /\ q[Len(log) + 1] = e
      /\ \A x \in 1..Len(log) : q[x] = log[x]
  BY <1>1
<1> HIDE DEF q
<1>3. ASSUME NEW x \in 1..Len(q)
      PROVE  /\ q[x].n <= v.seen
             /\ Trace!validateRoute(v.mode, q[x].from, q[x].to, q[x].cmd)
             /\ \A y \in 1..(x - 1) : q[y].n < q[x].n
  <2>1. CASE x \in 1..Len(log)
    <3>1. q[x] = log[x] /\ \A y \in 1..(x - 1) : y \in 1..Len(log) /\ q[y] = log[y]
      BY <1>2, <2>1
    <3> QED BY <2>1, <3>1 DEF Traced
  <2>2. CASE x = Len(log) + 1
    <3>1. q[x] = e /\ \A y \in 1..(x - 1) : y \in 1..Len(log) /\ q[y] = log[y]
      BY <1>2, <2>2
    <3> QED BY <3>1
  <2> QED BY <1>2, <2>1, <2>2
<1>4. Traced(v, q)
  BY <1>2, <1>3 DEF Traced
<1> QED BY <1>4 DEF q

LEMMA AppendIs ==
    ASSUME NEW v, TraceIs(v), \A x \in 1..Len(v.entries) : v.entries[x].n < v.seen, NEW env,
           env.from \in Roles, env.to \in Roles, env.cmd \in Deeds, NEW fails \in BOOLEAN
    PROVE  LET u == Trace!append(v, env, fails)
           IN  /\ TraceIs(u) /\ DOMAIN u = DOMAIN v /\ u.seen = v.seen /\ u.known = v.known
               /\ u.mode = v.mode /\ u.ended = v.ended
               /\ Trace!validateRoute(v.mode, env.from, env.to, env.cmd) =>
                    v.seen \in Numbers(u.entries)
<1> DEFINE valid == Trace!validateRoute(v.mode, env.from, env.to, env.cmd)
           e == [from |-> env.from, to |-> env.to, cmd |-> env.cmd, n |-> v.seen]
           log == Append(v.entries, e)
           u == [v EXCEPT !.entries = log]
           a == [u EXCEPT !.lost = u.lost + 1]
           z == [u EXCEPT !.file = u.entries,
                          !.saved = u.saved \cup {x.n : x \in Trace!Range(u.entries)}]
<1>1. CASE ~valid
  BY <1>1 DEF Trace!append
<1>2. CASE valid
  <2>1. Trace!append(v, env, fails) = a \/ Trace!append(v, env, fails) = z
    BY <1>2 DEF Trace!append
  <2>2. /\ e \in Envelopes /\ e.n = v.seen /\ e.from = env.from /\ e.to = env.to
        /\ e.cmd = env.cmd
    BY DEF Envelopes, TraceIs
  <2> HIDE DEF e
  <2>3. v.entries \in Seq(Envelopes)
    BY DEF TraceIs, Traced
  <2>4. Traced(v, log)
    BY <1>2, <2>2, TracedMore DEF TraceIs
  <2>5. Numbers(v.entries) \subseteq Numbers(log) /\ v.seen \in Numbers(log)
    BY <2>2, <2>3, NumbersGrow
  <2>6. /\ log \in Seq(Envelopes) /\ Len(log) = Len(v.entries) + 1 /\ Len(v.entries) \in Nat
        /\ \A x \in 1..Len(v.entries) : log[x] = v.entries[x]
    BY <2>2, <2>3
  <2> HIDE DEF log
  <2>7. /\ DOMAIN u = DOMAIN v /\ u.entries = log /\ u.seen = v.seen /\ u.known = v.known
        /\ u.mode = v.mode /\ u.ended = v.ended /\ u.file = v.file /\ u.saved = v.saved
    BY DEF TraceIs, TraceFields
  <2> HIDE DEF u
  <2>8. /\ DOMAIN a = DOMAIN v /\ a.entries = log /\ a.seen = v.seen /\ a.known = v.known
        /\ a.mode = v.mode /\ a.ended = v.ended /\ a.file = v.file /\ a.saved = v.saved
    BY <2>7 DEF TraceIs, TraceFields
  <2>9. /\ DOMAIN z = DOMAIN v /\ z.entries = log /\ z.seen = v.seen /\ z.known = v.known
        /\ z.mode = v.mode /\ z.ended = v.ended /\ z.file = log
        /\ z.saved = v.saved \cup Numbers(log)
    BY <2>7 DEF TraceIs, TraceFields, Numbers
  <2> HIDE DEF a, z
  <2>10. TraceIs(a)
    <3>1. Traced(a, a.entries)
      BY <2>4, <2>8 DEF Traced
    <3>2. a.file \in Seq(Envelopes) /\ Len(a.file) <= Len(a.entries)
          /\ \A x \in 1..Len(a.file) : a.file[x] = a.entries[x]
      <4>1. /\ v.file \in Seq(Envelopes) /\ Len(v.file) <= Len(v.entries)
            /\ \A x \in 1..Len(v.file) : v.file[x] = v.entries[x]
        BY DEF TraceIs
      <4>2. Len(v.file) \in Nat
        BY <4>1
      <4> QED BY <2>6, <2>8, <4>1, <4>2
    <3> QED BY <2>5, <2>8, <3>1, <3>2 DEF TraceIs
  <2>11. TraceIs(z)
    <3>1. Traced(z, z.entries)
      BY <2>4, <2>9 DEF Traced
    <3>2. z.saved \subseteq Numbers(z.file)
      <4>1. v.saved \subseteq Numbers(v.entries)
        <5>1. ASSUME NEW m \in Numbers(v.file) PROVE m \in Numbers(v.entries)
          <6>1. PICK x \in DOMAIN v.file : m = v.file[x].n
            BY DEF Numbers, Trace!Range
          <6>2. /\ v.file \in Seq(Envelopes) /\ Len(v.file) <= Len(v.entries)
                /\ \A y \in 1..Len(v.file) : v.file[y] = v.entries[y]
            BY DEF TraceIs
          <6>3. x \in DOMAIN v.entries /\ v.entries[x] = v.file[x]
            BY <2>3, <6>2
          <6> QED BY <6>1, <6>3 DEF Numbers, Trace!Range
        <5> QED BY <5>1 DEF TraceIs
      <4> QED BY <2>5, <2>9, <4>1
    <3>3. /\ z.file \in Seq(Envelopes) /\ Len(z.file) <= Len(z.entries)
          /\ \A x \in 1..Len(z.file) : z.file[x] = z.entries[x]
      BY <2>6, <2>9
    <3> QED BY <2>5, <2>9, <3>1, <3>2, <3>3 DEF TraceIs
  <2>12. CASE Trace!append(v, env, fails) = a
    BY <2>5, <2>8, <2>10, <2>12
  <2>13. CASE Trace!append(v, env, fails) = z
    BY <2>5, <2>9, <2>11, <2>13
  <2> QED BY <2>1, <2>12, <2>13
<1> QED BY <1>1, <1>2


LEMMA ObserveKeeps ==
    ASSUME TraceIs(j), Trace!TraceAssumption, NEW type \in Types, NEW a \in DOMAIN Role, NEW to,
           NEW fails \in BOOLEAN, Trace!Observe(type, a, to, fails),
           type = "spawn" => Parent[a] \in j.known,
           type \in Trace!Endings => a \in j.known,
           type \in {"notified", "failed"} => Parent[a] # None
    PROVE  TraceIs(j')
<1> DEFINE v == [j EXCEPT !.seen = j.seen + 1]
           env == Trace!Envelope(v, type, a, to)
           u == Trace!append(v, env, fails)
           known == IF type = "spawn" THEN u.known \cup {a} ELSE u.known
           ends == type \in Trace!Endings /\ Trace!Reports(v, a)
           ended == IF ends THEN u.ended \cup {v.seen} ELSE u.ended
           q == [u EXCEPT !.known = known, !.ended = ended]
<1>1. j' = q
  BY DEF Trace!Observe
<1>2. /\ DOMAIN v = DOMAIN j /\ v.seen = j.seen + 1 /\ v.known = j.known
      /\ v.entries = j.entries /\ v.mode = j.mode /\ v.ended = j.ended /\ v.file = j.file
      /\ v.saved = j.saved
  BY DEF TraceIs, TraceFields
<1> HIDE DEF v
<1>3. /\ TraceIs(v) /\ \A x \in 1..Len(v.entries) : v.entries[x].n < v.seen
  <2>1. \A x \in 1..Len(v.entries) : v.entries[x].n <= j.seen /\ v.entries[x].n \in Nat
    <3>1. v.entries \in Seq(Envelopes) /\ \A x \in 1..Len(v.entries) : v.entries[x].n <= j.seen
      BY <1>2 DEF TraceIs, Traced
    <3>2. \A x \in 1..Len(v.entries) : v.entries[x] \in Envelopes
      BY <3>1
    <3> QED BY <3>1, <3>2 DEF Envelopes
  <2>2. j.seen \in Nat
    BY DEF TraceIs
  <2>3. Traced(v, v.entries)
    BY <1>2, <2>1, <2>2 DEF TraceIs, Traced
  <2> QED BY <1>2, <2>1, <2>2, <2>3 DEF TraceIs
<1>4. /\ v.known \subseteq DOMAIN Role
      /\ \A x \in v.known : Parent[x] # None => Parent[x] \in v.known
  BY <1>3 DEF TraceIs
<1>5. env.from \in Roles /\ env.to \in Roles /\ env.cmd \in Deeds
  BY <1>4, EnvelopeIs
<1>6. ends => Trace!validateRoute(v.mode, env.from, env.to, env.cmd)
  BY <1>2, <1>4, EndingHasRoute
<1> HIDE DEF env
<1>7. /\ TraceIs(u) /\ DOMAIN u = DOMAIN v /\ u.seen = v.seen /\ u.known = v.known
      /\ u.mode = v.mode /\ u.ended = v.ended
      /\ ends => v.seen \in Numbers(u.entries)
  BY <1>3, <1>5, <1>6, AppendIs
<1> HIDE DEF u, ends
<1>8. /\ known \subseteq DOMAIN Role
      /\ \A x \in known : Parent[x] # None => Parent[x] \in known
  BY <1>2, <1>4, <1>7
<1>9. ended \subseteq Numbers(u.entries)
  BY <1>7 DEF TraceIs
<1> HIDE DEF known, ended
<1>10. /\ DOMAIN q = DOMAIN u /\ q.seen = u.seen /\ q.known = known /\ q.entries = u.entries
       /\ q.mode = u.mode /\ q.ended = ended /\ q.file = u.file /\ q.saved = u.saved
  BY <1>7 DEF TraceIs, TraceFields
<1> HIDE DEF q
<1>11. Traced(q, q.entries)
  BY <1>7, <1>10 DEF TraceIs, Traced
<1>12. TraceIs(q)
  BY <1>7, <1>8, <1>9, <1>10, <1>11 DEF TraceIs
<1> QED BY <1>1, <1>12

LEMMA EventKeeps ==
    ASSUME TraceIs(j), Trace!TraceAssumption, NEW fails \in BOOLEAN, Trace!Event(fails)
    PROVE  TraceIs(j')
<1>1. j.known \subseteq DOMAIN Role
  BY DEF TraceIs
<1>2. ASSUME NEW a \in DOMAIN Role, Parent[a] \in j.known, Trace!Observe("spawn", a, None, fails)
      PROVE  TraceIs(j')
  <2>1. "spawn" \in Types /\ "spawn" \notin Trace!Endings /\ "spawn" \notin {"notified", "failed"}
    BY DEF Types, Trace!Endings
  <2> QED BY <1>2, <2>1, ObserveKeeps
<1>3. ASSUME NEW a \in j.known, NEW to, Trace!Observe("message", a, to, fails)
      PROVE  TraceIs(j')
  <2>1. /\ "message" \in Types /\ "message" \notin Trace!Endings
        /\ "message" \notin {"notified", "failed"} /\ "message" # "spawn"
    BY DEF Types, Trace!Endings
  <2> QED BY <1>1, <1>3, <2>1, ObserveKeeps
<1>4. ASSUME NEW a \in j.known, NEW type \in {"tool.result", "agent.done", "agent.error"},
             Trace!Observe(type, a, None, fails)
      PROVE  TraceIs(j')
  <2>1. type \in Types /\ type # "spawn" /\ type \notin {"notified", "failed"}
    BY DEF Types
  <2> QED BY <1>1, <1>4, <2>1, ObserveKeeps
<1>5. ASSUME NEW a \in j.known, NEW type \in {"notified", "failed"}, Parent[a] # None,
             Trace!Observe(type, a, None, fails)
      PROVE  TraceIs(j')
  <2>1. type \in Types /\ type # "spawn"
    BY DEF Types
  <2> QED BY <1>1, <1>5, <2>1, ObserveKeeps
<1> QED BY <1>1, <1>2, <1>3, <1>4, <1>5 DEF Trace!Event, Trace!Staff

\* What a new process loads is what was saved.
LEMMA ReloadKeeps ==
    ASSUME TraceIs(j), Trace!TraceAssumption, Trace!Restart
    PROVE  TraceIs(j')
<1> DEFINE roots == {a \in Trace!Staff : Parent[a] = None}
           q == [j EXCEPT !.entries = j.file, !.known = roots, !.ended = {}, !.died = j.died + 1]
<1>1. j' = q
  BY DEF Trace!Restart
<1>2. roots \subseteq DOMAIN Role /\ \A a \in roots : Parent[a] = None
  BY DEF Trace!Staff
<1> HIDE DEF roots
<1>3. /\ DOMAIN q = DOMAIN j /\ q.seen = j.seen /\ q.known = roots /\ q.entries = j.file
      /\ q.mode = j.mode /\ q.ended = {} /\ q.file = j.file /\ q.saved = j.saved
  BY DEF TraceIs, TraceFields
<1> HIDE DEF q
<1>4. /\ j.file \in Seq(Envelopes) /\ Len(j.file) <= Len(j.entries)
      /\ \A x \in 1..Len(j.file) : j.file[x] = j.entries[x]
      /\ Len(j.file) \in Nat /\ Len(j.entries) \in Nat
  <2>1. j.file \in Seq(Envelopes) /\ j.entries \in Seq(Envelopes)
    BY DEF TraceIs, Traced
  <2> QED BY <2>1 DEF TraceIs
<1>5. Traced(q, j.file)
  <2>1. ASSUME NEW x \in 1..Len(j.file)
        PROVE  /\ j.file[x].n <= q.seen
               /\ Trace!validateRoute(q.mode, j.file[x].from, j.file[x].to, j.file[x].cmd)
               /\ \A y \in 1..(x - 1) : j.file[y].n < j.file[x].n
    <3>1. x \in 1..Len(j.entries) /\ j.file[x] = j.entries[x]
          /\ \A y \in 1..(x - 1) : j.file[y] = j.entries[y]
      BY <1>4
    <3> QED BY <1>3, <3>1 DEF TraceIs, Traced
  <2> QED BY <1>4, <2>1 DEF Traced
<1>6. TraceIs(q)
  BY <1>2, <1>3, <1>4, <1>5 DEF TraceIs
<1> QED BY <1>1, <1>6

LEMMA TraceStep ==
    ASSUME TraceIs(j), Trace!TraceAssumption, Trace!Next
    PROVE  TraceIs(j')
BY EventKeeps, ReloadKeeps DEF Trace!Next

LEMMA TraceStart ==
    ASSUME Trace!Init
    PROVE  TraceIs(j)
<1>1. PICK mode \in {"hierarchical", "adaptive"} :
        j = [mode |-> mode, known |-> {a \in Trace!Staff : Parent[a] = None}, entries |-> <<>>,
             file |-> <<>>, seen |-> 0, ended |-> {}, saved |-> {}, lost |-> 0, died |-> 0]
  BY DEF Trace!Init
<1>2. /\ TraceFields \subseteq DOMAIN j /\ j.seen = 0 /\ j.known \subseteq DOMAIN Role
      /\ \A a \in j.known : Parent[a] = None
  BY <1>1 DEF TraceFields, Trace!Staff
<1>3. j.entries = <<>> /\ j.file = <<>> /\ j.ended = {} /\ j.saved = {}
  BY <1>1
<1>4. Traced(j, j.entries)
  BY <1>3 DEF Traced
<1> QED BY <1>2, <1>3, <1>4 DEF TraceIs

LEMMA TraceHolds ==
    ASSUME TraceIs(j)
    PROVE  Trace!TraceIsKept
<1>1. Trace!EndsAreTraced
  BY DEF TraceIs, Numbers, Trace!EndsAreTraced
<1>2. /\ j.file \in Seq(Envelopes) /\ j.entries \in Seq(Envelopes)
      /\ Len(j.file) <= Len(j.entries) /\ \A x \in 1..Len(j.file) : j.file[x] = j.entries[x]
      /\ \A x \in 1..Len(j.entries) : \A y \in 1..(x - 1) : j.entries[y].n < j.entries[x].n
  BY DEF TraceIs, Traced
<1>3. Trace!SavedStays
  <2>1. j.saved \subseteq {e.n : e \in Trace!Range(j.file)}
    BY DEF TraceIs, Numbers
  <2>2. \A x \in DOMAIN j.file : x \in DOMAIN j.entries /\ j.file[x] = j.entries[x]
    BY <1>2
  <2>3. DOMAIN j.entries = 1..Len(j.entries)
    BY <1>2
  <2> QED BY <1>2, <2>1, <2>2, <2>3 DEF Trace!SavedStays
<1>4. Trace!NoDetour
  <2> SUFFICES ASSUME NEW e \in Trace!Range(j.entries)
               PROVE  /\ <<e.from, e.to>> # <<"worker", "user">>
                      /\ <<e.from, e.to>> = <<"worker", "pm">> => j.mode = "adaptive"
    BY DEF Trace!NoDetour
  <2>1. PICK x \in DOMAIN j.entries : e = j.entries[x]
    BY DEF Trace!Range
  <2>2. Trace!validateRoute(j.mode, e.from, e.to, e.cmd)
    BY <1>2, <2>1 DEF TraceIs, Traced
  <2> QED BY <2>2, NoRouteAround
<1> QED BY <1>1, <1>3, <1>4 DEF Trace!TraceIsKept

-----------------------------------------------------------------------------
(* The calls of tools *)

CallFields ==
    {"record", "tasked", "used", "queue", "asked", "told", "listed", "running", "calls",
     "effects", "granted", "denied", "killed", "deaths", "again", "mixed"}
Orders == {"look", "rm"}
Calling == [by : Workers, id : Calls!AllIds, command : Orders, claim : BOOLEAN, n : Nat]
Notes == [command : Orders, status : {"pending", "completed", "uncertain"}]

\* What has been issued.
IsCall(calls, x) == x \in Calling /\ x.n \in 1..Len(calls) /\ calls[x.n] = x
Numbered(calls) ==
    /\ calls \in Seq(Calling) /\ Len(calls) <= Issued
    /\ \A n \in 1..Len(calls) : calls[n].n = n /\ calls[n].id \in CallIds[calls[n].by]
Noted(calls, record) ==
    /\ record \in [Workers -> [Calls!AllIds -> {None} \cup Notes]]
    /\ \A n \in 1..Len(calls) : record[calls[n].by][calls[n].id] # None

\* What waits for its turn, and what is under way: with its id, if nobody was asked.
Queued(calls, queue) ==
    /\ queue \in [Workers -> Seq(Calling)]
    /\ \A a \in Workers : \A i \in 1..Len(queue[a]) :
        /\ IsCall(calls, queue[a][i]) /\ queue[a][i].by = a /\ queue[a][i].command = "look"
        /\ \A o \in 1..Len(queue[a]) : o # i => queue[a][o].n # queue[a][i].n
Named(x) ==
    ~x.call.claim => (x.call.command = "look" /\ x.named = TRUE)
                       \/ (x.call.command = "rm" /\ x.named = FALSE)
Started(calls, running) ==
    /\ running \subseteq [call : Calling, named : BOOLEAN]
    /\ \A x \in running : IsCall(calls, x.call) /\ Named(x)

\* What a leader has read of it is asked for, if it does not share its approval.
Asked(calls, told, asked, killed, listed, mixed) ==
    /\ told \subseteq Calling /\ listed \subseteq Calling
    /\ \A x \in told : IsCall(calls, x) /\ x.command = "rm"
    /\ \A x, y \in told : x.id = y.id => x = y \/ x.n \in mixed
    /\ DOMAIN asked = Calls!AllIds
    /\ \A i \in Calls!AllIds : asked[i] # None => asked[i] \in told /\ asked[i].id = i
    /\ \A x \in told : x.by \notin killed /\ x.n \notin mixed => asked[x.id] = x
    /\ \A x \in listed : IsCall(calls, x) /\ x.claim

\* Effects of calls that the user was not asked for.
UnderWay(running, n) == \E x \in running : x.call.n = n
IsQueued(queue, n) == \E a \in Workers : \E i \in 1..Len(queue[a]) : queue[a][i].n = n
\* A call of this id has been approved.
Approved(calls, granted, id) ==
    \E m \in 1..Len(calls) : calls[m].id = id /\ granted[m] > 0
EarnedBy(calls, effects, granted, running, queue, mixed, n) ==
    /\ effects[n] \in Nat /\ granted[n] \in Nat
    /\ calls[n].command = "look" =>
        /\ effects[n] <= 1
        /\ UnderWay(running, n) \/ IsQueued(queue, n) => effects[n] = 0
        /\ ~(UnderWay(running, n) /\ IsQueued(queue, n))
    /\ calls[n].command = "rm" =>
        /\ n \in mixed \/ effects[n] + (IF UnderWay(running, n) THEN 1 ELSE 0) <= granted[n]
        /\ effects[n] > 0 \/ UnderWay(running, n) => Approved(calls, granted, calls[n].id)
Earned(calls, effects, granted, running, queue, mixed) ==
    /\ DOMAIN effects = 1..Issued /\ DOMAIN granted = 1..Issued
    /\ \A n \in 1..Len(calls) : granted[n] \in Nat
    /\ \A n \in (Len(calls) + 1)..Issued : effects[n] = 0 /\ granted[n] = 0
    /\ \A n \in 1..Len(calls) :
        ~calls[n].claim => EarnedBy(calls, effects, granted, running, queue, mixed, n)

\* The calls of one worker under one id, none of them shown to the user.
Own(calls, a, id, n) == n \in 1..Len(calls) /\ calls[n].by = a /\ calls[n].id = id
Looks(calls, a, id, n) == Own(calls, a, id, n) /\ calls[n].command = "look"
Unclaimed(calls, a, id) == \A n \in 1..Len(calls) : Own(calls, a, id, n) => ~calls[n].claim
IsOpen(running, queue, told, n) ==
    UnderWay(running, n) \/ IsQueued(queue, n) \/ \E x \in told : x.n = n
OnceFor(calls, effects, running, queue, told, record, killed, a, id) ==
    /\ \A m, n : Own(calls, a, id, m) /\ Own(calls, a, id, n) /\ IsOpen(running, queue, told, m)
                    /\ IsOpen(running, queue, told, n) => m = n
    /\ \A m, n : Looks(calls, a, id, m) /\ Looks(calls, a, id, n) /\ effects[m] > 0 =>
            ~UnderWay(running, n) /\ (effects[n] > 0 => m = n)
    /\ \A m : Looks(calls, a, id, m) /\ effects[m] > 0 =>
            record[a][id].status # "pending" \/ a \in killed
Single(calls, effects, running, queue, told, record, killed, again) ==
    \A a \in Workers : \A id \in CallIds[a] : Unclaimed(calls, a, id) /\ <<a, id>> \notin again =>
        OnceFor(calls, effects, running, queue, told, record, killed, a, id)

\* The inductive invariant of the calls.
CallsAre(v) ==
    /\ CallFields \subseteq DOMAIN v
    /\ Numbered(v.calls) /\ Noted(v.calls, v.record) /\ Queued(v.calls, v.queue)
    /\ Started(v.calls, v.running) /\ Asked(v.calls, v.told, v.asked, v.killed, v.listed, v.mixed)
    /\ Earned(v.calls, v.effects, v.granted, v.running, v.queue, v.mixed)
    /\ Single(v.calls, v.effects, v.running, v.queue, v.told, v.record, v.killed, v.again)


\* What is recorded gets no weaker.
Stronger(old, new) ==
    /\ new \in [Workers -> [Calls!AllIds -> {None} \cup Notes]]
    /\ \A a \in Workers : \A id \in Calls!AllIds :
        /\ old[a][id] # None => new[a][id] # None
        /\ new[a][id] # None /\ new[a][id].status = "pending" => new[a][id] = old[a][id]

LEMMA IdsOfWorkers ==
    ASSUME NEW a \in Workers, NEW id \in CallIds[a]
    PROVE  id \in Calls!AllIds
BY DEF Calls!AllIds

LEMMA KeptNotes ==
    ASSUME NEW calls, NEW old, NEW new, Numbered(calls), Noted(calls, old), Stronger(old, new)
    PROVE  Noted(calls, new)
<1>1. ASSUME NEW n \in 1..Len(calls) PROVE new[calls[n].by][calls[n].id] # None
  <2>1. calls[n] \in Calling
    BY DEF Numbered
  <2>2. calls[n].by \in Workers /\ calls[n].id \in Calls!AllIds
    BY <2>1 DEF Calling
  <2> QED BY <2>2 DEF Noted, Stronger
<1> QED BY <1>1 DEF Noted, Stronger

\* A run that ends or is cut off may have had its effect.
Cut(calls, effects, running, effects2, running2) ==
    /\ running2 \subseteq running /\ DOMAIN effects2 = DOMAIN effects
    /\ \A n \in (Len(calls) + 1)..Issued : effects2[n] = effects[n]
    /\ \A n \in 1..Len(calls) : ~calls[n].claim =>
        \/ effects2[n] = effects[n]
        \/ effects2[n] = effects[n] + 1 /\ UnderWay(running, n) /\ ~UnderWay(running2, n)
Fewer(queue, queue2) ==
    \A a \in Workers : \A i \in 1..Len(queue2[a]) :
        \E o \in 1..Len(queue[a]) : queue2[a][i] = queue[a][o]

LEMMA FewerQueued ==
    ASSUME NEW queue, NEW queue2, Fewer(queue, queue2), NEW n, IsQueued(queue2, n)
    PROVE  IsQueued(queue, n)
BY DEF Fewer, IsQueued

LEMMA FewerUnderWay ==
    ASSUME NEW running, NEW running2 \in SUBSET running, NEW n, UnderWay(running2, n)
    PROVE  UnderWay(running, n)
BY DEF UnderWay

\* Approvals are counted, never taken back.
Approvals(calls, granted, granted2) ==
    /\ DOMAIN granted2 = DOMAIN granted
    /\ \A n \in (Len(calls) + 1)..Issued : granted2[n] = granted[n]
    /\ \A n \in 1..Len(calls) : granted2[n] \in Nat /\ granted2[n] >= granted[n]

LEMMA ApprovedStays ==
    ASSUME NEW calls, NEW granted, NEW granted2, \A n \in 1..Len(calls) : granted[n] \in Nat,
           Approvals(calls, granted, granted2), NEW id, Approved(calls, granted, id)
    PROVE  Approved(calls, granted2, id)
<1>1. PICK m \in 1..Len(calls) : calls[m].id = id /\ granted[m] > 0
  BY DEF Approved
<1>2. granted2[m] \in Nat /\ granted2[m] >= granted[m] /\ granted[m] \in Nat
  BY DEF Approvals
<1>3. granted2[m] > 0
  BY <1>1, <1>2
<1> QED BY <1>1, <1>3 DEF Approved

LEMMA EarnedCut ==
    ASSUME NEW calls, NEW effects, NEW granted, NEW running, NEW queue, NEW effects2,
           NEW granted2, NEW running2, NEW queue2, NEW mixed,
           Earned(calls, effects, granted, running, queue, mixed),
           Approvals(calls, granted, granted2),
           Cut(calls, effects, running, effects2, running2), Fewer(queue, queue2)
    PROVE  Earned(calls, effects2, granted2, running2, queue2, mixed)
<1>1. ASSUME NEW n \in 1..Len(calls), ~calls[n].claim
      PROVE  EarnedBy(calls, effects2, granted2, running2, queue2, mixed, n)
  <2>1. EarnedBy(calls, effects, granted, running, queue, mixed, n)
    BY <1>1 DEF Earned
  <2>2. \/ effects2[n] = effects[n]
        \/ effects2[n] = effects[n] + 1 /\ UnderWay(running, n) /\ ~UnderWay(running2, n)
    BY <1>1 DEF Cut
  <2>3. UnderWay(running2, n) => UnderWay(running, n)
    BY FewerUnderWay DEF Cut
  <2>4. IsQueued(queue2, n) => IsQueued(queue, n)
    BY FewerQueued
  <2>5. effects2[n] \in Nat /\ granted[n] \in Nat /\ effects[n] \in Nat
    BY <2>1, <2>2 DEF EarnedBy
  <2>6. granted2[n] \in Nat /\ granted2[n] >= granted[n]
    BY <1>1 DEF Approvals
  <2>9. Approved(calls, granted, calls[n].id) => Approved(calls, granted2, calls[n].id)
    BY ApprovedStays DEF Earned
  <2>7. CASE calls[n].command = "look"
    BY <2>1, <2>2, <2>3, <2>4, <2>5, <2>6, <2>7 DEF EarnedBy
  <2>8. CASE calls[n].command # "look"
    <3>1. ASSUME calls[n].command = "rm"
          PROVE  n \in mixed
                   \/ effects2[n] + (IF UnderWay(running2, n) THEN 1 ELSE 0) <= granted2[n]
      BY <2>1, <2>2, <2>3, <2>5, <2>6, <3>1 DEF EarnedBy
    <3>2. ASSUME calls[n].command = "rm", effects2[n] > 0 \/ UnderWay(running2, n)
          PROVE  Approved(calls, granted2, calls[n].id)
      BY <2>1, <2>2, <2>3, <2>5, <2>9, <3>2 DEF EarnedBy
    <3> QED BY <2>5, <2>6, <2>8, <3>1, <3>2 DEF EarnedBy
  <2> QED BY <2>7, <2>8
<1>2. /\ DOMAIN effects2 = 1..Issued /\ DOMAIN granted2 = 1..Issued
      /\ \A n \in 1..Len(calls) : granted2[n] \in Nat
      /\ \A n \in (Len(calls) + 1)..Issued : effects2[n] = 0 /\ granted2[n] = 0
  BY DEF Earned, Cut, Approvals
<1> QED BY <1>1, <1>2 DEF Earned

Drops(queue, queue2, x) ==
    \/ queue2[x] = <<>>
    \/ queue2[x] = queue[x]
    \/ (queue[x] # <<>> /\ queue2[x] = Tail(queue[x]))

LEMMA QueuedFewer ==
    ASSUME NEW calls, NEW queue, NEW queue2, Queued(calls, queue),
           DOMAIN queue2 = Workers, queue2 = [x \in Workers |-> queue2[x]],
           \A x \in Workers : Drops(queue, queue2, x)
    PROVE  Queued(calls, queue2) /\ Fewer(queue, queue2)
<1>1. queue \in [Workers -> Seq(Calling)]
  BY DEF Queued
<1>2. ASSUME NEW x \in Workers
      PROVE  /\ queue2[x] \in Seq(Calling)
             /\ \/ queue2[x] = queue[x]
                \/ /\ Len(queue2[x]) + 1 = Len(queue[x]) \/ queue2[x] = <<>>
                   /\ \A o \in 1..Len(queue2[x]) : queue2[x][o] = queue[x][o + 1]
  <2>1. queue[x] \in Seq(Calling)
    BY <1>1
  <2>2. CASE queue2[x] = <<>>
    BY <2>2
  <2>3. CASE queue2[x] = queue[x]
    BY <2>1, <2>3
  <2>4. CASE queue[x] # <<>> /\ queue2[x] = Tail(queue[x])
    <3>1. Tail(queue[x]) \in Seq(Calling) /\ Len(Tail(queue[x])) + 1 = Len(queue[x])
      BY <2>1, <2>4
    <3>2. \A o \in 1..Len(Tail(queue[x])) : Tail(queue[x])[o] = queue[x][o + 1]
      BY <2>1, <2>4
    <3> QED BY <2>4, <3>1, <3>2
  <2> QED BY <2>2, <2>3, <2>4 DEF Drops
<1>3. queue2 \in [Workers -> Seq(Calling)]
  BY <1>2
<1>4. ASSUME NEW x \in Workers, NEW i \in 1..Len(queue2[x])
      PROVE  /\ IsCall(calls, queue2[x][i]) /\ queue2[x][i].by = x
             /\ queue2[x][i].command = "look"
             /\ \A o \in 1..Len(queue2[x]) : o # i => queue2[x][o].n # queue2[x][i].n
             /\ \E o \in 1..Len(queue[x]) : queue2[x][i] = queue[x][o]
  <2>0. Len(queue2[x]) \in Nat /\ Len(queue[x]) \in Nat
    BY <1>1, <1>2
  <2>1. CASE queue2[x] = queue[x]
    BY <1>4, <2>1 DEF Queued
  <2>2. CASE queue2[x] # queue[x]
    <3>0. queue2[x] # <<>>
      BY <1>4
    <3>1. /\ Len(queue2[x]) + 1 = Len(queue[x])
          /\ \A o \in 1..Len(queue2[x]) : queue2[x][o] = queue[x][o + 1]
      BY <1>2, <2>2, <3>0
    <3>2. i \in Int /\ \A o \in 1..Len(queue2[x]) : o + 1 \in 1..Len(queue[x])
      BY <2>0, <3>1, <1>4
    <3>3. /\ IsCall(calls, queue[x][i + 1]) /\ queue[x][i + 1].by = x
          /\ queue[x][i + 1].command = "look"
          /\ \A o \in 1..Len(queue[x]) : o # i + 1 => queue[x][o].n # queue[x][i + 1].n
      BY <1>4, <3>2 DEF Queued
    <3>4. ASSUME NEW o \in 1..Len(queue2[x]), o # i
          PROVE  queue2[x][o].n # queue2[x][i].n
      <4>1. o + 1 \in 1..Len(queue[x]) /\ o + 1 # i + 1
        BY <2>0, <3>2, <3>4
      <4>2. queue[x][o + 1].n # queue[x][i + 1].n
        BY <3>3, <4>1
      <4>3. queue2[x][o] = queue[x][o + 1] /\ queue2[x][i] = queue[x][i + 1]
        BY <1>4, <3>1
      <4> QED BY <4>2, <4>3
    <3> QED BY <1>4, <3>1, <3>2, <3>3, <3>4
  <2> QED BY <2>1, <2>2
<1>5. Fewer(queue, queue2)
  <2>1. ASSUME NEW x \in Workers, NEW i \in 1..Len(queue2[x])
        PROVE  \E o \in 1..Len(queue[x]) : queue2[x][i] = queue[x][o]
    BY <1>4
  <2> QED BY ONLY <2>1 DEF Fewer
<1>6. Queued(calls, queue2)
  <2>1. ASSUME NEW x \in Workers, NEW i \in 1..Len(queue2[x])
        PROVE  /\ IsCall(calls, queue2[x][i]) /\ queue2[x][i].by = x
               /\ queue2[x][i].command = "look"
               /\ \A o \in 1..Len(queue2[x]) : o # i => queue2[x][o].n # queue2[x][i].n
    BY <1>4
  <2> QED BY ONLY <1>3, <2>1 DEF Queued
<1> QED BY <1>5, <1>6

LEMMA SingleCut ==
    ASSUME NEW calls, NEW effects, NEW granted, NEW running, NEW queue, NEW told, NEW record,
           NEW killed, NEW effects2, NEW running2, NEW queue2, NEW told2, NEW record2, NEW killed2,
           NEW mixed, NEW again, Numbered(calls), Noted(calls, record),
           Earned(calls, effects, granted, running, queue, mixed),
           Single(calls, effects, running, queue, told, record, killed, again),
           Cut(calls, effects, running, effects2, running2), Fewer(queue, queue2),
           told2 \subseteq told, Stronger(record, record2), killed \subseteq killed2,
           \A n \in 1..Len(calls) : ~calls[n].claim /\ effects2[n] # effects[n] =>
              \/ calls[n].by \in killed2
              \/ record2[calls[n].by][calls[n].id].status # "pending"
    PROVE  Single(calls, effects2, running2, queue2, told2, record2, killed2, again)
<1> SUFFICES ASSUME NEW a \in Workers, NEW id \in CallIds[a], Unclaimed(calls, a, id),
                    <<a, id>> \notin again
             PROVE  OnceFor(calls, effects2, running2, queue2, told2, record2, killed2, a, id)
  BY DEF Single
<1>1. OnceFor(calls, effects, running, queue, told, record, killed, a, id)
  BY DEF Single
<1>2. ASSUME NEW n, Own(calls, a, id, n)
      PROVE  /\ n \in 1..Len(calls) /\ ~calls[n].claim /\ calls[n].by = a /\ calls[n].id = id
             /\ effects[n] \in Nat
             /\ \/ effects2[n] = effects[n]
                \/ effects2[n] = effects[n] + 1 /\ UnderWay(running, n) /\ ~UnderWay(running2, n)
             /\ UnderWay(running2, n) => UnderWay(running, n)
  <2>1. n \in 1..Len(calls) /\ ~calls[n].claim /\ calls[n].by = a /\ calls[n].id = id
    BY <1>2 DEF Own, Unclaimed
  <2>2. effects[n] \in Nat
    BY <2>1 DEF Earned, EarnedBy
  <2>3. \/ effects2[n] = effects[n]
        \/ effects2[n] = effects[n] + 1 /\ UnderWay(running, n) /\ ~UnderWay(running2, n)
    BY <2>1 DEF Cut
  <2>4. UnderWay(running2, n) => UnderWay(running, n)
    BY FewerUnderWay DEF Cut
  <2> QED BY <2>1, <2>2, <2>3, <2>4
<1>3. ASSUME NEW m, NEW n, Own(calls, a, id, m), Own(calls, a, id, n),
             IsOpen(running2, queue2, told2, m), IsOpen(running2, queue2, told2, n)
      PROVE  m = n
  <2>1. ASSUME NEW x, IsOpen(running2, queue2, told2, x), Own(calls, a, id, x)
        PROVE  IsOpen(running, queue, told, x)
    BY <1>2, <2>1, FewerQueued DEF IsOpen
  <2> QED BY <1>1, <1>3, <2>1 DEF OnceFor
<1>4. ASSUME NEW m, NEW n, Looks(calls, a, id, m), Looks(calls, a, id, n), effects2[m] > 0
      PROVE  ~UnderWay(running2, n) /\ (effects2[n] > 0 => m = n)
  <2>1. Own(calls, a, id, m) /\ Own(calls, a, id, n)
    BY <1>4 DEF Looks
  <2>2. UnderWay(running, m) /\ UnderWay(running, n) => m = n
    BY <1>1, <2>1 DEF OnceFor, IsOpen
  <2>3. /\ effects[m] > 0 => ~UnderWay(running, n) /\ (effects[n] > 0 => m = n)
        /\ effects[n] > 0 => ~UnderWay(running, m)
    BY <1>1, <1>4 DEF OnceFor
  <2> QED BY <1>2, <1>4, <2>1, <2>2, <2>3
<1>5. ASSUME NEW m, Looks(calls, a, id, m), effects2[m] > 0
      PROVE  record2[a][id].status # "pending" \/ a \in killed2
  <2>1. Own(calls, a, id, m)
    BY <1>5 DEF Looks
  <2>2. CASE effects2[m] # effects[m]
    BY <1>2, <2>1, <2>2
  <2>3. CASE effects2[m] = effects[m]
    <3>1. record[a][id].status # "pending" \/ a \in killed
      BY <1>1, <1>5, <2>3 DEF OnceFor
    <3>2. record[a][id] # None
      BY <1>2, <2>1 DEF Noted
    <3>3. id \in Calls!AllIds
      BY IdsOfWorkers
    <3> QED BY <3>1, <3>2, <3>3 DEF Stronger
  <2> QED BY <2>2, <2>3
<1> QED BY <1>3, <1>4, <1>5 DEF OnceFor


\* All but some fields are the same.
But(v, q, changed) ==
    DOMAIN q = DOMAIN v /\ \A x \in DOMAIN v \ changed : q[x] = v[x]

LEMMA CallIs ==
    ASSUME NEW calls, NEW record, Numbered(calls), Noted(calls, record),
           NEW call, IsCall(calls, call)
    PROVE  /\ call.by \in Workers /\ call.id \in CallIds[call.by] /\ call.id \in Calls!AllIds
           /\ record[call.by][call.id] \in Notes
           /\ call.command \in Orders /\ call.claim \in BOOLEAN /\ call.n \in 1..Len(calls)
           /\ calls[call.n] = call
<1>1. call \in Calling /\ call.n \in 1..Len(calls) /\ calls[call.n] = call
  BY DEF IsCall
<1>2. call.by \in Workers /\ call.id \in CallIds[call.by] /\ call.id \in Calls!AllIds
  BY <1>1 DEF Numbered, Calling
<1>3. record[call.by][call.id] # None
  BY <1>1 DEF Noted
<1>4. record[call.by][call.id] \in Notes
  BY <1>2, <1>3 DEF Noted
<1> QED BY <1>1, <1>2, <1>4 DEF Calling

LEMMA NotesAreSome ==
    ASSUME NEW x \in Notes
    PROVE  x # None
BY AgentsAssumption DEF AgentsAssumption, Calls!CallsAssumption, Notes, Orders

LEMMA CallCompleted ==
    ASSUME NEW v, CallFields \subseteq DOMAIN v, NEW calls, Numbered(calls),
           Noted(calls, v.record), NEW call, IsCall(calls, call), NEW named
    PROVE  LET q == Calls!Completed(v, call, named)
           IN  /\ But(v, q, {"record"}) /\ Stronger(v.record, q.record)
               /\ q.record[call.by][call.id].status # "pending"
<1> DEFINE prior == v.record[call.by][call.id]
           done == [prior EXCEPT !.status = "completed"]
           rec == [v.record EXCEPT ![call.by][call.id] = done]
           q == Calls!Completed(v, call, named)
<1>1. call.by \in Workers /\ call.id \in Calls!AllIds /\ prior \in Notes
  BY CallIs
<1>2. v.record \in [Workers -> [Calls!AllIds -> {None} \cup Notes]]
  BY DEF Noted
<1>3. done \in Notes /\ done.status = "completed"
  BY <1>1 DEF Notes
<1>4. CASE named \/ prior.status = "pending"
  <2>1. q = [v EXCEPT !.record = rec]
    BY <1>4 DEF Calls!Completed, Calls!Recorded
  <2>2. "record" \in DOMAIN v
    BY DEF CallFields
  <2>3. But(v, q, {"record"}) /\ q.record = rec
    BY <2>1, <2>2 DEF But
  <2> HIDE DEF done
  <2>4. rec \in [Workers -> [Calls!AllIds -> {None} \cup Notes]]
    BY <1>1, <1>2, <1>3
  <2>5. rec[call.by][call.id] = done
    BY <1>1, <1>2
  <2>6. ASSUME NEW a \in Workers, NEW id \in Calls!AllIds
        PROVE  rec[a][id] = v.record[a][id] \/ rec[a][id] = done
    BY <1>1, <1>2
  <2>7. ASSUME NEW a \in Workers, NEW id \in Calls!AllIds
        PROVE  /\ v.record[a][id] # None => rec[a][id] # None
               /\ rec[a][id] # None /\ rec[a][id].status = "pending"
                    => rec[a][id] = v.record[a][id]
    <3>1. CASE rec[a][id] = v.record[a][id]
      BY <3>1
    <3>2. CASE rec[a][id] # v.record[a][id]
      <4>1. rec[a][id] = done /\ a = call.by /\ id = call.id
        BY <2>6, <3>2, <1>1, <1>2
      <4>2. done # None
        BY <1>3, NotesAreSome
      <4> QED BY <4>1, <4>2, <1>3
    <3> QED BY <3>1, <3>2
  <2>8. Stronger(v.record, rec)
    BY <2>4, <2>7 DEF Stronger
  <2> QED BY <2>3, <2>5, <2>8, <1>3
<1>5. CASE ~(named \/ prior.status = "pending")
  <2>1. q = v
    BY <1>5 DEF Calls!Completed, Calls!Recorded
  <2>2. Stronger(v.record, v.record)
    BY <1>2 DEF Stronger
  <2> QED BY <2>1, <2>2, <1>5 DEF But
<1> QED BY <1>4, <1>5


\* A call is answered by its record, or begins.
Executes(v, q, call, named) ==
    \/ (But(v, q, {"record"}) /\ Stronger(v.record, q.record))
    \/ (/\ But(v, q, {"running", "used"})
        /\ q.running = v.running \cup {[call |-> call, named |-> named]}
        /\ (named => v.record[call.by][call.id].status = "pending"))

LEMMA ExecuteIs ==
    ASSUME NEW v, CallFields \subseteq DOMAIN v, NEW calls, Numbered(calls),
           Noted(calls, v.record), NEW call, IsCall(calls, call), NEW named \in BOOLEAN
    PROVE  Executes(v, Calls!Execute(v, call, named), call, named)
<1>1. CASE named /\ Calls!Answers(v, call)
  <2>1. Calls!Execute(v, call, named) = Calls!Completed(v, call, FALSE)
    BY <1>1 DEF Calls!Execute
  <2>2. But(v, Calls!Completed(v, call, FALSE), {"record"})
        /\ Stronger(v.record, Calls!Completed(v, call, FALSE).record)
    BY CallCompleted
  <2> QED BY <2>1, <2>2 DEF Executes
<1>2. CASE ~(named /\ Calls!Answers(v, call))
  <2> DEFINE run == v.running \cup {[call |-> call, named |-> named]}
             use == IF named THEN v.used \cup {<<call.by, call.id>>} ELSE v.used
             q == [v EXCEPT !.running = run, !.used = use]
  <2>1. Calls!Execute(v, call, named) = q
    BY <1>2 DEF Calls!Execute, Calls!Begun
  <2>2. "running" \in DOMAIN v
    BY DEF CallFields
  <2>3. But(v, q, {"running", "used"}) /\ q.running = run
    BY <2>2 DEF But
  <2>4. named => v.record[call.by][call.id].status = "pending"
    BY <1>2 DEF Calls!Answers, Calls!Recorded
  <2> HIDE DEF q
  <2> QED BY <2>1, <2>3, <2>4 DEF Executes
<1> QED BY <1>1, <1>2

LEMMA RunsOnce ==
    ASSUME NEW calls, NEW running, Started(calls, running), NEW n, ~calls[n].claim,
           NEW x \in running, NEW y \in running, x.call.n = n, y.call.n = n
    PROVE  x = y
<1>1. x \in [call : Calling, named : BOOLEAN] /\ y \in [call : Calling, named : BOOLEAN]
  BY DEF Started
<1>2. /\ IsCall(calls, x.call) /\ Named(x) /\ IsCall(calls, y.call) /\ Named(y)
  BY DEF Started
<1>3. x.call = y.call /\ ~x.call.claim /\ ~y.call.claim
  BY <1>2 DEF IsCall
<1>4. x.named = y.named
  BY <1>1, <1>2, <1>3 DEF Named
<1> QED BY <1>1, <1>3, <1>4

\* Runs are cut off, and each may have had its effect.
CutShort(calls, v, q, gone) ==
    /\ But(v, q, {"running", "effects"})
    /\ q.running = v.running \ gone
    /\ Cut(calls, v.effects, v.running, q.effects, q.running)
    /\ \A n \in 1..Len(calls) : ~calls[n].claim /\ q.effects[n] # v.effects[n] =>
        \E x \in gone : x.call = calls[n]

LEMMA CutOffIs ==
    ASSUME NEW v, CallFields \subseteq DOMAIN v, NEW calls, Started(calls, v.running),
           DOMAIN v.effects = 1..Issued, Numbered(calls),
           \A n \in DOMAIN v.effects : n > Len(calls) \/ ~calls[n].claim
                => v.effects[n] \in Nat,
           NEW gone \in SUBSET v.running, NEW q \in Calls!CutOff(v, gone)
    PROVE  CutShort(calls, v, q, gone)
<1>1. PICK had \in SUBSET gone :
        q = [v EXCEPT !.running = v.running \ gone,
                      !.effects = [n \in DOMAIN v.effects |->
                          v.effects[n] + Calls!Cardinality({x \in had : x.call.n = n})]]
  BY DEF Calls!CutOff
<1> DEFINE These(n) == {x \in had : x.call.n = n}
           eff == [n \in DOMAIN v.effects |-> v.effects[n] + Calls!Cardinality(These(n))]
           run == v.running \ gone
<1>2. q = [v EXCEPT !.running = run, !.effects = eff]
  BY <1>1
<1>3. {"running", "effects"} \subseteq DOMAIN v
  BY DEF CallFields
<1>4. But(v, q, {"running", "effects"}) /\ q.running = run /\ q.effects = eff
  <2> HIDE DEF run, eff
  <2> QED BY <1>2, <1>3 DEF But
<1>5. \A S : Calls!Cardinality(S) = Cardinality(S)
  BY Zenon DEF Calls!Cardinality, Cardinality
<1>6. ASSUME NEW n \in DOMAIN v.effects
      PROVE  eff[n] = v.effects[n] + Cardinality(These(n))
  BY <1>5
<1>7. \A x \in These(0) \cup had : x \in v.running /\ IsCall(calls, x.call)
  BY DEF Started
<1>8. ASSUME NEW n \in DOMAIN v.effects, n > Len(calls)
      PROVE  eff[n] = v.effects[n]
  <2>1. These(n) = {}
    BY <1>7, <1>8 DEF IsCall
  <2>2. Cardinality(These(n)) = 0
    BY <2>1, FS_EmptySet
  <2>3. v.effects[n] \in Nat
    BY <1>8
  <2> QED BY <1>6, <2>2, <2>3
<1>9. ASSUME NEW n \in DOMAIN v.effects, ~calls[n].claim
      PROVE  \/ eff[n] = v.effects[n]
             \/ (/\ eff[n] = v.effects[n] + 1
                 /\ UnderWay(v.running, n) /\ ~UnderWay(run, n)
                 /\ \E x \in gone : x.call = calls[n])
  <2>0. v.effects[n] \in Nat
    BY <1>9
  <2>1. CASE These(n) = {}
    <3>1. Cardinality(These(n)) = 0
      BY <2>1, FS_EmptySet
    <3> QED BY <1>6, <3>1, <2>0
  <2>2. CASE These(n) # {}
    <3>1. PICK x \in had : x.call.n = n
      BY <2>2
    <3>2. x \in v.running /\ x \in gone
      BY <1>1
    <3>3. \A y \in v.running : y.call.n = n => y = x
      BY <1>9, <3>1, <3>2, RunsOnce
    <3>4. These(n) = {x}
      BY <3>1, <3>3
    <3>5. Cardinality(These(n)) = 1
      BY <3>4, FS_Singleton
    <3>6. UnderWay(v.running, n) /\ ~UnderWay(run, n)
      BY <3>1, <3>2, <3>3 DEF UnderWay
    <3>7. x.call = calls[n]
      BY <1>7, <3>1 DEF IsCall
    <3> QED BY <1>6, <2>0, <3>2, <3>5, <3>6, <3>7
  <2> QED BY <2>1, <2>2
<1>10. DOMAIN eff = DOMAIN v.effects
  BY Zenon
<1> HIDE DEF eff
<1>11. /\ (Len(calls) + 1)..Issued \subseteq DOMAIN v.effects
       /\ 1..Len(calls) \subseteq DOMAIN v.effects
       /\ \A n \in (Len(calls) + 1)..Issued : n > Len(calls)
  BY AgentsAssumption DEF AgentsAssumption, Calls!CallsAssumption, Numbered
<1>12. Cut(calls, v.effects, v.running, eff, run)
  <2> HIDE DEF run
  <2>1. run \subseteq v.running
    BY DEF run
  <2> QED BY <1>8, <1>9, <1>10, <1>11, <2>1 DEF Cut
<1> QED BY <1>4, <1>9, <1>11, <1>12 DEF CutShort


LEMMA CutKeeps ==
    ASSUME NEW v, CallsAre(v), NEW q, CallFields \subseteq DOMAIN q, q.calls = v.calls,
           Stronger(v.record, q.record), Queued(v.calls, q.queue), Fewer(v.queue, q.queue),
           Cut(v.calls, v.effects, v.running, q.effects, q.running),
           Approvals(v.calls, v.granted, q.granted),
           q.told \subseteq v.told, v.killed \subseteq q.killed,
           q.mixed = v.mixed, q.again = v.again,
           Asked(v.calls, q.told, q.asked, q.killed, q.listed, q.mixed),
           \A n \in 1..Len(v.calls) : ~v.calls[n].claim /\ q.effects[n] # v.effects[n] =>
              \/ v.calls[n].by \in q.killed
              \/ q.record[v.calls[n].by][v.calls[n].id].status # "pending"
    PROVE  CallsAre(q)
<1>0. /\ Numbered(v.calls) /\ Noted(v.calls, v.record) /\ Started(v.calls, v.running)
      /\ Earned(v.calls, v.effects, v.granted, v.running, v.queue, v.mixed)
      /\ Single(v.calls, v.effects, v.running, v.queue, v.told, v.record, v.killed, v.again)
  BY DEF CallsAre
<1>1. Noted(v.calls, q.record)
  BY <1>0, KeptNotes
<1>2. Started(v.calls, q.running)
  BY <1>0 DEF Started, Cut
<1>3. Earned(v.calls, q.effects, q.granted, q.running, q.queue, q.mixed)
  BY <1>0, EarnedCut
<1>4. Single(v.calls, q.effects, q.running, q.queue, q.told, q.record, q.killed, q.again)
  BY <1>0, SingleCut
<1> QED BY <1>0, <1>1, <1>2, <1>3, <1>4 DEF CallsAre

\* A call begins: from the queue with its id, with one approval more, or for the user.
May(v, q, call, named) ==
    \/ call.claim
    \/ (/\ call.command = "look" /\ named = TRUE /\ call.by \notin v.killed
        /\ v.record[call.by][call.id].status = "pending"
        /\ IsQueued(v.queue, call.n) /\ ~IsQueued(q.queue, call.n))
    \/ (/\ call.command = "rm" /\ named = FALSE /\ call \in v.told
        /\ Approved(v.calls, q.granted, call.id)
        /\ call.n \in v.mixed \/ q.granted[call.n] >= v.granted[call.n] + 1)

LEMMA EarnedBegin ==
    ASSUME NEW v, CallsAre(v), NEW q, NEW call, IsCall(v.calls, call), NEW named \in BOOLEAN,
           May(v, q, call, named), Fewer(v.queue, q.queue),
           Approvals(v.calls, v.granted, q.granted), q.effects = v.effects,
           q.running = v.running \cup {[call |-> call, named |-> named]}
    PROVE  Earned(v.calls, q.effects, q.granted, q.running, q.queue, v.mixed)
<1>0. Earned(v.calls, v.effects, v.granted, v.running, v.queue, v.mixed)
  BY DEF CallsAre
<1>1. ASSUME NEW n \in 1..Len(v.calls), ~v.calls[n].claim
      PROVE  EarnedBy(v.calls, q.effects, q.granted, q.running, q.queue, v.mixed, n)
  <2>1. EarnedBy(v.calls, v.effects, v.granted, v.running, v.queue, v.mixed, n)
    BY <1>0, <1>1 DEF Earned
  <2>2. IsQueued(q.queue, n) => IsQueued(v.queue, n)
    BY FewerQueued
  <2>3. q.granted[n] \in Nat /\ q.granted[n] >= v.granted[n]
    BY <1>1 DEF Approvals
  <2>6. Approved(v.calls, v.granted, v.calls[n].id) => Approved(v.calls, q.granted, v.calls[n].id)
    BY <1>0, ApprovedStays DEF Earned
  <2>4. CASE n # call.n
    <3>1. UnderWay(q.running, n) = UnderWay(v.running, n)
      BY <2>4 DEF UnderWay
    <3>2. v.effects[n] \in Nat /\ v.granted[n] \in Nat /\ q.effects[n] = v.effects[n]
      BY <2>1 DEF EarnedBy
    <3>3. ASSUME v.calls[n].command = "rm"
          PROVE  n \in v.mixed
                   \/ q.effects[n] + (IF UnderWay(q.running, n) THEN 1 ELSE 0) <= q.granted[n]
      BY <2>1, <2>3, <3>1, <3>2, <3>3 DEF EarnedBy
    <3> QED BY <2>1, <2>2, <2>3, <2>6, <3>1, <3>2, <3>3 DEF EarnedBy
  <2>5. CASE n = call.n
    <3>1. v.calls[n] = call /\ ~call.claim
      BY <1>1, <2>5 DEF IsCall
    <3>2. UnderWay(q.running, n)
      <4> DEFINE x == [call |-> call, named |-> named]
      <4>1. x \in q.running /\ x.call = call
        OBVIOUS
      <4> HIDE DEF x
      <4> QED BY <2>5, <4>1 DEF UnderWay
    <3>3. CASE call.command = "look"
      <4>1. IsQueued(v.queue, n) /\ ~IsQueued(q.queue, n)
        BY <2>5, <3>1, <3>3 DEF May
      <4> QED BY <2>1, <2>3, <3>1, <3>2, <3>3, <4>1 DEF EarnedBy
    <3>4. CASE call.command # "look"
      <4>1. /\ call.command = "rm" /\ Approved(v.calls, q.granted, call.id)
            /\ n \in v.mixed \/ q.granted[n] >= v.granted[n] + 1
        BY <2>5, <3>1, <3>4 DEF May
      <4>2. v.effects[n] \in Nat /\ v.granted[n] \in Nat /\ q.effects[n] = v.effects[n]
        BY <2>1 DEF EarnedBy
      <4>3. n \in v.mixed
              \/ q.effects[n] + (IF UnderWay(q.running, n) THEN 1 ELSE 0) <= q.granted[n]
        BY <2>1, <2>3, <3>1, <3>2, <4>1, <4>2 DEF EarnedBy
      <4> QED BY <2>3, <3>1, <4>1, <4>2, <4>3 DEF EarnedBy
    <3> QED BY <3>3, <3>4
  <2> QED BY <2>4, <2>5
<1>2. /\ DOMAIN q.effects = 1..Issued /\ DOMAIN q.granted = 1..Issued
      /\ \A n \in 1..Len(v.calls) : q.granted[n] \in Nat
      /\ \A n \in (Len(v.calls) + 1)..Issued : q.effects[n] = 0 /\ q.granted[n] = 0
  BY <1>0 DEF Earned, Approvals
<1> QED BY <1>1, <1>2 DEF Earned

LEMMA SingleBegin ==
    ASSUME NEW v, CallsAre(v), NEW q, NEW call, IsCall(v.calls, call), NEW named \in BOOLEAN,
           May(v, q, call, named), Fewer(v.queue, q.queue), q.effects = v.effects,
           q.running = v.running \cup {[call |-> call, named |-> named]},
           q.told \subseteq v.told
    PROVE  Single(v.calls, q.effects, q.running, q.queue, q.told, v.record, v.killed, v.again)
<1> SUFFICES ASSUME NEW a \in Workers, NEW id \in CallIds[a], Unclaimed(v.calls, a, id),
                    <<a, id>> \notin v.again
             PROVE  OnceFor(v.calls, q.effects, q.running, q.queue, q.told, v.record,
                            v.killed, a, id)
  BY DEF Single
<1>1. OnceFor(v.calls, v.effects, v.running, v.queue, v.told, v.record, v.killed, a, id)
  BY DEF Single, CallsAre
<1>2. \A n : UnderWay(q.running, n) => UnderWay(v.running, n) \/ n = call.n
  BY DEF UnderWay
<1>3. v.calls[call.n] = call
  BY DEF IsCall
<1>4. ASSUME NEW n, Own(v.calls, a, id, n), IsOpen(q.running, q.queue, q.told, n)
      PROVE  IsOpen(v.running, v.queue, v.told, n)
  <2>1. CASE n # call.n
    BY <1>2, <1>4, <2>1, FewerQueued DEF IsOpen
  <2>2. CASE n = call.n
    <3>1. ~call.claim
      BY <1>3, <1>4, <2>2 DEF Own, Unclaimed
    <3> QED BY <2>2, <3>1 DEF May, IsOpen
  <2> QED BY <2>1, <2>2
<1>5. ASSUME NEW m, NEW n, Own(v.calls, a, id, m), Own(v.calls, a, id, n),
             IsOpen(q.running, q.queue, q.told, m), IsOpen(q.running, q.queue, q.told, n)
      PROVE  m = n
  BY <1>1, <1>4, <1>5 DEF OnceFor
<1>6. ASSUME NEW m, NEW n, Looks(v.calls, a, id, m), Looks(v.calls, a, id, n), v.effects[m] > 0
      PROVE  ~UnderWay(q.running, n) /\ (v.effects[n] > 0 => m = n)
  <2>1. ~UnderWay(v.running, n) /\ (v.effects[n] > 0 => m = n)
    BY <1>1, <1>6 DEF OnceFor
  <2>2. n # call.n
    <3> SUFFICES ASSUME n = call.n PROVE FALSE
      OBVIOUS
    <3>1. call.by = a /\ call.id = id /\ call.command = "look" /\ ~call.claim
      BY <1>3, <1>6 DEF Looks, Own, Unclaimed
    <3>2. a \notin v.killed /\ v.record[a][id].status = "pending"
      BY <3>1 DEF May
    <3> QED BY <1>1, <1>6, <3>2 DEF OnceFor
  <2> QED BY <1>2, <2>1, <2>2
<1>7. ASSUME NEW m, Looks(v.calls, a, id, m), v.effects[m] > 0
      PROVE  v.record[a][id].status # "pending" \/ a \in v.killed
  BY <1>1, <1>7 DEF OnceFor
<1> QED BY <1>5, <1>6, <1>7 DEF OnceFor

LEMMA BeginKeeps ==
    ASSUME NEW v, CallsAre(v), NEW q, CallFields \subseteq DOMAIN q, q.calls = v.calls,
           NEW call, IsCall(v.calls, call), NEW named \in BOOLEAN, May(v, q, call, named),
           q.running = v.running \cup {[call |-> call, named |-> named]},
           Queued(v.calls, q.queue), Fewer(v.queue, q.queue),
           Approvals(v.calls, v.granted, q.granted), q.effects = v.effects,
           q.record = v.record, q.told \subseteq v.told, q.killed = v.killed,
           q.mixed = v.mixed, q.again = v.again,
           Asked(v.calls, q.told, q.asked, q.killed, q.listed, q.mixed)
    PROVE  CallsAre(q)
<1>0. Numbered(v.calls) /\ Noted(v.calls, v.record) /\ Started(v.calls, v.running)
  BY DEF CallsAre
<1>1. Started(v.calls, q.running)
  <2>1. [call |-> call, named |-> named] \in [call : Calling, named : BOOLEAN]
    BY DEF IsCall
  <2>2. Named([call |-> call, named |-> named])
    BY DEF May, Named
  <2> QED BY <1>0, <2>1, <2>2 DEF Started
<1>2. Earned(v.calls, q.effects, q.granted, q.running, q.queue, q.mixed)
  BY EarnedBegin
<1>3. Single(v.calls, q.effects, q.running, q.queue, q.told, v.record, v.killed, v.again)
  BY SingleBegin
<1> QED BY <1>0, <1>1, <1>2, <1>3 DEF CallsAre


-----------------------------------------------------------------------------
(* The steps of the calls *)

LEMMA SeveralGranted ==
    ASSUME NEW calls, NEW granted, NEW n \in 1..Len(calls), DOMAIN granted = 1..Issued,
           \A o \in 1..Len(calls) : granted[o] \in Nat,
           Len(calls) \in Nat
    PROVE  /\ Approvals(calls, granted, granted)
           /\ Approvals(calls, granted, [granted EXCEPT ![n] = granted[n] + 1])
<1>1. \A o \in (Len(calls) + 1)..Issued : o # n
  OBVIOUS
<1> QED BY <1>1 DEF Approvals

LEMMA GrantedIs ==
    ASSUME NEW v, CallsAre(v)
    PROVE  /\ DOMAIN v.granted = 1..Issued /\ DOMAIN v.effects = 1..Issued
           /\ \A o \in 1..Len(v.calls) : v.granted[o] \in Nat
           /\ \A o \in 1..Len(v.calls) : ~v.calls[o].claim => v.effects[o] \in Nat
           /\ \A o \in 1..Issued : o > Len(v.calls) => v.effects[o] = 0 /\ v.granted[o] = 0
           /\ Len(v.calls) \in Nat /\ Len(v.calls) <= Issued /\ Issued \in Nat
<1>1. Numbered(v.calls) /\ Earned(v.calls, v.effects, v.granted, v.running, v.queue, v.mixed)
  BY DEF CallsAre
<1>2. Len(v.calls) \in Nat /\ Len(v.calls) <= Issued /\ Issued \in Nat
  BY <1>1, AgentsAssumption DEF Numbered, AgentsAssumption, Calls!CallsAssumption
<1>3. \A o \in 1..Issued : o > Len(v.calls) => o \in (Len(v.calls) + 1)..Issued
  BY <1>2
<1> QED BY <1>1, <1>2, <1>3 DEF Earned, EarnedBy

LEMMA SameFewer ==
    ASSUME NEW queue
    PROVE  Fewer(queue, queue)
BY DEF Fewer

LEMMA SameCut ==
    ASSUME NEW calls, NEW effects, NEW running
    PROVE  Cut(calls, effects, running, effects, running)
BY DEF Cut

\* RunQueued.
LEMMA RunQueuedKeeps ==
    ASSUME CallsAre(c), NEW w0 \in Workers, Calls!RunQueued(w0)
    PROVE  CallsAre(c')
<1> DEFINE q == Calls!Execute(c, Head(c.queue[w0]), TRUE)
           call == Head(c.queue[w0])
           tails == [q.queue EXCEPT ![w0] = Tail(q.queue[w0])]
<1>0. /\ CallFields \subseteq DOMAIN c /\ Numbered(c.calls) /\ Noted(c.calls, c.record)
      /\ Queued(c.calls, c.queue) /\ Asked(c.calls, c.told, c.asked, c.killed, c.listed, c.mixed)
  BY DEF CallsAre
<1>1. /\ w0 \notin c.killed /\ c.queue[w0] # <<>> /\ c' = [q EXCEPT !.queue = tails]
  BY DEF Calls!RunQueued, Calls!Alive
<1>2. c.queue \in [Workers -> Seq(Calling)] /\ c.queue[w0] \in Seq(Calling)
  BY <1>0 DEF Queued
<1>3. 1 \in 1..Len(c.queue[w0]) /\ call = c.queue[w0][1] /\ Len(c.queue[w0]) \in Nat
  BY <1>1, <1>2
<1>4. /\ IsCall(c.calls, call) /\ call.by = w0 /\ call.command = "look"
      /\ \A o \in 1..Len(c.queue[w0]) : o # 1 => c.queue[w0][o].n # call.n
  BY <1>0, <1>3 DEF Queued
<1>5. \/ (But(c, q, {"record"}) /\ Stronger(c.record, q.record))
      \/ (/\ But(c, q, {"running", "used"})
          /\ q.running = c.running \cup {[call |-> call, named |-> TRUE]}
          /\ c.record[call.by][call.id].status = "pending")
  <2>1. Executes(c, q, call, TRUE)
    BY <1>0, <1>4, ExecuteIs
  <2> HIDE DEF q, call
  <2> QED BY <2>1 DEF Executes
<1> HIDE DEF q
<1>6. /\ DOMAIN q = DOMAIN c /\ q.queue = c.queue /\ q.calls = c.calls /\ q.effects = c.effects
      /\ q.granted = c.granted /\ q.told = c.told /\ q.asked = c.asked
      /\ q.mixed = c.mixed /\ q.again = c.again
      /\ q.killed = c.killed /\ q.listed = c.listed
  BY <1>0, <1>5 DEF But, CallFields
<1> HIDE DEF call
<1>7. /\ CallFields \subseteq DOMAIN c' /\ c'.queue = tails
      /\ c'.record = q.record /\ c'.running = q.running
      /\ c'.calls = c.calls /\ c'.effects = c.effects
      /\ c'.granted = c.granted /\ c'.told = c.told /\ c'.asked = c.asked
      /\ c'.mixed = c.mixed /\ c'.again = c.again
      /\ c'.killed = c.killed /\ c'.listed = c.listed
  <2> HIDE DEF tails
  <2> QED BY <1>0, <1>1, <1>6 DEF CallFields
<1>8. Queued(c.calls, c'.queue) /\ Fewer(c.queue, c'.queue)
  <2>1. tails = [c.queue EXCEPT ![w0] = Tail(c.queue[w0])]
    BY <1>6
  <2>2. \A x \in Workers : Drops(c.queue, tails, x)
    BY <1>1, <1>2, <2>1 DEF Drops
  <2>3. DOMAIN tails = Workers /\ tails = [x \in Workers |-> tails[x]]
    BY <1>2, <2>1
  <2> HIDE DEF tails
  <2> QED BY <1>0, <1>7, <2>2, <2>3, QueuedFewer
<1>9. Approvals(c.calls, c.granted, c'.granted)
  <2>1. call.n \in 1..Len(c.calls)
    BY <1>4 DEF IsCall
  <2> QED BY <1>7, <2>1, GrantedIs, SeveralGranted
<1>10. CASE But(c, q, {"record"}) /\ Stronger(c.record, q.record)
  <2>1. q.running = c.running
    BY <1>0, <1>10 DEF But, CallFields
  <2>2. Cut(c.calls, c.effects, c.running, c'.effects, c'.running)
    BY <1>7, <2>1, SameCut
  <2> QED BY <1>0, <1>7, <1>8, <1>9, <1>10, <2>2, CutKeeps
<1>11. CASE /\ But(c, q, {"running", "used"})
            /\ q.running = c.running \cup {[call |-> call, named |-> TRUE]}
            /\ c.record[call.by][call.id].status = "pending"
  <2>1. q.record = c.record
    BY <1>0, <1>11 DEF But, CallFields
  <2>2. IsQueued(c.queue, call.n)
    BY <1>3 DEF IsQueued
  <2>3. ~IsQueued(c'.queue, call.n)
    <3> SUFFICES ASSUME NEW a \in Workers, NEW i \in 1..Len(c'.queue[a]),
                        c'.queue[a][i].n = call.n
                 PROVE  FALSE
      BY DEF IsQueued
    <3>1. /\ c'.queue[a][i].by = a /\ IsCall(c.calls, c'.queue[a][i])
      BY <1>8 DEF Queued
    <3>2. c'.queue[a][i] = call
      BY <1>4, <3>1 DEF IsCall
    <3>3. a = w0
      BY <1>4, <3>1, <3>2
    <3>4. c'.queue[w0] = Tail(c.queue[w0])
      BY <1>2, <1>6, <1>7
    <3>5. i \in 1..(Len(c.queue[w0]) - 1) /\ c'.queue[w0][i] = c.queue[w0][i + 1]
      <4>1. Tail(c.queue[w0]) \in Seq(Calling)
            /\ Len(Tail(c.queue[w0])) = Len(c.queue[w0]) - 1
            /\ \A o \in 1..(Len(c.queue[w0]) - 1) : Tail(c.queue[w0])[o] = c.queue[w0][o + 1]
        BY <1>1, <1>2
      <4> QED BY <3>3, <3>4, <4>1
    <3>6. i + 1 \in 1..Len(c.queue[w0]) /\ i + 1 # 1
      BY <1>3, <3>5
    <3> QED BY <1>4, <3>2, <3>3, <3>5, <3>6
  <2>4. May(c, c', call, TRUE)
    BY <1>1, <1>4, <1>11, <2>2, <2>3 DEF May
  <2> HIDE DEF tails
  <2> QED BY <1>0, <1>4, <1>7, <1>8, <1>9, <1>11, <2>1, <2>4, BeginKeeps
<1> QED BY <1>5, <1>10, <1>11


\* LeaderAnswers.
LEMMA LeaderAnswersKeeps ==
    ASSUME CallsAre(c), Calls!LeaderAnswers
    PROVE  CallsAre(c')
<1>0. /\ CallFields \subseteq DOMAIN c /\ Numbered(c.calls) /\ Noted(c.calls, c.record)
      /\ Queued(c.calls, c.queue) /\ Asked(c.calls, c.told, c.asked, c.killed, c.listed, c.mixed)
  BY DEF CallsAre
<1>1. PICK call \in c.told, yes \in BOOLEAN :
        LET v == [c EXCEPT !.told = c.told \ {call},
                           !.asked = [c.asked EXCEPT ![call.id] = None]]
            u == [v EXCEPT !.granted = [v.granted EXCEPT ![call.n] = v.granted[call.n] + 1]]
            d == [v EXCEPT !.denied = v.denied \cup {call.n}]
        IN  c' = IF c.asked[call.id] = None THEN v
                 ELSE IF yes THEN Calls!Execute(u, c.asked[call.id], FALSE)
                 ELSE Calls!Completed(d, c.asked[call.id], FALSE)
  BY DEF Calls!LeaderAnswers
<1> DEFINE told == c.told \ {call}
           asked == [c.asked EXCEPT ![call.id] = None]
           v == [c EXCEPT !.told = told, !.asked = asked]
           grants == [v.granted EXCEPT ![call.n] = v.granted[call.n] + 1]
           u == [v EXCEPT !.granted = grants]
           d == [v EXCEPT !.denied = v.denied \cup {call.n}]
<1>2. IsCall(c.calls, call) /\ call.command = "rm" /\ call.n \in 1..Len(c.calls)
  BY <1>0, <1>1 DEF Asked, IsCall
<1>3. /\ DOMAIN v = DOMAIN c /\ v.told = told /\ v.asked = asked
      /\ v.record = c.record /\ v.running = c.running /\ v.queue = c.queue
      /\ v.calls = c.calls /\ v.effects = c.effects /\ v.granted = c.granted
      /\ v.mixed = c.mixed /\ v.again = c.again
      /\ v.killed = c.killed /\ v.listed = c.listed
  <2> HIDE DEF told, asked
  <2> QED BY <1>0 DEF CallFields
<1>4. Asked(c.calls, told, asked, c.killed, c.listed, c.mixed)
  <2>1. /\ told \subseteq Calling /\ c.listed \subseteq Calling
        /\ \A x \in told : IsCall(c.calls, x) /\ x.command = "rm"
        /\ \A x, y \in told : x.id = y.id => x = y \/ x.n \in c.mixed
        /\ DOMAIN asked = Calls!AllIds
        /\ \A x \in c.listed : IsCall(c.calls, x) /\ x.claim
    BY <1>0 DEF Asked
  <2>2. ASSUME NEW i \in Calls!AllIds, asked[i] # None
        PROVE  asked[i] \in told /\ asked[i].id = i
    <3>1. i # call.id /\ asked[i] = c.asked[i]
      BY <1>0, <2>2 DEF Asked
    <3> QED BY <1>0, <2>2, <3>1 DEF Asked
  <2>3. ASSUME NEW x \in told, x.by \notin c.killed, x.n \notin c.mixed
        PROVE  asked[x.id] = x
    <3>1. x.id # call.id /\ c.asked[x.id] = x
      BY <1>0, <1>1, <2>3 DEF Asked
    <3> QED BY <1>0, <3>1 DEF Asked
  <2> HIDE DEF told, asked
  <2> QED BY <2>1, <2>2, <2>3 DEF Asked
<1>5. ASSUME c.asked[call.id] # None
      PROVE  /\ c.asked[call.id] \in c.told /\ c.asked[call.id].id = call.id
             /\ c.asked[call.id] = call \/ c.asked[call.id].n \in c.mixed
             /\ IsCall(c.calls, c.asked[call.id]) /\ c.asked[call.id].command = "rm"
  <2>1. call.id \in Calls!AllIds
    BY <1>0, <1>2, CallIs
  <2> QED BY <1>0, <1>1, <1>5, <2>1 DEF Asked
<1>6. /\ DOMAIN u = DOMAIN v /\ u.granted = grants
      /\ \A x \in DOMAIN v \ {"granted"} : u[x] = v[x]
  <2> HIDE DEF grants, v
  <2> QED BY <1>0, <1>3 DEF CallFields
<1>7. DOMAIN d = DOMAIN v /\ \A x \in DOMAIN v \ {"denied"} : d[x] = v[x]
  <2> HIDE DEF v
  <2> QED OBVIOUS
<1>8. /\ u.told = told /\ u.asked = asked
      /\ u.record = c.record /\ u.running = c.running /\ u.queue = c.queue
      /\ u.calls = c.calls /\ u.effects = c.effects
      /\ u.mixed = c.mixed /\ u.again = c.again
      /\ u.killed = c.killed /\ u.listed = c.listed
  <2> HIDE DEF u, v, told, asked
  <2> QED BY <1>0, <1>3, <1>6 DEF CallFields
<1>9. /\ d.told = told /\ d.asked = asked
      /\ d.record = c.record /\ d.running = c.running /\ d.queue = c.queue
      /\ d.calls = c.calls /\ d.effects = c.effects /\ d.granted = c.granted
      /\ d.mixed = c.mixed /\ d.again = c.again
      /\ d.killed = c.killed /\ d.listed = c.listed
  <2> HIDE DEF d, v, told, asked
  <2> QED BY <1>0, <1>3, <1>7 DEF CallFields
<1>10. /\ Approvals(c.calls, c.granted, c.granted) /\ Approvals(c.calls, c.granted, grants)
       /\ grants[call.n] >= c.granted[call.n] + 1
       /\ Approved(c.calls, grants, call.id)
  <2>1. grants = [c.granted EXCEPT ![call.n] = c.granted[call.n] + 1]
    BY <1>3
  <2>2. c.calls[call.n] = call
    BY <1>2 DEF IsCall
  <2>3. c.granted[call.n] \in Nat
    BY <1>2, GrantedIs
  <2>4. call.n \in DOMAIN c.granted
    BY <1>2, GrantedIs
  <2> HIDE DEF grants
  <2>5. Approvals(c.calls, c.granted, c.granted) /\ Approvals(c.calls, c.granted, grants)
    BY <1>2, <2>1, GrantedIs, SeveralGranted
  <2>6. grants[call.n] = c.granted[call.n] + 1
    BY <2>1, <2>4
  <2>7. grants[call.n] > 0
    BY <2>3, <2>6
  <2>8. Approved(c.calls, grants, call.id)
    BY <1>2, <2>2, <2>7 DEF Approved
  <2> QED BY <2>3, <2>5, <2>6, <2>8
<1> DEFINE Rest(q) ==
       /\ q.told = told /\ q.asked = asked /\ q.queue = c.queue
       /\ q.calls = c.calls /\ q.effects = c.effects
       /\ q.mixed = c.mixed /\ q.again = c.again
       /\ q.killed = c.killed /\ q.listed = c.listed
<1>11. /\ Queued(c.calls, c.queue) /\ Fewer(c.queue, c.queue) /\ told \subseteq c.told
       /\ Cut(c.calls, c.effects, c.running, c.effects, c.running)
       /\ Stronger(c.record, c.record)
  BY <1>0, SameFewer, SameCut DEF Stronger, Noted
<1> HIDE DEF told, asked, grants, v, u, d
<1>12. ASSUME NEW q, CallFields \subseteq DOMAIN q, Rest(q), Stronger(c.record, q.record),
              q.running = c.running, q.granted \in {c.granted, grants}
       PROVE  CallsAre(q)
  <2>1. Cut(c.calls, c.effects, c.running, q.effects, q.running)
    BY <1>11, <1>12
  <2>2. Approvals(c.calls, c.granted, q.granted)
    BY <1>10, <1>12
  <2>3. Asked(c.calls, q.told, q.asked, q.killed, q.listed, q.mixed)
    BY <1>4, <1>12
  <2> QED BY <1>11, <1>12, <2>1, <2>2, <2>3, CutKeeps
<1>13. CASE c.asked[call.id] = None
  <2>1. c' = v
    BY <1>1, <1>13 DEF v, told, asked
  <2> QED BY <1>0, <1>3, <1>11, <1>12, <2>1
<1>14. CASE c.asked[call.id] # None /\ yes
  <2> DEFINE asks == c.asked[call.id]
  <2>0. /\ asks \in c.told /\ asks.id = call.id /\ (asks = call \/ asks.n \in c.mixed)
        /\ IsCall(c.calls, asks) /\ asks.command = "rm"
    BY <1>5, <1>14
  <2>1. c' = Calls!Execute(u, asks, FALSE)
    BY <1>1, <1>14 DEF u, grants, v, told, asked
  <2> HIDE DEF asks
  <2>2. Executes(u, c', asks, FALSE)
    <3>1. CallFields \subseteq DOMAIN u /\ Noted(c.calls, u.record)
      BY <1>0, <1>3, <1>6, <1>8
    <3> QED BY <1>0, <2>0, <2>1, <3>1, ExecuteIs
  <2>3. /\ CallFields \subseteq DOMAIN c' /\ Rest(c') /\ c'.granted = grants
    BY <1>0, <1>3, <1>6, <1>8, <2>2 DEF Executes, But, CallFields
  <2>4. CASE But(u, c', {"record"}) /\ Stronger(u.record, c'.record)
    <3>1. c'.running = c.running
      BY <1>0, <1>3, <1>6, <1>8, <2>4 DEF But, CallFields
    <3> QED BY <1>8, <1>12, <2>3, <2>4, <3>1
  <2>5. CASE /\ But(u, c', {"running", "used"})
             /\ c'.running = u.running \cup {[call |-> asks, named |-> FALSE]}
    <3>1. c'.record = c.record /\ c'.running = c.running \cup {[call |-> asks, named |-> FALSE]}
      BY <1>0, <1>3, <1>6, <1>8, <2>5 DEF But, CallFields
    <3>2. May(c, c', asks, FALSE)
      BY <1>10, <2>0, <2>3 DEF May
    <3>3. /\ c'.calls = c.calls /\ c'.effects = c.effects
 /\ c'.mixed = c.mixed /\ c'.again = c.again
 /\ c'.killed = c.killed
          /\ c'.told \subseteq c.told /\ Queued(c.calls, c'.queue) /\ Fewer(c.queue, c'.queue)
          /\ Approvals(c.calls, c.granted, c'.granted)
          /\ Asked(c.calls, c'.told, c'.asked, c'.killed, c'.listed, c'.mixed)
      BY <1>4, <1>10, <1>11, <2>3
    <3> QED BY <2>0, <2>3, <3>1, <3>2, <3>3, BeginKeeps
  <2> QED BY <2>2, <2>4, <2>5 DEF Executes
<1>15. CASE c.asked[call.id] # None /\ ~yes
  <2> DEFINE asks == c.asked[call.id]
  <2>0. IsCall(c.calls, asks)
    BY <1>5, <1>15
  <2>1. c' = Calls!Completed(d, asks, FALSE)
    BY <1>1, <1>15 DEF d, v, told, asked
  <2> HIDE DEF asks
  <2>2. But(d, c', {"record"}) /\ Stronger(d.record, c'.record)
    <3>1. CallFields \subseteq DOMAIN d /\ Noted(c.calls, d.record)
      BY <1>0, <1>3, <1>7, <1>9
    <3> QED BY <1>0, <2>0, <2>1, <3>1, CallCompleted
  <2>3. /\ CallFields \subseteq DOMAIN c' /\ Rest(c') /\ c'.granted = c.granted
        /\ c'.running = c.running
    BY <1>0, <1>3, <1>7, <1>9, <2>2 DEF But, CallFields
  <2> QED BY <1>9, <1>12, <2>2, <2>3
<1> QED BY <1>13, <1>14, <1>15


\* UserAnswers.
LEMMA UserAnswersKeeps ==
    ASSUME CallsAre(c), Calls!UserAnswers
    PROVE  CallsAre(c')
<1>0. /\ CallFields \subseteq DOMAIN c /\ Numbered(c.calls) /\ Noted(c.calls, c.record)
      /\ Queued(c.calls, c.queue) /\ Asked(c.calls, c.told, c.asked, c.killed, c.listed, c.mixed)
  BY DEF CallsAre
<1>1. PICK call \in c.listed, yes \in BOOLEAN :
        LET v == [c EXCEPT !.listed = {x \in c.listed : x.id # call.id}]
            u == [v EXCEPT !.granted = [v.granted EXCEPT ![call.n] = v.granted[call.n] + 1]]
            d == [v EXCEPT !.denied = v.denied \cup {call.n}]
        IN  c' = IF call.by \in c.killed THEN v
                 ELSE IF yes THEN Calls!Execute(u, call, TRUE)
                 ELSE Calls!Completed(d, call, FALSE)
  BY DEF Calls!UserAnswers, Calls!Unlisted
<1> DEFINE listed == {x \in c.listed : x.id # call.id}
           v == [c EXCEPT !.listed = listed]
           grants == [v.granted EXCEPT ![call.n] = v.granted[call.n] + 1]
           u == [v EXCEPT !.granted = grants]
           d == [v EXCEPT !.denied = v.denied \cup {call.n}]
<1>2. IsCall(c.calls, call) /\ call.claim /\ call.n \in 1..Len(c.calls)
  BY <1>0, <1>1 DEF Asked, IsCall
<1>3. /\ DOMAIN v = DOMAIN c /\ v.told = c.told /\ v.asked = c.asked
      /\ v.record = c.record /\ v.running = c.running /\ v.queue = c.queue
      /\ v.calls = c.calls /\ v.effects = c.effects /\ v.granted = c.granted
      /\ v.mixed = c.mixed /\ v.again = c.again
      /\ v.killed = c.killed /\ v.listed = listed
  <2> HIDE DEF listed
  <2> QED BY <1>0 DEF CallFields
<1>4. Asked(c.calls, c.told, c.asked, c.killed, listed, c.mixed)
  BY <1>0 DEF Asked
<1>6. /\ DOMAIN u = DOMAIN v /\ u.granted = grants
      /\ \A x \in DOMAIN v \ {"granted"} : u[x] = v[x]
  <2> HIDE DEF grants, v
  <2> QED BY <1>0, <1>3 DEF CallFields
<1>7. DOMAIN d = DOMAIN v /\ \A x \in DOMAIN v \ {"denied"} : d[x] = v[x]
  <2> HIDE DEF v
  <2> QED OBVIOUS
<1> DEFINE Rest(q) ==
       /\ q.told = c.told /\ q.asked = c.asked /\ q.queue = c.queue
       /\ q.calls = c.calls /\ q.effects = c.effects
       /\ q.mixed = c.mixed /\ q.again = c.again
       /\ q.killed = c.killed /\ q.listed = listed
<1>8. Rest(u) /\ u.record = c.record /\ u.running = c.running
  <2> HIDE DEF u, v, listed
  <2> QED BY <1>0, <1>3, <1>6 DEF CallFields
<1>9. Rest(d) /\ d.record = c.record /\ d.running = c.running /\ d.granted = c.granted
  <2> HIDE DEF d, v, listed
  <2> QED BY <1>0, <1>3, <1>7 DEF CallFields
<1>10. /\ Approvals(c.calls, c.granted, c.granted) /\ Approvals(c.calls, c.granted, grants)
  <2>1. grants = [c.granted EXCEPT ![call.n] = c.granted[call.n] + 1]
    BY <1>3
  <2> HIDE DEF grants
  <2> QED BY <1>2, <2>1, GrantedIs, SeveralGranted
<1>11. /\ Queued(c.calls, c.queue) /\ Fewer(c.queue, c.queue)
       /\ Cut(c.calls, c.effects, c.running, c.effects, c.running)
       /\ Stronger(c.record, c.record)
  BY <1>0, SameFewer, SameCut DEF Stronger, Noted
<1> HIDE DEF listed, grants, v, u, d
<1>12. ASSUME NEW q, CallFields \subseteq DOMAIN q, Rest(q), Stronger(c.record, q.record),
              q.running = c.running, q.granted \in {c.granted, grants}
       PROVE  CallsAre(q)
  <2>1. Cut(c.calls, c.effects, c.running, q.effects, q.running)
    BY <1>11, <1>12
  <2>2. Approvals(c.calls, c.granted, q.granted)
    BY <1>10, <1>12
  <2>3. Asked(c.calls, q.told, q.asked, q.killed, q.listed, q.mixed)
    BY <1>4, <1>12
  <2> QED BY <1>11, <1>12, <2>1, <2>2, <2>3, CutKeeps
<1>13. CASE call.by \in c.killed
  <2>1. c' = v
    BY <1>1, <1>13 DEF v, listed
  <2> QED BY <1>0, <1>3, <1>11, <1>12, <2>1
<1>14. CASE call.by \notin c.killed /\ yes
  <2>1. c' = Calls!Execute(u, call, TRUE)
    BY <1>1, <1>14 DEF u, grants, v, listed
  <2>2. Executes(u, c', call, TRUE)
    <3>1. CallFields \subseteq DOMAIN u /\ Noted(c.calls, u.record)
      BY <1>0, <1>3, <1>6, <1>8
    <3> QED BY <1>0, <1>2, <2>1, <3>1, ExecuteIs
  <2>3. /\ CallFields \subseteq DOMAIN c' /\ Rest(c') /\ c'.granted = grants
    BY <1>0, <1>3, <1>6, <1>8, <2>2 DEF Executes, But, CallFields
  <2>4. CASE But(u, c', {"record"}) /\ Stronger(u.record, c'.record)
    <3>1. c'.running = c.running
      BY <1>0, <1>3, <1>6, <1>8, <2>4 DEF But, CallFields
    <3> QED BY <1>8, <1>12, <2>3, <2>4, <3>1
  <2>5. CASE /\ But(u, c', {"running", "used"})
             /\ c'.running = u.running \cup {[call |-> call, named |-> TRUE]}
    <3>1. c'.record = c.record /\ c'.running = c.running \cup {[call |-> call, named |-> TRUE]}
      BY <1>0, <1>3, <1>6, <1>8, <2>5 DEF But, CallFields
    <3>2. May(c, c', call, TRUE)
      BY <1>2 DEF May
    <3>3. /\ c'.calls = c.calls /\ c'.effects = c.effects
 /\ c'.mixed = c.mixed /\ c'.again = c.again
 /\ c'.killed = c.killed
          /\ c'.told \subseteq c.told /\ Queued(c.calls, c'.queue) /\ Fewer(c.queue, c'.queue)
          /\ Approvals(c.calls, c.granted, c'.granted)
          /\ Asked(c.calls, c'.told, c'.asked, c'.killed, c'.listed, c'.mixed)
      BY <1>4, <1>10, <1>11, <2>3
    <3> QED BY <1>2, <2>3, <3>1, <3>2, <3>3, BeginKeeps
  <2> QED BY <2>2, <2>4, <2>5 DEF Executes
<1>15. CASE call.by \notin c.killed /\ ~yes
  <2>1. c' = Calls!Completed(d, call, FALSE)
    BY <1>1, <1>15 DEF d, v, listed
  <2>2. But(d, c', {"record"}) /\ Stronger(d.record, c'.record)
    <3>1. CallFields \subseteq DOMAIN d /\ Noted(c.calls, d.record)
      BY <1>0, <1>3, <1>7, <1>9
    <3> QED BY <1>0, <1>2, <2>1, <3>1, CallCompleted
  <2>3. /\ CallFields \subseteq DOMAIN c' /\ Rest(c') /\ c'.granted = c.granted
        /\ c'.running = c.running
    BY <1>0, <1>3, <1>7, <1>9, <2>2 DEF But, CallFields
  <2> QED BY <1>9, <1>12, <2>2, <2>3
<1> QED BY <1>13, <1>14, <1>15

\* Ends.
LEMMA CallEnds ==
    ASSUME CallsAre(c), Calls!Ends
    PROVE  CallsAre(c')
<1>0. /\ CallFields \subseteq DOMAIN c /\ Numbered(c.calls) /\ Noted(c.calls, c.record)
      /\ Queued(c.calls, c.queue) /\ Asked(c.calls, c.told, c.asked, c.killed, c.listed, c.mixed)
      /\ Started(c.calls, c.running)
  BY DEF CallsAre
<1>1. PICK x \in c.running :
        LET g == [c EXCEPT !.running = c.running \ {x}]
            h == [g EXCEPT !.effects = [g.effects EXCEPT ![x.call.n] = g.effects[x.call.n] + 1]]
        IN  c' = Calls!Completed(h, x.call, x.named)
  BY DEF Calls!Ends, Calls!Happened
<1> DEFINE run == c.running \ {x}
           g == [c EXCEPT !.running = run]
           eff == [g.effects EXCEPT ![x.call.n] = g.effects[x.call.n] + 1]
           h == [g EXCEPT !.effects = eff]
<1>2. IsCall(c.calls, x.call) /\ x.call.n \in 1..Len(c.calls) /\ c.calls[x.call.n] = x.call
  BY <1>0 DEF Started, IsCall
<1>3. /\ DOMAIN g = DOMAIN c /\ g.running = run /\ g.effects = c.effects
      /\ \A y \in DOMAIN c \ {"running"} : g[y] = c[y]
  <2> HIDE DEF run
  <2> QED BY <1>0 DEF CallFields
<1>4. eff = [c.effects EXCEPT ![x.call.n] = c.effects[x.call.n] + 1]
  BY <1>3
<1>5. /\ DOMAIN h = DOMAIN g /\ h.effects = eff
      /\ \A y \in DOMAIN g \ {"effects"} : h[y] = g[y]
  <2> HIDE DEF g, eff
  <2> QED BY <1>0, <1>3 DEF CallFields
<1> HIDE DEF g, eff
<1>6. /\ CallFields \subseteq DOMAIN h /\ h.running = run /\ h.effects = eff
      /\ h.record = c.record /\ h.queue = c.queue /\ h.calls = c.calls
      /\ h.granted = c.granted /\ h.told = c.told /\ h.asked = c.asked
      /\ h.mixed = c.mixed /\ h.again = c.again
      /\ h.killed = c.killed /\ h.listed = c.listed
  <2> HIDE DEF h, run
  <2> QED BY <1>0, <1>3, <1>5 DEF CallFields
<1>7. c' = Calls!Completed(h, x.call, x.named)
  BY <1>1 DEF g, eff
<1>8. /\ But(h, c', {"record"}) /\ Stronger(h.record, c'.record)
      /\ c'.record[x.call.by][x.call.id].status # "pending"
  <2>1. Noted(c.calls, h.record)
    BY <1>0, <1>6
  <2> HIDE DEF h
  <2> QED BY <1>0, <1>2, <1>6, <1>7, <2>1, CallCompleted
<1> HIDE DEF h
<1>9. /\ CallFields \subseteq DOMAIN c' /\ c'.running = run /\ c'.effects = eff
      /\ c'.queue = c.queue /\ c'.calls = c.calls
      /\ c'.granted = c.granted /\ c'.told = c.told /\ c'.asked = c.asked
      /\ c'.mixed = c.mixed /\ c'.again = c.again
      /\ c'.killed = c.killed /\ c'.listed = c.listed
  <2> HIDE DEF run
  <2> QED BY <1>6, <1>8 DEF But, CallFields
<1>10. Cut(c.calls, c.effects, c.running, eff, run)
  <2>1. UnderWay(c.running, x.call.n)
    BY DEF UnderWay
  <2>2. c.calls[x.call.n].claim \/ ~UnderWay(run, x.call.n)
    BY <1>0, RunsOnce DEF UnderWay
  <2>3. DOMAIN eff = DOMAIN c.effects
    BY <1>4
  <2>4. \A n \in DOMAIN c.effects : n # x.call.n => eff[n] = c.effects[n]
    BY <1>4
  <2>5. eff[x.call.n] = c.effects[x.call.n] + 1
    BY <1>2, <1>4, GrantedIs
  <2>6. \A n \in 1..Len(c.calls) : n \in DOMAIN c.effects
    BY GrantedIs
  <2>7. \A n \in (Len(c.calls) + 1)..Issued : n \in DOMAIN c.effects /\ n # x.call.n
    BY <1>2, GrantedIs
  <2>8. run \subseteq c.running
    OBVIOUS
  <2> HIDE DEF run
  <2> QED BY <2>1, <2>2, <2>3, <2>4, <2>5, <2>6, <2>7, <2>8 DEF Cut
<1>11. \A n \in 1..Len(c.calls) : eff[n] # c.effects[n] => n = x.call.n
  <2>1. \A n \in 1..Len(c.calls) : n \in DOMAIN c.effects
    BY GrantedIs
  <2> QED BY <1>4, <2>1
<1>12. /\ Queued(c.calls, c.queue) /\ Fewer(c.queue, c.queue)
            /\ Approvals(c.calls, c.granted, c.granted)
  BY <1>0, <1>2, SameFewer, GrantedIs, SeveralGranted
<1>13. \A n \in 1..Len(c.calls) : ~c.calls[n].claim /\ c'.effects[n] # c.effects[n] =>
              \/ c.calls[n].by \in c'.killed
              \/ c'.record[c.calls[n].by][c.calls[n].id].status # "pending"
  BY <1>2, <1>8, <1>9, <1>11
<1> HIDE DEF run
<1>14. Stronger(c.record, c'.record)
  BY <1>6, <1>8
<1> QED BY <1>0, <1>9, <1>10, <1>12, <1>13, <1>14, CutKeeps


\* Kill.
LEMMA CallsKilled ==
    ASSUME CallsAre(c), NEW w0 \in Workers, Calls!Kill(w0)
    PROVE  CallsAre(c')
<1>0. /\ CallFields \subseteq DOMAIN c /\ Numbered(c.calls) /\ Noted(c.calls, c.record)
      /\ Queued(c.calls, c.queue) /\ Asked(c.calls, c.told, c.asked, c.killed, c.listed, c.mixed)
      /\ Started(c.calls, c.running)
  BY DEF CallsAre
<1> DEFINE killed == c.killed \cup {w0}
           queue == [c.queue EXCEPT ![w0] = <<>>]
           asked == [i \in Calls!AllIds |->
                        IF c.asked[i] # None /\ c.asked[i].by = w0 THEN None ELSE c.asked[i]]
           listed == {x \in c.listed : x.by # w0}
           gone == {x \in c.running : x.call.by = w0}
           g == [c EXCEPT !.killed = killed, !.queue = queue, !.asked = asked,
                          !.listed = listed]
<1>1. c' \in Calls!CutOff(g, gone)
  BY DEF Calls!Kill
<1>2. /\ DOMAIN g = DOMAIN c /\ g.killed = killed /\ g.queue = queue /\ g.asked = asked
      /\ g.listed = listed /\ g.record = c.record /\ g.calls = c.calls
      /\ g.running = c.running /\ g.effects = c.effects /\ g.granted = c.granted
      /\ g.told = c.told /\ g.mixed = c.mixed /\ g.again = c.again
  <2> HIDE DEF killed, queue, asked, listed
  <2> QED BY <1>0 DEF CallFields
<1>3. gone \in SUBSET c.running
  OBVIOUS
<1> HIDE DEF g, gone
<1>4. /\ But(g, c', {"running", "effects"})
      /\ Cut(c.calls, g.effects, g.running, c'.effects, c'.running)
      /\ \A n \in 1..Len(c.calls) : ~c.calls[n].claim /\ c'.effects[n] # g.effects[n] =>
                \E x \in gone : x.call = c.calls[n]
  <2>1. CallFields \subseteq DOMAIN g /\ Started(c.calls, g.running) /\ gone \in SUBSET g.running
    BY <1>0, <1>2, <1>3
  <2>2. DOMAIN g.effects = 1..Issued
    BY <1>2, GrantedIs
  <2>3. \A n \in DOMAIN g.effects : n > Len(c.calls) \/ ~c.calls[n].claim => g.effects[n] \in Nat
    <3> TAKE n \in DOMAIN g.effects
    <3>1. n \in 1..Issued /\ g.effects[n] = c.effects[n]
      BY <1>2, GrantedIs
    <3>2. n > Len(c.calls) => c.effects[n] \in Nat
      BY <3>1, GrantedIs
    <3>3. n <= Len(c.calls) => n \in 1..Len(c.calls)
      BY <3>1, GrantedIs
    <3> QED BY <3>1, <3>2, <3>3, GrantedIs
  <2>4. CutShort(c.calls, g, c', gone)
    BY <1>0, <1>1, <2>1, <2>2, <2>3, CutOffIs
  <2> QED BY <2>4 DEF CutShort
<1>5. /\ CallFields \subseteq DOMAIN c' /\ c'.killed = killed /\ c'.queue = queue
      /\ c'.asked = asked /\ c'.listed = listed /\ c'.record = c.record /\ c'.calls = c.calls
      /\ c'.granted = c.granted /\ c'.told = c.told
      /\ c'.mixed = c.mixed /\ c'.again = c.again
  <2> HIDE DEF killed, queue, asked, listed
  <2> QED BY <1>0, <1>2, <1>4 DEF But, CallFields
<1>6. Queued(c.calls, queue) /\ Fewer(c.queue, queue)
  <2>1. c.queue \in [Workers -> Seq(Calling)]
    BY <1>0 DEF Queued
  <2>2. \A x \in Workers : Drops(c.queue, queue, x)
    BY <2>1 DEF Drops
  <2>3. DOMAIN queue = Workers /\ queue = [x \in Workers |-> queue[x]]
    BY <2>1
  <2> HIDE DEF queue
  <2> QED BY <1>0, <2>2, <2>3, QueuedFewer
<1>7. Asked(c.calls, c.told, asked, killed, listed, c.mixed)
  <2>1. /\ c.told \subseteq Calling /\ listed \subseteq Calling
        /\ \A x \in c.told : IsCall(c.calls, x) /\ x.command = "rm"
        /\ \A x, y \in c.told : x.id = y.id => x = y \/ x.n \in c.mixed
        /\ DOMAIN asked = Calls!AllIds
        /\ \A x \in listed : IsCall(c.calls, x) /\ x.claim
    BY <1>0 DEF Asked
  <2>2. \A i \in Calls!AllIds : asked[i] # None => asked[i] \in c.told /\ asked[i].id = i
    BY <1>0 DEF Asked
  <2>3. ASSUME NEW x \in c.told, x.by \notin killed, x.n \notin c.mixed
        PROVE  asked[x.id] = x
    <3>1. c.asked[x.id] = x /\ x.by # w0
      BY <1>0, <2>3 DEF Asked
    <3>2. x.id \in Calls!AllIds
      BY <1>0, CallIs DEF Asked
    <3> QED BY <3>1, <3>2
  <2> HIDE DEF asked, killed, listed
  <2> QED BY <2>1, <2>2, <2>3 DEF Asked
<1>8. Stronger(c.record, c.record) /\ Approvals(c.calls, c.granted, c.granted)
  <2>1. Stronger(c.record, c.record)
    BY <1>0 DEF Stronger, Noted
  <2>2. Approvals(c.calls, c.granted, c.granted)
    BY GrantedIs DEF Approvals
  <2> QED BY <2>1, <2>2
<1>9. \A n \in 1..Len(c.calls) : ~c.calls[n].claim /\ c'.effects[n] # c.effects[n] =>
        c.calls[n].by \in c'.killed
  BY <1>2, <1>4, <1>5 DEF gone
<1>10. c.killed \subseteq killed
  OBVIOUS
<1> HIDE DEF killed, queue, asked, listed
<1> QED BY <1>2, <1>4, <1>5, <1>6, <1>7, <1>8, <1>9, <1>10, CutKeeps

\* Restart.
LEMMA CallsRestarted ==
    ASSUME CallsAre(c), Calls!Restart
    PROVE  CallsAre(c')
<1>0. /\ CallFields \subseteq DOMAIN c /\ Numbered(c.calls) /\ Noted(c.calls, c.record)
      /\ Queued(c.calls, c.queue) /\ Asked(c.calls, c.told, c.asked, c.killed, c.listed, c.mixed)
      /\ Started(c.calls, c.running)
  BY DEF CallsAre
<1> DEFINE queue == [x \in Workers |-> <<>>]
           asked == [i \in Calls!AllIds |-> None]
           Then(prior) == IF prior # None /\ prior.status = "pending"
                          THEN [prior EXCEPT !.status = "uncertain"] ELSE prior
           rec == [x \in Workers |-> [i \in Calls!AllIds |-> Then(c.record[x][i])]]
           g == [c EXCEPT !.deaths = c.deaths + 1, !.queue = queue, !.asked = asked,
                          !.told = {}, !.listed = {}, !.record = rec]
<1>1. c' \in Calls!CutOff(g, c.running)
  BY DEF Calls!Restart
<1>2. /\ DOMAIN g = DOMAIN c /\ g.queue = queue /\ g.asked = asked /\ g.told = {}
      /\ g.listed = {} /\ g.record = rec /\ g.calls = c.calls
      /\ g.mixed = c.mixed /\ g.again = c.again
      /\ g.killed = c.killed
      /\ g.running = c.running /\ g.effects = c.effects /\ g.granted = c.granted
  <2> HIDE DEF queue, asked, rec
  <2> QED BY <1>0 DEF CallFields
<1> HIDE DEF g
<1>4. /\ But(g, c', {"running", "effects"})
      /\ Cut(c.calls, g.effects, g.running, c'.effects, c'.running)
  <2>1. CallFields \subseteq DOMAIN g /\ Started(c.calls, g.running)
        /\ c.running \in SUBSET g.running
    BY <1>0, <1>2
  <2>2. DOMAIN g.effects = 1..Issued
    BY <1>2, GrantedIs
  <2>3. \A n \in DOMAIN g.effects : n > Len(c.calls) \/ ~c.calls[n].claim => g.effects[n] \in Nat
    <3> TAKE n \in DOMAIN g.effects
    <3>1. n \in 1..Issued /\ g.effects[n] = c.effects[n]
      BY <1>2, GrantedIs
    <3>2. n > Len(c.calls) => c.effects[n] \in Nat
      BY <3>1, GrantedIs
    <3>3. n <= Len(c.calls) => n \in 1..Len(c.calls)
      BY <3>1, GrantedIs
    <3> QED BY <3>1, <3>2, <3>3, GrantedIs
  <2>4. CutShort(c.calls, g, c', c.running)
    BY <1>0, <1>1, <2>1, <2>2, <2>3, CutOffIs
  <2> QED BY <2>4 DEF CutShort
<1>5. /\ CallFields \subseteq DOMAIN c' /\ c'.queue = queue
      /\ c'.asked = asked /\ c'.listed = {} /\ c'.record = rec /\ c'.calls = c.calls
      /\ c'.granted = c.granted /\ c'.told = {}
      /\ c'.mixed = c.mixed /\ c'.again = c.again
      /\ c'.killed = c.killed
  <2> HIDE DEF queue, asked, rec
  <2> QED BY <1>0, <1>2, <1>4 DEF But, CallFields
<1>6. Queued(c.calls, queue) /\ Fewer(c.queue, queue)
  <2>1. c.queue \in [Workers -> Seq(Calling)]
    BY <1>0 DEF Queued
  <2>2. \A x \in Workers : Drops(c.queue, queue, x)
    BY <2>1 DEF Drops
  <2>3. DOMAIN queue = Workers /\ queue = [x \in Workers |-> queue[x]]
    BY <2>1
  <2> HIDE DEF queue
  <2> QED BY <1>0, <2>2, <2>3, QueuedFewer
<1>7. Asked(c.calls, {}, asked, c.killed, {}, c.mixed)
  BY DEF Asked
<1>8. ASSUME NEW x \in Workers, NEW i \in Calls!AllIds
      PROVE  /\ rec[x][i] \in {None} \cup Notes
             /\ c.record[x][i] # None => rec[x][i] # None
             /\ rec[x][i] # None => rec[x][i].status # "pending"
  <2>1. c.record[x][i] \in {None} \cup Notes
    BY <1>0 DEF Noted
  <2>2. rec[x][i] = Then(c.record[x][i])
    OBVIOUS
  <2> HIDE DEF rec
  <2>3. CASE c.record[x][i] # None /\ c.record[x][i].status = "pending"
    <3> DEFINE e == [c.record[x][i] EXCEPT !.status = "uncertain"]
    <3>1. e \in Notes /\ e.status = "uncertain"
      BY <2>1, <2>3 DEF Notes
    <3>2. e # None
      BY <3>1, NotesAreSome
    <3>3. rec[x][i] = e
      BY <2>2, <2>3
    <3> QED BY <3>1, <3>2, <3>3
  <2>4. CASE ~(c.record[x][i] # None /\ c.record[x][i].status = "pending")
    <3>1. rec[x][i] = c.record[x][i]
      BY <2>2, <2>4
    <3> QED BY <2>1, <2>4, <3>1
  <2> QED BY <2>3, <2>4
<1>9. rec \in [Workers -> [Calls!AllIds -> {None} \cup Notes]]
  <2> DEFINE Row(x) == [i \in Calls!AllIds |-> Then(c.record[x][i])]
  <2>1. ASSUME NEW x \in Workers PROVE Row(x) \in [Calls!AllIds -> {None} \cup Notes]
    <3>1. ASSUME NEW i \in Calls!AllIds PROVE Then(c.record[x][i]) \in {None} \cup Notes
      <4>1. rec[x][i] = Then(c.record[x][i])
        OBVIOUS
      <4> QED BY <1>8, <4>1
    <3> HIDE DEF Then
    <3> QED BY <3>1
  <2>2. rec = [x \in Workers |-> Row(x)]
    OBVIOUS
  <2> HIDE DEF Row, rec
  <2> QED BY <2>1, <2>2
<1>10. Stronger(c.record, rec)
  <2> HIDE DEF rec
  <2> QED BY <1>8, <1>9 DEF Stronger
<1>11. \A n \in 1..Len(c.calls) : rec[c.calls[n].by][c.calls[n].id].status # "pending"
  <2> TAKE n \in 1..Len(c.calls)
  <2>0. c.calls[n] \in Calling
    BY <1>0 DEF Numbered
  <2>1. c.calls[n].by \in Workers /\ c.calls[n].id \in Calls!AllIds
    BY <2>0 DEF Calling
  <2>2. c.record[c.calls[n].by][c.calls[n].id] # None
    BY <1>0 DEF Noted
  <2> HIDE DEF rec
  <2> QED BY <1>8, <2>1, <2>2
<1>12. Approvals(c.calls, c.granted, c.granted)
  BY GrantedIs DEF Approvals
<1> HIDE DEF queue, asked, rec
<1> QED BY <1>2, <1>4, <1>5, <1>6, <1>7, <1>10, <1>11, <1>12, CutKeeps


\* Issue.
LEMMA OpenIs ==
    ASSUME CallsAre(c), NEW a \in Workers, NEW id, NEW n, Own(c.calls, a, id, n),
           IsOpen(c.running, c.queue, c.told, n)
    PROVE  id \in Calls!Open(a)
<1>0. /\ Queued(c.calls, c.queue) /\ Started(c.calls, c.running)
      /\ Asked(c.calls, c.told, c.asked, c.killed, c.listed, c.mixed)
  BY DEF CallsAre
<1> DEFINE mine == Calls!Range(c.queue[a])
                   \cup {y \in c.told \cup {z.call : z \in c.running} : y.by = a}
<1>1. Calls!Open(a) = {x.id : x \in mine}
  BY DEF Calls!Open
<1>2. c.calls[n].by = a /\ c.calls[n].id = id
  BY DEF Own
<1>3. CASE UnderWay(c.running, n)
  <2>1. PICK z \in c.running : z.call.n = n
    BY <1>3 DEF UnderWay
  <2>2. z.call = c.calls[n]
    BY <1>0, <2>1 DEF Started, IsCall
  <2> QED BY <1>1, <1>2, <2>2
<1>4. CASE IsQueued(c.queue, n)
  <2>1. PICK o \in Workers : \E i \in 1..Len(c.queue[o]) : c.queue[o][i].n = n
    BY <1>4 DEF IsQueued
  <2>2. PICK i \in 1..Len(c.queue[o]) : c.queue[o][i].n = n
    BY <2>1
  <2>3. IsCall(c.calls, c.queue[o][i]) /\ c.queue[o][i].by = o
    BY <1>0 DEF Queued
  <2>4. c.queue[o][i] = c.calls[n] /\ o = a
    BY <1>2, <2>2, <2>3 DEF IsCall
  <2>5. c.queue[a] \in Seq(Calling)
    BY <1>0 DEF Queued
  <2>6. c.queue[a][i] \in Calls!Range(c.queue[a])
    BY <2>4, <2>5 DEF Calls!Range
  <2> QED BY <1>1, <1>2, <2>4, <2>6
<1>5. CASE \E x \in c.told : x.n = n
  <2>1. PICK x \in c.told : x.n = n
    BY <1>5
  <2>2. x = c.calls[n]
    BY <1>0, <2>1 DEF Asked, IsCall
  <2> QED BY <1>1, <1>2, <2>2
<1> QED BY <1>3, <1>4, <1>5 DEF IsOpen

\* One more call, and what it leaves of the others.
Further(calls, calls2, call) ==
    /\ calls2 \in Seq(Calling) /\ Len(calls) \in Nat /\ Len(calls2) = Len(calls) + 1
    /\ calls2[Len(calls) + 1] = call /\ call.n = Len(calls) + 1 /\ call \in Calling
    /\ call.id \in CallIds[call.by]
    /\ \A n \in 1..Len(calls) : calls2[n] = calls[n]

LEMMA FurtherIs ==
    ASSUME NEW calls, NEW calls2, NEW call, Further(calls, calls2, call)
    PROVE  /\ \A x : IsCall(calls, x) => IsCall(calls2, x)
           /\ IsCall(calls2, call)
           /\ \A n \in 1..Len(calls2) : n \in 1..Len(calls) \/ n = call.n
           /\ 1..Len(calls) \subseteq 1..Len(calls2) /\ call.n \in 1..Len(calls2)
           /\ call.n \notin 1..Len(calls)
BY DEF Further, IsCall

LEMMA NumberedFurther ==
    ASSUME NEW calls, NEW calls2, NEW call, Further(calls, calls2, call), Numbered(calls),
           Len(calls) < Issued
    PROVE  Numbered(calls2)
<1>1. Issued \in Nat
  BY AgentsAssumption DEF AgentsAssumption, Calls!CallsAssumption
<1>2. Len(calls2) <= Issued
  BY <1>1 DEF Further
<1>3. ASSUME NEW n \in 1..Len(calls2)
      PROVE  calls2[n].n = n /\ calls2[n].id \in CallIds[calls2[n].by]
  <2>1. CASE n \in 1..Len(calls)
    BY <2>1 DEF Further, Numbered
  <2>2. CASE n = call.n
    BY <2>2 DEF Further
  <2> QED BY <2>1, <2>2, FurtherIs
<1> QED BY <1>2, <1>3 DEF Numbered, Further

LEMMA EarnedFurther ==
    ASSUME NEW v, CallsAre(v), NEW calls2, NEW call, Further(v.calls, calls2, call),
           NEW queue2, \A n \in 1..Len(v.calls) : IsQueued(queue2, n) => IsQueued(v.queue, n),
           Len(v.calls) < Issued, NEW mixed, v.mixed \subseteq mixed
    PROVE  Earned(calls2, v.effects, v.granted, v.running, queue2, mixed)
<1>0. /\ Earned(v.calls, v.effects, v.granted, v.running, v.queue, v.mixed)
      /\ Started(v.calls, v.running)
  BY DEF CallsAre
<1>1. ASSUME NEW n \in 1..Len(v.calls), ~calls2[n].claim
      PROVE  EarnedBy(calls2, v.effects, v.granted, v.running, queue2, mixed, n)
  <2>1. calls2[n] = v.calls[n]
    BY DEF Further
  <2>2. EarnedBy(v.calls, v.effects, v.granted, v.running, v.queue, v.mixed, n)
    BY <1>0, <1>1, <2>1 DEF Earned
  <2>3. ASSUME NEW i, Approved(v.calls, v.granted, i) PROVE Approved(calls2, v.granted, i)
    <3>1. PICK m \in 1..Len(v.calls) : v.calls[m].id = i /\ v.granted[m] > 0
      BY <2>3 DEF Approved
    <3>2. m \in 1..Len(calls2) /\ calls2[m] = v.calls[m]
      BY FurtherIs DEF Further
    <3> QED BY <3>1, <3>2 DEF Approved
  <2> QED BY <2>1, <2>2, <2>3 DEF EarnedBy
<1>2. EarnedBy(calls2, v.effects, v.granted, v.running, queue2, mixed, call.n)
  <2>1. call.n \in 1..Issued /\ call.n > Len(v.calls)
    BY GrantedIs DEF Further
  <2>2. v.effects[call.n] = 0 /\ v.granted[call.n] = 0
    BY <2>1, GrantedIs
  <2>3. ~UnderWay(v.running, call.n)
    BY <1>0, <2>1, FurtherIs DEF UnderWay, Started, IsCall
  <2> QED BY <2>2, <2>3 DEF EarnedBy
<1>3. ASSUME NEW n \in (Len(calls2) + 1)..Issued
      PROVE  v.effects[n] = 0 /\ v.granted[n] = 0
  <2>1. n \in 1..Issued /\ n > Len(v.calls)
    BY DEF Further
  <2> QED BY <2>1, GrantedIs
<1>4. ASSUME NEW n \in 1..Len(calls2) PROVE v.granted[n] \in Nat
  <2>1. CASE n \in 1..Len(v.calls)
    BY <1>0, <2>1 DEF Earned
  <2>2. CASE n = call.n
    BY <1>2, <2>2 DEF EarnedBy
  <2> QED BY <2>1, <2>2, FurtherIs
<1> QED BY <1>0, <1>1, <1>2, <1>3, <1>4, FurtherIs DEF Earned

LEMMA SingleFurther ==
    ASSUME NEW v, CallsAre(v), NEW calls2, NEW call, Further(v.calls, calls2, call),
           NEW queue2, NEW told2, NEW record2, Len(v.calls) < Issued,
           \A n \in 1..Len(v.calls) : IsQueued(queue2, n) => IsQueued(v.queue, n),
           \A x \in told2 : x \in v.told \/ x.n = call.n,
           NEW again, v.again \subseteq again,
           <<call.by, call.id>> \notin again => \A n :
               Own(v.calls, call.by, call.id, n) => ~IsOpen(v.running, v.queue, v.told, n),
           \A a \in Workers : \A id \in Calls!AllIds :
                v.record[a][id] # None => record2[a][id] = v.record[a][id]
    PROVE  Single(calls2, v.effects, v.running, queue2, told2, record2, v.killed, again)
<1> SUFFICES ASSUME NEW a \in Workers, NEW id \in CallIds[a], Unclaimed(calls2, a, id),
                    <<a, id>> \notin again
             PROVE  OnceFor(calls2, v.effects, v.running, queue2, told2, record2, v.killed, a, id)
  BY DEF Single
<1>0. /\ Started(v.calls, v.running) /\ Numbered(v.calls) /\ Noted(v.calls, v.record)
      /\ Single(v.calls, v.effects, v.running, v.queue, v.told, v.record, v.killed, v.again)
  BY DEF CallsAre
<1>1. \A n : Own(calls2, a, id, n) => Own(v.calls, a, id, n) \/ (n = call.n /\ call.by = a
                                                                  /\ call.id = id)
  BY FurtherIs DEF Own, Further
<1>2. \A n : Own(v.calls, a, id, n) => Own(calls2, a, id, n) /\ n \in 1..Len(v.calls)
                                       /\ calls2[n] = v.calls[n] /\ n # call.n
  BY FurtherIs DEF Own, Further
<1>3. Unclaimed(v.calls, a, id)
  <2> SUFFICES ASSUME NEW n \in 1..Len(v.calls), Own(v.calls, a, id, n)
               PROVE  ~v.calls[n].claim
    BY DEF Unclaimed
  <2> QED BY <1>2, FurtherIs DEF Unclaimed
<1>4. OnceFor(v.calls, v.effects, v.running, v.queue, v.told, v.record, v.killed, a, id)
  BY <1>0, <1>3 DEF Single
<1>5. v.effects[call.n] = 0 /\ ~UnderWay(v.running, call.n)
  <2>1. call.n \in 1..Issued /\ call.n > Len(v.calls)
    BY GrantedIs DEF Further
  <2>2. ~UnderWay(v.running, call.n)
    BY <1>0, FurtherIs DEF UnderWay, Started, IsCall
  <2> QED BY <2>1, <2>2, GrantedIs
<1>6. ASSUME NEW n, Own(v.calls, a, id, n), IsOpen(v.running, queue2, told2, n)
      PROVE  IsOpen(v.running, v.queue, v.told, n)
  BY <1>2, <1>6 DEF IsOpen
<1>7. ASSUME NEW m, NEW n, Own(calls2, a, id, m), Own(calls2, a, id, n),
             IsOpen(v.running, queue2, told2, m), IsOpen(v.running, queue2, told2, n)
      PROVE  m = n
  <2>1. CASE Own(v.calls, a, id, m) /\ Own(v.calls, a, id, n)
    BY <1>4, <1>6, <1>7, <2>1 DEF OnceFor
  <2>2. CASE call.by = a /\ call.id = id
    BY <1>1, <1>6, <1>7, <2>2
  <2> QED BY <1>1, <1>7, <2>1, <2>2
<1>8. ASSUME NEW m, NEW n, Looks(calls2, a, id, m), Looks(calls2, a, id, n), v.effects[m] > 0
      PROVE  ~UnderWay(v.running, n) /\ (v.effects[n] > 0 => m = n)
  <2>1. Own(v.calls, a, id, m) /\ Looks(v.calls, a, id, m)
    BY <1>1, <1>2, <1>5, <1>8 DEF Looks
  <2>2. CASE n = call.n
    BY <1>5, <2>2
  <2>3. CASE n # call.n
    <3>1. Looks(v.calls, a, id, n)
      BY <1>1, <1>2, <1>8, <2>3 DEF Looks
    <3> QED BY <1>4, <1>8, <2>1, <3>1 DEF OnceFor
  <2> QED BY <2>2, <2>3
<1>9. ASSUME NEW m, Looks(calls2, a, id, m), v.effects[m] > 0
      PROVE  record2[a][id].status # "pending" \/ a \in v.killed
  <2>1. Own(v.calls, a, id, m) /\ Looks(v.calls, a, id, m)
    BY <1>1, <1>2, <1>5, <1>9 DEF Looks
  <2>2. v.record[a][id].status # "pending" \/ a \in v.killed
    BY <1>4, <1>9, <2>1 DEF OnceFor
  <2>3. v.record[a][id] # None
    BY <1>0, <2>1 DEF Noted, Own
  <2> QED BY <2>2, <2>3, IdsOfWorkers
<1> QED BY <1>7, <1>8, <1>9 DEF OnceFor


LEMMA IssueKeeps ==
    ASSUME CallsAre(c), NEW w0 \in Workers, Calls!Issue(w0)
    PROVE  CallsAre(c')
<1>0. /\ CallFields \subseteq DOMAIN c /\ Numbered(c.calls) /\ Noted(c.calls, c.record)
      /\ Queued(c.calls, c.queue) /\ Asked(c.calls, c.told, c.asked, c.killed, c.listed, c.mixed)
      /\ Started(c.calls, c.running)
  BY DEF CallsAre
<1>1. PICK id \in CallIds[w0], command \in Calls!Commands, claim \in Claims :
        LET call == [by |-> w0, id |-> id, command |-> command, claim |-> claim,
                     n |-> Len(c.calls) + 1]
            prior == c.record[w0][id]
            note == IF prior # None THEN prior
                    ELSE [command |-> command, status |-> "pending"]
            twice == IF id \in Calls!Open(w0) THEN {<<w0, id>>} ELSE {}
            v == Calls!Listed([c EXCEPT !.calls = Append(@, call), !.record[w0][id] = note,
                                        !.again = @ \cup twice], call)
        IN  c' = IF Calls!Risky(call)
                 THEN [v EXCEPT !.asked[id] = call, !.told = @ \cup {call},
                                !.mixed = @ \cup Calls!Sharing(c, call)]
                 ELSE [v EXCEPT !.queue[w0] = Append(@, call)]
  BY Zenon DEF Calls!Issue
<1> DEFINE call == [by |-> w0, id |-> id, command |-> command, claim |-> claim,
                    n |-> Len(c.calls) + 1]
           calls == Append(c.calls, call)
           prior == c.record[w0][id]
           note == IF prior # None THEN prior
                   ELSE [command |-> command, status |-> "pending"]
           rec == [c.record EXCEPT ![w0] = [c.record[w0] EXCEPT ![id] = note]]
           twice == IF id \in Calls!Open(w0) THEN {<<w0, id>>} ELSE {}
           again == c.again \cup twice
           g == [c EXCEPT !.calls = calls, !.record = rec, !.again = again]
           h == Calls!Listed([c EXCEPT !.calls = Append(@, call), !.record[w0][id] = note,
                                       !.again = @ \cup twice], call)
           asked == [h.asked EXCEPT ![id] = call]
           told == h.told \cup {call}
           mixed == h.mixed \cup Calls!Sharing(c, call)
           queue == [h.queue EXCEPT ![w0] = Append(h.queue[w0], call)]
<1>2. /\ Len(c.calls) < Issued
      /\ c' = IF Calls!Risky(call)
              THEN [h EXCEPT !.asked = asked, !.told = told, !.mixed = mixed]
              ELSE [h EXCEPT !.queue = queue]
  <2>1. Len(c.calls) < Issued
    BY DEF Calls!Issue
  <2>4. c' = IF Calls!Risky(call)
             THEN [h EXCEPT !.asked[id] = call, !.told = @ \cup {call},
                            !.mixed = @ \cup Calls!Sharing(c, call)]
             ELSE [h EXCEPT !.queue[w0] = Append(@, call)]
    BY Zenon, <1>1
  <2> HIDE DEF h, call
  <2> QED BY <2>1, <2>4
<1>25. again = c.again \cup twice /\ (<<w0, id>> \notin again => id \notin Calls!Open(w0))
  OBVIOUS
<1>3. /\ command \in Orders /\ claim \in BOOLEAN /\ id \in Calls!AllIds
      /\ c.calls \in Seq(Calling) /\ Len(c.calls) \in Nat
  <2>1. Claims \subseteq BOOLEAN
    BY AgentsAssumption DEF AgentsAssumption, Calls!CallsAssumption
  <2>2. c.calls \in Seq(Calling)
    BY <1>0 DEF Numbered
  <2>3. id \in Calls!AllIds
    BY IdsOfWorkers
  <2> QED BY <2>1, <2>2, <2>3 DEF Calls!Commands, Orders
<1>4. /\ call \in Calling /\ call.by = w0 /\ call.id = id /\ call.command = command
      /\ call.claim = claim /\ call.n = Len(c.calls) + 1
  BY <1>3 DEF Calling
<1>23. Calls!Risky(call) <=> command = "rm"
  BY <1>4 DEF Calls!Risky
<1>24. h = IF claim THEN [g EXCEPT !.listed = g.listed \cup {call}] ELSE g
  <2>1. g = [c EXCEPT !.calls = Append(@, call), !.record[w0][id] = note, !.again = @ \cup twice]
    <3> HIDE DEF call, note, twice
    <3> QED OBVIOUS
  <2>2. h = Calls!Listed(g, call)
    BY Zenon, <2>1
  <2> HIDE DEF call, g, h
  <2> QED BY <1>4, <2>2 DEF Calls!Listed
<1> HIDE DEF call, twice
<1>5. Further(c.calls, calls, call)
  BY <1>3, <1>4 DEF Further
<1>6. c.record \in [Workers -> [Calls!AllIds -> {None} \cup Notes]]
  BY <1>0 DEF Noted
<1>7. note \in Notes /\ note # None
  <2>1. c.record[w0][id] \in {None} \cup Notes
    BY <1>3, <1>6
  <2>2. [command |-> command, status |-> "pending"] \in Notes
    BY <1>3 DEF Notes
  <2>3. note \in Notes
    BY <2>1, <2>2
  <2> QED BY <2>3, NotesAreSome
<1>8. c.record[w0][id] # None => note = c.record[w0][id]
  OBVIOUS
<1> HIDE DEF note
<1>9. /\ rec \in [Workers -> [Calls!AllIds -> {None} \cup Notes]]
      /\ \A a \in Workers : \A i \in Calls!AllIds :
            rec[a][i] = IF a = w0 /\ i = id THEN note ELSE c.record[a][i]
  <2> DEFINE row == [c.record[w0] EXCEPT ![id] = note]
  <2>1. c.record[w0] \in [Calls!AllIds -> {None} \cup Notes]
    BY <1>6
  <2>2. /\ row \in [Calls!AllIds -> {None} \cup Notes]
        /\ \A i \in Calls!AllIds : row[i] = IF i = id THEN note ELSE c.record[w0][i]
    BY <1>7, <2>1
  <2> HIDE DEF row
  <2>3. rec = [c.record EXCEPT ![w0] = row]
    BY DEF row
  <2> HIDE DEF rec
  <2> QED BY <1>6, <2>2, <2>3
<1> HIDE DEF rec, calls, again
<1>10. /\ DOMAIN g = DOMAIN c /\ g.calls = calls /\ g.record = rec /\ g.again = again
       /\ \A x \in DOMAIN c \ {"calls", "record", "again"} : g[x] = c[x]
  BY <1>0 DEF CallFields
<1> HIDE DEF g, h
<1>11. /\ DOMAIN h = DOMAIN g /\ h.listed = c.listed \cup (IF claim THEN {call} ELSE {})
       /\ \A x \in DOMAIN g \ {"listed"} : h[x] = g[x]
  <2>1. g.listed = c.listed /\ "listed" \in DOMAIN g
    BY <1>0, <1>10 DEF CallFields
  <2>2. CASE claim
    BY <1>24, <2>1, <2>2
  <2>3. CASE ~claim
    BY <1>24, <2>1, <2>3
  <2> QED BY <2>2, <2>3
<1>12. /\ CallFields \subseteq DOMAIN h /\ h.calls = calls /\ h.record = rec
       /\ h.asked = c.asked /\ h.told = c.told /\ h.queue = c.queue
       /\ h.mixed = c.mixed /\ h.again = again
       /\ h.killed = c.killed
       /\ h.running = c.running /\ h.effects = c.effects /\ h.granted = c.granted
  BY <1>0, <1>10, <1>11 DEF CallFields
<1> DEFINE Rest(q) ==
       /\ CallFields \subseteq DOMAIN q /\ q.calls = calls /\ q.record = rec
       /\ q.again = again
       /\ q.killed = c.killed /\ q.running = c.running /\ q.effects = c.effects
       /\ q.granted = c.granted /\ q.listed = c.listed \cup (IF claim THEN {call} ELSE {})
<1>13. \/ (/\ Rest(c') /\ command = "rm" /\ c'.asked = asked /\ c'.told = told
           /\ c'.queue = c.queue /\ c'.mixed = mixed)
       \/ (/\ Rest(c') /\ command = "look" /\ c'.asked = c.asked /\ c'.told = c.told
           /\ c'.queue = queue /\ c'.mixed = c.mixed)
  <2> HIDE DEF asked, told, queue, mixed
  <2>1. CASE command = "rm"
    BY <1>2, <1>11, <1>12, <1>23, <2>1 DEF CallFields
  <2>2. CASE command = "look"
    BY <1>2, <1>23, <1>11, <1>12, <2>2 DEF CallFields
  <2> QED BY <1>3, <2>1, <2>2 DEF Orders
<1>14. /\ asked = [c.asked EXCEPT ![id] = call] /\ told = c.told \cup {call}
       /\ queue = [c.queue EXCEPT ![w0] = Append(c.queue[w0], call)]
       /\ mixed = c.mixed \cup Calls!Sharing(c, call)
  BY <1>12
<1> HIDE DEF asked, told, queue, mixed
<1>15. Numbered(calls)
  <2>1. call.id \in CallIds[call.by]
    BY <1>4
  <2> QED BY <1>0, <1>2, <1>5, NumberedFurther
<1>16. Noted(calls, rec)
  <2>1. ASSUME NEW n \in 1..Len(calls) PROVE rec[calls[n].by][calls[n].id] # None
    <3>1. calls[n] \in Calling
      BY <1>15 DEF Numbered
    <3>2. calls[n].by \in Workers /\ calls[n].id \in Calls!AllIds
      BY <3>1 DEF Calling
    <3>3. CASE n \in 1..Len(c.calls)
      <4>1. calls[n] = c.calls[n]
        BY <1>5, <3>3 DEF Further
      <4>2. c.record[calls[n].by][calls[n].id] # None
        BY <1>0, <3>3, <4>1 DEF Noted
      <4> QED BY <1>7, <1>9, <3>2, <4>2
    <3>4. CASE n = call.n
      <4>1. calls[n] = call
        BY <1>5, <3>4 DEF Further
      <4> QED BY <1>3, <1>4, <1>7, <1>9, <4>1
    <3> QED BY <1>5, <3>3, <3>4, FurtherIs
  <2> QED BY <1>9, <2>1 DEF Noted
<1>17. Started(calls, c.running)
  BY <1>0, <1>5, FurtherIs DEF Started
<1>18. /\ \A a \in Workers : \A i \in Calls!AllIds :
            c.record[a][i] # None => rec[a][i] = c.record[a][i]
       /\ <<call.by, call.id>> \notin again => \A n :
            Own(c.calls, call.by, call.id, n) => ~IsOpen(c.running, c.queue, c.told, n)
       /\ c.again \subseteq again
  BY <1>4, <1>8, <1>9, <1>25, OpenIs
<1>19. /\ \A x \in c.told : x.id = id => x.n \in mixed /\ call.n \in mixed
       /\ c.mixed \subseteq mixed
  <2>1. ASSUME NEW x \in c.told, x.id = id
        PROVE  {x.n, call.n} \subseteq Calls!Sharing(c, call)
    BY <1>4, <2>1 DEF Calls!Sharing
  <2> QED BY <1>14, <2>1
<1>20. ASSUME NEW listed, listed = c.listed \cup (IF claim THEN {call} ELSE {})
       PROVE  /\ listed \subseteq Calling
              /\ \A x \in listed : IsCall(calls, x) /\ x.claim
  BY <1>0, <1>4, <1>5, <1>20, FurtherIs DEF Asked
<1>21. CASE /\ Rest(c') /\ command = "rm" /\ c'.asked = asked /\ c'.told = told
            /\ c'.queue = c.queue /\ c'.mixed = mixed
  <2>1. Asked(calls, told, asked, c.killed, c'.listed, mixed)
    <3>1. /\ told \subseteq Calling
          /\ \A x \in told : IsCall(calls, x) /\ x.command = "rm"
      BY <1>0, <1>4, <1>5, <1>14, <1>21, FurtherIs DEF Asked
    <3>2. \A x, y \in told : x.id = y.id => x = y \/ x.n \in mixed
      BY <1>0, <1>4, <1>14, <1>19 DEF Asked
    <3>3. DOMAIN asked = Calls!AllIds
      BY <1>0, <1>14 DEF Asked
    <3>4. ASSUME NEW i \in Calls!AllIds, asked[i] # None
          PROVE  asked[i] \in told /\ asked[i].id = i
      BY <1>0, <1>4, <1>14, <3>4 DEF Asked
    <3>5. ASSUME NEW x \in told, x.by \notin c.killed, x.n \notin mixed
          PROVE  asked[x.id] = x
      <4>1. CASE x = call
        BY <1>0, <1>3, <1>4, <1>14, <4>1 DEF Asked
      <4>2. CASE x \in c.told
        BY <1>0, <1>14, <1>19, <3>5, <4>2 DEF Asked
      <4> QED BY <1>14, <4>1, <4>2
    <3>6. /\ c'.listed \subseteq Calling
          /\ \A x \in c'.listed : IsCall(calls, x) /\ x.claim
      BY <1>20, <1>21
    <3> QED BY <3>1, <3>2, <3>3, <3>4, <3>5, <3>6 DEF Asked
  <2>2. Queued(calls, c.queue)
    BY <1>0, <1>5, FurtherIs DEF Queued
  <2>3. Earned(calls, c.effects, c.granted, c.running, c.queue, mixed)
    BY <1>2, <1>5, <1>19, EarnedFurther
  <2>4. \A x \in told : x \in c.told \/ x.n = call.n
    BY <1>14
  <2>5. Single(calls, c.effects, c.running, c.queue, told, rec, c.killed, again)
    BY <1>2, <1>5, <1>18, <2>4, SingleFurther
  <2> QED BY <1>15, <1>16, <1>17, <1>21, <2>1, <2>2, <2>3, <2>5 DEF CallsAre
<1>22. CASE /\ Rest(c') /\ command = "look" /\ c'.asked = c.asked /\ c'.told = c.told
            /\ c'.queue = queue /\ c'.mixed = c.mixed
  <2>1. Asked(calls, c.told, c.asked, c.killed, c'.listed, c.mixed)
    <3>1. /\ c'.listed \subseteq Calling
          /\ \A x \in c'.listed : IsCall(calls, x) /\ x.claim
      BY <1>20, <1>22
    <3> QED BY <1>0, <1>5, <3>1, FurtherIs DEF Asked
  <2>2. c.queue \in [Workers -> Seq(Calling)] /\ c.queue[w0] \in Seq(Calling)
    BY <1>0 DEF Queued
  <2>3. /\ queue \in [Workers -> Seq(Calling)]
        /\ \A a \in Workers : a # w0 => queue[a] = c.queue[a]
        /\ Len(queue[w0]) = Len(c.queue[w0]) + 1
        /\ \A i \in 1..Len(c.queue[w0]) : queue[w0][i] = c.queue[w0][i]
        /\ queue[w0][Len(c.queue[w0]) + 1] = call
        /\ Len(c.queue[w0]) \in Nat
    <3>1. Append(c.queue[w0], call) \in Seq(Calling)
      BY <1>4, <2>2
    <3>2. queue[w0] = Append(c.queue[w0], call)
      BY <1>14, <2>2
    <3>3. queue \in [Workers -> Seq(Calling)]
      BY <1>14, <2>2, <3>1
    <3>4. \A a \in Workers : a # w0 => queue[a] = c.queue[a]
      BY <1>14, <2>2
    <3> QED BY <1>4, <2>2, <3>2, <3>3, <3>4
  <2>4. ASSUME NEW a \in Workers, NEW i \in 1..Len(queue[a])
        PROVE  \/ i \in 1..Len(c.queue[a]) /\ queue[a][i] = c.queue[a][i]
               \/ (a = w0 /\ i = Len(c.queue[w0]) + 1 /\ queue[a][i] = call)
    <3>1. CASE a # w0
      BY <2>3, <3>1
    <3>2. CASE a = w0
      <4>1. i \in 1..Len(c.queue[w0]) \/ i = Len(c.queue[w0]) + 1
        BY <2>3, <3>2
      <4> QED BY <2>3, <3>2, <4>1
    <3> QED BY <3>1, <3>2
  <2>5. ASSUME NEW a \in Workers, NEW i \in 1..Len(c.queue[a])
        PROVE  /\ IsCall(c.calls, c.queue[a][i]) /\ IsCall(calls, c.queue[a][i])
               /\ c.queue[a][i].by = a
               /\ c.queue[a][i].command = "look" /\ c.queue[a][i].n # call.n
               /\ \A o \in 1..Len(c.queue[a]) : o # i => c.queue[a][o].n # c.queue[a][i].n
    <3>1. /\ IsCall(c.calls, c.queue[a][i]) /\ c.queue[a][i].by = a
          /\ c.queue[a][i].command = "look"
          /\ \A o \in 1..Len(c.queue[a]) : o # i => c.queue[a][o].n # c.queue[a][i].n
      BY <1>0 DEF Queued
    <3> QED BY <1>5, <3>1, FurtherIs DEF IsCall
  <2>6. ASSUME NEW a \in Workers, NEW i \in 1..Len(queue[a])
        PROVE  /\ IsCall(calls, queue[a][i]) /\ queue[a][i].by = a
               /\ queue[a][i].command = "look"
    <3>1. IsCall(calls, call)
      BY <1>5, FurtherIs
    <3> QED BY <1>4, <1>22, <2>4, <2>5, <3>1
  <2>7. ASSUME NEW a \in Workers, NEW i \in 1..Len(queue[a]), NEW o \in 1..Len(queue[a]), o # i
        PROVE  queue[a][o].n # queue[a][i].n
    <3>1. CASE i \in 1..Len(c.queue[a]) /\ queue[a][i] = c.queue[a][i]
      <4>1. CASE o \in 1..Len(c.queue[a]) /\ queue[a][o] = c.queue[a][o]
        BY <2>5, <2>7, <3>1, <4>1
      <4>2. CASE queue[a][o] = call
        BY <2>5, <3>1, <4>2
      <4> QED BY <2>4, <4>1, <4>2
    <3>2. CASE a = w0 /\ i = Len(c.queue[w0]) + 1 /\ queue[a][i] = call
      <4>1. o \in 1..Len(c.queue[a]) /\ queue[a][o] = c.queue[a][o]
        BY <2>4, <2>7, <3>2
      <4> QED BY <2>5, <3>2, <4>1
    <3> QED BY <2>4, <3>1, <3>2
  <2>8. Queued(calls, queue)
    BY <2>3, <2>6, <2>7 DEF Queued
  <2>9. \A n \in 1..Len(c.calls) : IsQueued(queue, n) => IsQueued(c.queue, n)
    <3> SUFFICES ASSUME NEW n \in 1..Len(c.calls), NEW a \in Workers,
                        NEW i \in 1..Len(queue[a]), queue[a][i].n = n
                 PROVE  IsQueued(c.queue, n)
      BY DEF IsQueued
    <3>1. n # call.n
      BY <1>5, FurtherIs
    <3> QED BY <2>4, <3>1 DEF IsQueued
  <2>10. Earned(calls, c.effects, c.granted, c.running, queue, c.mixed)
    BY <1>2, <1>5, <2>9, EarnedFurther
  <2>11. Single(calls, c.effects, c.running, queue, c.told, rec, c.killed, again)
    BY <1>2, <1>5, <1>18, <2>9, SingleFurther
  <2> QED BY <1>15, <1>16, <1>17, <1>22, <2>1, <2>8, <2>10, <2>11 DEF CallsAre
<1> QED BY <1>13, <1>21, <1>22


LEMMA CallsStart ==
    ASSUME Calls!Init
    PROVE  CallsAre(c)
<1>1. /\ CallFields \subseteq DOMAIN c /\ c.calls = <<>> /\ c.running = {} /\ c.told = {}
      /\ c.listed = {} /\ c.killed = {} /\ c.queue = [x \in Workers |-> <<>>]
      /\ c.asked = [i \in Calls!AllIds |-> None]
      /\ c.record = [x \in Workers |-> [i \in Calls!AllIds |-> None]]
      /\ c.effects = [n \in 1..Issued |-> 0] /\ c.granted = [n \in 1..Issued |-> 0]
  BY DEF Calls!Init, CallFields
<1>2. c.calls \in Seq(Calling) /\ Len(c.calls) = 0 /\ Issued \in Nat
  BY <1>1, AgentsAssumption DEF AgentsAssumption, Calls!CallsAssumption
<1>3. Numbered(c.calls)
  BY <1>2 DEF Numbered
<1>4. Noted(c.calls, c.record)
  BY <1>1, <1>2 DEF Noted
<1>5. Queued(c.calls, c.queue)
  <2>1. c.queue \in [Workers -> Seq(Calling)] /\ \A a \in Workers : Len(c.queue[a]) = 0
    BY <1>1
  <2> QED BY <2>1 DEF Queued
<1>6. Started(c.calls, c.running) /\ Asked(c.calls, c.told, c.asked, c.killed, c.listed, c.mixed)
  BY <1>1 DEF Started, Asked
<1>7. Earned(c.calls, c.effects, c.granted, c.running, c.queue, c.mixed)
  BY <1>1, <1>2 DEF Earned
<1>8. Single(c.calls, c.effects, c.running, c.queue, c.told, c.record, c.killed, c.again)
  BY <1>2 DEF Single, OnceFor, Own, Looks
<1> QED BY <1>1, <1>3, <1>4, <1>5, <1>6, <1>7, <1>8 DEF CallsAre

LEMMA CallsStep ==
    ASSUME CallsAre(c), Calls!Next \/ UNCHANGED c
    PROVE  CallsAre(c')
<1>1. CASE UNCHANGED c
  BY <1>1
<1>2. ASSUME NEW w0 \in Workers, Calls!Issue(w0) \/ Calls!RunQueued(w0) \/ Calls!Kill(w0)
      PROVE  CallsAre(c')
  BY <1>2, IssueKeeps, RunQueuedKeeps, CallsKilled
<1>3. CASE Calls!LeaderAnswers \/ Calls!UserAnswers \/ Calls!Ends \/ Calls!Restart
  BY <1>3, LeaderAnswersKeeps, UserAnswersKeeps, CallEnds, CallsRestarted
<1> QED BY <1>1, <1>2, <1>3 DEF Calls!Next

LEMMA CallsHold ==
    ASSUME CallsAre(c)
    PROVE  Calls!CallsAreExact
<1>0. /\ Numbered(c.calls) /\ Noted(c.calls, c.record)
      /\ Asked(c.calls, c.told, c.asked, c.killed, c.listed, c.mixed)
      /\ Earned(c.calls, c.effects, c.granted, c.running, c.queue, c.mixed)
      /\ Single(c.calls, c.effects, c.running, c.queue, c.told, c.record, c.killed, c.again)
  BY DEF CallsAre
<1>1. DOMAIN c.calls = 1..Len(c.calls) /\ c.calls \in Seq(Calling)
  BY <1>0 DEF Numbered
<1>5. ASSUME NEW n \in DOMAIN c.calls
      PROVE  c.calls[n].command = "look" \/ c.calls[n].command = "rm"
  <2>1. c.calls[n] \in Calling
    BY <1>1
  <2> QED BY <2>1 DEF Calling, Orders
<1>2. Calls!EffectsAreEarned
  <2> SUFFICES ASSUME NEW n \in DOMAIN c.calls, ~c.calls[n].claim
               PROVE  /\ ~Calls!Risky(c.calls[n]) => c.effects[n] <= 1
                      /\ Calls!Risky(c.calls[n]) =>
                            /\ n \in c.mixed \/ c.effects[n] <= c.granted[n]
                            /\ c.effects[n] > 0 => \E m \in DOMAIN c.calls :
                                    c.calls[m].id = c.calls[n].id /\ c.granted[m] > 0
    BY DEF Calls!EffectsAreEarned
  <2>1. EarnedBy(c.calls, c.effects, c.granted, c.running, c.queue, c.mixed, n)
    BY <1>0, <1>1 DEF Earned
  <2>2. c.calls[n].command = "look" \/ c.calls[n].command = "rm"
    BY <1>5
  <2>3. CASE c.calls[n].command = "look"
    BY <2>1, <2>3 DEF EarnedBy, Calls!Risky
  <2>4. CASE c.calls[n].command = "rm"
    <3>1. n \in c.mixed \/ c.effects[n] <= c.granted[n]
      BY <2>1, <2>4 DEF EarnedBy
    <3>2. c.effects[n] > 0 => Approved(c.calls, c.granted, c.calls[n].id)
      BY <2>1, <2>4 DEF EarnedBy
    <3> QED BY <1>1, <2>4, <3>1, <3>2 DEF Approved, Calls!Risky
  <2> QED BY <2>2, <2>3, <2>4
<1>3. Calls!RecordIsKept
  <2> SUFFICES ASSUME NEW a \in Workers, NEW id \in CallIds[a], <<a, id>> \notin c.again,
                      \A n \in DOMAIN c.calls :
                          c.calls[n].by = a /\ c.calls[n].id = id => ~c.calls[n].claim,
                      NEW m \in DOMAIN c.calls, NEW n \in DOMAIN c.calls,
                      c.calls[m].by = a /\ c.calls[m].id = id /\ ~Calls!Risky(c.calls[m]),
                      c.calls[n].by = a /\ c.calls[n].id = id /\ ~Calls!Risky(c.calls[n]),
                      c.effects[m] > 0, c.effects[n] > 0
               PROVE  m = n /\ c.effects[n] = 1
    BY DEF Calls!RecordIsKept, Calls!Once
  <2>1. Unclaimed(c.calls, a, id)
    BY <1>1 DEF Unclaimed, Own
  <2>2. OnceFor(c.calls, c.effects, c.running, c.queue, c.told, c.record, c.killed, a, id)
    BY <1>0, <2>1 DEF Single
  <2>3. Looks(c.calls, a, id, m) /\ Looks(c.calls, a, id, n)
    BY <1>1, <1>5 DEF Looks, Own, Calls!Risky
  <2>4. m = n
    BY <2>2, <2>3 DEF OnceFor
  <2>5. EarnedBy(c.calls, c.effects, c.granted, c.running, c.queue, c.mixed, n)
    BY <1>0, <1>1 DEF Earned
  <2>6. c.effects[n] \in Nat /\ c.effects[n] <= 1
    BY <2>3, <2>5 DEF EarnedBy, Looks
  <2> QED BY <2>4, <2>6
<1>4. Calls!AskedIsOwed
  BY <1>0 DEF Calls!AskedIsOwed, Asked
<1> QED BY <1>2, <1>3, <1>4 DEF Calls!CallsAreExact

\* A command takes effect as often as it was issued or approved, whatever is replayed, taken
\* back or cut off (tools/registry.ts, runtime/LeaderHandler.ts), but for calls that share an
\* approval, of which each needs one for their id; what an agent did and was told is in the
\* context that is rebuilt from the bus or is known to be missing, but for what `Unsaid'
\* names (context/LogContextBuilder.ts), and how agents ended stays in the trace
\* (runtime/AgentOSJournal.ts).
THEOREM DeedsTheorem == AgentsSpec => []DeedsAreKept
<1> DEFINE I == /\ part = "calls" => CallsAre(c)
                /\ part = "replay" => ReplayIs(b)
                /\ part = "trace" => TraceIs(j)
<1>0. /\ Ring \in Nat \ {0} /\ Shown \in Nat \ {0} /\ TopFacts \in Nat
      /\ Trace!TraceAssumption
  BY AgentsAssumption DEF AgentsAssumption, Replay!ReplayAssumption
<1>1. AgentsInit => I
  BY <1>0, CallsStart, ReplayStart, TraceStart DEF AgentsInit
<1>2. I /\ [AgentsNext]_vars => I'
  <2> SUFFICES ASSUME I, [AgentsNext]_vars PROVE I'
    OBVIOUS
  <2>1. CASE AgentsNext
    <3>1. ASSUME part' = "calls" PROVE CallsAre(c')
      <4>1. Calls!Next /\ CallsAre(c)
        BY <2>1, <3>1 DEF AgentsNext, LeaderStep
      <4> QED BY <4>1, CallsStep
    <3>2. ASSUME part' = "replay" PROVE ReplayIs(b')
      <4>1. Replay!Next /\ ReplayIs(b)
        BY <2>1, <3>2 DEF AgentsNext, LeaderStep
      <4> QED BY <1>0, <4>1, ReplayStep
    <3>3. ASSUME part' = "trace" PROVE TraceIs(j')
      <4>1. Trace!Next /\ TraceIs(j)
        BY <2>1, <3>3 DEF AgentsNext, LeaderStep
      <4> QED BY <1>0, <4>1, TraceStep
    <3> QED BY <3>1, <3>2, <3>3
  <2>2. CASE UNCHANGED vars
    BY <2>2 DEF vars, rest
  <2> QED BY <2>1, <2>2
<1>3. I => DeedsAreKept
  BY <1>0, CallsHold, ReplayHolds, TraceHolds DEF DeedsAreKept
<1> QED BY <1>1, <1>2, <1>3, PTL DEF AgentsSpec

=============================================================================
