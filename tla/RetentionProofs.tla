---------------------------- MODULE RetentionProofs ----------------------------
(***************************************************************************)
(* Proofs about retention (module Retention): the files on disk always     *)
(* load, and backups and history visits are served while others delete.    *)
(*                                                                         *)
(* RetentionInv has a part about the files (Ordered, Founded), one about   *)
(* each process (Works), one about pairs of processes (Spared), one about  *)
(* the visit (Ahead), and one that holds until maintenance overlaps        *)
(* (Calm).  StepKeeps reduces a step of process p to the parts about the   *)
(* files and p itself; PlainKeeps does so for steps that leave the files   *)
(* alone, EndKeeps for those that end a run, WritesKeep for those that     *)
(* write copy 1, ExtendsKeeps for sealing, VisitKeeps for a visit.         *)
(***************************************************************************)
EXTENDS Retention, FiniteSetTheorems, TLAPS

-----------------------------------------------------------------------------
(* The invariant. *)

\* Where a process is: publishing a baseline, in a backup, deleting.
Publishes == {"prepare", "second", "repair", "repaired"}
Saves == {"backup", "enter", "copy"}
Deletes == {"retire", "pins", "delete"}
Maintains(p) ==
  \/ pc[p] \in Publishes \cup Deletes
  \/ pc[p] \in Saves /\ job[p].next = "retire"

\* One base is at most as far as another.
Behind(b, c) == b.gen <= c.gen /\ b.segs <= c.segs /\ (b.gen = c.gen => b.segs = c.segs)

\* The types of a job, of a request and of a visit.
Jobs ==
  [gen : Nat, from : Nat, to : Nat, next : {"idle", "retire"}, write : Bases, seq : Nat,
   left : SUBSET Segments, retire : SUBSET Segments, pinned : SUBSET Segments]

Asks == [from : Nat, to : Nat]
Visits ==
  [todo : Seq(Asks), upto : Nat, heard : Seq(SUBSET Nat), prev : Int,
   state : {"none", "open", "done", "refused"}]

\* The types of the variables.
Typed ==
  /\ len \in Nat /\ cuts \in Seq(Nat)
  /\ raw \subseteq Segments /\ arch \subseteq Segments
  /\ copies \in [1..2 -> Bases]
  /\ ckpt \in [gen : Nat, segs : SUBSET Segments]
  /\ lock \in Procs \cup {Free} /\ store \in Procs \cup {Free}
  /\ snaps \in Seq(Nat)
  /\ pins \in [Procs -> SUBSET Segments]
  /\ base \in [Procs -> Bases]
  /\ pc \in [Procs -> Labels]
  /\ job \in [Procs -> Jobs]
  /\ overlap \in BOOLEAN
  /\ visit \in Visits

\* Segments and snapshots are in order.
Ordered ==
  /\ \A k \in Segments : 0 < cuts[k] /\ cuts[k] <= len
  /\ \A k, l \in Segments : k < l => cuts[k] < cuts[l]
  /\ Len(snaps) <= Keep
  /\ \A i \in 1..Len(snaps) : 0 < snaps[i] /\ snaps[i] <= len /\ snaps[i] <= snaps[1]

\* The first copy is the best and nothing is ahead of it; what it needs is there.
Founded ==
  /\ copies[1].segs <= Len(cuts) /\ (copies[1].gen = 0 => copies[1].segs = 0)
  /\ 1..copies[1].segs \subseteq arch
  /\ (copies[1].segs + 1)..Len(cuts) \subseteq raw
  /\ Behind(copies[2], copies[1])
  /\ ckpt.gen <= copies[1].gen
  /\ ckpt.gen = copies[1].gen => ckpt.segs \subseteq raw \ 1..copies[1].segs

\* What process p relies on.
Works(p) ==
  /\ Behind(base[p], copies[1])
  /\ (pc[p] \in {"second", "repaired"}) <=> (lock = p)
  /\ (pc[p] = "copy") <=> (store = p)
  /\ lock = p => job[p].write = copies[1]
  /\ pc[p] \notin {"idle", "dead"} => len > 0
  /\ pc[p] \in {"idle", "dead"} => job[p].next = "idle"
  /\ pc[p] \in Publishes \cup {"retire", "pins"} => job[p].next = "retire"
  /\ pc[p] = "prepare" =>
       /\ job[p].gen <= copies[1].gen
       /\ job[p].from <= job[p].to /\ job[p].to <= Len(cuts)
       /\ 1..job[p].from \subseteq arch
       /\ job[p].gen = copies[1].gen => copies[1].segs <= job[p].to
  /\ job[p].retire \subseteq 1..copies[1].segs
  /\ job[p].retire # {} => pc[p] \in {"pins", "delete"} /\ job[p].next = "retire"
  /\ pc[p] \in {"enter", "copy"} =>
       /\ 0 < job[p].seq /\ job[p].seq <= len
       /\ job[p].left \subseteq pins[p] /\ job[p].left \subseteq raw

\* Who has read the pins spares what was captured by then; who captures later needs nothing old.
Spared ==
  \A p, q \in Procs :
    (pc[p] \in {"enter", "copy"} /\ pc[q] = "delete") =>
      job[p].left \cap job[q].retire \subseteq job[q].pinned

\* What is deleted is in the newest snapshot.
Past == \A k \in Segments \ raw : Len(snaps) > 0 /\ cuts[k] <= snaps[1]

\* As long as maintenance has not overlapped, one process maintains, and what it has
\* backed up reaches beyond what it may delete.
Single == \A p, q \in Procs : Maintains(p) /\ Maintains(q) => p = q

Steady(p) ==
  /\ pc[p] \in Saves \cup Deletes /\ job[p].next = "retire" => copies[2] = copies[1]
  /\ pc[p] \in {"enter", "copy"} \cup Deletes /\ job[p].next = "retire" /\ copies[1].segs > 0 =>
       cuts[copies[1].segs] <= job[p].seq
  /\ pc[p] \in Deletes /\ job[p].next = "retire" => Len(snaps) > 0 /\ job[p].seq <= snaps[1]

\* The requests of a visit go on from one to the next up to its boundary.
Onward(todo, upto) ==
  \A i \in 1..Len(todo) :
    /\ 0 < todo[i].from /\ todo[i].from <= todo[i].to
    /\ todo[i].to = IF i = Len(todo) THEN upto ELSE todo[i + 1].from - 1

\* What was heard is the memory up to position n, in order.
Told(heard, n) ==
  /\ \A i, j \in 1..Len(heard) : i < j => \A e \in heard[i], f \in heard[j] : e < f
  /\ \A e \in 1..n : IsMemory(e) => \E i \in 1..Len(heard) : e \in heard[i]
  /\ \A i \in 1..Len(heard) : heard[i] \subseteq 1..n

\* How far a visit has come.
Reached(v) == IF v.todo = << >> THEN v.upto ELSE v.todo[1].from - 1

\* An open visit has heard everything before its next request.
Ahead ==
  visit.state \in {"open", "done"} =>
    /\ visit.upto <= len /\ Onward(visit.todo, visit.upto) /\ Told(visit.heard, Reached(visit))
    /\ visit.state = "done" => visit.todo = << >>

\* The parts that are about all processes, and about times without overlap.
Everybody == \A p \in Procs : Works(p)
Calm ==
  ~overlap => /\ (copies[2].segs + 1)..Len(cuts) \subseteq raw
              /\ Past /\ Single /\ \A p \in Procs : Steady(p)

RetentionInv == Typed /\ Ordered /\ Founded /\ Spared /\ Ahead /\ Everybody /\ Calm

-----------------------------------------------------------------------------
(* The initial states, and lemmas about steps. *)

\* The empty journal satisfies the invariant.
LEMMA InitHolds == Init => RetentionInv
<1> SUFFICES ASSUME Init PROVE RetentionInv
  OBVIOUS
<1> USE DEF Init, NoBase, NoJob, NoVisit, Bases, Jobs, Segments, Labels
<1>1. Typed
  <2>1. NoVisit \in Visits
    BY DEF Visits
  <2>2. NoJob \in Jobs /\ Len(<< >>) = 0
    OBVIOUS
  <2>3. copies \in [1..2 -> Bases] /\ ckpt \in [gen : Nat, segs : SUBSET Segments]
    OBVIOUS
  <2>4. pins \in [Procs -> SUBSET Segments] /\ base \in [Procs -> Bases]
    OBVIOUS
  <2>5. job \in [Procs -> Jobs] /\ visit \in Visits
    BY <2>1, <2>2
  <2>6. pc \in [Procs -> Labels]
    OBVIOUS
  <2> HIDE DEF NoVisit, NoJob, NoBase, Bases, Jobs, Labels, Segments
  <2>7. cuts \in Seq(Nat) /\ snaps \in Seq(Nat) /\ len \in Nat
    OBVIOUS
  <2>8. /\ raw \subseteq Segments /\ arch \subseteq Segments /\ overlap \in BOOLEAN
        /\ lock \in Procs \cup {Free} /\ store \in Procs \cup {Free}
    OBVIOUS
  <2> HIDE DEF Init
  <2> QED BY <2>3, <2>4, <2>5, <2>6, <2>7, <2>8 DEF Typed
<1>2. Ordered
  BY KeepAssumption DEF Ordered
<1>3. Founded
  BY DEF Founded, Behind
<1>4. Spared
  BY DEF Spared
<1>5. Ahead
  <2>1. NoVisit.state = "none"
    OBVIOUS
  <2> QED BY <2>1 DEF Ahead
<1>6. Everybody
  BY FreeAssumption DEF Everybody, Works, Behind, Publishes
<1>7. Calm
  BY DEF Calm, Past, Single, Steady, Maintains, Publishes, Saves, Deletes
<1> QED BY <1>1, <1>2, <1>3, <1>4, <1>5, <1>6, <1>7 DEF RetentionInv

\* Copy 1 is the one that loads.
LEMMA FirstIsBest == ASSUME Typed, Founded PROVE Best = copies[1]
BY DEF Typed, Founded, Behind, Best, Bases

\* The other processes.
Alone(p) ==
  \A q \in Procs \ {p} :
    /\ pc'[q] = pc[q] /\ job'[q] = job[q] /\ base'[q] = base[q] /\ pins'[q] = pins[q]
    /\ (lock' = q) <=> (lock = q)
    /\ (store' = q) <=> (store = q)

\* The log, its archives and copy 1 only grow; nobody's captured files go.
Grows(p) ==
  /\ len' \in Nat /\ len <= len'
  /\ copies' \in [1..2 -> Bases] /\ Behind(copies[1], copies'[1])
  /\ (copies' = copies \/ lock = Free \/ lock = p)
  /\ Len(cuts') \in Nat /\ Len(cuts) <= Len(cuts')
  /\ arch \subseteq arch'
  /\ \A q \in Procs \ {p} : pc[q] \in {"enter", "copy"} => job[q].left \cap raw \subseteq raw'

\* A step of p leaves what every other process relies on.
LEMMA OthersWork ==
  ASSUME Typed, Founded, Everybody, NEW p, Alone(p), Grows(p),
         NEW q \in Procs \ {p}
  PROVE  Works(q)'
<1>1. Works(q) /\ job[q] \in Jobs /\ base[q] \in Bases /\ copies[1] \in Bases
        /\ copies'[1] \in Bases
  BY DEF Everybody, Typed, Grows
<1>2. /\ pc'[q] = pc[q] /\ job'[q] = job[q] /\ base'[q] = base[q] /\ pins'[q] = pins[q]
      /\ (lock' = q) <=> (lock = q)
      /\ (store' = q) <=> (store = q)
  BY DEF Alone
<1>3. lock = q => copies'[1] = copies[1]
  BY FreeAssumption DEF Grows
<1>4. Behind(base[q], copies'[1])
  BY <1>1 DEF Works, Grows, Behind, Bases
<1>5. /\ len \in Nat /\ len' \in Nat /\ len <= len'
      /\ Len(cuts) \in Nat /\ Len(cuts') \in Nat /\ Len(cuts) <= Len(cuts') /\ arch \subseteq arch'
      /\ pc[q] \in {"enter", "copy"} => job[q].left \cap raw \subseteq raw'
      /\ copies[1].gen <= copies'[1].gen /\ copies[1].segs <= copies'[1].segs
      /\ copies[1].gen = copies'[1].gen => copies[1].segs = copies'[1].segs
  BY DEF Typed, Grows, Behind
<1>6. pc[q] = "prepare" =>
       /\ job[q].gen <= copies'[1].gen
       /\ job[q].from <= job[q].to /\ job[q].to <= Len(cuts')
       /\ 1..job[q].from \subseteq arch'
       /\ job[q].gen = copies'[1].gen => copies'[1].segs <= job[q].to
  <2>1. /\ job[q].gen \in Nat /\ job[q].from \in Nat /\ job[q].to \in Nat
        /\ copies[1].gen \in Nat /\ copies'[1].gen \in Nat
        /\ copies[1].segs \in Nat /\ copies'[1].segs \in Nat
    BY <1>1 DEF Jobs, Bases
  <2> HIDE DEF Jobs, Bases
  <2>2. pc[q] = "prepare" =>
       /\ job[q].gen <= copies[1].gen
       /\ job[q].from <= job[q].to /\ job[q].to <= Len(cuts)
       /\ 1..job[q].from \subseteq arch
       /\ job[q].gen = copies[1].gen => copies[1].segs <= job[q].to
    BY <1>1 DEF Works
  <2> QED BY <2>1, <2>2, <1>5
<1>7. job[q].retire \subseteq 1..copies'[1].segs
  BY SMTT(20), <1>1, <1>5 DEF Works, Bases, Jobs
<1>8. pc[q] \in {"enter", "copy"} =>
       /\ 0 < job[q].seq /\ job[q].seq <= len'
       /\ job[q].left \subseteq pins[q] /\ job[q].left \subseteq raw'
  BY <1>1, <1>5 DEF Works, Jobs
<1>9. pc[q] \notin {"idle", "dead"} => len' > 0
  BY <1>1, <1>5 DEF Works
<1> QED BY <1>1, <1>2, <1>3, <1>4, <1>6, <1>7, <1>8, <1>9 DEF Works

\* What a visit has heard stays complete when only the log grows.
LEMMA AheadKept ==
  ASSUME Typed, Ahead, visit' = visit, len' \in Nat, len <= len' PROVE Ahead'
<1>1. visit.upto \in Nat /\ len \in Nat
  BY DEF Typed, Visits
<1> QED BY <1>1 DEF Ahead

\* What spares captured files goes on when captures and deletions only shrink.
LEMMA SparedKept ==
  ASSUME Spared,
         \A q \in Procs : pc'[q] \in {"enter", "copy"} =>
            pc[q] \in {"enter", "copy"} /\ job'[q].left \subseteq job[q].left,
         \A q \in Procs : pc'[q] = "delete" =>
            \/ job'[q].retire = {}
            \/ pc[q] = "delete" /\ job'[q].retire \subseteq job[q].retire
                                /\ job[q].pinned \subseteq job'[q].pinned
  PROVE  Spared'
BY DEF Spared

\* The invariant survives appending an event.
LEMMA AppendEventKeeps == RetentionInv /\ AppendEvent => RetentionInv'
<1> SUFFICES ASSUME RetentionInv, AppendEvent PROVE RetentionInv'
  OBVIOUS
<1> USE DEF AppendEvent, RetentionInv
<1>0. Segments' = Segments /\ Jobs' = Jobs /\ len \in Nat /\ len' \in Nat /\ len <= len'
  BY DEF Segments, Jobs, Typed
<1>1. Typed'
  BY <1>0 DEF Typed
<1>2. Ordered'
  <2>1. \A k \in Segments : cuts[k] \in Nat
    BY DEF Typed, Segments
  <2>2. \A i \in 1..Len(snaps) : snaps[i] \in Nat
    BY DEF Typed
  <2> QED BY <1>0, <2>1, <2>2 DEF Ordered
<1>3. Founded'
  BY DEF Founded, Behind
<1>4. Spared'
  BY DEF Spared
<1>5. Ahead'
  BY AheadKept DEF Typed
<1>6. Everybody'
  BY DEF Everybody, Works, Behind, Typed, Jobs
<1>7. Calm'
  BY DEF Calm, Past, Single, Steady, Maintains, Segments
<1> QED BY <1>1, <1>2, <1>3, <1>4, <1>5, <1>6, <1>7

\* A step of p keeps the invariant when it keeps the parts about the files and about p.
LEMMA StepKeeps ==
  ASSUME RetentionInv, NEW p \in Procs, Alone(p), Grows(p), visit' = visit,
         Typed', Ordered', Founded', Works(p)', Spared', Calm'
  PROVE  RetentionInv'
<1>1. \A q \in Procs \ {p} : Works(q)'
  BY OthersWork DEF RetentionInv
<1>2. Everybody'
  BY <1>1 DEF Everybody
<1>3. Ahead'
  BY AheadKept DEF RetentionInv, Grows
<1> QED BY <1>2, <1>3 DEF RetentionInv

\* A step that leaves files and snapshots keeps the parts about them.
LEMMA FilesKept ==
  ASSUME RetentionInv, UNCHANGED <<files, snaps>>, NEW p \in Procs
  PROVE  Grows(p) /\ Ordered' /\ Founded' /\ Segments' = Segments /\ Jobs' = Jobs
<1>1. Segments' = Segments /\ Jobs' = Jobs
  BY DEF files, Segments, Jobs
<1>2. copies[1] \in Bases /\ len \in Nat /\ Len(cuts) \in Nat
  BY DEF RetentionInv, Typed
<1>3. Behind(copies[1], copies[1]) /\ len <= len /\ Len(cuts) <= Len(cuts)
  BY <1>2 DEF Behind, Bases
<1>4. Grows(p)
  BY <1>2, <1>3 DEF RetentionInv, files, Grows, Typed
<1>5. Ordered' /\ Founded'
  BY <1>1 DEF RetentionInv, files, Ordered, Founded, Behind
<1> QED BY <1>1, <1>4, <1>5

\* A step that leaves files and snapshots keeps the part for maintenance that does not overlap.
LEMMA CalmKept ==
  ASSUME RetentionInv, UNCHANGED <<files, snaps>>, overlap' = overlap, NEW p \in Procs, Alone(p),
         Maintains(p)' => Maintains(p), ~overlap => Steady(p)'
  PROVE  Calm'
<1>1. \A q \in Procs \ {p} : (Maintains(q)' <=> Maintains(q)) /\ (Steady(q) => Steady(q)')
  BY DEF Alone, Maintains, Steady, files
<1> QED BY <1>1 DEF RetentionInv, Calm, Past, Single, Segments, files

\* The invariant survives an unlocked refresh.
LEMMA ReadKeeps == ASSUME RetentionInv, NEW p \in Procs, Read(p) PROVE RetentionInv'
<1> USE DEF Read, Refresh
<1>1. Grows(p) /\ Ordered' /\ Founded' /\ Segments' = Segments /\ Jobs' = Jobs
  BY FilesKept
<1>2. Best = copies[1] /\ copies[1] \in Bases
  BY FirstIsBest DEF RetentionInv, Typed
<1>3. base' = [base EXCEPT ![p] = copies[1]] /\ base \in [Procs -> Bases]
        /\ base' \in [Procs -> Bases]
  BY <1>2 DEF RetentionInv, Typed
<1>4. Alone(p)
  BY <1>3 DEF Alone
<1>5. Typed'
  BY <1>1, <1>3 DEF RetentionInv, Typed, files
<1>6. Works(p)'
  BY <1>2, <1>3 DEF RetentionInv, Everybody, Works, files, Behind, Bases
<1>7. Spared'
  BY DEF RetentionInv, Spared
<1>8. Calm'
  BY <1>4, CalmKept DEF RetentionInv, Maintains, Steady, Calm, files
<1> QED BY <1>1, <1>4, <1>5, <1>6, <1>7, <1>8, StepKeeps

\* The invariant survives the start of a backup.
LEMMA BackupOnlyKeeps == ASSUME RetentionInv, NEW p \in Procs, BackupOnly(p) PROVE RetentionInv'
<1> USE DEF BackupOnly, At, Goto
<1>1. Grows(p) /\ Ordered' /\ Founded' /\ Segments' = Segments /\ Jobs' = Jobs
  BY FilesKept
<1>2. pc \in [Procs -> Labels] /\ pc' \in [Procs -> Labels] /\ pc'[p] = "backup" /\ Alone(p)
  BY DEF RetentionInv, Typed, Labels, Alone
<1>3. Typed'
  BY <1>1, <1>2 DEF RetentionInv, Typed, files
<1>4. Works(p)'
  BY <1>2 DEF RetentionInv, Everybody, Works, files, Behind, Bases, Publishes
<1>5. Spared'
  BY <1>2, SparedKept DEF RetentionInv, Alone
<1>6. Calm'
  BY <1>2, CalmKept DEF RetentionInv, Everybody, Works, Maintains, Steady, Calm, files, Publishes,
     Saves, Deletes
<1> QED BY <1>1, <1>2, <1>3, <1>4, <1>5, <1>6, StepKeeps

\* A job with the files still to copy replaced.
LEMMA NewLeft ==
  ASSUME NEW j \in Jobs, NEW s \in SUBSET Segments, NEW u, u = [j EXCEPT !.left = s]
  PROVE  /\ u \in Jobs /\ u.left = s /\ u.gen = j.gen /\ u.from = j.from /\ u.to = j.to
         /\ u.next = j.next /\ u.write = j.write /\ u.seq = j.seq
         /\ u.retire = j.retire /\ u.pinned = j.pinned
BY DEF Jobs

\* A job with the last event of its backup replaced.
LEMMA NewSeq ==
  ASSUME NEW j \in Jobs, NEW s \in Nat, NEW u, u = [j EXCEPT !.seq = s]
  PROVE  /\ u \in Jobs /\ u.left = j.left /\ u.gen = j.gen /\ u.from = j.from /\ u.to = j.to
         /\ u.next = j.next /\ u.write = j.write /\ u.seq = s
         /\ u.retire = j.retire /\ u.pinned = j.pinned
BY DEF Jobs

\* A job with the segments to delete replaced.
LEMMA NewRetire ==
  ASSUME NEW j \in Jobs, NEW s \in SUBSET Segments, NEW u, u = [j EXCEPT !.retire = s]
  PROVE  /\ u \in Jobs /\ u.left = j.left /\ u.gen = j.gen /\ u.from = j.from /\ u.to = j.to
         /\ u.next = j.next /\ u.write = j.write /\ u.seq = j.seq
         /\ u.retire = s /\ u.pinned = j.pinned
BY DEF Jobs

\* A job with the pins it has read replaced.
LEMMA NewPinned ==
  ASSUME NEW j \in Jobs, NEW s \in SUBSET Segments, NEW u, u = [j EXCEPT !.pinned = s]
  PROVE  /\ u \in Jobs /\ u.left = j.left /\ u.gen = j.gen /\ u.from = j.from /\ u.to = j.to
         /\ u.next = j.next /\ u.write = j.write /\ u.seq = j.seq
         /\ u.retire = j.retire /\ u.pinned = s
BY DEF Jobs

\* A job with the count of archived segments replaced.
LEMMA NewFrom ==
  ASSUME NEW j \in Jobs, NEW s \in Nat, NEW u, u = [j EXCEPT !.from = s]
  PROVE  /\ u \in Jobs /\ u.left = j.left /\ u.gen = j.gen /\ u.from = s /\ u.to = j.to
         /\ u.next = j.next /\ u.write = j.write /\ u.seq = j.seq
         /\ u.retire = j.retire /\ u.pinned = j.pinned
BY DEF Jobs

\* A job with the baseline it writes replaced.
LEMMA NewWrite ==
  ASSUME NEW j \in Jobs, NEW s \in Bases, NEW u, u = [j EXCEPT !.write = s]
  PROVE  /\ u \in Jobs /\ u.left = j.left /\ u.gen = j.gen /\ u.from = j.from /\ u.to = j.to
         /\ u.next = j.next /\ u.write = s /\ u.seq = j.seq
         /\ u.retire = j.retire /\ u.pinned = j.pinned
BY DEF Jobs

\* The empty job.
LEMMA NoJobIs ==
  /\ NoJob \in Jobs /\ NoJob.left = {} /\ NoJob.gen = 0 /\ NoJob.from = 0 /\ NoJob.to = 0
  /\ NoJob.next = "idle" /\ NoJob.write = NoBase /\ NoJob.seq = 0
  /\ NoJob.retire = {} /\ NoJob.pinned = {}
BY DEF NoJob, Jobs, NoBase, Bases

\* The step of process p leaves it at label l with job j.
Row(p, l, j) ==
  /\ pc' = [pc EXCEPT ![p] = l] /\ l \in Labels
  /\ job' = [job EXCEPT ![p] = j] /\ j \in Jobs'

\* What a change of one row leaves.
LEMMA RowIs ==
  ASSUME Typed, NEW p \in Procs, NEW l, NEW j, Row(p, l, j), Jobs \subseteq Jobs'
  PROVE  /\ pc' \in [Procs -> Labels] /\ job' \in [Procs -> Jobs'] /\ pc'[p] = l /\ job'[p] = j
         /\ \A q \in Procs \ {p} : pc'[q] = pc[q] /\ job'[q] = job[q]
BY DEF Row, Typed

\* A row that is not changed.
LEMMA StillIs ==
  ASSUME Typed, NEW p \in Procs
  PROVE  /\ pc = [pc EXCEPT ![p] = pc[p]] /\ pc[p] \in Labels
         /\ job = [job EXCEPT ![p] = job[p]] /\ job[p] \in Jobs
         /\ pins = [pins EXCEPT ![p] = pins[p]] /\ base = [base EXCEPT ![p] = base[p]]
BY DEF Typed

\* A step of process p at the end of which it is at label l with job j, pins ps
\* and base b; it may let its locks go, or take the store, and leaves the files alone.
Plain(p, l, j, ps, b) ==
  /\ UNCHANGED <<files, snaps, visit, overlap>>
  /\ Row(p, l, j)
  /\ ps \in SUBSET Segments /\ pins' = [pins EXCEPT ![p] = ps]
  /\ b \in Bases /\ base' = [base EXCEPT ![p] = b]
  /\ lock' = lock \/ (lock' = Free /\ lock = p)
  /\ store' = store \/ (store' = Free /\ store = p) \/ (store' = p /\ store = Free)

\* The same, row by row.
After(p, l, j, ps, b) ==
  /\ pc'[p] = l /\ job'[p] = j /\ pins'[p] = ps /\ base'[p] = b
  /\ \A q \in Procs \ {p} : pc'[q] = pc[q] /\ job'[q] = job[q]
  /\ UNCHANGED <<len, cuts, raw, arch, copies, ckpt, snaps, visit, overlap>>

\* A plain step, variable by variable.
LEMMA PlainIs ==
  ASSUME RetentionInv, NEW p \in Procs, NEW l, NEW j, NEW ps, NEW b, Plain(p, l, j, ps, b)
  PROVE  After(p, l, j, ps, b)
<1>1. Jobs' = Jobs
  BY DEF Plain, files, Jobs, Segments
<1>2. /\ pc'[p] = l /\ job'[p] = j
      /\ \A q \in Procs \ {p} : pc'[q] = pc[q] /\ job'[q] = job[q]
  BY <1>1, RowIs DEF RetentionInv, Plain
<1>3. pins'[p] = ps /\ base'[p] = b
  BY DEF RetentionInv, Typed, Plain
<1> QED BY <1>2, <1>3 DEF After, Plain, files

\* A plain step keeps the invariant if the parts about p survive it.
LEMMA PlainKeeps ==
  ASSUME RetentionInv, NEW p \in Procs, NEW l, NEW j, NEW ps, NEW b, Plain(p, l, j, ps, b),
         Works(p)', Spared', Maintains(p)' => Maintains(p), ~overlap => Steady(p)'
  PROVE  RetentionInv'
<1> USE DEF Plain
<1>1. Grows(p) /\ Ordered' /\ Founded' /\ Segments' = Segments /\ Jobs' = Jobs
  BY FilesKept
<1>2. /\ pc' \in [Procs -> Labels] /\ job' \in [Procs -> Jobs'] /\ pc'[p] = l /\ job'[p] = j
      /\ \A q \in Procs \ {p} : pc'[q] = pc[q] /\ job'[q] = job[q]
  BY <1>1, RowIs DEF RetentionInv
<1>3. pins' \in [Procs -> SUBSET Segments] /\ pins'[p] = ps
        /\ \A q \in Procs \ {p} : pins'[q] = pins[q]
  BY DEF RetentionInv, Typed
<1>4. base' \in [Procs -> Bases] /\ base'[p] = b /\ \A q \in Procs \ {p} : base'[q] = base[q]
  BY DEF RetentionInv, Typed
<1>5. Alone(p)
  BY <1>2, <1>3, <1>4, FreeAssumption DEF Alone
<1>6. Typed'
  BY <1>1, <1>2, <1>3, <1>4 DEF RetentionInv, Typed, files
<1>7. Calm'
  BY <1>5, CalmKept
<1> QED BY <1>1, <1>5, <1>6, <1>7, StepKeeps

\* What the invariant says of process p.
Known(p) ==
  /\ Typed /\ Works(p) /\ Best = copies[1] /\ copies[1] \in Bases
  /\ copies[1].gen \in Nat /\ copies[1].segs \in Nat /\ copies[1].segs <= Len(cuts)
  /\ job[p] \in Jobs /\ base[p] \in Bases /\ pins[p] \in SUBSET Segments /\ pc[p] \in Labels
  /\ len \in Nat /\ Len(cuts) \in Nat /\ Behind(copies[1], copies[1]) /\ p # Free
  /\ pc = [pc EXCEPT ![p] = pc[p]] /\ job = [job EXCEPT ![p] = job[p]]
  /\ pins = [pins EXCEPT ![p] = pins[p]] /\ base = [base EXCEPT ![p] = base[p]]

\* The invariant, as process p uses it.
LEMMA KnownOf == ASSUME RetentionInv, NEW p \in Procs PROVE Known(p)
<1>1. Typed /\ Founded /\ Works(p)
  BY DEF RetentionInv, Everybody
<1>2. copies[1] \in Bases /\ len \in Nat /\ Len(cuts) \in Nat
  BY <1>1 DEF Typed
<1>3. copies[1].gen \in Nat /\ copies[1].segs \in Nat /\ Behind(copies[1], copies[1])
  BY <1>2 DEF Bases, Behind
<1>4. Best = copies[1] /\ copies[1].segs <= Len(cuts)
  BY <1>1, FirstIsBest DEF Founded
<1> QED BY <1>1, <1>2, <1>3, <1>4, StillIs, FreeAssumption DEF Known, Typed

\* The invariant survives capturing and pinning the sources of a backup.
LEMMA CaptureBackupKeeps == ASSUME RetentionInv, NEW p \in Procs, CaptureBackup(p)
PROVE RetentionInv'
<1>1. Known(p) /\ Segments' = Segments /\ Jobs' = Jobs
  BY KnownOf, FilesKept DEF CaptureBackup
<1> DEFINE segs == (copies[1].segs + 1)..Len(cuts)
<1>2. segs \in SUBSET Segments /\ segs \subseteq raw /\ segs \cap (1..copies[1].segs) = {}
  BY <1>1 DEF Segments, RetentionInv, Founded, Known
<1>3. PICK s : s = segs
  OBVIOUS
<1>4. PICK u : u = [job[p] EXCEPT !.left = s]
  OBVIOUS
<1>5. PICK v : v = [u EXCEPT !.seq = len]
  OBVIOUS
<1>6. job' = [job EXCEPT ![p] = v] /\ pins' = [pins EXCEPT ![p] = s]
  BY <1>1, <1>3, <1>4, <1>5 DEF CaptureBackup, Known
<1>7. /\ u \in Jobs /\ u.left = s /\ u.next = job[p].next /\ u.write = job[p].write
      /\ u.retire = job[p].retire
  <2>1. job[p] \in Jobs /\ s \in SUBSET Segments
    BY <1>1, <1>2, <1>3 DEF Known
  <2> QED BY <2>1, <1>4 DEF Jobs
<1>8. /\ v \in Jobs /\ v.left = s /\ v.seq = len /\ v.next = job[p].next /\ v.write = job[p].write
      /\ v.retire = job[p].retire
  <2>1. len \in Nat
    BY <1>1 DEF Known
  <2> QED BY <2>1, <1>5, <1>7 DEF Jobs
<1>9. Plain(p, "enter", v, s, copies[1])
  BY <1>1, <1>2, <1>3, <1>6, <1>8 DEF Plain, Row, Labels, CaptureBackup, Known, Goto, Refresh
<1>10. After(p, "enter", v, s, copies[1])
  BY <1>9, PlainIs
<1>11. At(p, "backup") /\ UNCHANGED <<lock, store>> /\ lock = Free
  BY DEF CaptureBackup
<1>12. Works(p)'
  <2>1. /\ lock # p /\ store # p /\ len > 0 /\ len \in Nat /\ job[p].retire = {}
        /\ copies[1] \in Bases /\ Behind(copies[1], copies[1]) /\ job[p].next \in {"idle", "retire"}
    BY <1>1, <1>11 DEF Works, Known, At, Jobs
  <2>2. s \subseteq raw
    BY <1>2, <1>3
  <2>3. /\ pc'[p] = "enter" /\ job'[p] = v /\ pins'[p] = s /\ base'[p] = copies[1]
        /\ lock' = lock /\ store' = store /\ len' = len /\ copies' = copies /\ cuts' = cuts
        /\ arch' = arch /\ raw' = raw
    BY <1>10, <1>11 DEF After
  <2>4. v.retire = {} /\ v.left = s /\ v.seq = len
    BY <1>8, <2>1
  <2> HIDE DEF segs
  <2> QED BY <2>1, <2>2, <2>3, <2>4 DEF Works, Publishes
<1>13. Spared'
  <2>1. \A q \in Procs : job[q].retire \subseteq 1..copies[1].segs
    BY DEF RetentionInv, Everybody, Works
  <2>2. \A q \in Procs : job'[q].retire \cap s = {}
    BY <1>2, <1>3, <1>8, <1>10, <2>1 DEF After
  <2> QED BY <1>8, <1>10, <2>2 DEF After, RetentionInv, Spared
<1>14. ~overlap => Steady(p)'
  <2>1. copies[1].segs > 0 => cuts[copies[1].segs] <= len
    BY <1>1 DEF RetentionInv, Ordered, Founded, Segments, Known
  <2>2. ~overlap /\ job[p].next = "retire" => copies[2] = copies[1]
    BY <1>11 DEF RetentionInv, Calm, Steady, At, Saves
  <2> QED BY <1>8, <1>10, <2>1, <2>2 DEF After, Steady, Saves, Deletes
<1>15. Maintains(p)' => Maintains(p)
  BY <1>8, <1>10, <1>11 DEF Maintains, Publishes, Saves, Deletes, At, After
<1> QED BY <1>9, <1>12, <1>13, <1>14, <1>15, PlainKeeps

\* A backup that is given up forgets its job and goes to deleting nothing.
LEMMA GiveUpKeeps ==
  ASSUME RetentionInv, NEW p \in Procs, GiveUpBackup(p), pc[p] \in {"enter", "copy"},
         UNCHANGED <<files, snaps, visit, overlap, base>>, lock' = lock,
         store' = store \/ (store' = Free /\ store = p), pc[p] = "copy" => store' # p
  PROVE  RetentionInv'
<1>1. Known(p) /\ Jobs' = Jobs
  BY KnownOf, FilesKept
<1>2. PICK l \in {"delete", "idle"} : l = "delete" <=> job[p].next = "retire"
  OBVIOUS
<1>3. PICK s : s = {}
  OBVIOUS
<1>4. Plain(p, l, NoJob, s, base[p])
  BY <1>1, <1>2, <1>3, NoJobIs DEF Plain, Row, Labels, Known, Goto, GiveUpBackup
<1>5. After(p, l, NoJob, s, base[p])
  BY <1>4, PlainIs
<1>6. Works(p)'
  BY <1>1, <1>2, <1>5, NoJobIs DEF After, Works, Known, Publishes
<1>7. Spared'
  BY <1>2, <1>5, NoJobIs, SparedKept DEF RetentionInv, After
<1>8. (Maintains(p)' => Maintains(p)) /\ (~overlap => Steady(p)')
  BY <1>2, <1>5, NoJobIs DEF RetentionInv, Calm, Maintains, Steady, Saves, Deletes, Publishes, After
<1> QED BY <1>4, <1>6, <1>7, <1>8, PlainKeeps

\* The invariant survives entering the backup store.
LEMMA EnterStoreKeeps == ASSUME RetentionInv, NEW p \in Procs, EnterStore(p) PROVE RetentionInv'
<1>1. Known(p) /\ Segments' = Segments /\ Jobs' = Jobs
  BY KnownOf, FilesKept DEF EnterStore
<1>2. At(p, "enter") /\ UNCHANGED <<files, lock, snaps, base, visit, overlap>>
  BY DEF EnterStore
<1>3. CASE store = Free /\ store' = p /\ Goto(p, "copy") /\ UNCHANGED <<pins, job>>
  <2>1. Plain(p, "copy", job[p], pins[p], base[p])
    BY <1>1, <1>2, <1>3 DEF Plain, Row, Labels, Known, Goto
  <2>2. After(p, "copy", job[p], pins[p], base[p])
    BY <2>1, PlainIs
  <2>3. Works(p)'
    BY <1>1, <1>2, <1>3, <2>2 DEF After, Works, Known, Publishes, At
  <2>4. Spared'
    BY <1>2, <2>2, SparedKept DEF RetentionInv, After, At
  <2>5. (Maintains(p)' => Maintains(p)) /\ (~overlap => Steady(p)')
    BY <1>2, <2>2 DEF RetentionInv, Calm, Maintains, Steady, Saves, Deletes, Publishes, After, At
  <2> QED BY <2>1, <2>3, <2>4, <2>5, PlainKeeps
<1>4. CASE store # Free /\ GiveUpBackup(p) /\ UNCHANGED store
  BY <1>2, <1>4, GiveUpKeeps DEF At
<1> QED BY <1>3, <1>4 DEF EnterStore

\* The invariant survives copying a file.
LEMMA CopyFileKeeps == ASSUME RetentionInv, NEW p \in Procs, CopyFile(p) PROVE RetentionInv'
<1>1. Known(p) /\ Segments' = Segments /\ Jobs' = Jobs
  BY KnownOf, FilesKept DEF CopyFile
<1>2. At(p, "copy") /\ UNCHANGED <<files, lock, snaps, base, visit, overlap>>
  BY DEF CopyFile
<1>3. ASSUME NEW k \in job[p].left, job' = [job EXCEPT ![p].left = @ \ {k}],
             UNCHANGED <<pc, pins, store>>
      PROVE  RetentionInv'
  <2>1. PICK u : u = [job[p] EXCEPT !.left = job[p].left \ {k}]
    OBVIOUS
  <2>2. job' = [job EXCEPT ![p] = u]
    BY <1>3, <2>1
  <2>3. /\ u \in Jobs /\ u.left = job[p].left \ {k} /\ u.next = job[p].next
             /\ u.write = job[p].write
        /\ u.retire = job[p].retire /\ u.seq = job[p].seq /\ u.pinned = job[p].pinned
    <3>1. job[p] \in Jobs
      BY <1>1 DEF Known
    <3> QED BY <3>1, <2>1 DEF Jobs
  <2>5. Plain(p, "copy", u, pins[p], base[p])
    BY <1>1, <1>2, <1>3, <2>2, <2>3 DEF Plain, Row, Known, At, Labels
  <2>6. After(p, "copy", u, pins[p], base[p])
    BY <2>5, PlainIs
  <2>7. Works(p)'
    BY <1>1, <1>2, <1>3, <2>3, <2>6 DEF Works, After, Known, Publishes, At
  <2>8. Spared'
    BY <1>2, <2>3, <2>6, SparedKept DEF RetentionInv, After, At
  <2>9. (Maintains(p)' => Maintains(p)) /\ (~overlap => Steady(p)')
    BY <1>2, <2>3, <2>6 DEF RetentionInv, Calm, Maintains, Steady, Saves, Deletes, Publishes,
       After, At
  <2> QED BY <2>5, <2>7, <2>8, <2>9, PlainKeeps
<1>4. CASE GiveUpBackup(p) /\ store' = Free
  <2>1. store = p \/ store = Free
    BY <1>1, <1>2 DEF Known, Works, At
  <2> QED BY <1>1, <1>2, <1>4, <2>1, GiveUpKeeps DEF At, Known
<1> QED BY <1>3, <1>4 DEF CopyFile

\* The invariant survives listing what may be deleted.
LEMMA ListRetiredKeeps == ASSUME RetentionInv, NEW p \in Procs, ListRetired(p) PROVE RetentionInv'
<1>1. Known(p) /\ Jobs' = Jobs
  BY KnownOf, FilesKept DEF ListRetired
<1>2. At(p, "retire") /\ UNCHANGED <<files, lock, store, snaps, pins, base, visit, overlap>>
  BY DEF ListRetired
<1>3. PICK s : s = raw \cap 1..base[p].segs
  OBVIOUS
<1>4. PICK u : u = [job[p] EXCEPT !.retire = s]
  OBVIOUS
<1>5. /\ u \in Jobs /\ u.retire = s /\ u.next = job[p].next /\ u.write = job[p].write
           /\ u.seq = job[p].seq
  <2>1. job[p] \in Jobs /\ s \in SUBSET Segments
    BY <1>1, <1>3 DEF Known, Typed
  <2> QED BY <2>1, <1>4 DEF Jobs
<1>6. Plain(p, "pins", u, pins[p], base[p])
  BY <1>1, <1>2, <1>3, <1>4, <1>5 DEF ListRetired, Goto, Plain, Row, Known, Labels
<1>7. After(p, "pins", u, pins[p], base[p])
  BY <1>6, PlainIs
<1>8. s \subseteq 1..copies[1].segs
  BY <1>1, <1>3 DEF Known, Works, Behind, Bases
<1>9. Works(p)'
  BY <1>1, <1>2, <1>5, <1>7, <1>8 DEF Works, After, Known, Publishes, At
<1>10. Spared'
  BY <1>7, SparedKept DEF RetentionInv, After
<1>11. (Maintains(p)' => Maintains(p)) /\ (~overlap => Steady(p)')
  BY <1>2, <1>5, <1>7 DEF RetentionInv, Calm, Maintains, Steady, Saves, Deletes, Publishes, After,
     At
<1> QED BY <1>6, <1>9, <1>10, <1>11, PlainKeeps

\* The invariant survives reading the pins.
LEMMA ReadPinsKeeps == ASSUME RetentionInv, NEW p \in Procs, ReadPins(p) PROVE RetentionInv'
<1>1. Known(p) /\ Jobs' = Jobs
  BY KnownOf, FilesKept DEF ReadPins
<1>2. At(p, "pins") /\ UNCHANGED <<files, lock, store, snaps, pins, base, visit, overlap>>
  BY DEF ReadPins
<1>3. PICK s : s = UNION {pins[q] : q \in Procs}
  OBVIOUS
<1>4. PICK u : u = [job[p] EXCEPT !.pinned = s]
  OBVIOUS
<1>5. /\ u \in Jobs /\ u.retire = job[p].retire /\ u.next = job[p].next /\ u.write = job[p].write
      /\ u.seq = job[p].seq /\ u.pinned = s
  <2>1. job[p] \in Jobs /\ s \in SUBSET Segments
    BY <1>1, <1>3 DEF Known, Typed
  <2> QED BY <2>1, <1>4 DEF Jobs
<1>6. Plain(p, "delete", u, pins[p], base[p])
  BY <1>1, <1>2, <1>3, <1>4, <1>5 DEF ReadPins, Goto, Plain, Row, Known, Labels
<1>7. After(p, "delete", u, pins[p], base[p])
  BY <1>6, PlainIs
<1>9. Works(p)'
  BY <1>1, <1>2, <1>5, <1>7 DEF Works, After, Known, Publishes, At
<1>10. Spared'
  <2>1. \A q \in Procs : pc[q] \in {"enter", "copy"} => job[q].left \subseteq s
    BY <1>3 DEF RetentionInv, Everybody, Works
  <2> QED BY <1>5, <1>7, <2>1 DEF RetentionInv, Spared, After
<1>11. (Maintains(p)' => Maintains(p)) /\ (~overlap => Steady(p)')
  BY <1>2, <1>5, <1>7 DEF RetentionInv, Calm, Maintains, Steady, Saves, Deletes, Publishes, After,
     At
<1> QED BY <1>6, <1>9, <1>10, <1>11, PlainKeeps

\* The invariant survives a process start.
LEMMA StartKeeps == ASSUME RetentionInv, NEW p \in Procs, Start(p) PROVE RetentionInv'
<1>1. Known(p) /\ Jobs' = Jobs
  BY KnownOf, FilesKept DEF Start
<1>2. At(p, "dead") /\ UNCHANGED <<files, lock, store, snaps, pins, job, visit, overlap>>
  BY DEF Start
<1>3. Plain(p, "idle", job[p], pins[p], copies[1])
  BY <1>1, <1>2 DEF Start, Goto, Plain, Row, Known, Labels, Refresh
<1>4. After(p, "idle", job[p], pins[p], copies[1])
  BY <1>3, PlainIs
<1>5. Works(p)'
  BY <1>1, <1>2, <1>4 DEF Works, After, Known, Publishes, At
<1>6. Spared'
  BY <1>4, SparedKept DEF RetentionInv, After
<1>7. (Maintains(p)' => Maintains(p)) /\ (~overlap => Steady(p)')
  BY <1>2, <1>4 DEF RetentionInv, Calm, Maintains, Steady, Saves, Deletes, Publishes, After, At
<1> QED BY <1>3, <1>5, <1>6, <1>7, PlainKeeps

\* Steps that end what process p was doing.
Ends(p, l, ps, b) ==
  /\ Row(p, l, NoJob)
  /\ UNCHANGED <<files, snaps, visit, overlap>>
  /\ ps \in SUBSET Segments /\ pins' = [pins EXCEPT ![p] = ps]
  /\ b \in Bases /\ base' = [base EXCEPT ![p] = b] /\ Behind(b, copies[1])
  /\ lock' = lock \/ (lock' = Free /\ lock = p)
  /\ store' = store \/ (store' = Free /\ store = p)
  /\ lock' # p /\ store' # p

\* A run that ends, with its locks let go, keeps the invariant.
LEMMA EndKeeps ==
  ASSUME RetentionInv, NEW p \in Procs, NEW l \in {"idle", "dead"}, NEW ps, NEW b, Ends(p, l, ps, b)
  PROVE  RetentionInv'
<1>1. Known(p) /\ Jobs' = Jobs
  BY KnownOf, FilesKept DEF Ends
<1>2. Plain(p, l, NoJob, ps, b)
  BY DEF Plain, Ends
<1>3. After(p, l, NoJob, ps, b)
  BY <1>2, PlainIs
<1>4. Works(p)'
  BY <1>1, <1>3, NoJobIs DEF Works, After, Known, Publishes, Ends
<1>5. Spared'
  BY <1>3, SparedKept DEF RetentionInv, After
<1>6. (Maintains(p)' => Maintains(p)) /\ (~overlap => Steady(p)')
  BY <1>3, NoJobIs DEF Maintains, Steady, Saves, Deletes, Publishes, After
<1> QED BY <1>2, <1>4, <1>5, <1>6, PlainKeeps

\* The invariant survives the death of a process.
LEMMA CrashKeeps == ASSUME RetentionInv, NEW p \in Procs, Crash(p) PROVE RetentionInv'
<1>1. Known(p) /\ Jobs' = Jobs
  BY KnownOf, FilesKept DEF Crash
<1>2. Row(p, "dead", NoJob)
  BY <1>1, NoJobIs DEF Crash, Goto, Row, Labels
<1>3. NoBase \in Bases /\ Behind(NoBase, copies[1])
  <2>1. copies[1].gen \in Nat /\ copies[1].segs \in Nat /\ (copies[1].gen = 0 => copies[1].segs = 0)
    BY <1>1 DEF Known, RetentionInv, Founded
  <2> QED BY <2>1 DEF NoBase, Bases, Behind
<1>4. UNCHANGED <<files, snaps, visit, overlap>> /\ pins' = [pins EXCEPT ![p] = {}]
        /\ base' = [base EXCEPT ![p] = NoBase]
  BY DEF Crash
<1>5. /\ lock' = lock \/ (lock' = Free /\ lock = p)
      /\ store' = store \/ (store' = Free /\ store = p)
      /\ lock' # p /\ store' # p
  BY <1>1 DEF Crash, Known
<1>6. Ends(p, "dead", {}, NoBase)
  BY <1>2, <1>3, <1>4, <1>5 DEF Ends
<1> QED BY <1>6, EndKeeps

\* The invariant survives a failed write or read.
LEMMA FailKeeps == ASSUME RetentionInv, NEW p \in Procs, Fail(p) PROVE RetentionInv'
<1>1. Known(p) /\ Jobs' = Jobs
  BY KnownOf, FilesKept DEF Fail
<1>2. /\ UNCHANGED <<files, snaps, base, visit, overlap>>
      /\ lock' = lock \/ (lock' = Free /\ lock = p)
      /\ store' = store \/ (store' = Free /\ store = p)
      /\ lock' # p /\ store' # p
  BY <1>1 DEF Fail, Known
<1>3. CASE pc[p] \in {"prepare", "second", "repaired"} /\ Finish(p) /\ UNCHANGED pins
  <2>1. Row(p, "idle", NoJob)
    BY <1>1, <1>3, NoJobIs DEF Row, Labels, Finish, Goto
  <2>2. Ends(p, "idle", pins[p], base[p])
    BY <1>1, <1>2, <1>3, <2>1 DEF Ends, Known, Works
  <2> QED BY <2>2, EndKeeps
<1>4. CASE pc[p] \in {"enter", "copy"} /\ GiveUpBackup(p)
  <2>1. lock' = lock
    BY <1>1, <1>2, <1>4 DEF Known, Works
  <2> QED BY <1>2, <1>4, <2>1, GiveUpKeeps
<1> QED BY <1>3, <1>4 DEF Fail

\* The invariant survives the end of maintenance.
LEMMA TrimKeeps == ASSUME RetentionInv, NEW p \in Procs, Trim(p) PROVE RetentionInv'
<1>1. Known(p) /\ NoJob \in Jobs
  BY KnownOf, NoJobIs
<1>2. /\ At(p, "delete") /\ job[p].retire = {}
      /\ UNCHANGED <<len, cuts, raw, arch, copies, lock, store, snaps, pins, visit, overlap>>
      /\ base' = [base EXCEPT ![p] = copies[1]]
      /\ pc' = [pc EXCEPT ![p] = "idle"] /\ job' = [job EXCEPT ![p] = NoJob]
      /\ ckpt' \in {ckpt, [gen |-> 0, segs |-> {}]}
  BY <1>1 DEF Trim, Known, Finish, Goto, Refresh
<1>3. Segments' = Segments /\ Jobs' = Jobs
  BY <1>2 DEF Segments, Jobs
<1>4. ckpt' \in [gen : Nat, segs : SUBSET Segments]
  BY <1>1, <1>2 DEF Known, Typed
<1>5. Founded'
  <2>1. \/ ckpt' = ckpt
        \/ ckpt'.gen = 0 /\ ckpt'.segs = {}
    BY <1>2
  <2> QED BY <1>1, <1>2, <2>1 DEF RetentionInv, Founded, Known
<1>6. Grows(p)
  BY <1>1, <1>2 DEF Grows, Known, Typed
<1>7. /\ pc' \in [Procs -> Labels] /\ job' \in [Procs -> Jobs] /\ base' \in [Procs -> Bases]
      /\ pc'[p] = "idle" /\ job'[p] = NoJob /\ base'[p] = copies[1] /\ Alone(p)
  BY <1>1, <1>2 DEF Known, Typed, Alone, Labels
<1>8. Typed'
  BY <1>1, <1>2, <1>3, <1>4, <1>7 DEF Known, Typed
<1>9. Ordered'
  BY <1>2, <1>3 DEF RetentionInv, Ordered
<1>10. Works(p)'
  BY <1>1, <1>2, <1>7, NoJobIs DEF Works, Known, Publishes, At
<1>11. Spared'
  BY <1>2, <1>7, SparedKept DEF RetentionInv, Alone
<1>12. Calm'
  <2>1. \A q \in Procs : Maintains(q)' => Maintains(q)
    BY <1>7 DEF Alone, Maintains, Publishes, Saves, Deletes
  <2>2. \A q \in Procs : Steady(q) => Steady(q)'
    BY <1>2, <1>7 DEF Alone, Steady, Saves, Deletes
  <2> QED BY <1>2, <1>3, <2>1, <2>2 DEF RetentionInv, Calm, Past, Single
<1> QED BY <1>2, <1>5, <1>6, <1>7, <1>8, <1>9, <1>10, <1>11, <1>12, StepKeeps

\* The invariant survives deleting one file.
LEMMA DeleteKeeps == ASSUME RetentionInv, NEW p \in Procs, Delete(p) PROVE RetentionInv'
<1>1. Known(p)
  BY KnownOf
<1>2. PICK k \in job[p].retire :
        /\ job' = [job EXCEPT ![p].retire = @ \ {k}]
        /\ (k \notin job[p].pinned /\ raw' = raw \ {k}) \/ UNCHANGED raw
  BY DEF Delete
<1>3. /\ At(p, "delete")
      /\ UNCHANGED <<len, cuts, arch, copies, ckpt, lock, store, snaps, pins, base, pc, visit,
           overlap>>
  BY DEF Delete
<1>4. Segments' = Segments /\ Jobs' = Jobs
  BY <1>3 DEF Segments, Jobs
<1>5. PICK u : u = [job[p] EXCEPT !.retire = job[p].retire \ {k}]
  OBVIOUS
<1>6. job' = [job EXCEPT ![p] = u]
  BY <1>2, <1>5
<1>7. /\ u \in Jobs /\ u.retire = job[p].retire \ {k} /\ u.next = job[p].next
           /\ u.write = job[p].write
      /\ u.left = job[p].left /\ u.seq = job[p].seq /\ u.pinned = job[p].pinned
  <2>1. job[p] \in Jobs
    BY <1>1 DEF Known
  <2> QED BY <2>1, <1>5 DEF Jobs
<1>8. job' \in [Procs -> Jobs] /\ job'[p] = u /\ Alone(p)
  BY <1>1, <1>3, <1>6, <1>7 DEF Known, Typed, Alone
<1>9. raw' \subseteq raw /\ raw \ raw' \subseteq {k} /\ (raw' # raw => k \notin job[p].pinned)
  BY <1>2
<1>10. k \in 1..copies[1].segs /\ job[p].next = "retire" /\ k \in Nat
  BY <1>1, <1>2 DEF Known, Works
<1>11. Grows(p)
  <2>1. \A q \in Procs : pc[q] \in {"enter", "copy"} => job[q].left \cap raw \subseteq raw'
    BY <1>2, <1>3, <1>9 DEF RetentionInv, Spared, At
  <2> QED BY <1>1, <1>3, <2>1 DEF Grows, Known, Typed
<1>12. Typed'
  BY <1>1, <1>3, <1>4, <1>8, <1>9 DEF Known, Typed
<1>13. Ordered'
  BY <1>3, <1>4 DEF RetentionInv, Ordered
<1>14. Founded'
  <2>1. k <= copies[1].segs /\ copies[1].segs \in Nat
    BY <1>1, <1>10 DEF Known
  <2>2. (copies[1].segs + 1)..Len(cuts) \subseteq raw'
    BY <1>1, <1>9, <2>1 DEF RetentionInv, Founded, Known
  <2>3. ckpt.gen = copies[1].gen => ckpt.segs \subseteq raw' \ 1..copies[1].segs
    BY <1>9, <1>10 DEF RetentionInv, Founded
  <2> QED BY <1>3, <2>2, <2>3 DEF RetentionInv, Founded
<1>15. Works(p)'
  BY <1>1, <1>3, <1>7, <1>8, <1>10 DEF Works, Known, Publishes, At
<1>16. Spared'
  <2>1. \A q \in Procs : /\ pc'[q] = pc[q] /\ job'[q].left \subseteq job[q].left
                         /\ job'[q].retire \subseteq job[q].retire
                         /\ job[q].pinned \subseteq job'[q].pinned
    BY <1>3, <1>7, <1>8 DEF Alone
  <2> QED BY <2>1, SparedKept DEF RetentionInv
<1>17. Calm'
  <2> SUFFICES ASSUME ~overlap PROVE Calm'
    BY <1>3 DEF Calm
  <2>1. copies[2] = copies[1] /\ copies[1].segs > 0 /\ cuts[copies[1].segs] <= job[p].seq
        /\ Len(snaps) > 0 /\ job[p].seq <= snaps[1]
    BY <1>1, <1>3, <1>10 DEF RetentionInv, Calm, Steady, At, Deletes, Known
  <2>2. (copies[2].segs + 1)..Len(cuts) \subseteq raw'
    BY <1>3, <1>14, <2>1 DEF Founded
  <2>3. cuts[k] <= snaps[1]
    <3>1. k \in Segments /\ copies[1].segs \in Segments
      BY <1>1, <1>10, <2>1 DEF Known, Segments
    <3>2. cuts[k] \in Nat /\ cuts[copies[1].segs] \in Nat /\ snaps[1] \in Nat /\ job[p].seq \in Nat
      <4>1. \A l \in Segments : cuts[l] \in Nat
        BY <1>1 DEF Known, Typed, Segments
      <4>2. snaps[1] \in Nat
        BY <1>1, <2>1 DEF Known, Typed
      <4>3. job[p].seq \in Nat
        BY <1>1 DEF Known, Jobs
      <4> QED BY <3>1, <4>1, <4>2, <4>3
    <3>3. cuts[k] <= cuts[copies[1].segs]
      BY SMTT(20), <1>1, <1>10, <3>1, <3>2 DEF RetentionInv, Ordered, Known
    <3> QED BY <2>1, <3>2, <3>3
  <2>4. Past'
    BY <1>3, <1>4, <1>9, <2>1, <2>3 DEF RetentionInv, Calm, Past
  <2>5. \A q \in Procs : Maintains(q)' => Maintains(q)
    BY <1>3, <1>7, <1>8 DEF Alone, Maintains
  <2>6. \A q \in Procs : Steady(q) => Steady(q)'
    BY <1>3, <1>7, <1>8 DEF Alone, Steady
  <2> QED BY <1>3, <2>2, <2>4, <2>5, <2>6 DEF RetentionInv, Calm, Single
<1> QED BY <1>3, <1>8, <1>11, <1>12, <1>13, <1>14, <1>15, <1>16, <1>17, StepKeeps

-----------------------------------------------------------------------------
(* Snapshots. *)

\* How many snapshots are newer than s, and what it means that there are none or some.
LEMMA Above == ASSUME NEW q \in Seq(Nat), NEW s \in Nat
  PROVE /\ Cardinality({i \in 1..Len(q) : q[i] > s}) \in 0..Len(q)
        /\ Cardinality({i \in 1..Len(q) : q[i] > s}) = 0 => \A i \in 1..Len(q) : q[i] <= s
        /\ Cardinality({i \in 1..Len(q) : q[i] > s}) > 0 => \E i \in 1..Len(q) : q[i] > s
<1>1. PICK m : m = Len(q)
  OBVIOUS
<1>2. m \in Nat
  BY <1>1
<1>3. PICK above : above = {i \in 1..m : q[i] > s}
  OBVIOUS
<1>4. IsFiniteSet(1..m) /\ Cardinality(1..m) = m
  BY <1>2, FS_Interval
<1>5. IsFiniteSet(above) /\ Cardinality(above) <= m
  <2>1. above \subseteq 1..m
    BY <1>3
  <2> QED BY <1>4, <2>1, FS_Subset
<1>6. Cardinality(above) \in Nat
  BY <1>5, FS_CardinalityType
<1>7. Cardinality(above) = 0 <=> above = {}
  BY <1>5, FS_EmptySet
<1>8. \A i \in 1..m : q[i] \in Nat
  BY <1>1
<1>9. /\ Cardinality(above) \in 0..m
      /\ Cardinality(above) = 0 => \A i \in 1..m : q[i] <= s
      /\ Cardinality(above) > 0 => \E i \in 1..m : q[i] > s
  <2>1. Cardinality(above) = 0 => \A i \in 1..m : q[i] <= s
    BY <1>3, <1>7, <1>8
  <2>2. above # {} => \E i \in 1..m : q[i] > s
    BY <1>3
  <2> QED BY <1>2, <1>5, <1>6, <1>7, <2>1, <2>2
<1> QED BY <1>1, <1>3, <1>9

\* new is q, whose greatest number is first, with s put after its first n and cut at m.
Fits(q, n, l, s, m, top, new) ==
  /\ q \in Seq(Nat) /\ n \in Nat /\ l \in Nat /\ l = Len(q) /\ n <= l
  /\ s \in Nat /\ m \in 1..(l + 1) /\ top \in Nat
  /\ new = [i \in 1..m |-> IF i <= n THEN q[i] ELSE IF i = n + 1 THEN s ELSE q[i - 1]]
  /\ \A i \in 1..l : 0 < q[i] /\ q[i] <= top /\ q[i] <= q[1]
  /\ 0 < s /\ s <= top
  /\ n = 0 => \A i \in 1..l : q[i] <= s
  /\ n > 0 => \E i \in 1..l : q[i] > s

\* new has its greatest number first.
Capped(q, l, s, m, top, new) ==
  /\ new \in Seq(Nat) /\ Len(new) = m
  /\ \A i \in 1..m : 0 < new[i] /\ new[i] <= top /\ new[i] <= new[1]
  /\ s <= new[1] /\ (l > 0 => q[1] <= new[1])

\* A sequence that has its greatest number first keeps it there when a number is put in its place.
LEMMA Between ==
  ASSUME NEW q, NEW n, NEW l, NEW s, NEW m, NEW top, NEW new, Fits(q, n, l, s, m, top, new)
  PROVE  Capped(q, l, s, m, top, new)
<1> USE DEF Fits
<1>1. \A i \in 1..l : q[i] \in Nat
  OBVIOUS
<1>2. \A i \in 1..m : new[i] \in Nat /\ (new[i] = s \/ \E j \in 1..l : new[i] = q[j])
  <2> TAKE i \in 1..m
  <2>1. i <= n => i \in 1..l
    OBVIOUS
  <2>2. i > n + 1 => i - 1 \in 1..l
    OBVIOUS
  <2> QED BY <1>1, <2>1, <2>2
<1>3. new \in [1..m -> Nat]
  BY <1>2
<1>4. new \in Seq(Nat) /\ Len(new) = m
  BY SMTT(20), <1>3
<1>5. s <= new[1] /\ \A j \in 1..l : q[j] <= new[1]
  <2>1. CASE n = 0
    BY <1>1, <2>1
  <2>2. CASE n > 0
    <3>1. new[1] = q[1] /\ 1 \in 1..l
      BY <2>2
    <3>2. PICK i \in 1..l : q[i] > s
      BY <2>2
    <3>3. q[i] \in Nat /\ q[1] \in Nat /\ q[i] <= q[1]
      BY <1>1, <3>1
    <3> QED BY <3>1, <3>2, <3>3
  <2> QED BY <2>1, <2>2
<1>6. \A i \in 1..m : 0 < new[i] /\ new[i] <= top /\ new[i] <= new[1]
  BY <1>2, <1>5
<1>7. l > 0 => q[1] <= new[1]
  BY <1>5
<1> HIDE DEF Fits
<1> QED BY <1>4, <1>5, <1>6, <1>7 DEF Capped

\* Inserted keeps the newest snapshot first and never makes it older.
LEMMA InsertedIs ==
  ASSUME snaps \in Seq(Nat), Len(snaps) <= Keep, NEW s \in Nat, 0 < s, s <= len, len \in Nat,
         \A i \in 1..Len(snaps) : 0 < snaps[i] /\ snaps[i] <= len /\ snaps[i] <= snaps[1]
  PROVE  /\ Inserted(s) \in Seq(Nat) /\ 0 < Len(Inserted(s)) /\ Len(Inserted(s)) <= Keep
         /\ \A i \in 1..Len(Inserted(s)) :
              0 < Inserted(s)[i] /\ Inserted(s)[i] <= len /\ Inserted(s)[i] <= Inserted(s)[1]
         /\ s <= Inserted(s)[1] /\ (Len(snaps) > 0 => snaps[1] <= Inserted(s)[1])
<1>1. PICK l \in Nat : l = Len(snaps)
  OBVIOUS
<1>2. PICK n : n = Cardinality({i \in 1..l : snaps[i] > s})
  OBVIOUS
<1>3. /\ n \in Nat /\ n <= l
      /\ n = 0 => \A i \in 1..l : snaps[i] <= s
      /\ n > 0 => \E i \in 1..l : snaps[i] > s
  <2>1. PICK c : c = Cardinality({i \in 1..Len(snaps) : snaps[i] > s})
    OBVIOUS
  <2>2. /\ c \in 0..Len(snaps)
        /\ c = 0 => \A i \in 1..Len(snaps) : snaps[i] <= s
        /\ c > 0 => \E i \in 1..Len(snaps) : snaps[i] > s
    BY <2>1, Above
  <2>3. c = n
    BY <1>1, <1>2, <2>1
  <2> QED BY <1>1, <2>2, <2>3
<1>4. PICK m : m = IF l < Keep THEN l + 1 ELSE Keep
  OBVIOUS
<1>5. m \in 1..(l + 1) /\ m <= Keep
  BY <1>1, <1>4, KeepAssumption
<1>6. PICK new : new = Inserted(s)
  OBVIOUS
<1>7. new = [i \in 1..m |-> IF i <= n THEN snaps[i] ELSE IF i = n + 1 THEN s ELSE snaps[i - 1]]
  BY <1>1, <1>2, <1>4, <1>6 DEF Inserted
<1>8. \A i \in 1..l : 0 < snaps[i] /\ snaps[i] <= len /\ snaps[i] <= snaps[1]
  BY <1>1
<1>9. Fits(snaps, n, l, s, m, len, new)
  BY <1>1, <1>3, <1>5, <1>7, <1>8 DEF Fits
<1>10. Capped(snaps, l, s, m, len, new)
  BY <1>9, Between
<1> QED BY <1>1, <1>5, <1>6, <1>10 DEF Capped

\* The invariant survives completing a snapshot.
LEMMA SnapshotKeeps == ASSUME RetentionInv, NEW p \in Procs, Snapshot(p) PROVE RetentionInv'
<1>1. Known(p) /\ snaps \in Seq(Nat) /\ Ordered
  BY KnownOf DEF Known, Typed, RetentionInv
<1>2. /\ At(p, "copy")
      /\ UNCHANGED <<len, cuts, raw, arch, copies, ckpt, lock, base, job, visit, overlap>>
      /\ pins' = [pins EXCEPT ![p] = {}] /\ store' = Free
      /\ pc' = [pc EXCEPT ![p] = job[p].next]
  BY DEF Snapshot, files, Goto
<1>3. Segments' = Segments /\ Jobs' = Jobs
  BY <1>2 DEF Segments, Jobs
<1>4. job[p].seq \in Nat /\ 0 < job[p].seq /\ job[p].seq <= len /\ store = p
      /\ job[p].next \in {"idle", "retire"} /\ len \in Nat
  BY <1>1, <1>2 DEF Known, Works, At, Jobs
<1>5. /\ snaps' \in Seq(Nat) /\ 0 < Len(snaps') /\ Len(snaps') <= Keep
      /\ \A i \in 1..Len(snaps') : 0 < snaps'[i] /\ snaps'[i] <= len /\ snaps'[i] <= snaps'[1]
      /\ job[p].seq <= snaps'[1] /\ (Len(snaps) > 0 => snaps[1] <= snaps'[1])
  <2>1. CASE job[p].seq \in {snaps[i] : i \in 1..Len(snaps)}
    <3>1. snaps' = snaps
      BY <2>1 DEF Snapshot
    <3>2. PICK i \in 1..Len(snaps) : job[p].seq = snaps[i]
      BY <2>1
    <3>3. snaps[1] \in Nat /\ 0 < Len(snaps)
      BY <1>1, <3>2
    <3> QED BY <1>1, <3>1, <3>2, <3>3 DEF Ordered
  <2>2. CASE job[p].seq \notin {snaps[i] : i \in 1..Len(snaps)}
    <3>1. snaps' = Inserted(job[p].seq)
      BY <2>2 DEF Snapshot
    <3> QED BY <1>1, <1>4, <3>1, InsertedIs DEF Ordered
  <2> QED BY <2>1, <2>2
<1>6. /\ pc' \in [Procs -> Labels] /\ pins' \in [Procs -> SUBSET Segments]
      /\ pc'[p] = job[p].next /\ pins'[p] = {} /\ Alone(p)
  <2>1. job[p].next \in Labels
    BY <1>4 DEF Labels
  <2>2. pc' \in [Procs -> Labels] /\ pc'[p] = job[p].next /\ \A q \in Procs \ {p} : pc'[q] = pc[q]
    BY <1>1, <1>2, <2>1 DEF Known, Typed
  <2>3. pins' \in [Procs -> SUBSET Segments] /\ pins'[p] = {}
          /\ \A q \in Procs \ {p} : pins'[q] = pins[q]
    BY <1>1, <1>2 DEF Known, Typed
  <2> QED BY <1>2, <1>4, <2>2, <2>3, FreeAssumption DEF Alone
<1>7. Grows(p) /\ Founded'
  <2>1. UNCHANGED <<len, cuts, raw, arch, copies, ckpt>>
    BY <1>2
  <2> QED BY <1>1, <2>1 DEF Grows, Known, Typed, RetentionInv, Founded
<1>8. Typed'
  BY <1>1, <1>2, <1>3, <1>5, <1>6 DEF Known, Typed
<1>9. Ordered'
  BY <1>1, <1>2, <1>3, <1>5 DEF Ordered
<1>10. Works(p)'
  BY <1>1, <1>2, <1>4, <1>6 DEF Works, Known, Publishes, At
<1>11. Spared'
  <2>1. \A q \in Procs : (pc'[q] = pc[q] \/ pc'[q] \in {"idle", "retire"})
    BY <1>4, <1>6 DEF Alone
  <2>2. \A q \in Procs : job'[q] = job[q]
    BY <1>2
  <2> QED BY <2>1, <2>2, SparedKept DEF RetentionInv
<1>12. Calm'
  <2> SUFFICES ASSUME ~overlap PROVE Calm'
    BY <1>2 DEF Calm
  <2>1. \A q \in Procs : Maintains(q)' => Maintains(q)
    BY <1>2, <1>4, <1>6 DEF Alone, Maintains, Publishes, Saves, Deletes, At
  <2>2. Past'
    <3>1. \A k \in Segments \ raw : cuts[k] \in Nat
      BY <1>1 DEF Known, Typed, Segments
    <3>2. snaps'[1] \in Nat /\ (Len(snaps) > 0 => snaps[1] \in Nat)
      BY <1>1, <1>5
    <3> QED BY <1>2, <1>3, <1>5, <3>1, <3>2 DEF RetentionInv, Calm, Past
  <2>3. \A q \in Procs : Steady(q)'
    <3> TAKE q \in Procs
    <3>1. Steady(q) /\ job[q].seq \in Nat /\ (Len(snaps) > 0 => snaps[1] \in Nat)
            /\ snaps'[1] \in Nat
      <4>1. job[q] \in Jobs
        BY <1>1 DEF Known, Typed
      <4>2. job[q].seq \in Nat
        BY <4>1 DEF Jobs
      <4>3. (Len(snaps) > 0 => snaps[1] \in Nat) /\ snaps'[1] \in Nat
        BY <1>1, <1>5
      <4> QED BY <4>2, <4>3 DEF RetentionInv, Calm
    <3>2. CASE q = p
      BY <1>2, <1>4, <1>5, <1>6, <3>1, <3>2 DEF Steady, At, Saves, Deletes
    <3>3. CASE q # p
      BY <1>2, <1>5, <1>6, <3>1, <3>3 DEF Steady, Alone
    <3> QED BY <3>2, <3>3
  <2> QED BY <1>2, <1>3, <2>1, <2>2, <2>3 DEF RetentionInv, Calm, Single
<1> QED BY <1>2, <1>6, <1>7, <1>8, <1>9, <1>10, <1>11, <1>12, StepKeeps

\* The invariant survives archiving one segment.
LEMMA PrepareKeeps == ASSUME RetentionInv, NEW p \in Procs, Prepare(p) PROVE RetentionInv'
<1>1. Known(p) /\ NoJob \in Jobs
  BY KnownOf, NoJobIs
<1>2. /\ At(p, "prepare") /\ job[p].from < job[p].to
      /\ UNCHANGED <<len, cuts, raw, copies, ckpt, lock, store, snaps, pins, base, visit, overlap>>
  BY DEF Prepare
<1>3. PICK k : k = job[p].from + 1
  OBVIOUS
<1>4. Segments' = Segments /\ Jobs' = Jobs
  BY <1>2 DEF Segments, Jobs
<1>5. CASE k \in raw /\ arch' = arch \cup {k} /\ job' = [job EXCEPT ![p].from = k] /\ UNCHANGED pc
  <2>1. PICK u : u = [job[p] EXCEPT !.from = k]
    OBVIOUS
  <2>2. job[p].from \in Nat /\ job[p].to \in Nat /\ k \in Nat /\ k \in Segments
    <3>1. job[p].from \in Nat /\ job[p].to \in Nat
      BY <1>1 DEF Known, Jobs
    <3>2. raw \subseteq Segments
      BY <1>1 DEF Known, Typed
    <3> QED BY <1>3, <1>5, <3>1, <3>2
  <2>3. /\ u \in Jobs /\ u.from = k /\ u.to = job[p].to /\ u.gen = job[p].gen
             /\ u.next = job[p].next
        /\ u.write = job[p].write /\ u.seq = job[p].seq /\ u.left = job[p].left
        /\ u.retire = job[p].retire /\ u.pinned = job[p].pinned
    <3>1. job[p] \in Jobs
      BY <1>1 DEF Known
    <3> QED BY <3>1, <2>1, <2>2 DEF Jobs
  <2>4. job' = [job EXCEPT ![p] = u]
    BY <1>5, <2>1
  <2>5. job' \in [Procs -> Jobs] /\ job'[p] = u /\ Alone(p)
    <3>1. job' \in [Procs -> Jobs] /\ job'[p] = u /\ \A q \in Procs \ {p} : job'[q] = job[q]
      BY <1>1, <2>3, <2>4 DEF Known, Typed
    <3> QED BY <1>2, <1>5, <3>1 DEF Alone
  <2>6. Grows(p)
    BY <1>1, <1>2, <1>5 DEF Grows, Known, Typed
  <2>7. Typed'
    BY <1>1, <1>2, <1>4, <1>5, <2>2, <2>5 DEF Known, Typed
  <2>8. Ordered' /\ Founded'
    BY <1>2, <1>4, <1>5 DEF RetentionInv, Ordered, Founded
  <2>9. Works(p)'
    <3>1. 1..k \subseteq arch' /\ k <= job[p].to
      BY <1>1, <1>2, <1>3, <1>5, <2>2 DEF Known, Works, At
    <3> QED BY <1>1, <1>2, <1>5, <2>3, <2>5, <3>1 DEF Works, Known, Publishes, At
  <2>10. Spared'
    <3>1. \A q \in Procs : /\ pc'[q] = pc[q] /\ job'[q].left = job[q].left
                           /\ job'[q].retire = job[q].retire /\ job'[q].pinned = job[q].pinned
      BY <1>5, <2>3, <2>5 DEF Alone
    <3> QED BY <3>1, SparedKept DEF RetentionInv
  <2>11. Calm'
    <3>1. \A q \in Procs : Maintains(q)' => Maintains(q)
      BY <1>5, <2>3, <2>5 DEF Alone, Maintains
    <3>2. \A q \in Procs : Steady(q) => Steady(q)'
      BY <1>2, <1>5, <2>3, <2>5 DEF Alone, Steady
    <3> QED BY <1>2, <1>4, <3>1, <3>2 DEF RetentionInv, Calm, Past, Single
  <2> QED BY <1>2, <2>5, <2>6, <2>7, <2>8, <2>9, <2>10, <2>11, StepKeeps
<1>6. CASE Finish(p) /\ UNCHANGED arch
  <2>1. Row(p, "idle", NoJob) /\ UNCHANGED <<files, snaps, visit, overlap>>
    BY <1>1, <1>2, <1>4, <1>6 DEF Row, Labels, Finish, Goto, files
  <2>2. Ends(p, "idle", pins[p], base[p])
    BY <1>1, <1>2, <2>1 DEF Ends, Known, Works, At
  <2> QED BY <2>2, EndKeeps
<1> QED BY <1>3, <1>5, <1>6 DEF Prepare

\* The invariant survives writing the second copy.
LEMMA WriteSecondKeeps ==
  ASSUME RetentionInv, NEW p \in Procs, NEW from \in {"second", "repaired"},
         NEW next \in {"repair", "backup"},
         WriteSecond(p, from, next)
  PROVE  RetentionInv'
<1>1. Known(p) /\ Typed
  BY KnownOf DEF Known
<1>2. /\ At(p, from) /\ pc' = [pc EXCEPT ![p] = next] /\ lock' = Free
      /\ UNCHANGED <<len, cuts, raw, arch, ckpt, store, snaps, pins, job, visit, overlap>>
  BY DEF WriteSecond, Goto
<1>3. lock = p /\ job[p].write = copies[1] /\ job[p].next = "retire"
  BY <1>1, <1>2 DEF Known, Works, At, Publishes
<1>4. copies' = [copies EXCEPT ![2] = copies[1]] /\ base' = [base EXCEPT ![p] = copies[1]]
  BY <1>3 DEF WriteSecond
<1>5. Segments' = Segments /\ Jobs' = Jobs
  BY <1>2 DEF Segments, Jobs
<1>6. copies' \in [1..2 -> Bases] /\ copies'[1] = copies[1] /\ copies'[2] = copies[1]
  BY <1>1, <1>4 DEF Known, Typed
<1>7. /\ pc' \in [Procs -> Labels] /\ base' \in [Procs -> Bases]
      /\ pc'[p] = next /\ base'[p] = copies[1] /\ Alone(p)
  <2>1. pc' \in [Procs -> Labels] /\ pc'[p] = next /\ \A q \in Procs \ {p} : pc'[q] = pc[q]
    BY <1>1, <1>2 DEF Typed, Labels
  <2>2. base' \in [Procs -> Bases] /\ base'[p] = copies[1]
          /\ \A q \in Procs \ {p} : base'[q] = base[q]
    BY <1>1, <1>4 DEF Typed, Known
  <2> QED BY <1>2, <1>3, <2>1, <2>2, FreeAssumption DEF Alone
<1>8. Grows(p)
  BY <1>1, <1>2, <1>3, <1>6 DEF Grows, Known
<1>9. Typed'
  BY <1>1, <1>2, <1>5, <1>6, <1>7 DEF Typed
<1>10. Ordered'
  BY <1>2, <1>5 DEF RetentionInv, Ordered
<1>11. Founded'
  <2>1. Behind(copies'[2], copies'[1])
    BY <1>1, <1>6 DEF Known
  <2> QED BY <1>2, <1>6, <2>1 DEF RetentionInv, Founded
<1>12. Works(p)'
  BY <1>1, <1>2, <1>3, <1>6, <1>7 DEF Works, Known, Publishes, At
<1>13. Spared'
  <2>1. \A q \in Procs : pc'[q] = pc[q] \/ pc'[q] \in {"repair", "backup"}
    BY <1>7 DEF Alone
  <2>2. \A q \in Procs : job'[q] = job[q]
    BY <1>2
  <2> QED BY <2>1, <2>2, SparedKept DEF RetentionInv
<1>14. Calm'
  <2>1. \A q \in Procs : Maintains(q)' => Maintains(q)
    BY <1>2, <1>7 DEF Alone, Maintains, Publishes, Saves, Deletes, At
  <2>2. \A q \in Procs : Steady(q) => Steady(q)'
    BY <1>2, <1>6, <1>7 DEF Alone, Steady, Saves, Deletes
  <2>3. (copies'[2].segs + 1)..Len(cuts) \subseteq raw
    BY <1>6 DEF RetentionInv, Founded
  <2> QED BY <1>2, <1>5, <2>1, <2>2, <2>3 DEF RetentionInv, Calm, Past, Single
<1> QED BY <1>2, <1>7, <1>8, <1>9, <1>10, <1>11, <1>12, <1>13, <1>14, StepKeeps

\* Process p writes copy 1 and holds the lock.
Writes(p, b, then) ==
  /\ pc[p] \in {"prepare", "repair"} /\ lock = Free /\ then \in {"second", "repaired"}
  /\ b \in Bases /\ Behind(copies[1], b) /\ b.segs <= Len(cuts) /\ 1..b.segs \subseteq arch
  /\ (b = copies[1] \/ copies[1].gen < b.gen)
  /\ base' = [base EXCEPT ![p] = copies[1]]
  /\ WriteFirst(p, b, then)
  /\ UNCHANGED <<store, snaps, pins, visit, overlap>>

\* Writing copy 1 under the lock keeps the invariant: copy 1 is best and copy 2 behind it.
LEMMA WritesKeep ==
  ASSUME RetentionInv, NEW p \in Procs, NEW b, NEW then, Writes(p, b, then) PROVE RetentionInv'
<1>1. Known(p) /\ Typed
  BY KnownOf DEF Known
<1>2. /\ pc' = [pc EXCEPT ![p] = then] /\ lock' = p
      /\ copies' = [copies EXCEPT ![1] = b] /\ base' = [base EXCEPT ![p] = copies[1]]
      /\ UNCHANGED <<len, cuts, raw, arch, ckpt, store, snaps, pins, visit, overlap>>
      /\ pc[p] \in {"prepare", "repair"} /\ lock = Free /\ then \in {"second", "repaired"}
  BY DEF Writes, WriteFirst, Goto
<1>3. /\ b \in Bases /\ Behind(copies[1], b) /\ b.segs <= Len(cuts) /\ 1..b.segs \subseteq arch
      /\ (b = copies[1] \/ copies[1].gen < b.gen)
  BY DEF Writes
<1>4. Segments' = Segments /\ Jobs' = Jobs
  BY <1>2 DEF Segments, Jobs
<1>5. PICK u : u = [job[p] EXCEPT !.write = b]
  OBVIOUS
<1>6. job' = [job EXCEPT ![p] = u]
  BY <1>5 DEF Writes, WriteFirst
<1>7. /\ u \in Jobs /\ u.write = b /\ u.next = job[p].next /\ u.retire = job[p].retire
      /\ u.pinned = job[p].pinned
  <2>1. job[p] \in Jobs
    BY <1>1 DEF Known
  <2> QED BY <1>3, <1>5, <2>1 DEF Jobs
<1>8. copies' \in [1..2 -> Bases] /\ copies'[1] = b /\ copies'[2] = copies[2]
  BY <1>1, <1>2, <1>3 DEF Typed
<1>9. /\ pc' \in [Procs -> Labels] /\ base' \in [Procs -> Bases] /\ job' \in [Procs -> Jobs]
      /\ pc'[p] = then /\ base'[p] = copies[1] /\ job'[p] = u /\ Alone(p)
  <2>1. pc' \in [Procs -> Labels] /\ pc'[p] = then /\ \A q \in Procs \ {p} : pc'[q] = pc[q]
    BY <1>1, <1>2 DEF Typed, Labels
  <2>2. base' \in [Procs -> Bases] /\ base'[p] = copies[1]
          /\ \A q \in Procs \ {p} : base'[q] = base[q]
    BY <1>1, <1>2 DEF Typed, Known
  <2>3. job' \in [Procs -> Jobs] /\ job'[p] = u /\ \A q \in Procs \ {p} : job'[q] = job[q]
    BY <1>1, <1>6, <1>7 DEF Typed
  <2> QED BY <1>2, <2>1, <2>2, <2>3, FreeAssumption DEF Alone
<1>10. Grows(p)
  BY <1>1, <1>2, <1>3, <1>8 DEF Grows, Known
<1>11. Typed'
  BY <1>1, <1>2, <1>4, <1>8, <1>9 DEF Typed
<1>12. Ordered'
  BY <1>2, <1>4 DEF RetentionInv, Ordered
<1>13. /\ copies[1].gen \in Nat /\ copies[1].segs \in Nat /\ b.gen \in Nat /\ b.segs \in Nat
       /\ copies[2].gen \in Nat /\ copies[2].segs \in Nat /\ Len(cuts) \in Nat
  BY <1>1, <1>3 DEF Known, Bases, Typed
<1>14. copies[1].gen <= b.gen /\ copies[1].segs <= b.segs
         /\ (copies[1].gen = b.gen => copies[1] = b)
  BY <1>3, <1>13 DEF Behind
<1>15. Founded'
  <2>1. Behind(copies[2], b)
    BY <1>13, <1>14 DEF RetentionInv, Founded, Behind
  <2>2. (b.segs + 1)..Len(cuts) \subseteq raw
    BY <1>13, <1>14 DEF RetentionInv, Founded
  <2>3. ckpt.gen \in Nat
    BY <1>1 DEF Typed
  <2>4. ckpt.gen <= b.gen /\ (ckpt.gen = b.gen => ckpt.segs \subseteq raw \ 1..b.segs)
    BY <1>13, <1>14, <2>3 DEF RetentionInv, Founded
  <2>5. b.gen = 0 => b.segs = 0
    BY <1>13, <1>14 DEF RetentionInv, Founded
  <2> QED BY <1>2, <1>3, <1>8, <2>1, <2>2, <2>4, <2>5 DEF Founded
<1>16. Works(p)'
  <2>1. /\ job[p].retire = {} /\ job[p].next = "retire" /\ len > 0 /\ store # p
    BY <1>1, <1>2 DEF Known, Works, Publishes
  <2> QED BY <1>2, <1>3, <1>7, <1>8, <1>9, <2>1 DEF Works, Publishes
<1>17. Spared'
  <2>1. \A q \in Procs : pc'[q] = pc[q] \/ pc'[q] \in {"second", "repaired"}
    BY <1>2, <1>9 DEF Alone
  <2>2. \A q \in Procs : /\ job'[q].left = job[q].left \/ q = p
                         /\ job'[q].retire = job[q].retire /\ job'[q].pinned = job[q].pinned
    BY <1>7, <1>9 DEF Alone
  <2>3. pc'[p] \notin {"enter", "copy"}
    BY <1>2, <1>9
  <2> QED BY <2>1, <2>2, <2>3, SparedKept DEF RetentionInv
<1>18. Calm'
  <2> SUFFICES ASSUME ~overlap PROVE Calm'
    BY <1>2 DEF Calm
  <2>1. \A q \in Procs : Maintains(q)' <=> Maintains(q)
    BY <1>2, <1>9 DEF Alone, Maintains, Publishes, Saves, Deletes
  <2>2. Maintains(p) /\ \A q \in Procs \ {p} : ~Maintains(q)
    BY <1>2 DEF RetentionInv, Calm, Single, Maintains, Publishes
  <2>3. \A q \in Procs : Steady(q)'
    <3> TAKE q \in Procs
    <3>1. CASE q = p
      BY <1>2, <1>9, <3>1 DEF Steady, Saves, Deletes
    <3>2. CASE q # p
      <4>1. ~Maintains(q)'
        BY <2>1, <2>2, <3>2
      <4> QED BY <4>1 DEF Steady, Maintains, Saves, Deletes
    <3> QED BY <3>1, <3>2
  <2> QED BY <1>2, <1>4, <1>8, <2>1, <2>3 DEF RetentionInv, Calm, Past, Single
<1> QED BY <1>2, <1>9, <1>10, <1>11, <1>12, <1>15, <1>16, <1>17, <1>18, StepKeeps

\* The invariant survives publishing the first copy of a baseline.
LEMMA PublishKeeps == ASSUME RetentionInv, NEW p \in Procs, Publish(p) PROVE RetentionInv'
<1>1. Known(p) /\ NoJob \in Jobs
  BY KnownOf, NoJobIs
<1>2. /\ At(p, "prepare") /\ job[p].from = job[p].to /\ lock = Free
      /\ base' = [base EXCEPT ![p] = copies[1]]
      /\ UNCHANGED <<store, snaps, pins, visit, overlap>>
  BY <1>1 DEF Publish, Refresh, Known
<1>3. CASE copies[1].gen # job[p].gen
  <2>1. Finish(p) /\ UNCHANGED <<files, lock>>
    BY <1>1, <1>3 DEF Publish, Known
  <2>2. Row(p, "idle", NoJob)
    <3>1. Jobs' = Jobs
      BY <2>1 DEF files, Jobs, Segments
    <3> QED BY <1>1, <2>1, <3>1 DEF Row, Labels, Finish, Goto
  <2>3. Ends(p, "idle", pins[p], copies[1])
    BY <1>1, <1>2, <2>1, <2>2 DEF Ends, Known, Works, At
  <2> QED BY <2>3, EndKeeps
<1>4. CASE copies[1].gen = job[p].gen
  <2>1. PICK b : b = NewBase(job[p])
    OBVIOUS
  <2>2. WriteFirst(p, b, "second")
    BY <1>1, <1>4, <2>1 DEF Publish, Known
  <2>3. /\ job[p].gen \in Nat /\ job[p].to \in Nat /\ job[p].to <= Len(cuts)
        /\ 1..job[p].to \subseteq arch /\ copies[1].segs <= job[p].to
    BY <1>1, <1>2, <1>4 DEF Known, Works, At, Jobs
  <2>4. b \in Bases /\ b.gen = job[p].gen + 1 /\ b.segs = job[p].to
    BY <2>1, <2>3 DEF NewBase, Bases
  <2>5. copies[1].gen < b.gen /\ Behind(copies[1], b)
    BY <1>4, <2>3, <2>4 DEF Behind
  <2>6. Writes(p, b, "second")
    BY <1>2, <2>2, <2>3, <2>4, <2>5 DEF Writes, At
  <2> QED BY <2>6, WritesKeep
<1> QED BY <1>3, <1>4

\* The invariant survives making both copies the best one.
LEMMA RepairKeeps == ASSUME RetentionInv, NEW p \in Procs, Repair(p) PROVE RetentionInv'
<1>1. Known(p)
  BY KnownOf
<1>2. /\ At(p, "repair") /\ lock = Free
      /\ base' = [base EXCEPT ![p] = copies[1]]
      /\ UNCHANGED <<store, snaps, pins, visit, overlap>>
  BY <1>1 DEF Repair, Refresh, Known
<1>3. CASE copies[1] = NoBase
  <2>1. Goto(p, "backup") /\ UNCHANGED <<files, lock, job>>
    BY <1>1, <1>3 DEF Repair, Known
  <2>2. Row(p, "backup", job[p])
    <3>1. Jobs' = Jobs
      BY <2>1 DEF files, Jobs, Segments
    <3> QED BY <1>1, <2>1, <3>1 DEF Row, Labels, Goto, Known
  <2>3. Plain(p, "backup", job[p], pins[p], copies[1])
    BY <1>1, <1>2, <2>1, <2>2 DEF Plain, Known
  <2>4. After(p, "backup", job[p], pins[p], copies[1])
    BY <2>3, PlainIs
  <2>5. Works(p)'
    BY <1>1, <1>2, <2>1, <2>4 DEF Works, After, Known, Publishes, At
  <2>6. Spared'
    BY <2>4, SparedKept DEF RetentionInv, After
  <2>7. Maintains(p)' => Maintains(p)
    BY <1>2 DEF Maintains, Publishes, At
  <2>8. copies[2] = copies[1]
    <3>1. copies[2] \in Bases
      BY <1>1 DEF Known, Typed
    <3>2. copies[2].gen <= 0 /\ copies[2].segs <= 0
      BY <1>3 DEF RetentionInv, Founded, Behind, NoBase
    <3> QED BY <1>3, <3>1, <3>2 DEF Bases, NoBase
  <2>9. ~overlap => Steady(p)'
    BY <2>4, <2>8 DEF Steady, After, Saves, Deletes
  <2> QED BY <2>3, <2>5, <2>6, <2>7, <2>9, PlainKeeps
<1>4. CASE copies[1] # NoBase
  <2>1. WriteFirst(p, copies[1], "repaired")
    BY <1>1, <1>4 DEF Repair, Known
  <2>2. Writes(p, copies[1], "repaired")
    BY <1>1, <1>2, <2>1 DEF Writes, At, Known, RetentionInv, Founded
  <2> QED BY <2>2, WritesKeep
<1> QED BY <1>3, <1>4

\* The log was perhaps sealed.
Extends ==
  /\ UNCHANGED <<len, arch, copies>>
  /\ cuts' \in Seq(Nat) /\ Len(cuts) <= Len(cuts') /\ \A k \in Segments : cuts'[k] = cuts[k]
  /\ Segments \subseteq Segments' /\ raw \subseteq raw' /\ raw' \subseteq Segments'
  /\ Segments' \ Segments \subseteq raw'
  /\ ckpt' \in [gen : Nat, segs : SUBSET Segments'] /\ Jobs \subseteq Jobs'
  /\ Founded'
  /\ \A k \in Segments' : 0 < cuts'[k] /\ cuts'[k] <= len
  /\ \A k, l \in Segments' : k < l => cuts'[k] < cuts'[l]

\* Jobs stay typed when segments are added.
LEMMA JobsGrow == ASSUME Segments \subseteq Segments' PROVE Jobs \subseteq Jobs'
BY DEF Jobs

\* Sealing the active file extends the log.
LEMMA SealingIs == ASSUME RetentionInv, Sealing PROVE Extends
<1>1. Typed /\ Founded /\ Best = copies[1]
  BY FirstIsBest DEF RetentionInv
<1>2. /\ cuts' = Append(cuts, len) /\ raw' = raw \cup {Len(cuts) + 1} /\ len > Sealed
      /\ UNCHANGED <<len, arch, copies>>
  BY DEF Sealing
<1>3. PICK n \in Nat : n = Len(cuts)
  BY <1>1 DEF Typed
<1>4. /\ cuts \in Seq(Nat) /\ len \in Nat /\ Segments = 1..n
  BY <1>1, <1>3 DEF Typed, Segments
<1>5. /\ cuts' \in Seq(Nat) /\ Len(cuts') = n + 1 /\ cuts'[n + 1] = len
      /\ \A k \in 1..n : cuts'[k] = cuts[k]
  BY <1>2, <1>3, <1>4
<1>6. Segments' = 1..(n + 1)
  BY <1>5 DEF Segments
<1>7. /\ Segments \subseteq Segments' /\ raw' \subseteq Segments'
           /\ Segments' \ Segments \subseteq raw'
      /\ raw \subseteq raw'
  <2>1. raw \subseteq 1..n
    BY <1>1, <1>4 DEF Typed
  <2>2. raw' = raw \cup {n + 1}
    BY <1>2, <1>3
  <2> QED BY <1>4, <1>6, <2>1, <2>2
<1>8. \A k \in 1..n : cuts[k] \in Nat
  BY <1>3, <1>4
<1>9. \A k \in 1..n : cuts[k] < len /\ 0 < cuts[k]
  <2>1. n > 0 => cuts[n] < len
    BY <1>2, <1>3, <1>4, <1>8 DEF Sealed, Cut
  <2> QED BY <1>3, <1>4, <1>8, <2>1 DEF RetentionInv, Ordered
<1>10. /\ \A k \in Segments' : 0 < cuts'[k] /\ cuts'[k] <= len
       /\ \A k, l \in Segments' : k < l => cuts'[k] < cuts'[l]
  <2>1. 0 < len
    BY <1>2, <1>3, <1>4, <1>8, <1>9 DEF Sealed, Cut
  <2>2. \A k, l \in 1..n : k < l => cuts[k] < cuts[l]
    BY <1>4 DEF RetentionInv, Ordered
  <2>3. \A k \in 1..(n + 1) : k \in 1..n \/ k = n + 1
    OBVIOUS
  <2>4. \A k \in Segments' : 0 < cuts'[k] /\ cuts'[k] <= len
    <3>1. \A k \in 1..n : 0 < cuts'[k] /\ cuts'[k] <= len
      BY <1>4, <1>5, <1>8, <1>9
    <3>2. 0 < cuts'[n + 1] /\ cuts'[n + 1] <= len
      BY <1>4, <1>5, <2>1
    <3> QED BY <1>6, <2>3, <3>1, <3>2
  <2>5. \A k, l \in 1..(n + 1) : k < l => cuts'[k] < cuts'[l]
    <3>1. \A k, l \in 1..n : k < l => cuts'[k] < cuts'[l]
      BY <1>5, <2>2
    <3>2. \A k \in 1..n : cuts'[k] < cuts'[n + 1]
      BY <1>5, <1>9
    <3>3. ~ (n + 1 < n + 1) /\ \A k \in 1..n : ~ (n + 1 < k)
      OBVIOUS
    <3> TAKE k, l \in 1..(n + 1)
    <3> QED BY <2>3, <3>1, <3>2, <3>3
  <2> QED BY <1>6, <2>4, <2>5
<1>11. \/ ckpt' = ckpt
       \/ ckpt'.gen = copies[1].gen /\ ckpt'.segs = raw' \ 1..copies[1].segs
            /\ ckpt' = [gen |-> copies[1].gen, segs |-> raw' \ 1..copies[1].segs]
  BY <1>1, <1>2 DEF Sealing
<1>12. ckpt' \in [gen : Nat, segs : SUBSET Segments']
  <2>1. copies[1].gen \in Nat
    BY <1>1 DEF Typed, Bases
  <2>2. CASE ckpt' = ckpt
    BY <1>1, <1>7, <2>2 DEF Typed
  <2>3. CASE ckpt' = [gen |-> copies[1].gen, segs |-> raw' \ 1..copies[1].segs]
    BY <1>7, <2>1, <2>3
  <2> QED BY <1>11, <2>2, <2>3
<1>13. Founded'
  <2>1. copies[1].segs \in Nat /\ copies[1].gen \in Nat /\ copies[1].segs <= n
    BY <1>1, <1>3 DEF Typed, Bases, Founded
  <2>2. (copies[1].segs + 1)..(n + 1) \subseteq raw'
    BY <1>1, <1>2, <1>3, <2>1 DEF Founded
  <2>3. ckpt'.gen <= copies[1].gen /\ (ckpt'.gen = copies[1].gen
          => ckpt'.segs \subseteq raw' \ 1..copies[1].segs)
    BY <1>1, <1>7, <1>11, <2>1 DEF Founded
  <2> QED BY <1>1, <1>2, <1>5, <2>1, <2>2, <2>3 DEF Founded
<1>14. Len(cuts) <= Len(cuts') /\ \A k \in Segments : cuts'[k] = cuts[k]
  BY <1>3, <1>4, <1>5
<1>15. Jobs \subseteq Jobs'
  BY <1>7, JobsGrow
<1> QED BY <1>2, <1>5, <1>7, <1>10, <1>12, <1>13, <1>14, <1>15 DEF Extends

\* Leaving the files as they are extends it trivially.
LEMMA StayingIs == ASSUME RetentionInv, UNCHANGED files PROVE Extends
<1>1. UNCHANGED <<len, cuts, raw, arch, copies, ckpt>>
  BY DEF files
<1>2. Segments' = Segments /\ Jobs' = Jobs
  BY <1>1 DEF Segments, Jobs
<1>3. cuts \in Seq(Nat) /\ Len(cuts) \in Nat /\ raw \subseteq Segments
        /\ ckpt \in [gen : Nat, segs : SUBSET Segments]
  BY DEF RetentionInv, Typed
<1>4. Founded' /\ Ordered
  BY <1>1 DEF RetentionInv, Founded
<1> QED BY <1>1, <1>2, <1>3, <1>4 DEF Extends, Ordered

\* The parts of the invariant that an extension keeps.
LEMMA ExtendsKeeps ==
  ASSUME RetentionInv, Extends, UNCHANGED <<snaps, lock, store, pins, visit>>
  PROVE  /\ Grows(Free) /\ Ordered' /\ \A k \in Segments' \ raw' : k \in Segments \ raw
              /\ cuts'[k] = cuts[k]
         /\ pins' \in [Procs -> SUBSET Segments'] /\ Ahead'
         /\ (copies[2].segs + 1)..Len(cuts) \subseteq raw
              => (copies'[2].segs + 1)..Len(cuts') \subseteq raw'
<1>1. Typed /\ Founded /\ copies[1] \in Bases /\ copies[2] \in Bases /\ len \in Nat
        /\ Len(cuts) \in Nat
      /\ Len(cuts') \in Nat
  BY DEF RetentionInv, Typed, Extends
<1>2. Behind(copies[1], copies[1])
  BY <1>1 DEF Behind, Bases
<1>3. Grows(Free)
  BY <1>1, <1>2 DEF Grows, Extends, Typed
<1>4. Ordered'
  BY DEF RetentionInv, Ordered, Extends
<1>5. \A k \in Segments' \ raw' : k \in Segments \ raw /\ cuts'[k] = cuts[k]
  BY DEF Extends
<1>6. pins' \in [Procs -> SUBSET Segments']
  BY <1>1 DEF Typed, Extends
<1>7. Ahead'
  BY <1>1, AheadKept DEF Extends, RetentionInv
<1>8. (copies[2].segs + 1)..Len(cuts) \subseteq raw
        => (copies'[2].segs + 1)..Len(cuts') \subseteq raw'
  <2>1. copies[2].segs \in Nat
    BY <1>1 DEF Bases
  <2> QED BY <1>1, <2>1 DEF Extends, Segments
<1> QED BY <1>3, <1>4, <1>5, <1>6, <1>7, <1>8

\* The invariant survives rotation.
LEMMA RotateKeeps == ASSUME RetentionInv, Rotate PROVE RetentionInv'
<1>1. UNCHANGED <<lock, store, snaps, pins, base, pc, job, visit, overlap>> /\ lock = Free
  BY DEF Rotate
<1>2. Extends /\ Typed
  BY SealingIs DEF Rotate, RetentionInv
<1>3. /\ Grows(Free) /\ Ordered' /\ \A k \in Segments' \ raw' : k \in Segments \ raw
           /\ cuts'[k] = cuts[k]
      /\ pins' \in [Procs -> SUBSET Segments'] /\ Ahead'
      /\ (copies[2].segs + 1)..Len(cuts) \subseteq raw
           => (copies'[2].segs + 1)..Len(cuts') \subseteq raw'
  BY <1>1, <1>2, ExtendsKeeps
<1>4. Typed'
  <2>1. job' \in [Procs -> Jobs']
    BY <1>1, <1>2 DEF Typed, Extends
  <2> QED BY <1>1, <1>2, <1>3, <2>1 DEF Typed, Extends
<1>5. Everybody'
  <2>1. Alone(Free)
    BY <1>1 DEF Alone
  <2>2. \A q \in Procs \ {Free} : Works(q)'
    BY <1>2, <1>3, <2>1, OthersWork DEF RetentionInv
  <2> QED BY <2>2, FreeAssumption DEF Everybody
<1>6. Spared'
  BY <1>1 DEF RetentionInv, Spared
<1>7. Calm'
  <2>1. \A q \in Procs : Maintains(q)' <=> Maintains(q)
    BY <1>1 DEF Maintains
  <2>2. \A q \in Procs : Steady(q) => Steady(q)'
    <3>1. copies[1].segs > 0 => copies[1].segs \in Segments
      <4>1. copies[1].segs \in Nat /\ copies[1].segs <= Len(cuts)
        BY <1>2 DEF Typed, Bases, RetentionInv, Founded
      <4> QED BY <4>1 DEF Segments
    <3>2. copies' = copies /\ (copies[1].segs > 0 => cuts'[copies[1].segs] = cuts[copies[1].segs])
      BY <1>2, <3>1 DEF Extends
    <3> QED BY <1>1, <3>2 DEF Steady
  <2> QED BY <1>1, <1>3, <2>1, <2>2 DEF RetentionInv, Calm, Past, Single
<1> QED BY <1>2, <1>3, <1>4, <1>5, <1>6, <1>7 DEF RetentionInv, Extends

\* The invariant survives selecting the segments to retire, with the log sealed before or not.
LEMMA CaptureKeeps == ASSUME RetentionInv, NEW p \in Procs, Capture(p) PROVE RetentionInv'
<1>1. Known(p) /\ Typed
  BY KnownOf DEF Known
<1>2. /\ At(p, "idle") /\ lock = Free /\ len > 0
      /\ overlap' = (overlap \/ \E q \in Procs \ {p} : pc[q] \notin {"idle", "dead"})
      /\ base' = [base EXCEPT ![p] = copies[1]]
      /\ Sealing \/ UNCHANGED files
      /\ UNCHANGED <<lock, store, snaps, pins, visit>>
  BY <1>1 DEF Capture, Refresh, Known
<1>3. PICK k \in copies[1].segs..Len(cuts') :
        /\ job' = [job EXCEPT ![p] = [NoJob EXCEPT !.gen = copies[1].gen, !.from = copies[1].segs,
                                                   !.to = k, !.next = "retire"]]
        /\ pc' = [pc EXCEPT ![p] = IF k = copies[1].segs THEN "repair" ELSE "prepare"]
  BY <1>1 DEF Capture, Goto, Known
<1>4. Extends
  BY <1>2, SealingIs, StayingIs
<1>5. /\ Grows(Free) /\ Ordered' /\ \A i \in Segments' \ raw' : i \in Segments \ raw
           /\ cuts'[i] = cuts[i]
      /\ pins' \in [Procs -> SUBSET Segments'] /\ Ahead'
      /\ (copies[2].segs + 1)..Len(cuts) \subseteq raw
           => (copies'[2].segs + 1)..Len(cuts') \subseteq raw'
  BY <1>2, <1>4, ExtendsKeeps
<1>6. PICK u : u = [NoJob EXCEPT !.gen = copies[1].gen, !.from = copies[1].segs, !.to = k,
                                  !.next = "retire"]
  OBVIOUS
<1>8. job' = [job EXCEPT ![p] = u]
  BY <1>3, <1>6
<1>9. PICK l : l = IF k = copies[1].segs THEN "repair" ELSE "prepare"
  OBVIOUS
<1>10. /\ copies[1].gen \in Nat /\ copies[1].segs \in Nat /\ k \in Nat /\ copies[1].segs <= k
       /\ k <= Len(cuts') /\ l \in {"repair", "prepare"} /\ pc' = [pc EXCEPT ![p] = l]
       /\ Len(cuts') \in Nat
  <2>1. Len(cuts') \in Nat
    BY <1>4 DEF Extends
  <2> QED BY <1>1, <1>3, <1>9, <2>1 DEF Known
<1>11. u \in Jobs'
  BY <1>6, <1>10 DEF Jobs, NoJob, NoBase, Bases
<1>12. /\ u.gen = copies[1].gen /\ u.from = copies[1].segs /\ u.to = k /\ u.next = "retire"
       /\ u.left = {} /\ u.retire = {} /\ u.pinned = {}
  BY <1>6 DEF NoJob
<1>13. /\ pc' \in [Procs -> Labels] /\ base' \in [Procs -> Bases] /\ job' \in [Procs -> Jobs']
       /\ pc'[p] = l /\ base'[p] = copies[1] /\ job'[p] = u /\ Alone(p)
  <2>1. pc' \in [Procs -> Labels] /\ pc'[p] = l /\ \A q \in Procs \ {p} : pc'[q] = pc[q]
    BY <1>1, <1>10 DEF Typed, Labels
  <2>2. base' \in [Procs -> Bases] /\ base'[p] = copies[1]
          /\ \A q \in Procs \ {p} : base'[q] = base[q]
    BY <1>1, <1>2 DEF Typed, Known
  <2>3. job \in [Procs -> Jobs']
    BY <1>1, <1>4 DEF Typed, Extends
  <2>4. job' \in [Procs -> Jobs'] /\ job'[p] = u /\ \A q \in Procs \ {p} : job'[q] = job[q]
    BY <1>8, <1>11, <2>3
  <2>5. \A q \in Procs \ {p} : pins'[q] = pins[q]
    BY <1>2
  <2> QED BY <1>2, <2>1, <2>2, <2>4, <2>5 DEF Alone
<1>14. Grows(p)
  BY <1>2, <1>4, <1>5 DEF Grows, Extends
<1>15. Typed'
  BY <1>1, <1>2, <1>4, <1>5, <1>13 DEF Typed, Extends
<1>16. copies' = copies /\ arch' = arch /\ len' = len /\ raw \subseteq raw' /\ Founded'
  BY <1>4 DEF Extends
<1>17. Works(p)'
  <2>1. 1..copies[1].segs \subseteq arch
    BY DEF RetentionInv, Founded
  <2>2. store # p
    BY <1>1, <1>2 DEF Known, Works, At
  <2> QED BY <1>1, <1>2, <1>10, <1>12, <1>13, <1>16, <2>1, <2>2 DEF Works, Publishes, Known
<1>18. Spared'
  <2>1. \A q \in Procs : pc'[q] \in {"repair", "prepare"} \/ (pc'[q] = pc[q] /\ job'[q] = job[q])
    BY <1>10, <1>13 DEF Alone
  <2> QED BY <2>1, SparedKept DEF RetentionInv
<1>19. Calm'
  <2> SUFFICES ASSUME ~overlap' PROVE Calm'
    BY DEF Calm
  <2>1. ~overlap /\ \A q \in Procs \ {p} : pc[q] \in {"idle", "dead"}
    BY <1>2
  <2>2. \A q \in Procs \ {p} : pc'[q] \in {"idle", "dead"}
    BY <1>13, <2>1 DEF Alone
  <2>3. \A q \in Procs : Maintains(q)' => q = p
    BY <2>2 DEF Maintains, Publishes, Saves, Deletes
  <2>4. \A q \in Procs : Steady(q)'
    BY <1>10, <1>13, <2>2 DEF Steady, Saves, Deletes
  <2> QED BY <1>2, <1>5, <2>1, <2>3, <2>4 DEF RetentionInv, Calm, Past, Single
<1> QED BY <1>2, <1>5, <1>13, <1>14, <1>15, <1>16, <1>17, <1>18, <1>19, StepKeeps

-----------------------------------------------------------------------------
(* The visit. *)

\* A step of a visit keeps the invariant when what it has heard is complete so far.
LEMMA VisitKeeps ==
  ASSUME RetentionInv, visit' \in Visits, Ahead',
         UNCHANGED <<files, lock, store, snaps, pins, base, pc, job, overlap>>
  PROVE  RetentionInv'
<1> USE DEF RetentionInv, files
<1>1. Segments' = Segments /\ Jobs' = Jobs
  BY DEF Segments, Jobs
<1>2. Typed'
  BY <1>1 DEF Typed
<1>3. Ordered' /\ Founded' /\ Spared'
  BY <1>1 DEF Ordered, Founded, Spared
<1>4. Everybody'
  BY DEF Everybody, Works
<1>5. Calm'
  BY <1>1 DEF Calm, Past, Single, Steady, Maintains
<1> QED BY <1>2, <1>3, <1>4, <1>5

\* The invariant survives the start of a history visit.
LEMMA StartVisitKeeps == RetentionInv /\ StartVisit => RetentionInv'
<1> SUFFICES ASSUME RetentionInv, StartVisit PROVE RetentionInv'
  OBVIOUS
<1>1. /\ visit' = [todo |-> Requests, upto |-> len, heard |-> << >>, prev |-> 0, state |-> "open"]
      /\ UNCHANGED <<files, lock, store, snaps, pins, base, pc, job, overlap>> /\ len > 0
  BY DEF StartVisit
<1>2. cuts \in Seq(Nat) /\ len \in Nat /\ Ordered
  BY DEF RetentionInv, Typed
<1>3. PICK n \in Nat : n = Len(cuts) /\ Segments = 1..n
  BY <1>2 DEF Segments
<1>4. \A k \in 1..n : cuts[k] \in Nat /\ 0 < cuts[k] /\ cuts[k] <= len
  BY <1>2, <1>3 DEF Ordered
<1>5. \A k, l \in 1..n : k < l => cuts[k] < cuts[l]
  BY <1>2, <1>3 DEF Ordered
<1>6. PICK m : m = IF len > Sealed THEN n + 1 ELSE n
  OBVIOUS
<1>7. PICK todo : todo = Requests
  OBVIOUS
<1>8. todo = [k \in 1..m |-> [from |-> Cut(k - 1) + 1, to |-> IF k \in 1..n THEN cuts[k] ELSE len]]
  BY <1>3, <1>6, <1>7 DEF Requests
<1>9. m \in Nat /\ m > 0
  <2>1. n = 0 => Sealed = 0
    BY <1>3 DEF Sealed, Cut
  <2> QED BY <1>1, <1>2, <1>3, <1>6, <2>1
<1>10. \A k \in 1..m : Cut(k - 1) \in Nat /\ (k \in 1..n \/ (k = n + 1 /\ len > Sealed))
  BY <1>3, <1>4, <1>6, <1>9 DEF Cut
<1>11. todo \in Seq(Asks) /\ Len(todo) = m
  <2>1. todo \in [1..m -> Asks]
    BY <1>2, <1>4, <1>8, <1>10 DEF Asks
  <2> QED BY <1>9, <2>1
<1>12. \A i \in 1..m : todo[i].from = Cut(i - 1) + 1
         /\ todo[i].to = IF i \in 1..n THEN cuts[i] ELSE len
  BY <1>8
<1>13. \A i \in 1..m : 0 < todo[i].from /\ todo[i].from <= todo[i].to
  <2> TAKE i \in 1..m
  <2>1. CASE i \in 1..n
    <3>1. i = 1 \/ (i - 1 \in 1..n /\ i - 1 < i)
      BY <1>3, <2>1
    <3>2. Cut(i - 1) < cuts[i]
      BY <1>4, <1>5, <2>1, <3>1 DEF Cut
    <3> QED BY <1>4, <1>10, <1>12, <2>1, <3>2
  <2>2. CASE i = n + 1 /\ len > Sealed
    <3>1. Cut(i - 1) = Sealed /\ i \notin 1..n
      BY <1>3, <2>2 DEF Sealed
    <3> QED BY <1>2, <1>10, <1>12, <2>2, <3>1
  <2> QED BY <1>10, <2>1, <2>2
<1>14. \A i \in 1..m : todo[i].to = IF i = m THEN len ELSE todo[i + 1].from - 1
  <2> TAKE i \in 1..m
  <2>1. CASE i = m
    <3>1. CASE len > Sealed
      BY <1>3, <1>6, <1>12, <2>1, <3>1
    <3>2. CASE ~(len > Sealed)
      <4>1. m = n /\ Sealed = cuts[n] /\ n \in 1..n
        BY <1>3, <1>6, <1>9, <3>2 DEF Sealed, Cut
      <4>2. cuts[n] = len
        BY <1>2, <1>4, <3>2, <4>1
      <4> QED BY <1>12, <2>1, <4>1, <4>2
    <3> QED BY <3>1, <3>2
  <2>2. CASE i # m
    <3>1. i \in 1..n /\ i + 1 \in 1..m /\ i # 0
      BY <1>3, <1>6, <1>9, <2>2
    <3>2. todo[i + 1].from = cuts[i] + 1
      BY <1>12, <3>1 DEF Cut
    <3> QED BY <1>4, <1>12, <2>2, <3>1, <3>2
  <2> QED BY <2>1, <2>2
<1>15. visit' \in Visits /\ visit'.todo = todo /\ visit'.upto = len /\ visit'.heard = << >>
         /\ visit'.state = "open"
  BY <1>1, <1>2, <1>7, <1>11 DEF Visits
<1>16. len' = len /\ todo # << >> /\ todo[1].from = 1
  BY <1>1, <1>9, <1>11, <1>12 DEF files, Cut
<1>17. Reached(visit') = 0
  BY <1>15, <1>16 DEF Reached
<1>18. Onward(todo, len)
  BY <1>11, <1>13, <1>14 DEF Onward
<1>19. Told(<< >>, 0)
  BY DEF Told
<1>20. Ahead'
  BY <1>2, <1>15, <1>16, <1>17, <1>18, <1>19 DEF Ahead
<1> QED BY <1>1, <1>15, <1>20, VisitKeeps

\* One more source is heard.
LEMMA ToldMore ==
  ASSUME NEW heard \in Seq(SUBSET Nat), NEW from \in Nat, NEW to \in Nat, 0 < from, from <= to,
         Told(heard, from - 1), NEW events, events \subseteq from..to,
         \A e \in from..to : IsMemory(e) => e \in events
  PROVE  Append(heard, events) \in Seq(SUBSET Nat) /\ Told(Append(heard, events), to)
<1>1. PICK n \in Nat : n = Len(heard)
  OBVIOUS
<1>2. PICK more : more = Append(heard, events)
  OBVIOUS
<1>3. events \in SUBSET Nat
  OBVIOUS
<1>4. /\ more \in Seq(SUBSET Nat) /\ Len(more) = n + 1 /\ more[n + 1] = events
      /\ \A i \in 1..n : more[i] = heard[i]
  BY <1>1, <1>2, <1>3
<1>5. /\ \A i, j \in 1..n : i < j => \A e \in heard[i], f \in heard[j] : e < f
      /\ \A e \in 1..(from - 1) : IsMemory(e) => \E i \in 1..n : e \in heard[i]
      /\ \A i \in 1..n : heard[i] \subseteq 1..(from - 1)
  BY <1>1 DEF Told
<1>6. \A i, j \in 1..(n + 1) : i < j => \A e \in more[i], f \in more[j] : e < f
  <2> TAKE i, j \in 1..(n + 1)
  <2> SUFFICES ASSUME i < j, NEW e \in more[i], NEW f \in more[j] PROVE e < f
    OBVIOUS
  <2>1. i \in 1..n /\ e \in heard[i] /\ e \in 1..(from - 1)
    <3>1. i \in 1..n
      OBVIOUS
    <3>2. more[i] = heard[i]
      BY <1>4, <3>1
    <3>3. e \in heard[i]
      BY <3>2
    <3> QED BY <1>5, <3>1, <3>3
  <2>2. CASE j \in 1..n
    BY <1>4, <1>5, <2>1, <2>2
  <2>3. CASE j = n + 1
    <3>1. f \in from..to
      BY <1>4, <2>3
    <3> QED BY <2>1, <3>1
  <2> QED BY <2>2, <2>3
<1>7. \A e \in 1..to : IsMemory(e) => \E i \in 1..(n + 1) : e \in more[i]
  <2> SUFFICES ASSUME NEW e \in 1..to, IsMemory(e) PROVE \E i \in 1..(n + 1) : e \in more[i]
    OBVIOUS
  <2>1. CASE e \in 1..(from - 1)
    <3>1. PICK i \in 1..n : e \in heard[i]
      BY <1>5, <2>1
    <3> QED BY <1>4, <3>1
  <2>2. CASE e \in from..to
    BY <1>4, <2>2
  <2> QED BY <2>1, <2>2
<1>8. \A i \in 1..(n + 1) : more[i] \subseteq 1..to
  <2> TAKE i \in 1..(n + 1)
  <2>1. CASE i \in 1..n
    <3>1. more[i] \subseteq 1..(from - 1)
      BY <1>4, <1>5, <2>1
    <3> QED BY <3>1
  <2>2. CASE i = n + 1
    <3>1. more[i] \subseteq from..to
      BY <1>4, <2>2
    <3> QED BY <3>1
  <2> QED BY <2>1, <2>2
<1>9. Told(more, to)
  BY <1>4, <1>6, <1>7, <1>8 DEF Told
<1> QED BY <1>2, <1>4, <1>9

\* The rest of the requests.
LEMMA OnwardTail ==
  ASSUME NEW todo \in Seq(Asks), NEW upto \in Nat, Onward(todo, upto), todo # << >>
  PROVE  /\ Head(todo) \in Asks /\ 0 < Head(todo).from /\ Head(todo).from <= Head(todo).to
         /\ Head(todo).from \in Nat /\ Head(todo).to \in Nat
         /\ todo[1] = Head(todo) /\ Tail(todo) \in Seq(Asks) /\ Onward(Tail(todo), upto)
         /\ Head(todo).to = IF Tail(todo) = << >> THEN upto ELSE Tail(todo)[1].from - 1
<1>1. PICK n \in Nat : n = Len(todo) /\ n > 0
  OBVIOUS
<1>2. PICK rest : rest = Tail(todo)
  OBVIOUS
<1>3. /\ rest \in Seq(Asks) /\ Len(rest) = n - 1 /\ \A i \in 1..(n - 1) : rest[i] = todo[i + 1]
  BY <1>1, <1>2
<1>4. \A i \in 1..n : /\ 0 < todo[i].from /\ todo[i].from <= todo[i].to
                      /\ todo[i].to = IF i = n THEN upto ELSE todo[i + 1].from - 1
  BY <1>1 DEF Onward
<1>5. Head(todo) = todo[1] /\ todo[1] \in Asks /\ 1 \in 1..n
  BY <1>1
<1>6. todo[1].from \in Nat /\ todo[1].to \in Nat
  BY <1>5 DEF Asks
<1>7. \A i \in 1..(n - 1) : /\ 0 < rest[i].from /\ rest[i].from <= rest[i].to
                            /\ rest[i].to = IF i = n - 1 THEN upto ELSE rest[i + 1].from - 1
  <2> TAKE i \in 1..(n - 1)
  <2>1. i + 1 \in 1..n /\ rest[i] = todo[i + 1] /\ (i + 1 = n <=> i = n - 1)
    BY <1>1, <1>3
  <2>2. i # n - 1 => rest[i + 1] = todo[i + 1 + 1]
    BY <1>1, <1>3
  <2> QED BY <1>4, <2>1, <2>2
<1>8. Onward(rest, upto)
  BY <1>3, <1>7 DEF Onward
<1>9. todo[1].to = IF rest = << >> THEN upto ELSE rest[1].from - 1
  <2>1. rest = << >> <=> n = 1
    BY <1>1, <1>3
  <2>2. n # 1 => rest[1] = todo[1 + 1]
    BY <1>1, <1>3
  <2> QED BY <1>4, <1>5, <2>1, <2>2
<1> QED BY <1>2, <1>3, <1>4, <1>5, <1>6, <1>8, <1>9

\* A refused visit is one.
LEMMA RefusedVisit == Refused \in Visits /\ Refused.state = "refused"
<1>1. NoVisit \in Visits
  BY DEF NoVisit, Visits
<1>2. PICK v : v = NoVisit
  OBVIOUS
<1>3. Refused = [v EXCEPT !.state = "refused"] /\ v \in Visits
  BY <1>1, <1>2 DEF Refused
<1> QED BY <1>3 DEF Visits

\* The invariant survives hearing one source.
LEMMA VisitSourceKeeps == RetentionInv /\ VisitSource => RetentionInv'
<1> SUFFICES ASSUME RetentionInv, VisitSource PROVE RetentionInv'
  OBVIOUS
<1>1. /\ visit.state = "open" /\ visit.todo # << >>
      /\ UNCHANGED <<files, lock, store, snaps, pins, base, pc, job, overlap>>
  BY DEF VisitSource
<1>2. PICK r : r = Head(visit.todo)
  OBVIOUS
<1>3. \/ visit' = Refused
      \/ \E events \in {{e \in r.from..r.to : IsMemory(e)}, r.from..r.to}, prev \in {r.to, -1} :
           visit' = [visit EXCEPT !.todo = Tail(visit.todo), !.heard = Append(visit.heard, events),
                                  !.prev = prev]
  BY <1>2 DEF VisitSource
<1>4. CASE visit' = Refused
  <2>1. visit' \in Visits /\ visit'.state = "refused"
    BY <1>4, RefusedVisit
  <2>2. Ahead'
    BY <2>1 DEF Ahead
  <2> QED BY <1>1, <2>1, <2>2, VisitKeeps
<1>5. ASSUME NEW events \in {{e \in r.from..r.to : IsMemory(e)}, r.from..r.to},
             NEW prev \in {r.to, -1},
             visit' = [visit EXCEPT !.todo = Tail(visit.todo),
               !.heard = Append(visit.heard, events),
                                    !.prev = prev]
      PROVE  RetentionInv'
  <2>1. visit \in Visits
    BY DEF RetentionInv, Typed
  <2>2. visit.todo \in Seq(Asks) /\ visit.upto \in Nat /\ visit.heard \in Seq(SUBSET Nat)
    BY <2>1 DEF Visits
  <2>3. visit.upto <= len /\ Onward(visit.todo, visit.upto) /\ Told(visit.heard, Reached(visit))
    BY <1>1 DEF RetentionInv, Ahead
  <2>4. /\ 0 < r.from /\ r.from <= r.to /\ r.from \in Nat /\ r.to \in Nat
        /\ visit.todo[1] = r /\ Tail(visit.todo) \in Seq(Asks)
             /\ Onward(Tail(visit.todo), visit.upto)
        /\ r.to = IF Tail(visit.todo) = << >> THEN visit.upto ELSE Tail(visit.todo)[1].from - 1
    BY <1>1, <1>2, <2>2, <2>3, OnwardTail
  <2>5. Told(visit.heard, r.from - 1)
    BY <1>1, <2>3, <2>4 DEF Reached
  <2>6. events \subseteq r.from..r.to /\ \A e \in r.from..r.to : IsMemory(e) => e \in events
    BY <1>5
  <2>7. Append(visit.heard, events) \in Seq(SUBSET Nat) /\ Told(Append(visit.heard, events), r.to)
    BY <2>2, <2>4, <2>5, <2>6, ToldMore
  <2>8. PICK todo : todo = Tail(visit.todo)
    OBVIOUS
  <2>9. PICK heard : heard = Append(visit.heard, events)
    OBVIOUS
  <2>10. prev \in Int
    <3>1. prev = r.to \/ prev = -1
      OBVIOUS
    <3>2. CASE prev = r.to
      <4>1. r.to \in Nat
        BY <2>4
      <4>2. r.to \in Int
        BY <4>1
      <4> QED BY <3>2, <4>2, Zenon
    <3>3. CASE prev = -1
      BY <3>3
    <3> QED BY <3>1, <3>2, <3>3
  <2>11. /\ visit' \in Visits /\ visit'.todo = todo /\ visit'.heard = heard
              /\ visit'.upto = visit.upto
         /\ visit'.state = "open"
    <3>1. visit' = [visit EXCEPT !.todo = todo, !.heard = heard, !.prev = prev]
      BY <1>5, <2>8, <2>9
    <3>2. todo \in Seq(Asks) /\ heard \in Seq(SUBSET Nat)
      BY <2>4, <2>7, <2>8, <2>9
    <3> QED BY <1>1, <2>1, <2>10, <3>1, <3>2 DEF Visits
  <2>12. Reached(visit') = r.to
    BY <2>4, <2>8, <2>11 DEF Reached
  <2>13. len' = len
    BY <1>1 DEF files
  <2>14. Ahead'
    BY <2>3, <2>4, <2>7, <2>8, <2>9, <2>11, <2>12, <2>13 DEF Ahead
  <2> QED BY <1>1, <2>11, <2>14, VisitKeeps
<1> QED BY <1>3, <1>4, <1>5

\* The invariant survives the end of a visit.
LEMMA EndVisitKeeps == RetentionInv /\ EndVisit => RetentionInv'
<1> SUFFICES ASSUME RetentionInv, EndVisit PROVE RetentionInv'
  OBVIOUS
<1>1. /\ visit.state = "open" /\ visit.todo = << >>
      /\ visit' = [visit EXCEPT !.state = "done"] \/ visit' = Refused
      /\ UNCHANGED <<files, lock, store, snaps, pins, base, pc, job, overlap>> /\ visit \in Visits
      /\ len' = len
  BY DEF EndVisit, RetentionInv, Typed, files
<1>2. CASE visit' = [visit EXCEPT !.state = "done"]
  <2>1. /\ visit' \in Visits /\ visit'.state = "done" /\ visit'.todo = visit.todo
        /\ visit'.upto = visit.upto /\ visit'.heard = visit.heard
    BY <1>1, <1>2 DEF Visits
  <2>2. Reached(visit') = Reached(visit)
    BY <2>1 DEF Reached
  <2>3. Ahead'
    BY <1>1, <2>1, <2>2 DEF RetentionInv, Ahead
  <2> QED BY <1>1, <2>1, <2>3, VisitKeeps
<1>3. CASE visit' = Refused
  <2>1. visit' \in Visits /\ visit'.state = "refused"
    BY <1>3, RefusedVisit
  <2>2. Ahead'
    BY <2>1 DEF Ahead
  <2> QED BY <1>1, <2>1, <2>2, VisitKeeps
<1> QED BY <1>1, <1>2, <1>3

\* A step that changes nothing.
LEMMA StutterKeeps == RetentionInv /\ UNCHANGED vars => RetentionInv'
<1> SUFFICES ASSUME RetentionInv, UNCHANGED vars PROVE RetentionInv'
  OBVIOUS
<1>1. visit' \in Visits /\ Ahead' /\ UNCHANGED <<files, lock, store, snaps, pins, base, pc, job,
        overlap>>
  BY DEF vars, files, RetentionInv, Typed, Ahead
<1> QED BY <1>1, VisitKeeps

-----------------------------------------------------------------------------
(* The theorems. *)

\* The inductive invariant: copy 1 of the baseline is the best and its archives and
\* the raw segments after it are there (Founded); who has read the pins spares what was
\* captured before (Spared); each process holds what its next steps need (Works); and as
\* long as maintenance has not overlapped, the backup reaches beyond what may be deleted (Calm).
THEOREM RetentionKept == Spec => []RetentionInv
<1>1. Init => RetentionInv
  BY InitHolds
<1>2. RetentionInv /\ [Next]_vars => RetentionInv'
  <2> SUFFICES ASSUME RetentionInv, [Next]_vars PROVE RetentionInv'
    OBVIOUS
  <2>1. CASE AppendEvent \/ Rotate \/ StartVisit \/ VisitSource \/ EndVisit
    BY <2>1, AppendEventKeeps, RotateKeeps, StartVisitKeeps, VisitSourceKeeps, EndVisitKeeps
  <2>2. ASSUME NEW p \in Procs, Maintenance(p) PROVE RetentionInv'
    BY <2>2, CaptureKeeps, PrepareKeeps, PublishKeeps, WriteSecondKeeps, RepairKeeps,
       ListRetiredKeeps,
       ReadPinsKeeps, DeleteKeeps, TrimKeeps DEF Maintenance
  <2>3. ASSUME NEW p \in Procs, Backup(p) PROVE RetentionInv'
    BY <2>3, BackupOnlyKeeps, CaptureBackupKeeps, EnterStoreKeeps, CopyFileKeeps, SnapshotKeeps
       DEF Backup
  <2>4. ASSUME NEW p \in Procs, Read(p) \/ Fail(p) \/ Crash(p) \/ Start(p) PROVE RetentionInv'
    BY <2>4, ReadKeeps, FailKeeps, CrashKeeps, StartKeeps
  <2> QED BY <2>1, <2>2, <2>3, <2>4, StutterKeeps DEF Next
<1> QED BY <1>1, <1>2, PTL DEF Spec

\* A sequence of numbers of which each one is in a set is a sequence over that set.
LEMMA ElementsInside ==
  ASSUME NEW s \in Seq(Nat), NEW T, \A i \in 1..Len(s) : s[i] \in T
  PROVE  s \in Seq(T)
<1>1. PICK n \in Nat : n = Len(s)
  OBVIOUS
<1>2. s = [i \in 1..n |-> s[i]]
  BY <1>1
<1>3. [i \in 1..n |-> s[i]] \in [1..n -> T]
  BY <1>1
<1> QED BY <1>2, <1>3

\* The invariant implies what the run checks.
LEMMA InvIsEnough == RetentionInv => Recoverable /\ ReadersAreServed
<1> SUFFICES ASSUME RetentionInv PROVE Recoverable /\ ReadersAreServed
  OBVIOUS
<1>1. Typed /\ Ordered /\ Founded /\ Best = copies[1]
  BY FirstIsBest DEF RetentionInv
<1>2. PICK n \in Nat : n = Len(cuts) /\ Segments = 1..n
  BY <1>1 DEF Typed, Segments
<1>3. cuts \in Seq(1..len) /\ snaps \in Seq(1..len)
  <2>1. \A k \in 1..n : cuts[k] \in 1..len
    BY <1>1, <1>2 DEF Typed, Ordered
  <2>2. \A i \in 1..Len(snaps) : snaps[i] \in 1..len
    BY <1>1 DEF Typed, Ordered
  <2>3. cuts \in Seq(1..len)
    BY <1>1, <1>2, <2>1, ElementsInside DEF Typed
  <2>4. snaps \in Seq(1..len)
    BY <1>1, <2>2, ElementsInside DEF Typed
  <2> QED BY <2>3, <2>4
<1>4. TypeOK
  <2>1. lock # Free => pc[lock] \in {"second", "repaired"}
    BY <1>1 DEF RetentionInv, Everybody, Works, Typed
  <2>2. store # Free => pc[store] = "copy"
    BY <1>1 DEF RetentionInv, Everybody, Works, Typed
  <2>3. \A p \in Procs : job[p].left \subseteq Segments /\ job[p].retire \subseteq Segments
    BY <1>1 DEF Typed, Jobs
  <2>4. visit.state \in {"none", "open", "done", "refused"}
    BY <1>1 DEF Typed, Visits
  <2>5. ckpt.gen \in Nat /\ ckpt.segs \subseteq Segments
    BY <1>1 DEF Typed
  <2> QED BY <1>1, <1>3, <2>1, <2>2, <2>3, <2>4, <2>5 DEF TypeOK, Typed, Ordered
<1>5. Loads(Best)
  BY <1>1 DEF Loads, Founded
<1>6. ~overlap => EitherCopyRecovers
  <2>1. copies[2].segs \in Nat /\ copies[1].segs \in Nat /\ copies[2].segs <= copies[1].segs
    BY <1>1 DEF Typed, Bases, Founded, Behind
  <2>2. 1..copies[2].segs \subseteq arch
    BY <1>1, <2>1 DEF Founded
  <2>3. \A i \in 1..2 : i = 1 \/ i = 2
    OBVIOUS
  <2> QED BY <1>1, <2>2, <2>3 DEF EitherCopyRecovers, RetentionInv, Calm, Founded
<1>7. ~overlap => DeletedAreBackedUp
  <2>1. \A k \in Segments : Cut(k) = cuts[k]
    BY <1>2 DEF Cut
  <2>2. Len(snaps) > 0 => 1 \in 1..Len(snaps)
    BY <1>1 DEF Typed
  <2>3. ~overlap => \A k \in Segments \ raw : Len(snaps) > 0 /\ cuts[k] <= snaps[1]
    BY DEF RetentionInv, Calm, Past
  <2>4. \A k \in Segments : cuts[k] \in Nat
    BY <1>1, <1>2 DEF Typed
  <2>5. Len(snaps) > 0 => snaps[1] \in Nat
    BY <1>1 DEF Typed
  <2> QED BY <2>1, <2>2, <2>3, <2>4, <2>5 DEF DeletedAreBackedUp
<1>8. CapturedFilesStay
  BY DEF RetentionInv, Everybody, Works, CapturedFilesStay
<1>9. VisitComplete
  <2> SUFFICES ASSUME visit.state = "done" PROVE VisitComplete
    BY DEF VisitComplete
  <2>1. Told(visit.heard, visit.upto)
    BY DEF RetentionInv, Ahead, Reached
  <2> QED BY <2>1 DEF VisitComplete, Told
<1> QED BY <1>4, <1>5, <1>6, <1>7, <1>8, <1>9 DEF Recoverable, ReadersAreServed

\* performMaintenance and its deletions (Journal.ts): whatever publication, deletion or
\* death was interrupted and however maintenance of several processes overlaps, the files on
\* disk load as a session; without overlap either baseline copy suffices and what is deleted
\* is backed up.
THEOREM FilesAlwaysLoad == Spec => []Recoverable
BY RetentionKept, InvIsEnough, PTL

\* backup and visitHistory (Journal.ts) against removeRetired: no file that a running
\* backup captured is deleted under it, and a visit that ends has heard every memory event
\* up to its boundary once and in order.
THEOREM ReadersServed == Spec => []ReadersAreServed
BY RetentionKept, InvIsEnough, PTL

=============================================================================
