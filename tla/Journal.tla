------------------------------ MODULE Journal -------------------------------
(***************************************************************************)
(* The session journal: an append-only, hash-chained log shared by several *)
(* processes through the file system (session/Journal.ts).                 *)
(*                                                                         *)
(* On disk the log is a row of sealed segments and one active file.  Here  *)
(* it is the sequence `entries' of complete records, cut into segments at  *)
(* the positions `cuts'; what follows the last cut is the active file, and *)
(* `torn' says that bytes without a newline follow the last record.  The   *)
(* hash of a record is a function of the record (its id is a fresh UUID)   *)
(* and of its predecessor, so the id stands for it.                        *)
(*                                                                         *)
(* An append runs under the journal lock, which is a plain mutual          *)
(* exclusion here (JournalLock models how it is built).  A read takes no   *)
(* lock: its system calls interleave with everything a writer does.        *)
(***************************************************************************)
EXTENDS Integers, Sequences

CONSTANTS
  Procs,         \* operating-system processes that open the journal
  Free,          \* nobody holds the journal lock
  LateDirStamps, \* a directory's time stamp may lag behind a rename in it
  SegmentLimit,  \* records after which the active file is sealed
  MaxAppends,    \* bound: records whose write begins
  MaxCrashes     \* bound: process deaths

ASSUME FreeAssumption == Free \notin Procs
ASSUME LateAssumption == LateDirStamps \in BOOLEAN
ASSUME LimitAssumption == SegmentLimit \in Nat \ {0}

VARIABLES
  entries, cuts, torn,  \* the log files
  ckpt,                 \* checkpoint.json: the prefix it covers
  lock,                 \* holder of the journal lock
  begun,                \* ids handed out
  cache,                \* per process: the fields of its SessionJournal
  pc, found,            \* per process: the running call and what it has read
  acked,                \* records whose append returned
  seen,                 \* per process: the projection its last call returned
  crashes

disk == <<entries, cuts, torn, ckpt>>
vars == <<entries, cuts, torn, ckpt, lock, begun, cache, pc, found, acked, seen, crashes>>

-----------------------------------------------------------------------------
(* The files, as a process finds them. *)

Cut(k) == IF k = 0 THEN 0 ELSE cuts[k]
Sealed == Cut(Len(cuts))

(* The stamp of a file that is not there. *)
Absent == [ino |-> -1, size |-> 0, torn |-> FALSE]

(* stat() of the active file.  Each rotation moves the inode away, so the
   number of rotations identifies it; size is in records. *)
ActiveStamp ==
  IF Len(entries) = Sealed /\ ~torn
  THEN Absent
  ELSE [ino |-> Len(cuts), size |-> Len(entries) - Sealed, torn |-> torn]

(* stat() of the segment directory by a process that last saw stamp dir (-1:
   it has seen none, 0: there was no directory).  Where stamps lag, a rename
   into a directory that exists may not show yet. *)
DirStamps(dir) == {Len(cuts)} \cup (IF LateDirStamps /\ dir > 0 THEN {dir} ELSE {})

(* checkpoint.json names the segments it covers.  One that names segments
   missing from a listing of k segments makes the reader refuse. *)
CheckpointAhead(k) == ckpt.segments > k

-----------------------------------------------------------------------------
(* One SessionJournal object.  view is the projection, identified with the
   records reduced into it; segs counts the segments it knows and from is
   the sequence number they end at. *)

NewCache == [view |-> << >>, segs |-> 0, from |-> 0, dir |-> -1, stamp |-> Absent]

Offset(c) == Len(c.view) - c.from

LastId(view) == IF view = << >> THEN 0 ELSE view[Len(view)].id

(* A wrong Continues: a record is taken as it comes. *)
ContinuesUnchecked(view, more) == TRUE

(* replay: each record must continue the sequence and the hash chain. *)
Continues(view, more) ==
  \A i \in 1..Len(more) :
    /\ more[i].seq = Len(view) + i
    /\ more[i].prev = IF i = 1 THEN LastId(view) ELSE more[i - 1].id

(* restore, from a listing of k segments: the checkpoint if there is one,
   then the segments after it; the active file is forgotten. *)
Restored(k, dir) ==
  [view  |-> ckpt.view \o SubSeq(entries, Len(ckpt.view) + 1, Cut(k)),
   segs  |-> k,
   from  |-> Cut(k),
   dir   |-> dir,
   stamp |-> Absent]

(* refresh: the active file it had read is gone, another one, or shorter. *)
WasRotated(c, stamp) ==
  /\ Offset(c) # 0
  /\ \/ stamp = Absent
     \/ c.stamp # Absent /\ stamp.ino # c.stamp.ino
     \/ ActiveStamp.size < Offset(c)

(* A wrong UpToDate: the size of the file is not compared. *)
UpToDateByIdentity(c, stamp) ==
  (stamp.ino = c.stamp.ino /\ c.stamp # Absent) \/ (stamp = Absent /\ Offset(c) = 0)

(* refresh: the stamp is the one it knows, or there is no active file. *)
UpToDate(c, stamp) == stamp = c.stamp \/ (stamp = Absent /\ Offset(c) = 0)

(* refresh: a size that cannot be. *)
SizeRefused(c, stamp) ==
  \/ stamp = Absent /\ Offset(c) # 0
  \/ ActiveStamp = Absent
  \/ ActiveStamp.size < Offset(c)

(* refresh: a changed file of the same size is verified from the start. *)
SameSize(c) == ActiveStamp.size = Offset(c) /\ ~ActiveStamp.torn

(* refresh: the bytes appended, up to the size it has just seen.  They come
   from whatever file has the name at the moment it is opened. *)
Appended(c, size) ==
  SubSeq(entries, Sealed + Offset(c) + 1,
         IF Sealed + size < Len(entries) THEN Sealed + size ELSE Len(entries))

ReadRefused(c, size) == ActiveStamp = Absent \/ ~Continues(c.view, Appended(c, size))

Grow(c, stamp, size) ==
  [view |-> c.view \o Appended(c, size), segs |-> c.segs, from |-> c.from,
   dir |-> c.dir, stamp |-> stamp]

(* Wrong variants: no rescan of the directory, no refresh at all. *)
AfterRescanNever(c, dir) == c
RefreshedNever(c, dir) == c

(* refresh with the files held still by the lock: the same parts at once. *)
AfterRescan(c, dir) == IF c.dir = dir THEN c ELSE Restored(Len(cuts), dir)

AfterFollow(c, dir) ==
  IF WasRotated(c, ActiveStamp) THEN Restored(Len(cuts), dir) ELSE c

AfterVerify(c) == IF SameSize(c) THEN Restored(c.segs, c.dir) ELSE c

Refreshed(c, dir) ==
  LET d == AfterFollow(AfterRescan(c, dir), dir)
  IN  IF UpToDate(d, ActiveStamp) THEN d
      ELSE Grow(AfterVerify(d), ActiveStamp, ActiveStamp.size)

RefreshRefused(c, dir) ==
  LET r == AfterRescan(c, dir)
      d == AfterFollow(r, dir)
  IN  \/ c.dir # dir /\ CheckpointAhead(Len(cuts))
      \/ WasRotated(r, ActiveStamp) /\ (r.segs = Len(cuts) \/ CheckpointAhead(Len(cuts)))
      \/ /\ ~UpToDate(d, ActiveStamp)
         /\ \/ SizeRefused(d, ActiveStamp)
            \/ SameSize(d) /\ CheckpointAhead(d.segs)
            \/ ReadRefused(AfterVerify(d), ActiveStamp.size)

-----------------------------------------------------------------------------
NothingFound == [dir |-> -1, stamp |-> Absent, segs |-> 0, then |-> "idle", size |-> 0]

Init ==
  /\ entries = << >> /\ cuts = << >> /\ torn = FALSE
  /\ ckpt = [segments |-> 0, view |-> << >>]
  /\ lock = Free
  /\ begun = 0
  /\ cache = [p \in Procs |-> NewCache]
  /\ pc = [p \in Procs |-> "start"]
  /\ found = [p \in Procs |-> NothingFound]
  /\ acked = {}
  /\ seen = [p \in Procs |-> << >>]
  /\ crashes = 0

Goto(p, label) == pc' = [pc EXCEPT ![p] = label]
At(p, label) == pc[p] = label

(* A refresh ends, in an exception or with the projection shown to the
   caller; what it had found on the way is gone with its stack frame. *)
Leave(p) == Goto(p, "idle") /\ found' = [found EXCEPT ![p] = NothingFound]
Throw(p) == Leave(p) /\ UNCHANGED seen
Show(p, view) == Leave(p) /\ seen' = [seen EXCEPT ![p] = view]

readOnly == <<disk, lock, begun, acked, crashes>>

(* --- a read without the lock, one system call per step ---------------- *)

(* The constructor refreshes in a process just started, every accessor in
   one that is running. *)
StatDirectory(p) ==
  /\ pc[p] \in {"start", "idle"} /\ Goto(p, "stat")
  /\ \E dir \in DirStamps(cache[p].dir) : found' = [found EXCEPT ![p].dir = dir]
  /\ UNCHANGED <<readOnly, cache, seen>>

StatActive(p) ==
  /\ At(p, "stat") /\ Goto(p, "rescan")
  /\ found' = [found EXCEPT ![p].stamp = ActiveStamp]
  /\ UNCHANGED <<readOnly, cache, seen>>

(* readSegments: list the directory, then go on to restore. *)
ListSegments(p, next) ==
  /\ found' = [found EXCEPT ![p].segs = Len(cuts), ![p].then = next]
  /\ Goto(p, "restore")

CheckDirectory(p) ==
  /\ At(p, "rescan")
  /\ IF found[p].dir = cache[p].dir
     THEN Goto(p, "follow") /\ UNCHANGED found
     ELSE ListSegments(p, "follow")
  /\ UNCHANGED <<readOnly, cache, seen>>

RestoreSegments(p) ==
  /\ At(p, "restore")
  /\ IF CheckpointAhead(found[p].segs)
     THEN Throw(p) /\ UNCHANGED cache
     ELSE /\ Goto(p, found[p].then)
          /\ cache' = [cache EXCEPT ![p] = Restored(found[p].segs, found[p].dir)]
          /\ UNCHANGED <<found, seen>>
  /\ UNCHANGED readOnly

CheckRotation(p) ==
  /\ At(p, "follow")
  /\ LET c == cache[p]
     IN  \/ ~WasRotated(c, found[p].stamp) /\ Goto(p, "size") /\ UNCHANGED <<found, seen>>
         \/ WasRotated(c, found[p].stamp) /\ c.segs = Len(cuts) /\ Throw(p)
         \/ /\ WasRotated(c, found[p].stamp) /\ c.segs # Len(cuts)
            /\ ListSegments(p, "size") /\ UNCHANGED seen
  /\ UNCHANGED <<readOnly, cache>>

StatSize(p) ==
  /\ At(p, "size")
  /\ LET c == cache[p]
         s == found[p].stamp
     IN  \/ UpToDate(c, s) /\ Show(p, c.view) /\ UNCHANGED cache
         \/ /\ ~UpToDate(c, s)
            /\ SizeRefused(c, s) \/ (SameSize(c) /\ CheckpointAhead(c.segs))
            /\ Throw(p) /\ UNCHANGED cache
         \/ /\ ~UpToDate(c, s) /\ ~SizeRefused(c, s)
            /\ ~(SameSize(c) /\ CheckpointAhead(c.segs))
            /\ Goto(p, "read")
            /\ cache' = [cache EXCEPT ![p] = AfterVerify(c)]
            /\ found' = [found EXCEPT ![p].size = ActiveStamp.size]
            /\ UNCHANGED seen
  /\ UNCHANGED readOnly

ReadActive(p) ==
  /\ At(p, "read")
  /\ LET c == cache[p]
         f == found[p]
         g == Grow(c, f.stamp, f.size)
     IN  \/ ReadRefused(c, f.size) /\ Throw(p) /\ UNCHANGED cache
         \/ ~ReadRefused(c, f.size) /\ Show(p, g.view) /\ cache' = [cache EXCEPT ![p] = g]
  /\ UNCHANGED readOnly

(* --- an append, under the lock ---------------------------------------- *)

Acquire(p) ==
  /\ At(p, "idle") /\ lock = Free
  /\ lock' = p /\ Goto(p, "locked")
  /\ UNCHANGED <<disk, begun, cache, found, acked, seen, crashes>>

(* locked: refresh, then cut off an incomplete record.  The file is
   truncated to the offset this process has verified. *)
Enter(p) ==
  /\ At(p, "locked")
  /\ \E dir \in DirStamps(cache[p].dir) :
       IF RefreshRefused(cache[p], dir)
       THEN lock' = Free /\ Goto(p, "idle") /\ UNCHANGED <<disk, cache>>
       ELSE LET c == Refreshed(cache[p], dir)
            IN  /\ cache' = [cache EXCEPT ![p] = c]
                /\ entries' = SubSeq(entries, 1, Sealed + Offset(c))
                /\ torn' = FALSE
                /\ Goto(p, "ready")
                /\ UNCHANGED <<cuts, ckpt, lock>>
  /\ UNCHANGED <<begun, found, acked, seen, crashes>>

(* The lock is released and nothing was appended: the guard or the reducer
   threw, or the call was not an append (a backup, a retention step). *)
Unlock(p) ==
  /\ pc[p] \in {"ready", "swept"}
  /\ lock' = Free /\ Goto(p, "idle")
  /\ UNCHANGED <<disk, begun, cache, found, acked, seen, crashes>>

BeginWrite(p) ==
  /\ At(p, "ready") /\ begun < MaxAppends
  /\ begun' = begun + 1 /\ torn' = TRUE
  /\ Goto(p, "writing")
  /\ UNCHANGED <<entries, cuts, ckpt, lock, cache, found, acked, seen, crashes>>

(* A wrong NewRecord: numbered by the record before it. *)
NewRecordLate(c) == [seq |-> Len(c.view), id |-> begun, prev |-> LastId(c.view)]

NewRecord(c) == [seq |-> Len(c.view) + 1, id |-> begun, prev |-> LastId(c.view)]

(* A wrong FinishWrite: a write that was complete is tried again. *)
FinishWriteTwice(p) ==
  /\ At(p, "writing")
  /\ entries' = entries \o <<NewRecord(cache[p]), NewRecord(cache[p])>>
  /\ torn' = FALSE
  /\ Goto(p, "written")
  /\ UNCHANGED <<cuts, ckpt, lock, begun, cache, found, acked, seen, crashes>>

FinishWrite(p) ==
  /\ At(p, "writing")
  /\ entries' = Append(entries, NewRecord(cache[p]))
  /\ torn' = FALSE
  /\ Goto(p, "written")
  /\ UNCHANGED <<cuts, ckpt, lock, begun, cache, found, acked, seen, crashes>>

(* fsync returned: only now the process accepts its own record. *)
Commit(p) ==
  /\ At(p, "written")
  /\ cache' = [cache EXCEPT ![p].view = Append(@, NewRecord(cache[p])),
                            ![p].stamp = ActiveStamp]
  /\ Goto(p, "committed")
  /\ UNCHANGED <<disk, lock, begun, found, acked, seen, crashes>>

(* A write, an fsync or the rename of a rotation fails: the call throws,
   with as much of the record in the file as there is. *)
Fail(p) ==
  /\ pc[p] \in {"writing", "written", "committed"}
  /\ lock' = Free /\ Goto(p, "idle")
  /\ UNCHANGED <<disk, begun, cache, found, acked, seen, crashes>>

(* rotate: the active file becomes the next segment, after an append that
   filled it or, to meet a quota, before retention captures the log. *)
Seal(p, next) ==
  /\ Offset(cache[p]) # 0
  /\ cuts' = Append(cuts, Len(cache[p].view))
  /\ Goto(p, next)
  /\ UNCHANGED <<entries, torn, ckpt, lock, begun, cache, found, acked, seen, crashes>>

Rotate(p) == At(p, "committed") /\ Offset(cache[p]) >= SegmentLimit /\ Seal(p, "sealed")
ForceRotate(p) == At(p, "ready") /\ Seal(p, "forced")

(* A wrong AfterSeal: the offset in the new active file is not reset. *)
AfterSealKeepingOffset(c) ==
  [view |-> c.view, segs |-> Len(cuts), from |-> c.from,
   dir |-> Len(cuts), stamp |-> Absent]

AfterSeal(c) ==
  [view |-> c.view, segs |-> Len(cuts), from |-> Len(c.view),
   dir |-> Len(cuts), stamp |-> Absent]

(* The checkpoint write may fail; the rotation stands either way. *)
Checkpoint(p, from, next) ==
  /\ At(p, from) /\ Goto(p, next)
  /\ \/ ckpt' = [segments |-> Len(cuts), view |-> cache[p].view]
     \/ UNCHANGED ckpt
  /\ cache' = [cache EXCEPT ![p] = AfterSeal(cache[p])]
  /\ UNCHANGED <<entries, cuts, torn, lock, begun, found, acked, seen, crashes>>

(* The lock is released and append returns the record to its caller. *)
Return(p) ==
  /\ \/ At(p, "committed") /\ Offset(cache[p]) < SegmentLimit
     \/ At(p, "rotated")
  /\ acked' = acked \cup {cache[p].view[Len(cache[p].view)]}
  /\ lock' = Free
  /\ Show(p, cache[p].view)
  /\ UNCHANGED <<disk, begun, cache, crashes>>

(* --- process death and start ------------------------------------------ *)

(* Any step may be the last one.  The lock of a dead owner is taken away
   from it (JournalLock). *)
Crash(p) ==
  /\ ~At(p, "dead") /\ crashes < MaxCrashes
  /\ crashes' = crashes + 1
  /\ Goto(p, "dead")
  /\ lock' = IF lock = p THEN Free ELSE lock
  /\ cache' = [cache EXCEPT ![p] = NewCache]
  /\ found' = [found EXCEPT ![p] = NothingFound]
  /\ seen' = [seen EXCEPT ![p] = << >>]
  /\ UNCHANGED <<disk, begun, acked>>

Start(p) ==
  /\ At(p, "dead") /\ Goto(p, "start")
  /\ UNCHANGED <<readOnly, cache, found, seen>>

Reader(p) ==
  \/ StatDirectory(p) \/ StatActive(p) \/ CheckDirectory(p)
  \/ RestoreSegments(p) \/ CheckRotation(p) \/ StatSize(p) \/ ReadActive(p)

Writer(p) ==
  \/ Acquire(p) \/ Enter(p) \/ Unlock(p) \/ BeginWrite(p) \/ FinishWrite(p)
  \/ Commit(p) \/ Fail(p) \/ Rotate(p) \/ ForceRotate(p) \/ Return(p)
  \/ Checkpoint(p, "sealed", "rotated") \/ Checkpoint(p, "forced", "swept")

Next == \E p \in Procs : Reader(p) \/ Writer(p) \/ Crash(p) \/ Start(p)

Spec == Init /\ [][Next]_vars

-----------------------------------------------------------------------------
(* Properties. *)

Record == [seq : Nat \ {0}, id : Nat \ {0}, prev : Nat]
Stamps == [ino : Int, size : Nat, torn : BOOLEAN]
Labels == {"dead", "start", "idle", "stat", "rescan", "restore", "follow", "size", "read",
           "locked", "ready", "writing", "written", "committed", "sealed", "rotated",
           "forced", "swept"}

(* Type correctness of every variable. *)
TypeOK ==
  /\ entries \in Seq(Record) /\ cuts \in Seq(Nat) /\ torn \in BOOLEAN
  /\ ckpt \in [segments : Nat, view : Seq(Record)]
  /\ lock \in Procs \cup {Free}
  /\ begun \in Nat
  /\ cache \in [Procs -> [view : Seq(Record), segs : Nat, from : Nat, dir : Int, stamp : Stamps]]
  /\ pc \in [Procs -> Labels]
  /\ found \in [Procs -> [dir : Int, stamp : Stamps, segs : Nat,
                          then : {"idle", "follow", "size"}, size : Nat]]
  /\ acked \subseteq Record
  /\ seen \in [Procs -> Seq(Record)]
  /\ crashes \in Nat

(* The files always hold one chain: sequence numbers without gap or
   repetition, and every record naming the hash of the one before it, over
   any interleaving of writers, torn writes, repairs and rotations. *)
ChainIntact == Continues(<< >>, entries)

(* An append that returned stays in the log, whatever fails or dies after
   it; the repair of a torn tail in particular never cuts off a record. *)
AckedDurable == \A e \in acked : e.seq <= Len(entries) /\ entries[e.seq] = e

(* What a process has reduced, and what the checkpoint holds, is a prefix
   of the log: a reader without the lock may be stale or may be refused, it
   is never shown records of two different files joined together. *)
IsPrefixOfLog(view) ==
  Len(view) <= Len(entries) /\ \A i \in 1..Len(view) : view[i] = entries[i]

ViewsArePrefixes ==
  /\ IsPrefixOfLog(ckpt.view)
  /\ \A p \in Procs : IsPrefixOfLog(cache[p].view) /\ IsPrefixOfLog(seen[p])

(* Inside the lock, after refresh, the projection is the whole log: the
   guard of an append decides on the current state and not on a stale one. *)
WriterIsCurrent ==
  \A p \in Procs : pc[p] \in {"ready", "writing", "committed", "sealed", "rotated", "forced", "swept"} =>
    cache[p].view = entries

(* A process that holds the lock is never told "no execution allowed" by
   files nobody damaged, however its cached stamps were collected. *)
NoFalseRefusal ==
  \A p \in Procs : At(p, "locked") =>
    \A dir \in DirStamps(cache[p].dir) : ~RefreshRefused(cache[p], dir)

(* The journal implements the append-only log of EventLog. *)
Abstract == INSTANCE EventLog WITH log <- entries
ImplementsEventLog == Abstract!Spec
=============================================================================
