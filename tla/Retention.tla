----------------------------- MODULE Retention ------------------------------
(***************************************************************************)
(* Retention of the session journal: sealed segments are folded into a     *)
(* recovery baseline and compressed memory archives, copied to a backup    *)
(* store, and only then deleted (session/Journal.ts from `visitHistory'    *)
(* on, session/Storage.ts, session/Backup.ts createBackup).                *)
(*                                                                         *)
(* The log is the numbers 1..len, cut into segments at `cuts'; what a      *)
(* chain of hashes protects is modelled in Journal and shows here as       *)
(* positions.  Segment k may exist as a raw file (k \in raw), as an        *)
(* archive of its memory events (k \in arch), or both.  A baseline covers  *)
(* a prefix of the segments; two copies of it are on disk, written one     *)
(* after the other.  Maintenance is asynchronous: between any two of its   *)
(* awaits the same and other processes append, refresh, read history,      *)
(* make backups and run their own maintenance.                             *)
(***************************************************************************)
EXTENDS Integers, Sequences, FiniteSets

CONSTANTS
  Procs,       \* processes that open the journal
  Free,        \* nobody holds a lock
  Diagnostic,  \* events that are not memory: an archive leaves them out
  Keep,        \* SPAWN_BACKUP_KEEP
  MaxLen,      \* bound: events in the log
  MaxCuts,     \* bound: segments sealed
  MaxJobs,     \* bound: maintenance runs and backups begun
  MaxFaults    \* bound: process deaths and failed writes

ASSUME FreeAssumption == Free \notin Procs
ASSUME KeepAssumption == Keep \in Nat \ {0}

VARIABLES
  len, cuts,    \* the log and where it was sealed
  raw, arch,    \* segment and archive files that exist
  copies,       \* retention.json and retention.backup.json
  ckpt,         \* checkpoint.json: its generation, the segments it names
  lock, store,  \* holders of the journal lock and of the backup store
  snaps,        \* snapshots in the backup store, newest first
  pins,         \* per process: the segments its running backup has pinned
  base,         \* per process: this.base
  pc, job,      \* per process: the running maintenance or backup
  visit,        \* a visitHistory in some process
  overlap,      \* history: maintenance of two processes has overlapped
  jobs, faults

files == <<len, cuts, raw, arch, copies, ckpt>>
vars == <<files, lock, store, snaps, pins, base, pc, job, visit, overlap, jobs, faults>>

-----------------------------------------------------------------------------
(* The files and how they load. *)

Cut(k) == IF k = 0 THEN 0 ELSE cuts[k]
Sealed == Cut(Len(cuts))
NoBase == [gen |-> 0, segs |-> 0]

(* loadRetention: the valid copy of the highest generation. *)
Best == IF copies[1].gen >= copies[2].gen THEN copies[1] ELSE copies[2]

(* readSegments and restore succeed after baseline b: every archive it names
   is there, the raw segments go on without a gap, and a checkpoint of its
   generation names no segment that is missing. *)
Loads(b) ==
  /\ 1..b.segs \subseteq arch
  /\ (b.segs + 1)..Len(cuts) \subseteq raw
  /\ ckpt.gen = b.gen => ckpt.segs \subseteq (raw \ 1..b.segs)

(* sourceFor: the segment that holds a whole requested range; if none does it
   must be the active file, which may have more events in it by now. *)
Covering(r) == {k \in 1..Len(cuts) : Cut(k - 1) < r.from /\ r.to <= Cut(k)}

-----------------------------------------------------------------------------
NoJob == [gen |-> 0, from |-> 0, to |-> 0, next |-> "idle", write |-> NoBase,
          seq |-> 0, left |-> {}, retire |-> {}, pinned |-> {}]
NoVisit == [todo |-> << >>, upto |-> 0, heard |-> << >>, prev |-> 0, state |-> "none"]
Refused == [NoVisit EXCEPT !.state = "refused"]

Init ==
  /\ len = 0 /\ cuts = << >>
  /\ raw = {} /\ arch = {}
  /\ copies = [i \in 1..2 |-> NoBase]
  /\ ckpt = [gen |-> 0, segs |-> {}]
  /\ lock = Free /\ store = Free
  /\ snaps = << >>
  /\ pins = [p \in Procs |-> {}]
  /\ base = [p \in Procs |-> NoBase]
  /\ pc = [p \in Procs |-> "idle"]
  /\ job = [p \in Procs |-> NoJob]
  /\ visit = NoVisit
  /\ overlap = FALSE
  /\ jobs = 0 /\ faults = 0

At(p, label) == pc[p] = label
Goto(p, label) == pc' = [pc EXCEPT ![p] = label]
Finish(p) == Goto(p, "idle") /\ job' = [job EXCEPT ![p] = NoJob]

(* refresh under the lock: this.base is the best copy on disk. *)
Refresh(p) == base' = [base EXCEPT ![p] = Best]

-----------------------------------------------------------------------------
(* What the other callers of the journal do meanwhile. *)

AppendEvent ==
  /\ lock = Free /\ len < MaxLen
  /\ len' = len + 1
  /\ UNCHANGED <<cuts, raw, arch, copies, ckpt, lock, store, snaps, pins, base, pc, job,
                 visit, overlap, jobs, faults>>

(* rotate, at the size limit: the checkpoint may fail to be written. *)
Sealing ==
  /\ len > Sealed /\ Len(cuts) < MaxCuts
  /\ cuts' = Append(cuts, len)
  /\ raw' = raw \cup {Len(cuts) + 1}
  /\ \/ ckpt' = [gen |-> Best.gen, segs |-> (raw \cup {Len(cuts) + 1}) \ 1..Best.segs]
     \/ UNCHANGED ckpt
  /\ UNCHANGED <<len, arch, copies>>

Rotate ==
  /\ lock = Free /\ Sealing
  /\ UNCHANGED <<lock, store, snaps, pins, base, pc, job, visit, overlap, jobs, faults>>

(* Any accessor refreshes without the lock, also in the middle of a
   maintenance run.  It is a step where it can matter: everything but
   removeRetired refreshes before it uses this.base. *)
Read(p) ==
  /\ pc[p] \in {"enter", "copy", "retire"} /\ base[p] # Best
  /\ Refresh(p)
  /\ UNCHANGED <<files, lock, store, snaps, pins, pc, job, visit, overlap, jobs, faults>>

-----------------------------------------------------------------------------
(* performMaintenance. *)

(* Capture, perhaps after sealing the active file to meet a quota; the
   policy selects a prefix of the raw segments.  (On an empty log there is
   nothing to select, to back up or to delete.) *)
Capture(p) ==
  /\ At(p, "idle") /\ lock = Free /\ jobs < MaxJobs /\ len > 0
  /\ jobs' = jobs + 1
  /\ overlap' = (overlap \/ \E q \in Procs \ {p} : pc[q] \notin {"idle", "dead"})
  /\ Refresh(p)
  /\ Sealing \/ UNCHANGED files
  /\ \E k \in Best.segs..Len(cuts') :
       /\ job' = [job EXCEPT ![p] = [NoJob EXCEPT !.gen = Best.gen, !.from = Best.segs,
                                                  !.to = k, !.next = "retire"]]
       /\ Goto(p, IF k = Best.segs THEN "repair" ELSE "prepare")
  /\ UNCHANGED <<lock, store, snaps, pins, visit, faults>>

(* One selected segment is read, verified and written as an archive.  The
   file may be gone: the run fails. *)
Prepare(p) ==
  LET k == job[p].from + 1
  IN  /\ At(p, "prepare") /\ job[p].from < job[p].to
      /\ \/ /\ k \in raw
            /\ arch' = arch \cup {k}
            /\ job' = [job EXCEPT ![p].from = k]
            /\ UNCHANGED pc
         \/ k \notin raw /\ Finish(p) /\ UNCHANGED arch
      /\ UNCHANGED <<len, cuts, raw, copies, ckpt, lock, store, snaps, pins, base, visit,
                     overlap, jobs, faults>>

NewBase(j) == [gen |-> j.gen + 1, segs |-> j.to]

(* publishBase writes one copy, then the other, under the lock. *)
WriteFirst(p, b, then) ==
  /\ lock' = p
  /\ copies' = [copies EXCEPT ![1] = b]
  /\ job' = [job EXCEPT ![p].write = b]
  /\ Goto(p, then)
  /\ UNCHANGED <<len, cuts, raw, arch, ckpt>>

(* Somebody else published meanwhile: this run is given up. *)
Publish(p) ==
  /\ At(p, "prepare") /\ job[p].from = job[p].to /\ lock = Free
  /\ Refresh(p)
  /\ IF Best.gen # job[p].gen
     THEN Finish(p) /\ UNCHANGED <<files, lock>>
     ELSE WriteFirst(p, NewBase(job[p]), "second")
  /\ UNCHANGED <<store, snaps, pins, visit, overlap, jobs, faults>>

(* The second copy, the check of both, and the refresh that follows. *)
WriteSecond(p, from, next) ==
  /\ At(p, from) /\ Goto(p, next)
  /\ copies' = [copies EXCEPT ![2] = job[p].write]
  /\ base' = [base EXCEPT ![p] = job[p].write]
  /\ lock' = Free
  /\ UNCHANGED <<len, cuts, raw, arch, ckpt, store, snaps, pins, job, visit, overlap, jobs, faults>>

(* Both copies are made the best one, before anything is deleted. *)
Repair(p) ==
  /\ At(p, "repair") /\ lock = Free
  /\ Refresh(p)
  /\ IF Best = NoBase
     THEN Goto(p, "backup") /\ UNCHANGED <<files, lock, job>>
     ELSE WriteFirst(p, Best, "repaired")
  /\ UNCHANGED <<store, snaps, pins, visit, overlap, jobs, faults>>

(* --- backup: also called on its own ---------------------------------- *)

BackupOnly(p) ==
  /\ At(p, "idle") /\ jobs < MaxJobs /\ len > 0
  /\ jobs' = jobs + 1
  /\ Goto(p, "backup")
  /\ UNCHANGED <<files, lock, store, snaps, pins, base, job, visit, overlap, faults>>

(* The sources and their pin, under the lock; the committed part of the
   active file is copied at once, archives are immutable. *)
CaptureBackup(p) ==
  /\ At(p, "backup") /\ lock = Free
  /\ Refresh(p)
  /\ LET segs == (Best.segs + 1)..Len(cuts)
     IN  /\ pins' = [pins EXCEPT ![p] = segs]
         /\ job' = [job EXCEPT ![p].left = segs, ![p].seq = len]
  /\ Goto(p, "enter")
  /\ UNCHANGED <<files, lock, store, snaps, visit, overlap, jobs, faults>>

(* A backup that fails keeps the logs: maintenance deletes nothing. *)
GiveUpBackup(p) ==
  /\ Goto(p, IF job[p].next = "retire" THEN "delete" ELSE "idle")
  /\ job' = [job EXCEPT ![p] = NoJob]
  /\ pins' = [pins EXCEPT ![p] = {}]

EnterStore(p) ==
  /\ At(p, "enter")
  /\ \/ store = Free /\ store' = p /\ Goto(p, "copy") /\ UNCHANGED <<pins, job>>
     \/ store # Free /\ GiveUpBackup(p) /\ UNCHANGED store
  /\ UNCHANGED <<files, lock, snaps, base, visit, overlap, jobs, faults>>

CopyFile(p) ==
  /\ At(p, "copy")
  /\ \E k \in job[p].left :
       \/ k \in raw /\ job' = [job EXCEPT ![p].left = @ \ {k}] /\ UNCHANGED <<pc, pins, store>>
       \/ k \notin raw /\ GiveUpBackup(p) /\ store' = Free
  /\ UNCHANGED <<files, lock, snaps, base, visit, overlap, jobs, faults>>

(* Snapshots are ordered by sequence number, then by age; those past the
   first Keep are removed. *)
Inserted(s) ==
  LET n == Cardinality({i \in 1..Len(snaps) : snaps[i] > s})
  IN  [i \in 1..(IF Len(snaps) < Keep THEN Len(snaps) + 1 ELSE Keep) |->
         IF i <= n THEN snaps[i] ELSE IF i = n + 1 THEN s ELSE snaps[i - 1]]

Snapshot(p) ==
  /\ At(p, "copy") /\ job[p].left = {}
  /\ snaps' = IF job[p].seq \in {snaps[i] : i \in 1..Len(snaps)} THEN snaps
              ELSE Inserted(job[p].seq)
  /\ pins' = [pins EXCEPT ![p] = {}]
  /\ store' = Free
  /\ Goto(p, job[p].next)
  /\ UNCHANGED <<files, lock, base, job, visit, overlap, jobs, faults>>

(* --- removeRetired ---------------------------------------------------- *)

(* Wrong variants: pins are not read; all that is listed is deleted. *)
ReadPinsSkipped(p) ==
  /\ At(p, "pins") /\ Goto(p, "delete")
  /\ UNCHANGED <<files, job, lock, store, snaps, pins, base, visit, overlap, jobs, faults>>

ListRetiredAll(p) ==
  /\ At(p, "retire") /\ Goto(p, "pins")
  /\ job' = [job EXCEPT ![p].retire = raw]
  /\ UNCHANGED <<files, lock, store, snaps, pins, base, visit, overlap, jobs, faults>>

(* `through' is this.base at this moment, whoever published it. *)
ListRetired(p) ==
  /\ At(p, "retire") /\ Goto(p, "pins")
  /\ job' = [job EXCEPT ![p].retire = raw \cap 1..base[p].segs]
  /\ UNCHANGED <<files, lock, store, snaps, pins, base, visit, overlap, jobs, faults>>

(* A pin whose process is dead does not count. *)
ReadPins(p) ==
  /\ At(p, "pins") /\ Goto(p, "delete")
  /\ job' = [job EXCEPT ![p].pinned = UNION {pins[q] : q \in Procs}]
  /\ UNCHANGED <<files, lock, store, snaps, pins, base, visit, overlap, jobs, faults>>

(* One file after the other; a pinned one stays, and so does one whose
   unlink fails. *)
Delete(p) ==
  /\ At(p, "delete")
  /\ \E k \in job[p].retire :
       /\ job' = [job EXCEPT ![p].retire = @ \ {k}]
       /\ \/ k \notin job[p].pinned /\ raw' = raw \ {k}
          \/ UNCHANGED raw
  /\ UNCHANGED <<len, cuts, arch, copies, ckpt, lock, store, snaps, pins, base, pc, visit,
                 overlap, jobs, faults>>

(* The rest of the run; over quota it removes the checkpoint. *)
Trim(p) ==
  /\ At(p, "delete") /\ job[p].retire = {}
  /\ Finish(p) /\ Refresh(p)
  /\ ckpt' \in {ckpt, [gen |-> 0, segs |-> {}]}
  /\ UNCHANGED <<len, cuts, raw, arch, copies, lock, store, snaps, pins, visit, overlap, jobs, faults>>

-----------------------------------------------------------------------------
(* visitHistory: the whole memory, in order, while all that goes on. *)

Requests ==
  [k \in 1..(IF len > Sealed THEN Len(cuts) + 1 ELSE Len(cuts)) |->
     [from |-> Cut(k - 1) + 1, to |-> IF k \in 1..Len(cuts) THEN cuts[k] ELSE len]]

StartVisit ==
  /\ visit.state = "none" /\ lock = Free /\ len > 0
  /\ visit' = [todo |-> Requests, upto |-> len, heard |-> << >>, prev |-> 0, state |-> "open"]
  /\ UNCHANGED <<files, lock, store, snaps, pins, base, pc, job, overlap, jobs, faults>>

IsMemory(e) == e \notin Diagnostic

(* One request: the file that has the range now is opened under the lock and
   its events are heard in their order.  From an archive come the memory
   events, without a chain to check; where the archive ends elsewhere than
   the request the chain is lost. *)
VisitSource ==
  /\ visit.state = "open" /\ visit.todo # << >> /\ lock = Free
  /\ LET r == Head(visit.todo)
         ks == Covering(r)
         held == IF ks = {} THEN Sealed < r.from /\ r.to <= len ELSE ks \subseteq raw
         hear(events, prev) == [visit EXCEPT !.todo = Tail(visit.todo),
                                             !.heard = Append(visit.heard, events), !.prev = prev]
     IN  visit' =
           IF \E k \in ks : k <= Best.segs
           THEN hear({e \in r.from..r.to : IsMemory(e)},
                     IF \E k \in ks : Cut(k) = r.to THEN r.to ELSE -1)
           ELSE IF held /\ visit.prev = r.from - 1 THEN hear(r.from..r.to, r.to)
           ELSE Refused
  /\ UNCHANGED <<files, lock, store, snaps, pins, base, pc, job, overlap, jobs, faults>>

EndVisit ==
  /\ visit.state = "open" /\ visit.todo = << >>
  /\ visit' = IF visit.prev = visit.upto THEN [visit EXCEPT !.state = "done"] ELSE Refused
  /\ UNCHANGED <<files, lock, store, snaps, pins, base, pc, job, overlap, jobs, faults>>

-----------------------------------------------------------------------------
(* A write or a read fails: maintenance rejects, or goes on without its
   backup; a lock it holds is let go. *)
Fail(p) ==
  /\ faults < MaxFaults
  /\ faults' = faults + 1
  /\ \/ pc[p] \in {"prepare", "second", "repaired"} /\ Finish(p) /\ UNCHANGED pins
     \/ pc[p] \in {"enter", "copy"} /\ GiveUpBackup(p)
  /\ lock' = IF lock = p THEN Free ELSE lock
  /\ store' = IF store = p THEN Free ELSE store
  /\ UNCHANGED <<files, snaps, base, visit, overlap, jobs>>

(* Locks and pins of a dead process are recognised by its pid. *)
Crash(p) ==
  /\ ~At(p, "dead") /\ faults < MaxFaults
  /\ faults' = faults + 1
  /\ Goto(p, "dead") /\ job' = [job EXCEPT ![p] = NoJob]
  /\ pins' = [pins EXCEPT ![p] = {}]
  /\ lock' = IF lock = p THEN Free ELSE lock
  /\ store' = IF store = p THEN Free ELSE store
  /\ base' = [base EXCEPT ![p] = NoBase]
  /\ UNCHANGED <<files, snaps, visit, overlap, jobs>>

Start(p) ==
  /\ At(p, "dead") /\ Goto(p, "idle") /\ Refresh(p)
  /\ UNCHANGED <<files, lock, store, snaps, pins, job, visit, overlap, jobs, faults>>

Maintenance(p) ==
  \/ Capture(p) \/ Prepare(p) \/ Publish(p) \/ WriteSecond(p, "second", "repair")
  \/ Repair(p) \/ WriteSecond(p, "repaired", "backup")
  \/ ListRetired(p) \/ ReadPins(p) \/ Delete(p) \/ Trim(p)

Backup(p) ==
  \/ BackupOnly(p) \/ CaptureBackup(p) \/ EnterStore(p) \/ CopyFile(p) \/ Snapshot(p)

Next ==
  \/ AppendEvent \/ Rotate
  \/ StartVisit \/ VisitSource \/ EndVisit
  \/ \E p \in Procs : Read(p) \/ Maintenance(p) \/ Backup(p) \/ Fail(p) \/ Crash(p) \/ Start(p)

Spec == Init /\ [][Next]_vars

-----------------------------------------------------------------------------
(* Properties. *)

Bases == [gen : Nat, segs : Nat]
Segments == 1..Len(cuts)
Labels == {"idle", "prepare", "second", "repair", "repaired", "backup", "enter", "copy",
           "retire", "pins", "delete", "dead"}

(* Type correctness; in particular no file or pin names a segment that was
   never sealed, and the locks are held by processes that are working. *)
TypeOK ==
  /\ len \in Nat /\ cuts \in Seq(1..len)
  /\ raw \subseteq Segments /\ arch \subseteq Segments
  /\ copies \in [1..2 -> Bases]
  /\ ckpt.gen \in Nat /\ ckpt.segs \subseteq Segments
  /\ lock \in Procs \cup {Free} /\ (lock # Free => pc[lock] \in {"second", "repaired"})
  /\ store \in Procs \cup {Free} /\ (store # Free => pc[store] = "copy")
  /\ snaps \in Seq(1..len) /\ Len(snaps) <= Keep
  /\ pins \in [Procs -> SUBSET Segments]
  /\ base \in [Procs -> Bases]
  /\ pc \in [Procs -> Labels]
  /\ \A p \in Procs : job[p].left \subseteq Segments /\ job[p].retire \subseteq Segments
  /\ visit.state \in {"none", "open", "done", "refused"}

(* README: when one baseline copy is damaged the other one is used.  So
   either copy alone must load with what is left of the segments. *)
EitherCopyRecovers ==
  \A i \in 1..2 : 1..copies[i].segs \subseteq arch /\ (copies[i].segs + 1)..Len(cuts) \subseteq raw

(* A raw segment is deleted only when a snapshot in the backup store reaches
   beyond it. *)
DeletedAreBackedUp == \A k \in Segments \ raw : \E i \in 1..Len(snaps) : snaps[i] >= Cut(k)

(* The files on disk always load as a session: the best baseline, its
   archives and the raw segments after it, whatever publication, deletion or
   death was interrupted and however the maintenance of several processes
   overlaps.  As long as no two processes maintain at the same time, either copy
   of the baseline is enough and what is deleted is backed up.  (With the types of
   the variables.) *)
Recoverable ==
  /\ TypeOK /\ Loads(Best)
  /\ ~overlap => EitherCopyRecovers /\ DeletedAreBackedUp

(* A segment that a running backup captured is not deleted under it. *)
CapturedFilesStay ==
  \A p \in Procs : pc[p] \in {"enter", "copy"} => job[p].left \subseteq raw

(* A history visit that succeeds has heard every memory event up to its
   boundary, in order, once, and nothing beyond it, although segments were
   archived and deleted and the active file sealed while it ran. *)
VisitComplete ==
  visit.state = "done" =>
    /\ \A i, j \in 1..Len(visit.heard) :
         i < j => \A e \in visit.heard[i], f \in visit.heard[j] : e < f
    /\ {e \in 1..visit.upto : IsMemory(e)} \subseteq UNION {visit.heard[i] : i \in 1..Len(visit.heard)}
    /\ \A i \in 1..Len(visit.heard) : visit.heard[i] \subseteq 1..visit.upto

(* Who reads the files while others delete them: the backup and the visit. *)
ReadersAreServed == CapturedFilesStay /\ VisitComplete

=============================================================================
