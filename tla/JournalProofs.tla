---------------------------- MODULE JournalProofs ---------------------------
(***************************************************************************)
(* Proofs about Journal, for any number of processes, appends and crashes. *)
(* The inductive invariant says what a cached stamp vouches for: a process *)
(* whose directory stamp is current knows every segment, and one whose     *)
(* file stamp is also current has reduced every record.                    *)
(***************************************************************************)
EXTENDS Journal, TLAPS

(* The files: cuts in order, the checkpoint covers a prefix of segments. *)
FilesInv ==
  /\ \A i \in 1..Len(cuts) : cuts[i] <= Len(entries)
  /\ \A i, j \in 1..Len(cuts) : i <= j => cuts[i] <= cuts[j]
  /\ ckpt.segments <= Len(cuts)
  /\ Len(ckpt.view) = Cut(ckpt.segments)
  /\ IsPrefixOfLog(ckpt.view)

(* A stamp describes a file that is there or was. *)
StampInv(s) ==
  s # Absent => /\ s.ino <= Len(cuts)
                /\ s.ino = Len(cuts) => s.size <= Len(entries) - Sealed

(* One cache against the files. *)
CacheInv(c) ==
  /\ IsPrefixOfLog(c.view)
  /\ c.segs <= Len(cuts)
  /\ c.from = Cut(c.segs) /\ c.from <= Len(c.view)
  /\ c.dir <= c.segs
  /\ StampInv(c.stamp)
  /\ c.stamp # Absent => c.dir <= c.stamp.ino
  /\ (c.stamp # Absent /\ c.stamp.ino = Len(cuts) /\ c.segs = Len(cuts))
        => c.stamp.size <= Offset(c)

(* What an unlocked refresh at a label has found so far. *)
FoundInv(label, f, c) ==
  /\ label \in {"stat", "rescan", "restore"} => f.dir <= Len(cuts)
  /\ label \in {"rescan", "restore", "follow", "size", "read"} =>
       StampInv(f.stamp) /\ (f.stamp # Absent => f.dir <= f.stamp.ino)
  /\ label = "restore" => /\ f.dir <= f.segs /\ f.segs <= Len(cuts)
                          /\ f.then \in {"follow", "size"}
  /\ label \in {"follow", "size", "read"} => c.dir = f.dir
  /\ label = "read" =>
       /\ f.stamp # Absent
       /\ (f.stamp.ino = Len(cuts) /\ c.segs = Len(cuts)) => f.stamp.size <= f.size

Critical == {"ready", "writing", "written", "committed", "sealed", "rotated", "forced", "swept"}

(* The holder of the lock against the files. *)
LockInv(p) ==
  LET c == cache[p]
  IN  /\ pc[p] \in Critical \cup {"locked"} => lock = p
      /\ pc[p] \in Critical \ {"written"} => c.view = entries
      /\ pc[p] \in {"ready", "writing", "written", "committed", "rotated", "swept"} =>
           c.segs = Len(cuts)
      /\ pc[p] \in {"writing", "written"} => begun # 0
      /\ pc[p] = "written" => entries = Append(c.view, NewRecord(c))
      /\ pc[p] \in {"committed", "sealed", "rotated"} => entries # << >>
      /\ pc[p] \in {"sealed", "forced"} => Sealed = Len(entries)

ProcInv(p) ==
  /\ CacheInv(cache[p])
  /\ FoundInv(pc[p], found[p], cache[p])
  /\ LockInv(p)
  /\ IsPrefixOfLog(seen[p])

IInv ==
  /\ TypeOK
  /\ ChainIntact
  /\ FilesInv
  /\ AckedDurable
  /\ \A p \in Procs : ProcInv(p)

CacheType == [view : Seq(Record), segs : Nat, from : Nat, dir : Int, stamp : Stamps]
FoundType == [dir : Int, stamp : Stamps, segs : Nat,
              then : {"idle", "follow", "size"}, size : Nat]

-----------------------------------------------------------------------------
(* Sequences: a piece of one, two glued together. *)
LEMMA PieceFacts ==
  ASSUME NEW S, NEW s \in Seq(S), NEW a \in Nat, NEW b \in Nat, b <= Len(s)
  PROVE  LET t == SubSeq(s, a + 1, b)
         IN  /\ t \in Seq(S)
             /\ Len(t) = IF a + 1 <= b THEN b - a ELSE 0
             /\ \A i \in 1..Len(t) : t[i] = s[a + i]
OBVIOUS

LEMMA GlueFacts ==
  ASSUME NEW S, NEW s \in Seq(S), NEW t \in Seq(S)
  PROVE  /\ s \o t \in Seq(S)
         /\ Len(s \o t) = Len(s) + Len(t)
         /\ Len(s) \in Nat /\ Len(t) \in Nat
         /\ \A i \in 1..Len(s) : (s \o t)[i] = s[i]
         /\ \A i \in 1..Len(t) : (s \o t)[Len(s) + i] = t[i]
OBVIOUS

-----------------------------------------------------------------------------
(* Positions of cuts and facts about restoring from the checkpoint. *)

(* A cut lies inside the log, and cuts are ordered. *)
LEMMA CutBounds ==
  ASSUME TypeOK, FilesInv, NEW k \in 0..Len(cuts)
  PROVE  /\ Cut(k) \in Nat
         /\ Cut(k) <= Len(entries)
         /\ \A j \in 0..Len(cuts) : j <= k => Cut(j) <= Cut(k)
BY DEF TypeOK, FilesInv, Cut

LEMMA SealedBounds ==
  ASSUME TypeOK, FilesInv
  PROVE  /\ Sealed \in Nat
         /\ Sealed <= Len(entries)
         /\ \A j \in 0..Len(cuts) : Cut(j) <= Sealed
<1>1. Len(cuts) \in 0..Len(cuts)
  BY DEF TypeOK
<1>2. QED
  BY <1>1, CutBounds DEF Sealed

(* Restoring k segments yields the prefix of the log they hold. *)
LEMMA RestoreView ==
  ASSUME TypeOK, FilesInv, NEW k \in 0..Len(cuts), ckpt.segments <= k
  PROVE  LET v == ckpt.view \o SubSeq(entries, Len(ckpt.view) + 1, Cut(k))
         IN  v \in Seq(Record) /\ Len(v) = Cut(k) /\ IsPrefixOfLog(v)
<1> DEFINE a == ckpt.view
           m == Len(ckpt.view) + 1
           b == SubSeq(entries, m, Cut(k))
<1>1. /\ a \in Seq(Record) /\ entries \in Seq(Record) /\ Len(a) \in Nat
      /\ ckpt.segments \in 0..Len(cuts)
  BY DEF TypeOK, FilesInv
<1>2. Len(a) <= Cut(k) /\ Cut(k) \in Nat /\ Cut(k) <= Len(entries)
  BY <1>1, CutBounds DEF FilesInv
<1>3. \A i \in 1..Len(a) : a[i] = entries[i]
  BY DEF FilesInv, IsPrefixOfLog
<1>4. /\ b \in Seq(Record) /\ Len(b) = Cut(k) - Len(a)
      /\ \A i \in 1..Len(b) : b[i] = entries[Len(a) + i]
  BY <1>1, <1>2
<1> HIDE DEF a, b
<1>5. a \o b \in Seq(Record) /\ Len(a \o b) = Cut(k)
  BY <1>1, <1>2, <1>4
<1>6. \A i \in 1..Len(a \o b) : (a \o b)[i] = entries[i]
  <2> TAKE i \in 1..Len(a \o b)
  <2>1. CASE i <= Len(a)
    BY <2>1, <1>1, <1>3, <1>4
  <2>2. CASE i > Len(a)
    BY <2>2, <1>1, <1>2, <1>4, <1>5
  <2>3. QED
    BY <2>1, <2>2, <1>1
<1>7. QED
  BY <1>2, <1>5, <1>6 DEF IsPrefixOfLog, a, b

(* A cache just restored knows its segments and no active file. *)
LEMMA RestoreInv ==
  ASSUME TypeOK, FilesInv, NEW k \in 0..Len(cuts), ckpt.segments <= k,
         NEW d \in Int, d <= k
  PROVE  LET r == Restored(k, d)
         IN  /\ r \in CacheType /\ CacheInv(r)
             /\ r.segs = k /\ r.from = Cut(k) /\ Len(r.view) = Cut(k)
             /\ r.dir = d /\ r.stamp = Absent
<1> DEFINE v == ckpt.view \o SubSeq(entries, Len(ckpt.view) + 1, Cut(k))
           r == Restored(k, d)
<1>1. v \in Seq(Record) /\ Len(v) = Cut(k) /\ IsPrefixOfLog(v)
  BY RestoreView
<1>2. Cut(k) \in Nat /\ k \in Nat /\ k <= Len(cuts)
  BY CutBounds DEF TypeOK
<1>3. Absent \in Stamps
  BY DEF Absent, Stamps
<1>4. r = [view |-> v, segs |-> k, from |-> Cut(k), dir |-> d, stamp |-> Absent]
  BY DEF Restored
<1> HIDE DEF v, r
<1>5. /\ r \in CacheType /\ r.view = v /\ r.segs = k /\ r.from = Cut(k)
      /\ r.dir = d /\ r.stamp = Absent
  BY <1>1, <1>2, <1>3, <1>4 DEF CacheType
<1>6. CacheInv(r)
  BY <1>1, <1>2, <1>5 DEF CacheInv, StampInv
<1>7. QED
  BY <1>1, <1>5, <1>6 DEF r

(* The size the file system reports, and the stamp it gives. *)
LEMMA StampFacts ==
  ASSUME TypeOK, FilesInv
  PROVE  /\ ActiveStamp \in Stamps /\ Absent \in Stamps /\ Absent.size = 0
         /\ StampInv(ActiveStamp)
         /\ ActiveStamp.size = Len(entries) - Sealed
         /\ ActiveStamp # Absent => ActiveStamp.ino = Len(cuts)
         /\ ActiveStamp = Absent => Sealed = Len(entries)
         /\ ActiveStamp = Absent <=> (Sealed = Len(entries) /\ ~torn)
<1>1. Sealed \in Nat /\ Sealed <= Len(entries) /\ Len(entries) \in Nat /\ Len(cuts) \in Nat
  BY SMTT(20), SealedBounds DEF TypeOK
<1>2. torn \in BOOLEAN
  BY DEF TypeOK
<1>3. Absent = [ino |-> -1, size |-> 0, torn |-> FALSE]
  BY DEF Absent
<1>4. CASE Len(entries) = Sealed /\ ~torn
  BY <1>1, <1>3, <1>4 DEF ActiveStamp, Stamps, StampInv
<1>5. CASE ~(Len(entries) = Sealed /\ ~torn)
  <2>1. ActiveStamp = [ino |-> Len(cuts), size |-> Len(entries) - Sealed, torn |-> torn]
    BY <1>5 DEF ActiveStamp
  <2>2. QED
    BY <1>1, <1>2, <1>3, <1>5, <2>1 DEF Stamps, StampInv
<1>6. QED
  BY <1>4, <1>5

(* Reading the appended bytes of the file the cache believes in extends the
   prefix; of any other file, it reads nothing or is refused. *)
LEMMA GrowInv ==
  ASSUME TypeOK, ChainIntact, FilesInv, NEW c \in CacheType, CacheInv(c),
         NEW n \in Nat, NEW s \in Stamps, s # Absent, StampInv(s), c.dir <= s.ino,
         (s.ino = Len(cuts) /\ c.segs = Len(cuts)) => s.size <= n,
         ~ReadRefused(c, n)
  PROVE  LET g == Grow(c, s, n)
         IN  g \in CacheType /\ CacheInv(g) /\ g.dir = c.dir /\ g.segs = c.segs
<1> DEFINE o == Offset(c)
           top == IF Sealed + n < Len(entries) THEN Sealed + n ELSE Len(entries)
           m == Appended(c, n)
           g == Grow(c, s, n)
<1>1. /\ Sealed \in Nat /\ Sealed <= Len(entries) /\ entries \in Seq(Record)
      /\ Len(entries) \in Nat /\ Len(cuts) \in Nat
      /\ \A j \in 0..Len(cuts) : Cut(j) <= Sealed
  BY SMTT(20), SealedBounds DEF TypeOK
<1>2. /\ c.view \in Seq(Record) /\ Len(c.view) \in Nat /\ c.from \in Nat /\ c.segs \in Nat
      /\ c.dir \in Int /\ c.stamp \in Stamps
      /\ c = [view |-> c.view, segs |-> c.segs, from |-> c.from, dir |-> c.dir, stamp |-> c.stamp]
  BY DEF CacheType
<1>3. /\ o \in Nat /\ o = Len(c.view) - c.from /\ Len(c.view) <= Len(entries)
      /\ \A i \in 1..Len(c.view) : c.view[i] = entries[i]
      /\ c.segs \in 0..Len(cuts) /\ c.from = Cut(c.segs) /\ c.from <= Sealed
  BY <1>1, <1>2 DEF CacheInv, Offset, IsPrefixOfLog
<1>4. top \in Nat /\ top <= Len(entries) /\ top <= Sealed + n
  BY <1>1
<1>5. /\ m = SubSeq(entries, Sealed + o + 1, top)
      /\ Continues(c.view, m)
  BY DEF Appended, ReadRefused
<1> HIDE DEF m, top, o
<1>6. /\ m \in Seq(Record)
      /\ Len(m) = IF Sealed + o + 1 <= top THEN top - (Sealed + o) ELSE 0
      /\ \A i \in 1..Len(m) : m[i] = entries[Sealed + o + i]
  <2>1. Sealed + o \in Nat
    BY <1>1, <1>3
  <2>2. QED
    BY SMTT(20), <2>1, <1>1, <1>4, <1>5, PieceFacts
<1>7. Len(m) # 0 => Sealed = c.from
  <2> SUFFICES ASSUME Len(m) # 0 PROVE Sealed = c.from
    OBVIOUS
  <2>1. 1 \in 1..Len(m)
    BY <1>6, <1>1, <1>3, <1>4
  <2>2. m[1].seq = Len(c.view) + 1
    BY <1>5, <2>1 DEF Continues
  <2>3. m[1] = entries[Sealed + o + 1] /\ Sealed + o + 1 \in 1..Len(entries)
    BY SMTT(20), <1>6, <2>1, <1>1, <1>3, <1>4
  <2>4. entries[Sealed + o + 1].seq = Sealed + o + 1
    BY <2>3, <1>1, <1>3 DEF ChainIntact, Continues
  <2>5. QED
    BY <2>2, <2>3, <2>4, <1>1, <1>2, <1>3
<1>8. /\ c.view \o m \in Seq(Record) /\ Len(c.view \o m) = Len(c.view) + Len(m)
      /\ Len(m) \in Nat
  BY <1>2, <1>6, GlueFacts
<1>9. /\ Len(c.view \o m) <= Len(entries)
      /\ \A i \in 1..Len(c.view \o m) : (c.view \o m)[i] = entries[i]
  <2>1. CASE Len(m) = 0
    BY <2>1, <1>2, <1>3, <1>6, <1>8
  <2>2. CASE Len(m) # 0
    <3>1. Sealed + o = Len(c.view)
      BY <2>2, <1>7, <1>1, <1>2, <1>3
    <3>2. Len(c.view \o m) <= Len(entries)
      BY <3>1, <1>1, <1>4, <1>6, <1>8, <2>2
    <3>3. ASSUME NEW i \in 1..Len(c.view \o m) PROVE (c.view \o m)[i] = entries[i]
      <4>1. CASE i <= Len(c.view)
        BY <4>1, <1>2, <1>3, <1>6
      <4>2. CASE i > Len(c.view)
        <5>1. i - Len(c.view) \in 1..Len(m) /\ Len(c.view) + (i - Len(c.view)) = i
          BY <4>2, <1>2, <1>8
        <5>2. (c.view \o m)[i] = m[i - Len(c.view)]
          BY <5>1, <1>2, <1>6, GlueFacts
        <5>3. m[i - Len(c.view)] = entries[Sealed + o + (i - Len(c.view))]
          BY <5>1, <1>6
        <5>4. Sealed + o + (i - Len(c.view)) = i
          BY <3>1, <5>1, <1>1, <1>2, <1>3
        <5>5. QED
          BY <5>2, <5>3, <5>4
      <4>3. QED
        BY <4>1, <4>2, <1>2
    <3>4. QED
      BY <3>2, <3>3
  <2>3. QED
    BY <2>1, <2>2
<1>10. g = [view |-> c.view \o m, segs |-> c.segs, from |-> c.from, dir |-> c.dir, stamp |-> s]
  BY DEF Grow, m
<1> HIDE DEF g
<1>11. /\ g \in CacheType /\ g.view = c.view \o m /\ g.segs = c.segs /\ g.from = c.from
       /\ g.dir = c.dir /\ g.stamp = s
  BY <1>2, <1>8, <1>10 DEF CacheType
<1>12. (s.ino = Len(cuts) /\ c.segs = Len(cuts)) => s.size <= Len(c.view \o m) - c.from
  <2> SUFFICES ASSUME s.ino = Len(cuts), c.segs = Len(cuts)
               PROVE  s.size <= Len(c.view \o m) - c.from
    OBVIOUS
  <2>1. Sealed = c.from /\ s.size \in Nat
    BY <1>3 DEF Sealed, Stamps
  <2>2. s.size <= Len(entries) - Sealed /\ s.size <= n
    BY DEF StampInv
  <2>3. Sealed + s.size <= top
    BY <2>1, <2>2, <1>1 DEF top
  <2>4. Sealed + o = Len(c.view)
    BY <2>1, <1>1, <1>2, <1>3
  <2>5. Len(c.view \o m) >= top
    BY <2>4, <1>1, <1>2, <1>4, <1>6, <1>8
  <2>6. QED
    BY <2>1, <2>3, <2>5, <1>1, <1>2, <1>4, <1>8
<1>13. CacheInv(g)
  BY <1>1, <1>2, <1>3, <1>8, <1>9, <1>11, <1>12 DEF CacheInv, IsPrefixOfLog, Offset, StampInv
<1>14. QED
  BY <1>11, <1>13 DEF g

(* A prefix as long as the log is the log. *)
LEMMA WholeLog ==
  ASSUME entries \in Seq(Record), NEW v \in Seq(Record), IsPrefixOfLog(v), Len(v) = Len(entries)
  PROVE  v = entries
BY DEF IsPrefixOfLog

(* The chain, record by record. *)
LEMMA ChainFacts ==
  ASSUME ChainIntact
  PROVE  \A j \in 1..Len(entries) :
           /\ entries[j].seq = j
           /\ entries[j].prev = IF j = 1 THEN 0 ELSE entries[j - 1].id
<1>1. Len(<< >>) = 0 /\ LastId(<< >>) = 0
  BY DEF LastId
<1>2. QED
  BY <1>1 DEF ChainIntact, Continues

(* With every segment known, reading the active file to its end is never
   refused and completes the projection. *)
LEMMA TailInv ==
  ASSUME TypeOK, ChainIntact, FilesInv, NEW c \in CacheType, CacheInv(c),
         c.segs = Len(cuts), ActiveStamp # Absent
  PROVE  /\ ~ReadRefused(c, ActiveStamp.size)
         /\ LET g == Grow(c, ActiveStamp, ActiveStamp.size)
            IN  /\ g \in CacheType /\ CacheInv(g) /\ g.view = entries
                /\ g.segs = Len(cuts) /\ g.dir = c.dir
<1> DEFINE n == ActiveStamp.size
           m == Appended(c, n)
           g == Grow(c, ActiveStamp, n)
<1>1. /\ Sealed \in Nat /\ Sealed <= Len(entries) /\ entries \in Seq(Record)
      /\ Len(entries) \in Nat /\ Len(cuts) \in Nat
  BY SealedBounds DEF TypeOK
<1>2. /\ c.view \in Seq(Record) /\ Len(c.view) \in Nat /\ c.from \in Nat
      /\ c.segs \in Nat /\ c.dir \in Int
  BY DEF CacheType
<1>3. /\ c.from = Sealed /\ c.from <= Len(c.view) /\ Len(c.view) <= Len(entries)
      /\ \A i \in 1..Len(c.view) : c.view[i] = entries[i]
      /\ Offset(c) = Len(c.view) - Sealed /\ c.dir <= Len(cuts)
  BY DEF CacheInv, Sealed, Offset, IsPrefixOfLog
<1>4. /\ n = Len(entries) - Sealed /\ n \in Nat
      /\ ActiveStamp.ino = Len(cuts) /\ ActiveStamp \in Stamps /\ StampInv(ActiveStamp)
  BY StampFacts, <1>1
<1>5. m = SubSeq(entries, Len(c.view) + 1, Len(entries))
  <2>1. ~(Sealed + n < Len(entries)) /\ Sealed + Offset(c) = Len(c.view)
    BY <1>1, <1>2, <1>3, <1>4
  <2>2. QED
    BY <2>1 DEF Appended
<1> HIDE DEF m
<1>6. /\ m \in Seq(Record) /\ Len(m) = Len(entries) - Len(c.view)
      /\ \A i \in 1..Len(m) : m[i] = entries[Len(c.view) + i]
  <2> DEFINE a == Len(c.view)
             b == Len(entries)
  <2>1. a \in Nat /\ b \in Nat /\ a <= b /\ b <= Len(entries)
    BY <1>1, <1>2, <1>3
  <2> HIDE DEF a
  <2>2. LET t == SubSeq(entries, a + 1, b)
        IN  /\ t \in Seq(Record)
            /\ Len(t) = IF a + 1 <= b THEN b - a ELSE 0
            /\ \A i \in 1..Len(t) : t[i] = entries[a + i]
    BY <1>1, <2>1, PieceFacts
  <2> HIDE DEF b
  <2>3. m = SubSeq(entries, a + 1, b)
    BY <1>5 DEF a, b
  <2>4. /\ m \in Seq(Record) /\ Len(m) = b - a
        /\ \A i \in 1..Len(m) : m[i] = entries[a + i]
    BY <2>1, <2>2, <2>3
  <2>5. QED
    BY <2>4 DEF a, b
<1>7. Continues(c.view, m)
  <2> SUFFICES ASSUME NEW i \in 1..Len(m)
               PROVE  /\ m[i].seq = Len(c.view) + i
                      /\ m[i].prev = IF i = 1 THEN LastId(c.view) ELSE m[i - 1].id
    BY DEF Continues
  <2> DEFINE j == Len(c.view) + i
  <2>1. /\ j \in 1..Len(entries) /\ i \in Nat /\ i >= 1
        /\ m[i] = entries[j]
    BY <1>1, <1>2, <1>6
  <2>2. /\ entries[j].seq = j
        /\ entries[j].prev = IF j = 1 THEN 0 ELSE entries[j - 1].id
    BY <2>1, ChainFacts
  <2>3. CASE i = 1 /\ Len(c.view) = 0
    <3>1. LastId(c.view) = 0
      BY <2>3, <1>2 DEF LastId
    <3>2. QED
      BY <2>1, <2>2, <2>3, <3>1
  <2>4. CASE i = 1 /\ Len(c.view) # 0
    <3>1. c.view # << >> /\ Len(c.view) \in 1..Len(c.view)
      BY <2>4, <1>2
    <3>2. LastId(c.view) = entries[Len(c.view)].id
      BY <3>1, <1>3 DEF LastId
    <3>3. j # 1 /\ j - 1 = Len(c.view)
      BY <2>4, <1>2
    <3>4. QED
      BY <2>1, <2>2, <2>4, <3>2, <3>3
  <2>5. CASE i # 1
    <3>1. i - 1 \in 1..Len(m) /\ Len(c.view) + (i - 1) = j - 1 /\ j # 1
      BY <2>1, <2>5, <1>2, <1>6
    <3>2. m[i - 1] = entries[j - 1]
      BY <3>1, <1>6
    <3>3. QED
      BY <2>1, <2>2, <2>5, <3>1, <3>2
  <2>6. QED
    BY <2>3, <2>4, <2>5
<1>8. ~ReadRefused(c, n)
  BY <1>7 DEF ReadRefused, m
<1>9. /\ g \in CacheType /\ CacheInv(g) /\ g.dir = c.dir /\ g.segs = c.segs
  BY <1>3, <1>4, <1>8, GrowInv DEF CacheInv
<1>10. g.view = c.view \o m
  BY DEF Grow, m
<1> HIDE DEF g, n
<1>11. Len(g.view) = Len(entries)
  BY <1>1, <1>2, <1>6, <1>10, GlueFacts
<1>12. g.view = entries
  BY <1>1, <1>9, <1>11, WholeLog DEF CacheInv, CacheType
<1>13. QED
  BY <1>8, <1>9, <1>12 DEF g, n

(* refresh under the lock is never refused, and ends with the whole log. *)
LEMMA RefreshInv ==
  ASSUME TypeOK, ChainIntact, FilesInv, NEW c \in CacheType, CacheInv(c)
  PROVE  /\ ~RefreshRefused(c, Len(cuts))
         /\ LET r == Refreshed(c, Len(cuts))
            IN  /\ r \in CacheType /\ CacheInv(r) /\ r.view = entries
                /\ r.segs = Len(cuts)
<1> DEFINE k == Len(cuts)
           r == AfterRescan(c, k)
           d == AfterFollow(r, k)
<1>1. /\ Sealed \in Nat /\ Sealed <= Len(entries) /\ entries \in Seq(Record)
      /\ Len(entries) \in Nat /\ k \in Nat /\ k \in 0..Len(cuts) /\ k \in Int
      /\ ckpt.segments <= k /\ Cut(k) = Sealed /\ ~CheckpointAhead(k)
  BY SMTT(20), SealedBounds DEF TypeOK, FilesInv, Sealed, CheckpointAhead
<1>2. /\ r \in CacheType /\ CacheInv(r) /\ r.segs = k /\ r.dir = k
  <2>1. CASE c.dir = k
    <3>1. r = c
      BY <2>1 DEF AfterRescan
    <3>2. c.segs = k
      BY <2>1, <1>1 DEF CacheInv, CacheType
    <3>3. QED
      BY <3>1, <3>2, <2>1
  <2>2. CASE c.dir # k
    <3>1. r = Restored(k, k)
      BY <2>2 DEF AfterRescan
    <3>2. QED
      BY <3>1, <1>1, RestoreInv
  <2>3. QED
    BY <2>1, <2>2
<1> HIDE DEF r
<1>3. /\ r.view \in Seq(Record) /\ Len(r.view) \in Nat /\ r.stamp \in Stamps
      /\ r.from = Sealed /\ r.from <= Len(r.view) /\ Len(r.view) <= Len(entries)
      /\ Offset(r) = Len(r.view) - Sealed /\ IsPrefixOfLog(r.view)
  BY <1>1, <1>2 DEF CacheType, CacheInv, Offset, IsPrefixOfLog
<1>4. /\ ActiveStamp \in Stamps /\ Absent \in Stamps /\ Absent.size = 0
      /\ ActiveStamp.size = Len(entries) - Sealed
      /\ ActiveStamp # Absent => ActiveStamp.ino = k
      /\ ActiveStamp = Absent <=> (Sealed = Len(entries) /\ ~torn)
  BY StampFacts
<1>5. ~WasRotated(r, ActiveStamp)
  <2>1. Offset(r) # 0 => ActiveStamp # Absent
    BY <1>1, <1>3, <1>4
  <2>2. r.stamp # Absent => r.stamp.ino = k
    BY <1>1, <1>2, <1>3 DEF CacheInv, StampInv, Stamps
  <2>3. ~(ActiveStamp.size < Offset(r))
    BY <1>1, <1>3, <1>4
  <2>4. QED
    BY <2>1, <2>2, <2>3, <1>4 DEF WasRotated
<1>6. d = r
  BY <1>5 DEF AfterFollow
<1>7. CASE UpToDate(r, ActiveStamp)
  <2>1. Refreshed(c, k) = r
    BY <1>6, <1>7 DEF Refreshed, r
  <2>2. ~RefreshRefused(c, k)
    BY <1>1, <1>5, <1>6, <1>7 DEF RefreshRefused, r
  <2>3. Len(r.view) = Len(entries)
    <3>1. CASE ActiveStamp = Absent
      BY <3>1, <1>1, <1>3, <1>4
    <3>2. CASE ActiveStamp # Absent
      <4>1. r.stamp = ActiveStamp
        BY <3>2, <1>7 DEF UpToDate
      <4>2. ActiveStamp.size <= Offset(r)
        BY <3>2, <4>1, <1>2, <1>4 DEF CacheInv
      <4>3. QED
        BY <4>2, <1>1, <1>3, <1>4
    <3>3. QED
      BY <3>1, <3>2
  <2>4. r.view = entries
    BY <2>3, <1>1, <1>3, WholeLog
  <2>5. QED
    BY <2>1, <2>2, <2>4, <1>2
<1>8. CASE ~UpToDate(r, ActiveStamp)
  <2> DEFINE v == AfterVerify(r)
  <2>1. ActiveStamp # Absent
    BY <1>1, <1>3, <1>4, <1>8 DEF UpToDate
  <2>2. ~SizeRefused(r, ActiveStamp)
    BY <2>1, <1>1, <1>3, <1>4 DEF SizeRefused
  <2>3. v \in CacheType /\ CacheInv(v) /\ v.segs = k
    <3>1. CASE SameSize(r)
      <4>1. v = Restored(r.segs, r.dir)
        BY <3>1 DEF AfterVerify
      <4>2. QED
        BY <4>1, <1>1, <1>2, RestoreInv
    <3>2. CASE ~SameSize(r)
      BY <3>2, <1>2 DEF AfterVerify
    <3>3. QED
      BY <3>1, <3>2
  <2> HIDE DEF v
  <2>4. /\ ~ReadRefused(v, ActiveStamp.size)
        /\ LET g == Grow(v, ActiveStamp, ActiveStamp.size)
           IN  g \in CacheType /\ CacheInv(g) /\ g.view = entries /\ g.segs = Len(cuts)
    BY <2>1, <2>3, TailInv
  <2>5. Refreshed(c, k) = Grow(v, ActiveStamp, ActiveStamp.size)
    BY <1>6, <1>8 DEF Refreshed, r, v
  <2>6. ~RefreshRefused(c, k)
    <3>1. ~CheckpointAhead(r.segs)
      BY <1>1, <1>2
    <3>2. QED
      BY <3>1, <2>2, <2>4, <1>1, <1>5, <1>6 DEF RefreshRefused, r, v
  <2>7. QED
    BY <2>4, <2>5, <2>6
<1>9. QED
  BY <1>7, <1>8

-----------------------------------------------------------------------------
(* The files only grow; a cache that is left alone stays valid. *)
Grown ==
  /\ entries' \in Seq(Record) /\ Len(entries) <= Len(entries')
  /\ \A i \in 1..Len(entries) : entries'[i] = entries[i]
  /\ cuts' \in Seq(Nat) /\ Len(cuts) <= Len(cuts')
  /\ \A i \in 1..Len(cuts) : cuts'[i] = cuts[i]

(* What a step of p leaves alone: the other processes. *)
OnlyMoves(p) ==
  \A q \in Procs \ {p} :
    pc'[q] = pc[q] /\ cache'[q] = cache[q] /\ found'[q] = found[q] /\ seen'[q] = seen[q]

(* Growing files move no cut, and keep a stamp a stamp and a cache valid. *)
LEMMA CutKept ==
  ASSUME TypeOK, Grown
  PROVE  /\ Len(cuts) \in Nat /\ Len(cuts') \in Nat /\ Len(cuts) <= Len(cuts')
         /\ Len(entries) \in Nat /\ Len(entries') \in Nat
         /\ \A k \in 0..Len(cuts) : (IF k = 0 THEN 0 ELSE cuts'[k]) = Cut(k)
         /\ Len(cuts') = Len(cuts) => Sealed' = Sealed
<1>1. /\ Len(cuts) \in Nat /\ Len(cuts') \in Nat /\ Len(cuts) <= Len(cuts')
      /\ Len(entries) \in Nat /\ Len(entries') \in Nat
  BY DEF TypeOK, Grown
<1>2. \A k \in 0..Len(cuts) : (IF k = 0 THEN 0 ELSE cuts'[k]) = Cut(k)
  BY <1>1 DEF Grown, Cut
<1>3. Sealed' = (IF Len(cuts') = 0 THEN 0 ELSE cuts'[Len(cuts')])
  BY DEF Sealed, Cut
<1>4. Len(cuts) \in 0..Len(cuts)
  BY <1>1
<1>5. QED
  BY <1>1, <1>2, <1>3, <1>4 DEF Sealed

LEMMA StampKept ==
  ASSUME TypeOK, Grown, NEW s \in Stamps, StampInv(s)
  PROVE  s # Absent => /\ s.ino <= Len(cuts')
                       /\ s.ino = Len(cuts') => s.size <= Len(entries') - Sealed'
<1>1. s.ino \in Int /\ s.size \in Nat
  BY DEF Stamps
<1>2. CASE Len(cuts') = Len(cuts)
  <2>1. Sealed' = Sealed /\ Sealed \in Nat /\ Len(entries) <= Len(entries')
    BY SMTT(20), <1>2, CutKept DEF Grown, TypeOK, Sealed, Cut
  <2>2. QED
    BY <1>1, <1>2, <2>1, CutKept DEF StampInv
<1>3. CASE Len(cuts') # Len(cuts)
  BY <1>1, <1>3, CutKept DEF StampInv
<1>4. QED
  BY <1>2, <1>3

LEMMA CacheKept ==
  ASSUME IInv, Grown, NEW q \in Procs, cache'[q] = cache[q]
  PROVE  CacheInv(cache[q])'
<1> SUFFICES ASSUME NEW c \in CacheType, cache[q] = c, cache'[q] = c, CacheInv(c)
             PROVE  CacheInv(cache[q])'
  BY DEF IInv, ProcInv, TypeOK, CacheType
<1>1. /\ c.view \in Seq(Record) /\ c.segs \in Nat /\ c.from \in Nat /\ c.dir \in Int
      /\ c.stamp \in Stamps /\ c.stamp.ino \in Int /\ c.stamp.size \in Nat
      /\ Len(c.view) \in Nat /\ TypeOK
  BY DEF CacheType, Stamps, IInv
<1>2. /\ Len(c.view) <= Len(entries')
      /\ \A i \in 1..Len(c.view) : c.view[i] = entries'[i]
  BY <1>1, CutKept DEF CacheInv, IsPrefixOfLog, Grown
<1>3. /\ c.segs <= Len(cuts')
      /\ c.from = (IF c.segs = 0 THEN 0 ELSE cuts'[c.segs])
      /\ c.from <= Len(c.view) /\ c.dir <= c.segs
  <2>1. c.segs \in 0..Len(cuts) /\ c.from = Cut(c.segs)
    BY <1>1, CutKept DEF CacheInv
  <2>2. QED
    BY <2>1, <1>1, CutKept DEF CacheInv
<1>4. c.stamp # Absent => /\ c.stamp.ino <= Len(cuts')
                          /\ c.stamp.ino = Len(cuts') => c.stamp.size <= Len(entries') - Sealed'
  BY <1>1, StampKept DEF CacheInv
<1>5. /\ c.stamp # Absent => c.dir <= c.stamp.ino
      /\ (c.stamp # Absent /\ c.stamp.ino = Len(cuts') /\ c.segs = Len(cuts'))
           => c.stamp.size <= Offset(c)
  BY <1>1, CutKept DEF CacheInv
<1>6. Absent' = Absent /\ Offset(c) = Len(c.view) - c.from
  BY DEF Absent, Offset
<1>7. QED
  BY <1>2, <1>3, <1>4, <1>5, <1>6 DEF CacheInv, StampInv, IsPrefixOfLog, Offset, Cut

LEMMA FoundKept ==
  ASSUME IInv, Grown, NEW q \in Procs,
         cache'[q] = cache[q], found'[q] = found[q], pc'[q] = pc[q]
  PROVE  FoundInv(pc[q], found[q], cache[q])'
<1> SUFFICES ASSUME NEW c \in CacheType, cache[q] = c, cache'[q] = c,
                    NEW f, f = found[q], found'[q] = f, FoundInv(pc[q], found[q], cache[q])
             PROVE  FoundInv(pc[q], found[q], cache[q])'
  BY DEF IInv, ProcInv, TypeOK, CacheType
<1>1. /\ f.stamp \in Stamps /\ f.dir \in Int /\ f.segs \in Nat /\ f.size \in Nat
      /\ c.segs \in Nat /\ TypeOK /\ f.stamp.ino \in Int
  BY DEF IInv, TypeOK, CacheType, Stamps
<1>2. StampInv(f.stamp) =>
        (f.stamp # Absent => /\ f.stamp.ino <= Len(cuts')
                             /\ f.stamp.ino = Len(cuts') => f.stamp.size <= Len(entries') - Sealed')
  BY <1>1, StampKept
<1>3. c.segs <= Len(cuts)
  BY DEF IInv, ProcInv, CacheInv
<1>4. QED
  BY <1>1, <1>2, <1>3, CutKept DEF FoundInv, StampInv, Absent

(* The types, one process and one record at a time. *)
LEMMA ProcTypes ==
  ASSUME TypeOK, NEW q \in Procs
  PROVE  /\ cache[q] \in CacheType /\ pc[q] \in Labels /\ seen[q] \in Seq(Record)
         /\ found[q] \in FoundType
         /\ Len(seen[q]) \in Nat
<1>1. seen[q] \in Seq(Record)
  BY DEF TypeOK
<1>2. Len(seen[q]) \in Nat
  BY <1>1
<1>3. QED
  BY <1>1, <1>2 DEF TypeOK, CacheType, FoundType

LEMMA AckedTypes ==
  ASSUME TypeOK, NEW e \in acked
  PROVE  e \in Record /\ e.seq \in Nat /\ e.seq # 0
<1>1. e \in Record
  BY DEF TypeOK
<1>2. QED
  BY <1>1 DEF Record

(* A prefix of the log stays one. *)
LEMMA PrefixKept ==
  ASSUME TypeOK, Grown, NEW v \in Seq(Record), IsPrefixOfLog(v)
  PROVE  Len(v) <= Len(entries') /\ \A i \in 1..Len(v) : v[i] = entries'[i]
<1>1. Len(v) \in Nat /\ Len(v) <= Len(entries) /\ \A i \in 1..Len(v) : v[i] = entries[i]
  BY DEF IsPrefixOfLog
<1>2. QED
  BY <1>1, CutKept DEF Grown

(* A step of p preserves the invariant if it moves only p, touches log and
   lock only as their holder, and preserves p's own part. *)
LEMMA StepFrame ==
  ASSUME IInv, NEW p \in Procs, Grown, OnlyMoves(p),
         lock' = lock \/ lock \in {p, Free},
         begun' = begun \/ lock = p,
         (entries' = entries /\ cuts' = cuts) \/ lock = p,
         TypeOK', ChainIntact', FilesInv', ProcInv(p)',
         acked' = acked \/ AckedDurable'
  PROVE  IInv'
<1>1. AckedDurable'
  <2>1. CASE acked' = acked
    <3> SUFFICES ASSUME NEW e \in acked PROVE e.seq <= Len(entries') /\ entries'[e.seq] = e
      BY <2>1 DEF AckedDurable
    <3>1. e.seq \in Nat /\ e.seq # 0 /\ e.seq <= Len(entries) /\ entries[e.seq] = e
      BY AckedTypes DEF IInv, AckedDurable
    <3>2. Len(entries) \in Nat /\ Len(entries') \in Nat
      BY CutKept DEF IInv
    <3>3. QED
      BY <3>1, <3>2 DEF Grown
  <2>2. QED
    BY <2>1
<1>2. ASSUME NEW q \in Procs PROVE ProcInv(q)'
  <2>1. CASE q = p
    BY <2>1
  <2>2. CASE q # p
    <3>1. pc'[q] = pc[q] /\ cache'[q] = cache[q] /\ found'[q] = found[q] /\ seen'[q] = seen[q]
      BY <2>2 DEF OnlyMoves
    <3>2. CacheInv(cache[q])' /\ FoundInv(pc[q], found[q], cache[q])'
      BY <3>1, CacheKept, FoundKept
    <3>3. LockInv(q)'
      <4>1. LockInv(q) /\ q # Free
        BY FreeAssumption DEF IInv, ProcInv
      <4>2. CASE pc[q] \in Critical \cup {"locked"}
        <5>1. lock = q /\ lock' = lock /\ entries' = entries /\ cuts' = cuts /\ begun' = begun
          BY <2>2, <4>1, <4>2 DEF LockInv
        <5>2. QED
          BY <3>1, <4>1, <5>1 DEF LockInv, Sealed, Cut, NewRecord, LastId
      <4>3. CASE pc[q] \notin Critical \cup {"locked"}
        BY <3>1, <4>3 DEF LockInv, Critical
      <4>4. QED
        BY <4>2, <4>3
    <3>4. IsPrefixOfLog(seen[q])'
      <4>1. seen[q] \in Seq(Record) /\ IsPrefixOfLog(seen[q]) /\ TypeOK
        BY ProcTypes DEF IInv, ProcInv
      <4>2. /\ Len(seen[q]) <= Len(entries')
            /\ \A i \in 1..Len(seen[q]) : seen[q][i] = entries'[i]
        BY <4>1, PrefixKept
      <4>3. QED
        BY <3>1, <4>2 DEF IsPrefixOfLog
    <3>5. QED
      BY <3>2, <3>3, <3>4 DEF ProcInv
  <2>3. QED
    BY <2>1, <2>2
<1>3. QED
  BY <1>1, <1>2 DEF IInv

-----------------------------------------------------------------------------
(* Reading: only the process itself moves, and it stays outside the lock. *)
LEMMA ReaderFrame ==
  ASSUME IInv, NEW p \in Procs, UNCHANGED readOnly,
         NEW c \in CacheType, cache' = [cache EXCEPT ![p] = c], CacheInv(c),
         NEW f \in FoundType, found' = [found EXCEPT ![p] = f],
         NEW l \in Labels \ (Critical \cup {"locked"}), pc' = [pc EXCEPT ![p] = l],
         FoundInv(l, f, c),
         NEW v \in Seq(Record), seen' = [seen EXCEPT ![p] = v], IsPrefixOfLog(v)
  PROVE  IInv'
<1>1. /\ entries' = entries /\ cuts' = cuts /\ torn' = torn /\ ckpt' = ckpt
      /\ lock' = lock /\ begun' = begun /\ acked' = acked /\ crashes' = crashes
  BY DEF readOnly, disk
<1>2. TypeOK /\ ChainIntact /\ FilesInv
  BY DEF IInv
<1>3. Grown
  BY <1>1, <1>2 DEF TypeOK, Grown
<1>4. TypeOK'
  BY <1>1, <1>2 DEF TypeOK, CacheType, FoundType
<1>5. ChainIntact'
  BY <1>1, <1>2 DEF ChainIntact, Continues, LastId
<1>6. FilesInv'
  BY <1>1, <1>2 DEF FilesInv, IsPrefixOfLog, Cut
<1>7. cache'[p] = c /\ found'[p] = f /\ pc'[p] = l /\ seen'[p] = v
  BY <1>2 DEF TypeOK
<1>8. ProcInv(p)'
  <2>1. CacheInv(cache[p])'
    BY <1>1, <1>7 DEF CacheInv, IsPrefixOfLog, StampInv, Absent, Offset, Cut, Sealed
  <2>2. FoundInv(pc[p], found[p], cache[p])'
    BY <1>1, <1>7 DEF FoundInv, StampInv, Absent, Cut, Sealed
  <2>3. LockInv(p)'
    BY <1>7 DEF LockInv, Critical
  <2>4. IsPrefixOfLog(seen[p])'
    BY <1>1, <1>7 DEF IsPrefixOfLog
  <2>5. QED
    BY <2>1, <2>2, <2>3, <2>4 DEF ProcInv
<1>9. OnlyMoves(p)
  BY <1>2 DEF OnlyMoves, TypeOK
<1>10. QED
  BY <1>1, <1>3, <1>4, <1>5, <1>6, <1>8, <1>9, StepFrame

(* What the invariant says of one process, with its types. *)
LEMMA ProcFacts ==
  ASSUME IInv, NEW p \in Procs
  PROVE  /\ TypeOK /\ ChainIntact /\ FilesInv
         /\ cache[p] \in CacheType /\ CacheInv(cache[p])
         /\ found[p] \in FoundType /\ FoundInv(pc[p], found[p], cache[p])
         /\ pc[p] \in Labels /\ LockInv(p)
         /\ seen[p] \in Seq(Record) /\ IsPrefixOfLog(seen[p])
BY ProcTypes DEF IInv, ProcInv

LEMMA NothingFoundType == NothingFound \in FoundType /\ Absent \in Stamps
BY DEF NothingFound, FoundType, Absent, Stamps

(* A call that ends, with or without a projection to show. *)
LEMMA LeaveFrame ==
  ASSUME IInv, NEW p \in Procs, UNCHANGED readOnly, Leave(p),
         NEW c \in CacheType, cache' = [cache EXCEPT ![p] = c], CacheInv(c),
         seen' = seen \/ seen' = [seen EXCEPT ![p] = c.view]
  PROVE  IInv'
<1>1. /\ pc' = [pc EXCEPT ![p] = "idle"] /\ found' = [found EXCEPT ![p] = NothingFound]
      /\ "idle" \in Labels \ (Critical \cup {"locked"}) /\ FoundInv("idle", NothingFound, c)
  BY DEF Leave, Goto, Labels, Critical, FoundInv
<1>2. c.view \in Seq(Record) /\ IsPrefixOfLog(c.view)
  BY DEF CacheType, CacheInv
<1>3. PICK v \in Seq(Record) : IsPrefixOfLog(v) /\ seen' = [seen EXCEPT ![p] = v]
  <2>1. seen \in [Procs -> Seq(Record)] /\ seen[p] \in Seq(Record) /\ IsPrefixOfLog(seen[p])
    BY ProcFacts DEF TypeOK
  <2>2. seen = [seen EXCEPT ![p] = seen[p]]
    BY <2>1
  <2>3. QED
    BY <2>1, <2>2, <1>2
<1>4. QED
  BY <1>1, <1>3, NothingFoundType, ReaderFrame

(* A call that goes on, with what it has found so far. *)
LEMMA GoOnFrame ==
  ASSUME IInv, NEW p \in Procs, UNCHANGED readOnly, UNCHANGED seen,
         NEW l \in Labels \ (Critical \cup {"locked"}), Goto(p, l),
         NEW c \in CacheType, cache' = [cache EXCEPT ![p] = c], CacheInv(c),
         NEW f \in FoundType, found' = [found EXCEPT ![p] = f], FoundInv(l, f, c)
  PROVE  IInv'
<1>1. seen \in [Procs -> Seq(Record)] /\ seen[p] \in Seq(Record) /\ IsPrefixOfLog(seen[p])
  BY ProcFacts DEF TypeOK
<1>2. seen' = [seen EXCEPT ![p] = seen[p]]
  BY <1>1
<1>3. pc' = [pc EXCEPT ![p] = l]
  BY DEF Goto
<1>4. QED
  BY <1>1, <1>2, <1>3, ReaderFrame

LEMMA StatDirectoryStep ==
  ASSUME LateDirStamps = FALSE, IInv, NEW p \in Procs, StatDirectory(p)
  PROVE  IInv'
<1> DEFINE f == [found[p] EXCEPT !.dir = Len(cuts)]
<1>1. found' = [found EXCEPT ![p] = f]
  BY ProcFacts DEF StatDirectory, DirStamps, FoundType
<1>2. Len(cuts) \in Nat /\ found[p] \in FoundType
  BY ProcFacts DEF TypeOK
<1>3. f \in FoundType /\ f.dir = Len(cuts)
  BY <1>2 DEF FoundType
<1> HIDE DEF f
<1>4. FoundInv("stat", f, cache[p])
  BY <1>2, <1>3 DEF FoundInv
<1>5. cache' = [cache EXCEPT ![p] = cache[p]]
  BY ProcFacts DEF StatDirectory, TypeOK
<1>6. "stat" \in Labels \ (Critical \cup {"locked"})
  BY DEF Labels, Critical
<1>7. UNCHANGED readOnly /\ UNCHANGED seen /\ Goto(p, "stat")
  BY DEF StatDirectory
<1>8. QED
  BY <1>1, <1>3, <1>4, <1>5, <1>6, <1>7, ProcFacts, GoOnFrame

LEMMA StatActiveStep ==
  ASSUME IInv, NEW p \in Procs, StatActive(p)
  PROVE  IInv'
<1> DEFINE f == [found[p] EXCEPT !.stamp = ActiveStamp]
<1>1. found' = [found EXCEPT ![p] = f]
  BY ProcFacts DEF StatActive, FoundType
<1>2. /\ found[p] \in FoundType /\ found[p].dir <= Len(cuts)
      /\ ActiveStamp \in Stamps /\ StampInv(ActiveStamp)
      /\ ActiveStamp # Absent => ActiveStamp.ino = Len(cuts)
  BY ProcFacts, StampFacts DEF StatActive, At, FoundInv
<1>3. f \in FoundType /\ f.dir = found[p].dir /\ f.stamp = ActiveStamp
  BY <1>2 DEF FoundType
<1> HIDE DEF f
<1>4. FoundInv("rescan", f, cache[p])
  BY <1>2, <1>3 DEF FoundInv
<1>5. cache' = [cache EXCEPT ![p] = cache[p]]
  BY ProcFacts DEF StatActive, TypeOK
<1>6. "rescan" \in Labels \ (Critical \cup {"locked"})
  BY DEF Labels, Critical
<1>7. UNCHANGED readOnly /\ UNCHANGED seen /\ Goto(p, "rescan")
  BY DEF StatActive
<1>8. QED
  BY <1>1, <1>3, <1>4, <1>5, <1>6, <1>7, ProcFacts, GoOnFrame

(* Going on to restore: what was stamped is not newer than the listing. *)
LEMMA ListStep ==
  ASSUME IInv, NEW p \in Procs, UNCHANGED readOnly, UNCHANGED <<cache, seen>>,
         NEW next \in {"follow", "size"}, ListSegments(p, next),
         found[p].dir <= Len(cuts), StampInv(found[p].stamp),
         found[p].stamp # Absent => found[p].dir <= found[p].stamp.ino
  PROVE  IInv'
<1> DEFINE f == [found[p] EXCEPT !.segs = Len(cuts), !.then = next]
<1>1. found' = [found EXCEPT ![p] = f]
  BY ProcFacts DEF ListSegments, FoundType
<1>2. found[p] \in FoundType /\ Len(cuts) \in Nat
  BY ProcFacts DEF TypeOK
<1>3. /\ f \in FoundType /\ f.dir = found[p].dir /\ f.stamp = found[p].stamp
      /\ f.segs = Len(cuts) /\ f.then = next
  BY <1>2 DEF FoundType
<1> HIDE DEF f
<1>4. FoundInv("restore", f, cache[p])
  BY <1>2, <1>3 DEF FoundInv
<1>5. cache' = [cache EXCEPT ![p] = cache[p]]
  BY ProcFacts DEF TypeOK
<1>6. "restore" \in Labels \ (Critical \cup {"locked"})
  BY DEF Labels, Critical
<1>7. Goto(p, "restore")
  BY DEF ListSegments
<1>8. QED
  BY <1>1, <1>3, <1>4, <1>5, <1>6, <1>7, ProcFacts, GoOnFrame

LEMMA CheckDirectoryStep ==
  ASSUME IInv, NEW p \in Procs, CheckDirectory(p)
  PROVE  IInv'
<1>1. /\ found[p].dir <= Len(cuts) /\ StampInv(found[p].stamp)
      /\ found[p].stamp # Absent => found[p].dir <= found[p].stamp.ino
      /\ UNCHANGED readOnly /\ UNCHANGED <<cache, seen>>
  BY ProcFacts DEF CheckDirectory, At, FoundInv
<1>2. CASE found[p].dir = cache[p].dir
  <2>1. Goto(p, "follow") /\ UNCHANGED found
    BY <1>2 DEF CheckDirectory
  <2>2. FoundInv("follow", found[p], cache[p])
    BY <1>1, <1>2 DEF FoundInv
  <2>3. cache' = [cache EXCEPT ![p] = cache[p]] /\ found' = [found EXCEPT ![p] = found[p]]
    BY <1>1, <2>1, ProcFacts DEF TypeOK
  <2>4. "follow" \in Labels \ (Critical \cup {"locked"})
    BY DEF Labels, Critical
  <2>5. QED
    BY <1>1, <2>1, <2>2, <2>3, <2>4, ProcFacts, GoOnFrame
<1>3. CASE found[p].dir # cache[p].dir
  <2>1. ListSegments(p, "follow")
    BY <1>3 DEF CheckDirectory
  <2>2. QED
    BY <1>1, <2>1, ListStep
<1>4. QED
  BY <1>2, <1>3

LEMMA RestoreSegmentsStep ==
  ASSUME IInv, NEW p \in Procs, RestoreSegments(p)
  PROVE  IInv'
<1> DEFINE f == found[p]
           c == Restored(f.segs, f.dir)
<1>1. /\ f \in FoundType /\ f.dir <= f.segs /\ f.segs <= Len(cuts)
      /\ f.then \in {"follow", "size"} /\ StampInv(f.stamp)
      /\ f.stamp # Absent => f.dir <= f.stamp.ino
      /\ UNCHANGED readOnly
  BY ProcFacts DEF RestoreSegments, At, FoundInv
<1>2. CASE CheckpointAhead(f.segs)
  <2>1. Leave(p) /\ UNCHANGED <<cache, seen>>
    BY <1>2 DEF RestoreSegments, Throw
  <2>2. cache' = [cache EXCEPT ![p] = cache[p]]
    BY <2>1, ProcFacts DEF TypeOK
  <2>3. QED
    BY <1>1, <2>1, <2>2, ProcFacts, LeaveFrame
<1>3. CASE ~CheckpointAhead(f.segs)
  <2>1. /\ Goto(p, f.then) /\ UNCHANGED <<found, seen>>
        /\ cache' = [cache EXCEPT ![p] = c]
    BY <1>3 DEF RestoreSegments
  <2>2. ckpt.segments <= f.segs /\ f.segs \in 0..Len(cuts) /\ f.dir \in Int
    BY <1>1, <1>3, ProcFacts DEF CheckpointAhead, FoundType, TypeOK
  <2>3. c \in CacheType /\ CacheInv(c) /\ c.dir = f.dir
    BY <1>1, <2>2, ProcFacts, RestoreInv
  <2> HIDE DEF c
  <2>4. FoundInv(f.then, f, c)
    BY <1>1, <2>3 DEF FoundInv
  <2>5. found' = [found EXCEPT ![p] = f]
    BY <2>1, ProcFacts DEF TypeOK
  <2>6. f.then \in Labels \ (Critical \cup {"locked"})
    BY <1>1 DEF Labels, Critical
  <2> HIDE DEF f
  <2>7. UNCHANGED seen
    BY <2>1
  <2>8. QED
    BY <1>1, <2>1, <2>3, <2>4, <2>5, <2>6, <2>7, GoOnFrame
<1>4. QED
  BY <1>2, <1>3

LEMMA CheckRotationStep ==
  ASSUME IInv, NEW p \in Procs, CheckRotation(p)
  PROVE  IInv'
<1>1. /\ cache[p].dir = found[p].dir /\ StampInv(found[p].stamp)
      /\ found[p].stamp # Absent => found[p].dir <= found[p].stamp.ino
      /\ UNCHANGED readOnly /\ UNCHANGED cache
  BY ProcFacts DEF CheckRotation, At, FoundInv
<1>2. /\ cache[p].dir <= Len(cuts)
      /\ cache' = [cache EXCEPT ![p] = cache[p]]
  <2>1. cache[p].dir <= cache[p].segs /\ cache[p].segs <= Len(cuts)
        /\ cache[p].dir \in Int /\ cache[p].segs \in Nat /\ Len(cuts) \in Nat
    BY ProcFacts DEF CacheInv, CacheType, TypeOK
  <2>2. QED
    BY <1>1, <2>1, ProcFacts DEF TypeOK
<1>3. CASE Goto(p, "size") /\ UNCHANGED <<found, seen>>
  <2>1. FoundInv("size", found[p], cache[p])
    BY <1>1 DEF FoundInv
  <2>2. found' = [found EXCEPT ![p] = found[p]] /\ UNCHANGED seen
    BY <1>3, ProcFacts DEF TypeOK
  <2>3. "size" \in Labels \ (Critical \cup {"locked"})
    BY DEF Labels, Critical
  <2>4. QED
    BY <1>1, <1>2, <1>3, <2>1, <2>2, <2>3, ProcFacts, GoOnFrame
<1>4. CASE Throw(p)
  <2>1. Leave(p) /\ seen' = seen
    BY <1>4 DEF Throw
  <2>2. QED
    BY <1>1, <1>2, <2>1, ProcFacts, LeaveFrame
<1>5. CASE ListSegments(p, "size") /\ UNCHANGED seen
  <2>1. found[p].dir <= Len(cuts) /\ UNCHANGED <<cache, seen>>
    BY <1>1, <1>2, <1>5
  <2>2. QED
    BY <1>1, <1>5, <2>1, ListStep
<1>6. QED
  BY <1>3, <1>4, <1>5 DEF CheckRotation

LEMMA StatSizeStep ==
  ASSUME IInv, NEW p \in Procs, StatSize(p)
  PROVE  IInv'
<1> DEFINE c == cache[p]
           s == found[p].stamp
           v == AfterVerify(c)
           f == [found[p] EXCEPT !.size = ActiveStamp.size]
<1>1. /\ c.dir = found[p].dir /\ StampInv(s)
      /\ s # Absent => found[p].dir <= s.ino
      /\ UNCHANGED readOnly /\ c \in CacheType /\ CacheInv(c) /\ found[p] \in FoundType
      /\ TypeOK /\ FilesInv
  BY ProcFacts DEF StatSize, At, FoundInv
<1>2. CASE (Show(p, c.view) \/ Throw(p)) /\ UNCHANGED cache
  <2>1. Leave(p) /\ (seen' = seen \/ seen' = [seen EXCEPT ![p] = c.view])
    BY <1>2 DEF Show, Throw
  <2>2. cache' = [cache EXCEPT ![p] = c]
    BY <1>1, <1>2 DEF TypeOK
  <2>3. QED
    BY <1>1, <2>1, <2>2, LeaveFrame
<1>3. CASE /\ ~UpToDate(c, s) /\ ~SizeRefused(c, s)
           /\ ~(SameSize(c) /\ CheckpointAhead(c.segs))
           /\ Goto(p, "read") /\ cache' = [cache EXCEPT ![p] = v]
           /\ found' = [found EXCEPT ![p].size = ActiveStamp.size] /\ UNCHANGED seen
  <2>1. v \in CacheType /\ CacheInv(v) /\ v.dir = c.dir /\ v.segs = c.segs
    <3>1. CASE SameSize(c)
      <4>1. /\ ckpt.segments <= c.segs /\ c.segs \in 0..Len(cuts)
            /\ c.dir \in Int /\ c.dir <= c.segs
        BY <1>1, <1>3, <3>1 DEF CheckpointAhead, CacheInv, CacheType, TypeOK
      <4>2. v = Restored(c.segs, c.dir)
        BY <3>1 DEF AfterVerify
      <4>3. QED
        BY <1>1, <4>1, <4>2, RestoreInv
    <3>2. CASE ~SameSize(c)
      BY <1>1, <3>2 DEF AfterVerify
    <3>3. QED
      BY <3>1, <3>2
  <2>2. s # Absent
    BY <1>3 DEF UpToDate, SizeRefused
  <2>3. /\ ActiveStamp.size = Len(entries) - Sealed
        /\ ActiveStamp.size \in Nat
    BY <1>1, StampFacts DEF Stamps
  <2>4. f \in FoundType /\ f.dir = found[p].dir /\ f.stamp = s /\ f.size = ActiveStamp.size
    BY <1>1, <2>3 DEF FoundType
  <2>5. found' = [found EXCEPT ![p] = f]
    BY <1>1, <1>3 DEF FoundType
  <2> HIDE DEF v, f
  <2>6. FoundInv("read", f, v)
    <3>1. s.ino = Len(cuts) => s.size <= ActiveStamp.size
      BY <1>1, <2>2, <2>3 DEF StampInv
    <3>2. /\ f.stamp # Absent /\ StampInv(f.stamp) /\ f.dir <= f.stamp.ino /\ v.dir = f.dir
          /\ f.stamp.ino = Len(cuts) => f.stamp.size <= f.size
      BY <1>1, <2>1, <2>2, <2>4, <3>1
    <3> HIDE DEF c, s
    <3>3. QED
      BY <3>2 DEF FoundInv
  <2>7. "read" \in Labels \ (Critical \cup {"locked"})
    BY DEF Labels, Critical
  <2>8. UNCHANGED seen
    BY <1>3
  <2>9. QED
    BY <1>1, <1>3, <2>1, <2>4, <2>5, <2>6, <2>7, <2>8, GoOnFrame
<1>4. QED
  BY <1>2, <1>3 DEF StatSize

LEMMA ReadActiveStep ==
  ASSUME IInv, NEW p \in Procs, ReadActive(p)
  PROVE  IInv'
<1> DEFINE c == cache[p]
           f == found[p]
           g == Grow(c, f.stamp, f.size)
<1>1. /\ c.dir = f.dir /\ StampInv(f.stamp) /\ f.dir <= f.stamp.ino /\ f.stamp # Absent
      /\ (f.stamp.ino = Len(cuts) /\ c.segs = Len(cuts)) => f.stamp.size <= f.size
      /\ UNCHANGED readOnly /\ c \in CacheType /\ CacheInv(c)
      /\ f.stamp \in Stamps /\ f.size \in Nat
      /\ TypeOK /\ ChainIntact /\ FilesInv
  BY ProcFacts DEF ReadActive, At, FoundInv, FoundType
<1>2. CASE ReadRefused(c, f.size) /\ Throw(p) /\ UNCHANGED cache
  <2>1. Leave(p) /\ seen' = seen
    BY <1>2 DEF Throw
  <2>2. cache' = [cache EXCEPT ![p] = c]
    BY <1>1, <1>2 DEF TypeOK
  <2>3. QED
    BY <1>1, <2>1, <2>2, LeaveFrame
<1>3. CASE ~ReadRefused(c, f.size) /\ Show(p, g.view) /\ cache' = [cache EXCEPT ![p] = g]
  <2>1. g \in CacheType /\ CacheInv(g)
    BY <1>1, <1>3, GrowInv
  <2> HIDE DEF g
  <2>2. Leave(p) /\ seen' = [seen EXCEPT ![p] = g.view]
    BY <1>3 DEF Show
  <2>3. QED
    BY <1>1, <1>3, <2>1, <2>2, LeaveFrame
<1>4. QED
  BY <1>2, <1>3 DEF ReadActive

-----------------------------------------------------------------------------
(* Writing: the holder of the lock, or the process that takes it. *)
LEMMA WriterFrame ==
  ASSUME IInv, NEW p \in Procs, Grown,
         lock' = lock \/ lock \in {p, Free}, lock' \in Procs \cup {Free},
         begun' = begun \/ lock = p, begun' \in Nat,
         (entries' = entries /\ cuts' = cuts) \/ lock = p,
         torn' \in BOOLEAN, ckpt' \in [segments : Nat, view : Seq(Record)],
         ChainIntact', FilesInv',
         NEW c \in CacheType, cache' = [cache EXCEPT ![p] = c], CacheInv(cache[p])',
         NEW l \in Critical \cup {"locked", "idle", "dead", "start"},
         pc' = [pc EXCEPT ![p] = l], LockInv(p)',
         found' = found \/ found' = [found EXCEPT ![p] = NothingFound],
         NEW v \in Seq(Record), seen' = [seen EXCEPT ![p] = v], IsPrefixOfLog(seen[p])',
         acked' \subseteq Record, acked' = acked \/ AckedDurable', crashes' \in Nat
  PROVE  IInv'
<1>1. TypeOK
  BY DEF IInv
<1>2. l \in Labels
  BY DEF Labels, Critical
<1>3. found' \in [Procs -> FoundType]
  BY <1>1, NothingFoundType DEF TypeOK, FoundType
<1>4. cache' \in [Procs -> CacheType] /\ pc' \in [Procs -> Labels] /\ seen' \in [Procs -> Seq(Record)]
  BY <1>1, <1>2 DEF TypeOK, CacheType
<1>5. TypeOK'
  BY <1>3, <1>4 DEF TypeOK, Grown, CacheType, FoundType
<1>6. OnlyMoves(p)
  BY <1>1 DEF OnlyMoves, TypeOK
<1>7. FoundInv(pc[p], found[p], cache[p])'
  <2>1. pc'[p] = l
    BY <1>1 DEF TypeOK
  <2>2. QED
    BY <2>1 DEF FoundInv, Critical
<1>8. ProcInv(p)'
  BY <1>7 DEF ProcInv
<1>9. QED
  BY <1>5, <1>6, <1>8, StepFrame

(* Files that a step leaves alone. *)
LEMMA FilesUnmoved ==
  ASSUME TypeOK, ChainIntact, FilesInv, UNCHANGED <<entries, cuts, ckpt>>
  PROVE  Grown /\ ChainIntact' /\ FilesInv'
BY DEF TypeOK, Grown, ChainIntact, Continues, LastId, FilesInv, IsPrefixOfLog, Cut

(* A step under the lock that moves only the label of its process, and
   perhaps who holds the lock. *)
LEMMA LabelFrame ==
  ASSUME IInv, NEW p \in Procs, UNCHANGED <<entries, cuts, ckpt, cache, found, acked, seen, crashes>>,
         torn' \in BOOLEAN, lock' = lock \/ lock \in {p, Free}, lock' \in Procs \cup {Free},
         begun' = begun \/ lock = p, begun' \in Nat,
         NEW l \in Critical \cup {"locked", "idle", "dead", "start"}, Goto(p, l), LockInv(p)'
  PROVE  IInv'
<1>1. /\ Grown /\ ChainIntact' /\ FilesInv'
      /\ entries' = entries /\ cuts' = cuts /\ cache' = cache /\ found' = found
      /\ acked' = acked /\ seen' = seen
  BY ProcFacts, FilesUnmoved
<1>2. /\ cache' = [cache EXCEPT ![p] = cache[p]] /\ seen' = [seen EXCEPT ![p] = seen[p]]
      /\ cache[p] \in CacheType /\ seen[p] \in Seq(Record)
  BY <1>1, ProcFacts DEF TypeOK
<1>3. CacheInv(cache[p])'
  BY <1>1, CacheKept
<1>4. IsPrefixOfLog(seen[p])'
  BY <1>1, ProcFacts DEF IsPrefixOfLog
<1>5. /\ ckpt' \in [segments : Nat, view : Seq(Record)] /\ acked' \subseteq Record /\ crashes' \in Nat
  BY ProcFacts DEF TypeOK
<1>6. pc' = [pc EXCEPT ![p] = l]
  BY DEF Goto
<1>7. QED
  BY <1>1, <1>2, <1>3, <1>4, <1>5, <1>6, WriterFrame

LEMMA AcquireStep ==
  ASSUME IInv, NEW p \in Procs, Acquire(p)
  PROVE  IInv'
<1>1. /\ UNCHANGED <<entries, cuts, torn, ckpt, begun, cache, found, acked, seen, crashes>>
      /\ lock = Free /\ lock' = p /\ Goto(p, "locked") /\ TypeOK
  BY DEF Acquire, disk, IInv
<1>2. pc'[p] = "locked" /\ torn' \in BOOLEAN /\ begun' \in Nat
  BY <1>1 DEF Goto, TypeOK
<1>3. LockInv(p)'
  BY <1>1, <1>2 DEF LockInv, Critical
<1>4. QED
  BY <1>1, <1>2, <1>3, LabelFrame

(* The lock is given back without a change to the log. *)
LEMMA ReleaseStep ==
  ASSUME IInv, NEW p \in Procs, pc[p] \in Critical \cup {"locked"}, lock' = Free,
         Goto(p, "idle"),
         UNCHANGED <<entries, cuts, torn, ckpt, begun, cache, found, acked, seen, crashes>>
  PROVE  IInv'
<1>1. lock = p /\ TypeOK
  BY ProcFacts DEF LockInv
<1>2. pc'[p] = "idle" /\ torn' \in BOOLEAN /\ begun' \in Nat
  BY <1>1 DEF Goto, TypeOK
<1>3. LockInv(p)'
  BY <1>2 DEF LockInv, Critical
<1>4. QED
  BY <1>1, <1>2, <1>3, LabelFrame

LEMMA UnlockStep ==
  ASSUME IInv, NEW p \in Procs, Unlock(p) \/ Fail(p)
  PROVE  IInv'
<1>1. /\ pc[p] \in Critical \cup {"locked"} /\ lock' = Free /\ Goto(p, "idle")
      /\ UNCHANGED <<entries, cuts, torn, ckpt, begun, cache, found, acked, seen, crashes>>
  BY DEF Unlock, Fail, disk, Critical
<1>2. QED
  BY <1>1, ReleaseStep

LEMMA EnterStep ==
  ASSUME LateDirStamps = FALSE, IInv, NEW p \in Procs, Enter(p)
  PROVE  IInv'
<1> DEFINE c == Refreshed(cache[p], Len(cuts))
<1>1. ~RefreshRefused(cache[p], Len(cuts)) /\ c \in CacheType /\ CacheInv(c)
      /\ c.view = entries /\ c.segs = Len(cuts)
  BY ProcFacts, RefreshInv
<1>2. /\ cache' = [cache EXCEPT ![p] = c]
      /\ entries' = SubSeq(entries, 1, Sealed + Offset(c))
      /\ torn' = FALSE /\ Goto(p, "ready")
      /\ UNCHANGED <<cuts, ckpt, lock, begun, found, acked, seen, crashes>>
  BY <1>1 DEF Enter, DirStamps
<1> HIDE DEF c
<1>3. /\ TypeOK /\ entries \in Seq(Record) /\ Len(entries) \in Nat /\ Sealed \in Nat
      /\ lock = p
  <2>1. TypeOK /\ FilesInv /\ LockInv(p) /\ pc[p] = "locked"
    BY ProcFacts DEF Enter, At
  <2>2. entries \in Seq(Record) /\ Sealed \in Nat
    BY <2>1, SealedBounds DEF TypeOK
  <2>3. lock = p
    BY <2>1 DEF LockInv
  <2>4. QED
    BY <2>1, <2>2, <2>3
<1>4. entries' = entries
  <2>1. Offset(c) = Len(entries) - Sealed
    BY <1>1 DEF Offset, CacheInv, Sealed
  <2>2. Sealed + Offset(c) = Len(entries)
    BY <2>1, <1>3
  <2>3. QED
    BY <2>2, <1>2, <1>3
<1>5. Grown /\ ChainIntact' /\ FilesInv'
  BY <1>2, <1>4, ProcFacts, FilesUnmoved
<1>6. pc' = [pc EXCEPT ![p] = "ready"] /\ pc'[p] = "ready" /\ cache'[p] = c
  BY <1>2, <1>3 DEF Goto, TypeOK
<1>7. CacheInv(cache[p])'
  BY <1>1, <1>2, <1>4, <1>6 DEF CacheInv, IsPrefixOfLog, StampInv, Absent, Offset, Cut, Sealed
<1>8. LockInv(p)'
  BY <1>1, <1>2, <1>3, <1>4, <1>6 DEF LockInv, Critical
<1>9. /\ seen' = [seen EXCEPT ![p] = seen[p]] /\ seen[p] \in Seq(Record)
      /\ IsPrefixOfLog(seen[p])'
  <2>1. seen' = seen /\ IsPrefixOfLog(seen[p])
    BY <1>2, ProcFacts
  <2>2. QED
    BY <2>1, <1>3, <1>4 DEF IsPrefixOfLog, TypeOK
<1>10. /\ begun' \in Nat /\ acked' \subseteq Record /\ crashes' \in Nat /\ lock' \in Procs \cup {Free}
       /\ ckpt' \in [segments : Nat, view : Seq(Record)] /\ torn' \in BOOLEAN
       /\ begun' = begun /\ lock' = lock /\ found' = found /\ acked' = acked /\ cuts' = cuts
  BY <1>2, <1>3 DEF TypeOK
<1>11. "ready" \in Critical
  BY DEF Critical
<1>12. QED
  BY <1>1, <1>2, <1>4, <1>5, <1>6, <1>7, <1>8, <1>9, <1>10, <1>11, WriterFrame

LEMMA BeginWriteStep ==
  ASSUME IInv, NEW p \in Procs, BeginWrite(p)
  PROVE  IInv'
<1>1. /\ UNCHANGED <<entries, cuts, ckpt, lock, cache, found, acked, seen, crashes>>
      /\ torn' = TRUE /\ begun' = begun + 1 /\ Goto(p, "writing")
      /\ pc[p] = "ready" /\ TypeOK /\ LockInv(p)
  BY ProcFacts DEF BeginWrite, At
<1>2. pc'[p] = "writing" /\ torn' \in BOOLEAN /\ begun' \in Nat /\ begun' # 0
  BY <1>1 DEF Goto, TypeOK
<1>3. lock = p /\ cache[p].view = entries /\ cache[p].segs = Len(cuts)
  BY <1>1 DEF LockInv, Critical
<1>4. LockInv(p)'
  BY <1>1, <1>2, <1>3 DEF LockInv, Critical
<1>5. "writing" \in Critical /\ lock' = lock /\ lock' \in Procs \cup {Free}
  BY <1>1, <1>3 DEF Critical
<1>6. QED
  BY <1>1, <1>2, <1>3, <1>4, <1>5, LabelFrame

LEMMA LastIdType ==
  ASSUME NEW v \in Seq(Record)
  PROVE  LastId(v) \in Nat
<1>1. CASE v = << >>
  BY <1>1 DEF LastId
<1>2. CASE v # << >>
  <2>1. v[Len(v)] \in Record
    BY <1>2
  <2>2. QED
    BY <1>2, <2>1 DEF LastId, Record
<1>3. QED
  BY <1>1, <1>2

LEMMA FinishWriteStep ==
  ASSUME IInv, NEW p \in Procs, FinishWrite(p)
  PROVE  IInv'
<1> DEFINE c == cache[p]
           r == NewRecord(c)
<1>1. /\ entries' = Append(entries, r) /\ torn' = FALSE /\ Goto(p, "written")
      /\ UNCHANGED <<cuts, ckpt, lock, begun, cache, found, acked, seen, crashes>>
      /\ pc[p] = "writing" /\ TypeOK /\ FilesInv /\ ChainIntact /\ LockInv(p)
      /\ c \in CacheType
  BY ProcFacts DEF FinishWrite, At
<1>2. /\ lock = p /\ c.view = entries /\ c.segs = Len(cuts) /\ begun # 0
      /\ entries \in Seq(Record) /\ Len(entries) \in Nat /\ begun \in Nat
  <2>1. lock = p /\ c.view = entries /\ c.segs = Len(cuts) /\ begun # 0
    BY <1>1 DEF LockInv, Critical
  <2>2. entries \in Seq(Record) /\ begun \in Nat
    BY <1>1 DEF TypeOK
  <2>3. QED
    BY <2>1, <2>2
<1>3. /\ r.seq = Len(entries) + 1 /\ r.id = begun /\ r.prev = LastId(entries)
      /\ r \in Record
  <2>1. LastId(entries) \in Nat
    BY <1>2, LastIdType
  <2>2. QED
    BY <1>2, <2>1 DEF NewRecord, Record
<1>4. Grown
  BY <1>1, <1>2, <1>3 DEF Grown, TypeOK
<1>5. ChainIntact'
  <2> SUFFICES ASSUME NEW i \in 1..Len(entries')
               PROVE  /\ entries'[i].seq = i
                      /\ entries'[i].prev = IF i = 1 THEN 0 ELSE entries'[i - 1].id
    BY DEF ChainIntact, Continues, LastId
  <2>1. Len(entries') = Len(entries) + 1 /\ i \in Nat /\ i >= 1
    BY <1>1, <1>2, <1>3
  <2>2. CASE i <= Len(entries)
    <3>1. i \in 1..Len(entries)
      BY <2>1, <2>2, <1>2
    <3>2. i # 1 => i - 1 \in 1..Len(entries)
      BY <2>1, <2>2, <1>2
    <3>3. entries'[i] = entries[i] /\ (i # 1 => entries'[i - 1] = entries[i - 1])
      BY <3>1, <3>2, <1>4 DEF Grown
    <3>4. QED
      BY <3>1, <3>3, <1>1, ChainFacts
  <2>3. CASE i = Len(entries) + 1
    <3>1. entries'[i] = r
      BY <2>3, <1>1, <1>2, <1>3
    <3>2. CASE Len(entries) = 0
      <4>1. LastId(entries) = 0
        BY <3>2, <1>2 DEF LastId
      <4>2. QED
        BY <3>1, <3>2, <4>1, <2>3, <1>3
    <3>3. CASE Len(entries) # 0
      <4>1. LastId(entries) = entries[Len(entries)].id
        BY <3>3, <1>2 DEF LastId
      <4>2. i # 1 /\ i - 1 = Len(entries) /\ entries'[i - 1] = entries[i - 1]
        BY <3>3, <2>3, <1>2, <1>4 DEF Grown
      <4>3. QED
        BY <3>1, <4>1, <4>2, <2>3, <1>3
    <3>4. QED
      BY <3>2, <3>3
  <2>4. QED
    BY <2>1, <2>2, <2>3, <1>2
<1>6. FilesInv'
  <2>1. \A i \in 1..Len(cuts) : cuts[i] <= Len(entries')
    <3>1. Len(entries') = Len(entries) + 1 /\ cuts \in Seq(Nat)
      BY <1>1, <1>2, <1>3 DEF TypeOK
    <3>2. QED
      BY <3>1, <1>1, <1>2 DEF FilesInv
  <2>2. Len(ckpt.view) <= Len(entries') /\ \A i \in 1..Len(ckpt.view) : ckpt.view[i] = entries'[i]
    BY <1>1, <1>4, PrefixKept DEF FilesInv, TypeOK
  <2>3. QED
    BY <2>1, <2>2, <1>1 DEF FilesInv, Cut, IsPrefixOfLog
<1>7. pc' = [pc EXCEPT ![p] = "written"] /\ pc'[p] = "written"
  BY <1>1 DEF Goto, TypeOK
<1>8. LockInv(p)'
  BY <1>1, <1>2, <1>7 DEF LockInv, Critical, NewRecord, LastId
<1>9. CacheInv(cache[p])'
  BY <1>1, <1>4, CacheKept
<1>10. IsPrefixOfLog(seen[p])'
  BY <1>1, <1>4, PrefixKept, ProcFacts DEF IsPrefixOfLog
<1>11. /\ cache' = [cache EXCEPT ![p] = c] /\ seen' = [seen EXCEPT ![p] = seen[p]]
       /\ seen[p] \in Seq(Record) /\ "written" \in Critical
  BY <1>1, ProcFacts DEF TypeOK, Critical
<1>12. /\ begun' \in Nat /\ acked' \subseteq Record /\ crashes' \in Nat /\ lock' \in Procs \cup {Free}
       /\ ckpt' \in [segments : Nat, view : Seq(Record)] /\ torn' \in BOOLEAN
       /\ begun' = begun /\ lock' = lock /\ found' = found /\ acked' = acked
  BY <1>1 DEF TypeOK
<1>13. QED
  BY <1>1, <1>2, <1>4, <1>5, <1>6, <1>7, <1>8, <1>9, <1>10, <1>11, <1>12, WriterFrame

LEMMA CommitStep ==
  ASSUME IInv, NEW p \in Procs, Commit(p)
  PROVE  IInv'
<1> DEFINE d == cache[p]
           c == [d EXCEPT !.view = Append(@, NewRecord(d)), !.stamp = ActiveStamp]
<1>1. /\ cache' = [cache EXCEPT ![p] = c] /\ Goto(p, "committed")
      /\ UNCHANGED <<entries, cuts, torn, ckpt, lock, begun, found, acked, seen, crashes>>
      /\ pc[p] = "written" /\ TypeOK /\ FilesInv /\ ChainIntact /\ LockInv(p)
      /\ d \in CacheType /\ CacheInv(d)
  BY ProcFacts DEF Commit, At, disk, CacheType
<1>2. /\ lock = p /\ entries = Append(d.view, NewRecord(d)) /\ d.segs = Len(cuts)
      /\ entries \in Seq(Record) /\ Len(entries) \in Nat
  <2>1. lock = p /\ entries = Append(d.view, NewRecord(d)) /\ d.segs = Len(cuts)
    BY <1>1 DEF LockInv, Critical
  <2>2. entries \in Seq(Record)
    BY <1>1 DEF TypeOK
  <2>3. QED
    BY <2>1, <2>2
<1>3. /\ c \in CacheType /\ c.view = entries /\ c.stamp = ActiveStamp /\ c.segs = d.segs
      /\ c.from = d.from /\ c.dir = d.dir
  BY <1>1, <1>2, StampFacts DEF CacheType
<1>4. entries # << >>
  BY <1>1, <1>2 DEF CacheType
<1> HIDE DEF c
<1>5. CacheInv(c)
  <2>1. /\ c.from = Sealed /\ Sealed <= Len(entries) /\ c.dir <= c.segs /\ c.segs = Len(cuts)
        /\ c.from = Cut(c.segs)
    BY <1>1, <1>2, <1>3, SealedBounds DEF CacheInv, Sealed
  <2>2. /\ StampInv(c.stamp)
        /\ c.stamp # Absent => c.dir <= c.stamp.ino
        /\ c.stamp.size = Len(entries) - Sealed
    BY <1>1, <1>3, <2>1, StampFacts
  <2>3. Offset(c) = Len(entries) - Sealed /\ IsPrefixOfLog(c.view)
    BY <1>2, <1>3, <2>1 DEF Offset, IsPrefixOfLog
  <2>4. c.segs <= Len(cuts) /\ c.from <= Len(c.view) /\ c.stamp.size <= Offset(c)
    <3>1. Sealed \in Nat /\ Len(cuts) \in Nat
      BY SMTT(20), <1>1, SealedBounds DEF TypeOK
    <3>2. QED
      BY <3>1, <2>1, <2>2, <2>3, <1>2, <1>3
  <2>5. QED
    BY <2>1, <2>2, <2>3, <2>4 DEF CacheInv
<1>6. pc' = [pc EXCEPT ![p] = "committed"] /\ pc'[p] = "committed" /\ cache'[p] = c
  BY <1>1 DEF Goto, TypeOK
<1>7. CacheInv(cache[p])'
  BY <1>1, <1>5, <1>6 DEF CacheInv, IsPrefixOfLog, StampInv, Absent, Offset, Cut, Sealed
<1>8. LockInv(p)'
  BY <1>1, <1>2, <1>3, <1>4, <1>6 DEF LockInv, Critical
<1>9. Grown /\ ChainIntact' /\ FilesInv'
  BY <1>1, FilesUnmoved
<1>10. IsPrefixOfLog(seen[p])'
  BY <1>1, ProcFacts DEF IsPrefixOfLog
<1>11. /\ seen' = [seen EXCEPT ![p] = seen[p]]
       /\ seen[p] \in Seq(Record) /\ "committed" \in Critical
  BY <1>1, ProcFacts DEF TypeOK, Critical
<1>12. /\ begun' \in Nat /\ acked' \subseteq Record /\ crashes' \in Nat /\ lock' \in Procs \cup {Free}
       /\ ckpt' \in [segments : Nat, view : Seq(Record)] /\ torn' \in BOOLEAN
       /\ begun' = begun /\ lock' = lock /\ found' = found /\ acked' = acked
  BY <1>1 DEF TypeOK
<1>13. QED
  BY <1>1, <1>2, <1>3, <1>6, <1>7, <1>8, <1>9, <1>10, <1>11, <1>12, WriterFrame

LEMMA SealStep ==
  ASSUME IInv, NEW p \in Procs, Rotate(p) \/ ForceRotate(p)
  PROVE  IInv'
<1>1. PICK l \in {"sealed", "forced"} :
        /\ cuts' = Append(cuts, Len(cache[p].view)) /\ Goto(p, l)
        /\ UNCHANGED <<entries, torn, ckpt, lock, begun, cache, found, acked, seen, crashes>>
        /\ pc[p] = IF l = "sealed" THEN "committed" ELSE "ready"
  BY DEF Rotate, ForceRotate, Seal, At
<1>2. TypeOK /\ FilesInv /\ ChainIntact /\ LockInv(p)
  BY ProcFacts
<1>3. lock = p /\ cache[p].view = entries /\ (l = "sealed" => entries # << >>)
  BY <1>1, <1>2 DEF LockInv, Critical
<1>4. /\ entries \in Seq(Record) /\ Len(entries) \in Nat /\ cuts \in Seq(Nat) /\ Len(cuts) \in Nat
      /\ cuts' = Append(cuts, Len(entries))
  <2>1. entries \in Seq(Record) /\ cuts \in Seq(Nat)
    BY <1>2 DEF TypeOK
  <2>2. QED
    BY <2>1, <1>1, <1>3
<1>5. /\ cuts' \in Seq(Nat) /\ Len(cuts') = Len(cuts) + 1 /\ cuts'[Len(cuts) + 1] = Len(entries)
      /\ \A i \in 1..Len(cuts) : cuts'[i] = cuts[i]
  BY <1>4
<1>6. Grown
  BY <1>1, <1>4, <1>5 DEF Grown
<1>7. ChainIntact'
  BY <1>1, <1>2 DEF ChainIntact, Continues, LastId
<1>8. FilesInv'
  <2>1. /\ \A i \in 1..Len(cuts) : cuts[i] <= Len(entries)
        /\ \A i, j \in 1..Len(cuts) : i <= j => cuts[i] <= cuts[j]
        /\ ckpt.segments \in Nat /\ ckpt.segments <= Len(cuts)
        /\ Len(ckpt.view) = Cut(ckpt.segments) /\ IsPrefixOfLog(ckpt.view)
    BY <1>2 DEF FilesInv, TypeOK
  <2>2. \A i \in 1..Len(cuts') : i \in 1..Len(cuts) \/ i = Len(cuts) + 1
    BY <1>4, <1>5
  <2>3. \A i \in 1..Len(cuts') : cuts'[i] <= Len(entries)
    BY <2>1, <2>2, <1>4, <1>5
  <2>4. ASSUME NEW i \in 1..Len(cuts'), NEW j \in 1..Len(cuts'), i <= j
        PROVE  cuts'[i] <= cuts'[j]
    <3>1. CASE j = Len(cuts) + 1
      BY <3>1, <2>3, <1>5
    <3>2. CASE j # Len(cuts) + 1
      BY <3>2, <2>1, <2>2, <2>4, <1>4, <1>5
    <3>3. QED
      BY <3>1, <3>2
  <2>5. Len(ckpt.view) = (IF ckpt.segments = 0 THEN 0 ELSE cuts'[ckpt.segments])
    BY <2>1, <1>4, <1>5 DEF Cut
  <2>6. ckpt.segments <= Len(cuts') /\ Len(ckpt.view) <= Len(entries)
        /\ \A i \in 1..Len(ckpt.view) : ckpt.view[i] = entries[i]
    BY <2>1, <1>4, <1>5 DEF IsPrefixOfLog
  <2>7. QED
    BY <2>3, <2>4, <2>5, <2>6, <1>1 DEF FilesInv, Cut, IsPrefixOfLog
<1>9. pc' = [pc EXCEPT ![p] = l] /\ pc'[p] = l /\ l \in Critical
  BY <1>1, <1>2 DEF Goto, TypeOK, Critical
<1>10. LockInv(p)'
  <2>1. Sealed' = Len(entries)
    BY <1>4, <1>5 DEF Sealed, Cut
  <2>2. QED
    BY <2>1, <1>1, <1>3, <1>9 DEF LockInv, Critical
<1>11. CacheInv(cache[p])'
  BY <1>1, <1>6, CacheKept
<1>12. IsPrefixOfLog(seen[p])'
  BY <1>1, ProcFacts DEF IsPrefixOfLog
<1>13. /\ cache' = [cache EXCEPT ![p] = cache[p]] /\ seen' = [seen EXCEPT ![p] = seen[p]]
       /\ seen[p] \in Seq(Record) /\ cache[p] \in CacheType
  BY <1>1, ProcFacts DEF TypeOK
<1>14. /\ begun' \in Nat /\ acked' \subseteq Record /\ crashes' \in Nat /\ lock' \in Procs \cup {Free}
       /\ ckpt' \in [segments : Nat, view : Seq(Record)] /\ torn' \in BOOLEAN
       /\ begun' = begun /\ lock' = lock /\ found' = found /\ acked' = acked
  BY <1>1, <1>2 DEF TypeOK
<1>15. QED
  BY <1>3, <1>6, <1>7, <1>8, <1>9, <1>10, <1>11, <1>12, <1>13, <1>14, WriterFrame

LEMMA CheckpointStep ==
  ASSUME IInv, NEW p \in Procs,
         Checkpoint(p, "sealed", "rotated") \/ Checkpoint(p, "forced", "swept")
  PROVE  IInv'
<1> DEFINE d == cache[p]
           c == AfterSeal(d)
<1>1. TypeOK /\ FilesInv /\ ChainIntact /\ LockInv(p) /\ d \in CacheType /\ CacheInv(d)
  BY ProcFacts
<1>2. PICK l \in {"rotated", "swept"} :
        /\ Goto(p, l) /\ pc[p] = IF l = "rotated" THEN "sealed" ELSE "forced"
        /\ \/ ckpt' = [segments |-> Len(cuts), view |-> d.view]
           \/ ckpt' = ckpt
        /\ UNCHANGED <<entries, cuts, torn, lock, begun, found, acked, seen, crashes>>
  BY DEF Checkpoint, At
<1>3. /\ lock = p /\ d.view = entries /\ Sealed = Len(entries)
      /\ l = "rotated" => entries # << >>
  BY <1>1, <1>2 DEF LockInv, Critical
<1>4. entries \in Seq(Record) /\ Len(entries) \in Nat /\ Len(cuts) \in Nat
  <2>1. entries \in Seq(Record) /\ cuts \in Seq(Nat)
    BY <1>1 DEF TypeOK
  <2>2. QED
    BY <2>1
<1>5. /\ cache' = [cache EXCEPT ![p] = c]
      /\ c \in CacheType /\ c.view = entries /\ c.segs = Len(cuts) /\ c.from = Len(entries)
      /\ c.dir = Len(cuts) /\ c.stamp = Absent
  <2>1. cache' = [cache EXCEPT ![p] = c]
    BY DEF Checkpoint
  <2>2. QED
    BY <2>1, <1>1, <1>3, <1>4, NothingFoundType DEF AfterSeal, CacheType
<1> HIDE DEF c, d
<1>6. CacheInv(c)
  BY <1>3, <1>4, <1>5 DEF CacheInv, StampInv, IsPrefixOfLog, Sealed
<1>7. pc' = [pc EXCEPT ![p] = l] /\ pc'[p] = l /\ l \in Critical /\ cache'[p] = c
  BY <1>1, <1>2, <1>5 DEF Goto, TypeOK, Critical
<1>8. CacheInv(cache[p])'
  BY <1>2, <1>6, <1>7 DEF CacheInv, IsPrefixOfLog, StampInv, Absent, Offset, Cut, Sealed
<1>9. LockInv(p)'
  BY <1>2, <1>3, <1>5, <1>7 DEF LockInv, Critical
<1>10. ckpt' \in [segments : Nat, view : Seq(Record)]
  BY <1>1, <1>2, <1>3, <1>4 DEF TypeOK
<1>11. Grown /\ ChainIntact'
  BY <1>1, <1>2, <1>4 DEF Grown, TypeOK, ChainIntact, Continues, LastId
<1>12. FilesInv'
  <2>1. CASE ckpt' = ckpt
    BY <2>1, <1>1, <1>2, FilesUnmoved
  <2>2. CASE ckpt' = [segments |-> Len(cuts), view |-> d.view]
    <3>1. /\ ckpt'.segments = Len(cuts) /\ ckpt'.view = entries
          /\ Len(entries) = (IF Len(cuts) = 0 THEN 0 ELSE cuts[Len(cuts)])
      BY <2>2, <1>3 DEF Sealed, Cut
    <3>2. QED
      BY <3>1, <1>1, <1>2, <1>4 DEF FilesInv, Cut, IsPrefixOfLog
  <2>3. QED
    BY <2>1, <2>2, <1>2
<1>13. IsPrefixOfLog(seen[p])'
  BY <1>2, ProcFacts DEF IsPrefixOfLog
<1>14. seen' = [seen EXCEPT ![p] = seen[p]] /\ seen[p] \in Seq(Record)
  BY <1>2, ProcFacts DEF TypeOK
<1>15. /\ begun' \in Nat /\ acked' \subseteq Record /\ crashes' \in Nat /\ lock' \in Procs \cup {Free}
       /\ torn' \in BOOLEAN /\ entries' = entries /\ cuts' = cuts
       /\ begun' = begun /\ lock' = lock /\ found' = found /\ acked' = acked
  BY <1>1, <1>2 DEF TypeOK
<1>16. QED
  BY <1>3, <1>5, <1>7, <1>8, <1>9, <1>10, <1>11, <1>12, <1>13, <1>14, <1>15, WriterFrame

LEMMA ReturnStep ==
  ASSUME IInv, NEW p \in Procs, Return(p)
  PROVE  IInv'
<1> DEFINE c == cache[p]
           e == c.view[Len(c.view)]
<1>1. /\ acked' = acked \cup {e} /\ lock' = Free /\ Leave(p)
      /\ seen' = [seen EXCEPT ![p] = c.view]
      /\ UNCHANGED <<entries, cuts, torn, ckpt, begun, cache, crashes>>
      /\ pc[p] \in {"committed", "rotated"}
      /\ TypeOK /\ FilesInv /\ ChainIntact /\ LockInv(p) /\ c \in CacheType
  BY ProcFacts DEF Return, At, Show, disk
<1>2. lock = p /\ c.view = entries /\ entries # << >>
  BY <1>1 DEF LockInv, Critical
<1>3. entries \in Seq(Record) /\ Len(entries) \in 1..Len(entries)
  <2>1. entries \in Seq(Record)
    BY <1>1 DEF TypeOK
  <2>2. QED
    BY <2>1, <1>2
<1>4. e \in Record /\ e.seq = Len(entries) /\ e = entries[Len(entries)]
  BY <1>1, <1>2, <1>3, ChainFacts
<1>5. acked' \subseteq Record /\ AckedDurable'
  <2>1. acked \subseteq Record /\ \A a \in acked : a.seq <= Len(entries) /\ entries[a.seq] = a
    BY <1>1 DEF TypeOK, AckedDurable, IInv
  <2> HIDE DEF e
  <2>2. ASSUME NEW a \in acked' PROVE a \in Record /\ a.seq <= Len(entries') /\ entries'[a.seq] = a
    BY <2>1, <1>1, <1>3, <1>4
  <2>3. QED
    BY <2>2 DEF AckedDurable
<1>6. Grown /\ ChainIntact' /\ FilesInv' /\ entries' = entries /\ cuts' = cuts
  BY <1>1, FilesUnmoved
<1>7. /\ pc' = [pc EXCEPT ![p] = "idle"] /\ pc'[p] = "idle"
      /\ found' = [found EXCEPT ![p] = NothingFound]
  BY <1>1 DEF Leave, Goto, TypeOK
<1>8. LockInv(p)'
  BY <1>7 DEF LockInv, Critical
<1>9. CacheInv(cache[p])'
  BY <1>1, <1>6, CacheKept
<1>10. seen'[p] = entries /\ IsPrefixOfLog(seen[p])'
  BY <1>1, <1>2, <1>3 DEF IsPrefixOfLog, TypeOK
<1>11. cache' = [cache EXCEPT ![p] = c] /\ c.view \in Seq(Record)
  BY <1>1 DEF TypeOK, CacheType
<1>12. /\ begun' \in Nat /\ crashes' \in Nat /\ begun' = begun
       /\ ckpt' \in [segments : Nat, view : Seq(Record)] /\ torn' \in BOOLEAN
  BY <1>1 DEF TypeOK
<1>13. QED
  BY <1>1, <1>2, <1>5, <1>6, <1>7, <1>8, <1>9, <1>10, <1>11, <1>12, WriterFrame

LEMMA CrashStep ==
  ASSUME IInv, NEW p \in Procs, Crash(p)
  PROVE  IInv'
<1>1. /\ Goto(p, "dead") /\ lock' = IF lock = p THEN Free ELSE lock
      /\ crashes' = crashes + 1
      /\ cache' = [cache EXCEPT ![p] = NewCache]
      /\ found' = [found EXCEPT ![p] = NothingFound]
      /\ seen' = [seen EXCEPT ![p] = << >>]
      /\ UNCHANGED <<entries, cuts, torn, ckpt, begun, acked>>
      /\ TypeOK /\ FilesInv /\ ChainIntact
  BY ProcFacts DEF Crash, disk
<1>2. Grown /\ ChainIntact' /\ FilesInv' /\ entries' = entries /\ cuts' = cuts
  BY <1>1, FilesUnmoved
<1>3. pc' = [pc EXCEPT ![p] = "dead"] /\ pc'[p] = "dead" /\ cache'[p] = NewCache /\ seen'[p] = << >>
  BY <1>1 DEF Goto, TypeOK
<1>4. LockInv(p)'
  BY <1>3 DEF LockInv, Critical
<1>5. NewCache \in CacheType
  BY NothingFoundType DEF NewCache, CacheType
<1>6. CacheInv(cache[p])'
  <2>1. Len(<< >>) = 0 /\ Len(cuts) \in Nat /\ Len(entries) \in Nat
    BY <1>1, <1>2, CutKept
  <2>2. QED
    BY <2>1, <1>2, <1>3 DEF CacheInv, NewCache, IsPrefixOfLog, StampInv, Absent, Offset, Cut
<1>7. IsPrefixOfLog(seen[p])'
  <2>1. Len(<< >>) = 0 /\ Len(entries) \in Nat
    BY <1>1, <1>2, CutKept
  <2>2. QED
    BY <2>1, <1>2, <1>3 DEF IsPrefixOfLog
<1>8. /\ begun' \in Nat /\ crashes' \in Nat /\ begun' = begun /\ acked' = acked
      /\ acked' \subseteq Record
      /\ ckpt' \in [segments : Nat, view : Seq(Record)] /\ torn' \in BOOLEAN
      /\ lock' \in Procs \cup {Free} /\ (lock' = lock \/ lock = p) /\ << >> \in Seq(Record)
  BY <1>1 DEF TypeOK
<1>9. QED
  BY <1>1, <1>2, <1>3, <1>4, <1>5, <1>6, <1>7, <1>8, WriterFrame

LEMMA StartStep ==
  ASSUME IInv, NEW p \in Procs, Start(p)
  PROVE  IInv'
<1>1. /\ Goto(p, "start") /\ TypeOK
      /\ UNCHANGED <<entries, cuts, torn, ckpt, lock, begun, cache, found, acked, seen, crashes>>
  BY ProcFacts DEF Start, readOnly, disk
<1>2. pc'[p] = "start" /\ torn' \in BOOLEAN /\ begun' \in Nat /\ lock' \in Procs \cup {Free}
  BY <1>1 DEF Goto, TypeOK
<1>3. LockInv(p)'
  BY <1>2 DEF LockInv, Critical
<1>4. QED
  BY <1>1, <1>2, <1>3, LabelFrame

-----------------------------------------------------------------------------
(* The invariant holds at first and is kept by every step. *)
LEMMA InitInv == Init => IInv
<1> SUFFICES ASSUME Init PROVE IInv
  OBVIOUS
<1>1. Len(<< >>) = 0 /\ << >> \in Seq(Record) /\ << >> \in Seq(Nat)
  OBVIOUS
<1>2. NewCache \in CacheType
  BY <1>1, NothingFoundType DEF NewCache, CacheType
<1>3. TypeOK
  BY <1>1, <1>2, NothingFoundType DEF Init, TypeOK, CacheType, FoundType, Labels
<1>4. ChainIntact /\ FilesInv /\ AckedDurable
  BY <1>1 DEF Init, ChainIntact, Continues, FilesInv, IsPrefixOfLog, Cut, AckedDurable
<1>5. ASSUME NEW p \in Procs PROVE ProcInv(p)
  <2>1. cache[p] = NewCache /\ pc[p] = "start" /\ seen[p] = << >>
    BY DEF Init
  <2>2. CacheInv(cache[p])
    BY <2>1, <1>1 DEF Init, NewCache, CacheInv, IsPrefixOfLog, StampInv, Absent, Cut
  <2>3. FoundInv(pc[p], found[p], cache[p]) /\ LockInv(p)
    BY <2>1 DEF FoundInv, LockInv, Critical
  <2>4. IsPrefixOfLog(seen[p])
    BY <2>1, <1>1 DEF Init, IsPrefixOfLog
  <2>5. QED
    BY <2>2, <2>3, <2>4 DEF ProcInv
<1>6. QED
  BY <1>3, <1>4, <1>5 DEF IInv

LEMMA NextInv ==
  ASSUME LateDirStamps = FALSE, IInv, [Next]_vars
  PROVE  IInv'
<1>1. CASE UNCHANGED vars
  <2>1. /\ entries' = entries /\ cuts' = cuts /\ torn' = torn /\ ckpt' = ckpt /\ lock' = lock
        /\ begun' = begun /\ cache' = cache /\ pc' = pc /\ found' = found /\ acked' = acked
        /\ seen' = seen /\ crashes' = crashes
    BY <1>1 DEF vars
  <2>2. TypeOK'
    BY <2>1 DEF IInv, TypeOK
  <2>3. Grown /\ ChainIntact' /\ FilesInv'
    BY <2>1, FilesUnmoved DEF IInv
  <2>4. AckedDurable'
    BY <2>1 DEF IInv, AckedDurable
  <2>5. ASSUME NEW p \in Procs PROVE ProcInv(p)'
    <3>1. CacheInv(cache[p])' /\ FoundInv(pc[p], found[p], cache[p])'
      BY <2>1, <2>3, CacheKept, FoundKept
    <3>2. LockInv(p)' /\ IsPrefixOfLog(seen[p])'
      BY <2>1, ProcFacts DEF LockInv, IsPrefixOfLog, Sealed, Cut, NewRecord, LastId
    <3>3. QED
      BY <3>1, <3>2 DEF ProcInv
  <2>6. QED
    BY <2>2, <2>3, <2>4, <2>5 DEF IInv
<1>2. ASSUME NEW p \in Procs, Reader(p) PROVE IInv'
  BY <1>2, StatDirectoryStep, StatActiveStep, CheckDirectoryStep, RestoreSegmentsStep,
     CheckRotationStep, StatSizeStep, ReadActiveStep DEF Reader
<1>3. ASSUME NEW p \in Procs, Writer(p) PROVE IInv'
  BY <1>3, AcquireStep, EnterStep, UnlockStep, BeginWriteStep, FinishWriteStep, CommitStep,
     SealStep, CheckpointStep, ReturnStep DEF Writer
<1>4. QED
  BY <1>1, <1>2, <1>3, CrashStep, StartStep DEF Next

LEMMA Inductive == LateDirStamps = FALSE => (Spec => []IInv)
<1> SUFFICES ASSUME LateDirStamps = FALSE PROVE Spec => []IInv
  OBVIOUS
<1>1. QED
  BY InitInv, NextInv, PTL DEF Spec

(* Every variable keeps its type in every run: in particular a sequence
   number, an id and a chained id are never the ones of no record. *)
THEOREM TypesHold == LateDirStamps = FALSE => (Spec => []TypeOK)
<1>1. IInv => TypeOK
  BY DEF IInv
<1>2. QED
  BY <1>1, Inductive, PTL

(* The hash chain of the files is never broken, whatever the number of
   processes, appends and crashes (Journal.ts append, rotate, locked). *)
THEOREM ChainHolds == LateDirStamps = FALSE => (Spec => []ChainIntact)
<1>1. IInv => ChainIntact
  BY DEF IInv
<1>2. QED
  BY <1>1, Inductive, PTL

(* An event whose append returned is never lost: not by the repair of a
   torn tail, not by a rotation, not by a crash (Journal.ts append, locked). *)
THEOREM AcknowledgedStays == LateDirStamps = FALSE => (Spec => []AckedDurable)
<1>1. IInv => AckedDurable
  BY DEF IInv
<1>2. QED
  BY <1>1, Inductive, PTL

(* What any process has reduced is a prefix of the log, although it reads
   the files without the lock (Journal.ts refresh, restore). *)
THEOREM PrefixesHold == LateDirStamps = FALSE => (Spec => []ViewsArePrefixes)
<1>1. IInv => ViewsArePrefixes
  BY DEF IInv, FilesInv, ProcInv, CacheInv, ViewsArePrefixes
<1>2. QED
  BY <1>1, Inductive, PTL

(* Under the lock a process has the whole log: guards decide on the current
   state (Journal.ts locked, append). *)
THEOREM WriterHasTheLog == LateDirStamps = FALSE => (Spec => []WriterIsCurrent)
<1>1. IInv => WriterIsCurrent
  BY DEF IInv, ProcInv, LockInv, Critical, WriterIsCurrent
<1>2. QED
  BY <1>1, Inductive, PTL

(* A process that holds the lock is never refused by intact files
   (Journal.ts refresh, restore, replay). *)
THEOREM NeverRefused == LateDirStamps = FALSE => (Spec => []NoFalseRefusal)
<1> SUFFICES ASSUME LateDirStamps = FALSE PROVE Spec => []NoFalseRefusal
  OBVIOUS
<1>1. IInv => NoFalseRefusal
  <2> SUFFICES ASSUME IInv, NEW p \in Procs, NEW dir \in DirStamps(cache[p].dir)
               PROVE  ~RefreshRefused(cache[p], dir)
    BY DEF NoFalseRefusal
  <2>1. dir = Len(cuts)
    BY DEF DirStamps
  <2>2. QED
    BY <2>1, ProcFacts, RefreshInv
<1>2. QED
  BY <1>1, Inductive, PTL

-----------------------------------------------------------------------------
(* Every step is a step of the abstract log, or none. *)
AbstractStep == Abstract!Next \/ UNCHANGED <<entries, acked, seen>>

LEMMA PrefixIsPiece ==
  ASSUME entries \in Seq(Record), NEW v \in Seq(Record), IsPrefixOfLog(v)
  PROVE  Len(v) \in 0..Len(entries) /\ v = SubSeq(entries, 1, Len(v))
BY DEF IsPrefixOfLog

(* What a read shows is a prefix: Observe. *)
LEMMA ShowRefines ==
  ASSUME TypeOK, NEW p \in Procs, NEW v \in Seq(Record), IsPrefixOfLog(v),
         seen' = [seen EXCEPT ![p] = v], UNCHANGED <<entries, acked>>
  PROVE  AbstractStep
<1>1. entries \in Seq(Record)
  BY DEF TypeOK
<1>2. Len(v) \in 0..Len(entries) /\ v = SubSeq(entries, 1, Len(v))
  BY <1>1, PrefixIsPiece
<1>3. Abstract!Observe(p)
  BY <1>2 DEF Abstract!Observe
<1>4. QED
  BY <1>3 DEF AbstractStep, Abstract!Next

LEMMA ReaderRefines ==
  ASSUME IInv, NEW p \in Procs, Reader(p)
  PROVE  AbstractStep
<1>1. UNCHANGED <<entries, acked>> /\ TypeOK
  BY ProcFacts DEF Reader, StatDirectory, StatActive, CheckDirectory, RestoreSegments,
     CheckRotation, StatSize, ReadActive, readOnly, disk
<1>2. CASE UNCHANGED seen
  BY <1>1, <1>2 DEF AbstractStep
<1>3. CASE StatSize(p)
  <2>1. UNCHANGED seen \/ seen' = [seen EXCEPT ![p] = cache[p].view]
    BY <1>3 DEF StatSize, Show, Throw
  <2>2. cache[p].view \in Seq(Record) /\ IsPrefixOfLog(cache[p].view)
    BY ProcFacts DEF CacheInv, CacheType
  <2>3. QED
    BY <1>1, <1>2, <2>1, <2>2, ShowRefines
<1>4. CASE ReadActive(p)
  <2> DEFINE c == cache[p]
             f == found[p]
             g == Grow(c, f.stamp, f.size)
  <2>1. UNCHANGED seen \/ (~ReadRefused(c, f.size) /\ seen' = [seen EXCEPT ![p] = g.view])
    BY <1>4 DEF ReadActive, Show, Throw
  <2>2. /\ StampInv(f.stamp) /\ c.dir <= f.stamp.ino /\ f.stamp # Absent
        /\ (f.stamp.ino = Len(cuts) /\ c.segs = Len(cuts)) => f.stamp.size <= f.size
        /\ c \in CacheType /\ CacheInv(c) /\ f.stamp \in Stamps /\ f.size \in Nat
        /\ TypeOK /\ ChainIntact /\ FilesInv
    BY <1>4, ProcFacts DEF ReadActive, At, FoundInv, FoundType
  <2>3. CASE ~ReadRefused(c, f.size) /\ seen' = [seen EXCEPT ![p] = g.view]
    <3>1. g \in CacheType /\ CacheInv(g)
      BY <2>2, <2>3, GrowInv
    <3> HIDE DEF g
    <3>2. g.view \in Seq(Record) /\ IsPrefixOfLog(g.view)
      BY <3>1 DEF CacheInv, CacheType
    <3>3. QED
      BY <1>1, <2>3, <3>2, ShowRefines
  <2>4. QED
    BY <1>2, <2>1, <2>3
<1>5. QED
  BY <1>2, <1>3, <1>4 DEF Reader, StatDirectory, StatActive, CheckDirectory, ListSegments,
     RestoreSegments, CheckRotation, Throw

LEMMA WriterRefines ==
  ASSUME LateDirStamps = FALSE, IInv, NEW p \in Procs, Writer(p)
  PROVE  AbstractStep
<1>1. CASE Enter(p)
  <2> DEFINE c == Refreshed(cache[p], Len(cuts))
  <2>1. /\ c \in CacheType /\ CacheInv(c) /\ c.view = entries /\ c.segs = Len(cuts)
        /\ entries' = entries \/ entries' = SubSeq(entries, 1, Sealed + Offset(c))
        /\ UNCHANGED <<acked, seen>>
    BY <1>1, ProcFacts, RefreshInv DEF Enter, DirStamps, disk
  <2> HIDE DEF c
  <2>2. entries \in Seq(Record) /\ Sealed \in Nat
    BY ProcFacts, SealedBounds DEF TypeOK
  <2>3. Sealed + Offset(c) = Len(entries)
    BY <2>1, <2>2 DEF Offset, CacheInv, Sealed
  <2>4. QED
    BY <2>1, <2>2, <2>3 DEF AbstractStep
<1>2. CASE FinishWrite(p)
  <2>1. /\ entries' = Append(entries, NewRecord(cache[p])) /\ UNCHANGED <<acked, seen>>
        /\ entries \in Seq(Record)
    BY <1>2, ProcFacts DEF FinishWrite, TypeOK
  <2>2. Len(entries') = Len(entries) + 1 /\ SubSeq(entries', 1, Len(entries)) = entries
    BY <2>1
  <2>3. Abstract!Extend
    BY <2>1, <2>2 DEF Abstract!Extend
  <2>4. QED
    BY <2>3 DEF AbstractStep, Abstract!Next
<1>3. CASE Return(p)
  <2>1. cache[p].view = entries /\ entries # << >>
    BY <1>3, ProcFacts DEF Return, At, LockInv, Critical
  <2>2. Abstract!Acknowledge(p)
    BY <1>3, <2>1 DEF Return, Show, disk, Abstract!Acknowledge
  <2>3. QED
    BY <2>2 DEF AbstractStep, Abstract!Next
<1>4. CASE UNCHANGED <<entries, acked, seen>>
  BY <1>4 DEF AbstractStep
<1>5. QED
  BY <1>1, <1>2, <1>3, <1>4 DEF Writer, Acquire, Unlock, BeginWrite, Commit, Fail, Rotate,
     ForceRotate, Seal, Checkpoint, disk

(* The journal implements the append-only log: an append becomes durable in
   one step, an acknowledgement comes after it, a read shows a prefix, and
   no other step is visible (Journal.ts as a whole, against EventLog). *)
THEOREM JournalImplementsEventLog == LateDirStamps = FALSE => (Spec => ImplementsEventLog)
<1> SUFFICES ASSUME LateDirStamps = FALSE PROVE Spec => ImplementsEventLog
  OBVIOUS
<1>1. Init => Abstract!Init
  BY DEF Init, Abstract!Init
<1>2. IInv /\ [Next]_vars => [Abstract!Next]_Abstract!absVars
  <2> SUFFICES ASSUME IInv, [Next]_vars PROVE AbstractStep
    BY DEF AbstractStep, Abstract!absVars
  <2>1. CASE UNCHANGED vars
    BY <2>1 DEF vars, AbstractStep
  <2>2. ASSUME NEW p \in Procs, Crash(p) PROVE AbstractStep
    <3>1. Abstract!Forget(p)
      BY <2>2 DEF Crash, disk, Abstract!Forget
    <3>2. QED
      BY <3>1 DEF AbstractStep, Abstract!Next
  <2>3. ASSUME NEW p \in Procs, Start(p) PROVE AbstractStep
    BY <2>3 DEF Start, readOnly, disk, AbstractStep
  <2>4. QED
    BY <2>1, <2>2, <2>3, ReaderRefines, WriterRefines DEF Next
<1>3. QED
  BY <1>1, <1>2, Inductive, PTL DEF Spec, ImplementsEventLog, Abstract!Spec
=============================================================================
