-------------------------------- MODULE Caches --------------------------------
(***************************************************************************)
(* What is computed from the history of the journal and kept: the rows of  *)
(* an audit (session/Audit.ts) or of the transcript                        *)
(* (session/TranscriptWorker.ts) in a private database                     *)
(* (session/AuditIndex.ts), and the filters of the search                  *)
(* (session/SearchIndex.ts).  A behaviour is about one of the three.       *)
(*                                                                         *)
(* The journal is a sequence of events cut into sources (archives,         *)
(* segments, the active file).  It grows, rotates and archives while a     *)
(* reader is at work; a restore owns the workspace, so no reader is left.  *)
(* The hash of an event stands for the whole history up to it, so a hash   *)
(* is a prefix of the history.                                             *)
(*                                                                         *)
(* Left out: damage to the rows themselves (their digests are checked when *)
(* they are shown), manifests of older versions, and the sums, which are a *)
(* function of the rows.  A second reader waits or is told "busy".         *)
(***************************************************************************)
EXTENDS Naturals, Sequences, FiniteSets, SequencesExt

CONSTANTS
    Limit,      \* results of a search: 20 in the code
    Length,     \* events (bound)
    Restores,   \* (bound)
    Indices,    \* indices of sources there is room for (bound)
    None

\* What the constants are (assumed where the module is instantiated).
CachesAssumption == {Limit, Length, Restores, Indices} \subseteq Nat /\ Limit > 0

VARIABLE v

vars == v

\* Archives drop the noise; the rest are rows of a page and matches of a search.  Events
\* written before and after a restore are never the same.
Events == {"noise", "kept"} \X (0..Restores)
IsKept(e) == e[1] = "kept"

Upto(h, n) == SubSeq(h, 1, n)

\* An event in its place, as the rows and the results hold it.
Row(h, i) == <<i, h[i]>>
RowsOf(h, from, to) ==
    LET placed == [i \in DOMAIN h |-> Row(h, i)]
    IN SelectSeq(SubSeq(placed, from, to), LAMBDA row : IsKept(row[2]))

\* A source of the history: the stamp stands for the identity and times of its file.
Source == [kind : {"archive", "segment", "active"}, from : 1..Length, to : 1..Length,
           stamp : 0..Restores]
Key(s) == IF s.kind = "active" THEN <<"active">> ELSE <<s.kind, s.from, s.to>>
Fingerprint(s) == <<Key(s), s.to, s.stamp>>

Empty == [rows |-> <<>>, meta |-> None]

TypeOK ==
    /\ v.kind \in {"page", "audit", "search"}
    /\ v.hist \in Seq(Events) /\ Len(v.hist) <= Length
    /\ v.srcs \in Seq(Source)
    /\ \A i \in DOMAIN v.srcs :
        v.srcs[i].from = (IF i = 1 THEN 1 ELSE v.srcs[i - 1].to + 1)
    /\ v.hist # <<>> => Last(v.srcs).to = Len(v.hist)
    /\ v.stamp \in 0..Restores

-----------------------------------------------------------------------------
(* The journal *)

Wrote ==
    LET n == Len(v.hist) + 1
        active == v.srcs # <<>> /\ Last(v.srcs).kind = "active"
    IN IF active THEN [v.srcs EXCEPT ![Len(v.srcs)].to = n]
       ELSE Append(v.srcs, [kind |-> "active", from |-> n, to |-> n, stamp |-> v.stamp])

Write(what) ==
    /\ Len(v.hist) < Length
    /\ v' = [v EXCEPT !.hist = Append(@, <<what, v.stamp>>), !.srcs = Wrote]

Rotate ==
    \E i \in DOMAIN v.srcs :
        v.srcs[i].kind = "active" /\ v' = [v EXCEPT !.srcs[i].kind = "segment"]

Archive ==
    \E i \in DOMAIN v.srcs :
        /\ v.srcs[i].kind = "segment" /\ \A j \in 1..(i - 1) : v.srcs[j].kind = "archive"
        /\ v' = [v EXCEPT !.srcs[i].kind = "archive"]

\* A backup taken at n holds no active file; all files are written anew.
Restored(n) ==
    LET kept == SelectSeq(v.srcs, LAMBDA s : s.from <= n)
    IN [i \in DOMAIN kept |->
            [kept[i] EXCEPT !.stamp = v.stamp + 1,
                            !.to = IF @ > n THEN n ELSE @,
                            !.kind = IF @ = "active" \/ kept[i].to > n THEN "segment" ELSE @]]

Restore(n) ==
    /\ v.r = None /\ v.stamp < Restores /\ n \in 1..Len(v.hist)
    /\ v' = [v EXCEPT !.hist = Upto(@, n), !.srcs = Restored(n), !.stamp = @ + 1]

-----------------------------------------------------------------------------
(* The database: what a reader may take over *)

\* The file of a captured source as it is now: where it starts and ends.
FileNow(s) ==
    LET now == {x \in Range(v.srcs) : Key(x) = Key(s)}
    IN IF now = {} THEN None ELSE CHOOSE x \in now : TRUE

\* The first n events of a raw file, None if it has fewer.
FirstOf(s, n) ==
    LET f == FileNow(s)
    IN IF f = None \/ (f # None /\ f.to - f.from + 1 < n) THEN None
       ELSE SubSeq(v.hist, f.from, f.from + n - 1)

\* A manifest entry against the sources captured now; prev is the hash before it.
Same(old, cap) ==
    \E s \in Range(cap) : Key(s) = old.key /\ s.from = old.from /\ s.to >= old.to
                          /\ Fingerprint(s) = old.fingerprint
SameContent(old, s) ==
    s.kind # "archive" /\ old.content # None /\ FirstOf(s, Len(old.content)) = old.content

SameArchive(old, s, last) ==
    /\ s.kind = "archive" /\ s.to = old.to /\ Upto(last, s.to) = old.last
    /\ FileNow(s) # None
    /\ RowsOf(v.hist, s.from, s.to) = RowsOf(last, s.from, s.to)

SameChain(old, s, prev) ==
    LET f == FileNow(s)
    IN /\ s.kind # "archive" /\ f # None /\ f.from = old.from /\ f.to >= old.to
       /\ Upto(v.hist, old.from - 1) = prev /\ Upto(v.hist, old.to) = old.last

Accepts(old, prev, cap, last) ==
    \/ Same(old, cap)
    \/ \E s \in Range(cap) :
        /\ s.from = old.from /\ s.to >= old.to
        /\ SameContent(old, s) \/ SameArchive(old, s, last) \/ SameChain(old, s, prev)

\* AuditIndex.load: a state that no other history can have left.
Usable(meta, cap, last) ==
    /\ meta # None /\ meta.seq <= Len(last)
    /\ meta.seq = Len(last) => meta.last = last
    /\ \A i \in DOMAIN meta.man :
            Accepts(meta.man[i], IF i = 1 THEN <<>> ELSE meta.man[i - 1].last, cap, last)

Entry(s, to, last, content) ==
    [key |-> Key(s), from |-> s.from, to |-> to, fingerprint |-> Fingerprint(s),
     last |-> last, content |-> content]

-----------------------------------------------------------------------------
(* A reader: one page of the transcript or one audit *)

Open ==
    /\ v.kind # "search" /\ v.r = None /\ v.hist # <<>>
    /\ v' = [v EXCEPT !.r = [step |-> "load", cap |-> v.srcs, last |-> v.hist,
                              todo |-> v.srcs, end |-> v.hist, tx |-> Empty, at |-> 0,
                              prev |-> <<>>, anchors |-> <<>>, saves |-> TRUE]]

\* The anchors are a set of histories: the one that ends at n is the hash at n.
Anchor(r, n) == CHOOSE h \in Range(r.anchors) : Len(h) = n
Anchored(r, n) == \E h \in Range(r.anchors) : Len(h) = n
WithAnchor(r, h) ==
    IF Anchored(r, Len(h))
    THEN [i \in DOMAIN r.anchors |-> IF Len(r.anchors[i]) = Len(h) THEN h ELSE r.anchors[i]]
    ELSE Append(r.anchors, h)

\* The visited history is the captured one; if it is not, nothing will be saved.
Stable(r) == r.end = r.last

\* Taken over, or from nothing; then an audit visits the history as it is by then.
Load ==
    /\ v.r # None /\ v.r.step = "load"
    /\ LET m == v.db.meta
           audit == v.kind = "audit"
           next == [v.r EXCEPT !.step = IF audit THEN "begin" ELSE "visit"]
       IN IF Usable(m, v.r.cap, v.r.last)
          THEN v' = [v EXCEPT !.r = [next EXCEPT !.tx = v.db, !.at = m.seq, !.prev = m.last,
                                        !.todo = SelectSeq(@, LAMBDA s : s.to > m.seq),
                                        !.anchors = [i \in DOMAIN m.man |-> m.man[i].last]]]
          ELSE v' = [v EXCEPT !.r = next]

Begin ==
    /\ v.r # None /\ v.r.step = "begin"
    /\ LET r == [v.r EXCEPT !.step = "visit", !.end = v.hist,
                    !.todo = SelectSeq(v.srcs, LAMBDA s : s.to > v.r.at)]
       IN v' = [v EXCEPT !.r = IF Stable(r) THEN r ELSE [r EXCEPT !.cap = <<>>, !.last = <<>>]]

Visiting == v.r # None /\ v.r.step = "visit"

\* A reader that fails leaves the database as it last committed it.
Fails == v' = [v EXCEPT !.r = None]

\* sourceFor: the source that holds the requested range now (there is one: sources grow
\* and change their kind, and only a restore takes them away).
Holding(s) == {x \in Range(v.srcs) : x.from <= s.from /\ x.to >= s.to}

Reads(r, to) == [r.tx EXCEPT !.rows = @ \o RowsOf(v.hist, r.at + 1, to)]

\* The sources a checkpoint at n covers, the last one perhaps in part.
Covered(r, n) ==
    LET some == SelectSeq(r.cap, LAMBDA s : s.from <= n)
    IN [i \in DOMAIN some |->
            LET to == IF some[i].to <= n THEN some[i].to ELSE n
            IN Entry(some[i], to, Anchor(r, to), None)]

Built(r, h) == [seq |-> Len(h), last |-> h, man |-> Covered(r, Len(h))]

\* Read up to n, where the hash is h.
Past(r, n, h) ==
    [r EXCEPT !.tx = Reads(r, n), !.at = n, !.anchors = WithAnchor(r, h),
              !.todo = SelectSeq(@, LAMBDA s : s.to > n)]

\* Only a page saves what it has, if the quota allows; without room it goes on.
MayCheckpoint(r, h) ==
    \/ v' = [v EXCEPT !.r = r]
    \/ /\ v.kind = "page" /\ Len(h) < Len(r.last) /\ r.saves
       /\ LET saved == [r EXCEPT !.tx.meta = Built(r, h)]
          IN \/ v' = [v EXCEPT !.r = saved, !.db = saved.tx]
             \/ v' = [v EXCEPT !.r = [saved EXCEPT !.saves = FALSE]]

\* Part of an archive, up to one of its events.
ReadChunk ==
    /\ Visiting /\ v.kind = "page" /\ v.r.todo # <<>>
    /\ LET s == Head(v.r.todo)
       IN \E x \in Holding(s), n \in (v.r.at + 1)..(s.to - 1) :
            /\ x.kind = "archive" /\ n >= s.from /\ IsKept(v.hist[n])
            /\ MayCheckpoint(Past(v.r, n, Upto(v.hist, n)), Upto(v.hist, n))

\* The rest of a source.  Raw events must be chained to what was read before them, and are;
\* an archive is not chained, and says nothing of the hash inside it.
ReadSource ==
    /\ Visiting /\ v.r.todo # <<>>
    /\ LET s == Head(v.r.todo)
           h == Upto(v.hist, s.to)
           over == Past(v.r, s.to, h)
       IN \E x \in Holding(s) :
            \/ /\ x.kind = "archive" /\ x.to # s.to
               /\ v' = [v EXCEPT !.r = [over EXCEPT !.prev = None, !.anchors = v.r.anchors]]
            \/ /\ IF x.kind = "archive" THEN x.to = s.to ELSE v.r.prev = Upto(v.hist, v.r.at)
               /\ MayCheckpoint([over EXCEPT !.prev = h], h)

\* What is saved at the end describes the captured sources; of the active file it holds
\* the content, read now.
Contents(r) ==
    [i \in DOMAIN r.cap |->
        IF r.cap[i].kind = "active" THEN FirstOf(r.cap[i], r.cap[i].to - r.cap[i].from + 1)
        ELSE None]
Complete(r) ==
    [seq |-> Len(r.end), last |-> r.end,
     man |-> [i \in DOMAIN r.cap |->
                Entry(r.cap[i], r.cap[i].to, Anchor(r, r.cap[i].to), Contents(r)[i])]]

\* Shown, and committed if it is stable; over the quota the database is emptied.
Finish ==
    /\ Visiting /\ v.r.todo = <<>>
    /\ LET unreadable == \E i \in DOMAIN v.r.cap :
                v.r.cap[i].kind = "active" /\ Contents(v.r)[i] = None
           shown == [step |-> "shown", rows |-> v.r.tx.rows, end |-> v.r.end]
       IN IF v.r.prev # v.r.end \/ (Stable(v.r) /\ unreadable) THEN Fails
          ELSE IF ~Stable(v.r) THEN v' = [v EXCEPT !.r = shown]
          ELSE \E db \in {[v.r.tx EXCEPT !.meta = Complete(v.r)], Empty} :
                    v' = [v EXCEPT !.r = shown, !.db = db]

-----------------------------------------------------------------------------
(* The search *)

\* The index of a source that does not change any more, and what it pushes out.
Indexed(s) ==
    [key |-> Key(s), fingerprint |-> Fingerprint(s),
     rows |-> {i \in s.from..s.to : IsKept(v.hist[i])}]

Index ==
    /\ v.kind = "search"
    /\ \E s \in Range(v.srcs) :
        /\ s.kind # "active"
        /\ \E kept \in SUBSET {x \in v.db : x.key # Key(s)} :
            Cardinality(kept) < Indices /\ v' = [v EXCEPT !.db = kept \cup {Indexed(s)}]

\* Mutant of IndexOf: a source of that name, of whatever history.
IndexByName(s) == {x \in v.db : x.key = Key(s)}

IndexOf(s) == {x \in v.db : x.key = Key(s) /\ x.fingerprint = Fingerprint(s)}

\* A source is left out when its filter says so; filters have false positives.
Plan ==
    /\ v.kind = "search" /\ v.r = None /\ v.hist # <<>>
    /\ \E skipped \in SUBSET {s \in Range(v.srcs) : \E x \in IndexOf(s) : x.rows = {}} :
        v' = [v EXCEPT !.r = [step |-> "search", last |-> v.hist, rows |-> {},
                    todo |-> Reverse(SelectSeq(v.srcs, LAMBDA s : s \notin skipped))]]

\* The candidates of a source, checked against its text and the end of the search.
Matches(x) ==
    LET rows == IF IndexOf(x) = {} THEN x.from..x.to ELSE UNION {y.rows : y \in IndexOf(x)}
    IN {i \in rows \cap DOMAIN v.hist : IsKept(v.hist[i]) /\ i <= Len(v.r.last)}
Newest(S, n) == {i \in S : Cardinality({j \in S : j > i}) < n}

SearchSource ==
    /\ v.r # None /\ v.r.step = "search"
    /\ \/ /\ v.r.todo = <<>> \/ Cardinality(v.r.rows) = Limit
          /\ v' = [v EXCEPT !.r.step = "shown"]
       \/ /\ v.r.todo # <<>> /\ Cardinality(v.r.rows) < Limit
          /\ \E x \in Holding(Head(v.r.todo)) :
                v' = [v EXCEPT !.r.todo = Tail(@),
                        !.r.rows = @ \cup Newest(Matches(x), Limit - Cardinality(@))]

-----------------------------------------------------------------------------

\* The reader closes, or its process dies.
Close == v.r # None /\ Fails

Init ==
    \E kind \in {"page", "audit", "search"} :
        v = [kind |-> kind, hist |-> <<>>, srcs |-> <<>>, stamp |-> 0, r |-> None,
             db |-> IF kind = "search" THEN {} ELSE Empty]

Journal ==
    \/ \E what \in {"noise", "kept"} : Write(what)
    \/ Rotate \/ Archive
    \/ \E n \in 1..Length : Restore(n)
Reader == Open \/ Load \/ Begin \/ ReadChunk \/ ReadSource \/ Finish \/ Close
Search == Index \/ Plan \/ SearchSource

Next == Journal \/ Reader \/ Search

Spec == Init /\ [][Next]_vars

-----------------------------------------------------------------------------

\* A page or an audit shows each event of its history once and in order, as a reader without
\* a database would, whatever it took over (session/AuditIndex.ts, session/Audit.ts,
\* session/TranscriptWorker.ts).
ShownIsReplay ==
    v.kind # "search" /\ v.r # None /\ v.r.step = "shown"
        => v.r.rows = RowsOf(v.r.end, 1, Len(v.r.end))

\* A search finds the latest matches of the history it began with (session/SearchIndex.ts, session/Journal.ts search).
SearchIsComplete ==
    v.kind = "search" /\ v.r # None /\ v.r.step = "shown"
        => v.r.rows = Newest({i \in DOMAIN v.r.last : IsKept(v.r.last[i])}, Limit)

=============================================================================
