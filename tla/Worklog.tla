------------------------------- MODULE Worklog -------------------------------
(***************************************************************************)
(* From the session journal to the reports of an employee's work: the      *)
(* capture of work events with a cursor and private intervals              *)
(* (worklog/RelayCapture.ts, worklog/Store.ts), their upload               *)
(* (worklog/Delivery.ts, worklog/Ingestion.ts), and the secretary process  *)
(* that generates a daily and a weekly report (worklog/Service.ts,         *)
(* worklog/Reports.ts).  What happens to a report then is in module        *)
(* Publisher, which appears here as employee edits that are recorded while *)
(* anything else runs (another process may be publishing).                 *)
(*                                                                         *)
(* Without a cursor a collector passes what was written before its process *)
(* started (the command line: before the call), unless it is told to look  *)
(* back.  first is that moment of the capture that wrote the first cursor, *)
(* which no later one changes; blank tells that this scan is not over.     *)
(*                                                                         *)
(* One day of one week, one employee; journal entries are work events and  *)
(* are numbered by the moment they were written.  A moment is one entry or *)
(* one change of the pause.  Left out: scopes and artifacts, titles, the   *)
(* model that orders the evidence, damaged records, and the clock at which *)
(* a report is due.                                                        *)
(***************************************************************************)
EXTENDS Naturals, FiniteSets

CONSTANTS
    Moments,    \* moments of the session (bound)
    Batch,      \* events of one upload: 100 in the code
    Tries,      \* uploads of one event: 10 in the code
    Edits,      \* edits of the employee to the daily report
    Failures,   \* failed uploads and deaths of the secretary (bound)
    Seekers,    \* the service and the command line, which generate
    None

\* What the constants are (assumed where the module is instantiated).
WorklogAssumption ==
    /\ {Moments, Batch, Tries, Failures} \subseteq Nat
    /\ Seekers = {"service", "cli"}
    /\ None \notin Nat \cup {"sent"}

VARIABLE w
worklogVars == <<w>>

Events == 1..Moments
Reports == {"daily", "weekly"}
Basis == [events : SUBSET Events, edits : SUBSET Edits]
NoReport == [events |-> {}, edits |-> {}]

TypeOK ==
    /\ {w.now, w.cursor, w.started, w.first} \subseteq 0..Moments /\ w.blank \in BOOLEAN
    /\ {w.journal, w.kept, w.dirty, w.server} \subseteq SUBSET Events
    /\ w.pause \in {None} \cup Events
    /\ w.private \subseteq Events \X Events
    /\ w.sent \in [Events -> {None, "pending", "sent", "manual"}]
    /\ w.tries \in [Events -> 0..Tries]
    /\ {w.pending, w.queue, w.fresh, w.made} \subseteq SUBSET Reports
    /\ w.report \in [Reports -> Basis] /\ w.edits \subseteq Edits

-----------------------------------------------------------------------------
(* The client *)

Tick(v) == [v EXCEPT !.now = @ + 1]

\* The journal records something: it is work, whatever the pause.
Journals ==
    /\ w.now < Moments
    /\ w' = [Tick(w) EXCEPT !.journal = @ \cup {w.now + 1},
                            !.secret = IF w.pause # None THEN @ \cup {w.now + 1} ELSE @]

Pauses ==
    /\ w.now < Moments /\ w.pause = None
    /\ w' = [Tick(w) EXCEPT !.pause = w.now + 1]

\* The interval is noted when it ends, in the transaction that ends it.
Resumes ==
    /\ w.now < Moments /\ w.pause # None
    /\ w' = [Tick(w) EXCEPT !.pause = None, !.private = @ \cup {<<w.pause, w.now + 1>>}]

Private(v, e) == v.pause # None \/ \E i \in v.private : i[1] <= e /\ e <= i[2]

\* The next process of the session; the one before may have died at any moment.  Its start
\* counts while there is no cursor, or a first scan under way that dies with its process.
Starts ==
    /\ w.blank \/ (w.cursor = 0 /\ w.started # w.now)
    /\ w' = [w EXCEPT !.started = w.now, !.blank = FALSE]

\* capture, source by source: the events, their upload and the cursor in one transaction.
\* The scan that finds no cursor looks at nothing up to moment since: the start of the
\* process, now for the command line, 0 when it looks back; rest: it has more sources.
Scan(upTo, since, rest) ==
    /\ upTo \in (w.cursor + 1)..w.now /\ since \in {w.started, w.now, 0}
    /\ rest => upTo < w.now /\ (w.cursor = 0 \/ w.blank)
    /\ LET first == IF w.cursor = 0 THEN since ELSE w.first
           read  == {e \in w.journal : w.cursor < e /\ e <= upTo
                                      /\ (w.cursor = 0 \/ w.blank => first < e)}
           fresh == {e \in read : ~Private(w, e)}
       IN w' = [w EXCEPT !.cursor = upTo, !.kept = @ \cup fresh, !.first = first, !.blank = rest,
                         !.sent = [e \in Events |-> IF e \in fresh THEN "pending" ELSE @[e]],
                         !.skipped = IF w.pause # None THEN @ \cup read ELSE @]

\* deliver: the oldest events, all or none; an answer may be lost.
Sending == {e \in Events : w.sent[e] = "pending"
                           /\ Cardinality({d \in 1..e : w.sent[d] = "pending"}) <= Batch}
Accepts(v, S) == [v EXCEPT !.server = @ \cup S, !.dirty = @ \cup (S \ v.server)]

Uploads ==
    /\ Sending # {}
    /\ w' = [Accepts(w, Sending) EXCEPT
                !.sent = [e \in Events |-> IF e \in Sending THEN "sent" ELSE @[e]]]

UploadFails(reached) ==
    /\ Sending # {} /\ w.failures < Failures
    /\ LET v == IF reached THEN Accepts(w, Sending) ELSE w
       IN w' = [v EXCEPT !.failures = @ + 1,
            !.sent = [e \in Events |-> IF e \in Sending /\ w.tries[e] + 1 >= Tries
                                       THEN "manual" ELSE @[e]],
            !.tries = [e \in Events |-> IF e \in Sending THEN @[e] + 1 ELSE @[e]]]

-----------------------------------------------------------------------------
(* The secretary *)

\* touchPeriod: what has been touched since the service's queue was read is not fresh in it
\* (its generation has changed).
Touch(v, S) == [v EXCEPT !.pending = @ \cup S, !.fresh = @ \ S]

\* A recorded edit of the daily report concerns the weekly one, in the same transaction.
Edited(e) ==
    /\ "daily" \in w.made /\ e \notin w.edits
    /\ w' = Touch([w EXCEPT !.edits = @ \cup {e}], {"weekly"})

\* A round of the service turns new events into periods and reads the queue of periods.
Round ==
    /\ w.gen["service"].at = "idle"
    /\ w.dirty # {} \/ w.pending # w.queue \/ w.fresh # w.queue
    /\ LET v == IF w.dirty = {} THEN w ELSE Touch([w EXCEPT !.dirty = {}], Reports)
       IN w' = [v EXCEPT !.queue = v.pending, !.fresh = v.pending]

\* A period of the queue that is due.
Picks(r) ==
    /\ w.gen["service"].at = "idle" /\ r \in w.queue
    /\ w' = [w EXCEPT !.queue = @ \ {r},
                      !.gen["service"] = [at |-> "lease", report |-> r, basis |-> NoReport]]

\* The command line generates any report.
Asks(r) ==
    /\ w.gen["cli"].at = "idle"
    /\ w' = [w EXCEPT !.gen["cli"] = [at |-> "lease", report |-> r, basis |-> NoReport]]

Input(v, r) == [events |-> v.server, edits |-> IF r = "weekly" THEN v.edits ELSE {}]
Idle == [at |-> "idle", report |-> "daily", basis |-> NoReport]
\* An error or a death ends the round, and its queue.
Stop(v, s) == [v EXCEPT !.gen[s] = Idle,
                        !.queue = IF s = "service" THEN {} ELSE @,
                        !.fresh = IF s = "service" THEN {} ELSE @]

\* Mutant of Done: the generation of the period is not compared.
DoneAnyway(v, s) ==
    [v EXCEPT !.gen[s] = Idle,
              !.pending = IF s = "service" THEN @ \ {v.gen[s].report} ELSE @,
              !.fresh = IF s = "service" THEN @ \ {v.gen[s].report} ELSE @]

\* The service marks the period done unless it was touched since the queue was read.
Done(v, s) ==
    LET r == v.gen[s].report
    IN [v EXCEPT !.gen[s] = Idle,
                 !.pending = IF s = "service" /\ r \in v.fresh THEN @ \ {r} ELSE @,
                 !.fresh = IF s = "service" THEN @ \ {r} ELSE @]

\* build: the evidence is read; a report of the same evidence stays as it is.
Reads(s) ==
    LET g == w.gen[s] IN
    /\ g.at = "lease"
    /\ \A o \in Seekers : w.gen[o].at = "model" => w.gen[o].report # g.report
    /\ w' = IF g.report \in w.made /\ w.report[g.report] = Input(w, g.report)
            THEN Done(w, s)
            ELSE [w EXCEPT !.gen[s].at = "model", !.gen[s].basis = Input(w, g.report)]

\* Another generator has the lease: an error.
Refused(s) ==
    LET g == w.gen[s] IN
    /\ g.at = "lease"
    /\ \E o \in Seekers : w.gen[o].at = "model" /\ w.gen[o].report = g.report
    /\ w' = Stop(w, s)

\* The model has answered, or not: the report is saved with the evidence read before.
Saves(s) ==
    LET g == w.gen[s] IN
    /\ g.at = "model"
    /\ w' = Done([w EXCEPT !.report[g.report] = g.basis, !.made = @ \cup {g.report}], s)

\* The process dies, or a round fails; the lease of a dead owner is taken over.
Dies(s) ==
    /\ w.gen[s].at # "idle" /\ w.failures < Failures
    /\ w' = Stop([w EXCEPT !.failures = @ + 1], s)

Init ==
    w = [now |-> 0, journal |-> {}, secret |-> {}, skipped |-> {}, pause |-> None,
         started |-> 0, first |-> 0, blank |-> FALSE, private |-> {}, cursor |-> 0, kept |-> {}, sent |-> [e \in Events |-> None],
         tries |-> [e \in Events |-> 0], server |-> {}, dirty |-> {}, pending |-> {},
         queue |-> {}, fresh |-> {}, report |-> [r \in Reports |-> NoReport], made |-> {},
         edits |-> {}, gen |-> [s \in Seekers |-> Idle], failures |-> 0]

Next ==
    \/ Journals \/ Pauses \/ Resumes
    \/ Starts
    \/ \E n \in Events, since \in 0..Moments, rest \in BOOLEAN : Scan(n, since, rest)
    \/ Uploads
    \/ \E reached \in BOOLEAN : UploadFails(reached)
    \/ \E e \in Edits : Edited(e)
    \/ Round
    \/ \E r \in Reports : Picks(r) \/ Asks(r)
    \/ \E s \in Seekers : Reads(s) \/ Refused(s) \/ Saves(s) \/ Dies(s)

Spec == Init /\ [][Next]_worklogVars

-----------------------------------------------------------------------------
(* Properties *)

\* Whatever arrives while a report is being written, what the newest reports do not contain
\* is still noted: an event as new, or its report as pending; an edit as a pending weekly.
NothingUnreported ==
    \A r \in Reports :
        \/ r \in w.pending
        \/ /\ w.server \subseteq w.report[r].events \cup w.dirty
           /\ r = "weekly" => w.edits \subseteq w.report[r].edits

\* Work that the cursor has passed is kept unless it was written or read during a pause, or
\* before the process started that wrote the first cursor; what was written during a pause is
\* never kept; an upload that counts as sent has arrived.
CaptureIsExact ==
    LET passed == {e \in w.journal : e <= w.cursor} \ (w.secret \cup w.skipped)
    IN /\ {e \in passed : w.first < e} \subseteq w.kept
       /\ w.kept \subseteq passed
       /\ {e \in Events : w.sent[e] = "sent"} \subseteq w.server
=============================================================================
