---------------------------- MODULE ServicesProofs ----------------------------
(***************************************************************************)
(* Proofs about seven of the services of MCServices: the work log (module  *)
(* Worklog), the publication of its reports (module Publisher), the memory *)
(* of an agent (module Memory), the connection to Feishu (module Socket),  *)
(* the base agent of a conversation and its forks (module Forks), the card *)
(* of an answer (module Cards) and the lock of the journal and of a        *)
(* workspace's owner (module Locks).  Of MCServices' next-state relation   *)
(* each proof uses that one service steps while the others stand still.    *)
(***************************************************************************)
EXTENDS MCServices, Sequences, TLAPS, FiniteSetTheorems, SequenceTheorems,
        WellFoundedInduction

-----------------------------------------------------------------------------

\* The types of the work log.
WorklogRecords ==
    [now : Nat, journal : SUBSET Nat, secret : SUBSET Nat, skipped : SUBSET Nat,
     pause : Nat \cup {None}, private : SUBSET (Nat \X Nat), cursor : Nat, kept : SUBSET Nat,
     started : Nat, first : Nat, blank : BOOLEAN,
     sent : [Worklog!Events -> {None, "pending", "sent", "manual"}],
     tries : [Worklog!Events -> Nat], server : SUBSET Nat, dirty : SUBSET Nat,
     pending : SUBSET Worklog!Reports, queue : SUBSET Worklog!Reports,
     fresh : SUBSET Worklog!Reports,
     report : [Worklog!Reports -> [events : SUBSET Nat, edits : SUBSET Edits]],
     made : SUBSET Worklog!Reports, edits : SUBSET Edits,
     gen : [Seekers -> [at : {"idle", "lease", "model"}, report : Worklog!Reports,
                        basis : [events : SUBSET Nat, edits : SUBSET Edits]]],
     failures : Nat]

\* Event e was recorded in a pause that is over.
Hidden(e) == \E i \in w.private : i[1] <= e /\ e <= i[2]

\* The clock is ahead of all that is recorded, and an event is secret exactly
\* if a pause, over or not, holds it.
PausesAreSecret ==
    /\ w.cursor <= w.now
    /\ w.secret \subseteq w.journal
    /\ \A e \in w.journal : 1 <= e /\ e <= w.now
    /\ \A e \in w.skipped : e <= w.cursor
    /\ w.pause # None => w.pause <= w.now
    /\ \A i \in w.private : i[2] <= w.now
    /\ \A e \in w.journal : e \in w.secret <=> Hidden(e) \/ (w.pause # None /\ w.pause <= e)

\* What a report was written from holds all the server has but what was marked
\* for it since; the weekly one all the edits too.
Covered(r, b) ==
    w.server \subseteq b.events \cup w.dirty /\ (r = "weekly" => w.edits \subseteq b.edits)

\* A report being written covers what is there, or has been asked for again; and
\* the service and the CLI do not write the same one.
WritersAreNoted ==
    /\ \A s \in Seekers : w.gen[s].at = "model" =>
        \/ Covered(w.gen[s].report, w.gen[s].basis)
        \/ w.gen[s].report \in w.pending /\ (s = "service" => w.gen[s].report \notin w.fresh)
    /\ w.gen["service"].at = "model" /\ w.gen["cli"].at = "model" =>
        w.gen["service"].report # w.gen["cli"].report

\* The inductive invariant of the work log.
WorklogInv ==
    /\ w \in WorklogRecords
    /\ PausesAreSecret /\ Worklog!CaptureIsExact
    /\ WritersAreNoted /\ Worklog!NothingUnreported

\* A step of the secretary leaves what the scanner works on.
CaptureKept ==
    /\ w'.now = w.now /\ w'.journal = w.journal /\ w'.secret = w.secret
    /\ w'.skipped = w.skipped /\ w'.pause = w.pause /\ w'.private = w.private
    /\ w'.cursor = w.cursor /\ w'.kept = w.kept /\ w'.first = w.first

\* A step of the scanner leaves what the secretary works on.
SecretaryKept ==
    /\ w'.server = w.server /\ w'.dirty = w.dirty /\ w'.pending = w.pending
    /\ w'.fresh = w.fresh /\ w'.report = w.report /\ w'.edits = w.edits /\ w'.gen = w.gen

\* Event e is behind the cursor and was neither written nor read in a pause.
Passed(e) == e \in w.journal /\ e <= w.cursor /\ e \notin w.secret /\ e \notin w.skipped

\* What CaptureIsExact says, event by event.
LEMMA CaptureIs ==
    Worklog!CaptureIsExact <=>
        /\ \A e : Passed(e) /\ w.first < e => e \in w.kept
        /\ \A e : e \in w.kept => Passed(e)
        /\ \A e \in Worklog!Events : w.sent[e] = "sent" => e \in w.server
BY DEF Worklog!CaptureIsExact, Passed

LEMMA CaptureIsNext ==
    Worklog!CaptureIsExact' <=>
        /\ \A e : Passed(e)' /\ w'.first < e => e \in w'.kept
        /\ \A e : e \in w'.kept => Passed(e)'
        /\ \A e \in Worklog!Events : w'.sent[e] = "sent" => e \in w'.server
BY DEF Worklog!CaptureIsExact, Passed

\* The half of the invariant about capture, under a step of the secretary.
LEMMA CaptureFrame ==
    ASSUME WorklogInv, CaptureKept, w'.sent = w.sent, w'.server = w.server
    PROVE  PausesAreSecret' /\ Worklog!CaptureIsExact'
BY DEF WorklogInv, CaptureKept, PausesAreSecret, Hidden, Worklog!CaptureIsExact

\* The half of the invariant about reports, under a step of the scanner.
LEMMA SecretaryFrame ==
    ASSUME WorklogInv, SecretaryKept
    PROVE  WritersAreNoted' /\ Worklog!NothingUnreported'
BY DEF WorklogInv, SecretaryKept, WritersAreNoted, Covered, Worklog!NothingUnreported

\* The invariant holds of an empty log.
LEMMA WorklogStarts ==
    ASSUME Worklog!Init, ServicesAssumption PROVE WorklogInv
<1> USE DEF Worklog!Init
<1>1. w \in WorklogRecords
  BY DEF WorklogRecords, Worklog!NoReport, Worklog!Idle, Worklog!Reports
<1>2. PausesAreSecret /\ Worklog!CaptureIsExact
  BY CaptureIs DEF PausesAreSecret, Hidden, Passed, ServicesAssumption,
     Worklog!WorklogAssumption
<1>3. WritersAreNoted /\ Worklog!NothingUnreported
  BY DEF WritersAreNoted, Worklog!NothingUnreported, Worklog!Idle, Worklog!NoReport,
     Worklog!Reports,
         ServicesAssumption, Worklog!WorklogAssumption
<1> QED BY <1>1, <1>2, <1>3 DEF WorklogInv

\* Journal, pause, resume and scan keep the invariant: the scanner decides an
\* event by the pauses it knows, and an event is never older than its pause.
LEMMA ClientStep ==
    ASSUME ServicesAssumption, WorklogInv,
           \/ Worklog!Journals \/ Worklog!Pauses \/ Worklog!Resumes \/ Worklog!Starts
           \/ \E n \in Worklog!Events, since \in 0..Moments, rest \in BOOLEAN :
                Worklog!Scan(n, since, rest)
    PROVE  WorklogInv'
<1> USE DEF ServicesAssumption, Worklog!WorklogAssumption
<1>1. CASE Worklog!Journals
  <2> DEFINE now2 == w.now + 1
             journal2 == w.journal \cup {w.now + 1}
             secret2 == IF w.pause # None THEN w.secret \cup {w.now + 1} ELSE w.secret
  <2>1. w' = [w EXCEPT !.now = now2, !.journal = journal2, !.secret = secret2]
    BY <1>1 DEF Worklog!Journals, Worklog!Tick, WorklogInv, WorklogRecords
  <2>2. now2 \in Nat /\ journal2 \in SUBSET Nat /\ secret2 \in SUBSET Nat
    BY <1>1 DEF WorklogInv, WorklogRecords, Worklog!Journals
  <2>3. w' \in WorklogRecords /\ SecretaryKept
    <3> HIDE DEF now2, journal2, secret2
    <3>1. w' \in WorklogRecords
      BY <2>1, <2>2 DEF WorklogInv, WorklogRecords
    <3> QED BY <3>1, <2>1 DEF WorklogInv, WorklogRecords, SecretaryKept
  <2>4. w'.now = now2 /\ w'.journal = journal2 /\ w'.secret = secret2 /\ w'.skipped = w.skipped
          /\ w'.pause = w.pause /\ w'.private = w.private /\ w'.cursor = w.cursor
          /\ w'.first = w.first /\ w'.kept = w.kept /\ w'.sent = w.sent /\ w'.server = w.server
    <3> HIDE DEF now2, journal2, secret2
    <3> QED BY <2>1 DEF WorklogInv, WorklogRecords
  <2>5. w.now \in Nat /\ w.journal \subseteq Nat /\ w.skipped \subseteq Nat
          /\ w.private \subseteq Nat \X Nat /\ w.cursor \in Nat
        /\ w.pause \in Nat \cup {None}
    BY DEF WorklogInv, WorklogRecords
  <2>6. PausesAreSecret'
    BY <1>1, <2>4, <2>5 DEF WorklogInv, PausesAreSecret, Hidden, Worklog!Journals
  <2>7. Worklog!CaptureIsExact'
    <3>1. \A e : Passed(e)' <=> Passed(e)
      BY <2>4, <2>5 DEF WorklogInv, PausesAreSecret, Passed
    <3> QED BY <3>1, <2>4, CaptureIs, CaptureIsNext DEF WorklogInv
  <2> QED BY <2>3, <2>6, <2>7, SecretaryFrame DEF WorklogInv
<1>2. CASE Worklog!Pauses
  <2> DEFINE now2 == w.now + 1
             pause2 == w.now + 1
  <2>1. w' = [w EXCEPT !.now = now2, !.pause = pause2]
    BY <1>2 DEF Worklog!Pauses, Worklog!Tick, WorklogInv, WorklogRecords
  <2>2. now2 \in Nat /\ pause2 \in Nat \cup {None}
    BY <1>2 DEF WorklogInv, WorklogRecords, Worklog!Pauses
  <2>3. w' \in WorklogRecords /\ SecretaryKept
    <3> HIDE DEF now2, pause2
    <3>1. w' \in WorklogRecords
      BY <2>1, <2>2 DEF WorklogInv, WorklogRecords
    <3> QED BY <3>1, <2>1 DEF WorklogInv, WorklogRecords, SecretaryKept
  <2>4. w'.now = now2 /\ w'.journal = w.journal /\ w'.secret = w.secret /\ w'.skipped = w.skipped
          /\ w'.pause = pause2 /\ w'.private = w.private /\ w'.cursor = w.cursor
          /\ w'.first = w.first /\ w'.kept = w.kept /\ w'.sent = w.sent /\ w'.server = w.server
    <3> HIDE DEF now2, pause2
    <3> QED BY <2>1 DEF WorklogInv, WorklogRecords
  <2>5. w.now \in Nat /\ w.journal \subseteq Nat /\ w.skipped \subseteq Nat
          /\ w.private \subseteq Nat \X Nat /\ w.cursor \in Nat
        /\ w.pause \in Nat \cup {None}
    BY DEF WorklogInv, WorklogRecords
  <2>6. PausesAreSecret'
    BY <1>2, <2>4, <2>5 DEF WorklogInv, PausesAreSecret, Hidden, Worklog!Pauses
  <2>7. Worklog!CaptureIsExact'
    <3>1. \A e : Passed(e)' <=> Passed(e)
      BY <2>4, <2>5 DEF WorklogInv, PausesAreSecret, Passed
    <3> QED BY <3>1, <2>4, CaptureIs, CaptureIsNext DEF WorklogInv
  <2> QED BY <2>3, <2>6, <2>7, SecretaryFrame DEF WorklogInv
<1>3. CASE Worklog!Resumes
  <2> DEFINE now2 == w.now + 1
             pause2 == None
             private2 == w.private \cup {<<w.pause, w.now + 1>>}
  <2>1. w' = [w EXCEPT !.now = now2, !.pause = pause2, !.private = private2]
    BY <1>3 DEF Worklog!Resumes, Worklog!Tick, WorklogInv, WorklogRecords
  <2>2. now2 \in Nat /\ pause2 \in Nat \cup {None} /\ private2 \in SUBSET (Nat \X Nat)
    BY <1>3 DEF WorklogInv, WorklogRecords, Worklog!Resumes
  <2>3. w' \in WorklogRecords /\ SecretaryKept
    <3> HIDE DEF now2, pause2, private2
    <3>1. w' \in WorklogRecords
      BY <2>1, <2>2 DEF WorklogInv, WorklogRecords
    <3> QED BY <3>1, <2>1 DEF WorklogInv, WorklogRecords, SecretaryKept
  <2>4. w'.now = now2 /\ w'.journal = w.journal /\ w'.secret = w.secret /\ w'.skipped = w.skipped
          /\ w'.pause = pause2 /\ w'.private = private2 /\ w'.cursor = w.cursor
          /\ w'.first = w.first /\ w'.kept = w.kept /\ w'.sent = w.sent /\ w'.server = w.server
    <3> HIDE DEF now2, pause2, private2
    <3> QED BY <2>1 DEF WorklogInv, WorklogRecords
  <2>5. w.now \in Nat /\ w.journal \subseteq Nat /\ w.skipped \subseteq Nat
          /\ w.private \subseteq Nat \X Nat /\ w.cursor \in Nat
        /\ w.pause \in Nat \cup {None}
    BY DEF WorklogInv, WorklogRecords
  <2>6. PausesAreSecret'
    <3>1. w.pause \in Nat
      BY <1>3, <2>5 DEF Worklog!Resumes
    <3>2. \A e \in Nat : Hidden(e)' <=> Hidden(e) \/ (w.pause <= e /\ e <= w.now + 1)
      <4> DEFINE last == <<w.pause, w.now + 1>>
      <4>1. last[1] = w.pause /\ last[2] = w.now + 1
        OBVIOUS
      <4>2. \A i : i \in w'.private <=> i \in w.private \/ i = last
        BY <2>4
      <4> HIDE DEF last
      <4> QED BY <4>1, <4>2 DEF Hidden
    <3>3. \A i \in w'.private : i[2] <= w.now + 1
      BY <2>4, <2>5, <3>1 DEF WorklogInv, PausesAreSecret
    <3>4. \A e \in w.journal : e \in w.secret <=> Hidden(e)'
      BY <2>5, <3>1, <3>2 DEF WorklogInv, PausesAreSecret
    <3> QED BY <1>3, <2>4, <2>5, <3>3, <3>4 DEF WorklogInv, PausesAreSecret, Worklog!Resumes
  <2>7. Worklog!CaptureIsExact'
    <3>1. \A e : Passed(e)' <=> Passed(e)
      BY <2>4, <2>5 DEF WorklogInv, PausesAreSecret, Passed
    <3> QED BY <3>1, <2>4, CaptureIs, CaptureIsNext DEF WorklogInv
  <2> QED BY <2>3, <2>6, <2>7, SecretaryFrame DEF WorklogInv
<1>4. ASSUME NEW n \in Worklog!Events, NEW since \in 0..Moments, NEW rest \in BOOLEAN,
             Worklog!Scan(n, since, rest)
      PROVE  WorklogInv'
  <2> DEFINE first2 == IF w.cursor = 0 THEN since ELSE w.first
             read == {e \in w.journal : w.cursor < e /\ e <= n
                                       /\ (w.cursor = 0 \/ w.blank => first2 < e)}
             fresh == {e \in read : ~Worklog!Private(w, e)}
             skipped2 == IF w.pause # None THEN w.skipped \cup read ELSE w.skipped
             sent2 == [e \in Worklog!Events |-> IF e \in fresh THEN "pending" ELSE w.sent[e]]
  <2>1. n \in Nat /\ w.cursor < n /\ n <= w.now
    <3>1. w.cursor \in Nat /\ w.now \in Nat
      BY DEF WorklogInv, WorklogRecords
    <3>2. n \in (w.cursor + 1)..w.now
      BY <1>4 DEF Worklog!Scan
    <3> QED BY <3>1, <3>2
  <2>2. w' = [w EXCEPT !.cursor = n, !.kept = w.kept \cup fresh, !.first = first2,
                       !.blank = rest, !.sent = sent2, !.skipped = skipped2]
    BY <1>4 DEF Worklog!Scan, WorklogInv, WorklogRecords
  <2>3. w.now \in Nat /\ w.journal \subseteq Nat /\ w.skipped \subseteq Nat
          /\ w.private \subseteq Nat \X Nat /\ w.cursor \in Nat
        /\ w.pause \in Nat \cup {None} /\ w.kept \subseteq Nat /\ w.first \in Nat
        /\ w.sent \in [Worklog!Events -> {None, "pending", "sent", "manual"}]
    BY DEF WorklogInv, WorklogRecords
  <2>4. first2 \in Nat /\ (w.cursor # 0 => first2 = w.first)
    BY <2>3
  <2>5. \A e : e \in read <=> e \in w.journal /\ w.cursor < e /\ e <= n
                              /\ (w.cursor = 0 \/ w.blank => first2 < e)
    OBVIOUS
  <2>6. \A e : e \in fresh <=> e \in read /\ w.pause = None /\ ~Hidden(e)
    BY DEF Worklog!Private, Hidden
  <2>7. \A e : e \in skipped2 <=> e \in w.skipped \/ (e \in read /\ w.pause # None)
    OBVIOUS
  <2>8. \A e \in Worklog!Events : sent2[e] = IF e \in fresh THEN "pending" ELSE w.sent[e]
    OBVIOUS
  <2>9. sent2 \in [Worklog!Events -> {None, "pending", "sent", "manual"}]
    BY <2>3
  <2> HIDE DEF first2, read, fresh, skipped2, sent2
  <2>10. fresh \subseteq Nat /\ skipped2 \subseteq Nat
    BY <2>3, <2>5, <2>6, <2>7
  <2>11. w' \in WorklogRecords
    <3> DEFINE kept2 == w.kept \cup fresh
    <3>1. kept2 \in SUBSET Nat /\ skipped2 \in SUBSET Nat /\ n \in Nat /\ first2 \in Nat
      BY <2>1, <2>3, <2>4, <2>10
    <3>2. w' = [w EXCEPT !.cursor = n, !.kept = kept2, !.first = first2,
                         !.blank = rest, !.sent = sent2, !.skipped = skipped2]
      BY <2>2
    <3> HIDE DEF kept2
    <3> DEFINE v == [w EXCEPT !.cursor = n, !.kept = kept2, !.first = first2]
    <3>3. v \in WorklogRecords
      BY <3>1 DEF WorklogInv, WorklogRecords
    <3>4. w' = [v EXCEPT !.blank = rest, !.sent = sent2, !.skipped = skipped2]
      BY <3>2 DEF WorklogInv, WorklogRecords
    <3> HIDE DEF v
    <3>5. CASE rest = TRUE
      BY <2>9, <3>1, <3>3, <3>4, <3>5 DEF WorklogRecords
    <3>6. CASE rest = FALSE
      BY <2>9, <3>1, <3>3, <3>4, <3>6 DEF WorklogRecords
    <3> QED BY <3>5, <3>6
  <2>12. SecretaryKept
    BY <2>2 DEF WorklogInv, WorklogRecords, SecretaryKept
  <2>13. /\ w'.now = w.now /\ w'.journal = w.journal /\ w'.secret = w.secret
         /\ w'.skipped = skipped2 /\ w'.pause = w.pause
         /\ w'.private = w.private /\ w'.cursor = n /\ w'.kept = w.kept \cup fresh
         /\ w'.first = first2 /\ w'.sent = sent2 /\ w'.server = w.server
    BY <2>2 DEF WorklogInv, WorklogRecords
  <2>14. PausesAreSecret'
    <3>1. \A e \in skipped2 : e <= n
      BY <2>1, <2>3, <2>5, <2>7 DEF WorklogInv, PausesAreSecret
    <3> QED BY <2>13, <2>1, <3>1 DEF WorklogInv, PausesAreSecret, Hidden
  <2>15. \A e \in w.journal : e \in w.secret <=> Hidden(e) \/ (w.pause # None /\ w.pause <= e)
    BY DEF WorklogInv, PausesAreSecret
  <2>16. \A e \in w.skipped : e <= w.cursor
    BY DEF WorklogInv, PausesAreSecret
  <2>17. \A e : Passed(e)' <=> /\ e \in w.journal /\ e <= n /\ e \notin w.secret
                              /\ e \notin skipped2
    BY <2>13 DEF Passed
  <2>18. ASSUME NEW e, Passed(e)', first2 < e PROVE e \in w.kept \cup fresh
    <3>1. e \in w.journal /\ e \in Nat /\ e <= n /\ e \notin w.secret /\ e \notin skipped2 /\ 1 <= e
      BY <2>3, <2>17, <2>18 DEF WorklogInv, PausesAreSecret
    <3>2. CASE e <= w.cursor
      <4>1. w.first < e
        BY <2>3, <2>4, <2>18, <3>1, <3>2
      <4>2. Passed(e)
        BY <2>7, <3>1, <3>2 DEF Passed
      <4> QED BY <4>1, <4>2, CaptureIs DEF WorklogInv
    <3>3. CASE w.cursor < e
      <4>1. e \in read
        BY <2>5, <2>18, <3>1, <3>3
      <4> QED BY <2>6, <2>7, <2>15, <3>1, <4>1
    <3> QED BY <2>3, <3>1, <3>2, <3>3
  <2>19. ASSUME NEW e, e \in w.kept \cup fresh PROVE Passed(e)'
    <3>1. CASE e \in w.kept
      <4>1. Passed(e) /\ e \in Nat
        BY <2>3, <3>1, CaptureIs DEF WorklogInv
      <4>2. e \notin skipped2
        BY <2>3, <2>5, <2>7, <4>1 DEF Passed
      <4> QED BY <2>1, <2>3, <2>17, <4>1, <4>2 DEF Passed
    <3>2. CASE e \in fresh
      <4>1. e \in w.journal /\ e \in Nat /\ w.cursor < e /\ e <= n /\ w.pause = None /\ ~Hidden(e)
        BY <2>3, <2>5, <2>6, <3>2
      <4>2. e \notin skipped2
        BY <2>3, <2>7, <2>16, <4>1
      <4> QED BY <2>15, <2>17, <4>1, <4>2
    <3> QED BY <2>19, <3>1, <3>2
  <2>20. \A e \in Worklog!Events : sent2[e] = "sent" => e \in w.server
    BY <2>8, CaptureIs DEF WorklogInv
  <2>21. Worklog!CaptureIsExact'
    BY <2>13, <2>18, <2>19, <2>20, CaptureIsNext
  <2> QED BY <2>11, <2>12, <2>14, <2>21, SecretaryFrame DEF WorklogInv
<1>5. CASE Worklog!Starts
  <2>1. w' = [w EXCEPT !.started = w.now, !.blank = FALSE]
    BY <1>5 DEF Worklog!Starts
  <2>2. w' \in WorklogRecords
    BY <2>1 DEF WorklogInv, WorklogRecords
  <2>3. SecretaryKept /\ CaptureKept /\ w'.sent = w.sent /\ w'.server = w.server
    BY <2>1 DEF WorklogInv, WorklogRecords, SecretaryKept, CaptureKept
  <2> QED BY <2>2, <2>3, CaptureFrame, SecretaryFrame DEF WorklogInv
<1> QED BY <1>1, <1>2, <1>3, <1>4, <1>5

(* deliver *)

\* The outbox, row by row.
SentRows == [Worklog!Events -> {None, "pending", "sent", "manual"}]

\* What an answered upload leaves, whoever sent it.
Uploaded(server, dirty, sent, tries, n) ==
    /\ w' = [w EXCEPT !.server = server, !.dirty = dirty, !.sent = sent, !.tries = tries,
                      !.failures = n]
    /\ w.server \subseteq server /\ server \subseteq w.server \cup dirty
    /\ w.dirty \subseteq dirty
    /\ \A e \in Worklog!Events : sent[e] = "sent" => e \in server

\* An upload keeps the invariant: what reaches the server is marked dirty at once.
LEMMA UploadStep ==
    ASSUME ServicesAssumption, WorklogInv,
           Worklog!Uploads \/ \E reached \in BOOLEAN : Worklog!UploadFails(reached)
    PROVE  WorklogInv'
<1> USE DEF ServicesAssumption, Worklog!WorklogAssumption
<1> DEFINE S == Worklog!Sending
<1>1. S \subseteq Worklog!Events /\ Worklog!Events \subseteq Nat
  BY DEF Worklog!Sending, Worklog!Events
<1>2. /\ w.server \subseteq Nat /\ w.dirty \subseteq Nat /\ w.sent \in SentRows
      /\ w.tries \in [Worklog!Events -> Nat] /\ w.failures \in Nat
  BY DEF WorklogInv, WorklogRecords, SentRows
<1>3. PICK server \in SUBSET Nat, dirty \in SUBSET Nat, sent \in SentRows,
           tries \in [Worklog!Events -> Nat], n \in Nat :
        Uploaded(server, dirty, sent, tries, n)
  <2>1. CASE Worklog!Uploads
    <3> DEFINE sent == [e \in Worklog!Events |-> IF e \in S THEN "sent" ELSE w.sent[e]]
    <3>1. w' = [w EXCEPT !.server = w.server \cup S, !.dirty = w.dirty \cup (S \ w.server),
                         !.sent = sent, !.tries = w.tries, !.failures = w.failures]
      BY ZenonT(40), <2>1 DEF Worklog!Uploads, Worklog!Accepts, WorklogInv, WorklogRecords
    <3>2. sent \in SentRows
      BY <1>2 DEF SentRows
    <3>3. \A e \in Worklog!Events : sent[e] = "sent" => e \in w.server \cup S
      BY DEF WorklogInv, Worklog!CaptureIsExact
    <3> HIDE DEF sent, S
    <3>4. w.server \cup S \in SUBSET Nat /\ w.dirty \cup (S \ w.server) \in SUBSET Nat
      BY <1>1, <1>2
    <3>5. Uploaded(w.server \cup S, w.dirty \cup (S \ w.server), sent, w.tries, w.failures)
      BY <3>1, <3>3 DEF Uploaded
    <3> QED BY <3>2, <3>4, <3>5, <1>2
  <2>2. ASSUME NEW reached \in BOOLEAN, Worklog!UploadFails(reached) 
        PROVE  \E server \in SUBSET Nat, dirty \in SUBSET Nat, sent \in SentRows,
                  tries \in [Worklog!Events -> Nat], n \in Nat :
                  Uploaded(server, dirty, sent, tries, n)
    <3> DEFINE server == IF reached THEN w.server \cup S ELSE w.server
               dirty == IF reached THEN w.dirty \cup (S \ w.server) ELSE w.dirty
               sent == [e \in Worklog!Events |-> IF e \in S /\ w.tries[e] + 1 >= Tries
                                                 THEN "manual" ELSE w.sent[e]]
               tries == [e \in Worklog!Events |-> IF e \in S THEN w.tries[e] + 1 ELSE w.tries[e]]
    <3>1. w' = [w EXCEPT !.server = server, !.dirty = dirty, !.sent = sent, !.tries = tries,
                         !.failures = w.failures + 1]
      <4> DEFINE v == IF reached THEN Worklog!Accepts(w, S) ELSE w
      <4>1. v = [w EXCEPT !.server = server, !.dirty = dirty]
        BY <1>2 DEF Worklog!Accepts, WorklogInv, WorklogRecords
      <4>2. w' = [v EXCEPT !.failures = v.failures + 1, !.sent = sent, !.tries = tries]
        <5>1. v.failures = w.failures /\ v.sent = w.sent /\ v.tries = w.tries
          BY <4>1 DEF WorklogInv, WorklogRecords
        <5> HIDE DEF server, dirty
        <5>2. w' = [v EXCEPT !.failures = @ + 1,
            !.sent = [e \in Worklog!Events |-> IF e \in S /\ w.tries[e] + 1 >= Tries
                                       THEN "manual" ELSE @[e]],
            !.tries = [e \in Worklog!Events |-> IF e \in S THEN @[e] + 1 ELSE @[e]]]
          BY <2>2 DEF Worklog!UploadFails
        <5> HIDE DEF v
        <5> QED BY <5>1, <5>2
      <4> HIDE DEF v, sent, tries, server, dirty
      <4> QED BY <4>1, <4>2 DEF WorklogInv, WorklogRecords
    <3>2. sent \in SentRows /\ tries \in [Worklog!Events -> Nat]
      BY <1>2 DEF SentRows
    <3>3. \A e \in Worklog!Events : sent[e] = "sent" => e \in server
      BY DEF WorklogInv, Worklog!CaptureIsExact
    <3>4. /\ server \in SUBSET Nat /\ dirty \in SUBSET Nat
          /\ w.server \subseteq server /\ server \subseteq w.server \cup dirty
          /\ w.dirty \subseteq dirty
      BY <1>1, <1>2
    <3> HIDE DEF sent, tries, server, dirty
    <3>5. Uploaded(server, dirty, sent, tries, w.failures + 1) /\ w.failures + 1 \in Nat
      BY <3>1, <3>3, <3>4, <1>2 DEF Uploaded
    <3> QED BY <3>2, <3>4, <3>5
  <2> QED BY <2>1, <2>2
<1>4. w' \in WorklogRecords
  BY <1>3 DEF Uploaded, WorklogInv, WorklogRecords, SentRows
<1>5. /\ CaptureKept /\ w'.sent = sent /\ w'.server = server /\ w'.dirty = dirty
      /\ w'.pending = w.pending /\ w'.fresh = w.fresh /\ w'.report = w.report
      /\ w'.edits = w.edits /\ w'.gen = w.gen
  BY <1>3 DEF Uploaded, WorklogInv, WorklogRecords, CaptureKept
<1>6. PausesAreSecret' /\ Worklog!CaptureIsExact'
  BY <1>3, <1>5 DEF Uploaded, WorklogInv, CaptureKept, PausesAreSecret, Hidden,
     Worklog!CaptureIsExact
<1>7. WritersAreNoted'
  BY <1>3, <1>5 DEF Uploaded, WorklogInv, WritersAreNoted, Covered
<1>8. Worklog!NothingUnreported'
  BY <1>3, <1>5 DEF Uploaded, WorklogInv, Worklog!NothingUnreported
<1> QED BY <1>4, <1>6, <1>7, <1>8 DEF WorklogInv

(* the secretary *)

\* A writer of reports.
GenRecords == [at : {"idle", "lease", "model"}, report : Worklog!Reports,
               basis : [events : SUBSET Nat, edits : SUBSET Edits]]

\* The secretary's steps keep the invariant: a lease clears the mark before the
\* events are read, and what arrives while the model writes is asked for again.
LEMMA SecretaryStep ==
    ASSUME ServicesAssumption, WorklogInv,
           \/ \E e \in Edits : Worklog!Edited(e)
           \/ Worklog!Round
           \/ \E r \in Worklog!Reports : Worklog!Picks(r) \/ Worklog!Asks(r)
           \/ \E s \in Seekers :
                Worklog!Reads(s) \/ Worklog!Refused(s) \/ Worklog!Saves(s) \/ Worklog!Dies(s)
    PROVE  WorklogInv'
<1> USE DEF ServicesAssumption, Worklog!WorklogAssumption
<1> DEFINE Noted == WritersAreNoted /\ Worklog!NothingUnreported
<1>1. SUFFICES /\ w' \in WorklogRecords /\ CaptureKept
               /\ w'.sent = w.sent /\ w'.server = w.server /\ Noted'
  BY CaptureFrame DEF WorklogInv
<1> DEFINE Goal == /\ w' \in WorklogRecords /\ CaptureKept
                   /\ w'.sent = w.sent /\ w'.server = w.server /\ Noted'
<1>0. /\ w.pending \subseteq Worklog!Reports /\ w.fresh \subseteq Worklog!Reports
           /\ w.made \subseteq Worklog!Reports
      /\ w.queue \subseteq Worklog!Reports
      /\ w.gen \in [Seekers -> GenRecords] /\ w.edits \subseteq Edits /\ w.server \subseteq Nat
      /\ w.report \in [Worklog!Reports -> [events : SUBSET Nat, edits : SUBSET Edits]]
      /\ {"daily", "weekly"} = Worklog!Reports
      /\ w.failures \in Nat
      /\ Worklog!Idle \in GenRecords
  BY DEF WorklogInv, WorklogRecords, GenRecords, Worklog!Idle, Worklog!NoReport, Worklog!Reports
<1>2. ASSUME NEW e \in Edits, Worklog!Edited(e) PROVE Goal
  <2>1. w' = [w EXCEPT !.edits = w.edits \cup {e}, !.pending = w.pending \cup {"weekly"},
                       !.fresh = w.fresh \ {"weekly"}]
    BY <1>2 DEF Worklog!Edited, Worklog!Touch, WorklogInv, WorklogRecords
  <2>2. w.edits \cup {e} \in SUBSET Edits /\ w.pending \cup {"weekly"} \in SUBSET Worklog!Reports
        /\ w.fresh \ {"weekly"} \in SUBSET Worklog!Reports
    BY <1>0
  <2>3. w' \in WorklogRecords
    BY <2>1, <2>2 DEF WorklogInv, WorklogRecords
  <2>4. /\ CaptureKept /\ w'.sent = w.sent /\ w'.server = w.server /\ w'.dirty = w.dirty
        /\ w'.pending = w.pending \cup {"weekly"} /\ w'.fresh = w.fresh \ {"weekly"}
        /\ w'.report = w.report /\ w'.edits = w.edits \cup {e} /\ w'.gen = w.gen
    BY <2>1 DEF WorklogInv, WorklogRecords, CaptureKept
  <2>5. Noted'
    BY <2>4, <1>0 DEF WorklogInv, WritersAreNoted, Covered, Worklog!NothingUnreported
  <2> QED BY <2>3, <2>4, <2>5
<1>3. ASSUME Worklog!Round PROVE Goal
  <2> DEFINE pending == IF w.dirty = {} THEN w.pending ELSE w.pending \cup Worklog!Reports
  <2>1. w' = [w EXCEPT !.dirty = {}, !.pending = pending, !.fresh = pending, !.queue = pending]
    <3>1. CASE w.dirty = {}
      BY <1>3, <3>1 DEF Worklog!Round, WorklogInv, WorklogRecords
    <3>2. CASE w.dirty # {}
      BY <1>3, <3>2 DEF Worklog!Round, Worklog!Touch, WorklogInv, WorklogRecords
    <3> QED BY <3>1, <3>2
  <2>2. pending \in SUBSET Worklog!Reports /\ {} \in SUBSET Nat
    BY <1>0
  <2>3. w.pending \subseteq pending /\ (w.dirty # {} => pending = Worklog!Reports)
    BY <1>0
  <2> HIDE DEF pending
  <2>4. w' \in WorklogRecords
    BY <2>1, <2>2 DEF WorklogInv, WorklogRecords
  <2>5. /\ CaptureKept /\ w'.sent = w.sent /\ w'.server = w.server /\ w'.dirty = {}
        /\ w'.pending = pending /\ w'.fresh = pending
        /\ w'.report = w.report /\ w'.edits = w.edits /\ w'.gen = w.gen
    BY <2>1 DEF WorklogInv, WorklogRecords, CaptureKept
  <2>6. w.gen["service"].at = "idle"
    BY <1>3 DEF Worklog!Round
  <2>7. Noted'
    <3>1. CASE w.dirty = {}
      BY <3>1, <2>3, <2>5, <2>6, <1>0 DEF WorklogInv, WritersAreNoted, Covered,
         Worklog!NothingUnreported
    <3>2. CASE w.dirty # {}
      BY <3>2, <2>3, <2>5, <2>6, <1>0 DEF WorklogInv, WritersAreNoted, Covered,
         Worklog!NothingUnreported, GenRecords
    <3> QED BY <3>1, <3>2
  <2> QED BY <2>4, <2>5, <2>7
<1>4. ASSUME NEW r \in Worklog!Reports, Worklog!Picks(r) PROVE Goal
  <2> DEFINE g == [at |-> "lease", report |-> r, basis |-> Worklog!NoReport]
  <2>1. w' = [w EXCEPT !.queue = w.queue \ {r}, !.gen = [w.gen EXCEPT !["service"] = g]]
    BY <1>4 DEF Worklog!Picks, WorklogInv, WorklogRecords
  <2>2. g \in GenRecords /\ g.at = "lease"
    BY DEF GenRecords, Worklog!NoReport
  <2> HIDE DEF g
  <2>3. [w.gen EXCEPT !["service"] = g] \in [Seekers -> GenRecords]
          /\ w.queue \ {r} \in SUBSET Worklog!Reports
    BY <2>2, <1>0
  <2>4. w' \in WorklogRecords
    BY <2>1, <2>3 DEF WorklogInv, WorklogRecords, GenRecords
  <2>5. /\ CaptureKept /\ w'.sent = w.sent /\ w'.server = w.server /\ w'.dirty = w.dirty
        /\ w'.pending = w.pending /\ w'.fresh = w.fresh
        /\ w'.report = w.report /\ w'.edits = w.edits /\ w'.gen = [w.gen EXCEPT !["service"] = g]
    BY <2>1 DEF WorklogInv, WorklogRecords, CaptureKept
  <2>6. Noted'
    BY <2>5, <2>2, <1>0 DEF WorklogInv, WritersAreNoted, Covered, Worklog!NothingUnreported
  <2> QED BY <2>4, <2>5, <2>6
<1>5. ASSUME NEW r \in Worklog!Reports, Worklog!Asks(r) PROVE Goal
  <2> DEFINE g == [at |-> "lease", report |-> r, basis |-> Worklog!NoReport]
  <2>1. w' = [w EXCEPT !.gen = [w.gen EXCEPT !["cli"] = g]]
    BY <1>5 DEF Worklog!Asks, WorklogInv, WorklogRecords
  <2>2. g \in GenRecords /\ g.at = "lease"
    BY DEF GenRecords, Worklog!NoReport
  <2> HIDE DEF g
  <2>3. [w.gen EXCEPT !["cli"] = g] \in [Seekers -> GenRecords]
    BY <2>2, <1>0
  <2>4. w' \in WorklogRecords
    BY <2>1, <2>3 DEF WorklogInv, WorklogRecords, GenRecords
  <2>5. /\ CaptureKept /\ w'.sent = w.sent /\ w'.server = w.server /\ w'.dirty = w.dirty
        /\ w'.pending = w.pending /\ w'.fresh = w.fresh
        /\ w'.report = w.report /\ w'.edits = w.edits /\ w'.gen = [w.gen EXCEPT !["cli"] = g]
    BY <2>1 DEF WorklogInv, WorklogRecords, CaptureKept
  <2>6. Noted'
    BY <2>5, <2>2, <1>0 DEF WorklogInv, WritersAreNoted, Covered, Worklog!NothingUnreported
  <2> QED BY <2>4, <2>5, <2>6
<1>6. ASSUME NEW s \in Seekers, NEW report
             \in [Worklog!Reports -> [events : SUBSET Nat, edits : SUBSET Edits]],
             NEW made \in SUBSET Worklog!Reports,
             w' = Worklog!Done([w EXCEPT !.report = report, !.made = made], s),
             \A q \in Worklog!Reports : q # w.gen[s].report => report[q] = w.report[q],
             Covered(w.gen[s].report, report[w.gen[s].report])
             \/ (w.gen[s].report \in w.pending
                  /\ (s = "service" => w.gen[s].report \notin w.fresh)),
             \A o \in Seekers \ {s} : w.gen[o].at = "model" => w.gen[o].report # w.gen[s].report
      PROVE  Goal
  <2> DEFINE r == w.gen[s].report
             pending == IF s = "service" /\ r \in w.fresh THEN w.pending \ {r} ELSE w.pending
             fresh == IF s = "service" THEN w.fresh \ {r} ELSE w.fresh
             gen == [w.gen EXCEPT ![s] = Worklog!Idle]
  <2>1. w' = [w EXCEPT !.report = report, !.made = made, !.gen = gen, !.pending = pending,
                       !.fresh = fresh]
    <3> DEFINE v == [w EXCEPT !.report = report, !.made = made]
    <3>1. v.gen = w.gen /\ v.pending = w.pending /\ v.fresh = w.fresh
      BY DEF WorklogInv, WorklogRecords
    <3>2. w' = [v EXCEPT !.gen = [v.gen EXCEPT ![s] = Worklog!Idle],
                 !.pending = IF s = "service" /\ v.gen[s].report \in v.fresh
                             THEN v.pending \ {v.gen[s].report} ELSE v.pending,
                 !.fresh = IF s = "service" THEN v.fresh \ {v.gen[s].report} ELSE v.fresh]
      BY <1>6 DEF Worklog!Done, WorklogInv, WorklogRecords
    <3>3. w' = [v EXCEPT !.gen = gen, !.pending = pending, !.fresh = fresh]
      <4> HIDE DEF v
      <4> QED BY <3>1, <3>2
    <3> HIDE DEF gen, pending, fresh
    <3> QED BY <3>3 DEF WorklogInv, WorklogRecords
  <2>2. r \in Worklog!Reports /\ Worklog!Idle.at = "idle"
    BY <1>0 DEF GenRecords, Worklog!Idle
  <2>3. gen \in [Seekers -> GenRecords] /\ pending \in SUBSET Worklog!Reports
          /\ fresh \in SUBSET Worklog!Reports
    BY <1>0
  <2>4. w' \in WorklogRecords
    <3> HIDE DEF gen, pending, fresh
    <3> QED BY <2>1, <2>3 DEF WorklogInv, WorklogRecords, GenRecords
  <2>5. /\ CaptureKept /\ w'.sent = w.sent /\ w'.server = w.server /\ w'.dirty = w.dirty
        /\ w'.pending = pending /\ w'.fresh = fresh
        /\ w'.report = report /\ w'.edits = w.edits /\ w'.gen = gen
    <3> HIDE DEF gen, pending, fresh
    <3> QED BY <2>1 DEF WorklogInv, WorklogRecords, CaptureKept
  <2>6. Worklog!NothingUnreported'
    <3>1. SUFFICES ASSUME NEW q \in Worklog!Reports, q \notin pending
                   PROVE  /\ w.server \subseteq report[q].events \cup w.dirty
                          /\ q = "weekly" => w.edits \subseteq report[q].edits
      BY <2>5 DEF Worklog!NothingUnreported
    <3>2. CASE q = r
      BY <1>6, <3>1, <3>2 DEF Covered
    <3>3. CASE q # r
      BY <1>6, <3>1, <3>3 DEF WorklogInv, Worklog!NothingUnreported
    <3> QED BY <3>2, <3>3
  <2>7. WritersAreNoted'
    <3>1. ASSUME NEW o \in Seekers, gen[o].at = "model"
          PROVE  /\ o # s /\ gen[o] = w.gen[o] /\ gen[o].report # r
                 /\ \/ Covered(gen[o].report, gen[o].basis)
                    \/ gen[o].report \in pending /\ (o = "service" => gen[o].report \notin fresh)
      <4>1. o # s /\ gen[o] = w.gen[o]
        BY <3>1, <2>2, <1>0
      <4>2. gen[o].report # r
        BY <3>1, <4>1, <1>6
      <4> QED BY <3>1, <4>1, <4>2 DEF WorklogInv, WritersAreNoted
    <3> QED BY <2>5, <3>1 DEF WritersAreNoted, Covered
  <2> QED BY <2>4, <2>5, <2>6, <2>7
<1>7. ASSUME NEW s \in Seekers, NEW n \in Nat, w' = Worklog!Stop([w EXCEPT !.failures = n], s)
      PROVE  Goal
  <2> DEFINE queue == IF s = "service" THEN {} ELSE w.queue
             fresh == IF s = "service" THEN {} ELSE w.fresh
             gen == [w.gen EXCEPT ![s] = Worklog!Idle]
  <2>1. w' = [w EXCEPT !.failures = n, !.gen = gen, !.queue = queue, !.fresh = fresh]
    <3> DEFINE v == [w EXCEPT !.failures = n]
    <3>1. v.gen = w.gen /\ v.queue = w.queue /\ v.fresh = w.fresh
      BY DEF WorklogInv, WorklogRecords
    <3>2. w' = [v EXCEPT !.gen = [v.gen EXCEPT ![s] = Worklog!Idle],
                 !.queue = IF s = "service" THEN {} ELSE v.queue,
                 !.fresh = IF s = "service" THEN {} ELSE v.fresh]
      BY <1>7 DEF Worklog!Stop, WorklogInv, WorklogRecords
    <3>3. w' = [v EXCEPT !.gen = gen, !.queue = queue, !.fresh = fresh]
      <4> HIDE DEF v
      <4> QED BY <3>1, <3>2
    <3> HIDE DEF gen, queue, fresh
    <3> QED BY <3>3 DEF WorklogInv, WorklogRecords
  <2>2. Worklog!Idle.at = "idle"
    BY DEF Worklog!Idle
  <2>3. gen \in [Seekers -> GenRecords] /\ queue \in SUBSET Worklog!Reports
          /\ fresh \in SUBSET Worklog!Reports
    BY <1>0
  <2>4. w' \in WorklogRecords
    <3> HIDE DEF gen, queue, fresh
    <3> QED BY <2>1, <2>3 DEF WorklogInv, WorklogRecords, GenRecords
  <2>5. /\ CaptureKept /\ w'.sent = w.sent /\ w'.server = w.server /\ w'.dirty = w.dirty
        /\ w'.pending = w.pending /\ w'.fresh = fresh
        /\ w'.report = w.report /\ w'.edits = w.edits /\ w'.gen = gen
    <3> HIDE DEF gen, queue, fresh
    <3> QED BY <2>1 DEF WorklogInv, WorklogRecords, CaptureKept
  <2>6. fresh \subseteq w.fresh /\ \A o \in Seekers : gen[o].at = "model" => gen[o] = w.gen[o]
    BY <2>2, <1>0
  <2>7. Noted'
    <3> HIDE DEF gen, queue, fresh
    <3> QED BY <2>5, <2>6 DEF WorklogInv, WritersAreNoted, Covered, Worklog!NothingUnreported
  <2> QED BY <2>4, <2>5, <2>7
<1>8. ASSUME NEW s \in Seekers, Worklog!Saves(s) PROVE Goal
  <2> DEFINE g == w.gen[s]
             report == [w.report EXCEPT ![g.report] = g.basis]
             made == w.made \cup {g.report}
  <2>1. g \in GenRecords /\ g.at = "model"
    BY <1>0, <1>8 DEF Worklog!Saves
  <2>2. w' = Worklog!Done([w EXCEPT !.report = report, !.made = made], s)
    BY <1>8 DEF Worklog!Saves, WorklogInv, WorklogRecords
  <2>3. /\ report \in [Worklog!Reports -> [events : SUBSET Nat, edits : SUBSET Edits]]
        /\ made \in SUBSET Worklog!Reports /\ report[g.report] = g.basis
        /\ \A q \in Worklog!Reports : q # g.report => report[q] = w.report[q]
    BY <2>1, <1>0 DEF GenRecords
  <2>4. Covered(g.report, g.basis) \/ (g.report \in w.pending
          /\ (s = "service" => g.report \notin w.fresh))
    BY <2>1 DEF WorklogInv, WritersAreNoted
  <2>5. \A o \in Seekers \ {s} : w.gen[o].at = "model" => w.gen[o].report # g.report
    BY <2>1 DEF WorklogInv, WritersAreNoted
  <2> HIDE DEF report, made, Goal
  <2> QED BY ZenonT(40), <2>2, <2>3, <2>4, <2>5, <1>6
<1>9. ASSUME NEW s \in Seekers, Worklog!Reads(s) PROVE Goal
  <2> DEFINE g == w.gen[s]
             input == Worklog!Input(w, g.report)
  <2>1. g \in GenRecords /\ g.at = "lease"
    BY <1>0, <1>9 DEF Worklog!Reads
  <2>2. \A o \in Seekers : w.gen[o].at = "model" => w.gen[o].report # g.report
    BY <1>9 DEF Worklog!Reads
  <2>3. Covered(g.report, input) /\ input \in [events : SUBSET Nat, edits : SUBSET Edits]
    BY <1>0 DEF Covered, Worklog!Input
  <2>4. CASE g.report \in w.made /\ w.report[g.report] = input
    <3>1. w' = Worklog!Done(w, s)
      BY <1>9, <2>4 DEF Worklog!Reads
    <3>2. w = [w EXCEPT !.report = w.report, !.made = w.made]
      BY DEF WorklogInv, WorklogRecords
    <3>3. w' = Worklog!Done([w EXCEPT !.report = w.report, !.made = w.made], s)
      BY <3>1, <3>2
    <3> HIDE DEF Goal, input
    <3> QED BY ZenonT(40), <3>3, <2>2, <2>3, <2>4, <1>0, <1>6
  <2>5. CASE ~(g.report \in w.made /\ w.report[g.report] = input)
    <3> DEFINE h == [at |-> "model", report |-> g.report, basis |-> input]
               gen == [w.gen EXCEPT ![s] = h]
    <3>1. w' = [w EXCEPT !.gen[s].at = "model", !.gen[s].basis = input]
      BY <1>9, <2>5 DEF Worklog!Reads
    <3>2. h = [[g EXCEPT !.at = "model"] EXCEPT !.basis = input]
      <4>1. \A y \in GenRecords : \A x :
              [at |-> "model", report |-> y.report, basis |-> x]
                = [[y EXCEPT !.at = "model"] EXCEPT !.basis = x]
        <5> SUFFICES ASSUME NEW y \in GenRecords, NEW x
                     PROVE  [at |-> "model", report |-> y.report, basis |-> x]
                              = [[y EXCEPT !.at = "model"] EXCEPT !.basis = x]
          OBVIOUS
        <5>1. [y EXCEPT !.at = "model"]
                = [at |-> "model", report |-> y.report, basis |-> y.basis]
          <6> DEFINE z == [at |-> y.at, report |-> y.report, basis |-> y.basis]
          <6>1. y = z
            BY DEF GenRecords
          <6>2. [z EXCEPT !.at = "model"]
                  = [at |-> "model", report |-> y.report, basis |-> y.basis]
            OBVIOUS
          <6> HIDE DEF z
          <6> QED BY <6>1, <6>2
        <5>2. [[at |-> "model", report |-> y.report, basis |-> y.basis] EXCEPT !.basis = x]
                = [at |-> "model", report |-> y.report, basis |-> x]
          OBVIOUS
        <5> QED BY <5>1, <5>2, Zenon
      <4> HIDE DEF input, g
      <4> QED BY <4>1, <2>1
    <3>3. w' = [w EXCEPT !.gen = gen]
      <4> DEFINE k == [w.gen[s] EXCEPT !.at = "model"]
                 v == [w EXCEPT !.gen = [w.gen EXCEPT ![s] = k]]
      <4>1. w' = [v EXCEPT !.gen = [v.gen EXCEPT ![s] = [v.gen[s] EXCEPT !.basis = input]]]
        BY <3>1
      <4>2. v.gen = [w.gen EXCEPT ![s] = k] /\ v.gen[s] = k
        BY <1>0 DEF WorklogInv, WorklogRecords
      <4>3. [k EXCEPT !.basis = input] = h
        BY <3>2
      <4> HIDE DEF k, h, input
      <4>4. w' = [v EXCEPT !.gen = [[w.gen EXCEPT ![s] = k] EXCEPT ![s] = h]]
        <5> HIDE DEF v
        <5> QED BY <4>1, <4>2, <4>3
      <4>5. [[w.gen EXCEPT ![s] = k] EXCEPT ![s] = h] = gen
        BY <1>0
      <4>6. w' = [v EXCEPT !.gen = gen]
        BY <4>4, <4>5
      <4> HIDE DEF gen
      <4> QED BY <4>6 DEF WorklogInv, WorklogRecords
    <3>4. h \in GenRecords
      BY <2>1, <2>3 DEF GenRecords
    <3>5. h.at = "model" /\ h.report = g.report /\ h.basis = input
      OBVIOUS
    <3> HIDE DEF h, input
    <3>6. gen \in [Seekers -> GenRecords] /\ gen[s] = h /\ \A o \in Seekers : o # s
            => gen[o] = w.gen[o]
      BY <3>4, <1>0
    <3> HIDE DEF gen
    <3>7. w' \in WorklogRecords
      BY <3>3, <3>6 DEF WorklogInv, WorklogRecords, GenRecords
    <3>8. /\ CaptureKept /\ w'.sent = w.sent /\ w'.server = w.server /\ w'.dirty = w.dirty
          /\ w'.pending = w.pending /\ w'.fresh = w.fresh
          /\ w'.report = w.report /\ w'.edits = w.edits /\ w'.gen = gen
      BY <3>3 DEF WorklogInv, WorklogRecords, CaptureKept
    <3>9. Noted'
      <4>1. \A o \in Seekers : gen[o].at = "model" => gen[o].report # g.report \/ o = s
        BY <2>2, <3>6
      <4> QED BY <2>2, <2>3, <3>5, <3>6, <3>8
                 DEF WorklogInv, WritersAreNoted, Covered, Worklog!NothingUnreported
    <3> QED BY <3>7, <3>8, <3>9
  <2> QED BY <2>4, <2>5
<1>10. ASSUME NEW s \in Seekers, Worklog!Refused(s) PROVE Goal
  <2>1. w = [w EXCEPT !.failures = w.failures]
    BY DEF WorklogInv, WorklogRecords
  <2>2. w' = Worklog!Stop(w, s)
    BY <1>10 DEF Worklog!Refused
  <2>3. w' = Worklog!Stop([w EXCEPT !.failures = w.failures], s)
    <3> DEFINE v == [w EXCEPT !.failures = w.failures]
    <3>1. v = w
      BY <2>1
    <3> HIDE DEF v
    <3>2. w' = Worklog!Stop(v, s)
      BY <2>2, <3>1
    <3> QED BY <3>2 DEF v
  <2> HIDE DEF Goal
  <2> QED BY <2>3, <1>0, <1>7
<1>11. ASSUME NEW s \in Seekers, Worklog!Dies(s) PROVE Goal
  <2>1. w' = Worklog!Stop([w EXCEPT !.failures = w.failures + 1], s)
    BY <1>11 DEF Worklog!Dies
  <2> HIDE DEF Goal
  <2> QED BY <2>1, <1>0, <1>7
<1> QED
  <2> HIDE DEF Goal
  <2>1. Goal
    BY <1>2, <1>3, <1>4, <1>5, <1>8, <1>9, <1>10, <1>11
  <2> USE DEF Goal
  <2> QED BY <2>1

\* Every event the cursor passed is in the log but for the paused ones and those older than
\* the process that wrote the first cursor, nothing private is, and no event the server has
\* is left out of every report and every request for one.
THEOREM WorklogKept == Spec => []WorklogIsComplete
<1> DEFINE I == part = "worklog" => WorklogInv
<1>1. Init => I
  BY WorklogStarts, ServicesAssumption DEF Init
<1>2. I /\ [Next]_vars => I'
  <2> SUFFICES ASSUME I, [Next]_vars, part' = "worklog" PROVE WorklogInv'
    OBVIOUS
  <2>1. CASE Next
    <3>1. Worklog!Next /\ WorklogInv
      BY <2>1 DEF Next, DeliveryNext, ServicesNext
    <3> QED BY <3>1, ClientStep, UploadStep, SecretaryStep, ServicesAssumption DEF Worklog!Next
  <2>2. CASE UNCHANGED vars
    <3>1. w' = w
      BY <2>2 DEF vars
    <3>2. WorklogInv
      BY <2>2 DEF vars
    <3> QED BY <3>1, <3>2 DEF WorklogInv, WorklogRecords, PausesAreSecret, Hidden, WritersAreNoted,
               Covered,
            Worklog!CaptureIsExact, Worklog!NothingUnreported
  <2> QED BY <2>1, <2>2
<1>3. I => WorklogIsComplete
  BY DEF WorklogInv, WorklogIsComplete
<1> QED BY <1>1, <1>2, <1>3, PTL DEF Spec

-----------------------------------------------------------------------------
(* Publication *)

\* A set of numbers has a least one.
LEMMA LeastIs ==
    ASSUME NEW S \in SUBSET Nat, S # {}
    PROVE  Publisher!Least(S) \in S
<1>1. PICK x \in S : \A y \in S : ~(<<y, x>> \in OpToRel(<, Nat))
  BY NatLessThanWellFounded, WFMin
<1>2. \A y \in S : ~(y < x)
  BY <1>1 DEF OpToRel
<1>3. \A y \in S : x <= y
  BY <1>2
<1> QED BY <1>3 DEF Publisher!Least

\* What the proof uses of the fields of the ledger and of a call.
PubFields == {"latest", "job", "row", "intent", "coming", "audited", "revisions", "claim",
              "open", "cloud", "call"}
CallFields == {"at", "sync", "jobs", "uncertain", "spent", "key", "entries"}

Items == Publisher!Marks \cup Edits
Documents == [key : Publisher!Keys, items : SUBSET Items]

PubShape(v) ==
    /\ PubFields \subseteq DOMAIN v
    /\ v.latest \in 0..Versions
    /\ DOMAIN v.job = Publisher!Marks
    /\ \A n \in Publisher!Marks : v.job[n] # None => n <= v.latest
    /\ DOMAIN v.row = Publisher!Keys
    /\ v.cloud \in Seq(Documents)
    /\ v.revisions \subseteq Edits
    /\ DOMAIN v.call = Publishers
    /\ \A i \in Publishers : CallFields \subseteq DOMAIN v.call[i]

\* A kind of document is there once, and one that may still come is not there
\* and is on record as intended.
Single(v) ==
    \A key \in Publisher!Keys :
        /\ \A d, e \in Publisher!Found(v, key) : d = e
        /\ key \in v.coming => Publisher!Found(v, key) = {} /\ key \in v.intent

\* The ledger names documents that are there.
Placed(v) ==
    /\ \A key \in Publisher!Keys :
        v.row[key] # None => v.row[key] \in Publisher!Found(v, key)
    /\ v.open \subseteq Publisher!Keys
    /\ \A key \in v.open : v.row[key] # None

\* The part of version n is in the report's document.
Reported(v, n) == v.row["report"] # None /\ n \in Publisher!Holds(v, "report")

\* What is said to be done is there.
Written(v) ==
    /\ \A n \in Publisher!Marks : v.job[n] = "complete" => Reported(v, n) /\ n \in v.audited
    /\ v.audited # {} => v.row["audit"] # None /\ v.audited \subseteq Publisher!Holds(v, "audit")

Ledger(v) == PubShape(v) /\ Single(v) /\ Placed(v) /\ Written(v)

\* A call at work has the lease, and a version or the edits to work on.
Leased(v, i) ==
    /\ v.call[i].at # "idle" => v.claim = i
    /\ v.call[i].jobs \subseteq 1..v.latest

\* The call is on the audit: its version is in the report's document, and will
\* be in the audit.
Auditing(v, i, key) ==
    LET c == v.call[i]
    IN /\ c.sync \/ c.jobs # {}
       /\ key = "report" => ~c.sync
       /\ key = "audit" =>
            /\ c.entries # {} /\ c.entries \subseteq Items
            /\ ~c.sync => /\ Reported(v, Publisher!Job(v, i))
                          /\ Publisher!Job(v, i) \in v.audited \cup c.entries

\* What a call has established, await by await.
Busy(v, i) ==
    LET c == v.call[i]
    IN /\ c.at \in Publisher!Awaits \cup {"idle", "next"}
       /\ c.key \in Publisher!Keys
       /\ c.at = "next" => ~c.sync
       /\ c.at = "folders" => ~c.sync /\ c.jobs # {}
       /\ c.at \in {"find", "create", "share", "parts", "append", "after"} => Auditing(v, i, c.key)
       /\ c.at = "create" =>
            Publisher!Found(v, c.key) = {} /\ c.key \notin v.coming /\ c.key \in v.intent
       /\ c.at \in {"share", "inspect", "parts", "append", "after"} => v.row[c.key] # None
       /\ c.at = "inspect" => c.key = "report" /\ (c.sync \/ c.jobs # {})
       /\ c.at = "after" => Publisher!Part(v, i) \in Publisher!Holds(v, c.key)

\* The inductive invariant of the publication.
PubInv(v) == Ledger(v) /\ \A i \in Publishers : Leased(v, i) /\ Busy(v, i)

\* The fields that steps of a call leave alone, most of the time.
Kept(v, u) ==
    /\ PubFields \subseteq DOMAIN u
    /\ u.cloud = v.cloud /\ u.row = v.row /\ u.coming = v.coming /\ u.audited = v.audited
    /\ u.latest = v.latest /\ u.revisions \subseteq Edits /\ u.open = v.open

\* The calls, and that only the one of i may change.
Only(v, u, i) ==
    /\ DOMAIN u.call = Publishers /\ CallFields \subseteq DOMAIN u.call[i]
    /\ \A j \in Publishers \ {i} : u.call[j] = v.call[j]

Resting(v, i) ==
    /\ v.call[i].at = "idle" /\ v.call[i].key \in Publisher!Keys
    /\ v.call[i].jobs \subseteq 1..v.latest

\* Process i has the lease, and nobody else is at work.
Active(v, i) ==
    /\ Ledger(v) /\ i \in Publishers /\ v.claim = i
    /\ \A j \in Publishers \ {i} : Resting(v, j)
    /\ v.call[i].jobs \subseteq 1..v.latest /\ v.call[i].key \in Publisher!Keys

LEMMA OneActive ==
    ASSUME NEW v, PubInv(v), NEW i \in Publishers, v.call[i].at # "idle"
    PROVE  Active(v, i) /\ Busy(v, i)
BY DEF PubInv, Leased, Active, Resting, Busy

\* Back from the call to all.
LEMMA Settled ==
    ASSUME NEW u, Ledger(u), NEW i \in Publishers, \A j \in Publishers \ {i} : Resting(u, j),
           Leased(u, i), Busy(u, i)
    PROVE  PubInv(u)
<1>1. ASSUME NEW j \in Publishers \ {i} PROVE Leased(u, j) /\ Busy(u, j)
  <2>1. Resting(u, j)
    OBVIOUS
  <2> QED BY <2>1 DEF Resting, Leased, Busy
<1> QED BY <1>1 DEF PubInv

\* What a job may be said to be.
Done(v, n, s) == n <= v.latest /\ (s = "complete" => Reported(v, n) /\ n \in v.audited)

LEMMA LedgerKept ==
    ASSUME NEW v, Ledger(v), NEW u, Kept(v, u), NEW i \in Publishers, Only(v, u, i),
           DOMAIN u.job = Publisher!Marks,
           \A n \in Publisher!Marks : u.job[n] = v.job[n] \/ Done(v, n, u.job[n]),
           v.intent \cap v.coming \subseteq u.intent
    PROVE  Ledger(u)
<1>1. PubShape(u)
  <2>1. \A j \in Publishers : CallFields \subseteq DOMAIN u.call[j]
    BY DEF Ledger, PubShape, Only
  <2> QED BY <2>1 DEF Ledger, PubShape, Kept, Only, Done
<1>2. Single(u)
  BY DEF Ledger, Single, Kept, Publisher!Found
<1>3. Placed(u)
  BY DEF Ledger, Placed, Kept, Publisher!Found
<1>4. Written(u)
  BY DEF Ledger, Written, Kept, Done, Reported, Publisher!Holds
<1> QED BY <1>1, <1>2, <1>3, <1>4 DEF Ledger

LEMMA OthersRest ==
    ASSUME NEW v, NEW i, Active(v, i), NEW u, Kept(v, u), Only(v, u, i)
    PROVE  \A j \in Publishers \ {i} : Resting(u, j)
<1>1. ASSUME NEW j \in Publishers \ {i} PROVE Resting(u, j)
  <2>1. Resting(v, j) /\ u.call[j] = v.call[j] /\ u.latest = v.latest
    BY DEF Active, Only, Kept
  <2> QED BY <2>1 DEF Resting
<1> QED BY <1>1

\* So a step of the call that leaves the ledger alone is judged by the call.
LEMMA CallSteps ==
    ASSUME NEW v, NEW i, Active(v, i), NEW u, Kept(v, u), Only(v, u, i),
           DOMAIN u.job = Publisher!Marks,
           \A n \in Publisher!Marks : u.job[n] = v.job[n] \/ Done(v, n, u.job[n]),
           v.intent \cap v.coming \subseteq u.intent,
           Leased(u, i), Busy(u, i)
    PROVE  PubInv(u)
<1>1. Ledger(v) /\ i \in Publishers
  BY DEF Active
<1>2. Ledger(u)
  BY <1>1, LedgerKept
<1>3. \A j \in Publishers \ {i} : Resting(u, j)
  BY OthersRest
<1> QED BY <1>1, <1>2, <1>3, Settled

LEMMA JobIs ==
    ASSUME NEW v, NEW i, Active(v, i), v.call[i].jobs # {}
    PROVE  /\ Publisher!Job(v, i) \in v.call[i].jobs
           /\ Publisher!Job(v, i) \in 1..v.latest /\ Publisher!Job(v, i) \in Publisher!Marks
<1>1. v.latest \in 0..Versions /\ v.call[i].jobs \subseteq 1..v.latest
  BY DEF Active, Ledger, PubShape
<1>2. v.call[i].jobs \in SUBSET Nat
  BY <1>1
<1>3. Publisher!Job(v, i) \in v.call[i].jobs
  BY <1>2, LeastIs DEF Publisher!Job
<1> QED BY <1>1, <1>3, ServicesAssumption DEF Publisher!Marks, Publisher!PublisherAssumption

-----------------------------------------------------------------------------

LEMMA LeaveKeeps ==
    ASSUME NEW v, NEW i, Active(v, i)
    PROVE  PubInv(Publisher!Leave(v, i))
<1> DEFINE u == Publisher!Leave(v, i)
<1>1. PubShape(v) /\ i \in Publishers
  BY DEF Active, Ledger
<1>2. /\ Kept(v, u) /\ Only(v, u, i) /\ u.job = v.job /\ u.intent = v.intent
      /\ u.call[i] = Publisher!NoCall
  BY <1>1 DEF PubShape, Kept, Only, Publisher!Leave, Publisher!NoCall, PubFields, CallFields
<1>3. Leased(u, i) /\ Busy(u, i)
  BY <1>1, <1>2 DEF Leased, Busy, Publisher!NoCall, Publisher!Keys
<1>4. DOMAIN u.job = Publisher!Marks
  BY <1>1, <1>2 DEF PubShape
<1> QED BY <1>1, <1>2, <1>3, <1>4, CallSteps

\* A change of the call alone keeps the process at work.
LEMMA ActiveKept ==
    ASSUME NEW v, NEW i, Active(v, i), NEW u, Kept(v, u), Only(v, u, i),
           u.job = v.job, v.intent \cap v.coming \subseteq u.intent, u.claim = v.claim,
           u.call[i].jobs = v.call[i].jobs, u.call[i].key \in Publisher!Keys
    PROVE  Active(u, i)
<1>1. Ledger(v) /\ i \in Publishers /\ DOMAIN v.job = Publisher!Marks
  BY DEF Active, Ledger, PubShape
<1>2. Ledger(u)
  BY <1>1, LedgerKept
<1>3. \A j \in Publishers \ {i} : Resting(u, j)
  BY OthersRest
<1>4. u.latest = v.latest
  BY DEF Kept
<1> QED BY <1>2, <1>3, <1>4 DEF Active

\* What a call is auditing depends on what it carries.
LEMMA SameAudit ==
    ASSUME NEW v, NEW u, NEW i, NEW key, Auditing(v, i, key), Kept(v, u),
           u.call[i].sync = v.call[i].sync, u.call[i].jobs = v.call[i].jobs,
           u.call[i].entries = v.call[i].entries
    PROVE  Auditing(u, i, key)
<1>1. Publisher!Job(u, i) = Publisher!Job(v, i)
  BY DEF Publisher!Job
<1> QED BY <1>1 DEF Auditing, Kept, Reported, Publisher!Holds

LEMMA GoIs ==
    ASSUME NEW v, PubShape(v), NEW i \in Publishers, NEW s,
           NEW u, u = Publisher!Go(v, i, s)
    PROVE  /\ Kept(v, u) /\ Only(v, u, i) /\ u.job = v.job /\ u.intent = v.intent
           /\ u.claim = v.claim /\ DOMAIN u.job = Publisher!Marks
           /\ u.call[i].at = s /\ u.call[i].sync = v.call[i].sync
           /\ u.call[i].jobs = v.call[i].jobs /\ u.call[i].key = v.call[i].key
           /\ u.call[i].entries = v.call[i].entries
           /\ u.call[i].uncertain = v.call[i].uncertain /\ u.call[i].spent = v.call[i].spent
BY DEF PubShape, Kept, Only, Publisher!Go, PubFields, CallFields

LEMMA GoKeeps ==
    ASSUME NEW v, NEW i, Active(v, i), NEW s, Busy(Publisher!Go(v, i, s), i)
    PROVE  PubInv(Publisher!Go(v, i, s))
<1> DEFINE u == Publisher!Go(v, i, s)
<1>1. PubShape(v) /\ i \in Publishers /\ v.claim = i /\ v.call[i].jobs \subseteq 1..v.latest
  BY DEF Active, Ledger
<1>2. /\ Kept(v, u) /\ Only(v, u, i) /\ u.job = v.job /\ u.intent = v.intent
      /\ u.claim = v.claim /\ u.call[i].jobs = v.call[i].jobs /\ DOMAIN u.job = Publisher!Marks
  BY <1>1, GoIs
<1>3. Leased(u, i)
  BY <1>1, <1>2 DEF Leased, Kept
<1> QED BY <1>2, <1>3, CallSteps

LEMMA LocateKeeps ==
    ASSUME NEW v, NEW i, Active(v, i), NEW key \in Publisher!Keys, Auditing(v, i, key)
    PROVE  PubInv(Publisher!Locate(v, i, key))
<1> DEFINE u == Publisher!Locate(v, i, key)
<1>1. PubShape(v) /\ i \in Publishers /\ v.claim = i /\ v.call[i].jobs \subseteq 1..v.latest
  BY DEF Active, Ledger
<1>2. /\ Kept(v, u) /\ Only(v, u, i) /\ u.job = v.job /\ u.intent = v.intent
      /\ u.claim = v.claim /\ u.call[i].jobs = v.call[i].jobs /\ DOMAIN u.job = Publisher!Marks
      /\ u.call[i].key = key /\ u.call[i].sync = v.call[i].sync
      /\ u.call[i].entries = v.call[i].entries
      /\ u.call[i].at = IF v.row[key] = None THEN "find" ELSE "share"
  BY <1>1 DEF PubShape, Kept, Only, Publisher!Locate, PubFields, CallFields
<1>3. Leased(u, i)
  BY <1>1, <1>2 DEF Leased, Kept
<1>4. Auditing(u, i, key)
  BY <1>2, SameAudit
<1>5. u.row = v.row
  BY <1>2 DEF Kept
<1>6. Busy(u, i)
  BY <1>2, <1>4, <1>5 DEF Busy, Publisher!Awaits
<1> QED BY <1>2, <1>3, <1>6, CallSteps

LEMMA CompleteKeeps ==
    ASSUME NEW v, NEW i, Active(v, i),
           v.call[i].sync \/ (v.call[i].jobs # {} /\ Reported(v, Publisher!Job(v, i))
                              /\ Publisher!Job(v, i) \in v.audited)
    PROVE  PubInv(Publisher!Complete(v, i))
<1> DEFINE u == Publisher!Complete(v, i)
<1>1. PubShape(v) /\ i \in Publishers /\ v.claim = i /\ v.call[i].jobs \subseteq 1..v.latest
      /\ v.call[i].key \in Publisher!Keys
  BY DEF Active, Ledger
<1>2. CASE v.call[i].sync
  BY <1>2, LeaveKeeps DEF Publisher!Complete
<1>3. CASE ~v.call[i].sync
  <2> DEFINE n == Publisher!Job(v, i)
  <2>1. n \in 1..v.latest /\ n \in Publisher!Marks
    BY <1>3, JobIs
  <2> HIDE DEF n
  <2>2. /\ Kept(v, u) /\ Only(v, u, i) /\ u.job = [v.job EXCEPT ![n] = "complete"]
        /\ u.intent = v.intent /\ u.claim = v.claim
        /\ u.call[i].jobs = v.call[i].jobs \ {n} /\ u.call[i].key = v.call[i].key
        /\ u.call[i].at = "next" /\ u.call[i].sync = v.call[i].sync
    BY <1>1, <1>3 DEF PubShape, Kept, Only, Publisher!Complete, PubFields, CallFields, n
  <2>3. Leased(u, i)
    BY <1>1, <2>2 DEF Leased, Kept
  <2>4. Busy(u, i)
    BY <1>1, <1>3, <2>2 DEF Busy
  <2>5. DOMAIN u.job = Publisher!Marks
    BY <1>1, <2>2 DEF PubShape
  <2>6. ASSUME NEW m \in Publisher!Marks PROVE u.job[m] = v.job[m] \/ Done(v, m, u.job[m])
    <3>1. CASE m = n
      BY <1>3, <2>1, <3>1 DEF Done, n
    <3>2. CASE m # n
      BY <1>1, <2>2, <3>2 DEF PubShape
    <3> QED BY <3>1, <3>2
  <2> QED BY <2>2, <2>3, <2>4, <2>5, <2>6, CallSteps
<1> QED BY <1>2, <1>3

LEMMA FailedKeeps ==
    ASSUME NEW v, NEW i, Active(v, i), v.call[i].sync \/ v.call[i].jobs # {}, NEW b
    PROVE  PubInv(Publisher!Failed(v, i, b))
<1> DEFINE u == Publisher!Failed(v, i, b)
           s == IF b THEN "uncertain" ELSE "retry"
<1>1. PubShape(v) /\ i \in Publishers /\ v.claim = i /\ v.call[i].jobs \subseteq 1..v.latest
      /\ v.call[i].key \in Publisher!Keys
  BY DEF Active, Ledger
<1>2. CASE v.call[i].sync
  BY <1>2, LeaveKeeps DEF Publisher!Failed
<1>3. CASE ~v.call[i].sync
  <2> DEFINE n == Publisher!Job(v, i)
  <2>1. n \in 1..v.latest /\ n \in Publisher!Marks
    BY <1>3, JobIs
  <2> HIDE DEF n, s
  <2>2. /\ Kept(v, u) /\ Only(v, u, i) /\ u.job = [v.job EXCEPT ![n] = s]
        /\ u.intent = v.intent /\ u.claim = v.claim
        /\ u.call[i].jobs = v.call[i].jobs \ {n} /\ u.call[i].key = v.call[i].key
        /\ u.call[i].at = "next" /\ u.call[i].sync = v.call[i].sync
    BY <1>1, <1>3 DEF PubShape, Kept, Only, Publisher!Failed, PubFields, CallFields, n, s
  <2>3. Leased(u, i)
    BY <1>1, <2>2 DEF Leased, Kept
  <2>4. Busy(u, i)
    BY <1>1, <1>3, <2>2 DEF Busy
  <2>5. DOMAIN u.job = Publisher!Marks
    BY <1>1, <2>2 DEF PubShape
  <2>6. ASSUME NEW m \in Publisher!Marks PROVE u.job[m] = v.job[m] \/ Done(v, m, u.job[m])
    <3>1. CASE m = n
      BY <1>1, <2>1, <2>2, <3>1 DEF Done, PubShape, s
    <3>2. CASE m # n
      BY <1>1, <2>2, <3>2 DEF PubShape
    <3> QED BY <3>1, <3>2
  <2> QED BY <2>2, <2>3, <2>4, <2>5, <2>6, CallSteps
<1> QED BY <1>2, <1>3

LEMMA AuditKeeps ==
    ASSUME NEW v, NEW i, Active(v, i),
           v.call[i].sync \/ (v.call[i].jobs # {} /\ Reported(v, Publisher!Job(v, i)))
    PROVE  PubInv(Publisher!Audit(v, i))
<1> DEFINE w1 == [v EXCEPT !.call[i].entries = Publisher!Unaudited(v)]
           n == Publisher!Job(v, i)
<1>1. PubShape(v) /\ i \in Publishers /\ v.call[i].key \in Publisher!Keys
  BY DEF Active, Ledger
<1>2. ~v.call[i].sync => n \in 1..v.latest
  BY JobIs
<1>3. CASE Publisher!Unaudited(v) = {}
  <2>1. v.call[i].sync \/ n \in v.audited
    BY <1>2, <1>3 DEF Publisher!Unaudited
  <2> QED BY <1>3, <2>1, CompleteKeeps DEF Publisher!Audit
<1>4. CASE Publisher!Unaudited(v) # {}
  <2> DEFINE E == Publisher!Unaudited(v)
  <2>1. E \subseteq Items
    BY <1>1, ServicesAssumption
       DEF Publisher!Unaudited, PubShape, Items, Publisher!Marks, Publisher!PublisherAssumption
  <2>2. ~v.call[i].sync => n \in v.audited \cup E
    BY <1>2 DEF Publisher!Unaudited
  <2> HIDE DEF E
  <2>3. /\ Kept(v, w1) /\ Only(v, w1, i) /\ w1.job = v.job /\ w1.intent = v.intent
        /\ w1.claim = v.claim /\ w1.call[i].jobs = v.call[i].jobs
        /\ w1.call[i].key = v.call[i].key /\ w1.call[i].sync = v.call[i].sync
        /\ w1.call[i].entries = E
    BY <1>1 DEF PubShape, Kept, Only, PubFields, CallFields, E
  <2>4. Active(w1, i)
    BY <1>1, <2>3, ActiveKept
  <2>5. Auditing(w1, i, "audit")
    <3>1. Publisher!Job(w1, i) = n
      BY <2>3 DEF Publisher!Job
    <3>2. Reported(v, n) => Reported(w1, n)
      BY <2>3 DEF Reported, Kept, Publisher!Holds
    <3>3. w1.audited = v.audited
      BY <2>3 DEF Kept
    <3>4. E # {}
      BY <1>4 DEF E
    <3> HIDE DEF n, w1
    <3> QED BY <2>1, <2>2, <2>3, <3>1, <3>2, <3>3, <3>4 DEF Auditing, n
  <2>6. PubInv(Publisher!Locate(w1, i, "audit"))
    BY <2>4, <2>5, LocateKeeps DEF Publisher!Keys
  <2> QED BY <1>4, <2>6 DEF Publisher!Audit
<1> QED BY <1>3, <1>4

-----------------------------------------------------------------------------
(* Steps that change the documents *)

\* A document that may come is there: nobody else creates it again.
LEMMA CreatedLedger ==
    ASSUME NEW v, Ledger(v), NEW key \in Publisher!Keys, Publisher!Found(v, key) = {},
           NEW u, PubFields \subseteq DOMAIN u,
           u.cloud = Append(v.cloud, [key |-> key, items |-> {}]),
           u.coming \subseteq v.coming \ {key}, u.intent = v.intent, u.row = v.row,
           u.audited = v.audited, u.latest = v.latest, u.revisions = v.revisions,
           u.open = v.open, u.job = v.job, u.call = v.call
    PROVE  /\ Ledger(u) /\ Len(u.cloud) \in Publisher!Found(u, key)
           /\ \A k \in Publisher!Keys \ {key} : Publisher!Found(u, k) = Publisher!Found(v, k)
           /\ \A n : Reported(v, n) => Reported(u, n)
<1> DEFINE doc == [key |-> key, items |-> {}]
           new == Len(v.cloud) + 1
<1>1. v.cloud \in Seq(Documents) /\ doc \in Documents
  BY DEF Ledger, PubShape, Documents
<1>2. doc.key = key
  OBVIOUS
<1> HIDE DEF doc
<1>3. /\ u.cloud \in Seq(Documents) /\ Len(u.cloud) = new /\ new \in DOMAIN u.cloud
      /\ u.cloud[new] = doc /\ DOMAIN u.cloud = DOMAIN v.cloud \cup {new}
      /\ \A d \in DOMAIN v.cloud : d # new /\ u.cloud[d] = v.cloud[d]
  BY <1>1 DEF doc
<1> HIDE DEF new
<1>4. Publisher!Found(u, key) = {new}
  BY <1>2, <1>3 DEF Publisher!Found
<1>5. \A k \in Publisher!Keys \ {key} : Publisher!Found(u, k) = Publisher!Found(v, k)
  BY <1>2, <1>3 DEF Publisher!Found
<1>6. \A k \in Publisher!Keys : Publisher!Found(v, k) \subseteq Publisher!Found(u, k)
  BY <1>4, <1>5
<1>7. \A k \in Publisher!Keys : v.row[k] # None =>
         Publisher!Holds(u, k) = Publisher!Holds(v, k)
  BY <1>3 DEF Ledger, Placed, Publisher!Found, Publisher!Holds
<1>8. PubShape(u)
  BY <1>3 DEF Ledger, PubShape
<1>9. Single(u)
  BY <1>4, <1>5 DEF Ledger, Single
<1>10. Placed(u)
  BY <1>6 DEF Ledger, Placed
<1>11. \A n : Reported(v, n) => Reported(u, n)
  BY <1>7 DEF Reported, Publisher!Keys
<1>12. Written(u)
  BY <1>7, <1>11 DEF Ledger, Written, Publisher!Keys
<1> QED BY <1>3, <1>4, <1>5, <1>8, <1>9, <1>10, <1>11, <1>12 DEF Ledger

\* The document found or created is the one of its kind.
LEMMA NameKeeps ==
    ASSUME NEW v, NEW i, Active(v, i), NEW key \in Publisher!Keys, v.call[i].key = key,
           Auditing(v, i, key), NEW d \in Publisher!Found(v, key), d # None
    PROVE  PubInv(Publisher!Name(v, i, key, d))
<1> DEFINE u == Publisher!Name(v, i, key, d)
<1>1. PubShape(v) /\ Single(v) /\ Placed(v) /\ Written(v) /\ i \in Publishers /\ v.claim = i
      /\ v.call[i].jobs \subseteq 1..v.latest
  BY DEF Active, Ledger
<1>2. /\ PubFields \subseteq DOMAIN u /\ u.cloud = v.cloud /\ u.coming = v.coming
      /\ u.audited = v.audited /\ u.latest = v.latest /\ u.revisions = v.revisions
      /\ u.open = v.open /\ u.job = v.job /\ u.claim = v.claim
      /\ u.row = [v.row EXCEPT ![key] = d] /\ u.intent = v.intent \ {key}
  BY <1>1 DEF PubShape, Publisher!Name, PubFields
<1>3. /\ Only(v, u, i) /\ u.call[i].at = "share"
      /\ u.call[i].sync = v.call[i].sync /\ u.call[i].jobs = v.call[i].jobs
      /\ u.call[i].key = v.call[i].key /\ u.call[i].entries = v.call[i].entries
  BY <1>1 DEF PubShape, Only, Publisher!Name, PubFields, CallFields
<1> HIDE DEF u
<1>4. \A k \in Publisher!Keys : Publisher!Found(u, k) = Publisher!Found(v, k)
  BY <1>2 DEF Publisher!Found
<1>5. /\ DOMAIN u.row = Publisher!Keys /\ u.row[key] = d
      /\ \A k \in Publisher!Keys : v.row[k] # None => u.row[k] = v.row[k]
      /\ \A k \in Publisher!Keys : u.row[k] # None => k = key \/ u.row[k] = v.row[k]
  BY <1>1, <1>2 DEF PubShape, Placed, Single
<1>6. \A k \in Publisher!Keys : v.row[k] # None =>
         Publisher!Holds(u, k) = Publisher!Holds(v, k)
  BY <1>2, <1>5 DEF Publisher!Holds
<1>7. \A n : Reported(v, n) => Reported(u, n)
  BY <1>5, <1>6 DEF Reported, Publisher!Keys
<1>8. Ledger(u)
  <2>1. PubShape(u)
    <3>1. \A j \in Publishers : CallFields \subseteq DOMAIN u.call[j]
      BY <1>1, <1>3 DEF PubShape, Only
    <3> QED BY <1>1, <1>2, <1>3, <1>5, <3>1 DEF PubShape, Only
  <2>2. Single(u)
    BY <1>1, <1>2, <1>4 DEF Single
  <2>3. Placed(u)
    BY <1>1, <1>2, <1>4, <1>5 DEF Placed
  <2>4. Written(u)
    BY <1>1, <1>2, <1>5, <1>6, <1>7 DEF Written, Publisher!Keys
  <2> QED BY <2>1, <2>2, <2>3, <2>4 DEF Ledger
<1>9. \A j \in Publishers \ {i} : Resting(u, j)
  <2>1. ASSUME NEW j \in Publishers \ {i} PROVE Resting(u, j)
    <3>1. Resting(v, j) /\ u.call[j] = v.call[j]
      BY <1>3 DEF Active, Only
    <3> QED BY <1>2, <3>1 DEF Resting
  <2> QED BY <2>1
<1>10. Auditing(u, i, key)
  <2>1. Publisher!Job(u, i) = Publisher!Job(v, i)
    BY <1>3 DEF Publisher!Job
  <2> QED BY <1>2, <1>3, <1>7, <2>1 DEF Auditing
<1>11. Busy(u, i)
  BY <1>3, <1>5, <1>10 DEF Busy, Publisher!Awaits
<1>12. Leased(u, i)
  BY <1>1, <1>2, <1>3 DEF Leased
<1>13. PubInv(u)
  BY <1>1, <1>8, <1>9, <1>11, <1>12, Settled
<1> QED BY <1>13 DEF u

\* A part or an edit is added to a document.
LEMMA AddedLedger ==
    ASSUME NEW v, Ledger(v), NEW d \in DOMAIN v.cloud, NEW item \in Items,
           NEW u, u = Publisher!Add(v, d, item)
    PROVE  /\ Ledger(u) /\ PubFields \subseteq DOMAIN u /\ u.coming = v.coming
           /\ u.intent = v.intent /\ u.row = v.row
           /\ u.audited = v.audited /\ u.latest = v.latest /\ u.revisions = v.revisions
           /\ u.open = v.open /\ u.job = v.job /\ u.call = v.call /\ u.claim = v.claim
           /\ \A k \in Publisher!Keys : Publisher!Found(u, k) = Publisher!Found(v, k)
           /\ \A n : Reported(v, n) => Reported(u, n)
           /\ \A k \in Publisher!Keys : v.row[k] # None =>
                Publisher!Holds(v, k) \subseteq Publisher!Holds(u, k)
           /\ \A k \in Publisher!Keys : v.row[k] = d => item \in Publisher!Holds(u, k)
<1> DEFINE doc == [v.cloud[d] EXCEPT !.items = @ \cup {item}]
<1>1. v.cloud \in Seq(Documents) /\ v.cloud[d] \in Documents /\ PubFields \subseteq DOMAIN v
  BY DEF Ledger, PubShape
<1>2. /\ doc \in Documents /\ doc.key = v.cloud[d].key
      /\ doc.items = v.cloud[d].items \cup {item}
  BY <1>1 DEF Documents
<1>3. /\ PubFields \subseteq DOMAIN u /\ u.coming = v.coming
      /\ u.intent = v.intent /\ u.row = v.row
      /\ u.audited = v.audited /\ u.latest = v.latest /\ u.revisions = v.revisions
      /\ u.open = v.open /\ u.job = v.job /\ u.call = v.call /\ u.claim = v.claim
      /\ u.cloud = [v.cloud EXCEPT ![d] = doc]
  BY <1>1 DEF Publisher!Add, PubFields
<1> HIDE DEF doc
<1>4. /\ u.cloud \in Seq(Documents) /\ DOMAIN u.cloud = DOMAIN v.cloud
      /\ \A e \in DOMAIN v.cloud : u.cloud[e].key = v.cloud[e].key
                                   /\ v.cloud[e].items \subseteq u.cloud[e].items
      /\ item \in u.cloud[d].items
  BY <1>1, <1>2, <1>3
<1>5. \A k \in Publisher!Keys : Publisher!Found(u, k) = Publisher!Found(v, k)
  BY <1>4 DEF Publisher!Found
<1>6. \A k \in Publisher!Keys : v.row[k] # None =>
         Publisher!Holds(v, k) \subseteq Publisher!Holds(u, k)
  BY <1>3, <1>4 DEF Ledger, Placed, Publisher!Found, Publisher!Holds
<1>7. \A n : Reported(v, n) => Reported(u, n)
  BY <1>3, <1>6 DEF Reported, Publisher!Keys
<1>8. PubShape(u)
  BY <1>3, <1>4 DEF Ledger, PubShape
<1>9. Single(u)
  BY <1>3, <1>5 DEF Ledger, Single
<1>10. Placed(u)
  BY <1>3, <1>5 DEF Ledger, Placed
<1>11. Written(u)
  BY <1>3, <1>6, <1>7 DEF Ledger, Written, Publisher!Keys
<1>12. \A k \in Publisher!Keys : v.row[k] = d => item \in Publisher!Holds(u, k)
  BY <1>3, <1>4 DEF Publisher!Holds
<1> QED BY <1>3, <1>5, <1>6, <1>7, <1>8, <1>9, <1>10, <1>11, <1>12 DEF Ledger

\* What is compared with the last snapshot, and the new snapshot.
LEMMA SnapshotIs ==
    ASSUME NEW v, Ledger(v), NEW u,
           u = Publisher!Recorded(v) \/ u = Publisher!Saved(v)
    PROVE  Kept(v, u) /\ u.job = v.job /\ u.intent = v.intent /\ u.claim = v.claim
           /\ u.call = v.call
<1>1. PubFields \subseteq DOMAIN v /\ v.revisions \subseteq Edits
  BY DEF Ledger, PubShape
<1>2. CASE u = Publisher!Recorded(v)
  BY <1>1, <1>2 DEF Publisher!Recorded, Kept, PubFields
<1>3. CASE u = Publisher!Saved(v)
  BY <1>1, <1>3 DEF Publisher!Saved, Kept, PubFields
<1> QED BY <1>2, <1>3

LEMMA SnapshotKeeps ==
    ASSUME NEW v, NEW i, Active(v, i), NEW u,
           u = Publisher!Recorded(v) \/ u = Publisher!Saved(v)
    PROVE  /\ Active(u, i) /\ u.call = v.call /\ u.row = v.row /\ u.cloud = v.cloud
           /\ \A key : Auditing(v, i, key) => Auditing(u, i, key)
<1>1. Ledger(v) /\ i \in Publishers /\ v.call[i].key \in Publisher!Keys
  BY DEF Active
<1>2. Kept(v, u) /\ u.job = v.job /\ u.intent = v.intent /\ u.claim = v.claim /\ u.call = v.call
  BY <1>1, SnapshotIs
<1>3. Only(v, u, i)
  BY <1>1, <1>2 DEF Only, Ledger, PubShape
<1>4. Active(u, i)
  BY <1>1, <1>2, <1>3, ActiveKept
<1>5. \A key : Auditing(v, i, key) => Auditing(u, i, key)
  BY <1>2, SameAudit
<1> QED BY <1>2, <1>4, <1>5 DEF Kept

\* The part is there: the audit follows, or its next entry.
LEMMA AppendedKeeps ==
    ASSUME NEW v, NEW i, Active(v, i), Auditing(v, i, v.call[i].key),
           v.row[v.call[i].key] # None,
           Publisher!Part(v, i) \in Publisher!Holds(v, v.call[i].key)
    PROVE  PubInv(Publisher!Appended(v, i))
<1>1. PubShape(v) /\ Single(v) /\ Placed(v) /\ Written(v) /\ i \in Publishers /\ v.claim = i
      /\ v.call[i].jobs \subseteq 1..v.latest /\ v.call[i].key \in Publisher!Keys
  BY DEF Active, Ledger
<1>2. CASE v.call[i].key = "report"
  <2>1. ~v.call[i].sync /\ v.call[i].jobs # {}
    BY <1>2 DEF Auditing
  <2>2. Reported(v, Publisher!Job(v, i))
    BY <1>2 DEF Reported, Publisher!Part
  <2>3. PubInv(Publisher!Audit(v, i))
    BY <2>1, <2>2, AuditKeeps
  <2> QED BY <1>2, <2>3 DEF Publisher!Appended
<1>3. CASE v.call[i].key = "audit"
  <2> DEFINE e == Publisher!Part(v, i)
             u == [v EXCEPT !.audited = @ \cup {e}, !.call[i].entries = @ \ {e}]
             n == Publisher!Job(v, i)
  <2>1. e \in Publisher!Holds(v, "audit") /\ v.row["audit"] # None
    BY <1>3
  <2> HIDE DEF e
  <2>2. /\ PubFields \subseteq DOMAIN u /\ u.cloud = v.cloud /\ u.coming = v.coming
        /\ u.intent = v.intent /\ u.row = v.row
        /\ u.audited = v.audited \cup {e} /\ u.latest = v.latest /\ u.revisions = v.revisions
        /\ u.open = v.open /\ u.job = v.job /\ u.claim = v.claim
    BY <1>1 DEF PubShape, PubFields
  <2>3. /\ Only(v, u, i) /\ u.call[i].at = v.call[i].at
        /\ u.call[i].sync = v.call[i].sync /\ u.call[i].jobs = v.call[i].jobs
        /\ u.call[i].key = v.call[i].key /\ u.call[i].entries = v.call[i].entries \ {e}
    BY <1>1 DEF PubShape, Only, PubFields, CallFields
  <2> HIDE DEF u, n
  <2>4. \A m : Reported(v, m) => Reported(u, m)
    BY <2>2 DEF Reported, Publisher!Holds
  <2>5. Ledger(u)
    <3>1. PubShape(u)
      <4>1. \A j \in Publishers : CallFields \subseteq DOMAIN u.call[j]
        BY <1>1, <2>3 DEF PubShape, Only
      <4> QED BY <1>1, <2>2, <2>3, <4>1 DEF PubShape, Only
    <3>2. Single(u)
      BY <1>1, <2>2 DEF Single, Publisher!Found
    <3>3. Placed(u)
      BY <1>1, <2>2 DEF Placed, Publisher!Found
    <3>4. Written(u)
      BY <1>1, <2>1, <2>2, <2>4 DEF Written, Publisher!Holds
    <3> QED BY <3>1, <3>2, <3>3, <3>4 DEF Ledger
  <2>6. Active(u, i)
    <3>1. ASSUME NEW j \in Publishers \ {i} PROVE Resting(u, j)
      <4>1. Resting(v, j) /\ u.call[j] = v.call[j]
        BY <2>3 DEF Active, Only
      <4> QED BY <2>2, <4>1 DEF Resting
    <3> QED BY <1>1, <2>2, <2>3, <2>5, <3>1 DEF Active
  <2>7. Publisher!Job(u, i) = n
    BY <2>3 DEF Publisher!Job, n
  <2>8. /\ v.call[i].sync \/ (v.call[i].jobs # {} /\ Reported(v, n)
                              /\ n \in v.audited \cup v.call[i].entries)
        /\ v.call[i].entries \subseteq Items
    BY <1>3 DEF Auditing, n
  <2>9. CASE u.call[i].entries = {}
    <3>1. u.call[i].sync \/ (u.call[i].jobs # {} /\ Reported(u, Publisher!Job(u, i))
                             /\ Publisher!Job(u, i) \in u.audited)
      BY <2>2, <2>3, <2>4, <2>7, <2>8, <2>9
    <3>2. PubInv(Publisher!Complete(u, i))
      BY <2>6, <3>1, CompleteKeeps
    <3> QED BY <1>3, <2>9, <3>2 DEF Publisher!Appended, u, e
  <2>10. CASE u.call[i].entries # {}
    <3> DEFINE g == Publisher!Go(u, i, "parts")
    <3>1. Auditing(u, i, "audit")
      BY <2>2, <2>3, <2>4, <2>7, <2>8, <2>10 DEF Auditing
    <3>2. PubShape(u)
      BY <2>5 DEF Ledger
    <3>3. /\ Kept(u, g) /\ g.call[i].at = "parts" /\ g.call[i].sync = u.call[i].sync
          /\ g.call[i].jobs = u.call[i].jobs /\ g.call[i].key = u.call[i].key
          /\ g.call[i].entries = u.call[i].entries
      BY <1>1, <3>2, GoIs
    <3>4. Auditing(g, i, "audit")
      BY <3>1, <3>3, SameAudit
    <3>5. Busy(g, i)
      <4>1. g.row["audit"] # None
        BY <2>1, <2>2, <3>3 DEF Kept
      <4> HIDE DEF g
      <4> QED BY <1>3, <2>3, <3>3, <3>4, <4>1 DEF Busy, Publisher!Awaits, Publisher!Keys
    <3>6. PubInv(g)
      BY <2>6, <3>5, GoKeeps
    <3> QED BY <1>3, <2>10, <3>6 DEF Publisher!Appended, u, e
  <2> QED BY <2>9, <2>10
<1> QED BY <1>1, <1>2, <1>3 DEF Publisher!Keys

-----------------------------------------------------------------------------
(* The steps of a publisher *)

LEMMA PubSentinels ==
    /\ None \notin Publishers \cup Nat \cup Publisher!Unfinished
                       \cup {"complete", "manual", "gone"}
    /\ "gone" \notin Publishers
    /\ Versions \in Nat
BY ServicesAssumption DEF ServicesAssumption, Publisher!PublisherAssumption, Publisher!Unfinished

\* Who takes the lease is the only one at work.
LEMMA LeaseStarts ==
    ASSUME NEW v, PubInv(v), NEW i \in Publishers, v.call[i].at = "idle",
           Publisher!CanLease(v, i), NEW u, u = Publisher!Lease(v, i)
    PROVE  /\ Active(u, i) /\ u.call = v.call /\ u.row = v.row /\ u.job = v.job
           /\ u.latest = v.latest
<1>1. Ledger(v) /\ PubShape(v) /\ v.call[i].jobs \subseteq 1..v.latest
      /\ v.call[i].key \in Publisher!Keys
  BY DEF PubInv, Ledger, Leased, Busy
<1>2. Kept(v, u) /\ u.call = v.call /\ u.job = v.job /\ u.intent = v.intent /\ u.claim = i
  BY <1>1 DEF PubShape, Publisher!Lease, PubFields, Kept
<1>3. Only(v, u, i)
  BY <1>1, <1>2 DEF Only, PubShape
<1>4. Ledger(u)
  BY <1>1, <1>2, <1>3, LedgerKept DEF PubShape
<1>5. ASSUME NEW j \in Publishers \ {i} PROVE Resting(u, j)
  <2>1. Leased(v, j) /\ Busy(v, j)
    BY DEF PubInv
  <2>2. v.call[j].at = "idle"
    BY <2>1, PubSentinels DEF Leased, Publisher!CanLease
  <2> QED BY <1>2, <2>1, <2>2 DEF Resting, Leased, Busy, Kept
<1> QED BY <1>1, <1>2, <1>4, <1>5 DEF Active, Kept

\* A call begins.
LEMMA CallBegins ==
    ASSUME NEW v, NEW i, Active(v, i), NEW c, CallFields \subseteq DOMAIN c,
           c.jobs \subseteq 1..v.latest,
           NEW u, u = [v EXCEPT !.call[i] = c], Busy(u, i)
    PROVE  PubInv(u)
<1>1. PubShape(v) /\ i \in Publishers /\ v.claim = i
  BY DEF Active, Ledger
<1>2. /\ Kept(v, u) /\ Only(v, u, i) /\ u.job = v.job /\ u.intent = v.intent
      /\ u.claim = v.claim /\ u.call[i] = c /\ DOMAIN u.job = Publisher!Marks
  BY <1>1 DEF PubShape, Kept, Only, PubFields
<1>3. Leased(u, i)
  BY <1>1, <1>2 DEF Leased, Kept
<1> QED BY <1>2, <1>3, CallSteps

LEMMA PublishStep ==
    ASSUME PubInv(pub), NEW i \in Publishers, Publisher!Publish(i)
    PROVE  PubInv(pub')
<1> DEFINE jobs == {n \in Publisher!Marks : pub.job[n] \in Publisher!Unfinished}
           c == [Publisher!NoCall EXCEPT !.at = "next", !.jobs = jobs,
                    !.uncertain = {n \in jobs : pub.job[n] = "uncertain"},
                    !.spent = {n \in jobs : pub.attempts[n] >= Attempts}]
           v == Publisher!Lease(pub, i)
<1>1. Active(v, i) /\ v.latest = pub.latest
  BY LeaseStarts DEF Publisher!Publish
<1>2. PubShape(pub)
  BY DEF PubInv, Ledger
<1>3. jobs \subseteq 1..v.latest
  BY <1>1, <1>2, PubSentinels DEF PubShape, Publisher!Marks
<1>4. pub' = [v EXCEPT !.call[i] = c]
  BY DEF Publisher!Publish
<1> HIDE DEF jobs, v
<1>5. CallFields \subseteq DOMAIN c /\ c.jobs = jobs /\ c.at = "next" /\ c.key = "report"
      /\ ~c.sync
  BY DEF CallFields, Publisher!NoCall
<1> HIDE DEF c
<1>6. Busy(pub', i)
  <2>1. pub'.call[i] = c
    BY <1>1, <1>4 DEF Active, Ledger, PubShape, PubFields
  <2> QED BY <1>5, <2>1 DEF Busy, Publisher!Keys
<1> QED BY <1>1, <1>3, <1>4, <1>5, <1>6, CallBegins

LEMMA SyncStep ==
    ASSUME PubInv(pub), NEW i \in Publishers, Publisher!SyncEdits(i)
    PROVE  PubInv(pub')
<1> DEFINE c == [Publisher!NoCall EXCEPT !.at = "inspect", !.sync = TRUE]
           v == Publisher!Lease(pub, i)
<1>1. Active(v, i) /\ v.row = pub.row
  BY LeaseStarts DEF Publisher!SyncEdits
<1>2. pub' = [v EXCEPT !.call[i] = c] /\ pub.row["report"] # None
  BY DEF Publisher!SyncEdits
<1> HIDE DEF v
<1>3. CallFields \subseteq DOMAIN c /\ c.jobs = {} /\ c.at = "inspect" /\ c.key = "report" /\ c.sync
  BY DEF CallFields, Publisher!NoCall
<1> HIDE DEF c
<1>4. Busy(pub', i)
  <2>1. pub'.call[i] = c /\ pub'.row = v.row
    BY <1>1, <1>2 DEF Active, Ledger, PubShape, PubFields
  <2> QED BY <1>1, <1>2, <1>3, <2>1 DEF Busy, Publisher!Keys, Publisher!Awaits
<1> QED BY <1>1, <1>2, <1>3, <1>4, CallBegins

LEMMA NextJobStep ==
    ASSUME PubInv(pub), NEW i \in Publishers, Publisher!NextJob(i)
    PROVE  PubInv(pub')
<1> DEFINE n == Publisher!Job(pub, i)
           skip(s) == [pub EXCEPT !.job[n] = s, !.call[i].jobs = @ \ {n}]
<1>1. Active(pub, i) /\ Busy(pub, i) /\ pub.call[i].at = "next"
  BY OneActive DEF Publisher!NextJob
<1>2. PubShape(pub) /\ pub.call[i].jobs \subseteq 1..pub.latest /\ pub.claim = i
      /\ pub.call[i].key \in Publisher!Keys /\ ~pub.call[i].sync
  BY <1>1 DEF Active, Ledger, Busy
<1>3. CASE pub.call[i].jobs = {}
  BY <1>1, <1>3, LeaveKeeps DEF Publisher!NextJob
<1>4. CASE pub.call[i].jobs # {}
  <2>1. n \in 1..pub.latest /\ n \in Publisher!Marks /\ n \in pub.call[i].jobs
    BY <1>1, <1>4, JobIs
  <2>2. ASSUME NEW s \in {"superseded", "manual"}, pub' = skip(s) PROVE PubInv(pub')
    <3> DEFINE u == skip(s)
    <3> HIDE DEF n
    <3>1. /\ Kept(pub, u) /\ Only(pub, u, i) /\ u.job = [pub.job EXCEPT ![n] = s]
          /\ u.intent = pub.intent /\ u.claim = pub.claim
          /\ u.call[i].jobs = pub.call[i].jobs \ {n} /\ u.call[i].key = pub.call[i].key
          /\ u.call[i].at = "next" /\ u.call[i].sync = pub.call[i].sync
      BY <1>1, <1>2 DEF PubShape, Kept, Only, PubFields, CallFields
    <3>2. Leased(u, i) /\ Busy(u, i)
      BY <1>2, <3>1 DEF Leased, Busy, Kept
    <3>3. DOMAIN u.job = Publisher!Marks
      BY <1>2, <3>1 DEF PubShape
    <3>4. ASSUME NEW m \in Publisher!Marks PROVE u.job[m] = pub.job[m] \/ Done(pub, m, u.job[m])
      <4>1. CASE m = n
        BY <1>2, <2>1, <3>1, <4>1 DEF Done, PubShape
      <4>2. CASE m # n
        BY <1>2, <3>1, <4>2 DEF PubShape
      <4> QED BY <4>1, <4>2
    <3>5. PubInv(u)
      BY <1>1, <3>1, <3>2, <3>3, <3>4, CallSteps
    <3> QED BY <2>2, <3>5
  <2>3. ASSUME pub' = [pub EXCEPT !.attempts[n] = @ + 1, !.call[i].at = "folders"]
        PROVE  PubInv(pub')
    <3> DEFINE u == [pub EXCEPT !.attempts[n] = @ + 1, !.call[i].at = "folders"]
    <3> HIDE DEF n
    <3>1. /\ Kept(pub, u) /\ Only(pub, u, i) /\ u.job = pub.job
          /\ u.intent = pub.intent /\ u.claim = pub.claim
          /\ u.call[i].jobs = pub.call[i].jobs /\ u.call[i].key = pub.call[i].key
          /\ u.call[i].at = "folders" /\ u.call[i].sync = pub.call[i].sync
      BY <1>1, <1>2 DEF PubShape, Kept, Only, PubFields, CallFields
    <3>2. Leased(u, i) /\ Busy(u, i)
      BY <1>2, <1>4, <3>1 DEF Leased, Busy, Kept, Publisher!Awaits
    <3>3. DOMAIN u.job = Publisher!Marks
      BY <1>2, <3>1 DEF PubShape
    <3>4. PubInv(u)
      BY <1>1, <3>1, <3>2, <3>3, CallSteps
    <3> QED BY <2>3, <3>4
  <2>4. CASE n < pub.latest
    BY <1>4, <2>2, <2>4 DEF Publisher!NextJob
  <2>5. CASE ~(n < pub.latest) /\ n = pub.latest /\ n \in pub.call[i].spent
    BY <1>4, <2>2, <2>5 DEF Publisher!NextJob
  <2>6. CASE ~(n < pub.latest) /\ ~(n = pub.latest /\ n \in pub.call[i].spent)
    BY <1>4, <2>3, <2>6 DEF Publisher!NextJob
  <2> QED BY <2>4, <2>5, <2>6
<1> QED BY <1>3, <1>4

LEMMA FoldersStep ==
    ASSUME PubInv(pub), NEW i \in Publishers, Publisher!Folders(i)
    PROVE  PubInv(pub')
<1>1. Active(pub, i) /\ Busy(pub, i) /\ pub.call[i].at = "folders"
  BY OneActive DEF Publisher!Folders
<1>2. Auditing(pub, i, "report")
  BY <1>1 DEF Busy, Auditing
<1> QED BY <1>1, <1>2, LocateKeeps DEF Publisher!Folders, Publisher!Keys

\* With at most one document of a kind, a search finds none or the one.
LEMMA FoundIs ==
    ASSUME NEW v, Ledger(v), NEW key \in Publisher!Keys
    PROVE  \/ Publisher!Found(v, key) = {} /\ Publisher!Cardinality(Publisher!Found(v, key)) = 0
           \/ /\ Publisher!Cardinality(Publisher!Found(v, key)) = 1
              /\ Publisher!Found(v, key) # {}
              /\ Publisher!Least(Publisher!Found(v, key)) \in Publisher!Found(v, key)
              /\ Publisher!Least(Publisher!Found(v, key)) # None
<1> DEFINE F == Publisher!Found(v, key)
<1>1. \A d, e \in F : d = e
  BY DEF Ledger, Single
<1>2. F \in SUBSET Nat
  BY DEF Ledger, PubShape, Publisher!Found
<1> HIDE DEF F
<1>3. CASE F = {}
  <2>1. Publisher!Cardinality({}) = 0
    BY FS_EmptySet DEF Publisher!Cardinality, Cardinality, Publisher!IsFiniteSet, IsFiniteSet
  <2> QED BY <1>3, <2>1 DEF F
<1>4. CASE F # {}
  <2>1. PICK d \in F : F = {d}
    BY <1>1, <1>4
  <2>2. Publisher!Cardinality({d}) = 1
    BY FS_Singleton DEF Publisher!Cardinality, Cardinality, Publisher!IsFiniteSet, IsFiniteSet
  <2>3. Publisher!Least(F) \in F
    BY <1>2, <1>4, LeastIs
  <2>4. Publisher!Least(F) # None
    BY <1>2, <2>3, PubSentinels
  <2> QED BY <1>4, <2>1, <2>2, <2>3, <2>4 DEF F
<1> QED BY <1>3, <1>4

\* A field that the proof does not look at changes.
LEMMA CountedKeeps ==
    ASSUME NEW v, NEW i, Active(v, i), NEW u, NEW n, u = [v EXCEPT !.failures = n]
    PROVE  /\ Active(u, i) /\ u.call = v.call /\ u.row = v.row /\ u.cloud = v.cloud
           /\ u.intent = v.intent /\ u.coming = v.coming
           /\ \A key : Auditing(v, i, key) => Auditing(u, i, key)
<1>1. PubShape(v) /\ i \in Publishers /\ v.call[i].key \in Publisher!Keys
  BY DEF Active, Ledger
<1>2. Kept(v, u) /\ u.job = v.job /\ u.intent = v.intent /\ u.claim = v.claim /\ u.call = v.call
  BY <1>1 DEF PubShape, PubFields, Kept
<1>3. Only(v, u, i)
  BY <1>1, <1>2 DEF Only, PubShape
<1>4. Active(u, i)
  BY <1>1, <1>2, <1>3, ActiveKept
<1>5. \A key : Auditing(v, i, key) => Auditing(u, i, key)
  BY <1>2, SameAudit
<1> QED BY <1>2, <1>4, <1>5 DEF Kept

LEMMA SearchStep ==
    ASSUME PubInv(pub), NEW i \in Publishers, Publisher!Search(i)
    PROVE  PubInv(pub')
<1> DEFINE key == pub.call[i].key
           found == Publisher!Found(pub, key)
           doubtful == \/ key \in pub.intent
                       \/ key = "report" /\ Publisher!Job(pub, i) \in pub.call[i].uncertain
           u == [Publisher!Go(pub, i, "create") EXCEPT !.intent = @ \cup {key}]
           number == Publisher!Cardinality(found)
           several == Publisher!Failed(pub, i, FALSE)
           one == Publisher!Name(pub, i, key, Publisher!Least(found))
           perhaps == Publisher!Failed(pub, i, TRUE)
<1>1. Active(pub, i) /\ Busy(pub, i) /\ pub.call[i].at = "find"
  BY OneActive DEF Publisher!Search
<1>2. Ledger(pub) /\ PubShape(pub) /\ key \in Publisher!Keys /\ Auditing(pub, i, key)
      /\ Single(pub) /\ pub.claim = i /\ pub.call[i].jobs \subseteq 1..pub.latest
      /\ i \in Publishers
  BY <1>1 DEF Active, Ledger, Busy
<1>3. pub.call[i].sync \/ pub.call[i].jobs # {}
  BY <1>2 DEF Auditing
<1>4. pub' = CASE number > 1 -> several [] number = 1 -> one
               [] found = {} /\ doubtful -> perhaps [] OTHER -> u
  BY DEF Publisher!Search
<1>5. CASE found # {}
  <2>1. Publisher!Cardinality(found) = 1 /\ Publisher!Least(found) \in found
        /\ Publisher!Least(found) # None
    BY <1>2, <1>5, FoundIs
  <2>2. PubInv(one)
    BY <1>1, <1>2, <2>1, NameKeeps
  <2>3. number = 1
    BY <2>1
  <2> HIDE DEF found, doubtful, u, number, several, one, perhaps
  <2>4. pub' = one
    BY <1>4, <1>5, <2>3
  <2> QED BY <2>2, <2>4
<1>6. CASE found = {}
  <2>1. number = 0
    BY <1>2, <1>6, FoundIs
  <2>2. CASE doubtful
    <3>1. PubInv(perhaps)
      BY <1>1, <1>3, FailedKeeps
    <3> HIDE DEF found, doubtful, u, number, several, one, perhaps
    <3>2. pub' = perhaps
      BY <1>4, <1>6, <2>1, <2>2
    <3> QED BY <3>1, <3>2
  <2>3. CASE ~doubtful
    <3>1. pub' = u
      <4> HIDE DEF found, doubtful, u, number, several, one, perhaps
      <4> QED BY <1>4, <1>6, <2>1, <2>3
    <3>2. /\ Kept(pub, u) /\ Only(pub, u, i) /\ u.job = pub.job
          /\ u.intent = pub.intent \cup {key} /\ u.claim = pub.claim
          /\ u.call[i].jobs = pub.call[i].jobs /\ u.call[i].key = key
          /\ u.call[i].at = "create" /\ u.call[i].sync = pub.call[i].sync
          /\ u.call[i].entries = pub.call[i].entries
      BY <1>2 DEF PubShape, Kept, Only, PubFields, CallFields, Publisher!Go
    <3>3. key \notin pub.coming
      BY <1>2, <2>3 DEF Single
    <3>4. Publisher!Found(u, key) = {} /\ u.coming = pub.coming
      BY <1>6, <3>2 DEF Publisher!Found, Kept
    <3>6. DOMAIN u.job = Publisher!Marks
      BY <1>2, <3>2 DEF PubShape
    <3> HIDE DEF u, found, key
    <3>5. Auditing(u, i, key)
      BY <1>2, <3>2, SameAudit
    <3>7. Leased(u, i)
      BY <1>2, <3>2 DEF Leased, Kept
    <3>8. Busy(u, i)
      BY <1>2, <3>2, <3>3, <3>4, <3>5 DEF Busy, Publisher!Awaits
    <3>9. PubInv(u)
      BY <1>1, <3>2, <3>6, <3>7, <3>8, CallSteps
    <3> QED BY <3>1, <3>9
  <2> QED BY <2>2, <2>3
<1> QED BY <1>5, <1>6

\* The document is created: by the answer, or without one.
LEMMA CreateActive ==
    ASSUME NEW v, NEW i, Active(v, i), NEW key \in Publisher!Keys,
           Publisher!Found(v, key) = {}, key \notin v.coming,
           NEW u, u = Publisher!Create(v, key)
    PROVE  /\ Active(u, i) /\ u.call = v.call /\ Len(u.cloud) \in Publisher!Found(u, key)
           /\ Len(u.cloud) # None
           /\ \A k : Auditing(v, i, k) => Auditing(u, i, k)
<1>1. Ledger(v) /\ PubShape(v) /\ i \in Publishers
  BY DEF Active, Ledger
<1>2. /\ PubFields \subseteq DOMAIN u
      /\ u.cloud = Append(v.cloud, [key |-> key, items |-> {}])
      /\ u.coming = v.coming /\ u.intent = v.intent /\ u.row = v.row
      /\ u.audited = v.audited /\ u.latest = v.latest /\ u.revisions = v.revisions
      /\ u.open = v.open /\ u.job = v.job /\ u.call = v.call /\ u.claim = v.claim
  BY <1>1 DEF PubShape, PubFields, Publisher!Create
<1>3. u.coming \subseteq v.coming \ {key}
  BY <1>2
<1>4. /\ Ledger(u) /\ Len(u.cloud) \in Publisher!Found(u, key)
      /\ \A n : Reported(v, n) => Reported(u, n)
  BY <1>1, <1>2, <1>3, CreatedLedger
<1>5. Active(u, i)
  <2>1. ASSUME NEW j \in Publishers \ {i} PROVE Resting(u, j)
    <3>1. Resting(v, j)
      BY DEF Active
    <3> QED BY <1>2, <3>1 DEF Resting
  <2> QED BY <1>2, <1>4, <2>1 DEF Active
<1>6. Len(u.cloud) # None
  BY <1>4, PubSentinels DEF Ledger, PubShape
<1>7. ASSUME NEW k, Auditing(v, i, k) PROVE Auditing(u, i, k)
  <2>1. Publisher!Job(u, i) = Publisher!Job(v, i)
    BY <1>2 DEF Publisher!Job
  <2> QED BY <1>2, <1>4, <1>7, <2>1 DEF Auditing
<1> QED BY <1>2, <1>4, <1>5, <1>6, <1>7

LEMMA CreatedStep ==
    ASSUME PubInv(pub), NEW i \in Publishers, Publisher!Created(i)
    PROVE  PubInv(pub')
<1> DEFINE key == pub.call[i].key
           v == Publisher!Create(pub, key)
<1>1. Active(pub, i) /\ Busy(pub, i) /\ pub.call[i].at = "create"
  BY OneActive DEF Publisher!Created
<1>2. /\ key \in Publisher!Keys /\ Auditing(pub, i, key)
      /\ Publisher!Found(pub, key) = {} /\ key \notin pub.coming
  BY <1>1 DEF Busy
<1>3. /\ Active(v, i) /\ v.call = pub.call /\ Len(v.cloud) \in Publisher!Found(v, key)
      /\ Len(v.cloud) # None /\ Auditing(v, i, key)
  BY <1>1, <1>2, CreateActive
<1>4. pub' = Publisher!Name(v, i, key, Len(v.cloud))
  BY DEF Publisher!Created
<1> HIDE DEF v
<1>5. v.call[i].key = key
  BY <1>3
<1> HIDE DEF key
<1> QED BY <1>2, <1>3, <1>4, <1>5, NameKeeps

\* A creation that was intended may come later.
LEMMA ComingLedger ==
    ASSUME NEW v, Ledger(v), NEW key \in Publisher!Keys, Publisher!Found(v, key) = {},
           key \in v.intent, NEW u, u = [v EXCEPT !.coming = @ \cup {key}]
    PROVE  /\ Ledger(u) /\ u.call = v.call /\ u.latest = v.latest /\ u.claim = v.claim
<1>1. /\ PubFields \subseteq DOMAIN u /\ u.cloud = v.cloud
      /\ u.coming = v.coming \cup {key} /\ u.intent = v.intent /\ u.row = v.row
      /\ u.audited = v.audited /\ u.latest = v.latest /\ u.revisions = v.revisions
      /\ u.open = v.open /\ u.job = v.job /\ u.call = v.call /\ u.claim = v.claim
  BY DEF Ledger, PubShape, PubFields
<1>2. PubShape(u)
  BY <1>1 DEF Ledger, PubShape
<1>3. Single(u)
  BY <1>1 DEF Ledger, Single, Publisher!Found
<1>4. Placed(u)
  BY <1>1 DEF Ledger, Placed, Publisher!Found
<1>5. Written(u)
  BY <1>1 DEF Ledger, Written, Reported, Publisher!Holds
<1> QED BY <1>1, <1>2, <1>3, <1>4, <1>5 DEF Ledger

LEMMA NotCreatedStep ==
    ASSUME PubInv(pub), NEW i \in Publishers, Publisher!NotCreated(i)
    PROVE  PubInv(pub')
<1> DEFINE key == pub.call[i].key
           v == [pub EXCEPT !.failures = @ + 1]
<1>1. Active(pub, i) /\ Busy(pub, i) /\ pub.call[i].at = "create"
  BY OneActive DEF Publisher!NotCreated
<1>2. /\ key \in Publisher!Keys /\ Auditing(pub, i, key) /\ key \in pub.intent
      /\ Publisher!Found(pub, key) = {} /\ key \notin pub.coming /\ i \in Publishers
  BY <1>1 DEF Busy
<1>3. pub.call[i].sync \/ pub.call[i].jobs # {}
  BY <1>2 DEF Auditing
<1>4. /\ Active(v, i) /\ v.call = pub.call /\ v.cloud = pub.cloud
      /\ v.intent = pub.intent /\ v.coming = pub.coming
  BY <1>1, CountedKeeps
<1>5. Publisher!Found(v, key) = {}
  BY <1>2, <1>4 DEF Publisher!Found
<1>6. \/ pub' = Publisher!Failed([v EXCEPT !.intent = @ \ {key}], i, FALSE)
      \/ pub' = Publisher!Failed(Publisher!Create(v, key), i, TRUE)
      \/ pub' = Publisher!Failed([v EXCEPT !.coming = @ \cup {key}], i, TRUE)
  BY DEF Publisher!NotCreated
<1> HIDE DEF v, key
<1>7. PubInv(Publisher!Failed([v EXCEPT !.intent = @ \ {key}], i, FALSE))
  <2> DEFINE u == [v EXCEPT !.intent = @ \ {key}]
  <2>1. PubShape(v) /\ v.call[i].key \in Publisher!Keys
    BY <1>4 DEF Active, Ledger
  <2>2. /\ Kept(v, u) /\ u.job = v.job /\ u.intent = v.intent \ {key} /\ u.claim = v.claim
        /\ u.call = v.call
    BY <2>1 DEF PubShape, PubFields, Kept
  <2> HIDE DEF u
  <2>3. Only(v, u, i) /\ v.intent \cap v.coming \subseteq u.intent
    BY <1>2, <1>4, <2>1, <2>2 DEF Only, PubShape
  <2>4. u.call[i].jobs = v.call[i].jobs /\ u.call[i].key \in Publisher!Keys
    BY <2>1, <2>2
  <2>5. Active(u, i)
    BY <1>4, <2>2, <2>3, <2>4, ActiveKept
  <2>6. u.call[i].sync \/ u.call[i].jobs # {}
    BY <1>3, <1>4, <2>2
  <2>7. PubInv(Publisher!Failed(u, i, FALSE))
    BY <2>5, <2>6, FailedKeeps
  <2> QED BY <2>7 DEF u
<1>8. PubInv(Publisher!Failed(Publisher!Create(v, key), i, TRUE))
  <2> DEFINE u == Publisher!Create(v, key)
  <2>1. Active(u, i) /\ u.call = v.call
    BY <1>2, <1>4, <1>5, CreateActive
  <2>2. u.call[i].sync \/ u.call[i].jobs # {}
    BY <1>3, <1>4, <2>1
  <2> QED BY <2>1, <2>2, FailedKeeps
<1>9. PubInv(Publisher!Failed([v EXCEPT !.coming = @ \cup {key}], i, TRUE))
  <2> DEFINE u == [v EXCEPT !.coming = @ \cup {key}]
  <2>1. Ledger(v) /\ key \in v.intent
    BY <1>2, <1>4 DEF Active
  <2>2. Ledger(u) /\ u.call = v.call /\ u.latest = v.latest /\ u.claim = v.claim
    BY <1>2, <1>5, <2>1, ComingLedger
  <2> HIDE DEF u
  <2>3. \A j \in Publishers \ {i} : Resting(u, j)
    BY <1>4, <2>2 DEF Active, Resting
  <2>4. Active(u, i)
    BY <1>4, <2>2, <2>3 DEF Active
  <2>5. u.call[i].sync \/ u.call[i].jobs # {}
    BY <1>3, <1>4, <2>2
  <2>6. PubInv(Publisher!Failed(u, i, TRUE))
    BY <2>4, <2>5, FailedKeeps
  <2> QED BY <2>6 DEF u
<1> QED BY <1>6, <1>7, <1>8, <1>9

LEMMA SharedStep ==
    ASSUME PubInv(pub), NEW i \in Publishers, Publisher!Shared(i)
    PROVE  PubInv(pub')
<1> DEFINE key == pub.call[i].key
           stage == IF key = "report" THEN "inspect" ELSE "parts"
           u == [Publisher!Go(pub, i, stage) EXCEPT !.open = @ \cup {key}]
<1>1. Active(pub, i) /\ Busy(pub, i) /\ pub.call[i].at = "share"
  BY OneActive DEF Publisher!Shared
<1>2. /\ Ledger(pub) /\ PubShape(pub) /\ key \in Publisher!Keys /\ Auditing(pub, i, key)
      /\ pub.row[key] # None /\ i \in Publishers /\ pub.claim = i
      /\ pub.call[i].jobs \subseteq 1..pub.latest
  BY <1>1 DEF Active, Ledger, Busy
<1>3. pub' = u
  BY DEF Publisher!Shared
<1> HIDE DEF stage
<1>4. /\ PubFields \subseteq DOMAIN u /\ u.cloud = pub.cloud /\ u.row = pub.row
      /\ u.coming = pub.coming /\ u.audited = pub.audited /\ u.latest = pub.latest
      /\ u.revisions = pub.revisions /\ u.open = pub.open \cup {key} /\ u.job = pub.job
      /\ u.intent = pub.intent /\ u.claim = pub.claim
      /\ Only(pub, u, i) /\ u.call[i].sync = pub.call[i].sync
      /\ u.call[i].jobs = pub.call[i].jobs /\ u.call[i].key = key
      /\ u.call[i].entries = pub.call[i].entries /\ u.call[i].at = stage
  BY <1>2 DEF PubShape, Only, Publisher!Go, PubFields, CallFields
<1> HIDE DEF u, key
<1>5. Ledger(u)
  <2>1. PubShape(u)
    <3>1. \A j \in Publishers : CallFields \subseteq DOMAIN u.call[j]
      BY <1>2, <1>4 DEF PubShape, Only
    <3> QED BY <1>2, <1>4, <3>1 DEF PubShape, Only
  <2>2. Single(u)
    BY <1>2, <1>4 DEF Ledger, Single, Publisher!Found
  <2>3. Placed(u)
    BY <1>2, <1>4 DEF Ledger, Placed, Publisher!Found
  <2>4. Written(u)
    BY <1>2, <1>4 DEF Ledger, Written, Reported, Publisher!Holds
  <2> QED BY <2>1, <2>2, <2>3, <2>4 DEF Ledger
<1>6. \A j \in Publishers \ {i} : Resting(u, j)
  BY <1>1, <1>4 DEF Active, Resting, Only
<1>7. Auditing(u, i, key)
  <2>1. Publisher!Job(u, i) = Publisher!Job(pub, i)
    BY <1>4 DEF Publisher!Job
  <2> QED BY <1>2, <1>4, <2>1 DEF Auditing, Reported, Publisher!Holds
<1>8. Leased(u, i)
  BY <1>2, <1>4 DEF Leased
<1>9. Busy(u, i)
  <2>1. CASE key = "report"
    BY <1>2, <1>4, <1>7, <2>1 DEF Busy, Publisher!Awaits, Auditing, stage
  <2>2. CASE key # "report"
    BY <1>2, <1>4, <1>7, <2>2 DEF Busy, Publisher!Awaits, stage
  <2> QED BY <2>1, <2>2
<1>10. PubInv(u)
  BY <1>2, <1>5, <1>6, <1>8, <1>9, Settled
<1> QED BY <1>3, <1>10

LEMMA InspectStep ==
    ASSUME PubInv(pub), NEW i \in Publishers, Publisher!Inspect(i)
    PROVE  PubInv(pub')
<1> DEFINE v == Publisher!Recorded(pub)
           g == Publisher!Go(v, i, "parts")
<1>1. Active(pub, i) /\ Busy(pub, i) /\ pub.call[i].at = "inspect"
  BY OneActive DEF Publisher!Inspect
<1>2. /\ pub.call[i].key = "report" /\ pub.row["report"] # None
      /\ pub.call[i].sync \/ pub.call[i].jobs # {}
  BY <1>1 DEF Busy
<1>3. pub' = IF pub.call[i].sync THEN Publisher!Audit(v, i) ELSE g
  BY DEF Publisher!Inspect
<1>4. /\ Active(v, i) /\ v.call = pub.call /\ v.row = pub.row
      /\ \A key : Auditing(pub, i, key) => Auditing(v, i, key)
  BY <1>1, SnapshotKeeps
<1> HIDE DEF v
<1>5. CASE pub.call[i].sync
  BY <1>3, <1>4, <1>5, AuditKeeps
<1>6. CASE ~pub.call[i].sync
  <2>1. Auditing(v, i, "report")
    BY <1>2, <1>4, <1>6 DEF Auditing
  <2>2. PubShape(v) /\ i \in Publishers
    BY <1>4 DEF Active, Ledger
  <2>3. /\ Kept(v, g) /\ g.call[i].at = "parts" /\ g.call[i].sync = v.call[i].sync
        /\ g.call[i].jobs = v.call[i].jobs /\ g.call[i].key = v.call[i].key
        /\ g.call[i].entries = v.call[i].entries
    BY <2>2, GoIs
  <2>4. Auditing(g, i, "report")
    BY <2>1, <2>3, SameAudit
  <2>5. g.row["report"] # None
    BY <1>2, <1>4, <2>3 DEF Kept
  <2>6. Busy(g, i)
    BY <1>2, <1>4, <2>3, <2>4, <2>5 DEF Busy, Publisher!Awaits, Publisher!Keys
  <2>7. PubInv(g)
    BY <1>4, <2>6, GoKeeps
  <2> QED BY <1>3, <1>6, <2>7
<1> QED BY <1>5, <1>6

\* What a part that is there leads to, with or without a new snapshot.
LEMMA SnapshotAppended ==
    ASSUME NEW v, NEW i, Active(v, i), Auditing(v, i, v.call[i].key),
           v.row[v.call[i].key] # None,
           Publisher!Part(v, i) \in Publisher!Holds(v, v.call[i].key),
           NEW u, u = v \/ u = Publisher!Recorded(v) \/ u = Publisher!Saved(v)
    PROVE  PubInv(Publisher!Appended(u, i))
<1>1. CASE u = v
  BY <1>1, AppendedKeeps
<1>2. CASE u # v
  <2>1. /\ Active(u, i) /\ u.call = v.call /\ u.row = v.row /\ u.cloud = v.cloud
        /\ Auditing(u, i, v.call[i].key)
    BY <1>2, SnapshotKeeps
  <2>2. Publisher!Part(u, i) = Publisher!Part(v, i)
    BY <2>1 DEF Publisher!Part, Publisher!Job
  <2>3. Publisher!Holds(u, v.call[i].key) = Publisher!Holds(v, v.call[i].key)
    BY <2>1 DEF Publisher!Holds
  <2> QED BY <2>1, <2>2, <2>3, AppendedKeeps
<1> QED BY <1>1, <1>2

LEMMA PartsStep ==
    ASSUME PubInv(pub), NEW i \in Publishers, Publisher!Parts(i)
    PROVE  PubInv(pub')
<1> DEFINE key == pub.call[i].key
           g == Publisher!Go(pub, i, "append")
<1>1. Active(pub, i) /\ Busy(pub, i) /\ pub.call[i].at = "parts"
  BY OneActive DEF Publisher!Parts
<1>2. key \in Publisher!Keys /\ Auditing(pub, i, key) /\ pub.row[key] # None
  BY <1>1 DEF Busy
<1>3. CASE Publisher!Part(pub, i) \in Publisher!Holds(pub, key)
  <2> DEFINE u == IF key = "report" THEN Publisher!Saved(pub) ELSE pub
  <2>1. pub' = Publisher!Appended(u, i)
    BY <1>3 DEF Publisher!Parts
  <2>2. u = pub \/ u = Publisher!Saved(pub)
    OBVIOUS
  <2> HIDE DEF u
  <2> QED BY <1>1, <1>2, <1>3, <2>1, <2>2, SnapshotAppended
<1>4. CASE Publisher!Part(pub, i) \notin Publisher!Holds(pub, key)
  <2>1. pub' = g
    BY <1>4 DEF Publisher!Parts
  <2>2. PubShape(pub) /\ i \in Publishers
    BY <1>1 DEF Active, Ledger
  <2>3. /\ Kept(pub, g) /\ g.call[i].at = "append" /\ g.call[i].sync = pub.call[i].sync
        /\ g.call[i].jobs = pub.call[i].jobs /\ g.call[i].key = key
        /\ g.call[i].entries = pub.call[i].entries
    BY <2>2, GoIs
  <2> HIDE DEF g, key
  <2>4. Auditing(g, i, key)
    BY <1>2, <2>3, SameAudit
  <2>5. g.row[key] # None
    BY <1>2, <2>3 DEF Kept
  <2>6. Busy(g, i)
    BY <1>2, <2>3, <2>4, <2>5 DEF Busy, Publisher!Awaits
  <2>7. PubInv(g)
    BY <1>1, <2>6, GoKeeps DEF g
  <2> QED BY <2>1, <2>7
<1> QED BY <1>3, <1>4

LEMMA SamePart ==
    ASSUME NEW v, NEW u, NEW i, u.call = v.call
    PROVE  Publisher!Part(u, i) = Publisher!Part(v, i)
<1>1. Publisher!Job(u, i) = Publisher!Job(v, i)
  BY DEF Publisher!Job
<1> QED BY <1>1 DEF Publisher!Part

\* The part is in the document now.
LEMMA AddedActive ==
    ASSUME NEW v, NEW i, Active(v, i), NEW key \in Publisher!Keys, key = v.call[i].key,
           Auditing(v, i, key), v.row[key] # None,
           NEW u, u = Publisher!Add(v, v.row[key], Publisher!Part(v, i))
    PROVE  /\ Active(u, i) /\ u.call = v.call /\ u.row = v.row
           /\ Auditing(u, i, key)
           /\ Publisher!Part(u, i) \in Publisher!Holds(u, key)
<1> DEFINE d == v.row[key]
           item == Publisher!Part(v, i)
<1>1. Ledger(v) /\ PubShape(v) /\ Placed(v) /\ v.claim = i /\ i \in Publishers
      /\ v.call[i].jobs \subseteq 1..v.latest
  BY DEF Active, Ledger
<1>2. d \in DOMAIN v.cloud
  BY <1>1 DEF Placed, Publisher!Found
<1>3. item \in Items
  <2>1. CASE key = "report"
    BY <2>1, JobIs DEF Publisher!Part, Auditing, Items
  <2>2. CASE key # "report"
    BY <2>2 DEF Publisher!Part, Auditing, Publisher!Keys
  <2> QED BY <2>1, <2>2
<1>4. Publisher!Part(u, i) = item /\ Publisher!Job(u, i) = Publisher!Job(v, i)
      /\ Ledger(u) /\ u.call = v.call /\ u.row = v.row /\ u.latest = v.latest
      /\ u.claim = v.claim /\ u.audited = v.audited
      /\ (\A n : Reported(v, n) => Reported(u, n)) /\ item \in Publisher!Holds(u, key)
  <2>1. Ledger(u) /\ u.call = v.call /\ u.row = v.row /\ u.latest = v.latest
        /\ u.claim = v.claim /\ u.audited = v.audited
        /\ (\A n : Reported(v, n) => Reported(u, n)) /\ item \in Publisher!Holds(u, key)
    <3> HIDE DEF item, d
    <3>1. u = Publisher!Add(v, d, item) /\ d = v.row[key]
      BY DEF item, d
    <3>2. Ledger(u)
      BY <1>1, <1>2, <1>3, <3>1, AddedLedger
    <3>3. item \in Publisher!Holds(u, key)
      BY <1>1, <1>2, <1>3, <3>1, AddedLedger
    <3>4. /\ u.call = v.call /\ u.row = v.row /\ u.latest = v.latest
          /\ u.claim = v.claim /\ u.audited = v.audited
      BY <1>1, <3>1 DEF Publisher!Add, PubShape, PubFields
    <3>5. \A n : Reported(v, n) => Reported(u, n)
      BY <1>1, <1>2, <1>3, <3>1, AddedLedger
    <3> QED BY <3>2, <3>3, <3>4, <3>5
  <2>2. Publisher!Job(u, i) = Publisher!Job(v, i)
    BY <2>1 DEF Publisher!Job
  <2>3. Publisher!Part(u, i) = item
    BY <2>1, SamePart
  <2> HIDE DEF item
  <2> QED BY <2>1, <2>2, <2>3
<1>5. \A j \in Publishers \ {i} : Resting(u, j)
  BY <1>4 DEF Active, Resting
<1>6. Active(u, i)
  BY <1>1, <1>4, <1>5 DEF Active
<1>7. Auditing(u, i, key)
  BY <1>4 DEF Auditing
<1> QED BY <1>4, <1>6, <1>7

LEMMA AppendStep ==
    ASSUME PubInv(pub), NEW i \in Publishers,
           Publisher!Appends(i) \/ Publisher!AppendUnanswered(i)
    PROVE  PubInv(pub')
<1> DEFINE key == pub.call[i].key
           u == Publisher!Add(pub, pub.row[key], Publisher!Part(pub, i))
           g == Publisher!Go(u, i, "after")
           f == [u EXCEPT !.failures = @ + 1]
<1>1. Active(pub, i) /\ Busy(pub, i) /\ pub.call[i].at = "append"
  BY OneActive DEF Publisher!Appends, Publisher!AppendUnanswered
<1>2. key \in Publisher!Keys /\ Auditing(pub, i, key) /\ pub.row[key] # None
  BY <1>1 DEF Busy
<1>3. /\ Active(u, i) /\ u.call = pub.call /\ u.row = pub.row
      /\ Auditing(u, i, key)
      /\ Publisher!Part(u, i) \in Publisher!Holds(u, key)
  BY <1>1, <1>2, AddedActive
<1>4. pub' = g \/ pub' = Publisher!Failed(f, i, TRUE)
  BY DEF Publisher!Appends, Publisher!AppendUnanswered
<1> HIDE DEF u
<1>5. PubInv(g)
  <2>1. PubShape(u) /\ i \in Publishers
    BY <1>3 DEF Active, Ledger
  <2>2. /\ Kept(u, g) /\ g.call[i].at = "after" /\ g.call[i].sync = u.call[i].sync
        /\ g.call[i].jobs = u.call[i].jobs /\ g.call[i].key = u.call[i].key
        /\ g.call[i].entries = u.call[i].entries
    BY <2>1, GoIs
  <2> HIDE DEF g
  <2>3. Auditing(g, i, key)
    BY <1>3, <2>2, SameAudit
  <2>4. g.row[key] # None /\ Publisher!Holds(g, key) = Publisher!Holds(u, key)
    BY <1>2, <1>3, <2>2 DEF Kept, Publisher!Holds
  <2>5. Publisher!Part(g, i) = Publisher!Part(u, i)
    BY <2>2 DEF Publisher!Part, Publisher!Job
  <2>6. g.call[i].key = key
    BY <1>3, <2>2
  <2> HIDE DEF key
  <2>7. Busy(g, i)
    BY <1>2, <1>3, <2>2, <2>3, <2>4, <2>5, <2>6 DEF Busy, Publisher!Awaits
  <2> QED BY <1>3, <2>7, GoKeeps DEF g
<1>6. PubInv(Publisher!Failed(f, i, TRUE))
  <2>1. Active(f, i) /\ f.call = u.call
    BY <1>3, CountedKeeps
  <2>2. f.call[i].sync \/ f.call[i].jobs # {}
    BY <1>2, <1>3, <2>1 DEF Auditing
  <2> HIDE DEF f
  <2> QED BY <2>1, <2>2, FailedKeeps
<1> QED BY <1>4, <1>5, <1>6

LEMMA AfterStep ==
    ASSUME PubInv(pub), NEW i \in Publishers, Publisher!After(i)
    PROVE  PubInv(pub')
<1> DEFINE key == pub.call[i].key
           u == IF key = "report" THEN Publisher!Recorded(pub) ELSE pub
<1>1. Active(pub, i) /\ Busy(pub, i) /\ pub.call[i].at = "after"
  BY OneActive DEF Publisher!After
<1>2. key \in Publisher!Keys /\ Auditing(pub, i, key) /\ pub.row[key] # None
      /\ Publisher!Part(pub, i) \in Publisher!Holds(pub, key)
  BY <1>1 DEF Busy
<1>3. pub' = Publisher!Appended(u, i)
  BY DEF Publisher!After
<1>4. u = pub \/ u = Publisher!Recorded(pub)
  OBVIOUS
<1> HIDE DEF u
<1> QED BY <1>1, <1>2, <1>3, <1>4, SnapshotAppended

LEMMA FailsStep ==
    ASSUME PubInv(pub), NEW i \in Publishers, Publisher!Fails(i)
    PROVE  PubInv(pub')
<1> DEFINE f == [pub EXCEPT !.failures = @ + 1]
<1>1. Active(pub, i) /\ Busy(pub, i) /\ pub.call[i].at \in Publisher!Awaits
  BY OneActive DEF Publisher!Fails, Publisher!Awaits
<1>2. Active(f, i) /\ f.call = pub.call
  BY <1>1, CountedKeeps
<1>3. PICK b \in {FALSE, pub.call[i].at \in {"share", "append"}} :
        pub' = Publisher!Failed(f, i, b)
  BY DEF Publisher!Fails
<1>4. pub.call[i].sync \/ pub.call[i].jobs # {}
  BY <1>1 DEF Busy, Auditing, Publisher!Awaits
<1> HIDE DEF f
<1> QED BY <1>2, <1>3, <1>4, FailedKeeps

LEMMA DiesStep ==
    ASSUME PubInv(pub), NEW i \in Publishers, Publisher!Dies(i)
    PROVE  PubInv(pub')
<1> DEFINE key == pub.call[i].key
           v == [pub EXCEPT !.failures = @ + 1, !.call[i] = Publisher!NoCall,
                            !.claim = IF @ = i THEN "gone" ELSE @]
           u == [v EXCEPT !.coming = @ \cup {key}]
<1>1. Active(pub, i) /\ Busy(pub, i)
  BY OneActive DEF Publisher!Dies
<1>2. Ledger(pub) /\ PubShape(pub) /\ pub.claim = i
  BY <1>1 DEF Active, Ledger
<1>3. pub' = v \/ (pub.call[i].at = "create" /\ pub' = u)
  BY DEF Publisher!Dies
<1>4. /\ Kept(pub, v) /\ Only(pub, v, i) /\ v.job = pub.job /\ v.intent = pub.intent
      /\ v.call[i] = Publisher!NoCall
  BY <1>2 DEF PubShape, Kept, Only, Publisher!NoCall, PubFields, CallFields
<1>5. Leased(v, i) /\ Busy(v, i)
  BY <1>2, <1>4 DEF Leased, Busy, Publisher!NoCall, Publisher!Keys
<1>6. DOMAIN v.job = Publisher!Marks
  BY <1>2, <1>4 DEF PubShape
<1> HIDE DEF v
<1>7. PubInv(v)
  BY <1>1, <1>4, <1>5, <1>6, CallSteps
<1>8. CASE pub.call[i].at = "create"
  <2>1. key \in Publisher!Keys /\ Publisher!Found(pub, key) = {} /\ key \in pub.intent
    BY <1>1, <1>8 DEF Busy
  <2>2. Publisher!Found(v, key) = {} /\ key \in v.intent
    BY <1>4, <2>1 DEF Kept, Publisher!Found
  <2> HIDE DEF key
  <2>3. Ledger(u) /\ u.call = v.call /\ u.latest = v.latest /\ u.claim = v.claim
    BY <1>7, <2>1, <2>2, ComingLedger DEF PubInv
  <2> HIDE DEF u
  <2>4. \A j \in Publishers : Resting(v, j)
    <3>1. \A j \in Publishers \ {i} : Resting(v, j)
      BY <1>1, <1>4, OthersRest
    <3>2. Resting(v, i)
      BY <1>4 DEF Resting, Publisher!NoCall, Publisher!Keys
    <3> QED BY <3>1, <3>2
  <2>5. ASSUME NEW j \in Publishers PROVE Leased(u, j) /\ Busy(u, j)
    <3>1. Resting(u, j)
      BY <2>3, <2>4 DEF Resting
    <3> QED BY <3>1 DEF Resting, Leased, Busy
  <2>6. PubInv(u)
    BY <2>3, <2>5 DEF PubInv
  <2> QED BY <1>3, <1>7, <2>6
<1> QED BY <1>3, <1>7, <1>8

-----------------------------------------------------------------------------
(* The steps of the others *)

\* A step that is not of a call leaves what the calls have established.
LEMMA StillBusy ==
    ASSUME NEW v, PubInv(v), NEW u, u.call = v.call, u.claim = v.claim, u.row = v.row,
           u.audited = v.audited, u.intent = v.intent,
           \A k \in Publisher!Keys : k \notin v.coming =>
                k \notin u.coming /\ Publisher!Found(u, k) = Publisher!Found(v, k),
           v.latest <= u.latest, u.latest \in Nat,
           \A n : Reported(v, n) => Reported(u, n),
           \A k \in Publisher!Keys : v.row[k] # None =>
                Publisher!Holds(v, k) \subseteq Publisher!Holds(u, k)
    PROVE  \A i \in Publishers : Leased(u, i) /\ Busy(u, i)
<1>1. ASSUME NEW i \in Publishers PROVE Leased(u, i)
  <2>1. Leased(v, i) /\ v.latest \in Nat
    BY PubSentinels DEF PubInv, Ledger, PubShape
  <2> QED BY <2>1 DEF Leased
<1>2. ASSUME NEW i \in Publishers PROVE Busy(u, i)
  <2>1. Busy(v, i)
    BY DEF PubInv
  <2>2. Publisher!Job(u, i) = Publisher!Job(v, i)
    BY DEF Publisher!Job
  <2>3. Publisher!Part(u, i) = Publisher!Part(v, i)
    BY <2>2 DEF Publisher!Part
  <2>4. \A k : Auditing(v, i, k) => Auditing(u, i, k)
    BY <2>2 DEF Auditing
  <2> QED BY <2>1, <2>3, <2>4 DEF Busy, Publisher!Awaits
<1> QED BY <1>1, <1>2

LEMMA GenerateStep ==
    ASSUME PubInv(pub), Publisher!Generate
    PROVE  PubInv(pub')
<1> DEFINE n == pub.latest + 1
           u == [pub EXCEPT !.latest = @ + 1, !.job[pub.latest + 1] = "pending"]
<1>1. Ledger(pub) /\ PubShape(pub) /\ pub.latest \in 0..Versions /\ pub.latest < Versions
  BY DEF PubInv, Ledger, PubShape, Publisher!Generate
<1>2. n \in Publisher!Marks /\ n \in 0..Versions /\ pub.latest <= n /\ n \in Nat
  BY <1>1, PubSentinels DEF Publisher!Marks
<1>3. /\ PubFields \subseteq DOMAIN u /\ u.cloud = pub.cloud /\ u.row = pub.row
      /\ u.coming = pub.coming /\ u.audited = pub.audited /\ u.latest = n
      /\ u.revisions = pub.revisions /\ u.open = pub.open
      /\ u.job = [pub.job EXCEPT ![n] = "pending"] /\ u.call = pub.call
      /\ u.intent = pub.intent /\ u.claim = pub.claim
  BY <1>1 DEF PubShape, PubFields
<1>4. pub' = u
  BY DEF Publisher!Generate
<1> HIDE DEF u, n
<1>5. /\ \A k : Publisher!Found(u, k) = Publisher!Found(pub, k)
      /\ \A k : Publisher!Holds(u, k) = Publisher!Holds(pub, k)
      /\ \A m : Reported(u, m) <=> Reported(pub, m)
  BY <1>3 DEF Publisher!Found, Publisher!Holds, Reported
<1>6. Ledger(u)
  <2>1. PubShape(u)
    BY <1>1, <1>2, <1>3 DEF PubShape, Publisher!Marks
  <2>2. Single(u)
    BY <1>1, <1>3, <1>5 DEF Ledger, Single
  <2>3. Placed(u)
    BY <1>1, <1>3, <1>5 DEF Ledger, Placed
  <2>4. Written(u)
    <3>1. ASSUME NEW m \in Publisher!Marks, u.job[m] = "complete"
          PROVE  Reported(u, m) /\ m \in u.audited
      <4>1. pub.job[m] = "complete"
        BY <1>1, <1>2, <1>3, <3>1 DEF PubShape
      <4> QED BY <1>1, <1>3, <1>5, <4>1 DEF Ledger, Written
    <3> QED BY <1>1, <1>3, <1>5, <3>1 DEF Ledger, Written
  <2> QED BY <2>1, <2>2, <2>3, <2>4 DEF Ledger
<1>7. \A i \in Publishers : Leased(u, i) /\ Busy(u, i)
  BY <1>2, <1>3, <1>5, StillBusy
<1> QED BY <1>4, <1>6, <1>7 DEF PubInv

LEMMA LandsStep ==
    ASSUME PubInv(pub), NEW key \in Publisher!Keys, Publisher!Lands(key)
    PROVE  PubInv(pub')
<1> DEFINE u == [Publisher!Create(pub, key) EXCEPT !.coming = @ \ {key}]
<1>1. Ledger(pub) /\ PubShape(pub) /\ key \in pub.coming /\ pub.latest \in Nat
  BY PubSentinels DEF PubInv, Ledger, PubShape, Publisher!Lands
<1>2. Publisher!Found(pub, key) = {}
  BY <1>1 DEF Ledger, Single
<1>3. /\ PubFields \subseteq DOMAIN u
      /\ u.cloud = Append(pub.cloud, [key |-> key, items |-> {}])
      /\ u.row = pub.row /\ u.coming = pub.coming \ {key} /\ u.audited = pub.audited
      /\ u.latest = pub.latest /\ u.revisions = pub.revisions /\ u.open = pub.open
      /\ u.job = pub.job /\ u.call = pub.call /\ u.intent = pub.intent /\ u.claim = pub.claim
  BY <1>1 DEF PubShape, PubFields, Publisher!Create
<1>4. pub' = u
  BY DEF Publisher!Lands
<1> HIDE DEF u
<1>5. /\ Ledger(u)
      /\ \A k \in Publisher!Keys \ {key} : Publisher!Found(u, k) = Publisher!Found(pub, k)
      /\ \A n : Reported(pub, n) => Reported(u, n)
  <2>1. u.coming \subseteq pub.coming \ {key}
    BY <1>3
  <2> QED BY <1>1, <1>2, <1>3, <2>1, CreatedLedger
<1>6. \A k \in Publisher!Keys : pub.row[k] # None =>
         Publisher!Holds(pub, k) \subseteq Publisher!Holds(u, k)
  <2>1. ASSUME NEW k \in Publisher!Keys, pub.row[k] # None
        PROVE  Publisher!Holds(pub, k) \subseteq Publisher!Holds(u, k)
    <3>1. pub.row[k] \in DOMAIN pub.cloud /\ pub.cloud \in Seq(Documents)
      BY <1>1, <2>1 DEF Ledger, Placed, PubShape, Publisher!Found
    <3>2. u.cloud[pub.row[k]] = pub.cloud[pub.row[k]]
      BY <1>3, <3>1
    <3> QED BY <1>3, <3>2 DEF Publisher!Holds
  <2> QED BY <2>1
<1>7. \A k \in Publisher!Keys : k \notin pub.coming =>
         k \notin u.coming /\ Publisher!Found(u, k) = Publisher!Found(pub, k)
  BY <1>1, <1>3, <1>5
<1>8. \A i \in Publishers : Leased(u, i) /\ Busy(u, i)
  <2>1. pub.latest <= u.latest /\ u.latest \in Nat
    BY <1>1, <1>3
  <2> QED BY <1>3, <1>5, <1>6, <1>7, <2>1, StillBusy
<1> QED BY <1>4, <1>5, <1>8 DEF PubInv

LEMMA EditStep ==
    ASSUME PubInv(pub), NEW e \in Edits, Publisher!EmployeeEdits(e)
    PROVE  PubInv(pub')
<1> DEFINE d == pub.row["report"]
           u == Publisher!Add(pub, d, e)
<1>1. Ledger(pub) /\ Placed(pub) /\ "report" \in pub.open /\ pub.latest \in Nat
  BY PubSentinels DEF PubInv, Ledger, PubShape, Publisher!EmployeeEdits
<1>2. d \in DOMAIN pub.cloud
  BY <1>1 DEF Placed, Publisher!Found
<1>3. pub' = u
  BY DEF Publisher!EmployeeEdits
<1> HIDE DEF d
<1>4. /\ Ledger(u) /\ u.coming = pub.coming /\ u.intent = pub.intent /\ u.row = pub.row
      /\ u.audited = pub.audited /\ u.latest = pub.latest
      /\ u.call = pub.call /\ u.claim = pub.claim
      /\ \A k \in Publisher!Keys : Publisher!Found(u, k) = Publisher!Found(pub, k)
      /\ \A n : Reported(pub, n) => Reported(u, n)
      /\ \A k \in Publisher!Keys : pub.row[k] # None =>
           Publisher!Holds(pub, k) \subseteq Publisher!Holds(u, k)
  BY <1>1, <1>2, AddedLedger DEF Items
<1> HIDE DEF u
<1>5. \A i \in Publishers : Leased(u, i) /\ Busy(u, i)
  <2>1. pub.latest <= u.latest /\ u.latest \in Nat
    BY <1>1, <1>4
  <2> QED BY <1>4, <2>1, StillBusy
<1> QED BY <1>3, <1>4, <1>5 DEF PubInv

LEMMA RetryStep ==
    ASSUME PubInv(pub), NEW n \in Publisher!Marks, Publisher!Retry(n)
    PROVE  PubInv(pub')
<1> DEFINE u == [pub EXCEPT !.reviews = @ + 1, !.attempts[n] = 0,
                            !.job[n] = IF @ = "uncertain" THEN @ ELSE "retry"]
           s == IF pub.job[n] = "uncertain" THEN pub.job[n] ELSE "retry"
<1>1. Ledger(pub) /\ PubShape(pub) /\ pub.latest \in Nat /\ n <= pub.latest
  BY PubSentinels DEF PubInv, Ledger, PubShape, Publisher!Retry
<1>2. pub' = u
  BY DEF Publisher!Retry
<1>3. /\ PubFields \subseteq DOMAIN u /\ u.cloud = pub.cloud /\ u.row = pub.row
      /\ u.coming = pub.coming /\ u.audited = pub.audited /\ u.latest = pub.latest
      /\ u.revisions = pub.revisions /\ u.open = pub.open
      /\ u.job = [pub.job EXCEPT ![n] = s] /\ u.call = pub.call
      /\ u.intent = pub.intent /\ u.claim = pub.claim
  BY <1>1 DEF PubShape, PubFields
<1>4. s # "complete"
  OBVIOUS
<1> HIDE DEF u, s
<1>5. /\ \A k : Publisher!Found(u, k) = Publisher!Found(pub, k)
      /\ \A k : Publisher!Holds(u, k) = Publisher!Holds(pub, k)
      /\ \A m : Reported(u, m) <=> Reported(pub, m)
  BY <1>3 DEF Publisher!Found, Publisher!Holds, Reported
<1>6. Ledger(u)
  <2>1. PubShape(u)
    BY <1>1, <1>3 DEF PubShape
  <2>2. Single(u)
    BY <1>1, <1>3, <1>5 DEF Ledger, Single
  <2>3. Placed(u)
    BY <1>1, <1>3, <1>5 DEF Ledger, Placed
  <2>4. Written(u)
    <3>1. ASSUME NEW m \in Publisher!Marks, u.job[m] = "complete"
          PROVE  Reported(u, m) /\ m \in u.audited
      <4>1. pub.job[m] = "complete"
        BY <1>1, <1>3, <1>4, <3>1 DEF PubShape
      <4> QED BY <1>1, <1>3, <1>5, <4>1 DEF Ledger, Written
    <3> QED BY <1>1, <1>3, <1>5, <3>1 DEF Ledger, Written
  <2> QED BY <2>1, <2>2, <2>3, <2>4 DEF Ledger
<1>7. \A i \in Publishers : Leased(u, i) /\ Busy(u, i)
  BY <1>1, <1>3, <1>5, StillBusy
<1> QED BY <1>2, <1>6, <1>7 DEF PubInv

\* The operator's review, while nobody works and nothing may still come.
LEMMA ReconcileStep ==
    ASSUME PubInv(pub), NEW key \in Publisher!Keys, Publisher!Reconcile(key)
    PROVE  PubInv(pub')
<1> DEFINE F == Publisher!Found(pub, key)
           again == [pub EXCEPT !.reviews = @ + 1, !.intent = @ \ {key}, !.claim = None,
                !.job = [n \in Publisher!Marks |-> IF @[n] \in {"manual", "uncertain", "retry"}
                                         THEN "retry" ELSE @[n]],
                !.attempts = [n \in Publisher!Marks |->
                                         IF pub.job[n] \in {"manual", "uncertain", "retry"}
                                         THEN 0 ELSE @[n]]]
           named == [again EXCEPT !.row[key] = Publisher!Least(F),
                                  !.snapshot = IF key = "report" THEN None ELSE @]
           tried == [n \in Publisher!Marks |->
                        IF pub.job[n] \in {"manual", "uncertain", "retry"}
                        THEN "retry" ELSE pub.job[n]]
           rows == IF F = {} THEN pub.row ELSE [pub.row EXCEPT ![key] = Publisher!Least(F)]
<1>1. Ledger(pub) /\ PubShape(pub) /\ pub.coming = {} /\ pub.claim \in {None, "gone"}
      /\ Single(pub) /\ Placed(pub) /\ Written(pub)
  BY DEF PubInv, Ledger, Publisher!Reconcile
<1>2. \A i \in Publishers : Resting(pub, i)
  BY <1>1, PubSentinels DEF PubInv, Leased, Busy, Resting
<1>3. F # {} => Publisher!Least(F) \in F /\ Publisher!Least(F) # None
  BY <1>1, FoundIs
<1>4. IF F = {} THEN pub' = again ELSE pub' = named
  BY DEF Publisher!Reconcile
<1>5. /\ PubFields \subseteq DOMAIN again /\ again.cloud = pub.cloud /\ again.row = pub.row
      /\ again.coming = pub.coming /\ again.audited = pub.audited
      /\ again.latest = pub.latest /\ again.revisions = pub.revisions
      /\ again.open = pub.open /\ again.job = tried /\ again.call = pub.call
  BY <1>1 DEF PubShape, PubFields
<1> HIDE DEF again
<1>6. /\ PubFields \subseteq DOMAIN named /\ named.cloud = pub.cloud
      /\ named.row = [pub.row EXCEPT ![key] = Publisher!Least(F)]
      /\ named.coming = pub.coming /\ named.audited = pub.audited
      /\ named.latest = pub.latest /\ named.revisions = pub.revisions
      /\ named.open = pub.open /\ named.job = tried /\ named.call = pub.call
  BY <1>5 DEF PubFields
<1> HIDE DEF named
<1>7. \A n \in Publisher!Marks : /\ tried[n] = "complete" => pub.job[n] = "complete"
                                 /\ tried[n] # None => pub.job[n] # None
  BY PubSentinels DEF Publisher!Unfinished
<1>8. DOMAIN tried = Publisher!Marks
  OBVIOUS
<1> HIDE DEF tried
<1>9. PICK u : /\ pub' = u
               /\ PubFields \subseteq DOMAIN u /\ u.cloud = pub.cloud /\ u.row = rows
               /\ u.coming = {} /\ u.audited = pub.audited
               /\ u.latest = pub.latest /\ u.revisions = pub.revisions
               /\ u.open = pub.open /\ u.job = tried /\ u.call = pub.call
  BY <1>1, <1>4, <1>5, <1>6
<1>10. /\ DOMAIN rows = Publisher!Keys
       /\ \A k \in Publisher!Keys : pub.row[k] # None => rows[k] = pub.row[k]
       /\ \A k \in Publisher!Keys : rows[k] # None => rows[k] \in Publisher!Found(pub, k)
  BY <1>1, <1>3 DEF PubShape, Placed, Single
<1> HIDE DEF rows, F
<1>11. /\ \A k : Publisher!Found(u, k) = Publisher!Found(pub, k)
       /\ \A k \in Publisher!Keys : pub.row[k] # None =>
            u.row[k] # None /\ Publisher!Holds(u, k) = Publisher!Holds(pub, k)
  BY <1>9, <1>10 DEF Publisher!Found, Publisher!Holds
<1>12. \A n : Reported(pub, n) => Reported(u, n)
  BY <1>11 DEF Reported, Publisher!Keys
<1>13. PubShape(u)
  BY <1>1, <1>7, <1>8, <1>9, <1>10 DEF PubShape
<1>14. Single(u)
  BY <1>1, <1>9, <1>11 DEF Single
<1>15. Placed(u)
  BY <1>1, <1>9, <1>10, <1>11 DEF Placed
<1>16. Written(u)
  BY <1>1, <1>7, <1>9, <1>11, <1>12 DEF Written, Publisher!Keys
<1>17. ASSUME NEW i \in Publishers PROVE Leased(u, i) /\ Busy(u, i)
  <2>1. Resting(u, i)
    BY <1>2, <1>9 DEF Resting
  <2> QED BY <2>1 DEF Resting, Leased, Busy
<1> QED BY <1>9, <1>13, <1>14, <1>15, <1>16, <1>17 DEF PubInv, Ledger

LEMMA PubStarts ==
    ASSUME Publisher!Init
    PROVE  PubInv(pub)
<1>1. /\ PubFields \subseteq DOMAIN pub /\ pub.latest = 0
      /\ pub.job = [n \in Publisher!Marks |-> None]
      /\ pub.row = [k \in Publisher!Keys |-> None] /\ pub.intent = {} /\ pub.coming = {}
      /\ pub.audited = {} /\ pub.revisions = {} /\ pub.claim = None /\ pub.open = {}
      /\ pub.cloud = <<>> /\ pub.call = [i \in Publishers |-> Publisher!NoCall]
  BY DEF Publisher!Init, PubFields
<1>2. \A i \in Publishers : /\ CallFields \subseteq DOMAIN pub.call[i]
                            /\ pub.call[i].at = "idle" /\ pub.call[i].jobs = {}
                            /\ pub.call[i].key = "report"
  BY <1>1 DEF Publisher!NoCall, CallFields
<1>3. \A k : Publisher!Found(pub, k) = {}
  BY <1>1 DEF Publisher!Found
<1>4. PubShape(pub)
  BY <1>1, <1>2, PubSentinels DEF PubShape
<1>5. Single(pub) /\ Placed(pub)
  BY <1>1, <1>3 DEF Single, Placed
<1>6. Written(pub)
  BY <1>1, PubSentinels DEF Written
<1>7. \A i \in Publishers : Leased(pub, i) /\ Busy(pub, i)
  BY <1>2 DEF Leased, Busy, Publisher!Keys
<1> QED BY <1>4, <1>5, <1>6, <1>7 DEF PubInv, Ledger

LEMMA PublisherStep ==
    ASSUME PubInv(pub), Publisher!Next
    PROVE  PubInv(pub')
<1>1. ASSUME NEW i \in Publishers,
             \/ Publisher!Publish(i) \/ Publisher!SyncEdits(i) \/ Publisher!NextJob(i)
             \/ Publisher!Folders(i) \/ Publisher!Search(i) \/ Publisher!Created(i)
             \/ Publisher!NotCreated(i) \/ Publisher!Shared(i) \/ Publisher!Inspect(i)
             \/ Publisher!Parts(i) \/ Publisher!Appends(i) \/ Publisher!AppendUnanswered(i)
             \/ Publisher!After(i) \/ Publisher!Fails(i) \/ Publisher!Dies(i)
      PROVE  PubInv(pub')
  BY <1>1, PublishStep, SyncStep, NextJobStep, FoldersStep, SearchStep, CreatedStep,
     NotCreatedStep, SharedStep, InspectStep, PartsStep, AppendStep, AfterStep, FailsStep, DiesStep
<1> QED BY <1>1, GenerateStep, LandsStep, EditStep, RetryStep, ReconcileStep DEF Publisher!Next

\* However requests are lost, publishers die and the operator intervenes, a
\* report has one document and one audit document, and a complete job is in both
\* (worklog/Publisher.ts): for any number of publishers, versions, edits,
\* attempts, failures and reviews.
THEOREM PublishedOnce == Spec => []ReportIsPublishedOnce
<1> DEFINE I == part = "publisher" => \E v : v = pub /\ PubInv(v)
<1>1. Init => I
  BY PubStarts DEF Init
<1>2. I /\ [Next]_vars => I'
  <2> SUFFICES ASSUME I, [Next]_vars, part' = "publisher" PROVE (\E v : v = pub /\ PubInv(v))'
    OBVIOUS
  <2>1. CASE Next
    <3>1. Publisher!Next /\ PubInv(pub)
      BY <2>1 DEF Next, DeliveryNext, ServicesNext
    <3>2. PubInv(pub')
      BY <3>1, PublisherStep
    <3> QED BY <3>2
  <2>2. CASE UNCHANGED vars
    BY <2>2 DEF vars
  <2> QED BY <2>1, <2>2
<1>3. I => ReportIsPublishedOnce
  <2> SUFFICES ASSUME part = "publisher", PubInv(pub)
               PROVE  Publisher!OneDocument /\ Publisher!CompleteIsPublished
    BY DEF ReportIsPublishedOnce
  <2>1. Ledger(pub) /\ Written(pub)
    BY DEF PubInv, Ledger
  <2>2. ASSUME NEW key \in Publisher!Keys
        PROVE  Publisher!Cardinality(Publisher!Found(pub, key)) <= 1
    BY <2>1, FoundIs
  <2>3. Publisher!OneDocument
    BY <2>2 DEF Publisher!OneDocument
  <2>4. Publisher!CompleteIsPublished
    BY <2>1 DEF Publisher!CompleteIsPublished, Written, Reported
  <2> QED BY <2>3, <2>4
<1> QED BY <1>1, <1>2, <1>3, PTL DEF Spec

-----------------------------------------------------------------------------
(* Memory *)

IsSeq(s) == \E S : s \in Seq(S)

\* A list of facts, and what the proof uses of a working set.
FactList(s) == IsSeq(s) /\ \A i \in DOMAIN s : "text" \in DOMAIN s[i]
MemoryFields == {"facts", "decisions", "child", "flight", "final"}
MemoryRecord(m) == MemoryFields \subseteq DOMAIN m /\ IsSeq(m.decisions)
Remembers(m) == MemoryRecord(m) /\ FactList(m.facts)

LEMMA SequenceIs ==
    ASSUME NEW n \in Nat, NEW s, s = [i \in 1..n |-> s[i]]
    PROVE  IsSeq(s) /\ Len(s) = n
<1>1. s \in [1..n -> {s[i] : i \in 1..n}]
  OBVIOUS
<1>2. s \in Seq({s[i] : i \in 1..n})
  BY <1>1
<1>3. Len(s) = n
  BY <1>1, <1>2
<1> QED BY <1>2, <1>3, Zenon DEF IsSeq

LEMMA LastOfKeeps ==
    ASSUME NEW s, IsSeq(s), NEW n \in Nat
    PROVE  /\ IsSeq(Memory!LastOf(s, n)) /\ Len(Memory!LastOf(s, n)) \in Nat
           /\ \A i \in DOMAIN Memory!LastOf(s, n) :
                \E j \in DOMAIN s : Memory!LastOf(s, n)[i] = s[j]
<1>1. PICK S : s \in Seq(S)
  BY DEF IsSeq
<1> DEFINE m == Len(s) - n + 1
           u == SubSeq(s, m, Len(s))
<1>2. CASE Len(s) <= n
  BY <1>1, <1>2 DEF Memory!LastOf, IsSeq
<1>3. CASE Len(s) > n
  <2>1. m \in Int /\ m >= 1 /\ m <= Len(s) + 1 /\ Len(s) \in Nat /\ \A i \in m..Len(s) : s[i] \in S
    BY <1>1, <1>3
  <2>2. u \in Seq(S) /\ Len(u) = n /\ \A i \in 1..n : u[i] = s[m + i - 1]
    <3>1. m \in Int /\ Len(s) \in Int
      BY <2>1
    <3> HIDE DEF m
    <3>2. /\ u \in Seq(S) /\ Len(u) = (IF m <= Len(s) THEN Len(s) - m + 1 ELSE 0)
          /\ \A i \in 1..(Len(s) - m + 1) : u[i] = s[m + i - 1]
      BY <2>1, <3>1, SubSeqProperties
    <3>3. Len(s) - m + 1 = n /\ (m <= Len(s) \/ n = 0)
      BY <2>1 DEF m
    <3> QED BY <2>1, <3>2, <3>3
  <2>3. Memory!LastOf(s, n) = u
    BY <1>3, <2>1 DEF Memory!LastOf
  <2> HIDE DEF u
  <2>4. ASSUME NEW i \in DOMAIN u PROVE \E j \in DOMAIN s : u[i] = s[j]
    <3>1. i \in 1..n /\ m + i - 1 \in 1..Len(s)
      BY <2>1, <2>2
    <3>2. m + i - 1 \in DOMAIN s /\ u[i] = s[m + i - 1]
      BY <1>1, <2>2, <3>1
    <3> HIDE DEF m
    <3> QED BY <3>2
  <2> QED BY <2>2, <2>3, <2>4 DEF IsSeq
<1> QED
  <2>1. Len(s) \in Nat
    BY <1>1
  <2> QED BY <1>2, <1>3, <2>1

\* Sets of numbers that hold 0 and with i also i + 1.
LEMMA Induction ==
    ASSUME NEW n \in Nat, NEW S \in SUBSET (0..n), 0 \in S,
           \A i \in S : i + 1 \in 0..n => i + 1 \in S
    PROVE  S = 0..n
<1> DEFINE T == {i \in 0..n : i \notin S}
<1>1. SUFFICES ASSUME T # {} PROVE FALSE
  OBVIOUS
<1>2. T \in SUBSET Nat
  OBVIOUS
<1>3. PICK i \in T : \A j \in T : ~(<<j, i>> \in OpToRel(<, Nat))
  <2> HIDE DEF T
  <2> QED BY <1>1, <1>2, NatLessThanWellFounded, WFMin
<1>4. \A j \in T : ~(j < i)
  BY <1>2, <1>3 DEF OpToRel
<1>5. i # 0 /\ i - 1 \in 0..n
  OBVIOUS
<1>6. i - 1 \in S
  BY <1>4, <1>5
<1> QED BY <1>5, <1>6

\* The equation of the function by which Kept finds the young facts.
Youngs(y, s, n) ==
    y = [i \in 0..n |->
            IF i = 0 THEN <<>>
            ELSE IF s[i].aged THEN y[i - 1] ELSE Append(y[i - 1], s[i])]

\* It exists.
LEMMA YoungsExist ==
    ASSUME NEW n \in Nat, NEW s
    PROVE  \E y : Youngs(y, s, n)
<1> DEFINE E == {m \in 0..n : \E y : Youngs(y, s, m)}
           Next1(a, i) == IF s[i].aged THEN a ELSE Append(a, s[i])
<1>1. 0 \in E
  <2> DEFINE y == [i \in 0..0 |-> <<>>]
  <2>1. y = [i \in 0..0 |-> IF i = 0 THEN <<>> ELSE Next1(y[i - 1], i)]
    OBVIOUS
  <2> HIDE DEF y
  <2>2. Youngs(y, s, 0)
    BY <2>1 DEF Youngs
  <2> QED BY <2>2
<1>2. ASSUME NEW m \in E, m + 1 \in 0..n PROVE m + 1 \in E
  <2>1. PICK y : y = [i \in 0..m |-> IF i = 0 THEN <<>> ELSE Next1(y[i - 1], i)]
    BY DEF Youngs
  <2> HIDE DEF Next1
  <2> DEFINE z == [i \in 0..(m + 1) |-> IF i = 0 THEN <<>> ELSE Next1(y[i - 1], i)]
  <2>2. \A i \in 0..m : z[i] = y[i]
    BY <2>1
  <2>3. z = [i \in 0..(m + 1) |-> IF i = 0 THEN <<>> ELSE Next1(z[i - 1], i)]
    <3>1. ASSUME NEW i \in 0..(m + 1)
          PROVE  (IF i = 0 THEN <<>> ELSE Next1(y[i - 1], i))
                    = IF i = 0 THEN <<>> ELSE Next1(z[i - 1], i)
      <4>1. CASE i = 0
        BY <4>1
      <4>2. CASE i # 0
        <5>1. i - 1 \in 0..m
          BY <4>2
        <5>2. z[i - 1] = y[i - 1]
          BY <5>1, <2>2
        <5> HIDE DEF z
        <5> QED BY <4>2, <5>2
      <4> QED BY <4>1, <4>2
    <3> QED BY <3>1
  <2> HIDE DEF z
  <2>4. Youngs(z, s, m + 1)
    BY <2>3 DEF Youngs, Next1
  <2> QED BY <2>4, <1>2, Zenon
<1>3. E \in SUBSET (0..n)
  OBVIOUS
<1> HIDE DEF E
<1>4. E = 0..n
  BY <1>1, <1>2, <1>3, Induction
<1>5. n \in E
  BY <1>4
<1> QED BY <1>5 DEF E

\* What a cut leaves are facts that were there.
LEMMA KeptKeeps ==
    ASSUME NEW s, FactList(s), Memory!MemoryAssumption
    PROVE  FactList(Memory!Kept(s))
<1>1. PICK S : s \in Seq(S)
  BY DEF FactList, IsSeq
<1> DEFINE n == Len(s)
           y == CHOOSE f : f = [i \in 0..n |->
                    IF i = 0 THEN <<>>
                    ELSE IF s[i].aged THEN f[i - 1] ELSE Append(f[i - 1], s[i])]
           T == {s[i] : i \in 1..n}
           I == {i \in 0..n : y[i] \in Seq(T)}
<1>2. n \in Nat /\ DOMAIN s = 1..n
  BY <1>1
<1>3. y = [i \in 0..n |-> IF i = 0 THEN <<>>
                         ELSE IF s[i].aged THEN y[i - 1] ELSE Append(y[i - 1], s[i])]
  <2>1. \E f : Youngs(f, s, n)
    BY <1>2, YoungsExist
  <2> QED BY <2>1, Zenon DEF Youngs
<1>4. Memory!Kept(s) \in {s, Memory!LastOf(s, Keep), Memory!LastOf(y[n], Keep)}
  BY DEF Memory!Kept
<1> HIDE DEF y, n
<1>5. y[n] \in Seq(T)
  <2>1. 0 \in I
    BY <1>2, <1>3
  <2>2. ASSUME NEW i \in I, i + 1 \in 0..n PROVE i + 1 \in I
    <3>1. y[i + 1] = IF s[i + 1].aged THEN y[i] ELSE Append(y[i], s[i + 1])
      <4>1. i + 1 # 0 /\ (i + 1) - 1 = i
        BY <1>2
      <4>2. y[i + 1] = IF i + 1 = 0 THEN <<>>
                       ELSE IF s[i + 1].aged THEN y[(i + 1) - 1]
                       ELSE Append(y[(i + 1) - 1], s[i + 1])
        BY <1>3, <2>2, Zenon
      <4> QED BY <4>1, <4>2, Zenon
    <3>2. s[i + 1] \in T /\ y[i] \in Seq(T)
      BY <1>2, <2>2
    <3>3. y[i + 1] \in Seq(T)
      <4> HIDE DEF T, I
      <4> QED BY <3>1, <3>2
    <3> QED BY <3>3, <2>2
  <2>3. I \in SUBSET (0..n)
    OBVIOUS
  <2> HIDE DEF I
  <2>4. I = 0..n
    BY <1>2, <2>1, <2>2, <2>3, Induction
  <2>5. n \in I
    BY <1>2, <2>4
  <2> QED BY <2>5 DEF I
<1>6. \A x \in T : "text" \in DOMAIN x
  BY <1>2 DEF FactList
<1> HIDE DEF T
<1>7. FactList(y[n])
  <2>1. IsSeq(y[n])
    BY <1>5 DEF IsSeq
  <2>2. \A i \in DOMAIN y[n] : y[n][i] \in T
    BY <1>5
  <2> QED BY <1>6, <2>1, <2>2 DEF FactList
<1>8. ASSUME NEW x, FactList(x) PROVE FactList(Memory!LastOf(x, Keep))
  <2>1. Keep \in Nat
    BY DEF Memory!MemoryAssumption
  <2>2. IsSeq(x) /\ \A i \in DOMAIN x : "text" \in DOMAIN x[i]
    BY <1>8 DEF FactList
  <2>3. /\ IsSeq(Memory!LastOf(x, Keep))
        /\ \A i \in DOMAIN Memory!LastOf(x, Keep) :
                \E j \in DOMAIN x : Memory!LastOf(x, Keep)[i] = x[j]
    BY <2>1, <2>2, LastOfKeeps
  <2>4. \A i \in DOMAIN Memory!LastOf(x, Keep) : "text" \in DOMAIN Memory!LastOf(x, Keep)[i]
    BY <2>2, <2>3, Zenon
  <2> QED BY <2>3, <2>4 DEF FactList
<1> QED BY <1>4, <1>7, <1>8

\* Taking a fact in forgets none, and the fact is there.
LEMMA MergeKeeps ==
    ASSUME NEW m, Remembers(m), NEW f
    PROVE  /\ Remembers(Memory!Merge(m, f))
           /\ Memory!Texts(m) \cup {f} \subseteq Memory!Texts(Memory!Merge(m, f))
<1> DEFINE s == m.facts
           x == [text |-> f, weight |-> 1, aged |-> FALSE]
           more == [i \in DOMAIN m.facts |->
                IF m.facts[i].text = f THEN Memory!Repeated(m.facts[i]) ELSE m.facts[i]]
<1>1. PICK S : s \in Seq(S)
  BY DEF Remembers, FactList, IsSeq
<1>2. MemoryRecord(m) /\ \A i \in DOMAIN s : "text" \in DOMAIN s[i]
  BY DEF Remembers, FactList
<1>3. CASE f \in Memory!Texts(m)
  <2>1. Memory!Merge(m, f) = [m EXCEPT !.facts = more]
    BY <1>3 DEF Memory!Merge
  <2>2. \A i \in DOMAIN s : "text" \in DOMAIN more[i] /\ more[i].text = s[i].text
    BY <1>2 DEF Memory!Repeated
  <2>3. DOMAIN more = DOMAIN s /\ DOMAIN s = 1..Len(s) /\ Len(s) \in Nat
    BY <1>1
  <2>4. more = [i \in 1..Len(s) |-> more[i]]
    BY <2>3
  <2> HIDE DEF more
  <2>5. IsSeq(more)
    BY <2>3, <2>4, SequenceIs
  <2>6. Memory!Merge(m, f).facts = more /\ MemoryRecord(Memory!Merge(m, f))
    BY <1>2, <2>1 DEF MemoryFields, MemoryRecord
  <2>7. Memory!Texts(Memory!Merge(m, f)) = Memory!Texts(m)
    BY <2>2, <2>3, <2>6 DEF Memory!Texts
  <2>8. FactList(more)
    BY <2>2, <2>3, <2>5 DEF FactList
  <2> QED BY <1>3, <2>6, <2>7, <2>8 DEF Remembers
<1>4. CASE f \notin Memory!Texts(m)
  <2>1. Memory!Merge(m, f) = [m EXCEPT !.facts = Append(s, x)]
    BY <1>4 DEF Memory!Merge
  <2>2. Memory!Merge(m, f).facts = Append(s, x)
        /\ MemoryRecord(Memory!Merge(m, f))
    BY <1>2, <2>1 DEF MemoryFields, MemoryRecord
  <2>3. x.text = f /\ "text" \in DOMAIN x
    OBVIOUS
  <2> HIDE DEF x, s
  <2>4. Append(s, x) \in Seq(S \cup {x})
    BY <1>1
  <2>5. /\ DOMAIN Append(s, x) = 1..(Len(s) + 1) /\ DOMAIN s = 1..Len(s) /\ Len(s) \in Nat
        /\ \A i \in DOMAIN s : Append(s, x)[i] = s[i]
        /\ Append(s, x)[Len(s) + 1] = x
    BY <1>1
  <2> DEFINE u == Append(s, x)
  <2> HIDE DEF u
  <2>6. \A i \in DOMAIN u : i \in DOMAIN s \/ i = Len(s) + 1
    BY <2>5 DEF u
  <2>7. \A i \in DOMAIN u : "text" \in DOMAIN u[i]
    BY <1>2, <2>3, <2>5, <2>6 DEF u
  <2>8. FactList(u)
    BY <2>4, <2>7 DEF FactList, IsSeq, u
  <2>9. \A i \in DOMAIN s : i \in DOMAIN u /\ u[i].text = s[i].text
    BY <2>5 DEF u
  <2>10. Len(s) + 1 \in DOMAIN u /\ u[Len(s) + 1].text = f
    BY <2>3, <2>5 DEF u
  <2>11. Memory!Texts(m) \cup {f} \subseteq {u[i].text : i \in DOMAIN u}
    <3>1. Memory!Texts(m) = {s[i].text : i \in DOMAIN s}
      BY DEF Memory!Texts, s
    <3> QED BY <2>9, <2>10, <3>1
  <2>12. Memory!Texts(Memory!Merge(m, f)) = {u[i].text : i \in DOMAIN u}
    BY <2>2 DEF Memory!Texts, u
  <2> QED BY <2>2, <2>8, <2>11, <2>12 DEF Remembers, u
<1> QED BY <1>3, <1>4

LEMMA AddFactKeeps ==
    ASSUME NEW m, Remembers(m), NEW f, Memory!MemoryAssumption
    PROVE  /\ Remembers(Memory!AddFact(m, f))
           /\ Memory!Texts(m) \cup {f}
                \subseteq Memory!Texts(Memory!AddFact(m, f)) \cup Memory!Archived(m, f)
<1> DEFINE n == Memory!Merge(m, f)
<1>1. Remembers(n) /\ Memory!Texts(m) \cup {f} \subseteq Memory!Texts(n)
  BY MergeKeeps
<1>2. Memory!AddFact(m, f) = Memory!Collect(n)
      /\ Memory!Archived(m, f) = Memory!Texts(n) \ Memory!Texts(Memory!Collect(n))
  BY DEF Memory!AddFact, Memory!Archived, Memory!Dropped
<1> HIDE DEF n
<1>3. Remembers(Memory!Collect(n))
  <2>1. FactList(Memory!Kept(n.facts)) /\ MemoryRecord(n)
    BY <1>1, KeptKeeps DEF Remembers
  <2> QED BY <2>1 DEF Remembers, MemoryRecord, MemoryFields, Memory!Collect
<1> QED BY <1>1, <1>2, <1>3

LEMMA DecideKeeps ==
    ASSUME NEW m, Remembers(m), NEW d
    PROVE  /\ Remembers(Memory!Decide(m, d))
           /\ Memory!Texts(Memory!Decide(m, d)) = Memory!Texts(m)
<1>1. PICK S : m.decisions \in Seq(S)
  BY DEF Remembers, MemoryRecord, IsSeq
<1>2. Append(m.decisions, d) \in Seq(S \cup {d})
  BY <1>1
<1>3. /\ MemoryFields \subseteq DOMAIN Memory!Decide(m, d)
      /\ Memory!Decide(m, d).facts = m.facts
      /\ Memory!Decide(m, d).decisions \in {m.decisions, Append(m.decisions, d)}
  BY DEF Remembers, MemoryRecord, MemoryFields, Memory!Decide
<1>4. IsSeq(Memory!Decide(m, d).decisions)
  BY <1>1, <1>2, <1>3 DEF IsSeq
<1> QED BY <1>3, <1>4 DEF Remembers, MemoryRecord, Memory!Texts

\* The facts that come up from a child, taken in one after the other.
Takings(h, m, top, n) ==
    h = [i \in 0..n |-> IF i = 0 THEN m ELSE Memory!AddFact(h[i - 1], Memory!Up(top[i].text))]

LEMMA TakingsExist ==
    ASSUME NEW n \in Nat, NEW m, NEW top
    PROVE  \E h : Takings(h, m, top, n)
<1> DEFINE E == {k \in 0..n : \E h : Takings(h, m, top, k)}
           Then(x, i) == Memory!AddFact(x, Memory!Up(top[i].text))
<1>1. 0 \in E
  <2> DEFINE h == [i \in 0..0 |-> m]
  <2>1. h = [i \in 0..0 |-> IF i = 0 THEN m ELSE Then(h[i - 1], i)]
    OBVIOUS
  <2> HIDE DEF h
  <2>2. Takings(h, m, top, 0)
    BY <2>1 DEF Takings
  <2> QED BY <2>2
<1>2. ASSUME NEW k \in E, k + 1 \in 0..n PROVE k + 1 \in E
  <2>1. PICK h : h = [i \in 0..k |-> IF i = 0 THEN m ELSE Then(h[i - 1], i)]
    BY DEF Takings
  <2> HIDE DEF Then
  <2> DEFINE g == [i \in 0..(k + 1) |-> IF i = 0 THEN m ELSE Then(h[i - 1], i)]
  <2>2. \A i \in 0..k : g[i] = h[i]
    BY <2>1
  <2>3. g = [i \in 0..(k + 1) |-> IF i = 0 THEN m ELSE Then(g[i - 1], i)]
    <3>1. ASSUME NEW i \in 0..(k + 1)
          PROVE  (IF i = 0 THEN m ELSE Then(h[i - 1], i))
                    = IF i = 0 THEN m ELSE Then(g[i - 1], i)
      <4>1. CASE i = 0
        BY <4>1
      <4>2. CASE i # 0
        <5>1. i - 1 \in 0..k
          BY <4>2
        <5>2. g[i - 1] = h[i - 1]
          BY <5>1, <2>2
        <5> HIDE DEF g
        <5> QED BY <4>2, <5>2
      <4> QED BY <4>1, <4>2
    <3> QED BY <3>1
  <2> HIDE DEF g
  <2>4. Takings(g, m, top, k + 1)
    BY <2>3 DEF Takings, Then
  <2> QED BY <2>4, <1>2, Zenon
<1>3. E \in SUBSET (0..n)
  OBVIOUS
<1> HIDE DEF E
<1>4. E = 0..n
  BY <1>1, <1>2, <1>3, Induction
<1>5. n \in E
  BY <1>4
<1> QED BY <1>5 DEF E

\* The decisions that come up, likewise.
Tellings(h, m, said, n) ==
    h = [i \in 0..n |-> IF i = 0 THEN m ELSE Memory!Decide(h[i - 1], Memory!Up(said[i]))]

LEMMA TellingsExist ==
    ASSUME NEW n \in Nat, NEW m, NEW said
    PROVE  \E h : Tellings(h, m, said, n)
<1> DEFINE E == {k \in 0..n : \E h : Tellings(h, m, said, k)}
           Then(x, i) == Memory!Decide(x, Memory!Up(said[i]))
<1>1. 0 \in E
  <2> DEFINE h == [i \in 0..0 |-> m]
  <2>1. h = [i \in 0..0 |-> IF i = 0 THEN m ELSE Then(h[i - 1], i)]
    OBVIOUS
  <2> HIDE DEF h
  <2>2. Tellings(h, m, said, 0)
    BY <2>1 DEF Tellings
  <2> QED BY <2>2
<1>2. ASSUME NEW k \in E, k + 1 \in 0..n PROVE k + 1 \in E
  <2>1. PICK h : h = [i \in 0..k |-> IF i = 0 THEN m ELSE Then(h[i - 1], i)]
    BY DEF Tellings
  <2> HIDE DEF Then
  <2> DEFINE g == [i \in 0..(k + 1) |-> IF i = 0 THEN m ELSE Then(h[i - 1], i)]
  <2>2. \A i \in 0..k : g[i] = h[i]
    BY <2>1
  <2>3. g = [i \in 0..(k + 1) |-> IF i = 0 THEN m ELSE Then(g[i - 1], i)]
    <3>1. ASSUME NEW i \in 0..(k + 1)
          PROVE  (IF i = 0 THEN m ELSE Then(h[i - 1], i))
                    = IF i = 0 THEN m ELSE Then(g[i - 1], i)
      <4>1. CASE i = 0
        BY <4>1
      <4>2. CASE i # 0
        <5>1. i - 1 \in 0..k
          BY <4>2
        <5>2. g[i - 1] = h[i - 1]
          BY <5>1, <2>2
        <5> HIDE DEF g
        <5> QED BY <4>2, <5>2
      <4> QED BY <4>1, <4>2
    <3> QED BY <3>1
  <2> HIDE DEF g
  <2>4. Tellings(g, m, said, k + 1)
    BY <2>3 DEF Tellings, Then
  <2> QED BY <2>4, <1>2, Zenon
<1>3. E \in SUBSET (0..n)
  OBVIOUS
<1> HIDE DEF E
<1>4. E = 0..n
  BY <1>1, <1>2, <1>3, Induction
<1>5. n \in E
  BY <1>4
<1> QED BY <1>5 DEF E

\* A function that obeys the equation has these values.
LEMMA TakingsKeep ==
    ASSUME NEW n \in Nat, NEW m, Remembers(m), NEW top, NEW h, Takings(h, m, top, n),
           Memory!MemoryAssumption
    PROVE  /\ Remembers(h[n])
           /\ \A x : x \in Memory!Texts(m) \/ (\E i \in 1..n : x = Memory!Up(top[i].text))
                    => \/ x \in Memory!Texts(h[n])
                       \/ \E i \in 1..n :
                            x \in Memory!Archived(h[i - 1], Memory!Up(top[i].text))
<1> DEFINE Came(k) == {Memory!Up(top[i].text) : i \in 1..k}
           Lost(k) == UNION {Memory!Archived(h[i - 1], Memory!Up(top[i].text)) : i \in 1..k}
           Fine(k) == /\ Remembers(h[k])
                      /\ Memory!Texts(m) \cup Came(k) \subseteq Memory!Texts(h[k]) \cup Lost(k)
           S == {k \in 0..n : Fine(k)}
<1>1. \A i \in 0..n : h[i] = IF i = 0 THEN m
                            ELSE Memory!AddFact(h[i - 1], Memory!Up(top[i].text))
  <2>1. h = [i \in 0..n |-> IF i = 0 THEN m
                           ELSE Memory!AddFact(h[i - 1], Memory!Up(top[i].text))]
    BY DEF Takings
  <2> QED BY <2>1, Zenon
<1>2. 0 \in S
  <2>1. Came(0) = {} /\ Lost(0) = {} /\ h[0] = m
    BY <1>1
  <2> HIDE DEF Came, Lost
  <2> QED BY <2>1
<1>3. ASSUME NEW k \in S, k + 1 \in 0..n PROVE k + 1 \in S
  <2> DEFINE f == Memory!Up(top[k + 1].text)
  <2>1. k \in 0..n /\ Fine(k)
    OBVIOUS
  <2>2. h[k + 1] = Memory!AddFact(h[k], f)
    <3>1. k + 1 # 0 /\ (k + 1) - 1 = k
      BY <2>1
    <3> QED BY <1>1, <1>3, <3>1, Zenon
  <2>3. Came(k + 1) = Came(k) \cup {f}
    <3>1. 1..(k + 1) = (1..k) \cup {k + 1}
      BY <2>1
    <3> QED BY <3>1, Zenon
  <2>4. Lost(k + 1) = Lost(k) \cup Memory!Archived(h[k], f)
    <3>1. 1..(k + 1) = (1..k) \cup {k + 1} /\ (k + 1) - 1 = k
      BY <2>1
    <3>2. \A x : x \in Lost(k + 1) <=>
            \E i \in 1..(k + 1) : x \in Memory!Archived(h[i - 1], Memory!Up(top[i].text))
      OBVIOUS
    <3>3. \A x : x \in Lost(k) <=>
            \E i \in 1..k : x \in Memory!Archived(h[i - 1], Memory!Up(top[i].text))
      OBVIOUS
    <3> HIDE DEF Lost
    <3>4. \A x : x \in Lost(k + 1) <=> x \in Lost(k) \cup Memory!Archived(h[k], f)
      BY <3>1, <3>2, <3>3
    <3> QED BY <3>4
  <2> HIDE DEF Came, Lost
  <2>5. /\ Remembers(h[k + 1])
        /\ Memory!Texts(h[k]) \cup {f}
            \subseteq Memory!Texts(h[k + 1]) \cup Memory!Archived(h[k], f)
    BY <2>1, <2>2, AddFactKeeps
  <2>6. Fine(k + 1)
    BY <2>1, <2>3, <2>4, <2>5
  <2> QED BY <1>3, <2>6
<1>4. S \in SUBSET (0..n)
  OBVIOUS
<1> HIDE DEF S, Fine
<1>5. S = 0..n
  BY <1>2, <1>3, <1>4, Induction
<1>6. n \in S
  BY <1>5
<1>7. Fine(n)
  BY <1>6 DEF S
<1>8. Memory!Texts(m) \cup Came(n) \subseteq Memory!Texts(h[n]) \cup Lost(n)
  BY <1>7 DEF Fine
<1>9. \A x : x \in Lost(n) <=>
        \E i \in 1..n : x \in Memory!Archived(h[i - 1], Memory!Up(top[i].text))
  OBVIOUS
<1>10. \A x : x \in Came(n) <=> \E i \in 1..n : x = Memory!Up(top[i].text)
  OBVIOUS
<1> HIDE DEF Lost, Came
<1> QED BY <1>7, <1>8, <1>9, <1>10 DEF Fine

LEMMA TellingsKeep ==
    ASSUME NEW n \in Nat, NEW m, Remembers(m), NEW said, NEW h, Tellings(h, m, said, n)
    PROVE  Remembers(h[n]) /\ Memory!Texts(h[n]) = Memory!Texts(m)
<1> DEFINE Fine(k) == Remembers(h[k]) /\ Memory!Texts(h[k]) = Memory!Texts(m)
           S == {k \in 0..n : Fine(k)}
<1>1. \A i \in 0..n : h[i] = IF i = 0 THEN m ELSE Memory!Decide(h[i - 1], Memory!Up(said[i]))
  <2>1. h = [i \in 0..n |-> IF i = 0 THEN m
                           ELSE Memory!Decide(h[i - 1], Memory!Up(said[i]))]
    BY DEF Tellings
  <2> QED BY <2>1, Zenon
<1>2. 0 \in S
  BY <1>1
<1>3. ASSUME NEW k \in S, k + 1 \in 0..n PROVE k + 1 \in S
  <2>1. k \in 0..n /\ Fine(k)
    OBVIOUS
  <2>2. h[k + 1] = Memory!Decide(h[k], Memory!Up(said[k + 1]))
    <3>1. k + 1 # 0 /\ (k + 1) - 1 = k
      BY <2>1
    <3> QED BY <1>1, <1>3, <3>1, Zenon
  <2>3. Fine(k + 1)
    BY <2>1, <2>2, DecideKeeps
  <2> QED BY <1>3, <2>3
<1>4. S \in SUBSET (0..n)
  OBVIOUS
<1> HIDE DEF S, Fine
<1>5. S = 0..n
  BY <1>2, <1>3, <1>4, Induction
<1>6. n \in S
  BY <1>5
<1>7. Fine(n)
  BY <1>6 DEF S
<1> QED BY <1>7 DEF Fine

\* What is known of agent a, of those that live a set S: its working set m, its file d, what
\* its secretary took in h, the archive c and the saves put off p.
AgentOk(a, S, m, d, h, c, p) ==
    /\ Remembers(m) /\ (d # None => MemoryRecord(d))
    /\ a \in S => /\ "latest" \notin p => d = m
                  /\ h \subseteq Memory!Texts(m) \cup c

\* The inductive invariant of the memory.
MemoryShape ==
    /\ live \subseteq Memory!Agents /\ IsSeq(journal)
    /\ DOMAIN mem = Memory!Agents /\ DOMAIN disk = Memory!Agents /\ DOMAIN heard = Memory!Agents
    /\ DOMAIN archive = Memory!Agents /\ DOMAIN later = Memory!Agents
AgentIs(a) == AgentOk(a, live, mem[a], disk[a], heard[a], archive[a], later[a])
MemoryInv == MemoryShape /\ \A a \in Memory!Agents : AgentIs(a)

LEMMA EmptyRemembers == Remembers(Memory!Empty) /\ Memory!Texts(Memory!Empty) = {}
<1>1. Memory!Empty.facts = <<>> /\ Memory!Empty.decisions = <<>>
      /\ MemoryFields \subseteq DOMAIN Memory!Empty
  BY DEF Memory!Empty, MemoryFields
<1>2. <<>> \in Seq({}) /\ DOMAIN <<>> = {}
  OBVIOUS
<1> HIDE DEF Memory!Empty
<1>3. FactList(Memory!Empty.facts)
  BY <1>1, <1>2 DEF FactList, IsSeq
<1> QED BY <1>1, <1>2, <1>3 DEF Remembers, MemoryRecord, IsSeq, Memory!Texts

\* A change of a field that is no list of facts.
LEMMA OtherField ==
    ASSUME NEW m, Remembers(m), NEW x
    PROVE  /\ Remembers([m EXCEPT !.flight = x])
           /\ Memory!Texts([m EXCEPT !.flight = x]) = Memory!Texts(m)
           /\ Remembers([m EXCEPT !.final = x])
           /\ Memory!Texts([m EXCEPT !.final = x]) = Memory!Texts(m)
           /\ Remembers([m EXCEPT !.child = x])
           /\ Memory!Texts([m EXCEPT !.child = x]) = Memory!Texts(m)
<1>1. MemoryFields \subseteq DOMAIN m /\ FactList(m.facts) /\ IsSeq(m.decisions)
  BY DEF Remembers, MemoryRecord
<1>2. /\ [m EXCEPT !.flight = x].facts = m.facts
      /\ [m EXCEPT !.flight = x].decisions = m.decisions
      /\ [m EXCEPT !.final = x].facts = m.facts
      /\ [m EXCEPT !.final = x].decisions = m.decisions
      /\ [m EXCEPT !.child = x].facts = m.facts
      /\ [m EXCEPT !.child = x].decisions = m.decisions
  BY <1>1 DEF MemoryFields
<1>3. /\ MemoryFields \subseteq DOMAIN [m EXCEPT !.flight = x]
      /\ MemoryFields \subseteq DOMAIN [m EXCEPT !.final = x]
      /\ MemoryFields \subseteq DOMAIN [m EXCEPT !.child = x]
  BY <1>1
<1> DEFINE u == [m EXCEPT !.flight = x]
           v == [m EXCEPT !.final = x]
           z == [m EXCEPT !.child = x]
<1> HIDE DEF u, v, z
<1>4. Remembers(u) /\ Remembers(v) /\ Remembers(z)
  BY <1>1, <1>2, <1>3 DEF Remembers, MemoryRecord, u, v, z
<1>5. Memory!Texts(u) = Memory!Texts(m) /\ Memory!Texts(v) = Memory!Texts(m)
      /\ Memory!Texts(z) = Memory!Texts(m)
  BY <1>2 DEF Memory!Texts, u, v, z
<1> QED BY <1>4, <1>5 DEF u, v, z

\* A secretary takes something in and puts its save off.
LEMMA TakesKeeps ==
    ASSUME MemoryInv, NEW a \in Memory!Agents, NEW m, Remembers(m), Memory!Takes(a, m),
           IsSeq(journal'), DOMAIN archive' = Memory!Agents, DOMAIN heard' = Memory!Agents,
           \A b \in Memory!Agents \ {a} : archive'[b] = archive[b] /\ heard'[b] = heard[b],
           heard'[a] \subseteq Memory!Texts(m) \cup archive'[a]
    PROVE  MemoryInv'
<1>1. MemoryShape /\ \A b \in Memory!Agents : AgentIs(b)
  BY DEF MemoryInv
<1>2. /\ mem' = [mem EXCEPT ![a] = m] /\ later' = [later EXCEPT ![a] = @ \cup {"latest"}]
      /\ live' = live /\ disk' = disk
  BY DEF Memory!Takes, Memory!Put
<1>3. MemoryShape'
  BY <1>1, <1>2 DEF MemoryShape
<1>4. AgentIs(a)'
  <2>1. mem'[a] = m /\ "latest" \in later'[a]
    BY <1>1, <1>2 DEF MemoryShape
  <2> QED BY <1>1, <1>2, <2>1 DEF AgentIs, AgentOk
<1>5. ASSUME NEW b \in Memory!Agents \ {a} PROVE AgentIs(b)'
  <2>1. mem'[b] = mem[b] /\ later'[b] = later[b]
    BY <1>1, <1>2 DEF MemoryShape
  <2> QED BY <1>1, <1>2, <2>1 DEF AgentIs
<1> QED BY <1>3, <1>4, <1>5 DEF MemoryInv

\* What becomes of the agents, each for itself.
LEMMA EachKeeps ==
    ASSUME MemoryShape', \A a \in Memory!Agents : AgentIs(a)'
    PROVE  MemoryInv'
BY DEF MemoryInv

LEMMA ObserveKeeps ==
    ASSUME MemoryInv, Memory!MemoryAssumption, NEW a \in Memory!Agents,
           \/ Memory!ToolCall(a)
           \/ \E f \in Facts, ok \in BOOLEAN : Memory!ToolResult(a, f, ok)
           \/ \E f \in Facts : Memory!Note(a, f)
           \/ \E d \in Decisions : Memory!Decision(a, d)
    PROVE  MemoryInv'
<1>1. MemoryShape /\ Remembers(mem[a])
  BY DEF MemoryInv, AgentIs, AgentOk
<1>2. a \in live => heard[a] \subseteq Memory!Texts(mem[a]) \cup archive[a]
  BY DEF MemoryInv, AgentIs, AgentOk
<1>3. CASE Memory!ToolCall(a)
  <2> DEFINE m == [mem[a] EXCEPT !.flight = TRUE]
  <2>1. Remembers(m) /\ Memory!Texts(m) = Memory!Texts(mem[a])
    BY <1>1, OtherField
  <2>2. Memory!Takes(a, m) /\ UNCHANGED <<archive, journal, heard>>
    BY <1>3 DEF Memory!ToolCall, Memory!NoFacts
  <2>3. a \in live
    BY <2>2 DEF Memory!Takes
  <2> HIDE DEF m
  <2> QED BY <1>1, <1>2, <2>1, <2>2, <2>3, TakesKeeps DEF MemoryShape
<1>4. ASSUME NEW f \in Facts, NEW ok \in BOOLEAN, Memory!ToolResult(a, f, ok) PROVE MemoryInv'
  <2> DEFINE m == [mem[a] EXCEPT !.flight = FALSE]
  <2>1. Remembers(m) /\ Memory!Texts(m) = Memory!Texts(mem[a])
    BY <1>1, OtherField
  <2>2. /\ Memory!Takes(a, IF ok THEN Memory!AddFact(m, f) ELSE m)
        /\ archive' = [archive EXCEPT ![a] = IF ok THEN @ \cup Memory!Archived(m, f) ELSE @]
        /\ journal' = Memory!LastOf(Append(journal, f), JournalKeep)
        /\ heard' = [heard EXCEPT ![a] = IF ok THEN @ \cup {f} ELSE @]
    BY <1>4 DEF Memory!ToolResult
  <2>3. a \in live
    BY <2>2 DEF Memory!Takes
  <2>4. IsSeq(journal')
    <3>1. PICK S : journal \in Seq(S)
      BY <1>1 DEF MemoryShape, IsSeq
    <3>2. Append(journal, f) \in Seq(S \cup {f})
      BY <3>1
    <3>3. JournalKeep \in Nat
      BY DEF Memory!MemoryAssumption
    <3> QED BY <2>2, <3>2, <3>3, LastOfKeeps DEF IsSeq
  <2> HIDE DEF m
  <2>5. /\ DOMAIN archive' = Memory!Agents /\ DOMAIN heard' = Memory!Agents
        /\ \A b \in Memory!Agents \ {a} : archive'[b] = archive[b] /\ heard'[b] = heard[b]
    BY <1>1, <2>2 DEF MemoryShape
  <2>6. CASE ok
    <3>1. /\ archive'[a] = archive[a] \cup Memory!Archived(m, f)
          /\ heard'[a] = heard[a] \cup {f}
      BY <1>1, <2>2, <2>6 DEF MemoryShape
    <3>2. /\ Remembers(Memory!AddFact(m, f))
          /\ Memory!Texts(m) \cup {f}
                \subseteq Memory!Texts(Memory!AddFact(m, f)) \cup Memory!Archived(m, f)
      BY <2>1, AddFactKeeps
    <3>3. heard'[a] \subseteq Memory!Texts(Memory!AddFact(m, f)) \cup archive'[a]
      BY <1>2, <2>1, <2>3, <3>1, <3>2
    <3>4. Memory!Takes(a, Memory!AddFact(m, f))
      BY <2>2, <2>6
    <3> QED BY <2>4, <2>5, <3>2, <3>3, <3>4, TakesKeeps
  <2>7. CASE ~ok
    <3>1. archive'[a] = archive[a] /\ heard'[a] = heard[a] /\ Memory!Takes(a, m)
      BY <1>1, <2>2, <2>7 DEF MemoryShape
    <3> QED BY <1>2, <2>1, <2>3, <2>4, <2>5, <3>1, TakesKeeps
  <2> QED BY <2>6, <2>7
<1>5. ASSUME NEW f \in Facts, Memory!Note(a, f) PROVE MemoryInv'
  <2>1. /\ Memory!Takes(a, Memory!AddFact(mem[a], f))
        /\ archive' = [archive EXCEPT ![a] = @ \cup Memory!Archived(mem[a], f)]
        /\ heard' = [heard EXCEPT ![a] = @ \cup {f}]
        /\ journal' = journal
    BY <1>5 DEF Memory!Note
  <2>2. a \in live
    BY <2>1 DEF Memory!Takes
  <2>3. /\ DOMAIN archive' = Memory!Agents /\ DOMAIN heard' = Memory!Agents
        /\ \A b \in Memory!Agents \ {a} : archive'[b] = archive[b] /\ heard'[b] = heard[b]
        /\ archive'[a] = archive[a] \cup Memory!Archived(mem[a], f)
        /\ heard'[a] = heard[a] \cup {f} /\ IsSeq(journal')
    BY <1>1, <2>1 DEF MemoryShape
  <2>4. /\ Remembers(Memory!AddFact(mem[a], f))
        /\ Memory!Texts(mem[a]) \cup {f}
              \subseteq Memory!Texts(Memory!AddFact(mem[a], f)) \cup Memory!Archived(mem[a], f)
    BY <1>1, AddFactKeeps
  <2>5. heard'[a] \subseteq Memory!Texts(Memory!AddFact(mem[a], f)) \cup archive'[a]
    BY <1>2, <2>2, <2>3, <2>4
  <2> QED BY <2>1, <2>3, <2>4, <2>5, TakesKeeps
<1>6. ASSUME NEW d \in Decisions, Memory!Decision(a, d) PROVE MemoryInv'
  <2>1. Memory!Takes(a, Memory!Decide(mem[a], d)) /\ UNCHANGED <<archive, journal, heard>>
    BY <1>6 DEF Memory!Decision, Memory!NoFacts
  <2>2. a \in live
    BY <2>1 DEF Memory!Takes
  <2>3. /\ Remembers(Memory!Decide(mem[a], d))
        /\ Memory!Texts(Memory!Decide(mem[a], d)) = Memory!Texts(mem[a])
    BY <1>1, DecideKeeps
  <2> QED BY <1>1, <1>2, <2>1, <2>2, <2>3, TakesKeeps DEF MemoryShape
<1> QED BY <1>3, <1>4, <1>5, <1>6

\* What the file holds when it holds a working set.
LEMMA FileIs == ASSUME NEW m, Remembers(m) PROVE MemoryRecord(m)
BY DEF Remembers

LEMMA SavesKeep ==
    ASSUME MemoryInv, NEW a \in Memory!Agents,
           Memory!Errs(a) \/ Memory!SaveLatest(a) \/ Memory!SaveBefore(a) \/ Memory!Snapshot(a)
    PROVE  MemoryInv'
<1>1. MemoryShape /\ \A b \in Memory!Agents : AgentIs(b)
  BY DEF MemoryInv
<1>2. Remembers(mem[a]) /\ MemoryRecord(mem[a])
  BY <1>1, FileIs DEF AgentIs, AgentOk
<1>3. /\ live' = live /\ archive' = archive /\ heard' = heard /\ journal' = journal
  BY DEF Memory!Errs, Memory!SaveLatest, Memory!SaveBefore, Memory!Snapshot, Memory!NoFacts
<1>4. CASE Memory!Errs(a)
  <2> DEFINE m == [mem[a] EXCEPT !.final = "error"]
  <2>1. mem' = [mem EXCEPT ![a] = m] /\ disk' = [disk EXCEPT ![a] = mem'[a]] /\ later' = later
    BY <1>4 DEF Memory!Errs, Memory!Flush
  <2>2. Remembers(m) /\ Memory!Texts(m) = Memory!Texts(mem[a])
    BY <1>2, OtherField
  <2> HIDE DEF m
  <2>3. mem'[a] = m /\ disk'[a] = m
    BY <1>1, <2>1 DEF MemoryShape
  <2>4. AgentIs(a)'
    BY <1>1, <1>3, <2>1, <2>2, <2>3, FileIs DEF AgentIs, AgentOk
  <2>5. ASSUME NEW b \in Memory!Agents \ {a} PROVE AgentIs(b)'
    <3>1. mem'[b] = mem[b] /\ disk'[b] = disk[b]
      BY <1>1, <2>1 DEF MemoryShape
    <3> QED BY <1>1, <1>3, <2>1, <3>1 DEF AgentIs
  <2>6. MemoryShape'
    BY <1>1, <1>3, <2>1 DEF MemoryShape
  <2> QED BY <2>4, <2>5, <2>6, EachKeeps
<1>5. CASE Memory!SaveLatest(a)
  <2>1. /\ mem' = mem /\ later' = [later EXCEPT ![a] = @ \ {"latest"}]
        /\ a \in live => disk' = [disk EXCEPT ![a] = mem[a]]
        /\ a \notin live => disk' = disk
    BY <1>5 DEF Memory!SaveLatest, Memory!Flush
  <2>2. /\ a \in live => disk'[a] = mem[a]
        /\ a \notin live => disk'[a] = disk[a]
    BY <1>1, <2>1 DEF MemoryShape
  <2>3. AgentIs(a)'
    BY <1>1, <1>2, <1>3, <2>1, <2>2 DEF AgentIs, AgentOk
  <2>4. ASSUME NEW b \in Memory!Agents \ {a} PROVE AgentIs(b)'
    <3>1. later'[b] = later[b] /\ disk'[b] = disk[b]
      BY <1>1, <2>1 DEF MemoryShape
    <3> QED BY <1>1, <1>3, <2>1, <3>1 DEF AgentIs
  <2>5. MemoryShape'
    BY <1>1, <1>3, <2>1 DEF MemoryShape
  <2> QED BY <2>3, <2>4, <2>5, EachKeeps
<1>6. CASE Memory!SaveBefore(a)
  <2>1. mem' = mem /\ disk' = disk /\ later' = [later EXCEPT ![a] = @ \ {"before"}]
    BY <1>6 DEF Memory!SaveBefore
  <2>2. "latest" \in later'[a] <=> "latest" \in later[a]
    BY <1>1, <2>1 DEF MemoryShape
  <2>3. AgentIs(a)'
    BY <1>1, <1>3, <2>1, <2>2 DEF AgentIs, AgentOk
  <2>4. ASSUME NEW b \in Memory!Agents \ {a} PROVE AgentIs(b)'
    <3>1. later'[b] = later[b]
      BY <1>1, <2>1 DEF MemoryShape
    <3> QED BY <1>1, <1>3, <2>1, <3>1 DEF AgentIs
  <2>5. MemoryShape'
    BY <1>1, <1>3, <2>1 DEF MemoryShape
  <2> QED BY <2>3, <2>4, <2>5, EachKeeps
<1>7. CASE Memory!Snapshot(a)
  <2>1. mem' = mem /\ later' = later /\ disk' = [disk EXCEPT ![a] = mem[a]]
    BY <1>7 DEF Memory!Snapshot, Memory!Flush
  <2>2. disk'[a] = mem[a]
    BY <1>1, <2>1 DEF MemoryShape
  <2>3. AgentIs(a)'
    BY <1>1, <1>2, <1>3, <2>1, <2>2 DEF AgentIs, AgentOk
  <2>4. ASSUME NEW b \in Memory!Agents \ {a} PROVE AgentIs(b)'
    <3>1. disk'[b] = disk[b]
      BY <1>1, <2>1 DEF MemoryShape
    <3> QED BY <1>1, <1>3, <2>1, <3>1 DEF AgentIs
  <2>5. MemoryShape'
    BY <1>1, <1>3, <2>1 DEF MemoryShape
  <2> QED BY <2>3, <2>4, <2>5, EachKeeps
<1> QED BY <1>4, <1>5, <1>6, <1>7

\* A fact grows old in its place.
LEMMA AgingKeeps ==
    ASSUME NEW m, Remembers(m), NEW i \in DOMAIN m.facts
    PROVE  LET u == [m EXCEPT !.facts[i].aged = TRUE]
           IN  Remembers(u) /\ Memory!Texts(u) = Memory!Texts(m)
<1> DEFINE s == m.facts
           x == [m.facts[i] EXCEPT !.aged = TRUE]
           v == [m.facts EXCEPT ![i] = x]
           u == [m EXCEPT !.facts = v]
<1>1. PICK S : s \in Seq(S)
  BY DEF Remembers, FactList, IsSeq
<1>2. MemoryRecord(m) /\ \A j \in DOMAIN s : "text" \in DOMAIN s[j]
  BY DEF Remembers, FactList
<1>3. x.text = s[i].text /\ "text" \in DOMAIN x
  BY <1>2
<1>4. u.facts = v /\ MemoryRecord(u)
  BY <1>2 DEF MemoryFields, MemoryRecord
<1>5. /\ DOMAIN v = DOMAIN s /\ v[i] = x /\ \A j \in DOMAIN s : j # i => v[j] = s[j]
  OBVIOUS
<1>6. v \in Seq(S \cup {x})
  <2>1. s \in Seq(S \cup {x}) /\ i \in 1..Len(s) /\ x \in S \cup {x}
    BY <1>1
  <2> HIDE DEF x
  <2>2. [s EXCEPT ![i] = x] \in Seq(S \cup {x})
    BY <2>1, ExceptSeq
  <2> QED BY <2>2
<1> HIDE DEF v, x
<1>7. FactList(v)
  BY <1>2, <1>3, <1>5, <1>6 DEF FactList, IsSeq
<1>8. \A j \in DOMAIN s : v[j].text = s[j].text
  BY <1>3, <1>5
<1> HIDE DEF s
<1>9. Memory!Texts(u) = Memory!Texts(m)
  BY <1>4, <1>5, <1>8 DEF Memory!Texts, s
<1>10. Remembers(u)
  BY <1>4, <1>7 DEF Remembers
<1>11. [m EXCEPT !.facts[i].aged = TRUE] = u
  BY DEF v, x
<1> QED BY <1>9, <1>10, <1>11

LEMMA AgesKeep ==
    ASSUME MemoryInv, NEW a \in Memory!Agents, Memory!Ages(a)
    PROVE  MemoryInv'
<1>1. MemoryShape /\ \A b \in Memory!Agents : AgentIs(b)
  BY DEF MemoryInv
<1>2. PICK i \in DOMAIN mem[a].facts :
        /\ mem' = [mem EXCEPT ![a].facts[i].aged = TRUE]
        /\ disk' = [disk EXCEPT ![a] = mem'[a]]
  BY DEF Memory!Ages, Memory!Flush
<1> DEFINE m == [mem[a] EXCEPT !.facts[i].aged = TRUE]
<1>3. mem' = [mem EXCEPT ![a] = m]
  BY <1>2
<1>4. /\ live' = live /\ later' = later /\ archive' = archive /\ heard' = heard
      /\ journal' = journal
  BY DEF Memory!Ages
<1>5. Remembers(m) /\ Memory!Texts(m) = Memory!Texts(mem[a])
  BY <1>1, <1>2, AgingKeeps DEF AgentIs, AgentOk
<1> HIDE DEF m
<1>6. mem'[a] = m /\ disk'[a] = m
  BY <1>1, <1>2, <1>3 DEF MemoryShape
<1>7. AgentIs(a)'
  BY <1>1, <1>4, <1>5, <1>6, FileIs DEF AgentIs, AgentOk
<1>8. ASSUME NEW b \in Memory!Agents \ {a} PROVE AgentIs(b)'
  <2>1. mem'[b] = mem[b] /\ disk'[b] = disk[b]
    BY <1>1, <1>2, <1>3 DEF MemoryShape
  <2> QED BY <1>1, <1>4, <2>1 DEF AgentIs
<1>9. MemoryShape'
  BY <1>1, <1>2, <1>3, <1>4 DEF MemoryShape
<1> QED BY <1>7, <1>8, <1>9, EachKeeps

\* A resumed agent has the facts of the journal, and has taken nothing in yet.
LEMMA ResumeKeeps ==
    ASSUME MemoryInv, NEW a \in Memory!Agents, Memory!Resume(a)
    PROVE  MemoryInv'
<1>1. MemoryShape /\ \A b \in Memory!Agents : AgentIs(b)
  BY DEF MemoryInv
<1> DEFINE base == IF a \in live THEN mem[a] ELSE disk[a]
           m == Memory!Loaded(base)
<1>2. /\ disk[a] # None /\ mem' = [mem EXCEPT ![a] = m] /\ disk' = [disk EXCEPT ![a] = mem'[a]]
      /\ live' = live \cup {a}
      /\ later' = [later EXCEPT ![a] = IF @ = {} THEN {} ELSE {"before"}]
      /\ heard' = [heard EXCEPT ![a] = {}]
      /\ archive' = archive /\ journal' = journal
  BY DEF Memory!Resume, Memory!Flush
<1>3. MemoryRecord(base)
  BY <1>1, <1>2 DEF AgentIs, AgentOk, Remembers
<1> HIDE DEF base
<1>4. Remembers(m)
  <2> DEFINE s == [i \in DOMAIN journal |-> [text |-> journal[i], weight |-> 1, aged |-> FALSE]]
  <2>1. m.facts = s /\ MemoryRecord(m)
    BY <1>3 DEF Memory!Loaded, MemoryFields, MemoryRecord
  <2>2. PICK S : journal \in Seq(S)
    BY <1>1 DEF MemoryShape, IsSeq
  <2>3. DOMAIN journal = 1..Len(journal) /\ Len(journal) \in Nat
    BY <2>2
  <2>4. DOMAIN s = DOMAIN journal /\ s = [i \in DOMAIN journal |-> s[i]]
        /\ \A i \in DOMAIN s : "text" \in DOMAIN s[i]
    OBVIOUS
  <2> HIDE DEF s
  <2>5. IsSeq(s)
    BY <2>3, <2>4, SequenceIs
  <2> QED BY <2>1, <2>4, <2>5 DEF Remembers, FactList
<1> HIDE DEF m
<1>5. mem'[a] = m /\ disk'[a] = m /\ heard'[a] = {}
  BY <1>1, <1>2 DEF MemoryShape
<1>6. AgentIs(a)'
  BY <1>4, <1>5, FileIs DEF AgentIs, AgentOk
<1>7. ASSUME NEW b \in Memory!Agents \ {a} PROVE AgentIs(b)'
  <2>1. /\ mem'[b] = mem[b] /\ disk'[b] = disk[b] /\ heard'[b] = heard[b]
        /\ later'[b] = later[b] /\ (b \in live' <=> b \in live)
    BY <1>1, <1>2 DEF MemoryShape
  <2> QED BY <1>1, <1>2, <2>1 DEF AgentIs, AgentOk
<1>8. MemoryShape'
  BY <1>1, <1>2 DEF MemoryShape
<1> QED BY <1>6, <1>7, <1>8, EachKeeps

\* Nobody lives after a crash or a shutdown.
LEMMA EndKeeps ==
    ASSUME MemoryInv, Memory!Crash \/ Memory!Shutdown
    PROVE  MemoryInv'
<1>1. MemoryShape /\ \A b \in Memory!Agents : AgentIs(b)
  BY DEF MemoryInv
<1>2. /\ live' = {} /\ later' = [a \in Memory!Agents |-> {}]
      /\ mem' = [a \in Memory!Agents |-> Memory!Empty]
      /\ heard' = [a \in Memory!Agents |-> {}] /\ archive' = archive /\ journal' = journal
      /\ \/ disk' = disk
         \/ disk' = [a \in Memory!Agents |-> IF a \in live THEN mem[a] ELSE disk[a]]
  BY DEF Memory!Crash, Memory!Shutdown
<1>3. MemoryShape'
  BY <1>1, <1>2 DEF MemoryShape
<1>4. ASSUME NEW b \in Memory!Agents PROVE AgentIs(b)'
  <2>1. mem'[b] = Memory!Empty /\ disk'[b] \in {mem[b], disk[b]}
    BY <1>2
  <2>2. disk'[b] # None => MemoryRecord(disk'[b])
    BY <1>1, <2>1 DEF AgentIs, AgentOk, Remembers
  <2> QED BY <1>2, <2>1, <2>2, EmptyRemembers DEF AgentIs, AgentOk
<1> QED BY <1>3, <1>4, EachKeeps

LEMMA SpawnsKeep ==
    ASSUME MemoryInv, Memory!MemoryAssumption, Memory!Spawns
    PROVE  MemoryInv'
<1>1. MemoryShape /\ \A b \in Memory!Agents : AgentIs(b)
  BY DEF MemoryInv
<1>2. Leader # Child /\ Memory!Agents = {Leader, Child}
  BY DEF Memory!MemoryAssumption, Memory!Agents
<1> DEFINE m == [mem[Leader] EXCEPT !.child = "running"]
<1>3. /\ Leader \in live /\ live' = live \cup {Child}
      /\ mem' = [mem EXCEPT ![Leader] = m, ![Child] = Memory!Empty]
      /\ heard' = [heard EXCEPT ![Child] = {}]
      /\ later' = [later EXCEPT ![Leader] = @ \cup {"latest"}]
      /\ disk' = [disk EXCEPT ![Child] = Memory!Empty]
      /\ archive' = archive /\ journal' = journal
  BY DEF Memory!Spawns, Memory!Flush
<1>4. Remembers(m) /\ Memory!Texts(m) = Memory!Texts(mem[Leader])
  BY <1>1, <1>2, OtherField DEF AgentIs, AgentOk
<1> HIDE DEF m
<1>5. MemoryShape'
  BY <1>1, <1>2, <1>3 DEF MemoryShape
<1>6. /\ mem'[Leader] = m /\ mem'[Child] = Memory!Empty /\ disk'[Leader] = disk[Leader]
      /\ disk'[Child] = Memory!Empty /\ heard'[Leader] = heard[Leader] /\ heard'[Child] = {}
      /\ "latest" \in later'[Leader]
  BY <1>1, <1>2, <1>3 DEF MemoryShape
<1>7. AgentIs(Leader)'
  BY <1>1, <1>2, <1>3, <1>4, <1>6 DEF AgentIs, AgentOk
<1>8. AgentIs(Child)'
  BY <1>6, EmptyRemembers, FileIs DEF AgentIs, AgentOk
<1> QED BY <1>2, <1>5, <1>7, <1>8, EachKeeps

\* The child's end: its last snapshot, and what of it goes up to a leader that lives.
LEMMA ChildEndsKeep ==
    ASSUME MemoryInv, Memory!MemoryAssumption, NEW ok \in BOOLEAN, Memory!ChildEnds(ok)
    PROVE  MemoryInv'
<1>1. MemoryShape /\ \A b \in Memory!Agents : AgentIs(b)
  BY DEF MemoryInv
<1>2. Leader # Child /\ Memory!Agents = {Leader, Child}
  BY DEF Memory!MemoryAssumption, Memory!Agents
<1> DEFINE final == IF ok THEN "done" ELSE "error"
           last == [mem[Child] EXCEPT !.flight = FALSE, !.final = final]
           top == Memory!TopFacts(mem[Child], 5)
           child == IF mem[Leader].child = None THEN None ELSE final
           noted == [mem[Leader] EXCEPT !.child = child]
           taken == CHOOSE h : h = [i \in 0..Len(top) |->
                        IF i = 0 THEN noted
                        ELSE Memory!AddFact(h[i - 1], Memory!Up(top[i].text))]
           lost == UNION {Memory!Archived(taken[i - 1], Memory!Up(top[i].text)) :
                            i \in DOMAIN top}
           said == Memory!LastOf(mem[Child].decisions, 3)
           told == CHOOSE h : h = [i \in 0..Len(said) |->
                        IF i = 0 THEN taken[Len(top)]
                        ELSE Memory!Decide(h[i - 1], Memory!Up(said[i]))]
           up == Leader \in live
<1>3. /\ mem' = [mem EXCEPT ![Child] = Memory!Empty,
                            ![Leader] = IF up THEN told[Len(said)] ELSE @]
      /\ disk' = [disk EXCEPT ![Child] = last]
      /\ live' = live \ {Child}
      /\ later' = [later EXCEPT ![Leader] = IF up THEN @ \cup {"latest"} ELSE @,
                                ![Child] = IF @ = {} THEN {} ELSE {"before"}]
      /\ archive' = [archive EXCEPT ![Leader] = IF up THEN @ \cup lost ELSE @]
      /\ heard' = [heard EXCEPT ![Child] = {}, ![Leader] =
                        IF up THEN @ \cup {Memory!Up(top[i].text) : i \in DOMAIN top} ELSE @]
      /\ journal' = journal
  BY DEF Memory!ChildEnds, Memory!Flush
<1>4. MemoryRecord(last)
  BY <1>1, <1>2 DEF AgentIs, AgentOk, Remembers, MemoryRecord, MemoryFields
<1>5. Remembers(noted) /\ Memory!Texts(noted) = Memory!Texts(mem[Leader])
  BY <1>1, <1>2, OtherField DEF AgentIs, AgentOk
<1>6. Len(top) \in Nat /\ DOMAIN top = 1..Len(top)
  <2> DEFINE s == mem[Child].facts
             size == IF Len(s) < 5 THEN Len(s) ELSE 5
  <2>1. PICK S : s \in Seq(S)
    BY <1>1, <1>2 DEF AgentIs, AgentOk, Remembers, FactList, IsSeq
  <2>2. size \in Nat
    BY <2>1
  <2>3. DOMAIN top = 1..size /\ top = [i \in 1..size |-> top[i]]
    BY DEF Memory!TopFacts
  <2> HIDE DEF size, top
  <2> QED BY <2>2, <2>3, SequenceIs
<1>7. Takings(taken, noted, top, Len(top))
  <2> HIDE DEF noted, top
  <2>1. \E h : Takings(h, noted, top, Len(top))
    BY <1>6, TakingsExist
  <2> QED BY <2>1, Zenon DEF Takings
<1> HIDE DEF taken
<1> DEFINE came == {Memory!Up(top[i].text) : i \in DOMAIN top}
<1>8. /\ Remembers(taken[Len(top)])
      /\ Memory!Texts(noted) \cup came \subseteq Memory!Texts(taken[Len(top)]) \cup lost
  <2>1. \A x : x \in came <=> \E i \in 1..Len(top) : x = Memory!Up(top[i].text)
    BY <1>6
  <2>2. \A x : x \in lost <=>
            \E i \in 1..Len(top) : x \in Memory!Archived(taken[i - 1], Memory!Up(top[i].text))
    BY <1>6
  <2> HIDE DEF noted, top, came, lost
  <2>3. /\ Remembers(taken[Len(top)])
        /\ \A x : \/ x \in Memory!Texts(noted)
                  \/ \E i \in 1..Len(top) : x = Memory!Up(top[i].text)
             => \/ x \in Memory!Texts(taken[Len(top)])
                \/ \E i \in 1..Len(top) :
                     x \in Memory!Archived(taken[i - 1], Memory!Up(top[i].text))
    BY <1>5, <1>6, <1>7, TakingsKeep
  <2> QED BY <2>1, <2>2, <2>3
<1>9. Len(said) \in Nat
  <2>1. IsSeq(mem[Child].decisions)
    BY <1>1, <1>2 DEF AgentIs, AgentOk, Remembers, MemoryRecord
  <2> QED BY <2>1, LastOfKeeps
<1>10. Tellings(told, taken[Len(top)], said, Len(said))
  <2> HIDE DEF said, top
  <2>1. \E h : Tellings(h, taken[Len(top)], said, Len(said))
    BY <1>9, TellingsExist
  <2> QED BY <2>1, Zenon DEF Tellings
<1> HIDE DEF told
<1> DEFINE m == told[Len(said)]
<1>11. Remembers(m) /\ Memory!Texts(m) = Memory!Texts(taken[Len(top)])
  <2> HIDE DEF said, top
  <2> QED BY <1>8, <1>9, <1>10, TellingsKeep
<1>12. Memory!Texts(mem[Leader]) \cup came \subseteq Memory!Texts(m) \cup lost
  BY <1>5, <1>8, <1>11
<1>13. /\ mem'[Child] = Memory!Empty /\ disk'[Child] = last /\ heard'[Child] = {}
       /\ disk'[Leader] = disk[Leader] /\ Child \notin live'
       /\ Leader \in live' <=> Leader \in live
  <2> HIDE DEF m, came, lost, last
  <2> QED BY <1>1, <1>2, <1>3 DEF MemoryShape
<1>14. ASSUME Leader \in live PROVE AgentIs(Leader)'
  <2> HIDE DEF m, came, lost, last
  <2>1. /\ mem'[Leader] = m /\ "latest" \in later'[Leader]
        /\ archive'[Leader] = archive[Leader] \cup lost
        /\ heard'[Leader] = heard[Leader] \cup came
    BY <1>1, <1>2, <1>3, <1>14 DEF MemoryShape, m, came
  <2>2. heard[Leader] \subseteq Memory!Texts(mem[Leader]) \cup archive[Leader]
    BY <1>1, <1>2, <1>14 DEF AgentIs, AgentOk
  <2>3. heard'[Leader] \subseteq Memory!Texts(m) \cup archive'[Leader]
    BY <1>12, <2>1, <2>2
  <2>4. disk[Leader] # None => MemoryRecord(disk[Leader])
    BY <1>1, <1>2 DEF AgentIs, AgentOk
  <2> QED BY <1>11, <1>13, <2>1, <2>3, <2>4 DEF AgentIs, AgentOk
<1>15. ASSUME Leader \notin live PROVE AgentIs(Leader)'
  <2> HIDE DEF m, came, lost, last
  <2>1. mem'[Leader] = mem[Leader]
    BY <1>1, <1>2, <1>3, <1>15 DEF MemoryShape
  <2> QED BY <1>1, <1>2, <1>13, <1>15, <2>1 DEF AgentIs, AgentOk
<1>16. AgentIs(Child)'
  <2> HIDE DEF last
  <2> QED BY <1>4, <1>13, EmptyRemembers DEF AgentIs, AgentOk
<1>17. MemoryShape'
  <2> HIDE DEF m, came, lost, last
  <2> QED BY <1>1, <1>2, <1>3 DEF MemoryShape
<1> QED BY <1>2, <1>14, <1>15, <1>16, <1>17, EachKeeps

\* What a secretary has taken in is in its working set or in the archive, and a file with
\* nothing put off holds the working set, whatever ends, dies or is resumed.
THEOREM MemoryTheorem == Spec => []MemoryIsKept
<1> DEFINE I == part = "memory" => MemoryInv
<1>1. Init => I
  <2> SUFFICES ASSUME Init, part = "memory" PROVE MemoryInv
    OBVIOUS
  <2>1. Memory!Init
    BY DEF Init
  <2>2. MemoryShape
    <3>1. journal \in Seq({}) /\ live \subseteq Memory!Agents
      BY <2>1 DEF Memory!Init, Memory!Agents
    <3>2. /\ DOMAIN mem = Memory!Agents /\ DOMAIN disk = Memory!Agents
          /\ DOMAIN heard = Memory!Agents /\ DOMAIN archive = Memory!Agents
          /\ DOMAIN later = Memory!Agents
      BY <2>1 DEF Memory!Init
    <3> QED BY <3>1, <3>2 DEF MemoryShape, IsSeq
  <2>3. ASSUME NEW a \in Memory!Agents PROVE AgentIs(a)
    <3>1. mem[a] = Memory!Empty /\ disk[a] \in {Memory!Empty, None} /\ heard[a] = {}
          /\ (a \in live => disk[a] = Memory!Empty)
      BY <2>1 DEF Memory!Init
    <3> QED BY <3>1, EmptyRemembers, FileIs DEF AgentIs, AgentOk
  <2> QED BY <2>2, <2>3 DEF MemoryInv
<1>2. I /\ [Next]_vars => I'
  <2> SUFFICES ASSUME I, [Next]_vars, part' = "memory" PROVE MemoryInv'
    OBVIOUS
  <2>0. Memory!MemoryAssumption
    BY ServicesAssumption DEF ServicesAssumption
  <2>1. CASE part = "memory" /\ Memory!Next
    <3>1. MemoryInv
      BY <2>1
    <3>2. \/ \E a \in Memory!Agents :
                \/ Memory!ToolCall(a)
                \/ \E f \in Facts, ok \in BOOLEAN : Memory!ToolResult(a, f, ok)
                \/ \E f \in Facts : Memory!Note(a, f)
                \/ \E d \in Decisions : Memory!Decision(a, d)
          \/ \E a \in Memory!Agents : Memory!Errs(a) \/ Memory!SaveLatest(a)
                    \/ Memory!SaveBefore(a) \/ Memory!Snapshot(a)
          \/ \E a \in Memory!Agents : Memory!Ages(a)
          \/ \E a \in Memory!Agents : Memory!Resume(a)
          \/ Memory!Spawns
          \/ \E ok \in BOOLEAN : Memory!ChildEnds(ok)
          \/ Memory!Crash \/ Memory!Shutdown
      BY <2>1, Zenon DEF Memory!Next
    <3> QED BY <2>0, <3>1, <3>2, ObserveKeeps, SavesKeep, AgesKeep, ResumeKeeps, SpawnsKeep,
               ChildEndsKeep, EndKeeps
  <2>2. CASE UNCHANGED memoryVars /\ part = "memory"
    BY <2>2 DEF memoryVars, MemoryInv, MemoryShape, AgentIs
  <2> QED BY <2>1, <2>2 DEF Next, DeliveryNext, ServicesNext, vars, memoryVars
<1>3. I => MemoryIsKept
  <2> SUFFICES ASSUME MemoryInv PROVE Memory!SnapshotIsLatest /\ Memory!NothingIsForgotten
    BY DEF MemoryIsKept
  <2>1. live \subseteq Memory!Agents /\ \A a \in Memory!Agents : AgentIs(a)
    BY DEF MemoryInv, MemoryShape
  <2> QED BY <2>1 DEF AgentIs, AgentOk, Memory!SnapshotIsLatest, Memory!NothingIsForgotten
<1> QED BY <1>1, <1>2, <1>3, PTL DEF Spec

-----------------------------------------------------------------------------
(* The card of an answer *)

CardFields ==
    {"version", "ended", "dirty", "pending", "timer", "timers", "calls", "card", "shows",
     "text", "token", "fetches", "mark", "overlap", "failures", "expiries"}
Sendings == [stage : {"token", "send"}, card : Nat, version : Nat]

\* Somebody comes to look.
Coming(v) == v.timers # {} \/ v.calls # {}
Typed(v) ==
    /\ CardFields \subseteq DOMAIN v
    /\ v.version \in Nat /\ v.timer \in Nat /\ v.failures \in Nat /\ v.shows \in Seq(Nat)
    /\ v.card \in 0..Len(v.shows) /\ v.fetches \in {0, 1}
    /\ v.calls \subseteq Sendings /\ \A x \in v.calls : x.card \in 0..Len(v.shows)
    /\ (\E x \in v.calls : x.stage = "token") => v.fetches = 1

\* As long as nothing fails and calls do not overlap: one call at most, for the one card,
\* with the last state unless it has changed since.
Current(v) ==
    /\ \A x, y \in v.calls : x = y
    /\ \A x \in v.calls : x.card = v.card /\ (~v.dirty => x.version = v.version)
    /\ v.card = Len(v.shows) /\ v.card <= 1
    /\ v.calls = {} /\ ~v.dirty /\ v.version > 0 => v.shows = <<v.version>>
Smooth(v) == ~v.overlap /\ v.failures = 0

\* The inductive invariant of the card.
CardIs(v) ==
    /\ Typed(v) /\ (v.pending \/ (v.dirty /\ v.failures = 0) => Coming(v))
    /\ Smooth(v) => Current(v)

LEMMA CardStart ==
    ASSUME Cards!Init
    PROVE  CardIs(card)
BY DEF Cards!Init, CardIs, Typed, Smooth, Current, CardFields, Sendings, Coming

LEMMA ArmedIs ==
    ASSUME NEW v, CardFields \subseteq DOMAIN v, v.timer \in Nat, NEW n \in Nat \ {0}
    PROVE  LET u == Cards!Armed(v, n)
           IN  /\ DOMAIN u = DOMAIN v /\ u.timers # {} /\ u.timer \in Nat
               /\ \A field \in CardFields \ {"timer", "timers"} : u[field] = v[field]
<1> DEFINE more == v.timers \cup (v.timer + 1)..(v.timer + n)
           u == [v EXCEPT !.timer = v.timer + n, !.timers = more]
<1>1. more # {}
  <2>1. v.timer + 1 \in (v.timer + 1)..(v.timer + n)
    OBVIOUS
  <2> QED BY <2>1
<1> HIDE DEF more
<1>2. Cards!Armed(v, n) = u
  BY DEF Cards!Armed, more
<1>3. DOMAIN u = DOMAIN v /\ u.timers = more /\ u.timer \in Nat
  BY DEF CardFields
<1>4. \A field \in CardFields \ {"timer", "timers"} : u[field] = v[field]
  BY DEF CardFields
<1> HIDE DEF u
<1> QED BY <1>1, <1>2, <1>3, <1>4

\* What a step that leaves a timer has to keep.
LEMMA TimedIs ==
    ASSUME NEW v, Typed(v), Smooth(v) => Current(v), NEW u, CardFields \subseteq DOMAIN u,
           u.timers # {}, u.timer \in Nat,
           \A field \in CardFields \ {"timer", "timers", "pending"} : u[field] = v[field]
    PROVE  CardIs(u)
<1>1. /\ u.version = v.version /\ u.failures = v.failures /\ u.shows = v.shows
      /\ u.card = v.card /\ u.fetches = v.fetches /\ u.calls = v.calls /\ u.dirty = v.dirty
      /\ u.overlap = v.overlap
  BY DEF CardFields
<1>2. Typed(u)
  BY <1>1 DEF Typed
<1>3. Smooth(u) => Current(u)
  BY <1>1 DEF Smooth, Current
<1> QED BY <1>2, <1>3 DEF CardIs, Coming

LEMMA FiredIs ==
    ASSUME NEW v, Typed(v), Smooth(v) => Current(v), NEW n \in Nat \ {0}
    PROVE  CardIs(Cards!Fired(v, n))
<1> DEFINE u == Cards!Armed(v, n)
           x == [v EXCEPT !.pending = FALSE]
<1>1. CASE v.dirty
  <2>1. Cards!Fired(v, n) = u
    BY <1>1 DEF Cards!Fired
  <2>2. /\ DOMAIN u = DOMAIN v /\ u.timers # {} /\ u.timer \in Nat
        /\ \A field \in CardFields \ {"timer", "timers"} : u[field] = v[field]
    BY ArmedIs DEF Typed
  <2> HIDE DEF u
  <2>3. CardIs(u)
    BY <2>2, TimedIs DEF Typed
  <2> QED BY <2>1, <2>3
<1>2. CASE ~v.dirty
  <2>1. Cards!Fired(v, n) = x
    BY <1>2 DEF Cards!Fired
  <2>2. CardIs(x)
    BY <1>2 DEF CardIs, Typed, Smooth, Current, CardFields
  <2> QED BY <2>1, <2>2
<1> QED BY <1>1, <1>2

LEMMA FellBackIs ==
    ASSUME NEW v, Typed(v), v.failures > 0
    PROVE  CardIs(Cards!FellBack(v))
BY DEF Cards!FellBack, CardIs, Typed, Smooth, CardFields

LEMMA AskIs ==
    ASSUME NEW v, NEW x, CardFields \subseteq DOMAIN v, Typed(v), x \in Sendings, x.stage = "token",
           x.card \in 0..Len(v.shows), ~v.dirty,
           Smooth(v) => v.calls = {} /\ x.card = v.card /\ x.version = v.version
                          /\ v.card = Len(v.shows) /\ v.card <= 1
    PROVE  CardIs(Cards!Ask(v, x))
<1> DEFINE y == [x EXCEPT !.stage = "send"]
           u1 == [v EXCEPT !.calls = @ \cup {x}]
           u2 == [v EXCEPT !.calls = @ \cup {y}]
           u3 == [v EXCEPT !.calls = @ \cup {x}, !.fetches = 1]
<1>1. y \in Sendings /\ y.card = x.card /\ y.version = x.version /\ y.stage = "send"
  BY DEF Sendings
<1> HIDE DEF y
<1>2. Typed(u3) /\ (v.fetches > 0 => Typed(u1)) /\ Typed(u2)
  BY <1>1 DEF Typed, CardFields
<1>3. (Smooth(u1) => Current(u1)) /\ (Smooth(u2) => Current(u2)) /\ (Smooth(u3) => Current(u3))
  BY <1>1 DEF Typed, Smooth, Current, CardFields
<1>4. Coming(u1) /\ Coming(u2) /\ Coming(u3)
  BY DEF Coming, CardFields
<1>5. CardIs(u3) /\ (v.fetches > 0 => CardIs(u1)) /\ CardIs(u2)
  BY <1>2, <1>3, <1>4 DEF CardIs
<1>6. \/ v.fetches > 0 /\ Cards!Ask(v, x) = u1
      \/ Cards!Ask(v, x) = u2 \/ Cards!Ask(v, x) = u3
  BY DEF Cards!Ask, y
<1> QED BY <1>5, <1>6

LEMMA FireIs ==
    ASSUME NEW v, Typed(v), Smooth(v) => Current(v)
    PROVE  CardIs(Cards!Fire(v))
<1> DEFINE u == [v EXCEPT !.pending = FALSE]
           y == [v EXCEPT !.dirty = FALSE, !.overlap = @ \/ v.calls # {}]
           x == [stage |-> "token", card |-> v.card, version |-> v.version]
<1>1. CASE ~v.dirty
  <2>1. CardIs(u)
    BY <1>1 DEF CardIs, Typed, Smooth, Current, CardFields
  <2> QED BY <1>1, <2>1 DEF Cards!Fire
<1>2. CASE v.dirty
  <2>1. Typed(y) /\ ~y.dirty /\ y.card = v.card /\ y.version = v.version /\ y.shows = v.shows
        /\ y.calls = v.calls
    BY DEF Typed, CardFields
  <2>2. Smooth(y) => Smooth(v) /\ y.calls = {}
    BY DEF Smooth, Typed, CardFields
  <2>3. x \in Sendings /\ x.stage = "token" /\ x.card = v.card /\ x.version = v.version
    BY DEF Sendings, Typed
  <2>4. Cards!Fire(v) = Cards!Ask(y, x)
    BY <1>2 DEF Cards!Fire
  <2> HIDE DEF x, y
  <2>5. x.card \in 0..Len(y.shows)
    BY <2>1, <2>3 DEF Typed
  <2>6. Smooth(y) => y.calls = {} /\ x.card = y.card /\ x.version = y.version
                          /\ y.card = Len(y.shows) /\ y.card <= 1
    BY <2>1, <2>2, <2>3 DEF Current
  <2> QED BY <2>1, <2>3, <2>4, <2>5, <2>6, AskIs DEF Typed
<1> QED BY <1>1, <1>2

LEMMA FlushIs ==
    ASSUME NEW v, Typed(v), Smooth(v) => Current([v EXCEPT !.dirty = TRUE])
    PROVE  CardIs(Cards!FlushNow(v))
<1> DEFINE u == [v EXCEPT !.dirty = TRUE, !.timers = @ \ {v.timer}]
<1>1. Typed(u) /\ (Smooth(u) => Current(u))
  BY DEF Typed, Smooth, Current, CardFields
<1> HIDE DEF u
<1> QED BY <1>1, FireIs DEF Cards!FlushNow, u

LEMMA ScheduleIs ==
    ASSUME NEW v, Typed(v), Smooth(v) => Current([v EXCEPT !.dirty = TRUE]),
           v.pending => Coming(v)
    PROVE  CardIs(Cards!Schedule(v))
<1> DEFINE u == [v EXCEPT !.dirty = TRUE]
           x == [u EXCEPT !.pending = TRUE]
<1>1. Typed(u) /\ (Smooth(u) => Current(u)) /\ u.pending = v.pending /\ (Coming(v) => Coming(u))
  BY DEF Typed, Smooth, Current, Coming, CardFields
<1>2. Typed(x) /\ (Smooth(x) => Current(x)) /\ DOMAIN x = DOMAIN u
  BY DEF Typed, Smooth, Current, CardFields
<1>3. CASE v.pending
  BY <1>1, <1>3 DEF Cards!Schedule, CardIs
<1>4. CASE ~v.pending
  <2>1. Cards!Schedule(v) = Cards!Armed(x, 1)
    BY <1>1, <1>4 DEF Cards!Schedule
  <2> HIDE DEF u, x
  <2>2. LET y == Cards!Armed(x, 1)
        IN  /\ DOMAIN y = DOMAIN x /\ y.timers # {} /\ y.timer \in Nat
            /\ \A field \in CardFields \ {"timer", "timers"} : y[field] = x[field]
    <3>1. CardFields \subseteq DOMAIN x /\ x.timer \in Nat /\ 1 \in Nat \ {0}
      BY <1>2 DEF Typed
    <3> QED BY ONLY <3>1, ArmedIs
  <2> QED BY <1>2, <2>1, <2>2, TimedIs DEF Typed
<1> QED BY <1>3, <1>4

\* A call has ended: the next one looks whether there is more to say.
LEMMA ShowsAre ==
    ASSUME NEW shows \in Seq(Nat), NEW y \in Nat
    PROVE  /\ Len(shows) = 0 => Append(shows, y) = <<y>>
           /\ \A i \in 1..Len(shows) :
                /\ [shows EXCEPT ![i] = y] \in Seq(Nat) /\ Len([shows EXCEPT ![i] = y]) = Len(shows)
                /\ Len(shows) = 1 => [shows EXCEPT ![i] = y] = <<y>>
<1>1. Len(shows) = 0 => Append(shows, y) = <<y>>
  <2>1. Len(shows) = 0 => shows = <<>>
    BY EmptySeq
  <2> QED BY <2>1
<1>2. ASSUME NEW i \in 1..Len(shows)
      PROVE  /\ [shows EXCEPT ![i] = y] \in Seq(Nat) /\ Len([shows EXCEPT ![i] = y]) = Len(shows)
             /\ Len(shows) = 1 => [shows EXCEPT ![i] = y] = <<y>>
  <2> DEFINE filled == [shows EXCEPT ![i] = y]
  <2>1. filled \in Seq(Nat) /\ Len(filled) = Len(shows) /\ filled[i] = y
    BY ExceptSeq
  <2> HIDE DEF filled
  <2>2. Len(shows) = 1 => filled = <<y>>
    BY <2>1
  <2> QED BY <2>1, <2>2 DEF filled
<1> QED BY <1>1, <1>2

LEMMA EndedIs ==
    ASSUME NEW v, CardIs(v), NEW x \in v.calls, x.stage = "send", NEW arrived \in BOOLEAN,
           NEW ok \in BOOLEAN, ok => arrived
    PROVE  CardIs(Cards!Ended(v, x, arrived, ok))
<1> DEFINE u == [v EXCEPT !.calls = @ \ {x}, !.failures = IF ok THEN @ ELSE @ + 1]
           shows == IF arrived THEN Append(u.shows, x.version) ELSE u.shows
           new == [u EXCEPT !.shows = IF arrived THEN Append(@, x.version) ELSE @,
                            !.card = IF ok THEN Len(u.shows) + 1 ELSE @]
           shown == [u EXCEPT !.shows[x.card] = IF arrived THEN x.version ELSE @]
<1>1. /\ Typed(u) /\ u.shows = v.shows /\ u.card = v.card /\ u.overlap = v.overlap
      /\ u.dirty = v.dirty /\ u.version = v.version /\ u.calls = v.calls \ {x}
      /\ x \in Sendings /\ x.card \in 0..Len(u.shows)
  BY DEF CardIs, Typed, CardFields
<1>2. Smooth(u) => ok /\ u.calls = {} /\ x.card = u.card /\ (~u.dirty => x.version = u.version)
                     /\ u.card = Len(u.shows) /\ u.card <= 1
  <2>1. Smooth(u) => ok /\ Smooth(v)
    BY DEF Smooth, CardIs, Typed, CardFields
  <2> QED BY <1>1, <2>1 DEF CardIs, Current
<1>3. ~ok => u.failures > 0
  BY DEF CardIs, Typed, CardFields
<1>4. CASE x.card = 0
  <2>1. Cards!Ended(v, x, arrived, ok) = Cards!Fired(new, 1)
    BY <1>4 DEF Cards!Ended
  <2> HIDE DEF u
  <2>2. /\ DOMAIN new = DOMAIN u
        /\ \A field \in CardFields \ {"shows", "card"} : new[field] = u[field]
        /\ new.shows = shows /\ new.card = IF ok THEN Len(u.shows) + 1 ELSE u.card
    BY <1>1 DEF Typed, CardFields
  <2>3. shows \in Seq(Nat) /\ Len(shows) = IF arrived THEN Len(u.shows) + 1 ELSE Len(u.shows)
    BY <1>1 DEF Typed, Sendings
  <2>4. Len(u.shows) = 0 /\ arrived => shows = <<x.version>>
    BY <1>1, ShowsAre DEF Typed, Sendings
  <2> HIDE DEF new, shows
  <2>5. Typed(new)
    BY <1>1, <2>2, <2>3 DEF Typed, CardFields
  <2>6. Smooth(new) => Current(new)
    <3>1. Smooth(new) => Smooth(u)
      BY <2>2 DEF Smooth, CardFields
    <3> QED BY <1>1, <1>2, <1>4, <2>2, <2>3, <2>4, <3>1 DEF Current, CardFields, Typed
  <2> QED BY <2>1, <2>5, <2>6, FiredIs
<1>5. CASE x.card # 0
  <2>1. Cards!Ended(v, x, arrived, ok) = IF ok THEN Cards!Fired(shown, 1) ELSE Cards!FellBack(shown)
    BY <1>5 DEF Cards!Ended
  <2> HIDE DEF u
  <2>2. /\ DOMAIN shown = DOMAIN u
        /\ \A field \in CardFields \ {"shows"} : shown[field] = u[field]
        /\ shown.shows = [u.shows EXCEPT ![x.card] = IF arrived THEN x.version ELSE @]
    BY <1>1 DEF Typed, CardFields
  <2>a. u.shows \in Seq(Nat) /\ x.version \in Nat /\ x.card \in 1..Len(u.shows)
        /\ u.shows[x.card] \in Nat
    BY <1>1, <1>5 DEF Typed, Sendings
  <2> HIDE DEF shown
  <2>3. shown.shows \in Seq(Nat) /\ Len(shown.shows) = Len(u.shows)
    BY <2>a, <2>2, ShowsAre
  <2>4. Len(u.shows) = 1 /\ x.card = 1 /\ arrived => shown.shows = <<x.version>>
    BY <2>a, <2>2, ShowsAre
  <2>5. Typed(shown)
    BY <1>1, <2>2, <2>3 DEF Typed, CardFields
  <2>6. Smooth(shown) => Current(shown)
    <3>1. Smooth(shown) => Smooth(u)
      BY <2>2 DEF Smooth, CardFields
    <3> QED BY <1>1, <1>2, <1>5, <2>2, <2>3, <2>4, <3>1 DEF Current, CardFields, Typed
  <2>7. ~ok => shown.failures > 0
    BY <1>3, <2>2 DEF CardFields
  <2> QED BY <2>1, <2>5, <2>6, <2>7, FiredIs, FellBackIs
<1> QED BY <1>4, <1>5

LEMMA TokenComesIs ==
    ASSUME CardIs(card), Cards!TokenComes
    PROVE  CardIs(card')
<1> DEFINE sent == {[x EXCEPT !.stage = "send"] : x \in card.calls}
<1>1. /\ sent \subseteq Sendings
      /\ \A y \in sent : y.stage = "send"
      /\ \A y \in sent : \E x \in card.calls : y.card = x.card /\ y.version = x.version
                                        /\ y = [x EXCEPT !.stage = "send"]
  BY DEF CardIs, Typed, Sendings
<1>2. card.calls # {} => sent # {}
  OBVIOUS
<1>3. card' = [card EXCEPT !.fetches = card.fetches - 1, !.token = "fresh", !.calls = sent]
  BY DEF Cards!TokenComes, CardIs, Typed, CardFields
<1> HIDE DEF sent
<1>4. /\ DOMAIN card' = DOMAIN card /\ card'.fetches = 0 /\ card'.calls = sent
      /\ \A field \in CardFields \ {"fetches", "calls", "token"} : card'[field] = card[field]
  <2>1. CardFields \subseteq DOMAIN card /\ card.fetches = 1
    BY DEF Cards!TokenComes, CardIs, Typed
  <2>2. DOMAIN card' = DOMAIN card /\ card'.calls = sent
    BY ONLY <1>3, <2>1 DEF CardFields
  <2>3. card'.fetches = card.fetches - 1
    BY ONLY <1>3, <2>1 DEF CardFields
  <2>4. card'.fetches = 0
    BY ONLY <2>1, <2>3
  <2>5. \A field \in CardFields \ {"fetches", "calls", "token"} : card'[field] = card[field]
    BY ONLY <1>3, <2>1 DEF CardFields
  <2> QED BY <2>2, <2>4, <2>5
<1>5. Typed(card')
  BY <1>1, <1>4 DEF CardIs, Typed, CardFields
<1>6. Smooth(card') => Current(card')
  BY <1>1, <1>2, <1>4 DEF CardIs, Smooth, Current, CardFields
<1>7. card'.pending \/ (card'.dirty /\ card'.failures = 0) => Coming(card')
  BY <1>2, <1>4 DEF CardIs, Coming, CardFields
<1> QED BY <1>5, <1>6, <1>7 DEF CardIs

LEMMA CardsCount == \A S : Cards!Cardinality(S) = Cardinality(S)
BY Zenon DEF Cards!Cardinality, Cardinality

LEMMA FiredCalls ==
    ASSUME NEW v, "calls" \in DOMAIN v, NEW n
    PROVE  Cards!Fired(v, n).calls = v.calls /\ Cards!FellBack(v).calls = v.calls
BY DEF Cards!Fired, Cards!Armed, Cards!FellBack

LEMMA TokenFailsIs ==
    ASSUME CardIs(card), Cards!TokenFails, IsFiniteSet(card.calls)
    PROVE  CardIs(card') /\ card'.calls \subseteq card.calls
<1> DEFINE waiting == {call \in card.calls : call.stage = "token"}
           creating == {call \in waiting : call.card = 0}
           u == [card EXCEPT !.fetches = @ - 1, !.calls = @ \ waiting,
                          !.failures = @ + Cards!Cardinality(waiting)]
           v == IF creating = {} THEN u ELSE Cards!Fired(u, Cards!Cardinality(creating))
<1>0. card' = IF creating = waiting THEN v ELSE Cards!FellBack(v)
  BY Zenon DEF Cards!TokenFails
<1>1. /\ IsFiniteSet(waiting) /\ IsFiniteSet(creating)
      /\ Cardinality(waiting) \in Nat /\ Cardinality(creating) \in Nat
      /\ (waiting # {} => Cardinality(waiting) # 0)
      /\ (creating # {} => Cardinality(creating) # 0)
  <2>1. waiting \subseteq card.calls /\ creating \subseteq card.calls
    OBVIOUS
  <2> HIDE DEF waiting, creating
  <2> QED BY <2>1, FS_Subset, FS_CardinalityType, FS_EmptySet
<1>c. /\ Cards!Cardinality(waiting) = Cardinality(waiting)
      /\ Cards!Cardinality(creating) = Cardinality(creating)
  BY ONLY CardsCount
<1>2. \A x \in card.calls \ waiting : x.stage # "token"
  OBVIOUS
<1> HIDE DEF waiting
<1>3. /\ DOMAIN u = DOMAIN card /\ u.fetches = 0 /\ u.calls = card.calls \ waiting
      /\ u.failures = card.failures + Cardinality(waiting)
      /\ \A field \in CardFields \ {"fetches", "calls", "failures"} : u[field] = card[field]
  <2>1. CardFields \subseteq DOMAIN card /\ card.fetches = 1
    BY DEF Cards!TokenFails, CardIs, Typed
  <2>2. DOMAIN u = DOMAIN card /\ u.calls = card.calls \ waiting
    BY ONLY <2>1 DEF CardFields
  <2>3. u.fetches = card.fetches - 1 /\ u.failures = card.failures + Cardinality(waiting)
    BY ONLY <2>1, <1>c DEF CardFields
  <2>4. u.fetches = 0
    BY ONLY <2>1, <2>3
  <2>5. \A field \in CardFields \ {"fetches", "calls", "failures"} : u[field] = card[field]
    BY ONLY <2>1 DEF CardFields
  <2> QED BY <2>2, <2>3, <2>4, <2>5
<1> HIDE DEF u
<1>4. Typed(u) /\ (waiting # {} => u.failures > 0)
  BY <1>1, <1>2, <1>3 DEF CardIs, Typed, CardFields
<1>5. ASSUME waiting = {} PROVE CardIs(card')
  <2>1. creating = {}
    BY <1>5
  <2>2. card' = u
    BY <1>0, <1>5, <2>1
  <2>3. u.calls = card.calls /\ u.failures = card.failures
    BY <1>1, <1>3, <1>5, FS_EmptySet DEF CardIs, Typed
  <2> QED BY <1>3, <1>4, <2>2, <2>3 DEF CardIs, Smooth, Current, Coming, CardFields
<1>6. ASSUME waiting # {} PROVE CardIs(card')
  <2>1. ~Smooth(u)
    BY <1>4, <1>6 DEF Smooth
  <2>2. CASE creating = {}
    BY <1>0, <1>4, <1>6, <2>2, FellBackIs
  <2>3. CASE creating # {}
    <3>1. CardIs(v)
      BY <1>1, <1>c, <1>4, <2>1, <2>3, FiredIs
    <3> HIDE DEF v, creating
    <3>2. v.failures > 0
      <4>1. v.failures = u.failures
        <5>1. v = Cards!Fired(u, Cardinality(creating))
          BY <1>c, <2>3 DEF v
        <5>2. CASE u.dirty
          BY <1>1, <1>4, <2>3, <5>1, <5>2, ArmedIs DEF Cards!Fired, Typed, CardFields
        <5>3. CASE ~u.dirty
          BY <5>1, <5>3, <1>4 DEF Cards!Fired, Typed, CardFields
        <5> QED BY <5>2, <5>3
      <4> QED BY <1>4, <1>6, <4>1
    <3> QED BY <1>0, <3>1, <3>2, FellBackIs DEF CardIs
  <2> QED BY <2>2, <2>3
<1>7. card'.calls \subseteq card.calls
  <2>1. "calls" \in DOMAIN u
    BY <1>3 DEF CardIs, Typed, CardFields
  <2>2. v.calls = u.calls /\ "calls" \in DOMAIN v
    BY <2>1, FiredCalls DEF Cards!Fired, Cards!Armed
  <2> HIDE DEF v, creating
  <2> QED BY <1>0, <1>3, <2>2, FiredCalls
<1> QED BY <1>5, <1>6, <1>7

\* Finitely many calls: one joins at a time.
LEMMA AskFinite ==
    ASSUME NEW v, NEW x, "calls" \in DOMAIN v, IsFiniteSet(v.calls)
    PROVE  IsFiniteSet(Cards!Ask(v, x).calls)
<1>1. \E y : Cards!Ask(v, x).calls = v.calls \cup {y}
  BY DEF Cards!Ask
<1> QED BY <1>1, FS_AddElement

LEMMA FireFinite ==
    ASSUME NEW v, CardFields \subseteq DOMAIN v, IsFiniteSet(v.calls)
    PROVE  IsFiniteSet(Cards!Fire(v).calls)
<1> DEFINE y == [v EXCEPT !.dirty = FALSE, !.overlap = @ \/ v.calls # {}]
           x == [stage |-> "token", card |-> v.card, version |-> v.version]
<1>1. CASE ~v.dirty
  BY <1>1 DEF Cards!Fire, CardFields
<1>2. CASE v.dirty
  <2>1. "calls" \in DOMAIN y /\ y.calls = v.calls
    BY DEF CardFields
  <2>2. Cards!Fire(v) = Cards!Ask(y, x)
    BY <1>2 DEF Cards!Fire
  <2> HIDE DEF x, y
  <2> QED BY <2>1, <2>2, AskFinite
<1> QED BY <1>1, <1>2

LEMMA CardStep ==
    ASSUME CardIs(card) /\ IsFiniteSet(card.calls), Cards!Next
    PROVE  CardIs(card') /\ IsFiniteSet(card'.calls)
<1>0. Typed(card) /\ CardFields \subseteq DOMAIN card
  BY DEF CardIs, Typed
<1>1. CASE Cards!Fragment
  <2> DEFINE u == [card EXCEPT !.version = @ + 1]
  <2>1. card' = Cards!Schedule(u)
    BY <1>1 DEF Cards!Fragment
  <2>2. Typed(u) /\ (Smooth(u) => Current([u EXCEPT !.dirty = TRUE])) /\ u.calls = card.calls
        /\ (u.pending => Coming(u))
    BY DEF CardIs, Typed, Smooth, Current, Coming, CardFields
  <2> HIDE DEF u
  <2>3. Cards!Schedule(u).calls = u.calls
    BY <2>2 DEF Cards!Schedule, Cards!Armed, Typed, CardFields
  <2> QED BY <2>1, <2>2, <2>3, ScheduleIs
<1>2. CASE Cards!Finish
  <2> DEFINE u == [card EXCEPT !.version = @ + 1, !.ended = TRUE,
                            !.mark = IF @ = "there" THEN "gone" ELSE @]
             v == Cards!Schedule(u)
  <2>1. card' = Cards!FlushNow(v)
    BY <1>2 DEF Cards!Finish
  <2>2. Typed(u) /\ (Smooth(u) => Current([u EXCEPT !.dirty = TRUE])) /\ u.calls = card.calls
        /\ (u.pending => Coming(u))
    BY DEF CardIs, Typed, Smooth, Current, Coming, CardFields
  <2> HIDE DEF u
  <2>3. v.calls = u.calls /\ CardFields \subseteq DOMAIN v
    BY <2>2 DEF Cards!Schedule, Cards!Armed, Typed, CardFields
  <2>4. CardIs(v)
    BY <2>2, ScheduleIs
  <2> HIDE DEF v
  <2>5. CardIs(Cards!FlushNow(v))
    <3>1. Typed(v) /\ (Smooth(v) => Current([v EXCEPT !.dirty = TRUE]))
      BY <2>4 DEF CardIs, Typed, Smooth, Current, CardFields
    <3> QED BY <3>1, FlushIs
  <2>6. IsFiniteSet(Cards!FlushNow(v).calls)
    <3> DEFINE y == [v EXCEPT !.dirty = TRUE, !.timers = @ \ {v.timer}]
    <3>1. CardFields \subseteq DOMAIN y /\ y.calls = v.calls
      BY <2>3 DEF CardFields
    <3>2. Cards!FlushNow(v) = Cards!Fire(y)
      BY DEF Cards!FlushNow
    <3> HIDE DEF y
    <3> QED BY <2>2, <2>3, <3>1, <3>2, FireFinite
  <2> QED BY <2>1, <2>5, <2>6
<1>3. CASE Cards!TimerFires
  <2>1. PICK x \in card.timers : card' = Cards!Fire([card EXCEPT !.timers = @ \ {x}])
    BY <1>3 DEF Cards!TimerFires
  <2> DEFINE y == [card EXCEPT !.timers = @ \ {x}]
  <2>2. Typed(y) /\ (Smooth(y) => Current(y)) /\ y.calls = card.calls
    BY DEF CardIs, Typed, Smooth, Current, CardFields
  <2>3. card' = Cards!Fire(y)
    BY <2>1
  <2> HIDE DEF y
  <2> QED BY <2>2, <2>3, FireIs, FireFinite DEF Typed
<1>4. CASE Cards!Expires \/ Cards!Marked
  BY <1>0, <1>4 DEF Cards!Expires, Cards!Marked, CardIs, Typed, Smooth, Current, Coming, CardFields
<1>5. CASE Cards!TokenComes
  <2>1. card'.calls = {[x EXCEPT !.stage = "send"] : x \in card.calls}
    BY <1>0, <1>5 DEF Cards!TokenComes, CardFields
  <2>2. IsFiniteSet({[x EXCEPT !.stage = "send"] : x \in card.calls})
    <3> DEFINE T == {[x EXCEPT !.stage = "send"] : x \in card.calls}
               sending == [x \in card.calls |-> [x EXCEPT !.stage = "send"]]
    <3>1. sending \in [card.calls -> T] /\ \A y \in T : \E x \in card.calls : sending[x] = y
      OBVIOUS
    <3> HIDE DEF T, sending
    <3>2. sending \in Surjection(card.calls, T)
      BY <3>1 DEF Surjection
    <3> QED BY <3>2, FS_Surjection DEF T
  <2> QED BY <1>5, <2>1, <2>2, TokenComesIs
<1>6. CASE Cards!TokenFails
  <2> QED BY <1>6, TokenFailsIs, FS_Subset
<1>7. CASE Cards!CallEnds
  <2>1. PICK x \in card.calls : x.stage = "send" /\
            \E arrived \in BOOLEAN, ok \in BOOLEAN :
                (ok => arrived) /\ card' = Cards!Ended(card, x, arrived, ok)
    BY <1>7 DEF Cards!CallEnds
  <2>2. PICK arrived \in BOOLEAN, ok \in BOOLEAN :
            (ok => arrived) /\ card' = Cards!Ended(card, x, arrived, ok)
    BY <2>1
  <2>3. Cards!Ended(card, x, arrived, ok).calls = card.calls \ {x}
    BY <1>0 DEF Cards!Ended, Cards!Fired, Cards!Armed, Cards!FellBack, CardFields
  <2>4. IsFiniteSet(card.calls \ {x})
    BY FS_RemoveElement
  <2> QED BY <2>1, <2>2, <2>3, <2>4, EndedIs
<1> QED BY <1>1, <1>2, <1>3, <1>4, <1>5, <1>6, <1>7 DEF Cards!Next

LEMMA CardHolds ==
    ASSUME CardIs(card)
    PROVE  Cards!CardsAreKept
BY DEF CardIs, Typed, Smooth, Current, Coming, Cards!CardsAreKept, Cards!ChangeHasTaker,
       Cards!CardIsCurrent, Cards!FetchIsShared, Cards!Quiet

-----------------------------------------------------------------------------
(* The connection to Feishu *)

SocketFields ==
    {"phase", "tries", "seen", "events", "recent", "since", "fails", "failed", "sent", "lives",
     "early"}
LinkFields == {"phase", "tries", "fails", "failed"}

\* The failures that are counted against the client.
LinkIs(v) ==
    /\ SocketFields \subseteq DOMAIN v /\ v.tries \in Nat /\ v.fails \in Nat
    /\ v.tries <= Reconnects
    /\ v.phase \in {"fetching", "connecting", "open", "waiting"} => v.fails = v.tries
    /\ v.phase = "gaveup" => v.fails = Reconnects + 1

\* The text of a message has been handed on.
Handed(since, text) == \E x \in Mail : since[x] # None /\ Content[x] = text

\* Who was handed on is in the filter, behind as many as were claimed since.
Remembered(seen, since, m) ==
    since[m] # None /\ since[m] < Window =>
        since[m] < Len(seen) /\ seen[Len(seen) - since[m]] = m

\* The inductive invariant of the filters: what they know was handed on, and what was handed
\* on they know as long as the window allows.
FilterIs(v) ==
    /\ SocketFields \subseteq DOMAIN v
    /\ v.seen \in Seq(Mail) /\ Len(v.seen) <= Window
    /\ v.events \in Seq(Socket!Events) /\ Len(v.events) <= EventWindow
    /\ v.since \in [Mail -> {None} \cup Nat] /\ v.early = {}
    /\ \A m \in Mail : Remembered(v.seen, v.since, m)
    /\ \A i \in 1..Len(v.seen) : Handed(v.since, Content[v.seen[i]])
    /\ \A i \in 1..Len(v.events) : Handed(v.since, Content[v.events[i][1]])
    /\ v.recent # None => Handed(v.since, v.recent)

\* A filter has claimed x: the others have moved on by one, the oldest may be gone.
Slid(ids, x, n, new) ==
    /\ Len(new) = (IF Len(ids) < n THEN Len(ids) + 1 ELSE n)
    /\ new[Len(new)] = x
    /\ \A d \in 0..(Len(new) - 2) : new[Len(new) - (d + 1)] = ids[Len(ids) - d]
    /\ \A i \in 1..Len(new) : new[i] = x \/ \E o \in 1..Len(ids) : new[i] = ids[o]

LEMMA YoungestIs ==
    ASSUME NEW S, NEW ids \in Seq(S), NEW x \in S, NEW n \in Nat \ {0}, Len(ids) <= n,
           NEW new, new = Socket!Youngest(Append(ids, x), n)
    PROVE  new \in Seq(S) /\ Slid(ids, x, n, new)
<1> DEFINE all == Append(ids, x)
<1>0. new = Socket!Youngest(all, n)
  OBVIOUS
<1>1. /\ all \in Seq(S) /\ Len(all) = Len(ids) + 1 /\ all[Len(all)] = x /\ Len(ids) \in Nat
      /\ \A i \in 1..Len(ids) : all[i] = ids[i]
  OBVIOUS
<1> HIDE DEF all
<1>2. n \in Nat /\ n >= 1
  OBVIOUS
<1>3. CASE Len(ids) < n
  <2>1. ~(Len(all) > n) /\ 1 + 0 = 1
    BY <1>1, <1>2, <1>3
  <2>2. new = SubSeq(all, 1, Len(all))
    BY <1>0, <2>1 DEF Socket!Youngest
  <2>3. new = all
    BY <1>1, <2>2, SubSeqFull
  <2>4. \A d \in 0..(Len(all) - 2) :
            Len(all) - (d + 1) = Len(ids) - d /\ Len(ids) - d \in 1..Len(ids)
    BY <1>1
  <2>5. \A i \in 1..Len(all) : i = Len(all) \/ i \in 1..Len(ids)
    BY <1>1
  <2>6. \A d \in 0..(Len(new) - 2) : new[Len(new) - (d + 1)] = ids[Len(ids) - d]
    <3> SUFFICES ASSUME NEW d \in 0..(Len(all) - 2)
                 PROVE  all[Len(all) - (d + 1)] = ids[Len(ids) - d]
      BY <2>3
    <3> QED BY <1>1, <2>4
  <2>7. \A i \in 1..Len(new) : new[i] = x \/ \E o \in 1..Len(ids) : new[i] = ids[o]
    BY <1>1, <2>3, <2>5
  <2> QED BY <1>1, <1>3, <2>3, <2>6, <2>7 DEF Slid
<1>4. CASE Len(ids) = n
  <2>1. Len(all) > n /\ 1 + (Len(all) - n) = 2 /\ all # <<>>
    BY <1>1, <1>2, <1>4
  <2>2. new = SubSeq(all, 2, Len(all))
    BY <1>0, <2>1 DEF Socket!Youngest
  <2>3. new = Tail(all)
    BY <1>1, <2>1, <2>2, TailIsSubSeq
  <2>4. /\ new \in Seq(S) /\ Len(new) = Len(ids)
        /\ \A i \in 1..Len(new) : new[i] = all[i + 1]
    BY <1>1, <2>1, <2>3, HeadTailProperties
  <2>5. \A d \in 0..(Len(ids) - 2) :
            Len(ids) - (d + 1) \in 1..Len(ids) /\ Len(ids) - (d + 1) + 1 = Len(ids) - d
            /\ Len(ids) - d \in 1..Len(ids)
    BY <1>1
  <2>6. \A i \in 1..Len(ids) : i + 1 = Len(all) \/ i + 1 \in 1..Len(ids)
    BY <1>1
  <2>7. Len(ids) \in 1..Len(ids)
    BY <1>1, <1>2, <1>4
  <2>8. \A d \in 0..(Len(new) - 2) : new[Len(new) - (d + 1)] = ids[Len(ids) - d]
    <3> SUFFICES ASSUME NEW d \in 0..(Len(ids) - 2)
                 PROVE  new[Len(ids) - (d + 1)] = ids[Len(ids) - d]
      BY <2>4
    <3> QED BY <1>1, <2>4, <2>5
  <2>9. \A i \in 1..Len(new) : new[i] = x \/ \E o \in 1..Len(ids) : new[i] = ids[o]
    BY <1>1, <2>4, <2>6
  <2>10. new[Len(new)] = x
    BY <1>1, <2>4, <2>7
  <2> QED BY <1>2, <1>4, <2>4, <2>8, <2>9, <2>10 DEF Slid
<1>5. Len(ids) < n \/ Len(ids) = n
  BY <1>1, <1>2
<1> QED BY <1>3, <1>4, <1>5

\* Others that are claimed move a message towards the old end of the filter.
Older(since) == [x \in Mail |-> IF since[x] = None THEN None ELSE since[x] + 1]

LEMMA LaterIs ==
    ASSUME NEW since \in [Mail -> {None} \cup Nat], None \notin Nat
    PROVE  /\ Older(since) \in [Mail -> {None} \cup Nat]
           /\ \A x \in Mail : Older(since)[x] = None <=> since[x] = None
           /\ \A x \in Mail : since[x] # None =>
                since[x] \in Nat /\ Older(since)[x] = since[x] + 1
           /\ \A text : Handed(since, text) => Handed(Older(since), text)
<1>1. ASSUME NEW x \in Mail
      PROVE  /\ Older(since)[x] \in {None} \cup Nat /\ (Older(since)[x] = None <=> since[x] = None)
             /\ since[x] # None => since[x] \in Nat /\ Older(since)[x] = since[x] + 1
  <2>1. since[x] \in {None} \cup Nat /\ Older(since)[x] = IF since[x] = None THEN None
          ELSE since[x] + 1
    BY DEF Older
  <2> QED BY <2>1
<1>2. Older(since) \in [Mail -> {None} \cup Nat]
  BY <1>1 DEF Older
<1>3. ASSUME NEW text, Handed(since, text) PROVE Handed(Older(since), text)
  BY <1>1, <1>3 DEF Handed
<1> QED BY <1>1, <1>2, <1>3

\* An id is claimed that the filter does not have; its text has been handed on or is about
\* to be.
LEMMA AddIs ==
    ASSUME NEW v, FilterIs(v), NEW m \in Mail, \A i \in 1..Len(v.seen) : v.seen[i] # m,
           Window \in Nat \ {0}, None \notin Nat
    PROVE  LET u == Socket!add(v, m)
           IN  /\ DOMAIN u = DOMAIN v
               /\ \A field \in SocketFields \ {"seen", "since"} : u[field] = v[field]
               /\ u.since = Older(v.since)
               /\ u.seen \in Seq(Mail) /\ Len(u.seen) <= Window
               /\ u.since[m] # None => ~(u.since[m] <= Window)
               /\ \A x \in Mail : Remembered(u.seen, u.since, x)
               /\ 1 <= Len(u.seen) /\ u.seen[Len(u.seen)] = m
               /\ \A i \in 1..Len(u.seen) : u.seen[i] = m \/ Handed(u.since, Content[u.seen[i]])
<1> DEFINE u == Socket!add(v, m)
           new == Socket!Youngest(Append(v.seen, m), Window)
<1>0. /\ SocketFields \subseteq DOMAIN v /\ v.seen \in Seq(Mail) /\ Len(v.seen) <= Window
      /\ v.since \in [Mail -> {None} \cup Nat] /\ Len(v.seen) \in Nat
  BY DEF FilterIs
<1>1. /\ DOMAIN u = DOMAIN v /\ u.since = Older(v.since) /\ u.seen = new
      /\ \A field \in SocketFields \ {"seen", "since"} : u[field] = v[field]
  BY <1>0 DEF Socket!add, SocketFields, Older
<1>2. /\ new \in Seq(Mail) /\ Len(new) = (IF Len(v.seen) < Window THEN Len(v.seen) + 1 ELSE Window)
      /\ new[Len(new)] = m
      /\ \A d \in 0..(Len(new) - 2) : new[Len(new) - (d + 1)] = v.seen[Len(v.seen) - d]
      /\ \A i \in 1..Len(new) : new[i] = m \/ \E o \in 1..Len(v.seen) : new[i] = v.seen[o]
  <2>1. v.seen \in Seq(Mail) /\ m \in Mail /\ Window \in Nat \ {0} /\ Len(v.seen) <= Window
        /\ new = Socket!Youngest(Append(v.seen, m), Window)
    BY <1>0
  <2> HIDE DEF new
  <2>2. new \in Seq(Mail) /\ Slid(v.seen, m, Window, new)
    BY ONLY <2>1, YoungestIs
  <2> QED BY ONLY <2>2 DEF Slid
<1> HIDE DEF u, new
<1>3. /\ u.since \in [Mail -> {None} \cup Nat]
      /\ \A x \in Mail : u.since[x] = None <=> v.since[x] = None
      /\ \A x \in Mail : v.since[x] # None => v.since[x] \in Nat /\ u.since[x] = v.since[x] + 1
      /\ \A text : Handed(v.since, text) => Handed(u.since, text)
  BY <1>0, <1>1, LaterIs
<1>4. ASSUME u.since[m] # None PROVE ~(u.since[m] <= Window)
  <2>1. v.since[m] \in Nat /\ v.since[m] # None /\ u.since[m] = v.since[m] + 1
    BY <1>3, <1>4
  <2>2. ~(v.since[m] < Window)
    <3> SUFFICES ASSUME v.since[m] < Window PROVE FALSE
      OBVIOUS
    <3>1. v.since[m] < Len(v.seen) /\ v.seen[Len(v.seen) - v.since[m]] = m
      BY <2>1 DEF FilterIs, Remembered
    <3>2. Len(v.seen) - v.since[m] \in 1..Len(v.seen)
      BY <1>0, <2>1, <3>1
    <3> QED BY <3>1, <3>2
  <2> QED BY <2>1, <2>2
<1>5. ASSUME NEW x \in Mail, u.since[x] # None, u.since[x] < Window
      PROVE  u.since[x] < Len(new) /\ new[Len(new) - u.since[x]] = x
  <2>1. v.since[x] # None /\ v.since[x] \in Nat /\ u.since[x] = v.since[x] + 1
    BY <1>3, <1>5
  <2>2. v.since[x] < Window
    BY <2>1, <1>5
  <2>3. v.since[x] < Len(v.seen) /\ v.seen[Len(v.seen) - v.since[x]] = x
    BY <2>1, <2>2 DEF FilterIs, Remembered
  <2>4. u.since[x] < Len(new) /\ v.since[x] \in 0..(Len(new) - 2)
    BY <1>0, <1>2, <1>5, <2>1, <2>3
  <2> QED BY <1>2, <2>1, <2>3, <2>4
<1>6. ASSUME NEW i \in 1..Len(new) PROVE new[i] = m \/ Handed(u.since, Content[new[i]])
  BY <1>2, <1>3 DEF FilterIs
<1>7. Len(new) <= Window /\ 1 <= Len(new)
  BY <1>0, <1>2
<1>8. \A x \in Mail : Remembered(u.seen, u.since, x)
  BY <1>1, <1>5 DEF Remembered
<1> QED BY <1>1, <1>2, <1>4, <1>6, <1>7, <1>8 DEF u

LEMMA FilterSame ==
    ASSUME NEW v, FilterIs(v), NEW u, SocketFields \subseteq DOMAIN u,
           u.seen = v.seen, u.events = v.events, u.since = v.since, u.early = v.early,
           u.recent = v.recent \/ u.recent = None
    PROVE  FilterIs(u)
BY DEF FilterIs

LEMMA LinkSame ==
    ASSUME NEW v, LinkIs(v), NEW u, SocketFields \subseteq DOMAIN u,
           u.tries = v.tries, u.fails = v.fails, u.phase = v.phase
    PROVE  LinkIs(u)
BY DEF LinkIs

LEMMA LinkSteps ==
    ASSUME LinkIs(link), FilterIs(link), Reconnects \in Nat,
           Socket!Fetched \/ Socket!Opened \/ Socket!Fails \/ Socket!Retry \/ Socket!Later
    PROVE  LinkIs(link') /\ FilterIs(link')
<1>0. SocketFields \subseteq DOMAIN link
  BY DEF LinkIs
<1>1. LinkIs(link')
  <2>1. CASE Socket!Fetched
    BY <2>1 DEF LinkIs, Socket!Fetched, SocketFields
  <2>2. CASE Socket!Opened
    BY <2>2 DEF LinkIs, Socket!Opened, Socket!Reopened, SocketFields
  <2>3. CASE Socket!Fails
    <3> DEFINE v == [link EXCEPT !.fails = @ + 1, !.failed = @ + 1]
    <3>1. link' = Socket!scheduleReconnect(v)
      BY <2>3 DEF Socket!Fails
    <3>2. /\ SocketFields \subseteq DOMAIN v /\ v.tries = link.tries /\ v.fails = link.fails + 1
          /\ link.fails = link.tries
      BY <2>3 DEF Socket!Fails, LinkIs, SocketFields
    <3> HIDE DEF v
    <3>3. CASE v.tries >= Reconnects
      BY <3>1, <3>2, <3>3 DEF Socket!scheduleReconnect, LinkIs, SocketFields
    <3>4. CASE ~(v.tries >= Reconnects)
      BY <3>1, <3>2, <3>4 DEF Socket!scheduleReconnect, LinkIs, SocketFields
    <3> QED BY <3>3, <3>4
  <2>4. CASE Socket!Retry
    BY <2>4 DEF LinkIs, Socket!Retry, SocketFields
  <2>5. CASE Socket!Later
    BY <2>5 DEF LinkIs, Socket!Later, SocketFields
  <2> QED BY <2>1, <2>2, <2>3, <2>4, <2>5
<1>2. /\ SocketFields \subseteq DOMAIN link' /\ link'.seen = link.seen /\ link'.events = link.events
      /\ link'.since = link.since /\ link'.early = link.early
           /\ (link'.recent = link.recent \/ link'.recent = None)
  BY <1>0 DEF Socket!Fetched, Socket!Opened, Socket!Fails, Socket!Retry, Socket!Later,
         Socket!Reopened, Socket!scheduleReconnect, SocketFields
<1>3. FilterIs(link')
  BY <1>2, FilterSame
<1> QED BY <1>1, <1>3

\* A new life knows nothing.
LEMMA FreshIs ==
    ASSUME NEW v, SocketFields \subseteq DOMAIN v, v.phase = "fetching", v.tries = 0,
           v.fails = 0, v.seen = <<>>, v.events = <<>>, v.recent = None, v.early = {},
           v.since = [m \in Mail |-> None], Socket!SocketAssumption
    PROVE  LinkIs(v) /\ FilterIs(v)
<1>1. Len(v.seen) = 0 /\ Len(v.events) = 0 /\ v.seen \in Seq(Mail)
      /\ v.events \in Seq(Socket!Events) /\ 0 <= Window /\ 0 <= EventWindow
  BY DEF Socket!SocketAssumption
<1>2. LinkIs(v)
  BY <1>1 DEF LinkIs, Socket!SocketAssumption
<1>3. \A m \in Mail : v.since[m] = None
  BY <1>1
<1>4. v.since \in [Mail -> {None} \cup Nat]
  BY <1>1
<1>5. FilterIs(v)
  BY <1>1, <1>3, <1>4 DEF FilterIs, Remembered, Socket!SocketAssumption
<1> QED BY <1>2, <1>5

LEMMA DeliverIs ==
    ASSUME LinkIs(link), FilterIs(link), Socket!SocketAssumption, Socket!Deliver
    PROVE  LinkIs(link') /\ FilterIs(link')
<1>0. /\ Window \in Nat \ {0} /\ EventWindow \in Nat \ {0} /\ None \notin Nat
      /\ \A x \in Mail : Content[x] # None
  BY DEF Socket!SocketAssumption
<1> DEFINE v == [link EXCEPT !.sent = @ + 1]
<1>1. PICK e \in Socket!Events :
          link' = IF Socket!normalizeFeishuMessage(e[1]) = Blank
            \/ e[1] \in Socket!Range(link.seen) THEN v
               ELSE IF e \in Socket!Range(link.events) THEN Socket!add(v, e[1])
               ELSE Socket!onMessage(
                      [Socket!add(v, e[1]) EXCEPT
                          !.events = Socket!Youngest(Append(@, e), EventWindow)], e[1])
  BY Zenon DEF Socket!Deliver
<1> DEFINE m == e[1]
           u == Socket!add(v, m)
           x == [u EXCEPT !.events = Socket!Youngest(Append(u.events, e), EventWindow)]
<1>2. m \in Mail
  BY DEF Socket!Events
<1>3. /\ SocketFields \subseteq DOMAIN v
      /\ \A field \in SocketFields \ {"sent"} : v[field] = link[field]
  BY DEF LinkIs, SocketFields
<1> HIDE DEF v
<1>4. LinkIs(v) /\ FilterIs(v)
  BY <1>3, LinkSame, FilterSame DEF SocketFields
<1>5. CASE link' = v
  BY <1>4, <1>5
<1>6. CASE ~(m \in Socket!Range(link.seen))
  <2>1. \A i \in 1..Len(v.seen) : v.seen[i] # m
    <3>1. link.seen \in Seq(Mail) /\ v.seen = link.seen
      BY <1>3 DEF FilterIs, SocketFields
    <3> QED BY <1>6, <3>1 DEF Socket!Range
  <2>2. /\ DOMAIN u = DOMAIN v
        /\ \A field \in SocketFields \ {"seen", "since"} : u[field] = v[field]
        /\ u.since = Older(v.since)
        /\ u.seen \in Seq(Mail) /\ Len(u.seen) <= Window
        /\ u.since[m] # None => ~(u.since[m] <= Window)
        /\ \A y \in Mail : Remembered(u.seen, u.since, y)
        /\ 1 <= Len(u.seen) /\ u.seen[Len(u.seen)] = m
        /\ \A i \in 1..Len(u.seen) : u.seen[i] = m \/ Handed(u.since, Content[u.seen[i]])
    BY <1>0, <1>2, <1>4, <2>1, AddIs
  <2> HIDE DEF u
  <2>3. /\ u.since \in [Mail -> {None} \cup Nat]
        /\ \A text : Handed(v.since, text) => Handed(u.since, text)
    BY <1>0, <1>4, <2>2, LaterIs DEF FilterIs
  <2>4. /\ u.events = v.events /\ u.recent = v.recent /\ u.early = v.early /\ u.tries = v.tries
        /\ u.fails = v.fails /\ u.phase = v.phase /\ SocketFields \subseteq DOMAIN u
    BY <1>3, <2>2 DEF SocketFields
  <2>5. CASE e \in Socket!Range(link.events) /\ link' = u
    <3>1. Handed(u.since, Content[m])
      <4>1. link.events \in Seq(Socket!Events)
        BY DEF FilterIs
      <4>2. PICK i \in 1..Len(link.events) : link.events[i] = e
        BY <2>5, <4>1 DEF Socket!Range
      <4>3. Handed(link.since, Content[m])
        BY <4>2 DEF FilterIs
      <4> QED BY <1>3, <2>3, <4>3 DEF SocketFields
    <3>2. FilterIs(u)
      <4>1. \A i \in 1..Len(u.seen) : Handed(u.since, Content[u.seen[i]])
        BY <2>2, <3>1
      <4>2. /\ v.events \in Seq(Socket!Events) /\ Len(v.events) <= EventWindow /\ v.early = {}
            /\ \A i \in 1..Len(v.events) : Handed(v.since, Content[v.events[i][1]])
            /\ v.recent # None => Handed(v.since, v.recent)
        BY <1>4 DEF FilterIs
      <4> QED BY <2>2, <2>3, <2>4, <4>1, <4>2 DEF FilterIs
    <3> QED BY <1>4, <2>4, <2>5, <3>2, LinkSame
  <2>6. CASE link' = Socket!onMessage(x, m)
    <3>1. /\ SocketFields \subseteq DOMAIN x
          /\ \A field \in SocketFields \ {"events"} : x[field] = u[field]
          /\ x.events = Socket!Youngest(Append(u.events, e), EventWindow)
      BY <2>4 DEF SocketFields
    <3>2. /\ v.events \in Seq(Socket!Events) /\ Len(v.events) <= EventWindow /\ v.early = {}
          /\ \A i \in 1..Len(v.events) : Handed(v.since, Content[v.events[i][1]])
          /\ v.recent # None => Handed(v.since, v.recent)
      BY <1>4 DEF FilterIs
    <3>3. /\ x.events \in Seq(Socket!Events) /\ Len(x.events) <= EventWindow
          /\ \A i \in 1..Len(x.events) :
                x.events[i] = e \/ \E o \in 1..Len(v.events) : x.events[i] = v.events[o]
      <4> DEFINE new == Socket!Youngest(Append(v.events, e), EventWindow)
    <4>1. /\ v.events \in Seq(Socket!Events) /\ e \in Socket!Events
          /\ EventWindow \in Nat \ {0} /\ Len(v.events) <= EventWindow
          /\ new = Socket!Youngest(Append(v.events, e), EventWindow)
      BY <1>0, <3>2
    <4>3. x.events = new
      BY <2>4, <3>1
    <4> HIDE DEF new, x
    <4>2. /\ new \in Seq(Socket!Events)
          /\ Len(new) = (IF Len(v.events) < EventWindow THEN Len(v.events) + 1 ELSE EventWindow)
          /\ \A i \in 1..Len(new) : new[i] = e \/ \E o \in 1..Len(v.events) : new[i] = v.events[o]
      <5>1. new \in Seq(Socket!Events) /\ Slid(v.events, e, EventWindow, new)
        BY ONLY <4>1, YoungestIs
      <5> QED BY ONLY <5>1 DEF Slid
    <4>4. Len(new) <= EventWindow
      BY <4>1, <4>2
    <4> QED BY <4>2, <4>3, <4>4
    <3> HIDE DEF x
    <3>4. /\ x.seen = u.seen /\ x.since = u.since /\ x.recent = v.recent /\ x.early = {}
          /\ x.tries = v.tries /\ x.fails = v.fails /\ x.phase = v.phase
      BY <2>4, <3>1, <3>2 DEF SocketFields
    <3> DEFINE y == [x EXCEPT !.recent = Content[m], !.since[m] = 0,
                       !.early = IF x.since[m] # None /\ x.since[m] <= Window
                                 THEN @ \cup {m} ELSE @]
    <3>5. CASE x.recent = Content[m]
      <4>1. link' = x
        BY <2>6, <3>5 DEF Socket!onMessage
      <4>2. Handed(u.since, Content[m])
        BY <1>0, <1>2, <2>3, <3>2, <3>4, <3>5
      <4>3. /\ \A i \in 1..Len(x.seen) : Handed(x.since, Content[x.seen[i]])
            /\ \A i \in 1..Len(x.events) : Handed(x.since, Content[x.events[i][1]])
            /\ x.recent # None => Handed(x.since, x.recent)
        BY <2>2, <2>3, <3>2, <3>3, <3>4, <4>2
      <4>4. FilterIs(x)
        BY <2>2, <2>3, <3>1, <3>3, <3>4, <4>3 DEF FilterIs
      <4> QED BY <1>4, <3>1, <3>4, <4>1, <4>4, LinkSame
    <3>6. CASE x.recent # Content[m]
      <4>1. link' = y
        BY <2>6, <3>6 DEF Socket!onMessage
      <4>2. /\ SocketFields \subseteq DOMAIN y /\ y.recent = Content[m] /\ y.early = {}
            /\ y.since = [x.since EXCEPT ![m] = 0] /\ y.seen = x.seen /\ y.events = x.events
            /\ y.tries = x.tries /\ y.fails = x.fails /\ y.phase = x.phase
        BY <2>2, <3>1, <3>4 DEF SocketFields
      <4> HIDE DEF y
      <4>3. /\ y.since \in [Mail -> {None} \cup Nat] /\ y.since[m] = 0
            /\ \A z \in Mail : z # m => y.since[z] = x.since[z]
        BY <1>2, <2>3, <3>4, <4>2
      <4>4. \A text : Handed(u.since, text) \/ text = Content[m] => Handed(y.since, text)
        BY <1>0, <1>2, <3>4, <4>3 DEF Handed
      <4>5. \A z \in Mail : Remembered(y.seen, y.since, z)
        BY <1>0, <2>2, <3>4, <4>2, <4>3 DEF Remembered
      <4>6. /\ \A i \in 1..Len(y.seen) : Handed(y.since, Content[y.seen[i]])
            /\ \A i \in 1..Len(y.events) : Handed(y.since, Content[y.events[i][1]])
            /\ Handed(y.since, y.recent)
        <5>1. \A i \in 1..Len(u.seen) : Handed(y.since, Content[u.seen[i]])
          BY <2>2, <4>4
        <5>2. \A i \in 1..Len(x.events) : Handed(y.since, Content[x.events[i][1]])
          BY <2>3, <3>2, <3>3, <4>4
        <5> QED BY <3>4, <4>2, <4>4, <5>1, <5>2
      <4>7. FilterIs(y)
        BY <2>2, <3>3, <3>4, <4>2, <4>3, <4>5, <4>6 DEF FilterIs
      <4> QED BY <1>4, <3>4, <4>1, <4>2, <4>7, LinkSame
    <3> QED BY <3>5, <3>6
  <2>7. \/ link' = v \/ (e \in Socket!Range(link.events) /\ link' = u)
        \/ link' = Socket!onMessage(x, m)
    BY <1>1, <1>6 DEF u
  <2> QED BY <1>5, <2>5, <2>6, <2>7
<1> QED BY <1>1, <1>5, <1>6

LEMMA SocketStep ==
    ASSUME LinkIs(link), FilterIs(link), Socket!SocketAssumption, Socket!Next
    PROVE  LinkIs(link') /\ FilterIs(link')
<1>1. CASE Socket!Restart
  <2>1. /\ SocketFields \subseteq DOMAIN link' /\ link'.phase = "fetching" /\ link'.tries = 0
             /\ link'.fails = 0
        /\ link'.seen = <<>> /\ link'.events = <<>> /\ link'.recent = None /\ link'.early = {}
        /\ link'.since = [m \in Mail |-> None]
    BY <1>1 DEF Socket!Restart, Socket!Fresh, SocketFields
  <2> QED BY <2>1, FreshIs
<1>2. Reconnects \in Nat
  BY DEF Socket!SocketAssumption
<1> QED BY <1>1, <1>2, LinkSteps, DeliverIs DEF Socket!Next

LEMMA SocketStart ==
    ASSUME Socket!Init, Socket!SocketAssumption
    PROVE  LinkIs(link) /\ FilterIs(link)
<1> QED BY FreshIs DEF Socket!Init, Socket!Fresh, SocketFields

LEMMA SocketHolds ==
    ASSUME LinkIs(link), FilterIs(link)
    PROVE  Socket!SocketIsKept
<1>1. Socket!HandedOnce /\ Socket!Persists
  BY DEF FilterIs, LinkIs, Socket!HandedOnce, Socket!Persists
<1>2. ASSUME NEW m \in Socket!Range(link.seen) PROVE Handed(link.since, Content[m])
  <2>1. PICK i \in 1..Len(link.seen) : link.seen[i] = m
    BY DEF FilterIs, Socket!Range
  <2> QED BY <2>1 DEF FilterIs
<1>3. Socket!ClaimedAreHanded
  BY <1>2 DEF Socket!ClaimedAreHanded, Handed
<1> QED BY <1>1, <1>3 DEF Socket!SocketIsKept

-----------------------------------------------------------------------------
(* The messages of a conversation *)

LEMMA ForksCount == \A S : Forks!Cardinality(S) = Cardinality(S)
BY Zenon DEF Forks!Cardinality, Cardinality

ForkPairs == Nat \X Nat
NumbersDiffer(buffer) ==
    \A i1, i2 \in DOMAIN buffer : buffer[i1][1] = buffer[i2][1] => i1 = i2
MessagesDiffer(buffer) ==
    \A i1, i2 \in DOMAIN buffer : buffer[i1][2] = buffer[i2][2] => i1 = i2

\* The place of an entry in the order of its fork's start is another for each.
LEMMA RanksAre ==
    ASSUME NEW R, IsFiniteSet(R), R \subseteq ForkPairs,
           \A x, y \in R : x[1] = y[1] => x = y,
           NEW rank, rank = [x \in R |-> Cardinality({y \in R : y[1] < x[1]})]
    PROVE  /\ \A x \in R : rank[x] \in 0..Cardinality(R) - 1
           /\ \A x, y \in R : rank[x] = rank[y] => x = y
           /\ \A i \in 1..Cardinality(R) : \E x \in R : rank[x] = i - 1
<1> DEFINE Below(x) == {y \in R : y[1] < x[1]}
           n == Cardinality(R)
<1>1. n \in Nat
  BY FS_CardinalityType
<1>n. n = Cardinality(R)
  OBVIOUS
<1> HIDE DEF n
<1>2. \A x \in R : x[1] \in Nat
  BY DEF ForkPairs
<1>3. ASSUME NEW x \in R PROVE IsFiniteSet(Below(x)) /\ rank[x] \in Nat /\ rank[x] \in 0..n - 1
  <2>1. Below(x) \in SUBSET (R \ {x})
    BY <1>2
  <2>2. IsFiniteSet(R \ {x}) /\ Cardinality(R \ {x}) = n - 1
    BY <1>n, FS_RemoveElement
  <2>3. IsFiniteSet(Below(x)) /\ Cardinality(Below(x)) <= n - 1
    BY <2>1, <2>2, FS_Subset
  <2>4. Cardinality(Below(x)) \in Nat /\ rank[x] = Cardinality(Below(x))
    BY <2>3, FS_CardinalityType
  <2> HIDE DEF Below
  <2> QED BY <1>1, <2>3, <2>4
<1>4. ASSUME NEW x \in R, NEW y \in R, x[1] < y[1] PROVE rank[x] < rank[y]
  <2>1. Below(x) \in SUBSET Below(y)
    BY <1>2, <1>4
  <2>2. x \in Below(y) /\ x \notin Below(x)
    BY <1>2, <1>4
  <2>3. rank[x] = Cardinality(Below(x)) /\ rank[y] = Cardinality(Below(y))
    OBVIOUS
  <2>4. IsFiniteSet(Below(y)) /\ rank[x] \in Nat /\ rank[y] \in Nat
    BY <1>3
  <2>6. Cardinality(Below(y)) \in Nat
    BY <2>3, <2>4
  <2> HIDE DEF Below
  <2>5. Cardinality(Below(x)) <= Cardinality(Below(y)) /\ Below(x) # Below(y)
    BY <2>1, <2>2, <2>4, FS_Subset
  <2>7. Cardinality(Below(x)) # Cardinality(Below(y))
    BY <2>1, <2>4, <2>5, FS_Subset
  <2>8. rank[x] <= rank[y] /\ rank[x] # rank[y]
    BY ONLY <2>3, <2>5, <2>7
  <2> QED BY ONLY <2>4, <2>8
<1>5. ASSUME NEW x \in R, NEW y \in R, rank[x] = rank[y] PROVE x = y
  <2>1. x[1] \in Nat /\ y[1] \in Nat /\ rank[x] \in Nat
    BY <1>2, <1>3
  <2>2. ~(x[1] < y[1]) /\ ~(y[1] < x[1])
    <3>1. ~(rank[x] < rank[y]) /\ ~(rank[y] < rank[x])
      BY <1>5, <2>1
    <3> QED BY <1>4, <3>1
  <2> QED BY <2>1, <2>2
<1>6. ASSUME NEW i \in 1..n PROVE \E x \in R : rank[x] = i - 1
  <2>1. rank \in [R -> 0..n - 1]
    BY <1>3
  <2>2. rank \in Injection(R, 0..n - 1)
    BY <1>5, <2>1 DEF Injection, IsInjective
  <2>3. IsFiniteSet(0..n - 1) /\ Cardinality(0..n - 1) = n
    <3>1. 0 \in Int /\ n - 1 \in Int
      BY <1>1
    <3>2. IsFiniteSet(0..n - 1)
          /\ Cardinality(0..n - 1) = IF 0 > n - 1 THEN 0 ELSE n - 1 - 0 + 1
      BY ONLY <3>1, FS_Interval
    <3> QED BY <1>1, <3>2
  <2>4. rank \in Surjection(R, 0..n - 1)
    BY <1>n, <2>2, <2>3, FS_Injection
  <2>5. i - 1 \in 0..n - 1
    BY <1>1
  <2> QED BY <2>4, <2>5 DEF Surjection
<1> QED BY <1>n, <1>3, <1>5, <1>6

LEMMA SortedIs ==
    ASSUME NEW buffer \in Seq(ForkPairs), NumbersDiffer(buffer),
           NEW sorted, sorted = Forks!Sorted(buffer)
    PROVE  /\ DOMAIN sorted = 1..Len(buffer)
           /\ \A i \in 1..Len(buffer) : \E q \in 1..Len(buffer) : sorted[i] = buffer[q]
           /\ \A q \in 1..Len(buffer) : \E i \in 1..Len(buffer) : sorted[i] = buffer[q]
           /\ \A i1, i2 \in 1..Len(buffer) : sorted[i1] = sorted[i2] => i1 = i2
<1> DEFINE n == Len(buffer)
           R == {buffer[i] : i \in 1..n}
           rank == [x \in R |-> Cardinality({y \in R : y[1] < x[1]})]
<1>1. n \in Nat /\ DOMAIN buffer = 1..n /\ \A i \in 1..n : buffer[i] \in ForkPairs
  OBVIOUS
<1>2. Forks!Range(buffer) = R
  BY <1>1 DEF Forks!Range
<1>3. \A x, y \in R : x[1] = y[1] => x = y
  BY <1>1 DEF NumbersDiffer
<1>4. IsFiniteSet(R) /\ Cardinality(R) = n
  <2>1. buffer \in [1..n -> R]
    BY <1>1
  <2>2. buffer \in Bijection(1..n, R)
    BY <1>1, <2>1 DEF Bijection, Injection, Surjection, IsInjective, NumbersDiffer
  <2>3. ExistsBijection(1..n, R)
    BY <2>2 DEF ExistsBijection
  <2> HIDE DEF R, n
  <2> QED BY <1>1, <2>3, FS_CountingElements, FS_NatBijection
<1>5. /\ \A x \in R : rank[x] \in 0..n - 1
      /\ \A x, y \in R : rank[x] = rank[y] => x = y
      /\ \A i \in 1..n : \E x \in R : rank[x] = i - 1
  <2>1. R \subseteq ForkPairs
    BY <1>1
  <2>2. rank = [x \in R |-> Cardinality({y \in R : y[1] < x[1]})]
    OBVIOUS
  <2> HIDE DEF R, rank, n
  <2> QED BY <1>3, <1>4, <2>1, <2>2, RanksAre
<1>6. sorted = [i \in 1..n |-> CHOOSE x \in R : rank[x] = i - 1]
  <2>1. \A x \in R : rank[x] = Forks!Cardinality({y \in R : y[1] < x[1]})
    BY ForksCount
  <2>2. ASSUME NEW i
        PROVE  (CHOOSE x \in R : Forks!Cardinality({y \in R : y[1] < x[1]}) = i - 1)
               = (CHOOSE x \in R : rank[x] = i - 1)
    <3> HIDE DEF rank, R
    <3> QED BY <2>1
  <2>3. sorted = [i \in 1..n |->
                     CHOOSE x \in R : Forks!Cardinality({y \in R : y[1] < x[1]}) = i - 1]
    BY <1>1, <1>2 DEF Forks!Sorted
  <2> HIDE DEF rank, R, n
  <2> QED BY <2>2, <2>3
<1>7. ASSUME NEW i \in 1..n PROVE sorted[i] \in R /\ rank[sorted[i]] = i - 1
  <2> HIDE DEF rank, R, n
  <2> QED BY <1>5, <1>6
<1>8. ASSUME NEW i1 \in 1..n, NEW i2 \in 1..n, sorted[i1] = sorted[i2] PROVE i1 = i2
  <2>1. i1 - 1 = i2 - 1
    BY <1>7, <1>8
  <2> QED BY <1>1, <2>1
<1>9. ASSUME NEW q \in 1..n PROVE \E i \in 1..n : sorted[i] = buffer[q]
  <2>1. buffer[q] \in R /\ rank[buffer[q]] \in 0..n - 1
    BY <1>5
  <2> DEFINE i == rank[buffer[q]] + 1
  <2>2. i \in 1..n /\ rank[buffer[q]] = i - 1
    <3> HIDE DEF rank
    <3> QED BY <1>1, <2>1
  <2>3. sorted[i] \in R /\ rank[sorted[i]] = rank[buffer[q]]
    BY <1>7, <2>2
  <2> QED
    <3> HIDE DEF rank, R
    <3> QED BY <1>5, <2>1, <2>2, <2>3
<1>10. DOMAIN sorted = 1..n
  BY <1>6
<1>11. \A i \in 1..n : \E q \in 1..n : sorted[i] = buffer[q]
  BY <1>7
<1> HIDE DEF n
<1> QED BY <1>8, <1>9, <1>10, <1>11 DEF n

\* No message twice; the messages of these forks.
Differ(seq) == \A i1, i2 \in DOMAIN seq : seq[i1] = seq[i2] => i1 = i2
SameMessages(entries, buffer) ==
    /\ \A i \in DOMAIN entries : \E q \in DOMAIN buffer : entries[i] = buffer[q][2]
    /\ \A q \in DOMAIN buffer : \E i \in DOMAIN entries : entries[i] = buffer[q][2]

LEMMA EntriesAre ==
    ASSUME NEW buffer \in Seq(ForkPairs), NumbersDiffer(buffer), MessagesDiffer(buffer),
           NEW entries, entries = Forks!Entries(buffer)
    PROVE  entries \in Seq(Nat) /\ SameMessages(entries, buffer) /\ Differ(entries)
<1> DEFINE sorted == Forks!Sorted(buffer)
           n == Len(buffer)
<1>1. n \in Nat /\ DOMAIN buffer = 1..n /\ \A i \in 1..n : buffer[i] \in ForkPairs
  OBVIOUS
<1>2. entries = [i \in 1..n |-> sorted[i][2]]
  BY <1>1 DEF Forks!Entries
<1>3. /\ \A i \in 1..n : \E q \in 1..n : sorted[i] = buffer[q]
      /\ \A q \in 1..n : \E i \in 1..n : sorted[i] = buffer[q]
      /\ \A i1, i2 \in 1..n : sorted[i1] = sorted[i2] => i1 = i2
  BY SortedIs
<1> HIDE DEF sorted, n
<1>7. ASSUME NEW i \in 1..n
      PROVE  entries[i] \in Nat /\ \E q \in 1..n : entries[i] = buffer[q][2]
  <2>1. PICK q \in 1..n : sorted[i] = buffer[q]
    BY <1>3
  <2>2. buffer[q][2] \in Nat
    BY <1>1 DEF ForkPairs
  <2> QED BY <1>2, <2>1, <2>2
<1>5. entries \in [1..n -> Nat]
  BY <1>2, <1>7
<1>6. entries \in Seq(Nat) /\ Len(entries) = n /\ DOMAIN entries = 1..n
  BY <1>1, <1>5, SeqDef
<1>8. ASSUME NEW q \in 1..n PROVE \E i \in 1..n : entries[i] = buffer[q][2]
  <2>1. PICK i \in 1..n : sorted[i] = buffer[q]
    BY <1>3
  <2> QED BY <1>2, <2>1
<1>9. ASSUME NEW i1 \in 1..n, NEW i2 \in 1..n, entries[i1] = entries[i2] PROVE i1 = i2
  <2>1. PICK q1 \in 1..n : sorted[i1] = buffer[q1]
    BY <1>3
  <2>2. PICK q2 \in 1..n : sorted[i2] = buffer[q2]
    BY <1>3
  <2>3. q1 = q2
    BY <1>1, <1>2, <1>9, <2>1, <2>2 DEF MessagesDiffer
  <2> QED BY <1>3, <2>1, <2>2, <2>3
<1>11. DOMAIN buffer = 1..n
  BY <1>1
<1>12. \A i \in DOMAIN entries : \E q \in DOMAIN buffer : entries[i] = buffer[q][2]
  BY ONLY <1>6, <1>7, <1>11
<1>13. \A q \in DOMAIN buffer : \E i \in DOMAIN entries : entries[i] = buffer[q][2]
  BY ONLY <1>6, <1>8, <1>11
<1>14. \A i1, i2 \in DOMAIN entries : entries[i1] = entries[i2] => i1 = i2
  BY ONLY <1>6, <1>9
<1> QED BY ONLY <1>6, <1>12, <1>13, <1>14 DEF Differ, SameMessages

\* What the sequences hold.
OneLonger(longer, seq, e) ==
    /\ \A i \in DOMAIN seq : longer[i] = seq[i]
    /\ \E last \in Nat : /\ last \notin DOMAIN seq /\ longer[last] = e
                         /\ DOMAIN longer = DOMAIN seq \cup {last}

LEMMA Appended ==
    ASSUME NEW S, NEW seq \in Seq(S), NEW e \in S, NEW longer, longer = Append(seq, e)
    PROVE  longer \in Seq(S) /\ OneLonger(longer, seq, e)
<1>1. /\ longer \in Seq(S) /\ Len(seq) \in Nat
      /\ DOMAIN seq = 1..Len(seq) /\ DOMAIN longer = 1..Len(seq) + 1
      /\ \A i \in 1..Len(seq) : longer[i] = seq[i]
      /\ longer[Len(seq) + 1] = e
  OBVIOUS
<1>2. 1..Len(seq) + 1 = 1..Len(seq) \cup {Len(seq) + 1} /\ Len(seq) + 1 \notin 1..Len(seq)
  BY <1>1
<1> QED BY ONLY <1>1, <1>2 DEF OneLonger

OneShorter(shorter, seq) ==
    /\ 1 \in DOMAIN seq /\ Head(seq) = seq[1]
    /\ \A i \in DOMAIN shorter : i + 1 \in DOMAIN seq \ {1} /\ shorter[i] = seq[i + 1]
    /\ \A i \in DOMAIN seq \ {1} : i - 1 \in DOMAIN shorter /\ shorter[i - 1] = seq[i]
    /\ Len(shorter) = Len(seq) - 1

LEMMA Shortened ==
    ASSUME NEW S, NEW seq \in Seq(S), seq # <<>>, NEW shorter, shorter = Tail(seq)
    PROVE  shorter \in Seq(S) /\ OneShorter(shorter, seq)
<1>1. /\ shorter \in Seq(S) /\ Len(seq) \in Nat \ {0} /\ Len(shorter) = Len(seq) - 1
      /\ DOMAIN seq = 1..Len(seq) /\ DOMAIN shorter = 1..Len(seq) - 1
      /\ \A i \in 1..Len(seq) - 1 : shorter[i] = seq[i + 1]
      /\ Head(seq) = seq[1]
  OBVIOUS
<1>2. /\ 1 \in 1..Len(seq)
      /\ \A i \in 1..Len(seq) - 1 : i \in Int /\ i + 1 \in 1..Len(seq) /\ i + 1 # 1
  BY <1>1
<1>3. \A i \in 1..Len(seq) : i # 1 => i - 1 \in 1..Len(seq) - 1 /\ i - 1 + 1 = i
  BY <1>1
<1>4. \A i \in DOMAIN seq \ {1} : i - 1 \in DOMAIN shorter /\ shorter[i - 1] = seq[i]
  BY ONLY <1>1, <1>3
<1> QED BY ONLY <1>1, <1>2, <1>4 DEF OneShorter

LEMMA Concatenated ==
    ASSUME NEW S, NEW seq \in Seq(S), NEW more \in Seq(S), NEW both, both = seq \o more
    PROVE  /\ both \in Seq(S)
           /\ \A i \in DOMAIN seq : i \in DOMAIN both /\ both[i] = seq[i]
           /\ \A i \in DOMAIN more :
                 Len(seq) + i \in DOMAIN both /\ both[Len(seq) + i] = more[i]
           /\ \A i \in DOMAIN both :
                 \/ i \in DOMAIN seq
                 \/ i - Len(seq) \in DOMAIN more /\ i = Len(seq) + (i - Len(seq))
<1>1. /\ both \in Seq(S) /\ Len(seq) \in Nat /\ Len(more) \in Nat
      /\ DOMAIN seq = 1..Len(seq) /\ DOMAIN more = 1..Len(more)
      /\ DOMAIN both = 1..Len(seq) + Len(more)
      /\ \A i \in 1..Len(seq) + Len(more) :
            both[i] = IF i <= Len(seq) THEN seq[i] ELSE more[i - Len(seq)]
  BY ConcatProperties
<1>2. \A i \in 1..Len(seq) : i \in 1..Len(seq) + Len(more) /\ i <= Len(seq)
  BY <1>1
<1>3. \A i \in 1..Len(more) : /\ Len(seq) + i \in 1..Len(seq) + Len(more)
                              /\ ~(Len(seq) + i <= Len(seq)) /\ Len(seq) + i - Len(seq) = i
  BY <1>1
<1>4. \A i \in 1..Len(seq) + Len(more) :
         \/ i \in 1..Len(seq)
         \/ i - Len(seq) \in 1..Len(more) /\ i = Len(seq) + (i - Len(seq))
  BY <1>1
<1>5. \A i \in DOMAIN seq : i \in DOMAIN both /\ both[i] = seq[i]
  BY ONLY <1>1, <1>2
<1>6. \A i \in DOMAIN more : Len(seq) + i \in DOMAIN both /\ both[Len(seq) + i] = more[i]
  BY ONLY <1>1, <1>3
<1> QED BY ONLY <1>1, <1>4, <1>5, <1>6

ForkFields == {"max", "drain", "heard", "base", "forks", "pending", "buffer", "checkpoint",
               "seq", "silent"}
ForksTyped(v) ==
    /\ ForkFields \subseteq DOMAIN v
    /\ v.max \in Nat \ {0} /\ v.heard \in Nat /\ v.base \in Nat /\ v.seq \in Nat
    /\ v.forks \subseteq ForkPairs /\ IsFiniteSet(v.forks)
    /\ Cardinality(v.forks) <= v.max - 1
    /\ v.pending \in Seq(Nat) /\ v.buffer \in Seq(ForkPairs) /\ v.checkpoint \in Seq(Nat)

\* Every fork, under way or answered, has a number of its own.
ForksNumbered(v) ==
    /\ \A x \in v.forks : x[1] <= v.seq
    /\ \A x, y \in v.forks : x[1] = y[1] => x = y
    /\ \A i \in DOMAIN v.buffer : /\ v.buffer[i][1] <= v.seq
                                  /\ \A x \in v.forks : x[1] # v.buffer[i][1]
    /\ NumbersDiffer(v.buffer)

\* No place holds a message twice.
InOnePlace(v) ==
    /\ \A x, y \in v.forks : x[2] = y[2] => x = y
    /\ Differ(v.pending) /\ MessagesDiffer(v.buffer) /\ Differ(v.checkpoint)

\* Where each message is; one of them, `out', is on its way between two places.
Places == {"none", "out", "base", "fork", "pending", "buffer", "checkpoint", "silent"}
PlacedAt(v, at, out) ==
    /\ at \in [Nat -> Places]
    /\ \A n \in Nat : at[n] = "none" <=> n \notin 1..v.heard
    /\ \A n \in Nat : at[n] = "out" <=> n # 0 /\ n = out
    /\ \A n \in Nat : at[n] = "base" <=> n # 0 /\ n = v.base
    /\ \A n \in Nat : at[n] = "fork" <=> \E x \in v.forks : x[2] = n
    /\ \A n \in Nat : at[n] = "pending" <=> \E i \in DOMAIN v.pending : v.pending[i] = n
    /\ \A n \in Nat : at[n] = "buffer" <=> \E i \in DOMAIN v.buffer : v.buffer[i][2] = n
    /\ \A n \in Nat : at[n] = "checkpoint"
                         <=> \E i \in DOMAIN v.checkpoint : v.checkpoint[i] = n
    /\ \A n \in Nat : at[n] = "silent" <=> n \in v.silent

Sound(v, out) ==
    ForksTyped(v) /\ ForksNumbered(v) /\ InOnePlace(v)
      /\ \E at \in [Nat -> Places] : PlacedAt(v, at, out)

\* A message that was nowhere is heard.
LEMMA HeardIs ==
    ASSUME NEW v, Sound(v, 0), NEW u, u = [v EXCEPT !.heard = v.heard + 1]
    PROVE  Sound(u, v.heard + 1)
<1>1. PICK at \in [Nat -> Places] : PlacedAt(v, at, 0)
  BY DEF Sound
<1> DEFINE m == v.heard + 1
           to == [at EXCEPT ![m] = "out"]
<1>2. /\ ForkFields \subseteq DOMAIN u /\ u.heard = m /\ m \in Nat /\ m # 0
      /\ \A field \in ForkFields \ {"heard"} : u[field] = v[field]
  BY DEF Sound, ForksTyped, ForkFields
<1>3. /\ u.max = v.max /\ u.base = v.base /\ u.seq = v.seq /\ u.forks = v.forks
      /\ u.pending = v.pending /\ u.buffer = v.buffer /\ u.checkpoint = v.checkpoint
      /\ u.silent = v.silent
  BY <1>2 DEF ForkFields
<1>4. ForksTyped(u) /\ ForksNumbered(u) /\ InOnePlace(u)
  BY ONLY <1>2, <1>3, Sound(v, 0) DEF Sound, ForksTyped, ForksNumbered, InOnePlace
<1>5. at[m] = "none" /\ \A n \in Nat : n \in 1..m <=> n = m \/ n \in 1..v.heard
  BY <1>1 DEF PlacedAt, Sound, ForksTyped
<1>6. to \in [Nat -> Places] /\ to[m] = "out" /\ \A n \in Nat : n # m => to[n] = at[n]
  BY <1>2 DEF Places
<1> HIDE DEF to, m
<1>7. PlacedAt(u, to, m)
  BY ONLY <1>1, <1>2, <1>3, <1>5, <1>6 DEF PlacedAt
<1> QED BY <1>4, <1>6, <1>7 DEF Sound, m

\* The message goes to the base agent.
LEMMA BasePlaced ==
    ASSUME NEW v, NEW m \in Nat \ {0}, Sound(v, m), v.base = 0,
           NEW u, u = [v EXCEPT !.base = m]
    PROVE  Sound(u, 0)
<1>1. PICK at \in [Nat -> Places] : PlacedAt(v, at, m)
  BY DEF Sound
<1> DEFINE to == [at EXCEPT ![m] = "base"]
<1>2. /\ ForkFields \subseteq DOMAIN u /\ u.base = m
      /\ \A field \in ForkFields \ {"base"} : u[field] = v[field]
  BY DEF Sound, ForksTyped, ForkFields
<1>3. /\ u.max = v.max /\ u.heard = v.heard /\ u.seq = v.seq /\ u.forks = v.forks
      /\ u.pending = v.pending /\ u.buffer = v.buffer /\ u.checkpoint = v.checkpoint
      /\ u.silent = v.silent
  BY <1>2 DEF ForkFields
<1>4. ForksTyped(u) /\ ForksNumbered(u) /\ InOnePlace(u)
  BY ONLY <1>2, <1>3, m \in Nat, Sound(v, m) DEF Sound, ForksTyped, ForksNumbered, InOnePlace
<1>5. at[m] = "out" /\ \A n \in Nat : at[n] # "base"
  BY <1>1 DEF PlacedAt
<1>6. to \in [Nat -> Places] /\ to[m] = "base" /\ \A n \in Nat : n # m => to[n] = at[n]
  BY DEF Places
<1> HIDE DEF to
<1>7. PlacedAt(u, to, 0)
  BY ONLY <1>1, <1>2, <1>3, <1>5, <1>6, m \in Nat \ {0}, v.base = 0 DEF PlacedAt
<1> QED BY <1>4, <1>6, <1>7 DEF Sound

\* A fork is started for it.
LEMMA ForkPlaced ==
    ASSUME NEW v, NEW m \in Nat \ {0}, Sound(v, m), Cardinality(v.forks) < v.max - 1,
           NEW u, u = Forks!StartFork(v, m)
    PROVE  /\ Sound(u, 0) /\ Cardinality(u.forks) = Cardinality(v.forks) + 1
           /\ \A field \in ForkFields \ {"seq", "forks"} : u[field] = v[field]
<1>1. PICK at \in [Nat -> Places] : PlacedAt(v, at, m)
  BY DEF Sound
<1> DEFINE to == [at EXCEPT ![m] = "fork"]
           fork == <<v.seq + 1, m>>
           forks == v.forks \cup {fork}
<1>2. /\ ForkFields \subseteq DOMAIN u /\ u.forks = forks /\ u.seq = v.seq + 1
      /\ \A field \in ForkFields \ {"seq", "forks"} : u[field] = v[field]
  BY DEF Sound, ForksTyped, ForkFields, Forks!StartFork
<1>3. /\ u.max = v.max /\ u.heard = v.heard /\ u.base = v.base
      /\ u.pending = v.pending /\ u.buffer = v.buffer /\ u.checkpoint = v.checkpoint
      /\ u.silent = v.silent
  BY <1>2 DEF ForkFields
<1>4. fork[1] = v.seq + 1 /\ fork[2] = m /\ fork \in ForkPairs
  BY DEF ForkPairs, Sound, ForksTyped
<1>5. fork \notin v.forks /\ v.seq \in Nat
  BY <1>4 DEF Sound, ForksTyped, ForksNumbered
<1>6. IsFiniteSet(forks) /\ Cardinality(forks) = Cardinality(v.forks) + 1
  BY <1>5, FS_AddElement DEF Sound, ForksTyped
<1> HIDE DEF fork
<1>7. ForksTyped(u)
  <2>1. v.max \in Nat /\ Cardinality(v.forks) \in Nat
    BY FS_CardinalityType DEF Sound, ForksTyped
  <2>2. Cardinality(u.forks) <= u.max - 1
    BY <1>2, <1>3, <1>6, <2>1
  <2> QED BY <1>2, <1>3, <1>4, <1>5, <1>6, <2>2 DEF Sound, ForksTyped
<1>8. ForksNumbered(u)
  <2>1. \A x \in v.forks : x[1] \in Nat /\ x[1] <= v.seq
    BY DEF Sound, ForksTyped, ForksNumbered, ForkPairs
  <2>2. \A i \in DOMAIN v.buffer : v.buffer[i][1] \in Nat /\ v.buffer[i][1] <= v.seq
    BY DEF Sound, ForksTyped, ForksNumbered, ForkPairs
  <2>3. \A x \in u.forks : x[1] <= u.seq
    BY ONLY <1>2, <1>4, <1>5, <2>1
  <2>4. \A x, y \in u.forks : x[1] = y[1] => x = y
    BY ONLY <1>2, <1>4, <1>5, <2>1, Sound(v, m) DEF Sound, ForksNumbered
  <2>5. \A i \in DOMAIN u.buffer : u.buffer[i][1] <= u.seq
    BY ONLY <1>2, <1>3, <1>5, <2>2
  <2>6. \A i \in DOMAIN u.buffer : \A x \in u.forks : x[1] # u.buffer[i][1]
    BY ONLY <1>2, <1>3, <1>4, <1>5, <2>2, Sound(v, m) DEF Sound, ForksNumbered
  <2>7. NumbersDiffer(u.buffer)
    BY <1>3 DEF Sound, ForksNumbered
  <2> QED BY ONLY <2>3, <2>4, <2>5, <2>6, <2>7 DEF ForksNumbered
<1>9. at[m] = "out" /\ \A x \in v.forks : x[2] # m
  BY <1>1 DEF PlacedAt
<1>10. InOnePlace(u)
  BY ONLY <1>2, <1>3, <1>4, <1>9, Sound(v, m) DEF Sound, InOnePlace
<1>11. to \in [Nat -> Places] /\ to[m] = "fork" /\ \A n \in Nat : n # m => to[n] = at[n]
  BY DEF Places
<1> HIDE DEF to
<1>12. PlacedAt(u, to, 0)
  <2>1. \A n \in Nat : (\E x \in u.forks : x[2] = n)
                          <=> n = m \/ \E x \in v.forks : x[2] = n
    BY ONLY <1>2, <1>4
  <2> QED BY ONLY <1>1, <1>3, <1>9, <1>11, <2>1, m \in Nat \ {0} DEF PlacedAt
<1> QED BY <1>2, <1>6, <1>7, <1>8, <1>10, <1>11, <1>12 DEF Sound

\* It waits.
LEMMA PendingPlaced ==
    ASSUME NEW v, NEW m \in Nat \ {0}, Sound(v, m),
           NEW u, u = [v EXCEPT !.pending = Append(v.pending, m)]
    PROVE  Sound(u, 0)
<1>1. PICK at \in [Nat -> Places] : PlacedAt(v, at, m)
  BY DEF Sound
<1> DEFINE to == [at EXCEPT ![m] = "pending"]
           pending == Append(v.pending, m)
<1>2. /\ ForkFields \subseteq DOMAIN u /\ u.pending = pending
      /\ \A field \in ForkFields \ {"pending"} : u[field] = v[field]
  BY DEF Sound, ForksTyped, ForkFields
<1>3. /\ u.max = v.max /\ u.heard = v.heard /\ u.seq = v.seq /\ u.forks = v.forks
      /\ u.base = v.base /\ u.buffer = v.buffer /\ u.checkpoint = v.checkpoint
      /\ u.silent = v.silent
  BY <1>2 DEF ForkFields
<1>4. /\ pending \in Seq(Nat) /\ \A i \in DOMAIN v.pending : pending[i] = v.pending[i]
      /\ \E last \in Nat : /\ last \notin DOMAIN v.pending /\ pending[last] = m
                           /\ DOMAIN pending = DOMAIN v.pending \cup {last}
  <2>1. v.pending \in Seq(Nat) /\ pending = Append(v.pending, m) /\ m \in Nat
    BY DEF Sound, ForksTyped
  <2> HIDE DEF pending
  <2>2. pending \in Seq(Nat) /\ OneLonger(pending, v.pending, m)
    BY ONLY <2>1, Appended
  <2> QED BY ONLY <2>2 DEF OneLonger
<1> HIDE DEF pending
<1>5. ForksTyped(u) /\ ForksNumbered(u)
  BY ONLY <1>2, <1>3, <1>4, Sound(v, m) DEF Sound, ForksTyped, ForksNumbered
<1>6. at[m] = "out" /\ \A i \in DOMAIN v.pending : v.pending[i] # m
  BY <1>1 DEF PlacedAt
<1>7. InOnePlace(u)
  <2>1. Differ(pending)
    BY ONLY <1>4, <1>6, Sound(v, m) DEF Differ, Sound, InOnePlace
  <2> QED BY ONLY <1>2, <1>3, <2>1, Sound(v, m) DEF Sound, InOnePlace
<1>8. to \in [Nat -> Places] /\ to[m] = "pending" /\ \A n \in Nat : n # m => to[n] = at[n]
  BY DEF Places
<1> HIDE DEF to
<1>9. PlacedAt(u, to, 0)
  <2>1. \A n \in Nat : (\E i \in DOMAIN u.pending : u.pending[i] = n)
                          <=> n = m \/ \E i \in DOMAIN v.pending : v.pending[i] = n
    BY ONLY <1>2, <1>4
  <2> QED BY ONLY <1>1, <1>3, <1>6, <1>8, <2>1, m \in Nat \ {0} DEF PlacedAt
<1> QED BY <1>5, <1>7, <1>8, <1>9 DEF Sound

\* The first that waits is taken.
LEMMA TakenIs ==
    ASSUME NEW v, Sound(v, 0), v.pending # <<>>,
           NEW u, u = [v EXCEPT !.pending = Tail(v.pending)]
    PROVE  Sound(u, Head(v.pending)) /\ Head(v.pending) \in Nat \ {0}
<1>1. PICK at \in [Nat -> Places] : PlacedAt(v, at, 0)
  BY DEF Sound
<1> DEFINE m == Head(v.pending)
           to == [at EXCEPT ![m] = "out"]
           pending == Tail(v.pending)
<1>2. /\ ForkFields \subseteq DOMAIN u /\ u.pending = pending
      /\ \A field \in ForkFields \ {"pending"} : u[field] = v[field]
  BY DEF Sound, ForksTyped, ForkFields
<1>3. /\ u.max = v.max /\ u.heard = v.heard /\ u.seq = v.seq /\ u.forks = v.forks
      /\ u.base = v.base /\ u.buffer = v.buffer /\ u.checkpoint = v.checkpoint
      /\ u.silent = v.silent
  BY <1>2 DEF ForkFields
<1>4. /\ pending \in Seq(Nat) /\ 1 \in DOMAIN v.pending /\ m = v.pending[1] /\ m \in Nat
      /\ \A i \in DOMAIN pending :
            i + 1 \in DOMAIN v.pending \ {1} /\ pending[i] = v.pending[i + 1]
      /\ \A i \in DOMAIN v.pending \ {1} :
            i - 1 \in DOMAIN pending /\ pending[i - 1] = v.pending[i]
      /\ \A i1, i2 \in DOMAIN pending : i1 + 1 = i2 + 1 => i1 = i2
  <2>1. v.pending \in Seq(Nat) /\ v.pending # <<>> /\ pending = Tail(v.pending)
        /\ m = Head(v.pending) /\ m \in Nat
    BY DEF Sound, ForksTyped
  <2> HIDE DEF pending, m
  <2>2. pending \in Seq(Nat) /\ OneShorter(pending, v.pending)
    BY ONLY <2>1, Shortened
  <2>3. \A i1, i2 \in DOMAIN pending : i1 + 1 = i2 + 1 => i1 = i2
    BY <2>2
  <2> QED BY ONLY <2>1, <2>2, <2>3 DEF OneShorter
<1> HIDE DEF pending, m
<1>5. ForksTyped(u) /\ ForksNumbered(u)
  BY ONLY <1>2, <1>3, <1>4, Sound(v, 0) DEF Sound, ForksTyped, ForksNumbered
<1>6. 1 \in DOMAIN v.pending /\ at[m] = "pending" /\ m # 0
  <2>1. at[m] = "pending"
    BY <1>1, <1>4 DEF PlacedAt
  <2>2. at[0] = "none"
    BY <1>1 DEF PlacedAt, Sound, ForksTyped
  <2> QED BY <1>4, <2>1, <2>2
<1>7. Differ(v.pending)
  BY DEF Sound, InOnePlace
<1>8. InOnePlace(u)
  <2>1. Differ(pending)
    BY ONLY <1>4, <1>7 DEF Differ
  <2> QED BY ONLY <1>2, <1>3, <2>1, Sound(v, 0) DEF Sound, InOnePlace
<1>9. to \in [Nat -> Places] /\ to[m] = "out" /\ \A n \in Nat : n # m => to[n] = at[n]
  BY <1>4 DEF Places
<1> HIDE DEF to
<1>10. PlacedAt(u, to, m)
  <2>1. ASSUME NEW n \in Nat
        PROVE  (\E i \in DOMAIN u.pending : u.pending[i] = n)
               <=> n # m /\ \E i \in DOMAIN v.pending : v.pending[i] = n
    <3>1. ASSUME NEW i \in DOMAIN pending
          PROVE  i + 1 \in DOMAIN v.pending /\ pending[i] = v.pending[i + 1] /\ pending[i] # m
      <4>1. i + 1 \in DOMAIN v.pending /\ i + 1 # 1 /\ pending[i] = v.pending[i + 1]
        BY ONLY <1>4, i \in DOMAIN pending
      <4> QED BY ONLY <1>4, <1>7, <4>1 DEF Differ
    <3>2. ASSUME NEW i \in DOMAIN v.pending, v.pending[i] # m
          PROVE  i - 1 \in DOMAIN pending /\ pending[i - 1] = v.pending[i]
      BY ONLY <1>4, i \in DOMAIN v.pending, v.pending[i] # m
    <3> QED BY ONLY <1>2, <3>1, <3>2
  <2>2. \A n \in Nat : to[n] = "out" <=> n # 0 /\ n = m
    BY ONLY <1>1, <1>6, <1>9 DEF PlacedAt
  <2>3. \A n \in Nat : to[n] = "none" <=> n \notin 1..u.heard
    BY ONLY <1>1, <1>3, <1>6, <1>9 DEF PlacedAt
  <2>4. \A n \in Nat : to[n] = "base" <=> n # 0 /\ n = u.base
    BY ONLY <1>1, <1>3, <1>6, <1>9 DEF PlacedAt
  <2>5. \A n \in Nat : to[n] = "pending" <=> \E i \in DOMAIN u.pending : u.pending[i] = n
    BY ONLY <1>1, <1>6, <1>9, <2>1 DEF PlacedAt
  <2>6. ASSUME NEW n \in Nat
        PROVE  /\ to[n] = "fork" <=> \E x \in u.forks : x[2] = n
               /\ to[n] = "buffer" <=> \E i \in DOMAIN u.buffer : u.buffer[i][2] = n
               /\ to[n] = "checkpoint"
                     <=> \E i \in DOMAIN u.checkpoint : u.checkpoint[i] = n
               /\ to[n] = "silent" <=> n \in u.silent
    BY ONLY <1>1, <1>3, <1>6, <1>9 DEF PlacedAt
  <2> QED BY ONLY <1>9, <2>2, <2>3, <2>4, <2>5, <2>6 DEF PlacedAt
<1> QED BY <1>4, <1>5, <1>6, <1>8, <1>9, <1>10 DEF Sound, m

\* What forks have answered goes to the history.
LEMMA FlushedIs ==
    ASSUME NEW v, NEW out \in Nat, Sound(v, out), NEW u, u = Forks!Flush(v)
    PROVE  /\ Sound(u, out)
           /\ \A field \in ForkFields \ {"checkpoint", "buffer"} : u[field] = v[field]
<1>1. PICK at \in [Nat -> Places] : PlacedAt(v, at, out)
  BY DEF Sound
<1> DEFINE to == [n \in Nat |-> IF at[n] = "buffer" THEN "checkpoint" ELSE at[n]]
           entries == Forks!Entries(v.buffer)
           both == v.checkpoint \o entries
<1>2. /\ ForkFields \subseteq DOMAIN u /\ u.checkpoint = both /\ u.buffer = <<>>
      /\ \A field \in ForkFields \ {"checkpoint", "buffer"} : u[field] = v[field]
  BY DEF Sound, ForksTyped, ForkFields, Forks!Flush
<1>3. /\ u.max = v.max /\ u.heard = v.heard /\ u.seq = v.seq /\ u.forks = v.forks
      /\ u.base = v.base /\ u.pending = v.pending /\ u.silent = v.silent
  BY <1>2 DEF ForkFields
<1>4. /\ entries \in Seq(Nat)
      /\ \A i \in DOMAIN entries : \E q \in DOMAIN v.buffer : entries[i] = v.buffer[q][2]
      /\ \A q \in DOMAIN v.buffer : \E i \in DOMAIN entries : entries[i] = v.buffer[q][2]
      /\ Differ(entries)
  <2>1. v.buffer \in Seq(ForkPairs) /\ NumbersDiffer(v.buffer) /\ MessagesDiffer(v.buffer)
    BY DEF Sound, ForksTyped, ForksNumbered, InOnePlace
  <2> HIDE DEF entries
  <2>2. entries = Forks!Entries(v.buffer)
    BY DEF entries
  <2>3. entries \in Seq(Nat) /\ SameMessages(entries, v.buffer) /\ Differ(entries)
    BY ONLY <2>1, <2>2, EntriesAre
  <2> QED BY ONLY <2>3 DEF SameMessages
<1>5. v.checkpoint \in Seq(Nat) /\ Differ(v.checkpoint)
  BY DEF Sound, ForksTyped, InOnePlace
<1>6. both = v.checkpoint \o entries
  OBVIOUS
<1> HIDE DEF entries, both
<1>7. /\ both \in Seq(Nat)
      /\ \A i \in DOMAIN v.checkpoint : i \in DOMAIN both /\ both[i] = v.checkpoint[i]
      /\ \A i \in DOMAIN entries :
            /\ Len(v.checkpoint) + i \in DOMAIN both
            /\ both[Len(v.checkpoint) + i] = entries[i]
      /\ \A i \in DOMAIN both :
            \/ i \in DOMAIN v.checkpoint
            \/ /\ i - Len(v.checkpoint) \in DOMAIN entries
               /\ i = Len(v.checkpoint) + (i - Len(v.checkpoint))
  BY ONLY <1>4, <1>5, <1>6, Concatenated
<1>8. ForksTyped(u) /\ ForksNumbered(u)
  <2>1. <<>> \in Seq(ForkPairs) /\ DOMAIN <<>> = {}
    OBVIOUS
  <2> QED BY ONLY <1>2, <1>3, <1>7, <2>1, Sound(v, out)
          DEF Sound, ForksTyped, ForksNumbered, NumbersDiffer
\* An entry of the buffer is none of the history.
<1>9. ASSUME NEW i \in DOMAIN v.checkpoint, NEW q \in DOMAIN entries
      PROVE  v.checkpoint[i] # entries[q]
  <2>1. PICK q2 \in DOMAIN v.buffer : entries[q] = v.buffer[q2][2]
    BY <1>4
  <2>2. v.buffer[q2][2] \in Nat
    BY DEF Sound, ForksTyped, ForkPairs
  <2>3. at[v.buffer[q2][2]] = "buffer"
    BY <1>1, <2>2 DEF PlacedAt
  <2>4. v.checkpoint[i] = v.buffer[q2][2] => at[v.buffer[q2][2]] = "checkpoint"
    BY <1>1, <2>2 DEF PlacedAt
  <2> QED BY <2>1, <2>3, <2>4
<1>10. ASSUME NEW i1 \in DOMAIN both, NEW i2 \in DOMAIN both, both[i1] = both[i2]
       PROVE  i1 = i2
  <2>1. CASE i1 \in DOMAIN v.checkpoint /\ i2 \in DOMAIN v.checkpoint
    BY ONLY <1>5, <1>7, <1>10, <2>1 DEF Differ
  <2>2. CASE i1 \notin DOMAIN v.checkpoint /\ i2 \notin DOMAIN v.checkpoint
    BY ONLY <1>4, <1>7, <1>10, <2>2 DEF Differ
  <2>3. CASE i1 \in DOMAIN v.checkpoint /\ i2 \notin DOMAIN v.checkpoint
    BY ONLY <1>7, <1>9, <1>10, <2>3
  <2>4. CASE i1 \notin DOMAIN v.checkpoint /\ i2 \in DOMAIN v.checkpoint
    BY ONLY <1>7, <1>9, <1>10, <2>4
  <2> QED BY <2>1, <2>2, <2>3, <2>4
<1>11. InOnePlace(u)
  <2>1. MessagesDiffer(<<>>)
    BY DEF MessagesDiffer
  <2>2. Differ(both)
    BY <1>10 DEF Differ
  <2> QED BY ONLY <1>2, <1>3, <2>1, <2>2, Sound(v, out) DEF Sound, InOnePlace
<1>12. ASSUME NEW n
       PROVE  (\E i \in DOMAIN u.checkpoint : u.checkpoint[i] = n)
              <=> \/ \E i \in DOMAIN v.checkpoint : v.checkpoint[i] = n
                  \/ \E q \in DOMAIN v.buffer : v.buffer[q][2] = n
  <2>1. ASSUME NEW i \in DOMAIN both, both[i] = n
        PROVE  \/ \E i2 \in DOMAIN v.checkpoint : v.checkpoint[i2] = n
               \/ \E q \in DOMAIN v.buffer : v.buffer[q][2] = n
    <3>1. CASE i \in DOMAIN v.checkpoint
      BY ONLY <1>7, <2>1, <3>1
    <3>2. CASE i \notin DOMAIN v.checkpoint
      <4>1. PICK q \in DOMAIN entries : q = i - Len(v.checkpoint)
        BY ONLY <1>7, i \in DOMAIN both, <3>2
      <4>2. i = Len(v.checkpoint) + q
        BY ONLY <1>7, i \in DOMAIN both, <3>2, <4>1
      <4>3. entries[q] = n
        BY ONLY <1>7, <2>1, <4>2
      <4> QED BY ONLY <1>4, <4>3
    <3> QED BY <3>1, <3>2
  <2>2. ASSUME NEW i \in DOMAIN v.checkpoint, v.checkpoint[i] = n
        PROVE  \E i2 \in DOMAIN both : both[i2] = n
    BY ONLY <1>7, <2>2
  <2>3. ASSUME NEW q \in DOMAIN v.buffer, v.buffer[q][2] = n
        PROVE  \E i2 \in DOMAIN both : both[i2] = n
    <3>1. PICK i \in DOMAIN entries : entries[i] = v.buffer[q][2]
      BY <1>4
    <3> QED BY ONLY <1>7, <2>3, <3>1
  <2> QED BY ONLY <1>2, <2>1, <2>2, <2>3
<1>13. /\ to \in [Nat -> Places]
       /\ \A n \in Nat : to[n] = IF at[n] = "buffer" THEN "checkpoint" ELSE at[n]
  BY DEF Places
<1> HIDE DEF to
<1>14. PlacedAt(u, to, out)
  <2>1. DOMAIN u.buffer = {}
    BY <1>2
  <2>2. \A n \in Nat : to[n] = "checkpoint"
                          <=> \E i \in DOMAIN u.checkpoint : u.checkpoint[i] = n
    BY ONLY <1>1, <1>12, <1>13 DEF PlacedAt
  <2>3. ASSUME NEW n \in Nat
        PROVE  /\ to[n] = "none" <=> n \notin 1..u.heard
               /\ to[n] = "out" <=> n # 0 /\ n = out
               /\ to[n] = "base" <=> n # 0 /\ n = u.base
               /\ to[n] = "fork" <=> \E x \in u.forks : x[2] = n
               /\ to[n] = "pending" <=> \E i \in DOMAIN u.pending : u.pending[i] = n
               /\ to[n] = "buffer" <=> \E i \in DOMAIN u.buffer : u.buffer[i][2] = n
               /\ to[n] = "silent" <=> n \in u.silent
    BY ONLY <1>1, <1>3, <1>13, <2>1 DEF PlacedAt
  <2> QED BY ONLY <1>13, <2>2, <2>3 DEF PlacedAt
<1> QED BY <1>2, <1>8, <1>11, <1>13, <1>14 DEF Sound

\* A fork ends: with an answer, or with none.
LEMMA ForkEnded ==
    ASSUME NEW v, Sound(v, 0), NEW fork \in v.forks, NEW answered \in BOOLEAN, NEW u,
           ForkFields \subseteq DOMAIN u, u.forks = v.forks \ {fork},
           u.buffer = IF answered THEN Append(v.buffer, fork) ELSE v.buffer,
           u.silent = IF answered THEN v.silent ELSE v.silent \cup {fork[2]},
           \A field \in ForkFields \ {"forks", "buffer", "silent"} : u[field] = v[field]
    PROVE  Sound(u, 0) /\ Cardinality(u.forks) = Cardinality(v.forks) - 1
<1>1. PICK at \in [Nat -> Places] : PlacedAt(v, at, 0)
  BY DEF Sound
<1> DEFINE place == IF answered THEN "buffer" ELSE "silent"
           m == fork[2]
           to == [at EXCEPT ![m] = place]
<1>2. /\ u.max = v.max /\ u.heard = v.heard /\ u.seq = v.seq /\ u.base = v.base
      /\ u.pending = v.pending /\ u.checkpoint = v.checkpoint
  BY DEF ForkFields
<1>3. fork \in ForkPairs /\ fork[1] \in Nat /\ m \in Nat /\ v.buffer \in Seq(ForkPairs)
  BY DEF Sound, ForksTyped, ForkPairs
<1>4. /\ fork[1] <= v.seq /\ \A x \in u.forks : x[1] # fork[1] /\ x[2] # m
      /\ \A i \in DOMAIN v.buffer : fork[1] # v.buffer[i][1]
  BY DEF Sound, ForksNumbered, InOnePlace
<1>5. IsFiniteSet(u.forks) /\ Cardinality(u.forks) = Cardinality(v.forks) - 1
  <2>1. IsFiniteSet(v.forks)
    BY DEF Sound, ForksTyped
  <2>2. /\ IsFiniteSet(v.forks \ {fork})
        /\ Cardinality(v.forks \ {fork}) = Cardinality(v.forks) - 1
    BY ONLY <2>1, fork \in v.forks, FS_RemoveElement
  <2> QED BY ONLY <2>2, u.forks = v.forks \ {fork}
<1>6. /\ u.buffer \in Seq(ForkPairs)
      /\ \A i \in DOMAIN v.buffer : i \in DOMAIN u.buffer /\ u.buffer[i] = v.buffer[i]
      /\ ~answered => u.buffer = v.buffer
      /\ answered => \E last \in DOMAIN u.buffer :
                        /\ last \notin DOMAIN v.buffer /\ u.buffer[last] = fork
                        /\ \A i \in DOMAIN u.buffer : i = last \/ i \in DOMAIN v.buffer
  <2>1. CASE answered
    <3>1. u.buffer = Append(v.buffer, fork)
      BY <2>1
    <3>0. u.buffer \in Seq(ForkPairs) /\ OneLonger(u.buffer, v.buffer, fork)
      BY ONLY <1>3, <3>1, Appended
    <3>2. u.buffer \in Seq(ForkPairs) /\ \A i \in DOMAIN v.buffer : u.buffer[i] = v.buffer[i]
      BY ONLY <3>0 DEF OneLonger
    <3>3. PICK last \in Nat : /\ last \notin DOMAIN v.buffer /\ u.buffer[last] = fork
                              /\ DOMAIN u.buffer = DOMAIN v.buffer \cup {last}
      BY ONLY <3>0 DEF OneLonger
    <3> QED BY ONLY <2>1, <3>2, <3>3
  <2>2. CASE ~answered
    <3>1. u.buffer = v.buffer
      BY <2>2
    <3> QED BY ONLY <1>3, <2>2, <3>1
  <2> QED BY <2>1, <2>2
<1>7. at[m] = "fork" /\ m # 0
  <2>1. at[m] = "fork"
    BY <1>1, <1>3 DEF PlacedAt
  <2>2. at[0] = "none"
    BY <1>1 DEF PlacedAt, Sound, ForksTyped
  <2> QED BY <2>1, <2>2
<1>8. \A i \in DOMAIN v.buffer : v.buffer[i][2] # m
  BY <1>1, <1>3, <1>7 DEF PlacedAt
<1> HIDE DEF m
<1>9. ForksTyped(u)
  <2>1. v.max \in Nat /\ Cardinality(v.forks) \in Nat
    BY FS_CardinalityType DEF Sound, ForksTyped
  <2>2. Cardinality(u.forks) <= u.max - 1
    BY <1>2, <1>5, <2>1 DEF Sound, ForksTyped
  <2> QED BY <1>2, <1>5, <1>6, <2>2 DEF Sound, ForksTyped
<1>10. ForksNumbered(u)
  <2>1. \A x \in u.forks : x \in v.forks
    OBVIOUS
  <2>2. \A i \in DOMAIN u.buffer : \/ i \in DOMAIN v.buffer /\ u.buffer[i] = v.buffer[i]
                                   \/ u.buffer[i] = fork
    BY ONLY <1>6
  <2>3. NumbersDiffer(u.buffer)
    <3>1. CASE answered
      BY ONLY <1>4, <1>6, <3>1, Sound(v, 0) DEF Sound, ForksNumbered, NumbersDiffer
    <3>2. CASE ~answered
      BY ONLY <1>6, <3>2, Sound(v, 0) DEF Sound, ForksNumbered
    <3> QED BY ONLY <3>1, <3>2, answered \in BOOLEAN
  <2> QED BY ONLY <1>2, <1>4, <2>1, <2>2, <2>3, Sound(v, 0) DEF Sound, ForksNumbered
<1>11. InOnePlace(u)
  <2>1. \A x \in u.forks : x \in v.forks
    OBVIOUS
  <2>2. MessagesDiffer(u.buffer)
    <3>1. CASE answered
      <4>1. m = fork[2]
        BY DEF m
      <4> QED BY ONLY <1>6, <1>8, <3>1, <4>1, Sound(v, 0) DEF Sound, InOnePlace, MessagesDiffer
    <3>2. CASE ~answered
      BY ONLY <1>6, <3>2, Sound(v, 0) DEF Sound, InOnePlace
    <3> QED BY ONLY <3>1, <3>2, answered \in BOOLEAN
  <2> QED BY ONLY <1>2, <2>1, <2>2, Sound(v, 0) DEF Sound, InOnePlace
<1>12. to \in [Nat -> Places] /\ to[m] = place /\ \A n \in Nat : n # m => to[n] = at[n]
  BY <1>3 DEF Places
<1> HIDE DEF to
<1>13. PlacedAt(u, to, 0)
  <2>1. \A n : (\E x \in u.forks : x[2] = n) <=> n # m /\ \E x \in v.forks : x[2] = n
    BY ONLY <1>4, u.forks = v.forks \ {fork} DEF m
  <2>2. \A n : (\E i \in DOMAIN u.buffer : u.buffer[i][2] = n)
                  <=> \/ answered /\ n = m
                      \/ \E i \in DOMAIN v.buffer : v.buffer[i][2] = n
    <3>1. CASE answered
      BY ONLY <1>6, <3>1 DEF m
    <3>2. CASE ~answered
      BY ONLY <1>6, <3>2
    <3> QED BY ONLY <3>1, <3>2, answered \in BOOLEAN
  <2>3. \A n : n \in u.silent <=> (~answered /\ n = m) \/ n \in v.silent
    BY DEF m
  <2>4. ASSUME NEW n \in Nat
        PROVE  /\ to[n] = "none" <=> n \notin 1..u.heard
               /\ to[n] = "out" <=> n # 0 /\ n = 0
               /\ to[n] = "base" <=> n # 0 /\ n = u.base
               /\ to[n] = "pending" <=> \E i \in DOMAIN u.pending : u.pending[i] = n
               /\ to[n] = "checkpoint"
                     <=> \E i \in DOMAIN u.checkpoint : u.checkpoint[i] = n
    <3>1. to[n] = "none" <=> n \notin 1..u.heard
      BY ONLY <1>1, <1>2, <1>7, <1>12 DEF PlacedAt
    <3>2. to[n] = "out" <=> n # 0 /\ n = 0
      BY ONLY <1>1, <1>2, <1>7, <1>12 DEF PlacedAt
    <3>3. to[n] = "base" <=> n # 0 /\ n = u.base
      BY ONLY <1>1, <1>2, <1>7, <1>12 DEF PlacedAt
    <3>4. to[n] = "pending" <=> \E i \in DOMAIN u.pending : u.pending[i] = n
      BY ONLY <1>1, <1>2, <1>7, <1>12 DEF PlacedAt
    <3>5. to[n] = "checkpoint" <=> \E i \in DOMAIN u.checkpoint : u.checkpoint[i] = n
      BY ONLY <1>1, <1>2, <1>7, <1>12 DEF PlacedAt
    <3> QED BY <3>1, <3>2, <3>3, <3>4, <3>5
  <2>5. \A n \in Nat : to[n] = "fork" <=> \E x \in u.forks : x[2] = n
    BY ONLY <1>1, <1>7, <1>12, <2>1 DEF PlacedAt
  <2>6. \A n \in Nat : to[n] = "buffer" <=> \E i \in DOMAIN u.buffer : u.buffer[i][2] = n
    BY ONLY <1>1, <1>7, <1>8, <1>12, <2>2 DEF PlacedAt
  <2>7. \A n \in Nat : to[n] = "silent" <=> n \in u.silent
    BY ONLY <1>1, <1>7, <1>12, <2>3 DEF PlacedAt
  <2> QED BY ONLY <1>12, <2>4, <2>5, <2>6, <2>7 DEF PlacedAt
<1> QED BY <1>5, <1>9, <1>10, <1>11, <1>12, <1>13 DEF Sound

\* The turn of the base agent ends.
LEMMA BaseEnded ==
    ASSUME NEW v, Sound(v, 0), v.base # 0,
           NEW u, u = [v EXCEPT !.base = 0, !.checkpoint = Append(v.checkpoint, v.base)]
    PROVE  Sound(u, 0)
<1>1. PICK at \in [Nat -> Places] : PlacedAt(v, at, 0)
  BY DEF Sound
<1> DEFINE m == v.base
           to == [at EXCEPT ![m] = "checkpoint"]
           checkpoint == Append(v.checkpoint, m)
<1>2. /\ ForkFields \subseteq DOMAIN u /\ u.base = 0 /\ u.checkpoint = checkpoint
      /\ \A field \in ForkFields \ {"base", "checkpoint"} : u[field] = v[field]
  BY DEF Sound, ForksTyped, ForkFields
<1>3. /\ u.max = v.max /\ u.heard = v.heard /\ u.seq = v.seq /\ u.forks = v.forks
      /\ u.pending = v.pending /\ u.buffer = v.buffer /\ u.silent = v.silent
  BY <1>2 DEF ForkFields
<1>4. m \in Nat \ {0}
  BY DEF Sound, ForksTyped
<1>5. /\ checkpoint \in Seq(Nat)
      /\ \A i \in DOMAIN v.checkpoint : checkpoint[i] = v.checkpoint[i]
      /\ \E last \in Nat : /\ last \notin DOMAIN v.checkpoint /\ checkpoint[last] = m
                           /\ DOMAIN checkpoint = DOMAIN v.checkpoint \cup {last}
  <2>1. v.checkpoint \in Seq(Nat) /\ checkpoint = Append(v.checkpoint, m)
    BY DEF Sound, ForksTyped
  <2> HIDE DEF checkpoint, m
  <2>2. checkpoint \in Seq(Nat) /\ OneLonger(checkpoint, v.checkpoint, m)
    BY ONLY <1>4, <2>1, Appended
  <2> QED BY ONLY <2>2 DEF OneLonger
<1> HIDE DEF checkpoint
<1>6. ForksTyped(u) /\ ForksNumbered(u)
  <2>1. 0 \in Nat
    OBVIOUS
  <2> QED BY ONLY <1>2, <1>3, <1>5, <2>1, Sound(v, 0) DEF Sound, ForksTyped, ForksNumbered
<1>7. at[m] = "base" /\ \A i \in DOMAIN v.checkpoint : v.checkpoint[i] # m
  BY <1>1, <1>4 DEF PlacedAt
<1>8. InOnePlace(u)
  <2>1. Differ(checkpoint)
    <3> HIDE DEF m
    <3> QED BY ONLY <1>5, <1>7, Sound(v, 0) DEF Differ, Sound, InOnePlace
  <2> QED BY ONLY <1>2, <1>3, <2>1, Sound(v, 0) DEF Sound, InOnePlace
<1>9. to \in [Nat -> Places] /\ to[m] = "checkpoint" /\ \A n \in Nat : n # m => to[n] = at[n]
  BY <1>4 DEF Places
<1> HIDE DEF to
<1>10. PlacedAt(u, to, 0)
  <2>1. \A n \in Nat : (\E i \in DOMAIN u.checkpoint : u.checkpoint[i] = n)
                          <=> n = m \/ \E i \in DOMAIN v.checkpoint : v.checkpoint[i] = n
    <3> HIDE DEF m
    <3> QED BY ONLY <1>2, <1>5
  <2>2. \A n \in Nat : to[n] = "base" <=> n # 0 /\ n = u.base
    BY ONLY <1>1, <1>2, <1>4, <1>9 DEF PlacedAt
  <2>3. \A n \in Nat : to[n] = "checkpoint"
                          <=> \E i \in DOMAIN u.checkpoint : u.checkpoint[i] = n
    <3> HIDE DEF m
    <3> QED BY ONLY <1>1, <1>7, <1>9, <2>1 DEF PlacedAt
  <2>4. ASSUME NEW n \in Nat
        PROVE  /\ to[n] = "none" <=> n \notin 1..u.heard
               /\ to[n] = "out" <=> n # 0 /\ n = 0
               /\ to[n] = "fork" <=> \E x \in u.forks : x[2] = n
               /\ to[n] = "pending" <=> \E i \in DOMAIN u.pending : u.pending[i] = n
               /\ to[n] = "buffer" <=> \E i \in DOMAIN u.buffer : u.buffer[i][2] = n
               /\ to[n] = "silent" <=> n \in u.silent
    <3> HIDE DEF m
    <3> QED BY ONLY <1>1, <1>3, <1>7, <1>9 DEF PlacedAt
  <2> QED BY ONLY <1>9, <2>2, <2>3, <2>4 DEF PlacedAt
<1> QED BY <1>6, <1>8, <1>9, <1>10 DEF Sound

LEMMA DispatchIs ==
    ASSUME NEW v, NEW m \in Nat \ {0}, Sound(v, m), NEW u, u = Forks!Dispatch(v, m)
    PROVE  /\ Sound(u, 0) /\ u.max = v.max /\ u.drain = v.drain /\ u.heard = v.heard
           /\ \/ v.base = 0 /\ u.base = m /\ u.forks = v.forks /\ u.pending = v.pending
              \/ /\ v.base # 0 /\ u.base = v.base /\ u.pending = v.pending
                 /\ Cardinality(v.forks) < v.max - 1
                 /\ Cardinality(u.forks) = Cardinality(v.forks) + 1
              \/ /\ v.base # 0 /\ u.base = v.base /\ u.pending = Append(v.pending, m)
                 /\ Cardinality(v.forks) = v.max - 1 /\ u.forks = v.forks
<1>1. /\ ForkFields \subseteq DOMAIN v /\ v.max \in Nat /\ Cardinality(v.forks) \in Nat
      /\ Cardinality(v.forks) <= v.max - 1
  BY FS_CardinalityType DEF Sound, ForksTyped
<1>2. Forks!Cardinality(v.forks) = Cardinality(v.forks)
  BY ForksCount
<1>3. CASE v.base = 0
  <2> DEFINE x == Forks!Flush(v)
  <2>1. Sound(x, m) /\ \A field \in ForkFields \ {"checkpoint", "buffer"} : x[field] = v[field]
    BY FlushedIs
  <2>2. u = [x EXCEPT !.base = m]
    BY <1>3 DEF Forks!Dispatch
  <2>3. ForkFields \subseteq DOMAIN x
    BY <2>1 DEF Sound, ForksTyped
  <2>4. /\ x.base = 0 /\ x.max = v.max /\ x.drain = v.drain /\ x.heard = v.heard
        /\ x.forks = v.forks /\ x.pending = v.pending
    BY <1>3, <2>1 DEF ForkFields
  <2> HIDE DEF x
  <2>5. Sound(u, 0)
    BY <2>1, <2>2, <2>4, BasePlaced
  <2>6. /\ u.base = m /\ u.max = x.max /\ u.drain = x.drain /\ u.heard = x.heard
        /\ u.forks = x.forks /\ u.pending = x.pending
    BY <2>2, <2>3 DEF ForkFields
  <2> QED BY ONLY <1>3, <2>4, <2>5, <2>6
<1>4. CASE v.base # 0 /\ Cardinality(v.forks) < v.max - 1
  <2>1. u = Forks!StartFork(v, m)
    BY <1>2, <1>4 DEF Forks!Dispatch
  <2>2. /\ Sound(u, 0) /\ Cardinality(u.forks) = Cardinality(v.forks) + 1
        /\ \A field \in ForkFields \ {"seq", "forks"} : u[field] = v[field]
    BY <1>4, <2>1, ForkPlaced
  <2>3. /\ u.base = v.base /\ u.max = v.max /\ u.drain = v.drain /\ u.heard = v.heard
        /\ u.pending = v.pending
    BY <2>2 DEF ForkFields
  <2> QED BY ONLY <1>4, <2>2, <2>3
<1>5. CASE v.base # 0 /\ ~(Cardinality(v.forks) < v.max - 1)
  <2>1. u = [v EXCEPT !.pending = Append(v.pending, m)]
    BY <1>2, <1>5 DEF Forks!Dispatch
  <2>2. Sound(u, 0)
    BY <2>1, PendingPlaced
  <2>3. /\ u.base = v.base /\ u.max = v.max /\ u.drain = v.drain /\ u.heard = v.heard
        /\ u.forks = v.forks /\ u.pending = Append(v.pending, m)
    BY <1>1, <2>1 DEF ForkFields
  <2>4. Cardinality(v.forks) = v.max - 1
    BY <1>1, <1>5
  <2> QED BY ONLY <1>5, <2>2, <2>3, <2>4
<1> QED BY <1>3, <1>4, <1>5

\* What waits are the last that were heard, in their order.
LastHeard(pending, latest) ==
    \A i \in DOMAIN pending : pending[i] = latest - Len(pending) + i

LEMMA LastAppended ==
    ASSUME NEW seq \in Seq(Nat), NEW latest \in Nat, LastHeard(seq, latest),
           NEW longer, longer = Append(seq, latest + 1)
    PROVE  LastHeard(longer, latest + 1)
<1>1. /\ Len(seq) \in Nat /\ Len(longer) = Len(seq) + 1
      /\ DOMAIN seq = 1..Len(seq) /\ DOMAIN longer = 1..Len(seq) + 1
      /\ \A i \in 1..Len(seq) : longer[i] = seq[i]
      /\ longer[Len(seq) + 1] = latest + 1
  OBVIOUS
<1>2. ASSUME NEW i \in DOMAIN longer PROVE longer[i] = latest + 1 - Len(longer) + i
  <2>1. CASE i \in DOMAIN seq
    <3>1. longer[i] = latest - Len(seq) + i /\ i \in Nat
      BY ONLY <1>1, <2>1, LastHeard(seq, latest) DEF LastHeard
    <3> QED BY ONLY <1>1, <3>1, latest \in Nat
  <2>2. CASE i \notin DOMAIN seq
    <3>1. i = Len(seq) + 1
      BY ONLY <1>1, <2>2, i \in DOMAIN longer
    <3> QED BY ONLY <1>1, <3>1, latest \in Nat
  <2> QED BY <2>1, <2>2
<1> QED BY <1>2 DEF LastHeard

LEMMA LastTaken ==
    ASSUME NEW seq \in Seq(Nat), seq # <<>>, NEW latest \in Nat, LastHeard(seq, latest),
           NEW shorter, shorter = Tail(seq)
    PROVE  LastHeard(shorter, latest)
<1>1. /\ Len(seq) \in Nat /\ shorter \in Seq(Nat) /\ Len(shorter) = Len(seq) - 1
      /\ \A i \in DOMAIN shorter :
            i + 1 \in DOMAIN seq \ {1} /\ shorter[i] = seq[i + 1]
  BY Shortened DEF OneShorter
<1>2. ASSUME NEW i \in DOMAIN shorter PROVE shorter[i] = latest - Len(shorter) + i
  <2>1. shorter[i] = latest - Len(seq) + (i + 1)
    BY ONLY <1>1, LastHeard(seq, latest), i \in DOMAIN shorter DEF LastHeard
  <2>2. i \in Nat
    BY <1>1
  <2> QED BY ONLY <1>1, <2>1, <2>2, latest \in Nat
<1> QED BY <1>2 DEF LastHeard

\* With draining nothing waits while there is room; `one' place may just have come free.
Waiting(v) ==
    v.drain /\ v.pending # <<>> =>
        v.base # 0 /\ Cardinality(v.forks) = v.max - 1 /\ LastHeard(v.pending, v.heard)
OneFree(v) ==
    v.drain /\ v.pending # <<>> =>
        /\ LastHeard(v.pending, v.heard)
        /\ \/ v.base # 0 /\ Cardinality(v.forks) = v.max - 2
           \/ v.base = 0 /\ Cardinality(v.forks) = v.max - 1

\* The inductive invariant of the conversation.
ForksIs(v) == Sound(v, 0) /\ Waiting(v)

LEMMA ForksRunning ==
    ASSUME NEW v, Sound(v, 0)
    PROVE  /\ v.max \in Nat \ {0} /\ Cardinality(v.forks) \in Nat
           /\ Cardinality(v.forks) <= v.max - 1
           /\ Forks!Running(v) = (IF v.base # 0 THEN 1 ELSE 0) + Cardinality(v.forks)
<1>1. Forks!Cardinality(v.forks) = Cardinality(v.forks)
  BY ForksCount
<1> QED BY <1>1, FS_CardinalityType DEF Sound, ForksTyped, Forks!Running

LEMMA DrainIs ==
    ASSUME NEW v, Sound(v, 0), OneFree(v), NEW u, u = Forks!Drain(v)
    PROVE  ForksIs(u)
<1>1. CASE ~v.drain \/ v.pending = <<>>
  <2>1. u = v
    BY <1>1 DEF Forks!Drain
  <2> QED BY <1>1, <2>1 DEF ForksIs, Waiting
<1>2. CASE ~(~v.drain \/ v.pending = <<>>)
  <2> DEFINE x == [v EXCEPT !.pending = Tail(v.pending)]
             m == Head(v.pending)
  <2>1. ~(Forks!Running(v) >= v.max)
    BY <1>2, ForksRunning DEF OneFree
  <2>2. u = Forks!Dispatch(x, m)
    BY <1>2, <2>1 DEF Forks!Drain
  <2>3. Sound(x, m) /\ m \in Nat \ {0}
    BY <1>2, TakenIs
  <2>4. /\ x.max = v.max /\ x.drain = v.drain /\ x.heard = v.heard /\ x.base = v.base
        /\ x.forks = v.forks /\ x.pending = Tail(v.pending)
    BY DEF Sound, ForksTyped, ForkFields
  <2>5. v.pending \in Seq(Nat) /\ v.heard \in Nat /\ LastHeard(v.pending, v.heard)
    BY <1>2 DEF OneFree, Sound, ForksTyped
  <2> HIDE DEF x, m
  <2>6. LastHeard(x.pending, x.heard)
    BY <1>2, <2>4, <2>5, LastTaken
  <2>7. /\ Sound(u, 0) /\ u.max = x.max /\ u.drain = x.drain /\ u.heard = x.heard
        /\ \/ x.base = 0 /\ u.base = m /\ u.forks = x.forks /\ u.pending = x.pending
           \/ /\ x.base # 0 /\ u.base = x.base /\ u.pending = x.pending
              /\ Cardinality(x.forks) < x.max - 1
              /\ Cardinality(u.forks) = Cardinality(x.forks) + 1
           \/ /\ x.base # 0 /\ u.base = x.base /\ u.pending = Append(x.pending, m)
              /\ Cardinality(x.forks) = x.max - 1 /\ u.forks = x.forks
    BY <2>2, <2>3, DispatchIs
  <2>8. v.max \in Nat /\ Cardinality(v.forks) \in Nat
    BY ForksRunning
  <2>9. \/ v.base # 0 /\ Cardinality(v.forks) = v.max - 2
        \/ v.base = 0 /\ Cardinality(v.forks) = v.max - 1
    BY <1>2 DEF OneFree
  <2>10. u.base # 0 /\ Cardinality(u.forks) = u.max - 1 /\ u.pending = x.pending
    <3>1. CASE v.base = 0
      BY ONLY <2>3, <2>4, <2>7, <2>9, <3>1
    <3>2. CASE v.base # 0
      BY ONLY <2>4, <2>7, <2>8, <2>9, <3>2
    <3> QED BY <3>1, <3>2
  <2> QED BY ONLY <2>6, <2>7, <2>10 DEF ForksIs, Waiting
<1> QED BY <1>1, <1>2

LEMMA AcceptIs ==
    ASSUME ForksIs(crowd), Forks!Accept
    PROVE  ForksIs(crowd')
<1> DEFINE x == [crowd EXCEPT !.heard = crowd.heard + 1]
           m == crowd.heard + 1
<1>1. crowd' = Forks!Dispatch(x, m)
  BY DEF Forks!Accept
<1>2. crowd.heard \in Nat /\ m \in Nat \ {0} /\ crowd.pending \in Seq(Nat)
  BY DEF ForksIs, Sound, ForksTyped
<1>3. Sound(x, m)
  BY HeardIs DEF ForksIs
<1>4. /\ x.max = crowd.max /\ x.drain = crowd.drain /\ x.heard = m /\ x.base = crowd.base
      /\ x.forks = crowd.forks /\ x.pending = crowd.pending
  BY DEF ForksIs, Sound, ForksTyped, ForkFields
<1> HIDE DEF x, m
<1>5. /\ Sound(crowd', 0) /\ crowd'.max = x.max /\ crowd'.drain = x.drain /\ crowd'.heard = x.heard
      /\ \/ x.base = 0 /\ crowd'.base = m /\ crowd'.forks = x.forks /\ crowd'.pending = x.pending
         \/ /\ x.base # 0 /\ crowd'.base = x.base /\ crowd'.pending = x.pending
            /\ Cardinality(x.forks) < x.max - 1
            /\ Cardinality(crowd'.forks) = Cardinality(x.forks) + 1
         \/ /\ x.base # 0 /\ crowd'.base = x.base /\ crowd'.pending = Append(x.pending, m)
            /\ Cardinality(x.forks) = x.max - 1 /\ crowd'.forks = x.forks
  BY <1>1, <1>2, <1>3, DispatchIs
<1>6. ASSUME crowd.drain, crowd'.pending # <<>>
      PROVE  crowd'.base # 0 /\ Cardinality(crowd'.forks) = crowd'.max - 1
               /\ LastHeard(crowd'.pending, crowd'.heard)
  <2>1. LastHeard(crowd.pending, crowd.heard)
    <3>1. CASE crowd.pending = <<>>
      BY <3>1 DEF LastHeard
    <3>2. CASE crowd.pending # <<>>
      BY <1>6, <3>2 DEF ForksIs, Waiting
    <3> QED BY <3>1, <3>2
  <2>2. LastHeard(Append(crowd.pending, m), m)
    BY <1>2, <2>1, LastAppended DEF m
  <2>3. crowd.max \in Nat /\ Cardinality(crowd.forks) \in Nat
    BY ForksRunning DEF ForksIs
  <2>4. crowd.pending # <<>> => crowd.base # 0 /\ Cardinality(crowd.forks) = crowd.max - 1
    BY <1>6 DEF ForksIs, Waiting
  <2>5. /\ crowd'.base = crowd.base /\ crowd.base # 0 /\ crowd'.forks = crowd.forks
        /\ Cardinality(crowd.forks) = crowd.max - 1 /\ crowd'.pending = Append(crowd.pending, m)
    BY ONLY <1>4, <1>5, <1>6, <2>3, <2>4
  <2> QED BY ONLY <1>4, <1>5, <2>2, <2>5
<1>7. Waiting(crowd')
  BY ONLY <1>4, <1>5, <1>6 DEF Waiting
<1> QED BY ONLY <1>5, <1>7 DEF ForksIs

LEMMA CompleteForkIs ==
    ASSUME ForksIs(crowd), Forks!CompleteFork
    PROVE  ForksIs(crowd')
<1>1. PICK fork \in crowd.forks, answered \in BOOLEAN :
        LET v == [crowd EXCEPT !.forks = @ \ {fork}]
        IN  crowd' = Forks!Drain(IF answered THEN [v EXCEPT !.buffer = Append(@, fork)]
                             ELSE [v EXCEPT !.silent = @ \cup {fork[2]}])
  BY Zenon DEF Forks!CompleteFork
<1> DEFINE v == [crowd EXCEPT !.forks = crowd.forks \ {fork}]
           u == IF answered THEN [v EXCEPT !.buffer = Append(v.buffer, fork)]
                ELSE [v EXCEPT !.silent = v.silent \cup {fork[2]}]
<1>2. crowd' = Forks!Drain(u)
  BY <1>1
<1>3. ForkFields \subseteq DOMAIN crowd /\ Sound(crowd, 0) /\ Waiting(crowd)
  BY DEF ForksIs, Sound, ForksTyped
<1>4. /\ ForkFields \subseteq DOMAIN v /\ v.forks = crowd.forks \ {fork}
      /\ \A field \in ForkFields \ {"forks"} : v[field] = crowd[field]
  BY <1>3 DEF ForkFields
<1>5. v.buffer = crowd.buffer /\ v.silent = crowd.silent
  BY <1>4 DEF ForkFields
<1> HIDE DEF v
<1>6. /\ ForkFields \subseteq DOMAIN u /\ u.forks = crowd.forks \ {fork}
      /\ u.buffer = IF answered THEN Append(crowd.buffer, fork) ELSE crowd.buffer
      /\ u.silent = IF answered THEN crowd.silent ELSE crowd.silent \cup {fork[2]}
      /\ \A field \in ForkFields \ {"forks", "buffer", "silent"} : u[field] = crowd[field]
  <2>1. CASE answered
    BY <1>4, <1>5, <2>1 DEF ForkFields
  <2>2. CASE ~answered
    BY <1>4, <1>5, <2>2 DEF ForkFields
  <2> QED BY <2>1, <2>2
<1> HIDE DEF u
<1>7. Sound(u, 0) /\ Cardinality(u.forks) = Cardinality(crowd.forks) - 1
  BY <1>3, <1>6, ForkEnded
<1>8. /\ u.max = crowd.max /\ u.drain = crowd.drain /\ u.heard = crowd.heard /\ u.base = crowd.base
      /\ u.pending = crowd.pending
  BY <1>6 DEF ForkFields
<1>9. crowd.max \in Nat /\ Cardinality(crowd.forks) \in Nat
  BY <1>3, ForksRunning
<1>10. OneFree(u)
  BY ONLY <1>3, <1>7, <1>8, <1>9 DEF OneFree, Waiting
<1> QED BY <1>2, <1>7, <1>10, DrainIs

LEMMA CompleteBaseIs ==
    ASSUME ForksIs(crowd), Forks!CompleteBase
    PROVE  ForksIs(crowd')
<1> DEFINE v == [crowd EXCEPT !.base = 0, !.checkpoint = Append(crowd.checkpoint, crowd.base)]
           u == Forks!Flush(v)
<1>1. crowd.base # 0 /\ crowd' = Forks!Drain(u)
  BY DEF Forks!CompleteBase
<1>2. ForkFields \subseteq DOMAIN crowd /\ Sound(crowd, 0) /\ Waiting(crowd)
  BY DEF ForksIs, Sound, ForksTyped
<1>3. Sound(v, 0)
  BY <1>1, <1>2, BaseEnded
<1>4. /\ v.max = crowd.max /\ v.drain = crowd.drain /\ v.heard = crowd.heard /\ v.base = 0
      /\ v.pending = crowd.pending /\ v.forks = crowd.forks
  BY <1>2 DEF ForkFields
<1> HIDE DEF v
<1>5. /\ Sound(u, 0)
      /\ \A field \in ForkFields \ {"checkpoint", "buffer"} : u[field] = v[field]
  BY <1>3, FlushedIs
<1> HIDE DEF u
<1>6. /\ u.max = crowd.max /\ u.drain = crowd.drain /\ u.heard = crowd.heard /\ u.base = 0
      /\ u.pending = crowd.pending /\ u.forks = crowd.forks
  BY <1>4, <1>5 DEF ForkFields
<1>7. OneFree(u)
  BY ONLY <1>2, <1>6 DEF OneFree, Waiting
<1> QED BY <1>1, <1>5, <1>7, DrainIs

LEMMA ForksStep ==
    ASSUME ForksIs(crowd), Forks!Next
    PROVE  ForksIs(crowd')
BY AcceptIs, CompleteForkIs, CompleteBaseIs DEF Forks!Next

LEMMA ForksStart ==
    ASSUME Forks!Init, Forks!ForksAssumption
    PROVE  ForksIs(crowd)
<1>1. /\ ForkFields \subseteq DOMAIN crowd /\ crowd.max \in Nat \ {0} /\ crowd.heard = 0
           /\ crowd.base = 0
      /\ crowd.forks = {} /\ crowd.pending = <<>> /\ crowd.buffer = <<>> /\ crowd.checkpoint = <<>>
      /\ crowd.seq = 0 /\ crowd.silent = {}
  BY DEF Forks!Init, Forks!ForksAssumption, ForkFields
<1>2. /\ IsFiniteSet({}) /\ Cardinality({}) = 0 /\ DOMAIN <<>> = {}
      /\ <<>> \in Seq(Nat) /\ <<>> \in Seq(ForkPairs)
  BY FS_EmptySet
<1>3. ForksTyped(crowd)
  <2>1. Cardinality(crowd.forks) <= crowd.max - 1
    BY <1>1, <1>2
  <2> QED BY ONLY <1>1, <1>2, <2>1 DEF ForksTyped
<1>4. ForksNumbered(crowd) /\ InOnePlace(crowd)
  BY ONLY <1>1, <1>2 DEF ForksNumbered, InOnePlace, NumbersDiffer, MessagesDiffer, Differ
<1> DEFINE at == [n \in Nat |-> "none"]
<1>5. at \in [Nat -> Places] /\ \A n \in Nat : at[n] = "none" /\ n \notin 1..0
  BY DEF Places
<1> HIDE DEF at
<1>6. PlacedAt(crowd, at, 0)
  BY ONLY <1>1, <1>2, <1>5 DEF PlacedAt
<1> QED BY <1>1, <1>3, <1>4, <1>5, <1>6 DEF ForksIs, Sound, Waiting

LEMMA ForkedIs ==
    ASSUME NEW R, \A x, y \in R : x[2] = y[2] => x = y, NEW m
    PROVE  Forks!Forked(R, m) = IF \E x \in R : x[2] = m THEN 1 ELSE 0
<1> DEFINE These == {x \in R : x[2] = m}
<1>1. Forks!Forked(R, m) = Cardinality(These)
  BY ForksCount DEF Forks!Forked
<1>2. CASE \E x \in R : x[2] = m
  <2>1. PICK x \in R : x[2] = m
    BY <1>2
  <2>2. These = {x}
    BY <2>1
  <2> HIDE DEF These
  <2> QED BY <1>1, <1>2, <2>2, FS_Singleton
<1>3. CASE ~\E x \in R : x[2] = m
  <2>1. These = {}
    BY <1>3
  <2> HIDE DEF These
  <2> QED BY <1>1, <1>3, <2>1, FS_EmptySet
<1> QED BY <1>2, <1>3

LEMMA OccurrencesAre ==
    ASSUME NEW seq, Differ(seq), NEW m
    PROVE  Forks!Occurrences(seq, m) = IF \E i \in DOMAIN seq : seq[i] = m THEN 1 ELSE 0
<1> DEFINE These == {i \in DOMAIN seq : seq[i] = m}
<1>1. Forks!Occurrences(seq, m) = Cardinality(These)
  BY ForksCount DEF Forks!Occurrences
<1>2. CASE \E i \in DOMAIN seq : seq[i] = m
  <2>1. PICK i \in DOMAIN seq : seq[i] = m
    BY <1>2
  <2>2. These = {i}
    BY <2>1 DEF Differ
  <2> HIDE DEF These
  <2> QED BY <1>1, <1>2, <2>2, FS_Singleton
<1>3. CASE ~\E i \in DOMAIN seq : seq[i] = m
  <2>1. These = {}
    BY <1>3
  <2> HIDE DEF These
  <2> QED BY <1>1, <1>3, <2>1, FS_EmptySet
<1> QED BY <1>2, <1>3

LEMMA ForksHolds ==
    ASSUME ForksIs(crowd)
    PROVE  Forks!ForksAreExact
<1>1. PICK at \in [Nat -> Places] : PlacedAt(crowd, at, 0)
  BY DEF ForksIs, Sound
<1>2. ASSUME NEW m \in 1..crowd.heard
      PROVE  1 = (IF crowd.base = m THEN 1 ELSE 0) + Forks!Forked(crowd.forks, m)
                 + Forks!Occurrences(crowd.pending, m)
                 + Forks!Forked(Forks!Range(crowd.buffer), m)
                 + Forks!Occurrences(crowd.checkpoint, m)
                 + (IF m \in crowd.silent THEN 1 ELSE 0)
  <2>1. m \in Nat /\ m # 0
    BY DEF ForksIs, Sound, ForksTyped
  <2>2. Forks!Forked(crowd.forks, m) = IF at[m] = "fork" THEN 1 ELSE 0
    BY <1>1, <2>1, ForkedIs DEF PlacedAt, ForksIs, Sound, InOnePlace
  <2>3. Forks!Occurrences(crowd.pending, m) = IF at[m] = "pending" THEN 1 ELSE 0
    BY <1>1, <2>1, OccurrencesAre DEF PlacedAt, ForksIs, Sound, InOnePlace
  <2>4. Forks!Occurrences(crowd.checkpoint, m) = IF at[m] = "checkpoint" THEN 1 ELSE 0
    BY <1>1, <2>1, OccurrencesAre DEF PlacedAt, ForksIs, Sound, InOnePlace
  <2>5. Forks!Forked(Forks!Range(crowd.buffer), m) = IF at[m] = "buffer" THEN 1 ELSE 0
    <3> DEFINE R == {crowd.buffer[i] : i \in DOMAIN crowd.buffer}
    <3>1. Forks!Range(crowd.buffer) = R
      BY DEF Forks!Range
    <3>2. \A x, y \in R : x[2] = y[2] => x = y
      BY DEF ForksIs, Sound, InOnePlace, MessagesDiffer
    <3>3. at[m] = "buffer" <=> \E x \in R : x[2] = m
      BY <1>1, <2>1 DEF PlacedAt
    <3> HIDE DEF R
    <3> QED BY <3>1, <3>2, <3>3, ForkedIs
  <2>6. (crowd.base = m <=> at[m] = "base") /\ (m \in crowd.silent <=> at[m] = "silent")
    BY <1>1, <2>1 DEF PlacedAt
  <2>7. at[m] \in Places \ {"none", "out"}
    BY <1>1, <2>1 DEF PlacedAt
  <2> QED BY ONLY <2>2, <2>3, <2>4, <2>5, <2>6, <2>7 DEF Places
<1>3. Forks!EachOnce
  BY <1>2 DEF Forks!EachOnce
<1>4. /\ crowd.max \in Nat \ {0} /\ Cardinality(crowd.forks) \in Nat
      /\ Cardinality(crowd.forks) <= crowd.max - 1
      /\ Forks!Running(crowd) = (IF crowd.base # 0 THEN 1 ELSE 0) + Cardinality(crowd.forks)
  BY ForksRunning DEF ForksIs
<1>5. Forks!RoomIsUsed
  <2>1. Forks!Running(crowd) <= crowd.max
    BY ONLY <1>4
  <2>2. ASSUME crowd.drain, crowd.pending # <<>>
        PROVE  /\ Forks!Running(crowd) = crowd.max
               /\ \A i \in DOMAIN crowd.pending :
                     crowd.pending[i] = crowd.heard - Len(crowd.pending) + i
    <3>1. crowd.base # 0 /\ Cardinality(crowd.forks) = crowd.max - 1
            /\ LastHeard(crowd.pending, crowd.heard)
      BY <2>2 DEF ForksIs, Waiting
    <3>2. Forks!Running(crowd) = crowd.max
      BY ONLY <1>4, <3>1
    <3> QED BY ONLY <3>1, <3>2 DEF LastHeard
  <2> QED BY ONLY <2>1, <2>2 DEF Forks!RoomIsUsed
<1> QED BY <1>3, <1>5 DEF Forks!ForksAreExact

\* An event of Feishu is handed on once as long as it is remembered, a message of a
\* conversation is in exactly one place and in its turn, the card shows the last state or
\* will (feishu/socketMode.ts, ConversationRuntime.ts, cards.ts).
THEOREM MessagesTheorem == Spec => []MessagesAreCarried
<1> DEFINE I == /\ part = "socket" => LinkIs(link) /\ FilterIs(link)
                /\ part = "forks" => ForksIs(crowd)
                /\ part = "cards" => CardIs(card) /\ IsFiniteSet(card.calls)
<1>0. Socket!SocketAssumption /\ Forks!ForksAssumption
  BY ServicesAssumption DEF ServicesAssumption
<1>1. Init => I
  <2>1. Cards!Init => IsFiniteSet(card.calls)
    BY FS_EmptySet DEF Cards!Init
  <2> QED BY <1>0, <2>1, SocketStart, ForksStart, CardStart DEF Init
<1>2. I /\ [Next]_vars => I'
  <2> SUFFICES ASSUME I, [Next]_vars PROVE I'
    OBVIOUS
  <2>1. CASE Next
    <3>1. ASSUME part' = "socket" PROVE LinkIs(link') /\ FilterIs(link')
      <4>1. Socket!Next /\ LinkIs(link) /\ FilterIs(link)
        BY <2>1, <3>1 DEF Next, DeliveryNext, ServicesNext
      <4> QED BY <1>0, <4>1, SocketStep
    <3>2. ASSUME part' = "forks" PROVE ForksIs(crowd')
      <4>1. Forks!Next /\ ForksIs(crowd)
        BY <2>1, <3>2 DEF Next, DeliveryNext, ServicesNext
      <4> QED BY <4>1, ForksStep
    <3>3. ASSUME part' = "cards" PROVE CardIs(card') /\ IsFiniteSet(card'.calls)
      <4>1. Cards!Next /\ CardIs(card) /\ IsFiniteSet(card.calls)
        BY <2>1, <3>3 DEF Next, DeliveryNext, ServicesNext
      <4> QED BY <4>1, CardStep
    <3> QED BY <3>1, <3>2, <3>3
  <2>2. CASE UNCHANGED vars
    BY <2>2 DEF vars, deliveryVars
  <2> QED BY <2>1, <2>2
<1>3. I => MessagesAreCarried
  BY SocketHolds, ForksHolds, CardHolds DEF MessagesAreCarried
<1> QED BY <1>1, <1>2, <1>3, PTL DEF Spec

-----------------------------------------------------------------------------
(* The locks *)
USE ServicesAssumption DEF ServicesAssumption

\* The types of a lock and of those who contend for it.
LockRecords ==
    [kind : {"journal", "workspace"},
     pc : [Processes -> {"idle", "try", "move", "read", "check", "clear", "remove",
                         "create", "write", "open", "held", "leave", "dead"}],
     seen : [Processes -> Processes \cup {None}],
     lock : {None, "made"} \cup Processes, gate : Processes \cup {None}, wrong : BOOLEAN]

\* Who is about to clear a lock has found its holder dead.
FoundDead ==
    \A p \in Processes :
        lock.pc[p] = "check" \/ (lock.kind = "journal" /\ lock.pc[p] = "clear") =>
            lock.seen[p] \in Processes /\ lock.pc[lock.seen[p]] = "dead"

\* Who works under the lock is the one it names, unless a journal's lock was
\* cleared after it had passed to a living process.
HeldByHolder ==
    (lock.kind = "journal" => ~lock.wrong) =>
        \A p \in Processes : lock.pc[p] \in {"held", "leave"} => lock.lock = p

\* A workspace's ownership is taken behind a gate of its own: between the look
\* at the owner and the write nobody else can come.
Gated ==
    lock.kind = "workspace" =>
        \A p \in Processes :
            /\ lock.pc[p] \in {"open", "read", "check", "clear", "create", "write"} => lock.gate = p
            /\ lock.pc[p] = "clear" => lock.lock \in Processes /\ lock.pc[lock.lock] = "dead"
            /\ lock.pc[p] = "write" => lock.lock = "made"

\* The inductive invariant of a lock.
LockInv == lock \in LockRecords /\ FoundDead /\ HeldByHolder /\ Gated

\* The invariant holds of a lock nobody has.
LEMMA LockStarts ==
    ASSUME Locks!Init PROVE LockInv
BY DEF Locks!Init, LockInv, LockRecords, FoundDead, HeldByHolder, Gated, Locks!LocksAssumption

\* Each step of a contender keeps it.
LEMMA LockStep ==
    ASSUME LockInv, Locks!Next PROVE LockInv'
<1> USE DEF Locks!LocksAssumption, LockInv
<1>1. PICK p \in Processes :
          \/ Locks!Calls(p) \/ Locks!GivesUp(p) \/ Locks!Dies(p)
          \/ lock.kind = "journal" /\ Locks!JournalLock(p)
          \/ lock.kind = "workspace" /\ Locks!Ownership(p)
  BY DEF Locks!Next
<1>2. CASE Locks!Calls(p)
  <2>1. lock' \in LockRecords /\ lock'.kind = lock.kind
    BY <1>2 DEF LockRecords, Locks!Calls, Locks!Go
  <2>2. FoundDead'
    BY <1>2 DEF FoundDead, LockRecords, Locks!Calls, Locks!Go
  <2>3. HeldByHolder'
    BY <1>2 DEF HeldByHolder, FoundDead, Gated, LockRecords, Locks!Calls, Locks!Go
  <2>4. Gated'
    BY <1>2 DEF Gated, HeldByHolder, FoundDead, LockRecords, Locks!Calls, Locks!Go
  <2> QED BY <2>1, <2>2, <2>3, <2>4
<1>3. CASE Locks!GivesUp(p)
  <2>1. lock' \in LockRecords /\ lock'.kind = lock.kind
    BY <1>3 DEF LockRecords, Locks!GivesUp, Locks!Go
  <2>2. FoundDead'
    BY <1>3 DEF FoundDead, LockRecords, Locks!GivesUp, Locks!Go
  <2>3. HeldByHolder'
    BY <1>3 DEF HeldByHolder, FoundDead, Gated, LockRecords, Locks!GivesUp, Locks!Go
  <2>4. Gated'
    BY <1>3 DEF Gated, HeldByHolder, FoundDead, LockRecords, Locks!GivesUp, Locks!Go
  <2> QED BY <2>1, <2>2, <2>3, <2>4
<1>4. CASE Locks!Dies(p)
  <2>1. lock' \in LockRecords /\ lock'.kind = lock.kind
    BY <1>4 DEF LockRecords, Locks!Dies, Locks!GoPast, Locks!Alive
  <2>2. FoundDead'
    BY <1>4 DEF FoundDead, LockRecords, Locks!Dies, Locks!GoPast, Locks!Alive
  <2>3. HeldByHolder'
    BY <1>4 DEF HeldByHolder, FoundDead, Gated, LockRecords, Locks!Dies, Locks!GoPast, Locks!Alive
  <2>4. Gated'
    BY <1>4 DEF Gated, HeldByHolder, FoundDead, LockRecords, Locks!Dies, Locks!GoPast, Locks!Alive
  <2> QED BY <2>1, <2>2, <2>3, <2>4
<1>5. CASE lock.kind = "journal" /\ Locks!Looks(p)
  <2>1. lock' \in LockRecords /\ lock'.kind = lock.kind
    BY <1>5 DEF LockRecords, Locks!Looks, Locks!Go
  <2>2. FoundDead'
    BY <1>5 DEF FoundDead, LockRecords, Locks!Looks, Locks!Go
  <2>3. HeldByHolder'
    BY <1>5 DEF HeldByHolder, FoundDead, Gated, LockRecords, Locks!Looks, Locks!Go
  <2>4. Gated'
    BY <1>5 DEF Gated, HeldByHolder, FoundDead, LockRecords, Locks!Looks, Locks!Go
  <2> QED BY <2>1, <2>2, <2>3, <2>4
<1>6. CASE lock.kind = "journal" /\ Locks!Moves(p)
  <2>1. CASE lock.lock \in {None, "made"}
    <3>1. lock' = [lock EXCEPT !.pc[p] = "held", !.lock = p]
      BY <1>6, <2>1 DEF Locks!Moves, Locks!Go
    <3>2. lock' \in LockRecords
      BY <1>6, <2>1, <3>1 DEF LockRecords
    <3>3. FoundDead'
      BY <1>6, <2>1, <3>1 DEF FoundDead, LockRecords, Locks!Moves
    <3>4. HeldByHolder'
      BY <1>6, <2>1, <3>1 DEF HeldByHolder, LockRecords, Locks!Moves
    <3>5. Gated'
      BY <1>6, <2>1, <3>1 DEF Gated, HeldByHolder, LockRecords, Locks!Moves
    <3> QED BY <3>2, <3>3, <3>4, <3>5
  <2>2. CASE ~(lock.lock \in {None, "made"})
    <3>1. lock' = [lock EXCEPT !.pc[p] = "read"]
      BY <1>6, <2>2 DEF Locks!Moves, Locks!Go
    <3>2. lock' \in LockRecords
      BY <1>6, <2>2, <3>1 DEF LockRecords
    <3>3. FoundDead'
      BY <1>6, <2>2, <3>1 DEF FoundDead, LockRecords, Locks!Moves
    <3>4. HeldByHolder'
      BY <1>6, <2>2, <3>1 DEF HeldByHolder, LockRecords, Locks!Moves
    <3>5. Gated'
      BY <1>6, <2>2, <3>1 DEF Gated, HeldByHolder, LockRecords, Locks!Moves
    <3> QED BY <3>2, <3>3, <3>4, <3>5
  <2> QED BY <2>1, <2>2
<1>7. CASE lock.kind = "journal" /\ Locks!Reads(p)
  <2>1. CASE Locks!IsDead(lock.lock)
    <3>1. lock' = [lock EXCEPT !.pc[p] = "check", !.seen[p] = lock.lock]
      BY <1>7, <2>1 DEF Locks!Reads, Locks!Go, Locks!IsDead, Locks!Alive
    <3>2. lock' \in LockRecords
      BY <1>7, <2>1, <3>1 DEF LockRecords, Locks!IsDead, Locks!Alive
    <3>3. FoundDead'
      BY <1>7, <2>1, <3>1 DEF FoundDead, LockRecords, Locks!IsDead, Locks!Alive, Locks!Reads
    <3>4. HeldByHolder'
      BY <1>7, <2>1, <3>1 DEF HeldByHolder, LockRecords, Locks!IsDead, Locks!Alive, Locks!Reads
    <3>5. Gated'
      BY <1>7, <2>1, <3>1 DEF Gated, HeldByHolder, LockRecords, Locks!IsDead, Locks!Alive,
         Locks!Reads
    <3> QED BY <3>2, <3>3, <3>4, <3>5
  <2>2. CASE ~(Locks!IsDead(lock.lock))
    <3>1. lock' = [lock EXCEPT !.pc[p] = "try"]
      BY <1>7, <2>2 DEF Locks!Reads, Locks!Go, Locks!IsDead, Locks!Alive
    <3>2. lock' \in LockRecords
      BY <1>7, <2>2, <3>1 DEF LockRecords, Locks!IsDead, Locks!Alive
    <3>3. FoundDead'
      BY <1>7, <2>2, <3>1 DEF FoundDead, LockRecords, Locks!IsDead, Locks!Alive, Locks!Reads
    <3>4. HeldByHolder'
      BY <1>7, <2>2, <3>1 DEF HeldByHolder, LockRecords, Locks!IsDead, Locks!Alive, Locks!Reads
    <3>5. Gated'
      BY <1>7, <2>2, <3>1 DEF Gated, HeldByHolder, LockRecords, Locks!IsDead, Locks!Alive,
         Locks!Reads
    <3> QED BY <3>2, <3>3, <3>4, <3>5
  <2> QED BY <2>1, <2>2
<1>8. CASE lock.kind = "journal" /\ Locks!Checks(p)
  <2>1. CASE lock.lock = lock.seen[p]
    <3>1. lock' = [lock EXCEPT !.pc[p] = "clear"]
      BY <1>8, <2>1 DEF Locks!Checks, Locks!Go, Locks!GoPast
    <3>2. lock' \in LockRecords
      BY <1>8, <2>1, <3>1 DEF LockRecords
    <3>3. FoundDead'
      BY <1>8, <2>1, <3>1 DEF FoundDead, LockRecords, Locks!Checks
    <3>4. HeldByHolder'
      BY <1>8, <2>1, <3>1 DEF HeldByHolder, LockRecords, Locks!Checks
    <3>5. Gated'
      BY <1>8, <2>1, <3>1 DEF Gated, HeldByHolder, LockRecords, Locks!Checks
    <3> QED BY <3>2, <3>3, <3>4, <3>5
  <2>2. CASE ~(lock.lock = lock.seen[p])
    <3>1. lock' = [lock EXCEPT !.pc[p] = "try", !.seen[p] = None]
      BY <1>8, <2>2 DEF Locks!Checks, Locks!Go, Locks!GoPast
    <3>2. lock' \in LockRecords
      BY <1>8, <2>2, <3>1 DEF LockRecords
    <3>3. FoundDead'
      BY <1>8, <2>2, <3>1 DEF FoundDead, LockRecords, Locks!Checks
    <3>4. HeldByHolder'
      BY <1>8, <2>2, <3>1 DEF HeldByHolder, LockRecords, Locks!Checks
    <3>5. Gated'
      BY <1>8, <2>2, <3>1 DEF Gated, HeldByHolder, LockRecords, Locks!Checks
    <3> QED BY <3>2, <3>3, <3>4, <3>5
  <2> QED BY <2>1, <2>2
<1>9. CASE lock.kind = "journal" /\ Locks!Clears(p)
  <2>1. lock' \in LockRecords /\ lock'.kind = lock.kind
    BY <1>9 DEF LockRecords, Locks!Clears, Locks!GoPast
  <2>2. FoundDead'
    BY <1>9 DEF FoundDead, LockRecords, Locks!Clears, Locks!GoPast
  <2>3. HeldByHolder'
    BY ZenonT(40), <1>9 DEF HeldByHolder, FoundDead, Gated, LockRecords, Locks!Clears, Locks!GoPast
  <2>4. Gated'
    BY <1>9 DEF Gated, HeldByHolder, FoundDead, LockRecords, Locks!Clears, Locks!GoPast
  <2> QED BY <2>1, <2>2, <2>3, <2>4
<1>10. CASE lock.kind = "journal" /\ Locks!Removes(p)
  <2>1. lock' \in LockRecords /\ lock'.kind = lock.kind
    BY <1>10 DEF LockRecords, Locks!Removes
  <2>2. FoundDead'
    BY <1>10 DEF FoundDead, LockRecords, Locks!Removes
  <2>3. HeldByHolder'
    BY <1>10 DEF HeldByHolder, FoundDead, Gated, LockRecords, Locks!Removes
  <2>4. Gated'
    BY <1>10 DEF Gated, HeldByHolder, FoundDead, LockRecords, Locks!Removes
  <2> QED BY <2>1, <2>2, <2>3, <2>4
<1>11. CASE lock.kind = "journal" /\ Locks!Releases(p)
  <2>1. lock' \in LockRecords /\ lock'.kind = lock.kind
    BY <1>11 DEF LockRecords, Locks!Releases
  <2>2. FoundDead'
    BY <1>11 DEF FoundDead, LockRecords, Locks!Releases
  <2>3. HeldByHolder'
    BY <1>11 DEF HeldByHolder, FoundDead, Gated, LockRecords, Locks!Releases
  <2>4. Gated'
    BY <1>11 DEF Gated, HeldByHolder, FoundDead, LockRecords, Locks!Releases
  <2> QED BY <2>1, <2>2, <2>3, <2>4
<1>12. CASE lock.kind = "workspace" /\ Locks!Passes(p)
  <2>1. lock' \in LockRecords /\ lock'.kind = lock.kind
    BY <1>12 DEF LockRecords, Locks!Passes
  <2>2. FoundDead'
    BY <1>12 DEF FoundDead, LockRecords, Locks!Passes
  <2>3. HeldByHolder'
    BY <1>12 DEF HeldByHolder, FoundDead, Gated, LockRecords, Locks!Passes
  <2>4. Gated'
    BY <1>12 DEF Gated, HeldByHolder, FoundDead, LockRecords, Locks!Passes
  <2> QED BY <2>1, <2>2, <2>3, <2>4
<1>13. CASE lock.kind = "workspace" /\ Locks!Opens(p)
  <2>1. CASE lock.lock = None
    <3>1. lock' = [lock EXCEPT !.pc[p] = "write", !.lock = "made"]
      BY <1>13, <2>1 DEF Locks!Opens, Locks!Go
    <3>2. lock' \in LockRecords
      BY <1>13, <2>1, <3>1 DEF LockRecords
    <3>3. FoundDead'
      BY <1>13, <2>1, <3>1 DEF FoundDead, LockRecords, Locks!Opens
    <3>4. HeldByHolder'
      BY <1>13, <2>1, <3>1 DEF HeldByHolder, LockRecords, Locks!Opens
    <3>5. Gated'
      BY <1>13, <2>1, <3>1 DEF Gated, HeldByHolder, LockRecords, Locks!Opens
    <3> QED BY <3>2, <3>3, <3>4, <3>5
  <2>2. CASE ~(lock.lock = None)
    <3>1. lock' = [lock EXCEPT !.pc[p] = "read"]
      BY <1>13, <2>2 DEF Locks!Opens, Locks!Go
    <3>2. lock' \in LockRecords
      BY <1>13, <2>2, <3>1 DEF LockRecords
    <3>3. FoundDead'
      BY <1>13, <2>2, <3>1 DEF FoundDead, LockRecords, Locks!Opens
    <3>4. HeldByHolder'
      BY <1>13, <2>2, <3>1 DEF HeldByHolder, LockRecords, Locks!Opens
    <3>5. Gated'
      BY <1>13, <2>2, <3>1 DEF Gated, HeldByHolder, LockRecords, Locks!Opens
    <3> QED BY <3>2, <3>3, <3>4, <3>5
  <2> QED BY <2>1, <2>2
<1>14. CASE lock.kind = "workspace" /\ Locks!Finds(p)
  <2>1. CASE Locks!IsDead(lock.lock)
    <3>1. lock' = [lock EXCEPT !.pc[p] = "check", !.seen[p] = lock.lock]
      BY <1>14, <2>1 DEF Locks!Finds, Locks!Go, Locks!IsDead, Locks!Alive
    <3>2. lock' \in LockRecords
      BY <1>14, <2>1, <3>1 DEF LockRecords, Locks!IsDead, Locks!Alive
    <3>3. FoundDead'
      BY <1>14, <2>1, <3>1 DEF FoundDead, LockRecords, Locks!IsDead, Locks!Alive, Locks!Finds
    <3>4. HeldByHolder'
      BY <1>14, <2>1, <3>1 DEF HeldByHolder, LockRecords, Locks!IsDead, Locks!Alive, Locks!Finds
    <3>5. Gated'
      BY <1>14, <2>1, <3>1 DEF Gated, HeldByHolder, LockRecords, Locks!IsDead, Locks!Alive,
         Locks!Finds
    <3> QED BY <3>2, <3>3, <3>4, <3>5
  <2>2. CASE ~(Locks!IsDead(lock.lock))
    <3>1. lock' = [lock EXCEPT !.pc[p] = "idle", !.gate = None]
      BY <1>14, <2>2 DEF Locks!Finds, Locks!Go, Locks!IsDead, Locks!Alive
    <3>2. lock' \in LockRecords
      BY <1>14, <2>2, <3>1 DEF LockRecords, Locks!IsDead, Locks!Alive
    <3>3. FoundDead'
      BY <1>14, <2>2, <3>1 DEF FoundDead, LockRecords, Locks!IsDead, Locks!Alive, Locks!Finds
    <3>4. HeldByHolder'
      BY <1>14, <2>2, <3>1 DEF HeldByHolder, LockRecords, Locks!IsDead, Locks!Alive, Locks!Finds
    <3>5. Gated'
      BY <1>14, <2>2, <3>1 DEF Gated, HeldByHolder, LockRecords, Locks!IsDead, Locks!Alive,
         Locks!Finds
    <3> QED BY <3>2, <3>3, <3>4, <3>5
  <2> QED BY <2>1, <2>2
<1>15. CASE lock.kind = "workspace" /\ Locks!Confirms(p)
  <2>1. lock' \in LockRecords /\ lock'.kind = lock.kind
    BY <1>15 DEF LockRecords, Locks!Confirms, Locks!GoPast
  <2>2. FoundDead'
    BY <1>15 DEF FoundDead, LockRecords, Locks!Confirms, Locks!GoPast
  <2>3. HeldByHolder'
    BY <1>15 DEF HeldByHolder, FoundDead, Gated, LockRecords, Locks!Confirms, Locks!GoPast
  <2>4. Gated'
    BY <1>15 DEF Gated, HeldByHolder, FoundDead, LockRecords, Locks!Confirms, Locks!GoPast
  <2> QED BY <2>1, <2>2, <2>3, <2>4
<1>16. CASE lock.kind = "workspace" /\ Locks!Unlinks(p)
  <2>1. lock' \in LockRecords /\ lock'.kind = lock.kind
    BY <1>16 DEF LockRecords, Locks!Unlinks
  <2>2. FoundDead'
    BY <1>16 DEF FoundDead, LockRecords, Locks!Unlinks
  <2>3. HeldByHolder'
    BY <1>16 DEF HeldByHolder, FoundDead, Gated, LockRecords, Locks!Unlinks
  <2>4. Gated'
    BY <1>16 DEF Gated, HeldByHolder, FoundDead, LockRecords, Locks!Unlinks
  <2> QED BY <2>1, <2>2, <2>3, <2>4
<1>17. CASE lock.kind = "workspace" /\ Locks!Creates(p)
  <2>1. lock' \in LockRecords /\ lock'.kind = lock.kind
    BY <1>17 DEF LockRecords, Locks!Creates
  <2>2. FoundDead'
    BY <1>17 DEF FoundDead, LockRecords, Locks!Creates
  <2>3. HeldByHolder'
    BY <1>17 DEF HeldByHolder, FoundDead, Gated, LockRecords, Locks!Creates
  <2>4. Gated'
    BY <1>17 DEF Gated, HeldByHolder, FoundDead, LockRecords, Locks!Creates
  <2> QED BY <2>1, <2>2, <2>3, <2>4
<1>18. CASE lock.kind = "workspace" /\ Locks!Writes(p)
  <2>1. lock' \in LockRecords /\ lock'.kind = lock.kind
    BY <1>18 DEF LockRecords, Locks!Writes
  <2>2. FoundDead'
    BY <1>18 DEF FoundDead, LockRecords, Locks!Writes
  <2>3. HeldByHolder'
    BY <1>18 DEF HeldByHolder, FoundDead, Gated, LockRecords, Locks!Writes
  <2>4. Gated'
    BY <1>18 DEF Gated, HeldByHolder, FoundDead, LockRecords, Locks!Writes
  <2> QED BY <2>1, <2>2, <2>3, <2>4
<1>19. CASE lock.kind = "workspace" /\ Locks!Leaves(p)
  <2>1. lock' \in LockRecords /\ lock'.kind = lock.kind
    BY <1>19 DEF LockRecords, Locks!Leaves, Locks!Go
  <2>2. FoundDead'
    BY <1>19 DEF FoundDead, LockRecords, Locks!Leaves, Locks!Go
  <2>3. HeldByHolder'
    BY <1>19 DEF HeldByHolder, FoundDead, Gated, LockRecords, Locks!Leaves, Locks!Go
  <2>4. Gated'
    BY <1>19 DEF Gated, HeldByHolder, FoundDead, LockRecords, Locks!Leaves, Locks!Go
  <2> QED BY <2>1, <2>2, <2>3, <2>4
<1>20. CASE lock.kind = "workspace" /\ Locks!Gone(p)
  <2>1. lock' \in LockRecords /\ lock'.kind = lock.kind
    BY <1>20 DEF LockRecords, Locks!Gone
  <2>2. FoundDead'
    BY <1>20 DEF FoundDead, LockRecords, Locks!Gone
  <2>3. HeldByHolder'
    BY <1>20 DEF HeldByHolder, FoundDead, Gated, LockRecords, Locks!Gone
  <2>4. Gated'
    BY <1>20 DEF Gated, HeldByHolder, FoundDead, LockRecords, Locks!Gone
  <2> QED BY <2>1, <2>2, <2>3, <2>4
<1> QED
  BY <1>1, <1>2, <1>3, <1>4, <1>5, <1>6, <1>7, <1>8, <1>9, <1>10, <1>11, <1>12, <1>13, <1>14,
     <1>15, <1>16, <1>17, <1>18, <1>19, <1>20 DEF Locks!JournalLock, Locks!Ownership

\* Two who hold the lock would both be the one it names.
LEMMA LockIsExclusive ==
    ASSUME LockInv PROVE Locks!ExclusiveUnlessCleared
BY DEF Locks!ExclusiveUnlessCleared, Locks!Exclusive, Locks!Holding, LockInv, LockRecords,
   HeldByHolder

\* One process at a time works under a lock, for any number of contenders that
\* may die at any point, but for the journal's lock once `wrong' is set.
THEOREM LocksExclude == Spec => []ExclusiveUnlessCleared
<1> DEFINE I == part = "locks" => LockInv
<1>1. Init => I
  BY LockStarts DEF Init
<1>2. I /\ [Next]_vars => I'
  <2> SUFFICES ASSUME I, [Next]_vars, part' = "locks" PROVE LockInv'
    OBVIOUS
  <2>1. CASE Next
    BY <2>1, LockStep DEF Next, DeliveryNext, ServicesNext
  <2>2. CASE UNCHANGED vars
    BY <2>2 DEF vars, LockInv, LockRecords, FoundDead, HeldByHolder, Gated
  <2> QED BY <2>1, <2>2
<1>3. I => ExclusiveUnlessCleared
  BY LockIsExclusive DEF ExclusiveUnlessCleared
<1> QED BY <1>1, <1>2, <1>3, PTL DEF Spec

=============================================================================
