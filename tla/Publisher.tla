------------------------------ MODULE Publisher ------------------------------
(***************************************************************************)
(* Publication of one work report to Feishu documents (worklog/Publisher.ts*)
(* over worklog/Store.ts and worklog/FeishuDocs.ts): the outbox of report  *)
(* versions, the lease of the tenant's publisher, the intent that guards   *)
(* the creation of a document, the search by title, appended versions, the *)
(* employee's edits, the read-only audit document and the operator's       *)
(* commands.                                                               *)
(*                                                                         *)
(* A step ends at an await.  The ledger is a database with full            *)
(* synchronisation: what a step wrote survives the death of the process.   *)
(* A request to Feishu that fails without an answer may have been carried  *)
(* out; a creation may also be carried out later.                          *)
(*                                                                         *)
(* A version is one marked part; an edit is one changed paragraph or       *)
(* title.  Left out: text, members of folders, authentication, waiting     *)
(* times between attempts, other reports, and leases that run out while    *)
(* their owner lives (two minutes; calls are assumed to be faster).        *)
(***************************************************************************)
EXTENDS Naturals, FiniteSets, Sequences

CONSTANTS
    Publishers,     \* processes: the watching service and the command line
    Versions,       \* report versions 1..Versions (bound)
    Edits,          \* edits of the employee
    Attempts,       \* of one job: 6 in the code
    Failures,       \* failing requests and deaths (bound)
    Reviews,        \* commands of the operator (bound)
    None

\* What the constants are (assumed where the module is instantiated).
PublisherAssumption ==
    /\ {Versions, Attempts, Failures, Reviews} \subseteq Nat /\ Versions > 0
    /\ None \notin Publishers \cup Nat
    /\ None \notin {"pending", "retry", "uncertain", "complete", "manual", "gone"}
    /\ "gone" \notin Publishers

VARIABLE pub
pubVars == <<pub>>

Keys == {"report", "audit"}     \* the report's document, and its audit document
Marks == 1..Versions            \* what the publisher appends for a version
Unfinished == {"pending", "retry", "uncertain"}
Awaits == {"folders", "find", "create", "share", "inspect", "parts", "append", "after"}

\* One call of publish or syncEdits: the jobs it selected, those of them that were uncertain
\* or spent, the document it is at and the audit entries still to append there.
Call == [at : Awaits \cup {"idle", "next"}, sync : BOOLEAN, jobs : SUBSET Marks,
         uncertain : SUBSET Marks, spent : SUBSET Marks, key : Keys,
         entries : SUBSET (Marks \cup Edits)]
NoCall == [at |-> "idle", sync |-> FALSE, jobs |-> {}, uncertain |-> {}, spent |-> {},
           key |-> "report", entries |-> {}]

TypeOK ==
    /\ pub.latest \in 0..Versions
    /\ pub.job \in [Marks -> {None, "complete", "superseded", "manual"} \cup Unfinished]
    /\ pub.attempts \in [Marks -> 0..Attempts]
    /\ pub.row \in [Keys -> {None} \cup (1..Len(pub.cloud))]
    /\ pub.snapshot = None \/ pub.snapshot \subseteq Marks \cup Edits
    /\ pub.intent \subseteq Keys /\ pub.coming \subseteq Keys
    /\ pub.audited \subseteq Marks \cup Edits
    /\ pub.revisions \subseteq Edits /\ pub.first \subseteq Edits
    /\ pub.claim \in Publishers \cup {None, "gone"}
    /\ pub.call \in [Publishers -> Call]

-----------------------------------------------------------------------------
(* Helpers *)

Least(S) == CHOOSE n \in S : \A m \in S : n <= m
Found(v, key) == {d \in DOMAIN v.cloud : v.cloud[d].key = key}
Holds(v, key) == v.cloud[v.row[key]].items
Go(v, i, stage) == [v EXCEPT !.call[i].at = stage]
Job(v, i) == Least(v.call[i].jobs)

\* A lease is had when it is free, one's own, or of a process of this machine that is gone.
CanLease(v, i) == v.claim \in {None, i, "gone"}
Lease(v, i) == [v EXCEPT !.claim = i]
Leave(v, i) == [v EXCEPT !.claim = IF @ = i THEN None ELSE @, !.call[i] = NoCall]

\* A failed job waits for its next attempt; a failed round of edits ends the call.
Failed(v, i, uncertain) ==
    IF v.call[i].sync THEN Leave(v, i)
    ELSE [v EXCEPT !.job[Job(v, i)] = IF uncertain THEN "uncertain" ELSE "retry",
                   !.call[i].at = "next", !.call[i].jobs = @ \ {Job(v, i)}]

\* document: the ledger knows the token, or the folder is searched.
Locate(v, i, key) ==
    [v EXCEPT !.call[i].key = key, !.call[i].at = IF v.row[key] = None THEN "find" ELSE "share"]

\* A token is found or created: the row replaces what was there, its snapshot too.
Name(v, i, key, d) ==
    [v EXCEPT !.row[key] = d, !.intent = @ \ {key}, !.call[i].at = "share",
              !.snapshot = IF key = "report" THEN None ELSE @]

Add(v, d, item) == [v EXCEPT !.cloud[d].items = @ \cup {item}]
Create(v, key) == [v EXCEPT !.cloud = Append(@, [key |-> key, items |-> {}])]

\* inspect: what the employee changed since the last snapshot is a revision; the first
\* snapshot is the base.
Recorded(v) ==
    LET now == Holds(v, "report") \cap Edits
    IN [v EXCEPT !.revisions = IF v.snapshot = None THEN @ ELSE @ \cup (now \ v.snapshot),
                 !.first = IF v.snapshot = None THEN @ \cup now ELSE @,
                 !.snapshot = Holds(v, "report")]
Saved(v) == [v EXCEPT !.snapshot = Holds(v, "report")]

\* audit: generations and revisions that are not in the audit document yet; when there are
\* none the job is complete.
Unaudited(v) == (1..v.latest \cup v.revisions) \ v.audited
Complete(v, i) ==
    IF v.call[i].sync THEN Leave(v, i)
    ELSE [v EXCEPT !.job[Job(v, i)] = "complete",
                   !.call[i].at = "next", !.call[i].jobs = @ \ {Job(v, i)}]

Audit(v, i) ==
    IF Unaudited(v) = {} THEN Complete(v, i)
    ELSE Locate([v EXCEPT !.call[i].entries = Unaudited(v)], i, "audit")

\* The part that is to be appended next, and what follows when it is there.
Part(v, i) ==
    IF v.call[i].key = "report" THEN Job(v, i)
    ELSE CHOOSE e \in v.call[i].entries : TRUE
Appended(v, i) ==
    IF v.call[i].key = "report" THEN Audit(v, i)
    ELSE LET e == Part(v, i)
             w == [v EXCEPT !.audited = @ \cup {e}, !.call[i].entries = @ \ {e}]
         IN IF w.call[i].entries = {} THEN Complete(w, i) ELSE Go(w, i, "parts")

-----------------------------------------------------------------------------
(* A publisher *)

\* saveReport: a new version and its job, in one transaction.
Generate ==
    /\ pub.latest < Versions
    /\ pub' = [pub EXCEPT !.latest = @ + 1, !.job[pub.latest + 1] = "pending"]

Publish(i) ==
    /\ pub.call[i].at = "idle" /\ CanLease(pub, i)
    /\ LET jobs == {n \in Marks : pub.job[n] \in Unfinished}
       IN /\ jobs # {}
          /\ pub' = [Lease(pub, i) EXCEPT
                !.call[i] = [NoCall EXCEPT !.at = "next", !.jobs = jobs,
                    !.uncertain = {n \in jobs : pub.job[n] = "uncertain"},
                    !.spent = {n \in jobs : pub.attempts[n] >= Attempts}]]

SyncEdits(i) ==
    /\ pub.call[i].at = "idle" /\ CanLease(pub, i)
    /\ pub.row["report"] # None
    /\ pub' = [Lease(pub, i) EXCEPT !.call[i] = [NoCall EXCEPT !.at = "inspect", !.sync = TRUE]]

\* The next job of the list: outdated, given up, or tried.
NextJob(i) ==
    /\ pub.call[i].at = "next"
    /\ IF pub.call[i].jobs = {} THEN pub' = Leave(pub, i)
       ELSE LET n == Job(pub, i)
                skip(s) == [pub EXCEPT !.job[n] = s, !.call[i].jobs = @ \ {n}]
            IN pub' = CASE n < pub.latest -> skip("superseded")
                        [] n = pub.latest /\ n \in pub.call[i].spent -> skip("manual")
                        [] OTHER -> [pub EXCEPT !.attempts[n] = @ + 1, !.call[i].at = "folders"]

\* The members of the folders are as configured.
Folders(i) ==
    /\ pub.call[i].at = "folders"
    /\ pub' = Locate(pub, i, "report")

\* Mutant of Search: the intent of an earlier attempt is not looked at.
SearchAgain(i) ==
    /\ pub.call[i].at = "find"
    /\ LET key == pub.call[i].key
           found == Found(pub, key)
       IN pub' = CASE Cardinality(found) > 1 -> Failed(pub, i, FALSE)
                   [] Cardinality(found) = 1 -> Name(pub, i, key, Least(found))
                   [] OTHER -> [Go(pub, i, "create") EXCEPT !.intent = @ \cup {key}]

\* The search is over.  A document that may be on its way is not created again.
Search(i) ==
    /\ pub.call[i].at = "find"
    /\ LET key == pub.call[i].key
           found == Found(pub, key)
           doubtful == \/ key \in pub.intent
                       \/ key = "report" /\ Job(pub, i) \in pub.call[i].uncertain
       IN pub' = CASE Cardinality(found) > 1 -> Failed(pub, i, FALSE)
                   [] Cardinality(found) = 1 -> Name(pub, i, key, Least(found))
                   [] found = {} /\ doubtful -> Failed(pub, i, TRUE)
                   [] OTHER -> [Go(pub, i, "create") EXCEPT !.intent = @ \cup {key}]

Created(i) ==
    /\ pub.call[i].at = "create"
    /\ LET v == Create(pub, pub.call[i].key)
       IN pub' = Name(v, i, pub.call[i].key, Len(v.cloud))

\* Feishu refuses, or does not answer: the document may exist now, later, or never.
NotCreated(i) ==
    /\ pub.call[i].at = "create" /\ pub.failures < Failures
    /\ LET key == pub.call[i].key
           v == [pub EXCEPT !.failures = @ + 1]
       IN \/ pub' = Failed([v EXCEPT !.intent = @ \ {key}], i, FALSE)
          \/ pub' = Failed(Create(v, key), i, TRUE)
          \/ pub' = Failed([v EXCEPT !.coming = @ \cup {key}], i, TRUE)

Shared(i) ==
    /\ pub.call[i].at = "share"
    /\ pub' = [Go(pub, i, IF pub.call[i].key = "report" THEN "inspect" ELSE "parts")
                EXCEPT !.open = @ \cup {pub.call[i].key}]

Inspect(i) ==
    /\ pub.call[i].at = "inspect"
    /\ LET v == Recorded(pub)
       IN pub' = IF pub.call[i].sync THEN Audit(v, i) ELSE Go(v, i, "parts")

\* appendParts: a part that is there already is not appended.
Parts(i) ==
    /\ pub.call[i].at = "parts"
    /\ LET key == pub.call[i].key
       IN pub' = IF Part(pub, i) \in Holds(pub, key)
                 THEN Appended(IF key = "report" THEN Saved(pub) ELSE pub, i)
                 ELSE Go(pub, i, "append")

Appends(i) ==
    /\ pub.call[i].at = "append"
    /\ pub' = Go(Add(pub, pub.row[pub.call[i].key], Part(pub, i)), i, "after")
AppendUnanswered(i) ==
    /\ pub.call[i].at = "append" /\ pub.failures < Failures
    /\ pub' = Failed([Add(pub, pub.row[pub.call[i].key], Part(pub, i))
                        EXCEPT !.failures = @ + 1], i, TRUE)
After(i) ==
    /\ pub.call[i].at = "after"
    /\ pub' = Appended(IF pub.call[i].key = "report" THEN Recorded(pub) ELSE pub, i)

\* Any other request fails, those that change something perhaps without an answer.
Fails(i) ==
    /\ pub.call[i].at \in Awaits \ {"create"} /\ pub.failures < Failures
    /\ \E uncertain \in {FALSE, pub.call[i].at \in {"share", "append"}} :
        pub' = Failed([pub EXCEPT !.failures = @ + 1], i, uncertain)

\* The process dies and another is started; a request under way may still be carried out.
Dies(i) ==
    /\ pub.call[i].at # "idle" /\ pub.failures < Failures
    /\ LET v == [pub EXCEPT !.failures = @ + 1, !.call[i] = NoCall,
                            !.claim = IF @ = i THEN "gone" ELSE @]
       IN \/ pub' = v
          \/ pub.call[i].at = "create" /\ pub' = [v EXCEPT !.coming = @ \cup {pub.call[i].key}]

-----------------------------------------------------------------------------
(* Others *)

\* A creation that nobody waits for any more is carried out.
Lands(key) ==
    /\ key \in pub.coming
    /\ pub' = [Create(pub, key) EXCEPT !.coming = @ \ {key}]

\* The employee edits the document they have been given.
EmployeeEdits(e) ==
    /\ "report" \in pub.open
    /\ \A d \in DOMAIN pub.cloud : e \notin pub.cloud[d].items
    /\ pub' = Add(pub, pub.row["report"], e)

\* reconcile: the operator names the document, or confirms that there is none and none is
\* coming; the jobs of the report are tried again.
Reconcile(key) ==
    /\ pub.reviews < Reviews
    /\ pub.claim \in {None, "gone"}
    /\ pub.coming = {}
    /\ LET again == [pub EXCEPT !.reviews = @ + 1, !.intent = @ \ {key}, !.claim = None,
                !.job = [n \in Marks |-> IF @[n] \in {"manual", "uncertain", "retry"}
                                         THEN "retry" ELSE @[n]],
                !.attempts = [n \in Marks |-> IF pub.job[n] \in {"manual", "uncertain", "retry"}
                                              THEN 0 ELSE @[n]]]
       IN IF Found(pub, key) = {} THEN pub' = again
          ELSE pub' = [again EXCEPT !.row[key] = Least(Found(pub, key)),
                                    !.snapshot = IF key = "report" THEN None ELSE @]

\* retry of one job, whatever its state.
Retry(n) ==
    /\ pub.reviews < Reviews /\ pub.job[n] # None
    /\ pub' = [pub EXCEPT !.reviews = @ + 1, !.attempts[n] = 0,
                          !.job[n] = IF @ = "uncertain" THEN @ ELSE "retry"]

Init ==
    pub = [latest |-> 0, job |-> [n \in Marks |-> None], attempts |-> [n \in Marks |-> 0],
           row |-> [k \in Keys |-> None], snapshot |-> None, intent |-> {}, coming |-> {},
           audited |-> {}, revisions |-> {}, first |-> {}, claim |-> None, open |-> {},
           cloud |-> <<>>, call |-> [i \in Publishers |-> NoCall], failures |-> 0,
           reviews |-> 0]

Next ==
    \/ Generate
    \/ \E i \in Publishers :
        \/ Publish(i) \/ SyncEdits(i) \/ NextJob(i) \/ Folders(i) \/ Search(i)
        \/ Created(i) \/ NotCreated(i) \/ Shared(i) \/ Inspect(i) \/ Parts(i)
        \/ Appends(i) \/ AppendUnanswered(i) \/ After(i) \/ Fails(i) \/ Dies(i)
    \/ \E key \in Keys : Lands(key) \/ Reconcile(key)
    \/ \E e \in Edits : EmployeeEdits(e)
    \/ \E n \in Marks : Retry(n)

Spec == Init /\ [][Next]_pubVars

-----------------------------------------------------------------------------
(* Properties *)

\* However requests are lost, publishers die and the operator intervenes, a report has one
\* document and one audit document.
OneDocument == \A key \in Keys : Cardinality(Found(pub, key)) <= 1

\* A job that is reported as complete is in the report's document, and what is noted as
\* audited is in the audit document, its version included.
CompleteIsPublished ==
    /\ \A n \in Marks : pub.job[n] = "complete" => n \in Holds(pub, "report") \cap pub.audited
    /\ pub.audited # {} => pub.audited \subseteq Holds(pub, "audit")
=============================================================================
