-------------------------- MODULE WorkspacesProofs --------------------------
(***************************************************************************)
(* Proofs about private workspaces and their publication (module           *)
(* Workspaces).  A call under way carries what it has read; the invariant  *)
(* says, for each kind of call and each label it may be at, how far what   *)
(* it carries still agrees with the record, the copy and the project, and  *)
(* who is to blame where it does not (the history variables `raced',       *)
(* `late', `foreign' and `touched').  The call that holds the lock moves   *)
(* by lemma Moves, a call that does not by lemma Outside; an action of the *)
(* program is one of the two with what it computes.                        *)
(***************************************************************************)
EXTENDS Workspaces, WellFoundedInduction, TLAPS

USE NFilesAssumption

\* The calls under way, by what they carry: a publication that waits for the
\* lock, a launch that has read the record, a publication that has read the
\* copy, one that publishes row after row, a resolution.
Waiting == [kind : {"evaluate", "review", "publish"}, task : Tasks, at : {"queue"}]
Launching == [kind : {"launch"}, task : Tasks, at : {"start"}, ws : Copies]
Comparing ==
    [kind : {"evaluate", "review", "publish"}, task : Tasks, at : {"compare"},
     ws : Copies, saw : [Files -> Contents]]
Publishing ==
    [kind : {"evaluate", "review", "publish", "recover"}, task : Tasks,
     at : {"look", "copy", "write", "merge"}, ws : Copies, file : Files]
Resolving ==
    [kind : {"resolve"}, task : Tasks, at : {"queue", "fetch", "record"}, ws : Copies,
     file : Files, expected : Contents, theirs : BOOLEAN]
JobShapes == {NoJob} \cup Waiting \cup Launching \cup Comparing \cup Publishing \cup Resolving

Statuses == {"running", "evaluating", "retry_wait", "blocked", "accepted", "superseded"}

\* The types of the variables, the calls under way with theirs.
Typed ==
    /\ current \in BOOLEAN /\ status \in [Tasks -> Statuses]
    /\ ws \in [Tasks -> Copies] /\ stage \in [Tasks -> [Files -> Contents]]
    /\ project \in [Files -> Contents] /\ recovering \subseteq Tasks
    /\ known \in [Tasks -> [Files -> SUBSET Contents]]
    /\ job \in [Jobs -> JobShapes]

\* One call works under the lock (workspaceExclusive), with a row that is there.
Locked ==
    /\ lock \in 0..Slots
    /\ \A j \in Jobs :
        /\ (lock = j) <=> (job[j] # NoJob /\ job[j].at \notin {"queue", "start"})
        /\ job[j] \in Publishing => job[j].file \in DOMAIN job[j].ws.pending
        /\ job[j] \in Resolving /\ job[j].at = "fetch" => job[j].theirs

\* A publication left pending by a death is visited before anything else begins.
Quiet ==
    /\ \A t \in recovering : Pending(t)
    /\ recovering # {} => \A j \in Jobs : job[j].kind \in {"none", "recover"}

\* The record w of task t holds nothing of the project its task was not told of.
Knows(t, w) ==
    \A f \in Files :
        /\ w.base[f] \in known[t][f]
        /\ f \in DOMAIN w.pending => w.pending[f].before \in known[t][f]

Knowledge ==
    /\ \A t \in Tasks : Knows(t, ws[t])
    /\ \A j \in Jobs :
        job[j] \in Launching \cup Comparing \cup Publishing \cup Resolving =>
            Knows(job[j].task, job[j].ws)

\* Between its look at a file and its write, a publication knows what is there,
\* and that its requirement is the current one, but for what `raced' and `late' say.
LookedAt(j) == job[j] \in Publishing /\ job[j].at \in {"copy", "write"} =>
    /\ project[job[j].file] = Row(j).before \/ j \in raced
    /\ current \/ j \in late

\* Each row a publication has left behind it is in the project, or somebody else
\* has changed the file since.
ProgressedAt(j) == job[j] \in Publishing =>
    \A f \in DOMAIN job[j].ws.pending :
        job[j].at = "merge" \/ f < job[j].file =>
            project[f] = job[j].ws.pending[f].after \/ f \in foreign

\* What a publication carries is still the record of its task, and the copy what
\* it compared, unless somebody has touched them.
FreshAt(j) == current /\ job[j] \in Publishing \cup Comparing =>
    \/ job[j].task \in touched
    \/ /\ job[j].ws = ws[job[j].task]
       /\ job[j] \in Comparing => job[j].saw = stage[job[j].task] /\ ~Pending(job[j].task)

\* A resolution that took "theirs" has it in the copy when it comes to record it.
FetchedAt(j) == current /\ job[j] \in Resolving /\ job[j].at = "record" /\ job[j].theirs
                       /\ Pending(job[j].task) =>
    job[j].task \in touched \/ stage[job[j].task][job[j].file] = job[j].expected

Looked == \A j \in Jobs : LookedAt(j)
Progressed == \A j \in Jobs : ProgressedAt(j)
Fresh == \A j \in Jobs : FreshAt(j)
Fetched == \A j \in Jobs : FetchedAt(j)

\* A resolution is about to record what it has put into the copy already.
Recording(t, f) ==
    \E j \in Jobs : /\ job[j] \in Resolving /\ job[j].at = "record" /\ job[j].theirs
                    /\ job[j].task = t /\ job[j].file = f

\* The copy of a task whose publication is pending is what is to be published.
Exact ==
    current => \A t \in Tasks : Pending(t) =>
        t \in touched \/ \A f \in Files : stage[t][f] = Published(ws[t]).base[f] \/ Recording(t, f)

\* The inductive invariant.
WsInv == Typed /\ Locked /\ Quiet /\ Knowledge /\ Looked /\ Progressed /\ Fresh /\ Exact /\ Fetched

-----------------------------------------------------------------------------

\* The rows of a pending publication are those of some files, each with two contents.
LEMMA RowsTyped ==
    /\ NoRows \in Rows /\ DOMAIN NoRows = {}
    /\ \A p \in Rows : /\ DOMAIN p \in SUBSET Files
                       /\ \A f \in DOMAIN p : p[f].before \in Contents /\ p[f].after \in Contents
                       /\ p # NoRows => DOMAIN p # {}
    /\ \A fs \in SUBSET Files, b, a \in [Files -> Contents] :
        [f \in fs |-> [before |-> b[f], after |-> a[f]]] \in Rows
<1>1. DOMAIN NoRows = {}
  BY DEF NoRows
<1>2. NoRows \in Rows
  <2>1. NoRows \in [{} -> [before : Contents, after : Contents]]
    BY DEF NoRows
  <2>2. {} \in SUBSET Files
    OBVIOUS
  <2> QED BY <2>1, <2>2 DEF Rows
<1>3. ASSUME NEW p \in Rows
      PROVE  /\ DOMAIN p \in SUBSET Files
             /\ \A f \in DOMAIN p : p[f].before \in Contents /\ p[f].after \in Contents
             /\ p # NoRows => DOMAIN p # {}
  <2>1. PICK fs \in SUBSET Files : p \in [fs -> [before : Contents, after : Contents]]
    BY DEF Rows
  <2>2. DOMAIN p = fs
    BY <2>1
  <2>3. fs = {} => p = NoRows
    BY <2>1 DEF NoRows
  <2> QED BY <2>1, <2>2, <2>3
<1>4. ASSUME NEW fs \in SUBSET Files, NEW b \in [Files -> Contents], NEW a \in [Files -> Contents]
      PROVE  [f \in fs |-> [before |-> b[f], after |-> a[f]]] \in Rows
  <2>1. [f \in fs |-> [before |-> b[f], after |-> a[f]]]
          \in [fs -> [before : Contents, after : Contents]]
    OBVIOUS
  <2> QED BY <2>1 DEF Rows
<1> QED BY <1>1, <1>2, <1>3, <1>4

\* A set of numbers has a least one.
LEMMA LeastElement ==
    ASSUME NEW S \in SUBSET Nat, S # {}
    PROVE  \E x \in S : \A y \in S : x <= y
<1>1. PICK x \in S : \A y \in S : ~(<<y, x>> \in OpToRel(<, Nat))
  BY NatLessThanWellFounded, WFMin
<1>2. \A y \in S : ~(y < x)
  BY <1>1 DEF OpToRel
<1> QED BY <1>2

\* If a row is left there is a first one.
LEMMA FirstExists ==
    ASSUME NEW p \in Rows, NEW n \in Nat, \E f \in DOMAIN p : f >= n
    PROVE  (CHOOSE f \in First(p, n) : TRUE) \in First(p, n)
<1>1. DOMAIN p \subseteq Nat
  BY RowsTyped DEF Files
<1>2. PICK x \in {f \in DOMAIN p : f >= n} : \A y \in {f \in DOMAIN p : f >= n} : x <= y
  <2>1. {f \in DOMAIN p : f >= n} \in SUBSET Nat /\ {f \in DOMAIN p : f >= n} # {}
    BY <1>1
  <2> HIDE <1>1
  <2> QED BY <2>1, LeastElement
<1>3. x \in First(p, n)
  BY <1>2 DEF First
<1> QED BY <1>3

\* A call is told by its label and its kind, and has the fields they call for.
LEMMA ShapeOf ==
    ASSUME NEW r \in JobShapes
    PROVE  /\ r.kind = "none" <=> r = NoJob
           /\ r # NoJob => r.task \in Tasks
           /\ r \in Publishing <=> r # NoJob /\ r.at \in {"look", "copy", "write", "merge"}
           /\ r \in Comparing <=> r # NoJob /\ r.at = "compare"
           /\ r \in Launching <=> r # NoJob /\ r.kind = "launch"
           /\ r \in Resolving <=> r # NoJob /\ r.kind = "resolve"
           /\ r \in Waiting => r # NoJob /\ r.at = "queue"
           /\ r # NoJob /\ r.at \in {"fetch", "record"} => r \in Resolving
           /\ r # NoJob /\ r.at = "queue" => r \in Waiting \/ r \in Resolving
           /\ r \in Publishing => r.kind \in {"evaluate", "review", "publish", "recover"}
                /\ r.ws \in Copies /\ r.file \in Files
           /\ r \in Comparing => r.kind \in {"evaluate", "review", "publish"} /\ r.ws \in Copies
                /\ r.saw \in [Files -> Contents]
           /\ r \in Launching => r.at = "start" /\ r.ws \in Copies
           /\ r \in Resolving => r.at \in {"queue", "fetch", "record"} /\ r.ws \in Copies
                /\ r.file \in Files
                 /\ r.expected \in Contents /\ r.theirs \in BOOLEAN
<1>1. r = NoJob \/ r \in Waiting \/ r \in Launching \/ r \in Comparing \/ r \in Publishing
        \/ r \in Resolving
  BY DEF JobShapes
<1>2. r = NoJob => r.kind = "none" /\ r \notin Waiting /\ r \notin Launching /\ r \notin Comparing
        /\ r \notin Publishing /\ r \notin Resolving
  BY DEF NoJob, Waiting, Launching, Comparing, Publishing, Resolving
<1>3. r \in Waiting => r.kind \in {"evaluate", "review", "publish"} /\ r.task \in Tasks
        /\ r.at = "queue"
  BY DEF Waiting
<1>4. r \in Launching => r.kind = "launch" /\ r.task \in Tasks /\ r.at = "start" /\ r.ws \in Copies
  BY DEF Launching
<1>5. r \in Comparing => r.kind \in {"evaluate", "review", "publish"} /\ r.task \in Tasks
        /\ r.at = "compare" /\ r.ws \in Copies
        /\ r.saw \in [Files -> Contents]
  BY DEF Comparing
<1>6. r \in Publishing => r.kind \in {"evaluate", "review", "publish", "recover"}
        /\ r.task \in Tasks
         /\ r.at \in {"look", "copy", "write", "merge"} /\ r.ws \in Copies /\ r.file \in Files
  BY DEF Publishing
<1>7. r \in Resolving => r.kind = "resolve" /\ r.task \in Tasks
        /\ r.at \in {"queue", "fetch", "record"} /\ r.ws \in Copies
         /\ r.file \in Files /\ r.expected \in Contents /\ r.theirs \in BOOLEAN
  BY DEF Resolving
<1> QED BY <1>1, <1>2, <1>3, <1>4, <1>5, <1>6, <1>7

\* The invariant holds of the initial state.
LEMMA WsStarts ==
    ASSUME Init PROVE WsInv
<1> USE DEF Init
<1>1. Typed
  <2>1. [f \in Files |-> "old"] \in [Files -> Contents]
    BY DEF Contents
  <2>2. [base |-> [f \in Files |-> "old"], pending |-> NoRows] \in Copies
    BY <2>1, RowsTyped DEF Copies
  <2>3. NoJob \in JobShapes
    BY DEF JobShapes
  <2>4. {"old"} \in SUBSET Contents
    BY DEF Contents
  <2> QED BY <2>1, <2>2, <2>3, <2>4 DEF Typed, Statuses
<1>2. \A j \in Jobs : job[j] = NoJob
  OBVIOUS
<1>3. NoJob.kind = "none" /\ NoJob \notin Waiting /\ NoJob \notin Launching
        /\ NoJob \notin Comparing
       /\ NoJob \notin Publishing /\ NoJob \notin Resolving
  BY DEF NoJob, Waiting, Launching, Comparing, Publishing, Resolving
<1>4. \A t \in Tasks : ~Pending(t)
  BY DEF Pending
<1>5. Locked
  BY <1>2, <1>3 DEF Locked, Jobs
<1>6. Knowledge
  BY <1>2, <1>3, RowsTyped DEF Knowledge, Knows
<1> QED BY <1>1, <1>2, <1>3, <1>4, <1>5, <1>6
           DEF WsInv, Quiet, Looked, Progressed, Fresh, Exact, Fetched,
       LookedAt, ProgressedAt, FreshAt, FetchedAt

-----------------------------------------------------------------------------

\* What every step of the call that holds the lock leaves to be shown of the
\* variables but `job' and `lock'.
AllTyped ==
    /\ current' \in BOOLEAN /\ status' \in [Tasks -> Statuses]
    /\ ws' \in [Tasks -> Copies] /\ stage' \in [Tasks -> [Files -> Contents]]
    /\ project' \in [Files -> Contents] /\ recovering' \subseteq recovering
    /\ known' \in [Tasks -> [Files -> SUBSET Contents]]
    /\ \A t \in Tasks, f \in Files : known[t][f] \subseteq known'[t][f]
    /\ \A t \in recovering' : ws'[t] = ws[t]
    /\ \A t \in Tasks : Knows(t, ws[t])'

\* While a call holds the lock, or nobody does, the others wait or launch.
LEMMA Idle ==
    ASSUME Typed, Locked, NEW j \in Jobs, lock \in {0, j}, NEW k \in Jobs, k # j
    PROVE  /\ job[k] = NoJob \/ job[k].at \in {"queue", "start"}
           /\ job[k] \notin Publishing /\ job[k] \notin Comparing
           /\ job[k] \in Resolving => job[k].at = "queue"
<1>1. job[k] \in JobShapes
  BY DEF Typed
<1>2. lock # k
  BY DEF Jobs
<1>3. job[k] = NoJob \/ job[k].at \in {"queue", "start"}
  BY <1>2 DEF Locked
<1> QED BY <1>1, <1>3, ShapeOf

\* A call that does not move knows what it knew.
LEMMA OtherJobsKnow ==
    ASSUME Typed, Knowledge, AllTyped, NEW k \in Jobs, job'[k] = job[k],
           job[k] \in Launching \cup Comparing \cup Publishing \cup Resolving
    PROVE  Knows(job[k].task, job[k].ws)'
<1>1. job[k] \in JobShapes
  BY DEF Typed
<1>2. job[k].task \in Tasks /\ job[k].ws \in Copies
  BY <1>1, ShapeOf
<1>3. Knows(job[k].task, job[k].ws)
  BY DEF Knowledge
<1>4. \A f \in Files : known[job[k].task][f] \subseteq known'[job[k].task][f]
  BY <1>2 DEF AllTyped
<1> QED BY <1>2, <1>3, <1>4 DEF Knows

\* A step of the call that holds, takes or leaves the lock keeps the invariant if
\* it does for that call.
LEMMA Moves ==
    ASSUME WsInv, AllTyped, NEW j \in Jobs, NEW r \in JobShapes, lock \in {0, j},
           job' = [job EXCEPT ![j] = r],
           \/ r = NoJob /\ lock' = 0
           \/ r # NoJob /\ r.at \notin {"queue", "start"} /\ lock' = j,
           recovering' # {} => r.kind \in {"none", "recover"},
           r \in Publishing => r.file \in DOMAIN r.ws.pending,
           r \in Resolving /\ r.at = "fetch" => r.theirs,
           r \in Launching \cup Comparing \cup Publishing \cup Resolving => Knows(r.task, r.ws)',
           r # NoJob => LookedAt(j)' /\ ProgressedAt(j)' /\ FreshAt(j)' /\ FetchedAt(j)',
           Exact'
    PROVE  WsInv'
<1>0. Typed /\ Locked /\ Knowledge /\ Quiet
  BY DEF WsInv
<1>1. job'[j] = r /\ \A k \in Jobs : k # j => job'[k] = job[k]
  BY <1>0 DEF Typed
<1>2. Typed'
  BY <1>0 DEF Typed, AllTyped
<1>3. \A k \in Jobs : k # j =>
         /\ job'[k] = NoJob \/ job'[k].at \in {"queue", "start"}
         /\ job'[k] \notin Publishing /\ job'[k] \notin Comparing
         /\ job'[k] \in Resolving => job'[k].at = "queue"
  BY <1>0, <1>1, Idle
<1>4. NoJob \notin Publishing /\ NoJob \notin Comparing /\ NoJob \notin Resolving
        /\ NoJob \notin Launching
  BY DEF NoJob, Publishing, Comparing, Resolving, Launching
<1>5. Locked'
  <2>1. lock' \in 0..Slots
    BY DEF Jobs
  <2>2. \A k \in Jobs : (lock' = k) <=> (job'[k] # NoJob /\ job'[k].at \notin {"queue", "start"})
    BY <1>1, <1>3 DEF Jobs
  <2>3. \A k \in Jobs : job'[k] \in Publishing => job'[k].file \in DOMAIN job'[k].ws.pending
    BY <1>1, <1>3, <1>4
  <2>4. \A k \in Jobs : job'[k] \in Resolving /\ job'[k].at = "fetch" => job'[k].theirs
    BY <1>1, <1>3, <1>4
  <2> QED BY <2>1, <2>2, <2>3, <2>4 DEF Locked
<1>6. Quiet'
  <2>1. \A t \in recovering' : Pending(t)'
    BY <1>0 DEF Quiet, AllTyped, Pending
  <2>2. recovering' # {} => \A k \in Jobs : job'[k].kind \in {"none", "recover"}
    BY <1>0, <1>1 DEF Quiet, AllTyped
  <2> QED BY <2>1, <2>2 DEF Quiet
<1>7. Knowledge'
  <2>1. \A t \in Tasks : Knows(t, ws[t])'
    BY DEF AllTyped
  <2>2. ASSUME NEW k \in Jobs, job'[k] \in Launching \cup Comparing \cup Publishing \cup Resolving
        PROVE  Knows(job[k].task, job[k].ws)'
    <3>1. CASE k = j
      BY <3>1, <2>2, <1>1, <1>4
    <3>2. CASE k # j
      BY <3>2, <2>2, <1>0, <1>1, OtherJobsKnow
    <3> QED BY <3>1, <3>2
  <2> QED BY <2>1, <2>2 DEF Knowledge
<1>8. ASSUME NEW k \in Jobs
      PROVE  LookedAt(k)' /\ ProgressedAt(k)' /\ FreshAt(k)' /\ FetchedAt(k)'
  <2>1. CASE k = j /\ r # NoJob
    BY <2>1
  <2>2. CASE k # j \/ r = NoJob
    <3>1. job'[k] \notin Publishing /\ job'[k] \notin Comparing
      BY <2>2, <1>1, <1>3, <1>4
    <3>2. ~(job'[k] \in Resolving /\ job'[k].at = "record")
      BY <2>2, <1>1, <1>3, <1>4
    <3> QED BY <3>1, <3>2 DEF LookedAt, ProgressedAt, FreshAt, FetchedAt
  <2> QED BY <2>1, <2>2
<1> QED BY <1>2, <1>5, <1>6, <1>7, <1>8 DEF WsInv, Looked, Progressed, Fresh, Fetched

-----------------------------------------------------------------------------

\* taskState keeps the type of `status'.
LEMMA StatusTyped ==
    ASSUME Typed, NEW t \in Tasks, NEW s \in Statuses, SetStatus(t, s)
    PROVE  status' \in [Tasks -> Statuses]
BY DEF Typed, SetStatus

\* A call that returns before it has changed a record keeps the invariant.
LEMMA Leaves ==
    ASSUME WsInv, NEW j \in Jobs, lock \in {0, j}, job[j] # NoJob, Leave(j),
           status' \in [Tasks -> Statuses],
           UNCHANGED <<current, ws, stage, project, known>>,
           ~current \/ (job[j].at # "record" /\ touched' = touched)
    PROVE  WsInv'
<1>0. Typed /\ Locked /\ Knowledge /\ Quiet /\ Exact
  BY DEF WsInv
<1>1. /\ job' = [job EXCEPT ![j] = NoJob] /\ lock' = 0 /\ recovering' \subseteq recovering
  BY DEF Leave
<1>4. AllTyped
  <2>1. \A t \in Tasks : Knows(t, ws[t])'
    BY <1>0 DEF Knowledge, Knows
  <2> QED BY <2>1, <1>0, <1>1 DEF AllTyped, Typed
<1>5. NoJob \in JobShapes /\ NoJob.kind = "none" /\ NoJob \notin Publishing
        /\ NoJob \notin Comparing
      /\ NoJob \notin Resolving /\ NoJob \notin Launching
  BY DEF JobShapes, NoJob, Publishing, Comparing, Resolving, Launching
<1>6. Exact'
  <2>1. CASE ~current
    BY <2>1 DEF Exact
  <2>2. CASE current /\ job[j].at # "record" /\ touched' = touched
    <3>1. \A t \in Tasks, f \in Files : Recording(t, f) => Recording(t, f)'
      BY <2>2, <1>0, <1>1 DEF Recording, Typed
    <3>2. \A t \in Tasks : Pending(t)' = Pending(t)
      BY DEF Pending
    <3>3. \A t \in Tasks : Published(ws[t])' = Published(ws[t])
      BY DEF Published
    <3> QED BY <2>2, <3>1, <3>2, <3>3, <1>0 DEF Exact
  <2> QED BY <2>1, <2>2
<1> QED BY <1>1, <1>4, <1>5, <1>6, Moves

\* The same for a publication or a resolution that returns or throws.
LEMMA Ends ==
    ASSUME WsInv, NEW j \in Jobs, lock \in {0, j}, job[j] # NoJob, Throw(j) \/ Done(j),
           UNCHANGED <<current, ws, stage, project, known>>,
           ~current \/ (job[j].at # "record" /\ touched' = touched)
    PROVE  WsInv'
<1>1. Typed
  BY DEF WsInv
<1>2. job[j].task \in Tasks
  BY <1>1, ShapeOf DEF Typed
<1>3. "blocked" \in Statuses /\ "accepted" \in Statuses
  BY DEF Statuses
<1>4. status' = status \/ SetStatus(job[j].task, "blocked") \/ SetStatus(job[j].task, "accepted")
  BY DEF Throw, Done
<1>5. status' \in [Tasks -> Statuses]
  BY <1>1, <1>2, <1>3, <1>4, StatusTyped DEF Typed
<1>6. Leave(j)
  BY DEF Throw, Done
<1> QED BY <1>5, <1>6, Leaves

\* What is not before a number's successor is at it or after.
LEMMA Beyond ==
    ASSUME NEW a \in Nat, NEW b \in Nat
    PROVE  a + 1 \in Nat /\ (b <= a \/ b >= a + 1)
OBVIOUS

\* r is the publication x at label c of row g.
Relabelled(r, x, c, g) ==
    /\ [x EXCEPT !.at = c, !.file = g] = r /\ r.kind = x.kind /\ r.task = x.task
    /\ r.at = c /\ r.ws = x.ws /\ r.file = g

\* A publication that is given a label and a row is one.
LEMMA NewLabel ==
    ASSUME NEW x \in Publishing, NEW c \in {"look", "copy", "write", "merge"}, NEW g \in Files
    PROVE  \E r \in Publishing : Relabelled(r, x, c, g)
<1> DEFINE y == [kind |-> x.kind, task |-> x.task, at |-> c, ws |-> x.ws, file |-> x.file]
           r == [kind |-> x.kind, task |-> x.task, at |-> c, ws |-> x.ws, file |-> g]
<1>1. /\ x.kind \in {"evaluate", "review", "publish", "recover"} /\ x.task \in Tasks
      /\ x.ws \in Copies
  BY DEF Publishing
<1>2. x = [kind |-> x.kind, task |-> x.task, at |-> x.at, ws |-> x.ws, file |-> x.file]
  BY DEF Publishing
<1>3. [x EXCEPT !.at = c] = y
  BY <1>2
<1>4. [x EXCEPT !.at = c, !.file = g] = [[x EXCEPT !.at = c] EXCEPT !.file = g]
  OBVIOUS
<1>5. [y EXCEPT !.file = g] = r
  OBVIOUS
<1>6. r \in Publishing
  BY <1>1 DEF Publishing
<1>7. r.kind = x.kind /\ r.task = x.task /\ r.at = c /\ r.ws = x.ws /\ r.file = g
  OBVIOUS
<1>8. [x EXCEPT !.at = c, !.file = g] = r
  <2> HIDE DEF y, r
  <2> QED BY <1>3, <1>4, <1>5, Zenon
<1> HIDE DEF r
<1> QED BY <1>6, <1>7, <1>8 DEF Relabelled

\* A publication that is given a label is one.
LEMMA Goes ==
    ASSUME Typed, NEW j \in Jobs, job[j] \in Publishing,
           NEW c \in {"look", "copy", "write", "merge"},
           job' = [job EXCEPT ![j].at = c]
    PROVE  \E r \in Publishing :
              /\ job' = [job EXCEPT ![j] = r] /\ r.kind = job[j].kind /\ r.task = job[j].task
              /\ r.at = c /\ r.ws = job[j].ws /\ r.file = job[j].file
<1> DEFINE r == [kind |-> job[j].kind, task |-> job[j].task, at |-> c, ws |-> job[j].ws,
      file |-> job[j].file]
<1>1. /\ job[j].kind \in {"evaluate", "review", "publish", "recover"} /\ job[j].task \in Tasks
      /\ job[j].ws \in Copies /\ job[j].file \in Files
  BY DEF Publishing
<1>2. job[j] = [kind |-> job[j].kind, task |-> job[j].task, at |-> job[j].at, ws |-> job[j].ws,
        file |-> job[j].file]
  BY DEF Publishing
<1>3. [job[j] EXCEPT !.at = c] = r
  BY <1>2
<1>4. job' = [job EXCEPT ![j] = [job[j] EXCEPT !.at = c]]
  OBVIOUS
<1>5. r \in Publishing
  BY <1>1 DEF Publishing
<1>6. job' = [job EXCEPT ![j] = r]
  BY <1>3, <1>4
<1> QED BY <1>5, <1>6

\* After a row comes the next, or the merge: no row is skipped (finishPublish).
LEMMA NextRow ==
    ASSUME Typed, Locked, NEW j \in Jobs, job[j] \in Publishing, Advance(j)
    PROVE  \E r \in Publishing :
              /\ job' = [job EXCEPT ![j] = r] /\ r.kind = job[j].kind /\ r.task = job[j].task
              /\ r.at \in {"look", "merge"} /\ r.ws = job[j].ws /\ r.file \in DOMAIN r.ws.pending
              /\ \A f \in DOMAIN r.ws.pending : r.at = "merge" \/ f < r.file => f <= job[j].file
<1> DEFINE p == job[j].ws.pending
<1>1. p \in Rows /\ job[j].file \in DOMAIN p /\ job[j].file \in Files
  BY DEF Locked, Publishing, Copies
<1>2. DOMAIN p \subseteq Files /\ Files \subseteq Nat
  BY <1>1, RowsTyped DEF Files
<1> DEFINE left == First(p, job[j].file + 1)
<1>3. CASE left = {}
  <2>1. job' = [job EXCEPT ![j].at = "merge"]
    BY <1>3 DEF Advance
  <2>2. \A f \in DOMAIN p : f <= job[j].file
    <3>1. ASSUME NEW f \in DOMAIN p, ~(f <= job[j].file) PROVE FALSE
      <4>0. f \in Nat /\ job[j].file \in Nat
        BY <1>1, <1>2
      <4>1. f >= job[j].file + 1 /\ job[j].file + 1 \in Nat
        BY <3>1, <4>0, Beyond
      <4>2. (CHOOSE g \in First(p, job[j].file + 1) : TRUE) \in First(p, job[j].file + 1)
        <5> HIDE DEF p
        <5> QED BY <4>1, <1>1, FirstExists
      <4> QED BY <4>2, <1>3
    <3> QED BY <3>1
  <2>3. PICK r \in Publishing :
              /\ job' = [job EXCEPT ![j] = r] /\ r.kind = job[j].kind /\ r.task = job[j].task
              /\ r.at = "merge" /\ r.ws = job[j].ws /\ r.file = job[j].file
    BY <2>1, Goes
  <2> QED BY <2>2, <2>3, <1>1
<1>4. CASE left # {}
  <2> DEFINE g == CHOOSE f \in left : TRUE
  <2>1. job' = [job EXCEPT ![j].at = "look", ![j].file = g]
    BY <1>4 DEF Advance
  <2>2. g \in left
    BY <1>4
  <2>3. g \in DOMAIN p /\ g \in Files /\ \A f \in DOMAIN p : f >= job[j].file + 1 => g <= f
    BY <2>2, <1>2 DEF First
  <2> HIDE DEF g
  <2>4. PICK r \in Publishing :
              /\ job' = [job EXCEPT ![j] = r] /\ r.kind = job[j].kind /\ r.task = job[j].task
              /\ r.at = "look" /\ r.ws = job[j].ws /\ r.file = g
    <3>1. job' = [job EXCEPT ![j] = [job[j] EXCEPT !.at = "look", !.file = g]]
      BY <2>1
    <3> DEFINE x == job[j]
    <3>2. PICK r \in Publishing : Relabelled(r, x, "look", g)
      <4>1. "look" \in {"look", "copy", "write", "merge"} /\ g \in Files /\ x \in Publishing
        BY <2>3
      <4> HIDE DEF x
      <4> QED BY <4>1, NewLabel, Zenon
    <3> QED BY <3>1, <3>2 DEF Relabelled
  <2>5. \A f \in DOMAIN p : f < g => f <= job[j].file
    <3>1. job[j].file \in Nat /\ g \in Nat /\ \A f \in DOMAIN p : f \in Nat
      BY <2>3, <1>1, <1>2
    <3> DEFINE h == job[j].file
    <3>2. h \in Nat /\ \A f \in DOMAIN p : f >= h + 1 => g <= f
      BY <2>3, <3>1
    <3>3. \A f \in DOMAIN p : f < g => f <= h
      <4> HIDE DEF p, h
      <4> QED BY <3>1, <3>2
    <3> QED BY <3>3
  <2> QED BY <2>3, <2>4, <2>5
<1> QED BY <1>3, <1>4

-----------------------------------------------------------------------------

\* What leaves record and copy alone keeps Exact.
LEMMA ExactKept ==
    ASSUME Exact, UNCHANGED <<current, ws, stage>>, touched \subseteq touched',
           \A t \in Tasks, f \in Files : Recording(t, f) => Recording(t, f)'
    PROVE  Exact'
<1>1. \A t \in Tasks : Pending(t)' = Pending(t)
  BY DEF Pending
<1>2. \A t \in Tasks : Published(ws[t])' = Published(ws[t])
  BY DEF Published
<1> QED BY <1>1, <1>2 DEF Exact

\* A call that was not about to record is none the others wait for.
LEMMA NotRecording ==
    ASSUME Typed, NEW j \in Jobs, NEW r \in JobShapes, job' = [job EXCEPT ![j] = r],
           job[j] = NoJob \/ job[j].at # "record"
    PROVE  \A t \in Tasks, f \in Files : Recording(t, f) => Recording(t, f)'
<1>1. NoJob \notin Resolving
  BY DEF NoJob, Resolving
<1> QED BY <1>1 DEF Recording, Typed

\* A publication that goes on with the same record keeps the invariant.
LEMMA Onward ==
    ASSUME WsInv, NEW j \in Jobs, job[j] \in Publishing, NEW r \in Publishing,
           job' = [job EXCEPT ![j] = r], r.kind = job[j].kind, r.task = job[j].task,
             r.ws = job[j].ws,
           r.file \in DOMAIN r.ws.pending,
           UNCHANGED <<current, status, ws, stage, lock, recovering, touched>>,
           project' \in [Files -> Contents], known' \in [Tasks -> [Files -> SUBSET Contents]],
           \A t \in Tasks, f \in Files : known[t][f] \subseteq known'[t][f],
           LookedAt(j)', ProgressedAt(j)'
    PROVE  WsInv'
<1>0. Typed /\ Locked /\ Knowledge /\ Quiet /\ Exact /\ FreshAt(j)
  BY DEF WsInv, Fresh
<1>1. job'[j] = r
  BY <1>0 DEF Typed
<1>2. /\ job[j] # NoJob /\ job[j].at \in {"look", "copy", "write", "merge"} /\ job[j] \in JobShapes
      /\ job[j].kind # "none" /\ job[j].task \in Tasks /\ job[j].ws \in Copies
  BY <1>0, ShapeOf DEF JobShapes
<1>3. /\ r # NoJob /\ r.at \in {"look", "copy", "write", "merge"} /\ r \in JobShapes
      /\ r \notin Resolving /\ r \notin Comparing
  <2>1. r \in JobShapes
    BY DEF JobShapes
  <2>2. r.kind # "resolve" /\ r.at # "compare"
    BY DEF Publishing
  <2> QED BY <2>1, <2>2, ShapeOf
<1>4. lock = j /\ lock' = j
  BY <1>0, <1>2 DEF Locked
<1>5. \A t \in Tasks : Knows(t, ws[t])'
  BY <1>0 DEF Knows, Knowledge
<1>6. AllTyped
  BY <1>0, <1>5 DEF AllTyped, Typed
<1>7. Knows(r.task, r.ws)'
  <2>1. Knows(job[j].task, job[j].ws)
    BY <1>0 DEF Knowledge
  <2> QED BY <2>1, <1>2, <1>6 DEF Knows, AllTyped
<1>8. recovering' # {} => r.kind \in {"none", "recover"}
  BY <1>0 DEF Quiet
<1>9. FreshAt(j)'
  BY <1>0, <1>1, <1>2, <1>3 DEF FreshAt
<1>10. FetchedAt(j)'
  BY <1>1, <1>3 DEF FetchedAt
<1>11. Exact'
  <2>1. \A t \in Tasks, f \in Files : Recording(t, f) => Recording(t, f)'
    BY <1>0, <1>2, <1>3, NotRecording
  <2> QED BY <2>1, <1>0, ExactKept
<1> QED BY <1>3, <1>4, <1>6, <1>7, <1>8, <1>9, <1>10, <1>11, Moves

\* What a publication under the lock may rely on.
LEMMA Publishes ==
    ASSUME WsInv, NEW j \in Jobs, job[j] # NoJob, job[j].at \in {"look", "copy", "write", "merge"}
    PROVE  /\ job[j] \in Publishing /\ lock = j /\ job[j].task \in Tasks /\ job[j].ws \in Copies
           /\ job[j].file \in Files /\ job[j].file \in DOMAIN job[j].ws.pending
           /\ Row(j).before \in Contents /\ Row(j).after \in Contents
           /\ DOMAIN job[j].ws.pending \subseteq Files
<1>1. Typed /\ Locked
  BY DEF WsInv
<1>2. job[j] \in JobShapes
  BY <1>1 DEF Typed
<1>3. job[j] \in Publishing /\ job[j].task \in Tasks /\ job[j].ws \in Copies
        /\ job[j].file \in Files
  BY <1>2, ShapeOf
<1>4. lock = j /\ job[j].file \in DOMAIN job[j].ws.pending
  BY <1>1, <1>3 DEF Locked
<1>5. job[j].ws.pending \in Rows
  BY <1>3 DEF Copies
<1> QED BY <1>3, <1>4, <1>5, RowsTyped DEF Row

\* Look keeps the invariant.
LEMMA LookStep ==
    ASSUME WsInv, NEW j \in Jobs, Look(j)
    PROVE  WsInv'
<1>0. Typed /\ Locked /\ LookedAt(j) /\ ProgressedAt(j)
  BY DEF WsInv, Looked, Progressed
<1>1. job[j] # NoJob /\ job[j].at = "look"
  BY DEF Look, At
<1>2. /\ job[j] \in Publishing /\ lock = j /\ job[j].task \in Tasks /\ job[j].ws \in Copies
      /\ job[j].file \in Files /\ job[j].file \in DOMAIN job[j].ws.pending
      /\ DOMAIN job[j].ws.pending \subseteq Files
  BY <1>1, Publishes
<1>3. UNCHANGED <<current, ws, stage, project, known, foreign, touched>> /\ raced' = raced \ {j}
        /\ late' = late
  BY DEF Look
<1>4. CASE Throw(j)
  BY <1>1, <1>2, <1>3, <1>4, Ends
<1>5. CASE ~Throw(j) /\ project[job[j].file] = Row(j).after
  <2>1. Advance(j) /\ UNCHANGED <<status, lock, recovering>>
    BY <1>5 DEF Look
  <2>2. PICK r \in Publishing :
              /\ job' = [job EXCEPT ![j] = r] /\ r.kind = job[j].kind /\ r.task = job[j].task
              /\ r.at \in {"look", "merge"} /\ r.ws = job[j].ws /\ r.file \in DOMAIN r.ws.pending
              /\ \A f \in DOMAIN r.ws.pending : r.at = "merge" \/ f < r.file => f <= job[j].file
    BY <2>1, <1>0, <1>2, NextRow
  <2>3. job'[j] = r
    BY <2>2, <1>0 DEF Typed
  <2>4. LookedAt(j)'
    BY <2>2, <2>3 DEF LookedAt
  <2>5. ProgressedAt(j)'
    <3>1. ASSUME NEW f \in DOMAIN r.ws.pending, r.at = "merge" \/ f < r.file
          PROVE  project[f] = r.ws.pending[f].after \/ f \in foreign
      <4>1. f <= job[j].file /\ f \in Files
        BY <3>1, <2>2, <1>2
      <4>2. f < job[j].file \/ f = job[j].file
        BY <4>1, <1>2 DEF Files
      <4>3. f < job[j].file => project[f] = r.ws.pending[f].after \/ f \in foreign
        BY <1>0, <1>2, <2>2 DEF ProgressedAt
      <4>4. f = job[j].file => project[f] = r.ws.pending[f].after
        BY <1>5, <2>2 DEF Row
      <4> QED BY <4>2, <4>3, <4>4
    <3> QED BY <3>1, <2>3, <1>3 DEF ProgressedAt
  <2> QED BY <2>1, <2>2, <2>4, <2>5, <1>0, <1>2, <1>3, Onward DEF Typed
<1>6. CASE ~Throw(j) /\ project[job[j].file] # Row(j).after
  <2> DEFINE c == IF Row(j).after = "missing" THEN "write" ELSE "copy"
  <2>1. /\ Goto(j, c) /\ UNCHANGED <<status, lock, recovering>>
        /\ project[job[j].file] = Row(j).before /\ current
    BY <1>6 DEF Look
  <2>2. c \in {"look", "copy", "write", "merge"} /\ c # "merge"
    OBVIOUS
  <2> HIDE DEF c
  <2>3. PICK r \in Publishing :
              /\ job' = [job EXCEPT ![j] = r] /\ r.kind = job[j].kind /\ r.task = job[j].task
              /\ r.at = c /\ r.ws = job[j].ws /\ r.file = job[j].file
    BY <2>1, <2>2, <1>0, <1>2, Goes DEF Goto
  <2>4. job'[j] = r
    BY <2>3, <1>0 DEF Typed
  <2>5. LookedAt(j)'
    BY <2>1, <2>3, <2>4, <1>3 DEF LookedAt, Row
  <2>6. ProgressedAt(j)'
    BY <2>2, <2>3, <2>4, <1>0, <1>1, <1>2, <1>3 DEF ProgressedAt
  <2> QED BY <2>1, <2>3, <2>5, <2>6, <1>0, <1>2, <1>3, Onward DEF Typed
<1> QED BY <1>4, <1>5, <1>6

\* Copy keeps the invariant.
LEMMA CopyStep ==
    ASSUME WsInv, NEW j \in Jobs, Copy(j)
    PROVE  WsInv'
<1>0. Typed /\ Locked /\ LookedAt(j) /\ ProgressedAt(j)
  BY DEF WsInv, Looked, Progressed
<1>1. job[j] # NoJob /\ job[j].at = "copy"
  BY DEF Copy, At
<1>2. /\ job[j] \in Publishing /\ lock = j /\ job[j].task \in Tasks /\ job[j].ws \in Copies
      /\ job[j].file \in Files /\ job[j].file \in DOMAIN job[j].ws.pending
  BY <1>1, Publishes
<1>3. UNCHANGED <<current, ws, stage, project, known, foreign, raced, late, touched>>
  BY DEF Copy, history
<1>4. CASE Throw(j)
  BY <1>1, <1>2, <1>3, <1>4, Ends
<1>5. CASE ~Throw(j)
  <2>1. Goto(j, "write") /\ UNCHANGED <<status, lock, recovering>>
    BY <1>5 DEF Copy
  <2>3. PICK r \in Publishing :
              /\ job' = [job EXCEPT ![j] = r] /\ r.kind = job[j].kind /\ r.task = job[j].task
              /\ r.at = "write" /\ r.ws = job[j].ws /\ r.file = job[j].file
    BY <2>1, <1>0, <1>2, Goes DEF Goto
  <2>4. job'[j] = r
    BY <2>3, <1>0 DEF Typed
  <2>5. LookedAt(j)'
    BY <2>1, <2>3, <2>4, <1>0, <1>1, <1>2, <1>3 DEF LookedAt, Row
  <2>6. ProgressedAt(j)'
    BY <2>3, <2>4, <1>0, <1>1, <1>2, <1>3 DEF ProgressedAt
  <2> QED BY <2>1, <2>3, <2>5, <2>6, <1>0, <1>2, <1>3, Onward DEF Typed
<1> QED BY <1>4, <1>5

\* Write keeps the invariant.
LEMMA WriteStep ==
    ASSUME WsInv, NEW j \in Jobs, Write(j)
    PROVE  WsInv'
<1>0. Typed /\ Locked /\ LookedAt(j) /\ ProgressedAt(j)
  BY DEF WsInv, Looked, Progressed
<1>1. job[j] # NoJob /\ job[j].at = "write"
  BY DEF Write, At
<1>2. /\ job[j] \in Publishing /\ lock = j /\ job[j].task \in Tasks /\ job[j].ws \in Copies
      /\ job[j].file \in Files /\ job[j].file \in DOMAIN job[j].ws.pending
      /\ Row(j).after \in Contents /\ DOMAIN job[j].ws.pending \subseteq Files
  BY <1>1, Publishes
<1>3. UNCHANGED <<current, ws, stage, raced, late, touched>>
  BY DEF Write
<1>4. CASE Throw(j) /\ UNCHANGED <<project, known, foreign>>
  BY <1>1, <1>2, <1>3, <1>4, Ends
<1>5. CASE ~(Throw(j) /\ UNCHANGED <<project, known, foreign>>)
  <2>1. /\ project' = [project EXCEPT ![job[j].file] = Row(j).after]
        /\ known' = [known EXCEPT ![job[j].task][job[j].file] = @ \cup {Row(j).after}]
        /\ foreign' = foreign \ {job[j].file}
        /\ Advance(j) /\ UNCHANGED <<status, lock, recovering>>
    BY <1>5 DEF Write
  <2>2. PICK r \in Publishing :
              /\ job' = [job EXCEPT ![j] = r] /\ r.kind = job[j].kind /\ r.task = job[j].task
              /\ r.at \in {"look", "merge"} /\ r.ws = job[j].ws /\ r.file \in DOMAIN r.ws.pending
              /\ \A f \in DOMAIN r.ws.pending : r.at = "merge" \/ f < r.file => f <= job[j].file
    BY <2>1, <1>0, <1>2, NextRow
  <2>3. job'[j] = r
    BY <2>2, <1>0 DEF Typed
  <2>4. LookedAt(j)'
    BY <2>2, <2>3 DEF LookedAt
  <2>5. project' \in [Files -> Contents]
    BY <2>1, <1>0, <1>2 DEF Typed
  <2>6. /\ known' \in [Tasks -> [Files -> SUBSET Contents]]
        /\ \A t \in Tasks, f \in Files : known[t][f] \subseteq known'[t][f]
    BY <2>1, <1>0, <1>2 DEF Typed
  <2>7. ProgressedAt(j)'
    <3>1. ASSUME NEW f \in DOMAIN r.ws.pending, r.at = "merge" \/ f < r.file
          PROVE  project'[f] = r.ws.pending[f].after \/ f \in foreign'
      <4>1. f <= job[j].file /\ f \in Files
        BY <3>1, <2>2, <1>2
      <4>2. f < job[j].file \/ f = job[j].file
        BY <4>1, <1>2 DEF Files
      <4>3. f # job[j].file /\ f < job[j].file => project'[f] = r.ws.pending[f].after
              \/ f \in foreign'
        BY <1>0, <1>2, <2>1, <2>2, <4>1 DEF ProgressedAt, Typed
      <4>4. f = job[j].file => project'[f] = r.ws.pending[f].after
        BY <2>1, <2>2, <1>0, <1>2 DEF Row, Typed
      <4> QED BY <4>2, <4>3, <4>4
    <3> QED BY <3>1, <2>3 DEF ProgressedAt
  <2> HIDE <2>1
  <2>8. UNCHANGED <<status, lock, recovering>>
    BY <2>1
  <2> QED BY <2>8, <2>2, <2>4, <2>5, <2>6, <2>7, <1>0, <1>2, <1>3, Onward
<1> QED BY <1>4, <1>5

-----------------------------------------------------------------------------

\* Fails keeps the invariant.
LEMMA FailsStep ==
    ASSUME WsInv, NEW j \in Jobs, Fails(j)
    PROVE  WsInv'
<1>1. job[j] # NoJob /\ job[j].at \in {"copy", "write"}
  BY DEF Fails, At
<1>2. UNCHANGED <<current, ws, stage, project, known, foreign, raced, late, touched>> /\ Throw(j)
  BY DEF Fails, history
<1>3. lock = j
  BY <1>1, Publishes
<1> QED BY <1>1, <1>2, <1>3, Ends

\* A record whose publication has been merged is a record.
LEMMA PublishedTyped ==
    ASSUME NEW w \in Copies
    PROVE  Published(w) \in Copies /\ Published(w).pending = NoRows
<1> DEFINE b == [f \in Files |-> IF f \in DOMAIN w.pending THEN w.pending[f].after ELSE w.base[f]]
<1>1. w.base \in [Files -> Contents] /\ w.pending \in Rows
  BY DEF Copies
<1>2. b \in [Files -> Contents]
  BY <1>1, RowsTyped
<1>3. Published(w) = [base |-> b, pending |-> NoRows]
  BY DEF Published
<1> HIDE DEF b
<1> QED BY <1>2, <1>3, RowsTyped DEF Copies

\* A call that is over is of no kind.
LEMMA NoJobFacts ==
    /\ NoJob \in JobShapes /\ NoJob.kind = "none" /\ NoJob \notin Publishing
         /\ NoJob \notin Comparing
    /\ NoJob \notin Resolving /\ NoJob \notin Launching /\ NoJob \notin Waiting
BY DEF JobShapes, NoJob, Publishing, Comparing, Resolving, Launching, Waiting

\* Merge keeps the invariant.
LEMMA MergeStep ==
    ASSUME WsInv, NEW j \in Jobs, Merge(j)
    PROVE  WsInv'
<1>0. Typed /\ Locked /\ Knowledge /\ Quiet /\ Exact
  BY DEF WsInv
<1> DEFINE t == job[j].task
           w == Published(job[j].ws)
<1>1. job[j] # NoJob /\ job[j].at = "merge"
  BY DEF Merge, At
<1>2. /\ job[j] \in Publishing /\ lock = j /\ t \in Tasks /\ job[j].ws \in Copies
  BY <1>1, Publishes
<1>3. /\ job' = [job EXCEPT ![j] = NoJob] /\ lock' = 0
      /\ recovering' = IF job[j].kind = "recover" THEN recovering \ {t} ELSE recovering
      /\ UNCHANGED <<current, stage, project, touched>>
      /\ ws' = IF current THEN [ws EXCEPT ![t] = w] ELSE ws
      /\ known' = [known EXCEPT ![t] = [f \in Files |-> @[f] \cup {w.base[f]}]]
  BY DEF Merge, Done, Leave, SetWorkspace
<1>4. w \in Copies /\ w.pending = NoRows
  BY <1>2, PublishedTyped
<1> HIDE DEF t, w
<1>5. status' \in [Tasks -> Statuses]
  <2>1. "accepted" \in Statuses
    BY DEF Statuses
  <2>2. status' = status \/ SetStatus(t, "accepted")
    BY DEF Merge, Done, t
  <2> QED BY <2>1, <2>2, <1>0, <1>2, StatusTyped DEF Typed
<1>6. /\ known' \in [Tasks -> [Files -> SUBSET Contents]]
      /\ \A u \in Tasks, f \in Files : known[u][f] \subseteq known'[u][f]
      /\ \A f \in Files : w.base[f] \in known'[t][f]
  <2>1. w.base \in [Files -> Contents]
    BY <1>4 DEF Copies
  <2> QED BY <2>1, <1>0, <1>2, <1>3 DEF Typed
<1>7. ws' \in [Tasks -> Copies]
  BY <1>0, <1>2, <1>3, <1>4 DEF Typed
<1>8. \A u \in recovering' : ws'[u] = ws[u]
  <2>1. job[j].kind # "none"
    BY <1>2 DEF Publishing
  <2>2. job[j].kind # "recover" => recovering = {}
    BY <2>1, <1>0 DEF Quiet
  <2>3. recovering' \subseteq Tasks
    BY <1>0, <1>3 DEF Typed
  <2>4. t \notin recovering'
    BY <2>2, <1>3
  <2> QED BY <2>3, <2>4, <1>0, <1>3 DEF Typed
<1>9. ASSUME NEW u \in Tasks PROVE Knows(u, ws[u])'
  <2>1. CASE ws'[u] = ws[u]
    BY <2>1, <1>0, <1>6 DEF Knowledge, Knows
  <2>2. CASE ws'[u] # ws[u]
    <3>1. u = t /\ ws'[u] = w
      BY <2>2, <1>0, <1>2, <1>3 DEF Typed
    <3> QED BY <3>1, <1>4, <1>6, RowsTyped DEF Knows
  <2> QED BY <2>1, <2>2
<1>10. AllTyped
  BY <1>0, <1>3, <1>5, <1>6, <1>7, <1>8, <1>9 DEF AllTyped, Typed
<1>11. Exact'
  <2>1. \A u \in Tasks, f \in Files : Recording(u, f) => Recording(u, f)'
    BY <1>0, <1>1, <1>3, NoJobFacts, NotRecording
  <2>2. ASSUME current, NEW u \in Tasks, Pending(u)'
        PROVE  u \in touched' \/ \A f \in Files : stage'[u][f] = Published(ws[u])'.base[f]
                 \/ Recording(u, f)'
    <3>1. u # t
      BY <2>2, <1>0, <1>2, <1>3, <1>4 DEF Pending, Typed
    <3>2. ws'[u] = ws[u]
      BY <3>1, <1>0, <1>3 DEF Typed
    <3>3. Pending(u) /\ Published(ws[u])' = Published(ws[u])
      BY <2>2, <3>2 DEF Pending, Published
    <3> QED BY <3>3, <2>1, <2>2, <1>0, <1>3 DEF Exact
  <2> QED BY <2>2, <1>3 DEF Exact
<1> QED BY <1>2, <1>3, <1>10, <1>11, NoJobFacts, Moves

\* The first row of a publication is one of its rows, and none is before it.
LEMMA FirstRow ==
    ASSUME NEW w \in Copies, w.pending # NoRows
    PROVE  /\ (CHOOSE f \in First(w.pending, 1) : TRUE) \in DOMAIN w.pending
           /\ (CHOOSE f \in First(w.pending, 1) : TRUE) \in Files
           /\ \A f \in DOMAIN w.pending : ~(f < (CHOOSE g \in First(w.pending, 1) : TRUE))
<1> DEFINE p == w.pending
<1>1. p \in Rows
  BY DEF Copies
<1>2. DOMAIN p \subseteq Files /\ DOMAIN p # {}
  BY <1>1, RowsTyped
<1>3. \A f \in DOMAIN p : f \in Nat /\ f >= 1
  BY <1>2 DEF Files
<1> DEFINE g == CHOOSE f \in First(p, 1) : TRUE
<1>4. g \in First(p, 1)
  <2>1. 1 \in Nat /\ \E f \in DOMAIN p : f >= 1
    BY <1>2, <1>3
  <2> HIDE DEF p
  <2> QED BY <2>1, <1>1, FirstExists
<1>5. g \in DOMAIN p /\ \A f \in DOMAIN p : f >= 1 => g <= f
  BY <1>4 DEF First
<1> HIDE DEF g
<1>6. \A f \in DOMAIN p : ~(f < g)
  <2> HIDE DEF p
  <2> QED BY <1>3, <1>5
<1> QED BY <1>2, <1>5, <1>6 DEF g

\* r is the publication of record w at its first row (finishPublish).
Begun(r, k, t, w) ==
    /\ [kind |-> k, task |-> t, at |-> "look", ws |-> w,
        file |-> CHOOSE f \in First(w.pending, 1) : TRUE] = r
    /\ r.kind = k /\ r.task = t /\ r.at = "look" /\ r.ws = w /\ r.file \in DOMAIN w.pending
    /\ \A f \in DOMAIN w.pending : ~(f < r.file)

\* A publication begins with the first row.
LEMMA BeginsRows ==
    ASSUME NEW k \in {"evaluate", "review", "publish", "recover"}, NEW t \in Tasks,
           NEW w \in Copies, w.pending # NoRows
    PROVE  \E r \in Publishing : Begun(r, k, t, w)
<1> DEFINE g == CHOOSE f \in First(w.pending, 1) : TRUE
           r == [kind |-> k, task |-> t, at |-> "look", ws |-> w, file |-> g]
<1>1. g \in DOMAIN w.pending /\ g \in Files /\ \A f \in DOMAIN w.pending : ~(f < g)
  BY FirstRow
<1> HIDE DEF g
<1>2. r \in Publishing
  BY <1>1 DEF Publishing
<1>3. r.kind = k /\ r.task = t /\ r.at = "look" /\ r.ws = w /\ r.file = g
  OBVIOUS
<1>4. [kind |-> k, task |-> t, at |-> "look", ws |-> w,
        file |-> CHOOSE f \in First(w.pending, 1) : TRUE] = r
  BY DEF g
<1> HIDE DEF r
<1> QED BY <1>1, <1>2, <1>3, <1>4 DEF Begun

-----------------------------------------------------------------------------

\* A step that changes no record keeps what the tasks know.
LEMMA KnownKept ==
    ASSUME Typed, Knowledge, UNCHANGED <<ws, known>>
    PROVE  /\ \A t \in Tasks : Knows(t, ws[t])'
           /\ \A t \in Tasks, f \in Files : known[t][f] \subseteq known'[t][f]
BY DEF Knowledge, Knows

\* Enter keeps the invariant.
LEMMA EnterStep ==
    ASSUME WsInv, NEW j \in Jobs, Enter(j)
    PROVE  WsInv'
<1>0. Typed /\ Locked /\ Knowledge /\ Quiet /\ Exact
  BY DEF WsInv
<1>a. PICK t : t = job[j].task
  OBVIOUS
<1>1. job[j] # NoJob /\ job[j].at = "queue" /\ lock = 0
        /\ job[j].kind \in {"evaluate", "review", "publish"}
  BY DEF Enter, At
<1>2. t \in Tasks
  BY <1>a, <1>0, <1>1, ShapeOf DEF Typed
<1>3. UNCHANGED <<current, ws, stage, project, known, foreign, raced, late>>
  BY DEF Enter
<1>4. recovering = {}
  BY <1>0, <1>1 DEF Quiet
<1>5. CASE ~current
  <2>1. Throw(j)
    BY <1>5 DEF Enter
  <2> QED BY <2>1, <1>1, <1>3, <1>5, Ends
<1>6. CASE current /\ Pending(t)
  <2>1. /\ lock' = j /\ job' = [job EXCEPT ![j] = WithRows(j, ws[t])]
             /\ UNCHANGED <<status, recovering, touched>>
    BY <1>a, <1>6 DEF Enter
  <2>2. ws[t] \in Copies /\ ws[t].pending # NoRows
    BY <1>0, <1>2, <1>6 DEF Typed, Pending
  <2>3. PICK r \in Publishing :
              /\ WithRows(j, ws[t]) = r
              /\ r.kind = job[j].kind /\ r.task = t /\ r.at = "look" /\ r.ws = ws[t]
                   /\ r.file \in DOMAIN ws[t].pending
              /\ \A f \in DOMAIN ws[t].pending : ~(f < r.file)
    <3> DEFINE w == ws[t]
               k == job[j].kind
    <3>1. w \in Copies /\ w.pending # NoRows /\ k \in {"evaluate", "review", "publish", "recover"}
      BY <2>2, <1>1
    <3>2. \E r \in Publishing : Begun(r, k, t, w)
      <4> HIDE DEF w, k
      <4> QED BY <3>1, <1>2, BeginsRows
    <3> QED BY <3>2, <1>a DEF WithRows, Begun
  <2>4. job'[j] = r /\ job' = [job EXCEPT ![j] = r]
    BY <2>1, <2>3, <1>0 DEF Typed
  <2>5. r \in JobShapes /\ r # NoJob /\ r \notin Resolving /\ r \notin Comparing
    <3>1. r \in JobShapes
      BY DEF JobShapes
    <3> QED BY <3>1, <2>3, <1>1, ShapeOf, NoJobFacts
  <2>6. AllTyped
    BY <1>0, <1>3, <2>1, KnownKept DEF AllTyped, Typed
  <2>7. LookedAt(j)' /\ ProgressedAt(j)' /\ FreshAt(j)' /\ FetchedAt(j)'
    BY <2>3, <2>4, <2>5, <1>3 DEF LookedAt, ProgressedAt, FreshAt, FetchedAt
  <2>8. Knows(r.task, r.ws)'
    BY <2>3, <1>0, <1>2, <1>3 DEF Knowledge, Knows
  <2>9. Exact'
    <3>1. \A u \in Tasks, f \in Files : Recording(u, f) => Recording(u, f)'
      BY <1>0, <1>1, <2>4, <2>5, NotRecording
    <3> QED BY <3>1, <2>1, <1>0, <1>3, ExactKept
  <2> QED BY <2>1, <2>3, <2>4, <2>5, <2>6, <2>7, <2>8, <2>9, <1>1, <1>4, Moves
<1>7. CASE current /\ ~Pending(t)
  <2>r. PICK r : r = [kind |-> job[j].kind, task |-> t, at |-> "compare", ws |-> ws[t],
               saw |-> stage[t]]
    OBVIOUS
  <2>1. /\ lock' = j /\ job' = [job EXCEPT ![j] = r] /\ UNCHANGED <<status, recovering>>
        /\ touched' = touched \ {t}
    BY <1>a, <1>7, <2>r DEF Enter
  <2>2. ws[t] \in Copies /\ stage[t] \in [Files -> Contents]
    BY <1>0, <1>2 DEF Typed
  <2>3. r \in Comparing
    BY <2>r, <2>2, <1>1, <1>2 DEF Comparing
  <2>4. r.kind = job[j].kind /\ r.task = t /\ r.at = "compare" /\ r.ws = ws[t] /\ r.saw = stage[t]
    BY <2>r
  <2>5. job'[j] = r
    BY <2>1, <1>0 DEF Typed
  <2>6. r \in JobShapes /\ r # NoJob /\ r \notin Resolving /\ r \notin Publishing
    <3>1. r \in JobShapes
      BY <2>3 DEF JobShapes
    <3> QED BY <3>1, <2>3, <2>4, <1>1, ShapeOf, NoJobFacts
  <2>7. AllTyped
    BY <1>0, <1>3, <2>1, KnownKept DEF AllTyped, Typed
  <2>8. LookedAt(j)' /\ ProgressedAt(j)' /\ FetchedAt(j)'
    BY <2>5, <2>6 DEF LookedAt, ProgressedAt, FetchedAt
  <2>9. FreshAt(j)'
    BY <2>4, <2>5, <1>3, <1>7 DEF FreshAt, Pending
  <2>10. Knows(r.task, r.ws)'
    BY <2>4, <1>0, <1>2, <1>3 DEF Knowledge, Knows
  <2>11. Exact'
    <3>1. \A u \in Tasks, f \in Files : Recording(u, f) => Recording(u, f)'
      BY <1>0, <1>1, <2>1, <2>6, NotRecording
    <3>2. \A u \in Tasks : Pending(u)' = Pending(u) /\ Published(ws[u])' = Published(ws[u])
      BY <1>3 DEF Pending, Published
    <3>3. \A u \in Tasks : Pending(u) /\ u \in touched => u \in touched'
      BY <2>1, <1>7
    <3> QED BY <3>1, <3>2, <3>3, <1>0, <1>3 DEF Exact
  <2> QED BY <2>1, <2>3, <2>4, <2>6, <2>7, <2>8, <2>9, <2>10, <2>11, <1>1, <1>4, Moves
<1> QED BY <1>5, <1>6, <1>7

\* Compare keeps the invariant: what it records is what it has compared.
LEMMA CompareStep ==
    ASSUME WsInv, NEW j \in Jobs, Compare(j)
    PROVE  WsInv'
<1>0. Typed /\ Locked /\ Knowledge /\ Quiet /\ Exact /\ FreshAt(j)
  BY DEF WsInv, Fresh
<1>a. PICK t, w, saw : t = job[j].task /\ w = job[j].ws /\ saw = job[j].saw
  OBVIOUS
<1> DEFINE rows == [f \in Changed(w, saw) |-> [before |-> w.base[f], after |-> saw[f]]]
<1>b. PICK next : next = [w EXCEPT !.pending = rows]
  OBVIOUS
<1>1. job[j] # NoJob /\ job[j].at = "compare"
  BY DEF Compare, At
<1>2. /\ job[j] \in Comparing /\ t \in Tasks /\ w \in Copies /\ saw \in [Files -> Contents]
      /\ job[j].kind \in {"evaluate", "review", "publish"} /\ lock = j
  <2>1. job[j] \in JobShapes
    BY <1>0 DEF Typed
  <2> QED BY <2>1, <1>a, <1>0, <1>1, ShapeOf DEF Locked
<1>3. UNCHANGED <<current, stage, project, known, foreign, raced, late, touched>>
  BY DEF Compare, history
<1>4. recovering = {}
  BY <1>0, <1>2 DEF Quiet
<1>5. CASE Conflicting(w, saw) # {}
  <2>1. Leave(j) /\ SetStatus(t, "blocked") /\ UNCHANGED ws
    BY <1>a, <1>5 DEF Compare
  <2>2. status' \in [Tasks -> Statuses]
    BY <2>1, <1>0, <1>2, StatusTyped DEF Statuses
  <2> QED BY <2>1, <2>2, <1>1, <1>2, <1>3, Leaves
<1>6. CASE Conflicting(w, saw) = {} /\ (Changed(w, saw) = {} \/ ~current)
  <2>1. Done(j) /\ UNCHANGED ws
    BY <1>a, <1>6 DEF Compare
  <2> QED BY <2>1, <1>1, <1>2, <1>3, Ends
<1>7. CASE Conflicting(w, saw) = {} /\ Changed(w, saw) # {} /\ current
  <2>1. /\ ws' = [ws EXCEPT ![t] = next] /\ job' = [job EXCEPT ![j] = WithRows(j, next)]
        /\ UNCHANGED <<status, lock, recovering>>
    BY <1>a, <1>b, <1>7 DEF Compare, SetWorkspace
  <2>2. w.base \in [Files -> Contents] /\ w = [base |-> w.base, pending |-> w.pending]
    BY <1>2 DEF Copies
  <2>3. Changed(w, saw) \in SUBSET Files
    BY DEF Changed
  <2>4. rows \in Rows /\ DOMAIN rows = Changed(w, saw)
    BY <2>2, <2>3, <1>2, RowsTyped
  <2>5. \A f \in Changed(w, saw) : rows[f].before = w.base[f] /\ rows[f].after = saw[f]
    OBVIOUS
  <2>6. next = [base |-> w.base, pending |-> rows]
    <3> HIDE DEF rows
    <3> QED BY <2>2, <1>b
  <2> HIDE DEF rows
  <2>7. next.base = w.base /\ next.pending = rows /\ next \in Copies
    BY <2>2, <2>4, <2>6 DEF Copies
  <2>8. next.pending # NoRows
    BY <2>4, <2>7, <1>7, RowsTyped
  <2>9. PICK r \in Publishing :
              /\ WithRows(j, next) = r
              /\ r.kind = job[j].kind /\ r.task = t /\ r.at = "look" /\ r.ws = next
                   /\ r.file \in DOMAIN next.pending
              /\ \A f \in DOMAIN next.pending : ~(f < r.file)
    <3> DEFINE k == job[j].kind
    <3>1. k \in {"evaluate", "review", "publish", "recover"}
      BY <1>2
    <3>2. \E r \in Publishing : Begun(r, k, t, next)
      <4> HIDE DEF k
      <4> QED BY <3>1, <1>2, <2>7, <2>8, BeginsRows
    <3> QED BY <3>2, <1>a DEF WithRows, Begun
  <2>10. job'[j] = r /\ job' = [job EXCEPT ![j] = r] /\ ws'[t] = next /\ \A u \in Tasks : u # t
           => ws'[u] = ws[u]
    BY <2>1, <2>9, <1>0, <1>2 DEF Typed
  <2>11. r \in JobShapes /\ r # NoJob /\ r \notin Resolving /\ r \notin Comparing
    <3>1. r \in JobShapes
      BY DEF JobShapes
    <3> QED BY <3>1, <2>9, <1>2, ShapeOf, NoJobFacts
  <2>12. Knows(t, next)'
    <3>1. Knows(t, w)
      BY <1>a, <1>0, <1>2 DEF Knowledge
    <3> QED BY <3>1, <2>4, <2>5, <2>7, <1>3 DEF Knows, Changed
  <2>13. AllTyped
    <3>1. ws' \in [Tasks -> Copies]
      BY <2>1, <2>7, <1>0, <1>2 DEF Typed
    <3>2. ASSUME NEW u \in Tasks PROVE Knows(u, ws[u])'
      <4>1. CASE u = t
        BY <4>1, <2>10, <2>12 DEF Knows
      <4>2. CASE u # t
        BY <4>2, <2>10, <1>0, <1>3 DEF Knows, Knowledge
      <4> QED BY <4>1, <4>2
    <3> QED BY <3>1, <3>2, <1>0, <1>3, <1>4, <2>1 DEF AllTyped, Typed
  <2>14. LookedAt(j)' /\ ProgressedAt(j)' /\ FreshAt(j)' /\ FetchedAt(j)'
    BY <2>9, <2>10, <2>11 DEF LookedAt, ProgressedAt, FreshAt, FetchedAt
  <2>15. Exact'
    <3>1. \A u \in Tasks, f \in Files : Recording(u, f) => Recording(u, f)'
      BY <1>0, <1>1, <2>10, <2>11, NotRecording
    <3>2. ASSUME NEW u \in Tasks, Pending(u)'
          PROVE  u \in touched' \/ \A f \in Files : stage'[u][f] = Published(ws[u])'.base[f]
                   \/ Recording(u, f)'
      <4>1. CASE u = t
        <5>1. t \in touched \/ saw = stage[t]
          BY <1>a, <1>0, <1>2, <1>7 DEF FreshAt
        <5>2. \A f \in Files : Published(next).base[f] = saw[f]
          BY <2>4, <2>5, <2>7 DEF Published, Changed
        <5>3. Published(ws[u])' = Published(next)
          BY <4>1, <2>10 DEF Published
        <5> QED BY <4>1, <5>1, <5>2, <5>3, <1>3
      <4>2. CASE u # t
        <5>1. Pending(u) /\ Published(ws[u])' = Published(ws[u])
          BY <3>2, <4>2, <2>10 DEF Pending, Published
        <5> QED BY <5>1, <3>1, <1>0, <1>3, <1>7 DEF Exact
      <4> QED BY <4>1, <4>2
    <3> QED BY <3>2 DEF Exact
  <2>16. r.file \in DOMAIN r.ws.pending /\ Knows(r.task, r.ws)' /\ r.at \notin {"queue", "start"}
    BY <2>9, <2>12
  <2> QED BY <2>1, <2>10, <2>11, <2>13, <2>14, <2>15, <2>16, <1>2, <1>4, Moves
<1> QED BY <1>5, <1>6, <1>7

\* Recover keeps the invariant.
LEMMA RecoverStep ==
    ASSUME WsInv, NEW j \in Jobs, Recover(j)
    PROVE  WsInv'
<1>0. Typed /\ Locked /\ Knowledge /\ Quiet /\ Exact
  BY DEF WsInv
<1>1. /\ job[j] = NoJob /\ lock = 0 /\ UNCHANGED <<current, status, stage, project, known, foreign,
           raced, late, touched>>
  BY DEF Recover, history
<1>2. CASE current
  <2>1. PICK t \in recovering :
           /\ lock' = j /\ UNCHANGED <<ws, recovering>>
           /\ job' = [job EXCEPT ![j] = [kind |-> "recover", task |-> t, at |-> "look",
                ws |-> ws[t], file |-> CHOOSE f \in First(ws[t].pending, 1) : TRUE]]
    BY <1>2 DEF Recover
  <2>2. t \in Tasks /\ ws[t] \in Copies /\ ws[t].pending # NoRows
    BY <1>0 DEF Typed, Pending, Quiet
  <2>3. PICK r \in Publishing :
              /\ [kind |-> "recover", task |-> t, at |-> "look",
                   ws |-> ws[t], file |-> CHOOSE f \in First(ws[t].pending, 1) : TRUE] = r
              /\ r.kind = "recover" /\ r.task = t /\ r.at = "look" /\ r.ws = ws[t]
                   /\ r.file \in DOMAIN ws[t].pending
              /\ \A f \in DOMAIN ws[t].pending : ~(f < r.file)
    <3> DEFINE w == ws[t]
    <3>1. w \in Copies /\ w.pending # NoRows
      BY <2>2
    <3>2. \E r \in Publishing : Begun(r, "recover", t, w)
      <4> HIDE DEF w
      <4> QED BY <3>1, <2>2, BeginsRows
    <3> QED BY <3>2 DEF Begun
  <2>4. job'[j] = r /\ job' = [job EXCEPT ![j] = r]
    BY <2>1, <2>3, <1>0 DEF Typed
  <2>5. r \in JobShapes /\ r # NoJob /\ r \notin Resolving /\ r \notin Comparing
    <3>1. r \in JobShapes
      BY DEF JobShapes
    <3> QED BY <3>1, <2>3, ShapeOf, NoJobFacts
  <2>6. AllTyped
    BY <1>0, <1>1, <2>1, KnownKept DEF AllTyped, Typed
  <2>7. LookedAt(j)' /\ ProgressedAt(j)' /\ FreshAt(j)' /\ FetchedAt(j)'
    BY <2>1, <2>3, <2>4, <2>5 DEF LookedAt, ProgressedAt, FreshAt, FetchedAt
  <2>8. Knows(r.task, r.ws)'
    BY <2>1, <2>2, <2>3, <1>0, <1>1 DEF Knowledge, Knows
  <2>9. Exact'
    <3>1. \A u \in Tasks, f \in Files : Recording(u, f) => Recording(u, f)'
      BY <1>0, <1>1, <2>4, <2>5, NotRecording
    <3> QED BY <3>1, <2>1, <1>0, <1>1, ExactKept
  <2> QED BY <2>1, <2>3, <2>4, <2>5, <2>6, <2>7, <2>8, <2>9, <1>1, Moves
<1>3. CASE ~current
  <2>1. PICK t \in recovering :
           /\ ws' = [ws EXCEPT ![t].pending = NoRows]
           /\ recovering' = recovering \ {t}
           /\ UNCHANGED <<lock, job>>
    BY <1>3 DEF Recover
  <2>2. t \in Tasks /\ ws[t] \in Copies
    BY <1>0 DEF Typed
  <2> DEFINE w == ws[t]
             next == [base |-> w.base, pending |-> NoRows]
  <2>3. w = [base |-> w.base, pending |-> w.pending] /\ w.base \in [Files -> Contents]
    BY <2>2 DEF Copies
  <2>4. ws' = [ws EXCEPT ![t] = next]
    <3>1. [w EXCEPT !.pending = NoRows] = next
      BY <2>3
    <3>2. ws' = [ws EXCEPT ![t] = [w EXCEPT !.pending = NoRows]]
      BY <2>1
    <3> QED BY <3>1, <3>2
  <2>5. next \in Copies /\ next.base = w.base /\ next.pending = NoRows
    BY <2>3, RowsTyped DEF Copies
  <2> HIDE DEF next
  <2>6. AllTyped
    <3>1. ws' \in [Tasks -> Copies]
      BY <2>4, <2>5, <1>0 DEF Typed
    <3>2. ASSUME NEW u \in Tasks PROVE Knows(u, ws[u])'
      <4>1. CASE u = t
        <5>1. ws'[u] = next
          BY <4>1, <2>4, <1>0, <2>2 DEF Typed
        <5>2. Knows(t, ws[t])
          BY <1>0, <2>2 DEF Knowledge
        <5> QED BY <5>1, <5>2, <4>1, <2>5, <1>1, RowsTyped DEF Knows
      <4>2. CASE u # t
        <5>1. ws'[u] = ws[u]
          BY <4>2, <2>4, <1>0 DEF Typed
        <5> QED BY <5>1, <1>0, <1>1 DEF Knows, Knowledge
      <4> QED BY <4>1, <4>2
    <3>3. \A u \in recovering' : ws'[u] = ws[u]
      BY <2>1, <2>4, <1>0 DEF Typed
    <3> QED BY <3>1, <3>2, <3>3, <1>0, <1>1, <2>1 DEF AllTyped, Typed
  <2>7. job' = [job EXCEPT ![j] = NoJob]
    BY <2>1, <1>0, <1>1 DEF Typed
  <2>8. Exact'
    BY <1>1, <1>3 DEF Exact
  <2> QED BY <2>1, <2>6, <2>7, <2>8, <1>1, NoJobFacts, Moves
<1> QED BY <1>2, <1>3

-----------------------------------------------------------------------------

\* A resolution that is given a label is one.
LEMMA Relabels ==
    ASSUME NEW x \in Resolving, NEW c \in {"queue", "fetch", "record"}
    PROVE  \E r \in Resolving :
              /\ [x EXCEPT !.at = c] = r
              /\ r.kind = "resolve" /\ r.task = x.task /\ r.at = c /\ r.ws = x.ws /\ r.file = x.file
              /\ r.expected = x.expected /\ r.theirs = x.theirs
<1> DEFINE r == [kind |-> x.kind, task |-> x.task, at |-> c, ws |-> x.ws, file |-> x.file,
                 expected |-> x.expected, theirs |-> x.theirs]
<1>1. /\ x.kind = "resolve" /\ x.task \in Tasks /\ x.ws \in Copies /\ x.file \in Files
      /\ x.expected \in Contents /\ x.theirs \in BOOLEAN
  BY DEF Resolving
<1>2. x = [kind |-> x.kind, task |-> x.task, at |-> x.at, ws |-> x.ws, file |-> x.file,
           expected |-> x.expected, theirs |-> x.theirs]
  BY DEF Resolving
<1>3. [x EXCEPT !.at = c] = r
  BY <1>2
<1>4. r \in Resolving
  BY <1>1 DEF Resolving
<1>5. /\ r.kind = "resolve" /\ r.task = x.task /\ r.at = c /\ r.ws = x.ws /\ r.file = x.file
      /\ r.expected = x.expected /\ r.theirs = x.theirs
  BY <1>1
<1> HIDE DEF r
<1> QED BY <1>3, <1>4, <1>5

\* What a resolution may rely on.
LEMMA Resolves ==
    ASSUME WsInv, NEW j \in Jobs, job[j] # NoJob, job[j].kind = "resolve"
           \/ job[j].at \in {"fetch", "record"}
    PROVE  /\ job[j] \in Resolving /\ job[j].kind = "resolve" /\ job[j].task \in Tasks
                /\ job[j].ws \in Copies
           /\ job[j].file \in Files /\ job[j].expected \in Contents /\ job[j].theirs \in BOOLEAN
           /\ job[j].at \in {"fetch", "record"} => lock = j
           /\ job[j].at = "fetch" => job[j].theirs
           /\ recovering = {} /\ Knows(job[j].task, job[j].ws)
<1>1. Typed /\ Locked /\ Quiet /\ Knowledge
  BY DEF WsInv
<1>2. job[j] \in JobShapes
  BY <1>1 DEF Typed
<1>3. job[j] \in Resolving /\ job[j].kind = "resolve" /\ job[j].task \in Tasks
        /\ job[j].ws \in Copies
           /\ job[j].file \in Files /\ job[j].expected \in Contents /\ job[j].theirs \in BOOLEAN
  BY <1>2, ShapeOf
<1>4. job[j].at \in {"fetch", "record"} => lock = j
  BY <1>1 DEF Locked
<1>5. job[j].at = "fetch" => job[j].theirs
  BY <1>1, <1>3 DEF Locked
<1>6. recovering = {}
  BY <1>1, <1>3 DEF Quiet
<1>7. Knows(job[j].task, job[j].ws)
  BY <1>1, <1>3 DEF Knowledge
<1> QED BY <1>3, <1>4, <1>5, <1>6, <1>7

\* ResolveLook keeps the invariant.
LEMMA ResolveLookStep ==
    ASSUME WsInv, NEW j \in Jobs, ResolveLook(j)
    PROVE  WsInv'
<1>0. Typed /\ Locked /\ Knowledge /\ Quiet /\ Exact
  BY DEF WsInv
<1>1. job[j] # NoJob /\ job[j].at = "queue" /\ lock = 0 /\ job[j].kind = "resolve"
  BY DEF ResolveLook, At
<1>2. /\ job[j] \in Resolving /\ job[j].task \in Tasks /\ job[j].ws \in Copies
           /\ job[j].theirs \in BOOLEAN
      /\ recovering = {} /\ Knows(job[j].task, job[j].ws)
  BY <1>1, Resolves
<1>3. UNCHANGED <<current, ws, stage, project, known, foreign, raced, late, touched>>
  BY DEF ResolveLook, history
<1>4. CASE Throw(j)
  BY <1>1, <1>3, <1>4, Ends
<1>5. CASE ~Throw(j)
  <2>a. PICK c : c = IF job[j].theirs THEN "fetch" ELSE "record"
    OBVIOUS
  <2>1. lock' = j /\ job' = [job EXCEPT ![j].at = c] /\ UNCHANGED <<status, recovering>>
    BY <1>5, <2>a DEF ResolveLook, Goto
  <2>2. PICK r \in Resolving :
              /\ [job[j] EXCEPT !.at = c] = r
              /\ r.kind = "resolve" /\ r.task = job[j].task /\ r.at = c /\ r.ws = job[j].ws
                   /\ r.file = job[j].file
              /\ r.expected = job[j].expected /\ r.theirs = job[j].theirs
    <3>1. c \in {"queue", "fetch", "record"}
      BY <2>a
    <3> DEFINE x == job[j]
    <3>2. x \in Resolving
      BY <1>2
    <3>3. \E r \in Resolving :
              /\ [x EXCEPT !.at = c] = r
              /\ r.kind = "resolve" /\ r.task = x.task /\ r.at = c /\ r.ws = x.ws /\ r.file = x.file
              /\ r.expected = x.expected /\ r.theirs = x.theirs
      <4> HIDE DEF x
      <4> QED BY <3>1, <3>2, Relabels
    <3> QED BY <3>3
  <2>3. job' = [job EXCEPT ![j] = r] /\ job'[j] = r
    <3>1. job' = [job EXCEPT ![j] = [job[j] EXCEPT !.at = c]]
      BY <2>1
    <3> QED BY <3>1, <2>2, <1>0 DEF Typed
  <2>4. r \in JobShapes /\ r # NoJob /\ r \notin Publishing /\ r \notin Comparing
          /\ r.at \notin {"queue", "start"}
    <3>1. r \in JobShapes
      BY DEF JobShapes
    <3>2. c \notin {"queue", "start", "compare", "look", "copy", "write", "merge"}
      BY <2>a
    <3> QED BY <3>1, <3>2, <2>2, ShapeOf
  <2>5. AllTyped
    BY <1>0, <1>3, <2>1, KnownKept DEF AllTyped, Typed
  <2>6. LookedAt(j)' /\ ProgressedAt(j)' /\ FreshAt(j)'
    BY <2>3, <2>4 DEF LookedAt, ProgressedAt, FreshAt
  <2>7. FetchedAt(j)'
    BY <2>a, <2>2, <2>3 DEF FetchedAt
  <2>8. Exact'
    <3>1. \A u \in Tasks, f \in Files : Recording(u, f) => Recording(u, f)'
      BY <1>0, <1>1, <2>3, <2>4, NotRecording
    <3> QED BY <3>1, <1>0, <1>3, ExactKept
  <2>9. Knows(r.task, r.ws)'
    BY <2>2, <1>2, <1>3 DEF Knows
  <2>10. r \in Resolving /\ r.at = "fetch" => r.theirs
    BY <2>a, <2>2
  <2> QED BY <2>1, <2>3, <2>4, <2>5, <2>6, <2>7, <2>8, <2>9, <2>10, <1>1, <1>2, Moves
<1> QED BY <1>4, <1>5

\* ResolveFetch keeps the invariant.
LEMMA ResolveFetchStep ==
    ASSUME WsInv, NEW j \in Jobs, ResolveFetch(j)
    PROVE  WsInv'
<1>0. Typed /\ Locked /\ Knowledge /\ Quiet /\ Exact
  BY DEF WsInv
<1>1. job[j] # NoJob /\ job[j].at = "fetch"
  BY DEF ResolveFetch, At
<1>a. PICK t, f, e : t = job[j].task /\ f = job[j].file /\ e = job[j].expected
  OBVIOUS
<1>2. /\ job[j] \in Resolving /\ t \in Tasks /\ job[j].ws \in Copies /\ f \in Files /\ job[j].theirs
      /\ e \in Contents /\ lock = j /\ recovering = {} /\ Knows(job[j].task, job[j].ws)
  BY <1>a, <1>1, Resolves
<1>3. UNCHANGED <<current, ws, project, known, foreign, raced, late>>
  BY DEF ResolveFetch
<1>4. CASE Throw(j) /\ UNCHANGED <<stage, touched>>
  BY <1>1, <1>2, <1>3, <1>4, Ends
<1>5. CASE ~(Throw(j) /\ UNCHANGED <<stage, touched>>)
  <2>1. /\ job' = [job EXCEPT ![j].at = "record"] /\ UNCHANGED <<status, lock, recovering>>
        /\ touched' = IF e \in {"missing", project[f]} THEN touched ELSE touched \cup {t}
        /\ stage' = [stage EXCEPT ![t][f] = IF e = "missing" THEN "missing" ELSE project[f]]
    BY <1>5, <1>a DEF ResolveFetch, Goto
  <2>2. PICK r \in Resolving :
              /\ [job[j] EXCEPT !.at = "record"] = r
              /\ r.kind = "resolve" /\ r.task = job[j].task /\ r.at = "record" /\ r.ws = job[j].ws
                   /\ r.file = job[j].file
              /\ r.expected = job[j].expected /\ r.theirs = job[j].theirs
    <3> DEFINE x == job[j]
    <3>2. x \in Resolving
      BY <1>2
    <3>3. \E r \in Resolving :
              /\ [x EXCEPT !.at = "record"] = r
              /\ r.kind = "resolve" /\ r.task = x.task /\ r.at = "record" /\ r.ws = x.ws
                   /\ r.file = x.file
              /\ r.expected = x.expected /\ r.theirs = x.theirs
      <4> HIDE DEF x
      <4> QED BY <3>2, Relabels
    <3> QED BY <3>3
  <2>3. job' = [job EXCEPT ![j] = r] /\ job'[j] = r
    <3>1. job' = [job EXCEPT ![j] = [job[j] EXCEPT !.at = "record"]]
      BY <2>1
    <3> QED BY <3>1, <2>2, <1>0 DEF Typed
  <2>4. r \in JobShapes /\ r # NoJob /\ r \notin Publishing /\ r \notin Comparing
    <3>1. r \in JobShapes
      BY DEF JobShapes
    <3> QED BY <3>1, <2>2, ShapeOf
  <2>5. /\ stage' \in [Tasks -> [Files -> Contents]]
        /\ stage'[t][f] = IF e = "missing" THEN "missing" ELSE project[f]
        /\ \A u \in Tasks, g \in Files : u # t \/ g # f => stage'[u][g] = stage[u][g]
    <3>1. (IF e = "missing" THEN "missing" ELSE project[f]) \in Contents
      BY <1>0, <1>2 DEF Typed, Contents
    <3> QED BY <3>1, <2>1, <1>0, <1>2 DEF Typed
  <2>6. AllTyped
    BY <2>5, <1>0, <1>3, <2>1, KnownKept DEF AllTyped, Typed
  <2>7. LookedAt(j)' /\ ProgressedAt(j)' /\ FreshAt(j)'
    BY <2>3, <2>4 DEF LookedAt, ProgressedAt, FreshAt
  <2>8. t \in touched' \/ stage'[t][f] = e
    BY <2>1, <2>5
  <2>9. FetchedAt(j)'
    BY <2>8, <2>2, <2>3, <1>a DEF FetchedAt
  <2>10. \A u \in Tasks, g \in Files : Recording(u, g) => Recording(u, g)'
    BY <1>0, <1>1, <2>3, <2>4, NotRecording
  <2>11. Recording(t, f)'
    BY <2>2, <2>3, <1>a, <1>2 DEF Recording
  <2>12. Exact'
    <3>1. \A u \in Tasks : Pending(u)' = Pending(u) /\ Published(ws[u])' = Published(ws[u])
      BY <1>3 DEF Pending, Published
    <3>2. touched \subseteq touched'
      BY <2>1
    <3> QED BY <3>1, <3>2, <2>5, <2>10, <2>11, <1>0, <1>3 DEF Exact
  <2>13. Knows(r.task, r.ws)'
    BY <2>2, <1>2, <1>3 DEF Knows
  <2> QED BY <2>1, <2>2, <2>3, <2>4, <2>6, <2>7, <2>9, <2>12, <2>13, <1>1, <1>2, Moves
<1> QED BY <1>4, <1>5

\* ResolveRecord keeps the invariant.
LEMMA ResolveRecordStep ==
    ASSUME WsInv, NEW j \in Jobs, ResolveRecord(j)
    PROVE  WsInv'
<1>0. Typed /\ Locked /\ Knowledge /\ Quiet /\ Exact /\ FetchedAt(j)
  BY DEF WsInv, Fetched
<1>1. job[j] # NoJob /\ job[j].at = "record"
  BY DEF ResolveRecord, At
<1>a. PICK t, f, e, w, th : t = job[j].task /\ f = job[j].file /\ e = job[j].expected
             /\ w = job[j].ws /\ th = job[j].theirs
  OBVIOUS
<1>2. /\ job[j] \in Resolving /\ t \in Tasks /\ w \in Copies /\ f \in Files /\ th \in BOOLEAN
      /\ e \in Contents /\ lock = j /\ recovering = {} /\ Knows(t, w) /\ job[j].kind = "resolve"
  BY <1>a, <1>1, Resolves
<1>b. PICK rows : rows = [g \in DOMAIN w.pending |-> IF g = f
             THEN [before |-> e, after |-> IF th THEN e ELSE w.pending[g].after]
                                               ELSE w.pending[g]]
  OBVIOUS
<1>c. PICK base : base = [w.base EXCEPT ![f] = e]
  OBVIOUS
<1>d. PICK next : next = [base |-> base, pending |-> rows]
  OBVIOUS
<1>3. UNCHANGED <<current, status, stage, project, foreign, raced, late>>
  BY DEF ResolveRecord
<1>4. /\ ws' = IF current THEN [ws EXCEPT ![t] = next] ELSE ws
      /\ job' = [job EXCEPT ![j] = NoJob] /\ lock' = 0 /\ recovering' = recovering
      /\ known' = [known EXCEPT ![t][f] = @ \cup {e}]
      /\ touched' = IF w # ws[t] \/ (Pending(t) /\ f \notin DOMAIN w.pending)
           THEN touched \cup {t} ELSE touched
  BY <1>a, <1>b, <1>c, <1>d, <1>2 DEF ResolveRecord, SetWorkspace, Leave, ResolvedRow
<1>5. w.base \in [Files -> Contents] /\ w.pending \in Rows
  BY <1>2 DEF Copies
<1>6. base \in [Files -> Contents] /\ base[f] = e /\ \A g \in Files : g # f => base[g] = w.base[g]
  BY <1>c, <1>2, <1>5
<1>7. /\ rows \in Rows /\ DOMAIN rows = DOMAIN w.pending /\ DOMAIN rows \subseteq Files
      /\ \A g \in DOMAIN rows : g # f => rows[g] = w.pending[g]
      /\ f \in DOMAIN rows => /\ rows[f].before = e
                              /\ rows[f].after = IF th THEN e ELSE w.pending[f].after
  <2>1. PICK fs \in SUBSET Files : w.pending \in [fs -> [before : Contents, after : Contents]]
    BY <1>5 DEF Rows
  <2>2. rows \in [fs -> [before : Contents, after : Contents]]
    BY <2>1, <1>b, <1>2
  <2>3. rows \in Rows
    BY <2>2 DEF Rows
  <2> QED BY <2>1, <2>3, <1>b
<1>8. next.base = base /\ next.pending = rows /\ next \in Copies
  BY <1>d, <1>6, <1>7 DEF Copies
<1>9. ws' \in [Tasks -> Copies] /\ \A u \in Tasks : u # t => ws'[u] = ws[u]
  BY <1>0, <1>2, <1>4, <1>8 DEF Typed
<1>10. current => ws'[t] = next
  BY <1>0, <1>2, <1>4 DEF Typed
<1>11. /\ known' \in [Tasks -> [Files -> SUBSET Contents]] /\ e \in known'[t][f]
       /\ \A u \in Tasks, g \in Files : known[u][g] \subseteq known'[u][g]
  BY <1>0, <1>2, <1>4 DEF Typed
<1>12. Knows(t, next)'
  <2>1. \A g \in Files : w.base[g] \in known'[t][g]
          /\ (g \in DOMAIN w.pending => w.pending[g].before \in known'[t][g])
    BY <1>2, <1>11 DEF Knows
  <2>2. \A g \in Files : base[g] \in known'[t][g]
    BY <2>1, <1>6, <1>11
  <2>3. \A g \in Files : g \in DOMAIN rows => rows[g].before \in known'[t][g]
    <3>1. ASSUME NEW g \in Files, g \in DOMAIN rows, g = f PROVE rows[g].before \in known'[t][g]
      BY <3>1, <1>7, <1>11
    <3>2. ASSUME NEW g \in Files, g \in DOMAIN rows, g # f PROVE rows[g].before \in known'[t][g]
      <4>1. rows[g] = w.pending[g] /\ g \in DOMAIN w.pending
        BY <3>2, <1>7
      <4> QED BY <4>1, <2>1
    <3> QED BY <3>1, <3>2
  <2> QED BY <2>2, <2>3, <1>8 DEF Knows
<1>13. ASSUME NEW u \in Tasks PROVE Knows(u, ws[u])'
  <2>1. CASE ws'[u] = ws[u]
    BY <2>1, <1>0, <1>11 DEF Knowledge, Knows
  <2>2. CASE ws'[u] # ws[u]
    <3>1. u = t /\ ws'[u] = next
      BY <2>2, <1>4, <1>9, <1>10
    <3> QED BY <3>1, <1>12 DEF Knows
  <2> QED BY <2>1, <2>2
<1>14. AllTyped
  BY <1>0, <1>2, <1>3, <1>4, <1>9, <1>11, <1>13 DEF AllTyped, Typed
<1>15. ASSUME NEW u \in Tasks, NEW g \in Files, Recording(u, g)
       PROVE  u = t /\ g = f /\ th
  <2>1. PICK k \in Jobs : job[k] \in Resolving /\ job[k].at = "record" /\ job[k].theirs
               /\ job[k].task = u /\ job[k].file = g
    BY <1>15 DEF Recording
  <2>2. job[k] # NoJob
    BY <2>1, NoJobFacts
  <2>3. lock = k
    BY <2>1, <2>2, Resolves
  <2> QED BY <2>1, <2>3, <1>2, <1>a
<1>16. ASSUME current, NEW u \in Tasks, Pending(u)', u \notin touched', NEW g \in Files
       PROVE  stage'[u][g] = Published(ws[u])'.base[g]
  <2>1. u \notin touched
    BY <1>4, <1>16
  <2>2. CASE u # t
    <3>1. Pending(u) /\ Published(ws[u])' = Published(ws[u])
      BY <2>2, <1>9, <1>16 DEF Pending, Published
    <3>2. ~Recording(u, g)
      BY <2>2, <1>15
    <3> QED BY <3>1, <3>2, <2>1, <1>0, <1>3, <1>16 DEF Exact
  <2>3. CASE u = t
    <3>1. w = ws[t] /\ (Pending(t) => f \in DOMAIN w.pending)
      BY <2>3, <1>4, <1>16
    <3>2. rows # NoRows
      BY <2>3, <1>8, <1>10, <1>16 DEF Pending
    <3>3. DOMAIN w.pending # {}
      BY <3>2, <1>7, RowsTyped
    <3>4. Pending(t) /\ f \in DOMAIN w.pending
      BY <3>1, <3>3, RowsTyped DEF Pending
    <3>5. Published(ws[u])'.base[g] = IF g \in DOMAIN rows THEN rows[g].after ELSE base[g]
      BY <2>3, <1>8, <1>10, <1>16 DEF Published
    <3>6. Published(ws[t]).base[g] = IF g \in DOMAIN w.pending THEN w.pending[g].after
            ELSE w.base[g]
      BY <3>1 DEF Published
    <3>7. CASE ~(g = f /\ th)
      <4>1. stage[t][g] = Published(ws[t]).base[g]
        BY <3>4, <3>7, <2>1, <2>3, <1>0, <1>2, <1>15, <1>16 DEF Exact
      <4>2. Published(ws[u])'.base[g] = Published(ws[t]).base[g]
        <5>1. CASE g # f
          <6>1. g \in DOMAIN rows => rows[g] = w.pending[g]
            BY <5>1, <1>7
          <6> QED BY <6>1, <5>1, <3>5, <3>6, <1>6, <1>7
        <5>2. CASE g = f
          <6>1. g \in DOMAIN rows /\ ~th
            BY <5>2, <3>4, <3>7, <1>7
          <6>2. rows[g].after = w.pending[g].after
            BY <6>1, <5>2, <1>7
          <6> QED BY <6>1, <6>2, <3>5, <3>6, <1>7
        <5> QED BY <5>1, <5>2
      <4> QED BY <4>1, <4>2, <2>3, <1>3
    <3>8. CASE g = f /\ th
      <4>1. stage[t][f] = e
        BY <3>4, <3>8, <2>1, <2>3, <1>0, <1>1, <1>2, <1>a, <1>16 DEF FetchedAt
      <4> QED BY <4>1, <3>4, <3>5, <3>8, <2>3, <1>3, <1>7
    <3> QED BY <3>7, <3>8
  <2> QED BY <2>2, <2>3
<1>17. Exact'
  BY <1>3, <1>16 DEF Exact
<1> QED BY <1>2, <1>4, <1>14, <1>17, NoJobFacts, Moves

-----------------------------------------------------------------------------

\* A call that does not hold the lock begins, or a launch is over.
Replaced(k) ==
    /\ job[k].kind \in {"none", "launch"}
    /\ job'[k] = NoJob \/ job'[k] \in Waiting \cup Launching \cup Resolving
    /\ job'[k] # NoJob => recovering = {} /\ job'[k].at \in {"queue", "start"}
    /\ job'[k] \in Launching \cup Resolving => Knows(job'[k].task, job'[k].ws)

\* A step outside the lock keeps the invariant if it changes a record only
\* while nothing has to be recovered and blames itself.
LEMMA Outside ==
    ASSUME WsInv,
           job' \in [Jobs -> JobShapes], status' \in [Tasks -> Statuses], ws' \in [Tasks -> Copies],
           UNCHANGED <<current, stage, project, lock, recovering, known, foreign, raced, late>>,
           touched \subseteq touched',
           \A t \in Tasks : ws'[t] = ws[t]
             \/ (recovering = {} /\ t \in touched' /\ Knows(t, ws'[t])),
           \A k \in Jobs : job'[k] = job[k] \/ Replaced(k)
    PROVE  WsInv'
<1>0. Typed /\ Locked /\ Knowledge /\ Quiet /\ Exact
  BY DEF WsInv
<1>1. Typed'
  BY <1>0 DEF Typed
<1>2. ASSUME NEW k \in Jobs, job'[k] # job[k]
      PROVE  /\ job[k] = NoJob \/ job[k].at = "start"
             /\ job[k] \notin Resolving
             /\ job'[k] = NoJob \/ job'[k].at \in {"queue", "start"}
             /\ job'[k] \notin Publishing /\ job'[k] \notin Comparing
             /\ job'[k] \in Resolving => job'[k].at = "queue"
             /\ job'[k] # NoJob => recovering = {}
             /\ job'[k] \in Launching \cup Resolving => Knows(job'[k].task, job'[k].ws)
  <2>1. job[k] \in JobShapes /\ job'[k] \in JobShapes
    BY <1>0 DEF Typed
  <2>2. Replaced(k)
    BY <1>2
  <2>3. job[k] = NoJob \/ job[k].at = "start"
    BY <2>1, <2>2, ShapeOf DEF Replaced
  <2>4. job[k] \notin Resolving
    BY <2>1, <2>2, ShapeOf DEF Replaced
  <2>5. job'[k] \notin Publishing /\ job'[k] \notin Comparing
    BY <2>1, <2>2, ShapeOf, NoJobFacts DEF Replaced
  <2>6. job'[k] \in Resolving => job'[k].at = "queue"
    BY <2>1, <2>2, ShapeOf, NoJobFacts DEF Replaced
  <2> QED BY <2>2, <2>3, <2>4, <2>5, <2>6, NoJobFacts DEF Replaced
<1>3. Locked'
  <2>1. \A k \in Jobs : (lock' = k) <=> (job'[k] # NoJob /\ job'[k].at \notin {"queue", "start"})
    BY <1>0, <1>2 DEF Locked
  <2>2. \A k \in Jobs : job'[k] \in Publishing => job'[k].file \in DOMAIN job'[k].ws.pending
    BY <1>0, <1>2 DEF Locked
  <2>3. \A k \in Jobs : job'[k] \in Resolving /\ job'[k].at = "fetch" => job'[k].theirs
    BY <1>0, <1>2 DEF Locked
  <2> QED BY <2>1, <2>2, <2>3, <1>0 DEF Locked
<1>4. Quiet'
  <2>1. \A t \in recovering' : Pending(t)'
    BY <1>0 DEF Quiet, Pending, Typed
  <2>2. recovering' # {} => \A k \in Jobs : job'[k].kind \in {"none", "recover"}
    BY <1>0, <1>2, NoJobFacts DEF Quiet
  <2> QED BY <2>1, <2>2 DEF Quiet
<1>5. Knowledge'
  <2>1. \A t \in Tasks : Knows(t, ws[t])'
    BY <1>0 DEF Knowledge, Knows
  <2>2. ASSUME NEW k \in Jobs, job'[k] \in Launching \cup Comparing \cup Publishing \cup Resolving
        PROVE  Knows(job[k].task, job[k].ws)'
    <3>1. Knows(job'[k].task, job'[k].ws)
      BY <2>2, <1>0, <1>2 DEF Knowledge
    <3> QED BY <3>1 DEF Knows
  <2> QED BY <2>1, <2>2 DEF Knowledge
<1>6. ASSUME NEW k \in Jobs
      PROVE  LookedAt(k)' /\ ProgressedAt(k)' /\ FreshAt(k)' /\ FetchedAt(k)'
  <2>1. LookedAt(k) /\ ProgressedAt(k) /\ FreshAt(k) /\ FetchedAt(k)
    BY DEF WsInv, Looked, Progressed, Fresh, Fetched
  <2>2. LookedAt(k)'
    BY <2>1, <1>2 DEF LookedAt, Row
  <2>3. ProgressedAt(k)'
    BY <2>1, <1>2 DEF ProgressedAt
  <2>4. FreshAt(k)'
    <3>1. CASE job'[k] \in Publishing \cup Comparing
      <4>1. job'[k] = job[k] /\ job[k].task \in Tasks
        BY <3>1, <1>2 DEF Publishing, Comparing
      <4>2. ws'[job[k].task] = ws[job[k].task] \/ job[k].task \in touched'
        BY <4>1
      <4> QED BY <4>1, <4>2, <3>1, <2>1 DEF FreshAt, Pending
    <3>2. CASE job'[k] \notin Publishing \cup Comparing
      BY <3>2 DEF FreshAt
    <3> QED BY <3>1, <3>2
  <2>5. FetchedAt(k)'
    <3>1. CASE job'[k] \in Resolving /\ job'[k].at = "record"
      <4>1. job'[k] = job[k] /\ job[k].task \in Tasks
        BY <3>1, <1>2 DEF Resolving
      <4>2. ws'[job[k].task] = ws[job[k].task] \/ job[k].task \in touched'
        BY <4>1
      <4> QED BY <4>1, <4>2, <3>1, <2>1 DEF FetchedAt, Pending
    <3>2. CASE ~(job'[k] \in Resolving /\ job'[k].at = "record")
      BY <3>2 DEF FetchedAt
    <3> QED BY <3>1, <3>2
  <2> QED BY <2>2, <2>3, <2>4, <2>5
<1>7. Exact'
  <2>1. \A u \in Tasks, g \in Files : Recording(u, g) => Recording(u, g)'
    BY <1>2 DEF Recording
  <2>2. ASSUME current, NEW u \in Tasks, Pending(u)', u \notin touched', NEW g \in Files
        PROVE  stage'[u][g] = Published(ws[u])'.base[g] \/ Recording(u, g)'
    <3>1. ws'[u] = ws[u]
      BY <2>2
    <3>2. Pending(u) /\ Published(ws[u])' = Published(ws[u]) /\ u \notin touched
      BY <3>1, <2>2 DEF Pending, Published
    <3> QED BY <3>2, <2>1, <2>2, <1>0 DEF Exact
  <2> QED BY <2>2 DEF Exact
<1> QED BY <1>1, <1>3, <1>4, <1>5, <1>6, <1>7 DEF WsInv, Looked, Progressed, Fresh, Fetched

-----------------------------------------------------------------------------

\* A call that begins keeps the invariant.
LEMMA Calls ==
    ASSUME WsInv, NEW j \in Jobs, NEW r \in Waiting \cup Launching \cup Resolving, Call(j, r),
           Cleared, r.at \in {"queue", "start"}, status' \in [Tasks -> Statuses],
           r \in Launching \cup Resolving => r.ws = ws[r.task] /\ r.task \in Tasks,
           UNCHANGED <<current, ws, stage, project, lock, recovering, history>>
    PROVE  WsInv'
<1>0. Typed /\ Knowledge
  BY DEF WsInv
<1>1. job[j] = NoJob /\ job' = [job EXCEPT ![j] = r]
  BY DEF Call
<1>2. r \in JobShapes
  BY DEF JobShapes
<1>3. job' \in [Jobs -> JobShapes] /\ job'[j] = r /\ \A k \in Jobs : k # j => job'[k] = job[k]
  BY <1>0, <1>1, <1>2 DEF Typed
<1>4. r \in Launching \cup Resolving => Knows(r.task, r.ws)
  BY <1>0 DEF Knowledge
<1>5. Replaced(j)
  BY <1>1, <1>3, <1>4, NoJobFacts DEF Replaced, Cleared
<1>6. \A k \in Jobs : job'[k] = job[k] \/ Replaced(k)
  BY <1>3, <1>5
<1> QED BY <1>0, <1>3, <1>6, Outside DEF Typed, history

\* Evaluate keeps the invariant.
LEMMA EvaluateStep ==
    ASSUME WsInv, NEW j \in Jobs, NEW t \in Tasks, Evaluate(j, t)
    PROVE  WsInv'
<1>0. Typed
  BY DEF WsInv
<1>1. Cleared /\ UNCHANGED <<current, ws, stage, project, lock, recovering, history>>
  BY DEF Evaluate
<1>2. CASE Call(j, [kind |-> "evaluate", task |-> t, at |-> "queue"]) /\ UNCHANGED status
  <2>1. PICK r : r = [kind |-> "evaluate", task |-> t, at |-> "queue"]
    OBVIOUS
  <2>2. r \in Waiting /\ r.at = "queue" /\ r \notin Launching /\ r \notin Resolving
    BY <2>1 DEF Waiting, Launching, Resolving
  <2>3. Call(j, r) /\ status' \in [Tasks -> Statuses]
    BY <2>1, <1>0, <1>2 DEF Typed
  <2> QED BY <2>2, <2>3, <1>1, Calls
<1>3. CASE \E s \in {"blocked", "retry_wait"} : SetStatus(t, s) /\ UNCHANGED job
  <2>1. status' \in [Tasks -> Statuses]
    BY <1>0, <1>3, StatusTyped DEF Statuses
  <2> QED BY <2>1, <1>0, <1>1, <1>3, Outside DEF Typed, history
<1> QED BY <1>2, <1>3 DEF Evaluate

\* Launch keeps the invariant.
LEMMA LaunchStep ==
    ASSUME WsInv, NEW j \in Jobs, NEW t \in Tasks, Launch(j, t)
    PROVE  WsInv'
<1>0. Typed
  BY DEF WsInv
<1>1. Cleared /\ UNCHANGED <<current, ws, stage, project, lock, recovering, history>>
        /\ status' = status
  BY DEF Launch, data
<1>2. PICK r : r = [kind |-> "launch", task |-> t, at |-> "start", ws |-> ws[t]]
  OBVIOUS
<1>3. ws[t] \in Copies
  BY <1>0 DEF Typed
<1>4. r \in Launching /\ r.at = "start" /\ r.ws = ws[r.task] /\ r.task \in Tasks
  BY <1>2, <1>3 DEF Launching
<1>5. Call(j, r)
  BY <1>2 DEF Launch
<1> QED BY <1>0, <1>1, <1>4, <1>5, Calls DEF Typed

\* Review keeps the invariant.
LEMMA ReviewStep ==
    ASSUME WsInv, NEW j \in Jobs, NEW t \in Tasks, Review(j, t)
    PROVE  WsInv'
<1>0. Typed
  BY DEF WsInv
<1>1. /\ Cleared /\ UNCHANGED <<current, ws, stage, project, lock, recovering, history>>
      /\ status' = [status EXCEPT ![t] = "accepted"]
  BY DEF Review
<1>2. PICK r : r = [kind |-> "review", task |-> t, at |-> "queue"]
  OBVIOUS
<1>3. r \in Waiting /\ r.at = "queue" /\ r \notin Launching /\ r \notin Resolving
  BY <1>2 DEF Waiting, Launching, Resolving
<1>4. Call(j, r)
  BY <1>2 DEF Review
<1>5. status' \in [Tasks -> Statuses]
  BY <1>0, <1>1 DEF Typed, Statuses
<1> QED BY <1>1, <1>3, <1>4, <1>5, Calls

\* Publish keeps the invariant.
LEMMA PublishStarts ==
    ASSUME WsInv, NEW j \in Jobs, NEW t \in Tasks, Publish(j, t)
    PROVE  WsInv'
<1>0. Typed
  BY DEF WsInv
<1>1. Cleared /\ UNCHANGED <<current, ws, stage, project, lock, recovering, history>>
        /\ status' = status
  BY DEF Publish, data
<1>2. PICK r : r = [kind |-> "publish", task |-> t, at |-> "queue"]
  OBVIOUS
<1>3. r \in Waiting /\ r.at = "queue" /\ r \notin Launching /\ r \notin Resolving
  BY <1>2 DEF Waiting, Launching, Resolving
<1>4. Call(j, r)
  BY <1>2 DEF Publish
<1> QED BY <1>0, <1>1, <1>3, <1>4, Calls DEF Typed

\* Resolve keeps the invariant.
LEMMA ResolveStarts ==
    ASSUME WsInv, NEW j \in Jobs, NEW t \in Tasks, NEW f \in Files, NEW theirs \in BOOLEAN,
           Resolve(j, t, f, theirs)
    PROVE  WsInv'
<1>0. Typed
  BY DEF WsInv
<1>1. Cleared /\ UNCHANGED <<current, ws, stage, project, lock, recovering, history>>
        /\ status' = status
  BY DEF Resolve, data
<1>2. PICK r : r = [kind |-> "resolve", task |-> t, at |-> "queue", ws |-> ws[t], file |-> f,
              expected |-> project[f], theirs |-> theirs]
  OBVIOUS
<1>3. ws[t] \in Copies /\ project[f] \in Contents
  BY <1>0 DEF Typed
<1>4. r \in Resolving /\ r.at = "queue" /\ r.ws = ws[r.task] /\ r.task \in Tasks
  BY <1>2, <1>3 DEF Resolving
<1>5. Call(j, r)
  BY <1>2 DEF Resolve
<1> QED BY <1>0, <1>1, <1>4, <1>5, Calls DEF Typed

\* Launched keeps the invariant.
LEMMA LaunchedStep ==
    ASSUME WsInv, NEW j \in Jobs, Launched(j)
    PROVE  WsInv'
<1>0. Typed /\ Knowledge /\ Quiet
  BY DEF WsInv
<1>1. PICK t : t = job[j].task
  OBVIOUS
<1>2. job[j].kind = "launch" /\ job[j] \in JobShapes
  BY <1>0 DEF Launched, Typed
<1>3. job[j] \in Launching /\ t \in Tasks /\ job[j].ws \in Copies /\ recovering = {}
  BY <1>0, <1>1, <1>2, ShapeOf, NoJobFacts DEF Quiet
<1>4. Knows(t, job[j].ws)
  BY <1>0, <1>1, <1>3 DEF Knowledge
<1>5. job' = [job EXCEPT ![j] = NoJob] /\ UNCHANGED <<current, stage, project, lock, recovering,
        known, foreign, raced, late>>
  BY DEF Launched
<1>6. /\ job' \in [Jobs -> JobShapes] /\ job'[j] = NoJob
      /\ \A k \in Jobs : job'[k] = job[k] \/ Replaced(k)
  BY <1>0, <1>2, <1>5, NoJobFacts DEF Typed, Replaced
<1>7. CASE Conflicting(job[j].ws, stage[t]) # {}
  <2>1. /\ SetStatus(t, "blocked") /\ SetWorkspace(t, job[j].ws)
        /\ touched' = IF job[j].ws # ws[t] THEN touched \cup {t} ELSE touched
    BY <1>1, <1>7 DEF Launched
  <2>2. status' \in [Tasks -> Statuses]
    BY <2>1, <1>0, <1>3, StatusTyped DEF Statuses
  <2>3. ws' \in [Tasks -> Copies]
    BY <2>1, <1>0, <1>3 DEF SetWorkspace, Typed
  <2>4. touched \subseteq touched'
    BY <2>1
  <2>5. ASSUME NEW u \in Tasks
        PROVE  ws'[u] = ws[u] \/ (recovering = {} /\ u \in touched' /\ Knows(u, ws'[u]))
    <3>1. ws'[u] # ws[u] => u = t /\ ws'[u] = job[j].ws
      BY <2>1, <1>0, <1>3 DEF SetWorkspace, Typed
    <3> QED BY <3>1, <2>1, <1>3, <1>4
  <2> QED BY <2>2, <2>3, <2>4, <2>5, <1>5, <1>6, Outside
<1>8. CASE Conflicting(job[j].ws, stage[t]) = {}
  <2>1. /\ UNCHANGED <<ws, touched>>
        /\ IF status[t] = "retry_wait" THEN SetStatus(t, "running") ELSE UNCHANGED status
    BY <1>1, <1>8 DEF Launched
  <2>2. status' \in [Tasks -> Statuses]
    BY <2>1, <1>0, <1>3, StatusTyped DEF Statuses, Typed
  <2>3. ws' \in [Tasks -> Copies] /\ \A u \in Tasks : ws'[u] = ws[u]
    BY <2>1, <1>0 DEF Typed
  <2> QED BY <2>1, <2>2, <2>3, <1>5, <1>6, Outside
<1> QED BY <1>7, <1>8

\* A step that only changes statuses keeps the invariant.
LEMMA StatusOnly ==
    ASSUME WsInv, status' \in [Tasks -> Statuses],
           UNCHANGED <<current, ws, stage, project, job, lock, recovering, history>>
    PROVE  WsInv'
BY Outside DEF WsInv, Typed, history

\* Stop keeps the invariant.
LEMMA StopStep ==
    ASSUME WsInv, NEW t \in Tasks, Stop(t) PROVE WsInv'
<1>1. status' \in [Tasks -> Statuses]
  BY DEF Stop, WsInv, Typed, Statuses
<1> QED BY <1>1, StatusOnly DEF Stop

\* Retry keeps the invariant.
LEMMA RetryStep ==
    ASSUME WsInv, NEW t \in Tasks, Retry(t) PROVE WsInv'
<1>1. status' \in [Tasks -> Statuses]
  BY DEF Retry, WsInv, Typed, Statuses
<1> QED BY <1>1, StatusOnly DEF Retry

\* Work keeps the invariant: a worker that writes while a publication has read the
\* copy, or is pending, is to blame.
LEMMA WorkStep ==
    ASSUME WsInv, NEW t \in Tasks, NEW f \in Files, NEW c \in Values \cup {"old", "missing"},
           Work(t, f, c)
    PROVE  WsInv'
<1>0. Typed /\ Locked /\ Quiet /\ Knowledge /\ Exact
  BY DEF WsInv
<1>1. /\ stage' = [stage EXCEPT ![t][f] = c] /\ Cleared
      /\ touched' = IF Pending(t) \/ Scanned(t) THEN touched \cup {t} ELSE touched
      /\ UNCHANGED <<current, status, ws, project, job, lock, recovering, known, foreign, raced,
           late>>
  BY DEF Work
<1>2. /\ stage' \in [Tasks -> [Files -> Contents]]
      /\ \A u \in Tasks : u # t => stage'[u] = stage[u]
  <2>1. c \in Contents
    BY DEF Contents
  <2> QED BY <2>1, <1>0, <1>1 DEF Typed
<1>3. Typed' /\ Locked' /\ Quiet' /\ Knowledge'
  BY <1>0, <1>1, <1>2 DEF Typed, Locked, Quiet, Knowledge, Knows, Pending
<1>4. ASSUME NEW k \in Jobs
      PROVE  LookedAt(k)' /\ ProgressedAt(k)' /\ FreshAt(k)' /\ FetchedAt(k)'
  <2>1. LookedAt(k) /\ ProgressedAt(k) /\ FreshAt(k) /\ FetchedAt(k)
    BY DEF WsInv, Looked, Progressed, Fresh, Fetched
  <2>2. LookedAt(k)' /\ ProgressedAt(k)'
    BY <2>1, <1>1 DEF LookedAt, ProgressedAt, Row
  <2>3. FreshAt(k)'
    <3>1. ASSUME job[k] \in Comparing, job[k].task = t PROVE t \in touched'
      <4>1. job[k] # NoJob /\ job[k].at = "compare"
        BY <3>1, NoJobFacts DEF Comparing
      <4> QED BY <4>1, <3>1, <1>1 DEF Scanned
    <3>2. job[k] \in Comparing => job[k].task \in Tasks
      BY DEF Comparing
    <3>3. job[k] \in Comparing /\ job[k].task \notin touched'
            => stage'[job[k].task] = stage[job[k].task]
      BY <3>1, <3>2, <1>2
    <3>4. touched \subseteq touched' /\ Pending(job[k].task)' = Pending(job[k].task)
      BY <1>1 DEF Pending
    <3> QED BY <3>3, <3>4, <2>1, <1>1 DEF FreshAt
  <2>4. FetchedAt(k)'
    <3>1. CASE job[k] \in Resolving
      <4>1. job[k].task \in Tasks
        BY <3>1 DEF Resolving
      <4>2. Pending(job[k].task)' = Pending(job[k].task) /\ touched \subseteq touched'
        BY <1>1 DEF Pending
      <4>3. Pending(job[k].task) => job[k].task \in touched'
              \/ stage'[job[k].task] = stage[job[k].task]
        BY <4>1, <1>1, <1>2
      <4> QED BY <4>2, <4>3, <3>1, <2>1, <1>1 DEF FetchedAt
    <3>2. CASE job[k] \notin Resolving
      BY <3>2, <1>1 DEF FetchedAt
    <3> QED BY <3>1, <3>2
  <2> QED BY <2>2, <2>3, <2>4
<1>5. Exact'
  <2>1. \A u \in Tasks, g \in Files : Recording(u, g) => Recording(u, g)'
    BY <1>1 DEF Recording
  <2>2. \A u \in Tasks : /\ Pending(u)' = Pending(u) /\ Published(ws[u])' = Published(ws[u])
                         /\ Pending(u) => u \in touched' \/ stage'[u] = stage[u]
    BY <1>1, <1>2 DEF Pending, Published
  <2>3. touched \subseteq touched'
    BY <1>1
  <2> QED BY <2>1, <2>2, <2>3, <1>0, <1>1 DEF Exact
<1> QED BY <1>3, <1>4, <1>5 DEF WsInv, Looked, Progressed, Fresh, Fetched

\* Who changes a file of the project behind a publication is to blame.
LEMMA ProjectChanges ==
    ASSUME WsInv, project' \in [Files -> Contents],
           UNCHANGED <<current, status, ws, stage, job, lock, recovering, known, late, touched>>,
           foreign \subseteq foreign', raced \subseteq raced',
           \A f \in Files : project'[f] = project[f]
             \/ (f \in foreign' /\ Overtaken(f) \subseteq raced')
    PROVE  WsInv'
<1>0. Typed /\ Locked /\ Quiet /\ Knowledge /\ Exact
  BY DEF WsInv
<1>1. Typed' /\ Locked' /\ Quiet' /\ Knowledge'
  BY <1>0 DEF Typed, Locked, Quiet, Knowledge, Knows, Pending
<1>2. ASSUME NEW k \in Jobs
      PROVE  LookedAt(k)' /\ ProgressedAt(k)' /\ FreshAt(k)' /\ FetchedAt(k)'
  <2>1. LookedAt(k) /\ ProgressedAt(k) /\ FreshAt(k) /\ FetchedAt(k)
    BY DEF WsInv, Looked, Progressed, Fresh, Fetched
  <2>2. FreshAt(k)' /\ FetchedAt(k)'
    BY <2>1 DEF FreshAt, FetchedAt, Pending
  <2>3. CASE job[k] \notin Publishing
    BY <2>2, <2>3 DEF LookedAt, ProgressedAt
  <2>4. CASE job[k] \in Publishing
    <3>1. job[k] # NoJob /\ job[k].file \in Files
            /\ job[k].at \in {"look", "copy", "write", "merge"}
      BY <2>4, NoJobFacts DEF Publishing
    <3>2. DOMAIN job[k].ws.pending \subseteq Files
      BY <3>1, Publishes
    <3>3. job[k].at \in {"copy", "write"} => k \in Overtaken(job[k].file)
      BY <3>1 DEF Overtaken, At
    <3>4. LookedAt(k)'
      BY <2>1, <3>1, <3>3 DEF LookedAt, Row
    <3>5. ProgressedAt(k)'
      BY <2>1, <3>2 DEF ProgressedAt
    <3> QED BY <2>2, <3>4, <3>5
  <2> QED BY <2>3, <2>4
<1>3. Exact'
  <2>1. \A u \in Tasks, g \in Files : Recording(u, g) => Recording(u, g)'
    BY DEF Recording
  <2> QED BY <2>1, <1>0, ExactKept
<1> QED BY <1>1, <1>2, <1>3 DEF WsInv, Looked, Progressed, Fresh, Fetched

\* Edit keeps the invariant.
LEMMA EditStep ==
    ASSUME WsInv, NEW f \in Files, Edit(f) PROVE WsInv'
<1>0. Typed
  BY DEF WsInv
<1>1. /\ UNCHANGED <<current, status, ws, stage, job, lock, recovering, known, late, touched>>
      /\ foreign' = foreign \cup {f} /\ raced' = raced \cup Overtaken(f)
  BY DEF Edit
<1>2. PICK c \in {"edited", "missing"} : project' = [project EXCEPT ![f] = c]
  BY DEF Edit
<1>3. project' \in [Files -> Contents] /\ \A g \in Files : g # f => project'[g] = project[g]
  BY <1>0, <1>2 DEF Typed, Contents
<1> QED BY <1>1, <1>3, ProjectChanges

\* SharedWrite keeps the invariant.
LEMMA SharedWriteStep ==
    ASSUME WsInv, NEW f \in Files, SharedWrite(f) PROVE WsInv'
<1>0. Typed /\ Locked
  BY DEF WsInv
<1>1. /\ UNCHANGED <<current, status, ws, stage, job, lock, recovering, known, raced, late,
           touched>>
      /\ foreign' = foreign \cup {f} /\ lock = 0 /\ project' = [project EXCEPT ![f] = "edited"]
  BY DEF SharedWrite
<1>2. project' \in [Files -> Contents] /\ \A g \in Files : g # f => project'[g] = project[g]
  BY <1>0, <1>1 DEF Typed, Contents
<1>3. Overtaken(f) = {}
  BY <1>0, <1>1 DEF Locked, Overtaken, At, Jobs
<1> QED BY <1>1, <1>2, <1>3, ProjectChanges

\* RequirementChange keeps the invariant.
LEMMA RequirementStep ==
    ASSUME WsInv, RequirementChange PROVE WsInv'
<1>0. Typed /\ Locked /\ Quiet /\ Knowledge
  BY DEF WsInv
<1>1. /\ current' = FALSE /\ status' = [t \in Tasks |-> "superseded"]
      /\ late' = UNION {Overtaken(f) : f \in Files}
      /\ UNCHANGED <<ws, stage, project, job, lock, recovering, known, foreign, raced, touched>>
  BY DEF RequirementChange
<1>2. Typed'
  <2>1. status' \in [Tasks -> Statuses]
    BY <1>1 DEF Statuses
  <2> QED BY <2>1, <1>0, <1>1 DEF Typed
<1>3. Locked' /\ Quiet' /\ Knowledge'
  BY <1>0, <1>1 DEF Locked, Quiet, Knowledge, Knows, Pending
<1>4. ASSUME NEW k \in Jobs
      PROVE  LookedAt(k)' /\ ProgressedAt(k)'
  <2>1. LookedAt(k) /\ ProgressedAt(k)
    BY DEF WsInv, Looked, Progressed
  <2>2. job[k] \in Publishing /\ job[k].at \in {"copy", "write"} => k \in late'
    <3>1. SUFFICES ASSUME job[k] \in Publishing, job[k].at \in {"copy", "write"} PROVE k \in late'
      OBVIOUS
    <3>2. job[k] # NoJob /\ job[k].file \in Files
      BY <3>1, NoJobFacts DEF Publishing
    <3>3. k \in Overtaken(job[k].file)
      BY <3>1, <3>2 DEF Overtaken, At
    <3> QED BY <3>2, <3>3, <1>1
  <2> QED BY <2>1, <2>2, <1>1 DEF LookedAt, ProgressedAt, Row
<1>5. Fresh' /\ Exact' /\ Fetched'
  BY <1>1 DEF Fresh, FreshAt, Exact, Fetched, FetchedAt
<1> QED BY <1>2, <1>3, <1>4, <1>5 DEF WsInv, Looked, Progressed

\* Crash keeps the invariant.
LEMMA CrashStep ==
    ASSUME WsInv, Crash PROVE WsInv'
<1>0. Typed /\ Knowledge /\ Exact
  BY DEF WsInv
<1>1. /\ job' = [j \in Jobs |-> NoJob] /\ lock' = 0
      /\ recovering' = {t \in Tasks : Pending(t)}
      /\ status' = [t \in Tasks |-> IF status[t] = "running" THEN "evaluating" ELSE status[t]]
      /\ touched' = touched \cup {job[j].task : j \in {k \in Jobs : At(k, "record")}}
      /\ UNCHANGED <<current, ws, stage, project, known, foreign>>
  BY DEF Crash
<1>2. \A j \in Jobs : job'[j] = NoJob
  BY <1>1
<1>3. Typed'
  <2>1. status' \in [Tasks -> Statuses]
    BY <1>0, <1>1 DEF Typed, Statuses
  <2>2. job' \in [Jobs -> JobShapes]
    BY <1>1, NoJobFacts
  <2> QED BY <2>1, <2>2, <1>0, <1>1 DEF Typed
<1>4. Locked'
  BY <1>1, <1>2, NoJobFacts DEF Locked, Jobs
<1>5. Quiet'
  BY <1>1, <1>2, NoJobFacts DEF Quiet, Pending
<1>6. Knowledge'
  BY <1>0, <1>1, <1>2, NoJobFacts DEF Knowledge, Knows
<1>7. Looked' /\ Progressed' /\ Fresh' /\ Fetched'
  BY <1>2, NoJobFacts DEF Looked, LookedAt, Progressed, ProgressedAt, Fresh, FreshAt, Fetched,
     FetchedAt
<1>8. Exact'
  <2>1. \A u \in Tasks, g \in Files : Recording(u, g) => u \in touched'
    <3>1. SUFFICES ASSUME NEW u \in Tasks, NEW g \in Files, Recording(u, g) PROVE u \in touched'
      OBVIOUS
    <3>2. PICK j \in Jobs : job[j] \in Resolving /\ job[j].at = "record" /\ job[j].task = u
      BY <3>1 DEF Recording
    <3>3. At(j, "record")
      BY <3>2, NoJobFacts DEF At
    <3> QED BY <3>2, <3>3, <1>1
  <2>2. \A u \in Tasks : Pending(u)' = Pending(u) /\ Published(ws[u])' = Published(ws[u])
    BY <1>1 DEF Pending, Published
  <2>3. touched \subseteq touched'
    BY <1>1
  <2> QED BY <2>1, <2>2, <2>3, <1>0, <1>1 DEF Exact
<1> QED BY <1>3, <1>4, <1>5, <1>6, <1>7, <1>8 DEF WsInv

-----------------------------------------------------------------------------

\* Every step keeps the invariant.
LEMMA WsStep ==
    ASSUME WsInv, [Next]_vars PROVE WsInv'
<1>1. CASE UNCHANGED vars
  BY <1>1, StatusOnly DEF vars, data, history, WsInv, Typed
<1>2. ASSUME NEW t \in Tasks, NEW f \in Files, NEW c \in Values \cup {"old", "missing"},
             Work(t, f, c)
      PROVE  WsInv'
  BY <1>2, WorkStep
<1>3. ASSUME NEW t \in Tasks, Stop(t) \/ Retry(t)
      PROVE  WsInv'
  BY <1>3, StopStep, RetryStep
<1>4. ASSUME NEW t \in Tasks, NEW j \in Jobs, Evaluate(j, t) \/ Launch(j, t) \/ Review(j, t)
             \/ Publish(j, t)
      PROVE  WsInv'
  BY <1>4, EvaluateStep, LaunchStep, ReviewStep, PublishStarts
<1>5. ASSUME NEW t \in Tasks, NEW j \in Jobs, NEW f \in Files, NEW theirs \in BOOLEAN,
             Resolve(j, t, f, theirs)
      PROVE  WsInv'
  BY <1>5, ResolveStarts
<1>6. ASSUME NEW j \in Jobs, Launched(j) \/ Fails(j) PROVE WsInv'
  BY <1>6, LaunchedStep, FailsStep
<1>7. ASSUME NEW j \in Jobs, PublishStep(j) PROVE WsInv'
  BY <1>7, EnterStep, CompareStep, LookStep, CopyStep, WriteStep, MergeStep, RecoverStep
     DEF PublishStep
<1>8. ASSUME NEW j \in Jobs, ResolveStep(j) PROVE WsInv'
  BY <1>8, ResolveLookStep, ResolveFetchStep, ResolveRecordStep DEF ResolveStep
<1>9. ASSUME NEW f \in Files, Edit(f) \/ SharedWrite(f) PROVE WsInv'
  BY <1>9, EditStep, SharedWriteStep
<1>10. CASE RequirementChange
  BY <1>10, RequirementStep
<1>11. CASE Crash
  BY <1>11, CrashStep
<1> QED BY <1>1, <1>2, <1>3, <1>4, <1>5, <1>6, <1>7, <1>8, <1>9, <1>10, <1>11 DEF Next

\* The inductive invariant of Workspaces: what every call under way carries agrees
\* with the records, the copies and the project as WsInv says (publishWorkspace,
\* finishPublish, resolveWorkspace, recoverWorkspacePublishes).
THEOREM WsInvariant == Spec => []WsInv
<1>1. Init => WsInv
  BY WsStarts
<1>2. WsInv /\ [Next]_vars => WsInv'
  BY WsStep
<1> QED BY <1>1, <1>2, PTL DEF Spec


\* The invariant implies TypeOK.
LEMMA WellTyped ==
    ASSUME WsInv PROVE TypeOK
BY DEF WsInv, Typed, Locked, TypeOK, Statuses

\* What a publication overwrites is what its task knows, unless the file was
\* edited since its last look.
LEMMA Writings ==
    ASSUME WsInv, NEW j \in Jobs, At(j, "write")
    PROVE  /\ project[job[j].file] \in known[job[j].task][job[j].file] \/ j \in raced
           /\ current \/ j \in late
<1>1. job[j] # NoJob /\ job[j].at = "write"
  BY DEF At
<1>2. job[j] \in Publishing /\ job[j].file \in Files /\ job[j].file \in DOMAIN job[j].ws.pending
  BY <1>1, Publishes
<1>3. LookedAt(j) /\ Knows(job[j].task, job[j].ws)
  BY <1>2 DEF WsInv, Looked, Knowledge
<1>4. Row(j).before \in known[job[j].task][job[j].file]
  BY <1>2, <1>3 DEF Knows, Row
<1> QED BY <1>1, <1>2, <1>3, <1>4 DEF LookedAt

\* A publication overwrites a file only with the knowledge of its task, and nothing
\* is published for an obsolete requirement but the write that was under way
\* (publishWorkspace, finishPublish): for every set of tasks, files and contents.
THEOREM NothingIsLost == Spec => NothingLost
<1>1. WsInv => \A j \in Jobs : Writing(j) =>
                 /\ project[job[j].file] \in known[job[j].task][job[j].file] \/ j \in raced
                 /\ current \/ j \in late
  BY Writings DEF Writing
<1>2. WsInv => TypeOK
  BY WellTyped
<1> QED BY <1>1, <1>2, WsInvariant, PTL DEF NothingLost

\* Only its own steps end a publication that follows an acceptance.
LEMMA WhoEnds ==
    ASSUME WsInv, Next, ~Crash, NEW j \in Jobs, job[j].kind \in {"evaluate", "review"},
           job'[j] = NoJob
    PROVE  Enter(j) \/ Compare(j) \/ Look(j) \/ Copy(j) \/ Write(j) \/ Merge(j) \/ Fails(j)
<1>0. Typed
  BY DEF WsInv
<1>1. job[j] # NoJob
  BY NoJobFacts
<1>2. job' # job
  BY <1>1
<1>3. ASSUME NEW t \in Tasks, NEW k \in Jobs, NEW r, Call(k, r) PROVE FALSE
  <2>1. job[k] = NoJob /\ job' = [job EXCEPT ![k] = r]
    BY <1>3 DEF Call
  <2> QED BY <2>1, <1>0, <1>1 DEF Typed
<1>4. ASSUME NEW t \in Tasks, NEW f \in Files, NEW c \in Values \cup {"old", "missing"},
             Work(t, f, c)
      PROVE  FALSE
  BY <1>4, <1>2 DEF Work
<1>5. ASSUME NEW t \in Tasks, Stop(t) \/ Retry(t)
      PROVE  FALSE
  BY <1>5, <1>2 DEF Stop, Retry
<1>6. ASSUME NEW t \in Tasks, NEW k \in Jobs, Evaluate(k, t) \/ Launch(k, t) \/ Review(k, t)
             \/ Publish(k, t)
      PROVE  FALSE
  <2>1. CASE Evaluate(k, t)
    BY <2>1, <1>2, <1>3 DEF Evaluate
  <2>2. CASE Launch(k, t)
    BY <2>2, <1>3 DEF Launch
  <2>3. CASE Review(k, t)
    BY <2>3, <1>3 DEF Review
  <2>4. CASE Publish(k, t)
    BY <2>4, <1>3 DEF Publish
  <2> QED BY <1>6, <2>1, <2>2, <2>3, <2>4
<1>7. ASSUME NEW t \in Tasks, NEW k \in Jobs, NEW f \in Files, NEW theirs \in BOOLEAN,
             Resolve(k, t, f, theirs)
      PROVE  FALSE
  BY <1>7, <1>3 DEF Resolve
<1>8. ASSUME NEW k \in Jobs, Launched(k) PROVE FALSE
  <2>1. job[k].kind = "launch" /\ job' = [job EXCEPT ![k] = NoJob]
    BY <1>8 DEF Launched
  <2> QED BY <2>1, <1>0, <1>1 DEF Typed
<1>9. ASSUME NEW k \in Jobs, k # j, PublishStep(k) \/ Fails(k) \/ ResolveStep(k) PROVE FALSE
  <2>1. \A l \in Jobs : l # k => job'[l] = job[l]
    <3>0. Throw(k) \/ Done(k) \/ Leave(k) => \A l \in Jobs : l # k => job'[l] = job[l]
      BY <1>0 DEF Throw, Done, Leave, Typed
    <3>1. CASE Enter(k)
      BY <3>0, <3>1, <1>0 DEF Enter, Typed
    <3>2. CASE Compare(k)
      BY <3>0, <3>2, <1>0 DEF Compare, Typed
    <3>3. CASE Look(k)
      BY <3>0, <3>3, <1>0 DEF Look, Advance, Goto, Typed
    <3>4. CASE Copy(k)
      BY <3>0, <3>4, <1>0 DEF Copy, Goto, Typed
    <3>5. CASE Write(k)
      BY <3>0, <3>5, <1>0 DEF Write, Advance, Typed
    <3>6. CASE Merge(k)
      BY <3>0, <3>6 DEF Merge
    <3>7. CASE Recover(k)
      BY <3>7, <1>0 DEF Recover, Typed
    <3>8. CASE Fails(k)
      BY <3>0, <3>8 DEF Fails
    <3>9. CASE ResolveLook(k)
      BY <3>0, <3>9, <1>0 DEF ResolveLook, Goto, Typed
    <3>10. CASE ResolveFetch(k)
      BY <3>0, <3>10, <1>0 DEF ResolveFetch, Goto, Typed
    <3>11. CASE ResolveRecord(k)
      BY <3>0, <3>11 DEF ResolveRecord
    <3> QED BY <1>9, <3>1, <3>2, <3>3, <3>4, <3>5, <3>6, <3>7, <3>8, <3>9, <3>10, <3>11
               DEF PublishStep, ResolveStep
  <2> QED BY <2>1, <1>1, <1>9
<1>10. ~Recover(j)
  BY <1>1 DEF Recover
<1>11. ~ResolveStep(j)
  <2>1. job[j] \in JobShapes /\ job[j].kind # "resolve"
    BY <1>0 DEF Typed
  <2>2. job[j].at \notin {"fetch", "record"}
    BY <2>1, <1>1, ShapeOf
  <2> QED BY <2>1, <2>2 DEF ResolveStep, ResolveLook, ResolveFetch, ResolveRecord, At
<1>12. ASSUME NEW f \in Files, Edit(f) \/ SharedWrite(f) PROVE FALSE
  BY <1>12, <1>2 DEF Edit, SharedWrite
<1>13. CASE RequirementChange
  BY <1>13, <1>2 DEF RequirementChange
<1>14. CASE \E k \in Jobs : PublishStep(k) \/ Fails(k) \/ ResolveStep(k)
  BY <1>14, <1>9, <1>10, <1>11 DEF PublishStep
<1> QED BY <1>4, <1>5, <1>6, <1>7, <1>8, <1>12, <1>13, <1>14 DEF Next

\* When such a publication ends well, the copy is what the record says is published.
LEMMA AcceptedWell ==
    ASSUME WsInv, Next, ~Crash, NEW j \in Jobs, EndsAccepted(j)
    PROVE  job[j].task \in touched \/ stage[job[j].task] = ws'[job[j].task].base
<1>0. Typed /\ Locked /\ Exact /\ FreshAt(j)
  BY DEF WsInv, Fresh
<1>1. PICK t : t = job[j].task
  OBVIOUS
<1>2. /\ job[j].kind \in {"evaluate", "review"} /\ job'[j] = NoJob /\ current'
      /\ status'[t] = "accepted" /\ job[j] # NoJob
  BY <1>1, NoJobFacts DEF EndsAccepted
<1>3. t \in Tasks /\ job[j] \in JobShapes
  BY <1>0, <1>1, <1>2, ShapeOf DEF Typed
<1>4. ASSUME SetStatus(t, "blocked"), current' = current PROVE FALSE
  BY <1>4, <1>0, <1>2, <1>3 DEF SetStatus, Typed
<1>5. ASSUME Throw(j), current' = current PROVE FALSE
  BY <1>1, <1>2, <1>4, <1>5 DEF Throw
<1>6. CASE Enter(j)
  BY <1>6, <1>1, <1>2, <1>5, <1>0 DEF Enter, Typed, WithRows, NoJob
<1>7. CASE Compare(j)
  <2>1. PICK w, saw : w = job[j].ws /\ saw = job[j].saw
    OBVIOUS
  <2>2. current' = current
    BY <1>7 DEF Compare
  <2>3. Conflicting(w, saw) = {}
    BY <1>7, <1>1, <1>4, <2>1, <2>2 DEF Compare
  <2>4. job[j] \in Comparing /\ w \in Copies /\ saw \in [Files -> Contents]
    <3>1. job[j].at = "compare"
      BY <1>7 DEF Compare, At
    <3> QED BY <3>1, <1>2, <1>3, <2>1, ShapeOf
  <2>5. Changed(w, saw) = {}
    <3>1. SUFFICES ASSUME Changed(w, saw) # {} PROVE FALSE
      OBVIOUS
    <3>2. PICK next : job' = [job EXCEPT ![j] = WithRows(j, next)]
      BY <1>7, <1>1, <1>2, <2>1, <2>2, <2>3, <3>1 DEF Compare
    <3> QED BY <3>2, <1>0, <1>2 DEF Typed, WithRows, NoJob
  <2>6. ws' = ws
    BY <1>7, <1>1, <2>1, <2>3, <2>5 DEF Compare
  <2>7. t \in touched \/ (w = ws[t] /\ saw = stage[t])
    BY <1>0, <1>1, <1>2, <2>1, <2>2, <2>4 DEF FreshAt
  <2>8. w.base = saw
    <3>1. w.base \in [Files -> Contents] /\ \A f \in Files : w.base[f] = saw[f]
      BY <2>4, <2>5 DEF Copies, Changed
    <3> QED BY <3>1, <2>4
  <2> QED BY <2>6, <2>7, <2>8, <1>1
<1>8. CASE Look(j)
  <2>1. job[j].at = "look" /\ current' = current
    BY <1>8 DEF Look, At
  <2>2. job[j] \in Publishing
    BY <2>1, <1>2, <1>3, ShapeOf
  <2>3. Advance(j) \/ (\E c \in {"write", "copy"} : Goto(j, c))
    BY <1>5, <1>8, <2>1 DEF Look
  <2>4. CASE Advance(j)
    <3>1. PICK r \in Publishing : job' = [job EXCEPT ![j] = r]
      BY <2>2, <2>4, <1>0, NextRow
    <3> QED BY <3>1, <1>0, <1>2, NoJobFacts DEF Typed
  <2>5. ASSUME NEW c \in {"write", "copy"}, Goto(j, c) PROVE FALSE
    <3>0. \E r \in Publishing :
              /\ job' = [job EXCEPT ![j] = r] /\ r.kind = job[j].kind /\ r.task = job[j].task
              /\ r.at = c /\ r.ws = job[j].ws /\ r.file = job[j].file
      <4>1. c \in {"look", "copy", "write", "merge"}
        OBVIOUS
      <4> QED BY <4>1, <2>2, <2>5, <1>0, Goes DEF Goto
    <3>1. PICK r \in Publishing : job' = [job EXCEPT ![j] = r]
      BY <3>0
    <3> QED BY <3>1, <1>0, <1>2, NoJobFacts DEF Typed
  <2> QED BY <2>3, <2>4, <2>5
<1>9. CASE Copy(j)
  <2>1. job[j].at = "copy" /\ current' = current
    BY <1>9 DEF Copy, At
  <2>2. job[j] \in Publishing
    BY <2>1, <1>2, <1>3, ShapeOf
  <2>3. Goto(j, "write")
    BY <1>5, <1>9, <2>1 DEF Copy
  <2>5. \E r \in Publishing :
              /\ job' = [job EXCEPT ![j] = r] /\ r.kind = job[j].kind /\ r.task = job[j].task
              /\ r.at = "write" /\ r.ws = job[j].ws /\ r.file = job[j].file
    BY <2>2, <2>3, <1>0, Goes DEF Goto
  <2>4. PICK r \in Publishing : job' = [job EXCEPT ![j] = r]
    BY <2>5
  <2> QED BY <2>4, <1>0, <1>2, NoJobFacts DEF Typed
<1>10. CASE Write(j)
  <2>1. job[j].at = "write" /\ current' = current
    BY <1>10 DEF Write, At
  <2>2. job[j] \in Publishing
    BY <2>1, <1>2, <1>3, ShapeOf
  <2>3. Advance(j)
    BY <1>5, <1>10, <2>1 DEF Write
  <2>4. PICK r \in Publishing : job' = [job EXCEPT ![j] = r]
    BY <2>2, <2>3, <1>0, NextRow
  <2> QED BY <2>4, <1>0, <1>2, NoJobFacts DEF Typed
<1>11. CASE Fails(j)
  BY <1>5, <1>11 DEF Fails
<1>12. CASE Merge(j)
  <2>1. job[j].at = "merge" /\ current' = current /\ SetWorkspace(t, Published(job[j].ws))
    BY <1>1, <1>12 DEF Merge, At
  <2>2. /\ job[j] \in Publishing /\ lock = j /\ job[j].ws \in Copies
        /\ job[j].file \in DOMAIN job[j].ws.pending
    BY <2>1, <1>2, Publishes
  <2>3. ws'[t] = Published(job[j].ws)
    BY <2>1, <1>0, <1>2, <1>3 DEF SetWorkspace, Typed
  <2>4. SUFFICES ASSUME t \notin touched PROVE stage[t] = ws'[t].base
    BY <1>1
  <2>5. job[j].ws = ws[t]
    BY <2>1, <2>2, <2>4, <1>0, <1>1, <1>2 DEF FreshAt
  <2>6. Pending(t)
    <3>1. ws[t].pending # NoRows
      BY <2>2, <2>5, RowsTyped
    <3> QED BY <3>1 DEF Pending
  <2>7. \A f \in Files : ~Recording(t, f)
    <3>1. SUFFICES ASSUME NEW k \in Jobs, job[k] \in Resolving, job[k].at = "record" PROVE FALSE
      BY DEF Recording
    <3>2. job[k] # NoJob
      BY <3>1, NoJobFacts
    <3>3. lock = k
      BY <3>1, <3>2, Resolves
    <3> QED BY <3>1, <3>3, <2>1, <2>2
  <2>8. \A f \in Files : stage[t][f] = ws'[t].base[f]
    BY <2>1, <2>3, <2>4, <2>5, <2>6, <2>7, <1>0, <1>2, <1>3 DEF Exact
  <2>9. stage[t] \in [Files -> Contents] /\ ws'[t].base \in [Files -> Contents]
    BY <2>2, <2>3, <1>0, <1>3, PublishedTyped DEF Typed, Copies
  <2> QED BY <2>8, <2>9
<1> QED BY <1>2, <1>6, <1>7, <1>8, <1>9, <1>10, <1>11, <1>12, WhoEnds

\* A publication that is merged has each of its files in the project.
LEMMA MergedWell ==
    ASSUME WsInv, NEW j \in Jobs, At(j, "merge")
    PROVE  \A f \in DOMAIN job[j].ws.pending : project[f] = job[j].ws.pending[f].after
             \/ f \in foreign
<1>1. job[j] # NoJob /\ job[j].at = "merge"
  BY DEF At
<1>2. job[j] \in Publishing /\ ProgressedAt(j)
  BY <1>1, Publishes DEF WsInv, Progressed
<1> QED BY <1>1, <1>2 DEF ProgressedAt

\* When the publication that follows an acceptance has ended well, nothing the task
\* changed is left unpublished, unless copy or record was touched meanwhile; and a
\* publication is merged only when each of its files holds what was to be published,
\* or somebody has changed the file since (evaluateTask, TaskReview, finishPublish).
THEOREM AcceptedArePublished == Spec => AcceptedIsPublished
<1>1. ASSUME WsInv, Next
      PROVE  \A j \in Jobs :
               /\ ~Crash /\ EndsAccepted(j) =>
                    LET t == job[j].task IN t \in touched \/ stage[t] = ws'[t].base
               /\ At(j, "merge") /\ job'[j] # job[j] /\ ws' # ws =>
                    \A f \in DOMAIN job[j].ws.pending :
                      project[f] = job[j].ws.pending[f].after \/ f \in foreign
  BY <1>1, AcceptedWell, MergedWell
<1> QED BY <1>1, WsInvariant, PTL DEF AcceptedIsPublished, Spec
=============================================================================
