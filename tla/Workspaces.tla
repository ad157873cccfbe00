----------------------------- MODULE Workspaces -----------------------------
(***************************************************************************)
(* Isolated workspaces: each task works on a copy of the project's files   *)
(* and what it changed is published into the project once it is accepted   *)
(* or the PM asks for it (session/Workspaces.ts and its callers in         *)
(* runtime/TaskRecovery.ts, tools/registry.ts and session/Control.ts).     *)
(*                                                                         *)
(* A publication compares three contents of every file: the one the copy   *)
(* was made from (`base'), the task's own and the project's.  It journals  *)
(* what it is about to do and then writes file after file, each write      *)
(* preceded by another look.  Publications and resolutions of conflicts    *)
(* hold one lock of the process, but users edit the project whenever they  *)
(* like, workers keep working on their copies, the requirement changes,    *)
(* writes fail, and the process dies and resumes what was journaled.       *)
(*                                                                         *)
(* All tasks belong to one revision; `current' says whether it still is    *)
(* that of the conversation.  Contents stand for their hashes.             *)
(***************************************************************************)
EXTENDS Integers, FiniteSets

CONSTANTS
  Tasks,       \* isolated tasks of the revision
  NFiles,      \* files of the project
  Values,      \* contents a worker may write
  Slots,       \* bound: calls under way at once
  MaxWrites,   \* bound: writes of workers
  MaxAsks,     \* bound: retries, publications and resolutions the PM asks for
  MaxTrouble   \* bound: edits, failed writes, changes of requirement, deaths

ASSUME NFilesAssumption == NFiles \in Nat \ {0} /\ Slots \in Nat
ASSUME ValuesAssumption == Values \cap {"missing", "old", "edited"} = {}

VARIABLES
  current,     \* the revision of the tasks is that of the conversation
  status,      \* journaled: the status of each task
  ws,          \* journaled: the base of its copy and the pending publication
  stage,       \* the files of its copy
  project,     \* the files of the project
  job,         \* calls under way, each with what it has read so far
  lock,        \* the call that holds workspaceExclusive, or 0
  recovering,  \* pending publications recoverWorkspacePublishes has to visit
  known,       \* history: contents a task started from, published, or was told of
  foreign,     \* history: files whose last change was not a publication
  raced, late, \* history: calls whose file was edited, or whose requirement
               \* changed, between their look at the file and their write
  touched,     \* history: tasks whose copy or record was changed by somebody else
               \* while a publication had read it, or was left pending
  writes, asks, trouble

data == <<status, ws, stage, project>>
history == <<known, foreign, raced, late, touched>>
bounds == <<writes, asks, trouble>>
vars == <<current, data, job, lock, recovering, history, bounds>>

Files == 1..NFiles
Contents == Values \cup {"missing", "old", "edited"}
Jobs == 1..Slots
Troubled == trouble < MaxTrouble /\ trouble' = trouble + 1
Asked == asks < MaxAsks /\ asks' = asks + 1

-----------------------------------------------------------------------------
(* A pending publication: rows [before, after] for the files it is about. *)
NoRows == [f \in {} |-> "none"]
Pending(t) == ws[t].pending # NoRows
First(rows, from) == {f \in DOMAIN rows : f >= from /\ \A g \in DOMAIN rows : g >= from => f <= g}

NoJob == [kind |-> "none"]

Init ==
  /\ current = TRUE
  /\ status = [t \in Tasks |-> "running"]
  /\ ws = [t \in Tasks |-> [base |-> [f \in Files |-> "old"], pending |-> NoRows]]
  /\ stage = [t \in Tasks |-> [f \in Files |-> "old"]]
  /\ project = [f \in Files |-> "old"]
  /\ job = [j \in Jobs |-> NoJob]
  /\ lock = 0 /\ recovering = {}
  /\ known = [t \in Tasks |-> [f \in Files |-> {"old"}]]
  /\ foreign = {} /\ raced = {} /\ late = {} /\ touched = {}
  /\ writes = 0 /\ asks = 0 /\ trouble = 0

(* taskState under the reducer's fence. *)
SetStatus(t, s) == status' = IF current THEN [status EXCEPT ![t] = s] ELSE status
SetWorkspace(t, w) == ws' = IF current THEN [ws EXCEPT ![t] = w] ELSE ws

(* waitForSessionControl: nothing begins before the pending publications of the
   last process have been visited. *)
Cleared == recovering = {}
Busy(t, kind) == \E j \in Jobs : job[j].kind = kind /\ job[j].task = t
Call(j, r) == job[j] = NoJob /\ job' = [job EXCEPT ![j] = r]

-----------------------------------------------------------------------------
(* The worker, its evaluation and the PM. *)

(* A publication has read the copy and not yet recorded what it found. *)
Scanned(t) == \E j \in Jobs : job[j] # NoJob /\ job[j].task = t /\ job[j].at = "compare"

(* A file tool works on the copy at any time; commands, the only way to remove
   a file, are refused while a publication is pending (withWorkspace). *)
Work(t, f, c) ==
  /\ status[t] = "running" /\ current /\ Cleared
  /\ writes < MaxWrites /\ writes' = writes + 1
  /\ stage[t][f] # c
  /\ c = "missing" => ~Pending(t)
  /\ stage' = [stage EXCEPT ![t][f] = c]
  /\ touched' = IF Pending(t) \/ Scanned(t) THEN touched \cup {t} ELSE touched
  /\ UNCHANGED <<current, status, ws, project, job, lock, recovering, known, foreign, raced,
                 late, asks, trouble>>

Stop(t) ==
  /\ status[t] = "running" /\ current
  /\ status' = [status EXCEPT ![t] = "evaluating"]
  /\ UNCHANGED <<current, ws, stage, project, job, lock, recovering, history, bounds>>

(* evaluateTask: the checks pass and the files are published, or not. *)
Evaluate(j, t) ==
  /\ status[t] = "evaluating" /\ current /\ Cleared /\ ~Busy(t, "evaluate")
  /\ \/ Call(j, [kind |-> "evaluate", task |-> t, at |-> "queue"]) /\ UNCHANGED status
     \/ \E s \in {"blocked", "retry_wait"} : SetStatus(t, s) /\ UNCHANGED job
  /\ UNCHANGED <<current, ws, stage, project, lock, recovering, history, bounds>>

(* launchAttempt compares both copies before it starts another worker. *)
Launch(j, t) ==
  /\ status[t] = "retry_wait" /\ current /\ Cleared /\ ~Busy(t, "launch")
  /\ Call(j, [kind |-> "launch", task |-> t, at |-> "start", ws |-> ws[t]])
  /\ UNCHANGED <<current, data, lock, recovering, history, bounds>>

Changed(w, saw) == {f \in Files : w.base[f] # saw[f]}
Conflicting(w, saw) == {f \in Changed(w, saw) : project[f] \notin {w.base[f], saw[f]}}

(* A conflict is recorded with the workspace as it was when the launch began. *)
Launched(j) ==
  LET t == job[j].task IN
  /\ job[j].kind = "launch"
  /\ IF Conflicting(job[j].ws, stage[t]) # {}
     THEN /\ SetStatus(t, "blocked") /\ SetWorkspace(t, job[j].ws)
          /\ touched' = IF job[j].ws # ws[t] THEN touched \cup {t} ELSE touched
     ELSE /\ UNCHANGED <<ws, touched>>
          /\ IF status[t] = "retry_wait" THEN SetStatus(t, "running") ELSE UNCHANGED status
  /\ job' = [job EXCEPT ![j] = NoJob]
  /\ UNCHANGED <<current, stage, project, lock, recovering, known, foreign, raced, late, bounds>>

Stopped(t) == status[t] \notin {"running", "evaluating", "retry_wait"}

(* TaskRetry; a rejecting TaskReview. *)
Retry(t) ==
  /\ Asked /\ Cleared /\ current /\ status[t] = "blocked"
  /\ status' = [status EXCEPT ![t] = "retry_wait"]
  /\ UNCHANGED <<current, ws, stage, project, job, lock, recovering, history, writes, trouble>>

(* TaskReview accepts, then publishes. *)
Review(j, t) ==
  /\ Cleared /\ current /\ status[t] = "blocked"
  /\ status' = [status EXCEPT ![t] = "accepted"]
  /\ Call(j, [kind |-> "review", task |-> t, at |-> "queue"])
  /\ UNCHANGED <<current, ws, stage, project, lock, recovering, history, bounds>>

(* WorkspacePublish. *)
Publish(j, t) ==
  /\ Asked /\ Cleared /\ current /\ Stopped(t)
  /\ Call(j, [kind |-> "publish", task |-> t, at |-> "queue"])
  /\ UNCHANGED <<current, data, lock, recovering, history, writes, trouble>>

(* WorkspaceResolve, for a conflict as WorkspaceStatus shows it.  The task is
   looked up before the lock is asked for, and the tools the PM calls in one turn
   run side by side (runToolBatch); it does not resolve a conflict twice at once. *)
Resolve(j, t, f, theirs) ==
  /\ Asked /\ Cleared /\ current /\ Stopped(t)
  /\ f \in Conflicting(ws[t], stage[t])
  /\ \A k \in Jobs : job[k].kind = "resolve" => <<job[k].task, job[k].file>> # <<t, f>>
  /\ Call(j, [kind |-> "resolve", task |-> t, at |-> "queue", ws |-> ws[t], file |-> f,
              expected |-> project[f], theirs |-> theirs])
  /\ UNCHANGED <<current, data, lock, recovering, history, writes, trouble>>

-----------------------------------------------------------------------------
(* What happens under the lock. *)

Goto(j, label) == job' = [job EXCEPT ![j].at = label]
Leave(j) ==
  /\ job' = [job EXCEPT ![j] = NoJob]
  /\ lock' = 0
  /\ recovering' = IF job[j].kind = "recover" THEN recovering \ {job[j].task} ELSE recovering

(* A wrong Throw: TaskReview does not notice. *)
ThrowUnnoticed(j) ==
  /\ Leave(j)
  /\ IF job[j].kind \in {"evaluate", "recover"}
     THEN SetStatus(job[j].task, "blocked") ELSE UNCHANGED status

(* The call returns, or throws; evaluateTask, TaskReview and
   recoverWorkspacePublishes block the task then. *)
Done(j) ==
  /\ Leave(j)
  /\ IF job[j].kind = "evaluate" THEN SetStatus(job[j].task, "accepted") ELSE UNCHANGED status
Throw(j) ==
  /\ Leave(j)
  /\ IF job[j].kind \in {"evaluate", "review", "recover"}
     THEN SetStatus(job[j].task, "blocked") ELSE UNCHANGED status

At(j, label) == job[j] # NoJob /\ job[j].at = label

(* finishPublish begins with w, whose rows are taken in order. *)
WithRows(j, w) ==
  [kind |-> job[j].kind, task |-> job[j].task, at |-> "look", ws |-> w,
   file |-> CHOOSE f \in First(w.pending, 1) : TRUE]

(* publishWorkspace gets the lock: a pending publication is resumed as it is,
   without a comparison; otherwise the files of the copy are read. *)
Enter(j) ==
  /\ At(j, "queue") /\ lock = 0 /\ job[j].kind \in {"evaluate", "review", "publish"}
  /\ LET t == job[j].task IN
     IF ~current THEN Throw(j)
     ELSE /\ lock' = j
          /\ job' = [job EXCEPT ![j] =
               IF Pending(t) THEN WithRows(j, ws[t])
               ELSE [kind |-> job[j].kind, task |-> t, at |-> "compare", ws |-> ws[t],
                     saw |-> stage[t]]]
          /\ UNCHANGED <<status, recovering>>
  /\ touched' = IF current /\ ~Pending(job[j].task) THEN touched \ {job[j].task} ELSE touched
  /\ UNCHANGED <<current, ws, stage, project, known, foreign, raced, late, bounds>>

(* A wrong Compare: conflicts are overlooked. *)
CompareBlind(j) ==
  /\ At(j, "compare")
  /\ LET t == job[j].task  w == job[j].ws
         next == [w EXCEPT !.pending = [f \in Changed(w, job[j].saw) |->
                    [before |-> project[f], after |-> job[j].saw[f]]]]
     IN  IF Changed(w, job[j].saw) = {} \/ ~current THEN Done(j) /\ UNCHANGED ws
         ELSE /\ SetWorkspace(t, next)
              /\ job' = [job EXCEPT ![j] = WithRows(j, next)]
              /\ UNCHANGED <<status, lock, recovering>>
  /\ UNCHANGED <<current, stage, project, history, bounds>>

(* The files of the project have been read.  Conflicts block the task,
   whoever called.  If the requirement has changed nothing is recorded, and so
   nothing is written. *)
Compare(j) ==
  /\ At(j, "compare")
  /\ LET t == job[j].task  w == job[j].ws
         next == [w EXCEPT !.pending = [f \in Changed(w, job[j].saw) |->
                    [before |-> w.base[f], after |-> job[j].saw[f]]]]
     IN  IF Conflicting(w, job[j].saw) # {}
         THEN Leave(j) /\ SetStatus(t, "blocked") /\ UNCHANGED ws
         ELSE IF Changed(w, job[j].saw) = {} \/ ~current THEN Done(j) /\ UNCHANGED ws
         ELSE /\ SetWorkspace(t, next)
              /\ job' = [job EXCEPT ![j] = WithRows(j, next)]
              /\ UNCHANGED <<status, lock, recovering>>
  /\ UNCHANGED <<current, stage, project, history, bounds>>

Row(j) == job[j].ws.pending[job[j].file]
Advance(j) ==
  LET left == First(job[j].ws.pending, job[j].file + 1) IN
  job' = IF left = {} THEN [job EXCEPT ![j].at = "merge"]
         ELSE [job EXCEPT ![j].at = "look", ![j].file = CHOOSE f \in left : TRUE]

(* The file as it is now: already published, untouched, or neither. *)
Look(j) ==
  /\ At(j, "look")
  /\ LET now == project[job[j].file] IN
     IF now \notin {Row(j).before, Row(j).after} \/ (now # Row(j).after /\ ~current)
     THEN Throw(j)
     ELSE /\ IF now = Row(j).after THEN Advance(j)
             ELSE Goto(j, IF Row(j).after = "missing" THEN "write" ELSE "copy")
          /\ UNCHANGED <<status, lock, recovering>>
  /\ raced' = raced \ {j}
  /\ UNCHANGED <<current, ws, stage, project, known, foreign, late, touched, bounds>>

(* The copy's file is read; it must still be what is to be published. *)
Copy(j) ==
  /\ At(j, "copy")
  /\ IF stage[job[j].task][job[j].file] = Row(j).after
     THEN Goto(j, "write") /\ UNCHANGED <<status, lock, recovering>>
     ELSE Throw(j)
  /\ UNCHANGED <<current, ws, stage, project, history, bounds>>

(* writeBuffer's rename, or unlink, which fails when there is nothing. *)
Write(j) ==
  /\ At(j, "write")
  /\ LET f == job[j].file  after == Row(j).after IN
     IF after = "missing" /\ project[f] = "missing"
     THEN Throw(j) /\ UNCHANGED <<project, known, foreign>>
     ELSE /\ project' = [project EXCEPT ![f] = after]
          /\ known' = [known EXCEPT ![job[j].task][f] = @ \cup {after}]
          /\ foreign' = foreign \ {f}
          /\ Advance(j)
          /\ UNCHANGED <<status, lock, recovering>>
  /\ UNCHANGED <<current, ws, stage, raced, late, touched, bounds>>

(* Reading the copy or writing the file fails. *)
Fails(j) ==
  /\ Troubled /\ (At(j, "copy") \/ At(j, "write"))
  /\ Throw(j)
  /\ UNCHANGED <<current, ws, stage, project, history, writes, asks>>

Published(w) ==
  [base |-> [f \in Files |-> IF f \in DOMAIN w.pending THEN w.pending[f].after ELSE w.base[f]],
   pending |-> NoRows]

Merge(j) ==
  /\ At(j, "merge")
  /\ SetWorkspace(job[j].task, Published(job[j].ws))
  /\ Done(j)
  /\ known' = [known EXCEPT ![job[j].task] =
       [f \in Files |-> @[f] \cup {Published(job[j].ws).base[f]}]]
  /\ UNCHANGED <<current, stage, project, foreign, raced, late, touched, bounds>>

(* resolveWorkspace gets the lock.  "Theirs" reads the project once more. *)
ResolveLook(j) ==
  /\ At(j, "queue") /\ lock = 0 /\ job[j].kind = "resolve"
  /\ IF project[job[j].file] # job[j].expected
     THEN Throw(j)
     ELSE /\ lock' = j /\ Goto(j, IF job[j].theirs THEN "fetch" ELSE "record")
          /\ UNCHANGED <<status, recovering>>
  /\ UNCHANGED <<current, ws, stage, project, history, bounds>>

(* Nobody asks whether the task still is a stopped one. *)
ResolveFetch(j) ==
  LET t == job[j].task  f == job[j].file IN
  /\ At(j, "fetch")
  /\ IF project[f] = "missing" /\ job[j].expected # "missing"
     THEN Throw(j) /\ UNCHANGED <<stage, touched>>
     ELSE /\ Goto(j, "record") /\ UNCHANGED <<status, lock, recovering>>
          /\ touched' = IF job[j].expected \in {"missing", project[f]} THEN touched
                        ELSE touched \cup {t}
          /\ stage' = [stage EXCEPT ![t][f] =
                         IF job[j].expected = "missing" THEN "missing" ELSE project[f]]
  /\ UNCHANGED <<current, ws, project, known, foreign, raced, late, bounds>>

ResolvedRow(j, row) ==
  [before |-> job[j].expected, after |-> IF job[j].theirs THEN job[j].expected ELSE row.after]

(* The workspace that was looked up before the lock is written back. *)
ResolveRecord(j) ==
  LET t == job[j].task  f == job[j].file  w == job[j].ws IN
  /\ At(j, "record")
  /\ SetWorkspace(t, [base |-> [w.base EXCEPT ![f] = job[j].expected],
                      pending |-> [g \in DOMAIN w.pending |->
                        IF g = f THEN ResolvedRow(j, w.pending[g]) ELSE w.pending[g]]])
  /\ Leave(j)
  /\ known' = [known EXCEPT ![t][f] = @ \cup {job[j].expected}]
  /\ touched' = IF w # ws[t] \/ (Pending(t) /\ f \notin DOMAIN w.pending)
                THEN touched \cup {t} ELSE touched
  /\ UNCHANGED <<current, status, stage, project, foreign, raced, late, bounds>>

-----------------------------------------------------------------------------
(* The environment. *)

Overtaken(f) == {j \in Jobs : (At(j, "copy") \/ At(j, "write")) /\ f = job[j].file}

(* Another program changes or removes a file of the project. *)
Edit(f) ==
  /\ Troubled
  /\ \E c \in {"edited", "missing"} \ {project[f]} : project' = [project EXCEPT ![f] = c]
  /\ foreign' = foreign \cup {f} /\ raced' = raced \cup Overtaken(f)
  /\ UNCHANGED <<current, status, ws, stage, job, lock, recovering, known, late, touched,
                 writes, asks>>

(* A tool without a copy of its own, the PM's for one, writes under the lock. *)
SharedWrite(f) ==
  /\ Troubled /\ lock = 0 /\ Cleared /\ project[f] # "edited"
  /\ project' = [project EXCEPT ![f] = "edited"]
  /\ foreign' = foreign \cup {f}
  /\ UNCHANGED <<current, status, ws, stage, job, lock, recovering, known, raced, late, touched,
                 writes, asks>>

RequirementChange ==
  /\ Troubled /\ current /\ current' = FALSE
  /\ status' = [t \in Tasks |-> "superseded"]
  /\ late' = UNION {Overtaken(f) : f \in Files}
  /\ UNCHANGED <<ws, stage, project, job, lock, recovering, known, foreign, raced, touched,
                 writes, asks>>

(* The process dies; interrupted workers are evaluated after the restart, and a
   task in retry_wait is launched again. *)
Crash ==
  /\ Troubled
  /\ job' = [j \in Jobs |-> NoJob] /\ lock' = 0
  /\ recovering' = {t \in Tasks : Pending(t)}
  /\ status' = [t \in Tasks |-> IF status[t] = "running" THEN "evaluating" ELSE status[t]]
  /\ raced' = {} /\ late' = {}
  /\ touched' = touched \cup {job[j].task : j \in {k \in Jobs : At(k, "record")}}
  /\ UNCHANGED <<current, ws, stage, project, known, foreign, writes, asks>>

(* recoverWorkspacePublishes: resumed, or abandoned if its goal is obsolete. *)
Recover(j) ==
  /\ job[j] = NoJob /\ lock = 0
  /\ \E t \in recovering :
       IF current
       THEN /\ lock' = j /\ UNCHANGED <<ws, recovering>>
            /\ job' = [job EXCEPT ![j] = [kind |-> "recover", task |-> t, at |-> "look",
                 ws |-> ws[t], file |-> CHOOSE f \in First(ws[t].pending, 1) : TRUE]]
       ELSE /\ ws' = [ws EXCEPT ![t].pending = NoRows]
            /\ recovering' = recovering \ {t}
            /\ UNCHANGED <<lock, job>>
  /\ UNCHANGED <<current, status, stage, project, history, bounds>>

-----------------------------------------------------------------------------
PublishStep(j) ==
  Enter(j) \/ Compare(j) \/ Look(j) \/ Copy(j) \/ Write(j) \/ Merge(j) \/ Recover(j)
ResolveStep(j) == ResolveLook(j) \/ ResolveFetch(j) \/ ResolveRecord(j)

Next ==
  \/ \E t \in Tasks :
       \/ \E f \in Files, c \in Values \cup {"old", "missing"} : Work(t, f, c)
       \/ Stop(t) \/ Retry(t)
       \/ \E j \in Jobs :
            \/ Evaluate(j, t) \/ Launch(j, t) \/ Review(j, t) \/ Publish(j, t)
            \/ \E f \in Files, theirs \in BOOLEAN : Resolve(j, t, f, theirs)
  \/ \E j \in Jobs : Launched(j) \/ PublishStep(j) \/ Fails(j) \/ ResolveStep(j)
  \/ \E f \in Files : Edit(f) \/ SharedWrite(f)
  \/ RequirementChange \/ Crash

Spec == Init /\ [][Next]_vars

-----------------------------------------------------------------------------
(* Properties. *)

Rows == UNION {[fs -> [before : Contents, after : Contents]] : fs \in SUBSET Files}
Copies == [base : [Files -> Contents], pending : Rows]

(* Every variable has its type, and a call works under the lock exactly when it
   is the one that holds it (workspaceExclusive). *)
TypeOK ==
  /\ current \in BOOLEAN
  /\ status \in [Tasks -> {"running", "evaluating", "retry_wait", "blocked", "accepted",
                           "superseded"}]
  /\ ws \in [Tasks -> Copies] /\ stage \in [Tasks -> [Files -> Contents]]
  /\ project \in [Files -> Contents]
  /\ lock \in 0..Slots /\ recovering \subseteq Tasks
  /\ \A j \in Jobs : (lock = j) <=> (job[j] # NoJob /\ job[j].at \notin {"queue", "start"})

Writing(j) == At(j, "write") /\ job'[j] # job[j] /\ project' # project

(* A publication overwrites a file only with the knowledge of its task: what is
   there is what the copy was made from, what the task has published before, or
   what the PM resolved against; unless another program edits the file between
   the last look and the write.  And nothing is published for an obsolete
   requirement, but for the one write that was under way when it changed
   (publishWorkspace, finishPublish).  With the types of the variables. *)
NothingLost ==
  [][/\ TypeOK
     /\ \A j \in Jobs : Writing(j) =>
          /\ project[job[j].file] \in known[job[j].task][job[j].file] \/ j \in raced
          /\ current \/ j \in late]_vars

(* The publication that follows an acceptance has ended well. *)
EndsAccepted(j) ==
  /\ job[j].kind \in {"evaluate", "review"} /\ job'[j] = NoJob
  /\ current' /\ status'[job[j].task] = "accepted"

(* When it has, nothing the task changed is left unpublished, unless the copy or
   its record was changed while the publication was under way or pending: by the
   worker, or by a launch or a resolution that had read the record before it.  And a publication is over only when each of its
   files holds what was to be published, also one that a death cut in two; unless
   somebody has changed the file since (finishPublish, evaluateTask, TaskReview). *)
AcceptedIsPublished ==
  [][\A j \in Jobs :
       /\ ~Crash /\ EndsAccepted(j) =>
            LET t == job[j].task IN
            t \in touched \/ stage[t] = ws'[t].base
       /\ At(j, "merge") /\ job'[j] # job[j] /\ ws' # ws =>
            \A f \in DOMAIN job[j].ws.pending :
              project[f] = job[j].ws.pending[f].after \/ f \in foreign]_vars

(* Recording the resolution of one file leaves the bases of the others alone
   (resolveWorkspace). *)
ResolutionsStay ==
  [][\A j \in Jobs : At(j, "record") /\ job'[j] # job[j] /\ ~Crash =>
       \A f \in Files \ {job[j].file} :
         ws'[job[j].task].base[f] = ws[job[j].task].base[f]]_vars
=============================================================================
