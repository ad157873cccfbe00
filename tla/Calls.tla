-------------------------------- MODULE Calls --------------------------------
(* The way of a tool call from a worker's answer to its effect: the record of   *)
(* calls in the journal (session/Journal.ts), the approval by the leader         *)
(* (runtime/WorkerHandler.ts, LeaderHandler.ts) and by the user (store.ts,       *)
(* runtime/AgentRuntime.tsx), and the single entrance to all tools               *)
(* (tools/registry.ts, executeTool).                                             *)
(*                                                                               *)
(* Left out: turns and their ends (module Worker), changed requirements, the     *)
(* operations of tasks (module Tasks) except that an id is used once, and the     *)
(* oldest of more than thirty completed calls, which the record forgets.         *)
EXTENDS Naturals, Sequences, FiniteSets, Functions

CONSTANTS
    Workers,    \* workers of one leader
    CallIds,    \* CallIds[w]: the ids that a worker gives to its calls
    Claims,     \* what the model may say of needs_approval
    Issued,     \* bound: calls
    Deaths,     \* bound: restarts
    None

VARIABLE c

CallsAssumption ==
    /\ Claims \subseteq BOOLEAN /\ Claims # {}
    /\ DOMAIN CallIds = Workers /\ {Issued, Deaths} \subseteq Nat
    /\ None \notin [command : {"look", "rm"}, status : {"pending", "completed", "uncertain"}]

AllIds == UNION {CallIds[w] : w \in Workers}
Commands == {"look", "rm"}
Risky(call) == call.command = "rm"    \* toolNeedsApproval

\* `record' are the calls the journal knows of each worker, `asked' the approvals that
\* leaders owe, by the id of the call alone, `told' the calls a leader has read of and
\* `listed' those shown to the user.  `running' are calls under way, with or without
\* their id; `effects', `granted' and `denied' count for each call.  Of the past, `again'
\* has the ids that a worker took while it still had a call under them, and `mixed' the
\* calls that a leader was to answer for while it owed an answer for another of that id.
Init ==
    \E tasked \in BOOLEAN :
        c = [record |-> [w \in Workers |-> [i \in AllIds |-> None]], tasked |-> tasked,
             used |-> {}, queue |-> [w \in Workers |-> <<>>], asked |-> [i \in AllIds |-> None],
             told |-> {}, listed |-> {}, running |-> {}, calls |-> <<>>,
             effects |-> [n \in 1..Issued |-> 0], granted |-> [n \in 1..Issued |-> 0],
             denied |-> {}, killed |-> {}, deaths |-> 0, again |-> {}, mixed |-> {}]

Recorded(v, call) == v.record[call.by][call.id]

-----------------------------------------------------------------------------
(* The entrance to the tools *)

\* The output of a named call completes its record, whatever it says by then; a
\* result that is only reported completes a pending one.
Completed(v, call, named) ==
    LET prior == Recorded(v, call)
    IN  IF named \/ prior.status = "pending"
        THEN [v EXCEPT !.record[call.by][call.id] = [prior EXCEPT !.status = "completed"]]
        ELSE v

\* The record answers for a call that comes with its id, if it knows of another
\* command or better than "pending"; a task takes an id once.
Answers(v, call) ==
    LET prior == Recorded(v, call)
    IN  \/ prior.command # call.command
        \/ prior.status # "pending"
        \/ v.tasked /\ <<call.by, call.id>> \in v.used

Begun(v, call, named) ==
    [v EXCEPT !.running = @ \cup {[call |-> call, named |-> named]},
              !.used = IF named THEN @ \cup {<<call.by, call.id>>} ELSE @]

\* Mutant of Execute: the record is not asked.
ExecuteAnyway(v, call, named) == Begun(v, call, named)

Execute(v, call, named) ==
    IF named /\ Answers(v, call) THEN Completed(v, call, FALSE) ELSE Begun(v, call, named)

\* The store shows a call to the user, and takes off what has been answered.
Listed(v, call) == IF call.claim THEN [v EXCEPT !.listed = @ \cup {call}] ELSE v

Unlisted(v, id) == [v EXCEPT !.listed = {x \in @ : x.id # id}]

Happened(v, call) == [v EXCEPT !.effects[call.n] = @ + 1]

-----------------------------------------------------------------------------
(* Steps *)

Alive(w) == w \notin c.killed

\* The ids under which a worker waits for an outcome.
Open(w) ==
    {x.id : x \in Range(c.queue[w])
                  \cup {y \in c.told \cup {z.call : z \in c.running} : y.by = w}}

\* The calls that share an approval with this one, as the table of approvals has one place
\* for an id (WorkerHandler.ts:599).
Sharing(v, call) ==
    LET owed == {x.n : x \in {y \in v.told : y.id = call.id}}
    IN  IF owed = {} THEN {} ELSE owed \cup {call.n}

\* tool.call: the store lists what the model says is to be approved, the handler asks
\* the leader for what the registry says.  The ids are the model's, and nobody checks them.
Issue(w) ==
    /\ Alive(w) /\ Len(c.calls) < Issued
    /\ \E id \in CallIds[w], command \in Commands, claim \in Claims :
          LET call == [by |-> w, id |-> id, command |-> command, claim |-> claim,
                       n |-> Len(c.calls) + 1]
              prior == c.record[w][id]
              note == IF prior # None THEN prior
                      ELSE [command |-> command, status |-> "pending"]
              twice == IF id \in Open(w) THEN {<<w, id>>} ELSE {}
              v == Listed([c EXCEPT !.calls = Append(@, call), !.record[w][id] = note,
                                    !.again = @ \cup twice], call)
          IN  c' = IF Risky(call)
                   THEN [v EXCEPT !.asked[id] = call, !.told = @ \cup {call},
                                  !.mixed = @ \cup Sharing(c, call)]
                   ELSE [v EXCEPT !.queue[w] = Append(@, call)]

\* The batch at the end of a turn, one call after the other.
RunQueued(w) ==
    /\ Alive(w) /\ c.queue[w] # <<>>
    /\ c' = [Execute(c, Head(c.queue[w]), TRUE) EXCEPT !.queue[w] = Tail(@)]

\* tool.approved or tool.rejected: what is asked for under the id by now.
LeaderAnswers ==
    \E call \in c.told, yes \in BOOLEAN :
        LET asked == c.asked[call.id]
            v == [c EXCEPT !.told = @ \ {call}, !.asked[call.id] = None]
        IN  c' = IF asked = None THEN v
                 ELSE IF yes THEN Execute([v EXCEPT !.granted[call.n] = @ + 1], asked, FALSE)
                 ELSE Completed([v EXCEPT !.denied = @ \cup {call.n}], asked, FALSE)

\* y and n, of the first call that is listed for a worker: every one of this id is taken
\* off.
UserAnswers ==
    \E call \in c.listed, yes \in BOOLEAN :
        /\ \A x \in c.listed : x.by = call.by => x.n >= call.n
        /\ LET v == Unlisted(c, call.id)
           IN  c' = IF call.by \in c.killed THEN v
                    ELSE IF yes THEN Execute([v EXCEPT !.granted[call.n] = @ + 1], call, TRUE)
                    ELSE Completed([v EXCEPT !.denied = @ \cup {call.n}], call, FALSE)

Ends ==
    \E x \in c.running :
        c' = Completed(Happened([c EXCEPT !.running = @ \ {x}], x.call), x.call, x.named)

\* A run that is cut off may have had its effect.
CutOff(v, gone) ==
    {[v EXCEPT !.running = @ \ gone,
               !.effects = [n \in DOMAIN @ |->
                    @[n] + Cardinality({x \in had : x.call.n = n})]] : had \in SUBSET gone}

\* killAgent: the approvals of a worker are taken back in both places.
Kill(w) ==
    /\ Alive(w)
    /\ c' \in CutOff([c EXCEPT
                !.killed = @ \cup {w}, !.queue[w] = <<>>,
                !.asked = [i \in AllIds |-> IF @[i] # None /\ @[i].by = w THEN None ELSE @[i]],
                !.listed = {x \in @ : x.by # w}],
              {x \in c.running : x.call.by = w})

\* The process dies and starts again (session.recovered): what was pending is uncertain.
Restart ==
    /\ c.deaths < Deaths
    /\ c' \in CutOff([c EXCEPT
                !.deaths = @ + 1, !.queue = [w \in Workers |-> <<>>],
                !.asked = [i \in AllIds |-> None], !.told = {}, !.listed = {},
                !.record = [w \in Workers |-> [i \in AllIds |->
                    LET prior == c.record[w][i]
                    IN  IF prior # None /\ prior.status = "pending"
                        THEN [prior EXCEPT !.status = "uncertain"] ELSE prior]]],
              c.running)

Next ==
    \/ \E w \in Workers : Issue(w) \/ RunQueued(w) \/ Kill(w)
    \/ LeaderAnswers \/ UserAnswers \/ Ends \/ Restart

-----------------------------------------------------------------------------
(* Properties *)

\* The calls of a kind have taken effect once at most, together.
Once(A(_)) ==
    \A m, n \in DOMAIN c.calls :
        A(c.calls[m]) /\ A(c.calls[n]) /\ c.effects[m] > 0 /\ c.effects[n] > 0 =>
            m = n /\ c.effects[n] = 1

\* A command that needs an approval takes effect as often as a leader has approved this
\* very call, any other once, unless the model has asked the user too.  What shares its
\* approval takes no effect but on the word for a call of this id.
EffectsAreEarned ==
    \A n \in DOMAIN c.calls :
        LET call == c.calls[n]
        IN  /\ ~call.claim /\ ~Risky(call) => c.effects[n] <= 1
            /\ ~call.claim /\ Risky(call) =>
                /\ n \in c.mixed \/ c.effects[n] <= c.granted[n]
                /\ c.effects[n] > 0 =>
                    \E m \in DOMAIN c.calls : c.calls[m].id = call.id /\ c.granted[m] > 0

\* What a worker has behind it under an id is not done again, by a worker that repeats
\* itself or has been started again (executeTool), unless it took the id again too early.
RecordIsKept ==
    \A w \in Workers : \A id \in CallIds[w] :
        LET Own(x) == x.by = w /\ x.id = id
        IN  (/\ <<w, id>> \notin c.again
             /\ \A n \in DOMAIN c.calls : Own(c.calls[n]) => ~c.calls[n].claim)
            => Once(LAMBDA x : Own(x) /\ ~Risky(x))

\* What a leader has read of is still asked for, as long as the worker lives, unless it
\* shares its approval.
AskedIsOwed ==
    \A x \in c.told : x.by \notin c.killed /\ x.n \notin c.mixed => c.asked[x.id] = x

CallsAreExact == EffectsAreEarned /\ RecordIsKept /\ AskedIsOwed

\* The call of an id that is completed or uncertain is not done again (src/README.md:379),
\* which does not hold: an approved command comes without its id.
ReplaysAreStopped ==
    \A w \in Workers, id \in AllIds, command \in Commands :
        Once(LAMBDA x : x.by = w /\ x.id = id /\ x.command = command)

=============================================================================
