------------------------------- MODULE Requests -------------------------------
(* The requests of the PM's agent (adapters/httpAgent.ts): one at a time, with *)
(* a queue, retries, a chain of models to fall back on, a model selected while  *)
(* a request is under way, a permit of the budget for every attempt, and the    *)
(* stop after a subscription has reached its allowance.                         *)
EXTENDS Naturals, Sequences

CONSTANTS
    Chain,      \* the models of the role, in the order of preference
    Other,      \* a model the user may select instead
    Cli,        \* the models behind a command-line client, which are never retried
    MaxRetries, \* MAX_RETRIES
    None,       \* no model, no input
    Inputs, Selections, Lives   \* bounds: inputs and results heard, selections, restarts

VARIABLE r

RequestsAssumption ==
    /\ Chain \in Seq(STRING) /\ Chain # <<>>
    /\ Other # None /\ \A i \in DOMAIN Chain : Chain[i] # None
    /\ MaxRetries \in Nat /\ Inputs \in Nat /\ Selections \in Nat /\ Lives \in Nat

\* Inputs of the user and notices carry an id; results of tools and reminders do not.
Identified == {"query", "continue", "change", "notice"}
Sorts == Identified \cup {"plain"}

\* A permit is the model it was priced for.  `stopped' is the agent's own flag,
\* `mark' is the last error in the journal, `halted' whether the user was told
\* that execution has stopped and has not asked to go on.
Unasked ==
    [phase |-> "rest", queue |-> <<>>, item |-> None, attempt |-> 0, corrected |-> FALSE,
     models |-> Chain, route |-> 1, selected |-> None, permit |-> None, open |-> 0,
     aborted |-> FALSE, current |-> TRUE, talk |-> FALSE, stopped |-> FALSE, drain |-> FALSE,
     mark |-> FALSE, halted |-> FALSE, forgot |-> FALSE, stuck |-> FALSE,
     heard |-> 0, chosen |-> 0, lives |-> 0]

Init == r = Unasked

Busy(v) == v.phase \in {"backoff", "prices", "call"}
Model(v) == v.models[v.route]

\* _applySelectedModel.
Apply(v) ==
    IF v.selected = None THEN v
    ELSE [v EXCEPT !.models = <<v.selected>>, !.route = 1, !.selected = None]

-----------------------------------------------------------------------------
(* The end of send *)

\* The last block of send: the agent is free, and a drain is due if something waits.
\* Mutant of Free: the drain is left to the next input.
FreeUndrained(v) ==
    [v EXCEPT !.phase = "rest", !.item = None, !.aborted = FALSE, !.current = TRUE]

Free(v) ==
    [v EXCEPT !.phase = "rest", !.item = None, !.aborted = FALSE, !.current = TRUE,
              !.drain = @ \/ v.queue # <<>>]

\* What an error leaves of the queue, and in the journal as the agent's last error.
Left(queue, e) ==
    CASE e = "allowance" -> SelectSeq(queue, LAMBDA k : k \in Identified)
      [] e = "pool" -> SelectSeq(queue, LAMBDA k : k = "query")
      [] OTHER -> queue

Report(v, e) ==
    Free([v EXCEPT !.queue = Left(@, e), !.mark = (e = "allowance"),
                   !.stopped = @ \/ e = "allowance", !.halted = @ \/ e = "allowance"])

Over(v) == v.aborted \/ ~v.current

\* A permit is settled with what the answer or the error says of its use.
Settled(v) == IF v.permit = None THEN v ELSE [v EXCEPT !.permit = None, !.open = @ - 1]

-----------------------------------------------------------------------------
(* An attempt *)

Retryable == {"net"}
CanFallBack == {"net", "refused"}

NextAttempt(v) ==
    IF Over(v) THEN Free(v)
    ELSE [v EXCEPT !.attempt = @ + 1, !.phase = "backoff"]

\* The catch block of an attempt.
Failed(u, e) ==
    LET v == Settled(u) IN
    IF e = "protocol" /\ ~v.corrected /\ v.attempt < MaxRetries
    THEN NextAttempt([v EXCEPT !.corrected = TRUE])
    ELSE IF e \in CanFallBack /\ v.route < Len(v.models) /\ v.attempt < MaxRetries
    THEN NextAttempt([v EXCEPT !.route = @ + 1])
    ELSE IF e \in Retryable /\ Model(v) \notin Cli /\ v.attempt < MaxRetries
    THEN NextAttempt(v)
    ELSE IF v.current THEN Report(v, e) ELSE Free(v)

\* An explicit input ends the stop of a subscription, here and in the journal.
Resumed(v) ==
    IF v.item \in {"continue", "change"}
    THEN [v EXCEPT !.stopped = FALSE, !.halted = FALSE, !.mark = IF v.stopped THEN FALSE ELSE @]
    ELSE v

\* From the prices to the call: the quota, the stop, the reservation.
Reserve(u, w) ==
    \/ Model(u) \in Cli /\ w = Failed(u, "refused")
    \/ LET v == Resumed(u) IN
       IF v.stopped /\ v.item # "query" THEN w = Failed(v, "allowance")
       ELSE \/ w = Failed(v, "pool")
            \/ \E talk \in {v.item = "query", TRUE} :
                  w = [v EXCEPT !.phase = "call", !.permit = Model(v), !.open = @ + 1,
                                !.talk = talk]

\* The body of the loop up to its first wait.
Try(u, w) ==
    IF Over(u) THEN w = Free(u)
    ELSE LET v == Apply(u)
         IN  \/ Model(v) \notin Cli /\ w = [v EXCEPT !.phase = "prices"]
             \/ Reserve(v, w)

\* send: the context of a requirement that has grown too large cannot be
\* compiled, and that way out has no drain.
Send(v, item, w) ==
    \/ Try([v EXCEPT !.item = item, !.attempt = 0, !.corrected = FALSE, !.talk = FALSE], w)
    \/ w = [v EXCEPT !.mark = FALSE, !.stuck = v.queue # <<>>]

Enqueue(v, item, w) ==
    IF Busy(v) THEN w = [v EXCEPT !.queue = Append(@, item)] ELSE Send(v, item, w)

-----------------------------------------------------------------------------
(* Steps *)

Backoff == r.phase = "backoff" /\ Try(r, r')

\* syncModelPrices comes back: the requirement and the abort are looked at again.
Prices ==
    /\ r.phase = "prices"
    /\ IF Over(r) THEN r' = Free(r) ELSE Reserve(r, r')

\* An answer, with or without text, of the wanted requirement or of an older one.
Answer == r.phase = "call" /\ ~r.aborted /\ r' = Free(Settled(r))

\* The streams of _doStream and _readStream end with an error or fall silent;
\* a command-line client reports its own kinds of failure.
CallFails ==
    /\ r.phase = "call" /\ ~r.aborted
    /\ \E e \in {"net", "refused", "fatal"} \cup
                IF r.permit \in Cli THEN {"allowance", "protocol"} ELSE {} :
          r' = Failed(r, e)

Aborted == r.phase = "call" /\ r.aborted /\ r' = Free(Settled(r))

\* The process has moved to another workspace: nothing of this one is written.
Leave == r.phase = "call" /\ r' = [r EXCEPT !.phase = "gone", !.queue = <<>>, !.drain = FALSE]

\* The callback that drains the queue: it may find that a reminder was faster.
Drain ==
    /\ r.drain
    /\ LET v == [r EXCEPT !.drain = FALSE] IN
       IF Busy(v) \/ v.queue = <<>> THEN r' = v
       ELSE Send([v EXCEPT !.queue = Tail(@)], Head(v.queue), r')

\* kill: the queue is dropped and the request under way is aborted.
Killed(v) == [v EXCEPT !.queue = <<>>, !.aborted = @ \/ Busy(v), !.stuck = FALSE]

\* receiveUserInput, receiveRuntimeNotice and sendCommand; a changed requirement
\* stops the agent before its input is queued (session/Control.ts).
Hear ==
    /\ r.heard < Inputs /\ r.phase # "gone"
    /\ \E item \in Sorts :
          LET v == [r EXCEPT !.heard = @ + 1, !.stuck = FALSE]
          IN  Enqueue(IF item = "change" THEN [Killed(v) EXCEPT !.current = ~Busy(v)] ELSE v,
                      item, r')

\* selectModel: between requests at once, otherwise with the next attempt.
Select ==
    /\ r.chosen < Selections /\ r.phase # "gone"
    /\ LET v == [r EXCEPT !.chosen = @ + 1, !.selected = Other]
       IN  r' = IF Busy(v) THEN v ELSE Apply(v)

\* The process dies and starts again: the constructor reads the stop from the
\* journal, and resumeSession asks the model to look at the state of things.
\* Permits under way stay reserved for good.
Restart ==
    /\ r.lives < Lives /\ r.phase # "gone"
    /\ Send([Unasked EXCEPT !.lives = r.lives + 1, !.heard = r.heard, !.chosen = r.chosen,
                          !.mark = r.mark, !.stopped = r.mark, !.halted = r.halted,
                          !.forgot = r.forgot \/ (r.halted /\ ~r.mark)],
            "plain", r')

Next ==
    \/ Backoff \/ Prices \/ Answer \/ CallFails \/ Aborted \/ Leave
    \/ Drain \/ Hear \/ Select \/ Restart

-----------------------------------------------------------------------------
(* Properties *)

\* A permit is open exactly while its request is under way (or the workspace was
\* left), whatever the outcome, and the request goes to the model it was priced
\* for: a model selected meanwhile waits for the next attempt (selectModel).
PermitsAreSettled ==
    /\ r.open = IF r.phase \in {"call", "gone"} THEN 1 ELSE 0
    /\ r.phase = "call" => r.permit = Model(r)

\* Nothing rests in the queue of an idle agent without a drain to come, unless
\* the context could not be compiled.
QueueHasDrain == r.phase = "rest" /\ r.queue # <<>> => r.drain \/ r.stuck

\* After a subscription has reached its allowance only questions are asked until
\* the user continues or changes the goal, over restarts too, unless a later
\* error has taken the place of the stop in the journal.
StopHolds == r.phase = "call" /\ r.halted => r.item = "query" \/ r.forgot

RequestsAreAccounted == PermitsAreSettled /\ QueueHasDrain /\ StopHolds

=============================================================================
