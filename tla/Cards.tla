-------------------------------- MODULE Cards --------------------------------
(* The card that answers a message of Feishu: the scheduler that bundles its     *)
(* changes (feishu/patch-scheduler.ts), the renderer that creates and patches it  *)
(* (feishu/card-renderer.ts), the mark on the user's message while it is worked   *)
(* on, and the access token that all calls share (feishu/auth.ts).               *)
(*                                                                              *)
(* Today's bridge only ends tasks; fragments of an answer are what the renderer   *)
(* is prepared for.  Attachments are left out.                                    *)
EXTENDS Naturals, Sequences, FiniteSets

CONSTANTS
    Fragments,  \* bound: fragments of the answer before its end
    Failures,   \* bound: calls that fail
    Expiries    \* bound: times that the token grows old

CardsAssumption == {Fragments, Failures, Expiries} \subseteq Nat

VARIABLE k

\* `timer' is the last timer the scheduler has set, `timers' those that are armed.  A call
\* carries the content it was built with; `shows' is what each card shows.
Init ==
    k = [version |-> 0, ended |-> FALSE, dirty |-> FALSE, pending |-> FALSE,
         timer |-> 0, timers |-> {}, calls |-> {}, card |-> 0, shows |-> <<>>, text |-> 0,
         token |-> "none", fetches |-> 0, mark |-> "asked",
         overlap |-> FALSE, failures |-> 0, expiries |-> 0]

-----------------------------------------------------------------------------
(* The token *)

\* getToken: a caller joins the fetch under way, takes the token there is, or fetches.
Ask(v, call) ==
    IF v.fetches > 0 THEN [v EXCEPT !.calls = @ \cup {call}]
    ELSE IF v.token = "fresh" THEN [v EXCEPT !.calls = @ \cup {[call EXCEPT !.stage = "send"]}]
    ELSE [v EXCEPT !.calls = @ \cup {call}, !.fetches = 1]

Expires ==
    /\ k.token = "fresh" /\ k.expiries < Expiries
    /\ k' = [k EXCEPT !.token = "old", !.expiries = @ + 1]

-----------------------------------------------------------------------------
(* The scheduler *)

Armed(v, n) == [v EXCEPT !.timer = @ + n, !.timers = @ \cup (v.timer + 1)..(v.timer + n)]

Schedule(v) ==
    LET u == [v EXCEPT !.dirty = TRUE]
    IN  IF u.pending THEN u ELSE Armed([u EXCEPT !.pending = TRUE], 1)

\* fire, up to its call: the card is created or patched with what there is now.
Fire(v) ==
    IF ~v.dirty THEN [v EXCEPT !.pending = FALSE]
    ELSE Ask([v EXCEPT !.dirty = FALSE, !.overlap = @ \/ v.calls # {}],
             [stage |-> "token", card |-> v.card, version |-> v.version])

\* flush cancels the last timer.
FlushNow(v) == Fire([v EXCEPT !.dirty = TRUE, !.timers = @ \ {v.timer}])

\* fire, after its call; n of them at once.
Fired(v, n) == IF v.dirty THEN Armed(v, n) ELSE [v EXCEPT !.pending = FALSE]

\* A patch that failed: the text is sent instead, and nothing is looked at again.
FellBack(v) == [v EXCEPT !.pending = FALSE, !.text = v.version]

\* The outcome of a call.  A card that could not be created is no failure to fire.
Ended(v, call, arrived, ok) ==
    LET u == [v EXCEPT !.calls = @ \ {call}, !.failures = IF ok THEN @ ELSE @ + 1] IN
    IF call.card = 0
    THEN Fired([u EXCEPT !.shows = IF arrived THEN Append(@, call.version) ELSE @,
                         !.card = IF ok THEN Len(u.shows) + 1 ELSE @], 1)
    ELSE LET w == [u EXCEPT !.shows[call.card] = IF arrived THEN call.version ELSE @]
         IN  IF ok THEN Fired(w, 1) ELSE FellBack(w)

-----------------------------------------------------------------------------
(* Steps *)

\* agent_delta, as long as the answer goes on.
Fragment ==
    /\ k.version < Fragments /\ ~k.ended
    /\ k' = Schedule([k EXCEPT !.version = @ + 1])

\* agent_done and task_done: the mark is taken off if it is known by now.
Finish ==
    /\ ~k.ended
    /\ k' = FlushNow(Schedule([k EXCEPT !.version = @ + 1, !.ended = TRUE,
                                        !.mark = IF @ = "there" THEN "gone" ELSE @]))

TimerFires == \E x \in k.timers : k' = Fire([k EXCEPT !.timers = @ \ {x}])

\* doFetchToken: whoever waits goes on.
TokenComes ==
    /\ k.fetches > 0
    /\ k' = [k EXCEPT !.fetches = @ - 1, !.token = "fresh",
                      !.calls = {[call EXCEPT !.stage = "send"] : call \in @}]

\* Everybody who waits fails with it, and ends as a call of its own would.
TokenFails ==
    /\ k.fetches > 0 /\ k.failures < Failures
    /\ LET waiting == {call \in k.calls : call.stage = "token"}
           creating == {call \in waiting : call.card = 0}
           u == [k EXCEPT !.fetches = @ - 1, !.calls = @ \ waiting,
                          !.failures = @ + Cardinality(waiting)]
           v == IF creating = {} THEN u ELSE Fired(u, Cardinality(creating))
       IN  k' = IF creating = waiting THEN v ELSE FellBack(v)

CallEnds ==
    \E call \in k.calls :
        /\ call.stage = "send"
        /\ \/ k' = Ended(k, call, TRUE, TRUE)
           \/ /\ k.failures < Failures
              /\ \E arrived \in BOOLEAN : k' = Ended(k, call, arrived, FALSE)

\* addProcessingReaction answers.
Marked == k.mark = "asked" /\ k' \in {[k EXCEPT !.mark = "there"], [k EXCEPT !.mark = "none"]}

Next ==
    \/ Fragment \/ Finish \/ TimerFires \/ Expires
    \/ TokenComes \/ TokenFails \/ CallEnds \/ Marked

-----------------------------------------------------------------------------
(* Properties *)

Quiet == k.timers = {} /\ k.calls = {}

\* While nothing has failed, a change that is not sent yet has a timer or a call that will
\* look for it, and the scheduler never takes itself for busy when nothing is coming, after
\* a failure neither.
ChangeHasTaker == Quiet => ~k.pending /\ (k.dirty => k.failures > 0)

\* When everything is sent and nothing has failed there is one card, and it shows the last
\* state, unless the end of the task came while a change was on its way.
CardIsCurrent ==
    Quiet /\ ~k.overlap /\ k.failures = 0 /\ k.version > 0 => k.shows = <<k.version>>

\* However many calls need a token, one fetch is under way for all of them, and none of
\* them waits without one.
FetchIsShared ==
    /\ k.fetches <= 1
    /\ (\E call \in k.calls : call.stage = "token") => k.fetches = 1

CardsAreKept == ChangeHasTaker /\ CardIsCurrent /\ FetchIsShared

\* One card for one task (feishu/card-renderer.ts:2), which does not hold: the end of a
\* task does not wait for the creation that is under way.
OneCard == Len(k.shows) <= 1

\* An answer that has ended arrives as a card or, "best-effort", as text, which does not
\* hold: a card that could not be created counts as sent (feishu/message.ts:445).
AnswerArrives ==
    Quiet /\ k.ended => k.text = k.version \/ \E i \in DOMAIN k.shows : k.shows[i] = k.version

=============================================================================
