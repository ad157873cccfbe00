--------------------------- MODULE Conversations ---------------------------
(***************************************************************************)
(* One Feishu user: from the websocket (feishu/websocket.ts) through the   *)
(* input window and the dispatcher of runtime/FeishuBridge.ts to the PM of *)
(* the conversation and its forks, and from their replies through the      *)
(* aggregators (feishu/replyAggregator.ts) to the answers under the user's *)
(* messages.  The base PM serves one message at a time under a lock        *)
(* (feishuBusy); independent questions that arrive meanwhile get a fork    *)
(* each, up to MaxConcurrent, and the rest waits in the overflow queue.    *)
(* Conversations of different users share nothing of this.                 *)
(*                                                                         *)
(* The state is the record c: memory of the process, what the journal      *)
(* keeps of it, and the observations finals, fate and again.  Steps        *)
(* are uninterrupted pieces of the program; operators v -> v are parts of  *)
(* one.  Messages are numbered in the order of their first delivery.       *)
(*                                                                         *)
(* Left out: texts beyond what their classification decides, the repeated  *)
(* text within five seconds that is dropped unrecorded, reactions,         *)
(* artifact files (one more fragment of a turn), what the models remember  *)
(* (the questions and answers of forks that are copied to the base PM),    *)
(* and the paths for a PM that could not be created (its model is not      *)
(* configured) or that the terminal has resumed.  How a turn ends is module Leader's   *)
(* subject: here it may reply, release the conversation, and go on.        *)
(***************************************************************************)
EXTENDS Naturals, Sequences, FiniteSets, SequencesExt

CONSTANTS
    Count,          \* messages of the user (bound)
    Texts,          \* what they say: see Classes
    Deliveries,     \* deliveries by Feishu, repeated ones included (bound)
    Crashes,        \* deaths of the process (bound)
    None,           \* no message, no text
    MaxConcurrent   \* tasks of a user: the base PM and forks (3 in the code)

\* What inputKind, isStatusQuery and classifyFollowup tell apart:
\*   change  an instruction, which supersedes the work under way
\*   task    the same, marked as a new or parallel task
\*   ask     a question of its own      follow  a question about the work
\*   status  a question about progress
Classes == {"change", "task", "ask", "follow", "status"}

\* What the constants are (assumed where the module is instantiated).
ConversationsAssumption ==
    /\ Texts \subseteq Classes
    /\ {Count, Deliveries, Crashes} \subseteq Nat
    /\ MaxConcurrent \in Nat \ {0}

VARIABLES
    sent,     \* Feishu: how often each message has been delivered
    c

vars == <<sent, c>>

Messages == 1..Count
\* A fork is named by the message it is for and its delivery.
Forks == {f \in Messages \X (1..Deliveries) : f[1] + f[2] <= Deliveries + 1}
Base == <<None, 0>>                     \* the base PM
Agents == {Base} \cup Forks
Root(a) == a[1]

Lane == [buffer : SUBSET Messages, timer : BOOLEAN, sending : {None, "bubble", "card"},
         load : SUBSET Messages, root : Messages \cup {None}]
IdleLane == [buffer |-> {}, timer |-> FALSE, sending |-> None, load |-> {}, root |-> None]

ConversationsTypeOK ==
    /\ sent \in [Messages -> 0..Deliveries]
    /\ c \in [class : [Messages -> Texts \cup {None}],
              inbox : Seq(Messages), goal : BOOLEAN,
              input : [Messages -> {None, "open", "closed"}],
              seen : SUBSET Messages, window : Seq(Messages),
              replays : Seq(Messages), overflow : Seq(Messages),
              session : BOOLEAN, lock : BOOLEAN, task : Messages \cup {None},
              busy : BOOLEAN, old : BOOLEAN, work : Messages \cup {None}, waits : BOOLEAN,
              queue : Seq(Messages), slots : SUBSET Forks, run : SUBSET Forks,
              final : SUBSET Messages, lane : [Agents -> Lane], finals : [Messages -> Nat],
              fate : [Messages -> {None, "lost", "heard"}], again : SUBSET Messages,
              crashes : 0..Crashes]

Reaches(v, ms) == [v EXCEPT !.fate = [m \in Messages |-> IF m \in ms THEN "heard" ELSE @[m]]]
Suppressed(v, ms) == [v EXCEPT !.fate = [m \in Messages |->
                                     IF m \in ms /\ @[m] = None THEN "lost" ELSE @[m]]]

-----------------------------------------------------------------------------
(* The journal *)

Received(v, m) == [v EXCEPT !.inbox = IF Contains(@, m) THEN @ ELSE Append(@, m)]
Dispatched(v, m) == [v EXCEPT !.inbox = SelectSeq(@, LAMBDA x : x # m), !.class[m] = None]

Supersede(v) ==
    [v EXCEPT !.input = [m \in Messages |-> IF @[m] = "open" THEN "closed" ELSE @[m]],
              !.queue = <<>>, !.old = v.busy, !.waits = FALSE, !.goal = TRUE]

-----------------------------------------------------------------------------
(* The agent of the base PM *)

Begin(v, m) ==
    [v EXCEPT !.busy = TRUE, !.old = FALSE, !.work = m]

Enqueue(v, m) == IF v.busy THEN [v EXCEPT !.queue = Append(@, m)] ELSE Begin(v, m)

\* inputKind: everything that is not marked as a question is an instruction.
Instructs(v, m) == v.class[m] \in {"change", "task"}

\* receiveUserInput with acceptSessionInput: an input that the journal knows
\* is acknowledged, and served again only if it has not been; a new one is
\* recorded before it is acknowledged.
Accept(v, m) ==
    LET known == v.input[m] # None
        u == IF ~known /\ (Instructs(v, m) \/ ~v.goal) THEN Supersede(v) ELSE v
        w == Dispatched(IF known THEN u ELSE [u EXCEPT !.input[m] = "open"], m)
        drop == known /\ (v.input[m] = "closed" \/ Contains(v.queue, m) \/ (v.busy /\ v.work = m))
    IN  IF drop THEN w ELSE Enqueue(w, m)

-----------------------------------------------------------------------------
(* Answers *)

Task(v, a) == IF a = Base THEN v.task ELSE Root(a)

\* A fragment of a reply
Chunk(v, a, m) == [v EXCEPT !.lane[a].buffer = @ \cup {m}, !.lane[a].timer = TRUE]

\* Mutant of Flush: two sends of one aggregator overlap.
FlushOverlap(v, a, card) ==
    LET lane == v.lane[a]
        root == Task(v, a)
    IN  IF lane.buffer = {} THEN v
        ELSE LET u == [v EXCEPT !.lane[a].buffer = {}]
                 w == IF lane.sending # "bubble" THEN u
                      ELSE [u EXCEPT !.finals[lane.root] = @ + 1]
             IN  IF root \in v.final THEN w
                 ELSE [w EXCEPT !.lane[a].sending = IF card THEN "card" ELSE "bubble",
                                !.lane[a].load = lane.buffer, !.lane[a].root = root,
                                !.final = IF card THEN @ \cup {root} ELSE @]

\* flush: nothing while a send is under way.  sendBubble looks for an
\* earlier answer, sendCard claims the only one.
Flush(v, a, card) ==
    LET lane == v.lane[a]
        root == Task(v, a)
    IN  IF lane.sending # None \/ lane.buffer = {} THEN v
        ELSE LET u == [v EXCEPT !.lane[a].buffer = {}]
             IN  IF root \in v.final THEN Suppressed(u, lane.buffer)
                 ELSE [u EXCEPT !.lane[a].sending = IF card THEN "card" ELSE "bubble",
                                !.lane[a].load = lane.buffer, !.lane[a].root = root,
                                !.final = IF card THEN @ \cup {root} ELSE @]

\* Whether a flush sends: only then the format makes a difference.
Sends(v, a) == v.lane[a].sending = None /\ Task(v, a) \notin v.final

FlushAtEnd(v, a, card) == Flush([v EXCEPT !.lane[a].timer = FALSE], a, card)

-----------------------------------------------------------------------------
(* The dispatcher *)

StartTask(v, m) == [v EXCEPT !.lock = TRUE, !.task = m]

NewSession(v, m) == Accept(StartTask([v EXCEPT !.session = TRUE], m), m)

ToBase(v, m) == Accept(StartTask(v, m), m)

Fork(v, m) ==
    LET f == <<m, sent[m]>>
    IN  Dispatched([v EXCEPT !.slots = @ \cup {f}, !.run = @ \cup {f}], m)

\* Mutant of Overflow: acknowledged before it is admitted.
OverflowEarly(v, m) == Dispatched([v EXCEPT !.overflow = Append(@, m)], m)

Overflow(v, m) == [v EXCEPT !.overflow = Append(@, m)]

IsStatusQuery(v, m) == v.class[m] = "status"
IsFollowup(v, m) == v.class[m] = "follow"

WhileBusy(v, m) ==
    CASE IsStatusQuery(v, m) -> Dispatched(Reaches(v, {m}), m)
      [] IsFollowup(v, m) -> Accept(v, m)
      [] OTHER -> IF Cardinality(v.slots) < MaxConcurrent - 1 THEN Fork(v, m) ELSE Overflow(v, m)

\* dispatchMessage
Dispatch(v, m) ==
    LET u == Received(v, m)
    IN  CASE ~u.session -> NewSession(u, m)
          [] u.session /\ u.class[m] = "change" -> Accept(u, m)
          [] u.session /\ u.class[m] # "change" /\ u.lock -> WhileBusy(u, m)
          [] OTHER -> ToBase(u, m)

DrainPending(v) ==
    LET running == Cardinality(v.slots) + (IF v.lock THEN 1 ELSE 0)
    IN  IF v.overflow = <<>> \/ running >= MaxConcurrent THEN v
        ELSE Dispatch([v EXCEPT !.overflow = Tail(@)], Head(v.overflow))

-----------------------------------------------------------------------------
(* Ends of turns *)

\* drainConvModePM: turnEndHook of the base PM, which may have locked the
\* conversation for a message from the overflow queue; then the lock is freed.
BaseReleases(v, card) ==
    [DrainPending(FlushAtEnd([v EXCEPT !.lock = FALSE], Base, card)) EXCEPT !.lock = FALSE]

\* turnEndHook of a fork
ForkReleases(v, f, card) ==
    LET u == FlushAtEnd(v, f, card)
    IN  DrainPending([u EXCEPT !.slots = @ \ {f}])

EndOfSend(v) == [v EXCEPT !.busy = FALSE, !.old = FALSE]

\* A turn of the base PM ends; tools, children or reminders may start the
\* next one for the same message.  One that neither releases the conversation
\* nor goes on has failed, was silent, or has reported its end (agent.done).
BaseTurn(reply, release, goesOn, card) ==
    LET m == c.work
        heard == reply \/ release \/ goesOn
        d == [c EXCEPT !.input[m] = IF heard THEN "closed" ELSE @]
        u == IF reply THEN Chunk(d, Base, m) ELSE d
        w == IF release THEN BaseReleases(u, card) ELSE u
    IN  /\ c.busy /\ ~c.old
        /\ card => release /\ u.lane[Base].buffer # {} /\ Sends(u, Base)
        /\ c' = [EndOfSend(w) EXCEPT !.waits = goesOn /\ ~w.old]
        /\ UNCHANGED sent

\* The turn was superseded: it ends without a word.
OldTurnEnds ==
    /\ c.busy /\ c.old
    /\ c' = EndOfSend(c)
    /\ UNCHANGED sent

\* setImmediate at the end of send
Drain ==
    /\ ~c.busy /\ c.queue # <<>>
    /\ c' = Begin([c EXCEPT !.queue = Tail(@)], Head(c.queue))
    /\ UNCHANGED sent

\* Results of tools, reports of children, reminders
GoesOn ==
    /\ ~c.busy /\ c.waits
    /\ c' = [c EXCEPT !.busy = TRUE, !.waits = FALSE]
    /\ UNCHANGED sent

\* A turn of a fork ends.  A fork that reports its end (agent.done) leaves
\* the handler before its hook: its slot stays taken.
ForkTurn(f, reply, release, goesOn, card) ==
    LET u == IF reply THEN Chunk(c, f, Root(f)) ELSE c
        w == IF release THEN ForkReleases(u, f, card) ELSE u
    IN  /\ f \in c.run
        /\ card => release /\ u.lane[f].buffer # {} /\ Sends(u, f)
        /\ c' = IF goesOn THEN w ELSE [w EXCEPT !.run = @ \ {f}]
        /\ UNCHANGED sent

-----------------------------------------------------------------------------
(* Timers and the network *)

IdleFlush(a, card) ==
    /\ c.lane[a].timer
    /\ card => Sends(c, a)
    /\ c' = FlushAtEnd(c, a, card)
    /\ UNCHANGED sent

\* A send ends, well or not: the reply APIs report failure by null, and
\* nobody looks.
SendEnds(a) ==
    LET lane == c.lane[a]
    IN  /\ lane.sending # None
        /\ c' = [Reaches(c, lane.load) EXCEPT
                     !.lane[a] = [lane EXCEPT !.sending = None, !.load = {}, !.root = None],
                     !.final = @ \cup {lane.root}, !.finals[lane.root] = @ + 1]
        /\ UNCHANGED sent

-----------------------------------------------------------------------------
(* What comes from Feishu *)

Total(f) == FoldFunction(LAMBDA x, y : x + y, 0, f)

\* A frame of the websocket.  Messages that come in one window have one
\* class, so a message that comes again may come with another.
Deliver(m, t) ==
    LET fresh == m \notin c.seen
    IN  /\ Total(sent) < Deliveries
        /\ \A x \in 1..(m - 1) : sent[x] > 0
        /\ sent' = [sent EXCEPT ![m] = @ + 1]
        /\ c' = IF ~fresh THEN c
                ELSE [c EXCEPT !.seen = @ \cup {m}, !.window = Append(@, m),
                               !.class[m] = IF Contains(c.inbox, m) THEN @ ELSE t,
                               !.again = IF sent[m] > 0 THEN @ \cup {m} ELSE @]

\* The process dies and is started again.
Restart(v) ==
    [v EXCEPT !.seen = {}, !.window = <<>>, !.replays = v.inbox,
              !.overflow = <<>>, !.session = FALSE, !.lock = FALSE, !.task = None,
              !.busy = FALSE, !.old = FALSE, !.work = None, !.waits = FALSE, !.queue = <<>>,
              !.slots = {}, !.run = {}, !.final = {}, !.finals = [m \in Messages |-> 0],
              !.lane = [a \in Agents |-> IdleLane], !.again = {}, !.crashes = @ + 1,
              !.class = [m \in Messages |-> IF Contains(v.inbox, m) THEN @[m] ELSE None]]

\* The process dies in dispatchMessage, after the record of the input and
\* before its acknowledgement.
DiesIn(v, m) ==
    LET u == Dispatch(v, m)
    IN  Restart([u EXCEPT !.inbox = Received(v, m).inbox, !.class = v.class])

DispatchOrDie(v, m) ==
    /\ \/ c' = Dispatch(v, m)
       \/ c.crashes < Crashes /\ c' = DiesIn(v, m)
    /\ UNCHANGED sent

\* The window closes: the fragments become one message, named by the first,
\* of the class of one of them.
CloseWindow ==
    /\ c.window # <<>> /\ c.replays = <<>>
    /\ \E m \in ToSet(c.window) :
           LET first == Head(c.window)
               class == [x \in Messages |->
                           CASE x = first -> c.class[m]
                             [] /\ x # first /\ x \in ToSet(Tail(c.window))
                                /\ ~Contains(c.inbox, x) -> None
                             [] OTHER -> c.class[x]]
           IN  DispatchOrDie([c EXCEPT !.window = <<>>, !.class = class], first)

\* queued("feishu") at the start: what was journaled and not admitted
Replay ==
    /\ c.replays # <<>>
    /\ DispatchOrDie([c EXCEPT !.replays = Tail(@)], Head(c.replays))

Crash ==
    /\ c.crashes < Crashes
    /\ c' = Restart(c)
    /\ UNCHANGED sent

-----------------------------------------------------------------------------

Init ==
    /\ sent = [m \in Messages |-> 0]
    /\ c = [class |-> [m \in Messages |-> None],
            inbox |-> <<>>, goal |-> FALSE, input |-> [m \in Messages |-> None],
            seen |-> {}, window |-> <<>>, replays |-> <<>>, overflow |-> <<>>,
            session |-> FALSE, lock |-> FALSE, task |-> None, busy |-> FALSE, old |-> FALSE,
            work |-> None, waits |-> FALSE, queue |-> <<>>, slots |-> {}, run |-> {},
            final |-> {}, lane |-> [a \in Agents |-> IdleLane],
            finals |-> [m \in Messages |-> 0], fate |-> [m \in Messages |-> None],
            again |-> {}, crashes |-> 0]

Next ==
    \/ \E m \in Messages, t \in Texts : Deliver(m, t)
    \/ CloseWindow \/ Replay \/ Crash
    \/ \E reply, release, goesOn, card \in BOOLEAN : BaseTurn(reply, release, goesOn, card)
    \/ OldTurnEnds \/ Drain \/ GoesOn
    \/ \E f \in c.run, reply, release, goesOn, card \in BOOLEAN :
           ForkTurn(f, reply, release, goesOn, card)
    \/ \E a \in Agents, card \in BOOLEAN : IdleFlush(a, card)
    \/ \E a \in Agents : SendEnds(a)

Spec == Init /\ [][Next]_vars

-----------------------------------------------------------------------------
(* Properties *)

\* A message gets one final answer at most, bubble or card, whatever flushes
\* of timers and turn ends overlap with slow sends and with other agents of
\* the conversation.  (A message that Feishu delivers again after a restart
\* is not known to the new process: c.again.)
OneFinal == ConversationsTypeOK /\ \A m \in Messages \ c.again : c.finals[m] <= 1

\* The durable inbox holds exactly what somebody will still dispatch: a
\* message in overflow survives a restart, and none is left there with nobody
\* to take it.
InboxHasTaker ==
    LET Taken == ToSet(c.overflow) \cup ToSet(c.replays)
    IN  ToSet(c.inbox) \ c.again = Taken \ c.again

\* Nothing is under way or due.
Rest ==
    /\ ~c.busy /\ c.queue = <<>> /\ ~c.waits /\ c.run = {}
    /\ \A a \in Agents : c.lane[a].sending = None /\ ~c.lane[a].timer

\* All follow-ups are eventually answered: when everything rests, no message
\* has had a reply of which nothing has been handed to Feishu.
FollowupsAreAnswered ==
    LET left == UNION {c.lane[a].buffer : a \in Agents}
    IN  Rest => \A m \in Messages : m \in left \/ c.fate[m] = "lost" => c.fate[m] = "heard"
=============================================================================
