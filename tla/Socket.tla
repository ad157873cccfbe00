-------------------------------- MODULE Socket --------------------------------
(* The long connection to Feishu (feishu/websocket.ts, dedupe.ts) up to the window    *)
(* that joins messages (runtime/FeishuBridge.ts): the link with its bounded           *)
(* reconnects, and the filters that a message passes, which Feishu delivers at least  *)
(* once.  Module Conversations follows a message from there on.                       *)
(*                                                                                    *)
(* Left out: the frame's encoding and the proxy.  A link that has died without a      *)
(* close is open here: the pings are sent and nobody misses their answers.            *)
EXTENDS Naturals, Sequences, FiniteSets, Functions

CONSTANTS
    Mail,        \* messages
    Kind,        \* Kind[m]: "text", "post", "garbled", "image" or "empty"
    Content,     \* Content[m]: the text of m
    Blank,       \* no text
    Reconnects,  \* MAX_RECONNECT_ATTEMPTS
    Window,      \* ids that BoundedMessageDeduper keeps (1000)
    EventWindow, \* ids that seenEventIds keeps (500)
    Broken,      \* bound: failures of the link
    Sent,        \* bound: deliveries
    Lives,       \* bound: starts of the process
    None

VARIABLE w

SocketAssumption ==
    /\ DOMAIN Content = Mail /\ DOMAIN Kind = Mail
    /\ Window \in Nat \ {0} /\ EventWindow \in Nat \ {0}
    /\ {Reconnects, Broken, Sent, Lives} \subseteq Nat
    /\ None \notin Nat /\ \A m \in Mail : Content[m] # None

\* A retry of a message comes with the first event id or with another.
Events == Mail \X {"first", "again"}

\* `seen' and `events' are the two filters, oldest first; `recent' is the last text when it
\* is less than five seconds old.  For each message handed on in this life, `since' counts
\* the ids that were claimed afterwards; `fails' are the failures since the last open link.
Fresh == [phase |-> "fetching", tries |-> 0, seen |-> <<>>, events |-> <<>>, recent |-> None,
          since |-> [m \in Mail |-> None], fails |-> 0, failed |-> 0, sent |-> 0, lives |-> 1,
          early |-> {}]

Init == w = Fresh

-----------------------------------------------------------------------------
(* The link *)

Reopened(v) == [v EXCEPT !.phase = "open", !.tries = 0, !.fails = 0]

scheduleReconnect(v) ==
    IF v.tries >= Reconnects THEN [v EXCEPT !.phase = "gaveup"]
    ELSE [v EXCEPT !.phase = "waiting", !.tries = @ + 1]

\* fetchWsEndpoint answers, with an address that `ws' accepts or throws at: the latter is
\* caught by nobody, and no timer is left.
Fetched ==
    /\ w.phase = "fetching"
    /\ \E usable \in BOOLEAN :
          /\ usable \/ w.failed < Broken
          /\ w' = IF usable THEN [w EXCEPT !.phase = "connecting"]
                  ELSE [w EXCEPT !.phase = "broken", !.failed = @ + 1]

Opened == w.phase = "connecting" /\ w' = Reopened(w)

\* The bootstrap fails, or the link closes before or after it was open.
Fails ==
    /\ w.phase \in {"fetching", "connecting", "open"} /\ w.failed < Broken
    /\ w' = scheduleReconnect([w EXCEPT !.fails = @ + 1, !.failed = @ + 1])

Retry == w.phase = "waiting" /\ w' = [w EXCEPT !.phase = "fetching"]

Restart ==
    /\ w.lives < Lives
    /\ w' = [Fresh EXCEPT !.lives = w.lives + 1, !.failed = w.failed, !.sent = w.sent]

-----------------------------------------------------------------------------
(* The messages *)

Youngest(ids, n) == SubSeq(ids, 1 + IF Len(ids) > n THEN Len(ids) - n ELSE 0, Len(ids))

\* checkAndAdd of an id that is not there
add(v, m) ==
    [v EXCEPT !.seen = Youngest(Append(@, m), Window),
              !.since = [x \in Mail |-> IF v.since[x] = None THEN None ELSE v.since[x] + 1]]

\* A content that cannot be parsed is taken for the text itself.
normalizeFeishuMessage(m) == IF Kind[m] \in {"text", "post", "garbled"} THEN Content[m] ELSE Blank

\* onMessage: the same text within five seconds is dropped.
onMessage(v, m) ==
    IF v.recent = Content[m] THEN v
    ELSE [v EXCEPT !.recent = Content[m], !.since[m] = 0,
                   !.early = IF v.since[m] # None /\ v.since[m] <= Window THEN @ \cup {m} ELSE @]

Deliver ==
    /\ w.phase = "open" /\ w.sent < Sent
    /\ \E e \in Events :
          LET m == e[1]
              v == [w EXCEPT !.sent = @ + 1]
          IN  w' = IF normalizeFeishuMessage(m) = Blank \/ m \in Range(w.seen) THEN v
                   ELSE IF e \in Range(w.events) THEN add(v, m)
                   ELSE onMessage([add(v, m) EXCEPT
                                       !.events = Youngest(Append(@, e), EventWindow)], m)

Later == w.recent # None /\ w' = [w EXCEPT !.recent = None]

Next == Fetched \/ Opened \/ Fails \/ Retry \/ Restart \/ Deliver \/ Later

-----------------------------------------------------------------------------
(* Properties *)

\* A message is not handed on again before as many others as the window holds were, across
\* reconnects and with another event id (feishu/websocket.ts:119, dedupe.ts).
HandedOnce == w.early = {}

\* What the filter claims has been handed on, or its text has: a retry that the filter
\* stops takes nothing away.
ClaimedAreHanded ==
    \A m \in Range(w.seen) : \E x \in Mail : w.since[x] # None /\ Content[x] = Content[m]

\* The client gives up only after one failure more than the reconnects it allows itself,
\* without an open link in between, and until then an attempt is under way or due.
Persists == w.phase = "gaveup" => w.fails = Reconnects + 1

SocketIsKept == HandedOnce /\ ClaimedAreHanded /\ Persists

=============================================================================
