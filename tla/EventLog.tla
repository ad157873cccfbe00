------------------------------ MODULE EventLog ------------------------------
(***************************************************************************)
(* What the session journal promises its callers: one totally ordered log  *)
(* that only ever grows, an acknowledgement only for an event that is in   *)
(* it, and readers that are shown prefixes of it.                          *)
(* Files, rotation, checkpoints, locks and caches are not visible at this  *)
(* level; Journal is shown to implement this module.                       *)
(***************************************************************************)
EXTENDS Naturals, Sequences

CONSTANT Procs

VARIABLES
  log,      \* the durable events, in order
  acked,    \* the events some append returned for
  seen      \* what each process was last shown

absVars == <<log, acked, seen>>

Init ==
  /\ log = << >>
  /\ acked = {}
  /\ seen = [p \in Procs |-> << >>]

(* One more event becomes durable, after all the others. *)
Extend ==
  /\ Len(log') = Len(log) + 1
  /\ SubSeq(log', 1, Len(log)) = log
  /\ UNCHANGED <<acked, seen>>

(* An append returns to its caller: the event is durable, and the caller
   sees it. *)
Acknowledge(p) ==
  /\ log # << >>
  /\ acked' = acked \cup {log[Len(log)]}
  /\ seen' = [seen EXCEPT ![p] = log]
  /\ UNCHANGED log

(* A reader is shown a prefix, perhaps not the latest. *)
Observe(p) ==
  /\ \E n \in 0..Len(log) : seen' = [seen EXCEPT ![p] = SubSeq(log, 1, n)]
  /\ UNCHANGED <<log, acked>>

(* A process that stops forgets what it saw. *)
Forget(p) ==
  /\ seen' = [seen EXCEPT ![p] = << >>]
  /\ UNCHANGED <<log, acked>>

Next ==
  \/ Extend
  \/ \E p \in Procs : Acknowledge(p) \/ Observe(p) \/ Forget(p)

Spec == Init /\ [][Next]_absVars
=============================================================================
