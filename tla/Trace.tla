-------------------------------- MODULE Trace --------------------------------
(* The trace of who told whom what (runtime/AgentOSJournal.ts and                     *)
(* AgentOSJournalBridge.ts): each event of the store becomes an envelope between two  *)
(* roles, which is written to a file if the routes of the orchestration mode allow    *)
(* it.  Events of managed sessions have a revision and go to the session journal      *)
(* instead (module Journal).                                                          *)
(*                                                                                    *)
(* Left out: payloads, and the wiki candidates made from commands that no event maps  *)
(* to.                                                                                *)
EXTENDS Naturals, Sequences, FiniteSets, Functions

CONSTANTS
    Role,    \* Role[a]: the role of an agent
    Parent,  \* Parent[a]: its parent, or None
    Happens, \* bound: events
    Lost,    \* bound: saves that fail
    Dies,    \* bound: restarts
    None

VARIABLE j

Staff == DOMAIN Role

TraceAssumption ==
    /\ Range(Role) \subseteq {"pm", "leader", "worker", "secretary"}
    /\ DOMAIN Parent = Staff /\ Range(Parent) \subseteq Staff \cup {None}
    /\ None \notin Staff \cup {"user"} /\ "user" \notin Staff
    /\ {Happens, Lost, Dies} \subseteq Nat

-----------------------------------------------------------------------------
(* The routes *)

LEADER_TO_WORKER ==
    {"agent.spawn", "task.assign", "task.cancel", "ctx.provide", "ctx.request",
     "tool.request", "question.answer"}
PM_TO_LEADER == LEADER_TO_WORKER \ {"tool.request"}
WORKER_TO_LEADER ==
    {"task.progress", "task.result", "task.fail", "tool.result", "finding.report",
     "artifact.produce", "exception.report", "question.ask", "agent.done", "agent.heartbeat"}
LEADER_TO_PM == (WORKER_TO_LEADER \ {"tool.result"}) \cup {"decision.record"}
SECRETARY_CMDS == {"wiki.patch", "ctx.provide", "decision.record", "exception.report"}
WRITABLE_TO_USER == {"task.result", "task.fail", "question.answer"}
TO_SYSTEM == {"agent.done", "exception.report", "agent.heartbeat"}

\* What is allowed in every mode.
Table(from, to, cmd) ==
    \/ to = "system" /\ cmd \in TO_SYSTEM
    \/ to = "user" /\ from # "worker" /\ cmd \in WRITABLE_TO_USER
    \/ <<from, to>> = <<"pm", "leader">> /\ cmd \in PM_TO_LEADER
    \/ <<from, to>> = <<"leader", "pm">> /\ cmd \in LEADER_TO_PM
    \/ <<from, to>> = <<"leader", "worker">> /\ cmd \in LEADER_TO_WORKER
    \/ <<from, to>> = <<"worker", "leader">> /\ cmd \in WORKER_TO_LEADER
    \/ "secretary" \in {from, to} /\ to \notin {"user", "system"} /\ cmd \in SECRETARY_CMDS
    \/ from = "system" /\ to \notin {"user", "system", "secretary"}

validateRoute(mode, from, to, cmd) ==
    \/ Table(from, to, cmd)
    \/ /\ mode = "adaptive"
       /\ \/ <<from, to>> = <<"pm", "worker">> /\ cmd \in LEADER_TO_WORKER
          \/ <<from, to>> = <<"worker", "pm">> /\ cmd \in WORKER_TO_LEADER \cup {"ctx.provide"}

-----------------------------------------------------------------------------
(* From an event to an envelope *)

\* roleForAgent: an agent that the store does not know speaks as the system.
roleOf(v, a) ==
    IF a = "user" THEN "user" ELSE IF a = None \/ a \notin v.known THEN "system" ELSE Role[a]

\* eventToEnvelopes.  A child that is spawned has the role it is spawned in, whether the
\* store knows it or not; "notified" is a task's good end and the hand-up of a unit.
Envelope(v, type, a, to) ==
    LET up(cmd) == [from |-> roleOf(v, a), to |-> roleOf(v, Parent[a]), cmd |-> cmd]
    IN  CASE type = "spawn" -> [from |-> roleOf(v, Parent[a]), to |-> Role[a],
                                cmd |-> "agent.spawn"]
          [] type = "message" -> [from |-> roleOf(v, a), to |-> roleOf(v, to),
                                  cmd |-> IF to = "user" THEN "task.result" ELSE "ctx.provide"]
          [] type = "tool.result" -> [from |-> "system", to |-> roleOf(v, a),
                                      cmd |-> "tool.result"]
          [] type = "agent.done" -> up("agent.done")
          [] type = "agent.error" -> up("exception.report")
          [] type = "notified" -> up("task.result")
          [] type = "failed" -> up("task.fail")

Endings == {"agent.done", "agent.error", "notified", "failed"}

-----------------------------------------------------------------------------
(* Steps *)

\* `known' are the agents of the store, `entries' the trace in memory, `file' the saved
\* one; `ended' are the endings seen by this process, `saved' what was once in the file.
Init ==
    \E mode \in {"hierarchical", "adaptive"} :
        j = [mode |-> mode, known |-> {a \in Staff : Parent[a] = None}, entries |-> <<>>,
             file |-> <<>>, seen |-> 0, ended |-> {}, saved |-> {}, lost |-> 0, died |-> 0]

\* append: an entry that cannot be saved stays in memory, and the store goes on.
append(v, env, fails) ==
    IF ~validateRoute(v.mode, env.from, env.to, env.cmd) THEN v
    ELSE LET e == [from |-> env.from, to |-> env.to, cmd |-> env.cmd, n |-> v.seen]
             u == [v EXCEPT !.entries = Append(@, e)]
         IN  IF fails THEN [u EXCEPT !.lost = @ + 1]
             ELSE [u EXCEPT !.file = u.entries, !.saved = @ \cup {x.n : x \in Range(u.entries)}]

\* An ending is due on a route when the agent has a parent that it may report to.
Reports(v, a) ==
    \/ Parent[a] = None
    \/ <<Role[a], Role[Parent[a]]>> \in {<<"worker", "leader">>, <<"leader", "pm">>}
    \/ v.mode = "adaptive" /\ <<Role[a], Role[Parent[a]]>> = <<"worker", "pm">>

\* applyEvent: the trace comes before the store's own change.
Observe(type, a, to, fails) ==
    /\ j.seen < Happens /\ (fails => j.lost < Lost)
    /\ LET v == [j EXCEPT !.seen = @ + 1]
           u == append(v, Envelope(v, type, a, to), fails)
       IN  j' = [u EXCEPT
                   !.known = IF type = "spawn" THEN @ \cup {a} ELSE @,
                   !.ended = IF type \in Endings /\ Reports(v, a) THEN @ \cup {v.seen} ELSE @]

Event(fails) ==
    \/ \E a \in Staff : /\ Parent[a] \in j.known /\ a \notin j.known
                        /\ Observe("spawn", a, None, fails)
    \/ \E a \in j.known, to \in j.known \cup {"user"} :
          a # to /\ Observe("message", a, to, fails)
    \/ \E a \in j.known, type \in {"tool.result", "agent.done", "agent.error"} :
          Observe(type, a, None, fails)
    \/ \E a \in j.known, type \in {"notified", "failed"} :
          Parent[a] # None /\ Observe(type, a, None, fails)

\* The file is loaded with the first event; its entries keep their place.
Restart ==
    /\ j.died < Dies
    /\ j' = [j EXCEPT !.entries = j.file, !.known = {a \in Staff : Parent[a] = None},
                      !.ended = {}, !.died = @ + 1]

Next == Event(FALSE) \/ Event(TRUE) \/ Restart

-----------------------------------------------------------------------------
(* Properties *)

\* The end of an agent that reports to its leader or the PM, or has nobody above it, is in
\* the trace: the tables of routes have a place for every ending that the bridge makes.
EndsAreTraced == j.ended \subseteq {e.n : e \in Range(j.entries)}

\* What was saved stays in the file, over failed saves and restarts, in order.
SavedStays ==
    /\ j.saved \subseteq {e.n : e \in Range(j.file)}
    /\ \A i \in DOMAIN j.file : i \in DOMAIN j.entries /\ j.file[i] = j.entries[i]
    /\ \A x \in DOMAIN j.entries : \A y \in 1..(x - 1) : j.entries[y].n < j.entries[x].n

\* No worker speaks to the user, and none to the PM unless the mode is adaptive
\* (AgentOSJournal.ts:126-133).
NoDetour ==
    \A e \in Range(j.entries) :
        /\ <<e.from, e.to>> # <<"worker", "user">>
        /\ <<e.from, e.to>> = <<"worker", "pm">> => j.mode = "adaptive"

TraceIsKept == EndsAreTraced /\ SavedStays /\ NoDetour

=============================================================================
