------------------------------- MODULE MCAgents -------------------------------
(* What an agent does between a message and its answer: a leader's turns, the        *)
(* requests of the PM's agent, the watch over children, the way of a tool call, the  *)
(* context from the bus, the trace, and the turns of a whole conversation of Feishu. *)
(* These parts share no state: one is picked at the start, the others stay off, and  *)
(* a leader that is off is the PM of the terminal before its first answer.           *)
EXTENDS Leader

CONSTANTS
    None,
    Chain, Other, Cli, MaxRetries, Heard, Selections, Restarts,  \* requests
    Members, Wait, Limit, Ticks, Starts,                         \* watch
    Workers, CallIds, Claims, Issued, Deaths,                    \* calls
    Ring, Shown, TopFacts, LastDecisions, Talk, Epochs,          \* replay
    Role, Parent, Happens, Lost, Dies,                           \* trace
    Count, Texts, Deliveries, Crashes, MaxConcurrent             \* conversations

\* Of the parts beside the leader, only the picked one has a state.
VARIABLES part, r, s, c, b, j, delivered, turns

conversation == <<delivered, turns>>
rest == <<r, s, c, b, j, conversation>>
vars == <<part, l, rest>>

Http == INSTANCE Requests WITH Inputs <- Heard, Lives <- Restarts
Watch == INSTANCE Watch WITH Lives <- Starts
Calls == INSTANCE Calls
Replay == INSTANCE Replay
Trace == INSTANCE Trace
Conversations == INSTANCE Conversations WITH sent <- delivered, c <- turns

ASSUME AgentsAssumption ==
    /\ Http!RequestsAssumption /\ Watch!WatchAssumption /\ Calls!CallsAssumption
    /\ Replay!ReplayAssumption /\ Trace!TraceAssumption
    /\ Conversations!ConversationsAssumption

MCChain == <<"cli", "api">>

MCResponses ==
    {<<>>, <<"tool">>, <<"tool", "again">>, <<"risky">>, <<"plan">>, <<"plan", "tool">>,
     <<"runs", "spawn">>, <<"spawn", "user">>, <<"user">>, <<"plan", "user">>, <<"parent">>,
     <<"done">>, <<"parent", "done">>, <<"fails">>, <<"kill">>, <<"clear", "lost">>,
     <<"respawn">>, <<"handup">>, <<"user", "fails">>}

\* Two workers that share an id: approvals are kept by the id alone.
MCIds == [x \in Workers |-> {"x", x}]

MCRole == [a \in {"pm", "lead", "w1", "w2", "sec"} |->
             CASE a = "pm" -> "pm" [] a = "lead" -> "leader" [] a = "sec" -> "secretary"
               [] OTHER -> "worker"]

MCParent == [a \in DOMAIN MCRole |-> CASE a = "pm" -> None [] a = "w1" -> "lead" [] OTHER -> "pm"]

NoConversation == delivered = None /\ turns = None

AgentsInit ==
    \/ /\ part = "leader" /\ Init /\ NoConversation
       /\ r = None /\ s = None /\ c = None /\ b = None /\ j = None
    \/ /\ l = Start("root") /\ NoConversation
       /\ \/ /\ part = "requests" /\ Http!Init
             /\ s = None /\ c = None /\ b = None /\ j = None
          \/ /\ part = "watch" /\ Watch!Init
             /\ r = None /\ c = None /\ b = None /\ j = None
          \/ /\ part = "calls" /\ Calls!Init
             /\ r = None /\ s = None /\ b = None /\ j = None
          \/ /\ part = "replay" /\ Replay!Init
             /\ r = None /\ s = None /\ c = None /\ j = None
          \/ /\ part = "trace" /\ Trace!Init
             /\ r = None /\ s = None /\ c = None /\ b = None
    \/ /\ part = "conversations" /\ Conversations!Init /\ l = Start("root")
       /\ r = None /\ s = None /\ c = None /\ b = None /\ j = None

LeaderStep(A) == part = "leader" /\ A /\ UNCHANGED <<part, rest>>

AgentsNext ==
    \/ LeaderStep(Next)
    \/ part = "conversations" /\ Conversations!Next /\ UNCHANGED <<part, l, r, s, c, b, j>>
    \/ part = "requests" /\ Http!Next /\ UNCHANGED <<part, l, s, c, b, j, conversation>>
    \/ part = "watch" /\ Watch!Next /\ UNCHANGED <<part, l, r, c, b, j, conversation>>
    \/ part = "calls" /\ Calls!Next /\ UNCHANGED <<part, l, r, s, b, j, conversation>>
    \/ part = "replay" /\ Replay!Next /\ UNCHANGED <<part, l, r, s, c, j, conversation>>
    \/ part = "trace" /\ Trace!Next /\ UNCHANGED <<part, l, r, s, c, b, conversation>>

\* The fairness of the leader; the other parts promise nothing.
AgentsFairness ==
    /\ WF_vars(LeaderStep(Respond \/ RequestFails \/ BudgetFails \/ RequestAborted))
    /\ WF_vars(LeaderStep(RunCallback))
    /\ WF_vars(LeaderStep(\E batch \in l.running : ToolsEnd(batch)))
    /\ WF_vars(LeaderStep(ChildEnds))

AgentsSpec == AgentsInit /\ [][AgentsNext]_vars /\ AgentsFairness

-----------------------------------------------------------------------------

\* Every attempt settles its permit, the queue of an idle agent has a drain to come, and the
\* stop of a subscription holds until the user goes on (adapters/httpAgent.ts).
RequestsAreAccounted == part = "requests" => Http!RequestsAreAccounted

\* A foreground wait has its own timer and no other, and a child is told that its time is
\* over only when it is (pm/ProcessManager.ts).
ChildrenAreTimed == part = "watch" => Watch!ChildrenAreTimed

\* A command takes effect as often as it was issued or approved, whatever is replayed, taken
\* back or cut off (tools/registry.ts, runtime/LeaderHandler.ts); what an agent has done is
\* in the context that is rebuilt from the bus or is known to be missing, and how agents
\* ended stays in the trace (context/LogContextBuilder.ts, runtime/AgentOSJournal.ts).
DeedsAreKept ==
    /\ part = "calls" => Calls!CallsAreExact
    /\ part = "replay" => Replay!NothingSlips /\ Replay!GapIsReal
    /\ part = "trace" => Trace!TraceIsKept

\* No message gets two answers that count as final, and the durable inbox holds what
\* somebody will take (feishu/replyAggregator.ts, runtime/FeishuBridge.ts).
OneFinal == part = "conversations" => Conversations!OneFinal
InboxHasTaker == part = "conversations" => Conversations!InboxHasTaker

=============================================================================
