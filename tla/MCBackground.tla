---------------------------- MODULE MCBackground ----------------------------
(***************************************************************************)
(* Nine parts of the server that share no state with each other, checked in*)
(* one run: in each behaviour one of them moves and the others stay still. *)
(***************************************************************************)
EXTENDS ProcessGraph, AuthGuard, ProcessSchedule, SuperAgent,
        SuperAgentTools, Integrations, Agents, ToolCalls, ToolBridges

CONSTANTS c1, c2, c3, k1, k2, ig, cond, a, b

VARIABLE part  \* the part that moves

allVars == <<graphVars, guardVars, scheduleVars, agentVars, toolVars,
             integrationVars, agentsVars, toolCallVars, bridgeVars, part>>

MoveGraph ==
    /\ part = "graph" /\ GraphNext
    /\ UNCHANGED <<guardVars, scheduleVars, agentVars, toolVars,
                   integrationVars, agentsVars, toolCallVars, bridgeVars, part>>
MoveGuard ==
    /\ part = "guard" /\ GuardNext
    /\ UNCHANGED <<graphVars, scheduleVars, agentVars, toolVars,
                   integrationVars, agentsVars, toolCallVars, bridgeVars, part>>
MoveSchedule ==
    /\ part = "schedule" /\ ScheduleNext
    /\ UNCHANGED <<graphVars, guardVars, agentVars, toolVars,
                   integrationVars, agentsVars, toolCallVars, bridgeVars, part>>
MoveAgent ==
    /\ part = "agent" /\ AgentNext
    /\ UNCHANGED <<graphVars, guardVars, scheduleVars, toolVars,
                   integrationVars, agentsVars, toolCallVars, bridgeVars, part>>
MoveTools ==
    /\ part = "tool" /\ ToolsNext
    /\ UNCHANGED <<graphVars, guardVars, scheduleVars, agentVars,
                   integrationVars, agentsVars, toolCallVars, bridgeVars, part>>
MoveIntegration ==
    /\ part = "integration" /\ IntegrationNext
    /\ UNCHANGED <<graphVars, guardVars, scheduleVars, agentVars, toolVars,
                   agentsVars, toolCallVars, bridgeVars, part>>
MoveAgents ==
    /\ part = "agents" /\ AgentsNext
    /\ UNCHANGED <<graphVars, guardVars, scheduleVars, agentVars, toolVars,
                   integrationVars, toolCallVars, bridgeVars, part>>
MoveToolCall ==
    /\ part = "call" /\ ToolCallNext
    /\ UNCHANGED <<graphVars, guardVars, scheduleVars, agentVars, toolVars,
                   integrationVars, agentsVars, bridgeVars, part>>
MoveBridges ==
    /\ part = "bridge" /\ BridgesNext
    /\ UNCHANGED <<graphVars, guardVars, scheduleVars, agentVars, toolVars,
                   integrationVars, agentsVars, toolCallVars, part>>

\* A part that stays still starts in one way only.
Init ==
    /\ part \in {"graph", "guard", "schedule", "agent", "tool",
                 "integration", "agents", "call", "bridge"}
    /\ GraphInit
    /\ part = "graph" \/ (conns = {} /\ stored = [n \in Nodes |-> "stored"])
    /\ GuardInit
    /\ part = "guard" \/ good
    /\ ScheduleInit
    /\ part = "schedule" \/ ~remote
    /\ AgentInit
    /\ part = "agent" \/ cache = <<>>
    /\ ToolsInit
    /\ part = "tool" \/ (clients = {} /\ about = "none")
    /\ IntegrationInit
    /\ part = "integration" \/ hosted
    /\ AgentsInit
    /\ ToolCallInit
    /\ part = "call" \/ ~usable
    /\ BridgesInit
    /\ part = "bridge" \/ known = 0

Next ==
    \/ MoveGraph
    \/ MoveGuard
    \/ MoveSchedule
    \/ MoveAgent
    \/ MoveTools
    \/ MoveIntegration
    \/ MoveAgents
    \/ MoveToolCall
    \/ MoveBridges

Spec == Init /\ [][Next]_allVars

\* Two nodes of the graph that differ in nothing but their ids.
OtherNodes == Permutations({a, b})
=============================================================================
