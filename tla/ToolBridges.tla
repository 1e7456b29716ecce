---------------------------- MODULE ToolBridges -----------------------------
(***************************************************************************)
(* The tools of MCP servers, as a session is given them: for every server   *)
(* of the organisation a bridge program is run (trusted_mcp.rs), a few at a *)
(* time, and what they list is put together (workspace_tools.rs).  A call   *)
(* of an MCP tool runs one bridge in the same way.                          *)
(***************************************************************************)
EXTENDS Naturals, Sequences, FiniteSets, TLC, Functions

CONSTANTS
    MaxServers,     \* bound: enabled MCP servers of the organisation
    AtOnce          \* TRUSTED_MCP_DISCOVERY_CONCURRENCY

ASSUME BridgeAssumption == MaxServers \in Nat /\ AtOnce \in Nat \ {0}

\* Servers are numbered in the order of the organisation's integrations.
Servers == 1 .. MaxServers

VARIABLES
    known,      \* how many of them the organisation has
    bridge,     \* server -> where the server stands with its bridge
    program,    \* server -> what the bridge program has come to
    ended,      \* the bridges that have ended, in that order
    catalog,    \* the servers whose tools are in the catalog, in order
    warnings,   \* the servers the catalog warns of
    opened      \* the catalog is complete

bridgeVars == <<known, bridge, program, ended, catalog, warnings, opened>>

UnderWay == {"writing", "waiting"}
Over == {"read", "failed"}

BridgesInit ==
    /\ known \in 0 .. MaxServers
    /\ bridge = [s \in Servers |-> "queued"]
    /\ program = [s \in Servers |-> "none"]
    /\ ended = <<>> /\ catalog = <<>> /\ warnings = <<>> /\ opened = FALSE

EndBridge(s, fate) ==
    /\ bridge' = [bridge EXCEPT ![s] = fate]
    /\ ended' = Append(ended, s)
    /\ UNCHANGED <<known, catalog, warnings, opened>>

\* buffer_unordered: the next server's future is started when fewer than
\* AtOnce are under way; the program may be missing or fail to start.
StartBridge(s) ==
    /\ s <= known /\ bridge[s] = "queued"
    /\ \A r \in 1 .. s - 1 : bridge[r] # "queued"
    /\ Cardinality({r \in Servers : bridge[r] \in UnderWay}) < AtOnce
    /\ \/ /\ bridge' = [bridge EXCEPT ![s] = "writing"]
          /\ program' = [program EXCEPT ![s] = "running"]
          /\ UNCHANGED <<known, ended, catalog, warnings, opened>>
       \/ EndBridge(s, "failed") /\ UNCHANGED program

\* The payload is written, which has no time limit, or the program has closed
\* its input.
WritePayload(s) ==
    /\ bridge[s] = "writing"
    /\ \/ /\ bridge' = [bridge EXCEPT ![s] = "waiting"]
          /\ UNCHANGED <<known, ended, catalog, warnings, opened>>
       \/ program[s] # "running" /\ EndBridge(s, "failed")
    /\ UNCHANGED program

\* The program: it ends with a list, with something else, with an error, or
\* leaves a process of its own behind that holds its output open.
ProgramEnds(s, fate) ==
    /\ program[s] \in {"running", "forked"}
    /\ program[s] = "forked" => fate # "forked"
    /\ program' = [program EXCEPT ![s] = fate]
    /\ UNCHANGED <<known, bridge, ended, catalog, warnings, opened>>

\* wait_with_output: the program has ended and nobody holds its output.
ReadBridge(s) ==
    /\ bridge[s] = "waiting" /\ program[s] \in {"list", "garbage", "error"}
    /\ EndBridge(s, IF program[s] = "list" THEN "read" ELSE "failed")
    /\ UNCHANGED program

\* SCRIPT_TIMEOUT; the program is left to itself.
GiveUpBridge(s) ==
    /\ bridge[s] = "waiting"
    /\ EndBridge(s, "failed")
    /\ UNCHANGED program

\* Mutant: the results are taken as they come.
CameBefore(i, j) == i < j

\* sort_by_key on the index of the integration, which keeps the order of equals.
Before(i, j) == ended[i] < ended[j] \/ (ended[i] = ended[j] /\ i < j)

\* The servers whose bridges ended so, listed in that order.
EndedSo(fate) == {i \in DOMAIN ended : bridge[ended[i]] = fate}
Listings(fate) ==
    {[i \in DOMAIN o |-> ended[o[i]]] :
        o \in {p \in [1 .. Cardinality(EndedSo(fate)) -> EndedSo(fate)] :
                  \A i, j \in DOMAIN p : i < j => Before(p[i], p[j])}}

\* The end of discovered_trusted_mcp_tool_catalog: tools and warnings.
OpenCatalog ==
    /\ ~opened /\ Len(ended) = known
    /\ opened' = TRUE
    /\ catalog' \in Listings("read") /\ warnings' \in Listings("failed")
    /\ UNCHANGED <<known, bridge, program, ended>>

BridgesNext ==
    \/ \E s \in Servers :
          \/ StartBridge(s) \/ WritePayload(s) \/ ReadBridge(s) \/ GiveUpBridge(s)
          \/ \E fate \in {"list", "garbage", "error", "forked"} : ProgramEnds(s, fate)
    \/ OpenCatalog

BridgesSpec == BridgesInit /\ [][BridgesNext]_bridgeVars

-----------------------------------------------------------------------------
(* Properties.                                                             *)

\* Whatever order the bridges end in and however some of them fail, every
\* server is told of exactly once, the tools in the catalog are listed in the
\* order of the integrations, and they were listed by the server's program.
EveryServerIsToldOf ==
    opened =>
        /\ \A i, j \in DOMAIN catalog : i < j => catalog[i] < catalog[j]
        /\ \A i \in DOMAIN catalog : program[catalog[i]] = "list"
        /\ \A s \in 1 .. known : (s \in Range(catalog)) # (s \in Range(warnings))
=============================================================================
