# Aura: TLA+ models, model checking and proofs

Aura runs software agents for teams: a Rust server and desktop shell (`apps/`,
`crates/`) with a TypeScript interface (`interface/`). The agents themselves
run in an external service, the *harness*; projects, tasks, sessions, agents
and integrations are kept by external services (*storage*, *network*,
*integrations*), the rest by a local RocksDB. The code that is the server's
own, and that is hard to test, is what happens in between: processes that run
graphs of nodes, dev loops that follow an agent from task to task, chats that
share sessions, schedulers, caches and copies of what the services hold, and
the tables and registries that decide which tool an agent is offered and what a
use of it does.

This directory holds TLA+ modules for that code, the TLC configurations that
check them, and proofs checked by TLAPS. All paths below are relative to the
repository's root.

| to do this | run, in this directory |
| --- | --- |
| check a configuration | `tlc -workers 2 -config ProcessRunsSafety.cfg MCProcessRuns` |
| check the proofs | `tlapm ProcessRunsProofs.tla`, and so on for each `*Proofs.tla` |

`PROJECT.json` is the index of it all: components, runs, the source lines each
definition stands for (`map`), the mutations of the model every property has
been seen to detect (`mutants`), the disagreements found (`findings`), the
hazards, and the theorems.

Contents: 1 the system, 2 the modules, 3 the runs, 4 fairness, 5 the proofs, 6
disagreements and observations, 7 what is abstracted or left out, 8 the plan.

## 1. The system

### 1.1 Components that are modelled

**Process run executor** (`crates/aura-os-process/src/executor.rs`, 3147
lines). State: the rows of `process_runs` in RocksDB, which survive a restart;
one future per executing run; per ForEach node a semaphore and a set of join
handles. Operations: `trigger` (check for an active run, save a pending row,
spawn), `cancel_run`, `trigger_and_await` (run a child process inside the
parent's future), `execute_run` (set-up, the node loop, completion),
SubProcess nodes (await one child under a timeout), ForEach nodes (one tokio
task and child run per item, bounded by the semaphore, under a timeout), and
`mark_run_failed_if_active`, the safety net behind `execute_run`. Hard: checks
and saves are separate steps, also in the safety net, which may overwrite a
cancel; cancelling writes a row that an executor keeps overwriting; dropping a
SubProcess future stops all futures nested in it, dropping ForEach handles
stops none; a process may call itself; a crash keeps rows and loses futures.
Correct when: the row says how the run ended; a completed run left nothing
running; a timeout ends what was waited for; runs end.

**Action nodes** (same file, and `crates/aura-os-link/src/runner.rs`). The
nodes of a run that do work: an automaton of the harness per node, or one per
sub-task when the upstream text is a list. State: tokio tasks and their
permits, event streams, the files of the one workspace that all automata of
the run share. Hard: streams that break, end early or lag; deadlines after
which an automaton is left running; several automata writing into one
directory from which outputs are found by name. Correct when: a node hands on
its own output, read after its automaton has ended; the run gets through its
nodes.

**Process graph** (same file, and
`apps/aura-os-server/src/handlers/process.rs`). State: nodes and connections
in two tables, edited by clients at any time; per run a snapshot of both and
the results of its nodes. Operations: create, update and delete nodes, create
and delete connections, `topological_sort`, `reachable_from_ignition`, the
loop that runs, skips or reuses (pins) each node. Hard: the two tables are not
kept consistent, and a run reads one after the other; conditions, pinned
nodes, skips and parallel edges meet in one decision. Correct when: cyclic
graphs are refused; a node comes after all its upstream nodes; a completed run
has run what its conditions selected.

**Process scheduler** (`crates/aura-os-process/src/scheduler.rs`, handlers).
State: the row of a scheduled process, in the local store or in the storage
service. Operations: ticks (list, trigger, save `next_run_at`), the handlers
that create, update and delete the row. Hard: the scheduler saves the row it
listed before the trigger. Correct when: a pause or deletion that met nobody
holds.

**Cron jobs** (`crates/aura-os-super-agent`: `scheduler.rs`, `executor.rs`,
`cron_store.rs`; `handlers/cron.rs`). State: jobs in the local store.
Operations: edits, ticks that spawn one task per due job, executions that
stamp and plan it. Hard: every writer reads the whole job and saves the whole
job. Correct when: an enabled job runs.

**Dev loop** (`apps/aura-os-server/src/handlers/dev_loop.rs`). State:
`AutomatonRegistry` (agent instance to automaton) behind one tokio mutex; one
forwarder task per request; session and agent-instance rows in the storage;
the automata and their event streams in the harness. Operations: `start_loop`
(create, adopt on conflict or stop and retry, attach, open a session, mark the
agent working, spawn the forwarder, register), `run_single_task`,
`pause_loop`, `stop_loop`, and the forwarder's clean-up. `stop_loop` holds the
registry's mutex over its calls to the harness. Hard: about ten remote calls
per request, each of which may fail; several forwarders of one agent instance;
adopted automata; client disconnects drop handlers at any await; restarts lose
the registry and the forwarders. Correct when: no session and no "working"
agent is left without somebody to end it; no loop runs unfollowed; a stop
removes what it stopped; clean-up ends.

**Loop events** (`forward_automaton_events` in the same file, and the event
channel of `crates/aura-os-link/src/automaton_client.rs`). State: a broadcast
channel of 4096 events, the forwarder's `current_task_id`, the output cache
all forwarders share, stored task outputs. Hard: text events do not name their
task; events are lost before the subscription and when the forwarder falls
behind. Correct when: the text of a task, when its events arrived, is stored
under that task, complete, in order and with nothing of another's.

**Usage and sessions** (same file, `crates/aura-os-sessions`). State: token
totals in the cache entry of a task and in the session's row. Operations: a
forwarder books each event, reads and writes the session. Hard: usage comes in
two kinds of events, each with or without totals; two forwarders may follow
one loop. Correct when: what is written down is what the loop has cost.

**Task service** (`crates/aura-os-tasks`). State: task rows in the storage,
which checks each transition; one claim lock per project. Operations:
`claim_next_task`, `select_next_task`, `assign_task`, `complete_task`,
`fail_task`, promotion of dependents, `resolve_initial_readiness`, resets and
retries, follow-up tasks. Hard: every operation is a list call followed by
single transitions, with other callers in between; each call may fail before
or after taking effect. Correct when: nothing starts before its dependencies
are done; two callers never claim one task; the whole is a simple board of
tasks (module `TaskBoard`).

**Chat sessions** (`handlers/agents/chat.rs`, `crates/aura-os-link`:
`ws_bridge.rs`). State: the registry of live harness sessions, one broadcast
channel and one WebSocket per session, the stored events of the chat.
Operations: find or open a session, subscribe, send, stream, record. Hard:
looking, loading the history and opening are separate steps; turns share a
session and hear each other's events; connections break. Correct when: what is
stored as a reply is one reply; a new session knows the chat; sessions that
lost their place are released; streams end.

**Super agent** (`crates/aura-os-super-agent`: `stream.rs`). State: the
conversation that requests copy from a cache and put back; after a restart it
is rebuilt from stored events. Hard: replies may be cut in the middle of a tool
use; requests overlap; stored results are filed under the last tool use.
Correct when: every tool use is answered; a turn that met no other is
remembered.

**Tools of the super agent** (`tools/*.rs`, `tier.rs`). State: two registries,
one that offers tools and one that runs them. Operations: 91 tools, each a
check of its arguments and one to three requests; `create_project` undoes the
first when the second fails. Hard: any request, the undoing one included, may
be refused or lose its answer. Correct when: what is offered can be run, and a
result says what has happened.

**External agents** (`handlers/agents/runtime.rs`, the recorder in `chat.rs`).
An agent that is a command line program: process, pipes, time limits, the
lines it prints as events, and the task that stores the turn. Hard: programs
close their output and live on, or leave children that hold the pipes; the
recorder lags. Correct when: what is stored as complete is complete; the turn
ends.

**Agents and their bindings** (`handlers/agents/crud.rs`, `instances.rs`,
`crates/aura-os-agents`). State: the agent's row in the network, its bindings
in the storage, its configuration and a shadow of the row in the local store,
its VM. Hard: nothing ties the four together. Correct when: an agent is not
deleted from under its bindings; network and configuration agree on the
machine last asked for, by the creation or by the environment of an update.

**Integrations of organisations** (`handlers/org_tools.rs`, `orgs.rs`,
`agents/workspace_tools.rs`, `crates/aura-os-orgs`). State: integration and
key at the service and, as a shadow, in the local store. Hard: every lookup
mirrors what the service has said; a local edit is several calls of the store
without a lock. Correct when: lookups undo no edit; a call
finds the integration and the key that belong together.

**Tools of organisations** (`crates/aura-os-integrations`, `org_tools.rs`,
`trusted_runtime.rs`). State of one call: tool, arguments, request, answer.
Hard: the catalog, the schemas, the table of methods, the provider contracts
and the dispatcher are kept apart. Correct when: they agree.

**MCP servers of organisations** (`workspace_tools.rs`, `trusted_mcp.rs`). One
bridge program per server, a few at a time, with time limits. Correct when:
the catalog says of every server what it has or that it failed.

**Authentication guard** (`auth_guard.rs`, `crates/aura-os-auth`,
`handlers/auth.rs`). State: a cache of validated tokens. Hard: sessions are
let in on an old answer when the identity provider, zOS, cannot be reached;
eviction runs by itself. Correct when: what is let in is recent enough.

**Terminals** (`crates/aura-os-terminal`, `handlers/terminal.rs`). State: the
manager's entry, the reading thread, two channels, the socket, the shell.
Hard: the thread blocks on a full channel; a shell's children keep the
terminal open. Correct when: a terminal that was served is released.

### 1.2 Components that are not modelled

| component | what it is | why not |
| --- | --- | --- |
| Event logs and WebSocket fan-out | fire-and-forget writes and broadcasts | loss is accepted by design |
| Local store, storage client | single reads and writes of rows | taken as atomic and durable (RocksDB), or as a call that may fail or lose its answer (HTTP), in every module |
| Projects, organisations, users, feed | requests passed on to remote services | no order or state of their own; the integrations of organisations are modelled |
| Specs and task handlers | thin handlers over the storage and the harness | the transitions they ask for are those of `TaskService` |
| Billing and network clients | HTTP clients, and a bridge that relays events | no state |
| Core types, server wiring and router | types, construction, routes | no behaviour to check; `DevLoop` and `ProcessRuns` have what a restart loses |
| Frontend stores and streams (`interface/src/stores`, `hooks`) | loop status, task output and messages derived from events | reconnects and queued messages would be worth a module; not begun |
| Frontend applications, desktop and IDE shells, scripts and infrastructure | presentation, windows, deployment | no behaviour to check |

### 1.3 How they interact

Clients and the process scheduler call the executor; the executor reads the
graph, runs action nodes in automata of the harness, and writes run rows.
Clients call the dev loop; it creates automata, writes sessions and agent
statuses, and hands each automaton's stream to a forwarder, which writes task
output and usage. Automata ask for tasks and complete them through tools that
end in the task service. Chats go to a harness session, to an external program
or to the super agent, whose tools are requests to the services and to this
server. Sessions and calls of organisation tools look up integrations.

Shared state in the server is confined to the run rows, the loop registry, the
output cache, the claim locks, the chat registry, the super agent's cache, the
validation cache, the terminal manager and the local store's copies of remote
rows; each has its module. Everything else is a row of a service.

## 2. The modules

| module | models | checked by |
| --- | --- | --- |
| `RunLedger` | abstract specification of the table of runs | |
| `ProcessRuns` | life cycle of process runs; implements `RunLedger` | `process_runs_*`, `ProcessRunsProofs` |
| `ActionNodes` | automata and sub-tasks of a run's nodes | `action_nodes`, `BackgroundProofs` |
| `ProcessGraph` | editing, sorting and running the graph of one run | `background`, `ProcessGraphProofs` |
| `ProcessSchedule` | scheduler and handlers of a scheduled process | `background`, `BackgroundProofs` |
| `CronJobs` | one cron job, its editors and executions | `streams`, `LoopRecordsProofs` |
| `DevLoop` | requests, forwarders, registry | `dev_loop_*`, `DevLoopProofs` |
| `LoopEvents` | from events to stored task output | `streams`, `LoopRecordsProofs` |
| `UsageRecords` | from events to token totals | `streams`, `LoopRecordsProofs` |
| `TaskBoard` | abstract specification of tasks | |
| `TaskService` | the operations on tasks; implements `TaskBoard` | `task_service_*`, `TaskServiceProofs` |
| `ChatSessions` | chats that share harness sessions | `chat_sessions`, `ChatSessionsProofs` |
| `SuperAgent` | the tool loop and its cached conversation | `background`, `BackgroundProofs` |
| `SuperAgentTools` | one use of one of its tools | `background`, `super_agent_tools`, `BackgroundProofs` |
| `ExternalTurns` | a turn of a command line program | `streams`, `LoopRecordsProofs` |
| `Agents` | an agent's row, machine, config, bindings | `background`, `OrganisationProofs` |
| `Integrations` | an integration and its key, and their shadow | `background`, `OrganisationProofs` |
| `ToolCalls` | one call of a tool of an organisation | `background`, `BackgroundProofs` |
| `ToolBridges` | what MCP servers list | `background`, `OrganisationProofs` |
| `AuthGuard` | the cache of validated tokens | `background`, `BackgroundProofs` |
| `Terminals` | one terminal and its sockets | `streams`, `LoopRecordsProofs` |
| `Tables` | what the two modules of tools do with tables | |
| `MC*` | the constants of the runs, and the compositions of 3.2 | |

An action is a stretch of code between two points where another actor can step
in: an `await` on a remote call, a lock, or two calls of the store. Actor and
place in the code are a variable (`pc`, `stage`, `step`, `state`, ...) whose
values are named for what happens next. Actions carry the name of the function
they model, or of what it does, and the comment before each says which.
`PROJECT.json` has the lines.

### RunLedger and ProcessRuns

`status`, `process` and `parent` are the stored row; `pc`, `todo`, `items`,
`awaiting` and `nested` are the future that executes it; `caller` is what each
client is doing. A run's `pc` goes `triggered` (row saved, task not yet
spawned), `spawned`, `setup` (row running, graph not yet read), `loop`, `sub`
or `each` (waiting at a SubProcess or ForEach node), `failing` (about to save
failed), `mark` (left by an early error; the safety net is next) or `marking`
(it has found the run active, and will save failed), and `ok`, `err` or `gone`
(dropped).

| action | code |
| --- | --- |
| `TriggerCheck`, `TriggerSave`, `TriggerSpawn` | `trigger`: the check, the save, the spawn |
| `DropRequest` | the HTTP request is dropped between them |
| `CancelCheck`, `CancelSave` | `cancel_run` reads the row, saves it cancelled |
| `Start`, `SetupOk`, `SetupErr` | first statements of `execute_run`; the reads and checks before the loop |
| `NodeOk`, `NodeErr` | a node other than SubProcess and ForEach, or one whose iteration is skipped |
| `SubStart`, `SubDone`, `SubTimeout` | a SubProcess node; the timeout drops the child's future and all nested in it |
| `EachStart`, `ItemStart`, `ItemErr`, `EachDone`, `EachTimeout` | a ForEach node; its timeout drops handles only |
| `FailSave`, `Complete` | the ends of a run |
| `MarkCheck`, `MarkSave` | `mark_run_failed_if_active` lists the runs, then saves |
| `Crash` | the server restarts: rows stay, futures go |

`RunLedger` says what all this promises of the table, with three variables:
`status` and `parent` are those of `ProcessRuns`, and `busy` is the set of runs
that a future executes or is about to (`{r \in Runs : Live(r)}`). A row is
written by who executes its run (`Record`, `Begin`, `Fail`, `Complete`,
`GiveUp`), or by anybody to cancel it (`Cancel`); `GiveUp` leaves a row that is
failed or cancelled, or makes it failed, whatever a cancel has made of it since
it was read; a run may stop without a word
(`Stop`: a dropped request or future, a restart); and a run is completed only
when none of its children is busy, after which it gets none. Callers, nodes,
items, permits and nesting are what the ledger does without.

### ActionNodes

The nodes of one run in their order. `node`, `pc`, `parts` and `made` are the loop
of `execute_run`; `state`, `text`, `automaton` and `stream` belong to the tasks,
`file` to the workspace:
`<<n, 0>>` is node n's own automaton, `<<n, i>>` its i-th sub-task. A text is
the set of tasks whose words it holds, so that "a node hands on another's
output" is a statement about sets. `PlanSingle`, `PlanSplit` and `PlanPanics`
are `plan_sub_tasks`; `CreateSubTask`, `Join` and `Merge` the sub-tasks under
their semaphore; `StartAutomaton`, `Connect`, `Collect`, `TimeOut` and
`ReadOutput` the life of a follower, `WriteFile`, `EndAutomaton`, `LoseStream`
what the harness does meanwhile. `Drop` is the end of a child run's future in
the middle of it.

### ProcessGraph

`stored` and `conns` are the two tables; the run's `runNodes` and `runConns`
are what it read; `inDegree`, `queue` and `sorted` are the variables of
`topological_sort`; `completed`, `skipped` and `verdict` are `node_outputs`,
the skipped node events and `condition_results`. Only the source handle
"false" of a connection matters, and only at a condition, hence `onFalse`.
`Pop` is one round of the sort's loop, `SortEnds` its length check followed by
the restriction to reachable nodes; `Missing`, `Skip`, `Complete`,
`CompletePinned` and `NodeFails` are the ways a round of the node loop can go.
The queue's initial order comes from a hash map, so `ReadConns` chooses any
order.

### ProcessSchedule and CronJobs

Both have one row, its writers, and a clock that counts down to the next run.
In `ProcessSchedule` a local process is saved whole by whoever has read it
(`ReadRow`/`SaveRow`, `List`/`Trigger`/`SaveNext`), a remote one takes changes
of columns (`PatchRow`). In `CronJobs` every worker, an editor or a task
the scheduler has spawned, reads the whole job and saves the whole job:
`ReadToStamp` and `ReadToPlan` are the two read-modify-writes of an execution.

### DevLoop

A request creates at most one automaton, session and forwarder, so requests
name all three. `kind`, `inst`, `pc`, `aut` and `sess` are the handler's
variables (`aut[r]` is another request's automaton when it was adopted);
`stream`, `fwd` and `failed` the forwarder's; `registry`, `stopping` and
`pausing` the shared state with the two requests that work through a
selection; `agent`, `session` the storage's rows; `autom` the harness. The
constant `Faults` names what may fail: the status query of an existing
automaton, a stop, attaching to the stream, a stream that breaks, opening a
session, marking the agent idle, closing a session, a dropped request, a
restart.

| action | code |
| --- | --- |
| `Start`, `Inspect`, `StopStale`, `Retry` | creating the automaton, with the answers 409 and "not running" |
| `Attach`, `StopUnattached` | connecting the event stream, and undoing the start |
| `OpenSession`, `StartWorking`, `FinishWorking`, `BeginTask` | session and agent status |
| `Forward`, `Register` | spawning the forwarder, then writing the registry |
| `Abandon`, `CloseAbandoned` | `run_single_task` gives up |
| `TaskStarted`, `TaskFailed`, `ClearEntry`, `FinishAgent`, `LoopFinished` | the forwarder and its clean-up in order |
| `Pause`/`PauseOne`, `Stop`/`StopOne` | selection and calls, without and with the registry lock |
| `HarnessStart`, `HarnessStop`, `AutomatonEnds`, `StreamEnds` | the harness (external) |
| `DropRequest`, `Crash` | the environment |

### LoopEvents and UsageRecords

In `LoopEvents`, `runs` records what the automata did; `chan` and `lagging`
are the receiver of the broadcast channel, which holds the newest `Capacity`
events; `current` is `current_task_id`, `cache` the shared cache, `saved` what
was stored. `Guess` is what `start_loop` asks before it attaches
(`resolve_active_task_id`), `Subscribe` the subscription in the forwarder;
`Lagged`, `OnStarted`, `OnText` and `OnEnded` are the arms of the event loop.
`lost` is a history variable: the runs one of whose events no forwarder will
see. `OnStarted` and `OnEnded` keep the code's precedence of
`current_task_id` over the task an event names.

`UsageRecords` looks at the same events for the tokens they tell of. A turn
costs one token, and `style` is the way the harness tells of it: as it goes,
at its end, or both, with or without totals. `Hear` is the forwarder's booking
in the cache, `Load`, `Save` and `Report` the three awaits of
`update_context_usage` and the report to the network, `Miss` an event lost to
lag.

### TaskBoard and TaskService

`TaskBoard` has one variable, the status of each task, and six moves. In
`TaskService` workers stand for concurrent callers; `plan` is the list an
operation read, of which only the tasks still to be moved matter. `Moved` and
`NotMoved` are the storage's checked transition and its failures: refused,
failed, or done with the answer lost (`transition_task` reads the row back
after changing it). `Claim`, `Select`, `PickTask`, `ToPending`, `ToReady`,
`Assign` are the claim and the selection; `Complete`, `FailTask` end the work;
`Resolve`, `InitialReadiness`, `Promote` promote dependents; `ResetAll`,
`Reset`, `Retry`, `ResetFail`, `ResetReady` the resets; `FollowUpCheck`,
`FollowUpCreate` create tasks. The refinement is stated in `TaskService`
(`Board == INSTANCE TaskBoard WITH ...`, with `ImplementsBoard` as the property
that a run checks); the mapping is the identity on `status`. What makes it hard
is that the service acts on old lists.

### ChatSessions

A session is named after the request that opens it. `reg` is the entry of the
agent in `chat_sessions`, `link` the WebSocket of each session, `on`, `pc` and
`rec` the session, the handler and the recorder of each turn, `heard` what a
recorder has collected. `Join`, `GiveUp` and `Open` are the two critical
sections of `get_or_create_chat_session` with what lies between; `Send` is
subscribing, storing the user's message and sending it, `SendFails` the same
at a dead writer. `Answer`, `Finish` and `Refuse` are the harness, heard by
every recorder of the session; `Cut`, `WriterFails` and `Release` are the ways
a WebSocket ends, the last when nobody holds a sender.

### SuperAgent and SuperAgentTools

`cache` is the conversation of the agent, `talk` the copy each request
works on; a message keeps its author, the ids of its tool uses or of those it
answers, and whether the reply said why it stopped. `Heard` is
`process_stream_response` with `Hints` and `Replies` for cut replies, `Returns`
what is put back. `Older` are the conversations a restarted server rebuilds
from storage (`session_events_to_super_agent_history`): of a turn (`Rebuilt`),
or of two that overlapped (`RebuiltBoth`), all tool uses in one message and all
results in the next, each result under the last use the recorder had seen
(`Filed`). `Misfiled` says which of their messages the API will refuse.

`SuperAgentTools` has the registry as a table: for each of the 91 tools its
domain, the arguments its schema requires, the client it needs and the ways a
use may go, each a sequence of reads and writes whose failure ends it.
`create_project` undoes its first request when the repo is refused, or the
answer about it lost: `RepoMade`, `RepoFails` and `UndoProject`, whose outcome
(`undo`) is "done", "refused" or "lost"; the code drops it, and so does the
answer. `unsure` is set only where an answer was lost.
`OfferedFor` is what a request offers (tier 1, and the domain the message is
about); `ServiceRegistry` is what it is taken from and `ChatRegistry` what the
chat runs. It and `ToolCalls` write each table as the repository has it, in
parts, and put the parts together with `WholeTable` of module `Tables`.

### ExternalTurns

`program`, `child`, `closed` and `pipe` are the process, what its children
hold, and what it has printed; `step` is the handler; `said` the events, which
`rec` and `tape`, the task that stores the turn, follow with a `Backlog`.
`way` is one of four: the streamed programs of a project ("codex", "claude"),
those run to their end with their prompt on a pipe ("piped") or as an
argument ("plain").

### Agents and Integrations

`Agents`: `agentRow` (network), `bound` (storage), `config` and `agentShadow`
(local store), `box` (the VM), and per user the request being handled with its
`phase`. A request names the machine as an environment or by machine_type
alone (`by`); an update that does the latter asks for nothing, as the code
takes its environment from the row it has read (`AsksForNone`). `Request`
begins one, `AskNetwork`, `Take` and `Post` are its call of the network,
`Tell`, `Keep`, `Provision` and `RecordBox` what create and update do in
order, `Match`, `Make` and `Unbind` the bindings, `ListProjects`, `Check`,
`Delete` and `Forget` the deletion with its search for bindings.

`Integrations`: `canon` and `canonKey` at the service, `shadow` and
`shadowKey` in the local store. Lookups (`LookAtOne`, `LookAtList`,
`LookAtShadow`, `Sync`) leave what they read in the shadow; `GetKey` and
`GetKeyForTools` are the second request. An edit writes the shadow in single
calls of the store, with other requests between them: `WriteKey` and then
`WriteRow`, `PruneRow` and then `PruneKey`. Without a service `EditLocally`
begins one and `FindExisting` reads the row again, which decides whether a key
that is kept is there. `how` and `got` are what a request will write or looks
for, `calm` says that edits have met no other writer, `due` is a history
variable: what the service's data demanded of a lookup when it began.

### ToolCalls and ToolBridges

`ToolCalls` has the catalog, the table of methods (names and aliases of each
argument, its kind, whether it is required or has a default) and the legacy
dispatcher as tables; one behaviour is one call: `CallTool`, `DispatchTool`,
`SendCall`, `ProviderReplies`, `AnswerCall`. `ToolBridges` has, per MCP
server, the steps of running its bridge program, `AtOnce` of them at a time,
and the catalog put together in `OpenCatalog`.

### AuthGuard and Terminals

`AuthGuard` follows one token: `good` is what zOS would say, `cached`, `age`
and `net` the entry, `call` what each request is doing. `LetIn`, `Ask`,
`Answer` and `Settle` are `require_verified_session`; the handlers that sign
in, renew and log out, and the eviction, are actions of their own.

`Terminals` has the manager's `entry`, the reading `thread`, `queued` output
and the exit channel, the `socket`s and the shell with an `heir` that holds
the terminal open. `ReadChunk` and `SendChunk` are the thread, which blocks
when the channel is full; `Close` is what both ends of the connection lead to.

## 3. The runs

Sizes are of distinct states; times are with two workers.

| run | configuration | checks | size |
| --- | --- | --- | --- |
| `process_runs_tree` | `ProcessRunsSafety` | safety of nested, recursive and concurrent runs; the refinement | 1.8 M, 145 s |
| `process_runs_live` | `ProcessRunsLive` | every run ends | 230 k, 65 s |
| `process_runs_cancel` | `ProcessRunsCancel` | refutes `CancelIsFinal` | small |
| `action_nodes` | `ActionNodes` | outputs of two nodes with sub-tasks, and their end | 240 k, 120 s |
| `dev_loop_requests` | `DevLoopSafety` | three requests on one agent instance | 2.3 M, 75 s |
| `dev_loop_faults` | `DevLoopFaults` | clean-up and stops under failures | 310 k, 110 s |
| `task_service_board` | `TaskServiceBoard` | the refinement, three workers | 72 k, 20 s |
| `task_service_resets` | `TaskServiceResets` | claims under resets and retries | 480 k, 15 s |
| `chat_sessions` | `ChatSessions` | two turns of one chat | 40 s |
| `streams` | `Streams` | five parts with liveness | 350 k, 115 s |
| `background` | `Background` | nine parts, safety only | 1.2 M, 145 s |
| `super_agent_tools` | `SuperAgentTools` | refutes `OfferedToolsAreKnown` | small |

### 3.1 Runs of one module

**process_runs_tree.** One process whose nodes call the process itself, three
runs (interchangeable, hence symmetry), one caller, two nodes per graph, two
items per ForEach node, concurrency 1, one crash. Three runs make a
grandchild, so a timeout has a chain to stop, and a ForEach with two children,
so one item waits while another holds the only permit. One caller is enough
for a cancel between any two steps; a second concurrent trigger is in
`process_runs_live`. It shows that the row of a run says how its future ended
(`OutcomeRecorded`), also through early errors and cancels; that a completed
run has no child still executing (`CompletedIsQuiescent`); that nested runs
execute only while awaited (`NestedRunsAreAwaited`); and that the table changes
only as `RunLedger` allows (`ImplementsLedger`). A cancel may fall between the
read and the save of the safety net, whose failed then replaces it: the ledger
allows that as long as the run is busy. Rows of ended runs change only by a
cancel.

**process_runs_live.** The same process with two runs and two callers, who may
trigger concurrently. `EveryRunEnds` depends on the node timeout: without that
of ForEach a recursion has always one more level to wait for. In the model the
levels end with the run ids, and the deepest ForEach node waits for a child
that cannot be started, in place of one that has yet to be reached.

**action_nodes.** Two nodes, the first of which may be split into one or two
sub-tasks under one permit; the second has the default output file. Two
sub-tasks make one wait for the other's permit and let a failed one write on;
the second node makes a late writer of the first one's meet a reader. A task's
own file is what it hands on (`OwnOutputIsKept`), outputs are read after their
writer has ended (`OutputIsReadAfterTheEnd`), and every node and every spawned
sub-task ends, by the deadline if need be (`NodesEnd`).

**dev_loop_requests.** Three requests on one agent instance, each a loop or a
single task, with refused status queries and failed attachments. Two are
needed for an adopted or replaced loop, the third for the late end of the
first while the second is replaced. Every session that is active and every
agent that is working has a handler or forwarder that will end it
(`SessionAndAgentAreServed`), and a loop that runs has a forwarder that
follows it (`RunningLoopIsFollowed`). These are not true, and not claimed,
once handlers may be dropped or the server crashes. A failure to open a
session (the fault "session") is left out here for size; the invariants hold
with it as well (5.4 M states), beyond what a routine run should take.

**dev_loop_faults.** Two requests with the other faults: refused stops,
breaking streams, failing writes in the clean-up, dropped handlers, a restart.
`StopRemovesWhatItSelected`: the lock held over harness calls is what keeps a
stop from removing an entry registered meanwhile. `EndedStreamIsCleanedUp`:
despite that lock, every forwarder gets through its clean-up.

**task_service_board.** Three workers, of which two can complete the
dependencies of a third task while another selects; a follow-up task is
created meanwhile. Storage calls may fail at any point. `ImplementsBoard` is
the refinement; the constants satisfy the assumption `Careful` of its proof
(section 5). `ClaimsAreExclusive` is what the test
`concurrent_claims_produce_different_tasks` tries with real threads.

**task_service_resets.** Two workers with all operations except
`retry_failed`, and a board extraction has not scheduled, where neither the
refinement nor `ClaimsAreExclusive` is to be expected, but a task that a claim
has chosen is still ready when it is assigned.

**chat_sessions.** Two turns, with one model or none to ask for, and one cut
connection. Two turns are all it takes to race at opening, to share a session
and to replace one for its model; the cut lets the second find a dead session.
What a turn stores is one reply (`StoredReplyIsOneReply`), a session opened
because none was alive knows the chat (`ReopenedSessionKnowsTheChat`), a session
that lost its place closes (`OrphansAreReleased`), streams end
(`StreamsEnd`).

### 3.2 Runs of several modules

**background** and **streams** check parts that share no state with each other
in one run. In every behaviour one part moves (`part` says which) and the
others stand still, which loses nothing: every behaviour of a part is one of
the composition. A part that stands still starts in one way only, so that its
initial states are not multiplied. The run is the union of its parts' runs.

**background** (module `MCBackground`), safety only:

- `ProcessGraph`: an ignition node, a condition, two other nodes, at most four
  connections (self-loops, parallel edges by the condition's two handles,
  cycles, stray ends), one edit between any two of the run's reads. Four
  connections on four nodes contain every shape the sort and the node loop
  distinguish: a diamond behind a condition, both branches into one node, a
  cycle beside an ignition. The two other nodes differ in nothing, and occur
  in no other part: hence the symmetry. `SortCountsNodes` states exactly when
  the sort refuses, `OutcomeIsAsDefined` compares the node loop with a least
  fixed point, `UpstreamFirst` holds on any graph, stray connections included.
- `AuthGuard`: two requests; entries fresh below 2, evicted from 4 on, every
  2 units: the code's 5, 10 and 5 minutes in units of two and a half.
  `AcceptedIsRecent`.
- `ProcessSchedule`: two editors beside the scheduler, local and remote.
  `QuietEditsHold`: what the scheduler saves never undoes a pause or deletion
  it could have seen.
- `SuperAgent`: three requests, one tool use per reply, two turns, two cut
  replies; and conversations rebuilt from one or two stored turns, of up to two
  replies of up to two tool uses. `ToolUsesAreAnswered`,
  `LoneTurnsAreRemembered`; the third request is the one that reads what two
  overlapping ones left. Two uses in a stored reply are what it takes for a
  result to be filed under the wrong one: such conversations are in the run,
  and the property names them as its exception.
- `SuperAgentTools`: each of the 91 tools, with every combination of missing
  arguments and clients and every outcome of its requests, refused and lost
  undoings included. `ResultsAreTrue`, which names the two cases in which a
  failed `create_project` is known to have left its project: no Orbit client,
  and an undoing that was refused.
- `Integrations`: two clients, two keys, three edits: a creation, and two that
  overlap, after which calls look at what they have left. `QuietEditsAreMirrored`
  and `CallsSeeQuietEdits`: the shadow, with all its writers, is a true copy
  unless two of them meet, and tells truly of its key unless two local edits
  overlap.
- `Agents`: two users, two projects, three requests, which name an environment
  or only a machine_type. `NoBindingIsOrphaned`, `LastWishHolds`.
- `ToolCalls`: each tool with each kind of each argument.
  `OfferedCallsAreServed`: five tables written apart agree.
- `ToolBridges`: three servers, two at a time. `EveryServerIsToldOf`.

**streams** (module `MCStreams`), with fairness:

- `LoopEvents`: one loop, two tasks, a channel of two events, three runs of
  tasks with at most one text event. Capacity 2 makes any of the event types a
  victim of lag, three runs let a lag in the first spoil the second and the
  third recover. `IntactRunIsSaved`, `EndedRunIsSaved`. Larger instances
  (capacity 3, three runs of two text events; 1.4 M states) give the same
  answer.
- `UsageRecords`: two followers, two turns, each way of telling.
  `RecordsAreTrue`: exact for a lone follower, and in the end for any that
  are told the totals.
- `ExternalTurns`: three lines, two tool calls, a backlog of two events.
  `StoredTurnIsWhole`, `TurnEnds`.
- `CronJobs`: two workers, three edits. `EnabledJobRuns`.
- `Terminals`: two sockets, four chunks of output, a channel of two, so that
  the thread blocks. `ServedTerminalIsReleased`.

Liveness properties of the parts are leads-to formulas, true where nothing
moves. `CHECK_DEADLOCK FALSE` is given everywhere because every instance may
come to rest: run ids, requests, edits and task runs are used up, and nobody is
obliged to ask for more.

Every bound is a CONSTANT, named and explained where it is declared. Those of
the code are `MaxConcurrency`, `Capacity`, `Backlog`, `ChannelSize`, `AtOnce`,
`Ttl`, `MaxAge`, `EvictEvery`; the others bound the exploration.


## 4. Fairness

Only liveness properties use it, and only for what the code's runtime does:
tokio polls tasks that are ready, timers fire, threads run. Clients, automata,
programs and shells are never obliged to do anything, unless stated here.

- `ProcessRuns`: weak fairness of `Execute(r)`, `ItemStart` and
  `TriggerSpawn`. `SubTimeout` and `EachTimeout` are among the steps of
  `Execute` because timers fire; the semaphore hands out free permits. Callers
  need not call, and no error has to occur.
- `ActionNodes`: weak fairness of the node's own steps and of each follower's,
  its deadline included. The harness need not answer.
- `DevLoop`: weak fairness of the handlers' steps, of stop requests under way
  and of the clean-up; strong fairness of `ClearEntry`, which waits for a
  tokio mutex: that mutex is first-in first-out and every stop request
  releases it, so a waiter gets it although others take it in between. Neither
  clients nor automata nor `pause_loop` have to do anything.
- `LoopEvents`: weak fairness of `Subscribe` and `Forward`, the forwarder's
  own steps. Automata need not go on.
- `ChatSessions`: weak fairness of the handlers, of the streams' ends, of the
  release of a session nobody holds, and, the one assumption about a service,
  of a connected harness that answers or refuses what it was sent
  (`StreamsEnd` has no time limit to fall back on: the code has none). Writes
  in the background are not fair: the code forgets those that fail.
- `ExternalTurns`: weak fairness of `TurnStep`, the handler's and the
  recorder's steps with their time limits. The program need not do anything;
  `TurnEnds` names the two ways in which it can then hold a turn for ever.
- `CronJobs`: weak fairness of the clock, of the tick that spawns a due job,
  and of each execution. Editors need not come, and those under way save.
- `Terminals`: weak fairness of the reading thread's three steps and of the
  socket's loop (`Serve`), which includes that a client takes what it is sent.
  The shell and its heirs need not end.

## 5. The proofs

`tlapm` checks every obligation of the eight proof modules. The theorems hold
for all values of the constants that meet the named assumptions of the
modules; a theorem that needs more of the constants (that callers do not use an
operation, that a fault does not occur, that there is one loop) says so as its
hypothesis, and only where the statement fails without it. Each module has one
inductive invariant, proved step by step, from which its theorems follow; all
were checked by TLC on the instances of the runs first.

**ProcessRunsProofs.** Assumption: `RunsAssumption`.

- `TypeCorrect`: `TypeOK`. It is not inductive: `NodeOk`, `SubDone` and
  `EachDone` decrement `todo`, and a new child run applies `Child` to the
  process of its parent. `TypeInv` adds that a run that executes has a
  process, that a node that waits for children is counted in `todo`, and what
  callers remember.
- `OutcomeIsRecorded`, `CompletionIsQuiescent`,
  `NestedRunsNeverOutliveTheWait`: from `Safe`, which adds to the three
  invariants how rows match futures at each `pc`, that a run about to be
  spawned is held by one caller, and that only runs at or past a ForEach node
  have items or unnested children. The last of the three depends on a timeout
  dropping exactly the runs nested below the child. `Subtree` is defined as
  the least set closed under nesting; `SubtreeIsBelow` and `Forest` (a parent
  has a row, and no set of runs is closed under "has its parent in the set")
  are what shows that the run at the SubProcess node is not itself in it.
- `SettledRowsChangeByCancelOnly`: an action property, from the same invariant:
  a fresh child takes an id without a row, and a run's own saves happen while
  it executes.
- `ParentsWaitForTheLiving`: the other side of `NestedRunsAreAwaited`. A run at
  a SubProcess node awaits a run that executes or has ended: a timeout that
  drops a run drops all between the two as well (`EveryRunEnds`).
- `RunsImplementLedger`: `Spec => Ledger!Spec`, which `ImplementsLedger` checks
  on an instance. The lemmas go by the ledger's actions: `NewChildInLedger`
  needs that a parent that starts a child, be it the leftover item of a node
  that timed out long ago, has a row that is not completed (`WorkBelow` and
  `CompletedIsQuiescent`); `SavesInLedger`, that at its completion nothing below
  a run is executed; `MarkCheckInLedger`, that `mark_run_failed_if_active` finds a
  row that is active, failed or cancelled: it leaves the last two, and the
  failed it will save over the first, or over a cancel since, is `GiveUp`;
  `RequestInLedger`, that a spawned run was already busy, and
  `CancelsHaveRows`, that who cancels a run has seen its row;
  `StopsInLedger`, that a timeout wakes nobody.
- `LedgerCompletesAtRest`: the ledger alone is enough for a completed run to be
  at rest (`CompletedIsAtRest`); there the invariant is inductive.

**TaskServiceProofs.** Assumption: `ServiceAssumption`; some theorems take
one of two hypotheses about the operations callers use.

- `TypeCorrect`, `ChosenTaskIsSafe`: whatever callers use, from `ClaimInv`: a
  claim that has chosen a task holds the lock, and the task is ready.
- `ClaimsExcludeEachOther`: `ClaimsAreExclusive`, under `NoResets` (callers
  reset no task in progress: `reset_task_to_ready` and
  `reset_in_progress_tasks` take a task from whoever works on it). `WorkInv`
  adds that who works on a task finds it in progress until it says itself that
  it is done, also when a transition succeeded but was reported as failed.
- `ServiceImplementsBoard`: `Spec => Board!Spec`, which `ImplementsBoard`
  checks on an instance, under `Careful` (extraction has scheduled every task,
  and callers do not use `retry_task` and `reset_task_to_ready`, which make a
  task ready whatever its dependencies). `IInv` has what each operation relies
  on between two storage calls: the tasks a promotion works through had their
  dependencies done. That this stays true while others work is the heart of
  it: in a step of the board, done is final.
- `TasksFollowTheirDependencies`: the board keeps `StartedAfterDependencies`,
  hence so does the service; under `Careful`.

**DevLoopProofs.** Assumption: `DevLoopAssumption`. `DevLoopInv` holds whatever
fails: an automaton and a session are named by the request they were made for,
and nobody names one that was not made.

- `StopsKeepTheirSelection`: `StopRemovesWhatItSelected`, an action property,
  for all faults.
- `SessionsAndAgentsAreServed`: `SessionAndAgentAreServed`, under
  `RowsAreWritten`: `Faults` has none of "finish", "close", "drop", "crash".
- `RunningLoopsAreFollowed`: `RunningLoopIsFollowed`, under
  `AutomataAreReached`: `Faults` has none of "stop", "stream", "drop",
  "crash". Streams end after their automata then, and a running loop is with
  the request that started it, not with one that adopted it. Both are stronger
  than the run `dev_loop_requests`, which has no faults but those of its
  configuration.
- `LockIsReleasedInSteps`: whatever fails, a stop request that holds the
  registry's lock has an automaton to stop for each entry it selected, so it
  can always go on; clean-ups wait for that lock (`EndedStreamIsCleanedUp`).

**LoopRecordsProofs.** Assumptions: `EventAssumption`, `UsageAssumption`,
`TurnAssumption`, `CronAssumption`, `TerminalAssumption`.

- `LoopTypes`: `LoopTypeOK`, for any loops. `EventsInv` adds that an event in a
  channel is of a run that has got that far.
- `IntactRunsAreSaved`: `IntactRunIsSaved`, under `OneLoop`: two loops that
  work on one task write to one buffer. The property says nothing of a run
  under way, so `IntactInv` describes the channel: neighbours in it follow each
  other as an automaton sends them, its last event is the latest, and the
  forwarder's buffer has what must come before its first event, unless an event
  of that run was lost.
- `EndsAreNotForgotten`, for any loops: the end of a run is stored, still in a
  channel, or an event of the run was dropped (`EndedRunIsSaved` is about the
  second). Its hypothesis says that a record of an end differs from `None`.
- `UsageIsRecordedTruly`: `RecordsAreTrue`, for any followers and turns.
  `UsageInv` says what the stream of events may be, what a lone follower has
  written down at each of its steps (`LoneInv`), and that an end a follower has
  saved leaves its totals in the session. `UsageTypes`: `UsageTypeOK`.
- `TurnTypesHold`: `TurnTypeOK`. `StoredTurnsAreWhole`: `StoredTurnIsWhole`, for
  any tools, lines and backlog. `TurnInv` says what a program may print, over
  what is in the pipe and what has been sent: each call once, and its result
  once and later (`Protocol`); that what ends a turn is the last event of it
  (`EndIsLast`), so that a turn is stored only when all was heard; and that the
  tape has what was heard (`Transcribes`): its calls are those heard, in their
  order, it has one result for each heard, and each is under the last call made
  before it. With calls made one by one that call is its own. `FollowsOn` adds
  one event to the tape and is where the work is.
- `CronTypes`: `CronTypeOK`. `RepeatingJobsArePlanned`: what has to be so at
  every moment for `EnabledJobRuns` to come true. It speaks of the copies that
  are still to be saved as well as of the job: without them it would not be
  inductive, as any worker may save an old copy over the job.
- `TerminalTypes`: `TerminalTypeOK`. `LeftTerminalsAreKilled` and
  `ReleasesAreNotStuck` are the two halves of `ServedTerminalIsReleased` that
  are safety: what is no longer served has been killed, and of the blocked
  thread, the full channel and the closing socket one can always go on.
  `CanGoOn` spells the guards out, as `ENABLED` is beyond the prover.
  `TerminalInv` adds that one socket at most serves and that while it does it
  is told of the end of the output (`OneSocketServes`).

**ChatSessionsProofs.** Assumption: `ChatAssumption`.

- `ChatTypes`: `TypeOK`.
- `RepliesAreNotMixed`: `StoredReplyIsOneReply`, for any turns. `Listening`
  relates three actors: while the connection lasts, what a recorder has heard
  is the beginning of the answer under way, and the next to be answered is one
  of those the recorder's turn found ahead, or its own.
- `ReopenedSessionsRemember`: `ReopenedSessionKnowsTheChat`. `Remembered` adds
  that what was stored when a turn came stays stored until its history is
  loaded, and is in the history from then on.
- `NobodyListensInVain`: the end of any turn ends the streams of all turns of
  the session, and yet a stream that is open is owed an answer as long as its
  connection lasts, also one that subscribed in between. `OrphansAreLeft`, an
  action property: a session that was replaced in the registry gains no holder.
  `StreamsEnd` and `OrphansAreReleased` rest on these two.

**OrganisationProofs.** Assumptions: `IntegrationAssumption`,
`AgentsAssumption`, `BridgeAssumption`.

- `IntegrationTypes`: `IntegrationTypeOK`.
- `LookupsUndoNoEdit`: `QuietEditsAreMirrored`, and `CallsGetTheirKey`:
  `CallsSeeQuietEdits`, for any number of clients, keys and edits. Neither is
  inductive. `IntegrationInv` adds what is on its way: as long as edits meet
  no other writer, at most one edit has yet to reach the local store, and it
  will make it a true copy; whatever a lookup is about to copy is what the
  service holds (`Mirroring`); an integration tells truly whether it has a key
  (`ServiceTells`), and, without a service and when edits do not overlap, so
  will the local row once the edit under way has written it (`Writing`); and a
  call that has met no edit is, at each of its steps, on the way to what the
  data demanded when it began (`Calls`).
- `AgentsTypes`: `AgentsTypeOK`; with it, that each handler's step fits its
  request (`FitsJob`).
- `DeletionSpotsBindings`: `NoBindingIsOrphaned`. A deletion under way has
  still to look into the project of every binding made before it, or could not
  (`SearchIsComplete`), and only what is gone is forgotten
  (`OnlyTheGoneIsForgotten`).
- `LoneEditsAgree`: `LastWishHolds`. `WishOnTheWay` says what an editor that
  comes alone is about to write, and that nothing has changed until it does,
  nor ever by an update that names only a machine_type (`AsksForNone`);
  `CreatedOnce`, that an agent being posted is not there yet.
- `ServersAreToldOf`: `EveryServerIsToldOf`, for any servers, bridges at a time
  and order of their ends. `BridgesInv` has that a bridge ends once
  (`EndsAreTrue`), hence that when there are as many ends as servers all have
  ended, and that a listing goes through the ends of its kind in the order of
  the servers and leaves none out.

**BackgroundProofs.** Assumptions: `GuardAssumption`, `ScheduleAssumption`,
`NodeAssumption`, `LoopAssumption`. `SuperAgentTools` and `ToolCalls` need none.

- `GuardTypes`: `GuardTypeOK`. `GuardAcceptsRecent`: `AcceptedIsRecent`, for
  every lifetime, maximal age, eviction interval and set of requests. It is not
  inductive: a request that is let in on an old entry is recent only because
  entries are. `GuardInv` adds `EntryIsRecent`: an entry is younger than
  `MaxAge` plus the time since the last eviction.
- `ScheduleTypes`: `ScheduleTypeOK`. `SchedulerRespectsQuietEdits`:
  `QuietEditsHold`, for any number of editors. With the types it is inductive
  as it stands. `ChangedRow`, about any change an editor makes, is where the
  work is: a row counts as paused in peace only when the scheduler holds no
  copy, and the scheduler copies only rows that are due, hence enabled.
- `NodeTypes`: `TypeOK` of `ActionNodes`. `OutputsAreReadAfterTheEnd`:
  `OutputIsReadAfterTheEnd`, and `OwnOutputsAreKept`: `OwnOutputIsKept`, for
  any nodes, sub-tasks, permits and file names. `NodesInv` says what the place
  of the run says of its tasks: those of later nodes have not begun, those of
  earlier nodes are over, so the only automata that can still write a node's
  output file are its own and those of failed tasks (`PlaceInv`); and that a
  node's task that wrote its file finds it as it was until it has read it,
  unless a sub-task of an earlier node failed (`OwnInv`).
- `RunsWaitForTasksAtWork`: what a node or a join waits for was begun, and a
  follower has a stream that ends or can time out (`NodesEnd`).
- `AgentTypes`: `AgentTypeOK`. `EveryToolUseIsAnswered`:
  `ToolUsesAreAnswered`, for any requests and bounds: of every reply a run has
  heard, and of every rebuilt one but the misfiled (`Misfiled`); `LoneTurnsStay`:
  `LoneTurnsAreRemembered`. `AgentInv` adds that a request that is asking alone
  has its words in its conversation, and that once it has ended, every request
  that asks has them in its own: otherwise the next to return would overwrite
  them.
- `ResultsTellTheTruth`: `ResultsAreTrue`, for every tool of the registry.
  The registry has 91 tools and few shapes: `WaysOfTools` shows, table by table,
  that the requests of every use are one of a handful of sequences, and
  `ChangesComeLast` that in each of them what is to be changed is asked for
  last, but for the project that gets a repo. `ToolUseInv` is then about a
  sequence: what an unfinished use has left is what it has asked to be changed
  so far; and of an undoing, that it is of the first request of `create_project`,
  and that nothing is left once it was done. A failed use leaves nothing unless
  an answer was lost, or its project had no Orbit client or was not let go.
- `OfferedCallsComplete`: `OfferedCallsAreServed`. `Agrees` says of one
  method what its schema and the making of its request must have in common:
  each argument that may be given is the first name of a field that reads what
  may be given for it; what a field demands is required, or configured; and
  what is required is demanded. It is shown of each method (`...Agrees`), and
  is all that the rest uses: a call that is meant well fits (`MeantWellFits`),
  one that fits has all that is required (`FittingHasRequired`), and
  `CallInv` follows the call from there. A method written with a field
  misnamed, or made optional on one side only, fails at its own lemma.
  `OfferedAreServed` adds the other tables: a tool of the manifest that is
  offered has a provider that serves it.

**ProcessGraphProofs.** Assumption: `GraphAssumption`; of the nodes, only that
they are finitely many. The graph may be any: edges may lead from and to nodes
that are gone, twice between the same nodes, and round in circles.

- `GraphTypes`: `GraphTypeOK`.
- `SortRefusesTheUnbalanced`: `SortCountsNodes`. `SortInv` is what
  `topological_sort` knows between two iterations: an id is out or queued
  exactly when all edges into it have been removed, its degree is the number of
  those that have not, and none of `Starved` is among them. `SortedAreTheFed`
  shows that the ids that are out when the queue is empty are all others: what
  is left over feeds itself, hence is starved. So the count the code compares
  is that of `KnownIds \ Starved`, although neither is mentioned in the sort.
- `UpstreamGoesFirst`: `UpstreamFirst`, from the order of what is out
  (`Ordered`), which survives the filter of reachable nodes (`SortEndsKeeps`).
- `OutcomesAreAsDefined`: `OutcomeIsAsDefined`. `OutcomeInv` says of the nodes
  visited so far what the property says of all: those completed are in every
  set that has the roots and is closed under the live edges between completed
  nodes, and none of those skipped is fed by one. A verdict once given is not
  changed, as a node is visited once (`CompleteKeeps`).

Model-checked only: liveness (`EveryRunEnds`, `NodesEnd`,
`EndedStreamIsCleanedUp`, `EndedRunIsSaved`, `OrphansAreReleased`, `StreamsEnd`,
`TurnEnds`, `EnabledJobRuns`, `ServedTerminalIsReleased`), which is beyond the
prover, and the two statements that runs refute. Behind each of the former but
`TurnEnds` stands a theorem, named above, of the safety it rests on: that what is
waited for is there, in the hands of somebody, and has not been lost on the way.
Every safety property and every refinement of a passing run is a theorem.

The type invariants are proved; none of the runs spends time on one of a module
with a proof.


## 6. Disagreements and observations

Shown by a run:

- **A cancelled run comes back** (`CancelIsFinal`). Nothing tells the executor
  of a cancel: it saves its own copy as running, failed or completed
  (`executor.rs:775`, 1183, 1243).
- **A chat offers tools it cannot run** (`OfferedToolsAreKnown`). The tools of
  the domains "cron" and "process" come from one registry, what the chat runs
  from another that has only some of them.

Present in the models, seen with TLC while they were written, but not kept as
runs:

- Two concurrent triggers start two runs of a process: the check and the save
  are separate (`executor.rs:507`), against "A run is already active for this
  process" (`crates/aura-os-process/src/error.rs:17`).
- Deleting a node makes runs report a cycle: its connections stay, and the
  sort counts them (`process_store.rs:156`, `executor.rs:709`).
  `SortCountsNodes` has the exact condition.
- The clean-up of any forwarder of an agent instance removes the instance's
  registry entry, whichever automaton it names (`dev_loop.rs:624`).
- A second loop's guess of its first task erases the output of the first loop
  (`dev_loop.rs:571`, 1520): hence one loop in `streams`.
- When two dependencies are completed together, the second promotion of their
  common dependent is refused, and the loop ends with the other dependents
  pending (`task_service.rs:252`, against
  `docs/specs/05-task-state-machine.md:451`).
- The entry of a loop that ends before `start_loop` registers it stays
  (`dev_loop.rs:1568`, against `docs/specs/10-realtime-execution-ui.md:349`).
- A second `start_loop` of an instance adopts the loop and answers 201, where
  `docs/specs/08-backend-http-api.md:393` and 453 have 409.
- Two follow-ups of one title can be created (`task_service.rs:465`, against
  `crates/aura-os-tasks/src/error.rs:26`).
- Selecting a to_do task promotes it without a look at its dependencies
  (`task_service.rs:410`, against `docs/specs/05-task-state-machine.md:21`).
- Chats: a chat that changes its model opens a session without the history;
  of two turns under way in one session both end at the end of the first, and
  the reply to the second is not stored; the loser of a race at opening
  releases its session in the middle of an answer; a broken WebSocket is not
  noticed until something is written to it, so a stream may wait for ever
  (against `docs/aura-runtime-requirements.md:483`); a message that could not
  be sent is stored all the same.
- Guard: an entry that zOS refuses stays, and is used when zOS cannot be
  reached; a validation under way puts back what a logout removed.
- Schedules: the scheduler ignores a failed update of a remote process, which
  is then due at every tick; a changed schedule keeps the old `next_run_at`; a
  one-shot cron job whose time has come runs at every tick.
- The safety net of a run reads the row and then saves failed: a cancel between
  the two is overwritten (`executor.rs:2618`, 2637).
- Super agent: a reply that ends without a stop reason, with tool uses, leaves
  a cached conversation the API refuses from then on. So is, after every
  restart, one that is rebuilt from a reply with two tool uses, both of whose
  results were stored under the second (`handlers/agents/chat.rs:299`), or from
  overlapping turns, though the comment at 544 has it resume with its tool
  uses.
- Tools of the super agent: `create_project` says "(project rolled back)" also
  when the deletion was refused and the project stays (`project_tools.rs:93`),
  and keeps the project when the Orbit client is missing; `create_process` may
  keep a process without its ignition node; `get_usage_stats` of an
  organisation succeeds with both reads refused, and `get_project_stats`
  counts no agents when it cannot list them.
- Integrations: two local edits that overlap may leave a row that denies the
  key that is stored, or claims one that is not; calls by provider are then
  refused, or fail, until the next edit
  (`crates/aura-os-orgs/src/lib.rs:153`). A list that was under way restores
  the shadow of an integration deleted meanwhile; a key cleared elsewhere is
  used from the shadow when the service cannot be reached.
- Agents: an update that names only a machine_type is answered as done and
  changes nothing (`crud.rs:484`). Reading the events of a deleted agent
  creates a binding (`handlers/agents/chat.rs:894`, against
  `handlers/agents/crud.rs:570`); two chats at once create two; an agent's VM
  is never deleted; an edit whose second write fails leaves network and
  configuration disagreeing.
- External programs: a program that does not read its prompt, or leaves a
  child with its errors open, holds the turn without time limit; a lagging
  recorder stores no reply; a tool's result is stored under the last call
  made.
- Usage: turns told of in both ways without totals are counted twice, and two
  followers of one loop both report to the network.

Noted in the code, outside the models:

- `close_stale_sessions` is never called, although
  `crates/aura-os-core/src/entities.rs:318` relies on it at startup; nor are
  session rollover and `record_task_worked`.
- A pinned condition records no verdict, so both its branches run
  (`executor.rs:958`); the model takes this as the definition.
- After a lost `task_started`, the next task's text is booked on the one
  before (`dev_loop.rs:930`); `IntactRunIsSaved` speaks only of runs with all
  their events for this reason, and demands that they are not affected by
  others' losses.
- `stop_loop` forgets an automaton the harness refused to stop
  (`dev_loop.rs:1678`), and `run_single_task` leaves its automaton running when
  it cannot attach (1917).
- With `max_concurrency` 0 sub-tasks wait for a permit that never comes
  (`executor.rs:1747`); prompts cut at byte 200, titles at byte 60 and
  summaries at byte 4000 panic within a character.
- Rows of runs that a dead server left are not looked at again.
- The super agent's text is not cleared between the text blocks of a reply
  (`stream.rs`); `load_domain_tools` announces tools for the next turn, but
  nothing reads what it loads; several of its tools ignore an argument their
  schema has (`get_credit_balance`, `start_dev_loop`), answer without doing
  anything (`import_project`, `get_project_cost`), or ask the network for a
  route that is this server's (`run_task`, spec and task extraction).
- Tools of organisations: wrong-typed optional arguments are dropped silently,
  a number that must be positive may be 0, Linear's `success: false` without
  errors is reported as a result. The test `manifest_matches_provider_contracts`
  compares a list with itself. Most of the legacy dispatcher in `org_tools.rs`
  cannot be reached.
- The pipe to a bridge or to a program is written without a time limit, and
  the program is not killed when its time is up.
- The last output of a terminal may be dropped at its exit.
- `list_instances` holds the lock of the runtime states over calls of the
  network; `update_agent_instance` stores any string as a status;
  `delete_agent_instance` leaves its runtime state.

## 7. Abstractions and what is left out

- **External services** are choices: any answer the code distinguishes, and
  failure where the module allows it. RocksDB calls are atomic, durable and do
  not fail.
- **ProcessRuns** counts nodes and leaves the graph to `ProcessGraph` and the
  work to `ActionNodes`: each iteration may be any kind of node. Artifacts,
  usage and events are left out. A crash is bounded to one, since its effects
  do not add up.
- **ActionNodes** keeps of a text whose words it holds. Prompts, usage and
  progress events are left out.
- **ProcessGraph** has one run, and no edits after it has read the graph,
  which cannot reach its copy. `update_node` changes no identity and is left
  out. Node execution is a choice of outcome.
- **ProcessSchedule, CronJobs** have one row each: rows share nothing but the
  scheduler, which takes them one by one. Cron's artifacts and tags are left
  out: `execute` is a stub that makes none.
- **DevLoop** has one project; other projects meet it only at the mutex.
  `start_working` and `finish_working` are single steps although each writes
  twice. Requests are one-shot: a repeated call is another request.
- **LoopEvents** leaves out the end of the forwarder (in `DevLoop`), usage (in
  `UsageRecords`), verification steps, changed files and the events passed on
  to clients. The promotion `select_next_task` may make while `start_loop`
  guesses is left out (in `TaskService`). Reading the guess and inserting the
  cache entry is one step.
- **UsageRecords** counts turns, not tokens, and one task.
- **TaskService** keeps of a list only what the operation will use, and of a
  title only equality. Order is `Rank`, by spec and index. One project, hence
  one lock.
- **ChatSessions** has one agent: sessions of agents share nothing. A reply is
  two halves, so that it can be heard in part. Attachments, thinking and the
  tool uses within a reply are left out, like the creation of the rows a chat
  is stored under.
- **SuperAgent** keeps the shape of a conversation, not its words;
  **SuperAgentTools** of a tool its requests and their outcome.
- **ExternalTurns** leaves out the building of prompts and command lines and
  the parsing of each program's lines, which become texts, uses and results.
- **Agents** has one agent and leaves out what has no effect on the machine or
  the bindings (names, icons, skills). **Integrations** has one integration
  and leaves out its secret's encoding.
- **ToolCalls** keeps kinds of values; addresses, the places of fields in a
  request and the fields of answers are left out. **ToolBridges** leaves out
  what a listed tool looks like.
- **AuthGuard** has one token: entries share nothing. **Terminals** has one
  terminal; its manager's lock is held throughout each operation, so terminals
  do not interleave.

Not modelled, and why, is in 1.2. Components are "partly" modelled where
operations of theirs that change state are in no module: metadata, artifacts,
events and the operations named above.

## 8. The plan

Written first, because the most depends on them: `ProcessRuns`,
`ProcessGraph`, `DevLoop`, `TaskBoard` with `TaskService`, `LoopEvents`; then
the rest in the order of 1.1. What is left:

1. The streams and the message queue of the frontend, and the handlers that
   generate specs and extract tasks, as modules of their own.
2. Abstract specifications of the chat (a log of messages and replies) and of
   the integration (one row), refined by `ChatSessions` and `Integrations`.
