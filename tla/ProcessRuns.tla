---------------------------- MODULE ProcessRuns ----------------------------
(***************************************************************************)
(* Life cycle of process runs: ProcessExecutor of                          *)
(* crates/aura-os-process/src/executor.rs.                                 *)
(*                                                                         *)
(* Callers (HTTP handlers and the scheduler) trigger and cancel runs; each *)
(* run is executed by a future that is either a tokio task of its own      *)
(* (trigger, the items of a ForEach node) or nested in the future of its   *)
(* parent (a SubProcess node).  The rows of CF_PROCESS_RUNS outlive the    *)
(* server; the futures do not.  The node loop is abstracted to "todo more  *)
(* nodes, each of which may fail, call a child process or fan out over     *)
(* items"; module ProcessGraph models the loop itself.                     *)
(***************************************************************************)
EXTENDS Naturals, FiniteSets

CONSTANTS
    Processes,       \* process ids
    Runs,            \* the run ids ProcessRunId::new() hands out
    NoRun,           \* stands for None where a run id is optional
    NoProcess,       \* stands for a process without child-process nodes
    Child,           \* Child[p]: the child_process_id of p's SubProcess/ForEach nodes
    Callers,         \* concurrent clients of trigger and cancel_run
    MaxNodes,        \* bound: reachable nodes of a graph
    MaxItems,        \* bound: items a ForEach node iterates over
    MaxConcurrency,  \* config.max_concurrency of the ForEach nodes
    MaxCrashes,      \* bound: server crashes
    InternalSync     \* TRUE iff the storage client has an internal token

ASSUME RunsAssumption ==
    /\ NoRun \notin Runs
    /\ NoProcess \notin Processes
    /\ Child \in [Processes -> Processes \cup {NoProcess}]
    /\ MaxNodes \in Nat /\ MaxItems \in Nat /\ MaxConcurrency \in Nat
    /\ MaxCrashes \in Nat
    /\ InternalSync \in BOOLEAN

VARIABLES
    status,    \* run.status of the stored row, "none" when there is no row
    process,   \* run.process_id
    parent,    \* run.parent_run_id
    pc,        \* where the future that executes the run stands
    nested,    \* the runs executed inside the future of their parent
    awaiting,  \* the nested run a SubProcess node waits for
    todo,      \* nodes the loop of execute_run has still to visit
    items,     \* ForEach item tasks that have not got a permit yet
    caller,    \* what each caller is doing
    crashes    \* crashes so far

vars == <<status, process, parent, pc, nested, awaiting, todo, items, caller,
          crashes>>

----------------------------------------------------------------------------
Active == {"pending", "running"}
Terminal == {"completed", "failed", "cancelled"}

LivePc == {"triggered", "spawned", "setup", "loop", "sub", "each", "failing",
           "mark", "marking"}
EndedPc == {"ok", "err"}

\* The future of run r exists and can take steps.
Live(r) == pc[r] \in LivePc

Children(r) == {c \in Runs : parent[c] = r}

\* The item tasks of r that hold a permit: their child run has not returned.
RunningItems(r) == {c \in Children(r) \ nested : Live(c)}

Doing(op, p, r) == [op |-> op, process |-> p, run |-> r]
Idle == Doing("idle", NoProcess, NoRun)

CallerState ==
    [op : {"idle", "checked", "spawning", "cancelling"},
     process : Processes \cup {NoProcess}, run : Runs \cup {NoRun}]

TypeOK ==
    /\ status \in [Runs -> {"none"} \cup Active \cup Terminal]
    /\ process \in [Runs -> Processes \cup {NoProcess}]
    /\ parent \in [Runs -> Runs \cup {NoRun}]
    /\ pc \in [Runs -> {"none", "gone"} \cup LivePc \cup EndedPc]
    /\ nested \in SUBSET Runs
    /\ awaiting \in [Runs -> Runs \cup {NoRun}]
    /\ todo \in [Runs -> 0..MaxNodes]
    /\ items \in [Runs -> 0..MaxItems]
    /\ caller \in [Callers -> CallerState]
    /\ crashes \in 0..MaxCrashes

Init ==
    /\ status = [r \in Runs |-> "none"]
    /\ process = [r \in Runs |-> NoProcess]
    /\ parent = [r \in Runs |-> NoRun]
    /\ pc = [r \in Runs |-> "none"]
    /\ nested = {}
    /\ awaiting = [r \in Runs |-> NoRun]
    /\ todo = [r \in Runs |-> 0]
    /\ items = [r \in Runs |-> 0]
    /\ caller = [c \in Callers |-> Idle]
    /\ crashes = 0

----------------------------------------------------------------------------
(* trigger: list_runs finds no active run, then a new row is saved, then   *)
(* (after the best-effort sync) the execution task is spawned.             *)

TriggerCheck(c, p) ==
    /\ caller[c] = Idle
    /\ \A r \in Runs : process[r] = p => status[r] \notin Active
    /\ caller' = [caller EXCEPT ![c] = Doing("checked", p, NoRun)]
    /\ UNCHANGED <<status, process, parent, pc, nested, awaiting, todo, items,
                   crashes>>

\* Mutant: run ids are reused once a run is over.
TriggerSaveReusesRow(c) ==
    /\ caller[c].op = "checked"
    /\ \E r \in Runs :
        /\ status[r] \notin Active
        /\ status' = [status EXCEPT ![r] = "pending"]
        /\ process' = [process EXCEPT ![r] = caller[c].process]
        /\ pc' = [pc EXCEPT ![r] = "triggered"]
        /\ caller' = [caller EXCEPT ![c] = Doing("spawning", NoProcess, r)]
    /\ UNCHANGED <<parent, nested, awaiting, todo, items, crashes>>

TriggerSave(c) ==
    /\ caller[c].op = "checked"
    /\ \E r \in Runs :
        /\ status[r] = "none"
        /\ status' = [status EXCEPT ![r] = "pending"]
        /\ process' = [process EXCEPT ![r] = caller[c].process]
        /\ pc' = [pc EXCEPT ![r] = "triggered"]
        /\ caller' = [caller EXCEPT ![c] = Doing("spawning", NoProcess, r)]
    /\ UNCHANGED <<parent, nested, awaiting, todo, items, crashes>>

TriggerSpawn(c) ==
    /\ caller[c].op = "spawning"
    /\ pc' = [pc EXCEPT ![caller[c].run] = "spawned"]
    /\ caller' = [caller EXCEPT ![c] = Idle]
    /\ UNCHANGED <<status, process, parent, nested, awaiting, todo, items,
                   crashes>>

\* The client goes away while the handler awaits sync_run_to_storage: the
\* handler's future is dropped before it reaches tokio::spawn.
DropRequest(c) ==
    /\ InternalSync
    /\ caller[c].op = "spawning"
    /\ pc' = [pc EXCEPT ![caller[c].run] = "gone"]
    /\ caller' = [caller EXCEPT ![c] = Idle]
    /\ UNCHANGED <<status, process, parent, nested, awaiting, todo, items,
                   crashes>>

----------------------------------------------------------------------------
(* cancel_run: reads the row, checks that it is active, saves it back.     *)

CancelCheck(c, r) ==
    /\ caller[c] = Idle
    /\ status[r] \in Active
    /\ caller' = [caller EXCEPT ![c] = Doing("cancelling", NoProcess, r)]
    /\ UNCHANGED <<status, process, parent, pc, nested, awaiting, todo, items,
                   crashes>>

CancelSave(c) ==
    /\ caller[c].op = "cancelling"
    /\ status' = [status EXCEPT ![caller[c].run] = "cancelled"]
    /\ caller' = [caller EXCEPT ![c] = Idle]
    /\ UNCHANGED <<process, parent, pc, nested, awaiting, todo, items, crashes>>

----------------------------------------------------------------------------
(* execute_run                                                             *)

\* The run is saved as Running whatever its stored status has become.
Start(r) ==
    /\ pc[r] = "spawned"
    /\ status' = [status EXCEPT ![r] = "running"]
    /\ pc' = [pc EXCEPT ![r] = "setup"]
    /\ UNCHANGED <<process, parent, nested, awaiting, todo, items, caller,
                   crashes>>

\* Graph, process, spec and tasks are read or created; n nodes are reachable.
SetupOk(r) ==
    /\ pc[r] = "setup"
    /\ \E n \in 0..MaxNodes : todo' = [todo EXCEPT ![r] = n]
    /\ pc' = [pc EXCEPT ![r] = "loop"]
    /\ UNCHANGED <<status, process, parent, nested, awaiting, items, caller,
                   crashes>>

\* Mutant: without mark_run_failed_if_active an early error leaves no trace.
SetupErrUnmarked(r) ==
    /\ pc[r] = "setup"
    /\ pc' = [pc EXCEPT ![r] = "err"]
    /\ UNCHANGED <<status, process, parent, nested, awaiting, todo, items,
                   caller, crashes>>

\* Any `?` between the Running save and the node loop.
SetupErr(r) ==
    /\ pc[r] = "setup"
    /\ pc' = [pc EXCEPT ![r] = "mark"]
    /\ UNCHANGED <<status, process, parent, nested, awaiting, todo, items,
                   caller, crashes>>

\* A node other than SubProcess and ForEach completes, is skipped or pinned.
NodeOk(r) ==
    /\ pc[r] = "loop" /\ todo[r] > 0
    /\ todo' = [todo EXCEPT ![r] = @ - 1]
    /\ UNCHANGED <<status, process, parent, pc, nested, awaiting, items,
                   caller, crashes>>

NodeErr(r) ==
    /\ pc[r] = "loop" /\ todo[r] > 0
    /\ pc' = [pc EXCEPT ![r] = "failing"]
    /\ UNCHANGED <<status, process, parent, nested, awaiting, todo, items,
                   caller, crashes>>

\* trigger_and_await up to the start of the child's execute_run.  Unlike
\* trigger it does not look for an active run of the child process.
NewChild(r, c) ==
    /\ Child[process[r]] # NoProcess
    /\ status[c] = "none"
    /\ status' = [status EXCEPT ![c] = "pending"]
    /\ process' = [process EXCEPT ![c] = Child[process[r]]]
    /\ parent' = [parent EXCEPT ![c] = r]

SubStart(r, c) ==
    /\ pc[r] = "loop" /\ todo[r] > 0
    /\ NewChild(r, c)
    /\ pc' = [pc EXCEPT ![r] = "sub", ![c] = "spawned"]
    /\ nested' = nested \cup {c}
    /\ awaiting' = [awaiting EXCEPT ![r] = c]
    /\ UNCHANGED <<todo, items, caller, crashes>>

SubDone(r) ==
    /\ pc[r] = "sub"
    /\ pc[awaiting[r]] \in EndedPc
    /\ IF pc[awaiting[r]] = "ok"
         THEN /\ pc' = [pc EXCEPT ![r] = "loop"]
              /\ todo' = [todo EXCEPT ![r] = @ - 1]
         ELSE /\ pc' = [pc EXCEPT ![r] = "failing"]
              /\ UNCHANGED todo
    /\ awaiting' = [awaiting EXCEPT ![r] = NoRun]
    /\ UNCHANGED <<status, process, parent, nested, items, caller, crashes>>

\* The runs whose futures are nested, directly or not, in the future of r.
Subtree(r) ==
    {c \in Runs : \A S \in SUBSET Runs :
        /\ awaiting[r] \in S
        /\ \A d \in S : awaiting[d] # NoRun => awaiting[d] \in S
        => c \in S}

\* Mutant: the child is spawned instead of nested, so the timeout detaches it.
SubTimeoutDetaches(r) ==
    /\ pc[r] = "sub"
    /\ pc' = [pc EXCEPT ![r] = "failing"]
    /\ awaiting' = [awaiting EXCEPT ![r] = NoRun]
    /\ UNCHANGED <<status, process, parent, nested, todo, items, caller,
                   crashes>>

\* tokio::time::timeout drops the child's future and with it all futures
\* nested in it; tasks they spawned for ForEach items are detached, not stopped.
\* It does so between two polls, and mark_run_failed_if_active awaits nothing.
SubTimeout(r) ==
    /\ pc[r] = "sub"
    /\ \A s \in Subtree(r) : pc[s] # "marking"
    /\ pc' = [s \in Runs |->
                CASE s = r -> "failing"
                  [] s # r /\ s \in Subtree(r) /\ Live(s) -> "gone"
                  [] OTHER -> pc[s]]
    /\ awaiting' = [s \in Runs |->
                      IF s = r \/ s \in Subtree(r) THEN NoRun ELSE awaiting[s]]
    /\ todo' = [s \in Runs |-> IF s \in Subtree(r) THEN 0 ELSE todo[s]]
    /\ UNCHANGED <<status, process, parent, nested, items, caller, crashes>>

\* A ForEach node spawns one task per item; without items it is done at once,
\* which is NodeOk.
EachStart(r) ==
    /\ pc[r] = "loop" /\ todo[r] > 0
    /\ Child[process[r]] # NoProcess
    /\ \E n \in 1..MaxItems : items' = [items EXCEPT ![r] = n]
    /\ pc' = [pc EXCEPT ![r] = "each"]
    /\ UNCHANGED <<status, process, parent, nested, awaiting, todo, caller,
                   crashes>>

\* An item task of r gets a permit and triggers its child run.  The guard does
\* not ask whether r still waits: the tasks go on after the node timed out.
ItemStart(r, c) ==
    /\ items[r] > 0
    /\ Cardinality(RunningItems(r)) < MaxConcurrency
    /\ NewChild(r, c)
    /\ pc' = [pc EXCEPT ![c] = "spawned"]
    /\ items' = [items EXCEPT ![r] = @ - 1]
    /\ UNCHANGED <<nested, awaiting, todo, caller, crashes>>

\* trigger_and_await fails before it saves a row.
ItemErr(r) ==
    /\ items[r] > 0
    /\ Cardinality(RunningItems(r)) < MaxConcurrency
    /\ items' = [items EXCEPT ![r] = @ - 1]
    /\ UNCHANGED <<status, process, parent, pc, nested, awaiting, todo, caller,
                   crashes>>

\* Mutant: the node is done when every item was started, not joined.
EachDoneUnjoined(r) ==
    /\ pc[r] = "each"
    /\ items[r] = 0
    /\ pc' = [pc EXCEPT ![r] = "loop"]
    /\ todo' = [todo EXCEPT ![r] = @ - 1]
    /\ UNCHANGED <<status, process, parent, nested, awaiting, items, caller,
                   crashes>>

\* All handles are joined; failed items become text in the node's output.
EachDone(r) ==
    /\ pc[r] = "each"
    /\ items[r] = 0
    /\ RunningItems(r) = {}
    /\ pc' = [pc EXCEPT ![r] = "loop"]
    /\ todo' = [todo EXCEPT ![r] = @ - 1]
    /\ UNCHANGED <<status, process, parent, nested, awaiting, items, caller,
                   crashes>>

\* Mutant: no timeout around the join of the item tasks.
EachTimeoutMissing(r) ==
    /\ FALSE
    /\ UNCHANGED vars

EachTimeout(r) ==
    /\ pc[r] = "each"
    /\ pc' = [pc EXCEPT ![r] = "failing"]
    /\ UNCHANGED <<status, process, parent, nested, awaiting, todo, items,
                   caller, crashes>>

\* The per-node error handler saves the run as Failed, unconditionally.
FailSave(r) ==
    /\ pc[r] = "failing"
    /\ status' = [status EXCEPT ![r] = "failed"]
    /\ pc' = [pc EXCEPT ![r] = "mark"]
    /\ UNCHANGED <<process, parent, nested, awaiting, todo, items, caller,
                   crashes>>

\* mark_run_failed_if_active, called by whoever awaited execute_run: looks for
\* the row, and has nothing to do when it is not active ...
MarkCheck(r) ==
    /\ pc[r] = "mark"
    /\ IF status[r] \in Active
         THEN /\ pc' = [pc EXCEPT ![r] = "marking"]
              /\ UNCHANGED todo
         ELSE /\ pc' = [pc EXCEPT ![r] = "err"]
              /\ todo' = [todo EXCEPT ![r] = 0]
    /\ UNCHANGED <<status, process, parent, nested, awaiting, items, caller,
                   crashes>>

\* ... and saves it as Failed, whatever its stored status has become.
MarkSave(r) ==
    /\ pc[r] = "marking"
    /\ status' = [status EXCEPT ![r] = "failed"]
    /\ pc' = [pc EXCEPT ![r] = "err"]
    /\ todo' = [todo EXCEPT ![r] = 0]
    /\ UNCHANGED <<process, parent, nested, awaiting, items, caller, crashes>>

Complete(r) ==
    /\ pc[r] = "loop" /\ todo[r] = 0
    /\ status' = [status EXCEPT ![r] = "completed"]
    /\ pc' = [pc EXCEPT ![r] = "ok"]
    /\ UNCHANGED <<process, parent, nested, awaiting, todo, items, caller,
                   crashes>>

----------------------------------------------------------------------------
\* The server process dies and is started again: the rows stay, every future
\* and request is gone, and nothing at startup looks at unfinished runs.
Crash ==
    /\ crashes < MaxCrashes
    /\ crashes' = crashes + 1
    /\ pc' = [r \in Runs |-> IF pc[r] = "none" THEN "none" ELSE "gone"]
    /\ awaiting' = [r \in Runs |-> NoRun]
    /\ todo' = [r \in Runs |-> 0]
    /\ items' = [r \in Runs |-> 0]
    /\ caller' = [c \in Callers |-> Idle]
    /\ UNCHANGED <<status, process, parent, nested>>

Request(c) ==
    \/ \E p \in Processes : TriggerCheck(c, p)
    \/ TriggerSave(c) \/ TriggerSpawn(c) \/ DropRequest(c)
    \/ \E r \in Runs : CancelCheck(c, r)
    \/ CancelSave(c)

Execute(r) ==
    \/ Start(r) \/ SetupOk(r) \/ SetupErr(r)
    \/ NodeOk(r) \/ NodeErr(r)
    \/ \E c \in Runs : SubStart(r, c)
    \/ SubDone(r) \/ SubTimeout(r)
    \/ EachStart(r) \/ EachDone(r) \/ EachTimeout(r)
    \/ FailSave(r) \/ MarkCheck(r) \/ MarkSave(r) \/ Complete(r)

Item(r) ==
    \/ \E c \in Runs : ItemStart(r, c)
    \/ ItemErr(r)

Next ==
    \/ \E c \in Callers : Request(c)
    \/ \E r \in Runs : Execute(r) \/ Item(r)
    \/ Crash

Spec == Init /\ [][Next]_vars

\* tokio polls every ready task, its timers fire, and the semaphore hands out
\* permits while there are any; nothing has to fail.
Fairness ==
    /\ \A r \in Runs : WF_vars(Execute(r))
    /\ \A r \in Runs : WF_vars(\E c \in Runs : ItemStart(r, c))
    /\ \A c \in Callers : WF_vars(TriggerSpawn(c))

FairSpec == Spec /\ Fairness

----------------------------------------------------------------------------
(* Properties                                                              *)

\* What execute_run returned is what the row says, up to a cancel request: a
\* run whose future returned Ok is completed, one that returned Err is failed,
\* even when it left through an early error that only
\* mark_run_failed_if_active turns into a status.
OutcomeRecorded ==
    \A r \in Runs :
        /\ pc[r] = "ok" => status[r] \in {"completed", "cancelled"}
        /\ pc[r] = "err" => status[r] \in {"failed", "cancelled"}

\* A completed run left nothing behind: none of its child runs is still being
\* executed and no ForEach item of it waits for a permit.
CompletedIsQuiescent ==
    \A r \in Runs : status[r] = "completed" =>
        items[r] = 0 /\ \A c \in Children(r) : ~Live(c)

\* A SubProcess timeout stops the whole chain of nested runs: a nested run
\* executes only while its parent waits for it at a SubProcess node.
NestedRunsAreAwaited ==
    \A c \in nested : Live(c) =>
        /\ pc[parent[c]] = "sub"
        /\ awaiting[parent[c]] = c

\* The table of runs keeps the promises of module RunLedger: who writes a row,
\* when, and what may happen below a run that is completed.
Ledger == INSTANCE RunLedger WITH busy <- {r \in Runs : Live(r)}
ImplementsLedger == Ledger!Spec

\* Once nobody executes a run any more its stored status changes only through
\* a cancel request.
SettledChangesByCancelOnly ==
    [][\A r \in Runs : pc[r] \in EndedPc \cup {"gone"} =>
            status'[r] \in {status[r], "cancelled"}]_vars

\* Every future ends: child processes, also recursive ones, are bounded by the
\* node timeouts.
EveryRunEnds == \A r \in Runs : Live(r) ~> ~Live(r)

\* A client that cancelled a run was answered "cancelled" and told that the run
\* is completed: the run never becomes active again.
CancelIsFinal ==
    [][\A r \in Runs : status[r] = "cancelled" => status'[r] = "cancelled"]_vars
=============================================================================
