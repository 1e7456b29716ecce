---------------------------- MODULE ActionNodes ----------------------------
(***************************************************************************)
(* The Action, Prompt, Artifact and Condition nodes of one process run, as *)
(* src/crates/aura-os-process/src/executor.rs executes them in automata of *)
(* the harness: one automaton, or one per sub-task when the upstream text  *)
(* is a list.  All automata of the run work in the same workspace, the     *)
(* directory of the run; a node's output is what its automaton left there. *)
(* A text is the set of tasks whose words it holds.                        *)
(***************************************************************************)
EXTENDS Naturals, Sequences, FiniteSets

CONSTANTS
    LastNode,        \* the run's nodes are 1 .. LastNode, in sorted order
    MaxParts,        \* bound, per node: sub-tasks it is split into
    MaxConcurrency,  \* the nodes' max_concurrency setting
    OutputFile       \* the nodes' output_file setting, a number per name

ASSUME NodeAssumption ==
    /\ LastNode \in Nat \ {0} /\ MaxParts \in [1 .. LastNode -> Nat]
    /\ MaxConcurrency \in Nat \ {0}
    /\ OutputFile \in [1 .. LastNode -> Nat]

Nodes == 1 .. LastNode
\* <<n, 0>> is node n's own task, <<n, i>> its i-th sub-task.
Tasks == UNION {{n} \X (0 .. MaxParts[n]) : n \in Nodes}
OwnTask(n) == <<n, 0>>
SubTasks(n) == {n} \X (1 .. MaxParts[n])
\* A sub-task looks for output-<task id>.txt, a node's task for output_file.
NodeFile(n) == <<0, OutputFile[n]>>
ExpectedFile(t) == IF t[2] = 0 THEN NodeFile(t[1]) ELSE t
Files == {NodeFile(n) : n \in Nodes} \cup UNION {SubTasks(n) : n \in Nodes}

VARIABLES
    node,       \* the node being executed, LastNode + 1 after the last one
    pc,         \* where execute_run is with it
    parts,      \* number of tasks its work was split into
    made,       \* sub-tasks created so far
    output,     \* node -> the texts joined so far, in order
    state,      \* task -> where the tokio task following its automaton is
    text,       \* task -> its output, once ended
    automaton,  \* task -> none, running or ended, in the harness
    stream,     \* task -> what the follower can still receive
    file,       \* file name -> its text, {} while absent
    wrote       \* tasks whose automaton wrote the node's output file

runVars == <<node, pc, parts, made, output>>
vars == <<runVars, state, text, automaton, stream, file, wrote>>

Ended == {"ok", "failed"}
Following == {"starting", "connecting", "following", "reading"}

Init ==
    /\ node = 1 /\ pc = "ready" /\ parts = 0 /\ made = 0
    /\ output = [n \in Nodes |-> <<>>]
    /\ state = [t \in Tasks |-> "none"] /\ text = [t \in Tasks |-> {}]
    /\ automaton = [t \in Tasks |-> "none"]
    /\ stream = [t \in Tasks |-> "none"]
    /\ file = [f \in Files |-> {}] /\ wrote = {}

------------------------------------------------------------------------------
(* The node, in the task of execute_run                                      *)

\* plan_sub_tasks: no upstream text, or no list in it, leaves one task.
PlanSingle ==
    /\ pc = "ready" /\ node \in Nodes
    /\ pc' = "single" /\ parts' = 1
    /\ state' = [state EXCEPT ![OwnTask(node)] = "starting"]
    /\ UNCHANGED <<node, made, output, text, automaton, stream, file, wrote>>

PlanSplit ==
    /\ pc = "ready" /\ node \in Nodes
    /\ pc' = "creating" /\ parts' \in 2 .. MaxParts[node]
    /\ made' = 0
    /\ UNCHANGED <<node, output, state, text, automaton, stream, file, wrote>>

\* A title is cut at byte 60: within a character that panics, and the task of
\* the run is gone.
PlanPanics ==
    /\ pc = "ready" /\ node \in Nodes
    /\ pc' = "panicked"
    /\ UNCHANGED <<node, parts, made, output, state, text, automaton, stream,
                   file, wrote>>

\* One sub-task is created in storage and its tokio task spawned.
CreateSubTask ==
    /\ pc = "creating" /\ made < parts
    /\ made' = made + 1
    /\ state' = [state EXCEPT ![<<node, made + 1>>] = "waiting"]
    /\ UNCHANGED <<node, pc, parts, output, text, automaton, stream, file,
                   wrote>>

\* No token, or storage refuses: the node fails, and the sub-tasks spawned
\* before go on by themselves.
CreateFails ==
    /\ pc = "creating" /\ made < parts
    /\ pc' = "failed"
    /\ UNCHANGED <<node, parts, made, output, state, text, automaton, stream,
                   file, wrote>>

\* handle.await, in the order the sub-tasks were created in.
JoinNext(i) ==
    /\ pc = "creating" /\ made = parts /\ Len(output[node]) < parts
    /\ state[<<node, i>>] \in Ended
    /\ output' = [output EXCEPT ![node] = Append(@, text[<<node, i>>])]
    /\ UNCHANGED <<node, pc, parts, made, state, text, automaton, stream, file,
                   wrote>>

Join == \E i \in 1 .. parts : i = Len(output[node]) + 1 /\ JoinNext(i)

UnionOf(texts) == UNION {texts[i] : i \in DOMAIN texts}

\* The merged text goes to the node's output file; a failed write is logged.
Merge ==
    /\ pc = "creating" /\ made = parts /\ Len(output[node]) = parts
    /\ \/ file' = [file EXCEPT ![NodeFile(node)] = UnionOf(output[node])]
       \/ UNCHANGED file
    /\ node' = node + 1 /\ pc' = "ready" /\ parts' = 0 /\ made' = 0
    /\ UNCHANGED <<output, state, text, automaton, stream, wrote>>

FinishSingle ==
    /\ pc = "single" /\ state[OwnTask(node)] = "ok"
    /\ output' = [output EXCEPT ![node] = <<text[OwnTask(node)]>>]
    /\ node' = node + 1 /\ pc' = "ready" /\ parts' = 0
    /\ UNCHANGED <<made, state, text, automaton, stream, file, wrote>>

FailSingle ==
    /\ pc = "single" /\ state[OwnTask(node)] = "failed"
    /\ pc' = "failed"
    /\ UNCHANGED <<node, parts, made, output, state, text, automaton, stream,
                   file, wrote>>

\* The run is a child whose SubProcess node timed out: its future is dropped,
\* with the automaton of a single task, not with the spawned sub-tasks.
Drop ==
    /\ pc \in {"ready", "creating", "single"} /\ node \in Nodes
    /\ pc' = "dropped"
    /\ state' = IF pc = "single" THEN [state EXCEPT ![OwnTask(node)] = "failed"]
                                 ELSE state
    /\ UNCHANGED <<node, parts, made, output, text, automaton, stream, file,
                   wrote>>

------------------------------------------------------------------------------
(* A task and its automaton                                                  *)

Holders == {t \in Tasks : t[2] > 0 /\ state[t] \in Following}

\* A permit of the node's semaphore, held to the end of the sub-task.
Acquire(t) ==
    /\ state[t] = "waiting" /\ Cardinality(Holders) < MaxConcurrency
    /\ state' = [state EXCEPT ![t] = "starting"]
    /\ UNCHANGED <<runVars, text, automaton, stream, file, wrote>>

\* An ended task's text: its output, or for a sub-task the note of its failure.
EndWith(t, how, words) ==
    /\ state' = [state EXCEPT ![t] = how]
    /\ text' = [text EXCEPT ![t] = words]

Fail(t) == EndWith(t, "failed", {t})

StartAutomaton(t) ==
    /\ state[t] = "starting"
    /\ \/ /\ automaton' = [automaton EXCEPT ![t] = "running"]
          /\ state' = [state EXCEPT ![t] = "connecting"]
          /\ UNCHANGED text
       \/ Fail(t) /\ UNCHANGED automaton
    /\ UNCHANGED <<runVars, stream, file, wrote>>

\* Three attempts to open the event stream, then a subscription to what its
\* reader forwards.  The terminal event of an automaton that has ended
\* meanwhile is received, or was forwarded before the subscription, or there is
\* no stream left to open.  A failure leaves a running automaton running.
Connect(t) ==
    /\ state[t] = "connecting"
    /\ \/ /\ state' = [state EXCEPT ![t] = "following"] /\ UNCHANGED text
          /\ \/ /\ automaton[t] = "running"
                /\ stream' = [stream EXCEPT ![t] = "open"]
             \/ /\ automaton[t] = "ended"
                /\ \E e \in {"completed", "failed", "lost"} :
                       stream' = [stream EXCEPT ![t] = e]
       \/ Fail(t) /\ UNCHANGED stream
    /\ UNCHANGED <<runVars, automaton, file, wrote>>

\* The automaton writes a file of the workspace.
WriteFile(t, f) ==
    /\ automaton[t] = "running"
    /\ file' = [file EXCEPT ![f] = {t}]
    /\ wrote' = IF f = NodeFile(t[1]) THEN wrote \cup {t} ELSE wrote
    /\ UNCHANGED <<runVars, state, text, automaton, stream>>

\* It ends, and its terminal event is forwarded to a follower.
EndAutomaton(t) ==
    /\ automaton[t] = "running"
    /\ automaton' = [automaton EXCEPT ![t] = "ended"]
    /\ \/ /\ stream[t] = "open"
          /\ \E e \in {"completed", "failed"} :
                 stream' = [stream EXCEPT ![t] = e]
       \/ stream[t] # "open" /\ UNCHANGED stream
    /\ UNCHANGED <<runVars, state, text, file, wrote>>

\* The connection breaks, or the follower lags past the terminal event.  The
\* follower keeps the sending end of the channel, so it sees no end of stream.
LoseStream(t) ==
    /\ stream[t] = "open" /\ state[t] = "following"
    /\ stream' = [stream EXCEPT ![t] = "lost"]
    /\ UNCHANGED <<runVars, state, text, automaton, file, wrote>>

\* Mutant: a stream that ends early counts as success.
CollectToEndOfStream(t) ==
    /\ state[t] = "following"
    /\ \/ /\ stream[t] \in {"completed", "lost"}
          /\ state' = [state EXCEPT ![t] = "reading"] /\ UNCHANGED text
       \/ stream[t] = "failed" /\ Fail(t)
    /\ UNCHANGED <<runVars, automaton, stream, file, wrote>>

\* collect_automaton_events returns at a terminal event ...
Collect(t) ==
    /\ state[t] = "following"
    /\ \/ /\ stream[t] = "completed"
          /\ state' = [state EXCEPT ![t] = "reading"] /\ UNCHANGED text
       \/ stream[t] = "failed" /\ Fail(t)
    /\ UNCHANGED <<runVars, automaton, stream, file, wrote>>

\* Mutant: only a stream that is open has a deadline.
TimeOutIfOpen(t) ==
    /\ state[t] = "following" /\ stream[t] = "open"
    /\ Fail(t)
    /\ UNCHANGED <<runVars, automaton, stream, file, wrote>>

\* ... or at the deadline; nobody tells the automaton.
TimeOut(t) ==
    /\ state[t] = "following" /\ stream[t] \in {"open", "lost"}
    /\ Fail(t)
    /\ UNCHANGED <<runVars, automaton, stream, file, wrote>>

FindWorkspaceOutput == UNION {file[f] : f \in Files}

\* Mutant: the expected file is not looked for first.
OutputOfScan(t, streamed) ==
    IF FindWorkspaceOutput # {} THEN FindWorkspaceOutput ELSE streamed

\* The expected file, or else every file there is, or else the streamed text.
OutputOf(t, streamed) ==
    IF file[ExpectedFile(t)] # {} THEN file[ExpectedFile(t)]
    ELSE IF FindWorkspaceOutput # {} THEN FindWorkspaceOutput
    ELSE streamed

\* A node whose automaton produced nothing fails, a sub-task does not.
ReadOutput(t) ==
    /\ state[t] = "reading"
    /\ \E streamed \in {{}, {t}} :
           LET words == OutputOf(t, streamed)
           IN  IF words = {} /\ t[2] = 0 THEN Fail(t) ELSE EndWith(t, "ok", words)
    /\ UNCHANGED <<runVars, automaton, stream, file, wrote>>

------------------------------------------------------------------------------
NodeStep ==
    \/ PlanSingle \/ PlanSplit \/ PlanPanics \/ CreateSubTask \/ CreateFails
    \/ Join \/ Merge \/ FinishSingle \/ FailSingle

FollowerStep(t) ==
    \/ Acquire(t) \/ StartAutomaton(t) \/ Connect(t) \/ Collect(t)
    \/ TimeOut(t) \/ ReadOutput(t)

HarnessStep(t) ==
    \/ WriteFile(t, NodeFile(t[1])) \/ WriteFile(t, ExpectedFile(t))
    \/ EndAutomaton(t) \/ LoseStream(t)

Next ==
    \/ NodeStep \/ Drop
    \/ \E t \in Tasks : FollowerStep(t) \/ HarnessStep(t)

Spec == Init /\ [][Next]_vars

(* The runtime polls every task that can go on, and timers fire.             *)
FairSpec ==
    /\ Spec /\ WF_vars(NodeStep) /\ \A t \in Tasks : WF_vars(FollowerStep(t))

------------------------------------------------------------------------------
(* Properties                                                                *)

\* Every variable holds values of its type.
TypeOK ==
    /\ node \in 1 .. LastNode + 1
    /\ pc \in {"ready", "single", "creating", "failed", "dropped", "panicked"}
    /\ parts \in Nat /\ made \in 0 .. parts
    /\ output \in [Nodes -> Seq(SUBSET Tasks)]
    /\ state \in [Tasks -> {"none", "waiting"} \cup Following \cup Ended]
    /\ text \in [Tasks -> SUBSET Tasks]
    /\ automaton \in [Tasks -> {"none", "running", "ended"}]
    /\ stream \in [Tasks -> {"none", "open", "completed", "failed", "lost"}]
    /\ file \in [Files -> SUBSET Tasks] /\ wrote \subseteq Tasks

\* A sub-task that wrote its own output file and ended well hands on exactly
\* its own words, whatever the other automata of the workspace wrote; a node
\* that wrote its output file hands on other tasks' words only when an earlier
\* sub-task failed, whose automaton may write on.
OwnOutputIsKept ==
    /\ \A n \in Nodes : \A t \in SubTasks(n) :
          state[t] = "ok" /\ file[t] # {} => text[t] = {t}
    /\ \A n \in Nodes :
          state[OwnTask(n)] = "ok" /\ OwnTask(n) \in wrote =>
              \/ text[OwnTask(n)] = {OwnTask(n)}
              \/ \E m \in 1 .. n - 1 : \E t \in SubTasks(m) : state[t] = "failed"

\* An output is read only after its automaton has stopped writing: an automaton
\* that runs on belongs to a task that failed, or that is still followed.
OutputIsReadAfterTheEnd ==
    \A t \in Tasks : state[t] \in {"reading", "ok"} => automaton[t] = "ended"

\* Whatever the harness does, the run gets through its nodes, and every
\* sub-task that was spawned ends, also after the run is gone.
NodesEnd ==
    /\ <>(pc \in {"failed", "dropped", "panicked"} \/ node > LastNode)
    /\ \A t \in Tasks : (state[t] = "waiting") ~> (state[t] \in Ended)
=============================================================================
