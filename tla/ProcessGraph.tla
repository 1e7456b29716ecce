---------------------------- MODULE ProcessGraph ----------------------------
(***************************************************************************)
(* The graph of a process and its execution by one run: the handlers that  *)
(* edit nodes and connections, topological_sort, reachable_from_ignition   *)
(* and the node loop of execute_run.                                       *)
(*                                                                         *)
(* A run reads the nodes and then the connections, while clients edit them.*)
(* The stores do not keep the two consistent, and the code copes with      *)
(* connections to and from nodes it does not know.                         *)
(***************************************************************************)
EXTENDS Naturals, Sequences, FiniteSets

CONSTANTS
    Nodes,     \* node ids
    Ignition,  \* the nodes that have, or would have, node_type Ignition
    Condition, \* the same for node_type Condition
    MaxConns,  \* bound: stored connections
    MaxEdits   \* bound: edits before the run has read the graph

ASSUME GraphAssumption ==
    /\ IsFiniteSet(Nodes)
    /\ Ignition \subseteq Nodes /\ Condition \subseteq Nodes \ Ignition
    /\ MaxConns \in Nat /\ MaxEdits \in Nat

\* A connection; source_handle matters when the source is a condition, and
\* then only whether it is "false".
Connection ==
    {c \in [source : Nodes, onFalse : BOOLEAN, target : Nodes] :
        c.onFalse => c.source \in Condition}

VARIABLES
    stored,    \* per node id: "new", "stored" or "deleted"
    conns,     \* the stored connections
    edits,     \* edits so far
    pc,        \* where the run stands
    runNodes,  \* the nodes the run has read
    runConns,  \* the connections it has read
    inDegree,  \* topological_sort: edges not yet removed, per node id
    queue,     \* topological_sort: ids without such edges
    sorted,    \* topological_sort: its output; then the ids still to visit
    completed, \* node_outputs: the nodes that completed, pinned or not
    skipped,   \* nodes recorded as skipped
    verdict    \* condition_results

graph == <<stored, conns, edits>>
snapshot == <<runNodes, runConns>>
sort == <<inDegree, queue>>
results == <<completed, skipped, verdict>>
graphVars == <<graph, pc, snapshot, sort, sorted, results>>

Verdict == {"none", "true", "false"}

GraphTypeOK ==
    /\ stored \in [Nodes -> {"new", "stored", "deleted"}]
    /\ conns \subseteq Connection
    /\ edits \in 0..MaxEdits
    /\ pc \in {"idle", "nodes", "sort", "loop", "cycle", "missing", "failed",
               "completed"}
    /\ runNodes \subseteq Nodes
    /\ runConns \subseteq Connection
    /\ inDegree \in [Nodes -> Nat]
    /\ queue \in Seq(Nodes) /\ sorted \in Seq(Nodes)
    /\ completed \subseteq Nodes /\ skipped \subseteq Nodes
    /\ verdict \in [Nodes -> Verdict]

Existing == {n \in Nodes : stored[n] = "stored"}
Within(c, S) == c.source \in S /\ c.target \in S

Graphs == {C \in SUBSET Connection : Cardinality(C) <= MaxConns}

\* Any graph clients have built, before an edit leaves it incomplete.
GraphInit ==
    /\ stored \in [Nodes -> {"new", "stored"}]
    /\ Ignition \subseteq Existing
    /\ conns \in {C \in Graphs : \A c \in C : Within(c, Existing)}
    /\ edits = 0
    /\ pc = "idle"
    /\ runNodes = {} /\ runConns = {}
    /\ inDegree = [n \in Nodes |-> 0]
    /\ queue = <<>> /\ sorted = <<>>
    /\ completed = {} /\ skipped = {}
    /\ verdict = [n \in Nodes |-> "none"]

----------------------------------------------------------------------------
(* Edits.  Later ones do not reach this run.                               *)

Edit ==
    /\ pc \in {"idle", "nodes"} /\ edits < MaxEdits
    /\ edits' = edits + 1
    /\ UNCHANGED <<pc, snapshot, sort, sorted, results>>

CreateNode(n) ==
    /\ Edit
    /\ stored[n] = "new"
    /\ stored' = [stored EXCEPT ![n] = "stored"]
    /\ UNCHANGED conns

\* The node goes, its connections stay.
DeleteNode(n) ==
    /\ Edit
    /\ stored[n] = "stored"
    /\ stored' = [stored EXCEPT ![n] = "deleted"]
    /\ UNCHANGED conns

\* update_node saves back the node it has read, also when a delete came in
\* between; other than that it changes no field the run's order depends on.
UpdateNode(n) ==
    /\ pc \in {"idle", "nodes"}
    /\ stored[n] = "deleted"
    /\ stored' = [stored EXCEPT ![n] = "stored"]
    /\ UNCHANGED <<conns, edits, pc, snapshot, sort, sorted, results>>

\* The end points are parsed, not looked up; clients know the ids of nodes
\* that exist or have existed.
CreateConnection(c) ==
    /\ Edit
    /\ Cardinality(conns) < MaxConns
    /\ stored[c.source] # "new" /\ stored[c.target] # "new"
    /\ conns' = conns \cup {c}
    /\ UNCHANGED stored

DeleteConnection(c) ==
    /\ Edit
    /\ c \in conns
    /\ conns' = conns \ {c}
    /\ UNCHANGED stored

----------------------------------------------------------------------------
(* The run reads the graph.                                                *)

ReadNodes ==
    /\ pc = "idle"
    /\ runNodes' = Existing
    /\ pc' = "nodes"
    /\ UNCHANGED <<graph, runConns, sort, sorted, results>>

\* The sequences in which the elements of S can come out of a hash map.
Orders(S) ==
    {o \in [1..Cardinality(S) -> S] : \A i, j \in DOMAIN o : o[i] = o[j] => i = j}

Edges(C, n, m) == {c \in C : c.source = n /\ c.target = m}

\* topological_sort up to its loop.  Targets get an entry even when they are
\* not among the nodes.
ReadConns ==
    /\ pc = "nodes"
    /\ runConns' = conns
    /\ inDegree' = [n \in Nodes |-> Cardinality({c \in conns : c.target = n})]
    /\ queue' \in Orders({n \in runNodes : \A c \in conns : c.target # n})
    /\ pc' = "sort"
    /\ UNCHANGED <<graph, runNodes, sorted, results>>

\* The target of a removed edge has an entry in in_degree, so it is queued
\* when its last edge goes, also when it is not a node of the run.
Freed(n) ==
    {m \in Nodes : /\ Edges(runConns, n, m) # {}
                   /\ inDegree[m] = Cardinality(Edges(runConns, n, m))}

\* Mutant: parallel edges are removed as one.
PopParallelOnce ==
    /\ pc = "sort" /\ queue # <<>>
    /\ LET n == Head(queue)
           Last(m) == Edges(runConns, n, m) # {} /\ inDegree[m] = 1
       IN /\ sorted' = Append(sorted, n)
          /\ inDegree' = [m \in Nodes |-> IF Edges(runConns, n, m) = {}
                                          THEN inDegree[m] ELSE inDegree[m] - 1]
          /\ \E o \in Orders({m \in Nodes : Last(m)}) : queue' = Tail(queue) \o o
    /\ UNCHANGED <<graph, pc, snapshot, results>>

\* Mutant: targets are queued at their first edge.
PopEarly ==
    /\ pc = "sort" /\ queue # <<>>
    /\ LET n == Head(queue)
           Next1(m) == /\ Edges(runConns, n, m) # {}
                       /\ inDegree[m] = Cardinality({c \in runConns : c.target = m})
       IN /\ sorted' = Append(sorted, n)
          /\ inDegree' =
                [m \in Nodes |-> inDegree[m] - Cardinality(Edges(runConns, n, m))]
          /\ \E o \in Orders({m \in Nodes : Next1(m)}) : queue' = Tail(queue) \o o
    /\ UNCHANGED <<graph, pc, snapshot, results>>

Pop ==
    /\ pc = "sort" /\ queue # <<>>
    /\ LET n == Head(queue)
       IN /\ sorted' = Append(sorted, n)
          /\ inDegree' =
                [m \in Nodes |-> inDegree[m] - Cardinality(Edges(runConns, n, m))]
          /\ \E o \in Orders(Freed(n)) : queue' = Tail(queue) \o o
    /\ UNCHANGED <<graph, pc, snapshot, results>>

Closed(S, C) == \A c \in C : c.source \in S => c.target \in S

\* reachable_from_ignition.
Reachable ==
    {n \in Nodes : \A S \in SUBSET Nodes :
        runNodes \cap Ignition \subseteq S /\ Closed(S, runConns) => n \in S}

\* The end of topological_sort: as many ids as nodes, or an error.  The run goes
\* on with those at the places o, the reachable ones, in their order.
SortEnds ==
    /\ pc = "sort" /\ queue = <<>>
    /\ IF Len(sorted) # Cardinality(runNodes)
       THEN pc' = "cycle" /\ UNCHANGED sorted
       ELSE /\ pc' = "loop"
            /\ \E o \in Orders({i \in DOMAIN sorted : sorted[i] \in Reachable}) :
                  /\ \A i, j \in DOMAIN o : i < j => o[i] < o[j]
                  /\ sorted' = [i \in DOMAIN o |-> sorted[o[i]]]
    /\ UNCHANGED <<graph, snapshot, sort, results>>

----------------------------------------------------------------------------
(* The node loop.                                                          *)

Incoming(n) == {c \in runConns : c.target = n}

\* The edge belongs to the branch its condition has not taken.
Blocked(c) == verdict[c.source] = (IF c.onFalse THEN "true" ELSE "false")

\* Mutant: the edge labelled false is followed when the condition holds.
FedSwapped(n) ==
    \E c \in Incoming(n) :
        /\ c.source \in completed
        /\ verdict[c.source] # (IF c.onFalse THEN "false" ELSE "true")

\* Some upstream node has completed and its edge is not blocked.
Fed(n) == \E c \in Incoming(n) : c.source \in completed /\ ~Blocked(c)

Visiting(n) ==
    /\ pc = "loop" /\ sorted # <<>>
    /\ n = Head(sorted)

Visited ==
    /\ sorted' = Tail(sorted)
    /\ UNCHANGED <<graph, pc, snapshot, sort>>

\* An id that topological_sort has let through without knowing the node.
Missing(n) ==
    /\ Visiting(n) /\ n \notin runNodes
    /\ pc' = "missing"
    /\ UNCHANGED <<graph, snapshot, sort, sorted, results>>

Skip(n) ==
    /\ Visiting(n) /\ n \in runNodes
    /\ Incoming(n) # {} /\ ~Fed(n)
    /\ skipped' = skipped \cup {n}
    /\ Visited
    /\ UNCHANGED <<completed, verdict>>

Runs(n) == Visiting(n) /\ n \in runNodes /\ (Incoming(n) = {} \/ Fed(n))

\* The node completes; a condition that is not pinned has a result.
Complete(n) ==
    /\ Runs(n)
    /\ completed' = completed \cup {n}
    /\ \/ /\ n \in Condition
          /\ \E v \in {"true", "false"} : verdict' = [verdict EXCEPT ![n] = v]
       \/ n \notin Condition /\ UNCHANGED verdict
    /\ Visited
    /\ UNCHANGED skipped

\* A node with a pinned output; the result of a condition is not recorded.
CompletePinned(n) ==
    /\ Runs(n) /\ n \in Condition
    /\ completed' = completed \cup {n}
    /\ Visited
    /\ UNCHANGED <<skipped, verdict>>

NodeFails(n) ==
    /\ Runs(n)
    /\ pc' = "failed"
    /\ UNCHANGED <<graph, snapshot, sort, sorted, results>>

RunCompletes ==
    /\ pc = "loop" /\ sorted = <<>>
    /\ pc' = "completed"
    /\ UNCHANGED <<graph, snapshot, sort, sorted, results>>

GraphNext ==
    \/ \E n \in Nodes : CreateNode(n) \/ DeleteNode(n) \/ UpdateNode(n)
    \/ \E c \in Connection : CreateConnection(c) \/ DeleteConnection(c)
    \/ ReadNodes \/ ReadConns \/ Pop \/ SortEnds
    \/ \E n \in Nodes :
          Missing(n) \/ Skip(n) \/ Complete(n) \/ CompletePinned(n) \/ NodeFails(n)
    \/ RunCompletes

GraphSpec == GraphInit /\ [][GraphNext]_graphVars

----------------------------------------------------------------------------
(* Properties.                                                             *)

\* Every connection the run has read joins two nodes it has read.
Proper == \A c \in runConns : Within(c, runNodes)

\* Whatever the graph looks like, a node is visited only when every upstream
\* node the run will ever visit has been: its context is final.
UpstreamFirst ==
    pc \in {"loop", "completed"} =>
        \A c \in runConns :
            c.target \in completed \cup skipped =>
                \A i \in DOMAIN sorted : sorted[i] # c.source

\* The outcome of a completed run, by its definition: the nodes that complete
\* are those an ignition node feeds through completed nodes and the branches
\* their conditions have taken, and every other reachable node was skipped.
LiveEdges == {c \in runConns : ~Blocked(c)}
FedFromIgnition ==
    {n \in Reachable : \A S \in SUBSET Nodes :
        /\ {m \in Reachable : Incoming(m) = {}} \subseteq S
        /\ Closed(S, {c \in LiveEdges : c.source \in Reachable})
        => n \in S}
OutcomeIsAsDefined ==
    Proper /\ pc = "completed" =>
        /\ completed = FedFromIgnition
        /\ skipped = Reachable \ completed

\* On any graph, strays included: the sort refuses exactly when the ids its
\* edges let out, ghosts (targets that are no nodes) counted as well, are not
\* as many as the nodes.  So a stray edge can make an acyclic graph fail, and
\* a ghost can hide a cycle.
Ghosts == {c.target : c \in runConns} \ runNodes
KnownIds == runNodes \cup Ghosts
FromOutside(c) == c.source \notin KnownIds
Starved ==
    UNION {S \in SUBSET KnownIds : \A n \in S : \E c \in Incoming(n) :
               c.source \in S \/ FromOutside(c)}
SortCountsNodes ==
    LET balanced == Cardinality(KnownIds \ Starved) = Cardinality(runNodes)
    IN  /\ pc = "cycle" => ~balanced
        /\ pc \in {"loop", "missing", "failed", "completed"} => balanced
=============================================================================
