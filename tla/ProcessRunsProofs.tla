------------------------- MODULE ProcessRunsProofs -------------------------
(* Theorems about ProcessRuns for every set of processes, runs and callers. *)
EXTENDS ProcessRuns, TLAPS

(***************************************************************************)
(* The type invariant is not inductive: NodeOk, SubDone and EachDone       *)
(* decrement todo, and NewChild applies Child to the process of the run.   *)
(***************************************************************************)

\* A run that is or was executed has a process; a node that waits for child
\* runs is counted in todo.
RunsTyped ==
    \A r \in Runs :
        /\ pc[r] # "none" => process[r] \in Processes
        /\ items[r] > 0 => process[r] \in Processes
        /\ pc[r] \in {"sub", "each"} => todo[r] > 0

\* A caller remembers what its operation needs.
CallersTyped ==
    \A c \in Callers :
        /\ caller[c].op = "checked" => caller[c].process \in Processes
        /\ caller[c].op \in {"spawning", "cancelling"} => caller[c].run \in Runs
        /\ caller[c].op = "spawning" => process[caller[c].run] \in Processes

TypeInv == TypeOK /\ RunsTyped /\ CallersTyped

LEMMA TypeInvInvariant == Spec => []TypeInv
<1> USE RunsAssumption
<1>1. Init => TypeInv
  BY DEF Init, TypeInv, TypeOK, RunsTyped, CallersTyped, Idle, Doing, CallerState
<1>2. TypeInv /\ [Next]_vars => TypeInv'
  <2> SUFFICES ASSUME TypeInv, [Next]_vars PROVE TypeInv'
    OBVIOUS
  <2> USE DEF TypeInv, TypeOK, RunsTyped, CallersTyped, LivePc, EndedPc, Active,
              Terminal, CallerState, Idle, Doing
  <2>1. ASSUME NEW c \in Callers, Request(c) PROVE TypeInv'
    <3>1. ASSUME NEW p \in Processes, TriggerCheck(c, p) PROVE TypeInv'
      BY <3>1 DEF TriggerCheck
    <3>2. CASE TriggerSave(c)
      BY <3>2 DEF TriggerSave
    <3>3. CASE TriggerSpawn(c)
      BY <3>3 DEF TriggerSpawn
    <3>4. CASE DropRequest(c)
      BY <3>4 DEF DropRequest
    <3>5. ASSUME NEW r \in Runs, CancelCheck(c, r) PROVE TypeInv'
      BY <3>5 DEF CancelCheck
    <3>6. CASE CancelSave(c)
      BY <3>6 DEF CancelSave
    <3> QED
      BY <2>1, <3>1, <3>2, <3>3, <3>4, <3>5, <3>6 DEF Request
  <2>2. ASSUME NEW r \in Runs, Execute(r) PROVE TypeInv'
    <3>1. CASE Start(r)
      BY <3>1 DEF Start
    <3>2. CASE SetupOk(r)
      BY <3>2 DEF SetupOk
    <3>3. CASE SetupErr(r)
      BY <3>3 DEF SetupErr
    <3>4. CASE NodeOk(r)
      BY <3>4 DEF NodeOk
    <3>5. CASE NodeErr(r)
      BY <3>5 DEF NodeErr
    <3>6. CASE SubDone(r)
      BY <3>6 DEF SubDone
    <3>7. CASE SubTimeout(r)
      <4>1. \A s \in Runs :
              /\ pc'[s] \in {pc[s], "failing", "gone"}
              /\ todo'[s] \in {todo[s], 0}
              /\ awaiting'[s] \in {awaiting[s], NoRun}
              /\ pc'[s] # "none" => pc[s] # "none"
              /\ pc'[s] \in {"sub", "each"} => pc'[s] = pc[s] /\ todo'[s] = todo[s]
        BY <3>7 DEF SubTimeout, Live
      <4>2. TypeOK'
        <5>1. /\ pc' \in [Runs -> {"none", "gone"} \cup LivePc \cup EndedPc]
              /\ todo' \in [Runs -> 0..MaxNodes]
              /\ awaiting' \in [Runs -> Runs \cup {NoRun}]
          BY <3>7, <4>1 DEF SubTimeout
        <5> QED
          BY <3>7, <5>1 DEF SubTimeout
      <4>3. RunsTyped'
        BY <3>7, <4>1 DEF SubTimeout
      <4>4. CallersTyped'
        BY <3>7 DEF SubTimeout
      <4> QED
        BY <4>2, <4>3, <4>4
    <3>8. CASE EachStart(r)
      BY <3>8 DEF EachStart
    <3>9. CASE EachDone(r)
      BY <3>9 DEF EachDone
    <3>10. CASE EachTimeout(r)
      BY <3>10 DEF EachTimeout
    <3>11. CASE FailSave(r)
      BY <3>11 DEF FailSave
    <3>12. CASE MarkCheck(r) \/ MarkSave(r)
      BY <3>12 DEF MarkCheck, MarkSave
    <3>13. CASE Complete(r)
      BY <3>13 DEF Complete
    <3>14. ASSUME NEW c \in Runs, SubStart(r, c) PROVE TypeInv'
      BY <3>14 DEF SubStart, NewChild
    <3> QED
      BY <2>2, <3>1, <3>2, <3>3, <3>4, <3>5, <3>6, <3>7,
         <3>8, <3>9, <3>10, <3>11, <3>12, <3>13, <3>14 DEF Execute
  <2>3. ASSUME NEW r \in Runs, Item(r) PROVE TypeInv'
    <3>1. ASSUME NEW c \in Runs, ItemStart(r, c) PROVE TypeInv'
      BY <3>1 DEF ItemStart, NewChild
    <3>2. CASE ItemErr(r)
      BY <3>2 DEF ItemErr
    <3> QED
      BY <2>3, <3>1, <3>2 DEF Item
  <2>4. CASE Crash
    BY <2>4 DEF Crash
  <2>5. CASE UNCHANGED vars
    BY <2>5 DEF vars
  <2> QED
    BY <2>1, <2>2, <2>3, <2>4, <2>5 DEF Next
<1> QED
  BY <1>1, <1>2, PTL DEF Spec

\* Every variable keeps its type: in particular the counters of the node loop
\* and of the ForEach items never leave their ranges.
THEOREM TypeCorrect == Spec => []TypeOK
BY TypeInvInvariant, PTL DEF TypeInv

----------------------------------------------------------------------------
(***************************************************************************)
(* The inductive invariant behind OutcomeRecorded, CompletedIsQuiescent    *)
(* and NestedRunsAreAwaited.                                               *)
(***************************************************************************)

\* A row without a future is fresh; only a future that returned Ok, or died
\* later with the server, belongs to a completed row.
RowsMatchFutures ==
    \A r \in Runs :
        /\ status[r] = "none" => pc[r] = "none" /\ parent[r] = NoRun
        /\ status[r] = "completed" => pc[r] \in {"ok", "gone"}

\* The runs callers are about to spawn are distinct and not spawned yet.
SpawningIsExclusive ==
    \A c, d \in Callers :
        caller[c].op = "spawning" =>
            /\ pc[caller[c].run] = "triggered"
            /\ caller[d].op = "spawning" /\ caller[d].run = caller[c].run => c = d

\* The states in which a run may have live children or waiting items.
Fanned == {"each", "failing", "mark", "marking", "err", "gone"}

\* Waiting items and live children exist only below a run that reached a
\* SubProcess or ForEach node and has not gone on to the next node; below a
\* SubProcess node the one live child is the awaited one.
WorkBelow ==
    /\ \A r \in Runs : items[r] > 0 => pc[r] \in Fanned
    /\ \A c \in Runs : Live(c) /\ parent[c] \in Runs =>
         \/ pc[parent[c]] \in Fanned
         \/ pc[parent[c]] = "sub" /\ awaiting[parent[c]] = c
    /\ \A c \in nested : parent[c] \in Runs /\ pc[c] \notin {"none", "triggered"}
    /\ \A r \in Runs : awaiting[r] # NoRun =>
                         awaiting[r] \in nested /\ parent[awaiting[r]] = r
    /\ \A r \in Runs : pc[r] = "sub" => awaiting[r] \in Runs

Safe ==
    /\ RowsMatchFutures
    /\ SpawningIsExclusive
    /\ WorkBelow
    /\ OutcomeRecorded
    /\ CompletedIsQuiescent
    /\ NestedRunsAreAwaited

\* The parent_run_id links form a forest whose nodes all have rows.
ParentsHaveRows ==
    \A r \in Runs : parent[r] \in Runs => status[parent[r]] # "none"

NoParentCycle ==
    \A S \in SUBSET Runs : S # {} => \E r \in S : parent[r] \notin S

Forest == ParentsHaveRows /\ NoParentCycle

\* A run is not nested in itself, nor is its parent, and between a run and one that is
\* nested in it there are only runs that are nested in it.
LEMMA SubtreeIsBelow ==
  ASSUME TypeOK, NoParentCycle, WorkBelow,
         NEW r \in Runs, awaiting[r] \in Runs
  PROVE  /\ r \notin Subtree(r) /\ parent[r] \notin Subtree(r)
         /\ \A x \in Subtree(r) : parent[x] \in Subtree(r) \cup {r}
<1> DEFINE S == Subtree(r) \cup {r}
           X == {x \in Subtree(r) : parent[x] \in S}
<1>1. /\ awaiting[r] \in Subtree(r)
      /\ \A d \in Subtree(r) : awaiting[d] # NoRun => awaiting[d] \in Subtree(r)
  BY DEF Subtree, TypeOK
<1>2. Subtree(r) \subseteq Runs
  BY DEF Subtree
<1>3. awaiting[r] \in X
  BY <1>1, RunsAssumption DEF WorkBelow
<1>4. \A d \in X : awaiting[d] # NoRun => awaiting[d] \in X
  BY <1>1, <1>2 DEF WorkBelow
<1>5. \A x \in Subtree(r) : x \in X
  <2>1. X \in SUBSET Runs
    BY <1>2
  <2> HIDE DEF X
  <2> QED
    BY <2>1, <1>3, <1>4 DEF Subtree
<1>6. PICK x \in S : parent[x] \notin S
  BY <1>2 DEF NoParentCycle
<1>7. x = r
  BY <1>5, <1>6
<1>8. \A d \in Subtree(r) : d # r
  BY <1>5, <1>6, <1>7
<1>9. \A d \in Subtree(r) : parent[d] \in Subtree(r) \cup {r}
  BY <1>5
<1> QED
  BY <1>6, <1>7, <1>8, <1>9

LEMMA SafeStep == TypeInv /\ Safe /\ Forest /\ [Next]_vars => Safe'
<1> SUFFICES ASSUME TypeInv, Safe, NoParentCycle, [Next]_vars PROVE Safe'
  BY DEF Forest
<1> USE RunsAssumption
    DEF TypeInv, TypeOK, RunsTyped, CallersTyped, Safe, RowsMatchFutures,
        SpawningIsExclusive, WorkBelow, OutcomeRecorded, CompletedIsQuiescent,
        NestedRunsAreAwaited, Live, LivePc, EndedPc, Active, Terminal, Fanned,
        Children, CallerState, Idle, Doing
<1>1. ASSUME NEW c \in Callers, Request(c) PROVE Safe'
  <2>1. ASSUME NEW p \in Processes, TriggerCheck(c, p) PROVE Safe'
    BY <2>1 DEF TriggerCheck
  <2>2. CASE TriggerSave(c)
    BY <2>2 DEF TriggerSave
  <2>3. CASE TriggerSpawn(c)
    BY <2>3 DEF TriggerSpawn
  <2>4. CASE DropRequest(c)
    BY <2>4 DEF DropRequest
  <2>5. ASSUME NEW r \in Runs, CancelCheck(c, r) PROVE Safe'
    BY <2>5 DEF CancelCheck
  <2>6. CASE CancelSave(c)
    BY <2>6 DEF CancelSave
  <2> QED
    BY <1>1, <2>1, <2>2, <2>3, <2>4, <2>5, <2>6 DEF Request
<1>2. ASSUME NEW r \in Runs, Execute(r) PROVE Safe'
  <2>1. CASE Start(r)
    BY <2>1 DEF Start
  <2>2. CASE SetupOk(r)
    BY <2>2 DEF SetupOk
  <2>3. CASE SetupErr(r)
    BY <2>3 DEF SetupErr
  <2>4. CASE NodeOk(r)
    BY <2>4 DEF NodeOk
  <2>5. CASE NodeErr(r)
    BY <2>5 DEF NodeErr
  <2>6. CASE SubDone(r)
    BY <2>6 DEF SubDone
  <2>7. CASE SubTimeout(r)
    <3> DEFINE Gone == {s \in Runs : s # r /\ s \in Subtree(r) /\ Live(s)}
    <3>1. /\ pc[r] = "sub" /\ awaiting[r] \in Runs
          /\ UNCHANGED <<status, process, parent, nested, items, caller>>
          /\ \A s \in Runs : pc'[s] = IF s = r THEN "failing"
                                      ELSE IF s \in Gone THEN "gone" ELSE pc[s]
          /\ \A s \in Runs : awaiting'[s] = IF s = r \/ s \in Subtree(r)
                                            THEN NoRun ELSE awaiting[s]
      BY <2>7 DEF SubTimeout
    <3>2. /\ awaiting[r] \in Subtree(r)
          /\ \A s \in Subtree(r) : awaiting[s] \in Runs => awaiting[s] \in Subtree(r)
      BY <3>1 DEF Subtree
    <3> Subtree(r) \subseteq nested
      BY <3>1 DEF Subtree
    <3> HIDE DEF Subtree
    <3>3. RowsMatchFutures' /\ SpawningIsExclusive' /\ OutcomeRecorded'
      BY <3>1
    <3>4. \A s \in Runs : Live(s)' => Live(s)
      BY <3>1
    <3>5. WorkBelow'
      <4>1. \A s \in Runs : items'[s] > 0 => pc'[s] \in Fanned
        BY <3>1
      <4>2. ASSUME NEW s \in Runs, Live(s)', parent'[s] \in Runs
            PROVE  \/ pc'[parent'[s]] \in Fanned
                   \/ pc'[parent'[s]] = "sub" /\ awaiting'[parent'[s]] = s
        <5>1. /\ Live(s) /\ parent[s] \in Runs /\ parent'[s] = parent[s]
              /\ s # r => s \notin Subtree(r)
          BY <4>2, <3>1, <3>4
        <5>2. CASE pc[parent[s]] \in Fanned
          BY <3>1, <5>1, <5>2
        <5>3. CASE pc[parent[s]] = "sub" /\ awaiting[parent[s]] = s
          <6>1. CASE parent[s] = r
            BY <3>1, <5>1, <6>1
          <6>2. CASE parent[s] # r /\ parent[s] \in Subtree(r)
            BY <3>1, <3>2, <5>1, <5>3, <6>2
          <6>3. CASE parent[s] # r /\ parent[s] \notin Subtree(r)
            BY <3>1, <5>1, <5>3, <6>3
          <6> QED
            BY <6>1, <6>2, <6>3
        <5> QED
          BY <5>1, <5>2, <5>3
      <4>3. \A s \in nested' :
              parent'[s] \in Runs /\ pc'[s] \notin {"none", "triggered"}
        BY <3>1
      <4>4. \A s \in Runs : /\ awaiting'[s] # NoRun => /\ awaiting'[s] \in nested'
                                                    /\ parent'[awaiting'[s]] = s
                            /\ pc'[s] = "sub" => awaiting'[s] \in Runs
        BY <3>1
      <4> QED
        BY <4>1, <4>2, <4>3, <4>4
    <3>6. CompletedIsQuiescent'
      BY <3>1, <3>4
    <3>7. NestedRunsAreAwaited'
      <4> SUFFICES ASSUME NEW s \in nested, Live(s)'
                   PROVE  pc'[parent[s]] = "sub" /\ awaiting'[parent[s]] = s
        BY <3>1
      <4>1. /\ pc[parent[s]] = "sub" /\ awaiting[parent[s]] = s
            /\ parent[s] \in Runs
            /\ s # r => s \notin Subtree(r)
        BY <3>1, <3>4
      <4>2. r \notin Subtree(r) /\ parent[r] \notin Subtree(r)
        BY <3>1, SubtreeIsBelow
      <4>3. parent[s] # r /\ parent[s] \notin Subtree(r)
        BY <3>2, <4>1, <4>2
      <4> QED
        BY <3>1, <4>1, <4>3
    <3> QED
      BY <3>3, <3>5, <3>6, <3>7
  <2>8. CASE EachStart(r)
    BY <2>8 DEF EachStart
  <2>9. CASE EachDone(r)
    BY <2>9 DEF EachDone, RunningItems
  <2>10. CASE EachTimeout(r)
    BY <2>10 DEF EachTimeout
  <2>11. CASE FailSave(r)
    BY <2>11 DEF FailSave
  <2>12. CASE MarkCheck(r) \/ MarkSave(r)
    BY <2>12 DEF MarkCheck, MarkSave
  <2>13. CASE Complete(r)
    BY <2>13 DEF Complete
  <2>14. ASSUME NEW c \in Runs, SubStart(r, c) PROVE Safe'
    <3>1. c # r /\ pc[c] = "none" /\ pc[r] = "loop"
      BY <2>14 DEF SubStart, NewChild
    <3>2. RowsMatchFutures' /\ SpawningIsExclusive' /\ OutcomeRecorded'
      BY <2>14, <3>1 DEF SubStart, NewChild
    <3>3. WorkBelow'
      BY <2>14, <3>1 DEF SubStart, NewChild
    <3>4. CompletedIsQuiescent'
      BY <2>14, <3>1 DEF SubStart, NewChild
    <3>5. NestedRunsAreAwaited'
      BY <2>14, <3>1 DEF SubStart, NewChild
    <3> QED
      BY <3>2, <3>3, <3>4, <3>5
  <2> QED
    BY <1>2, <2>1, <2>2, <2>3, <2>4, <2>5, <2>6, <2>7, <2>8,
       <2>9, <2>10, <2>11, <2>12, <2>13, <2>14 DEF Execute
<1>3. ASSUME NEW r \in Runs, Item(r) PROVE Safe'
  <2>1. ASSUME NEW c \in Runs, ItemStart(r, c) PROVE Safe'
    BY <2>1 DEF ItemStart, NewChild
  <2>2. CASE ItemErr(r)
    BY <2>2 DEF ItemErr
  <2> QED
    BY <1>3, <2>1, <2>2 DEF Item
<1>4. CASE Crash
  BY <1>4 DEF Crash
<1>5. CASE UNCHANGED vars
  BY <1>5 DEF vars
<1> QED
  BY <1>1, <1>2, <1>3, <1>4, <1>5 DEF Next

LEMMA NewChildKeepsForest ==
  ASSUME TypeOK, RowsMatchFutures, Forest,
         NEW r \in Runs, NEW c \in Runs, pc[r] # "none", NewChild(r, c)
  PROVE  Forest'
<1> USE DEF Forest, ParentsHaveRows, NewChild, TypeOK
<1>1. status[r] # "none" /\ c # r
  BY DEF RowsMatchFutures
<1>2. ParentsHaveRows'
  BY <1>1
<1>3. ASSUME NEW S \in SUBSET Runs, S # {} PROVE \E x \in S : parent'[x] \notin S
  <2>1. CASE S = {c}
    BY <1>1, <2>1
  <2>2. CASE S \ {c} # {}
    <3>1. PICK x \in S \ {c} : parent[x] \notin S \ {c}
      BY <2>2 DEF NoParentCycle
    <3> QED
      BY <3>1
  <2> QED
    BY <1>3, <2>1, <2>2
<1> QED
  BY <1>2, <1>3 DEF NoParentCycle

LEMMA ForestStep == TypeInv /\ Safe /\ Forest /\ [Next]_vars => Forest'
<1> SUFFICES ASSUME TypeInv, Safe, Forest, [Next]_vars PROVE Forest'
  OBVIOUS
<1> USE DEF TypeInv, TypeOK, CallersTyped, Safe, RowsMatchFutures, WorkBelow
<1>1. ASSUME NEW r \in Runs, NEW c \in Runs, SubStart(r, c) \/ ItemStart(r, c)
      PROVE  Forest'
  <2>1. pc[r] # "none"
    BY <1>1 DEF SubStart, ItemStart, Fanned
  <2> QED
    BY <1>1, <2>1, NewChildKeepsForest DEF SubStart, ItemStart
<1>2. CASE /\ parent' = parent
           /\ \A r \in Runs : status[r] # "none" => status'[r] # "none"
  BY <1>2 DEF Forest, ParentsHaveRows, NoParentCycle
<1>3. \/ \E r, c \in Runs : SubStart(r, c) \/ ItemStart(r, c)
      \/ /\ parent' = parent
         /\ \A r \in Runs : status[r] # "none" => status'[r] # "none"
  <2>1. ASSUME NEW c \in Callers, Request(c) PROVE <1>3
    BY <2>1 DEF Request, TriggerCheck, TriggerSave, TriggerSpawn, DropRequest,
       CancelCheck, CancelSave
  <2>2. ASSUME NEW r \in Runs, Execute(r) PROVE <1>3
    BY <2>2 DEF Execute, Start, SetupOk, SetupErr, NodeOk, NodeErr, SubDone,
       SubTimeout, EachStart, EachDone, EachTimeout, FailSave, MarkCheck, MarkSave,
       Complete
  <2>3. ASSUME NEW r \in Runs, Item(r) PROVE <1>3
    BY <2>3 DEF Item, ItemErr
  <2>4. CASE Crash
    BY <2>4 DEF Crash
  <2>5. CASE UNCHANGED vars
    BY <2>5 DEF vars
  <2> QED
    BY <2>1, <2>2, <2>3, <2>4, <2>5 DEF Next
<1> QED
  BY <1>1, <1>2, <1>3

LEMMA SafeInvariant == Spec => [](Safe /\ Forest)
<1>1. Init => Safe
  BY DEF Init, Safe, RowsMatchFutures, SpawningIsExclusive, WorkBelow,
     OutcomeRecorded, CompletedIsQuiescent, NestedRunsAreAwaited, Live, LivePc,
     Children, Idle, Doing, EndedPc
<1>2. Init => Forest
  BY RunsAssumption DEF Init, Forest, ParentsHaveRows, NoParentCycle
<1> QED
  BY <1>1, <1>2, SafeStep, ForestStep, TypeInvInvariant, PTL DEF Spec

\* What a run's future returned is what its stored row says, up to cancelling.
THEOREM OutcomeIsRecorded == Spec => []OutcomeRecorded
BY SafeInvariant, PTL DEF Safe

\* A completed run has neither live child runs nor waiting ForEach items, also
\* when nodes timed out, runs were cancelled or the server crashed before.
THEOREM CompletionIsQuiescent == Spec => []CompletedIsQuiescent
BY SafeInvariant, PTL DEF Safe

\* A run nested in its parent's future executes only while the parent waits for
\* it: a SubProcess timeout stops the whole chain, however deep.
THEOREM NestedRunsNeverOutliveTheWait == Spec => []NestedRunsAreAwaited
BY SafeInvariant, PTL DEF Safe

\* A run that waits at a SubProcess node waits for a run that is being executed or has
\* ended: the future it awaits is never one that was dropped.
AwaitedRunsGoOn ==
    \A r \in Runs :
        /\ awaiting[r] # NoRun => pc[r] = "sub"
        /\ pc[r] = "sub" => Live(awaiting[r]) \/ pc[awaiting[r]] \in EndedPc

LEMMA AwaitedStep ==
  TypeInv /\ Safe /\ Forest /\ AwaitedRunsGoOn /\ [Next]_vars => AwaitedRunsGoOn'
<1> SUFFICES ASSUME TypeInv, Safe, NoParentCycle, AwaitedRunsGoOn, [Next]_vars
             PROVE  AwaitedRunsGoOn'
  BY DEF Forest
<1> USE RunsAssumption
    DEF TypeInv, TypeOK, CallersTyped, Safe, RowsMatchFutures, SpawningIsExclusive,
        WorkBelow, AwaitedRunsGoOn, Live, LivePc, EndedPc
<1>1. ASSUME NEW c \in Callers, Request(c) PROVE AwaitedRunsGoOn'
  <2>1. CASE pc' = pc /\ awaiting' = awaiting
    BY <2>1
  <2>2. CASE TriggerSave(c)
    BY <2>2 DEF TriggerSave
  <2>3. CASE TriggerSpawn(c)
    BY <2>3 DEF TriggerSpawn
  <2>4. CASE DropRequest(c)
    BY <2>4 DEF DropRequest
  <2> QED
    BY <1>1, <2>1, <2>2, <2>3, <2>4 DEF Request, TriggerCheck, CancelCheck, CancelSave
<1>2. ASSUME NEW s \in Runs, Execute(s) PROVE AwaitedRunsGoOn'
  <2>1. CASE SubTimeout(s)
    <3>1. /\ pc[s] = "sub" /\ awaiting[s] \in Runs /\ parent' = parent
          /\ \A x \in Runs : pc'[x] = IF x = s THEN "failing"
                                      ELSE IF x \in Subtree(s) /\ Live(x) THEN "gone"
                                      ELSE pc[x]
          /\ \A x \in Runs : awaiting'[x] = IF x = s \/ x \in Subtree(s)
                                            THEN NoRun ELSE awaiting[x]
      BY <2>1 DEF SubTimeout
    <3>2. \A x \in Subtree(s) : parent[x] \in Subtree(s) \cup {s}
      BY <3>1, SubtreeIsBelow
    <3> HIDE DEF Subtree
    <3>3. ASSUME NEW r \in Runs, awaiting'[r] # NoRun PROVE pc'[r] = "sub"
      BY <3>1, <3>3
    <3>4. ASSUME NEW r \in Runs, pc'[r] = "sub"
          PROVE  Live(awaiting[r])' \/ pc'[awaiting'[r]] \in EndedPc
      <4>1. pc[r] = "sub" /\ r # s /\ r \notin Subtree(s)
        BY <3>1, <3>4
      <4>2. awaiting'[r] = awaiting[r] /\ awaiting[r] \in Runs /\ parent[awaiting[r]] = r
        BY <3>1, <4>1
      <4>3. awaiting[r] \notin Subtree(s)
        BY <3>2, <4>1, <4>2
      <4> QED
        BY <3>1, <4>1, <4>2, <4>3
    <3> QED
      BY <3>3, <3>4
  <2>2. ASSUME NEW c \in Runs, SubStart(s, c) PROVE AwaitedRunsGoOn'
    <3>1. c # s /\ pc[c] = "none" /\ \A r \in Runs : pc[r] = "sub" => awaiting[r] # c
      BY <2>2 DEF SubStart, NewChild
    <3> QED
      BY <2>2, <3>1 DEF SubStart
  <2>3. CASE SubDone(s)
    BY <2>3 DEF SubDone
  <2>4. CASE \/ Start(s) \/ SetupOk(s) \/ SetupErr(s) \/ NodeOk(s) \/ NodeErr(s)
    BY <2>4 DEF Start, SetupOk, SetupErr, NodeOk, NodeErr
  <2>5. CASE EachStart(s) \/ EachDone(s) \/ EachTimeout(s)
    BY <2>5 DEF EachStart, EachDone, EachTimeout
  <2>6. CASE FailSave(s) \/ MarkCheck(s) \/ MarkSave(s) \/ Complete(s)
    BY <2>6 DEF FailSave, MarkCheck, MarkSave, Complete
  <2> QED
    BY <1>2, <2>1, <2>2, <2>3, <2>4, <2>5, <2>6 DEF Execute
<1>3. ASSUME NEW s \in Runs, Item(s) PROVE AwaitedRunsGoOn'
  BY <1>3 DEF Item, ItemStart, ItemErr, NewChild
<1>4. CASE Crash
  BY <1>4 DEF Crash
<1>5. CASE UNCHANGED vars
  BY <1>5 DEF vars
<1> QED
  BY <1>1, <1>2, <1>3, <1>4, <1>5 DEF Next

\* No parent waits for a child whose future was dropped, however timeouts and requests
\* interleave in a chain of SubProcess nodes (executor.rs, execute_subprocess): only the
\* run at its end can hold up a chain of nested runs.
THEOREM ParentsWaitForTheLiving == Spec => []AwaitedRunsGoOn
<1>1. Init => AwaitedRunsGoOn
  BY DEF Init, AwaitedRunsGoOn
<1> QED
  BY <1>1, AwaitedStep, SafeInvariant, TypeInvInvariant, PTL DEF Spec

\* Who writes a row: a request, for a fresh run or to cancel one, or the run's own
\* future, or its parent's, for a fresh child.
LEMMA SettledStep ==
  ASSUME TypeInv, RowsMatchFutures, [Next]_vars,
         NEW r \in Runs, pc[r] \in EndedPc \cup {"gone"}
  PROVE  status'[r] \in {status[r], "cancelled"}
<1> USE DEF TypeInv, TypeOK, CallersTyped, EndedPc
<1>1. status[r] # "none"
  BY DEF RowsMatchFutures
<1>2. ASSUME NEW c \in Callers, Request(c) PROVE status'[r] \in {status[r], "cancelled"}
  BY <1>1, <1>2 DEF Request, TriggerCheck, TriggerSave, TriggerSpawn, DropRequest,
     CancelCheck, CancelSave
<1>3. ASSUME NEW s \in Runs, Execute(s) PROVE status'[r] \in {status[r], "cancelled"}
  <2>1. CASE \E c \in Runs : SubStart(s, c)
    BY <1>1, <2>1 DEF SubStart, NewChild
  <2>2. CASE Start(s) \/ FailSave(s) \/ MarkSave(s) \/ Complete(s)
    BY <2>2 DEF Start, FailSave, MarkSave, Complete
  <2>3. CASE status' = status
    BY <2>3
  <2> QED
    BY <1>3, <2>1, <2>2, <2>3 DEF Execute, SetupOk, SetupErr, NodeOk, NodeErr, SubDone,
       SubTimeout, EachStart, EachDone, EachTimeout, MarkCheck
<1>4. ASSUME NEW s \in Runs, Item(s) PROVE status'[r] \in {status[r], "cancelled"}
  BY <1>1, <1>4 DEF Item, ItemStart, ItemErr, NewChild
<1>5. CASE Crash \/ UNCHANGED vars
  BY <1>5 DEF Crash, vars
<1> QED
  BY <1>2, <1>3, <1>4, <1>5 DEF Next

\* The row of a run that nobody executes any more changes by a cancel request only:
\* no run id is used twice, and no parent writes the row of its child.
THEOREM SettledRowsChangeByCancelOnly == Spec => SettledChangesByCancelOnly
<1>1. TypeInv /\ Safe /\ [Next]_vars =>
        [\A r \in Runs : pc[r] \in EndedPc \cup {"gone"} =>
            status'[r] \in {status[r], "cancelled"}]_vars
  BY SettledStep DEF Safe
<1> QED
  BY <1>1, SafeInvariant, TypeInvInvariant, PTL DEF Spec, SettledChangesByCancelOnly

----------------------------------------------------------------------------
(***************************************************************************)
(* The table of runs implements RunLedger: every step of ProcessRuns is a  *)
(* step of the ledger, or leaves it alone.                                 *)
(***************************************************************************)

Executed == {r \in Runs : Live(r)}

\* A client cancels a run that has a row, and rows are never deleted.
CancelsHaveRows ==
    \A c \in Callers :
        caller[c].op = "cancelling" => status[caller[c].run] # "none"

LEMMA CancelsHaveRowsStep == TypeInv /\ CancelsHaveRows /\ [Next]_vars => CancelsHaveRows'
<1> SUFFICES ASSUME TypeInv, CancelsHaveRows, [Next]_vars PROVE CancelsHaveRows'
  OBVIOUS
<1> USE DEF TypeInv, TypeOK, CallersTyped, CancelsHaveRows, CallerState, Idle, Doing
<1>1. ASSUME NEW c \in Callers, Request(c) PROVE CancelsHaveRows'
  <2>1. ASSUME NEW p \in Processes, TriggerCheck(c, p) PROVE CancelsHaveRows'
    BY <2>1 DEF TriggerCheck
  <2>2. CASE TriggerSave(c)
    BY <2>2 DEF TriggerSave
  <2>3. CASE TriggerSpawn(c) \/ DropRequest(c)
    BY <2>3 DEF TriggerSpawn, DropRequest
  <2>4. ASSUME NEW r \in Runs, CancelCheck(c, r) PROVE CancelsHaveRows'
    BY <2>4 DEF CancelCheck, Active
  <2>5. CASE CancelSave(c)
    BY <2>5 DEF CancelSave
  <2> QED
    BY <1>1, <2>1, <2>2, <2>3, <2>4, <2>5 DEF Request
<1>2. CASE caller' = caller /\ \A r \in Runs : status[r] # "none" => status'[r] # "none"
  BY <1>2
<1>3. ASSUME NEW r \in Runs, Execute(r)
      PROVE  caller' = caller /\ \A s \in Runs : status[s] # "none" => status'[s] # "none"
  <2>1. CASE \E c \in Runs : SubStart(r, c)
    BY <2>1 DEF SubStart, NewChild
  <2>2. CASE Start(r) \/ FailSave(r) \/ MarkSave(r) \/ Complete(r)
    BY <2>2 DEF Start, FailSave, MarkSave, Complete
  <2> QED
    BY <1>3, <2>1, <2>2 DEF Execute, SetupOk, SetupErr, NodeOk, NodeErr, SubDone,
       SubTimeout, EachStart, EachDone, EachTimeout, MarkCheck
<1>4. ASSUME NEW r \in Runs, Item(r)
      PROVE  caller' = caller /\ \A s \in Runs : status[s] # "none" => status'[s] # "none"
  BY <1>4 DEF Item, ItemStart, ItemErr, NewChild
<1>5. CASE Crash
  BY <1>5 DEF Crash
<1>6. CASE UNCHANGED vars
  BY <1>6 DEF vars
<1> QED
  BY <1>1, <1>2, <1>3, <1>4, <1>5, <1>6 DEF Next

LEMMA CancelsHaveRowsInvariant == Spec => []CancelsHaveRows
<1>1. Init => CancelsHaveRows
  BY DEF Init, CancelsHaveRows, Idle, Doing
<1> QED
  BY <1>1, CancelsHaveRowsStep, TypeInvInvariant, PTL DEF Spec

\* trigger and cancel_run, and the requests that are dropped.
LEMMA RequestInLedger ==
  ASSUME TypeInv, Safe, CancelsHaveRows, NEW c \in Callers, Request(c)
  PROVE  Ledger!Next \/ UNCHANGED Ledger!ledgerVars
<1> USE DEF TypeInv, TypeOK, CallersTyped, Live, LivePc
<1>1. CASE TriggerSave(c)
  <2>1. PICK r \in Runs :
          /\ status[r] = "none"
          /\ status' = [status EXCEPT ![r] = "pending"]
          /\ pc' = [pc EXCEPT ![r] = "triggered"]
          /\ parent' = parent
    BY <1>1 DEF TriggerSave
  <2>2. parent' = [parent EXCEPT ![r] = NoRun]
    BY <2>1 DEF Safe, RowsMatchFutures
  <2>3. Executed' = Executed \cup {r}
    BY <2>1 DEF Executed
  <2>4. Ledger!Record(r, NoRun)
    BY <2>1, <2>2, <2>3, RunsAssumption DEF Ledger!Record, Ledger!Becomes, Executed
  <2> QED
    BY <2>4 DEF Ledger!Next
<1>2. CASE TriggerSpawn(c)
  <2>1. pc[caller[c].run] = "triggered" /\ caller[c].run \in Runs
    BY <1>2 DEF TriggerSpawn, Safe, SpawningIsExclusive
  <2>2. Executed' = Executed /\ UNCHANGED <<status, parent>>
    BY <1>2, <2>1 DEF TriggerSpawn, Executed
  <2> QED
    BY <2>2 DEF Ledger!ledgerVars, Executed
<1>3. CASE DropRequest(c)
  <2>1. Executed' \subseteq Executed /\ UNCHANGED <<status, parent>>
    BY <1>3 DEF DropRequest, Executed
  <2> QED
    BY <2>1 DEF Ledger!Next, Ledger!Stop, Executed
<1>4. CASE CancelSave(c)
  <2>1. /\ caller[c].run \in Runs /\ status[caller[c].run] # "none"
        /\ status' = [status EXCEPT ![caller[c].run] = "cancelled"]
        /\ UNCHANGED <<parent, pc>>
    BY <1>4 DEF CancelSave, CancelsHaveRows
  <2>2. Executed' = Executed
    BY <2>1 DEF Executed
  <2>3. Ledger!Cancel(caller[c].run)
    BY <2>1, <2>2 DEF Ledger!Cancel, Ledger!Becomes, Executed
  <2> QED
    BY <2>1, <2>3 DEF Ledger!Next
<1>5. CASE \/ \E p \in Processes : TriggerCheck(c, p)
           \/ \E r \in Runs : CancelCheck(c, r)
  <2>1. UNCHANGED <<status, parent, pc>>
    BY <1>5 DEF TriggerCheck, CancelCheck
  <2> QED
    BY <2>1 DEF Ledger!ledgerVars
<1> QED
  BY <1>1, <1>2, <1>3, <1>4, <1>5 DEF Request

\* trigger_and_await: the child's row is written by the future of its parent,
\* which has a row that is not completed.
LEMMA NewChildInLedger ==
  ASSUME TypeInv, Safe, NEW r \in Runs, NEW c \in Runs,
         SubStart(r, c) \/ ItemStart(r, c)
  PROVE  Ledger!Record(c, r)
<1> USE DEF TypeInv, TypeOK, Safe, Live, LivePc
<1>1. /\ status[c] = "none" /\ status' = [status EXCEPT ![c] = "pending"]
      /\ parent' = [parent EXCEPT ![c] = r]
  BY DEF SubStart, ItemStart, NewChild
<1>2. status[r] \notin {"none", "completed"}
  <2>1. CASE SubStart(r, c)
    BY <2>1 DEF SubStart, RowsMatchFutures
  <2>2. CASE ItemStart(r, c)
    <3>1. items[r] > 0 /\ items[r] # 0
      BY <2>2 DEF ItemStart
    <3>2. pc[r] \in Fanned
      BY <3>1 DEF WorkBelow
    <3> QED
      BY <3>1, <3>2 DEF Fanned, RowsMatchFutures, CompletedIsQuiescent
  <2> QED
    BY <2>1, <2>2
<1>3. Executed' = Executed \cup {c}
  <2>1. CASE SubStart(r, c)
    <3>1. pc[r] = "loop" /\ pc' = [pc EXCEPT ![r] = "sub", ![c] = "spawned"]
      BY <2>1 DEF SubStart
    <3> QED
      BY <3>1 DEF Executed
  <2>2. CASE ItemStart(r, c)
    BY <2>2 DEF ItemStart, Executed
  <2> QED
    BY <2>1, <2>2
<1> QED
  BY <1>1, <1>2, <1>3 DEF Ledger!Record, Ledger!Becomes, Executed

\* The steps of execute_run that save the row of their own run.
LEMMA SavesInLedger ==
  ASSUME TypeInv, Safe, NEW r \in Runs
  PROVE  /\ Start(r) => Ledger!Begin(r)
         /\ FailSave(r) => Ledger!Fail(r)
         /\ MarkSave(r) => Ledger!GiveUp(r)
         /\ Complete(r) => Ledger!Complete(r)
<1> USE DEF TypeInv, TypeOK, Live, LivePc
<1>1. ASSUME Start(r) PROVE Ledger!Begin(r)
  <2>1. r \in Executed /\ Executed' = Executed
    BY <1>1 DEF Start, Executed
  <2> QED
    BY <1>1, <2>1 DEF Start, Ledger!Begin, Ledger!Becomes, Executed
<1>2. ASSUME FailSave(r) PROVE Ledger!Fail(r)
  <2>1. r \in Executed /\ Executed' = Executed
    BY <1>2 DEF FailSave, Executed
  <2> QED
    BY <1>2, <2>1 DEF FailSave, Ledger!Fail, Ledger!Becomes, Executed
<1>3. ASSUME MarkSave(r) PROVE Ledger!GiveUp(r)
  <2>1. r \in Executed /\ Executed' = Executed \ {r}
    BY <1>3 DEF MarkSave, Executed
  <2> QED
    BY <1>3, <2>1 DEF MarkSave, Ledger!GiveUp, Ledger!Becomes, Executed
<1>4. ASSUME Complete(r) PROVE Ledger!Complete(r)
  <2>1. r \in Executed /\ Executed' = Executed \ {r}
    BY <1>4 DEF Complete, Executed
  <2>2. ASSUME NEW c \in Executed PROVE parent[c] # r
    BY <1>4, <2>2 DEF Complete, Executed, Safe, WorkBelow, Fanned
  <2>3. Ledger!BusyBelow(r) = {}
    BY <2>2 DEF Ledger!BusyBelow, Executed
  <2> QED
    BY <1>4, <2>1, <2>3 DEF Complete, Ledger!Complete, Ledger!Becomes, Executed
<1> QED
  BY <1>1, <1>2, <1>3, <1>4

\* A run that its safety net finds failed or cancelled is given up as it is.
LEMMA MarkCheckInLedger ==
  ASSUME TypeInv, Safe, NEW r \in Runs, MarkCheck(r)
  PROVE  Ledger!GiveUp(r) \/ UNCHANGED Ledger!ledgerVars
<1> USE DEF TypeInv, TypeOK, Live, LivePc
<1>1. CASE status[r] \in Active
  <2>1. Executed' = Executed /\ UNCHANGED <<status, parent>>
    BY <1>1 DEF MarkCheck, Executed
  <2> QED
    BY <2>1 DEF Ledger!ledgerVars, Executed
<1>2. CASE status[r] \notin Active
  <2>1. r \in Executed /\ Executed' = Executed \ {r} /\ UNCHANGED <<status, parent>>
    BY <1>2 DEF MarkCheck, Executed
  <2>2. status[r] \in {"failed", "cancelled"}
    BY <1>2 DEF MarkCheck, Safe, RowsMatchFutures, Active, Terminal
  <2> QED
    BY <2>1, <2>2 DEF Ledger!GiveUp, Executed
<1> QED
  BY <1>1, <1>2

\* The other steps of execute_run and of the items keep the run executed and
\* touch no row; a timeout and a crash stop runs without a word.
LEMMA QuietInLedger ==
  ASSUME TypeInv, Safe, NEW r \in Runs,
         \/ SetupOk(r) \/ SetupErr(r) \/ NodeOk(r) \/ NodeErr(r) \/ SubDone(r)
         \/ EachStart(r) \/ EachDone(r) \/ EachTimeout(r) \/ ItemErr(r)
  PROVE  UNCHANGED Ledger!ledgerVars
<1> USE DEF TypeInv, TypeOK, Live, LivePc
<1>1. UNCHANGED <<status, parent>>
  BY DEF SetupOk, SetupErr, NodeOk, NodeErr, SubDone, EachStart, EachDone,
     EachTimeout, ItemErr
<1>2. \A s \in Runs : /\ s # r => pc'[s] = pc[s]
                      /\ pc'[r] # pc[r] => Live(r) /\ Live(r)'
  BY DEF SetupOk, SetupErr, NodeOk, NodeErr, SubDone, EachStart, EachDone,
     EachTimeout, ItemErr
<1>3. Executed' = Executed
  BY <1>2 DEF Executed
<1> QED
  BY <1>1, <1>3 DEF Ledger!ledgerVars, Executed

LEMMA StopsInLedger ==
  ASSUME TypeInv, Crash \/ \E r \in Runs : SubTimeout(r)
  PROVE  Ledger!Stop
<1> USE DEF TypeInv, TypeOK, Live, LivePc
<1>1. CASE Crash
  <2>1. Executed' \subseteq Executed
    BY <1>1 DEF Crash, Executed
  <2> QED
    BY <1>1, <2>1 DEF Crash, Ledger!Stop, Executed
<1>2. ASSUME NEW r \in Runs, SubTimeout(r) PROVE Ledger!Stop
  <2>1. /\ pc[r] = "sub" /\ UNCHANGED <<status, parent>>
        /\ \A s \in Runs : s # r => pc'[s] \in {pc[s], "gone"}
    BY <1>2 DEF SubTimeout
  <2>2. Executed' \subseteq Executed
    BY <2>1 DEF Executed
  <2> QED
    BY <2>1, <2>2 DEF Ledger!Stop, Executed
<1> QED
  BY <1>1, <1>2

LEMMA LedgerStep ==
  TypeInv /\ Safe /\ CancelsHaveRows /\ [Next]_vars => [Ledger!Next]_(Ledger!ledgerVars)
<1> SUFFICES ASSUME TypeInv, Safe, CancelsHaveRows, [Next]_vars
             PROVE  Ledger!Next \/ UNCHANGED Ledger!ledgerVars
  OBVIOUS
<1>1. ASSUME NEW c \in Callers, Request(c)
      PROVE  Ledger!Next \/ UNCHANGED Ledger!ledgerVars
  BY <1>1, RequestInLedger
<1>2. ASSUME NEW r \in Runs, NEW c \in Runs, SubStart(r, c) \/ ItemStart(r, c)
      PROVE  Ledger!Next
  BY <1>2, NewChildInLedger DEF Ledger!Next
<1>3. ASSUME NEW r \in Runs, Start(r) \/ FailSave(r) \/ MarkSave(r) \/ Complete(r)
      PROVE  Ledger!Next
  BY <1>3, SavesInLedger DEF Ledger!Next
<1>7. ASSUME NEW r \in Runs, MarkCheck(r)
      PROVE  Ledger!Next \/ UNCHANGED Ledger!ledgerVars
  BY <1>7, MarkCheckInLedger DEF Ledger!Next
<1>4. CASE Crash \/ \E r \in Runs : SubTimeout(r)
  BY <1>4, StopsInLedger DEF Ledger!Next
<1>5. ASSUME NEW r \in Runs, Execute(r) \/ Item(r)
      PROVE  Ledger!Next \/ UNCHANGED Ledger!ledgerVars
  BY <1>2, <1>3, <1>4, <1>5, <1>7, QuietInLedger DEF Execute, Item
<1>6. CASE UNCHANGED vars
  BY <1>6 DEF vars, Ledger!ledgerVars, Live
<1> QED
  BY <1>1, <1>4, <1>5, <1>6 DEF Next

\* ProcessRuns implements RunLedger: whatever the callers, the nested and detached
\* futures, the timeouts and the crashes do, the table of runs changes only as the
\* ledger allows.
THEOREM RunsImplementLedger == Spec => ImplementsLedger
<1>1. Init => Ledger!Init
  BY DEF Init, Ledger!Init, Live, LivePc
<1> QED
  BY <1>1, LedgerStep, TypeInvInvariant, SafeInvariant, CancelsHaveRowsInvariant, PTL
     DEF Spec, ImplementsLedger, Ledger!Spec

\* And the ledger alone is enough for what a reader of a completed run relies on:
\* neither the run nor a child of it is executed any more.
THEOREM LedgerCompletesAtRest == ImplementsLedger => []Ledger!CompletedIsAtRest
<1> DEFINE LInv == /\ DOMAIN status = Runs /\ DOMAIN parent = Runs
                   /\ status = [r \in Runs |-> status[r]]
                   /\ parent = [r \in Runs |-> parent[r]]
                   /\ Executed \subseteq Runs
                   /\ Ledger!CompletedIsAtRest
<1> USE DEF Ledger!CompletedIsAtRest, Ledger!BusyBelow, Executed
<1>1. Ledger!Init => LInv
  BY DEF Ledger!Init
<1>2. LInv /\ [Ledger!Next]_(Ledger!ledgerVars) => LInv'
  <2> SUFFICES ASSUME LInv, Ledger!Next \/ UNCHANGED Ledger!ledgerVars PROVE LInv'
    OBVIOUS
  <2> USE DEF Ledger!Becomes
  <2>1. ASSUME NEW r \in Runs, NEW p \in Runs \cup {NoRun}, Ledger!Record(r, p) PROVE LInv'
    BY <2>1, RunsAssumption DEF Ledger!Record
  <2>2. ASSUME NEW r \in Runs, Ledger!Begin(r) \/ Ledger!Fail(r) \/ Ledger!Cancel(r)
        PROVE  LInv'
    BY <2>2 DEF Ledger!Begin, Ledger!Fail, Ledger!Cancel
  <2>3. ASSUME NEW r \in Runs, Ledger!Complete(r) PROVE LInv'
    BY <2>3 DEF Ledger!Complete
  <2>4. ASSUME NEW r \in Runs, Ledger!GiveUp(r) PROVE LInv'
    BY <2>4 DEF Ledger!GiveUp
  <2>5. CASE Ledger!Stop
    BY <2>5 DEF Ledger!Stop
  <2>6. CASE UNCHANGED Ledger!ledgerVars
    BY <2>6 DEF Ledger!ledgerVars
  <2> QED
    BY <2>1, <2>2, <2>3, <2>4, <2>5, <2>6 DEF Ledger!Next
<1> QED
  BY <1>1, <1>2, PTL DEF ImplementsLedger, Ledger!Spec
=============================================================================
