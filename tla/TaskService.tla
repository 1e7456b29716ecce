----------------------------- MODULE TaskService -----------------------------
(***************************************************************************)
(* TaskService of crates/aura-os-tasks: the operations on the tasks of one *)
(* project, as the sequences of storage calls they are.  Workers stand for *)
(* the concurrent callers (agents, handlers).  An operation decides on a   *)
(* list of tasks it has read and then sends transitions one by one; other  *)
(* operations run in between.  The storage checks each transition.         *)
(***************************************************************************)
EXTENDS Naturals, FiniteSets

CONSTANTS
    Workers,        \* concurrent callers
    Tasks,          \* task slots; a follow-up task starts out "absent"
    NoTask, NoWorker,
    Deps,           \* Deps[t]: dependency_ids of t
    Rank,           \* Rank[t]: place of t by spec order, then order_index
    Title,          \* Title[t]: the title of t, normalised
    InitialStatus,  \* the statuses task extraction left
    Ops,            \* the optional operations callers use
    StorageFails    \* whether storage calls may fail

Statuses == {"absent", "backlog", "to_do", "pending", "ready", "in_progress",
             "blocked", "done", "failed"}

OpNames == {"select", "initial", "reset_all", "reset", "retry", "retry_failed",
            "follow_up"}

ASSUME ServiceAssumption ==
    /\ NoTask \notin Tasks /\ NoWorker \notin Workers
    /\ Deps \in [Tasks -> SUBSET Tasks]
    /\ Rank \in [Tasks -> Nat]
    /\ InitialStatus \in [Tasks -> Statuses]
    /\ Ops \subseteq OpNames
    /\ StorageFails \in BOOLEAN

VARIABLES
    status,  \* the task rows of the storage
    lock,    \* the project's claim lock
    pc,      \* where the operation of a worker stands
    task,    \* the task it is about
    plan     \* tasks of its snapshot it has still to move

vars == <<status, lock, pc, task, plan>>

TypeOK ==
    /\ status \in [Tasks -> Statuses]
    /\ lock \in Workers \cup {NoWorker}
    /\ pc \in [Workers -> {"idle", "list", "to_pending", "to_ready", "assign",
                           "working", "resolve", "promote", "reset_fail",
                           "reset_ready", "create"}]
    /\ task \in [Workers -> Tasks \cup {NoTask}]
    /\ plan \in [Workers -> SUBSET Tasks]

Init ==
    /\ status = InitialStatus
    /\ lock = NoWorker
    /\ pc = [w \in Workers |-> "idle"]
    /\ task = [w \in Workers |-> NoTask]
    /\ plan = [w \in Workers |-> {}]

----------------------------------------------------------------------------
(* The storage.                                                            *)

\* validate_transition's table; the storage alone enforces it, and in
\* addition refuses in_progress -> ready.
Legal ==
    {<<"backlog", "to_do">>, <<"backlog", "pending">>,
     <<"to_do", "pending">>, <<"to_do", "backlog">>,
     <<"pending", "to_do">>, <<"pending", "backlog">>,
     <<"pending", "ready">>, <<"ready", "in_progress">>,
     <<"in_progress", "done">>, <<"in_progress", "failed">>,
     <<"in_progress", "blocked">>, <<"failed", "ready">>,
     <<"failed", "in_progress">>, <<"blocked", "ready">>}

\* transition_task succeeds: the row has been changed and read back.
Moved(t, s) ==
    /\ <<status[t], s>> \in Legal
    /\ status' = [status EXCEPT ![t] = s]

\* transition_task fails: the move was refused, or the call failed, or the
\* row was changed and could not be read back.
NotMoved(t, s) ==
    \/ <<status[t], s>> \notin Legal /\ UNCHANGED status
    \/ StorageFails /\ (UNCHANGED status \/ Moved(t, s))

----------------------------------------------------------------------------
(* Operations.                                                             *)

\* Mutant: the list is read without waiting for the claim lock.
ClaimUnlocked(w) ==
    /\ pc[w] = "idle"
    /\ lock' = w
    /\ pc' = [pc EXCEPT ![w] = "list"]
    /\ UNCHANGED <<status, task, plan>>

\* claim_next_task takes the project's claim lock.
Claim(w) ==
    /\ pc[w] = "idle" /\ lock = NoWorker
    /\ lock' = w
    /\ pc' = [pc EXCEPT ![w] = "list"]
    /\ UNCHANGED <<status, task, plan>>

\* select_next_task does not; resolve_active_task_id of the dev loop calls it.
Select(w) ==
    /\ "select" \in Ops
    /\ pc[w] = "idle"
    /\ pc' = [pc EXCEPT ![w] = "list"]
    /\ UNCHANGED <<status, lock, task, plan>>

\* The operation of w returns to its caller; a claim drops its guard.
Return(w) ==
    /\ pc' = [pc EXCEPT ![w] = "idle"]
    /\ task' = [task EXCEPT ![w] = NoTask]
    /\ plan' = [plan EXCEPT ![w] = {}]
    /\ lock' = IF lock = w THEN NoWorker ELSE lock

\* w goes on with task t at label l, with the snapshot tasks p to move.
Continue(w, l, t, p) ==
    /\ pc' = [pc EXCEPT ![w] = l]
    /\ task' = [task EXCEPT ![w] = t]
    /\ plan' = [plan EXCEPT ![w] = p]

In(s) == {t \in Tasks : status[t] = s}
FirstOf(S) == {t \in S : \A u \in S : Rank[t] <= Rank[u]}
PipelineActive == In("ready") \cup In("in_progress") \cup In("blocked") # {}

\* select_next_task_from, on the list just read.
PickTask(w) ==
    /\ pc[w] = "list"
    /\ \/ \E t \in FirstOf(In("ready")) :
             IF lock = w THEN Continue(w, "assign", t, {}) /\ UNCHANGED lock
                         ELSE Return(w)
       \/ /\ ~PipelineActive
          /\ \E t \in FirstOf(In("to_do")) :
                Continue(w, "to_pending", t, {}) /\ UNCHANGED lock
       \/ /\ In("ready") = {}
          /\ PipelineActive \/ In("to_do") = {}
          /\ Return(w)
       \/ StorageFails /\ Return(w)
    /\ UNCHANGED status

\* The two steps of auto-promotion.
ToPending(w) ==
    /\ pc[w] = "to_pending"
    /\ \/ /\ Moved(task[w], "pending")
          /\ Continue(w, "to_ready", task[w], {}) /\ UNCHANGED lock
       \/ NotMoved(task[w], "pending") /\ Return(w)

ToReady(w) ==
    /\ pc[w] = "to_ready"
    /\ \/ /\ Moved(task[w], "ready")
          /\ IF lock = w
             THEN Continue(w, "assign", task[w], {}) /\ UNCHANGED lock
             ELSE Return(w)
       \/ NotMoved(task[w], "ready") /\ Return(w)

\* Mutant: a refused assignment is logged, and the task handed out anyway.
AssignAnyway(w) ==
    /\ pc[w] = "assign"
    /\ Moved(task[w], "in_progress") \/ NotMoved(task[w], "in_progress")
    /\ Continue(w, "working", task[w], {})
    /\ lock' = NoWorker

\* assign_task, the last step of a claim: the worker now works on the task.
Assign(w) ==
    /\ pc[w] = "assign"
    /\ \/ /\ Moved(task[w], "in_progress")
          /\ Continue(w, "working", task[w], {})
          /\ lock' = NoWorker
       \/ NotMoved(task[w], "in_progress") /\ Return(w)

\* complete_task, followed by resolve_dependencies_after_completion.
Complete(w) ==
    /\ pc[w] = "working"
    /\ \/ /\ Moved(task[w], "done")
          /\ Continue(w, "resolve", task[w], {}) /\ UNCHANGED lock
       \/ NotMoved(task[w], "done") /\ Return(w)

FailTask(w) ==
    /\ pc[w] = "working"
    /\ Moved(task[w], "failed") \/ NotMoved(task[w], "failed")
    /\ Return(w)

DepsDone(t) == \A d \in Deps[t] : status[d] = "done"

\* w promotes the pending tasks of S one by one, if there are any.
PromoteAll(w, S) ==
    IF S = {} THEN Return(w) ELSE Continue(w, "promote", NoTask, S) /\ UNCHANGED lock

\* Mutant: any completed dependency promotes the task.
ResolveAnyDependency(w) ==
    /\ pc[w] = "resolve"
    /\ \/ PromoteAll(w, {t \in In("pending") : task[w] \in Deps[t]})
       \/ StorageFails /\ Return(w)
    /\ UNCHANGED status

\* resolve_dependencies_after_completion reads the list it will go through.
Resolve(w) ==
    /\ pc[w] = "resolve"
    /\ \/ PromoteAll(w, {t \in In("pending") : task[w] \in Deps[t] /\ DepsDone(t)})
       \/ StorageFails /\ Return(w)
    /\ UNCHANGED status

\* resolve_initial_readiness reads the list it will go through.
InitialReadiness(w) ==
    /\ "initial" \in Ops
    /\ pc[w] = "idle"
    /\ PromoteAll(w, {t \in In("pending") : DepsDone(t)})
    /\ UNCHANGED status

\* The next promotion; an error ends the operation, and with it the rest of
\* the list.
Promote(w) ==
    /\ pc[w] = "promote"
    /\ \E t \in plan[w] :
          \/ Moved(t, "ready") /\ PromoteAll(w, plan[w] \ {t})
          \/ NotMoved(t, "ready") /\ Return(w)

\* reset_in_progress_tasks reads the list it will go through.
ResetAll(w) ==
    /\ "reset_all" \in Ops
    /\ pc[w] = "idle"
    /\ In("in_progress") # {}
    /\ Continue(w, "reset_fail", NoTask, In("in_progress"))
    /\ UNCHANGED <<status, lock>>

\* reset_task_to_ready reads the task: in two steps when it is in progress.
Reset(w, t) ==
    /\ "reset" \in Ops
    /\ pc[w] = "idle" /\ status[t] # "absent"
    /\ IF status[t] = "in_progress" THEN Continue(w, "reset_fail", NoTask, {t})
                                    ELSE Continue(w, "reset_ready", t, {})
    /\ UNCHANGED <<status, lock>>

\* retry_task reads the task, and is done when it is ready; "retry_failed"
\* stands for callers that, like TaskMetaSection, offer it for failed tasks only.
Retry(w, t) ==
    /\ \/ "retry" \in Ops /\ status[t] \notin {"absent", "ready"}
       \/ "retry_failed" \in Ops /\ status[t] = "failed"
    /\ pc[w] = "idle"
    /\ Continue(w, "reset_ready", t, {})
    /\ UNCHANGED <<status, lock>>

ResetFail(w) ==
    /\ pc[w] = "reset_fail"
    /\ \E t \in plan[w] :
          \/ /\ Moved(t, "failed")
             /\ Continue(w, "reset_ready", t, plan[w] \ {t})
             /\ UNCHANGED lock
          \/ NotMoved(t, "failed") /\ Return(w)

ResetReady(w) ==
    /\ pc[w] = "reset_ready"
    /\ \/ /\ Moved(task[w], "ready")
          /\ IF plan[w] = {} THEN Return(w)
             ELSE Continue(w, "reset_fail", NoTask, plan[w]) /\ UNCHANGED lock
       \/ NotMoved(task[w], "ready") /\ Return(w)

SameTitle(t) == {u \in Tasks : Title[u] = Title[t] /\ status[u] # "absent"}

\* create_follow_up_task: no task has the title, then one is created.
FollowUpCheck(w, t) ==
    /\ "follow_up" \in Ops
    /\ pc[w] = "idle" /\ status[t] = "absent"
    /\ SameTitle(t) = {}
    /\ Continue(w, "create", t, {})
    /\ UNCHANGED <<status, lock>>

FollowUpCreate(w) ==
    /\ pc[w] = "create"
    /\ \/ \E t \in In("absent") :
             /\ Title[t] = Title[task[w]] /\ Deps[t] = Deps[task[w]]
             /\ status' = [status EXCEPT ![t] = IF Deps[t] = {} THEN "ready"
                                                ELSE "pending"]
       \/ StorageFails /\ UNCHANGED status
    /\ Return(w)

Step(w) ==
    \/ Claim(w) \/ Select(w) \/ PickTask(w) \/ ToPending(w) \/ ToReady(w)
    \/ Assign(w) \/ Complete(w) \/ FailTask(w) \/ Resolve(w)
    \/ InitialReadiness(w) \/ Promote(w) \/ ResetAll(w) \/ ResetFail(w)
    \/ ResetReady(w) \/ FollowUpCreate(w)
    \/ \E t \in Tasks : Reset(w, t) \/ Retry(w, t) \/ FollowUpCheck(w, t)

Next == \E w \in Workers : Step(w)

Spec == Init /\ [][Next]_vars

----------------------------------------------------------------------------
(* Properties.                                                             *)

\* The board is what storage has of the tasks; claims, snapshots and the steps of
\* agents are not seen on it.
Board == INSTANCE TaskBoard WITH Tasks <- Tasks, Deps <- Deps,
                                 InitialStatus <- InitialStatus, status <- status

\* The service keeps the promise of module TaskBoard although it promotes
\* tasks from lists that are out of date by the time it does.
ImplementsBoard == Board!Spec

\* A task is ready, or has been worked on, only when all of its dependencies
\* are done.
ReadyAfterDependencies ==
    \A t \in Tasks :
        status[t] \in {"ready", "in_progress", "done"} => DepsDone(t)

\* concurrent_claims_produce_different_tasks (tests/state_machine): two
\* workers never work on the same task.
ClaimsAreExclusive ==
    \A v, w \in Workers :
        pc[v] = "working" /\ pc[w] = "working" /\ task[v] = task[w] => v = w

\* The claim lock covers the time from the choice of a task to its
\* assignment: the task a claim has chosen is still ready when it is
\* assigned, so that no claim fails because of another.
ChosenTaskStaysReady ==
    \A w \in Workers : pc[w] = "assign" => status[task[w]] = "ready"
=============================================================================
