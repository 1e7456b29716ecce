------------------------------ MODULE TaskBoard ------------------------------
(***************************************************************************)
(* What docs/specs/05-task-state-machine.md and TaskService promise of the *)
(* tasks of a project, without the steps, snapshots and retries by which   *)
(* crates/aura-os-tasks keeps the promise: a task is picked up only after  *)
(* all its dependencies are done, done is final, and a task that is worked *)
(* on can only be done or failed.  Module TaskService implements it.       *)
(***************************************************************************)

CONSTANTS
    Tasks,         \* task slots; a follow-up task starts out "absent"
    Deps,          \* Deps[t]: dependency_ids of t
    InitialStatus  \* the statuses task extraction left

VARIABLE status

\* Extraction leaves tasks without dependencies ready and the others pending
\* (docs/specs/05-task-state-machine.md:450).
Extracted ==
    /\ Deps \in [Tasks -> SUBSET Tasks]
    /\ InitialStatus \in [Tasks -> {"absent", "pending", "ready"}]
    /\ \A t \in Tasks : InitialStatus[t] = "ready" => Deps[t] = {}

BoardStatus == {"absent", "pending", "ready", "in_progress", "done", "failed"}

BoardTypeOK == status \in [Tasks -> BoardStatus]

Init == status = InitialStatus

DepsDone(t) == \A d \in Deps[t] : status[d] = "done"

\* Task t goes from one of the statuses in "from" to "to".
Move(t, from, to) ==
    /\ status[t] \in from
    /\ status' = [status EXCEPT ![t] = to]

Promote(t) == DepsDone(t) /\ Move(t, {"pending"}, "ready")
PickUp(t) == Move(t, {"ready"}, "in_progress")
Finish(t) == Move(t, {"in_progress"}, "done")
GiveUp(t) == Move(t, {"in_progress"}, "failed")
PutBack(t) == Move(t, {"failed"}, "ready")
FollowUp(t) ==
    Move(t, {"absent"}, IF Deps[t] = {} THEN "ready" ELSE "pending")

Next ==
    \E t \in Tasks :
        \/ Promote(t) \/ PickUp(t) \/ Finish(t) \/ GiveUp(t)
        \/ PutBack(t) \/ FollowUp(t)

Spec == Init /\ [][Next]_status

\* A task is ready, or has been worked on, only when all of its dependencies
\* are done (docs/specs/05-task-state-machine.md:21).
StartedAfterDependencies ==
    \A t \in Tasks : status[t] \notin {"absent", "pending"} => DepsDone(t)
=============================================================================
