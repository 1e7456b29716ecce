--------------------------- MODULE TaskServiceProofs ---------------------------
(***************************************************************************)
(* Theorems about TaskService, for any tasks, dependencies and workers.    *)
(* Claims are safe whatever callers do, and exclusive while nobody resets  *)
(* a task that is in progress.  TaskService implements TaskBoard when      *)
(* callers do not use the two operations that ready a task without looking *)
(* at its dependencies (retry_task and reset_task_to_ready of a pending    *)
(* task) and extraction has left no task to be scheduled.  The argument: a *)
(* list a worker has read may be out of date, but "done" is final, so a    *)
(* dependency found done stays done.                                       *)
(***************************************************************************)
EXTENDS TaskService, TLAPS

\* Extraction has scheduled every task, and callers keep to the operations
\* that check dependencies.
Careful ==
    /\ Board!Extracted
    /\ "retry" \notin Ops /\ "reset" \notin Ops

\* Callers reset no task that is in progress.
NoResets == "reset" \notin Ops /\ "reset_all" \notin Ops

----------------------------------------------------------------------------
(* The inductive invariants.                                               *)

\* An operation on a task has one; a claim that has chosen one holds the lock and
\* the task is ready.
Place(w) ==
    /\ pc[w] \in {"to_pending", "to_ready", "assign", "working", "resolve",
                  "reset_ready", "create"} => task[w] \in Tasks
    /\ pc[w] = "assign" => lock = w /\ status[task[w]] = "ready"

ClaimInv == TypeOK /\ \A w \in Workers : Place(w)

\* Who works on a task has it alone, and the task is in progress until it says so.
WorkInv ==
    /\ ClaimsAreExclusive
    /\ \A w \in Workers :
           /\ pc[w] # "reset_fail" /\ (pc[w] = "reset_ready" => plan[w] = {})
           /\ pc[w] = "working" => status[task[w]] = "in_progress"

Scheduled ==
    \A t \in Tasks : status[t] \notin {"backlog", "to_do", "blocked"}

\* What the operation of a worker relies on between two storage calls.
Reliance(w) ==
    /\ pc[w] \notin {"to_pending", "to_ready"}
    /\ pc[w] = "promote" => \A t \in plan[w] : DepsDone(t)
    /\ pc[w] = "reset_ready" => status[task[w]] \notin {"absent", "pending"}

IInv == ClaimInv /\ Scheduled /\ \A w \in Workers : Reliance(w)

LEMMA InitEstablishes ==
    ASSUME Init
    PROVE  ClaimInv /\ WorkInv /\ (Careful => IInv)
BY ServiceAssumption
   DEF Careful, Board!Extracted, Init, IInv, ClaimInv, WorkInv, ClaimsAreExclusive,
       TypeOK, Place, Scheduled, Reliance, Statuses

----------------------------------------------------------------------------
(* Claims.                                                                 *)

\* A transition that fails has happened or has not.
LEMMA FailureMovesOrStutters ==
    ASSUME NEW t, NEW s, NotMoved(t, s)
    PROVE  Moved(t, s) \/ UNCHANGED status
BY DEF NotMoved

\* The transitions and creations a step can send to the storage.
LEMMA WhatAStepMoves ==
    ASSUME ClaimInv, NEW w \in Workers, Step(w)
    PROVE  \/ UNCHANGED status
           \/ /\ pc[w] = "assign" /\ Assign(w) /\ Moved(task[w], "in_progress")
           \/ /\ pc[w] = "working" /\ (Complete(w) \/ FailTask(w))
              /\ Moved(task[w], "done") \/ Moved(task[w], "failed")
           \/ /\ pc[w] = "reset_fail" /\ \E t \in Tasks : Moved(t, "failed")
           \/ \E t \in Tasks, s \in {"pending", "ready"} : Moved(t, s)
           \/ \E t \in In("absent"), s \in {"pending", "ready"} :
                  status' = [status EXCEPT ![t] = s]
<1> USE DEF ClaimInv, Place
<1>1. CASE Assign(w)
  BY <1>1, FailureMovesOrStutters DEF Assign
<1>2. CASE Complete(w) \/ FailTask(w)
  BY <1>2, FailureMovesOrStutters DEF Complete, FailTask
<1>3. CASE ResetFail(w)
  <2>1. PICK t \in plan[w] : Moved(t, "failed") \/ NotMoved(t, "failed")
    BY <1>3 DEF ResetFail
  <2> QED BY <1>3, <2>1, FailureMovesOrStutters DEF ResetFail, TypeOK
<1>4. CASE Promote(w)
  <2>1. PICK t \in plan[w] : Moved(t, "ready") \/ NotMoved(t, "ready")
    BY <1>4 DEF Promote
  <2> QED BY <2>1, FailureMovesOrStutters DEF TypeOK
<1>5. CASE ToPending(w) \/ ToReady(w) \/ ResetReady(w)
  BY <1>5, FailureMovesOrStutters DEF ToPending, ToReady, ResetReady
<1>6. CASE FollowUpCreate(w)
  BY <1>6 DEF FollowUpCreate
<1>7. CASE \/ Claim(w) \/ Select(w) \/ PickTask(w) \/ Resolve(w)
           \/ InitialReadiness(w) \/ ResetAll(w)
           \/ \E t \in Tasks : Reset(w, t) \/ Retry(w, t) \/ FollowUpCheck(w, t)
  BY <1>7 DEF Claim, Select, PickTask, Resolve, InitialReadiness, ResetAll,
              Reset, Retry, FollowUpCheck
<1> QED BY <1>1, <1>2, <1>3, <1>4, <1>5, <1>6, <1>7 DEF Step

LEMMA StatusIsTyped ==
    ASSUME ClaimInv, NEW w \in Workers, Step(w)
    PROVE  status' \in [Tasks -> Statuses]
BY WhatAStepMoves DEF ClaimInv, TypeOK, Moved, Statuses

\* A task stays ready unless a worker that holds the lock assigns it.
LEMMA ReadyUntilAssigned ==
    ASSUME ClaimInv, NEW w \in Workers, Step(w), NEW t \in Tasks,
           status[t] = "ready", status'[t] # "ready"
    PROVE  pc[w] = "assign" /\ lock = w
<1>1. \A u \in Tasks, s \in {"pending", "ready", "done", "failed"} :
          Moved(u, s) => status'[t] = "ready"
  BY DEF Moved, Legal, ClaimInv, TypeOK
<1>2. \A u \in In("absent"), s \in {"pending", "ready"} :
          status' = [status EXCEPT ![u] = s] => status'[t] = "ready"
  BY DEF In, ClaimInv, TypeOK
<1> QED BY <1>1, <1>2, WhatAStepMoves DEF ClaimInv, Place

\* A task stays in progress until its worker is done with it, unless it is reset.
LEMMA InProgressUntilEnded ==
    ASSUME ClaimInv, NEW w \in Workers, Step(w), NEW t \in Tasks, pc[w] # "reset_fail",
           status[t] = "in_progress", status'[t] # "in_progress"
    PROVE  pc[w] = "working" /\ task[w] = t
<1>1. \A u \in Tasks, s \in {"pending", "ready", "in_progress"} :
          Moved(u, s) => status'[t] = "in_progress"
  BY DEF Moved, Legal, ClaimInv, TypeOK
<1>2. \A u \in In("absent"), s \in {"pending", "ready"} :
          status' = [status EXCEPT ![u] = s] => status'[t] = "in_progress"
  BY DEF In, ClaimInv, TypeOK
<1>3. \A u \in Tasks \ {t}, s \in {"done", "failed"} :
          Moved(u, s) => status'[t] = "in_progress"
  BY DEF Moved, ClaimInv, TypeOK
<1> QED BY <1>1, <1>2, <1>3, WhatAStepMoves DEF ClaimInv, Place

\* A step of w leaves the operations of the others where they are, and takes
\* the lock from nobody.
LEMMA StepIsLocal ==
    ASSUME ClaimInv, NEW w \in Workers, Step(w), NEW v \in Workers, v # w
    PROVE  /\ pc'[v] = pc[v] /\ task'[v] = task[v] /\ plan'[v] = plan[v]
           /\ lock = v => lock' = v \/ (pc[w] = "assign" /\ lock' = NoWorker)
<1> USE DEF ClaimInv, TypeOK, Return, Continue, PromoteAll
<1>1. CASE Claim(w) \/ Select(w)
  BY <1>1, ServiceAssumption DEF Claim, Select
<1>2. CASE PickTask(w)
  BY <1>2 DEF PickTask
<1>3. CASE ToPending(w) \/ ToReady(w) \/ Assign(w)
  BY <1>3 DEF ToPending, ToReady, Assign
<1>4. CASE Complete(w) \/ FailTask(w) \/ Resolve(w) \/ InitialReadiness(w)
  BY <1>4 DEF Complete, FailTask, Resolve, InitialReadiness
<1>5. CASE Promote(w) \/ ResetAll(w) \/ ResetFail(w) \/ ResetReady(w)
  BY <1>5 DEF Promote, ResetAll, ResetFail, ResetReady
<1>6. CASE \E t \in Tasks : Reset(w, t) \/ Retry(w, t) \/ FollowUpCheck(w, t)
  BY <1>6 DEF Reset, Retry, FollowUpCheck
<1>7. CASE FollowUpCreate(w)
  BY <1>7 DEF FollowUpCreate
<1> QED BY <1>1, <1>2, <1>3, <1>4, <1>5, <1>6, <1>7 DEF Step

\* What a step of w leaves w with.
LEMMA OwnPlace ==
    ASSUME ClaimInv, NEW w \in Workers, Step(w)
    PROVE  TypeOK' /\ Place(w)'
<1> USE DEF ClaimInv, TypeOK, Place, Return, Continue, PromoteAll, In
<1>0. status' \in [Tasks -> Statuses]
  BY StatusIsTyped
<1>1. CASE Claim(w) \/ Select(w)
  BY <1>0, <1>1 DEF Claim, Select
<1>2. CASE PickTask(w)
  BY <1>0, <1>2 DEF PickTask, FirstOf
<1>3. CASE ToPending(w)
  BY <1>0, <1>3 DEF ToPending
<1>4. CASE ToReady(w)
  BY <1>0, <1>4 DEF ToReady, Moved
<1>5. CASE Assign(w) \/ Complete(w) \/ FailTask(w)
  BY <1>0, <1>5 DEF Assign, Complete, FailTask
<1>6. CASE Resolve(w) \/ InitialReadiness(w)
  BY <1>0, <1>6 DEF Resolve, InitialReadiness
<1>7. CASE Promote(w)
  <2>1. PICK t \in plan[w] : PromoteAll(w, plan[w] \ {t}) \/ Return(w)
    BY <1>7 DEF Promote
  <2> QED BY <1>0, <2>1
<1>8. CASE ResetAll(w)
  BY <1>0, <1>8 DEF ResetAll
<1>9. CASE ResetFail(w)
  <2>1. PICK t \in plan[w] :
          \/ Continue(w, "reset_ready", t, plan[w] \ {t}) /\ UNCHANGED lock
          \/ Return(w)
    BY <1>9 DEF ResetFail
  <2> QED BY <1>0, <2>1
<1>10. CASE ResetReady(w)
  BY <1>0, <1>10 DEF ResetReady
<1>11. CASE \E t \in Tasks : Reset(w, t) \/ Retry(w, t) \/ FollowUpCheck(w, t)
  BY <1>0, <1>11 DEF Reset, Retry, FollowUpCheck
<1>12. CASE FollowUpCreate(w)
  BY <1>0, <1>12 DEF FollowUpCreate
<1> QED BY <1>1, <1>2, <1>3, <1>4, <1>5, <1>6, <1>7, <1>8, <1>9, <1>10, <1>11, <1>12
        DEF Step

\* The chosen task of a claim is left alone because only the holder of the lock assigns
\* tasks.
LEMMA OthersKeepTheirPlace ==
    ASSUME ClaimInv, NEW w \in Workers, Step(w), NEW v \in Workers, v # w
    PROVE  Place(v)'
<1>1. /\ pc'[v] = pc[v] /\ task'[v] = task[v]
      /\ lock = v => lock' = v \/ (pc[w] = "assign" /\ lock' = NoWorker)
  BY StepIsLocal
<1>2. Place(v) /\ Place(w)
  BY DEF ClaimInv
<1>3. ASSUME pc[v] = "assign" PROVE lock' = v /\ status'[task[v]] = "ready"
  <2>1. lock = v /\ task[v] \in Tasks /\ status[task[v]] = "ready"
    BY <1>2, <1>3 DEF Place
  <2>2. lock' = v
    BY <1>1, <1>2, <2>1 DEF Place
  <2>3. status'[task[v]] = "ready"
    BY <2>1, ReadyUntilAssigned
  <2> QED BY <2>2, <2>3
<1> QED BY <1>1, <1>2, <1>3 DEF Place

LEMMA ClaimInvStep == ClaimInv /\ [Next]_vars => ClaimInv'
<1> SUFFICES ASSUME ClaimInv, [Next]_vars PROVE ClaimInv'
  OBVIOUS
<1>1. CASE UNCHANGED vars
  BY <1>1 DEF vars, ClaimInv, TypeOK, Place
<1>2. ASSUME NEW w \in Workers, Step(w) PROVE ClaimInv'
  BY <1>2, OwnPlace, OthersKeepTheirPlace DEF ClaimInv
<1> QED BY <1>1, <1>2 DEF Next

\* A step of w that begins to work does so on a task that was not in progress.
LEMMA OwnWork ==
    ASSUME NoResets, ClaimInv, WorkInv, NEW w \in Workers, Step(w)
    PROVE  /\ pc'[w] # "reset_fail" /\ (pc'[w] = "reset_ready" => plan'[w] = {})
           /\ pc'[w] = "working" => /\ task'[w] \in Tasks
                                    /\ status[task'[w]] # "in_progress"
                                    /\ status'[task'[w]] = "in_progress"
<1> USE DEF ClaimInv, TypeOK, Return, Continue, PromoteAll
<1>1. CASE Assign(w)
  <2>1. CASE Moved(task[w], "in_progress") /\ Continue(w, "working", task[w], {})
    BY <1>1, <2>1 DEF Assign, Moved, Legal, Place
  <2>2. CASE Return(w)
    BY <2>2
  <2> QED BY <1>1, <2>1, <2>2 DEF Assign
<1>2. CASE \/ Claim(w) \/ Select(w) \/ PickTask(w)
  BY <1>2 DEF Claim, Select, PickTask
<1>3. CASE ToPending(w) \/ ToReady(w)
  BY <1>3 DEF ToPending, ToReady
<1>4. CASE Complete(w) \/ FailTask(w) \/ Resolve(w) \/ InitialReadiness(w)
  BY <1>4 DEF Complete, FailTask, Resolve, InitialReadiness
<1>5. CASE Promote(w)
  BY <1>5 DEF Promote
<1>6. CASE ResetAll(w) \/ ResetFail(w) \/ \E t \in Tasks : Reset(w, t)
  BY <1>6 DEF NoResets, WorkInv, ResetAll, ResetFail, Reset
<1>7. CASE ResetReady(w)
  <2>1. plan[w] = {}
    BY <1>7 DEF ResetReady, WorkInv
  <2> QED BY <1>7, <2>1 DEF ResetReady
<1>8. CASE FollowUpCreate(w) \/ \E t \in Tasks : Retry(w, t) \/ FollowUpCheck(w, t)
  BY <1>8 DEF Retry, FollowUpCheck, FollowUpCreate
<1> QED BY <1>1, <1>2, <1>3, <1>4, <1>5, <1>6, <1>7, <1>8 DEF Step

----------------------------------------------------------------------------
(* Storage transitions, seen from the board.                               *)

\* A move to ready of a task that is not pending, or whose dependencies are
\* done, is a step of the board.
LEMMA ReadyIsBoardStep ==
    ASSUME TypeOK, Scheduled, NEW t \in Tasks, Moved(t, "ready"),
           status[t] # "pending" \/ DepsDone(t)
    PROVE  Board!Next
<1>1. status[t] \in {"pending", "failed"}
  BY DEF TypeOK, Scheduled, Moved, Legal, Statuses
<1>2. CASE status[t] = "pending"
  BY <1>2 DEF Moved, DepsDone, Board!Next, Board!Promote, Board!Move,
              Board!DepsDone
<1>3. CASE status[t] = "failed"
  BY <1>3 DEF Moved, Board!Next, Board!PutBack, Board!Move
<1> QED BY <1>1, <1>2, <1>3

\* Work on a task ends in a step of the board.
LEMMA WorkEndIsBoardStep ==
    ASSUME NEW t \in Tasks, NEW s \in {"done", "failed"}, Moved(t, s)
    PROVE  Board!Next
<1>1. status[t] = "in_progress"
  BY DEF Moved, Legal
<1> QED BY <1>1 DEF Moved, Board!Next, Board!Finish, Board!GiveUp, Board!Move

\* So is the assignment of a task that is ready.
LEMMA AssignmentIsBoardStep ==
    ASSUME NEW t \in Tasks, status[t] = "ready", Moved(t, "in_progress")
    PROVE  Board!Next
BY DEF Moved, Board!Next, Board!PickUp, Board!Move

\* Every step of a worker is a step of the board, or changes no task.
LEMMA StepIsBoardStep ==
    ASSUME Careful, IInv, NEW w \in Workers, Step(w)
    PROVE  Board!Next \/ UNCHANGED status
<1> USE DEF IInv, ClaimInv, Place
<1>1. CASE Assign(w)
  BY <1>1, AssignmentIsBoardStep, FailureMovesOrStutters DEF Assign, Reliance
<1>2. CASE Complete(w)
  BY <1>2, WorkEndIsBoardStep, FailureMovesOrStutters DEF Complete, Reliance
<1>3. CASE FailTask(w)
  BY <1>3, WorkEndIsBoardStep, FailureMovesOrStutters DEF FailTask, Reliance
<1>4. CASE Promote(w)
  <2>1. PICK t \in plan[w] : Moved(t, "ready") \/ NotMoved(t, "ready")
    BY <1>4 DEF Promote
  <2>2. t \in Tasks /\ DepsDone(t)
    BY <1>4, <2>1 DEF Promote, Reliance, TypeOK
  <2> QED BY <2>1, <2>2, ReadyIsBoardStep, FailureMovesOrStutters
<1>5. CASE ResetFail(w)
  <2>1. PICK t \in plan[w] : Moved(t, "failed") \/ NotMoved(t, "failed")
    BY <1>5 DEF ResetFail
  <2>2. t \in Tasks
    BY <2>1 DEF TypeOK
  <2> QED BY <2>1, <2>2, WorkEndIsBoardStep, FailureMovesOrStutters
<1>6. CASE ResetReady(w)
  <2>1. task[w] \in Tasks /\ status[task[w]] # "pending"
    BY <1>6 DEF ResetReady, Reliance
  <2> QED BY <1>6, <2>1, ReadyIsBoardStep, FailureMovesOrStutters DEF ResetReady
<1>7. CASE FollowUpCreate(w)
  BY <1>7 DEF FollowUpCreate, In, Board!Next, Board!FollowUp, Board!Move
<1>8. CASE ToPending(w) \/ ToReady(w)
  BY <1>8 DEF ToPending, ToReady, Reliance
<1>9. CASE \/ Claim(w) \/ Select(w) \/ PickTask(w) \/ Resolve(w)
           \/ InitialReadiness(w) \/ ResetAll(w)
           \/ \E t \in Tasks : Reset(w, t) \/ Retry(w, t) \/ FollowUpCheck(w, t)
  BY <1>9 DEF Claim, Select, PickTask, Resolve, InitialReadiness, ResetAll,
              Reset, Retry, FollowUpCheck
<1> QED BY <1>1, <1>2, <1>3, <1>4, <1>5, <1>6, <1>7, <1>8, <1>9 DEF Step

----------------------------------------------------------------------------
(* Preservation.                                                           *)

\* What a board step does to the facts workers rely on: done is final, and
\* nothing becomes absent, pending or unscheduled.
LEMMA BoardStepKeepsFacts ==
    ASSUME TypeOK, Scheduled, Board!Next \/ UNCHANGED status
    PROVE  /\ status' \in [Tasks -> Statuses]
           /\ Scheduled'
           /\ \A t \in Tasks : DepsDone(t) => DepsDone(t)'
           /\ \A t \in Tasks : status[t] \notin {"absent", "pending"}
                              => status'[t] \notin {"absent", "pending"}
<1>1. CASE UNCHANGED status
  BY <1>1 DEF TypeOK, Scheduled, DepsDone
<1>2. CASE Board!Next
  <2>1. PICK t \in Tasks, s \in {"ready", "in_progress", "done", "failed", "pending"} :
          /\ status[t] # "done"
          /\ s = "pending" => status[t] = "absent"
          /\ status' = [status EXCEPT ![t] = s]
    BY <1>2 DEF Board!Next, Board!Promote, Board!PickUp, Board!Finish,
                Board!GiveUp, Board!PutBack, Board!FollowUp, Board!Move
  <2>2. \A d \in Tasks : status[d] = "done" => status'[d] = "done"
    BY <2>1 DEF TypeOK
  <2>3. \A t2 \in Tasks : DepsDone(t2) => DepsDone(t2)'
    BY <2>2, ServiceAssumption DEF DepsDone
  <2> QED BY <2>1, <2>3 DEF TypeOK, Scheduled, Statuses
<1> QED BY <1>1, <1>2

\* What the operation of the worker that takes the step relies on next.
LEMMA OwnStepKeepsReliance ==
    ASSUME Careful, IInv, NEW w \in Workers, Step(w),
           Board!Next \/ UNCHANGED status
    PROVE  Reliance(w)'
<1> USE DEF IInv, ClaimInv, TypeOK, Place, Reliance, Return, Continue, PromoteAll, In
<1>0. /\ \A t \in Tasks : DepsDone(t) => DepsDone(t)'
      /\ \A t \in Tasks : status[t] \notin {"absent", "pending"}
                              => status'[t] \notin {"absent", "pending"}
  BY BoardStepKeepsFacts
<1>1. CASE Claim(w) \/ Select(w)
  BY <1>0, <1>1 DEF Claim, Select
<1>2. CASE PickTask(w)
  BY <1>0, <1>2 DEF PickTask, FirstOf, Scheduled
<1>3. CASE ToPending(w) \/ ToReady(w)
  BY <1>3 DEF ToPending, ToReady
<1>4. CASE Assign(w) \/ Complete(w) \/ FailTask(w)
  BY <1>0, <1>4 DEF Assign, Complete, FailTask
<1>5. CASE Resolve(w) \/ InitialReadiness(w)
  BY <1>0, <1>5 DEF Resolve, InitialReadiness
<1>6. CASE Promote(w)
  <2>1. PICK t \in plan[w] : PromoteAll(w, plan[w] \ {t}) \/ Return(w)
    BY <1>6 DEF Promote
  <2>2. \A u \in plan[w] : u \in Tasks /\ DepsDone(u)'
    BY <1>0, <1>6 DEF Promote
  <2>3. CASE Return(w) \/ plan[w] \ {t} = {}
    BY <1>0, <2>1, <2>3
  <2>4. CASE Continue(w, "promote", NoTask, plan[w] \ {t}) /\ UNCHANGED lock
    BY <1>0, <2>2, <2>4
  <2> QED BY <2>1, <2>3, <2>4
<1>7. CASE ResetAll(w)
  BY <1>0, <1>7 DEF ResetAll
<1>8. CASE ResetFail(w)
  <2>1. PICK t \in plan[w] : \/ /\ Moved(t, "failed")
                                /\ Continue(w, "reset_ready", t, plan[w] \ {t})
                                /\ UNCHANGED lock
                             \/ Return(w)
    BY <1>8 DEF ResetFail
  <2>2. CASE Return(w)
    BY <1>0, <2>2
  <2>3. CASE Moved(t, "failed") /\ Continue(w, "reset_ready", t, plan[w] \ {t})
             /\ UNCHANGED lock
    BY <1>0, <2>3 DEF Moved
  <2> QED BY <2>1, <2>2, <2>3
<1>9. CASE ResetReady(w)
  BY <1>0, <1>9 DEF ResetReady
<1>10. CASE \E t \in Tasks : Reset(w, t) \/ Retry(w, t) \/ FollowUpCheck(w, t)
  BY <1>0, <1>10 DEF Careful, Reset, Retry, FollowUpCheck
<1>11. CASE FollowUpCreate(w)
  BY <1>0, <1>11 DEF FollowUpCreate
<1> QED BY <1>1, <1>2, <1>3, <1>4, <1>5, <1>6, <1>7, <1>8, <1>9, <1>10, <1>11
        DEF Step

\* What the operations of the other workers rely on is left intact, because done is
\* final.
LEMMA OthersKeepReliance ==
    ASSUME Careful, IInv, NEW w \in Workers, Step(w),
           Board!Next \/ UNCHANGED status, NEW v \in Workers, v # w
    PROVE  Reliance(v)'
<1>1. pc'[v] = pc[v] /\ task'[v] = task[v] /\ plan'[v] = plan[v]
  BY StepIsLocal DEF IInv
<1>2. /\ \A t \in Tasks : DepsDone(t) => DepsDone(t)'
      /\ \A t \in Tasks : status[t] \notin {"absent", "pending"}
                              => status'[t] \notin {"absent", "pending"}
  BY BoardStepKeepsFacts DEF IInv, ClaimInv
<1>3. Reliance(v) /\ Place(v) /\ TypeOK
  BY DEF IInv, ClaimInv
<1>4. pc[v] = "promote" => \A t \in plan[v] : DepsDone(t)'
  BY <1>2, <1>3 DEF Reliance, TypeOK
<1>5. pc[v] = "reset_ready" => status'[task[v]] \notin {"absent", "pending"}
  BY <1>2, <1>3 DEF Reliance, Place
<1> QED BY <1>1, <1>3, <1>4, <1>5 DEF Reliance

\* IInv is inductive.
LEMMA StepKeepsInvariant ==
    ASSUME Careful, IInv, [Next]_vars
    PROVE  IInv'
<1>1. CASE UNCHANGED vars
  BY <1>1, ClaimInvStep DEF vars, IInv, Scheduled, Reliance, DepsDone
<1>2. CASE Next
  <2>1. PICK w \in Workers : Step(w)
    BY <1>2 DEF Next
  <2>2. Board!Next \/ UNCHANGED status
    BY <2>1, StepIsBoardStep
  <2>3. Scheduled'
    BY <2>2, BoardStepKeepsFacts DEF IInv, ClaimInv
  <2>4. ClaimInv' /\ Reliance(w)'
    BY <1>2, <2>1, <2>2, ClaimInvStep, OwnStepKeepsReliance DEF IInv
  <2>5. \A v \in Workers : v # w => Reliance(v)'
    BY <2>1, <2>2, OthersKeepReliance
  <2> QED BY <2>3, <2>4, <2>5 DEF IInv
<1> QED BY <1>1, <1>2

\* The invariant holds in every state of the service.
LEMMA ServiceInvariant ==
    ASSUME Careful
    PROVE  Spec => []IInv
BY InitEstablishes, StepKeepsInvariant, PTL DEF Spec

----------------------------------------------------------------------------
(* The theorems.                                                           *)

\* The inductive invariant of claims, whatever operations callers use.
THEOREM ClaimInvHolds == Spec => []ClaimInv
BY InitEstablishes, ClaimInvStep, PTL DEF Spec

\* The variables of the service keep their types.
THEOREM TypeCorrect == Spec => []TypeOK
<1>1. ClaimInv => TypeOK
  BY DEF ClaimInv
<1> QED BY <1>1, ClaimInvHolds, PTL

\* claim_next_task: under the claim lock, nobody takes the chosen task away
\* before it is assigned, whatever else runs.
THEOREM ChosenTaskIsSafe == Spec => []ChosenTaskStaysReady
<1>1. ClaimInv => ChosenTaskStaysReady
  BY DEF ClaimInv, Place, ChosenTaskStaysReady
<1> QED BY <1>1, ClaimInvHolds, PTL

\* claim_next_task: no two workers work on the same task, although transitions
\* may succeed and be reported as failed, as long as nobody resets a task that is in
\* progress.
THEOREM ClaimsExcludeEachOther ==
    ASSUME NoResets
    PROVE  Spec => []ClaimsAreExclusive
<1>1. ClaimInv /\ WorkInv /\ [Next]_vars => WorkInv'
  <2> SUFFICES ASSUME ClaimInv, WorkInv, [Next]_vars PROVE WorkInv'
    OBVIOUS
  <2>1. CASE UNCHANGED vars
    BY <2>1 DEF vars, WorkInv, ClaimsAreExclusive
  <2>2. ASSUME NEW w \in Workers, Step(w) PROVE WorkInv'
    <3>1. /\ pc'[w] # "reset_fail" /\ (pc'[w] = "reset_ready" => plan'[w] = {})
          /\ pc'[w] = "working" => /\ task'[w] \in Tasks
                                   /\ status[task'[w]] # "in_progress"
                                   /\ status'[task'[w]] = "in_progress"
      BY <2>2, OwnWork
    <3>2. \A v \in Workers \ {w} : /\ pc'[v] = pc[v] /\ task'[v] = task[v]
                                   /\ plan'[v] = plan[v]
      BY <2>2, StepIsLocal
    <3>3. ASSUME NEW v \in Workers \ {w}, pc[v] = "working"
          PROVE  status[task[v]] = "in_progress" /\ status'[task[v]] = "in_progress"
      <4>1. task[v] \in Tasks /\ status[task[v]] = "in_progress" /\ pc[w] # "reset_fail"
        BY <3>3 DEF ClaimInv, Place, WorkInv
      <4>2. ~(pc[w] = "working" /\ task[w] = task[v])
        BY <3>3 DEF WorkInv, ClaimsAreExclusive
      <4> QED BY <2>2, <4>1, <4>2, InProgressUntilEnded
    <3>4. ClaimsAreExclusive'
      BY <3>1, <3>2, <3>3 DEF WorkInv, ClaimsAreExclusive
    <3> QED BY <3>1, <3>2, <3>3, <3>4 DEF WorkInv
  <2> QED BY <2>1, <2>2 DEF Next
<1>2. WorkInv => ClaimsAreExclusive
  BY DEF WorkInv
<1> QED BY <1>1, <1>2, InitEstablishes, ClaimInvHolds, PTL DEF Spec

\* Every behaviour of the service, with its stale lists, failed storage calls
\* and concurrent operations, is a behaviour of the task board.
THEOREM ServiceImplementsBoard ==
    ASSUME Careful
    PROVE  Spec => ImplementsBoard
<1>1. Init => Board!Init
  BY DEF Init, Board!Init
<1>2. IInv /\ [Next]_vars => [Board!Next]_status
  <2> SUFFICES ASSUME IInv, [Next]_vars
               PROVE  Board!Next \/ UNCHANGED status
    OBVIOUS
  <2>1. CASE UNCHANGED vars
    BY <2>1 DEF vars
  <2>2. CASE Next
    BY <2>2, StepIsBoardStep DEF Next
  <2> QED BY <2>1, <2>2
<1> QED BY <1>1, <1>2, ServiceInvariant, PTL DEF Spec, ImplementsBoard, Board!Spec

\* On the board, a task is ready or worked on only after its dependencies.
LEMMA BoardKeepsOrder ==
    ASSUME Careful
    PROVE  Board!Spec => [](Board!BoardTypeOK /\ Board!StartedAfterDependencies)
<1> DEFINE BInv == Board!BoardTypeOK /\ Board!StartedAfterDependencies
<1> USE DEF Board!BoardTypeOK, Board!StartedAfterDependencies, Board!DepsDone,
            Board!BoardStatus
<1>1. Board!Init => BInv
  BY DEF Careful, Board!Extracted, Board!Init
<1>2. BInv /\ [Board!Next]_status => BInv'
  <2> SUFFICES ASSUME BInv, [Board!Next]_status
               PROVE  BInv'
    OBVIOUS
  <2>1. CASE UNCHANGED status
    BY <2>1
  <2>2. CASE Board!Next
    <3>1. PICK t \in Tasks, s \in {"ready", "in_progress", "done", "failed", "pending"} :
            /\ status[t] # "done"
            /\ s # "pending" => Board!DepsDone(t)
            /\ status' = [status EXCEPT ![t] = s]
      BY <2>2 DEF Board!Next, Board!Promote, Board!PickUp, Board!Finish,
                  Board!GiveUp, Board!PutBack, Board!FollowUp, Board!Move
    <3>2. \A d \in Tasks : status[d] = "done" => status'[d] = "done"
      BY <3>1
    <3>3. \A u \in Tasks : Deps[u] \subseteq Tasks
      BY ServiceAssumption
    <3> QED BY <3>1, <3>2, <3>3
  <2> QED BY <2>1, <2>2
<1> QED BY <1>1, <1>2, PTL DEF Board!Spec

\* A task of the service is ready, in progress or done only when all of its
\* dependencies are done (docs/specs/05-task-state-machine.md:21).
THEOREM TasksFollowTheirDependencies ==
    ASSUME Careful
    PROVE  Spec => []ReadyAfterDependencies
<1>1. Board!BoardTypeOK /\ Board!StartedAfterDependencies
        => ReadyAfterDependencies
  BY DEF Board!StartedAfterDependencies, Board!DepsDone,
         ReadyAfterDependencies, DepsDone
<1> QED BY <1>1, ServiceImplementsBoard, BoardKeepsOrder, PTL DEF ImplementsBoard
=============================================================================
