------------------------------ MODULE CronJobs ------------------------------
(***************************************************************************)
(* One cron job: the scheduler, the executor and the store of               *)
(* crates/aura-os-super-agent (scheduler.rs, executor.rs, cron_store.rs)    *)
(* and the operations that edit jobs: handlers/cron.rs, and the same ones   *)
(* as tools of the super agent (tools/cron_tools.rs).  Every writer reads   *)
(* the whole job and saves the whole job.                                   *)
(***************************************************************************)
EXTENDS Naturals

CONSTANTS
    Workers,   \* requests, and tasks the scheduler spawns
    MaxEdits,  \* bound: edits of the job
    LastRun    \* time until the one run of a schedule that runs once

\* The time until a run that will not come.
Never == 9

ASSUME CronAssumption == MaxEdits \in Nat /\ LastRun \in 0 .. Never - 1

\* A job: does it exist, is it enabled, its schedule, and the time until
\* next_run_at.
Times == (0 .. LastRun) \cup {0, 1, Never}
Jobs == [here : BOOLEAN, on : BOOLEAN, repeats : BOOLEAN, next : Times]
NoJob == [here |-> FALSE, on |-> FALSE, repeats |-> FALSE, next |-> Never]

VARIABLES
    job,
    left,   \* time until the run of a schedule that runs once
    work,   \* worker -> where it stands
    bySched, \* worker -> whether the scheduler spawned it
    taken,  \* worker -> the job it has read and will save
    edits

cronVars == <<job, left, work, bySched, taken, edits>>

CronInit ==
    /\ job = NoJob /\ left = LastRun /\ edits = 0
    /\ work = [w \in Workers |-> "idle"]
    /\ bySched = [w \in Workers |-> FALSE]
    /\ taken = [w \in Workers |-> NoJob]

\* compute_next_run: the next time of the schedule, if there is one.
NextRun(repeats) == IF repeats THEN 1 ELSE IF left > 0 THEN left ELSE Never

At(w, s) == work' = [work EXCEPT ![w] = s]

\* create_cron_job; of schedules without a next run the handler refuses what
\* the tool accepts.
CreateJob(w) ==
    /\ work[w] = "idle" /\ ~job.here /\ edits = 0
    /\ \E r \in BOOLEAN :
          job' = [here |-> TRUE, on |-> TRUE, repeats |-> r, next |-> NextRun(r)]
    /\ edits' = edits + 1
    /\ UNCHANGED <<left, work, bySched, taken>>

\* pause_cron_job, resume_cron_job, and update_cron_job with an enabled flag, a
\* schedule, or neither.
Paused(j) == [j EXCEPT !.on = FALSE]
Resumed(j) == [j EXCEPT !.on = TRUE, !.next = NextRun(j.repeats)]

\* Mutant: the new schedule is left to the scheduler to start.
RescheduledLater(j) == {[j EXCEPT !.repeats = r, !.next = Never] : r \in BOOLEAN}

Rescheduled(j) == {[j EXCEPT !.repeats = r, !.next = NextRun(r)] : r \in BOOLEAN}

EditsOf(j) == {j, Paused(j), Resumed(j), [j EXCEPT !.on = TRUE]} \cup Rescheduled(j)

EditJob(w) ==
    /\ work[w] = "idle" /\ job.here /\ edits < MaxEdits
    /\ \E j \in EditsOf(job) : taken' = [taken EXCEPT ![w] = j]
    /\ At(w, "edit") /\ edits' = edits + 1
    /\ UNCHANGED <<job, left, bySched>>

DeleteJob ==
    /\ job.here /\ edits < MaxEdits
    /\ job' = NoJob /\ edits' = edits + 1
    /\ UNCHANGED <<left, work, bySched, taken>>

\* trigger_cron_job runs the job at once, enabled or not.
TriggerJob(w) ==
    /\ work[w] = "idle" /\ job.here /\ edits < MaxEdits
    /\ At(w, "start") /\ edits' = edits + 1
    /\ bySched' = [bySched EXCEPT ![w] = FALSE]
    /\ UNCHANGED <<job, left, taken>>

DueJob == job.here /\ job.on /\ job.next = 0

\* tick of the scheduler spawns a task for a job that is due.
SpawnDue(w) ==
    /\ work[w] = "idle" /\ DueJob
    /\ At(w, "start")
    /\ bySched' = [bySched EXCEPT ![w] = TRUE]
    /\ UNCHANGED <<job, left, taken, edits>>

\* execute saves the run, and ends it; cutting its prompt at 200 bytes panics
\* in the middle of a character.
StartRun(w) ==
    /\ work[w] = "start" /\ At(w, "run")
    /\ UNCHANGED <<job, left, bySched, taken, edits>>

EndRun(w) ==
    /\ work[w] = "run"
    /\ At(w, "stamp") \/ At(w, "idle")
    /\ UNCHANGED <<job, left, bySched, taken, edits>>

\* It reads the job to set last_run_at; a job that is gone is skipped.
ReadToStamp(w) ==
    /\ work[w] = "stamp"
    /\ At(w, IF job.here THEN "save_stamp" ELSE "plan")
    /\ taken' = [taken EXCEPT ![w] = job]
    /\ UNCHANGED <<job, left, bySched, edits>>

\* The task of the scheduler reads it again to set next_run_at.
ReadToPlan(w) ==
    /\ work[w] = "plan"
    /\ LET next == NextRun(job.repeats)
           plans == bySched[w] /\ job.here /\ next # Never
       IN  /\ At(w, IF plans THEN "save_plan" ELSE "idle")
           /\ taken' = [taken EXCEPT ![w] = IF plans THEN [job EXCEPT !.next = next]
                                                     ELSE NoJob]
    /\ UNCHANGED <<job, left, bySched, edits>>

SaveJob(w) ==
    /\ work[w] \in {"edit", "save_stamp", "save_plan"}
    /\ job' = taken[w]
    /\ At(w, IF work[w] = "save_stamp" THEN "plan" ELSE "idle")
    /\ taken' = [taken EXCEPT ![w] = NoJob]
    /\ UNCHANGED <<left, bySched, edits>>

Closer(j) == [j EXCEPT !.next = IF @ \in {0, Never} THEN @ ELSE @ - 1]

WaitForNext ==
    /\ job' = Closer(job)
    /\ taken' = [w \in Workers |-> Closer(taken[w])]
    /\ left' = IF left > 0 THEN left - 1 ELSE 0
    /\ UNCHANGED <<work, bySched, edits>>

Proceed(w) ==
    StartRun(w) \/ EndRun(w) \/ ReadToStamp(w) \/ ReadToPlan(w) \/ SaveJob(w)

SpawnDueJob == \E w \in Workers : SpawnDue(w)

CronNext ==
    \/ \E w \in Workers :
           CreateJob(w) \/ EditJob(w) \/ TriggerJob(w) \/ Proceed(w)
    \/ SpawnDueJob \/ DeleteJob \/ WaitForNext

CronSpec == CronInit /\ [][CronNext]_cronVars

------------------------------------------------------------------------------
(* Properties                                                                *)

\* Every variable holds values of its type.
CronTypeOK ==
    /\ job \in Jobs /\ taken \in [Workers -> Jobs]
    /\ left \in 0 .. LastRun /\ edits \in Nat
    /\ work \in [Workers -> {"idle", "edit", "start", "run", "stamp",
                             "save_stamp", "plan", "save_plan"}]
    /\ bySched \in [Workers -> BOOLEAN]

\* A job with a repeating schedule that is enabled runs, again and again,
\* whatever edits and runs overwrite of each other and although runs panic.
EnabledJobRuns ==
    (job.here /\ job.on /\ job.repeats) ~>
        \/ ~job.here \/ ~job.on \/ ~job.repeats
        \/ \E w \in Workers : work[w] = "run"
=============================================================================
