--------------------------- MODULE ProcessSchedule ---------------------------
(***************************************************************************)
(* One scheduled process: the scheduler of crates/aura-os-process           *)
(* (scheduler.rs) and the handlers of handlers/process.rs that edit its     *)
(* row.  The row lives in the local store, where every writer saves the     *)
(* whole row it has read, or in the storage service, which takes changes    *)
(* of single columns.                                                       *)
(***************************************************************************)
EXTENDS Naturals

CONSTANTS
    Editors,   \* requests that edit the row
    MaxPeriod  \* bound: longest schedule

ASSUME ScheduleAssumption == MaxPeriod \in Nat

\* A row: does it exist yet or still, is it enabled, how often does it run (0: it has no
\* schedule), how long until next_run_at (0: past, or not set).
Rows == [is : {"new", "here", "gone"}, on : BOOLEAN, period : 0 .. MaxPeriod,
         next : 0 .. MaxPeriod]

VARIABLES
    remote,     \* whether the storage service holds the row
    row,
    scheduler,  \* where tick stands with this process
    listed,     \* the row as tick has read it
    editor,     \* editor -> where it stands
    copy,       \* editor -> the row it will save
    active,     \* a run of the process is active
    hushed      \* history: an editor paused or deleted it in peace

scheduleVars ==
    <<remote, row, scheduler, listed, editor, copy, active, hushed>>

NoRow == [is |-> "new", on |-> FALSE, period |-> 0, next |-> 0]
Deleted == [NoRow EXCEPT !.is = "gone"]
Here == row.is = "here"

ScheduleInit ==
    /\ remote \in BOOLEAN
    /\ row = NoRow /\ listed = NoRow
    /\ scheduler = "idle"
    /\ editor = [e \in Editors |-> "idle"] /\ copy = [e \in Editors |-> NoRow]
    /\ active = FALSE /\ hushed = FALSE

\* Nobody else will write, or act on, a row that is no longer current.
Alone(e) ==
    /\ scheduler = "idle"
    /\ \A f \in Editors \ {e} : editor[f] = "idle"

Quiet(r) == r.is # "here" \/ ~r.on

\* An editor's change takes effect.
Change(e, r) ==
    /\ row' = r
    /\ hushed' = IF Quiet(r) THEN hushed \/ Alone(e) ELSE FALSE

\* create_process; a remote one is taken back when its ignition node fails.
CreateProcess(e) ==
    /\ row.is = "new" /\ editor[e] = "idle"
    /\ \E p \in 0 .. MaxPeriod :
           \/ Change(e, [is |-> "here", on |-> TRUE, period |-> p, next |-> 0])
           \/ remote /\ Change(e, Deleted)
    /\ UNCHANGED <<remote, scheduler, listed, editor, copy, active>>

\* The columns a request sets: enabled, the schedule, or neither.  A new
\* schedule leaves next_run_at as it is.
Edits(r) ==
    {r} \cup {[r EXCEPT !.on = b] : b \in BOOLEAN}
        \cup {[r EXCEPT !.period = p] : p \in 0 .. MaxPeriod}

\* update_process reads the row ...
ReadRow(e) ==
    /\ ~remote /\ Here /\ editor[e] = "idle"
    /\ editor' = [editor EXCEPT ![e] = "saving"]
    /\ \E r \in Edits(row) : copy' = [copy EXCEPT ![e] = r]
    /\ UNCHANGED <<remote, row, scheduler, listed, active, hushed>>

\* ... and saves it; the storage service changes the columns at once.
SaveRow(e) ==
    /\ editor[e] = "saving"
    /\ Change(e, copy[e])
    /\ editor' = [editor EXCEPT ![e] = "idle"]
    /\ copy' = [copy EXCEPT ![e] = NoRow]
    /\ UNCHANGED <<remote, scheduler, listed, active>>

PatchRow(e) ==
    /\ remote /\ Here
    /\ \E r \in Edits(row) : Change(e, r)
    /\ UNCHANGED <<remote, scheduler, listed, editor, copy, active>>

DeleteProcess(e) ==
    /\ Here /\ editor[e] = "idle"
    /\ Change(e, Deleted)
    /\ UNCHANGED <<remote, scheduler, listed, editor, copy, active>>

\* trigger_process, for a user: enabled does not matter.
TriggerByUser ==
    /\ Here /\ ~active /\ active' = TRUE
    /\ UNCHANGED <<remote, row, scheduler, listed, editor, copy, hushed>>

RunEnds ==
    /\ active /\ active' = FALSE
    /\ UNCHANGED <<remote, row, scheduler, listed, editor, copy, hushed>>

\* Mutant: paused processes are due too.
DueIfScheduled(r) == r.is = "here" /\ r.period > 0 /\ r.next = 0

Due(r) == r.is = "here" /\ r.on /\ r.period > 0 /\ r.next = 0

\* tick lists the processes, then triggers those that are due, one by one.
List ==
    /\ scheduler = "idle" /\ Due(row)
    /\ scheduler' = "trigger" /\ listed' = row
    /\ UNCHANGED <<remote, row, editor, copy, active, hushed>>

\* ProcessExecutor::trigger reads the row again.  An error (the row is gone, or
\* unreadable, or a run is active) leaves it due.
Trigger ==
    /\ scheduler = "trigger"
    /\ \/ /\ Here /\ ~active
          /\ active' = TRUE /\ scheduler' = "save" /\ UNCHANGED listed
       \/ /\ ~Here \/ active \/ remote
          /\ scheduler' = "idle" /\ listed' = NoRow /\ UNCHANGED active
    /\ UNCHANGED <<remote, row, editor, copy, hushed>>

\* The next run: locally the whole listed row is saved, the storage service
\* gets the one column, if it can be reached.
SaveNext ==
    /\ scheduler = "save" /\ scheduler' = "idle"
    /\ listed' = NoRow
    /\ \E n \in 1 .. listed.period :
           \/ ~remote /\ row' = [listed EXCEPT !.next = n]
           \/ remote /\ Here /\ row' = [row EXCEPT !.next = n]
           \/ remote /\ UNCHANGED row
    /\ UNCHANGED <<remote, editor, copy, active, hushed>>

Sooner(r) == [r EXCEPT !.next = IF @ = 0 THEN 0 ELSE @ - 1]

TimeGoesOn ==
    /\ row' = Sooner(row) /\ listed' = Sooner(listed)
    /\ copy' = [e \in Editors |-> Sooner(copy[e])]
    /\ UNCHANGED <<remote, scheduler, editor, active, hushed>>

ScheduleNext ==
    \/ \E e \in Editors :
           CreateProcess(e) \/ ReadRow(e) \/ SaveRow(e) \/ PatchRow(e)
           \/ DeleteProcess(e)
    \/ TriggerByUser \/ RunEnds \/ List \/ Trigger \/ SaveNext \/ TimeGoesOn

ScheduleSpec == ScheduleInit /\ [][ScheduleNext]_scheduleVars

------------------------------------------------------------------------------
(* Properties                                                                *)

\* Every variable holds values of its type.
ScheduleTypeOK ==
    /\ remote \in BOOLEAN /\ active \in BOOLEAN /\ hushed \in BOOLEAN
    /\ row \in Rows /\ listed \in Rows
    /\ scheduler \in {"idle", "trigger", "save"}
    /\ editor \in [Editors -> {"idle", "saving"}]
    /\ copy \in [Editors -> Rows]

\* A pause or a deletion that takes effect while nobody else holds a copy of
\* the row is final until an editor enables the process: no copy read before
\* brings it back, and the scheduler is not about to run it.
QuietEditsHold ==
    hushed => Quiet(row) /\ scheduler = "idle"
=============================================================================
