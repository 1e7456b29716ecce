----------------------------- MODULE RunLedger -----------------------------
(***************************************************************************)
(* What ProcessExecutor (crates/aura-os-process/src/executor.rs) promises   *)
(* of the table of process runs, without the callers, futures, nodes and    *)
(* items by which it keeps the promise: a row is written for a run that is  *)
(* executed, by who executes it, and otherwise only to cancel it; a run is  *)
(* completed only when none of its children is executed, and gets none      *)
(* afterwards.  Module ProcessRuns implements it.                           *)
(***************************************************************************)

CONSTANTS
    Runs,   \* the run ids
    NoRun   \* no run: the parent of a run that was triggered

VARIABLES
    status,  \* the status of the stored row, "none" when there is no row
    parent,  \* the row's parent_run_id
    busy     \* the runs that are executed, or about to be

ledgerVars == <<status, parent, busy>>

Init ==
    /\ status = [r \in Runs |-> "none"] /\ parent = [r \in Runs |-> NoRun]
    /\ busy = {}

Becomes(r, s) == status' = [status EXCEPT ![r] = s]

BusyBelow(r) == {c \in busy : parent[c] = r}

\* A new row, triggered or of a child.
Record(r, p) ==
    /\ status[r] = "none" /\ Becomes(r, "pending")
    /\ p \in Runs => status[p] \notin {"none", "completed"}
    /\ parent' = [parent EXCEPT ![r] = p] /\ busy' = busy \cup {r}

\* Saved by the run itself.
Begin(r) == r \in busy /\ Becomes(r, "running") /\ UNCHANGED <<parent, busy>>
Fail(r) == r \in busy /\ Becomes(r, "failed") /\ UNCHANGED <<parent, busy>>

\* It ends: well, badly, or without a word.
Complete(r) ==
    /\ r \in busy /\ BusyBelow(r) = {} /\ Becomes(r, "completed")
    /\ busy' = busy \ {r} /\ UNCHANGED parent

GiveUp(r) ==
    /\ r \in busy /\ busy' = busy \ {r} /\ UNCHANGED parent
    /\ \/ Becomes(r, "failed")
       \/ status[r] \in {"failed", "cancelled"} /\ UNCHANGED status

Stop == busy' \subseteq busy /\ UNCHANGED <<status, parent>>

\* Anybody else.
Cancel(r) ==
    status[r] # "none" /\ Becomes(r, "cancelled") /\ UNCHANGED <<parent, busy>>

Next ==
    \/ \E r \in Runs :
          \/ \E p \in Runs \cup {NoRun} : Record(r, p)
          \/ Begin(r) \/ Fail(r) \/ Complete(r) \/ GiveUp(r) \/ Cancel(r)
    \/ Stop

Spec == Init /\ [][Next]_ledgerVars

\* What is completed is at rest: nobody executes the run, nor a child of it.
CompletedIsAtRest ==
    \A r \in Runs : status[r] = "completed" => r \notin busy /\ BusyBelow(r) = {}
=============================================================================
