----------------------------- MODULE LoopEvents -----------------------------
(***************************************************************************)
(* How the events of dev loops become the recorded output of tasks.  An    *)
(* automaton works on one task after the other; its text events do not say *)
(* for which.  The forwarder of its loop keeps the task it believes the    *)
(* automaton works on, collects the text in a cache that all forwarders    *)
(* share, and stores it when the task ends.                                *)
(*                                                                         *)
(* Events are lost when they come before the forwarder subscribes, or when *)
(* it falls behind by more than the capacity of the channel.  The life of  *)
(* forwarders, agents and sessions is the subject of DevLoop.              *)
(***************************************************************************)
EXTENDS Naturals, Sequences, FiniteSets

CONSTANTS
    Loops,     \* agent instances, with one loop each
    Tasks,     \* tasks of one project
    None,      \* no task, no loop
    Capacity,  \* bound: events a channel holds (4096 in the code)
    MaxRuns,   \* bound: runs of tasks
    MaxPieces  \* bound: text events per run

ASSUME EventAssumption ==
    /\ None \notin Tasks \cup Loops
    /\ Capacity \in Nat \ {0} /\ MaxRuns \in Nat /\ MaxPieces \in Nat

VARIABLES
    status,   \* storage: the status of each task
    assignee, \* storage: the loop a task is assigned to, None for another id
    runs,     \* history: the runs of tasks by automata
    conn,     \* per loop: "new", "guessed" or "subscribed"
    chan,     \* the events the loop's receiver still holds
    lagging,  \* events were dropped since the last recv
    current,  \* current_task_id of the forwarder
    cache,    \* task_output_cache: live_output per task
    saved,    \* history: what was stored at the end event of each run
    lost      \* history: runs with an event no forwarder will see

storage == <<status, assignee>>
forwarder == <<conn, current>>
output == <<cache, saved>>
loopVars == <<storage, runs, forwarder, chan, lagging, output, lost>>

Run == [loop : Loops, task : Tasks, pieces : 0..MaxPieces, open : BOOLEAN]
Event == [type : {"task_started", "text_delta", "task_ended"}, run : 1..MaxRuns,
          piece : 0..MaxPieces]
Texts == Seq((1..MaxRuns) \X (1..MaxPieces))

LoopTypeOK ==
    /\ status \in [Tasks -> {"ready", "in_progress", "done"}]
    /\ assignee \in [Tasks -> Loops \cup {None}]
    /\ runs \in Seq(Run) /\ Len(runs) <= MaxRuns
    /\ conn \in [Loops -> {"new", "guessed", "subscribed"}]
    /\ chan \in [Loops -> Seq(Event)] /\ \A i \in Loops : Len(chan[i]) <= Capacity
    /\ lagging \in [Loops -> BOOLEAN]
    /\ current \in [Loops -> Tasks \cup {None}]
    /\ cache \in [Tasks -> Texts]
    /\ \A r \in 1..MaxRuns :
          saved[r] = None \/ (saved[r].task \in Tasks /\ saved[r].text \in Texts)
    /\ lost \subseteq 1..MaxRuns

LoopInit ==
    /\ status = [t \in Tasks |-> "ready"]
    /\ assignee = [t \in Tasks |-> None]
    /\ runs = <<>>
    /\ conn = [i \in Loops |-> "new"]
    /\ chan = [i \in Loops |-> <<>>]
    /\ lagging = [i \in Loops |-> FALSE]
    /\ current = [i \in Loops |-> None]
    /\ cache = [t \in Tasks |-> <<>>]
    /\ saved = [r \in 1..MaxRuns |-> None]
    /\ lost = {}

----------------------------------------------------------------------------
(* The automata, seen through their events.  An automaton may be at work   *)
(* before its loop is started here: start_loop adopts it.                  *)

\* A full channel drops its oldest event; without a receiver the event itself
\* is dropped.
Send(i, e) ==
    IF conn[i] # "subscribed"
    THEN lost' = lost \cup {e.run} /\ UNCHANGED <<chan, lagging>>
    ELSE IF Len(chan[i]) < Capacity
    THEN chan' = [chan EXCEPT ![i] = Append(@, e)] /\ UNCHANGED <<lagging, lost>>
    ELSE /\ chan' = [chan EXCEPT ![i] = Append(Tail(@), e)]
         /\ lagging' = [lagging EXCEPT ![i] = TRUE]
         /\ lost' = lost \cup {Head(chan[i]).run}

Ev(type, r, k) == [type |-> type, run |-> r, piece |-> k]
OpenRuns(i) == {r \in DOMAIN runs : runs[r].loop = i /\ runs[r].open}

\* The automaton claims a ready task, under its loop's id or one of its own.
RunStarts(i, t) ==
    /\ OpenRuns(i) = {} /\ Len(runs) < MaxRuns
    /\ status[t] = "ready"
    /\ status' = [status EXCEPT ![t] = "in_progress"]
    /\ \E a \in {i, None} : assignee' = [assignee EXCEPT ![t] = a]
    /\ runs' = Append(runs, [loop |-> i, task |-> t, pieces |-> 0, open |-> TRUE])
    /\ Send(i, Ev("task_started", Len(runs) + 1, 0))
    /\ UNCHANGED <<forwarder, output>>

RunWrites(i) == \E r \in OpenRuns(i) :
    /\ runs[r].pieces < MaxPieces
    /\ runs' = [runs EXCEPT ![r].pieces = @ + 1]
    /\ Send(i, Ev("text_delta", r, runs[r].pieces + 1))
    /\ UNCHANGED <<storage, forwarder, output>>

\* task_completed, or task_failed and the task is made ready for a retry.
RunEnds(i) == \E r \in OpenRuns(i) :
    /\ runs' = [runs EXCEPT ![r].open = FALSE]
    /\ \E s \in {"done", "ready"} :
          status' = [status EXCEPT ![runs[r].task] = s]
    /\ Send(i, Ev("task_ended", r, 0))
    /\ UNCHANGED <<assignee, forwarder, output>>

----------------------------------------------------------------------------
(* start_loop and its forwarder.                                           *)

WithStatus(s) == {t \in Tasks : status[t] = s}
Mine(i) == {t \in WithStatus("in_progress") : assignee[t] = i}

\* resolve_active_task_id: a task in progress that is assigned to the loop,
\* else any task in progress, else the next task; None on an error.
Resolved(i) ==
    {None} \cup
        (IF Mine(i) # {} THEN Mine(i)
         ELSE IF WithStatus("in_progress") # {} THEN WithStatus("in_progress")
         ELSE WithStatus("ready"))

\* start_loop asks for the task its automaton will work on, ...
Guess(i) ==
    /\ conn[i] = "new"
    /\ conn' = [conn EXCEPT ![i] = "guessed"]
    /\ \E t \in Resolved(i) : current' = [current EXCEPT ![i] = t]
    /\ UNCHANGED <<storage, runs, chan, lagging, output, lost>>

\* ... and, calls later, empties the cache entry of that task and subscribes.
Subscribe(i) ==
    /\ conn[i] = "guessed"
    /\ conn' = [conn EXCEPT ![i] = "subscribed"]
    /\ cache' = [t \in Tasks |-> IF t = current[i] THEN <<>> ELSE cache[t]]
    /\ UNCHANGED <<storage, runs, chan, lagging, current, saved, lost>>

\* Mutant: a receiver that lags gives up.
LaggedStops(i) ==
    /\ lagging[i]
    /\ lagging' = [lagging EXCEPT ![i] = FALSE]
    /\ chan' = [chan EXCEPT ![i] = <<>>]
    /\ UNCHANGED <<storage, runs, forwarder, output, lost>>

\* recv reports the gap; the forwarder goes on with the oldest event left.
Lagged(i) ==
    /\ lagging[i]
    /\ lagging' = [lagging EXCEPT ![i] = FALSE]
    /\ UNCHANGED <<storage, runs, forwarder, chan, output, lost>>

\* The forwarder takes the next event, and the task it believes in is then c.
Takes(i, type, c) ==
    /\ conn[i] = "subscribed" /\ ~lagging[i]
    /\ chan[i] # <<>> /\ Head(chan[i]).type = type
    /\ chan' = [chan EXCEPT ![i] = Tail(@)]
    /\ current' = [current EXCEPT ![i] = c]
    /\ UNCHANGED <<storage, runs, conn, lagging, lost>>

NamedTask(i) == runs[Head(chan[i]).run].task

\* Mutant: the text of an earlier run of the task is kept.
OnStartedAppends(i) ==
    /\ Takes(i, "task_started", NamedTask(i))
    /\ UNCHANGED output

\* task_started names its task, and its cache entry is emptied.
OnStarted(i) ==
    /\ Takes(i, "task_started", NamedTask(i))
    /\ cache' = [cache EXCEPT ![NamedTask(i)] = <<>>]
    /\ UNCHANGED saved

\* A text event goes to the current task; while there is none, storage is
\* asked.
OnText(i) ==
    \E c \in (IF current[i] = None THEN Resolved(i) ELSE {current[i]}) :
        /\ Takes(i, "text_delta", c)
        /\ LET e == Head(chan[i])
           IN cache' = IF c = None THEN cache
                       ELSE [cache EXCEPT ![c] = Append(@, <<e.run, e.piece>>)]
        /\ UNCHANGED saved

\* The end of a task stores the text of the current task, which takes
\* precedence over the task the event names.
OnEnded(i) ==
    LET c == IF current[i] = None THEN NamedTask(i) ELSE current[i]
    IN /\ Takes(i, "task_ended", c)
       /\ saved' = [saved EXCEPT ![Head(chan[i]).run] =
                       [task |-> c, text |-> cache[c]]]
       /\ UNCHANGED cache

Forward(i) == Lagged(i) \/ OnStarted(i) \/ OnText(i) \/ OnEnded(i)

LoopNext ==
    \E i \in Loops :
        \/ \E t \in Tasks : RunStarts(i, t)
        \/ RunWrites(i) \/ RunEnds(i)
        \/ Guess(i) \/ Subscribe(i)
        \/ Forward(i)

LoopSpec == LoopInit /\ [][LoopNext]_loopVars

\* The server's own steps are taken; nothing obliges the automata.
LoopFairSpec == LoopSpec /\ \A i \in Loops : WF_loopVars(Subscribe(i)) /\ WF_loopVars(Forward(i))

----------------------------------------------------------------------------
(* Properties.                                                             *)

Whole(r) == [k \in 1..runs[r].pieces |-> <<r, k>>]

\* However many events of other runs were lost, and whatever start_loop had
\* guessed: a run whose own events all arrived is stored under its task, with
\* its text, all of it, in order, and nothing else.
IntactRunIsSaved ==
    \A r \in DOMAIN runs :
        saved[r] # None /\ r \notin lost =>
            saved[r] = [task |-> runs[r].task, text |-> Whole(r)]

\* A run that ended, and whose end event the forwarder still holds, is stored,
\* unless the event falls victim to a later lag.
EndedRunIsSaved ==
    \A r \in 1..MaxRuns, i \in Loops :
        (\E n \in DOMAIN chan[i] : chan[i][n].run = r /\ chan[i][n].type = "task_ended")
            ~> (saved[r] # None \/ r \in lost)
=============================================================================
