------------------------------- MODULE DevLoop -------------------------------
(***************************************************************************)
(* The dev loop of apps/aura-os-server/src/handlers/dev_loop.rs: requests  *)
(* that start, pause and stop automata in the external harness, the        *)
(* forwarder task that relays the events of an automaton, and the registry *)
(* of active automata they share.  One project; the agent instances of     *)
(* other projects only meet it at the registry's mutex.                    *)
(*                                                                         *)
(* A request creates at most one automaton, one session and one forwarder, *)
(* so the three are named by the request that creates them.                *)
(***************************************************************************)
EXTENDS Naturals, FiniteSets

CONSTANTS
    Requests,   \* start_loop and run_single_task requests, one-shot
    Instances,  \* agent instances of the project
    None,       \* no automaton, no session, no instance
    Faults      \* what may fail, a subset of FaultKinds

FaultKinds ==
    {"status", "stop", "attach", "stream", "session", "finish", "close",
     "drop", "crash"}

ASSUME DevLoopAssumption ==
    /\ None \notin Requests /\ None \notin Instances
    /\ Faults \subseteq FaultKinds

VARIABLES
    \* requests
    kind,      \* "loop" (start_loop) or "task" (run_single_task)
    inst,      \* agent_instance_id
    pc,        \* where the handler stands
    aut,       \* automaton_id the handler got; adopted iff another request's
    sess,      \* session_id handed to the forwarder
    \* forwarders
    stream,    \* the harness event stream the request connected
    fwd,       \* where forward_automaton_events stands
    failed,    \* forwarders whose session_status is "failed"
    \* shared state of the server
    registry,  \* AutomatonRegistry
    stopping,  \* targets stop_loop has yet to stop, holding the registry lock
    pausing,   \* automata pause_loop has yet to pause, without the lock
    current,   \* current_session_id of the in-memory runtime state
    \* storage and harness
    agent,     \* stored status of the agent instance
    session,   \* stored status of the session
    autom      \* state of the automaton in the harness

handler == <<kind, inst, pc, aut, sess>>
forwarder == <<stream, fwd, failed>>
vars == <<kind, inst, pc, aut, sess, stream, fwd, failed, registry, stopping,
          pausing, current, agent, session, autom>>

InFlight == {"conflict", "stale", "retry", "attach", "cleanup", "session",
             "begin", "forward", "abandon", "close", "register"}
Over == {"answered", "refused", "dropped"}
ServingFwd == {"live", "cleared", "idled"}

TypeOK ==
    /\ kind \in [Requests -> {"none", "loop", "task"}]
    /\ inst \in [Requests -> Instances \cup {None}]
    /\ pc \in [Requests -> {"idle"} \cup InFlight \cup Over]
    /\ aut \in [Requests -> Requests \cup {None}]
    /\ sess \in [Requests -> Requests \cup {None}]
    /\ stream \in [Requests -> {"none", "open", "ended"}]
    /\ fwd \in [Requests -> {"none", "over", "gone"} \cup ServingFwd]
    /\ failed \in SUBSET Requests
    /\ registry \in [Instances -> Requests \cup {None}]
    /\ stopping \in SUBSET Instances
    /\ pausing \in SUBSET Requests
    /\ current \in [Instances -> Requests \cup {None}]
    /\ agent \in [Instances -> {"idle", "working"}]
    /\ session \in [Requests -> {"none", "active", "completed", "failed"}]
    /\ autom \in [Requests -> {"none", "running", "paused", "ended"}]

Init ==
    /\ kind = [r \in Requests |-> "none"]
    /\ inst = [r \in Requests |-> None]
    /\ pc = [r \in Requests |-> "idle"]
    /\ aut = [r \in Requests |-> None]
    /\ sess = [r \in Requests |-> None]
    /\ stream = [r \in Requests |-> "none"]
    /\ fwd = [r \in Requests |-> "none"]
    /\ failed = {}
    /\ registry = [i \in Instances |-> None]
    /\ stopping = {}
    /\ pausing = {}
    /\ current = [i \in Instances |-> None]
    /\ agent = [i \in Instances |-> "idle"]
    /\ session = [r \in Requests |-> "none"]
    /\ autom = [r \in Requests |-> "none"]

May(fault) == fault \in Faults
Goto(r, label) == pc' = [pc EXCEPT ![r] = label]

----------------------------------------------------------------------------
(* The harness: automata, and what it answers to start and stop.           *)

Alive(a) == autom[a] \in {"running", "paused"}
Loops == {a \in Requests : autom[a] # "none" /\ kind[a] = "loop"}

\* The call of start made by request r, whose next step is decided by the
\* answer: the harness runs one dev loop per project and answers Conflict,
\* naming the loop or not, while it knows of one; a loop that has ended may
\* still be reported.  Any start may fail.
HarnessStart(r, k, onConflict) ==
    \/ /\ k = "task" \/ \A a \in Loops : ~Alive(a)
       /\ autom' = [autom EXCEPT ![r] = "running"]
       /\ aut' = [aut EXCEPT ![r] = r]
       /\ Goto(r, "attach")
    \/ /\ k = "loop"
       /\ \E a \in Loops : aut' = [aut EXCEPT ![r] = a]
       /\ Goto(r, onConflict)
       /\ UNCHANGED autom
    \/ /\ Goto(r, "refused")
       /\ UNCHANGED <<autom, aut>>

\* A stop call on automaton a; an error leaves it as it was.
HarnessStop(a) ==
    \/ autom' = [autom EXCEPT ![a] = "ended"]
    \/ May("stop") /\ UNCHANGED autom

\* The automaton is done, or its only task is.
AutomatonEnds(a) ==
    /\ autom[a] = "running"
    /\ autom' = [autom EXCEPT ![a] = "ended"]
    /\ UNCHANGED <<handler, forwarder, registry, stopping, pausing, current,
                   agent, session>>

\* The harness sends "done" and closes the WebSocket, or the connection
\* breaks while the automaton goes on.
StreamEnds(r) ==
    /\ stream[r] = "open"
    /\ autom[aut[r]] = "ended" \/ May("stream")
    /\ stream' = [stream EXCEPT ![r] = "ended"]
    /\ UNCHANGED <<handler, fwd, failed, registry, stopping, pausing, current,
                   agent, session, autom>>

----------------------------------------------------------------------------
(* start_loop and run_single_task.                                         *)

Start(r, i, k) ==
    /\ pc[r] = "idle"
    /\ kind' = [kind EXCEPT ![r] = k]
    /\ inst' = [inst EXCEPT ![r] = i]
    /\ HarnessStart(r, k, "conflict")
    /\ UNCHANGED <<sess, forwarder, registry, stopping, pausing, current,
                   agent, session>>

\* status of the conflicting automaton: an active one is adopted, a dead one
\* and one whose status cannot be read are stale.
Inspect(r) ==
    /\ pc[r] = "conflict"
    /\ \/ Alive(aut[r]) /\ Goto(r, "attach")
       \/ ~Alive(aut[r]) /\ Goto(r, "stale")
       \/ May("status") /\ Goto(r, "stale")
    /\ UNCHANGED <<kind, inst, aut, sess, forwarder, registry, stopping,
                   pausing, current, agent, session, autom>>

StopStale(r) ==
    /\ pc[r] = "stale"
    /\ HarnessStop(aut[r])
    /\ Goto(r, "retry")
    /\ UNCHANGED <<kind, inst, aut, sess, forwarder, registry, stopping,
                   pausing, current, agent, session>>

\* The second start adopts whatever it conflicts with, unseen.
Retry(r) ==
    /\ pc[r] = "retry"
    /\ HarnessStart(r, kind[r], "attach")
    /\ UNCHANGED <<kind, inst, sess, forwarder, registry, stopping, pausing,
                   current, agent, session>>

\* Mutant: the automaton is left running when the stream cannot be attached.
AttachLeaksAutomaton(r) ==
    /\ pc[r] = "attach"
    /\ \/ /\ stream' = [stream EXCEPT ![r] = "open"]
          /\ Goto(r, "session")
       \/ /\ autom[aut[r]] = "ended" \/ May("attach")
          /\ Goto(r, IF kind[r] = "task" THEN "session" ELSE "refused")
          /\ UNCHANGED stream
    /\ UNCHANGED <<kind, inst, aut, sess, fwd, failed, registry, stopping,
                   pausing, current, agent, session, autom>>

\* connect_event_stream, or connect_with_retries of a single task.
Attach(r) ==
    /\ pc[r] = "attach"
    /\ \/ /\ stream' = [stream EXCEPT ![r] = "open"]
          /\ Goto(r, "session")
       \/ /\ autom[aut[r]] = "ended" \/ May("attach")
          /\ Goto(r, IF kind[r] = "task" THEN "session"
                     ELSE IF aut[r] = r THEN "cleanup" ELSE "refused")
          /\ UNCHANGED stream
    /\ UNCHANGED <<kind, inst, aut, sess, fwd, failed, registry, stopping,
                   pausing, current, agent, session, autom>>

StopUnattached(r) ==
    /\ pc[r] = "cleanup"
    /\ HarnessStop(r)
    /\ Goto(r, "refused")
    /\ UNCHANGED <<kind, inst, aut, sess, forwarder, registry, stopping,
                   pausing, current, agent, session>>

\* Session of an adopted loop: the current one of the instance.  Otherwise a
\* new one; when it cannot be created the loop goes on without.
OpenSession(r) ==
    /\ pc[r] = "session"
    /\ \/ /\ aut[r] # r
          /\ sess' = [sess EXCEPT ![r] = current[inst[r]]]
          /\ UNCHANGED session
       \/ /\ aut[r] = r
          /\ sess' = [sess EXCEPT ![r] = r]
          /\ session' = [session EXCEPT ![r] = "active"]
       \/ /\ aut[r] = r /\ May("session")
          /\ UNCHANGED <<sess, session>>
    /\ Goto(r, IF kind[r] = "task" /\ sess'[r] # None THEN "begin"
               ELSE "forward")
    /\ UNCHANGED <<kind, inst, aut, forwarder, registry, stopping, pausing,
                   current, agent, autom>>

\* start_working: the stored status, then the runtime state.
StartWorking(r) ==
    /\ current' = [current EXCEPT ![inst[r]] = sess[r]]
    /\ agent' = [agent EXCEPT ![inst[r]] = "working"]

\* finish_working; an error of the storage leaves both as they were.
FinishWorking(r) ==
    \/ /\ current' = [current EXCEPT ![inst[r]] = None]
       /\ agent' = [agent EXCEPT ![inst[r]] = "idle"]
    \/ May("finish") /\ UNCHANGED <<current, agent>>

BeginTask(r) ==
    /\ pc[r] = "begin"
    /\ StartWorking(r)
    /\ Goto(r, "forward")
    /\ UNCHANGED <<kind, inst, aut, sess, forwarder, registry, stopping,
                   pausing, session, autom>>

\* forward_automaton_events spawns the forwarder; a single task without a
\* stream is given up instead.
Forward(r) ==
    /\ pc[r] = "forward"
    /\ \/ /\ stream[r] # "none"
          /\ fwd' = [fwd EXCEPT ![r] = "live"]
          /\ Goto(r, IF kind[r] = "loop" THEN "register" ELSE "answered")
       \/ /\ stream[r] = "none"
          /\ Goto(r, "abandon")
          /\ UNCHANGED fwd
    /\ UNCHANGED <<kind, inst, aut, sess, stream, failed, registry, stopping,
                   pausing, current, agent, session, autom>>

Abandon(r) ==
    /\ pc[r] = "abandon"
    /\ FinishWorking(r)
    /\ Goto(r, "close")
    /\ UNCHANGED <<kind, inst, aut, sess, forwarder, registry, stopping,
                   pausing, session, autom>>

\* close_automaton_session, which only logs an error of the storage.
CloseSession(r, outcome) ==
    \/ /\ sess[r] # None
       /\ session' = [session EXCEPT ![sess[r]] = outcome]
    \/ /\ sess[r] = None \/ May("close")
       /\ UNCHANGED session

\* Mutant: a single task that cannot be followed leaves its session open.
CloseAbandonedSkipped(r) ==
    /\ pc[r] = "close"
    /\ Goto(r, "answered")
    /\ UNCHANGED <<kind, inst, aut, sess, forwarder, registry, stopping,
                   pausing, current, agent, session, autom>>

CloseAbandoned(r) ==
    /\ pc[r] = "close"
    /\ CloseSession(r, "failed")
    /\ Goto(r, "answered")
    /\ UNCHANGED <<kind, inst, aut, sess, forwarder, registry, stopping,
                   pausing, current, agent, autom>>

\* Mutant: the entry is written without the registry's lock.
RegisterUnlocked(r) ==
    /\ pc[r] = "register"
    /\ registry' = [registry EXCEPT ![inst[r]] = aut[r]]
    /\ Goto(r, "answered")
    /\ UNCHANGED <<kind, inst, aut, sess, forwarder, stopping, pausing,
                   current, agent, session, autom>>

\* The registry entry, written last and whatever happened since the forwarder
\* was spawned.
Register(r) ==
    /\ pc[r] = "register"
    /\ stopping = {}
    /\ registry' = [registry EXCEPT ![inst[r]] = aut[r]]
    /\ Goto(r, "answered")
    /\ UNCHANGED <<kind, inst, aut, sess, forwarder, stopping, pausing,
                   current, agent, session, autom>>

\* The client goes away and its request's future is dropped at an await.
DropRequest(r) ==
    /\ May("drop")
    /\ pc[r] \in InFlight
    /\ Goto(r, "dropped")
    /\ UNCHANGED <<kind, inst, aut, sess, forwarder, registry, stopping,
                   pausing, current, agent, session, autom>>

----------------------------------------------------------------------------
(* The forwarder.                                                          *)

\* An event "task_started".
TaskStarted(r) ==
    /\ fwd[r] = "live" /\ sess[r] # None
    /\ StartWorking(r)
    /\ UNCHANGED <<handler, forwarder, registry, stopping, pausing, session,
                   autom>>

TaskFailed(r) ==
    /\ fwd[r] = "live"
    /\ failed' = failed \cup {r}
    /\ UNCHANGED <<handler, stream, fwd, registry, stopping, pausing, current,
                   agent, session, autom>>

\* "done" or a closed channel: the entry of the instance is removed, then the
\* agent goes idle, then the session is closed and loop_finished emitted.
ClearEntry(r) ==
    /\ fwd[r] = "live" /\ stream[r] = "ended"
    /\ stopping = {}
    /\ registry' = [registry EXCEPT ![inst[r]] = None]
    /\ fwd' = [fwd EXCEPT ![r] = "cleared"]
    /\ UNCHANGED <<handler, stream, failed, stopping, pausing, current, agent,
                   session, autom>>

\* Mutant: an error of finish_working ends the forwarder.
FinishAgentOrDie(r) ==
    /\ fwd[r] = "cleared"
    /\ \/ FinishWorking(r) /\ fwd' = [fwd EXCEPT ![r] = "idled"]
       \/ /\ May("finish") /\ fwd' = [fwd EXCEPT ![r] = "none"]
          /\ UNCHANGED <<current, agent>>
    /\ UNCHANGED <<handler, stream, failed, registry, stopping, pausing,
                   session, autom>>

FinishAgent(r) ==
    /\ fwd[r] = "cleared"
    /\ FinishWorking(r)
    /\ fwd' = [fwd EXCEPT ![r] = "idled"]
    /\ UNCHANGED <<handler, stream, failed, registry, stopping, pausing,
                   session, autom>>

LoopFinished(r) ==
    /\ fwd[r] = "idled"
    /\ CloseSession(r, IF r \in failed THEN "failed" ELSE "completed")
    /\ fwd' = [fwd EXCEPT ![r] = "over"]
    /\ failed' = failed \ {r}
    /\ UNCHANGED <<handler, stream, registry, stopping, pausing,
                   current, agent, autom>>

----------------------------------------------------------------------------
(* pause_loop and stop_loop, for one instance or for the whole project.    *)

Registered(targets) == {i \in targets : registry[i] # None}

Pause(targets) ==
    /\ pausing = {} /\ stopping = {}
    /\ Registered(targets) # {}
    /\ pausing' = {registry[i] : i \in Registered(targets)}
    /\ UNCHANGED <<handler, forwarder, registry, stopping, current, agent,
                   session, autom>>

\* The lock is taken again to read the base URL; an error is only logged.
PauseOne(a) ==
    /\ a \in pausing /\ stopping = {}
    /\ pausing' = pausing \ {a}
    /\ \/ autom[a] = "running" /\ autom' = [autom EXCEPT ![a] = "paused"]
       \/ (autom[a] # "running" \/ May("stop")) /\ UNCHANGED autom
    /\ UNCHANGED <<handler, forwarder, registry, stopping, current, agent,
                   session>>

Stop(targets) ==
    /\ stopping = {}
    /\ Registered(targets) # {}
    /\ stopping' = Registered(targets)
    /\ UNCHANGED <<handler, forwarder, registry, pausing, current, agent,
                   session, autom>>

\* The entry goes even when the automaton could not be stopped.
StopOne(i) ==
    /\ i \in stopping
    /\ HarnessStop(registry[i])
    /\ registry' = [registry EXCEPT ![i] = None]
    /\ stopping' = stopping \ {i}
    /\ UNCHANGED <<handler, forwarder, pausing, current, agent, session>>

\* The server restarts: handlers, forwarders, the registry and the runtime
\* state are gone; the harness goes on, and so do the stored rows.
Crash ==
    /\ May("crash")
    /\ pc' = [r \in Requests |-> IF pc[r] \in InFlight THEN "dropped"
                                 ELSE pc[r]]
    /\ fwd' = [r \in Requests |-> IF fwd[r] \in ServingFwd THEN "gone"
                                  ELSE fwd[r]]
    /\ registry' = [i \in Instances |-> None]
    /\ current' = [i \in Instances |-> None]
    /\ stopping' = {} /\ pausing' = {}
    /\ UNCHANGED <<kind, inst, aut, sess, stream, failed, agent, session,
                   autom>>

----------------------------------------------------------------------------
\* The steps a handler takes by itself once it has been called.
HandlerStep(r) ==
    \/ Inspect(r) \/ StopStale(r) \/ Retry(r) \/ Attach(r)
    \/ StopUnattached(r) \/ OpenSession(r) \/ BeginTask(r) \/ Forward(r)
    \/ Abandon(r) \/ CloseAbandoned(r) \/ Register(r)

\* The clean-up of a forwarder whose stream has ended.
FinishStep(r) == ClearEntry(r) \/ FinishAgent(r) \/ LoopFinished(r)

\* The instances a pause or stop request selects: one, or the project's.
Selections == {{i} : i \in Instances} \cup {Instances}

Next ==
    \/ \E r \in Requests, i \in Instances, k \in {"loop", "task"} :
          Start(r, i, k)
    \/ \E r \in Requests :
          \/ HandlerStep(r) \/ DropRequest(r)
          \/ TaskStarted(r) \/ TaskFailed(r) \/ FinishStep(r)
          \/ AutomatonEnds(r) \/ StreamEnds(r) \/ PauseOne(r)
    \/ \E targets \in Selections : Pause(targets) \/ Stop(targets)
    \/ \E i \in Instances : StopOne(i)
    \/ Crash

Spec == Init /\ [][Next]_vars

\* The server's tasks are scheduled and the harness closes the stream of an
\* automaton that has ended; nothing obliges a client to call or an automaton
\* to end.  A forwarder waits for the registry's mutex, which is fair and is
\* released by every stop request, so its clean-up is given strong fairness
\* where it needs the lock.
Fairness ==
    /\ \A r \in Requests :
          /\ WF_vars(HandlerStep(r))
          /\ SF_vars(ClearEntry(r))
          /\ WF_vars(FinishAgent(r) \/ LoopFinished(r))
    /\ WF_vars(\E i \in Instances : StopOne(i))

FairSpec == Spec /\ Fairness

----------------------------------------------------------------------------
(* Properties.                                                             *)

\* A session the server created does not stay active once nobody is left to
\* close it, and an agent shown as working has a handler or a forwarder that
\* will set it idle again, however many loops and single tasks the instance
\* was given.
SessionAndAgentAreServed ==
    /\ \A r \in Requests :
          session[r] = "active" =>
              \/ pc[r] \in {"begin", "forward", "abandon", "close"}
              \/ fwd[r] \in ServingFwd
    /\ \A i \in Instances :
          agent[i] = "working" =>
              \E r \in Requests :
                  /\ inst[r] = i
                  /\ \/ pc[r] \in {"forward", "abandon"}
                     \/ fwd[r] \in {"live", "cleared"}

\* A dev loop never runs on in the harness after its start request has been
\* answered or refused without some forwarder following it.
RunningLoopIsFollowed ==
    \A a \in Requests :
        kind[a] = "loop" /\ Alive(a) /\ pc[a] \in {"answered", "refused"} =>
            \E r \in Requests : aut[r] = a /\ fwd[r] = "live"

\* stop_loop, unlike pause_loop, keeps the lock from the selection of its
\* targets to the removal of the last: no loop that was registered, replaced
\* or cleared meanwhile is dropped from the registry in place of the one that
\* was stopped.
StopRemovesWhatItSelected ==
    [][\A i \in stopping \cap stopping' : registry'[i] = registry[i]]_vars

\* A forwarder whose stream has ended gets through its clean-up, unless the
\* server is restarted, although it shares the registry's lock with stop
\* requests that hold it over calls to the harness.
EndedStreamIsCleanedUp ==
    \A r \in Requests :
        (fwd[r] = "live" /\ stream[r] = "ended") ~> (fwd[r] \in {"over", "gone"})
=============================================================================
