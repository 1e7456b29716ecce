---------------------------- MODULE DevLoopProofs ----------------------------
(***************************************************************************)
(* Theorems about DevLoop, for any number of requests and agent instances.  *)
(* Each says which faults it excludes; all others may happen.              *)
(***************************************************************************)
EXTENDS DevLoop, TLAPS

\* Where a request can be that has not started an automaton of its own.
Early == {"idle", "conflict", "stale", "retry"}

\* A request that was made has an instance, and before that nothing else.
Made ==
    \A r \in Requests :
        /\ pc[r] # "idle" => inst[r] \in Instances
        /\ pc[r] = "idle" => fwd[r] = "none"

\* An automaton is the one its request got and keeps; who names one, names one
\* that was started.
OwnAutomaton ==
    /\ \A r \in Requests :
           /\ autom[r] # "none" => aut[r] = r /\ pc[r] \notin Early
           /\ aut[r] # None => autom[aut[r]] # "none"
           /\ pc[r] = "cleanup" => aut[r] = r
           /\ pc[r] \in {"conflict", "attach"} => aut[r] # None
           /\ stream[r] # "none" => aut[r] # None /\ pc[r] \notin Early \cup {"attach"}
    /\ \A i \in Instances : registry[i] # None => autom[registry[i]] # "none"

\* A session is the one its request was given; who names one, names one that
\* was created.
OwnSession ==
    /\ \A r \in Requests :
           /\ session[r] # "none" =>
                  sess[r] = r /\ pc[r] \notin Early \cup {"attach", "cleanup", "session"}
           /\ sess[r] # None => session[sess[r]] # "none"
    /\ \A i \in Instances : current[i] # None => session[current[i]] # "none"

DevLoopInv == TypeOK /\ Made /\ OwnAutomaton /\ OwnSession

\* While no connection breaks, a stream ends after its automaton.
StreamsEndLast ==
    \A r \in Requests : stream[r] = "ended" => autom[aut[r]] = "ended"

\* A dev loop that runs is about to be followed or is followed by the forwarder of
\* the request that started it.
Followed ==
    \A a \in Requests : kind[a] = "loop" /\ Alive(a) =>
        /\ pc[a] \in {"attach", "cleanup", "session", "forward", "register", "answered"}
        /\ pc[a] \in {"session", "forward"} => stream[a] # "none"
        /\ pc[a] \in {"register", "answered"} => fwd[a] = "live"

FollowInv == StreamsEndLast /\ Followed

\* Nothing fails that keeps a row from being written, no request is dropped and the
\* server is not restarted.
RowsAreWritten == Faults \cap {"finish", "close", "drop", "crash"} = {}

\* No connection breaks, the harness stops what it is told to, no request is dropped and
\* the server is not restarted.
AutomataAreReached == Faults \cap {"stop", "stream", "drop", "crash"} = {}

------------------------------------------------------------------------------
LEMMA TypeStep == DevLoopInv /\ [Next]_vars => TypeOK'
  <1> SUFFICES ASSUME DevLoopInv, [Next]_vars PROVE TypeOK' OBVIOUS
  <1> USE DevLoopAssumption
      DEF DevLoopInv, TypeOK, Made, InFlight, Over, ServingFwd, DevLoopAssumption
  <1>1. ASSUME NEW r \in Requests, NEW i \in Instances, NEW k \in {"loop", "task"},
               Start(r, i, k)
        PROVE  TypeOK'
    BY <1>1 DEF Start, HarnessStart, Goto, Loops, forwarder
  <1>2. ASSUME NEW r \in Requests, Inspect(r) PROVE TypeOK'
    BY <1>2 DEF Inspect, Alive, Goto, forwarder
  <1>3. ASSUME NEW r \in Requests, StopStale(r) PROVE TypeOK'
    BY <1>3 DEF StopStale, HarnessStop, Goto, forwarder
  <1>4. ASSUME NEW r \in Requests, Retry(r) PROVE TypeOK'
    BY <1>4 DEF Retry, HarnessStart, Goto, Loops, forwarder
  <1>5. ASSUME NEW r \in Requests, Attach(r) PROVE TypeOK'
    BY <1>5 DEF Attach, Goto
  <1>6. ASSUME NEW r \in Requests, StopUnattached(r) PROVE TypeOK'
    BY <1>6 DEF StopUnattached, HarnessStop, Goto, forwarder
  <1>7. ASSUME NEW r \in Requests, OpenSession(r) PROVE TypeOK'
    BY <1>7 DEF OpenSession, Goto, forwarder
  <1>8. ASSUME NEW r \in Requests, BeginTask(r) PROVE TypeOK'
    BY <1>8 DEF BeginTask, StartWorking, Goto, forwarder
  <1>9. ASSUME NEW r \in Requests, Forward(r) PROVE TypeOK'
    BY <1>9 DEF Forward, Goto
  <1>10. ASSUME NEW r \in Requests, Abandon(r) PROVE TypeOK'
    BY <1>10 DEF Abandon, FinishWorking, Goto, forwarder
  <1>11. ASSUME NEW r \in Requests, CloseAbandoned(r) PROVE TypeOK'
    BY <1>11 DEF CloseAbandoned, CloseSession, Goto, forwarder
  <1>12. ASSUME NEW r \in Requests, Register(r) PROVE TypeOK'
    BY <1>12 DEF Register, Goto, forwarder
  <1>13. ASSUME NEW r \in Requests, DropRequest(r) PROVE TypeOK'
    BY <1>13 DEF DropRequest, Goto, forwarder
  <1>14. ASSUME NEW r \in Requests, TaskStarted(r) PROVE TypeOK'
    BY <1>14 DEF TaskStarted, StartWorking, handler, forwarder
  <1>15. ASSUME NEW r \in Requests, TaskFailed(r) PROVE TypeOK'
    BY <1>15 DEF TaskFailed, handler
  <1>16. ASSUME NEW r \in Requests, ClearEntry(r) PROVE TypeOK'
    BY <1>16 DEF ClearEntry, handler
  <1>17. ASSUME NEW r \in Requests, FinishAgent(r) PROVE TypeOK'
    BY <1>17 DEF FinishAgent, FinishWorking, handler
  <1>18. ASSUME NEW r \in Requests, LoopFinished(r) PROVE TypeOK'
    BY <1>18 DEF LoopFinished, CloseSession, handler
  <1>19. ASSUME NEW r \in Requests, AutomatonEnds(r) PROVE TypeOK'
    BY <1>19 DEF AutomatonEnds, handler, forwarder
  <1>20. ASSUME NEW r \in Requests, StreamEnds(r) PROVE TypeOK'
    BY <1>20 DEF StreamEnds, handler
  <1>21. ASSUME NEW r \in Requests, PauseOne(r) PROVE TypeOK'
    BY <1>21 DEF PauseOne, handler, forwarder
  <1>22. ASSUME NEW T \in Selections, Pause(T) PROVE TypeOK'
    BY <1>22 DEF Pause, Registered, Selections, handler, forwarder
  <1>23. ASSUME NEW T \in Selections, Stop(T) PROVE TypeOK'
    BY <1>23 DEF Stop, Registered, Selections, handler, forwarder
  <1>24. ASSUME NEW i \in Instances, StopOne(i) PROVE TypeOK'
    BY <1>24 DEF StopOne, HarnessStop, handler, forwarder
  <1>25. CASE Crash
    BY <1>25 DEF Crash
  <1>26. CASE UNCHANGED vars BY <1>26 DEF vars
  <1> QED
    BY <1>1, <1>2, <1>3, <1>4, <1>5, <1>6, <1>7, <1>8, <1>9, <1>10, <1>11, <1>12, <1>13,
       <1>14, <1>15, <1>16, <1>17, <1>18, <1>19, <1>20, <1>21, <1>22, <1>23, <1>24, <1>25,
       <1>26
    DEF Next, HandlerStep, FinishStep

LEMMA MadeStep == DevLoopInv /\ [Next]_vars => Made'
  <1> SUFFICES ASSUME DevLoopInv, [Next]_vars PROVE Made' OBVIOUS
  <1> USE DevLoopAssumption
      DEF DevLoopInv, TypeOK, Made, InFlight, ServingFwd, DevLoopAssumption
  <1>1. ASSUME NEW r \in Requests, NEW i \in Instances, NEW k \in {"loop", "task"},
               Start(r, i, k)
        PROVE  Made'
    BY <1>1 DEF Start, HarnessStart, Goto, Loops, forwarder
  <1>2. ASSUME NEW r \in Requests, Inspect(r) PROVE Made'
    BY <1>2 DEF Inspect, Alive, Goto, forwarder
  <1>3. ASSUME NEW r \in Requests, StopStale(r) PROVE Made'
    BY <1>3 DEF StopStale, HarnessStop, Goto, forwarder
  <1>4. ASSUME NEW r \in Requests, Retry(r) PROVE Made'
    BY <1>4 DEF Retry, HarnessStart, Goto, Loops, forwarder
  <1>5. ASSUME NEW r \in Requests, Attach(r) PROVE Made'
    BY <1>5 DEF Attach, Goto
  <1>6. ASSUME NEW r \in Requests, StopUnattached(r) PROVE Made'
    BY <1>6 DEF StopUnattached, HarnessStop, Goto, forwarder
  <1>7. ASSUME NEW r \in Requests, OpenSession(r) PROVE Made'
    BY <1>7 DEF OpenSession, Goto, forwarder
  <1>8. ASSUME NEW r \in Requests, BeginTask(r) PROVE Made'
    BY <1>8 DEF BeginTask, StartWorking, Goto, forwarder
  <1>9. ASSUME NEW r \in Requests, Forward(r) PROVE Made'
    BY <1>9 DEF Forward, Goto
  <1>10. ASSUME NEW r \in Requests, Abandon(r) PROVE Made'
    BY <1>10 DEF Abandon, FinishWorking, Goto, forwarder
  <1>11. ASSUME NEW r \in Requests, CloseAbandoned(r) PROVE Made'
    BY <1>11 DEF CloseAbandoned, CloseSession, Goto, forwarder
  <1>12. ASSUME NEW r \in Requests, Register(r) PROVE Made'
    BY <1>12 DEF Register, Goto, forwarder
  <1>13. ASSUME NEW r \in Requests, DropRequest(r) PROVE Made'
    BY <1>13 DEF DropRequest, Goto, forwarder
  <1>14. ASSUME NEW r \in Requests, ClearEntry(r) PROVE Made'
    BY <1>14 DEF ClearEntry, handler
  <1>15. ASSUME NEW r \in Requests, FinishAgent(r) PROVE Made'
    BY <1>15 DEF FinishAgent, FinishWorking, handler
  <1>16. ASSUME NEW r \in Requests, LoopFinished(r) PROVE Made'
    BY <1>16 DEF LoopFinished, CloseSession, handler
  <1>17. CASE Crash
    BY <1>17 DEF Crash
  <1>18. ASSUME NEW r \in Requests,
               \/ TaskStarted(r) \/ TaskFailed(r) \/ AutomatonEnds(r) \/ StreamEnds(r)
               \/ PauseOne(r)
        PROVE  Made'
    BY <1>18
    DEF TaskStarted, TaskFailed, AutomatonEnds, StreamEnds, PauseOne, handler, forwarder
  <1>19. ASSUME NEW T \in Selections, Pause(T) \/ Stop(T)
        PROVE  Made'
    BY <1>19
    DEF Pause, Stop, handler, forwarder
  <1>20. ASSUME NEW i \in Instances, StopOne(i)
        PROVE  Made'
    BY <1>20
    DEF StopOne, handler, forwarder
  <1>21. CASE UNCHANGED vars BY <1>21 DEF vars
  <1> QED
    BY <1>1, <1>2, <1>3, <1>4, <1>5, <1>6, <1>7, <1>8, <1>9, <1>10, <1>11, <1>12, <1>13,
       <1>14, <1>15, <1>16, <1>17, <1>18, <1>19, <1>20, <1>21
    DEF Next, HandlerStep, FinishStep

LEMMA OwnAutomatonStep == DevLoopInv /\ [Next]_vars => OwnAutomaton'
  <1> SUFFICES ASSUME DevLoopInv, [Next]_vars PROVE OwnAutomaton' OBVIOUS
  <1> USE DevLoopAssumption
      DEF DevLoopInv, TypeOK, OwnAutomaton, Early, InFlight, DevLoopAssumption
  <1>1. ASSUME NEW r \in Requests, NEW i \in Instances, NEW k \in {"loop", "task"},
               Start(r, i, k)
        PROVE  OwnAutomaton'
    BY <1>1 DEF Start, HarnessStart, Goto, Loops, forwarder
  <1>2. ASSUME NEW r \in Requests, Inspect(r) PROVE OwnAutomaton'
    BY <1>2 DEF Inspect, Alive, Goto, forwarder
  <1>3. ASSUME NEW r \in Requests, StopStale(r) PROVE OwnAutomaton'
    BY <1>3 DEF StopStale, HarnessStop, Goto, forwarder
  <1>4. ASSUME NEW r \in Requests, Retry(r) PROVE OwnAutomaton'
    BY <1>4 DEF Retry, HarnessStart, Goto, Loops, forwarder
  <1>5. ASSUME NEW r \in Requests, Attach(r) PROVE OwnAutomaton'
    BY <1>5 DEF Attach, Goto
  <1>6. ASSUME NEW r \in Requests, StopUnattached(r) PROVE OwnAutomaton'
    BY <1>6 DEF StopUnattached, HarnessStop, Goto, forwarder
  <1>7. ASSUME NEW r \in Requests, OpenSession(r) PROVE OwnAutomaton'
    BY <1>7 DEF OpenSession, Goto, forwarder
  <1>8. ASSUME NEW r \in Requests, BeginTask(r) PROVE OwnAutomaton'
    BY <1>8 DEF BeginTask, StartWorking, Goto, forwarder
  <1>9. ASSUME NEW r \in Requests, Forward(r) PROVE OwnAutomaton'
    BY <1>9 DEF Forward, Goto
  <1>10. ASSUME NEW r \in Requests, Abandon(r) PROVE OwnAutomaton'
    BY <1>10 DEF Abandon, FinishWorking, Goto, forwarder
  <1>11. ASSUME NEW r \in Requests, CloseAbandoned(r) PROVE OwnAutomaton'
    BY <1>11 DEF CloseAbandoned, CloseSession, Goto, forwarder
  <1>12. ASSUME NEW r \in Requests, Register(r) PROVE OwnAutomaton'
    BY <1>12 DEF Register, Goto, forwarder
  <1>13. ASSUME NEW r \in Requests, DropRequest(r) PROVE OwnAutomaton'
    BY <1>13 DEF DropRequest, Goto, forwarder
  <1>14. ASSUME NEW r \in Requests, ClearEntry(r) PROVE OwnAutomaton'
    BY <1>14 DEF ClearEntry, handler
  <1>15. ASSUME NEW r \in Requests, AutomatonEnds(r) PROVE OwnAutomaton'
    BY <1>15 DEF AutomatonEnds, handler, forwarder
  <1>16. ASSUME NEW r \in Requests, StreamEnds(r) PROVE OwnAutomaton'
    BY <1>16 DEF StreamEnds, handler
  <1>17. ASSUME NEW r \in Requests, PauseOne(r) PROVE OwnAutomaton'
    BY <1>17 DEF PauseOne, handler, forwarder
  <1>18. ASSUME NEW i \in Instances, StopOne(i) PROVE OwnAutomaton'
    BY <1>18 DEF StopOne, HarnessStop, handler, forwarder
  <1>19. CASE Crash
    BY <1>19 DEF Crash
  <1>20. ASSUME NEW r \in Requests,
               \/ TaskStarted(r) \/ TaskFailed(r) \/ FinishAgent(r) \/ LoopFinished(r)
        PROVE  OwnAutomaton'
    BY <1>20
    DEF TaskStarted, TaskFailed, FinishAgent, LoopFinished, handler, forwarder
  <1>21. ASSUME NEW T \in Selections, Pause(T) \/ Stop(T)
        PROVE  OwnAutomaton'
    BY <1>21
    DEF Pause, Stop, handler, forwarder
  <1>22. CASE UNCHANGED vars BY <1>22 DEF vars
  <1> QED
    BY <1>1, <1>2, <1>3, <1>4, <1>5, <1>6, <1>7, <1>8, <1>9, <1>10, <1>11, <1>12, <1>13,
       <1>14, <1>15, <1>16, <1>17, <1>18, <1>19, <1>20, <1>21, <1>22
    DEF Next, HandlerStep, FinishStep

LEMMA OwnSessionStep == DevLoopInv /\ [Next]_vars => OwnSession'
  <1> SUFFICES ASSUME DevLoopInv, [Next]_vars PROVE OwnSession' OBVIOUS
  <1> USE DevLoopAssumption
      DEF DevLoopInv, TypeOK, OwnSession, Made, Early, InFlight, DevLoopAssumption
  <1>1. ASSUME NEW r \in Requests, NEW i \in Instances, NEW k \in {"loop", "task"},
               Start(r, i, k)
        PROVE  OwnSession'
    BY <1>1 DEF Start, HarnessStart, Goto, Loops, forwarder
  <1>2. ASSUME NEW r \in Requests, Inspect(r) PROVE OwnSession'
    BY <1>2 DEF Inspect, Alive, Goto, forwarder
  <1>3. ASSUME NEW r \in Requests, StopStale(r) PROVE OwnSession'
    BY <1>3 DEF StopStale, HarnessStop, Goto, forwarder
  <1>4. ASSUME NEW r \in Requests, Retry(r) PROVE OwnSession'
    BY <1>4 DEF Retry, HarnessStart, Goto, Loops, forwarder
  <1>5. ASSUME NEW r \in Requests, Attach(r) PROVE OwnSession'
    BY <1>5 DEF Attach, Goto
  <1>6. ASSUME NEW r \in Requests, StopUnattached(r) PROVE OwnSession'
    BY <1>6 DEF StopUnattached, HarnessStop, Goto, forwarder
  <1>7. ASSUME NEW r \in Requests, OpenSession(r) PROVE OwnSession'
    BY <1>7 DEF OpenSession, Goto, forwarder
  <1>8. ASSUME NEW r \in Requests, BeginTask(r) PROVE OwnSession'
    BY <1>8 DEF BeginTask, StartWorking, Goto, forwarder
  <1>9. ASSUME NEW r \in Requests, Forward(r) PROVE OwnSession'
    BY <1>9 DEF Forward, Goto
  <1>10. ASSUME NEW r \in Requests, Abandon(r) PROVE OwnSession'
    BY <1>10 DEF Abandon, FinishWorking, Goto, forwarder
  <1>11. ASSUME NEW r \in Requests, CloseAbandoned(r) PROVE OwnSession'
    BY <1>11 DEF CloseAbandoned, CloseSession, Goto, forwarder
  <1>12. ASSUME NEW r \in Requests, Register(r) PROVE OwnSession'
    BY <1>12 DEF Register, Goto, forwarder
  <1>13. ASSUME NEW r \in Requests, DropRequest(r) PROVE OwnSession'
    BY <1>13 DEF DropRequest, Goto, forwarder
  <1>14. ASSUME NEW r \in Requests, TaskStarted(r) PROVE OwnSession'
    BY <1>14 DEF TaskStarted, StartWorking, handler, forwarder
  <1>15. ASSUME NEW r \in Requests, FinishAgent(r) PROVE OwnSession'
    BY <1>15 DEF FinishAgent, FinishWorking, handler
  <1>16. ASSUME NEW r \in Requests, LoopFinished(r) PROVE OwnSession'
    BY <1>16 DEF LoopFinished, CloseSession, handler
  <1>17. CASE Crash
    BY <1>17 DEF Crash
  <1>18. ASSUME NEW r \in Requests,
               \/ TaskFailed(r) \/ ClearEntry(r) \/ AutomatonEnds(r) \/ StreamEnds(r)
               \/ PauseOne(r)
        PROVE  OwnSession'
    BY <1>18
    DEF TaskFailed, ClearEntry, AutomatonEnds, StreamEnds, PauseOne, handler, forwarder
  <1>19. ASSUME NEW T \in Selections, Pause(T) \/ Stop(T)
        PROVE  OwnSession'
    BY <1>19
    DEF Pause, Stop, handler, forwarder
  <1>20. ASSUME NEW i \in Instances, StopOne(i)
        PROVE  OwnSession'
    BY <1>20
    DEF StopOne, handler, forwarder
  <1>21. CASE UNCHANGED vars BY <1>21 DEF vars
  <1> QED
    BY <1>1, <1>2, <1>3, <1>4, <1>5, <1>6, <1>7, <1>8, <1>9, <1>10, <1>11, <1>12, <1>13,
       <1>14, <1>15, <1>16, <1>17, <1>18, <1>19, <1>20, <1>21
    DEF Next, HandlerStep, FinishStep

------------------------------------------------------------------------------
LEMMA ServedStep ==
    ASSUME RowsAreWritten
    PROVE  DevLoopInv /\ SessionAndAgentAreServed /\ [Next]_vars => SessionAndAgentAreServed'
  <1> SUFFICES ASSUME DevLoopInv, SessionAndAgentAreServed, [Next]_vars
               PROVE  SessionAndAgentAreServed'
    OBVIOUS
  <1> USE DevLoopAssumption
      DEF RowsAreWritten, May, DevLoopInv, TypeOK, Made, OwnSession, Early, ServingFwd,
          SessionAndAgentAreServed, DevLoopAssumption
  <1>1. ASSUME NEW r \in Requests, NEW i \in Instances, NEW k \in {"loop", "task"},
               Start(r, i, k)
        PROVE  SessionAndAgentAreServed'
    BY <1>1 DEF Start, HarnessStart, Goto, Loops, forwarder
  <1>2. ASSUME NEW r \in Requests, Inspect(r) PROVE SessionAndAgentAreServed'
    BY <1>2 DEF Inspect, Alive, Goto, forwarder
  <1>3. ASSUME NEW r \in Requests, StopStale(r) PROVE SessionAndAgentAreServed'
    BY <1>3 DEF StopStale, HarnessStop, Goto, forwarder
  <1>4. ASSUME NEW r \in Requests, Retry(r) PROVE SessionAndAgentAreServed'
    BY <1>4 DEF Retry, HarnessStart, Goto, Loops, forwarder
  <1>5. ASSUME NEW r \in Requests, Attach(r) PROVE SessionAndAgentAreServed'
    BY <1>5 DEF Attach, Goto
  <1>6. ASSUME NEW r \in Requests, StopUnattached(r) PROVE SessionAndAgentAreServed'
    BY <1>6 DEF StopUnattached, HarnessStop, Goto, forwarder
  <1>7. ASSUME NEW r \in Requests, OpenSession(r) PROVE SessionAndAgentAreServed'
    BY <1>7 DEF OpenSession, Goto, forwarder
  <1>8. ASSUME NEW r \in Requests, BeginTask(r) PROVE SessionAndAgentAreServed'
    BY <1>8 DEF BeginTask, StartWorking, Goto, forwarder
  <1>9. ASSUME NEW r \in Requests, Forward(r) PROVE SessionAndAgentAreServed'
    BY <1>9 DEF Forward, Goto
  <1>10. ASSUME NEW r \in Requests, Abandon(r) PROVE SessionAndAgentAreServed'
    BY <1>10 DEF Abandon, FinishWorking, Goto, forwarder
  <1>11. ASSUME NEW r \in Requests, CloseAbandoned(r) PROVE SessionAndAgentAreServed'
    BY <1>11 DEF CloseAbandoned, CloseSession, Goto, forwarder
  <1>12. ASSUME NEW r \in Requests, Register(r) PROVE SessionAndAgentAreServed'
    BY <1>12 DEF Register, Goto, forwarder
  <1>13. ASSUME NEW r \in Requests, DropRequest(r) PROVE SessionAndAgentAreServed'
    BY <1>13 DEF DropRequest, Goto, forwarder
  <1>14. ASSUME NEW r \in Requests, TaskStarted(r) PROVE SessionAndAgentAreServed'
    BY <1>14 DEF TaskStarted, StartWorking, handler, forwarder
  <1>15. ASSUME NEW r \in Requests, ClearEntry(r) PROVE SessionAndAgentAreServed'
    BY <1>15 DEF ClearEntry, handler
  <1>16. ASSUME NEW r \in Requests, FinishAgent(r) PROVE SessionAndAgentAreServed'
    BY <1>16 DEF FinishAgent, FinishWorking, handler
  <1>17. ASSUME NEW r \in Requests, LoopFinished(r) PROVE SessionAndAgentAreServed'
    BY <1>17 DEF LoopFinished, CloseSession, handler
  <1>18. CASE Crash
    BY <1>18 DEF Crash
  <1>19. ASSUME NEW r \in Requests,
               \/ TaskFailed(r) \/ AutomatonEnds(r) \/ StreamEnds(r) \/ PauseOne(r)
        PROVE  SessionAndAgentAreServed'
    BY <1>19
    DEF TaskFailed, AutomatonEnds, StreamEnds, PauseOne, handler, forwarder
  <1>20. ASSUME NEW T \in Selections, Pause(T) \/ Stop(T)
        PROVE  SessionAndAgentAreServed'
    BY <1>20
    DEF Pause, Stop, handler, forwarder
  <1>21. ASSUME NEW i \in Instances, StopOne(i)
        PROVE  SessionAndAgentAreServed'
    BY <1>21
    DEF StopOne, handler, forwarder
  <1>22. CASE UNCHANGED vars BY <1>22 DEF vars
  <1> QED
    BY <1>1, <1>2, <1>3, <1>4, <1>5, <1>6, <1>7, <1>8, <1>9, <1>10, <1>11, <1>12, <1>13,
       <1>14, <1>15, <1>16, <1>17, <1>18, <1>19, <1>20, <1>21, <1>22
    DEF Next, HandlerStep, FinishStep

LEMMA StreamsEndLastStep ==
    ASSUME AutomataAreReached
    PROVE  DevLoopInv /\ StreamsEndLast /\ [Next]_vars => StreamsEndLast'
  <1> SUFFICES ASSUME DevLoopInv /\ StreamsEndLast, [Next]_vars PROVE StreamsEndLast' OBVIOUS
  <1> USE DevLoopAssumption
      DEF AutomataAreReached, May, DevLoopInv, TypeOK, OwnAutomaton, Early, StreamsEndLast,
          DevLoopAssumption
  <1>1. ASSUME NEW r \in Requests, NEW i \in Instances, NEW k \in {"loop", "task"},
               Start(r, i, k)
        PROVE  StreamsEndLast'
    <2> SUFFICES ASSUME NEW v \in Requests, stream'[v] = "ended" PROVE autom'[aut'[v]] = "ended"
      OBVIOUS
    <2>1. v # r /\ stream' = stream BY <1>1 DEF Start, forwarder
    <2>2. aut'[v] = aut[v] /\ aut[v] # r BY <1>1, <2>1 DEF Start, HarnessStart
    <2> QED BY <1>1, <2>1, <2>2 DEF Start, HarnessStart
  <1>2. ASSUME NEW r \in Requests, StopStale(r) PROVE StreamsEndLast'
    <2> SUFFICES ASSUME NEW v \in Requests, stream'[v] = "ended" PROVE autom'[aut'[v]] = "ended"
      OBVIOUS
    <2>1. UNCHANGED <<stream, aut>> BY <1>2 DEF StopStale, forwarder
    <2> QED BY <1>2, <2>1 DEF StopStale, HarnessStop
  <1>3. ASSUME NEW r \in Requests, Retry(r) PROVE StreamsEndLast'
    <2> SUFFICES ASSUME NEW v \in Requests, stream'[v] = "ended" PROVE autom'[aut'[v]] = "ended"
      OBVIOUS
    <2>1. v # r /\ stream' = stream BY <1>3 DEF Retry, forwarder
    <2>2. aut'[v] = aut[v] /\ aut[v] # r BY <1>3, <2>1 DEF Retry, HarnessStart
    <2> QED BY <1>3, <2>1, <2>2 DEF Retry, HarnessStart
  <1>4. ASSUME NEW r \in Requests, Attach(r) PROVE StreamsEndLast'
    BY <1>4 DEF Attach, Goto
  <1>5. ASSUME NEW r \in Requests, StopUnattached(r) PROVE StreamsEndLast'
    <2> SUFFICES ASSUME NEW v \in Requests, stream'[v] = "ended" PROVE autom'[aut'[v]] = "ended"
      OBVIOUS
    <2>1. UNCHANGED <<stream, aut>> BY <1>5 DEF StopUnattached, forwarder
    <2> QED BY <1>5, <2>1 DEF StopUnattached, HarnessStop
  <1>6. ASSUME NEW r \in Requests, AutomatonEnds(r) PROVE StreamsEndLast'
    BY <1>6 DEF AutomatonEnds, handler, forwarder
  <1>7. ASSUME NEW r \in Requests, StreamEnds(r) PROVE StreamsEndLast'
    BY <1>7 DEF StreamEnds, handler
  <1>8. ASSUME NEW r \in Requests, PauseOne(r) PROVE StreamsEndLast'
    <2> SUFFICES ASSUME NEW v \in Requests, stream'[v] = "ended" PROVE autom'[aut'[v]] = "ended"
      OBVIOUS
    <2>1. UNCHANGED <<stream, aut>> BY <1>8 DEF PauseOne, handler, forwarder
    <2> QED BY <1>8, <2>1 DEF PauseOne
  <1>9. ASSUME NEW i \in Instances, StopOne(i) PROVE StreamsEndLast'
    <2> SUFFICES ASSUME NEW v \in Requests, stream'[v] = "ended" PROVE autom'[aut'[v]] = "ended"
      OBVIOUS
    <2>1. UNCHANGED <<stream, aut>> BY <1>9 DEF StopOne, handler, forwarder
    <2> QED BY <1>9, <2>1 DEF StopOne, HarnessStop
  <1>10. ASSUME NEW r \in Requests,
               \/ Inspect(r) \/ OpenSession(r) \/ BeginTask(r) \/ Forward(r) \/ Abandon(r)
               \/ CloseAbandoned(r) \/ Register(r) \/ DropRequest(r) \/ TaskStarted(r)
               \/ TaskFailed(r) \/ ClearEntry(r) \/ FinishAgent(r) \/ LoopFinished(r)
        PROVE  StreamsEndLast'
    BY <1>10
    DEF Inspect, OpenSession, BeginTask, Forward, Abandon, CloseAbandoned, Register,
        DropRequest, TaskStarted, TaskFailed, ClearEntry, FinishAgent, LoopFinished, handler,
        forwarder
  <1>11. ASSUME NEW T \in Selections, Pause(T) \/ Stop(T)
        PROVE  StreamsEndLast'
    BY <1>11
    DEF Pause, Stop, handler, forwarder
  <1>12. CASE Crash BY <1>12 DEF Crash
  <1>13. CASE UNCHANGED vars BY <1>13 DEF vars
  <1> QED
    BY <1>1, <1>2, <1>3, <1>4, <1>5, <1>6, <1>7, <1>8, <1>9, <1>10, <1>11, <1>12, <1>13
    DEF Next, HandlerStep, FinishStep

LEMMA FollowedStep ==
    ASSUME AutomataAreReached
    PROVE  DevLoopInv /\ FollowInv /\ [Next]_vars => Followed'
  <1> SUFFICES ASSUME DevLoopInv /\ FollowInv, [Next]_vars PROVE Followed' OBVIOUS
  <1> USE DevLoopAssumption
      DEF AutomataAreReached, May, DevLoopInv, TypeOK, OwnAutomaton, Early, FollowInv,
          StreamsEndLast, Followed, Alive, DevLoopAssumption
  <1>1. ASSUME NEW r \in Requests, NEW i \in Instances, NEW k \in {"loop", "task"},
               Start(r, i, k)
        PROVE  Followed'
    BY <1>1 DEF Start, HarnessStart, Goto, Loops, forwarder
  <1>2. ASSUME NEW r \in Requests, Inspect(r) PROVE Followed'
    BY <1>2 DEF Inspect, Alive, Goto, forwarder
  <1>3. ASSUME NEW r \in Requests, StopStale(r) PROVE Followed'
    BY <1>3 DEF StopStale, HarnessStop, Goto, forwarder
  <1>4. ASSUME NEW r \in Requests, Retry(r) PROVE Followed'
    BY <1>4 DEF Retry, HarnessStart, Goto, Loops, forwarder
  <1>5. ASSUME NEW r \in Requests, Attach(r) PROVE Followed'
    BY <1>5 DEF Attach, Goto
  <1>6. ASSUME NEW r \in Requests, StopUnattached(r) PROVE Followed'
    BY <1>6 DEF StopUnattached, HarnessStop, Goto, forwarder
  <1>7. ASSUME NEW r \in Requests, OpenSession(r) PROVE Followed'
    BY <1>7 DEF OpenSession, Goto, forwarder
  <1>8. ASSUME NEW r \in Requests, BeginTask(r) PROVE Followed'
    BY <1>8 DEF BeginTask, StartWorking, Goto, forwarder
  <1>9. ASSUME NEW r \in Requests, Forward(r) PROVE Followed'
    BY <1>9 DEF Forward, Goto
  <1>10. ASSUME NEW r \in Requests, Abandon(r) PROVE Followed'
    BY <1>10 DEF Abandon, FinishWorking, Goto, forwarder
  <1>11. ASSUME NEW r \in Requests, CloseAbandoned(r) PROVE Followed'
    BY <1>11 DEF CloseAbandoned, CloseSession, Goto, forwarder
  <1>12. ASSUME NEW r \in Requests, Register(r) PROVE Followed'
    BY <1>12 DEF Register, Goto, forwarder
  <1>13. ASSUME NEW r \in Requests, DropRequest(r) PROVE Followed'
    BY <1>13 DEF DropRequest, Goto, forwarder
  <1>14. ASSUME NEW r \in Requests, ClearEntry(r) PROVE Followed'
    BY <1>14 DEF ClearEntry, handler
  <1>15. ASSUME NEW r \in Requests, FinishAgent(r) PROVE Followed'
    BY <1>15 DEF FinishAgent, FinishWorking, handler
  <1>16. ASSUME NEW r \in Requests, LoopFinished(r) PROVE Followed'
    BY <1>16 DEF LoopFinished, CloseSession, handler
  <1>17. ASSUME NEW r \in Requests, AutomatonEnds(r) PROVE Followed'
    BY <1>17 DEF AutomatonEnds, handler, forwarder
  <1>18. ASSUME NEW r \in Requests, StreamEnds(r) PROVE Followed'
    BY <1>18 DEF StreamEnds, handler
  <1>19. ASSUME NEW r \in Requests, PauseOne(r) PROVE Followed'
    BY <1>19 DEF PauseOne, handler, forwarder
  <1>20. ASSUME NEW i \in Instances, StopOne(i) PROVE Followed'
    BY <1>20 DEF StopOne, HarnessStop, handler, forwarder
  <1>21. CASE Crash
    BY <1>21 DEF Crash
  <1>22. ASSUME NEW r \in Requests, TaskStarted(r) \/ TaskFailed(r)
        PROVE  Followed'
    BY <1>22
    DEF TaskStarted, TaskFailed, handler, forwarder
  <1>23. ASSUME NEW T \in Selections, Pause(T) \/ Stop(T)
        PROVE  Followed'
    BY <1>23
    DEF Pause, Stop, handler, forwarder
  <1>24. CASE UNCHANGED vars BY <1>24 DEF vars
  <1> QED
    BY <1>1, <1>2, <1>3, <1>4, <1>5, <1>6, <1>7, <1>8, <1>9, <1>10, <1>11, <1>12, <1>13,
       <1>14, <1>15, <1>16, <1>17, <1>18, <1>19, <1>20, <1>21, <1>22, <1>23, <1>24
    DEF Next, HandlerStep, FinishStep

------------------------------------------------------------------------------
LEMMA DevLoopInit == Init => DevLoopInv /\ SessionAndAgentAreServed /\ FollowInv
  <1> SUFFICES ASSUME Init PROVE DevLoopInv /\ SessionAndAgentAreServed /\ FollowInv OBVIOUS
  <1> USE DevLoopAssumption DEF Init, DevLoopAssumption
  <1>1. TypeOK BY DEF TypeOK
  <1>2. Made /\ OwnAutomaton /\ OwnSession BY DEF Made, OwnAutomaton, OwnSession
  <1>3. SessionAndAgentAreServed BY DEF SessionAndAgentAreServed
  <1>4. FollowInv BY DEF FollowInv, StreamsEndLast, Followed, Alive
  <1> QED BY <1>1, <1>2, <1>3, <1>4 DEF DevLoopInv

\* The inductive invariant, whatever fails: an automaton and a session are named by the
\* request that started or created them, and nobody names one that was not.
THEOREM DevLoopInvHolds == Spec => []DevLoopInv
  <1>1. Init => DevLoopInv BY DevLoopInit
  <1>2. DevLoopInv /\ [Next]_vars => DevLoopInv'
    BY TypeStep, MadeStep, OwnAutomatonStep, OwnSessionStep DEF DevLoopInv
  <1> QED BY <1>1, <1>2, PTL DEF Spec

\* The variables hold values of their types.
THEOREM DevLoopTypes == Spec => []TypeOK
  <1>1. DevLoopInv => TypeOK BY DEF DevLoopInv
  <1> QED BY <1>1, DevLoopInvHolds, PTL

\* When rows can be written and the server goes on, a session that is stored as active
\* and an agent that is stored as working have somebody who will end it, also when
\* streams break, sessions cannot be created and the harness does not obey (dev_loop.rs,
\* forward_automaton_events and the requests that hand their session to it).
THEOREM SessionsAndAgentsAreServed ==
    ASSUME RowsAreWritten
    PROVE  Spec => []SessionAndAgentAreServed
  <1>1. Init => SessionAndAgentAreServed BY DevLoopInit
  <1>2. DevLoopInv /\ SessionAndAgentAreServed /\ [Next]_vars => SessionAndAgentAreServed'
    BY ServedStep
  <1> QED BY <1>1, <1>2, DevLoopInvHolds, PTL DEF Spec

\* When the harness can be reached and the server goes on, a dev loop that runs after
\* its start was answered or refused is followed by the forwarder of the request that
\* started it, however many adopted it (dev_loop.rs, start_loop).
THEOREM RunningLoopsAreFollowed ==
    ASSUME AutomataAreReached
    PROVE  Spec => []RunningLoopIsFollowed
  <1>1. Init => FollowInv BY DevLoopInit
  <1>2. DevLoopInv /\ FollowInv /\ [Next]_vars => FollowInv'
    BY StreamsEndLastStep, FollowedStep DEF FollowInv
  <1>3. DevLoopInv /\ FollowInv => RunningLoopIsFollowed
    BY DEF DevLoopInv, OwnAutomaton, FollowInv, Followed, RunningLoopIsFollowed, Alive
  <1> QED BY <1>1, <1>2, <1>3, DevLoopInvHolds, PTL DEF Spec

------------------------------------------------------------------------------
(* The lock of the registry, whatever fails.                                   *)

\* Nobody writes an entry that a stop request has still to remove.
LEMMA SelectionStep ==
    ASSUME DevLoopInv, [Next]_vars, NEW i \in stopping \cap stopping'
    PROVE  registry'[i] = registry[i]
  <1>1. ASSUME NEW r \in Requests, Register(r) \/ ClearEntry(r) PROVE FALSE
    BY <1>1 DEF Register, ClearEntry
  <1>2. ASSUME NEW j \in Instances, StopOne(j) PROVE registry'[i] = registry[i]
    BY <1>2 DEF StopOne, DevLoopInv, TypeOK
  <1>3. CASE Crash BY <1>3 DEF Crash
  <1>4. ASSUME NEW r \in Requests, NEW j \in Instances, NEW k \in {"loop", "task"},
               Start(r, j, k)
        PROVE  registry' = registry
    BY <1>4 DEF Start
  <1>5. ASSUME NEW r \in Requests,
               \/ Inspect(r) \/ StopStale(r) \/ Retry(r) \/ Attach(r) \/ StopUnattached(r)
               \/ OpenSession(r) \/ BeginTask(r) \/ Forward(r) \/ Abandon(r)
               \/ CloseAbandoned(r) \/ DropRequest(r) \/ TaskStarted(r) \/ TaskFailed(r)
               \/ FinishAgent(r) \/ LoopFinished(r) \/ AutomatonEnds(r) \/ StreamEnds(r)
               \/ PauseOne(r)
        PROVE  registry' = registry
    BY <1>5
    DEF Inspect, StopStale, Retry, Attach, StopUnattached, OpenSession, BeginTask,
        Forward, Abandon, CloseAbandoned, DropRequest, TaskStarted, TaskFailed,
        FinishAgent, LoopFinished, AutomatonEnds, StreamEnds, PauseOne
  <1>6. ASSUME NEW T \in Selections, Pause(T) \/ Stop(T) PROVE registry' = registry
    BY <1>6 DEF Pause, Stop
  <1>7. CASE UNCHANGED vars BY <1>7 DEF vars
  <1> QED
    BY <1>1, <1>2, <1>3, <1>4, <1>5, <1>6, <1>7 DEF Next, HandlerStep, FinishStep

\* Whatever fails, a stop request removes from the registry exactly the entries it
\* selected: nobody replaces or clears one in between (dev_loop.rs, stop_loop).
THEOREM StopsKeepTheirSelection == Spec => StopRemovesWhatItSelected
  <1>1. DevLoopInv /\ [Next]_vars =>
          [\A i \in stopping \cap stopping' : registry'[i] = registry[i]]_vars
    BY SelectionStep
  <1> QED BY <1>1, DevLoopInvHolds, PTL DEF Spec, StopRemovesWhatItSelected

\* What a stop request that holds the lock has still to stop is an automaton that was
\* started: the request always finds what it selected, stops it and goes on.
StopsHaveTargets ==
    \A i \in stopping : registry[i] \in Requests /\ autom[registry[i]] # "none"

LEMMA TargetsStep == DevLoopInv /\ StopsHaveTargets /\ [Next]_vars => StopsHaveTargets'
  <1> SUFFICES ASSUME DevLoopInv, DevLoopInv', StopsHaveTargets, [Next]_vars,
                      NEW i \in stopping'
               PROVE  registry'[i] \in Requests /\ autom'[registry'[i]] # "none"
    BY TypeStep, MadeStep, OwnAutomatonStep, OwnSessionStep DEF DevLoopInv, StopsHaveTargets
  <1>1. i \in Instances BY DEF DevLoopInv, TypeOK
  <1>2. registry'[i] # None
    <2>1. CASE i \in stopping
      BY <2>1, SelectionStep, DevLoopAssumption DEF StopsHaveTargets, DevLoopAssumption
    <2>2. CASE i \notin stopping
      <3>1. PICK T \in Selections : Stop(T)
        BY <2>2
        DEF Next, Start, HandlerStep, Inspect, StopStale, Retry, Attach, StopUnattached,
            OpenSession, BeginTask, Forward, Abandon, CloseAbandoned, Register, DropRequest,
            TaskStarted, TaskFailed, FinishStep, ClearEntry, FinishAgent, LoopFinished,
            AutomatonEnds, StreamEnds, PauseOne, Pause, StopOne, Crash, vars
      <3> QED BY <3>1 DEF Stop, Registered
    <2> QED BY <2>1, <2>2
  <1> QED BY <1>1, <1>2 DEF DevLoopInv, TypeOK, OwnAutomaton

\* Who holds the lock of the registry over calls to the harness can always go on to
\* release it (dev_loop.rs, stop_loop): entry by entry, the automaton is there to stop.
\* The clean-up of forwarders, which waits for the lock, rests on this.
THEOREM LockIsReleasedInSteps == Spec => []StopsHaveTargets
  <1>1. Init => StopsHaveTargets BY DEF Init, StopsHaveTargets
  <1> QED BY <1>1, TargetsStep, DevLoopInvHolds, PTL DEF Spec
=============================================================================
