----------------------------- MODULE MCStreams ------------------------------
(***************************************************************************)
(* Five parts of the server that share no state with each other, checked in*)
(* one run: in each behaviour one of them moves and the others stay still. *)
(***************************************************************************)
EXTENDS LoopEvents, UsageRecords, ExternalTurns, CronJobs, Terminals

CONSTANTS i, j, s, t, f, g

VARIABLE part  \* the part that moves

allVars == <<loopVars, usageVars, turnVars, cronVars, terminalVars, part>>

MoveLoop(A) ==
    /\ part = "loop" /\ A
    /\ UNCHANGED <<usageVars, turnVars, cronVars, terminalVars, part>>
MoveUsage ==
    /\ part = "usage" /\ UsageNext
    /\ UNCHANGED <<loopVars, turnVars, cronVars, terminalVars, part>>
MoveTurn(A) ==
    /\ part = "turn" /\ A
    /\ UNCHANGED <<loopVars, usageVars, cronVars, terminalVars, part>>
MoveCron(A) ==
    /\ part = "cron" /\ A
    /\ UNCHANGED <<loopVars, usageVars, turnVars, terminalVars, part>>
MoveTerminal(A) ==
    /\ part = "terminal" /\ A
    /\ UNCHANGED <<loopVars, usageVars, turnVars, cronVars, part>>

\* A part that stays still starts in one way only.
Init ==
    /\ part \in {"loop", "usage", "turn", "cron", "terminal"}
    /\ LoopInit
    /\ UsageInit
    /\ part = "usage" \/ style = "tokens"
    /\ TurnInit
    /\ part = "turn" \/ (way = "codex" /\ prompt)
    /\ CronInit
    /\ TerminalInit

Next ==
    \/ MoveLoop(LoopNext)
    \/ MoveUsage
    \/ MoveTurn(TurnNext)
    \/ MoveCron(CronNext)
    \/ MoveTerminal(TerminalNext)

(* Forwarders take their events, tasks, threads and turns go on, time passes,*)
(* the scheduler ticks, and a client takes what its socket sends; nothing    *)
(* obliges the automata, the shell or the program.                           *)
FairSpec ==
    /\ Init /\ [][Next]_allVars
    /\ \A l \in Loops : WF_allVars(MoveLoop(Subscribe(l)))
    /\ \A l \in Loops : WF_allVars(MoveLoop(Forward(l)))
    /\ WF_allVars(MoveTurn(TurnStep))
    /\ WF_allVars(MoveCron(WaitForNext))
    /\ WF_allVars(MoveCron(SpawnDueJob))
    /\ \A w \in Workers : WF_allVars(MoveCron(Proceed(w)))
    /\ WF_allVars(MoveTerminal(ReadChunk))
    /\ WF_allVars(MoveTerminal(SendChunk))
    /\ WF_allVars(MoveTerminal(ReadEnd))
    /\ \A w \in Sockets : WF_allVars(MoveTerminal(Serve(w)))
=============================================================================
