---------------------------- MODULE ExternalTurns ----------------------------
(***************************************************************************)
(* One chat turn of an agent that runs as a command line program (Codex,    *)
(* Claude Code, ...) instead of in the harness: handlers/agents/runtime.rs  *)
(* with the task of agents/chat.rs that stores the turn.  In a project the  *)
(* program's lines are streamed to the client as they come; elsewhere the   *)
(* client gets its answer when the program has ended.                       *)
(***************************************************************************)
EXTENDS Naturals, Sequences, FiniteSets

CONSTANTS
    Tools,    \* the tool calls the program may make
    NoTool,
    MaxLines, \* bound: lines the program prints
    Backlog   \* capacity of the channel of events

ASSUME TurnAssumption == NoTool \notin Tools /\ MaxLines \in Nat /\ Backlog \in Nat

VARIABLES
    way,     \* how the program is run
    step,    \* where the turn stands
    program, \* the process
    child,   \* what a process that the program has started holds open
    closed,  \* the program has closed its output
    prompt,  \* the program has taken its prompt, or the pipe has all of it
    pipe,    \* lines printed and not yet read
    passed,  \* how many lines have been passed over
    config,  \* the program's file with the tools of the project exists
    said,    \* the events of the turn, in order
    rec,     \* the task that stores the turn
    tape,    \* what that task has heard so far
    told     \* what the client's stream or answer ended with

turnVars == <<way, step, program, child, closed, prompt, pipe, passed, config, said,
              rec, tape, told>>
outputVars == <<pipe, passed>>
programVars == <<program, child, closed, prompt>>

\* codex and claude in a project; elsewhere the prompt goes through a pipe
\* ("piped", Codex and Claude) or is an argument ("plain", the others).
Streamed == {"codex", "claude"}

TextLine == <<"text", NoTool>>
Use(c) == <<"use", c>>
Result(c) == <<"result", c>>

BlankTape == [heard |-> 0, texts |-> 0, segment |-> FALSE, blocks |-> <<>>,
              last |-> NoTool]

TurnInit ==
    /\ way \in {"codex", "claude", "piped", "plain"}
    /\ step = "new" /\ program = "none" /\ child = "nothing"
    /\ closed = FALSE /\ prompt \in BOOLEAN
    /\ pipe = <<>> /\ passed = 0 /\ config = FALSE /\ said = <<>>
    /\ rec = "off" /\ tape = BlankTape /\ told = "nothing"

------------------------------------------------------------------------------
(* The program                                                               *)

\* What it may print next: text, a call of a tool, the result of one, (not Codex)
\* that the turn has failed, or a line that nobody is told of: a thought, a call
\* of a tool that is not the workspace's, what is no JSON.
Other == <<"other", NoTool>>
Printed == said \o pipe
Called(c) == \E i \in DOMAIN Printed : Printed[i] = Use(c)
Answered(c) == \E i \in DOMAIN Printed : Printed[i] = Result(c)
Lines ==
    {TextLine, Other} \cup {Use(c) : c \in {d \in Tools : ~Called(d)}}
           \cup {Result(c) : c \in {d \in Tools : Called(d) /\ ~Answered(d)}}
           \cup (IF way # "codex" THEN {<<"bad", NoTool>>} ELSE {})

PrintLine ==
    /\ program = "running" /\ ~closed /\ Len(Printed) + passed < MaxLines
    /\ \E l \in Lines : pipe' = Append(pipe, l)
    /\ UNCHANGED <<way, step, programVars, passed, config, said, rec, tape,
                   told>>

TakePrompt ==
    /\ program = "running" /\ ~prompt /\ prompt' = TRUE
    /\ UNCHANGED <<way, step, program, child, closed, outputVars, config, said,
                   rec, tape, told>>

\* It starts a process of its own, which inherits its outputs; or closes its
\* output; or ends.
Fork ==
    /\ program = "running" /\ child = "nothing" /\ child' \in {"errors", "both"}
    /\ UNCHANGED <<way, step, program, closed, prompt, outputVars, config,
                   said, rec, tape, told>>

CloseOutput ==
    /\ program = "running" /\ ~closed /\ closed' = TRUE
    /\ UNCHANGED <<way, step, program, child, prompt, outputVars, config, said,
                   rec, tape, told>>

Exit ==
    /\ program = "running" /\ program' \in {"ok", "failed"} /\ closed' = TRUE
    /\ UNCHANGED <<way, step, child, prompt, outputVars, config, said, rec,
                   tape, told>>

ChildEnds ==
    /\ child # "nothing" /\ child' = "nothing"
    /\ UNCHANGED <<way, step, program, closed, prompt, outputVars, config,
                   said, rec, tape, told>>

Exited == program \in {"ok", "failed"}
EndOfOutput == closed /\ child # "both" /\ pipe = <<>>

------------------------------------------------------------------------------
(* The turn                                                                  *)

\* emit_harness_event
Emit(e) == said' = Append(said, e)

\* The turn ends: a stream gets a last event, a request its answer.
End(how) ==
    /\ step' = "ended" /\ told' = how
    /\ IF way \in Streamed THEN Emit(<<how, NoTool>>) ELSE UNCHANGED said

\* send_external_agent_event_stream and its like for projects: something is
\* missing, or the turn begins, stored or not.
Refuse ==
    /\ step = "new" /\ step' = "refused"
    /\ UNCHANGED <<way, programVars, outputVars, config, said, rec, tape, told>>

Begin ==
    /\ step = "new" /\ step' = "starting"
    /\ IF way \in Streamed THEN rec' \in {"off", "on"} /\ Emit(<<"start", NoTool>>)
                           ELSE UNCHANGED <<rec, said>>
    /\ UNCHANGED <<way, programVars, outputVars, config, tape, told>>

\* write_claude_mcp_config_file; a file that is not written ends the turn.
WriteConfig ==
    /\ step = "starting" /\ way = "claude" /\ ~config
    /\ \/ config' = TRUE /\ UNCHANGED <<step, said, told>>
       \/ End("error") /\ UNCHANGED config
    /\ UNCHANGED <<way, programVars, outputVars, rec, tape>>

\* The program is started; or the integration does not suit it, or it cannot be
\* started, and then Claude's file is removed.
Spawn ==
    /\ step = "starting" /\ (way = "claude" => config)
    /\ \/ /\ program' = "running"
          /\ step' = IF way \in {"codex", "piped"} THEN "writing" ELSE "reading"
          /\ prompt' = (way \in {"claude", "plain"} \/ prompt)
          /\ UNCHANGED <<config, said, told>>
       \/ /\ End("error") /\ config' \in {config, FALSE}
          /\ UNCHANGED <<program, prompt>>
    /\ UNCHANGED <<way, child, closed, outputVars, rec, tape>>

\* stdin.write_all: no time limit.  It fails when nobody is left to read.
WritePrompt ==
    /\ step = "writing"
    /\ \/ prompt /\ step' = "reading" /\ UNCHANGED <<said, told>>
       \/ ~prompt /\ Exited /\ End("error")
    /\ UNCHANGED <<way, programVars, outputVars, config, rec, tape>>

\* The lines that become events.
Told(l) == l[1] \in {"text", "use", "result"}

\* The loop of stream_codex_project_turn and stream_claude_project_turn.
ReadLine ==
    /\ step = "reading" /\ way \in Streamed /\ pipe # <<>>
    /\ pipe' = Tail(pipe)
    /\ \/ Head(pipe)[1] = "bad" /\ End("error") /\ UNCHANGED passed
       \/ Told(Head(pipe)) /\ Emit(Head(pipe)) /\ UNCHANGED <<passed, step,
                                                              told>>
       \/ Head(pipe) = Other /\ passed' = passed + 1 /\ UNCHANGED <<said, step,
                                                                    told>>
    /\ UNCHANGED <<way, programVars, config, rec, tape>>

ReadLast ==
    /\ step = "reading" /\ way \in Streamed
    /\ \/ EndOfOutput /\ step' = "waiting" /\ UNCHANGED <<said, told>>
       \/ pipe = <<>> /\ ~EndOfOutput /\ End("error")   \* 120 seconds
    /\ UNCHANGED <<way, programVars, outputVars, config, rec, tape>>

\* Mutant: the wait for the exit has no limit.
WaitForExit ==
    /\ step = "waiting"
    /\ Exited /\ step' = "draining" /\ config' = FALSE
    /\ UNCHANGED <<way, programVars, outputVars, said, rec, tape, told>>

Wait ==
    /\ step = "waiting"
    /\ \/ Exited /\ step' = "draining" /\ config' = FALSE /\ UNCHANGED <<said,
                                                                         told>>
       \/ ~Exited /\ End("error") /\ UNCHANGED config   \* 5 seconds
    /\ UNCHANGED <<way, programVars, outputVars, rec, tape>>

\* stderr_task.await: the end of the program's errors, whoever may hold them.
Drain ==
    /\ step = "draining" /\ child = "nothing"
    /\ End(IF Len(said) > 1 THEN "end" ELSE "error")
    /\ UNCHANGED <<way, programVars, outputVars, config, rec, tape>>

\* parse_claude_output and parse_codex_output take the last text, unless Claude says
\* that the turn has failed; of the others some take all output for want of a text.
Verdicts == SelectSeq(pipe, LAMBDA l : l[1] \in {"text", "bad"})
Answers ==
    \/ way = "piped" /\ Verdicts # <<>> /\ Verdicts[Len(Verdicts)] = TextLine
    \/ way = "plain" /\ pipe # <<>>

\* run_cli_command, run_cli_command_no_stdin: all of it, or 120 seconds.  The
\* answer is stored by a task of its own (persist_external_agent_turn), which
\* may fail.
Finish ==
    /\ step = "reading" /\ way \notin Streamed
    /\ \/ /\ Exited /\ child = "nothing" /\ Answers
          /\ End("end") /\ rec' \in {"off", "stored", "lost"}
          /\ tape' = [tape EXCEPT !.texts = 1]
       \/ End("error") /\ UNCHANGED <<rec, tape>>
    /\ UNCHANGED <<way, programVars, outputVars, config>>

\* The client goes: its request is dropped; a stream's task does not notice.
HangUp ==
    /\ way \notin Streamed /\ step \in {"starting", "writing", "reading"}
    /\ step' = "dropped"
    /\ UNCHANGED <<way, programVars, outputVars, config, said, rec, tape, told>>

------------------------------------------------------------------------------
(* spawn_chat_persist_task                                                   *)

\* The blocks with the text since the last call, which a call or the end closes.
Closed(t) == IF t.segment THEN Append(t.blocks, TextLine) ELSE t.blocks

Hears(t, e) ==
    CASE e[1] = "text" -> [t EXCEPT !.texts = @ + 1, !.segment = TRUE]
      [] e[1] = "use" -> [t EXCEPT !.blocks = Append(Closed(t), e),
                                   !.segment = FALSE, !.last = e[2]]
      [] e[1] = "result" -> [t EXCEPT !.blocks = Append(@, Result(t.last))]
      [] e[1] = "end" -> [t EXCEPT !.blocks = Closed(t)]
      [] OTHER -> t

Behind == Len(said) - tape.heard > Backlog

\* Mutant: what has been missed is passed over.
RecordOn ==
    /\ rec = "on" /\ tape.heard < Len(said)
    /\ LET n == IF Behind THEN Len(said) - Backlog + 1 ELSE tape.heard + 1
       IN  /\ tape' = [Hears(tape, said[n]) EXCEPT !.heard = n]
           /\ rec' \in CASE said[n][1] = "end" -> {"stored", "lost"}
                         [] said[n][1] = "error" -> {"failed"}
                         [] OTHER -> {"on"}
    /\ UNCHANGED <<way, step, programVars, outputVars, config, said, told>>

\* One event of the channel; who has fallen behind gives the turn up.
Record ==
    /\ rec = "on" /\ tape.heard < Len(said)
    /\ IF Behind THEN rec' = "lagged" /\ UNCHANGED tape
       ELSE LET e == said[tape.heard + 1]
            IN  /\ tape' = [Hears(tape, e) EXCEPT !.heard = @ + 1]
                /\ rec' \in CASE e[1] = "end" -> {"stored", "lost"}
                              [] e[1] = "error" -> {"failed"}
                              [] OTHER -> {"on"}
    /\ UNCHANGED <<way, step, programVars, outputVars, config, said, told>>

TurnStep ==
    \/ Refuse \/ Begin \/ WriteConfig \/ Spawn \/ WritePrompt \/ ReadLine
    \/ ReadLast \/ Wait \/ Drain \/ Finish

TurnNext ==
    \/ TurnStep \/ Record \/ HangUp
    \/ PrintLine \/ TakePrompt \/ Fork \/ CloseOutput \/ Exit \/ ChildEnds

TurnSpec == TurnInit /\ [][TurnNext]_turnVars

(* The runtime polls the turn's task, and timers fire; the program and what  *)
(* it has started may do nothing.                                            *)
TurnFairSpec == TurnSpec /\ WF_turnVars(TurnStep)

------------------------------------------------------------------------------
(* Properties                                                                *)

\* Every variable holds values of its type.
TurnTypeOK ==
    /\ way \in {"codex", "claude", "piped", "plain"}
    /\ step \in {"new", "refused", "starting", "writing", "reading", "waiting",
                 "draining", "ended", "dropped"}
    /\ program \in {"none", "running", "ok", "failed"}
    /\ child \in {"nothing", "errors", "both"}
    /\ closed \in BOOLEAN /\ prompt \in BOOLEAN /\ config \in BOOLEAN
    /\ rec \in {"off", "on", "stored", "lost", "failed", "lagged"}
    /\ passed \in 0 .. MaxLines
    /\ told \in {"nothing", "end", "error"} /\ tape.heard \in 0 .. Len(said)

\* Calls were made one at a time: each had its result before the next.
OneByOne ==
    \A i, j \in DOMAIN said :
        i < j /\ said[i][1] = "use" /\ said[j][1] = "use" =>
            \E k \in i .. j : said[k] = Result(said[i][2])

\* Where the events of a kind are, and the ways to go through two such sets in step.
PlacesOf(kind, events) == {i \in DOMAIN events : events[i][1] = kind}
Pairings(P, Q) ==
    {f \in [P -> Q] : /\ \A i, j \in P : i < j => f[i] < f[j]
                      /\ \A k \in Q : \E i \in P : f[i] = k}

\* A reply that is stored as complete is complete: all text, every call and
\* every result in the order they came, and, when calls were made one by one,
\* every result under its own call.
StoredTurnIsWhole ==
    rec = "stored" /\ way \in Streamed =>
        /\ tape.texts = Cardinality(PlacesOf("text", said))
        /\ \E f \in Pairings(PlacesOf("use", said), PlacesOf("use", tape.blocks)) :
              \A i \in DOMAIN f : tape.blocks[f[i]] = said[i]
        /\ \E f \in Pairings(PlacesOf("result", said), PlacesOf("result", tape.blocks)) :
              OneByOne => \A i \in DOMAIN f : tape.blocks[f[i]] = said[i]

\* Whatever the program does, as long as it does not print without end, a turn
\* that has begun ends, unless the program never reads its prompt, or something
\* it has started keeps its errors open after it has gone.
TurnEnds ==
    step = "starting" ~>
        \/ step \in {"ended", "dropped"}
        \/ [](step = "writing" /\ ~prompt)
        \/ [](step = "draining" /\ child # "nothing")
=============================================================================
