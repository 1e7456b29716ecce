------------------------------ MODULE Terminals ------------------------------
(***************************************************************************)
(* One terminal: TerminalManager of crates/aura-os-terminal and the socket  *)
(* that serves it (handlers/terminal.rs), with the thread that reads the    *)
(* shell's output and the two channels between them.                        *)
(***************************************************************************)
EXTENDS Naturals

CONSTANTS
    Sockets,     \* WebSockets that clients open for the terminal
    NoSocket,    \* no socket
    MaxOutput,   \* bound: chunks the shell writes
    ChannelSize  \* of the channel for output

ASSUME TerminalAssumption ==
    /\ NoSocket \notin Sockets /\ MaxOutput \in Nat
    /\ ChannelSize \in Nat \ {0}

VARIABLES
    shell,    \* the shell's process
    heir,     \* a process it has left behind still holds the terminal
    entry,    \* the manager has an entry for the terminal
    free,     \* the entry still has its reader
    socket,   \* socket -> its state
    server,   \* the socket whose loop holds the channels
    thread,   \* read_pty_loop
    exitSent, \* what is in the exit channel
    written,  \* chunks the shell has written
    read,     \* chunks the thread has read
    queued    \* chunks in the channel

terminalVars == <<shell, heir, entry, free, socket, server, thread, exitSent,
                  written, read, queued>>
ttyVars == <<shell, heir, written>>

TerminalInit ==
    /\ shell = "none" /\ heir = FALSE /\ entry = FALSE /\ free = FALSE
    /\ socket = [s \in Sockets |-> "new"] /\ server = NoSocket
    /\ thread = "none" /\ exitSent = FALSE
    /\ written = 0 /\ read = 0 /\ queued = 0

\* spawn
SpawnShell ==
    /\ shell = "none"
    /\ shell' = "up" /\ entry' = TRUE /\ free' = TRUE
    /\ UNCHANGED <<heir, socket, server, thread, exitSent, written, read, queued>>

\* kill: the entry goes, with the reader if nobody took it.
Kill ==
    /\ entry' = FALSE /\ free' = FALSE
    /\ shell' = IF entry THEN "dead" ELSE shell

\* DELETE; a terminal that is gone is fine.
KillTerminal ==
    /\ entry /\ Kill
    /\ UNCHANGED <<heir, socket, server, thread, exitSent, written, read, queued>>

\* The shell, and what it starts.
ShellWrites ==
    /\ shell = "up" \/ heir
    /\ written < MaxOutput /\ written' = written + 1
    /\ UNCHANGED <<shell, heir, entry, free, socket, server, thread, exitSent,
                   read, queued>>

ShellExits ==
    /\ shell = "up" /\ shell' = "dead"
    /\ heir' \in BOOLEAN
    /\ UNCHANGED <<entry, free, socket, server, thread, exitSent, written, read,
                   queued>>

HeirExits ==
    /\ heir /\ heir' = FALSE
    /\ UNCHANGED <<shell, entry, free, socket, server, thread, exitSent, written,
                   read, queued>>

\* handle_terminal_ws: the first socket takes the reader and starts the thread,
\* another one is told that the shell has exited.
Connect(s) ==
    /\ shell # "none" /\ socket[s] = "new"
    /\ IF free THEN /\ socket' = [socket EXCEPT ![s] = "serving"]
                    /\ free' = FALSE /\ server' = s /\ thread' = "reading"
               ELSE /\ socket' = [socket EXCEPT ![s] = "refused"]
                    /\ UNCHANGED <<free, server, thread>>
    /\ UNCHANGED <<ttyVars, entry, exitSent, read, queued>>

\* read_pty_loop: a chunk read is sent to the channel, which may be full, or
\* have no receiver any more; at the end of the output the exit is sent.
ReadChunk ==
    /\ thread = "reading" /\ read < written
    /\ read' = read + 1 /\ thread' = "sending"
    /\ UNCHANGED <<ttyVars, entry, free, socket, server, exitSent, queued>>

SendChunk ==
    /\ thread = "sending"
    /\ \/ /\ server # NoSocket /\ queued < ChannelSize
          /\ queued' = queued + 1 /\ thread' = "reading"
       \/ server = NoSocket /\ thread' = "ended" /\ UNCHANGED queued
    /\ UNCHANGED <<ttyVars, entry, free, socket, server, exitSent, read>>

\* Mutant: a socket that is told to stop leaves the terminal to the client.
CloseOnly(s) ==
    /\ socket' = [socket EXCEPT ![s] = "ended"]
    /\ server' = NoSocket /\ queued' = 0 /\ exitSent' = FALSE
    /\ UNCHANGED <<ttyVars, entry, free, thread, read>>

\* The end of the socket's loop drops the channels and kills the terminal.
Close(s) ==
    /\ socket' = [socket EXCEPT ![s] = "ended"]
    /\ server' = NoSocket /\ queued' = 0 /\ exitSent' = FALSE
    /\ Kill
    /\ UNCHANGED <<heir, written, thread, read>>

ReadEnd ==
    /\ thread = "reading" /\ read = written /\ shell = "dead" /\ ~heir
    /\ thread' = "ended" /\ exitSent' = (server # NoSocket)
    /\ UNCHANGED <<ttyVars, entry, free, socket, server, read, queued>>

\* The loop of a socket takes what is ready, in any order: output, or the exit,
\* whatever output is left in the channel then.
ForwardOutput(s) ==
    /\ server = s /\ queued > 0 /\ queued' = queued - 1
    /\ UNCHANGED <<ttyVars, entry, free, socket, server, thread, exitSent, read>>

ForwardExit(s) == server = s /\ exitSent /\ Close(s)

\* The client closes, output cannot be sent to it, or its input is for a
\* terminal that is gone.
Disconnect(s) == server = s /\ Close(s)

Serve(s) == ForwardOutput(s) \/ ForwardExit(s)

TerminalNext ==
    \/ SpawnShell \/ KillTerminal \/ ShellWrites \/ ShellExits \/ HeirExits
    \/ ReadChunk \/ SendChunk \/ ReadEnd
    \/ \E s \in Sockets :
           Connect(s) \/ Serve(s) \/ Disconnect(s)

TerminalSpec == TerminalInit /\ [][TerminalNext]_terminalVars

------------------------------------------------------------------------------
(* Properties                                                                *)

\* Every variable holds values of its type.
TerminalTypeOK ==
    /\ shell \in {"none", "up", "dead"} /\ heir \in BOOLEAN
    /\ entry \in BOOLEAN /\ free \in BOOLEAN /\ exitSent \in BOOLEAN
    /\ socket \in [Sockets -> {"new", "serving", "ended", "refused"}]
    /\ server \in Sockets \cup {NoSocket}
    /\ thread \in {"none", "reading", "sending", "ended"}
    /\ written \in 0 .. MaxOutput /\ read \in 0 .. MaxOutput
    /\ queued \in 0 .. ChannelSize

\* Once its shell has exited or its socket has closed, a terminal that was
\* served leaves nothing behind: its entry is gone and its thread has ended,
\* however full the channel is.  A process the shell leaves behind may delay it.
ServedTerminalIsReleased ==
    (thread \in {"reading", "sending"} /\ (shell = "dead" \/ server = NoSocket)) ~>
        (heir \/ (~entry /\ thread = "ended"))
=============================================================================
