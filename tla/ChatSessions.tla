---------------------------- MODULE ChatSessions ----------------------------
(***************************************************************************)
(* The chat of one agent: the registry of harness sessions and the requests *)
(* of src/apps/aura-os-server/src/handlers/agents/chat.rs, each of which   *)
(* joins the agent's session or opens one, sends the user's message, and   *)
(* streams and stores the reply.  A session is named after the request that *)
(* opens it.                                                               *)
(***************************************************************************)
EXTENDS Naturals, Sequences

CONSTANTS
    Turns,    \* requests, one user message each
    Models,   \* models a request may ask for
    NoModel,  \* it asks for none
    None,     \* no session, no turn
    MaxCuts   \* bound: connections that break

ASSUME ChatAssumption ==
    /\ NoModel \notin Models /\ None \notin Turns /\ MaxCuts \in Nat

\* What can be said in the chat: <<t, 0>> is t's user message, <<t, 1>> and
\* <<t, 2>> are the two halves of its reply.
Items == Turns \X (0 .. 2)
Reply(t) == {<<t, 1>>, <<t, 2>>}

VARIABLES
    pc,        \* turn -> where its handler stands
    wants,     \* turn -> body.model
    found,     \* turn -> what it found before it opened or joined a session
    hist,      \* turn -> the history it would open a session with
    on,        \* turn -> the session it uses
    sse,       \* turn -> its stream to the client
    saving,    \* turn -> its user message on the way to storage
    rec,       \* turn -> the task that records the reply
    heard,     \* turn -> what that task has received
    reg,       \* the registry's session for this agent
    link,      \* session -> its WebSocket
    inbox,     \* session -> messages sent and not yet answered
    answering, \* session -> the turn being answered
    knows,     \* session -> what the harness remembers
    cuts,      \* connections broken so far
    before,    \* history: turn -> what was stored when the request came
    ahead      \* history: turn -> turns still unanswered when it was sent

reqVars == <<pc, found, hist, on, before, ahead>>
recVars == <<saving, rec, heard>>
sessVars == <<link, inbox, answering, knows>>
vars == <<reqVars, wants, sse, recVars, reg, sessVars, cuts>>

Init ==
    /\ pc = [t \in Turns |-> "new"]
    /\ wants \in [Turns -> Models \cup {NoModel}]
    /\ found = [t \in Turns |-> "unknown"]
    /\ hist = [t \in Turns |-> {}] /\ on = [t \in Turns |-> None]
    /\ sse = [t \in Turns |-> "none"]
    /\ saving = [t \in Turns |-> "off"]
    /\ rec = [t \in Turns |-> "none"] /\ heard = [t \in Turns |-> {}]
    /\ reg = None
    /\ link = [s \in Turns |-> "none"] /\ inbox = [s \in Turns |-> <<>>]
    /\ answering = [s \in Turns |-> None] /\ knows = [s \in Turns |-> {}]
    /\ cuts = 0
    /\ before = [t \in Turns |-> {}] /\ ahead = [t \in Turns |-> {}]

\* The events in storage that make up the history of the chat.
Stored ==
    {<<t, 0>> : t \in {u \in Turns : saving[u] = "stored"}}
    \cup UNION {heard[t] : t \in {u \in Turns : rec[u] = "stored"}}

\* is_alive: the writer of the WebSocket has not ended.
Live(s) == s # None /\ link[s] \in {"up", "cut"}

------------------------------------------------------------------------------
(* A request                                                                 *)

\* resolve_chat_session finds or creates the row to store under, or the chat
\* goes on unsaved; then the handler looks whether the session lives.
Begin(t, alive) ==
    /\ pc[t] = "new"
    /\ saving' \in {saving, [saving EXCEPT ![t] = "ready"]}
    /\ found' = [found EXCEPT ![t] = IF Live(reg) THEN "live" ELSE "none"]
    /\ pc' = [pc EXCEPT ![t] = IF alive THEN "looked" ELSE "loading"]
    /\ before' = [before EXCEPT ![t] = IF Live(reg) THEN @ ELSE Stored]
    /\ UNCHANGED <<hist, on, ahead, wants, sse, rec, heard, reg, sessVars, cuts>>

\* Mutant: an entry of the registry is enough, dead or alive.
LookForEntry(t) == Begin(t, reg # None)

\* has_live_session: a live session needs no history.
Look(t) == Begin(t, Live(reg))

\* The stored events of all sessions of the agent; pages and sessions that
\* cannot be read are left out.  When nothing can be read, the chat of a
\* project's agent fails, that of a plain agent starts blank.
LoadHistory(t) ==
    /\ pc[t] = "loading"
    /\ \E h \in SUBSET Stored :
           /\ hist' = [hist EXCEPT ![t] = h]
           /\ found' = [found EXCEPT ![t] = IF h = Stored THEN @ ELSE "unreadable"]
           /\ \/ pc' = [pc EXCEPT ![t] = "looked"]
              \/ h = {} /\ pc' = [pc EXCEPT ![t] = "failed"]
    /\ UNCHANGED <<on, before, ahead, wants, sse, recVars, reg, sessVars, cuts>>

ModelChanged(t) == wants[t] # NoModel /\ wants[t] # wants[reg]

\* The first critical section of get_or_create_chat_session: join the live
\* session, or give it up for its model, or find none.
Subscribe(t, s) ==
    /\ on' = [on EXCEPT ![t] = s]
    /\ hist' = [hist EXCEPT ![t] = {}]
    /\ sse' = [sse EXCEPT ![t] = "open"]
    /\ pc' = [pc EXCEPT ![t] = "joined"]

Join(t) ==
    /\ pc[t] = "looked" /\ Live(reg) /\ ~ModelChanged(t)
    /\ Subscribe(t, reg)
    /\ UNCHANGED <<found, before, ahead, wants, recVars, reg, sessVars,
                   cuts>>

GiveUp(t) ==
    /\ pc[t] = "looked"
    /\ \/ Live(reg) /\ ModelChanged(t) /\ reg' = None
       \/ ~Live(reg) /\ UNCHANGED reg
    /\ pc' = [pc EXCEPT ![t] = "opening"]
    /\ UNCHANGED <<found, hist, on, before, ahead, wants, sse, recVars,
                   sessVars, cuts>>

\* Outside the lock the harness opens a session; the second critical section
\* puts it into the registry, whatever is there by then.
Open(t) ==
    /\ pc[t] = "opening"
    /\ link' = [link EXCEPT ![t] = "up"]
    /\ knows' = [knows EXCEPT ![t] = hist[t]]
    /\ reg' = t
    /\ Subscribe(t, t)
    /\ UNCHANGED <<found, before, ahead, wants, recVars, inbox, answering,
                   cuts>>

OpenFails(t) ==
    /\ pc[t] = "opening"
    /\ pc' = [pc EXCEPT ![t] = "failed"]
    /\ UNCHANGED <<found, hist, on, before, ahead, wants, sse, recVars, reg,
                   sessVars, cuts>>

Unanswered(s) ==
    {inbox[s][i] : i \in DOMAIN inbox[s]} \cup ({answering[s]} \ {None})

SaveUserMessage(t) ==
    saving' = [saving EXCEPT ![t] = IF @ = "ready" THEN "pending" ELSE @]

\* Mutant: the recorder subscribes when the reply may have begun.
SendThenSubscribe(t) ==
    LET s == on[t] IN
    /\ pc[t] = "joined" /\ link[s] # "closed"
    /\ SaveUserMessage(t)
    /\ ahead' = [ahead EXCEPT ![t] = Unanswered(s)]
    /\ \/ inbox' = [inbox EXCEPT ![s] = Append(@, t)] /\ UNCHANGED answering
       \/ /\ link[s] = "up" /\ Unanswered(s) = {}
          /\ answering' = [answering EXCEPT ![s] = t] /\ UNCHANGED inbox
    /\ rec' = [rec EXCEPT ![t] = IF saving[t] = "ready" THEN "recording" ELSE @]
    /\ pc' = [pc EXCEPT ![t] = "streaming"]
    /\ UNCHANGED <<found, hist, on, before, wants, sse, heard, reg, link, knows,
                   cuts>>

\* open_harness_chat_stream: the recorder subscribes, the user's message is
\* stored in the background, and goes to the writer of the WebSocket.
Send(t) ==
    LET s == on[t] IN
    /\ pc[t] = "joined" /\ link[s] # "closed"
    /\ SaveUserMessage(t)
    /\ ahead' = [ahead EXCEPT ![t] = Unanswered(s)]
    /\ inbox' = [inbox EXCEPT ![s] = Append(@, t)]
    /\ rec' = [rec EXCEPT ![t] = IF saving[t] = "ready" THEN "recording" ELSE @]
    /\ pc' = [pc EXCEPT ![t] = "streaming"]
    /\ UNCHANGED <<found, hist, on, before, wants, sse, heard, reg, link,
                   answering, knows, cuts>>

\* The writer has ended: an error, but the user's message is stored.
SendFails(t) ==
    /\ pc[t] = "joined" /\ link[on[t]] = "closed"
    /\ SaveUserMessage(t)
    /\ pc' = [pc EXCEPT ![t] = "failed"]
    /\ sse' = [sse EXCEPT ![t] = "none"]
    /\ UNCHANGED <<found, hist, on, before, ahead, wants, rec, heard, reg,
                   sessVars, cuts>>

\* persist_user_message, in a task of its own.  A write that fails is logged and
\* forgotten, like one that never comes: no fairness is assumed of it.
StoreUserMessage(t) ==
    /\ saving[t] = "pending"
    /\ saving' = [saving EXCEPT ![t] = "stored"]
    /\ UNCHANGED <<reqVars, wants, sse, rec, heard, reg, sessVars, cuts>>

\* spawn_chat_persist_task writes assistant_message_end.
StoreReply(t) ==
    /\ rec[t] = "writing"
    /\ rec' = [rec EXCEPT ![t] = "stored"]
    /\ UNCHANGED <<reqVars, wants, sse, saving, heard, reg, sessVars, cuts>>

\* A broadcast closes when its reader has ended and the registry does not hold
\* its sender.
Closed(s) == link[s] \in {"cut", "closed"} /\ reg # s

StreamCloses(t) ==
    /\ pc[t] = "streaming" /\ sse[t] = "open" /\ Closed(on[t])
    /\ sse' = [sse EXCEPT ![t] = "cut"]
    /\ UNCHANGED <<reqVars, wants, recVars, reg, sessVars, cuts>>

\* The recorder also stops when it lags behind.
RecorderStops(t) ==
    /\ rec[t] = "recording" /\ (Closed(on[t]) \/ heard[t] # {})
    /\ rec' = [rec EXCEPT ![t] = "lost"]
    /\ heard' = [heard EXCEPT ![t] = {}]
    /\ UNCHANGED <<reqVars, wants, sse, saving, reg, sessVars, cuts>>

------------------------------------------------------------------------------
(* A session, in the harness and at its WebSocket                            *)

Recorders(s) == {t \in Turns : rec[t] = "recording" /\ on[t] = s}

\* Every recorder of the session hears every event of it.
Hear(s, i) ==
    heard' = [t \in Turns |-> IF t \in Recorders(s) THEN heard[t] \cup {i}
                                                    ELSE heard[t]]

\* A terminal event ends all streams of the session; what becomes of the
\* recorders depends on it.
EndTurns(s, outcome) ==
    /\ sse' = [t \in Turns |-> IF on[t] = s /\ sse[t] = "open" THEN "ended"
                                                               ELSE sse[t]]
    /\ rec' = [t \in Turns |-> IF t \in Recorders(s) THEN outcome ELSE rec[t]]

Answer(s) ==
    /\ link[s] = "up" /\ answering[s] = None /\ inbox[s] # <<>>
    /\ LET t == Head(inbox[s])
       IN  /\ answering' = [answering EXCEPT ![s] = t]
           /\ knows' = [knows EXCEPT ![s] = @ \cup {<<t, 0>>}]
           /\ Hear(s, <<t, 1>>)
    /\ inbox' = [inbox EXCEPT ![s] = Tail(@)]
    /\ UNCHANGED <<reqVars, wants, sse, saving, rec, reg, link, cuts>>

Finish(s) ==
    /\ link[s] = "up" /\ answering[s] # None
    /\ LET t == answering[s]
       IN  /\ knows' = [knows EXCEPT ![s] = @ \cup Reply(t)]
           /\ Hear(s, <<t, 2>>)
    /\ EndTurns(s, "writing")
    /\ answering' = [answering EXCEPT ![s] = None]
    /\ UNCHANGED <<reqVars, wants, saving, reg, link, inbox, cuts>>

\* Mutant: an error does not end the turn.
RefuseAndGoOn(s) ==
    /\ link[s] = "up" /\ answering[s] # None
    /\ answering' = [answering EXCEPT ![s] = None]
    /\ UNCHANGED <<reqVars, wants, sse, recVars, reg, link, inbox, knows, cuts>>

Refuse(s) ==
    /\ link[s] = "up" /\ answering[s] # None
    /\ EndTurns(s, "lost")
    /\ answering' = [answering EXCEPT ![s] = None]
    /\ UNCHANGED <<reqVars, wants, saving, heard, reg, link, inbox, knows, cuts>>

\* The connection breaks: the reader ends, the writer does not notice.
Cut(s) ==
    /\ link[s] = "up" /\ cuts < MaxCuts
    /\ link' = [link EXCEPT ![s] = "cut"]
    /\ answering' = [answering EXCEPT ![s] = None]
    /\ cuts' = cuts + 1
    /\ UNCHANGED <<reqVars, wants, sse, recVars, reg, inbox, knows>>

\* ... until it writes the next message, which is lost.
WriterFails(s) ==
    /\ link[s] = "cut" /\ inbox[s] # <<>>
    /\ link' = [link EXCEPT ![s] = "closed"]
    /\ inbox' = [inbox EXCEPT ![s] = <<>>]
    /\ UNCHANGED <<reqVars, wants, sse, recVars, reg, answering, knows, cuts>>

\* Mutant: a request keeps its sender while it streams.
HeldByStreams(s) ==
    reg = s \/ \E t \in Turns : on[t] = s /\ pc[t] \in {"joined", "streaming"}

\* Who holds a sender of the session's commands.
Held(s) == reg = s \/ \E t \in Turns : on[t] = s /\ pc[t] = "joined"

\* When nobody does, the writer ends and closes the connection, in the middle
\* of an answer too.
Release(s) ==
    /\ Live(s) /\ ~Held(s)
    /\ link' = [link EXCEPT ![s] = "closed"]
    /\ inbox' = [inbox EXCEPT ![s] = <<>>]
    /\ answering' = [answering EXCEPT ![s] = None]
    /\ UNCHANGED <<reqVars, wants, sse, recVars, reg, knows, cuts>>

------------------------------------------------------------------------------
Handle(t) ==
    \/ LoadHistory(t) \/ Join(t) \/ GiveUp(t)
    \/ Open(t) \/ OpenFails(t) \/ Send(t) \/ SendFails(t)

Next ==
    \/ \E t \in Turns :
           \/ Look(t) \/ Handle(t) \/ StreamCloses(t) \/ RecorderStops(t)
           \/ StoreUserMessage(t) \/ StoreReply(t)
    \/ \E s \in Turns :
           \/ Answer(s) \/ Finish(s) \/ Refuse(s)
           \/ Cut(s) \/ WriterFails(s) \/ Release(s)

Spec == Init /\ [][Next]_vars

(* Handlers and tasks that can go on do, and a connected harness answers.    *)
FairSpec ==
    /\ Spec
    /\ \A t \in Turns : WF_vars(Handle(t)) /\ WF_vars(StreamCloses(t))
    /\ \A s \in Turns :
           WF_vars(Answer(s)) /\ WF_vars(Finish(s) \/ Refuse(s)) /\ WF_vars(Release(s))

------------------------------------------------------------------------------
(* Properties                                                                *)

\* Every variable holds values of its type.
TypeOK ==
    /\ pc \in [Turns -> {"new", "loading", "looked", "opening",
                         "joined", "streaming", "failed"}]
    /\ wants \in [Turns -> Models \cup {NoModel}]
    /\ found \in [Turns -> {"unknown", "live", "none", "unreadable"}]
    /\ hist \in [Turns -> SUBSET Items] /\ before \in [Turns -> SUBSET Items]
    /\ on \in [Turns -> Turns \cup {None}] /\ reg \in Turns \cup {None}
    /\ sse \in [Turns -> {"none", "open", "ended", "cut"}]
    /\ saving \in [Turns -> {"off", "ready", "pending", "stored"}]
    /\ rec \in [Turns -> {"none", "recording", "writing", "stored", "lost"}]
    /\ heard \in [Turns -> SUBSET Items] /\ ahead \in [Turns -> SUBSET Turns]
    /\ link \in [Turns -> {"none", "up", "cut", "closed"}]
    /\ inbox \in [Turns -> Seq(Turns)]
    /\ answering \in [Turns -> Turns \cup {None}]
    /\ knows \in [Turns -> SUBSET Items] /\ cuts \in 0 .. MaxCuts

\* What a turn stores as the reply.  Sent while its session is idle, it stores
\* exactly its own, from the first event on, however fast the harness answers;
\* sent while another turn waits or is answered, it stores what it hears of
\* that one's reply, and nothing else.
StoredReplyIsOneReply ==
    \A t \in Turns : rec[t] \in {"writing", "stored"} =>
        IF ahead[t] = {} THEN heard[t] = Reply(t)
        ELSE \E u \in ahead[t] :
                 heard[t] \subseteq Reply(u) /\ <<u, 2>> \in heard[t]

\* A session opened by a request that found none alive knows everything that
\* was stored when the request came, also by sessions that have died since.
ReopenedSessionKnowsTheChat ==
    \A t \in Turns :
        link[t] # "none" /\ found[t] = "none" => before[t] \subseteq knows[t]

\* A session that lost its place in the registry, to a request that raced with
\* its opening or asked for another model, does not stay open.
OrphansAreReleased ==
    \A s \in Turns : (Live(s) /\ reg # s) ~> ~Live(s)

\* A client's stream comes to an end, with the turn's own events or another's,
\* unless its connection broke while the registry still holds the session.
StreamsEnd ==
    \A t \in Turns :
        (pc[t] = "streaming" /\ sse[t] = "open") ~>
            (sse[t] # "open" \/ (reg = on[t] /\ link[reg] # "up"))
=============================================================================
