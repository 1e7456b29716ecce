----------------------------- MODULE SuperAgent -----------------------------
(***************************************************************************)
(* The super agent's tool loop (crates/aura-os-super-agent, stream.rs) and  *)
(* the cache of its conversation that chat requests share                   *)
(* (handle_super_agent_stream of handlers/agents/chat.rs).                  *)
(***************************************************************************)
EXTENDS Naturals, Sequences, FiniteSets

CONSTANTS
    Chats,          \* requests to the super agent
    Storage,        \* whose the messages rebuilt from stored events are
    MaxTools,       \* bound: tool uses of one reply
    StoredTools,    \* bound: tool uses of one reply of a stored turn
    MaxTurns,       \* max_turns
    MaxTruncations  \* MAX_CONSECUTIVE_TRUNCATIONS

ASSUME LoopAssumption ==
    /\ Storage \notin Chats /\ MaxTools \in Nat /\ StoredTools \in Nat
    /\ MaxTurns \in Nat \ {0} /\ MaxTruncations \in Nat \ {0}

VARIABLES
    stage,     \* chat -> where its request stands
    talk,      \* chat -> its messages
    rounds,    \* chat -> replies it has had
    truncated, \* chat -> how many of the last ones were cut at max_tokens
    cache,     \* the conversation the next request starts from
    alone      \* history: chats that have met no other one so far

agentVars == <<stage, talk, rounds, truncated, cache, alone>>

\* The ids of the n tool uses of the k-th reply.
Uses(k, n) == {k} \X (1 .. n)

\* A message: whose it is, the tool uses it makes or answers, and, of a reply
\* that makes some, whether it said why it stopped.
Says(c) == [role |-> "user", by |-> c, uses |-> {}, told |-> FALSE]
Asks(c) == [Says(c) EXCEPT !.role = "hint"]
Replies(c, uses, why) ==
    [role |-> "assistant", by |-> c, uses |-> uses, told |-> uses # {} /\ why # "none"]
Results(c, uses) == [role |-> "results", by |-> c, uses |-> uses, told |-> FALSE]

Stops == {"tool_use", "max_tokens", "end_turn", "none"}

\* A stored turn: how many tools each of its replies used.
Turns == UNION {[1 .. n -> 1 .. StoredTools] : n \in 1 .. MaxTurns}

\* The tool uses of a stored turn that comes after so many replies, and those
\* that have a result: the recorder files each result under the last tool use
\* that it has seen, and a last reply that just stopped has no results.
Used(from, turn) == UNION {Uses(from + k, turn[k]) : k \in DOMAIN turn}
Filed(from, turn, why) ==
    {<<from + k, turn[k]>> :
        k \in IF why = "none" THEN 1 .. Len(turn) - 1 ELSE DOMAIN turn}

\* The messages rebuilt from one stored turn: all its tool uses, then all their
\* results.
Rebuilt(turn, why) ==
    LET filed == Filed(0, turn, why)
    IN  <<Says(Storage), Replies(Storage, Used(0, turn), why)>>
            \o (IF filed = {} THEN <<>> ELSE <<Results(Storage, filed)>>)

\* And from two turns that overlapped: the results wait for the next question.
RebuiltBoth(turn, later) ==
    LET n == Len(turn)
    IN  <<Says(Storage), Says(Storage),
          Replies(Storage, Used(0, turn), "end_turn"),
          Replies(Storage, Used(n, later), "end_turn"),
          Results(Storage, Filed(0, turn, "end_turn") \cup Filed(n, later, "end_turn"))>>

\* What a server that has just started may find in storage.
Older ==
    {Rebuilt(turn, why) : turn \in Turns, why \in {"end_turn", "none"}}
        \cup {RebuiltBoth(turn, later) : turn \in Turns, later \in Turns}

AgentInit ==
    /\ stage = [c \in Chats |-> "new"] /\ talk = [c \in Chats |-> <<>>]
    /\ rounds = [c \in Chats |-> 0] /\ truncated = [c \in Chats |-> 0]
    /\ cache \in {<<>>} \cup Older
    /\ alone = {}

Running == {c \in Chats : stage[c] = "asking"}

\* The request copies the cached conversation; run adds the user's message.
BeginChat(c) ==
    /\ stage[c] = "new"
    /\ stage' = [stage EXCEPT ![c] = "asking"]
    /\ talk' = [talk EXCEPT ![c] = Append(cache, Says(c))]
    /\ alone' = IF Running = {} THEN alone \cup {c} ELSE alone \ Running
    /\ UNCHANGED <<rounds, truncated, cache>>

\* What run leaves is put into the cache when it returns.
Returns(c, messages) ==
    /\ stage' = [stage EXCEPT ![c] = "ended"]
    /\ cache' = messages
    /\ talk' = [talk EXCEPT ![c] = <<>>]

\* The API refuses a conversation with tool uses that the next message does not
\* answer.
Accepted(messages) ==
    \A i \in DOMAIN messages :
        messages[i].role = "assistant" /\ messages[i].uses # {} =>
            /\ i < Len(messages) /\ messages[i + 1].role = "results"
            /\ messages[i + 1].uses = messages[i].uses

\* Mutant: a conversation that ends with an error is not cached.
FailsUncached(c) ==
    /\ stage[c] = "asking"
    /\ stage' = [stage EXCEPT ![c] = "ended"]
    /\ talk' = [talk EXCEPT ![c] = <<>>]
    /\ UNCHANGED <<rounds, truncated, cache, alone>>

\* The request fails, is refused, or its stream breaks.
ReplyFails(c) ==
    /\ stage[c] = "asking"
    /\ Returns(c, talk[c])
    /\ UNCHANGED <<rounds, truncated, alone>>

\* Mutant: a reply that was cut gets no results.
ResultsOfToolUse(n, why) == why = "tool_use"

\* Whether the tool uses of a reply get results: a tool that was cut short gets
\* an error for a result, but only when the reply stopped for these reasons.
HasResults(n, why) == why = "tool_use" \/ (why = "max_tokens" /\ n > 0)

\* process_stream_response: the reply, with its last tool use whole or not, and
\* the results.
Heard(c, n, why) ==
    LET uses == Uses(rounds[c] + 1, n)
    IN  talk[c] \o <<Replies(c, uses, why)>>
                \o (IF HasResults(n, why) THEN <<Results(c, uses)>> ELSE <<>>)

\* After a cut reply without tools run asks for the rest.
Hints(c, n, cuts) ==
    (IF n = 0 THEN <<Asks(c)>> ELSE <<>>)
        \o (IF cuts >= MaxTruncations THEN <<Asks(c)>> ELSE <<>>)

\* run: tools or a cut reply lead to another request, up to max_turns.
Reply(c) ==
    /\ stage[c] = "asking" /\ Accepted(talk[c])
    /\ \E n \in 0 .. MaxTools, why \in Stops :
        LET cuts == IF why = "max_tokens" THEN truncated[c] + 1 ELSE 0
            messages == Heard(c, n, why)
                            \o (IF cuts > 0 THEN Hints(c, n, cuts) ELSE <<>>)
        IN  /\ why = "tool_use" => n > 0
            /\ why = "end_turn" => n = 0
            /\ truncated' = [truncated EXCEPT ![c] = cuts]
            /\ rounds' = [rounds EXCEPT ![c] = @ + 1]
            /\ IF why \in {"tool_use", "max_tokens"} /\ rounds[c] + 1 < MaxTurns
               THEN /\ talk' = [talk EXCEPT ![c] = messages]
                    /\ UNCHANGED <<stage, cache>>
               ELSE Returns(c, messages)
    /\ UNCHANGED alone

AgentNext == \E c \in Chats : BeginChat(c) \/ Reply(c) \/ ReplyFails(c)

AgentSpec == AgentInit /\ [][AgentNext]_agentVars

------------------------------------------------------------------------------
(* Properties                                                                *)

Messages ==
    [role : {"user", "hint", "assistant", "results"}, by : Chats \cup {Storage},
     uses : SUBSET (Nat \X Nat), told : BOOLEAN]

\* Every variable holds values of its type.
AgentTypeOK ==
    /\ stage \in [Chats -> {"new", "asking", "ended"}]
    /\ talk \in [Chats -> Seq(Messages)] /\ cache \in Seq(Messages)
    /\ rounds \in [Chats -> 0 .. MaxTurns]
    /\ truncated \in [Chats -> 0 .. MaxTurns]
    /\ alone \subseteq Chats

\* The i-th message is a rebuilt reply whose results do not tell its uses apart:
\* one of its replies used two tools at once, so that both results are filed
\* under the second; or its turn overlapped another.
Misfiled(messages, i) ==
    /\ messages[i].by = Storage
    /\ \/ \E use \in messages[i].uses : use[2] > 1
       \/ \E j \in DOMAIN messages \cap {i - 1, i + 1} : messages[j].role = "assistant"

\* Every tool use that a run has made is answered by the next message, also when
\* the reply was cut in the middle of it, so that the conversation can go on;
\* unless the reply's stream just stopped, without saying why. So is every tool
\* use of a conversation rebuilt from storage, but for those that are misfiled:
\* a conversation with such a turn is refused after every restart.
ToolUsesAreAnswered ==
    \A messages \in {cache} \cup {talk[c] : c \in Chats} :
        \A i \in DOMAIN messages :
            LET m == messages[i] IN
            m.role = "assistant" /\ m.told /\ ~Misfiled(messages, i) =>
                i < Len(messages) /\ messages[i + 1] = Results(m.by, m.uses)

\* A request that ran while no other did is remembered by all later ones,
\* however it ended and however these overlap.
LoneTurnsAreRemembered ==
    \A c \in alone :
        stage[c] = "ended" => \E i \in DOMAIN cache : cache[i] = Says(c)
=============================================================================
