---------------------------- MODULE UsageRecords ----------------------------
(***************************************************************************)
(* Where the tokens of a loop's turns are written down while its events are *)
(* forwarded (forward_automaton_events, dev_loop.rs): in the entry of the    *)
(* task in the output cache, in the session (update_context_usage of the     *)
(* sessions crate).  A turn costs one token.                                 *)
(* The harness tells of it as it goes (token_usage), at its end              *)
(* (assistant_message_end), or both; an end may carry the totals so far.     *)
(* Assumed of the harness: the tokens of a turn come before its end.         *)
(***************************************************************************)
EXTENDS Naturals, Sequences

CONSTANTS
    Followers, \* forwarders of this loop: of start_loop, of those that adopt it
    MaxSpent   \* bound: turns of the loop

ASSUME UsageAssumption == MaxSpent \in Nat

VARIABLES
    style,    \* how the harness tells of turns
    stream,   \* the events of the loop that tell of usage
    at,       \* per follower: where it stands
    heard,    \* per follower: events of the stream it has taken or missed
    whole,    \* per follower: it has missed none, and none of its steps failed
    kept,     \* per follower: its last event is an end that the session has
    paired,   \* per follower: it has a session
    base,     \* per follower: the total it has read
    booked,    \* the task in the cache: total_*_tokens, saw_rich_usage
    total     \* total_*_tokens of the session in storage

usageVars == <<style, stream, at, heard, whole, kept, paired, base, booked, total>>

Styles == {"tokens", "ends", "totals", "tokens and ends", "tokens and totals"}
HasTokens == style \in {"tokens", "tokens and ends", "tokens and totals"}
HasEnds == style # "tokens"
HasTotals == style \in {"totals", "tokens and totals"}

\* The events of turn n; "sum" is cumulative_*_tokens, 0 when not given.
Tokens(n) == [kind |-> "tokens", turn |-> n, sum |-> 0]
EndOf(n) == [kind |-> "end", turn |-> n, sum |-> IF HasTotals THEN n ELSE 0]
EventsOf(n) == (IF HasTokens THEN <<Tokens(n)>> ELSE <<>>)
               \o (IF HasEnds THEN <<EndOf(n)>> ELSE <<>>)
Spent == IF stream = <<>> THEN 0 ELSE stream[Len(stream)].turn

UsageInit ==
    /\ style \in Styles /\ stream = <<>>
    /\ at = [f \in Followers |-> "off"] /\ heard = [f \in Followers |-> 0]
    /\ whole = [f \in Followers |-> FALSE] /\ kept = [f \in Followers |-> FALSE]
    /\ paired = [f \in Followers |-> FALSE] /\ base = [f \in Followers |-> 0]
    /\ booked = [sum |-> 0, rich |-> FALSE] /\ total = 0

EndTurn ==
    /\ Spent < MaxSpent /\ stream' = stream \o EventsOf(Spent + 1)
    /\ UNCHANGED <<style, at, heard, whole, kept, paired, base, booked, total>>

\* A follower begins with the next event.  Its session is that of the loop, which
\* start_loop has made and who adopts the loop finds at the agent; or it has none.
\* The entry of its task is a new one.
Follow(f) ==
    /\ at[f] = "off" /\ at' = [at EXCEPT ![f] = "idle"]
    /\ heard' = [heard EXCEPT ![f] = Len(stream)]
    /\ whole' = [whole EXCEPT ![f] = (stream = <<>>)]
    /\ \E p \in BOOLEAN : paired' = [paired EXCEPT ![f] = p]
    /\ booked' = [sum |-> 0, rich |-> FALSE]
    /\ UNCHANGED <<style, stream, kept, base, total>>

\* Mutant: an end adds its turn also when it carries the totals.
CountedAdding(n, e) ==
    CASE e.kind = "end" -> [sum |-> n.sum + 1, rich |-> TRUE]
      [] e.kind = "tokens" /\ ~n.rich -> [n EXCEPT !.sum = @ + 1]
      [] OTHER -> n

\* The entry in the cache: once an end has told of usage, tokens no longer count.
Counted(n, e) ==
    CASE e.kind = "end" ->
            [sum |-> IF e.sum > 0 THEN e.sum ELSE n.sum + 1, rich |-> TRUE]
      [] e.kind = "tokens" /\ ~n.rich -> [n EXCEPT !.sum = @ + 1]
      [] OTHER -> n

Latest(f) == stream[heard[f]]

Hear(f) ==
    /\ at[f] = "idle" /\ heard[f] < Len(stream)
    /\ heard' = [heard EXCEPT ![f] = @ + 1]
    /\ booked' = Counted(booked, stream[heard[f] + 1])
    /\ kept' = [kept EXCEPT ![f] = FALSE]
    /\ at' = [at EXCEPT ![f] = IF paired[f] THEN "load" ELSE "report"]
    /\ UNCHANGED <<style, stream, whole, paired, base, total>>

\* RecvError::Lagged: the event is lost to this follower.
Miss(f) ==
    /\ at[f] = "idle" /\ heard[f] < Len(stream)
    /\ heard' = [heard EXCEPT ![f] = @ + 1]
    /\ whole' = [whole EXCEPT ![f] = FALSE] /\ kept' = [kept EXCEPT ![f] = FALSE]
    /\ UNCHANGED <<style, stream, at, paired, base, booked, total>>

\* update_context_usage reads the session and writes its totals; when storage fails
\* either way, this is logged and the forwarder goes on.
Load(f) ==
    /\ at[f] = "load"
    /\ base' = [base EXCEPT ![f] = total] /\ at' = [at EXCEPT ![f] = "save"]
    /\ UNCHANGED <<style, stream, heard, whole, kept, paired, booked, total>>

\* Mutant: the totals of an end are not passed on.
UpdatedAdding(f) == base[f] + 1

Updated(f) ==
    IF Latest(f).kind = "end" /\ Latest(f).sum > 0 THEN Latest(f).sum ELSE base[f] + 1

Save(f) ==
    /\ at[f] = "save" /\ total' = Updated(f)
    /\ kept' = [kept EXCEPT ![f] = Latest(f).kind = "end"]
    /\ at' = [at EXCEPT ![f] = "report"]
    /\ UNCHANGED <<style, stream, heard, whole, paired, base, booked>>

UpdateFails(f) ==
    /\ at[f] \in {"load", "save"} /\ at' = [at EXCEPT ![f] = "report"]
    /\ whole' = [whole EXCEPT ![f] = FALSE]
    /\ UNCHANGED <<style, stream, heard, kept, paired, base, booked, total>>

\* report_automaton_usage: every event is reported to the network, or tried to be.
Report(f) ==
    /\ at[f] = "report" /\ at' = [at EXCEPT ![f] = "idle"]
    /\ UNCHANGED <<style, stream, heard, whole, kept, paired, base, booked, total>>

UsageNext ==
    \/ EndTurn
    \/ \E f \in Followers : \/ Follow(f) \/ Hear(f) \/ Miss(f) \/ Load(f)
                            \/ Save(f) \/ UpdateFails(f) \/ Report(f)

UsageSpec == UsageInit /\ [][UsageNext]_usageVars

------------------------------------------------------------------------------
(* Properties                                                                *)

\* Every variable holds values of its type.
UsageTypeOK ==
    /\ style \in Styles /\ Spent \in 0 .. MaxSpent
    /\ at \in [Followers -> {"off", "idle", "load", "save", "report"}]
    /\ heard \in [Followers -> 0 .. Len(stream)]
    /\ whole \in [Followers -> BOOLEAN] /\ kept \in [Followers -> BOOLEAN]
    /\ paired \in [Followers -> BOOLEAN] /\ base \in [Followers -> Nat]
    /\ booked \in [sum : Nat, rich : BOOLEAN] /\ total \in Nat

Lone(f) == \A g \in Followers \ {f} : at[g] = "off"

\* f has dealt with the last event of a turn.
AfterTurn(f) ==
    /\ at[f] = "idle" /\ heard[f] > 0
    /\ heard[f] < Len(stream) => stream[heard[f] + 1].turn > Latest(f).turn

\* What a lone follower that misses nothing writes down is what the turns cost, in
\* the cache and in the session, at the end of every turn, though the one leaves
\* out what the other counts and corrects; unless turns are told of twice without
\* the totals.
LoneRecordsAreTrue ==
    \A f \in Followers :
        Lone(f) /\ whole[f] /\ AfterTurn(f) /\ style # "tokens and ends" =>
            /\ booked.sum = Latest(f).turn
            /\ paired[f] => total = Latest(f).turn

\* Totals mend the session: whatever was missed, lost or counted twice, also by
\* followers at the same time, once each has written its last end the session has
\* what the loop has cost.
TotalsMendTheSession ==
    /\ HasTotals
    /\ \E f \in Followers : paired[f]
    /\ \A f \in Followers : paired[f] =>
            at[f] \in {"report", "idle"} /\ heard[f] = Len(stream) /\ kept[f]
    => total = Spent

\* What is written down of a loop is what it has cost: at every turn for one
\* follower that gets all, in the end for any that get the totals.
RecordsAreTrue == LoneRecordsAreTrue /\ TotalsMendTheSession
=============================================================================
