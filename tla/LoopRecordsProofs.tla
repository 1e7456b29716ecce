-------------------------- MODULE LoopRecordsProofs --------------------------
(***************************************************************************)
(* What the server writes down of the events it is sent: the output of a   *)
(* dev loop's runs (LoopEvents), for any tasks, channel and runs, the      *)
(* tokens of its turns (UsageRecords), for any followers and turns, and    *)
(* the turn of an external agent (ExternalTurns), for any tools, lines and *)
(* channel; and what it keeps between requests: a cron job (CronJobs) and  *)
(* a terminal (Terminals).                                                 *)
(***************************************************************************)
EXTENDS LoopEvents, UsageRecords, ExternalTurns, CronJobs, Terminals,
        FiniteSetTheorems, TLAPS

----------------------------------------------------------------------------
(* The output of runs.                                                       *)

\* The server has one dev loop.
OneLoop == \A i, j \in Loops : i = j

\* e is an event of a run among rs.
IsEventOf(e, rs) ==
    /\ e.run \in DOMAIN rs
    /\ e.piece \in 0 .. rs[e.run].pieces
    /\ e.type = "text_delta" => e.piece > 0
    /\ e.type = "task_started" => e.piece = 0
    /\ e.type = "task_ended" => ~rs[e.run].open

EventsInv ==
    /\ LoopTypeOK
    /\ DOMAIN saved = 1 .. MaxRuns
    /\ \A i \in Loops : \A n \in DOMAIN chan[i] : IsEventOf(chan[i][n], runs)
    /\ \A r \in 1 .. MaxRuns :
          saved[r] # None => r \in DOMAIN runs /\ ~runs[r].open

\* f is the event an automaton sends after e, when rs are its runs.
Follows(e, f, rs) ==
    \/ e.type # "task_ended" /\ f = Ev("text_delta", e.run, e.piece + 1)
    \/ /\ e.type # "task_ended" /\ e.piece = rs[e.run].pieces
       /\ f = Ev("task_ended", e.run, 0)
    \/ e.type = "task_ended" /\ f = Ev("task_started", e.run + 1, 0)

\* The last event an automaton has sent.
IsLatest(e, rs) ==
    /\ e.run = Len(rs)
    /\ IF rs[e.run].open THEN e.type # "task_ended" /\ e.piece = rs[e.run].pieces
                         ELSE e.type = "task_ended"

\* The forwarder has taken the start of run r and its first k texts.
HasHeard(i, r, k) ==
    /\ current[i] = runs[r].task
    /\ cache[runs[r].task] = [j \in 1 .. k |-> <<r, j>>]

\* What the forwarder needs to have taken before e.
ReadyFor(i, e) ==
    /\ e.type = "text_delta" => HasHeard(i, e.run, e.piece - 1)
    /\ e.type = "task_ended" => HasHeard(i, e.run, runs[e.run].pieces)

ChannelInv(i) ==
    /\ \A r \in DOMAIN runs : runs[r].open => r = Len(runs)
    /\ conn[i] # "subscribed" => chan[i] = <<>> /\ DOMAIN runs \subseteq lost
    /\ \A n \in 1 .. Len(chan[i]) - 1 : Follows(chan[i][n], chan[i][n + 1], runs)
    /\ chan[i] # <<>> => IsLatest(chan[i][Len(chan[i])], runs)
    /\ chan[i] # <<>> /\ chan[i][1].run \notin lost => ReadyFor(i, chan[i][1])
    /\ \A r \in DOMAIN runs \ lost :
          chan[i] = <<>> /\ runs[r].open => HasHeard(i, r, runs[r].pieces)

IntactInv == IntactRunIsSaved /\ \A i \in Loops : ChannelInv(i)

----------------------------------------------------------------------------
(* The channel and the types.                                              *)

\* Sending adds one event to one channel, and may drop the oldest.
LEMMA SendAdds ==
    ASSUME LoopTypeOK, NEW i \in Loops, NEW e \in Event, Send(i, e)
    PROVE  /\ chan' \in [Loops -> Seq(Event)]
           /\ \A j \in Loops : Len(chan'[j]) <= Capacity
           /\ lagging' \in [Loops -> BOOLEAN] /\ lost' \subseteq 1 .. MaxRuns
           /\ \A j \in Loops : \A n \in DOMAIN chan'[j] :
                 chan'[j][n] = e \/ \E m \in DOMAIN chan[j] : chan'[j][n] = chan[j][m]
<1> DEFINE old == chan[i]
<1>1. old \in Seq(Event) /\ Len(old) <= Capacity /\ e.run \in 1 .. MaxRuns
  BY DEF LoopTypeOK, Event
<1>2. CASE conn[i] # "subscribed"
  BY <1>1, <1>2 DEF Send, LoopTypeOK
<1>3. CASE conn[i] = "subscribed" /\ Len(old) < Capacity
  <2>1. /\ Append(old, e) \in Seq(Event) /\ Len(Append(old, e)) = Len(old) + 1
        /\ \A n \in 1 .. Len(old) + 1 :
              Append(old, e)[n] = (IF n = Len(old) + 1 THEN e ELSE old[n])
    BY <1>1
  <2>2. chan' = [chan EXCEPT ![i] = Append(old, e)] /\ UNCHANGED <<lagging, lost>>
    BY <1>3 DEF Send
  <2> QED BY <1>1, <1>3, <2>1, <2>2, EventAssumption DEF LoopTypeOK
<1>4. CASE conn[i] = "subscribed" /\ ~(Len(old) < Capacity)
  <2> DEFINE new == Append(Tail(old), e)
  <2>1. Len(old) = Capacity /\ old # <<>>
    BY <1>1, <1>4, EventAssumption
  <2>2. /\ new \in Seq(Event) /\ Len(new) = Len(old)
        /\ \A n \in 1 .. Len(old) : new[n] = (IF n = Len(old) THEN e ELSE old[n + 1])
    BY <1>1, <2>1
  <2>3. Head(old).run \in 1 .. MaxRuns
    <3>1. 1 \in DOMAIN old
      BY <1>1, <2>1, EventAssumption
    <3>2. old[1] \in Event /\ Head(old) = old[1]
      BY <1>1, <3>1
    <3> QED BY <3>2 DEF Event
  <2>4. /\ chan' = [chan EXCEPT ![i] = new]
        /\ lagging' = [lagging EXCEPT ![i] = TRUE] /\ lost' = lost \cup {Head(old).run}
    BY <1>4 DEF Send
  <2> HIDE DEF new
  <2>5. \A j \in Loops : chan'[j] = IF j = i THEN new ELSE chan[j]
    BY <2>4 DEF LoopTypeOK
  <2>6. chan' \in [Loops -> Seq(Event)]
    <3>1. new \in Seq(Event) /\ chan \in [Loops -> Seq(Event)]
      BY <2>2 DEF LoopTypeOK
    <3>2. chan' = [chan EXCEPT ![i] = new]
      BY <2>4
    <3> QED BY <3>1, <3>2
  <2>7. \A j \in Loops : Len(chan'[j]) <= Capacity
    BY <1>1, <2>2, <2>5 DEF LoopTypeOK
  <2>8. \A j \in Loops : \A n \in DOMAIN chan'[j] :
            chan'[j][n] = e \/ \E m \in DOMAIN chan[j] : chan'[j][n] = chan[j][m]
    <3>1. \A n \in DOMAIN new : new[n] = e \/ \E m \in DOMAIN old : new[n] = old[m]
      BY <1>1, <2>1, <2>2, EventAssumption
    <3> QED BY <2>5, <3>1
  <2>9. lagging' \in [Loops -> BOOLEAN] /\ lost' \subseteq 1 .. MaxRuns
    BY <2>3, <2>4 DEF LoopTypeOK
  <2> QED BY <2>6, <2>7, <2>8, <2>9
<1> QED BY <1>2, <1>3, <1>4

\* EventsInv holds at the start and in every step.
LEMMA EventsInit ==
    ASSUME LoopInit
    PROVE  EventsInv
BY EventAssumption DEF LoopInit, EventsInv, LoopTypeOK, Texts, IsEventOf

\* What a run and its events have.
LEMMA RunFields ==
    ASSUME LoopTypeOK, NEW r \in DOMAIN runs
    PROVE  /\ r \in 1 .. MaxRuns /\ r \in 1 .. Len(runs) /\ runs[r] \in Run
           /\ runs[r].loop \in Loops /\ runs[r].task \in Tasks
           /\ runs[r].pieces \in 0 .. MaxPieces /\ runs[r].open \in BOOLEAN
<1>1. runs \in Seq(Run) /\ Len(runs) <= MaxRuns /\ MaxRuns \in Nat
  BY EventAssumption DEF LoopTypeOK
<1>2. r \in 1 .. Len(runs) /\ runs[r] \in Run
  BY <1>1
<1> QED BY <1>1, <1>2 DEF Run

\* An automaton goes on and sends e.
LEMMA SendKeepsInv ==
    ASSUME EventsInv, NEW i \in Loops, NEW e \in Event, Send(i, e),
           runs' \in Seq(Run), Len(runs') <= MaxRuns, Len(runs) <= Len(runs'),
           \A q \in DOMAIN runs : /\ runs[q].pieces <= runs'[q].pieces
                                  /\ ~runs[q].open => ~runs'[q].open,
           IsEventOf(e, runs'),
           status' \in [Tasks -> {"ready", "in_progress", "done"}],
           assignee' \in [Tasks -> Loops \cup {None}],
           UNCHANGED <<forwarder, output>>
    PROVE  EventsInv'
<1>1. LoopTypeOK'
  BY SendAdds, EventAssumption DEF EventsInv, LoopTypeOK, output, forwarder
<1>2. ASSUME NEW d, IsEventOf(d, runs)
      PROVE  IsEventOf(d, runs')
  <2>1. /\ d.run \in DOMAIN runs' /\ runs'[d.run] \in Run
        /\ runs'[d.run].pieces \in Nat /\ runs[d.run].pieces \in Nat
    <3>1. /\ d.run \in 1 .. Len(runs) /\ runs[d.run].pieces \in Nat
      BY <1>2, RunFields, EventAssumption DEF IsEventOf, EventsInv
    <3>2. /\ Len(runs) \in Nat /\ Len(runs') \in Nat /\ DOMAIN runs' = 1 .. Len(runs')
      BY DEF EventsInv, LoopTypeOK
    <3>3. d.run \in DOMAIN runs'
      BY <3>1, <3>2
    <3>4. runs'[d.run] \in Run
      BY <3>2, <3>3
    <3> QED BY <3>1, <3>3, <3>4, EventAssumption DEF Run
  <2> QED BY <1>2, <2>1, EventAssumption DEF IsEventOf
<1>3. ASSUME NEW j \in Loops, NEW n \in DOMAIN chan'[j]
      PROVE  IsEventOf(chan'[j][n], runs')
  <2>1. chan'[j][n] = e \/ \E m \in DOMAIN chan[j] : chan'[j][n] = chan[j][m]
    BY <1>3, SendAdds DEF EventsInv
  <2> QED BY <1>2, <2>1 DEF EventsInv
<1>4. saved' = saved
  BY DEF output
<1>5. ASSUME NEW r \in 1 .. MaxRuns, saved[r] # None
      PROVE  r \in DOMAIN runs' /\ ~runs'[r].open
  <2>1. r \in DOMAIN runs /\ ~runs[r].open
    BY <1>5 DEF EventsInv
  <2>2. /\ DOMAIN runs = 1 .. Len(runs) /\ DOMAIN runs' = 1 .. Len(runs')
        /\ Len(runs) \in Nat /\ Len(runs') \in Nat
    BY DEF EventsInv, LoopTypeOK
  <2> QED BY <2>1, <2>2
<1> QED BY <1>1, <1>3, <1>4, <1>5 DEF EventsInv

\* The actions keep EventsInv, one by one.
LEMMA RunStartsKeepsInv ==
    ASSUME EventsInv, NEW i \in Loops, NEW t \in Tasks, RunStarts(i, t)
    PROVE  EventsInv'
<1> DEFINE r == Len(runs) + 1
           e == Ev("task_started", r, 0)
           run == [loop |-> i, task |-> t, pieces |-> 0, open |-> TRUE]
<1>1. r \in 1 .. MaxRuns /\ e \in Event /\ run \in Run
  BY EventAssumption DEF RunStarts, EventsInv, LoopTypeOK, Event, Ev, Run
<1>2. /\ runs' \in Seq(Run) /\ Len(runs') = r
      /\ runs'[r] = run /\ \A q \in 1 .. Len(runs) : runs'[q] = runs[q]
  BY <1>1 DEF RunStarts, EventsInv, LoopTypeOK
<1>3. \A q \in DOMAIN runs : /\ runs[q].pieces <= runs'[q].pieces
                             /\ ~runs[q].open => ~runs'[q].open
  BY <1>2, RunFields DEF EventsInv
<1>4. IsEventOf(e, runs')
  BY <1>1, <1>2 DEF IsEventOf, Ev
<1>5. /\ status' \in [Tasks -> {"ready", "in_progress", "done"}]
      /\ assignee' \in [Tasks -> Loops \cup {None}]
  BY DEF RunStarts, EventsInv, LoopTypeOK
<1>6. Send(i, e) /\ UNCHANGED <<forwarder, output>>
  BY DEF RunStarts
<1>7. Len(runs') <= MaxRuns /\ Len(runs) <= Len(runs')
  BY <1>1, <1>2 DEF EventsInv, LoopTypeOK
<1> HIDE DEF e, r
<1> QED BY <1>1, <1>2, <1>3, <1>4, <1>5, <1>6, <1>7, SendKeepsInv

LEMMA RunWritesKeepsInv ==
    ASSUME EventsInv, NEW i \in Loops, RunWrites(i)
    PROVE  EventsInv'
<1>1. PICK r \in OpenRuns(i) :
        /\ runs[r].pieces < MaxPieces
        /\ runs' = [runs EXCEPT ![r].pieces = @ + 1]
        /\ Send(i, Ev("text_delta", r, runs[r].pieces + 1))
        /\ UNCHANGED <<storage, forwarder, output>>
  BY DEF RunWrites
<1> DEFINE e == Ev("text_delta", r, runs[r].pieces + 1)
           run == [runs[r] EXCEPT !.pieces = @ + 1]
<1>2. r \in DOMAIN runs
  BY DEF OpenRuns
<1>3. e \in Event /\ run \in Run /\ run.pieces = runs[r].pieces + 1 /\ run.open = runs[r].open
  <2>1. /\ r \in 1 .. MaxRuns /\ runs[r] \in Run /\ runs[r].pieces \in 0 .. MaxPieces
        /\ runs[r].pieces + 1 \in 0 .. MaxPieces
    BY <1>1, <1>2, RunFields, EventAssumption DEF EventsInv
  <2>2. e \in Event
    BY <2>1 DEF Event, Ev
  <2> QED BY <2>1, <2>2 DEF Run
<1>4. runs' = [runs EXCEPT ![r] = run] /\ runs \in Seq(Run)
  BY <1>1 DEF EventsInv, LoopTypeOK
<1> HIDE DEF run
<1>5. /\ runs' \in Seq(Run) /\ Len(runs') = Len(runs)
      /\ runs'[r] = run /\ \A q \in DOMAIN runs : q # r => runs'[q] = runs[q]
  BY <1>2, <1>3, <1>4
<1>6. \A q \in DOMAIN runs : /\ runs[q].pieces <= runs'[q].pieces
                             /\ ~runs[q].open => ~runs'[q].open
  BY <1>2, <1>3, <1>5, RunFields DEF EventsInv
<1>7. IsEventOf(e, runs')
  BY <1>2, <1>3, <1>5, RunFields DEF IsEventOf, Ev, EventsInv
<1>8. /\ status' \in [Tasks -> {"ready", "in_progress", "done"}]
      /\ assignee' \in [Tasks -> Loops \cup {None}]
  BY <1>1 DEF storage, EventsInv, LoopTypeOK
<1>9. Len(runs') <= MaxRuns /\ Len(runs) <= Len(runs')
  BY <1>5 DEF EventsInv, LoopTypeOK
<1> HIDE DEF e
<1>10. Send(i, e) /\ UNCHANGED <<forwarder, output>>
  BY <1>1 DEF e
<1> QED BY <1>3, <1>5, <1>6, <1>7, <1>8, <1>9, <1>10, SendKeepsInv

LEMMA RunEndsKeepsInv ==
    ASSUME EventsInv, NEW i \in Loops, RunEnds(i)
    PROVE  EventsInv'
<1>1. PICK r \in OpenRuns(i) :
        /\ runs' = [runs EXCEPT ![r].open = FALSE]
        /\ \E s \in {"done", "ready"} : status' = [status EXCEPT ![runs[r].task] = s]
        /\ Send(i, Ev("task_ended", r, 0))
        /\ UNCHANGED <<assignee, forwarder, output>>
  BY DEF RunEnds
<1> DEFINE e == Ev("task_ended", r, 0)
           run == [runs[r] EXCEPT !.open = FALSE]
<1>2. r \in DOMAIN runs
  BY DEF OpenRuns
<1>3. e \in Event /\ run \in Run /\ run.pieces = runs[r].pieces /\ ~run.open
  <2>1. r \in 1 .. MaxRuns /\ runs[r] \in Run /\ runs[r].pieces \in 0 .. MaxPieces
    BY <1>2, RunFields DEF EventsInv
  <2>2. e \in Event
    BY <2>1, EventAssumption DEF Event, Ev
  <2> QED BY <2>1, <2>2 DEF Run
<1>4. runs' = [runs EXCEPT ![r] = run] /\ runs \in Seq(Run)
  BY <1>1 DEF EventsInv, LoopTypeOK
<1> HIDE DEF run
<1>5. /\ runs' \in Seq(Run) /\ Len(runs') = Len(runs)
      /\ runs'[r] = run /\ \A q \in DOMAIN runs : q # r => runs'[q] = runs[q]
  BY <1>2, <1>3, <1>4
<1>6. \A q \in DOMAIN runs : /\ runs[q].pieces <= runs'[q].pieces
                             /\ ~runs[q].open => ~runs'[q].open
  BY <1>2, <1>3, <1>5, RunFields DEF EventsInv
<1>7. IsEventOf(e, runs')
  BY <1>2, <1>3, <1>5, RunFields DEF IsEventOf, Ev, EventsInv
<1>8. /\ status' \in [Tasks -> {"ready", "in_progress", "done"}]
      /\ assignee' \in [Tasks -> Loops \cup {None}]
  BY <1>1 DEF EventsInv, LoopTypeOK
<1>9. Len(runs') <= MaxRuns /\ Len(runs) <= Len(runs')
  BY <1>5 DEF EventsInv, LoopTypeOK
<1> HIDE DEF e
<1>10. Send(i, e) /\ UNCHANGED <<forwarder, output>>
  BY <1>1 DEF e
<1> QED BY <1>3, <1>5, <1>6, <1>7, <1>8, <1>9, <1>10, SendKeepsInv

\* The forwarder takes an event, or goes past a gap.
LEMMA TakesKeepsInv ==
    ASSUME EventsInv, NEW i \in Loops, NEW type, NEW c \in Tasks \cup {None},
           Takes(i, type, c), cache' \in [Tasks -> Texts],
           \/ saved' = saved
           \/ /\ type = "task_ended"
              /\ saved' = [saved EXCEPT ![Head(chan[i]).run] =
                              [task |-> c, text |-> cache[c]]]
              /\ c \in Tasks
    PROVE  EventsInv'
<1> DEFINE old == chan[i]
           new == Tail(old)
           e == Head(old)
<1>1. /\ old \in Seq(Event) /\ old # <<>> /\ Len(old) <= Capacity /\ e.type = type
      /\ chan' = [chan EXCEPT ![i] = new] /\ UNCHANGED <<storage, runs, conn, lagging, lost>>
      /\ current' = [current EXCEPT ![i] = c]
  BY DEF EventsInv, LoopTypeOK, Takes
<1>2. /\ new \in Seq(Event) /\ Len(new) = Len(old) - 1
      /\ \A n \in 1 .. Len(old) - 1 : new[n] = old[n + 1]
      /\ 1 \in DOMAIN old /\ e = old[1]
  BY <1>1
<1>3. IsEventOf(e, runs)
  BY <1>2 DEF EventsInv
<1> HIDE DEF new, e
<1>4. chan' \in [Loops -> Seq(Event)] /\ \A j \in Loops : Len(chan'[j]) <= Capacity
  <2>1. chan \in [Loops -> Seq(Event)] /\ \A j \in Loops : Len(chan[j]) <= Capacity
    BY DEF EventsInv, LoopTypeOK
  <2> QED BY <1>1, <1>2, <2>1, EventAssumption
<1>5. ASSUME NEW j \in Loops, NEW n \in DOMAIN chan'[j]
      PROVE  IsEventOf(chan'[j][n], runs)
  <2>1. \E m \in DOMAIN chan[j] : chan'[j][n] = chan[j][m]
    <3>1. CASE j = i
      <4>1. chan'[j] = new /\ n \in 1 .. Len(old) - 1
        BY <1>1, <1>2, <3>1 DEF EventsInv, LoopTypeOK
      <4>2. n + 1 \in DOMAIN old /\ chan'[j][n] = old[n + 1]
        BY <1>1, <1>2, <4>1
      <4> QED BY <3>1, <4>2
    <3>2. CASE j # i
      BY <1>1, <3>2 DEF EventsInv, LoopTypeOK
    <3> QED BY <3>1, <3>2
  <2> QED BY <2>1 DEF EventsInv
<1>6. /\ DOMAIN saved' = 1 .. MaxRuns
      /\ \A r \in 1 .. MaxRuns :
            saved'[r] = saved[r]
              \/ /\ saved'[r].task \in Tasks /\ saved'[r].text \in Texts
                 /\ r \in DOMAIN runs /\ ~runs[r].open
  <2>1. CASE saved' = saved
    BY <2>1 DEF EventsInv
  <2>2. CASE /\ type = "task_ended"
             /\ saved' = [saved EXCEPT ![Head(chan[i]).run] =
                             [task |-> c, text |-> cache[c]]]
             /\ c \in Tasks
    <3>1. e.run \in DOMAIN runs /\ ~runs[e.run].open
      BY <1>1, <1>3, <2>2 DEF IsEventOf
    <3>2. cache[c] \in Texts /\ DOMAIN saved = 1 .. MaxRuns
      BY <2>2 DEF EventsInv, LoopTypeOK
    <3>3. saved' = [saved EXCEPT ![e.run] = [task |-> c, text |-> cache[c]]]
      BY <2>2 DEF e
    <3> QED BY <2>2, <3>1, <3>2, <3>3
  <2> QED BY <2>1, <2>2
<1>7. LoopTypeOK'
  BY <1>1, <1>4, <1>6 DEF EventsInv, LoopTypeOK, storage
<1> QED BY <1>1, <1>5, <1>6, <1>7 DEF EventsInv

LEMMA ForwardKeepsInv ==
    ASSUME EventsInv, NEW i \in Loops, Forward(i)
    PROVE  EventsInv'
<1>1. CASE Lagged(i)
  BY <1>1 DEF Lagged, EventsInv, LoopTypeOK, storage, forwarder, output, IsEventOf
<1>2. ASSUME chan[i] # <<>>
      PROVE  /\ Head(chan[i]) \in Event /\ IsEventOf(Head(chan[i]), runs)
             /\ NamedTask(i) \in Tasks
  <2>1. chan[i] \in Seq(Event)
    BY DEF EventsInv, LoopTypeOK
  <2>2. 1 \in DOMAIN chan[i] /\ Head(chan[i]) = chan[i][1]
    BY <1>2, <2>1
  <2>3. Head(chan[i]) \in Event /\ IsEventOf(Head(chan[i]), runs)
    BY <2>1, <2>2 DEF EventsInv
  <2>4. Head(chan[i]).run \in DOMAIN runs
    BY <2>3 DEF IsEventOf
  <2> QED BY <2>3, <2>4, RunFields DEF NamedTask, EventsInv
<1>3. CASE OnStarted(i)
  <2>1. NamedTask(i) \in Tasks
    BY <1>2, <1>3 DEF OnStarted, Takes
  <2>2. cache' \in [Tasks -> Texts]
    BY <1>3, <2>1 DEF OnStarted, EventsInv, LoopTypeOK, Texts
  <2> QED BY <1>3, <2>1, <2>2, TakesKeepsInv DEF OnStarted
<1>4. CASE OnText(i)
  <2>1. PICK c \in (IF current[i] = None THEN Resolved(i) ELSE {current[i]}) :
          /\ Takes(i, "text_delta", c)
          /\ LET e == Head(chan[i])
             IN cache' = IF c = None THEN cache
                         ELSE [cache EXCEPT ![c] = Append(@, <<e.run, e.piece>>)]
          /\ UNCHANGED saved
    BY <1>4 DEF OnText
  <2>2. c \in Tasks \cup {None}
    BY DEF Resolved, Mine, WithStatus, EventsInv, LoopTypeOK
  <2>3. /\ Head(chan[i]).run \in 1 .. MaxRuns
        /\ Head(chan[i]).piece \in 1 .. MaxPieces
    BY <1>2, <2>1, EventAssumption DEF Takes, Event, IsEventOf
  <2>4. cache' \in [Tasks -> Texts]
    <3> DEFINE x == <<Head(chan[i]).run, Head(chan[i]).piece>>
    <3>1. x \in (1 .. MaxRuns) \X (1 .. MaxPieces)
      BY <2>3
    <3>2. cache \in [Tasks -> Texts]
      BY DEF EventsInv, LoopTypeOK
    <3>3. c # None => cache' = [cache EXCEPT ![c] = Append(cache[c], x)]
      BY <2>1
    <3>4. c = None => cache' = cache
      BY <2>1
    <3> HIDE DEF x
    <3>5. c \in Tasks => Append(cache[c], x) \in Texts
      BY <3>1, <3>2 DEF Texts
    <3> QED BY <2>2, <3>2, <3>3, <3>4, <3>5
  <2> QED BY <2>1, <2>2, <2>4, TakesKeepsInv
<1>5. CASE OnEnded(i)
  <2> DEFINE c == IF current[i] = None THEN NamedTask(i) ELSE current[i]
  <2>1. Takes(i, "task_ended", c) /\ UNCHANGED cache
        /\ saved' = [saved EXCEPT ![Head(chan[i]).run] = [task |-> c, text |-> cache[c]]]
    BY <1>5 DEF OnEnded
  <2>2. c \in Tasks
    BY <1>2, <2>1 DEF Takes, EventsInv, LoopTypeOK
  <2>3. cache' \in [Tasks -> Texts]
    BY <2>1 DEF EventsInv, LoopTypeOK
  <2> HIDE DEF c
  <2> QED BY <2>1, <2>2, <2>3, TakesKeepsInv
<1> QED BY <1>1, <1>3, <1>4, <1>5 DEF Forward

LEMMA EventsStep ==
    ASSUME EventsInv, [LoopNext]_loopVars
    PROVE  EventsInv'
<1>1. CASE UNCHANGED loopVars
  BY <1>1 DEF loopVars, storage, forwarder, output, EventsInv, LoopTypeOK, IsEventOf
<1>2. ASSUME NEW i \in Loops,
             \/ \E t \in Tasks : RunStarts(i, t)
             \/ RunWrites(i) \/ RunEnds(i)
             \/ Forward(i)
      PROVE  EventsInv'
  BY <1>2, RunStartsKeepsInv, RunWritesKeepsInv, RunEndsKeepsInv, ForwardKeepsInv
<1>3. ASSUME NEW i \in Loops, Guess(i)
      PROVE  EventsInv'
  BY <1>3 DEF Guess, Resolved, Mine, WithStatus, EventsInv, LoopTypeOK, storage, output,
              IsEventOf
<1>4. ASSUME NEW i \in Loops, Subscribe(i)
      PROVE  EventsInv'
  <2>1. /\ UNCHANGED <<status, assignee, runs, chan, lagging, current, saved, lost>>
        /\ conn' = [conn EXCEPT ![i] = "subscribed"]
        /\ cache' = [t \in Tasks |-> IF t = current[i] THEN <<>> ELSE cache[t]]
    BY <1>4 DEF Subscribe, storage
  <2>2. cache' \in [Tasks -> Texts] /\ conn' \in [Loops -> {"new", "guessed", "subscribed"}]
    BY <2>1 DEF EventsInv, LoopTypeOK, Texts
  <2>3. LoopTypeOK'
    BY <2>1, <2>2 DEF EventsInv, LoopTypeOK
  <2> QED BY <2>1, <2>3 DEF EventsInv, IsEventOf
<1> QED BY <1>1, <1>2, <1>3, <1>4 DEF LoopNext

----------------------------------------------------------------------------
(* A server with one loop.                                                 *)

\* What a channel looks like after sending: its pairs of neighbours are old ones, or
\* the last event and the new one; its first event is the old one, or the new one,
\* or follows one that was lost.
LEMMA SendChains ==
    ASSUME EventsInv, NEW i \in Loops, NEW e \in Event, Send(i, e),
           conn[i] = "subscribed"
    PROVE  /\ chan'[i] \in Seq(Event) /\ chan'[i] # <<>>
           /\ chan'[i][Len(chan'[i])] = e
           /\ \A n \in 1 .. Len(chan'[i]) - 1 :
                 \/ /\ chan[i] # <<>> /\ chan'[i][n] = chan[i][Len(chan[i])]
                    /\ chan'[i][n + 1] = e
                 \/ \E m \in 1 .. Len(chan[i]) - 1 :
                       chan'[i][n] = chan[i][m] /\ chan'[i][n + 1] = chan[i][m + 1]
           /\ \/ chan[i] # <<>> /\ chan'[i][1] = chan[i][1] /\ lost' = lost
              \/ chan[i] = <<>> /\ chan'[i][1] = e /\ lost' = lost
              \/ /\ chan[i] # <<>> /\ lost' = lost \cup {chan[i][1].run}
                 /\ \/ /\ chan'[i][1] = e /\ Len(chan[i]) = 1
                    \/ chan'[i][1] = chan[i][2] /\ 1 \in 1 .. Len(chan[i]) - 1
<1> DEFINE old == chan[i]
<1>1. old \in Seq(Event) /\ Len(old) <= Capacity /\ Len(old) \in Nat
  BY DEF EventsInv, LoopTypeOK
<1>2. CASE Len(old) < Capacity
  <2> DEFINE new == Append(old, e)
  <2>1. chan'[i] = new /\ lost' = lost
    BY <1>2 DEF Send, EventsInv, LoopTypeOK
  <2>2. /\ new \in Seq(Event) /\ Len(new) = Len(old) + 1 /\ new # <<>>
        /\ new[Len(new)] = e
        /\ \A n \in 1 .. Len(old) : new[n] = old[n]
    BY <1>1
  <2>3. \A n \in 1 .. Len(new) - 1 :
            \/ old # <<>> /\ new[n] = old[Len(old)] /\ new[n + 1] = e
            \/ \E m \in 1 .. Len(old) - 1 : new[n] = old[m] /\ new[n + 1] = old[m + 1]
    <3> SUFFICES ASSUME NEW n \in 1 .. Len(new) - 1
                 PROVE  \/ old # <<>> /\ new[n] = old[Len(old)] /\ new[n + 1] = e
                        \/ \E m \in 1 .. Len(old) - 1 :
                              new[n] = old[m] /\ new[n + 1] = old[m + 1]
      OBVIOUS
    <3>1. CASE n = Len(old)
      BY <1>1, <2>2, <3>1
    <3>2. CASE n # Len(old)
      <4>1. n \in 1 .. Len(old) - 1 /\ n + 1 \in 1 .. Len(old) /\ n \in 1 .. Len(old)
        BY <1>1, <2>2, <3>2
      <4> QED BY <2>2, <4>1
    <3> QED BY <3>1, <3>2
  <2>4. \/ old # <<>> /\ new[1] = old[1]
        \/ old = <<>> /\ new[1] = e
    BY <1>1, <2>2
  <2> HIDE DEF new, old
  <2> QED BY <2>1, <2>2, <2>3, <2>4 DEF old
<1>3. CASE ~(Len(old) < Capacity)
  <2> DEFINE new == Append(Tail(old), e)
  <2>1. Len(old) = Capacity /\ old # <<>> /\ Len(old) \in Nat \ {0}
    BY <1>1, <1>3, EventAssumption
  <2>2. chan'[i] = new /\ lost' = lost \cup {Head(old).run} /\ Head(old) = old[1]
    BY <1>1, <1>3, <2>1 DEF Send, EventsInv, LoopTypeOK
  <2>3. /\ new \in Seq(Event) /\ Len(new) = Len(old) /\ new # <<>>
        /\ new[Len(new)] = e
        /\ \A n \in 1 .. Len(old) - 1 : new[n] = old[n + 1]
    BY <1>1, <2>1
  <2>4. \A n \in 1 .. Len(new) - 1 :
            \/ old # <<>> /\ new[n] = old[Len(old)] /\ new[n + 1] = e
            \/ \E m \in 1 .. Len(old) - 1 : new[n] = old[m] /\ new[n + 1] = old[m + 1]
    <3> SUFFICES ASSUME NEW n \in 1 .. Len(new) - 1
                 PROVE  \/ old # <<>> /\ new[n] = old[Len(old)] /\ new[n + 1] = e
                        \/ \E m \in 1 .. Len(old) - 1 :
                              new[n] = old[m] /\ new[n + 1] = old[m + 1]
      OBVIOUS
    <3>1. CASE n + 1 = Len(old)
      BY <1>1, <2>1, <2>3, <3>1
    <3>2. CASE n + 1 # Len(old)
      <4>1. n + 1 \in 1 .. Len(old) - 1 /\ n \in 1 .. Len(old) - 1
        BY <1>1, <2>1, <2>3, <3>2
      <4> QED BY <2>3, <4>1
    <3> QED BY <3>1, <3>2
  <2>5. \/ new[1] = e /\ Len(old) = 1
        \/ new[1] = old[2] /\ 1 \in 1 .. Len(old) - 1
    <3>1. CASE Len(old) = 1
      BY <2>3, <3>1
    <3>2. CASE Len(old) # 1
      <4>1. 1 \in 1 .. Len(old) - 1
        BY <2>1, <3>2
      <4> QED BY <2>3, <4>1
    <3> QED BY <3>1, <3>2
  <2> HIDE DEF new, old
  <2> QED BY <2>1, <2>2, <2>3, <2>4, <2>5 DEF old
<1> QED BY <1>2, <1>3

\* The automaton goes on and sends e, which follows what it has sent last.
LEMMA SendKeepsChannel ==
    ASSUME EventsInv, OneLoop, NEW i \in Loops, ChannelInv(i), IntactRunIsSaved,
           NEW e \in Event, Send(i, e),
           runs' \in Seq(Run), Len(runs) <= Len(runs'),
           \A q \in DOMAIN runs : /\ runs'[q].task = runs[q].task
                                  /\ ~runs[q].open => /\ ~runs'[q].open
                                                      /\ runs'[q].pieces = runs[q].pieces,
           \A q \in DOMAIN runs' : q = e.run \/ (q \in DOMAIN runs /\ ~runs[q].open),
           e.run \in DOMAIN runs' /\ e.run = Len(runs'),
           chan[i] # <<>> => Follows(chan[i][Len(chan[i])], e, runs'),
           IsLatest(e, runs'),
           e.type = "task_started" => e.run \notin DOMAIN runs,
           e.type # "task_started" =>
              /\ e.run \in DOMAIN runs /\ runs[e.run].open
              /\ e.type = "text_delta" => e.piece - 1 = runs[e.run].pieces
              /\ e.type = "task_ended" => runs'[e.run].pieces = runs[e.run].pieces,
           EventsInv', UNCHANGED <<forwarder, output>>
    PROVE  ChannelInv(i)' /\ IntactRunIsSaved'
<1> USE DEF forwarder, output
<1>1. lost \subseteq lost' /\ Len(runs) \in Nat /\ Len(runs') \in Nat
      /\ DOMAIN runs = 1 .. Len(runs) /\ DOMAIN runs' = 1 .. Len(runs')
  BY DEF Send, EventsInv, LoopTypeOK
<1>2. IntactRunIsSaved'
  <2> SUFFICES ASSUME NEW r \in DOMAIN runs', saved'[r] # None, r \notin lost'
               PROVE  saved'[r] = [task |-> runs'[r].task,
                                   text |-> [k \in 1 .. runs'[r].pieces |-> <<r, k>>]]
    BY DEF IntactRunIsSaved, Whole
  <2>1. r \in 1 .. MaxRuns
    BY <1>1, EventAssumption DEF EventsInv, LoopTypeOK
  <2>2. r \in DOMAIN runs /\ ~runs[r].open
    BY <2>1 DEF EventsInv
  <2> QED BY <1>1, <2>2 DEF IntactRunIsSaved, Whole
<1>3. \A r \in DOMAIN runs' : runs'[r].open => r = Len(runs')
  BY <1>1
<1>4. CASE conn[i] # "subscribed"
  <2>1. chan' = chan /\ lost' = lost \cup {e.run}
    BY <1>4 DEF Send
  <2>2. chan[i] = <<>> /\ DOMAIN runs \subseteq lost
    BY <1>4 DEF ChannelInv
  <2>3. DOMAIN runs' \subseteq lost'
    BY <2>1, <2>2
  <2> QED BY <1>2, <1>3, <1>4, <2>1, <2>2, <2>3 DEF ChannelInv
<1>5. CASE conn[i] = "subscribed"
  <2> DEFINE old == chan[i]
             new == chan'[i]
  <2>0. old \in Seq(Event) /\ Len(old) \in Nat
    BY DEF EventsInv, LoopTypeOK
  <2>1. /\ new \in Seq(Event) /\ new # <<>> /\ new[Len(new)] = e
        /\ old \in Seq(Event) /\ Len(old) \in Nat
    BY <1>5, <2>0, SendChains
  <2>2. ASSUME NEW x, NEW y, Follows(x, y, runs), IsEventOf(x, runs), IsEventOf(y, runs)
        PROVE  Follows(x, y, runs')
    BY <2>2 DEF Follows, IsEventOf, Ev
  <2>3. \A n \in 1 .. Len(old) : IsEventOf(old[n], runs)
    BY <2>1 DEF EventsInv
  <2>4. \A m \in 1 .. Len(old) - 1 : Follows(old[m], old[m + 1], runs')
    <3> SUFFICES ASSUME NEW m \in 1 .. Len(old) - 1
                 PROVE  Follows(old[m], old[m + 1], runs')
      OBVIOUS
    <3>1. m \in 1 .. Len(old) /\ m + 1 \in 1 .. Len(old)
      BY <2>1
    <3> QED BY <2>2, <2>3, <3>1 DEF ChannelInv
  <2>5. \A n \in 1 .. Len(new) - 1 : Follows(new[n], new[n + 1], runs')
    <3>1. \A n \in 1 .. Len(chan'[i]) - 1 :
             \/ /\ chan[i] # <<>> /\ chan'[i][n] = chan[i][Len(chan[i])]
                /\ chan'[i][n + 1] = e
             \/ \E m \in 1 .. Len(chan[i]) - 1 :
                   chan'[i][n] = chan[i][m] /\ chan'[i][n + 1] = chan[i][m + 1]
      BY <1>5, SendChains
    <3> QED BY <2>4, <3>1
  <2> DEFINE Ready(x) ==
                 /\ x.type = "text_delta" =>
                       /\ current[i] = runs'[x.run].task
                       /\ cache[runs'[x.run].task] = [j \in 1 .. x.piece - 1 |-> <<x.run, j>>]
                 /\ x.type = "task_ended" =>
                       /\ current[i] = runs'[x.run].task
                       /\ cache[runs'[x.run].task] =
                             [j \in 1 .. runs'[x.run].pieces |-> <<x.run, j>>]
  <2>6. ASSUME new[1].run \notin lost'
        PROVE  Ready(new[1])
    <3>1. CASE old # <<>> /\ new[1] = old[1] /\ lost' = lost
      <4>1. IsEventOf(new[1], runs)
        BY <2>1, <2>3, <3>1
      <4>2. ReadyFor(i, new[1])
        BY <2>6, <3>1 DEF ChannelInv
      <4> QED BY <4>1, <4>2 DEF IsEventOf, ReadyFor, HasHeard
    <3>2. CASE old = <<>> /\ new[1] = e /\ lost' = lost
      <4>1. e.type # "task_started" => HasHeard(i, e.run, runs[e.run].pieces)
        <5>1. e.run \notin lost /\ chan[i] = <<>>
          BY <2>6, <3>2
        <5> QED BY <5>1 DEF ChannelInv
      <4>2. ASSUME e.type = "text_delta"
            PROVE  /\ current[i] = runs'[e.run].task
                   /\ cache[runs'[e.run].task] = [j \in 1 .. e.piece - 1 |-> <<e.run, j>>]
        BY <4>1, <4>2 DEF HasHeard
      <4>3. ASSUME e.type = "task_ended"
            PROVE  /\ current[i] = runs'[e.run].task
                   /\ cache[runs'[e.run].task] =
                         [j \in 1 .. runs'[e.run].pieces |-> <<e.run, j>>]
        BY <4>1, <4>3 DEF HasHeard
      <4>4. Ready(e) /\ new[1] = e
        BY <3>2, <4>2, <4>3
      <4> HIDE DEF Ready
      <4> QED BY <4>4
    <3>3. CASE /\ old # <<>> /\ lost' = lost \cup {old[1].run}
               /\ \/ new[1] = e /\ Len(old) = 1
                  \/ new[1] = old[2] /\ 1 \in 1 .. Len(old) - 1
      <4>1. Follows(old[1], new[1], runs')
        BY <2>1, <2>4, <3>3
      <4> QED BY <2>6, <3>3, <4>1 DEF Follows, Ev
    <3> QED BY <1>5, <3>1, <3>2, <3>3, SendChains
  <2> HIDE DEF old
  <2> QED BY <1>2, <1>3, <1>5, <2>1, <2>5, <2>6 DEF ChannelInv, ReadyFor, HasHeard
<1> QED BY <1>4, <1>5

\* With one loop, an automaton without an open run has none at all.
LEMMA RunsOfTheLoop ==
    ASSUME EventsInv, OneLoop, NEW i \in Loops
    PROVE  \A r \in DOMAIN runs : runs[r].loop = i
BY RunFields DEF EventsInv, OneLoop

\* The last event is one of the run that goes on.
LEMMA LatestIsOfRun ==
    ASSUME EventsInv, NEW i \in Loops, ChannelInv(i), chan[i] # <<>>
    PROVE  /\ IsLatest(chan[i][Len(chan[i])], runs)
           /\ chan[i][Len(chan[i])].run = Len(runs) /\ Len(runs) \in DOMAIN runs
<1>1. chan[i] \in Seq(Event) /\ Len(chan[i]) \in DOMAIN chan[i]
  BY DEF EventsInv, LoopTypeOK
<1>2. IsEventOf(chan[i][Len(chan[i])], runs)
  BY <1>1 DEF EventsInv
<1> QED BY <1>2 DEF ChannelInv, IsLatest, IsEventOf

\* The actions keep what the one loop's forwarder needs, one by one.
LEMMA RunStartsKeepsChannel ==
    ASSUME EventsInv, OneLoop, NEW i \in Loops, ChannelInv(i), IntactRunIsSaved,
           NEW t \in Tasks, RunStarts(i, t), EventsInv'
    PROVE  ChannelInv(i)' /\ IntactRunIsSaved'
<1> DEFINE r == Len(runs) + 1
           e == Ev("task_started", r, 0)
           run == [loop |-> i, task |-> t, pieces |-> 0, open |-> TRUE]
<1>1. r \in 1 .. MaxRuns /\ e \in Event /\ e.run = r /\ e.type = "task_started"
  BY EventAssumption DEF RunStarts, EventsInv, LoopTypeOK, Event, Ev
<1>2. /\ runs' \in Seq(Run) /\ Len(runs') = r /\ Len(runs) \in Nat
      /\ DOMAIN runs = 1 .. Len(runs) /\ DOMAIN runs' = 1 .. r
      /\ runs'[r] = run /\ \A q \in 1 .. Len(runs) : runs'[q] = runs[q]
  BY DEF RunStarts, EventsInv, LoopTypeOK
<1>3. \A q \in DOMAIN runs : ~runs[q].open
  BY RunsOfTheLoop DEF RunStarts, OpenRuns
<1>4. chan[i] # <<>> => Follows(chan[i][Len(chan[i])], e, runs')
  BY <1>3, LatestIsOfRun DEF Follows, IsLatest
<1>5. IsLatest(e, runs')
  BY <1>2 DEF IsLatest, Ev
<1>6. Send(i, e) /\ UNCHANGED <<forwarder, output>>
  BY DEF RunStarts
<1>7. Len(runs) <= Len(runs') /\ \A q \in DOMAIN runs' : q = r \/ q \in DOMAIN runs
  BY <1>2
<1>8. r \in DOMAIN runs' /\ r \notin DOMAIN runs
  BY <1>2
<1> HIDE DEF e, r, run
<1> QED BY <1>1, <1>2, <1>3, <1>4, <1>5, <1>6, <1>7, <1>8, SendKeepsChannel

LEMMA RunWritesKeepsChannel ==
    ASSUME EventsInv, OneLoop, NEW i \in Loops, ChannelInv(i), IntactRunIsSaved,
           RunWrites(i), EventsInv'
    PROVE  ChannelInv(i)' /\ IntactRunIsSaved'
<1>1. PICK r \in OpenRuns(i) :
        /\ runs[r].pieces < MaxPieces
        /\ runs' = [runs EXCEPT ![r].pieces = @ + 1]
        /\ Send(i, Ev("text_delta", r, runs[r].pieces + 1))
        /\ UNCHANGED <<storage, forwarder, output>>
  BY DEF RunWrites
<1> DEFINE e == Ev("text_delta", r, runs[r].pieces + 1)
           run == [runs[r] EXCEPT !.pieces = @ + 1]
<1>2. r \in DOMAIN runs /\ runs[r].open /\ r = Len(runs)
  BY DEF OpenRuns, ChannelInv
<1>3. /\ r \in 1 .. MaxRuns /\ runs[r] \in Run /\ runs[r].pieces \in Nat
      /\ e \in Event /\ e.run = r /\ e.type = "text_delta"
      /\ e.piece = runs[r].pieces + 1
  BY <1>1, <1>2, RunFields, EventAssumption DEF EventsInv, Event, Ev
<1>4. /\ run.pieces = runs[r].pieces + 1 /\ run.open = runs[r].open
      /\ run.task = runs[r].task
  BY <1>3 DEF Run
<1>5. runs' = [runs EXCEPT ![r] = run] /\ runs \in Seq(Run)
  BY <1>1 DEF EventsInv, LoopTypeOK
<1> HIDE DEF run
<1>6. /\ runs' \in Seq(Run) /\ Len(runs') = Len(runs) /\ DOMAIN runs' = DOMAIN runs
      /\ runs'[r] = run /\ \A q \in DOMAIN runs : q # r => runs'[q] = runs[q]
      /\ Len(runs) <= Len(runs')
  BY <1>2, <1>5 DEF EventsInv, LoopTypeOK
<1>7. \A q \in DOMAIN runs :
         /\ runs'[q].task = runs[q].task
         /\ ~runs[q].open => ~runs'[q].open /\ runs'[q].pieces = runs[q].pieces
  BY <1>2, <1>4, <1>6
<1>8. \A q \in DOMAIN runs' : q = r \/ (q \in DOMAIN runs /\ ~runs[q].open)
  BY <1>2, <1>6 DEF ChannelInv
<1>9. chan[i] # <<>> => Follows(chan[i][Len(chan[i])], e, runs')
  BY <1>2, LatestIsOfRun DEF Follows, IsLatest
<1>10. IsLatest(e, runs')
  BY <1>2, <1>3, <1>4, <1>6 DEF IsLatest
<1>11. e.piece - 1 = runs[r].pieces
  BY <1>3
<1>12. Send(i, e) /\ UNCHANGED <<forwarder, output>>
  BY <1>1
<1> HIDE DEF e
<1> QED BY <1>2, <1>3, <1>6, <1>7, <1>8, <1>9, <1>10, <1>11, <1>12, SendKeepsChannel

LEMMA RunEndsKeepsChannel ==
    ASSUME EventsInv, OneLoop, NEW i \in Loops, ChannelInv(i), IntactRunIsSaved,
           RunEnds(i), EventsInv'
    PROVE  ChannelInv(i)' /\ IntactRunIsSaved'
<1>1. PICK r \in OpenRuns(i) :
        /\ runs' = [runs EXCEPT ![r].open = FALSE]
        /\ \E s \in {"done", "ready"} : status' = [status EXCEPT ![runs[r].task] = s]
        /\ Send(i, Ev("task_ended", r, 0))
        /\ UNCHANGED <<assignee, forwarder, output>>
  BY DEF RunEnds
<1> DEFINE e == Ev("task_ended", r, 0)
           run == [runs[r] EXCEPT !.open = FALSE]
<1>2. r \in DOMAIN runs /\ runs[r].open /\ r = Len(runs)
  BY DEF OpenRuns, ChannelInv
<1>3. /\ r \in 1 .. MaxRuns /\ runs[r] \in Run /\ runs[r].pieces \in Nat
      /\ e \in Event /\ e.run = r /\ e.type = "task_ended"
  BY <1>1, <1>2, RunFields, EventAssumption DEF EventsInv, Event, Ev
<1>4. run.pieces = runs[r].pieces /\ ~run.open /\ run.task = runs[r].task
  BY <1>3 DEF Run
<1>5. runs' = [runs EXCEPT ![r] = run] /\ runs \in Seq(Run)
  BY <1>1 DEF EventsInv, LoopTypeOK
<1> HIDE DEF run
<1>6. /\ runs' \in Seq(Run) /\ Len(runs') = Len(runs) /\ DOMAIN runs' = DOMAIN runs
      /\ runs'[r] = run /\ \A q \in DOMAIN runs : q # r => runs'[q] = runs[q]
      /\ Len(runs) <= Len(runs')
  BY <1>2, <1>5 DEF EventsInv, LoopTypeOK
<1>7. \A q \in DOMAIN runs :
         /\ runs'[q].task = runs[q].task
         /\ ~runs[q].open => ~runs'[q].open /\ runs'[q].pieces = runs[q].pieces
  BY <1>2, <1>4, <1>6
<1>8. \A q \in DOMAIN runs' : q = r \/ (q \in DOMAIN runs /\ ~runs[q].open)
  BY <1>2, <1>6 DEF ChannelInv
<1>9. chan[i] # <<>> => Follows(chan[i][Len(chan[i])], e, runs')
  BY <1>2, <1>4, <1>6, LatestIsOfRun DEF Follows, IsLatest
<1>10. IsLatest(e, runs') /\ runs'[r].pieces = runs[r].pieces
  BY <1>2, <1>3, <1>4, <1>6 DEF IsLatest
<1>11. Send(i, e) /\ UNCHANGED <<forwarder, output>>
  BY <1>1
<1> HIDE DEF e
<1> QED BY <1>2, <1>3, <1>6, <1>7, <1>8, <1>9, <1>10, <1>11, SendKeepsChannel

\* What the channel has when the forwarder has taken its first event e: that of the
\* next follows it, and if there is none, e was the last.
LEMMA NextToTake ==
    ASSUME EventsInv, NEW i \in Loops, ChannelInv(i), NEW type, NEW c, Takes(i, type, c)
    PROVE  LET e == Head(chan[i])
               new == Tail(chan[i])
           IN  /\ chan' = [chan EXCEPT ![i] = new] /\ new \in Seq(Event)
               /\ e = chan[i][1] /\ IsEventOf(e, runs) /\ e.type = type
               /\ \A n \in 1 .. Len(new) : n + 1 \in 1 .. Len(chan[i]) /\ new[n] = chan[i][n + 1]
               /\ Len(new) = Len(chan[i]) - 1 /\ chan[i] # <<>> /\ Len(chan[i]) \in Nat \ {0}
               /\ new # <<>> => /\ Follows(e, new[1], runs) /\ IsEventOf(new[1], runs)
                                /\ 1 \in 1 .. Len(new)
               /\ new = <<>> => IsLatest(e, runs)
               /\ e.run \notin lost => ReadyFor(i, e)
<1> DEFINE old == chan[i]
           new == Tail(old)
           e == Head(old)
<1>1. /\ old \in Seq(Event) /\ old # <<>> /\ e.type = type
      /\ chan' = [chan EXCEPT ![i] = new]
  BY DEF EventsInv, LoopTypeOK, Takes
<1>2. /\ new \in Seq(Event) /\ Len(new) = Len(old) - 1 /\ Len(old) \in Nat \ {0}
      /\ \A n \in 1 .. Len(new) : n + 1 \in 1 .. Len(old) /\ new[n] = old[n + 1]
      /\ 1 \in DOMAIN old /\ e = old[1]
  BY <1>1
<1>3. IsEventOf(e, runs)
  BY <1>2 DEF EventsInv
<1>4. ASSUME new # <<>>
      PROVE  /\ Follows(e, new[1], runs) /\ IsEventOf(new[1], runs) /\ 1 \in 1 .. Len(new)
  <2>1. 1 \in 1 .. Len(new) /\ 1 \in 1 .. Len(old) - 1 /\ 2 \in DOMAIN old /\ new[1] = old[2]
    BY <1>1, <1>2, <1>4
  <2> HIDE DEF new, e
  <2>2. Follows(old[1], old[1 + 1], runs)
    BY <2>1 DEF ChannelInv
  <2>3. IsEventOf(old[2], runs)
    BY <2>1 DEF EventsInv
  <2> QED BY <1>2, <2>1, <2>2, <2>3
<1>5. ASSUME new = <<>>
      PROVE  IsLatest(e, runs)
  <2> HIDE DEF new, old
  <2>1. Len(new) = 0
    BY <1>5
  <2>2. Len(old) = 1
    BY <1>2, <2>1
  <2> QED BY <1>1, <1>2, <2>2 DEF ChannelInv, old
<1>6. e.run \notin lost => ReadyFor(i, e)
  BY <1>1, <1>2 DEF ChannelInv
<1> QED BY <1>1, <1>2, <1>3, <1>4, <1>5, <1>6

\* The forwarder takes an event, and if no event of its run was lost, what it then has
\* is what the next event needs.
LEMMA TakesKeepsChannel ==
    ASSUME EventsInv, NEW i \in Loops, ChannelInv(i), IntactRunIsSaved,
           NEW type, NEW c, Takes(i, type, c), NEW e, e = Head(chan[i]),
           e.type # "task_ended" /\ e.run \notin lost =>
              /\ current'[i] = runs[e.run].task
              /\ cache'[runs[e.run].task] = [j \in 1 .. e.piece |-> <<e.run, j>>],
           \A r \in DOMAIN runs :
              \/ saved'[r] = saved[r]
              \/ r \in lost
              \/ saved'[r] = [task |-> runs[r].task, text |-> Whole(r)]
    PROVE  ChannelInv(i)' /\ IntactRunIsSaved'
<1> DEFINE old == chan[i]
           new == Tail(chan[i])
<1>1. /\ chan' = [chan EXCEPT ![i] = new] /\ IsEventOf(e, runs)
      /\ \A n \in 1 .. Len(new) : n + 1 \in 1 .. Len(old) /\ new[n] = old[n + 1]
      /\ Len(new) = Len(old) - 1 /\ old # <<>> /\ Len(old) \in Nat \ {0}
      /\ new # <<>> => Follows(e, new[1], runs) /\ 1 \in 1 .. Len(new)
      /\ new = <<>> => IsLatest(e, runs)
  BY NextToTake
<1>2. chan'[i] = new
  BY <1>1 DEF EventsInv, LoopTypeOK
<1>3. UNCHANGED <<runs, conn, lost>> /\ conn[i] = "subscribed"
  BY DEF Takes
<1> HIDE DEF new, old
<1>4. \A n \in 1 .. Len(new) - 1 : Follows(new[n], new[n + 1], runs)
  <2> SUFFICES ASSUME NEW n \in 1 .. Len(new) - 1
               PROVE  Follows(new[n], new[n + 1], runs)
    OBVIOUS
  <2>1. /\ new[n] = old[n + 1] /\ new[n + 1] = old[(n + 1) + 1]
        /\ n + 1 \in 1 .. Len(old) - 1
    BY <1>1
  <2> QED BY <2>1 DEF ChannelInv, old
<1>5. new # <<>> => IsLatest(new[Len(new)], runs)
  <2>1. new # <<>> => new[Len(new)] = old[Len(old)]
    BY <1>1
  <2> QED BY <1>1, <2>1 DEF ChannelInv, old
<1>6. e.piece \in Nat /\ e.run \in DOMAIN runs
  BY <1>1, RunFields, EventAssumption DEF IsEventOf, EventsInv
<1> DEFINE Heard(r, k) == /\ current'[i] = runs[r].task
                          /\ cache'[runs[r].task] = [j \in 1 .. k |-> <<r, j>>]
<1>7. ASSUME new # <<>>, new[1].run \notin lost
      PROVE  /\ new[1].type = "text_delta" => Heard(new[1].run, new[1].piece - 1)
             /\ new[1].type = "task_ended" => Heard(new[1].run, runs[new[1].run].pieces)
  <2>1. Follows(e, new[1], runs)
    BY <1>1, <1>7
  <2>2. CASE e.type # "task_ended" /\ new[1] = Ev("text_delta", e.run, e.piece + 1)
    <3>1. /\ new[1].run = e.run /\ new[1].piece - 1 = e.piece
          /\ new[1].type = "text_delta"
      BY <1>6, <2>2 DEF Ev
    <3>2. Heard(e.run, e.piece)
      BY <1>7, <2>2, <3>1
    <3> HIDE DEF Heard
    <3> QED BY <3>1, <3>2
  <2>3. CASE /\ e.type # "task_ended" /\ e.piece = runs[e.run].pieces
             /\ new[1] = Ev("task_ended", e.run, 0)
    <3>1. new[1].run = e.run /\ new[1].type = "task_ended"
      BY <2>3 DEF Ev
    <3>2. Heard(e.run, e.piece)
      BY <1>7, <2>3, <3>1
    <3> HIDE DEF Heard
    <3> QED BY <2>3, <3>1, <3>2
  <2>4. CASE new[1] = Ev("task_started", e.run + 1, 0)
    BY <2>4 DEF Ev
  <2> QED BY <2>1, <2>2, <2>3, <2>4 DEF Follows
<1>8. ASSUME new = <<>>, NEW r \in DOMAIN runs \ lost, runs[r].open
      PROVE  Heard(r, runs[r].pieces)
  <2>1. IsLatest(e, runs) /\ r = Len(runs)
    BY <1>1, <1>8 DEF ChannelInv
  <2>2. e.run = r /\ e.type # "task_ended" /\ e.piece = runs[r].pieces
    BY <1>8, <2>1 DEF IsLatest
  <2>3. Heard(e.run, e.piece)
    BY <1>8, <2>2
  <2> HIDE DEF Heard
  <2> QED BY <2>2, <2>3
<1>9. IntactRunIsSaved'
  BY <1>3 DEF IntactRunIsSaved, Whole
<1>10. ChannelInv(i)'
  BY <1>2, <1>3, <1>4, <1>5, <1>7, <1>8 DEF ChannelInv, ReadyFor, HasHeard
<1> QED BY <1>9, <1>10

LEMMA ForwardKeepsChannel ==
    ASSUME EventsInv, NEW i \in Loops, ChannelInv(i), IntactRunIsSaved, Forward(i)
    PROVE  ChannelInv(i)' /\ IntactRunIsSaved'
<1> DEFINE e == Head(chan[i])
           t == runs[e.run].task
<1>1. CASE Lagged(i)
  BY <1>1 DEF Lagged, storage, forwarder, output, ChannelInv, IntactRunIsSaved, ReadyFor,
              HasHeard, Whole
<1>2. ASSUME NEW type, NEW c, Takes(i, type, c)
      PROVE  /\ IsEventOf(e, runs) /\ e.type = type /\ e.run \in DOMAIN runs
             /\ t \in Tasks /\ e.run \in 1 .. MaxRuns
             /\ e.run \notin lost => ReadyFor(i, e)
             /\ current'[i] = c
  <2>1. e.run \notin lost => ReadyFor(i, e)
    BY <1>2, NextToTake
  <2>2. e.type = type /\ IsEventOf(e, runs)
    BY <1>2, NextToTake
  <2>3. e.run \in DOMAIN runs
    BY <2>2 DEF IsEventOf
  <2>4. t \in Tasks /\ e.run \in 1 .. MaxRuns
    BY <2>3, RunFields DEF EventsInv
  <2>5. current'[i] = c
    BY <1>2 DEF Takes, EventsInv, LoopTypeOK
  <2> QED BY <1>2, <2>1, <2>2, <2>3, <2>4, <2>5, NextToTake
<1>3. CASE OnStarted(i)
  <2>1. /\ Takes(i, "task_started", t) /\ cache' = [cache EXCEPT ![t] = <<>>]
        /\ UNCHANGED saved
    BY <1>3 DEF OnStarted, NamedTask
  <2>2. /\ e.type = "task_started" /\ t \in Tasks /\ IsEventOf(e, runs)
        /\ current'[i] = t
    BY <1>2, <2>1
  <2>3. e.piece = 0 /\ cache'[t] = <<>>
    BY <2>1, <2>2 DEF IsEventOf, EventsInv, LoopTypeOK
  <2>4. [j \in 1 .. e.piece |-> <<e.run, j>>] = <<>>
    BY <2>3
  <2>5. e = Head(chan[i])
    OBVIOUS
  <2> HIDE DEF e
  <2>6. current'[i] = runs[e.run].task
        /\ cache'[runs[e.run].task] = [j \in 1 .. e.piece |-> <<e.run, j>>]
    BY <2>2, <2>3, <2>4
  <2> HIDE DEF t
  <2> QED BY <2>1, <2>5, <2>6, TakesKeepsChannel
<1>4. CASE OnText(i)
  <2>1. PICK c \in (IF current[i] = None THEN Resolved(i) ELSE {current[i]}) :
          /\ Takes(i, "text_delta", c)
          /\ cache' = IF c = None THEN cache
                      ELSE [cache EXCEPT ![c] = Append(@, <<e.run, e.piece>>)]
          /\ UNCHANGED saved
    BY <1>4 DEF OnText
  <2>2. ASSUME e.run \notin lost
        PROVE  /\ current'[i] = t
               /\ cache'[t] = [j \in 1 .. e.piece |-> <<e.run, j>>]
    <3>1. /\ e.type = "text_delta" /\ t \in Tasks /\ IsEventOf(e, runs)
          /\ current'[i] = c /\ ReadyFor(i, e) /\ e.run \in DOMAIN runs
      BY <1>2, <2>1, <2>2
    <3>2. /\ current[i] = t /\ cache[t] = [j \in 1 .. e.piece - 1 |-> <<e.run, j>>]
      BY <3>1 DEF ReadyFor, HasHeard
    <3>3. c = t /\ c # None
      BY <2>1, <3>1, <3>2, EventAssumption
    <3>4. e.piece \in Nat \ {0}
      BY <3>1, RunFields, EventAssumption DEF IsEventOf, EventsInv
    <3>5. cache'[t] = Append(cache[t], <<e.run, e.piece>>)
      BY <2>1, <3>1, <3>3 DEF EventsInv, LoopTypeOK
    <3> HIDE DEF e, t
    <3>6. Append([j \in 1 .. e.piece - 1 |-> <<e.run, j>>], <<e.run, e.piece>>)
            = [j \in 1 .. e.piece |-> <<e.run, j>>]
      BY <3>4
    <3> QED BY <3>1, <3>2, <3>3, <3>5, <3>6
  <2> HIDE DEF e
  <2> QED BY <2>1, <2>2, TakesKeepsChannel DEF e
<1>5. CASE OnEnded(i)
  <2> DEFINE c == IF current[i] = None THEN NamedTask(i) ELSE current[i]
  <2>1. Takes(i, "task_ended", c) /\ UNCHANGED cache
        /\ saved' = [saved EXCEPT ![e.run] = [task |-> c, text |-> cache[c]]]
    BY <1>5 DEF OnEnded
  <2>2. /\ e.type = "task_ended" /\ t \in Tasks /\ e.run \in DOMAIN runs
        /\ e.run \in 1 .. MaxRuns
        /\ e.run \notin lost => ReadyFor(i, e)
    BY <1>2, <2>1
  <2>3. ASSUME e.run \notin lost
        PROVE  saved'[e.run] = [task |-> t, text |-> Whole(e.run)]
    <3>1. current[i] = t /\ cache[t] = [j \in 1 .. runs[e.run].pieces |-> <<e.run, j>>]
      BY <1>2, <2>1, <2>2, <2>3 DEF ReadyFor, HasHeard
    <3>2. c = t
      BY <2>2, <3>1, EventAssumption
    <3>3. cache[t] = Whole(e.run)
      BY <3>1 DEF Whole
    <3> HIDE DEF e, t, c
    <3>4. saved'[e.run] = [task |-> c, text |-> cache[c]]
      <4>1. e.run \in DOMAIN saved
        BY <2>2 DEF EventsInv
      <4>2. saved' = [saved EXCEPT ![e.run] = [task |-> c, text |-> cache[c]]]
        BY <2>1
      <4> QED BY <4>1, <4>2
    <3> QED BY <3>2, <3>3, <3>4
  <2>4. \A r \in DOMAIN runs :
           \/ saved'[r] = saved[r]
           \/ r \in lost
           \/ saved'[r] = [task |-> runs[r].task, text |-> Whole(r)]
    BY <2>1, <2>2, <2>3 DEF EventsInv
  <2> HIDE DEF e, c
  <2> QED BY <2>1, <2>2, <2>4, TakesKeepsChannel DEF e
<1> QED BY <1>1, <1>3, <1>4, <1>5 DEF Forward

LEMMA GuessKeepsChannel ==
    ASSUME EventsInv, NEW i \in Loops, ChannelInv(i), IntactRunIsSaved,
           Guess(i) \/ Subscribe(i)
    PROVE  ChannelInv(i)' /\ IntactRunIsSaved'
<1>1. conn[i] # "subscribed" /\ UNCHANGED <<runs, chan, saved, lost>>
  BY DEF Guess, Subscribe, storage, output
<1>2. chan[i] = <<>> /\ DOMAIN runs \subseteq lost
  BY <1>1 DEF ChannelInv
<1>3. Len(chan'[i]) = 0
  BY <1>1, <1>2
<1>4. IntactRunIsSaved'
  BY <1>1 DEF IntactRunIsSaved, Whole
<1>5. ChannelInv(i)'
  BY <1>1, <1>2, <1>3 DEF ChannelInv
<1> QED BY <1>4, <1>5

\* The second invariant, from the first.
LEMMA IntactInit ==
    ASSUME LoopInit
    PROVE  IntactInv
BY DEF LoopInit, IntactInv, IntactRunIsSaved, ChannelInv

LEMMA IntactStep ==
    ASSUME OneLoop, EventsInv, EventsInv', IntactInv, [LoopNext]_loopVars
    PROVE  IntactInv'
<1>1. CASE UNCHANGED loopVars
  BY <1>1 DEF loopVars, storage, forwarder, output, IntactInv, IntactRunIsSaved,
              ChannelInv, ReadyFor, HasHeard, Whole
<1>2. CASE LoopNext
  <2>1. PICK i \in Loops :
            \/ \E t \in Tasks : RunStarts(i, t)
            \/ RunWrites(i) \/ RunEnds(i)
            \/ Guess(i) \/ Subscribe(i)
            \/ Forward(i)
    BY <1>2 DEF LoopNext
  <2>2. ChannelInv(i) /\ IntactRunIsSaved
    BY DEF IntactInv
  <2>3. ChannelInv(i)' /\ IntactRunIsSaved'
    BY <2>1, <2>2, RunStartsKeepsChannel, RunWritesKeepsChannel, RunEndsKeepsChannel,
       GuessKeepsChannel, ForwardKeepsChannel
  <2>4. \A j \in Loops : j = i
    BY DEF OneLoop
  <2> QED BY <2>3, <2>4 DEF IntactInv
<1> QED BY <1>1, <1>2

\* Events, runs and records belong together in every reachable state: an event in a
\* channel is one of a run that has got that far, and only what has ended is saved.
THEOREM EventsInvHolds == LoopSpec => []EventsInv
BY EventsInit, EventsStep, PTL DEF LoopSpec

\* All variables of the loop's events keep their types, for any loops, tasks, runs
\* and channels.
THEOREM LoopTypes == LoopSpec => []LoopTypeOK
<1>1. EventsInv => LoopTypeOK
  BY DEF EventsInv
<1> QED BY <1>1, EventsInvHolds, PTL

\* With one loop, the forwarder saves exactly the texts of a run none of whose
\* events was lost, whatever was lost before and after, for any runs, pieces and
\* channel.  Two loops write the output of a task they both work on into one entry,
\* so it takes the one loop.
THEOREM IntactRunsAreSaved ==
    ASSUME OneLoop
    PROVE  LoopSpec => []IntactRunIsSaved
<1>1. EventsInv /\ EventsInv' /\ IntactInv /\ [LoopNext]_loopVars => IntactInv'
  BY IntactStep
<1>2. IntactInv => IntactRunIsSaved
  BY DEF IntactInv
<1> QED BY <1>1, <1>2, IntactInit, EventsInvHolds, PTL DEF LoopSpec

----------------------------------------------------------------------------
(* The ends of runs, for any loops.                                          *)

\* The end of run r is stored, still to be taken, or one of its events is lost.
Kept(r) ==
    \/ r \in lost
    \/ saved[r] # None
    \/ \E i \in Loops : \E n \in DOMAIN chan[i] :
          chan[i][n].run = r /\ chan[i][n].type = "task_ended"

EndsAreKept == \A r \in DOMAIN runs : ~runs[r].open => Kept(r)

\* What a channel holds and what it is sent is held afterwards, or its run is lost.
LEMMA SendForgetsNothing ==
    ASSUME LoopTypeOK, NEW i \in Loops, NEW e \in Event, Send(i, e)
    PROVE  /\ lost \subseteq lost'
           /\ \A j \in Loops : \A n \in DOMAIN chan[j] :
                 \/ chan[j][n].run \in lost'
                 \/ \E m \in DOMAIN chan'[j] : chan'[j][m] = chan[j][n]
           /\ e.run \in lost' \/ \E m \in DOMAIN chan'[i] : chan'[i][m] = e
<1> DEFINE old == chan[i]
<1>1. old \in Seq(Event) /\ Len(old) \in Nat /\ Len(old) <= Capacity
  BY DEF LoopTypeOK
<1>2. CASE conn[i] # "subscribed"
  BY <1>1, <1>2 DEF Send, LoopTypeOK
<1>3. CASE conn[i] = "subscribed" /\ Len(old) < Capacity
  <2>1. /\ DOMAIN Append(old, e) = 1 .. Len(old) + 1 /\ DOMAIN old = 1 .. Len(old)
        /\ Append(old, e)[Len(old) + 1] = e
        /\ \A n \in 1 .. Len(old) : Append(old, e)[n] = old[n]
    BY <1>1
  <2>2. chan' = [chan EXCEPT ![i] = Append(old, e)] /\ UNCHANGED <<lagging, lost>>
    BY <1>3 DEF Send
  <2> DEFINE new == Append(old, e)
  <2>3. /\ \A n \in DOMAIN old : n \in DOMAIN new /\ new[n] = old[n]
        /\ Len(old) + 1 \in DOMAIN new /\ new[Len(old) + 1] = e
    BY <1>1, <2>1
  <2> HIDE DEF new
  <2>4. \A j \in Loops : chan'[j] = IF j = i THEN new ELSE chan[j]
    BY <2>2 DEF LoopTypeOK, new
  <2> QED BY <2>2, <2>3, <2>4
<1>4. CASE conn[i] = "subscribed" /\ ~(Len(old) < Capacity)
  <2> DEFINE new == Append(Tail(old), e)
  <2>1. Len(old) = Capacity /\ old # <<>>
    BY <1>1, <1>4, EventAssumption
  <2>2. /\ DOMAIN new = 1 .. Len(old) /\ DOMAIN old = 1 .. Len(old) /\ Head(old) = old[1]
        /\ new[Len(old)] = e
        /\ \A n \in 1 .. Len(old) - 1 : new[n] = old[n + 1]
    BY <1>1, <2>1, EventAssumption
  <2>3. /\ chan' = [chan EXCEPT ![i] = new] /\ lost' = lost \cup {Head(old).run}
    BY <1>4 DEF Send
  <2> HIDE DEF new
  <2>4. ASSUME NEW n \in DOMAIN old
        PROVE  old[n].run \in lost' \/ \E m \in DOMAIN new : new[m] = old[n]
    <3>1. CASE n = 1 BY <2>2, <2>3, <3>1
    <3>2. CASE n # 1
      <4>1. n - 1 \in 1 .. Len(old) - 1 /\ n - 1 \in DOMAIN new /\ n - 1 + 1 = n
        BY <1>1, <2>2, <3>2
      <4> QED BY <2>2, <4>1
    <3> QED BY <3>1, <3>2
  <2>5. Len(old) \in DOMAIN new
    BY <1>1, <2>1, <2>2, EventAssumption
  <2>6. \A j \in Loops : chan'[j] = IF j = i THEN new ELSE chan[j]
    BY <2>3 DEF LoopTypeOK
  <2> QED BY <2>2, <2>3, <2>4, <2>5, <2>6
<1> QED BY <1>2, <1>3, <1>4

\* Sending keeps what is kept.
LEMMA SendKeepsEnds ==
    ASSUME LoopTypeOK, NEW i \in Loops, NEW e \in Event, Send(i, e), saved' = saved,
           NEW r, Kept(r)
    PROVE  Kept(r)'
BY SendForgetsNothing DEF Kept

LEMMA EndsStep ==
    ASSUME None \notin [task : Tasks, text : Texts],
           EventsInv, EndsAreKept, [LoopNext]_loopVars
    PROVE  EndsAreKept'
<1> USE DEF EventsInv
<1>1. ASSUME NEW i \in Loops, NEW t \in Tasks, RunStarts(i, t)
      PROVE  EndsAreKept'
  <2> DEFINE e == Ev("task_started", Len(runs) + 1, 0)
             run == [loop |-> i, task |-> t, pieces |-> 0, open |-> TRUE]
  <2>1. e \in Event /\ run \in Run /\ Send(i, e) /\ saved' = saved
    BY <1>1, EventAssumption DEF RunStarts, LoopTypeOK, Event, Ev, Run, output
  <2>2. /\ runs' = Append(runs, run) /\ runs \in Seq(Run)
    BY <1>1 DEF RunStarts, LoopTypeOK
  <2>3. run.open BY DEF run
  <2> HIDE DEF e, run
  <2>4. ASSUME NEW r \in DOMAIN runs', ~runs'[r].open
        PROVE  r \in DOMAIN runs /\ ~runs[r].open
    <3>1. /\ DOMAIN runs' = 1 .. Len(runs) + 1 /\ DOMAIN runs = 1 .. Len(runs)
          /\ Len(runs) \in Nat /\ runs'[Len(runs) + 1] = run
          /\ \A q \in 1 .. Len(runs) : runs'[q] = runs[q]
      BY <2>1, <2>2
    <3> QED BY <2>3, <2>4, <3>1
  <2> QED BY <2>1, <2>4, SendKeepsEnds DEF EndsAreKept
<1>2. ASSUME NEW i \in Loops, RunWrites(i)
      PROVE  EndsAreKept'
  <2>1. PICK q \in OpenRuns(i) :
          /\ runs[q].pieces < MaxPieces
          /\ runs' = [runs EXCEPT ![q].pieces = @ + 1]
          /\ Send(i, Ev("text_delta", q, runs[q].pieces + 1))
          /\ UNCHANGED <<storage, forwarder, output>>
    BY <1>2 DEF RunWrites
  <2> DEFINE e == Ev("text_delta", q, runs[q].pieces + 1)
  <2>2. /\ q \in DOMAIN runs /\ q \in 1 .. MaxRuns /\ runs[q] \in Run
        /\ runs[q].pieces \in 0 .. MaxPieces
    BY RunFields DEF OpenRuns
  <2>3. e \in Event /\ saved' = saved /\ Send(i, e)
    BY <2>1, <2>2, EventAssumption DEF Event, Ev, output
  <2> HIDE DEF e
  <2>4. DOMAIN runs' = DOMAIN runs /\ \A r \in DOMAIN runs : runs'[r].open = runs[r].open
    <3>1. /\ DOMAIN runs' = DOMAIN runs
          /\ \A r \in DOMAIN runs :
                runs'[r] = IF r = q THEN [runs[q] EXCEPT !.pieces = @ + 1] ELSE runs[r]
      BY <2>1, <2>2 DEF LoopTypeOK
    <3>2. [runs[q] EXCEPT !.pieces = @ + 1].open = runs[q].open
      BY <2>2 DEF Run
    <3> QED BY <3>1, <3>2
  <2> QED BY <2>3, <2>4, SendKeepsEnds DEF EndsAreKept
<1>3. ASSUME NEW i \in Loops, RunEnds(i)
      PROVE  EndsAreKept'
  <2>1. PICK q \in OpenRuns(i) :
          /\ runs' = [runs EXCEPT ![q].open = FALSE]
          /\ Send(i, Ev("task_ended", q, 0))
          /\ UNCHANGED <<assignee, forwarder, output>>
    BY <1>3 DEF RunEnds
  <2> DEFINE e == Ev("task_ended", q, 0)
  <2>2. q \in DOMAIN runs /\ q \in 1 .. MaxRuns
    BY RunFields DEF OpenRuns
  <2>3. /\ e \in Event /\ saved' = saved /\ Send(i, e)
        /\ e.run = q /\ e.type = "task_ended"
    BY <2>1, <2>2, EventAssumption DEF Event, Ev, output
  <2> HIDE DEF e
  <2>4. Kept(q)'
    BY <2>3, SendForgetsNothing DEF Kept
  <2>5. /\ DOMAIN runs' = DOMAIN runs
        /\ \A r \in DOMAIN runs : r # q => runs'[r] = runs[r]
    BY <2>1, <2>2 DEF LoopTypeOK
  <2> QED BY <2>3, <2>4, <2>5, SendKeepsEnds DEF EndsAreKept
<1>4. ASSUME NEW i \in Loops, OnStarted(i) \/ OnText(i) \/ OnEnded(i)
      PROVE  EndsAreKept'
  <2> DEFINE old == chan[i]
  <2>1. /\ runs' = runs /\ lost' = lost /\ chan' = [chan EXCEPT ![i] = Tail(old)]
        /\ old # <<>> /\ old \in Seq(Event)
    BY <1>4 DEF OnStarted, OnText, OnEnded, Takes, LoopTypeOK
  <2>2. /\ DOMAIN Tail(old) = 1 .. Len(old) - 1 /\ DOMAIN old = 1 .. Len(old)
        /\ Len(old) \in Nat /\ Head(old) = old[1]
        /\ \A n \in 1 .. Len(old) - 1 : Tail(old)[n] = old[n + 1]
    BY <2>1
  <2>3. \A n \in DOMAIN old :
           n = 1 \/ (n - 1 \in DOMAIN Tail(old) /\ Tail(old)[n - 1] = old[n])
    BY <2>2
  <2>4. \A j \in Loops : chan'[j] = IF j = i THEN Tail(old) ELSE chan[j]
    BY <2>1 DEF LoopTypeOK
  <2>5. \A r \in 1 .. MaxRuns :
           \/ saved'[r] = saved[r] /\ (Head(old).type = "task_ended" => Head(old).run # r)
           \/ saved'[r] # None
    <3>1. CASE OnStarted(i) \/ OnText(i)
      BY <3>1 DEF OnStarted, OnText, Takes
    <3>2. CASE OnEnded(i)
      <4> DEFINE c == IF current[i] = None THEN NamedTask(i) ELSE current[i]
      <4>1. saved' = [saved EXCEPT ![Head(old).run] = [task |-> c, text |-> cache[c]]]
        BY <3>2 DEF OnEnded
      <4>2. 1 \in DOMAIN old /\ IsEventOf(Head(old), runs)
        BY <2>1, <2>2
      <4>3. NamedTask(i) \in Tasks
        BY <4>2, RunFields DEF NamedTask, IsEventOf
      <4>4. c \in Tasks /\ cache[c] \in Texts
        BY <4>3 DEF LoopTypeOK
      <4> HIDE DEF c
      <4>5. [task |-> c, text |-> cache[c]] # None
        BY <4>4
      <4> QED BY <4>1, <4>5
    <3> QED BY <1>4, <3>1, <3>2
  <2> HIDE DEF old
  <2>6. ASSUME NEW r \in 1 .. MaxRuns, Kept(r)
        PROVE  Kept(r)'
    <3>1. CASE r \in lost \/ saved'[r] # None
      BY <2>1, <3>1 DEF Kept
    <3>2. CASE saved'[r] = None
      <4>1. saved'[r] = saved[r] /\ (Head(old).type = "task_ended" => Head(old).run # r)
        BY <2>5, <3>2
      <4>2. CASE r \in lost BY <2>1, <4>2 DEF Kept
      <4>3. ASSUME NEW j \in Loops, NEW n \in DOMAIN chan[j],
                   chan[j][n].run = r, chan[j][n].type = "task_ended"
            PROVE  Kept(r)'
        <5>1. CASE j # i BY <2>4, <4>3, <5>1 DEF Kept
        <5>2. CASE j = i
          <6>1. n # 1 BY <2>2, <4>1, <4>3, <5>2 DEF old
          <6>2. n - 1 \in DOMAIN chan'[i] /\ chan'[i][n - 1] = chan[j][n]
            BY <2>3, <2>4, <4>3, <5>2, <6>1 DEF old
          <6> QED BY <4>3, <6>2 DEF Kept
        <5> QED BY <5>1, <5>2
      <4> QED BY <2>6, <3>2, <4>1, <4>2, <4>3 DEF Kept
    <3> QED BY <3>1, <3>2
  <2> QED BY <2>1, <2>6, RunFields DEF EndsAreKept
<1>5. ASSUME NEW i \in Loops, Guess(i) \/ Subscribe(i) \/ Lagged(i)
      PROVE  EndsAreKept'
  <2>1. UNCHANGED <<runs, chan, saved, lost>>
    BY <1>5 DEF Guess, Subscribe, Lagged, output
  <2> QED BY <2>1 DEF EndsAreKept, Kept
<1>6. CASE UNCHANGED loopVars
  BY <1>6 DEF loopVars, output, EndsAreKept, Kept
<1> QED BY <1>1, <1>2, <1>3, <1>4, <1>5, <1>6 DEF LoopNext, Forward

\* The end of a run is never forgotten silently, however many loops write at once: it is
\* stored, waits in the channel of its loop, or an event of the run was dropped, before
\* the loop subscribed or by a full channel (dev_loop.rs, forward_automaton_events).  A
\* record of an end is not the value that stands for none.
THEOREM EndsAreNotForgotten ==
    ASSUME None \notin [task : Tasks, text : Texts]
    PROVE  LoopSpec => []EndsAreKept
<1>1. LoopInit => EndsAreKept
  BY DEF LoopInit, EndsAreKept
<1>2. EventsInv /\ EndsAreKept /\ [LoopNext]_loopVars => EndsAreKept'
  BY EndsStep
<1> QED BY <1>1, <1>2, EventsInvHolds, PTL DEF LoopSpec

----------------------------------------------------------------------------
(* The tokens of turns.                                                      *)

\* e tells of a turn in the way the harness does.
IsUsage(e) ==
    /\ e.turn \in Nat \ {0}
    /\ (HasTokens /\ e = Tokens(e.turn)) \/ (HasEnds /\ e = EndOf(e.turn))

\* The first event of turn n, and the event after e.
FirstOf(n) == IF HasTokens THEN Tokens(n) ELSE EndOf(n)
After(e) == IF e.kind = "tokens" /\ HasEnds THEN EndOf(e.turn) ELSE FirstOf(e.turn + 1)

Usages == [kind : {"tokens", "end"}, turn : Nat \ {0}, sum : Nat]

\* The stream goes through the turns, and ends with a turn told of entirely.
StreamInv ==
    /\ style \in Styles /\ stream \in Seq(Usages)
    /\ \A n \in 1 .. Len(stream) : IsUsage(stream[n])
    /\ \A n \in 1 .. Len(stream) - 1 : stream[n + 1] = After(stream[n])
    /\ stream # <<>> => /\ stream[1] = FirstOf(1)
                        /\ HasEnds => stream[Len(stream)].kind = "end"

\* What a lone follower that has missed nothing has booked, and what the session has
\* by then: that of the events before, until it has saved.
BookedAt(e) ==
    IF e.kind = "end" THEN [sum |-> e.turn, rich |-> TRUE]
    ELSE IF HasEnds THEN [sum |-> IF e.turn = 1 THEN 1 ELSE e.turn - 1, rich |-> e.turn > 1]
    ELSE [sum |-> e.turn, rich |-> FALSE]
BeforeOf(e) == IF e.kind = "end" /\ HasTokens THEN e.turn ELSE e.turn - 1

\* No turn is told of twice without the totals.
ToldOnce == style # "tokens and ends"

LoneInv(f) ==
    Lone(f) /\ whole[f] /\ at[f] # "off" /\ ToldOnce =>
        IF heard[f] = 0
        THEN booked = [sum |-> 0, rich |-> FALSE] /\ total = 0 /\ at[f] = "idle"
        ELSE /\ booked = BookedAt(Latest(f))
             /\ paired[f] =>
                   /\ at[f] \in {"report", "idle"} => total = Latest(f).turn
                   /\ at[f] \in {"load", "save"} => total = BeforeOf(Latest(f))
                   /\ at[f] = "save" => base[f] = total

\* The last conjunct: when every session's last event is a saved end with the totals,
\* the session has the totals of the follower that saved last.
UsageInv ==
    /\ StreamInv /\ UsageTypeOK
    /\ (\A f \in Followers : at[f] = "off") => total = 0
    /\ \A f \in Followers :
          /\ at[f] = "off" => ~kept[f] /\ ~paired[f]
          /\ at[f] \in {"load", "save"} => heard[f] > 0 /\ ~kept[f] /\ paired[f]
          /\ at[f] = "report" => heard[f] > 0
          /\ kept[f] => heard[f] > 0 /\ Latest(f).kind = "end"
          /\ LoneInv(f)
    /\ HasTotals /\ (\E f \in Followers : paired[f])
          /\ (\A f \in Followers : paired[f] => kept[f])
       => \E f \in Followers : paired[f] /\ total = Latest(f).turn

\* The three ways in which an event counts.
LEMMA CountedIs ==
    ASSUME NEW n, NEW e
    PROVE  /\ e.kind = "end" =>
                 Counted(n, e) = [sum |-> IF e.sum > 0 THEN e.sum ELSE n.sum + 1, rich |-> TRUE]
           /\ e.kind = "tokens" /\ ~n.rich => Counted(n, e) = [n EXCEPT !.sum = @ + 1]
           /\ e.kind = "tokens" /\ n.rich => Counted(n, e) = n
<1>1. "end" # "tokens"
  OBVIOUS
<1>2. e.kind = "end" =>
          Counted(n, e) = [sum |-> IF e.sum > 0 THEN e.sum ELSE n.sum + 1, rich |-> TRUE]
  BY <1>1, Zenon DEF Counted
<1>3. e.kind = "tokens" /\ ~n.rich => Counted(n, e) = [n EXCEPT !.sum = @ + 1]
  BY <1>1, Zenon DEF Counted
<1>4. e.kind = "tokens" /\ n.rich => Counted(n, e) = n
  BY <1>1, Zenon DEF Counted
<1> QED BY <1>2, <1>3, <1>4

\* The ways to tell of turns.
LEMMA StyleIs ==
    ASSUME style \in Styles
    PROVE  /\ HasTokens \in BOOLEAN /\ HasEnds \in BOOLEAN /\ HasTotals \in BOOLEAN
           /\ HasTokens \/ HasEnds
           /\ HasTotals => HasEnds
           /\ HasTokens /\ HasEnds /\ ToldOnce => HasTotals
<1>1. /\ style = "tokens" \/ style = "ends" \/ style = "totals"
         \/ style = "tokens and ends" \/ style = "tokens and totals"
  BY DEF Styles
<1>2. HasTokens \in BOOLEAN /\ HasEnds \in BOOLEAN /\ HasTotals \in BOOLEAN
  BY DEF HasTokens, HasEnds, HasTotals
<1>3. HasTokens \/ HasEnds
  BY <1>1 DEF HasTokens, HasEnds
<1>4. HasTotals => HasEnds
  BY DEF HasTotals, HasEnds
<1>5. HasTokens /\ HasEnds /\ ToldOnce => HasTotals
  BY DEF HasTotals, HasEnds, HasTokens, ToldOnce
<1> QED BY <1>2, <1>3, <1>4, <1>5

\* What an event of a turn has.
LEMMA UsageFields ==
    ASSUME style \in Styles, NEW e, IsUsage(e)
    PROVE  /\ e \in Usages /\ e.turn \in Nat \ {0}
           /\ e.kind \in {"tokens", "end"}
           /\ e.kind = "tokens" => HasTokens /\ e = Tokens(e.turn)
           /\ e.kind = "end" => HasEnds /\ e.sum = (IF HasTotals THEN e.turn ELSE 0)
<1>1. e.turn \in Nat \ {0}
  BY DEF IsUsage
<1>2. CASE HasTokens /\ e = Tokens(e.turn)
  <2>1. e.kind = "tokens" /\ e.sum = 0
    BY <1>2 DEF Tokens
  <2>2. e \in Usages
    BY <1>1, <1>2 DEF Tokens, Usages
  <2> QED BY <1>1, <1>2, <2>1, <2>2
<1>3. CASE HasEnds /\ e = EndOf(e.turn)
  <2>1. e.kind = "end" /\ e.sum = (IF HasTotals THEN e.turn ELSE 0)
    BY <1>3 DEF EndOf
  <2>2. e \in Usages
    BY <1>1, <1>3 DEF EndOf, Usages
  <2> QED BY <1>1, <1>3, <2>1, <2>2
<1> QED BY <1>2, <1>3 DEF IsUsage

\* The events of a turn.
LEMMA FirstIsUsage ==
    ASSUME style \in Styles, NEW n \in Nat \ {0}
    PROVE  /\ IsUsage(FirstOf(n)) /\ FirstOf(n).turn = n
           /\ FirstOf(n).kind = (IF HasTokens THEN "tokens" ELSE "end")
           /\ HasEnds => IsUsage(EndOf(n))
           /\ EndOf(n).turn = n /\ EndOf(n).kind = "end"
           /\ EventsOf(n) = IF HasTokens /\ HasEnds THEN <<FirstOf(n)>> \o <<EndOf(n)>>
                            ELSE <<FirstOf(n)>>
<1>1. /\ Tokens(n).turn = n /\ Tokens(n).kind = "tokens"
      /\ EndOf(n).turn = n /\ EndOf(n).kind = "end"
  BY DEF Tokens, EndOf
<1>2. HasEnds => IsUsage(EndOf(n))
  BY <1>1 DEF IsUsage
<1>3. /\ IsUsage(FirstOf(n)) /\ FirstOf(n).turn = n
      /\ FirstOf(n).kind = (IF HasTokens THEN "tokens" ELSE "end")
  BY <1>1, <1>2, StyleIs DEF IsUsage, FirstOf
<1>4. CASE HasTokens /\ HasEnds
  <2>1. EventsOf(n) = <<Tokens(n)>> \o <<EndOf(n)>>
    BY <1>4 DEF EventsOf
  <2> QED BY <1>1, <1>2, <1>3, <1>4, <2>1 DEF FirstOf
<1>5. CASE HasTokens /\ ~HasEnds
  BY <1>1, <1>2, <1>3, <1>5 DEF EventsOf, FirstOf
<1>6. CASE ~HasTokens /\ HasEnds
  BY <1>1, <1>2, <1>3, <1>6 DEF EventsOf, FirstOf
<1> QED BY <1>4, <1>5, <1>6, StyleIs

\* What the stream is at one place.
LEMMA UsageAt ==
    ASSUME StreamInv, NEW n \in 1 .. Len(stream)
    PROVE  /\ IsUsage(stream[n]) /\ stream[n] \in Usages
           /\ stream[n].turn \in Nat \ {0}
BY UsageFields DEF StreamInv

\* Another turn.
LEMMA StreamGrows ==
    ASSUME UsageInv, EndTurn
    PROVE  /\ StreamInv' /\ Spent' \in 0 .. MaxSpent
           /\ Len(stream) <= Len(stream') /\ Len(stream') \in Nat
           /\ \A n \in 1 .. Len(stream) : stream'[n] = stream[n]
<1> DEFINE t == Spent + 1
           more == EventsOf(t)
<1>1. /\ style \in Styles /\ style' = style /\ stream \in Seq(Usages) /\ Len(stream) \in Nat
      /\ stream' = stream \o more
  BY DEF UsageInv, StreamInv, EndTurn
<1>2. t \in Nat \ {0} /\ t <= MaxSpent /\ MaxSpent \in Nat
  BY UsageAssumption DEF UsageInv, UsageTypeOK, EndTurn
<1>3. stream # <<>> => stream[Len(stream)].turn + 1 = t
  BY DEF Spent
<1>4. stream = <<>> => t = 1
  BY DEF Spent
<1> HIDE DEF t, more
<1> DEFINE f == FirstOf(t)
           g == EndOf(t)
<1>5. /\ IsUsage(f) /\ f \in Usages /\ f.turn = t
      /\ f.kind = (IF HasTokens THEN "tokens" ELSE "end")
      /\ HasEnds => IsUsage(g) /\ g \in Usages
      /\ g.turn = t /\ g.kind = "end"
      /\ more = IF HasTokens /\ HasEnds THEN <<f>> \o <<g>> ELSE <<f>>
  BY <1>1, <1>2, FirstIsUsage, UsageFields DEF more
<1>6. stream # <<>> => f = After(stream[Len(stream)])
  <2>1. stream # <<>> => Len(stream) \in 1 .. Len(stream)
    BY <1>1
  <2>2. stream # <<>> => /\ HasEnds => stream[Len(stream)].kind = "end"
                         /\ stream[Len(stream)].turn \in Nat
    BY <2>1, UsageAt DEF UsageInv, StreamInv
  <2> QED BY <1>3, <2>2 DEF After
<1>7. HasTokens /\ HasEnds => g = After(f)
  BY <1>5 DEF After
<1>8. /\ \A n \in 1 .. Len(stream) : IsUsage(stream[n])
      /\ \A n \in 1 .. Len(stream) - 1 : stream[n + 1] = After(stream[n])
      /\ stream # <<>> => stream[1] = FirstOf(1)
  BY DEF UsageInv, StreamInv
<1> DEFINE s == stream'
           last == s[Len(s)]
<1>9. /\ s \in Seq(Usages) /\ Len(s) \in Nat /\ Len(stream) <= Len(s)
      /\ \A n \in 1 .. Len(stream) : s[n] = stream[n]
      /\ \A n \in 1 .. Len(s) : IsUsage(s[n])
      /\ \A n \in 1 .. Len(s) - 1 : s[n + 1] = After(s[n])
      /\ s # <<>> /\ s[1] = FirstOf(1)
      /\ last.turn = t
      /\ HasEnds => last.kind = "end"
  <2>1. CASE HasTokens /\ HasEnds
    <3>1. stream' = stream \o (<<f>> \o <<g>>)
      BY <1>1, <1>5, <2>1
    <3> HIDE DEF f, g
    <3>2. /\ s \in Seq(Usages) /\ Len(s) = Len(stream) + 2
          /\ \A n \in 1 .. Len(stream) : s[n] = stream[n]
          /\ s[Len(stream) + 1] = f /\ s[Len(stream) + 2] = g
      BY <1>1, <1>5, <2>1, <3>1
    <3> HIDE DEF s
    <3>3. \A n \in 1 .. Len(s) : IsUsage(s[n])
      <4>1. \A n \in 1 .. Len(s) : \/ n \in 1 .. Len(stream) \/ n = Len(stream) + 1
                                    \/ n = Len(stream) + 2
        BY <1>1, <3>2
      <4> QED BY <1>5, <1>8, <2>1, <3>2, <4>1
    <3>4. \A n \in 1 .. Len(s) - 1 : s[n + 1] = After(s[n])
      <4> SUFFICES ASSUME NEW n \in 1 .. Len(s) - 1
                   PROVE  s[n + 1] = After(s[n])
        OBVIOUS
      <4>1. CASE n \in 1 .. Len(stream) - 1
        <5>1. n \in 1 .. Len(stream) /\ n + 1 \in 1 .. Len(stream)
          BY <1>1, <4>1
        <5> QED BY <1>8, <3>2, <4>1, <5>1
      <4>2. CASE n = Len(stream)
        BY <1>1, <1>6, <3>2, <4>2
      <4>3. CASE n = Len(stream) + 1
        BY <1>1, <1>7, <2>1, <3>2, <4>3
      <4> QED BY <1>1, <3>2, <4>1, <4>2, <4>3
    <3>5. s # <<>> /\ s[1] = FirstOf(1)
      BY <1>1, <1>4, <1>8, <3>2 DEF f
    <3> QED BY <1>1, <1>5, <3>2, <3>3, <3>4, <3>5
  <2>2. CASE ~(HasTokens /\ HasEnds)
    <3>1. stream' = stream \o <<f>>
      BY <1>1, <1>5, <2>2
    <3> HIDE DEF f, g
    <3>2. /\ s \in Seq(Usages) /\ Len(s) = Len(stream) + 1
          /\ \A n \in 1 .. Len(stream) : s[n] = stream[n]
          /\ s[Len(stream) + 1] = f
      BY <1>1, <1>5, <2>2, <3>1
    <3> HIDE DEF s
    <3>3. \A n \in 1 .. Len(s) : IsUsage(s[n])
      <4>1. \A n \in 1 .. Len(s) : n \in 1 .. Len(stream) \/ n = Len(stream) + 1
        BY <1>1, <3>2
      <4> QED BY <1>5, <1>8, <3>2, <4>1
    <3>4. \A n \in 1 .. Len(s) - 1 : s[n + 1] = After(s[n])
      <4> SUFFICES ASSUME NEW n \in 1 .. Len(s) - 1
                   PROVE  s[n + 1] = After(s[n])
        OBVIOUS
      <4>1. CASE n \in 1 .. Len(stream) - 1
        <5>1. n \in 1 .. Len(stream) /\ n + 1 \in 1 .. Len(stream)
          BY <1>1, <4>1
        <5> QED BY <1>8, <3>2, <4>1, <5>1
      <4>2. CASE n = Len(stream)
        BY <1>1, <1>6, <3>2, <4>2
      <4> QED BY <1>1, <3>2, <4>1, <4>2
    <3>5. s # <<>> /\ s[1] = FirstOf(1)
      BY <1>1, <1>4, <1>8, <3>2 DEF f
    <3> QED BY <1>1, <1>5, <2>2, <3>2, <3>3, <3>4, <3>5
  <2> QED BY <2>1, <2>2
<1>10. Spent' = t
  BY <1>9 DEF Spent
<1> HIDE DEF f, g
<1>11. /\ \A n \in 1 .. Len(s) : IsUsage(stream[n])'
       /\ \A n \in 1 .. Len(s) - 1 : (stream[n + 1] = After(stream[n]))'
       /\ (stream[1] = FirstOf(1))'
  BY <1>1, <1>9 DEF IsUsage, After, FirstOf, Tokens, EndOf, HasTokens, HasEnds, HasTotals
<1>12. StreamInv'
  BY <1>1, <1>9, <1>11 DEF StreamInv, HasEnds
<1> QED BY <1>2, <1>9, <1>10, <1>12

\* UsageInv holds at the start.
LEMMA UsageStarts ==
    ASSUME UsageInit
    PROVE  UsageInv
<1>1. StreamInv
  BY DEF UsageInit, StreamInv
<1>2. UsageTypeOK
  BY UsageAssumption DEF UsageInit, UsageTypeOK, Spent
<1>3. \A f \in Followers : at[f] = "off" /\ ~kept[f] /\ ~paired[f]
  BY DEF UsageInit
<1>4. total = 0
  BY DEF UsageInit
<1> QED BY <1>1, <1>2, <1>3, <1>4 DEF UsageInv, LoneInv

LEMMA StreamStays ==
    ASSUME StreamInv, UNCHANGED <<style, stream>>
    PROVE  StreamInv'
<1>1. /\ HasTokens' = HasTokens /\ HasEnds' = HasEnds /\ HasTotals' = HasTotals
  BY DEF HasTokens, HasEnds, HasTotals
<1>2. \A n : FirstOf(n)' = FirstOf(n) /\ EndOf(n)' = EndOf(n)
  BY <1>1 DEF FirstOf, EndOf, Tokens
<1>3. \A e : (IsUsage(e)' <=> IsUsage(e)) /\ After(e)' = After(e)
  BY <1>1, <1>2 DEF IsUsage, After
<1> QED BY <1>1, <1>2, <1>3 DEF StreamInv

\* A turn ends: followers have not heard of it yet.
LEMMA EndTurnKeeps ==
    ASSUME UsageInv, EndTurn
    PROVE  UsageInv'
<1>1. UNCHANGED <<style, at, heard, whole, kept, paired, base, booked, total>>
  BY DEF EndTurn
<1>2. /\ StreamInv' /\ Spent' \in 0 .. MaxSpent
      /\ Len(stream) <= Len(stream') /\ Len(stream') \in Nat /\ Len(stream) \in Nat
      /\ \A n \in 1 .. Len(stream) : stream'[n] = stream[n]
  BY StreamGrows DEF UsageInv, StreamInv
<1>3. \A f \in Followers : /\ heard[f] \in 0 .. Len(stream)
                           /\ heard[f] # 0 => Latest(f)' = Latest(f)
  BY <1>1, <1>2 DEF UsageInv, UsageTypeOK, Latest
<1>4. UsageTypeOK'
  BY <1>1, <1>2, <1>3 DEF UsageInv, UsageTypeOK
<1>5. ASSUME NEW f \in Followers
      PROVE  LoneInv(f)'
  <2>1. LoneInv(f)
    BY DEF UsageInv
  <2> QED BY <1>1, <1>3, <2>1 DEF LoneInv, Lone, BookedAt, BeforeOf, HasEnds, HasTokens, ToldOnce
<1>6. \A f \in Followers : kept[f] => heard[f] > 0
  BY DEF UsageInv
<1>7. \A f \in Followers :
          /\ at[f] = "off" => ~kept[f] /\ ~paired[f]
          /\ at[f] \in {"load", "save"} => heard[f] > 0 /\ ~kept[f] /\ paired[f]
          /\ at[f] = "report" => heard[f] > 0
          /\ kept[f] => heard[f] > 0 /\ heard[f] # 0 /\ Latest(f).kind = "end"
  BY <1>3 DEF UsageInv
<1>8. HasTotals /\ (\E f \in Followers : paired[f])
           /\ (\A f \in Followers : paired[f] => kept[f])
        => \E f \in Followers : paired[f] /\ heard[f] # 0 /\ total = Latest(f).turn
  BY <1>7 DEF UsageInv
<1>9. HasTotals' = HasTotals
  BY <1>1 DEF HasTotals
<1>10. (\A f \in Followers : at[f] = "off") => total = 0
  BY DEF UsageInv
<1> QED BY <1>1, <1>2, <1>3, <1>4, <1>5, <1>7, <1>8, <1>9, <1>10 DEF UsageInv

\* A new follower has heard of nothing; what it is to write starts at nothing.
LEMMA FollowKeeps ==
    ASSUME UsageInv, NEW f \in Followers, Follow(f)
    PROVE  UsageInv'
<1>1. /\ UNCHANGED <<style, stream, kept, base, total>>
      /\ at[f] = "off" /\ at' = [at EXCEPT ![f] = "idle"]
      /\ heard' = [heard EXCEPT ![f] = Len(stream)]
      /\ whole' = [whole EXCEPT ![f] = (stream = <<>>)]
      /\ booked' = [sum |-> 0, rich |-> FALSE]
  BY DEF Follow
<1>2. PICK p \in BOOLEAN : paired' = [paired EXCEPT ![f] = p]
  BY DEF Follow
<1>3. StreamInv'
  BY <1>1, StreamStays DEF UsageInv
<1>4. UsageTypeOK'
  BY <1>1, <1>2 DEF UsageInv, StreamInv, UsageTypeOK, Spent
<1>5. LoneInv(f)'
  BY <1>1 DEF UsageInv, StreamInv, UsageTypeOK, LoneInv, Lone
<1>6. ASSUME NEW g \in Followers, g # f
      PROVE  LoneInv(g)'
  BY <1>1, <1>6 DEF UsageInv, UsageTypeOK, LoneInv, Lone
<1>7. \A g \in Followers : g # f => /\ at'[g] = at[g] /\ heard'[g] = heard[g]
                                    /\ paired'[g] = paired[g] /\ Latest(g)' = Latest(g)
  BY <1>1, <1>2 DEF UsageInv, UsageTypeOK, Latest
<1>8. ~kept[f] /\ ~paired[f] /\ at'[f] = "idle" /\ paired'[f] = p
  BY <1>1, <1>2 DEF UsageInv, UsageTypeOK
<1> QED BY <1>1, <1>3, <1>4, <1>5, <1>6, <1>7, <1>8 DEF UsageInv, HasTotals

\* What is left alone: the stream and who stands elsewhere.
LEMMA OthersStay ==
    ASSUME UsageInv, NEW f \in Followers, UNCHANGED <<style, stream, paired>>,
           \A g \in Followers \ {f} : /\ at'[g] = at[g] /\ heard'[g] = heard[g]
                                     /\ whole'[g] = whole[g] /\ kept'[g] = kept[g]
                                     /\ base'[g] = base[g],
           at[f] # "off" /\ at'[f] # "off"
    PROVE  /\ StreamInv' /\ HasTotals' = HasTotals /\ HasEnds' = HasEnds
           /\ HasTokens' = HasTokens /\ Spent' = Spent
           /\ \A g \in Followers \ {f} : Latest(g)' = Latest(g) /\ LoneInv(g)'
           /\ Lone(f)' <=> Lone(f)
           /\ \A n : FirstOf(n)' = FirstOf(n)
<1>1. StreamInv'
  BY StreamStays DEF UsageInv
<1>2. HasTotals' = HasTotals /\ HasEnds' = HasEnds /\ HasTokens' = HasTokens /\ Spent' = Spent
  BY DEF HasTotals, HasEnds, HasTokens, Spent
<1>3. \A g \in Followers \ {f} : Latest(g)' = Latest(g) /\ LoneInv(g)'
  BY DEF Latest, LoneInv, Lone
<1>4. Lone(f)' <=> Lone(f)
  BY DEF Lone
<1>5. \A n : FirstOf(n)' = FirstOf(n)
  BY <1>2 DEF FirstOf, Tokens, EndOf
<1> QED BY <1>1, <1>2, <1>3, <1>4, <1>5

\* The rest of the invariant follows from that of the follower that moves.
LEMMA OneMoves ==
    ASSUME UsageInv, NEW f \in Followers, UNCHANGED <<style, stream, paired>>,
           \A g \in Followers \ {f} : /\ at'[g] = at[g] /\ heard'[g] = heard[g]
                                     /\ whole'[g] = whole[g] /\ kept'[g] = kept[g]
                                     /\ base'[g] = base[g],
           at[f] # "off" /\ at'[f] # "off", UsageTypeOK',
           at'[f] \in {"load", "save"} => heard'[f] > 0 /\ ~kept'[f] /\ paired[f],
           at'[f] = "report" => heard'[f] > 0,
           kept'[f] => heard'[f] > 0 /\ Latest(f)'.kind = "end",
           LoneInv(f)',
           HasTotals /\ kept'[f] /\ paired[f] =>
               \/ total' = Latest(f)'.turn
               \/ total' = total /\ kept[f] /\ Latest(f)' = Latest(f),
           ~paired[f] => total' = total
    PROVE  UsageInv'
<1>1. /\ StreamInv' /\ HasTotals' = HasTotals
      /\ \A g \in Followers \ {f} : Latest(g)' = Latest(g) /\ LoneInv(g)'
  BY OthersStay
<1>2. \A g \in Followers :
          /\ at'[g] = "off" => ~kept'[g] /\ ~paired'[g]
          /\ at'[g] \in {"load", "save"} => heard'[g] > 0 /\ ~kept'[g] /\ paired'[g]
          /\ at'[g] = "report" => heard'[g] > 0
          /\ kept'[g] => heard'[g] > 0 /\ Latest(g)'.kind = "end"
          /\ LoneInv(g)'
  <2> SUFFICES ASSUME NEW g \in Followers
               PROVE  /\ at'[g] = "off" => ~kept'[g] /\ ~paired'[g]
                      /\ at'[g] \in {"load", "save"} => heard'[g] > 0 /\ ~kept'[g] /\ paired'[g]
                      /\ at'[g] = "report" => heard'[g] > 0
                      /\ kept'[g] => heard'[g] > 0 /\ Latest(g)'.kind = "end"
                      /\ LoneInv(g)'
    OBVIOUS
  <2>1. CASE g = f
    BY <2>1
  <2>2. CASE g # f
    <3>1. /\ at[g] = "off" => ~kept[g] /\ ~paired[g]
          /\ at[g] \in {"load", "save"} => heard[g] > 0 /\ ~kept[g] /\ paired[g]
          /\ at[g] = "report" => heard[g] > 0
          /\ kept[g] => heard[g] > 0 /\ Latest(g).kind = "end"
      BY DEF UsageInv
    <3> QED BY <1>1, <2>2, <3>1
  <2> QED BY <2>1, <2>2
<1>3. ~ \A g \in Followers : at'[g] = "off"
  OBVIOUS
<1>4. ASSUME HasTotals, \E g \in Followers : paired[g],
             \A g \in Followers : paired[g] => kept'[g]
      PROVE  \E g \in Followers : paired[g] /\ total' = Latest(g)'.turn
  <2>1. CASE paired[f]
    <3>1. CASE total' = Latest(f)'.turn
      BY <2>1, <3>1
    <3>2. CASE total' = total /\ kept[f] /\ Latest(f)' = Latest(f)
      <4>1. \A g \in Followers : paired[g] => kept[g]
        BY <1>4, <3>2
      <4>2. PICK g \in Followers : paired[g] /\ total = Latest(g).turn
        BY <1>4, <4>1 DEF UsageInv
      <4> QED BY <1>1, <3>2, <4>2
    <3> QED BY <1>4, <2>1, <3>1, <3>2
  <2>2. CASE ~paired[f]
    <3>1. \A g \in Followers : paired[g] => kept[g]
      BY <1>4, <2>2
    <3>2. PICK g \in Followers : paired[g] /\ total = Latest(g).turn
      BY <1>4, <3>1 DEF UsageInv
    <3> QED BY <1>1, <2>2, <3>2
  <2> QED BY <2>1, <2>2
<1> QED BY <1>1, <1>2, <1>3, <1>4 DEF UsageInv

\* A step of a follower that leaves its records and place in the stream as they are,
\* or only reads.
LEMMA LoadKeeps ==
    ASSUME UsageInv, NEW f \in Followers, Load(f)
    PROVE  UsageInv'
<1>1. /\ UNCHANGED <<style, stream, heard, whole, kept, paired, booked, total>>
      /\ at[f] = "load" /\ at' = [at EXCEPT ![f] = "save"]
      /\ base' = [base EXCEPT ![f] = total]
  BY DEF Load
<1>2. UsageTypeOK'
  BY <1>1 DEF UsageInv, UsageTypeOK, Spent
<1>3. /\ at'[f] = "save" /\ base'[f] = total
      /\ \A g \in Followers \ {f} : at'[g] = at[g] /\ base'[g] = base[g]
  BY <1>1 DEF UsageInv, UsageTypeOK
<1>4. HasEnds' = HasEnds /\ HasTokens' = HasTokens /\ HasTotals' = HasTotals
  BY <1>1 DEF HasEnds, HasTokens, HasTotals
<1>5. LoneInv(f)' /\ Latest(f)' = Latest(f)
  <2>1. LoneInv(f)
    BY DEF UsageInv
  <2> QED BY <1>1, <1>3, <1>4, <2>1 DEF LoneInv, Lone, Latest, BookedAt, BeforeOf, ToldOnce
<1>6. heard[f] > 0 /\ ~kept[f] /\ paired[f]
  BY <1>1 DEF UsageInv
<1> QED BY <1>1, <1>2, <1>3, <1>5, <1>6, OneMoves

LEMMA ReportKeeps ==
    ASSUME UsageInv, NEW f \in Followers, Report(f)
    PROVE  UsageInv'
<1>1. /\ UNCHANGED <<style, stream, heard, whole, kept, paired, base, booked, total>>
      /\ at[f] = "report" /\ at' = [at EXCEPT ![f] = "idle"]
  BY DEF Report
<1>2. UsageTypeOK'
  BY <1>1 DEF UsageInv, UsageTypeOK, Spent
<1>3. /\ at'[f] = "idle" /\ \A g \in Followers \ {f} : at'[g] = at[g]
  BY <1>1 DEF UsageInv, UsageTypeOK
<1>4. HasEnds' = HasEnds /\ HasTokens' = HasTokens /\ HasTotals' = HasTotals
  BY <1>1 DEF HasEnds, HasTokens, HasTotals
<1>5. LoneInv(f)' /\ Latest(f)' = Latest(f)
  <2>1. LoneInv(f)
    BY DEF UsageInv
  <2> QED BY <1>1, <1>3, <1>4, <2>1 DEF LoneInv, Lone, Latest, BookedAt, BeforeOf, ToldOnce
<1>6. heard[f] > 0 /\ (kept[f] => Latest(f).kind = "end")
  BY <1>1 DEF UsageInv
<1> QED BY <1>1, <1>2, <1>3, <1>5, <1>6, OneMoves

\* A follower that fails, or misses an event, is not whole any more.
LEMMA UpdateFailsKeeps ==
    ASSUME UsageInv, NEW f \in Followers, UpdateFails(f)
    PROVE  UsageInv'
<1>1. /\ UNCHANGED <<style, stream, heard, kept, paired, base, booked, total>>
      /\ at[f] \in {"load", "save"} /\ at' = [at EXCEPT ![f] = "report"]
      /\ whole' = [whole EXCEPT ![f] = FALSE]
  BY DEF UpdateFails
<1>2. UsageTypeOK'
  BY <1>1 DEF UsageInv, UsageTypeOK, Spent
<1>3. /\ at'[f] = "report" /\ whole'[f] = FALSE /\ at[f] # "off"
      /\ \A g \in Followers \ {f} : at'[g] = at[g] /\ whole'[g] = whole[g]
  BY <1>1 DEF UsageInv, UsageTypeOK
<1>4. LoneInv(f)'
  BY <1>3 DEF LoneInv
<1>5. heard[f] > 0 /\ ~kept[f]
  BY <1>1 DEF UsageInv
<1> QED BY <1>1, <1>2, <1>3, <1>4, <1>5, OneMoves

LEMMA MissKeeps ==
    ASSUME UsageInv, NEW f \in Followers, Miss(f)
    PROVE  UsageInv'
<1>1. /\ UNCHANGED <<style, stream, at, paired, base, booked, total>>
      /\ at[f] = "idle" /\ heard[f] < Len(stream)
      /\ heard' = [heard EXCEPT ![f] = heard[f] + 1]
      /\ whole' = [whole EXCEPT ![f] = FALSE] /\ kept' = [kept EXCEPT ![f] = FALSE]
  BY DEF Miss
<1>0. stream \in Seq(Usages) /\ Len(stream) \in Nat
  BY DEF UsageInv, StreamInv
<1>2. UsageTypeOK'
  BY <1>0, <1>1 DEF UsageInv, UsageTypeOK, Spent
<1>3. /\ whole'[f] = FALSE /\ kept'[f] = FALSE /\ heard'[f] = heard[f] + 1
      /\ \A g \in Followers \ {f} : /\ heard'[g] = heard[g] /\ whole'[g] = whole[g]
                                    /\ kept'[g] = kept[g]
  BY <1>1 DEF UsageInv, UsageTypeOK
<1>4. LoneInv(f)'
  BY <1>3 DEF LoneInv
<1> QED BY <1>1, <1>2, <1>3, <1>4, OneMoves

\* What is saved is what the turns have cost, by an end that carries the totals, and
\* by a lone follower that has missed nothing.
LEMMA SaveKeeps ==
    ASSUME UsageInv, NEW f \in Followers, Save(f)
    PROVE  UsageInv'
<1> DEFINE e == Latest(f)
<1>1. /\ UNCHANGED <<style, stream, heard, whole, paired, base, booked>>
      /\ at[f] = "save" /\ at' = [at EXCEPT ![f] = "report"]
      /\ kept' = [kept EXCEPT ![f] = e.kind = "end"]
      /\ total' = IF e.kind = "end" /\ e.sum > 0 THEN e.sum ELSE base[f] + 1
  BY DEF Save, Updated
<1>2. heard[f] > 0 /\ heard[f] \in 1 .. Len(stream) /\ paired[f]
  BY <1>1 DEF UsageInv, UsageTypeOK, StreamInv
<1>3. /\ style \in Styles /\ IsUsage(e) /\ e \in Usages /\ e.turn \in Nat \ {0}
  BY <1>2, UsageAt DEF UsageInv, StreamInv, Latest
<1>4. /\ e.kind \in {"tokens", "end"} /\ e.sum \in Nat
      /\ e.kind = "end" => HasEnds /\ e.sum = (IF HasTotals THEN e.turn ELSE 0)
      /\ e.kind = "tokens" => HasTokens
  BY <1>3, UsageFields DEF Usages
<1>5. Latest(f)' = e
  BY <1>1 DEF Latest
<1> HIDE DEF e
<1>6. base[f] \in Nat /\ total' \in Nat
  BY <1>1, <1>4 DEF UsageInv, UsageTypeOK
<1>7. UsageTypeOK'
  BY <1>1, <1>6 DEF UsageInv, UsageTypeOK, Spent
<1>8. /\ at'[f] = "report" /\ kept'[f] = (e.kind = "end")
      /\ \A g \in Followers \ {f} : at'[g] = at[g] /\ kept'[g] = kept[g]
  BY <1>1 DEF UsageInv, UsageTypeOK
<1>9. HasTotals /\ e.kind = "end" => total' = e.turn
  BY <1>1, <1>3, <1>4
<1>10. HasEnds' = HasEnds /\ HasTokens' = HasTokens /\ HasTotals' = HasTotals
  BY <1>1 DEF HasEnds, HasTokens, HasTotals
<1>11. ASSUME Lone(f), whole[f], ToldOnce
       PROVE  booked = BookedAt(e) /\ total' = e.turn
  <2>1. LoneInv(f) /\ at[f] = "save" /\ heard[f] # 0
    BY <1>1, <1>2 DEF UsageInv
  <2>2. booked = BookedAt(e) /\ base[f] = BeforeOf(e)
    BY <1>2, <1>11, <2>1 DEF LoneInv, e
  <2>3. total' = e.turn
    <3>1. CASE HasTotals /\ e.kind = "end"
      BY <1>9, <3>1
    <3>2. CASE ~HasTotals /\ e.kind = "end"
      <4>1. ~HasTokens
        BY <1>3, <1>4, <1>11, <3>2, StyleIs
      <4>2. base[f] = e.turn - 1
        BY <2>2, <4>1 DEF BeforeOf
      <4>3. e.sum = 0
        BY <1>4, <3>2
      <4>4. ~(e.kind = "end" /\ e.sum > 0)
        BY <4>3
      <4>5. total' = base[f] + 1
        BY <1>1, <4>4
      <4> QED BY <1>3, <4>2, <4>5
    <3>3. CASE e.kind # "end"
      <4>1. base[f] = e.turn - 1
        BY <2>2, <3>3 DEF BeforeOf
      <4>2. total' = base[f] + 1
        BY <1>1, <3>3
      <4> QED BY <1>3, <4>1, <4>2
    <3> QED BY <1>3, <3>1, <3>2, <3>3, StyleIs
  <2> QED BY <2>2, <2>3
<1>13. LoneInv(f)'
  <2>1. booked' = booked /\ heard'[f] # 0 /\ whole' = whole /\ style' = style
    BY <1>1, <1>2
  <2>2. Lone(f)' <=> Lone(f)
    BY <1>8 DEF Lone
  <2>3. BookedAt(Latest(f))' = BookedAt(e)
    BY <1>5, <1>10 DEF BookedAt
  <2> QED BY <1>5, <1>8, <1>11, <2>1, <2>2, <2>3 DEF LoneInv, ToldOnce
<1>14. at[f] # "off" /\ at'[f] # "off" /\ UNCHANGED <<style, stream, paired, base, heard, whole>>
  BY <1>1, <1>8
<1>15. kept'[f] => heard'[f] > 0 /\ Latest(f)'.kind = "end"
  BY <1>2, <1>5, <1>8, <1>14
<1>16. HasTotals /\ kept'[f] /\ paired[f] => total' = Latest(f)'.turn
  BY <1>5, <1>8, <1>9
<1>17. \A g \in Followers \ {f} : /\ at'[g] = at[g] /\ heard'[g] = heard[g]
                                  /\ whole'[g] = whole[g] /\ kept'[g] = kept[g]
                                  /\ base'[g] = base[g]
  BY <1>8, <1>14
<1>18. /\ at'[f] \in {"load", "save"} => heard'[f] > 0 /\ ~kept'[f] /\ paired[f]
       /\ at'[f] = "report" => heard'[f] > 0
       /\ ~paired[f] => total' = total
  BY <1>2, <1>8, <1>14, <1>16
<1> QED BY <1>7, <1>13, <1>14, <1>15, <1>16, <1>17, <1>18, OneMoves

\* The fields of events, and what is booked at them.
LEMMA UsageEvents ==
    ASSUME style \in Styles, NEW t \in Nat \ {0}
    PROVE  /\ Tokens(t).kind = "tokens" /\ Tokens(t).turn = t
           /\ EndOf(t).kind = "end" /\ EndOf(t).turn = t
           /\ EndOf(t).sum = (IF HasTotals THEN t ELSE 0)
           /\ BookedAt(EndOf(t)) = [sum |-> t, rich |-> TRUE]
           /\ HasEnds /\ t > 1 => BookedAt(Tokens(t)) = [sum |-> t - 1, rich |-> TRUE]
           /\ HasEnds /\ t = 1 => BookedAt(Tokens(t)) = [sum |-> 1, rich |-> FALSE]
           /\ ~HasEnds => BookedAt(Tokens(t)) = [sum |-> t, rich |-> FALSE]
           /\ BeforeOf(EndOf(t)) = (IF HasTokens THEN t ELSE t - 1)
           /\ BeforeOf(Tokens(t)) = t - 1
<1>1. Tokens(t).kind = "tokens" /\ Tokens(t).turn = t
  BY DEF Tokens
<1>2. /\ EndOf(t).kind = "end" /\ EndOf(t).turn = t
      /\ EndOf(t).sum = (IF HasTotals THEN t ELSE 0)
  BY DEF EndOf
<1>3. BookedAt(EndOf(t)) = [sum |-> t, rich |-> TRUE]
  BY <1>2 DEF BookedAt
<1>4. HasEnds => BookedAt(Tokens(t)) = [sum |-> IF t = 1 THEN 1 ELSE t - 1, rich |-> t > 1]
  BY <1>1, "tokens" # "end" DEF BookedAt
<1>5. /\ t > 1 => (IF t = 1 THEN 1 ELSE t - 1) = t - 1 /\ (t > 1) = TRUE
      /\ t = 1 => (IF t = 1 THEN 1 ELSE t - 1) = 1 /\ (t > 1) = FALSE
  OBVIOUS
<1>6. ~HasEnds => BookedAt(Tokens(t)) = [sum |-> t, rich |-> FALSE]
  BY <1>1 DEF BookedAt
<1>7. /\ BeforeOf(EndOf(t)) = (IF HasTokens THEN t ELSE t - 1)
      /\ BeforeOf(Tokens(t)) = t - 1
  BY <1>1, <1>2 DEF BeforeOf
<1>8. HasEnds /\ t > 1 => BookedAt(Tokens(t)) = [sum |-> t - 1, rich |-> TRUE]
  BY <1>4, <1>5, Zenon
<1>9. HasEnds /\ t = 1 => BookedAt(Tokens(t)) = [sum |-> 1, rich |-> FALSE]
  BY <1>4, <1>5, Zenon
<1> QED BY <1>1, <1>2, <1>3, <1>6, <1>7, <1>8, <1>9

\* How an end, and how tokens, count.
LEMMA EndCounts ==
    ASSUME style \in Styles, NEW t \in Nat \ {0}, NEW s \in Nat, NEW r \in BOOLEAN,
           HasTotals \/ s + 1 = t
    PROVE  Counted([sum |-> s, rich |-> r], EndOf(t)) = [sum |-> t, rich |-> TRUE]
<1> DEFINE b == [sum |-> s, rich |-> r]
           d == EndOf(t)
<1>1. d.kind = "end" /\ d.sum = (IF HasTotals THEN t ELSE 0) /\ b.sum = s
  BY UsageEvents
<1> HIDE DEF b, d
<1>2. Counted(b, d) = [sum |-> IF d.sum > 0 THEN d.sum ELSE b.sum + 1, rich |-> TRUE]
  BY <1>1, CountedIs
<1>3. (IF d.sum > 0 THEN d.sum ELSE b.sum + 1) = t
  BY <1>1
<1> QED BY <1>2, <1>3 DEF b, d

LEMMA TokensCount ==
    ASSUME style \in Styles, NEW t \in Nat \ {0}, NEW s \in Nat
    PROVE  /\ Counted([sum |-> s, rich |-> FALSE], Tokens(t)) = [sum |-> s + 1, rich |-> FALSE]
           /\ Counted([sum |-> s, rich |-> TRUE], Tokens(t)) = [sum |-> s, rich |-> TRUE]
<1> DEFINE b == [sum |-> s, rich |-> FALSE]
           c == [sum |-> s, rich |-> TRUE]
           d == Tokens(t)
<1>1. d.kind = "tokens" /\ b.rich = FALSE /\ c.rich = TRUE
  BY UsageEvents
<1>2. [b EXCEPT !.sum = @ + 1] = [sum |-> s + 1, rich |-> FALSE]
  <2>1. b \in [sum : Nat, rich : BOOLEAN] /\ b.sum = s /\ b.rich = FALSE
    OBVIOUS
  <2> HIDE DEF b
  <2> DEFINE c2 == [b EXCEPT !.sum = @ + 1]
  <2>2. c2 \in [sum : Nat, rich : BOOLEAN] /\ c2.sum = s + 1 /\ c2.rich = FALSE
    BY <2>1
  <2> HIDE DEF c2
  <2>3. c2 = [sum |-> s + 1, rich |-> FALSE]
    BY <2>2
  <2> QED BY <2>3 DEF c2
<1> HIDE DEF b, c, d
<1>3. Counted(b, d) = [b EXCEPT !.sum = @ + 1]
  BY <1>1, CountedIs
<1>4. Counted(c, d) = c
  BY <1>1, CountedIs
<1> QED BY <1>2, <1>3, <1>4, Zenon DEF b, c, d

\* What the next event makes of what is booked, and what it leaves of the session.
LEMMA NextIsBooked ==
    ASSUME style \in Styles, ToldOnce, NEW e, IsUsage(e)
    PROVE  /\ Counted(BookedAt(e), After(e)) = BookedAt(After(e))
           /\ BeforeOf(After(e)) = e.turn
<1>1. /\ e.turn \in Nat \ {0} /\ e.kind \in {"tokens", "end"}
      /\ e.kind = "tokens" => HasTokens /\ e = Tokens(e.turn)
      /\ e.kind = "end" => HasEnds
  BY UsageFields
<1>2. e.kind = "end" => e = EndOf(e.turn)
  BY <1>1, UsageEvents DEF IsUsage
<1>3. /\ HasTokens \/ HasEnds
      /\ HasTokens /\ HasEnds => HasTotals
  BY StyleIs
<1>4. PICK t \in Nat \ {0} : t = e.turn
  BY <1>1
<1>5. /\ t + 1 \in Nat \ {0} /\ t - 1 \in Nat /\ t + 1 > 1 /\ (t + 1) - 1 = t
      /\ t # 1 => t > 1
  <2>1. t + 1 \in Nat \ {0}
    OBVIOUS
  <2>2. t - 1 \in Nat
    OBVIOUS
  <2>3. t + 1 > 1
    OBVIOUS
  <2>4. (t + 1) - 1 = t
    OBVIOUS
  <2>5. t # 1 => t > 1
    OBVIOUS
  <2> QED BY <2>1, <2>2, <2>3, <2>4, <2>5
<1>6. CASE e.kind = "tokens" /\ HasEnds
  <2>1. After(e) = EndOf(t) /\ HasTotals /\ HasTokens
    BY <1>1, <1>3, <1>4, <1>6 DEF After
  <2>2. PICK s \in Nat, r \in BOOLEAN : BookedAt(Tokens(t)) = [sum |-> s, rich |-> r]
    <3>1. CASE t = 1
      BY <1>6, <3>1, UsageEvents
    <3>2. CASE t # 1
      <4>1. BookedAt(Tokens(t)) = [sum |-> t - 1, rich |-> TRUE]
        BY <1>5, <1>6, <3>2, UsageEvents
      <4> QED BY <1>5, <4>1
    <3> QED BY <3>1, <3>2
  <2>3. Counted(BookedAt(Tokens(t)), EndOf(t)) = [sum |-> t, rich |-> TRUE]
    BY <2>1, <2>2, EndCounts
  <2>4. BookedAt(EndOf(t)) = [sum |-> t, rich |-> TRUE] /\ BeforeOf(EndOf(t)) = t
    BY <2>1, UsageEvents
  <2> QED BY <1>1, <1>4, <1>6, <2>1, <2>3, <2>4
<1>7. CASE e.kind = "tokens" /\ ~HasEnds
  <2>1. After(e) = Tokens(t + 1)
    BY <1>1, <1>4, <1>7 DEF After, FirstOf
  <2>2. BookedAt(Tokens(t)) = [sum |-> t, rich |-> FALSE]
    BY <1>7, UsageEvents
  <2>3. /\ BookedAt(Tokens(t + 1)) = [sum |-> t + 1, rich |-> FALSE]
        /\ BeforeOf(Tokens(t + 1)) = (t + 1) - 1
    BY <1>5, <1>7, UsageEvents
  <2>4. Counted([sum |-> t, rich |-> FALSE], Tokens(t + 1)) = [sum |-> t + 1, rich |-> FALSE]
    BY <1>5, TokensCount
  <2>5. e = Tokens(t)
    BY <1>1, <1>4, <1>7
  <2> QED BY <1>4, <1>5, <2>1, <2>2, <2>3, <2>4, <2>5
<1>8. CASE e.kind = "end"
  <2>1. e = EndOf(t) /\ After(e) = FirstOf(t + 1) /\ HasEnds
    BY <1>1, <1>2, <1>4, <1>8 DEF After
  <2>2. BookedAt(e) = [sum |-> t, rich |-> TRUE]
    BY <2>1, UsageEvents
  <2>3. CASE HasTokens
    <3>1. FirstOf(t + 1) = Tokens(t + 1)
      BY <2>3 DEF FirstOf
    <3>2. /\ BookedAt(Tokens(t + 1)) = [sum |-> (t + 1) - 1, rich |-> TRUE]
          /\ BeforeOf(Tokens(t + 1)) = (t + 1) - 1
      BY <1>5, <2>1, UsageEvents
    <3>3. Counted([sum |-> t, rich |-> TRUE], Tokens(t + 1)) = [sum |-> t, rich |-> TRUE]
      BY <1>5, TokensCount
    <3> QED BY <1>4, <1>5, <2>1, <2>2, <3>1, <3>2, <3>3
  <2>4. CASE ~HasTokens
    <3>1. FirstOf(t + 1) = EndOf(t + 1)
      BY <2>4 DEF FirstOf
    <3>2. /\ BookedAt(EndOf(t + 1)) = [sum |-> t + 1, rich |-> TRUE]
          /\ BeforeOf(EndOf(t + 1)) = (t + 1) - 1
      BY <1>5, <2>4, UsageEvents
    <3>3. Counted([sum |-> t, rich |-> TRUE], EndOf(t + 1)) = [sum |-> t + 1, rich |-> TRUE]
      BY <1>5, EndCounts
    <3> QED BY <1>4, <1>5, <2>1, <2>2, <3>1, <3>2, <3>3
  <2> QED BY <2>3, <2>4
<1> QED BY <1>1, <1>6, <1>7, <1>8

LEMMA FirstIsBooked ==
    ASSUME style \in Styles
    PROVE  /\ Counted([sum |-> 0, rich |-> FALSE], FirstOf(1)) = BookedAt(FirstOf(1))
           /\ BeforeOf(FirstOf(1)) = 0
<1>1. 1 \in Nat \ {0} /\ 1 - 1 = 0 /\ 0 + 1 = 1
  OBVIOUS
<1>2. CASE HasTokens
  <2>1. FirstOf(1) = Tokens(1)
    BY <1>2 DEF FirstOf
  <2>2. BookedAt(Tokens(1)) = [sum |-> 1, rich |-> FALSE] /\ BeforeOf(Tokens(1)) = 1 - 1
    BY <1>1, UsageEvents
  <2>3. Counted([sum |-> 0, rich |-> FALSE], Tokens(1)) = [sum |-> 0 + 1, rich |-> FALSE]
    BY <1>1, TokensCount
  <2> QED BY <1>1, <2>1, <2>2, <2>3
<1>3. CASE ~HasTokens
  <2>1. FirstOf(1) = EndOf(1)
    BY <1>3 DEF FirstOf
  <2>2. BookedAt(EndOf(1)) = [sum |-> 1, rich |-> TRUE] /\ BeforeOf(EndOf(1)) = 1 - 1
    BY <1>1, <1>3, UsageEvents
  <2>3. Counted([sum |-> 0, rich |-> FALSE], EndOf(1)) = [sum |-> 1, rich |-> TRUE]
    BY <1>1, EndCounts
  <2> QED BY <1>1, <2>1, <2>2, <2>3
<1> QED BY <1>2, <1>3

\* An event is booked.
LEMMA HearKeeps ==
    ASSUME UsageInv, NEW f \in Followers, Hear(f)
    PROVE  UsageInv'
<1> DEFINE h == heard[f]
           d == stream[h + 1]
<1>1. /\ UNCHANGED <<style, stream, whole, paired, base, total>>
      /\ at[f] = "idle" /\ h < Len(stream)
      /\ heard' = [heard EXCEPT ![f] = h + 1]
      /\ booked' = Counted(booked, d)
      /\ kept' = [kept EXCEPT ![f] = FALSE]
      /\ at' = [at EXCEPT ![f] = IF paired[f] THEN "load" ELSE "report"]
  BY DEF Hear
<1>2. /\ style \in Styles /\ Len(stream) \in Nat /\ h \in 0 .. Len(stream)
      /\ stream # <<>> => stream[1] = FirstOf(1)
      /\ \A n \in 1 .. Len(stream) - 1 : stream[n + 1] = After(stream[n])
      /\ paired[f] \in BOOLEAN /\ booked \in [sum : Nat, rich : BOOLEAN]
  BY DEF UsageInv, StreamInv, UsageTypeOK
<1>3. h \in Nat /\ h + 1 \in 1 .. Len(stream) /\ h + 1 # 0
  BY <1>1, <1>2
<1>4. IsUsage(d) /\ d \in Usages /\ d.turn \in Nat \ {0}
  BY <1>3, UsageAt DEF UsageInv
<1>5. d.kind \in {"tokens", "end"} /\ d.sum \in Nat
  BY <1>2, <1>4, UsageFields DEF Usages
<1> HIDE DEF d
<1>6. /\ heard'[f] = h + 1 /\ kept'[f] = FALSE
      /\ at'[f] = IF paired[f] THEN "load" ELSE "report"
      /\ \A g \in Followers \ {f} : /\ heard'[g] = heard[g] /\ at'[g] = at[g]
                                    /\ kept'[g] = kept[g]
  BY <1>1 DEF UsageInv, UsageTypeOK
<1> HIDE DEF h
<1>7. Latest(f)' = d
  BY <1>1, <1>6 DEF Latest, d
<1>8. booked' \in [sum : Nat, rich : BOOLEAN]
  <2>1. CASE d.kind = "end"
    <3>1. booked' = [sum |-> IF d.sum > 0 THEN d.sum ELSE booked.sum + 1, rich |-> TRUE]
      BY <1>1, <2>1, CountedIs
    <3> QED BY <1>2, <1>5, <3>1
  <2>2. CASE d.kind = "tokens" /\ ~booked.rich
    <3>1. booked' = [booked EXCEPT !.sum = @ + 1]
      BY <1>1, <2>2, CountedIs
    <3> QED BY <1>2, <3>1
  <2>3. CASE d.kind = "tokens" /\ booked.rich
    BY <1>1, <1>2, <2>3, CountedIs
  <2> QED BY <1>5, <2>1, <2>2, <2>3
<1>9. UsageTypeOK'
  <2>1. heard' \in [Followers -> 0 .. Len(stream)]
    BY <1>1, <1>2, <1>3 DEF UsageInv, UsageTypeOK
  <2> QED BY <1>1, <1>8, <2>1 DEF UsageInv, UsageTypeOK, Spent
<1>10. ASSUME Lone(f), whole[f], ToldOnce
       PROVE  booked' = BookedAt(d) /\ (paired[f] => total = BeforeOf(d))
  <2>1. LoneInv(f) /\ at[f] = "idle"
    BY <1>1 DEF UsageInv
  <2>2. CASE h = 0
    <3>1. booked = [sum |-> 0, rich |-> FALSE] /\ total = 0
      BY <1>10, <2>1, <2>2 DEF LoneInv, h
    <3>2. d = FirstOf(1)
      BY <1>2, <1>3, <2>2 DEF d
    <3> QED BY <1>1, <1>2, <3>1, <3>2, FirstIsBooked
  <2>3. CASE h # 0
    <3> DEFINE e == Latest(f)
    <3>1. booked = BookedAt(e) /\ (paired[f] => total = e.turn)
      BY <1>10, <2>1, <2>3 DEF LoneInv, h
    <3>2. h \in 1 .. Len(stream) /\ h \in 1 .. Len(stream) - 1
      BY <1>2, <1>3, <2>3
    <3>3. IsUsage(e) /\ e \in Usages /\ d = After(e)
      BY <1>2, <3>2, UsageAt DEF UsageInv, Latest, d, h
    <3> HIDE DEF e
    <3>4. Counted(BookedAt(e), d) = BookedAt(d) /\ BeforeOf(d) = e.turn
      BY <1>2, <1>10, <3>3, NextIsBooked
    <3> QED BY <1>1, <3>1, <3>4
  <2> QED BY <2>2, <2>3
<1>11. LoneInv(f)'
  <2>1. HasEnds' = HasEnds /\ HasTokens' = HasTokens
    BY <1>1 DEF HasEnds, HasTokens
  <2>2. BookedAt(Latest(f))' = BookedAt(d) /\ BeforeOf(Latest(f))' = BeforeOf(d)
    BY <1>7, <2>1 DEF BookedAt, BeforeOf
  <2>3. Lone(f)' <=> Lone(f)
    BY <1>6 DEF Lone
  <2>4. heard'[f] # 0 /\ whole' = whole /\ style' = style /\ paired' = paired /\ total' = total
    BY <1>1, <1>3, <1>6
  <2>5. paired[f] => at'[f] = "load"
    BY <1>6
  <2> QED BY <1>7, <1>10, <2>2, <2>3, <2>4, <2>5 DEF LoneInv, ToldOnce
<1>12. /\ at[f] # "off" /\ at'[f] # "off" /\ UNCHANGED <<style, stream, paired, base, whole>>
       /\ ~kept'[f] /\ total' = total
  BY <1>1, <1>6
<1>13. /\ at'[f] \in {"load", "save"} => heard'[f] > 0 /\ ~kept'[f] /\ paired[f]
       /\ at'[f] = "report" => heard'[f] > 0
  BY <1>3, <1>6
<1>14. \A g \in Followers \ {f} : /\ at'[g] = at[g] /\ heard'[g] = heard[g]
                                  /\ whole'[g] = whole[g] /\ kept'[g] = kept[g]
                                  /\ base'[g] = base[g]
  BY <1>6, <1>12
<1> QED BY <1>9, <1>11, <1>12, <1>13, <1>14, OneMoves

\* Every step keeps UsageInv.
LEMMA UsageStep ==
    ASSUME UsageInv, [UsageNext]_usageVars
    PROVE  UsageInv'
<1>1. CASE EndTurn
  BY <1>1, EndTurnKeeps
<1>2. ASSUME NEW f \in Followers, Follow(f)
      PROVE  UsageInv'
  BY <1>2, FollowKeeps
<1>3. ASSUME NEW f \in Followers, Hear(f)
      PROVE  UsageInv'
  BY <1>3, HearKeeps
<1>4. ASSUME NEW f \in Followers, Miss(f)
      PROVE  UsageInv'
  BY <1>4, MissKeeps
<1>5. ASSUME NEW f \in Followers, Load(f)
      PROVE  UsageInv'
  BY <1>5, LoadKeeps
<1>6. ASSUME NEW f \in Followers, Save(f)
      PROVE  UsageInv'
  BY <1>6, SaveKeeps
<1>7. ASSUME NEW f \in Followers, UpdateFails(f)
      PROVE  UsageInv'
  BY <1>7, UpdateFailsKeeps
<1>8. ASSUME NEW f \in Followers, Report(f)
      PROVE  UsageInv'
  BY <1>8, ReportKeeps
<1>9. CASE UNCHANGED usageVars
  <2>1. UNCHANGED <<style, stream, at, heard, whole, kept, paired, base, booked, total>>
    BY <1>9 DEF usageVars
  <2>2. StreamInv'
    BY <2>1, StreamStays DEF UsageInv
  <2>3. UsageTypeOK'
    BY <2>1 DEF UsageInv, UsageTypeOK, Spent
  <2>4. \A f \in Followers : LoneInv(f)' /\ Latest(f)' = Latest(f)
    BY <2>1 DEF UsageInv, LoneInv, Lone, Latest, BookedAt, BeforeOf, HasEnds, HasTokens, ToldOnce
  <2>5. HasTotals' = HasTotals
    BY <2>1 DEF HasTotals
  <2> QED BY <2>1, <2>2, <2>3, <2>4, <2>5 DEF UsageInv
<1> QED BY <1>1, <1>2, <1>3, <1>4, <1>5, <1>6, <1>7, <1>8, <1>9 DEF UsageNext

\* A lone follower that misses nothing has at each of its steps booked and saved what
\* the turns so far have cost, and a saved end leaves its totals in the session.
THEOREM UsageInvHolds == UsageSpec => []UsageInv
<1>1. UsageInit => UsageInv
  BY UsageStarts
<1>2. UsageInv /\ [UsageNext]_usageVars => UsageInv'
  BY UsageStep
<1> QED BY <1>1, <1>2, PTL DEF UsageSpec

\* All variables of the records keep their types, for any followers and turns.
THEOREM UsageTypes == UsageSpec => []UsageTypeOK
<1>1. UsageInv => UsageTypeOK
  BY DEF UsageInv
<1> QED BY <1>1, UsageInvHolds, PTL

\* After a turn a follower has heard the last event of it.
LEMMA AfterTheTurn ==
    ASSUME UsageInv, NEW f \in Followers, AfterTurn(f)
    PROVE  /\ heard[f] # 0 /\ at[f] = "idle" /\ IsUsage(Latest(f)) /\ style \in Styles
           /\ HasEnds => Latest(f).kind = "end"
<1> DEFINE h == heard[f]
<1>1. h \in 0 .. Len(stream) /\ Len(stream) \in Nat /\ style \in Styles
  BY DEF UsageInv, UsageTypeOK, StreamInv
<1>2. h > 0 /\ at[f] = "idle"
  BY DEF AfterTurn
<1>3. h \in 1 .. Len(stream) /\ h # 0
  BY <1>1, <1>2
<1>4. IsUsage(stream[h])
  BY <1>3, UsageAt DEF UsageInv
<1>5. ASSUME HasEnds, stream[h].kind # "end"
      PROVE  FALSE
  <2>1. h # Len(stream)
    <3>1. stream # <<>>
      BY <1>3
    <3> QED BY <1>5, <3>1 DEF UsageInv, StreamInv
  <2>2. h < Len(stream) /\ h \in 1 .. Len(stream) - 1
    BY <1>3, <1>1, <2>1
  <2>3. stream[h + 1] = After(stream[h])
    BY <2>2 DEF UsageInv, StreamInv
  <2>4. stream[h].kind = "tokens" /\ stream[h].turn \in Nat \ {0}
    BY <1>1, <1>4, <1>5, UsageFields
  <2>5. stream[h + 1] = EndOf(stream[h].turn)
    BY <1>5, <2>3, <2>4 DEF After
  <2>6. stream[h + 1].turn = stream[h].turn
    BY <1>1, <2>4, <2>5, UsageEvents
  <2>7. stream[h + 1].turn > stream[h].turn
    BY <2>2 DEF AfterTurn, Latest
  <2> QED BY <2>4, <2>6, <2>7
<1> QED BY <1>1, <1>2, <1>3, <1>4, <1>5 DEF Latest

\* The two parts of RecordsAreTrue.
LEMMA LoneRecords ==
    ASSUME UsageInv
    PROVE  LoneRecordsAreTrue
<1> SUFFICES ASSUME NEW f \in Followers, Lone(f) /\ whole[f] /\ ToldOnce,
                    AfterTurn(f)
             PROVE  /\ booked.sum = Latest(f).turn
                    /\ paired[f] => total = Latest(f).turn
  BY DEF LoneRecordsAreTrue, ToldOnce
<1> DEFINE e == Latest(f)
<1>1. /\ heard[f] # 0 /\ at[f] = "idle" /\ IsUsage(e) /\ style \in Styles
      /\ HasEnds => e.kind = "end"
  BY AfterTheTurn
<1>2. booked = BookedAt(e) /\ (paired[f] => total = e.turn)
  <2>1. LoneInv(f)
    BY DEF UsageInv
  <2> QED BY <1>1, <2>1 DEF LoneInv
<1> HIDE DEF e
<1>3. /\ e.turn \in Nat \ {0}
      /\ e.kind = "end" \/ (e.kind = "tokens" /\ ~HasEnds)
  BY <1>1, UsageFields
<1>4. BookedAt(e).sum = e.turn
  BY <1>3 DEF BookedAt
<1> QED BY <1>2, <1>4 DEF e

LEMMA TotalsMend ==
    ASSUME UsageInv
    PROVE  TotalsMendTheSession
<1> SUFFICES ASSUME HasTotals, \E f \in Followers : paired[f],
                    \A f \in Followers : paired[f] =>
                        at[f] \in {"report", "idle"} /\ heard[f] = Len(stream) /\ kept[f]
             PROVE  total = Spent
  BY DEF TotalsMendTheSession
<1>1. PICK f \in Followers : paired[f] /\ total = Latest(f).turn
  BY DEF UsageInv
<1>2. heard[f] = Len(stream) /\ heard[f] > 0
  BY <1>1 DEF UsageInv
<1>3. stream # <<>>
  BY <1>2
<1> QED BY <1>1, <1>2, <1>3 DEF Spent, Latest

\* What is written down of a loop is what it has cost: at every turn for one follower
\* that gets all, in the end for any that get the totals, for any followers, turns,
\* losses and failures of storage.
THEOREM UsageIsRecordedTruly == UsageSpec => []RecordsAreTrue
<1>1. UsageInv => RecordsAreTrue
  BY LoneRecords, TotalsMend DEF RecordsAreTrue
<1> QED BY <1>1, UsageInvHolds, PTL

-----------------------------------------------------------------------------
(* The turns of external agents. *)

LineKinds == {"text", "use", "result", "other", "bad"}
Events == (LineKinds \cup {"start", "end", "error"}) \X (Tools \cup {NoTool})
PrintedLines == LineKinds \X (Tools \cup {NoTool})

Tapes == [heard : Nat, texts : Nat, segment : BOOLEAN, blocks : Seq(Events),
          last : Tools \cup {NoTool}]

TurnTypes ==
    /\ TurnTypeOK
    /\ said \in Seq(Events) /\ pipe \in Seq(PrintedLines) /\ tape \in Tapes
    /\ passed + Len(pipe) <= MaxLines

\* A call and its result.
Marked(e) == e[1] \in {"use", "result"}
Once(s) == \A i, j \in DOMAIN s : s[i] = s[j] /\ Marked(s[i]) => i = j

\* The program makes each call once and gives its result once, after it.
Protocol(s, p) ==
    /\ Once(s) /\ Once(p)
    /\ \A i \in DOMAIN s : \A j \in DOMAIN p : s[i] = p[j] => ~Marked(s[i])
    /\ \A m \in DOMAIN s :
          s[m][1] = "result" => \E i \in 1 .. m - 1 : s[i] = Use(s[m][2])
    /\ \A m \in DOMAIN p :
          p[m][1] = "result" =>
             \/ \E i \in DOMAIN s : s[i] = Use(p[m][2])
             \/ \E i \in 1 .. m - 1 : p[i] = Use(p[m][2])

\* What ends a turn is its last event.
EndIsLast ==
    \A i \in DOMAIN said : said[i][1] \in {"end", "error"} => i = Len(said) /\ step = "ended"

\* The events of a kind that t has heard of s.
HeardOf(kind, t, s) == {i \in 1 .. t.heard : s[i][1] = kind}

\* u is the last call among the first n events.
LastUse(u, n, s) == /\ u \in 1 .. n /\ s[u][1] = "use"
                    /\ \A j \in u + 1 .. n : s[j][1] # "use"

\* What a tape has of the events it has heard.
Transcribes(t, s) ==
    /\ t.texts = Cardinality(HeardOf("text", t, s))
    /\ \E f \in Pairings(HeardOf("use", t, s), PlacesOf("use", t.blocks)) :
          \A i \in HeardOf("use", t, s) : t.blocks[f[i]] = s[i]
    /\ \E f \in Pairings(HeardOf("result", t, s), PlacesOf("result", t.blocks)) :
          \A i \in HeardOf("result", t, s) : \A u \in 1 .. i :
             LastUse(u, i, s) => t.blocks[f[i]] = Result(s[u][2])
    /\ \A u \in 1 .. t.heard : LastUse(u, t.heard, s) => t.last = s[u][2]

TurnInv ==
    /\ TurnTypes /\ Protocol(said, pipe) /\ EndIsLast
    /\ step = "new" => said = <<>> /\ pipe = <<>> /\ program = "none" /\ tape = BlankTape
    /\ way \in Streamed /\ rec \in {"on", "stored"} => Transcribes(tape, said)
    /\ way \in Streamed /\ rec = "stored" => tape.heard = Len(said) /\ step = "ended"

----------------------------------------------------------------------------
(* Places and pairings.                                                      *)

LEMMA PairingGrows ==
    ASSUME NEW P \in SUBSET Nat, NEW Q \in SUBSET Nat, NEW f \in Pairings(P, Q),
           NEW n \in Nat, NEW m \in Nat, \A i \in P : i < n, \A k \in Q : k < m
    PROVE  [i \in P \cup {n} |-> IF i = n THEN m ELSE f[i]] \in Pairings(P \cup {n}, Q \cup {m})
<1> DEFINE g == [i \in P \cup {n} |-> IF i = n THEN m ELSE f[i]]
<1>1. /\ f \in [P -> Q] /\ \A i, j \in P : i < j => f[i] < f[j]
      /\ \A k \in Q : \E i \in P : f[i] = k
  BY DEF Pairings
<1>2. g \in [P \cup {n} -> Q \cup {m}] /\ g[n] = m /\ \A i \in P : g[i] = f[i]
  BY <1>1
<1> HIDE DEF g
<1>3. ASSUME NEW i \in P \cup {n}, NEW j \in P \cup {n}, i < j PROVE g[i] < g[j]
  <2>1. CASE i \in P /\ j \in P
    BY <1>1, <1>2, <1>3, <2>1
  <2>2. CASE i \in P /\ j = n
    BY <1>1, <1>2, <2>2
  <2>3. CASE i = n /\ j \in P
    BY <1>3, <2>3
  <2> QED BY <1>3, <2>1, <2>2, <2>3
<1>4. ASSUME NEW k \in Q \cup {m} PROVE \E i \in P \cup {n} : g[i] = k
  BY <1>1, <1>2
<1> QED BY <1>2, <1>3, <1>4 DEF Pairings, g

LEMMA AppendPlaces ==
    ASSUME NEW b \in Seq(Events), NEW e \in Events
    PROVE  /\ Append(b, e) \in Seq(Events) /\ Len(Append(b, e)) = Len(b) + 1
           /\ \A i \in DOMAIN b : Append(b, e)[i] = b[i]
           /\ Append(b, e)[Len(b) + 1] = e
           /\ DOMAIN Append(b, e) = DOMAIN b \cup {Len(b) + 1}
           /\ \A kind : PlacesOf(kind, Append(b, e)) =
                 IF e[1] = kind THEN PlacesOf(kind, b) \cup {Len(b) + 1} ELSE PlacesOf(kind, b)
<1>1. /\ Append(b, e) \in Seq(Events) /\ Len(Append(b, e)) = Len(b) + 1
      /\ \A i \in DOMAIN b : Append(b, e)[i] = b[i]
      /\ Append(b, e)[Len(b) + 1] = e
      /\ DOMAIN Append(b, e) = DOMAIN b \cup {Len(b) + 1}
  OBVIOUS
<1>2. \A kind : PlacesOf(kind, Append(b, e)) =
                 IF e[1] = kind THEN PlacesOf(kind, b) \cup {Len(b) + 1} ELSE PlacesOf(kind, b)
  <2>1. Len(b) + 1 \notin DOMAIN b
    OBVIOUS
  <2> QED BY <1>1, <2>1 DEF PlacesOf
<1> QED BY <1>1, <1>2

\* Text between calls is not one of them.
LEMMA ClosedKeeps ==
    ASSUME NEW t \in Tapes
    PROVE  /\ Closed(t) \in Seq(Events) /\ Len(t.blocks) <= Len(Closed(t))
           /\ \A i \in DOMAIN t.blocks : Closed(t)[i] = t.blocks[i]
           /\ \A kind \in {"use", "result"} : PlacesOf(kind, Closed(t)) = PlacesOf(kind, t.blocks)
<1>1. t.blocks \in Seq(Events) /\ TextLine \in Events /\ TextLine[1] = "text"
  BY DEF Tapes, TextLine, Events, LineKinds
<1>2. CASE t.segment
  BY <1>1, <1>2, AppendPlaces DEF Closed
<1>3. CASE ~t.segment
  BY <1>1, <1>3 DEF Closed
<1> QED BY <1>2, <1>3

LEMMA HeardGrows ==
    ASSUME NEW t \in Tapes, NEW u \in Tapes, NEW s \in Seq(Events), u.heard = t.heard + 1
    PROVE  \A kind : HeardOf(kind, u, s) =
              IF s[u.heard][1] = kind THEN HeardOf(kind, t, s) \cup {u.heard}
                                      ELSE HeardOf(kind, t, s)
<1>1. t.heard \in Nat /\ 1 .. u.heard = 1 .. t.heard \cup {u.heard} /\ u.heard \notin 1 .. t.heard
  BY DEF Tapes
<1> QED BY <1>1 DEF HeardOf

LEMMA HeardIsFinite ==
    ASSUME NEW t \in Tapes, NEW s, NEW kind
    PROVE  IsFiniteSet(HeardOf(kind, t, s))
<1>1. IsFiniteSet(1 .. t.heard) /\ HeardOf(kind, t, s) \subseteq 1 .. t.heard
  BY FS_Interval DEF Tapes, HeardOf
<1> QED BY <1>1, FS_Subset

----------------------------------------------------------------------------
(* A tape that hears the next event.                                         *)

LEMMA TapesAreMade ==
    ASSUME NEW h \in Nat, NEW n \in Nat, NEW g \in BOOLEAN, NEW b \in Seq(Events),
           NEW l \in Tools \cup {NoTool}
    PROVE  [heard |-> h, texts |-> n, segment |-> g, blocks |-> b, last |-> l] \in Tapes
BY DEF Tapes

\* The blocks of a tape that has heard e.
BlocksAfter(t, e) ==
    IF e[1] = "use" THEN Append(Closed(t), e)
    ELSE IF e[1] = "result" THEN Append(t.blocks, Result(t.last))
    ELSE IF e[1] = "end" THEN Closed(t) ELSE t.blocks

\* A tape that hears e.
HeardNext(t, e) == [Hears(t, e) EXCEPT !.heard = @ + 1]

LEMMA TapesHear ==
    ASSUME NEW t \in Tapes, NEW e \in Events, NEW u, u = HeardNext(t, e)
    PROVE  /\ u \in Tapes /\ u.heard = t.heard + 1
           /\ u.texts = IF e[1] = "text" THEN t.texts + 1 ELSE t.texts
           /\ u.last = IF e[1] = "use" THEN e[2] ELSE t.last
           /\ u.blocks = BlocksAfter(t, e)
<1>0. /\ t.heard + 1 \in Nat /\ t.texts \in Nat /\ t.texts + 1 \in Nat
      /\ t.segment \in BOOLEAN /\ t.blocks \in Seq(Events) /\ t.last \in Tools \cup {NoTool}
  BY DEF Tapes
<1>1. e[2] \in Tools \cup {NoTool} /\ Result(t.last) \in Events
  BY DEF Events, LineKinds, Tapes, Result
<1>2. Closed(t) \in Seq(Events)
  BY ClosedKeeps
<1>3. CASE e[1] = "text"
  <2>1. e[1] # "use" /\ e[1] # "result" /\ e[1] # "end"
    BY <1>3
  <2>2. Hears(t, e) = [t EXCEPT !.texts = @ + 1, !.segment = TRUE]
    BY <1>3, <2>1, Zenon DEF Hears
  <2>3. u = [heard |-> t.heard + 1, texts |-> t.texts + 1, segment |-> TRUE,
             blocks |-> t.blocks, last |-> t.last]
    BY <2>2 DEF Tapes, HeardNext
  <2>5. [heard |-> t.heard + 1, texts |-> t.texts + 1, segment |-> TRUE,
         blocks |-> t.blocks, last |-> t.last] \in Tapes
    BY <1>0, TapesAreMade
  <2>6. u \in Tapes
    BY <2>3, <2>5, Zenon
  <2> QED BY <1>3, <2>1, <2>3, <2>6 DEF BlocksAfter
<1>4. CASE e[1] = "use"
  <2>1. e[1] # "text" /\ e[1] # "result" /\ e[1] # "end"
    BY <1>4
  <2>2. Hears(t, e) = [t EXCEPT !.blocks = Append(Closed(t), e), !.segment = FALSE,
                                !.last = e[2]]
    BY <1>4, <2>1, Zenon DEF Hears
  <2>3. u = [heard |-> t.heard + 1, texts |-> t.texts, segment |-> FALSE,
             blocks |-> Append(Closed(t), e), last |-> e[2]]
    BY <2>2 DEF Tapes, HeardNext
  <2>4. Append(Closed(t), e) \in Seq(Events)
    BY <1>2, AppendPlaces
  <2>5. [heard |-> t.heard + 1, texts |-> t.texts, segment |-> FALSE,
         blocks |-> Append(Closed(t), e), last |-> e[2]] \in Tapes
    BY <1>0, <1>1, <2>4, TapesAreMade
  <2>6. u \in Tapes
    BY <2>3, <2>5, Zenon
  <2> QED BY <1>4, <2>1, <2>3, <2>6 DEF BlocksAfter
<1>5. CASE e[1] = "result"
  <2>1. e[1] # "text" /\ e[1] # "use" /\ e[1] # "end"
    BY <1>5
  <2>2. Hears(t, e) = [t EXCEPT !.blocks = Append(@, Result(t.last))]
    BY <1>5, <2>1, Zenon DEF Hears
  <2>3. u = [heard |-> t.heard + 1, texts |-> t.texts, segment |-> t.segment,
             blocks |-> Append(t.blocks, Result(t.last)), last |-> t.last]
    BY <2>2 DEF Tapes, HeardNext
  <2>4. Append(t.blocks, Result(t.last)) \in Seq(Events)
    BY <1>1, AppendPlaces DEF Tapes
  <2>5. [heard |-> t.heard + 1, texts |-> t.texts, segment |-> t.segment,
         blocks |-> Append(t.blocks, Result(t.last)), last |-> t.last] \in Tapes
    BY <1>0, <2>4, TapesAreMade
  <2>6. u \in Tapes
    BY <2>3, <2>5, Zenon
  <2> QED BY <1>5, <2>1, <2>3, <2>6 DEF BlocksAfter
<1>6. CASE e[1] = "end"
  <2>1. e[1] # "text" /\ e[1] # "use" /\ e[1] # "result"
    BY <1>6
  <2>2. Hears(t, e) = [t EXCEPT !.blocks = Closed(t)]
    BY <1>6, <2>1, Zenon DEF Hears
  <2>3. u = [heard |-> t.heard + 1, texts |-> t.texts, segment |-> t.segment,
             blocks |-> Closed(t), last |-> t.last]
    BY <2>2 DEF Tapes, HeardNext
  <2>5. [heard |-> t.heard + 1, texts |-> t.texts, segment |-> t.segment,
         blocks |-> Closed(t), last |-> t.last] \in Tapes
    BY <1>0, <1>2, TapesAreMade
  <2>6. u \in Tapes
    BY <2>3, <2>5, Zenon
  <2> QED BY <1>6, <2>1, <2>3, <2>6 DEF BlocksAfter
<1>7. CASE e[1] \notin {"text", "use", "result", "end"}
  <2>1. e[1] # "text" /\ e[1] # "use" /\ e[1] # "result" /\ e[1] # "end"
    BY <1>7
  <2>2. Hears(t, e) = t
    BY <2>1, Zenon DEF Hears
  <2>3. u = [t EXCEPT !.heard = t.heard + 1]
    BY <2>2 DEF HeardNext
  <2>4. /\ u \in Tapes /\ u.heard = t.heard + 1 /\ u.texts = t.texts /\ u.last = t.last
        /\ u.blocks = t.blocks
    BY <2>3 DEF Tapes
  <2> QED BY <2>1, <2>4 DEF BlocksAfter
<1> QED BY <1>3, <1>4, <1>5, <1>6, <1>7

\* What a tape had stays; a call and a result come after it.
LEMMA BlocksHear ==
    ASSUME NEW t \in Tapes, NEW e \in Events, NEW b, b = BlocksAfter(t, e)
    PROVE  /\ \A i \in DOMAIN t.blocks : b[i] = t.blocks[i]
           /\ \A k \in {"use", "result"} :
                 /\ e[1] # k => PlacesOf(k, b) = PlacesOf(k, t.blocks)
                 /\ e[1] = k => /\ PlacesOf(k, b) =
                                      PlacesOf(k, t.blocks) \cup {Len(b)}
                                /\ Len(t.blocks) < Len(b)
           /\ e[1] = "use" => b[Len(b)] = e
           /\ e[1] = "result" => b[Len(b)] = Result(t.last)
<1>1. t.blocks \in Seq(Events) /\ Result(t.last) \in Events /\ Result(t.last)[1] = "result"
  BY DEF Tapes, Result, Events, LineKinds
<1>2. /\ Closed(t) \in Seq(Events) /\ Len(t.blocks) <= Len(Closed(t))
      /\ \A i \in DOMAIN t.blocks : i \in DOMAIN Closed(t) /\ Closed(t)[i] = t.blocks[i]
      /\ \A kind \in {"use", "result"} : PlacesOf(kind, Closed(t)) = PlacesOf(kind, t.blocks)
  BY <1>1, ClosedKeeps
<1>3. CASE e[1] = "use"
  <2>1. b = Append(Closed(t), e)
    BY <1>3 DEF BlocksAfter
  <2>2. Len(b) = Len(Closed(t)) + 1 /\ b[Len(b)] = e
    BY <1>2, <2>1, AppendPlaces
  <2>3. \A i \in DOMAIN t.blocks : b[i] = t.blocks[i]
    BY <1>2, <2>1, AppendPlaces
  <2>4. PlacesOf("use", b) = PlacesOf("use", t.blocks) \cup {Len(b)}
    BY <1>2, <1>3, <2>1, <2>2, AppendPlaces
  <2>5. PlacesOf("result", b) = PlacesOf("result", t.blocks)
    BY <1>2, <1>3, <2>1, AppendPlaces
  <2>6. Len(t.blocks) < Len(b)
    BY <1>1, <1>2, <2>2
  <2> QED BY <1>3, <2>2, <2>3, <2>4, <2>5, <2>6
<1>4. CASE e[1] = "result"
  <2>1. b = Append(t.blocks, Result(t.last))
    BY <1>4 DEF BlocksAfter
  <2>2. Len(b) = Len(t.blocks) + 1 /\ b[Len(b)] = Result(t.last)
    BY <1>1, <1>4, <2>1, AppendPlaces
  <2>3. \A i \in DOMAIN t.blocks : b[i] = t.blocks[i]
    BY <1>1, <1>4, <2>1, AppendPlaces
  <2>4. PlacesOf("result", b) = PlacesOf("result", t.blocks) \cup {Len(b)}
    BY <1>1, <1>4, <2>1, <2>2, AppendPlaces
  <2>5. PlacesOf("use", b) = PlacesOf("use", t.blocks)
    BY <1>1, <1>4, <2>1, AppendPlaces
  <2>6. Len(t.blocks) < Len(b)
    BY <1>1, <2>2
  <2> QED BY <1>4, <2>2, <2>3, <2>4, <2>5, <2>6
<1>5. CASE e[1] \notin {"use", "result"}
  <2>1. b = Closed(t) \/ b = t.blocks
    BY <1>5 DEF BlocksAfter
  <2> QED BY <1>2, <1>5, <2>1
<1> QED BY <1>3, <1>4, <1>5

LEMMA FollowsOn ==
    ASSUME NEW t \in Tapes, NEW s \in Seq(Events), Transcribes(t, s), t.heard < Len(s),
           NEW u, u = HeardNext(t, s[t.heard + 1])
    PROVE  u \in Tapes /\ u.heard = t.heard + 1 /\ Transcribes(u, s)
<1> DEFINE h == t.heard + 1
           e == s[h]
<1>1. t.heard \in Nat /\ h \in 1 .. Len(s) /\ e \in Events
  BY DEF Tapes
<1>2. /\ u \in Tapes /\ u.heard = h
      /\ u.texts = IF e[1] = "text" THEN t.texts + 1 ELSE t.texts
      /\ u.last = IF e[1] = "use" THEN e[2] ELSE t.last
      /\ u.blocks = BlocksAfter(t, e)
  BY <1>1, TapesHear
<1>3. \A kind : HeardOf(kind, u, s) = IF e[1] = kind THEN HeardOf(kind, t, s) \cup {h}
                                                    ELSE HeardOf(kind, t, s)
  <2>1. u \in Tapes /\ u.heard = t.heard + 1
    BY <1>2
  <2>2. \A kind : HeardOf(kind, u, s) =
              IF s[u.heard][1] = kind THEN HeardOf(kind, t, s) \cup {u.heard}
                                      ELSE HeardOf(kind, t, s)
    BY <2>1, HeardGrows
  <2> QED BY <2>1, <2>2
<1>4. /\ \A i \in DOMAIN t.blocks : u.blocks[i] = t.blocks[i]
      /\ \A k \in {"use", "result"} :
            /\ e[1] # k => PlacesOf(k, u.blocks) = PlacesOf(k, t.blocks)
            /\ e[1] = k => /\ PlacesOf(k, u.blocks) =
                                 PlacesOf(k, t.blocks) \cup {Len(u.blocks)}
                           /\ Len(t.blocks) < Len(u.blocks)
      /\ e[1] = "use" => u.blocks[Len(u.blocks)] = e
      /\ e[1] = "result" => u.blocks[Len(u.blocks)] = Result(t.last)
  BY <1>1, <1>2, BlocksHear
<1>5. /\ t.blocks \in Seq(Events) /\ u.blocks \in Seq(Events)
      /\ \A k : PlacesOf(k, t.blocks) \subseteq DOMAIN t.blocks
  BY <1>2 DEF Tapes, PlacesOf
<1>6. \A k : HeardOf(k, t, s) \subseteq 1 .. t.heard
  BY DEF HeardOf
<1> HIDE DEF h
<1>7. u.texts = Cardinality(HeardOf("text", u, s))
  <2>1. t.texts = Cardinality(HeardOf("text", t, s)) /\ IsFiniteSet(HeardOf("text", t, s))
    BY HeardIsFinite DEF Transcribes
  <2>2. h \notin HeardOf("text", t, s)
    BY <1>1, <1>6 DEF h
  <2>3. Cardinality(HeardOf("text", t, s) \cup {h}) = t.texts + 1
    BY <2>1, <2>2, FS_AddElement
  <2> QED BY <1>2, <1>3, <2>1, <2>3
<1>8. \A v \in 1 .. h : LastUse(v, h, s) =>
          IF e[1] = "use" THEN v = h ELSE v \in 1 .. t.heard /\ LastUse(v, t.heard, s)
  BY <1>1 DEF LastUse, h
<1>9. \A v \in 1 .. t.heard : LastUse(v, t.heard, s) => t.last = s[v][2]
  BY DEF Transcribes
<1>10. \A v \in 1 .. u.heard : LastUse(v, u.heard, s) => u.last = s[v][2]
  BY <1>2, <1>8, <1>9
<1>11. \E f \in Pairings(HeardOf("use", u, s), PlacesOf("use", u.blocks)) :
          \A i \in HeardOf("use", u, s) : u.blocks[f[i]] = s[i]
  <2>1. PICK f \in Pairings(HeardOf("use", t, s), PlacesOf("use", t.blocks)) :
            \A i \in HeardOf("use", t, s) : t.blocks[f[i]] = s[i]
    BY DEF Transcribes
  <2>2. f \in [HeardOf("use", t, s) -> PlacesOf("use", t.blocks)]
    BY DEF Pairings
  <2>3. CASE e[1] # "use"
    <3>1. HeardOf("use", u, s) = HeardOf("use", t, s)
      BY <1>3, <2>3
    <3>2. PlacesOf("use", u.blocks) = PlacesOf("use", t.blocks)
      BY <1>4, <2>3
    <3>3. \A i \in HeardOf("use", t, s) : u.blocks[f[i]] = t.blocks[f[i]]
      BY <1>4, <1>5, <2>2
    <3> QED BY <2>1, <3>1, <3>2, <3>3
  <2>4. CASE e[1] = "use"
    <3> DEFINE P == HeardOf("use", t, s)
               Q == PlacesOf("use", t.blocks)
               m == Len(u.blocks)
               g == [i \in P \cup {h} |-> IF i = h THEN m ELSE f[i]]
    <3>1. /\ P \in SUBSET Nat /\ Q \in SUBSET Nat /\ h \in Nat /\ m \in Nat
          /\ \A i \in P : i < h
          /\ \A k \in Q : k < m
      BY <1>1, <1>4, <1>5, <1>6, <2>4 DEF h
    <3>2. g \in Pairings(P \cup {h}, Q \cup {m})
      BY <3>1, PairingGrows
    <3>3. \A i \in P \cup {h} : u.blocks[g[i]] = s[i]
      BY <1>4, <1>5, <2>1, <2>2, <2>4, <3>1
    <3>4. HeardOf("use", u, s) = P \cup {h} /\ PlacesOf("use", u.blocks) = Q \cup {m}
      BY <1>3, <1>4, <2>4
    <3> HIDE DEF P, Q, m, g
    <3> QED BY <3>2, <3>3, <3>4
  <2> QED BY <2>3, <2>4
<1>12. \E f \in Pairings(HeardOf("result", u, s), PlacesOf("result", u.blocks)) :
          \A i \in HeardOf("result", u, s) : \A v \in 1 .. i :
             LastUse(v, i, s) => u.blocks[f[i]] = Result(s[v][2])
  <2>1. PICK f \in Pairings(HeardOf("result", t, s), PlacesOf("result", t.blocks)) :
            \A i \in HeardOf("result", t, s) : \A v \in 1 .. i :
               LastUse(v, i, s) => t.blocks[f[i]] = Result(s[v][2])
    BY DEF Transcribes
  <2>2. f \in [HeardOf("result", t, s) -> PlacesOf("result", t.blocks)]
    BY DEF Pairings
  <2>3. CASE e[1] # "result"
    <3>1. HeardOf("result", u, s) = HeardOf("result", t, s)
      BY <1>3, <2>3
    <3>2. PlacesOf("result", u.blocks) = PlacesOf("result", t.blocks)
      BY <1>4, <2>3
    <3>3. \A i \in HeardOf("result", t, s) : u.blocks[f[i]] = t.blocks[f[i]]
      BY <1>4, <1>5, <2>2
    <3> QED BY <2>1, <3>1, <3>2, <3>3
  <2>4. CASE e[1] = "result"
    <3> DEFINE P == HeardOf("result", t, s)
               Q == PlacesOf("result", t.blocks)
               m == Len(u.blocks)
               g == [i \in P \cup {h} |-> IF i = h THEN m ELSE f[i]]
    <3>1. /\ P \in SUBSET Nat /\ Q \in SUBSET Nat /\ h \in Nat /\ m \in Nat
          /\ \A i \in P : i < h
          /\ \A k \in Q : k < m
      BY <1>1, <1>4, <1>5, <1>6, <2>4 DEF h
    <3>2. g \in Pairings(P \cup {h}, Q \cup {m})
      BY <3>1, PairingGrows
    <3>3. ASSUME NEW i \in P \cup {h}, NEW v \in 1 .. i, LastUse(v, i, s)
          PROVE  u.blocks[g[i]] = Result(s[v][2])
      <4>1. CASE i = h
        BY <1>4, <1>8, <1>9, <2>4, <3>3, <4>1
      <4>2. CASE i \in P /\ i # h
        BY <1>4, <1>5, <2>1, <2>2, <3>3, <4>2
      <4> QED BY <4>1, <4>2
    <3>4. HeardOf("result", u, s) = P \cup {h} /\ PlacesOf("result", u.blocks) = Q \cup {m}
      BY <1>3, <1>4, <2>4
    <3> HIDE DEF P, Q, m, g
    <3> QED BY <3>2, <3>3, <3>4
  <2> QED BY <2>3, <2>4
<1> QED BY <1>2, <1>7, <1>10, <1>11, <1>12 DEF Transcribes, h

\* More events leave what was heard as it was.
LEMMA FollowsPrefix ==
    ASSUME NEW t \in Tapes, NEW s \in Seq(Events), NEW s2 \in Seq(Events), Transcribes(t, s),
           \A i \in 1 .. t.heard : s2[i] = s[i]
    PROVE  Transcribes(t, s2)
<1>1. \A kind : HeardOf(kind, t, s2) = HeardOf(kind, t, s)
  BY DEF HeardOf
<1>2. \A i \in 1 .. t.heard : \A u \in 1 .. i :
          s2[u] = s[u] /\ (LastUse(u, i, s2) <=> LastUse(u, i, s))
  <2> SUFFICES ASSUME NEW i \in 1 .. t.heard, NEW u \in 1 .. i
               PROVE  s2[u] = s[u] /\ (LastUse(u, i, s2) <=> LastUse(u, i, s))
    OBVIOUS
  <2>1. t.heard \in Nat /\ \A j \in 1 .. i : s2[j] = s[j]
    BY DEF Tapes
  <2>2. u + 1 .. i \subseteq 1 .. i
    BY <2>1
  <2> QED BY <2>1, <2>2 DEF LastUse
<1>3. \A kind : HeardOf(kind, t, s) \subseteq 1 .. t.heard
  BY DEF HeardOf
<1>4. \A u \in 1 .. t.heard : LastUse(u, t.heard, s2) => t.last = s2[u][2]
  BY <1>2 DEF Transcribes, Tapes
<1>5. t.texts = Cardinality(HeardOf("text", t, s2))
  BY <1>1 DEF Transcribes
<1>6. \E f \in Pairings(HeardOf("use", t, s2), PlacesOf("use", t.blocks)) :
          \A i \in HeardOf("use", t, s2) : t.blocks[f[i]] = s2[i]
  BY <1>1, <1>3 DEF Transcribes
<1>7. \E f \in Pairings(HeardOf("result", t, s2), PlacesOf("result", t.blocks)) :
          \A i \in HeardOf("result", t, s2) : \A u \in 1 .. i :
             LastUse(u, i, s2) => t.blocks[f[i]] = Result(s2[u][2])
  BY <1>1, <1>2, <1>3 DEF Transcribes
<1> QED BY <1>4, <1>5, <1>6, <1>7 DEF Transcribes

----------------------------------------------------------------------------
(* What the program prints, and what is said of it.                          *)

LEMMA EventsAppended ==
    ASSUME NEW S, NEW s \in Seq(S), NEW e \in S
    PROVE  /\ Append(s, e) \in Seq(S) /\ Len(Append(s, e)) = Len(s) + 1
           /\ DOMAIN Append(s, e) = DOMAIN s \cup {Len(s) + 1} /\ Len(s) + 1 \notin DOMAIN s
           /\ \A i \in DOMAIN s : Append(s, e)[i] = s[i]
           /\ Append(s, e)[Len(s) + 1] = e
           /\ \A m \in DOMAIN s : 1 .. m - 1 \subseteq DOMAIN s
           /\ 1 .. (Len(s) + 1) - 1 = DOMAIN s
OBVIOUS

LEMMA ProtocolEmits ==
    ASSUME NEW s \in Seq(Events), NEW p \in Seq(PrintedLines), Protocol(s, p),
           NEW e \in Events, ~Marked(e)
    PROVE  Protocol(Append(s, e), p)
<1> DEFINE t == Append(s, e)
           n == Len(s) + 1
<1>1. /\ t \in Seq(Events) /\ DOMAIN t = DOMAIN s \cup {n} /\ n \notin DOMAIN s
      /\ \A i \in DOMAIN s : t[i] = s[i]
      /\ t[n] = e /\ \A m \in DOMAIN s : 1 .. m - 1 \subseteq DOMAIN s
  BY EventsAppended
<1> HIDE DEF t, n
<1>2. Once(t)
  BY <1>1 DEF Once, Protocol
<1>3. \A i \in DOMAIN t : \A j \in DOMAIN p : t[i] = p[j] => ~Marked(t[i])
  BY <1>1 DEF Protocol
<1>4. \A m \in DOMAIN t : t[m][1] = "result" => \E i \in 1 .. m - 1 : t[i] = Use(t[m][2])
  <2> SUFFICES ASSUME NEW m \in DOMAIN t, t[m][1] = "result"
               PROVE  \E i \in 1 .. m - 1 : t[i] = Use(t[m][2])
    OBVIOUS
  <2>1. m \in DOMAIN s /\ t[m] = s[m]
    BY <1>1 DEF Marked
  <2>2. PICK i \in 1 .. m - 1 : s[i] = Use(s[m][2])
    BY <2>1 DEF Protocol
  <2> QED BY <1>1, <2>1, <2>2
<1>5. \A m \in DOMAIN p : p[m][1] = "result" =>
          (\E i \in DOMAIN t : t[i] = Use(p[m][2])) \/ \E i \in 1 .. m - 1 : p[i] = Use(p[m][2])
  BY <1>1 DEF Protocol
<1>6. Protocol(t, p)
  BY <1>2, <1>3, <1>4, <1>5 DEF Protocol
<1> QED BY <1>6 DEF t

LEMMA TailOf ==
    ASSUME NEW p \in Seq(PrintedLines), p # <<>>
    PROVE  /\ Tail(p) \in Seq(PrintedLines) /\ Len(Tail(p)) = Len(p) - 1
           /\ Head(p) = p[1] /\ Head(p) \in PrintedLines /\ 1 \in DOMAIN p
           /\ \A j \in DOMAIN Tail(p) : j + 1 \in DOMAIN p /\ j + 1 # 1 /\ Tail(p)[j] = p[j + 1]
OBVIOUS

LEMMA ProtocolDrops ==
    ASSUME NEW s \in Seq(Events), NEW p \in Seq(PrintedLines), Protocol(s, p), p # <<>>,
           ~Marked(Head(p))
    PROVE  Protocol(s, Tail(p))
<1> DEFINE q == Tail(p)
<1>1. /\ q \in Seq(PrintedLines) /\ Head(p) = p[1] /\ 1 \in DOMAIN p
      /\ \A j \in DOMAIN q : j + 1 \in DOMAIN p /\ j + 1 # 1 /\ q[j] = p[j + 1]
  BY TailOf
<1> HIDE DEF q
<1>2. Once(q)
  BY <1>1 DEF Once, Protocol
<1>3. \A i \in DOMAIN s : \A j \in DOMAIN q : s[i] = q[j] => ~Marked(s[i])
  BY <1>1 DEF Protocol
<1>4. ASSUME NEW m \in DOMAIN q, q[m][1] = "result"
      PROVE  (\E i \in DOMAIN s : s[i] = Use(q[m][2])) \/ \E i \in 1 .. m - 1 : q[i] = Use(q[m][2])
  <2>1. m + 1 \in DOMAIN p /\ q[m] = p[m + 1] /\ p[m + 1][1] = "result"
    BY <1>1, <1>4
  <2>2. CASE \E i \in DOMAIN s : s[i] = Use(p[m + 1][2])
    BY <2>1, <2>2
  <2>3. CASE \E i \in 1 .. (m + 1) - 1 : p[i] = Use(p[m + 1][2])
    <3>1. PICK i \in 1 .. m : p[i] = Use(p[m + 1][2])
      BY <1>1, <2>3
    <3>2. i # 1
      BY <1>1, <3>1 DEF Marked, Use
    <3>3. i - 1 \in 1 .. m - 1 /\ i - 1 \in DOMAIN q /\ (i - 1) + 1 = i
      BY <1>1, <1>4, <3>1, <3>2
    <3> QED BY <1>1, <2>1, <3>1, <3>3
  <2> QED BY <2>1, <2>2, <2>3 DEF Protocol
<1>5. Protocol(s, q)
  BY <1>2, <1>3, <1>4 DEF Protocol
<1> QED BY <1>5 DEF q

LEMMA ProtocolMoves ==
    ASSUME NEW s \in Seq(Events), NEW p \in Seq(PrintedLines), Protocol(s, p), p # <<>>
    PROVE  Protocol(Append(s, Head(p)), Tail(p))
<1> DEFINE t == Append(s, Head(p))
           n == Len(s) + 1
           q == Tail(p)
<1>1. /\ q \in Seq(PrintedLines) /\ Head(p) = p[1] /\ 1 \in DOMAIN p
      /\ Head(p) \in PrintedLines
      /\ \A j \in DOMAIN q : j + 1 \in DOMAIN p /\ j + 1 # 1 /\ q[j] = p[j + 1]
  BY TailOf
<1>2. Head(p) \in Events
  BY <1>1 DEF PrintedLines, Events
<1>3. /\ t \in Seq(Events) /\ DOMAIN t = DOMAIN s \cup {n} /\ n \notin DOMAIN s
      /\ \A i \in DOMAIN s : t[i] = s[i]
      /\ t[n] = p[1] /\ \A m \in DOMAIN s : 1 .. m - 1 \subseteq DOMAIN s
      /\ 1 .. n - 1 = DOMAIN s
  BY <1>1, <1>2, EventsAppended
<1> HIDE DEF t, n, q
<1>4. Once(t) /\ Once(q)
  BY <1>1, <1>3 DEF Once, Protocol
<1>5. \A i \in DOMAIN t : \A j \in DOMAIN q : t[i] = q[j] => ~Marked(t[i])
  BY <1>1, <1>3 DEF Protocol, Once
<1>6. ASSUME NEW m \in DOMAIN t, t[m][1] = "result"
      PROVE  \E i \in 1 .. m - 1 : t[i] = Use(t[m][2])
  <2>1. CASE m \in DOMAIN s
    <3>1. PICK i \in 1 .. m - 1 : s[i] = Use(s[m][2])
      BY <1>3, <1>6, <2>1 DEF Protocol
    <3> QED BY <1>3, <2>1, <3>1
  <2>2. CASE m = n
    <3>1. p[1][1] = "result" /\ 1 .. 1 - 1 = {}
      BY <1>3, <1>6, <2>2
    <3>2. PICK i \in DOMAIN s : s[i] = Use(p[1][2])
      BY <1>1, <3>1 DEF Protocol
    <3> QED BY <1>3, <2>2, <3>2
  <2> QED BY <1>3, <2>1, <2>2
<1>7. ASSUME NEW m \in DOMAIN q, q[m][1] = "result"
      PROVE  (\E i \in DOMAIN t : t[i] = Use(q[m][2])) \/ \E i \in 1 .. m - 1 : q[i] = Use(q[m][2])
  <2>1. m + 1 \in DOMAIN p /\ q[m] = p[m + 1] /\ p[m + 1][1] = "result"
    BY <1>1, <1>7
  <2>2. CASE \E i \in DOMAIN s : s[i] = Use(p[m + 1][2])
    BY <1>3, <2>1, <2>2
  <2>3. CASE \E i \in 1 .. (m + 1) - 1 : p[i] = Use(p[m + 1][2])
    <3>1. PICK i \in 1 .. m : p[i] = Use(p[m + 1][2])
      BY <1>1, <2>3
    <3>2. CASE i = 1
      BY <1>3, <2>1, <3>1, <3>2
    <3>3. CASE i # 1
      <4>1. i - 1 \in 1 .. m - 1 /\ i - 1 \in DOMAIN q /\ (i - 1) + 1 = i
        BY <1>1, <1>7, <3>1, <3>3
      <4> QED BY <1>1, <2>1, <3>1, <4>1
    <3> QED BY <3>2, <3>3
  <2> QED BY <2>1, <2>2, <2>3 DEF Protocol
<1>8. Protocol(t, q)
  BY <1>4, <1>5, <1>6, <1>7 DEF Protocol
<1> QED BY <1>8 DEF t, q

\* The program repeats no call and no result, and gives no result before its call.
LEMMA ProtocolPrints ==
    ASSUME said \in Seq(Events), pipe \in Seq(PrintedLines), Protocol(said, pipe),
           NEW l \in Lines
    PROVE  l \in PrintedLines /\ Protocol(said, Append(pipe, l))
<1>1. l \in PrintedLines
  BY DEF Lines, TextLine, Other, Use, Result, PrintedLines, LineKinds
<1>2. \A e : (\E i \in DOMAIN Printed : Printed[i] = e) <=>
               (\E i \in DOMAIN said : said[i] = e) \/ (\E j \in DOMAIN pipe : pipe[j] = e)
  <2>1. /\ DOMAIN Printed = 1 .. Len(said) + Len(pipe)
        /\ \A i \in 1 .. Len(said) : Printed[i] = said[i]
        /\ \A j \in 1 .. Len(pipe) : Printed[Len(said) + j] = pipe[j]
    BY DEF Printed
  <2> HIDE DEF Printed
  <2>2. \A i \in DOMAIN Printed :
            i \in 1 .. Len(said) \/ (i - Len(said) \in 1 .. Len(pipe) /\ Len(said) + (i - Len(said)) = i)
    BY <2>1
  <2>3. \A i \in 1 .. Len(said) : i \in DOMAIN Printed
    BY <2>1
  <2>4. \A j \in 1 .. Len(pipe) : Len(said) + j \in DOMAIN Printed
    BY <2>1
  <2>5. DOMAIN said = 1 .. Len(said) /\ DOMAIN pipe = 1 .. Len(pipe)
    OBVIOUS
  <2> SUFFICES ASSUME NEW e
               PROVE  (\E i \in DOMAIN Printed : Printed[i] = e) <=>
                      (\E i \in DOMAIN said : said[i] = e) \/ (\E j \in DOMAIN pipe : pipe[j] = e)
    OBVIOUS
  <2>6. ASSUME NEW i \in DOMAIN Printed, Printed[i] = e
        PROVE  (\E k \in DOMAIN said : said[k] = e) \/ (\E j \in DOMAIN pipe : pipe[j] = e)
    <3>1. CASE i \in 1 .. Len(said)
      BY <2>1, <2>5, <2>6, <3>1
    <3>2. CASE i - Len(said) \in 1 .. Len(pipe) /\ Len(said) + (i - Len(said)) = i
      <4>1. pipe[i - Len(said)] = e
        BY <2>1, <2>6, <3>2
      <4> QED BY <2>5, <3>2, <4>1
    <3> QED BY <2>2, <3>1, <3>2
  <2> QED BY <2>1, <2>3, <2>4, <2>5, <2>6
<1>3. (Marked(l) => /\ ~\E i \in DOMAIN said : said[i] = l
                    /\ ~\E j \in DOMAIN pipe : pipe[j] = l)
      /\ (l[1] = "result" => \/ \E i \in DOMAIN said : said[i] = Use(l[2])
                             \/ \E j \in DOMAIN pipe : pipe[j] = Use(l[2]))
  <2>1. CASE l \in {TextLine, Other, <<"bad", NoTool>>}
    BY <2>1 DEF Marked, TextLine, Other
  <2>2. ASSUME NEW c \in Tools, ~Called(c), l = Use(c)
        PROVE  /\ l[1] = "use" /\ ~\E i \in DOMAIN said : said[i] = l
               /\ ~\E j \in DOMAIN pipe : pipe[j] = l
    BY <1>2, <2>2 DEF Called, Use
  <2>3. ASSUME NEW c \in Tools, Called(c), ~Answered(c), l = Result(c)
        PROVE  /\ ~\E i \in DOMAIN said : said[i] = l
               /\ ~\E j \in DOMAIN pipe : pipe[j] = l
               /\ l[2] = c
               /\ \/ \E i \in DOMAIN said : said[i] = Use(c)
                  \/ \E j \in DOMAIN pipe : pipe[j] = Use(c)
    <3>1. /\ ~\E i \in DOMAIN said : said[i] = l
          /\ ~\E j \in DOMAIN pipe : pipe[j] = l
      BY <1>2, <2>3 DEF Answered
    <3>2. \/ \E i \in DOMAIN said : said[i] = Use(c)
          \/ \E j \in DOMAIN pipe : pipe[j] = Use(c)
      BY <1>2, <2>3 DEF Called
    <3> QED BY <2>3, <3>1, <3>2 DEF Result
  <2>4. \/ l \in {TextLine, Other, <<"bad", NoTool>>}
        \/ \E c \in Tools : ~Called(c) /\ l = Use(c)
        \/ \E c \in Tools : Called(c) /\ ~Answered(c) /\ l = Result(c)
    BY DEF Lines
  <2>5. CASE \E c \in Tools : ~Called(c) /\ l = Use(c)
    <3>1. PICK c \in Tools : ~Called(c) /\ l = Use(c)
      BY <2>5
    <3>2. l[1] # "result"
      BY <2>2, <3>1
    <3> QED BY <2>2, <3>1, <3>2
  <2>6. CASE \E c \in Tools : Called(c) /\ ~Answered(c) /\ l = Result(c)
    <3>1. PICK c \in Tools : Called(c) /\ ~Answered(c) /\ l = Result(c)
      BY <2>6
    <3>2. /\ ~\E i \in DOMAIN said : said[i] = l
          /\ ~\E j \in DOMAIN pipe : pipe[j] = l
      BY <2>3, <3>1
    <3>3. \/ \E i \in DOMAIN said : said[i] = Use(l[2])
          \/ \E j \in DOMAIN pipe : pipe[j] = Use(l[2])
      <4>1. l[2] = c
        BY <2>3, <3>1
      <4>2. \/ \E i \in DOMAIN said : said[i] = Use(c)
            \/ \E j \in DOMAIN pipe : pipe[j] = Use(c)
        BY <2>3, <3>1
      <4> QED BY <4>1, <4>2
    <3> QED BY <3>2, <3>3
  <2> QED BY <2>1, <2>4, <2>5, <2>6
<1> DEFINE q == Append(pipe, l)
           n == Len(pipe) + 1
<1>4. /\ DOMAIN q = DOMAIN pipe \cup {n} /\ n \notin DOMAIN pipe
      /\ \A i \in DOMAIN pipe : q[i] = pipe[i]
      /\ q[n] = l /\ \A m \in DOMAIN pipe : 1 .. m - 1 \subseteq DOMAIN pipe
      /\ 1 .. n - 1 = DOMAIN pipe
  BY <1>1, EventsAppended
<1> HIDE DEF q, n
<1>5. Once(q)
  BY <1>3, <1>4 DEF Once, Protocol
<1>6. \A i \in DOMAIN said : \A j \in DOMAIN q : said[i] = q[j] => ~Marked(said[i])
  BY <1>3, <1>4 DEF Protocol
<1>7. ASSUME NEW m \in DOMAIN q, q[m][1] = "result"
      PROVE  \/ \E i \in DOMAIN said : said[i] = Use(q[m][2])
             \/ \E i \in 1 .. m - 1 : q[i] = Use(q[m][2])
  <2>1. CASE m \in DOMAIN pipe
    <3>1. \/ \E i \in DOMAIN said : said[i] = Use(pipe[m][2])
          \/ \E i \in 1 .. m - 1 : pipe[i] = Use(pipe[m][2])
      BY <1>4, <1>7, <2>1 DEF Protocol
    <3> QED BY <1>4, <2>1, <3>1
  <2>2. CASE m = n
    BY <1>3, <1>4, <1>7, <2>2
  <2> QED BY <1>4, <2>1, <2>2
<1>8. Protocol(said, q)
  BY <1>5, <1>6, <1>7 DEF Protocol
<1> QED BY <1>1, <1>8 DEF q

----------------------------------------------------------------------------
(* Steps.                                                                    *)

Steps == {"new", "refused", "starting", "writing", "reading", "waiting", "draining",
          "ended", "dropped"}
Outcomes == {"off", "on", "stored", "lost", "failed", "lagged"}

LEMMA TapeStarts ==
    ASSUME NEW s \in Seq(Events)
    PROVE  BlankTape \in Tapes /\ BlankTape.heard = 0 /\ Transcribes(BlankTape, s)
<1>1. /\ BlankTape.heard = 0 /\ BlankTape.texts = 0 /\ BlankTape.blocks = <<>>
      /\ BlankTape \in Tapes
  BY DEF BlankTape, Tapes
<1>2. \A k : HeardOf(k, BlankTape, s) = {} /\ PlacesOf(k, BlankTape.blocks) = {}
  BY <1>1 DEF HeardOf, PlacesOf
<1>3. [i \in {} |-> i] \in Pairings({}, {})
  BY DEF Pairings
<1>4. \A k : \E f \in Pairings(HeardOf(k, BlankTape, s), PlacesOf(k, BlankTape.blocks)) : TRUE
  BY <1>2, <1>3
<1>5. Cardinality({}) = 0
  BY FS_EmptySet
<1>6. \A k : \E f \in Pairings(HeardOf(k, BlankTape, s), PlacesOf(k, BlankTape.blocks)) :
          \A i \in HeardOf(k, BlankTape, s) : FALSE
  BY <1>2, <1>4
<1>7. 1 .. BlankTape.heard = {}
  BY <1>1
<1> QED BY <1>1, <1>2, <1>5, <1>6, <1>7 DEF Transcribes

\* An action that neither says nor records anything.
LEMMA QuietKeeps ==
    ASSUME TurnInv, TurnTypeOK', pipe' \in Seq(PrintedLines), Protocol(said, pipe'),
           passed' + Len(pipe') <= MaxLines,
           UNCHANGED <<way, said, rec, tape>>,
           step = "ended" => step' = "ended",
           step' = "new" => step = "new" /\ pipe' = pipe /\ program' = program
    PROVE  TurnInv'
<1>1. TurnTypes'
  BY DEF TurnInv, TurnTypes
<1>2. EndIsLast'
  BY DEF TurnInv, EndIsLast
<1>3. Protocol(said, pipe)'
  OBVIOUS
<1> QED BY <1>1, <1>2, <1>3 DEF TurnInv

\* An action that says something, of a turn that has begun.
LEMMA SayKeeps ==
    ASSUME TurnInv, TurnTypeOK', pipe' \in Seq(PrintedLines), NEW e \in Events,
           said' = Append(said, e), Protocol(said', pipe'),
           passed' + Len(pipe') <= MaxLines,
           UNCHANGED <<way, rec, tape>>,
           step \notin {"new", "ended"}, step' # "new",
           e[1] \in {"end", "error"} => step' = "ended"
    PROVE  TurnInv'
<1>1. said \in Seq(Events) /\ tape \in Tapes /\ tape.heard \in 0 .. Len(said)
  BY DEF TurnInv, TurnTypes, TurnTypeOK
<1>2. /\ said' \in Seq(Events) /\ Len(said') = Len(said) + 1
      /\ DOMAIN said' = DOMAIN said \cup {Len(said) + 1}
      /\ \A i \in DOMAIN said : said'[i] = said[i]
      /\ said'[Len(said) + 1] = e
  BY <1>1, EventsAppended
<1>3. TurnTypes'
  BY <1>2 DEF TurnInv, TurnTypes
<1>4. EndIsLast'
  BY <1>2 DEF TurnInv, EndIsLast
<1>5. way \in Streamed /\ rec \in {"on", "stored"} => Transcribes(tape, said')
  <2>1. \A i \in 1 .. tape.heard : said'[i] = said[i]
    BY <1>1, <1>2
  <2> QED BY <1>1, <1>2, <2>1, FollowsPrefix DEF TurnInv
<1>6. ~(way \in Streamed /\ rec = "stored")
  BY DEF TurnInv
<1>7. Protocol(said, pipe)'
  OBVIOUS
<1> QED BY <1>3, <1>4, <1>5, <1>6, <1>7 DEF TurnInv

\* The end of a turn.
LEMMA EndKeeps ==
    ASSUME TurnInv, TurnTypeOK', pipe' \in Seq(PrintedLines), Protocol(said, pipe'),
           passed' + Len(pipe') <= MaxLines,
           NEW how \in {"end", "error"}, End(how), UNCHANGED <<way, rec, tape>>,
           step \notin {"new", "ended"}
    PROVE  TurnInv'
<1>1. step' = "ended"
  BY DEF End
<1>2. CASE way \in Streamed
  <2> DEFINE e == <<how, NoTool>>
  <2>1. said' = Append(said, e)
    BY <1>2 DEF End, Emit
  <2>2. e \in Events /\ ~Marked(e) /\ e[1] = how
    BY DEF Events, Marked
  <2> HIDE DEF e
  <2>3. said \in Seq(Events)
    BY DEF TurnInv, TurnTypes
  <2>4. Protocol(said', pipe')
    BY <2>1, <2>2, <2>3, ProtocolEmits
  <2> QED BY <1>1, <2>1, <2>2, <2>4, SayKeeps
<1>3. CASE way \notin Streamed
  <2>1. said' = said
    BY <1>3 DEF End
  <2> QED BY <1>1, <2>1, QuietKeeps
<1> QED BY <1>2, <1>3

LEMMA RecordKeeps ==
    ASSUME TurnInv, Record
    PROVE  TurnInv'
<1> DEFINE h == tape.heard + 1
           e == said[h]
<1>1. /\ said \in Seq(Events) /\ tape \in Tapes /\ tape.heard \in 0 .. Len(said)
      /\ tape.heard < Len(said) /\ rec = "on"
      /\ UNCHANGED <<way, step, programVars, outputVars, config, said, told>>
  BY DEF TurnInv, TurnTypes, TurnTypeOK, Record
<1>2. h \in 1 .. Len(said) /\ e \in Events
  BY <1>1
<1>3. step # "new"
  BY <1>1 DEF TurnInv
<1>4. EndIsLast' /\ Protocol(said, pipe)'
  BY <1>1 DEF TurnInv, EndIsLast, outputVars
<1>5. CASE Behind
  <2>1. rec' = "lagged" /\ tape' = tape
    BY <1>5 DEF Record
  <2>2. TurnTypes'
    BY <1>1, <2>1 DEF TurnInv, TurnTypes, TurnTypeOK, programVars, outputVars
  <2> QED BY <1>1, <1>3, <1>4, <2>1, <2>2 DEF TurnInv
<1>6. CASE ~Behind
  <2>1. /\ tape' = HeardNext(tape, e)
        /\ rec' \in CASE e[1] = "end" -> {"stored", "lost"}
                      [] e[1] = "error" -> {"failed"}
                      [] OTHER -> {"on"}
    BY <1>6, Zenon DEF Record, HeardNext
  <2> HIDE DEF e, h
  <2>2. e[1] = "end" => rec' \in {"stored", "lost"}
    BY <2>1, Zenon
  <2>3. e[1] = "error" => rec' = "failed"
    <3> SUFFICES ASSUME e[1] = "error" PROVE rec' = "failed"
      OBVIOUS
    <3>1. e[1] # "end"
      OBVIOUS
    <3> QED BY <2>1, <3>1, Zenon
  <2>4. e[1] \notin {"end", "error"} => rec' = "on"
    BY <2>1, Zenon
  <2>5. tape' \in Tapes /\ tape'.heard = h
    BY <1>1, <1>2, <2>1, TapesHear DEF h
  <2>6. TurnTypes'
    <3>1. rec' \in Outcomes
      BY <2>2, <2>3, <2>4 DEF Outcomes
    <3> QED BY <1>1, <1>2, <2>5, <3>1 DEF TurnInv, TurnTypes, TurnTypeOK, programVars, outputVars,
                                         Outcomes
  <2>7. way \in Streamed => Transcribes(tape', said)
    BY <1>1, <2>1, FollowsOn DEF TurnInv, e, h
  <2>8. rec' = "stored" => h = Len(said) /\ step = "ended"
    <3>1. rec' = "stored" => e[1] = "end"
      BY <2>3, <2>4
    <3> QED BY <1>1, <1>2, <3>1 DEF TurnInv, EndIsLast, e
  <2> QED BY <1>1, <1>3, <1>4, <2>5, <2>6, <2>7, <2>8 DEF TurnInv
<1> QED BY <1>5, <1>6

LEMMA BeginKeeps ==
    ASSUME TurnInv, Begin
    PROVE  TurnInv'
<1>1. /\ step = "new" /\ step' = "starting" /\ UNCHANGED <<way, programVars, outputVars, config, tape, told>>
      /\ said = <<>> /\ pipe = <<>> /\ program = "none" /\ tape = BlankTape
      /\ said \in Seq(Events) /\ Protocol(said, pipe) /\ pipe \in Seq(PrintedLines)
  BY DEF Begin, TurnInv, TurnTypes
<1>2. CASE way \in Streamed
  <2> DEFINE e == <<"start", NoTool>>
  <2>1. rec' \in {"off", "on"} /\ said' = Append(said, e)
    BY <1>2 DEF Begin, Emit
  <2>2. e \in Events /\ ~Marked(e) /\ e[1] = "start"
    BY DEF Events, Marked
  <2> HIDE DEF e
  <2>3. Protocol(said', pipe)
    BY <1>1, <2>1, <2>2, ProtocolEmits
  <2>4. /\ said' \in Seq(Events) /\ Len(said') = 1 /\ DOMAIN said' = {1} /\ said'[1] = e
    BY <1>1, <2>1, <2>2
  <2>5. tape' \in Tapes /\ tape'.heard = 0 /\ Transcribes(tape', said')
    BY <1>1, <2>4, TapeStarts
  <2>6. TurnTypes'
    BY <1>1, <2>1, <2>4, <2>5 DEF TurnInv, TurnTypes, TurnTypeOK, programVars, outputVars
  <2>7. EndIsLast'
    BY <2>2, <2>4 DEF EndIsLast
  <2>8. Protocol(said, pipe)'
    BY <1>1, <2>3 DEF outputVars
  <2> QED BY <1>1, <2>1, <2>5, <2>6, <2>7, <2>8 DEF TurnInv
<1>3. CASE way \notin Streamed
  <2>1. UNCHANGED <<way, said, rec, tape, pipe, passed>>
    BY <1>1, <1>3 DEF Begin, outputVars
  <2>2. TurnTypeOK'
    BY <1>1, <2>1 DEF TurnInv, TurnTypes, TurnTypeOK, programVars
  <2> QED BY <1>1, <2>1, <2>2, QuietKeeps DEF TurnInv, TurnTypes
<1> QED BY <1>2, <1>3

LEMMA EndGrows ==
    ASSUME said \in Seq(Events), tape.heard \in 0 .. Len(said), NEW how \in {"end", "error"},
           End(how)
    PROVE  tape.heard \in 0 .. Len(said') /\ step' = "ended" /\ told' = how
BY DEF End, Emit

LEMMA TurnStepKeeps ==
    ASSUME TurnInv, [TurnNext]_turnVars
    PROVE  TurnInv'
<1>1. /\ TurnTypeOK /\ said \in Seq(Events) /\ pipe \in Seq(PrintedLines) /\ Protocol(said, pipe)
      /\ passed + Len(pipe) <= MaxLines /\ EndIsLast
      /\ step = "new" => program = "none"
  BY DEF TurnInv, TurnTypes
<1>2. CASE Refuse
  <2>1. UNCHANGED <<way, said, rec, tape, pipe, passed>>
    BY <1>2 DEF Refuse, outputVars
  <2>2. TurnTypeOK' /\ (step = "ended" => step' = "ended")
        /\ (step' = "new" => step = "new" /\ program' = program)
    BY <1>2, <1>1 DEF Refuse, programVars, outputVars, TurnTypeOK
  <2> QED BY <1>1, <2>1, <2>2, QuietKeeps
<1>3. CASE TakePrompt
  <2>1. UNCHANGED <<way, said, rec, tape, pipe, passed>>
    BY <1>3 DEF TakePrompt, outputVars
  <2>2. TurnTypeOK' /\ (step = "ended" => step' = "ended")
        /\ (step' = "new" => step = "new" /\ program' = program)
    BY <1>3, <1>1 DEF TakePrompt, programVars, outputVars, TurnTypeOK
  <2> QED BY <1>1, <2>1, <2>2, QuietKeeps
<1>4. CASE Fork
  <2>1. UNCHANGED <<way, said, rec, tape, pipe, passed>>
    BY <1>4 DEF Fork, outputVars
  <2>2. TurnTypeOK' /\ (step = "ended" => step' = "ended")
        /\ (step' = "new" => step = "new" /\ program' = program)
    BY <1>4, <1>1 DEF Fork, programVars, outputVars, TurnTypeOK
  <2> QED BY <1>1, <2>1, <2>2, QuietKeeps
<1>5. CASE CloseOutput
  <2>1. UNCHANGED <<way, said, rec, tape, pipe, passed>>
    BY <1>5 DEF CloseOutput, outputVars
  <2>2. TurnTypeOK' /\ (step = "ended" => step' = "ended")
        /\ (step' = "new" => step = "new" /\ program' = program)
    BY <1>5, <1>1 DEF CloseOutput, programVars, outputVars, TurnTypeOK
  <2> QED BY <1>1, <2>1, <2>2, QuietKeeps
<1>6. CASE Exit
  <2>1. UNCHANGED <<way, said, rec, tape, pipe, passed>>
    BY <1>6 DEF Exit, outputVars
  <2>2. TurnTypeOK' /\ (step = "ended" => step' = "ended")
        /\ (step' = "new" => step = "new" /\ program' = program)
    BY <1>6, <1>1 DEF Exit, programVars, outputVars, TurnTypeOK
  <2> QED BY <1>1, <2>1, <2>2, QuietKeeps
<1>7. CASE ChildEnds
  <2>1. UNCHANGED <<way, said, rec, tape, pipe, passed>>
    BY <1>7 DEF ChildEnds, outputVars
  <2>2. TurnTypeOK' /\ (step = "ended" => step' = "ended")
        /\ (step' = "new" => step = "new" /\ program' = program)
    BY <1>7, <1>1 DEF ChildEnds, programVars, outputVars, TurnTypeOK
  <2> QED BY <1>1, <2>1, <2>2, QuietKeeps
<1>8. CASE HangUp
  <2>1. UNCHANGED <<way, said, rec, tape, pipe, passed>>
    BY <1>8 DEF HangUp, outputVars
  <2>2. TurnTypeOK' /\ (step = "ended" => step' = "ended")
        /\ (step' = "new" => step = "new" /\ program' = program)
    BY <1>8, <1>1 DEF HangUp, programVars, outputVars, TurnTypeOK
  <2> QED BY <1>1, <2>1, <2>2, QuietKeeps
<1>9. CASE Begin \/ Record
  BY <1>9, BeginKeeps, RecordKeeps
<1>10. CASE WriteConfig
  <2>1. /\ step = "starting" /\ UNCHANGED <<way, rec, tape, pipe, passed, program, child, closed, prompt>>
        /\ \/ config' = TRUE /\ UNCHANGED <<step, said, told>>
           \/ End("error") /\ UNCHANGED config
    BY <1>10 DEF WriteConfig, programVars, outputVars
  <2>2. TurnTypeOK'
    <3>1. tape.heard \in 0 .. Len(said)
      BY <1>1 DEF TurnTypeOK
    <3>2. tape'.heard \in 0 .. Len(said') /\ step' \in Steps /\ told' \in {"nothing", "end", "error"}
      BY <1>1, <2>1, <3>1, EndGrows DEF Steps, TurnTypeOK
    <3> QED BY <1>1, <2>1, <3>2 DEF TurnTypeOK, Steps
  <2>3. CASE End("error")
    BY <1>1, <2>1, <2>2, <2>3, EndKeeps
  <2>4. CASE UNCHANGED <<step, said>>
    BY <1>1, <2>1, <2>2, <2>4, QuietKeeps
  <2> QED BY <2>1, <2>3, <2>4
<1>11. CASE Spawn
  <2>1. /\ step = "starting" /\ UNCHANGED <<way, rec, tape, pipe, passed, child, closed>>
        /\ \/ program' = "running" /\ step' \in {"writing", "reading"} /\ UNCHANGED <<config, said, told>>
           \/ End("error") /\ config' \in {config, FALSE} /\ UNCHANGED <<program, prompt>>
        /\ prompt' \in BOOLEAN
    BY <1>11, <1>1 DEF Spawn, outputVars, TurnTypeOK
  <2>2. TurnTypeOK'
    <3>1. tape.heard \in 0 .. Len(said)
      BY <1>1 DEF TurnTypeOK
    <3>2. tape'.heard \in 0 .. Len(said') /\ step' \in Steps /\ told' \in {"nothing", "end", "error"}
      BY <1>1, <2>1, <3>1, EndGrows DEF Steps, TurnTypeOK
    <3> QED BY <1>1, <2>1, <3>2 DEF TurnTypeOK, Steps
  <2>3. CASE End("error")
    BY <1>1, <2>1, <2>2, <2>3, EndKeeps
  <2>4. CASE step' \in {"writing", "reading"} /\ UNCHANGED said
    BY <1>1, <2>1, <2>2, <2>4, QuietKeeps
  <2> QED BY <2>1, <2>3, <2>4
<1>12. CASE WritePrompt
  <2>1. /\ step = "writing"
        /\ UNCHANGED <<way, rec, tape, pipe, passed, program, child, closed, prompt, config>>
        /\ (step' = "reading" /\ UNCHANGED <<said, told>>) \/ End("error")
    BY <1>12 DEF WritePrompt, programVars, outputVars
  <2>2. TurnTypeOK'
    <3>1. tape.heard \in 0 .. Len(said)
      BY <1>1 DEF TurnTypeOK
    <3>2. tape'.heard \in 0 .. Len(said') /\ step' \in Steps /\ told' \in {"nothing", "end", "error"}
      BY <1>1, <2>1, <3>1, EndGrows DEF Steps, TurnTypeOK
    <3> QED BY <1>1, <2>1, <3>2 DEF TurnTypeOK, Steps
  <2>3. CASE End("error")
    BY <1>1, <2>1, <2>2, <2>3, EndKeeps
  <2>4. CASE step' = "reading" /\ UNCHANGED said
    BY <1>1, <2>1, <2>2, <2>4, QuietKeeps
  <2> QED BY <2>1, <2>3, <2>4
<1>13. CASE ReadLine
  <2> DEFINE l == Head(pipe)
  <2>1. /\ step = "reading" /\ way \in Streamed /\ pipe # <<>> /\ pipe' = Tail(pipe)
        /\ UNCHANGED <<way, program, child, closed, prompt, config, rec, tape>>
        /\ \/ l[1] = "bad" /\ End("error") /\ UNCHANGED passed
           \/ Told(l) /\ said' = Append(said, l) /\ UNCHANGED <<passed, step, told>>
           \/ l = Other /\ passed' = passed + 1 /\ UNCHANGED <<said, step, told>>
    BY <1>13 DEF ReadLine, programVars, Emit
  <2>2. /\ pipe' \in Seq(PrintedLines) /\ Len(pipe') = Len(pipe) - 1 /\ l \in PrintedLines
        /\ Len(pipe) \in Nat
    BY <1>1, <2>1, TailOf
  <2>3. l \in Events
    BY <2>2 DEF PrintedLines, Events
  <2>4. ~Marked(l) => Protocol(said, pipe')
    BY <1>1, <2>1, ProtocolDrops
  <2>5. Protocol(Append(said, l), pipe')
    BY <1>1, <2>1, ProtocolMoves
  <2>6. tape \in Tapes /\ tape.heard \in 0 .. Len(said)
    BY <1>1 DEF TurnInv, TurnTypes, TurnTypeOK
  <2> HIDE DEF l
  <2>7. passed' + Len(pipe') <= MaxLines /\ passed' \in 0 .. MaxLines
    <3>1. passed \in Nat /\ MaxLines \in Nat
      BY <1>1, TurnAssumption DEF TurnTypeOK, TurnAssumption
    <3>2. passed' \in {passed, passed + 1}
      BY <2>1
    <3> QED BY <1>1, <2>2, <3>1, <3>2
  <2>8. TurnTypeOK'
    <3>1. said' = said \/ said' = Append(said, l) \/ said' = Append(said, <<"error", NoTool>>)
      BY <2>1 DEF End, Emit
    <3>2. tape'.heard \in 0 .. Len(said')
      BY <1>1, <2>1, <2>3, <2>6, <3>1
    <3>3. step' \in Steps /\ told' \in {"nothing", "end", "error"}
      BY <1>1, <2>1 DEF End, Steps, TurnTypeOK
    <3> QED BY <1>1, <2>1, <2>7, <3>2, <3>3 DEF TurnTypeOK, Steps
  <2>9. CASE l[1] = "bad" /\ End("error")
    <3>1. ~Marked(l)
      BY <2>9 DEF Marked
    <3> QED BY <2>1, <2>2, <2>4, <2>7, <2>8, <2>9, <3>1, EndKeeps
  <2>10. CASE Told(l) /\ said' = Append(said, l) /\ step' = step
    <3>1. l[1] \notin {"end", "error"}
      BY <2>10 DEF Told
    <3> QED BY <2>1, <2>2, <2>3, <2>5, <2>7, <2>8, <2>10, <3>1, SayKeeps
  <2>11. CASE l = Other /\ said' = said /\ step' = step
    <3>1. ~Marked(l)
      BY <2>11 DEF Marked, Other
    <3> QED BY <2>1, <2>2, <2>4, <2>7, <2>8, <2>11, <3>1, QuietKeeps
  <2> QED BY <2>1, <2>9, <2>10, <2>11
<1>14. CASE ReadLast \/ Wait \/ Drain
  <2>1. /\ step \in {"reading", "waiting", "draining"}
        /\ UNCHANGED <<way, rec, tape, pipe, passed, program, child, closed, prompt>>
        /\ config' \in BOOLEAN
        /\ \/ step' \in {"waiting", "draining"} /\ UNCHANGED <<said, told>>
           \/ \E how \in {"end", "error"} : End(how)
    BY <1>14, <1>1 DEF ReadLast, Wait, Drain, programVars, outputVars, TurnTypeOK
  <2>2. TurnTypeOK'
    <3>1. tape.heard \in 0 .. Len(said)
      BY <1>1 DEF TurnTypeOK
    <3>2. tape'.heard \in 0 .. Len(said') /\ step' \in Steps /\ told' \in {"nothing", "end", "error"}
      BY <1>1, <2>1, <3>1, EndGrows DEF Steps, TurnTypeOK
    <3> QED BY <1>1, <2>1, <3>2 DEF TurnTypeOK, Steps
  <2>3. CASE \E how \in {"end", "error"} : End(how)
    BY <1>1, <2>1, <2>2, <2>3, EndKeeps
  <2>4. CASE step' \in {"waiting", "draining"} /\ UNCHANGED said
    BY <1>1, <2>1, <2>2, <2>4, QuietKeeps
  <2> QED BY <2>1, <2>3, <2>4
<1>15. CASE Finish
  <2>1. /\ step = "reading" /\ way \notin Streamed /\ step' = "ended"
        /\ UNCHANGED <<way, said, pipe, passed, program, child, closed, prompt, config>>
        /\ tape' = tape \/ tape' = [tape EXCEPT !.texts = 1]
        /\ rec' \in {rec, "off", "stored", "lost"} /\ told' \in {"end", "error"}
    BY <1>15 DEF Finish, End, programVars, outputVars
  <2>2. tape' \in Tapes /\ tape'.heard = tape.heard
    BY <2>1 DEF TurnInv, TurnTypes, Tapes
  <2>3. TurnTypes'
    BY <1>1, <2>1, <2>2 DEF TurnTypes, TurnTypeOK
  <2>4. EndIsLast' /\ Protocol(said, pipe)'
    BY <1>1, <2>1 DEF EndIsLast
  <2> QED BY <2>1, <2>3, <2>4 DEF TurnInv
<1>16. CASE PrintLine
  <2>1. PICK l \in Lines : pipe' = Append(pipe, l)
    BY <1>16 DEF PrintLine
  <2>2. /\ program = "running" /\ Len(Printed) + passed < MaxLines
        /\ UNCHANGED <<way, step, program, child, closed, prompt, passed, config, said, rec, tape, told>>
    BY <1>16 DEF PrintLine, programVars
  <2>3. l \in PrintedLines /\ Protocol(said, pipe')
    BY <1>1, <2>1, ProtocolPrints
  <2>4. pipe' \in Seq(PrintedLines) /\ Len(pipe') = Len(pipe) + 1 /\ Len(pipe) \in Nat
    BY <1>1, <2>1, <2>3
  <2>5. Len(Printed) = Len(said) + Len(pipe) /\ Len(said) \in Nat
    BY <1>1 DEF Printed
  <2>6. passed' + Len(pipe') <= MaxLines
    BY <1>1, <2>2, <2>4, <2>5, TurnAssumption DEF TurnTypeOK, TurnAssumption
  <2>7. TurnTypeOK'
    BY <1>1, <2>2 DEF TurnTypeOK
  <2>8. step # "new"
    BY <1>1, <2>2
  <2> QED BY <2>2, <2>3, <2>4, <2>6, <2>7, <2>8, QuietKeeps
<1>17. CASE UNCHANGED turnVars
  BY <1>17 DEF turnVars, programVars, outputVars, TurnInv, TurnTypes, TurnTypeOK, EndIsLast
<1> QED BY <1>2, <1>3, <1>4, <1>5, <1>6, <1>7, <1>8, <1>9, <1>10, <1>11,
          <1>12, <1>13, <1>14, <1>15, <1>16, <1>17
       DEF TurnNext, TurnStep

----------------------------------------------------------------------------
(* The theorems.                                                             *)

\* The types, the order in which the program calls and answers, and what the task
\* that stores the turn has heard: inductive together.
THEOREM TurnInvHolds == TurnSpec => []TurnInv
<1>1. TurnInit => TurnInv
  <2> SUFFICES ASSUME TurnInit PROVE TurnInv
    OBVIOUS
  <2>1. /\ step = "new" /\ said = <<>> /\ pipe = <<>> /\ program = "none" /\ tape = BlankTape
        /\ rec = "off" /\ passed = 0
    BY DEF TurnInit
  <2>2. said \in Seq(Events) /\ pipe \in Seq(PrintedLines) /\ DOMAIN said = {} /\ DOMAIN pipe = {}
        /\ Len(said) = 0 /\ Len(pipe) = 0
    BY <2>1
  <2>3. tape \in Tapes /\ tape.heard = 0
    BY <2>1, <2>2, TapeStarts
  <2>4. TurnTypes
    <3>1. MaxLines \in Nat /\ 0 \in 0 .. MaxLines
      BY TurnAssumption DEF TurnAssumption
    <3>2. /\ child = "nothing" /\ closed \in BOOLEAN /\ config \in BOOLEAN /\ told = "nothing"
          /\ way \in {"codex", "claude", "piped", "plain"} /\ prompt \in BOOLEAN
      BY DEF TurnInit
    <3>3. step = "new" /\ program = "none" /\ rec = "off" /\ passed \in 0 .. MaxLines
      BY <2>1, <3>1
    <3>4. tape.heard \in 0 .. Len(said)
      BY <2>2, <2>3
    <3>5. TurnTypeOK
      BY <3>2, <3>3, <3>4 DEF TurnTypeOK
    <3> QED BY <2>1, <2>2, <2>3, <3>1, <3>5 DEF TurnTypes
  <2>5. Protocol(said, pipe) /\ EndIsLast
    BY <2>2 DEF Protocol, Once, EndIsLast
  <2> QED BY <2>1, <2>4, <2>5 DEF TurnInv
<1>2. TurnInv /\ [TurnNext]_turnVars => TurnInv'
  BY TurnStepKeeps
<1> QED BY <1>1, <1>2, PTL DEF TurnSpec

\* Every variable of the turn holds values of its type.
THEOREM TurnTypesHold == TurnSpec => []TurnTypeOK
<1>1. TurnInv => TurnTypeOK
  BY DEF TurnInv, TurnTypes
<1> QED BY <1>1, TurnInvHolds, PTL

\* A reply that spawn_chat_persist_task stores as complete has all of the text, the
\* calls and the results of the turn in their order, and results under their own
\* calls when calls were made one by one, for any tools, lines and backlog.
THEOREM StoredTurnsAreWhole == TurnSpec => []StoredTurnIsWhole
<1>1. TurnInv => StoredTurnIsWhole
  <2> SUFFICES ASSUME TurnInv, rec = "stored", way \in Streamed PROVE StoredTurnIsWhole
    BY DEF StoredTurnIsWhole
  <2>1. /\ Transcribes(tape, said) /\ tape.heard = Len(said) /\ Protocol(said, pipe)
        /\ said \in Seq(Events)
    BY DEF TurnInv, TurnTypes
  <2>2. \A k : HeardOf(k, tape, said) = PlacesOf(k, said)
    BY <2>1 DEF HeardOf, PlacesOf
  <2>3. tape.texts = Cardinality(PlacesOf("text", said))
    BY <2>1, <2>2 DEF Transcribes
  <2>4. \E f \in Pairings(PlacesOf("use", said), PlacesOf("use", tape.blocks)) :
            \A i \in DOMAIN f : tape.blocks[f[i]] = said[i]
    BY <2>1, <2>2 DEF Transcribes, Pairings
  <2>5. PICK f \in Pairings(PlacesOf("result", said), PlacesOf("result", tape.blocks)) :
            \A i \in PlacesOf("result", said) : \A u \in 1 .. i :
               LastUse(u, i, said) => tape.blocks[f[i]] = Result(said[u][2])
    BY <2>1, <2>2 DEF Transcribes
  <2>6. ASSUME OneByOne, NEW i \in PlacesOf("result", said)
        PROVE  tape.blocks[f[i]] = said[i]
    <3>1. i \in 1 .. Len(said) /\ said[i][1] = "result" /\ said[i] \in Events
      BY <2>1 DEF PlacesOf
    <3>2. said[i] = Result(said[i][2])
      BY <3>1 DEF Events, Result
    <3>3. PICK u \in 1 .. i - 1 : said[u] = Use(said[i][2])
      BY <2>1, <3>1 DEF Protocol
    <3>4. u \in 1 .. Len(said) /\ u \in 1 .. i /\ said[u][1] = "use" /\ said[u][2] = said[i][2]
      BY <2>1, <3>1, <3>3 DEF Use
    <3>5. ASSUME NEW j \in u + 1 .. i, said[j][1] = "use" PROVE FALSE
      <4>1. j # i /\ j \in DOMAIN said /\ u \in DOMAIN said /\ u < j
        BY <2>1, <3>1, <3>4, <3>5
      <4>2. PICK k \in u .. j : said[k] = Result(said[u][2])
        BY <2>6, <3>4, <3>5, <4>1 DEF OneByOne
      <4>3. k \in DOMAIN said /\ i \in DOMAIN said /\ k # i /\ said[k] = said[i]
        BY <2>1, <3>1, <3>2, <3>4, <3>5, <4>1, <4>2
      <4> QED BY <2>1, <3>1, <4>3 DEF Protocol, Once, Marked
    <3>6. LastUse(u, i, said)
      BY <3>4, <3>5 DEF LastUse
    <3> QED BY <2>5, <3>2, <3>4, <3>6
  <2>7. \E g \in Pairings(PlacesOf("result", said), PlacesOf("result", tape.blocks)) :
            OneByOne => \A i \in DOMAIN g : tape.blocks[g[i]] = said[i]
    <3>1. DOMAIN f = PlacesOf("result", said)
      BY DEF Pairings
    <3> QED BY <2>6, <3>1
  <2> QED BY <2>3, <2>4, <2>7 DEF StoredTurnIsWhole
<1> QED BY <1>1, TurnInvHolds, PTL

----------------------------------------------------------------------------
(* A cron job, for any workers and edits.  Jobs are saved whole by whoever   *)
(* has read them before, so that what holds of the job has to hold of every  *)
(* copy that is still to be saved.                                           *)

\* A schedule that repeats has its next run planned.
Planned(j) == j.here /\ j.repeats => j.next \in {0, 1}

\* The job, and whatever a save may put in its place, is planned.
RepeatingJobIsPlanned == Planned(job) /\ \A w \in Workers : Planned(taken[w])

CronInv == CronTypeOK /\ RepeatingJobIsPlanned

LEMMA NextRunsAreTimes ==
    ASSUME CronTypeOK
    PROVE  /\ \A r \in BOOLEAN : NextRun(r) \in Times
           /\ NextRun(TRUE) = 1 /\ NoJob \in Jobs
<1>1. LastRun \in Nat /\ LastRun < Never
  BY CronAssumption DEF CronAssumption, Never
<1> QED BY <1>1 DEF CronTypeOK, NextRun, Times, NoJob, Jobs, Never

LEMMA EditedJobs ==
    ASSUME CronTypeOK, NEW j \in Jobs, NEW k \in EditsOf(j)
    PROVE  k \in Jobs /\ (Planned(j) => Planned(k))
<1>1. /\ \A r \in BOOLEAN : NextRun(r) \in Times
      /\ NextRun(TRUE) = 1 /\ Never \in Times
  BY NextRunsAreTimes DEF Times
<1>2. CASE k = j
  BY <1>2
<1>3. CASE k = Paused(j)
  BY <1>3 DEF Paused, Jobs, Planned
<1>4. CASE k = Resumed(j)
  BY <1>4, <1>1 DEF Resumed, Jobs, Planned
<1>5. CASE k = [j EXCEPT !.on = TRUE]
  BY <1>5 DEF Jobs, Planned
<1>6. CASE k \in Rescheduled(j)
  BY <1>6, <1>1 DEF Rescheduled, Jobs, Planned
<1> QED BY <1>2, <1>3, <1>4, <1>5, <1>6 DEF EditsOf

LEMMA CloserJobs ==
    ASSUME NEW j \in Jobs
    PROVE  Closer(j) \in Jobs /\ (Planned(j) => Planned(Closer(j)))
<1>1. LastRun \in Nat /\ LastRun < Never
  BY CronAssumption DEF CronAssumption, Never
<1>2. \A t \in Times \ {0, Never} : t - 1 \in Times
  BY <1>1 DEF Times, Never
<1> QED BY <1>2 DEF Closer, Jobs, Planned, Never

LEMMA CronStarts == CronInit => CronInv
<1>1. LastRun \in Nat
  BY CronAssumption DEF CronAssumption, Never
<1> QED
  BY <1>1 DEF CronInit, CronInv, CronTypeOK, RepeatingJobIsPlanned, Planned,
              NoJob, Jobs, Times

LEMMA CronStep == CronInv /\ [CronNext]_cronVars => CronInv'
<1> SUFFICES ASSUME CronInv, [CronNext]_cronVars
             PROVE  CronInv'
  OBVIOUS
<1>0. CronTypeOK /\ RepeatingJobIsPlanned
  BY DEF CronInv, CronTypeOK
<1>1. ASSUME NEW w \in Workers, CreateJob(w)
      PROVE  CronInv'
  <2>1. PICK r \in BOOLEAN :
           job' = [here |-> TRUE, on |-> TRUE, repeats |-> r, next |-> NextRun(r)]
    BY <1>1 DEF CreateJob
  <2>2. job' \in Jobs /\ Planned(job)'
    BY <2>1, <1>0, NextRunsAreTimes DEF Jobs, Planned
  <2> QED BY <1>1, <1>0, <2>2 DEF CreateJob, CronInv, CronTypeOK,
             RepeatingJobIsPlanned, Planned
<1>2. ASSUME NEW w \in Workers, EditJob(w)
      PROVE  CronInv'
  <2>1. PICK j \in EditsOf(job) : taken' = [taken EXCEPT ![w] = j]
    BY <1>2 DEF EditJob
  <2>2. j \in Jobs /\ Planned(j)
    BY <1>0, EditedJobs DEF CronTypeOK, RepeatingJobIsPlanned
  <2> QED BY <1>2, <1>0, <2>1, <2>2 DEF EditJob, At, CronInv, CronTypeOK,
             RepeatingJobIsPlanned, Planned
<1>3. CASE DeleteJob
  <2>1. job' \in Jobs /\ Planned(job)'
    BY <1>3, <1>0, NextRunsAreTimes DEF DeleteJob, NoJob, Planned
  <2> QED BY <1>3, <1>0, <2>1 DEF DeleteJob, CronInv, CronTypeOK,
             RepeatingJobIsPlanned, Planned
<1>4. ASSUME NEW w \in Workers, TriggerJob(w)
      PROVE  CronInv'
  BY <1>4, <1>0 DEF TriggerJob, At, CronInv, CronTypeOK, RepeatingJobIsPlanned, Planned
<1>5. CASE SpawnDueJob
  BY <1>5, <1>0 DEF SpawnDueJob, SpawnDue, At, CronInv, CronTypeOK,
                    RepeatingJobIsPlanned, Planned
<1>6. ASSUME NEW w \in Workers, StartRun(w) \/ EndRun(w)
      PROVE  CronInv'
  BY <1>6, <1>0 DEF StartRun, EndRun, At, CronInv, CronTypeOK,
                    RepeatingJobIsPlanned, Planned
<1>7. ASSUME NEW w \in Workers, ReadToStamp(w)
      PROVE  CronInv'
  BY <1>7, <1>0 DEF ReadToStamp, At, CronInv, CronTypeOK, RepeatingJobIsPlanned, Planned
<1>8. ASSUME NEW w \in Workers, ReadToPlan(w)
      PROVE  CronInv'
  <2> DEFINE next == NextRun(job.repeats)
             plans == bySched[w] /\ job.here /\ next # Never
             j == IF plans THEN [job EXCEPT !.next = next] ELSE NoJob
  <2>1. taken' = [taken EXCEPT ![w] = j]
    BY <1>8 DEF ReadToPlan
  <2>2. j \in Jobs /\ Planned(j)
    BY <1>0, NextRunsAreTimes DEF CronTypeOK, Jobs, Planned, NoJob
  <2>3. /\ work' \in [Workers -> {"idle", "edit", "start", "run", "stamp",
                                  "save_stamp", "plan", "save_plan"}]
        /\ UNCHANGED <<job, left, bySched, edits>>
    BY <1>8, <1>0 DEF ReadToPlan, At, CronTypeOK
  <2> HIDE DEF j
  <2> QED BY <1>0, <2>1, <2>2, <2>3 DEF CronInv, CronTypeOK,
             RepeatingJobIsPlanned, Planned
<1>9. ASSUME NEW w \in Workers, SaveJob(w)
      PROVE  CronInv'
  <2>1. NoJob \in Jobs /\ Planned(NoJob)
    BY <1>0, NextRunsAreTimes DEF NoJob, Planned
  <2> QED BY <1>9, <1>0, <2>1 DEF SaveJob, At, CronInv, CronTypeOK,
             RepeatingJobIsPlanned, Planned
<1>10. CASE WaitForNext
  <2>1. job' \in Jobs /\ Planned(job)'
    BY <1>10, <1>0, CloserJobs DEF WaitForNext, CronTypeOK, RepeatingJobIsPlanned
  <2>2. \A w \in Workers : taken'[w] \in Jobs /\ Planned(taken'[w])
    BY <1>10, <1>0, CloserJobs DEF WaitForNext, CronTypeOK, RepeatingJobIsPlanned
  <2>3. left' \in 0 .. LastRun
    BY <1>10, <1>0, CronAssumption DEF WaitForNext, CronTypeOK, CronAssumption
  <2>4. taken' \in [Workers -> Jobs]
    BY <1>10, <2>2 DEF WaitForNext
  <2> QED BY <1>10, <1>0, <2>1, <2>2, <2>3, <2>4 DEF WaitForNext, CronInv, CronTypeOK,
             RepeatingJobIsPlanned
<1>11. CASE UNCHANGED cronVars
  BY <1>11, <1>0 DEF cronVars, CronInv, CronTypeOK, RepeatingJobIsPlanned, Planned
<1> QED
  BY <1>1, <1>2, <1>3, <1>4, <1>5, <1>6, <1>7, <1>8, <1>9, <1>10, <1>11
  DEF CronNext, Proceed

LEMMA CronInvHolds == CronSpec => []CronInv
  BY CronStarts, CronStep, PTL DEF CronSpec

\* Every variable of the cron job holds values of its type.
THEOREM CronTypes == CronSpec => []CronTypeOK
<1>1. CronInv => CronTypeOK
  BY DEF CronInv
<1> QED BY <1>1, CronInvHolds, PTL

\* A job with a repeating schedule always has its next run within one period of
\* the schedule, and so has every copy that an edit or a run will save over it:
\* no order of edits, runs and saves leaves it without one (cron_store.rs,
\* scheduler.rs).
THEOREM RepeatingJobsArePlanned == CronSpec => []RepeatingJobIsPlanned
<1>1. CronInv => RepeatingJobIsPlanned
  BY DEF CronInv
<1> QED BY <1>1, CronInvHolds, PTL

----------------------------------------------------------------------------
(* A terminal, for any sockets, output and size of the channel.              *)

\* At most one socket ever serves, and while it does it is told of the end of
\* the output.
OneSocketServes ==
    /\ \A s \in Sockets : socket[s] = "serving" <=> server = s
    /\ thread = "none" => server = NoSocket
    /\ thread = "ended" /\ server # NoSocket => exitSent

\* What is no longer served has been killed.
LeftTerminalIsKilled ==
    thread # "none" /\ server = NoSocket => ~entry /\ shell = "dead"

\* Something on the way to the release can happen: the guards of ReadChunk,
\* SendChunk, ReadEnd and Serve.
CanGoOn ==
    \/ thread = "reading" /\ read < written
    \/ thread = "sending" /\ (server = NoSocket \/ queued < ChannelSize)
    \/ thread = "reading" /\ read = written /\ shell = "dead" /\ ~heir
    \/ server # NoSocket /\ (queued > 0 \/ exitSent)

\* A terminal whose shell has exited or that is no longer served is released
\* or on its way: it waits for nobody but a process the shell has left behind.
ReleaseIsNotStuck ==
    (thread # "none" /\ (shell = "dead" \/ server = NoSocket)) =>
        heir \/ (~entry /\ thread = "ended") \/ CanGoOn

TerminalInv ==
    /\ TerminalTypeOK
    /\ OneSocketServes /\ LeftTerminalIsKilled
    /\ shell = "up" => entry
    /\ shell = "none" => thread = "none" /\ ~entry
    /\ free => entry /\ thread = "none"
    /\ read <= written

LEMMA TerminalStarts == TerminalInit => TerminalInv
<1> SUFFICES ASSUME TerminalInit
             PROVE  TerminalInv
  OBVIOUS
<1>1. heir \in BOOLEAN /\ entry \in BOOLEAN /\ free \in BOOLEAN /\ exitSent \in BOOLEAN
  BY DEF TerminalInit
<1>2. /\ shell = "none" /\ thread = "none" /\ server = NoSocket /\ NoSocket \notin Sockets
      /\ written \in 0 .. MaxOutput /\ read \in 0 .. MaxOutput /\ read <= written
      /\ queued \in 0 .. ChannelSize
      /\ socket = [s \in Sockets |-> "new"]
  BY TerminalAssumption DEF TerminalAssumption, TerminalInit
<1>3. ~free /\ ~entry
  BY DEF TerminalInit
<1> QED
  BY <1>1, <1>2, <1>3
  DEF TerminalInv, TerminalTypeOK, OneSocketServes, LeftTerminalIsKilled

LEMMA Closes ==
    ASSUME TerminalInv, NEW s \in Sockets, server = s, Close(s)
    PROVE  TerminalInv'
<1>1. /\ socket' = [socket EXCEPT ![s] = "ended"]
      /\ server' = NoSocket /\ queued' = 0
      /\ UNCHANGED <<heir, written, thread, read>>
  BY DEF Close
<1>2. /\ exitSent' \in BOOLEAN /\ entry' \in BOOLEAN /\ free' \in BOOLEAN
      /\ heir' \in BOOLEAN
  BY DEF Close, Kill, TerminalInv, TerminalTypeOK
<1>3. ~entry' /\ ~free' /\ shell' \in {"none", "dead"}
      /\ (thread # "none" => shell' = "dead")
  BY DEF Close, Kill, TerminalInv, TerminalTypeOK
<1>4. queued' \in 0 .. ChannelSize /\ NoSocket \notin Sockets
  BY <1>1, TerminalAssumption DEF TerminalAssumption
<1>5. TerminalTypeOK'
  BY <1>1, <1>2, <1>3, <1>4 DEF TerminalInv, TerminalTypeOK
<1>6. OneSocketServes'
  BY <1>1, <1>4 DEF TerminalInv, TerminalTypeOK, OneSocketServes
<1>7. LeftTerminalIsKilled'
  BY <1>1, <1>3 DEF LeftTerminalIsKilled
<1>8. shell' = "none" => thread' = "none"
  BY <1>1, <1>3
<1> QED BY <1>1, <1>3, <1>5, <1>6, <1>7, <1>8 DEF TerminalInv

LEMMA TerminalStep == TerminalInv /\ [TerminalNext]_terminalVars => TerminalInv'
<1> SUFFICES ASSUME TerminalInv, [TerminalNext]_terminalVars
             PROVE  TerminalInv'
  OBVIOUS
<1> USE TerminalAssumption
    DEF TerminalAssumption, TerminalInv, TerminalTypeOK, OneSocketServes,
        LeftTerminalIsKilled, ttyVars
<1>1. CASE SpawnShell
  BY <1>1 DEF SpawnShell
<1>2. CASE KillTerminal
  BY <1>2 DEF KillTerminal, Kill
<1>3. CASE ShellWrites
  BY <1>3 DEF ShellWrites
<1>4. CASE ShellExits
  BY <1>4 DEF ShellExits
<1>5. CASE HeirExits
  BY <1>5 DEF HeirExits
<1>6. CASE ReadChunk
  BY <1>6 DEF ReadChunk
<1>7. CASE SendChunk
  BY <1>7 DEF SendChunk
<1>8. CASE ReadEnd
  BY <1>8 DEF ReadEnd
<1>9. ASSUME NEW s \in Sockets, Connect(s)
      PROVE  TerminalInv'
  BY <1>9 DEF Connect
<1>10. ASSUME NEW s \in Sockets, ForwardOutput(s)
       PROVE  TerminalInv'
  BY <1>10 DEF ForwardOutput
<1>11. ASSUME NEW s \in Sockets, ForwardExit(s) \/ Disconnect(s)
       PROVE  TerminalInv'
  BY <1>11, Closes DEF ForwardExit, Disconnect
<1>12. CASE UNCHANGED terminalVars
  BY <1>12 DEF terminalVars
<1> QED
  BY <1>1, <1>2, <1>3, <1>4, <1>5, <1>6, <1>7, <1>8, <1>9, <1>10, <1>11, <1>12
  DEF TerminalNext, Serve

LEMMA TerminalInvHolds == TerminalSpec => []TerminalInv
  BY TerminalStarts, TerminalStep, PTL DEF TerminalSpec

\* Every variable of the terminal holds values of its type.
THEOREM TerminalTypes == TerminalSpec => []TerminalTypeOK
<1>1. TerminalInv => TerminalTypeOK
  BY DEF TerminalInv
<1> QED BY <1>1, TerminalInvHolds, PTL

\* What a socket has served is gone with it: no shell and no entry of the
\* manager outlives the socket, whoever ends first (handle_terminal_ws, kill).
THEOREM LeftTerminalsAreKilled == TerminalSpec => []LeftTerminalIsKilled
<1>1. TerminalInv => LeftTerminalIsKilled
  BY DEF TerminalInv
<1> QED BY <1>1, TerminalInvHolds, PTL

\* Thread, channels and socket never wait for each other: however full the
\* channel is when shell or socket ends, one of them can go on until the
\* terminal is released (read_pty_loop, handle_terminal_ws).
THEOREM ReleasesAreNotStuck == TerminalSpec => []ReleaseIsNotStuck
<1>1. TerminalInv => ReleaseIsNotStuck
  BY TerminalAssumption
  DEF TerminalAssumption, TerminalInv, TerminalTypeOK, OneSocketServes,
      LeftTerminalIsKilled, ReleaseIsNotStuck, CanGoOn
<1> QED BY <1>1, TerminalInvHolds, PTL

=============================================================================
