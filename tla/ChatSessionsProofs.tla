-------------------------- MODULE ChatSessionsProofs --------------------------
(***************************************************************************)
(* Theorems about ChatSessions, for any number of turns and models.  What  *)
(* a recorder will store is decided by who is in front when it subscribes. *)
(***************************************************************************)
EXTENDS ChatSessions, TLAPS

\* Before a turn has joined or opened a session.
Early == {"new", "loading", "looked", "opening"}

\* A session is opened by its turn, and until then nobody uses it.
OpenedOnce ==
    /\ \A t \in Turns : pc[t] \in Early => link[t] = "none"
    /\ \A s \in Turns : link[s] = "none" =>
           inbox[s] = <<>> /\ answering[s] = None /\ reg # s /\ \A t \in Turns : on[t] # s

\* What a turn has of a recorder and of a place to store at.
InOrder ==
    \A t \in Turns :
        /\ pc[t] # "streaming" => rec[t] = "none"
        /\ rec[t] = "none" => heard[t] = {}
        /\ pc[t] = "new" => saving[t] = "off"
        /\ pc[t] \in {"joined", "streaming"} => on[t] \in Turns

\* The turns whose reply t may hear.
Awaited(t) == IF ahead[t] = {} THEN {t} ELSE ahead[t]

\* While the connection lasts, the next to be answered is one of those, and of the
\* one being answered t has heard the beginning, if it is its own.
Listens(t, s) ==
    /\ answering[s] = None =>
           inbox[s] # <<>> /\ Head(inbox[s]) \in Awaited(t) /\ heard[t] = {}
    /\ answering[s] # None =>
           /\ answering[s] \in Awaited(t)
           /\ heard[t] \subseteq {<<answering[s], 1>>}
           /\ ahead[t] = {} => heard[t] = {<<t, 1>>}

Listening ==
    \A t \in Turns : rec[t] = "recording" /\ link[on[t]] = "up" => Listens(t, on[t])

\* What was stored when a turn came that found no session is still stored, and is
\* then in the history it has loaded.
Remembered ==
    \A t \in Turns : found[t] = "none" =>
        /\ pc[t] = "loading" => before[t] \subseteq Stored
        /\ pc[t] \in {"looked", "opening"} => before[t] \subseteq hist[t]

ChatInv ==
    /\ TypeOK /\ OpenedOnce /\ InOrder
    /\ Listening /\ StoredReplyIsOneReply
    /\ Remembered /\ ReopenedSessionKnowsTheChat

------------------------------------------------------------------------------
(* Opening.                                                                  *)

LEMMA OpenedOnceStep == ChatInv /\ [Next]_vars => OpenedOnce'
  <1> SUFFICES ASSUME ChatInv, [Next]_vars PROVE OpenedOnce' OBVIOUS
  <1> USE DEF ChatInv, OpenedOnce, TypeOK, Early
  <1>1. ASSUME NEW t \in Turns, Look(t) \/ LoadHistory(t) PROVE OpenedOnce'
    BY <1>1 DEF Look, Begin, LoadHistory, sessVars
  <1>2. ASSUME NEW t \in Turns, Join(t) PROVE OpenedOnce'
    BY <1>2 DEF Join, Subscribe, Live, sessVars
  <1>3. ASSUME NEW t \in Turns, GiveUp(t) PROVE OpenedOnce'
    BY <1>3, ChatAssumption DEF GiveUp, ChatAssumption, sessVars
  <1>4. ASSUME NEW t \in Turns, Open(t) PROVE OpenedOnce'
    BY <1>4 DEF Open, Subscribe
  <1>5. ASSUME NEW t \in Turns, OpenFails(t) \/ SendFails(t) PROVE OpenedOnce'
    BY <1>5 DEF OpenFails, SendFails, sessVars
  <1>6. ASSUME NEW t \in Turns, Send(t) PROVE OpenedOnce'
    BY <1>6 DEF Send
  <1>7. ASSUME NEW t \in Turns,
               StoreUserMessage(t) \/ StoreReply(t) \/ StreamCloses(t) \/ RecorderStops(t)
        PROVE  OpenedOnce'
    BY <1>7 DEF StoreUserMessage, StoreReply, StreamCloses, RecorderStops, reqVars, sessVars
  <1>8. ASSUME NEW s \in Turns, Answer(s) \/ Finish(s) \/ Refuse(s) PROVE OpenedOnce'
    BY <1>8 DEF Answer, Finish, Refuse, reqVars
  <1>9. ASSUME NEW s \in Turns, Cut(s) \/ WriterFails(s) PROVE OpenedOnce'
    BY <1>9 DEF Cut, WriterFails, reqVars
  <1>10. ASSUME NEW s \in Turns, Release(s) PROVE OpenedOnce'
    BY <1>10 DEF Release, Live, reqVars
  <1>11. CASE UNCHANGED vars BY <1>11 DEF vars, reqVars, sessVars
  <1> QED
    BY <1>1, <1>2, <1>3, <1>4, <1>5, <1>6, <1>7, <1>8, <1>9, <1>10, <1>11 DEF Next, Handle

LEMMA InOrderStep == ChatInv /\ [Next]_vars => InOrder'
  <1> SUFFICES ASSUME ChatInv, [Next]_vars PROVE InOrder' OBVIOUS
  <1> USE DEF ChatInv, InOrder, TypeOK
  <1>1. ASSUME NEW t \in Turns, Look(t) PROVE InOrder'
    BY <1>1 DEF Look, Begin
  <1>2. ASSUME NEW t \in Turns, Join(t) PROVE InOrder'
    BY <1>2 DEF Join, Subscribe, Live, recVars
  <1>3. ASSUME NEW t \in Turns, Open(t) PROVE InOrder'
    BY <1>3 DEF Open, Subscribe, recVars
  <1>4. ASSUME NEW t \in Turns, LoadHistory(t) \/ GiveUp(t) \/ OpenFails(t) PROVE InOrder'
    BY <1>4 DEF LoadHistory, GiveUp, OpenFails, recVars
  <1>5. ASSUME NEW t \in Turns, Send(t) PROVE InOrder'
    BY <1>5 DEF Send, SaveUserMessage
  <1>6. ASSUME NEW t \in Turns, SendFails(t) PROVE InOrder'
    BY <1>6 DEF SendFails, SaveUserMessage
  <1>7. ASSUME NEW t \in Turns, StoreUserMessage(t) \/ StreamCloses(t) PROVE InOrder'
    BY <1>7 DEF StoreUserMessage, StreamCloses, reqVars, recVars
  <1>8. ASSUME NEW t \in Turns, StoreReply(t) PROVE InOrder'
    BY <1>8 DEF StoreReply, reqVars
  <1>9. ASSUME NEW s \in Turns, Answer(s) PROVE InOrder'
    BY <1>9 DEF Answer, Hear, Recorders, reqVars
  <1>10. ASSUME NEW s \in Turns, Finish(s) PROVE InOrder'
    BY <1>10 DEF Finish, Hear, EndTurns, Recorders, reqVars
  <1>11. ASSUME NEW s \in Turns, Refuse(s) PROVE InOrder'
    BY <1>11 DEF Refuse, EndTurns, Recorders, reqVars
  <1>12. ASSUME NEW s \in Turns, Cut(s) \/ WriterFails(s) \/ Release(s) PROVE InOrder'
    BY <1>12 DEF Cut, WriterFails, Release, reqVars, recVars
  <1>13. ASSUME NEW t \in Turns, RecorderStops(t) PROVE InOrder'
    BY <1>13 DEF RecorderStops, reqVars
  <1>14. CASE UNCHANGED vars BY <1>14 DEF vars, reqVars, recVars
  <1> QED
    BY <1>1, <1>2, <1>3, <1>4, <1>5, <1>6, <1>7, <1>8, <1>9, <1>10, <1>11, <1>12, <1>13, <1>14
    DEF Next, Handle

------------------------------------------------------------------------------
(* Recording.                                                                *)

\* A turn sends its message once, to a session that was opened, when it records
\* nothing yet.
LEMMA Sending ==
    ASSUME ChatInv, NEW t \in Turns, Send(t)
    PROVE  /\ on[t] \in Turns /\ rec[t] = "none" /\ heard[t] = {} /\ pc[t] = "joined"
           /\ rec' \in [Turns -> {"none", "recording", "writing", "stored", "lost"}]
           /\ rec'[t] \in {"none", "recording"}
           /\ ahead'[t] = Unanswered(on[t]) /\ inbox'[on[t]] = Append(inbox[on[t]], t)
           /\ \A v \in Turns \ {t} : rec'[v] = rec[v] /\ ahead'[v] = ahead[v]
           /\ \A s \in Turns \ {on[t]} : inbox'[s] = inbox[s]
           /\ UNCHANGED <<on, heard, link, answering>>
  <1>1. on[t] \in Turns /\ rec[t] = "none" /\ heard[t] = {} /\ pc[t] = "joined"
    BY DEF ChatInv, InOrder, Send
  <1>2. rec' = [rec EXCEPT ![t] = IF saving[t] = "ready" THEN "recording" ELSE rec[t]]
    BY DEF Send
  <1>3. /\ rec' \in [Turns -> {"none", "recording", "writing", "stored", "lost"}]
        /\ rec'[t] \in {"none", "recording"} /\ \A v \in Turns \ {t} : rec'[v] = rec[v]
    BY <1>1, <1>2 DEF ChatInv, TypeOK
  <1>4. /\ ahead'[t] = Unanswered(on[t]) /\ inbox'[on[t]] = Append(inbox[on[t]], t)
        /\ \A v \in Turns \ {t} : ahead'[v] = ahead[v]
        /\ \A s \in Turns \ {on[t]} : inbox'[s] = inbox[s]
    BY <1>1 DEF ChatInv, TypeOK, Send
  <1> QED BY <1>1, <1>3, <1>4 DEF Send

\* When a message is sent, who is in front is awaited.
LEMMA SenderListens ==
    ASSUME ChatInv, NEW t \in Turns, Send(t)
    PROVE  Listens(t, on[t])'
  <1> DEFINE s == on[t]
  <1>1. s \in Turns /\ heard'[t] = {} /\ ahead'[t] = Unanswered(s)
        /\ inbox'[s] = Append(inbox[s], t) /\ answering'[s] = answering[s] /\ on'[t] = s
    BY Sending
  <1>2. inbox[s] \in Seq(Turns) /\ answering[s] \in Turns \cup {None}
    BY <1>1 DEF ChatInv, TypeOK
  <1>3. CASE answering[s] # None
    <2>1. answering[s] \in Unanswered(s) BY <1>3 DEF Unanswered
    <2> QED BY <1>1, <1>3, <2>1 DEF Listens, Awaited
  <1>4. CASE answering[s] = None /\ inbox[s] = <<>>
    <2>1. Unanswered(s) = {} BY <1>4 DEF Unanswered
    <2>2. inbox'[s] # <<>> /\ Head(inbox'[s]) = t BY <1>1, <1>2, <1>4
    <2> QED BY <1>1, <1>4, <2>1, <2>2 DEF Listens, Awaited
  <1>5. CASE answering[s] = None /\ inbox[s] # <<>>
    <2>1. 1 \in DOMAIN inbox[s] /\ Head(inbox[s]) = inbox[s][1] BY <1>2, <1>5
    <2>2. Head(inbox[s]) \in Unanswered(s) BY <2>1 DEF Unanswered
    <2>3. inbox'[s] # <<>> /\ Head(inbox'[s]) = Head(inbox[s]) BY <1>1, <1>2, <1>5
    <2> QED BY <1>1, <1>5, <2>2, <2>3 DEF Listens, Awaited
  <1> QED BY <1>2, <1>3, <1>4, <1>5

\* A further message behind them changes nothing for those who listen.
LEMMA OthersListenOn ==
    ASSUME ChatInv, NEW t \in Turns, Send(t), NEW v \in Turns \ {t}, on[v] \in Turns,
           Listens(v, on[v])
    PROVE  Listens(v, on[v])'
  <1> DEFINE s == on[v]
  <1>1. heard'[v] = heard[v] /\ ahead'[v] = ahead[v] /\ answering'[s] = answering[s] /\ on'[v] = s
    BY Sending
  <1>2. CASE s # on[t]
    <2>1. inbox'[s] = inbox[s] BY <1>2, Sending
    <2> QED BY <1>1, <2>1 DEF Listens, Awaited
  <1>3. CASE s = on[t]
    <2>1. inbox'[s] = Append(inbox[s], t) BY <1>3, Sending
    <2>2. inbox[s] \in Seq(Turns) BY DEF ChatInv, TypeOK
    <2>3. inbox[s] # <<>> => inbox'[s] # <<>> /\ Head(inbox'[s]) = Head(inbox[s])
      BY <2>1, <2>2
    <2> QED BY <1>1, <2>3 DEF Listens, Awaited
  <1> QED BY <1>2, <1>3

LEMMA ListeningStep == ChatInv /\ [Next]_vars => Listening'
  <1> SUFFICES ASSUME ChatInv, [Next]_vars, NEW v \in Turns,
                      (rec[v] = "recording" /\ link[on[v]] = "up")'
               PROVE  Listens(v, on[v])'
    BY DEF Listening
  <1> DEFINE s == on[v]
  <1>1. CASE UNCHANGED <<rec, link, on, inbox, answering, heard, ahead>>
    BY <1>1 DEF ChatInv, Listening, Listens, Awaited
  <1>2. ASSUME NEW t \in Turns, Join(t) PROVE Listens(v, on[v])'
    <2>1. v # t BY <1>2 DEF Join, recVars, ChatInv, InOrder
    <2>2. on'[v] = on[v] BY <1>2, <2>1 DEF Join, Subscribe, ChatInv, TypeOK
    <2> QED
      BY <1>2, <2>2 DEF Join, recVars, sessVars, ChatInv, Listening, Listens, Awaited
  <1>3. ASSUME NEW t \in Turns, Open(t) PROVE Listens(v, on[v])'
    <2>1. v # t BY <1>3 DEF Open, recVars, ChatInv, InOrder
    <2>2. on'[v] = on[v] /\ on[v] # t
      BY <1>3, <2>1 DEF Open, Subscribe, ChatInv, TypeOK, OpenedOnce, Early
    <2>3. link'[on[v]] = link[on[v]]
      BY <1>3, <2>2 DEF Open, ChatInv, TypeOK
    <2> QED
      BY <1>3, <2>2, <2>3 DEF Open, recVars, ChatInv, Listening, Listens, Awaited
  <1>4. ASSUME NEW t \in Turns, Send(t) PROVE Listens(v, on[v])'
    <2>1. CASE v = t BY <1>4, <2>1, SenderListens
    <2>2. CASE v # t
      <3>1. rec[v] = "recording" /\ link[on[v]] = "up" BY <1>4, <2>2, Sending
      <3>2. on[v] \in Turns BY <3>1 DEF ChatInv, InOrder
      <3> QED BY <1>4, <2>2, <3>1, <3>2, OthersListenOn DEF ChatInv, Listening
    <2> QED BY <2>1, <2>2
  <1>5. ASSUME NEW t \in Turns, StoreReply(t) \/ RecorderStops(t) PROVE Listens(v, on[v])'
    <2>1. v # t BY <1>5 DEF StoreReply, RecorderStops, ChatInv, TypeOK
    <2>2. rec'[v] = rec[v] /\ heard'[v] = heard[v]
      BY <1>5, <2>1 DEF StoreReply, RecorderStops, ChatInv, TypeOK
    <2> QED
      BY <1>5, <2>2
      DEF StoreReply, RecorderStops, reqVars, sessVars, ChatInv, Listening, Listens, Awaited
  <1>6. ASSUME NEW r \in Turns, Answer(r) PROVE Listens(v, on[v])'
    <2>1. UNCHANGED <<rec, on, link, ahead>> BY <1>6 DEF Answer, reqVars
    <2>2. s \in Turns /\ Listens(v, s) BY <2>1 DEF ChatInv, InOrder, Listening
    <2>3. inbox[r] \in Seq(Turns) /\ inbox[r] # <<>> /\ answering[r] = None
      BY <1>6 DEF Answer, ChatInv, TypeOK
    <2>4. CASE s # r
      <3>1. heard'[v] = heard[v]
        BY <1>6, <2>4 DEF Answer, Hear, Recorders
      <3>2. inbox'[s] = inbox[s] /\ answering'[s] = answering[s]
        BY <1>6, <2>2, <2>4 DEF Answer, ChatInv, TypeOK
      <3> QED BY <2>1, <2>2, <3>1, <3>2 DEF Listens, Awaited
    <2>5. CASE s = r
      <3> DEFINE u == Head(inbox[r])
      <3>1. u \in Turns BY <2>3
      <3>2. u \in Awaited(v) /\ heard[v] = {} BY <2>2, <2>3, <2>5 DEF Listens
      <3>3. answering'[s] = u BY <1>6, <2>5 DEF Answer, ChatInv, TypeOK
      <3>4. heard'[v] = {<<u, 1>>}
        BY <1>6, <2>1, <2>5, <3>2 DEF Answer, Hear, Recorders
      <3>5. u # None BY <3>1, ChatAssumption DEF ChatAssumption
      <3> QED BY <2>1, <3>2, <3>3, <3>4, <3>5 DEF Listens, Awaited
    <2> QED BY <2>4, <2>5
  <1>7. ASSUME NEW r \in Turns, Finish(r) \/ Refuse(r) PROVE Listens(v, on[v])'
    <2>1. UNCHANGED <<on, link, ahead, inbox>> BY <1>7 DEF Finish, Refuse, reqVars
    <2>2. v \notin Recorders(r) /\ rec[v] = "recording"
      BY <1>7 DEF Finish, Refuse, EndTurns, Recorders, ChatInv, TypeOK
    <2>3. s \in Turns /\ s # r BY <2>2 DEF Recorders, ChatInv, InOrder
    <2>4. heard'[v] = heard[v] BY <1>7, <2>2 DEF Finish, Refuse, Hear, ChatInv, TypeOK
    <2>5. answering'[s] = answering[s] BY <1>7, <2>3 DEF Finish, Refuse, ChatInv, TypeOK
    <2>6. Listens(v, s) BY <2>1, <2>2 DEF ChatInv, Listening
    <2> QED BY <2>1, <2>4, <2>5, <2>6 DEF Listens, Awaited
  <1>8. ASSUME NEW r \in Turns, Cut(r) \/ WriterFails(r) \/ Release(r)
        PROVE  Listens(v, on[v])'
    <2>1. UNCHANGED <<on, rec, heard, ahead>>
      BY <1>8 DEF Cut, WriterFails, Release, reqVars, recVars
    <2>2. s \in Turns BY <2>1 DEF ChatInv, InOrder
    <2>3. s # r BY <1>8, <2>1 DEF Cut, WriterFails, Release, ChatInv, TypeOK
    <2>4. link'[s] = link[s] /\ inbox'[s] = inbox[s] /\ answering'[s] = answering[s]
      BY <1>8, <2>2, <2>3 DEF Cut, WriterFails, Release, ChatInv, TypeOK
    <2> QED BY <2>1, <2>4 DEF ChatInv, Listening, Listens, Awaited
  <1>9. ASSUME NEW t \in Turns,
               \/ Look(t) \/ LoadHistory(t) \/ GiveUp(t) \/ OpenFails(t) \/ SendFails(t)
               \/ StoreUserMessage(t) \/ StreamCloses(t)
        PROVE  UNCHANGED <<rec, link, on, inbox, answering, heard, ahead>>
    BY <1>9 DEF Look, Begin, LoadHistory, GiveUp, OpenFails, SendFails, StoreUserMessage,
                StreamCloses, reqVars, recVars, sessVars
  <1>10. CASE UNCHANGED vars BY <1>1, <1>10 DEF vars, reqVars, recVars, sessVars
  <1> QED
    BY <1>1, <1>2, <1>3, <1>4, <1>5, <1>6, <1>7, <1>8, <1>9, <1>10 DEF Next, Handle

\* The answer that ends completes the reply that its listeners have heard.
LEMMA EndIsHeard ==
    ASSUME ChatInv, NEW s \in Turns, Finish(s), NEW t \in Turns, t \in Recorders(s)
    PROVE  /\ ahead[t] = {} => heard'[t] = Reply(t)
           /\ ahead[t] # {} => \E u \in ahead[t] :
                  heard'[t] \subseteq Reply(u) /\ <<u, 2>> \in heard'[t]
  <1> DEFINE u == answering[s]
  <1>1. heard'[t] = heard[t] \cup {<<u, 2>>} BY DEF Finish, Hear
  <1>2. Listens(t, s) /\ u # None
    BY DEF Finish, Recorders, ChatInv, Listening
  <1>3. /\ u \in Awaited(t) /\ heard[t] \subseteq {<<u, 1>>}
        /\ ahead[t] = {} => heard[t] = {<<t, 1>>}
    BY <1>2 DEF Listens
  <1>4. CASE ahead[t] = {}
    <2>1. u = t BY <1>3, <1>4 DEF Awaited
    <2> QED BY <1>1, <1>3, <1>4, <2>1 DEF Reply
  <1>5. CASE ahead[t] # {}
    <2>1. u \in ahead[t] BY <1>3, <1>5 DEF Awaited
    <2> QED BY <1>1, <1>3, <1>5, <2>1 DEF Reply
  <1> QED BY <1>4, <1>5

LEMMA StoredReplyStep == ChatInv /\ [Next]_vars => StoredReplyIsOneReply'
  <1> SUFFICES ASSUME ChatInv, [Next]_vars, NEW v \in Turns, rec'[v] \in {"writing", "stored"}
               PROVE  /\ ahead'[v] = {} => heard'[v] = Reply(v)
                      /\ ahead'[v] # {} => \E u \in ahead'[v] :
                             heard'[v] \subseteq Reply(u) /\ <<u, 2>> \in heard'[v]
    BY DEF StoredReplyIsOneReply
  <1> DEFINE Whole == /\ ahead'[v] = {} => heard'[v] = Reply(v)
                      /\ ahead'[v] # {} => \E u \in ahead'[v] :
                             heard'[v] \subseteq Reply(u) /\ <<u, 2>> \in heard'[v]
  <1>1. CASE rec[v] \in {"writing", "stored"} /\ heard'[v] = heard[v] /\ ahead'[v] = ahead[v]
    BY <1>1 DEF ChatInv, StoredReplyIsOneReply
  <1>2. ASSUME NEW t \in Turns, Send(t) PROVE Whole
    <2>1. v # t BY <1>2, Sending
    <2> QED BY <1>1, <1>2, <2>1, Sending
  <1>3. ASSUME NEW t \in Turns, StoreReply(t) PROVE Whole
    <2>1. rec[v] \in {"writing", "stored"} BY <1>3 DEF StoreReply, ChatInv, TypeOK
    <2> QED BY <1>1, <1>3, <2>1 DEF StoreReply, reqVars
  <1>4. ASSUME NEW t \in Turns, RecorderStops(t) PROVE Whole
    <2>1. v # t BY <1>4 DEF RecorderStops, ChatInv, TypeOK
    <2>2. rec'[v] = rec[v] /\ heard'[v] = heard[v]
      BY <1>4, <2>1 DEF RecorderStops, ChatInv, TypeOK
    <2> QED BY <1>1, <1>4, <2>2 DEF RecorderStops, reqVars
  <1>5. ASSUME NEW s \in Turns, Answer(s) PROVE Whole
    <2>1. rec' = rec /\ ahead' = ahead BY <1>5 DEF Answer, reqVars
    <2>2. heard'[v] = heard[v] BY <1>5, <2>1 DEF Answer, Hear, Recorders
    <2> QED BY <1>1, <2>1, <2>2
  <1>6. ASSUME NEW s \in Turns, Finish(s) PROVE Whole
    <2>1. ahead' = ahead BY <1>6 DEF Finish, reqVars
    <2>2. CASE v \in Recorders(s) BY <1>6, <2>1, <2>2, EndIsHeard
    <2>3. CASE v \notin Recorders(s)
      <3>1. rec'[v] = rec[v] /\ heard'[v] = heard[v]
        BY <1>6, <2>3 DEF Finish, EndTurns, Hear
      <3> QED BY <1>1, <2>1, <3>1
    <2> QED BY <2>2, <2>3
  <1>7. ASSUME NEW s \in Turns, Refuse(s) PROVE Whole
    <2>1. rec'[v] = rec[v] BY <1>7 DEF Refuse, EndTurns
    <2> QED BY <1>1, <1>7, <2>1 DEF Refuse, reqVars
  <1>8. ASSUME NEW t \in Turns,
               \/ Look(t) \/ LoadHistory(t) \/ Join(t) \/ GiveUp(t) \/ Open(t) \/ OpenFails(t)
               \/ SendFails(t) \/ StoreUserMessage(t) \/ StreamCloses(t)
        PROVE  UNCHANGED <<rec, heard, ahead>>
    BY <1>8 DEF Look, Begin, LoadHistory, Join, GiveUp, Open, OpenFails, SendFails,
                StoreUserMessage, StreamCloses, reqVars, recVars
  <1>9. ASSUME NEW s \in Turns, Cut(s) \/ WriterFails(s) \/ Release(s)
        PROVE  UNCHANGED <<rec, heard, ahead>>
    BY <1>9 DEF Cut, WriterFails, Release, reqVars, recVars
  <1>10. CASE UNCHANGED vars BY <1>1, <1>10 DEF vars, reqVars, recVars
  <1> QED
    BY <1>1, <1>2, <1>3, <1>4, <1>5, <1>6, <1>7, <1>8, <1>9, <1>10 DEF Next, Handle

------------------------------------------------------------------------------
(* Remembering.                                                              *)

\* What is stored stays stored.
LEMMA StoredGrows == ChatInv /\ [Next]_vars => Stored \subseteq Stored'
  <1> SUFFICES ASSUME ChatInv, [Next]_vars PROVE Stored \subseteq Stored' OBVIOUS
  <1>1. ASSUME NEW u \in Turns, saving[u] = "stored" PROVE saving'[u] = "stored"
    <2> USE <1>1 DEF ChatInv, TypeOK, InOrder
    <2>1. CASE saving' = saving BY <2>1
    <2>2. ASSUME NEW t \in Turns, Look(t) PROVE saving'[u] = "stored"
      BY <2>2 DEF Look, Begin
    <2>3. ASSUME NEW t \in Turns, Send(t) \/ SendFails(t) PROVE saving'[u] = "stored"
      BY <2>3 DEF Send, SendFails, SaveUserMessage
    <2>4. ASSUME NEW t \in Turns, StoreUserMessage(t) PROVE saving'[u] = "stored"
      BY <2>4 DEF StoreUserMessage
    <2>5. ASSUME NEW t \in Turns,
                 \/ LoadHistory(t) \/ Join(t) \/ GiveUp(t) \/ Open(t) \/ OpenFails(t)
                 \/ StoreReply(t) \/ StreamCloses(t) \/ RecorderStops(t)
          PROVE  saving' = saving
      BY <2>5 DEF LoadHistory, Join, GiveUp, Open, OpenFails, StoreReply, StreamCloses,
                  RecorderStops, recVars
    <2>6. ASSUME NEW s \in Turns,
                 \/ Answer(s) \/ Finish(s) \/ Refuse(s) \/ Cut(s) \/ WriterFails(s) \/ Release(s)
          PROVE  saving' = saving
      BY <2>6 DEF Answer, Finish, Refuse, Cut, WriterFails, Release, recVars
    <2>7. CASE UNCHANGED vars BY <2>1, <2>7 DEF vars, recVars
    <2> QED BY <2>1, <2>2, <2>3, <2>4, <2>5, <2>6, <2>7 DEF Next, Handle
  <1>2. ASSUME NEW u \in Turns, rec[u] = "stored"
        PROVE  rec'[u] = "stored" /\ heard'[u] = heard[u]
    <2> USE <1>2 DEF ChatInv, TypeOK
    <2>1. CASE UNCHANGED <<rec, heard>> BY <2>1
    <2>2. ASSUME NEW t \in Turns, Send(t) PROVE rec'[u] = "stored" /\ heard'[u] = heard[u]
      BY <2>2, Sending
    <2>3. ASSUME NEW t \in Turns, StoreReply(t)
          PROVE  rec'[u] = "stored" /\ heard'[u] = heard[u]
      BY <2>3 DEF StoreReply
    <2>4. ASSUME NEW t \in Turns, RecorderStops(t)
          PROVE  rec'[u] = "stored" /\ heard'[u] = heard[u]
      BY <2>4 DEF RecorderStops
    <2>5. ASSUME NEW s \in Turns, Answer(s) \/ Finish(s) \/ Refuse(s)
          PROVE  rec'[u] = "stored" /\ heard'[u] = heard[u]
      BY <2>5 DEF Answer, Finish, Refuse, Hear, EndTurns, Recorders
    <2>6. ASSUME NEW t \in Turns,
                 \/ Look(t) \/ LoadHistory(t) \/ Join(t) \/ GiveUp(t) \/ Open(t) \/ OpenFails(t)
                 \/ SendFails(t) \/ StoreUserMessage(t) \/ StreamCloses(t)
          PROVE  UNCHANGED <<rec, heard>>
      BY <2>6 DEF Look, Begin, LoadHistory, Join, GiveUp, Open, OpenFails, SendFails,
                  StoreUserMessage, StreamCloses, recVars
    <2>7. ASSUME NEW s \in Turns, Cut(s) \/ WriterFails(s) \/ Release(s)
          PROVE  UNCHANGED <<rec, heard>>
      BY <2>7 DEF Cut, WriterFails, Release, recVars
    <2>8. CASE UNCHANGED vars BY <2>1, <2>8 DEF vars, recVars
    <2> QED BY <2>1, <2>2, <2>3, <2>4, <2>5, <2>6, <2>7, <2>8 DEF Next, Handle
  <1>3. ASSUME NEW i \in Stored PROVE i \in Stored'
    <2>1. CASE \E u \in Turns : saving[u] = "stored" /\ i = <<u, 0>>
      BY <2>1, <1>1 DEF Stored
    <2>2. CASE \E u \in Turns : rec[u] = "stored" /\ i \in heard[u]
      <3>1. PICK u \in Turns : rec[u] = "stored" /\ i \in heard[u] BY <2>2
      <3>2. rec'[u] = "stored" /\ i \in heard'[u] BY <3>1, <1>2
      <3> QED BY <3>2 DEF Stored
    <2> QED BY <1>3, <2>1, <2>2 DEF Stored
  <1> QED BY <1>3

LEMMA RememberedStep == ChatInv /\ [Next]_vars => Remembered'
  <1> SUFFICES ASSUME ChatInv, [Next]_vars, NEW v \in Turns, found'[v] = "none"
               PROVE  /\ pc'[v] = "loading" => before'[v] \subseteq Stored'
                      /\ pc'[v] \in {"looked", "opening"} => before'[v] \subseteq hist'[v]
    BY DEF Remembered
  <1> DEFINE Kept == /\ pc'[v] = "loading" => before'[v] \subseteq Stored'
                     /\ pc'[v] \in {"looked", "opening"} => before'[v] \subseteq hist'[v]
  <1>0. Stored \subseteq Stored' BY StoredGrows
  <1>1. CASE /\ found'[v] = found[v] /\ before'[v] = before[v]
             /\ \/ pc'[v] \notin Early
                \/ pc'[v] = pc[v] /\ hist'[v] = hist[v]
                \/ pc[v] = "looked" /\ pc'[v] = "opening" /\ hist'[v] = hist[v]
    BY <1>0, <1>1 DEF ChatInv, Remembered, Early
  <1>2. ASSUME NEW t \in Turns, Look(t) PROVE Kept
    <2>1. CASE v = t
      <3>1. ~Live(reg) /\ before'[v] = Stored
        BY <1>2, <2>1 DEF Look, Begin, ChatInv, TypeOK
      <3>2. pc'[v] = "loading"
        BY <1>2, <2>1, <3>1 DEF Look, Begin, ChatInv, TypeOK
      <3> QED BY <1>0, <3>1, <3>2
    <2>2. CASE v # t
      BY <1>1, <1>2, <2>2 DEF Look, Begin, ChatInv, TypeOK
    <2> QED BY <2>1, <2>2
  <1>3. ASSUME NEW t \in Turns, LoadHistory(t) PROVE Kept
    <2>1. CASE v = t
      <3>1. PICK h \in SUBSET Stored :
              /\ hist' = [hist EXCEPT ![t] = h]
              /\ found' = [found EXCEPT ![t] = IF h = Stored THEN @ ELSE "unreadable"]
              /\ \/ pc' = [pc EXCEPT ![t] = "looked"]
                 \/ h = {} /\ pc' = [pc EXCEPT ![t] = "failed"]
        BY <1>3 DEF LoadHistory
      <3>2. h = Stored /\ found[t] = "none" BY <2>1, <3>1 DEF ChatInv, TypeOK
      <3>3. before[t] \subseteq Stored
        BY <1>3, <3>2 DEF LoadHistory, ChatInv, Remembered
      <3>4. hist'[v] = h /\ pc'[v] \in {"looked", "failed"}
        BY <2>1, <3>1 DEF ChatInv, TypeOK
      <3> QED BY <1>3, <2>1, <3>2, <3>3, <3>4 DEF LoadHistory
    <2>2. CASE v # t
      BY <1>1, <1>3, <2>2 DEF LoadHistory, ChatInv, TypeOK
    <2> QED BY <2>1, <2>2
  <1>4. ASSUME NEW t \in Turns, GiveUp(t) PROVE Kept
    BY <1>1, <1>4 DEF GiveUp, ChatInv, TypeOK
  <1>5. ASSUME NEW t \in Turns, Join(t) \/ Open(t) PROVE Kept
    BY <1>1, <1>5 DEF Join, Open, Subscribe, ChatInv, TypeOK, Early
  <1>6. ASSUME NEW t \in Turns, OpenFails(t) \/ Send(t) \/ SendFails(t) PROVE Kept
    BY <1>1, <1>6 DEF OpenFails, Send, SendFails, ChatInv, TypeOK, Early
  <1>7. ASSUME NEW t \in Turns,
               StoreUserMessage(t) \/ StoreReply(t) \/ StreamCloses(t) \/ RecorderStops(t)
        PROVE  UNCHANGED <<pc, found, before, hist>>
    BY <1>7 DEF StoreUserMessage, StoreReply, StreamCloses, RecorderStops, reqVars
  <1>8. ASSUME NEW s \in Turns,
               \/ Answer(s) \/ Finish(s) \/ Refuse(s) \/ Cut(s) \/ WriterFails(s) \/ Release(s)
        PROVE  UNCHANGED <<pc, found, before, hist>>
    BY <1>8 DEF Answer, Finish, Refuse, Cut, WriterFails, Release, reqVars
  <1>9. CASE UNCHANGED vars BY <1>1, <1>9 DEF vars, reqVars
  <1> QED
    BY <1>1, <1>2, <1>3, <1>4, <1>5, <1>6, <1>7, <1>8, <1>9 DEF Next, Handle

LEMMA ReopenedStep == ChatInv /\ [Next]_vars => ReopenedSessionKnowsTheChat'
  <1> SUFFICES ASSUME ChatInv, [Next]_vars, NEW v \in Turns, link'[v] # "none", found'[v] = "none"
               PROVE  before'[v] \subseteq knows'[v]
    BY DEF ReopenedSessionKnowsTheChat
  <1> USE DEF ChatInv, TypeOK, ReopenedSessionKnowsTheChat
  <1>1. ASSUME NEW t \in Turns, Look(t) \/ LoadHistory(t) PROVE before'[v] \subseteq knows'[v]
    <2>1. link' = link /\ knows' = knows BY <1>1 DEF Look, Begin, LoadHistory, sessVars
    <2>2. v # t BY <1>1, <2>1 DEF Look, Begin, LoadHistory, OpenedOnce, Early
    <2>3. found'[v] = found[v] /\ before'[v] = before[v]
      BY <1>1, <2>2 DEF Look, Begin, LoadHistory
    <2> QED BY <2>1, <2>3
  <1>2. ASSUME NEW t \in Turns, Open(t) PROVE before'[v] \subseteq knows'[v]
    BY <1>2 DEF Open, Remembered
  <1>3. ASSUME NEW t \in Turns,
               \/ Join(t) \/ GiveUp(t) \/ OpenFails(t) \/ Send(t) \/ SendFails(t)
               \/ StoreUserMessage(t) \/ StoreReply(t) \/ StreamCloses(t) \/ RecorderStops(t)
        PROVE  UNCHANGED <<link, found, before, knows>>
    BY <1>3 DEF Join, GiveUp, OpenFails, Send, SendFails, StoreUserMessage, StoreReply,
                StreamCloses, RecorderStops, reqVars, sessVars
  <1>4. ASSUME NEW s \in Turns, Answer(s) PROVE before'[v] \subseteq knows'[v]
    <2>1. UNCHANGED <<found, before, link>> BY <1>4 DEF Answer, reqVars
    <2>2. knows[v] \subseteq knows'[v] BY <1>4 DEF Answer
    <2> QED BY <2>1, <2>2
  <1>5. ASSUME NEW s \in Turns, Finish(s) PROVE before'[v] \subseteq knows'[v]
    <2>1. UNCHANGED <<found, before, link>> BY <1>5 DEF Finish, reqVars
    <2>2. knows[v] \subseteq knows'[v] BY <1>5 DEF Finish
    <2> QED BY <2>1, <2>2
  <1>6. ASSUME NEW s \in Turns, Refuse(s) \/ Cut(s) PROVE before'[v] \subseteq knows'[v]
    BY <1>6 DEF Refuse, Cut, reqVars
  <1>7. ASSUME NEW s \in Turns, WriterFails(s) \/ Release(s)
        PROVE before'[v] \subseteq knows'[v]
    <2>1. UNCHANGED <<knows, found, before>> BY <1>7 DEF WriterFails, Release, reqVars
    <2>2. link[v] # "none" BY <1>7 DEF WriterFails, Release, Live
    <2> QED BY <2>1, <2>2
  <1>8. CASE UNCHANGED vars BY <1>8 DEF vars, reqVars, sessVars
  <1> QED BY <1>1, <1>2, <1>3, <1>4, <1>5, <1>6, <1>7, <1>8 DEF Next, Handle

------------------------------------------------------------------------------
LEMMA StoredTyped == TypeOK => Stored \subseteq Items
  BY DEF TypeOK, Stored, Items

LEMMA TypeStep == ChatInv /\ [Next]_vars => TypeOK'
  <1> SUFFICES ASSUME ChatInv, [Next]_vars PROVE TypeOK' OBVIOUS
  <1> USE DEF ChatInv, TypeOK
  <1>1. ASSUME NEW t \in Turns, Look(t) PROVE TypeOK'
    <2>1. saving' \in [Turns -> {"off", "ready", "pending", "stored"}]
      BY <1>1 DEF Look, Begin
    <2>2. before' \in [Turns -> SUBSET Items] BY <1>1, StoredTyped DEF Look, Begin
    <2> QED BY <1>1, <2>1, <2>2 DEF Look, Begin, sessVars
  <1>2. ASSUME NEW t \in Turns, LoadHistory(t) PROVE TypeOK'
    <2>1. hist' \in [Turns -> SUBSET Items] BY <1>2, StoredTyped DEF LoadHistory
    <2>2. found' \in [Turns -> {"unknown", "live", "none", "unreadable"}]
      BY <1>2 DEF LoadHistory
    <2>3. \/ pc' = [pc EXCEPT ![t] = "looked"]
          \/ pc' = [pc EXCEPT ![t] = "failed"]
      BY <1>2 DEF LoadHistory
    <2> QED BY <1>2, <2>1, <2>2, <2>3 DEF LoadHistory, recVars, sessVars
  <1>3. ASSUME NEW t \in Turns, Join(t) PROVE TypeOK'
    BY <1>3 DEF Join, Subscribe, Live, recVars, sessVars
  <1>4. ASSUME NEW t \in Turns, GiveUp(t) PROVE TypeOK'
    BY <1>4 DEF GiveUp, recVars, sessVars
  <1>5. ASSUME NEW t \in Turns, Open(t) PROVE TypeOK'
    BY <1>5 DEF Open, Subscribe, recVars
  <1>6. ASSUME NEW t \in Turns, OpenFails(t) PROVE TypeOK'
    BY <1>6 DEF OpenFails, recVars, sessVars
  <1>7. ASSUME NEW t \in Turns, Send(t) PROVE TypeOK'
    <2>1. saving' \in [Turns -> {"off", "ready", "pending", "stored"}]
      BY <1>7 DEF Send, SaveUserMessage
    <2>2. on[t] \in Turns /\ inbox[on[t]] \in Seq(Turns) BY <1>7, Sending
    <2>3. inbox' = [inbox EXCEPT ![on[t]] = Append(inbox[on[t]], t)] BY <1>7 DEF Send
    <2>4. inbox' \in [Turns -> Seq(Turns)] BY <2>2, <2>3
    <2>5. Unanswered(on[t]) \subseteq Turns BY <2>2 DEF Unanswered
    <2>6. ahead' \in [Turns -> SUBSET Turns] BY <1>7, <2>5 DEF Send
    <2>7. rec' \in [Turns -> {"none", "recording", "writing", "stored", "lost"}]
      BY <1>7, Sending
    <2> QED BY <1>7, <2>1, <2>4, <2>6, <2>7 DEF Send
  <1>8. ASSUME NEW t \in Turns, SendFails(t) PROVE TypeOK'
    <2>1. saving' \in [Turns -> {"off", "ready", "pending", "stored"}]
      BY <1>8 DEF SendFails, SaveUserMessage
    <2> QED BY <1>8, <2>1 DEF SendFails, sessVars
  <1>9. ASSUME NEW t \in Turns, StoreUserMessage(t) \/ StoreReply(t) PROVE TypeOK'
    <2>1. CASE StoreUserMessage(t) BY <2>1 DEF StoreUserMessage, reqVars, sessVars
    <2>2. CASE StoreReply(t) BY <2>2 DEF StoreReply, reqVars, sessVars
    <2> QED BY <1>9, <2>1, <2>2
  <1>10. ASSUME NEW t \in Turns, StreamCloses(t) \/ RecorderStops(t) PROVE TypeOK'
    <2>1. CASE StreamCloses(t) BY <2>1 DEF StreamCloses, reqVars, recVars, sessVars
    <2>2. CASE RecorderStops(t) BY <2>2 DEF RecorderStops, reqVars, recVars, sessVars
    <2> QED BY <1>10, <2>1, <2>2
  <1>11. ASSUME NEW s \in Turns, Answer(s) PROVE TypeOK'
    <2>1. inbox[s] \in Seq(Turns) /\ inbox[s] # <<>> BY <1>11 DEF Answer
    <2>2. Head(inbox[s]) \in Turns /\ Tail(inbox[s]) \in Seq(Turns) BY <2>1
    <2>3. <<Head(inbox[s]), 0>> \in Items /\ <<Head(inbox[s]), 1>> \in Items
      BY <2>2 DEF Items
    <2>4. heard' \in [Turns -> SUBSET Items] BY <1>11, <2>3 DEF Answer, Hear
    <2>5. knows' \in [Turns -> SUBSET Items] BY <1>11, <2>3 DEF Answer
    <2>6. inbox' \in [Turns -> Seq(Turns)] BY <1>11, <2>2 DEF Answer
    <2>7. answering' \in [Turns -> Turns \cup {None}] BY <1>11, <2>2 DEF Answer
    <2> QED BY <1>11, <2>4, <2>5, <2>6, <2>7 DEF Answer, reqVars
  <1>12. ASSUME NEW s \in Turns, Finish(s) PROVE TypeOK'
    <2>1. answering[s] \in Turns BY <1>12 DEF Finish
    <2>2. Reply(answering[s]) \subseteq Items BY <2>1 DEF Items, Reply
    <2>3. knows' \in [Turns -> SUBSET Items] BY <1>12, <2>2 DEF Finish
    <2>4. heard' \in [Turns -> SUBSET Items] BY <1>12, <2>2 DEF Finish, Hear, Reply
    <2> QED BY <1>12, <2>3, <2>4 DEF Finish, EndTurns, reqVars
  <1>13. ASSUME NEW s \in Turns, Refuse(s) PROVE TypeOK'
    BY <1>13 DEF Refuse, EndTurns, reqVars
  <1>14. ASSUME NEW s \in Turns, Cut(s) PROVE TypeOK'
    <2>1. cuts' \in 0 .. MaxCuts BY <1>14, ChatAssumption DEF Cut, ChatAssumption
    <2> QED BY <1>14, <2>1 DEF Cut, reqVars, recVars
  <1>15. ASSUME NEW s \in Turns, WriterFails(s) \/ Release(s) PROVE TypeOK'
    <2>1. CASE WriterFails(s) BY <2>1 DEF WriterFails, reqVars, recVars
    <2>2. CASE Release(s) BY <2>2 DEF Release, reqVars, recVars
    <2> QED BY <1>15, <2>1, <2>2
  <1>16. CASE UNCHANGED vars BY <1>16 DEF vars, reqVars, recVars, sessVars
  <1> QED
    BY <1>1, <1>2, <1>3, <1>4, <1>5, <1>6, <1>7, <1>8, <1>9, <1>10, <1>11, <1>12, <1>13,
       <1>14, <1>15, <1>16
    DEF Next, Handle

LEMMA ChatInit == Init => ChatInv
  <1> SUFFICES ASSUME Init PROVE ChatInv OBVIOUS
  <1> USE DEF Init
  <1>1. TypeOK BY ChatAssumption DEF TypeOK, ChatAssumption
  <1>2. OpenedOnce BY ChatAssumption DEF OpenedOnce, ChatAssumption
  <1>3. InOrder BY DEF InOrder
  <1>4. Listening /\ StoredReplyIsOneReply BY DEF Listening, StoredReplyIsOneReply
  <1>5. Remembered /\ ReopenedSessionKnowsTheChat
    BY DEF Remembered, ReopenedSessionKnowsTheChat
  <1> QED BY <1>1, <1>2, <1>3, <1>4, <1>5 DEF ChatInv

\* The inductive invariant: who records a turn has heard what the turn in front has
\* been answered so far, and what is stored reaches the session that is reopened.
THEOREM ChatInvHolds == Spec => []ChatInv
  <1>1. ChatInv /\ [Next]_vars => ChatInv'
    BY TypeStep, OpenedOnceStep, InOrderStep, ListeningStep, StoredReplyStep,
       RememberedStep, ReopenedStep DEF ChatInv
  <1> QED BY ChatInit, <1>1, PTL DEF Spec

\* The variables hold values of their types.
THEOREM ChatTypes == Spec => []TypeOK
  <1>1. ChatInv => TypeOK BY DEF ChatInv
  <1> QED BY <1>1, ChatInvHolds, PTL

\* However many requests share the session, a turn sent while it was idle stores exactly
\* its own reply, and one sent while others waited stores the end of one of theirs and
\* nothing of a second (chat.rs, spawn_chat_persist_task: every recorder reads the
\* session's one broadcast).
THEOREM RepliesAreNotMixed == Spec => []StoredReplyIsOneReply
  <1>1. ChatInv => StoredReplyIsOneReply BY DEF ChatInv
  <1> QED BY <1>1, ChatInvHolds, PTL

\* A session opened for a request that found none alive knows all that was stored when the
\* request came, whatever races with the loading and the opening (chat.rs,
\* has_live_session and the loading of the history before get_or_create_chat_session).
THEOREM ReopenedSessionsRemember == Spec => []ReopenedSessionKnowsTheChat
  <1>1. ChatInv => ReopenedSessionKnowsTheChat BY DEF ChatInv
  <1> QED BY <1>1, ChatInvHolds, PTL
------------------------------------------------------------------------------
(* Streaming: what StreamsEnd says about the end of streams rests on this.    *)

\* A client that listens is owed an answer: its message waits in its session or is
\* being answered, unless the connection is gone.
OpenStreamsAreOwed ==
    \A t \in Turns : pc[t] = "streaming" /\ sse[t] = "open" /\ link[on[t]] = "up" =>
        t \in Unanswered(on[t])

\* A harness that begins to answer owes what it owed.
LEMMA AnswerOwesTheSame ==
    ASSUME ChatInv, NEW r \in Turns, Answer(r)
    PROVE  \A s \in Turns : Unanswered(s)' = Unanswered(s)
  <1> DEFINE q == inbox[r]
  <1>1. q \in Seq(Turns) /\ q # <<>> /\ answering[r] = None
    BY DEF Answer, ChatInv, TypeOK
  <1>2. /\ answering' = [answering EXCEPT ![r] = Head(q)]
        /\ inbox' = [inbox EXCEPT ![r] = Tail(q)]
    BY DEF Answer
  <1>3. {q[i] : i \in DOMAIN q} = {Head(q)} \cup {Tail(q)[i] : i \in DOMAIN Tail(q)}
    <2>1. /\ Head(q) = q[1] /\ 1 \in DOMAIN q /\ Len(q) \in Nat
          /\ DOMAIN q = 1 .. Len(q) /\ DOMAIN Tail(q) = 1 .. (Len(q) - 1)
          /\ \A i \in DOMAIN Tail(q) : i + 1 \in DOMAIN q /\ Tail(q)[i] = q[i + 1]
      BY <1>1
    <2>2. \A i \in DOMAIN q : i = 1 \/ (i - 1 \in DOMAIN Tail(q) /\ q[i] = Tail(q)[i - 1])
      BY <2>1
    <2> HIDE DEF q
    <2>3. {q[i] : i \in DOMAIN q} \subseteq {Head(q)} \cup {Tail(q)[i] : i \in DOMAIN Tail(q)}
      <3> SUFFICES ASSUME NEW i \in DOMAIN q
                   PROVE  q[i] \in {Head(q)} \cup {Tail(q)[j] : j \in DOMAIN Tail(q)}
        OBVIOUS
      <3>1. CASE i = 1 BY <2>1, <3>1
      <3>2. CASE i - 1 \in DOMAIN Tail(q) /\ q[i] = Tail(q)[i - 1] BY <3>2
      <3> QED BY <2>2, <3>1, <3>2
    <2>4. {Tail(q)[i] : i \in DOMAIN Tail(q)} \subseteq {q[i] : i \in DOMAIN q}
      BY <2>1
    <2>5. Head(q) \in {q[i] : i \in DOMAIN q} BY <2>1
    <2> QED BY <2>3, <2>4, <2>5
  <1>4. Head(q) \in Turns /\ Head(q) # None
    BY <1>1, ChatAssumption DEF ChatAssumption
  <1>5. Unanswered(r)' = Unanswered(r)
    <2>1. answering'[r] = Head(q) /\ inbox'[r] = Tail(q)
      BY <1>2 DEF ChatInv, TypeOK
    <2> QED BY <1>1, <1>3, <1>4, <2>1 DEF Unanswered
  <1>6. ASSUME NEW s \in Turns, s # r PROVE Unanswered(s)' = Unanswered(s)
    <2>1. answering'[s] = answering[s] /\ inbox'[s] = inbox[s]
      BY <1>2, <1>6 DEF ChatInv, TypeOK
    <2> QED BY <2>1 DEF Unanswered
  <1> QED BY <1>5, <1>6

LEMMA OwedStep == ChatInv /\ OpenStreamsAreOwed /\ [Next]_vars => OpenStreamsAreOwed'
  <1> SUFFICES ASSUME ChatInv, OpenStreamsAreOwed, [Next]_vars, NEW v \in Turns,
                      (pc[v] = "streaming" /\ sse[v] = "open" /\ link[on[v]] = "up")'
               PROVE  v \in Unanswered(on[v])'
    BY DEF OpenStreamsAreOwed
  <1> DEFINE s == on[v]
  <1>1. CASE UNCHANGED <<on, link, inbox, answering>> /\ pc[v] = "streaming" /\ sse[v] = "open"
    BY <1>1 DEF OpenStreamsAreOwed, Unanswered
  <1>2. ASSUME NEW t \in Turns, Join(t) PROVE v \in Unanswered(on[v])'
    <2>1. v # t BY <1>2 DEF Join, Subscribe, ChatInv, TypeOK
    <2>2. pc'[v] = pc[v] /\ sse'[v] = sse[v] /\ on'[v] = on[v]
      BY <1>2, <2>1 DEF Join, Subscribe, ChatInv, TypeOK
    <2> QED BY <1>2, <2>2 DEF Join, sessVars, OpenStreamsAreOwed, Unanswered
  <1>3. ASSUME NEW t \in Turns, Open(t) PROVE v \in Unanswered(on[v])'
    <2>1. v # t BY <1>3 DEF Open, Subscribe, ChatInv, TypeOK
    <2>2. pc'[v] = pc[v] /\ sse'[v] = sse[v] /\ on'[v] = on[v]
      BY <1>3, <2>1 DEF Open, Subscribe, ChatInv, TypeOK
    <2>3. on[v] \in Turns /\ on[v] # t
      BY <1>3, <2>2 DEF Open, ChatInv, InOrder, OpenedOnce, Early
    <2>4. link'[on[v]] = link[on[v]]
      BY <1>3, <2>3 DEF Open, ChatInv, TypeOK
    <2> QED BY <1>3, <2>2, <2>4 DEF Open, OpenStreamsAreOwed, Unanswered
  <1>4. ASSUME NEW t \in Turns, Send(t) PROVE v \in Unanswered(on[v])'
    <2>1. /\ on' = on /\ link' = link /\ sse' = sse /\ answering' = answering
          /\ pc' = [pc EXCEPT ![t] = "streaming"]
          /\ inbox' = [inbox EXCEPT ![on[t]] = Append(inbox[on[t]], t)]
          /\ pc[t] = "joined"
      BY <1>4 DEF Send
    <2>2. on[t] \in Turns /\ inbox[on[t]] \in Seq(Turns)
      BY <2>1 DEF ChatInv, InOrder, TypeOK
    <2> DEFINE q == inbox[on[t]]
    <2>3. inbox'[on[t]] = Append(q, t)
      BY <2>1, <2>2 DEF ChatInv, TypeOK
    <2>4. /\ DOMAIN Append(q, t) = 1 .. Len(q) + 1 /\ Len(q) \in Nat /\ DOMAIN q = 1 .. Len(q)
          /\ Append(q, t)[Len(q) + 1] = t
          /\ \A i \in DOMAIN q : Append(q, t)[i] = q[i]
      BY <2>2
    <2> HIDE DEF q
    <2>5. CASE v = t
      <3>1. Len(q) + 1 \in DOMAIN Append(q, t)
        BY <2>4
      <3> QED BY <2>1, <2>3, <2>4, <2>5, <3>1 DEF Unanswered
    <2>6. CASE v # t
      <3>1. pc[v] = "streaming" /\ v \in Unanswered(on[v])
        BY <2>1, <2>6 DEF OpenStreamsAreOwed, ChatInv, TypeOK
      <3>2. CASE on[v] = on[t]
        <4>1. {q[i] : i \in DOMAIN q} \subseteq {Append(q, t)[i] : i \in DOMAIN Append(q, t)}
          BY <2>4
        <4> QED BY <2>1, <2>3, <3>1, <3>2, <4>1 DEF Unanswered, q
      <3>3. CASE on[v] # on[t]
        <4>1. inbox'[on[v]] = inbox[on[v]]
          BY <2>1, <2>2, <3>1, <3>3 DEF ChatInv, TypeOK, InOrder
        <4> QED BY <2>1, <3>1, <4>1 DEF Unanswered
      <3> QED BY <3>2, <3>3
    <2> QED BY <2>5, <2>6
  <1>5. ASSUME NEW r \in Turns, Answer(r) PROVE v \in Unanswered(on[v])'
    <2>1. UNCHANGED <<pc, sse, on, link>> BY <1>5 DEF Answer, reqVars
    <2>2. s \in Turns /\ v \in Unanswered(s)
      BY <2>1 DEF OpenStreamsAreOwed, ChatInv, InOrder
    <2> PICK w \in Turns : w = on[v] BY <2>2
    <2>3. Unanswered(w)' = Unanswered(w) BY <1>5, AnswerOwesTheSame
    <2>4. v \in Unanswered(w)' BY <2>2, <2>3
    <2> QED BY <2>1, <2>4 DEF Unanswered
  <1>6. ASSUME NEW r \in Turns, Finish(r) \/ Refuse(r) PROVE v \in Unanswered(on[v])'
    <2>1. UNCHANGED <<pc, on, link, inbox>> BY <1>6 DEF Finish, Refuse, reqVars
    <2>2. sse[v] = "open" /\ on[v] # r
      <3>1. sse' = [t \in Turns |-> IF on[t] = r /\ sse[t] = "open" THEN "ended"
                                                                    ELSE sse[t]]
        <4>1. CASE Finish(r) BY <4>1 DEF Finish, EndTurns
        <4>2. CASE Refuse(r) BY <4>2 DEF Refuse, EndTurns
        <4> QED BY <1>6, <4>1, <4>2
      <3>2. sse'[v] = IF on[v] = r /\ sse[v] = "open" THEN "ended" ELSE sse[v]
        BY <3>1
      <3>3. sse'[v] = "open" OBVIOUS
      <3> QED BY <3>2, <3>3
    <2>3. answering'[s] = answering[s]
      <3>1. answering' = [answering EXCEPT ![r] = None] BY <1>6 DEF Finish, Refuse
      <3>2. s \in Turns BY <2>1 DEF ChatInv, InOrder
      <3> QED BY <2>2, <3>1, <3>2 DEF ChatInv, TypeOK
    <2> QED BY <2>1, <2>2, <2>3 DEF OpenStreamsAreOwed, Unanswered
  <1>7. ASSUME NEW r \in Turns, Cut(r) \/ WriterFails(r) \/ Release(r)
        PROVE  v \in Unanswered(on[v])'
    <2>1. UNCHANGED <<pc, sse, on>> BY <1>7 DEF Cut, WriterFails, Release, reqVars
    <2>2. s \in Turns BY <2>1 DEF ChatInv, InOrder
    <2>3. s # r BY <1>7, <2>1 DEF Cut, WriterFails, Release, ChatInv, TypeOK
    <2>4. link'[s] = link[s] /\ inbox'[s] = inbox[s] /\ answering'[s] = answering[s]
      BY <1>7, <2>2, <2>3 DEF Cut, WriterFails, Release, ChatInv, TypeOK
    <2> QED BY <2>1, <2>4 DEF OpenStreamsAreOwed, Unanswered
  <1>8. ASSUME NEW t \in Turns,
               \/ Look(t) \/ LoadHistory(t) \/ GiveUp(t) \/ OpenFails(t) \/ SendFails(t)
               \/ StoreUserMessage(t) \/ StreamCloses(t) \/ StoreReply(t) \/ RecorderStops(t)
        PROVE  /\ UNCHANGED <<on, link, inbox, answering>>
               /\ pc[v] = "streaming" /\ sse[v] = "open"
    BY <1>8 DEF Look, Begin, LoadHistory, GiveUp, OpenFails, SendFails, StoreUserMessage,
                StreamCloses, StoreReply, RecorderStops, reqVars, recVars, sessVars,
                ChatInv, TypeOK
  <1>9. CASE UNCHANGED vars BY <1>1, <1>9 DEF vars, reqVars, sessVars
  <1> QED
    BY <1>1, <1>2, <1>3, <1>4, <1>5, <1>6, <1>7, <1>8, <1>9 DEF Next, Handle

\* No client listens in vain: as long as its connection lasts, a stream that is open has
\* its message with the harness, in answer or in line, although the end of any turn of
\* the session ends the streams of all (chat.rs, harness_broadcast_to_sse).  So it ends
\* with the next answer, or when the connection does.
THEOREM NobodyListensInVain == Spec => []OpenStreamsAreOwed
  <1>1. Init => OpenStreamsAreOwed BY DEF Init, OpenStreamsAreOwed
  <1> QED BY <1>1, OwedStep, ChatInvHolds, PTL DEF Spec
------------------------------------------------------------------------------
(* Orphans: what OrphansAreReleased says of their end rests on this.          *)

\* A session that lost its place in the registry never gets it back, and no further
\* request takes hold of it.
NobodyTakesOrphans ==
    \A s \in Turns : Live(s) /\ reg # s =>
        /\ reg' # s
        /\ \A t \in Turns : on'[t] = s /\ pc'[t] = "joined" => on[t] = s /\ pc[t] = "joined"

LEMMA OrphansStep ==
    ASSUME ChatInv, [Next]_vars, NEW s \in Turns, Live(s), reg # s
    PROVE  /\ reg' # s
           /\ \A t \in Turns :
                 on'[t] = s /\ pc'[t] = "joined" => on[t] = s /\ pc[t] = "joined"
  <1> DEFINE Left == /\ reg' # s
                     /\ \A t \in Turns : on'[t] = s /\ pc'[t] = "joined" =>
                                            on[t] = s /\ pc[t] = "joined"
  <1>1. link[s] # "none" BY DEF Live
  <1>2. ASSUME NEW v \in Turns, Join(v) PROVE Left
    BY <1>2 DEF Join, Subscribe, ChatInv, TypeOK
  <1>3. ASSUME NEW v \in Turns, Open(v) PROVE Left
    <2>1. pc[v] \in Early /\ v # s
      BY <1>1, <1>3 DEF Open, Early, ChatInv, OpenedOnce
    <2> QED BY <1>3, <2>1 DEF Open, Subscribe, ChatInv, TypeOK
  <1>4. ASSUME NEW v \in Turns,
               \/ Look(v) \/ LoadHistory(v) \/ GiveUp(v) \/ OpenFails(v) \/ Send(v) \/ SendFails(v)
        PROVE  Left
    BY <1>4, ChatAssumption
    DEF ChatAssumption, Look, Begin, LoadHistory, GiveUp, OpenFails, Send, SendFails, ChatInv,
        TypeOK
  <1>5. ASSUME NEW v \in Turns,
               \/ StreamCloses(v) \/ RecorderStops(v) \/ StoreUserMessage(v) \/ StoreReply(v)
               \/ Answer(v) \/ Finish(v) \/ Refuse(v) \/ Cut(v) \/ WriterFails(v) \/ Release(v)
        PROVE  UNCHANGED <<pc, on, reg>>
    BY <1>5 DEF StreamCloses, RecorderStops, StoreUserMessage, StoreReply, Answer, Finish,
                Refuse, Cut, WriterFails, Release, reqVars
  <1>6. CASE UNCHANGED <<pc, on, reg>> BY <1>6
  <1>7. CASE UNCHANGED vars BY <1>6, <1>7 DEF vars, reqVars
  <1> QED BY <1>2, <1>3, <1>4, <1>5, <1>6, <1>7 DEF Next, Handle

\* A session that is replaced in the registry, by a request that raced with its opening or
\* asked for another model, is held by the requests that had joined it only (chat.rs,
\* get_or_create_chat_session), so it closes when they have sent their messages.
THEOREM OrphansAreLeft == Spec => [][NobodyTakesOrphans]_vars
  <1>1. ChatInv /\ [Next]_vars => [NobodyTakesOrphans]_vars
    BY OrphansStep DEF NobodyTakesOrphans
  <1> QED BY <1>1, ChatInvHolds, PTL DEF Spec
=============================================================================
