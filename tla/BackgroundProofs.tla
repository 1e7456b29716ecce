-------------------------- MODULE BackgroundProofs ---------------------------
(***************************************************************************)
(* Theorems about what runs beside the requests: the cache of the guard     *)
(* (AuthGuard), the scheduler of processes (ProcessSchedule), the automata  *)
(* of a run's nodes (ActionNodes), the runs of the super agent (SuperAgent) *)
(* and its tools (SuperAgentTools), and the calls of the tools of an        *)
(* organisation (ToolCalls).                                                *)
(***************************************************************************)
EXTENDS ActionNodes, AuthGuard, ProcessSchedule, SuperAgent, SuperAgentTools,
        ToolCalls, TLAPS

----------------------------------------------------------------------------
(* How old a session the guard accepts can be, for any times.  Between two   *)
(* evictions an entry can outlive the limit by the time that has passed      *)
(* since the last one, and by no more.                                       *)

\* The entry was below the limit when the last eviction let it stay.
EntryIsRecent == cached => age < MaxAge + since

GuardInv == GuardTypeOK /\ EntryIsRecent /\ AcceptedIsRecent

LEMMA GuardStarts ==
    ASSUME GuardInit
    PROVE  GuardInv
<1> USE GuardAssumption DEF GuardAssumption, GuardInit
<1>1. good \in BOOLEAN /\ cached \in BOOLEAN /\ net \in BOOLEAN
  OBVIOUS
<1>2. leaving \in BOOLEAN
  OBVIOUS
<1>3. renewing \in {"no", "import", "validate"}
  OBVIOUS
<1>4. age \in Nat /\ since \in 0 .. EvictEvery
  OBVIOUS
<1>5. call \in [Callers -> {"new", "asking", "yes", "no", "unreachable",
                            "fresh", "stale", "refused"}]
  OBVIOUS
<1>6. seen \in [Callers -> Nat]
  OBVIOUS
<1>7. EntryIsRecent /\ AcceptedIsRecent
  BY DEF EntryIsRecent, AcceptedIsRecent
<1> QED BY <1>1, <1>2, <1>3, <1>4, <1>5, <1>6, <1>7 DEF GuardTypeOK, GuardInv

\* A new entry has the age 0.
LEMMA NewEntry ==
    ASSUME NEW n \in BOOLEAN, Put(n)
    PROVE  cached' \in BOOLEAN /\ age' \in Nat /\ net' \in BOOLEAN /\ age' = 0
BY DEF Put

LEMMA NewIsRecent ==
    ASSUME GuardTypeOK, age' = 0, since' = since
    PROVE  EntryIsRecent'
BY GuardAssumption DEF GuardAssumption, GuardTypeOK, EntryIsRecent

\* The end of a request keeps the types.
LEMMA EndTypes ==
    ASSUME GuardTypeOK, NEW c \in Callers, NEW a \in Nat,
           NEW how \in {"new", "fresh", "stale", "refused"}, Ends(c, how, a)
    PROVE  /\ call' \in [Callers -> {"new", "asking", "yes", "no", "unreachable",
                                     "fresh", "stale", "refused"}]
           /\ seen' \in [Callers -> Nat]
BY DEF GuardTypeOK, Ends

\* What an eviction leaves was below the limit.
LEMMA EvictionLeaves ==
    ASSUME GuardTypeOK, Evict
    PROVE  /\ cached' \in BOOLEAN /\ age' \in Nat /\ net' \in BOOLEAN
           /\ since' = 0 /\ (cached' => age' < MaxAge)
<1>1. CASE cached /\ age < MaxAge
  BY <1>1 DEF GuardTypeOK, Evict, Retain
<1>2. CASE ~(cached /\ age < MaxAge)
  <2>1. cached' = FALSE /\ age' = 0 /\ net' = FALSE /\ since' = 0
    BY <1>2 DEF Evict, Retain
  <2> QED BY <2>1
<1> QED BY <1>1, <1>2

\* A step keeps the types.
LEMMA TypesKept ==
    ASSUME GuardTypeOK, [GuardNext]_guardVars
    PROVE  GuardTypeOK'
<1> USE DEF GuardTypeOK
<1>1. ASSUME NEW c \in Callers,
             LetIn(c) \/ Ask(c) \/ Answer(c) \/ Settle(c) \/ Again(c)
      PROVE  GuardTypeOK'
  <2>1. CASE LetIn(c)
    BY <2>1 DEF LetIn, Ends
  <2>2. CASE Ask(c)
    BY <2>2 DEF Ask
  <2>3. CASE Answer(c)
    BY <2>3 DEF Answer
  <2>4. CASE Settle(c)
    <3>1. cached' \in BOOLEAN /\ age' \in Nat /\ net' \in BOOLEAN
      BY <2>4, NewEntry DEF Settle
    <3>2. /\ call' \in [Callers -> {"new", "asking", "yes", "no", "unreachable",
                                    "fresh", "stale", "refused"}]
          /\ seen' \in [Callers -> Nat]
      BY <2>4, EndTypes DEF Settle
    <3> QED BY <2>4, <3>1, <3>2 DEF Settle
  <2>5. CASE Again(c)
    BY <2>5 DEF Again, Ends
  <2> QED BY <1>1, <2>1, <2>2, <2>3, <2>4, <2>5
<1>2. CASE SignIn
  BY <1>2 DEF SignIn, Put
<1>3. CASE Import
  BY <1>3 DEF Import, Renew
<1>4. CASE Validate
  BY <1>4 DEF Validate, Renew
<1>5. CASE Renewed
  <2>1. cached' \in BOOLEAN /\ age' \in Nat /\ net' \in BOOLEAN
    BY <1>5, NewEntry DEF Renewed
  <2> QED BY <1>5, <2>1 DEF Renewed
<1>6. CASE Logout
  BY <1>6 DEF Logout
<1>7. CASE LogoutOfZos
  BY <1>7 DEF LogoutOfZos
<1>8. CASE Expire
  BY <1>8 DEF Expire
<1>9. CASE PassTime
  BY <1>9, GuardAssumption DEF GuardAssumption, PassTime
<1>10. CASE Evict
  <2>1. since' \in 0 .. EvictEvery
    BY <1>10, EvictionLeaves, GuardAssumption DEF GuardAssumption
  <2> QED BY <1>10, <2>1, EvictionLeaves DEF Evict, Retain
<1>11. CASE UNCHANGED guardVars
  BY <1>11 DEF guardVars
<1> QED BY <1>1, <1>2, <1>3, <1>4, <1>5, <1>6, <1>7, <1>8, <1>9, <1>10, <1>11
       DEF GuardNext

\* An entry is new when it is put; an eviction leaves it only below the limit.
LEMMA EntryKept ==
    ASSUME GuardTypeOK, EntryIsRecent, [GuardNext]_guardVars
    PROVE  EntryIsRecent'
<1> USE DEF GuardTypeOK, EntryIsRecent
<1>1. ASSUME NEW c \in Callers,
             LetIn(c) \/ Ask(c) \/ Answer(c) \/ Settle(c) \/ Again(c)
      PROVE  EntryIsRecent'
  <2>1. CASE LetIn(c)
    BY <2>1 DEF LetIn, Ends
  <2>2. CASE Ask(c)
    BY <2>2 DEF Ask
  <2>3. CASE Answer(c)
    BY <2>3 DEF Answer
  <2>4. CASE Settle(c)
    <3>1. CASE call[c] = "yes"
      BY <2>4, <3>1, NewEntry, NewIsRecent DEF Settle
    <3>2. CASE call[c] # "yes"
      BY <2>4, <3>2 DEF Settle
    <3> QED BY <3>1, <3>2
  <2>5. CASE Again(c)
    BY <2>5 DEF Again, Ends
  <2> QED BY <1>1, <2>1, <2>2, <2>3, <2>4, <2>5
<1>2. CASE SignIn
  BY <1>2, NewEntry, NewIsRecent DEF SignIn
<1>3. CASE Import
  BY <1>3 DEF Import, Renew
<1>4. CASE Validate
  BY <1>4 DEF Validate, Renew
<1>5. CASE Renewed
  <2>1. CASE age' = 0
    BY <1>5, <2>1, NewIsRecent DEF Renewed
  <2>2. CASE age' # 0
    BY <1>5, <2>2, NewEntry DEF Renewed
  <2> QED BY <2>1, <2>2
<1>6. CASE Logout
  BY <1>6 DEF Logout
<1>7. CASE LogoutOfZos
  BY <1>7 DEF LogoutOfZos
<1>8. CASE Expire
  BY <1>8 DEF Expire
<1>9. CASE PassTime
  BY <1>9, GuardAssumption DEF GuardAssumption, PassTime
<1>10. CASE Evict
  BY <1>10, EvictionLeaves, GuardAssumption DEF GuardAssumption
<1>11. CASE UNCHANGED guardVars
  BY <1>11 DEF guardVars
<1> QED BY <1>1, <1>2, <1>3, <1>4, <1>5, <1>6, <1>7, <1>8, <1>9, <1>10, <1>11
       DEF GuardNext

\* Who is let in has seen the entry, or zOS itself.
LEMMA AcceptedKept ==
    ASSUME GuardInv, [GuardNext]_guardVars
    PROVE  AcceptedIsRecent'
<1> USE GuardAssumption DEF GuardAssumption, GuardInv, GuardTypeOK, EntryIsRecent, AcceptedIsRecent
<1>1. ASSUME NEW c \in Callers,
             LetIn(c) \/ Ask(c) \/ Answer(c) \/ Settle(c) \/ Again(c)
      PROVE  AcceptedIsRecent'
  <2>1. CASE LetIn(c)
    BY <2>1 DEF LetIn, Ends
  <2>2. CASE Ask(c)
    BY <2>2 DEF Ask
  <2>3. CASE Answer(c)
    BY <2>3 DEF Answer
  <2>4. CASE Settle(c)
    BY <2>4 DEF Settle, Put, Ends
  <2>5. CASE Again(c)
    BY <2>5 DEF Again, Ends
  <2> QED BY <1>1, <2>1, <2>2, <2>3, <2>4, <2>5
<1>2. CASE SignIn
  BY <1>2 DEF SignIn, Put
<1>3. CASE Import
  BY <1>3 DEF Import, Renew
<1>4. CASE Validate
  BY <1>4 DEF Validate, Renew
<1>5. CASE Renewed
  BY <1>5 DEF Renewed, Put
<1>6. CASE Logout
  BY <1>6 DEF Logout
<1>7. CASE LogoutOfZos
  BY <1>7 DEF LogoutOfZos
<1>8. CASE Expire
  BY <1>8 DEF Expire
<1>9. CASE PassTime
  BY <1>9 DEF PassTime
<1>10. CASE Evict
  BY <1>10 DEF Evict, Retain
<1>11. CASE UNCHANGED guardVars
  BY <1>11 DEF guardVars
<1> QED BY <1>1, <1>2, <1>3, <1>4, <1>5, <1>6, <1>7, <1>8, <1>9, <1>10, <1>11
       DEF GuardNext

\* Entries and admissions are recent, in every reachable state: the two and the
\* types together are inductive.
THEOREM GuardInvHolds == GuardSpec => []GuardInv
<1>1. GuardInv /\ [GuardNext]_guardVars => GuardInv'
  BY TypesKept, EntryKept, AcceptedKept DEF GuardInv
<1> QED BY <1>1, GuardStarts, PTL DEF GuardSpec

\* Every variable of the guard holds values of its type.
THEOREM GuardTypes == GuardSpec => []GuardTypeOK
<1>1. GuardInv => GuardTypeOK
  BY DEF GuardInv
<1> QED BY <1>1, GuardInvHolds, PTL

\* No session is accepted that is older than the refresh time, or, while zOS
\* cannot be reached, than the limit and one eviction interval together.
THEOREM GuardAcceptsRecent == GuardSpec => []AcceptedIsRecent
<1>1. GuardInv => AcceptedIsRecent
  BY DEF GuardInv
<1> QED BY <1>1, GuardInvHolds, PTL

----------------------------------------------------------------------------
(* The scheduler, for any editors and schedules.                             *)

ScheduleInv == ScheduleTypeOK /\ QuietEditsHold

\* A row stays a row when an editor changes it and when time goes on, which
\* moves nothing but next_run_at.
LEMMA EditedRows ==
    ASSUME NEW r \in Rows
    PROVE  Edits(r) \subseteq Rows
  BY ScheduleAssumption DEF Edits, Rows

LEMMA LaterRows ==
    ASSUME NEW r \in Rows
    PROVE  Sooner(r) \in Rows /\ (Quiet(Sooner(r)) <=> Quiet(r))
  BY ScheduleAssumption DEF Sooner, Rows, Quiet

LEMMA NamedRows == NoRow \in Rows /\ Deleted \in Rows /\ Quiet(NoRow) /\ Quiet(Deleted)
  <1>1. 0 \in 0 .. MaxPeriod BY ScheduleAssumption DEF ScheduleAssumption
  <1>2. NoRow \in Rows /\ Quiet(NoRow) BY <1>1 DEF NoRow, Rows, Quiet
  <1>3. Deleted \in Rows /\ Deleted.is = "gone" BY <1>2 DEF Deleted, Rows
  <1> QED BY <1>2, <1>3 DEF Quiet

\* What an editor's change leaves behind: if it counts as a pause or a deletion
\* in peace, or leaves one standing, then the scheduler is idle.
LEMMA ChangedRow ==
    ASSUME ScheduleInv, NEW e, NEW r \in Rows, Change(e, r)
    PROVE  /\ row' \in Rows /\ hushed' \in BOOLEAN
           /\ hushed' => Quiet(row') /\ scheduler = "idle"
  <1>1. row' = r BY DEF Change
  <1>2. CASE Quiet(r)
    <2>1. hushed' = (hushed \/ Alone(e)) BY <1>2 DEF Change
    <2>2. Alone(e) => scheduler = "idle" BY DEF Alone
    <2>3. hushed => scheduler = "idle" BY DEF ScheduleInv, QuietEditsHold
    <2>4. Alone(e) \in BOOLEAN BY DEF Alone
    <2> QED BY <1>1, <1>2, <2>1, <2>2, <2>3, <2>4 DEF ScheduleInv, ScheduleTypeOK
  <1>3. CASE ~Quiet(r)
    <2>1. hushed' = FALSE BY <1>3 DEF Change
    <2> QED BY <1>1, <2>1
  <1> QED BY <1>2, <1>3

LEMMA ScheduleStarts == ScheduleInit => ScheduleInv
  BY NamedRows DEF ScheduleInit, ScheduleInv, ScheduleTypeOK, QuietEditsHold

LEMMA ScheduleStep == ScheduleInv /\ [ScheduleNext]_scheduleVars => ScheduleInv'
  <1> SUFFICES ASSUME ScheduleInv, [ScheduleNext]_scheduleVars PROVE ScheduleInv'
    OBVIOUS
  <1> USE DEF ScheduleInv
  <1>1. ASSUME NEW e \in Editors, CreateProcess(e) PROVE ScheduleInv'
    <2>1. PICK r \in Rows : Change(e, r)
      <3>1. \A p \in 0 .. MaxPeriod :
                [is |-> "here", on |-> TRUE, period |-> p, next |-> 0] \in Rows
        BY ScheduleAssumption DEF Rows
      <3> QED BY <1>1, <3>1, NamedRows DEF CreateProcess
    <2> QED BY <1>1, <2>1, ChangedRow DEF CreateProcess, ScheduleTypeOK, QuietEditsHold
  <1>2. ASSUME NEW e \in Editors, ReadRow(e) PROVE ScheduleInv'
    BY <1>2, EditedRows DEF ReadRow, ScheduleTypeOK, QuietEditsHold, Quiet
  <1>3. ASSUME NEW e \in Editors, SaveRow(e) PROVE ScheduleInv'
    <2>1. copy[e] \in Rows BY DEF ScheduleTypeOK
    <2>2. Change(e, copy[e]) BY <1>3 DEF SaveRow
    <2> QED
      BY <1>3, <2>1, <2>2, ChangedRow, NamedRows DEF SaveRow, ScheduleTypeOK, QuietEditsHold
  <1>4. ASSUME NEW e \in Editors, PatchRow(e) PROVE ScheduleInv'
    <2>1. PICK r \in Edits(row) : Change(e, r) BY <1>4 DEF PatchRow
    <2>2. r \in Rows BY EditedRows DEF ScheduleTypeOK
    <2> QED BY <1>4, <2>1, <2>2, ChangedRow DEF PatchRow, ScheduleTypeOK, QuietEditsHold
  <1>5. ASSUME NEW e \in Editors, DeleteProcess(e) PROVE ScheduleInv'
    <2>1. Change(e, Deleted) BY <1>5 DEF DeleteProcess
    <2> QED
      BY <1>5, <2>1, ChangedRow, NamedRows DEF DeleteProcess, ScheduleTypeOK, QuietEditsHold
  <1>6. CASE TriggerByUser
    BY <1>6 DEF TriggerByUser, ScheduleTypeOK, QuietEditsHold, Quiet
  <1>7. CASE RunEnds BY <1>7 DEF RunEnds, ScheduleTypeOK, QuietEditsHold, Quiet
  <1>8. CASE List
    <2>1. ~Quiet(row) BY <1>8 DEF List, Due, Quiet
    <2> QED BY <1>8, <2>1 DEF List, ScheduleTypeOK, QuietEditsHold
  <1>9. CASE Trigger
    <2>1. ScheduleTypeOK' BY <1>9, NamedRows DEF Trigger, ScheduleTypeOK
    <2>2. ~hushed BY <1>9 DEF Trigger, QuietEditsHold
    <2> QED BY <1>9, <2>1, <2>2 DEF Trigger, QuietEditsHold
  <1>10. CASE SaveNext
    <2>1. row' \in Rows BY <1>10, ScheduleAssumption DEF SaveNext, ScheduleTypeOK, Rows
    <2>2. ~hushed BY <1>10 DEF SaveNext, QuietEditsHold
    <2> QED BY <1>10, <2>1, <2>2, NamedRows DEF SaveNext, ScheduleTypeOK, QuietEditsHold
  <1>11. CASE TimeGoesOn
    <2>1. row' \in Rows /\ listed' \in Rows /\ (Quiet(row') <=> Quiet(row))
      BY <1>11, LaterRows DEF TimeGoesOn, ScheduleTypeOK
    <2>2. copy' \in [Editors -> Rows] BY <1>11, LaterRows DEF TimeGoesOn, ScheduleTypeOK
    <2> QED BY <1>11, <2>1, <2>2 DEF TimeGoesOn, ScheduleTypeOK, QuietEditsHold
  <1>12. CASE UNCHANGED scheduleVars
    BY <1>12 DEF scheduleVars, ScheduleTypeOK, QuietEditsHold, Quiet
  <1> QED
    BY <1>1, <1>2, <1>3, <1>4, <1>5, <1>6, <1>7, <1>8, <1>9, <1>10, <1>11, <1>12
    DEF ScheduleNext

\* Every row and every reader's copy is a row, and pauses in peace hold, in every
\* reachable state: the two together are inductive.
THEOREM ScheduleInvHolds == ScheduleSpec => []ScheduleInv
  BY ScheduleStarts, ScheduleStep, PTL DEF ScheduleSpec

\* Rows stay rows, whatever is saved over what.
THEOREM ScheduleTypes == ScheduleSpec => []ScheduleTypeOK
  <1>1. ScheduleInv => ScheduleTypeOK BY DEF ScheduleInv
  <1> QED BY <1>1, ScheduleInvHolds, PTL

\* A pause or a deletion in peace is final until an editor enables the process:
\* the scheduler never saves an older row over it, and never runs the process
\* (tick of scheduler.rs, update_process and delete_process of process.rs).
THEOREM SchedulerRespectsQuietEdits == ScheduleSpec => []QuietEditsHold
  <1>1. ScheduleInv => QuietEditsHold BY DEF ScheduleInv
  <1> QED BY <1>1, ScheduleInvHolds, PTL

----------------------------------------------------------------------------
(* The nodes' automata (ActionNodes): which tasks can still move, and what   *)
(* their automata may still write, follows from the place of the run.        *)

\* What a task's state says of its automaton, its stream and its files.
TaskInv(t) ==
    /\ state[t] \in {"none", "waiting", "starting"} => automaton[t] = "none" /\ stream[t] = "none"
    /\ stream[t] \in {"completed", "failed"} => automaton[t] = "ended"
    /\ state[t] \in {"reading", "ok"} => automaton[t] = "ended"
    /\ t \in wrote => automaton[t] # "none"
    /\ t[2] > 0 => /\ file[t] = {} \/ file[t] = {t}
                   /\ state[t] = "ok" /\ file[t] # {} => text[t] = {t}

\* What the place of a task in the run says of its state.
PlaceInv(t) ==
    /\ t[1] > node => state[t] = "none"
    /\ t[1] < node => state[t] \in Ended \cup {"none"}
    /\ t[1] < node /\ t[2] = 0 => state[t] # "failed"
    /\ t[1] = node /\ pc = "ready" => state[t] = "none"
    /\ t[1] = node /\ pc = "single" /\ t[2] > 0 => state[t] = "none"
    /\ t[1] = node /\ pc = "creating" /\ (t[2] > made \/ t[2] = 0) => state[t] = "none"
    /\ t[1] = node /\ pc # "single" /\ t[2] = 0 => state[t] \in {"none", "failed"}

PcInv ==
    /\ pc \in {"single", "creating"} => node \in Nodes
    /\ pc \in {"ready", "single"} => made = 0
    /\ pc = "creating" =>
          /\ parts <= MaxParts[node] /\ Len(output[node]) <= made
          /\ \A i \in 1 .. Len(output[node]) : state[<<node, i>>] \in Ended
    /\ \A n \in Nodes : n > node \/ (n = node /\ pc = "ready") => output[n] = <<>>

EarlierFailed(n) == \E m \in 1 .. n - 1 : \E t \in SubTasks(m) : state[t] = "failed"

\* A node's task that wrote its output file still finds it as it was, or has read it.
OwnInv(n) ==
    OwnTask(n) \in wrote =>
        \/ EarlierFailed(n)
        \/ /\ state[OwnTask(n)] = "ok" => text[OwnTask(n)] = {OwnTask(n)}
           /\ state[OwnTask(n)] \in Following => file[NodeFile(n)] = {OwnTask(n)}

NodesInv ==
    /\ TypeOK /\ PcInv
    /\ \A t \in Tasks : TaskInv(t) /\ PlaceInv(t)
    /\ \A n \in Nodes : OwnInv(n)

\* A task is a pair of a node and a number.
LEMMA TaskIs ==
    ASSUME NEW t \in Tasks
    PROVE  /\ t[1] \in Nodes /\ t[1] \in Nat /\ t[2] \in 0 .. MaxParts[t[1]] /\ t[2] \in Nat
           /\ t = <<t[1], t[2]>>
<1>1. PICK n \in Nodes : t \in {n} \X (0 .. MaxParts[n])
  BY DEF Tasks
<1>2. t[1] = n /\ t[2] \in 0 .. MaxParts[n] /\ t = <<t[1], t[2]>>
  BY <1>1
<1>3. MaxParts[n] \in Nat /\ n \in Nat
  BY NodeAssumption DEF NodeAssumption, Nodes
<1> QED BY <1>2, <1>3

LEMMA TaskOf ==
    ASSUME NEW n \in Nodes, NEW i \in 0 .. MaxParts[n]
    PROVE  /\ <<n, i>> \in Tasks /\ (<<n, i>>)[1] = n /\ (<<n, i>>)[2] = i
<1>1. <<n, i>> \in {n} \X (0 .. MaxParts[n])
  OBVIOUS
<1> QED BY <1>1 DEF Tasks

LEMMA NumbersOf ==
    ASSUME NEW n \in Nodes
    PROVE  /\ n \in Nat /\ n >= 1 /\ MaxParts[n] \in Nat
           /\ OwnTask(n) \in Tasks /\ OwnTask(n)[1] = n /\ OwnTask(n)[2] = 0
<1>1. n \in Nat /\ n >= 1 /\ MaxParts[n] \in Nat
  BY NodeAssumption DEF NodeAssumption, Nodes
<1>2. 0 \in 0 .. MaxParts[n]
  BY <1>1
<1> QED BY <1>1, <1>2, TaskOf DEF OwnTask

LEMMA SubTaskIs ==
    ASSUME NEW n \in Nodes, NEW t
    PROVE  t \in SubTasks(n) <=> t \in Tasks /\ t[1] = n /\ t[2] > 0
<1>1. ASSUME t \in SubTasks(n)
      PROVE  t \in Tasks /\ t[1] = n /\ t[2] > 0
  <2>1. t \in {n} \X (1 .. MaxParts[n])
    BY <1>1 DEF SubTasks
  <2>2. PICK i \in 1 .. MaxParts[n] : t = <<n, i>>
    BY <2>1
  <2>3. i \in 0 .. MaxParts[n] /\ i > 0
    BY NumbersOf
  <2> QED BY <2>2, <2>3, TaskOf
<1>2. ASSUME t \in Tasks, t[1] = n, t[2] > 0
      PROVE  t \in SubTasks(n)
  <2>1. t = <<n, t[2]>> /\ t[2] \in 0 .. MaxParts[n] /\ MaxParts[n] \in Nat
    BY <1>2, TaskIs, NumbersOf
  <2>2. t[2] \in 1 .. MaxParts[n]
    BY <1>2, <2>1
  <2> QED BY <2>1, <2>2 DEF SubTasks
<1> QED BY <1>1, <1>2

\* Which files there are: those of nodes are not those of sub-tasks.
LEMMA FilesAre ==
    ASSUME NEW t \in Tasks
    PROVE  /\ NodeFile(t[1]) \in Files /\ ExpectedFile(t) \in Files
           /\ t[2] > 0 => ExpectedFile(t) = t /\ t \in Files
           /\ t[2] = 0 => ExpectedFile(t) = NodeFile(t[1]) /\ t = OwnTask(t[1])
           /\ \A n : NodeFile(n) # t
<1>1. t[1] \in Nodes /\ t[1] \in Nat /\ t[2] \in Nat /\ t = <<t[1], t[2]>> /\ t[1] >= 1
  BY TaskIs, NumbersOf
<1>2. NodeFile(t[1]) \in Files
  BY <1>1 DEF Files
<1>3. t[2] > 0 => t \in Files
  <2>1. t[2] > 0 => t \in SubTasks(t[1])
    BY <1>1, SubTaskIs
  <2> QED BY <1>1, <2>1 DEF Files
<1>4. t[2] = 0 => t = OwnTask(t[1])
  BY <1>1 DEF OwnTask
<1>5. \A n : NodeFile(n) # t
  <2>1. \A n : NodeFile(n)[1] = 0
    BY DEF NodeFile
  <2> QED BY <1>1, <2>1
<1>6. /\ t[2] > 0 => ExpectedFile(t) = t
      /\ t[2] = 0 => ExpectedFile(t) = NodeFile(t[1])
  BY <1>1 DEF ExpectedFile
<1> QED BY <1>1, <1>2, <1>3, <1>4, <1>5, <1>6

\* A task that waits or is followed is of the node being executed, and if it is the
\* node's own, the run waits for it.
LEMMA WhereItIs ==
    ASSUME NodesInv, NEW t \in Tasks, state[t] \in {"waiting"} \cup Following
    PROVE  /\ t[1] = node /\ pc # "ready"
           /\ pc = "single" => t[2] = 0
           /\ pc = "creating" => t[2] <= made
           /\ t[2] = 0 => pc = "single"
<1>1. PlaceInv(t) /\ node \in Nat /\ t[1] \in Nat /\ t[2] \in Nat /\ made \in Nat
  <2>1. parts \in Nat
    BY DEF NodesInv, TypeOK
  <2> QED BY <2>1, TaskIs, NodeAssumption DEF NodesInv, TypeOK, NodeAssumption
<1>2. state[t] \notin Ended \cup {"none"}
  BY DEF Ended, Following
<1>3. t[1] = node
  BY <1>1, <1>2 DEF PlaceInv
<1> QED BY <1>1, <1>2, <1>3 DEF PlaceInv, Ended

\* A task that goes on, or ends.
LEMMA TaskMoves ==
    ASSUME NodesInv, NEW t \in Tasks, state[t] \in {"waiting"} \cup Following,
           NEW s \in Following \cup Ended, state' = [state EXCEPT ![t] = s], UNCHANGED runVars
    PROVE  /\ PcInv' /\ \A x \in Tasks : PlaceInv(x)'
           /\ state'[t] = s /\ \A x \in Tasks : x # t => state'[x] = state[x]
           /\ state' \in [Tasks -> {"none", "waiting"} \cup Following \cup Ended]
           /\ \A x \in Tasks : state[x] = "failed" => state'[x] = "failed"
<1>1. UNCHANGED <<node, pc, parts, made, output>>
  BY DEF runVars
<1>2. /\ state'[t] = s /\ \A x \in Tasks : x # t => state'[x] = state[x]
      /\ state' \in [Tasks -> {"none", "waiting"} \cup Following \cup Ended]
  BY DEF NodesInv, TypeOK
<1>3. state[t] \notin Ended /\ s # "none"
  BY DEF Ended, Following
<1>4. \A x \in Tasks : state[x] = "failed" => state'[x] = "failed"
  BY <1>2, <1>3 DEF Ended
<1>5. ASSUME NEW x \in Tasks
      PROVE  PlaceInv(x)'
  <2>1. CASE x # t
    BY <1>1, <1>2, <2>1 DEF NodesInv, PlaceInv
  <2>2. CASE x = t
    <3>1. /\ t[1] = node /\ pc # "ready"
          /\ pc = "single" => t[2] = 0
          /\ pc = "creating" => t[2] <= made
          /\ t[2] = 0 => pc = "single"
      BY WhereItIs
    <3>2. node \in Nat /\ made \in Nat /\ t[2] \in Nat
      <4>1. parts \in Nat
        BY DEF NodesInv, TypeOK
      <4> QED BY <4>1, TaskIs, NodeAssumption DEF NodesInv, TypeOK, NodeAssumption
    <3> QED BY <1>1, <2>2, <3>1, <3>2 DEF PlaceInv
  <2> QED BY <2>1, <2>2
<1>6. PcInv'
  <2>1. PcInv
    BY DEF NodesInv
  <2>2. ASSUME pc = "creating", NEW i \in 1 .. Len(output[node])
        PROVE  state'[<<node, i>>] \in Ended
    <3>1. node \in Nodes /\ parts <= MaxParts[node] /\ Len(output[node]) <= made
          /\ made \in 0 .. parts /\ parts \in Nat
      BY <2>1, <2>2 DEF PcInv, NodesInv, TypeOK
    <3>2. i \in 0 .. MaxParts[node]
      <4>1. MaxParts[node] \in Nat /\ Len(output[node]) \in Nat
        BY <3>1, NumbersOf DEF NodesInv, TypeOK
      <4> QED BY <3>1, <4>1
    <3>3. <<node, i>> \in Tasks
      BY <3>1, <3>2, TaskOf
    <3>4. state[<<node, i>>] \in Ended
      BY <2>1, <2>2 DEF PcInv
    <3> QED BY <1>2, <1>3, <3>3, <3>4
  <2> QED BY <1>1, <2>1, <2>2 DEF PcInv
<1> QED BY <1>2, <1>4, <1>5, <1>6

\* Only the harness moves.
LEMMA StatesStay ==
    ASSUME NodesInv, UNCHANGED <<runVars, state>>
    PROVE  PcInv' /\ \A x \in Tasks : PlaceInv(x)'
BY DEF NodesInv, PcInv, PlaceInv, runVars

\* When a node's task does not write or read.
LEMMA OwnStays ==
    ASSUME NodesInv, NEW n \in Nodes,
           \A x \in Tasks : state[x] = "failed" => state'[x] = "failed",
           OwnTask(n) \in wrote' => OwnTask(n) \in wrote,
           state'[OwnTask(n)] = "ok" =>
               state[OwnTask(n)] = "ok" /\ text'[OwnTask(n)] = text[OwnTask(n)],
           state'[OwnTask(n)] \in Following =>
               state[OwnTask(n)] \in Following /\ file'[NodeFile(n)] = file[NodeFile(n)]
    PROVE  OwnInv(n)'
<1>1. EarlierFailed(n) => EarlierFailed(n)'
  <2> SUFFICES ASSUME EarlierFailed(n)
               PROVE  EarlierFailed(n)'
    OBVIOUS
  <2>0. PICK m \in 1 .. n - 1 : \E t \in SubTasks(m) : state[t] = "failed"
    BY DEF EarlierFailed
  <2>1. PICK t \in SubTasks(m) : state[t] = "failed"
    BY <2>0
  <2>2. m \in Nodes
    BY NumbersOf, NodeAssumption DEF Nodes, NodeAssumption
  <2>3. t \in Tasks
    BY <2>2, SubTaskIs
  <2> QED BY <2>1, <2>3 DEF EarlierFailed
<1>2. OwnInv(n)
  BY DEF NodesInv
<1> QED BY <1>1, <1>2 DEF OwnInv

LEMMA AcquireKeeps ==
    ASSUME NodesInv, NEW t \in Tasks, Acquire(t)
    PROVE  NodesInv'
<1>1. /\ state[t] = "waiting" /\ state' = [state EXCEPT ![t] = "starting"]
      /\ UNCHANGED <<runVars, text, automaton, stream, file, wrote>>
  BY DEF Acquire
<1>2. /\ PcInv' /\ \A x \in Tasks : PlaceInv(x)'
      /\ state'[t] = "starting" /\ \A x \in Tasks : x # t => state'[x] = state[x]
      /\ state' \in [Tasks -> {"none", "waiting"} \cup Following \cup Ended]
      /\ \A x \in Tasks : state[x] = "failed" => state'[x] = "failed"
  BY <1>1, TaskMoves DEF Following
<1>3. TypeOK'
  BY <1>1, <1>2 DEF NodesInv, TypeOK, runVars
<1>4. ASSUME NEW x \in Tasks
      PROVE  TaskInv(x)'
  BY <1>1, <1>2 DEF NodesInv, TaskInv
<1>5. ASSUME NEW n \in Nodes
      PROVE  OwnInv(n)'
  <2>1. t \notin wrote
    BY <1>1 DEF NodesInv, TaskInv
  <2>2. OwnTask(n) \in Tasks
    BY NumbersOf
  <2>3. CASE OwnTask(n) = t
    BY <1>1, <2>1, <2>3 DEF OwnInv
  <2>4. CASE OwnTask(n) # t
    BY <1>1, <1>2, <2>2, <2>4, OwnStays
  <2> QED BY <2>3, <2>4
<1> QED BY <1>2, <1>3, <1>4, <1>5 DEF NodesInv

\* The task ends without an output of its own.
LEMMA FailKeeps ==
    ASSUME NodesInv, NEW t \in Tasks, state[t] \in {"waiting"} \cup Following, Fail(t),
           UNCHANGED <<runVars, automaton, stream, file, wrote>>
    PROVE  NodesInv'
<1>1. state' = [state EXCEPT ![t] = "failed"] /\ text' = [text EXCEPT ![t] = {t}]
  BY DEF Fail, EndWith
<1>2. /\ PcInv' /\ \A x \in Tasks : PlaceInv(x)'
      /\ state'[t] = "failed" /\ \A x \in Tasks : x # t => state'[x] = state[x]
      /\ state' \in [Tasks -> {"none", "waiting"} \cup Following \cup Ended]
      /\ \A x \in Tasks : state[x] = "failed" => state'[x] = "failed"
  BY <1>1, TaskMoves DEF Ended
<1>3. text' \in [Tasks -> SUBSET Tasks] /\ \A x \in Tasks : x # t => text'[x] = text[x]
  BY <1>1 DEF NodesInv, TypeOK
<1>4. TypeOK'
  BY <1>2, <1>3 DEF NodesInv, TypeOK, runVars
<1>5. ASSUME NEW x \in Tasks
      PROVE  TaskInv(x)'
  BY <1>2, <1>3 DEF NodesInv, TaskInv
<1>6. ASSUME NEW n \in Nodes
      PROVE  OwnInv(n)'
  <2>1. OwnTask(n) \in Tasks /\ "failed" # "ok" /\ "failed" \notin Following
    BY NumbersOf DEF Following
  <2> QED BY <1>2, <1>3, <2>1, OwnStays
<1> QED BY <1>2, <1>4, <1>5, <1>6 DEF NodesInv

LEMMA StartAutomatonKeeps ==
    ASSUME NodesInv, NEW t \in Tasks, StartAutomaton(t)
    PROVE  NodesInv'
<1>1. state[t] = "starting" /\ UNCHANGED <<runVars, stream, file, wrote>>
  BY DEF StartAutomaton
<1>2. CASE /\ automaton' = [automaton EXCEPT ![t] = "running"]
           /\ state' = [state EXCEPT ![t] = "connecting"] /\ UNCHANGED text
  <2>1. /\ PcInv' /\ \A x \in Tasks : PlaceInv(x)'
        /\ state'[t] = "connecting" /\ \A x \in Tasks : x # t => state'[x] = state[x]
        /\ state' \in [Tasks -> {"none", "waiting"} \cup Following \cup Ended]
        /\ \A x \in Tasks : state[x] = "failed" => state'[x] = "failed"
    BY <1>1, <1>2, TaskMoves DEF Following
  <2>2. /\ automaton' \in [Tasks -> {"none", "running", "ended"}] /\ automaton'[t] = "running"
        /\ \A x \in Tasks : x # t => automaton'[x] = automaton[x]
    BY <1>2 DEF NodesInv, TypeOK
  <2>3. TypeOK'
    BY <1>1, <1>2, <2>1, <2>2 DEF NodesInv, TypeOK, runVars
  <2>4. ASSUME NEW x \in Tasks
        PROVE  TaskInv(x)'
    BY <1>1, <1>2, <2>1, <2>2 DEF NodesInv, TaskInv
  <2>5. ASSUME NEW n \in Nodes
        PROVE  OwnInv(n)'
    <3>1. t \notin wrote
      BY <1>1 DEF NodesInv, TaskInv
    <3>2. OwnTask(n) \in Tasks
      BY NumbersOf
    <3>3. CASE OwnTask(n) = t
      BY <1>1, <3>1, <3>3 DEF OwnInv
    <3>4. CASE OwnTask(n) # t
      BY <1>1, <1>2, <2>1, <3>2, <3>4, OwnStays
    <3> QED BY <3>3, <3>4
  <2> QED BY <2>1, <2>3, <2>4, <2>5 DEF NodesInv
<1>3. CASE Fail(t) /\ UNCHANGED automaton
  BY <1>1, <1>3, FailKeeps DEF Following
<1> QED BY <1>2, <1>3 DEF StartAutomaton

LEMMA ConnectKeeps ==
    ASSUME NodesInv, NEW t \in Tasks, Connect(t)
    PROVE  NodesInv'
<1>1. state[t] = "connecting" /\ UNCHANGED <<runVars, automaton, file, wrote>>
  BY DEF Connect
<1>2. ASSUME state' = [state EXCEPT ![t] = "following"], UNCHANGED text,
             NEW e \in {"open", "completed", "failed", "lost"},
             stream' = [stream EXCEPT ![t] = e],
             e \in {"completed", "failed"} => automaton[t] = "ended"
      PROVE  NodesInv'
  <2>1. /\ PcInv' /\ \A x \in Tasks : PlaceInv(x)'
        /\ state'[t] = "following" /\ \A x \in Tasks : x # t => state'[x] = state[x]
        /\ state' \in [Tasks -> {"none", "waiting"} \cup Following \cup Ended]
        /\ \A x \in Tasks : state[x] = "failed" => state'[x] = "failed"
    BY <1>1, <1>2, TaskMoves DEF Following
  <2>2. /\ stream' \in [Tasks -> {"none", "open", "completed", "failed", "lost"}]
        /\ stream'[t] = e /\ \A x \in Tasks : x # t => stream'[x] = stream[x]
    BY <1>2 DEF NodesInv, TypeOK
  <2>3. TypeOK'
    BY <1>1, <1>2, <2>1, <2>2 DEF NodesInv, TypeOK, runVars
  <2>4. ASSUME NEW x \in Tasks
        PROVE  TaskInv(x)'
    BY <1>1, <1>2, <2>1, <2>2 DEF NodesInv, TaskInv
  <2>5. ASSUME NEW n \in Nodes
        PROVE  OwnInv(n)'
    <3>1. OwnTask(n) \in Tasks
      BY NumbersOf
    <3>2. state[t] \in Following
      BY <1>1 DEF Following
    <3> QED BY <1>1, <1>2, <2>1, <3>1, <3>2, OwnStays
  <2> QED BY <2>1, <2>3, <2>4, <2>5 DEF NodesInv
<1>3. CASE Fail(t) /\ UNCHANGED stream
  BY <1>1, <1>3, FailKeeps DEF Following
<1>4. CASE /\ state' = [state EXCEPT ![t] = "following"] /\ UNCHANGED text
           /\ automaton[t] = "running" /\ stream' = [stream EXCEPT ![t] = "open"]
  BY <1>2, <1>4
<1>5. CASE /\ state' = [state EXCEPT ![t] = "following"] /\ UNCHANGED text
           /\ automaton[t] = "ended"
           /\ \E e \in {"completed", "failed", "lost"} : stream' = [stream EXCEPT ![t] = e]
  BY <1>2, <1>5
<1> QED BY <1>3, <1>4, <1>5 DEF Connect

\* An automaton writes to a file of its own, or to that of its node.
LEMMA WriteFileKeeps ==
    ASSUME NodesInv, NEW t \in Tasks, NEW f, f = NodeFile(t[1]) \/ f = ExpectedFile(t),
           WriteFile(t, f)
    PROVE  NodesInv'
<1>1. /\ automaton[t] = "running" /\ file' = [file EXCEPT ![f] = {t}]
      /\ wrote' = (IF f = NodeFile(t[1]) THEN wrote \cup {t} ELSE wrote)
      /\ UNCHANGED <<runVars, state, text, automaton, stream>>
  BY DEF WriteFile
<1>2. /\ f \in Files /\ \A x \in Tasks : x = f => x = t
      /\ t[2] > 0 => f = t \/ f = NodeFile(t[1])
      /\ t[2] = 0 => f = NodeFile(t[1]) /\ t = OwnTask(t[1])
  <2>1. t[1] \in Nodes /\ t[2] \in Nat
    BY TaskIs
  <2> QED BY <2>1, FilesAre
<1>3. /\ file' \in [Files -> SUBSET Tasks] /\ file'[f] = {t}
      /\ \A g \in Files : g # f => file'[g] = file[g]
  BY <1>1, <1>2 DEF NodesInv, TypeOK
<1>4. PcInv' /\ \A x \in Tasks : PlaceInv(x)'
  BY <1>1, StatesStay
<1>5. TypeOK'
  <2>1. wrote' \subseteq Tasks
    BY <1>1 DEF NodesInv, TypeOK
  <2> QED BY <1>1, <1>3, <2>1 DEF NodesInv, TypeOK, runVars
<1>6. ASSUME NEW x \in Tasks
      PROVE  TaskInv(x)'
  <2>1. TaskInv(x)
    BY DEF NodesInv
  <2>2. x \in wrote' => x \in wrote \/ x = t
    BY <1>1
  <2>3. x[2] > 0 => /\ x \in Files
                    /\ x # f => file'[x] = file[x]
                    /\ x = f => file'[x] = {x} /\ state[x] # "ok"
    <3>1. TaskInv(t)
      BY DEF NodesInv
    <3>2. state[t] # "ok"
      BY <1>1, <3>1 DEF TaskInv
    <3> QED BY <1>2, <1>3, <3>2, FilesAre
  <2> QED BY <1>1, <2>1, <2>2, <2>3 DEF TaskInv
<1>7. ASSUME NEW n \in Nodes
      PROVE  OwnInv(n)'
  <2> DEFINE o == OwnTask(n)
  <2>1. o \in Tasks /\ o[1] = n /\ o[2] = 0 /\ n \in Nat /\ NodeFile(n) \in Files
    <3>1. o \in Tasks /\ o[1] = n /\ o[2] = 0 /\ n \in Nat
      BY NumbersOf
    <3> QED BY <3>1, FilesAre
  <2>2. CASE t = o
    <3>1. f = NodeFile(n) /\ state[o] # "ok"
      <4>1. TaskInv(o)
        BY <2>1 DEF NodesInv
      <4> QED BY <1>1, <1>2, <2>1, <2>2, <4>1 DEF TaskInv
    <3>2. file'[NodeFile(n)] = {o}
      BY <1>3, <2>2, <3>1
    <3>3. state' = state
      BY <1>1
    <3> QED BY <3>1, <3>2, <3>3 DEF OwnInv
  <2>3. CASE t # o /\ (state[o] \in Following => NodeFile(n) # f)
    <3>1. o \in wrote' => o \in wrote
      BY <1>1, <2>3
    <3>2. state[o] \in Following => file'[NodeFile(n)] = file[NodeFile(n)]
      BY <1>3, <2>1, <2>3
    <3>3. state' = state /\ text' = text
      BY <1>1
    <3> HIDE DEF o
    <3> QED BY <3>1, <3>2, <3>3, OwnStays DEF o
  <2>4. CASE t # o /\ state[o] \in Following /\ f = NodeFile(n)
    <3>1. o[1] = node /\ pc = "single"
      BY <2>1, <2>4, WhereItIs
    <3>2. TaskInv(t) /\ PlaceInv(t)
      BY DEF NodesInv
    <3>3. state[t] \notin {"none", "waiting", "starting", "ok"}
      BY <1>1, <3>2 DEF TaskInv
    <3>4. t[1] \in Nat /\ t[2] \in Nat /\ t[1] \in Nodes /\ node \in Nat
      BY <2>1, <3>1, TaskIs
    <3>5. t[1] < node
      <4>1. CASE t[1] > node
        BY <3>2, <3>3, <4>1 DEF PlaceInv
      <4>2. CASE t[1] = node
        <5>1. t[2] = 0
          BY <3>1, <3>2, <3>3, <3>4, <4>2 DEF PlaceInv
        <5>2. t = OwnTask(n)
          BY <1>2, <2>1, <3>1, <4>2, <5>1
        <5> QED BY <2>4, <5>2
      <4> QED BY <3>4, <4>1, <4>2
    <3>6. state[t] = "failed" /\ t[2] # 0
      BY <3>2, <3>3, <3>5 DEF PlaceInv, Ended
    <3>7. t \in SubTasks(t[1]) /\ t[1] \in 1 .. n - 1
      <4>1. t[2] > 0
        BY <3>4, <3>6
      <4>2. t[1] >= 1
        BY <3>4, NumbersOf
      <4> QED BY <2>1, <3>1, <3>4, <3>5, <4>1, <4>2, SubTaskIs
    <3>8. EarlierFailed(n)'
      BY <1>1, <3>6, <3>7 DEF EarlierFailed
    <3> QED BY <3>8 DEF OwnInv
  <2> QED BY <2>2, <2>3, <2>4
<1> QED BY <1>4, <1>5, <1>6, <1>7 DEF NodesInv

\* The stream gets something to receive from an automaton that has ended, or is lost.
LEMMA StreamMoves ==
    ASSUME NodesInv, NEW t \in Tasks, UNCHANGED <<runVars, state, text, file, wrote>>,
           automaton' \in [Tasks -> {"none", "running", "ended"}],
           stream' \in [Tasks -> {"none", "open", "completed", "failed", "lost"}],
           \A x \in Tasks : x # t => automaton'[x] = automaton[x] /\ stream'[x] = stream[x],
           automaton[t] # "none" /\ automaton'[t] # "none",
           automaton[t] = "ended" => automaton'[t] = "ended",
           stream'[t] \in {"completed", "failed"} => automaton'[t] = "ended"
    PROVE  NodesInv'
<1>1. PcInv' /\ \A x \in Tasks : PlaceInv(x)'
  BY StatesStay
<1>2. TypeOK'
  BY DEF NodesInv, TypeOK, runVars
<1>3. ASSUME NEW x \in Tasks
      PROVE  TaskInv(x)'
  <2>1. CASE x = t
    BY <2>1 DEF NodesInv, TaskInv
  <2>2. CASE x # t
    BY <2>2 DEF NodesInv, TaskInv
  <2> QED BY <2>1, <2>2
<1>4. ASSUME NEW n \in Nodes
      PROVE  OwnInv(n)'
  BY OwnStays
<1> QED BY <1>1, <1>2, <1>3, <1>4 DEF NodesInv

LEMMA EndAutomatonKeeps ==
    ASSUME NodesInv, NEW t \in Tasks, EndAutomaton(t)
    PROVE  NodesInv'
<1>1. /\ automaton[t] = "running" /\ automaton' = [automaton EXCEPT ![t] = "ended"]
      /\ UNCHANGED <<runVars, state, text, file, wrote>>
      /\ UNCHANGED stream \/ \E e \in {"completed", "failed"} : stream' = [stream EXCEPT ![t] = e]
  BY DEF EndAutomaton
<1>2. /\ automaton' \in [Tasks -> {"none", "running", "ended"}] /\ automaton'[t] = "ended"
      /\ \A x \in Tasks : x # t => automaton'[x] = automaton[x]
  BY <1>1 DEF NodesInv, TypeOK
<1>3. /\ stream' \in [Tasks -> {"none", "open", "completed", "failed", "lost"}]
      /\ \A x \in Tasks : x # t => stream'[x] = stream[x]
  BY <1>1 DEF NodesInv, TypeOK
<1> QED BY <1>1, <1>2, <1>3, StreamMoves

LEMMA LoseStreamKeeps ==
    ASSUME NodesInv, NEW t \in Tasks, LoseStream(t)
    PROVE  NodesInv'
<1>1. /\ stream[t] = "open" /\ state[t] = "following"
      /\ stream' = [stream EXCEPT ![t] = "lost"]
      /\ UNCHANGED <<runVars, state, text, automaton, file, wrote>>
  BY DEF LoseStream
<1>2. /\ stream' \in [Tasks -> {"none", "open", "completed", "failed", "lost"}]
      /\ stream'[t] = "lost" /\ \A x \in Tasks : x # t => stream'[x] = stream[x]
  BY <1>1 DEF NodesInv, TypeOK
<1>3. PcInv' /\ \A x \in Tasks : PlaceInv(x)'
  BY <1>1, StatesStay
<1>4. TypeOK'
  BY <1>1, <1>2 DEF NodesInv, TypeOK, runVars
<1>5. ASSUME NEW x \in Tasks
      PROVE  TaskInv(x)'
  BY <1>1, <1>2 DEF NodesInv, TaskInv
<1>6. ASSUME NEW n \in Nodes
      PROVE  OwnInv(n)'
  BY <1>1, OwnStays
<1> QED BY <1>3, <1>4, <1>5, <1>6 DEF NodesInv

LEMMA CollectKeeps ==
    ASSUME NodesInv, NEW t \in Tasks, Collect(t)
    PROVE  NodesInv'
<1>1. state[t] = "following" /\ UNCHANGED <<runVars, automaton, stream, file, wrote>>
  BY DEF Collect
<1>2. CASE /\ stream[t] = "completed" /\ state' = [state EXCEPT ![t] = "reading"]
           /\ UNCHANGED text
  <2>1. /\ PcInv' /\ \A x \in Tasks : PlaceInv(x)'
        /\ state'[t] = "reading" /\ \A x \in Tasks : x # t => state'[x] = state[x]
        /\ state' \in [Tasks -> {"none", "waiting"} \cup Following \cup Ended]
        /\ \A x \in Tasks : state[x] = "failed" => state'[x] = "failed"
    BY <1>1, <1>2, TaskMoves DEF Following
  <2>2. TypeOK'
    BY <1>1, <1>2, <2>1 DEF NodesInv, TypeOK, runVars
  <2>3. ASSUME NEW x \in Tasks
        PROVE  TaskInv(x)'
    BY <1>1, <1>2, <2>1 DEF NodesInv, TaskInv
  <2>4. ASSUME NEW n \in Nodes
        PROVE  OwnInv(n)'
    <3>1. OwnTask(n) \in Tasks
      BY NumbersOf
    <3>2. state[t] \in Following
      BY <1>1 DEF Following
    <3> QED BY <1>1, <1>2, <2>1, <3>1, <3>2, OwnStays
  <2> QED BY <2>1, <2>2, <2>3, <2>4 DEF NodesInv
<1>3. CASE Fail(t)
  BY <1>1, <1>3, FailKeeps DEF Following
<1> QED BY <1>2, <1>3 DEF Collect

\* The output is read: of a file of its own that a sub-task has written, and of the
\* node's file by a node's task.
LEMMA ReadOutputKeeps ==
    ASSUME NodesInv, NEW t \in Tasks, ReadOutput(t)
    PROVE  NodesInv'
<1>1. state[t] = "reading" /\ UNCHANGED <<runVars, automaton, stream, file, wrote>>
  BY DEF ReadOutput
<1>2. PICK streamed \in {{}, {t}} :
          LET words == OutputOf(t, streamed)
          IN  IF words = {} /\ t[2] = 0 THEN Fail(t) ELSE EndWith(t, "ok", words)
  BY DEF ReadOutput
<1> DEFINE words == OutputOf(t, streamed)
<1>3. CASE Fail(t)
  BY <1>1, <1>3, FailKeeps DEF Following
<1>4. CASE EndWith(t, "ok", words)
  <2>1. state' = [state EXCEPT ![t] = "ok"] /\ text' = [text EXCEPT ![t] = words]
    BY <1>4 DEF EndWith
  <2>2. /\ words \subseteq Tasks
        /\ file[ExpectedFile(t)] # {} => words = file[ExpectedFile(t)]
    <3>1. /\ ExpectedFile(t) \in Files
          /\ file \in [Files -> SUBSET Tasks]
      BY FilesAre DEF NodesInv, TypeOK
    <3>2. FindWorkspaceOutput \subseteq Tasks
      BY <3>1 DEF FindWorkspaceOutput
    <3>3. file[ExpectedFile(t)] \subseteq Tasks /\ streamed \subseteq Tasks
      BY <3>1
    <3> QED BY <3>2, <3>3 DEF OutputOf
  <2> HIDE DEF words
  <2>3. /\ PcInv' /\ \A x \in Tasks : PlaceInv(x)'
        /\ state'[t] = "ok" /\ \A x \in Tasks : x # t => state'[x] = state[x]
        /\ state' \in [Tasks -> {"none", "waiting"} \cup Following \cup Ended]
        /\ \A x \in Tasks : state[x] = "failed" => state'[x] = "failed"
    BY <1>1, <2>1, TaskMoves DEF Following, Ended
  <2>4. /\ text' \in [Tasks -> SUBSET Tasks] /\ text'[t] = words
        /\ \A x \in Tasks : x # t => text'[x] = text[x]
    BY <2>1, <2>2 DEF NodesInv, TypeOK
  <2>5. TypeOK'
    BY <1>1, <2>3, <2>4 DEF NodesInv, TypeOK, runVars
  <2>6. ASSUME NEW x \in Tasks
        PROVE  TaskInv(x)'
    <3>1. CASE x # t
      BY <1>1, <2>3, <2>4, <3>1 DEF NodesInv, TaskInv
    <3>2. CASE x = t
      <4>1. TaskInv(t)
        BY DEF NodesInv
      <4>2. t[2] > 0 => ExpectedFile(t) = t
        BY FilesAre
      <4> QED BY <1>1, <2>2, <2>3, <2>4, <3>2, <4>1, <4>2 DEF TaskInv
    <3> QED BY <3>1, <3>2
  <2>7. ASSUME NEW n \in Nodes
        PROVE  OwnInv(n)'
    <3>1. OwnTask(n) \in Tasks /\ OwnTask(n)[1] = n /\ OwnTask(n)[2] = 0
      BY NumbersOf
    <3>2. CASE OwnTask(n) # t
      BY <1>1, <2>3, <2>4, <3>1, <3>2, OwnStays
    <3>3. CASE OwnTask(n) = t
      <4>1. ExpectedFile(t) = NodeFile(n)
        BY <3>1, <3>3, FilesAre
      <4>2. OwnInv(n) /\ state[t] \in Following
        BY <1>1 DEF NodesInv, Following
      <4>3. CASE EarlierFailed(n)
        <5>0. PICK m \in 1 .. n - 1 : \E x \in SubTasks(m) : state[x] = "failed"
          BY <4>3 DEF EarlierFailed
        <5>1. PICK x \in SubTasks(m) : state[x] = "failed"
          BY <5>0
        <5>2. x \in Tasks
          <6>1. m \in Nodes
            BY NumbersOf, NodeAssumption DEF Nodes, NodeAssumption
          <6> QED BY <6>1, SubTaskIs
        <5>3. EarlierFailed(n)'
          BY <2>3, <5>1, <5>2 DEF EarlierFailed
        <5> QED BY <5>3 DEF OwnInv
      <4>4. CASE t \in wrote /\ file[NodeFile(n)] = {t}
        <5>1. words = {t}
          BY <2>2, <4>1, <4>4
        <5> QED BY <2>3, <2>4, <3>3, <5>1 DEF OwnInv, Following
      <4>5. CASE t \notin wrote
        BY <1>1, <3>3, <4>5 DEF OwnInv
      <4> QED BY <3>3, <4>2, <4>3, <4>4, <4>5 DEF OwnInv
    <3> QED BY <3>2, <3>3
  <2> QED BY <2>3, <2>5, <2>6, <2>7 DEF NodesInv
<1> QED BY <1>2, <1>3, <1>4

----------------------------------------------------------------------------
(* The steps of the run.                                                   *)

\* The run stops, or goes on with the tasks as they are.
LEMMA RunStops ==
    ASSUME NodesInv, NEW p \in {"failed", "dropped", "panicked"}, pc' = p, pc # "single",
           UNCHANGED <<node, parts, made, output, state, text, automaton, stream, file, wrote>>
    PROVE  NodesInv'
<1>1. TypeOK'
  BY DEF NodesInv, TypeOK
<1>2. PcInv'
  BY DEF NodesInv, PcInv
<1>3. \A t \in Tasks : TaskInv(t)'
  BY DEF NodesInv, TaskInv
<1>4. \A t \in Tasks : PlaceInv(t)'
  BY DEF NodesInv, PlaceInv
<1>5. \A n \in Nodes : OwnInv(n)'
  BY OwnStays
<1> QED BY <1>1, <1>2, <1>3, <1>4, <1>5 DEF NodesInv

\* The run stops, or is dropped, with its task.
LEMMA RunStopsWithTask ==
    ASSUME NodesInv, NEW p \in {"failed", "dropped"}, pc' = p, pc = "single",
           state' = [state EXCEPT ![OwnTask(node)] = "failed"],
           UNCHANGED <<node, parts, made, output, text, automaton, stream, file, wrote>>
    PROVE  NodesInv'
<1> DEFINE o == OwnTask(node)
<1>1. node \in Nodes /\ made = 0 /\ PcInv
  BY DEF NodesInv, PcInv
<1>2. o \in Tasks /\ o[1] = node /\ o[2] = 0 /\ node \in Nat
  BY <1>1, NumbersOf
<1>3. /\ state'[o] = "failed" /\ \A x \in Tasks : x # o => state'[x] = state[x]
      /\ state' \in [Tasks -> {"none", "waiting"} \cup Following \cup Ended]
  BY <1>2 DEF NodesInv, TypeOK, Ended
<1> HIDE DEF o
<1>4. TypeOK'
  BY <1>3 DEF NodesInv, TypeOK
<1>5. PcInv'
  BY <1>1 DEF PcInv
<1>6. \A t \in Tasks : TaskInv(t)'
  BY <1>3 DEF NodesInv, TaskInv
<1>7. ASSUME NEW t \in Tasks
      PROVE  PlaceInv(t)'
  <2>1. t[1] \in Nat /\ t[2] \in Nat /\ PlaceInv(t)
    BY TaskIs DEF NodesInv
  <2>2. CASE t = o
    BY <1>2, <1>3, <2>2 DEF PlaceInv
  <2>3. CASE t # o
    <3>1. t[1] = node /\ t[2] = 0 => t = o
      <4>1. t[1] = node /\ t[2] = 0 => t = <<node, 0>>
        BY TaskIs
      <4> QED BY <4>1 DEF o, OwnTask
    <3> QED BY <1>3, <2>1, <2>3, <3>1 DEF PlaceInv
  <2> QED BY <2>2, <2>3
<1>8. ASSUME NEW n \in Nodes
      PROVE  OwnInv(n)'
  <2>1. OwnTask(n) \in Tasks /\ "failed" # "ok" /\ "failed" \notin Following
    BY NumbersOf DEF Following
  <2> QED BY <1>3, <2>1, OwnStays
<1> QED BY <1>4, <1>5, <1>6, <1>7, <1>8 DEF NodesInv

\* A task of the node comes into being.
LEMMA TaskBegins ==
    ASSUME NodesInv, NEW t \in Tasks, t[1] = node, state[t] = "none",
           NEW s \in {"waiting", "starting"}, state' = [state EXCEPT ![t] = s],
           UNCHANGED <<node, output, text, automaton, stream, file, wrote>>
    PROVE  /\ state'[t] = s /\ \A x \in Tasks : x # t => state'[x] = state[x]
           /\ state' \in [Tasks -> {"none", "waiting"} \cup Following \cup Ended]
           /\ \A x \in Tasks : TaskInv(x)'
           /\ \A n \in Nodes : OwnInv(n)'
<1>1. /\ state'[t] = s /\ \A x \in Tasks : x # t => state'[x] = state[x]
      /\ state' \in [Tasks -> {"none", "waiting"} \cup Following \cup Ended]
  BY DEF NodesInv, TypeOK, Following
<1>2. ASSUME NEW x \in Tasks
      PROVE  TaskInv(x)'
  BY <1>1 DEF NodesInv, TaskInv
<1>3. ASSUME NEW n \in Nodes
      PROVE  OwnInv(n)'
  <2>1. t \notin wrote
    BY DEF NodesInv, TaskInv
  <2>2. OwnTask(n) \in Tasks
    BY NumbersOf
  <2>3. CASE OwnTask(n) = t
    BY <2>1, <2>3 DEF OwnInv
  <2>4. CASE OwnTask(n) # t
    BY <1>1, <2>2, <2>4, OwnStays
  <2> QED BY <2>3, <2>4
<1> QED BY <1>1, <1>2, <1>3

LEMMA PlanSingleKeeps ==
    ASSUME NodesInv, PlanSingle
    PROVE  NodesInv'
<1> DEFINE o == OwnTask(node)
<1>1. /\ pc = "ready" /\ node \in Nodes /\ pc' = "single" /\ parts' = 1
      /\ state' = [state EXCEPT ![o] = "starting"]
      /\ UNCHANGED <<node, made, output, text, automaton, stream, file, wrote>>
  BY DEF PlanSingle
<1>2. o \in Tasks /\ o[1] = node /\ o[2] = 0 /\ node \in Nat
  BY <1>1, NumbersOf
<1>3. made = 0 /\ state[o] = "none"
  BY <1>1, <1>2 DEF NodesInv, PcInv, PlaceInv
<1> HIDE DEF o
<1>4. /\ state'[o] = "starting" /\ \A x \in Tasks : x # o => state'[x] = state[x]
      /\ state' \in [Tasks -> {"none", "waiting"} \cup Following \cup Ended]
      /\ \A x \in Tasks : TaskInv(x)'
      /\ \A n \in Nodes : OwnInv(n)'
  BY <1>1, <1>2, <1>3, TaskBegins
<1>5. TypeOK'
  BY <1>1, <1>3, <1>4 DEF NodesInv, TypeOK
<1>6. PcInv'
  BY <1>1, <1>3 DEF NodesInv, PcInv
<1>7. ASSUME NEW t \in Tasks
      PROVE  PlaceInv(t)'
  <2>1. CASE t = o
    BY <1>1, <1>2, <2>1 DEF PlaceInv
  <2>2. CASE t # o
    BY <1>1, <1>4, <2>2 DEF NodesInv, PlaceInv
  <2> QED BY <2>1, <2>2
<1> QED BY <1>4, <1>5, <1>6, <1>7 DEF NodesInv

LEMMA PlanSplitKeeps ==
    ASSUME NodesInv, PlanSplit
    PROVE  NodesInv'
<1>1. /\ pc = "ready" /\ node \in Nodes /\ pc' = "creating" /\ made' = 0
      /\ parts' \in 2 .. MaxParts[node]
      /\ UNCHANGED <<node, output, state, text, automaton, stream, file, wrote>>
  BY DEF PlanSplit
<1>2. node \in Nat /\ MaxParts[node] \in Nat
  BY <1>1, NumbersOf
<1>3. parts' \in Nat /\ parts' <= MaxParts[node] /\ made' \in 0 .. parts'
  BY <1>1, <1>2
<1>4. TypeOK'
  BY <1>1, <1>3 DEF NodesInv, TypeOK
<1>5. PcInv'
  <2>1. output[node] = <<>> /\ \A n \in Nodes : n > node => output[n] = <<>>
    BY <1>1 DEF NodesInv, PcInv
  <2>2. Len(output[node]) = 0
    BY <2>1
  <2>3. \A n \in Nodes : n > node' \/ (n = node' /\ pc' = "ready") => output'[n] = <<>>
    BY <1>1, <2>1
  <2>4. Len(output'[node']) <= made' /\ 1 .. Len(output'[node']) = {}
    BY <1>1, <2>2
  <2> QED BY <1>1, <1>3, <2>3, <2>4 DEF PcInv
<1>6. \A t \in Tasks : TaskInv(t)'
  BY <1>1 DEF NodesInv, TaskInv
<1>7. \A t \in Tasks : PlaceInv(t)'
  BY <1>1 DEF NodesInv, PlaceInv
<1>8. \A n \in Nodes : OwnInv(n)'
  BY <1>1, OwnStays
<1> QED BY <1>4, <1>5, <1>6, <1>7, <1>8 DEF NodesInv

LEMMA CreateSubTaskKeeps ==
    ASSUME NodesInv, CreateSubTask
    PROVE  NodesInv'
<1> DEFINE t == <<node, made + 1>>
<1>1. /\ pc = "creating" /\ made < parts /\ made' = made + 1
      /\ state' = [state EXCEPT ![t] = "waiting"]
      /\ UNCHANGED <<node, pc, parts, output, text, automaton, stream, file, wrote>>
  BY DEF CreateSubTask
<1>2. /\ node \in Nodes /\ parts \in Nat /\ made \in Nat /\ parts <= MaxParts[node]
      /\ MaxParts[node] \in Nat /\ node \in Nat
  <2>1. node \in Nodes /\ parts \in Nat /\ made \in 0 .. parts /\ parts <= MaxParts[node]
    BY <1>1 DEF NodesInv, PcInv, TypeOK
  <2> QED BY <2>1, NumbersOf
<1>3. t \in Tasks /\ t[1] = node /\ t[2] = made + 1
  <2>1. made + 1 \in 0 .. MaxParts[node]
    BY <1>1, <1>2
  <2> QED BY <1>2, <2>1, TaskOf
<1> HIDE DEF t
<1>4. state[t] = "none"
  BY <1>1, <1>2, <1>3 DEF NodesInv, PlaceInv
<1>5. /\ state'[t] = "waiting" /\ \A x \in Tasks : x # t => state'[x] = state[x]
      /\ state' \in [Tasks -> {"none", "waiting"} \cup Following \cup Ended]
      /\ \A x \in Tasks : TaskInv(x)'
      /\ \A n \in Nodes : OwnInv(n)'
  BY <1>1, <1>3, <1>4, TaskBegins
<1>6. TypeOK'
  BY <1>1, <1>2, <1>5 DEF NodesInv, TypeOK
<1>7. PcInv'
  <2>1. PcInv /\ output[node] \in Seq(SUBSET Tasks)
    BY <1>2 DEF NodesInv, TypeOK
  <2>2. Len(output[node]) <= made /\ Len(output[node]) \in Nat
    BY <1>1, <2>1 DEF PcInv
  <2>3. ASSUME NEW i \in 1 .. Len(output[node])
        PROVE  state'[<<node, i>>] \in Ended
    <3>1. i \in 0 .. MaxParts[node] /\ i # made + 1
      BY <1>1, <1>2, <2>2
    <3>2. <<node, i>> \in Tasks /\ <<node, i>> # t
      BY <1>2, <3>1, TaskOf DEF t
    <3> QED BY <1>1, <1>5, <2>1, <3>2 DEF PcInv
  <2>4. Len(output[node]) <= made + 1
    BY <1>2, <2>2
  <2> QED BY <1>1, <2>1, <2>3, <2>4 DEF PcInv
<1>8. ASSUME NEW x \in Tasks
      PROVE  PlaceInv(x)'
  <2>1. x[1] \in Nat /\ x[2] \in Nat /\ PlaceInv(x)
    BY TaskIs DEF NodesInv
  <2>2. CASE x = t
    BY <1>1, <1>2, <1>3, <2>2 DEF PlaceInv
  <2>3. CASE x # t
    <3>1. x[2] > made + 1 => x[2] > made
      BY <1>2, <2>1
    <3> QED BY <1>1, <1>5, <2>1, <2>3, <3>1 DEF PlaceInv
  <2> QED BY <2>2, <2>3
<1> QED BY <1>5, <1>6, <1>7, <1>8 DEF NodesInv

LEMMA JoinKeeps ==
    ASSUME NodesInv, Join
    PROVE  NodesInv'
<1>1. PICK i \in 1 .. parts : i = Len(output[node]) + 1 /\ JoinNext(i)
  BY DEF Join
<1> DEFINE w == text[<<node, i>>]
<1>2. /\ pc = "creating" /\ made = parts /\ Len(output[node]) < parts
      /\ state[<<node, i>>] \in Ended
      /\ output' = [output EXCEPT ![node] = Append(output[node], w)]
      /\ UNCHANGED <<node, pc, parts, made, state, text, automaton, stream, file, wrote>>
  BY <1>1 DEF JoinNext
<1>3. /\ node \in Nodes /\ parts \in Nat /\ parts <= MaxParts[node]
      /\ output[node] \in Seq(SUBSET Tasks) /\ PcInv
  BY <1>2 DEF NodesInv, PcInv, TypeOK
<1>4. MaxParts[node] \in Nat /\ i \in 0 .. MaxParts[node]
  BY <1>3, NumbersOf
<1>5. w \in SUBSET Tasks
  <2>1. <<node, i>> \in Tasks
    BY <1>3, <1>4, TaskOf
  <2> QED BY <2>1 DEF NodesInv, TypeOK
<1> HIDE DEF w
<1>6. /\ output' \in [Nodes -> Seq(SUBSET Tasks)] /\ Len(output'[node]) = i
      /\ \A n \in Nodes : n # node => output'[n] = output[n]
  BY <1>1, <1>2, <1>3, <1>5 DEF NodesInv, TypeOK
<1>7. TypeOK'
  BY <1>2, <1>6 DEF NodesInv, TypeOK
<1>8. PcInv'
  <2>1. ASSUME NEW k \in 1 .. i
        PROVE  state[<<node, k>>] \in Ended
    <3>1. CASE k = i
      BY <1>2, <3>1
    <3>2. CASE k # i
      <4>1. k \in 1 .. Len(output[node])
        BY <1>1, <1>3, <3>2
      <4> QED BY <1>2, <1>3, <4>1 DEF PcInv
    <3> QED BY <3>1, <3>2
  <2>2. i <= made
    BY <1>2
  <2>3. \A n \in Nodes : n > node => output'[n] = <<>>
    <3>1. node \in Nat /\ \A n \in Nodes : n \in Nat
      BY <1>3, NumbersOf
    <3> QED BY <1>3, <1>6, <3>1 DEF PcInv
  <2> QED BY <1>2, <1>3, <1>6, <2>1, <2>2, <2>3 DEF PcInv
<1>9. \A t \in Tasks : TaskInv(t)'
  BY <1>2 DEF NodesInv, TaskInv
<1>10. \A t \in Tasks : PlaceInv(t)'
  BY <1>2 DEF NodesInv, PlaceInv
<1>11. \A n \in Nodes : OwnInv(n)'
  BY <1>2, OwnStays
<1> QED BY <1>7, <1>8, <1>9, <1>10, <1>11 DEF NodesInv

LEMMA MergeKeeps ==
    ASSUME NodesInv, Merge
    PROVE  NodesInv'
<1>1. /\ pc = "creating" /\ made = parts /\ Len(output[node]) = parts
      /\ node' = node + 1 /\ pc' = "ready" /\ parts' = 0 /\ made' = 0
      /\ UNCHANGED <<output, state, text, automaton, stream, wrote>>
      /\ \/ file' = [file EXCEPT ![NodeFile(node)] = UnionOf(output[node])]
         \/ UNCHANGED file
  BY DEF Merge
<1>2. /\ node \in Nodes /\ parts \in Nat /\ PcInv /\ output[node] \in Seq(SUBSET Tasks)
      /\ file \in [Files -> SUBSET Tasks]
  BY <1>1 DEF NodesInv, PcInv, TypeOK
<1>3. node \in Nat /\ node + 1 \in 1 .. LastNode + 1 /\ NodeFile(node) \in Files
  <2>1. NodeFile(node) \in Files
    BY <1>2 DEF Files
  <2> QED BY <1>2, <2>1, NodeAssumption DEF Nodes, NodeAssumption
<1>4. /\ file' \in [Files -> SUBSET Tasks]
      /\ \A t \in Tasks : t[2] > 0 => file'[t] = file[t]
  <2>1. UnionOf(output[node]) \subseteq Tasks
    BY <1>2 DEF UnionOf
  <2>2. \A t \in Tasks : t[2] > 0 => t \in Files /\ t # NodeFile(node)
    BY FilesAre
  <2> DEFINE u == UnionOf(output[node])
  <2>3. UNCHANGED file \/ file' = [file EXCEPT ![NodeFile(node)] = u]
    BY <1>1
  <2> HIDE DEF u
  <2>4. u \in SUBSET Tasks
    BY <2>1 DEF u
  <2> QED BY <1>2, <1>3, <2>2, <2>3, <2>4
<1>5. TypeOK'
  BY <1>1, <1>3, <1>4 DEF NodesInv, TypeOK
<1>6. PcInv'
  <2>1. \A n \in Nodes : n \in Nat /\ (n > node + 1 \/ n = node + 1 => n > node)
    BY <1>3, NumbersOf
  <2> QED BY <1>1, <1>2, <2>1 DEF PcInv
<1>7. \A t \in Tasks : TaskInv(t)'
  BY <1>1, <1>4 DEF NodesInv, TaskInv
<1>8. ASSUME NEW t \in Tasks
      PROVE  PlaceInv(t)'
  <2>1. t[1] \in Nat /\ t[2] \in Nat /\ PlaceInv(t) /\ t = <<t[1], t[2]>>
    BY TaskIs DEF NodesInv
  <2>2. t[1] = node => state[t] \in Ended \cup {"none"}
    <3>1. CASE t[2] > made
      BY <1>1, <2>1, <3>1 DEF PlaceInv
    <3>2. CASE t[2] = 0
      BY <1>1, <2>1, <3>2 DEF PlaceInv, Ended
    <3>3. CASE t[2] # 0 /\ ~(t[2] > made)
      <4>1. t[2] \in 1 .. Len(output[node])
        BY <1>1, <1>2, <2>1, <3>3
      <4> QED BY <1>1, <1>2, <2>1, <4>1 DEF PcInv
    <3> QED BY <3>1, <3>2, <3>3
  <2>3. t[1] = node /\ t[2] = 0 => state[t] # "failed"
    BY <1>1, <2>1 DEF PlaceInv
  <2> QED BY <1>1, <1>3, <2>1, <2>2, <2>3 DEF PlaceInv
<1>9. ASSUME NEW n \in Nodes
      PROVE  OwnInv(n)'
  <2>1. OwnTask(n) \in Tasks /\ OwnTask(n)[1] = n /\ OwnTask(n)[2] = 0
    BY NumbersOf
  <2>2. state[OwnTask(n)] \notin Following
    BY <1>1, <2>1, WhereItIs
  <2> QED BY <1>1, <2>2, OwnStays
<1> QED BY <1>5, <1>6, <1>7, <1>8, <1>9 DEF NodesInv

LEMMA FinishSingleKeeps ==
    ASSUME NodesInv, FinishSingle
    PROVE  NodesInv'
<1> DEFINE o == OwnTask(node)
           w == text[o]
<1>1. /\ pc = "single" /\ state[o] = "ok" /\ output' = [output EXCEPT ![node] = <<w>>]
      /\ node' = node + 1 /\ pc' = "ready" /\ parts' = 0
      /\ UNCHANGED <<made, state, text, automaton, stream, file, wrote>>
  BY DEF FinishSingle
<1>2. node \in Nodes /\ made = 0 /\ PcInv
  BY <1>1 DEF NodesInv, PcInv
<1>3. /\ node \in Nat /\ node + 1 \in 1 .. LastNode + 1
      /\ o \in Tasks /\ o[1] = node /\ o[2] = 0
  <2>1. o \in Tasks /\ o[1] = node /\ o[2] = 0
    BY <1>2, NumbersOf
  <2> QED BY <1>2, <2>1, NodeAssumption DEF Nodes, NodeAssumption
<1>4. w \in SUBSET Tasks
  BY <1>3 DEF NodesInv, TypeOK
<1>5. \A t \in Tasks : t[1] = node /\ t[2] = 0 => t = o
  <2>1. \A t \in Tasks : t[1] = node /\ t[2] = 0 => t = <<node, 0>>
    BY TaskIs
  <2> QED BY <2>1 DEF OwnTask
<1> HIDE DEF o, w
<1>6. /\ output' \in [Nodes -> Seq(SUBSET Tasks)]
      /\ \A n \in Nodes : n # node => output'[n] = output[n]
  BY <1>1, <1>2, <1>4 DEF NodesInv, TypeOK
<1>7. TypeOK'
  BY <1>1, <1>2, <1>3, <1>6 DEF NodesInv, TypeOK
<1>8. PcInv'
  <2>1. \A n \in Nodes : n \in Nat /\ (n > node + 1 \/ n = node + 1 => n > node)
    BY <1>3, NumbersOf
  <2>2. made' = 0 /\ pc' = "ready" /\ node' = node + 1
    BY <1>1, <1>2
  <2>3. \A n \in Nodes : n > node' \/ n = node' => output'[n] = <<>>
    BY <1>2, <1>3, <1>6, <2>1, <2>2 DEF PcInv
  <2> QED BY <2>2, <2>3 DEF PcInv
<1>9. \A t \in Tasks : TaskInv(t)'
  BY <1>1 DEF NodesInv, TaskInv
<1>10. ASSUME NEW t \in Tasks
       PROVE  PlaceInv(t)'
  <2>1. t[1] \in Nat /\ t[2] \in Nat /\ PlaceInv(t)
    BY TaskIs DEF NodesInv
  <2>2. t[1] = node => state[t] \in {"ok", "none"}
    <3>1. CASE t[2] = 0
      BY <1>1, <1>5, <3>1
    <3>2. CASE t[2] # 0
      BY <1>1, <2>1, <3>2 DEF PlaceInv
    <3> QED BY <3>1, <3>2
  <2> QED BY <1>1, <1>3, <2>1, <2>2 DEF PlaceInv, Ended
<1>11. ASSUME NEW n \in Nodes
       PROVE  OwnInv(n)'
  BY <1>1, OwnStays
<1> QED BY <1>7, <1>8, <1>9, <1>10, <1>11 DEF NodesInv

LEMMA FailSingleKeeps ==
    ASSUME NodesInv, FailSingle
    PROVE  NodesInv'
<1>1. /\ pc = "single" /\ pc' = "failed" /\ state[OwnTask(node)] = "failed"
      /\ UNCHANGED <<node, parts, made, output, state, text, automaton, stream, file, wrote>>
  BY DEF FailSingle
<1>2. state' = [state EXCEPT ![OwnTask(node)] = "failed"]
  BY <1>1 DEF NodesInv, TypeOK
<1> QED BY <1>1, <1>2, RunStopsWithTask

LEMMA DropKeeps ==
    ASSUME NodesInv, Drop
    PROVE  NodesInv'
<1>1. /\ pc' = "dropped"
      /\ UNCHANGED <<node, parts, made, output, text, automaton, stream, file, wrote>>
  BY DEF Drop
<1>2. CASE pc = "single"
  <2>1. state' = [state EXCEPT ![OwnTask(node)] = "failed"]
    BY <1>2 DEF Drop
  <2> QED BY <1>1, <1>2, <2>1, RunStopsWithTask
<1>3. CASE pc # "single"
  <2>1. UNCHANGED state
    BY <1>3 DEF Drop
  <2> QED BY <1>1, <1>3, <2>1, RunStops
<1> QED BY <1>2, <1>3

LEMMA TimeOutKeeps ==
    ASSUME NodesInv, NEW t \in Tasks, TimeOut(t)
    PROVE  NodesInv'
<1>1. /\ state[t] = "following" /\ Fail(t)
      /\ UNCHANGED <<runVars, automaton, stream, file, wrote>>
  BY DEF TimeOut
<1> QED BY <1>1, FailKeeps DEF Following

LEMMA NodesStart ==
    ASSUME Init
    PROVE  NodesInv
<1>1. /\ LastNode \in Nat /\ LastNode >= 1 /\ \A n \in Nodes : MaxParts[n] \in Nat
  BY NodeAssumption, NumbersOf DEF NodeAssumption
<1>2. TypeOK
  BY <1>1 DEF Init, TypeOK
<1>3. PcInv
  BY DEF Init, PcInv
<1>4. ASSUME NEW t \in Tasks
      PROVE  TaskInv(t)
  <2>1. t[2] > 0 => t \in Files
    BY FilesAre
  <2> QED BY <2>1 DEF Init, TaskInv
<1>5. ASSUME NEW t \in Tasks
      PROVE  PlaceInv(t)
  BY DEF Init, PlaceInv
<1>6. ASSUME NEW n \in Nodes
      PROVE  OwnInv(n)
  BY DEF Init, OwnInv
<1> QED BY <1>2, <1>3, <1>4, <1>5, <1>6 DEF NodesInv

LEMMA NodeStepKeeps ==
    ASSUME NodesInv, [Next]_vars
    PROVE  NodesInv'
<1>1. CASE PlanSingle
  BY <1>1, PlanSingleKeeps
<1>2. CASE PlanSplit
  BY <1>2, PlanSplitKeeps
<1>3. CASE PlanPanics
  <2>1. pc' = "panicked" /\ pc # "single"
    BY <1>3 DEF PlanPanics
  <2>2. UNCHANGED <<node, parts, made, output, state, text, automaton, stream, file, wrote>>
    BY <1>3 DEF PlanPanics
  <2> QED BY <2>1, <2>2, RunStops
<1>4. CASE CreateSubTask
  BY <1>4, CreateSubTaskKeeps
<1>5. CASE CreateFails
  <2>1. pc' = "failed" /\ pc # "single"
    BY <1>5 DEF CreateFails
  <2>2. UNCHANGED <<node, parts, made, output, state, text, automaton, stream, file, wrote>>
    BY <1>5 DEF CreateFails
  <2> QED BY <2>1, <2>2, RunStops
<1>6. CASE Join
  BY <1>6, JoinKeeps
<1>7. CASE Merge
  BY <1>7, MergeKeeps
<1>8. CASE FinishSingle
  BY <1>8, FinishSingleKeeps
<1>9. CASE FailSingle
  BY <1>9, FailSingleKeeps
<1>10. CASE Drop
  BY <1>10, DropKeeps
<1>11. ASSUME NEW t \in Tasks, FollowerStep(t)
       PROVE  NodesInv'
  BY <1>11, AcquireKeeps, StartAutomatonKeeps, ConnectKeeps, CollectKeeps, TimeOutKeeps,
     ReadOutputKeeps DEF FollowerStep
<1>12. ASSUME NEW t \in Tasks, HarnessStep(t)
       PROVE  NodesInv'
  BY <1>12, WriteFileKeeps, EndAutomatonKeeps, LoseStreamKeeps DEF HarnessStep
<1>13. CASE UNCHANGED vars
  <2>1. UNCHANGED <<node, pc, parts, made, output, state, text, automaton, stream, file, wrote>>
    BY <1>13 DEF vars, runVars
  <2>2. TypeOK' /\ PcInv'
    BY <2>1 DEF NodesInv, TypeOK, PcInv
  <2>3. \A t \in Tasks : TaskInv(t)' /\ PlaceInv(t)'
    BY <2>1 DEF NodesInv, TaskInv, PlaceInv
  <2>4. \A n \in Nodes : OwnInv(n)'
    BY <2>1, OwnStays
  <2> QED BY <2>2, <2>3, <2>4 DEF NodesInv
<1> QED BY <1>1, <1>2, <1>3, <1>4, <1>5, <1>6, <1>7, <1>8, <1>9, <1>10, <1>11, <1>12, <1>13
        DEF Next, NodeStep

\* The place of the run, its tasks, their automata and their files fit together:
\* the parts are inductive together only.
THEOREM NodesInvHolds == Spec => []NodesInv
<1>1. Init => NodesInv
  BY NodesStart
<1>2. NodesInv /\ [Next]_vars => NodesInv'
  BY NodeStepKeeps
<1> QED BY <1>1, <1>2, PTL DEF Spec

\* Every variable of a run of nodes holds values of its type (TypeOK).
THEOREM NodeTypes == Spec => []TypeOK
<1>1. NodesInv => TypeOK
  BY DEF NodesInv
<1> QED BY <1>1, NodesInvHolds, PTL

\* Whatever automata write, however they end and whenever the run stops, an
\* automaton whose output is read has ended.
THEOREM OutputsAreReadAfterTheEnd == Spec => []OutputIsReadAfterTheEnd
<1>1. NodesInv => OutputIsReadAfterTheEnd
  BY DEF NodesInv, TaskInv, OutputIsReadAfterTheEnd
<1> QED BY <1>1, NodesInvHolds, PTL

\* A task that wrote its output file hands on its own words and not those of
\* the other automata that work in the same directory; for a node's own task,
\* unless a sub-task of an earlier node failed.
THEOREM OwnOutputsAreKept == Spec => []OwnOutputIsKept
<1>1. ASSUME NodesInv
      PROVE  OwnOutputIsKept
  <2>1. ASSUME NEW n \in Nodes, NEW t \in SubTasks(n), state[t] = "ok", file[t] # {}
        PROVE  text[t] = {t}
    <3>1. t \in Tasks /\ t[2] > 0
      BY SubTaskIs
    <3> QED BY <1>1, <2>1, <3>1 DEF NodesInv, TaskInv
  <2>2. ASSUME NEW n \in Nodes, state[OwnTask(n)] = "ok", OwnTask(n) \in wrote
        PROVE  \/ text[OwnTask(n)] = {OwnTask(n)}
               \/ \E m \in 1 .. n - 1 : \E t \in SubTasks(m) : state[t] = "failed"
    BY <1>1, <2>2 DEF NodesInv, OwnInv, EarlierFailed
  <2> QED BY <2>1, <2>2 DEF OwnOutputIsKept
<1> QED BY <1>1, NodesInvHolds, PTL

\* What the run waits for is in somebody's hands: the task of a node that was not split,
\* and every sub-task that was created, is followed or over, or waits for a permit; and
\* who follows has a stream, or lost it, so that its end or the deadline is still due.
AwaitedIsAttended ==
    /\ pc = "single" => state[OwnTask(node)] \in Following \cup Ended
    /\ pc = "creating" =>
          \A i \in 1 .. made : state[<<node, i>>] \in {"waiting"} \cup Following \cup Ended
    /\ \A t \in Tasks : state[t] = "following" => stream[t] # "none"

\* A task that is at work never becomes one that was not begun.
LEMMA TaskGoesOn ==
    ASSUME NodesInv, NEW t \in Tasks, FollowerStep(t) \/ HarnessStep(t)
    PROVE  /\ UNCHANGED runVars
           /\ \A u \in Tasks :
                 /\ state[u] \in Following \cup Ended => state'[u] \in Following \cup Ended
                 /\ state[u] = "waiting" => state'[u] \in {"waiting"} \cup Following
                 /\ state'[u] = "following" => \/ state[u] = "following"
                                              \/ stream'[u] # "none"
                 /\ stream[u] # "none" => stream'[u] # "none"
<1> USE DEF NodesInv, TypeOK, Following, Ended
<1>1. CASE Acquire(t) BY <1>1 DEF Acquire
<1>2. CASE StartAutomaton(t) BY <1>2 DEF StartAutomaton, Fail, EndWith
<1>3. CASE Connect(t) BY <1>3 DEF Connect, Fail, EndWith
<1>4. CASE Collect(t) BY <1>4 DEF Collect, Fail, EndWith
<1>5. CASE TimeOut(t) BY <1>5 DEF TimeOut, Fail, EndWith
<1>6. CASE ReadOutput(t)
  <2>1. /\ state[t] = "reading" /\ UNCHANGED <<runVars, stream>>
        /\ \E how \in {"ok", "failed"} : state' = [state EXCEPT ![t] = how]
    BY <1>6 DEF ReadOutput, Fail, EndWith
  <2> QED BY <2>1
<1>7. CASE HarnessStep(t)
  <2>1. UNCHANGED <<runVars, state>> /\ \A u \in Tasks : stream[u] # "none" => stream'[u] # "none"
    BY <1>7 DEF HarnessStep, WriteFile, EndAutomaton, LoseStream
  <2> QED BY <2>1
<1> QED BY <1>1, <1>2, <1>3, <1>4, <1>5, <1>6, <1>7 DEF FollowerStep

LEMMA AttendedStep ==
    ASSUME NodesInv, AwaitedIsAttended, [Next]_vars
    PROVE  AwaitedIsAttended'
<1> USE DEF AwaitedIsAttended
<1>1. ASSUME NEW t \in Tasks, FollowerStep(t) \/ HarnessStep(t)
      PROVE  AwaitedIsAttended'
  <2>1. UNCHANGED <<node, pc, parts, made, output>>
    BY <1>1, TaskGoesOn DEF runVars
  <2>2. pc = "single" => OwnTask(node) \in Tasks
    BY NumbersOf DEF NodesInv, PcInv
  <2>3. pc = "creating" => \A i \in 1 .. made : <<node, i>> \in Tasks
    <3> SUFFICES ASSUME pc = "creating", NEW i \in 1 .. made PROVE <<node, i>> \in Tasks
      OBVIOUS
    <3>1. node \in Nodes /\ made <= parts /\ parts <= MaxParts[node]
          /\ made \in Nat /\ parts \in Nat
      BY DEF NodesInv, PcInv, TypeOK
    <3>2. i \in 0 .. MaxParts[node]
      BY <3>1, NumbersOf
    <3> QED BY <3>1, <3>2, TaskOf
  <2>4. (pc = "single" => state[OwnTask(node)] \in Following \cup Ended)'
    BY <1>1, <2>1, <2>2, TaskGoesOn DEF OwnTask
  <2>5. (pc = "creating" => \A i \in 1 .. made :
             state[<<node, i>>] \in {"waiting"} \cup Following \cup Ended)'
    BY <1>1, <2>1, <2>3, TaskGoesOn
  <2>6. \A u \in Tasks : state'[u] = "following" => stream'[u] # "none"
    BY <1>1, TaskGoesOn
  <2> QED BY <2>4, <2>5, <2>6
<1>2. CASE PlanSingle
  <2>1. OwnTask(node) \in Tasks
    BY <1>2, NumbersOf DEF PlanSingle
  <2> QED BY <1>2, <2>1 DEF PlanSingle, NodesInv, TypeOK, Following, OwnTask
<1>3. CASE PlanSplit
  BY <1>3 DEF PlanSplit
<1>4. CASE CreateSubTask
  <2>1. /\ pc = "creating" /\ pc' = pc /\ made \in Nat /\ made' = made + 1
        /\ state' = [state EXCEPT ![<<node, made + 1>>] = "waiting"]
        /\ node' = node /\ stream' = stream
    BY <1>4 DEF CreateSubTask, NodesInv, TypeOK
  <2>2. <<node, made + 1>> \in Tasks
    <3>1. node \in Nodes /\ made < parts /\ parts <= MaxParts[node]
          /\ made \in Nat /\ parts \in Nat
      BY <1>4 DEF CreateSubTask, NodesInv, PcInv, TypeOK
    <3>2. made + 1 \in 0 .. MaxParts[node]
      BY <3>1, NumbersOf
    <3> QED BY <3>1, <3>2, TaskOf
  <2>3. \A u \in Tasks : state'[u] = IF u = <<node, made + 1>> THEN "waiting" ELSE state[u]
    BY <2>1, <2>2 DEF NodesInv, TypeOK
  <2>4. ASSUME NEW i \in 1 .. made'
        PROVE  state'[<<node, i>>] \in {"waiting"} \cup Following \cup Ended
    <3>1. CASE i = made + 1 BY <2>2, <2>3, <3>1
    <3>2. CASE i \in 1 .. made
      <4>1. state'[<<node, i>>] = state[<<node, i>>]
        BY <2>1, <3>2 DEF NodesInv, TypeOK
      <4> QED BY <2>1, <3>2, <4>1
    <3> QED BY <2>1, <3>1, <3>2
  <2> QED BY <2>1, <2>3, <2>4
<1>5. CASE Join
  BY <1>5 DEF Join, JoinNext
<1>6. CASE Merge \/ FinishSingle \/ FailSingle \/ CreateFails \/ PlanPanics
  BY <1>6 DEF Merge, FinishSingle, FailSingle, CreateFails, PlanPanics
<1>7. CASE Drop
  <2>1. pc' = "dropped" /\ stream' = stream
        /\ \A u \in Tasks : state'[u] \in {state[u], "failed"}
    BY <1>7 DEF Drop, NodesInv, TypeOK
  <2> QED BY <2>1
<1>8. CASE UNCHANGED vars
  BY <1>8 DEF vars, runVars
<1> QED BY <1>1, <1>2, <1>3, <1>4, <1>5, <1>6, <1>7, <1>8 DEF Next, NodeStep

\* The run never waits for a task that nobody was set to do, nor a follower for a stream
\* that was never opened (executor.rs, execute_action_via_automaton): what NodesEnd says
\* of the ends of nodes and sub-tasks rests on this.
THEOREM RunsWaitForTasksAtWork == Spec => []AwaitedIsAttended
<1>1. Init => AwaitedIsAttended
  BY DEF Init, AwaitedIsAttended
<1>2. NodesInv /\ AwaitedIsAttended /\ [Next]_vars => AwaitedIsAttended'
  BY AttendedStep
<1> QED BY <1>1, <1>2, NodesInvHolds, PTL DEF Spec

----------------------------------------------------------------------------
(* The runs of the super agent (SuperAgent).                                 *)

\* Every tool use of ms is answered; m is one of its messages.
Answered(ms) ==
    \A i \in DOMAIN ms :
        ms[i].role = "assistant" /\ ms[i].told /\ ~Misfiled(ms, i) =>
            i < Len(ms) /\ ms[i + 1] = Results(ms[i].by, ms[i].uses)
Holds(ms, m) == \E i \in DOMAIN ms : ms[i] = m

ChatInv(c) ==
    /\ stage[c] = "new" => rounds[c] = 0
    /\ stage[c] = "asking" => rounds[c] < MaxTurns
    /\ truncated[c] <= rounds[c]
    /\ Answered(talk[c])
    /\ c \in alone =>
          /\ stage[c] # "new"
          /\ stage[c] = "asking" =>
                Holds(talk[c], Says(c)) /\ \A d \in Chats : stage[d] = "asking" => d = c
          /\ stage[c] = "ended" =>
                /\ Holds(cache, Says(c))
                /\ \A d \in Chats : stage[d] = "asking" => Holds(talk[d], Says(c))

AgentInv == AgentTypeOK /\ Answered(cache) /\ \A c \in Chats : ChatInv(c)

LEMMA MessageTypes ==
    ASSUME NEW c \in Chats \cup {Storage}
    PROVE  /\ Says(c) \in Messages /\ ~Says(c).told
           /\ Asks(c) \in Messages /\ ~Asks(c).told
           /\ \A uses \in SUBSET (Nat \X Nat) :
                 /\ Results(c, uses) \in Messages /\ ~Results(c, uses).told
                 /\ \A why : /\ Replies(c, uses, why) \in Messages
                             /\ Replies(c, uses, why).role = "assistant"
                             /\ Replies(c, uses, why).by = c
                             /\ Replies(c, uses, why).uses = uses
                             /\ Replies(c, uses, why).told <=> uses # {} /\ why # "none"
<1>1. Says(c) \in Messages /\ ~Says(c).told /\ Asks(c) \in Messages /\ ~Asks(c).told
  <2> DEFINE m == Says(c)
             a == [m EXCEPT !.role = "hint"]
  <2>1. {} \in SUBSET (Nat \X Nat)
    OBVIOUS
  <2>2. m \in Messages /\ m.told = FALSE
    BY <2>1 DEF Says, Messages
  <2>3. Asks(c) = a
    BY DEF Asks
  <2> HIDE DEF m
  <2>4. a \in Messages /\ a.told = FALSE
    BY <2>2 DEF Messages
  <2> QED BY <2>2, <2>3, <2>4 DEF m
<1>2. ASSUME NEW uses \in SUBSET (Nat \X Nat)
      PROVE  Results(c, uses) \in Messages /\ ~Results(c, uses).told
  BY DEF Results, Messages
<1>3. ASSUME NEW uses \in SUBSET (Nat \X Nat), NEW why
      PROVE  /\ Replies(c, uses, why) \in Messages
             /\ Replies(c, uses, why).role = "assistant"
             /\ Replies(c, uses, why).by = c
             /\ Replies(c, uses, why).uses = uses
             /\ Replies(c, uses, why).told <=> uses # {} /\ why # "none"
  <2>1. (uses # {} /\ why # "none") \in BOOLEAN
    OBVIOUS
  <2> QED BY <2>1 DEF Replies, Messages
<1> QED BY <1>1, <1>2, <1>3

\* The ids that a reply's tool uses have.
LEMMA UsesAre ==
    \A k \in Nat, n \in Nat : Uses(k, n) \in SUBSET (Nat \X Nat) /\ (n = 0 => Uses(k, n) = {})
BY DEF Uses

\* More messages without a tool use leave those before as they are.
LEMMA MoreMessages ==
    ASSUME NEW s \in Seq(Messages), NEW b \in Seq(Messages),
           \A i \in 1 .. Len(b) : ~b[i].told
    PROVE  /\ s \o b \in Seq(Messages)
           /\ Answered(s) => Answered(s \o b)
           /\ \A m : Holds(s, m) \/ Holds(b, m) => Holds(s \o b, m)
<1> DEFINE t == s \o b
<1>1. /\ t \in Seq(Messages) /\ Len(t) = Len(s) + Len(b)
      /\ Len(s) \in Nat /\ Len(b) \in Nat
      /\ \A i \in 1 .. Len(s) : t[i] = s[i]
      /\ \A i \in 1 .. Len(b) : t[Len(s) + i] = b[i]
  OBVIOUS
<1>2. /\ DOMAIN t = 1 .. Len(t) /\ DOMAIN s = 1 .. Len(s) /\ DOMAIN b = 1 .. Len(b)
  OBVIOUS
<1> HIDE DEF t
<1>3. ASSUME Answered(s), NEW i \in 1 .. Len(t), t[i].role = "assistant" /\ t[i].told,
             ~Misfiled(t, i)
      PROVE  i < Len(t) /\ t[i + 1] = Results(t[i].by, t[i].uses)
  <2>1. i \in 1 .. Len(s)
    <3> SUFFICES ASSUME i \notin 1 .. Len(s)
                 PROVE  FALSE
      OBVIOUS
    <3> DEFINE j == i - Len(s)
    <3>1. j \in 1 .. Len(b) /\ Len(s) + j = i
      BY <1>1
    <3> QED BY <1>1, <1>3, <3>1
  <2>4. ~Misfiled(s, i)
    BY <1>1, <1>2, <1>3, <2>1 DEF Misfiled
  <2>2. i < Len(s) /\ s[i + 1] = Results(s[i].by, s[i].uses)
    BY <1>1, <1>2, <1>3, <2>1, <2>4 DEF Answered
  <2>3. i + 1 \in 1 .. Len(s)
    BY <1>1, <2>1, <2>2
  <2> QED BY <1>1, <2>1, <2>2, <2>3
<1>4. ASSUME NEW m, Holds(s, m) \/ Holds(b, m)
      PROVE  Holds(t, m)
  <2>1. CASE Holds(s, m)
    <3>1. PICK i \in 1 .. Len(s) : s[i] = m
      BY <1>2, <2>1 DEF Holds
    <3>2. i \in 1 .. Len(t) /\ t[i] = m
      BY <1>1, <3>1
    <3> QED BY <1>2, <3>2 DEF Holds
  <2>2. CASE Holds(b, m)
    <3>1. PICK i \in 1 .. Len(b) : b[i] = m
      BY <1>2, <2>2 DEF Holds
    <3>2. Len(s) + i \in 1 .. Len(t) /\ t[Len(s) + i] = m
      BY <1>1, <3>1
    <3> QED BY <1>2, <3>2 DEF Holds
  <2> QED BY <1>4, <2>1, <2>2
<1>5. Answered(s) => Answered(t)
  BY <1>2, <1>3 DEF Answered
<1> QED BY <1>1, <1>4, <1>5 DEF t

\* A reply with tool uses and their results.
LEMMA ToldAndAnswered ==
    ASSUME NEW s \in Seq(Messages), NEW r \in Messages, Results(r.by, r.uses) \in Messages,
           ~Results(r.by, r.uses).told, Answered(s)
    PROVE  /\ (s \o <<r>>) \o <<Results(r.by, r.uses)>> \in Seq(Messages)
           /\ Answered((s \o <<r>>) \o <<Results(r.by, r.uses)>>)
           /\ \A m : Holds(s, m) => Holds((s \o <<r>>) \o <<Results(r.by, r.uses)>>, m)
<1> DEFINE q == Results(r.by, r.uses)
           t == (s \o <<r>>) \o <<q>>
<1>0. q \in Messages /\ ~q.told
  OBVIOUS
<1> HIDE DEF q
<1>1. /\ t \in Seq(Messages) /\ Len(t) = Len(s) + 2 /\ Len(s) \in Nat
      /\ \A i \in 1 .. Len(s) : t[i] = s[i]
      /\ t[Len(s) + 1] = r /\ t[Len(s) + 2] = q
      /\ DOMAIN t = 1 .. Len(t) /\ DOMAIN s = 1 .. Len(s)
  BY <1>0
<1> HIDE DEF t
<1>2. ASSUME NEW i \in 1 .. Len(t), t[i].role = "assistant" /\ t[i].told, ~Misfiled(t, i)
      PROVE  i < Len(t) /\ t[i + 1] = Results(t[i].by, t[i].uses)
  <2>1. CASE i \in 1 .. Len(s)
    <3>3. ~Misfiled(s, i)
      BY <1>1, <1>2, <2>1 DEF Misfiled
    <3>1. i < Len(s) /\ s[i + 1] = Results(s[i].by, s[i].uses)
      BY <1>1, <1>2, <2>1, <3>3 DEF Answered
    <3>2. i + 1 \in 1 .. Len(s)
      BY <1>1, <2>1, <3>1
    <3> QED BY <1>1, <2>1, <3>1, <3>2
  <2>2. CASE i = Len(s) + 1
    <3>1. i + 1 = Len(s) + 2 /\ i < Len(t)
      BY <1>1, <2>2
    <3> QED BY <1>1, <2>2, <3>1 DEF q
  <2>3. CASE i = Len(s) + 2
    BY <1>0, <1>1, <1>2, <2>3
  <2> QED BY <1>1, <2>1, <2>2, <2>3
<1>3. ASSUME NEW m, Holds(s, m)
      PROVE  Holds(t, m)
  <2>1. PICK i \in 1 .. Len(s) : s[i] = m
    BY <1>1, <1>3 DEF Holds
  <2>2. i \in 1 .. Len(t) /\ t[i] = m
    BY <1>1, <2>1
  <2> QED BY <1>1, <2>2 DEF Holds
<1>4. Answered(t)
  BY <1>1, <1>2 DEF Answered
<1> QED BY <1>1, <1>3, <1>4 DEF t, q

\* What a reply adds to the messages.
LEMMA ReplyAdds ==
    ASSUME AgentInv, NEW c \in Chats, NEW n \in 0 .. MaxTools, NEW why \in Stops,
           why = "end_turn" => n = 0, NEW cuts
    PROVE  LET ms == Heard(c, n, why) \o (IF cuts > 0 THEN Hints(c, n, cuts) ELSE <<>>)
           IN  /\ ms \in Seq(Messages) /\ Answered(ms)
               /\ \A m : Holds(talk[c], m) => Holds(ms, m)
<1> DEFINE s == talk[c]
           uses == Uses(rounds[c] + 1, n)
           r == Replies(c, uses, why)
           q == Results(c, uses)
           h == Heard(c, n, why)
           b == IF cuts > 0 THEN Hints(c, n, cuts) ELSE <<>>
<1>1. s \in Seq(Messages) /\ Answered(s)
  BY DEF AgentInv, AgentTypeOK, ChatInv
<1>2. uses \in SUBSET (Nat \X Nat) /\ (n = 0 => uses = {})
  <2>1. rounds[c] + 1 \in Nat /\ n \in Nat
    BY LoopAssumption DEF AgentInv, AgentTypeOK, LoopAssumption
  <2> QED BY <2>1, UsesAre
<1> HIDE DEF uses
<1>3. /\ r \in Messages /\ q \in Messages /\ ~q.told
      /\ r.by = c /\ r.uses = uses
      /\ r.told <=> uses # {} /\ why # "none"
      /\ Asks(c) \in Messages /\ ~Asks(c).told
  BY <1>2, MessageTypes
<1>4. HasResults(n, why) \/ ~r.told
  <2>1. n = 0 \/ n > 0
    OBVIOUS
  <2> QED BY <1>2, <1>3, <2>1 DEF HasResults, Stops
<1>5. Results(r.by, r.uses) = q
  BY <1>3
<1> HIDE DEF s, r, q
<1>6. h \in Seq(Messages) /\ Answered(h) /\ \A m : Holds(s, m) => Holds(h, m)
  <2>1. CASE HasResults(n, why)
    <3>1. h = (s \o <<r>>) \o <<q>>
      BY <2>1 DEF Heard, s, r, q, uses
    <3> HIDE DEF h
    <3> QED BY <1>1, <1>3, <1>5, <3>1, ToldAndAnswered
  <2>2. CASE ~HasResults(n, why)
    <3>1. h = (s \o <<r>>) \o <<>>
      BY <2>2 DEF Heard, s, r, q, uses
    <3>2. s \o <<r>> \in Seq(Messages) /\ (s \o <<r>>) \o <<>> = s \o <<r>>
      BY <1>1, <1>3
    <3>3. \A i \in 1 .. Len(<<r>>) : ~(<<r>>)[i].told
      BY <1>4, <2>2
    <3>4. <<r>> \in Seq(Messages)
      BY <1>3
    <3> HIDE DEF h
    <3> QED BY <1>1, <3>1, <3>2, <3>3, <3>4, MoreMessages
  <2> QED BY <2>1, <2>2
<1>7. b \in Seq(Messages) /\ \A i \in 1 .. Len(b) : ~b[i].told
  <2> DEFINE x == IF n = 0 THEN <<Asks(c)>> ELSE <<>>
             y == IF cuts >= MaxTruncations THEN <<Asks(c)>> ELSE <<>>
             a == Asks(c)
  <2>1. b = x \o y \/ b = <<>>
    BY DEF Hints
  <2>2. a \in Messages /\ ~a.told
    BY <1>3
  <2> HIDE DEF a
  <2>3. x = <<a>> \/ x = <<>>
    BY DEF a
  <2>4. y = <<a>> \/ y = <<>>
    BY DEF a
  <2> HIDE DEF x, y, b
  <2>5. /\ x \in Seq(Messages) /\ \A i \in 1 .. Len(x) : ~x[i].told
        /\ y \in Seq(Messages) /\ \A i \in 1 .. Len(y) : ~y[i].told
    <3>1. x \in Seq(Messages) /\ \A i \in 1 .. Len(x) : ~x[i].told
      <4>1. CASE x = <<a>>
        BY <2>2, <4>1
      <4>2. CASE x = <<>>
        BY <4>2
      <4> QED BY <2>3, <4>1, <4>2
    <3>2. y \in Seq(Messages) /\ \A i \in 1 .. Len(y) : ~y[i].told
      <4>1. CASE y = <<a>>
        BY <2>2, <4>1
      <4>2. CASE y = <<>>
        BY <4>2
      <4> QED BY <2>4, <4>1, <4>2
    <3> QED BY <3>1, <3>2
  <2>6. x \o y \in Seq(Messages) /\ \A i \in 1 .. Len(x \o y) : ~(x \o y)[i].told
    <3> DEFINE z == x \o y
    <3>1. /\ z \in Seq(Messages) /\ Len(z) = Len(x) + Len(y)
          /\ Len(x) \in Nat /\ Len(y) \in Nat
          /\ \A i \in 1 .. Len(x) : z[i] = x[i]
          /\ \A i \in 1 .. Len(y) : z[Len(x) + i] = y[i]
      BY <2>5
    <3> HIDE DEF z
    <3>2. ASSUME NEW i \in 1 .. Len(z)
          PROVE  ~z[i].told
      <4>1. CASE i \in 1 .. Len(x)
        BY <2>5, <3>1, <4>1
      <4>2. CASE i \notin 1 .. Len(x)
        <5> DEFINE j == i - Len(x)
        <5>1. j \in 1 .. Len(y) /\ Len(x) + j = i
          BY <3>1, <4>2
        <5> QED BY <2>5, <3>1, <5>1
      <4> QED BY <4>1, <4>2
    <3> QED BY <3>1, <3>2 DEF z
  <2>7. CASE b = x \o y
    BY <2>6, <2>7
  <2>8. CASE b = <<>>
    BY <2>8
  <2> QED BY <2>1, <2>7, <2>8
<1> HIDE DEF h, b
<1>8. h \o b \in Seq(Messages) /\ Answered(h \o b) /\ \A m : Holds(s, m) => Holds(h \o b, m)
  BY <1>6, <1>7, MoreMessages
<1> QED BY <1>8 DEF h, b, s

\* The tool uses and results of a stored turn. When no reply used two tools, every
\* use has its own result.
LEMMA StoredUses ==
    ASSUME NEW turn \in Turns, NEW from \in Nat, NEW why
    PROVE  /\ turn \in Seq(1 .. StoredTools) /\ Len(turn) \in Nat
           /\ Used(from, turn) \in SUBSET (Nat \X Nat)
           /\ Filed(from, turn, why) \in SUBSET (Nat \X Nat)
           /\ why # "none" /\ (\A use \in Used(from, turn) : ~(use[2] > 1)) =>
                 Filed(from, turn, why) = Used(from, turn)
<1>1. PICK n \in 1 .. MaxTurns : turn \in [1 .. n -> 1 .. StoredTools]
  BY DEF Turns
<1>2. n \in Nat /\ StoredTools \in Nat
  BY LoopAssumption DEF LoopAssumption
<1>3. turn \in Seq(1 .. StoredTools) /\ Len(turn) = n /\ DOMAIN turn = 1 .. n
  BY <1>1, <1>2
<1>4. \A k \in 1 .. n : turn[k] \in Nat /\ turn[k] > 0 /\ from + k \in Nat
  BY <1>1, <1>2
<1>5. Used(from, turn) \in SUBSET (Nat \X Nat)
  BY <1>3, <1>4, UsesAre DEF Used
<1>6. Filed(from, turn, why) \in SUBSET (Nat \X Nat)
  <2>1. ASSUME NEW k \in 1 .. Len(turn) - 1
        PROVE  k \in 1 .. n
    BY <1>2, <1>3
  <2>2. ASSUME NEW use \in Filed(from, turn, why)
        PROVE  use \in Nat \X Nat
    <3>1. PICK k \in 1 .. n : use = <<from + k, turn[k]>>
      BY <1>3, <2>1 DEF Filed
    <3> QED BY <1>4, <3>1
  <2> QED BY <2>2
<1>7. ASSUME why # "none", \A use \in Used(from, turn) : ~(use[2] > 1)
      PROVE  Filed(from, turn, why) = Used(from, turn)
  <2>1. Filed(from, turn, why) = {<<from + k, turn[k]>> : k \in 1 .. n}
    BY <1>3, <1>7 DEF Filed
  <2>2. Used(from, turn) = UNION {{from + k} \X (1 .. turn[k]) : k \in 1 .. n}
    BY <1>3 DEF Used, Uses
  <2>3. ASSUME NEW k \in 1 .. n
        PROVE  turn[k] = 1 /\ {from + k} \X (1 .. turn[k]) = {<<from + k, turn[k]>>}
    <3>1. <<from + k, turn[k]>> \in Used(from, turn)
      BY <1>4, <2>2
    <3>2. turn[k] = 1
      BY <1>4, <1>7, <3>1
    <3>3. 1 .. 1 = {1}
      OBVIOUS
    <3> QED BY <3>2, <3>3
  <2>4. UNION {{from + k} \X (1 .. turn[k]) : k \in 1 .. n}
            = {<<from + k, turn[k]>> : k \in 1 .. n}
    BY <2>3
  <2> QED BY <2>1, <2>2, <2>4
<1> QED BY <1>2, <1>3, <1>5, <1>6, <1>7

LEMMA Joined ==
    ASSUME NEW x \in Seq(Messages), NEW y \in Seq(Messages)
    PROVE  /\ x \o y \in Seq(Messages) /\ Len(x \o y) = Len(x) + Len(y)
           /\ \A i \in 1 .. Len(x) : (x \o y)[i] = x[i]
           /\ \A i \in 1 .. Len(y) : (x \o y)[Len(x) + i] = y[i]
OBVIOUS

LEMMA StoredReplies ==
    ASSUME NEW uses \in SUBSET (Nat \X Nat), NEW why
    PROVE  /\ Replies(Storage, uses, why) \in Messages
           /\ Replies(Storage, uses, why).role = "assistant"
           /\ Replies(Storage, uses, why).by = Storage
           /\ Replies(Storage, uses, why).uses = uses
           /\ Replies(Storage, uses, why).told <=> uses # {} /\ why # "none"
<1>1. (uses # {} /\ why # "none") \in BOOLEAN
  OBVIOUS
<1> QED BY <1>1 DEF Replies, Messages

\* Of a conversation rebuilt from one turn, whole or broken off, every tool use is
\* answered unless it is misfiled.
LEMMA RebuiltIsAnswered ==
    ASSUME NEW turn \in Turns, NEW why
    PROVE  Rebuilt(turn, why) \in Seq(Messages) /\ Answered(Rebuilt(turn, why))
<1> DEFINE uses == Used(0, turn)
           filed == Filed(0, turn, why)
           a == Says(Storage)
           r == Replies(Storage, uses, why)
           q == Results(Storage, filed)
           t == Rebuilt(turn, why)
<1>1. /\ uses \in SUBSET (Nat \X Nat) /\ filed \in SUBSET (Nat \X Nat)
      /\ why # "none" /\ (\A use \in uses : ~(use[2] > 1)) => filed = uses
  BY StoredUses
<1>2. t = <<a, r>> \o (IF filed = {} THEN <<>> ELSE <<q>>)
  BY DEF Rebuilt
<1> HIDE DEF uses, filed, t
<1>3. /\ a \in Messages /\ ~a.told /\ r \in Messages /\ q \in Messages /\ ~q.told
      /\ r.by = Storage /\ r.uses = uses /\ (r.told <=> uses # {} /\ why # "none")
  <2>1. Storage \in Chats \cup {Storage}
    OBVIOUS
  <2>2. a \in Messages /\ ~a.told
    BY <2>1, MessageTypes
  <2>3. q \in Messages /\ ~q.told
    BY <1>1, <2>1, MessageTypes
  <2>4. /\ r \in Messages /\ r.by = Storage /\ r.uses = uses
        /\ (r.told <=> uses # {} /\ why # "none")
    BY <1>1, StoredReplies
  <2> QED BY <2>2, <2>3, <2>4
<1>4. r.told /\ (\A use \in r.uses : ~(use[2] > 1)) => filed # {} /\ Results(r.by, r.uses) = q
  <2> SUFFICES ASSUME r.told, \A use \in uses : ~(use[2] > 1)
               PROVE  filed # {} /\ Results(Storage, uses) = q
    BY <1>3
  <2>1. uses # {} /\ why # "none"
    BY <1>3
  <2> QED BY <1>1, <2>1
<1> HIDE DEF a, r, q
<1>5. /\ t \in Seq(Messages) /\ DOMAIN t = 1 .. Len(t) /\ Len(t) \in {2, 3}
      /\ t[1] = a /\ t[2] = r
      /\ filed # {} => Len(t) = 3 /\ t[3] = q
      /\ filed = {} => Len(t) = 2
  <2>1. CASE filed = {}
    <3>1. t = <<a, r>>
      BY <1>2, <2>1
    <3> QED BY <1>3, <2>1, <3>1
  <2>2. CASE filed # {}
    <3> DEFINE x == <<a, r>>
               y == <<q>>
    <3>1. t = x \o y
      BY <1>2, <2>2
    <3>2. x \in Seq(Messages) /\ Len(x) = 2 /\ x[1] = a /\ x[2] = r
      BY <1>3
    <3>3. y \in Seq(Messages) /\ Len(y) = 1 /\ y[1] = q
      BY <1>3
    <3> HIDE DEF x, y
    <3>4. /\ t \in Seq(Messages) /\ Len(t) = 3 /\ DOMAIN t = 1 .. 3
          /\ \A i \in 1 .. 2 : t[i] = x[i]
          /\ \A i \in 1 .. 1 : t[2 + i] = y[i]
      <4>1. /\ x \o y \in Seq(Messages) /\ Len(x \o y) = Len(x) + Len(y)
            /\ \A i \in 1 .. Len(x) : (x \o y)[i] = x[i]
            /\ \A i \in 1 .. Len(y) : (x \o y)[Len(x) + i] = y[i]
        <5>1. x \in Seq(Messages) /\ y \in Seq(Messages)
          BY <3>2, <3>3
        <5> QED BY <5>1, Joined
      <4>2. t \in Seq(Messages) /\ Len(t) = 3
        BY <3>1, <3>2, <3>3, <4>1
      <4>3. DOMAIN t = 1 .. 3
        BY <4>2
      <4>4. \A i \in 1 .. 2 : t[i] = x[i]
        BY <3>1, <3>2, <4>1
      <4>5. \A i \in 1 .. 1 : t[2 + i] = y[i]
        BY <3>1, <3>2, <3>3, <4>1
      <4> QED BY <4>2, <4>3, <4>4, <4>5
    <3>5. t[1] = x[1] /\ t[2] = x[2] /\ t[3] = y[1]
      BY <3>4
    <3> QED BY <2>2, <3>2, <3>3, <3>4, <3>5
  <2> QED BY <2>1, <2>2
<1>6. ASSUME NEW i \in DOMAIN t, t[i].role = "assistant" /\ t[i].told /\ ~Misfiled(t, i)
      PROVE  i < Len(t) /\ t[i + 1] = Results(t[i].by, t[i].uses)
  <2>1. i = 2
    BY <1>3, <1>5, <1>6
  <2>3. t[2].by = Storage /\ t[2].uses = r.uses
    BY <1>3, <1>5
  <2>4. ~Misfiled(t, 2)
    BY <1>6, <2>1
  <2>2. \A use \in r.uses : ~(use[2] > 1)
    BY <2>3, <2>4, Zenon DEF Misfiled
  <2> QED BY <1>4, <1>5, <1>6, <2>1, <2>2
<1>7. Answered(t)
  BY <1>6 DEF Answered
<1> QED BY <1>5, <1>7 DEF t

\* Those of two overlapping turns are all misfiled.
LEMMA RebuiltBothIsAnswered ==
    ASSUME NEW turn \in Turns, NEW later \in Turns
    PROVE  RebuiltBoth(turn, later) \in Seq(Messages) /\ Answered(RebuiltBoth(turn, later))
<1> DEFINE a == Says(Storage)
           r == Replies(Storage, Used(0, turn), "end_turn")
           u == Replies(Storage, Used(Len(turn), later), "end_turn")
           filed == Filed(0, turn, "end_turn") \cup Filed(Len(turn), later, "end_turn")
           q == Results(Storage, filed)
           t == RebuiltBoth(turn, later)
<1>1. t = <<a, a, r, u, q>>
  BY DEF RebuiltBoth
<1>2. Len(turn) \in Nat /\ 0 \in Nat
  BY StoredUses
<1>3. /\ Used(0, turn) \in SUBSET (Nat \X Nat)
      /\ Used(Len(turn), later) \in SUBSET (Nat \X Nat)
      /\ Filed(0, turn, "end_turn") \in SUBSET (Nat \X Nat)
      /\ Filed(Len(turn), later, "end_turn") \in SUBSET (Nat \X Nat)
  BY <1>2, StoredUses
<1>4. filed \in SUBSET (Nat \X Nat)
  BY <1>3
<1> HIDE DEF filed, t
<1>5. /\ a \in Messages /\ ~a.told /\ q \in Messages /\ ~q.told
      /\ r \in Messages /\ r.role = "assistant" /\ r.by = Storage
      /\ u \in Messages /\ u.role = "assistant" /\ u.by = Storage
  <2>1. Storage \in Chats \cup {Storage}
    OBVIOUS
  <2>2. a \in Messages /\ ~a.told
    BY <2>1, MessageTypes
  <2>3. q \in Messages /\ ~q.told
    BY <1>4, <2>1, MessageTypes
  <2>4. r \in Messages /\ r.role = "assistant" /\ r.by = Storage
    BY <1>3, StoredReplies
  <2>5. u \in Messages /\ u.role = "assistant" /\ u.by = Storage
    BY <1>3, StoredReplies
  <2> QED BY <2>2, <2>3, <2>4, <2>5
<1> HIDE DEF a, r, u, q
<1>6. /\ t \in Seq(Messages) /\ DOMAIN t = 1 .. 5
      /\ t[1] = a /\ t[2] = a /\ t[3] = r /\ t[4] = u /\ t[5] = q
  BY <1>1, <1>5
<1>7. ASSUME NEW i \in DOMAIN t, t[i].told
      PROVE  Misfiled(t, i)
  <2>1. i = 3 \/ i = 4
    BY <1>5, <1>6, <1>7
  <2>2. CASE i = 3
    <3>1. 4 \in DOMAIN t \cap {i - 1, i + 1} /\ t[4].role = "assistant" /\ t[i].by = Storage
      BY <1>5, <1>6, <2>2
    <3> QED BY <3>1 DEF Misfiled
  <2>3. CASE i = 4
    <3>1. 3 \in DOMAIN t \cap {i - 1, i + 1} /\ t[3].role = "assistant" /\ t[i].by = Storage
      BY <1>5, <1>6, <2>3
    <3> QED BY <3>1 DEF Misfiled
  <2> QED BY <2>1, <2>2, <2>3
<1>8. Answered(t)
  BY <1>7 DEF Answered
<1> QED BY <1>6, <1>8 DEF t

LEMMA AgentStarts ==
    ASSUME AgentInit
    PROVE  AgentInv
<1>1. \A ms \in Older : ms \in Seq(Messages) /\ Answered(ms)
  BY RebuiltIsAnswered, RebuiltBothIsAnswered DEF Older
<1>2. <<>> \in Seq(Messages) /\ Answered(<<>>)
  BY DEF Answered
<1>3. cache \in Seq(Messages) /\ Answered(cache)
  BY <1>1, <1>2 DEF AgentInit
<1>4. /\ stage = [c \in Chats |-> "new"] /\ talk = [c \in Chats |-> <<>>]
      /\ rounds = [c \in Chats |-> 0] /\ truncated = [c \in Chats |-> 0]
      /\ alone = {}
  BY DEF AgentInit
<1>5. AgentTypeOK
  BY <1>2, <1>3, <1>4, LoopAssumption DEF AgentTypeOK, LoopAssumption
<1>6. \A c \in Chats : ChatInv(c)
  BY <1>2, <1>4 DEF ChatInv
<1> QED BY <1>3, <1>5, <1>6 DEF AgentInv

LEMMA BeginChatKeeps ==
    ASSUME AgentInv, NEW c \in Chats, BeginChat(c)
    PROVE  AgentInv'
<1> DEFINE m == Says(c)
           t == Append(cache, m)
<1>1. /\ stage[c] = "new" /\ stage' = [stage EXCEPT ![c] = "asking"]
      /\ talk' = [talk EXCEPT ![c] = t]
      /\ alone' = IF Running = {} THEN alone \cup {c} ELSE alone \ Running
      /\ UNCHANGED <<rounds, truncated, cache>>
  BY DEF BeginChat
<1>2. m \in Messages /\ ~m.told
  BY MessageTypes
<1>3. cache \in Seq(Messages) /\ Answered(cache)
  BY DEF AgentInv, AgentTypeOK
<1> HIDE DEF m
<1>4. /\ t \in Seq(Messages) /\ Answered(t) /\ Holds(t, m)
      /\ \A k : Holds(cache, k) => Holds(t, k)
  <2> DEFINE b == <<m>>
  <2>1. t = cache \o b /\ b \in Seq(Messages) /\ Len(b) = 1 /\ b[1] = m /\ DOMAIN b = 1 .. 1
    BY <1>2, <1>3
  <2> HIDE DEF b, t
  <2>2. Holds(b, m) /\ \A i \in 1 .. Len(b) : ~b[i].told
    BY <1>2, <2>1 DEF Holds
  <2> QED BY <1>3, <2>1, <2>2, MoreMessages
<1> HIDE DEF t
<1>5. AgentTypeOK'
  BY <1>1, <1>4 DEF AgentInv, AgentTypeOK, Running
<1>6. /\ stage'[c] = "asking" /\ talk'[c] = t
      /\ \A d \in Chats : d # c => stage'[d] = stage[d] /\ talk'[d] = talk[d]
  BY <1>1 DEF AgentInv, AgentTypeOK
<1>7. c \notin alone /\ rounds[c] = 0 /\ truncated[c] <= rounds[c] /\ 0 < MaxTurns
  BY <1>1, LoopAssumption DEF AgentInv, ChatInv, LoopAssumption
<1>8. ChatInv(c)'
  <2>1. c \in alone' => \A d \in Chats : stage'[d] = "asking" => d = c
    <3> SUFFICES ASSUME c \in alone', NEW d \in Chats, stage'[d] = "asking", d # c
                 PROVE  FALSE
      OBVIOUS
    <3>1. Running = {}
      BY <1>1, <1>7
    <3> QED BY <1>6, <3>1 DEF Running
  <2> QED BY <1>1, <1>4, <1>6, <1>7, <2>1 DEF ChatInv, m
<1>9. ASSUME NEW d \in Chats, d # c
      PROVE  ChatInv(d)'
  <2>1. ChatInv(d)
    BY DEF AgentInv
  <2>2. d \in alone' => d \in alone /\ stage[d] # "asking"
    BY <1>1, <1>9 DEF Running
  <2>3. d \in alone' => /\ stage[d] = "ended" /\ Holds(cache, Says(d))
                        /\ \A x \in Chats : stage[x] = "asking" => Holds(talk[x], Says(d))
    BY <2>1, <2>2 DEF ChatInv, AgentInv, AgentTypeOK
  <2>4. d \in alone' => \A x \in Chats : stage'[x] = "asking" => Holds(talk'[x], Says(d))
    BY <1>4, <1>6, <2>3
  <2> QED BY <1>1, <1>6, <1>9, <2>1, <2>3, <2>4 DEF ChatInv
<1> QED BY <1>1, <1>3, <1>5, <1>8, <1>9 DEF AgentInv

\* What a run leaves becomes the cache.
LEMMA ReturnsKeeps ==
    ASSUME AgentInv, NEW c \in Chats, stage[c] = "asking", NEW ms \in Seq(Messages),
           Answered(ms), \A m : Holds(talk[c], m) => Holds(ms, m),
           Returns(c, ms), UNCHANGED alone, AgentTypeOK',
           truncated'[c] <= rounds'[c],
           \A d \in Chats \ {c} : rounds'[d] = rounds[d] /\ truncated'[d] = truncated[d]
    PROVE  AgentInv'
<1>1. /\ stage' = [stage EXCEPT ![c] = "ended"] /\ cache' = ms
      /\ talk' = [talk EXCEPT ![c] = <<>>]
  BY DEF Returns
<1>2. /\ stage'[c] = "ended" /\ talk'[c] = <<>>
      /\ \A d \in Chats : d # c => stage'[d] = stage[d] /\ talk'[d] = talk[d]
  BY <1>1 DEF AgentInv, AgentTypeOK
<1>3. Answered(<<>>)
  BY DEF Answered
<1>4. ChatInv(c)'
  <2>1. ChatInv(c)
    BY DEF AgentInv
  <2>2. c \in alone => Holds(cache', Says(c)) /\ \A d \in Chats : stage'[d] # "asking"
    BY <1>1, <1>2, <2>1 DEF ChatInv
  <2> QED BY <1>2, <1>3, <2>2 DEF ChatInv
<1>5. ASSUME NEW d \in Chats, d # c
      PROVE  ChatInv(d)'
  <2>1. ChatInv(d)
    BY DEF AgentInv
  <2>2. d \in alone => stage[d] = "ended"
    BY <1>5, <2>1 DEF ChatInv, AgentInv, AgentTypeOK
  <2>3. d \in alone => /\ Holds(ms, Says(d))
                       /\ \A x \in Chats : stage[x] = "asking" => Holds(talk[x], Says(d))
    BY <2>1, <2>2 DEF ChatInv
  <2>4. d \in alone => \A x \in Chats : stage'[x] = "asking" => Holds(talk'[x], Says(d))
    BY <1>2, <2>3
  <2> QED BY <1>1, <1>2, <1>5, <2>1, <2>2, <2>3, <2>4 DEF ChatInv
<1> QED BY <1>1, <1>4, <1>5 DEF AgentInv

LEMMA ReplyFailsKeeps ==
    ASSUME AgentInv, NEW c \in Chats, ReplyFails(c)
    PROVE  AgentInv'
<1>1. stage[c] = "asking" /\ Returns(c, talk[c]) /\ UNCHANGED <<rounds, truncated, alone>>
  BY DEF ReplyFails
<1>2. talk[c] \in Seq(Messages) /\ Answered(talk[c]) /\ truncated[c] <= rounds[c]
  BY DEF AgentInv, AgentTypeOK, ChatInv
<1>3. AgentTypeOK'
  BY <1>1, <1>2 DEF AgentInv, AgentTypeOK, Returns
<1> QED BY <1>1, <1>2, <1>3, ReturnsKeeps

LEMMA ReplyKeeps ==
    ASSUME AgentInv, NEW c \in Chats, Reply(c)
    PROVE  AgentInv'
<1>1. stage[c] = "asking" /\ UNCHANGED alone
  BY DEF Reply
<1>2. PICK n \in 0 .. MaxTools, why \in Stops :
        LET cuts == IF why = "max_tokens" THEN truncated[c] + 1 ELSE 0
            messages == Heard(c, n, why)
                            \o (IF cuts > 0 THEN Hints(c, n, cuts) ELSE <<>>)
        IN  /\ why = "tool_use" => n > 0
            /\ why = "end_turn" => n = 0
            /\ truncated' = [truncated EXCEPT ![c] = cuts]
            /\ rounds' = [rounds EXCEPT ![c] = @ + 1]
            /\ IF why \in {"tool_use", "max_tokens"} /\ rounds[c] + 1 < MaxTurns
               THEN /\ talk' = [talk EXCEPT ![c] = messages]
                    /\ UNCHANGED <<stage, cache>>
               ELSE Returns(c, messages)
  BY DEF Reply
<1> DEFINE cuts == IF why = "max_tokens" THEN truncated[c] + 1 ELSE 0
           ms == Heard(c, n, why) \o (IF cuts > 0 THEN Hints(c, n, cuts) ELSE <<>>)
<1>3. /\ why = "end_turn" => n = 0
      /\ truncated' = [truncated EXCEPT ![c] = cuts]
      /\ rounds' = [rounds EXCEPT ![c] = rounds[c] + 1]
      /\ \/ /\ rounds[c] + 1 < MaxTurns /\ talk' = [talk EXCEPT ![c] = ms]
            /\ UNCHANGED <<stage, cache>>
         \/ Returns(c, ms)
  BY <1>2
<1>4. ms \in Seq(Messages) /\ Answered(ms) /\ \A m : Holds(talk[c], m) => Holds(ms, m)
  BY <1>3, ReplyAdds
<1>5. /\ rounds[c] \in Nat /\ rounds[c] < MaxTurns /\ MaxTurns \in Nat
      /\ truncated[c] \in Nat /\ truncated[c] <= rounds[c]
  BY <1>1, LoopAssumption DEF AgentInv, AgentTypeOK, ChatInv, LoopAssumption
<1>6. /\ cuts \in 0 .. rounds[c] + 1 /\ cuts \in 0 .. MaxTurns
      /\ rounds[c] + 1 \in 0 .. MaxTurns
  BY <1>5
<1> HIDE DEF cuts, ms
<1>7. /\ rounds' \in [Chats -> 0 .. MaxTurns] /\ truncated' \in [Chats -> 0 .. MaxTurns]
      /\ rounds'[c] = rounds[c] + 1 /\ truncated'[c] = cuts
      /\ \A d \in Chats \ {c} : rounds'[d] = rounds[d] /\ truncated'[d] = truncated[d]
  BY <1>3, <1>6 DEF AgentInv, AgentTypeOK
<1>8. truncated'[c] <= rounds'[c]
  BY <1>5, <1>6, <1>7
<1>9. CASE Returns(c, ms)
  <2>1. AgentTypeOK'
    BY <1>1, <1>4, <1>7, <1>9 DEF AgentInv, AgentTypeOK, Returns
  <2> QED BY <1>1, <1>4, <1>7, <1>8, <1>9, <2>1, ReturnsKeeps
<1>10. CASE /\ rounds[c] + 1 < MaxTurns /\ talk' = [talk EXCEPT ![c] = ms]
            /\ UNCHANGED <<stage, cache>>
  <2>1. AgentTypeOK'
    BY <1>1, <1>4, <1>7, <1>10 DEF AgentInv, AgentTypeOK
  <2>2. talk'[c] = ms /\ \A d \in Chats : d # c => talk'[d] = talk[d]
    BY <1>10 DEF AgentInv, AgentTypeOK
  <2>3. ASSUME NEW d \in Chats
        PROVE  ChatInv(d)'
    <3>1. ChatInv(d)
      BY DEF AgentInv
    <3>2. /\ d # c => Answered(talk'[d]) /\ rounds'[d] = rounds[d] /\ truncated'[d] = truncated[d]
          /\ d = c => Answered(talk'[d]) /\ rounds'[d] < MaxTurns /\ truncated'[d] <= rounds'[d]
      BY <1>4, <1>7, <1>8, <1>10, <2>2, <3>1 DEF ChatInv
    <3>3. \A x \in Chats : \A m : Holds(talk[x], m) => Holds(talk'[x], m)
      BY <1>4, <2>2
    <3> QED BY <1>1, <1>10, <3>1, <3>2, <3>3 DEF ChatInv
  <2> QED BY <1>10, <2>1, <2>3 DEF AgentInv
<1> QED BY <1>3, <1>9, <1>10

LEMMA AgentStep ==
    ASSUME AgentInv, [AgentNext]_agentVars
    PROVE  AgentInv'
<1>1. CASE UNCHANGED agentVars
  BY <1>1 DEF agentVars, AgentInv, AgentTypeOK, ChatInv
<1>2. ASSUME NEW c \in Chats, BeginChat(c) \/ Reply(c) \/ ReplyFails(c)
      PROVE  AgentInv'
  BY <1>2, BeginChatKeeps, ReplyKeeps, ReplyFailsKeeps
<1> QED BY <1>1, <1>2 DEF AgentNext

\* The invariant holds of the super agent's runs, however their requests
\* interleave.
THEOREM AgentInvHolds == AgentSpec => []AgentInv
<1>1. AgentInit => AgentInv
  BY AgentStarts
<1>2. AgentInv /\ [AgentNext]_agentVars => AgentInv'
  BY AgentStep
<1> QED BY <1>1, <1>2, PTL DEF AgentSpec

\* Every variable of the super agent's runs holds values of its type.
THEOREM AgentTypes == AgentSpec => []AgentTypeOK
<1>1. AgentInv => AgentTypeOK
  BY DEF AgentInv
<1> QED BY <1>1, AgentInvHolds, PTL

\* In the cache and in every request's conversation, a reply that a run has heard, and
\* that said why it stopped, is followed by the message of the results of its tool uses,
\* however it was cut and whatever other requests did to the cache (stream.rs). So is a
\* reply rebuilt from storage (chat.rs), but for one that Misfiled names: a stored turn
\* with two tool uses in one reply, or one that overlapped another.
THEOREM EveryToolUseIsAnswered == AgentSpec => []ToolUsesAreAnswered
<1>1. AgentInv => ToolUsesAreAnswered
  <2> SUFFICES ASSUME AgentInv, NEW ms \in {cache} \cup {talk[c] : c \in Chats}
               PROVE  Answered(ms)
    BY DEF ToolUsesAreAnswered, Answered
  <2> QED BY DEF AgentInv, ChatInv
<1> QED BY <1>1, AgentInvHolds, PTL

\* What was said in a request that ran while no other did stays in the cache that
\* later requests start from, however it ended and however these overlap.
THEOREM LoneTurnsStay == AgentSpec => []LoneTurnsAreRemembered
<1>1. AgentInv => LoneTurnsAreRemembered
  BY DEF AgentInv, AgentTypeOK, ChatInv, LoneTurnsAreRemembered, Holds
<1> QED BY <1>1, AgentInvHolds, PTL

----------------------------------------------------------------------------
(* What the tools of the super agent answer (SuperAgentTools): a tool that   *)
(* says it has changed something has, and one that says it has not has not,  *)
(* whatever its requests meet.                                               *)

\* A tool as the proofs see it: it changes one thing, with its last request, or makes
\* a project.
PlainWays ==
    {<<>>, <<"read">>, <<"asked">>, <<"read", "tried">>, <<"asked", "asked">>,
     <<"write">>, <<"refuse">>}
IsPlain(name, entry) ==
    \/ entry.ways \subseteq PlainWays
    \/ name = "create_project" /\ entry.ways = {<<"write", "repo">>}
TableIsPlain(part) == \A t \in DOMAIN part : IsPlain(t, part[t])

\* What is put together are the parts.
LEMMA TableIsOfParts ==
    ASSUME NEW tables, NEW t \in DOMAIN WholeTable(tables)
    PROVE  \E part \in tables : t \in DOMAIN part /\ WholeTable(tables)[t] = part[t]
  <1>1. PICK part \in tables : t \in DOMAIN part BY DEF WholeTable
  <1>2. WholeTable(tables)[t] = (CHOOSE p \in tables : t \in DOMAIN p)[t] BY DEF WholeTable
  <1> QED BY <1>1, <1>2

LEMMA TablesArePlain ==
    \A part \in AllTables : TableIsPlain(part)
  <1> USE DEF TableIsPlain, IsPlain, PlainWays, Own, Net, Tool, Read, Write, AsksNobody
  <1>1. TableIsPlain(CreateProject) BY DEF CreateProject, Assuming
  <1>2. TableIsPlain(LookAtProjects) BY DEF LookAtProjects
  <1>3. TableIsPlain(ChangeProjects) BY DEF ChangeProjects
  <1>4. TableIsPlain(CountProject) BY DEF CountProject
  <1>5. TableIsPlain(FirstAgentTools) BY DEF FirstAgentTools
  <1>6. TableIsPlain(StartTools) BY DEF StartTools
  <1>7. TableIsPlain(StopTools) BY DEF StopTools
  <1>8. TableIsPlain(FirstMonitorTools) BY DEF FirstMonitorTools
  <1>9. TableIsPlain(FirstBillingTools) BY DEF FirstBillingTools
  <1>10. TableIsPlain(LoadDomainTools) BY DEF LoadDomainTools
  <1>11. TableIsPlain(SpecTools) BY DEF SpecTools
  <1>12. TableIsPlain(GenerateSpecs) BY DEF GenerateSpecs
  <1>13. TableIsPlain(LookAtTasks) BY DEF LookAtTasks
  <1>14. TableIsPlain(ChangeTasks) BY DEF ChangeTasks
  <1>15. TableIsPlain(RunTasks) BY DEF RunTasks
  <1>16. TableIsPlain(AgentTools) BY DEF AgentTools, Assuming
  <1>17. TableIsPlain(InstanceTools) BY DEF InstanceTools
  <1>18. TableIsPlain(OrgTools) BY DEF OrgTools, Assuming
  <1>19. TableIsPlain(MemberTools) BY DEF MemberTools
  <1>20. TableIsPlain(BillingTools) BY DEF BillingTools
  <1>21. TableIsPlain(PostTools) BY DEF PostTools
  <1>22. TableIsPlain(FollowTools) BY DEF FollowTools
  <1>23. TableIsPlain(MonitorTools) BY DEF MonitorTools
  <1>24. TableIsPlain(SystemTools) BY DEF SystemTools
  <1>25. TableIsPlain(ImageTools) BY DEF ImageTools
  <1>26. TableIsPlain(ModelTools) BY DEF ModelTools
  <1> HIDE DEF TableIsPlain
  <1> QED
    BY <1>1, <1>2, <1>3, <1>4, <1>5, <1>6, <1>7, <1>8, <1>9, <1>10, <1>11, <1>12,
       <1>13, <1>14, <1>15, <1>16, <1>17, <1>18, <1>19, <1>20, <1>21, <1>22, <1>23,
       <1>24, <1>25, <1>26 DEF AllTables, Tier1Tables

RepoWay == <<"write", "repo">>
Ways == PlainWays \cup {RepoWay}

LEMMA WaysOfTools ==
    ASSUME NEW t \in DOMAIN ChatRegistry, NEW w \in ChatRegistry[t].ways
    PROVE  w \in Ways /\ (w = RepoWay => t = "create_project")
  <1>1. PICK part \in AllTables : t \in DOMAIN part /\ ChatRegistry[t] = part[t]
    BY TableIsOfParts DEF ChatRegistry
  <1>2. IsPlain(t, part[t])
    BY <1>1, TablesArePlain DEF TableIsPlain
  <1>3. RepoWay \notin PlainWays
    BY DEF RepoWay, PlainWays
  <1> QED BY <1>1, <1>2, <1>3 DEF IsPlain, Ways, RepoWay

\* What is to be changed comes last, but for the project that gets a repo.
LEMMA ChangesComeLast ==
    ASSUME NEW w \in Ways
    PROVE  /\ Len(w) \in 0 .. 2 /\ DOMAIN w = 1 .. Len(w)
           /\ w = RepoWay => Len(w) = 2 /\ w[1] = "write" /\ w[2] = "repo"
           /\ \A i \in DOMAIN w :
                 /\ w[i] = "repo" => w = RepoWay
                 /\ w[i] \in Changing /\ w # RepoWay => i = Len(w)
                 /\ w[i] \in {"asked", "tried"} => \A j \in DOMAIN w : w[j] \notin Changing
  <1>1. CASE w = <<>>
    BY <1>1 DEF RepoWay, Changing
  <1>2. CASE w = <<"read">> \/ w = <<"asked">>
    BY <1>2 DEF RepoWay, Changing
  <1>3. CASE w = <<"read", "tried">> \/ w = <<"asked", "asked">>
    BY <1>3 DEF RepoWay, Changing
  <1>4. CASE w = <<"write">> \/ w = <<"refuse">>
    <2>1. Len(w) = 1 /\ DOMAIN w = 1 .. 1 /\ w[1] \in {"write", "refuse"}
      BY <1>4
    <2>2. w # RepoWay
      BY <2>1 DEF RepoWay
    <2> QED BY <2>1, <2>2
  <1>5. CASE w = RepoWay
    BY <1>5 DEF RepoWay, Changing
  <1> QED BY <1>1, <1>2, <1>3, <1>4, <1>5 DEF Ways, PlainWays

Changed(n) == {i \in 1 .. n : way[i] \in Changing}

\* What has been made of a use: an unfinished one has changed what it has asked to be
\* changed, and lost no answer.
ToolUseInv ==
    /\ way \in Ways /\ at \in 0 .. Len(way)
    /\ way = RepoWay => used = "create_project"
    /\ clients \in SUBSET {"network", "orbit"} /\ unsure \in BOOLEAN
    /\ answer \in {"none", "ok", "error", "unknown tool"}
    /\ undo \in {"none", "due", "done", "refused", "lost"}
    /\ used = "none" => at = 0 /\ left = {} /\ ~unsure /\ undo = "none"
    /\ answer = "none" /\ undo = "none" => left = Changed(at) /\ ~unsure
    /\ undo # "none" => way = RepoWay
    /\ undo = "due" =>
          /\ at = 1 /\ "orbit" \in clients /\ answer = "none"
          /\ ~unsure => left = {1}
    /\ ResultsAreTrue

LEMMA EmptyWay == <<>> \in Ways /\ <<>> # RepoWay /\ Len(<<>>) = 0
  BY DEF Ways, PlainWays, RepoWay

LEMMA NothingChanged == ASSUME at = 0 PROVE Changed(at) = {}
  BY DEF Changed

LEMMA ToolUseStart == ToolsInit => ToolUseInv
  <1> SUFFICES ASSUME ToolsInit PROVE ToolUseInv OBVIOUS
  <1>1. /\ way = <<>> /\ at = 0 /\ used = "none" /\ left = {} /\ ~unsure /\ answer = "none"
        /\ undo = "none" /\ clients \in SUBSET {"network", "orbit"} /\ unsure \in BOOLEAN
    BY DEF ToolsInit
  <1>2. way \in Ways /\ way # RepoWay /\ at \in 0 .. Len(way)
    BY <1>1, EmptyWay
  <1>3. left = Changed(at) /\ ResultsAreTrue
    BY <1>1, NothingChanged DEF ResultsAreTrue
  <1> QED BY <1>1, <1>2, <1>3 DEF ToolUseInv

LEMMA UseToolKeeps ==
    ASSUME ToolUseInv, used = "none", NEW t, NEW lacks, UseTool(t, lacks)
    PROVE  ToolUseInv'
  <1>1. /\ UNCHANGED <<clients, at, left, unsure, undo>> /\ at = 0 /\ left = {} /\ ~unsure
        /\ used' = t /\ undo = "none"
    BY DEF UseTool, ToolUseInv
  <1>2. /\ way' \in Ways /\ (way' = RepoWay => used' = "create_project")
        /\ answer' \in {"none", "error", "unknown tool"}
    <2>1. CASE t \in DOMAIN ChatRegistry
      BY <1>1, <2>1, WaysOfTools DEF UseTool, BeginsUse
    <2>2. CASE t \notin DOMAIN ChatRegistry
      BY <1>1, <2>2, EmptyWay DEF UseTool, ToolUseInv
    <2> QED BY <2>1, <2>2
  <1>3. Len(way') \in 0 .. 2
    BY <1>2, ChangesComeLast
  <1>4. at' \in 0 .. Len(way') /\ left' = Changed(at)'
    BY <1>1, <1>3 DEF Changed
  <1>5. ResultsAreTrue'
    BY <1>1, <1>2 DEF ResultsAreTrue
  <1>6. clients' \in SUBSET {"network", "orbit"} /\ unsure' \in BOOLEAN
    BY <1>1 DEF ToolUseInv
  <1> QED BY <1>1, <1>2, <1>4, <1>5, <1>6 DEF ToolUseInv

\* A request of a use under way.
LEMMA OnItsWay ==
    ASSUME ToolUseInv, NEW kinds, Going(kinds)
    PROVE  /\ used # "none" /\ left = Changed(at) /\ ~unsure /\ way \in Ways /\ undo = "none"
           /\ at \in 0 .. 1 /\ at + 1 \in 1 .. Len(way) /\ Len(way) \in 1 .. 2
           /\ DOMAIN way = 1 .. Len(way) /\ way[at + 1] \in kinds
  BY ChangesComeLast DEF ToolUseInv, Going

\* Nothing has changed before the last request, but a project without a repo yet.
LEMMA ChangedSoFar ==
    ASSUME ToolUseInv, NEW kinds, Going(kinds), way # RepoWay
    PROVE  Changed(at) = {}
  <1>1. /\ at \in 0 .. 1 /\ at + 1 \in 1 .. Len(way) /\ way \in Ways
        /\ DOMAIN way = 1 .. Len(way) /\ Len(way) \in 1 .. 2
    BY OnItsWay
  <1> QED BY <1>1, ChangesComeLast DEF Changed

LEMMA GoesOn ==
    ASSUME ToolUseInv, NEW kinds, Going(kinds), NEW effect, NEW lost, NEW says \in {"ok", "error"},
           Comes(effect, lost, says), lost \in BOOLEAN,
           says = "error" =>
               lost \/ left' = {} \/ (way = RepoWay /\ "orbit" \notin clients /\ left' = {1}),
           says = "ok" => ~lost /\ left' = Changed(at + 1)
    PROVE  ToolUseInv'
  <1>1. /\ used # "none" /\ left = Changed(at) /\ ~unsure /\ way \in Ways /\ undo = "none"
        /\ at \in 0 .. 1 /\ at + 1 \in 1 .. Len(way) /\ Len(way) \in 1 .. 2
        /\ DOMAIN way = 1 .. Len(way) /\ way[at + 1] \in kinds
    BY OnItsWay
  <1>2. /\ UNCHANGED <<clients, about, used, way, undo>> /\ at' = at + 1 /\ unsure' = (unsure \/ lost)
        /\ answer' = IF says = "ok" /\ at + 1 < Len(way) THEN "none" ELSE says
    BY DEF Comes
  <1>3. (way = RepoWay => used = "create_project") /\ clients \in SUBSET {"network", "orbit"}
    BY DEF ToolUseInv
  <1>4. says = "ok" => left' = Changed(at)'
    BY <1>2 DEF Changed
  <1>5. Changed(Len(way)) = ToBeChanged
    BY <1>1 DEF Changed, ToBeChanged
  <1>6. answer' = "ok" => left' = ToBeChanged'
    BY <1>1, <1>2, <1>5 DEF ToBeChanged
  <1>7. answer' = "error" /\ ~unsure' =>
            left' = {} \/ (used' = "create_project" /\ left' = {1} /\ "orbit" \notin clients')
    BY <1>2, <1>3
  <1>8. ResultsAreTrue'
    BY <1>6, <1>7 DEF ResultsAreTrue
  <1>9. answer' \in {"none", "ok", "error", "unknown tool"}
    BY <1>2
  <1>12. way' \in Ways /\ at' \in 0 .. Len(way')
    <2>1. at + 1 \in 0 .. Len(way)
      BY <1>1
    <2> QED BY <1>1, <1>2, <2>1
  <1>11. unsure' \in BOOLEAN
    <2>1. unsure' = (unsure \/ lost)
      BY <1>2
    <2> QED BY <2>1, Zenon
  <1>10. answer' = "none" => left' = Changed(at)' /\ ~unsure'
    BY <1>1, <1>2, <1>4
  <1> QED BY <1>1, <1>2, <1>3, <1>8, <1>9, <1>10, <1>11, <1>12 DEF ToolUseInv

\* With the next request, what it changes is changed too.
LEMMA OneMore ==
    ASSUME ToolUseInv, NEW kinds, Going(kinds), Changed(at) \cup EffectOf(way[at + 1]) = left'
    PROVE  left' = Changed(at + 1)
  <1>1. at \in 0 .. 1 /\ at + 1 \in 1 .. Len(way) /\ DOMAIN way = 1 .. Len(way)
    BY OnItsWay
  <1>2. 1 .. at + 1 = 1 .. at \cup {at + 1}
    BY <1>1
  <1> QED BY <1>1, <1>2 DEF Changed, EffectOf

LEMMA RequestKeeps ==
    ASSUME ToolUseInv, RequestDone \/ RequestRefused \/ RequestLost
    PROVE  ToolUseInv'
  <1>1. CASE RequestDone
    <2>1. Going({"read", "asked", "tried", "write", "run"}) /\ Comes(EffectOf(way[at + 1]), FALSE, "ok")
      BY <1>1 DEF RequestDone
    <2>2. left = Changed(at)
      BY <2>1, OnItsWay
    <2>3. left' = Changed(at) \cup EffectOf(way[at + 1])
      BY <2>1, <2>2 DEF Comes
    <2>4. left' = Changed(at + 1)
      BY <2>1, <2>3, OneMore
    <2> QED BY <2>1, <2>4, GoesOn
  <1>2. CASE Going({"read", "write", "run", "refuse"}) /\ Comes({}, FALSE, "error")
    <2>1. way # RepoWay \/ at = 0
      <3>1. way[at + 1] # "repo" /\ at \in 0 .. 1 /\ way \in Ways
        BY <1>2, OnItsWay
      <3> QED BY <3>1, ChangesComeLast
    <2>2. Changed(at) = {} /\ left = Changed(at)
      BY <1>2, <2>1, ChangedSoFar, OnItsWay, NothingChanged
    <2>3. left' = {}
      BY <1>2, <2>2 DEF Comes
    <2> QED BY <1>2, <2>3, GoesOn
  <1>3. CASE /\ Going({"asked", "tried"})
             /\ Comes({}, FALSE, IF way = <<"asked">> THEN "error" ELSE "ok")
    <2>1. /\ way \in Ways /\ at + 1 \in DOMAIN way /\ left = Changed(at)
          /\ way[at + 1] \in {"asked", "tried"}
      BY <1>3, OnItsWay
    <2>2. \A j \in DOMAIN way : way[j] \notin Changing
      BY <2>1, ChangesComeLast
    <2>3. EffectOf(way[at + 1]) = {}
      BY <2>1, <2>2 DEF EffectOf
    <2>4. way # RepoWay
      BY <2>2, <2>1, ChangesComeLast DEF Changing
    <2>5. left' = Changed(at) \cup EffectOf(way[at + 1]) /\ Changed(at) = {}
      BY <1>3, <2>1, <2>3, <2>4, ChangedSoFar DEF Comes
    <2>6. left' = Changed(at + 1) /\ left' = {}
      BY <1>3, <2>3, <2>5, OneMore
    <2>7. CASE way = <<"asked">>
      BY <1>3, <2>6, <2>7, GoesOn
    <2>8. CASE way # <<"asked">>
      BY <1>3, <2>6, <2>8, GoesOn
    <2> QED BY <2>7, <2>8
  <1>4. CASE RequestLost
    <2>1. PICK effect : Comes(effect, TRUE, "error")
      BY <1>4 DEF RequestLost
    <2> QED BY <1>4, <2>1, GoesOn DEF RequestLost
  <1> QED BY <1>1, <1>2, <1>3, <1>4 DEF RequestRefused

LEMMA RepoKeeps ==
    ASSUME ToolUseInv, RepoFails \/ RepoMade
    PROVE  ToolUseInv'
  <1>1. Going({"repo"})
    BY DEF RepoFails, RepoMade
  <1>2. /\ way = RepoWay /\ at = 1 /\ Len(way) = 2 /\ left = Changed(at)
        /\ used = "create_project" /\ clients \in SUBSET {"network", "orbit"} /\ ~unsure
        /\ undo = "none" /\ used # "none" /\ answer = "none" /\ left = {1}
    <2>1. /\ way \in Ways /\ at + 1 \in DOMAIN way /\ way[at + 1] = "repo" /\ left = Changed(at)
          /\ at \in 0 .. 1 /\ ~unsure /\ undo = "none" /\ used # "none"
      BY <1>1, OnItsWay
    <2>2. way = RepoWay /\ Len(way) = 2 /\ way[1] = "write"
      BY <2>1, ChangesComeLast
    <2>3. at = 1
      BY <2>1, <2>2
    <2>4. left = {1}
      BY <2>1, <2>2, <2>3 DEF Changed, Changing
    <2>5. answer = "none"
      BY <1>1 DEF Going
    <2> QED BY <2>1, <2>2, <2>3, <2>4, <2>5 DEF ToolUseInv
  <1>3. CASE "orbit" \notin clients /\ Comes({}, FALSE, "error")
    <2>1. left' = {1}
      BY <1>2, <1>3 DEF Comes
    <2> QED BY <1>1, <1>2, <1>3, <2>1, GoesOn
  <1>4. CASE /\ "orbit" \in clients /\ undo' = "due"
             /\ \/ UNCHANGED <<left, unsure>>
                \/ left' \in {left, left \cup {at + 1}} /\ unsure' = TRUE
             /\ UNCHANGED <<clients, about, used, way, at, answer>>
    <2>1. /\ way' = RepoWay /\ used' = "create_project" /\ used' # "none" /\ at' = 1
          /\ Len(way') = 2 /\ answer' = "none" /\ clients' \in SUBSET {"network", "orbit"}
          /\ undo' = "due" /\ "orbit" \in clients'
      BY <1>2, <1>4
    <2>2. (unsure' = unsure /\ left' = {1}) \/ unsure' = TRUE
      BY <1>2, <1>4
    <2>3. unsure' \in BOOLEAN
      BY <2>2 DEF ToolUseInv
    <2>4. ~unsure' => left' = {1}
      BY <2>2
    <2>5. ResultsAreTrue'
      BY <2>1 DEF ResultsAreTrue
    <2>6. way' \in Ways /\ at' \in 0 .. Len(way')
      BY <2>1 DEF Ways
    <2> HIDE DEF Ways
    <2> QED BY <2>1, <2>3, <2>4, <2>5, <2>6 DEF ToolUseInv
  <1>5. CASE RepoMade
    <2>1. Comes({at + 1}, FALSE, "ok")
      BY <1>5 DEF RepoMade
    <2>2. EffectOf(way[at + 1]) = {at + 1}
      BY <1>1, OnItsWay DEF EffectOf, Changing
    <2>3. left' = Changed(at) \cup EffectOf(way[at + 1])
      BY <1>2, <2>1, <2>2 DEF Comes
    <2>4. left' = Changed(at + 1)
      BY <1>1, <2>3, OneMore
    <2> QED BY <1>1, <2>1, <2>4, GoesOn
  <1> QED BY <1>3, <1>4, <1>5 DEF RepoFails

LEMMA UndoKeeps ==
    ASSUME ToolUseInv, UndoProject
    PROVE  ToolUseInv'
  <1>1. /\ way = RepoWay /\ at = 1 /\ "orbit" \in clients /\ used = "create_project"
        /\ clients \in SUBSET {"network", "orbit"} /\ (~unsure => left = {1})
    BY DEF ToolUseInv, UndoProject
  <1>2. /\ at' = 2 /\ answer' = "error" /\ UNCHANGED <<clients, used, way>>
        /\ undo' \in {"done", "refused", "lost"}
    BY <1>1 DEF UndoProject
  <1>3. unsure' \in BOOLEAN
    <2>1. unsure' = unsure \/ unsure' = TRUE
      BY DEF UndoProject
    <2> QED BY <2>1 DEF ToolUseInv
  <1>4. ~unsure' => left' = {} \/ (left' = {1} /\ undo' = "refused")
    BY <1>1 DEF UndoProject
  <1>5. ResultsAreTrue'
    BY <1>1, <1>2, <1>4 DEF ResultsAreTrue
  <1>6. way' \in Ways /\ at' \in 0 .. Len(way')
    BY <1>1, <1>2 DEF Ways, RepoWay
  <1>7. way' = RepoWay /\ used' = "create_project" /\ used' # "none"
        /\ clients' \in SUBSET {"network", "orbit"}
    BY <1>1, <1>2
  <1> HIDE DEF Ways, RepoWay
  <1> QED BY <1>2, <1>3, <1>5, <1>6, <1>7 DEF ToolUseInv

LEMMA JustAnswersKeeps ==
    ASSUME ToolUseInv, JustAnswers
    PROVE  ToolUseInv'
  <1>1. /\ way = <<>> /\ Len(way) = 0 /\ at = 0 /\ left = {} /\ undo = "none"
    BY EmptyWay, NothingChanged DEF ToolUseInv, JustAnswers
  <1>2. ToBeChanged' = {}
    BY <1>1 DEF ToBeChanged, JustAnswers
  <1>3. ResultsAreTrue'
    BY <1>1, <1>2 DEF ResultsAreTrue, JustAnswers
  <1> QED BY <1>1, <1>3 DEF ToolUseInv, JustAnswers

\* The inductive invariant of the tools, from which the theorem below follows.
THEOREM ToolUseInvHolds == ToolsSpec => []ToolUseInv
<1>1. ToolUseInv /\ [ToolsNext]_toolVars => ToolUseInv'
  <2> SUFFICES ASSUME ToolUseInv, [ToolsNext]_toolVars PROVE ToolUseInv' OBVIOUS
  <2>1. ASSUME used = "none", NEW t, NEW lacks, UseTool(t, lacks) PROVE ToolUseInv'
    BY <2>1, UseToolKeeps
  <2>2. CASE UNCHANGED toolVars
    BY <2>2 DEF toolVars, ToolUseInv, ResultsAreTrue, ToBeChanged, Changed
  <2> QED BY <2>1, <2>2, RequestKeeps, RepoKeeps, UndoKeeps, JustAnswersKeeps DEF ToolsNext
<1> QED BY <1>1, ToolUseStart, PTL DEF ToolsSpec

\* A use of a tool that says it went well has changed all it was to change, and one
\* that failed with no answer missing has changed nothing, whatever tool of the
\* registry and whichever of its requests fails; but a new project stays, alone, if
\* there is no client for its repo, and if both the repo and the deletion of the
\* project are refused, when the answer says all the same that it was rolled back
\* (tools/*.rs).
THEOREM ResultsTellTheTruth == ToolsSpec => []ResultsAreTrue
<1>1. ToolUseInv => ResultsAreTrue
  BY DEF ToolUseInv
<1> QED BY <1>1, ToolUseInvHolds, PTL

----------------------------------------------------------------------------
(* One call of a tool of an organisation (ToolCalls).  First the schema of   *)
(* every method and the way its request is made are shown to agree, one      *)
(* method after the other; the calls follow from that alone.                 *)

\* What the schema lets a caller with something to say give for n is read as type.
Takes(type, n) == Sensible(n) \subseteq Reads(type)
FilledBy(b, n) ==
    /\ ~b.config /\ Takes(b.type, n)
    /\ 1 \in DOMAIN b.names /\ b.names[1] = n /\ DOMAIN b.names \subseteq Nat \ {0}
Asked(b) == b.required /\ ~b.default

\* A field that must be given is filled from an argument that is required, or
\* from the config.
AskedFine(b, R) ==
    Asked(b) => \/ b.config /\ b.type = "string"
                \/ \E n \in R : FilledBy(b, n)
\* Without the argument n, and given nothing but A, the field is missed.
AsksFor(b, n, A) ==
    /\ Asked(b) /\ ~b.config
    /\ \A i \in DOMAIN b.names : b.names[i] \in A => b.names[i] = n
Plain(n) == n \notin Integers \cup {"to", "cc", "bcc", "input"}

\* The schema of a method and the way its request is made agree.
Agrees(m) ==
    /\ m.path \subseteq m.required
    /\ \A n \in m.path : Plain(n)
    /\ \A n \in (m.required \cup m.optional) \ m.path :
          \E b \in m.bindings : FilledBy(b, n)
    /\ \A b \in m.bindings : AskedFine(b, m.required)
    /\ \A n \in m.required \ m.path :
          \E b \in m.bindings : AsksFor(b, n, m.required \cup m.optional)
TableAgrees(part) == \A t \in DOMAIN part : Agrees(part[t])

Lists == {"to", "cc", "bcc"}

LEMMA Sensibles ==
    /\ \A n \in Integers : Sensible(n) = {"natural"}
    /\ \A n \in Lists : Sensible(n) = {"text", "texts"}
    /\ \A n : n \notin Integers \cup Lists \cup {"input"} => Sensible(n) = {"text"}
    /\ Sensible("input") \subseteq ValueKinds
  BY DEF Integers, Lists, Sensible, SchemaAllows, ValueKinds

LEMMA Readers ==
    /\ Reads("string") = {"text"} /\ Reads("strings") = {"text", "texts"}
    /\ Reads("number") = {"natural"} /\ Reads("json") = ValueKinds
  BY DEF Reads

LEMMA TakesWhatIsAllowed ==
    /\ \A n \in Integers : Takes("number", n)
    /\ \A n \in Lists : Takes("strings", n)
    /\ \A n : Plain(n) => Takes("string", n) /\ Sensible(n) \subseteq {"text"}
    /\ Takes("json", "input")
  BY Sensibles, Readers DEF Takes, Plain, Lists

LEMMA FieldsAreFilled ==
    ASSUME NEW names, 1 \in DOMAIN names, DOMAIN names \subseteq Nat \ {0}
    PROVE  /\ Plain(names[1]) =>
                /\ FilledBy(Needs(names), names[1]) /\ FilledBy(May(names), names[1])
                /\ FilledBy(Else(names), names[1])
           /\ names[1] \in Integers =>
                FilledBy(Count(names), names[1]) /\ FilledBy(Number(names), names[1])
           /\ names[1] = "input" => FilledBy(Root(names), names[1])
           /\ names[1] \in Lists => \A r \in BOOLEAN : FilledBy(Many(names, r), names[1])
  BY TakesWhatIsAllowed
  DEF FilledBy, Needs, May, Else, Count, Number, Root, Many, Binding

LEMMA FieldsOfOneName ==
    /\ \A a : Plain(a) =>
          /\ FilledBy(Needs(<<a>>), a) /\ FilledBy(May(<<a>>), a) /\ FilledBy(Else(<<a>>), a)
    /\ \A a \in Integers : FilledBy(Count(<<a>>), a) /\ FilledBy(Number(<<a>>), a)
    /\ \A a \in Lists : \A r \in BOOLEAN : FilledBy(Many(<<a>>, r), a)
    /\ FilledBy(Root(<<"input">>), "input")
    /\ \A a, A : AsksFor(Needs(<<a>>), a, A) /\ AsksFor(Many(<<a>>, TRUE), a, A)
    /\ \A a, R : Plain(a) /\ a \in R => AskedFine(Needs(<<a>>), R)
    /\ \A a \in Lists : \A R : a \in R => AskedFine(Many(<<a>>, TRUE), R)
  <1>1. \A a : Plain(a) =>
          /\ FilledBy(Needs(<<a>>), a) /\ FilledBy(May(<<a>>), a) /\ FilledBy(Else(<<a>>), a)
    BY FieldsAreFilled
  <1>2. \A a \in Integers : FilledBy(Count(<<a>>), a) /\ FilledBy(Number(<<a>>), a)
    BY FieldsAreFilled
  <1>3. \A a \in Lists : \A r \in BOOLEAN : FilledBy(Many(<<a>>, r), a)
    BY FieldsAreFilled
  <1>4. FilledBy(Root(<<"input">>), "input")
    BY FieldsAreFilled
  <1>5. \A a, A : AsksFor(Needs(<<a>>), a, A) /\ AsksFor(Many(<<a>>, TRUE), a, A)
    BY DEF AsksFor, Asked, Needs, Many, Binding
  <1> QED BY <1>1, <1>2, <1>3, <1>4, <1>5 DEF AskedFine

LEMMA FieldsOfTwoNames ==
    /\ \A a, x : Plain(a) => FilledBy(Needs(<<a, x>>), a) /\ FilledBy(May(<<a, x>>), a)
    /\ \A x : \A a \in Integers : FilledBy(Count(<<a, x>>), a)
    /\ \A a, x, A : x \notin A => AsksFor(Needs(<<a, x>>), a, A)
    /\ \A a, x, R : Plain(a) /\ a \in R => AskedFine(Needs(<<a, x>>), R)
  <1>1. \A a, x : Plain(a) => FilledBy(Needs(<<a, x>>), a) /\ FilledBy(May(<<a, x>>), a)
    BY FieldsAreFilled
  <1>2. \A x : \A a \in Integers : FilledBy(Count(<<a, x>>), a)
    BY FieldsAreFilled
  <1>3. \A a, x, A : x \notin A => AsksFor(Needs(<<a, x>>), a, A)
    BY DEF AsksFor, Asked, Needs, Binding
  <1> QED BY <1>1, <1>2, <1>3 DEF AskedFine

LEMMA FieldsOfMoreNames ==
    /\ \A a, x, y : Plain(a) => FilledBy(May(<<a, x, y>>), a)
    /\ \A x, y : \A a \in Integers : FilledBy(Count(<<a, x, y>>), a)
    /\ FilledBy(May(Markdown), "body")
    /\ \A a : Plain(a) => FilledBy(May(<<a>> \o Markdown), a)
  <1>1. \A a, x, y : Plain(a) => FilledBy(May(<<a, x, y>>), a)
    BY FieldsAreFilled
  <1>2. \A x, y : \A a \in Integers : FilledBy(Count(<<a, x, y>>), a)
    BY FieldsAreFilled
  <1>3. FilledBy(May(Markdown), "body")
    <2>1. Plain("body")
      BY DEF Plain, Integers
    <2> QED BY <2>1, FieldsAreFilled DEF Markdown
  <1>4. \A a : 1 \in DOMAIN (<<a>> \o Markdown) /\ (<<a>> \o Markdown)[1] = a
                /\ DOMAIN (<<a>> \o Markdown) \subseteq Nat \ {0}
    BY DEF Markdown
  <1>5. \A a : Plain(a) => FilledBy(May(<<a>> \o Markdown), a)
    BY <1>4, FieldsAreFilled
  <1> QED BY <1>1, <1>2, <1>3, <1>5

LEMMA OtherFields ==
    /\ \A names, R : /\ AskedFine(May(names), R) /\ AskedFine(Else(names), R)
                     /\ AskedFine(Count(names), R) /\ AskedFine(Number(names), R)
                     /\ AskedFine(Root(names), R) /\ AskedFine(Many(names, FALSE), R)
    /\ \A name, R : AskedFine(Config(name), R)
    /\ \A R : AskedFine(Fixed, R)
  BY DEF AskedFine, Asked, May, Else, Count, Number, Root, Many, Config, Needs,
     Fixed, Binding

LEMMA MethodAgrees ==
    ASSUME NEW runtime, NEW P, NEW B, NEW R, NEW O,
           P \subseteq R,
           \A n \in P : Plain(n),
           \A n \in (R \cup O) \ P : \E b \in B : FilledBy(b, n),
           \A b \in B : AskedFine(b, R),
           \A n \in R \ P : \E b \in B : AsksFor(b, n, R \cup O)
    PROVE  Agrees(Method(runtime, P, B, R, O))
  BY DEF Agrees, Method

LEMMA MethodWithoutFields ==
    ASSUME NEW runtime, NEW P, \A n \in P : Plain(n)
    PROVE  Agrees(Method(runtime, P, {}, P, {}))
  BY DEF Agrees, Method

LEMMA BareMethodAgrees == Agrees(Rest({}, {}, {}, {}))
  BY MethodWithoutFields DEF Rest

LEMMA BareQueryAgrees == Agrees(Graphql({}, {}, {}))
  BY MethodWithoutFields DEF Graphql

LEMMA CreateIssueAgrees ==
    Agrees(Rest({"owner", "repo"}, {Needs(<<"title">>), May(Markdown)},
        {"owner", "repo", "title"}, {"body"}))
  <1> DEFINE P == {"owner", "repo"}
             B == {Needs(<<"title">>), May(Markdown)}
             R == {"owner", "repo", "title"}
             O == {"body"}
  <1>1. \A n \in {"owner", "repo", "title", "body"} : Plain(n)
    BY DEF Plain, Integers
  <1>2. \A n \in (R \cup O) \ P : \E b \in B : FilledBy(b, n)
    BY <1>1, FieldsOfOneName, FieldsOfMoreNames
  <1>3. \A b \in B : AskedFine(b, R)
    <2>1. AskedFine(Needs(<<"title">>), R)
      BY <1>1, FieldsOfOneName
    <2> QED BY <2>1, OtherFields
  <1>4. \A n \in R \ P : \E b \in B : AsksFor(b, n, R \cup O)
    <2>1. AsksFor(Needs(<<"title">>), "title", R \cup O)
      BY FieldsOfOneName
    <2> QED BY <2>1
  <1>5. P \subseteq R /\ \A n \in P : Plain(n)
    BY <1>1
  <1>6. Agrees(Rest(P, B, R, O))
    <2> HIDE DEF P, B, R, O
    <2> QED BY <1>2, <1>3, <1>4, <1>5, MethodAgrees DEF Rest
  <1> QED BY <1>6

LEMMA ListIssuesAgrees ==
    Agrees(Rest({"owner", "repo"}, {Else(<<"state">>), Fixed},
        {"owner", "repo"}, {"state"}))
  <1> DEFINE P == {"owner", "repo"}
             B == {Else(<<"state">>), Fixed}
             R == {"owner", "repo"}
             O == {"state"}
  <1>1. \A n \in {"owner", "repo", "state"} : Plain(n)
    BY DEF Plain, Integers
  <1>2. \A n \in (R \cup O) \ P : \E b \in B : FilledBy(b, n)
    BY <1>1, FieldsOfOneName
  <1>3. \A b \in B : AskedFine(b, R)
    BY OtherFields
  <1>4. \A n \in R \ P : \E b \in B : AsksFor(b, n, R \cup O)
    OBVIOUS
  <1>5. P \subseteq R /\ \A n \in P : Plain(n)
    BY <1>1
  <1>6. Agrees(Rest(P, B, R, O))
    <2> HIDE DEF P, B, R, O
    <2> QED BY <1>2, <1>3, <1>4, <1>5, MethodAgrees DEF Rest
  <1> QED BY <1>6

LEMMA CommentIssueAgrees ==
    Agrees(Rest({"owner", "repo", "issue_number"}, {Needs(<<"body">>)},
        {"owner", "repo", "issue_number", "body"}, {}))
  <1> DEFINE P == {"owner", "repo", "issue_number"}
             B == {Needs(<<"body">>)}
             R == {"owner", "repo", "issue_number", "body"}
             O == {}
  <1>1. \A n \in {"owner", "repo", "issue_number", "body"} : Plain(n)
    BY DEF Plain, Integers
  <1>2. \A n \in (R \cup O) \ P : \E b \in B : FilledBy(b, n)
    BY <1>1, FieldsOfOneName
  <1>3. \A b \in B : AskedFine(b, R)
    <2>1. AskedFine(Needs(<<"body">>), R)
      BY <1>1, FieldsOfOneName
    <2> QED BY <2>1
  <1>4. \A n \in R \ P : \E b \in B : AsksFor(b, n, R \cup O)
    <2>1. AsksFor(Needs(<<"body">>), "body", R \cup O)
      BY FieldsOfOneName
    <2> QED BY <2>1
  <1>5. P \subseteq R /\ \A n \in P : Plain(n)
    BY <1>1
  <1>6. Agrees(Rest(P, B, R, O))
    <2> HIDE DEF P, B, R, O
    <2> QED BY <1>2, <1>3, <1>4, <1>5, MethodAgrees DEF Rest
  <1> QED BY <1>6

LEMMA GithubIssuesAgree == TableAgrees(GithubIssues)
  BY BareMethodAgrees, CreateIssueAgrees, ListIssuesAgrees, CommentIssueAgrees DEF
     TableAgrees, GithubIssues

LEMMA CreatePullAgrees ==
    Agrees(Rest({"owner", "repo"}, {Needs(<<"title">>), Needs(<<"head">>),
                                    Needs(<<"base">>), May(<<"body">>)},
        {"owner", "repo", "title", "head", "base"}, {"body"}))
  <1> DEFINE P == {"owner", "repo"}
             B == {Needs(<<"title">>), Needs(<<"head">>), Needs(<<"base">>),
                   May(<<"body">>)}
             R == {"owner", "repo", "title", "head", "base"}
             O == {"body"}
  <1>1. \A n \in {"owner", "repo", "title", "head", "base", "body"} : Plain(n)
    BY DEF Plain, Integers
  <1>2. \A n \in (R \cup O) \ P : \E b \in B : FilledBy(b, n)
    BY <1>1, FieldsOfOneName
  <1>3. \A b \in B : AskedFine(b, R)
    <2>1. AskedFine(Needs(<<"title">>), R)
      BY <1>1, FieldsOfOneName
    <2>2. AskedFine(Needs(<<"head">>), R)
      BY <1>1, FieldsOfOneName
    <2>3. AskedFine(Needs(<<"base">>), R)
      BY <1>1, FieldsOfOneName
    <2> QED BY <2>1, <2>2, <2>3, OtherFields
  <1>4. \A n \in R \ P : \E b \in B : AsksFor(b, n, R \cup O)
    <2>1. AsksFor(Needs(<<"title">>), "title", R \cup O)
      BY FieldsOfOneName
    <2>2. AsksFor(Needs(<<"head">>), "head", R \cup O)
      BY FieldsOfOneName
    <2>3. AsksFor(Needs(<<"base">>), "base", R \cup O)
      BY FieldsOfOneName
    <2> QED BY <2>1, <2>2, <2>3
  <1>5. P \subseteq R /\ \A n \in P : Plain(n)
    BY <1>1
  <1>6. Agrees(Rest(P, B, R, O))
    <2> HIDE DEF P, B, R, O
    <2> QED BY <1>2, <1>3, <1>4, <1>5, MethodAgrees DEF Rest
  <1> QED BY <1>6

LEMMA GithubPullsAgree == TableAgrees(GithubPulls)
  BY ListIssuesAgrees, CreatePullAgrees DEF TableAgrees, GithubPulls

LEMMA CreateLinearIssueAgrees ==
    Agrees(Graphql({Needs(<<"team_id", "teamId">>), Needs(<<"title">>),
                    May(<<"description">> \o Markdown)},
        {"team_id", "title"}, {"description"}))
  <1> DEFINE B == {Needs(<<"team_id", "teamId">>), Needs(<<"title">>),
                   May(<<"description">> \o Markdown)}
             R == {"team_id", "title"}
             O == {"description"}
  <1>1. \A n \in {"team_id", "title", "description"} : Plain(n)
    BY DEF Plain, Integers
  <1>2. \A n \in (R \cup O) : \E b \in B : FilledBy(b, n)
    BY <1>1, FieldsOfOneName, FieldsOfTwoNames, FieldsOfMoreNames
  <1>3. \A b \in B : AskedFine(b, R)
    <2>1. AskedFine(Needs(<<"team_id", "teamId">>), R)
      BY <1>1, FieldsOfTwoNames
    <2>2. AskedFine(Needs(<<"title">>), R)
      BY <1>1, FieldsOfOneName
    <2> QED BY <2>1, <2>2, OtherFields
  <1>4. \A n \in R : \E b \in B : AsksFor(b, n, R \cup O)
    <2>1. AsksFor(Needs(<<"team_id", "teamId">>), "team_id", R \cup O)
      BY FieldsOfTwoNames
    <2>2. AsksFor(Needs(<<"title">>), "title", R \cup O)
      BY FieldsOfOneName
    <2> QED BY <2>1, <2>2
  <1>5. Agrees(Graphql(B, R, O))
    <2> HIDE DEF B, R, O
    <2> QED BY <1>2, <1>3, <1>4, MethodAgrees DEF Graphql
  <1> QED BY <1>5

LEMMA UpdateStatusAgrees ==
    Agrees(Graphql({Needs(<<"issue_id", "issueId">>),
                    Needs(<<"state_id", "stateId">>)},
        {"issue_id", "state_id"}, {}))
  <1> DEFINE B == {Needs(<<"issue_id", "issueId">>),
                   Needs(<<"state_id", "stateId">>)}
             R == {"issue_id", "state_id"}
             O == {}
  <1>1. \A n \in {"issue_id", "state_id"} : Plain(n)
    BY DEF Plain, Integers
  <1>2. \A n \in (R \cup O) : \E b \in B : FilledBy(b, n)
    BY <1>1, FieldsOfOneName, FieldsOfTwoNames
  <1>3. \A b \in B : AskedFine(b, R)
    <2>1. AskedFine(Needs(<<"issue_id", "issueId">>), R)
      BY <1>1, FieldsOfTwoNames
    <2>2. AskedFine(Needs(<<"state_id", "stateId">>), R)
      BY <1>1, FieldsOfTwoNames
    <2> QED BY <2>1, <2>2
  <1>4. \A n \in R : \E b \in B : AsksFor(b, n, R \cup O)
    <2>1. AsksFor(Needs(<<"issue_id", "issueId">>), "issue_id", R \cup O)
      BY FieldsOfTwoNames
    <2>2. AsksFor(Needs(<<"state_id", "stateId">>), "state_id", R \cup O)
      BY FieldsOfTwoNames
    <2> QED BY <2>1, <2>2
  <1>5. Agrees(Graphql(B, R, O))
    <2> HIDE DEF B, R, O
    <2> QED BY <1>2, <1>3, <1>4, MethodAgrees DEF Graphql
  <1> QED BY <1>5

LEMMA CommentLinearIssueAgrees ==
    Agrees(Graphql({Needs(<<"issue_id", "issueId">>), Needs(<<"body">>)},
        {"issue_id", "body"}, {}))
  <1> DEFINE B == {Needs(<<"issue_id", "issueId">>), Needs(<<"body">>)}
             R == {"issue_id", "body"}
             O == {}
  <1>1. \A n \in {"issue_id", "body"} : Plain(n)
    BY DEF Plain, Integers
  <1>2. \A n \in (R \cup O) : \E b \in B : FilledBy(b, n)
    BY <1>1, FieldsOfOneName, FieldsOfTwoNames
  <1>3. \A b \in B : AskedFine(b, R)
    <2>1. AskedFine(Needs(<<"issue_id", "issueId">>), R)
      BY <1>1, FieldsOfTwoNames
    <2>2. AskedFine(Needs(<<"body">>), R)
      BY <1>1, FieldsOfOneName
    <2> QED BY <2>1, <2>2
  <1>4. \A n \in R : \E b \in B : AsksFor(b, n, R \cup O)
    <2>1. AsksFor(Needs(<<"issue_id", "issueId">>), "issue_id", R \cup O)
      BY FieldsOfTwoNames
    <2>2. AsksFor(Needs(<<"body">>), "body", R \cup O)
      BY FieldsOfOneName
    <2> QED BY <2>1, <2>2
  <1>5. Agrees(Graphql(B, R, O))
    <2> HIDE DEF B, R, O
    <2> QED BY <1>2, <1>3, <1>4, MethodAgrees DEF Graphql
  <1> QED BY <1>5

LEMMA LinearToolsAgree == TableAgrees(LinearTools)
  BY BareQueryAgrees, CreateLinearIssueAgrees, UpdateStatusAgrees,
     CommentLinearIssueAgrees DEF TableAgrees, LinearTools

LEMMA ListActorsAgrees ==
    Agrees(Rest({}, {Fixed, Count(<<"limit">>)},
        {}, {"limit"}))
  <1> DEFINE P == {}
             B == {Fixed, Count(<<"limit">>)}
             R == {}
             O == {"limit"}
  <1>2. \A n \in (R \cup O) \ P : \E b \in B : FilledBy(b, n)
    BY FieldsOfOneName DEF Integers
  <1>3. \A b \in B : AskedFine(b, R)
    BY OtherFields
  <1>4. \A n \in R \ P : \E b \in B : AsksFor(b, n, R \cup O)
    OBVIOUS
  <1>5. P \subseteq R /\ \A n \in P : Plain(n)
    OBVIOUS
  <1>6. Agrees(Rest(P, B, R, O))
    <2> HIDE DEF P, B, R, O
    <2> QED BY <1>2, <1>3, <1>4, <1>5, MethodAgrees DEF Rest
  <1> QED BY <1>6

LEMMA GetRunAgrees == Agrees(Rest({"run_id"}, {}, {"run_id"}, {}))
  <1>1. \A n \in {"run_id"} : Plain(n)
    BY DEF Plain, Integers
  <1> QED BY <1>1, MethodWithoutFields DEF Rest

LEMMA GetItemsAgrees ==
    Agrees(Rest({"dataset_id"}, {Fixed, Count(<<"limit">>)},
        {"dataset_id"}, {"limit"}))
  <1> DEFINE P == {"dataset_id"}
             B == {Fixed, Count(<<"limit">>)}
             R == {"dataset_id"}
             O == {"limit"}
  <1>1. \A n \in {"dataset_id"} : Plain(n)
    BY DEF Plain, Integers
  <1>2. \A n \in (R \cup O) \ P : \E b \in B : FilledBy(b, n)
    BY <1>1, FieldsOfOneName DEF Integers
  <1>3. \A b \in B : AskedFine(b, R)
    BY OtherFields
  <1>4. \A n \in R \ P : \E b \in B : AsksFor(b, n, R \cup O)
    OBVIOUS
  <1>5. P \subseteq R /\ \A n \in P : Plain(n)
    BY <1>1
  <1>6. Agrees(Rest(P, B, R, O))
    <2> HIDE DEF P, B, R, O
    <2> QED BY <1>2, <1>3, <1>4, <1>5, MethodAgrees DEF Rest
  <1> QED BY <1>6

LEMMA ApifyListsAgree == TableAgrees(ApifyLists)
  BY ListActorsAgrees, GetRunAgrees, GetItemsAgrees DEF TableAgrees, ApifyLists

LEMMA RunActorForItemsAgrees ==
    Agrees(Rest({"actor_id"}, {Fixed, Count(<<"limit">>), Root(<<"input">>)},
        {"actor_id"}, {"input", "limit"}))
  <1> DEFINE P == {"actor_id"}
             B == {Fixed, Count(<<"limit">>), Root(<<"input">>)}
             R == {"actor_id"}
             O == {"input", "limit"}
  <1>1. \A n \in {"actor_id"} : Plain(n)
    BY DEF Plain, Integers
  <1>2. \A n \in (R \cup O) \ P : \E b \in B : FilledBy(b, n)
    BY <1>1, FieldsOfOneName DEF Integers
  <1>3. \A b \in B : AskedFine(b, R)
    BY OtherFields
  <1>4. \A n \in R \ P : \E b \in B : AsksFor(b, n, R \cup O)
    OBVIOUS
  <1>5. P \subseteq R /\ \A n \in P : Plain(n)
    BY <1>1
  <1>6. Agrees(Rest(P, B, R, O))
    <2> HIDE DEF P, B, R, O
    <2> QED BY <1>2, <1>3, <1>4, <1>5, MethodAgrees DEF Rest
  <1> QED BY <1>6

LEMMA RunActorAgrees ==
    Agrees(Rest({"actor_id"}, {Root(<<"input">>)},
        {"actor_id"}, {"input"}))
  <1> DEFINE P == {"actor_id"}
             B == {Root(<<"input">>)}
             R == {"actor_id"}
             O == {"input"}
  <1>1. \A n \in {"actor_id"} : Plain(n)
    BY DEF Plain, Integers
  <1>2. \A n \in (R \cup O) \ P : \E b \in B : FilledBy(b, n)
    BY <1>1, FieldsOfOneName
  <1>3. \A b \in B : AskedFine(b, R)
    BY OtherFields
  <1>4. \A n \in R \ P : \E b \in B : AsksFor(b, n, R \cup O)
    OBVIOUS
  <1>5. P \subseteq R /\ \A n \in P : Plain(n)
    BY <1>1
  <1>6. Agrees(Rest(P, B, R, O))
    <2> HIDE DEF P, B, R, O
    <2> QED BY <1>2, <1>3, <1>4, <1>5, MethodAgrees DEF Rest
  <1> QED BY <1>6

LEMMA ApifyRunsAgree == TableAgrees(ApifyRuns)
  BY RunActorForItemsAgrees, RunActorAgrees DEF TableAgrees, ApifyRuns

LEMMA ListChannelsAgrees ==
    Agrees(Rest({}, {Fixed},
        {}, {}))
  <1> DEFINE P == {}
             B == {Fixed}
             R == {}
             O == {}
  <1>2. \A n \in (R \cup O) \ P : \E b \in B : FilledBy(b, n)
    OBVIOUS
  <1>3. \A b \in B : AskedFine(b, R)
    BY OtherFields
  <1>4. \A n \in R \ P : \E b \in B : AsksFor(b, n, R \cup O)
    OBVIOUS
  <1>5. P \subseteq R /\ \A n \in P : Plain(n)
    OBVIOUS
  <1>6. Agrees(Rest(P, B, R, O))
    <2> HIDE DEF P, B, R, O
    <2> QED BY <1>2, <1>3, <1>4, <1>5, MethodAgrees DEF Rest
  <1> QED BY <1>6

LEMMA PostMessageAgrees ==
    Agrees(Rest({}, {Needs(<<"channel_id", "channelId">>),
                     Needs(<<"text", "message">>)},
        {"channel_id", "text"}, {}))
  <1> DEFINE P == {}
             B == {Needs(<<"channel_id", "channelId">>),
                   Needs(<<"text", "message">>)}
             R == {"channel_id", "text"}
             O == {}
  <1>1. \A n \in {"channel_id", "text"} : Plain(n)
    BY DEF Plain, Integers
  <1>2. \A n \in (R \cup O) \ P : \E b \in B : FilledBy(b, n)
    BY <1>1, FieldsOfOneName, FieldsOfTwoNames
  <1>3. \A b \in B : AskedFine(b, R)
    <2>1. AskedFine(Needs(<<"channel_id", "channelId">>), R)
      BY <1>1, FieldsOfTwoNames
    <2>2. AskedFine(Needs(<<"text", "message">>), R)
      BY <1>1, FieldsOfTwoNames
    <2> QED BY <2>1, <2>2
  <1>4. \A n \in R \ P : \E b \in B : AsksFor(b, n, R \cup O)
    <2>1. AsksFor(Needs(<<"channel_id", "channelId">>), "channel_id", R \cup O)
      BY FieldsOfTwoNames
    <2>2. AsksFor(Needs(<<"text", "message">>), "text", R \cup O)
      BY FieldsOfTwoNames
    <2> QED BY <2>1, <2>2
  <1>5. P \subseteq R /\ \A n \in P : Plain(n)
    OBVIOUS
  <1>6. Agrees(Rest(P, B, R, O))
    <2> HIDE DEF P, B, R, O
    <2> QED BY <1>2, <1>3, <1>4, <1>5, MethodAgrees DEF Rest
  <1> QED BY <1>6

LEMMA SlackToolsAgree == TableAgrees(SlackTools)
  BY ListChannelsAgrees, PostMessageAgrees DEF TableAgrees, SlackTools

LEMMA SearchAgrees ==
    Agrees(Method("brave", {}, {Needs(<<"query", "q">>), Count(<<"count">>),
                                May(<<"freshness">>), May(<<"country">>),
                                May(<<"search_lang", "searchLang">>)},
        {"query"}, {"count", "freshness", "country", "search_lang"}))
  <1> DEFINE P == {}
             B == {Needs(<<"query", "q">>), Count(<<"count">>),
                   May(<<"freshness">>), May(<<"country">>),
                   May(<<"search_lang", "searchLang">>)}
             R == {"query"}
             O == {"count", "freshness", "country", "search_lang"}
  <1>1. \A n \in {"query", "freshness", "country", "search_lang"} : Plain(n)
    BY DEF Plain, Integers
  <1>2. \A n \in (R \cup O) \ P : \E b \in B : FilledBy(b, n)
    BY <1>1, FieldsOfOneName, FieldsOfTwoNames DEF Integers
  <1>3. \A b \in B : AskedFine(b, R)
    <2>1. AskedFine(Needs(<<"query", "q">>), R)
      BY <1>1, FieldsOfTwoNames
    <2> QED BY <2>1, OtherFields
  <1>4. \A n \in R \ P : \E b \in B : AsksFor(b, n, R \cup O)
    <2>1. AsksFor(Needs(<<"query", "q">>), "query", R \cup O)
      BY FieldsOfTwoNames
    <2> QED BY <2>1
  <1>5. P \subseteq R /\ \A n \in P : Plain(n)
    OBVIOUS
  <1>6. Agrees(Method("brave", P, B, R, O))
    <2> HIDE DEF P, B, R, O
    <2> QED BY <1>2, <1>3, <1>4, <1>5, MethodAgrees
  <1> QED BY <1>6

LEMMA BraveToolsAgree == TableAgrees(BraveTools)
  BY SearchAgrees DEF TableAgrees, BraveTools

LEMMA ListIconsAgrees ==
    Agrees(Rest({}, {May(<<"term", "query", "q">>), May(<<"slug">>),
                     Count(<<"page">>),
                     Count(<<"per_page", "perPage", "limit">>), May(<<"order">>)},
        {}, {"term", "slug", "page", "per_page", "order"}))
  <1> DEFINE P == {}
             B == {May(<<"term", "query", "q">>), May(<<"slug">>),
                   Count(<<"page">>), Count(<<"per_page", "perPage", "limit">>),
                   May(<<"order">>)}
             R == {}
             O == {"term", "slug", "page", "per_page", "order"}
  <1>1. \A n \in {"term", "slug", "order"} : Plain(n)
    BY DEF Plain, Integers
  <1>2. \A n \in (R \cup O) \ P : \E b \in B : FilledBy(b, n)
    BY <1>1, FieldsOfOneName, FieldsOfMoreNames DEF Integers
  <1>3. \A b \in B : AskedFine(b, R)
    BY OtherFields
  <1>4. \A n \in R \ P : \E b \in B : AsksFor(b, n, R \cup O)
    OBVIOUS
  <1>5. P \subseteq R /\ \A n \in P : Plain(n)
    OBVIOUS
  <1>6. Agrees(Rest(P, B, R, O))
    <2> HIDE DEF P, B, R, O
    <2> QED BY <1>2, <1>3, <1>4, <1>5, MethodAgrees DEF Rest
  <1> QED BY <1>6

LEMMA FreepikIconsAgree == TableAgrees(FreepikIcons)
  BY ListIconsAgrees DEF TableAgrees, FreepikIcons

LEMMA ImprovePromptAgrees ==
    Agrees(Rest({}, {Needs(<<"prompt">>), Else(<<"type">>), May(<<"language">>)},
        {"prompt"}, {"type", "language"}))
  <1> DEFINE P == {}
             B == {Needs(<<"prompt">>), Else(<<"type">>), May(<<"language">>)}
             R == {"prompt"}
             O == {"type", "language"}
  <1>1. \A n \in {"prompt", "type", "language"} : Plain(n)
    BY DEF Plain, Integers
  <1>2. \A n \in (R \cup O) \ P : \E b \in B : FilledBy(b, n)
    BY <1>1, FieldsOfOneName
  <1>3. \A b \in B : AskedFine(b, R)
    <2>1. AskedFine(Needs(<<"prompt">>), R)
      BY <1>1, FieldsOfOneName
    <2> QED BY <2>1, OtherFields
  <1>4. \A n \in R \ P : \E b \in B : AsksFor(b, n, R \cup O)
    <2>1. AsksFor(Needs(<<"prompt">>), "prompt", R \cup O)
      BY FieldsOfOneName
    <2> QED BY <2>1
  <1>5. P \subseteq R /\ \A n \in P : Plain(n)
    OBVIOUS
  <1>6. Agrees(Rest(P, B, R, O))
    <2> HIDE DEF P, B, R, O
    <2> QED BY <1>2, <1>3, <1>4, <1>5, MethodAgrees DEF Rest
  <1> QED BY <1>6

LEMMA GenerateImageAgrees ==
    Agrees(Rest({}, {Needs(<<"prompt">>),
                     May(<<"negative_prompt", "negativePrompt">>),
                     Else(<<"size">>), Count(<<"num_images", "numImages">>)},
        {"prompt"}, {"negative_prompt", "size", "num_images"}))
  <1> DEFINE P == {}
             B == {Needs(<<"prompt">>),
                   May(<<"negative_prompt", "negativePrompt">>),
                   Else(<<"size">>), Count(<<"num_images", "numImages">>)}
             R == {"prompt"}
             O == {"negative_prompt", "size", "num_images"}
  <1>1. \A n \in {"prompt", "negative_prompt", "size"} : Plain(n)
    BY DEF Plain, Integers
  <1>2. \A n \in (R \cup O) \ P : \E b \in B : FilledBy(b, n)
    BY <1>1, FieldsOfOneName, FieldsOfTwoNames DEF Integers
  <1>3. \A b \in B : AskedFine(b, R)
    <2>1. AskedFine(Needs(<<"prompt">>), R)
      BY <1>1, FieldsOfOneName
    <2> QED BY <2>1, OtherFields
  <1>4. \A n \in R \ P : \E b \in B : AsksFor(b, n, R \cup O)
    <2>1. AsksFor(Needs(<<"prompt">>), "prompt", R \cup O)
      BY FieldsOfOneName
    <2> QED BY <2>1
  <1>5. P \subseteq R /\ \A n \in P : Plain(n)
    OBVIOUS
  <1>6. Agrees(Rest(P, B, R, O))
    <2> HIDE DEF P, B, R, O
    <2> QED BY <1>2, <1>3, <1>4, <1>5, MethodAgrees DEF Rest
  <1> QED BY <1>6

LEMMA FreepikImagesAgree == TableAgrees(FreepikImages)
  BY ImprovePromptAgrees, GenerateImageAgrees DEF TableAgrees, FreepikImages

LEMMA ListBrandsAgrees ==
    Agrees(Rest({}, {Config("userId"), Config("blogId")},
        {}, {}))
  <1> DEFINE P == {}
             B == {Config("userId"), Config("blogId")}
             R == {}
             O == {}
  <1>2. \A n \in (R \cup O) \ P : \E b \in B : FilledBy(b, n)
    OBVIOUS
  <1>3. \A b \in B : AskedFine(b, R)
    BY OtherFields
  <1>4. \A n \in R \ P : \E b \in B : AsksFor(b, n, R \cup O)
    OBVIOUS
  <1>5. P \subseteq R /\ \A n \in P : Plain(n)
    OBVIOUS
  <1>6. Agrees(Rest(P, B, R, O))
    <2> HIDE DEF P, B, R, O
    <2> QED BY <1>2, <1>3, <1>4, <1>5, MethodAgrees DEF Rest
  <1> QED BY <1>6

LEMMA ListPostsAgrees ==
    Agrees(Rest({}, {Config("userId"), Config("blogId"), Number(<<"start">>),
                     Number(<<"end">>)},
        {}, {"start", "end"}))
  <1> DEFINE P == {}
             B == {Config("userId"), Config("blogId"), Number(<<"start">>),
                   Number(<<"end">>)}
             R == {}
             O == {"start", "end"}
  <1>2. \A n \in (R \cup O) \ P : \E b \in B : FilledBy(b, n)
    BY FieldsOfOneName DEF Integers
  <1>3. \A b \in B : AskedFine(b, R)
    BY OtherFields
  <1>4. \A n \in R \ P : \E b \in B : AsksFor(b, n, R \cup O)
    OBVIOUS
  <1>5. P \subseteq R /\ \A n \in P : Plain(n)
    OBVIOUS
  <1>6. Agrees(Rest(P, B, R, O))
    <2> HIDE DEF P, B, R, O
    <2> QED BY <1>2, <1>3, <1>4, <1>5, MethodAgrees DEF Rest
  <1> QED BY <1>6

LEMMA MetricoolToolsAgree == TableAgrees(MetricoolTools)
  BY ListBrandsAgrees, ListPostsAgrees DEF TableAgrees, MetricoolTools

LEMMA ListMembersAgrees ==
    Agrees(Rest({"list_id"}, {Fixed},
        {"list_id"}, {}))
  <1> DEFINE P == {"list_id"}
             B == {Fixed}
             R == {"list_id"}
             O == {}
  <1>1. \A n \in {"list_id"} : Plain(n)
    BY DEF Plain, Integers
  <1>2. \A n \in (R \cup O) \ P : \E b \in B : FilledBy(b, n)
    OBVIOUS
  <1>3. \A b \in B : AskedFine(b, R)
    BY OtherFields
  <1>4. \A n \in R \ P : \E b \in B : AsksFor(b, n, R \cup O)
    OBVIOUS
  <1>5. P \subseteq R /\ \A n \in P : Plain(n)
    BY <1>1
  <1>6. Agrees(Rest(P, B, R, O))
    <2> HIDE DEF P, B, R, O
    <2> QED BY <1>2, <1>3, <1>4, <1>5, MethodAgrees DEF Rest
  <1> QED BY <1>6

LEMMA AddMemberAgrees ==
    Agrees(Rest({"list_id"}, {Needs(<<"email_address", "emailAddress">>),
                              Else(<<"status">>)},
        {"list_id", "email_address"}, {"status"}))
  <1> DEFINE P == {"list_id"}
             B == {Needs(<<"email_address", "emailAddress">>),
                   Else(<<"status">>)}
             R == {"list_id", "email_address"}
             O == {"status"}
  <1>1. \A n \in {"list_id", "email_address", "status"} : Plain(n)
    BY DEF Plain, Integers
  <1>2. \A n \in (R \cup O) \ P : \E b \in B : FilledBy(b, n)
    BY <1>1, FieldsOfOneName, FieldsOfTwoNames
  <1>3. \A b \in B : AskedFine(b, R)
    <2>1. AskedFine(Needs(<<"email_address", "emailAddress">>), R)
      BY <1>1, FieldsOfTwoNames
    <2> QED BY <2>1, OtherFields
  <1>4. \A n \in R \ P : \E b \in B : AsksFor(b, n, R \cup O)
    <2>1. AsksFor(Needs(<<"email_address", "emailAddress">>), "email_address", R \cup O)
      BY FieldsOfTwoNames
    <2> QED BY <2>1
  <1>5. P \subseteq R /\ \A n \in P : Plain(n)
    BY <1>1
  <1>6. Agrees(Rest(P, B, R, O))
    <2> HIDE DEF P, B, R, O
    <2> QED BY <1>2, <1>3, <1>4, <1>5, MethodAgrees DEF Rest
  <1> QED BY <1>6

LEMMA GetContentAgrees == Agrees(Rest({"campaign_id"}, {}, {"campaign_id"}, {}))
  <1>1. \A n \in {"campaign_id"} : Plain(n)
    BY DEF Plain, Integers
  <1> QED BY <1>1, MethodWithoutFields DEF Rest

LEMMA MailchimpToolsAgree == TableAgrees(MailchimpTools)
  BY BareMethodAgrees, ListMembersAgrees, AddMemberAgrees, GetContentAgrees DEF
     TableAgrees, MailchimpTools

LEMMA SendEmailAgrees ==
    Agrees(Method("resend", {}, {Needs(<<"from">>), Many(<<"to">>, TRUE),
                                 Needs(<<"subject">>), May(<<"html">>),
                                 May(<<"text">>), Many(<<"cc">>, FALSE),
                                 Many(<<"bcc">>, FALSE)},
        {"from", "to", "subject"}, {"html", "text", "cc", "bcc"}))
  <1> DEFINE P == {}
             B == {Needs(<<"from">>), Many(<<"to">>, TRUE),
                   Needs(<<"subject">>), May(<<"html">>), May(<<"text">>),
                   Many(<<"cc">>, FALSE), Many(<<"bcc">>, FALSE)}
             R == {"from", "to", "subject"}
             O == {"html", "text", "cc", "bcc"}
  <1>1. \A n \in {"from", "subject", "html", "text"} : Plain(n)
    BY DEF Plain, Integers
  <1>2. \A n \in (R \cup O) \ P : \E b \in B : FilledBy(b, n)
    BY <1>1, FieldsOfOneName DEF Lists
  <1>3. \A b \in B : AskedFine(b, R)
    <2>1. AskedFine(Needs(<<"from">>), R)
      BY <1>1, FieldsOfOneName
    <2>2. AskedFine(Many(<<"to">>, TRUE), R)
      BY FieldsOfOneName DEF Lists
    <2>3. AskedFine(Needs(<<"subject">>), R)
      BY <1>1, FieldsOfOneName
    <2> QED BY <2>1, <2>2, <2>3, OtherFields
  <1>4. \A n \in R \ P : \E b \in B : AsksFor(b, n, R \cup O)
    <2>1. AsksFor(Needs(<<"from">>), "from", R \cup O)
      BY FieldsOfOneName
    <2>2. AsksFor(Many(<<"to">>, TRUE), "to", R \cup O)
      BY FieldsOfOneName
    <2>3. AsksFor(Needs(<<"subject">>), "subject", R \cup O)
      BY FieldsOfOneName
    <2> QED BY <2>1, <2>2, <2>3
  <1>5. P \subseteq R /\ \A n \in P : Plain(n)
    OBVIOUS
  <1>6. Agrees(Method("resend", P, B, R, O))
    <2> HIDE DEF P, B, R, O
    <2> QED BY <1>2, <1>3, <1>4, <1>5, MethodAgrees
  <1> QED BY <1>6

LEMMA ResendToolsAgree == TableAgrees(ResendTools)
  BY BareMethodAgrees, SendEmailAgrees DEF TableAgrees, ResendTools

LEMMA SearchPagesAgrees ==
    Agrees(Rest({}, {Needs(<<"query">>)},
        {"query"}, {}))
  <1> DEFINE P == {}
             B == {Needs(<<"query">>)}
             R == {"query"}
             O == {}
  <1>1. \A n \in {"query"} : Plain(n)
    BY DEF Plain, Integers
  <1>2. \A n \in (R \cup O) \ P : \E b \in B : FilledBy(b, n)
    BY <1>1, FieldsOfOneName
  <1>3. \A b \in B : AskedFine(b, R)
    <2>1. AskedFine(Needs(<<"query">>), R)
      BY <1>1, FieldsOfOneName
    <2> QED BY <2>1
  <1>4. \A n \in R \ P : \E b \in B : AsksFor(b, n, R \cup O)
    <2>1. AsksFor(Needs(<<"query">>), "query", R \cup O)
      BY FieldsOfOneName
    <2> QED BY <2>1
  <1>5. P \subseteq R /\ \A n \in P : Plain(n)
    OBVIOUS
  <1>6. Agrees(Rest(P, B, R, O))
    <2> HIDE DEF P, B, R, O
    <2> QED BY <1>2, <1>3, <1>4, <1>5, MethodAgrees DEF Rest
  <1> QED BY <1>6

LEMMA CreatePageAgrees ==
    Agrees(Rest({}, {Needs(<<"parent_page_id", "parentPageId">>),
                     Needs(<<"title">>), May(<<"content">> \o Markdown)},
        {"parent_page_id", "title"}, {"content"}))
  <1> DEFINE P == {}
             B == {Needs(<<"parent_page_id", "parentPageId">>),
                   Needs(<<"title">>), May(<<"content">> \o Markdown)}
             R == {"parent_page_id", "title"}
             O == {"content"}
  <1>1. \A n \in {"parent_page_id", "title", "content"} : Plain(n)
    BY DEF Plain, Integers
  <1>2. \A n \in (R \cup O) \ P : \E b \in B : FilledBy(b, n)
    BY <1>1, FieldsOfOneName, FieldsOfTwoNames, FieldsOfMoreNames
  <1>3. \A b \in B : AskedFine(b, R)
    <2>1. AskedFine(Needs(<<"parent_page_id", "parentPageId">>), R)
      BY <1>1, FieldsOfTwoNames
    <2>2. AskedFine(Needs(<<"title">>), R)
      BY <1>1, FieldsOfOneName
    <2> QED BY <2>1, <2>2, OtherFields
  <1>4. \A n \in R \ P : \E b \in B : AsksFor(b, n, R \cup O)
    <2>1. AsksFor(Needs(<<"parent_page_id", "parentPageId">>), "parent_page_id", R \cup O)
      BY FieldsOfTwoNames
    <2>2. AsksFor(Needs(<<"title">>), "title", R \cup O)
      BY FieldsOfOneName
    <2> QED BY <2>1, <2>2
  <1>5. P \subseteq R /\ \A n \in P : Plain(n)
    OBVIOUS
  <1>6. Agrees(Rest(P, B, R, O))
    <2> HIDE DEF P, B, R, O
    <2> QED BY <1>2, <1>3, <1>4, <1>5, MethodAgrees DEF Rest
  <1> QED BY <1>6

LEMMA NotionToolsAgree == TableAgrees(NotionTools)
  BY SearchPagesAgrees, CreatePageAgrees DEF TableAgrees, NotionTools

-----------------------------------------------------------------------------
(* The tables together, and who is asked for a tool.                       *)

LEMMA WholeTableAgrees ==
    ASSUME NEW tables, \A part \in tables : TableAgrees(part)
    PROVE  TableAgrees(WholeTable(tables))
  BY DEF TableAgrees, WholeTable

LEMMA TrustedTablesAgree ==
    \A p \in DOMAIN TrustedTables : TableAgrees(TrustedTables[p])
  <1>1. TableAgrees(WholeTable({GithubIssues, GithubPulls}))
    BY GithubIssuesAgree, GithubPullsAgree, WholeTableAgrees
  <1>2. TableAgrees(WholeTable({ApifyLists, ApifyRuns}))
    BY ApifyListsAgree, ApifyRunsAgree, WholeTableAgrees
  <1>3. TableAgrees(WholeTable({FreepikIcons, FreepikImages}))
    BY FreepikIconsAgree, FreepikImagesAgree, WholeTableAgrees
  <1> QED
    BY <1>1, <1>2, <1>3, LinearToolsAgree, SlackToolsAgree, BraveToolsAgree,
       MetricoolToolsAgree, MailchimpToolsAgree, ResendToolsAgree
    DEF TrustedTables

\* The provider that is found for a tool of the table has it.
LEMMA TrustedHaveProviders ==
    \A t \in Trusted : /\ TrustedProvider(t) \in DOMAIN TrustedTables
                       /\ t \in DOMAIN TrustedTables[TrustedProvider(t)]
  BY DEF Trusted, TrustedProvider

\* Whatever is served is served by a method that agrees with its schema.
LEMMA ServedAgree == \A t \in Served : Agrees(MethodOf(t))
  <1>1. \A t \in Trusted : Agrees(TrustedTables[TrustedProvider(t)][t])
    BY TrustedHaveProviders, TrustedTablesAgree DEF TableAgrees
  <1>2. \A t \in DOMAIN NotionTools : Agrees(NotionTools[t])
    BY NotionToolsAgree DEF TableAgrees
  <1> QED BY <1>1, <1>2 DEF Served, MethodOf

Unlisted(part) == "list_org_integrations" \notin DOMAIN part

LEMMA ListIsNotServed == "list_org_integrations" \notin Served
  <1>1. Unlisted(GithubIssues) /\ Unlisted(GithubPulls)
    BY DEF Unlisted, GithubIssues, GithubPulls
  <1>2. Unlisted(ApifyLists) /\ Unlisted(ApifyRuns)
    BY DEF Unlisted, ApifyLists, ApifyRuns
  <1>3. Unlisted(FreepikIcons) /\ Unlisted(FreepikImages)
    BY DEF Unlisted, FreepikIcons, FreepikImages
  <1>4. Unlisted(LinearTools) /\ Unlisted(SlackTools)
    BY DEF Unlisted, LinearTools, SlackTools
  <1>5. Unlisted(BraveTools) /\ Unlisted(MetricoolTools)
    BY DEF Unlisted, BraveTools, MetricoolTools
  <1>6. Unlisted(MailchimpTools) /\ Unlisted(ResendTools)
    BY DEF Unlisted, MailchimpTools, ResendTools
  <1>7. Unlisted(NotionTools)
    BY DEF Unlisted, NotionTools
  <1>8. \A tables : (\A part \in tables : Unlisted(part)) => Unlisted(WholeTable(tables))
    BY DEF Unlisted, WholeTable
  <1>9. /\ Unlisted(WholeTable({GithubIssues, GithubPulls}))
        /\ Unlisted(WholeTable({ApifyLists, ApifyRuns}))
        /\ Unlisted(WholeTable({FreepikIcons, FreepikImages}))
    BY <1>1, <1>2, <1>3, <1>8
  <1>10. \A p \in DOMAIN TrustedTables : Unlisted(TrustedTables[p])
    BY <1>4, <1>5, <1>6, <1>9 DEF TrustedTables
  <1> QED BY <1>7, <1>10 DEF Served, Trusted, Unlisted

\* A session is offered what is served, by somebody it can use, and the list.
LEMMA OfferedAreServed ==
    ASSUME Offered
    PROVE  (tool \in Served /\ usable) \/ tool = "list_org_integrations"
  <1>1. tool \in Manifest /\ (~usable => ProviderOf(tool) = "none")
    BY DEF Offered, OfferedTools
  <1>2. \A p \in DOMAIN TrustedTables : p # "none"
    BY DEF TrustedTables
  <1>3. CASE tool \in Trusted
    <2>1. ProviderOf(tool) # "none"
      BY <1>3, <1>2, TrustedHaveProviders DEF ProviderOf
    <2> QED BY <2>1, <1>1, <1>3 DEF Served
  <1>4. CASE tool \in DOMAIN NotionTools /\ tool \notin Trusted
    <2>1. ProviderOf(tool) = "notion"
      BY <1>4 DEF ProviderOf, LegacyTools
    <2> QED BY <2>1, <1>1, <1>4 DEF Served
  <1>5. CASE tool \notin Trusted /\ tool \notin DOMAIN NotionTools
    BY <1>1, <1>5 DEF Manifest, LegacyTools
  <1> QED BY <1>3, <1>4, <1>5

-----------------------------------------------------------------------------
(* One call.                                                               *)

\* What SendCall asks for.
Fits ==
    LET m == MethodOf(tool)
    IN  /\ PathFilled(m) /\ \A b \in m.bindings : ~MissesField(b)
        /\ KeyFits(ProviderOf(tool))

\* The first name of a field, given and read, is the one that fills it.
LEMMA FirstNameFills ==
    ASSUME NEW b, NEW n \in DOMAIN args, FilledBy(b, n), args[n] \in Sensible(n)
    PROVE  ReadFrom(b) = {n}
  <1> DEFINE fit == {i \in DOMAIN b.names :
                        b.names[i] \in DOMAIN args
                        /\ args[b.names[i]] \in Reads(b.type)}
             first == {j \in fit : \A k \in fit : j <= k}
  <1>1. 1 \in fit /\ fit \subseteq Nat \ {0}
    BY DEF FilledBy, Takes
  <1>2. first = {1}
    BY <1>1
  <1>3. ReadFrom(b) = {b.names[i] : i \in first}
    BY DEF ReadFrom, FilledBy
  <1> QED BY <1>2, <1>3 DEF FilledBy

\* A call that is meant well is sent, with all that it was given.
LEMMA MeantWellFits ==
    ASSUME tool \in Served, MeantWell, Configured
    PROVE  Fits /\ DOMAIN args \subseteq Built(MethodOf(tool)).carried
  <1> DEFINE m == MethodOf(tool)
  <1>0. Agrees(m)
    BY ServedAgree
  <1>1. /\ m.required \subseteq DOMAIN args
        /\ \A n \in DOMAIN args : n \in m.required \cup m.optional
                                  /\ args[n] \in Sensible(n)
    BY DEF MeantWell, Arguments
  <1> HIDE DEF m
  <1>2. PathFilled(m)
    BY <1>0, <1>1, TakesWhatIsAllowed DEF PathFilled, Agrees
  <1>3. \A b \in m.bindings : \A n \in DOMAIN args : FilledBy(b, n) => ReadFrom(b) = {n}
    BY <1>1, FirstNameFills
  <1>4. \A b \in m.bindings : ~MissesField(b)
    <2> SUFFICES ASSUME NEW b \in m.bindings, MissesField(b)
                 PROVE  FALSE
      OBVIOUS
    <2>1. Asked(b) /\ ReadFrom(b) = {}
      BY DEF MissesField, Asked
    <2>2. CASE b.config /\ b.type = "string"
      BY <2>1, <2>2, Readers DEF ReadFrom, Configured
    <2>3. CASE \E n \in m.required : FilledBy(b, n)
      BY <2>1, <2>3, <1>1, <1>3
    <2> QED BY <2>1, <2>2, <2>3, <1>0 DEF Agrees, AskedFine
  <1>5. DOMAIN args \subseteq m.path \cup UNION {ReadFrom(b) : b \in m.bindings}
    <2> SUFFICES ASSUME NEW n \in DOMAIN args, n \notin m.path
                 PROVE  \E b \in m.bindings : n \in ReadFrom(b)
      OBVIOUS
    <2>1. PICK b \in m.bindings : FilledBy(b, n)
      BY <1>0, <1>1 DEF Agrees
    <2> QED BY <2>1, <1>3
  <1>6. KeyFits(ProviderOf(tool))
    BY DEF KeyFits, Configured
  <1> QED BY <1>2, <1>4, <1>5, <1>6 DEF Fits, Built, m

\* What fits and has only arguments of the schema has all that are required.
LEMMA FittingHasRequired ==
    ASSUME tool \in Served, Fits, DOMAIN args \subseteq Arguments(tool)
    PROVE  MethodOf(tool).required \subseteq DOMAIN args
  <1> DEFINE m == MethodOf(tool)
  <1>0. Agrees(m)
    BY ServedAgree
  <1>1. PathFilled(m) /\ \A b \in m.bindings : ~MissesField(b)
    BY DEF Fits
  <1>2. DOMAIN args \subseteq m.required \cup m.optional
    BY DEF Arguments
  <1> HIDE DEF m
  <1> SUFFICES ASSUME NEW n \in m.required, n \notin m.path
               PROVE  n \in DOMAIN args
    BY <1>1 DEF PathFilled, m
  <1>3. PICK b \in m.bindings : AsksFor(b, n, m.required \cup m.optional)
    BY <1>0 DEF Agrees
  <1>4. ReadFrom(b) # {}
    BY <1>1, <1>3 DEF MissesField, AsksFor, Asked
  <1>5. \E i \in DOMAIN b.names : b.names[i] \in DOMAIN args
    BY <1>3, <1>4 DEF ReadFrom, AsksFor
  <1> QED BY <1>2, <1>3, <1>5 DEF AsksFor

WentOut == Fits /\ request = Built(MethodOf(tool))

\* What is true of a call at each step: nothing has been sent before it fits,
\* and whoever is told something is told what has happened.
CallInv ==
    /\ step \in {"idle", "called", "building", "sent", "answered", "done"}
    /\ step \in {"idle", "called", "building"} => request = NoRequest
    /\ step = "building" => tool \in Served /\ usable
    /\ step \in {"sent", "answered"} => tool \in Served /\ WentOut
    /\ step = "done" =>
          \/ tool = "list_org_integrations" /\ told = "list" /\ request = NoRequest
          \/ /\ tool \notin Served \cup {"list_org_integrations"}
             /\ request = NoRequest
          \/ /\ tool \in Served /\ request = NoRequest
             /\ ~usable \/ ~Fits
          \/ /\ tool \in Served /\ WentOut
             /\ reply \in {"unreachable", "refused", "garbled", "failure", "fine"}
             /\ told = "result" <=>
                   \/ reply = "fine"
                   \/ reply = "failure" /\ Passes(ProviderOf(tool))
    /\ step = "answered" =>
          reply \in {"unreachable", "refused", "garbled", "failure", "fine"}

LEMMA CallInvInit == ToolCallInit => CallInv
  BY DEF ToolCallInit, CallInv

\* Fits reads what was fixed when the call was made.
LEMMA FitsIsFixed ==
    ASSUME UNCHANGED <<form, tool, args>>
    PROVE  /\ Fits' <=> Fits
           /\ Built(MethodOf(tool))' = Built(MethodOf(tool))
  <1>1. \A b : ReadFrom(b)' = ReadFrom(b)
    BY DEF ReadFrom
  <1>2. \A b : MissesField(b)' <=> MissesField(b)
    BY <1>1 DEF MissesField
  <1>3. \A m : PathFilled(m)' <=> PathFilled(m)
    BY DEF PathFilled
  <1>4. \A p : KeyFits(p)' <=> KeyFits(p)
    BY DEF KeyFits
  <1>5. \A m : Built(m)' = Built(m)
    BY <1>1 DEF Built
  <1> QED BY <1>2, <1>3, <1>4, <1>5 DEF Fits

LEMMA CallInvStep == CallInv /\ [ToolCallNext]_toolCallVars => CallInv'
  <1> SUFFICES ASSUME CallInv, [ToolCallNext]_toolCallVars
               PROVE  CallInv'
    OBVIOUS
  <1>1. ASSUME NEW t \in ToolNames, CallTool(t)
        PROVE  CallInv'
    BY <1>1 DEF CallTool, CallInv
  <1>2. CASE DispatchTool
    <2>1. step = "called" /\ UNCHANGED request /\ request = NoRequest
      BY <1>2 DEF DispatchTool, CallInv
    <2>2. CASE tool = "list_org_integrations" /\ EndCall("list")
      BY <2>1, <2>2 DEF EndCall, CallInv
    <2>3. CASE tool \notin Served \cup {"list_org_integrations"} /\ EndCall("not found")
      BY <2>1, <2>3 DEF EndCall, CallInv
    <2>4. CASE tool \in Served /\ ~usable /\ EndCall("bad request")
      BY <2>1, <2>4 DEF EndCall, CallInv
    <2>5. CASE /\ tool \in Served /\ usable /\ step' = "building"
               /\ UNCHANGED <<usable, form, tool, args, told>>
      BY <2>1, <2>5 DEF CallInv
    <2> QED BY <1>2, <2>2, <2>3, <2>4, <2>5 DEF DispatchTool
  <1>3. CASE SendCall
    <2>1. UNCHANGED <<form, tool, args>>
      BY <1>3 DEF SendCall, EndCall
    <2>2. Fits' <=> Fits
      BY <2>1, FitsIsFixed
    <2>3. Built(MethodOf(tool))' = Built(MethodOf(tool))
      BY <2>1, FitsIsFixed
    <2>4. CASE Fits
      <3>1. request' = Built(MethodOf(tool)) /\ step' = "sent" /\ tool' = tool
        BY <1>3, <2>4 DEF SendCall, Fits
      <3> QED BY <1>3, <2>2, <2>3, <2>4, <3>1 DEF SendCall, CallInv, WentOut
    <2>5. CASE ~Fits
      <3>1. step' = "done" /\ UNCHANGED <<request, tool, usable>>
        BY <1>3, <2>5 DEF SendCall, Fits, EndCall
      <3> QED BY <1>3, <2>2, <2>5, <3>1 DEF SendCall, CallInv
    <2> QED BY <2>4, <2>5
  <1>4. CASE AnswerCall
    <2>1. UNCHANGED <<form, tool, args, request, reply>> /\ step' = "done"
      BY <1>4 DEF AnswerCall, EndCall
    <2>2. Fits' <=> Fits
      BY <2>1, FitsIsFixed
    <2>3. Built(MethodOf(tool))' = Built(MethodOf(tool))
      BY <2>1, FitsIsFixed
    <2>4. tool \in Served /\ Fits /\ request = Built(MethodOf(tool))
      BY <1>4 DEF AnswerCall, CallInv, WentOut
    <2>5. reply \in {"unreachable", "refused", "garbled", "failure", "fine"}
      BY <1>4 DEF AnswerCall, CallInv
    <2>6. told' = "result" <=>
             \/ reply = "fine"
             \/ reply = "failure" /\ Passes(ProviderOf(tool))
      BY <1>4, <2>5 DEF AnswerCall, EndCall
    <2> QED BY <2>1, <2>2, <2>3, <2>4, <2>5, <2>6 DEF CallInv, WentOut
  <1>5. ASSUME NEW r \in {"unreachable", "refused", "garbled", "failure", "fine"},
               ProviderReplies(r)
        PROVE  CallInv'
    <2>1. UNCHANGED <<form, tool, args, request>> /\ step' = "answered" /\ reply' = r
      BY <1>5 DEF ProviderReplies
    <2>2. Fits' <=> Fits
      BY <2>1, FitsIsFixed
    <2>3. Built(MethodOf(tool))' = Built(MethodOf(tool))
      BY <2>1, FitsIsFixed
    <2> QED BY <1>5, <2>1, <2>2, <2>3 DEF ProviderReplies, CallInv, WentOut
  <1>6. CASE UNCHANGED toolCallVars
    <2>1. UNCHANGED <<usable, form, step, tool, args, request, reply, told>>
      BY <1>6 DEF toolCallVars
    <2>2. Fits' <=> Fits
      BY <2>1, FitsIsFixed
    <2>3. Built(MethodOf(tool))' = Built(MethodOf(tool))
      BY <2>1, FitsIsFixed
    <2> QED BY <2>1, <2>2, <2>3 DEF CallInv, WentOut
  <1> QED BY <1>1, <1>2, <1>3, <1>4, <1>5, <1>6 DEF ToolCallNext

\* CallInv and the agreement of the tables give the property.
LEMMA CallInvServes == CallInv => OfferedCallsAreServed
  <1> SUFFICES ASSUME CallInv
               PROVE  OfferedCallsAreServed
    OBVIOUS
  <1>1. ASSUME step = "done", Offered, MeantWell, Configured,
               tool # "list_org_integrations"
        PROVE  /\ DOMAIN args \subseteq request.carried
               /\ request.key # "none"
               /\ (told = "result") <=>
                     (reply = "fine" \/ (reply = "failure"
                                         /\ ProviderOf(tool) \notin AnswersInBand))
    <2>1. tool \in Served /\ usable
      BY <1>1, OfferedAreServed
    <2>2. Fits /\ DOMAIN args \subseteq Built(MethodOf(tool)).carried
      BY <1>1, <2>1, MeantWellFits
    <2>3. /\ request = Built(MethodOf(tool))
          /\ told = "result" <=>
                \/ reply = "fine"
                \/ reply = "failure" /\ Passes(ProviderOf(tool))
      BY <1>1, <2>1, <2>2 DEF CallInv, WentOut
    <2>4. request.key # "none"
      <3>1. \A p : AuthScheme(p) # "none"
        BY DEF AuthScheme
      <3> QED BY <2>3, <3>1 DEF Built
    <2> QED BY <2>2, <2>3, <2>4 DEF Passes, AnswersInBand
  <1>2. ASSUME step = "done", Offered, tool = "list_org_integrations"
        PROVE  told = "list"
    BY <1>2, ListIsNotServed DEF CallInv
  <1>3. ASSUME request # NoRequest, DOMAIN args \subseteq Arguments(tool)
        PROVE  MethodOf(tool).required \subseteq DOMAIN args
    <2>1. tool \in Served /\ Fits
      BY <1>3 DEF CallInv, WentOut
    <2> QED BY <1>3, <2>1, FittingHasRequired
  <1> QED BY <1>1, <1>2, <1>3 DEF OfferedCallsAreServed

\* At every step of a call no more has been sent than the call allows, and
\* what its caller is told is what has happened.
THEOREM CallInvHolds == ToolCallSpec => []CallInv
  BY CallInvInit, CallInvStep, PTL DEF ToolCallSpec

\* Whatever the integration, the tool, its arguments and the answer: a call
\* that is offered and meant well goes out complete and its caller is told
\* what the provider did, and no call goes out without what it requires
\* (installed_workspace_app_tools, execute_trusted_integration_tool).
THEOREM OfferedCallsComplete == ToolCallSpec => []OfferedCallsAreServed
  BY CallInvHolds, CallInvServes, PTL

=============================================================================
