-------------------------------- MODULE Agents --------------------------------
(***************************************************************************)
(* One agent and its bindings to projects: handlers/agents/crud.rs and      *)
(* instances.rs with the services of the agents crate.  The agent's row is  *)
(* in the network service, its bindings ("project agents") in the storage   *)
(* service, the rest of its configuration and a shadow of the row in the    *)
(* local store, and nothing ties the three together.                        *)
(***************************************************************************)
EXTENDS Naturals, FiniteSets

CONSTANTS
    Users,       \* users at work at the same time
    Projects,
    First,       \* the project that automatic bindings go to
    MaxRequests  \* bound: requests to the agent

ASSUME AgentsAssumption == First \in Projects /\ MaxRequests \in Nat

VARIABLES
    agentRow,    \* in the network: machine_type of the agent, if it is there
    box,         \* the VM of the agent: "made" at the gateway, "known" to the row
    config,      \* local store: environment in the agent's runtime config
    agentShadow, \* local store: machine_type of its shadow
    bound,       \* in storage: the bindings
    handler,     \* per user: the request being handled
    requests,    \* requests so far
    asked,       \* history: the machine last asked for in a way that counts
    tidy,        \* history: no two edits at a time, no edit cut short
    unseen       \* history: projects that the deletion could not look into

agentRecords == <<agentRow, box, config, agentShadow, bound>>
historyVars == <<asked, tidy, unseen>>
agentsVars == <<agentRecords, handler, requests, historyVars>>

Machines == {"local", "remote"}
Errands == {"create", "update", "delete", "show", "bind", "chat", "events",
         "bridge", "unbind"}

\* A handler: its request and where it stands, the machine it is asked for and by
\* which field, what it has read, the projects it has still to look into or to bind
\* to, and those it could not look into.
Idle == [job |-> "none", phase |-> "idle", wish |-> "same", by |-> "environment",
         read |-> "nothing", left |-> {}, blind |-> {}]

AgentsInit ==
    /\ agentRow = "none" /\ box = "none" /\ config = "none" /\ agentShadow = "none"
    /\ bound = {} /\ handler = [u \in Users |-> Idle]
    /\ requests = 0 /\ asked = "none" /\ tidy = TRUE /\ unseen = {}

There == agentRow \in Machines
Stands(u, phase) == handler[u].phase = phase
Does(u, job) == handler[u].job = job
\* An edit goes on until its config is stored.
Editing ==
    \E u \in Users :
        Does(u, "update") \/ (Does(u, "create") /\ (Stands(u, "post") \/ Stands(u, "keep")))
Deleting == \E u \in Users : Does(u, "delete")

Goes(u, phase) == handler' = [handler EXCEPT ![u].phase = phase]
Done(u) == handler' = [handler EXCEPT ![u] = Idle]

\* apply_runtime_config: the local config has the last word on the machine.
Applied(machine) == IF config \in Machines THEN config ELSE machine

------------------------------------------------------------------------------
(* Requests                                                                  *)

FirstPhase(job) ==
    CASE job = "create" -> "post"
      [] job = "delete" -> "projects"
      [] job = "events" -> "match"
      [] job = "unbind" -> "unbind"
      [] OTHER -> "ask"

Wishes(job) ==
    CASE job = "create" -> Machines
      [] job = "update" -> Machines \cup {"same"}
      [] OTHER -> {"same"}

\* A request names the machine as an environment, or by machine_type alone; it is
\* all one to create_agent.
Fields == {"environment", "machine_type"}
FieldsFor(job, wish) ==
    IF job = "update" /\ wish # "same" THEN Fields ELSE {"environment"}

\* Projects it is about: bindings are asked for by project.
Targets(job) ==
    IF job \in {"bind", "bridge"} THEN {{p} : p \in Projects} ELSE {Projects}

Request(u) ==
    /\ Stands(u, "idle") /\ requests < MaxRequests /\ requests' = requests + 1
    /\ \E job \in Errands :
           /\ job = "create" <=> agentRow = "none" /\ ~Editing
           /\ \E wish \in Wishes(job), left \in Targets(job) :
              \E by \in FieldsFor(job, wish) :
                  handler' = [handler EXCEPT ![u] =
                      [Idle EXCEPT !.job = job, !.phase = FirstPhase(job),
                                   !.wish = wish, !.by = by, !.left = left]]
           /\ tidy' = (tidy /\ (job = "update" => ~Editing))
    /\ UNCHANGED <<agentRecords, asked, unseen>>

\* The network is asked for the agent; it may not answer.
AskNetwork(u) ==
    /\ Stands(u, "ask")
    /\ \E answer \in {agentRow, "failed"} :
           handler' = [handler EXCEPT ![u].phase = "take", ![u].read = answer]
    /\ UNCHANGED <<agentRecords, requests, historyVars>>

\* Mutant: what is read of the agent is the shadow or the answer as it is.
KnownRaw(u) ==
    IF handler[u].read \in Machines THEN handler[u].read
    ELSE IF Does(u, "update") \/ Does(u, "chat") \/ Does(u, "bridge") THEN agentShadow
    ELSE "none"

\* What the handler takes the agent for.  Without an answer update_agent and chats
\* go by the shadow (get_agent_local), the others end.
Known(u) ==
    IF handler[u].read \in Machines THEN Applied(handler[u].read)
    ELSE IF (Does(u, "update") \/ Does(u, "chat") \/ Does(u, "bridge"))
            /\ agentShadow # "none"
    THEN Applied(agentShadow)
    ELSE "none"

NextPhase(job) ==
    CASE job = "update" -> "put"
      [] job = "bind" -> "make"
      [] OTHER -> "match"

\* get_agent, list_agents and get_agent_async refresh the shadow with the answer,
\* if the store lets them.
Take(u) ==
    /\ Stands(u, "take")
    /\ IF Known(u) = "none" \/ Does(u, "show") THEN Done(u)
       ELSE handler' = [handler EXCEPT ![u].phase = NextPhase(handler[u].job),
                                       ![u].read = Known(u)]
    /\ \/ handler[u].read \in Machines /\ agentShadow' = Applied(handler[u].read)
       \/ UNCHANGED agentShadow
    /\ UNCHANGED <<agentRow, box, config, bound, requests, historyVars>>

------------------------------------------------------------------------------
(* create_agent and update_agent                                             *)

\* build_runtime_config or the network may refuse.
Post(u) ==
    /\ Stands(u, "post")
    /\ \/ agentRow' = handler[u].wish /\ asked' = handler[u].wish /\ Goes(u, "keep")
       \/ Done(u) /\ UNCHANGED <<agentRow, asked>>
    /\ UNCHANGED <<box, config, agentShadow, bound, requests, tidy, unseen>>

\* update_agent puts the environment it has read in the place of one that is not
\* named, and normalize_environment turns to machine_type only when there is none:
\* an update that names the machine by machine_type alone asks for nothing.
AsksForNone(u) ==
    handler[u].wish = "same" \/ (Does(u, "update") /\ handler[u].by = "machine_type")

Merged(u) == IF AsksForNone(u) THEN handler[u].read ELSE handler[u].wish

\* An update goes to the network first; it refuses it, or does not get it, or its
\* answer is lost.
Tell(u) ==
    /\ Stands(u, "put")
    /\ \/ /\ There /\ agentRow' = Merged(u)
          /\ asked' = IF AsksForNone(u) THEN asked ELSE handler[u].wish
          /\ \/ Goes(u, "keep") /\ UNCHANGED tidy
             \/ Done(u) /\ tidy' = FALSE
       \/ Done(u) /\ UNCHANGED <<agentRow, asked, tidy>>
    /\ UNCHANGED <<box, config, agentShadow, bound, requests, unseen>>

\* Then the config is stored; if this fails, so does the request.  A new agent for
\* a remote machine still needs its VM; one that is changed to remote gets none.
Keep(u) ==
    /\ Stands(u, "keep")
    /\ \/ /\ config' = Merged(u) /\ agentShadow' \in {agentShadow, Merged(u)}
          /\ IF Does(u, "create") /\ Merged(u) = "remote" THEN Goes(u, "provision")
                                                         ELSE Done(u)
          /\ UNCHANGED tidy
       \/ Done(u) /\ tidy' = FALSE /\ UNCHANGED <<config, agentShadow>>
    /\ UNCHANGED <<agentRow, box, bound, requests, asked, unseen>>

\* provision_swarm_agent: the gateway makes the VM, or refuses, or its answer is
\* lost.  The agent stays in any case.
Provision(u) ==
    /\ Stands(u, "provision")
    /\ \/ box' = "made" /\ (Goes(u, "record") \/ Done(u))
       \/ Done(u) /\ UNCHANGED box
    /\ UNCHANGED <<agentRow, config, agentShadow, bound, requests, historyVars>>

\* The id of the VM goes into the row.
RecordBox(u) ==
    /\ Stands(u, "record") /\ Done(u)
    /\ \/ There /\ box' = "known" /\ agentShadow' \in {agentShadow, Applied(agentRow)}
       \/ UNCHANGED <<box, agentShadow>>
    /\ UNCHANGED <<agentRow, config, bound, requests, historyVars>>

------------------------------------------------------------------------------
(* Bindings                                                                  *)

BoundIn(P) == {b \in bound : b.in \in P}

\* find_matching_project_agents: projects that cannot be listed count as having no
\* binding, and a new one goes to the first project.
Match(u) ==
    /\ Stands(u, "match") /\ ~Does(u, "bridge")
    /\ \E listed \in SUBSET Projects :
           IF BoundIn(listed) # {} THEN Done(u)
           ELSE handler' = [handler EXCEPT ![u].phase = "make",
                                           ![u].left = {First}]
    /\ UNCHANGED <<agentRecords, requests, historyVars>>

\* resolve_or_create_project_agent_instance_id: the project must be listed.
MatchForBridge(u) ==
    /\ Stands(u, "match") /\ Does(u, "bridge")
    /\ Done(u) \/ (BoundIn(handler[u].left) = {} /\ Goes(u, "make"))
    /\ UNCHANGED <<agentRecords, requests, historyVars>>

\* create_project_agent asks nobody whether the agent exists.
Make(u) ==
    /\ Stands(u, "make") /\ Done(u)
    /\ \/ \E p \in handler[u].left :
              bound' = bound \cup {[by |-> u, in |-> p,
                                    late |-> Deleting \/ agentRow = "gone"]}
       \/ UNCHANGED bound
    /\ UNCHANGED <<agentRow, box, config, agentShadow, requests, historyVars>>

\* remove_agent_project_binding, delete_agent_instance
Unbind(u) ==
    /\ Stands(u, "unbind") /\ Done(u)
    /\ UNCHANGED bound \/ \E b \in bound : bound' = bound \ {b}
    /\ UNCHANGED <<agentRow, box, config, agentShadow, requests, historyVars>>

------------------------------------------------------------------------------
(* delete_agent                                                              *)

ListProjects(u) ==
    /\ Stands(u, "projects") /\ (Goes(u, "check") \/ Done(u))
    /\ UNCHANGED <<agentRecords, requests, historyVars>>

\* Mutant: one project that has no binding is enough.
CheckOne(u) ==
    /\ Stands(u, "check") /\ handler[u].left # {}
    /\ \E p \in handler[u].left :
           \/ BoundIn({p}) # {} /\ Done(u)
           \/ BoundIn({p}) = {} /\ handler' = [handler EXCEPT ![u].left = {}]
    /\ UNCHANGED <<agentRecords, requests, historyVars>>

\* One project after the other; one that cannot be listed is passed over.
Check(u) ==
    /\ Stands(u, "check")
    /\ \E p \in handler[u].left :
           \/ BoundIn({p}) # {} /\ Done(u)
           \/ BoundIn({p}) = {}
              /\ handler' = [handler EXCEPT ![u].left = @ \ {p}]
           \/ handler' = [handler EXCEPT ![u].left = @ \ {p},
                                         ![u].blind = @ \cup {p}]
    /\ UNCHANGED <<agentRecords, requests, historyVars>>

\* The network deletes it, or fails (also when it is gone), or its answer is lost.
Delete(u) ==
    /\ Stands(u, "check") /\ handler[u].left = {}
    /\ \/ /\ There /\ agentRow' = "gone" /\ unseen' = handler[u].blind
          /\ (Goes(u, "forget") \/ Done(u))
       \/ Done(u) /\ UNCHANGED <<agentRow, unseen>>
    /\ UNCHANGED <<box, config, agentShadow, bound, requests, asked, tidy>>

\* Errors of the local store are passed over.
Forget(u) ==
    /\ Stands(u, "forget") /\ Done(u)
    /\ config' \in {config, "none"} /\ agentShadow' \in {agentShadow, "none"}
    /\ UNCHANGED <<agentRow, box, bound, requests, historyVars>>

AgentsNext ==
    \E u \in Users :
        \/ Request(u) \/ AskNetwork(u) \/ Take(u)
        \/ Post(u) \/ Keep(u) \/ Provision(u) \/ RecordBox(u)
        \/ Tell(u)
        \/ Match(u) \/ MatchForBridge(u) \/ Make(u) \/ Unbind(u)
        \/ ListProjects(u) \/ Check(u) \/ Delete(u) \/ Forget(u)

AgentsSpec == AgentsInit /\ [][AgentsNext]_agentsVars

------------------------------------------------------------------------------
(* Properties                                                                *)

\* Every variable holds values of its type.
AgentsTypeOK ==
    /\ agentRow \in Machines \cup {"none", "gone"}
    /\ box \in {"none", "made", "known"}
    /\ config \in Machines \cup {"none"} /\ agentShadow \in Machines \cup {"none"}
    /\ bound \subseteq [by : Users, in : Projects, late : BOOLEAN]
    /\ handler \in [Users ->
           [job : Errands \cup {"none"},
            phase : {"idle", "post", "keep", "provision", "record", "ask", "take",
                     "put", "match", "make", "unbind", "projects", "check",
                     "forget"},
            wish : Machines \cup {"same"}, by : Fields,
            read : Machines \cup {"none", "gone", "nothing", "failed"},
            left : SUBSET Projects, blind : SUBSET Projects]]
    /\ requests \in 0 .. MaxRequests
    /\ asked \in Machines \cup {"none"} /\ tidy \in BOOLEAN
    /\ unseen \subseteq Projects

\* An agent is not deleted from under its bindings: what is bound to an agent that
\* is gone was bound while it was being deleted or later, or in a project that the
\* deletion could not look into.
NoBindingIsOrphaned ==
    agentRow = "gone" => \A b \in bound : b.late \/ b.in \in unseen

\* As long as edits come one at a time and none is cut short, the network and the
\* local config agree on the machine that was last asked for, by the creation or
\* by the environment of an update, though the other updates start from what they
\* could read, even from the shadow.  What an update names by machine_type alone is
\* not asked for: the code drops it.
LastWishHolds ==
    tidy /\ There /\ ~Editing =>
        agentRow = asked /\ config = asked
=============================================================================
