--------------------------- MODULE SuperAgentTools ---------------------------
(***************************************************************************)
(* The tools of the super agent (tools/*.rs and tier.rs of                  *)
(* aura-os-super-agent): which of them a chat request offers to the model,  *)
(* which of them the chat can run, what each needs and asks of others, and  *)
(* what its result says of it.  One tool use of one chat request.  Contents *)
(* are left out: a tool is its domain, the arguments its schema requires,   *)
(* and the requests it makes, in order.                                     *)
(***************************************************************************)
EXTENDS Naturals, Sequences, Tables

VARIABLES
    clients,   \* those the server has been given, of the network and of Orbit
    about,     \* the domain the user's message is about, besides the usual ones
    used,      \* the tool the model uses
    way,       \* the requests this use makes
    at,        \* how many of them have been made
    left,      \* those among them that have changed something
    unsure,    \* an answer has been lost
    undo,      \* of create_project: where the deletion of its new project stands
    answer     \* what the tool's result says

toolVars == <<clients, about, used, way, at, left, unsure, undo, answer>>

-----------------------------------------------------------------------------
(* The tables.  Requests are "read" and "write", whose failure is the end;  *)
(* "asked", a read whose refusal is passed on; "tried", a read that need    *)
(* not succeed; "run", which has an outcome of its own; "repo", of           *)
(* create_project, whose failure has the project deleted again.             *)

Tool(domain, required, network, ways) ==
    [domain |-> domain, required |-> required, network |-> network, ways |-> ways,
     assumed |-> {}]
\* Tools of the network service, and tools that do without.
Net(domain, required, ways) == Tool(domain, required, TRUE, ways)
Own(domain, required, ways) == Tool(domain, required, FALSE, ways)
Read == {<<"read">>}
Write == {<<"write">>}
Rewrite == {<<"read", "write">>}
AsksNobody == {<<>>}
\* A required argument that is taken to be empty when it is missing.
Assuming(tool, name) == [tool EXCEPT !.assumed = {name}]

CreateProject ==
    [create_project |->
        Assuming(Net("project", {"name"}, {<<"write", "repo">>}), "name")]
LookAtProjects ==
    [import_project |-> Own("project", {}, AsksNobody),
     list_projects |-> Own("project", {}, Read),
     get_project |-> Own("project", {"project_id"}, Read)]
ChangeProjects ==
    [update_project |-> Net("project", {"project_id"}, Write),
     delete_project |-> Net("project", {"project_id"}, Write),
     archive_project |-> Own("project", {"project_id"}, Write)]
CountProject ==
    [get_project_stats |->
        Own("project", {"project_id"}, {<<"read", "tried">>, <<"read">>})]

FirstAgentTools ==
    [list_agents |-> Own("agent", {}, Read),
     get_agent |-> Own("agent", {"agent_id"}, Read),
     assign_agent_to_project |-> Net("agent", {"project_id", "agent_id"}, Write)]
AgentTools ==
    [create_agent |-> Assuming(Net("agent", {"name"}, Write), "name"),
     update_agent |-> Net("agent", {"agent_id"}, Write),
     delete_agent |-> Net("agent", {"agent_id"}, Write)]
InstanceTools ==
    [list_agent_instances |-> Net("agent", {"project_id"}, Read),
     update_agent_instance |->
        Net("agent", {"project_id", "agent_instance_id", "status"}, Write),
     delete_agent_instance |-> Net("agent", {"project_id", "agent_instance_id"}, Write),
     remote_agent_action |-> Net("agent", {"agent_id", "action"}, Write)]

StartTools ==
    [start_dev_loop |-> Own("execution", {"project_id", "agent_instance_id"}, Write),
     pause_dev_loop |-> Own("execution", {"automaton_id"}, Write)]
StopTools ==
    [stop_dev_loop |-> Own("execution", {"automaton_id"}, Write),
     get_loop_status |-> Own("execution", {"automaton_id"}, Read),
     send_to_agent |->
        Net("execution", {"project_id", "agent_instance_id", "message"}, Write)]

FirstMonitorTools ==
    [get_fleet_status |-> Net("monitoring", {}, Read),
     get_progress_report |-> Net("monitoring", {}, Read),
     get_project_cost |-> Own("monitoring", {"project_id"}, AsksNobody)]
MonitorTools ==
    [get_leaderboard |-> Net("monitoring", {}, {<<"asked">>}),
     get_usage_stats |-> Net("monitoring", {}, {<<"asked">>, <<"asked", "asked">>}),
     list_sessions |-> Net("monitoring", {"project_id", "agent_instance_id"}, Read),
     list_log_entries |-> Net("monitoring", {}, Read)]

FirstBillingTools == [get_credit_balance |-> Own("billing", {}, Read)]
BillingTools ==
    [get_transactions |-> Net("billing", {}, Read),
     get_billing_account |-> Net("billing", {}, Read),
     purchase_credits |-> Net("billing", {"amount_usd"}, Write)]

LookAtTasks ==
    [list_tasks |-> Net("task", {"project_id"}, Read),
     list_tasks_by_spec |-> Net("task", {"project_id", "spec_id"}, Read),
     get_task |-> Net("task", {"project_id", "task_id"}, Read),
     \* spec_id is required as well, but left out of the request when missing
     create_task |->
        [Net("task", {"project_id", "title", "spec_id"}, Write) EXCEPT
            !.assumed = {"title", "spec_id"}]]
ChangeTasks ==
    [update_task |-> Net("task", {"project_id", "task_id"}, Write),
     delete_task |-> Net("task", {"project_id", "task_id"}, Write),
     extract_tasks |-> Net("task", {"project_id"}, Write),
     transition_task |-> Net("task", {"project_id", "task_id", "new_status"}, Write)]
RunTasks ==
    [retry_task |-> Net("task", {"project_id", "task_id"}, Write),
     run_task |-> Net("task", {"project_id", "task_id"}, Write),
     get_task_output |-> Net("task", {"project_id", "task_id"}, Read)]

SpecTools ==
    [list_specs |-> Net("spec", {"project_id"}, Read),
     get_spec |-> Net("spec", {"project_id", "spec_id"}, Read),
     create_spec |-> Net("spec", {"project_id", "title"}, Write),
     update_spec |-> Net("spec", {"project_id", "spec_id"}, Write)]
GenerateSpecs ==
    [delete_spec |-> Net("spec", {"project_id", "spec_id"}, Write),
     generate_specs |-> Net("spec", {"project_id"}, Write),
     generate_specs_summary |-> Net("spec", {"project_id"}, Write)]

OrgTools ==
    [list_orgs |-> Net("org", {}, Read),
     create_org |-> Assuming(Net("org", {"name"}, Write), "name"),
     get_org |-> Net("org", {"org_id"}, Read),
     update_org |-> Net("org", {"org_id"}, Write),
     list_members |-> Net("org", {"org_id"}, Read)]
\* An invite is revoked by its id; without one, and for any other action than
\* list, create and revoke, there is nothing to ask for.
MemberTools ==
    [update_member_role |-> Net("org", {"org_id", "user_id", "role"}, Write),
     remove_member |-> Net("org", {"org_id", "user_id"}, Write),
     manage_invites |-> Net("org", {"org_id", "action"}, Read \cup Write \cup {<<"refuse">>})]

PostTools ==
    [list_feed |-> Net("social", {}, Read),
     create_post |-> Net("social", {"title"}, Write),
     get_post |-> Net("social", {"post_id"}, Read),
     add_comment |-> Net("social", {"post_id", "content"}, Write)]
FollowTools ==
    [delete_comment |-> Net("social", {"comment_id"}, Write),
     follow_profile |-> Net("social", {"target_profile_id"}, Write),
     unfollow_profile |-> Net("social", {"target_profile_id"}, Write),
     list_follows |-> Net("social", {}, Read)]

SystemTools ==
    [browse_files |-> Net("system", {"path"}, Read),
     read_file |-> Net("system", {"path"}, Read),
     get_environment_info |-> Net("system", {}, Read),
     get_remote_agent_state |-> Net("system", {"agent_id"}, Read)]

ImageTools == [generate_image |-> Own("generation", {"prompt"}, Write)]
ModelTools ==
    [generate_3d_model |-> Own("generation", {"image_url"}, Write),
     get_3d_status |-> Own("generation", {"task_id"}, Read)]

\* The meta-tool, which only answers.
LoadDomainTools == [load_domain_tools |-> Own("system", {"domains"}, AsksNobody)]

\* An expression that is not a schedule is refused.
CreateCronJob ==
    [create_cron_job |->
        Own("cron", {"name", "description", "schedule", "prompt"}, Write \cup {<<"refuse">>})]
EditCronJobs ==
    [list_cron_jobs |-> Own("cron", {}, Read),
     update_cron_job |-> Own("cron", {"cron_job_id"}, Rewrite \cup {<<"read", "refuse">>})]
PauseCronJobs ==
    [delete_cron_job |-> Own("cron", {"cron_job_id"}, Write),
     pause_cron_job |-> Own("cron", {"cron_job_id"}, Rewrite)]
TriggerCronJobs ==
    [resume_cron_job |-> Own("cron", {"cron_job_id"}, Rewrite),
     trigger_cron_job |-> Own("cron", {"cron_job_id"}, {<<"read", "run">>})]
LookAtCronRuns ==
    [list_cron_runs |-> Own("cron", {"cron_job_id"}, Read),
     get_artifact |-> Own("cron", {"artifact_id"}, Read),
     list_artifacts |-> Own("cron", {"cron_job_id"}, Read)]

\* A process is saved, then its ignition node.
CreateProcesses == [create_process |-> Own("process", {"name"}, {<<"write", "write">>})]
ChangeProcesses ==
    [list_processes |-> Own("process", {}, Read),
     trigger_process |-> Own("process", {"process_id"}, {<<"run">>}),
     delete_process |-> Own("process", {"process_id"}, Write),
     list_process_runs |-> Own("process", {"process_id"}, Read)]

-----------------------------------------------------------------------------
(* Registries.                                                             *)

Tier1Tables ==
    {CreateProject, LookAtProjects, ChangeProjects, CountProject, FirstAgentTools,
     StartTools, StopTools, FirstMonitorTools, FirstBillingTools, LoadDomainTools}

\* with_all_tools
AllTables ==
    Tier1Tables \cup
    {SpecTools, GenerateSpecs, LookAtTasks, ChangeTasks, RunTasks, AgentTools,
     InstanceTools, OrgTools, MemberTools, BillingTools, PostTools, FollowTools,
     MonitorTools, SystemTools, ImageTools, ModelTools}

\* register_cron_tools, register_process_tools
JobTables ==
    {CreateCronJob, EditCronJobs, PauseCronJobs, TriggerCronJobs, LookAtCronRuns,
     CreateProcesses, ChangeProcesses}

\* The registry SuperAgentService::new makes, which chats offer tools from.
ServiceRegistry == WholeTable(Tier1Tables \cup JobTables)

\* The registry a chat runs tools with.
ChatRegistry == WholeTable(AllTables)

UsualDomains == {"project", "agent", "execution", "monitoring"}
Domains ==
    {"org", "billing", "social", "task", "spec", "system", "generation",
     "cron", "process"}

\* classify_intent and tools_for_domains: what the model is offered.
OfferedFor(domain) ==
    {t \in DOMAIN ServiceRegistry :
        ServiceRegistry[t].domain \in UsualDomains \cup {domain}}

-----------------------------------------------------------------------------
(* A tool use.                                                             *)

ToolsInit ==
    /\ clients \in SUBSET {"network", "orbit"}
    /\ about \in Domains \cup {"none"}
    /\ used = "none" /\ way = <<>> /\ at = 0
    /\ left = {} /\ unsure = FALSE /\ undo = "none" /\ answer = "none"

\* The tool's checks, in which a required argument may be missing.
BeginsUse(t, lacks, w) ==
    LET tool == ChatRegistry[t]
    IN  /\ way' = w
        /\ answer' = IF (tool.network /\ "network" \notin clients)
                        \/ lacks \in tool.required \ tool.assumed
                     THEN "error" ELSE "none"

\* The model uses a tool it has been offered, or one that an earlier message
\* of the conversation has taught it.
UseTool(t, lacks) ==
    /\ used' = t
    /\ IF t \in DOMAIN ChatRegistry
       THEN \E w \in ChatRegistry[t].ways : BeginsUse(t, lacks, w)
       ELSE answer' = "unknown tool" /\ UNCHANGED way
    /\ UNCHANGED <<clients, about, at, left, unsure, undo>>

\* The next request has come to an end: its effect, and the answer if it is
\* the last.
Comes(effect, lost, says) ==
    /\ at' = at + 1
    /\ left' = left \cup effect
    /\ unsure' = (unsure \/ lost)
    /\ answer' = IF says = "ok" /\ at + 1 < Len(way) THEN "none" ELSE says
    /\ UNCHANGED <<clients, about, used, way, undo>>

Going(kinds) ==
    /\ used # "none" /\ answer = "none" /\ undo = "none"
    /\ at < Len(way) /\ way[at + 1] \in kinds

Changing == {"write", "run", "repo"}
EffectOf(kind) == IF kind \in Changing THEN {at + 1} ELSE {}

\* network_get, _post, _put, _delete and what others do in their place.
RequestDone ==
    /\ Going({"read", "asked", "tried", "write", "run"})
    /\ Comes(EffectOf(way[at + 1]), FALSE, "ok")
RequestRefused ==
    \/ Going({"read", "write", "run", "refuse"}) /\ Comes({}, FALSE, "error")
    \* a refusal that is passed on is an error unless another one follows or
    \* has gone before
    \/ /\ Going({"asked", "tried"})
       /\ Comes({}, FALSE, IF way = <<"asked">> THEN "error" ELSE "ok")
\* No answer comes; what was to be changed may have been.
RequestLost ==
    /\ Going({"read", "asked", "write", "run"})
    /\ \E effect \in SUBSET EffectOf(way[at + 1]) : Comes(effect, TRUE, "error")

\* Mutant: the project is left without its repo.
RepoFailsKeeping ==
    /\ Going({"repo"})
    /\ Comes({}, FALSE, "error")

\* create_project, ensure_repo: without a client for Orbit the project stays as it
\* is.  When the repo cannot be made, or no answer comes and it may have been, the
\* project is to be deleted again.
RepoFails ==
    /\ Going({"repo"})
    /\ \/ "orbit" \notin clients /\ Comes({}, FALSE, "error")
       \/ /\ "orbit" \in clients /\ undo' = "due"
          /\ \/ UNCHANGED <<left, unsure>>
             \/ left' \in {left, left \cup {at + 1}} /\ unsure' = TRUE
          /\ UNCHANGED <<clients, about, used, way, at, answer>>
RepoMade == Going({"repo"}) /\ "orbit" \in clients /\ Comes({at + 1}, FALSE, "ok")

\* The project, the request before, is deleted, or this is refused, or no answer
\* comes.  The tool looks at none of this: its error is that of the repo, and says
\* that the project was rolled back.
UndoProject ==
    /\ undo = "due" /\ at' = at + 1 /\ answer' = "error"
    /\ \/ undo' = "done" /\ left' = left \ {at} /\ UNCHANGED unsure
       \/ undo' = "refused" /\ UNCHANGED <<left, unsure>>
       \/ undo' = "lost" /\ left' \in {left, left \ {at}} /\ unsure' = TRUE
    /\ UNCHANGED <<clients, about, used, way>>

\* A tool that asks nobody.
JustAnswers ==
    /\ used # "none" /\ answer = "none" /\ way = <<>>
    /\ answer' = "ok"
    /\ UNCHANGED <<clients, about, used, way, at, left, unsure, undo>>

RequiredBy(t) == IF t \in DOMAIN ChatRegistry THEN ChatRegistry[t].required ELSE {}

ToolsNext ==
    \/ /\ used = "none"
       /\ \E t \in OfferedFor(about) \cup DOMAIN ChatRegistry \cup {"no_such_tool"} :
             \E lacks \in RequiredBy(t) \cup {"nothing"} : UseTool(t, lacks)
    \/ RequestDone \/ RequestRefused \/ RequestLost
    \/ RepoFails \/ RepoMade \/ UndoProject \/ JustAnswers

ToolsSpec == ToolsInit /\ [][ToolsNext]_toolVars

-----------------------------------------------------------------------------
(* Properties.                                                             *)

\* A tool that the model has been offered is one that the chat can run.
OfferedToolsAreKnown ==
    used \in OfferedFor(about) => answer # "unknown tool"

\* What a use was to change.
ToBeChanged == {i \in DOMAIN way : way[i] \in Changing}

\* A good result means that all that was to be changed has been.  An error after
\* which no answer is missing means that nothing has, but for one tool: a new project
\* stays, and nothing with it, if the server has no client for Orbit, and if its
\* repo was refused and its deletion was refused too, which create_project does not
\* look at and answers as if it had been deleted.
ResultsAreTrue ==
    /\ answer = "ok" => left = ToBeChanged
    /\ (answer = "error" /\ ~unsure) =>
          \/ left = {}
          \/ /\ used = "create_project" /\ left = {1}
             /\ "orbit" \notin clients \/ undo = "refused"
=============================================================================
