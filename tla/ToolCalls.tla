----------------------------- MODULE ToolCalls ------------------------------
(***************************************************************************)
(* One call of a tool of an organisation: from the catalog that offers it   *)
(* (aura-os-integrations), through its integration and the table of methods *)
(* (trusted_methods.rs) that says how its arguments become a request, to    *)
(* the provider's answer (trusted_runtime.rs, org_tools.rs).  Values are    *)
(* kept as kinds: what matters is which reader takes them.  Addresses, the  *)
(* places of fields within a request and the fields of answers are left out.*)
(***************************************************************************)
EXTENDS Naturals, Sequences, Tables

VARIABLES
    usable,     \* the organisation has an enabled integration with a key
    form,       \* that integration: its key and its config
    step,       \* where the call stands
    tool,       \* the tool that is called
    args,       \* its arguments: name -> kind of value
    request,    \* what has been sent
    reply,      \* how the provider has answered
    told        \* what the caller is told

toolCallVars == <<usable, form, step, tool, args, request, reply, told>>

-----------------------------------------------------------------------------
(* Kinds of values, and what takes them.                                   *)

ValueKinds == {"text", "blank", "natural", "negative", "texts", "object"}

\* What the published schemas allow: a string, unless the argument is named
\* otherwise.
Integers == {"limit", "count", "page", "per_page", "num_images", "start", "end"}
SchemaAllows(name) ==
    CASE name \in Integers -> {"natural", "negative"}
      [] name = "input" -> ValueKinds
      [] name \in {"to", "cc", "bcc"} -> {"text", "blank", "texts"}
      [] OTHER -> {"text", "blank"}

\* What a caller with something to say gives.
Sensible(name) == SchemaAllows(name) \ {"blank", "negative"}

\* optional_string, optional_string_list, optional_positive_number and
\* optional_json_from_names: a value they do not take counts as not given.
Reads(type) ==
    CASE type = "string" -> {"text"}
      [] type = "strings" -> {"text", "texts"}
      [] type = "number" -> {"natural"}
      [] type = "json" -> ValueKinds

\* TrustedIntegrationArgBinding: the first of the names that can be read
\* fills the field, else the default; without either a required field fails.
Binding(names, type, required, default) ==
    [names |-> names, type |-> type, required |-> required,
     default |-> default, config |-> FALSE]
Needs(names) == Binding(names, "string", TRUE, FALSE)
May(names) == Binding(names, "string", FALSE, FALSE)
Else(names) == Binding(names, "string", FALSE, TRUE)
Count(names) == Binding(names, "number", FALSE, TRUE)
Number(names) == Binding(names, "number", FALSE, FALSE)
Root(names) == Binding(names, "json", FALSE, TRUE)
Many(names, required) == Binding(names, "strings", required, FALSE)
Config(name) == [Needs(<<name>>) EXCEPT !.config = TRUE]
Fixed == Binding(<<>>, "string", FALSE, TRUE)

\* A method: how it is sent, the keys of its path, its bindings, and the
\* arguments its schema requires and allows besides integration_id.
Method(runtime, path, bindings, required, optional) ==
    [runtime |-> runtime, path |-> path, bindings |-> bindings,
     required |-> required, optional |-> optional]
Rest(path, bindings, required, optional) ==
    Method("rest", path, bindings, required, optional)
Graphql(bindings, required, optional) ==
    Method("graphql", {}, bindings, required, optional)

-----------------------------------------------------------------------------
(* The table of methods, by provider.                                      *)

Markdown == <<"body", "markdown_contents", "markdownContents">>

GithubIssues ==
    [github_list_repos |-> Rest({}, {}, {}, {}),
     github_create_issue |->
        Rest({"owner", "repo"}, {Needs(<<"title">>), May(Markdown)},
             {"owner", "repo", "title"}, {"body"}),
     github_list_issues |->
        Rest({"owner", "repo"}, {Else(<<"state">>), Fixed},
             {"owner", "repo"}, {"state"}),
     github_comment_issue |->
        Rest({"owner", "repo", "issue_number"}, {Needs(<<"body">>)},
             {"owner", "repo", "issue_number", "body"}, {})]

GithubPulls ==
    [github_list_pull_requests |->
        Rest({"owner", "repo"}, {Else(<<"state">>), Fixed},
             {"owner", "repo"}, {"state"}),
     github_create_pull_request |->
        Rest({"owner", "repo"},
             {Needs(<<"title">>), Needs(<<"head">>), Needs(<<"base">>), May(<<"body">>)},
             {"owner", "repo", "title", "head", "base"}, {"body"})]

LinearTools ==
    [linear_list_teams |-> Graphql({}, {}, {}),
     linear_create_issue |->
        Graphql({Needs(<<"team_id", "teamId">>), Needs(<<"title">>),
                 May(<<"description">> \o Markdown)},
                {"team_id", "title"}, {"description"}),
     linear_list_issues |-> Graphql({}, {}, {}),
     linear_update_issue_status |->
        Graphql({Needs(<<"issue_id", "issueId">>), Needs(<<"state_id", "stateId">>)},
                {"issue_id", "state_id"}, {}),
     linear_comment_issue |->
        Graphql({Needs(<<"issue_id", "issueId">>), Needs(<<"body">>)},
                {"issue_id", "body"}, {})]

ApifyLists ==
    [apify_list_actors |-> Rest({}, {Fixed, Count(<<"limit">>)}, {}, {"limit"}),
     apify_get_run |-> Rest({"run_id"}, {}, {"run_id"}, {}),
     apify_get_dataset_items |->
        Rest({"dataset_id"}, {Fixed, Count(<<"limit">>)}, {"dataset_id"}, {"limit"})]

ApifyRuns ==
    [apify_run_actor_get_dataset_items |->
        Rest({"actor_id"}, {Fixed, Count(<<"limit">>), Root(<<"input">>)},
             {"actor_id"}, {"input", "limit"}),
     apify_run_actor |->
        Rest({"actor_id"}, {Root(<<"input">>)}, {"actor_id"}, {"input"})]

SlackTools ==
    [slack_list_channels |-> Rest({}, {Fixed}, {}, {}),
     slack_post_message |->
        Rest({}, {Needs(<<"channel_id", "channelId">>), Needs(<<"text", "message">>)},
             {"channel_id", "text"}, {})]

BraveTools ==
    [t \in {"brave_search_web", "brave_search_news"} |->
        Method("brave", {}, {Needs(<<"query", "q">>), Count(<<"count">>),
                             May(<<"freshness">>), May(<<"country">>),
                             May(<<"search_lang", "searchLang">>)},
               {"query"}, {"count", "freshness", "country", "search_lang"})]

FreepikIcons ==
    [freepik_list_icons |->
        Rest({}, {May(<<"term", "query", "q">>), May(<<"slug">>),
                  Count(<<"page">>), Count(<<"per_page", "perPage", "limit">>),
                  May(<<"order">>)},
             {}, {"term", "slug", "page", "per_page", "order"})]

FreepikImages ==
    [freepik_improve_prompt |->
        Rest({}, {Needs(<<"prompt">>), Else(<<"type">>), May(<<"language">>)},
             {"prompt"}, {"type", "language"}),
     freepik_generate_image |->
        Rest({}, {Needs(<<"prompt">>), May(<<"negative_prompt", "negativePrompt">>),
                  Else(<<"size">>), Count(<<"num_images", "numImages">>)},
             {"prompt"}, {"negative_prompt", "size", "num_images"})]

MetricoolTools ==
    LET brand == {Config("userId"), Config("blogId")}
    IN  [metricool_list_brands |-> Rest({}, brand, {}, {}),
         metricool_list_posts |->
            Rest({}, brand \cup {Number(<<"start">>), Number(<<"end">>)},
                 {}, {"start", "end"})]

MailchimpTools ==
    [mailchimp_list_audiences |-> Rest({}, {}, {}, {}),
     mailchimp_list_campaigns |-> Rest({}, {}, {}, {}),
     mailchimp_list_members |-> Rest({"list_id"}, {Fixed}, {"list_id"}, {}),
     mailchimp_add_member |->
        Rest({"list_id"}, {Needs(<<"email_address", "emailAddress">>), Else(<<"status">>)},
             {"list_id", "email_address"}, {"status"}),
     mailchimp_get_campaign_content |->
        Rest({"campaign_id"}, {}, {"campaign_id"}, {})]

ResendTools ==
    [resend_list_domains |-> Rest({}, {}, {}, {}),
     resend_send_email |->
        Method("resend", {},
               {Needs(<<"from">>), Many(<<"to">>, TRUE), Needs(<<"subject">>),
                May(<<"html">>), May(<<"text">>), Many(<<"cc">>, FALSE),
                Many(<<"bcc">>, FALSE)},
               {"from", "to", "subject"}, {"html", "text", "cc", "bcc"})]

\* Two tools are still served by code of their own (notion_search_pages,
\* notion_create_page), which reads its arguments in the same way.
NotionTools ==
    [notion_search_pages |-> Rest({}, {Needs(<<"query">>)}, {"query"}, {}),
     notion_create_page |->
        Rest({}, {Needs(<<"parent_page_id", "parentPageId">>), Needs(<<"title">>),
                  May(<<"content">> \o Markdown)},
             {"parent_page_id", "title"}, {"content"})]

TrustedTables ==
    [github |-> WholeTable({GithubIssues, GithubPulls}), linear |-> LinearTools,
     apify |-> WholeTable({ApifyLists, ApifyRuns}), slack |-> SlackTools,
     brave_search |-> BraveTools, freepik |-> WholeTable({FreepikIcons, FreepikImages}),
     metricool |-> MetricoolTools, mailchimp |-> MailchimpTools,
     resend |-> ResendTools]
Trusted == UNION {DOMAIN TrustedTables[p] : p \in DOMAIN TrustedTables}
TrustedProvider(t) == CHOOSE p \in DOMAIN TrustedTables : t \in DOMAIN TrustedTables[p]

-----------------------------------------------------------------------------
(* The catalog and the dispatcher.                                         *)

\* org-integration-tools.json: the names it has of providers whose tools are
\* not in the table, and the one of no provider.  Its other names are in the
\* table as well, which is asked first.
BufferTools == {"buffer_list_profiles", "buffer_create_update"}
LegacyTools ==
    [t \in DOMAIN NotionTools \cup BufferTools \cup {"list_org_integrations"} |->
        IF t \in DOMAIN NotionTools THEN "notion"
        ELSE IF t \in BufferTools THEN "buffer" ELSE "none"]

\* Mutant: the tools of every provider that has a contract are offered.
ManifestOfContracts == DOMAIN LegacyTools \cup Trusted

\* org_integration_tool_manifest_entries: buffer is left out.
Manifest == {t \in DOMAIN LegacyTools : LegacyTools[t] # "buffer"} \cup Trusted

ToolNames == Manifest \cup DOMAIN LegacyTools \cup {"no_such_tool"}

\* app_provider_contract_by_tool
ProviderOf(t) ==
    IF t \in Trusted THEN TrustedProvider(t)
    ELSE IF t \in DOMAIN LegacyTools THEN LegacyTools[t] ELSE "unknown"

\* Tools that end up at somebody who knows them.
Served == Trusted \cup DOMAIN NotionTools
MethodOf(t) ==
    IF t \in Trusted THEN TrustedTables[TrustedProvider(t)][t] ELSE NotionTools[t]

\* installed_workspace_app_tools: what a session is offered when usable
\* integrations are those of the providers P.
OfferedTools(P) == {t \in Manifest : ProviderOf(t) \in P \cup {"none"}}

\* AppProviderRequestContract: where the key goes.  What is not a printable
\* text fits into no header as it is; Basic encodes it, a query escapes it.
AuthScheme(provider) ==
    CASE provider = "linear" -> "raw"
      [] provider \in {"brave_search", "freepik", "metricool"} -> "header"
      [] provider = "mailchimp" -> "basic"
      [] provider = "buffer" -> "query"
      [] OTHER -> "bearer"
KeyFits(provider) ==
    form.key = "plain" \/ AuthScheme(provider) \in {"basic", "query"}

-----------------------------------------------------------------------------
(* What is called with what: arguments are given as they should be, all or  *)
(* the required ones, except that one may be missing, of another kind, or   *)
(* under another name its binding takes.                                    *)

Regular(name) == CHOOSE k \in Sensible(name) : TRUE
Arguments(t) == MethodOf(t).required \cup MethodOf(t).optional
Given(t) ==
    IF t \notin Served THEN {<<>>}
    ELSE LET all == Arguments(t)
             least == MethodOf(t).required
         IN  {[n \in all \ {x} |-> Regular(n)] : x \in all}
             \cup {[n \in G |-> IF n = x THEN k ELSE Regular(n)] :
                      G \in {least, all}, x \in all \cup {"none"}, k \in ValueKinds}
             \cup UNION {{[n \in (least \ {b.names[1]}) \cup {b.names[i]} |->
                             IF n = b.names[i] THEN Regular(b.names[1]) ELSE Regular(n)] :
                              i \in DOMAIN b.names} : b \in MethodOf(t).bindings}

NoRequest == [carried |-> {}, key |-> "none"]

ToolCallInit ==
    /\ usable \in BOOLEAN
    /\ form \in [key : {"plain", "odd"}, config : {"text", "natural", "none"}]
    /\ usable \/ form = [key |-> "plain", config |-> "text"]
    /\ step = "idle" /\ tool = "none" /\ args = <<>>
    /\ request = NoRequest /\ reply = "none" /\ told = "nothing"

EndCall(what) ==
    /\ step' = "done" /\ told' = what
    /\ UNCHANGED <<usable, form, tool, args>>

\* call_tool, with a name and arguments of the caller's choice.
CallTool(t) ==
    /\ step = "idle"
    /\ tool' = t /\ args' \in Given(t) /\ step' = "called"
    /\ UNCHANGED <<usable, form, request, reply, told>>

\* call_tool and dispatch_app_provider_tool up to the integration, which
\* resolve_org_integration finds when there is one.
DispatchTool ==
    /\ step = "called"
    /\ \/ tool = "list_org_integrations" /\ EndCall("list")
       \/ tool \notin Served \cup {"list_org_integrations"} /\ EndCall("not found")
       \/ tool \in Served /\ ~usable /\ EndCall("bad request")
       \/ /\ tool \in Served /\ usable
          /\ step' = "building"
          /\ UNCHANGED <<usable, form, tool, args, told>>
    /\ UNCHANGED <<request, reply>>

\* resolve_binding_value: the name a field is filled from.
ReadFrom(b) ==
    IF b.config
    THEN IF form.config \in Reads(b.type) THEN {b.names[1]} ELSE {}
    ELSE LET fit == {i \in DOMAIN b.names :
                       b.names[i] \in DOMAIN args /\ args[b.names[i]] \in Reads(b.type)}
         IN  {b.names[i] : i \in {j \in fit : \A k \in fit : j <= k}}
MissesField(b) == ReadFrom(b) = {} /\ ~b.default /\ b.required

\* expand_path_template: the keys of a path have one name and no default.
PathFilled(m) == \A key \in m.path : key \in DOMAIN args /\ args[key] = "text"

\* build_runtime_url, build_object_from_bindings, app_provider_headers.
Built(m) ==
    [carried |-> m.path \cup UNION {ReadFrom(b) : b \in m.bindings},
     key |-> AuthScheme(ProviderOf(tool))]

\* execute_trusted_integration_tool up to the request; the code of the other
\* tools does the same.
SendCall ==
    LET m == MethodOf(tool)
    IN  /\ step = "building"
        /\ IF PathFilled(m) /\ (\A b \in m.bindings : ~MissesField(b))
              /\ KeyFits(ProviderOf(tool))
           THEN /\ request' = Built(m) /\ step' = "sent"
                /\ UNCHANGED <<usable, form, tool, args, told>>
           ELSE EndCall("bad request") /\ UNCHANGED request
        /\ UNCHANGED reply

\* The provider answers, or cannot be reached; some say in a good answer that
\* the call has failed.
ProviderReplies(r) ==
    /\ step = "sent"
    /\ reply' = r /\ step' = "answered"
    /\ UNCHANGED <<usable, form, tool, args, request, told>>

\* apply_success_guard, on an answer that tells of a failure.
Passes(provider) == provider # "slack" /\ provider # "linear"

\* provider_json_request and the rest of execute_trusted_integration_tool.
AnswerCall ==
    /\ step = "answered"
    /\ IF reply \in {"unreachable", "refused", "garbled"}
          \/ (reply = "failure" /\ ~Passes(ProviderOf(tool)))
       THEN EndCall("bad gateway") ELSE EndCall("result")
    /\ UNCHANGED <<request, reply>>

ToolCallNext ==
    \/ \E t \in ToolNames : CallTool(t)
    \/ DispatchTool \/ SendCall \/ AnswerCall
    \/ \E r \in {"unreachable", "refused", "garbled", "failure", "fine"} :
          ProviderReplies(r)

ToolCallSpec == ToolCallInit /\ [][ToolCallNext]_toolCallVars

-----------------------------------------------------------------------------
(* Properties.                                                             *)

\* The call is of a tool that a session of the organisation is offered.
Offered ==
    tool \in OfferedTools(IF usable THEN {ProviderOf(tool)} ELSE {})

\* It gives what the schema asks for, as somebody who means it would.
MeantWell ==
    tool \in Served =>
        /\ MethodOf(tool).required \subseteq DOMAIN args
        /\ \A n \in DOMAIN args : n \in Arguments(tool) /\ args[n] \in Sensible(n)
Configured == form.key = "plain" /\ form.config = "text"

\* Providers that answer a failed call as if it had been good.
AnswersInBand == {"slack", "linear"}

\* The catalog, the schemas, the bindings, the contracts and the dispatcher
\* agree: a call that is offered and meant well goes out with its key and all
\* it was given, and its caller is told a result exactly when the provider
\* has done what was asked; a call that lacks a required argument sends
\* nothing.
OfferedCallsAreServed ==
    /\ (step = "done" /\ Offered /\ MeantWell /\ Configured) =>
          \/ (tool = "list_org_integrations" /\ told = "list")
          \/ /\ DOMAIN args \subseteq request.carried
             /\ request.key # "none"
             /\ (told = "result") <=>
                   (reply = "fine" \/ (reply = "failure"
                                       /\ ProviderOf(tool) \notin AnswersInBand))
    /\ (request # NoRequest /\ DOMAIN args \subseteq Arguments(tool)) =>
          MethodOf(tool).required \subseteq DOMAIN args
=============================================================================
