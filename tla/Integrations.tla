---------------------------- MODULE Integrations ----------------------------
(***************************************************************************)
(* One integration of an organisation and its API key.  Both are kept by    *)
(* the integrations service; the handlers of handlers/orgs.rs, and every    *)
(* lookup of handlers/org_tools.rs and agents/workspace_tools.rs, leave a   *)
(* copy in the local store, the shadow, which stands in when the service    *)
(* cannot be reached.  Without a service the local store is all there is.   *)
(***************************************************************************)
EXTENDS Naturals

CONSTANTS
    Clients,    \* requests: edits, tool calls, catalogs of tools
    Keys,       \* API keys
    NoKey,
    MaxChanges  \* bound: edits

ASSUME IntegrationAssumption == NoKey \notin Keys /\ MaxChanges \in Nat

\* An integration: is it there, is it enabled (and of the kind and provider a
\* tool asks for), does it claim to have a key.
Integration == [here : BOOLEAN, on : BOOLEAN, keyed : BOOLEAN]
Nothing == [here |-> FALSE, on |-> FALSE, keyed |-> FALSE]

VARIABLES
    hosted,     \* there is a service
    canon,      \* what the service holds
    canonKey,
    shadow,     \* what the local store holds
    shadowKey,
    ask,        \* client -> where its request stands
    how,        \* client -> what it looks for, or how it changes the key
    got,        \* client -> the integration as the service has answered it
    result,     \* client -> what its tool call ended with
    changes,    \* edits so far
    calm,       \* history: no edit has begun while another, or the writing of
                \* what a lookup was told, was under way; and none went wrong
    due         \* history: client -> what its call should end with

integrationVars == <<hosted, canon, canonKey, shadow, shadowKey, ask, how, got,
                     result, changes, calm, due>>

\* What an integration is looked for: a call of a tool that names it, or names
\* its provider only; a call of an MCP server; the tools a session is opened
\* with; and the tools of the MCP servers among them.
Paths == {"id", "provider", "mcp", "tools", "discovery"}
\* Whether the service is asked for the one integration, or for the list of all.
InList == {"provider", "tools", "discovery"}
\* Whether an MCP server will do, which needs no key.
Keyless == {"mcp", "discovery"}

IntegrationInit ==
    /\ hosted \in BOOLEAN
    /\ canon = Nothing /\ canonKey = NoKey
    /\ shadow = Nothing /\ shadowKey = NoKey
    /\ ask = [c \in Clients |-> "idle"] /\ how = [c \in Clients |-> "id"]
    /\ got = [c \in Clients |-> Nothing]
    /\ result = [c \in Clients |-> "none"]
    /\ changes = 0 /\ calm = TRUE
    /\ due = [c \in Clients |-> "any"]

\* Mutant: an integration that has been disabled is still found by provider.
FitsIfKeyed(i, path) ==
    /\ i.here /\ (i.on \/ path = "provider")
    /\ path \in InList \ Keyless => i.keyed

\* validate_org_tool_integration, validate_mcp_tool_integration and the filters
\* of lists; only those that are after a key look at has_secret.
Fits(i, path) ==
    i.here /\ i.on /\ (path \in InList \ Keyless => i.keyed)

\* What a tool call should come to: a workspace integration needs a key, an MCP
\* server does not.
Outcome(i, key, path) ==
    IF i.here /\ i.on /\ (key # NoKey \/ path \in Keyless) THEN key ELSE "refused"

------------------------------------------------------------------------------
(* Edits                                                                     *)

\* api_key of a request: a new one, null to clear it, or absent to keep it.
KeyEdits == Keys \cup {NoKey, "keep"}
KeyAfter(key, edit) == IF edit = "keep" THEN key ELSE edit

\* The integration as an edit leaves it.
Written(key) == {[here |-> TRUE, on |-> b, keyed |-> key # NoKey] : b \in BOOLEAN}

\* The requests that edit, and all that are going to write to the local store.
EditsUnderWay == {c \in Clients : ask[c] \in {"upsert", "mirror", "row", "prune", "unkey"}}
Writers == EditsUnderWay \cup {c \in Clients : ask[c] = "sync"}

\* An edit begins: no call under way can count on what it found.
BeginEdit(c) ==
    /\ ask[c] = "idle" /\ changes < MaxChanges /\ changes' = changes + 1
    /\ due' = [d \in Clients |-> "any"]

\* create_integration (ids are new each time) and update_integration: the
\* service takes the edit, and may be unable to say so.
EditAtService(c) ==
    /\ hosted /\ (canon.here \/ changes = 0) /\ BeginEdit(c)
    /\ \E edit \in KeyEdits : \E i \in Written(KeyAfter(canonKey, edit)) :
        /\ canon' = i /\ canonKey' = KeyAfter(canonKey, edit)
        /\ \/ /\ ask' = [ask EXCEPT ![c] = "mirror"]
              /\ how' = [how EXCEPT ![c] = edit]
              /\ got' = [got EXCEPT ![c] = i]
              /\ calm' = (calm /\ Writers = {})
           \/ calm' = FALSE /\ UNCHANGED <<ask, how, got>>
    /\ UNCHANGED <<hosted, shadow, shadowKey, result>>

\* delete_integration.
DeleteAtService(c) ==
    /\ hosted /\ canon.here /\ BeginEdit(c)
    /\ canon' = Nothing /\ canonKey' = NoKey
    /\ \/ ask' = [ask EXCEPT ![c] = "prune"] /\ calm' = (calm /\ Writers = {})
       \/ calm' = FALSE /\ UNCHANGED ask
    /\ UNCHANGED <<hosted, shadow, shadowKey, how, got, result>>

\* Without a service: create_integration, and update_integration, which must find
\* the integration; on is what the request says, or what it found.
EditLocally(c) ==
    /\ ~hosted /\ (shadow.here \/ changes = 0) /\ BeginEdit(c)
    /\ \E edit \in KeyEdits, on \in BOOLEAN :
        /\ how' = [how EXCEPT ![c] = edit]
        /\ got' = [got EXCEPT ![c] = [here |-> TRUE, on |-> on, keyed |-> FALSE]]
    /\ ask' = [ask EXCEPT ![c] = "upsert"] /\ calm' = (calm /\ Writers = {})
    /\ UNCHANGED <<hosted, canon, canonKey, shadow, shadowKey, result>>

\* upsert_integration reads the row again: a key that is kept is there if it was.
FindExisting(c) ==
    /\ ask[c] = "upsert"
    /\ got' = [got EXCEPT ![c].keyed =
                  IF how[c] = "keep" THEN shadow.keyed ELSE how[c] # NoKey]
    /\ ask' = [ask EXCEPT ![c] = "mirror"]
    /\ UNCHANGED <<hosted, canon, canonKey, shadow, shadowKey, how, result, changes,
                   calm, due>>

\* delete_integration, without a service, whether or not it is there.
DeleteLocally(c) ==
    /\ ~hosted /\ BeginEdit(c)
    /\ ask' = [ask EXCEPT ![c] = "prune"] /\ calm' = (calm /\ Writers = {})
    /\ UNCHANGED <<hosted, canon, canonKey, shadow, shadowKey, how, got, result>>

\* Mutant: a key that is not in the request is taken for one to clear.
WriteAnyKey(c) ==
    /\ ask[c] = "mirror" /\ ask' = [ask EXCEPT ![c] = "row"]
    /\ shadowKey' = IF how[c] = "keep" THEN NoKey ELSE how[c]
    /\ how' = [how EXCEPT ![c] = "id"]
    /\ UNCHANGED <<hosted, canon, canonKey, shadow, got, result, changes, calm, due>>

\* upsert_integration, and sync_integration_shadow after an edit at the service,
\* write the key first ...
WriteKey(c) ==
    /\ ask[c] = "mirror" /\ ask' = [ask EXCEPT ![c] = "row"]
    /\ shadowKey' = KeyAfter(shadowKey, how[c])
    /\ how' = [how EXCEPT ![c] = "id"]
    /\ UNCHANGED <<hosted, canon, canonKey, shadow, got, result, changes, calm, due>>

\* ... and then the integration.
WriteRow(c) ==
    /\ ask[c] = "row" /\ ask' = [ask EXCEPT ![c] = "idle"]
    /\ shadow' = got[c] /\ got' = [got EXCEPT ![c] = Nothing]
    /\ UNCHANGED <<hosted, canon, canonKey, shadowKey, how, result, changes, calm, due>>

\* OrgService::delete_integration deletes the integration first ...
PruneRow(c) ==
    /\ ask[c] = "prune" /\ ask' = [ask EXCEPT ![c] = "unkey"]
    /\ shadow' = Nothing
    /\ UNCHANGED <<hosted, canon, canonKey, shadowKey, how, got, result, changes, calm,
                   due>>

\* ... and then its key.
PruneKey(c) ==
    /\ ask[c] = "unkey" /\ ask' = [ask EXCEPT ![c] = "idle"]
    /\ shadowKey' = NoKey
    /\ UNCHANGED <<hosted, canon, canonKey, shadow, how, got, result, changes, calm, due>>

\* Another server, or a person, edits what the service holds.
EditElsewhere ==
    /\ hosted /\ canon.here /\ changes < MaxChanges /\ changes' = changes + 1
    /\ \/ canonKey' \in Keys \cup {NoKey} /\ canon' \in Written(canonKey')
       \/ canon' = Nothing /\ canonKey' = NoKey
    /\ calm' = FALSE /\ due' = [d \in Clients |-> "any"]
    /\ UNCHANGED <<hosted, shadow, shadowKey, ask, how, got, result>>

------------------------------------------------------------------------------
(* Tool calls                                                                *)

CallEnds(c, r) == ask' = [ask EXCEPT ![c] = "ended"] /\ result' = [result EXCEPT ![c] = r]

\* The provider is called with the key, if there is one to call with; the client
\* has its answer.
CallProvider(c) ==
    /\ ask[c] = "ended"
    /\ ask' = [ask EXCEPT ![c] = "idle"] /\ how' = [how EXCEPT ![c] = "id"]
    /\ result' = [result EXCEPT ![c] = "none"] /\ due' = [due EXCEPT ![c] = "any"]
    /\ UNCHANGED <<hosted, canon, canonKey, shadow, shadowKey, got, changes, calm>>

\* Goes on to the key with the integration it has found, if that will do.
GoesOn(c, i, path) ==
    IF Fits(i, path)
    THEN ask' = [ask EXCEPT ![c] = "key"] /\ UNCHANGED result
    ELSE CallEnds(c, "refused")

\* What the call should end with, when nobody is editing.
Begins(c, path) ==
    /\ ask[c] = "idle"
    /\ how' = [how EXCEPT ![c] = path]
    /\ due' = [due EXCEPT ![c] =
                  IF ~calm \/ EditsUnderWay # {} THEN "any"
                  ELSE IF hosted THEN Outcome(canon, canonKey, path)
                                 ELSE Outcome(shadow, shadowKey, path)]

\* The service answers; what it says of the integration is to be mirrored.
IsTold(c) ==
    /\ ask' = [ask EXCEPT ![c] = "sync"] /\ got' = [got EXCEPT ![c] = canon]
    /\ UNCHANGED <<hosted, canon, canonKey, shadow, shadowKey, result, changes, calm>>

\* get_integration_internal; an integration that will not do is not mirrored.
LookAtOne(c, path) ==
    /\ hosted /\ path \notin InList /\ Begins(c, path)
    /\ \/ Fits(canon, path) /\ IsTold(c)
       \/ /\ ~Fits(canon, path) /\ CallEnds(c, "refused")
          /\ UNCHANGED <<hosted, canon, canonKey, shadow, shadowKey, got, changes,
                         calm>>

\* list_integrations_internal.
LookAtList(c, path) == hosted /\ path \in InList /\ Begins(c, path) /\ IsTold(c)

\* The service cannot be reached, or there is none.
LookAtShadow(c, path) ==
    /\ Begins(c, path)
    /\ GoesOn(c, shadow, path)
    /\ UNCHANGED <<hosted, canon, canonKey, shadow, shadowKey, got, changes, calm>>

\* sync_integrations_shadow: what the list does not hold is left alone.
Sync(c) ==
    /\ ask[c] = "sync"
    /\ shadow' = IF got[c].here THEN got[c] ELSE shadow
    /\ GoesOn(c, got[c], how[c])
    /\ got' = [got EXCEPT ![c] = Nothing]
    /\ UNCHANGED <<hosted, canon, canonKey, shadowKey, how, changes, calm, due>>

\* What get_integration_secret may find; the shadow has it when the service has
\* none or cannot be reached.
KeysFound ==
    IF hosted THEN {shadowKey, IF canonKey = NoKey THEN shadowKey ELSE canonKey}
              ELSE {shadowKey}

WithKey(c) ==
    /\ \E key \in KeysFound :
          CallEnds(c, IF key # NoKey \/ how[c] \in Keyless THEN key ELSE "refused")
    /\ UNCHANGED <<hosted, canon, canonKey, shadow, shadowKey, how, got, changes,
                   calm, due>>

\* resolve_org_integration and resolve_mcp_server_integration, for a call ...
GetKey(c) == ask[c] = "key" /\ how[c] \in {"id", "provider", "mcp"} /\ WithKey(c)

\* ... and load_runtime_integrations and the discovery of tools, for a session.
GetKeyForTools(c) == ask[c] = "key" /\ how[c] \in {"tools", "discovery"} /\ WithKey(c)

IntegrationNext ==
    \/ \E c \in Clients :
           \/ EditAtService(c) \/ DeleteAtService(c)
           \/ EditLocally(c) \/ FindExisting(c) \/ DeleteLocally(c)
           \/ WriteKey(c) \/ WriteRow(c) \/ PruneRow(c) \/ PruneKey(c)
           \/ Sync(c) \/ GetKey(c) \/ GetKeyForTools(c) \/ CallProvider(c)
           \/ \E path \in Paths :
                  LookAtOne(c, path) \/ LookAtList(c, path) \/ LookAtShadow(c, path)
    \/ EditElsewhere

IntegrationSpec == IntegrationInit /\ [][IntegrationNext]_integrationVars

------------------------------------------------------------------------------
(* Properties                                                                *)

\* Every variable holds values of its type.
IntegrationTypeOK ==
    /\ hosted \in BOOLEAN /\ calm \in BOOLEAN /\ changes \in Nat
    /\ canon \in Integration /\ canonKey \in Keys \cup {NoKey}
    /\ shadow \in Integration /\ shadowKey \in Keys \cup {NoKey}
    /\ ask \in [Clients -> {"idle", "upsert", "mirror", "row", "prune", "unkey",
                           "sync", "key", "ended"}]
    /\ how \in [Clients -> Paths \cup KeyEdits]
    /\ got \in [Clients -> Integration]
    /\ result \in [Clients -> Keys \cup {NoKey, "none", "refused"}]
    /\ due \in [Clients -> Keys \cup {NoKey, "any", "refused"}]

\* While every edit goes through this server, begins when no other is under way
\* and nothing that a lookup was told is to be written, and gets its answer, the
\* local store is a true copy between edits: no lookup under way undoes an edit,
\* and no key outlives its integration.
QuietEditsAreMirrored ==
    hosted /\ calm /\ EditsUnderWay = {} => shadow = canon /\ shadowKey = canonKey

\* Then, and without a service while edits do not overlap, a tool call that meets
\* no edit ends as the data demand, whether or not the service answers each of
\* its two requests. After local edits that overlapped, a row may deny the key
\* that is stored, for good.
CallsSeeQuietEdits ==
    \A c \in Clients :
        ask[c] = "ended" /\ due[c] # "any" => result[c] = due[c]
=============================================================================
