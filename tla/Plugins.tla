-------------------------------- MODULE Plugins --------------------------------
(***************************************************************************)
(* The registry of plugins: rows, discovered tools, assignments, OAuth     *)
(* flows and vault entries, as the requests of                             *)
(* crates/homebot-server/src/plugins.rs and the tool calls of turns change *)
(* them.  Every call over the network separates two actions.               *)
(***************************************************************************)
EXTENDS Integers, FiniteSets

CONSTANTS Plugins, NoPlugin,
          Callers,             (* requests and tool calls in service              *)
          Flows, NoFlow,       (* states of authorization flows                   *)
          Sessions, NoSession, (* sessions at the connector service               *)
          Deliveries, NoDelivery, (* webhook ids                                  *)
          MostFlows,           (* 16 in the code                                  *)
          MaxCalls             (* bound of the model: requests per behaviour      *)

VARIABLES
  row,        (* plugins, mcp_connections, mcp_tools, plugin_bot_assignments *)
  vault,      (* secrets that plugins.rs stores by itself                    *)
  flows,      (* mcp_oauth_flows: pending flow -> plugin                     *)
  sessions,   (* sessions alive at the connector service                     *)
  outbox,     (* how often each delivery became an event                     *)
  takeover,   (* a person controls the browser of the chat                   *)
  call,       (* the locals of each request and tool call                    *)
  issued, exchanged,  (* history: flows begun, exchanges of each flow's code *)
  mislaid,    (* history: sessions deleted after a look-up of the row failed *)
  arrived     (* requests so far                                             *)

vars == <<row, vault, flows, sessions, outbox, takeover, call, issued, exchanged, mislaid,
          arrived>>

Kinds == {"local_mcp", "remote_mcp", "connector_mcp", "builtin_memory"}
Secrets == {"token", "hook"}
Absent == [kind |-> "none", enabled |-> FALSE, status |-> "connect", auth |-> "not_required",
           tools |-> FALSE, assigned |-> FALSE, headers |-> FALSE, oauth |-> FALSE,
           ingress |-> FALSE, session |-> NoSession]
(* What a request keeps of a row that it read. *)
Read(r) == [kind |-> r.kind, auth |-> r.auth, tools |-> r.tools, oauth |-> r.oauth,
            ingress |-> r.ingress]
Idle == [at |-> "idle", plugin |-> NoPlugin, saw |-> Read(Absent), flow |-> NoFlow,
         session |-> NoSession, delivery |-> NoDelivery, back |-> "none"]

Requests == {"create", "authorize", "callback", "link", "revoke", "connect", "enable",
             "disable", "assign", "events", "webhook", "delete", "tool"}
CallSteps == Requests \cup {"idle", "filling", "inserting", "compensating", "beginning",
  "consenting", "exchanging", "storing", "recording", "linked", "failing", "linking",
  "revoking", "checking", "showing", "discovering", "toggling", "writing", "reconciling",
  "configuring", "expiring", "persisting", "purging", "erasing", "removing", "asking",
  "calling", "refreshing"}

Auths == {"not_required", "required", "waiting", "connected", "error"}
Row == [kind : Kinds \cup {"none"}, enabled : BOOLEAN,
        status : {"connect", "waiting", "reopen", "connected", "error"}, auth : Auths,
        tools : BOOLEAN, assigned : BOOLEAN, headers : BOOLEAN, oauth : BOOLEAN,
        ingress : BOOLEAN, session : Sessions \cup {NoSession}]
Call == [at : CallSteps, plugin : Plugins \cup {NoPlugin},
         saw : [kind : Kinds \cup {"none"}, auth : Auths, tools : BOOLEAN, oauth : BOOLEAN,
                ingress : BOOLEAN],
         flow : Flows \cup {NoFlow}, session : Sessions \cup {NoSession},
         delivery : Deliveries \cup {NoDelivery},
         back : {"none", "enable", "disable", "discovering", "calling"}]

TypeOK ==
  /\ row \in [Plugins -> Row] /\ vault \subseteq Plugins \X Secrets
  /\ flows \in [Flows -> Plugins \cup {NoPlugin}]
  /\ sessions \subseteq Sessions /\ outbox \in [Deliveries -> Nat]
  /\ takeover \in BOOLEAN /\ call \in [Callers -> Call]
  /\ issued \subseteq Flows /\ exchanged \in [Flows -> Nat] /\ arrived \in 0..MaxCalls
  /\ mislaid \subseteq Sessions

Init ==
  /\ row = [p \in Plugins |-> Absent]
  /\ vault = {} /\ flows = [f \in Flows |-> NoPlugin] /\ sessions = {}
  /\ outbox = [d \in Deliveries |-> 0] /\ takeover = FALSE
  /\ call = [c \in Callers |-> Idle]
  /\ issued = {} /\ exchanged = [f \in Flows |-> 0] /\ arrived = 0 /\ mislaid = {}

-----------------------------------------------------------------------------
(* Storage *)

Exists(p) == row[p].kind # "none"

CreatePlugin(p, kind, headers, session) ==
  LET builtin == kind = "builtin_memory"
  IN row' = [row EXCEPT ![p] = [Absent EXCEPT !.kind = kind, !.session = session,
       !.headers = headers, !.auth = IF headers THEN "required" ELSE "not_required",
       !.enabled = builtin, !.status = IF builtin THEN "connected" ELSE "connect"]]

(* One transaction writes the flag, the connection and all tools together. *)
UpdatePluginConnection(p, enabled, status, auth, tools) ==
  row' = IF Exists(p)
         THEN [row EXCEPT ![p].enabled = enabled, ![p].status = status,
                          ![p].auth = auth, ![p].tools = tools]
         ELSE row

UpdatePluginConfiguration(p, oauth, ingress) ==
  row' = IF Exists(p) THEN [row EXCEPT ![p].oauth = oauth, ![p].ingress = ingress] ELSE row

SetPluginAssignment(p, on) ==
  row' = IF Exists(p) THEN [row EXCEPT ![p].assigned = on] ELSE row

DeletePlugin(p) == row' = [row EXCEPT ![p] = Absent]

(* Enabled and assigned to the Bot: list_plugins, plugin_bot_ids, plugin_tools. *)
ProviderTools(p) == row[p].enabled /\ row[p].status = "connected" /\ row[p].assigned /\ row[p].tools

-----------------------------------------------------------------------------
(* Requests *)

At(c, step) == call[c].at = step
Goto(c, step) == call' = [call EXCEPT ![c].at = step]
Answer(c) == call' = [call EXCEPT ![c] = Idle]
P(c) == call[c].plugin
(* Go on with the row as it is now; without one the request fails. *)
WithRow(c, step) ==
  IF Exists(P(c)) THEN call' = [call EXCEPT ![c].at = step, ![c].saw = Read(row[P(c)])]
                  ELSE Answer(c)
Here == <<flows, sessions, outbox, takeover, issued, exchanged, mislaid, arrived>>

Arrive(c, request, p, d) ==
  /\ At(c, "idle")
  /\ arrived < MaxCalls /\ arrived' = arrived + 1
  /\ call' = [call EXCEPT ![c] = [Idle EXCEPT !.at = request, !.plugin = p,
                !.delivery = IF request = "webhook" THEN d ELSE NoDelivery]]
  /\ UNCHANGED <<row, vault, flows, sessions, outbox, takeover, issued, exchanged, mislaid>>

(* create, create_remote, create_memory_provider; a repeated key finds the row. *)
Create(c, kind, headers) ==
  /\ At(c, "create") /\ kind # "connector_mcp"
  /\ headers => kind = "remote_mcp"
  /\ IF Exists(P(c)) THEN UNCHANGED row /\ Answer(c)
     ELSE /\ CreatePlugin(P(c), kind, headers, NoSession)
          /\ IF kind = "builtin_memory" THEN Goto(c, "filling") ELSE Answer(c)
  /\ UNCHANGED <<vault, Here>>

(* create_holographic_record: a second write brings the tools. *)
CreateHolographicTools(c) ==
  /\ At(c, "filling")
  /\ UpdatePluginConnection(P(c), TRUE, "connected", "not_required", TRUE)
  /\ Answer(c) /\ UNCHANGED <<vault, Here>>

(* create_composio: the session comes first; a replayed claim does not stop it, nor does *)
(* a row that the look-up failed to read.                                                *)
CreateComposioSession(c, s) ==
  /\ At(c, "create")
  /\ s \notin sessions /\ \A x \in Callers : call[x].session # s
  /\ \A p \in Plugins : row[p].session # s
  /\ sessions' = sessions \cup {s} /\ mislaid' = mislaid \ {s}
  /\ call' = [call EXCEPT ![c].at = "inserting", ![c].session = s]
  /\ UNCHANGED <<row, vault, flows, outbox, takeover, issued, exchanged, arrived>>

(* create_remote_record; after the insert the summary or its event may fail. *)
CreateComposioRecord(c) ==
  /\ At(c, "inserting")
  /\ \/ Exists(P(c)) /\ UNCHANGED row /\ Goto(c, "compensating")
     \/ /\ ~Exists(P(c))
        /\ \/ /\ CreatePlugin(P(c), "connector_mcp", TRUE, call[c].session)
              /\ (Answer(c) \/ Goto(c, "compensating"))
           \/ UNCHANGED row /\ Goto(c, "compensating")
  /\ UNCHANGED <<vault, Here>>

(* Faulty variant: the session is deleted whenever the request failed. *)
CompensateAlways(c) ==
  /\ At(c, "compensating")
  /\ sessions' = sessions \ {call[c].session}
  /\ Answer(c)
  /\ UNCHANGED <<row, vault, flows, outbox, takeover, issued, exchanged, mislaid, arrived>>

(* The session is deleted if no row is found; a look-up that fails finds none. The *)
(* service may fail to delete it, which nobody learns.                             *)
CompensateComposio(c) ==
  /\ At(c, "compensating")
  /\ \/ Exists(P(c)) /\ UNCHANGED <<sessions, mislaid>>
     \/ /\ ~Exists(P(c)) /\ sessions' \in {sessions, sessions \ {call[c].session}}
        /\ UNCHANGED mislaid
     \/ /\ Exists(P(c)) /\ sessions' = sessions \ {call[c].session}
        /\ mislaid' = mislaid \cup {call[c].session}
  /\ Answer(c) /\ UNCHANGED <<row, vault, flows, outbox, takeover, issued, exchanged, arrived>>

(* authorize_remote: discovery and registration over the network, then the flow. *)
AuthorizeReads(c) ==
  /\ At(c, "authorize")
  /\ IF row[P(c)].kind = "remote_mcp" /\ ~row[P(c)].headers
     THEN WithRow(c, "beginning") ELSE Answer(c)
  /\ UNCHANGED <<row, vault, Here>>

AuthorizeFails(c) == At(c, "beginning") /\ Answer(c) /\ UNCHANGED <<row, vault, Here>>

(* Expired flows go first; when as many as are allowed still wait, the request fails. *)
AuthorizeWaits(c, f, expired) ==
  LET kept == [g \in Flows |-> IF g \in expired THEN NoPlugin ELSE flows[g]]
      waiting == {g \in Flows : kept[g] # NoPlugin}
  IN /\ At(c, "beginning") /\ f \notin issued
     /\ expired \subseteq {g \in Flows : flows[g] # NoPlugin}
     /\ IF Cardinality(waiting) >= MostFlows
        THEN flows' = kept /\ UNCHANGED issued /\ Answer(c)
        ELSE /\ flows' = [kept EXCEPT ![f] = P(c)]
             /\ issued' = issued \cup {f} /\ Goto(c, "consenting")
     /\ UNCHANGED <<row, vault, sessions, outbox, takeover, exchanged, mislaid, arrived>>

AuthorizeShows(c) ==
  /\ At(c, "consenting")
  /\ UpdatePluginConnection(P(c), FALSE, "reopen", "waiting", FALSE)
  /\ Answer(c) /\ UNCHANGED <<vault, Here>>

(* oauth_callback: the flow is taken out of the map before anything else; an *)
(* expired one, like an unknown one, changes nothing more.                   *)
Callback(c, f) ==
  /\ At(c, "callback") /\ f \in issued
  /\ flows' = [flows EXCEPT ![f] = NoPlugin]
  /\ \/ Answer(c)
     \/ /\ flows[f] # NoPlugin
        /\ call' = [call EXCEPT ![c].at = "exchanging", ![c].flow = f, ![c].plugin = flows[f]]
     \/ /\ flows[f] # NoPlugin
        /\ call' = [call EXCEPT ![c].at = "failing", ![c].plugin = flows[f]]
  /\ UNCHANGED <<row, vault, sessions, outbox, takeover, issued, exchanged, mislaid, arrived>>

(* finish: the authorization server takes the code. *)
Exchange(c) ==
  /\ At(c, "exchanging")
  /\ exchanged' = [exchanged EXCEPT ![call[c].flow] = @ + 1]
  /\ (Goto(c, "storing") \/ Goto(c, "failing"))
  /\ UNCHANGED <<row, vault, flows, sessions, outbox, takeover, issued, mislaid, arrived>>

StoreToken(c) ==
  /\ At(c, "storing")
  /\ vault' = vault \cup {<<P(c), "token">>}
  /\ Goto(c, "recording") /\ UNCHANGED <<row, Here>>

RecordToken(c) ==
  /\ At(c, "recording")
  /\ UpdatePluginConfiguration(P(c), TRUE, row[P(c)].ingress)
  /\ Goto(c, IF Exists(P(c)) THEN "linked" ELSE "failing")
  /\ UNCHANGED <<vault, Here>>

CompleteRemoteOauth(c) ==
  /\ At(c, "linked")
  /\ UpdatePluginConnection(P(c), FALSE, "connect", "connected", FALSE)
  /\ (IF Exists(P(c)) THEN Answer(c) ELSE Goto(c, "failing"))
  /\ UNCHANGED <<vault, Here>>

MarkOauthFailure(c) ==
  /\ At(c, "failing")
  /\ UpdatePluginConnection(P(c), FALSE, "reopen", "required", FALSE)
  /\ Answer(c) /\ UNCHANGED <<vault, Here>>

(* authorize_composio and revoke_composio read the connector and go to the service, *)
(* which may refuse.                                                                *)
ComposioReads(c) ==
  /\ At(c, "link") \/ At(c, "revoke")
  /\ IF row[P(c)].kind = "connector_mcp"
     THEN WithRow(c, IF At(c, "link") THEN "linking" ELSE "revoking") ELSE Answer(c)
  /\ UNCHANGED <<row, vault, Here>>

ComposioRefuses(c) ==
  /\ At(c, "linking") \/ At(c, "revoking")
  /\ Answer(c) /\ UNCHANGED <<row, vault, Here>>

AuthorizeComposio(c) ==
  /\ At(c, "linking")
  /\ UpdatePluginConnection(P(c), FALSE, "reopen", "waiting", FALSE)
  /\ Answer(c) /\ UNCHANGED <<vault, Here>>

RevokeComposio(c) ==
  /\ At(c, "revoking")
  /\ UpdatePluginConnection(P(c), FALSE, "reopen", "required", FALSE)
  /\ Answer(c) /\ UNCHANGED <<vault, Here>>

(* connect: the row it read decides; pending_connector_auth may end it. *)
ConnectReads(c) ==
  /\ At(c, "connect")
  /\ WithRow(c, IF row[P(c)].kind = "connector_mcp" THEN "checking" ELSE "showing")
  /\ UNCHANGED <<row, vault, Here>>

PendingConnectorAuth(c, auth) ==
  /\ At(c, "checking")
  /\ IF auth = "connected" THEN UNCHANGED row /\ Goto(c, "showing")
     ELSE UpdatePluginConnection(P(c), FALSE, "reopen", auth, FALSE) /\ Answer(c)
  /\ UNCHANGED <<vault, Here>>

Authenticates(c) ==
  call[c].saw.kind \in {"remote_mcp", "connector_mcp"} /\ call[c].saw.auth # "not_required"

ConnectShows(c) ==
  /\ At(c, "showing")
  /\ UpdatePluginConnection(P(c), FALSE, "waiting",
       IF Authenticates(c) THEN "waiting" ELSE "not_required", FALSE)
  /\ (IF Exists(P(c)) THEN Goto(c, "discovering") ELSE Answer(c))
  /\ UNCHANGED <<vault, Here>>

(* oauth_access_token: an expired token is refreshed on the way and stored again. *)
RefreshToken(c) ==
  /\ At(c, "discovering") \/ At(c, "calling")
  /\ call[c].saw.oauth /\ <<P(c), "token">> \in vault
  /\ call' = [call EXCEPT ![c].at = "refreshing", ![c].back = call[c].at]
  /\ UNCHANGED <<row, vault, Here>>

StoreRefreshed(c) ==
  /\ At(c, "refreshing")
  /\ vault' = vault \cup {<<P(c), "token">>}
  /\ call' = [call EXCEPT ![c].at = call[c].back, ![c].back = "none"]
  /\ UNCHANGED <<row, Here>>

(* discover_tools has returned: with tools, with 401, or with another error. *)
ConnectStores(c, outcome) ==
  /\ At(c, "discovering")
  /\ CASE outcome = "tools" -> UpdatePluginConnection(P(c), TRUE, "connected",
            IF Authenticates(c) THEN "connected" ELSE "not_required", TRUE)
       [] outcome = "refused" -> UpdatePluginConnection(P(c), FALSE, "reopen", "required", FALSE)
       [] outcome = "error" -> UpdatePluginConnection(P(c), FALSE, "error", "error", FALSE)
  /\ Answer(c) /\ UNCHANGED <<vault, Here>>

(* set_enabled reads the row, then the tools, then writes both back. *)
SetEnabledReads(c) ==
  /\ At(c, "enable") \/ At(c, "disable")
  /\ IF Exists(P(c)) /\ (At(c, "enable") => row[P(c)].status = "connected")
     THEN call' = [call EXCEPT ![c].saw = Read(row[P(c)]), ![c].back = call[c].at,
                               ![c].at = "toggling"]
     ELSE Answer(c)
  /\ UNCHANGED <<row, vault, Here>>

SetEnabledReadsTools(c) ==
  /\ At(c, "toggling")
  /\ IF Exists(P(c))
     THEN call' = [call EXCEPT ![c].saw.tools = row[P(c)].tools, ![c].at = "writing"]
     ELSE Answer(c)
  /\ UNCHANGED <<row, vault, Here>>

SetEnabledWrites(c) ==
  /\ At(c, "writing")
  /\ UpdatePluginConnection(P(c), call[c].back = "enable",
       IF call[c].back = "enable" THEN "connected" ELSE "reopen",
       call[c].saw.auth, call[c].saw.tools)
  /\ Answer(c) /\ UNCHANGED <<vault, Here>>

Assign(c, on) ==
  /\ At(c, "assign")
  /\ SetPluginAssignment(P(c), on) /\ Answer(c) /\ UNCHANGED <<vault, Here>>

(* configure_composio_events: one ingress for all connectors of a project key, as read. *)
EventsRead(c) ==
  /\ At(c, "events")
  /\ IF /\ row[P(c)].kind = "connector_mcp"
        /\ \A p \in Plugins \ {P(c)} : ~row[p].ingress
     THEN WithRow(c, "reconciling") ELSE Answer(c)
  /\ UNCHANGED <<row, vault, Here>>

ReconcileSubscription(c) ==
  /\ At(c, "reconciling")
  /\ \/ vault' = vault \cup {<<P(c), "hook">>} /\ Goto(c, "configuring")
     \/ UNCHANGED vault /\ Answer(c)
  /\ UNCHANGED <<row, Here>>

(* The configuration is written back as it was read. *)
ConfigureComposioEvents(c) ==
  /\ At(c, "configuring")
  /\ UpdatePluginConfiguration(P(c), call[c].saw.oauth, TRUE)
  /\ Answer(c) /\ UNCHANGED <<vault, Here>>

(* composio_webhook, once the signature and the scope are verified. *)
WebhookReads(c) ==
  /\ At(c, "webhook")
  /\ IF row[P(c)].ingress /\ <<P(c), "hook">> \in vault
     THEN Goto(c, "persisting") \/ Goto(c, "expiring") ELSE Answer(c)
  /\ UNCHANGED <<row, vault, Here>>

(* An expired account disables the plugin before the delivery is looked up. *)
WebhookExpires(c) ==
  /\ At(c, "expiring")
  /\ UpdatePluginConnection(P(c), FALSE, "reopen", "required", FALSE)
  /\ (IF Exists(P(c)) THEN Goto(c, "persisting") ELSE Answer(c))
  /\ UNCHANGED <<vault, Here>>

(* persist_event_once *)
WebhookPersists(c) ==
  /\ At(c, "persisting")
  /\ outbox' = [outbox EXCEPT ![call[c].delivery] = IF @ = 0 THEN 1 ELSE @]
  /\ Answer(c)
  /\ UNCHANGED <<row, vault, flows, sessions, takeover, issued, exchanged, mislaid, arrived>>

(* delete: the row, the flows, the secrets that the row named, and the row again. *)
DeleteReads(c) == At(c, "delete") /\ WithRow(c, "purging") /\ UNCHANGED <<row, vault, Here>>

DeleteFlows(c) ==
  /\ At(c, "purging")
  /\ flows' = [f \in Flows |-> IF flows[f] = P(c) THEN NoPlugin ELSE flows[f]]
  /\ Goto(c, "erasing")
  /\ UNCHANGED <<row, vault, sessions, outbox, takeover, issued, exchanged, mislaid, arrived>>

DeleteSecrets(c) ==
  /\ At(c, "erasing")
  /\ vault' = vault \ ({s \in {<<P(c), "token">>} : call[c].saw.oauth}
                       \cup {s \in {<<P(c), "hook">>} : call[c].saw.ingress})
  /\ Goto(c, "removing") /\ UNCHANGED <<row, Here>>

DeleteRow(c) ==
  /\ At(c, "removing")
  /\ DeletePlugin(P(c)) /\ Answer(c) /\ UNCHANGED <<vault, Here>>

-----------------------------------------------------------------------------
(* A tool call of a turn: call_provider_tool, recall_memory, retain_memory *)

(* The plugin is selected and the takeover is looked at, once. *)
ToolSelects(c) ==
  /\ At(c, "tool")
  /\ IF ProviderTools(P(c)) /\ ~takeover THEN WithRow(c, "asking") ELSE Answer(c)
  /\ UNCHANGED <<row, vault, Here>>

(* The policy allows, the owner decides, the approval expires or is cancelled. *)
ToolApproved(c) ==
  /\ At(c, "asking")
  /\ (Goto(c, "calling") \/ Answer(c))
  /\ UNCHANGED <<row, vault, Here>>

(* adapter_for and call_tool work on the row that was selected. *)
ToolCalls(c) == At(c, "calling") /\ Answer(c) /\ UNCHANGED <<row, vault, Here>>

(* claim_takeover and release_takeover of the chat's browser. *)
TakeOver ==
  /\ takeover' = ~takeover
  /\ UNCHANGED <<row, vault, flows, sessions, outbox, call, issued, exchanged, mislaid, arrived>>

(* The process dies: flows are in memory only, everything else stays. *)
Restart ==
  /\ flows' = [f \in Flows |-> NoPlugin]
  /\ call' = [c \in Callers |-> Idle]
  /\ UNCHANGED <<row, vault, sessions, outbox, takeover, issued, exchanged, mislaid, arrived>>

-----------------------------------------------------------------------------
Registers(c) ==
  \/ \E kind \in Kinds, headers \in BOOLEAN : Create(c, kind, headers)
  \/ CreateHolographicTools(c) \/ (\E s \in Sessions : CreateComposioSession(c, s))
  \/ CreateComposioRecord(c) \/ CompensateComposio(c)
  \/ \E on \in BOOLEAN : Assign(c, on)
  \/ DeleteReads(c) \/ DeleteFlows(c) \/ DeleteSecrets(c) \/ DeleteRow(c)

Authorizes(c) ==
  \/ AuthorizeReads(c) \/ AuthorizeFails(c) \/ AuthorizeShows(c)
  \/ \E f \in Flows, expired \in SUBSET Flows : AuthorizeWaits(c, f, expired)
  \/ \E f \in Flows : Callback(c, f)
  \/ Exchange(c) \/ StoreToken(c) \/ RecordToken(c) \/ CompleteRemoteOauth(c)
  \/ MarkOauthFailure(c) \/ ComposioReads(c) \/ ComposioRefuses(c)
  \/ AuthorizeComposio(c) \/ RevokeComposio(c)

Connects(c) ==
  \/ ConnectReads(c) \/ ConnectShows(c) \/ RefreshToken(c) \/ StoreRefreshed(c)
  \/ \E auth \in {"connected", "waiting", "required"} : PendingConnectorAuth(c, auth)
  \/ \E outcome \in {"tools", "refused", "error"} : ConnectStores(c, outcome)
  \/ SetEnabledReads(c) \/ SetEnabledReadsTools(c) \/ SetEnabledWrites(c)
  \/ EventsRead(c) \/ ReconcileSubscription(c) \/ ConfigureComposioEvents(c)
  \/ WebhookReads(c) \/ WebhookExpires(c) \/ WebhookPersists(c)
  \/ ToolSelects(c) \/ ToolApproved(c) \/ ToolCalls(c)

Next ==
  \/ \E c \in Callers :
       \/ \E request \in Requests, p \in Plugins, d \in Deliveries : Arrive(c, request, p, d)
       \/ Registers(c) \/ Authorizes(c) \/ Connects(c)
  \/ TakeOver \/ Restart

Spec == Init /\ [][Next]_vars

-----------------------------------------------------------------------------
(* The state of an authorization flow is used at most once: however often a callback is *)
(* repeated, its code is presented to the authorization server by one of them.          *)
ExchangedOnce == \A f \in Flows : exchanged[f] <= 1

(* A connector that exists can be used: no failed, repeated or racing creation deletes  *)
(* the session that its row refers to (create_composio). One thing does: a creation that *)
(* failed after its insert and then failed to look the row up, which it takes for none.  *)
ConnectorHasSession ==
  \A p \in Plugins : row[p].kind = "connector_mcp" => row[p].session \in sessions \cup mislaid

(* Why they hold: a request works on a plugin; a session that a creation still holds is   *)
(* its own, and at most the row of its plugin refers to it; a flow that is pending or in  *)
(* somebody's hands has not been exchanged.                                               *)
CallKnows(q) ==
  /\ q.at # "idle" => q.plugin \in Plugins
  /\ q.at = "refreshing" => q.back \in {"discovering", "calling"}
Creates(c) == call[c].at \in {"inserting", "compensating"}
SessionsHeld ==
  /\ \A c \in Callers : Creates(c) =>
       /\ call[c].session \in sessions
       /\ \A p \in Plugins :
            row[p].kind = "connector_mcp" /\ row[p].session = call[c].session
              => At(c, "compensating") /\ p = P(c)
  /\ \A c, x \in Callers : Creates(c) /\ Creates(x) /\ call[c].session = call[x].session => c = x
Exchanges(c, f) == At(c, "exchanging") /\ call[c].flow = f
FlowsHeld ==
  \A f \in Flows :
    /\ flows[f] # NoPlugin \/ (\E c \in Callers : Exchanges(c, f)) => f \in issued /\ exchanged[f] = 0
    /\ f \notin issued => exchanged[f] = 0
    /\ \A c, x \in Callers : Exchanges(c, f) /\ Exchanges(x, f) => c = x
    /\ \A c \in Callers : Exchanges(c, f) => flows[f] = NoPlugin
PluginsInv ==
  /\ TypeOK /\ (\A c \in Callers : CallKnows(call[c]))
  /\ SessionsHeld /\ FlowsHeld /\ ConnectorHasSession /\ ExchangedOnce
===============================================================================
