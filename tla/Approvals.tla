------------------------------- MODULE Approvals -------------------------------
(***************************************************************************)
(* One capability and who may use it: the stored rules, the policy engine  *)
(* that holds a copy of them (crates/homebot-tools/src/policy.rs), the     *)
(* approval rows of storage, the tool calls of turns that wait for the     *)
(* owner (provider_turn.rs), the requests that come back with an approval  *)
(* (source_control.rs, browser_sessions.rs), and the owner's decisions and *)
(* rule changes (chats.rs, capability_rules.rs).                           *)
(***************************************************************************)
EXTENDS Integers, FiniteSets

CONSTANTS Turns,              (* operations of provider turns: their tool calls wait  *)
          Requests,           (* operations of HTTP requests: they are sent again     *)
          Tickets, NoTicket,  (* ids of approvals                                     *)
          Clients,            (* requests of the owner: decisions and rule changes    *)
          MostPending,        (* MAX_PENDING_APPROVALS_PER_OPERATION                  *)
          MaxRevision,        (* bound of the model: copies of the rules per process  *)
          MaxAsked            (* bound of the model: requests of the owner, restarts  *)

VARIABLES
  stored,    (* capability_rules: the effects of the rules that match *)
  engine,    (* rules, policy_revision and policy_loaded of the server *)
  approvals, (* PolicyEngine.approvals *)
  row,       (* approvals: status, and the operation that asked *)
  waiter,    (* capability_approvals *)
  call,      (* each operation: one request for the capability at a time *)
  client,    (* the locals of each request of the owner *)
  used,      (* history: operations authorized by an approval *)
  allowed,   (* history: approvals the engine recorded an allow for *)
  asked      (* requests of the owner and restarts so far *)

vars == <<stored, engine, approvals, row, waiter, call, client, used, allowed, asked>>

Calls == Turns \cup Requests
Effects == {"deny", "require_approval", "allow"}
NoRecord == [call |-> "none", decision |-> "none", revision |-> 0, fresh |-> FALSE]
Records == [call : Calls \cup {"none"}, decision : {"none", "allow", "deny"},
            revision : 0..MaxRevision, fresh : BOOLEAN]
NoRow == [status |-> "none", call |-> "none"]
NoCall == [at |-> "idle", ticket |-> NoTicket, rules |-> {}]
Quiet == [at |-> "idle", ticket |-> NoTicket, allow |-> FALSE, rules |-> {}]

EngineRow == [rules : SUBSET Effects, revision : 0..MaxRevision, loaded : BOOLEAN]
ApprovalRow == [status : {"none", "pending", "allowed", "denied", "expired"},
                call : Calls \cup {"none"}]
CallRow == [at : {"idle", "loading", "loaded", "judging", "ticketing", "persisting", "waiting",
                  "consuming", "running", "finishing", "over"},
            ticket : Tickets \cup {NoTicket}, rules : SUBSET Effects]
ClientRow == [at : {"idle", "deciding", "marking", "resuming", "reading", "replacing"},
              ticket : Tickets \cup {NoTicket}, allow : BOOLEAN, rules : SUBSET Effects]

TypeOK ==
  /\ stored \subseteq Effects
  /\ engine \in EngineRow
  /\ approvals \in [Tickets -> Records]
  /\ row \in [Tickets -> ApprovalRow]
  /\ waiter \in [Tickets -> {"none", "waiting", "notified", "cancelled"}]
  /\ call \in [Calls -> CallRow]
  /\ client \in [Clients -> ClientRow]
  /\ used \in [Tickets -> 0..2] /\ allowed \subseteq Tickets /\ asked \in 0..MaxAsked

Init ==
  /\ stored = {} /\ engine = [rules |-> {}, revision |-> 0, loaded |-> FALSE]
  /\ approvals = [t \in Tickets |-> NoRecord] /\ row = [t \in Tickets |-> NoRow]
  /\ waiter = [t \in Tickets |-> "none"]
  /\ call = [c \in Calls |-> NoCall]
  /\ client = [x \in Clients |-> Quiet]
  /\ used = [t \in Tickets |-> 0] /\ allowed = {} /\ asked = 0

-----------------------------------------------------------------------------
(* Policy engine *)

(* effect: a deny wins, then a demand for approval, then an allowance; nothing *)
(* that matches demands approval.                                              *)
Effect(rules) ==
  CASE "deny" \in rules -> "deny"
    [] rules = {"allow"} -> "allow"
    [] OTHER -> "require_approval"

(* replace_rules *)
ReplaceRules(rules) ==
  /\ engine.revision < MaxRevision
  /\ engine' = [rules |-> rules, revision |-> engine.revision + 1, loaded |-> TRUE]

(* decide: a second decision, or a late one, takes the approval away. *)
Decide(t, allow) ==
  LET r == approvals[t]
      valid == r # NoRecord /\ r.fresh /\ r.decision = "none"
  IN /\ approvals' = [approvals EXCEPT ![t] = IF valid
          THEN [r EXCEPT !.decision = IF allow THEN "allow" ELSE "deny"] ELSE NoRecord]
     /\ allowed' = IF valid /\ allow THEN allowed \cup {t} ELSE allowed

Decidable(t) == approvals[t] # NoRecord /\ approvals[t].fresh /\ approvals[t].decision = "none"

(* consume_approval: the approval is gone whatever it said. *)
Consumes(c, t) ==
  LET r == approvals[t]
  IN r # NoRecord /\ r.fresh /\ r.call = c /\ r.revision = engine.revision /\ r.decision = "allow"

ConsumeApproval(c) ==
  LET t == call[c].ticket
      ok == Consumes(c, t)
  IN /\ call[c].at = "consuming"
     /\ approvals' = [approvals EXCEPT ![t] = NoRecord]
     /\ used' = IF ok THEN [used EXCEPT ![t] = @ + 1] ELSE used
     /\ call' = [call EXCEPT ![c].at = IF ok THEN "running" ELSE "idle"]
     /\ UNCHANGED <<stored, engine, row, waiter, client, allowed, asked>>

-----------------------------------------------------------------------------
(* An operation asks for the capability *)

Policy == <<stored, engine, approvals, row, waiter, client, used, allowed, asked>>
Goto(c, step) == call' = [call EXCEPT ![c].at = step]
At(c, step) == call[c].at = step

(* ensure_policy_loaded *)
Ask(c) ==
  /\ At(c, "idle") /\ Goto(c, IF engine.loaded THEN "judging" ELSE "loading")
  /\ UNCHANGED Policy

(* reload_policy under policy_hydration, which rule changes do not take. *)
LoadReads(c) ==
  /\ At(c, "loading") /\ \A x \in Calls : ~At(x, "loaded")
  /\ call' = IF engine.loaded THEN [call EXCEPT ![c].at = "judging"]
             ELSE [call EXCEPT ![c].at = "loaded", ![c].rules = stored]
  /\ UNCHANGED Policy

LoadPolicy(c) ==
  /\ At(c, "loaded")
  /\ ReplaceRules(call[c].rules)
  /\ call' = [call EXCEPT ![c].at = "judging", ![c].rules = {}]
  /\ UNCHANGED <<stored, approvals, row, waiter, client, used, allowed, asked>>

(* A request that was asked for approval comes back with the ticket. *)
AskAgain(c, t) ==
  /\ c \in Requests /\ At(c, "idle") /\ row[t] # NoRow
  /\ call' = [call EXCEPT ![c].at = "consuming", ![c].ticket = t]
  /\ UNCHANGED Policy

Authorize(c) ==
  /\ At(c, "judging")
  /\ Goto(c, CASE Effect(engine.rules) = "deny" -> "idle"
               [] Effect(engine.rules) = "allow" -> "running"
               [] OTHER -> "ticketing")
  /\ UNCHANGED Policy

Fresh(t) == approvals[t] # NoRecord /\ approvals[t].fresh
Undecided(c) == {t \in Tickets : Fresh(t) /\ approvals[t].call = c /\ approvals[t].decision = "none"}

(* The rules were judged before the map was locked: an approval that waits for the same *)
(* request is found again, at most MostPending wait, stale ones leave the map.          *)
IssueTicket(c, t) ==
  LET again == {x \in Undecided(c) : approvals[x].revision = engine.revision}
      kept == [x \in Tickets |-> IF Fresh(x) THEN approvals[x] ELSE NoRecord]
  IN /\ At(c, "ticketing")
     /\ IF again # {}
        THEN t \in again /\ approvals' = kept
             /\ call' = [call EXCEPT ![c].at = "persisting", ![c].ticket = t]
        ELSE IF Cardinality(Undecided(c)) >= MostPending
        THEN approvals' = kept /\ Goto(c, "idle")
        ELSE /\ row[t] = NoRow /\ approvals[t] = NoRecord /\ t \notin allowed
             /\ \A x \in Calls : call[x].ticket # t
             /\ approvals' = [kept EXCEPT ![t] = [call |-> c, decision |-> "none",
                                revision |-> engine.revision, fresh |-> TRUE]]
             /\ call' = [call EXCEPT ![c].at = "persisting", ![c].ticket = t]
     /\ UNCHANGED <<stored, engine, row, waiter, client, used, allowed, asked>>

(* persist_approval; a turn registers as a waiter before the row exists. *)
PersistApproval(c) ==
  LET t == call[c].ticket
  IN /\ At(c, "persisting")
     /\ \/ /\ row' = [row EXCEPT ![t] = IF @ = NoRow THEN [status |-> "pending", call |-> c] ELSE @]
           /\ IF c \in Turns
              THEN /\ waiter' = [waiter EXCEPT ![t] = "waiting"]
                   /\ Goto(c, "waiting")
              ELSE UNCHANGED waiter /\ Goto(c, "idle")
        \/ UNCHANGED <<row, waiter>> /\ Goto(c, "idle")
     /\ UNCHANGED <<stored, engine, approvals, client, used, allowed, asked>>

(* await_capability_approval: the deadline is the ticket's. *)
AwaitCapabilityApproval(c) ==
  LET t == call[c].ticket
  IN /\ At(c, "waiting")
     /\ \/ waiter[t] = "notified" /\ Goto(c, "consuming")
        \/ waiter[t] = "cancelled" /\ Goto(c, "finishing")
        \/ waiter[t] = "waiting" /\ ~Fresh(t) /\ Goto(c, "idle")
     /\ waiter' = [waiter EXCEPT ![t] = "none"]
     /\ UNCHANGED <<stored, engine, approvals, row, client, used, allowed, asked>>

Done(c) == At(c, "running") /\ Goto(c, "idle") /\ UNCHANGED Policy

(* wake_capability_approvals: a stop reaches the waiters that are registered now. *)
WakeCapabilityApprovals(c) ==
  /\ c \in Turns
  /\ \E t \in Tickets : waiter[t] # "none" /\ call[c].ticket = t
  /\ waiter' = [t \in Tickets |-> IF waiter[t] # "none" /\ call[c].ticket = t
                                  THEN "cancelled" ELSE waiter[t]]
  /\ UNCHANGED <<stored, engine, approvals, row, call, client, used, allowed, asked>>

(* The provider has ended the turn: finish_interactions expires what still waits. *)
EndTurn(c) == c \in Turns /\ At(c, "idle") /\ Goto(c, "finishing") /\ UNCHANGED Policy

Expired(turns) ==
  [t \in Tickets |-> IF row[t].status = "pending" /\ row[t].call \in turns
                     THEN [row[t] EXCEPT !.status = "expired"] ELSE row[t]]

FinishProviderInteractions(c) ==
  /\ At(c, "finishing")
  /\ row' = Expired({c})
  /\ Goto(c, "over")
  /\ UNCHANGED <<stored, engine, approvals, waiter, client, used, allowed, asked>>

-----------------------------------------------------------------------------
(* The owner decides: the engine first, the row next, the waiter last *)

Step(x, step) == client' = [client EXCEPT ![x].at = step]
Answer(x) == client' = [client EXCEPT ![x] = Quiet]

DecideApproval(x, t, allow) ==
  /\ asked < MaxAsked /\ asked' = asked + 1
  /\ client[x].at = "idle" /\ row[t] # NoRow
  /\ client' = [client EXCEPT ![x] = [Quiet EXCEPT !.at = "deciding", !.ticket = t, !.allow = allow]]
  /\ UNCHANGED <<stored, engine, approvals, row, waiter, call, used, allowed>>

(* Faulty variant: the waiter is woken before the row is written. *)
ResolveAndWake(x) ==
  LET t == client[x].ticket
  IN /\ client[x].at = "deciding"
     /\ (IF Decidable(t) THEN Step(x, "marking") ELSE Answer(x))
     /\ Decide(t, client[x].allow)
     /\ waiter' = [waiter EXCEPT ![t] = IF Decidable(t) /\ @ = "waiting" THEN "notified" ELSE @]
     /\ UNCHANGED <<stored, engine, row, call, used, asked>>

ResolveApproval(x) ==
  /\ client[x].at = "deciding"
  /\ (IF Decidable(client[x].ticket) THEN Step(x, "marking") ELSE Answer(x))
  /\ Decide(client[x].ticket, client[x].allow)
  /\ UNCHANGED <<stored, engine, row, waiter, call, used, asked>>

(* decide_chat_approval: only a pending row; otherwise nobody is woken. *)
DecideChatApproval(x) ==
  LET t == client[x].ticket
  IN /\ client[x].at = "marking"
     /\ IF row[t].status = "pending"
        THEN /\ row' = [row EXCEPT ![t].status = IF client[x].allow THEN "allowed" ELSE "denied"]
             /\ Step(x, "resuming")
        ELSE UNCHANGED row /\ Answer(x)
     /\ UNCHANGED <<stored, engine, approvals, waiter, call, used, allowed, asked>>

ResumeCapabilityApproval(x) ==
  /\ client[x].at = "resuming"
  /\ waiter' = [waiter EXCEPT ![client[x].ticket] = IF @ = "waiting" THEN "notified" ELSE @]
  /\ Answer(x)
  /\ UNCHANGED <<stored, engine, approvals, row, call, used, allowed, asked>>

-----------------------------------------------------------------------------
(* The owner changes the rules: the table, then a copy of it for the engine *)

UpsertCapabilityRule(x, effect) ==
  /\ asked < MaxAsked /\ asked' = asked + 1
  /\ client[x].at = "idle"
  /\ stored' = stored \cup {effect} /\ Step(x, "reading")
  /\ UNCHANGED <<engine, approvals, row, waiter, call, used, allowed>>

DeleteCapabilityRule(x, effect) ==
  /\ asked < MaxAsked /\ asked' = asked + 1
  /\ client[x].at = "idle" /\ effect \in stored
  /\ stored' = stored \ {effect} /\ Step(x, "reading")
  /\ UNCHANGED <<engine, approvals, row, waiter, call, used, allowed>>

ReloadReads(x) ==
  /\ client[x].at = "reading"
  /\ client' = [client EXCEPT ![x].at = "replacing", ![x].rules = stored]
  /\ UNCHANGED <<stored, engine, approvals, row, waiter, call, used, allowed, asked>>

ReloadPolicy(x) ==
  /\ client[x].at = "replacing"
  /\ ReplaceRules(client[x].rules) /\ Answer(x)
  /\ UNCHANGED <<stored, approvals, row, waiter, call, used, allowed, asked>>

-----------------------------------------------------------------------------
(* The ten minutes of a ticket pass. *)
TicketExpires(t) ==
  /\ Fresh(t) /\ approvals' = [approvals EXCEPT ![t].fresh = FALSE]
  /\ UNCHANGED <<stored, engine, row, waiter, call, client, used, allowed, asked>>

(* The engine and the waiters were memory; recover_interrupted_chat_turns expires the *)
(* rows of the turns that streamed, other rows stay as they are.                      *)
Restart ==
  /\ asked < MaxAsked /\ asked' = asked + 1
  /\ engine' = [rules |-> {}, revision |-> 0, loaded |-> FALSE]
  /\ row' = Expired(Turns)
  /\ approvals' = [t \in Tickets |-> NoRecord] /\ waiter' = [t \in Tickets |-> "none"]
  /\ call' = [c \in Calls |-> [NoCall EXCEPT !.at = IF c \in Turns THEN "over" ELSE "idle"]]
  /\ client' = [x \in Clients |-> Quiet]
  /\ UNCHANGED <<stored, used, allowed>>

Next ==
  \/ \E c \in Calls :
       \/ Ask(c) \/ LoadReads(c) \/ LoadPolicy(c) \/ Authorize(c) \/ PersistApproval(c)
       \/ \E t \in Tickets : AskAgain(c, t) \/ IssueTicket(c, t)
       \/ AwaitCapabilityApproval(c) \/ ConsumeApproval(c) \/ Done(c)
       \/ WakeCapabilityApprovals(c) \/ EndTurn(c) \/ FinishProviderInteractions(c)
  \/ \E x \in Clients :
       \/ \E t \in Tickets, allow \in BOOLEAN : DecideApproval(x, t, allow)
       \/ ResolveApproval(x) \/ DecideChatApproval(x) \/ ResumeCapabilityApproval(x)
       \/ \E effect \in Effects : UpsertCapabilityRule(x, effect) \/ DeleteCapabilityRule(x, effect)
       \/ ReloadReads(x) \/ ReloadPolicy(x)
  \/ \E t \in Tickets : TicketExpires(t)
  \/ Restart

Spec == Init /\ [][Next]_vars

-----------------------------------------------------------------------------
(* An approval authorizes at most one operation, and only after the owner allowed it, *)
(* whatever else is decided, sent again, cancelled, expired or lost at a restart.     *)
SingleUse == \A t \in Tickets : used[t] <= 1 /\ (used[t] = 1 => t \in allowed)

(* When a turn's tool call runs on an approval, the chat shows that approval as allowed: *)
(* not as pending, denied or expired (decide_approval, finish_interactions).             *)
RunsAsShown ==
  \A c \in Turns : At(c, "running") /\ call[c].ticket # NoTicket /\ used[call[c].ticket] > 0
                     => row[call[c].ticket].status = "allowed"

(* The invariant behind both.  A ticket is decided once, used once and never issued anew *)
(* once it has a row; whoever is woken finds the row as the engine was told.             *)
Settled(t) ==
  /\ row[t] # NoRow
  /\ approvals[t] = NoRecord \/ approvals[t].decision # "none"
  /\ approvals[t].decision = "allow" => row[t].status = "allowed"

TicketAgrees(t) ==
  /\ used[t] <= 1 /\ (used[t] = 1 => t \in allowed)
  /\ used[t] > 0 => approvals[t] = NoRecord /\ row[t] # NoRow
  /\ approvals[t].decision = "allow" => t \in allowed
  /\ waiter[t] = "notified" => Settled(t)

CallAgrees(c) ==
  LET t == call[c].ticket
  IN /\ call[c].at \in {"persisting", "waiting", "consuming"} => t \in Tickets
     /\ At(c, "waiting") => c \in Turns
     /\ At(c, "consuming") => row[t] # NoRow /\ (c \in Turns => Settled(t))
     /\ c \in Turns /\ t \in Tickets => /\ approvals[t] = NoRecord \/ approvals[t].call = c
                                        /\ used[t] > 0 => row[t].status = "allowed"

ClientAgrees(x) ==
  LET t == client[x].ticket
  IN /\ client[x].at \in {"deciding", "marking", "resuming"} => t \in Tickets /\ row[t] # NoRow
     /\ client[x].at \in {"marking", "resuming"} =>
          \/ approvals[t] = NoRecord
          \/ approvals[t].decision = IF client[x].allow THEN "allow" ELSE "deny"
     /\ client[x].at = "resuming" =>
          row[t].status = IF client[x].allow THEN "allowed" ELSE "denied"

TicketInv ==
  /\ TypeOK /\ (\A t \in Tickets : TicketAgrees(t))
  /\ (\A c \in Calls : CallAgrees(c)) /\ (\A x \in Clients : ClientAgrees(x))

(* With a deny stored and no rule change in service, nothing is authorized. *)
DenyWins ==
  [][\A c \in Calls : ~At(c, "running") /\ At(c, "running")'
       => \/ Effect(stored) # "deny"
          \/ \E x \in Clients : client[x].at \in {"reading", "replacing"}]_vars
===============================================================================
