-------------------------------- MODULE Browser --------------------------------
(***************************************************************************)
(* The shared browser of one chat: the rows of browser_sessions, the page  *)
(* targets of the runtime, and the requests of devices and of the Bot over *)
(* them (crates/homebot-server/src/browser_sessions.rs, the browser part   *)
(* of storage, crates/homebot-tools/src/browser.rs).  Every await that     *)
(* leaves the process or waits for the owner separates two actions.        *)
(***************************************************************************)
EXTENDS Integers, FiniteSets

CONSTANTS Sessions,            (* idempotency keys of creations: ids of the rows   *)
          Targets, NoTarget,   (* ids of runtime sessions                          *)
          Devices, Bot,        (* a paired device or the owner, and the turn       *)
          NoDevice,
          Callers,             (* requests and tool calls in service               *)
          Slots,               (* MAX_BROWSER_SESSIONS                             *)
          MaxCalls             (* bound of the model: requests per behaviour       *)

VARIABLES
  row,         (* browser_sessions *)
  targets,     (* BrowserService.sessions: live targets, each holding a slot *)
  claimed,     (* idempotency rows of creations *)
  call,        (* the locals of each request and tool call *)
  opened,      (* history: runtime ids handed out *)
  crossed,     (* history: browsers to which a call wrote back a controller that had
                  changed since it was read *)
  arrived      (* requests so far *)

vars == <<row, targets, claimed, call, opened, crossed, arrived>>

Absent == [status |-> "none", controller |-> "bot", target |-> NoTarget,
           device |-> NoDevice, lease |-> "none"]
Requests == {"create", "takeover", "return", "act", "close", "bot_act", "bot_close"}
CallSteps == Requests \cup {"idle", "opening", "activating", "parking", "taking", "asking",
  "returning", "running", "completing", "stalling", "closing", "closed", "ensuring", "waiting"}
Sees == [status : {"none", "active", "awaiting_approval", "closed", "failed"},
         controller : {"bot", "user"}, target : Targets \cup {NoTarget},
         device : Devices \cup {NoDevice}, lease : {"none", "held", "expired"}]
Idle == [at |-> "idle", who |-> Bot, session |-> CHOOSE s \in Sessions : TRUE,
         saw |-> Absent, target |-> NoTarget, next |-> "none"]

Locals == [at : CallSteps, who : Devices \cup {Bot}, session : Sessions, saw : Sees,
           target : Targets \cup {NoTarget}, next : {"none", "opening", "running", "closing"}]

TypeOK ==
  /\ row \in [Sessions -> Sees] /\ targets \subseteq opened /\ opened \subseteq Targets
  /\ Cardinality(targets) <= Slots /\ claimed \subseteq Sessions
  /\ call \in [Callers -> Locals] /\ crossed \subseteq Sessions /\ arrived \in 0..MaxCalls

Init ==
  /\ row = [s \in Sessions |-> Absent]
  /\ targets = {} /\ claimed = {} /\ opened = {}
  /\ call = [c \in Callers |-> Idle]
  /\ crossed = {} /\ arrived = 0

-----------------------------------------------------------------------------
(* Storage *)

Exists(s) == row[s].status # "none"

CreateBrowserSession(s, status, t) ==
  row' = [row EXCEPT ![s] = [Absent EXCEPT !.status = status, !.target = t]]

(* No condition on what the row says by now. *)
UpdateBrowserSession(s, controller, status) ==
  row' = [row EXCEPT ![s].controller = controller, ![s].status = status]

ActivateBrowserSession(s, t) ==
  row' = [row EXCEPT ![s].target = t, ![s].status = "active"]

Claimable(s, d) ==
  \/ row[s].controller # "user" \/ row[s].device = d \/ row[s].lease # "held"

(* The columns of the takeover are written together. *)
Holds(s, d) ==
  /\ row' = [row EXCEPT ![s].controller = "user", ![s].status = "active",
                        ![s].device = d, ![s].lease = "held"]
  /\ crossed' = crossed \ {s}

ClaimBrowserTakeover(s, d) ==
  IF Claimable(s, d) THEN Holds(s, d) ELSE UNCHANGED <<row, crossed>>

ReleaseBrowserTakeover(s, d) ==
  IF row[s].controller # "user" \/ row[s].device = d
  THEN /\ row' = [row EXCEPT ![s].controller = "bot", ![s].status = "active",
                             ![s].device = NoDevice, ![s].lease = "none"]
       /\ crossed' = crossed \ {s}
  ELSE UNCHANGED <<row, crossed>>

Lost(r) == [r EXCEPT !.target = NoTarget, !.controller = "bot", !.status = "failed",
                     !.device = NoDevice, !.lease = "none"]

FailStalledBrowserSession(s) ==
  IF row[s].status = "closed" THEN UNCHANGED <<row, crossed>>
  ELSE row' = [row EXCEPT ![s] = Lost(row[s])] /\ crossed' = crossed \ {s}

BrowserTakeoverActive ==
  \E s \in Sessions : row[s].controller = "user" /\ row[s].status = "active"

Interrupted(s) == row[s].status \in {"active", "awaiting_approval"}

RecoverInterruptedBrowserSessions ==
  /\ row' = [s \in Sessions |-> IF Interrupted(s) THEN Lost(row[s]) ELSE row[s]]
  /\ crossed' = {s \in crossed : ~Interrupted(s)}

-----------------------------------------------------------------------------
(* Requests *)

At(c, step) == call[c].at = step
S(c) == call[c].session
Saw(c) == call[c].saw
Goto(c, step) == call' = [call EXCEPT ![c].at = step]
Answer(c) == call' = [call EXCEPT ![c] = Idle]
GoWith(c, step, s) == call' = [call EXCEPT ![c].at = step, ![c].session = s, ![c].saw = row[s]]
Same == <<opened, arrived>>
Rows == <<row, crossed>>

(* A call writes the row with the controller it has read, if it still says so or not. *)
WriteBack(c, controller, status) ==
  /\ UpdateBrowserSession(S(c), controller, status)
  /\ crossed' = IF Saw(c).controller = row[S(c)].controller THEN crossed ELSE crossed \cup {S(c)}

Arrive(c, request, who, s) ==
  /\ At(c, "idle") /\ arrived < MaxCalls /\ arrived' = arrived + 1
  /\ who = Bot <=> request \in {"bot_act", "bot_close"}
  /\ call' = [call EXCEPT ![c] = [Idle EXCEPT !.at = request, !.who = who, !.session = s]]
  /\ UNCHANGED <<Rows, targets, claimed, opened>>

(* enforce_takeover_owner, enforce_takeover_claimable, enforce_action_controller *)
EnforceTakeoverOwner(c, r) == r.controller = "user" => r.device = call[c].who
EnforceTakeoverClaimable(c, r) ==
  r.controller = "user" => r.device = call[c].who \/ r.lease # "held"
EnforceActionController(c, r) ==
  EnforceTakeoverOwner(c, r) /\ (r.controller = "user" => r.lease # "expired")

(* create: a claim that somebody else holds answers with the row or a conflict. *)
CreateClaims(c) ==
  /\ At(c, "create")
  /\ IF S(c) \in claimed THEN UNCHANGED claimed /\ Answer(c)
     ELSE claimed' = claimed \cup {S(c)} /\ Goto(c, "opening")
  /\ UNCHANGED <<Rows, targets, Same>>

(* Faulty variant: the session limit is not checked. *)
OpenUncounted(c, t) ==
  /\ At(c, "opening") /\ t \notin opened /\ opened' = opened \cup {t}
  /\ targets' = targets \cup {t}
  /\ call' = [call EXCEPT ![c].at = "activating", ![c].target = t]
  /\ UNCHANGED <<Rows, claimed, arrived>>

(* create_session: a slot is taken for the life of the registered target. *)
OpenTarget(c, t) ==
  /\ At(c, "opening") /\ Cardinality(targets) < Slots
  /\ t \notin opened /\ opened' = opened \cup {t}
  /\ targets' = targets \cup {t}
  /\ call' = [call EXCEPT ![c].at = "activating", ![c].target = t]
  /\ UNCHANGED <<Rows, claimed, arrived>>

(* The policy denies, no slot is free, or the protocol fails: the claim stays. *)
OpenFails(c) == At(c, "opening") /\ Answer(c) /\ UNCHANGED <<Rows, targets, claimed, Same>>

(* The policy asks: a request gives its claim back, the Bot waits for the owner. *)
OpenAsks(c) ==
  /\ At(c, "opening") /\ call[c].next = "none"
  /\ IF call[c].who = Bot
     THEN call' = [call EXCEPT ![c].at = "waiting", ![c].next = "opening"] /\ UNCHANGED claimed
     ELSE claimed' = claimed \ {S(c)} /\ Goto(c, "parking")
  /\ UNCHANGED <<Rows, targets, Same>>

PendingSession(c) ==
  /\ At(c, "parking")
  /\ (IF Exists(S(c)) THEN UNCHANGED row
                      ELSE CreateBrowserSession(S(c), "awaiting_approval", NoTarget))
  /\ Answer(c) /\ UNCHANGED <<crossed, targets, claimed, Same>>

(* activate_created_session; when the insert fails, the target stays registered. *)
ActivateCreatedSession(c) ==
  /\ At(c, "activating")
  /\ \/ /\ (IF Exists(S(c)) THEN ActivateBrowserSession(S(c), call[c].target)
                            ELSE CreateBrowserSession(S(c), "active", call[c].target))
        /\ IF call[c].who = Bot
           THEN call' = [call EXCEPT ![c].at = "running", ![c].saw = row'[S(c)], ![c].next = "none"]
           ELSE Answer(c)
     \/ UNCHANGED row /\ Answer(c)
  /\ UNCHANGED <<crossed, targets, claimed, Same>>

(* takeover: read and check, then the policy, then the guarded update. *)
TakeoverReads(c) ==
  /\ At(c, "takeover")
  /\ IF Exists(S(c)) /\ EnforceTakeoverClaimable(c, row[S(c)])
     THEN \/ GoWith(c, "taking", S(c))
          \/ GoWith(c, "asking", S(c))
          \/ Answer(c)
     ELSE Answer(c)
  /\ UNCHANGED <<Rows, targets, claimed, Same>>

Takeover(c) ==
  /\ At(c, "taking")
  /\ ClaimBrowserTakeover(S(c), call[c].who) /\ Answer(c)
  /\ UNCHANGED <<targets, claimed, Same>>

(* The approval of a takeover, an action or a close is asked for in the row, with the *)
(* controller that was read.                                                          *)
AskApproval(c) ==
  /\ At(c, "asking")
  /\ WriteBack(c, Saw(c).controller, "awaiting_approval")
  /\ Answer(c) /\ UNCHANGED <<targets, claimed, Same>>

ReturnReads(c) ==
  /\ At(c, "return")
  /\ (IF Exists(S(c)) /\ EnforceTakeoverOwner(c, row[S(c)]) THEN Goto(c, "returning") ELSE Answer(c))
  /\ UNCHANGED <<Rows, targets, claimed, Same>>

ReturnToBot(c) ==
  /\ At(c, "returning")
  /\ ReleaseBrowserTakeover(S(c), call[c].who) /\ Answer(c)
  /\ UNCHANGED <<targets, claimed, Same>>

ExecuteReads(c) ==
  /\ At(c, "act")
  /\ IF /\ Exists(S(c)) /\ EnforceActionController(c, row[S(c)])
        /\ row[S(c)].status # "closed" /\ row[S(c)].target # NoTarget
     THEN GoWith(c, "running", S(c)) ELSE Answer(c)
  /\ UNCHANGED <<Rows, targets, claimed, Same>>

(* BrowserService::execute under execute_runtime's deadline, for devices and the Bot. *)
ExecuteRuntime(c) ==
  /\ At(c, "running")
  /\ \/ Saw(c).target \in targets /\ Goto(c, "completing")
     \/ Saw(c).target \in targets /\ Goto(c, "stalling")
     \/ Answer(c)
     \/ /\ Saw(c).target \in targets /\ call[c].next = "none"
        /\ IF call[c].who = Bot
           THEN call' = [call EXCEPT ![c].at = "waiting", ![c].next = "running"]
           ELSE Goto(c, "asking")
  /\ UNCHANGED <<Rows, targets, claimed, Same>>

(* Faulty variant: a browser on which an action has ended is the Bot's. *)
CompleteForBot(c) ==
  /\ At(c, "completing")
  /\ WriteBack(c, "bot", "active")
  /\ Answer(c) /\ UNCHANGED <<targets, claimed, Same>>

(* complete_action writes the controller that was read before the action. *)
CompleteAction(c) ==
  /\ At(c, "completing")
  /\ WriteBack(c, Saw(c).controller, "active")
  /\ Answer(c) /\ UNCHANGED <<targets, claimed, Same>>

(* The row forgets the target; the registry and its slot keep it. *)
FailStalledSession(c) ==
  /\ At(c, "stalling")
  /\ FailStalledBrowserSession(S(c)) /\ Answer(c) /\ UNCHANGED <<targets, claimed, Same>>

CloseReads(c) ==
  /\ At(c, "close")
  /\ (IF Exists(S(c)) /\ EnforceTakeoverOwner(c, row[S(c)])
      THEN GoWith(c, IF row[S(c)].target = NoTarget THEN "closed" ELSE "closing", S(c))
      ELSE Answer(c))
  /\ UNCHANGED <<Rows, targets, claimed, Same>>

(* close_session: only a target that the runtime still has can be closed. *)
CloseTarget(c) ==
  /\ At(c, "closing")
  /\ \/ /\ Saw(c).target \in targets
        /\ targets' = targets \ {Saw(c).target} /\ Goto(c, "closed")
     \/ UNCHANGED targets /\ Answer(c)
     \/ /\ Saw(c).target \in targets /\ call[c].next = "none" /\ UNCHANGED targets
        /\ IF call[c].who = Bot
           THEN call' = [call EXCEPT ![c].at = "waiting", ![c].next = "closing"]
           ELSE Goto(c, "asking")
  /\ UNCHANGED <<Rows, claimed, Same>>

Close(c) ==
  /\ At(c, "closed")
  /\ WriteBack(c, IF call[c].who = Bot THEN "bot" ELSE Saw(c).controller, "closed")
  /\ Answer(c) /\ UNCHANGED <<targets, claimed, Same>>

-----------------------------------------------------------------------------
(* The Bot's tools *)

BotsOwn == {s \in Sessions : /\ row[s].controller = "bot" /\ row[s].status = "active"
                             /\ row[s].target # NoTarget}

(* call_provider_tool: the takeover is looked at once, before everything else. *)
CallProviderTool(c) ==
  /\ At(c, "bot_act")
  /\ (IF BrowserTakeoverActive THEN Answer(c) ELSE Goto(c, "ensuring"))
  /\ UNCHANGED <<Rows, targets, claimed, Same>>

(* ensure_provider_session: an active session of the Bot, or a new one. *)
EnsureProviderSession(c) ==
  /\ At(c, "ensuring")
  /\ \/ \E s \in BotsOwn : GoWith(c, "running", s) \/ Answer(c)
     \/ /\ BotsOwn = {}
        /\ \E s \in Sessions : ~Exists(s) /\ s \notin claimed /\ GoWith(c, "opening", s)
     \/ BotsOwn = {} /\ Answer(c)
  /\ UNCHANGED <<Rows, targets, claimed, Same>>

(* await_capability_approval: approved with the wait, or denied, expired, cancelled. *)
AwaitCapabilityApproval(c) ==
  /\ At(c, "waiting")
  /\ (Goto(c, call[c].next) \/ Answer(c))
  /\ UNCHANGED <<Rows, targets, claimed, Same>>

CloseForProvider(c) ==
  /\ At(c, "bot_close")
  /\ \/ ~BrowserTakeoverActive /\ \E s \in BotsOwn : GoWith(c, "closing", s)
     \/ (BrowserTakeoverActive \/ BotsOwn = {}) /\ Answer(c)
  /\ UNCHANGED <<Rows, targets, claimed, Same>>

-----------------------------------------------------------------------------
(* TAKEOVER_LEASE_MS passes. *)
LeaseExpires(s) ==
  /\ row[s].lease = "held" /\ row' = [row EXCEPT ![s].lease = "expired"]
  /\ UNCHANGED <<crossed, targets, claimed, call, Same>>

(* provider_bootstrap recovers the rows; the registry of targets was memory. *)
Restart ==
  /\ \E c \in Callers : ~At(c, "idle")
  /\ RecoverInterruptedBrowserSessions
  /\ targets' = {} /\ call' = [c \in Callers |-> Idle]
  /\ UNCHANGED <<claimed, Same>>

HandlesRequest(c) ==
  \/ CreateClaims(c) \/ OpenFails(c) \/ OpenAsks(c) \/ (\E t \in Targets : OpenTarget(c, t))
  \/ PendingSession(c) \/ ActivateCreatedSession(c)
  \/ TakeoverReads(c) \/ Takeover(c) \/ AskApproval(c) \/ ReturnReads(c) \/ ReturnToBot(c)
  \/ ExecuteReads(c) \/ ExecuteRuntime(c) \/ CompleteAction(c) \/ FailStalledSession(c)
  \/ CloseReads(c) \/ CloseTarget(c) \/ Close(c)
  \/ CallProviderTool(c) \/ EnsureProviderSession(c) \/ AwaitCapabilityApproval(c)
  \/ CloseForProvider(c)

Next ==
  \/ \E c \in Callers :
       \/ \E request \in Requests, who \in Devices \cup {Bot}, s \in Sessions :
            Arrive(c, request, who, s)
       \/ HandlesRequest(c)
  \/ \E s \in Sessions : LeaseExpires(s)
  \/ Restart

Spec == Init /\ [][Next]_vars

-----------------------------------------------------------------------------
(* A step that leaves the browser s with the device that has it, returns it for that *)
(* device, or loses it.                                                              *)
StaysOrReturned(s) ==
  \/ row'[s].controller = "user" /\ row'[s].device = row[s].device
  \/ row'[s].status = "failed"
  \/ \E c \in Callers : At(c, "returning") /\ S(c) = s /\ call[c].who = row[s].device

LeaseKept ==
  \A s \in Sessions : row[s].lease = "held" /\ s \notin crossed /\ s \notin crossed' => StaysOrReturned(s)

(* A device whose lease runs keeps its browser through its own and other devices' actions, *)
(* approvals, takeovers and closes and through the Bot's tools, until it returns the       *)
(* browser itself or the browser is lost; unless a call has written back a controller it   *)
(* read before the takeover (complete_action, claim_browser_takeover).                     *)
LeaseRespected == [][LeaseKept]_vars

(* Unless a call has written back such a controller, a browser is in a person's hands       *)
(* exactly while a device is recorded that can return it (controller and device are written *)
(* by separate statements), and a lease that runs has its device.                           *)
HolderRecorded ==
  \A s \in Sessions \ crossed :
    /\ row[s].controller = "user" <=> row[s].device # NoDevice
    /\ row[s].lease = "held" => row[s].device # NoDevice

(* While a person controls a live browser, the Bot's tools see a takeover. *)
BotPausedDuringTakeover ==
  \A s \in Sessions : row[s].controller = "user" /\ row[s].status \in {"active", "awaiting_approval"}
                        => BrowserTakeoverActive

(* Why they hold: the requests of devices stay theirs; a call that waits knows how it goes *)
(* on; what the Bot's tool closes was the Bot's when it read the row; and a session that   *)
(* has no row has no lease.                                                                *)
Closes(q) == q.at \in {"closing", "closed"} \/ (q.at = "waiting" /\ q.next = "closing")
CallKnows(q) ==
  /\ q.at \in {"create", "takeover", "taking", "act", "close"} => q.who # Bot
  /\ q.at = "waiting" => q.next # "none"
  /\ q.who = Bot /\ Closes(q) => q.saw.controller = "bot"
BrowserInv ==
  /\ TypeOK /\ IsFiniteSet(targets) /\ (\A c \in Callers : CallKnows(call[c]))
  /\ HolderRecorded /\ \A s \in Sessions : ~Exists(s) => row[s].lease = "none"
===============================================================================
