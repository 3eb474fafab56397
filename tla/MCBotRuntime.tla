---------------------------- MODULE MCBotRuntime -----------------------------
(* What a Bot's turn runs on: the group chat, the provider's run, tools, approvals,      *)
(* questions, memory, working context and routines. These components share no state in  *)
(* the models, so one run checks them side by side: a behaviour belongs to one component, *)
(* chosen at its start, whose variables take the slots v1, v2, ... in order.             *)
EXTENDS GroupChats

CONSTANTS Components,  \* those a run looks at
          None,
          AskingTurns, AskingRequests, Tickets, OwnerRequests, MostPending,
          PolicyRevisions, OwnerActions,  \* of Approvals
          Cards, Responders,  \* of Interactions
          ToolTurns, MaxToolCalls,  \* of WorkspaceTools
          McpPages, McpTools,  \* of McpSessions
          Texts, Named, FactCalls, MaxFacts, MaxFactCalls,  \* of Memory
          ProviderKinds, ProviderTurns, ProviderCalls,  \* of ProviderRuns
          CodexTurns, MaxCodexClients,  \* of CodexClient
          MaxProviderEvents,  \* of both
          ContextProfiles, PlanProfiles, ContextRequests, ContextTurns,
          ContextFaults,  \* of WorkingContext
          RoutineEditors, RoutineVersions, RoutineRestarts,  \* of Routines
          EventBatch, EventsInspected, SchedulePeriod, ScheduleGrace, MissedPolicy,
          MostCaughtUp, TriggerBounds,  \* of RoutineTriggers
          JobNames, JobTriggers, JobTrigger, JobRoutines, JobRoutine, JobLimit,
          SkippingTriggers, ClaimWindow, JobAttempts, JobCancels,
          JobRestarts  \* of RoutineJobs

ASSUME RuntimeAssumption ==
  /\ AskingTurns \cap AskingRequests = {} /\ None \notin Tickets
  /\ PolicyRevisions \in Nat /\ OwnerActions \in Nat
  /\ Cards # {}
  /\ MaxToolCalls \in Nat /\ MaxFacts \in Nat /\ MaxFactCalls \in Nat
  /\ McpPages \in Nat \ {0} /\ McpTools \in Nat \ {0}
  /\ "none" \notin CodexTurns /\ MaxCodexClients \in Nat
  /\ IsFiniteSet(ContextRequests) /\ ContextTurns \in Nat /\ ContextFaults \in Nat
  /\ RoutineVersions \in Nat \ {0} /\ RoutineRestarts \in Nat
  /\ IsFiniteSet(JobNames) /\ None \notin JobNames
  /\ JobTrigger \in [JobNames -> JobTriggers]
  /\ JobRoutine \in [JobTriggers -> JobRoutines]
  /\ JobLimit \in [JobTriggers -> Nat \ {0}]
  /\ JobAttempts \in Nat /\ JobRestarts \in Nat

(* For the configuration: behaviours deep in events and instants, and in deliveries. *)
EventsOrDeliveries ==
  {[events |-> 2, time |-> 3, kinds |-> {"event", "schedule"}, deliveries |-> {}],
   [events |-> 1, time |-> 0, kinds |-> {"event", "webhook"}, deliveries |-> {1, 2}]}
(* A job of a queueing, of a skipping and of a parallel trigger, all of one routine.    *)
ThreePolicies == [j \in JobNames |-> CASE j = "j1" -> "queues"
                                         [] j = "j2" -> "skips"
                                         [] j = "j3" -> "pairs"]
TwoForPairs == [g \in JobTriggers |-> IF g = "pairs" THEN 2 ELSE 1]
OneJobRoutine == [g \in JobTriggers |-> "r1"]

VARIABLES component,  \* the component of this behaviour
          v1, v2, v3, v4, v5, v6, v7, v8, v9, v10, v11, v12, v13  \* its variables

all == <<vars, component, v1, v2, v3, v4, v5, v6, v7, v8, v9, v10, v11, v12, v13>>

A == INSTANCE Approvals WITH
  Turns <- AskingTurns, Requests <- AskingRequests, Tickets <- Tickets,
  NoTicket <- None, Clients <- OwnerRequests, MostPending <- MostPending,
  MaxRevision <- PolicyRevisions, MaxAsked <- OwnerActions,
  stored <- v1, engine <- v2, approvals <- v3, row <- v4, waiter <- v5, call <- v6,
  client <- v7, used <- v8, allowed <- v9, asked <- v10

I == INSTANCE Interactions WITH
  Clients <- Responders,
  turn <- v1, pending <- v2, entry <- v3, card <- v4, vault <- v5, client <- v6,
  claims <- v7, accepted <- v8, returned <- v9

T == INSTANCE WorkspaceTools WITH
  Ops <- ToolTurns, MaxCalls <- MaxToolCalls,
  call <- v1, calls <- v2, services <- v3, entry <- v4, child <- v5, holder <- v6,
  reader <- v7, flags <- v8, chunk <- v9, stop <- v10, file <- v11, temp <- v12

S == INSTANCE McpSessions WITH
  Kinds <- {"local", "remote", "rest"}, MaxPages <- McpPages, MaxTools <- McpTools,
  kind <- v1, op <- v2, offered <- v3, at <- v4, page <- v5, tools <- v6, line <- v7,
  process <- v8, performed <- v9

M == INSTANCE Memory WITH
  Contents <- Texts, Entities <- Named, Calls <- FactCalls, NoCall <- None,
  MaxIds <- MaxFacts, MaxWork <- MaxFactCalls,
  facts <- v1, links <- v2, index <- v3, last_id <- v4, mentions <- v5, call <- v6,
  births <- v7, work <- v8

P == INSTANCE ProviderRuns WITH
  Ops <- ProviderTurns, Calls <- ProviderCalls, Kinds <- ProviderKinds,
  MaxEvents <- MaxProviderEvents,
  adapters <- v1, operations <- v2, active <- v3, pending <- v4, run <- v5,
  stream <- v6, listening <- v7

C == INSTANCE CodexClient WITH
  Ops <- CodexTurns, MaxClients <- MaxCodexClients, MaxEvents <- MaxProviderEvents,
  phase <- v1, slot <- v2, route <- v3, rpc <- v4, asked <- v5, reader <- v6,
  turn <- v7, stream <- v8, listening <- v9

W == INSTANCE WorkingContext WITH
  Profiles <- ContextProfiles, Able <- PlanProfiles, Requests <- ContextRequests,
  MaxTurns <- ContextTurns, MaxFaults <- ContextFaults,
  profile <- v1, row <- v2, conversation <- v3, turn <- v4, request <- v5, turns <- v6,
  faults <- v7, undone <- v8

R == INSTANCE Routines WITH
  Editors <- RoutineEditors, MaxVersions <- RoutineVersions, MaxRestarts <- RoutineRestarts,
  routine <- v1, taken <- v2, recording <- v3, editor <- v4, jobs <- v5, run <- v6,
  ran <- v7, drafts <- v8, restarts <- v9

E == INSTANCE RoutineTriggers WITH
  BatchLimit <- EventBatch, InspectLimit <- EventsInspected, Period <- SchedulePeriod,
  Grace <- ScheduleGrace, Policy <- MissedPolicy, CatchUpLimit <- MostCaughtUp,
  Bounds <- TriggerBounds,
  enabled <- v1, armed <- v2, log <- v3, cursor <- v4, now <- v5, evaluated <- v6,
  jobs <- v7, pass <- v8, request <- v9, dropped <- v10, answered <- v11, bound <- v12

ASSUME DeliveryAssumption ==
  /\ {EventBatch, EventsInspected, SchedulePeriod, MostCaughtUp} \subseteq Nat \ {0}
  /\ ScheduleGrace \in Nat
  /\ TriggerBounds \subseteq
       [events : Nat, time : Nat, kinds : SUBSET E!Kinds, deliveries : SUBSET Nat]

(* Where no trigger is deleted. *)
J == INSTANCE RoutineJobs WITH
  Jobs <- JobNames, Triggers <- JobTriggers, TriggerOf <- JobTrigger,
  Routines <- JobRoutines, RoutineOf <- JobRoutine, Limit <- JobLimit,
  Window <- ClaimWindow, Skips <- SkippingTriggers, Deletable <- {},
  MaxAttempts <- JobAttempts, Cancels <- JobCancels, MaxRestarts <- JobRestarts,
  NoJob <- None,
  deleted <- v1, status <- v2, attempts <- v3, cancel_requested <- v4, due <- v5,
  recovered <- v6, claimed <- v7, task <- v8, outcome <- v9,
  routine_cancellations <- v10, notified <- v11, cancelling <- v12, restarts <- v13

------------------------------------------------------------------------------
(* A slot that a component does not use stays 0. *)
RuntimeInit ==
  /\ component \in Components
  /\ Init
  /\ \/ /\ component = "groups"
        /\ v1 = 0 /\ v2 = 0 /\ v3 = 0 /\ v4 = 0 /\ v5 = 0 /\ v6 = 0
        /\ v7 = 0 /\ v8 = 0 /\ v9 = 0 /\ v10 = 0 /\ v11 = 0 /\ v12 = 0 /\ v13 = 0
     \/ component = "approvals" /\ A!Init /\ v11 = 0 /\ v12 = 0 /\ v13 = 0
     \/ component = "interactions" /\ I!Init /\ v10 = 0 /\ v11 = 0 /\ v12 = 0 /\ v13 = 0
     \/ component = "tools" /\ T!Init /\ v13 = 0
     \/ component = "mcp" /\ S!Init /\ v10 = 0 /\ v11 = 0 /\ v12 = 0 /\ v13 = 0
     \/ component = "memory" /\ M!Init /\ v9 = 0 /\ v10 = 0 /\ v11 = 0 /\ v12 = 0 /\ v13 = 0
     \/ component = "runs" /\ P!Init /\ v8 = 0 /\ v9 = 0 /\ v10 = 0 /\ v11 = 0 /\ v12 = 0 /\ v13 = 0
     \/ component = "codex" /\ C!Init /\ v10 = 0 /\ v11 = 0 /\ v12 = 0 /\ v13 = 0
     \/ component = "context" /\ W!Init /\ v9 = 0 /\ v10 = 0 /\ v11 = 0 /\ v12 = 0 /\ v13 = 0
     \/ component = "routines" /\ R!Init /\ v10 = 0 /\ v11 = 0 /\ v12 = 0 /\ v13 = 0
     \/ component = "triggers" /\ E!Init /\ v13 = 0
     \/ component = "jobs" /\ J!Init

RuntimeNext ==
  \/ /\ component = "groups" /\ Next
     /\ UNCHANGED <<component, v1, v2, v3, v4, v5, v6, v7, v8, v9, v10, v11, v12, v13>>
  \/ /\ component = "approvals" /\ A!Next
     /\ UNCHANGED <<vars, component, v11, v12, v13>>
  \/ /\ component = "interactions" /\ I!Next
     /\ UNCHANGED <<vars, component, v10, v11, v12, v13>>
  \/ /\ component = "tools" /\ T!Next
     /\ UNCHANGED <<vars, component, v13>>
  \/ /\ component = "mcp" /\ S!Next
     /\ UNCHANGED <<vars, component, v10, v11, v12, v13>>
  \/ /\ component = "memory" /\ M!Next
     /\ UNCHANGED <<vars, component, v9, v10, v11, v12, v13>>
  \/ /\ component = "runs" /\ P!Next
     /\ UNCHANGED <<vars, component, v8, v9, v10, v11, v12, v13>>
  \/ /\ component = "codex" /\ C!Next
     /\ UNCHANGED <<vars, component, v10, v11, v12, v13>>
  \/ /\ component = "context" /\ W!Next
     /\ UNCHANGED <<vars, component, v9, v10, v11, v12, v13>>
  \/ /\ component = "routines" /\ R!Next
     /\ UNCHANGED <<vars, component, v10, v11, v12, v13>>
  \/ /\ component = "triggers" /\ E!Next
     /\ UNCHANGED <<vars, component, v13>>
  \/ /\ component = "jobs" /\ J!Next
     /\ UNCHANGED <<vars, component>>

RuntimeSpec == RuntimeInit /\ [][RuntimeNext]_all

------------------------------------------------------------------------------
(* Every variable of every component has its type. *)
RuntimeTypeOK ==
  CASE component = "groups" -> TypeOK
    [] component = "approvals" -> A!TypeOK
    [] component = "interactions" -> I!TypeOK
    [] component = "tools" -> T!TypeOK
    [] component = "mcp" -> S!TypeOK
    [] component = "memory" -> M!TypeOK
    [] component = "runs" -> P!TypeOK
    [] component = "codex" -> C!TypeOK
    [] component = "context" -> W!TypeOK
    [] component = "routines" -> R!TypeOK
    [] component = "triggers" -> E!TypeOK
    [] component = "jobs" -> J!TypeOK

(* An operation of a turn that runs under an approval runs while the chat shows the      *)
(* approval as allowed, whenever the decision and the turn's end come.                   *)
RunsAsShown == component = "approvals" => A!RunsAsShown

(* Of several answers to a question one at most counts, and the tool call returns with   *)
(* it; a secret answer has reached the vault by then.                                    *)
OneAnswer == component = "interactions" => I!OneAnswer

(* A command whose process is not yet reaped stays where a stop looks for it, whichever of *)
(* its exit, its deadline, its output limit and the stop comes first (docs/tools.md).      *)
FoundByStop == component = "tools" => T!FoundByStop

(* However an MCP operation ends, no child of it is left, a discovery has every tool and *)
(* a call that succeeded was performed.                                                  *)
OutcomeHolds == component = "mcp" => S!OutcomeHolds

(* An id that a tool call still holds means the fact it read or none, and the indexes    *)
(* hold what the facts say.                                                              *)
IdsMeanOneFact == component = "memory" => M!IdsMeanOneFact

(* A provider's stream carries at most one terminal event, and a run that is done leaves *)
(* no tool call behind and its listener with an end.                                     *)
EndsClean == component = "runs" => P!EndsClean

(* No Codex turn waits for a client that is gone.                                        *)
NoneStranded == component = "codex" => C!NoneStranded

(* As long as nothing disturbs the row, a chat's context is busy exactly while one       *)
(* operation works on it.                                                                *)
BusyWhileOperating == component = "context" => W!BusyWhileOperating

(* No version that was saved as a draft is ever replayed.                                *)
DraftsNeverRun == component = "routines" => R!DraftsNeverRun

(* A cursor that has passed an event or an occurrence has its job behind it, or the      *)
(* policy dropped it; a webhook delivery that was answered has its job.                  *)
NothingUndelivered == component = "triggers" => E!NothingUndelivered

(* The tasks at work on a routine are never more than the most permissive overlap policy *)
(* among them allows, whatever was cancelled, retried or recovered meanwhile.            *)
OverlapRespected == component = "jobs" => J!OverlapRespected

(* A job that its row shows as waiting, cancelled or otherwise over has no task at work,  *)
(* whichever gap of a claim, a report or a restart a cancellation falls into.            *)
WorkIsShown == component = "jobs" => J!WorkIsShown
==============================================================================
