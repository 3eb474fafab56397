----------------------------- MODULE MCOwnerSide -----------------------------
(* What the owner's devices and requests work on: records, plugins, browsers,            *)
(* workspaces, files, secrets, pairing, and the clients themselves. These components    *)
(* share no state in the models, so one run checks them side by side: a behaviour       *)
(* belongs to one component, chosen at its start, whose variables take the slots v1,    *)
(* v2, ... in order.                                                                     *)
EXTENDS Integers

CONSTANTS Components,  \* those a run looks at
          None,
          RosterHandlers, RosterKeys, MaxUnread,  \* of Unread
          VcsKeys, VcsRequests, MaxEdits,  \* of Workspaces
          PairingOffers, DeviceSessions, CommandKeys, PairingLifetime, PairingAttempts,
          MaxInstants, MaxCommandCopies,  \* of Devices
          UploadFiles, MadeFiles, UploadRequests, FinalRequests,  \* of Attachments
          SecretIds, SecretLabels, SecretRequests,  \* of Secrets
          RecordKeys, RecordRequests, FirstBotId, PackSkillId,  \* of OwnerRecords
          PluginIds, PluginCallers, AuthFlows, ConnectorSessions, WebhookIds, FlowLimit,
          PluginCalls,  \* of Plugins
          BrowserKeys, BrowserTargets, BrowserDevices, BotCaller, BrowserCallers, BrowserSlots,
          BrowserCalls,  \* of Browser
          TimelineBots, WorkingBots, MaxDeltas, MaxViewShifts,  \* of DesktopTimeline
          OpenGroups, GroupItems, MaxGroupWrites, MaxGroupShifts,  \* of DesktopGroups
          AskedKinds, MaxAsked, MaxDrops,  \* of DesktopCommands
          AndroidSockets, EventBuffer, MaxAndroidEvents, MaxAndroidOrders  \* of AndroidClient

ASSUME OwnerAssumption ==
  /\ MaxUnread \in Nat /\ MaxEdits \in Nat /\ None \notin Nat
  /\ PairingLifetime \in Nat /\ PairingAttempts \in Nat
  /\ MaxInstants \in Nat /\ MaxCommandCopies \in Nat \ {0}
  /\ None \notin CommandKeys /\ None \notin PairingOffers
  /\ None \notin SecretIds /\ None \notin SecretLabels
  /\ FirstBotId \notin RecordKeys /\ PackSkillId \notin RecordKeys
  /\ FlowLimit \in Nat /\ PluginCalls \in Nat /\ None \notin PluginIds
  /\ BrowserSlots \in Nat /\ BrowserCalls \in Nat
  /\ None \notin BrowserDevices /\ BrowserKeys # {}
  /\ EventBuffer \in Nat \ {0} /\ MaxAndroidEvents \in Nat /\ MaxAndroidOrders \in Nat
  /\ None \notin AndroidSockets
  /\ None \notin TimelineBots /\ WorkingBots \subseteq TimelineBots /\ None \notin OpenGroups

VARIABLES component,  \* the component of this behaviour
          v1, v2, v3, v4, v5, v6, v7, v8, v9, v10, v11, v12, v13, v14, v15, v16, v17  \* its variables

all == <<component, v1, v2, v3, v4, v5, v6, v7, v8, v9, v10, v11, v12, v13, v14, v15,
        v16, v17>>

P == INSTANCE Plugins WITH
  Plugins <- PluginIds, NoPlugin <- None, Callers <- PluginCallers, Flows <- AuthFlows,
  NoFlow <- None, Sessions <- ConnectorSessions, NoSession <- None, Deliveries <- WebhookIds,
  NoDelivery <- None, MostFlows <- FlowLimit, MaxCalls <- PluginCalls,
  row <- v1, vault <- v2, flows <- v3, sessions <- v4, outbox <- v5, takeover <- v6,
  call <- v7, issued <- v8, exchanged <- v9, arrived <- v10, mislaid <- v11

B == INSTANCE Browser WITH
  Sessions <- BrowserKeys, Targets <- BrowserTargets, NoTarget <- None,
  Devices <- BrowserDevices, Bot <- BotCaller, NoDevice <- None, Callers <- BrowserCallers,
  Slots <- BrowserSlots, MaxCalls <- BrowserCalls,
  row <- v1, targets <- v2, claimed <- v3, call <- v4, opened <- v5, crossed <- v6,
  arrived <- v7

W == INSTANCE Workspaces WITH
  Keys <- VcsKeys, Requests <- VcsRequests, NoKey <- None,
  tree <- v1, head <- v2, edits <- v3, row <- v4, claims <- v5, results <- v6,
  req <- v7, anchors <- v8, checkpoints <- v9, turn <- v10, conversation <- v11,
  ran <- v12, crashed <- v13

O == INSTANCE OwnerRecords WITH
  Keys <- RecordKeys, Requests <- RecordRequests, NoKey <- None,
  FirstBot <- FirstBotId, PackSkill <- PackSkillId,
  bots <- v1, flags <- v2, skills <- v3, versions <- v4, assigned <- v5, pack <- v6,
  recording <- v7, claims <- v8, req <- v9, done <- v10, told <- v11, crashed <- v12

D == INSTANCE Devices WITH
  Offers <- PairingOffers, Sessions <- DeviceSessions, NoOffer <- None,
  Keys <- CommandKeys, NoKey <- None, Lifetime <- PairingLifetime,
  Attempts <- PairingAttempts, MaxTime <- MaxInstants, MaxCopies <- MaxCommandCopies,
  now <- v1, offer <- v2, tries <- v3, session <- v4, call <- v5, socket <- v6,
  handling <- v7, claims <- v8, operation <- v9, cancel <- v10, accepted <- v11,
  ended <- v12, crashed <- v13

F == INSTANCE Attachments WITH
  Files <- UploadFiles, Artifacts <- MadeFiles, Uploads <- UploadRequests,
  Finals <- FinalRequests, NoFile <- None,
  row <- v1, expired <- v2, partial <- v3, object <- v4, upload <- v5, final <- v6,
  generated <- v7, making <- v8, artifacts <- v9, crashed <- v10

S == INSTANCE Secrets WITH
  Ids <- SecretIds, Labels <- SecretLabels, NoLabel <- None,
  Requests <- SecretRequests, NoId <- None,
  rows <- v1, vault <- v2, step <- v3, id <- v4, label <- v5, relabel <- v6,
  disturbed <- v7

T == INSTANCE DesktopTimeline WITH
  Bots <- TimelineBots, Working <- WorkingBots, NoBot <- None, MaxShifts <- MaxViewShifts,
  row <- v1, turn <- v2, log <- v3, cursor <- v4, commands <- v5, reading <- v6,
  inbox <- v7, selected <- v8, view <- v9, failed <- v10, shifts <- v11

G == INSTANCE DesktopGroups WITH
  Groups <- OpenGroups, NoGroup <- None, Items <- GroupItems, MaxWrites <- MaxGroupWrites,
  MaxShifts <- MaxGroupShifts,
  row <- v1, unpublished <- v2, log <- v3, cursor <- v4, commands <- v5, reading <- v6,
  inbox <- v7, selected <- v8, view <- v9, failed <- v10, shifts <- v11

U == INSTANCE Unread WITH
  Handlers <- RosterHandlers, Keys <- RosterKeys, NoKey <- None, NoChat <- None,
  rows <- v1, shown <- v2, handler <- v3, seen <- v4, claims <- v5, late <- v6,
  behind <- v7

C == INSTANCE DesktopCommands WITH
  Kinds <- AskedKinds, MaxCommands <- MaxAsked,
  kind <- v1, channel <- v2, pending <- v3, link <- v4, current <- v5, at <- v6,
  outcome <- v7, secrets <- v8, plugins <- v9, connected <- v10, lost <- v11,
  drops <- v12

N == INSTANCE AndroidClient WITH
  Sockets <- AndroidSockets, NoSocket <- None, NoCursor <- None, Buffer <- EventBuffer,
  MaxEvents <- MaxAndroidEvents, MaxOrders <- MaxAndroidOrders,
  latest <- v1, floor <- v2, revoked <- v3, paired <- v4, clearing <- v5, runner <- v6,
  awaited <- v7, unwinding <- v8, nudged <- v9, socket <- v10, conn <- v11,
  processor <- v12, cursor <- v13, projection <- v14, state <- v15, abandoned <- v16,
  orders <- v17

ASSUME CommandAssumption == AskedKinds \subseteq C!CommandNames \cup {"shutdown"}

------------------------------------------------------------------------------
(* A slot that a component does not use stays 0. *)
OwnerInit ==
  /\ component \in Components
  /\ \/ component = "plugins" /\ P!Init /\ v12 = 0 /\ v13 = 0 /\ v14 = 0 /\ v15 = 0 /\ v16 = 0 /\ v17 = 0
     \/ component = "browser" /\ B!Init /\ v8 = 0 /\ v9 = 0 /\ v10 = 0 /\ v11 = 0 /\ v12 = 0 /\ v13 = 0 /\ v14 = 0 /\ v15 = 0 /\ v16 = 0 /\ v17 = 0
     \/ component = "workspaces" /\ W!Init /\ v14 = 0 /\ v15 = 0 /\ v16 = 0 /\ v17 = 0
     \/ component = "records" /\ O!Init /\ v13 = 0 /\ v14 = 0 /\ v15 = 0 /\ v16 = 0 /\ v17 = 0
     \/ component = "devices" /\ D!Init /\ v14 = 0 /\ v15 = 0 /\ v16 = 0 /\ v17 = 0
     \/ component = "attachments" /\ F!Init /\ v11 = 0 /\ v12 = 0 /\ v13 = 0 /\ v14 = 0 /\ v15 = 0 /\ v16 = 0 /\ v17 = 0
     \/ component = "secrets" /\ S!Init /\ v8 = 0 /\ v9 = 0 /\ v10 = 0 /\ v11 = 0 /\ v12 = 0 /\ v13 = 0 /\ v14 = 0 /\ v15 = 0 /\ v16 = 0 /\ v17 = 0
     \/ component = "timeline" /\ T!Init /\ v12 = 0 /\ v13 = 0 /\ v14 = 0 /\ v15 = 0 /\ v16 = 0 /\ v17 = 0
     \/ component = "group_view" /\ G!Init /\ v12 = 0 /\ v13 = 0 /\ v14 = 0 /\ v15 = 0 /\ v16 = 0 /\ v17 = 0
     \/ component = "unread" /\ U!Init /\ v8 = 0 /\ v9 = 0 /\ v10 = 0 /\ v11 = 0 /\ v12 = 0 /\ v13 = 0 /\ v14 = 0 /\ v15 = 0 /\ v16 = 0 /\ v17 = 0
     \/ component = "commands" /\ C!Init /\ v13 = 0 /\ v14 = 0 /\ v15 = 0 /\ v16 = 0 /\ v17 = 0
     \/ component = "android" /\ N!Init

OwnerNext ==
  \/ /\ component = "plugins" /\ P!Next
     /\ UNCHANGED <<component, v12, v13, v14, v15, v16, v17>>
  \/ /\ component = "browser" /\ B!Next
     /\ UNCHANGED <<component, v8, v9, v10, v11, v12, v13, v14, v15, v16, v17>>
  \/ /\ component = "workspaces" /\ W!Next
     /\ UNCHANGED <<component, v14, v15, v16, v17>>
  \/ /\ component = "records" /\ O!Next
     /\ UNCHANGED <<component, v13, v14, v15, v16, v17>>
  \/ /\ component = "devices" /\ D!Next
     /\ UNCHANGED <<component, v14, v15, v16, v17>>
  \/ /\ component = "attachments" /\ F!Next
     /\ UNCHANGED <<component, v11, v12, v13, v14, v15, v16, v17>>
  \/ /\ component = "secrets" /\ S!Next
     /\ UNCHANGED <<component, v8, v9, v10, v11, v12, v13, v14, v15, v16, v17>>
  \/ /\ component = "timeline" /\ T!Next
     /\ UNCHANGED <<component, v12, v13, v14, v15, v16, v17>>
  \/ /\ component = "group_view" /\ G!Next
     /\ UNCHANGED <<component, v12, v13, v14, v15, v16, v17>>
  \/ /\ component = "unread" /\ U!Next
     /\ UNCHANGED <<component, v8, v9, v10, v11, v12, v13, v14, v15, v16, v17>>
  \/ /\ component = "commands" /\ C!Next
     /\ UNCHANGED <<component, v13, v14, v15, v16, v17>>
  \/ /\ component = "android" /\ N!Next
     /\ UNCHANGED <<component>>

OwnerSpec == OwnerInit /\ [][OwnerNext]_all

------------------------------------------------------------------------------
(* Every variable of every component has its type. *)
OwnerTypeOK ==
  CASE component = "plugins" -> P!TypeOK
    [] component = "browser" -> B!TypeOK
    [] component = "workspaces" -> W!TypeOK
    [] component = "records" -> O!TypeOK
    [] component = "devices" -> D!TypeOK
    [] component = "attachments" -> F!TypeOK
    [] component = "secrets" -> S!TypeOK
    [] component = "timeline" -> T!TypeOK
    [] component = "group_view" -> G!TypeOK
    [] component = "unread" -> U!TypeOK
    [] component = "commands" -> C!TypeOK
    [] component = "android" -> N!TypeOK

(* No failed, repeated or racing creation deletes the session that a connector's row     *)
(* refers to, except one that failed after its insert and then to look the row up.       *)
ConnectorHasSession == component = "plugins" => P!ConnectorHasSession

(* A device whose lease runs keeps its browser until it returns it itself or the browser *)
(* is lost, unless a call has written back a controller it read before the takeover.     *)
LeaseRespected == [][component = "browser" => B!LeaseKept]_all

(* However often a client repeats a key, at once or after a failure or a restart, its    *)
(* mutation runs at most once.                                                           *)
EachKeyOnce == component = "workspaces" => W!EachKeyOnce

(* What a client was told is done has been done, by that request or an earlier one.      *)
AnsweredMeansDone == component = "records" => O!AnsweredMeansDone

(* A command that several sockets send again ends at most once, and was accepted before. *)
CommandEndsOnce == component = "devices" => D!CommandEndsOnce

(* What a row says is kept is kept: a ready attachment and a stored artifact have their  *)
(* content, whichever uploads cross and wherever the server dies; the vault holds the    *)
(* values of exactly the secrets that have rows, once every request is through and       *)
(* unless two of them worked on one secret or the server died.                           *)
KeptAsRowsSay ==
  /\ component = "attachments" => F!ReadyHasContent
  /\ component = "secrets" => S!ValuesMatchRows

(* When nothing is under way and no load has failed, the desktop shows the rows of the   *)
(* open chat as the server has them, and those of the open group if its view has met no  *)
(* gap and no overtaken read.                                                            *)
SettledViewAgrees ==
  /\ component = "timeline" => T!SettledViewAgrees
  /\ component = "group_view" => G!SettledGroupAgrees

(* Once every handler is through, the last event told each count and the reaction as it  *)
(* is, however the handlers crossed and repeated each other: unless that event's read    *)
(* was overtaken by another handler's write, or a handler was cut off before it told.    *)
LastEventTells == component = "unread" => U!LastEventTells

(* A plugin setup that failed keeps no secret, unless the answer that would have told of *)
(* the plugin was lost.                                                                  *)
FailedSetupKeepsNoSecret == component = "commands" => C!FailedSetupKeepsNoSecret

(* As long as no processor was left behind, the projection holds every event up to the   *)
(* cursor and no other.                                                                  *)
ProjectionAtCursor == component = "android" => N!ProjectionAtCursor
==============================================================================
