---------------------- MODULE GroupsAndApprovalsProofs ----------------------
(***************************************************************************)
(* Theorems about GroupChats for every number of Bots, requests and turns: *)
(* a group conversation starts no more coordination turns than it has      *)
(* budget for.  And about Approvals, for every number of turns, requests,  *)
(* tickets and requests of the owner: whoever is woken finds the row as    *)
(* the engine was told.  At the end, the types of all components of the    *)
(* composition, from the invariants that the two other modules prove.      *)
(***************************************************************************)
EXTENDS BotRuntimeProofs, ProviderProofs

-----------------------------------------------------------------------------
(* Group chats *)

(* Each step, phase and status that an action writes is one of its kind. *)
LEMMA GroupNames ==
  /\ Requests \subseteq CallSteps
  /\ {"idle", "append", "commit", "start", "starting", "cancel", "counted", "removing"} \subseteq CallSteps
  /\ {"unused", "count", "show", "record", "unshow", "create", "launch",
      "active", "handing", "handed", "waiting", "finishing", "finished",
      "counted", "done", "failed", "lost"} \subseteq TurnPhases
  /\ {"idle", "running", "waiting", "completed", "failed", "stopped"} \subseteq Statuses
BY DEF CallSteps, TurnPhases, Requests, Statuses

(* A handler at rest is a handler's row. *)
LEMMA IdleTyped == Idle \in CallRow
BY GroupNames DEF Idle, CallRow


(* A request that takes its next step keeps the requests' type. *)
LEMMA MoveTyped == ASSUME TypeOK, NEW t \in Turns, NEW s \in TurnPhases, Move(t, s) PROVE turn' \in [Turns -> TurnRow]
<1>1. turn \in [Turns -> TurnRow]
  BY DEF TypeOK
<1>2. [turn[t] EXCEPT !.at = s] \in TurnRow
  BY <1>1 DEF TurnRow
<1>3. QED
  BY <1>1, <1>2 DEF Move
(* A turn before its start is a turn's row. *)
LEMMA UnusedTyped == Unused \in TurnRow
BY GroupNames DEF Unused, TurnRow
(* A Bot outside the group and one that joins are participants' rows. *)
LEMMA OutsideTyped == Outside \in PartRow /\ Joined \in PartRow
BY GroupNames DEF Outside, Joined, PartRow, Statuses
(* Showing a participant's status keeps the participants' type. *)
LEMMA StatusTyped == ASSUME TypeOK, NEW b \in Bots, NEW s \in Statuses, NEW o \in Turns \cup {NoTurn},
   SetGroupBotStatus(b, s, o) PROVE part' \in [Bots -> PartRow]
<1>1. part \in [Bots -> PartRow] /\ s \in Statuses
  BY DEF TypeOK
<1>2. [[part[b] EXCEPT !.status = s] EXCEPT !.op = o] \in PartRow
  BY <1>1 DEF PartRow
<1>3. part' = [part EXCEPT ![b] = [[part[b] EXCEPT !.status = s] EXCEPT !.op = o]]
  BY <1>1 DEF SetGroupBotStatus
<1>4. QED
  BY <1>1, <1>2, <1>3

(* record_group_coordination_turn counts one turn of the budget at most, and none *)
(* once it is spent.                                                              *)
LEMMA RecordTyped == ASSUME TypeOK, RecordGroupCoordinationTurn
  PROVE /\ chat' \in ChatRow
        /\ chat'.used = IF BudgetLeft THEN chat.used + 1 ELSE chat.used
<1>1. chat.used \in 0..MaxTurns /\ chat.owner \in Bots /\ chat.stop \in BOOLEAN /\ MaxTurns \in Nat
  BY GroupAssumption DEF TypeOK, ChatRow
<1>2. chat' = [owner |-> chat.owner, used |-> IF BudgetLeft THEN chat.used + 1 ELSE chat.used, stop |-> chat.stop]
  BY DEF RecordGroupCoordinationTurn, TypeOK, ChatRow
<1>3. (IF BudgetLeft THEN chat.used + 1 ELSE chat.used) \in 0..MaxTurns
  BY <1>1 DEF BudgetLeft
<1>4. QED
  BY <1>1, <1>2, <1>3 DEF ChatRow

(* A handoff of the ownership counts no turn. *)
LEMMA HandoffTyped == ASSUME TypeOK, NEW b \in Bots, HandoffGroupOwnership(b)
  PROVE /\ chat' \in ChatRow /\ chat'.used = chat.used
        /\ part' \in [Bots -> PartRow]
<1>1. chat' \in ChatRow /\ chat'.used = chat.used
  BY DEF HandoffGroupOwnership, TypeOK, ChatRow
<1>2. ASSUME NEW c \in Bots, NEW r \in {"none", "member", "owner"} PROVE [part[c] EXCEPT !.role = r] \in PartRow /\ part[c] \in PartRow
  BY DEF PartRow, TypeOK
<1>3. part' \in [Bots -> PartRow]
  BY <1>2 DEF HandoffGroupOwnership
<1>4. QED
  BY <1>1, <1>3
(* A handler that takes its next step keeps its type. *)
LEMMA GotoTyped == ASSUME TypeOK, NEW h \in Handlers, NEW s \in CallSteps, Goto(h,s) PROVE call' \in [Handlers -> CallRow]
<1>1. [call[h] EXCEPT !.at = s] \in CallRow
  BY DEF TypeOK, CallRow
<1>2. QED
  BY <1>1 DEF Goto, TypeOK
(* A handler that answers keeps its type. *)
LEMMA AnswerTyped == ASSUME TypeOK, NEW h \in Handlers, Answer(h) PROVE call' \in [Handlers -> CallRow]
BY IdleTyped DEF Answer, TypeOK

(* A subset of a finite set is finite and no larger. *)
LEMMA SubSet ==
  ASSUME NEW few, NEW many, few \subseteq many, IsFiniteSet(many)
  PROVE  /\ IsFiniteSet(few) /\ Cardinality(few) <= Cardinality(many)
         /\ Cardinality(few) \in Nat /\ Cardinality(many) \in Nat
BY FS_Subset, FS_CardinalityType

(* Fewer turns to pay for, and a budget that was not given back, leave the turns *)
(* paid.                                                                         *)
LEMMA Shrinks ==
  ASSUME TypeOK, EachPaid, Paid' \subseteq Paid, chat'.used \in Nat, chat'.used >= chat.used
  PROVE EachPaid'
<1>1. IsFiniteSet(Paid') /\ Cardinality(Paid') <= Cardinality(Paid) /\ Cardinality(Paid') \in Nat /\ Cardinality(Paid) \in Nat
  BY SubSet DEF EachPaid
<1>2. chat.used \in Nat
  BY GroupAssumption DEF TypeOK, ChatRow
<1>3. QED
  BY <1>1, <1>2 DEF EachPaid


(* Every step of a request keeps the types. *)
LEMMA HandlerTyped ==
  ASSUME TypeOK, StepsTyped, NEW h \in Handlers, HandlerStep(h) PROVE TypeOK'
<1> USE GroupNames DEF MemoryOfTurns, durable
<1> USE DEF TypeOK
<1>1. call[h] \in CallRow /\ call \in [Handlers -> CallRow]
  OBVIOUS
<1>2. CASE SendMessageChecks(h)
  <2>1. ASSUME NEW bots \in SUBSET Bots
        PROVE  [[call[h] EXCEPT !.at = "append"] EXCEPT !.bots = bots] \in CallRow
    BY <1>1 DEF CallRow
  <2> DEFINE targets == IF call[h].bots = {} THEN {chat.owner} ELSE call[h].bots
  <2>2. targets \in SUBSET Bots
    BY <1>1 DEF CallRow, ChatRow
  <2>3. call' \in [Handlers -> CallRow]
    BY <1>1, <1>2, <2>1, <2>2, AnswerTyped DEF SendMessageChecks
  <2>4. QED
    BY <2>3, <1>2 DEF SendMessageChecks
<1>3. CASE AppendGroupUserMessage(h)
  BY <1>3, AnswerTyped, GotoTyped DEF AppendGroupUserMessage
<1>4. CASE SendMessageAnswers(h)
  BY <1>4, AnswerTyped DEF SendMessageAnswers
<1>5. ASSUME NEW t \in Turns, StartNextTarget(h, t) PROVE TypeOK'
  <2>1. PICK b \in call[h].bots : /\ BeginTurn(t, b)
       /\ call' = [call EXCEPT ![h].at = "starting", ![h].job = t, ![h].bots = @ \ {b}]
    BY <1>5 DEF StartNextTarget
  <2>2. b \in Bots
    BY <1>1 DEF CallRow
  <2>3. [[Unused EXCEPT !.at = "count"] EXCEPT !.bot = b] \in TurnRow
    BY <2>2, UnusedTyped DEF TurnRow
  <2>4. turn' \in [Turns -> TurnRow]
    BY <2>3, <2>1 DEF BeginTurn
  <2>5. [[[call[h] EXCEPT !.at = "starting"] EXCEPT !.job = t] EXCEPT !.bots = call[h].bots \ {b}] \in CallRow
    BY <1>1 DEF CallRow
  <2>6. call' \in [Handlers -> CallRow]
    BY <2>5, <2>1, <1>1
  <2>7. QED
    BY <2>4, <2>6, <1>5 DEF StartNextTarget
<1>6. CASE TargetStarted(h)
  BY <1>6, AnswerTyped, GotoTyped DEF TargetStarted
<1>7. CASE HandoffReads(h)
  <2>1. [[call[h] EXCEPT !.at = "commit"] EXCEPT !.begin = MayStart(call[h].to)] \in CallRow
    BY <1>1 DEF CallRow, MayStart
  <2>2. call' \in [Handlers -> CallRow]
    BY <2>1, <1>1, <1>7, AnswerTyped DEF HandoffReads
  <2>3. QED
    BY <2>2, <1>7 DEF HandoffReads

<1>8. CASE HandoffCommits(h)
  <2>1. call[h].to \in Bots
    BY <1>8 DEF HandoffCommits, StepsTyped
  <2>2. chat' \in ChatRow /\ part' \in [Bots -> PartRow]
    BY <2>1, <1>8, HandoffTyped DEF HandoffCommits
  <2>3. [[call[h] EXCEPT !.at = "start"] EXCEPT !.bots = {call[h].to}] \in CallRow
    BY <2>1, <1>1 DEF CallRow
  <2>4. call' \in [Handlers -> CallRow]
    BY <2>3, <1>1, <1>8, AnswerTyped DEF HandoffCommits
  <2>5. QED
    BY <2>2, <2>4, <1>8 DEF HandoffCommits
<1>9. ASSUME NEW status \in Statuses, UpdateParticipant(h, status) PROVE TypeOK'
  <2>1. call[h].to \in Members => call[h].to \in Bots
    BY DEF Members
  <2>2. part' \in [Bots -> PartRow]
    BY <2>1, <1>9, StatusTyped DEF UpdateParticipant
  <2>3. QED
    BY <2>2, <1>9, AnswerTyped DEF UpdateParticipant
<1>10. CASE UpdateParticipantCounts(h)
  BY <1>10, AnswerTyped, GotoTyped DEF UpdateParticipantCounts
<1>11. CASE UpdateParticipantRuns(h)
  <2>1. call[h].to \in Members => call[h].to \in Bots
    BY DEF Members
  <2>2. part' \in [Bots -> PartRow]
    BY <2>1, <1>11, StatusTyped DEF UpdateParticipantRuns
  <2>3. QED
    BY <2>2, <1>11, AnswerTyped DEF UpdateParticipantRuns
<1>12. CASE AddParticipant(h)
  BY <1>12, AnswerTyped, OutsideTyped DEF AddParticipant, AddGroupParticipant
<1>13. CASE RemoveParticipantReads(h)
  BY <1>13, AnswerTyped, GotoTyped DEF RemoveParticipantReads
<1>14. CASE RemoveParticipant(h)
  BY <1>14, AnswerTyped, OutsideTyped DEF RemoveParticipant, RemoveGroupParticipant
<1>15. CASE RecordTurn(h)
  BY <1>15, AnswerTyped, RecordTyped DEF RecordTurn
<1>16. CASE StopSnapshot(h)
  <2>1. [[call[h] EXCEPT !.at = "cancel"] EXCEPT !.todo = chat_operations] \in CallRow
    BY <1>1 DEF CallRow
  <2>2. call' \in [Handlers -> CallRow]
    BY <2>1, <1>1, <1>16 DEF StopSnapshot
  <2>3. QED
    BY <2>2, <1>16 DEF StopSnapshot
<1>17. ASSUME NEW t \in Turns, StopCancels(h, t) PROVE TypeOK'
  <2>1. [call[h] EXCEPT !.todo = call[h].todo \ {t}] \in CallRow
    BY <1>1 DEF CallRow
  <2>2. call' \in [Handlers -> CallRow]
    BY <2>1, <1>1, <1>17 DEF StopCancels
  <2>3. QED
    BY <2>2, <1>17 DEF StopCancels
<1>18. CASE StopFails(h)
  BY <1>18, AnswerTyped DEF StopFails
<1>19. CASE StopCommits(h)
  <2>1. [chat EXCEPT !.stop = TRUE] \in ChatRow
    BY DEF ChatRow
  <2>2. ASSUME NEW b \in Bots PROVE [[part[b] EXCEPT !.status = "stopped"] EXCEPT !.op = NoTurn] \in PartRow
    BY DEF PartRow
  <2>3. part' \in [Bots -> PartRow]
    BY <2>2, <1>19 DEF StopCommits, StopGroupChat
  <2>4. QED
    BY <2>1, <2>3, <1>19, AnswerTyped DEF StopCommits, StopGroupChat
<1>20. QED
  BY <1>2, <1>3, <1>4, <1>5, <1>6, <1>7, <1>8, <1>9, <1>10, <1>11, <1>12, <1>13, <1>14,
     <1>15, <1>16, <1>17, <1>18, <1>19 DEF HandlerStep

(* Every step of a turn keeps the types. *)
LEMMA TurnTyped ==
  ASSUME TypeOK, StepsTyped, NEW t \in Turns, TurnStep(t) \/ \E b \in Bots : ToolReads(t, b)
  PROVE TypeOK'
<1> USE GroupNames DEF MemoryOfTurns, durable, Elsewhere
<1> USE DEF TypeOK
<1>1. turn[t] \in TurnRow /\ turn \in [Turns -> TurnRow]
  OBVIOUS
<1>2. CASE TurnCounts(t)
  BY <1>2, MoveTyped DEF TurnCounts
<1>3. CASE TurnShows(t)
  <2>1. turn[t].bot \in Members => turn[t].bot \in Bots
    BY DEF Members
  <2>2. part' \in [Bots -> PartRow]
    BY <2>1, <1>3, StatusTyped DEF TurnShows
  <2>3. turn' \in [Turns -> TurnRow]
    BY <1>3, MoveTyped DEF TurnShows
  <2>4. QED
    BY <2>2, <2>3, <1>3 DEF TurnShows
<1>4. CASE TurnRecords(t)
  <2>1. turn' \in [Turns -> TurnRow]
    BY <1>4, MoveTyped DEF TurnRecords
  <2>2. QED
    BY <2>1, <1>4, RecordTyped DEF TurnRecords
<1>5. CASE TurnUnshows(t)
  <2>1. turn[t].bot \in Members => turn[t].bot \in Bots
    BY DEF Members
  <2>2. part' \in [Bots -> PartRow]
    BY <2>1, <1>5, StatusTyped DEF TurnUnshows
  <2>3. QED
    BY <2>2, <1>5, MoveTyped DEF TurnUnshows
<1>6. CASE TurnCreates(t)
  BY <1>6, MoveTyped DEF TurnCreates, CreateBotMessage
<1>7. CASE TurnLaunches(t)
  BY <1>7, MoveTyped DEF TurnLaunches
<1>8. CASE TurnLaunchFails(t)
  <2>1. [[turn[t] EXCEPT !.at = "finishing"] EXCEPT !.end = "failed"] \in TurnRow
    BY <1>1 DEF TurnRow
  <2>2. QED
    BY <2>1, <1>1, <1>8 DEF TurnLaunchFails
<1>9. ASSUME NEW b \in Bots, ToolReads(t, b) PROVE TypeOK'
  <2>1. [[turn[t] EXCEPT !.at = "handing"] EXCEPT !.to = b] \in TurnRow
    BY <1>1 DEF TurnRow
  <2>2. QED
    BY <2>1, <1>1, <1>9 DEF ToolReads
<1>10. CASE ToolCommits(t)
  <2>1. turn[t].to \in Bots
    BY <1>10 DEF ToolCommits, StepsTyped
  <2>2. chat' \in ChatRow /\ part' \in [Bots -> PartRow]
    BY <2>1, <1>10, HandoffTyped DEF ToolCommits
  <2>3. QED
    BY <2>2, <1>10, MoveTyped DEF ToolCommits
<1>11. ASSUME NEW u \in Turns, ToolStarts(t, u) PROVE TypeOK'
  <2>1. [[turn[t] EXCEPT !.at = "waiting"] EXCEPT !.job = u] \in TurnRow
    BY <1>1 DEF TurnRow
  <2>2. [[Unused EXCEPT !.at = "count"] EXCEPT !.bot = turn[t].to] \in TurnRow
    BY <1>1, UnusedTyped DEF TurnRow
  <2>3. t # u
    BY <1>11 DEF ToolStarts
  <2>4. turn' = [[turn EXCEPT ![t] = [[turn[t] EXCEPT !.at = "waiting"] EXCEPT !.job = u]]
                      EXCEPT ![u] = [[Unused EXCEPT !.at = "count"] EXCEPT !.bot = turn[t].to]]
    BY <1>1, <1>11, <2>3 DEF ToolStarts
  <2>5. turn' \in [Turns -> TurnRow]
    BY <2>1, <2>2, <2>4, <1>1
  <2>6. QED
    BY <2>5, <1>11 DEF ToolStarts
<1>12. CASE ToolReturns(t)
  <2>1. [[[turn[t] EXCEPT !.at = "active"] EXCEPT !.job = NoTurn] EXCEPT !.to = NoBot] \in TurnRow
    BY <1>1 DEF TurnRow
  <2>2. QED
    BY <2>1, <1>1, <1>12 DEF ToolReturns
<1>13. CASE TurnEnds(t)
  <2>1. PICK end \in {"completed", "failed", "cancelled"} :
          turn' = [turn EXCEPT ![t].at = "finishing", ![t].end = end]
    BY <1>13 DEF TurnEnds
  <2>2. [[turn[t] EXCEPT !.at = "finishing"] EXCEPT !.end = end] \in TurnRow
    BY <1>1 DEF TurnRow
  <2>3. QED
    BY <2>1, <2>2, <1>1, <1>13 DEF TurnEnds
<1>14. CASE FinishBotMessage(t)
  <2>1. turn[t].end \in {"completed", "failed", "cancelled"}
    BY <1>14 DEF FinishBotMessage, StepsTyped
  <2>2. turn' \in [Turns -> TurnRow]
    BY <1>14, MoveTyped DEF FinishBotMessage
  <2>3. QED
    BY <2>1, <2>2, <1>14 DEF FinishBotMessage
<1>15. CASE FinishReadsStop(t)
  <2>1. ASSUME NEW end \in {"none", "completed", "failed", "cancelled", "stopped"}
        PROVE [[turn[t] EXCEPT !.at = "counted"] EXCEPT !.end = end] \in TurnRow
    BY <1>1 DEF TurnRow
  <2>2. turn[t].end \in {"none", "completed", "failed", "cancelled", "stopped"}
    BY <1>1 DEF TurnRow
  <2>3. turn' \in [Turns -> TurnRow]
    BY <2>1, <2>2, <1>1, <1>15 DEF FinishReadsStop
  <2>4. QED
    BY <2>3, <1>15 DEF FinishReadsStop
<1>16. CASE FinishSetsStatus(t)
  <2>1. turn[t].end \in Statuses
    BY <1>16 DEF FinishSetsStatus, StepsTyped
  <2>2. turn[t].bot \in Members => turn[t].bot \in Bots
    BY DEF Members
  <2>3. part' \in [Bots -> PartRow]
    BY <2>1, <2>2, <1>16, StatusTyped DEF FinishSetsStatus
  <2>4. turn' \in [Turns -> TurnRow]
    BY <1>16, MoveTyped DEF FinishSetsStatus
  <2>5. QED
    BY <2>3, <2>4, <1>16 DEF FinishSetsStatus
<1>17. QED
  BY <1>2, <1>3, <1>4, <1>5, <1>6, <1>7, <1>8, <1>9, <1>10, <1>11, <1>12, <1>13, <1>14,
     <1>15, <1>16 DEF TurnStep


(* A restart keeps the types. *)
LEMMA RestartTyped == ASSUME TypeOK, Restart PROVE TypeOK'
<1>1. call' \in [Handlers -> CallRow]
  BY IdleTyped DEF Restart
<1>2. ASSUME NEW b \in Bots PROVE [[part[b] EXCEPT !.status = "failed"] EXCEPT !.op = NoTurn] \in PartRow
  BY GroupNames DEF TypeOK, PartRow
<1>3. part' \in [Bots -> PartRow]
  BY <1>2 DEF Restart, TypeOK
<1>4. ASSUME NEW t \in Turns PROVE [[Unused EXCEPT !.at = "done"] EXCEPT !.bot = turn[t].bot] \in TurnRow
  BY UnusedTyped, GroupNames DEF TurnRow, TypeOK
<1>5. turn' \in [Turns -> TurnRow]
  BY <1>4 DEF Restart, TypeOK
<1>6. message' \in [Turns -> {"none", "streaming", "completed", "failed", "cancelled"}]
  BY DEF Restart, TypeOK
<1>7. QED
  BY <1>1, <1>3, <1>5, <1>6 DEF Restart, TypeOK

(* A request that arrives claims its key, whatever it asks for. *)
LEMMA ArrivesClaims ==
  ASSUME NEW h \in Handlers, Arrives(h)
  PROVE \E k \in Keys, request \in Requests, from, to \in Bots \cup {NoBot}, bots \in SUBSET Bots :
          Claim(h, k, request, from, to, bots)
BY DEF Arrives, Requests

(* A request that arrives keeps the types. *)
LEMMA ArrivesTyped == ASSUME TypeOK, NEW h \in Handlers, Arrives(h) PROVE TypeOK'
<1>1. PICK k \in Keys, request \in Requests, from \in Bots \cup {NoBot},
           to \in Bots \cup {NoBot}, bots \in SUBSET Bots :
        Claim(h, k, request, from, to, bots)
  BY ArrivesClaims
<1>2. [[[[Idle EXCEPT !.at = request] EXCEPT !.from = from] EXCEPT !.to = to] EXCEPT !.bots = bots] \in CallRow
  BY IdleTyped, GroupNames DEF CallRow
<1>3. call' \in [Handlers -> CallRow]
  BY <1>2, <1>1 DEF Claim, TypeOK
<1>4. QED
  BY <1>3, <1>1 DEF Claim, MemoryOfTurns, TypeOK

(* The types hold at first. *)
LEMMA InitTyped == Init => TypeOK /\ StepsTyped
<1> SUFFICES ASSUME Init PROVE TypeOK /\ StepsTyped
  OBVIOUS
<1>1. PICK bots \in SUBSET Bots : CreateGroupChat(bots, CHOOSE b \in Bots : TRUE)
  BY DEF Init
<1> DEFINE owner == CHOOSE b \in Bots : TRUE
<1>2. owner \in Bots
  BY <1>1 DEF CreateGroupChat
<1>3. chat \in ChatRow
  BY <1>1, <1>2, GroupAssumption DEF CreateGroupChat, ChatRow
<1>4. [Outside EXCEPT !.role = "owner"] \in PartRow
  BY OutsideTyped DEF PartRow
<1>5. part \in [Bots -> PartRow]
  BY <1>1, <1>4, OutsideTyped DEF CreateGroupChat
<1>6. call = [h \in Handlers |-> Idle] /\ turn = [t \in Turns |-> Unused]
  BY DEF Init
<1>7. TypeOK
  BY <1>3, <1>5, <1>6, IdleTyped, UnusedTyped DEF Init, TypeOK
<1>8. StepsTyped
  BY <1>6 DEF StepsTyped, Idle, Unused
<1>9. QED
  BY <1>7, <1>8

(* What a handler or a turn carries along fits its step after every step. *)
LEMMA StepCarries == ASSUME TypeOK, StepsTyped, [Next]_vars PROVE StepsTyped'
<1> USE DEF TypeOK, StepsTyped
<1>1. ASSUME NEW h \in Handlers, Arrives(h) PROVE StepsTyped'
  <2>1. turn' = turn /\ \A i \in Handlers : call'[i].at = "commit" => call'[i] = call[i]
    <3>1. PICK k \in Keys, request \in Requests, from \in Bots \cup {NoBot},
               to \in Bots \cup {NoBot}, bots \in SUBSET Bots :
            Claim(h, k, request, from, to, bots)
      BY <1>1, ArrivesClaims
    <3>2. call' = [call EXCEPT ![h] = [Idle EXCEPT !.at = request, !.from = from, !.to = to, !.bots = bots]]
      BY <3>1 DEF Claim
    <3>3. call'[h].at # "commit"
      BY <3>2 DEF Idle, Requests
    <3>4. QED
      BY <3>1, <3>2, <3>3 DEF Claim, MemoryOfTurns
  <2>2. QED
    BY <2>1
<1>2. ASSUME NEW h \in Handlers, HandlerStep(h) PROVE StepsTyped'
  <2> USE DEF MemoryOfTurns, Goto, Answer, Idle, CallRow
  <2>1. CASE turn' = turn
    <3>1. CASE SendMessageChecks(h)
      BY <3>1, <2>1 DEF SendMessageChecks
    <3>2. CASE AppendGroupUserMessage(h)
      BY <3>2, <2>1 DEF AppendGroupUserMessage
    <3>3. CASE SendMessageAnswers(h)
      BY <3>3, <2>1 DEF SendMessageAnswers
    <3>4. CASE TargetStarted(h)
      BY <3>4, <2>1 DEF TargetStarted
    <3>5. CASE UpdateParticipantCounts(h)
      BY <3>5, <2>1 DEF UpdateParticipantCounts
    <3>6. CASE UpdateParticipantRuns(h)
      BY <3>6, <2>1 DEF UpdateParticipantRuns
    <3>7. CASE AddParticipant(h)
      BY <3>7, <2>1 DEF AddParticipant
    <3>8. CASE RemoveParticipantReads(h)
      BY <3>8, <2>1 DEF RemoveParticipantReads
    <3>9. CASE HandoffReads(h)
      BY <3>9, <2>1 DEF HandoffReads, ValidHandoff, Members
    <3>10. CASE HandoffCommits(h)
      BY <3>10, <2>1 DEF HandoffCommits
    <3>11. CASE \E status \in Statuses : UpdateParticipant(h, status)
      BY <3>11, <2>1 DEF UpdateParticipant
    <3>12. CASE RemoveParticipant(h)
      BY <3>12, <2>1 DEF RemoveParticipant
    <3>13. CASE RecordTurn(h)
      BY <3>13, <2>1 DEF RecordTurn
    <3>14. CASE StopSnapshot(h)
      BY <3>14, <2>1 DEF StopSnapshot
    <3>15. CASE StopFails(h)
      BY <3>15, <2>1 DEF StopFails
    <3>16. CASE StopCommits(h)
      BY <3>16, <2>1 DEF StopCommits
    <3>17. CASE \E t \in Turns : StopCancels(h, t)
      BY <3>17, <2>1 DEF StopCancels
    <3>18. CASE \E t \in Turns : StartNextTarget(h, t)
      BY <3>18, <2>1 DEF StartNextTarget
    <3>19. QED
      BY <1>2, <3>1, <3>2, <3>3, <3>4, <3>5, <3>6, <3>7, <3>8, <3>9, <3>10, <3>11, <3>12,
         <3>13, <3>14, <3>15, <3>16, <3>17, <3>18 DEF HandlerStep
  <2>2. ASSUME NEW t \in Turns, StartNextTarget(h, t) PROVE StepsTyped'
    BY <2>2 DEF StartNextTarget, BeginTurn, Unused, TurnRow
  <2>3. QED
    BY <2>1, <2>2, <1>2 DEF HandlerStep, SendMessageChecks, AppendGroupUserMessage,
       SendMessageAnswers, TargetStarted, HandoffReads, HandoffCommits, UpdateParticipant,
       UpdateParticipantCounts, UpdateParticipantRuns, AddParticipant, RemoveParticipantReads,
       RemoveParticipant, RecordTurn, StopSnapshot, StopCancels, StopFails, StopCommits
<1>3. ASSUME NEW t \in Turns, TurnStep(t) \/ \E b \in Bots : ToolReads(t, b) PROVE StepsTyped'
  <2> USE DEF Elsewhere, Move, TurnRow
  <2>1. call' = call
    BY <1>3 DEF TurnStep, TurnCounts, TurnShows, TurnRecords, TurnUnshows, TurnCreates, TurnLaunches,
       TurnLaunchFails, ToolReads, ToolCommits, ToolStarts, ToolReturns, TurnEnds, FinishBotMessage,
       FinishReadsStop, FinishSetsStatus
  <2>2. CASE TurnCounts(t) \/ TurnShows(t) \/ TurnRecords(t) \/ TurnUnshows(t) \/ TurnCreates(t) \/ TurnLaunches(t)
    BY <2>1, <2>2 DEF TurnCounts, TurnShows, TurnRecords, TurnUnshows, TurnCreates, TurnLaunches
  <2>3. CASE TurnLaunchFails(t) \/ TurnEnds(t) \/ FinishBotMessage(t) \/ FinishReadsStop(t) \/ FinishSetsStatus(t)
    BY <2>1, <2>3 DEF TurnLaunchFails, TurnEnds, FinishBotMessage, FinishReadsStop, FinishSetsStatus
  <2>4. CASE ToolCommits(t) \/ ToolReturns(t)
    BY <2>1, <2>4 DEF ToolCommits, ToolReturns
  <2>5. ASSUME NEW b \in Bots, ToolReads(t, b) PROVE StepsTyped'
    BY <2>1, <2>5 DEF ToolReads, ValidHandoff, Members
  <2>6. ASSUME NEW u \in Turns, ToolStarts(t, u) PROVE StepsTyped'
    BY <2>1, <2>6 DEF ToolStarts, Unused
  <2>7. QED
    BY <1>3, <2>2, <2>3, <2>4, <2>5, <2>6 DEF TurnStep
<1>4. CASE Restart
  BY <1>4 DEF Restart, Idle, Unused, TurnRow
<1>5. CASE UNCHANGED vars
  BY <1>5 DEF vars
<1>6. QED
  BY <1>1, <1>2, <1>3, <1>4, <1>5 DEF Next


(* Every step keeps the types. *)
LEMMA StepTyped == ASSUME TypeOK, StepsTyped, [Next]_vars PROVE TypeOK'
<1>1. CASE UNCHANGED vars
  BY <1>1 DEF vars, durable, TypeOK
<1>2. QED
  BY <1>1, ArrivesTyped, HandlerTyped, TurnTyped, RestartTyped DEF Next

(* Only TurnRecords lets a turn by, and it pays for it. *)
LEMMA StepPays == ASSUME TypeOK, StepsTyped, EachPaid, [Next]_vars PROVE EachPaid'
<1> USE DEF TypeOK
<1>1. TypeOK'
  BY StepTyped
<1>2. chat.used \in Nat /\ chat'.used \in Nat
  BY <1>1, GroupAssumption DEF ChatRow
<1> SUFFICES ASSUME ~(Paid' \subseteq Paid /\ chat'.used >= chat.used) PROVE EachPaid'
  BY <1>2, Shrinks
<1>3. ASSUME NEW h \in Handlers, Arrives(h) \/ HandlerStep(h) PROVE FALSE
  <2>1. message' = message
    BY <1>3 DEF Arrives, Claim, durable, HandlerStep, SendMessageChecks, AppendGroupUserMessage,
       SendMessageAnswers, StartNextTarget, TargetStarted, HandoffReads, HandoffCommits, UpdateParticipant,
       UpdateParticipantCounts, UpdateParticipantRuns, AddParticipant, RemoveParticipantReads,
       RemoveParticipant, RecordTurn, StopSnapshot, StopCancels, StopFails, StopCommits
  <2>2. \A t \in Turns : turn'[t].at \in PastBudget => turn[t].at \in PastBudget
    <3>1. CASE \E t \in Turns : StartNextTarget(h, t)
      BY <3>1 DEF StartNextTarget, BeginTurn, Unused, PastBudget
    <3>2. CASE ~ \E t \in Turns : StartNextTarget(h, t)
      BY <1>3, <3>2 DEF Arrives, Claim, HandlerStep, SendMessageChecks, AppendGroupUserMessage,
       SendMessageAnswers, TargetStarted, HandoffReads, HandoffCommits, UpdateParticipant,
       UpdateParticipantCounts, UpdateParticipantRuns, AddParticipant, RemoveParticipantReads,
       RemoveParticipant, RecordTurn, StopSnapshot, StopCancels, StopFails, StopCommits, MemoryOfTurns
    <3>3. QED
      BY <3>1, <3>2
  <2>3. chat'.used >= chat.used
    <3>1. CASE RecordTurn(h)
      BY <3>1, <1>2, RecordTyped DEF RecordTurn
    <3>2. CASE HandoffCommits(h) \/ StopCommits(h)
      <4>1. chat'.used = chat.used
        BY <3>2 DEF HandoffCommits, StopCommits, HandoffGroupOwnership, StopGroupChat, ChatRow
      <4>2. QED
        BY <4>1, <1>2
    <3>3. CASE ~(RecordTurn(h) \/ HandoffCommits(h) \/ StopCommits(h))
      <4>1. chat' = chat
        BY <1>3, <3>3 DEF Arrives, Claim, durable, HandlerStep, SendMessageChecks, AppendGroupUserMessage,
         SendMessageAnswers, StartNextTarget, TargetStarted, HandoffReads, UpdateParticipant,
         UpdateParticipantCounts, UpdateParticipantRuns, AddParticipant, RemoveParticipantReads,
         RemoveParticipant, StopSnapshot, StopCancels, StopFails
      <4>2. QED
        BY <4>1, <1>2
    <3>4. QED
      BY <3>1, <3>2, <3>3
  <2>4. QED
    BY <2>1, <2>2, <2>3 DEF Paid
<1>4. ASSUME NEW t \in Turns, TurnStep(t) \/ \E b \in Bots : ToolReads(t, b) PROVE EachPaid'
  <2> USE DEF Move, Elsewhere, TurnRow
  <2>1. CASE TurnRecords(t)
    <3>1. message' = message /\ \A u \in Turns \ {t} : turn'[u] = turn[u]
      BY <2>1 DEF TurnRecords
    <3>2. CASE ~BudgetLeft
      BY <3>1, <3>2, <2>1, <1>2, RecordTyped DEF TurnRecords, Paid, PastBudget
    <3>3. CASE BudgetLeft
      <4>1. chat'.used = chat.used + 1
        BY <2>1, <3>3, RecordTyped DEF TurnRecords
      <4>2. Paid' \subseteq Paid \cup {t}
        BY <3>1 DEF Paid
      <4>3. /\ IsFiniteSet(Paid \cup {t}) /\ Cardinality(Paid) \in Nat
            /\ Cardinality(Paid \cup {t}) \in {Cardinality(Paid), Cardinality(Paid) + 1}
        BY FS_AddElement, FS_CardinalityType DEF EachPaid
      <4>4. IsFiniteSet(Paid') /\ Cardinality(Paid') <= Cardinality(Paid \cup {t}) /\ Cardinality(Paid') \in Nat
        BY <4>2, <4>3, SubSet
      <4>5. QED
        BY <4>1, <4>3, <4>4, <1>2 DEF EachPaid
    <3>4. QED
      BY <3>2, <3>3
  <2>2. CASE ToolCommits(t)
    <3>1. chat'.used = chat.used
      BY <2>2 DEF ToolCommits, HandoffGroupOwnership, ChatRow
    <3>2. Paid' \subseteq Paid
      BY <2>2 DEF ToolCommits, Paid, PastBudget
    <3>3. QED
      BY <3>1, <3>2, <1>2
  <2>3. CASE ~TurnRecords(t) /\ ~ToolCommits(t)
    <3>1. chat' = chat
      BY <1>4, <2>3 DEF TurnStep, TurnCounts, TurnShows, TurnUnshows, TurnCreates, TurnLaunches,
       TurnLaunchFails, ToolReads, ToolStarts, ToolReturns, TurnEnds, FinishBotMessage,
       FinishReadsStop, FinishSetsStatus
    <3>2. CASE TurnCounts(t) \/ TurnShows(t) \/ TurnUnshows(t) \/ TurnCreates(t) \/ TurnLaunches(t) \/ TurnLaunchFails(t)
      BY <3>1, <3>2, <1>2 DEF TurnCounts, TurnShows, TurnUnshows, TurnCreates, CreateBotMessage, TurnLaunches, TurnLaunchFails, Paid, PastBudget
    <3>3. CASE ToolReturns(t) \/ TurnEnds(t) \/ FinishReadsStop(t) \/ FinishSetsStatus(t) \/ \E b \in Bots : ToolReads(t, b)
      BY <3>1, <3>3, <1>2 DEF ToolReturns, TurnEnds, FinishReadsStop, FinishSetsStatus, ToolReads, Paid, PastBudget
    <3>4. CASE \E u \in Turns : ToolStarts(t, u)
      BY <3>1, <3>4, <1>2 DEF ToolStarts, Unused, Paid, PastBudget
    <3>5. CASE FinishBotMessage(t)
      BY <3>1, <3>5, <1>2 DEF FinishBotMessage, Paid, PastBudget
    <3>6. QED
      BY <1>4, <2>3, <3>2, <3>3, <3>4, <3>5 DEF TurnStep
  <2>4. QED
    BY <2>1, <2>2, <2>3
<1>5. CASE Restart
  <2>1. Paid' \subseteq Paid /\ chat' = chat
    BY <1>5 DEF Restart, Paid, PastBudget, Unused, TurnRow
  <2>2. QED
    BY <2>1, <1>2
<1>6. CASE UNCHANGED vars
  BY <1>6, <1>2 DEF vars, durable, Paid, PastBudget
<1>7. QED
  BY <1>3, <1>4, <1>5, <1>6 DEF Next

(* At first there is nothing to pay for. *)
LEMMA InitPaid == Init => EachPaid
<1> SUFFICES ASSUME Init PROVE EachPaid
  OBVIOUS
<1>1. Paid = {}
  BY DEF Init, Paid, PastBudget, Unused
<1>2. chat.used = 0
  BY DEF Init, CreateGroupChat
<1>3. QED
  BY <1>1, <1>2, FS_EmptySet DEF EachPaid

(* The inductive invariant of the group chat holds at first. *)
LEMMA InitGroup == Init => GroupInv
BY InitTyped, InitPaid DEF GroupInv

(* Every step keeps the inductive invariant of the group chat. *)
LEMMA StepGroup == GroupInv /\ [Next]_vars => GroupInv'
BY StepTyped, StepCarries, StepPays DEF GroupInv

(* The inductive invariant gives TurnsPaid: finitely many turns, each paid for. *)
LEMMA PaidTurns == GroupInv => TurnsPaid
<1> SUFFICES ASSUME GroupInv PROVE TurnsPaid
  OBVIOUS
<1>1. chat.used \in Nat
  BY GroupAssumption DEF GroupInv, TypeOK, ChatRow
<1>2. {t \in Turns : message[t] # "none"} \subseteq Paid
  BY DEF Paid
<1>3. QED
  BY <1>1, <1>2, SubSet DEF GroupInv, EachPaid, TurnsPaid

(* A group conversation never starts more coordination turns than its budget, for *)
(* every number of Bots, requests and turns, whatever handlers cross and wherever *)
(* the server dies (record_group_coordination_turn).                              *)
THEOREM GroupTurnsPaid == Spec => []TurnsPaid
BY InitGroup, StepGroup, PaidTurns, PTL DEF Spec

-----------------------------------------------------------------------------
(* Approvals. Slots: v1 stored, v2 engine, v3 approvals, v4 row, v5 waiter, v6 call, *)
(* v7 client, v8 used, v9 allowed, v10 asked.                                        *)

(* Whatever may ask for the capability. *)
AskingCalls == AskingTurns \cup AskingRequests

(* The empty records and rows have their types. *)
LEMMA ApprovalNames ==
  /\ A!Calls = AskingCalls
  /\ A!NoRecord \in A!Records /\ A!NoRecord.decision = "none" /\ A!NoRecord.fresh = FALSE
  /\ A!NoRow \in A!ApprovalRow /\ A!NoRow.status = "none"
  /\ A!NoCall \in A!CallRow /\ A!NoCall.at = "idle" /\ A!NoCall.ticket = None
  /\ A!Quiet \in A!ClientRow /\ A!Quiet.at = "idle"
  /\ A!Effects = {"deny", "require_approval", "allow"}
  /\ 0 \in 0..PolicyRevisions /\ 0 \in 0..OwnerActions
<1>1. 0 \in 0..PolicyRevisions /\ 0 \in 0..OwnerActions
  BY RuntimeAssumption
<1>2. A!NoRecord \in A!Records /\ A!NoRecord.decision = "none" /\ A!NoRecord.fresh = FALSE
  BY <1>1 DEF A!NoRecord, A!Records
<1>3. QED
  BY <1>1, <1>2 DEF A!Calls, AskingCalls, A!NoRow, A!ApprovalRow, A!NoCall, A!CallRow, A!Quiet, A!ClientRow, A!Effects

(* The rows a call or a client may move to. *)
LEMMA CallMoves ==
  ASSUME A!TypeOK, NEW c \in AskingCalls, NEW q \in A!CallRow, v6' = [v6 EXCEPT ![c] = q]
  PROVE  /\ v6' \in [AskingCalls -> A!CallRow] /\ v6'[c] = q
         /\ \A d \in AskingCalls \ {c} : v6'[d] = v6[d]
BY ApprovalNames DEF A!TypeOK

(* What Goto does to the operations. *)
LEMMA CallGoes ==
  ASSUME A!TypeOK, NEW c \in AskingCalls, NEW step \in {"idle", "loading", "loaded", "judging", "ticketing", "persisting", "waiting",
                  "consuming", "running", "finishing", "over"}, A!Goto(c, step)
  PROVE  /\ v6' \in [AskingCalls -> A!CallRow] /\ v6'[c].at = step /\ v6'[c].ticket = v6[c].ticket
         /\ \A d \in AskingCalls \ {c} : v6'[d] = v6[d]
<1>1. v6[c] \in A!CallRow /\ v6 \in [AskingCalls -> A!CallRow]
  BY ApprovalNames DEF A!TypeOK
<1>2. /\ [v6[c] EXCEPT !.at = step] \in A!CallRow /\ [v6[c] EXCEPT !.at = step].at = step
      /\ [v6[c] EXCEPT !.at = step].ticket = v6[c].ticket
  BY <1>1 DEF A!CallRow
<1>3. v6' = [v6 EXCEPT ![c] = [v6[c] EXCEPT !.at = step]]
  BY <1>1 DEF A!Goto
<1>4. QED
  BY <1>2, <1>3, CallMoves

(* What moving a request of the owner does to the others. *)
LEMMA ClientMoves ==
  ASSUME A!TypeOK, NEW x \in OwnerRequests, NEW q \in A!ClientRow, v7' = [v7 EXCEPT ![x] = q]
  PROVE  /\ v7' \in [OwnerRequests -> A!ClientRow] /\ v7'[x] = q
         /\ \A y \in OwnerRequests \ {x} : v7'[y] = v7[y]
BY DEF A!TypeOK

(* What Step does to the requests of the owner. *)
LEMMA ClientSteps ==
  ASSUME A!TypeOK, NEW x \in OwnerRequests, NEW step \in {"idle", "deciding", "marking", "resuming", "reading", "replacing"},
         A!Step(x, step)
  PROVE  /\ v7' \in [OwnerRequests -> A!ClientRow] /\ v7'[x].at = step
         /\ v7'[x].ticket = v7[x].ticket /\ v7'[x].allow = v7[x].allow
         /\ \A y \in OwnerRequests \ {x} : v7'[y] = v7[y]
<1>1. v7[x] \in A!ClientRow
  BY DEF A!TypeOK
<1>2. LET q == [v7[x] EXCEPT !.at = step]
      IN q \in A!ClientRow /\ q.at = step /\ q.ticket = v7[x].ticket /\ q.allow = v7[x].allow
  BY <1>1 DEF A!ClientRow
<1>3. QED
  BY <1>2, ClientMoves DEF A!Step, A!TypeOK

(* What Answer does to the requests of the owner. *)
LEMMA ClientAnswers ==
  ASSUME A!TypeOK, NEW x \in OwnerRequests, A!Answer(x)
  PROVE  /\ v7' \in [OwnerRequests -> A!ClientRow] /\ v7'[x].at = "idle"
         /\ \A y \in OwnerRequests \ {x} : v7'[y] = v7[y]
BY ApprovalNames, ClientMoves DEF A!Answer

(* A ticket with a row keeps one, and a decision that is shown stays shown. *)
RowLasts(t) ==
  /\ v4[t] # A!NoRow => v4'[t] # A!NoRow
  /\ v4[t].status \in {"allowed", "denied"} => v4'[t].status = v4[t].status

(* The engine's record of a ticket goes, or stays as it was decided. *)
RecordLasts(t) ==
  \/ v3'[t] = A!NoRecord
  \/ v3[t] # A!NoRecord /\ v3'[t] # A!NoRecord /\ v3'[t].call = v3[t].call /\ v3'[t].decision = v3[t].decision

(* A ticket that is settled stays settled. *)
LEMMA SettledLasts ==
  ASSUME NEW t, RowLasts(t), RecordLasts(t), A!Settled(t) PROVE A!Settled(t)'
BY ApprovalNames DEF RowLasts, RecordLasts, A!Settled

(* A ticket that is neither used nor decided nor woken agrees as before. *)
LEMMA TicketLasts ==
  ASSUME NEW t \in Tickets, RowLasts(t), RecordLasts(t), A!TicketAgrees(t), v8'[t] = v8[t], v9 \subseteq v9',
         v5'[t] = "notified" => v5[t] = "notified"
  PROVE  A!TicketAgrees(t)'
<1>1. A!Settled(t) => A!Settled(t)'
  BY SettledLasts
<1>2. QED
  BY <1>1, ApprovalNames DEF RowLasts, RecordLasts, A!TicketAgrees

(* An operation that does not move agrees as before, whatever lasts of its ticket. *)
LEMMA CallStays ==
  ASSUME NEW c \in AskingCalls, v6'[c] = v6[c], A!CallAgrees(c), NEW t, t = v6[c].ticket,
         t \in Tickets => RowLasts(t) /\ RecordLasts(t) /\ v8'[t] = v8[t]
  PROVE  A!CallAgrees(c)'
<1>1. t \in Tickets /\ A!Settled(t) => A!Settled(t)'
  BY SettledLasts
<1>2. QED
  BY <1>1 DEF RowLasts, RecordLasts, A!CallAgrees, A!At

(* The places a call may go to when no ticket is touched. *)
CallMayGo(c) ==
  \/ v6'[c] = v6[c]
  \/ /\ v6'[c].ticket = v6[c].ticket \/ v6'[c].ticket \notin Tickets
     /\ v6'[c].at # "persisting"
     /\ v6'[c].at = "waiting" => c \in AskingTurns /\ v6'[c].ticket \in Tickets
     /\ v6'[c].at = "consuming" => v6'[c].ticket \in Tickets /\ A!Settled(v6[c].ticket)

(* An operation agrees wherever it may go. *)
LEMMA CallLasts ==
  ASSUME NEW c \in AskingCalls, \A t \in Tickets : RowLasts(t) /\ RecordLasts(t) /\ v8'[t] = v8[t], A!CallAgrees(c),
         CallMayGo(c)
  PROVE  A!CallAgrees(c)'
<1>0. PICK t : t = v6[c].ticket
  OBVIOUS
<1>1. t \in Tickets => RowLasts(t) /\ RecordLasts(t) /\ v8'[t] = v8[t]
  OBVIOUS
<1>2. CASE v6'[c] = v6[c]
  BY <1>0, <1>1, <1>2, CallStays
<1>3. CASE v6'[c] # v6[c]
  <2>1. t \in Tickets /\ A!Settled(t) => A!Settled(t)'
    BY <1>1, SettledLasts
  <2>2. QED
    BY <1>0, <1>1, <1>3, <2>1 DEF CallMayGo, RowLasts, RecordLasts, A!Settled, A!CallAgrees, A!At
<1>4. QED
  BY <1>2, <1>3

(* A request of the owner that does not move agrees as before. *)
LEMMA ClientStays ==
  ASSUME NEW x \in OwnerRequests, v7'[x] = v7[x], A!ClientAgrees(x), NEW t, t = v7[x].ticket,
         v7[x].at \in {"deciding", "marking", "resuming"} => RowLasts(t) /\ RecordLasts(t)
  PROVE  A!ClientAgrees(x)'
BY DEF RowLasts, RecordLasts, A!ClientAgrees

(* A request of the owner that does not move, or lets go of its ticket, agrees. *)
LEMMA ClientLasts ==
  ASSUME NEW x \in OwnerRequests, \A t \in Tickets : RowLasts(t) /\ RecordLasts(t), A!ClientAgrees(x),
         v7'[x] = v7[x] \/ v7'[x].at \notin {"deciding", "marking", "resuming"}
  PROVE  A!ClientAgrees(x)'
<1>0. PICK t : t = v7[x].ticket
  OBVIOUS
<1>1. CASE v7'[x] = v7[x]
  <2>1. v7[x].at \in {"deciding", "marking", "resuming"} => t \in Tickets
    BY <1>0 DEF A!ClientAgrees
  <2>2. QED
    BY <1>0, <1>1, <2>1, ClientStays
<1>2. CASE v7'[x].at \notin {"deciding", "marking", "resuming"}
  BY <1>2 DEF A!ClientAgrees
<1>3. QED
  BY <1>1, <1>2

(* A step that decides nothing, uses nothing and wakes nobody. *)
LEMMA ApprovalsRest ==
  ASSUME A!TicketInv, A!TypeOK', \A t \in Tickets : RowLasts(t) /\ RecordLasts(t) /\ v8'[t] = v8[t],
         v9' = v9, \A t \in Tickets : v5'[t] = "notified" => v5[t] = "notified",
         \A c \in AskingCalls : CallMayGo(c),
         \A x \in OwnerRequests : v7'[x] = v7[x] \/ v7'[x].at \notin {"deciding", "marking", "resuming"}
  PROVE  A!TicketInv'
<1>1. (\A t \in Tickets : A!TicketAgrees(t)) /\ (\A c \in AskingCalls : A!CallAgrees(c)) /\ \A x \in OwnerRequests : A!ClientAgrees(x)
  BY ApprovalNames DEF A!TicketInv
<1>2. \A t \in Tickets : A!TicketAgrees(t)'
  BY <1>1, TicketLasts
<1>3. \A c \in AskingCalls : A!CallAgrees(c)'
  BY <1>1, CallLasts
<1>4. \A x \in OwnerRequests : A!ClientAgrees(x)'
  BY <1>1, ClientLasts
<1>5. QED
  BY <1>2, <1>3, <1>4, ApprovalNames DEF A!TicketInv

(* The invariant of the approvals holds at first. *)
LEMMA ApprovalsInit == A!Init => A!TicketInv
<1> SUFFICES ASSUME A!Init PROVE A!TicketInv
  OBVIOUS
<1>1. A!TypeOK
  BY ApprovalNames, RuntimeAssumption DEF A!Init, A!TypeOK, A!EngineRow
<1>2. ASSUME NEW t \in Tickets PROVE A!TicketAgrees(t)
  BY ApprovalNames DEF A!Init, A!TicketAgrees
<1>3. ASSUME NEW c \in AskingCalls PROVE A!CallAgrees(c)
  BY ApprovalNames, RuntimeAssumption DEF A!Init, A!CallAgrees, A!At
<1>4. ASSUME NEW x \in OwnerRequests PROVE A!ClientAgrees(x)
  BY ApprovalNames DEF A!Init, A!ClientAgrees
<1>5. QED
  BY <1>1, <1>2, <1>3, <1>4, ApprovalNames DEF A!TicketInv

(* Every step keeps the invariant of the approvals. *)
LEMMA ApprovalsStep == A!TicketInv /\ [A!Next]_A!vars => A!TicketInv'
<1> SUFFICES ASSUME A!TicketInv, [A!Next]_A!vars PROVE A!TicketInv'
  OBVIOUS
<1> USE ApprovalNames
<1>0. /\ A!TypeOK /\ v1 \subseteq A!Effects /\ v2 \in A!EngineRow /\ v3 \in [Tickets -> A!Records]
      /\ v4 \in [Tickets -> A!ApprovalRow] /\ v5 \in [Tickets -> {"none", "waiting", "notified", "cancelled"}]
      /\ v6 \in [AskingCalls -> A!CallRow] /\ v7 \in [OwnerRequests -> A!ClientRow]
      /\ v8 \in [Tickets -> 0..2] /\ v9 \subseteq Tickets /\ v10 \in 0..OwnerActions
      /\ \A t \in Tickets : A!TicketAgrees(t)
      /\ \A c \in AskingCalls : A!CallAgrees(c)
      /\ \A x \in OwnerRequests : A!ClientAgrees(x)
  BY DEF A!TicketInv, A!TypeOK
<1>s. ASSUME UNCHANGED <<v3, v4>> PROVE \A t \in Tickets : RowLasts(t) /\ RecordLasts(t)
  BY <1>s DEF RowLasts, RecordLasts
(* A call that only goes on. *)
<1>g. ASSUME NEW c \in AskingCalls, UNCHANGED A!Policy, v6' \in [AskingCalls -> A!CallRow],
             v6'[c].at \notin {"persisting", "waiting", "consuming"}, v6'[c].ticket = v6[c].ticket,
             \A d \in AskingCalls \ {c} : v6'[d] = v6[d]
      PROVE  A!TicketInv'
  <2>1. UNCHANGED <<v1, v2, v3, v4, v5, v7, v8, v9, v10>>
    BY <1>g DEF A!Policy
  <2>2. A!TypeOK'
    BY <1>0, <1>g, <2>1 DEF A!TypeOK
  <2>3. QED
    BY <1>g, <1>s, <2>1, <2>2, ApprovalsRest DEF CallMayGo
<1>1. ASSUME NEW c \in AskingCalls, A!Ask(c) \/ A!Done(c) \/ A!EndTurn(c) \/ A!Authorize(c) PROVE A!TicketInv'
  <2>1. PICK step \in {"judging", "loading", "idle", "finishing", "running", "ticketing"} : A!Goto(c, step)
    BY <1>1 DEF A!Ask, A!Done, A!EndTurn, A!Authorize
  <2>2. UNCHANGED A!Policy
    BY <1>1 DEF A!Ask, A!Done, A!EndTurn, A!Authorize
  <2>3. QED
    BY <1>0, <1>g, <2>1, <2>2, CallGoes
<1>2. ASSUME NEW c \in AskingCalls, A!LoadReads(c) PROVE A!TicketInv'
  <2>1. UNCHANGED A!Policy
    BY <1>2 DEF A!LoadReads
  <2>2. CASE A!Goto(c, "judging")
    BY <1>0, <1>g, <2>1, <2>2, CallGoes
  <2>3. CASE v6' = [v6 EXCEPT ![c].at = "loaded", ![c].rules = v1]
    <3>1. v6' = [v6 EXCEPT ![c] = [[v6[c] EXCEPT !.at = "loaded"] EXCEPT !.rules = v1]]
      BY <1>0, <2>3
    <3>2. v6[c] \in A!CallRow
      BY <1>0
    <3>3. /\ [[v6[c] EXCEPT !.at = "loaded"] EXCEPT !.rules = v1] \in A!CallRow
          /\ [[v6[c] EXCEPT !.at = "loaded"] EXCEPT !.rules = v1].at = "loaded"
          /\ [[v6[c] EXCEPT !.at = "loaded"] EXCEPT !.rules = v1].ticket = v6[c].ticket
      BY <1>0, <3>2 DEF A!CallRow
    <3>4. QED
      BY <1>0, <1>g, <2>1, <3>1, <3>3, CallMoves
  <2>4. QED
    BY <1>2, <2>2, <2>3 DEF A!LoadReads, A!Goto
<1>r. ASSUME NEW rules \in SUBSET A!Effects, A!ReplaceRules(rules) PROVE v2' \in A!EngineRow
  <2>1. v2.revision \in 0..PolicyRevisions
    BY <1>0 DEF A!EngineRow
  <2>2. v2.revision + 1 \in 0..PolicyRevisions
    BY <1>r, <2>1, RuntimeAssumption DEF A!ReplaceRules
  <2>3. QED
    BY <1>r, <2>2 DEF A!ReplaceRules, A!EngineRow
<1>3. ASSUME NEW c \in AskingCalls, A!LoadPolicy(c) PROVE A!TicketInv'
  <2>1. /\ A!ReplaceRules(v6[c].rules) /\ v6' = [v6 EXCEPT ![c] = [[v6[c] EXCEPT !.at = "judging"] EXCEPT !.rules = {}]]
        /\ UNCHANGED <<v1, v3, v4, v5, v7, v8, v9, v10>>
    BY <1>0, <1>3 DEF A!LoadPolicy
  <2>2. v6[c] \in A!CallRow /\ v6[c].rules \in SUBSET A!Effects
    BY <1>0 DEF A!CallRow
  <2>3. /\ [[v6[c] EXCEPT !.at = "judging"] EXCEPT !.rules = {}] \in A!CallRow
        /\ [[v6[c] EXCEPT !.at = "judging"] EXCEPT !.rules = {}].at = "judging"
        /\ [[v6[c] EXCEPT !.at = "judging"] EXCEPT !.rules = {}].ticket = v6[c].ticket
    BY <2>2 DEF A!CallRow
  <2>4. /\ v6' \in [AskingCalls -> A!CallRow] /\ v6'[c].at = "judging" /\ v6'[c].ticket = v6[c].ticket
        /\ \A d \in AskingCalls \ {c} : v6'[d] = v6[d]
    BY <1>0, <2>1, <2>3, CallMoves
  <2>5. A!TypeOK'
    BY <1>0, <1>r, <2>1, <2>2, <2>4 DEF A!TypeOK
  <2>6. QED
    BY <1>s, <2>1, <2>4, <2>5, ApprovalsRest DEF CallMayGo
(* A request comes back with a ticket. *)
<1>4. ASSUME NEW c \in AskingCalls, NEW t \in Tickets, A!AskAgain(c, t) PROVE A!TicketInv'
  <2>1. /\ c \in AskingRequests /\ v4[t] # A!NoRow /\ v6' = [v6 EXCEPT ![c] = [[v6[c] EXCEPT !.at = "consuming"] EXCEPT !.ticket = t]]
        /\ UNCHANGED <<v1, v2, v3, v4, v5, v7, v8, v9, v10>>
    BY <1>0, <1>4 DEF A!AskAgain, A!Policy
  <2>2. v6[c] \in A!CallRow
    BY <1>0
  <2>3. /\ [[v6[c] EXCEPT !.at = "consuming"] EXCEPT !.ticket = t] \in A!CallRow
        /\ [[v6[c] EXCEPT !.at = "consuming"] EXCEPT !.ticket = t].at = "consuming"
        /\ [[v6[c] EXCEPT !.at = "consuming"] EXCEPT !.ticket = t].ticket = t
    BY <2>2 DEF A!CallRow
  <2>4. /\ v6' \in [AskingCalls -> A!CallRow] /\ v6'[c].at = "consuming" /\ v6'[c].ticket = t
        /\ \A d \in AskingCalls \ {c} : v6'[d] = v6[d]
    BY <1>0, <2>1, <2>3, CallMoves
  <2>5. A!TypeOK'
    BY <1>0, <2>1, <2>4 DEF A!TypeOK
  <2>6. A!CallAgrees(c)'
    BY <2>1, <2>4, RuntimeAssumption DEF A!CallAgrees, A!At
  <2>7. (\A u \in Tickets : A!TicketAgrees(u)') /\ \A x \in OwnerRequests : A!ClientAgrees(x)'
    BY <1>0, <1>s, <2>1, TicketLasts, ClientLasts
  <2>8. \A d \in AskingCalls \ {c} : A!CallAgrees(d)'
    BY <1>0, <1>s, <2>1, <2>4, CallLasts DEF CallMayGo
  <2>9. QED
    BY <2>5, <2>6, <2>7, <2>8 DEF A!TicketInv
<1>5. ASSUME NEW c \in AskingCalls, A!ConsumeApproval(c) PROVE A!TicketInv'
  <2>0. PICK t : t = v6[c].ticket
    OBVIOUS
  <2>1. /\ v6[c].at = "consuming" /\ v3' = [v3 EXCEPT ![t] = A!NoRecord] /\ UNCHANGED <<v1, v2, v4, v5, v7, v9, v10>>
        /\ v8' = (IF A!Consumes(c, t) THEN [v8 EXCEPT ![t] = @ + 1] ELSE v8)
        /\ A!Goto(c, IF A!Consumes(c, t) THEN "running" ELSE "idle")
    BY <1>5, <2>0 DEF A!ConsumeApproval, A!Goto
  <2>2. /\ t \in Tickets /\ v4[t] # A!NoRow
        /\ c \in AskingTurns => A!Settled(t) /\ (v3[t] = A!NoRecord \/ v3[t].call = c)
                                /\ (v8[t] > 0 => v4[t].status = "allowed")
    BY <1>0, <2>0, <2>1 DEF A!CallAgrees, A!At
  <2>3. /\ A!TicketAgrees(t) /\ v8[t] \in 0..2
        /\ A!Consumes(c, t) => v3[t] # A!NoRecord /\ v3[t].call = c /\ v3[t].decision = "allow" /\ v8[t] = 0 /\ t \in v9
    BY <1>0, <2>2 DEF A!TicketAgrees, A!Consumes
  <2>4. /\ v6' \in [AskingCalls -> A!CallRow] /\ v6'[c].at \in {"running", "idle"} /\ v6'[c].ticket = t
        /\ (v6'[c].at = "running" <=> A!Consumes(c, t))
        /\ \A d \in AskingCalls \ {c} : v6'[d] = v6[d]
    BY <1>0, <2>0, <2>1, CallGoes
  <2>5. /\ v3' \in [Tickets -> A!Records] /\ v3'[t] = A!NoRecord /\ \A u \in Tickets \ {t} : v3'[u] = v3[u]
    BY <1>0, <2>1, <2>2
  <2>6. /\ v8' \in [Tickets -> 0..2] /\ v8'[t] = (IF A!Consumes(c, t) THEN 1 ELSE v8[t])
        /\ \A u \in Tickets \ {t} : v8'[u] = v8[u]
    <3>1. CASE A!Consumes(c, t)
      <4>1. v8' = [v8 EXCEPT ![t] = 1]
        BY <1>0, <2>1, <2>2, <2>3, <3>1
      <4>2. QED
        BY <1>0, <2>2, <3>1, <4>1
    <3>2. CASE ~A!Consumes(c, t)
      BY <1>0, <2>1, <2>2, <3>2
    <3>3. QED
      BY <3>1, <3>2
  <2>7. A!TypeOK'
    BY <1>0, <2>1, <2>4, <2>5, <2>6 DEF A!TypeOK
  <2>8. \A u \in Tickets : RowLasts(u) /\ RecordLasts(u)
    BY <2>1, <2>5 DEF RowLasts, RecordLasts
  <2>9. A!TicketAgrees(t)'
    <3>1. v5'[t] = "notified" => A!Settled(t)'
      <4>1. RowLasts(t) /\ RecordLasts(t)
        BY <2>2, <2>8
      <4>2. A!Settled(t) => A!Settled(t)'
        BY <4>1, SettledLasts
      <4>3. QED
        BY <2>1, <2>3, <4>2 DEF A!TicketAgrees
    <3>2. v8'[t] <= 1 /\ (v8'[t] = 1 => t \in v9')
      BY <2>1, <2>3, <2>6 DEF A!TicketAgrees
    <3>3. v3'[t] = A!NoRecord /\ v4'[t] # A!NoRow /\ v3'[t].decision # "allow"
      BY <2>1, <2>2, <2>5
    <3>4. QED
      BY <3>1, <3>2, <3>3 DEF A!TicketAgrees
  <2>10. \A u \in Tickets \ {t} : A!TicketAgrees(u)'
    BY <1>0, <2>1, <2>6, <2>8, TicketLasts
  <2>11. A!CallAgrees(c)'
    <3>1. c \in AskingTurns /\ v8'[t] > 0 => v4'[t].status = "allowed"
      BY <2>1, <2>2, <2>3, <2>6 DEF A!Settled
    <3>2. QED
      BY <2>4, <2>5, <3>1 DEF A!CallAgrees, A!At
  <2>12. ASSUME NEW d \in AskingCalls \ {c} PROVE A!CallAgrees(d)'
    <3>0. PICK u : u = v6[d].ticket
      OBVIOUS
    <3>1. v6'[d] = v6[d] /\ A!CallAgrees(d)
      BY <1>0, <2>4
    <3>2. CASE A!Consumes(c, t) /\ u = t
      <4>1. d \notin AskingTurns
        BY <2>2, <2>3, <3>0, <3>1, <3>2 DEF A!CallAgrees
      <4>2. QED
        BY <2>1, <2>2, <3>0, <3>1, <3>2, <4>1 DEF A!CallAgrees, A!At
    <3>3. CASE ~(A!Consumes(c, t) /\ u = t)
      <4>1. u \in Tickets => v8'[u] = v8[u]
        BY <2>6, <3>3
      <4>2. u \in Tickets => RowLasts(u) /\ RecordLasts(u)
        BY <2>8
      <4>3. u \in Tickets /\ A!Settled(u) => A!Settled(u)'
        BY <4>2, SettledLasts
      <4>4. QED
        BY <3>0, <3>1, <4>1, <4>2, <4>3 DEF A!CallAgrees, A!At, RowLasts, RecordLasts
    <3>4. QED
      BY <3>2, <3>3
  <2>13. \A x \in OwnerRequests : A!ClientAgrees(x)'
    BY <1>0, <2>1, <2>8, ClientLasts
  <2>14. (\A u \in Tickets : A!TicketAgrees(u)') /\ \A d \in AskingCalls : A!CallAgrees(d)'
    BY <2>9, <2>10, <2>11, <2>12
  <2>15. QED
    BY <2>7, <2>13, <2>14 DEF A!TicketInv
(* A row's status only moves on from pending. *)
<1>e. ASSUME NEW gone \in SUBSET AskingCalls, v4' = A!Expired(gone)
      PROVE  v4' \in [Tickets -> A!ApprovalRow] /\ \A t \in Tickets : RowLasts(t)
  <2>1. ASSUME NEW t \in Tickets PROVE v4'[t] \in A!ApprovalRow /\ RowLasts(t)
    <3>1. v4'[t] = IF v4[t].status = "pending" /\ v4[t].call \in gone THEN [v4[t] EXCEPT !.status = "expired"] ELSE v4[t]
      BY <1>e DEF A!Expired
    <3>2. v4[t] \in A!ApprovalRow
      BY <1>0
    <3>3. [v4[t] EXCEPT !.status = "expired"] \in A!ApprovalRow /\ [v4[t] EXCEPT !.status = "expired"].status = "expired"
      BY <3>2 DEF A!ApprovalRow
    <3>4. QED
      BY <3>1, <3>2, <3>3 DEF RowLasts
  <2>2. QED
    BY <1>e, <2>1 DEF A!Expired
<1>6. ASSUME NEW c \in AskingCalls, NEW t \in Tickets, A!IssueTicket(c, t) PROVE A!TicketInv'
  <2> DEFINE kept == [x \in Tickets |-> IF A!Fresh(x) THEN v3[x] ELSE A!NoRecord]
             again == {x \in A!Undecided(c) : v3[x].revision = v2.revision}
  <2>1. /\ UNCHANGED <<v1, v2, v4, v5, v7, v8, v9, v10>>
        /\ \A u \in Tickets : RowLasts(u)
    BY <1>6 DEF A!IssueTicket, RowLasts
  <2>2. /\ kept \in [Tickets -> A!Records]
        /\ \A u \in Tickets : kept[u] = v3[u] \/ kept[u] = A!NoRecord
        /\ \A u \in Tickets : A!Fresh(u) => kept[u] = v3[u]
    BY <1>0
  <2>3. CASE v3' = kept /\ A!Goto(c, "idle")
    <3>1. \A u \in Tickets : RecordLasts(u)
      BY <2>2, <2>3 DEF RecordLasts
    <3>2. /\ v6' \in [AskingCalls -> A!CallRow] /\ v6'[c].at = "idle" /\ v6'[c].ticket = v6[c].ticket
          /\ \A d \in AskingCalls \ {c} : v6'[d] = v6[d]
      BY <1>0, <2>3, CallGoes
    <3>3. A!TypeOK'
      BY <1>0, <2>1, <2>2, <2>3, <3>2 DEF A!TypeOK
    <3> HIDE DEF kept, again
    <3>4. QED
      BY <2>1, <3>1, <3>2, <3>3, ApprovalsRest DEF CallMayGo
  <2>4. ASSUME v6' = [v6 EXCEPT ![c].at = "persisting", ![c].ticket = t]
        PROVE  /\ v6' \in [AskingCalls -> A!CallRow] /\ v6'[c].at = "persisting" /\ v6'[c].ticket = t
               /\ \A d \in AskingCalls \ {c} : v6'[d] = v6[d]
    <3>1. v6[c] \in A!CallRow
      BY <1>0
    <3>2. /\ [[v6[c] EXCEPT !.at = "persisting"] EXCEPT !.ticket = t] \in A!CallRow
          /\ [[v6[c] EXCEPT !.at = "persisting"] EXCEPT !.ticket = t].at = "persisting"
          /\ [[v6[c] EXCEPT !.at = "persisting"] EXCEPT !.ticket = t].ticket = t
      BY <3>1 DEF A!CallRow
    <3>3. v6' = [v6 EXCEPT ![c] = [[v6[c] EXCEPT !.at = "persisting"] EXCEPT !.ticket = t]]
      BY <1>0, <2>4
    <3>4. QED
      BY <1>0, <3>2, <3>3, CallMoves
  (* The ticket that waits for the same request is given again. *)
  <2>5. CASE /\ t \in again /\ v3' = kept /\ v6' = [v6 EXCEPT ![c].at = "persisting", ![c].ticket = t]
    <3>1. \A u \in Tickets : RecordLasts(u)
      BY <2>2, <2>5 DEF RecordLasts
    <3>2. v3'[t] = v3[t] /\ v3[t] # A!NoRecord /\ v3[t].call = c
      BY <2>2, <2>5 DEF A!Undecided, A!Fresh
    <3>3. v3' \in [Tickets -> A!Records]
      BY <2>2, <2>5
    <3> HIDE DEF kept, again
    <3>4. /\ v6' \in [AskingCalls -> A!CallRow] /\ v6'[c].at = "persisting" /\ v6'[c].ticket = t
          /\ \A d \in AskingCalls \ {c} : v6'[d] = v6[d]
      BY <2>4, <2>5
    <3>5. A!TypeOK'
      BY <1>0, <2>1, <3>3, <3>4 DEF A!TypeOK
    <3>6. v8'[t] = v8[t] /\ v8[t] \in 0..2 /\ ~(v8[t] > 0)
      BY <1>0, <2>1, <3>2 DEF A!TicketAgrees
    <3>7. A!CallAgrees(c)'
      BY <3>2, <3>4, <3>6 DEF A!CallAgrees, A!At
    <3>8. \A d \in AskingCalls \ {c} : A!CallAgrees(d)'
      BY <1>0, <2>1, <3>1, <3>4, CallLasts DEF CallMayGo
    <3>9. (\A u \in Tickets : A!TicketAgrees(u)') /\ \A x \in OwnerRequests : A!ClientAgrees(x)'
      BY <1>0, <2>1, <3>1, TicketLasts, ClientLasts
    <3>10. \A d \in AskingCalls : A!CallAgrees(d)'
      BY <3>7, <3>8
    <3>11. QED
      BY <3>5, <3>9, <3>10 DEF A!TicketInv
  (* A ticket with no row, no record and nobody who holds it. *)
  <2>6. CASE /\ v4[t] = A!NoRow /\ v3[t] = A!NoRecord /\ (\A x \in A!Calls : v6[x].ticket # t)
             /\ v3' = [kept EXCEPT ![t] = [call |-> c, decision |-> "none", revision |-> v2.revision, fresh |-> TRUE]]
             /\ v6' = [v6 EXCEPT ![c].at = "persisting", ![c].ticket = t]
    <3>1. [call |-> c, decision |-> "none", revision |-> v2.revision, fresh |-> TRUE] \in A!Records
      BY <1>0 DEF A!Records, A!EngineRow
    <3>2. /\ v3' \in [Tickets -> A!Records] /\ v3'[t].call = c /\ v3'[t].decision = "none"
          /\ \A u \in Tickets \ {t} : v3'[u] = kept[u]
      BY <2>2, <2>6, <3>1
    <3>3. \A u \in Tickets \ {t} : RecordLasts(u)
      BY <2>2, <3>2 DEF RecordLasts
    <3>4. \A d \in AskingCalls : v6[d].ticket # t
      BY <2>6
    <3> HIDE DEF kept, again
    <3>5. /\ v6' \in [AskingCalls -> A!CallRow] /\ v6'[c].at = "persisting" /\ v6'[c].ticket = t
          /\ \A d \in AskingCalls \ {c} : v6'[d] = v6[d]
      BY <2>4, <2>6
    <3>6. A!TypeOK'
      BY <1>0, <2>1, <3>2, <3>5 DEF A!TypeOK
    <3>7. v8'[t] = v8[t] /\ v8[t] = 0
      BY <1>0, <2>1, <2>6 DEF A!TicketAgrees
    <3>8. v5'[t] = v5[t] /\ v5[t] # "notified"
      BY <1>0, <2>1, <2>6 DEF A!TicketAgrees, A!Settled
    <3>9. A!TicketAgrees(t)'
      BY <3>2, <3>7, <3>8 DEF A!TicketAgrees
    <3>10. \A u \in Tickets \ {t} : A!TicketAgrees(u)'
      BY <1>0, <2>1, <3>3, TicketLasts
    <3>11. A!CallAgrees(c)'
      BY <3>2, <3>5, <3>7 DEF A!CallAgrees, A!At
    <3>12. ASSUME NEW d \in AskingCalls \ {c} PROVE A!CallAgrees(d)'
      <4>1. PICK u : u = v6[d].ticket
        OBVIOUS
      <4>2. u \in Tickets => RowLasts(u) /\ RecordLasts(u) /\ v8'[u] = v8[u]
        BY <2>1, <3>3, <3>4, <4>1
      <4>3. v6'[d] = v6[d] /\ A!CallAgrees(d)
        BY <1>0, <3>5
      <4>4. QED
        BY <4>1, <4>2, <4>3, CallStays
    <3>13. ASSUME NEW x \in OwnerRequests PROVE A!ClientAgrees(x)'
      <4>1. PICK u : u = v7[x].ticket
        OBVIOUS
      <4>2. v7'[x] = v7[x] /\ A!ClientAgrees(x)
        BY <1>0, <2>1
      <4>3. v7[x].at \in {"deciding", "marking", "resuming"} => u \in Tickets \ {t}
        BY <2>6, <4>1, <4>2 DEF A!ClientAgrees
      <4>4. v7[x].at \in {"deciding", "marking", "resuming"} => RowLasts(u) /\ RecordLasts(u)
        BY <2>1, <3>3, <4>3
      <4>5. QED
        BY <4>1, <4>2, <4>4, ClientStays
    <3>14. (\A u \in Tickets : A!TicketAgrees(u)') /\ \A d \in AskingCalls : A!CallAgrees(d)'
      BY <3>9, <3>10, <3>11, <3>12
    <3>15. QED
      BY <3>6, <3>13, <3>14 DEF A!TicketInv
  <2>7. QED
    BY <1>6, <2>3, <2>5, <2>6 DEF A!IssueTicket
<1>7. ASSUME NEW c \in AskingCalls, A!PersistApproval(c) PROVE A!TicketInv'
  <2>0. PICK t : t = v6[c].ticket
    OBVIOUS
  <2>1. t \in Tickets /\ v6[c].at = "persisting" /\ UNCHANGED <<v1, v2, v3, v7, v8, v9, v10>>
    BY <1>0, <1>7, <2>0 DEF A!PersistApproval, A!CallAgrees, A!At
  <2>2. PICK step \in {"waiting", "idle"} : A!Goto(c, step) /\ (step = "waiting" => c \in AskingTurns)
    BY <1>7 DEF A!PersistApproval
  <2>3. /\ v6' \in [AskingCalls -> A!CallRow] /\ v6'[c].at = step /\ v6'[c].ticket = t
        /\ \A d \in AskingCalls \ {c} : v6'[d] = v6[d]
    BY <1>0, <2>0, <2>2, CallGoes
  <2>4. v4' \in [Tickets -> A!ApprovalRow] /\ \A u \in Tickets : RowLasts(u)
    <3>1. CASE v4' = v4
      BY <1>0, <3>1 DEF RowLasts
    <3>2. CASE v4' = [v4 EXCEPT ![t] = IF @ = A!NoRow THEN [status |-> "pending", call |-> c] ELSE @]
      <4>1. [status |-> "pending", call |-> c] \in A!ApprovalRow
        BY DEF A!ApprovalRow
      <4>2. \A u \in Tickets : v4'[u] = v4[u] \/ (v4[u] = A!NoRow /\ v4'[u] = [status |-> "pending", call |-> c])
        BY <1>0, <2>1, <3>2
      <4>3. v4' \in [Tickets -> A!ApprovalRow]
        BY <1>0, <2>1, <3>2, <4>1
      <4>4. QED
        BY <4>2, <4>3 DEF RowLasts
    <3>3. QED
      BY <1>7, <2>0, <3>1, <3>2 DEF A!PersistApproval
  <2>5. /\ v5' \in [Tickets -> {"none", "waiting", "notified", "cancelled"}]
        /\ \A u \in Tickets : v5'[u] = "notified" => v5[u] = "notified"
    <3>1. v5' = v5 \/ v5' = [v5 EXCEPT ![t] = "waiting"]
      BY <1>7, <2>0 DEF A!PersistApproval
    <3>2. QED
      BY <1>0, <2>1, <3>1
  <2>6. A!TypeOK'
    BY <1>0, <2>1, <2>3, <2>4, <2>5 DEF A!TypeOK
  <2>7. \A u \in Tickets : RecordLasts(u) /\ v8'[u] = v8[u]
    BY <2>1 DEF RecordLasts
  <2>8. \A d \in AskingCalls : CallMayGo(d)
    BY <2>0, <2>1, <2>2, <2>3 DEF CallMayGo
  <2>9. QED
    BY <2>1, <2>4, <2>5, <2>6, <2>7, <2>8, ApprovalsRest
<1>8. ASSUME NEW c \in AskingCalls, A!AwaitCapabilityApproval(c) PROVE A!TicketInv'
  <2>0. PICK t : t = v6[c].ticket
    OBVIOUS
  <2>1. t \in Tickets /\ UNCHANGED <<v1, v2, v3, v4, v7, v8, v9, v10>> /\ v5' = [v5 EXCEPT ![t] = "none"]
    BY <1>0, <1>8, <2>0 DEF A!AwaitCapabilityApproval, A!CallAgrees, A!At
  <2>2. PICK step \in {"consuming", "finishing", "idle"} : A!Goto(c, step) /\ (step = "consuming" => v5[t] = "notified")
    BY <1>8, <2>0 DEF A!AwaitCapabilityApproval
  <2>3. /\ v6' \in [AskingCalls -> A!CallRow] /\ v6'[c].at = step /\ v6'[c].ticket = t
        /\ \A d \in AskingCalls \ {c} : v6'[d] = v6[d]
    BY <1>0, <2>0, <2>2, CallGoes
  <2>4. /\ v5' \in [Tickets -> {"none", "waiting", "notified", "cancelled"}]
        /\ \A u \in Tickets : v5'[u] = "notified" => v5[u] = "notified"
    BY <1>0, <2>1
  <2>5. A!TypeOK'
    BY <1>0, <2>1, <2>3, <2>4 DEF A!TypeOK
  <2>6. step = "consuming" => A!Settled(t)
    BY <1>0, <2>1, <2>2 DEF A!TicketAgrees
  <2>7. CallMayGo(c)
    BY <2>0, <2>1, <2>2, <2>3, <2>6 DEF CallMayGo
  <2>8. \A d \in AskingCalls : CallMayGo(d)
    BY <2>3, <2>7 DEF CallMayGo
  <2>9. QED
    BY <1>s, <2>1, <2>4, <2>5, <2>8, ApprovalsRest
<1>9. ASSUME NEW c \in AskingCalls, A!WakeCapabilityApprovals(c) PROVE A!TicketInv'
  <2>1. /\ UNCHANGED <<v1, v2, v3, v4, v6, v7, v8, v9, v10>>
        /\ v5' = [t \in Tickets |-> IF v5[t] # "none" /\ v6[c].ticket = t THEN "cancelled" ELSE v5[t]]
    BY <1>9 DEF A!WakeCapabilityApprovals
  <2>2. /\ v5' \in [Tickets -> {"none", "waiting", "notified", "cancelled"}]
        /\ \A u \in Tickets : v5'[u] = "notified" => v5[u] = "notified"
    BY <1>0, <2>1
  <2>3. A!TypeOK'
    BY <1>0, <2>1, <2>2 DEF A!TypeOK
  <2>4. QED
    BY <1>s, <2>1, <2>2, <2>3, ApprovalsRest DEF CallMayGo
<1>10. ASSUME NEW c \in AskingCalls, A!FinishProviderInteractions(c) PROVE A!TicketInv'
  <2>1. v4' = A!Expired({c}) /\ A!Goto(c, "over") /\ UNCHANGED <<v1, v2, v3, v5, v7, v8, v9, v10>>
    BY <1>10 DEF A!FinishProviderInteractions
  <2>2. v4' \in [Tickets -> A!ApprovalRow] /\ \A t \in Tickets : RowLasts(t)
    BY <1>e, <2>1
  <2>3. /\ v6' \in [AskingCalls -> A!CallRow] /\ v6'[c].at = "over" /\ v6'[c].ticket = v6[c].ticket
        /\ \A d \in AskingCalls \ {c} : v6'[d] = v6[d]
    BY <1>0, <2>1, CallGoes
  <2>4. A!TypeOK'
    BY <1>0, <2>1, <2>2, <2>3 DEF A!TypeOK
  <2>5. \A t \in Tickets : RecordLasts(t)
    BY <2>1 DEF RecordLasts
  <2>6. QED
    BY <2>1, <2>2, <2>3, <2>4, <2>5, ApprovalsRest DEF CallMayGo
(* A request of the owner that touches no ticket. *)
<1>c. ASSUME NEW x \in OwnerRequests, UNCHANGED <<v3, v4, v5, v6, v8, v9>>, A!TypeOK',
             v7'[x].at \in {"idle", "reading", "replacing"}, \A y \in OwnerRequests \ {x} : v7'[y] = v7[y]
      PROVE  A!TicketInv'
  <2>1. \A t \in Tickets : RowLasts(t) /\ RecordLasts(t) /\ v8'[t] = v8[t]
    BY <1>c, <1>s
  <2>2. \A y \in OwnerRequests : v7'[y] = v7[y] \/ v7'[y].at \notin {"deciding", "marking", "resuming"}
    BY <1>c
  <2>3. \A c \in AskingCalls : CallMayGo(c)
    BY <1>c DEF CallMayGo
  <2>4. QED
    BY <1>c, <2>1, <2>2, <2>3, ApprovalsRest
<1>11. ASSUME NEW x \in OwnerRequests, NEW effect \in A!Effects,
              A!UpsertCapabilityRule(x, effect) \/ A!DeleteCapabilityRule(x, effect)
       PROVE  A!TicketInv'
  <2>1. /\ v1' \subseteq A!Effects /\ A!Step(x, "reading") /\ UNCHANGED <<v2, v3, v4, v5, v6, v8, v9>>
        /\ v10 < OwnerActions /\ v10' = v10 + 1
    BY <1>0, <1>11 DEF A!UpsertCapabilityRule, A!DeleteCapabilityRule
  <2>2. /\ v7' \in [OwnerRequests -> A!ClientRow] /\ v7'[x].at = "reading"
        /\ \A y \in OwnerRequests \ {x} : v7'[y] = v7[y]
    BY <1>0, <2>1, ClientSteps
  <2>3. v10' \in 0..OwnerActions
    BY <1>0, <2>1, RuntimeAssumption
  <2>4. A!TypeOK'
    BY <1>0, <2>1, <2>2, <2>3 DEF A!TypeOK
  <2>5. QED
    BY <1>c, <2>1, <2>2, <2>4
<1>12. ASSUME NEW x \in OwnerRequests, A!ReloadReads(x) PROVE A!TicketInv'
  <2>1. /\ UNCHANGED <<v1, v2, v3, v4, v5, v6, v8, v9, v10>>
        /\ v7' = [v7 EXCEPT ![x] = [[v7[x] EXCEPT !.at = "replacing"] EXCEPT !.rules = v1]]
    BY <1>0, <1>12 DEF A!ReloadReads
  <2>2. v7[x] \in A!ClientRow
    BY <1>0
  <2>3. /\ [[v7[x] EXCEPT !.at = "replacing"] EXCEPT !.rules = v1] \in A!ClientRow
        /\ [[v7[x] EXCEPT !.at = "replacing"] EXCEPT !.rules = v1].at = "replacing"
    BY <1>0, <2>2 DEF A!ClientRow
  <2>4. /\ v7' \in [OwnerRequests -> A!ClientRow] /\ v7'[x].at = "replacing"
        /\ \A y \in OwnerRequests \ {x} : v7'[y] = v7[y]
    BY <1>0, <2>1, <2>3, ClientMoves
  <2>5. A!TypeOK'
    BY <1>0, <2>1, <2>4 DEF A!TypeOK
  <2>6. QED
    BY <1>c, <2>1, <2>4, <2>5
<1>13. ASSUME NEW x \in OwnerRequests, A!ReloadPolicy(x) PROVE A!TicketInv'
  <2>1. A!ReplaceRules(v7[x].rules) /\ A!Answer(x) /\ UNCHANGED <<v1, v3, v4, v5, v6, v8, v9, v10>>
    BY <1>13 DEF A!ReloadPolicy
  <2>2. v7[x].rules \in SUBSET A!Effects
    BY <1>0 DEF A!ClientRow
  <2>3. v2' \in A!EngineRow
    BY <1>r, <2>1, <2>2
  <2>4. /\ v7' \in [OwnerRequests -> A!ClientRow] /\ v7'[x].at = "idle"
        /\ \A y \in OwnerRequests \ {x} : v7'[y] = v7[y]
    BY <1>0, <2>1, ClientAnswers
  <2>5. A!TypeOK'
    BY <1>0, <2>1, <2>3, <2>4 DEF A!TypeOK
  <2>6. QED
    BY <1>c, <2>1, <2>4, <2>5
<1>14. ASSUME NEW x \in OwnerRequests, NEW t \in Tickets, NEW allow \in BOOLEAN, A!DecideApproval(x, t, allow)
       PROVE  A!TicketInv'
  <2> DEFINE q == [[[A!Quiet EXCEPT !.at = "deciding"] EXCEPT !.ticket = t] EXCEPT !.allow = allow]
  <2>1. /\ v10 < OwnerActions /\ v10' = v10 + 1 /\ v4[t] # A!NoRow
        /\ v7' = [v7 EXCEPT ![x] = q]
        /\ UNCHANGED <<v1, v2, v3, v4, v5, v6, v8, v9>>
    BY <1>14 DEF A!DecideApproval
  <2>2. q \in A!ClientRow /\ q.at = "deciding" /\ q.ticket = t
    BY DEF A!ClientRow, A!Quiet
  <2> HIDE DEF q
  <2>3. /\ v7' \in [OwnerRequests -> A!ClientRow] /\ v7'[x].at = "deciding" /\ v7'[x].ticket = t
        /\ \A y \in OwnerRequests \ {x} : v7'[y] = v7[y]
    BY <1>0, <2>1, <2>2, ClientMoves
  <2>4. v10' \in 0..OwnerActions
    BY <1>0, <2>1, RuntimeAssumption
  <2>5. A!TypeOK'
    BY <1>0, <2>1, <2>3, <2>4 DEF A!TypeOK
  <2>6. A!ClientAgrees(x)'
    BY <2>1, <2>3 DEF A!ClientAgrees
  <2>7. \A y \in OwnerRequests \ {x} : A!ClientAgrees(y)'
    BY <1>0, <1>s, <2>1, <2>3, ClientLasts
  <2>8. (\A u \in Tickets : A!TicketAgrees(u)') /\ \A d \in AskingCalls : A!CallAgrees(d)'
    BY <1>0, <1>s, <2>1, TicketLasts, CallLasts DEF CallMayGo
  <2>9. \A y \in OwnerRequests : A!ClientAgrees(y)'
    BY <2>6, <2>7
  <2>10. QED
    BY <2>5, <2>8, <2>9 DEF A!TicketInv
(* The engine hears the decision. *)
<1>15. ASSUME NEW x \in OwnerRequests, A!ResolveApproval(x) PROVE A!TicketInv'
  <2>0. PICK t : t = v7[x].ticket
    OBVIOUS
  <2>1. /\ t \in Tickets /\ v7[x].at = "deciding" /\ v4[t] # A!NoRow
        /\ UNCHANGED <<v1, v2, v4, v5, v6, v8, v10>>
    BY <1>0, <1>15, <2>0 DEF A!ResolveApproval, A!ClientAgrees
  <2>2. v7[x].allow \in BOOLEAN
    BY <1>0 DEF A!ClientRow
  <2>3. CASE ~A!Decidable(t)
    <3>1. A!Answer(x) /\ v3' = [v3 EXCEPT ![t] = A!NoRecord] /\ v9' = v9
      BY <1>15, <2>0, <2>3 DEF A!ResolveApproval, A!Decide, A!Decidable
    <3>2. /\ v7' \in [OwnerRequests -> A!ClientRow] /\ v7'[x].at = "idle"
          /\ \A y \in OwnerRequests \ {x} : v7'[y] = v7[y]
      BY <1>0, <3>1, ClientAnswers
    <3>3. v3' \in [Tickets -> A!Records] /\ \A u \in Tickets : v3'[u] = v3[u] \/ v3'[u] = A!NoRecord
      BY <1>0, <2>1, <3>1
    <3>4. A!TypeOK'
      BY <1>0, <2>1, <3>1, <3>2, <3>3 DEF A!TypeOK
    <3>5. \A u \in Tickets : RowLasts(u) /\ RecordLasts(u)
      BY <2>1, <3>3 DEF RowLasts, RecordLasts
    <3>6. QED
      BY <2>1, <3>1, <3>2, <3>4, <3>5, ApprovalsRest DEF CallMayGo
  <2>4. CASE A!Decidable(t)
    <3> DEFINE word == IF v7[x].allow THEN "allow" ELSE "deny"
    <3>1. /\ A!Step(x, "marking") /\ v3' = [v3 EXCEPT ![t] = [v3[t] EXCEPT !.decision = word]]
          /\ v9' = IF v7[x].allow THEN v9 \cup {t} ELSE v9
      BY <1>15, <2>0, <2>4 DEF A!ResolveApproval, A!Decide, A!Decidable
    <3>2. v3[t] # A!NoRecord /\ v3[t].decision = "none" /\ v3[t].fresh /\ v3[t] \in A!Records
      BY <1>0, <2>1, <2>4 DEF A!Decidable
    <3>3. /\ [v3[t] EXCEPT !.decision = word] \in A!Records
          /\ [v3[t] EXCEPT !.decision = word].decision = word /\ [v3[t] EXCEPT !.decision = word].call = v3[t].call
      BY <3>2 DEF A!Records
    <3>4. /\ v3' \in [Tickets -> A!Records] /\ v3'[t].decision = word /\ v3'[t].call = v3[t].call
          /\ \A u \in Tickets \ {t} : v3'[u] = v3[u]
      BY <1>0, <2>1, <3>1, <3>3
    <3>5. /\ v7' \in [OwnerRequests -> A!ClientRow] /\ v7'[x].at = "marking" /\ v7'[x].ticket = t
          /\ v7'[x].allow = v7[x].allow
          /\ \A y \in OwnerRequests \ {x} : v7'[y] = v7[y]
      BY <1>0, <2>0, <3>1, ClientSteps
    <3>6. A!TypeOK'
      <4>1. v9' \subseteq Tickets
        BY <1>0, <2>1, <3>1
      <4>2. QED
        BY <1>0, <2>1, <3>4, <3>5, <4>1 DEF A!TypeOK
    <3>7. /\ \A u \in Tickets : RowLasts(u)
          /\ \A u \in Tickets \ {t} : RecordLasts(u)
      BY <2>1, <3>4 DEF RowLasts, RecordLasts
    <3>8. v8'[t] = v8[t] /\ v8[t] = 0 /\ v5'[t] = v5[t] /\ v5[t] # "notified"
      BY <1>0, <2>1, <3>2 DEF A!TicketAgrees, A!Settled
    <3>9. A!TicketAgrees(t)'
      BY <3>1, <3>4, <3>8 DEF A!TicketAgrees
    <3>10. \A u \in Tickets \ {t} : A!TicketAgrees(u)'
      BY <1>0, <2>1, <3>1, <3>7, TicketLasts
    <3>11. ASSUME NEW d \in AskingCalls PROVE A!CallAgrees(d)'
      <4>1. PICK u : u = v6[d].ticket
        OBVIOUS
      <4>2. v6'[d] = v6[d] /\ A!CallAgrees(d)
        BY <1>0, <2>1
      <4>3. CASE u = t
        <5>1. ~(v6[d].at = "consuming" /\ d \in AskingTurns)
          BY <3>2, <4>1, <4>2, <4>3 DEF A!CallAgrees, A!Settled, A!At
        <5>2. d \in AskingTurns => v3'[t].call = d
          BY <2>1, <3>2, <3>4, <4>1, <4>2, <4>3 DEF A!CallAgrees
        <5>3. QED
          BY <2>1, <3>8, <4>1, <4>2, <4>3, <5>1, <5>2 DEF A!CallAgrees, A!At
      <4>4. CASE u # t
        <5>1. u \in Tickets => RowLasts(u) /\ RecordLasts(u) /\ v8'[u] = v8[u]
          BY <2>1, <3>7, <4>4
        <5>2. QED
          BY <4>1, <4>2, <5>1, CallStays
      <4>5. QED
        BY <4>3, <4>4
    <3>12. A!ClientAgrees(x)'
      BY <2>1, <3>4, <3>5 DEF A!ClientAgrees
    <3>13. ASSUME NEW y \in OwnerRequests \ {x} PROVE A!ClientAgrees(y)'
      <4>1. PICK u : u = v7[y].ticket
        OBVIOUS
      <4>2. v7'[y] = v7[y] /\ A!ClientAgrees(y)
        BY <1>0, <3>5
      <4>3. CASE u = t
        <5>1. v7[y].at \notin {"marking", "resuming"}
          BY <3>2, <4>1, <4>2, <4>3 DEF A!ClientAgrees
        <5>2. QED
          BY <2>1, <4>1, <4>2, <4>3, <5>1 DEF A!ClientAgrees
      <4>4. CASE u # t
        <5>1. v7[y].at \in {"deciding", "marking", "resuming"} => u \in Tickets \ {t}
          BY <4>1, <4>2, <4>4 DEF A!ClientAgrees
        <5>2. v7[y].at \in {"deciding", "marking", "resuming"} => RowLasts(u) /\ RecordLasts(u)
          BY <3>7, <5>1
        <5>3. QED
          BY <4>1, <4>2, <5>2, ClientStays
      <4>5. QED
        BY <4>3, <4>4
    <3>14. (\A u \in Tickets : A!TicketAgrees(u)') /\ \A y \in OwnerRequests : A!ClientAgrees(y)'
      BY <3>9, <3>10, <3>12, <3>13
    <3>15. QED
      BY <3>6, <3>11, <3>14 DEF A!TicketInv
  <2>5. QED
    BY <2>3, <2>4
(* The row is marked after the engine. *)
<1>16. ASSUME NEW x \in OwnerRequests, A!DecideChatApproval(x) PROVE A!TicketInv'
  <2>0. PICK t : t = v7[x].ticket
    OBVIOUS
  <2>1. /\ t \in Tickets /\ v7[x].at = "marking" /\ v4[t] # A!NoRow
        /\ v3[t] = A!NoRecord \/ v3[t].decision = IF v7[x].allow THEN "allow" ELSE "deny"
        /\ UNCHANGED <<v1, v2, v3, v5, v6, v8, v9, v10>>
    BY <1>0, <1>16, <2>0 DEF A!DecideChatApproval, A!ClientAgrees
  <2>2. CASE v4' = v4 /\ A!Answer(x)
    <3>1. /\ v7' \in [OwnerRequests -> A!ClientRow] /\ v7'[x].at = "idle"
          /\ \A y \in OwnerRequests \ {x} : v7'[y] = v7[y]
      BY <1>0, <2>2, ClientAnswers
    <3>2. A!TypeOK'
      BY <1>0, <2>1, <2>2, <3>1 DEF A!TypeOK
    <3>3. QED
      BY <1>c, <2>1, <2>2, <3>1, <3>2
  <2>3. CASE /\ v4[t].status = "pending" /\ A!Step(x, "resuming")
             /\ v4' = [v4 EXCEPT ![t].status = IF v7[x].allow THEN "allowed" ELSE "denied"]
    <3> DEFINE shown == IF v7[x].allow THEN "allowed" ELSE "denied"
    <3>1. v4[t] \in A!ApprovalRow
      BY <1>0, <2>1
    <3>2. [v4[t] EXCEPT !.status = shown] \in A!ApprovalRow /\ [v4[t] EXCEPT !.status = shown].status = shown
      BY <3>1 DEF A!ApprovalRow
    <3>3. /\ v4' \in [Tickets -> A!ApprovalRow] /\ v4'[t].status = shown
          /\ \A u \in Tickets \ {t} : v4'[u] = v4[u]
      BY <1>0, <2>1, <2>3, <3>2
    <3>4. v4'[t] # A!NoRow
      BY <3>3
    <3>5. \A u \in Tickets : RowLasts(u) /\ RecordLasts(u)
      BY <2>1, <2>3, <3>3, <3>4 DEF RowLasts, RecordLasts
    <3>6. /\ v7' \in [OwnerRequests -> A!ClientRow] /\ v7'[x].at = "resuming" /\ v7'[x].ticket = t
          /\ v7'[x].allow = v7[x].allow
          /\ \A y \in OwnerRequests \ {x} : v7'[y] = v7[y]
      BY <1>0, <2>0, <2>3, ClientSteps
    <3>7. A!TypeOK'
      BY <1>0, <2>1, <3>3, <3>6 DEF A!TypeOK
    <3>8. A!ClientAgrees(x)'
      BY <2>1, <3>3, <3>4, <3>6 DEF A!ClientAgrees
    <3>9. \A y \in OwnerRequests \ {x} : A!ClientAgrees(y)'
      BY <1>0, <3>5, <3>6, ClientLasts
    <3>10. (\A u \in Tickets : A!TicketAgrees(u)') /\ \A d \in AskingCalls : A!CallAgrees(d)'
      BY <1>0, <2>1, <3>5, TicketLasts, CallLasts DEF CallMayGo
    <3>11. \A y \in OwnerRequests : A!ClientAgrees(y)'
      BY <3>8, <3>9
    <3>12. QED
      BY <3>7, <3>10, <3>11 DEF A!TicketInv
  <2>4. QED
    BY <1>16, <2>0, <2>2, <2>3 DEF A!DecideChatApproval
(* The waiter is woken last. *)
<1>17. ASSUME NEW x \in OwnerRequests, A!ResumeCapabilityApproval(x) PROVE A!TicketInv'
  <2>0. PICK t : t = v7[x].ticket
    OBVIOUS
  <2>1. /\ t \in Tickets /\ v7[x].at = "resuming" /\ v4[t] # A!NoRow
        /\ v3[t] = A!NoRecord \/ v3[t].decision = IF v7[x].allow THEN "allow" ELSE "deny"
        /\ v4[t].status = IF v7[x].allow THEN "allowed" ELSE "denied"
        /\ A!Answer(x) /\ v5' = [v5 EXCEPT ![t] = IF @ = "waiting" THEN "notified" ELSE @]
        /\ UNCHANGED <<v1, v2, v3, v4, v6, v8, v9, v10>>
    BY <1>0, <1>17, <2>0 DEF A!ResumeCapabilityApproval, A!ClientAgrees
  <2>2. /\ v7' \in [OwnerRequests -> A!ClientRow] /\ v7'[x].at = "idle"
        /\ \A y \in OwnerRequests \ {x} : v7'[y] = v7[y]
    BY <1>0, <2>1, ClientAnswers
  <2>3. /\ v5' \in [Tickets -> {"none", "waiting", "notified", "cancelled"}]
        /\ \A u \in Tickets \ {t} : v5'[u] = v5[u]
    BY <1>0, <2>1
  <2>4. A!TypeOK'
    BY <1>0, <2>1, <2>2, <2>3 DEF A!TypeOK
  <2>5. A!Settled(t)'
    BY <2>1 DEF A!Settled
  <2>6. A!TicketAgrees(t)'
    <3>1. A!TicketAgrees(t)
      BY <1>0, <2>1
    <3>2. QED
      BY <2>1, <2>5, <3>1 DEF A!TicketAgrees
  <2>7. \A u \in Tickets \ {t} : A!TicketAgrees(u)'
    BY <1>0, <1>s, <2>1, <2>3, TicketLasts
  <2>8. \A y \in OwnerRequests : A!ClientAgrees(y)'
    BY <1>0, <1>s, <2>1, <2>2, ClientLasts
  <2>9. \A d \in AskingCalls : A!CallAgrees(d)'
    BY <1>0, <1>s, <2>1, CallLasts DEF CallMayGo
  <2>10. \A u \in Tickets : A!TicketAgrees(u)'
    BY <2>6, <2>7
  <2>11. QED
    BY <2>4, <2>8, <2>9, <2>10 DEF A!TicketInv
<1>18. ASSUME NEW t \in Tickets, A!TicketExpires(t) PROVE A!TicketInv'
  <2>1. /\ v3[t] # A!NoRecord /\ v3' = [v3 EXCEPT ![t] = [v3[t] EXCEPT !.fresh = FALSE]]
        /\ UNCHANGED <<v1, v2, v4, v5, v6, v7, v8, v9, v10>>
    BY <1>18 DEF A!TicketExpires, A!Fresh
  <2>2. v3[t] \in A!Records
    BY <1>0
  <2>3. /\ [v3[t] EXCEPT !.fresh = FALSE] \in A!Records /\ [v3[t] EXCEPT !.fresh = FALSE].call = v3[t].call
        /\ [v3[t] EXCEPT !.fresh = FALSE].decision = v3[t].decision
    BY <2>2 DEF A!Records
  <2>4. /\ v3' \in [Tickets -> A!Records] /\ v3'[t].call = v3[t].call /\ v3'[t].decision = v3[t].decision
        /\ \A u \in Tickets \ {t} : v3'[u] = v3[u]
    BY <1>0, <2>1, <2>3
  <2>5. A!TypeOK'
    BY <1>0, <2>1, <2>4 DEF A!TypeOK
  <2>6. \A u \in Tickets : RowLasts(u) /\ RecordLasts(u)
    BY <2>1, <2>4 DEF RowLasts, RecordLasts
  <2>7. QED
    BY <2>1, <2>5, <2>6, ApprovalsRest DEF CallMayGo
<1>19. ASSUME A!Restart PROVE A!TicketInv'
  <2>1. /\ v10 < OwnerActions /\ v10' = v10 + 1 /\ v2' = [rules |-> {}, revision |-> 0, loaded |-> FALSE]
        /\ v4' = A!Expired(AskingTurns) /\ v3' = [t \in Tickets |-> A!NoRecord] /\ v5' = [t \in Tickets |-> "none"]
        /\ v6' = [c \in AskingCalls |-> [A!NoCall EXCEPT !.at = IF c \in AskingTurns THEN "over" ELSE "idle"]]
        /\ v7' = [x \in OwnerRequests |-> A!Quiet]
        /\ UNCHANGED <<v1, v8, v9>>
    BY <1>19 DEF A!Restart
  <2>2. AskingTurns \in SUBSET AskingCalls
    BY DEF AskingCalls
  <2>3. v4' \in [Tickets -> A!ApprovalRow] /\ \A t \in Tickets : RowLasts(t)
    BY <1>e, <2>1, <2>2
  <2>4. \A where \in {"over", "idle"} :
          /\ [A!NoCall EXCEPT !.at = where] \in A!CallRow /\ [A!NoCall EXCEPT !.at = where].at = where
          /\ [A!NoCall EXCEPT !.at = where].ticket = None
    BY DEF A!NoCall, A!CallRow
  <2>5. /\ v6' \in [AskingCalls -> A!CallRow]
        /\ \A c \in AskingCalls : v6'[c].at \in {"over", "idle"} /\ v6'[c].ticket = None
    BY <2>1, <2>4
  <2>6. v10' \in 0..OwnerActions /\ v2' \in A!EngineRow
    BY <1>0, <2>1, RuntimeAssumption DEF A!EngineRow
  <2>7. A!TypeOK'
    BY <1>0, <2>1, <2>3, <2>5, <2>6 DEF A!TypeOK
  <2>8. \A t \in Tickets : RecordLasts(t)
    BY <2>1 DEF RecordLasts
  <2>9. \A c \in AskingCalls : CallMayGo(c)
    BY <2>5, RuntimeAssumption DEF CallMayGo
  <2>10. QED
    BY <2>1, <2>3, <2>7, <2>8, <2>9, ApprovalsRest
<1>20. CASE UNCHANGED A!vars
  <2>1. UNCHANGED <<v1, v2, v3, v4, v5, v6, v7, v8, v9, v10>>
    BY <1>20 DEF A!vars
  <2>2. A!TypeOK'
    BY <1>0, <2>1 DEF A!TypeOK
  <2>3. QED
    BY <1>s, <2>1, <2>2, ApprovalsRest DEF CallMayGo
<1>21. QED
  BY <1>1, <1>2, <1>3, <1>4, <1>5, <1>6, <1>7, <1>8, <1>9, <1>10, <1>11, <1>12, <1>13, <1>14, <1>15,
     <1>16, <1>17, <1>18, <1>19, <1>20 DEF A!Next

(* The invariant of the approvals gives RunsAsShown. *)
LEMMA TicketInvShows == A!TicketInv => A!RunsAsShown
BY DEF A!TicketInv, A!TypeOK, A!CallAgrees, A!RunsAsShown, A!At, A!Calls, A!CallRow

(* The invariant of a behaviour of Approvals in the composition. *)
TicketInvHere == component = "approvals" => A!TicketInv

(* It holds in every state of a behaviour. *)
LEMMA ApprovalsHold == RuntimeSpec => []TicketInvHere
<1>1. RuntimeInit => TicketInvHere
  BY ApprovalsInit DEF RuntimeInit, TicketInvHere
<1>2. TicketInvHere /\ [RuntimeNext]_all => TicketInvHere'
  <2> SUFFICES ASSUME TicketInvHere, [RuntimeNext]_all, component' = "approvals" PROVE A!TicketInv'
    BY DEF TicketInvHere
  <2>1. component = "approvals" /\ [A!Next]_A!vars
    BY DEF RuntimeNext, all, A!vars
  <2>2. QED
    BY <2>1, ApprovalsStep DEF TicketInvHere
<1>3. QED
  BY <1>1, <1>2, PTL DEF RuntimeSpec

(* A turn's tool call that runs under an approval runs while the chat shows that  *)
(* approval as allowed, for every number of turns, requests, tickets and requests *)
(* of the owner (decide_approval, finish_interactions).                           *)
THEOREM RunsAsShownAlways == RuntimeSpec => []RunsAsShown
<1>1. TicketInvHere => RunsAsShown
  BY TicketInvShows DEF TicketInvHere, RunsAsShown
<1>2. QED
  BY <1>1, ApprovalsHold, PTL

-----------------------------------------------------------------------------
(* The types *)

(* A behaviour belongs to one component throughout. *)
ComponentKnown ==
  component \in {"groups", "approvals", "interactions", "tools", "mcp", "memory", "runs", "codex",
                 "context", "routines", "triggers", "jobs"}

LEMMA ComponentStays == RuntimeSpec => []ComponentKnown
<1>1. RuntimeInit => ComponentKnown
  BY DEF RuntimeInit, ComponentKnown
<1>2. ComponentKnown /\ [RuntimeNext]_all => ComponentKnown'
  <2>1. [RuntimeNext]_all => component' = component
    BY DEF RuntimeNext, all
  <2>2. QED
    BY <2>1 DEF ComponentKnown
<1>3. QED
  BY <1>1, <1>2, PTL DEF RuntimeSpec

(* The variables of GroupChats hold its invariant in every behaviour: those of the other *)
(* components leave them as they are at first.                                           *)
LEMMA GroupsHold == RuntimeSpec => []GroupInv
<1>1. RuntimeInit => GroupInv
  BY InitGroup DEF RuntimeInit
<1>2. GroupInv /\ [RuntimeNext]_all => GroupInv'
  <2>1. [RuntimeNext]_all => [Next]_vars
    BY DEF RuntimeNext, all
  <2>2. QED
    BY <2>1, StepGroup
<1>3. QED
  BY <1>1, <1>2, PTL DEF RuntimeSpec

(* Every variable of every component has its type throughout, for every value of the *)
(* constants.                                                                        *)
THEOREM RuntimeTypesCorrect == RuntimeSpec => []RuntimeTypeOK
<1> DEFINE First == MemoryInvHere /\ DraftInvHere /\ BusyInvHere /\ OverlapInvHere /\ TriggersHere
           Second == AnswerInvHere /\ FoundInvHere /\ McpInvHere /\ StrandInvHere /\ EndsInvHere
<1>1. (ComponentKnown /\ GroupInv /\ TicketInvHere /\ First /\ Second) => RuntimeTypeOK
  <2> SUFFICES ASSUME ComponentKnown, GroupInv, TicketInvHere, First, Second PROVE RuntimeTypeOK
    OBVIOUS
  <2>1. CASE component \in {"memory", "routines", "context", "jobs", "triggers"}
    <3>1. /\ component = "memory" => M!TypeOK
          /\ component = "routines" => R!TypeOK
          /\ component = "context" => W!TypeOK
          /\ component = "jobs" => J!TypeOK
          /\ component = "triggers" => E!TypeOK
      BY DEF MemoryInvHere, M!IdsInv, DraftInvHere, R!DraftInv, BusyInvHere, W!BusyInv,
             OverlapInvHere, J!OverlapInv, TriggersHere, E!DeliveryInv
    <3>2. QED
      BY <2>1, <3>1 DEF RuntimeTypeOK
  <2>2. CASE component \in {"interactions", "tools", "mcp", "codex", "runs"}
    <3>1. /\ component = "interactions" => I!TypeOK
          /\ component = "tools" => T!TypeOK
          /\ component = "mcp" => S!TypeOK
          /\ component = "codex" => C!TypeOK
          /\ component = "runs" => P!TypeOK
      BY DEF AnswerInvHere, I!AnswerInv, FoundInvHere, T!FoundInv, McpInvHere, S!McpInv,
             StrandInvHere, C!StrandInv, EndsInvHere, P!EndsInv
    <3>2. QED
      BY <2>2, <3>1 DEF RuntimeTypeOK
  <2>3. CASE component \in {"groups", "approvals"}
    <3>1. TypeOK /\ (component = "approvals" => A!TypeOK)
      BY DEF GroupInv, TicketInvHere, A!TicketInv
    <3>2. QED
      BY <2>3, <3>1 DEF RuntimeTypeOK
  <2>4. QED
    BY <2>1, <2>2, <2>3 DEF ComponentKnown
<1>2. QED
  BY <1>1, ComponentStays, GroupsHold, ApprovalsHold, MemoryHolds, RoutinesHold, ContextHolds, JobsHold,
     TriggersHold, QuestionsHold, ToolsHold, McpHolds, CodexHolds, RunsHold, PTL
=============================================================================
