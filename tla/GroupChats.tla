------------------------------ MODULE GroupChats ------------------------------
(***************************************************************************)
(* One group chat: the requests of crates/homebot-server/src/groups.rs,    *)
(* the group turns that provider_turn.rs starts for them, and the rows     *)
(* they share.  A storage function that reads before it writes is cut      *)
(* where the code lets another connection in between.                      *)
(***************************************************************************)
EXTENDS Integers, FiniteSets

CONSTANTS Bots, NoBot,
          Handlers, Keys,      (* requests in service, and idempotency keys    *)
          Turns, NoTurn,       (* provider operations a behaviour may start    *)
          FewestMembers, MostMembers, (* 2 and 6 in the code                   *)
          MaxTurns, MaxParallel,      (* the group's budget and limit          *)
          Crashes              (* whether the process may die                  *)

ASSUME GroupAssumption ==
  /\ NoBot \notin Bots /\ NoTurn \notin Turns
  /\ FewestMembers \in 1..MostMembers
  /\ MaxTurns \in Nat /\ MaxParallel \in Nat /\ Crashes \in BOOLEAN

VARIABLES
  chat,          (* chats: ownership_bot_id, coordination_turns_used, stop_requested *)
  part,          (* chat_participants and group_bot_states, by Bot            *)
  message,       (* status of the Bot message of each turn                    *)
  claims,        (* idempotency_records                                       *)
  call,          (* the locals of each request                                *)
  turn,          (* the locals of each turn                                   *)
  chat_operations, cancelled

durable == <<chat, part, message, claims>>
vars == <<durable, call, turn, chat_operations, cancelled>>

Statuses == {"idle", "running", "waiting", "completed", "failed", "stopped"}
Outside == [role |-> "none", status |-> "idle", op |-> NoTurn]
Joined == [Outside EXCEPT !.role = "member"]
Idle == [at |-> "idle", from |-> NoBot, to |-> NoBot, bots |-> {}, begin |-> FALSE,
         job |-> NoTurn, todo |-> {}]
Unused == [at |-> "unused", bot |-> NoBot, to |-> NoBot, end |-> "none",
           job |-> NoTurn]

Requests == {"send", "handoff", "status", "add", "remove", "budget", "stop"}
CallSteps == Requests \cup {"idle", "append", "commit", "start", "starting", "cancel",
                             "counted", "removing"}
TurnPhases == {"unused", "count", "show", "record", "unshow", "create", "launch",
               "active", "handing", "handed", "waiting", "finishing", "finished",
               "counted", "done", "failed", "lost"}

ChatRow == [owner : Bots, used : 0..MaxTurns, stop : BOOLEAN]
PartRow == [role : {"none", "member", "owner"}, status : Statuses, op : Turns \cup {NoTurn}]
CallRow == [at : CallSteps, from : Bots \cup {NoBot}, to : Bots \cup {NoBot},
            bots : SUBSET Bots, begin : BOOLEAN, job : Turns \cup {NoTurn},
            todo : SUBSET Turns]
TurnRow == [at : TurnPhases, bot : Bots \cup {NoBot}, to : Bots \cup {NoBot},
            end : {"none", "completed", "failed", "cancelled", "stopped"},
            job : Turns \cup {NoTurn}]

TypeOK ==
  /\ chat \in ChatRow
  /\ part \in [Bots -> PartRow]
  /\ message \in [Turns -> {"none", "streaming", "completed", "failed", "cancelled"}]
  /\ claims \subseteq Keys
  /\ call \in [Handlers -> CallRow]
  /\ turn \in [Turns -> TurnRow]
  /\ chat_operations \subseteq Turns /\ cancelled \subseteq Turns

Members == {b \in Bots : part[b].role # "none"}
Running == {b \in Bots : part[b].role # "none" /\ part[b].status = "running"}

(* The rows of a group that was just created. *)
CreateGroupChat(bots, owner) ==
  /\ Cardinality(bots) \in FewestMembers..MostMembers
  /\ owner \in bots
  /\ chat = [owner |-> owner, used |-> 0, stop |-> FALSE]
  /\ part = [b \in Bots |-> IF b = owner THEN [Outside EXCEPT !.role = "owner"]
                            ELSE IF b \in bots THEN Joined ELSE Outside]

Init ==
  /\ \E bots \in SUBSET Bots : CreateGroupChat(bots, CHOOSE b \in Bots : TRUE)
  /\ message = [t \in Turns |-> "none"]
  /\ claims = {}
  /\ call = [h \in Handlers |-> Idle]
  /\ turn = [t \in Turns |-> Unused]
  /\ chat_operations = {} /\ cancelled = {}

-----------------------------------------------------------------------------
(* Storage.  Each operator is one statement or one transaction. *)

(* Whether one more Bot may coordinate, as a request or a tool call reads it. *)
MayStart(b) ==
  /\ ~chat.stop
  /\ chat.used < MaxTurns
  /\ Cardinality(Running) < MaxParallel
  /\ b \notin Running

(* set_group_bot_status: the count, for which the other Bots' rows are read first. *)
BelowLimit(b) == Cardinality(Running \ {b}) < MaxParallel

(* set_group_bot_status: the update, which does not count again. *)
SetGroupBotStatus(b, status, op) ==
  /\ b \in Members
  /\ part' = [part EXCEPT ![b].status = status, ![b].op = op]

BudgetLeft == ~chat.stop /\ chat.used < MaxTurns

RecordGroupCoordinationTurn ==
  chat' = [chat EXCEPT !.used = IF BudgetLeft THEN @ + 1 ELSE @]

HandoffGroupOwnership(to) ==
  /\ chat' = [chat EXCEPT !.owner = to]
  /\ part' = [b \in Bots |->
       IF part[b].role = "none" THEN part[b]
       ELSE [part[b] EXCEPT !.role = IF b = to THEN "owner" ELSE "member"]]

(* Both member edits take SQLite's write lock before they count. *)
AddGroupParticipant(b) ==
  part' = IF b \notin Members /\ Cardinality(Members) < MostMembers
          THEN [part EXCEPT ![b] = Joined] ELSE part

RemoveGroupParticipant(b) ==
  part' = IF b \in Members /\ Cardinality(Members) > FewestMembers
          THEN [part EXCEPT ![b] = Outside] ELSE part

StopGroupChat ==
  /\ chat' = [chat EXCEPT !.stop = TRUE]
  /\ part' = [b \in Bots |-> IF part[b].role = "none" THEN part[b]
                             ELSE [part[b] EXCEPT !.status = "stopped", !.op = NoTurn]]

CreateBotMessage(t) ==
  /\ turn[t].bot \in Members
  /\ message' = [message EXCEPT ![t] = "streaming"]

-----------------------------------------------------------------------------
(* Requests *)

Goto(h, next) == call' = [call EXCEPT ![h].at = next]
Answer(h) == call' = [call EXCEPT ![h] = Idle]
MemoryOfTurns == <<turn, chat_operations, cancelled>>

(* A request whose key has a record is answered from the rows and changes nothing; *)
(* a record is kept when the request then fails.                                   *)
Claim(h, k, request, from, to, bots) ==
  /\ call[h].at = "idle"
  /\ k \notin claims
  /\ claims' = claims \cup {k}
  /\ call' = [call EXCEPT ![h] = [Idle EXCEPT !.at = request, !.from = from,
                                              !.to = to, !.bots = bots]]
  /\ UNCHANGED <<chat, part, message, MemoryOfTurns>>

(* The targets are the mentioned Bots, or the owner. *)
SendMessageChecks(h) ==
  LET targets == IF call[h].bots = {} THEN {chat.owner} ELSE call[h].bots
      room == /\ ~chat.stop
              /\ targets \cap Running = {}
              /\ Cardinality(Running) + Cardinality(targets) <= MaxParallel
              /\ Cardinality(targets) <= MaxTurns - chat.used
  IN /\ call[h].at = "send"
     /\ IF room THEN call' = [call EXCEPT ![h].at = "append", ![h].bots = targets]
                ELSE Answer(h)
     /\ UNCHANGED <<durable, MemoryOfTurns>>

AppendGroupUserMessage(h) ==
  /\ call[h].at = "append"
  /\ IF call[h].bots \subseteq Members \cup {chat.owner} THEN Goto(h, "start")
                                                          ELSE Answer(h)
  /\ UNCHANGED <<durable, MemoryOfTurns>>

BeginTurn(t, b) ==
  turn[t].at = "unused" /\ turn' = [turn EXCEPT ![t] = [Unused EXCEPT !.at = "count",
                                                                     !.bot = b]]

(* start_group_if_configured, once for each target. *)
StartNextTarget(h, t) ==
  /\ call[h].at = "start"
  /\ \E b \in call[h].bots :
       /\ BeginTurn(t, b)
       /\ call' = [call EXCEPT ![h].at = "starting", ![h].job = t, ![h].bots = @ \ {b}]
  /\ UNCHANGED <<durable, chat_operations, cancelled>>

(* start() has returned to whoever awaits it; with an error if Failed. *)
Started(t) == t \in chat_operations \/ turn[t].at \in {"done", "failed", "lost"}
Failed(t) == t \notin chat_operations /\ turn[t].at \in {"failed", "lost"}

(* The first target that cannot start ends the request. *)
TargetStarted(h) ==
  /\ call[h].at = "starting"
  /\ Started(call[h].job)
  /\ IF Failed(call[h].job) THEN Answer(h) ELSE Goto(h, "start")
  /\ UNCHANGED <<durable, MemoryOfTurns>>

(* All targets were started, or a target has no provider and is passed over. *)
SendMessageAnswers(h) ==
  /\ call[h].at = "start"
  /\ Answer(h)
  /\ UNCHANGED <<durable, MemoryOfTurns>>

(* What a handoff validates is read outside the transaction that commits it. *)
ValidHandoff(from, to) == from # to /\ chat.owner = from /\ to \in Members

HandoffReads(h) ==
  /\ call[h].at = "handoff"
  /\ IF ValidHandoff(call[h].from, call[h].to)
     THEN call' = [call EXCEPT ![h].at = "commit", ![h].begin = MayStart(call[h].to)]
     ELSE Answer(h)
  /\ UNCHANGED <<durable, MemoryOfTurns>>

HandoffCommits(h) ==
  /\ call[h].at = "commit"
  /\ HandoffGroupOwnership(call[h].to)
  /\ IF call[h].begin
     THEN call' = [call EXCEPT ![h].at = "start", ![h].bots = {call[h].to}]
     ELSE Answer(h)
  /\ UNCHANGED <<message, claims, MemoryOfTurns>>

(* Every status but running is stored without a count. *)
UpdateParticipant(h, status) ==
  /\ call[h].at = "status"
  /\ status \in Statuses \ {"running"}
  /\ IF call[h].to \in Members THEN SetGroupBotStatus(call[h].to, status, NoTurn)
                               ELSE UNCHANGED part
  /\ Answer(h)
  /\ UNCHANGED <<chat, message, claims, MemoryOfTurns>>

UpdateParticipantCounts(h) ==
  /\ call[h].at = "status"
  /\ IF BelowLimit(call[h].to) THEN Goto(h, "counted") ELSE Answer(h)
  /\ UNCHANGED <<durable, MemoryOfTurns>>

UpdateParticipantRuns(h) ==
  /\ call[h].at = "counted"
  /\ IF call[h].to \in Members THEN SetGroupBotStatus(call[h].to, "running", NoTurn)
                               ELSE UNCHANGED part
  /\ Answer(h)
  /\ UNCHANGED <<chat, message, claims, MemoryOfTurns>>

AddParticipant(h) ==
  /\ call[h].at = "add"
  /\ AddGroupParticipant(call[h].to)
  /\ Answer(h)
  /\ UNCHANGED <<chat, message, claims, MemoryOfTurns>>

(* The owner is refused by a read before the transaction. *)
RemoveParticipantReads(h) ==
  /\ call[h].at = "remove"
  /\ IF chat.owner = call[h].to THEN Answer(h) ELSE Goto(h, "removing")
  /\ UNCHANGED <<durable, MemoryOfTurns>>

RemoveParticipant(h) ==
  /\ call[h].at = "removing"
  /\ RemoveGroupParticipant(call[h].to)
  /\ Answer(h)
  /\ UNCHANGED <<chat, message, claims, MemoryOfTurns>>

RecordTurn(h) ==
  /\ call[h].at = "budget"
  /\ RecordGroupCoordinationTurn
  /\ Answer(h)
  /\ UNCHANGED <<part, message, claims, MemoryOfTurns>>

(* stop: cancel_group over a snapshot of chat_operations, and then the rows. *)
StopSnapshot(h) ==
  /\ call[h].at = "stop"
  /\ call' = [call EXCEPT ![h].at = "cancel", ![h].todo = chat_operations]
  /\ UNCHANGED <<durable, MemoryOfTurns>>

RunEnded(t) == turn[t].at \in {"finishing", "finished", "counted", "done", "lost"}

StopCancels(h, t) ==
  /\ call[h].at = "cancel"
  /\ t \in call[h].todo
  /\ t \in chat_operations => ~RunEnded(t)
  /\ cancelled' = cancelled \cup ({t} \cap chat_operations)
  /\ call' = [call EXCEPT ![h].todo = @ \ {t}]
  /\ UNCHANGED <<durable, turn, chat_operations>>

(* The provider no longer knows the run, and a hundred waits pass. *)
StopFails(h) ==
  /\ call[h].at = "cancel"
  /\ \E t \in call[h].todo \cap chat_operations : RunEnded(t)
  /\ Answer(h)
  /\ UNCHANGED <<durable, MemoryOfTurns>>

StopCommits(h) ==
  /\ call[h].at = "cancel"
  /\ call[h].todo = {}
  /\ StopGroupChat
  /\ Answer(h)
  /\ UNCHANGED <<message, claims, MemoryOfTurns>>

-----------------------------------------------------------------------------
(* A turn: prepare_group_turn and the rest of start() *)

Move(t, next) == turn' = [turn EXCEPT ![t].at = next]
Elsewhere == <<claims, call, cancelled>>

TurnCounts(t) ==
  /\ turn[t].at = "count"
  /\ Move(t, IF BelowLimit(turn[t].bot) THEN "show" ELSE "failed")
  /\ UNCHANGED <<chat, part, message, chat_operations, Elsewhere>>

TurnShows(t) ==
  /\ turn[t].at = "show"
  /\ IF turn[t].bot \in Members
     THEN SetGroupBotStatus(turn[t].bot, "running", t) /\ Move(t, "record")
     ELSE UNCHANGED part /\ Move(t, "failed")
  /\ UNCHANGED <<chat, message, chat_operations, Elsewhere>>

(* Faulty variant: the turn goes on though the budget refused it. *)
TurnRecordsAnyway(t) ==
  /\ turn[t].at = "record"
  /\ RecordGroupCoordinationTurn
  /\ Move(t, "create")
  /\ UNCHANGED <<part, message, chat_operations, Elsewhere>>

TurnRecords(t) ==
  /\ turn[t].at = "record"
  /\ RecordGroupCoordinationTurn
  /\ Move(t, IF BudgetLeft THEN "create" ELSE "unshow")
  /\ UNCHANGED <<part, message, chat_operations, Elsewhere>>

TurnUnshows(t) ==
  /\ turn[t].at = "unshow"
  /\ IF turn[t].bot \in Members THEN SetGroupBotStatus(turn[t].bot, "idle", NoTurn)
                                 ELSE UNCHANGED part
  /\ Move(t, "failed")
  /\ UNCHANGED <<chat, message, chat_operations, Elsewhere>>

(* The Bot may have been removed since it was shown as running. *)
TurnCreates(t) ==
  /\ turn[t].at = "create"
  /\ IF turn[t].bot \in Members THEN CreateBotMessage(t) /\ Move(t, "launch")
                                 ELSE UNCHANGED message /\ Move(t, "failed")
  /\ UNCHANGED <<chat, part, chat_operations, Elsewhere>>

TurnLaunches(t) ==
  /\ turn[t].at = "launch"
  /\ Move(t, "active")
  /\ chat_operations' = chat_operations \cup {t}
  /\ UNCHANGED <<chat, part, message, Elsewhere>>

(* finish_failed_start; the turn never enters chat_operations. *)
TurnLaunchFails(t) ==
  /\ turn[t].at = "launch"
  /\ turn' = [turn EXCEPT ![t].at = "finishing", ![t].end = "failed"]
  /\ UNCHANGED <<chat, part, message, chat_operations, Elsewhere>>

(* The homebot_handoff tool: provider_handoff reads, commits and starts the recipient. *)
ToolReads(t, to) ==
  /\ turn[t].at = "active"
  /\ ValidHandoff(turn[t].bot, to) /\ turn[t].bot \in Members /\ MayStart(to)
  /\ turn' = [turn EXCEPT ![t].at = "handing", ![t].to = to]
  /\ UNCHANGED <<chat, part, message, chat_operations, Elsewhere>>

ToolCommits(t) ==
  /\ turn[t].at = "handing"
  /\ HandoffGroupOwnership(turn[t].to)
  /\ Move(t, "handed")
  /\ UNCHANGED <<message, chat_operations, Elsewhere>>

ToolStarts(t, u) ==
  /\ turn[t].at = "handed"
  /\ turn[u].at = "unused"
  /\ turn' = [turn EXCEPT ![t].at = "waiting", ![t].job = u,
                          ![u] = [Unused EXCEPT !.at = "count", !.bot = turn[t].to]]
  /\ UNCHANGED <<chat, part, message, chat_operations, Elsewhere>>

ToolReturns(t) ==
  /\ turn[t].at = "waiting"
  /\ Started(turn[t].job)
  /\ turn' = [turn EXCEPT ![t].at = "active", ![t].job = NoTurn, ![t].to = NoBot]
  /\ UNCHANGED <<chat, part, message, chat_operations, Elsewhere>>

TurnEnds(t) ==
  /\ turn[t].at = "active"
  /\ \E end \in {"completed", "failed", "cancelled"} :
       /\ end = "cancelled" => t \in cancelled
       /\ turn' = [turn EXCEPT ![t].at = "finishing", ![t].end = end]
  /\ UNCHANGED <<chat, part, message, chat_operations, Elsewhere>>

FinishBotMessage(t) ==
  /\ turn[t].at = "finishing"
  /\ message' = [message EXCEPT ![t] = turn[t].end]
  /\ Move(t, "finished")
  /\ UNCHANGED <<chat, part, chat_operations, Elsewhere>>

FinishReadsStop(t) ==
  /\ turn[t].at = "finished"
  /\ turn' = [turn EXCEPT ![t].at = "counted",
       ![t].end = IF chat.stop \/ @ = "cancelled" THEN "stopped" ELSE @]
  /\ UNCHANGED <<chat, part, message, chat_operations, Elsewhere>>

(* Without its participant finish() fails, and so does the second attempt that the   *)
(* task makes, because the message is no longer streaming: nobody deregisters it.    *)
FinishSetsStatus(t) ==
  /\ turn[t].at = "counted"
  /\ IF turn[t].bot \in Members
     THEN /\ SetGroupBotStatus(turn[t].bot, turn[t].end, NoTurn)
          /\ Move(t, "done")
          /\ chat_operations' = chat_operations \ {t}
     ELSE Move(t, "lost") /\ UNCHANGED <<part, chat_operations>>
  /\ UNCHANGED <<chat, message, Elsewhere>>

(* The process dies, and the next one runs recover_interrupted_chat_turns, which looks *)
(* for a streaming message of the Bot.                                                 *)
Restart ==
  /\ Crashes
  /\ message' = [t \in Turns |-> IF message[t] = "streaming" THEN "failed" ELSE message[t]]
  /\ part' = [b \in Bots |->
       IF /\ b \in Running
          /\ \E t \in Turns : turn[t].bot = b /\ message[t] = "streaming"
       THEN [part[b] EXCEPT !.status = "failed", !.op = NoTurn] ELSE part[b]]
  /\ turn' = [t \in Turns |-> IF turn[t].at = "unused" THEN turn[t]
                               ELSE [Unused EXCEPT !.at = "done", !.bot = turn[t].bot]]
  /\ call' = [h \in Handlers |-> Idle]
  /\ chat_operations' = {} /\ cancelled' = {}
  /\ UNCHANGED <<chat, claims>>

-----------------------------------------------------------------------------
Arrives(h) ==
  \E k \in Keys, b \in Bots :
    \/ \E bots \in SUBSET Bots : Claim(h, k, "send", NoBot, NoBot, bots)
    \/ \E from \in Bots : Claim(h, k, "handoff", from, b, {})
    \/ \E request \in {"status", "add", "remove"} : Claim(h, k, request, NoBot, b, {})
    \/ \E request \in {"budget", "stop"} : Claim(h, k, request, NoBot, NoBot, {})

HandlerStep(h) ==
  \/ SendMessageChecks(h) \/ AppendGroupUserMessage(h) \/ SendMessageAnswers(h)
  \/ \E t \in Turns : StartNextTarget(h, t)
  \/ TargetStarted(h)
  \/ HandoffReads(h) \/ HandoffCommits(h)
  \/ \E status \in Statuses : UpdateParticipant(h, status)
  \/ UpdateParticipantCounts(h) \/ UpdateParticipantRuns(h)
  \/ AddParticipant(h) \/ RemoveParticipantReads(h) \/ RemoveParticipant(h)
  \/ RecordTurn(h)
  \/ StopSnapshot(h) \/ (\E t \in Turns : StopCancels(h, t)) \/ StopFails(h)
  \/ StopCommits(h)

(* What a turn does by itself; ToolReads is the provider's choice. *)
TurnStep(t) ==
  \/ TurnCounts(t) \/ TurnShows(t) \/ TurnRecords(t) \/ TurnUnshows(t)
  \/ TurnCreates(t) \/ TurnLaunches(t) \/ TurnLaunchFails(t)
  \/ ToolCommits(t) \/ (\E u \in Turns : ToolStarts(t, u)) \/ ToolReturns(t)
  \/ TurnEnds(t) \/ FinishBotMessage(t) \/ FinishReadsStop(t) \/ FinishSetsStatus(t)

Next ==
  \/ \E h \in Handlers : Arrives(h) \/ HandlerStep(h)
  \/ \E t \in Turns : TurnStep(t) \/ \E b \in Bots : ToolReads(t, b)
  \/ Restart

Spec == Init /\ [][Next]_vars

-----------------------------------------------------------------------------
(* A Bot message of a group was paid for: however starts, budget claims and stops *)
(* interleave, and across restarts, there are never more of them than coordination *)
(* turns used (prepare_group_turn, record_group_coordination_turn).                *)
TurnsPaid == Cardinality({t \in Turns : message[t] # "none"}) <= chat.used

(* The invariant behind it: a turn is paid for from the moment the budget let it by, *)
(* and each payment adds one turn to those at most.                                  *)
PastBudget == {"create", "launch", "active", "handing", "handed", "waiting", "finishing"}
Paid == {t \in Turns : message[t] # "none" \/ turn[t].at \in PastBudget}
EachPaid == IsFiniteSet(Paid) /\ Cardinality(Paid) <= chat.used

(* What a request or a turn carries once it is about to use it. *)
StepsTyped ==
  /\ \A h \in Handlers : call[h].at = "commit" => call[h].to \in Bots
  /\ \A t \in Turns :
       /\ turn[t].at = "handing" => turn[t].to \in Bots
       /\ turn[t].at \in {"finishing", "finished"} =>
            turn[t].end \in {"completed", "failed", "cancelled"}
       /\ turn[t].at = "counted" => turn[t].end \in {"completed", "failed", "stopped"}

GroupInv == TypeOK /\ StepsTyped /\ EachPaid

(* Racing member edits cannot take a group below two Bots or above six *)
(* (docs/group-chats.md; add_group_participant, remove_group_participant). *)
MembersBounded == Cardinality(Members) \in FewestMembers..MostMembers

(* Exactly one participant has the owner role, the one of ownership_bot_id. *)
OwnerIsMember == \A b \in Bots : part[b].role = "owner" <=> b = chat.owner
===============================================================================
