------------------------------ MODULE ChatTurns ------------------------------
(***************************************************************************)
(* One direct chat: the HTTP handlers that send, steer, stop and retry     *)
(* (crates/homebot-server/src/chats.rs), the Bot turns they start, from    *)
(* start() through consume() to finish() and the promotion of the next     *)
(* queued prompt (provider_turn.rs), and the durable rows they share.      *)
(*                                                                         *)
(* Every action is one storage transaction, one acquisition of the         *)
(* chat_operations lock, or one provider call: the points between two      *)
(* awaits where another task can run.  Rows survive a crash; handlers,     *)
(* turns and chat_operations do not.                                       *)
(***************************************************************************)
EXTENDS QueuedPrompts

CONSTANTS Handlers,      (* HTTP requests being served at the same time       *)
          Turns,         (* provider operations a behaviour may start; fewer  *)
                         (* than DIRECT_BOT_TURN_LIMIT, which then never bites *)
          NoKey, NoTurn,
          Oversized,     (* prompts whose Skills exceed the size that            *)
                         (* homebot_skills::assemble allows together             *)
          Faults         (* whether calls to storage and publications fail, and *)
                         (* clients hang up before they are answered            *)

ASSUME ChatAssumption ==
  /\ Faults \in BOOLEAN
  /\ Oversized \subseteq Keys
  /\ NoKey \notin Keys
  /\ NoTurn \notin Turns

VARIABLES
  (* durable: idempotency_records, chats, messages *)
  claims,        (* keys with an idempotency record                           *)
  running,       (* chats.running                                             *)
  transcript,    (* keys stored as user messages                              *)
  message,       (* status of the Bot message of each turn                    *)
  (* in memory: the locals of each request *)
  step, key,
  fresh,         (* the claim made a new idempotency record                   *)
  saw,           (* chat.running as the request read it                       *)
  job,           (* the turn whose start() is awaited                         *)
  todo,          (* operations that stop has still to cancel                  *)
  (* in memory: the locals of each turn, and AppState *)
  phase,
  status,        (* terminal status given to finish()                         *)
  others,        (* direct_still_running                                      *)
  launched,      (* turns whose start() has returned success                  *)
  child,         (* the turn whose start() this turn awaits                   *)
  chat_operations, (* turns registered in AppState.chat_operations            *)
  cancelled,       (* turns whose provider has been told to cancel            *)
  (* history *)
  told,          (* keys whose client has been answered "sent" or "queued"    *)
  overlapped     (* two turns have been at work at once since the last start  *)

durable == <<queue_vars, claims, running, transcript, message>>
handler_vars == <<step, key, fresh, saw, job, todo>>
turn_vars == <<phase, status, others, launched, child>>
memory == <<handler_vars, turn_vars, chat_operations, cancelled>>
vars == <<durable, memory, told, overlapped>>

-----------------------------------------------------------------------------
HandlerSteps == {"idle", "claim", "read", "admit", "start", "starting", "cancel"}
TurnPhases == {"unused", "created", "active", "delegating", "finishing", "refinishing",
               "finished", "counted", "flagged", "draining", "promoted", "promoting",
               "unflag", "done", "failed_start", "stranded", "dropped"}
TerminalStatus == {"completed", "failed", "cancelled"}

TypeOK ==
  /\ QueueTypeOK
  /\ claims \subseteq Keys
  /\ running \in BOOLEAN
  /\ transcript \subseteq Keys
  /\ message \in [Turns -> {"none", "streaming"} \cup TerminalStatus]
  /\ step \in [Handlers -> HandlerSteps]
  /\ key \in [Handlers -> Keys \cup {NoKey}]
  /\ fresh \in [Handlers -> BOOLEAN]
  /\ saw \in [Handlers -> BOOLEAN]
  /\ job \in [Handlers -> Turns \cup {NoTurn}]
  /\ todo \in [Handlers -> SUBSET Turns]
  /\ phase \in [Turns -> TurnPhases]
  /\ status \in [Turns -> {"none"} \cup TerminalStatus]
  /\ others \in [Turns -> BOOLEAN]
  /\ launched \subseteq Turns
  /\ child \in [Turns -> Turns \cup {NoTurn}]
  /\ chat_operations \subseteq launched
  /\ cancelled \subseteq chat_operations
  /\ told \subseteq Keys
  /\ overlapped \in BOOLEAN

Init ==
  /\ QueueInit
  /\ claims = {}
  /\ running = FALSE
  /\ transcript = {}
  /\ message = [t \in Turns |-> "none"]
  /\ step = [h \in Handlers |-> "idle"]
  /\ key = [h \in Handlers |-> NoKey]
  /\ fresh = [h \in Handlers |-> FALSE]
  /\ saw = [h \in Handlers |-> FALSE]
  /\ job = [h \in Handlers |-> NoTurn]
  /\ todo = [h \in Handlers |-> {}]
  /\ phase = [t \in Turns |-> "unused"]
  /\ status = [t \in Turns |-> "none"]
  /\ others = [t \in Turns |-> FALSE]
  /\ launched = {}
  /\ child = [t \in Turns |-> NoTurn]
  /\ chat_operations = {}
  /\ cancelled = {}
  /\ told = {}
  /\ overlapped = FALSE

Admitted == Queued \cup transcript

(* A turn is at work from its Bot message until finish() is through with it. *)
WorkPhases == {"created", "active", "delegating", "finishing", "refinishing", "finished",
               "counted", "flagged"}
AtWork(t) == phase[t] \in WorkPhases

(* The turns that nothing goes on with until the process starts again: start() was  *)
(* dropped or failed halfway, finish() failed and could not be repeated, or what    *)
(* start_next_queued had promoted was left there.                                   *)
LostPhases == {"failed_start", "stranded", "dropped"}
Lost(t) == phase[t] \in LostPhases

(* start() has returned to whoever called it. *)
StartReturned(t) == t \in launched \/ phase[t] \in {"done", "failed_start"}

Answer(h, reply) ==
  /\ step' = [step EXCEPT ![h] = "idle"]
  /\ key' = [key EXCEPT ![h] = NoKey]
  /\ fresh' = [fresh EXCEPT ![h] = FALSE]
  /\ saw' = [saw EXCEPT ![h] = FALSE]
  /\ job' = [job EXCEPT ![h] = NoTurn]
  /\ todo' = [todo EXCEPT ![h] = {}]
  /\ told' = IF reply = "error" THEN told ELSE told \cup ({key[h]} \cap Keys)

Move(t, next) ==
  /\ phase' = [phase EXCEPT ![t] = next]
  /\ UNCHANGED <<status, others, launched, child>>

(* create_bot_message: the streaming message and running = 1 in one transaction. *)
(* It asks neither whether the chat is already running nor for other turns.       *)
CreateBotMessage(t) ==
  /\ phase[t] = "unused"
  /\ message' = [message EXCEPT ![t] = "streaming"]
  /\ running' = TRUE
  /\ overlapped' = (overlapped \/ \E other \in Turns : AtWork(other))

-----------------------------------------------------------------------------
(* POST /messages *)

SendRead(h, k) ==
  /\ step[h] = "idle"
  /\ step' = [step EXCEPT ![h] = "claim"]
  /\ key' = [key EXCEPT ![h] = k]
  /\ saw' = [saw EXCEPT ![h] = running]
  /\ UNCHANGED <<durable, fresh, job, todo, turn_vars, chat_operations, cancelled,
                 told, overlapped>>

(* Faulty variant: an existing record is taken for a new one. *)
SendClaimBlindly(h) ==
  /\ step[h] = "claim"
  /\ claims' = claims \cup {key[h]}
  /\ step' = [step EXCEPT ![h] = "admit"]
  /\ fresh' = [fresh EXCEPT ![h] = TRUE]
  /\ UNCHANGED <<queue_vars, running, transcript, message, key, saw, job, todo,
                 turn_vars, chat_operations, cancelled, told, overlapped>>

SendClaim(h) ==
  /\ step[h] = "claim"
  /\ claims' = claims \cup {key[h]}
  /\ step' = [step EXCEPT ![h] = "admit"]
  /\ fresh' = [fresh EXCEPT ![h] = key[h] \notin claims]
  /\ UNCHANGED <<queue_vars, running, transcript, message, key, saw, job, todo,
                 turn_vars, chat_operations, cancelled, told, overlapped>>

(* A Skill, reference or attachment of the request does not resolve: the send *)
(* handler gives its claim back, so that a corrected retry can succeed.       *)
SendRefused(h) ==
  /\ step[h] = "admit"
  /\ fresh[h]
  /\ key[h] \notin SteerKeys
  /\ claims' = claims \ {key[h]}
  /\ Answer(h, "error")
  /\ UNCHANGED <<queue_vars, running, transcript, message, turn_vars,
                 chat_operations, cancelled, overlapped>>

(* Faulty variant: the refused insert goes unnoticed. *)
EnqueueUnchecked(h) ==
  /\ step[h] = "admit"
  /\ fresh[h]
  /\ saw[h]
  /\ IF running THEN InsertPrompt(key[h]) ELSE UNCHANGED queue_vars
  /\ Answer(h, "queued")
  /\ UNCHANGED <<claims, running, transcript, message, turn_vars, chat_operations,
                 cancelled, overlapped>>

(* enqueue_prompt rereads running inside its transaction.  When the chat has gone *)
(* idle since the handler read it, or an attachment or reference does not resolve, *)
(* the request fails with its claim kept.                                          *)
Enqueue(h) ==
  /\ step[h] = "admit"
  /\ fresh[h]
  /\ saw[h]
  /\ \/ running /\ InsertPrompt(key[h]) /\ Answer(h, "queued")
     \/ UNCHANGED queue_vars /\ Answer(h, "error")
  /\ UNCHANGED <<claims, running, transcript, message, turn_vars, chat_operations,
                 cancelled, overlapped>>

(* append_user_message, which does not look at running again.  The Skills of a *)
(* prompt are assembled before it, which enqueue_prompt does not ask for.      *)
AppendUserMessage(h) ==
  /\ step[h] = "admit"
  /\ fresh[h]
  /\ ~saw[h]
  /\ key[h] \notin Oversized
  /\ transcript' = transcript \cup {key[h]}
  /\ step' = [step EXCEPT ![h] = "start"]
  /\ UNCHANGED <<queue_vars, claims, running, message, key, fresh, saw, job, todo,
                 turn_vars, chat_operations, cancelled, told, overlapped>>

(* A repeated key is answered from the one place the fresh flag points at. *)
Replay(h) ==
  /\ step[h] = "admit"
  /\ ~fresh[h]
  /\ LET k == key[h]
     IN \/ saw[h] /\ Answer(h, IF k \in Queued THEN "queued" ELSE "error")
        \/ ~saw[h] /\ Answer(h, IF k \in transcript THEN "sent" ELSE "error")
  /\ UNCHANGED <<durable, turn_vars, chat_operations, cancelled, overlapped>>

(* start() finds no provider route, or fails before it creates the message. *)
StartNothing(h) ==
  /\ step[h] = "start"
  /\ \E reply \in {"sent", "error"} : Answer(h, reply)
  /\ UNCHANGED <<durable, turn_vars, chat_operations, cancelled, overlapped>>

StartTurn(h, t) ==
  /\ step[h] = "start"
  /\ CreateBotMessage(t)
  /\ Move(t, "created")
  /\ step' = [step EXCEPT ![h] = "starting"]
  /\ job' = [job EXCEPT ![h] = t]
  /\ UNCHANGED <<queue_vars, claims, transcript, key, fresh, saw, todo,
                 chat_operations, cancelled, told>>

StartTurnReturns(h) ==
  /\ step[h] = "starting"
  /\ StartReturned(job[h])
  /\ Answer(h, IF phase[job[h]] = "failed_start" THEN "error" ELSE "sent")
  /\ UNCHANGED <<durable, turn_vars, chat_operations, cancelled, overlapped>>

-----------------------------------------------------------------------------
(* POST /steer claims its key before it reads the chat, and never gives it back. *)

SteerClaim(h, k) ==
  /\ step[h] = "idle"
  /\ claims' = claims \cup {k}
  /\ step' = [step EXCEPT ![h] = "read"]
  /\ key' = [key EXCEPT ![h] = k]
  /\ fresh' = [fresh EXCEPT ![h] = k \notin claims]
  /\ UNCHANGED <<queue_vars, running, transcript, message, saw, job, todo,
                 turn_vars, chat_operations, cancelled, told, overlapped>>

SteerRead(h) ==
  /\ step[h] = "read"
  /\ running
  /\ step' = [step EXCEPT ![h] = "admit"]
  /\ saw' = [saw EXCEPT ![h] = TRUE]
  /\ UNCHANGED <<durable, key, fresh, job, todo, turn_vars, chat_operations,
                 cancelled, told, overlapped>>

SteerRefused(h) ==
  /\ step[h] = "read"
  /\ ~running \/ fresh[h]
  /\ Answer(h, "error")
  /\ UNCHANGED <<durable, turn_vars, chat_operations, cancelled, overlapped>>

-----------------------------------------------------------------------------
(* POST /stop and POST /messages/{id}/retry *)

StopBegin(h) ==
  /\ step[h] = "idle"
  /\ step' = [step EXCEPT ![h] = "cancel"]
  /\ todo' = [todo EXCEPT ![h] = chat_operations]
  /\ UNCHANGED <<durable, key, fresh, saw, job, turn_vars, chat_operations,
                 cancelled, told, overlapped>>

(* Faulty variant: an operation that has ended is marked as cancelled, too. *)
StopCancelEnded(h, t) ==
  /\ step[h] = "cancel"
  /\ t \in todo[h]
  /\ cancelled' = cancelled \cup {t}
  /\ todo' = [todo EXCEPT ![h] = @ \ {t}]
  /\ UNCHANGED <<durable, step, key, fresh, saw, job, turn_vars, chat_operations,
                 told, overlapped>>

(* One operation of the snapshot: its provider accepts the cancellation, or the *)
(* operation has left chat_operations by itself.                                *)
StopCancel(h, t) ==
  /\ step[h] = "cancel"
  /\ t \in todo[h]
  /\ cancelled' = IF t \in chat_operations THEN cancelled \cup {t} ELSE cancelled
  /\ todo' = [todo EXCEPT ![h] = @ \ {t}]
  /\ UNCHANGED <<durable, step, key, fresh, saw, job, turn_vars, chat_operations,
                 told, overlapped>>

(* The provider refuses and the operation outlives the hundred waits. *)
StopFails(h) ==
  /\ step[h] = "cancel"
  /\ todo[h] \cap chat_operations # {}
  /\ Answer(h, "error")
  /\ UNCHANGED <<durable, turn_vars, chat_operations, cancelled, overlapped>>

StopClears(h) ==
  /\ step[h] = "cancel"
  /\ todo[h] = {}
  /\ running' = FALSE
  /\ Answer(h, "sent")
  /\ UNCHANGED <<queue_vars, claims, transcript, message, turn_vars,
                 chat_operations, cancelled, overlapped>>

RetryRead(h) ==
  /\ step[h] = "idle"
  /\ ~running
  /\ \E t \in Turns : message[t] = "failed"
  /\ step' = [step EXCEPT ![h] = "start"]
  /\ UNCHANGED <<durable, key, fresh, saw, job, todo, turn_vars, chat_operations,
                 cancelled, told, overlapped>>

-----------------------------------------------------------------------------
(* The second half of start(), and consume() *)

(* The provider accepts the run; only now is the turn entered in chat_operations. *)
Launch(t) ==
  /\ phase[t] = "created"
  /\ phase' = [phase EXCEPT ![t] = "active"]
  /\ launched' = launched \cup {t}
  /\ chat_operations' = chat_operations \cup {t}
  /\ UNCHANGED <<durable, handler_vars, status, others, child, cancelled, told,
                 overlapped>>

(* The checkpoint or the provider fails: finish_failed_start. *)
LaunchFails(t) ==
  /\ phase[t] = "created"
  /\ phase' = [phase EXCEPT ![t] = "finishing"]
  /\ status' = [status EXCEPT ![t] = "failed"]
  /\ UNCHANGED <<durable, handler_vars, others, launched, child, chat_operations,
                 cancelled, told, overlapped>>

(* The event cannot be stored or the working directory cannot be made: start() *)
(* returns early with ? and nobody finishes the message.                       *)
LaunchAborts(t) ==
  /\ Faults
  /\ phase[t] = "created"
  /\ Move(t, "failed_start")
  /\ UNCHANGED <<durable, handler_vars, chat_operations, cancelled, told,
                 overlapped>>

(* The homebot_message_bot tool starts a teammate's turn in the same chat and *)
(* waits for its start() to return.                                           *)
Delegate(t, u) ==
  /\ phase[t] = "active"
  /\ CreateBotMessage(u)
  /\ phase' = [phase EXCEPT ![t] = "delegating", ![u] = "created"]
  /\ child' = [child EXCEPT ![t] = u]
  /\ UNCHANGED <<queue_vars, claims, transcript, handler_vars, status, others,
                 launched, chat_operations, cancelled, told>>

(* Faulty variant: a teammate that fails to start is waited for. *)
DelegateReturnsIfLaunched(t) ==
  /\ phase[t] = "delegating"
  /\ child[t] \in launched
  /\ phase' = [phase EXCEPT ![t] = "active"]
  /\ child' = [child EXCEPT ![t] = NoTurn]
  /\ UNCHANGED <<durable, handler_vars, status, others, launched, chat_operations,
                 cancelled, told, overlapped>>

DelegateReturns(t) ==
  /\ phase[t] = "delegating"
  /\ StartReturned(child[t])
  /\ phase' = [phase EXCEPT ![t] = "active"]
  /\ child' = [child EXCEPT ![t] = NoTurn]
  /\ UNCHANGED <<durable, handler_vars, status, others, launched, chat_operations,
                 cancelled, told, overlapped>>

(* The terminal event of the provider; a stream that ends without one counts as *)
(* a failure, and so does a turn whose workspace cannot be checkpointed.        *)
Terminal(t) ==
  /\ phase[t] = "active"
  /\ phase' = [phase EXCEPT ![t] = "finishing"]
  /\ \E end \in TerminalStatus :
       (end = "cancelled" => t \in cancelled) /\ status' = [status EXCEPT ![t] = end]
  /\ UNCHANGED <<durable, handler_vars, others, launched, child, chat_operations,
                 cancelled, told, overlapped>>

-----------------------------------------------------------------------------
(* finish() and start_next_queued() *)

(* finish_bot_message, in the first finish() or in the one that the task of the turn *)
(* calls when that failed: only a streaming message takes a status.                  *)
FinishMessage(t) ==
  /\ phase[t] \in {"finishing", "refinishing"}
  /\ message[t] = "streaming"
  /\ message' = [message EXCEPT ![t] = status[t]]
  /\ Move(t, "finished")
  /\ UNCHANGED <<queue_vars, claims, running, transcript, handler_vars,
                 chat_operations, cancelled, told, overlapped>>

(* A call of finish() fails, before its message has ended or after it.  The finish()   *)
(* of a failed start returns the error to whoever awaits start().  The task of a turn  *)
(* that was launched calls finish() once more, to fail the turn, and gives up if that  *)
(* fails, too: the turn stays in chat_operations.                                      *)
FinishFails(t) ==
  /\ Faults
  /\ phase[t] \in {"finishing", "refinishing", "finished", "counted", "flagged"}
  /\ phase' = [phase EXCEPT ![t] = IF t \notin launched THEN "failed_start"
                                   ELSE IF @ = "refinishing" THEN "stranded"
                                   ELSE "refinishing"]
  /\ status' = [status EXCEPT ![t] = "failed"]
  /\ others' = [others EXCEPT ![t] = FALSE]
  /\ UNCHANGED <<durable, handler_vars, launched, child, chat_operations, cancelled,
                 told, overlapped>>

(* The message had ended before the first finish() failed: MessageNotFound. *)
FinishRefused(t) ==
  /\ phase[t] = "refinishing"
  /\ message[t] # "streaming"
  /\ Move(t, "stranded")
  /\ UNCHANGED <<durable, handler_vars, chat_operations, cancelled, told, overlapped>>

(* direct_still_running is computed under the lock and used after it is released. *)
CountOthers(t) ==
  /\ phase[t] = "finished"
  /\ phase' = [phase EXCEPT ![t] = "counted"]
  /\ others' = [others EXCEPT ![t] = chat_operations \ {t} # {}]
  /\ UNCHANGED <<durable, handler_vars, status, launched, child, chat_operations,
                 cancelled, told, overlapped>>

SetRunning(t) ==
  /\ phase[t] = "counted"
  /\ running' = others[t]
  /\ Move(t, "flagged")
  /\ UNCHANGED <<queue_vars, claims, transcript, message, handler_vars,
                 chat_operations, cancelled, told, overlapped>>

(* Faulty variant: the test for other turns is inverted. *)
DeregisterAndStop(t) ==
  /\ phase[t] = "flagged"
  /\ chat_operations' = chat_operations \ {t}
  /\ cancelled' = cancelled \ {t}
  /\ phase' = [phase EXCEPT ![t] = IF status[t] = "completed" /\ others[t]
                                     THEN "draining" ELSE "done"]
  /\ others' = [others EXCEPT ![t] = FALSE]
  /\ UNCHANGED <<durable, handler_vars, status, launched, child, told,
                 overlapped>>

Deregister(t) ==
  /\ phase[t] = "flagged"
  /\ chat_operations' = chat_operations \ {t}
  /\ cancelled' = cancelled \ {t}
  /\ phase' = [phase EXCEPT ![t] = IF status[t] = "completed" /\ ~others[t]
                                     THEN "draining" ELSE "done"]
  /\ others' = [others EXCEPT ![t] = FALSE]
  /\ UNCHANGED <<durable, handler_vars, status, launched, child, told,
                 overlapped>>

(* promote_next_queued_prompt, one transaction: the head of the queue becomes a *)
(* message and the chat is reserved as running.  If then its Skills cannot be   *)
(* assembled, start_next_queued returns early and the reservation stays.        *)
PromoteNext(t) ==
  /\ phase[t] = "draining"
  /\ ~running
  /\ \E k \in Keys : /\ TakePrompt(k)
                     /\ transcript' = transcript \cup {k}
                     /\ Move(t, IF k \in Oversized THEN "dropped" ELSE "promoted")
  /\ running' = TRUE
  /\ UNCHANGED <<claims, message, handler_vars, chat_operations, cancelled, told,
                 overlapped>>

NothingToPromote(t) ==
  /\ phase[t] = "draining"
  /\ running \/ queued_count = 0 \/ Faults
  /\ Move(t, "done")
  /\ UNCHANGED <<durable, handler_vars, chat_operations, cancelled, told,
                 overlapped>>

(* A read or a publication on the way to start(), or the storing of the cleared flag, *)
(* fails: start_next_queued returns early, and the reservation stays.                 *)
PromotionDropped(t) ==
  /\ Faults
  /\ phase[t] \in {"promoted", "unflag"}
  /\ Move(t, "dropped")
  /\ UNCHANGED <<durable, handler_vars, chat_operations, cancelled, told,
                 overlapped>>

StartPromoted(t, u) ==
  /\ phase[t] = "promoted"
  /\ CreateBotMessage(u)
  /\ phase' = [phase EXCEPT ![t] = "promoting", ![u] = "created"]
  /\ child' = [child EXCEPT ![t] = u]
  /\ UNCHANGED <<queue_vars, claims, transcript, handler_vars, status, others,
                 launched, chat_operations, cancelled, told>>

(* Faulty variant: the reservation is forgotten. *)
StartPromotedNothingKeptReserved(t) ==
  /\ phase[t] = "promoted"
  /\ Move(t, "done")
  /\ UNCHANGED <<durable, handler_vars, chat_operations, cancelled, told,
                 overlapped>>

StartPromotedNothing(t) ==
  /\ phase[t] = "promoted"
  /\ Move(t, "unflag")
  /\ UNCHANGED <<durable, handler_vars, chat_operations, cancelled, told,
                 overlapped>>

StartPromotedReturns(t) ==
  /\ phase[t] = "promoting"
  /\ StartReturned(child[t])
  /\ phase' = [phase EXCEPT ![t] = IF phase[child[t]] = "failed_start" THEN "unflag"
                                                                   ELSE "done"]
  /\ child' = [child EXCEPT ![t] = NoTurn]
  /\ UNCHANGED <<durable, handler_vars, status, others, launched, chat_operations,
                 cancelled, told, overlapped>>

(* A promoted prompt whose turn did not start gives the reservation back. *)
ClearReservation(t) ==
  /\ phase[t] = "unflag"
  /\ running' = FALSE
  /\ Move(t, "done")
  /\ UNCHANGED <<queue_vars, claims, transcript, message, handler_vars,
                 chat_operations, cancelled, told, overlapped>>

-----------------------------------------------------------------------------
(* The client goes away, and axum drops the future of its request at the await it *)
(* has reached, together with the start() it runs; or a call of the request fails  *)
(* there, which ends it with an error.                                             *)
HangUp(h) ==
  /\ Faults
  /\ step[h] # "idle"
  /\ step' = [step EXCEPT ![h] = "idle"]
  /\ key' = [key EXCEPT ![h] = NoKey]
  /\ fresh' = [fresh EXCEPT ![h] = FALSE]
  /\ saw' = [saw EXCEPT ![h] = FALSE]
  /\ job' = [job EXCEPT ![h] = NoTurn]
  /\ todo' = [todo EXCEPT ![h] = {}]
  /\ phase' = [t \in Turns |->
                 IF t = job[h] /\ AtWork(t) /\ t \notin launched THEN "failed_start"
                                                               ELSE phase[t]]
  /\ UNCHANGED <<durable, status, others, launched, child, chat_operations, cancelled,
                 told, overlapped>>

(* The process dies and starts again: recover_interrupted_chat_turns runs *)
(* before the first request is served.                                    *)
ForgetProcess ==
  /\ step' = [h \in Handlers |-> "idle"]
  /\ key' = [h \in Handlers |-> NoKey]
  /\ fresh' = [h \in Handlers |-> FALSE]
  /\ saw' = [h \in Handlers |-> FALSE]
  /\ job' = [h \in Handlers |-> NoTurn]
  /\ todo' = [h \in Handlers |-> {}]
  /\ phase' = [t \in Turns |-> IF phase[t] = "unused" THEN "unused" ELSE "done"]
  /\ status' = [t \in Turns |-> "none"]
  /\ others' = [t \in Turns |-> FALSE]
  /\ launched' = {}
  /\ child' = [t \in Turns |-> NoTurn]
  /\ chat_operations' = {}
  /\ cancelled' = {}

(* Faulty variant: no WHERE status = 'streaming'. *)
RestartFailingEveryMessage ==
  /\ message' = [t \in Turns |-> IF message[t] = "none" THEN "none" ELSE "failed"]
  /\ running' = FALSE
  /\ overlapped' = FALSE
  /\ ForgetProcess
  /\ UNCHANGED <<queue_vars, claims, transcript, told>>

(* Faulty variant: messages are not recovered. *)
RestartFlagOnly ==
  /\ running' = FALSE
  /\ overlapped' = FALSE
  /\ ForgetProcess
  /\ UNCHANGED <<queue_vars, claims, transcript, message, told>>

Restart ==
  /\ message' = [t \in Turns |-> IF message[t] = "streaming" THEN "failed" ELSE message[t]]
  /\ running' = FALSE
  /\ overlapped' = FALSE
  /\ ForgetProcess
  /\ UNCHANGED <<queue_vars, claims, transcript, told>>

HandlerStep(h) ==
  \/ SendClaim(h) \/ SendRefused(h) \/ Enqueue(h) \/ AppendUserMessage(h) \/ Replay(h)
  \/ StartNothing(h) \/ StartTurnReturns(h)
  \/ SteerRead(h) \/ SteerRefused(h)
  \/ StopFails(h) \/ StopClears(h)
  \/ \E t \in Turns : StartTurn(h, t) \/ StopCancel(h, t)

Request(h) ==
  \/ \E k \in Keys \ SteerKeys : SendRead(h, k)
  \/ \E k \in SteerKeys : SteerClaim(h, k)
  \/ StopBegin(h)
  \/ RetryRead(h)

TurnStep(t) ==
  \/ Launch(t) \/ LaunchFails(t) \/ LaunchAborts(t)
  \/ DelegateReturns(t) \/ Terminal(t)
  \/ FinishMessage(t) \/ FinishFails(t) \/ FinishRefused(t)
  \/ CountOthers(t) \/ SetRunning(t) \/ Deregister(t)
  \/ PromoteNext(t) \/ NothingToPromote(t) \/ PromotionDropped(t)
  \/ StartPromotedNothing(t) \/ StartPromotedReturns(t) \/ ClearReservation(t)
  \/ \E u \in Turns : StartPromoted(t, u)

Next ==
  \/ \E h \in Handlers : Request(h) \/ HandlerStep(h) \/ HangUp(h)
  \/ \E t \in Turns : TurnStep(t) \/ \E u \in Turns : Delegate(t, u)
  \/ Restart

Spec == Init /\ [][Next]_vars

(* Every spawned task, and every request whose client stays, is polled to its *)
(* end by the runtime, and a provider run ends.  Clients, the tool call that  *)
(* delegates and the process's death owe nothing.                             *)
FairSpec ==
  /\ Spec
  /\ \A h \in Handlers : WF_vars(HandlerStep(h))
  /\ \A t \in Turns : WF_vars(TurnStep(t))

-----------------------------------------------------------------------------
(* Properties *)

(* A prompt is in the queue or in the transcript, never in both, and every one *)
(* of them holds its claim: the idempotency record, written in a transaction of *)
(* its own, is what keeps a repeated, concurrent or restarted request for the   *)
(* same key from admitting its prompt a second time.                            *)
AdmittedOnce ==
  /\ Queued \cap transcript = {}
  /\ Admitted \subseteq claims

(* A client that was told "sent" or "queued" finds its prompt in the durable *)
(* queue or transcript ever after, through stops, failures and restarts.     *)
AnswerIsDurable == told \subseteq Admitted

(* The Bot message of a live turn streams until finish() ends it, and no other does: *)
(* none is left streaming after finish(), a refused run or a restart.  Only a start() *)
(* that failed halfway, or a finish() that failed twice, may leave one behind.        *)
StreamingHasTurn ==
  \A t \in Turns :
    /\ phase[t] \in {"created", "active", "delegating", "finishing"} => message[t] = "streaming"
    /\ message[t] = "streaming" =>
         phase[t] \in {"created", "active", "delegating", "finishing", "refinishing",
                      "failed_start", "stranded"}

(* A terminal Bot message keeps its status: finish() after a stop, a retry of the *)
(* failed message and the recovery at restart never rewrite it.                   *)
TerminalIsFinal ==
  [][\A t \in Turns : message[t] \in TerminalStatus => message'[t] = message[t]]_vars

(* A chat at rest is shown as running only if turns overlapped or one was lost since *)
(* the process started: whatever else requests, stops, delegation and promotion do,  *)
(* the next message starts a turn instead of waiting for one, and a restart puts     *)
(* right what overlaps and lost turns have left.                                     *)
AtRest ==
  /\ \A h \in Handlers : step[h] = "idle"
  /\ \A t \in Turns : phase[t] \in {"unused", "done"} \/ Lost(t)
SequentialTurnsClearRunning ==
  AtRest /\ running => overlapped \/ \E t \in Turns : Lost(t)

(* The chat keeps the promise of ChatLedger. *)
Ledger == INSTANCE ChatLedger WITH line <- PromptOrder
LedgerPromise == Ledger!LedgerSpec

(* Every streaming Bot message reaches a terminal status. *)
StreamingEnds ==
  \A t \in Turns : message[t] = "streaming" ~> message[t] # "streaming"

(* A turn that completes hands the chat on: the prompt that was next in line   *)
(* when it began to finish leaves the queue, unless another turn is at work in *)
(* the chat by then or the server restarts on the way.                         *)
CompletionDrains ==
  \A t \in Turns, k \in Keys :
    (phase[t] = "finishing" /\ status[t] = "completed" /\ IsNextPrompt(k))
      ~> (k \notin Queued \/ status[t] = "none" \/ \E u \in Turns \ {t} : AtWork(u))
-----------------------------------------------------------------------------
(* What the documentation and the comments say, and the code does not keep *)

(* docs/chats.md: completion, cancellation and failure clear the authoritative *)
(* chat-running flag, so a chat in which nothing is going on is not running.   *)
AtRestNotRunning == AtRest => ~running

(* promote_next_queued_prompt: the chat is reserved as running in the same      *)
(* transaction, so a concurrent send queues behind the promoted prompt instead  *)
(* of starting a second provider turn.                                          *)
PromotionReservesChat ==
  [][\A h \in Handlers, t \in Turns :
       StartTurn(h, t) /\ key[h] \in Keys =>
         \A p \in Turns : phase[p] \notin {"promoted", "promoting"}]_vars

(* docs/chats.md: stop is routed to the adapter that owns the active operation: *)
(* the operations a stop sets out to cancel include every turn whose Bot message *)
(* is streaming.                                                                 *)
StopReachesTurns ==
  [][\A h \in Handlers :
       StopBegin(h) => {t \in Turns : message[t] = "streaming"} \subseteq todo'[h]]_vars

(* docs/protocol.md: repeating the same key and the same command returns the    *)
(* prior result, so a repeated request for an admitted prompt tells the client  *)
(* that it was sent or queued, and not that it failed.                          *)
ReplayAnswersPriorResult ==
  [][\A h \in Handlers : Replay(h) /\ key[h] \in Admitted => key[h] \in told']_vars
=============================================================================
