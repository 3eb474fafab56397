---------------------------- MODULE QueuedPrompts ----------------------------
(***************************************************************************)
(* The queued_prompts table of one direct chat and the chats.queued_count  *)
(* column beside it (crates/homebot-storage/src/lib.rs).                   *)
(*                                                                         *)
(* A prompt is identified by the idempotency key of the request that made  *)
(* it, because enqueue_prompt stores that key as the row's id.  A prompt's *)
(* kind is fixed by its request: the steer endpoint makes the keys of      *)
(* SteerKeys, the message endpoint all others.  Content, attachments and   *)
(* Skill versions are carried along unchanged and are left out.            *)
(***************************************************************************)
EXTENDS Integers, FiniteSets

CONSTANTS Keys,       (* idempotency keys of the requests that carry a prompt *)
          SteerKeys   (* those sent to the steer endpoint                     *)

ASSUME KeysAssumption == IsFiniteSet(Keys) /\ SteerKeys \subseteq Keys

VARIABLES position,     (* queued_prompts.position per key, Absent without a row *)
          queued_count  (* chats.queued_count                                   *)

queue_vars == <<position, queued_count>>

Absent == -1

Queued == {k \in Keys : position[k] # Absent}
QueuedSteering == Queued \cap SteerKeys

QueueTypeOK ==
  /\ position \in [Keys -> Nat \cup {Absent}]
  /\ queued_count \in Nat

QueueInit ==
  /\ position = [k \in Keys |-> Absent]
  /\ queued_count = 0

-----------------------------------------------------------------------------
(* COALESCE(max(position) + 1, 0): the slot behind every queued prompt. *)
FollowUpPosition ==
  IF Queued = {} THEN 0
  ELSE 1 + CHOOSE last \in {position[k] : k \in Queued} :
             \A k \in Queued : position[k] <= last

(* The slot behind the steering prompts, found by counting them. *)
SteeringPosition == Cardinality(QueuedSteering)

(* Faulty variant: only the row in the way moves. *)
ShiftedOnlyAt(slot) ==
  [k \in Keys |-> IF position[k] = slot THEN position[k] + 1 ELSE position[k]]

(* Making room: every row from `slot` on moves back by one.  The code moves *)
(* them out by queued_count + 1 and back by queued_count, so that no two    *)
(* rows share a position on the way; the transaction shows only the sum.    *)
ShiftedFrom(slot) ==
  [k \in Keys |-> IF position[k] >= slot THEN position[k] + 1 ELSE position[k]]

(* The transaction of enqueue_prompt once the chat is known to be running. *)
InsertPrompt(k) ==
  /\ position' = IF k \in SteerKeys
                   THEN [ShiftedFrom(SteeringPosition) EXCEPT ![k] = SteeringPosition]
                   ELSE [position EXCEPT ![k] = FollowUpPosition]
  /\ queued_count' = queued_count + 1

(* The row that ORDER BY position LIMIT 1 returns. *)
IsNextPrompt(k) ==
  /\ k \in Queued
  /\ \A other \in Queued : position[k] <= position[other]

(* Faulty variant: the rows behind keep their positions. *)
TakePromptLeavingGap(k) ==
  /\ queued_count > 0
  /\ IsNextPrompt(k)
  /\ position' = [position EXCEPT ![k] = Absent]
  /\ queued_count' = queued_count - 1

(* Faulty variant: no ORDER BY. *)
TakeAnyPrompt(k) ==
  /\ queued_count > 0
  /\ k \in Queued
  /\ position' = [j \in Keys |-> IF j = k THEN Absent
                                ELSE IF position[j] > position[k] THEN position[j] - 1
                                ELSE position[j]]
  /\ queued_count' = queued_count - 1

(* The queue's share of promote_next_queued_prompt: the row is deleted and  *)
(* the rows behind it close the gap.                                        *)
TakePrompt(k) ==
  /\ queued_count > 0
  /\ IsNextPrompt(k)
  /\ position' = [j \in Keys |-> CASE j = k -> Absent
                                   [] j # k /\ position[j] > position[k] -> position[j] - 1
                                   [] OTHER -> position[j]]
  /\ queued_count' = queued_count - 1

-----------------------------------------------------------------------------
(* The queue alone: prompts arrive and are promoted in any order of events. *)
QueueNext ==
  \E k \in Keys : (k \notin Queued /\ InsertPrompt(k)) \/ TakePrompt(k)

QueueSpec == QueueInit /\ [][QueueNext]_queue_vars

(* The queue as the timeline shows it: prompts in order of position. *)
PromptAt(slot) == CHOOSE k \in Queued : position[k] = slot
PromptOrder == [i \in 1 .. Cardinality(Queued) |-> PromptAt(i - 1)]

-----------------------------------------------------------------------------
(* The positions of a chat's rows are exactly 0 .. queued_count - 1, each   *)
(* held by one row, and queued_count, which promotion tests instead of the  *)
(* rows, is the number of rows.                                             *)
PositionsContiguous ==
  /\ queued_count = Cardinality(Queued)
  /\ {position[k] : k \in Queued} = 0 .. queued_count - 1
  /\ \A j, k \in Queued : position[j] = position[k] => j = k

(* Steering runs ahead of every ordinary follow-up: the steering rows hold  *)
(* exactly the positions below their number.                                *)
SteeringFirst ==
  \A k \in Queued : k \in SteerKeys <=> position[k] < SteeringPosition

(* Two waiting prompts never change places, whatever is inserted or taken:  *)
(* enqueue_prompt and promotion renumber rows but reorder none.             *)
OrderKept ==
  [][\A j, k \in Queued :
       /\ position[j] < position[k] /\ position'[j] # Absent /\ position'[k] # Absent
       => position'[j] < position'[k]]_queue_vars
=============================================================================
