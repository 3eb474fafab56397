-------------------------- MODULE ChatTurnsProofs --------------------------
(***************************************************************************)
(* Theorems about ChatTurns, and about the QueuedPrompts it extends, for   *)
(* every number of keys, requests and turns.  First the queue alone: its   *)
(* positions stay contiguous, steering stays ahead of follow-ups, and no   *)
(* insertion or promotion lets two waiting prompts change places.  Then    *)
(* the chat, whose inductive invariant has three more parts that are       *)
(* proved one after the other: types, the admission of prompts, and the    *)
(* life of turns.  Last, the chat implements ChatLedger.                   *)
(***************************************************************************)
EXTENDS ChatTurns, Sequences, FiniteSetTheorems, TLAPS

-----------------------------------------------------------------------------
(* The rows of the queue *)

(* Contiguity and the steering prefix need each other: the slot of a new    *)
(* steering prompt is found by counting, and the count is a position only   *)
(* because the steering rows fill the positions below it.                   *)
QueueInv == QueueTypeOK /\ PositionsContiguous /\ SteeringFirst

(* Queued prompts and queued steering prompts can be counted. *)
LEMMA QueuedFinite ==
  /\ IsFiniteSet(Queued) /\ Cardinality(Queued) \in Nat
  /\ IsFiniteSet(QueuedSteering) /\ Cardinality(QueuedSteering) \in Nat
  /\ Cardinality(QueuedSteering) <= Cardinality(Queued)
<1>1. Queued \in SUBSET Keys /\ QueuedSteering \in SUBSET Queued
  BY DEF Queued, QueuedSteering
<1>2. IsFiniteSet(Queued)
  BY <1>1, KeysAssumption, FS_Subset
<1>3. IsFiniteSet(QueuedSteering) /\ Cardinality(QueuedSteering) <= Cardinality(Queued)
  BY <1>1, <1>2, FS_Subset
<1>4. QED
  BY <1>2, <1>3, FS_CardinalityType

(* What the invariant says row by row. *)
LEMMA RowsOfInv ==
  ASSUME QueueInv
  PROVE  /\ \A k \in Queued : position[k] \in 0 .. queued_count - 1
         /\ \A i \in 0 .. queued_count - 1 : \E k \in Queued : position[k] = i
         /\ \A k \in Keys : k \notin Queued => position[k] = Absent
BY DEF QueueInv, PositionsContiguous, Queued

(* max(position) + 1 is the number of rows. *)
LEMMA FollowUpGoesLast ==
  ASSUME QueueInv
  PROVE  FollowUpPosition = queued_count
<1> DEFINE Positions == {position[k] : k \in Queued}
<1>1. CASE Queued = {}
  BY <1>1, FS_EmptySet DEF FollowUpPosition, QueueInv, PositionsContiguous
<1>2. CASE Queued # {}
  <2>1. queued_count \in Nat /\ queued_count - 1 \in Positions
        /\ \A k \in Queued : position[k] \in 0 .. queued_count - 1
    BY <1>2, RowsOfInv DEF QueueInv, QueueTypeOK
  <2> DEFINE IsLast(last) == last \in Positions /\ \A k \in Queued : position[k] <= last
  <2>2. IsLast(queued_count - 1)
    BY <2>1
  <2>3. \A last : IsLast(last) => last = queued_count - 1
    BY <2>1
  <2>4. (CHOOSE last \in Positions : \A k \in Queued : position[k] <= last) = queued_count - 1
    BY <2>2, <2>3
  <2>5. QED
    BY <1>2, <2>1, <2>4 DEF FollowUpPosition
<1>3. QED
  BY <1>1, <1>2

(* Inserting a new prompt keeps the invariant and every order. *)
LEMMA InsertKeepsInv ==
  ASSUME QueueInv, NEW k \in Keys, k \notin Queued, InsertPrompt(k)
  PROVE  QueueInv' /\ Queued' = Queued \cup {k}
<1> DEFINE n == queued_count
           s == Cardinality(QueuedSteering)
<1>1. n \in Nat /\ s \in Nat /\ s <= n /\ n = Cardinality(Queued) /\ IsFiniteSet(Queued)
      /\ IsFiniteSet(QueuedSteering)
  BY QueuedFinite DEF QueueInv, QueueTypeOK, PositionsContiguous
<1>2. position \in [Keys -> Nat \cup {-1}] /\ position[k] = -1
  BY DEF QueueInv, QueueTypeOK, Queued, Absent
<1>0. /\ Queued \subseteq Keys
      /\ \A j \in Queued : position[j] \in 0 .. n - 1
      /\ \A i \in 0 .. n - 1 : \E j \in Queued : position[j] = i
  BY RowsOfInv DEF Queued
<1>3. n' = n + 1
  BY DEF InsertPrompt
<1>4. CASE k \in SteerKeys
  <2>1. position' = [j \in Keys |-> IF j = k THEN s
                                    ELSE IF position[j] >= s THEN position[j] + 1
                                    ELSE position[j]]
    BY <1>4, <1>2 DEF InsertPrompt, ShiftedFrom, SteeringPosition
  <2> HIDE DEF s
  <2>2. position' \in [Keys -> Nat \cup {-1}]
    BY <1>1, <1>2, <2>1
  <2>3. Queued' = Queued \cup {k}
    BY <1>1, <1>2, <2>1 DEF Queued, Absent
  <2>4. QueuedSteering' = QueuedSteering \cup {k} /\ k \notin QueuedSteering
    BY <1>4, <2>3 DEF QueuedSteering
  <2>5. Cardinality(Queued') = n + 1 /\ Cardinality(QueuedSteering') = s + 1
    BY <1>1, <2>3, <2>4, FS_AddElement DEF s
  <2>6. PositionsContiguous'
    <3>1. {position'[j] : j \in Queued'} = 0 .. n
      <4>1. \A j \in Queued' : position'[j] \in 0 .. n
        BY <1>1, <1>0, <2>1, <2>3
      <4>2. ASSUME NEW i \in 0 .. n PROVE \E j \in Queued' : position'[j] = i
        <5>1. CASE i < s
          <6>1. PICK j \in Queued : position[j] = i
            BY <5>1, <1>1, <1>0
          <6>2. j \in Keys /\ j # k
            BY DEF Queued
          <6>3. QED
            BY <5>1, <6>1, <6>2, <2>1, <2>3, <1>1
        <5>2. CASE i = s
          BY <5>2, <2>1, <2>3
        <5>3. CASE i > s
          <6>1. i - 1 \in 0 .. n - 1 /\ i - 1 >= s
            BY <5>3, <1>1
          <6>2. PICK j \in Queued : position[j] = i - 1
            BY <6>1, <1>0
          <6>3. j \in Keys /\ j # k
            BY DEF Queued
          <6>4. QED
            BY <6>1, <6>2, <6>3, <2>1, <2>3, <1>1
        <5>4. QED
          BY <5>1, <5>2, <5>3, <1>1
      <4>3. QED
        BY <4>1, <4>2
    <3>2. \A i, j \in Queued' : position'[i] = position'[j] => i = j
      <4>1. \A i, j \in Queued : position[i] = position[j] => i = j
        BY DEF QueueInv, PositionsContiguous
      <4>2. QED
        BY <4>1, <1>1, <1>0, <2>1, <2>3
    <3>3. QED
      BY <3>1, <3>2, <2>5, <1>1, <1>3 DEF PositionsContiguous
  <2>7. SteeringFirst'
    <3>1. \A j \in Queued : j \in SteerKeys <=> position[j] < s
      BY DEF QueueInv, SteeringFirst, SteeringPosition, s
    <3>2. \A j \in Queued' : j \in SteerKeys <=> position'[j] < s + 1
      BY <3>1, <1>1, <1>4, <1>0, <2>1, <2>3
    <3>3. QED
      BY <3>2, <2>5 DEF SteeringFirst, SteeringPosition
  <2>8. QED
    BY <1>1, <1>3, <2>2, <2>3, <2>6, <2>7 DEF QueueInv, QueueTypeOK, Absent
<1>5. CASE k \notin SteerKeys
  <2>1. position' = [j \in Keys |-> IF j = k THEN n ELSE position[j]]
    BY <1>5, <1>2, FollowUpGoesLast DEF InsertPrompt
  <2> HIDE DEF s
  <2>2. position' \in [Keys -> Nat \cup {-1}]
    BY <1>1, <1>2, <2>1
  <2>3. Queued' = Queued \cup {k}
    BY <1>1, <1>2, <2>1 DEF Queued, Absent
  <2>4. QueuedSteering' = QueuedSteering
    BY <1>5, <2>3 DEF QueuedSteering
  <2>5. Cardinality(Queued') = n + 1
    BY <1>1, <2>3, FS_AddElement
  <2>6. PositionsContiguous'
    <3>1. {position'[j] : j \in Queued'} = 0 .. n
      <4>1. \A j \in Queued' : position'[j] \in 0 .. n
        BY <1>1, <1>0, <2>1, <2>3
      <4>2. ASSUME NEW i \in 0 .. n PROVE \E j \in Queued' : position'[j] = i
        <5>1. CASE i < n
          <6>1. PICK j \in Queued : position[j] = i
            BY <5>1, <1>1, <1>0
          <6>2. j \in Keys /\ j # k
            BY DEF Queued
          <6>3. QED
            BY <6>1, <6>2, <2>1, <2>3
        <5>2. CASE i = n
          BY <5>2, <2>1, <2>3
        <5>3. QED
          BY <5>1, <5>2, <1>1
      <4>3. QED
        BY <4>1, <4>2
    <3>2. \A i, j \in Queued' : position'[i] = position'[j] => i = j
      <4>1. \A i, j \in Queued : position[i] = position[j] => i = j
        BY DEF QueueInv, PositionsContiguous
      <4>2. QED
        BY <4>1, <1>1, <1>0, <2>1, <2>3
    <3>3. QED
      BY <3>1, <3>2, <2>5, <1>1, <1>3 DEF PositionsContiguous
  <2>7. SteeringFirst'
    <3>1. \A j \in Queued : j \in SteerKeys <=> position[j] < s
      BY DEF QueueInv, SteeringFirst, SteeringPosition, s
    <3>2. \A j \in Queued' : j \in SteerKeys <=> position'[j] < s
      BY <3>1, <1>1, <1>5, <1>0, <2>1, <2>3
    <3>3. QED
      BY <3>2, <2>4 DEF SteeringFirst, SteeringPosition, s
  <2>8. QED
    BY <1>1, <1>3, <2>2, <2>3, <2>6, <2>7 DEF QueueInv, QueueTypeOK, Absent
<1>6. QED
  BY <1>4, <1>5

(* Taking the head keeps the invariant, and the head is the row at position 0. *)
LEMMA TakeKeepsInv ==
  ASSUME QueueInv, NEW k \in Keys, TakePrompt(k)
  PROVE  QueueInv' /\ k \in Queued /\ Queued' = Queued \ {k} /\ position[k] = 0
<1> DEFINE n == queued_count
           s == Cardinality(QueuedSteering)
<1>1. n \in Nat \ {0} /\ s \in Nat /\ s <= n /\ n = Cardinality(Queued) /\ IsFiniteSet(Queued)
      /\ IsFiniteSet(QueuedSteering)
  BY QueuedFinite DEF QueueInv, QueueTypeOK, PositionsContiguous, TakePrompt
<1>2. position \in [Keys -> Nat \cup {-1}]
  BY DEF QueueInv, QueueTypeOK, Absent
<1>3. /\ Queued \subseteq Keys
      /\ \A j \in Queued : position[j] \in 0 .. n - 1
      /\ \A i \in 0 .. n - 1 : \E j \in Queued : position[j] = i
      /\ \A j \in Keys : j \notin Queued => position[j] = -1
  BY RowsOfInv DEF Queued, Absent
<1>4. \A i, j \in Queued : position[i] = position[j] => i = j
  BY DEF QueueInv, PositionsContiguous
<1>5. k \in Queued /\ position[k] = 0 /\ n' = n - 1
  <2>1. k \in Queued /\ \A other \in Queued : position[k] <= position[other]
    BY DEF TakePrompt, IsNextPrompt
  <2>2. PICK head \in Queued : position[head] = 0
    BY <1>1, <1>3
  <2>3. QED
    BY <1>3, <2>1, <2>2 DEF TakePrompt
<1>6. position' = [j \in Keys |-> IF j = k THEN -1
                                  ELSE IF position[j] > 0 THEN position[j] - 1
                                  ELSE position[j]]
  BY <1>5 DEF TakePrompt, Absent
<1>7. position' \in [Keys -> Nat \cup {-1}]
  BY <1>2, <1>6
<1>8. Queued' = Queued \ {k}
  <2>1. \A j \in Keys : position'[j] # -1 <=> j \in Queued /\ j # k
    BY <1>2, <1>3, <1>6
  <2>2. QED
    BY <2>1, <1>3 DEF Queued, Absent
<1>9. \A j \in Queued' : j \in Queued /\ j # k /\ position[j] > 0 /\ position'[j] = position[j] - 1
  BY <1>3, <1>4, <1>5, <1>6, <1>8
<1>10. Cardinality(Queued') = n - 1
  BY <1>1, <1>5, <1>8, FS_RemoveElement
<1>11. PositionsContiguous'
  <2>1. {position'[j] : j \in Queued'} = 0 .. n - 2
    <3>1. \A j \in Queued' : position'[j] \in 0 .. n - 2
      BY <1>1, <1>3, <1>9
    <3>2. ASSUME NEW i \in 0 .. n - 2 PROVE \E j \in Queued' : position'[j] = i
      <4>1. i + 1 \in 0 .. n - 1
        BY <1>1
      <4>2. PICK j \in Queued : position[j] = i + 1
        BY <4>1, <1>3
      <4>3. QED
        BY <4>2, <1>5, <1>8, <1>9
    <3>3. QED
      BY <3>1, <3>2
  <2>2. \A i, j \in Queued' : position'[i] = position'[j] => i = j
    BY <1>3, <1>4, <1>9
  <2>3. n' - 1 = n - 2
    BY <1>1, <1>5
  <2>4. QED
    BY <2>1, <2>2, <2>3, <1>5, <1>10 DEF PositionsContiguous
<1>12. SteeringFirst'
  <2>1. \A j \in Queued : j \in SteerKeys <=> position[j] < s
    BY DEF QueueInv, SteeringFirst, SteeringPosition
  <2>2. Cardinality(QueuedSteering') = IF k \in SteerKeys THEN s - 1 ELSE s
    <3>1. QueuedSteering' = QueuedSteering \ {k} /\ (k \in SteerKeys <=> k \in QueuedSteering)
      BY <1>5, <1>8 DEF QueuedSteering
    <3>2. QED
      BY <3>1, <1>1, FS_RemoveElement
  <2> HIDE DEF s
  <2>3. \A j \in Queued' : j \in SteerKeys <=> position'[j] < Cardinality(QueuedSteering')
    <3>1. CASE k \in SteerKeys
      BY <3>1, <1>1, <1>3, <1>9, <2>1, <2>2
    <3>2. CASE k \notin SteerKeys
      <4>1. s = 0
        BY <3>2, <1>1, <1>5, <2>1
      <4>2. QED
        BY <3>2, <4>1, <1>3, <1>9, <2>1, <2>2
    <3>3. QED
      BY <3>1, <3>2
  <2>4. QED
    BY <2>3 DEF SteeringFirst, SteeringPosition
<1>13. QED
  BY <1>1, <1>5, <1>7, <1>8, <1>11, <1>12 DEF QueueInv, QueueTypeOK, Absent

(* An empty queue satisfies the invariant. *)
LEMMA EmptyQueue == QueueInit => QueueInv
<1> SUFFICES ASSUME QueueInit PROVE QueueInv
  OBVIOUS
<1>1. Queued = {} /\ QueueTypeOK
  BY DEF QueueInit, Queued, QueueTypeOK, Absent
<1>2. QED
  BY <1>1, FS_EmptySet DEF QueueInv, PositionsContiguous, SteeringFirst, QueueInit

(* A step that leaves the queue's rows alone keeps what is said about them. *)
LEMMA QueueUnchanged ==
  ASSUME QueueInv, UNCHANGED queue_vars
  PROVE  QueueInv' /\ Queued' = Queued
<1>1. Queued' = Queued /\ QueuedSteering' = QueuedSteering
  BY DEF queue_vars, Queued, QueuedSteering
<1>2. QED
  BY <1>1 DEF queue_vars, QueueInv, QueueTypeOK, PositionsContiguous, SteeringFirst,
              SteeringPosition

(* The queue keeps its invariant in every behaviour, so positions are contiguous, *)
(* queued_count is the number of rows and steering runs first.                    *)
THEOREM QueueCorrect == QueueSpec => [](PositionsContiguous /\ SteeringFirst)
<1>1. QueueInit => QueueInv
  BY EmptyQueue
<1>2. QueueInv /\ [QueueNext]_queue_vars => QueueInv'
  BY InsertKeepsInv, TakeKeepsInv, QueueUnchanged DEF QueueNext
<1>3. QueueInv => PositionsContiguous /\ SteeringFirst
  BY DEF QueueInv
<1>4. QED
  BY <1>1, <1>2, <1>3, PTL DEF QueueSpec

(* No insertion and no promotion lets two waiting prompts change places. *)
LEMMA StepKeepsOrder ==
  ASSUME QueueInv, [QueueNext]_queue_vars,
         NEW i \in Queued, NEW j \in Queued, position[i] < position[j],
         position'[i] # Absent, position'[j] # Absent
  PROVE  position'[i] < position'[j]
<1>1. /\ i \in Keys /\ j \in Keys /\ position[i] \in Nat /\ position[j] \in Nat
      /\ SteeringPosition \in Nat
  BY QueuedFinite, RowsOfInv DEF Queued, QueueInv, QueueTypeOK, SteeringPosition
<1>2. ASSUME NEW k \in Keys, k \notin Queued, InsertPrompt(k)
      PROVE  position'[i] < position'[j]
  <2>1. i # k /\ j # k
    BY <1>2
  <2>2. CASE k \in SteerKeys
    BY <1>1, <1>2, <2>1, <2>2 DEF InsertPrompt, ShiftedFrom
  <2>3. CASE k \notin SteerKeys
    BY <1>1, <1>2, <2>1, <2>3 DEF InsertPrompt, QueueInv, QueueTypeOK
  <2>4. QED
    BY <2>2, <2>3
<1>3. ASSUME NEW k \in Keys, TakePrompt(k)
      PROVE  position'[i] < position'[j]
  <2>1. position[k] = 0 /\ k \in Queued
    BY <1>3, TakeKeepsInv
  <2>2. i # k /\ j # k
    BY <1>1, <1>3 DEF TakePrompt, Absent
  <2>3. \A m \in {i, j} : position'[m] = IF position[m] > 0 THEN position[m] - 1 ELSE position[m]
    BY <1>1, <1>3, <2>1, <2>2 DEF TakePrompt
  <2>4. position[i] # 0
    BY <1>1, <2>1, <2>2 DEF QueueInv, PositionsContiguous
  <2>5. QED
    BY <1>1, <2>3, <2>4
<1>4. CASE UNCHANGED queue_vars
  BY <1>4 DEF queue_vars
<1>5. QED
  BY <1>2, <1>3, <1>4 DEF QueueNext

(* The renumbering of enqueue_prompt and of promotion reorders no waiting prompts. *)
THEOREM QueueOrderKept == QueueSpec => OrderKept
<1>1. QueueInv /\ [QueueNext]_queue_vars
      => [\A j, k \in Queued :
            /\ position[j] < position[k] /\ position'[j] # Absent /\ position'[k] # Absent
            => position'[j] < position'[k]]_queue_vars
  BY StepKeepsOrder
<1>2. QueueSpec => []QueueInv
  <2>1. QueueInv /\ [QueueNext]_queue_vars => QueueInv'
    BY InsertKeepsInv, TakeKeepsInv, QueueUnchanged DEF QueueNext
  <2>2. QED
    BY <2>1, EmptyQueue, PTL DEF QueueSpec
<1>3. QED
  BY <1>1, <1>2, PTL DEF QueueSpec, OrderKept

-----------------------------------------------------------------------------
(* The queue as the timeline shows it *)

(* PromptOrder lists each queued prompt once, at its position. *)
OrderOfRows ==
  /\ PromptOrder \in Seq(Keys)
  /\ Len(PromptOrder) = queued_count
  /\ DOMAIN PromptOrder = 1 .. queued_count
  /\ \A i \in 1 .. queued_count : PromptOrder[i] \in Queued /\ position[PromptOrder[i]] = i - 1
  /\ \A k \in Queued : position[k] + 1 \in 1 .. queued_count /\ PromptOrder[position[k] + 1] = k

LEMMA OrderListsRows == QueueInv => OrderOfRows
<1> SUFFICES ASSUME QueueInv PROVE OrderOfRows
  OBVIOUS
<1>1. queued_count \in Nat /\ queued_count = Cardinality(Queued) /\ Queued \subseteq Keys
  BY DEF QueueInv, QueueTypeOK, PositionsContiguous, Queued
<1>2. /\ \A k \in Queued : position[k] \in 0 .. queued_count - 1
      /\ \A i \in 0 .. queued_count - 1 : \E k \in Queued : position[k] = i
  BY RowsOfInv
<1>3. \A j, k \in Queued : position[j] = position[k] => j = k
  BY DEF QueueInv, PositionsContiguous
<1>4. PromptOrder = [i \in 1 .. queued_count |-> PromptAt(i - 1)]
  BY <1>1 DEF PromptOrder
<1>5. \A i \in 1 .. queued_count : PromptAt(i - 1) \in Queued /\ position[PromptAt(i - 1)] = i - 1
  <2>1. ASSUME NEW i \in 1 .. queued_count
        PROVE  PromptAt(i - 1) \in Queued /\ position[PromptAt(i - 1)] = i - 1
    <3>1. i - 1 \in 0 .. queued_count - 1
      BY <1>1
    <3>2. \E k \in Queued : position[k] = i - 1
      BY <1>2, <3>1
    <3>3. QED
      BY <3>2 DEF PromptAt
  <2>2. QED
    BY <2>1
<1>6. \A i \in 1 .. queued_count : PromptOrder[i] \in Queued /\ position[PromptOrder[i]] = i - 1
  BY <1>4, <1>5
<1>7. PromptOrder \in Seq(Keys) /\ Len(PromptOrder) = queued_count
      /\ DOMAIN PromptOrder = 1 .. queued_count
  <2>1. PromptOrder \in [1 .. queued_count -> Keys]
    BY <1>1, <1>4, <1>5
  <2>2. QED
    BY <1>1, <2>1
<1>8. ASSUME NEW k \in Queued
      PROVE  position[k] + 1 \in 1 .. queued_count /\ PromptOrder[position[k] + 1] = k
  <2> DEFINE slot == position[k] + 1
  <2>1. slot \in 1 .. queued_count /\ slot - 1 = position[k]
    BY <1>1, <1>2
  <2> HIDE DEF slot
  <2>2. PromptOrder[slot] \in Queued /\ position[PromptOrder[slot]] = position[k]
    BY <1>6, <2>1
  <2>3. PromptOrder[slot] = k
    BY <1>3, <2>2
  <2>4. QED
    BY <2>1, <2>3 DEF slot
<1>9. QED
  BY <1>6, <1>7, <1>8 DEF OrderOfRows

(* Inserting a prompt puts it behind everyone, or behind the steering if it steers, *)
(* and leaves the others in their order.                                            *)
LEMMA InsertJoinsLine ==
  ASSUME QueueInv, NEW k \in Keys, k \notin Queued, InsertPrompt(k)
  PROVE  \E ahead \in 0 .. Len(PromptOrder) :
           /\ \A i \in DOMAIN PromptOrder :
                i <= ahead <=> PromptOrder[i] \in SteerKeys \/ k \notin SteerKeys
           /\ PromptOrder' = [i \in 1 .. Len(PromptOrder) + 1 |->
                                IF i <= ahead THEN PromptOrder[i]
                                ELSE IF i = ahead + 1 THEN k
                                ELSE PromptOrder[i - 1]]
<1>1. QueueInv' /\ Queued' = Queued \cup {k}
  BY InsertKeepsInv
<1>2. OrderOfRows /\ OrderOfRows'
  <2>1. (QueueInv => OrderOfRows)'
    BY OrderListsRows, PTL
  <2>2. QED
    BY <1>1, <2>1, OrderListsRows
<1> DEFINE n == queued_count
           ahead == IF k \in SteerKeys THEN SteeringPosition ELSE queued_count
<1>3. n \in Nat /\ n' = n + 1 /\ ahead \in 0 .. n
  BY QueuedFinite DEF QueueInv, QueueTypeOK, PositionsContiguous, InsertPrompt, SteeringPosition
<1>4. /\ position'[k] = ahead
      /\ \A j \in Queued : position'[j] = IF position[j] >= ahead THEN position[j] + 1
                                          ELSE position[j]
  <2>1. position \in [Keys -> Nat \cup {-1}] /\ Queued \subseteq Keys
        /\ \A j \in Queued : position[j] \in 0 .. n - 1
    BY RowsOfInv DEF QueueInv, QueueTypeOK, Absent, Queued
  <2>2. CASE k \in SteerKeys
    BY <1>3, <2>1, <2>2 DEF InsertPrompt, ShiftedFrom
  <2>3. CASE k \notin SteerKeys
    BY <1>3, <2>1, <2>3, FollowUpGoesLast DEF InsertPrompt
  <2>4. QED
    BY <2>2, <2>3
<1>5. \A i \in 1 .. n : i <= ahead <=> PromptOrder[i] \in SteerKeys \/ k \notin SteerKeys
  <2>1. \A i \in 1 .. n : PromptOrder[i] \in Queued /\ position[PromptOrder[i]] = i - 1
    BY <1>2 DEF OrderOfRows
  <2>2. \A j \in Queued : j \in SteerKeys <=> position[j] < SteeringPosition
    BY DEF QueueInv, SteeringFirst
  <2>3. CASE k \in SteerKeys
    <3>1. ahead = SteeringPosition
      BY <2>3
    <3>2. \A i \in 1 .. n : PromptOrder[i] \in SteerKeys <=> i - 1 < SteeringPosition
      BY <2>1, <2>2
    <3>3. QED
      BY <1>3, <2>3, <3>1, <3>2
  <2>4. CASE k \notin SteerKeys
    BY <1>3, <2>4
  <2>5. QED
    BY <2>3, <2>4
<1> HIDE DEF n, ahead
<1>6. DOMAIN PromptOrder = 1 .. n /\ Len(PromptOrder) = n
  BY <1>2 DEF OrderOfRows, n
<1>7. PromptOrder' = [i \in 1 .. n + 1 |-> PromptOrder'[i]]
  <2>1. PromptOrder = [i \in 1 .. Cardinality(Queued) |-> PromptOrder[i]]
    BY DEF PromptOrder
  <2>2. (PromptOrder = [i \in 1 .. Cardinality(Queued) |-> PromptOrder[i]])'
    BY DEF PromptOrder
  <2>3. Cardinality(Queued)' = n + 1
    BY <1>1, <1>3 DEF QueueInv, PositionsContiguous, n
  <2>4. QED
    BY <2>2, <2>3
<1>8. ASSUME NEW i \in 1 .. n + 1
      PROVE  PromptOrder'[i] = IF i <= ahead THEN PromptOrder[i]
                               ELSE IF i = ahead + 1 THEN k
                               ELSE PromptOrder[i - 1]
  <2>1. ASSUME NEW j \in Queued', position'[j] = i - 1
        PROVE  PromptOrder'[i] = j
    <3>1. PromptOrder'[position'[j] + 1] = j
      BY <1>2 DEF OrderOfRows
    <3>2. position'[j] + 1 = i
      BY <1>3, <2>1
    <3>3. QED
      BY <3>1, <3>2
  <2>2. \A m \in 1 .. n : PromptOrder[m] \in Queued /\ position[PromptOrder[m]] = m - 1
    BY <1>2 DEF OrderOfRows, n
  <2>3. CASE i <= ahead
    <3>1. i \in 1 .. n /\ ~(i - 1 >= ahead)
      BY <1>3, <2>3
    <3>2. position'[PromptOrder[i]] = i - 1
      BY <1>4, <2>2, <3>1
    <3>3. QED
      BY <1>1, <2>1, <2>2, <2>3, <3>1, <3>2
  <2>4. CASE i = ahead + 1
    <3>1. k \in Queued' /\ position'[k] = i - 1 /\ ~(i <= ahead)
      BY <1>1, <1>3, <1>4, <2>4
    <3>2. QED
      BY <2>1, <2>4, <3>1
  <2>5. CASE i > ahead + 1
    <3>1. i - 1 \in 1 .. n /\ (i - 1) - 1 >= ahead /\ (i - 1) - 1 + 1 = i - 1
          /\ ~(i <= ahead) /\ i # ahead + 1
      BY <1>3, <2>5
    <3>2. PromptOrder[i - 1] \in Queued /\ position[PromptOrder[i - 1]] = (i - 1) - 1
      BY <2>2, <3>1
    <3>3. position'[PromptOrder[i - 1]] = i - 1
      BY <1>4, <3>1, <3>2
    <3>4. QED
      BY <1>1, <2>1, <3>1, <3>2, <3>3
  <2>6. QED
    BY <1>3, <2>3, <2>4, <2>5
<1>9. PromptOrder' = [i \in 1 .. n + 1 |-> IF i <= ahead THEN PromptOrder[i]
                                           ELSE IF i = ahead + 1 THEN k
                                           ELSE PromptOrder[i - 1]]
  BY <1>7, <1>8
<1>10. QED
  BY <1>3, <1>5, <1>6, <1>9

(* Promotion takes the first of the line and leaves the others in their order. *)
LEMMA TakeHeadsLine ==
  ASSUME QueueInv, NEW k \in Keys, TakePrompt(k)
  PROVE  PromptOrder # <<>> /\ k = Head(PromptOrder) /\ PromptOrder' = Tail(PromptOrder)
<1>1. QueueInv' /\ k \in Queued /\ Queued' = Queued \ {k} /\ position[k] = 0
  BY TakeKeepsInv
<1>2. OrderOfRows /\ OrderOfRows'
  <2>1. (QueueInv => OrderOfRows)'
    BY OrderListsRows, PTL
  <2>2. QED
    BY <1>1, <2>1, OrderListsRows
<1> DEFINE n == queued_count
<1>3. n \in Nat \ {0} /\ n' = n - 1
  BY DEF QueueInv, QueueTypeOK, TakePrompt
<1>4. \A j \in Queued' : j \in Queued /\ position[j] # 0 /\ position'[j] = position[j] - 1
  <2>1. position \in [Keys -> Nat \cup {-1}] /\ Queued \subseteq Keys
        /\ \A j \in Queued : position[j] \in 0 .. n - 1
    BY RowsOfInv DEF QueueInv, QueueTypeOK, Absent, Queued
  <2>2. \A j \in Queued : position[j] = 0 => j = k
    BY <1>1 DEF QueueInv, PositionsContiguous
  <2>3. ASSUME NEW j \in Queued'
        PROVE  j \in Queued /\ position[j] # 0 /\ position'[j] = position[j] - 1
    <3>1. j \in Queued /\ j # k /\ j \in Keys /\ position[j] \in Nat
      BY <1>1, <2>1
    <3>2. position[j] > position[k]
      BY <1>1, <2>2, <3>1
    <3>3. position'[j] = position[j] - 1
      BY <3>1, <3>2 DEF TakePrompt
    <3>4. QED
      BY <1>1, <3>1, <3>2, <3>3
  <2>4. QED
    BY <2>3
<1>5. PromptOrder \in Seq(Keys) /\ Len(PromptOrder) = n /\ PromptOrder[1] = k
      /\ PromptOrder' \in Seq(Keys) /\ Len(PromptOrder') = n - 1
  BY <1>1, <1>2, <1>3 DEF OrderOfRows
<1>6. \A i \in 1 .. n - 1 : PromptOrder'[i] = PromptOrder[i + 1]
  <2>1. ASSUME NEW i \in 1 .. n - 1
        PROVE  PromptOrder'[i] = PromptOrder[i + 1]
    <3> DEFINE j == PromptOrder'[i]
    <3>1. j \in Queued' /\ position'[j] = i - 1
      BY <1>2, <1>3 DEF OrderOfRows
    <3>2. j \in Queued /\ position'[j] = position[j] - 1 /\ position[j] \in Int
      BY <1>4, <3>1, RowsOfInv
    <3>3. position[j] + 1 = i + 1
      BY <3>1, <3>2
    <3>4. PromptOrder[position[j] + 1] = j
      BY <1>2, <3>2 DEF OrderOfRows
    <3>5. QED
      BY <3>3, <3>4
  <2>2. QED
    BY <2>1
<1> HIDE DEF n
<1>7. \A s, t \in Seq(Keys) :
        Len(s) = n /\ Len(t) = n - 1 /\ (\A i \in 1 .. n - 1 : t[i] = s[i + 1]) => t = Tail(s)
  BY <1>3
<1>8. QED
  BY <1>3, <1>5, <1>6, <1>7

(* Nothing changes in a line whose rows stay. *)
LEMMA LineUntouched ==
  ASSUME UNCHANGED queue_vars
  PROVE  PromptOrder' = PromptOrder
BY DEF queue_vars, PromptOrder, PromptAt, Queued

-----------------------------------------------------------------------------
(* Types *)

(* TypeOK without the queue, whose types follow from QueueInv. *)
RowsTypeOK ==
  /\ claims \subseteq Keys
  /\ running \in BOOLEAN
  /\ transcript \subseteq Keys
  /\ message \in [Turns -> {"none", "streaming"} \cup TerminalStatus]
  /\ step \in [Handlers -> HandlerSteps]
  /\ key \in [Handlers -> Keys \cup {NoKey}]
  /\ fresh \in [Handlers -> BOOLEAN]
  /\ saw \in [Handlers -> BOOLEAN]
  /\ job \in [Handlers -> Turns \cup {NoTurn}]
  /\ todo \in [Handlers -> SUBSET Turns]
  /\ phase \in [Turns -> TurnPhases]
  /\ status \in [Turns -> {"none"} \cup TerminalStatus]
  /\ others \in [Turns -> BOOLEAN]
  /\ launched \subseteq Turns
  /\ child \in [Turns -> Turns \cup {NoTurn}]
  /\ chat_operations \subseteq launched
  /\ cancelled \subseteq chat_operations
  /\ told \subseteq Keys
  /\ overlapped \in BOOLEAN

(* A handler that is claiming, reading or admitting carries a prompt's key, and *)
(* a running turn has a status once it is finishing, for the first time or again. *)
StepsTyped ==
  /\ \A h \in Handlers : step[h] \in {"claim", "read", "admit"} => key[h] \in Keys
  /\ \A t \in Turns : phase[t] \in {"finishing", "refinishing"} => status[t] \in TerminalStatus

(* The names the actions write, so that their sets need not be expanded. *)
LEMMA Names ==
  /\ "unused" \in TurnPhases /\ "created" \in TurnPhases /\ "active" \in TurnPhases
  /\ "delegating" \in TurnPhases /\ "finishing" \in TurnPhases /\ "finished" \in TurnPhases
  /\ "counted" \in TurnPhases /\ "flagged" \in TurnPhases /\ "draining" \in TurnPhases
  /\ "promoted" \in TurnPhases /\ "promoting" \in TurnPhases /\ "unflag" \in TurnPhases
  /\ "done" \in TurnPhases /\ "failed_start" \in TurnPhases /\ "refinishing" \in TurnPhases
  /\ "stranded" \in TurnPhases /\ "dropped" \in TurnPhases
  /\ "idle" \in HandlerSteps /\ "claim" \in HandlerSteps /\ "read" \in HandlerSteps
  /\ "admit" \in HandlerSteps /\ "start" \in HandlerSteps /\ "starting" \in HandlerSteps
  /\ "cancel" \in HandlerSteps
  /\ TerminalStatus = {"completed", "failed", "cancelled"}
BY DEF TurnPhases, HandlerSteps, TerminalStatus

LEMMA InitTyped == Init => RowsTypeOK /\ StepsTyped
<1> SUFFICES ASSUME Init PROVE RowsTypeOK /\ StepsTyped
  OBVIOUS
<1>1. RowsTypeOK
  BY Names DEF Init, RowsTypeOK
<1>2. StepsTyped
  BY DEF Init, StepsTyped
<1>3. QED
  BY <1>1, <1>2

(* Every action keeps the types. *)
LEMMA StepTyped == RowsTypeOK /\ StepsTyped /\ [Next]_vars => RowsTypeOK' /\ StepsTyped'
<1> SUFFICES ASSUME RowsTypeOK, StepsTyped, [Next]_vars PROVE RowsTypeOK' /\ StepsTyped'
  OBVIOUS
<1> USE Names DEF RowsTypeOK, StepsTyped, durable, queue_vars, handler_vars, turn_vars,
        Answer, Move, CreateBotMessage
<1>1. ASSUME NEW h \in Handlers, Request(h) PROVE RowsTypeOK' /\ StepsTyped'
  <2>1. ASSUME NEW k \in Keys \ SteerKeys, SendRead(h, k) PROVE RowsTypeOK' /\ StepsTyped'
    BY <2>1 DEF SendRead
  <2>2. ASSUME NEW k \in SteerKeys, SteerClaim(h, k) PROVE RowsTypeOK' /\ StepsTyped'
    BY <2>2, KeysAssumption DEF SteerClaim
  <2>3. CASE StopBegin(h)
    BY <2>3 DEF StopBegin
  <2>4. CASE RetryRead(h)
    BY <2>4 DEF RetryRead
  <2>5. QED
    BY <1>1, <2>1, <2>2, <2>3, <2>4 DEF Request
<1>2. ASSUME NEW h \in Handlers, HandlerStep(h) PROVE RowsTypeOK' /\ StepsTyped'
  <2>1. CASE SendClaim(h)
    BY <2>1 DEF SendClaim
  <2>2. CASE SendRefused(h)
    BY <2>2 DEF SendRefused
  <2>3. CASE Enqueue(h)
    <3>1. PICK reply \in {"sent", "queued", "error"} : Answer(h, reply)
      BY <2>3 DEF Enqueue
    <3>2. UNCHANGED <<claims, running, transcript, message, turn_vars, chat_operations,
                      cancelled, overlapped>>
      BY <2>3 DEF Enqueue
    <3>3. QED
      BY <3>1, <3>2
  <2>4. CASE AppendUserMessage(h)
    BY <2>4 DEF AppendUserMessage
  <2>5. CASE Replay(h)
    <3>1. PICK reply \in {"sent", "queued", "error"} : Answer(h, reply)
      BY <2>5 DEF Replay
    <3>2. QED
      BY <2>5, <3>1 DEF Replay
  <2>6. CASE StartNothing(h)
    BY <2>6 DEF StartNothing
  <2>7. CASE StartTurnReturns(h)
    BY <2>7 DEF StartTurnReturns
  <2>8. CASE SteerRead(h)
    BY <2>8 DEF SteerRead
  <2>9. CASE SteerRefused(h)
    BY <2>9 DEF SteerRefused
  <2>10. CASE StopFails(h)
    BY <2>10 DEF StopFails
  <2>11. CASE StopClears(h)
    BY <2>11 DEF StopClears
  <2>12. ASSUME NEW t \in Turns, StartTurn(h, t) PROVE RowsTypeOK' /\ StepsTyped'
    BY <2>12 DEF StartTurn
  <2>13. ASSUME NEW t \in Turns, StopCancel(h, t) PROVE RowsTypeOK' /\ StepsTyped'
    BY <2>13 DEF StopCancel
  <2>14. QED
    BY <1>2, <2>1, <2>2, <2>3, <2>4, <2>5, <2>6, <2>7, <2>8, <2>9, <2>10, <2>11, <2>12, <2>13
       DEF HandlerStep
<1>3. ASSUME NEW t \in Turns, TurnStep(t) PROVE RowsTypeOK' /\ StepsTyped'
  <2>1. CASE Launch(t)
    BY <2>1 DEF Launch
  <2>2. CASE LaunchFails(t)
    BY <2>2 DEF LaunchFails
  <2>3. CASE LaunchAborts(t)
    BY <2>3 DEF LaunchAborts
  <2>4. CASE DelegateReturns(t)
    BY <2>4 DEF DelegateReturns
  <2>5. CASE Terminal(t)
    BY <2>5 DEF Terminal
  <2>6. CASE FinishMessage(t)
    BY <2>6 DEF FinishMessage
  <2>7. CASE CountOthers(t)
    BY <2>7 DEF CountOthers
  <2>8. CASE SetRunning(t)
    BY <2>8 DEF SetRunning
  <2>9. CASE Deregister(t)
    BY <2>9 DEF Deregister
  <2>10. CASE PromoteNext(t)
    BY <2>10 DEF PromoteNext
  <2>11. CASE NothingToPromote(t)
    BY <2>11 DEF NothingToPromote
  <2>12. CASE StartPromotedNothing(t)
    BY <2>12 DEF StartPromotedNothing
  <2>13. CASE StartPromotedReturns(t)
    BY <2>13 DEF StartPromotedReturns
  <2>14. CASE ClearReservation(t)
    BY <2>14 DEF ClearReservation
  <2>15. ASSUME NEW u \in Turns, StartPromoted(t, u) PROVE RowsTypeOK' /\ StepsTyped'
    BY <2>15 DEF StartPromoted
  <2>16. CASE FinishFails(t)
    BY <2>16 DEF FinishFails
  <2>17. CASE FinishRefused(t)
    BY <2>17 DEF FinishRefused
  <2>18. CASE PromotionDropped(t)
    BY <2>18 DEF PromotionDropped
  <2>19. QED
    BY <1>3, <2>1, <2>2, <2>3, <2>4, <2>5, <2>6, <2>7, <2>8, <2>9, <2>10, <2>11, <2>12, <2>13,
       <2>14, <2>15, <2>16, <2>17, <2>18 DEF TurnStep
<1>4. ASSUME NEW t \in Turns, NEW u \in Turns, Delegate(t, u) PROVE RowsTypeOK' /\ StepsTyped'
  BY <1>4 DEF Delegate
<1>5. CASE Restart
  BY <1>5 DEF Restart, ForgetProcess
<1>6. CASE UNCHANGED vars
  BY <1>6 DEF vars, memory
<1>7. ASSUME NEW h \in Handlers, HangUp(h) PROVE RowsTypeOK' /\ StepsTyped'
  BY <1>7 DEF HangUp
<1>8. QED
  BY <1>1, <1>2, <1>3, <1>4, <1>5, <1>6, <1>7 DEF Next

-----------------------------------------------------------------------------
(* Admission of prompts *)

(* The request that made the idempotency record and has yet to use it. *)
Owns(h) == fresh[h] /\ step[h] \in {"read", "admit"}

(* What the claim protects: between its claim and its insert a request is alone *)
(* with its key, and a request past its insert has an admitted key.             *)
ClaimInv ==
  /\ AdmittedOnce
  /\ AnswerIsDurable
  /\ \A h \in Handlers : Owns(h) => key[h] \in claims \ Admitted
  /\ \A g, h \in Handlers : Owns(g) /\ Owns(h) /\ key[g] = key[h] => g = h
  /\ \A h \in Handlers : step[h] \in {"idle", "cancel"} => key[h] = NoKey
  /\ \A h \in Handlers : step[h] \in {"start", "starting"} => key[h] \in Admitted \cup {NoKey}

AdmissionInv == RowsTypeOK /\ StepsTyped /\ QueueInv /\ ClaimInv

LEMMA InitAdmission == Init => AdmissionInv
<1> SUFFICES ASSUME Init PROVE AdmissionInv
  OBVIOUS
<1>1. RowsTypeOK /\ StepsTyped
  BY InitTyped
<1>2. QueueInv
  BY EmptyQueue DEF Init
<1>3. Queued = {}
  BY DEF Init, QueueInit, Queued
<1>4. ClaimInv
  BY <1>3 DEF Init, ClaimInv, Owns, AdmittedOnce, AnswerIsDurable, Admitted
<1>5. QED
  BY <1>1, <1>2, <1>4 DEF AdmissionInv

(* A step that leaves the rows of the admission and the requests alone. *)
LEMMA ClaimsUntouched ==
  ASSUME ClaimInv, Queued' = Queued,
         UNCHANGED <<claims, transcript, told, step, key, fresh>>
  PROVE  ClaimInv'
BY DEF ClaimInv, Owns, AdmittedOnce, AnswerIsDurable, Admitted

(* A request ends with an answer: "error", or about an admitted key. *)
LEMMA AnswerKeepsClaims ==
  ASSUME RowsTypeOK, ClaimInv, NEW h \in Handlers, NEW reply \in {"sent", "queued", "error"},
         Answer(h, reply), Queued' = Queued, UNCHANGED <<claims, transcript>>,
         reply # "error" => key[h] \in Admitted \cup {NoKey}
  PROVE  ClaimInv'
BY ChatAssumption
   DEF RowsTypeOK, ClaimInv, Owns, AdmittedOnce, AnswerIsDurable, Admitted, Answer

(* claim_idempotency: the request owns the key if it made the record. *)
LEMMA ClaimKeepsClaims ==
  ASSUME RowsTypeOK, ClaimInv, NEW h \in Handlers, NEW k \in Keys,
         NEW next \in {"read", "admit"},
         claims' = claims \cup {k}, step' = [step EXCEPT ![h] = next],
         key' = [key EXCEPT ![h] = k], fresh' = [fresh EXCEPT ![h] = k \notin claims],
         Queued' = Queued, UNCHANGED <<transcript, told>>
  PROVE  ClaimInv'
<1> USE DEF ClaimInv, Admitted
<1>1. /\ step \in [Handlers -> HandlerSteps] /\ key \in [Handlers -> Keys \cup {NoKey}]
      /\ fresh \in [Handlers -> BOOLEAN]
  BY DEF RowsTypeOK
<1>2. AdmittedOnce' /\ AnswerIsDurable'
  BY DEF AdmittedOnce, AnswerIsDurable
<1>3. Owns(h)' => k \notin claims
  BY <1>1 DEF Owns
<1>4. \A g \in Handlers \ {h} : (Owns(g)' <=> Owns(g)) /\ key'[g] = key[g]
                               /\ step'[g] = step[g]
  BY <1>1 DEF Owns
<1>5. key'[h] = k /\ step'[h] = next
  BY <1>1
<1>6. \A g \in Handlers : Owns(g)' => key'[g] \in claims' \ Admitted'
  BY <1>3, <1>4, <1>5 DEF AdmittedOnce
<1>7. \A f, g \in Handlers : Owns(f)' /\ Owns(g)' /\ key'[f] = key'[g] => f = g
  BY <1>3, <1>4, <1>5
<1>8. QED
  BY <1>2, <1>4, <1>5, <1>6, <1>7

(* Every action of a request keeps the claims. *)
LEMMA HandlerKeepsClaims ==
  ASSUME AdmissionInv, NEW h \in Handlers, HandlerStep(h)
  PROVE  QueueInv' /\ ClaimInv'
<1> USE DEF AdmissionInv
<1>1. ASSUME UNCHANGED queue_vars
      PROVE  QueueInv' /\ Queued' = Queued
  BY <1>1, QueueUnchanged
<1>2. CASE SendClaim(h)
  <2>1. key[h] \in Keys /\ key' = [key EXCEPT ![h] = key[h]]
    BY <1>2 DEF SendClaim, RowsTypeOK, StepsTyped
  <2>2. UNCHANGED queue_vars /\ UNCHANGED <<transcript, told>>
    BY <1>2 DEF SendClaim
  <2>3. QED
    BY <1>1, <1>2, <2>1, <2>2, ClaimKeepsClaims DEF SendClaim
<1>3. CASE SendRefused(h)
  BY <1>1, <1>3, ChatAssumption
     DEF SendRefused, Answer, RowsTypeOK, StepsTyped, ClaimInv, Owns, AdmittedOnce,
         AnswerIsDurable, Admitted
<1>4. CASE Enqueue(h)
  <2>1. key[h] \in Keys /\ key[h] \in claims /\ key[h] \notin Queued
        /\ key[h] \notin transcript
    BY <1>4 DEF Enqueue, StepsTyped, ClaimInv, Owns, Admitted
  <2>2. CASE running /\ InsertPrompt(key[h]) /\ Answer(h, "queued")
    <3>1. QueueInv' /\ Queued' = Queued \cup {key[h]}
      BY <2>1, <2>2, InsertKeepsInv
    <3>2. Answer(h, "queued") /\ UNCHANGED <<claims, transcript>>
      BY <1>4, <2>2 DEF Enqueue
    <3>3. ClaimInv'
      BY <1>4, <2>1, <3>1, <3>2, ChatAssumption
         DEF Enqueue, Answer, RowsTypeOK, ClaimInv, Owns, AdmittedOnce, AnswerIsDurable,
             Admitted
    <3>4. QED
      BY <3>1, <3>3
  <2>3. CASE UNCHANGED queue_vars /\ Answer(h, "error")
    <3>1. UNCHANGED queue_vars /\ Answer(h, "error") /\ UNCHANGED <<claims, transcript>>
      BY <1>4, <2>3 DEF Enqueue
    <3>2. QED
      BY <1>1, <3>1, AnswerKeepsClaims
  <2>4. QED
    BY <1>4, <2>2, <2>3 DEF Enqueue
<1>5. CASE AppendUserMessage(h)
  BY <1>1, <1>5 DEF AppendUserMessage, RowsTypeOK, StepsTyped, ClaimInv, Owns, AdmittedOnce,
                    AnswerIsDurable, Admitted
<1>6. CASE Replay(h)
  <2>1. PICK reply \in {"sent", "queued", "error"} :
          Answer(h, reply) /\ (reply # "error" => key[h] \in Admitted)
    BY <1>6 DEF Replay, Admitted
  <2>2. UNCHANGED queue_vars /\ UNCHANGED <<claims, transcript>>
    BY <1>6 DEF Replay, durable
  <2>3. QED
    BY <1>1, <2>1, <2>2, AnswerKeepsClaims
<1>7. CASE StartNothing(h) \/ StartTurnReturns(h)
  <2>1. PICK reply \in {"sent", "queued", "error"} : Answer(h, reply)
    BY <1>7 DEF StartNothing, StartTurnReturns
  <2>2. UNCHANGED queue_vars /\ UNCHANGED <<claims, transcript>>
    BY <1>7 DEF StartNothing, StartTurnReturns, durable
  <2>3. key[h] \in Admitted \cup {NoKey}
    BY <1>7 DEF StartNothing, StartTurnReturns, ClaimInv
  <2>4. QED
    BY <1>1, <2>1, <2>2, <2>3, AnswerKeepsClaims
<1>8. CASE SteerRead(h)
  <2>1. UNCHANGED queue_vars /\ UNCHANGED <<claims, transcript, told, key, fresh>>
    BY <1>8 DEF SteerRead, durable
  <2>2. QED
    BY <1>1, <1>8, <2>1 DEF SteerRead, RowsTypeOK, ClaimInv, Owns, AdmittedOnce,
                             AnswerIsDurable, Admitted
<1>9. CASE SteerRefused(h) \/ StopFails(h)
  <2>1. Answer(h, "error") /\ UNCHANGED queue_vars /\ UNCHANGED <<claims, transcript>>
    BY <1>9 DEF SteerRefused, StopFails, durable
  <2>2. QED
    BY <1>1, <2>1, AnswerKeepsClaims
<1>10. CASE StopClears(h)
  <2>1. Answer(h, "sent") /\ UNCHANGED queue_vars /\ UNCHANGED <<claims, transcript>>
        /\ key[h] = NoKey
    BY <1>10 DEF StopClears, ClaimInv
  <2>2. QED
    BY <1>1, <2>1, AnswerKeepsClaims
<1>11. ASSUME NEW t \in Turns, StartTurn(h, t) PROVE QueueInv' /\ ClaimInv'
  <2>1. UNCHANGED queue_vars /\ UNCHANGED <<claims, transcript, told, key, fresh>>
    BY <1>11 DEF StartTurn
  <2>2. QED
    BY <1>1, <1>11, <2>1 DEF StartTurn, RowsTypeOK, ClaimInv, Owns, AdmittedOnce,
                              AnswerIsDurable, Admitted
<1>12. ASSUME NEW t \in Turns, StopCancel(h, t) PROVE QueueInv' /\ ClaimInv'
  BY <1>1, <1>12, ClaimsUntouched DEF StopCancel, durable
<1>13. QED
  BY <1>2, <1>3, <1>4, <1>5, <1>6, <1>7, <1>8, <1>9, <1>10, <1>11, <1>12 DEF HandlerStep

(* No turn touches a claim, and promotion moves a prompt from row to message. *)
LEMMA TurnKeepsClaims ==
  ASSUME AdmissionInv, NEW t \in Turns,
         TurnStep(t) \/ \E u \in Turns : Delegate(t, u)
  PROVE  QueueInv' /\ ClaimInv'
<1>1. CASE PromoteNext(t)
  <2>1. PICK k \in Keys : TakePrompt(k) /\ transcript' = transcript \cup {k}
    BY <1>1 DEF PromoteNext
  <2>2. QueueInv' /\ k \in Queued /\ Queued' = Queued \ {k}
    BY <2>1, TakeKeepsInv DEF AdmissionInv
  <2>3. UNCHANGED <<claims, told, step, key, fresh>>
    BY <1>1 DEF PromoteNext, handler_vars
  <2>4. ClaimInv'
    BY <2>1, <2>2, <2>3 DEF AdmissionInv, ClaimInv, Owns, AdmittedOnce, AnswerIsDurable,
                            Admitted
  <2>5. QED
    BY <2>2, <2>4
<1>2. CASE ~PromoteNext(t)
  <2>1. UNCHANGED queue_vars /\ UNCHANGED <<claims, transcript, told, step, key, fresh>>
    BY <1>2 DEF TurnStep, Launch, LaunchFails, LaunchAborts, DelegateReturns, Terminal,
         FinishMessage, FinishFails, FinishRefused, CountOthers, SetRunning, Deregister,
         NothingToPromote, PromotionDropped,
         StartPromotedNothing, StartPromotedReturns, ClearReservation, StartPromoted,
         Delegate, durable, handler_vars
  <2>2. QED
    BY <2>1, QueueUnchanged, ClaimsUntouched DEF AdmissionInv
<1>3. QED
  BY <1>1, <1>2

LEMMA StepAdmission == AdmissionInv /\ [Next]_vars => AdmissionInv'
<1> SUFFICES ASSUME AdmissionInv, [Next]_vars PROVE QueueInv' /\ ClaimInv'
  BY StepTyped DEF AdmissionInv
<1>1. ASSUME UNCHANGED queue_vars PROVE QueueInv' /\ Queued' = Queued
  BY <1>1, QueueUnchanged DEF AdmissionInv
<1>2. ASSUME NEW h \in Handlers, Request(h) PROVE QueueInv' /\ ClaimInv'
  <2>1. ASSUME NEW k \in Keys \ SteerKeys, SendRead(h, k) PROVE QueueInv' /\ ClaimInv'
    BY <1>1, <2>1 DEF SendRead, durable, AdmissionInv, RowsTypeOK, ClaimInv, Owns,
                      AdmittedOnce, AnswerIsDurable, Admitted
  <2>2. ASSUME NEW k \in SteerKeys, SteerClaim(h, k) PROVE QueueInv' /\ ClaimInv'
    <3>1. UNCHANGED queue_vars /\ UNCHANGED <<transcript, told>> /\ k \in Keys
      BY <2>2, KeysAssumption DEF SteerClaim
    <3>2. QED
      BY <1>1, <2>2, <3>1, ClaimKeepsClaims DEF SteerClaim, AdmissionInv
  <2>3. CASE StopBegin(h) \/ RetryRead(h)
    <3>1. UNCHANGED queue_vars /\ UNCHANGED <<claims, transcript, told, key, fresh>>
          /\ step[h] = "idle"
          /\ \E next \in {"cancel", "start"} : step' = [step EXCEPT ![h] = next]
      BY <2>3 DEF StopBegin, RetryRead, durable
    <3>2. QED
      BY <1>1, <3>1 DEF AdmissionInv, RowsTypeOK, ClaimInv, Owns, AdmittedOnce,
                        AnswerIsDurable, Admitted
  <2>4. QED
    BY <1>2, <2>1, <2>2, <2>3 DEF Request
<1>3. CASE Restart
  BY <1>1, <1>3 DEF Restart, ForgetProcess, AdmissionInv, ClaimInv, Owns, AdmittedOnce,
                    AnswerIsDurable, Admitted
<1>4. CASE UNCHANGED vars
  BY <1>1, <1>4, ClaimsUntouched DEF vars, durable, memory, handler_vars, AdmissionInv
<1>5. ASSUME NEW h \in Handlers, HangUp(h) PROVE QueueInv' /\ ClaimInv'
  <2>1. UNCHANGED queue_vars /\ UNCHANGED <<claims, transcript, told>>
    BY <1>5 DEF HangUp, durable
  <2>2. QED
    BY <1>1, <1>5, <2>1 DEF HangUp, AdmissionInv, RowsTypeOK, ClaimInv, Owns, AdmittedOnce,
                             AnswerIsDurable, Admitted
<1>6. QED
  BY <1>2, <1>3, <1>4, <1>5, HandlerKeepsClaims, TurnKeepsClaims DEF Next

(* Every variable keeps its type. *)
THEOREM TypesCorrect == Spec => []TypeOK
<1>1. AdmissionInv => TypeOK
  BY DEF AdmissionInv, RowsTypeOK, QueueInv, TypeOK
<1>2. QED
  BY <1>1, InitAdmission, StepAdmission, PTL DEF Spec

(* However many requests carry a key, concurrently or across restarts, its     *)
(* prompt is in one place only and under its claim; and what a client was told *)
(* is admitted stays admitted.                                                 *)
THEOREM AdmissionCorrect == Spec => [](AdmittedOnce /\ AnswerIsDurable)
<1>1. AdmissionInv => AdmittedOnce /\ AnswerIsDurable
  BY DEF AdmissionInv, ClaimInv
<1>2. QED
  BY <1>1, InitAdmission, StepAdmission, PTL DEF Spec

(* What a client was told is admitted stays admitted, across faults and restarts. *)
THEOREM AnswersKept == Spec => []AnswerIsDurable
BY AdmissionCorrect, PTL

(* The rows of the queue keep their shape inside the chat, where a prompt is *)
(* only inserted while its key is owned.                                     *)
THEOREM ChatQueueCorrect == Spec => [](PositionsContiguous /\ SteeringFirst)
<1>1. AdmissionInv => PositionsContiguous /\ SteeringFirst
  BY DEF AdmissionInv, QueueInv
<1>2. QED
  BY <1>1, InitAdmission, StepAdmission, PTL DEF Spec

-----------------------------------------------------------------------------
(* The Bot message of a turn *)

StreamingPhases == {"created", "active", "delegating", "finishing"}

(* The row of a turn's message agrees with the task that serves the turn. *)
MessageInv ==
  \A t \in Turns :
    /\ message[t] = "streaming" =>
         phase[t] \in StreamingPhases \cup {"refinishing", "failed_start", "stranded"}
    /\ phase[t] \in StreamingPhases => message[t] = "streaming"
    /\ message[t] = "none" <=> phase[t] = "unused"

LEMMA StepMessage ==
  ASSUME RowsTypeOK, StepsTyped, MessageInv, [Next]_vars
  PROVE  /\ MessageInv'
         /\ \A t \in Turns : message[t] \in TerminalStatus => message'[t] = message[t]
<1> DEFINE Kept == /\ MessageInv'
                   /\ \A t \in Turns : message[t] \in TerminalStatus => message'[t] = message[t]
<1> USE DEF RowsTypeOK, StepsTyped, MessageInv, StreamingPhases, TerminalStatus
<1>1. ASSUME UNCHANGED <<message, phase>> PROVE Kept
  BY <1>1
<1>2. ASSUME NEW h \in Handlers, Request(h) \/ HandlerStep(h) PROVE Kept
  <2>1. ASSUME NEW t \in Turns, StartTurn(h, t) PROVE Kept
    BY <2>1 DEF StartTurn, CreateBotMessage, Move
  <2>2. CASE ~\E t \in Turns : StartTurn(h, t)
    <3>1. UNCHANGED <<message, phase>>
      BY <1>2, <2>2 DEF Request, SendRead, SteerClaim, StopBegin, RetryRead, HandlerStep,
           SendClaim, SendRefused, Enqueue, AppendUserMessage, Replay, StartNothing,
           StartTurnReturns, SteerRead, SteerRefused, StopFails, StopClears, StopCancel,
           durable, turn_vars
    <3>2. QED
      BY <1>1, <3>1
  <2>3. QED
    BY <2>1, <2>2
<1>3. ASSUME NEW t \in Turns, TurnStep(t) PROVE Kept
  <2>1. CASE Launch(t) \/ LaunchFails(t) \/ LaunchAborts(t) \/ DelegateReturns(t) \/ Terminal(t)
    BY <2>1 DEF Launch, LaunchFails, LaunchAborts, DelegateReturns, Terminal, Move, durable
  <2>2. CASE FinishMessage(t) \/ FinishFails(t) \/ FinishRefused(t)
    BY <2>2 DEF FinishMessage, FinishFails, FinishRefused, Move, durable
  <2>3. CASE \/ CountOthers(t) \/ SetRunning(t) \/ Deregister(t) \/ PromoteNext(t)
             \/ NothingToPromote(t) \/ PromotionDropped(t)
    BY <2>3 DEF CountOthers, SetRunning, Deregister, PromoteNext, NothingToPromote,
                PromotionDropped, Move, durable
  <2>4. CASE StartPromotedNothing(t) \/ StartPromotedReturns(t) \/ ClearReservation(t)
    BY <2>4 DEF StartPromotedNothing, StartPromotedReturns, ClearReservation, Move, durable
  <2>5. ASSUME NEW u \in Turns, StartPromoted(t, u) PROVE Kept
    BY <2>5 DEF StartPromoted, CreateBotMessage
  <2>6. QED
    BY <1>3, <2>1, <2>2, <2>3, <2>4, <2>5 DEF TurnStep
<1>4. ASSUME NEW t \in Turns, NEW u \in Turns, Delegate(t, u) PROVE Kept
  BY <1>4 DEF Delegate, CreateBotMessage
<1>5. CASE Restart
  BY <1>5 DEF Restart, ForgetProcess
<1>6. CASE UNCHANGED vars
  BY <1>1, <1>6 DEF vars, durable, memory, turn_vars
<1>7. ASSUME NEW h \in Handlers, HangUp(h) PROVE Kept
  BY <1>7 DEF HangUp, AtWork, WorkPhases, durable
<1>8. QED
  BY <1>2, <1>3, <1>4, <1>5, <1>6, <1>7 DEF Next

(* No message ends twice: its status is final from the moment it is terminal. *)
THEOREM TerminalStatusFinal == Spec => TerminalIsFinal
<1> DEFINE Inv == AdmissionInv /\ MessageInv
<1>1. Init => Inv
  <2>1. Init => MessageInv
    BY DEF Init, MessageInv, StreamingPhases
  <2>2. QED
    BY <2>1, InitAdmission
<1>2. Inv /\ [Next]_vars
      => /\ Inv'
         /\ [\A t \in Turns : message[t] \in TerminalStatus => message'[t] = message[t]]_vars
  BY StepAdmission, StepMessage DEF AdmissionInv
<1>3. QED
  BY <1>1, <1>2, PTL DEF Spec, TerminalIsFinal

(* However requests, stops, failures and restarts interleave, a message streams  *)
(* only while a live turn is there to end it, unless its start() was dropped or    *)
(* its finish() failed twice.                                                      *)
THEOREM StreamingCorrect == Spec => []StreamingHasTurn
<1> DEFINE Inv == AdmissionInv /\ MessageInv
<1>1. Init => Inv
  <2>1. Init => MessageInv
    BY DEF Init, MessageInv, StreamingPhases
  <2>2. QED
    BY <2>1, InitAdmission
<1>2. Inv /\ [Next]_vars => Inv'
  BY StepAdmission, StepMessage DEF AdmissionInv
<1>3. Inv => StreamingHasTurn
  BY DEF MessageInv, StreamingPhases, StreamingHasTurn
<1>4. QED
  BY <1>1, <1>2, <1>3, PTL DEF Spec

-----------------------------------------------------------------------------
(* The running flag of turns that never overlap *)

(* The phases in which a turn, or what promotion does for it, will still clear *)
(* the flag or hand it on.                                                     *)
ClearingPhases == {"created", "active", "delegating", "finishing", "refinishing", "finished",
                   "counted", "promoted", "unflag"}

(* Since the process started, no two turns were at work at once and none was lost. *)
Sequential == ~overlapped /\ \A t \in Turns : ~Lost(t)

WorkInv ==
  /\ \A t \in chat_operations : phase[t] \in (WorkPhases \ {"created"}) \cup {"stranded"}
  /\ Sequential =>
       /\ \A t, u \in Turns : AtWork(t) /\ AtWork(u) => t = u
       /\ \A t \in Turns : phase[t] = "counted" => ~others[t]
       /\ running => \E t \in Turns : phase[t] \in ClearingPhases

LEMMA WorkUntouched ==
  ASSUME WorkInv, UNCHANGED <<phase, others, launched, chat_operations, overlapped>>,
         running' => running
  PROVE  WorkInv'
BY DEF WorkInv, AtWork, Sequential, Lost

(* create_bot_message: either another turn is at work, and the turns overlap *)
(* from now on, or this one is the only one.                                 *)
LEMMA CreateKeepsWork ==
  ASSUME RowsTypeOK, WorkInv, NEW t \in Turns, CreateBotMessage(t),
         phase' = [phase EXCEPT ![t] = "created"],
         UNCHANGED <<others, launched, chat_operations>>
  PROVE  WorkInv'
<1>1. /\ phase'[t] = "created" /\ phase[t] = "unused" /\ \A u \in Turns \ {t} : phase'[u] = phase[u]
      /\ overlapped' = (overlapped \/ \E u \in Turns : AtWork(u))
  BY DEF RowsTypeOK, CreateBotMessage
<1>2. \A u \in chat_operations' : phase'[u] \in (WorkPhases \ {"created"}) \cup {"stranded"}
  BY <1>1 DEF WorkInv, WorkPhases, RowsTypeOK
<1>3. Sequential' => \A u \in Turns : ~AtWork(u)
  BY <1>1 DEF Sequential
<1>4. Sequential' => \A u, w \in Turns : AtWork(u)' /\ AtWork(w)' => u = w
  BY <1>1, <1>3 DEF AtWork
<1>5. Sequential' => \A u \in Turns : phase'[u] = "counted" => ~others'[u]
  BY <1>1, <1>3 DEF AtWork, WorkPhases
<1>6. \E u \in Turns : phase'[u] \in ClearingPhases
  BY <1>1 DEF ClearingPhases
<1>7. QED
  BY <1>2, <1>4, <1>5, <1>6 DEF WorkInv

LEMMA TurnKeepsWork ==
  ASSUME RowsTypeOK, WorkInv, NEW t \in Turns, TurnStep(t)
  PROVE  WorkInv'
<1> USE DEF RowsTypeOK, WorkInv, AtWork, WorkPhases, ClearingPhases, Sequential, Lost, LostPhases,
        Move, durable
<1>1. CASE Launch(t)
  BY <1>1 DEF Launch
<1>2. CASE LaunchFails(t)
  BY <1>2 DEF LaunchFails
<1>3. CASE LaunchAborts(t)
  BY <1>3 DEF LaunchAborts
<1>4. CASE DelegateReturns(t)
  BY <1>4 DEF DelegateReturns
<1>5. CASE Terminal(t)
  BY <1>5 DEF Terminal
<1>6. CASE FinishMessage(t)
  BY <1>6 DEF FinishMessage
<1>7. CASE CountOthers(t)
  BY <1>7 DEF CountOthers
<1>8. CASE SetRunning(t)
  BY <1>8 DEF SetRunning
<1>9. CASE Deregister(t)
  BY <1>9 DEF Deregister
<1>10. CASE PromoteNext(t)
  BY <1>10 DEF PromoteNext
<1>11. CASE NothingToPromote(t)
  BY <1>11 DEF NothingToPromote
<1>12. CASE StartPromotedNothing(t)
  BY <1>12 DEF StartPromotedNothing
<1>13. CASE StartPromotedReturns(t)
  BY <1>13 DEF StartPromotedReturns
<1>14. CASE ClearReservation(t)
  BY <1>14 DEF ClearReservation
<1>15. ASSUME NEW u \in Turns, StartPromoted(t, u) PROVE WorkInv'
  <2>1. /\ phase[t] = "promoted" /\ phase[u] = "unused" /\ t # u
        /\ phase' = [phase EXCEPT ![t] = "promoting", ![u] = "created"]
        /\ overlapped' = (overlapped \/ \E other \in Turns : AtWork(other))
        /\ UNCHANGED <<others, launched, chat_operations>>
    BY <1>15 DEF StartPromoted, CreateBotMessage
  <2>2. CASE ~Sequential'
    <3>1. \A w \in chat_operations' : phase'[w] \in (WorkPhases \ {"created"}) \cup {"stranded"}
      BY <2>1
    <3>2. QED
      BY <2>2, <3>1
  <2>3. CASE Sequential'
    <3>1. Sequential /\ \A other \in Turns : ~AtWork(other)
      BY <2>1, <2>3
    <3>2. \A other \in Turns : phase'[other] \in WorkPhases => other = u
      BY <2>1, <3>1
    <3>3. phase'[u] \in ClearingPhases /\ chat_operations' = {}
      BY <2>1, <3>1
    <3>4. \A other \in Turns : phase'[other] # "counted"
      BY <3>2, <2>1
    <3>5. QED
      BY <2>1, <3>2, <3>3, <3>4
  <2>4. QED
    BY <2>2, <2>3
<1>16. CASE FinishFails(t)
  BY <1>16 DEF FinishFails
<1>17. CASE FinishRefused(t)
  BY <1>17 DEF FinishRefused
<1>18. CASE PromotionDropped(t)
  BY <1>18 DEF PromotionDropped
<1>19. QED
  BY <1>1, <1>2, <1>3, <1>4, <1>5, <1>6, <1>7, <1>8, <1>9, <1>10, <1>11, <1>12, <1>13, <1>14,
     <1>15, <1>16, <1>17, <1>18 DEF TurnStep

LEMMA StepWork == RowsTypeOK /\ WorkInv /\ [Next]_vars => WorkInv'
<1> SUFFICES ASSUME RowsTypeOK, WorkInv, [Next]_vars PROVE WorkInv'
  OBVIOUS
<1>1. ASSUME NEW h \in Handlers, Request(h) \/ HandlerStep(h) PROVE WorkInv'
  <2>1. ASSUME NEW t \in Turns, StartTurn(h, t) PROVE WorkInv'
    BY <2>1, CreateKeepsWork DEF StartTurn, Move
  <2>2. CASE ~\E t \in Turns : StartTurn(h, t)
    <3>1. UNCHANGED <<phase, others, launched, chat_operations, overlapped>> /\ (running' => running)
      BY <1>1, <2>2 DEF Request, SendRead, SteerClaim, StopBegin, RetryRead, HandlerStep,
           SendClaim, SendRefused, Enqueue, AppendUserMessage, Replay, StartNothing,
           StartTurnReturns, SteerRead, SteerRefused, StopFails, StopClears, StopCancel,
           durable, turn_vars
    <3>2. QED
      BY <3>1, WorkUntouched
  <2>3. QED
    BY <2>1, <2>2
<1>2. ASSUME NEW t \in Turns, NEW u \in Turns, Delegate(t, u) PROVE WorkInv'
  BY <1>2 DEF RowsTypeOK, WorkInv, AtWork, WorkPhases, ClearingPhases, Sequential, Lost,
              LostPhases, Delegate, CreateBotMessage
<1>3. CASE Restart
  BY <1>3 DEF Restart, ForgetProcess, WorkInv, AtWork, WorkPhases, ClearingPhases, Sequential
<1>4. CASE UNCHANGED vars
  BY <1>4, WorkUntouched DEF vars, durable, memory, turn_vars
<1>5. ASSUME NEW h \in Handlers, HangUp(h) PROVE WorkInv'
  BY <1>5 DEF HangUp, RowsTypeOK, WorkInv, AtWork, WorkPhases, ClearingPhases, Sequential,
              Lost, LostPhases, durable
<1>6. QED
  BY <1>1, <1>2, <1>3, <1>4, <1>5, TurnKeepsWork DEF Next

(* If since the process started no two turns of the chat were at work at once and *)
(* none was lost, a chat at rest is not shown as running.                         *)
THEOREM SequentialCorrect == Spec => []SequentialTurnsClearRunning
<1> DEFINE Inv == AdmissionInv /\ WorkInv
<1>1. Init => Inv
  <2>1. Init => WorkInv
    BY DEF Init, WorkInv, AtWork, WorkPhases
  <2>2. QED
    BY <2>1, InitAdmission
<1>2. Inv /\ [Next]_vars => Inv'
  BY StepAdmission, StepWork DEF AdmissionInv
<1>3. Inv => SequentialTurnsClearRunning
  BY DEF WorkInv, Sequential, SequentialTurnsClearRunning, AtRest, ClearingPhases
<1>4. QED
  BY <1>1, <1>2, <1>3, PTL DEF Spec
-----------------------------------------------------------------------------
(* The chat implements ChatLedger *)

(* The line shows the queued prompts. *)
LEMMA LineShowsQueue == QueueInv => Ledger!Waiting = Queued
<1> SUFFICES ASSUME QueueInv PROVE Ledger!Waiting = Queued
  OBVIOUS
<1>1. OrderOfRows
  BY OrderListsRows
<1>2. {PromptOrder[i] : i \in DOMAIN PromptOrder} = Queued
  BY <1>1 DEF OrderOfRows
<1>3. QED
  BY <1>2 DEF Ledger!Waiting

(* A step that moves no prompt. *)
LEMMA LedgerStutters ==
  ASSUME UNCHANGED queue_vars, UNCHANGED transcript
  PROVE  UNCHANGED Ledger!ledger_vars
BY LineUntouched DEF Ledger!ledger_vars

(* The request that owns its key is the one step that admits a prompt. *)
LEMMA HandlerKeepsLedger ==
  ASSUME AdmissionInv, NEW h \in Handlers, HandlerStep(h)
  PROVE  [Ledger!LedgerNext]_(Ledger!ledger_vars)
<1>1. Ledger!Waiting = Queued /\ QueueInv
  BY LineShowsQueue DEF AdmissionInv
<1>2. ASSUME step[h] = "admit", fresh[h]
      PROVE  key[h] \in Keys /\ key[h] \notin Queued /\ key[h] \notin transcript
  BY <1>2 DEF AdmissionInv, StepsTyped, ClaimInv, Owns, Admitted
<1>3. CASE Enqueue(h)
  <2>1. CASE InsertPrompt(key[h])
    <3>1. key[h] \in Keys /\ key[h] \notin Queued /\ key[h] \notin transcript
      BY <1>2, <1>3 DEF Enqueue
    <3>2. \E ahead \in 0 .. Len(PromptOrder) :
            /\ \A i \in DOMAIN PromptOrder :
                 i <= ahead <=> PromptOrder[i] \in SteerKeys \/ key[h] \notin SteerKeys
            /\ PromptOrder' = Ledger!LineWith(key[h], ahead)
      BY <1>1, <2>1, <3>1, InsertJoinsLine DEF Ledger!LineWith
    <3>3. UNCHANGED transcript
      BY <1>3 DEF Enqueue
    <3>4. Ledger!Join(key[h])
      BY <1>1, <3>1, <3>2, <3>3 DEF Ledger!Join
    <3>5. QED
      BY <3>1, <3>4 DEF Ledger!LedgerNext
  <2>2. CASE UNCHANGED queue_vars
    BY <1>3, <2>2, LedgerStutters DEF Enqueue
  <2>3. QED
    BY <1>3, <2>1, <2>2 DEF Enqueue
<1>4. CASE AppendUserMessage(h)
  <2>1. key[h] \in Keys /\ key[h] \notin Queued /\ key[h] \notin transcript
    BY <1>2, <1>4 DEF AppendUserMessage
  <2>2. PromptOrder' = PromptOrder /\ transcript' = transcript \cup {key[h]}
    BY <1>4, LineUntouched DEF AppendUserMessage
  <2>3. Ledger!Say(key[h])
    BY <1>1, <2>1, <2>2 DEF Ledger!Say
  <2>4. QED
    BY <2>1, <2>3 DEF Ledger!LedgerNext
<1>5. CASE ~Enqueue(h) /\ ~AppendUserMessage(h)
  <2>1. UNCHANGED queue_vars /\ UNCHANGED transcript
    BY <1>5 DEF HandlerStep, SendClaim, SendRefused, Replay, StartNothing, StartTurn,
         StartTurnReturns, SteerRead, SteerRefused, StopCancel, StopFails, StopClears, durable
  <2>2. QED
    BY <2>1, LedgerStutters
<1>6. QED
  BY <1>3, <1>4, <1>5

(* Promotion is the one step of a turn that the ledger sees. *)
LEMMA TurnKeepsLedger ==
  ASSUME AdmissionInv, NEW t \in Turns,
         TurnStep(t) \/ \E u \in Turns : Delegate(t, u)
  PROVE  [Ledger!LedgerNext]_(Ledger!ledger_vars)
<1>1. CASE PromoteNext(t)
  <2>1. PICK k \in Keys : TakePrompt(k) /\ transcript' = transcript \cup {k}
    BY <1>1 DEF PromoteNext
  <2>2. PromptOrder # <<>> /\ k = Head(PromptOrder) /\ PromptOrder' = Tail(PromptOrder)
    BY <2>1, TakeHeadsLine DEF AdmissionInv
  <2>3. Ledger!Promote
    BY <2>1, <2>2 DEF Ledger!Promote
  <2>4. QED
    BY <2>3 DEF Ledger!LedgerNext
<1>2. CASE ~PromoteNext(t)
  <2>1. UNCHANGED queue_vars /\ UNCHANGED transcript
    BY <1>2 DEF TurnStep, Launch, LaunchFails, LaunchAborts, DelegateReturns, Terminal,
         FinishMessage, FinishFails, FinishRefused, CountOthers, SetRunning, Deregister,
         NothingToPromote, PromotionDropped,
         StartPromotedNothing, StartPromotedReturns, ClearReservation, StartPromoted,
         Delegate, durable
  <2>2. QED
    BY <2>1, LedgerStutters
<1>3. QED
  BY <1>1, <1>2

(* The chat keeps the promise of ChatLedger, through faults, hang-ups and restarts: *)
(* a prompt is admitted at most once, steering joins the line ahead of every        *)
(* follow-up, only the head of the line is promoted, and no prompt is lost or       *)
(* overtaken.                                                                       *)
THEOREM ChatImplementsLedger == Spec => LedgerPromise
<1>1. Init => Ledger!LedgerInit
  <2> SUFFICES ASSUME Init PROVE Ledger!LedgerInit
    OBVIOUS
  <2>2. OrderOfRows /\ queued_count = 0
    BY EmptyQueue, OrderListsRows DEF Init, QueueInit
  <2>3. PromptOrder = <<>>
    BY <2>2 DEF OrderOfRows
  <2>4. QED
    BY <2>3 DEF Init, Ledger!LedgerInit
<1>2. AdmissionInv /\ [Next]_vars => [Ledger!LedgerNext]_(Ledger!ledger_vars)
  <2>1. SUFFICES ASSUME AdmissionInv, [Next]_vars
                 PROVE  [Ledger!LedgerNext]_(Ledger!ledger_vars)
    OBVIOUS
  <2>2. CASE \E h \in Handlers : Request(h) \/ HangUp(h)
    BY <2>2, LedgerStutters
       DEF Request, SendRead, SteerClaim, StopBegin, RetryRead, HangUp, durable
  <2>3. CASE Restart
    BY <2>3, LedgerStutters DEF Restart, ForgetProcess
  <2>4. CASE UNCHANGED vars
    BY <2>4, LedgerStutters DEF vars, durable
  <2>5. QED
    BY <2>1, <2>2, <2>3, <2>4, HandlerKeepsLedger, TurnKeepsLedger DEF Next
<1>3. QED
  BY <1>1, <1>2, InitAdmission, StepAdmission, PTL DEF Spec, LedgerPromise, Ledger!LedgerSpec

(* The chat inserts only a prompt that is not queued, so to the queue's rows it is *)
(* one of the behaviours of QueueSpec, and lets no two waiting prompts change      *)
(* places either.                                                                  *)
THEOREM ChatOrderKept == Spec => QueueSpec /\ OrderKept
<1>1. Init => QueueInit
  BY DEF Init
<1>2. AdmissionInv /\ [Next]_vars => [QueueNext]_queue_vars
  <2> SUFFICES ASSUME AdmissionInv, [Next]_vars PROVE [QueueNext]_queue_vars
    OBVIOUS
  <2>1. ASSUME NEW h \in Handlers, HandlerStep(h) PROVE [QueueNext]_queue_vars
    <3>1. CASE Enqueue(h)
      <4>1. key[h] \in Keys /\ key[h] \notin Queued
        BY <3>1 DEF Enqueue, AdmissionInv, StepsTyped, ClaimInv, Owns, Admitted
      <4>2. QED
        BY <3>1, <4>1 DEF Enqueue, QueueNext
    <3>2. CASE ~Enqueue(h)
      BY <2>1, <3>2 DEF HandlerStep, SendClaim, SendRefused, AppendUserMessage, Replay,
           StartNothing, StartTurn, StartTurnReturns, SteerRead, SteerRefused, StopCancel,
           StopFails, StopClears, durable
    <3>3. QED
      BY <3>1, <3>2
  <2>2. ASSUME NEW t \in Turns, TurnStep(t) \/ \E u \in Turns : Delegate(t, u)
        PROVE  [QueueNext]_queue_vars
    <3>1. CASE PromoteNext(t)
      BY <3>1 DEF PromoteNext, QueueNext
    <3>2. CASE ~PromoteNext(t)
      BY <2>2, <3>2 DEF TurnStep, Launch, LaunchFails, LaunchAborts, DelegateReturns,
           Terminal, FinishMessage, FinishFails, FinishRefused, CountOthers, SetRunning, Deregister,
         NothingToPromote, PromotionDropped,
           StartPromotedNothing, StartPromotedReturns, ClearReservation, StartPromoted,
           Delegate, durable
    <3>3. QED
      BY <3>1, <3>2
  <2>3. CASE \E h \in Handlers : Request(h) \/ HangUp(h)
    BY <2>3 DEF Request, SendRead, SteerClaim, StopBegin, RetryRead, HangUp, durable
  <2>4. CASE Restart \/ UNCHANGED vars
    BY <2>4 DEF Restart, ForgetProcess, vars, durable
  <2>5. QED
    BY <2>1, <2>2, <2>3, <2>4 DEF Next
<1>3. Spec => QueueSpec
  BY <1>1, <1>2, InitAdmission, StepAdmission, PTL DEF Spec, QueueSpec
<1>4. QED
  BY <1>3, QueueOrderKept, PTL
=============================================================================
