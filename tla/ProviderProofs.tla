-------------------------- MODULE ProviderProofs ---------------------------
(***************************************************************************)
(* Theorems about what a Bot's turn meets at its provider: the questions   *)
(* it asks, the tools and MCP servers it calls, the runs of adapters and   *)
(* the Codex client. Each part proves the inductive invariant of one       *)
(* component for every value of its constants; the variables of the        *)
(* component are the slots of the composition, in the order of its         *)
(* INSTANCE.                                                               *)
(***************************************************************************)
EXTENDS MCBotRuntime, TLAPS, Sequences, FiniteSetTheorems

-----------------------------------------------------------------------------
(* Interactions. Slots: v1 turn, v2 pending, v3 entry, v4 card, v5 vault, v6 *)
(* client, v7 claims, v8 accepted, v9 returned.                              *)

(* The invariant of the questions holds at first. *)
LEMMA CardInit == I!Init => I!AnswerInv
<1> SUFFICES ASSUME I!Init PROVE I!AnswerInv
  OBVIOUS
<1>1. I!AnyCard \in Cards
  BY RuntimeAssumption DEF I!AnyCard
<1>2. [at |-> "streaming", card |-> I!AnyCard] \in I!TurnRow /\ [at |-> "idle", card |-> I!AnyCard] \in I!ClientRow
      /\ I!Nobody \in I!EntryRow
  BY <1>1 DEF I!TurnRow, I!ClientRow, I!EntryRow, I!Nobody, I!Kinds
<1>3. I!TypeOK
  BY <1>2 DEF I!Init, I!TypeOK
<1>4. I!OneAtWork /\ I!SecretKept /\ I!OneAnswer
  BY DEF I!Init, I!OneAtWork, I!SecretKept, I!OneAnswer, I!Past, I!Knows, I!Entry, I!Nobody
<1>5. QED
  BY <1>3, <1>4 DEF I!AnswerInv

(* An entry that is marked stays an entry. *)
LEMMA EntryMarked ==
  ASSUME NEW entry \in I!EntryRow
  PROVE  /\ \A b \in BOOLEAN : [entry EXCEPT !.responded = b] \in I!EntryRow
         /\ [[entry EXCEPT !.cancelled = TRUE] EXCEPT !.ready = TRUE] \in I!EntryRow
         /\ [[entry EXCEPT !.result = TRUE] EXCEPT !.ready = TRUE] \in I!EntryRow
<1>1. [entry EXCEPT !.cancelled = TRUE] \in I!EntryRow /\ [entry EXCEPT !.result = TRUE] \in I!EntryRow
  BY DEF I!EntryRow
<1>2. \A e \in I!EntryRow : [e EXCEPT !.ready = TRUE] \in I!EntryRow
  BY DEF I!EntryRow
<1>3. \A b \in BOOLEAN : [entry EXCEPT !.responded = b] \in I!EntryRow
  BY DEF I!EntryRow
<1>4. QED
  BY <1>1, <1>2, <1>3

(* Every step of a question keeps the types. *)
LEMMA CardTyped == ASSUME I!AnswerInv, [I!Next]_I!vars PROVE I!TypeOK'
<1> USE DEF I!AnswerInv, I!TypeOK
<1>1. ASSUME NEW i \in Cards, NEW kind \in I!Kinds, I!AwaitResponse(i, kind) PROVE I!TypeOK'
  <2>1. [at |-> "persisting", card |-> i] \in I!TurnRow
    BY DEF I!TurnRow
  <2>2. [I!Nobody EXCEPT !.kind = kind] \in I!EntryRow
    BY DEF I!EntryRow, I!Nobody, I!Kinds
  <2>3. QED
    BY <1>1, <2>1, <2>2 DEF I!AwaitResponse
<1>2. CASE I!PersistCard
  <2>1. v1.card \in Cards /\ \A at \in {"waiting", "streaming"} : [v1 EXCEPT !.at = at] \in I!TurnRow
    BY DEF I!TurnRow
  <2>2. QED
    BY <1>2, <2>1 DEF I!PersistCard
<1>3. ASSUME NEW woken \in BOOLEAN, I!TakeResponse(woken) PROVE I!TypeOK'
  <2>1. v1.card \in Cards /\ [v1 EXCEPT !.at = "streaming"] \in I!TurnRow
    BY DEF I!TurnRow
  <2>2. QED
    BY <1>3, <2>1 DEF I!TakeResponse
<1>4. I!CancelOperation => v3' \in [Cards -> I!EntryRow]
  <2>1. ASSUME NEW i \in Cards PROVE [[v3[i] EXCEPT !.cancelled = TRUE] EXCEPT !.ready = TRUE] \in I!EntryRow
    <3>1. v3[i] \in I!EntryRow
      OBVIOUS
    <3>2. QED
      BY <3>1, EntryMarked
  <2>2. QED
    BY <2>1 DEF I!CancelOperation
<1>5. ASSUME NEW at \in {"finishing", "over"} PROVE [v1 EXCEPT !.at = at] \in I!TurnRow
  BY DEF I!TurnRow
<1>6. CASE I!Stop
  BY <1>4, <1>6 DEF I!Stop
<1>7. CASE I!EndTurn
  BY <1>4, <1>5, <1>7 DEF I!EndTurn
<1>8. CASE I!FinishProviderInteractions
  BY <1>5, <1>8 DEF I!FinishProviderInteractions
<1>9. ASSUME NEW x \in Responders, \/ \E i \in Cards : I!Respond(x, i)
                                   \/ I!Submit(x) \/ I!StoreSecret(x) \/ I!ShowResponse(x) \/ I!SetResult(x)
      PROVE I!TypeOK'
  <2>1. v6[x].card \in Cards
    BY DEF I!ClientRow
  <2>2. ASSUME NEW at \in {"idle", "found", "storing", "showing", "setting"}
        PROVE [v6[x] EXCEPT !.at = at] \in I!ClientRow
    BY DEF I!ClientRow
  <2>3. ASSUME NEW b \in BOOLEAN
        PROVE /\ [v3[v6[x].card] EXCEPT !.responded = b] \in I!EntryRow
              /\ [[v3[v6[x].card] EXCEPT !.result = TRUE] EXCEPT !.ready = TRUE] \in I!EntryRow
    <3>1. v3[v6[x].card] \in I!EntryRow
      BY <2>1
    <3>2. QED
      BY <3>1, EntryMarked
  <2>4. ASSUME NEW i \in Cards, I!Respond(x, i) PROVE I!TypeOK'
    <3>1. [at |-> "found", card |-> i] \in I!ClientRow
      BY DEF I!ClientRow
    <3>2. QED
      BY <2>4, <3>1 DEF I!Respond
  <2>5. CASE I!Submit(x)
    <3>1. v3' \in [Cards -> I!EntryRow]
      BY <2>1, <2>3, <2>5 DEF I!Submit
    <3>2. v6' \in [Responders -> I!ClientRow]
      BY <2>2, <2>5 DEF I!Submit, I!Reply
    <3>3. QED
      BY <2>5, <3>1, <3>2 DEF I!Submit
  <2>6. CASE I!StoreSecret(x)
    <3>1. v3' \in [Cards -> I!EntryRow]
      BY <2>1, <2>3, <2>6 DEF I!StoreSecret
    <3>2. v6' \in [Responders -> I!ClientRow]
      BY <2>2, <2>6 DEF I!StoreSecret, I!Reply
    <3>3. v5' \subseteq Cards
      BY <2>1, <2>6 DEF I!StoreSecret
    <3>4. QED
      BY <2>6, <3>1, <3>2, <3>3 DEF I!StoreSecret
  <2>7. CASE I!ShowResponse(x)
    BY <2>1, <2>2, <2>7 DEF I!ShowResponse, I!Reply
  <2>8. CASE I!SetResult(x)
    <3>1. v8[v6[x].card] = 0
      BY <2>8 DEF I!SetResult, I!OneAtWork, I!Past
    <3>2. QED
      <4>1. v3' \in [Cards -> I!EntryRow]
        BY <2>1, <2>3, <2>8 DEF I!SetResult
      <4>2. v6' \in [Responders -> I!ClientRow]
        BY <2>2, <2>8 DEF I!SetResult, I!Reply
      <4>3. v8' \in [Cards -> 0..2]
        BY <2>1, <2>8, <3>1 DEF I!SetResult
      <4>4. QED
        BY <2>8, <4>1, <4>2, <4>3 DEF I!SetResult
  <2>9. QED
    BY <1>9, <2>4, <2>5, <2>6, <2>7, <2>8
<1>10. CASE I!Restart
  <2>1. ASSUME NEW x \in Responders PROVE [v6[x] EXCEPT !.at = "idle"] \in I!ClientRow
    BY DEF I!ClientRow
  <2>2. QED
    BY <1>5, <1>10, <2>1 DEF I!Restart
<1>11. CASE UNCHANGED I!vars
  BY <1>11 DEF I!vars
<1>12. QED
  BY <1>1, <1>2, <1>3, <1>6, <1>7, <1>8, <1>9, <1>10, <1>11 DEF I!Next

(* Every step keeps one responder at work, secrets in the vault and one answer. *)
LEMMA CardKept == ASSUME I!AnswerInv, [I!Next]_I!vars PROVE (I!OneAtWork /\ I!SecretKept /\ I!OneAnswer)'
<1> USE DEF I!AnswerInv
<1> DEFINE Goal == (I!OneAtWork /\ I!SecretKept /\ I!OneAnswer)'
<1>a. I!TypeOK
  OBVIOUS
<1>t. I!TypeOK'
  BY CardTyped
<1> USE DEF I!OneAtWork, I!SecretKept, I!OneAnswer, I!Past, I!Knows, I!Entry
<1>1. ASSUME NEW i \in Cards, NEW kind \in I!Kinds, I!AwaitResponse(i, kind) PROVE Goal
  <2>1. /\ v3'[i].responded = FALSE /\ v3'[i].result = FALSE /\ v3'[i].ready = FALSE
        /\ \A j \in Cards \ {i} : v3'[j] = v3[j]
    BY <1>1, <1>a DEF I!AwaitResponse, I!Nobody, I!TypeOK
  <2>2. v4[i] = "none" /\ v9[i] = "none" /\ v8[i] = 0 /\ \A x \in Responders : ~I!Knows(x, i)
    BY <1>1 DEF I!AwaitResponse
  <2>3. UNCHANGED <<v4, v5, v6, v8, v9>>
    BY <1>1 DEF I!AwaitResponse
  <2>4. \A x \in Responders : v6[x].card \in Cards
    BY <1>a DEF I!TypeOK, I!ClientRow
  <2>5. QED
    BY <2>1, <2>2, <2>3, <2>4
<1>2. CASE I!PersistCard
  <2>1. UNCHANGED <<v3, v5, v6, v8>> /\ \A i \in Cards : v4'[i] = "none" => v4[i] = "none"
    BY <1>2, <1>a DEF I!PersistCard, I!TypeOK
  <2>2. \A i \in Cards : v9'[i] \in {v9[i], "unsaved"}
    BY <1>2, <1>a DEF I!PersistCard, I!TypeOK
  <2>3. QED
    BY <2>1, <2>2
<1>3. ASSUME NEW woken \in BOOLEAN, I!TakeResponse(woken) PROVE Goal
  <2>1. UNCHANGED <<v3, v4, v5, v6, v8>>
    BY <1>3 DEF I!TakeResponse
  <2>2. v1.card \in Cards
    BY <1>a DEF I!TypeOK, I!TurnRow
  <2>3. \A i \in Cards \ {v1.card} : v9'[i] = v9[i]
    BY <1>3, <1>a DEF I!TakeResponse, I!TypeOK
  <2>4. /\ v9'[v1.card] # "lost"
        /\ v9'[v1.card] = "answer" => v3[v1.card].result
    BY <1>3, <1>a, <2>2 DEF I!TakeResponse, I!TypeOK
  <2>5. QED
    BY <2>1, <2>2, <2>3, <2>4
<1>4. CASE I!CancelOperation /\ UNCHANGED <<v4, v5, v6, v8, v9>>
  <2>1. \A i \in Cards : \/ v3'[i] = v3[i]
                      \/ /\ v3'[i].responded = v3[i].responded /\ v3'[i].kind = v3[i].kind
                         /\ v3'[i].result = v3[i].result /\ v3'[i].cancelled
    <3>1. ASSUME NEW i \in Cards,
                 v3'[i] = [[v3[i] EXCEPT !.cancelled = TRUE] EXCEPT !.ready = TRUE]
          PROVE /\ v3'[i].responded = v3[i].responded /\ v3'[i].kind = v3[i].kind
                /\ v3'[i].result = v3[i].result /\ v3'[i].cancelled
      BY <3>1, <1>a DEF I!TypeOK, I!EntryRow
    <3>2. \A i \in Cards : v3'[i] = v3[i] \/ v3'[i] = [[v3[i] EXCEPT !.cancelled = TRUE] EXCEPT !.ready = TRUE]
      BY <1>4 DEF I!CancelOperation
    <3>3. QED
      BY <3>1, <3>2
  <2>2. \A x \in Responders : v6[x].card \in Cards
    BY <1>a DEF I!TypeOK, I!ClientRow
  <2>3. QED
    BY <1>4, <2>1, <2>2
<1>5. CASE I!Stop \/ I!EndTurn
  BY <1>4, <1>5 DEF I!Stop, I!EndTurn
<1>6. CASE I!FinishProviderInteractions
  <2>1. \A i \in Cards : v4'[i] = "none" => v4[i] = "none"
    BY <1>6 DEF I!FinishProviderInteractions
  <2>2. QED
    BY <1>6, <2>1 DEF I!FinishProviderInteractions
<1>7. ASSUME NEW x \in Responders, NEW i \in Cards, I!Respond(x, i) PROVE Goal
  <2>1. UNCHANGED <<v3, v4, v5, v8, v9>> /\ v4[i] # "none" /\ v6[x].at = "idle"
    BY <1>7 DEF I!Respond
  <2>2. \A y \in Responders : v6'[y] = v6[y] \/ (y = x /\ v6'[y].at = "found" /\ v6'[y].card = i)
    BY <1>7, <1>a DEF I!Respond, I!TypeOK
  <2>3. QED
    BY <2>1, <2>2
<1>8. ASSUME NEW x \in Responders, I!Submit(x) \/ I!StoreSecret(x) \/ I!ShowResponse(x) \/ I!SetResult(x)
      PROVE Goal
  <2>1. v6[x].card \in Cards /\ \A y \in Responders : v6[y].card \in Cards
    BY <1>a DEF I!TypeOK, I!ClientRow
  <2>2. /\ \A y \in Responders \ {x} : v6'[y] = v6[y]
        /\ v6'[x].card = v6[x].card
        /\ \A i \in Cards \ {v6[x].card} : v3'[i] = v3[i] /\ v4'[i] = v4[i] /\ v8'[i] = v8[i]
        /\ v9' = v9 /\ v5 \subseteq v5' /\ v3'[v6[x].card].kind = v3[v6[x].card].kind
    <3>1. CASE I!Submit(x)
      BY <3>1, <1>a, <2>1 DEF I!Submit, I!Reply, I!TypeOK, I!ClientRow, I!EntryRow
    <3>2. CASE I!StoreSecret(x)
      BY <3>2, <1>a, <2>1 DEF I!StoreSecret, I!Reply, I!TypeOK, I!ClientRow, I!EntryRow
    <3>3. CASE I!ShowResponse(x)
      BY <3>3, <1>a, <2>1 DEF I!ShowResponse, I!Reply, I!TypeOK, I!ClientRow, I!EntryRow
    <3>4. CASE I!SetResult(x)
      BY <3>4, <1>a, <2>1 DEF I!SetResult, I!Reply, I!TypeOK, I!ClientRow, I!EntryRow
    <3>5. QED
      BY <1>8, <3>1, <3>2, <3>3, <3>4
  <2>3. CASE I!Submit(x)
    <3>1. /\ v6[x].at = "found" /\ UNCHANGED <<v4, v5, v8>>
          /\ \/ /\ ~v3[v6[x].card].responded /\ v3'[v6[x].card].responded
                /\ v6'[x].at = IF v3[v6[x].card].kind = "secret" THEN "storing" ELSE "showing"
                /\ v3'[v6[x].card].result = v3[v6[x].card].result
                /\ v3'[v6[x].card].ready = v3[v6[x].card].ready
                /\ v3'[v6[x].card].cancelled = v3[v6[x].card].cancelled
             \/ v3' = v3 /\ v6'[x].at = "idle"
      BY <2>3, <1>a, <2>1 DEF I!Submit, I!Reply, I!TypeOK, I!ClientRow, I!EntryRow
    <3>2. CASE v3' = v3 /\ v6'[x].at = "idle"
      BY <2>1, <2>2, <3>1, <3>2
    <3>3. CASE ~v3[v6[x].card].responded /\ v6'[x].at # "idle"
      <4>1. \A y \in Responders : v6[y].card = v6[x].card => ~I!Past(y)
        BY <3>3, <2>1
      <4>2. v8[v6[x].card] = 0
        BY <3>3, <2>1
      <4>3. I!OneAtWork'
        BY <2>1, <2>2, <3>1, <3>3, <4>1, <4>2
      <4>4. I!SecretKept'
        BY <2>1, <2>2, <3>1, <3>3, <4>1
      <4>5. I!OneAnswer'
        BY <2>1, <2>2, <3>1, <3>3
      <4>6. QED
        BY <4>3, <4>4, <4>5
    <3>4. QED
      BY <3>1, <3>2, <3>3
  <2>4. CASE I!StoreSecret(x)
    <3>1. /\ v6[x].at = "storing" /\ UNCHANGED <<v4, v8>>
          /\ \/ v3' = v3 /\ v6'[x].at = "showing" /\ v6[x].card \in v5'
             \/ /\ v6'[x].at = "idle" /\ v5' = v5
                /\ v3'[v6[x].card].result = v3[v6[x].card].result
                /\ v3'[v6[x].card].ready = v3[v6[x].card].ready
                /\ v3'[v6[x].card].cancelled = v3[v6[x].card].cancelled
      BY <2>4, <1>a, <2>1 DEF I!StoreSecret, I!Reply, I!TypeOK, I!ClientRow, I!EntryRow
    <3>2. QED
      BY <2>1, <2>2, <3>1
  <2>5. CASE I!ShowResponse(x)
    <3>1. /\ v6[x].at = "showing" /\ UNCHANGED <<v3, v5, v8>>
          /\ v6'[x].at \in {"setting", "idle"}
          /\ v4'[v6[x].card] = "none" => v4[v6[x].card] = "none"
      BY <2>5, <1>a, <2>1 DEF I!ShowResponse, I!Reply, I!TypeOK, I!ClientRow, I!EntryRow
    <3>2. QED
      BY <2>1, <2>2, <3>1
  <2>6. CASE I!SetResult(x)
    <3>1. /\ v6[x].at = "setting" /\ UNCHANGED <<v4, v5>> /\ v6'[x].at = "idle"
          /\ v3'[v6[x].card].result /\ v3'[v6[x].card].responded = v3[v6[x].card].responded
          /\ v8'[v6[x].card] = v8[v6[x].card] + 1
      BY <2>6, <1>a, <2>1 DEF I!SetResult, I!Reply, I!TypeOK, I!ClientRow, I!EntryRow
    <3>2. QED
      BY <2>1, <2>2, <3>1
  <2>7. QED
    BY <1>8, <2>3, <2>4, <2>5, <2>6
<1>9. CASE I!Restart
  <2>1. \A x \in Responders : v6'[x].at = "idle" /\ v6'[x].card = v6[x].card
    BY <1>9, <1>a DEF I!Restart, I!TypeOK, I!ClientRow
  <2>2. \A i \in Cards : v4'[i] = "none" => v4[i] = "none"
    BY <1>9 DEF I!Restart
  <2>3. QED
    BY <1>9, <2>1, <2>2 DEF I!Restart
<1>10. CASE UNCHANGED I!vars
  BY <1>10 DEF I!vars
<1>11. QED
  BY <1>1, <1>2, <1>3, <1>5, <1>6, <1>7, <1>8, <1>9, <1>10 DEF I!Next

(* Every step keeps the invariant of the questions. *)
LEMMA CardStep == I!AnswerInv /\ [I!Next]_I!vars => I!AnswerInv'
BY CardTyped, CardKept DEF I!AnswerInv

(* A structured question is answered at most once, for every number of questions *)
(* and of clients that respond (respond, await_response).                        *)
THEOREM QuestionAnsweredOnce == I!Spec => []I!OneAnswer
<1>1. I!AnswerInv => I!OneAnswer
  BY DEF I!AnswerInv
<1>2. QED
  BY <1>1, CardInit, CardStep, PTL DEF I!Spec

(* The invariant of a behaviour of Interactions in the composition. *)
AnswerInvHere == component = "interactions" => I!AnswerInv

(* It holds in every state of a behaviour. *)
LEMMA QuestionsHold == RuntimeSpec => []AnswerInvHere
<1>1. RuntimeInit => AnswerInvHere
  BY CardInit DEF RuntimeInit, AnswerInvHere
<1>2. AnswerInvHere /\ [RuntimeNext]_all => AnswerInvHere'
  <2> SUFFICES ASSUME AnswerInvHere, [RuntimeNext]_all, component' = "interactions" PROVE I!AnswerInv'
    BY DEF AnswerInvHere
  <2>1. component = "interactions" /\ [I!Next]_I!vars
    BY DEF RuntimeNext, all, I!vars
  <2>2. QED
    BY <2>1, CardStep DEF AnswerInvHere
<1>3. QED
  BY <1>1, <1>2, PTL DEF RuntimeSpec

(* OneAnswer in the composition, as its run states it. *)
THEOREM OneAnswerCounts == RuntimeSpec => []OneAnswer
<1>1. AnswerInvHere => OneAnswer
  BY DEF AnswerInvHere, OneAnswer, I!AnswerInv
<1>2. QED
  BY <1>1, QuestionsHold, PTL

-----------------------------------------------------------------------------
(* WorkspaceTools. Slots: v1 call, v2 calls, v3 services, v4 entry, v5 child, v6 *)
(* holder, v7 reader, v8 flags, v9 chunk, v10 stop, v11 file, v12 temp.          *)

(* The rows a tool call moves through have their type. *)
LEMMA ToolRows ==
  /\ \A row \in T!CallRow, at \in {"answered", "cancelled", "asking", "retry", "working", "written", "spawning", "running"} :
       [row EXCEPT !.at = at] \in T!CallRow /\ [row EXCEPT !.at = at].at = at
  /\ \A tool \in T!Tools : [at |-> "first", tool |-> tool] \in T!CallRow
  /\ [at |-> "idle", tool |-> "read"] \in T!CallRow
BY DEF T!CallRow, T!Tools

(* What At does to the calls. *)
LEMMA ToolMoves ==
  ASSUME T!TypeOK, NEW o \in ToolTurns,
         NEW at \in {"answered", "cancelled", "asking", "retry", "working", "written", "spawning", "running"},
         T!At(o, at)
  PROVE  /\ v1' \in [ToolTurns -> T!CallRow] /\ v1'[o].at = at /\ v1'[o].tool = v1[o].tool
         /\ \A p \in ToolTurns \ {o} : v1'[p] = v1[p]
<1>0. v1[o] \in T!CallRow
  BY DEF T!TypeOK
<1>1. /\ [v1[o] EXCEPT !.at = at] \in T!CallRow /\ [v1[o] EXCEPT !.at = at].at = at
      /\ [v1[o] EXCEPT !.at = at].tool = v1[o].tool
  BY <1>0 DEF T!CallRow
<1>2. QED
  BY <1>1 DEF T!TypeOK, T!At

(* The invariant of the processes holds at first. *)
LEMMA ToolInit == T!Init => T!FoundInv
<1> SUFFICES ASSUME T!Init PROVE T!FoundInv
  OBVIOUS
<1>1. T!TypeOK
  BY ToolRows, RuntimeAssumption DEF T!Init, T!TypeOK
<1>2. \A o \in ToolTurns : v1[o].at = "idle" /\ v4[o] = "none" /\ v5[o] = "none" /\ v9[o] = "none"
  BY DEF T!Init
<1>3. T!StepsAgree /\ T!FoundByStop
  BY <1>2 DEF T!StepsAgree, T!FoundByStop
<1>4. QED
  BY <1>1, <1>3 DEF T!FoundInv

(* Every step keeps the invariant of the processes. *)
LEMMA ToolStep == T!FoundInv /\ [T!Next]_T!vars => T!FoundInv'
<1> SUFFICES ASSUME T!FoundInv, [T!Next]_T!vars PROVE T!FoundInv'
  OBVIOUS
<1> USE DEF T!terminal, T!disk
<1>0. T!TypeOK /\ T!StepsAgree /\ T!FoundByStop
  BY DEF T!FoundInv
<1>1. ASSUME NEW o \in ToolTurns, NEW tool \in T!Tools, T!CallTool(o, tool) PROVE T!FoundInv'
  <2>1. /\ v1' \in [ToolTurns -> T!CallRow] /\ v1'[o].at = "first" /\ v1'[o].tool = tool
        /\ \A p \in ToolTurns \ {o} : v1'[p] = v1[p]
    BY <1>0, <1>1, ToolRows DEF T!CallTool, T!TypeOK
  <2>2. v2' \in [ToolTurns -> 0..MaxToolCalls]
    BY <1>0, <1>1, RuntimeAssumption DEF T!CallTool, T!TypeOK
  <2>3. T!TypeOK'
    BY <1>0, <1>1, <2>1, <2>2 DEF T!CallTool, T!TypeOK
  <2>4. T!StepsAgree' /\ T!FoundByStop'
    BY <1>0, <1>1, <2>1 DEF T!CallTool, T!TypeOK, T!StepsAgree, T!FoundByStop
  <2>5. QED
    BY <2>3, <2>4 DEF T!FoundInv
<1>2. ASSUME NEW o \in ToolTurns, T!Authorize(o) PROVE T!FoundInv'
  <2>1. v1[o].at \in {"first", "retry"} /\ \E at \in {"spawning", "working", "asking", "answered"} : T!At(o, at)
    BY <1>2 DEF T!Authorize, T!Ends
  <2>2. /\ v1' \in [ToolTurns -> T!CallRow] /\ \A p \in ToolTurns \ {o} : v1'[p] = v1[p]
        /\ v1'[o].at \in {"spawning", "working", "asking", "answered"} /\ v1'[o].tool = v1[o].tool
    BY <1>0, <2>1, ToolMoves
  <2>3. v4' = v4 \/ v4' = [v4 EXCEPT ![o] = "starting"]
    BY <1>2 DEF T!Authorize
  <2>4. T!TypeOK'
    BY <1>0, <1>2, <2>2, <2>3 DEF T!Authorize, T!Ends, T!TypeOK
  <2>a. /\ v3' \subseteq v3 /\ v3 \ {o} \subseteq v3'
        /\ v1'[o].at = "spawning" => v1[o].tool = "run" /\ v3' = v3
        /\ v1'[o].at = "asking" => v3' = v3
    <3>1. CASE v1[o].tool = "run" /\ T!At(o, "spawning") /\ v3' = v3
      BY <3>1
    <3>2. CASE T!At(o, "working") /\ v3' = v3
      BY <1>0, <3>2, ToolMoves
    <3>3. CASE T!At(o, "asking") /\ v3' = v3
      BY <1>0, <3>3, ToolMoves
    <3>4. CASE T!Ends(o, "answered")
      <4>1. v1'[o].at = "answered"
        BY <1>0, <3>4, ToolMoves DEF T!Ends
      <4>2. QED
        BY <3>4, <4>1 DEF T!Ends
    <3>5. QED
      BY <1>2, <3>1, <3>2, <3>3, <3>4 DEF T!Authorize
  <2>5. T!StepsAgree'
    BY <1>0, <1>2, <2>1, <2>2, <2>3, <2>a DEF T!Authorize, T!TypeOK, T!StepsAgree
  <2>6. T!FoundByStop'
    BY <1>0, <1>2, <2>1, <2>2, <2>3, <2>a DEF T!Authorize, T!TypeOK, T!FoundByStop
  <2>7. QED
    BY <2>4, <2>5, <2>6 DEF T!FoundInv
<1>3. ASSUME NEW o \in ToolTurns, NEW at \in {"answered", "cancelled", "asking", "retry", "working", "written"}, T!At(o, at),
             v1[o].at \in {"asking", "working", "written"}, at \in {"retry", "asking"} => v1[o].at = "asking" /\ v3' = v3,
             v3' \subseteq v3, v3 \ {o} \subseteq v3', v12' \subseteq v12 \cup {o}, v11' \in {v11, o},
             UNCHANGED <<v2, v4, v5, v6, v7, v8, v9>>,
             v10' \in [ToolTurns -> {"none", "terminal", "approvals", "done"}]
      PROVE T!FoundInv'
  <2>1. /\ v1' \in [ToolTurns -> T!CallRow] /\ \A p \in ToolTurns \ {o} : v1'[p] = v1[p]
        /\ v1'[o].at = at /\ v1'[o].tool = v1[o].tool
    BY <1>0, <1>3, ToolMoves
  <2>2. T!TypeOK'
    BY <1>0, <1>3, <2>1 DEF T!TypeOK
  <2>3. T!StepsAgree' /\ T!FoundByStop'
    BY <1>0, <1>3, <2>1 DEF T!StepsAgree, T!FoundByStop
  <2>4. QED
    BY <2>2, <2>3 DEF T!FoundInv
<1>4. ASSUME NEW o \in ToolTurns,
        T!Decided(o) \/ T!ReadDone(o) \/ T!WriteTemporary(o) \/ T!Rename(o)
      PROVE T!FoundInv'
  <2>1. v10' \in [ToolTurns -> {"none", "terminal", "approvals", "done"}]
    BY <1>0, <1>4 DEF T!TypeOK, T!Decided, T!ReadDone, T!WriteTemporary, T!Rename
  <2>2. CASE T!Decided(o)
    BY <1>3, <2>1, <2>2 DEF T!Decided, T!Ends
  <2>3. CASE T!ReadDone(o) \/ T!WriteTemporary(o) \/ T!Rename(o)
    BY <1>3, <2>1, <2>3 DEF T!ReadDone, T!WriteTemporary, T!Rename
  <2>4. QED
    BY <1>4, <2>2, <2>3
<1>5. ASSUME NEW o \in ToolTurns, T!Spawn(o) PROVE T!FoundInv'
  <2> USE DEF T!Spawn
  <2>1. CASE v5' = [v5 EXCEPT ![o] = "up"] /\ UNCHANGED <<v1, v3, v4>>
    <3>1. T!TypeOK'
      BY <1>0, <1>5, <2>1 DEF T!TypeOK
    <3>2. T!StepsAgree' /\ T!FoundByStop'
      BY <1>0, <1>5, <2>1 DEF T!TypeOK, T!StepsAgree, T!FoundByStop
    <3>3. QED
      BY <3>1, <3>2 DEF T!FoundInv
  <2>2. CASE T!Ends(o, "answered") /\ v4' = [v4 EXCEPT ![o] = "none"]
               /\ \E c \in {"none", "dropped"} : v5' = [v5 EXCEPT ![o] = c]
    <3>1. /\ v1' \in [ToolTurns -> T!CallRow] /\ \A p \in ToolTurns \ {o} : v1'[p] = v1[p]
          /\ v1'[o].at = "answered" /\ v3' = v3 \ {o}
      BY <1>0, <2>2, ToolMoves DEF T!Ends
    <3>a. PICK c \in {"none", "dropped"} : v5' = [v5 EXCEPT ![o] = c]
      BY <2>2
    <3>b. v5' \in [ToolTurns -> {"none", "up", "dead", "reaped", "dropped"}]
      BY <1>0, <3>a DEF T!TypeOK
    <3>c. v4' \in [ToolTurns -> {"none", "starting", "active"}] /\ v3' \subseteq ToolTurns
      BY <1>0, <2>2, <3>1 DEF T!TypeOK
    <3>2. T!TypeOK'
      BY <1>0, <1>5, <3>1, <3>b, <3>c DEF T!TypeOK
    <3>3. T!StepsAgree' /\ T!FoundByStop'
      BY <1>0, <1>5, <2>2, <3>1 DEF T!TypeOK, T!StepsAgree, T!FoundByStop
    <3>4. QED
      BY <3>2, <3>3 DEF T!FoundInv
  <2>3. QED
    BY <1>5, <2>1, <2>2
<1>a. ASSUME NEW o \in ToolTurns, T!Register(o) PROVE T!FoundInv'
  <2>1. /\ v1' \in [ToolTurns -> T!CallRow] /\ \A p \in ToolTurns \ {o} : v1'[p] = v1[p]
        /\ v1'[o].at = "running"
    BY <1>0, <1>a, ToolMoves DEF T!Register
  <2>2. T!TypeOK'
    BY <1>0, <1>a, <2>1 DEF T!Register, T!TypeOK
  <2>3. T!StepsAgree' /\ T!FoundByStop'
    BY <1>0, <1>a, <2>1 DEF T!Register, T!TypeOK, T!StepsAgree, T!FoundByStop
  <2>4. QED
    BY <2>2, <2>3 DEF T!FoundInv
<1>6. ASSUME NEW o \in ToolTurns,
        \/ T!ChildExits(o) \/ T!HolderExits(o) \/ T!LimitOutput(o) \/ T!EndOfOutput(o) \/ T!Reap(o) \/ T!WaitFails(o)
        \/ T!Timeout(o) \/ T!Coordinate(o)
      PROVE T!FoundInv'
  <2> USE DEF T!ChildExits, T!HolderExits, T!LimitOutput, T!EndOfOutput, T!Reap, T!WaitFails, T!Timeout, T!Coordinate,
              T!Killed, T!Outcome
  <2>1. /\ UNCHANGED <<v1, v2, v3, v4, v10, v11, v12>>
        /\ v5' \in [ToolTurns -> {"none", "up", "dead", "reaped", "dropped"}]
        /\ v6' \in [ToolTurns -> BOOLEAN] /\ v7' \in [ToolTurns -> {"none", "reading", "done"}]
        /\ v8' \in [ToolTurns -> SUBSET {"cancelled", "output_limited", "timed_out"}]
        /\ v9' \in [ToolTurns -> {"none", "exited", "cancelled", "timed_out", "failed"}]
    <3>1. CASE T!ChildExits(o) \/ T!HolderExits(o)
      <4>1. v6' = [v6 EXCEPT ![o] = TRUE] \/ v6' = [v6 EXCEPT ![o] = FALSE]
        BY <3>1
      <4>2. v6' \in [ToolTurns -> BOOLEAN]
        BY <1>0, <4>1 DEF T!TypeOK
      <4>3. QED
        BY <1>0, <3>1, <4>2 DEF T!TypeOK
    <3>2. CASE T!LimitOutput(o)
      BY <1>0, <3>2 DEF T!TypeOK
    <3>3. CASE T!EndOfOutput(o) \/ T!Reap(o) \/ T!WaitFails(o)
      BY <1>0, <3>3 DEF T!TypeOK
    <3>4. CASE T!Timeout(o)
      BY <1>0, <3>4 DEF T!TypeOK
    <3>5. CASE T!Coordinate(o)
      BY <1>0, <3>5 DEF T!TypeOK
    <3>6. QED
      BY <1>6, <3>1, <3>2, <3>3, <3>4, <3>5
  <2>a. T!TypeOK'
    BY <1>0, <2>1 DEF T!TypeOK
  <2>b. /\ \A p \in ToolTurns \ {o} : v5'[p] = v5[p] /\ v9'[p] = v9[p]
        /\ v5'[o] \in {"up", "dead"} => v5[o] \in {"up", "dead"}
        /\ v5[o] \in {"reaped", "dropped"} => v5'[o] = v5[o]
        /\ v9'[o] # v9[o] => v5[o] \in {"reaped", "dropped"} /\ v1[o].at = "running"
    BY <1>0, <1>6 DEF T!TypeOK, T!StepsAgree
  <2>2. T!StepsAgree' /\ T!FoundByStop'
    BY <1>0, <2>1, <2>b DEF T!StepsAgree, T!FoundByStop
  <2>4. QED
    BY <2>a, <2>2 DEF T!FoundInv
<1>7. ASSUME NEW o \in ToolTurns, T!RunReturns(o) PROVE T!FoundInv'
  <2>1. /\ v1' \in [ToolTurns -> T!CallRow] /\ \A p \in ToolTurns \ {o} : v1'[p] = v1[p]
        /\ v1'[o].at = "answered"
    BY <1>0, <1>7, ToolMoves DEF T!RunReturns, T!Ends
  <2>2. T!TypeOK'
    BY <1>0, <1>7, <2>1 DEF T!RunReturns, T!Ends, T!TypeOK
  <2>3. T!StepsAgree' /\ T!FoundByStop'
    BY <1>0, <1>7, <2>1 DEF T!RunReturns, T!Ends, T!TypeOK, T!StepsAgree, T!FoundByStop
  <2>4. QED
    BY <2>2, <2>3 DEF T!FoundInv
<1>8. ASSUME NEW o \in ToolTurns, T!Stop(o) \/ T!StopTerminal(o) PROVE T!FoundInv'
  <2>1. T!TypeOK'
    BY <1>0, <1>8 DEF T!Stop, T!StopTerminal, T!Killed, T!TypeOK
  <2>2. T!StepsAgree' /\ T!FoundByStop'
    BY <1>0, <1>8 DEF T!Stop, T!StopTerminal, T!Killed, T!TypeOK, T!StepsAgree, T!FoundByStop
  <2>3. QED
    BY <2>1, <2>2 DEF T!FoundInv
<1>9. ASSUME NEW o \in ToolTurns, T!StopApprovals(o) PROVE T!FoundInv'
  <2>1. v10' \in [ToolTurns -> {"none", "terminal", "approvals", "done"}]
    BY <1>0, <1>9 DEF T!StopApprovals, T!TypeOK
  <2>2. CASE v1[o].at = "asking"
    BY <1>3, <1>9, <2>1, <2>2 DEF T!StopApprovals, T!Ends
  <2>3. CASE v1[o].at # "asking"
    <3>1. T!TypeOK'
      BY <1>0, <1>9, <2>1, <2>3 DEF T!StopApprovals, T!TypeOK
    <3>2. T!StepsAgree' /\ T!FoundByStop'
      BY <1>0, <1>9, <2>3 DEF T!StopApprovals, T!StepsAgree, T!FoundByStop
    <3>3. QED
      BY <3>1, <3>2 DEF T!FoundInv
  <2>4. QED
    BY <2>2, <2>3
<1>10. CASE T!Crash
  <2>1. v1' \in [ToolTurns -> T!CallRow] /\ \A o \in ToolTurns : v1'[o].at = "cancelled"
    BY <1>0, <1>10, ToolRows DEF T!Crash, T!TypeOK
  <2>2. T!TypeOK'
    BY <1>0, <1>10, <2>1 DEF T!Crash, T!TypeOK
  <2>3. T!StepsAgree' /\ T!FoundByStop'
    BY <1>0, <1>10, <2>1 DEF T!Crash, T!StepsAgree, T!FoundByStop
  <2>4. QED
    BY <2>2, <2>3 DEF T!FoundInv
<1>11. CASE UNCHANGED T!vars
  BY <1>0, <1>11 DEF T!vars, T!FoundInv, T!TypeOK, T!StepsAgree, T!FoundByStop
<1>12. QED
  BY <1>1, <1>2, <1>4, <1>5, <1>a, <1>6, <1>7, <1>8, <1>9, <1>10, <1>11 DEF T!Next

(* The invariant of a behaviour of WorkspaceTools in the composition. *)
FoundInvHere == component = "tools" => T!FoundInv

(* It holds in every state of a behaviour. *)
LEMMA ToolsHold == RuntimeSpec => []FoundInvHere
<1>1. RuntimeInit => FoundInvHere
  BY ToolInit DEF RuntimeInit, FoundInvHere
<1>2. FoundInvHere /\ [RuntimeNext]_all => FoundInvHere'
  <2> SUFFICES ASSUME FoundInvHere, [RuntimeNext]_all, component' = "tools" PROVE T!FoundInv'
    BY DEF FoundInvHere
  <2>1. component = "tools" /\ [T!Next]_T!vars
    BY DEF RuntimeNext, all, T!vars
  <2>2. QED
    BY <2>1, ToolStep DEF FoundInvHere
<1>3. QED
  BY <1>1, <1>2, PTL DEF RuntimeSpec

(* For every number of turns and calls, a command whose process is not yet reaped  *)
(* stays where a stop looks for it, whichever of its exit, deadline, output limit   *)
(* and a stop comes first (coordinate_terminal, computer_tools).                    *)
THEOREM FoundByStopAlways == RuntimeSpec => []FoundByStop
<1>1. FoundInvHere => FoundByStop
  BY DEF FoundInvHere, FoundByStop, T!FoundInv
<1>2. QED
  BY <1>1, ToolsHold, PTL

-----------------------------------------------------------------------------
(* McpSessions. Slots: v1 kind, v2 op, v3 offered, v4 at, v5 page, v6 tools, v7 *)
(* line, v8 process, v9 performed.                                              *)

(* The operations, waits, failures and outcomes by name. *)
LEMMA McpNames ==
  /\ S!Operations = {"discover", "health", "call"} /\ S!Waits = {"initialize", "list", "call", "post"}
  /\ S!Failures = {"protocol", "timeout", "io", "http", "auth", "forbidden", "too_many"}
  /\ S!Outcomes = {"ok", "dropped", "protocol", "timeout", "io", "http", "auth", "forbidden", "too_many"}
BY DEF S!Operations, S!Waits, S!Failures, S!Outcomes

(* A page adds its tools to those of the pages before. *)
LEMMA OnePageMore == \A p, e \in Nat : (p + 1) * e = p * e + e
OBVIOUS

(* The invariant of an MCP operation holds at first. *)
LEMMA McpInit == S!Init => S!McpInv
<1> SUFFICES ASSUME S!Init PROVE S!McpInv
  OBVIOUS
<1>1. S!TypeOK
  <2>1. 0 \in 0..McpPages /\ 0 \in 0..2 * McpTools
    BY RuntimeAssumption
  <2>2. v1 \in {"local", "remote", "rest"} /\ v2 \in S!Operations /\ v4 = "start" /\ v5 = 0 /\ v6 = 0
        /\ v7 = "none" /\ v8 = "none" /\ v9 = FALSE
        /\ v3 \in [pages : 1..McpPages + 1, each : 0..McpTools]
    BY DEF S!Init
  <2>3. QED
    BY <2>1, <2>2 DEF S!TypeOK
<1>2. S!StagesKnow /\ S!OutcomeHolds
  BY McpNames DEF S!Init, S!StagesKnow, S!OutcomeHolds
<1>3. QED
  BY <1>1, <1>2 DEF S!McpInv

(* An operation may end from each of its waits, with success only after the last. *)
LEMMA McpReturns ==
  ASSUME S!McpInv, NEW outcome \in S!Outcomes, S!Returns(outcome),
         v4 \in S!Waits \cup {"closing"}, outcome = "ok" => v4 = "closing"
  PROVE  S!McpInv'
<1> USE McpNames DEF S!Returns, S!McpInv
<1>1. v8' \in {"none", "gone"}
  BY DEF S!TypeOK, S!Dropped
<1>2. S!TypeOK'
  BY <1>1 DEF S!TypeOK
<1>3. S!StagesKnow'
  BY DEF S!StagesKnow
<1>4. S!OutcomeHolds'
  BY <1>1 DEF S!StagesKnow, S!PagesRead, S!OutcomeHolds
<1>5. QED
  BY <1>2, <1>3, <1>4

(* Every step keeps the invariant of an MCP operation. *)
LEMMA McpStep == S!McpInv /\ [S!Next]_S!vars => S!McpInv'
<1> SUFFICES ASSUME S!McpInv, [S!Next]_S!vars PROVE S!McpInv'
  OBVIOUS
<1> USE McpNames
<1>0. S!TypeOK /\ S!StagesKnow /\ S!OutcomeHolds
  BY DEF S!McpInv
<1>1. CASE S!Answers
  <2>1. S!TypeOK'
    BY <1>0, <1>1 DEF S!Answers, S!TypeOK
  <2>2. S!StagesKnow' /\ S!OutcomeHolds'
    BY <1>0, <1>1 DEF S!Answers, S!TypeOK, S!StagesKnow, S!PagesRead, S!OutcomeHolds
  <2>3. QED
    BY <2>1, <2>2 DEF S!McpInv
<1>2. CASE S!Performs
  <2>1. S!TypeOK'
    BY <1>0, <1>2 DEF S!Performs, S!TypeOK
  <2>2. S!StagesKnow' /\ S!OutcomeHolds'
    BY <1>0, <1>2 DEF S!Performs, S!StagesKnow, S!PagesRead, S!OutcomeHolds
  <2>3. QED
    BY <2>1, <2>2 DEF S!McpInv
<1>3. CASE S!Start
  <2>1. S!TypeOK'
    BY <1>0, <1>3 DEF S!Start, S!TypeOK
  <2>2. S!StagesKnow' /\ S!OutcomeHolds'
    BY <1>0, <1>3 DEF S!Start, S!StagesKnow, S!PagesRead, S!OutcomeHolds
  <2>3. QED
    BY <2>1, <2>2 DEF S!McpInv
<1>4. CASE S!Initialized
  <2>1. /\ v2 = "discover" => v4' = "list"
        /\ v2 = "call" => v4' = "call"
        /\ v2 = "health" => v4' = "closing"
        /\ v2 \in {"discover", "call", "health"}
        /\ v4 = "initialize" /\ v7' = "none" /\ UNCHANGED <<v1, v2, v3, v5, v6, v8, v9>>
    BY <1>0, <1>4 DEF S!Initialized, S!Takes, S!TypeOK
  <2>2. v3.each \in Nat
    BY <1>0 DEF S!TypeOK
  <2>3. S!TypeOK'
    BY <1>0, <2>1 DEF S!TypeOK
  <2>4. v5 = 0 /\ v6 = 0 /\ v1 # "rest" /\ 0 = 0 * v3.each
    BY <1>0, <2>1, <2>2 DEF S!StagesKnow
  <2>5. S!StagesKnow' /\ S!OutcomeHolds'
    BY <1>0, <2>1, <2>4, RuntimeAssumption DEF S!StagesKnow, S!PagesRead, S!OutcomeHolds
  <2>6. QED
    BY <2>3, <2>5 DEF S!McpInv
<1>5. CASE S!Listed
  <2>1. /\ v4 = "list" /\ v2 = "discover" /\ v1 # "rest" /\ v5 < McpPages /\ v6 <= McpTools
        /\ v6 = v5 * v3.each /\ v5 \in Nat /\ v6 \in Nat /\ v3.each \in 0..McpTools /\ v3.pages \in Nat
    BY <1>0, <1>5 DEF S!Listed, S!StagesKnow, S!PagesRead, S!TypeOK
  <2>2. (v5 + 1) * v3.each = v5 * v3.each + v3.each
    <3>1. v5 \in Nat /\ v3.each \in Nat
      BY <2>1, RuntimeAssumption
    <3>2. QED
      BY <3>1, OnePageMore
  <2>3. v6' = v5' * v3.each /\ v5' = v5 + 1 /\ v5' \in 0..McpPages /\ v6' \in 0..2 * McpTools
        /\ UNCHANGED <<v1, v2, v3, v9>>
    BY <1>5, <2>1, <2>2, RuntimeAssumption DEF S!Listed, S!Takes
  <2>4. CASE v4' = "too_many" /\ v8' = S!Dropped /\ v7' = "none"
    <3>1. v8' \in {"none", "gone"}
      BY <1>0, <2>4 DEF S!Dropped, S!TypeOK
    <3>2. S!TypeOK'
      BY <1>0, <2>3, <2>4, <3>1 DEF S!TypeOK
    <3>3. S!StagesKnow' /\ S!OutcomeHolds'
      BY <2>4, <3>1 DEF S!StagesKnow, S!OutcomeHolds
    <3>4. QED
      BY <3>2, <3>3 DEF S!McpInv
  <2>5. CASE v6' <= McpTools /\ v5 + 1 = v3.pages /\ S!Takes("closing")
    <3>1. S!TypeOK'
      BY <1>0, <2>3, <2>5 DEF S!TypeOK, S!Takes
    <3>2. S!StagesKnow' /\ S!OutcomeHolds'
      BY <1>0, <2>1, <2>3, <2>5 DEF S!StagesKnow, S!PagesRead, S!OutcomeHolds, S!Takes
    <3>3. QED
      BY <3>1, <3>2 DEF S!McpInv
  <2>6. CASE v6' <= McpTools /\ v5 + 1 # McpPages /\ S!Takes("list")
    <3>1. S!TypeOK'
      BY <1>0, <2>3, <2>6 DEF S!TypeOK, S!Takes
    <3>2. v5' < McpPages
      BY <2>1, <2>3, <2>6, RuntimeAssumption
    <3>3. S!StagesKnow' /\ S!OutcomeHolds'
      BY <1>0, <2>1, <2>3, <2>6, <3>2 DEF S!StagesKnow, S!PagesRead, S!OutcomeHolds, S!Takes
    <3>4. QED
      BY <3>1, <3>3 DEF S!McpInv
  <2>7. QED
    BY <1>5, <2>4, <2>5, <2>6 DEF S!Listed, S!LastPage, S!OutOfPages
<1>6. CASE S!Called
  <2>1. v4 \in {"call", "post"} /\ v4' = "closing" /\ v7 = "response" /\ v7' = "none"
        /\ UNCHANGED <<v1, v2, v3, v5, v8, v9>> /\ (v6' = 2 \/ v6' = v6)
    BY <1>6 DEF S!Called, S!Takes
  <2>2. v6' \in 0..2 * McpTools
    BY <1>0, <2>1, RuntimeAssumption DEF S!TypeOK
  <2>3. S!TypeOK'
    BY <1>0, <2>1, <2>2 DEF S!TypeOK
  <2>4. S!StagesKnow' /\ S!OutcomeHolds'
    BY <1>0, <2>1 DEF S!StagesKnow, S!PagesRead, S!OutcomeHolds
  <2>5. QED
    BY <2>3, <2>4 DEF S!McpInv
<1>7. CASE S!Misread
  BY <1>7, McpReturns DEF S!Misread
<1>8. CASE S!Gone
  <2>1. S!Returns("protocol") \/ S!Returns("http")
    BY <1>8 DEF S!Gone
  <2>2. QED
    BY <1>8, <2>1, McpReturns DEF S!Gone
<1>9. CASE S!Status
  BY <1>9, McpReturns DEF S!Status
<1>10. CASE S!Timeout
  <2>1. S!Returns("timeout") \/ S!Returns("http")
    BY <1>10 DEF S!Timeout
  <2>2. QED
    BY <1>10, <2>1, McpReturns DEF S!Timeout
<1>11. CASE S!Close
  BY <1>11, McpReturns DEF S!Close
<1>12. CASE S!CallerDrops
  BY <1>12, McpReturns DEF S!CallerDrops
<1>13. CASE UNCHANGED S!vars
  BY <1>0, <1>13 DEF S!vars, S!McpInv, S!TypeOK, S!StagesKnow, S!PagesRead, S!OutcomeHolds
<1>14. QED
  BY <1>1, <1>2, <1>3, <1>4, <1>5, <1>6, <1>7, <1>8, <1>9, <1>10, <1>11, <1>12, <1>13 DEF S!Next

(* The invariant of a behaviour of McpSessions in the composition. *)
McpInvHere == component = "mcp" => S!McpInv

(* It holds in every state of a behaviour. *)
LEMMA McpHolds == RuntimeSpec => []McpInvHere
<1>1. RuntimeInit => McpInvHere
  BY McpInit DEF RuntimeInit, McpInvHere
<1>2. McpInvHere /\ [RuntimeNext]_all => McpInvHere'
  <2> SUFFICES ASSUME McpInvHere, [RuntimeNext]_all, component' = "mcp" PROVE S!McpInv'
    BY DEF McpInvHere
  <2>1. component = "mcp" /\ [S!Next]_S!vars
    BY DEF RuntimeNext, all, S!vars
  <2>2. QED
    BY <2>1, McpStep DEF McpInvHere
<1>3. QED
  BY <1>1, <1>2, PTL DEF RuntimeSpec

(* However an MCP operation ends, no child process is left, a discovery has every  *)
(* tool of every page and a call that succeeded was performed, for every number of *)
(* pages and tools.                                                                *)
THEOREM McpOutcomes == RuntimeSpec => []OutcomeHolds
<1>1. McpInvHere => OutcomeHolds
  BY DEF McpInvHere, OutcomeHolds, S!McpInv
<1>2. QED
  BY <1>1, McpHolds, PTL

-----------------------------------------------------------------------------
(* CodexClient. Slots: v1 phase, v2 slot, v3 route, v4 rpc, v5 asked, v6 reader, v7 *)
(* turn, v8 stream, v9 listening.                                                   *)

(* What a Codex turn's stream carries. *)
CodexEvents == C!Terminals \cup {"event"}

(* The terminal events, the empty route and the routes of clients. *)
LEMMA CodexNames ==
  /\ C!Terminals = {"Completed", "Cancelled", "Failed"} /\ CodexEvents = {"Completed", "Cancelled", "Failed", "event"}
  /\ C!NoRoute \in C!RouteRow /\ C!NoRoute.of = 0
  /\ \A g \in C!Clients : g # 0
  /\ \A g \in C!Clients : [of |-> g, turn |-> FALSE] \in C!RouteRow /\ [of |-> g, turn |-> FALSE] # C!NoRoute
BY RuntimeAssumption DEF C!Terminals, CodexEvents, C!NoRoute, C!RouteRow, C!Clients

(* A stream that has ended stays ended, and a terminal event ends it. *)
LEMMA EndedAfter ==
  ASSUME NEW s \in Seq(CodexEvents), NEW e \in CodexEvents
  PROVE  /\ Append(s, e) \in Seq(CodexEvents)
         /\ (\E x \in C!Range(s) : x \in C!Terminals) => \E x \in C!Range(Append(s, e)) : x \in C!Terminals
         /\ e \in C!Terminals => \E x \in C!Range(Append(s, e)) : x \in C!Terminals
<1>1. Append(s, e) \in Seq(CodexEvents)
  OBVIOUS
<1>2. \A i \in DOMAIN s : i \in DOMAIN Append(s, e) /\ Append(s, e)[i] = s[i]
  OBVIOUS
<1>3. Len(s) + 1 \in DOMAIN Append(s, e) /\ Append(s, e)[Len(s) + 1] = e
  OBVIOUS
<1>4. QED
  BY <1>1, <1>2, <1>3 DEF C!Range

(* The invariant of the routes holds at first. *)
LEMMA CodexInit == C!Init => C!StrandInv
<1> SUFFICES ASSUME C!Init PROVE C!StrandInv
  OBVIOUS
<1>1. C!TypeOK
  BY CodexNames DEF C!Init, C!TypeOK, C!TurnRow, C!NoOne, CodexEvents
<1>2. \A o \in CodexTurns : C!RouteOwned(o)
  BY DEF C!Init, C!RouteOwned, C!At
<1>3. C!ReadersToldOf
  BY DEF C!Init, C!ReadersToldOf
<1>4. QED
  BY <1>1, <1>2, <1>3 DEF C!StrandInv

(* What the helpers of the actions do. *)
LEMMA TurnGoesTo ==
  ASSUME C!TypeOK, NEW o \in CodexTurns,
         NEW step \in {"thread", "routing", "registered", "checked", "waiting", "given", "failed", "done"}, C!Goto(o, step)
  PROVE  /\ v7' \in [CodexTurns -> C!TurnRow]
         /\ v7'[o].at = step /\ v7'[o].of = v7[o].of
         /\ \A p \in CodexTurns \ {o} : v7'[p] = v7[p]
<1>1. v7[o] \in C!TurnRow
  BY DEF C!TypeOK
<1>2. [v7[o] EXCEPT !.at = step] \in C!TurnRow
  BY <1>1 DEF C!TurnRow
<1>3. QED
  BY <1>1, <1>2 DEF C!TypeOK, C!Goto, C!TurnRow

(* Taking a client for a turn leaves it up and brings none back. *)
LEMMA ClientUsed ==
  ASSUME C!TypeOK, NEW g \in C!Clients, C!UseClient(g)
  PROVE  /\ v1' \in [C!Clients -> {"none", "up", "failing", "down"}] /\ v2' \in {0} \cup C!Clients
         /\ v1'[g] = "up"
         /\ \A h \in C!Clients : v1'[h] = "down" => v1[h] = "down"
BY DEF C!TypeOK, C!UseClient, C!Alive

(* Failing what a client still owes brings no client back. *)
LEMMA PendingFailed ==
  ASSUME C!TypeOK, NEW g \in C!Clients, v1[g] = "up", C!FailPending(g)
  PROVE  /\ v1' \in [C!Clients -> {"none", "up", "failing", "down"}]
         /\ v4' \in [CodexTurns -> {"none", "pending", "ok", "error"}]
         /\ \A h \in C!Clients : v1'[h] = "down" => v1[h] = "down"
BY DEF C!TypeOK, C!FailPending

(* What an event does to the streams. *)
LEMMA EventSent ==
  ASSUME C!TypeOK, NEW o \in CodexTurns, NEW e \in CodexEvents, C!Send(o, e)
  PROVE  /\ v8' \in [CodexTurns -> Seq(CodexEvents)]
         /\ \A p \in CodexTurns : C!Ended(p) => C!Ended(p)'
         /\ e \in C!Terminals => C!Ended(o)'
<1>1. v8 \in [CodexTurns -> Seq(CodexEvents)]
  BY DEF C!TypeOK, CodexEvents
<1>2. v8'[o] = Append(v8[o], e) /\ \A p \in CodexTurns \ {o} : v8'[p] = v8[p]
  BY <1>1 DEF C!Send
<1>3. v8' \in [CodexTurns -> Seq(CodexEvents)]
  BY <1>1, EndedAfter DEF C!Send
<1>4. QED
  BY <1>1, <1>2, <1>3, EndedAfter DEF C!Ended

(* A turn that a step does not concern. *)
LEMMA OwnedStill ==
  ASSUME NEW o \in CodexTurns, C!TypeOK, C!RouteOwned(o), v3'[o] = v3[o], v7'[o] = v7[o],
         o \in v9 => o \in v9', C!Ended(o) => C!Ended(o)',
         \A h \in C!Clients : v1'[h] = "down" => v1[h] = "down"
  PROVE  C!RouteOwned(o)'
<1>1. v7[o].of = 0 \/ v7[o].of \in C!Clients
  BY DEF C!TypeOK, C!TurnRow
<1>2. QED
  BY <1>1 DEF C!RouteOwned, C!At

(* Every step keeps the invariant of the routes. *)
LEMMA CodexStep == C!StrandInv /\ [C!Next]_C!vars => C!StrandInv'
<1> SUFFICES ASSUME C!StrandInv, [C!Next]_C!vars PROVE C!StrandInv'
  OBVIOUS
<1> USE CodexNames
<1>0. /\ C!TypeOK /\ C!ReadersToldOf /\ \A o \in CodexTurns : C!RouteOwned(o)
      /\ v3 \in [CodexTurns -> C!RouteRow] /\ v7 \in [CodexTurns -> C!TurnRow]
      /\ v8 \in [CodexTurns -> Seq(CodexEvents)] /\ v6 \in [C!Clients -> CodexTurns \cup {C!NoOne}]
      /\ \A o \in CodexTurns : v7[o].of = 0 \/ v7[o].of \in C!Clients
  BY DEF C!StrandInv, C!TypeOK, C!TurnRow, CodexEvents
<1>a. ASSUME v8' = v8 PROVE (\A o \in CodexTurns : C!Ended(o) <=> C!Ended(o)') /\ (v6' = v6 => C!ReadersToldOf')
  BY <1>0, <1>a DEF C!Ended, C!ReadersToldOf
<1>b. ASSUME UNCHANGED <<v3, v7, v9>>, C!TypeOK', C!ReadersToldOf', \A o \in CodexTurns : C!Ended(o) => C!Ended(o)',
             \A h \in C!Clients : v1'[h] = "down" => v1[h] = "down"
      PROVE C!StrandInv'
  BY <1>0, <1>b, OwnedStill DEF C!StrandInv
<1>c. ASSUME UNCHANGED <<v6, v8>>, C!TypeOK', NEW o \in CodexTurns, C!RouteOwned(o)',
             \A p \in CodexTurns \ {o} : v3'[p] = v3[p] /\ v7'[p] = v7[p] /\ (p \in v9 => p \in v9'),
             \A h \in C!Clients : v1'[h] = "down" => v1[h] = "down"
      PROVE C!StrandInv'
  BY <1>0, <1>a, <1>c, OwnedStill DEF C!StrandInv
<1>1. ASSUME NEW g \in C!Clients, C!AnyCall(g) \/ \E o \in CodexTurns : C!Resolve(o, g) PROVE C!StrandInv'
  <2>1. C!UseClient(g) /\ UNCHANGED <<v3, v4, v6, v7, v8, v9>> /\ v5' \subseteq v5
    BY <1>1 DEF C!AnyCall, C!Resolve
  <2>2. C!TypeOK'
    BY <1>0, <2>1, ClientUsed DEF C!TypeOK
  <2>3. QED
    BY <1>0, <1>a, <1>b, <2>1, <2>2, ClientUsed
<1>2. ASSUME NEW g \in C!Clients, NEW o \in CodexTurns, C!Start(o, g) PROVE C!StrandInv'
  <2>1. C!UseClient(g) /\ C!Goto(o, "thread") /\ UNCHANGED <<v3, v4, v5, v6, v8, v9>> /\ v7[o].at = "idle"
    BY <1>2 DEF C!Start, C!At
  <2>2. C!TypeOK'
    BY <1>0, <2>1, ClientUsed, TurnGoesTo DEF C!TypeOK
  <2>3. C!RouteOwned(o)'
    BY <1>0, <2>1, TurnGoesTo DEF C!RouteOwned, C!At
  <2>4. QED
    BY <1>0, <1>c, <2>1, <2>2, <2>3, ClientUsed, TurnGoesTo
<1>3. ASSUME NEW o \in CodexTurns, C!ThreadAnswered(o) PROVE C!StrandInv'
  <2>1. PICK step \in {"routing", "failed"} : C!Goto(o, step)
    BY <1>3 DEF C!ThreadAnswered
  <2>2. UNCHANGED <<v1, v2, v3, v4, v5, v6, v8, v9>> /\ v7[o].at = "thread"
    BY <1>3 DEF C!ThreadAnswered, C!At
  <2>3. C!TypeOK'
    BY <1>0, <2>1, <2>2, TurnGoesTo DEF C!TypeOK
  <2>4. C!RouteOwned(o)'
    BY <1>0, <2>1, <2>2, TurnGoesTo DEF C!RouteOwned, C!At
  <2>5. QED
    BY <1>0, <1>c, <2>1, <2>2, <2>3, <2>4, TurnGoesTo
<1>4. ASSUME NEW g \in C!Clients, NEW o \in CodexTurns, C!TakeClient(o, g) PROVE C!StrandInv'
  <2>1. /\ C!UseClient(g) /\ v7' = [v7 EXCEPT ![o] = [at |-> "taken", of |-> g]] /\ UNCHANGED <<v3, v4, v5, v6, v8, v9>>
        /\ v7[o].at = "routing"
    BY <1>4 DEF C!TakeClient, C!At
  <2>2. v7' \in [CodexTurns -> C!TurnRow] /\ v7'[o].at = "taken" /\ v7'[o].of = g
        /\ \A p \in CodexTurns \ {o} : v7'[p] = v7[p]
    <3>1. [at |-> "taken", of |-> g] \in C!TurnRow
      BY DEF C!TurnRow
    <3>2. QED
      BY <1>0, <2>1, <3>1
  <2>3. C!TypeOK'
    BY <1>0, <2>1, <2>2, ClientUsed DEF C!TypeOK
  <2>4. C!RouteOwned(o)'
    BY <1>0, <2>1, <2>2 DEF C!RouteOwned, C!At
  <2>5. QED
    BY <1>0, <1>c, <2>1, <2>2, <2>3, <2>4, ClientUsed
<1>5. ASSUME NEW o \in CodexTurns, C!RegisterRoute(o) PROVE C!StrandInv'
  <2>1. /\ C!Goto(o, "registered") /\ v7[o].at = "taken" /\ C!Send(o, "event") /\ v9' = v9 \cup {o}
        /\ v3' = [v3 EXCEPT ![o] = [of |-> v7[o].of, turn |-> FALSE]] /\ UNCHANGED <<v1, v2, v4, v5, v6>>
    BY <1>5 DEF C!RegisterRoute, C!At
  <2>2. v7[o].of \in C!Clients
    BY <1>0, <2>1 DEF C!RouteOwned
  <2>3. v3' \in [CodexTurns -> C!RouteRow] /\ v3'[o] # C!NoRoute /\ v3'[o].of = v7[o].of
        /\ \A p \in CodexTurns \ {o} : v3'[p] = v3[p]
    BY <1>0, <2>1, <2>2
  <2>4. C!TypeOK'
    BY <1>0, <2>1, <2>3, TurnGoesTo, EventSent DEF C!TypeOK, CodexEvents
  <2>5. C!RouteOwned(o)'
    BY <1>0, <2>1, <2>2, <2>3, TurnGoesTo DEF C!RouteOwned, C!At
  <2>6. \A p \in CodexTurns : C!Ended(p) => C!Ended(p)'
    BY <1>0, <2>1, EventSent
  <2>7. C!ReadersToldOf'
    BY <1>0, <2>1, <2>6 DEF C!ReadersToldOf
  <2>8. \A p \in CodexTurns \ {o} : C!RouteOwned(p)'
    BY <1>0, <2>1, <2>3, <2>6, TurnGoesTo, OwnedStill
  <2>9. QED
    BY <2>4, <2>5, <2>7, <2>8 DEF C!StrandInv
<1>d. ASSUME NEW o \in CodexTurns, C!Refuse(o), UNCHANGED <<v1, v2, v5, v6, v8>> PROVE C!StrandInv'
  <2>1. /\ C!Goto(o, "failed") /\ v3' = [v3 EXCEPT ![o] = C!NoRoute] /\ v4' = [v4 EXCEPT ![o] = "none"]
        /\ v9' = v9 \ {o}
    BY <1>d DEF C!Refuse, C!RemoveRoute
  <2>2. C!TypeOK'
    BY <1>0, <1>d, <2>1, TurnGoesTo DEF C!TypeOK
  <2>3. C!RouteOwned(o)'
    BY <1>0, <1>d, <2>1, TurnGoesTo DEF C!RouteOwned, C!At
  <2>4. QED
    BY <1>0, <1>c, <1>d, <2>1, <2>2, <2>3, TurnGoesTo
<1>6. ASSUME NEW o \in CodexTurns, C!RequestChecks(o) PROVE C!StrandInv'
  <2>1. v7[o].at = "registered" /\ UNCHANGED <<v1, v2, v5, v6, v8>>
    BY <1>6 DEF C!RequestChecks, C!At
  <2>2. CASE C!Alive(v7[o].of)
    <3>1. v1[v7[o].of] = "up" /\ C!Goto(o, "checked") /\ UNCHANGED <<v3, v4, v9>>
      BY <1>6, <2>2 DEF C!RequestChecks, C!Alive
    <3>2. C!TypeOK'
      BY <1>0, <2>1, <3>1, TurnGoesTo DEF C!TypeOK
    <3>3. C!RouteOwned(o)'
      BY <1>0, <2>1, <3>1, TurnGoesTo DEF C!RouteOwned, C!At
    <3>4. QED
      BY <1>0, <1>c, <2>1, <3>1, <3>2, <3>3, TurnGoesTo
  <2>3. CASE ~C!Alive(v7[o].of)
    BY <1>6, <1>d, <2>1, <2>3 DEF C!RequestChecks
  <2>4. QED
    BY <2>2, <2>3
<1>7. ASSUME NEW o \in CodexTurns, C!Request(o) PROVE C!StrandInv'
  <2>1. v7[o].at = "checked" /\ UNCHANGED <<v1, v2, v5, v6, v8>>
    BY <1>7 DEF C!Request, C!At
  <2>2. CASE C!Refuse(o)
    BY <1>d, <2>1, <2>2
  <2>3. CASE ~C!Refuse(o)
    <3>1. v4' = [v4 EXCEPT ![o] = "pending"] /\ C!Goto(o, "waiting") /\ UNCHANGED <<v3, v9>>
      BY <1>7, <2>3 DEF C!Request
    <3>2. C!TypeOK'
      BY <1>0, <2>1, <3>1, TurnGoesTo DEF C!TypeOK
    <3>3. C!RouteOwned(o)'
      BY <1>0, <2>1, <3>1, TurnGoesTo DEF C!RouteOwned, C!At
    <3>4. QED
      BY <1>0, <1>c, <2>1, <3>1, <3>2, <3>3, TurnGoesTo
  <2>4. QED
    BY <2>2, <2>3
<1>8. ASSUME NEW o \in CodexTurns, C!RequestFails(o) PROVE C!StrandInv'
  BY <1>8, <1>d DEF C!RequestFails
<1>9. ASSUME NEW o \in CodexTurns, C!SetTurn(o) PROVE C!StrandInv'
  <2>1. v7[o].at = "waiting" /\ v4' = [v4 EXCEPT ![o] = "none"] /\ UNCHANGED <<v1, v2, v5, v6, v8>>
    BY <1>9 DEF C!SetTurn, C!At
  <2>2. CASE v3[o] # C!NoRoute /\ v3' = [v3 EXCEPT ![o].turn = TRUE] /\ C!Goto(o, "given") /\ v9' = v9
    <3>1. v3' \in [CodexTurns -> C!RouteRow] /\ v3'[o].of = v3[o].of /\ v3'[o] # C!NoRoute
          /\ \A p \in CodexTurns \ {o} : v3'[p] = v3[p]
      <4>1. v3[o] \in C!RouteRow
        BY <1>0
      <4>2. [v3[o] EXCEPT !.turn = TRUE] \in C!RouteRow /\ [v3[o] EXCEPT !.turn = TRUE].of = v3[o].of
            /\ [v3[o] EXCEPT !.turn = TRUE] # C!NoRoute
        BY <4>1 DEF C!RouteRow, C!NoRoute
      <4>3. QED
        BY <1>0, <2>2, <4>2
    <3>2. C!TypeOK'
      BY <1>0, <2>1, <2>2, <3>1, TurnGoesTo DEF C!TypeOK
    <3>3. o \in v9 /\ v1[v7[o].of] # "down"
      BY <1>0, <2>1, <2>2 DEF C!RouteOwned, C!At
    <3>4. C!RouteOwned(o)'
      BY <1>0, <2>1, <2>2, <3>1, <3>3, TurnGoesTo DEF C!RouteOwned, C!At
    <3>5. QED
      BY <1>0, <1>c, <2>1, <2>2, <3>1, <3>2, <3>4, TurnGoesTo
  <2>3. CASE C!Goto(o, "failed") /\ v9' = v9 \ {o} /\ v3' = v3
    <3>1. C!TypeOK'
      BY <1>0, <2>1, <2>3, TurnGoesTo DEF C!TypeOK
    <3>2. C!RouteOwned(o)'
      BY <1>0, <2>1, <2>3, TurnGoesTo DEF C!RouteOwned, C!At
    <3>3. QED
      BY <1>0, <1>c, <2>1, <2>3, <3>1, <3>2, TurnGoesTo
  <2>4. QED
    BY <1>9, <2>2, <2>3 DEF C!SetTurn
<1>10. ASSUME NEW o \in CodexTurns, C!Consumed(o) PROVE C!StrandInv'
  <2>1. v7[o].at = "given" /\ C!Goto(o, "done") /\ v9' = v9 \ {o} /\ UNCHANGED <<v1, v2, v3, v4, v5, v6, v8>>
    BY <1>10 DEF C!Consumed, C!At
  <2>2. C!TypeOK'
    BY <1>0, <2>1, TurnGoesTo DEF C!TypeOK
  <2>3. C!RouteOwned(o)'
    BY <1>0, <2>1, TurnGoesTo DEF C!RouteOwned, C!At
  <2>4. QED
    BY <1>0, <1>c, <2>1, <2>2, <2>3, TurnGoesTo
<1>11. ASSUME NEW g \in C!Clients, NEW o \in CodexTurns, C!Response(o, g) PROVE C!StrandInv'
  <2>1. v4' \in [CodexTurns -> {"none", "pending", "ok", "error"}] /\ UNCHANGED <<v1, v2, v3, v5, v6, v7, v8, v9>>
    BY <1>0, <1>11 DEF C!Response, C!TypeOK
  <2>2. C!TypeOK'
    BY <1>0, <2>1 DEF C!TypeOK
  <2>3. QED
    BY <1>0, <1>a, <1>b, <2>1, <2>2
<1>12. ASSUME NEW g \in C!Clients, C!Dies(g) \/ \E o \in CodexTurns : C!Unheard(o, g) PROVE C!StrandInv'
  <2>1. C!FailPending(g) /\ v1[g] = "up" /\ UNCHANGED <<v2, v3, v5, v6, v7, v8, v9>>
    BY <1>12 DEF C!Dies, C!Unheard
  <2>2. C!TypeOK'
    BY <1>0, <2>1, PendingFailed DEF C!TypeOK
  <2>3. QED
    BY <1>0, <1>a, <1>b, <2>1, <2>2, PendingFailed
<1>13. ASSUME NEW g \in C!Clients, NEW o \in CodexTurns,
              C!Notification(o, g) \/ C!ServerRequest(o, g) \/ C!TurnCompleted(o, g)
       PROVE C!StrandInv'
  <2>1. PICK e \in CodexEvents : C!Send(o, e) /\ (v6' # v6 => e \in C!Terminals)
    BY <1>13 DEF C!Notification, C!ServerRequest, C!TurnCompleted
  <2>2. /\ UNCHANGED <<v1, v2, v3, v4, v7, v9>> /\ v5' \subseteq v5 \cup {<<o, g>>}
        /\ (v6' = v6 \/ v6' = [v6 EXCEPT ![g] = o])
    BY <1>13 DEF C!Notification, C!ServerRequest, C!TurnCompleted
  <2>3. C!TypeOK'
    <3>1. v6' \in [C!Clients -> CodexTurns \cup {C!NoOne}]
      <4>1. [v6 EXCEPT ![g] = o] \in [C!Clients -> CodexTurns \cup {C!NoOne}]
        BY <1>0
      <4>2. QED
        BY <1>0, <2>2, <4>1
    <3>0. v5' \subseteq CodexTurns \X C!Clients
      <4>1. v5 \subseteq CodexTurns \X C!Clients
        BY <1>0 DEF C!TypeOK
      <4>2. QED
        BY <2>2, <4>1
    <3>2. v8' \in [CodexTurns -> Seq(CodexEvents)]
      BY <2>1, <1>0, EventSent
    <3>3. QED
      BY <1>0, <2>2, <3>0, <3>1, <3>2 DEF C!TypeOK, CodexEvents
  <2>4. C!ReadersToldOf'
    BY <1>0, <2>1, <2>2, EventSent DEF C!ReadersToldOf
  <2>5. QED
    BY <1>0, <1>b, <2>1, <2>2, <2>3, <2>4, EventSent
<1>14. ASSUME NEW g \in C!Clients, NEW o \in CodexTurns, C!RequestResolved(o, g) PROVE C!StrandInv'
  <2>1. UNCHANGED <<v1, v2, v3, v4, v6, v7, v8, v9>> /\ v5' \subseteq v5
    BY <1>14 DEF C!RequestResolved
  <2>2. C!TypeOK'
    BY <1>0, <2>1 DEF C!TypeOK
  <2>3. QED
    BY <1>0, <1>a, <1>b, <2>1, <2>2
<1>15. ASSUME NEW g \in C!Clients, C!TurnForgotten(g) PROVE C!StrandInv'
  <2> DEFINE o == v6[g]
  <2>1. o \in CodexTurns /\ C!Ended(o)
    BY <1>0, <1>15 DEF C!TurnForgotten, C!ReadersToldOf
  <2>2. /\ v6' = [v6 EXCEPT ![g] = C!NoOne] /\ v3' = [v3 EXCEPT ![o] = C!NoRoute] /\ v5' \subseteq v5
        /\ UNCHANGED <<v1, v2, v4, v7, v8, v9>>
    BY <1>15 DEF C!TurnForgotten, C!RemoveRoute
  <2> HIDE DEF o
  <2>3. C!TypeOK'
    BY <1>0, <2>2 DEF C!TypeOK
  <2>4. \A p \in CodexTurns : C!Ended(p) <=> C!Ended(p)'
    BY <1>a, <2>2
  <2>5. C!ReadersToldOf'
    BY <1>0, <2>2, <2>4 DEF C!ReadersToldOf
  <2>6. ASSUME NEW p \in CodexTurns PROVE C!RouteOwned(p)'
    <3>1. v3'[o] = C!NoRoute /\ (p # o => v3'[p] = v3[p])
      BY <1>0, <2>1, <2>2
    <3>2. CASE p = o
      BY <1>0, <2>1, <2>2, <2>4, <3>1, <3>2 DEF C!RouteOwned, C!At
    <3>3. CASE p # o
      BY <1>0, <2>2, <2>4, <3>1, <3>3, OwnedStill
    <3>4. QED
      BY <3>2, <3>3
  <2>7. QED
    BY <2>3, <2>5, <2>6 DEF C!StrandInv
<1>16. ASSUME NEW g \in C!Clients, C!FailRoutes(g) PROVE C!StrandInv'
  <2>1. /\ v1' = [v1 EXCEPT ![g] = "down"] /\ UNCHANGED <<v2, v4, v6, v7, v9>> /\ v5' \subseteq v5
        /\ \A o \in CodexTurns : v3'[o] = IF C!Routed(o, g) THEN C!NoRoute ELSE v3[o]
        /\ \A o \in CodexTurns : v8'[o] = IF C!Routed(o, g) /\ o \in v9 THEN Append(v8[o], "Failed") ELSE v8[o]
        /\ DOMAIN v3' = CodexTurns /\ DOMAIN v8' = CodexTurns
        /\ v3' = [o \in CodexTurns |-> v3'[o]] /\ v8' = [o \in CodexTurns |-> v8'[o]]
    BY <1>16 DEF C!FailRoutes
  <2>2. v3' \in [CodexTurns -> C!RouteRow]
    BY <1>0, <2>1
  <2>3. v8' \in [CodexTurns -> Seq(CodexEvents)]
    <3>1. ASSUME NEW o \in CodexTurns PROVE v8'[o] \in Seq(CodexEvents)
      <4>1. v8[o] \in Seq(CodexEvents) /\ "Failed" \in CodexEvents
        BY <1>0 DEF CodexEvents
      <4>2. Append(v8[o], "Failed") \in Seq(CodexEvents)
        BY <4>1
      <4>3. QED
        BY <2>1, <4>1, <4>2
    <3>2. QED
      BY <2>1, <3>1
  <2>4. \A o \in CodexTurns : (C!Ended(o) => C!Ended(o)') /\ (C!Routed(o, g) /\ o \in v9 => C!Ended(o)')
    BY <1>0, <2>1, EndedAfter DEF C!Ended
  <2>5. C!TypeOK'
    BY <1>0, <2>1, <2>2, <2>3 DEF C!TypeOK, CodexEvents
  <2>6. C!ReadersToldOf'
    BY <1>0, <2>1, <2>4 DEF C!ReadersToldOf
  <2>7. ASSUME NEW o \in CodexTurns PROVE C!RouteOwned(o)'
    <3>1. CASE C!Routed(o, g)
      BY <1>0, <2>1, <2>4, <3>1 DEF C!RouteOwned, C!At
    <3>2. CASE ~C!Routed(o, g)
      <4>1. v3[o] # C!NoRoute => v7[o].of # g
        BY <1>0, <3>2 DEF C!RouteOwned, C!Routed
      <4>2. v7[o].of # g => v1'[v7[o].of] = v1[v7[o].of]
        BY <1>0, <2>1 DEF C!TypeOK
      <4>3. QED
        BY <1>0, <2>1, <2>4, <3>2, <4>1, <4>2 DEF C!RouteOwned, C!At
    <3>3. QED
      BY <3>1, <3>2
  <2>8. QED
    BY <2>5, <2>6, <2>7 DEF C!StrandInv
<1>17. CASE UNCHANGED C!vars
  <2>1. C!TypeOK' /\ UNCHANGED <<v1, v3, v6, v7, v8, v9>>
    BY <1>0, <1>17 DEF C!vars, C!TypeOK
  <2>2. QED
    BY <1>0, <1>a, <1>b, <2>1
<1>18. QED
  BY <1>1, <1>2, <1>3, <1>4, <1>5, <1>6, <1>7, <1>8, <1>9, <1>10, <1>11, <1>12, <1>13, <1>14, <1>15, <1>16, <1>17 DEF C!Next

(* The invariant of the routes leaves no turn stranded. *)
LEMMA StrandInvSuffices == C!StrandInv => C!NoneStranded
<1> SUFFICES ASSUME C!StrandInv, NEW o \in CodexTurns, v7[o].of # 0, v1[v7[o].of] = "down"
             PROVE  /\ C!At(o, "given") => C!Ended(o)
                    /\ v3[o] # C!NoRoute => C!At(o, "registered")
  BY DEF C!NoneStranded, C!Ended
<1>1. C!RouteOwned(o)
  BY DEF C!StrandInv
<1>2. QED
  BY <1>1 DEF C!RouteOwned, C!At

(* The invariant of a behaviour of CodexClient in the composition. *)
StrandInvHere == component = "codex" => C!StrandInv

(* It holds in every state of a behaviour. *)
LEMMA CodexHolds == RuntimeSpec => []StrandInvHere
<1>1. RuntimeInit => StrandInvHere
  BY CodexInit DEF RuntimeInit, StrandInvHere
<1>2. StrandInvHere /\ [RuntimeNext]_all => StrandInvHere'
  <2> SUFFICES ASSUME StrandInvHere, [RuntimeNext]_all, component' = "codex" PROVE C!StrandInv'
    BY DEF StrandInvHere
  <2>1. component = "codex" /\ [C!Next]_C!vars
    BY DEF RuntimeNext, all, C!vars
  <2>2. QED
    BY <2>1, CodexStep DEF StrandInvHere
<1>3. QED
  BY <1>1, <1>2, PTL DEF RuntimeSpec

(* No Codex turn waits for a client that is gone, for every number of turns and *)
(* clients, however the client's death falls between the steps of begin_turn    *)
(* (fail_all, register_route).                                                  *)
THEOREM NoneStrandedAlways == RuntimeSpec => []NoneStranded
<1>1. StrandInvHere => NoneStranded
  BY StrandInvSuffices DEF StrandInvHere, NoneStranded
<1>2. QED
  BY <1>1, CodexHolds, PTL

-----------------------------------------------------------------------------
(* ProviderRuns. Slots: v1 adapters, v2 operations, v3 active, v4 pending, v5 run, *)
(* v6 stream, v7 listening.                                                        *)

(* What a provider's stream carries. *)
ProviderEvents == P!Terminals \cup {"event", "call"}

(* The instance counts as the library does. *)
LEMMA ProviderCounts == \A X : P!Cardinality(X) = Cardinality(X)
BY DEF P!Cardinality, Cardinality

(* The terminal events and the steps of a run by name. *)
LEMMA ProviderNames ==
  /\ P!Terminals = {"Completed", "Cancelled", "Failed"}
  /\ ProviderEvents = {"Completed", "Cancelled", "Failed", "event", "call"}
  /\ P!Steps = {"idle", "setup", "streaming", "waiting", "posting", "ending", "unbridging",
                "clearing", "removing", "done", "refused"}
  /\ P!Unset = "none"
BY DEF P!Terminals, ProviderEvents, P!Steps, P!Unset

(* Only a terminal event adds an end to a stream, at its last place. *)
LEMMA EndsAfter ==
  ASSUME NEW s \in Seq(ProviderEvents), NEW e \in ProviderEvents
  PROVE  /\ Append(s, e) \in Seq(ProviderEvents)
         /\ e \notin P!Terminals =>
              {i \in DOMAIN Append(s, e) : Append(s, e)[i] \in P!Terminals} = {i \in DOMAIN s : s[i] \in P!Terminals}
         /\ e \in P!Terminals =>
              {i \in DOMAIN Append(s, e) : Append(s, e)[i] \in P!Terminals}
                = {i \in DOMAIN s : s[i] \in P!Terminals} \cup {Len(s) + 1}
<1>1. Append(s, e) \in Seq(ProviderEvents) /\ DOMAIN Append(s, e) = DOMAIN s \cup {Len(s) + 1}
  OBVIOUS
<1>2. \A i \in DOMAIN s : Append(s, e)[i] = s[i] /\ i # Len(s) + 1
  OBVIOUS
<1>3. Append(s, e)[Len(s) + 1] = e
  OBVIOUS
<1>4. QED
  BY <1>1, <1>2, <1>3

(* What an event adds to the ends of a stream. *)
LEMMA EventReaches ==
  ASSUME P!TypeOK, NEW o \in ProviderTurns, NEW e \in ProviderEvents, P!Send(o, e)
  PROVE  /\ v6' \in [ProviderTurns -> Seq(ProviderEvents)]
         /\ \A p \in ProviderTurns \ {o} : P!Ends(p)' = P!Ends(p)
         /\ o \notin v7 \/ e \notin P!Terminals => P!Ends(o)' = P!Ends(o)
         /\ o \in v7 /\ e \in P!Terminals => \E n : P!Ends(o)' = P!Ends(o) \cup {n}
<1>0. v6 \in [ProviderTurns -> Seq(ProviderEvents)]
  BY DEF P!TypeOK, ProviderEvents
<1>1. CASE o \notin v7
  BY <1>0, <1>1 DEF P!Send, P!Ends
<1>2. CASE o \in v7
  <2>1. v6' = [v6 EXCEPT ![o] = Append(v6[o], e)]
    BY <1>2 DEF P!Send
  <2>2. v6' \in [ProviderTurns -> Seq(ProviderEvents)]
    BY <1>0, <2>1, EndsAfter
  <2>3. \A p \in ProviderTurns \ {o} : P!Ends(p)' = P!Ends(p)
    BY <1>0, <2>1 DEF P!Ends
  <2>4. v6'[o] = Append(v6[o], e) /\ v6[o] \in Seq(ProviderEvents)
    BY <1>0, <2>1
  <2>5. P!Ends(o)' = {i \in DOMAIN v6'[o] : v6'[o][i] \in P!Terminals}
        /\ P!Ends(o) = {i \in DOMAIN v6[o] : v6[o][i] \in P!Terminals}
    BY DEF P!Ends
  <2>6. /\ e \notin P!Terminals => P!Ends(o)' = P!Ends(o)
        /\ e \in P!Terminals => P!Ends(o)' = P!Ends(o) \cup {Len(v6[o]) + 1}
    BY <2>4, <2>5, EndsAfter
  <2>7. QED
    BY <1>2, <2>2, <2>3, <2>6
<1>3. QED
  BY <1>1, <1>2

(* Streams that do not change keep their ends. *)
LEMMA StreamsSame == ASSUME v6' = v6 PROVE \A o \in ProviderTurns : P!Ends(o)' = P!Ends(o)
BY DEF P!Ends

(* A run that a step does not concern, but for calls it may lose. *)
LEMMA EndedStill ==
  ASSUME NEW o \in ProviderTurns, P!EndedOnce(o), P!Ends(o)' = P!Ends(o), v5'[o] = v5[o],
         o \in v7' => o \in v7, P!CallsOf(o)' \subseteq P!CallsOf(o)
  PROVE  P!EndedOnce(o)'
BY DEF P!EndedOnce, P!Open, P!Over, P!At

(* The invariant of the runs holds at first. *)
LEMMA RunsInit == P!Init => P!EndsInv
<1> SUFFICES ASSUME P!Init PROVE P!EndsInv
  OBVIOUS
<1>1. [at |-> "idle", kind |-> P!Unset, report |-> P!Unset, asked |-> FALSE] \in P!RunRow
  BY ProviderNames DEF P!RunRow
<1>2. P!TypeOK
  BY <1>1 DEF P!Init, P!TypeOK, P!Unset
<1>3. ASSUME NEW o \in ProviderTurns PROVE P!EndedOnce(o)
  <2>1. P!Ends(o) = {} /\ P!CallsOf(o) = {} /\ v5[o].at = "idle"
    BY <1>3 DEF P!Init, P!Ends, P!CallsOf
  <2>2. QED
    BY <2>1 DEF P!EndedOnce, P!Over, P!At
<1>4. QED
  BY <1>2, <1>3 DEF P!EndsInv

(* The run of `o` moves; nothing else about any run does but what it sent and the calls. *)
LEMMA RunMoves ==
  ASSUME P!EndsInv, NEW o \in ProviderTurns, NEW row \in P!RunRow, v5' = [v5 EXCEPT ![o] = row],
         v1' \subseteq ProviderKinds, v2' \in [ProviderTurns -> ProviderKinds \cup {P!Unset}],
         v3' \in [ProviderTurns -> {P!Unset, "running", "cancelled"}],
         v4' \subseteq [call : ProviderCalls, op : ProviderTurns],
         v6' \in [ProviderTurns -> Seq(ProviderEvents)], v7' \subseteq ProviderTurns,
         \A p \in ProviderTurns \ {o} : /\ P!Ends(p)' = P!Ends(p) /\ (p \in v7' => p \in v7)
                                        /\ P!CallsOf(p)' \subseteq P!CallsOf(p),
         v5'[o] = row => P!EndedOnce(o)'
  PROVE  P!EndsInv'
<1>1. v5 \in [ProviderTurns -> P!RunRow] /\ \A p \in ProviderTurns : P!EndedOnce(p)
  BY DEF P!EndsInv, P!TypeOK
<1>2. v5' \in [ProviderTurns -> P!RunRow] /\ v5'[o] = row /\ \A p \in ProviderTurns \ {o} : v5'[p] = v5[p]
  BY <1>1
<1>3. P!TypeOK'
  BY <1>2 DEF P!TypeOK, ProviderEvents
<1>4. \A p \in ProviderTurns \ {o} : P!EndedOnce(p)'
  BY <1>1, <1>2, EndedStill
<1>5. QED
  BY <1>2, <1>3, <1>4 DEF P!EndsInv

(* A step without a run's. *)
LEMMA RunsRest ==
  ASSUME P!EndsInv, v5' = v5,
         v1' \subseteq ProviderKinds, v2' \in [ProviderTurns -> ProviderKinds \cup {P!Unset}],
         v3' \in [ProviderTurns -> {P!Unset, "running", "cancelled"}],
         v4' \subseteq v4, v6' = v6, v7' \subseteq v7
  PROVE  P!EndsInv'
<1>1. P!TypeOK /\ \A p \in ProviderTurns : P!EndedOnce(p)
  BY DEF P!EndsInv
<1>2. P!TypeOK'
  BY <1>1 DEF P!TypeOK
<1>3. \A p \in ProviderTurns : P!Ends(p)' = P!Ends(p) /\ P!CallsOf(p)' \subseteq P!CallsOf(p)
  BY DEF P!Ends, P!CallsOf
<1>4. \A p \in ProviderTurns : P!EndedOnce(p)'
  BY <1>1, <1>3, EndedStill
<1>5. QED
  BY <1>2, <1>4 DEF P!EndsInv

(* Every step keeps the invariant of the runs. *)
LEMMA RunsStep == P!EndsInv /\ [P!Next]_P!vars => P!EndsInv'
<1> SUFFICES ASSUME P!EndsInv, [P!Next]_P!vars PROVE P!EndsInv'
  OBVIOUS
<1> USE ProviderNames
<1>0. /\ P!TypeOK /\ v5 \in [ProviderTurns -> P!RunRow] /\ v6 \in [ProviderTurns -> Seq(ProviderEvents)]
      /\ v1 \subseteq ProviderKinds /\ v2 \in [ProviderTurns -> ProviderKinds \cup {P!Unset}]
      /\ v3 \in [ProviderTurns -> {P!Unset, "running", "cancelled"}]
      /\ v4 \subseteq [call : ProviderCalls, op : ProviderTurns] /\ v7 \subseteq ProviderTurns
      /\ \A o \in ProviderTurns : P!EndedOnce(o)
  BY DEF P!EndsInv, P!TypeOK, ProviderEvents
(* A step of one run that leaves the registries. *)
<1>m. ASSUME NEW o \in ProviderTurns, NEW row \in P!RunRow, v5' = [v5 EXCEPT ![o] = row],
             UNCHANGED <<v1, v2, v3, v7>>, v4' \subseteq [call : ProviderCalls, op : ProviderTurns],
             \A q \in v4' : q.op = o \/ q \in v4,
             v6' \in [ProviderTurns -> Seq(ProviderEvents)],
             \A p \in ProviderTurns \ {o} : P!Ends(p)' = P!Ends(p),
             v5'[o] = row => P!EndedOnce(o)'
      PROVE  P!EndsInv'
  <2>1. \A p \in ProviderTurns \ {o} : P!CallsOf(p)' \subseteq P!CallsOf(p)
    BY <1>m DEF P!CallsOf
  <2>2. QED
    BY <1>0, <1>m, <2>1, RunMoves
(* Before its end a run has sent nothing terminal; at its end it has, if anyone listens. *)
<1>e. ASSUME NEW o \in ProviderTurns, NEW row \in P!RunRow, v5'[o] = row, P!Open(o), v7' = v7,
             \/ row.at \in {"streaming", "waiting", "posting"} /\ P!Ends(o)' = P!Ends(o)
             \/ row.at = "ending" /\ row.report # P!Unset /\ P!Ends(o)' = P!Ends(o)
             \/ /\ row.at = "clearing" \/ (row.at = "ending" /\ row.report = P!Unset)
                /\ \/ o \notin v7 /\ P!Ends(o)' = P!Ends(o)
                   \/ o \in v7 /\ \E n : P!Ends(o)' = P!Ends(o) \cup {n}
             \/ row.at \in {"clearing", "unbridging"} /\ o \in v7 /\ \E n : P!Ends(o)' = P!Ends(o) \cup {n}
             \/ row.at \in {"clearing", "unbridging"} /\ o \notin v7 /\ P!Ends(o)' = P!Ends(o)
      PROVE  P!EndedOnce(o)'
  <2>1. P!Ends(o) = {}
    BY <1>0, <1>e DEF P!EndedOnce
  <2>2. (P!At(o, {"removing", "done"}))' = FALSE
    BY <1>e DEF P!At
  <2>3. (\A i, j \in P!Ends(o) : i = j)'
    BY <1>e, <2>1
  <2>4. (P!Open(o))' => P!Ends(o)' = {}
    BY <1>e, <2>1 DEF P!Open, P!At
  <2>5. (P!Over(o))' /\ o \in v7' => P!Ends(o)' # {}
    BY <1>e, <2>1 DEF P!Over, P!At
  <2>6. QED
    BY <2>2, <2>3, <2>4, <2>5 DEF P!EndedOnce
(* Where the work of a run may go on. *)
<1>t. {"refused", "streaming", "waiting", "posting", "clearing", "removing", "done"} \subseteq P!Steps
  BY DEF P!Steps
<1>g. ASSUME NEW o \in ProviderTurns, NEW at \in P!Steps
      PROVE  /\ v5[o] \in P!RunRow /\ [v5[o] EXCEPT !.at = at] \in P!RunRow /\ [v5[o] EXCEPT !.at = at].at = at
             /\ [v5[o] EXCEPT !.at = at].report = v5[o].report
             /\ P!Goto(o, at) => v5' = [v5 EXCEPT ![o] = [v5[o] EXCEPT !.at = at]]
  <2>1. v5[o] \in P!RunRow
    BY <1>0
  <2>2. [v5[o] EXCEPT !.at = at] \in P!RunRow /\ [v5[o] EXCEPT !.at = at].at = at
        /\ [v5[o] EXCEPT !.at = at].report = v5[o].report
    BY <2>1 DEF P!RunRow
  <2>3. P!Goto(o, at) => v5' = [v5 EXCEPT ![o] = [v5[o] EXCEPT !.at = at]]
    BY <1>0 DEF P!Goto
  <2>4. QED
    BY <2>1, <2>2, <2>3
<1>i. ASSUME NEW o \in ProviderTurns, NEW at \in P!Steps, P!Goto(o, at)
      PROVE  \E row \in P!RunRow : v5' = [v5 EXCEPT ![o] = row] /\ row.at = at
  <2>0. v5[o] \in P!RunRow
    BY <1>0
  <2>1. [v5[o] EXCEPT !.at = at] \in P!RunRow /\ [v5[o] EXCEPT !.at = at].at = at
    BY <2>0 DEF P!RunRow
  <2>2. v5' = [v5 EXCEPT ![o] = [v5[o] EXCEPT !.at = at]]
    BY <1>0, <1>i DEF P!Goto
  <2>3. QED
    BY <2>1, <2>2
<1>h. ASSUME NEW o \in ProviderTurns, NEW report \in P!Terminals \cup {P!Unset}, P!EndWith(o, report)
      PROVE  \E row \in P!RunRow : v5' = [v5 EXCEPT ![o] = row] /\ row.at = "ending" /\ row.report = report
  <2>1. v5[o] \in P!RunRow
    BY <1>0
  <2>2. v5' = [v5 EXCEPT ![o] = [[v5[o] EXCEPT !.at = "ending"] EXCEPT !.report = report]]
    BY <1>0, <1>h DEF P!EndWith
  <2>3. /\ [[v5[o] EXCEPT !.at = "ending"] EXCEPT !.report = report] \in P!RunRow
        /\ [[v5[o] EXCEPT !.at = "ending"] EXCEPT !.report = report].at = "ending"
        /\ [[v5[o] EXCEPT !.at = "ending"] EXCEPT !.report = report].report = report
    BY <2>1 DEF P!RunRow
  <2>4. QED
    BY <2>2, <2>3
<1>1. CASE \E k \in ProviderKinds : P!Register(k)
  <2>1. v1' \subseteq ProviderKinds /\ UNCHANGED <<v2, v3, v4, v5, v6, v7>>
    BY <1>0, <1>1 DEF P!Register
  <2>2. QED
    BY <1>0, <2>1, RunsRest
<1>2. ASSUME NEW o \in ProviderTurns, NEW k \in ProviderKinds, P!Start(o, k) PROVE P!EndsInv'
  <2>1. /\ v5[o].at = "idle" /\ v5' = [v5 EXCEPT ![o] = [[v5[o] EXCEPT !.at = "setup"] EXCEPT !.kind = k]]
        /\ v2' = [v2 EXCEPT ![o] = k] /\ v3' = [v3 EXCEPT ![o] = "running"] /\ v7' = v7 \cup {o}
        /\ UNCHANGED <<v1, v4, v6>>
    BY <1>0, <1>2 DEF P!Start, P!ReserveOperation, P!At
  <2>2. PICK row \in P!RunRow : v5' = [v5 EXCEPT ![o] = row] /\ row.at = "setup"
    <3>1. v5[o] \in P!RunRow
      BY <1>0
    <3>2. /\ [[v5[o] EXCEPT !.at = "setup"] EXCEPT !.kind = k] \in P!RunRow
          /\ [[v5[o] EXCEPT !.at = "setup"] EXCEPT !.kind = k].at = "setup"
      BY <3>1 DEF P!RunRow
    <3>3. QED
      BY <2>1, <3>2
  <2>3. ASSUME v5'[o] = row PROVE P!EndedOnce(o)'
    <3>1. P!Open(o) /\ P!Ends(o)' = P!Ends(o)
      BY <2>1, StreamsSame DEF P!Open, P!At
    <3>2. QED
      BY <1>0, <2>2, <2>3, <3>1 DEF P!EndedOnce, P!Over, P!At
  <2>4. \A p \in ProviderTurns : P!CallsOf(p)' = P!CallsOf(p)
    BY <2>1 DEF P!CallsOf
  <2>5. QED
    BY <1>0, <2>1, <2>2, <2>3, <2>4, StreamsSame, RunMoves
<1>3. ASSUME NEW o \in ProviderTurns, P!StartFails(o) PROVE P!EndsInv'
  <2>1. /\ v5[o].at = "setup" /\ P!Goto(o, "refused") /\ v7' = v7 \ {o} /\ UNCHANGED <<v1, v4, v6>>
        /\ v2' = [v2 EXCEPT ![o] = P!Unset] /\ (v3' = v3 \/ v3' = [v3 EXCEPT ![o] = P!Unset])
    BY <1>3 DEF P!StartFails, P!Finish, P!At
  <2>2. PICK row \in P!RunRow : v5' = [v5 EXCEPT ![o] = row] /\ row.at = "refused"
    BY <1>i, <1>t, <2>1
  <2>3. ASSUME v5'[o] = row PROVE P!EndedOnce(o)'
    <3>1. P!Open(o) /\ P!Ends(o)' = P!Ends(o)
      BY <2>1, StreamsSame DEF P!Open, P!At
    <3>2. QED
      BY <1>0, <2>2, <2>3, <3>1 DEF P!EndedOnce, P!Open, P!Over, P!At
  <2>4. \A p \in ProviderTurns : P!CallsOf(p)' = P!CallsOf(p)
    BY <2>1 DEF P!CallsOf
  <2>5. v2' \in [ProviderTurns -> ProviderKinds \cup {P!Unset}] /\ v3' \in [ProviderTurns -> {P!Unset, "running", "cancelled"}]
    BY <1>0, <2>1
  <2>6. /\ \A p \in ProviderTurns \ {o} : P!Ends(p)' = P!Ends(p) /\ (p \in v7' => p \in v7) /\ P!CallsOf(p)' \subseteq P!CallsOf(p)
        /\ v1' \subseteq ProviderKinds /\ v4' \subseteq [call : ProviderCalls, op : ProviderTurns]
        /\ v6' \in [ProviderTurns -> Seq(ProviderEvents)] /\ v7' \subseteq ProviderTurns
    BY <1>0, <2>1, <2>4, StreamsSame
  <2>7. QED
    BY <2>2, <2>3, <2>5, <2>6, RunMoves
<1>4. ASSUME NEW o \in ProviderTurns, P!Started(o) PROVE P!EndsInv'
  <2>1. v5[o].at = "setup" /\ P!Goto(o, "streaming") /\ UNCHANGED <<v1, v2, v3, v4, v6, v7>>
    BY <1>4 DEF P!Started, P!At, P!Registries, P!Quiet
  <2>2. PICK row \in P!RunRow : v5' = [v5 EXCEPT ![o] = row] /\ row.at = "streaming"
    BY <1>i, <1>t, <2>1
  <2>3. ASSUME v5'[o] = row PROVE P!EndedOnce(o)'
    BY <1>e, <2>1, <2>2, <2>3, StreamsSame DEF P!Open, P!At
  <2>4. QED
    BY <1>0, <1>m, <2>1, <2>2, <2>3, StreamsSame
<1>5. ASSUME NEW o \in ProviderTurns, P!Cancel(o) \/ P!Consumed(o) PROVE P!EndsInv'
  <2>1. /\ UNCHANGED <<v1, v4, v5, v6>> /\ v7' \subseteq v7 /\ (v2' = v2 \/ v2' = [v2 EXCEPT ![o] = P!Unset])
        /\ (v3' = v3 \/ v3' = [v3 EXCEPT ![o] = "cancelled"])
    BY <1>5 DEF P!Cancel, P!Consumed, P!Finish, P!Quiet
  <2>2. v2' \in [ProviderTurns -> ProviderKinds \cup {P!Unset}] /\ v3' \in [ProviderTurns -> {P!Unset, "running", "cancelled"}]
    BY <1>0, <2>1
  <2>3. QED
    BY <1>0, <2>1, <2>2, RunsRest
<1>6. CASE \E q \in v4 : P!ResolveToolCall(q) \/ P!BridgeTimesOut(q)
  <2>1. UNCHANGED <<v1, v2, v3, v5, v6, v7>> /\ v4' \subseteq v4
    BY <1>6 DEF P!ResolveToolCall, P!BridgeTimesOut, P!Quiet, P!Registries
  <2>2. QED
    BY <1>0, <2>1, RunsRest
(* Steps of a run that streams, waits or posts, by where they lead. *)
<1>s. ASSUME NEW o \in ProviderTurns, v5[o].at \in {"streaming", "waiting", "posting"},
             UNCHANGED <<v1, v2, v3, v7>>, v4' \subseteq v4 \cup [call : ProviderCalls, op : {o}],
             NEW row \in P!RunRow, v5' = [v5 EXCEPT ![o] = row],
             \/ /\ row.at \in {"streaming", "waiting", "posting"}
                /\ v6' = v6 \/ \E e \in {"event", "call"} : P!Send(o, e)
             \/ /\ row.at = "ending" /\ row.report \in P!Terminals
                /\ v6' = v6 \/ (o \notin v7 /\ \E e \in ProviderEvents : P!Send(o, e))
             \/ /\ row.at = "clearing" \/ (row.at = "ending" /\ row.report = P!Unset)
                /\ \E e \in P!Terminals : P!Send(o, e)
             \/ row.at = "clearing" /\ o \notin v7 /\ (v6' = v6 \/ \E e \in {"event", "call"} : P!Send(o, e))
      PROVE  P!EndsInv'
  <2>1. P!Open(o)
    BY <1>s DEF P!Open, P!At
  <2>2. v4' \subseteq [call : ProviderCalls, op : ProviderTurns] /\ \A q \in v4' : q.op = o \/ q \in v4
    BY <1>0, <1>s
  <2>3. CASE v6' = v6 \/ \E e \in {"event", "call"} : P!Send(o, e)
    <3>1. v6' \in [ProviderTurns -> Seq(ProviderEvents)] /\ \A p \in ProviderTurns : P!Ends(p)' = P!Ends(p)
      BY <1>0, <2>3, StreamsSame, EventReaches
    <3>2. CASE row.at \in {"streaming", "waiting", "posting"}
      BY <1>e, <1>m, <1>s, <2>1, <2>2, <3>1, <3>2
    <3>3. CASE row.at = "ending" /\ row.report \in P!Terminals
      BY <1>e, <1>m, <1>s, <2>1, <2>2, <3>1, <3>3
    <3>4. CASE (row.at = "clearing" \/ (row.at = "ending" /\ row.report = P!Unset)) /\ o \notin v7
      BY <1>e, <1>m, <1>s, <2>1, <2>2, <3>1, <3>4
    <3>5. CASE (row.at = "clearing" \/ (row.at = "ending" /\ row.report = P!Unset)) /\ \E e \in P!Terminals : P!Send(o, e)
      <4>1. o \notin v7 \/ \E n : P!Ends(o)' = P!Ends(o) \cup {n}
        BY <1>0, <3>5, EventReaches
      <4>2. QED
        BY <1>e, <1>m, <1>s, <2>1, <2>2, <3>1, <3>5, <4>1
    <3>6. QED
      BY <1>s, <3>2, <3>3, <3>4, <3>5
  <2>4. CASE ~(v6' = v6 \/ \E e \in {"event", "call"} : P!Send(o, e))
    <3>1. PICK e \in ProviderEvents : P!Send(o, e)
      BY <1>s, <2>4
    <3>2. v6' \in [ProviderTurns -> Seq(ProviderEvents)] /\ \A p \in ProviderTurns \ {o} : P!Ends(p)' = P!Ends(p)
      BY <1>0, <3>1, EventReaches
    <3>3. CASE row.at = "ending" /\ row.report \in P!Terminals /\ o \notin v7
      BY <1>0, <1>e, <1>m, <1>s, <2>1, <2>2, <3>1, <3>2, <3>3, EventReaches
    <3>4. CASE (row.at = "clearing" \/ (row.at = "ending" /\ row.report = P!Unset)) /\ \E t \in P!Terminals : P!Send(o, t)
      <4>1. \/ o \notin v7 /\ P!Ends(o)' = P!Ends(o)
            \/ o \in v7 /\ \E n : P!Ends(o)' = P!Ends(o) \cup {n}
        BY <1>0, <3>4, EventReaches
      <4>2. QED
        BY <1>e, <1>m, <1>s, <2>1, <2>2, <3>2, <3>4, <4>1
    <3>5. QED
      BY <1>s, <2>4, <3>3, <3>4
  <2>5. QED
    BY <2>3, <2>4
<1>k. ASSUME NEW o \in ProviderTurns PROVE v5' = v5 => v5' = [v5 EXCEPT ![o] = v5[o]]
  BY <1>0
<1>7. ASSUME NEW o \in ProviderTurns, P!ProcessLine(o) PROVE P!EndsInv'
  <2>1. v5[o].at = "streaming" /\ UNCHANGED <<v1, v2, v3, v4, v7>> /\ v5[o] \in P!RunRow
    BY <1>0, <1>7 DEF P!ProcessLine, P!Reading, P!At, P!Registries
  <2>2. CASE P!Send(o, "event") /\ v5' = v5
    BY <1>k, <1>s, <2>1, <2>2
  <2>3. CASE (\E e \in P!Terminals : P!Send(o, e)) /\ P!EndWith(o, P!Unset)
    <3>1. PICK row \in P!RunRow : v5' = [v5 EXCEPT ![o] = row] /\ row.at = "ending" /\ row.report = P!Unset
      BY <1>h, <2>3
    <3>2. QED
      BY <1>s, <2>1, <2>3, <3>1
  <2>4. CASE \E report \in {"Cancelled", "Failed"} : P!EndWith(o, report) /\ v6' = v6
    <3>1. PICK report \in {"Cancelled", "Failed"} : P!EndWith(o, report) /\ v6' = v6
      BY <2>4
    <3>2. PICK row \in P!RunRow : v5' = [v5 EXCEPT ![o] = row] /\ row.at = "ending" /\ row.report = report
      BY <1>h, <3>1
    <3>3. QED
      BY <1>s, <2>1, <3>1, <3>2
  <2>5. QED
    BY <1>7, <2>2, <2>3, <2>4 DEF P!ProcessLine
<1>8. ASSUME NEW o \in ProviderTurns, P!ProcessFails(o) \/ P!ProcessCancelled(o) PROVE P!EndsInv'
  <2>1. PICK report \in {"Cancelled", "Failed"} : P!EndWith(o, report)
    BY <1>8 DEF P!ProcessFails, P!ProcessCancelled
  <2>2. v5[o].at = "streaming" /\ UNCHANGED <<v1, v2, v3, v4, v6, v7>>
    BY <1>8 DEF P!ProcessFails, P!ProcessCancelled, P!Reading, P!At, P!Registries, P!Quiet
  <2>3. PICK row \in P!RunRow : v5' = [v5 EXCEPT ![o] = row] /\ row.at = "ending" /\ row.report = report
    BY <1>h, <2>1
  <2>4. QED
    BY <1>s, <2>2, <2>3
<1>9. ASSUME NEW o \in ProviderTurns, P!ProcessReaped(o) PROVE P!EndsInv'
  <2>1. PICK at \in {"unbridging", "clearing"} : P!Goto(o, at)
    BY <1>9 DEF P!ProcessReaped
  <2>2. /\ v5[o].at = "ending" /\ UNCHANGED <<v1, v2, v3, v4, v7>>
        /\ IF v5[o].report = P!Unset THEN v6' = v6 ELSE P!Send(o, v5[o].report)
    BY <1>9 DEF P!ProcessReaped, P!At, P!Registries
  <2>3. PICK row \in P!RunRow : v5' = [v5 EXCEPT ![o] = row] /\ row.at = at
    <3>1. at \in P!Steps
      BY <2>1
    <3>2. QED
      BY <1>i, <2>1, <3>1
  <2>4. CASE v5[o].report = P!Unset
    <3>1. v6' = v6 /\ \A p \in ProviderTurns : P!Ends(p)' = P!Ends(p)
      BY <2>2, <2>4, StreamsSame
    <3>2. ASSUME v5'[o] = row PROVE P!EndedOnce(o)'
      <4>1. P!Over(o)
        BY <2>2, <2>4 DEF P!Over, P!At
      <4>2. QED
        BY <1>0, <2>2, <2>3, <3>1, <3>2, <4>1 DEF P!EndedOnce, P!Open, P!Over, P!At
    <3>3. QED
      BY <1>0, <1>m, <2>2, <2>3, <3>1, <3>2
  <2>5. CASE v5[o].report # P!Unset
    <3>1. v5[o].report \in P!Terminals /\ P!Send(o, v5[o].report)
      <4>1. v5[o] \in P!RunRow
        BY <1>0
      <4>2. QED
        BY <2>2, <2>5, <4>1 DEF P!RunRow
    <3>2. P!Open(o)
      BY <2>2, <2>5 DEF P!Open, P!At
    <3>3. /\ v6' \in [ProviderTurns -> Seq(ProviderEvents)] /\ \A p \in ProviderTurns \ {o} : P!Ends(p)' = P!Ends(p)
          /\ \/ o \notin v7 /\ P!Ends(o)' = P!Ends(o)
             \/ o \in v7 /\ \E n : P!Ends(o)' = P!Ends(o) \cup {n}
      BY <1>0, <3>1, EventReaches
    <3>4. ASSUME v5'[o] = row PROVE P!EndedOnce(o)'
      BY <1>e, <2>2, <2>3, <3>2, <3>3, <3>4
    <3>5. QED
      BY <1>0, <1>m, <2>2, <2>3, <3>3, <3>4
  <2>6. QED
    BY <2>4, <2>5
<1>10. ASSUME NEW o \in ProviderTurns, NEW c \in ProviderCalls, P!GenericCall(o, c) PROVE P!EndsInv'
  <2>1. /\ v5[o].at = "streaming" /\ UNCHANGED <<v1, v2, v3, v7>> /\ v5[o] \in P!RunRow
        /\ v4' \subseteq v4 \cup [call : ProviderCalls, op : {o}]
    BY <1>0, <1>10 DEF P!GenericCall, P!Reading, P!At, P!Registries
  <2>2. CASE P!Send(o, "Failed") /\ P!EndWith(o, P!Unset)
    <3>1. PICK row \in P!RunRow : v5' = [v5 EXCEPT ![o] = row] /\ row.at = "ending" /\ row.report = P!Unset
      BY <1>h, <2>2
    <3>2. QED
      BY <1>s, <2>1, <2>2, <3>1
  <2>3. CASE P!Send(o, "call") /\ o \in v7 /\ v5' = v5
    BY <1>k, <1>s, <2>1, <2>3
  <2>4. CASE P!Send(o, "call") /\ o \notin v7 /\ P!EndWith(o, "Failed")
    <3>1. PICK row \in P!RunRow : v5' = [v5 EXCEPT ![o] = row] /\ row.at = "ending" /\ row.report = "Failed"
      BY <1>h, <2>4
    <3>2. QED
      BY <1>s, <2>1, <2>4, <3>1
  <2>5. QED
    BY <1>10, <2>2, <2>3, <2>4 DEF P!GenericCall
<1>11. ASSUME NEW o \in ProviderTurns, NEW c \in ProviderCalls, P!BridgeCall(o, c) PROVE P!EndsInv'
  <2>1. /\ v5[o].at \in {"streaming", "ending", "unbridging"} /\ UNCHANGED <<v1, v2, v3, v5, v7>> /\ v5[o] \in P!RunRow
        /\ v4' = v4 \cup {[call |-> c, op |-> o]} /\ P!Send(o, "call")
    BY <1>0, <1>11 DEF P!BridgeCall, P!At, P!Registries
  <2>2. v6' \in [ProviderTurns -> Seq(ProviderEvents)] /\ \A p \in ProviderTurns : P!Ends(p)' = P!Ends(p)
    BY <1>0, <2>1, EventReaches
  <2>3. P!EndedOnce(o)'
    BY <1>0, <2>1, <2>2 DEF P!EndedOnce, P!Open, P!Over, P!At
  <2>4. v4' \subseteq [call : ProviderCalls, op : ProviderTurns] /\ \A q \in v4' : q.op = o \/ q \in v4
    BY <1>0, <2>1
  <2>5. v5' = [v5 EXCEPT ![o] = v5[o]]
    BY <1>k, <2>1
  <2>6. QED
    BY <1>m, <2>1, <2>2, <2>3, <2>4, <2>5
<1>12. ASSUME NEW o \in ProviderTurns, P!ShutBridge(o) PROVE P!EndsInv'
  <2>1. v5[o].at = "unbridging" /\ v4' \subseteq v4 /\ P!Goto(o, "clearing") /\ UNCHANGED <<v1, v2, v3, v6, v7>>
    BY <1>12 DEF P!ShutBridge, P!At, P!Registries, P!Quiet
  <2>2. PICK row \in P!RunRow : v5' = [v5 EXCEPT ![o] = row] /\ row.at = "clearing"
    BY <1>i, <1>t, <2>1
  <2>3. ASSUME v5'[o] = row PROVE P!EndedOnce(o)'
    BY <1>0, <2>1, <2>2, <2>3, StreamsSame DEF P!EndedOnce, P!Open, P!Over, P!At
  <2>4. QED
    BY <1>0, <1>m, <2>1, <2>2, <2>3, StreamsSame
<1>13. ASSUME NEW o \in ProviderTurns, P!SseEvent(o) PROVE P!EndsInv'
  <2>1. v5[o].at = "streaming" /\ UNCHANGED <<v1, v2, v3, v4, v7>> /\ v5[o] \in P!RunRow
    BY <1>0, <1>13 DEF P!SseEvent, P!Reading, P!At, P!Registries
  <2>2. CASE P!Send(o, "event") /\ v5' = v5
    BY <1>k, <1>s, <2>1, <2>2
  <2>3. CASE o \notin v7 /\ v6' = v6 /\ P!Goto(o, "clearing")
    <3>1. PICK row \in P!RunRow : v5' = [v5 EXCEPT ![o] = row] /\ row.at = "clearing"
      BY <1>i, <1>t, <2>3
    <3>2. QED
      BY <1>s, <2>1, <2>3, <3>1
  <2>4. QED
    BY <1>13, <2>2, <2>3 DEF P!SseEvent
<1>14. ASSUME NEW o \in ProviderTurns, NEW c \in ProviderCalls, P!RegisterToolCall(o, c) PROVE P!EndsInv'
  <2>1. /\ v5[o].at = "streaming" /\ UNCHANGED <<v1, v2, v3, v7>> /\ v5[o] \in P!RunRow
        /\ v4' \subseteq v4 \cup [call : ProviderCalls, op : {o}]
    BY <1>0, <1>14 DEF P!RegisterToolCall, P!Reading, P!At, P!Registries
  <2>2. CASE P!Send(o, "Failed") /\ P!Goto(o, "clearing")
    <3>1. PICK row \in P!RunRow : v5' = [v5 EXCEPT ![o] = row] /\ row.at = "clearing"
      BY <1>i, <1>t, <2>2
    <3>2. QED
      BY <1>s, <2>1, <2>2, <3>1
  <2>3. CASE P!Send(o, "call") /\ v5' = [v5 EXCEPT ![o].asked = TRUE, ![o].at = IF o \in v7 THEN @ ELSE "clearing"]
    <3>1. PICK at \in {"streaming", "clearing"} :
            /\ at = "clearing" <=> o \notin v7
            /\ v5' = [v5 EXCEPT ![o] = [[v5[o] EXCEPT !.asked = TRUE] EXCEPT !.at = at]]
      BY <1>0, <2>1, <2>3 DEF P!RunRow
    <3>2. PICK row \in P!RunRow : v5' = [v5 EXCEPT ![o] = row] /\ row.at = at
      <4>1. /\ [[v5[o] EXCEPT !.asked = TRUE] EXCEPT !.at = at] \in P!RunRow
            /\ [[v5[o] EXCEPT !.asked = TRUE] EXCEPT !.at = at].at = at
        BY <2>1, <3>1 DEF P!RunRow
      <4>2. QED
        BY <3>1, <4>1
    <3>3. QED
      BY <1>s, <2>1, <2>3, <3>1, <3>2
  <2>4. QED
    BY <1>14, <2>2, <2>3 DEF P!RegisterToolCall
<1>15. ASSUME NEW o \in ProviderTurns, P!SseEnds(o) PROVE P!EndsInv'
  <2>1. v5[o].at = "streaming" /\ UNCHANGED <<v1, v2, v3, v4, v7>>
    BY <1>15 DEF P!SseEnds, P!Reading, P!At, P!Registries
  <2>2. CASE P!Goto(o, "waiting") /\ v6' = v6
    <3>1. PICK row \in P!RunRow : v5' = [v5 EXCEPT ![o] = row] /\ row.at = "waiting"
      BY <1>i, <1>t, <2>2
    <3>2. QED
      BY <1>s, <2>1, <2>2, <3>1
  <2>3. CASE (\E e \in P!Terminals : P!Send(o, e)) /\ P!Goto(o, "clearing")
    <3>1. PICK row \in P!RunRow : v5' = [v5 EXCEPT ![o] = row] /\ row.at = "clearing"
      BY <1>i, <1>t, <2>3
    <3>2. QED
      BY <1>s, <2>1, <2>3, <3>1
  <2>4. QED
    BY <1>15, <2>2, <2>3 DEF P!SseEnds
<1>16. ASSUME NEW o \in ProviderTurns, P!ResultsIn(o) PROVE P!EndsInv'
  <2>1. v5[o].at = "waiting" /\ UNCHANGED <<v1, v2, v3, v4, v6, v7>> /\ P!Goto(o, "posting")
    BY <1>16 DEF P!ResultsIn, P!At, P!Registries, P!Quiet
  <2>2. PICK row \in P!RunRow : v5' = [v5 EXCEPT ![o] = row] /\ row.at = "posting"
    BY <1>i, <1>t, <2>1
  <2>3. QED
    BY <1>s, <2>1, <2>2
<1>17. ASSUME NEW o \in ProviderTurns, P!Continue(o) PROVE P!EndsInv'
  <2>1. v5[o].at = "posting" /\ UNCHANGED <<v1, v2, v3, v4, v7>> /\ v5[o] \in P!RunRow
    BY <1>0, <1>17 DEF P!Continue, P!At, P!Registries
  <2>2. CASE v5' = [v5 EXCEPT ![o].at = "streaming", ![o].asked = FALSE] /\ v6' = v6
    <3>1. v5' = [v5 EXCEPT ![o] = [[v5[o] EXCEPT !.at = "streaming"] EXCEPT !.asked = FALSE]]
      BY <1>0, <2>2
    <3>2. PICK row \in P!RunRow : v5' = [v5 EXCEPT ![o] = row] /\ row.at = "streaming"
      <4>1. /\ [[v5[o] EXCEPT !.at = "streaming"] EXCEPT !.asked = FALSE] \in P!RunRow
            /\ [[v5[o] EXCEPT !.at = "streaming"] EXCEPT !.asked = FALSE].at = "streaming"
        BY <2>1 DEF P!RunRow
      <4>2. QED
        BY <3>1, <4>1
    <3>3. QED
      BY <1>s, <2>1, <2>2, <3>2
  <2>3. CASE P!Send(o, "Failed") /\ P!Goto(o, "clearing")
    <3>1. PICK row \in P!RunRow : v5' = [v5 EXCEPT ![o] = row] /\ row.at = "clearing"
      BY <1>i, <1>t, <2>3
    <3>2. QED
      BY <1>s, <2>1, <2>3, <3>1
  <2>4. QED
    BY <1>17, <2>2, <2>3 DEF P!Continue
<1>18. ASSUME NEW o \in ProviderTurns, P!HttpCancelled(o) PROVE P!EndsInv'
  <2>1. /\ v5[o].at \in {"streaming", "waiting", "posting"} /\ UNCHANGED <<v1, v2, v3, v4, v7>>
        /\ P!Send(o, "Cancelled") /\ P!Goto(o, "clearing")
    BY <1>18 DEF P!HttpCancelled, P!At, P!Registries
  <2>2. PICK row \in P!RunRow : v5' = [v5 EXCEPT ![o] = row] /\ row.at = "clearing"
    BY <1>i, <1>t, <2>1
  <2>3. QED
    BY <1>s, <2>1, <2>2
<1>19. ASSUME NEW o \in ProviderTurns, P!ClearCalls(o) PROVE P!EndsInv'
  <2>1. /\ v5[o].at = "clearing" /\ v4' = v4 \ P!CallsOf(o) /\ P!Goto(o, "removing") /\ UNCHANGED <<v1, v2, v3, v6, v7>>
    BY <1>19 DEF P!ClearCalls, P!At, P!Registries, P!Quiet
  <2>2. PICK row \in P!RunRow : v5' = [v5 EXCEPT ![o] = row] /\ row.at = "removing"
    BY <1>i, <1>t, <2>1
  <2>3. P!CallsOf(o)' = {}
    BY <2>1 DEF P!CallsOf
  <2>4. ASSUME v5'[o] = row PROVE P!EndedOnce(o)'
    BY <1>0, <2>1, <2>2, <2>3, <2>4, StreamsSame DEF P!EndedOnce, P!Open, P!Over, P!At
  <2>5. QED
    BY <1>0, <1>m, <2>1, <2>2, <2>4, StreamsSame
<1>20. ASSUME NEW o \in ProviderTurns, P!RemoveActive(o) PROVE P!EndsInv'
  <2>1. /\ v5[o].at = "removing" /\ v3' = [v3 EXCEPT ![o] = P!Unset] /\ P!Goto(o, "done")
        /\ UNCHANGED <<v1, v2, v4, v6, v7>>
    BY <1>20 DEF P!RemoveActive, P!At, P!Quiet
  <2>2. PICK row \in P!RunRow : v5' = [v5 EXCEPT ![o] = row] /\ row.at = "done"
    BY <1>i, <1>t, <2>1
  <2>3. \A p \in ProviderTurns : P!CallsOf(p)' = P!CallsOf(p)
    BY <2>1 DEF P!CallsOf
  <2>4. ASSUME v5'[o] = row PROVE P!EndedOnce(o)'
    BY <1>0, <2>1, <2>2, <2>3, <2>4, StreamsSame DEF P!EndedOnce, P!Open, P!Over, P!At
  <2>5. QED
    BY <1>0, <2>1, <2>2, <2>3, <2>4, StreamsSame, RunMoves
<1>21. CASE UNCHANGED P!vars
  <2>1. UNCHANGED <<v1, v2, v3, v4, v5, v6, v7>>
    BY <1>21 DEF P!vars
  <2>2. QED
    BY <1>0, <2>1, RunsRest
<1>22. QED
  BY <1>1, <1>2, <1>3, <1>4, <1>5, <1>6, <1>7, <1>8, <1>9, <1>10, <1>11, <1>12, <1>13, <1>14, <1>15, <1>16,
     <1>17, <1>18, <1>19, <1>20, <1>21 DEF P!Next

(* The invariant of the runs gives EndsClean. *)
LEMMA EndsInvSuffices == P!EndsInv => P!EndsClean
<1> SUFFICES ASSUME P!EndsInv, NEW o \in ProviderTurns
             PROVE  /\ Cardinality(P!Ends(o)) <= 1
                    /\ P!At(o, {"done"}) => P!CallsOf(o) = {} /\ (o \in v7 => P!Ends(o) # {})
  BY ProviderCounts DEF P!EndsClean
<1>1. P!EndedOnce(o)
  BY DEF P!EndsInv
<1>2. P!At(o, {"done"}) => P!CallsOf(o) = {} /\ (o \in v7 => P!Ends(o) # {})
  BY <1>1 DEF P!EndedOnce, P!Over, P!At
<1>3. CASE P!Ends(o) = {}
  <2>1. Cardinality(P!Ends(o)) = 0
    BY <1>3, FS_EmptySet
  <2>2. QED
    BY <1>2, <2>1
<1>4. CASE P!Ends(o) # {}
  <2>1. PICK i : P!Ends(o) = {i}
    BY <1>1, <1>4 DEF P!EndedOnce
  <2>2. Cardinality(P!Ends(o)) = 1
    BY <2>1, FS_Singleton
  <2>3. QED
    BY <1>2, <2>2
<1>5. QED
  BY <1>3, <1>4

(* The invariant of a behaviour of ProviderRuns in the composition. *)
EndsInvHere == component = "runs" => P!EndsInv

(* It holds in every state of a behaviour. *)
LEMMA RunsHold == RuntimeSpec => []EndsInvHere
<1>1. RuntimeInit => EndsInvHere
  BY RunsInit DEF RuntimeInit, EndsInvHere
<1>2. EndsInvHere /\ [RuntimeNext]_all => EndsInvHere'
  <2> SUFFICES ASSUME EndsInvHere, [RuntimeNext]_all, component' = "runs" PROVE P!EndsInv'
    BY DEF EndsInvHere
  <2>1. component = "runs" /\ [P!Next]_P!vars
    BY DEF RuntimeNext, all, P!vars
  <2>2. QED
    BY <2>1, RunsStep DEF EndsInvHere
<1>3. QED
  BY <1>1, <1>2, PTL DEF RuntimeSpec

(* A provider's stream carries at most one terminal event, and a run that is done *)
(* leaves no tool call behind and its listener with an end, for every number of   *)
(* runs, calls and events and every kind of adapter.                              *)
THEOREM EndsCleanAlways == RuntimeSpec => []EndsClean
<1>1. EndsInvHere => EndsClean
  BY EndsInvSuffices DEF EndsInvHere, EndsClean
<1>2. QED
  BY <1>1, RunsHold, PTL
=============================================================================
