----------------------------- MODULE Interactions -----------------------------
(***************************************************************************)
(* The structured questions of one turn: the card in the timeline, the     *)
(* entry that the tool call waits on, and the responses of clients         *)
(* (crates/homebot-server/src/interactions.rs).                            *)
(***************************************************************************)
EXTENDS Integers

CONSTANTS Cards,    (* ids of the questions of the turn            *)
          Clients   (* requests that respond, each with its key    *)

VARIABLES
  turn,     (* at, and the card its tool call waits for             *)
  pending,  (* pending_interactions: ids that can be found          *)
  entry,    (* what an entry's holders share, found or not          *)
  card,     (* execution_activities.status                          *)
  vault,    (* secrets stored under a card's locator                *)
  client,   (* the locals of each response                          *)
  claims,   (* idempotency keys that were used                      *)
  accepted, (* history: responses that set a result                 *)
  returned  (* history: how the tool call of each card ended        *)

vars == <<turn, pending, entry, card, vault, client, claims, accepted, returned>>

Nobody == [kind |-> "confirm", responded |-> FALSE, cancelled |-> FALSE, result |-> FALSE,
           ready |-> FALSE]
Kinds == {"confirm", "pick_one", "secret"}

TurnRow == [at : {"streaming", "persisting", "waiting", "finishing", "over"}, card : Cards]
EntryRow == [kind : Kinds, responded : BOOLEAN, cancelled : BOOLEAN, result : BOOLEAN,
             ready : BOOLEAN]
ClientRow == [at : {"idle", "found", "storing", "showing", "setting"}, card : Cards]

TypeOK ==
  /\ turn \in TurnRow
  /\ pending \subseteq Cards
  /\ entry \in [Cards -> EntryRow]
  /\ card \in [Cards -> {"none", "pending", "succeeded", "cancelled", "failed"}]
  /\ vault \subseteq Cards /\ claims \subseteq Clients
  /\ client \in [Clients -> ClientRow]
  /\ accepted \in [Cards -> 0..2]
  /\ returned \in [Cards -> {"none", "answer", "expired", "cancelled", "lost", "unsaved"}]

AnyCard == CHOOSE i \in Cards : TRUE

Init ==
  /\ turn = [at |-> "streaming", card |-> AnyCard]
  /\ pending = {} /\ entry = [i \in Cards |-> Nobody] /\ card = [i \in Cards |-> "none"]
  /\ vault = {} /\ claims = {}
  /\ client = [x \in Clients |-> [at |-> "idle", card |-> AnyCard]]
  /\ accepted = [i \in Cards |-> 0] /\ returned = [i \in Cards |-> "none"]

-----------------------------------------------------------------------------
(* The turn.  A turn handles one tool call at a time, so that the limit of four *)
(* questions per operation is never in the way.                                 *)

AwaitResponse(i, kind) ==
  /\ turn.at = "streaming" /\ card[i] = "none" /\ returned[i] = "none"
  /\ turn' = [at |-> "persisting", card |-> i]
  /\ pending' = pending \cup {i} /\ entry' = [entry EXCEPT ![i] = [Nobody EXCEPT !.kind = kind]]
  /\ UNCHANGED <<card, vault, client, claims, accepted, returned>>

(* upsert_activity and its event; without them the entry is taken back. *)
PersistCard ==
  LET i == turn.card
  IN /\ turn.at = "persisting"
     /\ \/ /\ card' = [card EXCEPT ![i] = "pending"]
           /\ turn' = [turn EXCEPT !.at = "waiting"] /\ UNCHANGED <<pending, returned>>
        \/ /\ card' \in {card, [card EXCEPT ![i] = "pending"]}
           /\ pending' = pending \ {i} /\ returned' = [returned EXCEPT ![i] = "unsaved"]
           /\ turn' = [turn EXCEPT !.at = "streaming"]
     /\ UNCHANGED <<entry, vault, client, claims, accepted>>

(* Woken or out of time: the entry leaves the map, a cancellation outweighs a result. *)
TakeResponse(woken) ==
  LET i == turn.card
  IN /\ turn.at = "waiting" /\ (woken => entry[i].ready)
     /\ pending' = pending \ {i}
     /\ returned' = [returned EXCEPT ![i] =
          IF ~woken THEN "expired" ELSE IF entry[i].cancelled THEN "cancelled"
          ELSE IF entry[i].result THEN "answer" ELSE "lost"]
     /\ turn' = [turn EXCEPT !.at = "streaming"]
     /\ UNCHANGED <<entry, card, vault, client, claims, accepted>>

(* cancel_operation, from a stop or from the end of the turn. *)
CancelOperation ==
  entry' = [i \in Cards |-> IF i \in pending THEN [entry[i] EXCEPT !.cancelled = TRUE, !.ready = TRUE]
                                             ELSE entry[i]]

Stop ==
  /\ turn.at # "over" /\ pending # {} /\ CancelOperation
  /\ UNCHANGED <<turn, pending, card, vault, client, claims, accepted, returned>>

EndTurn ==
  /\ turn.at = "streaming" /\ turn' = [turn EXCEPT !.at = "finishing"] /\ CancelOperation
  /\ UNCHANGED <<pending, card, vault, client, claims, accepted, returned>>

(* finish_provider_interactions: only what is unfinished. *)
FinishProviderInteractions ==
  /\ turn.at = "finishing" /\ turn' = [turn EXCEPT !.at = "over"]
  /\ card' = [i \in Cards |-> IF card[i] = "pending" THEN "cancelled" ELSE card[i]]
  /\ UNCHANGED <<pending, entry, vault, client, claims, accepted, returned>>

-----------------------------------------------------------------------------
(* respond *)

Entry(x) == entry[client[x].card]
Reply(x) == client' = [client EXCEPT ![x].at = "idle"]

(* A used key is answered as before; an entry that is gone is a conflict. *)
Respond(x, i) ==
  /\ client[x].at = "idle" /\ card[i] # "none"
  /\ claims' = claims \cup {x}
  /\ client' = IF x \notin claims /\ i \in pending
               THEN [client EXCEPT ![x] = [at |-> "found", card |-> i]] ELSE client
  /\ UNCHANGED <<turn, pending, entry, card, vault, accepted, returned>>

(* Faulty variant: the flag is read, not exchanged. *)
SubmitUnguarded(x) ==
  /\ client[x].at = "found"
  /\ client' = [client EXCEPT ![x].at = IF Entry(x).kind = "secret" THEN "storing" ELSE "showing"]
  /\ entry' = [entry EXCEPT ![client[x].card].responded = TRUE]
  /\ UNCHANGED <<turn, pending, card, vault, claims, accepted, returned>>

(* validate_response, and the exchange of `responded`. *)
Submit(x) ==
  /\ client[x].at = "found"
  /\ \/ /\ ~Entry(x).responded
        /\ client' = [client EXCEPT ![x].at = IF Entry(x).kind = "secret" THEN "storing" ELSE "showing"]
        /\ entry' = [entry EXCEPT ![client[x].card].responded = TRUE]
     \/ Reply(x) /\ UNCHANGED entry
  /\ UNCHANGED <<turn, pending, card, vault, claims, accepted, returned>>

(* A vault that fails lets somebody else respond. *)
StoreSecret(x) ==
  /\ client[x].at = "storing"
  /\ \/ /\ vault' = vault \cup {client[x].card}
        /\ client' = [client EXCEPT ![x].at = "showing"] /\ UNCHANGED entry
     \/ /\ entry' = [entry EXCEPT ![client[x].card].responded = FALSE]
        /\ Reply(x) /\ UNCHANGED vault
  /\ UNCHANGED <<turn, pending, card, claims, accepted, returned>>

(* The card is written without a look at what it says by now; a fault keeps `responded`. *)
ShowResponse(x) ==
  /\ client[x].at = "showing"
  /\ \/ /\ card' = [card EXCEPT ![client[x].card] = "succeeded"]
        /\ client' = [client EXCEPT ![x].at = "setting"]
     \/ UNCHANGED card /\ Reply(x)
  /\ UNCHANGED <<turn, pending, entry, vault, claims, accepted, returned>>

SetResult(x) ==
  /\ client[x].at = "setting"
  /\ entry' = [entry EXCEPT ![client[x].card].result = TRUE, ![client[x].card].ready = TRUE]
  /\ accepted' = [accepted EXCEPT ![client[x].card] = @ + 1]
  /\ Reply(x)
  /\ UNCHANGED <<turn, pending, card, vault, claims, returned>>

(* recover_interrupted_chat_turns fails what the streaming message left unfinished. *)
Restart ==
  /\ turn.at # "over"
  /\ card' = [i \in Cards |-> IF card[i] = "pending" THEN "failed" ELSE card[i]]
  /\ pending' = {} /\ turn' = [turn EXCEPT !.at = "over"]
  /\ client' = [x \in Clients |-> [client[x] EXCEPT !.at = "idle"]]
  /\ UNCHANGED <<entry, vault, claims, accepted, returned>>

Next ==
  \/ \E i \in Cards, kind \in Kinds : AwaitResponse(i, kind)
  \/ PersistCard \/ (\E woken \in BOOLEAN : TakeResponse(woken))
  \/ Stop \/ EndTurn \/ FinishProviderInteractions
  \/ \E x \in Clients : \/ (\E i \in Cards : Respond(x, i))
                        \/ Submit(x) \/ StoreSecret(x) \/ ShowResponse(x) \/ SetResult(x)
  \/ Restart

Spec == Init /\ [][Next]_vars

-----------------------------------------------------------------------------
(* However many clients respond and whatever fails in between, one response at most sets *)
(* the result, the tool call never wakes to an empty one, and a secret it is told about  *)
(* is in the vault (respond, await_response).                                            *)
OneAnswer ==
  \A i \in Cards : /\ accepted[i] <= 1 /\ returned[i] # "lost"
                   /\ returned[i] = "answer" /\ entry[i].kind = "secret" => i \in vault

(* The invariant behind it.  Whoever exchanged `responded` is alone with the question    *)
(* until it gives up or has set the result; nobody knows of a question without a card.   *)
Past(x) == client[x].at \in {"storing", "showing", "setting"}
Knows(x, i) == client[x].at # "idle" /\ client[x].card = i

OneAtWork ==
  /\ \A x, y \in Clients : Past(x) /\ Past(y) /\ client[x].card = client[y].card => x = y
  /\ \A x \in Clients : Past(x) => Entry(x).responded /\ accepted[client[x].card] = 0
  /\ \A i \in Cards : accepted[i] = 0 \/ (accepted[i] = 1 /\ entry[i].responded)
  /\ \A i \in Cards : card[i] = "none" => accepted[i] = 0 /\ \A x \in Clients : ~Knows(x, i)

SecretKept ==
  /\ \A x \in Clients : client[x].at \in {"showing", "setting"} /\ Entry(x).kind = "secret"
                        => client[x].card \in vault
  /\ \A i \in Cards : /\ entry[i].result /\ entry[i].kind = "secret" => i \in vault
                      /\ entry[i].ready => entry[i].cancelled \/ entry[i].result

AnswerInv == TypeOK /\ OneAtWork /\ SecretKept /\ OneAnswer
===============================================================================
