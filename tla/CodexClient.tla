------------------------------- MODULE CodexClient -------------------------------
(***************************************************************************)
(* The Codex adapter: one App Server process serves the turns of all chats *)
(* of a profile.  Turns register a route and send a request; the reader    *)
(* task dispatches responses and notifications; the reader's error or the  *)
(* monitor's exit report ends the client for everyone, and the next call   *)
(* spawns another (crates/homebot-providers/src/codex.rs).  A generation   *)
(* numbers the clients.                                                    *)
(***************************************************************************)
EXTENDS Naturals, Sequences, SequencesExt

CONSTANTS Ops,          (* operation ids *)
          MaxClients,   (* bound of the model: clients spawned *)
          MaxEvents     (* bound of the model: events per stream *)

VARIABLES
  phase,      (* of each client: "none", "up", "failing" (alive is false and its *)
              (* requests have failed), "down" (its routes are gone, too)        *)
  slot,       (* CodexAdapter.client: the generation in use, 0 for none *)
  route,      (* CodexClient.routes *)
  rpc,        (* CodexClient.pending: the answer to each operation's request *)
  asked,      (* approvals and tool_calls: operation -> generation *)
  reader,     (* the reader of each client: the operation whose terminal event it sent *)
  turn,       (* the caller of start or resume *)
  stream,     (* history: events of each operation *)
  listening   (* the receiver exists *)

vars == <<phase, slot, route, rpc, asked, reader, turn, stream, listening>>

Clients == 1..MaxClients
Terminals == {"Completed", "Cancelled", "Failed"}
NoOne == "none"
NoRoute == [of |-> 0, turn |-> FALSE]

RouteRow == [of : {0} \cup Clients, turn : BOOLEAN]
TurnRow == [at : {"idle", "thread", "routing", "taken", "registered", "checked", "waiting",
                  "given", "failed", "done"}, of : {0} \cup Clients]

TypeOK ==
  /\ phase \in [Clients -> {"none", "up", "failing", "down"}]
  /\ slot \in {0} \cup Clients
  /\ route \in [Ops -> RouteRow]
  /\ rpc \in [Ops -> {"none", "pending", "ok", "error"}]
  /\ asked \subseteq Ops \X Clients
  /\ reader \in [Clients -> Ops \cup {NoOne}]
  /\ turn \in [Ops -> TurnRow]
  /\ stream \in [Ops -> Seq(Terminals \cup {"event"})]
  /\ listening \subseteq Ops

Init ==
  /\ phase = [g \in Clients |-> "none"] /\ slot = 0
  /\ route = [o \in Ops |-> NoRoute] /\ rpc = [o \in Ops |-> "none"] /\ asked = {}
  /\ reader = [g \in Clients |-> NoOne]
  /\ turn = [o \in Ops |-> [at |-> "idle", of |-> 0]]
  /\ stream = [o \in Ops |-> <<>>] /\ listening = {}

At(o, step) == turn[o].at = step
Goto(o, step) == turn' = [turn EXCEPT ![o].at = step]
Routed(o, g) == route[o].of = g
Alive(g) == g # 0 /\ phase[g] = "up"
Send(o, e) == stream' = [stream EXCEPT ![o] = Append(@, e)]

-----------------------------------------------------------------------------
(* client(): the live client, or a new one once it has answered initialize. *)

UseClient(g) ==
  \/ Alive(slot) /\ g = slot /\ UNCHANGED <<phase, slot>>
  \/ /\ ~Alive(slot) /\ g \in Clients /\ phase[g] = "none"
     /\ \A h \in Clients : h < g => phase[h] # "none"
     /\ phase' = [phase EXCEPT ![g] = "up"] /\ slot' = g

(* Cancel, resolutions, health, models and compact all begin with client(). *)
AnyCall(g) ==
  /\ UseClient(g)
  /\ UNCHANGED <<route, rpc, asked, reader, turn, stream, listening>>

(* start, resume: thread/start or thread/resume, answered or not. *)
Start(o, g) ==
  /\ At(o, "idle") /\ UseClient(g)
  /\ Goto(o, "thread")
  /\ UNCHANGED <<route, rpc, asked, reader, stream, listening>>

ThreadAnswered(o) ==
  /\ At(o, "thread") /\ (Goto(o, "routing") \/ Goto(o, "failed"))
  /\ UNCHANGED <<phase, slot, route, rpc, asked, reader, stream, listening>>

(* begin_turn takes the client again: it may be another than the thread was started on, *)
(* and it may be gone by the time its routes are locked.                                *)
TakeClient(o, g) ==
  /\ At(o, "routing") /\ UseClient(g)
  /\ turn' = [turn EXCEPT ![o] = [at |-> "taken", of |-> g]]
  /\ UNCHANGED <<route, rpc, asked, reader, stream, listening>>

RegisterRoute(o) ==
  /\ At(o, "taken") /\ Goto(o, "registered")
  /\ route' = [route EXCEPT ![o] = [of |-> turn[o].of, turn |-> FALSE]]
  /\ Send(o, "event") /\ listening' = listening \cup {o}
  /\ UNCHANGED <<phase, slot, rpc, asked, reader>>

RemoveRoute(o) == route' = [route EXCEPT ![o] = NoRoute]
Refuse(o) ==
  /\ RemoveRoute(o) /\ Goto(o, "failed") /\ listening' = listening \ {o}
  /\ rpc' = [rpc EXCEPT ![o] = "none"]

(* request: alive is looked at before the pending entry exists. *)
RequestChecks(o) ==
  /\ At(o, "registered") /\ UNCHANGED <<phase, slot, asked, reader, stream>>
  /\ IF Alive(turn[o].of) THEN Goto(o, "checked") /\ UNCHANGED <<route, rpc, listening>>
     ELSE Refuse(o)

Request(o) ==
  /\ At(o, "checked") /\ UNCHANGED <<phase, slot, asked, reader, stream>>
  /\ \/ rpc' = [rpc EXCEPT ![o] = "pending"] /\ Goto(o, "waiting") /\ UNCHANGED <<route, listening>>
     \/ Refuse(o)

(* RPC_TIMEOUT, or an error was answered. *)
RequestFails(o) ==
  /\ At(o, "waiting") /\ rpc[o] \in {"pending", "error"} /\ Refuse(o)
  /\ UNCHANGED <<phase, slot, asked, reader, stream>>

(* set_turn: the route must still be there; without turn.id it is left behind. *)
SetTurn(o) ==
  /\ At(o, "waiting") /\ rpc[o] = "ok" /\ rpc' = [rpc EXCEPT ![o] = "none"]
  /\ \/ /\ route[o] # NoRoute /\ route' = [route EXCEPT ![o].turn = TRUE]
        /\ Goto(o, "given") /\ UNCHANGED listening
     \/ Goto(o, "failed") /\ listening' = listening \ {o} /\ UNCHANGED route
  /\ UNCHANGED <<phase, slot, asked, reader, stream>>

(* The turn consumed a terminal event, or gave up on the run. *)
Consumed(o) ==
  /\ At(o, "given") /\ Goto(o, "done") /\ listening' = listening \ {o}
  /\ UNCHANGED <<phase, slot, route, rpc, asked, reader, stream>>

(* resolve_approval, resolve_tool_call: with the client of this moment. *)
Resolve(o, g) ==
  /\ UseClient(g) /\ asked' = asked \ {<<o, g>>}
  /\ UNCHANGED <<route, rpc, reader, turn, stream, listening>>

-----------------------------------------------------------------------------
(* The reader; what a process that has exited wrote is still read. *)

Reads(g) == phase[g] \in {"up", "failing"} /\ reader[g] = NoOne

(* dispatch: a response whose request is gone is dropped. *)
Response(o, g) ==
  /\ Reads(g) /\ turn[o].of = g /\ rpc[o] = "pending" /\ phase[g] = "up"
  /\ \E answer \in {"ok", "error"} : rpc' = [rpc EXCEPT ![o] = answer]
  /\ UNCHANGED <<phase, slot, route, asked, reader, turn, stream, listening>>

(* fail_all, first part: the swap of alive lets one caller through. *)
FailPending(g) ==
  /\ phase' = [phase EXCEPT ![g] = "failing"]
  /\ rpc' = [o \in Ops |-> IF turn[o].of = g /\ rpc[o] = "pending" THEN "error" ELSE rpc[o]]

(* The server speaks of a turn only once it has started it. *)
Told(o, g) ==
  Routed(o, g) /\ Reads(g) /\ ~At(o, "registered") /\ ~At(o, "checked") /\ rpc[o] # "pending"

(* A receiver that is gone ends the reader, and with it the client. *)
Unheard(o, g) ==
  /\ Told(o, g) /\ o \notin listening /\ phase[g] = "up"
  /\ FailPending(g)
  /\ UNCHANGED <<slot, route, asked, reader, turn, stream, listening>>

Notification(o, g) ==
  /\ Told(o, g) /\ o \in listening /\ Len(stream[o]) < MaxEvents
  /\ Send(o, "event")
  /\ UNCHANGED <<phase, slot, route, rpc, asked, reader, turn, listening>>

TurnCompleted(o, g) ==
  /\ Told(o, g) /\ o \in listening
  /\ \E e \in Terminals : Send(o, e)
  /\ reader' = [reader EXCEPT ![g] = o]
  /\ UNCHANGED <<phase, slot, route, rpc, asked, turn, listening>>

TurnForgotten(g) ==
  /\ reader[g] # NoOne /\ reader' = [reader EXCEPT ![g] = NoOne]
  /\ RemoveRoute(reader[g]) /\ asked' = asked \ {<<reader[g], g>>}
  /\ UNCHANGED <<phase, slot, rpc, turn, stream, listening>>

(* Approvals and tool calls; without a route they are declined. *)
ServerRequest(o, g) ==
  /\ Told(o, g) /\ o \in listening /\ Len(stream[o]) < MaxEvents
  /\ asked' = asked \cup {<<o, g>>} /\ Send(o, "event")
  /\ UNCHANGED <<phase, slot, route, rpc, reader, turn, listening>>

RequestResolved(o, g) ==
  /\ <<o, g>> \in asked /\ Told(o, g) /\ asked' = asked \ {<<o, g>>}
  /\ UNCHANGED <<phase, slot, route, rpc, reader, turn, stream, listening>>

(* The process exits, or its output cannot be read. *)
Dies(g) ==
  /\ phase[g] = "up" /\ FailPending(g)
  /\ UNCHANGED <<slot, route, asked, reader, turn, stream, listening>>

(* Faulty variant: a route whose turn has no id yet is passed over. *)
FailStartedRoutes(g) ==
  /\ phase[g] = "failing" /\ phase' = [phase EXCEPT ![g] = "down"]
  /\ route' = [o \in Ops |-> IF Routed(o, g) /\ route[o].turn THEN NoRoute
                              ELSE route[o]]
  /\ stream' = [o \in Ops |-> IF Routed(o, g) /\ route[o].turn 
                                 /\ o \in listening
                              THEN Append(stream[o], "Failed") ELSE stream[o]]
  /\ asked' = {a \in asked : a[2] # g}
  /\ UNCHANGED <<slot, rpc, reader, turn, listening>>

(* fail_all, second part. *)
FailRoutes(g) ==
  /\ phase[g] = "failing" /\ phase' = [phase EXCEPT ![g] = "down"]
  /\ route' = [o \in Ops |-> IF Routed(o, g) THEN NoRoute ELSE route[o]]
  /\ stream' = [o \in Ops |-> IF Routed(o, g) /\ o \in listening
                              THEN Append(stream[o], "Failed") ELSE stream[o]]
  /\ asked' = {a \in asked : a[2] # g}
  /\ UNCHANGED <<slot, rpc, reader, turn, listening>>

Next ==
  \/ \E g \in Clients :
       \/ AnyCall(g) \/ Dies(g) \/ FailRoutes(g) \/ TurnForgotten(g)
       \/ \E o \in Ops :
            \/ Start(o, g) \/ TakeClient(o, g) \/ Resolve(o, g) \/ Response(o, g)
            \/ Unheard(o, g) \/ Notification(o, g) \/ TurnCompleted(o, g)
            \/ ServerRequest(o, g) \/ RequestResolved(o, g)
  \/ \E o \in Ops :
       \/ ThreadAnswered(o) \/ RegisterRoute(o) \/ RequestChecks(o) \/ Request(o) \/ RequestFails(o)
       \/ SetTurn(o) \/ Consumed(o)

Spec == Init /\ [][Next]_vars

-----------------------------------------------------------------------------
(* No turn waits for a client that is gone: once fail_all is through, every run that was  *)
(* handed to a turn has its terminal event, and a route is left only to a caller that has *)
(* yet to learn of its failure, however the death falls between begin_turn's steps.       *)
NoneStranded ==
  \A o \in Ops :
    turn[o].of # 0 /\ phase[turn[o].of] = "down" =>
      /\ At(o, "given") => \E e \in Range(stream[o]) : e \in Terminals
      /\ route[o] # NoRoute => At(o, "registered") \/ At(o, "checked") \/ At(o, "waiting")

(* The invariant behind it.  A route is the turn's with its own client, and of a client   *)
(* that is gone only a caller holds one that has not asked yet whether it is alive; a turn *)
(* that was given its run listens, and loses the route with or after its terminal event.  *)
Ended(o) == \E e \in Range(stream[o]) : e \in Terminals

RouteOwned(o) ==
  /\ route[o] # NoRoute => route[o].of = turn[o].of /\ turn[o].of # 0
  /\ route[o] # NoRoute /\ phase[turn[o].of] = "down" => At(o, "registered")
  /\ At(o, "given") => o \in listening /\ (route[o] # NoRoute \/ Ended(o))
  /\ turn[o].at \in {"registered", "checked", "waiting"} => o \in listening
  /\ turn[o].at \in {"taken", "registered"} => turn[o].of # 0
  /\ turn[o].at \in {"idle", "thread", "routing", "taken"} => route[o] = NoRoute

ReadersToldOf == \A g \in Clients : reader[g] # NoOne => Ended(reader[g])

StrandInv == TypeOK /\ (\A o \in Ops : RouteOwned(o)) /\ ReadersToldOf
===============================================================================
