------------------------------ MODULE ProviderRuns ------------------------------
(***************************************************************************)
(* Runs of the adapters that keep one task per operation: Claude Code and  *)
(* the generic JSONL process (a child process each) and the OpenAI-        *)
(* compatible API (a chain of HTTP streams), behind ProviderRuntime        *)
(* (crates/homebot-providers/src/{runtime,claude,generic_process,          *)
(* openai_compatible,supervisor}.rs).  The provider itself is external: it *)
(* may send any event, or nothing, at any time.                            *)
(***************************************************************************)
EXTENDS Naturals, Sequences, FiniteSets, SequencesExt

CONSTANTS Ops,         (* operation ids *)
          Calls,       (* ids of tool calls *)
          Kinds,       (* configured adapters: "claude", "generic", "openai" *)
          MaxEvents    (* bound of the model: events before a terminal one *)

VARIABLES
  adapters,    (* ProviderRuntime.adapters *)
  operations,  (* ProviderRuntime.operations: operation -> adapter *)
  active,      (* the adapters' operations with their cancel flag *)
  pending,     (* the adapters' registries of tool calls: [call, op] *)
  run,         (* the task of each operation *)
  stream,      (* history: what was sent on the events channel *)
  listening    (* the receiver exists *)

vars == <<adapters, operations, active, pending, run, stream, listening>>

Processes == {"claude", "generic"}
Terminals == {"Completed", "Cancelled", "Failed"}
Unset == "none"
Steps == {"idle", "setup", "streaming", "waiting", "posting", "ending", "unbridging",
          "clearing", "removing", "done", "refused"}

RunRow == [at : Steps, kind : Kinds \cup {Unset}, report : Terminals \cup {Unset}, asked : BOOLEAN]

TypeOK ==
  /\ adapters \subseteq Kinds
  /\ operations \in [Ops -> Kinds \cup {Unset}]
  /\ active \in [Ops -> {Unset, "running", "cancelled"}]
  /\ pending \subseteq [call : Calls, op : Ops]
  /\ run \in [Ops -> RunRow]
  /\ stream \in [Ops -> Seq(Terminals \cup {"event", "call"})]
  /\ listening \subseteq Ops

Init ==
  /\ adapters = {} /\ operations = [o \in Ops |-> Unset] /\ active = [o \in Ops |-> Unset]
  /\ pending = {} /\ stream = [o \in Ops |-> <<>>] /\ listening = {}
  /\ run = [o \in Ops |-> [at |-> "idle", kind |-> Unset, report |-> Unset, asked |-> FALSE]]

At(o, steps) == run[o].at \in steps
Kind(o) == run[o].kind
Goto(o, step) == run' = [run EXCEPT ![o].at = step]
CallsOf(o) == {p \in pending : p.op = o}
Send(o, e) == stream' = IF o \in listening THEN [stream EXCEPT ![o] = Append(@, e)] ELSE stream
Quiet == UNCHANGED <<stream, listening>>
Registries == <<adapters, operations, active>>

-----------------------------------------------------------------------------
(* The runtime *)

(* build_runtime: every configured adapter, a duplicate id is refused. *)
Register(k) ==
  /\ k \in Kinds \ adapters /\ adapters' = adapters \cup {k}
  /\ UNCHANGED <<operations, active, pending, run, stream, listening>>

ReserveOperation(o, k) == operations[o] = Unset /\ operations' = [operations EXCEPT ![o] = k]

Finish(o) == operations' = [operations EXCEPT ![o] = Unset]

Start(o, k) ==
  /\ At(o, {"idle"}) /\ k \in adapters
  /\ ReserveOperation(o, k)
  /\ active' = [active EXCEPT ![o] = "running"]
  /\ run' = [run EXCEPT ![o].at = "setup", ![o].kind = k]
  /\ listening' = listening \cup {o}
  /\ UNCHANGED <<adapters, pending, stream>>

(* The set-up failed; an unresolved secret leaves the operation with its adapter. *)
StartFails(o) ==
  /\ At(o, {"setup"})
  /\ Finish(o) /\ Goto(o, "refused") /\ listening' = listening \ {o}
  /\ \/ active' = [active EXCEPT ![o] = Unset]
     \/ Kind(o) = "openai" /\ UNCHANGED active
  /\ UNCHANGED <<adapters, pending, stream>>

Started(o) == At(o, {"setup"}) /\ Goto(o, "streaming") /\ UNCHANGED <<Registries, pending>> /\ Quiet

Cancel(o) ==
  /\ operations[o] # Unset /\ active[o] # Unset
  /\ active' = [active EXCEPT ![o] = "cancelled"]
  /\ UNCHANGED <<adapters, operations, pending, run>> /\ Quiet

(* The consumer read a terminal event, or gave up before; the receiver is dropped. *)
Consumed(o) ==
  /\ o \in listening /\ ~At(o, {"setup"})
  /\ Finish(o) /\ listening' = listening \ {o}
  /\ UNCHANGED <<adapters, active, pending, run, stream>>

ResolveToolCall(p) ==
  /\ p \in pending /\ operations[p.op] # Unset
  /\ pending' = pending \ {p}
  /\ UNCHANGED <<Registries, run>> /\ Quiet

-----------------------------------------------------------------------------
(* Child processes: the loop ends with a report, which is sent once the child is reaped. *)

EndWith(o, report) == run' = [run EXCEPT ![o].at = "ending", ![o].report = report]

Reading(o, kinds) == At(o, {"streaming"}) /\ Kind(o) \in kinds
Room(o) == Len(stream[o]) < MaxEvents

ProcessLine(o) ==
  /\ Reading(o, Processes) /\ UNCHANGED <<Registries, pending, listening>>
  /\ \/ /\ o \in listening /\ Room(o) /\ Send(o, "event") /\ UNCHANGED run
     \/ /\ o \in listening /\ \E e \in Terminals : Send(o, e)
        /\ EndWith(o, Unset)
     \/ /\ o \notin listening /\ UNCHANGED stream
        /\ EndWith(o, IF Kind(o) = "claude" THEN "Cancelled" ELSE "Failed")

(* The output ends, is too long, is not JSON, or cannot be read. *)
ProcessFails(o) ==
  /\ Reading(o, Processes) /\ EndWith(o, "Failed")
  /\ UNCHANGED <<Registries, pending>> /\ Quiet

ProcessCancelled(o) ==
  /\ Reading(o, Processes) /\ active[o] = "cancelled" /\ EndWith(o, "Cancelled")
  /\ UNCHANGED <<Registries, pending>> /\ Quiet

(* shutdown closes the input, waits and kills: the child may still act until then. *)
ProcessReaped(o) ==
  /\ At(o, {"ending"})
  /\ (IF run[o].report = Unset THEN UNCHANGED stream ELSE Send(o, run[o].report))
  /\ Goto(o, IF Kind(o) = "claude" THEN "unbridging" ELSE "clearing")
  /\ UNCHANGED <<Registries, pending, listening>>

(* The generic child repeats an id: the run fails; ids are shared by all its runs. *)
GenericCall(o, c) ==
  /\ Reading(o, {"generic"}) /\ UNCHANGED <<Registries, listening>>
  /\ IF \E p \in pending : p.call = c /\ Kind(p.op) = "generic"
     THEN Send(o, "Failed") /\ EndWith(o, Unset) /\ UNCHANGED pending
     ELSE /\ Room(o) /\ Send(o, "call") /\ pending' = pending \cup {[call |-> c, op |-> o]}
          /\ (IF o \in listening THEN UNCHANGED run ELSE EndWith(o, "Failed"))

(* The bridge of Claude serves tool calls until it is shut down; ids are never reused. *)
BridgeCall(o, c) ==
  /\ Kind(o) = "claude" /\ At(o, {"streaming", "ending", "unbridging"}) /\ Room(o)
  /\ \A p \in pending : p.call # c
  /\ o \in listening
  /\ pending' = pending \cup {[call |-> c, op |-> o]} /\ Send(o, "call")
  /\ UNCHANGED <<Registries, run, listening>>

BridgeTimesOut(p) ==
  /\ p \in pending /\ Kind(p.op) = "claude" /\ pending' = pending \ {p}
  /\ UNCHANGED <<Registries, run>> /\ Quiet

(* Faulty variant: the calls are cleared while the bridge still serves. *)
ShutBridgeLate(o) ==
  /\ At(o, {"unbridging"}) /\ Goto(o, "removing") /\ UNCHANGED <<Registries, pending>> /\ Quiet

(* The requests in service see the shutdown and end before it returns. *)
ShutBridge(o) ==
  /\ At(o, {"unbridging"}) /\ pending' = pending \ CallsOf(o) /\ Goto(o, "clearing")
  /\ UNCHANGED Registries /\ Quiet

-----------------------------------------------------------------------------
(* HTTP streams *)

SseEvent(o) ==
  /\ Reading(o, {"openai"}) /\ UNCHANGED <<Registries, pending, listening>>
  /\ \/ o \in listening /\ Room(o) /\ Send(o, "event") /\ UNCHANGED run
     \/ o \notin listening /\ UNCHANGED stream /\ Goto(o, "clearing")

RegisterToolCall(o, c) ==
  /\ Reading(o, {"openai"}) /\ UNCHANGED <<Registries, listening>>
  /\ IF \E p \in pending : p.call = c /\ Kind(p.op) = "openai"
     THEN Send(o, "Failed") /\ Goto(o, "clearing") /\ UNCHANGED pending
     ELSE /\ Room(o) /\ Send(o, "call") /\ pending' = pending \cup {[call |-> c, op |-> o]}
          /\ run' = [run EXCEPT ![o].asked = TRUE,
                                ![o].at = IF o \in listening THEN @ ELSE "clearing"]

(* A response that called tools goes on with their results, unless it ends with [DONE] *)
(* and never named itself; the others end the run.                                     *)
SseEnds(o) ==
  /\ Reading(o, {"openai"}) /\ UNCHANGED <<Registries, pending, listening>>
  /\ \/ run[o].asked /\ Goto(o, "waiting") /\ UNCHANGED stream
     \/ \E e \in {"Completed", "Failed"} : Send(o, e) /\ Goto(o, "clearing")

ResultsIn(o) ==
  /\ At(o, {"waiting"}) /\ CallsOf(o) = {} /\ Goto(o, "posting")
  /\ UNCHANGED <<Registries, pending>> /\ Quiet

Continue(o) ==
  /\ At(o, {"posting"}) /\ UNCHANGED <<Registries, pending, listening>>
  /\ \/ run' = [run EXCEPT ![o].at = "streaming", ![o].asked = FALSE] /\ UNCHANGED stream
     \/ Send(o, "Failed") /\ Goto(o, "clearing")

HttpCancelled(o) ==
  /\ Kind(o) = "openai" /\ At(o, {"streaming", "waiting", "posting"}) /\ active[o] = "cancelled"
  /\ Send(o, "Cancelled") /\ Goto(o, "clearing")
  /\ UNCHANGED <<Registries, pending, listening>>

-----------------------------------------------------------------------------
(* The end of every task *)

ClearCalls(o) ==
  /\ At(o, {"clearing"}) /\ pending' = pending \ CallsOf(o) /\ Goto(o, "removing")
  /\ UNCHANGED Registries /\ Quiet

RemoveActive(o) ==
  /\ At(o, {"removing"}) /\ active' = [active EXCEPT ![o] = Unset] /\ Goto(o, "done")
  /\ UNCHANGED <<adapters, operations, pending>> /\ Quiet

Next ==
  \/ \E k \in Kinds : Register(k)
  \/ \E o \in Ops :
       \/ \E k \in Kinds : Start(o, k)
       \/ StartFails(o) \/ Started(o) \/ Cancel(o) \/ Consumed(o)
       \/ ProcessLine(o) \/ ProcessFails(o) \/ ProcessCancelled(o) \/ ProcessReaped(o)
       \/ \E c \in Calls : GenericCall(o, c) \/ BridgeCall(o, c) \/ RegisterToolCall(o, c)
       \/ ShutBridge(o) \/ SseEvent(o) \/ SseEnds(o) \/ ResultsIn(o) \/ Continue(o)
       \/ HttpCancelled(o) \/ ClearCalls(o) \/ RemoveActive(o)
  \/ \E p \in pending : ResolveToolCall(p) \/ BridgeTimesOut(p)

Spec == Init /\ [][Next]_vars

-----------------------------------------------------------------------------
(* Whatever the provider sends and whenever a run is cancelled, its stream carries at    *)
(* most one terminal event; once the task has ended, a consumer that still listens has   *)
(* had one, and no tool call of the run stays registered (run_process, consume_generic,  *)
(* run_stream and the bridge each end a run on several paths).                           *)
Ends(o) == {i \in DOMAIN stream[o] : stream[o][i] \in Terminals}

EndsClean ==
  \A o \in Ops :
    /\ Cardinality(Ends(o)) <= 1
    /\ At(o, {"done"}) => CallsOf(o) = {} /\ (o \in listening => Ends(o) # {})

(* The invariant behind it: until a task ends nothing terminal was sent, or the report   *)
(* that will be is there still; from then on a listener has it.                          *)
Open(o) ==
  \/ At(o, {"idle", "setup", "streaming", "waiting", "posting"})
  \/ At(o, {"ending"}) /\ run[o].report # Unset
Over(o) ==
  \/ At(o, {"unbridging", "clearing", "removing", "done"})
  \/ At(o, {"ending"}) /\ run[o].report = Unset

EndedOnce(o) ==
  /\ \A i, j \in Ends(o) : i = j
  /\ Open(o) => Ends(o) = {}
  /\ Over(o) /\ o \in listening => Ends(o) # {}
  /\ At(o, {"removing", "done"}) => CallsOf(o) = {}

EndsInv == TypeOK /\ \A o \in Ops : EndedOnce(o)
===============================================================================
