--------------------------- MODULE WorkspaceTools ---------------------------
(* The workspace tools of Bot turns: crates/homebot-server/src/                 *)
(* computer_tools.rs over crates/homebot-tools/src/terminal.rs and filesystem.rs.*)
(* A turn makes one call at a time. A command runs in a pseudo-terminal: one    *)
(* task reads its output, one waits for the child, one ends the run with its    *)
(* terminal chunk. Stopping the turn (provider_turn.rs cancel_group) cancels    *)
(* the command and then wakes the call's wait for an approval. How an approval  *)
(* is registered and decided is the subject of Approvals.                       *)
EXTENDS Naturals

CONSTANTS Ops,       \* operations of turns that share the workspace
          MaxCalls   \* bound of the model: calls of a turn

VARIABLES call,      \* what each turn's call does next, and for which tool
          calls,     \* how many calls each turn has made
          services,  \* computer_terminals
          entry,     \* TerminalService.operations of the call's service
          child,     \* the process: "dropped" is one nobody waits for
          holder,    \* a process the child left behind holds the terminal
          reader,    \* read_pty_output
          flags,     \* of ActiveTerminal, and timed_out
          chunk,     \* the run's terminal chunk
          stop,      \* cancel_group: next step for the operation
          file, temp \* the file written to, and its temporary files

vars == <<call, calls, services, entry, child, holder, reader, flags, chunk,
          stop, file, temp>>

Tools == {"read", "write", "run"}

CallRow == [at : {"idle", "first", "asking", "retry", "working", "written", "spawning",
                  "running", "answered", "cancelled"},
            tool : Tools]

TypeOK ==
  /\ call \in [Ops -> CallRow]
  /\ calls \in [Ops -> 0..MaxCalls]
  /\ services \subseteq Ops
  /\ entry \in [Ops -> {"none", "starting", "active"}]
  /\ child \in [Ops -> {"none", "up", "dead", "reaped", "dropped"}]
  /\ holder \in [Ops -> BOOLEAN] /\ reader \in [Ops -> {"none", "reading", "done"}]
  /\ flags \in [Ops -> SUBSET {"cancelled", "output_limited", "timed_out"}]
  /\ chunk \in [Ops -> {"none", "exited", "cancelled", "timed_out", "failed"}]
  /\ stop \in [Ops -> {"none", "terminal", "approvals", "done"}]
  /\ file \in Ops \cup {"old"} /\ temp \subseteq Ops

Init ==
  /\ call = [o \in Ops |-> [at |-> "idle", tool |-> "read"]]
  /\ calls = [o \in Ops |-> 0]
  /\ services = {}
  /\ entry = [o \in Ops |-> "none"] /\ child = [o \in Ops |-> "none"]
  /\ holder = [o \in Ops |-> FALSE] /\ reader = [o \in Ops |-> "none"]
  /\ flags = [o \in Ops |-> {}] /\ chunk = [o \in Ops |-> "none"]
  /\ stop = [o \in Ops |-> "none"]
  /\ file = "old" /\ temp = {}

terminal == <<entry, child, holder, reader, flags, chunk>>
disk == <<file, temp>>

At(o, at) == call' = [call EXCEPT ![o].at = at]

(* The call ends; a command's service is forgotten. *)
Ends(o, at) == At(o, at) /\ services' = services \ {o}

------------------------------------------------------------------------------
(* A tool call of the turn, which has not ended. A command registers its service first. *)
CallTool(o, tool) ==
  /\ call[o].at \in {"idle", "answered"} /\ calls[o] < MaxCalls
  /\ stop[o] # "done"
  /\ call' = [call EXCEPT ![o] = [at |-> "first", tool |-> tool]]
  /\ calls' = [calls EXCEPT ![o] = @ + 1]
  /\ services' = IF tool = "run" THEN services \cup {o} ELSE services
  /\ entry' = [entry EXCEPT ![o] = "none"] /\ child' = [child EXCEPT ![o] = "none"]
  /\ holder' = [holder EXCEPT ![o] = FALSE] /\ reader' = [reader EXCEPT ![o] = "none"]
  /\ flags' = [flags EXCEPT ![o] = {}] /\ chunk' = [chunk EXCEPT ![o] = "none"]
  /\ UNCHANGED <<stop, disk>>

(* Paths and arguments are validated and the policy is asked; only the first attempt may *)
(* go on to ask the owner, an error of either ends the call.                             *)
Authorize(o) ==
  /\ call[o].at \in {"first", "retry"}
  /\ \/ /\ call[o].tool = "run" /\ At(o, "spawning")
        /\ entry' = [entry EXCEPT ![o] = "starting"]
        /\ UNCHANGED services
     \/ /\ call[o].tool # "run" /\ At(o, "working")
        /\ UNCHANGED <<entry, services>>
     \/ /\ call[o].at = "first" /\ At(o, "asking")
        /\ UNCHANGED <<entry, services>>
     \/ Ends(o, "answered") /\ UNCHANGED entry
  /\ UNCHANGED <<calls, child, holder, reader, flags, chunk, stop, disk>>

(* The owner allows it, or denies it or lets it expire. *)
Decided(o) ==
  /\ call[o].at = "asking"
  /\ \/ At(o, "retry") /\ UNCHANGED services
     \/ Ends(o, "answered")
  /\ UNCHANGED <<calls, terminal, stop, disk>>

------------------------------------------------------------------------------
ReadDone(o) ==
  /\ call[o].at = "working" /\ call[o].tool = "read"
  /\ At(o, "answered")
  /\ UNCHANGED <<calls, services, terminal, stop, disk>>

(* write_atomic: a temporary file of its own, then a rename; a failure removes it. *)
WriteTemporary(o) ==
  /\ call[o].at = "working" /\ call[o].tool = "write"
  /\ \/ At(o, "written") /\ temp' = temp \cup {o}
     \/ At(o, "answered") /\ temp' = temp
  /\ UNCHANGED <<calls, services, terminal, stop, file>>

Rename(o) ==
  /\ call[o].at = "written"
  /\ temp' = temp \ {o} /\ file' \in {file, o}
  /\ At(o, "answered")
  /\ UNCHANGED <<calls, services, terminal, stop>>

------------------------------------------------------------------------------
(* spawn_pty returns; the error of a step after spawn_command leaves a child behind that *)
(* nobody waits for.                                                                     *)
Spawn(o) ==
  /\ call[o].at = "spawning" /\ child[o] = "none"
  /\ \/ /\ child' = [child EXCEPT ![o] = "up"]
        /\ UNCHANGED <<call, services, entry>>
     \/ /\ Ends(o, "answered") /\ entry' = [entry EXCEPT ![o] = "none"]
        /\ \E c \in {"none", "dropped"} : child' = [child EXCEPT ![o] = c]
  /\ UNCHANGED <<calls, holder, reader, flags, chunk, stop, disk>>

(* The command is entered, which waits for the lock of the operations, and its tasks are *)
(* started.                                                                              *)
Register(o) ==
  /\ call[o].at = "spawning" /\ child[o] \in {"up", "dead"}
  /\ At(o, "running") /\ entry' = [entry EXCEPT ![o] = "active"]
  /\ reader' = [reader EXCEPT ![o] = "reading"]
  /\ UNCHANGED <<calls, services, child, holder, flags, chunk, stop, disk>>

(* killer.kill() *)
Killed(o) == child' = [child EXCEPT ![o] = IF @ = "up" THEN "dead" ELSE @]

(* The child exits by itself and may leave a process on the terminal, which ends, too. *)
ChildExits(o) ==
  /\ child[o] = "up"
  /\ child' = [child EXCEPT ![o] = "dead"]
  /\ \E left \in BOOLEAN : holder' = [holder EXCEPT ![o] = left]
  /\ UNCHANGED <<call, calls, services, entry, reader, flags, chunk, stop, disk>>

HolderExits(o) ==
  /\ holder[o] /\ holder' = [holder EXCEPT ![o] = FALSE]
  /\ UNCHANGED <<call, calls, services, entry, child, reader, flags, chunk, stop, disk>>

(* Too much output, or a consumer that does not keep up, ends the command. *)
LimitOutput(o) ==
  /\ reader[o] = "reading" /\ (child[o] \in {"up", "dropped"} \/ holder[o])
  /\ reader' = [reader EXCEPT ![o] = "done"]
  /\ flags' = [flags EXCEPT ![o] = @ \cup {"output_limited"}]
  /\ Killed(o)
  /\ UNCHANGED <<call, calls, services, entry, holder, chunk, stop, disk>>

EndOfOutput(o) ==
  /\ reader[o] = "reading" /\ child[o] # "up" /\ ~holder[o]
  /\ reader' = [reader EXCEPT ![o] = "done"]
  /\ UNCHANGED <<call, calls, services, entry, child, holder, flags, chunk, stop, disk>>

(* The wait task. *)
Reap(o) ==
  /\ entry[o] = "active" /\ child[o] = "dead"
  /\ child' = [child EXCEPT ![o] = "reaped"]
  /\ UNCHANGED <<call, calls, services, entry, holder, reader, flags, chunk, stop, disk>>

(* Waiting fails, or its task does: the child is not reaped, and may run on. *)
WaitFails(o) ==
  /\ entry[o] = "active" /\ child[o] \in {"up", "dead"}
  /\ child' = [child EXCEPT ![o] = "dropped"]
  /\ UNCHANGED <<call, calls, services, entry, holder, reader, flags, chunk, stop, disk>>

(* The deadline, before the wait task is done. *)
Timeout(o) ==
  /\ call[o].at = "running" /\ chunk[o] = "none"
  /\ child[o] \in {"up", "dead"}
  /\ flags' = [flags EXCEPT ![o] = @ \cup {"timed_out"}]
  /\ Killed(o)
  /\ UNCHANGED <<call, calls, services, entry, holder, reader, chunk, stop, disk>>

Outcome(o) ==
  IF "timed_out" \in flags[o] THEN {"timed_out"}
  ELSE IF "cancelled" \in flags[o] THEN {"cancelled"}
  ELSE IF "output_limited" \in flags[o] THEN {"failed"}
  ELSE IF child[o] = "reaped" THEN {"exited"} ELSE {"failed"}

(* A faulty variant: a deadline ends the run without waiting for the child. *)
CoordinateAtDeadline(o) ==
  /\ entry[o] = "active" /\ chunk[o] = "none"
  /\ "timed_out" \in flags[o] \/ (child[o] \in {"reaped", "dropped"} /\ reader[o] = "done")
  /\ \E c \in Outcome(o) : chunk' = [chunk EXCEPT ![o] = c]
  /\ UNCHANGED <<call, calls, services, entry, child, holder, reader, flags, stop, disk>>

(* coordinate_terminal, once the wait task and then the reader are through. *)
Coordinate(o) ==
  /\ entry[o] = "active" /\ chunk[o] = "none"
  /\ child[o] \in {"reaped", "dropped"} /\ reader[o] = "done"
  /\ \E c \in Outcome(o) : chunk' = [chunk EXCEPT ![o] = c]
  /\ UNCHANGED <<call, calls, services, entry, child, holder, reader, flags, stop, disk>>

(* run_command returns when the run's channel closes. *)
RunReturns(o) ==
  /\ call[o].at = "running" /\ chunk[o] # "none"
  /\ Ends(o, "answered") /\ entry' = [entry EXCEPT ![o] = "none"]
  /\ UNCHANGED <<calls, child, holder, reader, flags, chunk, stop, disk>>

------------------------------------------------------------------------------
Stop(o) ==
  /\ stop[o] = "none" /\ stop' = [stop EXCEPT ![o] = "terminal"]
  /\ UNCHANGED <<call, calls, services, terminal, disk>>

(* computer_tools::cancel: a command that is not active yet is left alone. *)
StopTerminal(o) ==
  /\ stop[o] = "terminal" /\ stop' = [stop EXCEPT ![o] = "approvals"]
  /\ IF o \in services /\ entry[o] = "active"
     THEN flags' = [flags EXCEPT ![o] = @ \cup {"cancelled"}] /\ Killed(o)
     ELSE UNCHANGED <<flags, child>>
  /\ UNCHANGED <<call, calls, services, entry, holder, reader, chunk, disk>>

(* The provider run is cancelled and the call's wait for an approval ends without an     *)
(* answer to the provider.                                                               *)
StopApprovals(o) ==
  /\ stop[o] = "approvals" /\ stop' = [stop EXCEPT ![o] = "done"]
  /\ IF call[o].at = "asking" THEN Ends(o, "cancelled") ELSE UNCHANGED <<call, services>>
  /\ UNCHANGED <<calls, terminal, disk>>

(* The server dies: a child loses its terminal, temporary files stay behind. *)
Crash ==
  /\ \E o \in Ops : call[o].at \notin {"idle", "answered", "cancelled"}
  /\ call' = [o \in Ops |-> [call[o] EXCEPT !.at = "cancelled"]]
  /\ services' = {} /\ entry' = [o \in Ops |-> "none"]
  /\ child' = [o \in Ops |-> IF child[o] \in {"up", "dead"} THEN "dropped" ELSE child[o]]
  /\ reader' = [o \in Ops |-> "none"]
  /\ stop' = [o \in Ops |-> "done"]
  /\ UNCHANGED <<calls, holder, flags, chunk, file, temp>>

Next ==
  \/ \E o \in Ops :
       \/ \E tool \in Tools : CallTool(o, tool)
       \/ Authorize(o) \/ Decided(o)
       \/ ReadDone(o) \/ WriteTemporary(o) \/ Rename(o)
       \/ Spawn(o) \/ Register(o) \/ ChildExits(o) \/ HolderExits(o)
       \/ LimitOutput(o) \/ EndOfOutput(o) \/ Reap(o) \/ WaitFails(o) \/ Timeout(o) \/ Coordinate(o) \/ RunReturns(o)
       \/ Stop(o) \/ StopTerminal(o) \/ StopApprovals(o)
  \/ Crash

Spec == Init /\ [][Next]_vars

------------------------------------------------------------------------------
(* Whatever of its exit, its deadline, its output limit and a stop comes first, a command *)
(* whose process is not yet reaped stays where a stop looks for it: its service, by which *)
(* computer_tools::cancel finds it first, is kept, its call still waits, and its entry is *)
(* active from the moment its tasks run. (Between spawn and entry there is only the       *)
(* service: StopReaps.) Tasks, call and stop race for it; a call that was answered too    *)
(* early would leave a process behind that nothing can end.                               *)
FoundByStop ==
  \A o \in Ops : child[o] \in {"up", "dead"} =>
    /\ o \in services
    /\ call[o].at = "spawning" \/ (call[o].at = "running" /\ entry[o] = "active")

(* The invariant behind it: a command keeps its service until its call ends, and the      *)
(* terminal chunk, which ends the call, comes when no task waits for the process.         *)
StepsAgree ==
  \A o \in Ops :
    /\ call[o].at \in {"first", "asking", "retry", "working", "written", "spawning"} => chunk[o] = "none"
    /\ entry[o] = "active" => call[o].at = "running"
    /\ call[o].at \in {"first", "asking", "retry"} /\ call[o].tool = "run" => o \in services
    /\ call[o].at \in {"spawning", "running"} => o \in services
    /\ chunk[o] # "none" => child[o] \in {"reaped", "dropped"}

FoundInv == TypeOK /\ StepsAgree /\ FoundByStop

(* "Stopping the Bot turn cancels and reaps the server-owned process" (docs/tools.md):   *)
(* once the stop is through, a command of the turn that is up has been killed. A stop    *)
(* that comes while the command is being spawned finds nothing to cancel, and the        *)
(* command then runs until its deadline. A process that nobody waits for runs on anyway. *)
StopReaps == \A o \in Ops : stop[o] = "done" => child[o] # "up"
==============================================================================
