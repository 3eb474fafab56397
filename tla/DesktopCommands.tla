-------------------------- MODULE DesktopCommands --------------------------
(***************************************************************************)
(* The desktop transport's command queue.  The app sends commands down a   *)
(* channel; the transport executes each as a chain of HTTP requests while  *)
(* it is connected, parks those it takes while disconnected, and reports   *)
(* one outcome per command.  Each request may be refused, or take effect   *)
(* with its answer lost; a connector's setup undoes the secret it stored.  *)
(***************************************************************************)
EXTENDS Integers, Sequences

CONSTANTS Kinds,        \* commands the user may ask for
          MaxCommands,
          MaxDrops      \* disconnections

VARIABLES kind,       \* command number -> what was asked
          channel, pending,  \* numbers waiting, in the channel and parked
          link,       \* "up", "down" or "stopped"
          current,    \* the command being executed, 0 when none
          at,         \* its next request; 0 while it undoes
          outcome,    \* answers the app received, in order
          secrets, plugins, connected,  \* server rows, by command
          lost,       \* commands that lost an answer, or whose undo failed
          drops

vars == <<kind, channel, pending, link, current, at, outcome, secrets,
          plugins, connected, lost, drops>>
queues == <<kind, channel, pending, link, drops>>
rows == <<secrets, plugins, connected>>

(* The requests of a command, in order, by the function that executes it.  *)
Bot       == <<"post">>
Group     == <<"post">>
Workspace == <<"post">>
Vcs       == <<"post">>
Routine   == <<"post">>
Recording == <<"post">>
Device    == <<"post">>
Load      == <<"get">>
Timeline(chatExists) == IF chatExists THEN <<"post">> ELSE <<"create_chat", "post">>
Upload    == <<"create", "put", "finalize">>
RemoteMcp(token) == (IF token THEN <<"secret">> ELSE <<>>) \o <<"plugin", "connect">>
MemoryProvider(builtin) == IF builtin THEN <<"plugin">> ELSE <<"secret", "plugin", "connect">>
Composio  == <<"secret", "plugin", "connect", "authorize">>
RevokeComposio(again) == IF again THEN <<"revoke", "authorize">> ELSE <<"revoke">>

Chain(k) ==
  CASE k = "bot"             -> Bot
    [] k = "group"           -> Group
    [] k = "workspace"       -> Workspace
    [] k = "vcs"             -> Vcs
    [] k = "routine"         -> Routine
    [] k = "recording"       -> Recording
    [] k = "device"          -> Device
    [] k = "load"            -> Load
    [] k = "first_message"   -> Timeline(FALSE)
    [] k = "message"         -> Timeline(TRUE)
    [] k = "upload"          -> Upload
    [] k = "public_mcp"      -> RemoteMcp(FALSE)
    [] k = "token_mcp"       -> RemoteMcp(TRUE)
    [] k = "builtin_memory"  -> MemoryProvider(TRUE)
    [] k = "memory_provider" -> MemoryProvider(FALSE)
    [] k = "composio"        -> Composio
    [] k = "revoke"          -> RevokeComposio(FALSE)
    [] k = "switch"          -> RevokeComposio(TRUE)

CommandNames == {"bot", "group", "workspace", "vcs", "routine", "recording", "device", "load",
                 "first_message", "message", "upload", "public_mcp", "token_mcp",
                 "builtin_memory", "memory_provider", "composio", "revoke", "switch"}

Asked == DOMAIN kind

TypeOK ==
  /\ Asked = 1..Len(kind) /\ \A n \in Asked : kind[n] \in Kinds
  /\ \A q \in {channel, pending} : \A i \in DOMAIN q : q[i] \in Asked
  /\ link \in {"up", "down", "stopped"}
  /\ current \in {0} \cup Asked
  /\ at \in 0..5
  /\ \A i \in DOMAIN outcome : outcome[i].n \in Asked /\ outcome[i].ok \in BOOLEAN
  /\ secrets \subseteq Asked /\ plugins \subseteq Asked
  /\ connected \subseteq plugins /\ lost \subseteq Asked

Init ==
  /\ kind = <<>> /\ channel = <<>> /\ pending = <<>> /\ outcome = <<>>
  /\ link = "down" /\ current = 0 /\ at = 1 /\ drops = 0
  /\ secrets = {} /\ plugins = {} /\ connected = {} /\ lost = {}

Ask(k) ==
  /\ link # "stopped" /\ Len(kind) < MaxCommands
  /\ kind' = Append(kind, k)
  /\ channel' = Append(channel, Len(kind) + 1)
  /\ UNCHANGED <<pending, link, current, at, outcome, rows, lost, drops>>

-----------------------------------------------------------------------------
(* The connection.  A command in progress runs to its end before the loop  *)
(* notices a lost socket.                                                  *)

Connect ==
  /\ link = "down"
  /\ link' = "up"
  /\ UNCHANGED <<kind, channel, pending, current, at, outcome, rows, lost, drops>>

Disconnect ==
  /\ link = "up" /\ current = 0 /\ pending = <<>> /\ drops < MaxDrops
  /\ link' = "down"
  /\ drops' = drops + 1
  /\ UNCHANGED <<kind, channel, pending, current, at, outcome, rows, lost>>

\* Faulty variant: the newest command is parked first.
\* While disconnected the loop takes a command in place of its delay.
Parked(n) == Append(pending, n)

Park ==
  /\ link = "down" /\ channel # <<>> /\ kind[Head(channel)] # "shutdown"
  /\ pending' = Parked(Head(channel))
  /\ channel' = Tail(channel)
  /\ UNCHANGED <<kind, link, current, at, outcome, rows, lost, drops>>

Stop ==
  /\ current = 0 /\ channel # <<>> /\ kind[Head(channel)] = "shutdown"
  /\ link # "stopped" /\ (link = "up" => pending = <<>>)
  /\ link' = "stopped"
  /\ channel' = Tail(channel)
  /\ UNCHANGED <<kind, pending, current, at, outcome, rows, lost, drops>>

-----------------------------------------------------------------------------
(* Executing a command.                                                    *)

Begin(n) ==
  /\ link = "up" /\ current = 0
  /\ current' = n
  /\ at' = 1
  /\ UNCHANGED <<kind, link, outcome, rows, lost, drops>>

BeginParked ==
  /\ pending # <<>>
  /\ pending' = Tail(pending)
  /\ Begin(Head(pending))
  /\ UNCHANGED channel

BeginNext ==
  /\ pending = <<>> /\ channel # <<>> /\ kind[Head(channel)] # "shutdown"
  /\ channel' = Tail(channel)
  /\ Begin(Head(channel))
  /\ UNCHANGED pending

Request == Chain(kind[current])[at]

\* What the server has done once it carried out the current request.
Done ==
  /\ secrets' = IF Request = "secret" THEN secrets \cup {current} ELSE secrets
  /\ plugins' = IF Request = "plugin" THEN plugins \cup {current} ELSE plugins
  /\ connected' = IF Request = "connect" THEN connected \cup {current} ELSE connected

Report(ok) ==
  /\ outcome' = Append(outcome, [n |-> current, ok |-> ok])
  /\ current' = 0
  /\ at' = 1

Answered ==
  /\ current # 0 /\ at # 0
  /\ Done
  /\ IF at = Len(Chain(kind[current])) THEN Report(TRUE)
     ELSE at' = at + 1 /\ UNCHANGED <<outcome, current>>
  /\ UNCHANGED <<queues, lost>>

\* Faulty variant: the stored secret is forgotten.
GivesUpAtOnce == Report(FALSE)

\* Only a plugin that could not be created takes its secret back.
GivesUp ==
  IF Request = "plugin" /\ current \in secrets
  THEN at' = 0 /\ UNCHANGED <<outcome, current>>
  ELSE Report(FALSE)

Refused ==
  /\ current # 0 /\ at # 0
  /\ GivesUp
  /\ UNCHANGED <<queues, rows, lost>>

AnswerLost ==
  /\ current # 0 /\ at # 0
  /\ Done
  /\ lost' = lost \cup {current}
  /\ GivesUp
  /\ UNCHANGED queues

Undo ==
  /\ current # 0 /\ at = 0
  /\ \/ secrets' = secrets \ {current} /\ UNCHANGED lost
     \/ lost' = lost \cup {current} /\ UNCHANGED secrets
  /\ Report(FALSE)
  /\ UNCHANGED <<queues, plugins, connected>>

Next ==
  \/ \E k \in Kinds : Ask(k)
  \/ Connect \/ Disconnect \/ Park \/ Stop
  \/ BeginParked \/ BeginNext \/ Answered \/ Refused \/ AnswerLost \/ Undo

Spec == Init /\ [][Next]_vars

-----------------------------------------------------------------------------
(* The app hears of every command once and in the order it asked, whatever *)
(* was parked by a disconnection (transport.rs run and connected_loop).    *)
AnsweredInOrder == \A i \in DOMAIN outcome : outcome[i].n = i

(* A setup that failed leaves no secret without the plugin it was stored   *)
(* for, unless an answer or the undo itself was lost (api.rs, the three    *)
(* connector commands).                                                    *)
FailedSetupKeepsNoSecret ==
  \A i \in DOMAIN outcome :
     LET n == outcome[i].n IN
     ~outcome[i].ok /\ n \in secrets \ lost => n \in plugins

(* What keeps them.  Commands are numbered as they are asked: the answered ones, the *)
(* one under way, the parked and the waiting ones are one line without a gap.  The   *)
(* one under way has stored a secret only to create its plugin next.                 *)
Begun == Len(outcome) + (IF current = 0 THEN 0 ELSE 1)

Forms ==
  /\ kind \in Seq(Kinds) /\ channel \in Seq(Nat) /\ pending \in Seq(Nat)
  /\ outcome \in Seq([n : Nat, ok : BOOLEAN])
  /\ link \in {"up", "down", "stopped"} /\ current \in Nat /\ at \in Nat

InLine ==
  /\ AnsweredInOrder
  /\ current # 0 => current = Begun /\ link = "up"
  /\ Begun <= Len(kind)
  /\ link # "stopped" =>
       /\ Len(kind) = Begun + Len(pending) + Len(channel)
       /\ \A i \in DOMAIN pending : /\ pending[i] = Begun + i
                                    /\ kind[Begun + i] # "shutdown"
       /\ \A i \in DOMAIN channel : channel[i] = Begun + Len(pending) + i

UnderWay ==
  /\ secrets \cup plugins \subseteq 1..Begun
  /\ current # 0 =>
       /\ kind[current] # "shutdown" /\ at <= Len(Chain(kind[current]))
       /\ at # 0 /\ current \in secrets => Request = "plugin" \/ current \in plugins

CommandsInv == Forms /\ InLine /\ UnderWay /\ FailedSetupKeepsNoSecret
=============================================================================
