-------------------------- MODULE DesktopTimeline --------------------------
(***************************************************************************)
(* How the desktop keeps the open chat's timeline: a provider turn writes  *)
(* rows and publishes events in separate transactions, the transport reads *)
(* the timeline (rows first, boundary last) between two socket events, and *)
(* the app folds responses and events into one view.  The socket itself    *)
(* is EventStream's; here it hands over the next event of the log, or a    *)
(* snapshot that skips to its end.                                         *)
(***************************************************************************)
EXTENDS Integers, Sequences

CONSTANTS Bots,         \* each with its direct chat
          Working,      \* those of them whose chat runs its one turn
          NoBot,
          MaxDeltas,    \* content deltas of a turn
          MaxShifts     \* snapshots, selections and events of other kinds that may
                        \* come in between

VARIABLES row,       \* the Bot's message: its status and its deltas
          turn,      \* what the provider turn does next
          log,       \* the outbox
          cursor,    \* the transport's position in the log
          commands,  \* loads the app has asked for, in order
          reading,   \* the load the transport is executing
          inbox,     \* desktop events the app has not handled
          selected,  \* the Bot picked in the roster
          view,      \* TimelineModel
          failed,    \* the last load answered with an error
          shifts     \* of MaxShifts, so far

vars == <<row, turn, log, cursor, commands, reading, inbox, selected, view,
          failed, shifts>>
server == <<row, turn, log>>
transport == <<cursor, commands, reading, shifts>>
app == <<selected, view, failed>>

NoMessage == [status |-> "none", text |-> <<>>]
NotReading == [bot |-> NoBot, row |-> NoMessage]
Snapshot(boundary) ==
  [kind |-> "snapshot", bot |-> NoBot, row |-> NoMessage, seq |-> boundary]
EmptyView == [bot |-> NoBot, row |-> NoMessage, cursor |-> 0, stale |-> FALSE]

Kinds == {"message", "delta", "chat", "other"}
Rows == [status : {"none", "streaming", "done"}, text : Seq(Nat)]
Messages == [kind : Kinds \cup {"timeline", "failed", "snapshot"}, bot : Bots \cup {NoBot},
             row : Rows, seq : Nat]

TypeOK ==
  /\ row \in [Bots -> Rows]
  /\ turn \in [Bots -> {"idle", "created", "delta", "finished", "settling", "ended"}]
  /\ log \in Seq(Messages) /\ inbox \in Seq(Messages) /\ cursor \in 0..Len(log)
  /\ commands \in Seq(Bots)
  /\ reading \in [bot : Bots, row : Rows] \cup {NotReading}
  /\ selected \in Bots \cup {NoBot}
  /\ view \in [bot : Bots \cup {NoBot}, row : Rows, cursor : Nat, stale : BOOLEAN]
  /\ failed \in BOOLEAN

Init ==
  /\ row = [b \in Bots |-> NoMessage]
  /\ turn = [b \in Bots |-> "idle"]
  /\ log = <<>> /\ cursor = 0 /\ commands = <<>>
  /\ inbox = <<Snapshot(0)>>  \* a first connection has no cursor to resume from
  /\ reading = NotReading
  /\ selected = NoBot /\ view = EmptyView /\ failed = FALSE
  /\ shifts = 0

-----------------------------------------------------------------------------
(* The provider turn.  Each row write is committed before its event.       *)

Write(b, from, to, message) ==
  /\ turn[b] = from
  /\ turn' = [turn EXCEPT ![b] = to]
  /\ row' = [row EXCEPT ![b] = message]
  /\ UNCHANGED <<log, inbox, transport, app>>

CreateMessage(b) ==
  /\ row[b].status = "none"
  /\ Write(b, "idle", "created", [status |-> "streaming", text |-> <<>>])

AppendDelta(b) ==
  /\ row[b].status = "streaming" /\ Len(row[b].text) < MaxDeltas
  /\ Write(b, "idle", "delta",
           [row[b] EXCEPT !.text = Append(@, Len(@) + 1)])

FinishMessage(b) ==
  /\ row[b].status = "streaming"
  /\ Write(b, "idle", "finished", [row[b] EXCEPT !.status = "done"])

Publish(b) ==
  LET event(kind) == [kind |-> kind, bot |-> b, row |-> row[b], seq |-> Len(log) + 1]
  IN  /\ \/ turn[b] = "created"  /\ turn' = [turn EXCEPT ![b] = "idle"]
            /\ log' = Append(log, event("message"))
         \/ turn[b] = "delta"    /\ turn' = [turn EXCEPT ![b] = "idle"]
            /\ log' = Append(log, event("delta"))
         \/ turn[b] = "finished" /\ turn' = [turn EXCEPT ![b] = "settling"]
            /\ log' = Append(log, event("message"))
         \/ turn[b] = "settling" /\ turn' = [turn EXCEPT ![b] = "ended"]
            /\ log' = Append(log, event("chat"))
      /\ UNCHANGED <<row, inbox, transport, app>>

\* A capability rule or a browser session changes: an event of no timeline.
OtherEvent ==
  /\ shifts < MaxShifts /\ shifts' = shifts + 1
  /\ log' = Append(log, [kind |-> "other", bot |-> NoBot, row |-> NoMessage,
                         seq |-> Len(log) + 1])
  /\ UNCHANGED <<row, turn, cursor, commands, reading, inbox, app>>

-----------------------------------------------------------------------------
(* The transport.  A command runs to its end before the socket is read     *)
(* again, so a response and the events around it keep their order.         *)

ReadRows ==
  /\ reading = NotReading /\ commands # <<>>
  /\ reading' = [bot |-> Head(commands), row |-> row[Head(commands)]]
  /\ commands' = Tail(commands)
  /\ UNCHANGED <<server, cursor, shifts, inbox, app>>

Respond(answer) ==
  /\ inbox' = Append(inbox, answer)
  /\ reading' = NotReading
  /\ UNCHANGED <<server, cursor, commands, shifts, app>>

ReadBoundary ==
  /\ reading # NotReading
  /\ Respond([kind |-> "timeline", bot |-> reading.bot, row |-> reading.row,
              seq |-> Len(log)])

LoadFails ==
  /\ reading # NotReading
  /\ Respond([kind |-> "failed", bot |-> reading.bot, row |-> NoMessage, seq |-> 0])

Deliver ==
  /\ reading = NotReading /\ cursor < Len(log)
  /\ cursor' = cursor + 1
  /\ inbox' = Append(inbox, log[cursor + 1])
  /\ UNCHANGED <<server, commands, reading, shifts, app>>

\* A stream whose cursor cannot be served starts again from a snapshot.
Reset ==
  /\ reading = NotReading /\ shifts < MaxShifts
  /\ shifts' = shifts + 1
  /\ cursor' = Len(log)
  /\ inbox' = Append(inbox, Snapshot(Len(log)))
  /\ UNCHANGED <<server, commands, reading, app>>

-----------------------------------------------------------------------------
(* The app.                                                                *)

\* TimelineModel::apply_body, for an event of the chat on view.
Reconcile(v, event) ==
  IF event.bot # v.bot THEN v
  ELSE CASE event.kind = "message" -> [v EXCEPT !.row = event.row]
         [] event.kind = "delta" /\ v.row.status # "none" ->
              [v EXCEPT !.row.text = Append(@, Len(event.row.text))]
         [] event.kind = "delta" -> [v EXCEPT !.stale = TRUE]
         [] OTHER -> v

ApplyEvent(v, event) ==
  CASE event.seq <= v.cursor    -> v
    [] event.seq = v.cursor + 1 -> [Reconcile(v, event) EXCEPT !.cursor = event.seq]
    [] OTHER                    -> [v EXCEPT !.stale = TRUE]

\* Faulty variant: a settled chat is not read again.
ReloadsNever(event) == <<>>

\* A Chat-changed event of the selected Bot asks for its timeline again.
Reloads(event) ==
  IF event.kind = "chat" /\ event.bot = selected THEN <<selected>> ELSE <<>>

Handling(kinds) ==
  /\ inbox # <<>> /\ Head(inbox).kind \in kinds
  /\ inbox' = Tail(inbox)
  /\ UNCHANGED <<server, cursor, reading, shifts>>

HandleServer ==
  LET event == Head(inbox)
      next  == ApplyEvent(view, event)
  IN  /\ Handling(Kinds \ {"other"})
      /\ view' = next
      /\ commands' = commands \o Reloads(event)
                     \o (IF next.stale THEN <<selected>> ELSE <<>>)
      /\ UNCHANGED <<selected, failed>>

\* Rules and browser sessions are taken out before the views see the event, so the
\* cursor of the view stays and its next event is past a gap.
HandleOther ==
  /\ Handling({"other"})
  /\ UNCHANGED <<commands, app>>

Hydrate ==
  /\ Handling({"timeline"})
  /\ view' = [bot |-> Head(inbox).bot, row |-> Head(inbox).row,
              cursor |-> Head(inbox).seq, stale |-> FALSE]
  /\ failed' = FALSE
  /\ UNCHANGED <<commands, selected>>

HandleFailure ==
  /\ Handling({"failed"})
  /\ failed' = TRUE
  /\ UNCHANGED <<commands, selected, view>>

ApplySnapshot ==
  /\ Handling({"snapshot"})
  /\ IF selected = NoBot THEN selected' \in Bots ELSE UNCHANGED selected
  /\ commands' = Append(commands, selected')
  /\ UNCHANGED <<view, failed>>

Select(b) ==
  /\ shifts < MaxShifts /\ selected # NoBot
  /\ shifts' = shifts + 1
  /\ selected' = b
  /\ commands' = Append(commands, b)
  /\ UNCHANGED <<server, cursor, reading, inbox, view, failed>>

Next ==
  \/ \E b \in Working : \/ CreateMessage(b) \/ AppendDelta(b) \/ FinishMessage(b)
                        \/ Publish(b)
  \/ \E b \in Bots : Select(b)
  \/ OtherEvent \/ ReadRows \/ ReadBoundary \/ LoadFails \/ Deliver \/ Reset
  \/ HandleServer \/ HandleOther \/ Hydrate \/ HandleFailure \/ ApplySnapshot

Spec == Init /\ [][Next]_vars

-----------------------------------------------------------------------------
Quiet ==
  /\ inbox = <<>> /\ commands = <<>> /\ reading = NotReading /\ cursor = Len(log)
  /\ \A b \in Bots : turn[b] = "ended" \/ row[b].status = "none"

(* Once a turn has settled and the app has handled everything, it shows    *)
(* the selected Bot's message as the server stores it, whatever fell       *)
(* between the rows and the boundary of an earlier read; only a load that  *)
(* failed, which nothing retries, excuses it (app.rs pump_transport).      *)
SettledViewAgrees ==
  Quiet /\ ~failed =>
     view.bot = selected /\ view.row = row[selected]

(* What keeps it.  Events in the app's hands are entries of the log, and before the  *)
(* first snapshot nothing is asked for.  As long as no event or snapshot is on its   *)
(* way that asks for the selected chat again, the last load asked for, wherever it   *)
(* has come to, is of that chat and has its settled row and all its events.          *)
EventsAreLogged ==
  /\ \A i \in DOMAIN log : log[i].seq = i /\ log[i].kind \in Kinds
  /\ \A i \in DOMAIN inbox : inbox[i].kind \in Kinds =>
        inbox[i].seq \in DOMAIN log /\ log[inbox[i].seq] = inbox[i]
  /\ \A b \in Bots : row[b].status = "none" =>
        turn[b] = "idle" /\ \A i \in DOMAIN log : log[i].bot # b

NothingBefore ==
  selected = NoBot => /\ commands = <<>> /\ reading = NotReading
                      /\ inbox # <<>> /\ inbox[1].kind = "snapshot"

Settled(b) == turn[b] = "ended" \/ row[b].status = "none"

AsksAgain(m) == m.kind = "snapshot" \/ (m.kind = "chat" /\ m.bot = selected)

Calm ==
  /\ Settled(selected)
  /\ \A i \in DOMAIN inbox : ~AsksAgain(inbox[i])
  /\ \A i \in DOMAIN log : i > cursor => ~AsksAgain(log[i])

Current(l, seq) ==
  /\ l.bot = selected
  /\ Calm => /\ l.row = row[selected]
             /\ \A i \in DOMAIN log : log[i].bot = selected => i <= seq

IsAnswer(m) == m.kind \in {"timeline", "failed"}

LastLoadCounts ==
  /\ commands # <<>> => commands[Len(commands)] = selected
  /\ commands = <<>> /\ reading # NotReading => Current(reading, Len(log))
  /\ commands = <<>> /\ reading = NotReading =>
       /\ \A i \in DOMAIN inbox :
             inbox[i].kind = "timeline" /\ (\A j \in DOMAIN inbox : j > i => ~IsAnswer(inbox[j]))
               => Current(inbox[i], inbox[i].seq)
       /\ selected # NoBot /\ ~failed /\ (\A i \in DOMAIN inbox : ~IsAnswer(inbox[i]))
            => Current(view, view.cursor)

TimelineInv == TypeOK /\ EventsAreLogged /\ NothingBefore /\ LastLoadCounts

(* The desktop "never appends the same streamed delta twice"               *)
(* (docs/chats.md:26).                                                     *)
DeltaOnce ==
  \A i, j \in DOMAIN view.row.text :
     view.row.text[i] = view.row.text[j] => i = j
=============================================================================
