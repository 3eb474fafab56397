--------------------------- MODULE DesktopGroups ---------------------------
(***************************************************************************)
(* How the desktop keeps the open group's timeline.  Handlers and turns of *)
(* a group write rows and publish them in separate transactions, the       *)
(* server reads a timeline in several statements with the boundary last,   *)
(* and the app folds responses and events into one view, asking for a      *)
(* timeline where the code does.  As in DesktopTimeline the socket hands   *)
(* over the next event of the log, or a snapshot that skips to its end.    *)
(***************************************************************************)
EXTENDS Naturals, Sequences, FiniteSets

CONSTANTS Groups, NoGroup,
          Items,      \* rows of a group beside its own: participants,
                      \* messages, handoffs
          MaxWrites,  \* bound on writes and events
          MaxShifts   \* snapshots, selections, failures and events of other kinds
                      \* that may come in between

VARIABLES row,          \* group -> part -> version, a row's absence included
          unpublished,  \* writes whose event is still to come
          log,          \* the outbox
          cursor,       \* the transport's position in the log
          commands,     \* loads the app has asked for, in order
          reading,      \* the load that is being answered
          inbox,        \* desktop events the app has not handled
          selected,     \* selected_group
          view,         \* GroupTimelineModel
          failed,       \* the last load answered with an error
          shifts

vars == <<row, unpublished, log, cursor, commands, reading, inbox, selected, view,
          failed, shifts>>
server == <<row, unpublished, log>>
app == <<selected, view, failed>>

Parts == Items \cup {"group"}
Rows == [Parts -> Nat]
Unwritten == [p \in Parts |-> 0]
NotReading == [group |-> NoGroup, rows |-> Unwritten, at |-> "idle"]
EmptyView == [group |-> NoGroup, rows |-> Unwritten, cursor |-> 0, stale |-> FALSE,
              torn |-> FALSE]

Writes == [group : Groups, part : Parts, version : Nat]
Events == [kind : {"event"}, group : Groups, part : Parts, version : Nat, seq : Nat]
Others == [kind : {"other"}, group : {NoGroup}, part : {"group"}, version : {0}, seq : Nat]
Logged == Events \cup Others
Timelines == [kind : {"timeline"}, group : Groups, rows : Rows, seq : Nat, torn : BOOLEAN]
Messages == Logged \cup Timelines \cup [kind : {"failed", "snapshot"}]

TypeOK ==
  /\ row \in [Groups -> Rows]
  /\ unpublished \subseteq Writes /\ IsFiniteSet(unpublished)
  /\ log \in Seq(Logged) /\ inbox \in Seq(Messages) /\ cursor \in 0..Len(log)
  /\ commands \in Seq(Groups)
  /\ reading \in [group : Groups, rows : Rows, at : {"rows", "boundary"}] \cup {NotReading}
  /\ selected \in Groups \cup {NoGroup}
  /\ view \in [group : Groups \cup {NoGroup}, rows : Rows, cursor : Nat,
               stale : BOOLEAN, torn : BOOLEAN]
  /\ failed \in BOOLEAN /\ shifts \in Nat

Init ==
  /\ row = [g \in Groups |-> Unwritten] /\ unpublished = {} /\ log = <<>>
  /\ cursor = 0 /\ commands = <<>> /\ reading = NotReading /\ inbox = <<>>
  /\ selected = NoGroup /\ view = EmptyView /\ failed = FALSE /\ shifts = 0

-----------------------------------------------------------------------------
(* The server.  The writes of one row are published in their order.        *)

WritesSoFar == Len(log) + Cardinality(unpublished)

Write(g, p) ==
  LET version == WritesSoFar + 1
  IN  /\ version <= MaxWrites
      /\ \A w \in unpublished : w.group # g \/ w.part # p
      /\ row' = [row EXCEPT ![g][p] = version]
      /\ unpublished' = unpublished \cup {[group |-> g, part |-> p, version |-> version]}
      /\ UNCHANGED <<log, cursor, commands, reading, inbox, app, shifts>>

Publish ==
  /\ \E w \in unpublished :
        /\ log' = Append(log, [kind |-> "event", group |-> w.group, part |-> w.part,
                               version |-> w.version, seq |-> Len(log) + 1])
        /\ unpublished' = unpublished \ {w}
  /\ UNCHANGED <<row, cursor, commands, reading, inbox, app, shifts>>

\* A capability rule or a browser session changes: an event of no group.
OtherEvent ==
  /\ shifts < MaxShifts /\ shifts' = shifts + 1
  /\ log' = Append(log, [kind |-> "other", group |-> NoGroup, part |-> "group",
                         version |-> 0, seq |-> Len(log) + 1])
  /\ UNCHANGED <<row, unpublished, cursor, commands, reading, inbox, app>>

\* The group's own row first, then the others.
ReadGroup ==
  /\ reading = NotReading /\ commands # <<>>
  /\ reading' = [group |-> Head(commands), at |-> "rows",
                 rows |-> [Unwritten EXCEPT !["group"] = row[Head(commands)]["group"]]]
  /\ commands' = Tail(commands)
  /\ UNCHANGED <<server, cursor, inbox, app, shifts>>

ReadRows ==
  /\ reading.at = "rows"
  /\ reading' = [reading EXCEPT !.at = "boundary",
                   !.rows = [row[reading.group] EXCEPT !["group"] = reading.rows["group"]]]
  /\ UNCHANGED <<server, cursor, commands, inbox, app, shifts>>

\* An event up to the boundary that the rows were read too early for.
Overtaken ==
  \E i \in DOMAIN log :
     log[i].group = reading.group /\ log[i].version > reading.rows[log[i].part]

ReadBoundary ==
  /\ reading.at = "boundary"
  /\ inbox' = Append(inbox, [kind |-> "timeline", group |-> reading.group,
                             rows |-> reading.rows, seq |-> Len(log), torn |-> Overtaken])
  /\ reading' = NotReading
  /\ UNCHANGED <<server, cursor, commands, app, shifts>>

-----------------------------------------------------------------------------
(* The transport.  A command runs to its end before the socket is read.    *)

LoadFails ==
  /\ reading # NotReading /\ shifts < MaxShifts /\ shifts' = shifts + 1
  /\ inbox' = Append(inbox, [kind |-> "failed"])
  /\ reading' = NotReading
  /\ UNCHANGED <<server, cursor, commands, app>>

Deliver ==
  /\ reading = NotReading /\ cursor < Len(log)
  /\ cursor' = cursor + 1
  /\ inbox' = Append(inbox, log[cursor + 1])
  /\ UNCHANGED <<server, commands, reading, app, shifts>>

\* A stream whose cursor cannot be served starts again from a snapshot.
Reset ==
  /\ reading = NotReading /\ shifts < MaxShifts /\ shifts' = shifts + 1
  /\ cursor' = Len(log)
  /\ inbox' = Append(inbox, [kind |-> "snapshot"])
  /\ UNCHANGED <<server, commands, reading, app>>

-----------------------------------------------------------------------------
(* The app.                                                                *)

Reconcile(v, event) ==
  IF event.group = v.group THEN [v EXCEPT !.rows[event.part] = event.version] ELSE v

ApplyEvent(v, event) ==
  CASE event.seq <= v.cursor    -> v
    [] event.seq = v.cursor + 1 -> [Reconcile(v, event) EXCEPT !.cursor = event.seq]
    [] OTHER                    -> [v EXCEPT !.stale = TRUE]

Handling(kind) ==
  /\ inbox # <<>> /\ Head(inbox).kind = kind
  /\ inbox' = Tail(inbox)
  /\ UNCHANGED <<server, cursor, reading, shifts>>

\* Only a changed record of the open group asks for its timeline again; the
\* needs_snapshot of the view asks for nothing.
HandleServer ==
  LET event == Head(inbox)
  IN  /\ Handling("event")
      /\ view' = ApplyEvent(view, event)
      /\ commands' = IF event.part = "group" /\ event.group = selected
                     THEN Append(commands, selected) ELSE commands
      /\ UNCHANGED <<selected, failed>>

\* Rules and browser sessions are taken out before the views see the event, so the
\* cursor of the view stays and its next event is past a gap.
HandleOther ==
  /\ Handling("other")
  /\ UNCHANGED <<commands, app>>

Hydrate ==
  /\ Handling("timeline")
  /\ view' = [group |-> Head(inbox).group, rows |-> Head(inbox).rows,
              cursor |-> Head(inbox).seq, stale |-> FALSE, torn |-> Head(inbox).torn]
  /\ failed' = FALSE
  /\ UNCHANGED <<commands, selected>>

HandleFailure ==
  /\ Handling("failed")
  /\ failed' = TRUE
  /\ UNCHANGED <<commands, selected, view>>

\* The list of groups is replaced and a Bot's timeline is loaded, the group's is not.
ApplySnapshot ==
  /\ Handling("snapshot")
  /\ UNCHANGED <<commands, app>>

OpenGroup(g) ==
  /\ shifts < MaxShifts /\ shifts' = shifts + 1
  /\ selected' = g
  /\ commands' = Append(commands, g)
  /\ UNCHANGED <<server, cursor, reading, inbox, view, failed>>

\* A Bot is picked; the group's model goes on folding events.
SelectBot ==
  /\ selected # NoGroup /\ selected' = NoGroup
  /\ UNCHANGED <<server, cursor, commands, reading, inbox, view, failed, shifts>>

Next ==
  \/ \E g \in Groups : OpenGroup(g) \/ \E p \in Parts : Write(g, p)
  \/ Publish \/ OtherEvent \/ ReadGroup \/ ReadRows \/ ReadBoundary \/ LoadFails \/ Deliver \/ Reset
  \/ HandleServer \/ HandleOther \/ Hydrate \/ HandleFailure \/ ApplySnapshot \/ SelectBot

Spec == Init /\ [][Next]_vars

-----------------------------------------------------------------------------
Quiet ==
  /\ unpublished = {} /\ cursor = Len(log) /\ inbox = <<>> /\ commands = <<>>
  /\ reading = NotReading

(* A view that has followed the log past every event of the open group     *)
(* shows it as the server stores it, whatever was written while a timeline *)
(* was read; a failed load and a read overtaken by its own boundary excuse *)
(* it (group_timeline.rs hydrate, apply_event; groups.rs timeline).        *)
SettledGroupAgrees ==
  /\ Quiet /\ selected # NoGroup /\ ~failed /\ ~view.torn
  /\ \A i \in DOMAIN log : log[i].group = selected => i <= view.cursor
  => view.group = selected /\ view.rows = row[selected]

(* What keeps it.  The writes of one row reach the log in their order, and the row   *)
(* has the last of them; the last load asked for is of the open group; a view that   *)
(* no boundary overtook has no event up to its cursor yet to learn of, and nothing   *)
(* that was never written.                                                           *)
WritesInOrder ==
  /\ \A i \in DOMAIN log : /\ log[i].seq = i
                           /\ log[i].group # NoGroup =>
                                log[i].version <= row[log[i].group][log[i].part]
                           /\ log[i].version <= WritesSoFar
  /\ \A i, j \in DOMAIN log :
        i <= j /\ log[i].group = log[j].group /\ log[i].part = log[j].part =>
          log[i].version <= log[j].version
  /\ \A w \in unpublished : /\ w.version = row[w.group][w.part]
                            /\ w.version <= WritesSoFar
  /\ \A g \in Groups, p \in Parts :
        \/ row[g][p] = 0
        \/ \E w \in unpublished : w.group = g /\ w.part = p
        \/ \E i \in DOMAIN log : log[i].group = g /\ log[i].part = p
                                 /\ log[i].version = row[g][p]

EventsAreLogged ==
  \A i \in DOMAIN inbox : inbox[i].kind \in {"event", "other"} =>
     inbox[i].seq \in DOMAIN log /\ log[inbox[i].seq] = inbox[i]

IsAnswer(m) == m.kind \in {"timeline", "failed"}

LastLoadCounts ==
  selected # NoGroup =>
    /\ commands # <<>> => commands[Len(commands)] = selected
    /\ commands = <<>> /\ reading # NotReading => reading.group = selected
    /\ commands = <<>> /\ reading = NotReading =>
         /\ \A i \in DOMAIN inbox :
               inbox[i].kind = "timeline" /\ (\A j \in DOMAIN inbox : j > i => ~IsAnswer(inbox[j]))
                 => inbox[i].group = selected
         /\ ~failed /\ (\A i \in DOMAIN inbox : ~IsAnswer(inbox[i])) => view.group = selected

Written(g, rows) == g \in Groups => \A p \in Parts : rows[p] <= row[g][p]

Learnt(g, rows, seq) ==
  /\ seq <= Len(log)
  /\ \A i \in DOMAIN log : i <= seq /\ log[i].group = g => log[i].version <= rows[log[i].part]

ViewsInStep ==
  /\ Written(reading.group, reading.rows) /\ Written(view.group, view.rows)
  /\ view.cursor <= Len(log)
  /\ ~view.torn => Learnt(view.group, view.rows, view.cursor)
  /\ \A i \in DOMAIN inbox : inbox[i].kind = "timeline" =>
        /\ Written(inbox[i].group, inbox[i].rows) /\ inbox[i].seq <= Len(log)
        /\ ~inbox[i].torn => Learnt(inbox[i].group, inbox[i].rows, inbox[i].seq)

GroupViewInv == TypeOK /\ WritesInOrder /\ EventsAreLogged /\ LastLoadCounts /\ ViewsInStep

(* "Clients ignore a repeated event ID, reject an unexplained gap, and     *)
(* request a fresh snapshot" (docs/protocol.md:23): the open group's view  *)
(* does not stay behind a gap.                                             *)
GapHealed == Quiet /\ selected # NoGroup /\ ~failed => ~view.stale
=============================================================================
