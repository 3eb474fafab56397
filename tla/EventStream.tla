---------------------------- MODULE EventStream ----------------------------
(***************************************************************************)
(* The durable event outbox and one client that follows it over a          *)
(* WebSocket: append_event and replay_after (crates/homebot-storage),      *)
(* persist_event, serve_events, initial_sync and the writer task           *)
(* (crates/homebot-server/src/lib.rs), and the cursor of the desktop       *)
(* transport (crates/homebot-desktop/src/transport.rs).                    *)
(*                                                                         *)
(* An event is its sequence number.  A row is changed before its event is  *)
(* appended, by the same transaction or by an earlier one, so the rows     *)
(* that a query reads reflect at least the events committed before it.     *)
(* What a client shows is therefore, for each part of its picture, the set *)
(* of events known to be reflected there, were they about that part.       *)
(***************************************************************************)
EXTENDS Integers, Sequences, SequencesExt

CONSTANTS OutboundCapacity,  (* OUTBOUND_CAPACITY                          *)
          LiveCapacity,      (* LIVE_EVENT_CAPACITY                        *)
          Batch,             (* events per replay_after                    *)
          Parts,             (* queries of current_snapshot, one part each *)
          MaxEvents, MaxPings, MaxFaults, (* bounds on what a behaviour may do *)
          NoCursor, Unread

ASSUME StreamAssumption ==
  /\ {OutboundCapacity, LiveCapacity, Batch, Parts} \subseteq Nat \ {0}
  /\ {MaxEvents, MaxPings, MaxFaults} \subseteq Nat
  /\ NoCursor \notin Nat
  /\ Unread \notin Nat

VARIABLES
  (* durable: event_outbox and event_retention_cursors *)
  latest,       (* last sequence given out                                *)
  floor,        (* minimum_resume_sequence: rows up to it are deleted      *)
  (* the server process *)
  publishing,   (* committed events not yet handed to live_events         *)
  untold,       (* committed events that no broadcast or replay tells of   *)
  (* one connection *)
  conn,
  resume,       (* resume_after of the hello                              *)
  boundary, rows, (* what the snapshot has read so far; a query that      *)
                (* failed has left its part unread                       *)
  feed,         (* the connection's receiver of live_events               *)
  lagged,       (* the receiver has lost its oldest event                 *)
  last_queued,
  outbound,     (* the channel to the writer task                         *)
  last_sent,
  wire,         (* frames on their way to the client                      *)
  (* the client *)
  cursor,
  shown,
  (* history *)
  blank,        (* the parts that the client's last snapshot left unread  *)
  (* how much has happened, for the bounds *)
  pings, faults

server_vars == <<latest, floor, publishing, untold>>
sync_vars == <<resume, boundary, rows, last_queued>>
queue_vars == <<feed, lagged, outbound>>
client_vars == <<cursor, shown, blank>>
bound_vars == <<pings, faults>>
vars == <<server_vars, conn, sync_vars, queue_vars, last_sent, wire, client_vars,
          bound_vars>>

-----------------------------------------------------------------------------
Event(e) == [kind |-> "event", sequence |-> e]
Ping(e) == [kind |-> "ping", sequence |-> e]
CloseFrame(e) == [kind |-> "close", sequence |-> e]
SnapshotOf(b, r) == [kind |-> "snapshot", sequence |-> b, rows |-> r]

Frame == [kind : {"event", "ping", "close"}, sequence : Nat]
           \cup [kind : {"snapshot"}, sequence : Nat, rows : Seq(Nat \cup {Unread})]

Phases == {"none", "hello", "replay", "batch", "snapshot", "live", "closing", "closed"}

TypeOK ==
  /\ latest \in Nat
  /\ floor \in 0 .. latest
  /\ publishing \subseteq 1 .. latest
  /\ untold \subseteq 1 .. latest
  /\ conn \in Phases
  /\ resume \in Nat \cup {NoCursor}
  /\ boundary \in Nat \cup {Unread}
  /\ rows \in Seq(Nat \cup {Unread}) /\ Len(rows) <= Parts
  /\ feed \in Seq(Nat) /\ Len(feed) <= LiveCapacity
  /\ lagged \in BOOLEAN
  /\ last_queued \in Nat
  /\ outbound \in Seq(Frame) /\ Len(outbound) <= OutboundCapacity
  /\ last_sent \in Nat
  /\ wire \in Seq(Frame)
  /\ cursor \in Nat \cup {NoCursor}
  /\ shown \in [1 .. Parts -> SUBSET (1 .. latest)]
  /\ blank \subseteq 1 .. Parts
  /\ pings \in Nat
  /\ faults \in Nat

Init ==
  /\ latest = 0 /\ floor = 0
  /\ publishing = {} /\ untold = {}
  /\ conn = "none" /\ resume = NoCursor
  /\ boundary = Unread /\ rows = <<>>
  /\ feed = <<>> /\ lagged = FALSE
  /\ last_queued = 0 /\ outbound = <<>> /\ last_sent = 0
  /\ wire = <<>>
  /\ cursor = NoCursor /\ shown = [p \in 1 .. Parts |-> {}] /\ blank = {}
  /\ pings = 0 /\ faults = 0

(* latest_sequence: the greatest sequence among the rows that are left. *)
LatestSequence == IF floor < latest THEN latest ELSE 0

Subscribed == conn \in {"hello", "replay", "batch", "snapshot", "live"}

(* The socket is gone, and with it everything the connection held. *)
Hangup ==
  /\ conn' = "none"
  /\ resume' = NoCursor
  /\ boundary' = Unread
  /\ rows' = <<>>
  /\ feed' = <<>>
  /\ lagged' = FALSE
  /\ last_queued' = 0
  /\ outbound' = <<>>
  /\ last_sent' = 0
  /\ wire' = <<>>

-----------------------------------------------------------------------------
(* Publishing *)

(* append_event: one transaction. *)
AppendEvent ==
  /\ latest < MaxEvents
  /\ latest' = latest + 1
  /\ publishing' = publishing \cup {latest + 1}
  /\ UNCHANGED <<floor, untold, conn, sync_vars, queue_vars, last_sent, wire,
                 client_vars, bound_vars>>

(* live_events.send, by each publisher when its own task runs on: two of them *)
(* may swap.  A full receiver loses its oldest event and learns that it did.  *)
Broadcast(e) ==
  /\ e \in publishing
  /\ publishing' = publishing \ {e}
  /\ IF Subscribed
       THEN /\ feed' = Append(IF Len(feed) < LiveCapacity THEN feed ELSE Tail(feed), e)
            /\ lagged' = (lagged \/ Len(feed) = LiveCapacity)
       ELSE UNCHANGED <<feed, lagged>>
  /\ UNCHANGED <<latest, floor, untold, conn, sync_vars, outbound, last_sent, wire,
                 client_vars, bound_vars>>

(* The request that committed the event is abandoned before it broadcasts it. *)
Abandon(e) ==
  /\ e \in publishing
  /\ faults < MaxFaults
  /\ faults' = faults + 1
  /\ publishing' = publishing \ {e}
  /\ untold' = untold \cup {e}
  /\ UNCHANGED <<latest, floor, conn, sync_vars, queue_vars, last_sent, wire,
                 client_vars, pings>>

(* prune_events_through, which nothing in the server calls yet. *)
Prune(n) ==
  /\ n \in (floor + 1) .. latest
  /\ floor' = n
  /\ UNCHANGED <<latest, publishing, untold, conn, sync_vars, queue_vars, last_sent,
                 wire, client_vars, bound_vars>>

-----------------------------------------------------------------------------
(* initial_sync *)

(* The connection subscribes before it reads the client's hello. *)
Connect ==
  /\ conn = "none"
  /\ conn' = "hello"
  /\ resume' = cursor
  /\ UNCHANGED <<server_vars, boundary, rows, last_queued, queue_vars, last_sent, wire,
                 client_vars, bound_vars>>

Retained(c) == c >= floor /\ c <= latest

(* Faulty variant: only a cursor ahead of the stream is refused. *)
CheckWindowIgnoringFloor ==
  /\ conn = "hello"
  /\ IF resume # NoCursor /\ resume <= latest
       THEN conn' = "replay" /\ last_queued' = resume
       ELSE conn' = "snapshot" /\ UNCHANGED last_queued
  /\ UNCHANGED <<server_vars, resume, boundary, rows, queue_vars, last_sent, wire,
                 client_vars, bound_vars>>

(* A cursor that retention has overtaken, or one ahead of the stream, gets a snapshot. *)
CheckWindow ==
  /\ conn = "hello"
  /\ IF resume # NoCursor /\ Retained(resume)
       THEN conn' = "replay" /\ last_queued' = resume
       ELSE conn' = "snapshot" /\ UNCHANGED last_queued
  /\ UNCHANGED <<server_vars, resume, boundary, rows, queue_vars, last_sent, wire,
                 client_vars, bound_vars>>

(* events_after, sent one by one: the rows that are left are those behind the floor. *)
(* A full batch asks for another one.  What a prune between the check and the read    *)
(* has taken away is left out in silence.                                             *)
ReplayBatch ==
  /\ conn = "replay"
  /\ untold' = untold \cup
       {e \in 1 .. floor : e > last_queued /\ e \notin publishing \cup ToSet(feed)}
  /\ LET from == IF last_queued < floor THEN floor ELSE last_queued
         size == IF latest - from < Batch THEN latest - from ELSE Batch
     IN /\ wire' = wire \o [i \in 1 .. size |-> Event(from + i)]
        /\ last_queued' = IF size = 0 THEN last_queued ELSE from + size
        /\ IF size = Batch
             THEN conn' = "batch" /\ UNCHANGED last_sent
             ELSE conn' = "live" /\ last_sent' = last_queued'
  /\ UNCHANGED <<latest, floor, publishing, resume, boundary, rows, queue_vars,
                 client_vars, bound_vars>>

(* replay_after looks at the window before each further batch, and the *)
(* connection is given up when retention has overtaken it.             *)
NextBatch ==
  /\ conn = "batch"
  /\ IF Retained(last_queued)
       THEN /\ conn' = "replay"
            /\ UNCHANGED <<sync_vars, queue_vars, last_sent, wire>>
       ELSE Hangup
  /\ UNCHANGED <<server_vars, client_vars, bound_vars>>

(* replay_after fails: before the first batch a snapshot is sent instead, and *)
(* before a further one the connection is given up.                           *)
ReplayFails ==
  /\ faults < MaxFaults
  /\ faults' = faults + 1
  /\ \/ /\ conn = "hello" /\ resume # NoCursor
        /\ conn' = "snapshot"
        /\ UNCHANGED <<sync_vars, queue_vars, last_sent, wire>>
     \/ conn = "batch" /\ Hangup
  /\ UNCHANGED <<server_vars, client_vars, pings>>

(* latest_sequence; when it fails the boundary is taken to be 0. *)
ReadBoundary ==
  /\ conn = "snapshot"
  /\ boundary = Unread
  /\ \/ boundary' = LatestSequence /\ UNCHANGED faults
     \/ boundary' = 0 /\ faults < MaxFaults /\ faults' = faults + 1
  /\ UNCHANGED <<server_vars, conn, resume, rows, last_queued, queue_vars, last_sent,
                 wire, client_vars, pings>>

(* One query of current_snapshot.  A failed one gives an empty part. *)
ReadRows ==
  /\ conn = "snapshot"
  /\ boundary # Unread
  /\ Len(rows) < Parts
  /\ \/ rows' = Append(rows, latest) /\ UNCHANGED faults
     \/ rows' = Append(rows, Unread) /\ faults < MaxFaults /\ faults' = faults + 1
  /\ UNCHANGED <<server_vars, conn, resume, boundary, last_queued, queue_vars,
                 last_sent, wire, client_vars, pings>>

SendSnapshot ==
  /\ conn = "snapshot"
  /\ boundary # Unread
  /\ Len(rows) = Parts
  /\ wire' = Append(wire, SnapshotOf(boundary, rows))
  /\ last_queued' = boundary
  /\ last_sent' = boundary
  /\ conn' = "live"
  /\ boundary' = Unread
  /\ rows' = <<>>
  /\ UNCHANGED <<server_vars, resume, queue_vars, client_vars, bound_vars>>

-----------------------------------------------------------------------------
(* The loop of serve_events and the writer task *)

(* Faulty variant: the channel is not bounded. *)
QueueWithoutLimit(frame) ==
  /\ outbound' = Append(outbound, frame)
  /\ UNCHANGED conn

(* queue_outbound: a full channel disconnects the client. *)
QueueOutbound(frame) ==
  IF Len(outbound) < OutboundCapacity
    THEN outbound' = Append(outbound, frame) /\ UNCHANGED conn
    ELSE conn' = "closing" /\ UNCHANGED outbound

Forward ==
  /\ conn = "live"
  /\ ~lagged
  /\ feed # <<>>
  /\ feed' = Tail(feed)
  /\ IF Head(feed) > last_queued
       THEN QueueOutbound(Event(Head(feed))) /\ last_queued' = Head(feed)
       ELSE UNCHANGED <<outbound, conn, last_queued>>
  /\ UNCHANGED <<server_vars, resume, boundary, rows, lagged, last_sent, wire,
                 client_vars, bound_vars>>

Lagged ==
  /\ conn = "live"
  /\ lagged
  /\ conn' = "closing"
  /\ UNCHANGED <<server_vars, sync_vars, queue_vars, last_sent, wire, client_vars,
                 bound_vars>>

Heartbeat ==
  /\ conn = "live"
  /\ pings < MaxPings
  /\ pings' = pings + 1
  /\ QueueOutbound(Ping(LatestSequence))
  /\ UNCHANGED <<server_vars, sync_vars, feed, lagged, last_sent, wire, client_vars,
                 faults>>

(* The pong is late, the device session is revoked, or the server shuts down. *)
Disconnect ==
  /\ conn = "live"
  /\ faults < MaxFaults
  /\ faults' = faults + 1
  /\ conn' = "closing"
  /\ UNCHANGED <<server_vars, sync_vars, queue_vars, last_sent, wire, client_vars,
                 pings>>

(* The writer; it may also pick a waiting frame once it has been told to close. *)
Write ==
  /\ conn \in {"live", "closing"}
  /\ outbound # <<>>
  /\ outbound' = Tail(outbound)
  /\ wire' = Append(wire, Head(outbound))
  /\ last_sent' = Head(outbound).sequence
  /\ UNCHANGED <<server_vars, conn, sync_vars, feed, lagged, client_vars, bound_vars>>

(* close_with_cursor *)
Close ==
  /\ conn = "closing"
  /\ wire' = Append(wire, CloseFrame(last_sent))
  /\ conn' = "closed"
  /\ outbound' = <<>>
  /\ UNCHANGED <<server_vars, sync_vars, feed, lagged, last_sent, client_vars,
                 bound_vars>>

(* The network fails, or the process dies with what it had not broadcast; *)
(* a restarted process has no connection left.                            *)
Drop ==
  /\ conn # "none"
  /\ faults < MaxFaults
  /\ faults' = faults + 1
  /\ publishing' \in {publishing, {}}
  /\ Hangup
  /\ UNCHANGED <<latest, floor, untold, client_vars, pings>>

-----------------------------------------------------------------------------
(* handle_socket *)

Consume ==
  /\ wire' = Tail(wire)
  /\ UNCHANGED <<conn, sync_vars, queue_vars, last_sent>>

Apply(e) ==
  /\ cursor' = e
  /\ shown' = [p \in 1 .. Parts |-> shown[p] \cup {e}]
  /\ UNCHANGED blank

(* Faulty variant: any later event is taken for the next one. *)
ReceiveEventAfterGap ==
  /\ wire # <<>> /\ Head(wire).kind = "event"
  /\ LET e == Head(wire).sequence
     IN IF cursor # NoCursor /\ e <= cursor
          THEN UNCHANGED client_vars
          ELSE Apply(e)
  /\ Consume
  /\ UNCHANGED <<server_vars, bound_vars>>

(* A repeated event is ignored, the next one applied, and a gap gives the *)
(* connection up, to resume after the cursor.                             *)
ReceiveEvent ==
  /\ wire # <<>> /\ Head(wire).kind = "event"
  /\ LET e == Head(wire).sequence
     IN \/ /\ cursor # NoCursor /\ e <= cursor
           /\ Consume
           /\ UNCHANGED client_vars
        \/ /\ cursor # NoCursor => e = cursor + 1
           /\ Apply(e)
           /\ Consume
        \/ /\ cursor # NoCursor /\ e > cursor + 1
           /\ Hangup
           /\ UNCHANGED client_vars
  /\ UNCHANGED <<server_vars, bound_vars>>

ReceiveSnapshot ==
  /\ wire # <<>> /\ Head(wire).kind = "snapshot"
  /\ cursor' = Head(wire).sequence
  /\ LET read == Head(wire).rows
     IN /\ blank' = {p \in 1 .. Parts : read[p] = Unread}
        /\ shown' = [p \in 1 .. Parts |-> IF read[p] = Unread THEN {} ELSE 1 .. read[p]]
  /\ Consume
  /\ UNCHANGED <<server_vars, bound_vars>>

ReceivePing ==
  /\ wire # <<>> /\ Head(wire).kind = "ping"
  /\ Consume
  /\ UNCHANGED <<server_vars, client_vars, bound_vars>>

(* The close frame is not looked into: the client resumes after its own cursor. *)
ReceiveClose ==
  /\ wire # <<>> /\ Head(wire).kind = "close"
  /\ Hangup
  /\ UNCHANGED <<server_vars, client_vars, bound_vars>>

-----------------------------------------------------------------------------
ServerStep ==
  \/ CheckWindow \/ ReplayBatch \/ NextBatch
  \/ ReadBoundary \/ ReadRows \/ SendSnapshot
  \/ Forward \/ Lagged \/ Close

ClientStep ==
  \/ Connect \/ ReceiveEvent \/ ReceiveSnapshot \/ ReceivePing \/ ReceiveClose

Next ==
  \/ AppendEvent
  \/ \E e \in 1 .. latest : Broadcast(e) \/ Abandon(e) \/ Prune(e)
  \/ ServerStep \/ Write \/ ClientStep
  \/ ReplayFails \/ Heartbeat \/ Disconnect \/ Drop

Spec == Init /\ [][Next]_vars

(* A publisher's task, the connection's loop and its writer are polled by the  *)
(* runtime, and the desktop's transport thread reads and reconnects for ever.  *)
FairSpec ==
  /\ Spec
  /\ WF_vars(\E e \in 1 .. latest : Broadcast(e))
  /\ WF_vars(ServerStep)
  /\ WF_vars(Write)
  /\ WF_vars(ClientStep)

-----------------------------------------------------------------------------
(* Properties *)

(* Everything up to the client's cursor is in its picture, although snapshots read *)
(* their boundary and their parts one after the other, publishers broadcast out of  *)
(* order, and retention and disconnections happen in between.  Only a part whose    *)
(* query failed is left behind the cursor.                                          *)
NothingSkipped ==
  cursor # NoCursor => \A p \in (1 .. Parts) \ blank : 1 .. cursor \subseteq shown[p]

(* Within a connection the events still to be received come in the order of their *)
(* sequences, each once, and all of them lie behind the boundary of the snapshot   *)
(* or the replayed event they follow.                                              *)
InOrder ==
  LET frames == SelectSeq(wire \o outbound, LAMBDA f : f.kind \in {"event", "snapshot"})
  IN \A i, j \in DOMAIN frames : i < j => frames[i].sequence < frames[j].sequence

(* Every part of the client's picture is a prefix of the owner's events and only    *)
(* grows, except for the parts that its last snapshot could not read: the promise   *)
(* of EventFeed.                                                                    *)
FeedOf == INSTANCE EventFeed
FeedPromise == FeedOf!FeedSpec

(* Every committed event comes to be shown, through slow writers, lost broadcasts, *)
(* pruned outboxes, failed queries and reconnections.  A live client may stay      *)
(* behind, because nothing tells it, in two cases: the event and all that followed *)
(* were abandoned by their publishers or pruned while they were replayed; or its   *)
(* snapshot could not read the part.                                               *)
CatchesUp ==
  \A e \in 1 .. MaxEvents, p \in 1 .. Parts :
    (e <= latest)
      ~> (\/ e \in shown[p]
          \/ conn = "live" /\ (p \in blank \/ e .. latest \subseteq untold))

(* Why they hold: a part that was read is a prefix that reaches at least to the cursor; *)
(* the frames of events tell of committed ones; a client without a cursor first         *)
(* receives a snapshot; and while a snapshot is read, or on its way, the client learns  *)
(* of nothing else, so that its parts are never behind the picture.                     *)
ShowsPrefix(part) == \E n \in 0 .. latest : part = 1 .. n /\ (cursor # NoCursor => cursor <= n)
Picture == \A p \in (1 .. Parts) \ blank : ShowsPrefix(shown[p])
Covers(b, read) ==
  \A p \in DOMAIN read :
    read[p] # Unread =>
      read[p] \in 0 .. latest /\ b <= read[p] /\ shown[p] \subseteq 1 .. read[p]
EventsExist ==
  /\ \A i \in DOMAIN feed : feed[i] \in 1 .. latest
  /\ \A i \in DOMAIN outbound : /\ outbound[i].kind # "snapshot"
                                /\ outbound[i].kind = "event" => outbound[i].sequence \in 1 .. latest
  /\ \A i \in DOMAIN wire : wire[i].kind = "event" => wire[i].sequence \in 1 .. latest
  /\ conn \in {"replay", "batch"} => last_queued <= latest
SnapshotFirst ==
  /\ \A i \in DOMAIN wire : wire[i].kind = "snapshot"
       => i = 1 /\ Len(wire[1].rows) = Parts /\ Covers(wire[1].sequence, wire[1].rows)
  /\ conn \in {"none", "hello", "snapshot"} => wire = <<>> /\ outbound = <<>>
  /\ cursor = NoCursor
       => \/ conn \in {"none", "hello", "snapshot"} /\ resume = NoCursor
          \/ wire # <<>> /\ wire[1].kind = "snapshot"
ReadsCover ==
  /\ conn # "snapshot" => boundary = Unread
  /\ boundary = Unread => rows = <<>>
  /\ boundary # Unread => boundary <= latest /\ Covers(boundary, rows)
StreamInv == TypeOK /\ Picture /\ EventsExist /\ SnapshotFirst /\ ReadsCover
=============================================================================
