--------------------------- MODULE AndroidClient ---------------------------
(***************************************************************************)
(* The connection of the Android app (HomeBotClient.kt): the reconnecting  *)
(* loop, the sockets it opens, and the event processor of each socket.     *)
(* The application scope runs coroutines on several threads, so that a     *)
(* processor that nobody waits for works on the shared projection and      *)
(* cursor while the next one does; its reads and writes are separate       *)
(* steps.  The server is EventStream's, seen from here as a log and one    *)
(* position in it per socket; a session is stored or not, the endpoints    *)
(* all lead to the one server.                                             *)
(***************************************************************************)
EXTENDS Naturals, Sequences

CONSTANTS Sockets,     \* connections a behaviour opens
          NoSocket,
          NoCursor,
          Buffer,      \* EVENT_BUFFER_CAPACITY
          MaxEvents,
          MaxOrders    \* prunings, revocations, network and endpoint changes

VARIABLES latest,      \* the server's last event
          floor,       \* events up to it cannot be replayed any more
          revoked,     \* the server has revoked the device session
          paired,      \* SessionStore holds credentials
          clearing,    \* a launched sessions.clear() that has not run
          runner,      \* reconnectingLoop
          awaited,     \* the socket whose end the loop awaits
          unwinding,   \* a cancelled loop that has not run its finally
          nudged,      \* nudgeReconnect waits for the loop it cancelled
          socket,      \* the field the loop, stop and nudge share
          conn,        \* each socket
          processor,   \* what its event processor holds
          cursor, projection,
          state,       \* ConnectionState
          abandoned,   \* history: a processor was left running
          orders

server == <<latest, floor>>
credentials == <<revoked, paired, clearing>>
loop == <<runner, awaited, unwinding, nudged, socket>>
shown == <<cursor, projection, state>>
vars == <<server, credentials, loop, conn, processor, shown, abandoned, orders>>

Unused == [phase |-> "unused", sent |-> 0, events |-> <<>>, open |-> TRUE,
           ended |-> "no"]
Idle == [at |-> "idle", seq |-> 0, next |-> {}]
Stopped == [at |-> "done", seq |-> 0, next |-> {}]

HelloFrame == [kind |-> "hello", seq |-> 0]
SnapshotFrame(b) == [kind |-> "snapshot", seq |-> b]
EventFrame(e) == [kind |-> "event", seq |-> e]

Phases == {"unused", "opening", "open", "closing", "cancelled", "closed", "down"}
Frame == [kind : {"hello", "snapshot", "event"}, seq : Nat]
Connection == [phase : Phases, sent : Nat, events : Seq(Frame), open : BOOLEAN,
               ended : {"no", "retry", "revoked"}]
Processor == [at : {"idle", "read", "written", "done"}, seq : Nat, next : SUBSET Nat]

TypeOK ==
  /\ latest \in 0..MaxEvents /\ floor \in 0..latest
  /\ {revoked, paired, clearing, unwinding, nudged, abandoned} \subseteq BOOLEAN
  /\ runner \in {"off", "loading", "negotiating", "awaiting", "backoff"}
  /\ {awaited, socket} \subseteq Sockets \cup {NoSocket}
  /\ conn \in [Sockets -> Connection] /\ processor \in [Sockets -> Processor]
  /\ \A s \in Sockets :
        /\ conn[s].sent <= latest /\ Len(conn[s].events) <= Buffer
        /\ \A i \in DOMAIN conn[s].events : conn[s].events[i].seq <= latest
        /\ processor[s].seq <= latest /\ processor[s].next \subseteq 1..latest
  /\ cursor \in 0..latest \cup {NoCursor}
  /\ projection \subseteq 1..latest
  /\ state \in {"unpaired", "pairing", "connecting", "hydrating", "live",
                "reconnecting", "offline", "incompatible", "revoked"}
  /\ orders \in 0..MaxOrders

Init ==
  /\ latest = 0 /\ floor = 0
  /\ revoked = FALSE /\ paired \in BOOLEAN /\ clearing = FALSE
  /\ runner = "loading" /\ awaited = NoSocket /\ unwinding = FALSE
  /\ nudged = FALSE /\ socket = NoSocket
  /\ conn = [s \in Sockets |-> Unused]
  /\ processor = [s \in Sockets |-> Idle]
  /\ cursor = NoCursor /\ projection = {}
  /\ state = "unpaired"
  /\ abandoned = FALSE /\ orders = 0

Working(s) == processor[s].at \in {"read", "written"}
Alive(s) == conn[s].phase \in {"opening", "open", "closing"}
Left(s) == Working(s) \/ (conn[s].events # <<>> /\ processor[s].at # "done")

-----------------------------------------------------------------------------
(* The server *)

Publish ==
  /\ latest < MaxEvents
  /\ latest' = latest + 1
  /\ UNCHANGED <<floor, credentials, loop, conn, processor, shown, abandoned, orders>>

Prune ==
  /\ floor < latest /\ orders < MaxOrders
  /\ floor' = latest /\ orders' = orders + 1
  /\ UNCHANGED <<latest, credentials, loop, conn, processor, shown, abandoned>>

RevokeDevice ==
  /\ paired /\ ~revoked /\ orders < MaxOrders
  /\ revoked' = TRUE /\ orders' = orders + 1
  /\ UNCHANGED <<server, paired, clearing, loop, conn, processor, shown, abandoned>>

-----------------------------------------------------------------------------
(* reconnectingLoop and connectOnce *)

LoadSession ==
  /\ runner = "loading"
  /\ \/ /\ paired
        /\ runner' = "negotiating" /\ state' = "connecting"
     \/ /\ ~paired
        /\ runner' = "off" /\ state' = "unpaired"
  /\ UNCHANGED <<server, credentials, awaited, unwinding, nudged, socket, conn,
                 processor, cursor, projection, abandoned, orders>>

(* negotiate that does not end in a socket. *)
NegotiationFails ==
  /\ runner = "negotiating"
  /\ \/ /\ revoked
        /\ paired' = FALSE /\ runner' = "off" /\ state' = "revoked"
     \/ /\ ~revoked
        /\ runner' = "off" /\ state' = "incompatible"
        /\ UNCHANGED paired
     \/ /\ runner' = "backoff" /\ state' = "reconnecting"
        /\ UNCHANGED paired
  /\ UNCHANGED <<server, revoked, clearing, awaited, unwinding, nudged, socket, conn,
                 processor, cursor, projection, abandoned, orders>>

NegotiationSupports(s) ==
  /\ runner = "negotiating" /\ ~revoked
  /\ conn[s].phase = "unused"
  /\ runner' = "awaiting" /\ awaited' = s /\ socket' = s
  /\ conn' = [conn EXCEPT ![s].phase = "opening"]
  /\ state' = "hydrating"
  /\ UNCHANGED <<server, credentials, unwinding, nudged, processor, cursor, projection,
                 abandoned, orders>>

(* disconnected.await() returns; its finally drops the socket. *)
Disconnected ==
  /\ runner = "awaiting" /\ conn[awaited].ended # "no"
  /\ socket' = NoSocket /\ awaited' = NoSocket
  /\ \/ /\ conn[awaited].ended = "retry" /\ paired
        /\ runner' = "backoff" /\ state' = "reconnecting"
     \/ /\ conn[awaited].ended = "revoked" \/ ~paired
        /\ runner' = "off"
        /\ UNCHANGED state
  /\ abandoned' = (abandoned \/ Working(awaited))
  /\ UNCHANGED <<server, credentials, unwinding, nudged, conn, processor, cursor,
                 projection, orders>>

Retry ==
  /\ runner = "backoff"
  /\ runner' = "loading"
  /\ UNCHANGED <<server, credentials, awaited, unwinding, nudged, socket, conn,
                 processor, shown, abandoned, orders>>

(* The finally of a cancelled loop: it drops whatever socket is there, that of *)
(* the loop after it included, which then nobody can tell to go.               *)
Unwind ==
  /\ unwinding
  /\ unwinding' = FALSE /\ socket' = NoSocket
  /\ UNCHANGED <<server, credentials, runner, awaited, nudged, conn, processor, shown,
                 abandoned, orders>>

-----------------------------------------------------------------------------
(* stop, nudgeReconnect, updateEndpoint, pair *)

LiveSocket == socket # NoSocket /\ Alive(socket)

(* The loop is cancelled and the socket, if it is still known, told to go; nobody *)
(* joins its processor.                                                           *)
CancelLoop(told) ==
  /\ conn' = IF LiveSocket THEN [conn EXCEPT ![socket].phase = told] ELSE conn
  /\ unwinding' = (unwinding \/ runner = "awaiting")
  /\ abandoned' = (abandoned \/ \E s \in Sockets : Alive(s) \/ Left(s))
  /\ socket' = NoSocket /\ awaited' = NoSocket

NudgeReconnect ==
  /\ orders < MaxOrders /\ ~nudged
  /\ CancelLoop("cancelled")
  /\ runner' = "off" /\ nudged' = TRUE
  /\ orders' = orders + 1
  /\ UNCHANGED <<server, credentials, processor, shown>>

(* previous?.join(); start(), which leaves a loop that is active alone. *)
NudgedStart ==
  /\ nudged /\ ~unwinding
  /\ nudged' = FALSE
  /\ runner' = IF runner = "off" THEN "loading" ELSE runner
  /\ UNCHANGED <<server, credentials, awaited, unwinding, socket, conn, processor, shown,
                 abandoned, orders>>

UpdateEndpoint ==
  /\ paired /\ orders < MaxOrders
  /\ state \notin {"unpaired", "pairing"}
  /\ CancelLoop("closing")
  /\ runner' = "loading"
  /\ orders' = orders + 1
  /\ UNCHANGED <<server, credentials, nudged, processor, shown>>

(* The pairing form is there while no session is. *)
Pair ==
  /\ state = "unpaired" /\ runner = "off"
  /\ state' = "pairing"
  /\ UNCHANGED <<server, credentials, loop, conn, processor, cursor, projection,
                 abandoned, orders>>

PairAnswered ==
  /\ state = "pairing"
  /\ \/ /\ paired' = TRUE /\ revoked' = FALSE
        /\ cursor' = NoCursor /\ projection' = {}
        /\ runner' = IF runner = "off" THEN "loading" ELSE runner
        /\ abandoned' = (abandoned \/ \E s \in Sockets : Left(s))
        /\ UNCHANGED state
     \/ /\ state' = "offline"
        /\ UNCHANGED <<paired, revoked, cursor, projection, runner, abandoned>>
  /\ UNCHANGED <<server, clearing, awaited, unwinding, nudged, socket, conn, processor,
                 orders>>

(* revokeCurrentDevice: the loop and its socket go on until the server ends them. *)
RevokeCurrentDevice ==
  /\ paired /\ ~revoked /\ orders < MaxOrders
  /\ revoked' = TRUE /\ paired' = FALSE /\ state' = "revoked"
  /\ orders' = orders + 1
  /\ UNCHANGED <<server, clearing, loop, conn, processor, cursor, projection, abandoned>>

(* An authenticated call, or a launched clear, finds the session revoked. *)
ClearSession ==
  /\ \/ clearing /\ clearing' = FALSE /\ UNCHANGED state
     \/ paired /\ revoked /\ state' = "revoked" /\ UNCHANGED clearing
  /\ paired' = FALSE
  /\ UNCHANGED <<server, revoked, loop, conn, processor, cursor, projection, abandoned,
                 orders>>

-----------------------------------------------------------------------------
(* EventListener: the callbacks of a socket, on its own thread *)

Cancelled(c) == [c EXCEPT !.events = <<>>, !.open = FALSE]
Rejected(c) == [Cancelled(c) EXCEPT !.phase = IF @ = "open" THEN "closing" ELSE @]
(* A processor that waits finds its channel gone; one at work finishes its event. *)
Ends(s) == IF processor[s].at = "idle" THEN Stopped ELSE processor[s]

(* onOpen sends the cursor; the server replays after it or takes a snapshot. *)
OnOpen(s) ==
  /\ conn[s].phase = "opening" /\ ~revoked
  /\ LET first == IF cursor # NoCursor /\ cursor >= floor
                    THEN [frame |-> HelloFrame, at |-> cursor]
                    ELSE [frame |-> SnapshotFrame(latest), at |-> latest]
     IN conn' = [conn EXCEPT ![s].phase = "open", ![s].sent = first.at,
                             ![s].events = <<first.frame>>]
  /\ UNCHANGED <<server, credentials, loop, processor, shown, abandoned, orders>>

OnMessage(s) ==
  /\ conn[s].phase \in {"open", "closing"} /\ conn[s].sent < latest
  /\ \/ /\ conn[s].open /\ Len(conn[s].events) < Buffer
        /\ conn' = [conn EXCEPT ![s].sent = @ + 1,
                                ![s].events = Append(@, EventFrame(conn[s].sent + 1))]
        /\ UNCHANGED processor
     \/ /\ conn[s].open /\ Len(conn[s].events) = Buffer
        /\ conn' = [conn EXCEPT ![s] = Rejected([@ EXCEPT !.sent = conn[s].sent + 1])]
        /\ processor' = [processor EXCEPT ![s] = Ends(s)]
  /\ UNCHANGED <<server, credentials, loop, shown, abandoned, orders>>

OnClosed(s) ==
  /\ conn[s].phase \in {"open", "closing"}
  /\ conn' = [conn EXCEPT ![s].phase = "closed", ![s].open = FALSE]
  /\ UNCHANGED <<server, credentials, loop, processor, shown, abandoned, orders>>

(* faulty: the loop goes on before the processor has drained its channel. *)
CompleteUnjoined(s) ==
  /\ conn[s].phase = "closed" /\ conn[s].ended = "no"
  /\ conn' = [conn EXCEPT ![s].ended = "retry"]
  /\ UNCHANGED <<server, credentials, loop, processor, shown, abandoned, orders>>

(* processor.join(), then disconnected.complete. *)
JoinProcessor(s) ==
  /\ conn[s].phase = "closed" /\ conn[s].ended = "no"
  /\ processor[s].at \in {"idle", "done"} /\ conn[s].events = <<>>
  /\ conn' = [conn EXCEPT ![s].ended = "retry"]
  /\ processor' = [processor EXCEPT ![s] = Stopped]
  /\ UNCHANGED <<server, credentials, loop, shown, abandoned, orders>>

(* onFailure: the channel is cancelled and the loop told without waiting. *)
OnFailure(s) ==
  /\ conn[s].phase \in {"opening", "open", "closing", "cancelled"}
  /\ LET refused == conn[s].phase = "opening" /\ revoked IN
       /\ conn' = [conn EXCEPT ![s] =
                     [Cancelled(@) EXCEPT !.phase = "down",
                                          !.ended = IF refused THEN "revoked" ELSE "retry"]]
       /\ clearing' = (clearing \/ refused)
       /\ state' = IF refused THEN "revoked" ELSE state
  /\ processor' = [processor EXCEPT ![s] = Ends(s)]
  /\ UNCHANGED <<server, revoked, paired, loop, cursor, projection, abandoned, orders>>

-----------------------------------------------------------------------------
(* handleEvent *)

Applicable(seq) == cursor # NoCursor /\ seq = cursor + 1
Old(seq) == cursor # NoCursor /\ seq <= cursor

(* The processor takes a frame and reads the cursor and the projection. *)
Take(s) ==
  /\ processor[s].at = "idle" /\ conn[s].events # <<>>
  /\ LET f == Head(conn[s].events)
         rest == [conn EXCEPT ![s].events = Tail(@)]
     IN \/ /\ f.kind = "hello"
           /\ conn' = rest /\ UNCHANGED processor
           /\ state' = IF cursor # NoCursor THEN "live" ELSE state
        \/ /\ f.kind = "snapshot"
           /\ conn' = rest
           /\ processor' = [processor EXCEPT ![s] =
                              [at |-> "read", seq |-> f.seq, next |-> 1..f.seq]]
           /\ UNCHANGED state
        \/ /\ f.kind = "event" /\ Old(f.seq)
           /\ conn' = rest /\ UNCHANGED <<processor, state>>
        \/ /\ f.kind = "event" /\ Applicable(f.seq)
           /\ conn' = rest
           /\ processor' = [processor EXCEPT ![s] =
                              [at |-> "read", seq |-> f.seq, next |-> projection \cup {f.seq}]]
           /\ UNCHANGED state
        \/ /\ f.kind = "event" /\ ~Old(f.seq) /\ ~Applicable(f.seq)
           /\ conn' = [conn EXCEPT ![s] = Rejected(@)]
           /\ processor' = [processor EXCEPT ![s] = Stopped]
           /\ UNCHANGED state
  /\ UNCHANGED <<server, credentials, loop, cursor, projection, abandoned, orders>>

WriteProjection(s) ==
  /\ processor[s].at = "read"
  /\ projection' = processor[s].next
  /\ processor' = [processor EXCEPT ![s].at = "written"]
  /\ UNCHANGED <<server, credentials, loop, conn, cursor, state, abandoned, orders>>

WriteCursor(s) ==
  /\ processor[s].at = "written"
  /\ cursor' = processor[s].seq /\ state' = "live"
  /\ processor' = [processor EXCEPT ![s] =
                     IF conn[s].phase = "down" \/ (~conn[s].open /\ conn[s].phase = "closing")
                       THEN Stopped ELSE Idle]
  /\ UNCHANGED <<server, credentials, loop, conn, projection, abandoned, orders>>

Next ==
  \/ Publish \/ Prune \/ RevokeDevice
  \/ LoadSession \/ NegotiationFails \/ Disconnected \/ Retry \/ Unwind
  \/ NudgeReconnect \/ NudgedStart \/ UpdateEndpoint
  \/ Pair \/ PairAnswered \/ RevokeCurrentDevice \/ ClearSession
  \/ \E s \in Sockets :
       \/ NegotiationSupports(s) \/ OnOpen(s) \/ OnMessage(s) \/ OnClosed(s)
       \/ JoinProcessor(s) \/ OnFailure(s)
       \/ Take(s) \/ WriteProjection(s) \/ WriteCursor(s)

Spec == Init /\ [][Next]_vars

-----------------------------------------------------------------------------
(* As long as no processor was left behind by a lost socket, a network     *)
(* change, a new endpoint or a pairing, the projection that the cursor     *)
(* stands for holds every event up to the cursor and no other: a closed    *)
(* socket's events are all applied before the next hello names the cursor. *)
ProjectionAtCursor ==
  (~abandoned /\ \A s \in Sockets : ~Working(s)) =>
    projection = IF cursor = NoCursor THEN {} ELSE 1..cursor

(* What keeps the projection.  As long as nothing was left behind, only the *)
(* socket that the loop awaits is alive or has frames to apply, and a        *)
(* processor at work has computed what its event's number stands for.        *)
Upto(c) == IF c = NoCursor THEN {} ELSE 1..c

AwaitedAlone ==
  ~abandoned => \A s \in Sockets : Alive(s) \/ Left(s) => s = awaited

Synced ==
  ~abandoned =>
    /\ (\A s \in Sockets : processor[s].at # "written") => projection = Upto(cursor)
    /\ \A s \in Sockets :
         /\ processor[s].at = "read" => processor[s].next = 1..processor[s].seq
         /\ processor[s].at = "written" => projection = 1..processor[s].seq

LoopKnows ==
  /\ runner = "awaiting" <=> awaited # NoSocket
  /\ state = "pairing" => runner \in {"off", "loading"}
  /\ \A s \in Sockets : conn[s].ended # "no" =>
        /\ conn[s].phase \in {"closed", "down"} /\ conn[s].events = <<>>
        /\ processor[s].at # "idle"
        /\ conn[s].phase = "closed" => processor[s].at = "done"

AndroidInv == TypeOK /\ LoopKnows /\ AwaitedAlone /\ Synced

(* docs/android.md: a single event processor applies the stream's messages *)
(* in arrival order.  A processor whose socket failed, or was cancelled by *)
(* a network change, is not waited for (HomeBotClient.kt, onFailure and    *)
(* nudgeReconnect).                                                        *)
OneProcessor ==
  \A s, t \in Sockets : Working(s) /\ Working(t) => s = t
=============================================================================
