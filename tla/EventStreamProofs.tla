-------------------------- MODULE EventStreamProofs -------------------------
(***************************************************************************)
(* What one client sees of the durable event stream: the invariant of      *)
(* EventStream, and that EventStream implements EventFeed.                 *)
(***************************************************************************)
EXTENDS EventStream, TLAPS

(* The capacities are numbers above zero, and the null values are no numbers. *)
LEMMA Bounds ==
  /\ OutboundCapacity \in Nat /\ OutboundCapacity >= 1
  /\ LiveCapacity \in Nat /\ LiveCapacity >= 1
  /\ Batch \in Nat /\ Batch >= 1
  /\ Parts \in Nat /\ Parts >= 1
  /\ NoCursor \notin Nat /\ Unread \notin Nat
BY StreamAssumption

(* The frames of the protocol. *)
LEMMA FramesTyped ==
  /\ \A e \in Nat : Event(e) \in Frame /\ Ping(e) \in Frame /\ CloseFrame(e) \in Frame
  /\ \A b \in Nat, r \in Seq(Nat \cup {Unread}) : SnapshotOf(b, r) \in Frame
  /\ \A f \in Frame :
       f.sequence \in Nat /\ (f.kind = "snapshot" => f.rows \in Seq(Nat \cup {Unread}))
BY DEF Event, Ping, CloseFrame, SnapshotOf, Frame

(* The kinds of the frames. *)
LEMMA FrameKinds ==
  /\ \A e : Event(e).kind = "event" /\ Event(e).sequence = e
  /\ \A e : Ping(e).kind = "ping" /\ CloseFrame(e).kind = "close"
  /\ \A b, r : SnapshotOf(b, r).kind = "snapshot" /\ SnapshotOf(b, r).sequence = b
                 /\ SnapshotOf(b, r).rows = r
BY DEF Event, Ping, CloseFrame, SnapshotOf

(* What is left of a queue after its first element. *)
LEMMA TailElements ==
  ASSUME NEW S, NEW s \in Seq(S), s # <<>>
  PROVE  /\ Tail(s) \in Seq(S) /\ Len(Tail(s)) = Len(s) - 1
         /\ 1 \in DOMAIN s /\ Head(s) = s[1] /\ Head(s) \in S
         /\ \A i \in DOMAIN Tail(s) : i + 1 \in DOMAIN s /\ Tail(s)[i] = s[i + 1]
  OBVIOUS

(* A queue with one more element. *)
LEMMA AppendElements ==
  ASSUME NEW S, NEW s \in Seq(S), NEW e \in S
  PROVE  /\ Append(s, e) \in Seq(S) /\ Len(Append(s, e)) = Len(s) + 1
         /\ Append(s, e) # <<>>
         /\ \A i \in DOMAIN s : i \in DOMAIN Append(s, e) /\ Append(s, e)[i] = s[i]
         /\ \A i \in DOMAIN Append(s, e) : i \in DOMAIN s \/ (i = Len(s) + 1 /\ Append(s, e)[i] = e)
<1>1. Append(s, e) \in Seq(S) /\ Len(Append(s, e)) = Len(s) + 1
  OBVIOUS
<1>2. \A i \in 1 .. Len(s) + 1 : Append(s, e)[i] = IF i = Len(s) + 1 THEN e ELSE s[i]
  OBVIOUS
<1>3. DOMAIN s = 1 .. Len(s) /\ DOMAIN Append(s, e) = 1 .. Len(s) + 1
  OBVIOUS
<1>4. Append(s, e) # <<>>
  <2>1. Len(<<>>) = 0 /\ Len(s) \in Nat
    OBVIOUS
  <2>2. QED
    BY <1>1, <2>1
<1>5. QED
  BY <1>1, <1>2, <1>3, <1>4

(* A queue with a batch behind it. *)
LEMMA BatchElements ==
  ASSUME NEW S, NEW s \in Seq(S), NEW t \in Seq(S)
  PROVE  /\ s \o t \in Seq(S)
         /\ \A i \in DOMAIN s : i \in DOMAIN (s \o t) /\ (s \o t)[i] = s[i]
         /\ \A i \in DOMAIN (s \o t) :
              i \in DOMAIN s \/ (~(i \in DOMAIN s) /\ i - Len(s) \in DOMAIN t /\ (s \o t)[i] = t[i - Len(s)])
  OBVIOUS

(* Rows that cover the picture still do when events are committed. *)
LEMMA CoversStill ==
  ASSUME NEW b, NEW r, Covers(b, r), latest \in Nat, latest' \in Nat, latest <= latest',
         shown' = shown
  PROVE  Covers(b, r)'
<1> SUFFICES ASSUME NEW p \in DOMAIN r, r[p] # Unread
             PROVE  r[p] \in 0 .. latest' /\ b <= r[p] /\ shown'[p] \subseteq 1 .. r[p]
  BY DEF Covers
<1>1. r[p] \in 0 .. latest /\ b <= r[p] /\ shown[p] \subseteq 1 .. r[p]
  BY DEF Covers
<1>2. QED
  BY <1>1

(* The picture stays what it was while nothing is received. *)
LEMMA PictureStill ==
  ASSUME Picture, latest \in Nat, latest' \in Nat, latest <= latest', UNCHANGED client_vars
  PROVE  Picture'
<1> SUFFICES ASSUME NEW p \in (1 .. Parts) \ blank' PROVE ShowsPrefix(shown[p])'
  BY DEF Picture
<1>1. PICK n \in 0 .. latest : shown[p] = 1 .. n /\ (cursor # NoCursor => cursor <= n)
  BY DEF Picture, ShowsPrefix, client_vars
<1>2. n \in 0 .. latest' /\ shown'[p] = 1 .. n /\ (cursor' # NoCursor => cursor' <= n)
  BY <1>1 DEF client_vars
<1>3. QED
  BY <1>2 DEF ShowsPrefix

(* The invariant holds at first. *)
LEMMA StreamInit == Init => StreamInv
<1> SUFFICES ASSUME Init PROVE StreamInv
  OBVIOUS
<1>1. TypeOK
  <2>1. 0 \in Nat /\ 0 \in 0 .. 0 /\ "none" \in Phases
    BY DEF Phases
  <2>2. feed \in Seq(Nat) /\ Len(feed) <= LiveCapacity /\ outbound \in Seq(Frame) /\ wire \in Seq(Frame)
        /\ Len(outbound) <= OutboundCapacity /\ rows \in Seq(Nat \cup {Unread}) /\ Len(rows) <= Parts
    BY Bounds DEF Init
  <2>3. shown \in [1 .. Parts -> SUBSET (1 .. latest)]
    BY DEF Init
  <2>4. QED
    BY <2>1, <2>2, <2>3 DEF Init, TypeOK
<1>2. Picture
  <2>1. 0 \in 0 .. latest /\ (cursor # NoCursor => cursor <= 0)
        /\ \A p \in 1 .. Parts : shown[p] = 1 .. 0
    BY DEF Init
  <2>2. QED
    BY <2>1 DEF Picture, ShowsPrefix
<1>3. EventsExist /\ SnapshotFirst /\ ReadsCover
  BY DEF Init, EventsExist, SnapshotFirst, ReadsCover
<1>4. QED
  BY <1>1, <1>2, <1>3 DEF StreamInv

(* A connection that is gone leaves a client with its picture and its cursor. *)
LEMMA HangupKeeps ==
  ASSUME StreamInv, Hangup, publishing' \subseteq publishing, pings' \in Nat, faults' \in Nat,
         UNCHANGED <<latest, floor, untold, client_vars>>
  PROVE  StreamInv'
<1>1. TypeOK'
  <2>1. TypeOK
    BY DEF StreamInv
  <2>2. feed' \in Seq(Nat) /\ Len(feed') <= LiveCapacity /\ outbound' \in Seq(Frame) /\ wire' \in Seq(Frame)
        /\ Len(outbound') <= OutboundCapacity /\ rows' \in Seq(Nat \cup {Unread}) /\ Len(rows') <= Parts
    BY Bounds DEF Hangup
  <2>3. 0 \in Nat /\ "none" \in Phases
    BY DEF Phases
  <2>4. /\ latest' \in Nat /\ floor' \in 0 .. latest' /\ publishing' \subseteq 1 .. latest'
        /\ untold' \subseteq 1 .. latest' /\ cursor' \in Nat \cup {NoCursor}
        /\ shown' \in [1 .. Parts -> SUBSET (1 .. latest')] /\ blank' \subseteq 1 .. Parts
    BY <2>1 DEF TypeOK, client_vars
  <2>5. QED
    BY <2>2, <2>3, <2>4 DEF TypeOK, Hangup
<1>2. Picture'
  BY PictureStill DEF StreamInv, TypeOK
<1>3. EventsExist' /\ ReadsCover'
  BY DEF Hangup, EventsExist, ReadsCover
<1>4. SnapshotFirst'
  BY DEF Hangup, SnapshotFirst
<1>5. QED
  BY <1>1, <1>2, <1>3, <1>4 DEF StreamInv

(* Publishers and retention. *)
LEMMA PublishKeeps ==
  ASSUME StreamInv,
         \/ AppendEvent \/ \E e \in 1 .. latest : Broadcast(e) \/ Abandon(e) \/ Prune(e)
  PROVE  StreamInv'
<1>0. TypeOK /\ Picture /\ EventsExist /\ SnapshotFirst /\ ReadsCover
  BY DEF StreamInv
<1>1. /\ latest' \in Nat /\ latest <= latest'
      /\ UNCHANGED <<conn, sync_vars, outbound, last_sent, wire, client_vars, pings>>
  BY <1>0 DEF TypeOK, AppendEvent, Broadcast, Abandon, Prune, queue_vars, bound_vars
<1>2. feed' \in Seq(Nat) /\ Len(feed') <= LiveCapacity /\ lagged' \in BOOLEAN
      /\ \A i \in DOMAIN feed' : feed'[i] \in 1 .. latest'
  <2>1. CASE UNCHANGED <<feed, lagged>>
    BY <1>0, <1>1, <2>1 DEF TypeOK, EventsExist
  <2>2. ASSUME NEW e \in 1 .. latest, latest' = latest,
               feed' = Append(IF Len(feed) < LiveCapacity THEN feed ELSE Tail(feed), e),
               lagged' = (lagged \/ Len(feed) = LiveCapacity)
        PROVE  feed' \in Seq(Nat) /\ Len(feed') <= LiveCapacity /\ lagged' \in BOOLEAN
               /\ \A i \in DOMAIN feed' : feed'[i] \in 1 .. latest'
    <3> DEFINE kept == IF Len(feed) < LiveCapacity THEN feed ELSE Tail(feed)
    <3>1. feed \in Seq(Nat) /\ Len(feed) <= LiveCapacity /\ (\A i \in DOMAIN feed : feed[i] \in 1 .. latest)
      BY <1>0 DEF TypeOK, EventsExist
    <3>2. /\ kept \in Seq(Nat) /\ Len(kept) < LiveCapacity
          /\ \A i \in DOMAIN kept : kept[i] \in 1 .. latest
      <4>1. CASE Len(feed) < LiveCapacity
        BY <3>1, <4>1
      <4>2. CASE ~(Len(feed) < LiveCapacity)
        <5>1. feed # <<>>
          BY <3>1, <4>2, Bounds
        <5>2. kept = Tail(feed)
          BY <4>2
        <5>3. Len(Tail(feed)) = Len(feed) - 1 /\ Tail(feed) \in Seq(Nat) /\ Len(feed) \in Nat
          BY <3>1, <5>1
        <5>4. \A i \in DOMAIN Tail(feed) : Tail(feed)[i] \in 1 .. latest
          BY <3>1, <5>1, TailElements
        <5> HIDE DEF kept
        <5>5. kept \in Seq(Nat) /\ \A i \in DOMAIN kept : kept[i] \in 1 .. latest
          BY <5>2, <5>3, <5>4
        <5>6. Len(kept) < LiveCapacity
          BY <3>1, <5>2, <5>3, Bounds
        <5>7. QED
          BY <5>5, <5>6
      <4>3. QED
        BY <4>1, <4>2
    <3> HIDE DEF kept
    <3>3. feed' = Append(kept, e) /\ e \in Nat
      BY <2>2 DEF kept
    <3>4. lagged' \in BOOLEAN
      BY <2>2
    <3>5. /\ Append(kept, e) \in Seq(Nat) /\ Len(Append(kept, e)) = Len(kept) + 1
          /\ \A i \in DOMAIN Append(kept, e) :
               (i \in DOMAIN kept /\ Append(kept, e)[i] = kept[i]) \/ Append(kept, e)[i] = e
      BY <3>2, <3>3, AppendElements
    <3>6. \A i \in DOMAIN feed' : feed'[i] \in 1 .. latest
      BY <3>2, <3>3, <3>5
    <3>7. Len(feed') = Len(kept) + 1 /\ Len(kept) \in Nat
      BY <3>2, <3>3, <3>5
    <3>8. Len(feed') <= LiveCapacity
      BY <3>2, <3>7, Bounds
    <3>9. QED
      BY <2>2, <3>3, <3>4, <3>5, <3>6, <3>8
  <2>3. QED
    BY <2>1, <2>2 DEF AppendEvent, Broadcast, Abandon, Prune, queue_vars
<1>3. TypeOK'
  <2>0. shown' \in [1 .. Parts -> SUBSET (1 .. latest')]
    <3>1. 1 .. latest \subseteq 1 .. latest' /\ shown \in [1 .. Parts -> SUBSET (1 .. latest)]
      BY <1>0, <1>1 DEF TypeOK
    <3>2. QED
      BY <1>1, <3>1 DEF client_vars
  <2>1. floor' \in 0 .. latest' /\ publishing' \subseteq 1 .. latest' /\ untold' \subseteq 1 .. latest'
        /\ faults' \in Nat
    <3>1. /\ latest \in Nat /\ floor \in 0 .. latest /\ publishing \subseteq 1 .. latest
          /\ untold \subseteq 1 .. latest /\ faults \in Nat
      BY <1>0 DEF TypeOK
    <3>2. CASE AppendEvent
      BY <3>1, <3>2 DEF AppendEvent, bound_vars
    <3>3. ASSUME NEW e \in 1 .. latest, Broadcast(e) \/ Abandon(e) \/ Prune(e)
          PROVE  floor' \in 0 .. latest' /\ publishing' \subseteq 1 .. latest' /\ untold' \subseteq 1 .. latest'
                 /\ faults' \in Nat
      <4>1. CASE Broadcast(e)
        BY <3>1, <4>1 DEF Broadcast, bound_vars
      <4>2. CASE Abandon(e)
        BY <3>1, <4>2 DEF Abandon
      <4>3. CASE Prune(e)
        BY <3>1, <4>3 DEF Prune, bound_vars
      <4>4. QED
        BY <3>3, <4>1, <4>2, <4>3
    <3>4. QED
      BY <3>2, <3>3
  <2>2. QED
    BY <1>0, <1>1, <1>2, <2>0, <2>1 DEF TypeOK, sync_vars, client_vars
<1>4. Picture'
  BY <1>0, <1>1, PictureStill DEF TypeOK
<1>5. EventsExist'
  <2>1. \A e \in 1 .. latest : e \in 1 .. latest'
    BY <1>0, <1>1 DEF TypeOK
  <2>2. conn' \in {"replay", "batch"} => last_queued' <= latest'
    BY <1>0, <1>1 DEF TypeOK, EventsExist, sync_vars
  <2>3. QED
    BY <1>0, <1>1, <1>2, <2>1, <2>2 DEF EventsExist
<1>6. \A b, r : Covers(b, r) => Covers(b, r)'
  BY <1>0, <1>1, CoversStill DEF TypeOK, client_vars
<1>7. SnapshotFirst'
  BY <1>0, <1>1, <1>6 DEF SnapshotFirst, sync_vars, client_vars
<1>8. ReadsCover'
  BY <1>0, <1>1, <1>6 DEF ReadsCover, sync_vars, TypeOK
<1>9. QED
  BY <1>3, <1>4, <1>5, <1>7, <1>8 DEF StreamInv

(* The connection's beginning: subscribing, the window and the reads of a snapshot. *)
LEMMA SyncKeeps ==
  ASSUME StreamInv,
         Connect \/ CheckWindow \/ ReadBoundary \/ ReadRows \/ (ReplayFails /\ conn = "hello")
  PROVE  StreamInv'
<1>0. TypeOK /\ Picture /\ EventsExist /\ SnapshotFirst /\ ReadsCover
  BY DEF StreamInv
<1>1. /\ UNCHANGED <<latest, floor, publishing, untold, queue_vars, last_sent, wire, client_vars, pings>>
      /\ faults' \in Nat
  BY <1>0 DEF Connect, CheckWindow, ReadBoundary, ReadRows, ReplayFails, server_vars, bound_vars, TypeOK
<1>a. latest \in Nat /\ floor \in 0 .. latest
  BY <1>0 DEF TypeOK
<1>b. LatestSequence \in Nat /\ LatestSequence <= latest
  BY <1>a DEF LatestSequence
<1>2. /\ conn' \in Phases /\ resume' \in Nat \cup {NoCursor} /\ last_queued' \in Nat
      /\ boundary' \in Nat \cup {Unread} /\ rows' \in Seq(Nat \cup {Unread}) /\ Len(rows') <= Parts
  <2>1. CASE Connect
    BY <1>0, <2>1 DEF TypeOK, Connect, Phases
  <2>2. CASE CheckWindow
    BY <1>0, <2>2 DEF TypeOK, CheckWindow, Phases
  <2>3. CASE ReadBoundary
    BY <1>0, <1>b, <2>3 DEF TypeOK, ReadBoundary, Phases
  <2>4. CASE ReadRows
    <3>a. rows \in Seq(Nat \cup {Unread}) /\ Len(rows) \in Nat
      BY <1>0 DEF TypeOK
    <3>b. Len(rows) < Parts /\ (rows' = Append(rows, latest) \/ rows' = Append(rows, Unread))
      BY <2>4 DEF ReadRows
    <3>c. latest \in Nat \cup {Unread} /\ Unread \in Nat \cup {Unread}
      BY <1>a
    <3>1. PICK read \in Nat \cup {Unread} : rows' = Append(rows, read)
      BY <3>b, <3>c
    <3>2. rows' \in Seq(Nat \cup {Unread}) /\ Len(rows') = Len(rows) + 1
      BY <3>1, <3>a, AppendElements
    <3>3. Len(rows') <= Parts
      BY <3>2, <3>a, <3>b, Bounds
    <3>4. QED
      BY <1>0, <2>4, <3>2, <3>3 DEF TypeOK, ReadRows
  <2>5. CASE ReplayFails /\ conn = "hello"
    BY <1>0, <2>5 DEF TypeOK, ReplayFails, Phases, sync_vars
  <2>6. QED
    BY <2>1, <2>2, <2>3, <2>4, <2>5
<1>3. TypeOK'
  BY <1>0, <1>1, <1>2 DEF TypeOK, queue_vars, client_vars
<1>4. Picture'
  BY <1>0, <1>1, <1>a, PictureStill
<1>5. conn' \in {"replay", "batch"} => last_queued' <= latest'
  BY <1>0, <1>1, <1>a DEF Connect, CheckWindow, ReadBoundary, ReadRows, ReplayFails, Retained, TypeOK
<1>6. EventsExist'
  BY <1>0, <1>1, <1>5 DEF EventsExist, queue_vars
<1>7. \A b, r : Covers(b, r) <=> Covers(b, r)'
  BY <1>1 DEF Covers, client_vars
<1>8. SnapshotFirst'
  <2>1. conn \in {"none", "hello", "snapshot"} /\ conn' \in {"hello", "replay", "snapshot"}
        /\ wire = <<>> /\ outbound = <<>>
    BY <1>0 DEF Connect, CheckWindow, ReadBoundary, ReadRows, ReplayFails, SnapshotFirst
  <2>2. wire' = <<>> /\ outbound' = <<>> /\ cursor' = cursor
    BY <1>1, <2>1 DEF queue_vars, client_vars
  <2>3. cursor = NoCursor => conn' \in {"hello", "snapshot"} /\ resume' = NoCursor
    BY <1>0, <2>1 DEF Connect, CheckWindow, ReadBoundary, ReadRows, ReplayFails, SnapshotFirst,
                      sync_vars
  <2>4. QED
    BY <2>2, <2>3 DEF SnapshotFirst
<1>9. ReadsCover'
  <2>1. CASE Connect \/ CheckWindow \/ (ReplayFails /\ conn = "hello")
    <3>1. conn # "snapshot" /\ boundary' = boundary /\ rows' = rows /\ latest' = latest
      BY <1>1, <2>1 DEF Connect, CheckWindow, ReplayFails, sync_vars
    <3>2. boundary = Unread /\ rows = <<>>
      BY <1>0, <3>1 DEF ReadsCover
    <3>3. QED
      BY <3>1, <3>2 DEF ReadsCover
  <2>2. CASE ReadBoundary
    <3>1. /\ rows' = <<>> /\ boundary' \in {0, LatestSequence} /\ conn' = "snapshot"
          /\ latest' = latest
      BY <1>0, <2>2 DEF ReadBoundary, ReadsCover, server_vars
    <3>2. boundary' \in Nat /\ boundary' <= latest'
      BY <1>a, <1>b, <3>1
    <3>3. Covers(boundary, rows)'
      <4>1. DOMAIN rows' = {}
        BY <3>1
      <4>2. QED
        BY <4>1 DEF Covers
    <3>4. QED
      BY <3>1, <3>2, <3>3, Bounds DEF ReadsCover
  <2>3. CASE ReadRows
    <3>1. /\ boundary # Unread /\ boundary' = boundary /\ conn' = "snapshot" /\ latest' = latest
          /\ shown' = shown /\ \E read \in {latest, Unread} : rows' = Append(rows, read)
      BY <2>3 DEF ReadRows, server_vars, client_vars
    <3>2. PICK read \in {latest, Unread} : rows' = Append(rows, read)
      BY <3>1
    <3>3. /\ boundary <= latest /\ Covers(boundary, rows) /\ rows \in Seq(Nat \cup {Unread})
          /\ Len(rows) < Parts /\ Len(rows) \in Nat /\ shown \in [1 .. Parts -> SUBSET (1 .. latest)]
          /\ read \in Nat \cup {Unread}
      BY <1>0, <1>a, <2>3, <3>1 DEF ReadsCover, ReadRows, TypeOK
    <3>4. \A p \in DOMAIN rows' : \/ p \in DOMAIN rows /\ rows'[p] = rows[p]
                                  \/ p = Len(rows) + 1 /\ rows'[p] = read
      BY <3>2, <3>3, AppendElements
    <3>5. ASSUME NEW p \in DOMAIN rows', rows'[p] # Unread
          PROVE  rows'[p] \in 0 .. latest /\ boundary <= rows'[p] /\ shown[p] \subseteq 1 .. rows'[p]
      <4>1. CASE p \in DOMAIN rows /\ rows'[p] = rows[p]
        BY <3>3, <3>5, <4>1 DEF Covers
      <4>2. CASE p = Len(rows) + 1 /\ rows'[p] = read
        <5>1. p \in 1 .. Parts /\ rows'[p] = latest
          BY <3>3, <3>5, <4>2, Bounds
        <5>2. QED
          BY <1>a, <3>3, <5>1
      <4>3. QED
        BY <3>4, <4>1, <4>2
    <3>6. Covers(boundary, rows)'
      BY <3>1, <3>5 DEF Covers
    <3>7. QED
      BY <3>1, <3>3, <3>6 DEF ReadsCover
  <2>4. QED
    BY <2>1, <2>2, <2>3
<1>10. QED
  BY <1>3, <1>4, <1>6, <1>8, <1>9 DEF StreamInv

(* A batch of the replay goes out in one piece: the rows that are left after the last *)
(* one that was sent.                                                                  *)
LEMMA ReplayKeeps == ASSUME StreamInv, ReplayBatch PROVE StreamInv'
<1>0. TypeOK /\ Picture /\ EventsExist /\ SnapshotFirst /\ ReadsCover
  BY DEF StreamInv
<1> DEFINE from == IF last_queued < floor THEN floor ELSE last_queued
           size == IF latest - from < Batch THEN latest - from ELSE Batch
           batch == [i \in 1 .. size |-> Event(from + i)]
           passed == {e \in 1 .. floor : e > last_queued /\ e \notin publishing \cup ToSet(feed)}
<1>1. /\ conn = "replay" /\ wire' = wire \o batch
      /\ last_queued' = IF size = 0 THEN last_queued ELSE from + size
      /\ (conn' = "batch" /\ last_sent' = last_sent) \/ (conn' = "live" /\ last_sent' = last_queued')
      /\ untold' = untold \cup passed
      /\ UNCHANGED <<latest, floor, publishing, resume, boundary, rows, queue_vars, client_vars, bound_vars>>
  <2>1. conn = "replay" /\ wire' = wire \o batch /\ last_queued' = IF size = 0 THEN last_queued ELSE from + size
    BY DEF ReplayBatch
  <2>2. (conn' = "batch" /\ last_sent' = last_sent) \/ (conn' = "live" /\ last_sent' = last_queued')
    <3>1. IF size = Batch THEN conn' = "batch" /\ UNCHANGED last_sent ELSE conn' = "live" /\ last_sent' = last_queued'
      BY DEF ReplayBatch
    <3> HIDE DEF size
    <3>2. QED
      BY <3>1
  <2>3. untold' = untold \cup passed
        /\ UNCHANGED <<latest, floor, publishing, resume, boundary, rows, queue_vars, client_vars, bound_vars>>
    BY DEF ReplayBatch
  <2>4. QED
    BY <2>1, <2>2, <2>3
<1>e. passed \subseteq 1 .. floor
  OBVIOUS
<1>2. latest \in Nat /\ floor \in 0 .. latest /\ last_queued \in Nat /\ last_queued <= latest
  BY <1>0, <1>1 DEF TypeOK, EventsExist
<1>3. from \in Nat /\ from <= latest /\ size \in Nat /\ from + size <= latest
  BY <1>2, Bounds
<1> HIDE DEF from, size, passed
<1>4. \A i \in 1 .. size : from + i \in 1 .. latest /\ Event(from + i) \in Frame
                           /\ Event(from + i).kind = "event" /\ Event(from + i).sequence = from + i
  <2>1. \A i \in 1 .. size : from + i \in 1 .. latest /\ from + i \in Nat
    BY <1>2, <1>3
  <2>2. QED
    BY <2>1, FramesTyped, FrameKinds
<1>5. batch \in Seq(Frame) /\ DOMAIN batch = 1 .. size
  BY <1>3, <1>4
<1>6. \A i \in DOMAIN batch : batch[i].kind = "event" /\ batch[i].sequence \in 1 .. latest
  BY <1>4
<1> HIDE DEF batch
<1>7. /\ wire' \in Seq(Frame)
      /\ \A i \in DOMAIN wire : i \in DOMAIN wire' /\ wire'[i] = wire[i]
      /\ \A i \in DOMAIN wire' : \/ i \in DOMAIN wire /\ wire'[i] = wire[i]
                                 \/ wire'[i].kind = "event" /\ wire'[i].sequence \in 1 .. latest
  <2>1. wire \in Seq(Frame)
    BY <1>0 DEF TypeOK
  <2>2. /\ wire \o batch \in Seq(Frame)
        /\ \A i \in DOMAIN wire : i \in DOMAIN (wire \o batch) /\ (wire \o batch)[i] = wire[i]
        /\ \A i \in DOMAIN (wire \o batch) :
             \/ i \in DOMAIN wire
             \/ i - Len(wire) \in DOMAIN batch /\ (wire \o batch)[i] = batch[i - Len(wire)]
    <3>1. batch \in Seq(Frame)
      BY <1>5
    <3>2. QED
      BY <2>1, <3>1, BatchElements
  <2>3. QED
    BY <1>1, <1>6, <2>2
<1>8. last_queued' \in Nat /\ last_queued' <= latest
  BY <1>1, <1>2, <1>3
<1>9. untold' \subseteq 1 .. latest
  <2>1. untold \subseteq 1 .. latest
    BY <1>0 DEF TypeOK
  <2>2. QED
    BY <1>1, <1>2, <1>e, <2>1
<1>10. last_sent' \in Nat /\ conn' \in Phases
  BY <1>0, <1>1, <1>8 DEF TypeOK, Phases
<1>11. TypeOK'
  BY <1>0, <1>1, <1>7, <1>8, <1>9, <1>10 DEF TypeOK, queue_vars, client_vars, bound_vars
<1>12. Picture'
  BY <1>0, <1>1, <1>2, PictureStill
<1>13. EventsExist'
  BY <1>0, <1>1, <1>7, <1>8 DEF EventsExist, queue_vars
<1>14. SnapshotFirst'
  <2>1. \A b, r : Covers(b, r) <=> Covers(b, r)'
    BY <1>1 DEF Covers, client_vars
  <2>2. cursor = NoCursor => wire # <<>> /\ wire[1].kind = "snapshot"
    BY <1>0, <1>1 DEF SnapshotFirst
  <2>3. wire # <<>> => 1 \in DOMAIN wire
    BY <1>0 DEF TypeOK
  <2>4. cursor' = NoCursor => wire' # <<>> /\ wire'[1].kind = "snapshot"
    BY <1>1, <1>7, <2>2, <2>3 DEF client_vars
  <2>5. ASSUME NEW i \in DOMAIN wire', wire'[i].kind = "snapshot"
        PROVE  i = 1 /\ Len(wire'[1].rows) = Parts /\ Covers(wire[1].sequence, wire[1].rows)'
    <3>1. i \in DOMAIN wire /\ wire[i].kind = "snapshot" /\ wire'[i] = wire[i]
      BY <1>7, <2>5
    <3>2. i = 1 /\ Len(wire[1].rows) = Parts /\ Covers(wire[1].sequence, wire[1].rows)
      BY <1>0, <3>1 DEF SnapshotFirst
    <3>3. wire'[1] = wire[1]
      BY <3>1, <3>2
    <3>4. PICK n, b : n = wire[1].rows /\ b = wire[1].sequence
      OBVIOUS
    <3>5. Covers(b, n)' /\ wire'[1].rows = n /\ wire'[1].sequence = b
      BY <2>1, <3>2, <3>3, <3>4
    <3>6. QED
      BY <3>2, <3>3, <3>5 DEF Covers
  <2>6. QED
    BY <1>1, <2>4, <2>5 DEF SnapshotFirst
<1>15. ReadsCover'
  BY <1>0, <1>1 DEF ReadsCover
<1>16. QED
  BY <1>11, <1>12, <1>13, <1>14, <1>15 DEF StreamInv

(* A further batch, or a connection that retention has overtaken. *)
LEMMA NextBatchKeeps == ASSUME StreamInv, NextBatch PROVE StreamInv'
<1>0. TypeOK /\ Picture /\ EventsExist /\ SnapshotFirst /\ ReadsCover
  BY DEF StreamInv
<1>1. conn = "batch" /\ UNCHANGED <<server_vars, client_vars, bound_vars>>
  BY DEF NextBatch
<1>2. CASE Hangup
  BY <1>0, <1>1, <1>2, HangupKeeps DEF server_vars, bound_vars, TypeOK
<1>3. CASE conn' = "replay" /\ UNCHANGED <<sync_vars, queue_vars, last_sent, wire>>
  <2>1. TypeOK'
    BY <1>0, <1>1, <1>3 DEF TypeOK, Phases, server_vars, client_vars, bound_vars, sync_vars, queue_vars
  <2>2. Picture'
    BY <1>0, <1>1, PictureStill DEF server_vars, TypeOK
  <2>3. EventsExist' /\ ReadsCover' /\ SnapshotFirst'
    BY <1>0, <1>1, <1>3 DEF EventsExist, ReadsCover, SnapshotFirst, Covers, server_vars, client_vars,
                            sync_vars, queue_vars
  <2>4. QED
    BY <2>1, <2>2, <2>3 DEF StreamInv
<1>4. QED
  BY <1>2, <1>3 DEF NextBatch

(* The snapshot is the first frame of its connection, and its rows cover the picture. *)
LEMMA SendSnapshotKeeps == ASSUME StreamInv, SendSnapshot PROVE StreamInv'
<1>0. TypeOK /\ Picture /\ EventsExist /\ SnapshotFirst /\ ReadsCover
  BY DEF StreamInv
<1>1. /\ conn = "snapshot" /\ boundary # Unread /\ Len(rows) = Parts
      /\ wire' = Append(wire, SnapshotOf(boundary, rows))
      /\ last_queued' = boundary /\ last_sent' = boundary /\ conn' = "live"
      /\ boundary' = Unread /\ rows' = <<>>
      /\ UNCHANGED <<latest, floor, publishing, untold, resume, feed, lagged, outbound, client_vars, pings, faults>>
  BY DEF SendSnapshot, server_vars, queue_vars, bound_vars
<1>2. boundary \in Nat /\ Covers(boundary, rows) /\ rows \in Seq(Nat \cup {Unread})
  BY <1>0, <1>1 DEF TypeOK, ReadsCover
<1>3. wire = <<>> /\ outbound = <<>>
  BY <1>0, <1>1 DEF SnapshotFirst
<1>4. SnapshotOf(boundary, rows) \in Frame
  BY <1>2, FramesTyped
<1>5. wire' \in Seq(Frame) /\ DOMAIN wire' = {1} /\ wire'[1] = SnapshotOf(boundary, rows) /\ wire' # <<>>
  BY <1>1, <1>3, <1>4
<1>6. TypeOK'
  <2>1. rows' \in Seq(Nat \cup {Unread}) /\ Len(rows') <= Parts
    BY <1>1, Bounds
  <2>2. QED
    BY <1>0, <1>1, <1>2, <1>5, <2>1 DEF TypeOK, Phases, client_vars
<1>7. Picture'
  BY <1>0, <1>1, PictureStill DEF TypeOK
<1>8. EventsExist'
  BY <1>0, <1>1, <1>5, FrameKinds DEF EventsExist
<1>9. PICK b, r : b = boundary /\ r = rows
  OBVIOUS
<1>10. Covers(b, r)'
  BY <1>1, <1>2, <1>9 DEF Covers, client_vars
<1>11. wire'[1].kind = "snapshot" /\ wire'[1].rows = r /\ wire'[1].sequence = b
  BY <1>5, <1>9, FrameKinds
<1>12. SnapshotFirst'
  BY <1>1, <1>2, <1>5, <1>9, <1>10, <1>11 DEF SnapshotFirst, Covers
<1>13. ReadsCover'
  BY <1>1 DEF ReadsCover
<1>14. QED
  BY <1>6, <1>7, <1>8, <1>12, <1>13 DEF StreamInv

(* A frame that is queued, or does not find room. *)
LEMMA QueueTyped ==
  ASSUME TypeOK, NEW f \in Frame, QueueOutbound(f)
  PROVE  /\ outbound' \in Seq(Frame) /\ Len(outbound') <= OutboundCapacity
         /\ conn' \in {conn, "closing"}
         /\ \A i \in DOMAIN outbound' : (i \in DOMAIN outbound /\ outbound'[i] = outbound[i]) \/ outbound'[i] = f
<1>1. outbound \in Seq(Frame) /\ Len(outbound) <= OutboundCapacity /\ Len(outbound) \in Nat
  BY DEF TypeOK
<1>2. CASE Len(outbound) < OutboundCapacity
  <2>1. outbound' = Append(outbound, f) /\ conn' = conn
    BY <1>2 DEF QueueOutbound
  <2>2. Len(Append(outbound, f)) = Len(outbound) + 1 /\ Append(outbound, f) \in Seq(Frame)
        /\ \A i \in DOMAIN Append(outbound, f) :
             (i \in DOMAIN outbound /\ Append(outbound, f)[i] = outbound[i]) \/ Append(outbound, f)[i] = f
    BY <1>1, AppendElements
  <2>3. Len(outbound) + 1 <= OutboundCapacity
    BY <1>1, <1>2, Bounds
  <2>4. QED
    BY <2>1, <2>2, <2>3
<1>3. CASE ~(Len(outbound) < OutboundCapacity)
  BY <1>1, <1>3 DEF QueueOutbound
<1>4. QED
  BY <1>2, <1>3

(* A connection that serves, or is closing, leaves the client alone: it only puts frames *)
(* of committed events, pings and its close frame behind those on the way.               *)
LEMMA ServingKeeps ==
  ASSUME StreamInv, conn \in {"live", "closing"}, conn' \in {"live", "closing", "closed"},
         TypeOK', UNCHANGED <<latest, resume, boundary, rows, client_vars>>,
         \A i \in DOMAIN feed' : feed'[i] \in 1 .. latest,
         \A i \in DOMAIN outbound' :
           /\ outbound'[i].kind # "snapshot"
           /\ outbound'[i].kind = "event" => outbound'[i].sequence \in 1 .. latest,
         \A i \in DOMAIN wire : i \in DOMAIN wire' /\ wire'[i] = wire[i],
         \A i \in DOMAIN wire' :
           \/ i \in DOMAIN wire
           \/ /\ wire'[i].kind # "snapshot"
              /\ wire'[i].kind = "event" => wire'[i].sequence \in 1 .. latest
  PROVE  StreamInv'
<1>0. TypeOK /\ Picture /\ EventsExist /\ SnapshotFirst /\ ReadsCover
  BY DEF StreamInv
<1>1. Picture'
  BY <1>0, PictureStill DEF TypeOK
<1>2. EventsExist'
  BY <1>0 DEF EventsExist
<1>3. \A b, r : Covers(b, r) <=> Covers(b, r)'
  BY DEF Covers, client_vars
<1>4. SnapshotFirst'
  <2>1. cursor = NoCursor => wire # <<>> /\ wire[1].kind = "snapshot"
    BY <1>0 DEF SnapshotFirst
  <2>2. wire # <<>> => 1 \in DOMAIN wire
    BY <1>0 DEF TypeOK
  <2>3. cursor' = NoCursor => wire' # <<>> /\ wire'[1].kind = "snapshot"
    BY <2>1, <2>2 DEF client_vars
  <2>4. ASSUME NEW i \in DOMAIN wire', wire'[i].kind = "snapshot"
        PROVE  i = 1 /\ Len(wire'[1].rows) = Parts /\ Covers(wire[1].sequence, wire[1].rows)'
    <3>1. i \in DOMAIN wire /\ wire[i].kind = "snapshot" /\ wire'[i] = wire[i]
      BY <2>4
    <3>2. i = 1 /\ Len(wire[1].rows) = Parts /\ Covers(wire[1].sequence, wire[1].rows)
      BY <1>0, <3>1 DEF SnapshotFirst
    <3>3. wire'[1] = wire[1]
      BY <3>1, <3>2
    <3>4. PICK n, b : n = wire[1].rows /\ b = wire[1].sequence
      OBVIOUS
    <3>5. Covers(b, n)' /\ wire'[1].rows = n /\ wire'[1].sequence = b
      BY <1>3, <3>2, <3>3, <3>4
    <3>6. QED
      BY <3>2, <3>3, <3>5 DEF Covers
  <2>5. QED
    BY <2>3, <2>4 DEF SnapshotFirst
<1>5. ReadsCover'
  BY <1>0 DEF ReadsCover
<1>6. QED
  BY <1>1, <1>2, <1>4, <1>5 DEF StreamInv

(* The loop of serve_events and the writer. *)
LEMMA ServeKeeps ==
  ASSUME StreamInv, Forward \/ Lagged \/ Heartbeat \/ Disconnect \/ Write \/ Close
  PROVE  StreamInv'
<1>0. TypeOK /\ EventsExist
  BY DEF StreamInv
<1>a. /\ latest \in Nat /\ floor \in 0 .. latest /\ conn \in Phases
      /\ feed \in Seq(Nat) /\ Len(feed) <= LiveCapacity /\ Len(feed) \in Nat
      /\ outbound \in Seq(Frame) /\ Len(outbound) <= OutboundCapacity /\ Len(outbound) \in Nat
      /\ wire \in Seq(Frame) /\ pings \in Nat /\ faults \in Nat
  BY <1>0 DEF TypeOK
<1>b. /\ \A i \in DOMAIN feed : feed[i] \in 1 .. latest
      /\ \A i \in DOMAIN outbound : /\ outbound[i].kind # "snapshot"
                                    /\ outbound[i].kind = "event" => outbound[i].sequence \in 1 .. latest
  BY <1>0 DEF EventsExist
<1>c. LatestSequence \in Nat
  BY <1>a DEF LatestSequence
<1>1. CASE Forward
  <2>1. /\ conn = "live" /\ feed # <<>> /\ feed' = Tail(feed)
        /\ UNCHANGED <<latest, floor, publishing, untold, resume, boundary, rows, lagged, last_sent, wire,
                       client_vars, pings, faults>>
    BY <1>1 DEF Forward, server_vars, bound_vars
  <2>2. /\ feed' \in Seq(Nat) /\ Len(feed') <= LiveCapacity /\ Head(feed) \in 1 .. latest
        /\ \A i \in DOMAIN feed' : feed'[i] \in 1 .. latest
    <3>1. /\ Tail(feed) \in Seq(Nat) /\ Len(Tail(feed)) = Len(feed) - 1
          /\ 1 \in DOMAIN feed /\ Head(feed) = feed[1]
          /\ \A i \in DOMAIN Tail(feed) : i + 1 \in DOMAIN feed /\ Tail(feed)[i] = feed[i + 1]
      BY <1>a, <2>1, TailElements
    <3>2. Len(Tail(feed)) <= LiveCapacity
      BY <1>a, <3>1, Bounds
    <3>3. QED
      BY <1>b, <2>1, <3>1, <3>2
  <2>3. PICK e \in 1 .. latest : e = Head(feed)
    BY <2>2
  <2>4. Event(e) \in Frame /\ Event(e).kind = "event" /\ Event(e).sequence = e
    BY <1>a, FramesTyped, FrameKinds
  <2>5. /\ outbound' \in Seq(Frame) /\ Len(outbound') <= OutboundCapacity /\ conn' \in {"live", "closing"}
        /\ last_queued' \in Nat
        /\ \A i \in DOMAIN outbound' : /\ outbound'[i].kind # "snapshot"
                                       /\ outbound'[i].kind = "event" => outbound'[i].sequence \in 1 .. latest
    <3>1. CASE Head(feed) > last_queued
      <4>1. QueueOutbound(Event(e)) /\ last_queued' = e
        BY <1>1, <2>3, <3>1 DEF Forward
      <4>2. PICK f \in Frame : f = Event(e)
        BY <2>4
      <4>3. /\ outbound' \in Seq(Frame) /\ Len(outbound') <= OutboundCapacity
            /\ conn' \in {conn, "closing"}
            /\ \A i \in DOMAIN outbound' : (i \in DOMAIN outbound /\ outbound'[i] = outbound[i]) \/ outbound'[i] = f
        BY <1>0, <4>1, <4>2, QueueTyped
      <4>4. f.kind = "event" /\ f.sequence \in 1 .. latest
        BY <2>4, <4>2
      <4>5. \A i \in DOMAIN outbound' : /\ outbound'[i].kind # "snapshot"
                                        /\ outbound'[i].kind = "event" => outbound'[i].sequence \in 1 .. latest
        BY <1>b, <4>3, <4>4
      <4>6. last_queued' \in Nat /\ conn' \in {"live", "closing"}
        BY <1>a, <2>1, <4>1, <4>3
      <4>7. QED
        BY <4>3, <4>5, <4>6
    <3>2. CASE ~(Head(feed) > last_queued)
      BY <1>0, <1>1, <1>a, <1>b, <2>1, <3>2 DEF Forward, TypeOK
    <3>3. QED
      BY <3>1, <3>2
  <2>6. TypeOK'
    BY <1>0, <2>1, <2>2, <2>5 DEF TypeOK, Phases, client_vars
  <2>7. QED
    BY <2>1, <2>2, <2>5, <2>6, ServingKeeps
<1>2. CASE Lagged \/ Disconnect
  <2>1. /\ conn = "live" /\ conn' = "closing" /\ faults' \in Nat
        /\ UNCHANGED <<latest, floor, publishing, untold, resume, boundary, rows, last_queued, feed, lagged,
                       outbound, last_sent, wire, client_vars, pings>>
    BY <1>2, <1>a DEF Lagged, Disconnect, server_vars, sync_vars, queue_vars, bound_vars
  <2>2. TypeOK'
    BY <1>0, <2>1 DEF TypeOK, Phases, client_vars
  <2>3. QED
    BY <1>b, <2>1, <2>2, ServingKeeps
<1>3. CASE Heartbeat
  <2>1. /\ conn = "live" /\ pings' \in Nat /\ QueueOutbound(Ping(LatestSequence))
        /\ UNCHANGED <<latest, floor, publishing, untold, resume, boundary, rows, last_queued, feed, lagged,
                       last_sent, wire, client_vars, faults>>
    BY <1>3, <1>a DEF Heartbeat, server_vars, sync_vars
  <2>2. Ping(LatestSequence) \in Frame /\ Ping(LatestSequence).kind = "ping"
    BY <1>c, FramesTyped, FrameKinds
  <2>3. /\ outbound' \in Seq(Frame) /\ Len(outbound') <= OutboundCapacity /\ conn' \in {"live", "closing"}
        /\ \A i \in DOMAIN outbound' : /\ outbound'[i].kind # "snapshot"
                                       /\ outbound'[i].kind = "event" => outbound'[i].sequence \in 1 .. latest
    BY <1>0, <1>b, <2>1, <2>2, QueueTyped
  <2>4. TypeOK'
    BY <1>0, <2>1, <2>3 DEF TypeOK, Phases, client_vars
  <2>5. QED
    BY <1>b, <2>1, <2>3, <2>4, ServingKeeps
<1>4. CASE Write
  <2>1. /\ conn \in {"live", "closing"} /\ outbound # <<>> /\ outbound' = Tail(outbound)
        /\ wire' = Append(wire, Head(outbound)) /\ last_sent' = Head(outbound).sequence
        /\ UNCHANGED <<latest, floor, publishing, untold, conn, resume, boundary, rows, last_queued, feed,
                       lagged, client_vars, pings, faults>>
    BY <1>4 DEF Write, server_vars, sync_vars, bound_vars
  <2>2. /\ outbound' \in Seq(Frame) /\ Len(outbound') = Len(outbound) - 1
        /\ 1 \in DOMAIN outbound /\ Head(outbound) = outbound[1] /\ Head(outbound) \in Frame
        /\ \A i \in DOMAIN outbound' : i + 1 \in DOMAIN outbound /\ outbound'[i] = outbound[i + 1]
    BY <1>a, <2>1, TailElements
  <2>3. PICK f \in Frame : f = Head(outbound)
    BY <2>2
  <2>4. /\ f.kind # "snapshot" /\ f.sequence \in Nat
        /\ f.kind = "event" => f.sequence \in 1 .. latest
    BY <1>b, <2>2, <2>3, FramesTyped
  <2>5. /\ wire' \in Seq(Frame) /\ (\A i \in DOMAIN wire : i \in DOMAIN wire' /\ wire'[i] = wire[i])
        /\ \A i \in DOMAIN wire' : i \in DOMAIN wire \/ wire'[i] = f
    BY <1>a, <2>1, <2>3, AppendElements
  <2>6. Len(outbound') <= OutboundCapacity
    BY <1>a, <2>2, Bounds
  <2>7. TypeOK'
    BY <1>0, <2>1, <2>2, <2>3, <2>4, <2>5, <2>6 DEF TypeOK, client_vars
  <2>8. \A i \in DOMAIN outbound' : /\ outbound'[i].kind # "snapshot"
                                    /\ outbound'[i].kind = "event" => outbound'[i].sequence \in 1 .. latest
    BY <1>b, <2>2
  <2>9. \A i \in DOMAIN wire' : \/ i \in DOMAIN wire
                                \/ /\ wire'[i].kind # "snapshot"
                                   /\ wire'[i].kind = "event" => wire'[i].sequence \in 1 .. latest
    BY <2>4, <2>5
  <2>10. /\ conn' \in {"live", "closing", "closed"} /\ (\A i \in DOMAIN feed' : feed'[i] \in 1 .. latest)
         /\ conn \in {"live", "closing"} /\ UNCHANGED <<latest, resume, boundary, rows, client_vars>>
    BY <1>b, <2>1
  <2>11. QED
    BY <2>5, <2>7, <2>8, <2>9, <2>10, ServingKeeps
<1>5. CASE Close
  <2>1. /\ conn = "closing" /\ conn' = "closed" /\ outbound' = <<>>
        /\ wire' = Append(wire, CloseFrame(last_sent))
        /\ UNCHANGED <<latest, floor, publishing, untold, resume, boundary, rows, last_queued, feed,
                       lagged, last_sent, client_vars, pings, faults>>
    BY <1>5 DEF Close, server_vars, sync_vars, bound_vars
  <2>2. PICK f \in Frame : f = CloseFrame(last_sent) /\ f.kind = "close"
    BY <1>0, FramesTyped, FrameKinds DEF TypeOK
  <2>3. /\ wire' \in Seq(Frame) /\ (\A i \in DOMAIN wire : i \in DOMAIN wire' /\ wire'[i] = wire[i])
        /\ \A i \in DOMAIN wire' : i \in DOMAIN wire \/ wire'[i] = f
    BY <1>a, <2>1, <2>2, AppendElements
  <2>4. outbound' \in Seq(Frame) /\ Len(outbound') <= OutboundCapacity /\ DOMAIN outbound' = {}
    BY <2>1, Bounds
  <2>5. TypeOK'
    BY <1>0, <2>1, <2>3, <2>4 DEF TypeOK, Phases, client_vars
  <2>6. QED
    BY <1>b, <2>1, <2>2, <2>3, <2>4, <2>5, ServingKeeps
<1>6. QED
  BY <1>1, <1>2, <1>3, <1>4, <1>5

(* The client takes a frame: what is behind it was sent after any snapshot. *)
LEMMA ConsumeKeeps ==
  ASSUME StreamInv, wire # <<>>, Consume, UNCHANGED <<server_vars, bound_vars>>,
         cursor' \in Nat \/ (cursor' = cursor /\ Head(wire).kind # "snapshot"), Picture',
         shown' \in [1 .. Parts -> SUBSET (1 .. latest)], blank' \subseteq 1 .. Parts
  PROVE  StreamInv'
<1>0. TypeOK /\ EventsExist /\ SnapshotFirst /\ ReadsCover
  BY DEF StreamInv
<1>1. /\ wire \in Seq(Frame) /\ wire' = Tail(wire) /\ latest \in Nat
      /\ UNCHANGED <<latest, floor, publishing, untold, conn, resume, boundary, rows, last_queued, feed,
                     lagged, outbound, last_sent, pings, faults>>
  BY <1>0 DEF TypeOK, Consume, server_vars, sync_vars, queue_vars, bound_vars
<1>2. /\ wire' \in Seq(Frame) /\ 1 \in DOMAIN wire /\ Head(wire) = wire[1]
      /\ \A i \in DOMAIN wire' : i + 1 \in DOMAIN wire /\ wire'[i] = wire[i + 1]
      /\ \A i \in DOMAIN wire' : i \in Nat /\ i >= 1
  <2>1. /\ Tail(wire) \in Seq(Frame) /\ 1 \in DOMAIN wire /\ Head(wire) = wire[1]
        /\ \A i \in DOMAIN Tail(wire) : i + 1 \in DOMAIN wire /\ Tail(wire)[i] = wire[i + 1]
    BY <1>1, TailElements
  <2>2. \A i \in DOMAIN Tail(wire) : i \in Nat /\ i >= 1
    BY <2>1
  <2>3. QED
    BY <1>1, <2>1, <2>2
<1>3. cursor' \in Nat \cup {NoCursor} /\ (cursor' = NoCursor => cursor' = cursor /\ wire[1].kind # "snapshot")
  BY <1>0, <1>2, Bounds DEF TypeOK
<1>5. TypeOK'
  BY <1>0, <1>1, <1>2, <1>3 DEF TypeOK
<1>6. EventsExist'
  BY <1>0, <1>1, <1>2 DEF EventsExist
<1>7. conn \notin {"none", "hello", "snapshot"}
  BY <1>0 DEF SnapshotFirst
<1>8. \A i \in DOMAIN wire' : wire'[i].kind # "snapshot"
  <2> TAKE i \in DOMAIN wire'
  <2>1. i + 1 \in DOMAIN wire /\ wire'[i] = wire[i + 1] /\ i + 1 # 1
    BY <1>2
  <2>2. QED
    BY <1>0, <2>1 DEF SnapshotFirst
<1>9. SnapshotFirst'
  BY <1>0, <1>1, <1>3, <1>7, <1>8 DEF SnapshotFirst
<1>10. ReadsCover'
  BY <1>0, <1>1, <1>7 DEF ReadsCover
<1>11. QED
  BY <1>5, <1>6, <1>9, <1>10 DEF StreamInv

(* An event that is applied is the next one of each part, or shown there already. *)
LEMMA AppliedEvent ==
  ASSUME StreamInv, NEW e, wire # <<>>, Head(wire).kind = "event", e = Head(wire).sequence,
         cursor # NoCursor => e = cursor + 1, Apply(e), latest' = latest
  PROVE  /\ e \in 1 .. latest /\ Picture' /\ cursor' \in Nat
         /\ shown' \in [1 .. Parts -> SUBSET (1 .. latest)] /\ blank' = blank
         /\ \A p \in (1 .. Parts) \ blank : 1 .. (e - 1) \subseteq shown[p]
<1>0. TypeOK /\ Picture /\ EventsExist /\ SnapshotFirst
  BY DEF StreamInv
<1>1. /\ wire \in Seq(Frame) /\ latest \in Nat /\ cursor \in Nat \cup {NoCursor}
      /\ shown \in [1 .. Parts -> SUBSET (1 .. latest)]
  BY <1>0 DEF TypeOK
<1>2. 1 \in DOMAIN wire /\ Head(wire) = wire[1]
  BY <1>1, TailElements
<1>3. e \in 1 .. latest
  BY <1>0, <1>2 DEF EventsExist
<1>4. cursor # NoCursor
  BY <1>0, <1>2 DEF SnapshotFirst
<1>5. e \in Nat /\ cursor \in Nat /\ e = cursor + 1
  BY <1>1, <1>3, <1>4
<1>6. cursor' = e /\ blank' = blank /\ shown' = [p \in 1 .. Parts |-> shown[p] \cup {e}]
  BY DEF Apply
<1>7. ASSUME NEW p \in (1 .. Parts) \ blank
      PROVE  1 .. (e - 1) \subseteq shown[p] /\ ShowsPrefix(shown[p])'
  <2>1. PICK n \in 0 .. latest : shown[p] = 1 .. n /\ cursor <= n
    BY <1>0, <1>4, <1>7 DEF Picture, ShowsPrefix
  <2>2. n \in Nat /\ 1 .. (e - 1) \subseteq shown[p]
    BY <1>1, <1>5, <2>1
  <2>3. PICK m \in 0 .. latest : shown[p] \cup {e} = 1 .. m /\ e <= m
    <3>1. CASE cursor = n
      <4>1. shown[p] \cup {e} = 1 .. e
        BY <1>5, <2>1, <2>2, <3>1
      <4>2. QED
        BY <1>3, <1>5, <4>1
    <3>2. CASE cursor < n
      <4>1. shown[p] \cup {e} = 1 .. n /\ e <= n
        BY <1>5, <2>1, <2>2, <3>2
      <4>2. QED
        BY <2>1, <4>1
    <3>3. QED
      BY <1>5, <2>1, <2>2, <3>1, <3>2
  <2>4. shown'[p] = 1 .. m /\ cursor' <= m
    BY <1>6, <2>3
  <2>5. QED
    BY <2>2, <2>3, <2>4 DEF ShowsPrefix
<1>8. Picture'
  BY <1>6, <1>7 DEF Picture
<1>9. shown' \in [1 .. Parts -> SUBSET (1 .. latest)]
  BY <1>1, <1>3, <1>6
<1>10. QED
  BY <1>3, <1>5, <1>6, <1>7, <1>8, <1>9

(* A snapshot that is applied shows at least what was shown in the parts it has read. *)
LEMMA AppliedSnapshot ==
  ASSUME StreamInv, ReceiveSnapshot
  PROVE  /\ Picture' /\ cursor' \in Nat
         /\ shown' \in [1 .. Parts -> SUBSET (1 .. latest)] /\ blank' \subseteq 1 .. Parts
         /\ \E e \in [1 .. Parts -> 0 .. latest] :
              /\ shown' = [p \in 1 .. Parts |-> IF p \in blank' THEN {} ELSE 1 .. e[p]]
              /\ \A p \in (1 .. Parts) \ blank' : shown[p] \subseteq shown'[p]
<1>0. TypeOK /\ SnapshotFirst
  BY DEF StreamInv
<1>2. wire \in Seq(Frame) /\ latest \in Nat /\ wire # <<>> /\ Head(wire).kind = "snapshot"
  BY <1>0 DEF TypeOK, ReceiveSnapshot
<1>3. 1 \in DOMAIN wire /\ Head(wire) = wire[1] /\ wire[1] \in Frame
  BY <1>2, TailElements
<1>4. PICK r, b : r = wire[1].rows /\ b = wire[1].sequence
  OBVIOUS
<1>1. /\ latest' = latest /\ cursor' = b
      /\ blank' = {p \in 1 .. Parts : r[p] = Unread}
      /\ shown' = [p \in 1 .. Parts |-> IF r[p] = Unread THEN {} ELSE 1 .. r[p]]
  BY <1>3, <1>4 DEF ReceiveSnapshot, server_vars
<1>5. Covers(b, r) /\ Len(r) = Parts /\ b \in Nat /\ r \in Seq(Nat \cup {Unread})
  BY <1>0, <1>2, <1>3, <1>4, FramesTyped DEF SnapshotFirst
<1>6. \A p \in (1 .. Parts) \ blank' :
        r[p] \in 0 .. latest /\ b <= r[p] /\ shown[p] \subseteq 1 .. r[p] /\ shown'[p] = 1 .. r[p]
  <2>1. DOMAIN r = 1 .. Parts
    BY <1>5
  <2>2. QED
    BY <1>1, <1>5, <2>1 DEF Covers
<1>7. Picture'
  BY <1>1, <1>6 DEF Picture, ShowsPrefix
<1>8. shown' \in [1 .. Parts -> SUBSET (1 .. latest)]
  <2>1. \A p \in 1 .. Parts : (IF r[p] = Unread THEN {} ELSE 1 .. r[p]) \in SUBSET (1 .. latest)
    BY <1>1, <1>2, <1>6
  <2>2. QED
    BY <1>1, <2>1
<1>9. \E e \in [1 .. Parts -> 0 .. latest] :
        /\ shown' = [p \in 1 .. Parts |-> IF p \in blank' THEN {} ELSE 1 .. e[p]]
        /\ \A p \in (1 .. Parts) \ blank' : shown[p] \subseteq shown'[p]
  <2> DEFINE ends == [p \in 1 .. Parts |-> IF r[p] = Unread THEN 0 ELSE r[p]]
  <2>1. ends \in [1 .. Parts -> 0 .. latest]
    BY <1>1, <1>2, <1>6
  <2>2. shown' = [p \in 1 .. Parts |-> IF p \in blank' THEN {} ELSE 1 .. ends[p]]
    BY <1>1
  <2>3. \A p \in (1 .. Parts) \ blank' : shown[p] \subseteq shown'[p]
    BY <1>6
  <2> HIDE DEF ends
  <2>4. QED
    BY <2>1, <2>2, <2>3
<1>10. QED
  BY <1>1, <1>5, <1>7, <1>8, <1>9

(* The client's frames. *)
LEMMA ReceiveKeeps ==
  ASSUME StreamInv, ReceiveEvent \/ ReceiveSnapshot \/ ReceivePing \/ ReceiveClose
  PROVE  StreamInv'
<1>0. TypeOK /\ Picture
  BY DEF StreamInv
<1>1. wire # <<>> /\ UNCHANGED <<server_vars, bound_vars>>
  BY DEF ReceiveEvent, ReceiveSnapshot, ReceivePing, ReceiveClose
<1>2. latest \in Nat /\ latest' = latest /\ pings' \in Nat /\ faults' \in Nat
      /\ UNCHANGED <<floor, publishing, untold>>
  BY <1>0, <1>1 DEF TypeOK, server_vars, bound_vars
<1>3. CASE Hangup /\ UNCHANGED client_vars
  BY <1>1, <1>2, <1>3, HangupKeeps
<1>4. CASE Consume /\ UNCHANGED client_vars /\ Head(wire).kind # "snapshot"
  <2>1. Picture'
    BY <1>0, <1>2, <1>4, PictureStill
  <2>2. shown' \in [1 .. Parts -> SUBSET (1 .. latest)] /\ blank' \subseteq 1 .. Parts
    BY <1>0, <1>4 DEF TypeOK, client_vars
  <2>3. QED
    BY <1>1, <1>4, <2>1, <2>2, ConsumeKeeps DEF client_vars
<1>5. CASE ReceiveSnapshot
  BY <1>1, <1>5, AppliedSnapshot, ConsumeKeeps DEF ReceiveSnapshot
<1>6. ASSUME ReceiveEvent, NEW e, e = Head(wire).sequence, cursor # NoCursor => e = cursor + 1,
             Apply(e), Consume
      PROVE  StreamInv'
  <2>1. Head(wire).kind = "event"
    BY <1>6 DEF ReceiveEvent
  <2>2. /\ Picture' /\ cursor' \in Nat /\ blank' = blank
        /\ shown' \in [1 .. Parts -> SUBSET (1 .. latest)]
    BY <1>1, <1>2, <1>6, <2>1, AppliedEvent
  <2>3. QED
    BY <1>0, <1>1, <1>6, <2>2, ConsumeKeeps DEF TypeOK
<1>7. CASE ReceiveEvent
  <2>1. Head(wire).kind # "snapshot"
    BY <1>7 DEF ReceiveEvent
  <2>2. PICK e : e = Head(wire).sequence
    OBVIOUS
  <2>3. \/ Consume /\ UNCHANGED client_vars
        \/ (cursor # NoCursor => e = cursor + 1) /\ Apply(e) /\ Consume
        \/ Hangup /\ UNCHANGED client_vars
    BY <1>7, <2>2 DEF ReceiveEvent
  <2>4. QED
    BY <1>3, <1>4, <1>6, <1>7, <2>1, <2>2, <2>3
<1>8. QED
  BY <1>3, <1>4, <1>5, <1>7 DEF ReceiveEvent, ReceivePing, ReceiveClose

(* Every step keeps the invariant. *)
LEMMA StreamStep == ASSUME StreamInv, [Next]_vars PROVE StreamInv'
<1>1. CASE Drop
  <2>1. Hangup /\ publishing' \subseteq publishing /\ UNCHANGED <<latest, floor, untold, client_vars, pings>>
        /\ faults' = faults + 1
    BY <1>1 DEF Drop
  <2>2. pings' \in Nat /\ faults' \in Nat
    BY <2>1 DEF StreamInv, TypeOK
  <2>3. QED
    BY <2>1, <2>2, HangupKeeps
<1>2. CASE UNCHANGED vars
  BY <1>2 DEF vars, server_vars, sync_vars, queue_vars, client_vars, bound_vars, StreamInv, TypeOK, Picture,
              ShowsPrefix, EventsExist, SnapshotFirst, ReadsCover, Covers
<1>3. CASE ReplayFails /\ conn # "hello"
  <2>1. Hangup /\ UNCHANGED <<latest, floor, publishing, untold, client_vars, pings>> /\ faults' = faults + 1
    BY <1>3 DEF ReplayFails, server_vars
  <2>2. pings' \in Nat /\ faults' \in Nat
    BY <2>1 DEF StreamInv, TypeOK
  <2>3. QED
    BY <2>1, <2>2, HangupKeeps
<1>4. QED
  BY <1>1, <1>2, <1>3, PublishKeeps, SyncKeeps, ReplayKeeps, NextBatchKeeps, SendSnapshotKeeps, ServeKeeps,
     ReceiveKeeps DEF Next, ServerStep, ClientStep

(* A step of the stream is a step of the feed, or none. *)
LEMMA FeedStep == ASSUME StreamInv, [Next]_vars PROVE [FeedOf!FeedNext]_(FeedOf!feed_vars)
<1> USE DEF FeedOf!FeedNext, FeedOf!feed_vars
<1>1. CASE AppendEvent
  BY <1>1 DEF AppendEvent, client_vars, FeedOf!Happen
<1>2. CASE ReceiveSnapshot
  BY <1>2, AppliedSnapshot DEF ReceiveSnapshot, server_vars, FeedOf!Jump
<1>3. CASE ReceiveEvent
  <2>1. PICK e : e = Head(wire).sequence
    OBVIOUS
  <2>2. wire # <<>> /\ Head(wire).kind = "event" /\ latest' = latest
        /\ \/ UNCHANGED client_vars
           \/ (cursor # NoCursor => e = cursor + 1) /\ Apply(e)
    BY <1>3, <2>1 DEF ReceiveEvent, server_vars
  <2>3. CASE UNCHANGED client_vars
    BY <2>2, <2>3 DEF client_vars
  <2>4. CASE (cursor # NoCursor => e = cursor + 1) /\ Apply(e)
    <3>1. /\ e \in 1 .. latest /\ blank' = blank
          /\ \A p \in (1 .. Parts) \ blank : 1 .. (e - 1) \subseteq shown[p]
      BY <2>1, <2>2, <2>4, AppliedEvent
    <3>2. shown' = [p \in 1 .. Parts |-> shown[p] \cup {e}]
      BY <2>4 DEF Apply
    <3>3. QED
      BY <2>2, <3>1, <3>2 DEF FeedOf!Learn
  <2>5. QED
    BY <2>2, <2>3, <2>4
<1>4. CASE ~AppendEvent /\ ~ReceiveSnapshot /\ ~ReceiveEvent
  <2>1. UNCHANGED <<latest, shown, blank>>
    BY <1>4 DEF Next, ServerStep, ClientStep, Broadcast, Abandon, Prune, CheckWindow, ReplayBatch, NextBatch,
       ReplayFails, ReadBoundary, ReadRows, SendSnapshot, Forward, Lagged, Close, Connect, ReceivePing,
       ReceiveClose, Write, Heartbeat, Disconnect, Drop, vars, server_vars, client_vars
  <2>2. QED
    BY <2>1
<1>5. QED
  BY <1>1, <1>2, <1>3, <1>4

(* The invariant of the stream, in every state. *)
LEMMA StreamAlways == Spec => []StreamInv
<1>1. StreamInv /\ [Next]_vars => StreamInv'
  BY StreamStep
<1>2. QED
  BY StreamInit, <1>1, PTL DEF Spec

(* Every variable of the outbox, the connection and the client keeps its type, and no      *)
(* queue grows beyond its capacity.                                                        *)
THEOREM StreamTypesCorrect == Spec => []TypeOK
<1>1. StreamInv => TypeOK
  BY DEF StreamInv
<1>2. QED
  BY StreamAlways, <1>1, PTL

(* A client is never told of an event as seen that its picture does not show: everything  *)
(* up to its cursor is in each part that its last snapshot could read.                     *)
THEOREM NothingSkippedAlways == Spec => []NothingSkipped
<1>1. StreamInv => NothingSkipped
  <2> SUFFICES ASSUME StreamInv, cursor # NoCursor, NEW p \in (1 .. Parts) \ blank
               PROVE  1 .. cursor \subseteq shown[p]
    BY DEF NothingSkipped
  <2>1. PICK n \in 0 .. latest : shown[p] = 1 .. n /\ cursor <= n
    BY DEF StreamInv, Picture, ShowsPrefix
  <2>2. cursor \in Nat /\ latest \in Nat
    BY DEF StreamInv, TypeOK
  <2>3. QED
    BY <2>1, <2>2
<1>2. QED
  BY StreamAlways, <1>1, PTL

(* The event stream implements the feed: each part of the client's picture is always a     *)
(* prefix of the owner's events and grows by the next event or by a snapshot, unless the   *)
(* last snapshot could not read it, whatever the capacities, the size of a replayed batch  *)
(* and the number of parts.                                                                *)
THEOREM StreamImplementsFeed == Spec => FeedPromise
<1>1. Init => FeedOf!FeedInit
  BY DEF Init, FeedOf!FeedInit
<1>2. StreamInv /\ [Next]_vars => [FeedOf!FeedNext]_(FeedOf!feed_vars)
  BY FeedStep
<1>3. QED
  BY StreamAlways, <1>1, <1>2, PTL DEF Spec, FeedPromise, FeedOf!FeedSpec
=============================================================================
