---------------------------- MODULE ClientProofs ----------------------------
(***************************************************************************)
(* Theorems about the clients, and about the roster they show, for every   *)
(* number of sockets, events, commands, chats and groups.  Each part       *)
(* proves the inductive invariant of one component; the variables of the   *)
(* component are the slots of the composition, in the order of its         *)
(* INSTANCE.                                                               *)
(***************************************************************************)
EXTENDS MCOwnerSide, Sequences, SequenceTheorems, FiniteSetTheorems, TLAPS

-----------------------------------------------------------------------------
(* The Android client. Slots: v1 latest, v2 floor, v3 revoked, v4 paired, v5 clearing, *)
(* v6 runner, v7 awaited, v8 unwinding, v9 nudged, v10 socket, v11 conn, v12 processor, *)
(* v13 cursor, v14 projection, v15 state, v16 abandoned, v17 orders.                    *)

(* What an action needs of the types. *)
LEMMA AndroidTypes ==
  ASSUME N!TypeOK
  PROVE  /\ v1 \in Nat /\ v1 <= MaxAndroidEvents /\ v2 \in Nat /\ v2 <= v1
         /\ v3 \in BOOLEAN /\ v4 \in BOOLEAN /\ v5 \in BOOLEAN /\ v8 \in BOOLEAN
         /\ v9 \in BOOLEAN /\ v16 \in BOOLEAN
         /\ v7 \in AndroidSockets \cup {None} /\ v10 \in AndroidSockets \cup {None}
         /\ v11 \in [AndroidSockets -> N!Connection]
         /\ v12 \in [AndroidSockets -> N!Processor]
         /\ v13 \in Nat \cup {None} /\ (v13 # None => v13 <= v1)
BY OwnerAssumption DEF N!TypeOK

(* The sockets after a step that concerns one of them. *)
SocketFits(c, p) ==
  /\ c \in N!Connection /\ p \in N!Processor
  /\ c.sent <= v1 /\ Len(c.events) <= EventBuffer
  /\ \A i \in DOMAIN c.events : c.events[i].seq <= v1
  /\ p.seq <= v1 /\ p.next \subseteq 1..v1
  /\ c.ended # "no" => /\ c.phase \in {"closed", "down"} /\ c.events = <<>> /\ p.at # "idle"
                       /\ c.phase = "closed" => p.at = "done"

SocketsFit == \A s \in AndroidSockets : SocketFits(v11[s], v12[s])

LEMMA SocketsFitNow == N!AndroidInv => SocketsFit
BY AndroidTypes DEF N!AndroidInv, N!TypeOK, N!LoopKnows, SocketsFit, SocketFits

(* The types are kept when the sockets fit and the rest has its type. *)
LEMMA OneSocketSteps ==
  ASSUME N!AndroidInv, NEW s \in AndroidSockets, NEW c, NEW p, SocketFits(c, p),
         v11' = [v11 EXCEPT ![s] = c], v12' = [v12 EXCEPT ![s] = p], v1' = v1
  PROVE  /\ v11' \in [AndroidSockets -> N!Connection] /\ v12' \in [AndroidSockets -> N!Processor]
         /\ v11'[s] = c /\ v12'[s] = p
         /\ \A t \in AndroidSockets \ {s} : v11'[t] = v11[t] /\ v12'[t] = v12[t]
         /\ SocketsFit'
<1>1. v11 \in [AndroidSockets -> N!Connection] /\ v12 \in [AndroidSockets -> N!Processor]
  BY AndroidTypes DEF N!AndroidInv
<1>2. v11'[s] = c /\ v12'[s] = p
      /\ \A t \in AndroidSockets \ {s} : v11'[t] = v11[t] /\ v12'[t] = v12[t]
  BY <1>1
<1>3. v11' \in [AndroidSockets -> N!Connection] /\ v12' \in [AndroidSockets -> N!Processor]
  BY <1>1 DEF SocketFits
<1>4. ASSUME NEW t \in AndroidSockets PROVE SocketFits(v11[t], v12[t])'
  <2>1. SocketFits(v11[t], v12[t])
    BY SocketsFitNow DEF SocketsFit
  <2>2. CASE t = s
    BY <1>2, <2>2 DEF SocketFits
  <2>3. CASE t # s
    BY <1>2, <2>1, <2>3 DEF SocketFits
  <2>4. QED
    BY <2>2, <2>3
<1>5. QED
  BY <1>2, <1>3, <1>4 DEF SocketsFit

(* A step that leaves the sockets alone. *)
LEMMA SocketsStay ==
  ASSUME N!AndroidInv, v11' = v11, v12' = v12, v1' \in Nat, v1 <= v1'
  PROVE  /\ v11' \in [AndroidSockets -> N!Connection] /\ v12' \in [AndroidSockets -> N!Processor]
         /\ SocketsFit'
<1>1. v11 \in [AndroidSockets -> N!Connection] /\ v12 \in [AndroidSockets -> N!Processor]
      /\ v1 \in Nat
  BY AndroidTypes DEF N!AndroidInv
<1>2. ASSUME NEW t \in AndroidSockets PROVE SocketFits(v11[t], v12[t])'
  <2>1. SocketFits(v11[t], v12[t])
    BY SocketsFitNow DEF SocketsFit
  <2>2. v11[t].sent \in Nat /\ v12[t].seq \in Nat
        /\ \A i \in DOMAIN v11[t].events : v11[t].events[i].seq \in Nat
    <3>1. v11[t].sent \in Nat /\ v12[t].seq \in Nat /\ v11[t].events \in Seq(N!Frame)
      BY <1>1 DEF N!Connection, N!Processor
    <3>2. \A f \in N!Frame : f.seq \in Nat
      BY DEF N!Frame
    <3>3. QED
      BY <3>1, <3>2
  <2>3. QED
    BY <1>1, <2>1, <2>2 DEF SocketFits
<1>3. QED
  BY <1>1, <1>2 DEF SocketsFit

(* The invariant in the form the steps below establish it. *)
Scalars ==
  /\ v1 \in 0..MaxAndroidEvents /\ v2 \in 0..v1
  /\ {v3, v4, v5, v8, v9, v16} \subseteq BOOLEAN
  /\ v6 \in {"off", "loading", "negotiating", "awaiting", "backoff"}
  /\ {v7, v10} \subseteq AndroidSockets \cup {None}
  /\ v13 \in 0..v1 \cup {None}
  /\ v14 \subseteq 1..v1
  /\ v15 \in {"unpaired", "pairing", "connecting", "hydrating", "live",
              "reconnecting", "offline", "incompatible", "revoked"}
  /\ v17 \in 0..MaxAndroidOrders
  /\ v6 = "awaiting" <=> v7 # None
  /\ v15 = "pairing" => v6 \in {"off", "loading"}

Sound ==
  /\ Scalars
  /\ v11 \in [AndroidSockets -> N!Connection] /\ v12 \in [AndroidSockets -> N!Processor]
  /\ SocketsFit
  /\ N!AwaitedAlone /\ N!Synced

LEMMA SoundIsInv == Sound <=> N!AndroidInv
<1>1. Sound => N!AndroidInv
  BY DEF Sound, Scalars, SocketsFit, SocketFits, N!AndroidInv, N!TypeOK, N!LoopKnows
<1>2. N!AndroidInv => Sound
  BY SocketsFitNow DEF Sound, Scalars, N!AndroidInv, N!TypeOK, N!LoopKnows
<1>3. QED
  BY <1>1, <1>2

(* What the projection should hold is not disturbed by a step that leaves processors, *)
(* projection and cursor alone and wakes no other socket.                             *)
LEMMA StillSynced ==
  ASSUME N!Synced, v12' = v12, v13' = v13, v14' = v14, v16 => v16'
  PROVE  N!Synced'
BY DEF N!Synced, N!Upto

LEMMA StillAlone ==
  ASSUME N!AwaitedAlone, v11' = v11, v12' = v12, v7' = v7, v16 => v16'
  PROVE  N!AwaitedAlone'
BY DEF N!AwaitedAlone, N!Alive, N!Left, N!Working

(* The loop, the server, and the owner, who leave the sockets to themselves. *)
LEMMA LoopSteps ==
  ASSUME Sound,
         \/ N!Publish \/ N!Prune \/ N!RevokeDevice \/ N!LoadSession \/ N!NegotiationFails
         \/ N!Retry \/ N!Unwind \/ N!NudgedStart \/ N!Pair \/ N!RevokeCurrentDevice
         \/ N!ClearSession \/ UNCHANGED N!vars
  PROVE  Sound'
<1> USE DEF N!server, N!credentials, N!loop, N!shown, N!vars
<1>1. v11' = v11 /\ v12' = v12 /\ v13' = v13 /\ v14' = v14 /\ v16' = v16 /\ v7' = v7
  BY DEF N!Publish, N!Prune, N!RevokeDevice, N!LoadSession, N!NegotiationFails, N!Retry, N!Unwind,
         N!NudgedStart, N!Pair, N!RevokeCurrentDevice, N!ClearSession
<1>2. N!AwaitedAlone' /\ N!Synced'
  BY <1>1, StillSynced, StillAlone DEF Sound
<1>3. v1 \in Nat /\ v1' \in Nat /\ v1 <= v1'
  BY DEF Sound, Scalars, N!Publish, N!Prune, N!RevokeDevice, N!LoadSession, N!NegotiationFails,
         N!Retry, N!Unwind, N!NudgedStart, N!Pair, N!RevokeCurrentDevice, N!ClearSession
<1>4. v11' \in [AndroidSockets -> N!Connection] /\ v12' \in [AndroidSockets -> N!Processor]
      /\ SocketsFit'
  BY <1>1, <1>3, SocketsStay, SoundIsInv
<1>5. Scalars'
  <2> USE OwnerAssumption DEF Sound, Scalars
  <2>1. CASE N!Publish
    BY <2>1 DEF N!Publish
  <2>2. CASE N!Prune
    BY <2>2 DEF N!Prune
  <2>3. CASE N!RevokeDevice
    BY <2>3 DEF N!RevokeDevice
  <2>4. CASE N!LoadSession
    BY <2>4 DEF N!LoadSession
  <2>5. CASE N!NegotiationFails
    BY <2>5 DEF N!NegotiationFails
  <2>6. CASE N!Retry
    BY <2>6 DEF N!Retry
  <2>7. CASE N!Unwind
    BY <2>7 DEF N!Unwind
  <2>8. CASE N!NudgedStart
    BY <2>8 DEF N!NudgedStart
  <2>9. CASE N!Pair
    BY <2>9 DEF N!Pair
  <2>10. CASE N!RevokeCurrentDevice
    <3>1. /\ v3' = TRUE /\ v4' = FALSE /\ v15' = "revoked" /\ v17 < MaxAndroidOrders /\ v17' = v17 + 1
          /\ v1' = v1 /\ v2' = v2 /\ v5' = v5 /\ v6' = v6 /\ v7' = v7 /\ v8' = v8 /\ v9' = v9
          /\ v10' = v10 /\ v13' = v13 /\ v14' = v14 /\ v16' = v16
      BY <2>10 DEF N!RevokeCurrentDevice
    <3>2. v17' \in 0..MaxAndroidOrders
      BY <3>1
    <3>3. QED
      BY <3>1, <3>2
  <2>11. CASE N!ClearSession
    BY <2>11 DEF N!ClearSession
  <2>12. CASE UNCHANGED N!vars
    BY <2>12
  <2>13. QED
    BY <2>1, <2>2, <2>3, <2>4, <2>5, <2>6, <2>7, <2>8, <2>9, <2>10, <2>11, <2>12
<1>6. QED
  BY <1>2, <1>4, <1>5 DEF Sound

(* A new socket: nothing else is alive or has frames to apply. *)
LEMMA SocketOpens ==
  ASSUME Sound, NEW s \in AndroidSockets, N!NegotiationSupports(s)
  PROVE  Sound'
<1> DEFINE c == [v11[s] EXCEPT !.phase = "opening"]
<1>1. /\ v11' = [v11 EXCEPT ![s] = c] /\ v12' = [v12 EXCEPT ![s] = v12[s]]
      /\ v6 = "negotiating" /\ v6' = "awaiting" /\ v7' = s /\ v10' = s /\ v15' = "hydrating"
      /\ v11[s].phase = "unused"
      /\ UNCHANGED <<v1, v2, v3, v4, v5, v8, v9, v12, v13, v14, v16, v17>>
  BY DEF N!NegotiationSupports, N!server, N!credentials, Sound
<1>2. SocketFits(v11[s], v12[s]) /\ s # None
  BY OwnerAssumption DEF Sound, SocketsFit
<1>3. SocketFits(c, v12[s])
  <2>1. c \in N!Connection /\ c.phase = "opening" /\ c.sent = v11[s].sent
        /\ c.events = v11[s].events /\ c.ended = v11[s].ended
    BY <1>2 DEF SocketFits, N!Connection, N!Phases
  <2>2. v11[s].ended = "no"
    BY <1>1, <1>2 DEF SocketFits
  <2>3. QED
    BY <1>2, <2>1, <2>2 DEF SocketFits
<1> HIDE DEF c
<1>4. /\ v11' \in [AndroidSockets -> N!Connection] /\ v12' \in [AndroidSockets -> N!Processor]
      /\ \A t \in AndroidSockets \ {s} : v11'[t] = v11[t] /\ v12'[t] = v12[t]
      /\ SocketsFit'
  BY <1>1, <1>3, OneSocketSteps, SoundIsInv
<1>5. Scalars'
  BY <1>1, <1>2 DEF Sound, Scalars
<1>6. N!AwaitedAlone'
  <2>1. v7 = None
    BY <1>1 DEF Sound, Scalars
  <2>2. ASSUME ~v16, NEW t \in AndroidSockets \ {s} PROVE ~(N!Alive(t) \/ N!Left(t))'
    <3>1. ~(N!Alive(t) \/ N!Left(t))
      BY <2>1, <2>2, OwnerAssumption DEF Sound, N!AwaitedAlone
    <3>2. QED
      BY <1>4, <3>1 DEF N!Alive, N!Left, N!Working
  <2>3. QED
    BY <1>1, <2>2 DEF N!AwaitedAlone
<1>7. N!Synced'
  BY <1>1, StillSynced DEF Sound
<1>8. QED
  BY <1>4, <1>5, <1>6, <1>7 DEF Sound

(* The end of a socket: only a processor at work is left behind. *)
LEMMA LoopGoesOn ==
  ASSUME Sound, N!Disconnected
  PROVE  Sound'
<1>1. /\ v6 = "awaiting" /\ v7 \in AndroidSockets /\ v11[v7].ended # "no"
      /\ v10' = None /\ v7' = None
      /\ \/ v6' = "backoff" /\ v15' = "reconnecting"
         \/ v6' = "off" /\ v15' = v15
      /\ v16' = (v16 \/ N!Working(v7))
      /\ UNCHANGED <<v1, v2, v3, v4, v5, v8, v9, v11, v12, v13, v14, v17>>
  BY DEF N!Disconnected, N!server, N!credentials, Sound, Scalars
<1>2. Scalars'
  <2>1. v16' \in BOOLEAN
    BY <1>1
  <2>2. QED
    BY <1>1, <2>1 DEF Sound, Scalars
<1>3. N!AwaitedAlone'
  <2>1. SocketFits(v11[v7], v12[v7]) /\ v12[v7] \in N!Processor
    BY <1>1 DEF Sound, SocketsFit, SocketFits
  <2>2. ~N!Alive(v7) /\ (N!Left(v7) => N!Working(v7))
    BY <1>1, <2>1 DEF SocketFits, N!Alive, N!Left
  <2>3. v16 => v16'
    BY <1>1
  <2>4. ASSUME ~v16' PROVE \A t \in AndroidSockets : ~(N!Alive(t) \/ N!Left(t))
    BY <1>1, <2>2, <2>4 DEF Sound, N!AwaitedAlone
  <2>5. \A t \in AndroidSockets : (N!Alive(t)' <=> N!Alive(t)) /\ (N!Left(t)' <=> N!Left(t))
    BY <1>1 DEF N!Alive, N!Left, N!Working
  <2>6. QED
    BY <2>4, <2>5 DEF N!AwaitedAlone
<1>4. N!Synced'
  BY <1>1, StillSynced DEF Sound
<1>5. v11' \in [AndroidSockets -> N!Connection] /\ v12' \in [AndroidSockets -> N!Processor]
      /\ SocketsFit'
  BY <1>1, SocketsStay, SoundIsInv, AndroidTypes DEF N!AndroidInv
<1>6. QED
  BY <1>2, <1>3, <1>4, <1>5 DEF Sound

(* A loop that is cancelled leaves behind whatever is alive or has frames. *)
LEMMA LoopCancelled ==
  ASSUME Sound, N!NudgeReconnect \/ N!UpdateEndpoint
  PROVE  Sound'
<1>1. PICK told \in {"cancelled", "closing"} :
        /\ v11' = IF N!LiveSocket THEN [v11 EXCEPT ![v10].phase = told] ELSE v11
        /\ v8' = (v8 \/ v6 = "awaiting")
        /\ v16' = (v16 \/ \E s \in AndroidSockets : N!Alive(s) \/ N!Left(s))
        /\ v10' = None /\ v7' = None
        /\ v6' \in {"off", "loading"} /\ v17 < MaxAndroidOrders /\ v17' = v17 + 1
        /\ v9' \in {v9, TRUE}
        /\ UNCHANGED <<v1, v2, v3, v4, v5, v12, v13, v14, v15>>
  BY DEF N!NudgeReconnect, N!UpdateEndpoint, N!CancelLoop, N!server, N!credentials, N!shown
<1>2. Scalars'
  <2>1. v16' \in BOOLEAN /\ v8' \in BOOLEAN /\ v9' \in BOOLEAN
    BY <1>1 DEF Sound, Scalars
  <2>2. v17' \in 0..MaxAndroidOrders
    <3>1. v17 \in 0..MaxAndroidOrders /\ MaxAndroidOrders \in Nat
      BY OwnerAssumption DEF Sound, Scalars
    <3>2. QED
      BY <1>1, <3>1
  <2>3. QED
    BY <1>1, <2>1, <2>2 DEF Sound, Scalars
<1>3. v16 => v16'
  BY <1>1
<1>4. /\ v11' \in [AndroidSockets -> N!Connection] /\ v12' \in [AndroidSockets -> N!Processor]
      /\ SocketsFit'
  <2>1. CASE N!LiveSocket
    <3> DEFINE c == [v11[v10] EXCEPT !.phase = told]
    <3>1. v10 \in AndroidSockets /\ N!Alive(v10)
      BY <2>1 DEF N!LiveSocket, Sound, Scalars
    <3>2. SocketFits(v11[v10], v12[v10])
      BY <3>1 DEF Sound, SocketsFit
    <3>3. v11[v10].ended = "no"
      BY <3>1, <3>2 DEF SocketFits, N!Alive
    <3>4. c \in N!Connection /\ c.sent = v11[v10].sent
          /\ c.events = v11[v10].events /\ c.ended = v11[v10].ended
      BY <3>2 DEF SocketFits, N!Connection, N!Phases
    <3>5. SocketFits(c, v12[v10])
      BY <3>2, <3>3, <3>4 DEF SocketFits
    <3>6. v11' = [v11 EXCEPT ![v10] = c] /\ v12' = [v12 EXCEPT ![v10] = v12[v10]]
      BY <1>1, <2>1 DEF Sound
    <3> HIDE DEF c
    <3>7. QED
      BY <1>1, <3>1, <3>5, <3>6, OneSocketSteps, SoundIsInv
  <2>2. CASE ~N!LiveSocket
    BY <1>1, <2>2, SocketsStay, SoundIsInv, AndroidTypes DEF N!AndroidInv
  <2>3. QED
    BY <2>1, <2>2
<1>5. N!AwaitedAlone'
  <2>1. ASSUME ~v16' PROVE \A t \in AndroidSockets : ~(N!Alive(t) \/ N!Left(t))
    BY <1>1, <2>1
  <2>2. ASSUME ~v16' PROVE v11' = v11
    <3>1. ~N!LiveSocket
      BY <2>1, <2>2 DEF N!LiveSocket, Sound, Scalars
    <3>2. QED
      BY <1>1, <3>1
  <2>3. ASSUME ~v16', NEW t \in AndroidSockets PROVE ~(N!Alive(t)' \/ N!Left(t)')
    <3>1. v11' = v11 /\ v12' = v12 /\ ~(N!Alive(t) \/ N!Left(t))
      BY <1>1, <2>1, <2>2, <2>3
    <3>2. QED
      BY <3>1 DEF N!Alive, N!Left, N!Working
  <2>4. QED
    BY <2>3 DEF N!AwaitedAlone
<1>6. N!Synced'
  BY <1>1, <1>3, StillSynced DEF Sound
<1>7. QED
  BY <1>2, <1>4, <1>5, <1>6 DEF Sound

(* A pairing resets the projection while no loop awaits a socket. *)
LEMMA PairingEnds ==
  ASSUME Sound, N!PairAnswered
  PROVE  Sound'
<1>1. /\ v15 = "pairing" /\ v6 \in {"off", "loading"} /\ v6' \in {"off", "loading"}
      /\ v15' \in {"pairing", "offline"} /\ v4' \in BOOLEAN /\ v3' \in BOOLEAN
      /\ v16' \in BOOLEAN /\ (v16 => v16')
      /\ (v13' = v13 /\ v14' = v14) \/ (v13' = None /\ v14' = {})
      /\ UNCHANGED <<v1, v2, v5, v7, v8, v9, v10, v11, v12, v17>>
  <2>1. v15 = "pairing" /\ v6 \in {"off", "loading"} /\ v3 \in BOOLEAN /\ v4 \in BOOLEAN
        /\ v16 \in BOOLEAN
    BY DEF N!PairAnswered, Sound, Scalars
  <2>2. UNCHANGED <<v1, v2, v5, v7, v8, v9, v10, v11, v12, v17>>
    BY DEF N!PairAnswered, N!server
  <2>3. \/ /\ v4' = TRUE /\ v3' = FALSE /\ v13' = None /\ v14' = {}
           /\ v6' = (IF v6 = "off" THEN "loading" ELSE v6)
           /\ v16' = (v16 \/ \E s \in AndroidSockets : N!Left(s))
           /\ v15' = v15
        \/ /\ v15' = "offline"
           /\ UNCHANGED <<v4, v3, v13, v14, v6, v16>>
    BY DEF N!PairAnswered
  <2>4. QED
    BY <2>1, <2>2, <2>3
<1>2. Scalars'
  BY <1>1 DEF Sound, Scalars
<1>3. v11' \in [AndroidSockets -> N!Connection] /\ v12' \in [AndroidSockets -> N!Processor]
      /\ SocketsFit'
  BY <1>1, SocketsStay, SoundIsInv, AndroidTypes DEF N!AndroidInv
<1>4. N!AwaitedAlone'
  BY <1>1, StillAlone DEF Sound
<1>5. N!Synced'
  <2>1. CASE v13' = v13 /\ v14' = v14
    BY <1>1, <2>1, StillSynced DEF Sound
  <2>2. CASE v13' = None /\ v14' = {}
    <3>1. v7 = None
      BY <1>1 DEF Sound, Scalars
    <3>2. ASSUME ~v16', NEW s \in AndroidSockets PROVE ~N!Working(s)
      BY <1>1, <3>1, <3>2, OwnerAssumption DEF Sound, N!AwaitedAlone, N!Left
    <3>3. QED
      BY <1>1, <2>2, <3>2 DEF N!Synced, N!Upto, N!Working
  <2>3. QED
    BY <1>1, <2>1, <2>2 DEF N!PairAnswered
<1>6. QED
  BY <1>2, <1>3, <1>4, <1>5 DEF Sound

(* A socket that was alive or has frames stays the only one. *)
LEMMA OneStaysAlone ==
  ASSUME N!AwaitedAlone, NEW s \in AndroidSockets,
         v16' = v16, v7' = v7,
         \A t \in AndroidSockets \ {s} : v11'[t] = v11[t] /\ v12'[t] = v12[t],
         N!Alive(s)' \/ N!Left(s)' => N!Alive(s) \/ N!Left(s)
  PROVE  N!AwaitedAlone'
<1>1. \A t \in AndroidSockets \ {s} : (N!Alive(t)' <=> N!Alive(t)) /\ (N!Left(t)' <=> N!Left(t))
  BY DEF N!Alive, N!Left, N!Working
<1>2. QED
  BY <1>1 DEF N!AwaitedAlone

(* What a callback of the socket leaves of the projection. *)
LEMMA CallbackSynced ==
  ASSUME N!Synced, NEW s \in AndroidSockets, v16' = v16, v13' = v13, v14' = v14,
         \A t \in AndroidSockets \ {s} : v12'[t] = v12[t],
         \/ v12'[s] = v12[s]
         \/ v12[s].at \in {"idle", "done"} /\ v12'[s].at \in {"idle", "done"}
  PROVE  N!Synced'
BY DEF N!Synced, N!Upto

(* The frames as a queue. *)
LEMMA FrameQueue ==
  ASSUME NEW q \in Seq(N!Frame), NEW f \in N!Frame
  PROVE  /\ Append(q, f) \in Seq(N!Frame) /\ Len(Append(q, f)) = Len(q) + 1
         /\ \A i \in DOMAIN Append(q, f) : \/ Append(q, f)[i] = f
                                           \/ i \in DOMAIN q /\ Append(q, f)[i] = q[i]
         /\ <<f>> \in Seq(N!Frame) /\ Len(<<f>>) = 1 /\ \A i \in DOMAIN <<f>> : <<f>>[i] = f
         /\ <<>> \in Seq(N!Frame) /\ Len(<<>>) = 0
         /\ q # <<>> => /\ Head(q) \in N!Frame /\ Tail(q) \in Seq(N!Frame)
                        /\ 1 \in DOMAIN q /\ Head(q) = q[1] /\ Len(Tail(q)) <= Len(q)
                        /\ \A i \in DOMAIN Tail(q) : i + 1 \in DOMAIN q /\ Tail(q)[i] = q[i + 1]
<1>1. /\ Append(q, f) \in Seq(N!Frame) /\ Len(Append(q, f)) = Len(q) + 1
      /\ \A i \in 1..Len(q) : Append(q, f)[i] = q[i]
      /\ Append(q, f)[Len(q) + 1] = f
  OBVIOUS
<1>2. ASSUME NEW i \in DOMAIN Append(q, f)
      PROVE  Append(q, f)[i] = f \/ (i \in DOMAIN q /\ Append(q, f)[i] = q[i])
  <2>1. Len(q) \in Nat /\ DOMAIN q = 1..Len(q) /\ DOMAIN Append(q, f) = 1..(Len(q) + 1)
    BY <1>1
  <2>2. CASE i = Len(q) + 1
    BY <1>1, <2>2
  <2>3. CASE i # Len(q) + 1
    <3>1. i \in 1..Len(q)
      BY <1>2, <2>1, <2>3
    <3>2. QED
      BY <1>1, <2>1, <3>1
  <2>4. QED
    BY <2>2, <2>3
<1>3. <<f>> \in Seq(N!Frame) /\ Len(<<f>>) = 1 /\ \A i \in DOMAIN <<f>> : <<f>>[i] = f
  OBVIOUS
<1>4. <<>> \in Seq(N!Frame) /\ Len(<<>>) = 0
  OBVIOUS
<1>5. q # <<>> => /\ Head(q) \in N!Frame /\ Tail(q) \in Seq(N!Frame)
                  /\ 1 \in DOMAIN q /\ Head(q) = q[1] /\ Len(Tail(q)) <= Len(q)
                  /\ \A i \in DOMAIN Tail(q) : i + 1 \in DOMAIN q /\ Tail(q)[i] = q[i + 1]
  OBVIOUS
<1>6. QED
  BY <1>1, <1>2, <1>3, <1>4, <1>5

(* A channel that is cancelled, and a socket that is told to close with it. *)
LEMMA CancelledFields ==
  ASSUME NEW c \in N!Connection
  PROVE  /\ N!Cancelled(c) \in N!Connection
         /\ N!Cancelled(c).phase = c.phase /\ N!Cancelled(c).sent = c.sent
         /\ N!Cancelled(c).events = <<>> /\ N!Cancelled(c).ended = c.ended
         /\ N!Cancelled(c).open = FALSE
         /\ N!Rejected(c) \in N!Connection
         /\ N!Rejected(c).phase = (IF c.phase = "open" THEN "closing" ELSE c.phase)
         /\ N!Rejected(c).sent = c.sent /\ N!Rejected(c).events = <<>>
         /\ N!Rejected(c).ended = c.ended
<1>1. <<>> \in Seq(N!Frame)
  OBVIOUS
<1>2. /\ N!Cancelled(c) \in N!Connection
      /\ N!Cancelled(c).phase = c.phase /\ N!Cancelled(c).sent = c.sent
      /\ N!Cancelled(c).events = <<>> /\ N!Cancelled(c).ended = c.ended
      /\ N!Cancelled(c).open = FALSE
  BY <1>1 DEF N!Cancelled, N!Connection
<1> DEFINE x == IF c.phase = "open" THEN "closing" ELSE c.phase
<1>3. x \in N!Phases /\ N!Rejected(c) = [N!Cancelled(c) EXCEPT !.phase = x]
  BY <1>2 DEF N!Rejected, N!Connection, N!Phases
<1> HIDE DEF x
<1>4. /\ N!Rejected(c) \in N!Connection /\ N!Rejected(c).phase = x
      /\ N!Rejected(c).sent = c.sent /\ N!Rejected(c).events = <<>>
      /\ N!Rejected(c).ended = c.ended
  BY <1>2, <1>3 DEF N!Connection
<1>5. QED
  BY <1>2, <1>4 DEF x

(* The frames that the actions make. *)
LEMMA FramesMade ==
  ASSUME NEW n \in Nat
  PROVE  /\ N!HelloFrame \in N!Frame /\ N!HelloFrame.seq = 0
         /\ N!SnapshotFrame(n) \in N!Frame /\ N!SnapshotFrame(n).seq = n
         /\ N!EventFrame(n) \in N!Frame /\ N!EventFrame(n).seq = n
BY DEF N!HelloFrame, N!SnapshotFrame, N!EventFrame, N!Frame

(* onOpen: the first frame is a hello or a snapshot. *)
LEMMA SocketOpened ==
  ASSUME Sound, NEW s \in AndroidSockets, N!OnOpen(s)
  PROVE  Sound'
<1>1. PICK first \in [frame : N!Frame, at : Nat] :
        /\ v11' = [v11 EXCEPT ![s].phase = "open", ![s].sent = first.at,
                              ![s].events = <<first.frame>>]
        /\ first.at <= v1 /\ first.frame.seq <= v1
  <2> DEFINE pick == IF v13 # None /\ v13 >= v2 THEN [frame |-> N!HelloFrame, at |-> v13]
                     ELSE [frame |-> N!SnapshotFrame(v1), at |-> v1]
  <2>1. v1 \in Nat /\ v13 \in Nat \cup {None} /\ (v13 # None => v13 <= v1)
    BY AndroidTypes, SoundIsInv DEF N!AndroidInv
  <2>2. pick \in [frame : N!Frame, at : Nat] /\ pick.at <= v1 /\ pick.frame.seq <= v1
    <3>1. CASE v13 # None /\ v13 >= v2
      <4>1. pick = [frame |-> N!HelloFrame, at |-> v13]
        BY <3>1
      <4>2. N!HelloFrame \in N!Frame /\ N!HelloFrame.seq = 0
        BY FramesMade
      <4>3. QED
        BY <2>1, <3>1, <4>1, <4>2
    <3>2. CASE ~(v13 # None /\ v13 >= v2)
      <4>1. pick = [frame |-> N!SnapshotFrame(v1), at |-> v1]
        BY <3>2
      <4>2. N!SnapshotFrame(v1) \in N!Frame /\ N!SnapshotFrame(v1).seq = v1
        BY <2>1, FramesMade
      <4>3. QED
        BY <2>1, <4>1, <4>2
    <3>3. QED
      BY <3>1, <3>2
  <2>3. v11' = [v11 EXCEPT ![s].phase = "open", ![s].sent = pick.at,
                           ![s].events = <<pick.frame>>]
    BY DEF N!OnOpen
  <2> HIDE DEF pick
  <2>4. QED
    BY <2>2, <2>3
<1>2. /\ v11[s].phase = "opening" /\ v12' = v12
      /\ UNCHANGED <<v1, v2, v3, v4, v5, v6, v7, v8, v9, v10, v12, v13, v14, v15, v16, v17>>
  BY DEF N!OnOpen, N!server, N!credentials, N!loop, N!shown
<1> DEFINE c == [v11[s] EXCEPT !.phase = "open", !.sent = first.at, !.events = <<first.frame>>]
<1>3. SocketFits(v11[s], v12[s]) /\ v11[s] \in N!Connection /\ v11 \in [AndroidSockets -> N!Connection]
  BY DEF Sound, SocketsFit, SocketFits
<1>4. v11' = [v11 EXCEPT ![s] = c] /\ v12' = [v12 EXCEPT ![s] = v12[s]]
  BY <1>1, <1>2, <1>3 DEF Sound
<1>5. SocketFits(c, v12[s]) /\ c.phase = "open"
  <2>1. <<first.frame>> \in Seq(N!Frame) /\ Len(<<first.frame>>) = 1
        /\ \A i \in DOMAIN <<first.frame>> : <<first.frame>>[i] = first.frame
    BY <1>1
  <2>2. c \in N!Connection /\ c.phase = "open" /\ c.sent = first.at /\ c.events = <<first.frame>>
        /\ c.ended = v11[s].ended
    BY <1>1, <1>3, <2>1 DEF N!Connection, N!Phases
  <2> HIDE DEF c
  <2>3. v11[s].ended = "no"
    BY <1>2, <1>3 DEF SocketFits
  <2>4. Len(c.events) <= EventBuffer
    BY <2>1, <2>2, OwnerAssumption
  <2>5. \A i \in DOMAIN c.events : c.events[i].seq <= v1
    BY <1>1, <2>1, <2>2
  <2>6. QED
    BY <1>1, <1>3, <2>2, <2>3, <2>4, <2>5 DEF SocketFits
<1> HIDE DEF c
<1>6. /\ v11' \in [AndroidSockets -> N!Connection] /\ v12' \in [AndroidSockets -> N!Processor]
      /\ \A t \in AndroidSockets \ {s} : v11'[t] = v11[t] /\ v12'[t] = v12[t]
      /\ SocketsFit'
  BY <1>2, <1>4, <1>5, OneSocketSteps, SoundIsInv
<1>7. Scalars'
  BY <1>2 DEF Sound, Scalars
<1>8. N!AwaitedAlone'
  <2>1. N!Alive(s)
    BY <1>2 DEF N!Alive
  <2>2. QED
    BY <1>2, <1>6, <2>1, OneStaysAlone DEF Sound
<1>9. N!Synced'
  BY <1>2, StillSynced DEF Sound
<1>10. QED
  BY <1>6, <1>7, <1>8, <1>9 DEF Sound

(* A step of one socket that leaves the loop and the projection alone. *)
LEMMA SocketStepKeeps ==
  ASSUME Sound, NEW s \in AndroidSockets, NEW c, NEW p, SocketFits(c, p),
         v11' = [v11 EXCEPT ![s] = c], v12' = [v12 EXCEPT ![s] = p], Scalars',
         v1' = v1, v7' = v7, v13' = v13, v14' = v14, v16' = v16,
         \/ N!Alive(s) \/ N!Left(s)
         \/ /\ c.phase \notin {"opening", "open", "closing"} /\ c.events = <<>>
            /\ p.at \notin {"read", "written"},
         p = v12[s] \/ (v12[s].at \in {"idle", "done"} /\ p.at \in {"idle", "done"})
  PROVE  Sound'
<1>1. /\ v11' \in [AndroidSockets -> N!Connection] /\ v12' \in [AndroidSockets -> N!Processor]
      /\ v11'[s] = c /\ v12'[s] = p
      /\ \A t \in AndroidSockets \ {s} : v11'[t] = v11[t] /\ v12'[t] = v12[t]
      /\ SocketsFit'
  BY OneSocketSteps, SoundIsInv
<1>2. N!Alive(s)' \/ N!Left(s)' => N!Alive(s) \/ N!Left(s)
  BY <1>1 DEF N!Alive, N!Left, N!Working
<1>3. N!AwaitedAlone'
  BY <1>1, <1>2, OneStaysAlone DEF Sound
<1>4. N!Synced'
  BY <1>1, CallbackSynced DEF Sound
<1>5. QED
  BY <1>1, <1>3, <1>4 DEF Sound

(* What a socket that is alive is. *)
LEMMA AliveSocket ==
  ASSUME Sound, NEW s \in AndroidSockets
  PROVE  /\ SocketFits(v11[s], v12[s]) /\ v11[s] \in N!Connection /\ v12[s] \in N!Processor
         /\ v11[s].events \in Seq(N!Frame) /\ v11[s].sent \in Nat
         /\ v1 \in Nat /\ v11 \in [AndroidSockets -> N!Connection]
         /\ v12 \in [AndroidSockets -> N!Processor]
         /\ v11[s].phase \notin {"closed", "down"} => v11[s].ended = "no"
<1>1. SocketFits(v11[s], v12[s]) /\ v1 \in Nat /\ v11 \in [AndroidSockets -> N!Connection]
      /\ v12 \in [AndroidSockets -> N!Processor]
  BY AndroidTypes, SoundIsInv DEF Sound, SocketsFit, N!AndroidInv
<1>2. QED
  BY <1>1 DEF SocketFits, N!Connection

(* A processor whose channel is cancelled. *)
LEMMA EndsFits ==
  ASSUME NEW s \in AndroidSockets, v12[s] \in N!Processor
  PROVE  /\ N!Ends(s) \in N!Processor /\ N!Ends(s).at # "idle"
         /\ N!Ends(s) = v12[s] \/ (v12[s].at = "idle" /\ N!Ends(s) = N!Stopped)
         /\ N!Stopped \in N!Processor /\ N!Stopped.at = "done" /\ N!Stopped.seq = 0
         /\ N!Stopped.next = {}
         /\ N!Idle \in N!Processor /\ N!Idle.at = "idle" /\ N!Idle.seq = 0 /\ N!Idle.next = {}
BY DEF N!Ends, N!Stopped, N!Idle, N!Processor

(* onMessage: a frame is queued, or the socket is told to close. *)
LEMMA MessageArrives ==
  ASSUME Sound, NEW s \in AndroidSockets, N!OnMessage(s)
  PROVE  Sound'
<1>1. /\ v11[s].phase \in {"open", "closing"} /\ v11[s].sent < v1
      /\ UNCHANGED <<v1, v2, v3, v4, v5, v6, v7, v8, v9, v10, v13, v14, v15, v16, v17>>
  BY DEF N!OnMessage, N!server, N!credentials, N!loop, N!shown
<1>2. SocketFits(v11[s], v12[s]) /\ v11[s] \in N!Connection /\ v12[s] \in N!Processor
      /\ v11[s].events \in Seq(N!Frame) /\ v11[s].sent \in Nat
      /\ v1 \in Nat /\ v11 \in [AndroidSockets -> N!Connection]
      /\ v12 \in [AndroidSockets -> N!Processor] /\ v11[s].ended = "no"
  BY <1>1, AliveSocket
<1>3. N!Alive(s) /\ Scalars'
  BY <1>1 DEF N!Alive, Sound, Scalars
<1>4. CASE /\ v11[s].open /\ Len(v11[s].events) < EventBuffer
           /\ v11' = [v11 EXCEPT ![s].sent = @ + 1,
                                 ![s].events = Append(@, N!EventFrame(v11[s].sent + 1))]
           /\ v12' = v12
  <2> DEFINE n == v11[s].sent + 1
             q == Append(v11[s].events, N!EventFrame(n))
             c == [v11[s] EXCEPT !.sent = n, !.events = q]
  <2>1. v11' = [v11 EXCEPT ![s] = c] /\ v12' = [v12 EXCEPT ![s] = v12[s]]
    BY <1>2, <1>4
  <2>2. n \in Nat /\ n <= v1 /\ N!EventFrame(n) \in N!Frame /\ N!EventFrame(n).seq = n
    BY <1>1, <1>2, FramesMade
  <2> HIDE DEF n
  <2>3. q \in Seq(N!Frame) /\ Len(q) = Len(v11[s].events) + 1
        /\ \A i \in DOMAIN q : \/ q[i] = N!EventFrame(n)
                               \/ i \in DOMAIN v11[s].events /\ q[i] = v11[s].events[i]
    BY <1>2, <2>2, FrameQueue
  <2> HIDE DEF q
  <2>4. c \in N!Connection /\ c.phase = v11[s].phase /\ c.sent = n /\ c.events = q
        /\ c.ended = v11[s].ended
    BY <1>2, <2>2, <2>3 DEF N!Connection
  <2> HIDE DEF c
  <2>5. \A i \in DOMAIN q : q[i].seq <= v1
    BY <1>2, <2>2, <2>3 DEF SocketFits
  <2>6. Len(q) <= EventBuffer
    BY <1>2, <1>4, <2>3, OwnerAssumption
  <2>7. SocketFits(c, v12[s])
    BY <1>2, <2>2, <2>4, <2>5, <2>6 DEF SocketFits
  <2>8. QED
    BY <1>1, <1>3, <2>1, <2>7, SocketStepKeeps
<1>5. CASE /\ v11' = [v11 EXCEPT ![s] = N!Rejected([@ EXCEPT !.sent = v11[s].sent + 1])]
           /\ v12' = [v12 EXCEPT ![s] = N!Ends(s)]
  <2> DEFINE n == v11[s].sent + 1
             d == [v11[s] EXCEPT !.sent = n]
             c == N!Rejected(d)
  <2>1. v11' = [v11 EXCEPT ![s] = c]
    BY <1>2, <1>5
  <2>9. n \in Nat /\ n <= v1
    BY <1>1, <1>2
  <2> HIDE DEF n
  <2>2. d \in N!Connection /\ d.phase = v11[s].phase /\ d.sent = n /\ d.ended = v11[s].ended
    BY <1>2, <2>9 DEF N!Connection
  <2> HIDE DEF d
  <2>3. c \in N!Connection /\ c.sent = d.sent /\ c.events = <<>> /\ c.ended = d.ended
    BY <2>2, CancelledFields
  <2> HIDE DEF c
  <2>4. N!Ends(s) \in N!Processor
        /\ (N!Ends(s) = v12[s] \/ (v12[s].at = "idle" /\ N!Ends(s).at = "done"
                                   /\ N!Ends(s).seq = 0 /\ N!Ends(s).next = {}))
    BY <1>2, EndsFits
  <2>5. c.sent <= v1 /\ Len(c.events) <= EventBuffer /\ DOMAIN c.events = {}
    BY <2>9, <2>2, <2>3, OwnerAssumption
  <2>6. SocketFits(c, N!Ends(s))
    BY <1>2, <2>2, <2>3, <2>4, <2>5 DEF SocketFits
  <2>7. QED
    BY <1>1, <1>3, <1>5, <2>1, <2>4, <2>6, SocketStepKeeps
<1>6. QED
  BY <1>4, <1>5 DEF N!OnMessage

(* onClosed: the queued frames are still applied. *)
LEMMA SocketCloses ==
  ASSUME Sound, NEW s \in AndroidSockets, N!OnClosed(s)
  PROVE  Sound'
<1>1. /\ v11[s].phase \in {"open", "closing"} /\ v12' = v12
      /\ v11' = [v11 EXCEPT ![s].phase = "closed", ![s].open = FALSE]
      /\ UNCHANGED <<v1, v2, v3, v4, v5, v6, v7, v8, v9, v10, v13, v14, v15, v16, v17>>
  BY DEF N!OnClosed, N!server, N!credentials, N!loop, N!shown
<1>2. SocketFits(v11[s], v12[s]) /\ v11[s] \in N!Connection
      /\ v11 \in [AndroidSockets -> N!Connection]
      /\ v12 \in [AndroidSockets -> N!Processor] /\ v11[s].ended = "no"
  BY <1>1, AliveSocket
<1>3. N!Alive(s) /\ Scalars'
  BY <1>1 DEF N!Alive, Sound, Scalars
<1> DEFINE c == [v11[s] EXCEPT !.phase = "closed", !.open = FALSE]
<1>4. v11' = [v11 EXCEPT ![s] = c] /\ v12' = [v12 EXCEPT ![s] = v12[s]]
  BY <1>1, <1>2
<1>5. c \in N!Connection /\ c.phase = "closed" /\ c.sent = v11[s].sent
      /\ c.events = v11[s].events /\ c.ended = v11[s].ended
  BY <1>2 DEF N!Connection, N!Phases
<1> HIDE DEF c
<1>6. SocketFits(c, v12[s])
  BY <1>2, <1>5 DEF SocketFits
<1>7. QED
  BY <1>1, <1>3, <1>4, <1>6, SocketStepKeeps

(* processor.join(): nothing of the socket is left. *)
LEMMA ProcessorJoined ==
  ASSUME Sound, NEW s \in AndroidSockets, N!JoinProcessor(s)
  PROVE  Sound'
<1>1. /\ v11[s].phase = "closed" /\ v12[s].at \in {"idle", "done"} /\ v11[s].events = <<>>
      /\ v11' = [v11 EXCEPT ![s].ended = "retry"]
      /\ v12' = [v12 EXCEPT ![s] = N!Stopped]
      /\ UNCHANGED <<v1, v2, v3, v4, v5, v6, v7, v8, v9, v10, v13, v14, v15, v16, v17>>
  BY DEF N!JoinProcessor, N!server, N!credentials, N!loop, N!shown
<1>2. SocketFits(v11[s], v12[s]) /\ v11[s] \in N!Connection /\ v12[s] \in N!Processor
      /\ v11 \in [AndroidSockets -> N!Connection]
  BY AliveSocket
<1>3. Scalars'
  BY <1>1 DEF Sound, Scalars
<1> DEFINE c == [v11[s] EXCEPT !.ended = "retry"]
<1>4. v11' = [v11 EXCEPT ![s] = c]
  BY <1>1, <1>2
<1>5. c \in N!Connection /\ c.phase = "closed" /\ c.sent = v11[s].sent /\ c.events = <<>>
  BY <1>1, <1>2 DEF N!Connection
<1> HIDE DEF c
<1>6. N!Stopped \in N!Processor /\ N!Stopped.at = "done" /\ N!Stopped.seq = 0
      /\ N!Stopped.next = {}
  BY <1>2, EndsFits
<1>7. SocketFits(c, N!Stopped)
  <2>1. v1 \in Nat /\ Len(c.events) <= EventBuffer /\ DOMAIN c.events = {}
    BY <1>5, AliveSocket, OwnerAssumption
  <2>2. QED
    BY <1>2, <1>5, <1>6, <2>1 DEF SocketFits
<1>8. QED
  BY <1>1, <1>3, <1>4, <1>5, <1>6, <1>7, SocketStepKeeps

(* onFailure: only a processor at work goes on. *)
LEMMA SocketFails ==
  ASSUME Sound, NEW s \in AndroidSockets, N!OnFailure(s)
  PROVE  Sound'
<1>1. PICK e \in {"retry", "revoked"} :
        v11' = [v11 EXCEPT ![s] = [N!Cancelled(@) EXCEPT !.phase = "down", !.ended = e]]
  <2>1. \E refused \in BOOLEAN :
          v11' = [v11 EXCEPT ![s] = [N!Cancelled(@) EXCEPT
                    !.phase = "down", !.ended = IF refused THEN "revoked" ELSE "retry"]]
    BY Zenon DEF N!OnFailure
  <2>2. QED
    BY <2>1
<1>2. /\ v11[s].phase \in {"opening", "open", "closing", "cancelled"}
      /\ v12' = [v12 EXCEPT ![s] = N!Ends(s)]
      /\ v5' \in {v5, TRUE} /\ v15' \in {v15, "revoked"}
      /\ UNCHANGED <<v1, v2, v3, v4, v6, v7, v8, v9, v10, v13, v14, v16, v17>>
  BY DEF N!OnFailure, N!server, N!loop, Sound, Scalars
<1>3. SocketFits(v11[s], v12[s]) /\ v11[s] \in N!Connection /\ v12[s] \in N!Processor
      /\ v11 \in [AndroidSockets -> N!Connection] /\ v1 \in Nat
      /\ v12 \in [AndroidSockets -> N!Processor]
  BY AliveSocket
<1>4. Scalars'
  BY <1>2 DEF Sound, Scalars
<1> DEFINE d == N!Cancelled(v11[s])
           c == [d EXCEPT !.phase = "down", !.ended = e]
<1>5. v11' = [v11 EXCEPT ![s] = c]
  BY <1>1, <1>3
<1>6. d \in N!Connection /\ d.sent = v11[s].sent /\ d.events = <<>>
  BY <1>3, CancelledFields
<1> HIDE DEF d
<1>7. c \in N!Connection /\ c.phase = "down" /\ c.sent = v11[s].sent /\ c.events = <<>>
  BY <1>6 DEF N!Connection, N!Phases
<1> HIDE DEF c
<1>8. N!Ends(s) \in N!Processor /\ N!Ends(s).at # "idle"
      /\ (N!Ends(s) = v12[s] \/ (v12[s].at = "idle" /\ N!Ends(s).at = "done"
                                 /\ N!Ends(s).seq = 0 /\ N!Ends(s).next = {}))
  BY <1>3, EndsFits
<1>9. SocketFits(c, N!Ends(s))
  <2>1. Len(c.events) <= EventBuffer /\ DOMAIN c.events = {}
    BY <1>7, OwnerAssumption
  <2>2. QED
    BY <1>3, <1>7, <1>8, <2>1 DEF SocketFits
<1>10. N!Ends(s).at \in {"read", "written"} => N!Left(s)
  BY <1>8 DEF N!Left, N!Working
<1>11. QED
  BY <1>2, <1>4, <1>5, <1>7, <1>8, <1>9, <1>10, SocketStepKeeps

(* What the processor of a socket that is left finds, when nothing was left behind. *)
LEMMA AloneAtWork ==
  ASSUME Sound, ~v16, NEW s \in AndroidSockets, N!Alive(s) \/ N!Left(s)
  PROVE  /\ \A t \in AndroidSockets \ {s} : ~N!Alive(t) /\ ~N!Left(t) /\ ~N!Working(t)
         /\ v12[s].at = "read" => v12[s].next = 1..v12[s].seq
         /\ v12[s].at = "written" => v14 = 1..v12[s].seq
         /\ v12[s].at # "written" => v14 = N!Upto(v13)
<1>1. \A t \in AndroidSockets : N!Alive(t) \/ N!Left(t) => t = v7
  BY DEF Sound, N!AwaitedAlone
<1>2. \A t \in AndroidSockets \ {s} : ~N!Alive(t) /\ ~N!Left(t)
  BY <1>1
<1>3. \A t \in AndroidSockets \ {s} : ~N!Working(t)
  BY <1>2 DEF N!Left
<1>4. /\ (\A t \in AndroidSockets : v12[t].at # "written") => v14 = N!Upto(v13)
      /\ v12[s].at = "read" => v12[s].next = 1..v12[s].seq
      /\ v12[s].at = "written" => v14 = 1..v12[s].seq
  BY DEF Sound, N!Synced
<1>5. QED
  BY <1>2, <1>3, <1>4 DEF N!Working

(* The processor takes a frame: what it is about to write is what the frame's number *)
(* stands for.                                                                        *)
LEMMA FrameTaken ==
  ASSUME Sound, NEW s \in AndroidSockets, N!Take(s)
  PROVE  Sound'
<1>1. /\ v12[s].at = "idle" /\ v11[s].events # <<>>
      /\ UNCHANGED <<v1, v2, v3, v4, v5, v6, v7, v8, v9, v10, v13, v14, v16, v17>>
      /\ v15' \in {v15, "live"}
  BY DEF N!Take, N!server, N!credentials, N!loop
<1>2. SocketFits(v11[s], v12[s]) /\ v11[s] \in N!Connection /\ v12[s] \in N!Processor
      /\ v11[s].events \in Seq(N!Frame) /\ v1 \in Nat
      /\ v11 \in [AndroidSockets -> N!Connection]
      /\ v12 \in [AndroidSockets -> N!Processor]
  BY AliveSocket
<1> DEFINE f == Head(v11[s].events)
           c == [v11[s] EXCEPT !.events = Tail(v11[s].events)]
<1>3. N!Left(s)
  BY <1>1 DEF N!Left
<1>4. Scalars'
  BY <1>1 DEF Sound, Scalars
<1>5. f \in N!Frame /\ f.seq \in Nat /\ f.seq <= v1
  <2>1. f \in N!Frame /\ 1 \in DOMAIN v11[s].events /\ f = v11[s].events[1]
    BY <1>1, <1>2, FrameQueue
  <2>2. QED
    BY <1>2, <2>1 DEF SocketFits, N!Frame
<1>6. v11[s].ended = "no" /\ (v16 \/ N!Upto(v13) = v14)
  <2>1. v11[s].ended = "no"
    BY <1>1, <1>2 DEF SocketFits
  <2>2. QED
    BY <1>1, <1>3, <2>1, AloneAtWork DEF Sound, Scalars
<1>7. c \in N!Connection /\ c.phase = v11[s].phase /\ c.sent = v11[s].sent
      /\ c.ended = "no" /\ Len(c.events) <= EventBuffer
      /\ \A i \in DOMAIN c.events : c.events[i].seq <= v1
  <2> DEFINE q == v11[s].events
             r == Tail(q)
  <2>1. r \in Seq(N!Frame) /\ Len(r) <= Len(q)
        /\ \A i \in DOMAIN r : i + 1 \in DOMAIN q /\ r[i] = q[i + 1]
    BY <1>1, <1>2, FrameQueue
  <2>2. Len(q) <= EventBuffer /\ \A i \in DOMAIN q : q[i].seq <= v1
    BY <1>2 DEF SocketFits
  <2>3. Len(q) \in Nat /\ Len(r) \in Nat
    BY <1>2, <2>1
  <2>4. \A i \in DOMAIN r : r[i].seq <= v1
    BY <2>1, <2>2
  <2>5. c = [v11[s] EXCEPT !.events = r]
    OBVIOUS
  <2> HIDE DEF q, r, c
  <2>6. c \in N!Connection /\ c.phase = v11[s].phase /\ c.sent = v11[s].sent
        /\ c.ended = v11[s].ended /\ c.events = r
    BY <1>2, <2>1, <2>5 DEF N!Connection
  <2>7. QED
    BY <1>6, <2>1, <2>2, <2>3, <2>4, <2>6, OwnerAssumption
<1>8. \/ v11' = [v11 EXCEPT ![s] = c] /\ v12' = v12
      \/ /\ v11' = [v11 EXCEPT ![s] = c]
         /\ v12' = [v12 EXCEPT ![s] = [at |-> "read", seq |-> f.seq, next |-> 1..f.seq]]
      \/ /\ N!Applicable(f.seq) /\ v11' = [v11 EXCEPT ![s] = c]
         /\ v12' = [v12 EXCEPT ![s] = [at |-> "read", seq |-> f.seq, next |-> v14 \cup {f.seq}]]
      \/ /\ v11' = [v11 EXCEPT ![s] = N!Rejected(v11[s])]
         /\ v12' = [v12 EXCEPT ![s] = N!Stopped]
  <2>1. [v11 EXCEPT ![s].events = Tail(@)] = [v11 EXCEPT ![s] = c]
    BY <1>2
  <2>2. [v11 EXCEPT ![s] = N!Rejected(@)] = [v11 EXCEPT ![s] = N!Rejected(v11[s])]
    BY <1>2
  <2> HIDE DEF c
  <2>3. QED
    BY <2>1, <2>2 DEF N!Take
<1> HIDE DEF c
<1>9. CASE v11' = [v11 EXCEPT ![s] = c] /\ v12' = v12
  <2>1. SocketFits(c, v12[s]) /\ v12' = [v12 EXCEPT ![s] = v12[s]]
    BY <1>2, <1>7, <1>9 DEF SocketFits
  <2>2. QED
    BY <1>1, <1>3, <1>4, <1>9, <2>1, SocketStepKeeps
<1>10. ASSUME NEW next \in SUBSET (1..v1),
              v11' = [v11 EXCEPT ![s] = c],
              v12' = [v12 EXCEPT ![s] = [at |-> "read", seq |-> f.seq, next |-> next]],
              ~v16 => next = 1..f.seq
       PROVE  Sound'
  <2> DEFINE p == [at |-> "read", seq |-> f.seq, next |-> next]
  <2>1. p \in N!Processor /\ p.at = "read" /\ p.seq = f.seq /\ p.next = next
    <3>1. next \in SUBSET Nat
      BY <1>2, <1>10
    <3>2. QED
      BY <1>5, <3>1 DEF N!Processor
  <2>2. v12' = [v12 EXCEPT ![s] = p]
    BY <1>10
  <2> HIDE DEF p, f
  <2>3. SocketFits(c, p)
    <3>1. c.sent <= v1
      BY <1>2, <1>7 DEF SocketFits
    <3>2. p.next \subseteq 1..v1 /\ p.seq <= v1
      BY <1>5, <1>10, <2>1 DEF f
    <3>3. QED
      BY <1>7, <2>1, <3>1, <3>2 DEF SocketFits
  <2>4. /\ v11' \in [AndroidSockets -> N!Connection] /\ v12' \in [AndroidSockets -> N!Processor]
        /\ v11'[s] = c /\ v12'[s] = p
        /\ \A t \in AndroidSockets \ {s} : v11'[t] = v11[t] /\ v12'[t] = v12[t]
        /\ SocketsFit'
    BY <1>1, <1>10, <2>2, <2>3, OneSocketSteps, SoundIsInv
  <2>5. N!AwaitedAlone'
    BY <1>1, <1>3, <2>4, OneStaysAlone DEF Sound
  <2>6. N!Synced'
    <3>1. ASSUME ~v16
          PROVE  /\ v14 = N!Upto(v13) /\ \A t \in AndroidSockets \ {s} : ~N!Working(t)
                 /\ p.next = 1..p.seq
      BY <1>1, <1>3, <1>10, <2>1, <3>1, AloneAtWork
    <3>2. v13' = v13 /\ v14' = v14 /\ v16' = v16
      BY <1>1
    <3>3. QED
      BY <2>1, <2>4, <3>1, <3>2 DEF N!Synced, N!Working, N!Upto
  <2>7. QED
    BY <1>4, <2>4, <2>5, <2>6 DEF Sound
<1>11. CASE /\ v11' = [v11 EXCEPT ![s] = c]
            /\ v12' = [v12 EXCEPT ![s] = [at |-> "read", seq |-> f.seq, next |-> 1..f.seq]]
  <2>1. 1..f.seq \in SUBSET (1..v1)
    BY <1>2, <1>5
  <2>2. QED
    BY <1>10, <1>11, <2>1
<1>12. CASE /\ N!Applicable(f.seq) /\ v11' = [v11 EXCEPT ![s] = c]
            /\ v12' = [v12 EXCEPT ![s] = [at |-> "read", seq |-> f.seq, next |-> v14 \cup {f.seq}]]
  <2>1. v13 # None /\ v13 \in Nat /\ f.seq = v13 + 1 /\ v14 \subseteq 1..v1
    BY <1>12 DEF N!Applicable, Sound, Scalars
  <2>2. v14 \cup {f.seq} \in SUBSET (1..v1)
    <3>1. f.seq \in 1..v1
      BY <1>2, <1>5, <2>1
    <3>2. QED
      BY <2>1, <3>1
  <2>3. ASSUME ~v16 PROVE v14 \cup {f.seq} = 1..f.seq
    <3>1. v14 = 1..v13
      BY <1>6, <2>1, <2>3 DEF N!Upto
    <3>2. QED
      BY <2>1, <3>1
  <2> HIDE DEF f
  <2>4. QED
    BY <1>10, <1>12, <2>2, <2>3
<1>13. CASE /\ v11' = [v11 EXCEPT ![s] = N!Rejected(v11[s])]
            /\ v12' = [v12 EXCEPT ![s] = N!Stopped]
  <2> DEFINE r == N!Rejected(v11[s])
  <2>1. r \in N!Connection /\ r.sent = v11[s].sent /\ r.events = <<>> /\ r.ended = "no"
    BY <1>2, <1>6, CancelledFields
  <2>2. v11' = [v11 EXCEPT ![s] = r]
    BY <1>13
  <2> HIDE DEF r
  <2>3. N!Stopped \in N!Processor /\ N!Stopped.at = "done" /\ N!Stopped.seq = 0
        /\ N!Stopped.next = {}
    BY <1>2, EndsFits
  <2>4. SocketFits(r, N!Stopped)
    <3>1. Len(r.events) <= EventBuffer /\ DOMAIN r.events = {}
      BY <2>1, OwnerAssumption
    <3>2. QED
      BY <1>2, <2>1, <2>3, <3>1 DEF SocketFits
  <2>5. QED
    BY <1>1, <1>3, <1>4, <1>13, <2>2, <2>3, <2>4, SocketStepKeeps
<1>14. QED
  BY <1>8, <1>9, <1>11, <1>12, <1>13

(* The projection is written: it is what the number of the event stands for. *)
LEMMA ProjectionWritten ==
  ASSUME Sound, NEW s \in AndroidSockets, N!WriteProjection(s)
  PROVE  Sound'
<1>1. /\ v12[s].at = "read" /\ v11' = v11 /\ v14' = v12[s].next
      /\ v12' = [v12 EXCEPT ![s].at = "written"]
      /\ UNCHANGED <<v1, v2, v3, v4, v5, v6, v7, v8, v9, v10, v13, v15, v16, v17>>
  BY DEF N!WriteProjection, N!server, N!credentials, N!loop
<1>2. SocketFits(v11[s], v12[s]) /\ v12[s] \in N!Processor /\ v11 \in [AndroidSockets -> N!Connection]
      /\ v12 \in [AndroidSockets -> N!Processor]
  BY AliveSocket
<1> DEFINE p == [v12[s] EXCEPT !.at = "written"]
<1>3. v12' = [v12 EXCEPT ![s] = p] /\ v11' = [v11 EXCEPT ![s] = v11[s]]
  BY <1>1, <1>2
<1>4. p \in N!Processor /\ p.at = "written" /\ p.seq = v12[s].seq /\ p.next = v12[s].next
  BY <1>2 DEF N!Processor
<1> HIDE DEF p
<1>5. SocketFits(v11[s], p)
  BY <1>1, <1>2, <1>4 DEF SocketFits
<1>6. /\ v11' \in [AndroidSockets -> N!Connection] /\ v12' \in [AndroidSockets -> N!Processor]
      /\ v11'[s] = v11[s] /\ v12'[s] = p
      /\ \A t \in AndroidSockets \ {s} : v11'[t] = v11[t] /\ v12'[t] = v12[t]
      /\ SocketsFit'
  BY <1>1, <1>3, <1>5, OneSocketSteps, SoundIsInv
<1>7. N!Left(s)
  BY <1>1 DEF N!Left, N!Working
<1>8. N!AwaitedAlone'
  BY <1>1, <1>6, <1>7, OneStaysAlone DEF Sound
<1>9. N!Synced'
  <2>1. ASSUME ~v16
        PROVE  /\ \A t \in AndroidSockets \ {s} : ~N!Working(t)
               /\ v14' = 1..p.seq
    BY <1>1, <1>4, <1>7, <2>1, AloneAtWork
  <2>2. v16' = v16
    BY <1>1
  <2>3. QED
    BY <1>4, <1>6, <2>1, <2>2 DEF N!Synced, N!Working
<1>10. Scalars'
  <2>1. v14' \subseteq 1..v1
    BY <1>1, <1>2 DEF SocketFits
  <2>2. QED
    BY <1>1, <2>1 DEF Sound, Scalars
<1>11. QED
  BY <1>6, <1>8, <1>9, <1>10 DEF Sound

(* The cursor follows: it names what the projection holds. *)
LEMMA CursorWritten ==
  ASSUME Sound, NEW s \in AndroidSockets, N!WriteCursor(s)
  PROVE  Sound'
<1>1. PICK p \in {N!Stopped, N!Idle} :
        /\ v12' = [v12 EXCEPT ![s] = p]
        /\ v11[s].phase = "down" => p = N!Stopped
  BY DEF N!WriteCursor
<1>2. /\ v12[s].at = "written" /\ v11' = v11 /\ v13' = v12[s].seq /\ v15' = "live"
      /\ UNCHANGED <<v1, v2, v3, v4, v5, v6, v7, v8, v9, v10, v14, v16, v17>>
  BY DEF N!WriteCursor, N!server, N!credentials, N!loop
<1>3. SocketFits(v11[s], v12[s]) /\ v12[s] \in N!Processor /\ v11 \in [AndroidSockets -> N!Connection]
      /\ v12 \in [AndroidSockets -> N!Processor] /\ v1 \in Nat
  BY AliveSocket
<1>4. p \in N!Processor /\ p.at \in {"idle", "done"} /\ p.seq = 0 /\ p.next = {}
      /\ (v11[s].phase = "down" => p.at = "done")
  BY <1>1, <1>3, EndsFits
<1>5. v11' = [v11 EXCEPT ![s] = v11[s]]
  BY <1>2, <1>3
<1>6. SocketFits(v11[s], p)
  BY <1>2, <1>3, <1>4 DEF SocketFits
<1>7. /\ v11' \in [AndroidSockets -> N!Connection] /\ v12' \in [AndroidSockets -> N!Processor]
      /\ v11'[s] = v11[s] /\ v12'[s] = p
      /\ \A t \in AndroidSockets \ {s} : v11'[t] = v11[t] /\ v12'[t] = v12[t]
      /\ SocketsFit'
  BY <1>1, <1>2, <1>5, <1>6, OneSocketSteps, SoundIsInv
<1>8. N!Left(s)
  BY <1>2 DEF N!Left, N!Working
<1>9. N!AwaitedAlone'
  BY <1>2, <1>7, <1>8, OneStaysAlone DEF Sound
<1>10. v13' \in Nat /\ v13' <= v1 /\ v13' # None
  BY <1>2, <1>3, OwnerAssumption DEF SocketFits, N!Processor
<1>11. N!Synced'
  <2>1. ASSUME ~v16
        PROVE  /\ \A t \in AndroidSockets \ {s} : ~N!Working(t)
               /\ v14 = 1..v12[s].seq
    BY <1>2, <1>8, <2>1, AloneAtWork
  <2>2. ~v16 => v14' = N!Upto(v13')
    BY <1>2, <1>10, <2>1 DEF N!Upto
  <2>3. v16' = v16
    BY <1>2
  <2>4. QED
    BY <1>4, <1>7, <2>1, <2>2, <2>3 DEF N!Synced, N!Working, N!Upto
<1>12. Scalars'
  BY <1>2, <1>3, <1>10 DEF Sound, Scalars
<1>13. QED
  BY <1>7, <1>9, <1>11, <1>12 DEF Sound

LEMMA AndroidInit == N!Init => N!AndroidInv
<1> SUFFICES ASSUME N!Init PROVE N!AndroidInv
  OBVIOUS
<1>1. /\ v1 = 0 /\ v2 = 0 /\ v3 = FALSE /\ v4 \in BOOLEAN /\ v5 = FALSE /\ v6 = "loading"
      /\ v7 = None /\ v8 = FALSE /\ v9 = FALSE /\ v10 = None
      /\ v11 = [s \in AndroidSockets |-> N!Unused] /\ v12 = [s \in AndroidSockets |-> N!Idle]
      /\ v13 = None /\ v14 = {} /\ v15 = "unpaired" /\ v16 = FALSE /\ v17 = 0
  BY DEF N!Init
<1>2. Scalars
  <2>1. v1 \in 0..MaxAndroidEvents /\ v2 \in 0..v1 /\ v17 \in 0..MaxAndroidOrders
    BY <1>1, OwnerAssumption
  <2>2. v14 \subseteq 1..v1 /\ {v3, v4, v5, v8, v9, v16} \subseteq BOOLEAN
    BY <1>1
  <2>3. QED
    BY <1>1, <2>1, <2>2 DEF Scalars
<1>3. N!Unused \in N!Connection /\ N!Unused.phase = "unused" /\ N!Unused.sent = 0
      /\ N!Unused.events = <<>> /\ N!Unused.ended = "no"
  BY DEF N!Unused, N!Connection, N!Phases
<1>4. N!Idle \in N!Processor /\ N!Idle.at = "idle" /\ N!Idle.seq = 0 /\ N!Idle.next = {}
  BY DEF N!Idle, N!Processor
<1>5. v11 \in [AndroidSockets -> N!Connection] /\ v12 \in [AndroidSockets -> N!Processor]
      /\ \A s \in AndroidSockets : v11[s] = N!Unused /\ v12[s] = N!Idle
  BY <1>1, <1>3, <1>4
<1>6. SocketsFit
  <2>1. SocketFits(N!Unused, N!Idle)
    BY <1>1, <1>3, <1>4, OwnerAssumption DEF SocketFits
  <2>2. QED
    BY <1>5, <2>1 DEF SocketsFit
<1>7. N!AwaitedAlone
  BY <1>3, <1>4, <1>5 DEF N!AwaitedAlone, N!Alive, N!Left, N!Working
<1>8. N!Synced
  BY <1>1, <1>4, <1>5 DEF N!Synced, N!Upto
<1>9. QED
  BY <1>2, <1>5, <1>6, <1>7, <1>8, SoundIsInv DEF Sound

LEMMA AndroidStep == N!AndroidInv /\ [N!Next]_(N!vars) => N!AndroidInv'
<1> SUFFICES ASSUME Sound, [N!Next]_(N!vars) PROVE Sound'
  BY SoundIsInv, PTL
<1>1. CASE \/ N!Publish \/ N!Prune \/ N!RevokeDevice \/ N!LoadSession \/ N!NegotiationFails
           \/ N!Retry \/ N!Unwind \/ N!NudgedStart \/ N!Pair \/ N!RevokeCurrentDevice
           \/ N!ClearSession \/ UNCHANGED N!vars
  BY <1>1, LoopSteps
<1>2. CASE N!Disconnected
  BY <1>2, LoopGoesOn
<1>3. CASE N!NudgeReconnect \/ N!UpdateEndpoint
  BY <1>3, LoopCancelled
<1>4. CASE N!PairAnswered
  BY <1>4, PairingEnds
<1>5. CASE \E s \in AndroidSockets :
             \/ N!NegotiationSupports(s) \/ N!OnOpen(s) \/ N!OnMessage(s) \/ N!OnClosed(s)
             \/ N!JoinProcessor(s) \/ N!OnFailure(s)
             \/ N!Take(s) \/ N!WriteProjection(s) \/ N!WriteCursor(s)
  <2>1. PICK s \in AndroidSockets :
             \/ N!NegotiationSupports(s) \/ N!OnOpen(s) \/ N!OnMessage(s) \/ N!OnClosed(s)
             \/ N!JoinProcessor(s) \/ N!OnFailure(s)
             \/ N!Take(s) \/ N!WriteProjection(s) \/ N!WriteCursor(s)
    BY <1>5
  <2>2. QED
    BY <2>1, SocketOpens, SocketOpened, MessageArrives, SocketCloses, ProcessorJoined, SocketFails,
       FrameTaken, ProjectionWritten, CursorWritten
<1>6. QED
  BY <1>1, <1>2, <1>3, <1>4, <1>5 DEF N!Next

(* AndroidInv of the composition. *)
AndroidInvHere == component = "android" => N!AndroidInv

LEMMA AndroidInvHolds == OwnerSpec => []AndroidInvHere
<1>1. OwnerInit => AndroidInvHere
  BY AndroidInit DEF OwnerInit, AndroidInvHere
<1>2. AndroidInvHere /\ [OwnerNext]_all => AndroidInvHere'
  <2> SUFFICES ASSUME AndroidInvHere, [OwnerNext]_all, component' = "android"
               PROVE  N!AndroidInv'
    BY DEF AndroidInvHere
  <2>1. component = "android" /\ [N!Next]_(N!vars)
    BY DEF OwnerNext, all, N!vars, N!server, N!credentials, N!loop, N!shown
  <2>2. QED
    BY <2>1, AndroidStep DEF AndroidInvHere
<1>3. QED
  BY <1>1, <1>2, PTL DEF OwnerSpec

(* The projection that the Android cursor stands for holds every event up to the     *)
(* cursor and no other, for any number of sockets, events and orders and any buffer, *)
(* as long as no processor was left running (HomeBotClient.kt, EventListener and     *)
(* handleEvent).                                                                     *)
THEOREM ProjectionAtCursorAlways == OwnerSpec => []ProjectionAtCursor
<1>1. AndroidInvHere => ProjectionAtCursor
  BY DEF AndroidInvHere, ProjectionAtCursor, N!AndroidInv, N!ProjectionAtCursor, N!Synced, N!Upto,
         N!Working
<1>2. QED
  BY <1>1, AndroidInvHolds, PTL

-----------------------------------------------------------------------------
(* The desktop's commands. Slots: v1 kind, v2 channel, v3 pending, v4 link, v5 current, *)
(* v6 at, v7 outcome, v8 secrets, v9 plugins, v10 connected, v11 lost, v12 drops.        *)

(* Consecutive numbers after b. *)
Run(q, b) == q \in Seq(Nat) /\ \A i \in DOMAIN q : q[i] = b + i

LEMMA RunHead ==
  ASSUME NEW b \in Nat, NEW q, Run(q, b), q # <<>>
  PROVE  /\ Head(q) = b + 1 /\ 1 \in DOMAIN q /\ Len(q) \in Nat \ {0}
         /\ Run(Tail(q), b + 1) /\ Len(Tail(q)) = Len(q) - 1
         /\ \A i \in DOMAIN Tail(q) : i + 1 \in DOMAIN q
<1>1. q \in Seq(Nat) /\ Len(q) \in Nat \ {0} /\ DOMAIN q = 1..Len(q) /\ Head(q) = q[1]
  BY DEF Run
<1>2. Tail(q) \in Seq(Nat) /\ Len(Tail(q)) = Len(q) - 1
      /\ \A i \in 1..Len(Tail(q)) : Tail(q)[i] = q[i + 1]
  BY <1>1
<1>3. DOMAIN Tail(q) = 1..(Len(q) - 1)
  BY <1>2
<1>4. ASSUME NEW i \in DOMAIN Tail(q) PROVE i + 1 \in DOMAIN q /\ Tail(q)[i] = (b + 1) + i
  <2>1. i \in 1..(Len(q) - 1) /\ i + 1 \in 1..Len(q)
    BY <1>1, <1>3
  <2>2. Tail(q)[i] = q[i + 1] /\ q[i + 1] = b + (i + 1)
    BY <1>1, <1>2, <2>1 DEF Run
  <2>3. QED
    BY <1>1, <2>1, <2>2
<1>5. QED
  BY <1>1, <1>2, <1>4 DEF Run

LEMMA RunAppend ==
  ASSUME NEW b \in Nat, NEW q, Run(q, b), NEW n \in Nat, n = b + Len(q) + 1
  PROVE  Run(Append(q, n), b) /\ Len(Append(q, n)) = Len(q) + 1
         /\ \A i \in DOMAIN Append(q, n) : i \in DOMAIN q \/ i = Len(q) + 1
<1>1. q \in Seq(Nat) /\ Len(q) \in Nat /\ DOMAIN q = 1..Len(q)
  BY DEF Run
<1>2. Append(q, n) \in Seq(Nat) /\ Len(Append(q, n)) = Len(q) + 1
      /\ (\A i \in 1..Len(q) : Append(q, n)[i] = q[i]) /\ Append(q, n)[Len(q) + 1] = n
  BY <1>1
<1>3. DOMAIN Append(q, n) = 1..(Len(q) + 1)
  BY <1>2
<1>4. ASSUME NEW i \in DOMAIN Append(q, n)
      PROVE  Append(q, n)[i] = b + i /\ (i \in DOMAIN q \/ i = Len(q) + 1)
  <2>1. CASE i = Len(q) + 1
    BY <1>2, <2>1
  <2>2. CASE i # Len(q) + 1
    <3>1. i \in 1..Len(q)
      BY <1>1, <1>3, <2>2
    <3>2. QED
      BY <1>1, <1>2, <3>1 DEF Run
  <2>3. QED
    BY <2>1, <2>2
<1>5. QED
  BY <1>2, <1>4 DEF Run

(* The secret of a setup is stored right before its plugin is created. *)
LEMMA SecretBeforePlugin ==
  ASSUME NEW k \in C!CommandNames
  PROVE  /\ Len(C!Chain(k)) \in 1..4 /\ 1 <= Len(C!Chain(k))
         /\ \A i \in 1..Len(C!Chain(k)) :
              C!Chain(k)[i] = "secret" => i < Len(C!Chain(k)) /\ C!Chain(k)[i + 1] = "plugin"
<1> DEFINE Fine(q) == /\ Len(q) \in 1..4
                      /\ \A i \in 1..Len(q) : q[i] = "secret" => i < Len(q) /\ q[i + 1] = "plugin"
<1>1. Fine(<<"post">>) /\ Fine(<<"get">>) /\ Fine(<<"create_chat", "post">>)
      /\ Fine(<<"create", "put", "finalize">>) /\ Fine(<<"plugin">>)
      /\ Fine(<<"revoke">>) /\ Fine(<<"revoke", "authorize">>)
  OBVIOUS
<1>2. Fine(<<"plugin", "connect">>) /\ Fine(<<"secret", "plugin", "connect">>)
      /\ Fine(<<"secret", "plugin", "connect", "authorize">>)
  OBVIOUS
<1>3. /\ Fine(<<>> \o <<"plugin", "connect">>)
      /\ Fine(<<"secret">> \o <<"plugin", "connect">>)
  OBVIOUS
<1>4. C!Chain(k) \in {<<"post">>, <<"get">>, <<"create_chat", "post">>, <<"create", "put", "finalize">>,
                      <<"plugin">>, <<"revoke">>, <<"revoke", "authorize">>,
                      <<>> \o <<"plugin", "connect">>, <<"secret">> \o <<"plugin", "connect">>,
                      <<"secret", "plugin", "connect">>,
                      <<"secret", "plugin", "connect", "authorize">>}
  BY DEF C!CommandNames, C!Chain, C!Bot, C!Group, C!Workspace, C!Vcs, C!Routine, C!Recording,
     C!Device, C!Load, C!Timeline, C!Upload, C!RemoteMcp, C!MemoryProvider, C!Composio,
     C!RevokeComposio
<1> HIDE DEF Fine
<1>5. Fine(C!Chain(k))
  BY <1>1, <1>2, <1>3, <1>4
<1>6. QED
  BY <1>5 DEF Fine

(* What the invariant says of the line, in the terms above. *)
LEMMA LineTypes ==
  ASSUME C!CommandsInv
  PROVE  /\ Len(v7) \in Nat /\ v5 \in Nat /\ v6 \in Nat /\ Len(v1) \in Nat
         /\ Len(v2) \in Nat /\ Len(v3) \in Nat /\ DOMAIN v1 = 1..Len(v1) /\ DOMAIN v7 = 1..Len(v7)
         /\ v1 \in Seq(AskedKinds) /\ v2 \in Seq(Nat) /\ v3 \in Seq(Nat)
         /\ v7 \in Seq([n : Nat, ok : BOOLEAN])
BY DEF C!CommandsInv, C!Forms

LEMMA LineNow ==
  ASSUME C!CommandsInv
  PROVE  /\ C!Begun \in Nat /\ C!Begun <= Len(v1)
         /\ v5 = 0 => C!Begun = Len(v7)
         /\ v5 # 0 => /\ v5 = Len(v7) + 1 /\ v5 = C!Begun /\ v4 = "up"
                      /\ v5 \in 1..Len(v1) /\ v5 \in 1..C!Begun /\ v5 \notin DOMAIN v7
<1>1. Len(v7) \in Nat /\ v5 \in Nat /\ Len(v1) \in Nat /\ DOMAIN v7 = 1..Len(v7)
  BY LineTypes
<1>2. (v5 = 0 => C!Begun = Len(v7)) /\ (v5 # 0 => C!Begun = Len(v7) + 1)
  BY DEF C!Begun
<1>3. (v5 # 0 => v5 = C!Begun /\ v4 = "up") /\ C!Begun <= Len(v1)
  BY DEF C!CommandsInv, C!InLine
<1>4. QED
  BY <1>1, <1>2, <1>3

LEMMA LineRuns ==
  ASSUME C!CommandsInv, v4 # "stopped"
  PROVE  /\ Run(v3, C!Begun) /\ Run(v2, C!Begun + Len(v3))
         /\ Len(v1) = C!Begun + Len(v3) + Len(v2)
         /\ \A i \in DOMAIN v3 : v1[C!Begun + i] # "shutdown"
BY LineTypes DEF C!CommandsInv, C!InLine, Run

LEMMA OutcomesNow ==
  ASSUME C!CommandsInv, NEW i \in DOMAIN v7
  PROVE  v7[i].n = i /\ v7[i].ok \in BOOLEAN
<1>1. v7 \in Seq([n : Nat, ok : BOOLEAN])
  BY LineTypes
<1>2. v7[i] \in [n : Nat, ok : BOOLEAN]
  BY <1>1, ElementOfSeq, LineTypes
<1>3. QED
  BY <1>2 DEF C!CommandsInv, C!InLine, C!AnsweredInOrder

(* A step that ends or goes on with the command under way keeps the earlier outcomes. *)
LEMMA OthersKept ==
  ASSUME C!CommandsInv, v8' \ {v5} \subseteq v8, v9 \subseteq v9', v11 \subseteq v11', v5 # 0
  PROVE  \A i \in DOMAIN v7 :
            /\ v7[i].n = i /\ i # v5
            /\ ~v7[i].ok /\ i \in v8' \ v11' => i \in v9'
<1>1. ASSUME NEW i \in DOMAIN v7 PROVE v7[i].n = i /\ i # v5
  BY <1>1, LineNow, OutcomesNow
<1>2. QED
  BY <1>1 DEF C!CommandsInv, C!FailedSetupKeepsNoSecret

(* The step goes on. *)
LEMMA CommandGoesOn ==
  ASSUME C!CommandsInv, v5 # 0,
         UNCHANGED <<v1, v2, v3, v4, v5, v7, v12>>,
         v8' \ {v5} \subseteq v8, v9 \subseteq v9', v9' \ {v5} \subseteq v9, v11 \subseteq v11',
         v6' \in Nat, v6' <= Len(C!Chain(v1[v5])),
         v6' # 0 /\ v5 \in v8' => C!Chain(v1[v5])[v6'] = "plugin" \/ v5 \in v9'
  PROVE  C!CommandsInv'
<1>1. C!Begun' = C!Begun
  BY DEF C!Begun
<1>2. C!Forms'
  BY DEF C!CommandsInv, C!Forms
<1>3. C!InLine'
  BY <1>1 DEF C!CommandsInv, C!InLine, C!AnsweredInOrder
<1>4. C!UnderWay'
  <2>1. v5 \in 1..C!Begun /\ v8' \cup v9' \subseteq 1..C!Begun
    BY LineNow DEF C!CommandsInv, C!UnderWay
  <2>2. QED
    BY <1>1, <2>1 DEF C!CommandsInv, C!UnderWay, C!Request
<1>5. C!FailedSetupKeepsNoSecret'
  BY OthersKept DEF C!FailedSetupKeepsNoSecret
<1>6. QED
  BY <1>2, <1>3, <1>4, <1>5 DEF C!CommandsInv

(* The step ends the command. *)
LEMMA CommandReported ==
  ASSUME C!CommandsInv, v5 # 0, NEW ok \in BOOLEAN, C!Report(ok),
         UNCHANGED <<v1, v2, v3, v4, v12>>,
         v8' \ {v5} \subseteq v8, v9 \subseteq v9', v9' \ {v5} \subseteq v9, v11 \subseteq v11',
         ~ok /\ v5 \in v8' \ v11' => v5 \in v9'
  PROVE  C!CommandsInv'
<1> DEFINE o == [n |-> v5, ok |-> ok]
<1>1. v7' = Append(v7, o) /\ v5' = 0 /\ v6' = 1
  BY DEF C!Report
<1>2. o \in [n : Nat, ok : BOOLEAN] /\ o.n = v5 /\ o.ok = ok /\ v7 \in Seq([n : Nat, ok : BOOLEAN])
  BY LineTypes
<1> HIDE DEF o
<1>3. /\ v7' \in Seq([n : Nat, ok : BOOLEAN]) /\ Len(v7') = Len(v7) + 1
      /\ (\A i \in 1..Len(v7) : v7'[i] = v7[i]) /\ v7'[Len(v7) + 1] = o
  BY <1>1, <1>2
<1>4. Len(v7) \in Nat /\ v5 = Len(v7) + 1 /\ C!Begun = Len(v7) + 1
  BY LineNow, LineTypes
<1>5. C!Begun' = C!Begun
  BY <1>1, <1>3, <1>4 DEF C!Begun
<1>6. \A i \in DOMAIN v7' : (i \in DOMAIN v7 /\ v7'[i] = v7[i]) \/ (i = v5 /\ v7'[i] = o)
  <2>1. DOMAIN v7' = 1..(Len(v7) + 1) /\ DOMAIN v7 = 1..Len(v7)
    BY <1>2, <1>3
  <2>2. QED
    BY <1>3, <1>4, <2>1
<1>7. C!AnsweredInOrder'
  BY <1>2, <1>6, OutcomesNow DEF C!AnsweredInOrder
<1>8. C!Forms'
  BY <1>1, <1>3 DEF C!CommandsInv, C!Forms
<1>9. C!InLine'
  BY <1>1, <1>5, <1>7 DEF C!CommandsInv, C!InLine
<1>10. C!UnderWay'
  <2>1. v5 \in 1..C!Begun /\ v8' \cup v9' \subseteq 1..C!Begun
    BY LineNow DEF C!CommandsInv, C!UnderWay
  <2>2. QED
    BY <1>1, <1>5, <2>1 DEF C!UnderWay
<1>11. C!FailedSetupKeepsNoSecret'
  BY <1>2, <1>6, OthersKept DEF C!FailedSetupKeepsNoSecret
<1>12. QED
  BY <1>8, <1>9, <1>10, <1>11 DEF C!CommandsInv

(* The chain of the command under way. *)
LEMMA RequestNow ==
  ASSUME C!CommandsInv, v5 # 0
  PROVE  /\ Len(C!Chain(v1[v5])) \in 1..4 /\ v6 \in 0..Len(C!Chain(v1[v5]))
         /\ v6 # 0 /\ C!Request = "secret" =>
              v6 + 1 <= Len(C!Chain(v1[v5])) /\ C!Chain(v1[v5])[v6 + 1] = "plugin"
         /\ v6 # 0 /\ v5 \in v8 => C!Request = "plugin" \/ v5 \in v9
<1>1. v1[v5] \in C!CommandNames
  <2>1. v5 \in 1..Len(v1) /\ v1 \in Seq(AskedKinds)
    BY LineNow, LineTypes
  <2>2. v1[v5] \in AskedKinds
    BY <2>1
  <2>3. v1[v5] # "shutdown"
    BY DEF C!CommandsInv, C!UnderWay
  <2>4. QED
    BY <2>2, <2>3, CommandAssumption
<1>2. Len(C!Chain(v1[v5])) \in 1..4
  BY <1>1, SecretBeforePlugin
<1>3. v6 \in 0..Len(C!Chain(v1[v5]))
      /\ (v6 # 0 /\ v5 \in v8 => C!Request = "plugin" \/ v5 \in v9)
  BY <1>2, LineTypes DEF C!CommandsInv, C!UnderWay
<1>4. v6 # 0 /\ C!Request = "secret" =>
        v6 + 1 <= Len(C!Chain(v1[v5])) /\ C!Chain(v1[v5])[v6 + 1] = "plugin"
  <2> SUFFICES ASSUME v6 # 0, C!Request = "secret"
               PROVE  v6 + 1 <= Len(C!Chain(v1[v5])) /\ C!Chain(v1[v5])[v6 + 1] = "plugin"
    OBVIOUS
  <2>1. v6 \in 1..Len(C!Chain(v1[v5]))
    BY <1>2, <1>3
  <2>2. v6 < Len(C!Chain(v1[v5])) /\ C!Chain(v1[v5])[v6 + 1] = "plugin"
    BY <1>1, <2>1, SecretBeforePlugin DEF C!Request
  <2>3. QED
    BY <1>2, <2>1, <2>2
<1>5. QED
  BY <1>2, <1>3, <1>4

(* What the server has done adds to the rows of the command only. *)
LEMMA DoneRows ==
  ASSUME C!Done
  PROVE  /\ v8' \ {v5} \subseteq v8 /\ v8 \subseteq v8' /\ v9 \subseteq v9' /\ v9' \ {v5} \subseteq v9
         /\ C!Request = "plugin" => v5 \in v9'
         /\ v5 \in v8' => v5 \in v8 \/ C!Request = "secret"
BY DEF C!Done

LEMMA CommandAnswered ==
  ASSUME C!CommandsInv, C!Answered
  PROVE  C!CommandsInv'
<1>1. v5 # 0 /\ v6 # 0 /\ UNCHANGED <<v1, v2, v3, v4, v11, v12>>
  BY DEF C!Answered, C!queues
<1>2. C!Done
  BY DEF C!Answered
<1>3. CASE C!Report(TRUE)
  BY <1>1, <1>2, <1>3, DoneRows, CommandReported
<1>4. CASE v6 # Len(C!Chain(v1[v5])) /\ v6' = v6 + 1 /\ UNCHANGED <<v7, v5>>
  <2>1. v6' \in Nat /\ v6' <= Len(C!Chain(v1[v5]))
    BY <1>1, <1>4, RequestNow
  <2>2. v5 \in v8' => C!Chain(v1[v5])[v6'] = "plugin" \/ v5 \in v9'
    BY <1>1, <1>2, <1>4, RequestNow, DoneRows
  <2>3. QED
    BY <1>1, <1>2, <1>4, <2>1, <2>2, DoneRows, CommandGoesOn
<1>5. QED
  BY <1>3, <1>4 DEF C!Answered

(* A command gives up: at once, or with its secret to take back. *)
LEMMA CommandRefused ==
  ASSUME C!CommandsInv, C!Refused
  PROVE  C!CommandsInv'
<1>1. v5 # 0 /\ v6 # 0 /\ UNCHANGED <<v1, v2, v3, v4, v8, v9, v11, v12>>
  BY DEF C!Refused, C!queues, C!rows
<1>2. CASE v6' = 0 /\ UNCHANGED <<v7, v5>>
  BY <1>1, <1>2, RequestNow, CommandGoesOn
<1>3. CASE ~(C!Request = "plugin" /\ v5 \in v8) /\ C!Report(FALSE)
  BY <1>1, <1>3, RequestNow, CommandReported
<1>4. QED
  BY <1>2, <1>3 DEF C!Refused, C!GivesUp

LEMMA CommandAnswerLost ==
  ASSUME C!CommandsInv, C!AnswerLost
  PROVE  C!CommandsInv'
<1>1. v5 # 0 /\ v6 # 0 /\ UNCHANGED <<v1, v2, v3, v4, v12>> /\ v11' = v11 \cup {v5}
  BY DEF C!AnswerLost, C!queues
<1>2. C!Done
  BY DEF C!AnswerLost
<1>3. CASE v6' = 0 /\ UNCHANGED <<v7, v5>>
  BY <1>1, <1>2, <1>3, RequestNow, DoneRows, CommandGoesOn
<1>4. CASE C!Report(FALSE)
  BY <1>1, <1>2, <1>4, DoneRows, CommandReported
<1>5. QED
  BY <1>3, <1>4 DEF C!AnswerLost, C!GivesUp

LEMMA CommandUndone ==
  ASSUME C!CommandsInv, C!Undo
  PROVE  C!CommandsInv'
<1>1. v5 # 0 /\ C!Report(FALSE) /\ UNCHANGED <<v1, v2, v3, v4, v9, v12>>
      /\ (\/ v8' = v8 \ {v5} /\ v11' = v11
          \/ v11' = v11 \cup {v5} /\ v8' = v8)
  BY DEF C!Undo, C!queues
<1>2. QED
  BY <1>1, CommandReported

(* The line moves on while no command is under way. *)
LEMMA CommandBegins ==
  ASSUME C!CommandsInv, C!BeginParked \/ C!BeginNext
  PROVE  C!CommandsInv'
<1>1. PICK n : /\ v5' = n /\ v6' = 1
               /\ \/ v3 # <<>> /\ v3' = Tail(v3) /\ n = Head(v3) /\ v2' = v2
                  \/ /\ v3 = <<>> /\ v2 # <<>> /\ v1[Head(v2)] # "shutdown"
                     /\ v2' = Tail(v2) /\ n = Head(v2) /\ v3' = v3
  BY DEF C!BeginParked, C!BeginNext, C!Begin
<1>2. v4 = "up" /\ v5 = 0 /\ UNCHANGED <<v1, v4, v7, v8, v9, v10, v11, v12>>
  BY DEF C!BeginParked, C!BeginNext, C!Begin, C!rows
<1> DEFINE b == C!Begun
<1>3. /\ b \in Nat /\ b = Len(v7) /\ Run(v3, b) /\ Len(v3) \in Nat /\ Run(v2, b + Len(v3))
      /\ Len(v2) \in Nat /\ Len(v1) = b + Len(v3) + Len(v2)
  BY <1>2, LineNow, LineTypes, LineRuns
<1>4. \A i \in DOMAIN v3 : v1[b + i] # "shutdown"
  BY <1>2, LineRuns
<1> HIDE DEF b
<1>5. /\ n = b + 1 /\ v1[n] # "shutdown" /\ Run(v3', b + 1) /\ Len(v3') \in Nat
      /\ Run(v2', (b + 1) + Len(v3')) /\ Len(v2') \in Nat
      /\ Len(v1) = (b + 1) + Len(v3') + Len(v2')
      /\ \A i \in DOMAIN v3' : i + 1 \in DOMAIN v3
  <2>1. CASE v3 # <<>> /\ v3' = Tail(v3) /\ n = Head(v3) /\ v2' = v2
    <3>1. /\ n = b + 1 /\ 1 \in DOMAIN v3 /\ Run(v3', b + 1) /\ Len(v3') = Len(v3) - 1
          /\ Len(v3) \in Nat \ {0} /\ \A i \in DOMAIN v3' : i + 1 \in DOMAIN v3
      BY <1>3, <2>1, RunHead
    <3>2. (b + 1) + Len(v3') = b + Len(v3) /\ Len(v3') \in Nat
      BY <1>3, <3>1
    <3>3. QED
      BY <1>3, <1>4, <2>1, <3>1, <3>2
  <2>2. CASE /\ v3 = <<>> /\ v2 # <<>> /\ v1[Head(v2)] # "shutdown"
             /\ v2' = Tail(v2) /\ n = Head(v2) /\ v3' = v3
    <3>1. Len(v3) = 0 /\ Run(v3, b + 1) /\ DOMAIN v3 = {}
      BY <1>3, <2>2 DEF Run
    <3>2. b + Len(v3) = b /\ (b + 1) + Len(v3) = b + 1
      BY <1>3, <3>1
    <3>3. n = b + 1 /\ Run(v2', b + 1) /\ Len(v2') = Len(v2) - 1 /\ Len(v2) \in Nat \ {0}
      BY <1>3, <2>2, <3>2, RunHead
    <3>4. QED
      BY <1>3, <2>2, <3>1, <3>2, <3>3
  <2>3. QED
    BY <1>1, <2>1, <2>2
<1>6. C!Begun' = b + 1 /\ v5' = b + 1 /\ v5' # 0
  BY <1>1, <1>2, <1>3, <1>5 DEF C!Begun
<1>7. C!Forms'
  BY <1>1, <1>2, <1>3, <1>5 DEF C!CommandsInv, C!Forms, Run
<1>8. C!InLine'
  <2>1. C!AnsweredInOrder'
    BY <1>2 DEF C!CommandsInv, C!InLine, C!AnsweredInOrder
  <2>2. \A i \in DOMAIN v3' : i \in Nat /\ v3'[i] = (b + 1) + i /\ v1[(b + 1) + i] # "shutdown"
    <3> SUFFICES ASSUME NEW i \in DOMAIN v3'
                 PROVE  i \in Nat /\ v3'[i] = (b + 1) + i /\ v1[(b + 1) + i] # "shutdown"
      OBVIOUS
    <3>1. i \in Nat /\ v3'[i] = (b + 1) + i
      BY <1>5 DEF Run
    <3>2. (b + 1) + i = b + (i + 1)
      BY <1>3, <3>1
    <3>3. QED
      BY <1>4, <1>5, <3>1, <3>2
  <2>3. b + 1 <= Len(v1)
    BY <1>3, <1>5
  <2>4. QED
    BY <1>2, <1>5, <1>6, <2>1, <2>2, <2>3 DEF C!InLine, Run
<1>9. C!UnderWay'
  <2>1. v8' \cup v9' \subseteq 1..b
    BY <1>2 DEF C!CommandsInv, C!UnderWay, b
  <2>2. 1..b \subseteq 1..(b + 1) /\ b + 1 \notin 1..b
    BY <1>3
  <2>3. v1[n] \in C!CommandNames
    <3>1. v1 \in Seq(AskedKinds) /\ n \in 1..Len(v1)
      BY <1>3, <1>5, LineTypes
    <3>2. v1[n] \in AskedKinds
      BY <3>1
    <3>3. QED
      BY <1>5, <3>2, CommandAssumption
  <2>4. 1 <= Len(C!Chain(v1[n]))
    BY <2>3, SecretBeforePlugin
  <2>5. v1' = v1 /\ v5' = n /\ v6' = 1
    BY <1>1, <1>2
  <2>6. v8' \cup v9' \subseteq 1..(b + 1) /\ v5' \notin v8'
    BY <1>6, <2>1, <2>2
  <2>7. v1'[v5'] # "shutdown" /\ v6' <= Len(C!Chain(v1'[v5']))
    <3>1. v1'[v5'] = v1[n] /\ v6' = 1
      BY <2>5
    <3>2. 1 <= Len(C!Chain(v1[n]))
      BY <2>4
    <3>3. QED
      BY <1>5, <3>1, <3>2
  <2>8. QED
    BY <1>6, <2>6, <2>7 DEF C!UnderWay
<1>10. C!FailedSetupKeepsNoSecret'
  BY <1>2 DEF C!CommandsInv, C!FailedSetupKeepsNoSecret
<1>11. QED
  BY <1>7, <1>8, <1>9, <1>10 DEF C!CommandsInv

(* A step that leaves the command under way alone, and those answered. *)
LEMMA CommandUntouched ==
  ASSUME C!CommandsInv, UNCHANGED <<v5, v6, v7, v8, v9, v10, v11>>,
         \A i \in DOMAIN v1 : v1'[i] = v1[i]
  PROVE  /\ C!Begun' = C!Begun /\ C!UnderWay' /\ C!FailedSetupKeepsNoSecret'
         /\ C!AnsweredInOrder'
<1>1. C!Begun' = C!Begun
  BY DEF C!Begun
<1>2. v5 # 0 => v1'[v5] = v1[v5]
  BY LineNow, LineTypes
<1>3. C!UnderWay'
  BY <1>1, <1>2 DEF C!CommandsInv, C!UnderWay, C!Request
<1>4. C!FailedSetupKeepsNoSecret' /\ C!AnsweredInOrder'
  BY DEF C!CommandsInv, C!InLine, C!FailedSetupKeepsNoSecret, C!AnsweredInOrder
<1>5. QED
  BY <1>1, <1>3, <1>4

LEMMA CommandAsked ==
  ASSUME C!CommandsInv, NEW k \in AskedKinds, C!Ask(k)
  PROVE  C!CommandsInv'
<1>1. /\ v4 # "stopped" /\ v1' = Append(v1, k) /\ v2' = Append(v2, Len(v1) + 1)
      /\ UNCHANGED <<v3, v4, v5, v6, v7, v8, v9, v10, v11, v12>>
  BY DEF C!Ask, C!rows
<1> DEFINE b == C!Begun
           n == Len(v1) + 1
<1>2. /\ b \in Nat /\ b <= Len(v1) /\ Len(v1) \in Nat /\ Len(v2) \in Nat /\ Len(v3) \in Nat
      /\ Run(v3, b) /\ Run(v2, b + Len(v3)) /\ Len(v1) = b + Len(v3) + Len(v2)
      /\ \A i \in DOMAIN v3 : v1[b + i] # "shutdown"
  BY <1>1, LineNow, LineTypes, LineRuns
<1>3. /\ v1' \in Seq(AskedKinds) /\ Len(v1') = Len(v1) + 1
      /\ \A i \in DOMAIN v1 : i \in 1..Len(v1) /\ v1'[i] = v1[i]
  BY <1>1, LineTypes
<1>4. C!Begun' = b /\ C!UnderWay' /\ C!FailedSetupKeepsNoSecret' /\ C!AnsweredInOrder'
  BY <1>1, <1>3, CommandUntouched
<1>5. v5 # 0 => v5 = b /\ v4 = "up"
  BY LineNow
<1> HIDE DEF b
<1>6. n \in Nat /\ n = (b + Len(v3)) + Len(v2) + 1 /\ b + Len(v3) \in Nat
  BY <1>2
<1> HIDE DEF n
<1>7. Run(v2', b + Len(v3)) /\ Len(v2') = Len(v2) + 1
  <2>1. v2' = Append(v2, n)
    BY <1>1 DEF n
  <2>2. QED
    BY <1>2, <1>6, <2>1, RunAppend
<1>8. C!Forms'
  BY <1>1, <1>3, <1>7 DEF C!CommandsInv, C!Forms, Run
<1>9. C!InLine'
  <2>1. \A i \in DOMAIN v3 : v3[i] = b + i /\ v1'[b + i] # "shutdown"
    <3> SUFFICES ASSUME NEW i \in DOMAIN v3 PROVE v3[i] = b + i /\ v1'[b + i] # "shutdown"
      OBVIOUS
    <3>1. i \in 1..Len(v3) /\ v3[i] = b + i
      BY <1>2, LineTypes DEF Run
    <3>2. b + i \in 1..Len(v1)
      BY <1>2, <3>1
    <3>3. v1'[b + i] = v1[b + i]
      BY <1>3, <3>2, LineTypes
    <3>4. QED
      BY <1>2, <3>1, <3>3
  <2>2. Len(v1') = b + Len(v3) + Len(v2') /\ b <= Len(v1')
    BY <1>2, <1>3, <1>7
  <2>3. QED
    BY <1>1, <1>4, <1>5, <1>7, <2>1, <2>2 DEF C!InLine, Run
<1>10. QED
  BY <1>4, <1>8, <1>9 DEF C!CommandsInv

(* The connection: a parked command takes its place behind the parked ones. *)
LEMMA CommandParked ==
  ASSUME C!CommandsInv, C!Park
  PROVE  C!CommandsInv'
<1>1. /\ v4 = "down" /\ v2 # <<>> /\ v1[Head(v2)] # "shutdown"
      /\ v3' = Append(v3, Head(v2)) /\ v2' = Tail(v2)
      /\ UNCHANGED <<v1, v4, v5, v6, v7, v8, v9, v10, v11, v12>>
  BY DEF C!Park, C!Parked, C!rows
<1> DEFINE b == C!Begun
           n == Head(v2)
           c == b + Len(v3)
<1>2. /\ b \in Nat /\ b <= Len(v1) /\ Len(v1) \in Nat /\ Len(v2) \in Nat /\ Len(v3) \in Nat
      /\ Run(v3, b) /\ Run(v2, c) /\ Len(v1) = c + Len(v2)
      /\ \A i \in DOMAIN v3 : v1[b + i] # "shutdown"
  BY <1>1, LineNow, LineTypes, LineRuns
<1>3. C!Begun' = b /\ C!UnderWay' /\ C!FailedSetupKeepsNoSecret' /\ C!AnsweredInOrder'
  BY <1>1, CommandUntouched
<1>4. v5 = 0
  BY <1>1, LineNow
<1> HIDE DEF b
<1>5. c \in Nat
  BY <1>2
<1> HIDE DEF c
<1>6. n = c + 1 /\ Len(v2) \in Nat \ {0} /\ Run(Tail(v2), c + 1) /\ Len(Tail(v2)) = Len(v2) - 1
  BY <1>1, <1>2, <1>5, RunHead
<1>7. n \in Nat /\ n = b + Len(v3) + 1
  BY <1>2, <1>5, <1>6 DEF c
<1> HIDE DEF n
<1>8. v3' = Append(v3, n)
  BY <1>1 DEF n
<1>9. /\ Run(v3', b) /\ Len(v3') = Len(v3) + 1
      /\ \A i \in DOMAIN v3' : i \in DOMAIN v3 \/ i = Len(v3) + 1
  BY <1>2, <1>7, <1>8, RunAppend
<1>10. /\ b + Len(v3') = c + 1 /\ Len(v1) = b + Len(v3') + Len(v2')
  <2>1. b + Len(v3') = c + 1
    BY <1>2, <1>9 DEF c
  <2>2. Len(v2') = Len(v2) - 1 /\ Len(v2') \in Nat
    BY <1>1, <1>6
  <2>3. Len(v1) = (c + 1) + Len(v2')
    BY <1>2, <1>5, <2>2
  <2>4. QED
    BY <1>2, <2>1, <2>2, <2>3
<1>11. Run(v2', b + Len(v3'))
  BY <1>1, <1>6, <1>10
<1>12. \A i \in DOMAIN v3' : v1[b + i] # "shutdown"
  <2>1. v1[b + (Len(v3) + 1)] # "shutdown"
    <3>1. b + (Len(v3) + 1) = n
      BY <1>2, <1>7
    <3>2. QED
      BY <1>1, <3>1 DEF n
  <2>2. QED
    BY <1>2, <1>9, <2>1
<1>13. C!Forms'
  BY <1>1, <1>9, <1>11 DEF C!CommandsInv, C!Forms, Run
<1>14. C!InLine'
  BY <1>1, <1>2, <1>3, <1>4, <1>9, <1>10, <1>11, <1>12 DEF C!InLine, Run
<1>15. QED
  BY <1>3, <1>13, <1>14 DEF C!CommandsInv

LEMMA LinkSteps ==
  ASSUME C!CommandsInv, C!Connect \/ C!Disconnect \/ C!Stop \/ UNCHANGED C!vars
  PROVE  C!CommandsInv'
<1>1. UNCHANGED <<v1, v3, v5, v6, v7, v8, v9, v10, v11>>
  BY DEF C!Connect, C!Disconnect, C!Stop, C!vars, C!queues, C!rows
<1>2. \/ v4' = v4 /\ v2' = v2
      \/ v4 # "stopped" /\ v4' \in {"up", "down"} /\ v2' = v2 /\ (v5 # 0 => v4' = "up")
      \/ v4' = "stopped" /\ v2' = Tail(v2) /\ v2 # <<>> /\ v5 = 0
  BY DEF C!Connect, C!Disconnect, C!Stop, C!vars, C!queues, C!rows
<1>3. C!Begun' = C!Begun /\ C!UnderWay' /\ C!FailedSetupKeepsNoSecret' /\ C!AnsweredInOrder'
  BY <1>1, CommandUntouched
<1>4. v2' \in Seq(Nat)
  <2>1. v2 \in Seq(Nat)
    BY LineTypes
  <2>2. v2 # <<>> => Tail(v2) \in Seq(Nat)
    BY <2>1
  <2>3. QED
    BY <1>2, <2>1, <2>2
<1>5. C!Forms'
  BY <1>1, <1>2, <1>4 DEF C!CommandsInv, C!Forms
<1>6. C!InLine'
  BY <1>1, <1>2, <1>3 DEF C!CommandsInv, C!InLine
<1>7. QED
  BY <1>3, <1>5, <1>6 DEF C!CommandsInv

LEMMA CommandsInit == C!Init => C!CommandsInv
<1> SUFFICES ASSUME C!Init PROVE C!CommandsInv
  OBVIOUS
<1>1. /\ v1 = <<>> /\ v2 = <<>> /\ v3 = <<>> /\ v7 = <<>> /\ v4 = "down" /\ v5 = 0 /\ v6 = 1
      /\ v8 = {} /\ v9 = {}
  BY DEF C!Init
<1>2. Len(<<>>) = 0 /\ DOMAIN <<>> = {} /\ <<>> \in Seq(AskedKinds) /\ <<>> \in Seq(Nat)
      /\ <<>> \in Seq([n : Nat, ok : BOOLEAN])
  OBVIOUS
<1>3. C!Begun = 0
  BY <1>1, <1>2 DEF C!Begun
<1>4. C!Forms
  BY <1>1, <1>2 DEF C!Forms
<1>5. C!AnsweredInOrder /\ C!FailedSetupKeepsNoSecret
  BY <1>1, <1>2 DEF C!AnsweredInOrder, C!FailedSetupKeepsNoSecret
<1>6. C!InLine
  BY <1>1, <1>2, <1>3, <1>5 DEF C!InLine
<1>7. C!UnderWay
  BY <1>1 DEF C!UnderWay
<1>8. QED
  BY <1>4, <1>5, <1>6, <1>7 DEF C!CommandsInv

LEMMA CommandsStep == C!CommandsInv /\ [C!Next]_(C!vars) => C!CommandsInv'
<1> SUFFICES ASSUME C!CommandsInv, [C!Next]_(C!vars) PROVE C!CommandsInv'
  OBVIOUS
<1>1. CASE \E k \in AskedKinds : C!Ask(k)
  BY <1>1, CommandAsked
<1>2. CASE C!Connect \/ C!Disconnect \/ C!Stop \/ UNCHANGED C!vars
  BY <1>2, LinkSteps
<1>3. CASE C!Park
  BY <1>3, CommandParked
<1>4. CASE C!BeginParked \/ C!BeginNext
  BY <1>4, CommandBegins
<1>5. CASE C!Answered \/ C!Refused \/ C!AnswerLost \/ C!Undo
  BY <1>5, CommandAnswered, CommandRefused, CommandAnswerLost, CommandUndone
<1>6. QED
  BY <1>1, <1>2, <1>3, <1>4, <1>5 DEF C!Next

(* A plugin is connected right after it was created, never first. *)
LEMMA PluginBeforeConnect ==
  ASSUME NEW k \in C!CommandNames
  PROVE  /\ C!Chain(k)[1] # "connect"
         /\ \A i \in 1..(Len(C!Chain(k)) - 1) :
              C!Chain(k)[i + 1] = "connect" => C!Chain(k)[i] = "plugin"
<1> DEFINE Fine(q) == /\ q[1] # "connect"
                      /\ \A i \in 1..(Len(q) - 1) : q[i + 1] = "connect" => q[i] = "plugin"
<1>1. Fine(<<"post">>) /\ Fine(<<"get">>) /\ Fine(<<"create_chat", "post">>)
      /\ Fine(<<"create", "put", "finalize">>) /\ Fine(<<"plugin">>)
      /\ Fine(<<"revoke">>) /\ Fine(<<"revoke", "authorize">>)
  OBVIOUS
<1>2. Fine(<<"plugin", "connect">>) /\ Fine(<<"secret", "plugin", "connect">>)
      /\ Fine(<<"secret", "plugin", "connect", "authorize">>)
  OBVIOUS
<1>3. /\ Fine(<<>> \o <<"plugin", "connect">>)
      /\ Fine(<<"secret">> \o <<"plugin", "connect">>)
  OBVIOUS
<1>4. C!Chain(k) \in {<<"post">>, <<"get">>, <<"create_chat", "post">>, <<"create", "put", "finalize">>,
                      <<"plugin">>, <<"revoke">>, <<"revoke", "authorize">>,
                      <<>> \o <<"plugin", "connect">>, <<"secret">> \o <<"plugin", "connect">>,
                      <<"secret", "plugin", "connect">>,
                      <<"secret", "plugin", "connect", "authorize">>}
  BY DEF C!CommandNames, C!Chain, C!Bot, C!Group, C!Workspace, C!Vcs, C!Routine, C!Recording,
     C!Device, C!Load, C!Timeline, C!Upload, C!RemoteMcp, C!MemoryProvider, C!Composio,
     C!RevokeComposio
<1> HIDE DEF Fine
<1>5. Fine(C!Chain(k))
  BY <1>1, <1>2, <1>3, <1>4
<1>6. QED
  BY <1>5 DEF Fine

(* What the types of the commands need beyond CommandsInv: the numbers that wait are *)
(* numbers of commands, and a plugin is created before it is connected.              *)
NumbersAsked ==
  /\ \A i \in DOMAIN v2 : v2[i] \in 1..Len(v1)
  /\ \A i \in DOMAIN v3 : v3[i] \in 1..Len(v1)

CommandsTyped ==
  /\ NumbersAsked /\ v11 \subseteq 1..Len(v1) /\ v10 \subseteq v9
  /\ v5 = 0 => v6 = 1
  /\ v5 # 0 /\ v6 # 0 /\ C!Request = "connect" => v5 \in v9

LEMMA LineIsAsked ==
  ASSUME C!CommandsInv, v4 # "stopped"
  PROVE  NumbersAsked
<1>1. /\ C!Begun \in Nat /\ Len(v2) \in Nat /\ Len(v3) \in Nat /\ Run(v3, C!Begun)
      /\ Run(v2, C!Begun + Len(v3)) /\ Len(v1) = C!Begun + Len(v3) + Len(v2)
  BY LineNow, LineTypes, LineRuns
<1>2. ASSUME NEW i \in DOMAIN v2 PROVE v2[i] \in 1..Len(v1)
  <2>1. i \in 1..Len(v2) /\ v2[i] = (C!Begun + Len(v3)) + i
    BY <1>1, LineTypes DEF Run
  <2>2. QED
    BY <1>1, <2>1
<1>3. ASSUME NEW i \in DOMAIN v3 PROVE v3[i] \in 1..Len(v1)
  <2>1. i \in 1..Len(v3) /\ v3[i] = C!Begun + i
    BY <1>1, LineTypes DEF Run
  <2>2. QED
    BY <1>1, <2>1
<1>4. QED
  BY <1>2, <1>3 DEF NumbersAsked

(* The loop stops on the command at the head of the channel, and takes no other. *)
LEMMA StoppedStays ==
  ASSUME C!CommandsInv, NumbersAsked, [C!Next]_(C!vars), v4' = "stopped"
  PROVE  NumbersAsked'
<1>1. v1' = v1 /\ v3' = v3 /\ (v2' = v2 \/ (v2' = Tail(v2) /\ v2 # <<>>))
  <2>1. CASE C!Stop
    BY <2>1 DEF C!Stop
  <2>2. CASE C!Answered \/ C!Refused \/ C!AnswerLost \/ C!Undo \/ UNCHANGED C!vars
    BY <2>2 DEF C!Answered, C!Refused, C!AnswerLost, C!Undo, C!vars, C!queues
  <2>3. QED
    BY <2>1, <2>2 DEF C!Next, C!Ask, C!Connect, C!Disconnect, C!Park, C!BeginParked, C!BeginNext,
                      C!Begin
<1>2. v2 \in Seq(Nat)
  BY LineTypes
<1>3. CASE v2' = Tail(v2) /\ v2 # <<>>
  <2>1. \A i \in DOMAIN v2' : i + 1 \in DOMAIN v2 /\ v2'[i] = v2[i + 1]
    <3>1. /\ Len(v2) \in Nat /\ DOMAIN v2 = 1..Len(v2) /\ Len(v2') = Len(v2) - 1
          /\ v2' \in Seq(Nat) /\ \A i \in 1..Len(v2') : v2'[i] = v2[i + 1]
      BY <1>2, <1>3
    <3>2. DOMAIN v2' = 1..(Len(v2) - 1)
      BY <3>1
    <3>3. QED
      BY <3>1, <3>2
  <2>2. QED
    BY <1>1, <2>1 DEF NumbersAsked
<1>4. CASE v2' = v2
  BY <1>1, <1>4 DEF NumbersAsked
<1>5. QED
  BY <1>1, <1>3, <1>4

(* What a request of the command under way leaves behind. *)
LEMMA RequestTyped ==
  ASSUME C!CommandsInv, CommandsTyped, C!Done, v5 # 0, v6 # 0
  PROVE  v10' \subseteq v9' /\ v9 \subseteq v9' /\ (C!Request = "plugin" => v5 \in v9')
BY DEF C!Done, CommandsTyped

LEMMA NextRequest ==
  ASSUME C!CommandsInv, v5 # 0, v6 # 0, v6 # Len(C!Chain(v1[v5])),
         C!Chain(v1[v5])[v6 + 1] = "connect"
  PROVE  C!Request = "plugin"
<1>1. v6 \in 1..(Len(C!Chain(v1[v5])) - 1)
  BY RequestNow
<1>2. v1[v5] \in C!CommandNames
  <2>1. v5 \in 1..Len(v1) /\ v1 \in Seq(AskedKinds)
    BY LineNow, LineTypes
  <2>2. v1[v5] \in AskedKinds /\ v1[v5] # "shutdown"
    BY <2>1 DEF C!CommandsInv, C!UnderWay
  <2>3. QED
    BY <2>2, CommandAssumption
<1>3. QED
  BY <1>1, <1>2, PluginBeforeConnect DEF C!Request

LEMMA CommandWorks ==
  ASSUME C!CommandsInv, CommandsTyped, C!Answered \/ C!Refused \/ C!AnswerLost \/ C!Undo
  PROVE  /\ v1' = v1 /\ v11' \subseteq 1..Len(v1) /\ v10' \subseteq v9'
         /\ v5' = 0 => v6' = 1
         /\ v5' # 0 /\ v6' # 0 /\ C!Chain(v1[v5'])[v6'] = "connect" => v5' \in v9'
<1>1. v5 # 0 /\ v5 \in 1..Len(v1)
  BY LineNow DEF C!Answered, C!Refused, C!AnswerLost, C!Undo
<1>2. v11 \subseteq 1..Len(v1) /\ v10 \subseteq v9
  BY DEF CommandsTyped
<1>3. CASE C!Answered
  <2>1. C!Done /\ v6 # 0 /\ v1' = v1 /\ v11' = v11
    BY <1>3 DEF C!Answered, C!queues
  <2>2. CASE C!Report(TRUE)
    BY <1>1, <1>2, <2>1, <2>2, RequestTyped DEF C!Report
  <2>3. CASE v6 # Len(C!Chain(v1[v5])) /\ v6' = v6 + 1 /\ v5' = v5
    BY <1>1, <1>2, <2>1, <2>3, RequestTyped, NextRequest
  <2>4. QED
    BY <1>3, <2>2, <2>3 DEF C!Answered
<1>4. CASE C!Refused \/ C!AnswerLost
  <2>1. /\ v6 # 0 /\ v1' = v1 /\ v11' \subseteq v11 \cup {v5}
        /\ C!Done \/ (v9' = v9 /\ v10' = v10)
        /\ (v6' = 0 /\ v5' = v5) \/ (v6' = 1 /\ v5' = 0)
    BY <1>4 DEF C!Refused, C!AnswerLost, C!GivesUp, C!Report, C!queues, C!rows
  <2>2. v10' \subseteq v9'
    BY <1>1, <1>2, <2>1, RequestTyped
  <2>3. QED
    BY <1>1, <1>2, <2>1, <2>2
<1>5. CASE C!Undo
  <2>1. /\ v1' = v1 /\ v11' \subseteq v11 \cup {v5} /\ v9' = v9 /\ v10' = v10
        /\ v6' = 1 /\ v5' = 0
    BY <1>5 DEF C!Undo, C!Report, C!queues
  <2>2. QED
    BY <1>1, <1>2, <2>1
<1>6. QED
  BY <1>3, <1>4, <1>5

(* The two of the state after a step. *)
LEMMA LineIsAskedNext == (C!CommandsInv /\ v4 # "stopped")' => NumbersAsked'
<1>1. (C!CommandsInv /\ v4 # "stopped") => NumbersAsked
  BY LineIsAsked
<1>2. QED
  BY <1>1, PTL

LEMMA CommandNamedNext == (C!CommandsInv /\ v5 # 0)' => (v1[v5] \in C!CommandNames)'
<1>1. (C!CommandsInv /\ v5 # 0) => v1[v5] \in C!CommandNames
  <2> SUFFICES ASSUME C!CommandsInv, v5 # 0 PROVE v1[v5] \in C!CommandNames
    OBVIOUS
  <2>1. v5 \in 1..Len(v1) /\ v1 \in Seq(AskedKinds)
    BY LineNow, LineTypes
  <2>2. v1[v5] \in AskedKinds
    BY <2>1
  <2>3. v1[v5] # "shutdown"
    BY DEF C!CommandsInv, C!UnderWay
  <2>4. QED
    BY <2>2, <2>3, CommandAssumption
<1>2. QED
  BY <1>1, PTL

LEMMA CommandsTypedStep ==
  ASSUME C!CommandsInv, CommandsTyped, [C!Next]_(C!vars)
  PROVE  CommandsTyped'
<1>1. C!CommandsInv'
  BY CommandsStep
<1>2. NumbersAsked'
  <2>1. CASE v4' # "stopped"
    BY <1>1, <2>1, LineIsAskedNext
  <2>2. CASE v4' = "stopped"
    BY <2>2, StoppedStays DEF CommandsTyped
  <2>3. QED
    BY <2>1, <2>2
<1>3. CASE C!Answered \/ C!Refused \/ C!AnswerLost \/ C!Undo
  BY <1>2, <1>3, CommandWorks DEF CommandsTyped, C!Request
<1>4. CASE C!BeginParked \/ C!BeginNext
  <2>1. v6' = 1 /\ UNCHANGED <<v1, v9, v10, v11>>
    BY <1>4 DEF C!BeginParked, C!BeginNext, C!Begin, C!rows
  <2>2. v5' # 0 => v1'[v5'] \in C!CommandNames
    BY <1>1, CommandNamedNext
  <2>3. v5' # 0 => C!Chain(v1'[v5'])[v6'] # "connect"
    BY <2>1, <2>2, PluginBeforeConnect
  <2>4. QED
    BY <1>2, <2>1, <2>3 DEF CommandsTyped, C!Request
<1>5. CASE \/ \E k \in AskedKinds : C!Ask(k)
           \/ C!Connect \/ C!Disconnect \/ C!Park \/ C!Stop \/ UNCHANGED C!vars
  <2>1. UNCHANGED <<v5, v6, v9, v10, v11>> /\ (v1' = v1 \/ \E k \in AskedKinds : v1' = Append(v1, k))
    BY <1>5 DEF C!Ask, C!Connect, C!Disconnect, C!Park, C!Stop, C!vars, C!queues, C!rows
  <2>2. Len(v1) \in Nat /\ Len(v1') \in Nat /\ Len(v1) <= Len(v1') /\ \A i \in 1..Len(v1) : v1'[i] = v1[i]
    <3>1. v1 \in Seq(AskedKinds) /\ Len(v1) \in Nat
      BY LineTypes
    <3>2. CASE v1' = v1
      BY <3>1, <3>2
    <3>3. ASSUME NEW k \in AskedKinds, v1' = Append(v1, k)
          PROVE  /\ Len(v1') \in Nat /\ Len(v1) <= Len(v1')
                 /\ \A i \in 1..Len(v1) : v1'[i] = v1[i]
      BY <3>1, <3>3
    <3>4. QED
      BY <2>1, <3>1, <3>2, <3>3
  <2>3. v5 # 0 => v1'[v5] = v1[v5]
    BY <2>2, LineNow
  <2>4. 1..Len(v1) \subseteq 1..Len(v1')
    BY <2>2
  <2>5. QED
    BY <1>2, <2>1, <2>3, <2>4 DEF CommandsTyped, C!Request
<1>6. QED
  BY <1>3, <1>4, <1>5 DEF C!Next

LEMMA CommandsTypes ==
  ASSUME C!CommandsInv, CommandsTyped
  PROVE  C!TypeOK
<1>1. /\ Len(v1) \in Nat /\ DOMAIN v1 = 1..Len(v1) /\ v1 \in Seq(AskedKinds)
      /\ \A n \in DOMAIN v1 : v1[n] \in AskedKinds
  BY LineTypes
<1>2. v5 \in {0} \cup DOMAIN v1 /\ C!Begun \in Nat /\ C!Begun <= Len(v1)
  BY <1>1, LineNow
<1>3. v6 \in 0..5
  <2>1. CASE v5 = 0
    BY <2>1 DEF CommandsTyped
  <2>2. CASE v5 # 0
    <3>1. PICK n : n = Len(C!Chain(v1[v5]))
      OBVIOUS
    <3>2. n \in 1..4 /\ v6 \in 0..n
      BY <2>2, <3>1, RequestNow
    <3>3. QED
      BY <3>2
  <2>3. QED
    BY <2>1, <2>2
<1>4. \A i \in DOMAIN v7 : v7[i].n \in DOMAIN v1 /\ v7[i].ok \in BOOLEAN
  <2>1. \A i \in DOMAIN v7 : i \in 1..Len(v1)
    <3>1. Len(v7) \in Nat /\ DOMAIN v7 = 1..Len(v7) /\ Len(v7) <= C!Begun
      BY <1>1, LineNow, LineTypes
    <3>2. QED
      BY <1>1, <1>2, <3>1
  <2>2. QED
    BY <1>1, <2>1, OutcomesNow
<1>5. v8 \subseteq DOMAIN v1 /\ v9 \subseteq DOMAIN v1
  <2>1. v8 \cup v9 \subseteq 1..C!Begun
    BY DEF C!CommandsInv, C!UnderWay
  <2>2. 1..C!Begun \subseteq 1..Len(v1)
    BY <1>1, <1>2
  <2>3. QED
    BY <1>1, <2>1, <2>2
<1>6. v4 \in {"up", "down", "stopped"}
  BY DEF C!CommandsInv, C!Forms
<1>7. QED
  BY <1>1, <1>2, <1>3, <1>4, <1>5, <1>6 DEF C!TypeOK, C!Asked, CommandsTyped, NumbersAsked

(* The invariant of the commands in the composition. *)
CommandsInvHere == component = "commands" => C!CommandsInv /\ CommandsTyped

LEMMA CommandsInvHolds == OwnerSpec => []CommandsInvHere
<1>1. OwnerInit => CommandsInvHere
  <2>1. C!Init => CommandsTyped
    BY DEF C!Init, CommandsTyped, NumbersAsked
  <2>2. QED
    BY <2>1, CommandsInit DEF OwnerInit, CommandsInvHere
<1>2. CommandsInvHere /\ [OwnerNext]_all => CommandsInvHere'
  <2> SUFFICES ASSUME CommandsInvHere, [OwnerNext]_all, component' = "commands"
               PROVE  C!CommandsInv' /\ CommandsTyped'
    BY DEF CommandsInvHere
  <2>1. component = "commands" /\ [C!Next]_(C!vars)
    BY DEF OwnerNext, all, C!vars, C!rows
  <2>2. QED
    BY <2>1, CommandsStep, CommandsTypedStep DEF CommandsInvHere
<1>3. QED
  BY <1>1, <1>2, PTL DEF OwnerSpec

(* A plugin setup that failed keeps no secret without its plugin, for any commands and *)
(* any number of them, wherever the connection is lost, unless an answer or the undo   *)
(* was lost (api.rs, the connector commands).                                          *)
THEOREM FailedSetupKeepsNoSecretAlways == OwnerSpec => []FailedSetupKeepsNoSecret
<1>1. CommandsInvHere => FailedSetupKeepsNoSecret
  BY DEF CommandsInvHere, FailedSetupKeepsNoSecret, C!CommandsInv
<1>2. QED
  BY <1>1, CommandsInvHolds, PTL

(* The app hears of its commands in the order it asked, each once, whatever was parked *)
(* while the connection was down (transport.rs, run and connected_loop).               *)
THEOREM CommandsAnsweredInOrder == OwnerSpec => [](component = "commands" => C!AnsweredInOrder)
<1>1. CommandsInvHere => (component = "commands" => C!AnsweredInOrder)
  BY DEF CommandsInvHere, C!CommandsInv, C!InLine
<1>2. QED
  BY <1>1, CommandsInvHolds, PTL

-----------------------------------------------------------------------------
(* Queues. *)
LEMMA Queued ==
  ASSUME NEW Rows, NEW q \in Seq(Rows), NEW m \in Rows
  PROVE  /\ Append(q, m) \in Seq(Rows) /\ Append(q, m) # <<>> /\ Len(q) \in Nat
         /\ Len(Append(q, m)) = Len(q) + 1
         /\ DOMAIN q = 1..Len(q) /\ DOMAIN Append(q, m) = 1..(Len(q) + 1)
         /\ \A i \in DOMAIN q : i \in DOMAIN Append(q, m) /\ Append(q, m)[i] = q[i]
         /\ Len(q) + 1 \in DOMAIN Append(q, m) /\ Append(q, m)[Len(q) + 1] = m
         /\ \A i \in DOMAIN Append(q, m) : i \in DOMAIN q \/ i = Len(q) + 1
<1>1. /\ Append(q, m) \in Seq(Rows) /\ Append(q, m) # <<>> /\ Len(q) \in Nat
      /\ Len(Append(q, m)) = Len(q) + 1
      /\ (\A i \in 1..Len(q) : Append(q, m)[i] = q[i]) /\ Append(q, m)[Len(q) + 1] = m
  OBVIOUS
<1>2. DOMAIN q = 1..Len(q) /\ DOMAIN Append(q, m) = 1..(Len(q) + 1)
  BY <1>1
<1>3. \A i \in 1..(Len(q) + 1) : i \in 1..Len(q) \/ i = Len(q) + 1
  BY <1>1
<1>4. 1..Len(q) \subseteq 1..(Len(q) + 1) /\ Len(q) + 1 \in 1..(Len(q) + 1)
  BY <1>1
<1>5. QED
  BY <1>1, <1>2, <1>3, <1>4

LEMMA Taken ==
  ASSUME NEW Rows, NEW q \in Seq(Rows), q # <<>>
  PROVE  /\ Len(q) \in Nat \ {0} /\ DOMAIN q = 1..Len(q) /\ 1 \in DOMAIN q
         /\ Head(q) = q[1] /\ Head(q) \in Rows
         /\ Tail(q) \in Seq(Rows) /\ Len(Tail(q)) = Len(q) - 1 /\ DOMAIN Tail(q) = 1..(Len(q) - 1)
         /\ \A i \in DOMAIN Tail(q) : i \in Nat /\ i + 1 \in DOMAIN q /\ Tail(q)[i] = q[i + 1]
         /\ \A i \in DOMAIN q : i = 1 \/ (i - 1 \in DOMAIN Tail(q) /\ Tail(q)[i - 1] = q[i])
<1>1. /\ Len(q) \in Nat \ {0} /\ DOMAIN q = 1..Len(q) /\ Head(q) = q[1] /\ Head(q) \in Rows
      /\ Tail(q) \in Seq(Rows) /\ Len(Tail(q)) = Len(q) - 1
      /\ \A i \in 1..Len(Tail(q)) : Tail(q)[i] = q[i + 1]
  OBVIOUS
<1>2. DOMAIN Tail(q) = 1..(Len(q) - 1) /\ 1 \in DOMAIN q
  BY <1>1
<1>3. \A i \in DOMAIN Tail(q) : i \in Nat /\ i + 1 \in DOMAIN q /\ Tail(q)[i] = q[i + 1]
  BY <1>1, <1>2
<1>4. ASSUME NEW i \in DOMAIN q, i # 1
      PROVE  i - 1 \in DOMAIN Tail(q) /\ Tail(q)[i - 1] = q[i]
  <2>1. i - 1 \in 1..(Len(q) - 1) /\ (i - 1) + 1 = i
    BY <1>1, <1>4
  <2>2. QED
    BY <1>1, <1>2, <2>1
<1>5. QED
  BY <1>1, <1>2, <1>3, <1>4

-----------------------------------------------------------------------------
(* The desktop's timeline. Slots: v1 row, v2 turn, v3 log, v4 cursor, v5 commands, *)
(* v6 reading, v7 inbox, v8 selected, v9 view, v10 failed, v11 shifts.             *)

LEMMA TimelineTypes ==
  ASSUME T!TypeOK
  PROVE  /\ v1 \in [TimelineBots -> T!Rows]
         /\ v3 \in Seq(T!Messages) /\ v7 \in Seq(T!Messages) /\ v5 \in Seq(TimelineBots)
         /\ Len(v3) \in Nat /\ DOMAIN v3 = 1..Len(v3) /\ DOMAIN v7 = 1..Len(v7) /\ Len(v7) \in Nat
         /\ Len(v5) \in Nat /\ v4 \in Nat /\ v4 <= Len(v3)
         /\ v6 # T!NotReading => v6 \in [bot : TimelineBots, row : T!Rows]
         /\ v8 \in TimelineBots \cup {None} /\ v10 \in BOOLEAN
BY DEF T!TypeOK

(* The parts that the records of the transport have. *)
LEMMA TimelineRecords ==
  /\ T!NoMessage \in T!Rows /\ T!NoMessage.status = "none"
  /\ T!NotReading.bot = None /\ T!NotReading.row = T!NoMessage
  /\ \A n \in Nat : /\ T!Snapshot(n) \in T!Messages /\ T!Snapshot(n).kind = "snapshot"
                    /\ T!Snapshot(n).seq = n
  /\ T!EmptyView \in [bot : TimelineBots \cup {None}, row : T!Rows, cursor : Nat, stale : BOOLEAN]
  /\ \A b \in TimelineBots, r \in T!Rows :
        /\ [bot |-> b, row |-> r] \in [bot : TimelineBots, row : T!Rows]
        /\ [bot |-> b, row |-> r] # T!NotReading
<1>1. <<>> \in Seq(Nat)
  OBVIOUS
<1>2. T!NoMessage \in T!Rows /\ T!NoMessage.status = "none"
  BY <1>1 DEF T!NoMessage, T!Rows
<1>3. T!NotReading.bot = None /\ T!NotReading.row = T!NoMessage
  BY DEF T!NotReading
<1>4. \A n \in Nat : /\ T!Snapshot(n) \in T!Messages /\ T!Snapshot(n).kind = "snapshot"
                     /\ T!Snapshot(n).seq = n
  BY <1>2 DEF T!Snapshot, T!Messages, T!Kinds
<1>5. T!EmptyView \in [bot : TimelineBots \cup {None}, row : T!Rows, cursor : Nat, stale : BOOLEAN]
  BY <1>2 DEF T!EmptyView
<1>6. ASSUME NEW b \in TimelineBots, NEW r \in T!Rows
      PROVE  /\ [bot |-> b, row |-> r] \in [bot : TimelineBots, row : T!Rows]
             /\ [bot |-> b, row |-> r] # T!NotReading
  <2>1. [bot |-> b, row |-> r].bot = b /\ b # None
    BY OwnerAssumption
  <2>2. QED
    BY <1>3, <2>1
<1>7. QED
  BY <1>2, <1>3, <1>4, <1>5, <1>6

(* A settled chat that no snapshot is on its way for is a chat. *)
LEMMA CalmIsChosen ==
  ASSUME T!NothingBefore, T!Calm, v7 \in Seq(T!Messages), v8 \in TimelineBots \cup {None}
  PROVE  v8 \in TimelineBots
<1> SUFFICES ASSUME v8 = None PROVE FALSE
  OBVIOUS
<1>1. 1 \in DOMAIN v7 /\ v7[1].kind = "snapshot"
  BY DEF T!NothingBefore
<1>2. QED
  BY <1>1 DEF T!Calm, T!AsksAgain

(* A step of the server: what is settled stays so, with its row and its events. *)
LEMMA LoadsWait ==
  ASSUME T!TimelineInv, UNCHANGED <<v5, v6, v7, v8, v9, v10>>, Len(v3') \in Nat,
         DOMAIN v3' = 1..Len(v3'),
         T!Calm' => /\ T!Calm /\ v1'[v8] = v1[v8]
                    /\ \A i \in DOMAIN v3' : v3'[i].bot = v8 => i \in DOMAIN v3 /\ v3'[i] = v3[i]
  PROVE  T!LastLoadCounts'
<1>1. \A l, seq : T!Current(l, seq) => T!Current(l, seq)'
  BY DEF T!Current
<1>2. v5 = <<>> /\ v6 # T!NotReading => T!Current(v6, Len(v3))'
  <2> SUFFICES ASSUME v5 = <<>>, v6 # T!NotReading PROVE T!Current(v6, Len(v3))'
    OBVIOUS
  <2>1. T!Current(v6, Len(v3))
    BY DEF T!TimelineInv, T!LastLoadCounts
  <2>2. \A i \in DOMAIN v3' : i <= Len(v3')
    OBVIOUS
  <2>3. v6.bot = v8
    BY <2>1 DEF T!Current
  <2>4. T!Calm' => v6.row = v1'[v8]
    BY <2>1 DEF T!Current
  <2>5. QED
    BY <2>2, <2>3, <2>4 DEF T!Current
<1>3. v5' # <<>> => v5'[Len(v5')] = v8'
  BY DEF T!TimelineInv, T!LastLoadCounts
<1>4. ASSUME v5 = <<>>, v6 = T!NotReading
      PROVE  /\ \A i \in DOMAIN v7 :
                  v7[i].kind = "timeline" /\ (\A j \in DOMAIN v7 : j > i => ~T!IsAnswer(v7[j]))
                    => T!Current(v7[i], v7[i].seq)
             /\ v8 # None /\ ~v10 /\ (\A i \in DOMAIN v7 : ~T!IsAnswer(v7[i]))
                  => T!Current(v9, v9.cursor)
  BY <1>4 DEF T!TimelineInv, T!LastLoadCounts
<1>5. QED
  BY <1>1, <1>2, <1>3, <1>4 DEF T!LastLoadCounts, T!Current, T!IsAnswer, T!NotReading, T!NoMessage

LEMMA TurnWrites ==
  ASSUME T!TimelineInv, NEW b \in TimelineBots, NEW from, NEW to \in {"created", "delta", "finished"},
         NEW m \in T!Rows, m.status # "none", T!Write(b, from, to, m)
  PROVE  T!TimelineInv'
<1>1. /\ v2' = [v2 EXCEPT ![b] = to] /\ v1' = [v1 EXCEPT ![b] = m]
      /\ UNCHANGED <<v3, v4, v5, v6, v7, v8, v9, v10, v11>>
  BY DEF T!Write, T!transport, T!app
<1>2. /\ v1 \in [TimelineBots -> T!Rows] /\ v7 \in Seq(T!Messages) /\ v8 \in TimelineBots \cup {None}
      /\ Len(v3) \in Nat /\ DOMAIN v3 = 1..Len(v3)
      /\ v2 \in [TimelineBots -> {"idle", "created", "delta", "finished", "settling", "ended"}]
  BY TimelineTypes DEF T!TimelineInv, T!TypeOK
<1>3. T!TypeOK'
  BY <1>1, <1>2 DEF T!TimelineInv, T!TypeOK, T!NotReading, T!NoMessage
<1>4. T!EventsAreLogged'
  BY <1>1, <1>2 DEF T!TimelineInv, T!EventsAreLogged
<1>5. T!NothingBefore'
  BY <1>1 DEF T!TimelineInv, T!NothingBefore, T!NotReading, T!NoMessage
<1>6. T!Calm' => T!Calm /\ v1'[v8] = v1[v8]
  <2> SUFFICES ASSUME T!Calm' PROVE T!Calm /\ v1'[v8] = v1[v8]
    OBVIOUS
  <2>1. v8 \in TimelineBots
    <3>1. v8 # None
      <4> SUFFICES ASSUME v8 = None PROVE FALSE
        OBVIOUS
      <4>1. 1 \in DOMAIN v7 /\ v7[1].kind = "snapshot"
        BY <1>2 DEF T!TimelineInv, T!NothingBefore
      <4>2. QED
        BY <1>1, <4>1 DEF T!Calm, T!AsksAgain
    <3>2. QED
      BY <1>2, <3>1
  <2>2. v8 # b
    BY <1>1, <1>2 DEF T!Calm, T!Settled
  <2>3. QED
    BY <1>1, <1>2, <2>1, <2>2 DEF T!Calm, T!Settled, T!AsksAgain
<1>7. T!LastLoadCounts'
  BY <1>1, <1>2, <1>6, LoadsWait
<1>8. QED
  BY <1>3, <1>4, <1>5, <1>7 DEF T!TimelineInv

LEMMA TurnSteps ==
  ASSUME T!TimelineInv, NEW b \in TimelineBots,
         T!CreateMessage(b) \/ T!AppendDelta(b) \/ T!FinishMessage(b)
  PROVE  T!TimelineInv'
<1>1. v1[b] \in T!Rows /\ v1[b].text \in Seq(Nat)
  BY TimelineTypes DEF T!TimelineInv, T!Rows
<1>2. CASE T!CreateMessage(b)
  <2> DEFINE m == [status |-> "streaming", text |-> <<>>]
  <2>1. <<>> \in Seq(Nat)
    OBVIOUS
  <2>2. m \in T!Rows /\ m.status # "none"
    BY <2>1 DEF T!Rows
  <2>3. T!Write(b, "idle", "created", m)
    BY <1>2 DEF T!CreateMessage
  <2>4. QED
    BY <2>2, <2>3, TurnWrites
<1>3. CASE T!AppendDelta(b)
  <2> DEFINE t == Append(v1[b].text, Len(v1[b].text) + 1)
             m == [v1[b] EXCEPT !.text = t]
  <2>1. t \in Seq(Nat)
    BY <1>1
  <2> HIDE DEF t
  <2>2. m \in T!Rows /\ m.status = v1[b].status
    BY <1>1, <2>1 DEF T!Rows
  <2>3. T!Write(b, "idle", "delta", m) /\ v1[b].status = "streaming"
    BY <1>3 DEF T!AppendDelta, t
  <2> HIDE DEF m
  <2>4. QED
    BY <2>2, <2>3, TurnWrites
<1>4. CASE T!FinishMessage(b)
  <2> DEFINE m == [v1[b] EXCEPT !.status = "done"]
  <2>1. m \in T!Rows /\ m.status = "done"
    BY <1>1 DEF T!Rows
  <2>2. T!Write(b, "idle", "finished", m)
    BY <1>4 DEF T!FinishMessage
  <2> HIDE DEF m
  <2>3. QED
    BY <2>1, <2>2, TurnWrites
<1>5. QED
  BY <1>2, <1>3, <1>4

LEMMA TurnPublishes ==
  ASSUME T!TimelineInv, NEW b \in TimelineBots, T!Publish(b)
  PROVE  T!TimelineInv'
<1>1. PICK kind \in T!Kinds, to \in {"idle", "settling", "ended"} :
        /\ v2[b] # "idle" /\ v2' = [v2 EXCEPT ![b] = to]
        /\ v3' = Append(v3, [kind |-> kind, bot |-> b, row |-> v1[b], seq |-> Len(v3) + 1])
        /\ to = "ended" => kind = "chat"
  BY DEF T!Publish, T!Kinds
<1>2. UNCHANGED <<v1, v4, v5, v6, v7, v8, v9, v10, v11>>
  BY DEF T!Publish, T!transport, T!app
<1>3. /\ v1 \in [TimelineBots -> T!Rows] /\ v3 \in Seq(T!Messages) /\ v7 \in Seq(T!Messages)
      /\ v8 \in TimelineBots \cup {None} /\ Len(v3) \in Nat /\ v4 \in Nat /\ v4 <= Len(v3)
      /\ v2 \in [TimelineBots -> {"idle", "created", "delta", "finished", "settling", "ended"}]
  BY TimelineTypes DEF T!TimelineInv, T!TypeOK
<1> DEFINE n == Len(v3) + 1
           m == [kind |-> kind, bot |-> b, row |-> v1[b], seq |-> n]
<1>4. n \in Nat
  BY <1>3
<1>5. m \in T!Messages /\ m.bot = b /\ m.kind = kind /\ m.seq = n
  BY <1>3, <1>4 DEF T!Messages, T!Kinds
<1>6. v3' = Append(v3, m)
  BY <1>1
<1> HIDE DEF m
<1>7. /\ v3' \in Seq(T!Messages) /\ Len(v3') = n /\ DOMAIN v3' = 1..n
      /\ \A i \in DOMAIN v3 : i \in DOMAIN v3' /\ v3'[i] = v3[i]
      /\ n \in DOMAIN v3' /\ v3'[n] = m
      /\ \A i \in DOMAIN v3' : i \in DOMAIN v3 \/ i = n
  BY <1>3, <1>5, <1>6, Queued
<1> HIDE DEF n
<1>8. v1[b].status # "none"
  BY <1>1 DEF T!TimelineInv, T!EventsAreLogged
<1>9. T!TypeOK'
  <2>1. v4 \in 0..n
    BY <1>3, <1>4 DEF n
  <2>2. v2' \in [TimelineBots -> {"idle", "created", "delta", "finished", "settling", "ended"}]
    BY <1>1, <1>3
  <2>3. QED
    BY <1>2, <1>7, <2>1, <2>2 DEF T!TimelineInv, T!TypeOK, T!NotReading, T!NoMessage
<1>10. T!EventsAreLogged'
  <2>1. \A i \in DOMAIN v3' : v3'[i].seq = i /\ v3'[i].kind \in T!Kinds
    BY <1>5, <1>7 DEF T!TimelineInv, T!EventsAreLogged
  <2>2. \A i \in DOMAIN v7 : v7[i].kind \in T!Kinds => v7[i].seq \in DOMAIN v3'
                                                     /\ v3'[v7[i].seq] = v7[i]
    BY <1>7 DEF T!TimelineInv, T!EventsAreLogged
  <2>3. ASSUME NEW c \in TimelineBots, v1[c].status = "none"
        PROVE  v2'[c] = "idle" /\ \A i \in DOMAIN v3' : v3'[i].bot # c
    <3>1. c # b
      BY <1>8, <2>3
    <3>2. v2[c] = "idle" /\ \A i \in DOMAIN v3 : v3[i].bot # c
      BY <2>3 DEF T!TimelineInv, T!EventsAreLogged
    <3>3. QED
      BY <1>1, <1>3, <1>5, <1>7, <3>1, <3>2
  <2>4. QED
    BY <1>2, <2>1, <2>2, <2>3 DEF T!EventsAreLogged, T!Kinds
<1>11. T!NothingBefore'
  BY <1>2 DEF T!TimelineInv, T!NothingBefore, T!NotReading, T!NoMessage
<1>12. T!Calm' => /\ T!Calm /\ v1'[v8] = v1[v8]
                  /\ \A i \in DOMAIN v3' : v3'[i].bot = v8 => i \in DOMAIN v3 /\ v3'[i] = v3[i]
  <2> SUFFICES ASSUME T!Calm'
               PROVE  /\ T!Calm
                      /\ \A i \in DOMAIN v3' : v3'[i].bot = v8 => i \in DOMAIN v3 /\ v3'[i] = v3[i]
    BY <1>2
  <2>1. v8 \in TimelineBots
    <3>1. v8 # None
      <4> SUFFICES ASSUME v8 = None PROVE FALSE
        OBVIOUS
      <4>1. 1 \in DOMAIN v7 /\ v7[1].kind = "snapshot"
        BY <1>3 DEF T!TimelineInv, T!NothingBefore
      <4>2. QED
        BY <1>2, <4>1 DEF T!Calm, T!AsksAgain
    <3>2. QED
      BY <1>3, <3>1
  <2>2. v8 # b
    <3> SUFFICES ASSUME v8 = b PROVE FALSE
      OBVIOUS
    <3>1. to = "ended"
      BY <1>1, <1>2, <1>3, <1>8 DEF T!Calm, T!Settled
    <3>2. n > v4 /\ v3'[n].kind = "chat" /\ v3'[n].bot = v8'
      BY <1>1, <1>2, <1>3, <1>5, <1>7, <3>1 DEF n
    <3>3. QED
      BY <1>2, <1>7, <3>2 DEF T!Calm, T!AsksAgain
  <2>3. T!Settled(v8)
    BY <1>1, <1>2, <1>3, <2>1, <2>2 DEF T!Calm, T!Settled
  <2>4. \A i \in DOMAIN v3 : i > v4 => ~T!AsksAgain(v3[i])
    BY <1>2, <1>7 DEF T!Calm, T!AsksAgain
  <2>5. \A i \in DOMAIN v7 : ~T!AsksAgain(v7[i])
    BY <1>2 DEF T!Calm, T!AsksAgain
  <2>6. QED
    BY <1>5, <1>7, <2>2, <2>3, <2>4, <2>5 DEF T!Calm
<1>13. T!LastLoadCounts'
  BY <1>2, <1>4, <1>7, <1>12, LoadsWait
<1>14. QED
  BY <1>9, <1>10, <1>11, <1>13 DEF T!TimelineInv

(* An event of no timeline is of no chat. *)
LEMMA OthersPublish ==
  ASSUME T!TimelineInv, T!OtherEvent
  PROVE  T!TimelineInv'
<1> DEFINE n == Len(v3) + 1
           m == [kind |-> "other", bot |-> None, row |-> T!NoMessage, seq |-> n]
<1>1. v3' = Append(v3, m) /\ UNCHANGED <<v1, v2, v4, v5, v6, v7, v8, v9, v10>>
  BY DEF T!OtherEvent, T!app
<1>2. /\ v3 \in Seq(T!Messages) /\ v7 \in Seq(T!Messages) /\ v8 \in TimelineBots \cup {None}
      /\ Len(v3) \in Nat /\ v4 \in Nat /\ v4 <= Len(v3) /\ n \in Nat
  BY TimelineTypes DEF T!TimelineInv
<1>3. m \in T!Messages /\ m.bot = None /\ m.kind = "other" /\ m.seq = n
  BY <1>2, TimelineRecords DEF T!Messages, T!Kinds
<1> HIDE DEF m
<1>4. /\ v3' \in Seq(T!Messages) /\ Len(v3') = n /\ DOMAIN v3' = 1..n
      /\ \A i \in DOMAIN v3 : i \in DOMAIN v3' /\ v3'[i] = v3[i]
      /\ n \in DOMAIN v3' /\ v3'[n] = m
      /\ \A i \in DOMAIN v3' : i \in DOMAIN v3 \/ i = n
  BY <1>1, <1>2, <1>3, Queued
<1>5. v4 \in 0..n
  BY <1>2
<1> HIDE DEF n
<1>6. T!TypeOK'
  BY <1>1, <1>4, <1>5 DEF T!TimelineInv, T!TypeOK, T!NotReading, T!NoMessage
<1>7. T!EventsAreLogged'
  <2>1. \A i \in DOMAIN v3' : v3'[i].seq = i /\ v3'[i].kind \in T!Kinds
    BY <1>3, <1>4 DEF T!TimelineInv, T!EventsAreLogged, T!Kinds
  <2>2. \A i \in DOMAIN v7 : v7[i].kind \in T!Kinds => v7[i].seq \in DOMAIN v3'
                                                     /\ v3'[v7[i].seq] = v7[i]
    BY <1>4 DEF T!TimelineInv, T!EventsAreLogged
  <2>3. ASSUME NEW c \in TimelineBots, v1[c].status = "none"
        PROVE  v2[c] = "idle" /\ \A i \in DOMAIN v3' : v3'[i].bot # c
    <3>1. v2[c] = "idle" /\ \A i \in DOMAIN v3 : v3[i].bot # c
      BY <2>3 DEF T!TimelineInv, T!EventsAreLogged
    <3>2. QED
      BY <1>3, <1>4, <3>1, OwnerAssumption
  <2>4. QED
    BY <1>1, <2>1, <2>2, <2>3 DEF T!EventsAreLogged, T!Kinds
<1>8. T!NothingBefore'
  BY <1>1 DEF T!TimelineInv, T!NothingBefore, T!NotReading, T!NoMessage
<1>9. T!Calm' => /\ T!Calm /\ v1'[v8] = v1[v8]
                 /\ \A i \in DOMAIN v3' : v3'[i].bot = v8 => i \in DOMAIN v3 /\ v3'[i] = v3[i]
  <2> SUFFICES ASSUME T!Calm'
               PROVE  /\ T!Calm
                      /\ \A i \in DOMAIN v3' : v3'[i].bot = v8 => i \in DOMAIN v3 /\ v3'[i] = v3[i]
    BY <1>1
  <2>1. T!Settled(v8) /\ \A i \in DOMAIN v7 : ~T!AsksAgain(v7[i])
    BY <1>1 DEF T!Calm, T!Settled, T!AsksAgain
  <2>2. \A i \in DOMAIN v3 : i > v4 => ~T!AsksAgain(v3[i])
    BY <1>1, <1>4 DEF T!Calm, T!AsksAgain
  <2>3. T!Calm
    BY <2>1, <2>2 DEF T!Calm
  <2>4. v8 # None
    BY <1>2, <2>3, CalmIsChosen, OwnerAssumption DEF T!TimelineInv
  <2>5. QED
    BY <1>3, <1>4, <2>3, <2>4
<1>10. T!LastLoadCounts'
  BY <1>1, <1>2, <1>4, <1>9, LoadsWait
<1>11. QED
  BY <1>6, <1>7, <1>8, <1>10 DEF T!TimelineInv

LEMMA RowsAreRead ==
  ASSUME T!TimelineInv, T!ReadRows
  PROVE  T!TimelineInv'
<1>1. /\ v6 = T!NotReading /\ v5 # <<>> /\ v5' = Tail(v5)
      /\ v6' = [bot |-> Head(v5), row |-> v1[Head(v5)]]
      /\ UNCHANGED <<v1, v2, v3, v4, v7, v8, v9, v10, v11>>
  BY DEF T!ReadRows, T!server, T!app
<1>2. /\ v1 \in [TimelineBots -> T!Rows] /\ v5 \in Seq(TimelineBots) /\ v3 \in Seq(T!Messages)
      /\ Len(v3) \in Nat /\ DOMAIN v3 = 1..Len(v3) /\ v8 \in TimelineBots \cup {None}
  BY TimelineTypes DEF T!TimelineInv
<1>3. /\ Tail(v5) \in Seq(TimelineBots) /\ Head(v5) \in TimelineBots /\ Len(v5) \in Nat \ {0}
      /\ Len(Tail(v5)) = Len(v5) - 1 /\ DOMAIN v5 = 1..Len(v5) /\ Head(v5) = v5[1]
      /\ \A i \in DOMAIN v5 : i = 1 \/ (i - 1 \in DOMAIN Tail(v5) /\ Tail(v5)[i - 1] = v5[i])
  BY <1>1, <1>2, Taken
<1>4. v6' \in [bot : TimelineBots, row : T!Rows] /\ v6' # T!NotReading
  BY <1>1, <1>2, <1>3, TimelineRecords
<1>5. T!TypeOK'
  BY <1>1, <1>3, <1>4 DEF T!TimelineInv, T!TypeOK
<1>6. T!EventsAreLogged'
  BY <1>1 DEF T!TimelineInv, T!EventsAreLogged
<1>7. T!NothingBefore'
  BY <1>1 DEF T!TimelineInv, T!NothingBefore
<1>8. v5[Len(v5)] = v8
  BY <1>1 DEF T!TimelineInv, T!LastLoadCounts
<1>9. v5' # <<>> => v5'[Len(v5')] = v8'
  <2> SUFFICES ASSUME v5' # <<>> PROVE v5'[Len(v5')] = v8
    BY <1>1
  <2>1. Len(v5) # 1
    BY <1>1, <1>3
  <2>2. Len(v5) \in DOMAIN v5 /\ Len(v5') = Len(v5) - 1
    BY <1>1, <1>3
  <2>3. QED
    BY <1>1, <1>3, <1>8, <2>1, <2>2
<1>10. v5' = <<>> => T!Current(v6, Len(v3))'
  <2> SUFFICES ASSUME v5' = <<>> PROVE T!Current(v6, Len(v3))'
    OBVIOUS
  <2>1. Len(v5) = 1
    <3>1. Len(v5') = 0
      OBVIOUS
    <3>2. Len(v5') = Len(v5) - 1 /\ Len(v5) \in Nat
      BY <1>1, <1>3
    <3>3. QED
      BY <3>1, <3>2
  <2>2. v6'.bot = v8 /\ v6'.row = v1[v8]
    BY <1>1, <1>3, <1>8, <2>1
  <2>3. \A i \in DOMAIN v3 : i <= Len(v3)
    BY <1>2
  <2>4. QED
    BY <1>1, <2>2, <2>3 DEF T!Current
<1>11. T!LastLoadCounts'
  <2>1. v6' # T!NotReading'
    BY <1>4 DEF T!NotReading, T!NoMessage
  <2>2. QED
    BY <1>9, <1>10, <2>1 DEF T!LastLoadCounts
<1>12. QED
  BY <1>5, <1>6, <1>7, <1>11 DEF T!TimelineInv

(* What a message at the end of the app's queue does to what the invariant says of it. *)
LEMMA MessageComes ==
  ASSUME T!TimelineInv, NEW m \in T!Messages, v7' = Append(v7, m),
         UNCHANGED <<v1, v2, v3, v5, v8, v9, v10>>,
         v4' \in 0..Len(v3), v6' = T!NotReading,
         m.kind \in T!Kinds => m.seq \in DOMAIN v3 /\ v3[m.seq] = m
  PROVE  /\ T!TypeOK' /\ T!EventsAreLogged' /\ T!NothingBefore'
         /\ v5' # <<>> => v5'[Len(v5')] = v8'
         /\ T!NotReading' = T!NotReading
<1>1. T!NotReading' = T!NotReading
  BY DEF T!NotReading, T!NoMessage
<1>2. v7 \in Seq(T!Messages)
  BY TimelineTypes DEF T!TimelineInv
<1>3. /\ v7' \in Seq(T!Messages) /\ DOMAIN v7' = 1..(Len(v7) + 1) /\ Len(v7) \in Nat /\ v7' # <<>>
      /\ \A i \in DOMAIN v7 : i \in DOMAIN v7' /\ v7'[i] = v7[i]
      /\ \A i \in DOMAIN v7' : i \in DOMAIN v7 \/ v7'[i] = m
      /\ DOMAIN v7 = 1..Len(v7)
  BY <1>2, Queued
<1>4. T!TypeOK'
  BY <1>1, <1>3 DEF T!TimelineInv, T!TypeOK
<1>5. T!EventsAreLogged'
  BY <1>3 DEF T!TimelineInv, T!EventsAreLogged, T!Kinds
<1>6. T!NothingBefore'
  <2> SUFFICES ASSUME v8 = None
               PROVE  v5' = <<>> /\ v6' = T!NotReading /\ v7' # <<>> /\ v7'[1].kind = "snapshot"
    BY <1>1 DEF T!NothingBefore
  <2>1. v5 = <<>> /\ v7 # <<>> /\ v7[1].kind = "snapshot"
    BY DEF T!TimelineInv, T!NothingBefore
  <2>2. 1 \in DOMAIN v7
    BY <1>2, <2>1
  <2>3. QED
    BY <1>3, <2>1, <2>2
<1>7. v5' # <<>> => v5'[Len(v5')] = v8'
  BY DEF T!TimelineInv, T!LastLoadCounts
<1>8. QED
  BY <1>1, <1>4, <1>5, <1>6, <1>7

LEMMA LoadAnswers ==
  ASSUME T!TimelineInv, T!ReadBoundary \/ T!LoadFails
  PROVE  T!TimelineInv'
<1>1. PICK kind \in {"timeline", "failed"}, seq \in Nat, r \in T!Rows :
        /\ v7' = Append(v7, [kind |-> kind, bot |-> v6.bot, row |-> r, seq |-> seq])
        /\ kind = "timeline" => seq = Len(v3) /\ r = v6.row
        /\ v6 # T!NotReading
  <2>1. Len(v3) \in Nat /\ (v6 # T!NotReading => v6.row \in T!Rows)
    BY TimelineTypes DEF T!TimelineInv
  <2>2. CASE T!ReadBoundary
    BY <2>1, <2>2 DEF T!ReadBoundary, T!Respond
  <2>3. CASE T!LoadFails
    BY <2>3, TimelineRecords DEF T!LoadFails, T!Respond
  <2>4. QED
    BY <2>2, <2>3
<1>2. v6' = T!NotReading /\ UNCHANGED <<v1, v2, v3, v4, v5, v8, v9, v10, v11>>
  BY DEF T!ReadBoundary, T!LoadFails, T!Respond, T!server, T!app
<1>3. /\ v7 \in Seq(T!Messages) /\ Len(v3) \in Nat /\ v6 \in [bot : TimelineBots, row : T!Rows]
      /\ v4 \in 0..Len(v3) /\ DOMAIN v3 = 1..Len(v3)
  BY <1>1, TimelineTypes DEF T!TimelineInv, T!TypeOK
<1>4. [kind |-> kind, bot |-> v6.bot, row |-> r, seq |-> seq] \in T!Messages
  BY <1>3 DEF T!Messages, T!Kinds
<1>5. PICK m \in T!Messages : /\ v7' = Append(v7, m)
                              /\ m.kind = kind /\ m.bot = v6.bot /\ m.row = r /\ m.seq = seq
  BY <1>1, <1>4
<1>6. /\ T!TypeOK' /\ T!EventsAreLogged' /\ T!NothingBefore'
      /\ v5' # <<>> => v5'[Len(v5')] = v8'
      /\ T!NotReading' = T!NotReading
  <2>1. m.kind \notin T!Kinds
    BY <1>5 DEF T!Kinds
  <2>2. QED
    BY <1>2, <1>3, <1>5, <2>1, MessageComes
<1> DEFINE n == Len(v7) + 1
<1>7. /\ DOMAIN v7' = 1..n /\ Len(v7) \in Nat /\ n \in DOMAIN v7' /\ v7'[n] = m
      /\ DOMAIN v7 = 1..Len(v7) /\ n \in Nat
      /\ \A i \in DOMAIN v7 : i \in DOMAIN v7' /\ v7'[i] = v7[i]
      /\ \A i \in DOMAIN v7' : i \in DOMAIN v7 \/ i = n
      /\ \A i \in DOMAIN v7 : i < n
  BY <1>3, <1>5, Queued
<1> HIDE DEF n
<1>8. T!Calm' => T!Calm
  BY <1>2, <1>7 DEF T!Calm, T!Settled, T!AsksAgain
<1>9. v5 = <<>> /\ kind = "timeline" => T!Current(m, m.seq)'
  <2> SUFFICES ASSUME v5 = <<>>, kind = "timeline" PROVE T!Current(m, m.seq)'
    OBVIOUS
  <2>1. T!Current(v6, Len(v3))
    BY <1>1 DEF T!TimelineInv, T!LastLoadCounts
  <2>2. v6.bot = v8
    BY <2>1 DEF T!Current
  <2>3. T!Calm' => v6.row = v1[v8]
    BY <1>8, <2>1 DEF T!Current
  <2>4. \A i \in DOMAIN v3 : i <= Len(v3)
    BY <1>3
  <2>5. QED
    BY <1>1, <1>2, <1>5, <2>2, <2>3, <2>4 DEF T!Current
<1>10. T!IsAnswer(m)
  BY <1>5 DEF T!IsAnswer
<1>11. T!LastLoadCounts'
  <2>1. ASSUME v5 = <<>>, NEW i \in DOMAIN v7', v7'[i].kind = "timeline",
               \A j \in DOMAIN v7' : j > i => ~T!IsAnswer(v7'[j])
        PROVE  T!Current(v7[i], v7[i].seq)'
    <3>1. i = n
      BY <1>7, <1>10, <2>1
    <3>2. kind = "timeline" /\ v7'[i] = m
      BY <1>5, <1>7, <2>1, <3>1
    <3>3. QED
      BY <1>9, <2>1, <3>2 DEF T!Current
  <2>2. \E i \in DOMAIN v7' : T!IsAnswer(v7'[i])
    BY <1>7, <1>10
  <2>3. QED
    BY <1>2, <1>6, <2>1, <2>2 DEF T!LastLoadCounts, T!IsAnswer
<1>12. QED
  BY <1>6, <1>11 DEF T!TimelineInv

(* An event or a snapshot is no answer: what the last load has stays current. *)
LEMMA NoAnswerComes ==
  ASSUME T!TimelineInv, NEW m \in T!Messages, v7' = Append(v7, m), ~T!IsAnswer(m),
         UNCHANGED <<v1, v2, v3, v5, v6, v8, v9, v10>>, v6 = T!NotReading,
         T!Calm' => T!Calm
  PROVE  T!LastLoadCounts'
<1>1. \A l, seq : T!Current(l, seq) => T!Current(l, seq)'
  BY DEF T!Current
<1>2. v7 \in Seq(T!Messages)
  BY TimelineTypes DEF T!TimelineInv
<1> DEFINE n == Len(v7) + 1
<1>3. /\ n \in DOMAIN v7' /\ v7'[n] = m
      /\ \A i \in DOMAIN v7 : i \in DOMAIN v7' /\ v7'[i] = v7[i]
      /\ \A i \in DOMAIN v7' : i \in DOMAIN v7 \/ i = n
  BY <1>2, Queued
<1> HIDE DEF n
<1>4. v5' # <<>> => v5'[Len(v5')] = v8'
  BY DEF T!TimelineInv, T!LastLoadCounts
<1>5. ASSUME v5 = <<>>
      PROVE  /\ \A i \in DOMAIN v7 :
                  v7[i].kind = "timeline" /\ (\A j \in DOMAIN v7 : j > i => ~T!IsAnswer(v7[j]))
                    => T!Current(v7[i], v7[i].seq)
             /\ v8 # None /\ ~v10 /\ (\A i \in DOMAIN v7 : ~T!IsAnswer(v7[i]))
                  => T!Current(v9, v9.cursor)
  BY <1>5 DEF T!TimelineInv, T!LastLoadCounts
<1>6. ASSUME v5 = <<>>, NEW i \in DOMAIN v7', v7'[i].kind = "timeline",
             \A j \in DOMAIN v7' : j > i => ~T!IsAnswer(v7'[j])
      PROVE  T!Current(v7[i], v7[i].seq)'
  <2>1. i \in DOMAIN v7 /\ v7'[i] = v7[i]
    BY <1>3, <1>6 DEF T!IsAnswer
  <2>2. T!Current(v7[i], v7[i].seq)
    BY <1>3, <1>5, <1>6, <2>1
  <2>3. QED
    BY <2>1, <2>2 DEF T!Current
<1>7. ASSUME v5 = <<>>, v8 # None, ~v10, \A i \in DOMAIN v7' : ~T!IsAnswer(v7'[i])
      PROVE  T!Current(v9, v9.cursor)'
  <2>1. T!Current(v9, v9.cursor)
    BY <1>3, <1>5, <1>7
  <2>2. QED
    BY <2>1 DEF T!Current
<1>8. QED
  BY <1>4, <1>6, <1>7 DEF T!LastLoadCounts, T!IsAnswer

LEMMA TimelineDelivers ==
  ASSUME T!TimelineInv, T!Deliver
  PROVE  T!TimelineInv'
<1>1. /\ v6 = T!NotReading /\ v4 < Len(v3) /\ v4' = v4 + 1 /\ v7' = Append(v7, v3[v4 + 1])
      /\ UNCHANGED <<v1, v2, v3, v5, v6, v8, v9, v10, v11>>
  BY DEF T!Deliver, T!server, T!app
<1>2. /\ v7 \in Seq(T!Messages) /\ v3 \in Seq(T!Messages) /\ Len(v3) \in Nat /\ v4 \in Nat
      /\ DOMAIN v3 = 1..Len(v3)
  BY TimelineTypes DEF T!TimelineInv
<1> DEFINE n == v4 + 1
           m == v3[n]
<1>3. n \in DOMAIN v3 /\ n \in 0..Len(v3)
  BY <1>1, <1>2
<1>4. m \in T!Messages
  BY <1>2, <1>3
<1>5. m.seq = n /\ m.kind \in T!Kinds
  BY <1>3 DEF T!TimelineInv, T!EventsAreLogged
<1>6. ~T!IsAnswer(m)
  BY <1>5 DEF T!IsAnswer, T!Kinds
<1>7. v7' = Append(v7, m) /\ v4' = n
  BY <1>1
<1>8. \A i \in DOMAIN v3 : i > v4 => i = n \/ i > n
  BY <1>2
<1>9. m.kind \in T!Kinds => m.seq \in DOMAIN v3 /\ v3[m.seq] = m
  BY <1>3, <1>5
<1> HIDE DEF n
<1>10. T!TypeOK' /\ T!EventsAreLogged' /\ T!NothingBefore'
  <2>1. v3[n] \in T!Messages /\ v7' = Append(v7, v3[n]) /\ v4' \in 0..Len(v3) /\ v6' = T!NotReading
    BY <1>1, <1>3, <1>4, <1>7
  <2>2. QED
    BY <1>1, <1>9, <2>1, MessageComes
<1>11. T!Calm' => T!Calm
  <2> SUFFICES ASSUME T!Calm' PROVE T!Calm
    OBVIOUS
  <2>1. /\ Len(v7) + 1 \in DOMAIN v7' /\ v7'[Len(v7) + 1] = m
        /\ \A i \in DOMAIN v7 : i \in DOMAIN v7' /\ v7'[i] = v7[i]
    BY <1>2, <1>4, <1>7, Queued
  <2>2. ~T!AsksAgain(m)
    BY <1>1, <2>1 DEF T!Calm, T!AsksAgain
  <2>3. \A i \in DOMAIN v7 : ~T!AsksAgain(v7[i])
    BY <1>1, <2>1 DEF T!Calm, T!AsksAgain
  <2>4. \A i \in DOMAIN v3 : i > n => ~T!AsksAgain(v3[i])
    BY <1>1, <1>7 DEF T!Calm, T!AsksAgain
  <2>5. \A i \in DOMAIN v3 : i > v4 => ~T!AsksAgain(v3[i])
    BY <1>8, <2>2, <2>4
  <2>6. T!Settled(v8)
    BY <1>1 DEF T!Calm, T!Settled
  <2>7. QED
    BY <2>3, <2>5, <2>6 DEF T!Calm
<1>12. T!LastLoadCounts'
  BY <1>1, <1>4, <1>6, <1>7, <1>11, NoAnswerComes
<1>13. QED
  BY <1>10, <1>12 DEF T!TimelineInv

LEMMA TimelineResets ==
  ASSUME T!TimelineInv, T!Reset
  PROVE  T!TimelineInv'
<1>1. /\ v6 = T!NotReading /\ v4' = Len(v3) /\ v7' = Append(v7, T!Snapshot(Len(v3)))
      /\ UNCHANGED <<v1, v2, v3, v5, v6, v8, v9, v10>>
  BY DEF T!Reset, T!server, T!app
<1>2. v7 \in Seq(T!Messages) /\ Len(v3) \in Nat
  BY TimelineTypes DEF T!TimelineInv
<1> DEFINE m == T!Snapshot(Len(v3))
<1>3. m \in T!Messages /\ m.kind = "snapshot"
  BY <1>2, TimelineRecords
<1>4. v7' = Append(v7, m)
  BY <1>1
<1> HIDE DEF m
<1>5. T!TypeOK' /\ T!EventsAreLogged' /\ T!NothingBefore'
  <2>1. m.kind \notin T!Kinds /\ v4' \in 0..Len(v3) /\ v6' = T!NotReading
    BY <1>1, <1>2, <1>3 DEF T!Kinds
  <2>2. QED
    BY <1>1, <1>3, <1>4, <2>1, MessageComes
<1>6. ~T!Calm'
  <2>1. Len(v7) + 1 \in DOMAIN v7' /\ v7'[Len(v7) + 1] = m
    BY <1>2, <1>3, <1>4, Queued
  <2>2. QED
    BY <1>3, <2>1 DEF T!Calm, T!AsksAgain
<1>7. ~T!IsAnswer(m)
  BY <1>3 DEF T!IsAnswer
<1>8. T!LastLoadCounts'
  BY <1>1, <1>3, <1>4, <1>6, <1>7, NoAnswerComes
<1>9. QED
  BY <1>5, <1>8 DEF T!TimelineInv

(* The app takes the head of its queue. *)
LEMMA MessageGoes ==
  ASSUME T!TypeOK, v7 # <<>>, v7' = Tail(v7)
  PROVE  /\ v7' \in Seq(T!Messages) /\ DOMAIN v7' = 1..(Len(v7) - 1) /\ Len(v7) \in Nat \ {0}
         /\ DOMAIN v7 = 1..Len(v7) /\ 1 \in DOMAIN v7 /\ Head(v7) = v7[1] /\ v7[1] \in T!Messages
         /\ \A i \in DOMAIN v7' : i \in Nat /\ i + 1 \in DOMAIN v7 /\ v7'[i] = v7[i + 1]
         /\ \A i \in DOMAIN v7 : i = 1 \/ (i - 1 \in DOMAIN v7' /\ v7'[i - 1] = v7[i])
<1>1. v7 \in Seq(T!Messages)
  BY TimelineTypes
<1>2. QED
  BY <1>1, Taken

(* What stays of the invariant when the app takes a message and asks for no load: the *)
(* loads on their way, if the rest of the queue is as calm as the whole was.          *)
LEMMA LoadsStay ==
  ASSUME T!TimelineInv, v7 # <<>>, v7' = Tail(v7), UNCHANGED <<v1, v2, v3, v4, v5, v6, v8>>,
         ~T!AsksAgain(v7[1])
  PROVE  /\ T!Calm' => T!Calm
         /\ v5 = <<>> /\ v6 = T!NotReading =>
               \A i \in DOMAIN v7' :
                  v7'[i].kind = "timeline" /\ (\A j \in DOMAIN v7' : j > i => ~T!IsAnswer(v7'[j]))
                    => T!Current(v7[i], v7[i].seq)'
         /\ v5 = <<>> /\ v6 # T!NotReading => T!Current(v6, Len(v3))'
<1>1. /\ DOMAIN v7' = 1..(Len(v7) - 1) /\ Len(v7) \in Nat \ {0} /\ DOMAIN v7 = 1..Len(v7)
      /\ \A i \in DOMAIN v7' : i \in Nat /\ i + 1 \in DOMAIN v7 /\ v7'[i] = v7[i + 1]
      /\ \A i \in DOMAIN v7 : i = 1 \/ (i - 1 \in DOMAIN v7' /\ v7'[i - 1] = v7[i])
  BY MessageGoes DEF T!TimelineInv
<1>2. T!Calm' => T!Calm
  <2> SUFFICES ASSUME T!Calm' PROVE T!Calm
    OBVIOUS
  <2>1. \A i \in DOMAIN v7' : ~T!AsksAgain(v7'[i])
    BY DEF T!Calm, T!AsksAgain
  <2>2. \A i \in DOMAIN v7 : ~T!AsksAgain(v7[i])
    BY <1>1, <2>1
  <2>3. QED
    BY <2>2 DEF T!Calm, T!Settled, T!AsksAgain
<1>3. ASSUME v5 = <<>>, v6 = T!NotReading, NEW i \in DOMAIN v7', v7'[i].kind = "timeline",
             \A j \in DOMAIN v7' : j > i => ~T!IsAnswer(v7'[j])
      PROVE  T!Current(v7[i], v7[i].seq)'
  <2>1. i \in Nat /\ i + 1 \in DOMAIN v7 /\ v7'[i] = v7[i + 1]
    BY <1>1
  <2> DEFINE k == i + 1
  <2>2. \A j \in DOMAIN v7 : j > k => ~T!IsAnswer(v7[j])
    <3> SUFFICES ASSUME NEW j \in DOMAIN v7, j > k PROVE ~T!IsAnswer(v7[j])
      OBVIOUS
    <3>1. j # 1 /\ j - 1 > i
      BY <1>1, <2>1
    <3>2. QED
      BY <1>1, <1>3, <3>1
  <2> HIDE DEF k
  <2>3. k \in DOMAIN v7 /\ v7'[i] = v7[k]
    BY <2>1 DEF k
  <2>4. T!Current(v7[k], v7[k].seq)
    BY <1>3, <2>2, <2>3 DEF T!TimelineInv, T!LastLoadCounts
  <2>5. v7[k].bot = v8 /\ (T!Calm => /\ v7[k].row = v1[v8]
                                     /\ \A e \in DOMAIN v3 : v3[e].bot = v8 => e <= v7[k].seq)
    BY <2>4 DEF T!Current
  <2>6. QED
    BY <1>2, <2>3, <2>5 DEF T!Current
<1>4. ASSUME v5 = <<>>, v6 # T!NotReading
      PROVE  T!Current(v6, Len(v3))'
  <2>1. T!Current(v6, Len(v3))
    BY <1>4 DEF T!TimelineInv, T!LastLoadCounts
  <2>2. QED
    BY <1>2, <2>1 DEF T!Current
<1>5. QED
  BY <1>2, <1>3, <1>4

(* ... and the parts of it that say nothing of loads. *)
LEMMA HandledKeepsTheRest ==
  ASSUME T!TimelineInv, v7 # <<>>, v7' = Tail(v7), v7[1].kind # "snapshot" \/ v8' # None,
         UNCHANGED <<v1, v2, v3, v4, v6>>, v5' \in Seq(TimelineBots),
         v8' \in TimelineBots \cup {None}, v8' # v8 => v8' # None,
         v9' \in [bot : TimelineBots \cup {None}, row : T!Rows, cursor : Nat, stale : BOOLEAN],
         v10' \in BOOLEAN
  PROVE  T!TypeOK' /\ T!EventsAreLogged' /\ T!NothingBefore'
<1>1. /\ v7' \in Seq(T!Messages) /\ 1 \in DOMAIN v7
      /\ \A i \in DOMAIN v7' : i \in Nat /\ i + 1 \in DOMAIN v7 /\ v7'[i] = v7[i + 1]
  BY MessageGoes DEF T!TimelineInv
<1>2. T!TypeOK'
  BY <1>1 DEF T!TimelineInv, T!TypeOK, T!NotReading, T!NoMessage
<1>3. T!EventsAreLogged'
  BY <1>1 DEF T!TimelineInv, T!EventsAreLogged, T!Kinds
<1>4. T!NothingBefore'
  <2>1. v8' # None
    BY DEF T!TimelineInv, T!NothingBefore
  <2>2. QED
    BY <2>1 DEF T!NothingBefore
<1>5. QED
  BY <1>2, <1>3, <1>4

(* An event leaves a view alone, or asks for the chat again, or moves it on by one. *)
LEMMA EventApplied ==
  ASSUME NEW v \in [bot : TimelineBots \cup {None}, row : T!Rows, cursor : Nat, stale : BOOLEAN],
         NEW e \in T!Messages
  PROVE  /\ T!ApplyEvent(v, e) \in [bot : TimelineBots \cup {None}, row : T!Rows,
                                      cursor : Nat, stale : BOOLEAN]
         /\ T!ApplyEvent(v, e).bot = v.bot
         /\ \/ T!ApplyEvent(v, e).stale
            \/ T!ApplyEvent(v, e).row = v.row /\ T!ApplyEvent(v, e).cursor = v.cursor
            \/ /\ e.seq = v.cursor + 1 /\ T!ApplyEvent(v, e).cursor = e.seq
               /\ e.bot # v.bot => T!ApplyEvent(v, e).row = v.row
<1> DEFINE Views == [bot : TimelineBots \cup {None}, row : T!Rows, cursor : Nat, stale : BOOLEAN]
<1>1. e.row \in T!Rows /\ e.seq \in Nat /\ v.row.text \in Seq(Nat) /\ v.row \in T!Rows
      /\ e.row.text \in Seq(Nat)
  BY DEF T!Messages, T!Rows
<1>2. /\ T!Reconcile(v, e) \in Views /\ T!Reconcile(v, e).bot = v.bot
      /\ e.bot # v.bot => T!Reconcile(v, e).row = v.row
  <2> DEFINE n == Len(e.row.text)
             t == Append(v.row.text, n)
  <2>1. n \in Nat
    BY <1>1
  <2>2. t \in Seq(Nat)
    BY <1>1, <2>1
  <2>3. [v EXCEPT !.row.text = t] \in Views /\ [v EXCEPT !.row.text = t].bot = v.bot
    <3> HIDE DEF t
    <3>1. [v.row EXCEPT !.text = t] \in T!Rows
      BY <1>1, <2>2 DEF T!Rows
    <3>2. [v EXCEPT !.row.text = t] = [v EXCEPT !.row = [v.row EXCEPT !.text = t]]
      OBVIOUS
    <3> DEFINE r == [v.row EXCEPT !.text = t]
    <3>3. [v EXCEPT !.row = r] \in Views /\ [v EXCEPT !.row = r].bot = v.bot
      <4>1. r \in T!Rows
        BY <3>1
      <4> HIDE DEF r
      <4>2. QED
        BY <4>1
    <3>4. QED
      BY <3>2, <3>3
  <2>4. [v EXCEPT !.row = e.row] \in Views /\ [v EXCEPT !.row = e.row].bot = v.bot
    BY <1>1
  <2>5. [v EXCEPT !.stale = TRUE] \in Views /\ [v EXCEPT !.stale = TRUE].bot = v.bot
    OBVIOUS
  <2>6. \/ T!Reconcile(v, e) = v
        \/ T!Reconcile(v, e) = [v EXCEPT !.row = e.row] /\ e.bot = v.bot
        \/ T!Reconcile(v, e) = [v EXCEPT !.row.text = t] /\ e.bot = v.bot
        \/ T!Reconcile(v, e) = [v EXCEPT !.stale = TRUE] /\ e.bot = v.bot
    BY DEF T!Reconcile
  <2> HIDE DEF t, Views
  <2>7. v \in Views
    BY DEF Views
  <2>8. QED
    BY <2>3, <2>4, <2>5, <2>6, <2>7
<1> DEFINE r == T!Reconcile(v, e)
           a == [r EXCEPT !.cursor = e.seq]
           s == [v EXCEPT !.stale = TRUE]
<1>3. a \in Views /\ a.bot = v.bot /\ a.cursor = e.seq /\ (e.bot # v.bot => a.row = v.row)
  <2> HIDE DEF r
  <2>1. r \in Views /\ r.bot = v.bot /\ (e.bot # v.bot => r.row = v.row)
    BY <1>2 DEF r
  <2>2. QED
    BY <1>1, <2>1
<1>4. s \in Views /\ s.bot = v.bot /\ s.stale
  OBVIOUS
<1>5. \/ T!ApplyEvent(v, e) = v
      \/ T!ApplyEvent(v, e) = a /\ e.seq = v.cursor + 1
      \/ T!ApplyEvent(v, e) = s
  BY DEF T!ApplyEvent
<1> HIDE DEF a, s
<1>6. v \in Views
  OBVIOUS
<1>7. QED
  BY <1>3, <1>4, <1>5, <1>6

LEMMA EventHandled ==
  ASSUME T!TimelineInv, T!HandleServer
  PROVE  T!TimelineInv'
<1>1. PICK e : e = v7[1]
  OBVIOUS
<1>2. PICK w : w = T!ApplyEvent(v9, e)
  OBVIOUS
<1>3. v7 # <<>> /\ v7' = Tail(v7) /\ Head(v7).kind \in T!Kinds
      /\ UNCHANGED <<v1, v2, v3, v4, v6, v8, v10, v11>>
  BY DEF T!HandleServer, T!Handling, T!server
<1>4. /\ e \in T!Messages /\ Head(v7) = e /\ 1 \in DOMAIN v7
      /\ \A i \in DOMAIN v7' : i \in Nat /\ i + 1 \in DOMAIN v7 /\ v7'[i] = v7[i + 1]
      /\ \A i \in DOMAIN v7 : i = 1 \/ (i - 1 \in DOMAIN v7' /\ v7'[i - 1] = v7[i])
  BY <1>1, <1>3, MessageGoes DEF T!TimelineInv
<1>5. v9' = w /\ v5' = v5 \o T!Reloads(e) \o (IF w.stale THEN <<v8>> ELSE <<>>)
  BY <1>2, <1>4 DEF T!HandleServer
<1>6. e.kind \in T!Kinds /\ e.seq \in DOMAIN v3 /\ v3[e.seq] = e
  BY <1>1, <1>3, <1>4 DEF T!TimelineInv, T!EventsAreLogged
<1>7. v8 \in TimelineBots
  <2>1. v8 # None
    BY <1>1, <1>3, <1>4 DEF T!TimelineInv, T!NothingBefore, T!Kinds
  <2>2. QED
    BY <2>1, TimelineTypes DEF T!TimelineInv
<1>8. v9 \in [bot : TimelineBots \cup {None}, row : T!Rows, cursor : Nat, stale : BOOLEAN]
      /\ v5 \in Seq(TimelineBots) /\ v10 \in BOOLEAN /\ v8 \in TimelineBots \cup {None}
  BY DEF T!TimelineInv, T!TypeOK
<1>9. /\ w \in [bot : TimelineBots \cup {None}, row : T!Rows, cursor : Nat, stale : BOOLEAN]
      /\ w.bot = v9.bot
      /\ \/ w.stale
         \/ w.row = v9.row /\ w.cursor = v9.cursor
         \/ e.seq = v9.cursor + 1 /\ w.cursor = e.seq /\ (e.bot # v9.bot => w.row = v9.row)
  BY <1>2, <1>4, <1>8, EventApplied
<1>10. T!Reloads(e) = <<v8>> \/ T!Reloads(e) = <<>>
  BY DEF T!Reloads
<1>11. /\ v5' \in Seq(TimelineBots)
       /\ \/ v5' # <<>> /\ v5'[Len(v5')] = v8
          \/ v5' = v5 /\ T!Reloads(e) = <<>> /\ ~w.stale
  <2>1. \A q \in Seq(TimelineBots) :
          /\ q \o <<>> = q /\ q \o <<v8>> \in Seq(TimelineBots) /\ q \o <<v8>> # <<>>
          /\ (q \o <<v8>>)[Len(q \o <<v8>>)] = v8
    BY <1>7
  <2>2. PICK q : q = v5 \o T!Reloads(e)
    OBVIOUS
  <2>3. /\ q \in Seq(TimelineBots)
        /\ T!Reloads(e) = <<v8>> => q # <<>> /\ q[Len(q)] = v8
        /\ T!Reloads(e) = <<>> => q = v5
    BY <1>8, <1>10, <2>1, <2>2
  <2>4. v5' = q \o (IF w.stale THEN <<v8>> ELSE <<>>)
    BY <1>5, <2>2
  <2>5. CASE w.stale
    BY <2>1, <2>3, <2>4, <2>5
  <2>6. CASE ~w.stale
    <3>1. v5' = q
      BY <2>1, <2>3, <2>4, <2>6
    <3>2. <<v8>> # <<>>
      OBVIOUS
    <3>3. QED
      BY <1>10, <2>3, <2>6, <3>1, <3>2
  <2>7. QED
    BY <2>5, <2>6
<1>12. T!TypeOK' /\ T!EventsAreLogged' /\ T!NothingBefore'
  <2>1. v7[1].kind # "snapshot"
    BY <1>1, <1>6 DEF T!Kinds
  <2>2. v9' \in [bot : TimelineBots \cup {None}, row : T!Rows, cursor : Nat, stale : BOOLEAN]
    BY <1>5, <1>9
  <2>3. QED
    BY <1>3, <1>8, <1>11, <2>1, <2>2, HandledKeepsTheRest
<1>13. T!LastLoadCounts'
  <2>1. CASE v5' # <<>> /\ v5'[Len(v5')] = v8
    BY <1>3, <2>1 DEF T!LastLoadCounts
  <2>2. CASE v5' = v5 /\ T!Reloads(e) = <<>> /\ ~w.stale
    <3>1. ~T!AsksAgain(v7[1])
      BY <1>1, <1>6, <2>2 DEF T!Reloads, T!AsksAgain, T!Kinds
    <3>2. /\ T!Calm' => T!Calm
          /\ v5 = <<>> /\ v6 = T!NotReading =>
               \A i \in DOMAIN v7' :
                  v7'[i].kind = "timeline" /\ (\A j \in DOMAIN v7' : j > i => ~T!IsAnswer(v7'[j]))
                    => T!Current(v7[i], v7[i].seq)'
          /\ v5 = <<>> /\ v6 # T!NotReading => T!Current(v6, Len(v3))'
      BY <1>3, <2>2, <3>1, LoadsStay
    <3>3. v5' # <<>> => v5'[Len(v5')] = v8'
      BY <1>3, <2>2 DEF T!TimelineInv, T!LastLoadCounts
    <3>4. ASSUME v5 = <<>>, v6 = T!NotReading, ~v10, \A i \in DOMAIN v7' : ~T!IsAnswer(v7'[i])
          PROVE  T!Current(v9, v9.cursor)'
      <4>1. \A i \in DOMAIN v7 : ~T!IsAnswer(v7[i])
        BY <1>1, <1>4, <1>6, <3>4 DEF T!IsAnswer, T!Kinds
      <4>2. T!Current(v9, v9.cursor)
        BY <1>7, <3>4, <4>1, OwnerAssumption DEF T!TimelineInv, T!LastLoadCounts
      <4>3. w.bot = v8
        BY <1>9, <4>2 DEF T!Current
      <4>4. ASSUME T!Calm
            PROVE  w.row = v1[v8] /\ \A i \in DOMAIN v3 : v3[i].bot = v8 => i <= w.cursor
        <5>1. v9.row = v1[v8] /\ \A i \in DOMAIN v3 : v3[i].bot = v8 => i <= v9.cursor
          BY <4>2, <4>4 DEF T!Current
        <5>2. CASE w.row = v9.row /\ w.cursor = v9.cursor
          BY <5>1, <5>2
        <5>3. CASE e.seq = v9.cursor + 1 /\ w.cursor = e.seq /\ (e.bot # v9.bot => w.row = v9.row)
          <6>1. v9.cursor \in Nat /\ DOMAIN v3 = 1..Len(v3) /\ Len(v3) \in Nat
            BY <1>8, TimelineTypes DEF T!TimelineInv
          <6>2. e.bot # v8
            BY <1>6, <5>1, <5>3, <6>1
          <6>3. w.row = v9.row
            BY <1>9, <4>3, <5>3, <6>2
          <6>4. \A i \in DOMAIN v3 : i <= v9.cursor => i <= w.cursor
            BY <5>3, <6>1
          <6>5. QED
            BY <5>1, <6>3, <6>4
        <5>4. QED
          BY <1>9, <2>2, <5>2, <5>3
      <4>5. QED
        BY <1>3, <1>5, <3>2, <4>3, <4>4 DEF T!Current
    <3>5. QED
      BY <1>3, <2>2, <3>2, <3>3, <3>4 DEF T!LastLoadCounts, T!IsAnswer, T!NotReading, T!NoMessage
  <2>3. QED
    BY <1>11, <2>1, <2>2
<1>14. QED
  BY <1>12, <1>13 DEF T!TimelineInv

(* One that is taken out before the views see it changes none of them. *)
LEMMA OthersHandled ==
  ASSUME T!TimelineInv, T!HandleOther
  PROVE  T!TimelineInv'
<1>1. /\ v7 # <<>> /\ v7' = Tail(v7) /\ Head(v7).kind = "other"
      /\ UNCHANGED <<v1, v2, v3, v4, v5, v6, v8, v9, v10>>
  BY DEF T!HandleOther, T!Handling, T!server, T!app
<1>2. /\ Head(v7) = v7[1] /\ 1 \in DOMAIN v7
      /\ \A i \in DOMAIN v7 : i = 1 \/ (i - 1 \in DOMAIN v7' /\ v7'[i - 1] = v7[i])
  BY <1>1, MessageGoes DEF T!TimelineInv
<1>3. v7[1].kind # "snapshot" /\ ~T!AsksAgain(v7[1]) /\ ~T!IsAnswer(v7[1])
  BY <1>1, <1>2 DEF T!AsksAgain, T!IsAnswer
<1>4. T!TypeOK' /\ T!EventsAreLogged' /\ T!NothingBefore'
  <2>1. /\ v9 \in [bot : TimelineBots \cup {None}, row : T!Rows, cursor : Nat, stale : BOOLEAN]
        /\ v5 \in Seq(TimelineBots) /\ v8 \in TimelineBots \cup {None} /\ v10 \in BOOLEAN
    BY DEF T!TimelineInv, T!TypeOK
  <2>2. QED
    BY <1>1, <1>3, <2>1, HandledKeepsTheRest
<1>5. /\ T!Calm' => T!Calm
      /\ v5 = <<>> /\ v6 = T!NotReading =>
           \A i \in DOMAIN v7' :
              v7'[i].kind = "timeline" /\ (\A j \in DOMAIN v7' : j > i => ~T!IsAnswer(v7'[j]))
                => T!Current(v7[i], v7[i].seq)'
      /\ v5 = <<>> /\ v6 # T!NotReading => T!Current(v6, Len(v3))'
  BY <1>1, <1>3, LoadsStay
<1>6. v5' # <<>> => v5'[Len(v5')] = v8'
  BY <1>1 DEF T!TimelineInv, T!LastLoadCounts
<1>7. ASSUME v5 = <<>>, v6 = T!NotReading, v8 # None, ~v10,
             \A i \in DOMAIN v7' : ~T!IsAnswer(v7'[i])
      PROVE  T!Current(v9, v9.cursor)'
  <2>1. \A i \in DOMAIN v7 : ~T!IsAnswer(v7[i])
    BY <1>2, <1>3, <1>7 DEF T!IsAnswer
  <2>2. T!Current(v9, v9.cursor)
    BY <1>7, <2>1 DEF T!TimelineInv, T!LastLoadCounts
  <2>3. v9.bot = v8 /\ (T!Calm => /\ v9.row = v1[v8]
                                  /\ \A i \in DOMAIN v3 : v3[i].bot = v8 => i <= v9.cursor)
    BY <2>2 DEF T!Current
  <2>4. QED
    BY <1>1, <1>5, <2>3 DEF T!Current
<1>8. T!LastLoadCounts'
  BY <1>1, <1>5, <1>6, <1>7 DEF T!LastLoadCounts, T!IsAnswer, T!NotReading, T!NoMessage
<1>9. QED
  BY <1>4, <1>8 DEF T!TimelineInv

LEMMA AnswerHandled ==
  ASSUME T!TimelineInv, T!Hydrate \/ T!HandleFailure
  PROVE  T!TimelineInv'
<1>1. PICK e : e = v7[1]
  OBVIOUS
<1>2. /\ v7 # <<>> /\ v7' = Tail(v7) /\ T!IsAnswer(Head(v7))
      /\ UNCHANGED <<v1, v2, v3, v4, v5, v6, v8, v11>>
      /\ \/ v10' = TRUE /\ v9' = v9
         \/ /\ Head(v7).kind = "timeline" /\ v10' = FALSE
            /\ v9' = [bot |-> Head(v7).bot, row |-> Head(v7).row, cursor |-> Head(v7).seq, stale |-> FALSE]
  BY DEF T!Hydrate, T!HandleFailure, T!Handling, T!server, T!IsAnswer
<1>3. /\ e \in T!Messages /\ Head(v7) = e /\ 1 \in DOMAIN v7 /\ DOMAIN v7 = 1..Len(v7)
      /\ \A i \in DOMAIN v7' : i \in Nat /\ i + 1 \in DOMAIN v7 /\ v7'[i] = v7[i + 1]
      /\ \A i \in DOMAIN v7 : i = 1 \/ (i - 1 \in DOMAIN v7' /\ v7'[i - 1] = v7[i])
  BY <1>1, <1>2, MessageGoes DEF T!TimelineInv
<1>4. \/ v10' = TRUE /\ v9' = v9
      \/ /\ e.kind = "timeline" /\ v10' = FALSE
         /\ v9' \in [bot : TimelineBots \cup {None}, row : T!Rows, cursor : Nat, stale : BOOLEAN]
         /\ v9'.bot = e.bot /\ v9'.row = e.row /\ v9'.cursor = e.seq
  <2>1. e.bot \in TimelineBots \cup {None} /\ e.row \in T!Rows /\ e.seq \in Nat
    BY <1>3 DEF T!Messages
  <2> DEFINE w == [bot |-> e.bot, row |-> e.row, cursor |-> e.seq, stale |-> FALSE]
  <2>2. /\ w \in [bot : TimelineBots \cup {None}, row : T!Rows, cursor : Nat, stale : BOOLEAN]
        /\ w.bot = e.bot /\ w.row = e.row /\ w.cursor = e.seq
    BY <2>1
  <2>3. \/ v10' = TRUE /\ v9' = v9
        \/ e.kind = "timeline" /\ v10' = FALSE /\ v9' = w
    BY <1>2, <1>3
  <2> HIDE DEF w
  <2>4. QED
    BY <2>2, <2>3
<1>5. e.kind # "snapshot" /\ ~T!AsksAgain(v7[1]) /\ T!IsAnswer(e)
  BY <1>1, <1>2, <1>3 DEF T!IsAnswer, T!AsksAgain
<1>6. T!TypeOK' /\ T!EventsAreLogged' /\ T!NothingBefore'
  <2>1. /\ v9 \in [bot : TimelineBots \cup {None}, row : T!Rows, cursor : Nat, stale : BOOLEAN]
        /\ v5 \in Seq(TimelineBots) /\ v8 \in TimelineBots \cup {None}
    BY DEF T!TimelineInv, T!TypeOK
  <2>2. QED
    BY <1>1, <1>2, <1>4, <1>5, <2>1, HandledKeepsTheRest
<1>7. /\ T!Calm' => T!Calm
      /\ v5 = <<>> /\ v6 = T!NotReading =>
           \A i \in DOMAIN v7' :
              v7'[i].kind = "timeline" /\ (\A j \in DOMAIN v7' : j > i => ~T!IsAnswer(v7'[j]))
                => T!Current(v7[i], v7[i].seq)'
      /\ v5 = <<>> /\ v6 # T!NotReading => T!Current(v6, Len(v3))'
  BY <1>2, <1>5, LoadsStay
<1>8. v5' # <<>> => v5'[Len(v5')] = v8'
  BY <1>2 DEF T!TimelineInv, T!LastLoadCounts
<1>9. ASSUME v5 = <<>>, v6 = T!NotReading, ~v10', \A i \in DOMAIN v7' : ~T!IsAnswer(v7'[i])
      PROVE  T!Current(v9, v9.cursor)'
  <2>1. e.kind = "timeline" /\ v9'.bot = e.bot /\ v9'.row = e.row /\ v9'.cursor = e.seq
    BY <1>4, <1>9
  <2>2. \A j \in DOMAIN v7 : j > 1 => ~T!IsAnswer(v7[j])
    BY <1>3, <1>9
  <2>3. T!Current(e, e.seq)
    BY <1>1, <1>3, <1>9, <2>1, <2>2 DEF T!TimelineInv, T!LastLoadCounts
  <2>4. e.bot = v8 /\ (T!Calm => /\ e.row = v1[v8]
                                 /\ \A i \in DOMAIN v3 : v3[i].bot = v8 => i <= e.seq)
    BY <2>3 DEF T!Current
  <2>5. QED
    BY <1>2, <1>7, <2>1, <2>4 DEF T!Current
<1>10. T!LastLoadCounts'
  BY <1>2, <1>7, <1>8, <1>9 DEF T!LastLoadCounts, T!IsAnswer, T!NotReading, T!NoMessage
<1>11. QED
  BY <1>6, <1>10 DEF T!TimelineInv

(* A snapshot and a selection ask for the timeline. *)
LEMMA TimelineAskedFor ==
  ASSUME T!TimelineInv, T!ApplySnapshot \/ \E b \in TimelineBots : T!Select(b)
  PROVE  T!TimelineInv'
<1>1. v5 \in Seq(TimelineBots) /\ v8 \in TimelineBots \cup {None} /\ v10 \in BOOLEAN
      /\ v9 \in [bot : TimelineBots \cup {None}, row : T!Rows, cursor : Nat, stale : BOOLEAN]
  BY DEF T!TimelineInv, T!TypeOK
<1>2. PICK b \in TimelineBots : /\ v8' = b /\ v5' = Append(v5, b)
                                /\ UNCHANGED <<v1, v2, v3, v4, v6, v9, v10>>
  BY <1>1 DEF T!ApplySnapshot, T!Select, T!Handling, T!server
<1>3. v5' \in Seq(TimelineBots) /\ v5' # <<>> /\ v5'[Len(v5')] = v8' /\ v8' # None
  <2>1. Append(v5, b) \in Seq(TimelineBots) /\ Append(v5, b) # <<>> /\ Len(Append(v5, b)) = Len(v5) + 1
        /\ Append(v5, b)[Len(v5) + 1] = b
    BY <1>1, Queued
  <2>2. QED
    BY <1>2, <2>1, OwnerAssumption
<1>4. T!LastLoadCounts'
  BY <1>3 DEF T!LastLoadCounts
<1>5. CASE v7' = v7
  <2>1. T!TypeOK'
    BY <1>1, <1>2, <1>3, <1>5 DEF T!TimelineInv, T!TypeOK, T!NotReading, T!NoMessage
  <2>2. T!EventsAreLogged'
    BY <1>2, <1>5 DEF T!TimelineInv, T!EventsAreLogged
  <2>3. T!NothingBefore'
    BY <1>3 DEF T!NothingBefore
  <2>4. QED
    BY <1>4, <2>1, <2>2, <2>3 DEF T!TimelineInv
<1>6. CASE v7 # <<>> /\ v7' = Tail(v7)
  <2>1. T!TypeOK' /\ T!EventsAreLogged' /\ T!NothingBefore'
    BY <1>1, <1>2, <1>3, <1>6, HandledKeepsTheRest
  <2>2. QED
    BY <1>4, <2>1 DEF T!TimelineInv
<1>7. QED
  BY <1>5, <1>6 DEF T!ApplySnapshot, T!Select, T!Handling

LEMMA TimelineStarts ==
  ASSUME T!Init
  PROVE  T!TimelineInv
<1>1. /\ v1 = [b \in TimelineBots |-> T!NoMessage] /\ v2 = [b \in TimelineBots |-> "idle"]
      /\ v3 = <<>> /\ v4 = 0 /\ v5 = <<>> /\ v7 = <<T!Snapshot(0)>> /\ v6 = T!NotReading
      /\ v8 = None /\ v9 = T!EmptyView /\ v10 = FALSE
  BY DEF T!Init
<1>2. v7 \in Seq(T!Messages) /\ v7 # <<>> /\ v7[1].kind = "snapshot" /\ DOMAIN v7 = {1}
  <2>1. T!Snapshot(0) \in T!Messages /\ T!Snapshot(0).kind = "snapshot"
    BY TimelineRecords
  <2>2. QED
    BY <1>1, <2>1
<1>3. T!TypeOK
  <2>1. v3 \in Seq(T!Messages) /\ Len(v3) = 0 /\ v5 \in Seq(TimelineBots) /\ v4 \in 0..Len(v3)
    BY <1>1
  <2>2. QED
    BY <1>1, <1>2, <2>1, TimelineRecords DEF T!TypeOK
<1>4. T!EventsAreLogged
  <2>1. DOMAIN v3 = {}
    BY <1>1
  <2>2. \A i \in DOMAIN v7 : v7[i].kind \notin T!Kinds
    BY <1>2 DEF T!Kinds
  <2>3. QED
    BY <1>1, <2>1, <2>2 DEF T!EventsAreLogged
<1>5. T!NothingBefore
  BY <1>1, <1>2 DEF T!NothingBefore
<1>6. T!LastLoadCounts
  BY <1>1, <1>2 DEF T!LastLoadCounts
<1>7. QED
  BY <1>3, <1>4, <1>5, <1>6 DEF T!TimelineInv

LEMMA TimelineStutters ==
  ASSUME T!TimelineInv, UNCHANGED T!vars
  PROVE  T!TimelineInv'
BY DEF T!TimelineInv, T!TypeOK, T!EventsAreLogged, T!NothingBefore, T!LastLoadCounts, T!Current,
       T!Calm, T!Settled, T!AsksAgain, T!IsAnswer, T!NotReading, T!NoMessage, T!vars

LEMMA TimelineStep ==
  ASSUME T!TimelineInv, [T!Next]_(T!vars)
  PROVE  T!TimelineInv'
<1>1. WorkingBots \subseteq TimelineBots
  BY OwnerAssumption
<1>2. CASE \E b \in WorkingBots : T!CreateMessage(b) \/ T!AppendDelta(b) \/ T!FinishMessage(b)
  BY <1>1, <1>2, TurnSteps
<1>3. CASE \E b \in WorkingBots : T!Publish(b)
  BY <1>1, <1>3, TurnPublishes
<1>4. CASE (\E b \in TimelineBots : T!Select(b)) \/ T!ApplySnapshot
  BY <1>4, TimelineAskedFor
<1>5. CASE T!ReadRows
  BY <1>5, RowsAreRead
<1>6. CASE T!ReadBoundary \/ T!LoadFails
  BY <1>6, LoadAnswers
<1>7. CASE T!Deliver
  BY <1>7, TimelineDelivers
<1>8. CASE T!Reset
  BY <1>8, TimelineResets
<1>9. CASE T!HandleServer
  BY <1>9, EventHandled
<1>10. CASE T!Hydrate \/ T!HandleFailure
  BY <1>10, AnswerHandled
<1>11. CASE T!OtherEvent
  BY <1>11, OthersPublish
<1>12. CASE T!HandleOther
  BY <1>12, OthersHandled
<1>13. CASE UNCHANGED T!vars
  BY <1>13, TimelineStutters
<1>14. QED
  BY <1>2, <1>3, <1>4, <1>5, <1>6, <1>7, <1>8, <1>9, <1>10, <1>11, <1>12, <1>13 DEF T!Next

LEMMA TimelineSettles ==
  ASSUME T!TimelineInv
  PROVE  T!SettledViewAgrees
<1> SUFFICES ASSUME T!Quiet, ~v10
             PROVE  v9.bot = v8 /\ v9.row = v1[v8]
  BY DEF T!SettledViewAgrees
<1>1. /\ v7 = <<>> /\ v5 = <<>> /\ v6 = T!NotReading /\ v4 = Len(v3)
      /\ \A b \in TimelineBots : v2[b] = "ended" \/ v1[b].status = "none"
  BY DEF T!Quiet
<1>2. v8 # None
  BY <1>1 DEF T!TimelineInv, T!NothingBefore
<1>3. v8 \in TimelineBots /\ Len(v3) \in Nat /\ DOMAIN v3 = 1..Len(v3) /\ DOMAIN v7 = {}
  BY <1>1, <1>2, TimelineTypes DEF T!TimelineInv
<1>4. T!Calm
  <2>1. \A i \in DOMAIN v3 : ~(i > v4)
    BY <1>1, <1>3
  <2>2. QED
    BY <1>1, <1>3, <2>1 DEF T!Calm, T!Settled
<1>5. T!Current(v9, v9.cursor)
  BY <1>1, <1>2, <1>3 DEF T!TimelineInv, T!LastLoadCounts
<1>6. QED
  BY <1>4, <1>5 DEF T!Current

-----------------------------------------------------------------------------
(* The desktop's group view. Slots: v1 row, v2 unpublished, v3 log, v4 cursor, v5      *)
(* commands, v6 reading, v7 inbox, v8 selected, v9 view, v10 failed, v11 shifts.       *)

(* The module's own copies of the operators on finite sets are the library's. *)
LEMMA GroupCounting ==
  /\ \A X : G!Cardinality(X) = Cardinality(X)
  /\ \A X : G!IsFiniteSet(X) <=> IsFiniteSet(X)
BY DEF G!Cardinality, Cardinality, G!IsFiniteSet, IsFiniteSet

LEMMA GroupTypes ==
  ASSUME G!TypeOK
  PROVE  /\ v1 \in [OpenGroups -> G!Rows] /\ v2 \subseteq G!Writes /\ IsFiniteSet(v2)
         /\ v3 \in Seq(G!Logged) /\ v7 \in Seq(G!Messages) /\ v5 \in Seq(OpenGroups)
         /\ Len(v3) \in Nat /\ DOMAIN v3 = 1..Len(v3) /\ v4 \in Nat /\ v4 <= Len(v3)
         /\ v6 # G!NotReading => v6 \in [group : OpenGroups, rows : G!Rows, at : {"rows", "boundary"}]
         /\ v8 \in OpenGroups \cup {None} /\ v10 \in BOOLEAN /\ v11 \in Nat
         /\ v9 \in [group : OpenGroups \cup {None}, rows : G!Rows, cursor : Nat,
                    stale : BOOLEAN, torn : BOOLEAN]
BY GroupCounting DEF G!TypeOK

(* What is counted as written. *)
LEMMA GroupSoFar ==
  ASSUME G!TypeOK
  PROVE  G!WritesSoFar \in Nat /\ G!WritesSoFar = Len(v3) + Cardinality(v2) /\ Cardinality(v2) \in Nat
<1>1. Cardinality(v2) \in Nat /\ Len(v3) \in Nat
  BY GroupTypes, FS_CardinalityType
<1>2. QED
  BY <1>1, GroupCounting DEF G!WritesSoFar

LEMMA GroupSoFarNext == G!WritesSoFar' = Len(v3') + Cardinality(v2')
<1>1. G!Cardinality(v2') = Cardinality(v2')
  BY GroupCounting
<1>2. G!WritesSoFar' = Len(v3') + G!Cardinality(v2')
  BY DEF G!WritesSoFar, G!Cardinality, G!IsFiniteSet
<1>3. QED
  BY <1>1, <1>2

LEMMA GroupRecords ==
  /\ G!NotReading.group = None /\ G!NotReading.at = "idle" /\ G!NotReading' = G!NotReading
  /\ G!Unwritten \in G!Rows /\ \A p \in G!Parts : G!Unwritten[p] = 0
  /\ "group" \in G!Parts
  /\ \A m \in G!Messages : /\ m.kind = "timeline" => m \in G!Timelines
                           /\ m.kind = "event" => m \in G!Events
                           /\ m.kind \in {"event", "other", "timeline", "failed", "snapshot"}
  /\ G!Events \subseteq G!Messages /\ G!Timelines \subseteq G!Messages
  /\ G!Logged \subseteq G!Messages /\ G!Events \subseteq G!Logged
  /\ \A m \in G!Logged : /\ m.part \in G!Parts /\ m.version \in Nat /\ m.seq \in Nat
                         /\ m.kind \in {"event", "other"}
                         /\ m.group = None \/ (m \in G!Events /\ m.group \in OpenGroups)
                         /\ m.group = None => m.version = 0
  /\ [kind |-> "failed"] \in G!Messages /\ [kind |-> "snapshot"] \in G!Messages
<1>1. G!NotReading.group = None /\ G!NotReading.at = "idle" /\ G!NotReading' = G!NotReading
  BY DEF G!NotReading, G!Unwritten, G!Parts
<1>2. G!Unwritten \in G!Rows /\ \A p \in G!Parts : G!Unwritten[p] = 0
  BY DEF G!Unwritten, G!Rows
<1>3. "group" \in G!Parts
  BY DEF G!Parts
<1>4. \A m \in G!Messages : /\ m.kind = "timeline" => m \in G!Timelines
                            /\ m.kind = "event" => m \in G!Events
                            /\ m.kind \in {"event", "other", "timeline", "failed", "snapshot"}
  <2>1. /\ \A m \in G!Events : m.kind = "event"
        /\ \A m \in G!Others : m.kind = "other"
        /\ \A m \in G!Timelines : m.kind = "timeline"
        /\ \A m \in [kind : {"failed", "snapshot"}] : m.kind \in {"failed", "snapshot"}
    BY DEF G!Events, G!Others, G!Timelines
  <2>2. QED
    BY <2>1 DEF G!Messages, G!Logged
<1>5. /\ G!Events \subseteq G!Messages /\ G!Timelines \subseteq G!Messages
      /\ G!Logged \subseteq G!Messages /\ G!Events \subseteq G!Logged
      /\ [kind |-> "failed"] \in G!Messages /\ [kind |-> "snapshot"] \in G!Messages
  BY DEF G!Messages, G!Logged
<1>6. \A m \in G!Logged : /\ m.part \in G!Parts /\ m.version \in Nat /\ m.seq \in Nat
                          /\ m.kind \in {"event", "other"}
                          /\ m.group = None \/ (m \in G!Events /\ m.group \in OpenGroups)
                          /\ m.group = None => m.version = 0
  <2>1. /\ \A m \in G!Events : /\ m.part \in G!Parts /\ m.version \in Nat /\ m.seq \in Nat
                               /\ m.kind = "event" /\ m.group \in OpenGroups
        /\ \A m \in G!Others : /\ m.part = "group" /\ m.version = 0 /\ m.seq \in Nat
                               /\ m.kind = "other" /\ m.group = None
    BY DEF G!Events, G!Others
  <2>2. QED
    BY <1>3, <2>1, OwnerAssumption DEF G!Logged
<1>7. QED
  BY <1>1, <1>2, <1>3, <1>4, <1>5, <1>6

(* What has been learnt stays so while the log grows and no row goes back. *)
LEMMA LearntStays ==
  ASSUME G!TypeOK, \A g \in OpenGroups, p \in G!Parts : v1[g][p] \in Nat /\ v1'[g][p] \in Nat
                                                       /\ v1[g][p] <= v1'[g][p],
         Len(v3') \in Nat, Len(v3) <= Len(v3'), DOMAIN v3' = 1..Len(v3'),
         \A i \in DOMAIN v3 : v3'[i] = v3[i]
  PROVE  /\ \A rows \in G!Rows : \A g : G!Written(g, rows) =>
               (g \in OpenGroups => \A p \in G!Parts : rows[p] <= v1'[g][p])
         /\ \A seq \in Nat : \A g, rows : G!Learnt(g, rows, seq) =>
               /\ seq <= Len(v3')
               /\ \A i \in DOMAIN v3' : i <= seq /\ v3'[i].group = g => v3'[i].version <= rows[v3'[i].part]
<1>1. Len(v3) \in Nat /\ DOMAIN v3 = 1..Len(v3)
  BY GroupTypes
<1>2. ASSUME NEW g, NEW rows \in G!Rows, G!Written(g, rows), g \in OpenGroups, NEW p \in G!Parts
      PROVE  rows[p] <= v1'[g][p]
  <2>1. rows[p] <= v1[g][p] /\ rows[p] \in Nat
    BY <1>2 DEF G!Written, G!Rows
  <2>2. v1[g][p] \in Nat /\ v1'[g][p] \in Nat /\ v1[g][p] <= v1'[g][p]
    BY <1>2
  <2>3. QED
    BY <2>1, <2>2
<1>3. ASSUME NEW g, NEW rows, NEW seq \in Nat, G!Learnt(g, rows, seq)
      PROVE  /\ seq <= Len(v3')
             /\ \A i \in DOMAIN v3' : i <= seq /\ v3'[i].group = g => v3'[i].version <= rows[v3'[i].part]
  <2>1. seq <= Len(v3)
    BY <1>3 DEF G!Learnt
  <2>2. \A i \in DOMAIN v3' : i <= seq => i \in DOMAIN v3
    BY <1>1, <2>1
  <2>3. seq <= Len(v3')
    BY <1>1, <2>1
  <2>4. QED
    BY <1>3, <2>2, <2>3 DEF G!Learnt
<1>4. QED
  BY <1>2, <1>3

(* The records that a view, a load and an answer carry. *)
LEMMA GroupRowsCarried ==
  ASSUME G!TypeOK
  PROVE  /\ v6.rows \in G!Rows /\ v9.rows \in G!Rows /\ v9.cursor \in Nat
         /\ \A i \in DOMAIN v7 : v7[i] \in G!Messages
         /\ \A i \in DOMAIN v7 : v7[i].kind = "timeline" => /\ v7[i].rows \in G!Rows /\ v7[i].seq \in Nat
                                                          /\ v7[i].group \in OpenGroups
<1>1. v6.rows \in G!Rows
  <2>1. G!NotReading.rows \in G!Rows
    BY GroupRecords DEF G!NotReading
  <2>2. QED
    BY <2>1, GroupTypes
<1>2. v9.rows \in G!Rows /\ v9.cursor \in Nat
  BY GroupTypes
<1>3. \A i \in DOMAIN v7 : v7[i] \in G!Messages
  BY GroupTypes
<1>4. \A i \in DOMAIN v7 : v7[i].kind = "timeline" => v7[i] \in G!Timelines
  BY <1>3, GroupRecords
<1>5. QED
  BY <1>1, <1>2, <1>3, <1>4 DEF G!Timelines

(* A step of the server leaves the loads and the views in step. *)
LEMMA GroupServerSteps ==
  ASSUME G!GroupViewInv, UNCHANGED <<v4, v5, v6, v7, v8, v9, v10>>,
         \A g \in OpenGroups, p \in G!Parts : v1[g][p] \in Nat /\ v1'[g][p] \in Nat
                                               /\ v1[g][p] <= v1'[g][p],
         Len(v3') \in Nat, Len(v3) <= Len(v3'), DOMAIN v3' = 1..Len(v3'),
         \A i \in DOMAIN v3 : v3'[i] = v3[i]
  PROVE  G!EventsAreLogged' /\ G!LastLoadCounts' /\ G!ViewsInStep'
<1>1. /\ \A rows \in G!Rows : \A g : G!Written(g, rows) =>
               (g \in OpenGroups => \A p \in G!Parts : rows[p] <= v1'[g][p])
      /\ \A seq \in Nat : \A g, rows : G!Learnt(g, rows, seq) =>
               /\ seq <= Len(v3')
               /\ \A i \in DOMAIN v3' : i <= seq /\ v3'[i].group = g => v3'[i].version <= rows[v3'[i].part]
  BY LearntStays DEF G!GroupViewInv
<1>2. /\ v6.rows \in G!Rows /\ v9.rows \in G!Rows /\ v9.cursor \in Nat
      /\ \A i \in DOMAIN v7 : v7[i].kind = "timeline" => v7[i].rows \in G!Rows /\ v7[i].seq \in Nat
  BY GroupRowsCarried DEF G!GroupViewInv
<1>3. Len(v3) \in Nat /\ DOMAIN v3 = 1..Len(v3) /\ DOMAIN v3 \subseteq DOMAIN v3'
  BY GroupTypes DEF G!GroupViewInv
<1>4. G!EventsAreLogged'
  BY <1>3 DEF G!GroupViewInv, G!EventsAreLogged
<1>5. G!LastLoadCounts'
  BY GroupRecords DEF G!GroupViewInv, G!LastLoadCounts, G!IsAnswer
<1>6. G!Written(v6.group, v6.rows)' /\ G!Written(v9.group, v9.rows)'
  BY <1>1, <1>2 DEF G!GroupViewInv, G!ViewsInStep, G!Written, G!Parts
<1>7. v9.cursor <= Len(v3') /\ (~v9.torn => G!Learnt(v9.group, v9.rows, v9.cursor)')
  <2>1. v9.cursor <= Len(v3)
    BY DEF G!GroupViewInv, G!ViewsInStep
  <2>2. v9.cursor <= Len(v3')
    BY <1>2, <1>3, <2>1
  <2>3. ASSUME ~v9.torn PROVE G!Learnt(v9.group, v9.rows, v9.cursor)'
    <3>1. G!Learnt(v9.group, v9.rows, v9.cursor)
      BY <2>3 DEF G!GroupViewInv, G!ViewsInStep
    <3>2. QED
      BY <1>1, <1>2, <3>1 DEF G!Learnt
  <2>4. QED
    BY <2>2, <2>3
<1>8. ASSUME NEW i \in DOMAIN v7, v7[i].kind = "timeline"
      PROVE  /\ G!Written(v7[i].group, v7[i].rows)' /\ v7[i].seq <= Len(v3')
             /\ ~v7[i].torn => G!Learnt(v7[i].group, v7[i].rows, v7[i].seq)'
  <2>1. /\ G!Written(v7[i].group, v7[i].rows) /\ v7[i].seq <= Len(v3)
        /\ ~v7[i].torn => G!Learnt(v7[i].group, v7[i].rows, v7[i].seq)
    BY <1>8 DEF G!GroupViewInv, G!ViewsInStep
  <2>2. v7[i].rows \in G!Rows /\ v7[i].seq \in Nat
    BY <1>2, <1>8
  <2>3. v7[i].seq <= Len(v3')
    BY <1>3, <2>1, <2>2
  <2>4. G!Written(v7[i].group, v7[i].rows)'
    BY <1>1, <2>1, <2>2 DEF G!Written, G!Parts
  <2>5. ASSUME ~v7[i].torn PROVE G!Learnt(v7[i].group, v7[i].rows, v7[i].seq)'
    BY <1>1, <2>1, <2>2, <2>5 DEF G!Learnt
  <2>6. QED
    BY <2>3, <2>4, <2>5
<1>9. G!ViewsInStep'
  BY <1>6, <1>7, <1>8 DEF G!ViewsInStep
<1>10. QED
  BY <1>4, <1>5, <1>9

(* Every version that a row has is counted. *)
LEMMA VersionsAreCounted ==
  ASSUME G!TypeOK, G!WritesInOrder, NEW g \in OpenGroups, NEW p \in G!Parts
  PROVE  v1[g][p] \in Nat /\ v1[g][p] <= G!WritesSoFar
<1>1. v1[g][p] \in Nat
  BY GroupTypes DEF G!Rows
<1>2. CASE v1[g][p] = 0
  BY <1>2, GroupSoFar
<1>3. CASE \E w \in v2 : w.group = g /\ w.part = p
  BY <1>1, <1>3 DEF G!WritesInOrder
<1>4. CASE \E i \in DOMAIN v3 : v3[i].group = g /\ v3[i].part = p /\ v3[i].version = v1[g][p]
  BY <1>1, <1>4 DEF G!WritesInOrder
<1>5. QED
  BY <1>1, <1>2, <1>3, <1>4 DEF G!WritesInOrder

LEMMA GroupWrites ==
  ASSUME G!GroupViewInv, NEW g \in OpenGroups, NEW p \in G!Parts, G!Write(g, p)
  PROVE  G!GroupViewInv'
<1> DEFINE n == G!WritesSoFar + 1
           w == [group |-> g, part |-> p, version |-> n]
<1>1. /\ \A u \in v2 : u.group # g \/ u.part # p
      /\ v1' = [v1 EXCEPT ![g][p] = n] /\ v2' = v2 \cup {w}
      /\ UNCHANGED <<v3, v4, v5, v6, v7, v8, v9, v10, v11>>
  BY DEF G!Write, G!app
<1>2. G!TypeOK /\ G!WritesInOrder
  BY DEF G!GroupViewInv
<1>3. n \in Nat /\ n = G!WritesSoFar + 1 /\ G!WritesSoFar \in Nat
  BY <1>2, GroupSoFar
<1>4. w \in G!Writes /\ w.group = g /\ w.part = p /\ w.version = n
  BY <1>3 DEF G!Writes
<1> HIDE DEF w
<1>5. w \notin v2
  BY <1>1, <1>4
<1>6. /\ v1 \in [OpenGroups -> G!Rows] /\ v2 \subseteq G!Writes /\ IsFiniteSet(v2)
      /\ Len(v3) \in Nat /\ DOMAIN v3 = 1..Len(v3) /\ v3 \in Seq(G!Logged)
  BY <1>2, GroupTypes
<1>7. /\ IsFiniteSet(v2') /\ Cardinality(v2') = Cardinality(v2) + 1 /\ Cardinality(v2) \in Nat
  BY <1>1, <1>5, <1>6, FS_AddElement, FS_CardinalityType
<1>8. G!WritesSoFar' = n
  <2>1. G!WritesSoFar' = Len(v3) + (Cardinality(v2) + 1)
    BY <1>1, <1>7, GroupSoFarNext
  <2>2. QED
    BY <1>2, <1>3, <1>6, <1>7, <2>1, GroupSoFar
<1> HIDE DEF n
<1>9. /\ v1' \in [OpenGroups -> G!Rows] /\ v1'[g][p] = n
      /\ \A h \in OpenGroups, q \in G!Parts : h # g \/ q # p => v1'[h][q] = v1[h][q]
  <2>1. [v1[g] EXCEPT ![p] = n] \in G!Rows
    BY <1>3, <1>6 DEF G!Rows
  <2>2. v1[g] \in [G!Parts -> Nat]
    BY <1>6 DEF G!Rows
  <2>3. v1' = [v1 EXCEPT ![g] = [v1[g] EXCEPT ![p] = n]]
    BY <1>1
  <2> DEFINE r == [v1[g] EXCEPT ![p] = n]
  <2>4. r[p] = n /\ \A q \in G!Parts : q # p => r[q] = v1[g][q]
    BY <2>2
  <2> HIDE DEF r
  <2>5. v1' \in [OpenGroups -> G!Rows] /\ v1'[g] = r /\ \A h \in OpenGroups : h # g => v1'[h] = v1[h]
    BY <1>6, <2>1, <2>3 DEF r
  <2>6. QED
    BY <2>4, <2>5
<1>10. \A h \in OpenGroups, q \in G!Parts : v1[h][q] \in Nat /\ v1[h][q] <= G!WritesSoFar /\ v1'[h][q] \in Nat
                                             /\ v1[h][q] <= v1'[h][q]
  <2> SUFFICES ASSUME NEW h \in OpenGroups, NEW q \in G!Parts
               PROVE  v1[h][q] \in Nat /\ v1[h][q] <= G!WritesSoFar /\ v1'[h][q] \in Nat
                      /\ v1[h][q] <= v1'[h][q]
    OBVIOUS
  <2>1. v1[h][q] \in Nat /\ v1[h][q] <= G!WritesSoFar
    BY <1>2, VersionsAreCounted
  <2>2. CASE h = g /\ q = p
    BY <1>3, <1>9, <2>1, <2>2
  <2>3. CASE h # g \/ q # p
    BY <1>9, <2>1, <2>3
  <2>4. QED
    BY <2>1, <2>2, <2>3
<1>11. G!TypeOK'
  <2>1. v2' \subseteq G!Writes /\ G!IsFiniteSet(v2')
    BY <1>1, <1>4, <1>6, <1>7, GroupCounting
  <2>2. G!IsFiniteSet(v2)'
    BY <2>1 DEF G!IsFiniteSet
  <2>3. QED
    BY <1>1, <1>2, <1>9, <2>1, <2>2, GroupRecords DEF G!TypeOK, G!NotReading, G!Unwritten, G!Parts
<1>12. G!WritesInOrder'
  <2>1. \A i \in DOMAIN v3 : /\ v3[i].group # None => v3[i].group \in OpenGroups
                             /\ v3[i].part \in G!Parts /\ v3[i].version \in Nat
    <3>1. \A i \in DOMAIN v3 : v3[i] \in G!Logged
      BY <1>6
    <3>2. QED
      BY <3>1, GroupRecords
  <2>2. ASSUME NEW i \in DOMAIN v3
        PROVE  /\ v3[i].seq = i /\ v3[i].version <= n
               /\ v3[i].group # None => v3[i].version <= v1'[v3[i].group][v3[i].part]
    <3>1. /\ v3[i].seq = i /\ v3[i].version <= G!WritesSoFar
          /\ v3[i].group # None => v3[i].version <= v1[v3[i].group][v3[i].part]
      BY <1>2 DEF G!WritesInOrder
    <3>2. v3[i].version \in Nat
      BY <2>1
    <3>3. v3[i].group # None =>
            /\ v1[v3[i].group][v3[i].part] \in Nat /\ v1'[v3[i].group][v3[i].part] \in Nat
            /\ v1[v3[i].group][v3[i].part] <= v1'[v3[i].group][v3[i].part]
      BY <1>10, <2>1
    <3>4. QED
      BY <1>3, <3>1, <3>2, <3>3
  <2>3. ASSUME NEW u \in v2'
        PROVE  u.version = v1'[u.group][u.part] /\ u.version <= n
    <3>1. CASE u = w
      BY <1>3, <1>4, <1>9, <3>1
    <3>2. CASE u \in v2
      <4>1. u.version = v1[u.group][u.part] /\ u.version <= G!WritesSoFar
        BY <1>2, <3>2 DEF G!WritesInOrder
      <4>2. u.group \in OpenGroups /\ u.part \in G!Parts /\ u.version \in Nat
        BY <1>6, <3>2 DEF G!Writes
      <4>3. v1'[u.group][u.part] = v1[u.group][u.part]
        BY <1>1, <1>9, <3>2, <4>2
      <4>4. QED
        BY <1>3, <4>1, <4>2, <4>3
    <3>3. QED
      BY <1>1, <2>3, <3>1, <3>2
  <2>4. ASSUME NEW h \in OpenGroups, NEW q \in G!Parts
        PROVE  \/ v1'[h][q] = 0
               \/ \E u \in v2' : u.group = h /\ u.part = q
               \/ \E i \in DOMAIN v3 : v3[i].group = h /\ v3[i].part = q /\ v3[i].version = v1'[h][q]
    <3>1. CASE h = g /\ q = p
      BY <1>1, <1>4, <3>1
    <3>2. CASE h # g \/ q # p
      <4>1. v1'[h][q] = v1[h][q]
        BY <1>9, <3>2
      <4>2. QED
        BY <1>1, <1>2, <4>1 DEF G!WritesInOrder
    <3>3. QED
      BY <3>1, <3>2
  <2>5. \A i, j \in DOMAIN v3 :
          i <= j /\ v3[i].group = v3[j].group /\ v3[i].part = v3[j].part => v3[i].version <= v3[j].version
    BY <1>2 DEF G!WritesInOrder
  <2>6. QED
    BY <1>1, <1>8, <2>2, <2>3, <2>4, <2>5 DEF G!WritesInOrder, G!Parts
<1>13. G!EventsAreLogged' /\ G!LastLoadCounts' /\ G!ViewsInStep'
  <2>1. Len(v3') \in Nat /\ Len(v3) <= Len(v3') /\ DOMAIN v3' = 1..Len(v3') /\ \A i \in DOMAIN v3 : v3'[i] = v3[i]
    BY <1>1, <1>6
  <2>2. QED
    BY <1>1, <1>10, <2>1, GroupServerSteps
<1>14. QED
  BY <1>11, <1>12, <1>13 DEF G!GroupViewInv

LEMMA GroupPublishes ==
  ASSUME G!GroupViewInv, G!Publish
  PROVE  G!GroupViewInv'
<1>1. PICK w \in v2 :
        /\ v3' = Append(v3, [kind |-> "event", group |-> w.group, part |-> w.part,
                             version |-> w.version, seq |-> Len(v3) + 1])
        /\ v2' = v2 \ {w}
  BY DEF G!Publish
<1>2. UNCHANGED <<v1, v4, v5, v6, v7, v8, v9, v10, v11>>
  BY DEF G!Publish, G!app
<1>3. G!TypeOK /\ G!WritesInOrder
  BY DEF G!GroupViewInv
<1>4. /\ v1 \in [OpenGroups -> G!Rows] /\ v2 \subseteq G!Writes /\ IsFiniteSet(v2) /\ v3 \in Seq(G!Logged)
      /\ Len(v3) \in Nat /\ v4 \in Nat /\ v4 <= Len(v3)
      /\ DOMAIN v3 = 1..Len(v3)
  BY <1>3, GroupTypes
<1>5. /\ w.group \in OpenGroups /\ w.part \in G!Parts /\ w.version \in Nat
      /\ w.version = v1[w.group][w.part] /\ w.version <= G!WritesSoFar
  BY <1>3, <1>4 DEF G!Writes, G!WritesInOrder
<1> DEFINE n == Len(v3) + 1
           m == [kind |-> "event", group |-> w.group, part |-> w.part, version |-> w.version, seq |-> n]
<1>6. n \in Nat
  BY <1>4
<1>7. /\ m \in G!Logged /\ m.group = w.group /\ m.part = w.part /\ m.version = w.version /\ m.seq = n
  BY <1>5, <1>6 DEF G!Events, G!Logged
<1>8. v3' = Append(v3, m)
  BY <1>1
<1> HIDE DEF m
<1>9. /\ v3' \in Seq(G!Logged) /\ Len(v3') = n /\ DOMAIN v3' = 1..n
      /\ \A i \in DOMAIN v3 : i \in DOMAIN v3' /\ v3'[i] = v3[i]
      /\ n \in DOMAIN v3' /\ v3'[n] = m
      /\ \A i \in DOMAIN v3' : i \in DOMAIN v3 \/ i = n
  BY <1>4, <1>7, <1>8, Queued
<1>10. n = Len(v3) + 1
  OBVIOUS
<1> HIDE DEF n
<1>11. IsFiniteSet(v2') /\ G!WritesSoFar' = G!WritesSoFar
  <2>1. /\ IsFiniteSet(v2') /\ Cardinality(v2') = Cardinality(v2) - 1 /\ Cardinality(v2) \in Nat
    BY <1>1, <1>4, FS_RemoveElement, FS_CardinalityType
  <2>2. G!WritesSoFar' = Len(v3') + Cardinality(v2') /\ G!WritesSoFar = Len(v3) + Cardinality(v2)
    BY <1>3, GroupSoFar, GroupSoFarNext
  <2>3. QED
    BY <1>4, <1>9, <1>10, <2>1, <2>2
<1>12. G!TypeOK'
  <2>1. v2' \subseteq G!Writes /\ G!IsFiniteSet(v2')
    BY <1>1, <1>4, <1>11, GroupCounting
  <2>2. G!IsFiniteSet(v2)'
    BY <2>1 DEF G!IsFiniteSet
  <2>3. v4 \in 0..n
    BY <1>4, <1>10
  <2>4. QED
    BY <1>2, <1>3, <1>9, <2>1, <2>2, <2>3, GroupRecords
       DEF G!TypeOK, G!NotReading, G!Unwritten, G!Parts
<1>13. \A i \in DOMAIN v3 :
          /\ v3[i].seq = i /\ v3[i].version \in Nat /\ v3[i].version <= G!WritesSoFar
          /\ v3[i].group # None => v3[i].version <= v1[v3[i].group][v3[i].part]
          /\ v3[i].group = w.group /\ v3[i].part = w.part => v3[i].version <= w.version
  <2>1. \A i \in DOMAIN v3 : v3[i] \in G!Logged
    BY <1>4
  <2>2. QED
    BY <1>3, <1>5, <2>1, GroupRecords, OwnerAssumption DEF G!WritesInOrder
<1>14. G!WritesInOrder'
  <2>1. ASSUME NEW i \in DOMAIN v3'
        PROVE  /\ v3'[i].seq = i /\ v3'[i].version <= G!WritesSoFar
               /\ v3'[i].group # None => v3'[i].version <= v1[v3'[i].group][v3'[i].part]
    <3>1. CASE i \in DOMAIN v3
      BY <1>9, <1>13, <3>1
    <3>2. CASE i = n
      BY <1>5, <1>7, <1>9, <3>2
    <3>3. QED
      BY <1>9, <2>1, <3>1, <3>2
  <2>2. ASSUME NEW i \in DOMAIN v3', NEW j \in DOMAIN v3', i <= j, v3'[i].group = v3'[j].group,
               v3'[i].part = v3'[j].part
        PROVE  v3'[i].version <= v3'[j].version
    <3>1. CASE j = n
      <4>1. i \in DOMAIN v3 \/ i = n
        BY <1>9
      <4>2. QED
        BY <1>5, <1>7, <1>9, <1>13, <2>2, <3>1, <4>1
    <3>2. CASE j \in DOMAIN v3
      <4>1. i \in DOMAIN v3
        BY <1>4, <1>9, <1>10, <2>2, <3>2
      <4>2. QED
        BY <1>3, <1>9, <2>2, <3>2, <4>1 DEF G!WritesInOrder
    <3>3. QED
      BY <1>9, <2>2, <3>1, <3>2
  <2>3. \A u \in v2' : u.version = v1[u.group][u.part] /\ u.version <= G!WritesSoFar
    BY <1>1, <1>3 DEF G!WritesInOrder
  <2>4. ASSUME NEW h \in OpenGroups, NEW q \in G!Parts
        PROVE  \/ v1[h][q] = 0
               \/ \E u \in v2' : u.group = h /\ u.part = q
               \/ \E i \in DOMAIN v3' : v3'[i].group = h /\ v3'[i].part = q /\ v3'[i].version = v1[h][q]
    <3>1. CASE h = w.group /\ q = w.part
      BY <1>5, <1>7, <1>9, <3>1
    <3>2. CASE \E u \in v2 : u.group = h /\ u.part = q /\ u # w
      BY <1>1, <3>2
    <3>3. CASE \E i \in DOMAIN v3 : v3[i].group = h /\ v3[i].part = q /\ v3[i].version = v1[h][q]
      BY <1>9, <3>3
    <3>4. QED
      BY <1>3, <3>1, <3>2, <3>3 DEF G!WritesInOrder
  <2>5. QED
    BY <1>2, <1>11, <2>1, <2>2, <2>3, <2>4 DEF G!WritesInOrder, G!Parts
<1>15. G!EventsAreLogged' /\ G!LastLoadCounts' /\ G!ViewsInStep'
  <2>1. Len(v3') \in Nat /\ Len(v3) <= Len(v3') /\ DOMAIN v3' = 1..Len(v3')
    BY <1>4, <1>6, <1>9, <1>10
  <2>2. \A g \in OpenGroups, p \in G!Parts : v1[g][p] \in Nat /\ v1'[g][p] \in Nat /\ v1[g][p] <= v1'[g][p]
    BY <1>2, <1>4 DEF G!Rows
  <2>3. QED
    BY <1>2, <1>9, <2>1, <2>2, GroupServerSteps
<1>16. QED
  BY <1>12, <1>14, <1>15 DEF G!GroupViewInv

(* An event of no group is of no row. *)
LEMMA GroupOthersPublish ==
  ASSUME G!GroupViewInv, G!OtherEvent
  PROVE  G!GroupViewInv'
<1> DEFINE n == Len(v3) + 1
           m == [kind |-> "other", group |-> None, part |-> "group", version |-> 0, seq |-> n]
<1>1. v3' = Append(v3, m) /\ v11' = v11 + 1 /\ UNCHANGED <<v1, v2, v4, v5, v6, v7, v8, v9, v10>>
  BY DEF G!OtherEvent, G!app
<1>2. G!TypeOK /\ G!WritesInOrder
  BY DEF G!GroupViewInv
<1>3. /\ v1 \in [OpenGroups -> G!Rows] /\ v2 \subseteq G!Writes /\ IsFiniteSet(v2) /\ v3 \in Seq(G!Logged)
      /\ Len(v3) \in Nat /\ v4 \in Nat /\ v4 <= Len(v3) /\ DOMAIN v3 = 1..Len(v3) /\ v11' \in Nat
      /\ n \in Nat
  BY <1>1, <1>2, GroupTypes
<1>4. m \in G!Logged /\ m.group = None /\ m.version = 0 /\ m.seq = n
  BY <1>3 DEF G!Others, G!Logged
<1> HIDE DEF m
<1>5. /\ v3' \in Seq(G!Logged) /\ Len(v3') = n /\ DOMAIN v3' = 1..n
      /\ \A i \in DOMAIN v3 : i \in DOMAIN v3' /\ v3'[i] = v3[i]
      /\ n \in DOMAIN v3' /\ v3'[n] = m
      /\ \A i \in DOMAIN v3' : i \in DOMAIN v3 \/ i = n
  BY <1>1, <1>3, <1>4, Queued
<1>6. n = Len(v3) + 1
  OBVIOUS
<1> HIDE DEF n
<1>7. G!WritesSoFar \in Nat /\ G!WritesSoFar' = G!WritesSoFar + 1
  <2>1. G!WritesSoFar' = Len(v3') + Cardinality(v2)
    BY <1>1, GroupSoFarNext
  <2>2. QED
    BY <1>2, <1>3, <1>5, <1>6, <2>1, GroupSoFar
<1>8. G!TypeOK'
  <2>1. G!IsFiniteSet(v2)'
    BY <1>1, <1>2 DEF G!TypeOK, G!IsFiniteSet
  <2>2. v4 \in 0..n
    BY <1>3, <1>6
  <2>3. QED
    BY <1>1, <1>2, <1>3, <1>5, <2>1, <2>2, GroupRecords DEF G!TypeOK, G!NotReading, G!Unwritten, G!Parts
<1>9. G!WritesInOrder'
  <2>1. \A i \in DOMAIN v3 : v3[i].version \in Nat /\ (v3[i].group = None => v3[i].version = 0)
    <3>1. \A i \in DOMAIN v3 : v3[i] \in G!Logged
      BY <1>3
    <3>2. QED
      BY <3>1, GroupRecords
  <2>2. ASSUME NEW i \in DOMAIN v3'
        PROVE  /\ v3'[i].seq = i /\ v3'[i].version <= G!WritesSoFar + 1
               /\ v3'[i].group # None => v3'[i].version <= v1[v3'[i].group][v3'[i].part]
    <3>1. CASE i \in DOMAIN v3
      <4>1. /\ v3[i].seq = i /\ v3[i].version <= G!WritesSoFar
            /\ v3[i].group # None => v3[i].version <= v1[v3[i].group][v3[i].part]
        BY <1>2, <3>1 DEF G!WritesInOrder
      <4>2. QED
        BY <1>5, <1>7, <2>1, <3>1, <4>1
    <3>2. CASE i = n
      BY <1>4, <1>5, <1>7, <3>2
    <3>3. QED
      BY <1>5, <2>2, <3>1, <3>2
  <2>3. ASSUME NEW i \in DOMAIN v3', NEW j \in DOMAIN v3', i <= j, v3'[i].group = v3'[j].group,
               v3'[i].part = v3'[j].part
        PROVE  v3'[i].version <= v3'[j].version
    <3>1. CASE j = n
      <4>1. i \in DOMAIN v3 \/ i = n
        BY <1>5
      <4>2. QED
        BY <1>4, <1>5, <2>1, <2>3, <3>1, <4>1
    <3>2. CASE j \in DOMAIN v3
      <4>1. i \in DOMAIN v3
        BY <1>3, <1>5, <1>6, <2>3, <3>2
      <4>2. QED
        BY <1>2, <1>5, <2>3, <3>2, <4>1 DEF G!WritesInOrder
    <3>3. QED
      BY <1>5, <2>3, <3>1, <3>2
  <2>4. ASSUME NEW u \in v2
        PROVE  u.version = v1[u.group][u.part] /\ u.version <= G!WritesSoFar + 1
    <3>1. u.version = v1[u.group][u.part] /\ u.version <= G!WritesSoFar /\ u.version \in Nat
      BY <1>2, <1>3 DEF G!WritesInOrder, G!Writes
    <3>2. QED
      BY <1>7, <3>1
  <2>5. ASSUME NEW h \in OpenGroups, NEW q \in G!Parts
        PROVE  \/ v1[h][q] = 0
               \/ \E u \in v2 : u.group = h /\ u.part = q
               \/ \E i \in DOMAIN v3' : v3'[i].group = h /\ v3'[i].part = q /\ v3'[i].version = v1[h][q]
    BY <1>2, <1>5 DEF G!WritesInOrder
  <2>6. QED
    BY <1>1, <1>7, <2>2, <2>3, <2>4, <2>5 DEF G!WritesInOrder, G!Parts
<1>10. G!EventsAreLogged' /\ G!LastLoadCounts' /\ G!ViewsInStep'
  <2>1. Len(v3') \in Nat /\ Len(v3) <= Len(v3') /\ DOMAIN v3' = 1..Len(v3')
    BY <1>3, <1>5, <1>6
  <2>2. \A g \in OpenGroups, p \in G!Parts : v1[g][p] \in Nat /\ v1'[g][p] \in Nat /\ v1[g][p] <= v1'[g][p]
    BY <1>1, <1>3 DEF G!Rows
  <2>3. QED
    BY <1>1, <1>5, <2>1, <2>2, GroupServerSteps
<1>11. QED
  BY <1>8, <1>9, <1>10 DEF G!GroupViewInv

-----------------------------------------------------------------------------
LEMMA GroupOrderStays ==
  ASSUME G!GroupViewInv, UNCHANGED <<v1, v2, v3>>
  PROVE  /\ G!WritesInOrder' /\ G!IsFiniteSet(v2)'
         /\ \A g, rows : G!Written(g, rows) => (g \in OpenGroups => \A p \in G!Parts : rows[p] <= v1'[g][p])
<1>1. G!WritesSoFar' = G!WritesSoFar
  <2>1. G!WritesSoFar' = Len(v3) + Cardinality(v2)
    BY GroupSoFarNext
  <2>2. QED
    BY <2>1, GroupSoFar DEF G!GroupViewInv
<1>2. G!WritesInOrder'
  BY <1>1 DEF G!GroupViewInv, G!WritesInOrder, G!Parts
<1>3. G!IsFiniteSet(v2)'
  BY DEF G!GroupViewInv, G!TypeOK, G!IsFiniteSet
<1>4. QED
  BY <1>2, <1>3 DEF G!Written

(* The server reads a group: its own row, then the others. *)
LEMMA GroupReads ==
  ASSUME G!GroupViewInv, G!ReadGroup \/ G!ReadRows
  PROVE  G!GroupViewInv'
<1>1. UNCHANGED <<v1, v2, v3, v4, v7, v8, v9, v10, v11>>
  BY DEF G!ReadGroup, G!ReadRows, G!server, G!app
<1>2. G!TypeOK /\ v1 \in [OpenGroups -> G!Rows] /\ v5 \in Seq(OpenGroups)
  BY GroupTypes DEF G!GroupViewInv
<1> DEFINE good == /\ v6' \in [group : OpenGroups, rows : G!Rows, at : {"rows", "boundary"}]
                   /\ \A p \in G!Parts : v6'.rows[p] <= v1[v6'.group][p]
                   /\ v5' \in Seq(OpenGroups)
                   /\ v8 # None => /\ v5' # <<>> => v5'[Len(v5')] = v8
                                   /\ v5' = <<>> => v6'.group = v8
<1>3. ASSUME G!ReadGroup PROVE good
  <2>1. v5 # <<>> /\ v5' = Tail(v5)
    BY <1>3 DEF G!ReadGroup
  <2>2. /\ Tail(v5) \in Seq(OpenGroups) /\ Head(v5) \in OpenGroups /\ Len(v5) \in Nat \ {0}
        /\ Len(Tail(v5)) = Len(v5) - 1 /\ DOMAIN v5 = 1..Len(v5) /\ Head(v5) = v5[1]
        /\ \A i \in DOMAIN v5 : i = 1 \/ (i - 1 \in DOMAIN Tail(v5) /\ Tail(v5)[i - 1] = v5[i])
    BY <1>2, <2>1, Taken
  <2>3. PICK g \in OpenGroups : g = Head(v5)
    BY <2>2
  <2> DEFINE r == [G!Unwritten EXCEPT !["group"] = v1[g]["group"]]
  <2>4. v1[g] \in [G!Parts -> Nat] /\ G!Unwritten \in [G!Parts -> Nat] /\ "group" \in G!Parts
        /\ \A p \in G!Parts : G!Unwritten[p] = 0
    BY <1>2, GroupRecords DEF G!Rows
  <2>5. r \in G!Rows /\ \A p \in G!Parts : r[p] <= v1[g][p]
    BY <2>4 DEF G!Rows
  <2>6. v6' = [group |-> g, at |-> "rows", rows |-> r]
    BY <1>3, <2>3 DEF G!ReadGroup
  <2> HIDE DEF r
  <2>7. /\ v6' \in [group : OpenGroups, rows : G!Rows, at : {"rows", "boundary"}]
        /\ v6'.rows = r /\ v6'.group = g
    BY <2>5, <2>6
  <2>8. ASSUME v8 # None PROVE /\ v5' # <<>> => v5'[Len(v5')] = v8
                               /\ v5' = <<>> => v6'.group = v8
    <3>1. v5[Len(v5)] = v8
      BY <2>1, <2>8 DEF G!GroupViewInv, G!LastLoadCounts
    <3>2. Len(v5') = Len(v5) - 1 /\ Len(v5) \in DOMAIN v5
      BY <2>1, <2>2
    <3>3. v5' # <<>> => Len(v5) # 1
      BY <2>1, <2>2, <3>2
    <3>4. v5' # <<>> => v5'[Len(v5')] = v8
      BY <2>1, <2>2, <3>1, <3>2, <3>3
    <3>5. v5' = <<>> => Len(v5) = 1
      <4> SUFFICES ASSUME v5' = <<>> PROVE Len(v5) = 1
        OBVIOUS
      <4>1. Len(v5') = 0
        OBVIOUS
      <4>2. Len(v5') = Len(v5) - 1 /\ Len(v5) \in Nat
        BY <2>2, <3>2
      <4>3. QED
        BY <4>1, <4>2
    <3>6. v5' = <<>> => v6'.group = v8
      BY <2>2, <2>3, <2>7, <3>1, <3>5
    <3>7. QED
      BY <3>4, <3>6
  <2>9. QED
    BY <2>1, <2>2, <2>5, <2>7, <2>8
<1>4. ASSUME G!ReadRows PROVE good
  <2>1. v6.at = "rows" /\ v5' = v5
    BY <1>4 DEF G!ReadRows
  <2>2. v6 # G!NotReading /\ v6 \in [group : OpenGroups, rows : G!Rows, at : {"rows", "boundary"}]
    BY <1>2, <2>1, GroupTypes, GroupRecords
  <2>3. PICK g \in OpenGroups : g = v6.group
    BY <2>2
  <2> DEFINE r == [v1[g] EXCEPT !["group"] = v6.rows["group"]]
  <2>4. v1[g] \in [G!Parts -> Nat] /\ v6.rows \in [G!Parts -> Nat] /\ "group" \in G!Parts
    BY <1>2, <2>2, GroupRecords DEF G!Rows
  <2>5. v6.rows["group"] <= v1[g]["group"]
    BY <2>3, <2>4 DEF G!GroupViewInv, G!ViewsInStep, G!Written
  <2>6. r \in G!Rows /\ \A p \in G!Parts : r[p] <= v1[g][p]
    BY <2>4, <2>5 DEF G!Rows
  <2>7. v6' = [v6 EXCEPT !.at = "boundary", !.rows = r]
    BY <1>4, <2>3 DEF G!ReadRows
  <2> HIDE DEF r
  <2>8. /\ v6' \in [group : OpenGroups, rows : G!Rows, at : {"rows", "boundary"}]
        /\ v6'.rows = r /\ v6'.group = g
    BY <2>2, <2>3, <2>6, <2>7
  <2>9. v8 # None => /\ v5' # <<>> => v5'[Len(v5')] = v8
                     /\ v5' = <<>> => v6'.group = v8
    BY <2>1, <2>2, <2>3, <2>8 DEF G!GroupViewInv, G!LastLoadCounts
  <2>10. QED
    BY <1>2, <2>1, <2>6, <2>8, <2>9
<1>5. good
  BY <1>3, <1>4
<1>6. v6' # G!NotReading'
  <2>1. v6'.group \in OpenGroups
    BY <1>5
  <2>2. QED
    BY <2>1, GroupRecords, OwnerAssumption
<1>7. G!IsFiniteSet(v2)' /\ G!WritesInOrder'
  BY <1>1, GroupOrderStays
<1>8. G!TypeOK'
  BY <1>1, <1>2, <1>5, <1>7 DEF G!TypeOK, G!Parts
<1>9. G!EventsAreLogged'
  BY <1>1 DEF G!GroupViewInv, G!EventsAreLogged
<1>10. G!LastLoadCounts'
  BY <1>1, <1>5, <1>6 DEF G!LastLoadCounts
<1>11. G!ViewsInStep'
  <2>1. G!Written(v6.group, v6.rows)'
    BY <1>1, <1>5 DEF G!Written, G!Parts
  <2>2. QED
    BY <1>1, <2>1 DEF G!GroupViewInv, G!ViewsInStep, G!Written, G!Learnt, G!Parts
<1>12. QED
  BY <1>7, <1>8, <1>9, <1>10, <1>11 DEF G!GroupViewInv

-----------------------------------------------------------------------------
(* A message reaches the end of the app's queue. *)
LEMMA GroupMessageComes ==
  ASSUME G!GroupViewInv, NEW m \in G!Messages, v7' = Append(v7, m),
         UNCHANGED <<v1, v2, v3, v5, v8, v9, v10>>,
         v4' \in 0..Len(v3), v6' = G!NotReading, v11' \in Nat,
         m.kind \in {"event", "other"} => m.seq \in DOMAIN v3 /\ v3[m.seq] = m,
         m.kind = "timeline" => /\ \A p \in G!Parts : m.rows[p] <= v1[m.group][p]
                                /\ m.seq <= Len(v3)
                                /\ ~m.torn => G!Learnt(m.group, m.rows, m.seq),
         v8 # None /\ v5 = <<>> =>
           IF G!IsAnswer(m) THEN m.kind = "timeline" => m.group = v8 ELSE v6 = G!NotReading
  PROVE  G!GroupViewInv'
<1>1. v7 \in Seq(G!Messages)
  BY GroupTypes DEF G!GroupViewInv
<1> DEFINE n == Len(v7) + 1
<1>2. /\ v7' \in Seq(G!Messages) /\ n \in DOMAIN v7' /\ v7'[n] = m
      /\ \A i \in DOMAIN v7 : i \in DOMAIN v7' /\ v7'[i] = v7[i] /\ i < n
      /\ \A i \in DOMAIN v7' : i \in DOMAIN v7 \/ i = n
  <2>1. /\ v7' \in Seq(G!Messages) /\ n \in DOMAIN v7' /\ v7'[n] = m
        /\ \A i \in DOMAIN v7 : i \in DOMAIN v7' /\ v7'[i] = v7[i]
        /\ \A i \in DOMAIN v7' : i \in DOMAIN v7 \/ i = n
    BY <1>1, Queued
  <2>2. \A i \in DOMAIN v7 : i < n
    BY <1>1
  <2>3. QED
    BY <2>1, <2>2
<1> HIDE DEF n
<1>3. G!WritesInOrder' /\ G!IsFiniteSet(v2)'
  BY GroupOrderStays
<1>4. G!NotReading' = G!NotReading
  BY GroupRecords
<1>5. G!TypeOK'
  BY <1>2, <1>3, <1>4 DEF G!GroupViewInv, G!TypeOK, G!Parts
<1>6. G!EventsAreLogged'
  BY <1>2 DEF G!GroupViewInv, G!EventsAreLogged
<1>7. G!LastLoadCounts'
  <2> SUFFICES ASSUME v8 # None
               PROVE  /\ v5 # <<>> => v5[Len(v5)] = v8
                      /\ v5 = <<>> =>
                           /\ \A i \in DOMAIN v7' :
                                 v7'[i].kind = "timeline" /\ (\A j \in DOMAIN v7' : j > i => ~G!IsAnswer(v7'[j]))
                                   => v7'[i].group = v8
                           /\ ~v10 /\ (\A i \in DOMAIN v7' : ~G!IsAnswer(v7'[i])) => v9.group = v8
    BY <1>4 DEF G!LastLoadCounts, G!IsAnswer
  <2>1. v5 # <<>> => v5[Len(v5)] = v8
    BY DEF G!GroupViewInv, G!LastLoadCounts
  <2>2. ASSUME v5 = <<>>, G!IsAnswer(m), NEW i \in DOMAIN v7', v7'[i].kind = "timeline",
               \A j \in DOMAIN v7' : j > i => ~G!IsAnswer(v7'[j])
        PROVE  v7'[i].group = v8
    <3>1. i = n
      BY <1>2, <2>2
    <3>2. QED
      BY <1>2, <2>2, <3>1
  <2>3. ASSUME v5 = <<>>, ~G!IsAnswer(m)
        PROVE  /\ \A i \in DOMAIN v7 :
                     v7[i].kind = "timeline" /\ (\A j \in DOMAIN v7 : j > i => ~G!IsAnswer(v7[j]))
                       => v7[i].group = v8
               /\ ~v10 /\ (\A i \in DOMAIN v7 : ~G!IsAnswer(v7[i])) => v9.group = v8
    BY <2>3 DEF G!GroupViewInv, G!LastLoadCounts
  <2>4. ASSUME v5 = <<>>, ~G!IsAnswer(m), NEW i \in DOMAIN v7', v7'[i].kind = "timeline",
               \A j \in DOMAIN v7' : j > i => ~G!IsAnswer(v7'[j])
        PROVE  v7'[i].group = v8
    <3>1. i \in DOMAIN v7
      BY <1>2, <2>4 DEF G!IsAnswer
    <3>2. QED
      BY <1>2, <2>3, <2>4, <3>1
  <2>5. v5 = <<>> /\ ~v10 /\ (\A i \in DOMAIN v7' : ~G!IsAnswer(v7'[i])) => v9.group = v8
    BY <1>2, <2>3
  <2>6. QED
    BY <2>1, <2>2, <2>4, <2>5
<1>8. G!ViewsInStep'
  <2>1. G!Written(v6.group, v6.rows)'
    BY GroupRecords, OwnerAssumption DEF G!Written
  <2>2. /\ G!Written(v9.group, v9.rows)' /\ v9.cursor <= Len(v3)
        /\ ~v9.torn => G!Learnt(v9.group, v9.rows, v9.cursor)'
    BY DEF G!GroupViewInv, G!ViewsInStep, G!Written, G!Learnt, G!Parts
  <2>3. ASSUME NEW i \in DOMAIN v7', v7'[i].kind = "timeline"
        PROVE  /\ v7'[i].group \in OpenGroups => \A p \in G!Parts : v7'[i].rows[p] <= v1[v7'[i].group][p]
               /\ v7'[i].seq <= Len(v3)
               /\ ~v7'[i].torn => G!Learnt(v7'[i].group, v7'[i].rows, v7'[i].seq)
    <3>1. CASE i \in DOMAIN v7
      BY <1>2, <2>3, <3>1 DEF G!GroupViewInv, G!ViewsInStep, G!Written
    <3>2. CASE i = n
      BY <1>2, <2>3, <3>2
    <3>3. QED
      BY <1>2, <2>3, <3>1, <3>2
  <2>4. QED
    BY <2>1, <2>2, <2>3 DEF G!ViewsInStep, G!Written, G!Learnt, G!Parts
<1>9. QED
  BY <1>3, <1>5, <1>6, <1>7, <1>8 DEF G!GroupViewInv

LEMMA GroupAnswers ==
  ASSUME G!GroupViewInv, G!ReadBoundary \/ G!LoadFails
  PROVE  G!GroupViewInv'
<1>1. /\ v6 # G!NotReading /\ v6' = G!NotReading /\ UNCHANGED <<v1, v2, v3, v4, v5, v8, v9, v10>>
  BY GroupRecords DEF G!ReadBoundary, G!LoadFails, G!server, G!app
<1>2. /\ v4 \in 0..Len(v3) /\ v11' \in Nat /\ Len(v3) \in Nat /\ DOMAIN v3 = 1..Len(v3)
      /\ v6 \in [group : OpenGroups, rows : G!Rows, at : {"rows", "boundary"}]
  <2>1. G!TypeOK
    BY DEF G!GroupViewInv
  <2>2. v11' \in Nat
    <3>1. v11 \in Nat
      BY <2>1, GroupTypes
    <3>2. v11' = v11 \/ v11' = v11 + 1
      BY DEF G!ReadBoundary, G!LoadFails
    <3>3. QED
      BY <3>1, <3>2
  <2>3. QED
    BY <1>1, <2>1, <2>2, GroupTypes DEF G!TypeOK
<1>3. CASE G!ReadBoundary
  <2>1. PICK torn \in BOOLEAN : torn = G!Overtaken
    BY DEF G!Overtaken
  <2>2. PICK seq \in Nat : seq = Len(v3)
    <3>1. Len(v3) \in Nat
      BY <1>2
    <3>2. QED
      BY <3>1
  <2>3. v7' = Append(v7, [kind |-> "timeline", group |-> v6.group, rows |-> v6.rows, seq |-> seq, torn |-> torn])
    BY <1>3, <2>1, <2>2 DEF G!ReadBoundary
  <2>4. [kind |-> "timeline", group |-> v6.group, rows |-> v6.rows, seq |-> seq, torn |-> torn] \in G!Timelines
    BY <1>2 DEF G!Timelines
  <2>5. PICK m \in G!Timelines : /\ v7' = Append(v7, m) /\ m.kind = "timeline" /\ m.group = v6.group
                                 /\ m.rows = v6.rows /\ m.seq = seq /\ m.torn = torn
    BY <2>3, <2>4
  <2>6. m \in G!Messages
    BY GroupRecords
  <2>7. \A p \in G!Parts : m.rows[p] <= v1[m.group][p]
    BY <1>2, <2>5 DEF G!GroupViewInv, G!ViewsInStep, G!Written
  <2>8. m.seq <= Len(v3) /\ (~m.torn => G!Learnt(m.group, m.rows, m.seq))
    <3>1. m.seq <= Len(v3)
      BY <2>2, <2>5
    <3>2. ASSUME ~m.torn, NEW i \in DOMAIN v3, v3[i].group = m.group
          PROVE  v3[i].version <= m.rows[v3[i].part]
      <4>1. ~(v3[i].version > v6.rows[v3[i].part])
        BY <2>1, <2>5, <3>2 DEF G!Overtaken
      <4>2. v3[i] \in G!Logged
        BY GroupTypes DEF G!GroupViewInv
      <4>3. v3[i].version \in Nat /\ v6.rows[v3[i].part] \in Nat
        BY <1>2, <4>2, GroupRecords DEF G!Rows
      <4>4. QED
        BY <2>5, <4>1, <4>3
    <3>3. QED
      BY <3>1, <3>2 DEF G!Learnt
  <2>9. v8 # None /\ v5 = <<>> => m.group = v8
    BY <1>1, <2>5 DEF G!GroupViewInv, G!LastLoadCounts
  <2>10. G!IsAnswer(m)
    BY <2>5 DEF G!IsAnswer
  <2>11. QED
    BY <1>1, <1>2, <2>5, <2>6, <2>7, <2>8, <2>9, <2>10, GroupMessageComes
<1>4. CASE G!LoadFails
  <2>1. PICK m \in G!Messages : v7' = Append(v7, m) /\ m.kind = "failed"
    BY <1>4, GroupRecords DEF G!LoadFails
  <2>2. G!IsAnswer(m)
    BY <2>1 DEF G!IsAnswer
  <2>3. QED
    BY <1>1, <1>2, <2>1, <2>2, GroupMessageComes
<1>5. QED
  BY <1>3, <1>4

LEMMA GroupDelivers ==
  ASSUME G!GroupViewInv, G!Deliver \/ G!Reset
  PROVE  G!GroupViewInv'
<1>1. v6 = G!NotReading /\ v6' = v6 /\ UNCHANGED <<v1, v2, v3, v5, v8, v9, v10>>
  BY DEF G!Deliver, G!Reset, G!server, G!app
<1>2. /\ v4 \in Nat /\ Len(v3) \in Nat /\ DOMAIN v3 = 1..Len(v3) /\ v3 \in Seq(G!Logged) /\ v11 \in Nat
  BY GroupTypes DEF G!GroupViewInv
<1>3. CASE G!Deliver
  <2>1. v4 + 1 \in DOMAIN v3 /\ v4 + 1 \in 0..Len(v3) /\ v4' = v4 + 1 /\ v11' = v11
    BY <1>2, <1>3 DEF G!Deliver
  <2>2. PICK m \in G!Logged : v7' = Append(v7, m) /\ m = v3[v4 + 1]
    BY <1>2, <1>3, <2>1 DEF G!Deliver
  <2>3. m.kind \in {"event", "other"} /\ m.seq = v4 + 1
    BY <2>1, <2>2, GroupRecords DEF G!GroupViewInv, G!WritesInOrder
  <2>4. m \in G!Messages /\ ~G!IsAnswer(m)
    BY <2>3, GroupRecords DEF G!IsAnswer
  <2>5. m.seq \in DOMAIN v3 /\ v3[m.seq] = m
    BY <2>1, <2>2, <2>3
  <2>6. v4' \in 0..Len(v3) /\ v11' \in Nat
    BY <1>2, <2>1
  <2>7. QED
    BY <1>1, <2>2, <2>3, <2>4, <2>5, <2>6, GroupMessageComes
<1>4. CASE G!Reset
  <2>1. PICK m \in G!Messages : v7' = Append(v7, m) /\ m.kind = "snapshot"
    BY <1>4, GroupRecords DEF G!Reset
  <2>2. ~G!IsAnswer(m)
    BY <2>1 DEF G!IsAnswer
  <2>3. v4' \in 0..Len(v3) /\ v11' \in Nat
    BY <1>2, <1>4 DEF G!Reset
  <2>4. QED
    BY <1>1, <2>1, <2>2, <2>3, GroupMessageComes
<1>5. QED
  BY <1>3, <1>4

-----------------------------------------------------------------------------
(* The app takes the head of its queue: what it makes of its view and asks for then has *)
(* to keep the view in step and the last load the open group's.                         *)
LEMMA GroupMessageGoes ==
  ASSUME G!TypeOK, v7 # <<>>, v7' = Tail(v7)
  PROVE  /\ v7' \in Seq(G!Messages) /\ DOMAIN v7 = 1..Len(v7) /\ Len(v7) \in Nat \ {0}
         /\ 1 \in DOMAIN v7 /\ Head(v7) = v7[1] /\ v7[1] \in G!Messages
         /\ \A i \in DOMAIN v7' : i \in Nat /\ i + 1 \in DOMAIN v7 /\ v7'[i] = v7[i + 1]
         /\ \A i \in DOMAIN v7 : i = 1 \/ (i - 1 \in DOMAIN v7' /\ v7'[i - 1] = v7[i])
<1>1. v7 \in Seq(G!Messages)
  BY GroupTypes
<1>2. QED
  BY <1>1, Taken

LEMMA GroupHandled ==
  ASSUME G!GroupViewInv, v7 # <<>>, v7' = Tail(v7), UNCHANGED <<v1, v2, v3, v4, v6, v11>>,
         v5' \in Seq(OpenGroups), v8' = v8, v10' \in BOOLEAN,
         v9' \in [group : OpenGroups \cup {None}, rows : G!Rows, cursor : Nat,
                  stale : BOOLEAN, torn : BOOLEAN],
         v9'.group \in OpenGroups => \A p \in G!Parts : v9'.rows[p] <= v1[v9'.group][p],
         v9'.cursor <= Len(v3),
         ~v9'.torn => \A i \in DOMAIN v3 : i <= v9'.cursor /\ v3[i].group = v9'.group =>
                        v3[i].version <= v9'.rows[v3[i].part],
         \/ v5' # <<>> /\ v5'[Len(v5')] = v8
         \/ /\ v5' = v5
            /\ v8 # None /\ v5 = <<>> /\ v6 = G!NotReading /\ ~v10' /\ (\A i \in DOMAIN v7' : ~G!IsAnswer(v7'[i]))
                 => v9'.group = v8
  PROVE  G!GroupViewInv'
<1>1. /\ v7' \in Seq(G!Messages) /\ DOMAIN v7 = 1..Len(v7) /\ Len(v7) \in Nat \ {0}
      /\ \A i \in DOMAIN v7' : i \in Nat /\ i + 1 \in DOMAIN v7 /\ v7'[i] = v7[i + 1]
      /\ \A i \in DOMAIN v7 : i = 1 \/ (i - 1 \in DOMAIN v7' /\ v7'[i - 1] = v7[i])
  BY GroupMessageGoes DEF G!GroupViewInv
<1>2. G!WritesInOrder' /\ G!IsFiniteSet(v2)'
  BY GroupOrderStays
<1>3. G!NotReading' = G!NotReading
  BY GroupRecords
<1>4. G!TypeOK'
  BY <1>1, <1>2, <1>3 DEF G!GroupViewInv, G!TypeOK, G!Parts
<1>5. G!EventsAreLogged'
  BY <1>1 DEF G!GroupViewInv, G!EventsAreLogged
<1>6. G!LastLoadCounts'
  <2> SUFFICES ASSUME v8 # None
               PROVE  /\ v5' # <<>> => v5'[Len(v5')] = v8
                      /\ v5' = <<>> /\ v6 # G!NotReading => v6.group = v8
                      /\ v5' = <<>> /\ v6 = G!NotReading =>
                           /\ \A i \in DOMAIN v7' :
                                 v7'[i].kind = "timeline" /\ (\A j \in DOMAIN v7' : j > i => ~G!IsAnswer(v7'[j]))
                                   => v7'[i].group = v8
                           /\ ~v10' /\ (\A i \in DOMAIN v7' : ~G!IsAnswer(v7'[i])) => v9'.group = v8
    BY <1>3 DEF G!LastLoadCounts, G!IsAnswer
  <2>1. CASE v5' # <<>> /\ v5'[Len(v5')] = v8
    BY <2>1
  <2>2. CASE v5' = v5
    <3>1. v5' # <<>> => v5'[Len(v5')] = v8
      BY <2>2 DEF G!GroupViewInv, G!LastLoadCounts
    <3>2. v5' = <<>> /\ v6 # G!NotReading => v6.group = v8
      BY <2>2 DEF G!GroupViewInv, G!LastLoadCounts
    <3>3. ASSUME v5 = <<>>, v6 = G!NotReading, NEW i \in DOMAIN v7', v7'[i].kind = "timeline",
                 \A j \in DOMAIN v7' : j > i => ~G!IsAnswer(v7'[j])
          PROVE  v7'[i].group = v8
      <4> DEFINE k == i + 1
      <4>1. i \in Nat /\ k \in DOMAIN v7 /\ v7'[i] = v7[k]
        BY <1>1
      <4>2. \A j \in DOMAIN v7 : j > k => ~G!IsAnswer(v7[j])
        <5> SUFFICES ASSUME NEW j \in DOMAIN v7, j > k PROVE ~G!IsAnswer(v7[j])
          OBVIOUS
        <5>1. j # 1 /\ j - 1 > i
          BY <1>1, <4>1
        <5>2. QED
          BY <1>1, <3>3, <5>1
      <4> HIDE DEF k
      <4>3. QED
        BY <3>3, <4>1, <4>2 DEF G!GroupViewInv, G!LastLoadCounts
    <3>4. QED
      BY <2>1, <2>2, <3>1, <3>2, <3>3
  <2>3. QED
    BY <2>1, <2>2
<1>7. G!ViewsInStep'
  <2>1. G!Written(v6.group, v6.rows)' /\ G!Written(v9.group, v9.rows)'
    BY DEF G!GroupViewInv, G!ViewsInStep, G!Written, G!Parts
  <2>2. v9'.cursor <= Len(v3) /\ (~v9'.torn => G!Learnt(v9.group, v9.rows, v9.cursor)')
    BY DEF G!Learnt
  <2>3. ASSUME NEW i \in DOMAIN v7', v7'[i].kind = "timeline"
        PROVE  /\ v7'[i].group \in OpenGroups => \A p \in G!Parts : v7'[i].rows[p] <= v1[v7'[i].group][p]
               /\ v7'[i].seq <= Len(v3)
               /\ ~v7'[i].torn => G!Learnt(v7'[i].group, v7'[i].rows, v7'[i].seq)
    BY <1>1, <2>3 DEF G!GroupViewInv, G!ViewsInStep, G!Written
  <2>4. QED
    BY <2>1, <2>2, <2>3 DEF G!ViewsInStep, G!Written, G!Learnt, G!Parts
<1>8. QED
  BY <1>2, <1>4, <1>5, <1>6, <1>7 DEF G!GroupViewInv

(* What the view is before the step. *)
LEMMA GroupViewNow ==
  ASSUME G!GroupViewInv
  PROVE  /\ v9 \in [group : OpenGroups \cup {None}, rows : G!Rows, cursor : Nat,
                    stale : BOOLEAN, torn : BOOLEAN]
         /\ v9.group \in OpenGroups => \A p \in G!Parts : v9.rows[p] <= v1[v9.group][p]
         /\ v9.cursor <= Len(v3)
         /\ ~v9.torn => \A i \in DOMAIN v3 : i <= v9.cursor /\ v3[i].group = v9.group =>
                        v3[i].version <= v9.rows[v3[i].part]
         /\ v5 \in Seq(OpenGroups) /\ v8 \in OpenGroups \cup {None} /\ v10 \in BOOLEAN
<1>1. G!TypeOK /\ G!ViewsInStep
  BY DEF G!GroupViewInv
<1>2. QED
  BY <1>1, GroupTypes DEF G!ViewsInStep, G!Written, G!Learnt

LEMMA GroupAnswerHandled ==
  ASSUME G!GroupViewInv, G!Hydrate \/ G!HandleFailure \/ G!ApplySnapshot \/ G!HandleOther
  PROVE  G!GroupViewInv'
<1>1. v7 # <<>> /\ v7' = Tail(v7) /\ UNCHANGED <<v1, v2, v3, v4, v5, v6, v8, v11>>
  BY DEF G!Hydrate, G!HandleFailure, G!ApplySnapshot, G!HandleOther, G!Handling, G!server, G!app
<1>2. PICK e \in G!Messages : e = v7[1] /\ e = Head(v7)
  BY <1>1, GroupMessageGoes DEF G!GroupViewInv
<1>3. /\ 1 \in DOMAIN v7 /\ DOMAIN v7 = 1..Len(v7)
      /\ \A i \in DOMAIN v7 : i = 1 \/ (i - 1 \in DOMAIN v7' /\ v7'[i - 1] = v7[i])
  BY <1>1, GroupMessageGoes DEF G!GroupViewInv
<1>4. CASE G!Hydrate
  <2>1. /\ e.kind = "timeline" /\ v10' = FALSE
        /\ v9' = [group |-> e.group, rows |-> e.rows, cursor |-> e.seq, stale |-> FALSE, torn |-> e.torn]
    BY <1>2, <1>4 DEF G!Hydrate, G!Handling
  <2>2. e.group \in OpenGroups /\ e.rows \in G!Rows /\ e.seq \in Nat /\ e.torn \in BOOLEAN
    <3>1. e \in G!Timelines
      BY <2>1, GroupRecords
    <3>2. QED
      BY <3>1 DEF G!Timelines
  <2>3. /\ v9' \in [group : OpenGroups \cup {None}, rows : G!Rows, cursor : Nat,
                    stale : BOOLEAN, torn : BOOLEAN]
        /\ v9'.group = e.group /\ v9'.rows = e.rows /\ v9'.cursor = e.seq /\ v9'.torn = e.torn
    BY <2>1, <2>2
  <2>4. G!Written(e.group, e.rows) /\ e.seq <= Len(v3) /\ (~e.torn => G!Learnt(e.group, e.rows, e.seq))
    BY <1>2, <1>3, <2>1 DEF G!GroupViewInv, G!ViewsInStep
  <2>5. v8 # None /\ v5 = <<>> /\ v6 = G!NotReading /\ (\A i \in DOMAIN v7' : ~G!IsAnswer(v7'[i]))
          => v9'.group = v8
    <3> SUFFICES ASSUME v8 # None, v5 = <<>>, v6 = G!NotReading, \A i \in DOMAIN v7' : ~G!IsAnswer(v7'[i])
                 PROVE  e.group = v8
      BY <2>3
    <3>1. \A j \in DOMAIN v7 : j > 1 => ~G!IsAnswer(v7[j])
      BY <1>3
    <3>2. QED
      BY <1>2, <1>3, <2>1, <3>1 DEF G!GroupViewInv, G!LastLoadCounts
  <2>6. v9'.group \in OpenGroups => \A p \in G!Parts : v9'.rows[p] <= v1[v9'.group][p]
    BY <2>3, <2>4 DEF G!Written
  <2>7. v9'.cursor <= Len(v3) /\ (~v9'.torn => \A i \in DOMAIN v3 :
           i <= v9'.cursor /\ v3[i].group = v9'.group => v3[i].version <= v9'.rows[v3[i].part])
    BY <2>3, <2>4 DEF G!Learnt
  <2>8. v5' \in Seq(OpenGroups) /\ v10' \in BOOLEAN
    BY <1>1, <2>1, GroupViewNow
  <2>9. QED
    BY <1>1, <2>3, <2>5, <2>6, <2>7, <2>8, GroupHandled
<1>5. CASE G!HandleFailure \/ G!ApplySnapshot \/ G!HandleOther
  <2>1. v9' = v9 /\ (v10' = TRUE \/ (v10' = v10 /\ ~G!IsAnswer(e)))
    BY <1>2, <1>5 DEF G!HandleFailure, G!ApplySnapshot, G!HandleOther, G!Handling, G!app, G!IsAnswer
  <2>2. v8 # None /\ v5 = <<>> /\ v6 = G!NotReading /\ ~v10' /\ (\A i \in DOMAIN v7' : ~G!IsAnswer(v7'[i]))
          => v9'.group = v8
    <3> SUFFICES ASSUME v8 # None, v5 = <<>>, v6 = G!NotReading, ~v10',
                        \A i \in DOMAIN v7' : ~G!IsAnswer(v7'[i])
                 PROVE  v9.group = v8
      BY <2>1
    <3>1. \A i \in DOMAIN v7 : ~G!IsAnswer(v7[i])
      BY <1>2, <1>3, <2>1
    <3>2. QED
      BY <2>1, <3>1 DEF G!GroupViewInv, G!LastLoadCounts
  <2>3. v10' \in BOOLEAN /\ v5' \in Seq(OpenGroups)
    BY <1>1, <2>1, GroupViewNow
  <2>4. QED
    BY <1>1, <2>1, <2>2, <2>3, GroupViewNow, GroupHandled
<1>6. QED
  BY <1>4, <1>5

(* An event leaves a view alone, or makes it stale, or moves it on by one. *)
LEMMA GroupEventApplied ==
  ASSUME NEW v \in [group : OpenGroups \cup {None}, rows : G!Rows, cursor : Nat,
                    stale : BOOLEAN, torn : BOOLEAN],
         NEW e \in G!Events
  PROVE  /\ G!ApplyEvent(v, e) \in [group : OpenGroups \cup {None}, rows : G!Rows, cursor : Nat,
                                     stale : BOOLEAN, torn : BOOLEAN]
         /\ G!ApplyEvent(v, e).group = v.group /\ G!ApplyEvent(v, e).torn = v.torn
         /\ \/ G!ApplyEvent(v, e).rows = v.rows /\ G!ApplyEvent(v, e).cursor = v.cursor
            \/ /\ e.seq = v.cursor + 1 /\ G!ApplyEvent(v, e).cursor = e.seq
               /\ e.group # v.group => G!ApplyEvent(v, e).rows = v.rows
               /\ e.group = v.group => /\ G!ApplyEvent(v, e).rows[e.part] = e.version
                                       /\ \A p \in G!Parts : p # e.part => G!ApplyEvent(v, e).rows[p] = v.rows[p]
<1> DEFINE Views == [group : OpenGroups \cup {None}, rows : G!Rows, cursor : Nat,
                     stale : BOOLEAN, torn : BOOLEAN]
           a == [v EXCEPT !.cursor = e.seq]
           s == [v EXCEPT !.stale = TRUE]
           r == [v.rows EXCEPT ![e.part] = e.version]
           b == [v EXCEPT !.rows = r, !.cursor = e.seq]
<1>1. e.seq \in Nat /\ e.part \in G!Parts /\ e.version \in Nat /\ v.rows \in [G!Parts -> Nat]
  BY DEF G!Events, G!Rows
<1>2. /\ r \in G!Rows /\ r[e.part] = e.version /\ \A p \in G!Parts : p # e.part => r[p] = v.rows[p]
  BY <1>1 DEF G!Rows
<1>3. [v EXCEPT !.rows[e.part] = e.version] = [v EXCEPT !.rows = r]
  OBVIOUS
<1>4. G!Reconcile(v, e) = IF e.group = v.group THEN [v EXCEPT !.rows = r] ELSE v
  BY <1>3 DEF G!Reconcile
<1> HIDE DEF r
<1>5. [[v EXCEPT !.rows = r] EXCEPT !.cursor = e.seq] = b
  OBVIOUS
<1>6. \/ G!ApplyEvent(v, e) = v
      \/ G!ApplyEvent(v, e) = s
      \/ G!ApplyEvent(v, e) = a /\ e.seq = v.cursor + 1 /\ e.group # v.group
      \/ G!ApplyEvent(v, e) = b /\ e.seq = v.cursor + 1 /\ e.group = v.group
  <2> HIDE DEF b
  <2>1. CASE e.group = v.group
    BY <1>4, <1>5, <2>1 DEF G!ApplyEvent
  <2>2. CASE e.group # v.group
    BY <1>4, <2>2 DEF G!ApplyEvent
  <2>3. QED
    BY <2>1, <2>2
<1>7. a \in Views /\ a.group = v.group /\ a.torn = v.torn /\ a.rows = v.rows /\ a.cursor = e.seq
  BY <1>1
<1>8. s \in Views /\ s.group = v.group /\ s.torn = v.torn /\ s.rows = v.rows /\ s.cursor = v.cursor
  OBVIOUS
<1>9. b \in Views /\ b.group = v.group /\ b.torn = v.torn /\ b.rows = r /\ b.cursor = e.seq
  BY <1>1, <1>2
<1> HIDE DEF a, s, b
<1>10. v \in Views
  OBVIOUS
<1>11. QED
  BY <1>2, <1>6, <1>7, <1>8, <1>9, <1>10

LEMMA GroupEventHandled ==
  ASSUME G!GroupViewInv, G!HandleServer
  PROVE  G!GroupViewInv'
<1>1. v7 # <<>> /\ v7' = Tail(v7) /\ UNCHANGED <<v1, v2, v3, v4, v6, v8, v10, v11>>
  BY DEF G!HandleServer, G!Handling, G!server
<1>2. PICK e \in G!Messages : e = v7[1] /\ e = Head(v7)
  BY <1>1, GroupMessageGoes DEF G!GroupViewInv
<1>3. /\ 1 \in DOMAIN v7 /\ DOMAIN v7 = 1..Len(v7)
      /\ \A i \in DOMAIN v7 : i = 1 \/ (i - 1 \in DOMAIN v7' /\ v7'[i - 1] = v7[i])
  BY <1>1, GroupMessageGoes DEF G!GroupViewInv
<1>4. /\ e.kind = "event" /\ v9' = G!ApplyEvent(v9, e)
      /\ v5' = IF e.part = "group" /\ e.group = v8 THEN Append(v5, v8) ELSE v5
  BY <1>2 DEF G!HandleServer, G!Handling
<1>5. e \in G!Events /\ ~G!IsAnswer(e)
  BY <1>4, GroupRecords DEF G!IsAnswer
<1>6. e.seq \in DOMAIN v3 /\ v3[e.seq] = e
  BY <1>2, <1>3, <1>4 DEF G!GroupViewInv, G!EventsAreLogged
<1>7. /\ e.group \in OpenGroups /\ e.part \in G!Parts /\ e.version \in Nat /\ e.version <= v1[e.group][e.part]
      /\ \A i \in DOMAIN v3 : i <= e.seq /\ v3[i].group = e.group /\ v3[i].part = e.part => v3[i].version <= e.version
  BY <1>5, <1>6, OwnerAssumption DEF G!GroupViewInv, G!WritesInOrder, G!Events
<1>8. PICK w : w = v9'
  OBVIOUS
<1>9. /\ w \in [group : OpenGroups \cup {None}, rows : G!Rows, cursor : Nat, stale : BOOLEAN, torn : BOOLEAN]
      /\ w.group = v9.group /\ w.torn = v9.torn
      /\ \/ w.rows = v9.rows /\ w.cursor = v9.cursor
         \/ /\ e.seq = v9.cursor + 1 /\ w.cursor = e.seq
            /\ e.group # v9.group => w.rows = v9.rows
            /\ e.group = v9.group => /\ w.rows[e.part] = e.version
                                     /\ \A p \in G!Parts : p # e.part => w.rows[p] = v9.rows[p]
  BY <1>4, <1>5, <1>8, GroupEventApplied, GroupViewNow
<1>10. /\ w.group \in OpenGroups => \A p \in G!Parts : w.rows[p] <= v1[w.group][p]
       /\ w.cursor <= Len(v3)
       /\ ~w.torn => \A i \in DOMAIN v3 : i <= w.cursor /\ v3[i].group = w.group =>
                        v3[i].version <= w.rows[v3[i].part]
  <2>1. CASE w.rows = v9.rows /\ w.cursor = v9.cursor
    BY <1>9, <2>1, GroupViewNow
  <2>2. CASE /\ e.seq = v9.cursor + 1 /\ w.cursor = e.seq
             /\ e.group # v9.group => w.rows = v9.rows
             /\ e.group = v9.group => /\ w.rows[e.part] = e.version
                                      /\ \A p \in G!Parts : p # e.part => w.rows[p] = v9.rows[p]
    <3>1. w.group \in OpenGroups => \A p \in G!Parts : w.rows[p] <= v1[w.group][p]
      BY <1>7, <1>9, <2>2, GroupViewNow
    <3>2. Len(v3) \in Nat /\ DOMAIN v3 = 1..Len(v3) /\ v9.cursor \in Nat
          /\ \A i \in DOMAIN v3 : v3[i].part \in G!Parts
      <4>1. v3 \in Seq(G!Logged) /\ \A i \in DOMAIN v3 : v3[i] \in G!Logged
        BY GroupTypes DEF G!GroupViewInv
      <4>2. QED
        BY <4>1, GroupTypes, GroupViewNow, GroupRecords DEF G!GroupViewInv
    <3>3. w.cursor <= Len(v3)
      BY <1>6, <2>2, <3>2
    <3>4. ASSUME ~w.torn, NEW i \in DOMAIN v3, i <= w.cursor, v3[i].group = w.group
          PROVE  v3[i].version <= w.rows[v3[i].part]
      <4>1. i <= v9.cursor \/ i = e.seq
        BY <2>2, <3>2, <3>4
      <4>2. v3[i].part \in G!Parts
        BY <3>2
      <4>3. CASE i = e.seq
        BY <1>6, <1>7, <1>9, <2>2, <3>4, <4>3
      <4>4. CASE i <= v9.cursor
        <5>1. v3[i].version <= v9.rows[v3[i].part]
          BY <1>9, <3>4, <4>4, GroupViewNow
        <5>2. CASE e.group # v9.group \/ v3[i].part # e.part
          BY <2>2, <4>2, <5>1, <5>2
        <5>3. CASE e.group = v9.group /\ v3[i].part = e.part
          BY <1>7, <1>9, <2>2, <3>4, <5>3
        <5>4. QED
          BY <5>2, <5>3
      <4>5. QED
        BY <4>1, <4>3, <4>4
    <3>5. QED
      BY <3>1, <3>3, <3>4
  <2>3. QED
    BY <1>9, <2>1, <2>2
<1>11. /\ v5' \in Seq(OpenGroups)
       /\ (v5' # <<>> /\ v5'[Len(v5')] = v8) \/ v5' = v5
  <2>1. v5 \in Seq(OpenGroups)
    BY GroupViewNow
  <2>2. CASE e.part = "group" /\ e.group = v8
    <3>1. v8 \in OpenGroups /\ v5' = Append(v5, v8)
      BY <1>4, <1>7, <2>2
    <3>2. /\ Append(v5, v8) \in Seq(OpenGroups) /\ Append(v5, v8) # <<>>
          /\ Len(Append(v5, v8)) = Len(v5) + 1 /\ Append(v5, v8)[Len(v5) + 1] = v8
      BY <2>1, <3>1, Queued
    <3>3. QED
      BY <3>1, <3>2
  <2>3. CASE ~(e.part = "group" /\ e.group = v8)
    BY <1>4, <2>1, <2>3
  <2>4. QED
    BY <2>2, <2>3
<1>12. v8 # None /\ v5 = <<>> /\ v6 = G!NotReading /\ ~v10' /\ (\A i \in DOMAIN v7' : ~G!IsAnswer(v7'[i]))
         => w.group = v8
  <2> SUFFICES ASSUME v8 # None, v5 = <<>>, v6 = G!NotReading, ~v10, \A i \in DOMAIN v7' : ~G!IsAnswer(v7'[i])
               PROVE  v9.group = v8
    BY <1>1, <1>9
  <2>1. \A i \in DOMAIN v7 : ~G!IsAnswer(v7[i])
    BY <1>2, <1>3, <1>5
  <2>2. QED
    BY <2>1 DEF G!GroupViewInv, G!LastLoadCounts
<1>13. v10' \in BOOLEAN
  BY <1>1, GroupViewNow
<1>14. QED
  BY <1>1, <1>8, <1>9, <1>10, <1>11, <1>12, <1>13, GroupHandled

LEMMA GroupSelects ==
  ASSUME G!GroupViewInv, G!SelectBot \/ \E g \in OpenGroups : G!OpenGroup(g)
  PROVE  G!GroupViewInv'
<1>1. /\ UNCHANGED <<v1, v2, v3, v4, v6, v7, v9, v10>>
      /\ v8' \in OpenGroups \cup {None} /\ v5' \in Seq(OpenGroups) /\ v11' \in Nat
      /\ v8' # None => v5' # <<>> /\ v5'[Len(v5')] = v8'
  <2>1. v5 \in Seq(OpenGroups) /\ v11 \in Nat
    BY GroupTypes DEF G!GroupViewInv
  <2>2. CASE G!SelectBot
    BY <2>1, <2>2 DEF G!SelectBot, G!server
  <2>3. ASSUME NEW g \in OpenGroups, G!OpenGroup(g)
        PROVE  /\ UNCHANGED <<v1, v2, v3, v4, v6, v7, v9, v10>> /\ v8' = g
               /\ v5' \in Seq(OpenGroups) /\ v11' \in Nat
               /\ v5' # <<>> /\ v5'[Len(v5')] = v8'
    <3>1. UNCHANGED <<v1, v2, v3, v4, v6, v7, v9, v10>> /\ v8' = g /\ v5' = Append(v5, g) /\ v11' = v11 + 1
      BY <2>3 DEF G!OpenGroup, G!server
    <3>2. /\ Append(v5, g) \in Seq(OpenGroups) /\ Append(v5, g) # <<>>
          /\ Len(Append(v5, g)) = Len(v5) + 1 /\ Append(v5, g)[Len(v5) + 1] = g
      BY <2>1, Queued
    <3>3. QED
      BY <2>1, <3>1, <3>2
  <2>4. QED
    BY <2>2, <2>3
<1>2. G!WritesInOrder' /\ G!IsFiniteSet(v2)'
  BY <1>1, GroupOrderStays
<1>3. G!TypeOK'
  BY <1>1, <1>2, GroupRecords DEF G!GroupViewInv, G!TypeOK, G!Parts
<1>4. G!EventsAreLogged'
  BY <1>1 DEF G!GroupViewInv, G!EventsAreLogged
<1>5. G!LastLoadCounts'
  BY <1>1 DEF G!LastLoadCounts
<1>6. G!ViewsInStep'
  BY <1>1 DEF G!GroupViewInv, G!ViewsInStep, G!Written, G!Learnt, G!Parts
<1>7. QED
  BY <1>2, <1>3, <1>4, <1>5, <1>6 DEF G!GroupViewInv

LEMMA GroupStarts ==
  ASSUME G!Init
  PROVE  G!GroupViewInv
<1>1. /\ v1 = [g \in OpenGroups |-> G!Unwritten] /\ v2 = {} /\ v3 = <<>> /\ v4 = 0 /\ v5 = <<>>
      /\ v6 = G!NotReading /\ v7 = <<>> /\ v8 = None /\ v9 = G!EmptyView /\ v10 = FALSE /\ v11 = 0
  BY DEF G!Init
<1>2. G!EmptyView \in [group : OpenGroups \cup {None}, rows : G!Rows, cursor : Nat,
                       stale : BOOLEAN, torn : BOOLEAN]
      /\ G!EmptyView.group = None /\ G!EmptyView.cursor = 0
  BY GroupRecords DEF G!EmptyView
<1>3. /\ v3 \in Seq(G!Logged) /\ v7 \in Seq(G!Messages) /\ v5 \in Seq(OpenGroups)
      /\ Len(v3) = 0 /\ DOMAIN v3 = {} /\ DOMAIN v7 = {} /\ v4 \in 0..Len(v3)
  BY <1>1
<1>4. G!TypeOK
  <2>1. G!IsFiniteSet(v2)
    BY <1>1, FS_EmptySet, GroupCounting
  <2>2. QED
    BY <1>1, <1>2, <1>3, <2>1, GroupRecords DEF G!TypeOK
<1>5. G!WritesInOrder
  BY <1>1, <1>3, GroupRecords DEF G!WritesInOrder
<1>6. G!EventsAreLogged /\ G!LastLoadCounts
  BY <1>1, <1>3 DEF G!EventsAreLogged, G!LastLoadCounts
<1>7. G!ViewsInStep
  BY <1>1, <1>2, <1>3, GroupRecords, OwnerAssumption DEF G!ViewsInStep, G!Written, G!Learnt
<1>8. QED
  BY <1>4, <1>5, <1>6, <1>7 DEF G!GroupViewInv

LEMMA GroupStutters ==
  ASSUME G!GroupViewInv, UNCHANGED G!vars
  PROVE  G!GroupViewInv'
<1>1. UNCHANGED <<v1, v2, v3, v4, v5, v6, v7, v8, v9, v10, v11>>
  BY DEF G!vars
<1>2. G!WritesInOrder' /\ G!IsFiniteSet(v2)'
  BY <1>1, GroupOrderStays
<1>3. G!TypeOK'
  BY <1>1, <1>2, GroupRecords DEF G!GroupViewInv, G!TypeOK, G!Parts
<1>4. G!EventsAreLogged' /\ G!LastLoadCounts' /\ G!ViewsInStep'
  BY <1>1, GroupRecords DEF G!GroupViewInv, G!EventsAreLogged, G!LastLoadCounts, G!IsAnswer, G!ViewsInStep,
     G!Written, G!Learnt, G!Parts
<1>5. QED
  BY <1>2, <1>3, <1>4 DEF G!GroupViewInv

LEMMA GroupStep ==
  ASSUME G!GroupViewInv, [G!Next]_(G!vars)
  PROVE  G!GroupViewInv'
<1>1. CASE \E g \in OpenGroups, p \in G!Parts : G!Write(g, p)
  BY <1>1, GroupWrites
<1>2. CASE G!Publish
  BY <1>2, GroupPublishes
<1>3. CASE G!ReadGroup \/ G!ReadRows
  BY <1>3, GroupReads
<1>4. CASE G!ReadBoundary \/ G!LoadFails
  BY <1>4, GroupAnswers
<1>5. CASE G!Deliver \/ G!Reset
  BY <1>5, GroupDelivers
<1>6. CASE G!HandleServer
  BY <1>6, GroupEventHandled
<1>7. CASE G!Hydrate \/ G!HandleFailure \/ G!ApplySnapshot \/ G!HandleOther
  BY <1>7, GroupAnswerHandled
<1>8. CASE G!SelectBot \/ \E g \in OpenGroups : G!OpenGroup(g)
  BY <1>8, GroupSelects
<1>9. CASE G!OtherEvent
  BY <1>9, GroupOthersPublish
<1>10. CASE UNCHANGED G!vars
  BY <1>10, GroupStutters
<1>11. QED
  BY <1>1, <1>2, <1>3, <1>4, <1>5, <1>6, <1>7, <1>8, <1>9, <1>10 DEF G!Next

LEMMA GroupSettles ==
  ASSUME G!GroupViewInv
  PROVE  G!SettledGroupAgrees
<1> SUFFICES ASSUME G!Quiet, v8 # None, ~v10, ~v9.torn,
                    \A i \in DOMAIN v3 : v3[i].group = v8 => i <= v9.cursor
             PROVE  v9.group = v8 /\ v9.rows = v1[v8]
  BY DEF G!SettledGroupAgrees
<1>1. v2 = {} /\ v7 = <<>> /\ v5 = <<>> /\ v6 = G!NotReading
  BY DEF G!Quiet
<1>2. v8 \in OpenGroups /\ v1 \in [OpenGroups -> G!Rows] /\ v9.rows \in G!Rows
      /\ Len(v3) \in Nat /\ DOMAIN v3 = 1..Len(v3)
  BY GroupTypes DEF G!GroupViewInv
<1>3. v9.group = v8
  <2>1. DOMAIN v7 = {}
    BY <1>1
  <2>2. QED
    BY <1>1, <2>1 DEF G!GroupViewInv, G!LastLoadCounts
<1>4. ASSUME NEW p \in G!Parts PROVE v9.rows[p] = v1[v8][p]
  <2>1. v9.rows[p] \in Nat /\ v1[v8][p] \in Nat /\ v9.rows[p] <= v1[v8][p]
    BY <1>2, <1>3, GroupViewNow DEF G!Rows
  <2>2. \/ v1[v8][p] = 0
        \/ \E i \in DOMAIN v3 : v3[i].group = v8 /\ v3[i].part = p /\ v3[i].version = v1[v8][p]
    BY <1>1, <1>2 DEF G!GroupViewInv, G!WritesInOrder
  <2>3. \A i \in DOMAIN v3 : i <= v9.cursor /\ v3[i].group = v8 => v3[i].version <= v9.rows[v3[i].part]
    BY <1>3, GroupViewNow
  <2>4. v1[v8][p] <= v9.rows[p]
    BY <2>1, <2>2, <2>3
  <2>5. QED
    BY <2>1, <2>4
<1>5. v9.rows = v1[v8]
  <2>1. v9.rows \in [G!Parts -> Nat] /\ v1[v8] \in [G!Parts -> Nat]
    BY <1>2 DEF G!Rows
  <2>2. QED
    BY <1>4, <2>1
<1>6. QED
  BY <1>3, <1>5

-----------------------------------------------------------------------------
(* Unread. Slots: v1 rows, v2 shown, v3 handler, v4 seen, v5 claims, v6 late, *)
(* v7 behind.                                                                 *)

(* A count below the bound has a next one. *)
LEMMA UnreadCounting ==
  /\ 0 \in U!Counts /\ U!Counts \subseteq Nat /\ None \notin U!Counts
  /\ \A n \in U!Counts : n < MaxUnread => n + 1 \in U!Counts
BY OwnerAssumption DEF U!Counts

(* The idle handler and the first rows have their types, and every request *)
(* publishes something.                                                    *)
LEMMA UnreadNames ==
  /\ U!Idle \in U!HandlerRows /\ U!Start \in U!RowSets
  /\ \A op \in U!Ops : U!Publishes(op) \in Seq(U!Parts) /\ U!Publishes(op) # <<>>
  /\ U!Ops = {"open", "finish", "read_chat", "read_bot", "react", "unreact"}
<1>1. U!Start \in U!RowSets
  BY UnreadCounting DEF U!Start, U!RowSets
<1>2. U!Idle \in U!HandlerRows
  BY DEF U!Idle, U!HandlerRows, U!Ops
<1>3. ASSUME NEW op \in U!Ops PROVE U!Publishes(op) \in Seq(U!Parts) /\ U!Publishes(op) # <<>>
  <2>1. op = "open" => U!Publishes(op) = <<"chat">>
    BY DEF U!Publishes
  <2>2. op = "finish" => U!Publishes(op) = <<"reaction", "chat", "bot">>
    BY DEF U!Publishes
  <2>3. op = "read_chat" => U!Publishes(op) = <<"chat", "bot">>
    BY DEF U!Publishes
  <2>4. op = "read_bot" => U!Publishes(op) = <<"bot">>
    BY DEF U!Publishes
  <2>5. op \in {"react", "unreact"} => U!Publishes(op) = <<"reaction">>
    BY DEF U!Publishes
  <2>6. /\ <<"chat">> \in Seq(U!Parts) /\ <<"reaction", "chat", "bot">> \in Seq(U!Parts)
        /\ <<"chat", "bot">> \in Seq(U!Parts) /\ <<"bot">> \in Seq(U!Parts)
        /\ <<"reaction">> \in Seq(U!Parts)
    BY DEF U!Parts
  <2>7. /\ <<"chat">> # <<>> /\ <<"reaction", "chat", "bot">> # <<>> /\ <<"chat", "bot">> # <<>>
        /\ <<"bot">> # <<>> /\ <<"reaction">> # <<>>
    OBVIOUS
  <2>8. \E s \in {<<"chat">>, <<"reaction", "chat", "bot">>, <<"chat", "bot">>, <<"bot">>, <<"reaction">>} :
          U!Publishes(op) = s
    BY <2>1, <2>2, <2>3, <2>4, <2>5 DEF U!Ops
  <2>9. QED
    BY <2>6, <2>7, <2>8
<1>4. QED
  BY <1>1, <1>2, <1>3 DEF U!Ops

(* The invariant of the roster holds at first. *)
LEMMA RosterStarts == U!Init => U!RosterInv
<1> SUFFICES ASSUME U!Init PROVE U!RosterInv
  OBVIOUS
<1>1. /\ v1 = U!Start /\ v2 = U!Start /\ v3 = [h \in RosterHandlers |-> U!Idle]
      /\ v5 = {} /\ v6 = {} /\ v7 = {} /\ U!Idle.at = "idle"
  BY DEF U!Init, U!Idle
<1>2. U!TypeOK
  BY UnreadNames, UnreadCounting DEF U!Init, U!TypeOK
<1>3. U!Handling /\ U!ReadsHold /\ U!ChangesAreTold /\ U!ChatsAreCreated
  BY <1>1 DEF U!Handling, U!ReadsHold, U!ChangesAreTold, U!ChatsAreCreated
<1>4. QED
  BY <1>2, <1>3 DEF U!RosterInv

(* The row at the head of what a handler has to publish, and the rows behind it. *)
LEMMA RosterHead ==
  ASSUME U!TypeOK, U!Handling, NEW h \in RosterHandlers, v3[h].at \in {"read", "publish"}
  PROVE  /\ Head(v3[h].left) \in U!Parts
         /\ Tail(v3[h].left) \in Seq(U!Parts)
         /\ 1 \in DOMAIN v3[h].left /\ v3[h].left[1] = Head(v3[h].left)
         /\ \A i \in DOMAIN v3[h].left :
              i # 1 => /\ i - 1 \in DOMAIN Tail(v3[h].left)
                       /\ Tail(v3[h].left)[i - 1] = v3[h].left[i]
         /\ \A i \in DOMAIN Tail(v3[h].left) :
              i + 1 \in DOMAIN v3[h].left /\ v3[h].left[i + 1] = Tail(v3[h].left)[i]
<1>1. PICK left \in Seq(U!Parts) : left = v3[h].left /\ left # <<>>
  BY DEF U!TypeOK, U!Handling, U!HandlerRows
<1>2. /\ Len(left) \in Nat \ {0} /\ DOMAIN left = 1..Len(left) /\ Head(left) = left[1]
      /\ Head(left) \in U!Parts /\ Tail(left) \in Seq(U!Parts) /\ Len(Tail(left)) = Len(left) - 1
      /\ \A i \in 1..Len(Tail(left)) : Tail(left)[i] = left[i + 1]
  BY <1>1
<1>3. DOMAIN Tail(left) = 1..(Len(left) - 1) /\ 1 \in DOMAIN left
  BY <1>2
<1>4. ASSUME NEW i \in DOMAIN left, i # 1
      PROVE  i - 1 \in DOMAIN Tail(left) /\ Tail(left)[i - 1] = left[i]
  <2>1. i - 1 \in 1..(Len(left) - 1) /\ (i - 1) + 1 = i
    BY <1>2, <1>4
  <2>2. QED
    BY <1>2, <1>3, <2>1
<1>5. ASSUME NEW i \in DOMAIN Tail(left)
      PROVE  i + 1 \in DOMAIN left /\ left[i + 1] = Tail(left)[i]
  <2>1. i \in 1..(Len(left) - 1) /\ i + 1 \in 1..Len(left)
    BY <1>2, <1>3, <1>5
  <2>2. QED
    BY <1>2, <2>1
<1>6. QED
  BY <1>1, <1>2, <1>3, <1>4, <1>5

(* Every write stores rows, and makes those late that had read another state of theirs. *)
LEMMA RosterStored ==
  ASSUME NEW h \in RosterHandlers,
         \/ U!CreateDirectChat(h) \/ U!IncrementChatUnread(h) \/ U!MarkChatRead(h)
         \/ U!MarkBotRead(h) \/ U!SetMessageReaction(h)
  PROVE  v6' = v6 \cup {g \in RosterHandlers : /\ v3[g].at = "publish"
                                               /\ v1'[Head(v3[g].left)] # v1[Head(v3[g].left)]}
<1>1. ASSUME NEW new, U!Store(new)
      PROVE  v6' = v6 \cup {g \in RosterHandlers : /\ v3[g].at = "publish"
                                                   /\ v1'[Head(v3[g].left)] # v1[Head(v3[g].left)]}
  BY <1>1 DEF U!Store
<1>2. \E new : U!Store(new)
  <2>1. CASE U!CreateDirectChat(h)
    BY <2>1 DEF U!CreateDirectChat
  <2>2. CASE U!IncrementChatUnread(h)
    BY <2>2 DEF U!IncrementChatUnread
  <2>3. CASE U!MarkChatRead(h)
    BY <2>3 DEF U!MarkChatRead
  <2>4. CASE U!MarkBotRead(h)
    BY <2>4 DEF U!MarkBotRead
  <2>5. CASE U!SetMessageReaction(h)
    BY <2>5 DEF U!SetMessageReaction
  <2>6. QED
    BY <2>1, <2>2, <2>3, <2>4, <2>5
<1>3. QED
  BY <1>1, <1>2

(* What a write leaves of the types. *)
LEMMA RosterRows ==
  ASSUME U!TypeOK, U!ChatsAreCreated, NEW h \in RosterHandlers,
         \/ U!CreateDirectChat(h) \/ U!IncrementChatUnread(h) \/ U!MarkChatRead(h)
         \/ U!MarkBotRead(h) \/ U!SetMessageReaction(h)
  PROVE  v1' \in U!RowSets
<1>1. v1 \in U!RowSets /\ v1.bot \in U!Counts /\ v1.chat \in U!Counts \cup {None}
  BY DEF U!TypeOK, U!RowSets
<1> USE UnreadCounting
<1>2. CASE U!CreateDirectChat(h)
  <2>1. [v1 EXCEPT !.chat = 0] \in U!RowSets
    BY <1>1 DEF U!RowSets
  <2>2. QED
    BY <1>1, <1>2, <2>1 DEF U!CreateDirectChat, U!Store
<1>3. CASE U!IncrementChatUnread(h)
  <2>1. v1.chat # None
    <3>1. v3[h].at = "write" /\ v3[h].op = "finish"
      BY <1>3 DEF U!IncrementChatUnread, U!Wrote
    <3>2. QED
      BY <3>1 DEF U!ChatsAreCreated, U!Exists
  <2>2. v1.chat + 1 \in U!Counts /\ v1.bot + 1 \in U!Counts
    BY <1>1, <1>3, <2>1 DEF U!IncrementChatUnread
  <2>3. v1' = [[v1 EXCEPT !.chat = v1.chat + 1] EXCEPT !.bot = v1.bot + 1]
    BY <1>1, <1>3 DEF U!IncrementChatUnread, U!Store, U!RowSets
  <2>4. QED
    BY <1>1, <2>2, <2>3 DEF U!RowSets
<1>4. CASE U!MarkChatRead(h)
  <2>1. [[v1 EXCEPT !.chat = 0] EXCEPT !.bot = 0] \in U!RowSets
    BY <1>1 DEF U!RowSets
  <2>2. QED
    BY <1>1, <1>4, <2>1 DEF U!MarkChatRead, U!Store
<1>5. CASE U!MarkBotRead(h)
  <2>1. [v1 EXCEPT !.bot = 0] \in U!RowSets
    BY <1>1 DEF U!RowSets
  <2>2. QED
    BY <1>5, <2>1 DEF U!MarkBotRead, U!Store
<1>6. CASE U!SetMessageReaction(h)
  <2>1. \A b \in BOOLEAN : [v1 EXCEPT !.reaction = b] \in U!RowSets
    BY <1>1 DEF U!RowSets
  <2>2. QED
    BY <1>1, <1>6, <2>1 DEF U!SetMessageReaction, U!Store
<1>7. QED
  BY <1>2, <1>3, <1>4, <1>5, <1>6

(* What a handler that does nothing now has to tell, it still has to tell. *)
LEMMA RosterOthers ==
  ASSUME NEW h \in RosterHandlers, \A g \in RosterHandlers \ {h} : v3'[g] = v3[g] /\ (g \in v6' => g \in v6),
         NEW g \in RosterHandlers, g # h, NEW p \in U!Parts, U!Tells(g, p)
  PROVE  U!Tells(g, p)'
BY DEF U!Tells, U!Untold, U!Parts

(* Every step keeps the types. *)
LEMMA RosterTypes ==
  ASSUME U!TypeOK, U!Handling, U!ChatsAreCreated, [U!Next]_U!vars
  PROVE  U!TypeOK'
<1> USE DEF U!TypeOK
<1>1. CASE UNCHANGED U!vars
  BY <1>1 DEF U!vars
<1> SUFFICES ASSUME NEW h \in RosterHandlers,
       \/ \E op \in U!Ops \ {"finish"}, key \in RosterKeys : U!Claim(h, op, key)
       \/ U!FinishBegins(h)
       \/ U!CreateDirectChat(h) \/ U!IncrementChatUnread(h) \/ U!MarkChatRead(h)
       \/ U!MarkBotRead(h) \/ U!SetMessageReaction(h)
       \/ U!Look(h) \/ U!Publish(h) \/ U!CutOff(h)
     PROVE U!TypeOK'
  BY <1>1 DEF U!Next
<1>2. v3[h] \in U!HandlerRows
  OBVIOUS
<1>3. ASSUME NEW op \in U!Ops \ {"finish"}, NEW key \in RosterKeys, U!Claim(h, op, key) PROVE U!TypeOK'
  <2>1. [at |-> "write", op |-> op, key |-> key, replayed |-> <<key, op>> \in v5, left |-> U!Publishes(op)]
           \in U!HandlerRows
    BY UnreadNames DEF U!HandlerRows
  <2>2. v3' \in [RosterHandlers -> U!HandlerRows] /\ v5' \subseteq RosterKeys \X U!Ops
    BY <1>3, <2>1 DEF U!Claim
  <2>3. QED
    BY <1>3, <2>2 DEF U!Claim
<1>4. CASE U!FinishBegins(h)
  <2>1. [at |-> "write", op |-> "finish", key |-> None, replayed |-> FALSE, left |-> U!Publishes("finish")]
           \in U!HandlerRows
    BY UnreadNames DEF U!HandlerRows
  <2>2. v3' \in [RosterHandlers -> U!HandlerRows]
    BY <1>4, <2>1 DEF U!FinishBegins
  <2>3. QED
    BY <1>4, <2>2 DEF U!FinishBegins
<1>5. ASSUME NEW op, NEW tells, U!Wrote(h, op, tells)
      PROVE v3' \in [RosterHandlers -> U!HandlerRows] /\ UNCHANGED <<v2, v4, v5, v7>>
  <2>1. [v3[h] EXCEPT !.at = "read"] \in U!HandlerRows
    BY <1>2 DEF U!HandlerRows
  <2>2. QED
    BY <1>5, <1>2, <2>1, UnreadNames DEF U!Wrote
<1>6. CASE \/ U!CreateDirectChat(h) \/ U!IncrementChatUnread(h) \/ U!MarkChatRead(h)
           \/ U!MarkBotRead(h) \/ U!SetMessageReaction(h)
  <2>1. v1' \in U!RowSets
    BY <1>6, RosterRows
  <2>2. v6' \subseteq RosterHandlers
    BY <1>6, RosterStored
  <2>3. v3' \in [RosterHandlers -> U!HandlerRows] /\ UNCHANGED <<v2, v4, v5, v7>>
    BY <1>5, <1>6 DEF U!CreateDirectChat, U!IncrementChatUnread, U!MarkChatRead, U!MarkBotRead,
                      U!SetMessageReaction
  <2>4. QED
    BY <2>1, <2>2, <2>3
<1>7. CASE U!Look(h)
  <2> DEFINE part == Head(v3[h].left)
  <2>1. part \in {"chat", "bot", "reaction"}
    BY <1>7, RosterHead DEF U!Look, U!Parts
  <2>2. [v4[h] EXCEPT ![part] = v1[part]] \in U!RowSets
    BY <2>1 DEF U!RowSets
  <2>3. v4' = [v4 EXCEPT ![h] = [v4[h] EXCEPT ![part] = v1[part]]]
    BY <1>7 DEF U!Look
  <2>4. [v3[h] EXCEPT !.at = "publish"] \in U!HandlerRows
    BY <1>2 DEF U!HandlerRows
  <2>5. v3' \in [RosterHandlers -> U!HandlerRows]
    BY <1>7, <1>2, <2>4 DEF U!Look
  <2>6. QED
    BY <1>7, <2>2, <2>3, <2>5 DEF U!Look
<1>8. CASE U!Publish(h)
  <2> DEFINE part == Head(v3[h].left)
             rest == Tail(v3[h].left)
  <2>1. part \in {"chat", "bot", "reaction"} /\ rest \in Seq(U!Parts)
    BY <1>8, RosterHead DEF U!Publish, U!Parts
  <2>2. [v2 EXCEPT ![part] = v4[h][part]] \in U!RowSets
    BY <2>1 DEF U!RowSets
  <2>3. [[v3[h] EXCEPT !.at = "read"] EXCEPT !.left = rest] \in U!HandlerRows
    BY <1>2, <2>1 DEF U!HandlerRows
  <2>4. v3' \in [RosterHandlers -> U!HandlerRows]
    BY <1>8, <1>2, <2>3, UnreadNames DEF U!Publish
  <2>5. v4' \in [RosterHandlers -> U!RowSets]
    BY <1>8, UnreadNames DEF U!Publish
  <2>6. v7' \subseteq U!Parts /\ v6' \subseteq RosterHandlers
    BY <1>8, <2>1 DEF U!Publish, U!Parts
  <2>7. QED
    BY <1>8, <2>2, <2>4, <2>5, <2>6 DEF U!Publish
<1>9. CASE U!CutOff(h)
  BY <1>9, UnreadNames DEF U!CutOff, U!Untold
<1>10. QED
  BY <1>3, <1>4, <1>6, <1>7, <1>8, <1>9

(* A write: what it changes is what the handler goes on to tell, and whoever was about *)
(* to publish an older read of it is late.                                             *)
LEMMA RosterWrites ==
  ASSUME U!RosterInv, NEW h \in RosterHandlers, NEW op \in U!Ops, NEW tells \in BOOLEAN,
         U!Wrote(h, op, tells),
         v6' = v6 \cup {g \in RosterHandlers : /\ v3[g].at = "publish"
                                               /\ v1'[Head(v3[g].left)] # v1[Head(v3[g].left)]},
         tells => \A p \in U!Parts : \/ v1'[p] = v1[p]
                                     \/ \E i \in DOMAIN U!Publishes(op) : U!Publishes(op)[i] = p,
         ~tells => \A p \in U!Parts : \/ v1'[p] = v1[p]
                                      \/ p = "chat" /\ op = "open" /\ v1.chat = None,
         op = "open" => tells = ~v3[h].replayed,
         v1.chat # None \/ op = "open" => v1'.chat # None
  PROVE  (U!Handling /\ U!ReadsHold /\ U!ChangesAreTold /\ U!ChatsAreCreated)'
<1> USE DEF U!RosterInv
<1>1. /\ v3[h].at = "write" /\ v3[h].op = op /\ UNCHANGED <<v2, v4, v5, v7>>
      /\ v3' = [v3 EXCEPT ![h] = IF tells THEN [v3[h] EXCEPT !.at = "read"] ELSE U!Idle]
  BY DEF U!Wrote
<1>2. v3 \in [RosterHandlers -> U!HandlerRows] /\ v3[h] \in U!HandlerRows
  BY DEF U!TypeOK
<1>3. /\ \A g \in RosterHandlers \ {h} : v3'[g] = v3[g]
      /\ tells => v3'[h].at = "read" /\ v3'[h].left = v3[h].left
      /\ ~tells => v3'[h] = U!Idle
  BY <1>1, <1>2 DEF U!HandlerRows
<1>4. v3[h].left = U!Publishes(op) /\ v3[h].left # <<>>
  BY <1>1 DEF U!Handling
<1>5. U!Idle.at = "idle" /\ U!Idle.left = <<>> /\ h \notin v6
  BY <1>1 DEF U!Idle, U!Handling
<1>6. ASSUME NEW g \in RosterHandlers, g # h, NEW p \in U!Parts, U!Tells(g, p), v1'[p] = v1[p]
      PROVE  U!Tells(g, p)'
  BY <1>3, <1>6 DEF U!Tells, U!Untold, U!Parts
<1>7. U!Handling'
  <2>1. ASSUME NEW g \in RosterHandlers
        PROVE  /\ (g \in v6' => v3'[g].at = "publish")
               /\ IF v3'[g].at = "idle" THEN v3'[g] = U!Idle
                  ELSE /\ v3'[g].left # <<>>
                       /\ v3'[g].at = "write" => v3'[g].left = U!Publishes(v3'[g].op)
    BY <1>1, <1>3, <1>4, <1>5 DEF U!Handling
  <2>2. v6' \subseteq RosterHandlers
    BY DEF U!TypeOK
  <2>3. QED
    BY <2>1, <2>2 DEF U!Handling, U!Idle, U!Publishes
<1>8. U!ReadsHold'
  <2>1. ASSUME NEW g \in RosterHandlers, v3'[g].at = "publish"
        PROVE  g \in v6' \/ v4'[g][Head(v3'[g].left)] = v1'[Head(v3'[g].left)]
    BY <1>1, <1>3, <1>5, <2>1 DEF U!ReadsHold
  <2>2. QED
    BY <2>1 DEF U!ReadsHold
<1>9. U!ChangesAreTold'
  <2>1. ASSUME NEW p \in U!Parts, p \notin v7
        PROVE  v2[p] = v1'[p] \/ \E g \in RosterHandlers : U!Tells(g, p)'
    <3>1. CASE v1'[p] = v1[p]
      <4>1. CASE v2[p] = v1[p]
        BY <3>1, <4>1
      <4>2. ASSUME NEW g \in RosterHandlers, U!Tells(g, p), g # h
            PROVE  U!Tells(g, p)'
        BY <1>6, <3>1, <4>2
      <4>3. ASSUME U!Tells(h, p)
            PROVE  U!Tells(h, p)'
        <5>1. tells
          BY <1>1, <4>3 DEF U!Tells, U!Untold
        <5>2. QED
          BY <1>3, <4>3, <5>1 DEF U!Tells, U!Untold, U!Parts
      <4>4. v2[p] = v1[p] \/ \E g \in RosterHandlers : U!Tells(g, p)
        BY <2>1 DEF U!ChangesAreTold
      <4>5. QED
        BY <4>1, <4>2, <4>3, <4>4
    <3>2. CASE v1'[p] # v1[p] /\ tells
      <4>1. \E i \in DOMAIN v3'[h].left : v3'[h].left[i] = p
        BY <1>3, <1>4, <3>2
      <4>2. U!Tells(h, p)'
        BY <1>3, <3>2, <4>1 DEF U!Tells, U!Untold, U!Parts
      <4>3. QED
        BY <4>2
    <3>3. CASE v1'[p] # v1[p] /\ ~tells
      <4>1. p = "chat" /\ op = "open" /\ v1.chat = None /\ v3[h].replayed
        BY <3>3
      <4>2. PICK c \in v5 : c[2] = "open"
        BY <1>1, <4>1 DEF U!ChatsAreCreated
      <4>3. PICK g \in RosterHandlers : v3[g].at = "write" /\ v3[g].op = "open" /\ ~v3[g].replayed
        BY <2>1, <4>1, <4>2 DEF U!ChatsAreCreated, U!Exists
      <4>4. v3[g].left = <<"chat">>
        BY <4>3 DEF U!Handling, U!Publishes
      <4>5. 1 \in DOMAIN v3[g].left /\ v3[g].left[1] = p
        BY <4>1, <4>4
      <4>6. g # h /\ v3'[g] = v3[g]
        BY <1>3, <4>1, <4>3
      <4>7. U!Tells(g, p)'
        BY <4>3, <4>5, <4>6 DEF U!Tells, U!Untold, U!Parts
      <4>8. QED
        BY <4>7
    <3>4. QED
      BY <3>1, <3>2, <3>3
  <2>2. QED
    BY <1>1, <2>1 DEF U!ChangesAreTold, U!Parts
<1>10. U!ChatsAreCreated'
  <2>1. v1.chat # None => v1'.chat # None
    OBVIOUS
  <2>2. ASSUME "chat" \in U!Untold(h)', v3'[h].at = "read" PROVE v1'.chat # None
    <3>1. PICK i \in DOMAIN U!Publishes(op) : U!Publishes(op)[i] = "chat"
      BY <1>3, <1>4, <1>5, <2>2 DEF U!Untold
    <3>2. op # "read_bot"
      BY <3>1 DEF U!Publishes
    <3>3. op = "open" \/ v1.chat # None
      BY <1>1, <3>2 DEF U!ChatsAreCreated, U!Exists
    <3>4. QED
      BY <3>3
  <2>3. ASSUME NEW g \in RosterHandlers
        PROVE  /\ v3'[g].at \notin {"idle", "write"} /\ "chat" \in U!Untold(g)' => v1'.chat # None
               /\ v3'[g].at = "write" /\ v3'[g].op \notin {"open", "read_bot"} => v1'.chat # None
               /\ v3'[g].at = "write" /\ v3'[g].op = "open" => \E c \in v5 : c[2] = "open"
    <3>1. CASE g = h
      BY <1>3, <1>5, <2>2, <3>1
    <3>2. CASE g # h
      <4>1. v3'[g] = v3[g]
        BY <1>3, <3>2
      <4>2. "chat" \in U!Untold(g)' => "chat" \in U!Untold(g)
        BY <4>1 DEF U!Untold, U!Parts
      <4>3. QED
        BY <2>1, <4>1, <4>2 DEF U!ChatsAreCreated, U!Exists
    <3>3. QED
      BY <3>1, <3>2
  <2>4. ASSUME NEW c \in v5, c[2] = "open"
        PROVE  \/ v1'.chat # None \/ "chat" \in v7
               \/ \E g \in RosterHandlers : v3'[g].at = "write" /\ v3'[g].op = "open" /\ ~v3'[g].replayed
    <3>1. CASE op = "open"
      BY <3>1
    <3>2. CASE op # "open"
      BY <1>1, <1>3, <2>1, <2>4, <3>2 DEF U!ChatsAreCreated, U!Exists
    <3>3. QED
      BY <3>1, <3>2
  <2>5. QED
    BY <1>1, <2>3, <2>4 DEF U!ChatsAreCreated, U!Exists
<1>11. QED
  BY <1>7, <1>8, <1>9, <1>10

(* Each of the five writes is one of these. *)
LEMMA RosterWritten ==
  ASSUME U!RosterInv, NEW h \in RosterHandlers,
         \/ U!CreateDirectChat(h) \/ U!IncrementChatUnread(h) \/ U!MarkChatRead(h)
         \/ U!MarkBotRead(h) \/ U!SetMessageReaction(h)
  PROVE  (U!Handling /\ U!ReadsHold /\ U!ChangesAreTold /\ U!ChatsAreCreated)'
<1>1. v1 \in U!RowSets /\ v1' \in U!RowSets
  BY RosterRows DEF U!RosterInv, U!TypeOK
<1>2. v3[h] \in U!HandlerRows
  BY DEF U!RosterInv, U!TypeOK
<1>3. v6' = v6 \cup {g \in RosterHandlers : /\ v3[g].at = "publish"
                                            /\ v1'[Head(v3[g].left)] # v1[Head(v3[g].left)]}
  BY RosterStored
<1>4. /\ U!Publishes("open")[1] = "chat" /\ DOMAIN U!Publishes("open") = {1}
      /\ U!Publishes("finish")[2] = "chat" /\ U!Publishes("finish")[3] = "bot"
      /\ DOMAIN U!Publishes("finish") = {1, 2, 3}
      /\ U!Publishes("read_chat")[1] = "chat" /\ U!Publishes("read_chat")[2] = "bot"
      /\ DOMAIN U!Publishes("read_chat") = {1, 2}
      /\ U!Publishes("read_bot")[1] = "bot" /\ DOMAIN U!Publishes("read_bot") = {1}
      /\ \A op \in {"react", "unreact"} :
           U!Publishes(op)[1] = "reaction" /\ DOMAIN U!Publishes(op) = {1}
  BY DEF U!Publishes
<1>5. U!Parts = {"chat", "bot", "reaction"} /\ {"open", "finish", "read_chat", "read_bot", "react", "unreact"} \subseteq U!Ops
  BY UnreadNames DEF U!Parts
<1>6. \A n \in U!Counts : n # None
  BY UnreadCounting
<1>7. CASE U!CreateDirectChat(h)
  <2>1. U!Wrote(h, "open", ~v3[h].replayed) /\ v3[h].replayed \in BOOLEAN
    BY <1>2, <1>7 DEF U!CreateDirectChat, U!HandlerRows
  <2>2. /\ v1'.bot = v1.bot /\ v1'.reaction = v1.reaction /\ v1'.chat # None
        /\ v1.chat # None => v1' = v1
    BY <1>1, <1>6, <1>7, UnreadCounting DEF U!CreateDirectChat, U!Store, U!Exists, U!RowSets
  <2>3. PICK tells \in BOOLEAN : tells = ~v3[h].replayed
    BY <2>1
  <2>4. /\ U!Wrote(h, "open", tells)
        /\ tells => \A p \in U!Parts : \/ v1'[p] = v1[p]
                                       \/ \E i \in DOMAIN U!Publishes("open") : U!Publishes("open")[i] = p
        /\ \A p \in U!Parts : \/ v1'[p] = v1[p]
                              \/ p = "chat" /\ v1.chat = None
    BY <1>4, <1>5, <2>1, <2>2, <2>3
  <2>5. PICK op \in U!Ops : op = "open"
    BY <1>5
  <2>6. /\ U!Wrote(h, op, tells) /\ tells = ~v3[h].replayed
        /\ tells => \A p \in U!Parts : \/ v1'[p] = v1[p]
                                       \/ \E i \in DOMAIN U!Publishes(op) : U!Publishes(op)[i] = p
        /\ ~tells => \A p \in U!Parts : \/ v1'[p] = v1[p]
                                        \/ p = "chat" /\ op = "open" /\ v1.chat = None
    BY <2>3, <2>4, <2>5
  <2>7. QED
    BY <1>3, <2>2, <2>6, RosterWrites
<1>8. CASE U!IncrementChatUnread(h)
  <2>1. U!Wrote(h, "finish", TRUE) /\ v3[h].at = "write" /\ v3[h].op = "finish"
    BY <1>8 DEF U!IncrementChatUnread, U!Wrote
  <2>2. v1.chat # None
    BY <2>1 DEF U!RosterInv, U!ChatsAreCreated, U!Exists
  <2>3. v1'.reaction = v1.reaction /\ v1'.chat = v1.chat + 1
    BY <1>1, <1>8 DEF U!IncrementChatUnread, U!Store, U!RowSets
  <2>4. v1'.chat # None
    BY <1>1, <1>6, <2>2, <2>3, <1>8, UnreadCounting DEF U!RowSets, U!IncrementChatUnread
  <2>5. \A p \in U!Parts : \/ v1'[p] = v1[p]
                           \/ \E i \in DOMAIN U!Publishes("finish") : U!Publishes("finish")[i] = p
    BY <1>4, <1>5, <2>3
  <2>6. QED
    BY <1>3, <1>5, <2>1, <2>4, <2>5, RosterWrites
<1>9. CASE U!MarkChatRead(h)
  <2>1. PICK tells \in BOOLEAN : tells = (v1.chat # 0 /\ ~v3[h].replayed)
    BY <1>2 DEF U!HandlerRows
  <2>2. U!Wrote(h, "read_chat", tells) /\ v3[h].at = "write" /\ v3[h].op = "read_chat"
    BY <1>9, <2>1 DEF U!MarkChatRead, U!Wrote
  <2>3. /\ ~tells => v1' = v1
        /\ tells => v1'.reaction = v1.reaction /\ v1'.chat = 0
    BY <1>1, <1>9, <2>1 DEF U!MarkChatRead, U!Store, U!RowSets
  <2>4. v1.chat # None => v1'.chat # None
    BY <1>6, <2>3, UnreadCounting
  <2>5. \A p \in U!Parts : \/ v1'[p] = v1[p]
                           \/ tells /\ \E i \in DOMAIN U!Publishes("read_chat") : U!Publishes("read_chat")[i] = p
    BY <1>4, <1>5, <2>3
  <2>6. QED
    BY <1>3, <1>5, <2>2, <2>4, <2>5, RosterWrites
<1>10. CASE U!MarkBotRead(h)
  <2>1. U!Wrote(h, "read_bot", TRUE)
    BY <1>10 DEF U!MarkBotRead
  <2>2. v1'.reaction = v1.reaction /\ v1'.chat = v1.chat
    BY <1>1, <1>10 DEF U!MarkBotRead, U!Store, U!RowSets
  <2>3. \A p \in U!Parts : \/ v1'[p] = v1[p]
                           \/ \E i \in DOMAIN U!Publishes("read_bot") : U!Publishes("read_bot")[i] = p
    BY <1>4, <1>5, <2>2
  <2>4. QED
    BY <1>3, <1>5, <2>1, <2>2, <2>3, RosterWrites
<1>11. CASE U!SetMessageReaction(h)
  <2>1. PICK op \in {"react", "unreact"} :
          /\ U!Wrote(h, op, ~v3[h].replayed)
          /\ U!Store(IF v3[h].replayed THEN v1 ELSE [v1 EXCEPT !.reaction = op = "react"])
    BY <1>11 DEF U!SetMessageReaction
  <2>2. PICK tells \in BOOLEAN : tells = ~v3[h].replayed
    BY <1>2 DEF U!HandlerRows
  <2>3. U!Wrote(h, op, tells) /\ v1'.chat = v1.chat /\ v1'.bot = v1.bot /\ (~tells => v1' = v1)
    BY <1>1, <2>1, <2>2 DEF U!Store, U!RowSets
  <2>4. \A p \in U!Parts : \/ v1'[p] = v1[p]
                           \/ tells /\ \E i \in DOMAIN U!Publishes(op) : U!Publishes(op)[i] = p
    BY <1>4, <1>5, <2>3
  <2>5. op \in U!Ops /\ op # "open"
    BY <1>5
  <2>6. QED
    BY <1>3, <2>3, <2>4, <2>5, RosterWrites
<1>12. QED
  BY <1>7, <1>8, <1>9, <1>10, <1>11

(* A handler begins: it has told nothing yet, and only a new chat waits for it. *)
LEMMA RosterBegins ==
  ASSUME U!RosterInv, NEW h \in RosterHandlers,
         \/ \E op \in U!Ops \ {"finish"}, key \in RosterKeys : U!Claim(h, op, key)
         \/ U!FinishBegins(h)
  PROVE  (U!Handling /\ U!ReadsHold /\ U!ChangesAreTold /\ U!ChatsAreCreated)'
<1> USE DEF U!RosterInv
<1> DEFINE begun(op, key, replayed) ==
             /\ v3[h] = U!Idle /\ UNCHANGED <<v1, v2, v4, v6, v7>>
             /\ v3' = [v3 EXCEPT ![h] = [at |-> "write", op |-> op, key |-> key,
                         replayed |-> replayed, left |-> U!Publishes(op)]]
             /\ op \notin {"open", "read_bot"} => v1.chat # None
             /\ \/ op # "finish" /\ v5' = v5 \cup {<<key, op>>} /\ (replayed => <<key, op>> \in v5)
                \/ op = "finish" /\ v5' = v5
<1>0. \E op \in U!Ops, key \in RosterKeys \cup {None}, replayed \in BOOLEAN : begun(op, key, replayed)
  <2>1. CASE U!FinishBegins(h)
    <3>1. begun("finish", None, FALSE)
      BY <2>1 DEF U!FinishBegins, U!Exists
    <3>2. "finish" \in U!Ops
      BY DEF U!Ops
    <3> HIDE DEF begun
    <3>3. QED
      BY <3>1, <3>2
  <2>2. CASE \E op \in U!Ops \ {"finish"}, key \in RosterKeys : U!Claim(h, op, key)
    <3>1. PICK op \in U!Ops \ {"finish"}, key \in RosterKeys : U!Claim(h, op, key)
      BY <2>2
    <3> DEFINE replayed == <<key, op>> \in v5
    <3>2. replayed \in BOOLEAN
      OBVIOUS
    <3>3. begun(op, key, replayed)
      BY <3>1 DEF U!Claim, U!Exists
    <3> HIDE DEF replayed, begun
    <3>4. \E r \in BOOLEAN : begun(op, key, r)
      BY <3>2, <3>3
    <3>5. QED
      BY <3>1, <3>4
  <2>3. QED
    BY <2>1, <2>2
<1>1. PICK op \in U!Ops, key \in RosterKeys \cup {None}, replayed \in BOOLEAN : begun(op, key, replayed)
  BY <1>0
<1>2. v3 \in [RosterHandlers -> U!HandlerRows] /\ v3[h].left = <<>> /\ v3[h].at = "idle"
  BY <1>1 DEF U!TypeOK, U!Idle
<1>3. /\ v3'[h].at = "write" /\ v3'[h].op = op /\ v3'[h].left = U!Publishes(op)
      /\ v3'[h].replayed = replayed /\ U!Publishes(op) # <<>>
      /\ \A g \in RosterHandlers \ {h} : v3'[g] = v3[g] /\ (g \in v6' => g \in v6)
      /\ UNCHANGED <<v1, v2, v4, v6, v7>> /\ v5 \subseteq v5'
  BY <1>1, <1>2, UnreadNames
<1>4. U!Handling'
  <2>1. ASSUME NEW g \in RosterHandlers
        PROVE  /\ (g \in v6' => v3'[g].at = "publish")
               /\ IF v3'[g].at = "idle" THEN v3'[g] = U!Idle
                  ELSE /\ v3'[g].left # <<>>
                       /\ v3'[g].at = "write" => v3'[g].left = U!Publishes(v3'[g].op)
    BY <1>2, <1>3 DEF U!Handling
  <2>2. v6' \subseteq RosterHandlers
    BY <1>3 DEF U!TypeOK
  <2>3. QED
    BY <2>1, <2>2 DEF U!Handling, U!Idle, U!Publishes
<1>5. U!ReadsHold'
  BY <1>3 DEF U!ReadsHold
<1>6. U!ChangesAreTold'
  <2>1. ASSUME NEW p \in U!Parts, p \notin v7
        PROVE  v2[p] = v1[p] \/ \E g \in RosterHandlers : U!Tells(g, p)'
    <3>1. v2[p] = v1[p] \/ \E g \in RosterHandlers : U!Tells(g, p)
      BY <2>1 DEF U!ChangesAreTold
    <3>2. ~U!Tells(h, p)
      BY <1>2 DEF U!Tells, U!Untold
    <3>3. QED
      BY <1>3, <3>1, <3>2, RosterOthers
  <2>2. QED
    BY <1>3, <2>1 DEF U!ChangesAreTold, U!Parts
<1>7. U!ChatsAreCreated'
  <2>1. op = "open" => <<key, op>> \in v5' /\ <<key, op>>[2] = "open"
    BY <1>1
  <2>2. ASSUME NEW g \in RosterHandlers
        PROVE  /\ v3'[g].at \notin {"idle", "write"} /\ "chat" \in U!Untold(g)' => v1.chat # None
               /\ v3'[g].at = "write" /\ v3'[g].op \notin {"open", "read_bot"} => v1.chat # None
               /\ v3'[g].at = "write" /\ v3'[g].op = "open" => \E c \in v5' : c[2] = "open"
    <3>1. CASE g = h
      BY <1>1, <1>3, <2>1, <3>1
    <3>2. CASE g # h
      <4>1. v3'[g] = v3[g]
        BY <1>3, <3>2
      <4>2. "chat" \in U!Untold(g)' => "chat" \in U!Untold(g)
        BY <4>1 DEF U!Untold, U!Parts
      <4>3. QED
        BY <1>3, <4>1, <4>2 DEF U!ChatsAreCreated, U!Exists
    <3>3. QED
      BY <3>1, <3>2
  <2>3. ASSUME NEW c \in v5', c[2] = "open"
        PROVE  \/ v1.chat # None \/ "chat" \in v7
               \/ \E g \in RosterHandlers : v3'[g].at = "write" /\ v3'[g].op = "open" /\ ~v3'[g].replayed
    <3>1. CASE \E d \in v5 : d[2] = "open"
      BY <1>2, <1>3, <3>1 DEF U!ChatsAreCreated, U!Exists
    <3>2. CASE ~\E d \in v5 : d[2] = "open"
      <4>1. c = <<key, op>> /\ op = "open"
        BY <1>1, <2>3, <3>2
      <4>2. ~replayed
        BY <1>1, <3>2, <4>1
      <4>3. QED
        BY <1>3, <4>1, <4>2
    <3>3. QED
      BY <3>1, <3>2
  <2>4. QED
    BY <1>3, <2>2, <2>3 DEF U!ChatsAreCreated, U!Exists
<1>8. QED
  BY <1>4, <1>5, <1>6, <1>7

(* A handler reads a row back. *)
LEMMA RosterLooks ==
  ASSUME U!RosterInv, NEW h \in RosterHandlers, U!Look(h)
  PROVE  (U!Handling /\ U!ReadsHold /\ U!ChangesAreTold /\ U!ChatsAreCreated)'
<1> USE DEF U!RosterInv
<1>1. PICK part : part = Head(v3[h].left)
  OBVIOUS
<1>2. /\ v3[h].at = "read" /\ UNCHANGED <<v1, v2, v5, v6, v7>>
      /\ v3' = [v3 EXCEPT ![h] = [v3[h] EXCEPT !.at = "publish"]]
      /\ v4' = [v4 EXCEPT ![h] = [v4[h] EXCEPT ![part] = v1[part]]]
  BY <1>1 DEF U!Look
<1>3. /\ v3 \in [RosterHandlers -> U!HandlerRows] /\ v4 \in [RosterHandlers -> U!RowSets]
      /\ v3[h].left # <<>> /\ h \notin v6 /\ part \in {"chat", "bot", "reaction"}
  BY <1>1, <1>2, RosterHead DEF U!TypeOK, U!Handling, U!Parts
<1>4. /\ v3'[h].at = "publish" /\ v3'[h].left = v3[h].left /\ v4'[h][part] = v1[part]
      /\ \A g \in RosterHandlers \ {h} : v3'[g] = v3[g] /\ v4'[g] = v4[g] /\ (g \in v6' => g \in v6)
  BY <1>2, <1>3 DEF U!HandlerRows, U!RowSets
<1>5. U!Handling'
  <2>1. ASSUME NEW g \in RosterHandlers
        PROVE  /\ (g \in v6' => v3'[g].at = "publish")
               /\ IF v3'[g].at = "idle" THEN v3'[g] = U!Idle
                  ELSE /\ v3'[g].left # <<>>
                       /\ v3'[g].at = "write" => v3'[g].left = U!Publishes(v3'[g].op)
    BY <1>2, <1>3, <1>4 DEF U!Handling
  <2>2. v6' \subseteq RosterHandlers
    BY <1>2 DEF U!TypeOK
  <2>3. QED
    BY <2>1, <2>2 DEF U!Handling, U!Idle, U!Publishes
<1>6. U!ReadsHold'
  BY <1>1, <1>2, <1>4 DEF U!ReadsHold
<1>7. U!ChangesAreTold'
  <2>1. ASSUME NEW p \in U!Parts, U!Tells(h, p) PROVE U!Tells(h, p)'
    BY <1>2, <1>3, <1>4, <2>1 DEF U!Tells, U!Untold, U!Parts
  <2>2. ASSUME NEW p \in U!Parts, p \notin v7
        PROVE  v2[p] = v1[p] \/ \E g \in RosterHandlers : U!Tells(g, p)'
    BY <1>4, <2>1, <2>2, RosterOthers DEF U!ChangesAreTold
  <2>3. QED
    BY <1>2, <2>2 DEF U!ChangesAreTold, U!Parts
<1>8. U!ChatsAreCreated'
  <2>1. ASSUME NEW g \in RosterHandlers
        PROVE  /\ v3'[g].at \notin {"idle", "write"} /\ "chat" \in U!Untold(g)' => v1.chat # None
               /\ v3'[g].at = "write" => v3'[g] = v3[g]
    <3>1. v3'[g].at \notin {"idle", "write"} /\ "chat" \in U!Untold(g)'
             => v3[g].at \notin {"idle", "write"} /\ "chat" \in U!Untold(g)
      BY <1>2, <1>4 DEF U!Untold, U!Parts
    <3>2. QED
      BY <1>4, <3>1 DEF U!ChatsAreCreated, U!Exists
  <2>2. \A g \in RosterHandlers : v3[g].at = "write" => v3'[g] = v3[g]
    BY <1>2, <1>4
  <2>3. QED
    BY <1>2, <2>1, <2>2 DEF U!ChatsAreCreated, U!Exists
<1>9. QED
  BY <1>5, <1>6, <1>7, <1>8

(* A handler publishes what it read: the row is told as it is, or its read was late. *)
LEMMA RosterTells ==
  ASSUME U!RosterInv, NEW h \in RosterHandlers, U!Publish(h)
  PROVE  (U!Handling /\ U!ReadsHold /\ U!ChangesAreTold /\ U!ChatsAreCreated)'
<1> USE DEF U!RosterInv
<1>1. PICK part : part = Head(v3[h].left)
  OBVIOUS
<1>2. PICK rest : rest = Tail(v3[h].left)
  OBVIOUS
<1>3. /\ v3[h].at = "publish" /\ UNCHANGED <<v1, v5>>
      /\ v3' = [v3 EXCEPT ![h] = IF rest = <<>> THEN U!Idle
                                 ELSE [v3[h] EXCEPT !.at = "read", !.left = rest]]
      /\ v2' = [v2 EXCEPT ![part] = v4[h][part]] /\ v4' = [v4 EXCEPT ![h] = U!Start]
      /\ v7' = (IF h \in v6 THEN v7 \cup {part} ELSE v7 \ {part}) /\ v6' = v6 \ {h}
  BY <1>1, <1>2 DEF U!Publish
<1>4. /\ v3 \in [RosterHandlers -> U!HandlerRows] /\ v4 \in [RosterHandlers -> U!RowSets] /\ v2 \in U!RowSets
      /\ part \in {"chat", "bot", "reaction"} /\ U!Parts = {"chat", "bot", "reaction"}
      /\ 1 \in DOMAIN v3[h].left /\ v3[h].left[1] = part
      /\ \A i \in DOMAIN v3[h].left : i = 1 \/ (i - 1 \in DOMAIN rest /\ rest[i - 1] = v3[h].left[i])
      /\ \A i \in DOMAIN rest : i + 1 \in DOMAIN v3[h].left /\ v3[h].left[i + 1] = rest[i]
  BY <1>1, <1>2, <1>3, RosterHead DEF U!TypeOK, U!Parts
<1>5. /\ \A g \in RosterHandlers \ {h} : v3'[g] = v3[g] /\ v4'[g] = v4[g] /\ (g \in v6' => g \in v6)
      /\ rest = <<>> => v3'[h] = U!Idle
      /\ rest # <<>> => v3'[h].at = "read" /\ v3'[h].left = rest
      /\ U!Idle.at = "idle" /\ U!Idle.left = <<>>
  BY <1>3, <1>4 DEF U!HandlerRows, U!Idle
<1>6. v2'[part] = v4[h][part] /\ \A p \in U!Parts : p # part => v2'[p] = v2[p]
  BY <1>3, <1>4 DEF U!RowSets
<1>7. U!Handling'
  <2>1. ASSUME NEW g \in RosterHandlers
        PROVE  /\ (g \in v6' => v3'[g].at = "publish")
               /\ IF v3'[g].at = "idle" THEN v3'[g] = U!Idle
                  ELSE /\ v3'[g].left # <<>>
                       /\ v3'[g].at = "write" => v3'[g].left = U!Publishes(v3'[g].op)
    BY <1>3, <1>5 DEF U!Handling
  <2>2. v6' \subseteq RosterHandlers
    BY <1>3 DEF U!TypeOK
  <2>3. QED
    BY <2>1, <2>2 DEF U!Handling, U!Idle, U!Publishes
<1>8. U!ReadsHold'
  <2>1. v3'[h].at # "publish" /\ \A g \in RosterHandlers \ {h} : g \in v6 => g \in v6'
    BY <1>3, <1>5
  <2>2. QED
    BY <1>3, <1>5, <2>1 DEF U!ReadsHold
<1>9. U!ChangesAreTold'
  <2>1. ASSUME NEW p \in U!Parts, p \notin v7'
        PROVE  v2'[p] = v1[p] \/ \E g \in RosterHandlers : U!Tells(g, p)'
    <3>1. CASE p = part
      <4>1. h \notin v6
        BY <1>3, <2>1, <3>1
      <4>2. v4[h][part] = v1[part]
        BY <1>1, <1>3, <4>1 DEF U!ReadsHold
      <4>3. QED
        BY <1>6, <3>1, <4>2
    <3>2. CASE p # part
      <4>1. v2[p] = v1[p] \/ \E g \in RosterHandlers : U!Tells(g, p)
        BY <1>3, <2>1, <3>2 DEF U!ChangesAreTold
      <4>2. ASSUME U!Tells(h, p) PROVE U!Tells(h, p)'
        <5>1. PICK i \in DOMAIN v3[h].left : v3[h].left[i] = p
          BY <4>2 DEF U!Tells, U!Untold
        <5>2. i - 1 \in DOMAIN rest /\ rest[i - 1] = p
          BY <1>4, <3>2, <5>1
        <5>3. rest # <<>>
          BY <5>2
        <5>4. v3'[h].at = "read" /\ \E j \in DOMAIN v3'[h].left : v3'[h].left[j] = p
          BY <1>5, <5>2, <5>3
        <5>5. QED
          BY <5>4 DEF U!Tells, U!Untold, U!Parts
      <4>3. QED
        BY <1>5, <1>6, <3>2, <4>1, <4>2, RosterOthers
    <3>3. QED
      BY <3>1, <3>2
  <2>2. QED
    BY <1>3, <2>1 DEF U!ChangesAreTold, U!Parts
<1>10. U!ChatsAreCreated'
  <2>1. ASSUME NEW g \in RosterHandlers
        PROVE  /\ v3'[g].at \notin {"idle", "write"} /\ "chat" \in U!Untold(g)' => v1.chat # None
               /\ v3'[g].at = "write" => v3'[g] = v3[g]
    <3>1. CASE g = h
      <4>1. ASSUME v3'[h].at \notin {"idle", "write"}, "chat" \in U!Untold(h)' PROVE "chat" \in U!Untold(h)
        <5>1. v3'[h].left = rest
          BY <1>5, <4>1
        <5>2. PICK i \in DOMAIN rest : rest[i] = "chat"
          BY <4>1, <5>1 DEF U!Untold
        <5>3. i + 1 \in DOMAIN v3[h].left /\ v3[h].left[i + 1] = "chat"
          BY <1>4, <5>2
        <5>4. QED
          BY <1>3, <1>4, <5>3 DEF U!Untold
      <4>2. v3'[h].at \in {"idle", "read"}
        BY <1>5
      <4>3. QED
        BY <1>3, <3>1, <4>1, <4>2 DEF U!ChatsAreCreated, U!Exists
    <3>2. CASE g # h
      <4>1. v3'[g] = v3[g]
        BY <1>5, <3>2
      <4>2. "chat" \in U!Untold(g)' => "chat" \in U!Untold(g)
        BY <4>1 DEF U!Untold, U!Parts
      <4>3. QED
        BY <4>1, <4>2 DEF U!ChatsAreCreated, U!Exists
    <3>3. QED
      BY <3>1, <3>2
  <2>2. "chat" \in v7 => "chat" \in v7' \/ v1.chat # None
    <3>1. part = "chat" => "chat" \in U!Untold(h)
      BY <1>3, <1>4 DEF U!Untold
    <3>2. QED
      BY <1>3, <3>1 DEF U!ChatsAreCreated, U!Exists
  <2>3. \A g \in RosterHandlers : v3[g].at = "write" => v3'[g] = v3[g]
    BY <1>3, <1>5
  <2>4. QED
    BY <1>3, <2>1, <2>2, <2>3 DEF U!ChatsAreCreated, U!Exists
<1>11. QED
  BY <1>7, <1>8, <1>9, <1>10

(* A handler is cut off: what it had to tell is behind. *)
LEMMA RosterCutOff ==
  ASSUME U!RosterInv, NEW h \in RosterHandlers, U!CutOff(h)
  PROVE  (U!Handling /\ U!ReadsHold /\ U!ChangesAreTold /\ U!ChatsAreCreated)'
<1> USE DEF U!RosterInv
<1>1. /\ v3' = [v3 EXCEPT ![h] = U!Idle] /\ v4' = [v4 EXCEPT ![h] = U!Start]
      /\ v7' = v7 \cup U!Untold(h) /\ v6' = v6 \ {h} /\ UNCHANGED <<v1, v2, v5>>
  BY DEF U!CutOff
<1>2. /\ v3 \in [RosterHandlers -> U!HandlerRows] /\ v4 \in [RosterHandlers -> U!RowSets]
      /\ U!Idle.at = "idle" /\ U!Idle.left = <<>>
  BY DEF U!TypeOK, U!Idle
<1>3. /\ v3'[h] = U!Idle
      /\ \A g \in RosterHandlers \ {h} : v3'[g] = v3[g] /\ v4'[g] = v4[g] /\ (g \in v6' <=> g \in v6)
  BY <1>1, <1>2
<1>4. U!Handling'
  <2>1. ASSUME NEW g \in RosterHandlers
        PROVE  /\ (g \in v6' => v3'[g].at = "publish")
               /\ IF v3'[g].at = "idle" THEN v3'[g] = U!Idle
                  ELSE /\ v3'[g].left # <<>>
                       /\ v3'[g].at = "write" => v3'[g].left = U!Publishes(v3'[g].op)
    BY <1>1, <1>2, <1>3 DEF U!Handling
  <2>2. v6' \subseteq RosterHandlers
    BY <1>1 DEF U!TypeOK
  <2>3. QED
    BY <2>1, <2>2 DEF U!Handling, U!Idle, U!Publishes
<1>5. U!ReadsHold'
  BY <1>1, <1>2, <1>3 DEF U!ReadsHold
<1>6. U!ChangesAreTold'
  <2>1. ASSUME NEW p \in U!Parts, p \notin v7'
        PROVE  v2[p] = v1[p] \/ \E g \in RosterHandlers : U!Tells(g, p)'
    <3>1. v2[p] = v1[p] \/ \E g \in RosterHandlers : U!Tells(g, p)
      BY <1>1, <2>1 DEF U!ChangesAreTold
    <3>2. ~U!Tells(h, p)
      BY <1>1, <2>1 DEF U!Tells
    <3>3. QED
      BY <1>3, <3>1, <3>2, RosterOthers
  <2>2. QED
    BY <1>1, <2>1 DEF U!ChangesAreTold, U!Parts
<1>7. U!ChatsAreCreated'
  <2>1. ASSUME NEW g \in RosterHandlers
        PROVE  /\ v3'[g].at \notin {"idle", "write"} /\ "chat" \in U!Untold(g)' => v1.chat # None
               /\ v3'[g].at = "write" => v3'[g] = v3[g]
    <3>1. CASE g = h
      BY <1>2, <1>3, <3>1
    <3>2. CASE g # h
      <4>1. v3'[g] = v3[g]
        BY <1>3, <3>2
      <4>2. "chat" \in U!Untold(g)' => "chat" \in U!Untold(g)
        BY <4>1 DEF U!Untold, U!Parts
      <4>3. QED
        BY <4>1, <4>2 DEF U!ChatsAreCreated, U!Exists
    <3>3. QED
      BY <3>1, <3>2
  <2>2. ASSUME v3[h].at = "write", v3[h].op = "open", ~v3[h].replayed PROVE "chat" \in v7'
    <3>1. v3[h].left = <<"chat">>
      BY <2>2 DEF U!Handling, U!Publishes
    <3>2. 1 \in DOMAIN v3[h].left /\ v3[h].left[1] = "chat"
      BY <3>1
    <3>3. QED
      BY <1>1, <2>2, <3>2 DEF U!Untold, U!Parts
  <2>3. QED
    BY <1>1, <1>3, <2>1, <2>2 DEF U!ChatsAreCreated, U!Exists
<1>8. QED
  BY <1>4, <1>5, <1>6, <1>7

(* Every step keeps the invariant of the roster. *)
LEMMA RosterStep ==
  ASSUME U!RosterInv, [U!Next]_U!vars
  PROVE  U!RosterInv'
<1>1. U!TypeOK'
  BY RosterTypes DEF U!RosterInv
<1>2. CASE UNCHANGED U!vars
  <2>1. UNCHANGED <<v1, v2, v3, v4, v5, v6, v7>>
    BY <1>2 DEF U!vars
  <2>2. U!Handling'
    BY <2>1 DEF U!RosterInv, U!Handling, U!Idle, U!Publishes
  <2>3. U!ReadsHold'
    BY <2>1 DEF U!RosterInv, U!ReadsHold
  <2>4. U!ChangesAreTold'
    BY <2>1 DEF U!RosterInv, U!ChangesAreTold, U!Tells, U!Untold, U!Parts
  <2>5. U!ChatsAreCreated'
    BY <2>1 DEF U!RosterInv, U!ChatsAreCreated, U!Untold, U!Exists, U!Parts
  <2>6. QED
    BY <1>1, <2>2, <2>3, <2>4, <2>5 DEF U!RosterInv
<1>3. CASE U!Next
  <2>1. PICK h \in RosterHandlers :
          \/ \E op \in U!Ops \ {"finish"}, key \in RosterKeys : U!Claim(h, op, key)
          \/ U!FinishBegins(h)
          \/ U!CreateDirectChat(h) \/ U!IncrementChatUnread(h) \/ U!MarkChatRead(h)
          \/ U!MarkBotRead(h) \/ U!SetMessageReaction(h)
          \/ U!Look(h) \/ U!Publish(h) \/ U!CutOff(h)
    BY <1>3 DEF U!Next
  <2> SUFFICES (U!Handling /\ U!ReadsHold /\ U!ChangesAreTold /\ U!ChatsAreCreated)'
    BY <1>1 DEF U!RosterInv
  <2>2. CASE (\E op \in U!Ops \ {"finish"}, key \in RosterKeys : U!Claim(h, op, key)) \/ U!FinishBegins(h)
    BY <2>2, RosterBegins
  <2>3. CASE \/ U!CreateDirectChat(h) \/ U!IncrementChatUnread(h) \/ U!MarkChatRead(h)
             \/ U!MarkBotRead(h) \/ U!SetMessageReaction(h)
    BY <2>3, RosterWritten
  <2>4. CASE U!Look(h)
    BY <2>4, RosterLooks
  <2>5. CASE U!Publish(h)
    BY <2>5, RosterTells
  <2>6. CASE U!CutOff(h)
    BY <2>6, RosterCutOff
  <2>7. QED
    BY <2>1, <2>2, <2>3, <2>4, <2>5, <2>6
<1>4. QED
  BY <1>2, <1>3

(* With every handler through, nobody is left to tell anything. *)
LEMMA RosterRests == U!RosterInv => U!LastEventTells
BY DEF U!RosterInv, U!LastEventTells, U!ChangesAreTold, U!Tells, U!Untold, U!Idle

(* LastEventTells of the module alone. *)
THEOREM UnreadTells == U!Spec => []U!LastEventTells
<1>1. U!RosterInv /\ [U!Next]_U!vars => U!RosterInv'
  BY RosterStep
<1>2. QED
  BY <1>1, RosterStarts, RosterRests, PTL DEF U!Spec

-----------------------------------------------------------------------------
(* The invariants of the views that the composition can show. *)
ViewsHere ==
  /\ component = "timeline" => T!TimelineInv
  /\ component = "group_view" => G!GroupViewInv
  /\ component = "unread" => U!RosterInv

LEMMA ViewsHold == OwnerSpec => []ViewsHere
<1>1. OwnerInit => ViewsHere
  BY TimelineStarts, GroupStarts, RosterStarts DEF OwnerInit, ViewsHere
<1>2. ViewsHere /\ [OwnerNext]_all => ViewsHere'
  <2> SUFFICES ASSUME ViewsHere, [OwnerNext]_all PROVE ViewsHere'
    OBVIOUS
  <2>1. ASSUME component' = "timeline" PROVE T!TimelineInv'
    <3>1. component = "timeline" /\ [T!Next]_(T!vars)
      BY <2>1 DEF OwnerNext, all, T!vars
    <3>2. QED
      BY <3>1, TimelineStep DEF ViewsHere
  <2>2. ASSUME component' = "group_view" PROVE G!GroupViewInv'
    <3>1. component = "group_view" /\ [G!Next]_(G!vars)
      BY <2>2 DEF OwnerNext, all, G!vars
    <3>2. QED
      BY <3>1, GroupStep DEF ViewsHere
  <2>3. ASSUME component' = "unread" PROVE U!RosterInv'
    <3>1. component = "unread" /\ [U!Next]_U!vars
      BY <2>3 DEF OwnerNext, all, U!vars
    <3>2. QED
      BY <3>1, RosterStep DEF ViewsHere
  <2>4. QED
    BY <2>1, <2>2, <2>3 DEF ViewsHere
<1>3. QED
  BY <1>1, <1>2, PTL DEF OwnerSpec

(* When nothing is under way and no load has failed, the desktop shows the rows of  *)
(* the open chat as the server has them, and those of the open group unless its     *)
(* view met a gap or an overtaken read: for every number of Bots, groups, writes    *)
(* and selections (timeline.rs, apply_snapshot and apply_event; groups.rs of the    *)
(* desktop; handle_client_message and finish_turn of the server).                   *)
THEOREM SettledViewAgreesAlways == OwnerSpec => []SettledViewAgrees
<1>1. ViewsHere => SettledViewAgrees
  BY TimelineSettles, GroupSettles DEF ViewsHere, SettledViewAgrees
<1>2. QED
  BY <1>1, ViewsHold, PTL

(* Once every handler is through, the last event told each count and the reaction   *)
(* as it is, unless its read was overtaken by another handler's write or a handler  *)
(* was cut off before it told: for every number of handlers and keys, however they  *)
(* cross and repeat each other (create_direct, mark_read, set_reaction, finish).    *)
THEOREM LastEventTellsAlways == OwnerSpec => []LastEventTells
<1>1. ViewsHere => LastEventTells
  BY RosterRests DEF ViewsHere, LastEventTells
<1>2. QED
  BY <1>1, ViewsHold, PTL
=============================================================================
