------------------------------- MODULE Devices -------------------------------
(***************************************************************************)
(* Pairing, device sessions and the commands a client sends over its event *)
(* socket (crates/homebot-server/src/pairing.rs, authenticate and          *)
(* handle_client_message in lib.rs, over crates/homebot-storage).          *)
(*                                                                         *)
(* The owner holds the bearer token; every other client holds the session  *)
(* it got for a pairing offer.  What the socket delivers is in EventStream.*)
(***************************************************************************)
EXTENDS Naturals, FiniteSets

CONSTANTS Offers,       (* pairing_credentials                                *)
          Sessions,     (* device_sessions                                    *)
          NoOffer,
          Keys,         (* idempotency keys of commands, each for one command *)
          NoKey,
          Lifetime,     (* PAIRING_TTL_MS                                     *)
          Attempts,     (* wrong proofs an offer takes, and unknown tokens a  *)
                        (* source may try in one window                       *)
          MaxTime, MaxCopies   (* bounds on the clock and on repeated events  *)

VARIABLES
  now,
  offer,     (* each row: whether it is there and consumed, expiry, failures  *)
  tries,     (* pairing_exchange_attempts of the one source there is          *)
  session,   (* each row: the offer it came from, and revoked_at_ms           *)
  call,      (* per session: an HTTP request that passed authenticate         *)
  socket,    (* per session: its event socket                                 *)
  handling,  (* per session: the command its socket's loop is busy with       *)
  claims,    (* keys in idempotency_records                                   *)
  operation, (* AppState.operations and the spawned tasks                     *)
  cancel,    (* permits of OperationControl.cancel                            *)
  accepted,  (* command_accepted events for each key                          *)
  ended,     (* command_completed and command_cancelled events for each key   *)
  crashed

vars == <<now, offer, tries, session, call, socket, handling, claims, operation, cancel,
          accepted, ended, crashed>>
pairing == <<offer, tries, session>>
transport == <<call, socket, handling>>
commands == <<claims, operation, cancel, accepted, ended>>

NewOffer == [made |-> FALSE, consumed |-> FALSE, expires |-> 0, failed |-> 0]
NewSession == [of |-> NoOffer, revoked |-> FALSE]
Quiet == [at |-> "idle", key |-> NoKey]
Active(d) == session[d].of # NoOffer /\ ~session[d].revoked

OfferRow == [made : BOOLEAN, consumed : BOOLEAN, expires : 0..(MaxTime + Lifetime), failed : 0..Attempts]
SessionRow == [of : Offers \cup {NoOffer}, revoked : BOOLEAN]
HandlingRow == [at : {"idle", "claimed", "registered", "replayed"}, key : Keys \cup {NoKey}]

TypeOK ==
  /\ now \in 0..MaxTime
  /\ offer \in [Offers -> OfferRow] /\ tries \in 0..Attempts
  /\ session \in [Sessions -> SessionRow]
  /\ call \in [Sessions -> BOOLEAN] /\ socket \in [Sessions -> {"none", "syncing", "open"}]
  /\ handling \in [Sessions -> HandlingRow]
  /\ claims \subseteq Keys
  /\ operation \in [Keys -> {"none", "registered", "running", "cancelling", "completing", "removing"}]
  /\ cancel \subseteq Keys
  /\ accepted \in [Keys -> 0..MaxCopies] /\ ended \in [Keys -> 0..MaxCopies]
  /\ crashed \in BOOLEAN

Init ==
  /\ now = 0 /\ offer = [o \in Offers |-> NewOffer] /\ tries = 0
  /\ session = [d \in Sessions |-> NewSession]
  /\ call = [d \in Sessions |-> FALSE] /\ socket = [d \in Sessions |-> "none"]
  /\ handling = [d \in Sessions |-> Quiet]
  /\ claims = {} /\ operation = [k \in Keys |-> "none"] /\ cancel = {}
  /\ accepted = [k \in Keys |-> 0] /\ ended = [k \in Keys |-> 0] /\ crashed = FALSE

-----------------------------------------------------------------------------
(* pairing.rs *)

CreatePairing(o) ==
  /\ ~offer[o].made
  /\ offer' = [offer EXCEPT ![o] = [NewOffer EXCEPT !.made = TRUE, !.expires = now + Lifetime]]
  /\ UNCHANGED <<now, tries, session, transport, commands, crashed>>

(* pairing_credential_state *)
Exchangeable(o) ==
  offer[o].made /\ ~offer[o].consumed /\ now < offer[o].expires /\ offer[o].failed < Attempts

(* exchange_pairing_credential: its first statement is a write, and so the whole is one step. *)
Exchange(o, d) ==
  /\ Exchangeable(o) /\ session[d].of = NoOffer
  /\ offer' = [offer EXCEPT ![o].consumed = TRUE]
  /\ session' = [session EXCEPT ![d].of = o]
  /\ UNCHANGED <<now, tries, transport, commands, crashed>>

(* Neither the origin nor the native proof of the offer. *)
ExchangeElsewhere(o) ==
  /\ Exchangeable(o) /\ offer' = [offer EXCEPT ![o].failed = @ + 1]
  /\ UNCHANGED <<now, tries, session, transport, commands, crashed>>

(* record_unknown_pairing_attempt *)
ExchangeUnknown ==
  /\ tries < Attempts /\ tries' = tries + 1
  /\ UNCHANGED <<now, offer, session, transport, commands, crashed>>

(* Attempts older than the window go with the next exchange. *)
ForgetAttempts ==
  /\ tries > 0 /\ now > 0 /\ tries' = 0
  /\ UNCHANGED <<now, offer, session, transport, commands, crashed>>

(* revoke_device by the owner, or revoke_current_device; the claim is ignored. *)
RevokeDevice(d) ==
  /\ Active(d) /\ session' = [session EXCEPT ![d].revoked = TRUE]
  /\ UNCHANGED <<now, offer, tries, transport, commands, crashed>>

RevokeCurrentDevice(d) ==
  /\ call[d] /\ call' = [call EXCEPT ![d] = FALSE]
  /\ session' = [session EXCEPT ![d].revoked = TRUE]
  /\ UNCHANGED <<now, offer, tries, socket, handling, commands, crashed>>

Tick ==
  /\ now < MaxTime /\ now' = now + 1
  /\ UNCHANGED <<pairing, transport, commands, crashed>>

-----------------------------------------------------------------------------
(* authenticate: from here on nobody looks at the session again. *)
Authenticate(d) ==
  /\ Active(d) /\ ~call[d] /\ call' = [call EXCEPT ![d] = TRUE]
  /\ UNCHANGED <<now, pairing, socket, handling, commands, crashed>>

Respond(d) ==
  /\ call[d] /\ call' = [call EXCEPT ![d] = FALSE]
  /\ UNCHANGED <<now, pairing, socket, handling, commands, crashed>>

EventsSocket(d) ==
  /\ call[d] /\ socket[d] = "none" /\ call' = [call EXCEPT ![d] = FALSE]
  /\ socket' = [socket EXCEPT ![d] = "syncing"]
  /\ UNCHANGED <<now, pairing, handling, commands, crashed>>

InitialSync(d) ==
  /\ socket[d] = "syncing" /\ socket' \in {[socket EXCEPT ![d] = s] : s \in {"open", "none"}}
  /\ UNCHANGED <<now, pairing, call, handling, commands, crashed>>

(* The heartbeat ends the socket of a revoked session; a loop that is busy with a command *)
(* looks at nothing else.                                                                 *)
Heartbeat(d) ==
  /\ socket[d] = "open" /\ handling[d] = Quiet /\ ~Active(d)
  /\ socket' = [socket EXCEPT ![d] = "none"]
  /\ UNCHANGED <<now, pairing, call, handling, commands, crashed>>

Disconnect(d) ==
  /\ socket[d] = "open" /\ handling[d] = Quiet /\ socket' = [socket EXCEPT ![d] = "none"]
  /\ UNCHANGED <<now, pairing, call, handling, commands, crashed>>

-----------------------------------------------------------------------------
(* handle_client_message *)

Busy(d, at, k) == handling' = [handling EXCEPT ![d] = [at |-> at, key |-> k]]
Done(d) == handling' = [handling EXCEPT ![d] = Quiet]

Command(d, k) ==
  /\ socket[d] = "open" /\ handling[d] = Quiet
  /\ IF k \in claims THEN Busy(d, "replayed", k) /\ UNCHANGED claims
     ELSE Busy(d, "claimed", k) /\ claims' = claims \cup {k}
  /\ UNCHANGED <<now, pairing, call, socket, operation, cancel, accepted, ended, crashed>>

InsertOperation(d) ==
  /\ handling[d].at = "claimed" /\ Busy(d, "registered", handling[d].key)
  /\ operation' = [operation EXCEPT ![handling[d].key] = "registered"]
  /\ UNCHANGED <<now, pairing, call, socket, claims, cancel, accepted, ended, crashed>>

(* persist_event and spawn_operation; without the event there is no operation, and the key *)
(* stays claimed.                                                                          *)
Accept(d) ==
  LET k == handling[d].key
  IN /\ handling[d].at = "registered" /\ Done(d)
     /\ \/ /\ accepted[k] < MaxCopies /\ accepted' = [accepted EXCEPT ![k] = @ + 1]
           /\ operation' = [operation EXCEPT ![k] = "running"]
        \/ operation' = [operation EXCEPT ![k] = "none"] /\ UNCHANGED accepted
     /\ UNCHANGED <<now, pairing, call, socket, claims, cancel, ended, crashed>>

(* Faulty variant: a repeated command starts its operation again when it is not running. *)
ReplayRestarts(d) ==
  LET k == handling[d].key
  IN /\ handling[d].at = "replayed" /\ Done(d)
     /\ accepted[k] < MaxCopies /\ accepted' = [accepted EXCEPT ![k] = @ + 1]
     /\ operation' = [operation EXCEPT ![k] = IF @ = "none" THEN "running" ELSE @]
     /\ UNCHANGED <<now, pairing, call, socket, claims, cancel, ended, crashed>>

(* A repeated command is only acknowledged again, under the first one's operation. *)
Replay(d) ==
  LET k == handling[d].key
  IN /\ handling[d].at = "replayed" /\ Done(d)
     /\ accepted[k] < MaxCopies /\ accepted' = [accepted EXCEPT ![k] = @ + 1]
     /\ UNCHANGED <<now, pairing, call, socket, claims, operation, cancel, ended, crashed>>

(* The client knows the operation from its accepted event. *)
Cancel(d, k) ==
  /\ socket[d] = "open" /\ handling[d] = Quiet
  /\ accepted[k] > 0 /\ operation[k] # "none" /\ cancel' = cancel \cup {k}
  /\ UNCHANGED <<now, pairing, transport, claims, operation, accepted, ended, crashed>>

(* spawn_operation: the delay runs out, or the permit is there, or both. *)
Elapsed(k) ==
  /\ operation[k] = "running" /\ operation' = [operation EXCEPT ![k] = "completing"]
  /\ UNCHANGED <<now, pairing, transport, claims, cancel, accepted, ended, crashed>>

Cancelled(k) ==
  /\ operation[k] = "running" /\ k \in cancel
  /\ operation' = [operation EXCEPT ![k] = "cancelling"] /\ cancel' = cancel \ {k}
  /\ UNCHANGED <<now, pairing, transport, claims, accepted, ended, crashed>>

(* The terminal event may fail to be stored; the operation is gone all the same. *)
PersistEnd(k) ==
  /\ operation[k] \in {"completing", "cancelling"}
  /\ operation' = [operation EXCEPT ![k] = "removing"]
  /\ (ended[k] < MaxCopies /\ ended' = [ended EXCEPT ![k] = @ + 1]) \/ UNCHANGED ended
  /\ UNCHANGED <<now, pairing, transport, claims, cancel, accepted, crashed>>

RemoveOperation(k) ==
  /\ operation[k] = "removing" /\ operation' = [operation EXCEPT ![k] = "none"]
  /\ cancel' = cancel \ {k}
  /\ UNCHANGED <<now, pairing, transport, claims, accepted, ended, crashed>>

Restart ==
  /\ ~crashed /\ crashed' = TRUE
  /\ call' = [d \in Sessions |-> FALSE] /\ socket' = [d \in Sessions |-> "none"]
  /\ handling' = [d \in Sessions |-> Quiet]
  /\ operation' = [k \in Keys |-> "none"] /\ cancel' = {}
  /\ UNCHANGED <<now, pairing, claims, accepted, ended>>

Next ==
  \/ \E o \in Offers : CreatePairing(o) \/ ExchangeElsewhere(o) \/ \E d \in Sessions : Exchange(o, d)
  \/ ExchangeUnknown \/ ForgetAttempts \/ Tick
  \/ \E d \in Sessions :
       \/ RevokeDevice(d) \/ RevokeCurrentDevice(d) \/ Authenticate(d) \/ Respond(d)
       \/ EventsSocket(d) \/ InitialSync(d) \/ Heartbeat(d) \/ Disconnect(d)
       \/ InsertOperation(d) \/ Accept(d) \/ Replay(d)
       \/ \E k \in Keys : Command(d, k) \/ Cancel(d, k)
  \/ \E k \in Keys : Elapsed(k) \/ Cancelled(k) \/ PersistEnd(k) \/ RemoveOperation(k)
  \/ Restart

Spec == Init /\ [][Next]_vars

-----------------------------------------------------------------------------
(* A command that several sockets send again, during or after its operation, across a    *)
(* cancellation and a restart, is told completed or cancelled once at most, and not      *)
(* before it was accepted (handle_client_message, spawn_operation).                      *)
CommandEndsOnce ==
  \A k \in Keys : ended[k] <= 1 /\ (ended[k] = 1 => accepted[k] >= 1)

(* The invariant behind it: one socket at most carries out a key's command, before its   *)
(* operation runs, and an operation that has not told its end has not ended before.      *)
Carries(d) == handling[d].at \in {"claimed", "registered"}

HandlingAgrees(d) ==
  LET k == handling[d].key
  IN /\ handling[d].at # "idle" => k \in claims
     /\ Carries(d) => operation[k] \in {"none", "registered"} /\ ended[k] = 0

KeyAgrees(k) ==
  /\ ended[k] <= 1 /\ (ended[k] = 1 => accepted[k] >= 1)
  /\ k \notin claims => operation[k] = "none" /\ ended[k] = 0
  /\ operation[k] \in {"registered", "running", "cancelling", "completing"} => ended[k] = 0
  /\ operation[k] \in {"running", "cancelling", "completing", "removing"} => accepted[k] >= 1

EndsInv ==
  /\ TypeOK
  /\ \A d, e \in Sessions : Carries(d) /\ Carries(e) /\ handling[d].key = handling[e].key => d = e
  /\ \A d \in Sessions : HandlingAgrees(d)
  /\ \A k \in Keys : KeyAgrees(k)
===============================================================================
