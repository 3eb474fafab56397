---------------------------- MODULE RoutineTriggers ----------------------------
(***************************************************************************)
(* The deliveries that the triggers of one routine turn into jobs          *)
(* (evaluate_schedules and evaluate_event_triggers of scheduler.rs and     *)
(* schedule.rs of crates/homebot-routines).  What the routine is comes     *)
(* from Routines, what becomes of a job's row is RoutineJobs.              *)
(***************************************************************************)
EXTENDS Integers, Sequences, FiniteSets

CONSTANTS BatchLimit,   (* EVENT_BATCH_LIMIT: matching events of one job      *)
          InspectLimit, (* events that one pass looks at                      *)
          Period,       (* of the schedule, anchored at 1                     *)
          Grace,        (* MISSED_GRACE_MS                                    *)
          Policy, CatchUpLimit, (* of the schedule trigger                    *)
          Bounds        (* what a behaviour may do, as one of these records   *)

Kinds == {"event", "schedule", "webhook"}

VARIABLES
  bound,      (* at most so many events and instants, and these kinds of trigger  *)
              (* and keys of webhook deliveries                                   *)
  enabled,    (* of the routine                                                 *)
  armed,      (* routine_triggers: each with the event or instant it starts after *)
  log,        (* event_outbox: whether each event matches the trigger           *)
  cursor,     (* last_event_sequence of the event trigger                       *)
  now, evaluated, (* the clock; last_evaluated_at of the schedule trigger       *)
  jobs,       (* routine_jobs: the trigger, and the events or the instant       *)
  pass,       (* the locals of the scheduler's pass over the triggers           *)
  request,    (* what the owner's request, or a webhook's, does next            *)
  dropped,    (* history: occurrences that the missed-run policy left out       *)
  answered    (* history: deliveries that were answered with their job          *)

vars == <<bound, enabled, armed, log, cursor, now, evaluated, jobs, pass, request, dropped,
          answered>>
outbox == <<bound, log, now>>
requests == <<request, answered>>
cursors == <<cursor, evaluated, dropped>>

Absent == -1
Gone == -2
NoPass == [at |-> "idle", of |-> "event", keys |-> {}, next |-> 0]
NoRequest == [at |-> "idle", of |-> "event", from |-> Absent]

TypeOK ==
  /\ bound \in Bounds /\ enabled \in BOOLEAN
  /\ armed \in [Kinds -> Gone..(bound.events + bound.time)]
  /\ log \in Seq(BOOLEAN) /\ Len(log) <= bound.events /\ cursor \in 0..Len(log)
  /\ now \in 0..bound.time /\ evaluated \in 0..now
  /\ jobs \subseteq [of : Kinds, events : SUBSET Nat]
  /\ pass \in [at : {"idle", "reading", "inserting", "advancing"}, of : {"event", "schedule"},
               keys : SUBSET SUBSET Nat, next : Nat]
  /\ request \in [at : {"idle", "creating", "deleting", "delivering", "inserting"},
                  of : Kinds, from : {Absent} \cup Nat]
  /\ answered \subseteq bound.deliveries

Init ==
  /\ bound \in Bounds /\ enabled = TRUE
  /\ armed = [g \in Kinds |-> Absent] /\ log = <<>> /\ cursor = 0 /\ now = 0 /\ evaluated = 0
  /\ jobs = {} /\ pass = NoPass /\ dropped = {}
  /\ request = NoRequest /\ answered = {}

(* set_routine_enabled, of Routines; a draft counts as disabled. *)
Toggle ==
  /\ enabled' = ~enabled
  /\ UNCHANGED <<armed, outbox, cursors, jobs, pass, requests>>

-----------------------------------------------------------------------------
(* Triggers *)

(* create_trigger: what the trigger starts after is read before its row is written. *)
CreateReads(g) ==
  /\ g \in bound.kinds /\ request = NoRequest /\ armed[g] = Absent
  /\ request' = [at |-> "creating", of |-> g, from |-> IF g = "schedule" THEN now ELSE Len(log)]
  /\ UNCHANGED <<enabled, armed, outbox, cursors, jobs, pass, answered>>

CreateTrigger ==
  LET g == request.of
  IN /\ request.at = "creating" /\ request' = NoRequest
     /\ armed' = [armed EXCEPT ![g] = request.from]
     /\ cursor' = IF g = "event" THEN request.from ELSE cursor
     /\ evaluated' = IF g = "schedule" THEN request.from ELSE evaluated
     /\ UNCHANGED <<enabled, outbox, jobs, pass, dropped, answered>>

(* delete_trigger: a repeat of a claimed key does nothing. *)
DeleteClaims(g) ==
  /\ request = NoRequest /\ armed[g] >= 0
  /\ request' = [NoRequest EXCEPT !.at = "deleting", !.of = g]
  /\ UNCHANGED <<enabled, armed, outbox, cursors, jobs, pass, answered>>

(* delete_routine_trigger: its jobs go with the row. *)
DeleteTrigger ==
  /\ request.at = "deleting" /\ request' = NoRequest
  /\ armed' = [armed EXCEPT ![request.of] = Gone]
  /\ jobs' = {job \in jobs : job.of # request.of}
  /\ UNCHANGED <<enabled, outbox, cursors, pass, answered>>

Publish(matches) ==
  /\ Len(log) < bound.events /\ log' = Append(log, matches)
  /\ UNCHANGED <<bound, enabled, armed, now, cursors, jobs, pass, requests>>

Tick ==
  /\ now < bound.time /\ now' = now + 1
  /\ UNCHANGED <<bound, enabled, armed, log, cursors, jobs, pass, requests>>

(* Faulty variant: the cursor goes to the last event that was read, though the batch was full before. *)
InspectedToTheEnd ==
  LET seen == (cursor + 1) .. IF cursor + InspectLimit < Len(log) THEN cursor + InspectLimit ELSE Len(log)
      matches == {i \in seen : log[i]}
  IN [batch |-> {i \in matches : Cardinality({k \in matches : k <= i}) <= BatchLimit},
      next |-> cursor + Cardinality(seen)]

(* evaluate_event_triggers: what is behind the cursor, up to a full batch. *)
Inspected ==
  LET seen == (cursor + 1) .. IF cursor + InspectLimit < Len(log) THEN cursor + InspectLimit ELSE Len(log)
      matches == {i \in seen : log[i]}
      full == {i \in matches : Cardinality({k \in matches : k <= i}) = BatchLimit}
  IN IF full = {} THEN [batch |-> matches, next |-> cursor + Cardinality(seen)]
     ELSE LET last == CHOOSE i \in full : TRUE
          IN [batch |-> {i \in matches : i <= last}, next |-> last]

EvaluateEvents ==
  /\ pass = NoPass /\ armed["event"] >= 0 /\ Inspected.next > cursor
  /\ pass' = [NoPass EXCEPT !.at = IF Inspected.batch = {} THEN "advancing" ELSE "reading",
                            !.next = Inspected.next,
                            !.keys = IF Inspected.batch = {} THEN {} ELSE {Inspected.batch}]
  /\ UNCHANGED <<enabled, armed, outbox, cursors, jobs, requests>>

(* next_occurrence of an anchored interval: the instants that it goes through. *)
Scheduled == {o \in 1..now : (o - 1) % Period = 0}

(* due_occurrences: the recent ones, and of the missed what the policy takes. *)
Occurrences == {o \in Scheduled : o > evaluated}
Missed == {o \in Occurrences : o <= now - Grace}

ApplyMissed ==
  CASE Policy = "skip" -> {}
    [] Policy = "run_once" -> {o \in Missed : \A m \in Missed : m <= o}
    [] OTHER -> {o \in Missed : Cardinality({m \in Missed : m >= o}) <= CatchUpLimit}

EvaluateSchedules ==
  /\ pass = NoPass /\ armed["schedule"] >= 0 /\ now > evaluated
  /\ LET due == ApplyMissed \cup (Occurrences \ Missed)
     IN /\ pass' = [NoPass EXCEPT !.of = "schedule", !.next = now, !.keys = {{o} : o \in due},
                       !.at = IF due = {} THEN "advancing" ELSE "reading"]
        /\ dropped' = dropped \cup (Missed \ due)
  /\ UNCHANGED <<enabled, armed, outbox, cursor, evaluated, jobs, requests>>

(* enqueue_delivery: a disabled routine fails it, and the cursor stays. *)
EnqueueDelivery ==
  /\ pass.at = "reading"
  /\ pass' = IF enabled
             THEN [pass EXCEPT !.at = "inserting"] ELSE NoPass
  /\ UNCHANGED <<enabled, armed, outbox, cursors, jobs, requests>>

(* enqueue_routine_job: the key of a batch is its first and last event.  A fault after the *)
(* commit (the event of the job) fails the delivery as well.                               *)
KeyOf(events) == {i \in events : \A k \in events : k >= i} \cup {i \in events : \A k \in events : k <= i}
Accepted(g, events) == \E job \in jobs : job.of = g /\ KeyOf(job.events) = KeyOf(events)

EnqueueRoutineJob ==
  \E events \in pass.keys :
     LET left == pass.keys \ {events}
         rest == [pass EXCEPT !.keys = left, !.at = IF left = {} THEN "advancing" ELSE "reading"]
     IN /\ pass.at = "inserting" /\ \A later \in left : \A i \in events, k \in later : i <= k
        /\ \/ /\ armed[pass.of] >= 0
              /\ jobs' = IF Accepted(pass.of, events) THEN jobs
                         ELSE jobs \cup {[of |-> pass.of, events |-> events]}
              /\ pass' \in {rest, NoPass}
           \/ jobs' = jobs /\ pass' = NoPass
        /\ UNCHANGED <<enabled, armed, outbox, cursors, requests>>

(* advance_routine_trigger and advance_routine_trigger_event_cursor; a fault is ignored. *)
AdvanceCursor ==
  /\ pass.at = "advancing" /\ pass' = NoPass
  /\ \/ /\ armed[pass.of] >= 0
        /\ IF pass.of = "event" THEN cursor' = pass.next /\ UNCHANGED evaluated
           ELSE evaluated' = pass.next /\ UNCHANGED cursor
     \/ UNCHANGED <<cursor, evaluated>>
  /\ UNCHANGED <<enabled, armed, outbox, dropped, jobs, requests>>

-----------------------------------------------------------------------------
(* Deliveries from outside *)

(* deliver_trigger: the trigger has to be there; its key is claimed, and a repeat goes on. *)
DeliverReads(d) ==
  /\ request = NoRequest /\ armed["webhook"] >= 0
  /\ request' = [at |-> "delivering", of |-> "webhook", from |-> d]
  /\ UNCHANGED <<enabled, armed, outbox, cursors, jobs, pass, answered>>

(* enqueue_delivery, as the scheduler's own deliveries. *)
DeliverEnqueues ==
  /\ request.at = "delivering"
  /\ request' = IF enabled THEN [request EXCEPT !.at = "inserting"] ELSE NoRequest
  /\ UNCHANGED <<enabled, armed, outbox, cursors, jobs, pass, answered>>

DeliverInserts ==
  LET d == request.from
  IN /\ request.at = "inserting" /\ request' = NoRequest /\ armed["webhook"] >= 0
     /\ jobs' = IF Accepted("webhook", {d}) THEN jobs
                ELSE jobs \cup {[of |-> "webhook", events |-> {d}]}
     /\ answered' \in {answered, answered \cup {d}}  (* or its event is not published *)
     /\ UNCHANGED <<enabled, armed, outbox, cursors, pass>>

(* A fault, or a trigger deleted meanwhile, fails the request. *)
RequestFails ==
  /\ request # NoRequest /\ request' = NoRequest
  /\ UNCHANGED <<enabled, armed, outbox, cursors, jobs, pass, answered>>

(* A crash leaves the rows, and the pass starts again. *)
Restart ==
  /\ pass # NoPass \/ request # NoRequest
  /\ pass' = NoPass /\ request' = NoRequest
  /\ UNCHANGED <<enabled, armed, outbox, cursors, jobs, answered>>

Next ==
  \/ Toggle \/ Tick
  \/ (\E g \in Kinds : CreateReads(g) \/ DeleteClaims(g))
  \/ CreateTrigger \/ DeleteTrigger
  \/ (\E d \in bound.deliveries : DeliverReads(d)) \/ DeliverEnqueues \/ DeliverInserts \/ RequestFails
  \/ (\E matches \in BOOLEAN : Publish(matches))
  \/ EvaluateEvents \/ EvaluateSchedules \/ EnqueueDelivery \/ EnqueueRoutineJob \/ AdvanceCursor
  \/ Restart

Spec == Init /\ [][Next]_vars

-----------------------------------------------------------------------------
(* A cursor that has passed an event or an occurrence has its job behind it, or the      *)
(* missed-run policy left it out: whatever fails between the two transactions, and while *)
(* the routine is disabled or a draft (evaluate_event_triggers, evaluate_schedules). And *)
(* a webhook delivery that was answered has its job (deliver_trigger).                   *)
Delivered(g, i) == \E job \in jobs : job.of = g /\ i \in job.events

NothingUndelivered ==
  /\ armed["event"] >= 0 =>
       \A i \in (armed["event"] + 1) .. cursor : log[i] => Delivered("event", i)
  /\ armed["schedule"] >= 0 =>
       \A o \in Scheduled : armed["schedule"] < o /\ o <= evaluated =>
         Delivered("schedule", o) \/ o \in dropped
  /\ armed["webhook"] >= 0 => \A d \in answered : Delivered("webhook", d)

(* What keeps it.  The job of a batch holds every match between its first and its last    *)
(* event, so two with one key hold the same; the others hold one instant or delivery.     *)
WholeJobs ==
  \A job \in jobs :
     IF job.of = "event"
     THEN /\ job.events \subseteq 1..Len(log)
          /\ \A i, k \in job.events : \A m \in i..k : log[m] => m \in job.events
     ELSE \E i \in job.events : job.events = {i}

(* A pass has yet to enqueue what lies up to its next cursor and has no job. *)
PassCovers ==
  /\ pass.at = "idle" => pass = NoPass
  /\ pass.at # "idle" => armed[pass.of] # Absent
  /\ pass.at = "advancing" => pass.keys = {}
  /\ pass.at # "idle" /\ pass.of = "event" =>
       /\ cursor <= pass.next /\ pass.next <= Len(log)
       /\ pass.keys \subseteq {{i \in (cursor + 1) .. pass.next : log[i]}} \ {{}}
       /\ armed["event"] >= 0 =>
            \A i \in (cursor + 1) .. pass.next : log[i] => pass.keys # {} \/ Delivered("event", i)
  /\ pass.at # "idle" /\ pass.of = "schedule" =>
       /\ evaluated <= pass.next /\ pass.next <= now
       /\ pass.keys \subseteq {{o} : o \in Scheduled}
       /\ armed["schedule"] >= 0 =>
            \A o \in Scheduled : evaluated < o /\ o <= pass.next =>
              {o} \in pass.keys \/ Delivered("schedule", o) \/ o \in dropped

(* A trigger that is being created was never there, and starts after what there is; *)
(* nothing was answered before there was a webhook.                                 *)
RequestsKnown ==
  /\ request.at = "creating" =>
       /\ armed[request.of] = Absent
       /\ request.from \in 0 .. IF request.of = "schedule" THEN now ELSE Len(log)
  /\ request.at \in {"delivering", "inserting"} => request.from \in bound.deliveries
  /\ armed["webhook"] = Absent => answered = {}

DeliveryInv == TypeOK /\ WholeJobs /\ PassCovers /\ RequestsKnown /\ NothingUndelivered
===============================================================================
