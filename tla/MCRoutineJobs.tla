---------------------------- MODULE MCRoutineJobs ----------------------------
(* Instances of RoutineJobs for TLC. *)
EXTENDS RoutineJobs, TLC

CONSTANTS j1, j2, queues, skips, r1

(* A job of the trigger that queues and one of the trigger that skips. *)
Pair == j1 :> queues @@ j2 :> skips
(* Two jobs of the trigger that queues. *)
Twins == j1 :> queues @@ j2 :> queues
PairLimit == queues :> 1 @@ skips :> 1

(* All triggers belong to one routine. *)
OneRoutine == [g \in Triggers |-> r1]
=============================================================================
