---------------------------- MODULE RoutineJobs ----------------------------
(***************************************************************************)
(* The durable jobs of the owner's routines: enqueue, claim, retry,        *)
(* cancellation and recovery of the routine_jobs table                     *)
(* (crates/homebot-storage), and the scheduler loop, the task per claimed  *)
(* job and the cancel request around them                                  *)
(* (crates/homebot-server/src/scheduler.rs).                               *)
(*                                                                         *)
(* A job is named by its delivery: trigger and delivery key are unique     *)
(* together.  What the steps of the routine do is left out; a task's       *)
(* execution ends in success, failure or at a step that needs approval.    *)
(***************************************************************************)
EXTENDS Naturals, FiniteSets, Functions

CONSTANTS Jobs,         (* deliveries of the triggers                          *)
          Triggers, TriggerOf,
          Routines, RoutineOf, (* the routine of each trigger                  *)
          Limit,        (* overlap policy of each trigger: jobs of its routine *)
                        (* that may run at once, 1 or Parallel's maximum       *)
          Window,       (* due jobs that one claim looks at                    *)
          Skips,        (* triggers with the skip policy                       *)
          Deletable,    (* triggers that the owner may delete                  *)
          MaxAttempts,  (* maximum_attempts of the retry policy                *)
          Cancels,      (* cancel requests that may be under way               *)
          MaxRestarts,  (* bound on restarts of the server                     *)
          NoJob

ASSUME JobsAssumption ==
  /\ IsFiniteSet(Jobs)
  /\ TriggerOf \in [Jobs -> Triggers]
  /\ RoutineOf \in [Triggers -> Routines]
  /\ Limit \in [Triggers -> Nat \ {0}]
  /\ Window \in Nat \ {0}
  /\ Skips \subseteq {g \in Triggers : Limit[g] = 1}
  /\ Deletable \subseteq Triggers
  /\ MaxAttempts \in Nat \ {0}
  /\ MaxRestarts \in Nat
  /\ NoJob \notin Jobs

VARIABLES
  (* durable: routine_triggers and routine_jobs *)
  deleted,    (* triggers that are gone                                    *)
  status, attempts,
  cancel_requested,
  due,        (* the jobs no later than each waiting job whose              *)
              (* next_attempt_at has come, itself included; else {}         *)
  (* memory *)
  recovered,  (* the scheduler of this process has recovered the table     *)
  claimed,    (* the job run_due_jobs has claimed and not yet spawned      *)
  task,       (* execute_claimed_job of each job                           *)
  outcome,
  routine_cancellations, (* jobs with a Notify that requests can find      *)
  notified,   (* jobs whose Notify has been signalled                      *)
  cancelling, (* the job each cancel request has marked and will notify    *)
  restarts

rows == <<deleted, status, attempts, cancel_requested, due>>
tasks == <<task, outcome, routine_cancellations, notified>>
vars == <<rows, recovered, claimed, tasks, cancelling, restarts>>

Waiting == {"queued", "retry_wait"}
TerminalStatus == {"succeeded", "failed", "cancelled", "skipped", "deleted"}
Outcomes == {"succeeded", "approval", "failed", "cancelled"}

TypeOK ==
  /\ deleted \subseteq Deletable
  /\ status \in [Jobs -> {"none", "running"} \cup Waiting \cup TerminalStatus]
  /\ attempts \in [Jobs -> 0 .. MaxAttempts]  \* also when the server dies during one
  /\ cancel_requested \subseteq Jobs
  /\ due \in [Jobs -> SUBSET Jobs]
  /\ recovered \in BOOLEAN
  /\ claimed \in Jobs \cup {NoJob}
  /\ task \in [Jobs -> {"none", "executing", "ended", "reporting"}]
  /\ outcome \in [Jobs -> {"none"} \cup Outcomes]
  /\ routine_cancellations \subseteq Jobs
  /\ notified \subseteq Jobs
  /\ cancelling \in [Cancels -> Jobs \cup {NoJob}]
  /\ restarts \in 0 .. MaxRestarts

Init ==
  /\ deleted = {}
  /\ status = [j \in Jobs |-> "none"]
  /\ attempts = [j \in Jobs |-> 0]
  /\ cancel_requested = {}
  /\ due = [j \in Jobs |-> {}]
  /\ recovered = FALSE
  /\ claimed = NoJob
  /\ task = [j \in Jobs |-> "none"]
  /\ outcome = [j \in Jobs |-> "none"]
  /\ routine_cancellations = {}
  /\ notified = {}
  /\ cancelling = [c \in Cancels |-> NoJob]
  /\ restarts = 0

Owner(j) == RoutineOf[TriggerOf[j]]

Running == {j \in Jobs : status[j] = "running"}

(* The due jobs, in the order of next_attempt_at. *)
DueJobs == {j \in Jobs : due[j] # {}}
ComesDue(j) == due' = [due EXCEPT ![j] = DueJobs \cup {j}]
LeavesDue(gone) == due' = [j \in Jobs |-> IF j \in gone THEN {} ELSE due[j] \ gone]

-----------------------------------------------------------------------------
(* Deliveries and the scheduler loop *)

(* enqueue_routine_job; a repeated delivery key inserts nothing.  The job is due *)
(* at once.                                                                      *)
Enqueue(j) ==
  /\ status[j] = "none"
  /\ TriggerOf[j] \notin deleted
  /\ status' = [status EXCEPT ![j] = "queued"]
  /\ ComesDue(j)
  /\ UNCHANGED <<deleted, attempts, cancel_requested, recovered, claimed, tasks, cancelling,
                 restarts>>

(* delete_routine_trigger: the rows of its jobs go with it, whatever their status, *)
(* but not the tasks of those that run.                                            *)
DeleteTrigger(g) ==
  /\ g \in Deletable \ deleted
  /\ deleted' = deleted \cup {g}
  /\ LET gone == {j \in Jobs : TriggerOf[j] = g /\ status[j] # "none"}
     IN /\ status' = [j \in Jobs |-> IF j \in gone THEN "deleted" ELSE status[j]]
        /\ LeavesDue(gone)
  /\ UNCHANGED <<attempts, cancel_requested, recovered, claimed, tasks, cancelling,
                 restarts>>

(* Faulty variant: jobs left running stay as they are. *)
RecoverNothing ==
  /\ ~recovered
  /\ recovered' = TRUE
  /\ UNCHANGED <<rows, claimed, tasks, cancelling, restarts>>

(* recover_interrupted_routine_jobs, the first thing the scheduler of a process *)
(* does; requests may be served before it.  The jobs to run again come due at   *)
(* the same time, in any order.                                                 *)
Recover ==
  /\ ~recovered
  /\ recovered' = TRUE
  /\ status' = [j \in Jobs |-> IF j \notin Running THEN status[j]
                              ELSE IF j \in cancel_requested THEN "cancelled"
                              ELSE "retry_wait"]
  /\ LET again == Running \ cancel_requested
     IN \E rank \in Injection(again, 1 .. Cardinality(again)) :
          due' = [j \in Jobs |-> IF j \notin again THEN due[j]
                                ELSE DueJobs \cup {i \in again : rank[i] <= rank[j]}]
  /\ UNCHANGED <<deleted, attempts, cancel_requested, claimed, tasks, cancelling, restarts>>

Exhausted(j) == attempts[j] >= MaxAttempts
Blocked(j) == Cardinality({i \in Running : Owner(i) = Owner(j)}) >= Limit[TriggerOf[j]]

Claimable(j) == ~Exhausted(j) /\ ~Blocked(j) /\ j \notin cancel_requested

InWindow == {j \in DueJobs : Cardinality(due[j]) <= Window}

(* Faulty variant: the attempts are not counted against the limit. *)
ClaimNextWithoutLimit ==
  /\ recovered
  /\ claimed = NoJob
  /\ \E j \in InWindow :
       /\ ~Blocked(j) /\ j \notin cancel_requested
       /\ status' = [status EXCEPT ![j] = "running"]
       /\ attempts' = [attempts EXCEPT ![j] = @ + 1]
       /\ claimed' = j
       /\ LeavesDue({j})
  /\ UNCHANGED <<deleted, cancel_requested, recovered, tasks, cancelling, restarts>>

(* claim_next_routine_job, one transaction over the first Window due jobs: the     *)
(* first claimable one runs, and of those before it (of all, if there is none) the *)
(* exhausted ones fail and the blocked ones of the skip policy are skipped.        *)
ClaimNext ==
  /\ recovered
  /\ claimed = NoJob
  /\ LET runs == {j \in InWindow : Claimable(j) /\ \A i \in due[j] \ {j} : ~Claimable(i)}
         passed == {j \in InWindow : \A i \in runs : j # i /\ j \in due[i]}
         failed == {j \in passed : Exhausted(j)}
         skipped == {j \in passed \ failed : Blocked(j) /\ TriggerOf[j] \in Skips}
     IN /\ failed \cup skipped \cup runs # {}
        /\ status' = [j \in Jobs |-> CASE j \in runs -> "running"
                                       [] j \in failed -> "failed"
                                       [] j \in skipped -> "skipped"
                                       [] OTHER -> status[j]]
        /\ attempts' = [j \in Jobs |-> IF j \in runs THEN attempts[j] + 1 ELSE attempts[j]]
        /\ claimed' = IF runs = {} THEN NoJob ELSE CHOOSE j \in runs : TRUE
        /\ LeavesDue(failed \cup skipped \cup runs)
  /\ UNCHANGED <<deleted, cancel_requested, recovered, tasks, cancelling, restarts>>

(* run_due_jobs enters the Notify only after the claim is committed. *)
Spawn ==
  /\ claimed # NoJob
  /\ routine_cancellations' = routine_cancellations \cup {claimed}
  /\ notified' = notified \ {claimed}
  /\ task' = [task EXCEPT ![claimed] = "executing"]
  /\ claimed' = NoJob
  /\ UNCHANGED <<rows, recovered, outcome, cancelling, restarts>>

(* The backoff of a failed attempt passes. *)
BecomeDue(j) ==
  /\ status[j] = "retry_wait"
  /\ j \notin DueJobs
  /\ ComesDue(j)
  /\ UNCHANGED <<deleted, status, attempts, cancel_requested, recovered, claimed, tasks,
                 cancelling, restarts>>

-----------------------------------------------------------------------------
(* execute_claimed_job *)

(* The select takes either branch that is ready. *)
Ends(j) ==
  /\ task[j] = "executing"
  /\ \E o \in Outcomes :
       /\ o = "cancelled" => j \in notified
       /\ outcome' = [outcome EXCEPT ![j] = o]
  /\ task' = [task EXCEPT ![j] = "ended"]
  /\ UNCHANGED <<rows, recovered, claimed, routine_cancellations, notified, cancelling,
                 restarts>>

Unregister(j) ==
  /\ task[j] = "ended"
  /\ routine_cancellations' = routine_cancellations \ {j}
  /\ notified' = notified \ {j}
  /\ task' = [task EXCEPT ![j] = "reporting"]
  /\ UNCHANGED <<rows, recovered, claimed, outcome, cancelling, restarts>>

(* finish_routine_job or retry_or_fail_routine_job, which touch a running row only. *)
(* Neither looks at cancel_requested.                                               *)
Report(j) ==
  /\ task[j] = "reporting"
  /\ status' = [status EXCEPT ![j] =
       CASE @ # "running" -> @
         [] outcome[j] = "approval" -> "failed"
         [] outcome[j] = "failed" /\ ~Exhausted(j) -> "retry_wait"
         [] OTHER -> outcome[j]]
  /\ task' = [task EXCEPT ![j] = "none"]
  /\ outcome' = [outcome EXCEPT ![j] = "none"]
  /\ UNCHANGED <<deleted, attempts, cancel_requested, due, recovered, claimed,
                 routine_cancellations, notified, cancelling, restarts>>

-----------------------------------------------------------------------------
(* POST /routine-jobs/{id}/cancel *)

(* Faulty variant: a running row is closed under its task. *)
CancelRowAtOnce(c, j) ==
  /\ cancelling[c] = NoJob
  /\ status[j] \in Waiting \cup {"running"}
  /\ cancel_requested' = cancel_requested \cup {j}
  /\ status' = [status EXCEPT ![j] = "cancelled"]
  /\ LeavesDue({j})
  /\ cancelling' = [cancelling EXCEPT ![c] = j]
  /\ UNCHANGED <<deleted, attempts, recovered, claimed, tasks, restarts>>

CancelRow(c, j) ==
  /\ cancelling[c] = NoJob
  /\ status[j] \in Waiting \cup {"running"}
  /\ cancel_requested' = cancel_requested \cup {j}
  /\ IF status[j] \in Waiting
       THEN /\ status' = [status EXCEPT ![j] = "cancelled"]
            /\ LeavesDue({j})
       ELSE UNCHANGED <<status, due>>
  /\ cancelling' = [cancelling EXCEPT ![c] = j]
  /\ UNCHANGED <<deleted, attempts, recovered, claimed, tasks, restarts>>

(* A Notify that nobody has entered, or that has been removed, is not signalled. *)
CancelNotify(c) ==
  /\ cancelling[c] # NoJob
  /\ notified' = notified \cup ({cancelling[c]} \cap routine_cancellations)
  /\ cancelling' = [cancelling EXCEPT ![c] = NoJob]
  /\ UNCHANGED <<rows, recovered, claimed, task, outcome, routine_cancellations,
                 restarts>>

-----------------------------------------------------------------------------
Restart ==
  /\ restarts < MaxRestarts
  /\ restarts' = restarts + 1
  /\ recovered' = FALSE
  /\ claimed' = NoJob
  /\ task' = [j \in Jobs |-> "none"]
  /\ outcome' = [j \in Jobs |-> "none"]
  /\ routine_cancellations' = {}
  /\ notified' = {}
  /\ cancelling' = [c \in Cancels |-> NoJob]
  /\ UNCHANGED rows

SchedulerStep == Recover \/ ClaimNext \/ Spawn
TaskStep(j) == Ends(j) \/ Unregister(j) \/ Report(j)

Next ==
  \/ SchedulerStep
  \/ \E j \in Jobs : Enqueue(j) \/ BecomeDue(j) \/ TaskStep(j)
  \/ \E g \in Triggers : DeleteTrigger(g)
  \/ \E c \in Cancels : CancelNotify(c) \/ \E j \in Jobs : CancelRow(c, j)
  \/ Restart

Spec == Init /\ [][Next]_vars

(* The scheduler polls for ever, every spawned task is polled to its end, a    *)
(* routine's steps end, and clocks advance.  Nobody has to deliver, cancel or *)
(* delete.                                                                     *)
FairSpec ==
  /\ Spec
  /\ WF_vars(SchedulerStep)
  /\ \A j \in Jobs : WF_vars(TaskStep(j)) /\ WF_vars(BecomeDue(j))
  /\ \A c \in Cancels : WF_vars(CancelNotify(c))

-----------------------------------------------------------------------------
(* Properties *)

(* docs/routines.md: the scheduler applies the skip, queue or bounded parallel     *)
(* policy.  The tasks at work on a routine are never more than the most permissive *)
(* policy among them allows, whatever was cancelled, retried or recovered          *)
(* meanwhile: where no trigger is deleted, this holds.                             *)
AtWork(r) == {j \in Jobs : Owner(j) = r /\ (task[j] # "none" \/ j = claimed)}
OverlapRespected ==
  \A r \in Routines : AtWork(r) # {} =>
    \E j \in AtWork(r) : Cardinality(AtWork(r)) <= Limit[TriggerOf[j]]

(* Why it holds: a due job waits, whatever is at work has a running row, and a      *)
(* claimed job has no task yet, and any number of tasks at work on a routine       *)
(* includes one whose policy allows as many.                                       *)
DueWait ==
  \A i, j \in DueJobs : status[j] \in Waiting /\ j \in due[j] /\ (i \in due[j] \/ j \in due[i])
WorkIsRunning == \A r \in Routines : AtWork(r) \subseteq Running
ClaimedIsIdle == \A j \in Jobs : task[j] # "none" => claimed # j
NothingBeforeRecovery == ~recovered => \A r \in Routines : AtWork(r) = {}
SomePolicyAllows ==
  \A r \in Routines : \A works \in (SUBSET AtWork(r)) \ {{}} :
    \E j \in works : Cardinality(works) <= Limit[TriggerOf[j]]
OverlapInv ==
  /\ TypeOK
  /\ DueWait
  /\ WorkIsRunning
  /\ ClaimedIsIdle
  /\ NothingBeforeRecovery
  /\ SomePolicyAllows

(* A job that reached a terminal status keeps it: late reports, cancellations and *)
(* recovery touch only the rows they are about.                                   *)
TerminalIsFinal ==
  [][\A j \in Jobs : status[j] \in TerminalStatus => status'[j] = status[j]]_vars

(* A job that its row shows as waiting, as cancelled or as otherwise over has no   *)
(* task at work: nothing more of its routine happens behind what the owner was     *)
(* shown, whichever gap between a claim, its task, the report and a restart a      *)
(* cancellation falls into.  Only the deletion of its trigger leaves a task so.    *)
WorkIsShown ==
  \A j \in Jobs : (task[j] # "none" \/ j = claimed) => status[j] \in {"running", "deleted"}

(* Every job nobody cancels comes to an end. *)
JobEnds ==
  \A j \in Jobs : status[j] = "queued"
    ~> (status[j] \in TerminalStatus \/ j \in cancel_requested)
-----------------------------------------------------------------------------
(* What the documentation says, and the code does not keep *)

(* docs/routines.md: queued, retrying or running jobs can be cancelled, so a job *)
(* whose cancellation was accepted comes to an end.                              *)
CancelEnds ==
  \A j \in Jobs : j \in cancel_requested ~> status[j] \in TerminalStatus
=============================================================================
