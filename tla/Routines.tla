------------------------------- MODULE Routines -------------------------------
(***************************************************************************)
(* One routine: its versions, demonstrations and runs                      *)
(* (crates/homebot-server/src/routines.rs, crates/homebot-routines).  What *)
(* its triggers deliver is RoutineTriggers, and what becomes of a job's    *)
(* row is RoutineJobs.                                                     *)
(***************************************************************************)
EXTENDS Integers

CONSTANTS Editors,      (* requests that edit at a time                       *)
          MaxVersions,  (* bound on edits                                     *)
          MaxRestarts   (* bound on crashes                                   *)

Live == "live"

VARIABLES
  routine,    (* the row: state, enabled, draft and version; a version's        *)
              (* definition is its number                                       *)
  taken,      (* how many rows of routine_versions there are                    *)
  recording,  (* routine_recordings.status and the number of actions            *)
  editor,     (* the locals of each editing request                             *)
  jobs,       (* routine_jobs: the versions they are bound to                   *)
  run,        (* the locals of the job, or manual run, that executes            *)
  ran,        (* routine_runs: the version, and the definition that was replayed *)
  drafts,     (* history: the versions that were saved as drafts                *)
  restarts

vars == <<routine, taken, recording, editor, jobs, run, ran, drafts, restarts>>
rows == <<routine, taken, drafts>>
running == <<jobs, run, ran>>

NoRun == [at |-> "idle", version |-> 0, definition |-> 0, left |-> 0, dry |-> FALSE, status |-> "none"]
Steps == 2   (* steps of a definition *)

RoutineRow == [state : {"none", Live, "deleted"}, enabled : BOOLEAN, draft : BOOLEAN,
               version : 0..MaxVersions]
RecordingRow == [status : {"none", "recording", "finished", "cancelled"}, actions : 0..2]
EditorRow == [at : {"idle", "updating", "enabling", "appending", "converting", "closing"},
              seen : 0..MaxVersions]
RunRow == [at : {"idle", "starting", "validating", "approving", "executing", "storing"},
           version : 0..MaxVersions, definition : 0..MaxVersions, left : 0..Steps, dry : BOOLEAN,
           status : {"none", "failed", "waiting_approval", "succeeded", "dry_run_succeeded"}]

TypeOK ==
  /\ routine \in RoutineRow
  /\ taken \in 0..MaxVersions
  /\ recording \in RecordingRow
  /\ editor \in [Editors -> EditorRow]
  /\ jobs \subseteq 1..MaxVersions /\ drafts \subseteq 1..MaxVersions
  /\ run \in RunRow
  /\ ran \subseteq [version : 1..MaxVersions, definition : 1..MaxVersions]
  /\ restarts \in 0..MaxRestarts

Init ==
  /\ routine = [state |-> "none", enabled |-> FALSE, draft |-> FALSE, version |-> 0]
  /\ taken = 0 /\ recording = [status |-> "none", actions |-> 0] /\ drafts = {}
  /\ editor = [e \in Editors |-> [at |-> "idle", seen |-> 0]]
  /\ jobs = {} /\ run = NoRun /\ ran = {} /\ restarts = 0

-----------------------------------------------------------------------------
(* Versions.  A request that reads first writes what it read. *)

At(e, at) == editor[e].at = at
Reads(e, at, seen) == At(e, "idle") /\ editor' = [editor EXCEPT ![e] = [at |-> at, seen |-> seen]]
Done(e) == editor' = [editor EXCEPT ![e] = [at |-> "idle", seen |-> 0]]

(* update: the number of the next version comes from a read outside of the transaction, *)
(* and UNIQUE(routine_id, version) refuses the second of two.                           *)
UpdateReads(e) ==
  /\ routine.state = Live /\ routine.version < MaxVersions /\ Reads(e, "updating", routine.version)
  /\ UNCHANGED <<rows, recording, running, restarts>>

UpdateRoutine(e, draft) ==
  LET next == editor[e].seen + 1
  IN /\ At(e, "updating") /\ Done(e)
     /\ IF routine.state = Live /\ next > taken
        THEN /\ taken' = next
             /\ routine' = [routine EXCEPT !.version = next, !.draft = draft]
             /\ drafts' = IF draft THEN drafts \cup {next} ELSE drafts
        ELSE UNCHANGED rows
     /\ UNCHANGED <<recording, running, restarts>>

(* set_enabled: a draft that is seen is refused. *)
EnableReads(e) ==
  /\ routine.state = Live /\ ~routine.draft /\ Reads(e, "enabling", 0)
  /\ UNCHANGED <<rows, recording, running, restarts>>

SetRoutineEnabled(e) ==
  /\ At(e, "enabling") /\ Done(e)
  /\ routine' = [routine EXCEPT !.enabled = (routine.state = Live)]
  /\ UNCHANGED <<taken, drafts, recording, running, restarts>>

Disable ==
  /\ routine.enabled /\ routine' = [routine EXCEPT !.enabled = FALSE]
  /\ UNCHANGED <<taken, drafts, recording, editor, running, restarts>>

(* The versions, triggers, jobs and runs go with the row. *)
DeleteRoutine ==
  /\ routine.state = Live
  /\ routine' = [state |-> "deleted", enabled |-> FALSE, draft |-> FALSE, version |-> 0]
  /\ taken' = 0 /\ jobs' = {} /\ ran' = {}
  /\ UNCHANGED <<recording, editor, drafts, run, restarts>>

(* create, and duplicate, whose copy is a disabled draft. *)
InsertRoutine(enabled, draft) ==
  /\ routine' = [state |-> Live, enabled |-> enabled, draft |-> draft, version |-> 1]
  /\ taken' = 1 /\ drafts' = IF draft THEN {1} ELSE {}

CreateRoutine(draft) ==
  /\ routine.state = "none" /\ InsertRoutine(~draft, draft)
  /\ UNCHANGED <<recording, editor, running, restarts>>

-----------------------------------------------------------------------------
(* Demonstrations *)

StartRecording ==
  /\ recording.status = "none" /\ recording' = [recording EXCEPT !.status = "recording"]
  /\ UNCHANGED <<rows, editor, running, restarts>>

(* append_routine_recording_action reads the list and writes it back longer. *)
AppendReads(e) ==
  /\ recording.status = "recording" /\ recording.actions < 2
  /\ Reads(e, "appending", recording.actions)
  /\ UNCHANGED <<rows, recording, running, restarts>>

AppendAction(e) ==
  /\ At(e, "appending") /\ Done(e)
  /\ recording' = IF recording.status = "recording"
                  THEN [recording EXCEPT !.actions = editor[e].seen + 1] ELSE recording
  /\ UNCHANGED <<rows, running, restarts>>

(* finish_recording: an empty one stays open, anything else becomes a draft, under a name *)
(* that is free, before the recording is closed.                                         *)
FinishReads(e) ==
  /\ recording.status = "recording" /\ recording.actions > 0
  /\ Reads(e, "converting", 0)
  /\ UNCHANGED <<rows, recording, running, restarts>>

FinishCreates(e) ==
  /\ At(e, "converting")
  /\ IF routine.state = "none"
     THEN InsertRoutine(FALSE, TRUE) /\ editor' = [editor EXCEPT ![e].at = "closing"]
     ELSE Done(e) /\ UNCHANGED rows
  /\ UNCHANGED <<recording, running, restarts>>

CloseRecording(e, status) ==
  /\ recording.status = "recording" /\ recording' = [recording EXCEPT !.status = status]
  /\ \/ status = "finished" /\ At(e, "closing") /\ Done(e)
     \/ status = "cancelled" /\ At(e, "idle") /\ UNCHANGED editor
  /\ UNCHANGED <<rows, running, restarts>>

-----------------------------------------------------------------------------
(* Jobs and runs.  An update to a draft leaves the routine enabled. *)

(* Faulty variant: only a disabled routine is refused. *)
EnqueueEnabled ==
  /\ routine.enabled /\ jobs' = jobs \cup {routine.version}
  /\ UNCHANGED <<rows, recording, editor, run, ran, restarts>>

(* enqueue_delivery (RoutineTriggers) binds a job to the version that is active. *)
Enqueue ==
  /\ routine.enabled /\ ~routine.draft /\ jobs' = jobs \cup {routine.version}
  /\ UNCHANGED <<rows, recording, editor, run, ran, restarts>>

(* execute_job: the version of the job, which routine_version reads after the guard. *)
JobStarts(version) ==
  /\ run = NoRun /\ version \in jobs /\ routine.enabled /\ ~routine.draft
  /\ run' = [NoRun EXCEPT !.at = "starting", !.version = version, !.left = Steps]
  /\ UNCHANGED <<rows, recording, editor, jobs, ran, restarts>>

RoutineVersion ==
  /\ run.at = "starting"
  /\ run' = IF run.version \in 1..taken
            THEN [run EXCEPT !.at = "validating", !.definition = run.version] ELSE NoRun
  /\ UNCHANGED <<rows, recording, editor, jobs, ran, restarts>>

Execute(dry) ==
  /\ run = NoRun /\ routine.state = Live /\ ~routine.draft /\ (dry \/ routine.enabled)
  /\ run' = [NoRun EXCEPT !.at = "validating", !.version = routine.version, !.dry = dry,
                          !.definition = routine.version, !.left = Steps]
  /\ UNCHANGED <<rows, recording, editor, jobs, ran, restarts>>

(* replay: the steps in their order, until one fails or wants an approval; the results  *)
(* of the steps before a failed one are not kept.                                       *)
Stops(status) == run' = [run EXCEPT !.at = "storing", !.status = status]
StepDone == IF run.left > 1 THEN run' = [run EXCEPT !.at = "validating", !.left = @ - 1]
            ELSE Stops(IF run.dry THEN "dry_run_succeeded" ELSE "succeeded")

ValidateStep ==
  /\ run.at = "validating"
  /\ \/ Stops("failed")
     \/ IF run.dry THEN StepDone ELSE run' = [run EXCEPT !.at = "approving"]
  /\ UNCHANGED <<rows, recording, editor, jobs, ran, restarts>>

ApprovalRequired ==
  /\ run.at = "approving"
  /\ Stops("failed") \/ Stops("waiting_approval") \/ run' = [run EXCEPT !.at = "executing"]
  /\ UNCHANGED <<rows, recording, editor, jobs, ran, restarts>>

ExecuteStep ==
  /\ run.at = "executing" /\ (Stops("failed") \/ StepDone)
  /\ UNCHANGED <<rows, recording, editor, jobs, ran, restarts>>

(* A run of a routine that was deleted meanwhile has no row to refer to. *)
CreateRoutineRun ==
  /\ run.at = "storing" /\ run' = NoRun
  /\ ran' \in {ran, IF run.version \in 1..taken
                    THEN ran \cup {[version |-> run.version, definition |-> run.definition]} ELSE ran}
  /\ UNCHANGED <<rows, recording, editor, jobs, restarts>>

Restart ==
  /\ restarts < MaxRestarts /\ restarts' = restarts + 1 /\ run' = NoRun
  /\ editor' = [e \in Editors |-> [at |-> "idle", seen |-> 0]]
  /\ UNCHANGED <<rows, recording, jobs, ran>>

Next ==
  \/ \E draft \in BOOLEAN : CreateRoutine(draft) \/ (\E e \in Editors : UpdateRoutine(e, draft))
  \/ Disable \/ DeleteRoutine \/ StartRecording
  \/ \E e \in Editors : \/ UpdateReads(e) \/ EnableReads(e) \/ SetRoutineEnabled(e)
                        \/ AppendReads(e) \/ AppendAction(e) \/ FinishReads(e) \/ FinishCreates(e)
                        \/ CloseRecording(e, "finished") \/ CloseRecording(e, "cancelled")
  \/ Enqueue \/ (\E version \in jobs : JobStarts(version)) \/ RoutineVersion
  \/ (\E dry \in BOOLEAN : Execute(dry))
  \/ ValidateStep \/ ApprovalRequired \/ ExecuteStep \/ CreateRoutineRun \/ Restart

Spec == Init /\ [][Next]_vars

-----------------------------------------------------------------------------
(* No version that was saved as a draft is ever replayed: not though updating to a draft *)
(* leaves the routine enabled, not after a later version is published, and not by an     *)
(* enable that saw the version before (enqueue_delivery, execute_job, execute).          *)
DraftsNeverRun == \A r \in ran \cup {run} : r.definition \notin drafts

(* The invariant behind it.  A version that exists and is no draft stays none: the next  *)
(* draft has a number of its own.                                                        *)
Replays == run.at \in {"validating", "approving", "executing", "storing"}
Published(version) == version \notin drafts /\ (routine.state = Live => version \in 1..taken)

RowsAgree ==
  /\ routine.enabled => routine.state = Live
  /\ routine.state = "none" => drafts = {} /\ jobs = {} /\ ran = {} /\ run = NoRun
  /\ routine.state # Live => taken = 0
  /\ routine.state = Live => /\ routine.version = taken /\ taken > 0 /\ drafts \subseteq 1..taken
                             /\ (routine.draft <=> taken \in drafts)

PublishedRuns ==
  /\ \A version \in jobs : Published(version)
  /\ run.at = "starting" => Published(run.version)
  /\ run.at = "idle" => run.definition = 0
  /\ run.at = "starting" => run.definition = 0
  /\ Replays => run.definition > 0 /\ Published(run.definition)
  /\ \A r \in ran : Published(r.definition)

EditorsTyped ==
  \A e \in Editors : /\ At(e, "updating") => editor[e].seen < MaxVersions
                     /\ At(e, "appending") => editor[e].seen < 2

DraftInv == TypeOK /\ RowsAgree /\ PublishedRuns /\ EditorsTyped
===============================================================================
