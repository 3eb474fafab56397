------------------------------ MODULE Workspaces ------------------------------
(***************************************************************************)
(* The Git workspace of one chat: attaching and detaching, commits,        *)
(* branches, pushes and pull requests, and the checkpoints around turns    *)
(* (crates/homebot-server/src/workspaces.rs, source_control.rs and         *)
(* checkpoints.rs over crates/homebot-vcs).                                *)
(***************************************************************************)
EXTENDS Integers

CONSTANTS Keys,      (* idempotency keys                                *)
          Requests,  (* requests at a time; a client may repeat a key   *)
          NoKey,
          MaxEdits   (* bound on the edits of the working trees         *)

Mutations == {"commit", "branch", "push", "pull_request"}
Trees == {"primary", "isolated"}
Gone == -1   (* no such directory                *)
Torn == -2   (* a restore that failed half way   *)

VARIABLES
  tree,         (* what each working tree holds: 0, or the edit that made it      *)
  head,         (* the commit of each tree's branch; that of homebot/<chat> stays *)
  edits,        (* edits so far                                                   *)
  row,          (* chat_workspaces.mode, if there is a row                        *)
  claims,       (* what each key was first used for                               *)
  results,      (* vcs_operation_results and checkpoint_restores                  *)
  req,          (* the locals of each request                                     *)
  anchors,      (* trees that a hidden ref keeps                                  *)
  checkpoints,  (* trees that a turn_checkpoints row names                        *)
  turn,         (* the turn of the chat, which is running while it is not idle    *)
  conversation, (* whether provider_conversations maps the chat                   *)
  ran,          (* history: how often each key reached Git or a remote            *)
  crashed       (* history: whether the server restarted                          *)

vars == <<tree, head, edits, row, claims, results, req, anchors, checkpoints, turn,
          conversation, ran, crashed>>
disk == <<tree, head, edits>>
marks == <<anchors, checkpoints, turn, conversation>>

Contents == {Gone, Torn} \cup 0..MaxEdits
Idle == [at |-> "idle", key |-> NoKey, op |-> "none", path |-> "primary", target |-> 0, saved |-> 0]
Resting == [at |-> "idle", after |-> FALSE, path |-> "primary", tree |-> 0]

Uses == Mutations \cup Trees \cup {"none", "detach", "restore"}
RequestRow ==
  [at : {"idle", "making", "inserting", "undoing", "removing", "deleting", "allowed", "running",
         "recording", "checking", "saving", "writing", "auditing"},
   key : Keys \cup {NoKey}, op : Uses, path : Trees, target : Contents, saved : Contents]
TurnRow == [at : {"idle", "capturing", "recording", "running"}, after : BOOLEAN,
            path : Trees, tree : Contents]

TypeOK ==
  /\ tree \in [Trees -> Contents] /\ head \in [Trees -> {Torn} \cup 0..MaxEdits]
  /\ edits \in 0..MaxEdits /\ row \in Trees \cup {"none"}
  /\ claims \in [Keys -> Uses]
  /\ results \subseteq Keys
  /\ req \in [Requests -> RequestRow]
  /\ checkpoints \subseteq anchors /\ anchors \subseteq Contents
  /\ turn \in TurnRow
  /\ conversation \in BOOLEAN /\ ran \in [Keys -> 0..2] /\ crashed \in BOOLEAN

Init ==
  /\ tree = [primary |-> 0, isolated |-> Gone] /\ head = [t \in Trees |-> 0] /\ edits = 0
  /\ row = "none" /\ claims = [k \in Keys |-> "none"] /\ results = {}
  /\ req = [r \in Requests |-> Idle]
  /\ anchors = {} /\ checkpoints = {} /\ turn = Resting
  /\ conversation = FALSE /\ ran = [k \in Keys |-> 0] /\ crashed = FALSE

-----------------------------------------------------------------------------
Reply(r) == req' = [req EXCEPT ![r] = Idle]
Step(r, at) == req' = [req EXCEPT ![r].at = at]
Open(r, at, k, op, path, target) ==
  req' = [req EXCEPT ![r] = [at |-> at, key |-> k, op |-> op, path |-> path, target |-> target, saved |-> 0]]

(* claim: a key that was used for something else is refused; it stays used however the *)
(* request ends.                                                                       *)
New(k) == claims[k] = "none"
Claim(k, op) == claims[k] \in {"none", op} /\ claims' = [claims EXCEPT ![k] = op]
Run(r) == ran' = [ran EXCEPT ![req[r].key] = @ + 1]

Present(t) == tree[t] # Gone                    (* inspect_repository    *)
Clean(t) == Present(t) /\ tree[t] = head[t]     (* GitRuntime::condition *)

(* create_worktree takes no path over that exists; remove_worktree wants the directory, clean. *)
AddWorktree ==
  ~Present("isolated") /\ tree' = [tree EXCEPT !["isolated"] = head["isolated"]]
DropWorktree ==
  Clean("isolated") /\ tree' = [tree EXCEPT !["isolated"] = Gone]

-----------------------------------------------------------------------------
(* attach: a new key goes on if there is no row yet. *)
AttachReads(r, k, mode) ==
  /\ req[r].at = "idle" /\ Claim(k, mode)
  /\ IF New(k) /\ row = "none" THEN Open(r, "making", k, mode, mode, 0) ELSE UNCHANGED req
  /\ UNCHANGED <<disk, row, results, marks, ran, crashed>>

(* association_paths *)
CreateWorktree(r) ==
  /\ req[r].at = "making"
  /\ \/ req[r].path = "primary" /\ Step(r, "inserting") /\ UNCHANGED tree
     \/ req[r].path = "isolated" /\ AddWorktree /\ Step(r, "inserting")
     \/ Reply(r) /\ UNCHANGED tree
  /\ UNCHANGED <<head, edits, row, claims, results, marks, ran, crashed>>

(* attach_chat_workspace: one row for each chat; a fault is compensated like a duplicate. *)
AttachChatWorkspace(r) ==
  /\ req[r].at = "inserting"
  /\ \/ row = "none" /\ row' = req[r].path /\ Reply(r)
     \/ /\ IF req[r].path = "isolated" THEN Step(r, "undoing") ELSE Reply(r)
        /\ UNCHANGED row
  /\ UNCHANGED <<disk, claims, results, marks, ran, crashed>>

(* What is dirty stays, and nobody is told. *)
UndoWorktree(r) ==
  /\ req[r].at = "undoing" /\ Reply(r)
  /\ DropWorktree \/ (~Clean("isolated") /\ UNCHANGED tree)
  /\ UNCHANGED <<head, edits, row, claims, results, marks, ran, crashed>>

(* detach: a repeated key goes on as well, as long as there is a row. *)
DetachReads(r, k) ==
  /\ req[r].at = "idle" /\ Claim(k, "detach")
  /\ IF row = "none" THEN UNCHANGED req
     ELSE Open(r, IF row = "isolated" THEN "removing" ELSE "deleting", k, "detach", row, 0)
  /\ UNCHANGED <<disk, row, results, marks, ran, crashed>>

(* A worktree that cannot be removed ends the request, and the row stays. *)
RemoveWorktree(r) ==
  /\ req[r].at = "removing"
  /\ \/ DropWorktree /\ Step(r, "deleting")
     \/ ~Clean("isolated") /\ Reply(r) /\ UNCHANGED tree
  /\ UNCHANGED <<head, edits, row, claims, results, marks, ran, crashed>>

DetachChatWorkspace(r) ==
  /\ req[r].at = "deleting" /\ row' = "none" /\ Reply(r)
  /\ UNCHANGED <<disk, claims, results, marks, ran, crashed>>

-----------------------------------------------------------------------------
(* source_control.rs: workspace_path, then the authorisation. *)

MutationReads(r, k, op) ==
  /\ req[r].at = "idle" /\ row # "none" /\ claims[k] \in {"none", op}
  /\ Open(r, "allowed", k, op, row, 0)
  /\ UNCHANGED <<disk, row, claims, results, marks, ran, crashed>>

Commit(r, k) == MutationReads(r, k, "commit")
CreateBranch(r, k) == MutationReads(r, k, "branch")

(* What goes to a remote needs a ticket (see Approvals), unless its result is there. *)
Push(r, k) == k \notin results /\ MutationReads(r, k, "push")
CreatePullRequest(r, k) == k \notin results /\ MutationReads(r, k, "pull_request")

(* Faulty variant: a key without a result runs again. *)
MutationClaimsUnfinished(r) ==
  /\ req[r].at = "allowed" /\ Claim(req[r].key, req[r].op)
  /\ IF req[r].key \notin results THEN Step(r, "running") ELSE Reply(r)
  /\ UNCHANGED <<disk, row, results, marks, ran, crashed>>

(* claim_mutation; a repeated key gets the result (replay_result) or "indeterminate". *)
MutationClaims(r) ==
  /\ req[r].at = "allowed"
  /\ \/ /\ Claim(req[r].key, req[r].op)
        /\ IF New(req[r].key) THEN Step(r, "running") ELSE Reply(r)
     \/ claims[req[r].key] \notin {"none", req[r].op} /\ Reply(r) /\ UNCHANGED claims
  /\ UNCHANGED <<disk, row, results, marks, ran, crashed>>

(* GitRuntime.  A command may fail, also after a remote has taken it. *)

Running(r, op) == req[r].at = "running" /\ req[r].op = op

Command(r) == Present(req[r].path) /\ Run(r) /\ Step(r, "recording")

Local == UNCHANGED <<edits, row, claims, results, marks, crashed>>

(* All that changed, or the index alone, which may be empty. *)
GitCommit(r) ==
  /\ Running(r, "commit") /\ Command(r)
  /\ \E c \in {tree[req[r].path], head[req[r].path]} : head' = [head EXCEPT ![req[r].path] = c]
  /\ UNCHANGED tree /\ Local

(* From a clean tree, to the commit it is at or to another. *)
GitSwitch(r) ==
  LET t == req[r].path
  IN /\ Running(r, "branch") /\ Clean(t) /\ Command(r)
     /\ \E start \in {head[t], 0} : /\ tree' = [tree EXCEPT ![t] = start]
                                    /\ head' = [head EXCEPT ![t] = start]
     /\ Local

GitPush(r) == Running(r, "push") /\ Command(r) /\ UNCHANGED <<tree, head>> /\ Local
GhCreate(r) == Running(r, "pull_request") /\ Command(r) /\ UNCHANGED <<tree, head>> /\ Local

GitFails(r) ==
  /\ req[r].at = "running" /\ Reply(r) /\ UNCHANGED <<tree, head>> /\ Local
  /\ UNCHANGED ran \/ (req[r].op \in {"push", "pull_request"} /\ Present(req[r].path) /\ Run(r))

RecordResult(r) ==
  /\ req[r].at = "recording" /\ Reply(r)
  /\ results' \in {results, results \cup {req[r].key}}
  /\ UNCHANGED <<disk, row, claims, marks, ran, crashed>>

-----------------------------------------------------------------------------
(* restore *)

RestoreClaims(r, k, target) ==
  /\ req[r].at = "idle" /\ target \in checkpoints /\ Claim(k, "restore")
  /\ IF New(k) THEN Open(r, "checking", k, "restore", "primary", target) ELSE UNCHANGED req
  /\ UNCHANGED <<disk, row, results, marks, ran, crashed>>

(* restore_new: nobody runs now, and the workspace is still the checkpoint's. *)
RestoreChecks(r) ==
  /\ req[r].at = "checking"
  /\ \/ /\ turn.at = "idle" /\ row # "none"
        /\ req' = [req EXCEPT ![r].at = "saving", ![r].path = row]
     \/ Reply(r)
  /\ UNCHANGED <<disk, row, claims, results, marks, ran, crashed>>

(* restore_checkpoint: the safety capture, which may end it (an ignored path in the way)... *)
CaptureSafety(r) ==
  /\ req[r].at = "saving"
  /\ \/ /\ Present(req[r].path) /\ anchors' = anchors \cup {tree[req[r].path]}
        /\ \/ req' = [req EXCEPT ![r].at = "writing", ![r].saved = tree[req[r].path]]
           \/ Reply(r)
     \/ Reply(r) /\ UNCHANGED anchors
  /\ UNCHANGED <<disk, row, claims, results, checkpoints, turn, conversation, ran, crashed>>

(* ...then what the target lacks goes and the rest is checked out; not in one step, and  *)
(* without another look at who runs by now.                                              *)
CheckOut(r) ==
  LET t == req[r].path
  IN /\ req[r].at = "writing"
     /\ \/ /\ Present(t) /\ tree' = [tree EXCEPT ![t] = req[r].target]
           /\ Run(r) /\ Step(r, "auditing")
        \/ /\ tree' \in {tree, IF Present(t) THEN [tree EXCEPT ![t] = Torn] ELSE tree}
           /\ Reply(r) /\ UNCHANGED ran
     /\ UNCHANGED <<head, edits, row, claims, results, marks, crashed>>

(* record_checkpoint_restore: safety row, audit row and the end of the conversation, in   *)
(* one transaction.                                                                      *)
RecordCheckpointRestore(r) ==
  /\ req[r].at = "auditing" /\ Reply(r)
  /\ \/ /\ results' = results \cup {req[r].key} /\ conversation' = FALSE
        /\ checkpoints' = checkpoints \cup {req[r].saved}
     \/ UNCHANGED <<results, conversation, checkpoints>>
  /\ UNCHANGED <<disk, row, claims, anchors, turn, ran, crashed>>

-----------------------------------------------------------------------------
(* capture_for_turn, before and after the turn.  Without a row there is nothing to take. *)

AfterCapture == IF turn.after THEN Resting ELSE [turn EXCEPT !.at = "running"]

TurnStarts ==
  /\ turn.at = "idle" /\ turn' = [Resting EXCEPT !.at = "capturing"]
  /\ UNCHANGED <<disk, row, claims, results, req, anchors, checkpoints, conversation, ran, crashed>>

CaptureForTurn ==
  /\ turn.at = "capturing"
  /\ \/ row = "none" /\ turn' = AfterCapture /\ UNCHANGED anchors
     \/ /\ row # "none" /\ Present(row) /\ anchors' = anchors \cup {tree[row]}
        /\ turn' = [turn EXCEPT !.at = "recording", !.tree = tree[row]]
     \/ row # "none" /\ turn' = Resting /\ UNCHANGED anchors
  /\ UNCHANGED <<disk, row, claims, results, req, checkpoints, conversation, ran, crashed>>

(* create_turn_checkpoint asks for the association once more. *)
CreateTurnCheckpoint ==
  /\ turn.at = "recording"
  /\ \/ /\ row # "none" /\ checkpoints' = checkpoints \cup {turn.tree} /\ turn' = AfterCapture
     \/ turn' = Resting /\ UNCHANGED checkpoints
  /\ UNCHANGED <<disk, row, claims, results, req, anchors, conversation, ran, crashed>>

(* The Bot works in the tree, or the owner does at any time. *)
Edit(t) ==
  /\ Present(t) /\ edits < MaxEdits /\ edits' = edits + 1
  /\ tree' = [tree EXCEPT ![t] = edits + 1]
  /\ UNCHANGED <<head, row, claims, results, req, marks, ran, crashed>>

TurnEnds ==
  /\ turn.at = "running" /\ conversation' = TRUE
  /\ turn' = [turn EXCEPT !.at = "capturing", !.after = TRUE]
  /\ UNCHANGED <<disk, row, claims, results, req, anchors, checkpoints, ran, crashed>>

Restart ==
  /\ ~crashed /\ crashed' = TRUE /\ turn' = Resting /\ req' = [r \in Requests |-> Idle]
  /\ UNCHANGED <<disk, row, claims, results, anchors, checkpoints, conversation, ran>>

Next ==
  \/ \E r \in Requests :
       \/ \E k \in Keys : \/ (\E mode \in Trees : AttachReads(r, k, mode)) \/ DetachReads(r, k)
                          \/ Commit(r, k) \/ CreateBranch(r, k) \/ Push(r, k) \/ CreatePullRequest(r, k)
                          \/ (\E target \in Contents : RestoreClaims(r, k, target))
       \/ CreateWorktree(r) \/ AttachChatWorkspace(r) \/ UndoWorktree(r)
       \/ RemoveWorktree(r) \/ DetachChatWorkspace(r)
       \/ MutationClaims(r) \/ GitCommit(r) \/ GitSwitch(r) \/ GitPush(r) \/ GhCreate(r)
       \/ GitFails(r) \/ RecordResult(r)
       \/ RestoreChecks(r) \/ CaptureSafety(r) \/ CheckOut(r) \/ RecordCheckpointRestore(r)
  \/ TurnStarts \/ CaptureForTurn \/ CreateTurnCheckpoint \/ TurnEnds
  \/ (\E t \in Trees : Edit(t)) \/ Restart

Spec == Init /\ [][Next]_vars

-----------------------------------------------------------------------------
(* However often a client repeats a key, at once or after a failure or a restart, it     *)
(* reaches the repository or the remote no more than once (source_control.rs, restore). *)
EachKeyOnce == \A k \in Keys : ran[k] <= 1

(* The invariant behind it.  Whoever claimed a key first is alone on its way to Git, and *)
(* a key that nobody claimed has not been there.                                         *)
OnItsWay(r, k) == req[r].key = k /\ req[r].at \in {"running", "checking", "saving", "writing"}

FirstClaimRuns ==
  /\ \A k \in Keys : claims[k] = "none" => ran[k] = 0 /\ \A r \in Requests : ~OnItsWay(r, k)
  /\ \A k \in Keys : (\E r \in Requests : OnItsWay(r, k)) => ran[k] = 0
  /\ \A k \in Keys : \A r, s \in Requests : OnItsWay(r, k) /\ OnItsWay(s, k) => r = s

(* What a request or the turn carries once it is about to use it. *)
StepsTyped ==
  /\ \A r \in Requests : /\ req[r].at # "idle" => req[r].key \in Keys
                         /\ req[r].at = "allowed" => req[r].op \in Mutations
                         /\ req[r].at \in {"writing", "auditing"} => req[r].saved \in anchors
  /\ turn.at = "recording" => turn.tree \in anchors

KeysInv == TypeOK /\ StepsTyped /\ FirstClaimRuns /\ EachKeyOnce
===============================================================================
