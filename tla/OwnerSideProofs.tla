-------------------------- MODULE OwnerSideProofs --------------------------
(***************************************************************************)
(* Theorems about what the owner's devices and requests work on: the       *)
(* mutations of a repository, the commands of paired devices, files,       *)
(* secrets and the records the owner edits. Each part proves the inductive *)
(* invariant of one component for every value of its constants; the        *)
(* variables of the component are the slots of the composition, in the     *)
(* order of its INSTANCE.                                                  *)
(***************************************************************************)
EXTENDS MCOwnerSide, TLAPS, Sequences, FiniteSetTheorems

-----------------------------------------------------------------------------
(* Workspaces. Slots: v1 tree, v2 head, v3 edits, v4 row, v5 claims, v6 results, v7 *)
(* req, v8 anchors, v9 checkpoints, v10 turn, v11 conversation, v12 ran, v13        *)
(* crashed.                                                                         *)

(* The trees, uses and contents by name. *)
LEMMA TreeFacts ==
  /\ W!Trees = {"primary", "isolated"} /\ W!Mutations \subseteq W!Uses /\ W!Trees \subseteq W!Uses
  /\ {"none", "detach", "restore", "commit", "branch", "push", "pull_request"} \subseteq W!Uses
  /\ W!Mutations = {"commit", "branch", "push", "pull_request"}
  /\ 0 \in W!Contents /\ W!Gone \in W!Contents /\ W!Torn \in W!Contents /\ W!Gone # W!Torn
  /\ \A c \in W!Contents : c # W!Gone => c \in {W!Torn} \cup 0..MaxEdits
  /\ {W!Torn} \cup 0..MaxEdits \subseteq W!Contents
BY OwnerAssumption DEF W!Trees, W!Mutations, W!Uses, W!Contents, W!Gone, W!Torn

(* A request and a turn at rest have their types. *)
LEMMA RequestIdle == W!Idle \in W!RequestRow /\ W!Resting \in W!TurnRow
BY TreeFacts DEF W!Idle, W!Resting, W!RequestRow, W!TurnRow

(* A request that is answered keeps the requests' type. *)
LEMMA ReplyTyped ==
  ASSUME W!TypeOK, NEW r \in VcsRequests, W!Reply(r) PROVE v7' \in [VcsRequests -> W!RequestRow]
BY RequestIdle DEF W!Reply, W!TypeOK

(* Where a request can be. *)
VcsStages == {"idle", "making", "inserting", "undoing", "removing", "deleting", "allowed", "running",
         "recording", "checking", "saving", "writing", "auditing"}

(* A request that takes its next step keeps the requests' type. *)
LEMMA MoveTyped ==
  ASSUME W!TypeOK, NEW r \in VcsRequests, NEW at \in VcsStages, W!Step(r, at)
  PROVE v7' \in [VcsRequests -> W!RequestRow]
<1>1. [v7[r] EXCEPT !.at = at] \in W!RequestRow
  BY DEF W!TypeOK, W!RequestRow, VcsStages
<1>2. QED
  BY <1>1 DEF W!Step, W!TypeOK

(* The rows of a restore have their type. *)
LEMMA RowMoves ==
  ASSUME NEW q \in W!RequestRow, NEW path \in W!Trees, NEW c \in W!Contents
  PROVE /\ [[q EXCEPT !.at = "saving"] EXCEPT !.path = path] \in W!RequestRow
        /\ [[q EXCEPT !.at = "writing"] EXCEPT !.saved = c] \in W!RequestRow
BY DEF W!RequestRow

(* A request that opens keeps the requests' type. *)
LEMMA OpenTyped ==
  ASSUME W!TypeOK, NEW r \in VcsRequests, NEW at \in VcsStages, NEW k \in VcsKeys, NEW op \in W!Uses,
         NEW path \in W!Trees, NEW target \in W!Contents, W!Open(r, at, k, op, path, target)
  PROVE v7' \in [VcsRequests -> W!RequestRow]
<1>1. [at |-> at, key |-> k, op |-> op, path |-> path, target |-> target, saved |-> 0] \in W!RequestRow
  BY TreeFacts DEF W!RequestRow, VcsStages
<1>2. QED
  BY <1>1 DEF W!Open, W!TypeOK

(* A claim keeps the type of the claims. *)
LEMMA ClaimTyped ==
  ASSUME W!TypeOK, NEW k \in VcsKeys, NEW op \in W!Uses, W!Claim(k, op)
  PROVE v5' \in [VcsKeys -> W!Uses]
BY DEF W!Claim, W!TypeOK

(* The first run of a key keeps the type of the runs. *)
LEMMA RunTyped ==
  ASSUME W!TypeOK, NEW r \in VcsRequests, v7[r].key \in VcsKeys, v12[v7[r].key] = 0, W!Run(r)
  PROVE v12' \in [VcsKeys -> 0..2]
BY DEF W!Run, W!TypeOK

(* Adding and dropping the worktree keeps the type of the trees. *)
LEMMA TreeTyped ==
  /\ W!TypeOK /\ W!AddWorktree => v1' \in [W!Trees -> W!Contents]
  /\ W!TypeOK /\ W!DropWorktree => v1' \in [W!Trees -> W!Contents]
<1> SUFFICES ASSUME W!TypeOK PROVE /\ W!AddWorktree => v1' \in [W!Trees -> W!Contents]
                                   /\ W!DropWorktree => v1' \in [W!Trees -> W!Contents]
  OBVIOUS
<1>1. v2["isolated"] \in W!Contents /\ W!Gone \in W!Contents
  BY TreeFacts DEF W!TypeOK
<1>2. QED
  BY <1>1 DEF W!AddWorktree, W!DropWorktree, W!TypeOK

(* Every step keeps the types. *)
LEMMA VcsTyped == ASSUME W!KeysInv, [W!Next]_W!vars PROVE W!TypeOK'
<1> USE DEF W!KeysInv, W!TypeOK
<1>u. CASE UNCHANGED W!vars
  BY <1>u DEF W!vars
<1> USE TreeFacts DEF VcsStages, W!disk, W!marks
<1>1. ASSUME NEW r \in VcsRequests, NEW k \in VcsKeys, NEW mode \in W!Trees, W!AttachReads(r, k, mode) PROVE W!TypeOK'
  BY <1>1, OpenTyped, ClaimTyped DEF W!AttachReads
<1>2. ASSUME NEW r \in VcsRequests, NEW k \in VcsKeys, W!DetachReads(r, k) PROVE W!TypeOK'
  <2>1. v7' \in [VcsRequests -> W!RequestRow]
    BY <1>2, OpenTyped DEF W!DetachReads
  <2>2. QED
    BY <1>2, <2>1, ClaimTyped DEF W!DetachReads
<1>3. ASSUME NEW r \in VcsRequests, NEW k \in VcsKeys,
             W!Commit(r, k) \/ W!CreateBranch(r, k) \/ W!Push(r, k) \/ W!CreatePullRequest(r, k) PROVE W!TypeOK'
  <2>1. PICK op \in W!Mutations : W!MutationReads(r, k, op)
    BY <1>3 DEF W!Commit, W!CreateBranch, W!Push, W!CreatePullRequest
  <2>2. QED
    BY <2>1, OpenTyped DEF W!MutationReads
<1>4. ASSUME NEW r \in VcsRequests, NEW k \in VcsKeys, NEW target \in W!Contents, W!RestoreClaims(r, k, target) PROVE W!TypeOK'
  BY <1>4, OpenTyped, ClaimTyped DEF W!RestoreClaims
<1>5. ASSUME NEW r \in VcsRequests,
        \/ W!CreateWorktree(r) \/ W!AttachChatWorkspace(r) \/ W!UndoWorktree(r)
        \/ W!RemoveWorktree(r) \/ W!DetachChatWorkspace(r)
      PROVE W!TypeOK'
  <2>0. v7[r] \in W!RequestRow /\ v7[r].path \in W!Trees
    BY DEF W!RequestRow
  <2>1. CASE W!CreateWorktree(r)
    BY <2>1, MoveTyped, ReplyTyped, TreeTyped DEF W!CreateWorktree
  <2>2. CASE W!AttachChatWorkspace(r)
    BY <2>0, <2>2, MoveTyped, ReplyTyped DEF W!AttachChatWorkspace
  <2>3. CASE W!UndoWorktree(r)
    BY <2>3, ReplyTyped, TreeTyped DEF W!UndoWorktree
  <2>4. CASE W!RemoveWorktree(r)
    BY <2>4, MoveTyped, ReplyTyped, TreeTyped DEF W!RemoveWorktree
  <2>5. CASE W!DetachChatWorkspace(r)
    BY <2>5, ReplyTyped DEF W!DetachChatWorkspace
  <2>6. QED
    BY <1>5, <2>1, <2>2, <2>3, <2>4, <2>5
<1>6. ASSUME NEW r \in VcsRequests, W!MutationClaims(r) PROVE W!TypeOK'
  <2>1. v7[r].key \in VcsKeys /\ v7[r].op \in W!Uses
    BY <1>6 DEF W!MutationClaims, W!StepsTyped
  <2>2. v7' \in [VcsRequests -> W!RequestRow]
    BY <1>6, MoveTyped, ReplyTyped DEF W!MutationClaims
  <2>3. QED
    BY <1>6, <2>1, <2>2, ClaimTyped DEF W!MutationClaims
<1>7. ASSUME NEW r \in VcsRequests, v7[r].at = "running" \/ v7[r].at = "writing"
      PROVE /\ v7[r].key \in VcsKeys /\ v12[v7[r].key] = 0 /\ v7[r].path \in W!Trees
            /\ v7[r].target \in W!Contents
  BY <1>7 DEF W!StepsTyped, W!FirstClaimRuns, W!OnItsWay, W!RequestRow
<1>8. ASSUME NEW r \in VcsRequests,
        W!GitCommit(r) \/ W!GitSwitch(r) \/ W!GitPush(r) \/ W!GhCreate(r) PROVE W!TypeOK'
  <2> USE DEF W!Local
  <2>1. v7[r].at = "running" /\ W!Command(r)
    BY <1>8 DEF W!GitCommit, W!GitSwitch, W!GitPush, W!GhCreate, W!Running
  <2>2. v7' \in [VcsRequests -> W!RequestRow] /\ v12' \in [VcsKeys -> 0..2]
    BY <2>1, <1>7, MoveTyped, RunTyped DEF W!Command
  <2>3. v2[v7[r].path] \in {W!Torn} \cup 0..MaxEdits /\ v1[v7[r].path] \in {W!Torn} \cup 0..MaxEdits
    BY <2>1, <1>7 DEF W!Command, W!Present
  <2>4. 0 \in {W!Torn} \cup 0..MaxEdits
    BY OwnerAssumption
  <2>5. CASE W!GitCommit(r)
    BY <2>2, <2>3, <2>5 DEF W!GitCommit
  <2>6. CASE W!GitSwitch(r)
    <3>1. PICK start \in {v2[v7[r].path], 0} : /\ v1' = [v1 EXCEPT ![v7[r].path] = start]
                                               /\ v2' = [v2 EXCEPT ![v7[r].path] = start]
      BY <2>6 DEF W!GitSwitch
    <3>2. start \in {W!Torn} \cup 0..MaxEdits
      BY <2>3, <2>4
    <3>3. v1' \in [W!Trees -> W!Contents] /\ v2' \in [W!Trees -> {W!Torn} \cup 0..MaxEdits]
      BY <3>1, <3>2
    <3>4. QED
      BY <2>2, <2>6, <3>3 DEF W!GitSwitch
  <2>7. CASE W!GitPush(r) \/ W!GhCreate(r)
    BY <2>2, <2>7 DEF W!GitPush, W!GhCreate
  <2>8. QED
    BY <1>8, <2>5, <2>6, <2>7
<1>9. ASSUME NEW r \in VcsRequests, W!GitFails(r) PROVE W!TypeOK'
  BY <1>7, <1>9, ReplyTyped, RunTyped DEF W!GitFails, W!Local
<1>10. ASSUME NEW r \in VcsRequests, W!RecordResult(r) PROVE W!TypeOK'
  <2>1. v7[r].key \in VcsKeys
    BY <1>10 DEF W!RecordResult, W!StepsTyped
  <2>2. QED
    BY <1>10, <2>1, ReplyTyped DEF W!RecordResult
<1>11. ASSUME NEW r \in VcsRequests, W!RestoreChecks(r) PROVE W!TypeOK'
  <2>1. ASSUME NEW path \in W!Trees PROVE [[v7[r] EXCEPT !.at = "saving"] EXCEPT !.path = path] \in W!RequestRow
    BY RowMoves, TreeFacts
  <2>2. v7' \in [VcsRequests -> W!RequestRow]
    BY <1>11, <2>1, ReplyTyped DEF W!RestoreChecks
  <2>3. QED
    BY <1>11, <2>2 DEF W!RestoreChecks
<1>12. ASSUME NEW r \in VcsRequests, W!CaptureSafety(r) PROVE W!TypeOK'
  <2>1. v1[v7[r].path] \in W!Contents
    BY DEF W!RequestRow
  <2>2. [[v7[r] EXCEPT !.at = "writing"] EXCEPT !.saved = v1[v7[r].path]] \in W!RequestRow
    BY <2>1, RowMoves, TreeFacts
  <2>3. v7' \in [VcsRequests -> W!RequestRow]
    BY <1>12, <2>2, ReplyTyped DEF W!CaptureSafety
  <2>4. v9' \subseteq v8' /\ v8' \subseteq W!Contents
    BY <1>12, <2>1 DEF W!CaptureSafety
  <2>5. QED
    BY <1>12, <2>3, <2>4 DEF W!CaptureSafety
<1>13. ASSUME NEW r \in VcsRequests, W!CheckOut(r) PROVE W!TypeOK'
  <2>1. v7[r].at = "writing" /\ v7[r].path \in W!Trees /\ v7[r].target \in W!Contents
    BY <1>13, <1>7 DEF W!CheckOut
  <2>2. v1' \in [W!Trees -> W!Contents]
    BY <1>13, <2>1 DEF W!CheckOut
  <2>3. v7' \in [VcsRequests -> W!RequestRow]
    BY <1>13, MoveTyped, ReplyTyped DEF W!CheckOut
  <2>4. v12' \in [VcsKeys -> 0..2]
    BY <1>7, <1>13, <2>1, RunTyped DEF W!CheckOut
  <2>5. QED
    BY <1>13, <2>2, <2>3, <2>4 DEF W!CheckOut
<1>14. ASSUME NEW r \in VcsRequests, W!RecordCheckpointRestore(r) PROVE W!TypeOK'
  <2>1. v7[r].key \in VcsKeys /\ v7[r].saved \in v8
    BY <1>14 DEF W!RecordCheckpointRestore, W!StepsTyped
  <2>2. QED
    BY <1>14, <2>1, ReplyTyped DEF W!RecordCheckpointRestore
<1>15. ASSUME NEW at \in {"idle", "capturing", "recording", "running"}, NEW tree \in W!Contents
       PROVE /\ [v10 EXCEPT !.at = at] \in W!TurnRow
             /\ [[v10 EXCEPT !.at = at] EXCEPT !.tree = tree] \in W!TurnRow
             /\ [[v10 EXCEPT !.at = at] EXCEPT !.after = TRUE] \in W!TurnRow
  BY DEF W!TurnRow
<1>16. W!AfterCapture \in W!TurnRow
  BY <1>15, RequestIdle DEF W!AfterCapture
<1>17. CASE W!TurnStarts
  <2>1. [W!Resting EXCEPT !.at = "capturing"] \in W!TurnRow
    BY RequestIdle DEF W!TurnRow
  <2>2. QED
    BY <1>17, <2>1 DEF W!TurnStarts
<1>18. CASE W!CaptureForTurn
  <2>1. v4 # "none" => v1[v4] \in W!Contents
    OBVIOUS
  <2>2. v10' \in W!TurnRow
    <3>1. CASE v10' = W!AfterCapture \/ v10' = W!Resting
      BY <1>16, <3>1, RequestIdle
    <3>2. CASE v4 # "none" /\ v10' = [v10 EXCEPT !.at = "recording", !.tree = v1[v4]]
      <4>1. PICK tree \in W!Contents : tree = v1[v4]
        BY <2>1, <3>2
      <4>2. [[v10 EXCEPT !.at = "recording"] EXCEPT !.tree = tree] \in W!TurnRow
        BY <1>15
      <4>3. v10' = [[v10 EXCEPT !.at = "recording"] EXCEPT !.tree = tree]
        BY <3>2, <4>1
      <4>4. QED
        BY <4>2, <4>3
    <3>3. QED
      BY <1>18, <3>1, <3>2 DEF W!CaptureForTurn
  <2>3. v9' \subseteq v8' /\ v8' \subseteq W!Contents
    BY <1>18, <2>1 DEF W!CaptureForTurn
  <2>4. QED
    BY <1>18, <2>2, <2>3 DEF W!CaptureForTurn
<1>19. CASE W!CreateTurnCheckpoint
  <2>1. v10.tree \in v8
    BY <1>19 DEF W!CreateTurnCheckpoint, W!StepsTyped
  <2>2. QED
    BY <1>19, <1>16, <2>1, RequestIdle DEF W!CreateTurnCheckpoint
<1>20. CASE W!TurnEnds
  BY <1>15, <1>20 DEF W!TurnEnds
<1>21. ASSUME NEW t \in W!Trees, W!Edit(t) PROVE W!TypeOK'
  <2>1. v3 + 1 \in 0..MaxEdits
    BY <1>21, OwnerAssumption DEF W!Edit
  <2>2. QED
    BY <1>21, <2>1 DEF W!Edit
<1>22. CASE W!Restart
  BY <1>22, RequestIdle DEF W!Restart
<1>23. QED
  BY <1>u, <1>1, <1>2, <1>3, <1>4, <1>5, <1>6, <1>8, <1>9, <1>10, <1>11, <1>12, <1>13, <1>14, <1>17, <1>18,
     <1>19, <1>20, <1>21, <1>22 DEF W!Next

(* A request that does not come nearer to Git, whatever it claims. *)
LEMMA KeyIdles ==
  ASSUME W!KeysInv, NEW r \in VcsRequests, v12' = v12,
         \A s \in VcsRequests \ {r} : v7'[s] = v7[s],
         \A k \in VcsKeys : W!OnItsWay(r, k)' => W!OnItsWay(r, k),
         \A k \in VcsKeys : v5'[k] = "none" => v5[k] = "none"
  PROVE  W!FirstClaimRuns' /\ W!EachKeyOnce'
BY DEF W!KeysInv, W!FirstClaimRuns, W!EachKeyOnce, W!OnItsWay

(* The first claim of a key. *)
LEMMA KeyClaimed ==
  ASSUME W!KeysInv, NEW r \in VcsRequests, NEW k \in VcsKeys, v12' = v12, v5[k] = "none", v5'[k] # "none",
         \A s \in VcsRequests \ {r} : v7'[s] = v7[s], v7'[r].key = k,
         \A j \in VcsKeys \ {k} : v5'[j] = v5[j]
  PROVE  W!FirstClaimRuns' /\ W!EachKeyOnce'
BY DEF W!KeysInv, W!FirstClaimRuns, W!EachKeyOnce, W!OnItsWay

(* A request that reaches Git is no longer on its way. *)
LEMMA KeyRuns ==
  ASSUME W!KeysInv, NEW r \in VcsRequests, NEW k \in VcsKeys, W!OnItsWay(r, k), v5' = v5,
         v12' = [v12 EXCEPT ![k] = @ + 1],
         \A s \in VcsRequests \ {r} : v7'[s] = v7[s],
         \A j \in VcsKeys : ~W!OnItsWay(r, j)'
  PROVE  W!FirstClaimRuns' /\ W!EachKeyOnce'
<1>1. v12'[k] = 1 /\ \A j \in VcsKeys \ {k} : v12'[j] = v12[j]
  BY DEF W!KeysInv, W!FirstClaimRuns, W!TypeOK
<1>2. v5[k] # "none"
  BY DEF W!KeysInv, W!FirstClaimRuns
<1>3. W!EachKeyOnce'
  BY <1>1 DEF W!KeysInv, W!EachKeyOnce
<1>4. W!FirstClaimRuns'
  BY <1>1, <1>2 DEF W!KeysInv, W!FirstClaimRuns, W!OnItsWay
<1>5. QED
  BY <1>3, <1>4

(* What the helpers that write `req` leave of a request. *)
LEMMA ReplyFacts ==
  ASSUME W!TypeOK, NEW r \in VcsRequests, W!Reply(r)
  PROVE  v7'[r].at = "idle" /\ \A s \in VcsRequests \ {r} : v7'[s] = v7[s]
BY DEF W!TypeOK, W!Reply, W!Idle

(* Step moves one request and leaves its key and use. *)
LEMMA MoveFacts ==
  ASSUME W!TypeOK, NEW r \in VcsRequests, NEW at, W!Step(r, at)
  PROVE  /\ v7'[r].at = at /\ v7'[r].key = v7[r].key /\ v7'[r].op = v7[r].op
         /\ v7'[r].saved = v7[r].saved
         /\ \A s \in VcsRequests \ {r} : v7'[s] = v7[s]
BY DEF W!TypeOK, W!RequestRow, W!Step

(* Open writes one request. *)
LEMMA OpenFacts ==
  ASSUME W!TypeOK, NEW r \in VcsRequests, NEW at, NEW k, NEW op, NEW path, NEW target,
         W!Open(r, at, k, op, path, target)
  PROVE  /\ v7'[r].at = at /\ v7'[r].key = k /\ v7'[r].op = op
         /\ \A s \in VcsRequests \ {r} : v7'[s] = v7[s]
BY DEF W!TypeOK, W!Open

(* Claim takes one key. *)
LEMMA ClaimFacts ==
  ASSUME W!TypeOK, NEW k \in VcsKeys, NEW op, op # "none", W!Claim(k, op)
  PROVE  v5'[k] # "none" /\ \A j \in VcsKeys \ {k} : v5'[j] = v5[j]
BY DEF W!TypeOK, W!Claim

(* Every step keeps the first claim the only one that runs, and each key run once. *)
LEMMA VcsKept == ASSUME W!KeysInv, [W!Next]_W!vars PROVE W!FirstClaimRuns' /\ W!EachKeyOnce'
<1> DEFINE Goal == W!FirstClaimRuns' /\ W!EachKeyOnce'
<1>a. W!TypeOK /\ W!StepsTyped /\ W!TypeOK'
  BY VcsTyped DEF W!KeysInv
<1>b. ASSUME UNCHANGED <<v5, v7, v12>> PROVE Goal
  BY <1>b DEF W!KeysInv, W!FirstClaimRuns, W!EachKeyOnce, W!OnItsWay
<1>c. ASSUME NEW r \in VcsRequests, W!Reply(r), UNCHANGED <<v5, v12>> PROVE Goal
  <2>1. \A k \in VcsKeys : ~W!OnItsWay(r, k)'
    BY <1>c, <1>a, ReplyFacts DEF W!OnItsWay
  <2>2. QED
    BY <1>c, <1>a, <2>1, ReplyFacts, KeyIdles
<1>d. ASSUME NEW r \in VcsRequests, NEW at \in VcsStages, W!Step(r, at), UNCHANGED <<v5, v12>>,
             at \in {"inserting", "undoing", "deleting"}
      PROVE Goal
  <2>1. \A k \in VcsKeys : ~W!OnItsWay(r, k)'
    BY <1>d, <1>a, MoveFacts DEF W!OnItsWay
  <2>2. QED
    BY <1>d, <1>a, <2>1, MoveFacts, KeyIdles
<1>e. ASSUME NEW r \in VcsRequests, NEW k \in VcsKeys, NEW op, op # "none", W!Claim(k, op), v12' = v12, v7' = v7
      PROVE Goal
  <2>1. \A j \in VcsKeys : v5'[j] = "none" => v5[j] = "none"
    BY <1>e, <1>a, ClaimFacts
  <2>2. QED
    BY <1>e, <2>1, KeyIdles DEF W!OnItsWay
<1>1. ASSUME NEW r \in VcsRequests, NEW k \in VcsKeys, NEW mode \in W!Trees, W!AttachReads(r, k, mode) PROVE Goal
  <2>1. mode # "none"
    BY DEF W!Trees
  <2>2. CASE v7' = v7
    BY <1>1, <1>e, <2>1, <2>2 DEF W!AttachReads
  <2>3. CASE W!New(k) /\ W!Open(r, "making", k, mode, mode, 0)
    BY <1>1, <1>a, <2>1, <2>3, ClaimFacts, OpenFacts, KeyClaimed DEF W!AttachReads, W!New
  <2>4. QED
    BY <1>1, <2>2, <2>3 DEF W!AttachReads
<1>2. ASSUME NEW r \in VcsRequests, NEW k \in VcsKeys, W!DetachReads(r, k) PROVE Goal
  <2>1. CASE v7' = v7
    BY <1>2, <1>e, <2>1 DEF W!DetachReads
  <2>2. CASE v7' # v7
    <3>1. PICK at \in {"removing", "deleting"} : W!Open(r, at, k, "detach", v4, 0)
      BY <1>2, <2>2 DEF W!DetachReads
    <3>2. \A j \in VcsKeys : ~W!OnItsWay(r, j)'
      BY <3>1, <1>a, OpenFacts DEF W!OnItsWay
    <3>3. W!Claim(k, "detach") /\ v12' = v12
      BY <1>2 DEF W!DetachReads
    <3>4. \A j \in VcsKeys : v5'[j] = "none" => v5[j] = "none"
      BY <3>3, <1>a, ClaimFacts
    <3>5. \A s \in VcsRequests \ {r} : v7'[s] = v7[s]
      BY <3>1, <1>a, OpenFacts
    <3>6. QED
      BY <3>2, <3>3, <3>4, <3>5, KeyIdles
  <2>3. QED
    BY <2>1, <2>2
<1>3. ASSUME NEW r \in VcsRequests, NEW k \in VcsKeys,
             W!Commit(r, k) \/ W!CreateBranch(r, k) \/ W!Push(r, k) \/ W!CreatePullRequest(r, k) PROVE Goal
  <2>1. PICK op \in W!Mutations : W!MutationReads(r, k, op)
    BY <1>3 DEF W!Commit, W!CreateBranch, W!Push, W!CreatePullRequest, W!Mutations
  <2>2. \A j \in VcsKeys : ~W!OnItsWay(r, j)'
    BY <2>1, <1>a, OpenFacts DEF W!OnItsWay, W!MutationReads
  <2>3. QED
    BY <2>1, <2>2, <1>a, OpenFacts, KeyIdles DEF W!MutationReads
<1>4. ASSUME NEW r \in VcsRequests, NEW k \in VcsKeys, NEW target \in W!Contents, W!RestoreClaims(r, k, target) PROVE Goal
  <2>1. CASE v7' = v7
    BY <1>4, <1>e, <2>1 DEF W!RestoreClaims
  <2>2. CASE W!New(k) /\ W!Open(r, "checking", k, "restore", "primary", target)
    BY <1>4, <1>a, <2>2, ClaimFacts, OpenFacts, KeyClaimed DEF W!RestoreClaims, W!New
  <2>3. QED
    BY <1>4, <2>1, <2>2 DEF W!RestoreClaims
<1>5. ASSUME NEW r \in VcsRequests,
        \/ W!CreateWorktree(r) \/ W!AttachChatWorkspace(r) \/ W!UndoWorktree(r)
        \/ W!RemoveWorktree(r) \/ W!DetachChatWorkspace(r) \/ W!RecordResult(r)
        \/ W!RecordCheckpointRestore(r)
      PROVE Goal
  <2>1. UNCHANGED <<v5, v12>>
    BY <1>5 DEF W!CreateWorktree, W!AttachChatWorkspace, W!UndoWorktree, W!RemoveWorktree, W!DetachChatWorkspace,
       W!RecordResult, W!RecordCheckpointRestore
  <2>2. W!Reply(r) \/ \E at \in {"inserting", "undoing", "deleting"} : W!Step(r, at)
    BY <1>5 DEF W!CreateWorktree, W!AttachChatWorkspace, W!UndoWorktree, W!RemoveWorktree, W!DetachChatWorkspace,
       W!RecordResult, W!RecordCheckpointRestore
  <2>3. QED
    BY <2>1, <2>2, <1>c, <1>d DEF VcsStages
<1>6. ASSUME NEW r \in VcsRequests, W!MutationClaims(r) PROVE Goal
  <2>1. v7[r].key \in VcsKeys /\ v7[r].op # "none"
    BY <1>6, <1>a DEF W!MutationClaims, W!StepsTyped, W!Mutations
  <2>2. CASE v5' = v5 /\ W!Reply(r)
    BY <1>6, <1>c, <2>2 DEF W!MutationClaims
  <2>3. CASE W!Claim(v7[r].key, v7[r].op) /\ W!New(v7[r].key) /\ W!Step(r, "running")
    BY <1>6, <1>a, <2>1, <2>3, ClaimFacts, MoveFacts, KeyClaimed DEF W!MutationClaims, W!New
  <2>4. CASE W!Claim(v7[r].key, v7[r].op) /\ W!Reply(r)
    <3>1. \A j \in VcsKeys : v5'[j] = "none" => v5[j] = "none"
      BY <2>1, <2>4, <1>a, ClaimFacts
    <3>2. \A k \in VcsKeys : ~W!OnItsWay(r, k)'
      BY <2>4, <1>a, ReplyFacts DEF W!OnItsWay
    <3>3. QED
      BY <1>6, <1>a, <2>4, <3>1, <3>2, ReplyFacts, KeyIdles DEF W!MutationClaims
  <2>5. QED
    BY <1>6, <2>2, <2>3, <2>4 DEF W!MutationClaims
<1>7. ASSUME NEW r \in VcsRequests, v7[r].at \in {"running", "writing"}
      PROVE v7[r].key \in VcsKeys /\ W!OnItsWay(r, v7[r].key)
  BY <1>7, <1>a DEF W!StepsTyped, W!OnItsWay
<1>8. ASSUME NEW r \in VcsRequests,
        W!GitCommit(r) \/ W!GitSwitch(r) \/ W!GitPush(r) \/ W!GhCreate(r) PROVE Goal
  <2>1. v7[r].at = "running" /\ W!Command(r) /\ v5' = v5
    BY <1>8 DEF W!GitCommit, W!GitSwitch, W!GitPush, W!GhCreate, W!Running, W!Local
  <2>2. \A j \in VcsKeys : ~W!OnItsWay(r, j)'
    BY <2>1, <1>a, MoveFacts DEF W!Command, W!OnItsWay
  <2>3. QED
    BY <2>1, <2>2, <1>7, <1>a, MoveFacts, KeyRuns DEF W!Command, W!Run
<1>9. ASSUME NEW r \in VcsRequests, W!GitFails(r) PROVE Goal
  <2>1. v7[r].at = "running" /\ W!Reply(r) /\ v5' = v5
    BY <1>9 DEF W!GitFails, W!Local
  <2>2. \A j \in VcsKeys : ~W!OnItsWay(r, j)'
    BY <2>1, <1>a, ReplyFacts DEF W!OnItsWay
  <2>3. CASE W!Run(r)
    BY <2>1, <2>2, <2>3, <1>7, <1>a, ReplyFacts, KeyRuns DEF W!Run
  <2>4. QED
    BY <1>9, <2>1, <2>3, <1>c DEF W!GitFails
<1>10. ASSUME NEW r \in VcsRequests, W!RestoreChecks(r) \/ W!CaptureSafety(r) PROVE Goal
  <2>1. CASE W!Reply(r)
    BY <1>10, <2>1, <1>c DEF W!RestoreChecks, W!CaptureSafety
  <2>2. CASE ~W!Reply(r)
    <3>1. /\ v7[r].at \in {"checking", "saving"} /\ UNCHANGED <<v5, v12>>
          /\ v7'[r].key = v7[r].key /\ \A s \in VcsRequests \ {r} : v7'[s] = v7[s]
      BY <1>10, <2>2, <1>a DEF W!RestoreChecks, W!CaptureSafety, W!TypeOK, W!RequestRow
    <3>2. QED
      BY <3>1, KeyIdles DEF W!OnItsWay
  <2>3. QED
    BY <2>1, <2>2
<1>11. ASSUME NEW r \in VcsRequests, W!CheckOut(r) PROVE Goal
  <2>1. CASE W!Run(r) /\ W!Step(r, "auditing")
    <3>1. \A j \in VcsKeys : ~W!OnItsWay(r, j)'
      BY <2>1, <1>a, MoveFacts DEF W!OnItsWay
    <3>2. QED
      BY <1>11, <2>1, <3>1, <1>7, <1>a, MoveFacts, KeyRuns DEF W!CheckOut, W!Run
  <2>2. CASE W!Reply(r) /\ v12' = v12
    BY <1>11, <2>2, <1>c DEF W!CheckOut
  <2>3. QED
    BY <1>11, <2>1, <2>2 DEF W!CheckOut
<1>12. CASE W!TurnStarts \/ W!CaptureForTurn \/ W!CreateTurnCheckpoint \/ W!TurnEnds \/ \E t \in W!Trees : W!Edit(t)
  BY <1>12, <1>b DEF W!TurnStarts, W!CaptureForTurn, W!CreateTurnCheckpoint, W!TurnEnds, W!Edit
<1>13. CASE W!Restart
  <2>1. UNCHANGED <<v5, v12>> /\ \A r \in VcsRequests : v7'[r].at = "idle"
    BY <1>13 DEF W!Restart, W!Idle
  <2>2. QED
    BY <2>1 DEF W!KeysInv, W!FirstClaimRuns, W!EachKeyOnce, W!OnItsWay
<1>14. CASE UNCHANGED W!vars
  BY <1>14, <1>b DEF W!vars
<1>15. QED
  BY <1>1, <1>2, <1>3, <1>4, <1>5, <1>6, <1>8, <1>9, <1>10, <1>11, <1>12, <1>13, <1>14 DEF W!Next

(* Only these steps touch what the turn holds or what refs keep. *)
LEMMA MarksKept ==
  ASSUME W!Next
  PROVE  \/ v8' = v8 /\ v10' = v10
         \/ (\E r \in VcsRequests : W!CaptureSafety(r)) /\ v10' = v10
         \/ W!CaptureForTurn
         \/ (W!TurnStarts \/ W!CreateTurnCheckpoint \/ W!TurnEnds \/ W!Restart) /\ v8' = v8
<1> USE DEF W!marks
<1>1. ASSUME NEW r \in VcsRequests, NEW k \in VcsKeys,
        \/ \E mode \in W!Trees : W!AttachReads(r, k, mode)
        \/ W!DetachReads(r, k)
        \/ \E target \in W!Contents : W!RestoreClaims(r, k, target)
      PROVE v8' = v8 /\ v10' = v10
  BY <1>1 DEF W!AttachReads, W!DetachReads, W!RestoreClaims
<1>2. ASSUME NEW r \in VcsRequests, NEW k \in VcsKeys,
        W!Commit(r, k) \/ W!CreateBranch(r, k) \/ W!Push(r, k) \/ W!CreatePullRequest(r, k)
      PROVE v8' = v8 /\ v10' = v10
  BY <1>2 DEF W!Commit, W!CreateBranch, W!Push, W!CreatePullRequest, W!MutationReads
<1>3. ASSUME NEW r \in VcsRequests,
        \/ W!CreateWorktree(r) \/ W!AttachChatWorkspace(r) \/ W!UndoWorktree(r)
        \/ W!RemoveWorktree(r) \/ W!DetachChatWorkspace(r) \/ W!MutationClaims(r)
      PROVE v8' = v8 /\ v10' = v10
  BY <1>3 DEF W!CreateWorktree, W!AttachChatWorkspace, W!UndoWorktree, W!RemoveWorktree,
     W!DetachChatWorkspace, W!MutationClaims
<1>4. ASSUME NEW r \in VcsRequests,
        W!GitCommit(r) \/ W!GitSwitch(r) \/ W!GitPush(r) \/ W!GhCreate(r) \/ W!GitFails(r)
      PROVE v8' = v8 /\ v10' = v10
  BY <1>4 DEF W!GitCommit, W!GitSwitch, W!GitPush, W!GhCreate, W!GitFails, W!Local
<1>5. ASSUME NEW r \in VcsRequests,
        W!RecordResult(r) \/ W!RestoreChecks(r) \/ W!CheckOut(r) \/ W!RecordCheckpointRestore(r)
      PROVE v8' = v8 /\ v10' = v10
  BY <1>5 DEF W!RecordResult, W!RestoreChecks, W!CheckOut, W!RecordCheckpointRestore
<1>6. ASSUME NEW r \in VcsRequests, W!CaptureSafety(r) PROVE v10' = v10
  BY <1>6 DEF W!CaptureSafety
<1>7. ASSUME W!TurnStarts \/ W!CreateTurnCheckpoint \/ W!TurnEnds \/ W!Restart PROVE v8' = v8
  BY <1>7 DEF W!TurnStarts, W!CreateTurnCheckpoint, W!TurnEnds, W!Restart
<1>8. ASSUME NEW t \in W!Trees, W!Edit(t) PROVE v8' = v8 /\ v10' = v10
  BY <1>8 DEF W!Edit
<1>9. QED
  BY <1>1, <1>2, <1>3, <1>4, <1>5, <1>6, <1>7, <1>8 DEF W!Next

(* What each request carries along fits its step after every step. *)
LEMMA VcsSteps == ASSUME W!KeysInv, [W!Next]_W!vars PROVE W!StepsTyped'
<1> DEFINE Carries(r) == /\ v7[r].at # "idle" => v7[r].key \in VcsKeys
                         /\ v7[r].at = "allowed" => v7[r].op \in W!Mutations
                         /\ v7[r].at \in {"writing", "auditing"} => v7[r].saved \in v8
           TurnCarries == v10.at = "recording" => v10.tree \in v8
<1>a. W!TypeOK /\ W!StepsTyped /\ W!TypeOK' /\ \A r \in VcsRequests : Carries(r)
  BY VcsTyped DEF W!KeysInv, W!StepsTyped
<1>b. v8 \subseteq v8'
  BY MarksKept DEF W!CaptureSafety, W!CaptureForTurn, W!CreateTurnCheckpoint, W!vars
<1>c. ASSUME NEW r \in VcsRequests, W!Reply(r) PROVE \A s \in VcsRequests : Carries(s)'
  <2>1. v7'[r].at = "idle" /\ \A s \in VcsRequests \ {r} : v7'[s] = v7[s]
    BY <1>c, <1>a, ReplyFacts
  <2>2. QED
    BY <1>a, <1>b, <2>1
<1>d. ASSUME NEW r \in VcsRequests, NEW at, W!Step(r, at), v7[r].at # "idle", at # "allowed",
             at \in {"writing", "auditing"} => v7[r].at = "writing"
      PROVE \A s \in VcsRequests : Carries(s)'
  <2>1. /\ v7'[r].at = at /\ v7'[r].key = v7[r].key /\ v7'[r].saved = v7[r].saved
        /\ \A s \in VcsRequests \ {r} : v7'[s] = v7[s]
    BY <1>d, <1>a, MoveFacts
  <2>2. QED
    BY <1>a, <1>b, <1>d, <2>1
<1>e. ASSUME NEW r \in VcsRequests, NEW at, NEW k \in VcsKeys, NEW op, NEW path, NEW target,
             W!Open(r, at, k, op, path, target), at = "allowed" => op \in W!Mutations,
             at \notin {"writing", "auditing"}
      PROVE \A s \in VcsRequests : Carries(s)'
  <2>1. /\ v7'[r].at = at /\ v7'[r].key = k /\ v7'[r].op = op
        /\ \A s \in VcsRequests \ {r} : v7'[s] = v7[s]
    BY <1>e, <1>a, OpenFacts
  <2>2. QED
    BY <1>a, <1>b, <1>e, <2>1
<1>f. ASSUME v7' = v7 PROVE \A s \in VcsRequests : Carries(s)'
  BY <1>a, <1>b, <1>f
<1>1. ASSUME W!Next PROVE \A s \in VcsRequests : Carries(s)'
  <2>1. ASSUME NEW r \in VcsRequests, NEW k \in VcsKeys, NEW mode \in W!Trees, W!AttachReads(r, k, mode)
        PROVE \A s \in VcsRequests : Carries(s)'
    BY <2>1, <1>e, <1>f DEF W!AttachReads
  <2>2. ASSUME NEW r \in VcsRequests, NEW k \in VcsKeys, W!DetachReads(r, k)
        PROVE \A s \in VcsRequests : Carries(s)'
    <3>1. (v7' = v7) \/ \E at \in {"removing", "deleting"} : W!Open(r, at, k, "detach", v4, 0)
      BY <2>2 DEF W!DetachReads
    <3>2. QED
      BY <3>1, <1>e, <1>f
  <2>3. ASSUME NEW r \in VcsRequests, NEW k \in VcsKeys,
               W!Commit(r, k) \/ W!CreateBranch(r, k) \/ W!Push(r, k) \/ W!CreatePullRequest(r, k)
        PROVE \A s \in VcsRequests : Carries(s)'
    <3>1. PICK op \in W!Mutations : W!MutationReads(r, k, op)
      BY <2>3 DEF W!Commit, W!CreateBranch, W!Push, W!CreatePullRequest, W!Mutations
    <3>2. W!Open(r, "allowed", k, op, v4, 0)
      BY <3>1 DEF W!MutationReads
    <3>3. QED
      BY <3>2, <1>e
  <2>4. ASSUME NEW r \in VcsRequests, NEW k \in VcsKeys, NEW target \in W!Contents, W!RestoreClaims(r, k, target)
        PROVE \A s \in VcsRequests : Carries(s)'
    BY <2>4, <1>e, <1>f DEF W!RestoreClaims
  <2>5. ASSUME NEW r \in VcsRequests, W!CreateWorktree(r) \/ W!AttachChatWorkspace(r) \/ W!RemoveWorktree(r)
        PROVE \A s \in VcsRequests : Carries(s)'
    BY <2>5, <1>c, <1>d DEF W!CreateWorktree, W!AttachChatWorkspace, W!RemoveWorktree
  <2>6. ASSUME NEW r \in VcsRequests,
          W!UndoWorktree(r) \/ W!DetachChatWorkspace(r) \/ W!GitFails(r) \/ W!RecordResult(r)
          \/ W!RecordCheckpointRestore(r)
        PROVE \A s \in VcsRequests : Carries(s)'
    BY <2>6, <1>c DEF W!UndoWorktree, W!DetachChatWorkspace, W!GitFails, W!RecordResult, W!RecordCheckpointRestore
  <2>7. ASSUME NEW r \in VcsRequests, W!MutationClaims(r) PROVE \A s \in VcsRequests : Carries(s)'
    BY <2>7, <1>c, <1>d DEF W!MutationClaims
  <2>8. ASSUME NEW r \in VcsRequests, W!GitCommit(r) \/ W!GitSwitch(r) \/ W!GitPush(r) \/ W!GhCreate(r)
        PROVE \A s \in VcsRequests : Carries(s)'
    <3>1. v7[r].at = "running" /\ W!Step(r, "recording")
      BY <2>8 DEF W!GitCommit, W!GitSwitch, W!GitPush, W!GhCreate, W!Running, W!Command
    <3>2. QED
      BY <3>1, <1>d
  <2>9. ASSUME NEW r \in VcsRequests, W!RestoreChecks(r) PROVE \A s \in VcsRequests : Carries(s)'
    <3>1. CASE W!Reply(r)
      BY <3>1, <1>c
    <3>2. CASE ~W!Reply(r)
      <4>1. /\ v7[r].at = "checking" /\ v7'[r].at = "saving" /\ v7'[r].key = v7[r].key
            /\ \A s \in VcsRequests \ {r} : v7'[s] = v7[s]
        BY <2>9, <3>2, <1>a DEF W!RestoreChecks, W!TypeOK, W!RequestRow
      <4>2. QED
        BY <4>1, <1>a, <1>b
    <3>3. QED
      BY <3>1, <3>2
  <2>10. ASSUME NEW r \in VcsRequests, W!CaptureSafety(r) PROVE \A s \in VcsRequests : Carries(s)'
    <3>1. CASE W!Reply(r)
      BY <3>1, <1>c
    <3>2. CASE ~W!Reply(r)
      <4>1. /\ v7[r].at = "saving" /\ v8' = v8 \cup {v1[v7[r].path]}
            /\ v7' = [v7 EXCEPT ![r].at = "writing", ![r].saved = v1[v7[r].path]]
        BY <2>10, <3>2 DEF W!CaptureSafety
      <4>2. /\ v7'[r].at = "writing" /\ v7'[r].key = v7[r].key /\ v7'[r].saved = v1[v7[r].path]
            /\ \A s \in VcsRequests \ {r} : v7'[s] = v7[s]
        BY <4>1, <1>a DEF W!TypeOK, W!RequestRow
      <4>3. Carries(r)'
        BY <4>1, <4>2, <1>a
      <4>4. ASSUME NEW s \in VcsRequests \ {r} PROVE Carries(s)'
        BY <4>2, <4>4, <1>a, <1>b
      <4>5. QED
        BY <4>3, <4>4
    <3>3. QED
      BY <3>1, <3>2
  <2>11. ASSUME NEW r \in VcsRequests, W!CheckOut(r) PROVE \A s \in VcsRequests : Carries(s)'
    BY <2>11, <1>c, <1>d DEF W!CheckOut
  <2>12. CASE W!TurnStarts \/ W!CaptureForTurn \/ W!CreateTurnCheckpoint \/ W!TurnEnds \/ \E t \in W!Trees : W!Edit(t)
    BY <2>12, <1>f DEF W!TurnStarts, W!CaptureForTurn, W!CreateTurnCheckpoint, W!TurnEnds, W!Edit
  <2>13. CASE W!Restart
    BY <2>13 DEF W!Restart, W!Idle
  <2>14. QED
    BY <1>1, <2>1, <2>2, <2>3, <2>4, <2>5, <2>6, <2>7, <2>8, <2>9, <2>10, <2>11, <2>12, <2>13 DEF W!Next
<1>2. ASSUME NEW at \in {"idle", "capturing", "recording", "running"}, NEW tree
      PROVE [v10 EXCEPT !.at = at].at = at /\ [v10 EXCEPT !.at = at, !.tree = tree].tree = tree
  BY <1>a DEF W!TypeOK, W!TurnRow
<1>3. W!AfterCapture.at # "recording" /\ W!Resting.at # "recording"
  BY <1>2 DEF W!AfterCapture, W!Resting
<1>4. ASSUME W!Next, v10' # v10 PROVE TurnCarries'
  <2>1. W!TurnStarts \/ W!CaptureForTurn \/ W!CreateTurnCheckpoint \/ W!TurnEnds \/ W!Restart
    BY <1>4, MarksKept
  <2>2. CASE W!CaptureForTurn
    <3>1. ASSUME NEW t PROVE [v10 EXCEPT !.at = "recording", !.tree = t].tree = t
      BY <1>2
    <3>2. QED
      BY <2>2, <3>1, <1>3 DEF W!CaptureForTurn
  <2>3. CASE W!TurnStarts
    BY <2>3 DEF W!TurnStarts, W!Resting
  <2>4. CASE W!CreateTurnCheckpoint \/ W!Restart
    BY <2>4, <1>3 DEF W!CreateTurnCheckpoint, W!Restart
  <2>5. CASE W!TurnEnds
    <3>1. v10'.at = "capturing"
      BY <2>5, <1>a DEF W!TurnEnds, W!TypeOK, W!TurnRow
    <3>2. QED
      BY <3>1
  <2>6. QED
    BY <2>1, <2>2, <2>3, <2>4, <2>5
<1>5. TurnCarries'
  BY <1>4, <1>a, <1>b DEF W!StepsTyped, W!vars
<1>6. \A s \in VcsRequests : Carries(s)'
  BY <1>1, <1>f DEF W!vars
<1>7. QED
  BY <1>5, <1>6 DEF W!StepsTyped

(* The invariant of the keys holds at first. *)
LEMMA VcsInit == W!Init => W!KeysInv
<1> SUFFICES ASSUME W!Init PROVE W!KeysInv
  OBVIOUS
<1>1. W!TypeOK
  <2>1. v1 \in [W!Trees -> W!Contents] /\ v2 \in [W!Trees -> {W!Torn} \cup 0..MaxEdits]
    BY TreeFacts, OwnerAssumption DEF W!Init
  <2>2. v5 \in [VcsKeys -> W!Uses] /\ v12 \in [VcsKeys -> 0..2] /\ v7 \in [VcsRequests -> W!RequestRow]
    BY TreeFacts, RequestIdle DEF W!Init
  <2>3. v3 \in 0..MaxEdits /\ v10 \in W!TurnRow /\ v4 \in W!Trees \cup {"none"}
    BY RequestIdle, OwnerAssumption DEF W!Init
  <2>4. v6 \subseteq VcsKeys /\ v9 \subseteq v8 /\ v8 \subseteq W!Contents /\ v11 \in BOOLEAN /\ v13 \in BOOLEAN
    BY DEF W!Init
  <2>5. QED
    BY <2>1, <2>2, <2>3, <2>4 DEF W!TypeOK
<1>2. W!StepsTyped /\ W!FirstClaimRuns /\ W!EachKeyOnce
  BY DEF W!Init, W!StepsTyped, W!FirstClaimRuns, W!EachKeyOnce, W!OnItsWay, W!Idle, W!Resting
<1>3. QED
  BY <1>1, <1>2 DEF W!KeysInv

(* Every step keeps the invariant of the keys. *)
LEMMA VcsStep == W!KeysInv /\ [W!Next]_W!vars => W!KeysInv'
BY VcsTyped, VcsSteps, VcsKept DEF W!KeysInv

(* EachKeyOnce of the module alone. *)
THEOREM VcsRunsOnce == W!Spec => []W!EachKeyOnce
<1>1. W!KeysInv => W!EachKeyOnce
  BY DEF W!KeysInv
<1>2. QED
  BY <1>1, VcsInit, VcsStep, PTL DEF W!Spec

(* The invariant of a behaviour of Workspaces in the composition. *)
KeysInvHere == component = "workspaces" => W!KeysInv

(* However often a client repeats a key, at once or after a failure or a restart, *)
(* its mutation of the repository runs at most once, for every number of keys,    *)
(* requests and edits (claim_mutation, source_control.rs).                        *)
THEOREM EachKeyOnceAlways == OwnerSpec => []EachKeyOnce
<1>1. OwnerInit => KeysInvHere
  BY VcsInit DEF OwnerInit, KeysInvHere
<1>2. KeysInvHere /\ [OwnerNext]_all => KeysInvHere'
  <2> SUFFICES ASSUME KeysInvHere, [OwnerNext]_all, component' = "workspaces" PROVE W!KeysInv'
    BY DEF KeysInvHere
  <2>1. component = "workspaces" /\ [W!Next]_W!vars
    BY DEF OwnerNext, all, W!vars
  <2>2. QED
    BY <2>1, VcsStep DEF KeysInvHere
<1>3. KeysInvHere => EachKeyOnce
  BY DEF KeysInvHere, EachKeyOnce, W!KeysInv
<1>4. QED
  BY <1>1, <1>2, <1>3, PTL DEF OwnerSpec

-----------------------------------------------------------------------------
(* Devices. Slots: v1 now, v2 offer, v3 tries, v4 session, v5 call, v6 socket, v7 *)
(* handling, v8 claims, v9 operation, v10 cancel, v11 accepted, v12 ended, v13    *)
(* crashed.                                                                       *)

(* The quiet loop, a new session and each step of a command have their types. *)
LEMMA DeviceNames ==
  /\ D!Quiet \in D!HandlingRow /\ D!Quiet.at = "idle" /\ D!Quiet.key = None
  /\ D!NewSession \in D!SessionRow
  /\ \A at \in {"claimed", "registered", "replayed"}, k \in CommandKeys : [at |-> at, key |-> k] \in D!HandlingRow
  /\ 0 \in 0..MaxCommandCopies /\ 0 \in 0..PairingAttempts /\ 0 \in 0..MaxInstants
<1>1. D!NewSession \in D!SessionRow
  BY DEF D!NewSession, D!SessionRow
<1>2. QED
  BY <1>1, OwnerAssumption DEF D!Quiet, D!HandlingRow

(* A consumed offer and a failed proof keep the offers' type. *)
LEMMA OfferMoves ==
  ASSUME NEW r \in D!OfferRow
  PROVE  /\ [r EXCEPT !.consumed = TRUE] \in D!OfferRow
         /\ r.failed < PairingAttempts => [r EXCEPT !.failed = r.failed + 1] \in D!OfferRow
<1>1. [r EXCEPT !.consumed = TRUE] \in D!OfferRow
  BY DEF D!OfferRow
<1>2. ASSUME r.failed < PairingAttempts PROVE [r EXCEPT !.failed = r.failed + 1] \in D!OfferRow
  <2>1. r.failed \in 0..PairingAttempts
    BY DEF D!OfferRow
  <2>2. r.failed + 1 \in 0..PairingAttempts
    BY <1>2, <2>1, OwnerAssumption
  <2> DEFINE n == r.failed + 1
  <2>3. n \in 0..PairingAttempts
    BY <2>2
  <2> HIDE DEF n
  <2>4. [r EXCEPT !.failed = n] \in D!OfferRow
    BY <2>3 DEF D!OfferRow
  <2>5. QED
    BY <2>4 DEF n
<1>3. QED
  BY <1>1, <1>2

(* A new offer has its type, with its expiry a lifetime ahead. *)
LEMMA OfferMade ==
  ASSUME NEW t \in 0..MaxInstants
  PROVE  D!NewOffer \in D!OfferRow
         /\ [[D!NewOffer EXCEPT !.made = TRUE] EXCEPT !.expires = t + PairingLifetime] \in D!OfferRow
<1>1. t + PairingLifetime \in 0..(MaxInstants + PairingLifetime) /\ 0 \in 0..(MaxInstants + PairingLifetime)
  BY OwnerAssumption
<1>2. 0 \in 0..PairingAttempts
  BY OwnerAssumption
<1>3. QED
  BY <1>1, <1>2 DEF D!NewOffer, D!OfferRow

(* Pairing, sessions and sockets keep the types and touch no command. *)
LEMMA PairingTyped ==
  ASSUME D!TypeOK,
         \/ \E o \in PairingOffers : \/ D!CreatePairing(o) \/ D!ExchangeElsewhere(o)
                                     \/ \E d \in DeviceSessions : D!Exchange(o, d)
         \/ D!ExchangeUnknown \/ D!ForgetAttempts \/ D!Tick
         \/ \E d \in DeviceSessions : \/ D!RevokeDevice(d) \/ D!RevokeCurrentDevice(d) \/ D!Authenticate(d)
                                      \/ D!Respond(d) \/ D!EventsSocket(d) \/ D!InitialSync(d)
                                      \/ D!Heartbeat(d) \/ D!Disconnect(d)
  PROVE  D!TypeOK' /\ UNCHANGED <<v7, v8, v9, v10, v11, v12, v13>>
<1> USE DEF D!pairing, D!transport, D!commands
<1>0. /\ v1 \in 0..MaxInstants /\ v2 \in [PairingOffers -> D!OfferRow] /\ v3 \in 0..PairingAttempts
      /\ v4 \in [DeviceSessions -> D!SessionRow]
      /\ v5 \in [DeviceSessions -> BOOLEAN] /\ v6 \in [DeviceSessions -> {"none", "syncing", "open"}]
  BY DEF D!TypeOK
<1>1. ASSUME NEW o \in PairingOffers, D!CreatePairing(o)
      PROVE  D!TypeOK' /\ UNCHANGED <<v7, v8, v9, v10, v11, v12, v13>>
  <2>1. v2' = [v2 EXCEPT ![o] = [[D!NewOffer EXCEPT !.made = TRUE] EXCEPT !.expires = v1 + PairingLifetime]]
    BY <1>1 DEF D!CreatePairing
  <2>2. v2' \in [PairingOffers -> D!OfferRow]
    BY <1>0, <2>1, OfferMade
  <2>3. QED
    BY <1>1, <2>2 DEF D!CreatePairing, D!TypeOK
<1>2. ASSUME NEW o \in PairingOffers, D!ExchangeElsewhere(o)
      PROVE  D!TypeOK' /\ UNCHANGED <<v7, v8, v9, v10, v11, v12, v13>>
  <2>1. v2' = [v2 EXCEPT ![o] = [v2[o] EXCEPT !.failed = v2[o].failed + 1]] /\ v2[o].failed < PairingAttempts
    BY <1>0, <1>2 DEF D!ExchangeElsewhere, D!Exchangeable
  <2>2. v2' \in [PairingOffers -> D!OfferRow]
    BY <1>0, <2>1, OfferMoves
  <2>3. QED
    BY <1>2, <2>2 DEF D!ExchangeElsewhere, D!TypeOK
<1>3. ASSUME NEW o \in PairingOffers, NEW d \in DeviceSessions, D!Exchange(o, d)
      PROVE  D!TypeOK' /\ UNCHANGED <<v7, v8, v9, v10, v11, v12, v13>>
  <2>1. v2' = [v2 EXCEPT ![o] = [v2[o] EXCEPT !.consumed = TRUE]] /\ v4' = [v4 EXCEPT ![d] = [v4[d] EXCEPT !.of = o]]
    BY <1>0, <1>3 DEF D!Exchange
  <2>2. v2' \in [PairingOffers -> D!OfferRow]
    BY <1>0, <2>1, OfferMoves
  <2>3. v4[d] \in D!SessionRow
    BY <1>0
  <2>4. [v4[d] EXCEPT !.of = o] \in D!SessionRow
    BY <2>3 DEF D!SessionRow
  <2>5. v4' \in [DeviceSessions -> D!SessionRow]
    BY <1>0, <2>1, <2>4
  <2>6. QED
    BY <1>3, <2>2, <2>5 DEF D!Exchange, D!TypeOK
<1>4. CASE D!ExchangeUnknown
  <2>1. v3' \in 0..PairingAttempts
    BY <1>0, <1>4, OwnerAssumption DEF D!ExchangeUnknown
  <2>2. QED
    BY <1>4, <2>1 DEF D!ExchangeUnknown, D!TypeOK
<1>5. CASE D!ForgetAttempts
  BY <1>5, DeviceNames DEF D!ForgetAttempts, D!TypeOK
<1>6. CASE D!Tick
  <2>1. v1' \in 0..MaxInstants
    BY <1>0, <1>6, OwnerAssumption DEF D!Tick
  <2>2. QED
    BY <1>6, <2>1 DEF D!Tick, D!TypeOK
<1>7. ASSUME NEW d \in DeviceSessions, D!RevokeDevice(d) \/ D!RevokeCurrentDevice(d)
      PROVE  D!TypeOK' /\ UNCHANGED <<v7, v8, v9, v10, v11, v12, v13>>
  <2>1. v4' = [v4 EXCEPT ![d] = [v4[d] EXCEPT !.revoked = TRUE]] /\ v5' \in {v5, [v5 EXCEPT ![d] = FALSE]}
    BY <1>0, <1>7 DEF D!RevokeDevice, D!RevokeCurrentDevice
  <2>2. v4[d] \in D!SessionRow
    BY <1>0
  <2>3. [v4[d] EXCEPT !.revoked = TRUE] \in D!SessionRow
    BY <2>2 DEF D!SessionRow
  <2>4. v4' \in [DeviceSessions -> D!SessionRow] /\ v5' \in [DeviceSessions -> BOOLEAN]
    BY <1>0, <2>1, <2>3
  <2>5. QED
    BY <1>7, <2>4 DEF D!RevokeDevice, D!RevokeCurrentDevice, D!TypeOK
<1>8. ASSUME NEW d \in DeviceSessions, D!Authenticate(d) \/ D!Respond(d)
      PROVE  D!TypeOK' /\ UNCHANGED <<v7, v8, v9, v10, v11, v12, v13>>
  <2>1. v5' \in [DeviceSessions -> BOOLEAN]
    BY <1>0, <1>8 DEF D!Authenticate, D!Respond
  <2>2. QED
    BY <1>8, <2>1 DEF D!Authenticate, D!Respond, D!TypeOK
<1>9. ASSUME NEW d \in DeviceSessions, D!EventsSocket(d) \/ D!InitialSync(d) \/ D!Heartbeat(d) \/ D!Disconnect(d)
      PROVE  D!TypeOK' /\ UNCHANGED <<v7, v8, v9, v10, v11, v12, v13>>
  <2>1. v5' \in [DeviceSessions -> BOOLEAN]
    BY <1>0, <1>9 DEF D!EventsSocket, D!InitialSync, D!Heartbeat, D!Disconnect
  <2>2. v6' \in [DeviceSessions -> {"none", "syncing", "open"}]
    BY <1>0, <1>9 DEF D!EventsSocket, D!InitialSync, D!Heartbeat, D!Disconnect
  <2>3. QED
    BY <1>9, <2>1, <2>2 DEF D!EventsSocket, D!InitialSync, D!Heartbeat, D!Disconnect, D!TypeOK
<1>10. QED
  BY <1>1, <1>2, <1>3, <1>4, <1>5, <1>6, <1>7, <1>8, <1>9

(* One socket's loop moves and the others stay. *)
LEMMA HandlingMoves ==
  ASSUME D!TypeOK, NEW d \in DeviceSessions, NEW r \in D!HandlingRow, v7' = [v7 EXCEPT ![d] = r]
  PROVE  /\ v7' \in [DeviceSessions -> D!HandlingRow] /\ v7'[d] = r
         /\ \A e \in DeviceSessions \ {d} : v7'[e] = v7[e]
BY DEF D!TypeOK

(* The invariant of the commands holds at first. *)
LEMMA DevicesInit == D!Init => D!EndsInv
<1> SUFFICES ASSUME D!Init PROVE D!EndsInv
  OBVIOUS
<1>1. D!NewOffer \in D!OfferRow
  BY OfferMade, DeviceNames
<1>2. D!TypeOK
  BY <1>1, DeviceNames, OwnerAssumption DEF D!Init, D!TypeOK
<1>3. \A d \in DeviceSessions : ~D!Carries(d) /\ D!HandlingAgrees(d)
  BY DeviceNames DEF D!Init, D!Carries, D!HandlingAgrees
<1>4. \A k \in CommandKeys : D!KeyAgrees(k)
  BY DEF D!Init, D!KeyAgrees
<1>5. QED
  BY <1>2, <1>3, <1>4 DEF D!EndsInv

(* Every step keeps the invariant of the commands. *)
LEMMA DevicesStep == D!EndsInv /\ [D!Next]_D!vars => D!EndsInv'
<1> SUFFICES ASSUME D!EndsInv, [D!Next]_D!vars PROVE D!EndsInv'
  OBVIOUS
<1> USE DEF D!pairing, D!transport, D!commands
<1>0. /\ D!TypeOK /\ v7 \in [DeviceSessions -> D!HandlingRow] /\ v8 \subseteq CommandKeys
      /\ v9 \in [CommandKeys -> {"none", "registered", "running", "cancelling", "completing", "removing"}]
      /\ v10 \subseteq CommandKeys
      /\ v11 \in [CommandKeys -> 0..MaxCommandCopies] /\ v12 \in [CommandKeys -> 0..MaxCommandCopies]
      /\ \A d \in DeviceSessions : D!HandlingAgrees(d) /\ v7[d] \in D!HandlingRow
      /\ \A k \in CommandKeys : D!KeyAgrees(k)
      /\ \A d, e \in DeviceSessions : D!Carries(d) /\ D!Carries(e) /\ v7[d].key = v7[e].key => d = e
  BY DEF D!EndsInv, D!TypeOK
(* A step that leaves the commands alone. *)
<1>1. ASSUME D!TypeOK', UNCHANGED <<v7, v8, v9, v11, v12>> PROVE D!EndsInv'
  BY <1>0, <1>1 DEF D!EndsInv, D!Carries, D!HandlingAgrees, D!KeyAgrees
(* A step of one key's operation once it runs. *)
<1>2. ASSUME NEW k \in CommandKeys, D!TypeOK', UNCHANGED <<v7, v8, v11>>, v9[k] \notin {"none", "registered"},
             D!KeyAgrees(k)', \A j \in CommandKeys \ {k} : v9'[j] = v9[j] /\ v12'[j] = v12[j]
      PROVE  D!EndsInv'
  <2>1. \A j \in CommandKeys : D!KeyAgrees(j)'
    BY <1>0, <1>2 DEF D!KeyAgrees
  <2>2. ASSUME NEW d \in DeviceSessions PROVE D!HandlingAgrees(d)'
    <3>1. D!HandlingAgrees(d) /\ v7'[d] = v7[d]
      BY <1>0, <1>2
    <3>2. v7[d].at # "idle" => v7[d].key \in CommandKeys
      BY <1>0, <3>1 DEF D!HandlingAgrees
    <3>3. QED
      BY <1>2, <3>1, <3>2 DEF D!HandlingAgrees, D!Carries
  <2>3. QED
    BY <1>0, <1>2, <2>1, <2>2 DEF D!EndsInv, D!Carries
(* A socket's loop moves on from its command; others keep theirs. *)
<1>3. ASSUME NEW d \in DeviceSessions, NEW k \in CommandKeys, NEW r \in D!HandlingRow, v7' = [v7 EXCEPT ![d] = r],
             D!TypeOK', v8 \subseteq v8', D!KeyAgrees(k)',
             \A j \in CommandKeys \ {k} : v9'[j] = v9[j] /\ v11'[j] = v11[j] /\ v12'[j] = v12[j] /\ (j \in v8' <=> j \in v8),
             r.at # "idle" => r.key = k /\ k \in v8',
             r.at \in {"claimed", "registered"} => v9'[k] \in {"none", "registered"} /\ v12'[k] = 0,
             \/ v9'[k] = v9[k] /\ v12'[k] = v12[k]
             \/ \A e \in DeviceSessions \ {d} : ~(D!Carries(e) /\ v7[e].key = k),
             r.at \in {"claimed", "registered"} =>
               \A e \in DeviceSessions \ {d} : ~(D!Carries(e) /\ v7[e].key = k)
      PROVE  D!EndsInv'
  <2>1. v7'[d] = r /\ \A e \in DeviceSessions \ {d} : v7'[e] = v7[e]
    BY <1>0, <1>3, HandlingMoves
  <2>2. \A j \in CommandKeys : D!KeyAgrees(j)'
    BY <1>0, <1>3 DEF D!KeyAgrees
  <2>3. D!HandlingAgrees(d)'
    BY <1>3, <2>1 DEF D!HandlingAgrees, D!Carries
  <2>4. ASSUME NEW e \in DeviceSessions \ {d} PROVE D!HandlingAgrees(e)'
    <3>1. D!HandlingAgrees(e) /\ v7'[e] = v7[e]
      BY <1>0, <2>1
    <3>2. v7[e].at # "idle" => v7[e].key \in CommandKeys
      BY <1>0, <3>1 DEF D!HandlingAgrees
    <3>3. CASE v7[e].key = k
      BY <1>3, <3>1, <3>3 DEF D!HandlingAgrees, D!Carries
    <3>4. CASE v7[e].key # k
      BY <1>3, <3>1, <3>2, <3>4 DEF D!HandlingAgrees, D!Carries
    <3>5. QED
      BY <3>3, <3>4
  <2>5. \A e \in DeviceSessions : D!HandlingAgrees(e)'
    BY <2>3, <2>4
  <2>6. ASSUME NEW e \in DeviceSessions, NEW f \in DeviceSessions,
               (D!Carries(e) /\ D!Carries(f) /\ v7[e].key = v7[f].key)'
        PROVE  e = f
    <3>1. CASE e # d /\ f # d
      BY <1>0, <2>1, <2>6, <3>1 DEF D!Carries
    <3>2. CASE e = d /\ f # d
      BY <1>3, <2>1, <2>6, <3>2 DEF D!Carries
    <3>3. CASE f = d /\ e # d
      BY <1>3, <2>1, <2>6, <3>3 DEF D!Carries
    <3>4. QED
      BY <3>1, <3>2, <3>3
  <2>7. QED
    BY <1>3, <2>2, <2>5, <2>6 DEF D!EndsInv
<1>4. ASSUME NEW d \in DeviceSessions, NEW k \in CommandKeys, D!Command(d, k) PROVE D!EndsInv'
  <2>1. PICK at \in {"claimed", "replayed"} :
           /\ v7' = [v7 EXCEPT ![d] = [at |-> at, key |-> k]] /\ v8' = v8 \cup {k}
           /\ (at = "claimed") => k \notin v8
    BY <1>4 DEF D!Command, D!Busy
  <2>2. UNCHANGED <<v1, v2, v3, v4, v5, v6, v9, v10, v11, v12, v13>>
    BY <1>4 DEF D!Command
  <2> DEFINE r == [at |-> at, key |-> k]
  <2>3. r \in D!HandlingRow /\ r.at = at /\ r.key = k
    BY DeviceNames
  <2>4. D!TypeOK'
    BY <1>0, <2>1, <2>2, <2>3, HandlingMoves DEF D!TypeOK
  <2>5. at = "claimed" => \A e \in DeviceSessions \ {d} : ~(D!Carries(e) /\ v7[e].key = k)
    BY <1>0, <2>1 DEF D!HandlingAgrees, D!Carries
  <2>6. D!KeyAgrees(k)
    BY <1>0
  <2>7. D!KeyAgrees(k)' /\ (at = "claimed" => v9'[k] = "none" /\ v12'[k] = 0)
    BY <2>1, <2>2, <2>6 DEF D!KeyAgrees
  <2>8. v7' = [v7 EXCEPT ![d] = r]
    BY <2>1
  <2> HIDE DEF r
  <2>9. /\ v8 \subseteq v8' /\ k \in v8' /\ v9' = v9 /\ v11' = v11 /\ v12' = v12
        /\ \A j \in CommandKeys \ {k} : j \in v8' <=> j \in v8
    BY <2>1, <2>2
  <2>10. r.at \in {"claimed", "registered"} => at = "claimed"
    BY <2>3
  <2>11. /\ r.at \in {"claimed", "registered"} => v9'[k] \in {"none", "registered"} /\ v12'[k] = 0
         /\ r.at \in {"claimed", "registered"} =>
              \A e \in DeviceSessions \ {d} : ~(D!Carries(e) /\ v7[e].key = k)
    BY <2>5, <2>7, <2>10
  <2>12. QED
    BY <1>3, <2>3, <2>4, <2>7, <2>8, <2>9, <2>11
<1>5. ASSUME NEW d \in DeviceSessions, D!InsertOperation(d) PROVE D!EndsInv'
  <2>0. PICK k : k = v7[d].key
    OBVIOUS
  <2> DEFINE r == [at |-> "registered", key |-> k]
  <2>1. /\ v7[d].at = "claimed" /\ v7' = [v7 EXCEPT ![d] = r] /\ v9' = [v9 EXCEPT ![k] = "registered"]
        /\ UNCHANGED <<v1, v2, v3, v4, v5, v6, v8, v10, v11, v12, v13>>
    BY <1>5, <2>0 DEF D!InsertOperation, D!Busy
  <2>2. /\ k \in v8 /\ k \in CommandKeys /\ v9[k] \in {"none", "registered"} /\ v12[k] = 0 /\ D!KeyAgrees(k)
        /\ \A e \in DeviceSessions \ {d} : ~(D!Carries(e) /\ v7[e].key = k)
    BY <1>0, <2>0, <2>1 DEF D!HandlingAgrees, D!Carries
  <2>3. r \in D!HandlingRow /\ r.at = "registered" /\ r.key = k
    BY <2>2, DeviceNames
  <2> HIDE DEF r
  <2>4. /\ v9' \in [CommandKeys -> {"none", "registered", "running", "cancelling", "completing", "removing"}]
        /\ v9'[k] = "registered" /\ \A j \in CommandKeys \ {k} : v9'[j] = v9[j]
    BY <1>0, <2>1, <2>2
  <2>5. D!TypeOK'
    BY <1>0, <2>1, <2>3, <2>4, HandlingMoves DEF D!TypeOK
  <2>6. D!KeyAgrees(k)'
    BY <2>1, <2>2, <2>4 DEF D!KeyAgrees
  <2>7. QED
    BY <1>3, <2>1, <2>2, <2>3, <2>4, <2>5, <2>6
<1>6. ASSUME NEW d \in DeviceSessions, D!Accept(d) \/ D!Replay(d) PROVE D!EndsInv'
  <2>0. PICK k : k = v7[d].key
    OBVIOUS
  <2>1. /\ v7[d].at \in {"registered", "replayed"} /\ v7' = [v7 EXCEPT ![d] = D!Quiet]
        /\ UNCHANGED <<v1, v2, v3, v4, v5, v6, v8, v10, v12, v13>>
    BY <1>6 DEF D!Accept, D!Replay, D!Done
  <2>2. k \in v8 /\ k \in CommandKeys /\ D!KeyAgrees(k) /\ v11[k] \in 0..MaxCommandCopies
    BY <1>0, <2>0, <2>1 DEF D!HandlingAgrees
  <2>3. \/ v11' = v11
        \/ v11[k] < MaxCommandCopies /\ v11' = [v11 EXCEPT ![k] = v11[k] + 1]
    BY <1>0, <1>6, <2>0, <2>2 DEF D!Accept, D!Replay
  <2>4. /\ v11' \in [CommandKeys -> 0..MaxCommandCopies] /\ v11'[k] >= v11[k]
        /\ v11' # v11 => v11'[k] >= 1
        /\ \A j \in CommandKeys \ {k} : v11'[j] = v11[j]
    <3>1. CASE v11' = v11
      BY <1>0, <2>2, <3>1
    <3>2. CASE v11[k] < MaxCommandCopies /\ v11' = [v11 EXCEPT ![k] = v11[k] + 1]
      <4>1. v11[k] + 1 \in 0..MaxCommandCopies
        BY <2>2, <3>2, OwnerAssumption
      <4>2. QED
        BY <1>0, <2>2, <3>2, <4>1
    <3>3. QED
      BY <2>3, <3>1, <3>2
  <2>5. CASE v9' = v9
    <3>1. D!TypeOK'
      BY <1>0, <2>1, <2>4, <2>5, DeviceNames, HandlingMoves DEF D!TypeOK
    <3>2. D!KeyAgrees(k)'
      BY <2>1, <2>2, <2>4, <2>5 DEF D!KeyAgrees
    <3>3. QED
      BY <1>3, <2>1, <2>2, <2>4, <2>5, <3>1, <3>2, DeviceNames
  <2>6. CASE /\ v7[d].at = "registered"
             /\ \/ v9' = [v9 EXCEPT ![k] = "running"] /\ v11' = [v11 EXCEPT ![k] = v11[k] + 1]
                \/ v9' = [v9 EXCEPT ![k] = "none"]
    <3>1. v12[k] = 0 /\ \A e \in DeviceSessions \ {d} : ~(D!Carries(e) /\ v7[e].key = k)
      BY <1>0, <2>0, <2>6 DEF D!HandlingAgrees, D!Carries
    <3>2. /\ v9' \in [CommandKeys -> {"none", "registered", "running", "cancelling", "completing", "removing"}]
          /\ v9'[k] = "none" \/ (v9'[k] = "running" /\ v11'[k] = v11[k] + 1)
          /\ \A j \in CommandKeys \ {k} : v9'[j] = v9[j]
      BY <1>0, <2>2, <2>6
    <3>3. D!TypeOK'
      BY <1>0, <2>1, <2>4, <3>2, DeviceNames, HandlingMoves DEF D!TypeOK
    <3>4. v9'[k] = "running" => v11'[k] >= 1
      BY <2>2, <3>2
    <3>5. D!KeyAgrees(k)'
      BY <2>1, <2>2, <2>4, <3>1, <3>2, <3>4 DEF D!KeyAgrees
    <3>6. QED
      BY <1>3, <2>1, <2>2, <2>4, <3>1, <3>2, <3>3, <3>5, DeviceNames
  <2>7. QED
    BY <1>0, <1>6, <2>0, <2>2, <2>5, <2>6 DEF D!Accept, D!Replay
<1>7. ASSUME NEW d \in DeviceSessions, NEW k \in CommandKeys, D!Cancel(d, k) PROVE D!EndsInv'
  <2>1. v10' \subseteq CommandKeys
    BY <1>0, <1>7 DEF D!Cancel
  <2>2. D!TypeOK'
    BY <1>7, <2>1, <1>0 DEF D!Cancel, D!TypeOK
  <2>3. QED
    BY <1>1, <1>7, <2>2 DEF D!Cancel
<1>8. ASSUME NEW k \in CommandKeys, D!Elapsed(k) \/ D!Cancelled(k) \/ D!PersistEnd(k) \/ D!RemoveOperation(k)
      PROVE  D!EndsInv'
  <2>1. /\ v9[k] \in {"running", "completing", "cancelling", "removing"}
        /\ UNCHANGED <<v1, v2, v3, v4, v5, v6, v7, v8, v11, v13>> /\ v10' \subseteq v10
    BY <1>8 DEF D!Elapsed, D!Cancelled, D!PersistEnd, D!RemoveOperation
  <2>2. PICK next \in {"completing", "cancelling", "removing", "none"} :
          /\ v9' = [v9 EXCEPT ![k] = next]
          /\ next \in {"completing", "cancelling"} => v9[k] = "running" /\ v12' = v12
          /\ next = "removing" => /\ v9[k] \in {"completing", "cancelling"}
                                  /\ v12' = v12 \/ (v12[k] < MaxCommandCopies /\ v12' = [v12 EXCEPT ![k] = @ + 1])
          /\ next = "none" => v12' = v12
    BY <1>8 DEF D!Elapsed, D!Cancelled, D!PersistEnd, D!RemoveOperation
  <2>3. D!KeyAgrees(k) /\ v12[k] \in 0..MaxCommandCopies
    BY <1>0
  <2>4. /\ v9' \in [CommandKeys -> {"none", "registered", "running", "cancelling", "completing", "removing"}]
        /\ v9'[k] = next /\ \A j \in CommandKeys \ {k} : v9'[j] = v9[j]
    BY <1>0, <2>2
  <2>5. /\ v12' \in [CommandKeys -> 0..MaxCommandCopies] /\ \A j \in CommandKeys \ {k} : v12'[j] = v12[j]
        /\ v12'[k] = v12[k] \/ (next = "removing" /\ v12[k] = 0 /\ v12'[k] = 1)
    <3>1. CASE v12' = v12
      BY <1>0, <3>1
    <3>2. CASE next = "removing" /\ v12[k] < MaxCommandCopies /\ v12' = [v12 EXCEPT ![k] = @ + 1]
      <4>1. v12[k] = 0 /\ 1 \in 0..MaxCommandCopies
        BY <2>2, <2>3, <3>2, OwnerAssumption DEF D!KeyAgrees
      <4>2. v12' = [v12 EXCEPT ![k] = 1]
        BY <1>0, <3>2, <4>1
      <4>3. QED
        BY <1>0, <3>2, <4>1, <4>2
    <3>3. QED
      BY <2>2, <3>1, <3>2
  <2>6. D!TypeOK'
    BY <1>0, <2>1, <2>4, <2>5 DEF D!TypeOK
  <2>7. D!KeyAgrees(k)'
    BY <2>1, <2>2, <2>3, <2>4, <2>5 DEF D!KeyAgrees
  <2>8. QED
    BY <1>2, <2>1, <2>4, <2>5, <2>6, <2>7
<1>9. CASE D!Restart
  <2>1. /\ v7' = [d \in DeviceSessions |-> D!Quiet] /\ v9' = [k \in CommandKeys |-> "none"] /\ v10' = {}
        /\ v5' = [d \in DeviceSessions |-> FALSE] /\ v6' = [d \in DeviceSessions |-> "none"] /\ v13' = TRUE
        /\ UNCHANGED <<v1, v2, v3, v4, v8, v11, v12>>
    BY <1>9 DEF D!Restart
  <2>2. D!TypeOK'
    BY <1>0, <2>1, DeviceNames DEF D!TypeOK
  <2>3. \A d \in DeviceSessions : D!HandlingAgrees(d)' /\ ~D!Carries(d)'
    BY <2>1, DeviceNames DEF D!HandlingAgrees, D!Carries
  <2>4. \A k \in CommandKeys : D!KeyAgrees(k)'
    BY <1>0, <2>1 DEF D!KeyAgrees
  <2>5. QED
    BY <2>2, <2>3, <2>4 DEF D!EndsInv
<1>10. CASE UNCHANGED D!vars
  <2>1. D!TypeOK'
    BY <1>0, <1>10 DEF D!vars, D!TypeOK
  <2>2. QED
    BY <1>1, <1>10, <2>1 DEF D!vars
<1>11. ASSUME D!TypeOK' /\ UNCHANGED <<v7, v8, v9, v10, v11, v12, v13>> PROVE D!EndsInv'
  BY <1>1, <1>11
<1>12. QED
  BY <1>0, <1>4, <1>5, <1>6, <1>7, <1>8, <1>9, <1>10, <1>11, PairingTyped DEF D!Next

(* The invariant of a behaviour of Devices in the composition. *)
CommandInvHere == component = "devices" => D!EndsInv

(* A command that any number of sockets send, again and after a cancellation or a *)
(* restart, is told its end once at most and not before it was accepted           *)
(* (handle_client_message, spawn_operation).                                      *)
THEOREM CommandEndsOnceAlways == OwnerSpec => []CommandEndsOnce
<1>1. OwnerInit => CommandInvHere
  BY DevicesInit DEF OwnerInit, CommandInvHere
<1>2. CommandInvHere /\ [OwnerNext]_all => CommandInvHere'
  <2> SUFFICES ASSUME CommandInvHere, [OwnerNext]_all, component' = "devices" PROVE D!EndsInv'
    BY DEF CommandInvHere
  <2>1. component = "devices" /\ [D!Next]_D!vars
    BY DEF OwnerNext, all, D!vars
  <2>2. QED
    BY <2>1, DevicesStep DEF CommandInvHere
<1>3. CommandInvHere => CommandEndsOnce
  BY DEF CommandInvHere, CommandEndsOnce, D!EndsInv, D!KeyAgrees, D!CommandEndsOnce
<1>4. QED
  BY <1>1, <1>2, <1>3, PTL DEF OwnerSpec

-----------------------------------------------------------------------------
(* Attachments. Slots: v1 row, v2 expired, v3 partial, v4 object, v5 upload, v6 *)
(* final, v7 generated, v8 making, v9 artifacts, v10 crashed.                   *)

(* The rows an upload and a finalization move through have their types. *)
LEMMA UploadMoves ==
  /\ F!Idle \in F!UploadRow /\ F!Idle \in F!FinalRow /\ F!Idle.at = "idle"
  /\ \A at \in {"receiving", "good", "cleared"}, r \in F!UploadRow : [r EXCEPT !.at = at] \in F!UploadRow
  /\ \A f \in UploadFiles : [at |-> "receiving", of |-> f] \in F!UploadRow
  /\ \A f \in UploadFiles : [at |-> "checking", of |-> f] \in F!FinalRow
  /\ \A at \in {"verified", "moving", "marking"}, r \in F!FinalRow :
        [r EXCEPT !.at = at] \in F!FinalRow /\ [r EXCEPT !.at = at].at = at
BY DEF F!Idle, F!UploadRow, F!FinalRow

(* The invariant of the files holds at first. *)
LEMMA AttachmentsInit ==
  F!Init => F!KeptInv
<1> SUFFICES ASSUME F!Init PROVE F!KeptInv
  OBVIOUS
<1>1. F!TypeOK
  BY UploadMoves DEF F!Init, F!TypeOK
<1>2. \A c \in FinalRequests : v6[c].at = "idle"
  BY UploadMoves DEF F!Init
<1>3. QED
  BY <1>1, <1>2 DEF F!Init, F!KeptInv, F!ReadyHasContent

(* A finalization that marks its row has seen the object. *)
LEMMA FinalMoves ==
  ASSUME F!KeptInv, NEW c \in FinalRequests, NEW r \in F!FinalRow,
         v6' = [v6 EXCEPT ![c] = r], v4 => v4', v4' \in BOOLEAN, r.at = "marking" => v4'
  PROVE  /\ v6' \in [FinalRequests -> F!FinalRow]
         /\ \A d \in FinalRequests : v6'[d].at = "marking" => v4'
<1>1. v6 \in [FinalRequests -> F!FinalRow] /\ v4 \in BOOLEAN /\ \A d \in FinalRequests : v6[d].at = "marking" => v4
  BY DEF F!KeptInv, F!TypeOK
<1>2. QED
  BY <1>1

(* Writing or removing a partial file keeps their type. *)
LEMMA PartialMoves ==
  ASSUME F!TypeOK, NEW w \in {"none", "good"}, NEW f, v3' = [v3 EXCEPT ![f] = w]
  PROVE  v3' \in [UploadFiles -> {"none", "good"}]
BY DEF F!TypeOK

(* Every step keeps the invariant of the files. *)
LEMMA AttachmentsStep ==
  ASSUME F!KeptInv, [F!Next]_F!vars
  PROVE  F!KeptInv'
<1> USE DEF F!made
<1>0. /\ F!TypeOK /\ v1 \in [UploadFiles -> {"none", "pending", "ready"}] /\ v2 \subseteq UploadFiles
      /\ v3 \in [UploadFiles -> {"none", "good"}] /\ v4 \in BOOLEAN
      /\ v5 \in [UploadRequests -> F!UploadRow] /\ v6 \in [FinalRequests -> F!FinalRow]
      /\ v7 \in BOOLEAN /\ v8 \in [MadeFiles -> {"none", "writing", "inserting", "done"}]
      /\ v9 \subseteq MadeFiles /\ v10 \in BOOLEAN
      /\ (\A f \in UploadFiles : v1[f] = "ready" => v4) /\ (v9 # {} => v7)
      /\ (\A c \in FinalRequests : v6[c].at = "marking" => v4)
      /\ (\A a \in MadeFiles : v8[a] = "inserting" => v7)
  BY DEF F!KeptInv, F!TypeOK, F!ReadyHasContent
(* Uploads of files touch neither rows nor content. *)
<1>1. ASSUME v2' \subseteq UploadFiles, v3' \in [UploadFiles -> {"none", "good"}],
             v5' \in [UploadRequests -> F!UploadRow], UNCHANGED <<v1, v4, v6, v7, v8, v9, v10>>
      PROVE  F!KeptInv'
  BY <1>0, <1>1 DEF F!KeptInv, F!TypeOK, F!ReadyHasContent
(* Nor does a finalization before it marks its row, but for moving the content in. *)
<1>2. ASSUME NEW c \in FinalRequests, NEW r \in F!FinalRow, v6' = [v6 EXCEPT ![c] = r],
             v4 => v4', v4' \in BOOLEAN, r.at = "marking" => v4',
             v3' \in [UploadFiles -> {"none", "good"}], UNCHANGED <<v1, v2, v5, v7, v8, v9, v10>>
      PROVE  F!KeptInv'
  <2>1. /\ v6' \in [FinalRequests -> F!FinalRow]
        /\ \A d \in FinalRequests : v6'[d].at = "marking" => v4'
    BY <1>2, FinalMoves
  <2>2. QED
    BY <1>0, <1>2, <2>1 DEF F!KeptInv, F!TypeOK, F!ReadyHasContent
<1>3. ASSUME NEW a \in MadeFiles, NEW w \in {"writing", "inserting", "done"}, v8' = [v8 EXCEPT ![a] = w],
             v7 => v7', v7' \in BOOLEAN, w = "inserting" => v7', v9' \subseteq MadeFiles, v9' # {} => v7',
             UNCHANGED <<v1, v2, v3, v4, v5, v6, v10>>
      PROVE  F!KeptInv'
  <2>1. /\ v8' \in [MadeFiles -> {"none", "writing", "inserting", "done"}]
        /\ \A b \in MadeFiles : v8'[b] = "inserting" => v7'
    BY <1>0, <1>3
  <2>2. QED
    BY <1>0, <1>3, <2>1 DEF F!KeptInv, F!TypeOK, F!ReadyHasContent
<1>4. ASSUME NEW f \in UploadFiles, F!CreateAttachment(f) PROVE F!KeptInv'
  <2>1. /\ v1' \in [UploadFiles -> {"none", "pending", "ready"}]
        /\ \A g \in UploadFiles : v1'[g] = "ready" => v1[g] = "ready"
        /\ UNCHANGED <<v2, v3, v4, v5, v6, v7, v8, v9, v10>>
    BY <1>0, <1>4 DEF F!CreateAttachment, F!ClaimAttachmentCreate
  <2>2. QED
    BY <1>0, <2>1 DEF F!KeptInv, F!TypeOK, F!ReadyHasContent
<1>5. ASSUME NEW f \in UploadFiles, F!Expire(f) PROVE F!KeptInv'
  <2>1. v2' \subseteq UploadFiles
    BY <1>0, <1>5 DEF F!Expire
  <2>2. QED
    BY <1>0, <1>1, <1>5, <2>1 DEF F!Expire
<1>6. ASSUME NEW u \in UploadRequests, NEW f \in UploadFiles, F!BeginUpload(u, f) PROVE F!KeptInv'
  <2>1. v5' \in [UploadRequests -> F!UploadRow]
    BY <1>0, <1>6, UploadMoves DEF F!BeginUpload
  <2>2. QED
    BY <1>0, <1>1, <1>6, <2>1 DEF F!BeginUpload
<1>7. ASSUME NEW u \in UploadRequests, F!Receive(u) PROVE F!KeptInv'
  <2>1. PICK r \in F!UploadRow : v5' = [v5 EXCEPT ![u] = r]
    <3>1. [v5[u] EXCEPT !.at = "good"] \in F!UploadRow
      BY <1>0, UploadMoves
    <3>2. QED
      BY <1>7, <3>1, UploadMoves DEF F!Receive
  <2>2. v5' \in [UploadRequests -> F!UploadRow]
    BY <1>0, <2>1
  <2>3. QED
    BY <1>0, <1>1, <1>7, <2>2 DEF F!Receive
<1>8. ASSUME NEW u \in UploadRequests, F!RemovePartial(u) \/ F!RenameUpload(u) PROVE F!KeptInv'
  <2>1. PICK r \in F!UploadRow, w \in {"none", "good"} :
           v5' = [v5 EXCEPT ![u] = r] /\ v3' = [v3 EXCEPT ![v5[u].of] = w]
    <3>1. [v5[u] EXCEPT !.at = "cleared"] \in F!UploadRow
      BY <1>0, UploadMoves
    <3>2. QED
      BY <1>8, <3>1, UploadMoves DEF F!RemovePartial, F!RenameUpload
  <2>2. v5' \in [UploadRequests -> F!UploadRow] /\ v3' \in [UploadFiles -> {"none", "good"}]
    BY <1>0, <2>1, PartialMoves
  <2>3. QED
    BY <1>0, <1>1, <1>8, <2>2 DEF F!RemovePartial, F!RenameUpload
<1>9. ASSUME NEW c \in FinalRequests, NEW f \in UploadFiles, F!Finalize(c, f) PROVE F!KeptInv'
  <2>1. CASE v6' = v6
    BY <1>0, <1>1, <1>9, <2>1 DEF F!Finalize
  <2>2. CASE v6' # v6
    <3> DEFINE r == [at |-> "checking", of |-> f]
    <3>1. v6' = [v6 EXCEPT ![c] = r] /\ UNCHANGED <<v1, v2, v3, v4, v5, v7, v8, v9, v10>>
      BY <1>9, <2>2 DEF F!Finalize
    <3>2. r \in F!FinalRow /\ r.at # "marking"
      BY UploadMoves
    <3> HIDE DEF r
    <3>3. QED
      BY <1>0, <1>2, <3>1, <3>2
  <2>3. QED
    BY <2>1, <2>2
<1>10. ASSUME NEW c \in FinalRequests, F!Verify(c) PROVE F!KeptInv'
  <2>1. [v6[c] EXCEPT !.at = "verified"] \in F!FinalRow /\ [v6[c] EXCEPT !.at = "verified"].at = "verified"
    BY <1>0, UploadMoves
  <2>2. PICK r \in F!FinalRow : v6' = [v6 EXCEPT ![c] = r] /\ r.at # "marking"
    BY <1>10, <2>1, UploadMoves DEF F!Verify, F!Goes, F!Fails
  <2>3. QED
    BY <1>0, <1>2, <1>10, <2>2 DEF F!Verify
<1>11. ASSUME NEW c \in FinalRequests, F!LookForObject(c) PROVE F!KeptInv'
  <2>1. [v6[c] EXCEPT !.at = "marking"] \in F!FinalRow /\ [v6[c] EXCEPT !.at = "marking"].at = "marking"
    BY <1>0, UploadMoves
  <2>2. [v6[c] EXCEPT !.at = "moving"] \in F!FinalRow /\ [v6[c] EXCEPT !.at = "moving"].at = "moving"
    BY <1>0, UploadMoves
  <2>3. PICK r \in F!FinalRow : v6' = [v6 EXCEPT ![c] = r] /\ (r.at = "marking" => v4)
    BY <1>11, <2>1, <2>2 DEF F!LookForObject, F!Goes
  <2>4. v3' \in [UploadFiles -> {"none", "good"}] /\ UNCHANGED <<v1, v2, v4, v5, v7, v8, v9, v10>>
    BY <1>0, <1>11, PartialMoves DEF F!LookForObject
  <2>5. QED
    BY <1>0, <1>2, <2>3, <2>4
<1>12. ASSUME NEW c \in FinalRequests, F!MoveObject(c) PROVE F!KeptInv'
  <2>1. [v6[c] EXCEPT !.at = "marking"] \in F!FinalRow /\ [v6[c] EXCEPT !.at = "marking"].at = "marking"
    BY <1>0, UploadMoves
  <2>2. PICK r \in F!FinalRow : v6' = [v6 EXCEPT ![c] = r] /\ (r.at = "marking" => v4' = TRUE)
    BY <1>12, <2>1, UploadMoves DEF F!MoveObject, F!Goes, F!Fails
  <2>3. v3' \in [UploadFiles -> {"none", "good"}] /\ UNCHANGED <<v1, v2, v5, v7, v8, v9, v10>>
        /\ (v4' = TRUE \/ v4' = v4)
    BY <1>0, <1>12, PartialMoves DEF F!MoveObject
  <2>4. v4' \in BOOLEAN /\ (v4 => v4') /\ (r.at = "marking" => v4')
    <3>1. CASE v4' = TRUE
      <4>1. v4'
        BY <3>1
      <4>2. v4' \in BOOLEAN
        BY <3>1
      <4>3. QED
        BY <4>1, <4>2
    <3>2. CASE v4' # TRUE
      <4>1. v4' = v4 /\ r.at # "marking"
        BY <2>2, <2>3, <3>2
      <4>2. QED
        BY <1>0, <4>1
    <3>3. QED
      BY <3>1, <3>2
  <2>5. v3' \in [UploadFiles -> {"none", "good"}] /\ UNCHANGED <<v1, v2, v5, v7, v8, v9, v10>>
    BY <2>3
  <2>6. r \in F!FinalRow /\ v6' = [v6 EXCEPT ![c] = r]
    BY <2>2
  <2>7. QED
    BY <1>2, <2>4, <2>5, <2>6
<1>13. ASSUME NEW c \in FinalRequests, F!MarkReady(c) PROVE F!KeptInv'
  <2>1. v4 = TRUE /\ v6' = [v6 EXCEPT ![c] = F!Idle] /\ UNCHANGED <<v2, v3, v4, v5, v7, v8, v9, v10>>
    BY <1>0, <1>13 DEF F!MarkReady, F!Fails
  <2>2. v1' \in [UploadFiles -> {"none", "pending", "ready"}]
    BY <1>0, <1>13 DEF F!MarkReady
  <2>3. v6' \in [FinalRequests -> F!FinalRow]
    BY <1>0, <2>1, UploadMoves
  <2>4. QED
    BY <1>0, <2>1, <2>2, <2>3 DEF F!KeptInv, F!TypeOK, F!ReadyHasContent
<1>14. ASSUME NEW a \in MadeFiles, F!BeginArtifact(a) PROVE F!KeptInv'
  <2>1. PICK w \in {"writing", "inserting"} : v8' = [v8 EXCEPT ![a] = w] /\ (w = "inserting" => v7)
    BY <1>14 DEF F!BeginArtifact
  <2>2. QED
    BY <1>0, <1>3, <1>14, <2>1 DEF F!BeginArtifact
<1>15. ASSUME NEW a \in MadeFiles, F!WriteArtifact(a) PROVE F!KeptInv'
  <2>1. PICK w \in {"inserting", "done"} : v8' = [v8 EXCEPT ![a] = w] /\ (w = "inserting" => v7' = TRUE)
    BY <1>15 DEF F!WriteArtifact
  <2>2. v7' = TRUE \/ v7' = v7
    BY <1>15 DEF F!WriteArtifact
  <2>3. QED
    BY <1>0, <1>3, <1>15, <2>1, <2>2 DEF F!WriteArtifact
<1>16. ASSUME NEW a \in MadeFiles, F!InsertArtifact(a) PROVE F!KeptInv'
  <2>1. v7 = TRUE /\ v9' \subseteq MadeFiles
    BY <1>0, <1>16 DEF F!InsertArtifact
  <2>2. QED
    BY <1>0, <1>3, <1>16, <2>1 DEF F!InsertArtifact
<1>17. CASE F!Restart
  <2>1. /\ v5' = [u \in UploadRequests |-> F!Idle] /\ v6' = [c \in FinalRequests |-> F!Idle]
        /\ v8' = [a \in MadeFiles |-> IF v8[a] = "none" THEN "none" ELSE "done"] /\ v10' = TRUE
        /\ UNCHANGED <<v1, v2, v3, v4, v7, v9>>
    BY <1>17 DEF F!Restart
  <2>2. /\ v5' \in [UploadRequests -> F!UploadRow] /\ v6' \in [FinalRequests -> F!FinalRow]
        /\ v8' \in [MadeFiles -> {"none", "writing", "inserting", "done"}]
    BY <2>1, UploadMoves
  <2>3. (\A c \in FinalRequests : v6'[c].at = "idle") /\ (\A a \in MadeFiles : v8'[a] # "inserting")
    BY <2>1, UploadMoves
  <2>4. QED
    BY <1>0, <2>1, <2>2, <2>3 DEF F!KeptInv, F!TypeOK, F!ReadyHasContent
<1>18. CASE UNCHANGED F!vars
  BY <1>0, <1>1, <1>18 DEF F!vars
<1>19. QED
  BY <1>4, <1>5, <1>6, <1>7, <1>8, <1>9, <1>10, <1>11, <1>12, <1>13, <1>14, <1>15, <1>16, <1>17, <1>18
     DEF F!Next

-----------------------------------------------------------------------------
(* Secrets. Slots: v1 rows, v2 vault, v3 step, v4 id, v5 label, v6 relabel, v7 *)
(* disturbed.                                                                  *)

(* The invariant of the values holds at first. *)
LEMMA SecretsInit ==
  S!Init => S!ValuesInv
<1> SUFFICES ASSUME S!Init PROVE S!ValuesInv
  OBVIOUS
<1>1. S!TypeOK
  BY DEF S!Init, S!TypeOK, S!Steps
<1>2. (\A r \in SecretRequests : v3[r] = "idle") /\ v2 = {} /\ \A i \in SecretIds : v1[i] = None
  BY DEF S!Init
<1>3. QED
  BY <1>1, <1>2 DEF S!ValuesInv, S!StepsTyped, S!StepAgrees, S!Kept, S!Stored

(* A request that goes on writes its own locals, and those fit its next step. *)
LEMMA Continues ==
  ASSUME S!ValuesInv, NEW r \in SecretRequests, NEW from \in S!Steps \ {"idle"}, NEW to \in S!Steps,
         S!Continue(r, from, to),
         to \in {"put", "insert", "undo", "replace", "rename"} => from \in {"put", "insert", "undo", "replace", "rename"}
  PROVE  /\ v3[r] = from /\ v3'[r] = to /\ v4[r] \in SecretIds
         /\ \A q \in SecretRequests \ {r} : v3'[q] = v3[q] /\ v4'[q] = v4[q]
         /\ to # "idle" => v4'[r] = v4[r]
         /\ v3' \in [SecretRequests -> S!Steps] /\ v4' \in [SecretRequests -> SecretIds \cup {None}]
         /\ v5' \in [SecretRequests -> SecretLabels \cup {None}] /\ v6' \in [SecretRequests -> BOOLEAN]
         /\ S!StepsTyped'
<1>1. /\ v3 \in [SecretRequests -> S!Steps] /\ v4 \in [SecretRequests -> SecretIds \cup {None}]
      /\ v5 \in [SecretRequests -> SecretLabels \cup {None}] /\ v6 \in [SecretRequests -> BOOLEAN]
      /\ S!StepsTyped
  BY DEF S!ValuesInv, S!TypeOK
<1>2. /\ v3[r] = from /\ v3' = [v3 EXCEPT ![r] = to]
      /\ v4' = [v4 EXCEPT ![r] = IF to = "idle" THEN None ELSE v4[r]]
      /\ v5' = [v5 EXCEPT ![r] = IF to = "idle" THEN None ELSE v5[r]]
      /\ v6' = [v6 EXCEPT ![r] = to # "idle" /\ v6[r]]
  BY DEF S!Continue
<1>3. v4[r] \in SecretIds
  BY <1>1, <1>2 DEF S!StepsTyped
<1>4. /\ v3' \in [SecretRequests -> S!Steps] /\ v4' \in [SecretRequests -> SecretIds \cup {None}]
      /\ v5' \in [SecretRequests -> SecretLabels \cup {None}]
  BY <1>1, <1>2
<1>5. v6' \in [SecretRequests -> BOOLEAN]
  <2>1. v6[r] \in BOOLEAN
    BY <1>1
  <2>2. (to # "idle" /\ v6[r]) \in BOOLEAN
    OBVIOUS
  <2>3. QED
    BY <1>1, <1>2, <2>2, Zenon
<1>6. v3'[r] = to /\ (\A q \in SecretRequests \ {r} : v3'[q] = v3[q] /\ v4'[q] = v4[q] /\ v5'[q] = v5[q])
      /\ (to # "idle" => v4'[r] = v4[r] /\ v5'[r] = v5[r])
  BY <1>1, <1>2
<1>7. S!StepsTyped'
  <2>1. ASSUME NEW q \in SecretRequests
        PROVE  /\ v3'[q] # "idle" => v4'[q] \in SecretIds
               /\ v3'[q] \in {"put", "insert", "undo", "replace", "rename"} => v5'[q] \in SecretLabels
    BY <1>1, <1>2, <1>3, <1>6 DEF S!StepsTyped
  <2>2. QED
    BY <2>1 DEF S!StepsTyped
<1>8. QED
  BY <1>2, <1>3, <1>4, <1>5, <1>6, <1>7

(* A request that goes on touches its own secret only and knows what it has done to *)
(* it.                                                                              *)
LEMMA GoesOn ==
  ASSUME S!ValuesInv, NEW r \in SecretRequests, NEW from \in S!Steps \ {"idle"}, NEW to \in S!Steps,
         S!Continue(r, from, to),
         to \in {"put", "insert", "undo", "replace", "rename"} => from \in {"put", "insert", "undo", "replace", "rename"},
         v1' \in [SecretIds -> SecretLabels \cup {None}], v2' \subseteq SecretIds, v7' \in BOOLEAN, v7 => v7',
         \A j \in SecretIds \ {v4[r]} : (v1'[j] = None <=> v1[j] = None) /\ (j \in v2' <=> j \in v2),
         NEW i \in SecretIds, i = v4[r],
         ~v7' => IF to = "idle" THEN S!Kept(i)' ELSE S!StepAgrees(r)'
  PROVE  S!ValuesInv'
<1>1. /\ v3[r] = from /\ v3'[r] = to /\ v4[r] \in SecretIds
      /\ \A q \in SecretRequests \ {r} : v3'[q] = v3[q] /\ v4'[q] = v4[q]
      /\ to # "idle" => v4'[r] = v4[r]
      /\ v3' \in [SecretRequests -> S!Steps] /\ v4' \in [SecretRequests -> SecretIds \cup {None}]
      /\ v5' \in [SecretRequests -> SecretLabels \cup {None}] /\ v6' \in [SecretRequests -> BOOLEAN]
      /\ S!StepsTyped'
  BY Continues
<1>2. S!TypeOK'
  BY <1>1 DEF S!TypeOK
<1>3. ASSUME ~v7'
      PROVE  /\ \A p, q \in SecretRequests : (v3[p] # "idle" /\ v3[q] # "idle" /\ v4[p] = v4[q] => p = q)'
             /\ \A q \in SecretRequests : S!StepAgrees(q)'
             /\ \A j \in SecretIds : (\A q \in SecretRequests : ~S!Works(q, j))' => S!Kept(j)'
  <2>1. /\ \A p, q \in SecretRequests : v3[p] # "idle" /\ v3[q] # "idle" /\ v4[p] = v4[q] => p = q
        /\ \A q \in SecretRequests : S!StepAgrees(q)
        /\ \A j \in SecretIds : (\A q \in SecretRequests : ~S!Works(q, j)) => S!Kept(j)
        /\ \A q \in SecretRequests : v3[q] # "idle" => v4[q] \in SecretIds
    BY <1>3 DEF S!ValuesInv, S!StepsTyped
  <2>2. \A p, q \in SecretRequests : (v3[p] # "idle" /\ v3[q] # "idle" /\ v4[p] = v4[q] => p = q)'
    BY <1>1, <2>1
  <2>3. ASSUME NEW q \in SecretRequests PROVE S!StepAgrees(q)'
    <3>1. CASE q = r
      BY <1>1, <1>3, <3>1 DEF S!StepAgrees
    <3>2. CASE q # r /\ v3[q] = "idle"
      BY <1>1, <3>2 DEF S!StepAgrees
    <3>3. CASE q # r /\ v3[q] # "idle"
      <4>1. v4[q] \in SecretIds \ {v4[r]} /\ v3'[q] = v3[q] /\ v4'[q] = v4[q] /\ S!StepAgrees(q)
        BY <1>1, <2>1, <3>3
      <4>2. QED
        BY <4>1 DEF S!StepAgrees, S!Stored
    <3>4. QED
      BY <3>1, <3>2, <3>3
  <2>4. ASSUME NEW j \in SecretIds, (\A q \in SecretRequests : ~S!Works(q, j))' PROVE S!Kept(j)'
    <3>1. CASE j = i
      BY <1>1, <1>3, <2>4, <3>1 DEF S!Works
    <3>2. CASE j # i
      <4>1. \A q \in SecretRequests : ~S!Works(q, j)
        BY <1>1, <2>4, <3>2 DEF S!Works
      <4>2. S!Kept(j)
        BY <2>1, <4>1
      <4>3. QED
        BY <3>2, <4>2 DEF S!Kept, S!Stored
    <3>3. QED
      BY <3>1, <3>2
  <2>5. QED
    BY <2>2, <2>3, <2>4
<1>4. QED
  BY <1>1, <1>2, <1>3 DEF S!ValuesInv

(* A request that begins finds the secret as its first step expects it. *)
LEMMA Begins ==
  ASSUME S!ValuesInv, NEW r \in SecretRequests, NEW i \in SecretIds, NEW l \in SecretLabels \cup {None},
         NEW first \in {"put", "replace", "rename", "erase"}, NEW renames \in BOOLEAN,
         S!Begin(r, i, l, first, renames), first # "erase" => l \in SecretLabels,
         IF first = "put" THEN ~S!Stored(i) ELSE S!Stored(i)
  PROVE  S!ValuesInv'
<1>1. /\ S!TypeOK /\ v3 \in [SecretRequests -> S!Steps] /\ v4 \in [SecretRequests -> SecretIds \cup {None}]
      /\ v5 \in [SecretRequests -> SecretLabels \cup {None}] /\ v6 \in [SecretRequests -> BOOLEAN]
      /\ S!StepsTyped /\ first \in S!Steps /\ first # "idle" /\ v7 \in BOOLEAN
  BY DEF S!ValuesInv, S!TypeOK, S!Steps
<1>2. /\ v3[r] = "idle" /\ v3' = [v3 EXCEPT ![r] = first] /\ v4' = [v4 EXCEPT ![r] = i]
      /\ v5' = [v5 EXCEPT ![r] = l] /\ v6' = [v6 EXCEPT ![r] = renames]
      /\ v7' = (v7 \/ \E q \in SecretRequests : v3[q] # "idle" /\ v4[q] = i)
      /\ UNCHANGED <<v1, v2>>
  BY DEF S!Begin, S!durable
<1>3. /\ v3' \in [SecretRequests -> S!Steps] /\ v4' \in [SecretRequests -> SecretIds \cup {None}]
      /\ v5' \in [SecretRequests -> SecretLabels \cup {None}] /\ v6' \in [SecretRequests -> BOOLEAN]
  BY <1>1, <1>2
<1>4. v3'[r] = first /\ v4'[r] = i /\ v5'[r] = l
      /\ \A q \in SecretRequests \ {r} : v3'[q] = v3[q] /\ v4'[q] = v4[q] /\ v5'[q] = v5[q]
  BY <1>1, <1>2
<1>5. v7' \in BOOLEAN
  BY <1>1, <1>2, Zenon
<1>6. S!TypeOK'
  BY <1>1, <1>2, <1>3, <1>5 DEF S!TypeOK
<1>7. S!StepsTyped'
  BY <1>1, <1>4 DEF S!StepsTyped
<1>8. ASSUME ~v7'
      PROVE  /\ \A p, q \in SecretRequests : (v3[p] # "idle" /\ v3[q] # "idle" /\ v4[p] = v4[q] => p = q)'
             /\ \A q \in SecretRequests : S!StepAgrees(q)'
             /\ \A j \in SecretIds : (\A q \in SecretRequests : ~S!Works(q, j))' => S!Kept(j)'
  <2>1. ~v7 /\ \A q \in SecretRequests : ~(v3[q] # "idle" /\ v4[q] = i)
    BY <1>2, <1>8, Zenon
  <2>2. /\ \A p, q \in SecretRequests : v3[p] # "idle" /\ v3[q] # "idle" /\ v4[p] = v4[q] => p = q
        /\ \A q \in SecretRequests : S!StepAgrees(q)
        /\ \A j \in SecretIds : (\A q \in SecretRequests : ~S!Works(q, j)) => S!Kept(j)
    BY <2>1 DEF S!ValuesInv
  <2>3. \A p, q \in SecretRequests : (v3[p] # "idle" /\ v3[q] # "idle" /\ v4[p] = v4[q] => p = q)'
    BY <1>1, <1>4, <2>1, <2>2
  <2>4. S!Kept(i)
    BY <2>1, <2>2 DEF S!Works
  <2>5. S!StepAgrees(r)'
    BY <1>2, <1>4, <2>4 DEF S!StepAgrees, S!Kept, S!Stored
  <2>6. \A q \in SecretRequests \ {r} : S!StepAgrees(q)'
    BY <1>2, <1>4, <2>2 DEF S!StepAgrees, S!Stored
  <2>7. ASSUME NEW j \in SecretIds, (\A q \in SecretRequests : ~S!Works(q, j))' PROVE S!Kept(j)'
    <3>1. \A q \in SecretRequests : ~S!Works(q, j)
      BY <1>2, <1>4, <2>7 DEF S!Works
    <3>2. QED
      BY <1>2, <2>2, <3>1 DEF S!Kept, S!Stored
  <2>8. QED
    BY <2>3, <2>5, <2>6, <2>7
<1>9. QED
  BY <1>6, <1>7, <1>8 DEF S!ValuesInv

(* Every step keeps the invariant of the values. *)
LEMMA SecretsStep ==
  ASSUME S!ValuesInv, [S!Next]_S!vars
  PROVE  S!ValuesInv'
<1> USE DEF S!durable
<1>0. /\ S!TypeOK /\ S!StepsTyped /\ v1 \in [SecretIds -> SecretLabels \cup {None}] /\ v2 \subseteq SecretIds
      /\ v7 \in BOOLEAN
      /\ (~v7 => \A r \in SecretRequests : S!StepAgrees(r))
  BY DEF S!ValuesInv, S!TypeOK
<1>1. ASSUME NEW r \in SecretRequests, NEW i \in SecretIds, NEW l \in SecretLabels, S!CreateBegin(r, i, l)
      PROVE  S!ValuesInv'
  BY <1>1, Begins DEF S!CreateBegin
<1>2. ASSUME NEW r \in SecretRequests, NEW i \in SecretIds, NEW l \in SecretLabels, NEW value \in BOOLEAN,
             NEW renames \in BOOLEAN, S!UpdateBegin(r, i, l, value, renames)
      PROVE  S!ValuesInv'
  <2>1. PICK first \in {"replace", "rename"} : S!Begin(r, i, l, first, renames)
    BY <1>2 DEF S!UpdateBegin
  <2>2. QED
    BY <1>2, <2>1, Begins DEF S!UpdateBegin
<1>3. ASSUME NEW r \in SecretRequests, NEW i \in SecretIds, S!DeleteBegin(r, i) PROVE S!ValuesInv'
  BY <1>3, Begins DEF S!DeleteBegin
<1>4. ASSUME NEW r \in SecretRequests, S!StoreRefuses(r) PROVE S!ValuesInv'
  <2>0. PICK i \in SecretIds : i = v4[r]
    BY <1>0, <1>4 DEF S!StepsTyped, S!StoreRefuses, S!Continue
  <2>1. PICK from \in {"put", "replace", "erase", "undo"} : S!Continue(r, from, "idle")
    BY <1>4 DEF S!StoreRefuses
  <2>2. v7' = (v7 \/ v3[r] = "undo") /\ UNCHANGED <<v1, v2>> /\ v3[r] = from
    BY <1>4, <2>1 DEF S!StoreRefuses, S!Continue
  <2>3. v7' \in BOOLEAN /\ (v7 => v7')
    BY <1>0, <2>2, Zenon
  <2>4. ASSUME ~v7' PROVE S!Kept(i)'
    <3>1. ~v7 /\ v3[r] # "undo"
      BY <2>2, <2>4, Zenon
    <3>2. S!Kept(v4[r])
      BY <1>0, <2>2, <3>1 DEF S!StepAgrees, S!Kept
    <3>3. QED
      BY <2>0, <2>2, <3>2 DEF S!Kept, S!Stored
  <2>5. from \in S!Steps \ {"idle"} /\ "idle" \in S!Steps
    BY DEF S!Steps
  <2>6. QED
    BY <2>0, <1>0, <2>1, <2>2, <2>3, <2>4, <2>5, GoesOn
<1>5. ASSUME NEW r \in SecretRequests, S!CreatePut(r) PROVE S!ValuesInv'
  <2>0. PICK i \in SecretIds : i = v4[r]
    BY <1>0, <1>5 DEF S!StepsTyped, S!CreatePut, S!Proceed, S!Continue
  <2>1. S!Continue(r, "put", "insert") /\ v2' = v2 \cup {v4[r]} /\ UNCHANGED <<v1, v7>>
    BY <1>5 DEF S!CreatePut, S!Proceed
  <2>2. {"put", "insert"} \subseteq S!Steps \ {"idle"}
    BY DEF S!Steps
  <2>3. v3[r] = "put" /\ v3'[r] = "insert" /\ v4[r] \in SecretIds /\ v4'[r] = v4[r]
    BY <2>1, <2>2, Continues
  <2>4. ~v7' => S!StepAgrees(r)'
    BY <1>0, <2>1, <2>3 DEF S!StepAgrees, S!Stored
  <2>5. QED
    BY <2>0, <1>0, <2>1, <2>2, <2>3, <2>4, GoesOn
<1>6. ASSUME NEW r \in SecretRequests, S!CreateInsert(r) PROVE S!ValuesInv'
  <2>0. PICK i \in SecretIds : i = v4[r]
    BY <1>0, <1>6 DEF S!StepsTyped, S!CreateInsert, S!Proceed, S!Continue
  <2>1. {"insert", "undo", "idle"} \subseteq S!Steps
    BY DEF S!Steps
  <2>2. PICK to \in {"idle", "undo"} : /\ S!Continue(r, "insert", to) /\ UNCHANGED <<v2, v7>>
                                       /\ to = "undo" => v1' = v1
                                       /\ to = "idle" => v1' = [v1 EXCEPT ![v4[r]] = v5[r]]
    BY <1>6 DEF S!CreateInsert, S!Proceed
  <2>3. v3[r] = "insert" /\ v3'[r] = to /\ v4[r] \in SecretIds /\ (to # "idle" => v4'[r] = v4[r])
    BY <2>1, <2>2, Continues
  <2>4. v5[r] \in SecretLabels
    BY <1>0, <2>3 DEF S!StepsTyped
  <2>5. v1' \in [SecretIds -> SecretLabels \cup {None}] /\ (to = "idle" => v1'[v4[r]] = v5[r])
        /\ \A j \in SecretIds \ {v4[r]} : v1'[j] = v1[j]
    BY <1>0, <2>2, <2>3, <2>4
  <2>6. ~v7' => IF to = "idle" THEN S!Kept(i)' ELSE S!StepAgrees(r)'
    <3>1. CASE to = "idle"
      <4>1. v5[r] # None
        BY <2>4, OwnerAssumption
      <4>2. QED
        BY <1>0, <2>0, <2>2, <2>3, <2>5, <3>1, <4>1 DEF S!StepAgrees, S!Kept, S!Stored
    <3>2. CASE to = "undo"
      BY <1>0, <2>2, <2>3, <3>2 DEF S!StepAgrees, S!Stored
    <3>3. QED
      BY <3>1, <3>2
  <2>7. QED
    BY <2>0, <1>0, <2>1, <2>2, <2>3, <2>5, <2>6, GoesOn
<1>7. ASSUME NEW r \in SecretRequests, S!CreateUndo(r) PROVE S!ValuesInv'
  <2>0. PICK i \in SecretIds : i = v4[r]
    BY <1>0, <1>7 DEF S!StepsTyped, S!CreateUndo, S!Proceed, S!Continue
  <2>1. S!Continue(r, "undo", "idle") /\ v2' = v2 \ {v4[r]} /\ UNCHANGED <<v1, v7>>
    BY <1>7 DEF S!CreateUndo, S!Proceed
  <2>2. "undo" \in S!Steps \ {"idle"} /\ "idle" \in S!Steps
    BY DEF S!Steps
  <2>3. v3[r] = "undo" /\ v4[r] \in SecretIds
    BY <2>1, <2>2, Continues
  <2>4. ~v7' => S!Kept(i)'
    BY <2>0, <1>0, <2>1, <2>3 DEF S!StepAgrees, S!Kept, S!Stored
  <2>5. QED
    BY <2>0, <1>0, <2>1, <2>2, <2>3, <2>4, GoesOn
<1>8. ASSUME NEW r \in SecretRequests, S!Replace(r) PROVE S!ValuesInv'
  <2>0. PICK i \in SecretIds : i = v4[r]
    BY <1>0, <1>8 DEF S!StepsTyped, S!Replace, S!Proceed, S!Continue
  <2>1. {"replace", "rename", "idle"} \subseteq S!Steps
    BY DEF S!Steps
  <2>2. PICK to \in {"idle", "rename"} : S!Continue(r, "replace", to) /\ v2' = v2 \cup {v4[r]} /\ UNCHANGED <<v1, v7>>
    BY <1>8 DEF S!Replace, S!Proceed
  <2>3. v3[r] = "replace" /\ v3'[r] = to /\ v4[r] \in SecretIds /\ (to # "idle" => v4'[r] = v4[r])
    BY <2>1, <2>2, Continues
  <2>4. ~v7' => IF to = "idle" THEN S!Kept(i)' ELSE S!StepAgrees(r)'
    BY <2>0, <1>0, <2>2, <2>3 DEF S!StepAgrees, S!Kept, S!Stored
  <2>5. QED
    BY <2>0, <1>0, <2>1, <2>2, <2>3, <2>4, GoesOn
<1>9. ASSUME NEW r \in SecretRequests, S!Rename(r) PROVE S!ValuesInv'
  <2>0. PICK i \in SecretIds : i = v4[r]
    BY <1>0, <1>9 DEF S!StepsTyped, S!Rename, S!Proceed, S!Continue
  <2>1. S!Continue(r, "rename", "idle") /\ UNCHANGED <<v2, v7>>
        /\ v1' = IF S!Stored(v4[r]) /\ ~S!Taken(v5[r], v4[r]) THEN [v1 EXCEPT ![v4[r]] = v5[r]] ELSE v1
    BY <1>9 DEF S!Rename, S!Proceed
  <2>2. "rename" \in S!Steps \ {"idle"} /\ "idle" \in S!Steps
    BY DEF S!Steps
  <2>3. v3[r] = "rename" /\ v4[r] \in SecretIds
    BY <2>1, <2>2, Continues
  <2>4. v5[r] \in SecretLabels /\ v5[r] # None
    BY <1>0, <2>3, OwnerAssumption DEF S!StepsTyped
  <2>5. v1' \in [SecretIds -> SecretLabels \cup {None}] /\ \A j \in SecretIds : v1'[j] = None <=> v1[j] = None
    BY <1>0, <2>1, <2>3, <2>4 DEF S!Stored
  <2>6. ~v7' => S!Kept(i)'
    BY <2>0, <1>0, <2>1, <2>3, <2>5 DEF S!StepAgrees, S!Kept, S!Stored
  <2>7. QED
    BY <2>0, <1>0, <2>1, <2>2, <2>3, <2>5, <2>6, GoesOn
<1>10. ASSUME NEW r \in SecretRequests, S!Erase(r) PROVE S!ValuesInv'
  <2>0. PICK i \in SecretIds : i = v4[r]
    BY <1>0, <1>10 DEF S!StepsTyped, S!Erase, S!Proceed, S!Continue
  <2>1. S!Continue(r, "erase", "forget") /\ v2' = v2 \ {v4[r]} /\ UNCHANGED <<v1, v7>>
    BY <1>10 DEF S!Erase, S!Proceed
  <2>2. {"erase", "forget"} \subseteq S!Steps \ {"idle"}
    BY DEF S!Steps
  <2>3. v3[r] = "erase" /\ v3'[r] = "forget" /\ v4[r] \in SecretIds /\ v4'[r] = v4[r]
    BY <2>1, <2>2, Continues
  <2>4. ~v7' => S!StepAgrees(r)'
    BY <1>0, <2>1, <2>3 DEF S!StepAgrees, S!Stored
  <2>5. QED
    BY <2>0, <1>0, <2>1, <2>2, <2>3, <2>4, GoesOn
<1>11. ASSUME NEW r \in SecretRequests, S!Forget(r) PROVE S!ValuesInv'
  <2>0. PICK i \in SecretIds : i = v4[r]
    BY <1>0, <1>11 DEF S!StepsTyped, S!Forget, S!Proceed, S!Continue
  <2>1. S!Continue(r, "forget", "idle") /\ v1' = [v1 EXCEPT ![v4[r]] = None] /\ UNCHANGED <<v2, v7>>
    BY <1>11 DEF S!Forget, S!Proceed
  <2>2. "forget" \in S!Steps \ {"idle"} /\ "idle" \in S!Steps
    BY DEF S!Steps
  <2>3. v3[r] = "forget" /\ v4[r] \in SecretIds
    BY <2>1, <2>2, Continues
  <2>4. v1' \in [SecretIds -> SecretLabels \cup {None}] /\ v1'[v4[r]] = None
        /\ \A j \in SecretIds \ {v4[r]} : v1'[j] = v1[j]
    BY <1>0, <2>1, <2>3
  <2>5. ~v7' => S!Kept(i)'
    BY <2>0, <1>0, <2>1, <2>3, <2>4 DEF S!StepAgrees, S!Kept, S!Stored
  <2>6. QED
    BY <2>0, <1>0, <2>1, <2>2, <2>3, <2>4, <2>5, GoesOn
<1>12. CASE S!Restart
  <2>1. /\ v3' = [r \in SecretRequests |-> "idle"] /\ v4' = [r \in SecretRequests |-> None]
        /\ v5' = [r \in SecretRequests |-> None] /\ v6' = [r \in SecretRequests |-> FALSE]
        /\ v7' = TRUE /\ UNCHANGED <<v1, v2>>
    BY <1>12 DEF S!Restart
  <2>2. S!TypeOK'
    BY <1>0, <2>1 DEF S!TypeOK, S!Steps
  <2>3. QED
    BY <2>1, <2>2 DEF S!ValuesInv, S!StepsTyped
<1>13. CASE UNCHANGED S!vars
  BY <1>13 DEF S!vars, S!ValuesInv, S!TypeOK, S!StepsTyped, S!StepAgrees, S!Kept, S!Stored, S!Works
<1>14. QED
  BY <1>1, <1>2, <1>3, <1>4, <1>5, <1>6, <1>7, <1>8, <1>9, <1>10, <1>11, <1>12, <1>13 DEF S!Next

(* The invariant of a behaviour of Secrets in the composition. *)
ValuesInvHere == component = "secrets" => S!ValuesInv
(* The invariant of a behaviour of Attachments in the composition. *)
KeptInvHere == component = "attachments" => F!KeptInv

(* A ready attachment and a stored artifact have their content, and the vault holds *)
(* exactly the values that have rows once all requests are through, unless two      *)
(* worked on one secret or the server died, for every number of files, secrets and  *)
(* requests (mark_attachment_ready; create, update and delete of secrets.rs).       *)
THEOREM KeptAsRowsSayAlways == OwnerSpec => []KeptAsRowsSay
<1>1. OwnerInit => KeptInvHere /\ ValuesInvHere
  BY AttachmentsInit, SecretsInit DEF OwnerInit, KeptInvHere, ValuesInvHere
<1>2. KeptInvHere /\ [OwnerNext]_all => KeptInvHere'
  <2> SUFFICES ASSUME KeptInvHere, [OwnerNext]_all, component' = "attachments" PROVE F!KeptInv'
    BY DEF KeptInvHere
  <2>1. component = "attachments" /\ [F!Next]_F!vars
    BY DEF OwnerNext, all, F!vars
  <2>2. QED
    BY <2>1, AttachmentsStep DEF KeptInvHere
<1>3. ValuesInvHere /\ [OwnerNext]_all => ValuesInvHere'
  <2> SUFFICES ASSUME ValuesInvHere, [OwnerNext]_all, component' = "secrets" PROVE S!ValuesInv'
    BY DEF ValuesInvHere
  <2>1. component = "secrets" /\ [S!Next]_S!vars
    BY DEF OwnerNext, all, S!vars
  <2>2. QED
    BY <2>1, SecretsStep DEF ValuesInvHere
<1>4. S!ValuesInv => S!ValuesMatchRows
  <2> SUFFICES ASSUME S!ValuesInv, S!AtRest, ~v7 PROVE v2 = {i \in SecretIds : S!Stored(i)}
    BY DEF S!ValuesMatchRows
  <2>1. v2 \subseteq SecretIds /\ \A i \in SecretIds : (\A r \in SecretRequests : ~S!Works(r, i)) => S!Kept(i)
    BY DEF S!ValuesInv, S!TypeOK
  <2>2. \A i \in SecretIds, r \in SecretRequests : ~S!Works(r, i)
    BY DEF S!AtRest, S!Works
  <2>3. QED
    BY <2>1, <2>2 DEF S!Kept
<1>5. KeptInvHere /\ ValuesInvHere => KeptAsRowsSay
  BY <1>4 DEF KeptInvHere, ValuesInvHere, KeptAsRowsSay, F!KeptInv
<1>6. QED
  BY <1>1, <1>2, <1>3, <1>5, PTL DEF OwnerSpec

-----------------------------------------------------------------------------
(* OwnerRecords. Slots: v1 bots, v2 flags, v3 skills, v4 versions, v5 assigned, v6 *)
(* pack, v7 recording, v8 claims, v9 req, v10 done, v11 told, v12 crashed.         *)

(* The flags a Bot can have, written out for the provers. *)
RecordFlags == {"archived", "pinned", "hidden"}
(* What an operation on the records can be about. *)
RecordTargets == RecordKeys \cup {FirstBotId, PackSkillId}

(* The names of operations and what they are not: no flag creates anything or *)
(* installs the pack.                                                         *)
LEMMA RecordNames ==
  /\ O!Flags = RecordFlags /\ O!Targets = RecordTargets
  /\ O!Bots = RecordKeys \cup {FirstBotId} /\ O!Skills = RecordKeys \cup {PackSkillId}
  /\ RecordFlags \subseteq O!Ops
  /\ \A f \in RecordFlags : O!Unset(f) \in O!Ops /\ O!Unset(f) \notin O!Creating
                            /\ O!Unset(f) \notin {"install", "none"}
  /\ O!Creating = {"create_bot", "duplicate_bot", "create_skill", "duplicate_skill", "import_skill",
                   "finish_recording"}
  /\ {"create_bot", "update_bot", "mark_read", "delete_bot", "duplicate_bot", "create_skill",
        "duplicate_skill", "import_skill", "finish_recording", "update_skill", "assign", "unassign", "install"}
       \subseteq O!Ops
  /\ "none" \notin O!Ops
  /\ O!Idle \in O!Request /\ O!Idle.at = "idle"
BY DEF O!Flags, O!Targets, O!Bots, O!Skills, O!Ops, O!Unset, O!Creating, O!Idle, O!Request,
       RecordFlags, RecordTargets

(* A step of one request leaves the locals of the others alone. *)
LEMMA OwnRequestMoves ==
  ASSUME O!TypeOK, NEW r \in RecordRequests, NEW q \in O!Request, v9' = [v9 EXCEPT ![r] = q]
  PROVE  /\ v9' \in [RecordRequests -> O!Request] /\ v9'[r] = q
         /\ \A s \in RecordRequests \ {r} : v9'[s] = v9[s]
BY DEF O!TypeOK

(* What was done stays done: a step that adds no row of a kind, forgets nothing of *)
(* done and changes no claim keeps what the rows of that kind say.                 *)
LEMMA DoneLasts ==
  ASSUME O!TypeOK, v10 \subseteq v10', v8' = v8
  PROVE  /\ O!BotsDone /\ v1' \subseteq v1 => O!BotsDone'
         /\ O!FlagsDone /\ v2' \subseteq v2 => O!FlagsDone'
         /\ O!SkillsDone /\ (\A k \in RecordKeys : v3'[k] # "none" => v3[k] # "none") => O!SkillsDone'
         /\ O!VersionsDone /\ v4' \subseteq v4 => O!VersionsDone'
         /\ O!PackDone /\ (v3'[PackSkillId] # "none" => v3[PackSkillId] # "none") => O!PackDone'
<1>1. O!BotsDone /\ v1' \subseteq v1 => O!BotsDone'
  BY DEF O!BotsDone
<1>2. O!FlagsDone /\ v2' \subseteq v2 => O!FlagsDone'
  BY DEF O!FlagsDone
<1>3. O!SkillsDone /\ (\A k \in RecordKeys : v3'[k] # "none" => v3[k] # "none") => O!SkillsDone'
  BY DEF O!SkillsDone
<1>4. O!VersionsDone /\ v4' \subseteq v4 => O!VersionsDone'
  BY DEF O!VersionsDone
<1>5. O!PackDone /\ (v3'[PackSkillId] # "none" => v3[PackSkillId] # "none") => O!PackDone'
  BY DEF O!PackDone
<1>6. QED
  BY <1>1, <1>2, <1>3, <1>4, <1>5

(* bots::claim for a key nobody used: no row carries the key yet, and no other *)
(* request holds it.                                                           *)
LEMMA ClaimsKeep ==
  ASSUME O!DoneInv, NEW r \in RecordRequests, NEW k \in RecordKeys, NEW q \in O!Request,
         v9[r].at = "idle", q.at = "writing", q.key = k, q.op \in O!Ops,
         q.op \in O!Creating => q.of = k, NEW t \in O!Targets,
         q.op \in {"assign", "unassign"} => q.of \in O!Skills,
         t = IF q.op = "duplicate_bot" THEN q.by ELSE q.of,
         O!New(k), v8' = [v8 EXCEPT ![k] = <<q.op, t>>], v9' = [v9 EXCEPT ![r] = q],
         UNCHANGED <<O!rows, v10, v11, v12>>
  PROVE  O!DoneInv'
<1>0. O!TypeOK /\ UNCHANGED <<v1, v2, v3, v4, v5, v6, v7>>
  BY DEF O!DoneInv, O!rows
<1>1. /\ v9' \in [RecordRequests -> O!Request] /\ v9'[r] = q
      /\ \A s \in RecordRequests \ {r} : v9'[s] = v9[s]
  BY <1>0, OwnRequestMoves
<1>2. /\ v8' \in [RecordKeys -> O!Claimed] /\ v8'[k] = <<q.op, t>>
      /\ \A i \in RecordKeys \ {k} : v8'[i] = v8[i]
  BY <1>0 DEF O!TypeOK, O!Claimed
<1>3. O!TypeOK'
  BY <1>0, <1>1, <1>2 DEF O!TypeOK
<1>4. \A s \in RecordRequests : v9[s].at # "idle" => v9[s].key \in RecordKeys /\ v9[s].key # k
  <2> SUFFICES ASSUME NEW s \in RecordRequests, v9[s].at # "idle"
               PROVE  v9[s].key \in RecordKeys /\ v9[s].key # k
    OBVIOUS
  <2>1. /\ v9[s].key \in RecordKeys /\ v9[s].op # "none"
        /\ v8[v9[s].key] = <<v9[s].op, IF v9[s].op = "duplicate_bot" THEN v9[s].by ELSE v9[s].of>>
    BY DEF O!DoneInv, O!HoldsClaim
  <2>2. QED
    BY <2>1 DEF O!New
<1>5. O!HoldsClaim'
  BY <1>1, <1>2, <1>4, RecordNames DEF O!HoldsClaim, O!DoneInv
<1>6. O!OneInstalls'
  BY <1>1, <1>4 DEF O!OneInstalls, O!DoneInv, O!Holds
<1>7. O!WrittenIsDone'
  BY <1>1 DEF O!WrittenIsDone, O!DoneInv
<1>8. v8[k][1] = "none"
  BY DEF O!New
<1>9. k \notin v1 /\ v3[k] = "none" /\ k \notin v4
  BY <1>8, RecordNames DEF O!DoneInv, O!BotsDone, O!SkillsDone, O!VersionsDone
<1>10. O!BotsDone' /\ O!SkillsDone'
  BY <1>0, <1>2, <1>9 DEF O!DoneInv, O!BotsDone, O!SkillsDone
<1>11. O!VersionsDone'
  BY <1>0, <1>2, <1>9 DEF O!DoneInv, O!VersionsDone, O!TypeOK
<1>12. O!FlagsDone' /\ O!PackDone' /\ O!AnsweredMeansDone'
  BY <1>0 DEF O!DoneInv, O!FlagsDone, O!PackDone, O!AnsweredMeansDone
<1>13. QED
  BY <1>3, <1>5, <1>6, <1>7, <1>10, <1>11, <1>12 DEF O!DoneInv

(* A step of a request that writes no row: its claim and what it is about stay as *)
(* they are.                                                                      *)
LEMMA GoesOnKeep ==
  ASSUME O!DoneInv, NEW r \in RecordRequests, NEW q \in O!Request, v9' = [v9 EXCEPT ![r] = q],
         UNCHANGED <<O!rows, v8, v10, v12>>,
         q.at # "idle" =>
           /\ q.key \in RecordKeys /\ q.op # "none" /\ (q.op \in O!Creating => q.of = q.key)
           /\ q.at = "assigning" => q.op \in {"assign", "unassign"}
           /\ q.op \in {"assign", "unassign"} => q.of \in O!Skills
           /\ v8[q.key] = <<q.op, IF q.op = "duplicate_bot" THEN q.by ELSE q.of>>
           /\ q.op = "install" => O!Holds(r, q.key) /\ v9[r].op = "install",
         q.at \in {"publishing", "closing"} =>
           <<q.op, IF q.op = "install" THEN PackSkillId ELSE q.of>> \in v10,
         O!AnsweredMeansDone', v11' \subseteq O!Ops \X O!Targets
  PROVE  O!DoneInv'
<1>0. O!TypeOK /\ UNCHANGED <<v1, v2, v3, v4, v5, v6, v7>>
  BY DEF O!DoneInv, O!rows
<1>1. /\ v9' \in [RecordRequests -> O!Request] /\ v9'[r] = q
      /\ \A s \in RecordRequests \ {r} : v9'[s] = v9[s]
  BY <1>0, OwnRequestMoves
<1>2. O!TypeOK'
  BY <1>0, <1>1 DEF O!TypeOK
<1>3. O!HoldsClaim' /\ O!WrittenIsDone'
  BY <1>1 DEF O!HoldsClaim, O!WrittenIsDone, O!DoneInv
<1>4. O!OneInstalls'
  <2> SUFFICES ASSUME NEW s \in RecordRequests, NEW u \in RecordRequests, NEW k \in RecordKeys,
                      O!Holds(s, k)', O!Holds(u, k)', v9'[s].op = "install"
               PROVE  s = u
    BY DEF O!OneInstalls
  <2>1. /\ v9'[s].at # "idle" /\ v9'[s].key = k /\ v9'[u].at # "idle" /\ v9'[u].key = k
    BY DEF O!Holds
  <2>2. \A t \in RecordRequests : v9'[t].at # "idle" /\ v9'[t].key = k => v8'[k][1] = v9'[t].op
    <3> TAKE t \in RecordRequests
    <3> HAVE v9'[t].at # "idle" /\ v9'[t].key = k
    <3>1. \E x : v8'[v9'[t].key] = <<v9'[t].op, x>>
      BY <1>3 DEF O!HoldsClaim
    <3>2. QED
      BY <3>1
  <2>3. v9'[u].op = "install"
    BY <2>1, <2>2
  <2>4. /\ v9[s].at # "idle" /\ v9[s].key = k /\ v9[s].op = "install"
        /\ v9[u].at # "idle" /\ v9[u].key = k
    BY <1>1, <2>1, <2>3 DEF O!Holds
  <2>5. QED
    BY <2>4 DEF O!OneInstalls, O!DoneInv, O!Holds
<1>5. O!BotsDone' /\ O!FlagsDone' /\ O!SkillsDone' /\ O!VersionsDone' /\ O!PackDone'
  BY <1>0, DoneLasts DEF O!DoneInv
<1>6. QED
  BY <1>2, <1>3, <1>4, <1>5 DEF O!DoneInv

(* A request that ends, with an answer only to what is done, with one to a *)
(* deletion, or with one that reads what was never set.                    *)
LEMMA RestsKeep ==
  ASSUME O!DoneInv, NEW r \in RecordRequests, v9' = [v9 EXCEPT ![r] = O!Idle],
         UNCHANGED <<O!rows, v8, v10, v12>>,
         \/ v11' = v11
         \/ \E t \in O!Ops \X O!Targets :
              /\ v11' = v11 \cup {t}
              /\ t \in v10 \/ t[1] = "delete_bot" \/ t[1] \in {O!Unset(f) : f \in O!Flags}
  PROVE  O!DoneInv'
<1>1. O!AnsweredMeansDone'
  BY DEF O!AnsweredMeansDone, O!DoneInv
<1>2. v11' \subseteq O!Ops \X O!Targets
  BY DEF O!DoneInv, O!TypeOK
<1>3. QED
  BY <1>1, <1>2, GoesOnKeep, RecordNames

(* The branch on a repeated key answers with success only what the state reflects, *)
(* and what it reflects was done by the request of that key.                       *)
LEMMA BeginKeeps ==
  ASSUME O!DoneInv, NEW r \in RecordRequests, NEW k \in RecordKeys, NEW op \in O!Ops, NEW t \in O!Targets,
         op # "duplicate_bot", op \in O!Creating => t = k,
         op \in {"assign", "unassign"} => t \in O!Skills, NEW reflected,
         O!Replayed(k, op, t) /\ reflected =>
           <<op, t>> \in v10 \/ op = "delete_bot" \/ op \in {O!Unset(f) : f \in O!Flags},
         O!Begin(r, k, op, t, reflected)
  PROVE  O!DoneInv'
<1> DEFINE q == [at |-> "writing", key |-> k, op |-> op, of |-> t, by |-> None]
<1>1. v9[r].at = "idle" /\ UNCHANGED <<O!rows, v10, v12>>
  BY DEF O!Begin
<1>2. CASE O!Claims(r, k, op, t)
  <2>1. q \in O!Request
    BY DEF O!Request
  <2>2. O!New(k) /\ v8' = [v8 EXCEPT ![k] = <<op, t>>] /\ v9' = [v9 EXCEPT ![r] = q] /\ v11' = v11
    BY <1>2 DEF O!Claims, O!Open
  <2>3. QED
    BY <1>1, <2>1, <2>2, ClaimsKeep
<1>3. CASE /\ O!Replayed(k, op, t) /\ v8' = v8
           /\ IF reflected THEN O!Answer(r, op, t) ELSE O!Reply(r)
  <2>1. v9' = [v9 EXCEPT ![r] = O!Idle]
    BY <1>3 DEF O!Answer, O!Reply
  <2>2. CASE reflected
    <3>1. v11' = v11 \cup {<<op, t>>} /\ <<op, t>> \in O!Ops \X O!Targets
      BY <1>3, <2>2 DEF O!Answer
    <3>2. QED
      BY <1>1, <1>3, <2>1, <2>2, <3>1, RestsKeep
  <2>3. CASE ~reflected
    BY <1>1, <1>3, <2>1, <2>3, RestsKeep DEF O!Reply
  <2>4. QED
    BY <2>2, <2>3
<1>4. QED
  BY <1>2, <1>3 DEF O!Begin

(* The operations that ignore the claim: a repeated key writes again, and nothing *)
(* is answered before it has written.                                             *)
LEMMA BeginAnywayKeeps ==
  ASSUME O!DoneInv, NEW r \in RecordRequests, NEW k \in RecordKeys,
         NEW op \in O!Ops \ (O!Creating \cup {"install"}), NEW t \in O!Targets,
         op \in {"assign", "unassign"} => t \in O!Skills, O!BeginAnyway(r, k, op, t)
  PROVE  O!DoneInv'
<1> DEFINE q == [at |-> "writing", key |-> k, op |-> op, of |-> t, by |-> None]
<1>1. v9[r].at = "idle" /\ UNCHANGED <<O!rows, v10, v12>>
  BY DEF O!BeginAnyway
<1>2. q \in O!Request /\ op # "duplicate_bot" /\ op # "none" /\ op # "install"
  BY RecordNames DEF O!Request
<1>3. CASE O!Claims(r, k, op, t)
  <2>1. O!New(k) /\ v8' = [v8 EXCEPT ![k] = <<op, t>>] /\ v9' = [v9 EXCEPT ![r] = q] /\ v11' = v11
    BY <1>3 DEF O!Claims, O!Open
  <2>2. QED
    BY <1>1, <1>2, <2>1, ClaimsKeep
<1>4. CASE O!Replayed(k, op, t) /\ O!Open(r, "writing", k, op, t) /\ v8' = v8
  <2>1. v9' = [v9 EXCEPT ![r] = q] /\ v11' = v11 /\ v8[k] = <<op, t>>
    BY <1>4 DEF O!Open, O!Replayed
  <2>2. O!AnsweredMeansDone' /\ v11' \subseteq O!Ops \X O!Targets
    BY <1>1, <2>1 DEF O!DoneInv, O!AnsweredMeansDone, O!TypeOK
  <2>3. QED
    BY <1>1, <1>2, <1>4, <2>1, <2>2, GoesOnKeep
<1>5. QED
  BY <1>3, <1>4 DEF O!BeginAnyway

(* A write of rows that records what it did: the request keeps its claim. *)
LEMMA WritesKeep ==
  ASSUME O!DoneInv, NEW r \in RecordRequests, v9[r].at # "idle",
         NEW a \in {"publishing", "closing"}, v9' = [v9 EXCEPT ![r].at = a],
         v10' = v10 \cup {<<v9[r].op, IF v9[r].op = "install" THEN PackSkillId ELSE v9[r].of>>},
         UNCHANGED <<v8, v11, v12>>,
         v1' \subseteq O!Bots, v2' \subseteq v1' \X (O!Flags \cup {"unread"}),
         v3' \in [O!Skills -> {"none", "live", "deleted"}], v4' \subseteq RecordKeys,
         v5' \subseteq v1' \X O!Skills, v6' \in BOOLEAN, v7' = v7,
         O!BotsDone' /\ O!FlagsDone' /\ O!SkillsDone' /\ O!VersionsDone' /\ O!PackDone'
  PROVE  O!DoneInv'
<1> DEFINE q == [v9[r] EXCEPT !.at = a]
<1>0. O!TypeOK /\ v9[r] \in O!Request
  BY DEF O!DoneInv, O!TypeOK
<1>1. v9[r].key \in RecordKeys /\ v9[r].op # "none" /\ v9[r].of \in O!Targets /\ v9[r].op \in O!Ops
  <2>1. v9[r].op \in O!Ops \cup {"none"} /\ v9[r].op # "none" /\ v9[r].key \in RecordKeys
        /\ (v9[r].op \in O!Creating => v9[r].of = v9[r].key)
        /\ v8[v9[r].key] = <<v9[r].op, IF v9[r].op = "duplicate_bot" THEN v9[r].by ELSE v9[r].of>>
    BY <1>0 DEF O!DoneInv, O!HoldsClaim, O!Request
  <2>2. v8[v9[r].key] \in O!Ops \X O!Targets
    BY <1>0, <2>1, RecordNames DEF O!TypeOK, O!Claimed
  <2>3. v9[r].op \in O!Ops
    BY <2>1, RecordNames
  <2>4. CASE v9[r].op = "duplicate_bot"
    BY <2>1, <2>3, <2>4, RecordNames DEF RecordTargets
  <2>5. CASE v9[r].op # "duplicate_bot"
    BY <2>1, <2>2, <2>3, <2>5
  <2>6. QED
    BY <2>4, <2>5
<1>2. q \in O!Request /\ q.at = a /\ q.key = v9[r].key /\ q.op = v9[r].op /\ q.of = v9[r].of /\ q.by = v9[r].by
  BY <1>0 DEF O!Request
<1>3. v9' = [v9 EXCEPT ![r] = q]
  BY <1>0
<1> HIDE DEF q
<1>4. /\ v9' \in [RecordRequests -> O!Request] /\ v9'[r] = q
      /\ \A s \in RecordRequests \ {r} : v9'[s] = v9[s]
  BY <1>0, <1>2, <1>3, OwnRequestMoves
<1>5. <<v9[r].op, IF v9[r].op = "install" THEN PackSkillId ELSE v9[r].of>> \in O!Ops \X O!Targets
  BY <1>1, RecordNames DEF RecordTargets
<1>6. O!TypeOK'
  BY <1>0, <1>4, <1>5 DEF O!TypeOK
<1>7. O!HoldsClaim'
  <2>1. \A s \in RecordRequests :
          /\ v9'[s].key = v9[s].key /\ v9'[s].op = v9[s].op /\ v9'[s].of = v9[s].of
          /\ v9'[s].by = v9[s].by /\ (v9'[s].at # "idle" => v9[s].at # "idle")
          /\ (v9'[s].at = "assigning" => v9[s].at = "assigning")
    BY <1>2, <1>4
  <2>2. O!HoldsClaim
    BY DEF O!DoneInv
  <2>3. ASSUME NEW s \in RecordRequests, v9'[s].at # "idle"
        PROVE  /\ v9'[s].key \in RecordKeys /\ v9'[s].op # "none"
               /\ (v9'[s].op \in O!Creating => v9'[s].of = v9'[s].key)
               /\ (v9'[s].at = "assigning" => v9'[s].op \in {"assign", "unassign"})
               /\ (v9'[s].op \in {"assign", "unassign"} => v9'[s].of \in O!Skills)
               /\ v8'[v9'[s].key] = <<v9'[s].op, IF v9'[s].op = "duplicate_bot" THEN v9'[s].by ELSE v9'[s].of>>
    <3>1. v9[s].at # "idle"
      BY <2>1, <2>3
    <3>2. /\ v9[s].key \in RecordKeys /\ v9[s].op # "none"
          /\ (v9[s].op \in O!Creating => v9[s].of = v9[s].key)
          /\ (v9[s].at = "assigning" => v9[s].op \in {"assign", "unassign"})
          /\ (v9[s].op \in {"assign", "unassign"} => v9[s].of \in O!Skills)
          /\ v8[v9[s].key] = <<v9[s].op, IF v9[s].op = "duplicate_bot" THEN v9[s].by ELSE v9[s].of>>
      BY <2>2, <3>1 DEF O!HoldsClaim
    <3>3. /\ v9'[s].key = v9[s].key /\ v9'[s].op = v9[s].op /\ v9'[s].of = v9[s].of
          /\ v9'[s].by = v9[s].by /\ (v9'[s].at = "assigning" => v9[s].at = "assigning")
      BY <2>1
    <3>4. v8'[v9'[s].key] = <<v9'[s].op, IF v9'[s].op = "duplicate_bot" THEN v9'[s].by ELSE v9'[s].of>>
      BY <3>2, <3>3
    <3>5. QED
      BY <3>2, <3>3, <3>4
  <2>4. QED
    BY <2>3 DEF O!HoldsClaim
<1>8. O!OneInstalls'
  BY <1>2, <1>4 DEF O!OneInstalls, O!Holds, O!DoneInv
<1>9. O!WrittenIsDone'
  BY <1>2, <1>4 DEF O!WrittenIsDone, O!DoneInv
<1>10. O!AnsweredMeansDone'
  BY DEF O!AnsweredMeansDone, O!DoneInv
<1>11. QED
  BY <1>6, <1>7, <1>8, <1>9, <1>10 DEF O!DoneInv

(* Nothing is claimed, written or told at the start. *)
LEMMA RecordsInit == O!Init => O!DoneInv
<1> SUFFICES ASSUME O!Init PROVE O!DoneInv
  OBVIOUS
<1>1. O!TypeOK
  BY RecordNames DEF O!Init, O!TypeOK, O!Claimed
<1>2. O!HoldsClaim /\ O!OneInstalls /\ O!WrittenIsDone
  BY RecordNames DEF O!Init, O!HoldsClaim, O!OneInstalls, O!WrittenIsDone, O!Holds
<1>3. O!BotsDone /\ O!FlagsDone /\ O!SkillsDone /\ O!VersionsDone /\ O!PackDone
  BY RecordNames, OwnerAssumption
     DEF O!Init, O!BotsDone, O!FlagsDone, O!SkillsDone, O!VersionsDone, O!PackDone
<1>4. O!AnsweredMeansDone
  BY DEF O!Init, O!AnsweredMeansDone
<1>5. QED
  BY <1>1, <1>2, <1>3, <1>4 DEF O!DoneInv

(* What a working request knows: its key is claimed for its operation, and what it *)
(* creates has the key as its id.                                                  *)
LEMMA WrittenKnows ==
  ASSUME O!DoneInv, NEW r \in RecordRequests, v9[r].at # "idle"
  PROVE  /\ v9[r].key \in RecordKeys
         /\ v9[r].op \in O!Creating => v9[r].of = v9[r].key
         /\ v9[r].op # "duplicate_bot" => v8[v9[r].key] = <<v9[r].op, v9[r].of>>
         /\ v8[v9[r].key][1] = v9[r].op
         /\ v9[r].of \in O!Targets
         /\ v9[r].at = "assigning" => v9[r].op \in {"assign", "unassign"}
         /\ v9[r].op \in {"assign", "unassign"} => v9[r].of \in O!Skills
<1>0. O!TypeOK /\ v9[r] \in O!Request
  BY DEF O!DoneInv, O!TypeOK
<1>1. v9[r].op \in O!Ops \cup {"none"} /\ v9[r].op # "none" /\ v9[r].key \in RecordKeys
      /\ (v9[r].op \in O!Creating => v9[r].of = v9[r].key)
      /\ v8[v9[r].key] = <<v9[r].op, IF v9[r].op = "duplicate_bot" THEN v9[r].by ELSE v9[r].of>>
  BY <1>0 DEF O!DoneInv, O!HoldsClaim, O!Request
<1>2. v8[v9[r].key] \in O!Ops \X O!Targets
  BY <1>0, <1>1, RecordNames DEF O!TypeOK, O!Claimed
<1>3. v9[r].of \in O!Targets
  <2>1. CASE v9[r].op = "duplicate_bot"
    BY <1>1, <2>1, RecordNames DEF RecordTargets
  <2>2. CASE v9[r].op # "duplicate_bot"
    BY <1>1, <1>2, <2>2
  <2>3. QED
    BY <2>1, <2>2
<1>4. /\ v9[r].at = "assigning" => v9[r].op \in {"assign", "unassign"}
      /\ v9[r].op \in {"assign", "unassign"} => v9[r].of \in O!Skills
  BY DEF O!DoneInv, O!HoldsClaim
<1>5. QED
  BY <1>1, <1>3, <1>4

(* The writes of bots.rs: a Bot is created under the key of its request, and a flag *)
(* is set by the operation of that name.                                            *)
LEMMA BotWritesKeep ==
  ASSUME O!DoneInv, NEW r \in RecordRequests,
         \/ O!CreateBot(r) \/ O!UpdateBot(r) \/ O!MarkBotRead(r) \/ O!SetBotArchived(r)
         \/ O!SetBotFlag(r) \/ O!DeleteBot(r) \/ O!DuplicateBotConfiguration(r)
  PROVE  O!DoneInv'
<1> DEFINE op == v9[r].op
           b == v9[r].of
<1>0. O!TypeOK /\ v9[r].at = "writing"
  BY DEF O!DoneInv, O!Writing, O!CreateBot, O!UpdateBot, O!MarkBotRead, O!SetBotArchived, O!SetBotFlag,
         O!DeleteBot, O!DuplicateBotConfiguration
<1>1. O!Wrote(r, b) /\ op # "install" /\ UNCHANGED <<v3, v4, v7>>
  <2>1. \A f \in O!Flags : f # "install" /\ O!Unset(f) # "install"
    BY RecordNames DEF RecordFlags
  <2>2. QED
    BY <2>1, RecordNames DEF O!Writing, O!CreateBot, O!UpdateBot, O!MarkBotRead, O!SetBotArchived, O!SetBotFlag,
         O!DeleteBot, O!DuplicateBotConfiguration, O!rows, RecordFlags
<1>2. /\ v9' = [v9 EXCEPT ![r].at = "publishing"] /\ v10' = v10 \cup {<<op, b>>}
      /\ UNCHANGED <<v8, v11, v12>>
  BY <1>1 DEF O!Wrote
<1>3. O!SkillsDone' /\ O!VersionsDone' /\ O!PackDone'
  BY <1>0, <1>1, <1>2, DoneLasts DEF O!DoneInv
<1>4. /\ v3' \in [O!Skills -> {"none", "live", "deleted"}] /\ v4' \subseteq RecordKeys
  BY <1>0, <1>1 DEF O!TypeOK
<1>5. ASSUME v1' \subseteq O!Bots, v2' \subseteq v1' \X (O!Flags \cup {"unread"}),
             v5' \subseteq v1' \X O!Skills, v6' \in BOOLEAN, O!BotsDone', O!FlagsDone'
      PROVE  O!DoneInv'
  <2>1. v10' = v10 \cup {<<v9[r].op, IF v9[r].op = "install" THEN PackSkillId ELSE v9[r].of>>}
    BY <1>1, <1>2
  <2>2. QED
    BY <1>0, <1>1, <1>2, <1>3, <1>4, <1>5, <2>1, WritesKeep
<1>6. /\ v1 \subseteq O!Bots /\ v2 \subseteq v1 \X (O!Flags \cup {"unread"})
      /\ v5 \subseteq v1 \X O!Skills /\ v6 \in BOOLEAN
  BY <1>0 DEF O!TypeOK
<1>7. O!BotsDone /\ O!FlagsDone /\ (v1' \subseteq v1 => O!BotsDone') /\ (v2' \subseteq v2 => O!FlagsDone')
  BY <1>0, <1>2, DoneLasts DEF O!DoneInv
<1>8. v9[r].key \in RecordKeys /\ (op \in O!Creating => b = v9[r].key) /\ v8[v9[r].key][1] = op
  BY <1>0, WrittenKnows
<1>9. ASSUME op \in {"create_bot", "duplicate_bot"}, v1' = v1 \cup {b}, v2' = v2, v6' = v6,
             v5' \subseteq v1' \X O!Skills
      PROVE  O!DoneInv'
  <2>1. b \in RecordKeys /\ v8[b][1] = op
    BY <1>8, <1>9, RecordNames
  <2>2. v1' \subseteq O!Bots
    BY <1>6, <1>9, <2>1, RecordNames
  <2>3. v2' \subseteq v1' \X (O!Flags \cup {"unread"})
    BY <1>6, <1>9
  <2>4. O!BotsDone'
    BY <1>2, <1>7, <1>9, <2>1 DEF O!BotsDone
  <2>5. QED
    BY <1>5, <1>6, <1>7, <1>9, <2>2, <2>3, <2>4
<1>10. ASSUME v1' = v1, v5' = v5, v6' = v6, v2' \subseteq v1 \X (O!Flags \cup {"unread"}), O!FlagsDone'
       PROVE  O!DoneInv'
  BY <1>5, <1>6, <1>7, <1>10
<1>11. CASE O!CreateBot(r)
  <2>1. op = "create_bot" /\ v1' = v1 \cup {b} /\ UNCHANGED <<v2, v5, v6>>
    BY <1>11 DEF O!CreateBot, O!Writing
  <2>2. v5' \subseteq v1' \X O!Skills
    BY <1>6, <2>1
  <2>3. QED
    BY <1>9, <2>1, <2>2
<1>12. CASE O!UpdateBot(r)
  BY <1>6, <1>7, <1>10, <1>12 DEF O!UpdateBot, O!rows
<1>13. CASE O!MarkBotRead(r)
  <2>1. v2' \subseteq v2 /\ UNCHANGED <<v1, v5, v6>>
    BY <1>13 DEF O!MarkBotRead
  <2>2. QED
    BY <1>6, <1>7, <1>10, <2>1
<1>14. CASE O!SetBotArchived(r)
  <2>1. /\ b \in v1 /\ UNCHANGED <<v1, v5, v6>>
        /\ \/ op = "archived" /\ v2' = v2 \cup {<<b, "archived">>}
           \/ v2' \subseteq v2
    BY <1>14 DEF O!SetBotArchived, O!Writing
  <2>2. v2' \subseteq v1 \X (O!Flags \cup {"unread"})
    BY <1>6, <2>1, RecordNames DEF RecordFlags
  <2>3. O!FlagsDone'
    BY <1>2, <1>7, <2>1 DEF O!FlagsDone
  <2>4. QED
    BY <1>10, <2>1, <2>2, <2>3
<1>15. CASE O!SetBotFlag(r)
  <2>1. b \in v1 /\ UNCHANGED <<v1, v5, v6>>
    BY <1>15 DEF O!SetBotFlag
  <2>2. PICK f \in O!Flags : (op = f /\ v2' = v2 \cup {<<b, f>>}) \/ v2' \subseteq v2
    BY <1>15 DEF O!SetBotFlag, O!Writing
  <2>3. v2' \subseteq v1 \X (O!Flags \cup {"unread"})
    BY <1>6, <2>1, <2>2
  <2>4. O!FlagsDone'
    BY <1>2, <1>7, <2>2 DEF O!FlagsDone
  <2>5. QED
    BY <1>10, <2>1, <2>3, <2>4
<1>16. CASE O!DeleteBot(r)
  <2>1. /\ v1' = v1 \ {b} /\ v2' = {p \in v2 : p[1] # b} /\ v5' = {p \in v5 : p[1] # b}
        /\ v6' = (v6 /\ b # FirstBotId)
    BY <1>16 DEF O!DeleteBot
  <2>2. v2' \subseteq v1' \X (O!Flags \cup {"unread"}) /\ v5' \subseteq v1' \X O!Skills
    BY <1>6, <2>1
  <2>3. v6' \in BOOLEAN
    BY <2>1
  <2>4. v1' \subseteq v1 /\ v2' \subseteq v2
    BY <2>1
  <2>5. QED
    BY <1>5, <1>6, <1>7, <2>2, <2>3, <2>4
<1>17. CASE O!DuplicateBotConfiguration(r)
  <2>1. /\ op = "duplicate_bot" /\ v1' = v1 \cup {b} /\ UNCHANGED <<v2, v6>>
        /\ v5' = v5 \cup {<<b, p[2]>> : p \in {q \in v5 : q[1] = v9[r].by}}
    BY <1>17 DEF O!DuplicateBotConfiguration, O!Writing
  <2>2. v5' \subseteq v1' \X O!Skills
    BY <1>6, <2>1
  <2>3. QED
    BY <1>9, <2>1, <2>2
<1>18. QED
  BY <1>11, <1>12, <1>13, <1>14, <1>15, <1>16, <1>17

(* A write that leaves the Bots and their flags alone. *)
LEMMA SkillWritesKeep ==
  ASSUME O!DoneInv, NEW r \in RecordRequests, v9[r].at # "idle",
         NEW a \in {"publishing", "closing"}, v9' = [v9 EXCEPT ![r].at = a],
         v10' = v10 \cup {<<v9[r].op, IF v9[r].op = "install" THEN PackSkillId ELSE v9[r].of>>},
         UNCHANGED <<v1, v2, v7, v8, v11, v12>>,
         v3' \in [O!Skills -> {"none", "live", "deleted"}], v4' \subseteq RecordKeys,
         v5' \subseteq v1 \X O!Skills, v6' \in BOOLEAN,
         O!SkillsDone' /\ O!VersionsDone' /\ O!PackDone'
  PROVE  O!DoneInv'
<1>1. O!TypeOK
  BY DEF O!DoneInv
<1>2. O!BotsDone' /\ O!FlagsDone'
  BY <1>1, DoneLasts DEF O!DoneInv
<1>3. v1' \subseteq O!Bots /\ v2' \subseteq v1' \X (O!Flags \cup {"unread"}) /\ v5' \subseteq v1' \X O!Skills
  BY <1>1 DEF O!TypeOK
<1>4. QED
  BY <1>2, <1>3, WritesKeep

(* A Skill is inserted under the key of its request. *)
LEMMA SkillInserted ==
  ASSUME O!DoneInv, NEW r \in RecordRequests, v9[r].at # "idle", v9[r].op \in O!Creating \ {"duplicate_bot"},
         NEW a \in {"publishing", "closing"}, v9' = [v9 EXCEPT ![r].at = a],
         v10' = v10 \cup {<<v9[r].op, v9[r].of>>}, v3' = [v3 EXCEPT ![v9[r].of] = "live"],
         UNCHANGED <<v1, v2, v4, v5, v6, v7, v8, v11, v12>>
  PROVE  O!DoneInv'
<1> DEFINE k == v9[r].of
<1>0. O!TypeOK /\ O!SkillsDone /\ O!VersionsDone /\ O!PackDone
  BY DEF O!DoneInv
<1>1. k \in RecordKeys /\ v8[k] = <<v9[r].op, k>>
  BY WrittenKnows
<1>2. /\ v3' \in [O!Skills -> {"none", "live", "deleted"}] /\ v3'[k] = "live"
      /\ \A i \in O!Skills \ {k} : v3'[i] = v3[i]
  BY <1>0, <1>1, RecordNames DEF O!TypeOK
<1>3. v3'[PackSkillId] = v3[PackSkillId]
  BY <1>1, <1>2, RecordNames, OwnerAssumption
<1>4. O!VersionsDone' /\ O!PackDone'
  BY <1>0, <1>3, DoneLasts
<1>5. O!SkillsDone'
  <2>1. \A i \in RecordKeys \ {k} : v3'[i] = v3[i]
    BY <1>2, RecordNames
  <2>2. v8[k][1] \in O!Creating /\ v8[k] \in v10'
    BY <1>1
  <2>3. QED
    BY <1>0, <2>1, <2>2 DEF O!SkillsDone
<1>6. v9[r].op # "install"
  BY RecordNames
<1>7. v4' \subseteq RecordKeys /\ v5' \subseteq v1 \X O!Skills /\ v6' \in BOOLEAN
  BY <1>0 DEF O!TypeOK
<1>8. QED
  BY <1>2, <1>4, <1>5, <1>6, <1>7, SkillWritesKeep

(* A version of a Skill carries the key of the request that made it. *)
LEMMA VersionAdded ==
  ASSUME O!DoneInv, NEW r \in RecordRequests, v9[r].at # "idle", v9[r].op \in {"import_skill", "update_skill"},
         v9' = [v9 EXCEPT ![r].at = "publishing"],
         v10' = v10 \cup {<<v9[r].op, v9[r].of>>}, v4' = v4 \cup {v9[r].key},
         UNCHANGED <<v1, v2, v3, v5, v6, v7, v8, v11, v12>>
  PROVE  O!DoneInv'
<1> DEFINE k == v9[r].key
<1>0. O!TypeOK /\ O!SkillsDone /\ O!VersionsDone /\ O!PackDone
  BY DEF O!DoneInv
<1>1. k \in RecordKeys /\ v8[k] = <<v9[r].op, v9[r].of>>
  BY WrittenKnows
<1>2. O!SkillsDone' /\ O!PackDone'
  BY <1>0, DoneLasts
<1>3. O!VersionsDone'
  <2>1. v8[k][1] \in {"import_skill", "update_skill"} /\ v8[k] \in v10'
    BY <1>1
  <2>2. QED
    BY <1>0, <2>1 DEF O!VersionsDone
<1>4. /\ v3' \in [O!Skills -> {"none", "live", "deleted"}]
      /\ v4' \subseteq RecordKeys /\ v5' \subseteq v1 \X O!Skills /\ v6' \in BOOLEAN
  BY <1>0, <1>1 DEF O!TypeOK
<1>5. v9[r].op # "install"
  OBVIOUS
<1>6. QED
  BY <1>2, <1>3, <1>4, <1>5, SkillWritesKeep

(* The writes of skills.rs and assistant_packs.rs, the two-step assignment and the *)
(* closing of a demonstration among them.                                          *)
LEMMA SkillStepsKeep ==
  ASSUME O!DoneInv, NEW r \in RecordRequests,
         \/ O!InsertSkill(r) \/ O!ImportVersion(r) \/ O!InsertDemonstrated(r)
         \/ O!CloseRoutineRecording(r) \/ O!UpdateSkillRow(r) \/ O!AssignReads(r)
         \/ O!SetSkillAssignment(r) \/ O!InstallAssistantPack(r)
  PROVE  O!DoneInv'
<1>0. O!TypeOK /\ v9[r] \in O!Request /\ v9[r].at # "idle"
  BY DEF O!DoneInv, O!TypeOK, O!Writing, O!InsertSkill, O!ImportVersion, O!InsertDemonstrated,
         O!CloseRoutineRecording, O!UpdateSkillRow, O!AssignReads, O!SetSkillAssignment, O!InstallAssistantPack
<1>a. O!SkillsDone /\ O!VersionsDone /\ O!PackDone
  BY DEF O!DoneInv
<1>1. CASE O!InsertSkill(r)
  <2>1. /\ v9[r].op \in {"create_skill", "import_skill", "duplicate_skill"}
        /\ v3' = [v3 EXCEPT ![v9[r].of] = "live"] /\ O!Wrote(r, v9[r].of)
        /\ UNCHANGED <<v1, v2, v4, v5, v6, v7>>
    BY <1>1 DEF O!InsertSkill, O!Writing
  <2>2. /\ v10' = v10 \cup {<<v9[r].op, v9[r].of>>} /\ v9' = [v9 EXCEPT ![r].at = "publishing"]
        /\ UNCHANGED <<v8, v11, v12>>
    BY <2>1 DEF O!Wrote
  <2>3. v9[r].op \in O!Creating \ {"duplicate_bot"}
    BY <2>1, RecordNames
  <2>4. QED
    BY <1>0, <2>1, <2>2, <2>3, SkillInserted
<1>2. CASE O!ImportVersion(r)
  <2>1. /\ v9[r].op = "import_skill" /\ v4' = v4 \cup {v9[r].of} /\ O!Wrote(r, v9[r].of)
        /\ UNCHANGED <<v1, v2, v3, v5, v6, v7>>
    BY <1>2 DEF O!ImportVersion, O!Writing
  <2>2. /\ v10' = v10 \cup {<<v9[r].op, v9[r].of>>} /\ v9' = [v9 EXCEPT ![r].at = "publishing"]
        /\ UNCHANGED <<v8, v11, v12>>
    BY <2>1 DEF O!Wrote
  <2>3. v9[r].of = v9[r].key
    BY <1>0, <2>1, WrittenKnows, RecordNames
  <2>4. QED
    BY <1>0, <2>1, <2>2, <2>3, VersionAdded
<1>3. CASE O!InsertDemonstrated(r)
  <2>1. /\ v9[r].op = "finish_recording" /\ v3' = [v3 EXCEPT ![v9[r].of] = "live"]
        /\ v9' = [v9 EXCEPT ![r].at = "closing"]
        /\ v10' = v10 \cup {<<v9[r].op, v9[r].of>>}
        /\ UNCHANGED <<v1, v2, v4, v5, v6, v7, v8, v11, v12>>
    BY <1>3 DEF O!InsertDemonstrated, O!Writing
  <2>2. v9[r].op \in O!Creating \ {"duplicate_bot"}
    BY <2>1, RecordNames
  <2>3. QED
    BY <1>0, <2>1, <2>2, SkillInserted
<1>4. CASE O!CloseRoutineRecording(r)
  <2>0. v9[r].at = "closing" /\ UNCHANGED <<v1, v2, v3, v4, v5, v6, v8, v10, v12>>
    BY <1>4 DEF O!CloseRoutineRecording
  <2>a. <<v9[r].op, IF v9[r].op = "install" THEN PackSkillId ELSE v9[r].of>> \in v10
    BY <2>0 DEF O!DoneInv, O!WrittenIsDone
  <2>1. CASE v7' = "closed" /\ v9' = [v9 EXCEPT ![r].at = "publishing"] /\ v11' = v11
    <3>1. O!BotsDone' /\ O!FlagsDone' /\ O!SkillsDone' /\ O!VersionsDone' /\ O!PackDone'
      BY <1>0, <2>0, DoneLasts DEF O!DoneInv
    <3> DEFINE q == [v9[r] EXCEPT !.at = "publishing"]
    <3>2. q \in O!Request /\ q.at = "publishing" /\ q.key = v9[r].key /\ q.op = v9[r].op
          /\ q.of = v9[r].of /\ q.by = v9[r].by /\ v9' = [v9 EXCEPT ![r] = q]
      BY <1>0, <2>1 DEF O!Request
    <3> HIDE DEF q
    <3>3. /\ v9' \in [RecordRequests -> O!Request] /\ v9'[r] = q
          /\ \A s \in RecordRequests \ {r} : v9'[s] = v9[s]
      BY <1>0, <3>2, OwnRequestMoves
    <3>4. O!TypeOK'
      BY <1>0, <2>0, <2>1, <3>3 DEF O!TypeOK
    <3>5. \A s \in RecordRequests :
            /\ v9'[s].key = v9[s].key /\ v9'[s].op = v9[s].op /\ v9'[s].of = v9[s].of
            /\ v9'[s].by = v9[s].by /\ (v9'[s].at # "idle" => v9[s].at # "idle")
          /\ (v9'[s].at = "assigning" => v9[s].at = "assigning")
      BY <1>0, <3>2, <3>3
    <3>6. O!HoldsClaim'
      BY <2>0, <3>5 DEF O!HoldsClaim, O!DoneInv
    <3>7. O!OneInstalls'
      BY <3>5 DEF O!OneInstalls, O!DoneInv, O!Holds
    <3>8. O!WrittenIsDone'
      BY <2>0, <2>a, <3>2, <3>3 DEF O!WrittenIsDone, O!DoneInv
    <3>9. O!AnsweredMeansDone'
      BY <2>0, <2>1 DEF O!AnsweredMeansDone, O!DoneInv
    <3>10. QED
      BY <3>1, <3>4, <3>6, <3>7, <3>8, <3>9 DEF O!DoneInv
  <2>2. CASE O!Reply(r) /\ v7' = v7
    BY <2>0, <2>2, RestsKeep DEF O!Reply, O!rows
  <2>3. QED
    BY <1>4, <2>1, <2>2 DEF O!CloseRoutineRecording
<1>5. CASE O!UpdateSkillRow(r)
  <2>1. /\ v9[r].op = "update_skill" /\ v4' = v4 \cup {v9[r].key} /\ O!Wrote(r, v9[r].of)
        /\ UNCHANGED <<v1, v2, v3, v5, v6, v7>>
    BY <1>5 DEF O!UpdateSkillRow, O!Writing
  <2>2. /\ v10' = v10 \cup {<<v9[r].op, v9[r].of>>} /\ v9' = [v9 EXCEPT ![r].at = "publishing"]
        /\ UNCHANGED <<v8, v11, v12>>
    BY <2>1 DEF O!Wrote
  <2>3. QED
    BY <1>0, <2>1, <2>2, VersionAdded
<1>6. CASE O!AssignReads(r)
  <2> DEFINE q == [v9[r] EXCEPT !.at = "assigning"]
  <2>1. /\ q \in O!Request /\ q.at = "assigning" /\ q.key = v9[r].key /\ q.op = v9[r].op
        /\ q.of = v9[r].of /\ q.by = v9[r].by
    BY <1>0 DEF O!Request
  <2>2. /\ v9[r].op \in {"assign", "unassign"} /\ v9' = [v9 EXCEPT ![r] = q]
        /\ UNCHANGED <<O!rows, v8, v10, v11, v12>>
    BY <1>0, <1>6 DEF O!AssignReads, O!Writing
  <2> HIDE DEF q
  <2>3. /\ v9[r].key \in RecordKeys /\ v9[r].op \notin O!Creating /\ v9[r].op # "install"
        /\ v8[v9[r].key] = <<v9[r].op, v9[r].of>>
    BY <1>0, <2>2, WrittenKnows, RecordNames
  <2>b. v9[r].of \in O!Skills
    BY <1>0, <2>2, WrittenKnows
  <2>4. O!AnsweredMeansDone' /\ v11' \subseteq O!Ops \X O!Targets
    BY <1>0, <2>2 DEF O!AnsweredMeansDone, O!DoneInv, O!TypeOK
  <2>5. /\ q.key \in RecordKeys /\ q.op # "none" /\ q.op # "install" /\ q.op \notin O!Creating
        /\ v8[q.key] = <<q.op, IF q.op = "duplicate_bot" THEN q.by ELSE q.of>>
    BY <2>1, <2>2, <2>3
  <2>c. q.of \in O!Skills /\ q.op \in {"assign", "unassign"}
    BY <2>1, <2>2, <2>b
  <2>6. QED
    BY <2>1, <2>2, <2>4, <2>5, <2>c, GoesOnKeep
<1>7. CASE O!SetSkillAssignment(r)
  <2>0. v9[r].at = "assigning" /\ UNCHANGED <<v1, v2, v3, v4, v6, v7>>
    BY <1>7 DEF O!SetSkillAssignment
  <2>1. CASE FirstBotId \in v1 /\ O!Wrote(r, v9[r].of)
             /\ v5' = IF v9[r].op = "assign" THEN v5 \cup {<<FirstBotId, v9[r].of>>}
                      ELSE v5 \ {<<FirstBotId, v9[r].of>>}
    <3>1. v9[r].op # "install"
      BY <1>0, <2>0, WrittenKnows
    <3>2. /\ v10' = v10 \cup {<<v9[r].op, IF v9[r].op = "install" THEN PackSkillId ELSE v9[r].of>>}
          /\ v9' = [v9 EXCEPT ![r].at = "publishing"] /\ UNCHANGED <<v8, v11, v12>>
      BY <2>1, <3>1 DEF O!Wrote
    <3>3. O!SkillsDone' /\ O!VersionsDone' /\ O!PackDone'
      BY <1>0, <1>a, <2>0, <3>2, DoneLasts
    <3>4. v5' \subseteq v1 \X O!Skills
      <4>1. v5 \subseteq v1 \X O!Skills
        BY <1>0 DEF O!TypeOK
      <4>2. CASE v9[r].op = "assign"
        <5>1. v9[r].of \in O!Skills
          BY <1>0, <4>2, WrittenKnows
        <5>2. QED
          BY <2>1, <4>1, <4>2, <5>1
      <4>3. CASE v9[r].op # "assign"
        BY <2>1, <4>1, <4>3
      <4>4. QED
        BY <4>2, <4>3
    <3>5. /\ v3' \in [O!Skills -> {"none", "live", "deleted"}] /\ v4' \subseteq RecordKeys
          /\ v6' \in BOOLEAN
      BY <1>0, <2>0 DEF O!TypeOK
    <3>6. QED
      BY <1>0, <2>0, <3>2, <3>3, <3>4, <3>5, SkillWritesKeep
  <2>2. CASE O!Reply(r) /\ UNCHANGED <<v5, v8, v10, v12>>
    BY <2>0, <2>2, RestsKeep DEF O!Reply, O!rows
  <2>3. QED
    BY <1>7, <2>1, <2>2 DEF O!SetSkillAssignment
<1>8. CASE O!InstallAssistantPack(r)
  <2>1. /\ v9[r].op = "install" /\ FirstBotId \in v1 /\ v3' = [v3 EXCEPT ![PackSkillId] = "live"]
        /\ v5' = v5 \cup {<<FirstBotId, PackSkillId>>} /\ v6' = TRUE
        /\ O!Wrote(r, PackSkillId) /\ UNCHANGED <<v1, v2, v4, v7>>
    BY <1>8 DEF O!InstallAssistantPack, O!Writing
  <2>2. /\ v10' = v10 \cup {<<"install", PackSkillId>>} /\ v9' = [v9 EXCEPT ![r].at = "publishing"]
        /\ UNCHANGED <<v8, v11, v12>>
    BY <2>1 DEF O!Wrote
  <2>3. /\ v3' \in [O!Skills -> {"none", "live", "deleted"}]
        /\ \A k \in O!Skills \ {PackSkillId} : v3'[k] = v3[k]
    BY <1>0, <2>1, RecordNames DEF O!TypeOK
  <2>4. \A k \in RecordKeys : v3'[k] = v3[k]
    BY <2>3, RecordNames, OwnerAssumption
  <2>5. O!SkillsDone' /\ O!VersionsDone'
    BY <1>0, <1>a, <2>1, <2>2, <2>4, DoneLasts
  <2>6. O!PackDone'
    BY <2>2 DEF O!PackDone
  <2>7. v4' \subseteq RecordKeys /\ v5' \subseteq v1 \X O!Skills /\ v6' \in BOOLEAN
    BY <1>0, <2>1, RecordNames DEF O!TypeOK
  <2>8. QED
    BY <1>0, <2>1, <2>2, <2>3, <2>5, <2>6, <2>7, SkillWritesKeep
<1>9. QED
  BY <1>1, <1>2, <1>3, <1>4, <1>5, <1>6, <1>7, <1>8

(* A refused write: an installation frees its key, which no other request holds and *)
(* no row carries.                                                                  *)
LEMMA RefusedKeeps ==
  ASSUME O!DoneInv, NEW r \in RecordRequests, O!Refused(r)
  PROVE  O!DoneInv'
<1>0. /\ O!TypeOK /\ v9[r].at = "writing" /\ v9' = [v9 EXCEPT ![r] = O!Idle]
      /\ UNCHANGED <<O!rows, v10, v11, v12>>
  BY DEF O!DoneInv, O!Refused, O!Reply
<1>1. CASE v9[r].op # "install"
  BY <1>0, <1>1, RestsKeep DEF O!Refused
<1>2. CASE v9[r].op = "install"
  <2> DEFINE k == v9[r].key
  <2>1. k \in RecordKeys /\ v8[k] = <<"install", v9[r].of>>
    BY <1>0, <1>2, WrittenKnows
  <2>2. v8' = [v8 EXCEPT ![k] = <<"none", None>>]
    BY <1>2 DEF O!Refused
  <2>3. /\ v8' \in [RecordKeys -> O!Claimed]
        /\ \A i \in RecordKeys \ {k} : v8'[i] = v8[i]
    BY <1>0, <2>1, <2>2 DEF O!TypeOK, O!Claimed
  <2>4. /\ v9' \in [RecordRequests -> O!Request] /\ v9'[r] = O!Idle
        /\ \A s \in RecordRequests \ {r} : v9'[s] = v9[s]
    BY <1>0, OwnRequestMoves, RecordNames
  <2>5. O!TypeOK'
    BY <1>0, <2>3, <2>4 DEF O!TypeOK, O!rows
  <2>6. \A s \in RecordRequests \ {r} : v9[s].at # "idle" => v9[s].key # k
    BY <1>0, <1>2, <2>1 DEF O!DoneInv, O!OneInstalls, O!Holds
  <2>7. O!HoldsClaim'
    <3>1. O!HoldsClaim
      BY DEF O!DoneInv
    <3>2. \A s \in RecordRequests : v9'[s].at # "idle" =>
            v9[s].at # "idle" /\ v9'[s] = v9[s] /\ v8'[v9[s].key] = v8[v9[s].key]
      <4> TAKE s \in RecordRequests
      <4> HAVE v9'[s].at # "idle"
      <4>1. s # r
        BY <2>4, RecordNames
      <4>2. v9'[s] = v9[s] /\ v9[s].at # "idle"
        BY <2>4, <4>1
      <4>3. v9[s].key \in RecordKeys
        BY <3>1, <4>2 DEF O!HoldsClaim
      <4>4. QED
        BY <2>3, <2>6, <4>1, <4>2, <4>3
    <3>3. \A s \in RecordRequests : v9'[s].at # "idle" =>
            LET q == v9'[s]
            IN /\ q.key \in RecordKeys /\ q.op # "none" /\ (q.op \in O!Creating => q.of = q.key)
               /\ q.at = "assigning" => q.op \in {"assign", "unassign"}
               /\ q.op \in {"assign", "unassign"} => q.of \in O!Skills
               /\ v8'[q.key] = <<q.op, IF q.op = "duplicate_bot" THEN q.by ELSE q.of>>
      <4> TAKE s \in RecordRequests
      <4> HAVE v9'[s].at # "idle"
      <4>1. v9'[s] = v9[s] /\ v9[s].at # "idle" /\ v8'[v9[s].key] = v8[v9[s].key]
        BY <3>2
      <4>2. QED
        BY <3>1, <4>1 DEF O!HoldsClaim
    <3>4. QED
      BY <3>3 DEF O!HoldsClaim
  <2>8. O!OneInstalls' /\ O!WrittenIsDone'
    BY <1>0, <2>4, RecordNames DEF O!OneInstalls, O!WrittenIsDone, O!Holds, O!DoneInv
  <2>9. v8[k][1] = "install"
    BY <2>1
  <2>10. k \notin v1 /\ v3[k] = "none" /\ k \notin v4
    BY <2>1, <2>9, RecordNames DEF O!DoneInv, O!BotsDone, O!SkillsDone, O!VersionsDone
  <2>11. O!BotsDone' /\ O!SkillsDone'
    BY <1>0, <2>3, <2>10 DEF O!DoneInv, O!BotsDone, O!SkillsDone, O!rows
  <2>12. O!VersionsDone'
    BY <1>0, <2>3, <2>10 DEF O!DoneInv, O!VersionsDone, O!TypeOK, O!rows
  <2>13. O!FlagsDone' /\ O!PackDone' /\ O!AnsweredMeansDone'
    BY <1>0 DEF O!DoneInv, O!FlagsDone, O!PackDone, O!AnsweredMeansDone, O!rows
  <2>14. QED
    BY <2>5, <2>7, <2>8, <2>11, <2>12, <2>13 DEF O!DoneInv
<1>3. QED
  BY <1>1, <1>2

(* publish and the answer: the row was written before. *)
LEMMA PublishKeeps ==
  ASSUME O!DoneInv, NEW r \in RecordRequests, O!Publish(r)
  PROVE  O!DoneInv'
<1> DEFINE t == IF v9[r].op = "install" THEN PackSkillId ELSE v9[r].of
<1>1. /\ v9[r].at = "publishing" /\ v9' = [v9 EXCEPT ![r] = O!Idle]
      /\ UNCHANGED <<O!rows, v8, v10, v12>>
      /\ v11' = v11 \/ v11' = v11 \cup {<<v9[r].op, t>>}
  BY DEF O!Publish, O!Answer, O!Reply
<1>2. <<v9[r].op, t>> \in v10
  BY <1>1 DEF O!DoneInv, O!WrittenIsDone
<1>3. <<v9[r].op, t>> \in O!Ops \X O!Targets
  BY <1>2 DEF O!DoneInv, O!TypeOK
<1> HIDE DEF t
<1>4. QED
  BY <1>1, <1>2, <1>3, RestsKeep

(* What is installed is answered without a claim; it was put there by an *)
(* installation.                                                         *)
LEMMA InstallKeeps ==
  ASSUME O!DoneInv, NEW r \in RecordRequests, NEW k \in RecordKeys, O!Install(r, k)
  PROVE  O!DoneInv'
<1>0. v9[r].at = "idle" /\ UNCHANGED <<O!rows, v10, v12>>
  BY DEF O!Install
<1>1. CASE /\ v3[PackSkillId] = "live" /\ v8' = v8
           /\ O!Answer(r, "install", PackSkillId) \/ O!Reply(r)
  <2>1. <<"install", PackSkillId>> \in v10
    BY <1>1 DEF O!DoneInv, O!PackDone
  <2>2. <<"install", PackSkillId>> \in O!Ops \X O!Targets
    BY <2>1 DEF O!DoneInv, O!TypeOK
  <2>3. v9' = [v9 EXCEPT ![r] = O!Idle] /\ (v11' = v11 \/ v11' = v11 \cup {<<"install", PackSkillId>>})
    BY <1>1 DEF O!Answer, O!Reply
  <2>4. QED
    BY <1>0, <1>1, <2>1, <2>2, <2>3, RestsKeep
<1>2. CASE O!Claims(r, k, "install", FirstBotId)
  <2> DEFINE q == [at |-> "writing", key |-> k, op |-> "install", of |-> FirstBotId, by |-> None]
  <2>1. FirstBotId \in O!Targets /\ "install" \in O!Ops /\ "install" \notin O!Creating
    BY RecordNames DEF RecordTargets
  <2>2. q \in O!Request
    BY <2>1 DEF O!Request
  <2>3. /\ O!New(k) /\ v8' = [v8 EXCEPT ![k] = <<"install", FirstBotId>>] /\ v11' = v11
        /\ v9' = [v9 EXCEPT ![r] = q]
    BY <1>2 DEF O!Claims, O!Open
  <2>4. QED
    BY <1>0, <2>1, <2>2, <2>3, ClaimsKeep
<1>3. QED
  BY <1>1, <1>2 DEF O!Install

(* The copy has the key as its id, whatever Bot it is a copy of. *)
LEMMA DuplicateKeeps ==
  ASSUME O!DoneInv, NEW r \in RecordRequests, NEW k \in RecordKeys, NEW b \in O!Bots, O!Duplicate(r, k, b)
  PROVE  O!DoneInv'
<1>0. v9[r].at = "idle" /\ UNCHANGED <<O!rows, v10, v12>>
  BY DEF O!Duplicate
<1>a. /\ b \in O!Targets /\ k \in O!Targets /\ "duplicate_bot" \in O!Ops /\ "duplicate_bot" \in O!Creating
  BY RecordNames DEF RecordTargets
<1>1. CASE /\ O!New(k) /\ v8' = [v8 EXCEPT ![k] = <<"duplicate_bot", b>>] /\ v11' = v11
           /\ v9' = [v9 EXCEPT ![r] = [at |-> "writing", key |-> k, op |-> "duplicate_bot",
                                       of |-> k, by |-> b]]
  <2> DEFINE q == [at |-> "writing", key |-> k, op |-> "duplicate_bot", of |-> k, by |-> b]
  <2>1. q \in O!Request
    BY <1>a DEF O!Request
  <2>3. v9' = [v9 EXCEPT ![r] = q]
    BY <1>1
  <2>4. q.at = "writing" /\ q.key = k /\ q.op = "duplicate_bot" /\ q.of = k /\ q.by = b
    OBVIOUS
  <2> HIDE DEF q
  <2>5. QED
    BY <1>0, <1>a, <1>1, <2>1, <2>3, <2>4, ClaimsKeep
<1>2. CASE /\ O!Replayed(k, "duplicate_bot", b) /\ v8' = v8
           /\ IF k \in v1 THEN O!Answer(r, "duplicate_bot", k) ELSE O!Reply(r)
  <2>1. CASE k \in v1
    <3>1. v8[k] = <<"duplicate_bot", b>>
      BY <1>2 DEF O!Replayed
    <3>2. <<"duplicate_bot", k>> \in v10
      BY <2>1, <3>1 DEF O!DoneInv, O!BotsDone
    <3>3. <<"duplicate_bot", k>> \in O!Ops \X O!Targets
      BY <1>a
    <3>4. v9' = [v9 EXCEPT ![r] = O!Idle] /\ v11' = v11 \cup {<<"duplicate_bot", k>>}
      BY <1>2, <2>1 DEF O!Answer
    <3>5. QED
      BY <1>0, <1>2, <3>2, <3>3, <3>4, RestsKeep
  <2>2. CASE k \notin v1
    BY <1>0, <1>2, <2>2, RestsKeep DEF O!Reply
  <2>3. QED
    BY <2>1, <2>2
<1>3. QED
  BY <1>1, <1>2 DEF O!Duplicate

(* A repeated key that finds a Bot, a Skill or a version under its own id finds *)
(* what its first request did.                                                  *)
LEMMA ReplayFindsDone ==
  ASSUME O!DoneInv, NEW k \in RecordKeys, NEW op \in O!Ops, NEW t \in O!Targets, O!Replayed(k, op, t)
  PROVE  /\ k \in v1 /\ t = k => <<op, t>> \in v10
         /\ v3[k] # "none" \/ k \in v4 => <<op, t>> \in v10
<1>1. v8[k] = <<op, t>> /\ v8[k][1] = op
  BY DEF O!Replayed
<1>2. k \in v1 => <<op, k>> \in v10
  BY <1>1 DEF O!DoneInv, O!BotsDone
<1>3. v3[k] # "none" \/ k \in v4 => v8[k] \in v10
  BY DEF O!DoneInv, O!SkillsDone, O!VersionsDone
<1>4. QED
  BY <1>1, <1>2, <1>3

(* The requests of bots.rs. *)
LEMMA BotRequestsKeep ==
  ASSUME O!DoneInv, NEW r \in RecordRequests, NEW k \in RecordKeys, NEW b \in O!Bots,
         \/ O!Create(r, k) \/ O!Update(r, k, b) \/ O!MarkRead(r, k, b) \/ O!Archive(r, k, b)
         \/ O!Restore(r, k, b) \/ O!Delete(r, k, b)
         \/ \E f \in O!Flags \ {"archived"} : O!SetFlag(r, k, b, f)
  PROVE  O!DoneInv'
<1>1. b \in O!Targets /\ k \in O!Targets
  BY RecordNames DEF RecordTargets
<1>2. \A f \in O!Flags : /\ f \in O!Ops /\ O!Unset(f) \in O!Ops
                         /\ f \notin O!Creating \cup {"assign", "unassign", "duplicate_bot"}
                         /\ O!Unset(f) \notin O!Creating \cup {"assign", "unassign", "duplicate_bot"}
  BY RecordNames DEF RecordFlags, O!Unset, O!Flags
<1>3. ASSUME NEW f \in O!Flags, O!Begin(r, k, f, b, <<b, f>> \in v2)
      PROVE  O!DoneInv'
  <2>1. <<b, f>> \in v2 => <<f, b>> \in v10
    BY DEF O!DoneInv, O!FlagsDone
  <2>2. f \in O!Ops /\ f \notin O!Creating \cup {"assign", "unassign", "duplicate_bot"}
    BY <1>2
  <2>3. QED
    BY <1>1, <1>3, <2>1, <2>2, BeginKeeps
<1>4. ASSUME NEW f \in O!Flags, O!Begin(r, k, O!Unset(f), b, b \in v1 /\ <<b, f>> \notin v2)
      PROVE  O!DoneInv'
  <2> DEFINE u == O!Unset(f)
  <2>1. u \in O!Ops /\ u \notin O!Creating \cup {"assign", "unassign", "duplicate_bot"}
        /\ u \in {O!Unset(g) : g \in O!Flags}
    BY <1>2
  <2>2. O!Begin(r, k, u, b, b \in v1 /\ <<b, f>> \notin v2)
    BY <1>4
  <2> HIDE DEF u
  <2>3. QED
    BY <1>1, <2>1, <2>2, BeginKeeps
<1>5. CASE O!Create(r, k)
  <2>1. "create_bot" \in O!Ops
    BY RecordNames
  <2>2. O!Replayed(k, "create_bot", k) /\ k \in v1 => <<"create_bot", k>> \in v10
    BY <1>1, <2>1, ReplayFindsDone
  <2>4. O!Begin(r, k, "create_bot", k, k \in v1)
    BY <1>5 DEF O!Create
  <2>5. QED
    BY <1>1, <2>1, <2>2, <2>4, BeginKeeps
<1>6. CASE O!Update(r, k, b)
  <2>1. "update_bot" \in O!Ops \ (O!Creating \cup {"install"})
    BY RecordNames
  <2>2. QED
    BY <1>1, <1>6, <2>1, BeginAnywayKeeps DEF O!Update
<1>7. CASE O!MarkRead(r, k, b)
  <2>1. "mark_read" \in O!Ops \ (O!Creating \cup {"install"})
    BY RecordNames
  <2>2. QED
    BY <1>1, <1>7, <2>1, BeginAnywayKeeps DEF O!MarkRead
<1>8. "archived" \in O!Flags
  BY RecordNames DEF RecordFlags
<1>9. CASE O!Archive(r, k, b)
  BY <1>3, <1>8, <1>9 DEF O!Archive
<1>10. CASE O!Restore(r, k, b)
  BY <1>4, <1>8, <1>10 DEF O!Restore
<1>11. CASE O!Delete(r, k, b)
  <2>1. "delete_bot" \in O!Ops \ O!Creating
    BY RecordNames
  <2>2. O!Begin(r, k, "delete_bot", b, TRUE)
    BY <1>11 DEF O!Delete
  <2>3. QED
    BY <1>1, <2>1, <2>2, BeginKeeps
<1>12. CASE \E f \in O!Flags \ {"archived"} : O!SetFlag(r, k, b, f)
  BY <1>3, <1>4, <1>12 DEF O!SetFlag
<1>13. QED
  BY <1>5, <1>6, <1>7, <1>9, <1>10, <1>11, <1>12

(* The requests of skills.rs. *)
LEMMA SkillRequestsKeep ==
  ASSUME O!DoneInv, NEW r \in RecordRequests, NEW k \in RecordKeys, NEW s \in O!Skills,
         \/ O!CreateSkill(r, k) \/ O!DuplicateSkill(r, k) \/ O!Import(r, k) \/ O!FinishRecording(r, k)
         \/ O!UpdateSkill(r, k, s) \/ O!Assign(r, k, s)
  PROVE  O!DoneInv'
<1>1. k \in O!Targets /\ s \in O!Targets
  BY RecordNames DEF RecordTargets
<1>2. ASSUME NEW op \in O!Creating \ {"duplicate_bot"}, NEW found \in BOOLEAN,
             found => v3[k] # "none" \/ k \in v4, O!Begin(r, k, op, k, found)
      PROVE  O!DoneInv'
  <2>1. op \in O!Ops /\ op \notin {"assign", "unassign"}
    BY RecordNames
  <2>2. O!Replayed(k, op, k) /\ found => <<op, k>> \in v10
    BY <1>1, <1>2, <2>1, ReplayFindsDone
  <2>3. QED
    BY <1>1, <1>2, <2>1, <2>2, BeginKeeps
<1>3. O!Found(k) \in BOOLEAN /\ (O!Found(k) => v3[k] # "none" \/ k \in v4)
  BY DEF O!Found
<1>4. CASE O!CreateSkill(r, k) \/ O!DuplicateSkill(r, k) \/ O!Import(r, k)
  <2>1. {"create_skill", "duplicate_skill", "import_skill"} \subseteq O!Creating \ {"duplicate_bot"}
    BY RecordNames
  <2>2. QED
    BY <1>2, <1>3, <1>4, <2>1 DEF O!CreateSkill, O!DuplicateSkill, O!Import
<1>5. CASE O!FinishRecording(r, k)
  <2>1. "finish_recording" \in O!Creating \ {"duplicate_bot"}
    BY RecordNames
  <2>2. QED
    BY <1>2, <1>5, <2>1 DEF O!FinishRecording
<1>6. CASE O!UpdateSkill(r, k, s)
  <2>1. "update_skill" \in O!Ops \ O!Creating
    BY RecordNames
  <2>2. O!Replayed(k, "update_skill", s) /\ k \in v4 => <<"update_skill", s>> \in v10
    BY <1>1, <2>1, ReplayFindsDone
  <2>4. O!Begin(r, k, "update_skill", s, k \in v4)
    BY <1>6 DEF O!UpdateSkill
  <2>5. QED
    BY <1>1, <2>1, <2>2, <2>4, BeginKeeps
<1>7. CASE O!Assign(r, k, s)
  <2>1. {"assign", "unassign"} \subseteq O!Ops \ (O!Creating \cup {"install"})
    BY RecordNames
  <2>2. QED
    BY <1>1, <1>7, <2>1, BeginAnywayKeeps DEF O!Assign
<1>8. QED
  BY <1>4, <1>5, <1>6, <1>7

(* Attention set by a turn, a Skill that is deleted without a key, and a restart, *)
(* after which no request is at work.                                             *)
LEMMA OtherRecordStepsKeep ==
  ASSUME O!DoneInv, \/ \E b \in v1 : O!SetBotAttention(b)
                    \/ \E s \in O!Skills : O!DeleteSkill(s)
                    \/ O!Restart
  PROVE  O!DoneInv'
<1>0. O!TypeOK
  BY DEF O!DoneInv
<1>1. CASE \E b \in v1 : O!SetBotAttention(b)
  <2>1. PICK b \in v1 : O!SetBotAttention(b)
    BY <1>1
  <2>2. v2' = v2 \cup {<<b, "unread">>} /\ UNCHANGED <<v1, v3, v4, v5, v6, v7, v8, v9, v10, v11, v12>>
    BY <2>1 DEF O!SetBotAttention
  <2>3. O!TypeOK'
    BY <1>0, <2>2 DEF O!TypeOK
  <2>4. O!HoldsClaim' /\ O!OneInstalls' /\ O!WrittenIsDone'
    BY <2>2 DEF O!DoneInv, O!HoldsClaim, O!OneInstalls, O!Holds, O!WrittenIsDone
  <2>5. O!BotsDone' /\ O!SkillsDone' /\ O!VersionsDone' /\ O!PackDone'
    BY <1>0, <2>2, DoneLasts DEF O!DoneInv
  <2>6. O!FlagsDone'
    BY <2>2, RecordNames DEF O!DoneInv, O!FlagsDone, RecordFlags
  <2>7. O!AnsweredMeansDone'
    BY <2>2 DEF O!DoneInv, O!AnsweredMeansDone
  <2>8. QED
    BY <2>3, <2>4, <2>5, <2>6, <2>7 DEF O!DoneInv
<1>2. CASE \E s \in O!Skills : O!DeleteSkill(s)
  <2>1. PICK s \in O!Skills : O!DeleteSkill(s)
    BY <1>2
  <2>2. /\ v3[s] = "live" /\ v3' = [v3 EXCEPT ![s] = "deleted"] /\ v5' \subseteq v5
        /\ UNCHANGED <<v1, v2, v4, v6, v7, v8, v9, v10, v11, v12>>
    BY <2>1 DEF O!DeleteSkill
  <2>3. v3' \in [O!Skills -> {"none", "live", "deleted"}]
        /\ \A i \in O!Skills : v3'[i] # "none" => v3[i] # "none"
    BY <1>0, <2>2 DEF O!TypeOK
  <2>4. O!TypeOK'
    BY <1>0, <2>2, <2>3 DEF O!TypeOK
  <2>5. O!HoldsClaim' /\ O!OneInstalls' /\ O!WrittenIsDone'
    BY <2>2 DEF O!DoneInv, O!HoldsClaim, O!OneInstalls, O!Holds, O!WrittenIsDone
  <2>6. O!BotsDone' /\ O!FlagsDone' /\ O!SkillsDone' /\ O!VersionsDone' /\ O!PackDone'
    BY <1>0, <2>2, <2>3, DoneLasts, RecordNames DEF O!DoneInv
  <2>7. O!AnsweredMeansDone'
    BY <2>2 DEF O!DoneInv, O!AnsweredMeansDone
  <2>8. QED
    BY <2>4, <2>5, <2>6, <2>7 DEF O!DoneInv
<1>3. CASE O!Restart
  <2>1. /\ v12' = TRUE /\ v9' = [r \in RecordRequests |-> O!Idle]
        /\ UNCHANGED <<v1, v2, v3, v4, v5, v6, v7, v8, v10, v11>>
    BY <1>3 DEF O!Restart, O!rows
  <2>2. O!TypeOK'
    BY <1>0, <2>1, RecordNames DEF O!TypeOK
  <2>3. O!HoldsClaim' /\ O!OneInstalls' /\ O!WrittenIsDone'
    BY <2>1, RecordNames DEF O!HoldsClaim, O!OneInstalls, O!Holds, O!WrittenIsDone
  <2>4. O!BotsDone' /\ O!FlagsDone' /\ O!SkillsDone' /\ O!VersionsDone' /\ O!PackDone'
    BY <1>0, <2>1, DoneLasts DEF O!DoneInv
  <2>5. O!AnsweredMeansDone'
    BY <2>1 DEF O!DoneInv, O!AnsweredMeansDone
  <2>6. QED
    BY <2>2, <2>3, <2>4, <2>5 DEF O!DoneInv
<1>4. QED
  BY <1>1, <1>2, <1>3

(* Every step of OwnerRecords keeps DoneInv. *)
LEMMA RecordsStep == O!DoneInv /\ [O!Next]_(O!vars) => O!DoneInv'
<1> SUFFICES ASSUME O!DoneInv, [O!Next]_(O!vars) PROVE O!DoneInv'
  OBVIOUS
<1>1. CASE UNCHANGED O!vars
  <2>1. UNCHANGED <<v1, v2, v3, v4, v5, v6, v7, v8, v9, v10, v11, v12>>
    BY <1>1 DEF O!vars
  <2>2. O!TypeOK' /\ O!HoldsClaim' /\ O!OneInstalls' /\ O!WrittenIsDone'
    BY <2>1 DEF O!DoneInv, O!TypeOK, O!HoldsClaim, O!OneInstalls, O!Holds, O!WrittenIsDone
  <2>3. O!BotsDone' /\ O!FlagsDone' /\ O!SkillsDone' /\ O!VersionsDone' /\ O!PackDone'
    BY <2>1, DoneLasts DEF O!DoneInv
  <2>4. O!AnsweredMeansDone'
    BY <2>1 DEF O!DoneInv, O!AnsweredMeansDone
  <2>5. QED
    BY <2>2, <2>3, <2>4 DEF O!DoneInv
<1>2. FirstBotId \in O!Bots /\ v1 \subseteq O!Bots
  BY RecordNames DEF O!DoneInv, O!TypeOK
<1>3. CASE \E r \in RecordRequests : \E k \in RecordKeys :
             \/ O!Create(r, k) \/ O!CreateSkill(r, k) \/ O!DuplicateSkill(r, k) \/ O!Import(r, k)
             \/ O!FinishRecording(r, k) \/ O!Install(r, k)
  <2>1. PICK r \in RecordRequests, k \in RecordKeys :
             \/ O!Create(r, k) \/ O!CreateSkill(r, k) \/ O!DuplicateSkill(r, k) \/ O!Import(r, k)
             \/ O!FinishRecording(r, k) \/ O!Install(r, k)
    BY <1>3
  <2>2. k \in O!Skills
    BY RecordNames
  <2>3. QED
    BY <1>2, <2>1, <2>2, BotRequestsKeep, SkillRequestsKeep, InstallKeeps
<1>4. CASE \E r \in RecordRequests : \E k \in RecordKeys : \E b \in v1 \cup {FirstBotId} :
             \/ O!Update(r, k, b) \/ O!MarkRead(r, k, b) \/ O!Archive(r, k, b) \/ O!Restore(r, k, b)
             \/ O!Delete(r, k, b) \/ O!Duplicate(r, k, b)
             \/ \E f \in O!Flags \ {"archived"} : O!SetFlag(r, k, b, f)
  <2>1. PICK r \in RecordRequests, k \in RecordKeys, b \in O!Bots :
             \/ O!Update(r, k, b) \/ O!MarkRead(r, k, b) \/ O!Archive(r, k, b) \/ O!Restore(r, k, b)
             \/ O!Delete(r, k, b) \/ O!Duplicate(r, k, b)
             \/ \E f \in O!Flags \ {"archived"} : O!SetFlag(r, k, b, f)
    BY <1>2, <1>4
  <2>2. QED
    BY <2>1, BotRequestsKeep, DuplicateKeeps
<1>5. CASE \E r \in RecordRequests : \E k \in RecordKeys : \E s \in O!Skills :
             O!UpdateSkill(r, k, s) \/ O!Assign(r, k, s)
  BY <1>5, SkillRequestsKeep
<1>6. CASE \E r \in RecordRequests :
             \/ O!CreateBot(r) \/ O!UpdateBot(r) \/ O!MarkBotRead(r) \/ O!SetBotArchived(r)
             \/ O!SetBotFlag(r) \/ O!DeleteBot(r) \/ O!DuplicateBotConfiguration(r)
  BY <1>6, BotWritesKeep
<1>7. CASE \E r \in RecordRequests :
             \/ O!InsertSkill(r) \/ O!ImportVersion(r) \/ O!InsertDemonstrated(r)
             \/ O!CloseRoutineRecording(r) \/ O!UpdateSkillRow(r) \/ O!AssignReads(r)
             \/ O!SetSkillAssignment(r) \/ O!InstallAssistantPack(r)
  BY <1>7, SkillStepsKeep
<1>8. CASE \E r \in RecordRequests : O!Refused(r) \/ O!Publish(r)
  BY <1>8, RefusedKeeps, PublishKeeps
<1>9. CASE \/ \E b \in v1 : O!SetBotAttention(b)
           \/ \E s \in O!Skills : O!DeleteSkill(s)
           \/ O!Restart
  BY <1>9, OtherRecordStepsKeep
<1>10. QED
  BY <1>1, <1>3, <1>4, <1>5, <1>6, <1>7, <1>8, <1>9 DEF O!Next

(* DoneInv of the composition. *)
DoneInvHere == component = "records" => O!DoneInv

(* What a client was told is done has been done, for every set of keys and any      *)
(* number of requests at a time, whatever was repeated and wherever the server died *)
(* (the replay branches of bots.rs, skills.rs and assistant_packs.rs). A deletion   *)
(* and what was never set are the exceptions the property names.                    *)
THEOREM AnsweredMeansDoneAlways == OwnerSpec => []AnsweredMeansDone
<1>1. OwnerInit => DoneInvHere
  BY RecordsInit DEF OwnerInit, DoneInvHere
<1>2. DoneInvHere /\ [OwnerNext]_all => DoneInvHere'
  <2> SUFFICES ASSUME DoneInvHere, [OwnerNext]_all, component' = "records" PROVE O!DoneInv'
    BY DEF DoneInvHere
  <2>1. component = "records" /\ [O!Next]_(O!vars)
    BY DEF OwnerNext, all, O!vars, O!rows
  <2>2. QED
    BY <2>1, RecordsStep DEF DoneInvHere
<1>3. DoneInvHere => AnsweredMeansDone
  BY DEF DoneInvHere, AnsweredMeansDone, O!DoneInv
<1>4. QED
  BY <1>1, <1>2, <1>3, PTL DEF OwnerSpec
=============================================================================
