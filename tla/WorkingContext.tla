--------------------------- MODULE WorkingContext ---------------------------
(***************************************************************************)
(* The provider working context of one direct chat                         *)
(* (homebot-server/src/working_context.rs and the chat_working_contexts    *)
(* and provider_conversations tables): its interaction mode, its compact   *)
(* and reset operations, the profile changes that start it anew, and the   *)
(* turns that resume, replace and measure the provider's conversation.     *)
(* Every statement is one transaction; the requests run between them.      *)
(***************************************************************************)
EXTENDS Naturals, FiniteSets

CONSTANTS Profiles,    \* provider profiles the Bot may be given
          Able,        \* those whose adapter has plan mode and compaction
          Requests,    \* mode and compaction requests
          MaxTurns, MaxFaults  \* bounds: turns; profile changes, restarts, drops

VARIABLES profile,      \* the Bot's provider profile
          row,          \* chat_working_contexts
          conversation, \* provider_conversations of each profile
          turn,         \* the chat's provider turn: chat.running until it ends
          request,      \* each request, by the statement it has reached
          turns, faults,
          undone        \* history: a profile change or a dropped request

vars == <<profile, row, conversation, turn, request, turns, faults, undone>>

NoRow == [profile |-> "none", mode |-> "default", status |-> "idle",
          generation |-> 0, used |-> FALSE]
Fresh(p) == [NoRow EXCEPT !.profile = p]
IdleTurn == [at |-> "idle", profile |-> "none", resumes |-> 0, mode |-> "default"]
NewRequest == [at |-> "new", kind |-> "none", profile |-> "none"]

ContextRow == [profile : Profiles \cup {"none"}, mode : {"default", "plan"},
               status : {"idle", "running", "completed", "failed"},
               generation : 0..Cardinality(Requests), used : BOOLEAN]
TurnRow == [at : {"idle", "reading", "running"}, profile : Profiles \cup {"none"},
            resumes : 0..MaxTurns, mode : {"default", "plan"}]
RequestRow == [at : {"new", "checked", "summed", "begun", "working", "failing", "done",
                     "refused", "dropped"},
               kind : {"none", "default", "plan", "compact", "reset"},
               profile : Profiles \cup {"none"}]

TypeOK ==
  /\ profile \in Profiles
  /\ row \in ContextRow
  /\ conversation \in [Profiles -> 0..MaxTurns]
  /\ turn \in TurnRow
  /\ request \in [Requests -> RequestRow]
  /\ turns \in 0..MaxTurns /\ faults \in 0..MaxFaults /\ undone \in BOOLEAN

Init ==
  /\ profile \in Profiles
  /\ row = NoRow
  /\ conversation = [p \in Profiles |-> 0]
  /\ turn = IdleTurn
  /\ request = [r \in Requests |-> NewRequest]
  /\ turns = 0 /\ faults = 0 /\ undone = FALSE

Goto(r, at) == request' = [request EXCEPT ![r].at = at]

-----------------------------------------------------------------------------
(* The rows *)

(* working_context: another profile than the row's starts it anew. *)
Loaded == IF row.profile = profile THEN row ELSE Fresh(profile)

(* get, and timeline: summary writes the row it reads. *)
Summary ==
  /\ Loaded # row
  /\ row' = Loaded
  /\ UNCHANGED <<profile, conversation, turn, request, turns, faults, undone>>

(* update_bot *)
ChangeProfile(p) ==
  /\ p # profile /\ faults < MaxFaults
  /\ profile' = p
  /\ faults' = faults + 1 /\ undone' = TRUE
  /\ UNCHANGED <<row, conversation, turn, request, turns>>

-----------------------------------------------------------------------------
(* The chat's turns *)

(* Reserved; the turn reads the conversation of the Bot's profile. *)
TurnReads ==
  /\ turn.at = "idle" /\ turns < MaxTurns
  /\ turn' = [at |-> "reading", profile |-> profile,
              resumes |-> conversation[profile], mode |-> "default"]
  /\ turns' = turns + 1
  /\ UNCHANGED <<profile, row, conversation, request, faults, undone>>

(* summary for the mode; then start or resume. *)
TurnStarts ==
  /\ turn.at = "reading"
  /\ row' = Loaded
  /\ turn' = [turn EXCEPT !.at = "running", !.mode = Loaded.mode]
  /\ UNCHANGED <<profile, conversation, request, turns, faults, undone>>

(* ConversationStarted, for a resumed conversation too. *)
ConversationStarted ==
  /\ turn.at = "running"
  /\ conversation' = [conversation EXCEPT ![turn.profile] =
                        IF turn.resumes = 0 THEN turns ELSE turn.resumes]
  /\ UNCHANGED <<profile, row, turn, request, turns, faults, undone>>

Usage ==
  /\ turn.at = "running"
  /\ row' = [Loaded EXCEPT !.used = row.profile = profile]
  /\ UNCHANGED <<profile, conversation, turn, request, turns, faults, undone>>

TurnEnds ==
  /\ turn.at # "idle"
  /\ turn' = IdleTurn
  /\ UNCHANGED <<profile, row, conversation, request, turns, faults, undone>>

-----------------------------------------------------------------------------
(* set_mode *)

CheckMode(r) ==
  /\ request[r].at = "new"
  /\ row' = Loaded
  /\ \E mode \in {"default", "plan"} :
       request' = [request EXCEPT ![r] =
         [at |-> IF mode = "plan" /\ profile \notin Able THEN "refused" ELSE "checked",
          kind |-> mode, profile |-> profile]]
  /\ UNCHANGED <<profile, conversation, turn, turns, faults, undone>>

SetMode(r) ==
  /\ request[r].at = "checked" /\ request[r].kind \in {"default", "plan"}
  /\ row' = [row EXCEPT !.mode = request[r].kind]
  /\ Goto(r, "done")
  /\ UNCHANGED <<profile, conversation, turn, turns, faults, undone>>

-----------------------------------------------------------------------------
(* compact *)

CheckIdle(r) ==
  /\ request[r].at = "new"
  /\ \E kind \in {"compact", "reset"} :
       request' = [request EXCEPT ![r] =
         [NewRequest EXCEPT !.at = IF turn.at = "idle" THEN "checked" ELSE "refused",
                            !.kind = kind]]
  /\ UNCHANGED <<profile, row, conversation, turn, turns, faults, undone>>

(* summary, and the route of the Bot's profile. *)
CheckAble(r) ==
  /\ request[r].at = "checked" /\ request[r].kind \in {"compact", "reset"}
  /\ row' = Loaded
  /\ request' = [request EXCEPT ![r].profile = profile,
                   ![r].at = IF request[r].kind = "compact" /\ profile \notin Able
                               THEN "refused" ELSE "summed"]
  /\ UNCHANGED <<profile, conversation, turn, turns, faults, undone>>

(* faulty: an operation may begin while another one runs. *)
BeginAnyway(r) ==
  /\ request[r].at = "summed"
  /\ row' = [row EXCEPT !.status = "running"]
  /\ Goto(r, "begun")
  /\ UNCHANGED <<profile, conversation, turn, turns, faults, undone>>

(* begin_working_context_compaction: one conditional update. *)
Begin(r) ==
  /\ request[r].at = "summed"
  /\ \/ /\ row.status # "running"
        /\ row' = [row EXCEPT !.status = "running"]
        /\ Goto(r, "begun")
     \/ /\ row.status = "running"
        /\ Goto(r, "refused")
        /\ UNCHANGED row
  /\ UNCHANGED <<profile, conversation, turn, turns, faults, undone>>

Fails(r) ==
  /\ request[r].at = "begun"
  /\ Goto(r, "failing")
  /\ UNCHANGED <<profile, row, conversation, turn, turns, faults, undone>>

Finish(r, status) ==
  row' = [row EXCEPT !.status = status,
                     !.generation = IF status = "completed" THEN @ + 1 ELSE @,
                     !.used = @ /\ status # "completed"]

MarkFailed(r) ==
  /\ request[r].at = "failing"
  /\ Finish(r, "failed") /\ Goto(r, "refused")
  /\ UNCHANGED <<profile, conversation, turn, turns, faults, undone>>

(* reset_provider_conversation, or a compaction the provider has done. *)
Work(r) ==
  /\ request[r].at = "begun"
  /\ request[r].kind = "compact" => conversation[request[r].profile] # 0
  /\ conversation' = IF request[r].kind = "reset"
                       THEN [conversation EXCEPT ![request[r].profile] = 0]
                       ELSE conversation
  /\ Goto(r, "working")
  /\ UNCHANGED <<profile, row, turn, turns, faults, undone>>

MarkCompleted(r) ==
  /\ request[r].at = "working"
  /\ Finish(r, "completed") /\ Goto(r, "done")
  /\ UNCHANGED <<profile, conversation, turn, turns, faults, undone>>

-----------------------------------------------------------------------------
(* Faults *)

Unfinished(r) == request[r].at \notin {"new", "done", "refused", "dropped"}
Cut == [r \in Requests |-> IF Unfinished(r) THEN [request[r] EXCEPT !.at = "dropped"]
                           ELSE request[r]]

(* The client goes away and its handler with it. *)
Drop(r) ==
  /\ Unfinished(r) /\ faults < MaxFaults
  /\ Goto(r, "dropped")
  /\ faults' = faults + 1
  /\ undone' = (undone \/ request[r].at \in {"begun", "working", "failing"})
  /\ UNCHANGED <<profile, row, conversation, turn, turns>>

(* A crash; open fails the operation that was running. *)
Restart ==
  /\ faults < MaxFaults
  /\ faults' = faults + 1
  /\ request' = Cut /\ turn' = IdleTurn
  /\ row' = IF row.status = "running" THEN [row EXCEPT !.status = "failed"] ELSE row
  /\ UNCHANGED <<profile, conversation, turns, undone>>

Next ==
  \/ Summary \/ \E p \in Profiles : ChangeProfile(p)
  \/ TurnReads \/ TurnStarts \/ ConversationStarted \/ Usage \/ TurnEnds
  \/ Restart
  \/ \E r \in Requests :
       \/ CheckMode(r) \/ SetMode(r)
       \/ CheckIdle(r) \/ CheckAble(r) \/ Begin(r) \/ Fails(r) \/ MarkFailed(r)
       \/ Work(r) \/ MarkCompleted(r) \/ Drop(r)

Spec == Init /\ [][Next]_vars

-----------------------------------------------------------------------------
Operating == {r \in Requests : request[r].at \in {"begun", "working", "failing"}}

(* The chat is busy with a context operation exactly while one request     *)
(* carries one out, and never with two: concurrent requests are refused, a *)
(* failed one lets the next begin, and a restart recovers the one it cut   *)
(* off (docs/working-context.md).  It holds until the Bot is given another *)
(* profile, which starts the row anew under the operation, or a client     *)
(* leaves during its operation, which stays busy until the next restart.   *)
BusyWhileOperating ==
  undone \/ (/\ Cardinality(Operating) <= 1
             /\ (row.status = "running") <=> (Operating # {}))

(* The invariant behind it: the row is the Bot's profile's own from the summary of an    *)
(* operation on, so that nobody starts it anew; each generation is a request's that is   *)
(* done.                                                                                 *)
Loads == {r \in Requests : request[r].at = "summed"} \cup Operating
Finished == {r \in Requests : request[r].at = "done"}

OneBusy ==
  undone \/ (/\ \A r, s \in Operating : r = s
             /\ (row.status = "running") <=> (Operating # {})
             /\ Loads # {} => row.profile = profile)

BusyInv == TypeOK /\ row.generation <= Cardinality(Finished) /\ OneBusy

(* docs/working-context.md: SQLite atomically admits only one context      *)
(* operation per chat.  The row is started anew for another profile        *)
(* whatever runs (Storage::working_context).                               *)
OneOperation == Cardinality(Operating) <= 1
=============================================================================
