----------------------------- MODULE OwnerRecords -----------------------------
(***************************************************************************)
(* The records the owner edits: Bots, Skills, their assignments and the    *)
(* Assistant Packs (crates/homebot-server/src/bots.rs, skills.rs and       *)
(* assistant_packs.rs over crates/homebot-storage).                        *)
(*                                                                         *)
(* A mutation is claim, write, publish: three transactions, with a crash   *)
(* or a repeated request between any two.  What a key creates has the key  *)
(* as its id, so that a repeated key finds it.  Names are left out: a      *)
(* write that a taken name refuses is one that may be refused.             *)
(***************************************************************************)
EXTENDS Integers

CONSTANTS Keys,      (* idempotency keys, which are the ids of what they create *)
          Requests,  (* requests at a time                                      *)
          NoKey,
          FirstBot,  (* a Bot that is there from the start                      *)
          PackSkill  (* the id of the pack's Skill, derived from pack and Bot   *)

Bots == Keys \cup {FirstBot}
Skills == Keys \cup {PackSkill}
Flags == {"archived", "pinned", "hidden"}

VARIABLES
  bots,      (* the rows of bots                                                 *)
  flags,     (* <<bot, flag>> for each timestamp or counter that is set          *)
  skills,    (* each Skill is "none", "live" or "deleted" (deleted_at_ms)        *)
  versions,  (* ids of skill_versions that came with a key                       *)
  assigned,  (* skill_bot_assignments                                            *)
  pack,      (* whether the pack's routine and trigger are there                 *)
  recording, (* the demonstration: "open" or "closed"                            *)
  claims,    (* idempotency_records: the hash of each key's request              *)
  req,       (* the locals of each request                                       *)
  done,      (* history: <<operation, target>> that took effect, whoever asked   *)
  told,      (* history: <<operation, target>> that were answered with success   *)
  crashed    (* history: whether the server restarted                            *)

vars == <<bots, flags, skills, versions, assigned, pack, recording, claims, req, done, told, crashed>>
rows == <<bots, flags, skills, versions, assigned, pack, recording>>

Idle == [at |-> "idle", key |-> NoKey, op |-> "none", of |-> NoKey, by |-> NoKey]
Unset(f) == [archived |-> "restored", pinned |-> "unpinned", hidden |-> "unhidden"][f]
Ops == {"create_bot", "update_bot", "mark_read", "delete_bot", "duplicate_bot", "create_skill",
        "duplicate_skill", "import_skill", "finish_recording", "update_skill", "assign", "unassign", "install"}
         \cup Flags \cup {Unset(f) : f \in Flags}
Targets == Bots \cup Skills
Claimed == {<<"none", NoKey>>} \cup (Ops \X Targets)
Request == [at : {"idle", "writing", "publishing", "closing", "assigning"}, key : Keys \cup {NoKey},
            op : Ops \cup {"none"}, of : Targets \cup {NoKey}, by : Bots \cup {NoKey}]

TypeOK ==
  /\ bots \subseteq Bots /\ flags \subseteq bots \X (Flags \cup {"unread"})
  /\ skills \in [Skills -> {"none", "live", "deleted"}]
  /\ versions \subseteq Keys /\ assigned \subseteq bots \X Skills
  /\ pack \in BOOLEAN /\ recording \in {"open", "closed"}
  /\ claims \in [Keys -> Claimed] /\ req \in [Requests -> Request]
  /\ done \subseteq Ops \X Targets /\ told \subseteq Ops \X Targets
  /\ crashed \in BOOLEAN

Init ==
  /\ bots = {FirstBot} /\ flags = {} /\ skills = [s \in Skills |-> "none"] /\ versions = {}
  /\ assigned = {} /\ pack = FALSE /\ recording = "open"
  /\ claims = [k \in Keys |-> <<"none", NoKey>>]
  /\ req = [r \in Requests |-> Idle] /\ done = {} /\ told = {} /\ crashed = FALSE

-----------------------------------------------------------------------------
(* bots::claim: the hash covers the operation, its target and the request. *)
New(k) == claims[k] = <<"none", NoKey>>
Replayed(k, op, t) == claims[k] = <<op, t>>

Reply(r) == req' = [req EXCEPT ![r] = Idle] /\ UNCHANGED told
Answer(r, op, t) == req' = [req EXCEPT ![r] = Idle] /\ told' = told \cup {<<op, t>>}

Open(r, at, k, op, t) ==
  /\ req' = [req EXCEPT ![r] = [at |-> at, key |-> k, op |-> op, of |-> t, by |-> NoKey]]
  /\ UNCHANGED told

Claims(r, k, op, t) ==
  /\ New(k) /\ claims' = [claims EXCEPT ![k] = <<op, t>>] /\ Open(r, "writing", k, op, t)

(* A new key goes on to write; a repeated one answers from the state as it is. *)
Begin(r, k, op, t, reflected) ==
  /\ req[r].at = "idle"
  /\ \/ Claims(r, k, op, t)
     \/ /\ Replayed(k, op, t) /\ UNCHANGED claims
        /\ IF reflected THEN Answer(r, op, t) ELSE Reply(r)
  /\ UNCHANGED <<rows, done, crashed>>

(* Of these the claim is ignored: a repeated key writes again. *)
BeginAnyway(r, k, op, t) ==
  /\ req[r].at = "idle"
  /\ Claims(r, k, op, t) \/ (Replayed(k, op, t) /\ Open(r, "writing", k, op, t) /\ UNCHANGED claims)
  /\ UNCHANGED <<rows, done, crashed>>

Writing(r, op) == req[r].at = "writing" /\ req[r].op = op
Wrote(r, t) ==
  /\ done' = done \cup {<<req[r].op, t>>} /\ req' = [req EXCEPT ![r].at = "publishing"]
  /\ UNCHANGED <<claims, told, crashed>>

(* publish, and the answer.  The row is written whether or not its event is. *)
Publish(r) ==
  /\ req[r].at = "publishing"
  /\ Answer(r, req[r].op, IF req[r].op = "install" THEN PackSkill ELSE req[r].of) \/ Reply(r)
  /\ UNCHANGED <<rows, claims, done, crashed>>

(* A name that is taken, a row that is gone, an illegal transition, a storage fault. *)
Refused(r) ==
  /\ req[r].at = "writing" /\ Reply(r)
  /\ claims' = IF req[r].op = "install" THEN [claims EXCEPT ![req[r].key] = <<"none", NoKey>>] ELSE claims
  /\ UNCHANGED <<rows, done, crashed>>

-----------------------------------------------------------------------------
(* bots.rs *)

Create(r, k) == Begin(r, k, "create_bot", k, k \in bots)
Update(r, k, b) == BeginAnyway(r, k, "update_bot", b)
MarkRead(r, k, b) == BeginAnyway(r, k, "mark_read", b)

(* Faulty variant: a repeated key is answered without a look at the Bot. *)
ArchiveTrusting(r, k, b) == Begin(r, k, "archived", b, b \in bots)

Archive(r, k, b) == Begin(r, k, "archived", b, <<b, "archived">> \in flags)
Restore(r, k, b) == Begin(r, k, Unset("archived"), b, b \in bots /\ <<b, "archived">> \notin flags)
SetFlag(r, k, b, f) ==
  \/ Begin(r, k, f, b, <<b, f>> \in flags)
  \/ Begin(r, k, Unset(f), b, b \in bots /\ <<b, f>> \notin flags)

(* A repeated key is answered even if the first request died before it deleted anything. *)
Delete(r, k, b) ==
  /\ b \in bots \/ ~New(k)
  /\ Begin(r, k, "delete_bot", b, TRUE)

(* The copy's key is the copy; the target is part of the hash alone. *)
Duplicate(r, k, b) ==
  /\ req[r].at = "idle" /\ b # k
  /\ \/ /\ New(k) /\ claims' = [claims EXCEPT ![k] = <<"duplicate_bot", b>>] /\ UNCHANGED told
        /\ req' = [req EXCEPT ![r] = [at |-> "writing", key |-> k, op |-> "duplicate_bot",
                                      of |-> k, by |-> b]]
     \/ /\ Replayed(k, "duplicate_bot", b) /\ UNCHANGED claims
        /\ IF k \in bots THEN Answer(r, "duplicate_bot", k) ELSE Reply(r)
  /\ UNCHANGED <<rows, done, crashed>>

CreateBot(r) ==
  /\ Writing(r, "create_bot") /\ bots' = bots \cup {req[r].of} /\ Wrote(r, req[r].of)
  /\ UNCHANGED <<flags, skills, versions, assigned, pack, recording>>

UpdateBot(r) ==
  /\ Writing(r, "update_bot") /\ req[r].of \in bots /\ Wrote(r, req[r].of) /\ UNCHANGED rows

MarkBotRead(r) ==
  /\ Writing(r, "mark_read") /\ req[r].of \in bots /\ Wrote(r, req[r].of)
  /\ flags' = flags \ {<<req[r].of, "unread">>}
  /\ UNCHANGED <<bots, skills, versions, assigned, pack, recording>>

(* To archive what is archived, or to restore what is not, is no transition. *)
SetBotArchived(r) ==
  LET b == req[r].of
  IN /\ b \in bots /\ Wrote(r, b)
     /\ \/ Writing(r, "archived") /\ <<b, "archived">> \notin flags /\ flags' = flags \cup {<<b, "archived">>}
        \/ Writing(r, Unset("archived")) /\ <<b, "archived">> \in flags /\ flags' = flags \ {<<b, "archived">>}
     /\ UNCHANGED <<bots, skills, versions, assigned, pack, recording>>

SetBotFlag(r) ==
  LET b == req[r].of
  IN /\ b \in bots /\ Wrote(r, b)
     /\ \E f \in Flags \ {"archived"} :
          \/ Writing(r, f) /\ flags' = flags \cup {<<b, f>>}
          \/ Writing(r, Unset(f)) /\ flags' = flags \ {<<b, f>>}
     /\ UNCHANGED <<bots, skills, versions, assigned, pack, recording>>

(* set_bot_attention, from the turns of the Bot. *)
SetBotAttention(b) ==
  /\ b \in bots /\ <<b, "unread">> \notin flags /\ flags' = flags \cup {<<b, "unread">>}
  /\ UNCHANGED <<bots, skills, versions, assigned, pack, recording, claims, req, done, told, crashed>>

(* Its assignments and routines cascade; the pack's Skill stays. *)
DeleteBot(r) ==
  LET b == req[r].of
  IN /\ Writing(r, "delete_bot") /\ b \in bots /\ Wrote(r, b)
     /\ bots' = bots \ {b}
     /\ flags' = {p \in flags : p[1] # b} /\ assigned' = {p \in assigned : p[1] # b}
     /\ pack' = (pack /\ b # FirstBot)
     /\ UNCHANGED <<skills, versions, recording>>

(* One transaction: profile, assignments, routines and triggers, but no history. *)
DuplicateBotConfiguration(r) ==
  LET from == req[r].by
  IN /\ Writing(r, "duplicate_bot") /\ from \in bots /\ Wrote(r, req[r].of)
     /\ bots' = bots \cup {req[r].of}
     /\ assigned' = assigned \cup {<<req[r].of, p[2]>> : p \in {q \in assigned : q[1] = from}}
     /\ UNCHANGED <<flags, skills, versions, pack, recording>>

-----------------------------------------------------------------------------
(* skills.rs *)

Found(k) == skills[k] = "live" \/ k \in versions

CreateSkill(r, k) == Begin(r, k, "create_skill", k, Found(k))
DuplicateSkill(r, k) == Begin(r, k, "duplicate_skill", k, Found(k))
Import(r, k) == Begin(r, k, "import_skill", k, Found(k))
FinishRecording(r, k) == Begin(r, k, "finish_recording", k, skills[k] = "live")
UpdateSkill(r, k, s) == Begin(r, k, "update_skill", s, k \in versions)
Assign(r, k, s) == BeginAnyway(r, k, "assign", s) \/ BeginAnyway(r, k, "unassign", s)

InsertSkill(r) ==
  LET k == req[r].of
  IN /\ \/ Writing(r, "create_skill") \/ Writing(r, "import_skill")
        \/ Writing(r, "duplicate_skill") /\ \E s \in Skills : skills[s] = "live"
     /\ skills[k] = "none" /\ Wrote(r, k)
     /\ skills' = [skills EXCEPT ![k] = "live"]
     /\ UNCHANGED <<bots, flags, versions, assigned, pack, recording>>

(* An import that found the name makes a version of that Skill. *)
ImportVersion(r) ==
  /\ Writing(r, "import_skill") /\ \E s \in Skills : skills[s] = "live"
  /\ versions' = versions \cup {req[r].of} /\ Wrote(r, req[r].of)
  /\ UNCHANGED <<bots, flags, skills, assigned, pack, recording>>

(* The demonstration is closed by a write of its own, which may not come. *)
InsertDemonstrated(r) ==
  LET k == req[r].of
  IN /\ Writing(r, "finish_recording") /\ skills[k] = "none" /\ recording = "open"
     /\ skills' = [skills EXCEPT ![k] = "live"] /\ req' = [req EXCEPT ![r].at = "closing"]
     /\ done' = done \cup {<<"finish_recording", k>>}
     /\ UNCHANGED <<bots, flags, versions, assigned, pack, recording, claims, told, crashed>>
CloseRoutineRecording(r) ==
  /\ req[r].at = "closing"
  /\ \/ recording = "open" /\ recording' = "closed" /\ req' = [req EXCEPT ![r].at = "publishing"] /\ UNCHANGED told
     \/ Reply(r) /\ UNCHANGED recording
  /\ UNCHANGED <<bots, flags, skills, versions, assigned, pack, claims, done, crashed>>

UpdateSkillRow(r) ==
  /\ Writing(r, "update_skill") /\ skills[req[r].of] = "live" /\ Wrote(r, req[r].of)
  /\ versions' = versions \cup {req[r].key}
  /\ UNCHANGED <<bots, flags, skills, assigned, pack, recording>>

(* set_skill_assignment looks for the Skill and the Bot, then inserts. *)
AssignReads(r) ==
  /\ Writing(r, "assign") \/ Writing(r, "unassign")
  /\ skills[req[r].of] = "live" /\ FirstBot \in bots /\ req' = [req EXCEPT ![r].at = "assigning"]
  /\ UNCHANGED <<rows, claims, done, told, crashed>>
SetSkillAssignment(r) ==
  LET p == <<FirstBot, req[r].of>>
  IN /\ req[r].at = "assigning"
     /\ \/ FirstBot \in bots /\ Wrote(r, req[r].of)
           /\ assigned' = IF req[r].op = "assign" THEN assigned \cup {p} ELSE assigned \ {p}
        \/ FirstBot \notin bots /\ Reply(r) /\ UNCHANGED <<assigned, claims, done, crashed>>
     /\ UNCHANGED <<bots, flags, skills, versions, pack, recording>>

(* No key: the Skill's name is freed and its assignments go. *)
DeleteSkill(s) ==
  /\ skills[s] = "live" /\ skills' = [skills EXCEPT ![s] = "deleted"]
  /\ assigned' = {p \in assigned : p[2] # s}
  /\ UNCHANGED <<bots, flags, versions, pack, recording, claims, req, done, told, crashed>>

-----------------------------------------------------------------------------
(* assistant_packs.rs *)

(* What is installed is answered without a claim, what is not is claimed; a repeated key *)
(* then is a conflict.                                                                   *)
Install(r, k) ==
  /\ req[r].at = "idle" /\ FirstBot \in bots
  /\ \/ /\ skills[PackSkill] = "live" /\ pack /\ UNCHANGED claims
        /\ Answer(r, "install", PackSkill) \/ Reply(r)
     \/ /\ ~(skills[PackSkill] = "live" /\ pack) /\ Claims(r, k, "install", FirstBot)
  /\ UNCHANGED <<rows, done, crashed>>

(* One transaction, which the ids of a deleted Skill refuse for good (Refused frees the key). *)
InstallAssistantPack(r) ==
  /\ Writing(r, "install") /\ FirstBot \in bots /\ skills[PackSkill] = "none"
  /\ skills' = [skills EXCEPT ![PackSkill] = "live"]
  /\ assigned' = assigned \cup {<<FirstBot, PackSkill>>} /\ pack' = TRUE
  /\ Wrote(r, PackSkill)
  /\ UNCHANGED <<bots, flags, versions, recording>>

Restart ==
  /\ ~crashed /\ crashed' = TRUE /\ req' = [r \in Requests |-> Idle]
  /\ UNCHANGED <<rows, claims, done, told>>

Next ==
  \/ \E r \in Requests :
       \/ \E k \in Keys :
            \/ Create(r, k) \/ CreateSkill(r, k) \/ DuplicateSkill(r, k) \/ Import(r, k)
            \/ FinishRecording(r, k) \/ Install(r, k)
            \/ \E b \in bots \cup {FirstBot} :
                 \/ Update(r, k, b) \/ MarkRead(r, k, b) \/ Archive(r, k, b) \/ Restore(r, k, b)
                 \/ Delete(r, k, b) \/ Duplicate(r, k, b)
                 \/ \E f \in Flags \ {"archived"} : SetFlag(r, k, b, f)
            \/ \E s \in Skills : skills[s] # "none" /\ (UpdateSkill(r, k, s) \/ Assign(r, k, s))
       \/ CreateBot(r) \/ UpdateBot(r) \/ MarkBotRead(r) \/ SetBotArchived(r) \/ SetBotFlag(r)
       \/ DeleteBot(r) \/ DuplicateBotConfiguration(r)
       \/ InsertSkill(r) \/ ImportVersion(r) \/ InsertDemonstrated(r) \/ CloseRoutineRecording(r)
       \/ UpdateSkillRow(r) \/ AssignReads(r) \/ SetSkillAssignment(r) \/ InstallAssistantPack(r)
       \/ Refused(r) \/ Publish(r)
  \/ (\E b \in bots : SetBotAttention(b)) \/ (\E s \in Skills : DeleteSkill(s)) \/ Restart

Spec == Init /\ [][Next]_vars

-----------------------------------------------------------------------------
(* What a client was told is done has been done, by that request or by an earlier one,   *)
(* whatever was repeated and wherever the server died in between (the replay branches    *)
(* of bots.rs, skills.rs and assistant_packs.rs).  Deleting a Bot is the exception: its  *)
(* replay branch answers whatever became of the first request.                           *)
AnsweredMeansDone ==
  \A t \in told :
    \/ t \in done
    \/ t[1] = "delete_bot"
    \/ t[1] \in {Unset(f) : f \in Flags}   (* what was never set reads as restored *)

(* Why it holds: what a request works on is what its key was claimed for, no two         *)
(* requests hold a key that may be freed again, and whatever a replay looks at was       *)
(* written by the request of that key.                                                   *)
Creating == {"create_bot", "duplicate_bot", "create_skill", "duplicate_skill", "import_skill",
             "finish_recording"}
Holds(r, k) == req[r].at # "idle" /\ req[r].key = k
HoldsClaim ==
  \A r \in Requests : req[r].at # "idle" =>
    LET q == req[r]
    IN /\ q.key \in Keys /\ q.op # "none" /\ (q.op \in Creating => q.of = q.key)
       /\ q.at = "assigning" => q.op \in {"assign", "unassign"}
       /\ q.op \in {"assign", "unassign"} => q.of \in Skills
       /\ claims[q.key] = <<q.op, IF q.op = "duplicate_bot" THEN q.by ELSE q.of>>
OneInstalls ==
  \A r, s \in Requests : \A k \in Keys :
    Holds(r, k) /\ Holds(s, k) /\ req[r].op = "install" => r = s
WrittenIsDone ==
  \A r \in Requests : req[r].at \in {"publishing", "closing"} =>
    <<req[r].op, IF req[r].op = "install" THEN PackSkill ELSE req[r].of>> \in done
BotsDone ==
  \A k \in Keys \cap bots :
    claims[k][1] \in {"create_bot", "duplicate_bot"} /\ <<claims[k][1], k>> \in done
FlagsDone == \A b \in Bots, f \in Flags : <<b, f>> \in flags => <<f, b>> \in done
SkillsDone == \A k \in Keys : skills[k] # "none" => claims[k][1] \in Creating /\ claims[k] \in done
VersionsDone ==
  \A k \in versions : claims[k][1] \in {"import_skill", "update_skill"} /\ claims[k] \in done
PackDone == skills[PackSkill] # "none" => <<"install", PackSkill>> \in done
DoneInv ==
  /\ TypeOK /\ HoldsClaim /\ OneInstalls /\ WrittenIsDone
  /\ BotsDone /\ FlagsDone /\ SkillsDone /\ VersionsDone /\ PackDone
  /\ AnsweredMeansDone
===============================================================================
