# HomeBot in TLA+

HomeBot is a messaging application for durable AI teammates ("Bots").  A headless Rust
server owns all state in SQLite; the desktop (egui) and Android clients are projections
that use its authenticated HTTP API and one versioned WebSocket.  The server runs providers
(Codex, Claude, generic processes, OpenAI-compatible endpoints), tools, browser sessions,
plugins and routines on the owner's machine.

This directory holds TLA+ models of the parts of that server and its clients where
concurrency, crashes and ordering make the code hard to test, the TLC instances that
check them, and proofs checked by TLAPS of what holds for every instance.
`PROJECT.json` maps each definition to the source lines it stands for.

    tlc -workers 2 -config ChatTurns_safety.cfg MCChatTurns
    tlapm ChatTurnsProofs.tla

## 1. Inventory

Paths are relative to `src/crates/`.  "Hard" says what makes a component hard to get
right; "correct when" is what a specification of it has to say.

### Core: chats, turns, events, jobs

| Component | State | Operations and interactions | Hard | Correct when |
|---|---|---|---|---|
| Prompt queue (`homebot-storage/src/lib.rs` 5300-5467, 6931-6976) | rows `queued_prompts(position, kind)`, column `chats.queued_count` | insert follow-up, insert steering (renumbers), promote head; called by chats and turns | renumbering in two UPDATEs, count beside the rows | positions contiguous, steering first, no overtaking, nothing lost |
| Direct-chat turns (`homebot-server/src/chats.rs`, `provider_turn.rs`) | `chats.running`, `messages.status`, `idempotency_records`; in memory the `chat_operations` map and each task's locals | send, steer, stop, retry, start, consume, finish, promote, delegate, crash recovery; calls the provider runtime, appends events | every handler is several transactions and awaits; two turns of one chat through delegation; requests dropped with their client; process death at any point | a prompt is admitted once; a client's answer is kept; streaming messages end; an idle chat is not marked as running; stop stops |
| Event outbox and stream (`homebot-storage` 6210-6581, `homebot-server/src/lib.rs` 640-1235) | `event_outbox`, retention floor; `live_events` broadcast channel; per connection an outbound channel and a writer task | append, broadcast, hello, replay in batches, snapshot, heartbeat, close, prune | broadcast after commit and out of order, bounded channels, boundary and nine lists read one after the other, each of which may fail | a client's picture is a prefix of the events and catches up |
| Desktop transport (`homebot-desktop/src/transport.rs`) | cursor, projection | connect, resume, apply, detect gap | duplicates after reconnect against gaps | as above |
| Desktop timelines (`homebot-desktop/src/timeline.rs`, `group_timeline.rs`, `app.rs`) | messages, queue, boundary of a chat; rows and boundary of a group | hydrate from HTTP, apply events and deltas, ask for a timeline | hydration races incremental events; deltas are not idempotent; events that the app consumes leave a view's cursor behind; a gap has to be noticed by the app | no delta applied twice or lost; a settled view agrees with the rows |
| Unread counts and reactions (`chats.rs`, `bots.rs`, `provider_turn.rs`, storage 3247-, 4164-, 5501-) | counts of a chat and of its Bot, reactions of a message | open a chat, count a response, mark a chat or a Bot as read, react | each write is read back and published in transactions of its own | at rest the last events tell the rows |
| Android client (`android/.../HomeBotClient.kt`) | cursor, cache, pending commands | as the desktop, with a persisted cache | as above, process death | as above |
| Routine jobs (`homebot-storage` 1827-2064, `homebot-server/src/scheduler.rs`) | `routine_jobs`, `routine_triggers`; `routine_cancellations` map of Notify | enqueue, claim, spawn, retry with backoff, cancel, recover, delete trigger | Notify registered after the claim and removed before the report; tasks outlive rows | overlap policy respected, attempts bounded, a job at work is shown as running, cancellation and retries end |
| Event and webhook triggers (`scheduler.rs` 75-206, 480-520) | cursor per trigger over the outbox; delivery keys | create, delete, deliver; read at most 500 events, batch at most 25 matches, enqueue, advance cursor | enqueue and cursor in separate transactions; debounce is reset by every event | every matching event is in exactly one job; an answered delivery has its job |
| Schedules (`homebot-routines/src/schedule.rs`) | cursor per schedule | next occurrence, missed-run policy | daylight saving, catch-up bounds | occurrences are neither skipped nor repeated beyond the policy |

### Around the core

| Component | State and operations | Hard | Correct when |
|---|---|---|---|
| Group chats (`groups.rs`, storage) | participants with status, owner role, remaining turn budget, stop flag; claim a coordination turn, hand off, stop, edit members | racing claims, stop against running turns | budget and parallel limit hold, exactly one owner, two to six members |
| Approvals and interactions (`interactions.rs`, `chats.rs` 573-, `capability_rules.rs`) | `provider_approvals`, `provider_interactions`, in-memory waiters; ask, decide, expire, cancel | decision races expiry, stop and finish | one outcome per request, told to the provider and stored alike |
| Policy engine (`homebot-tools/src/policy.rs`) | rules, pending and used approvals; evaluate, approve | rule precedence, digest of what was approved | a side effect has a matching grant |
| Provider runtime, supervisor (`homebot-providers/src/runtime.rs`, `supervisor.rs`) | map of active runs, child process, backoff; start, cancel, finish, restart | cancel against normal end | a run ends once and is unregistered |
| Provider adapters (`codex.rs`, `claude.rs`, ...) | vendor protocol state | translation of streams | each run emits one terminal event |
| Working context (`working_context.rs`) | mode, generation, one operation at a time; compact, reset, hydrate | against a running turn and restart | one operation at a time, generation only grows |
| WebSocket commands (`lib.rs` 1040-1210) | accepted, running, terminal rows | cancellation and crash between the states | accepted commands reach one terminal state |
| Pairing and device sessions (`pairing.rs`) | codes with expiry, sessions, revocation | exchange races expiry and a second exchange | a code is used once; a revoked session is closed |
| Browser sessions (`browser_sessions.rs`) | controller (Bot or owner device), runtime session; take over, return, execute, close | control changes during an action | only the controller acts |
| Checkpoints, workspaces, source control (`checkpoints.rs`, `workspaces.rs`, `source_control.rs`, `homebot-vcs`) | hidden refs, worktrees, digest-bound pending mutations | partial failure between Git and SQLite | restore is undoable; a mutation is what was approved, once |
| Plugins and OAuth (`plugins.rs`, `mcp_oauth.rs`) | rows, tools, assignments, vault entries, flows, sessions at Composio, webhook ids; create, connect, authorize, enable, assign, deliver, delete, call | every network call is an await at which another request, a deletion or a crash comes | a row's session exists, a state is used once, calls only to enabled, assigned tools |
| MCP sessions (`homebot-plugins`) | child process or HTTP session, pages, pending answer; discover, check, call | the server ends, is late or talks out of turn; the caller drops | no child left, lists whole, a success was performed |
| Bot memory (`plugins.rs` 1860-2160, storage 2308-2720) | facts, entity links, text index; add, search, update, remove, feedback | read, then write by id, in several turns at once | an id means one fact, indexes agree with the facts |
| Attachments and artifacts | staged files and rows | file and row apart | no row without its file |
| Terminal and files (`computer_tools.rs`, `homebot-tools/src/terminal.rs`, `filesystem.rs`) | one process per operation with reader, waiter and coordinator tasks; temporary files; run, cancel, write atomically | exit, deadline, output limit, stop and crash race | a stop finds a process that is not yet reaped; a file is old or new |
| Desktop commands (`homebot-desktop/src/transport/api.rs`) | channel, parked commands; chains of HTTP requests with an undo | lost answers, disconnections | one outcome per command, no secret left behind |
| Routines, recordings, runs (`routines.rs`, `homebot-routines`) | versions, recordings, runs | edit against run | a run keeps the version it was bound to |
| Bots, Skills, packs (`bots.rs`, `skills.rs`, `assistant_packs.rs`) | rows and assignments; claim, write, publish | crash or repeated key between the three | what is answered as done is done |
| Secrets (`secrets.rs`, `homebot-secrets`) | metadata rows, values in the platform's store | two stores, no transaction | values and rows agree |
| Search, settings, UI, packaging, migrations | reads, rendering, build, ordered SQL | little concurrency | validation |

How they interact: every mutation goes through an HTTP handler, claims an idempotency key,
changes rows, appends an event to the outbox, and broadcasts it after the commit.  Turns and
jobs are Tokio tasks that outlive the request that started them; they meet the handlers in
the rows and in two maps of `AppState` (`chat_operations`, `routine_cancellations`).  Clients
meet the server in the sequence number of the outbox.

The hazards of this code, each at its line with the properties that guard it, are listed in
`PROJECT.json` under `hazards`.

## 2. Modules

| Module | Models | Uses |
|---|---|---|
| `QueuedPrompts` | the `queued_prompts` table of one chat and `chats.queued_count` | |
| `ChatLedger` | abstract: what a chat promises about the prompts it accepts | |
| `ChatTurns` | one direct chat: requests, turns, promotion, crash and recovery | extends `QueuedPrompts`, implements `ChatLedger` |
| `MCChatTurns` | symmetry for TLC | extends `ChatTurns` |
| `ChatTurnsProofs`, `EventStreamProofs` | theorems about one module (the first also about its queue and its ledger) | extend that module |
| `ProviderProofs`, `BotRuntimeProofs`, `GroupsAndApprovalsProofs` | theorems about components of `MCBotRuntime`; the last puts the types of all of them together | extend it, the last also the other two |
| `OwnerSideProofs`, `ClientProofs`, `ConnectorProofs` | theorems about components of `MCOwnerSide`; the last puts the types of all of them together | extend it, the last also the other two |
| `EventFeed` | abstract: what the event stream promises one client | |
| `EventStream` | outbox, broadcast, one connection with its two channels and writer, one client | implements `EventFeed` |
| `RoutineJobs` | the job table, the scheduler loop, a task per job, cancel requests | |
| `MCRoutineJobs` | triggers and jobs of two instances | extends `RoutineJobs` |
| `GroupChats` | one group: requests, group turns, the Bot's handoff tool, members, budget, stop, restart | |
| `Approvals` | one capability: rules, the policy engine's copy, tickets, approval rows, waiting calls, decisions | |
| `Interactions` | the questions of one turn and the answers of clients | |
| `WorkspaceTools` | file tools and commands of Bot turns, the tasks behind a command | |
| `ProviderRuns` | runs of Claude Code, generic processes and OpenAI-compatible streams behind `ProviderRuntime` | |
| `CodexClient` | the Codex App Server process that all chats of a profile share | |
| `WorkingContext` | mode, compaction and reset of a chat's provider conversation | |
| `Memory` | the built-in memory of one Bot | |
| `McpSessions` | one discovery, health check or call of a plugin adapter | |
| `Routines` | versions, recordings, runs of one routine | |
| `RoutineTriggers` | from events, occurrences and deliveries to jobs; creation and deletion of triggers | |
| `Plugins` | plugin registry, OAuth, connectors, webhooks, tool calls | |
| `Browser` | the shared browser of one chat | |
| `Workspaces` | Git workspace, source control, checkpoints of one chat | |
| `OwnerRecords` | Bots, Skills, assignments, Assistant Packs | |
| `Devices` | pairing, device sessions, commands of an event socket | |
| `Attachments` | uploads, finalization, generated artifacts | |
| `Secrets` | secret rows and the values in the vault | |
| `DesktopTimeline` | the desktop's view of the open chat | |
| `DesktopGroups` | the desktop's view of the open group | |
| `Unread` | unread counts of a chat and its Bot, reactions, what their events last said | |
| `DesktopCommands` | the desktop's command queue and multi-request commands | |
| `AndroidClient` | the Android connection loop, sockets and event processors | |
| `MCBotRuntime`, `MCOwnerSide` | the instances of the components above, side by side | the first extends `GroupChats`; both instantiate the rest |

**How actions are cut.**  One action is one storage transaction, one acquisition of an
in-memory lock, or one call to the provider: exactly the stretches between two awaits at
which another task may run.  A handler is therefore several actions over a program counter
(`step[h]` for requests, `phase[t]` for turns, `task[j]` for jobs, `conn` for the
connection), with the values it read earlier kept as locals (`saw`, `fresh`, `todo`,
`others`, `boundary`).  Durable state survives `Restart`; everything else is reset by it.

**ChatTurns.**  A prompt is its idempotency key, because `enqueue_prompt` stores the key as
the row's id.  `SendRead`, `SendClaim`, then `SendRefused`, `Enqueue`, `AppendUserMessage`
or `Replay`, then `StartTurn`/`StartNothing` and `StartTurnReturns` are `send_message`;
`SteerClaim`, `SteerRead` and the shared `Enqueue` are `steer`, which claims first and never
releases; `StopBegin`, `StopCancel`, `StopClears`/`StopFails` are `stop` with
`cancel_group`; `RetryRead` goes on as a start.  `CreateBotMessage` is shared by the three
places that start a turn.  `Launch` enters the turn in `chat_operations`, `Terminal` is the
end of `consume`, and `FinishMessage`, `CountOthers`, `SetRunning`, `Deregister` are
`finish`, with the lock released between counting and storing as in the code.
`PromoteNext` ... `ClearReservation` are `start_next_queued`.  `Delegate` is the
`homebot_message_bot` tool.  `HangUp` is axum dropping the future of a request whose client
is gone, or a call of the request that fails there.  `Restart` is death of the process plus
`recover_interrupted_chat_turns`.  The error paths of a turn are actions of their own:
`FinishFails` is a storage call or a publication of `finish` that fails at any of its steps,
after which the task of the turn calls `finish` a second time (`refinishing`), and
`FinishRefused` is that second call when the message has ended already; `PromotionDropped` is
the early return of `start_next_queued` behind a committed promotion.  A turn that ends in
`failed_start`, `stranded` or `dropped` is *lost*: nothing goes on with it until the process
starts again.
Message content, Skills, attachments and references are left out; the one thing of them that
changes control, a set of Skills too large to assemble, is the constant `Oversized`.

**EventStream.**  An event is its sequence.  A row is changed before its event is appended, in
the same transaction or an earlier one; so what a query reads reflects at least the events
committed before it, and a part of a picture is represented by that number. `current_snapshot`
awaits one query after another; each may fail and then leaves its part empty (`ReadRows`,
`Parts`; history in `blank`), as a failed `latest_sequence` gives a boundary of 0
(`TakeBoundary`) and a failed `replay_after` a snapshot, or before a further batch the end of
the connection (`ReplayFails`).  `Broadcast` and `Abandon` are separate from `AppendEvent`
because `persist_event` broadcasts after the commit, in the publisher's own task.  The client is
the desktop's `handle_socket`.  `replay_after` looks at the floor (`CheckWindow`, `NextBatch`)
and reads rows (`ReplayBatch`) in separate steps, as its statements are outside a transaction;
what a prune in between removes is recorded in `untold`.

**RoutineJobs.**  A job is its delivery (trigger and delivery key).  `due` is the order in
which the claim query returns waiting jobs whose time has come, as the set of jobs no later
than each of them; `Window` is its LIMIT.
`ClaimNext` is one claim transaction, with the exhausted and skipped jobs it passes; `Spawn`
is `run_due_jobs` entering the Notify after the commit; `Ends`, `Unregister`, `Report` are
`execute_claimed_job`; `CancelRow`, `CancelNotify` are `cancel_job`.  A waiting job whose
cancellation was lost stays due, unclaimed, in the window; a hundred of them would fill the
code's.

**The modules around the core.**  They follow the same rule: one action per transaction, lock
or network call, a record per request (`call`, `request`, `step`) with what it read.

- `GroupChats`: `TurnCounts`, `TurnShows`, `TurnRecords`, `TurnCreates`, `TurnLaunches` are
  `prepare_group_turn` and `start`; a storage function that reads before it takes SQLite's
  write lock is two actions (`UpdateParticipantCounts`, `UpdateParticipantRuns`).
- `Approvals`: the engine's rules are a copy that a request reads and puts in place in two
  steps, so that copies cross; a ticket lives in the engine, in a row and in the oneshot a
  turn waits on, and the three are changed apart.
- `WorkspaceTools`: a command is spawned (`Spawn`) before it is entered (`Register`), with the
  lock of the operations awaited in between; `EndOfOutput`, `Reap`, `Timeout`, `Coordinate` are
  its three tasks.  Waiting for the child may fail (`WaitFails`), which leaves it unreaped; a
  grandchild may keep the terminal open (`holder`).
- `ProviderRuns`, `CodexClient`: the provider is external and may send anything at any time;
  the channel to the turn is bounded and its receiver may leave.
- `RoutineTriggers`: what a pass has read is kept in `pass` while events are published; the
  job's key is the batch's first and last event, as in the code.
- `Plugins`, `Workspaces`, `OwnerRecords`, `Secrets`, `Attachments`: a request may be repeated
  with its key, fail at any call and die at any step.  A vault, a Git repository, a file
  system or a connector is the set of what it holds.  Where a creation of a connector failed, its
  undo takes a look-up of the row that fails for a row that is not there; the session it then
  deletes under an existing row is in `mislaid`.
- `Browser`: a call reads the row, waits for the browser and writes the controller back that it
  read (`WriteBack`).  `crossed` holds the browsers for which that was no longer the controller.
- `DesktopTimeline`, `DesktopGroups`, `AndroidClient`: the server is the log of `EventStream`
  seen from the client's end.  A group's timeline is read as in the code, its own row first
  and the boundary last; a read that its boundary overtook is marked `torn`.  Events of rules and
  browser sessions (`OtherEvent`) are consumed by the app before a view sees them
  (`HandleOther`), which leaves the view's cursor behind.
- `Unread`: a handler writes, then for each event it owes reads the row back (`Look`) and
  publishes what it read (`Publish`).  `late` are the handlers whose row another one changed
  between the two; `behind` are the rows whose last event was late or never came, until they are
  told of again.

**Composites.**  `MCBotRuntime` and `MCOwnerSide` put components side by side that share no
variable in the models.  A behaviour belongs to one component, chosen by its initial state;
the component's variables take the slots `v1`, `v2`, ... in order, and the slots behind them
stay 0.  A state of the run is thus a state of one component, and the run is the sum of the
components' state spaces, not their product.  A property `component = "x" => X!P` is P of that
component in its instance.  `RoutineTriggers` cannot be deep in two directions at once: a
behaviour of it chooses one record of its bounds (`TriggerBounds`), which either goes deep in
events and instants or in deliveries.  The components take their sets and bounds from constants of
the composite, given in its configuration; what the proofs need of those is
`RuntimeAssumption`, `DeliveryAssumption`, `OwnerAssumption` and `CommandAssumption`.

**Faulty variants.**  An operator commented "Faulty variant" is a plausible bug in the
definition that follows it.  No specification uses it; it replaces that definition to show
that a property would notice the bug.

## 3. Runs

| Run | Result | Shows |
|---|---|---|
| `ChatTurns_safety` | holds, 1.5 M states | admission is unique under racing requests, messages stream only with a live or a lost turn, terminal messages are final, turns that neither overlap nor get lost leave the chat idle, with hang-ups, restarts and calls that fail in a start, in `finish` and behind a promotion |
| `ChatTurns_ledger` | holds, 0.2 M states | the chat implements `ChatLedger`; queue positions contiguous, no overtaking; what a client was told is durable, with hang-ups and faults in `start()` |
| `ChatTurns_live` | holds, 59 k states | streaming ends; a turn that completes alone hands on to the queue |
| `EventStream_stream` | holds, 0.3 M states | bounded channels respected, `EventFeed` implemented, the client catches up, with failing queries |
| `RoutineJobs_live` | holds, 11 k states | every job nobody cancels ends |
| `BotRuntime_parts` | holds, 1.3 M states | group turns are paid from the budget; an operation runs under an approval that the chat shows as allowed; a question has one answer; a command that is not yet reaped stays where a stop finds it; MCP outcomes are true; memory ids mean one fact; runs end once and clean; a dead Codex process strands nobody; a context is busy exactly while it is worked on; drafts are not replayed; no event, occurrence or answered delivery is without its job; overlap policies and the attempt limit (in `RuntimeTypeOK`) hold and a job that is shown as waiting or over has no task at work |
| `OwnerSide_parts` | holds, 2.5 M states | a connector's session exists; a browser stays with the device whose lease runs; a mutation reaches the repository once; what is answered as done is done; a command ends once; files and secrets are kept as their rows say; the settled views of a chat and a group agree with the server; the last events tell the unread counts and reactions; a failed setup keeps no secret; Android's projection is what its cursor says |
| `ChatTurns_at_rest` | violated | two turns finishing together leave an idle chat marked as running |
| `ChatTurns_reserve` | violated | a send that read the idle chat starts its turn beside one that was promoted meanwhile |
| `RoutineJobs_cancel` | violated | a cancellation in the gap before the Notify exists, or after it is removed, is forgotten by the retry |
| `DesktopTimeline_delta` | violated | a timeline read between the write of a delta and its publication makes the desktop append it twice |
| `DesktopGroups_gap` | violated | an event that the app consumes, or a stream that starts again from a snapshot, leaves the open group's view behind a gap that nothing closes |

The violated properties state what a document or comment of the repository says; the
`findings` of `PROJECT.json` quote it.

Some modules state more than the runs list, for a reader who works on that part.  What the
model says of them can be seen by adding the statement to a configuration:

| Statement | Says | The model of the code |
|---|---|---|
| `ChatTurns!StopReachesTurns` | docs/chats.md:36, stop is routed to the adapter that owns the operation | breaks it: the turn streams before it is in `chat_operations` |
| `ChatTurns!ReplayAnswersPriorResult` | docs/protocol.md:27, a repeated key returns the prior result | breaks it: the running flag decides where the key is looked for |
| `RoutineJobs!OverlapRespected` with a deletable trigger | docs/routines.md:21 | breaks it: deleting a trigger hides its running task |
| `Browser!BotPausedDuringTakeover` | docs/tools.md:39, a takeover pauses the Bot's connector tools | breaks it: `browser_takeover_active` counts only `status = 'active'`, and a browser whose person waits for an approval is `awaiting_approval` |
| `WorkspaceTools!StopReaps` | docs/tools.md:25, stopping reaps the process | breaks it: a stop while the command is being spawned finds nothing |
| `Browser!LeaseKept` for a browser in `crossed` | docs/tools.md:39, a takeover ends only when the controlling device returns the browser | breaks it: an action that began before the takeover writes back `controller = 'bot'` when it completes, and the next device takes the browser over while the lease runs |
| `EventStream!NothingSkipped` for a part in `blank` | docs/protocol.md:20, the snapshot is complete | breaks it: a query of `current_snapshot` that fails gives an empty list at a boundary past its events |
| `GroupChats!OwnerIsMember` | docs/group-chats.md:15, exactly one owner | breaks it with three Bots: a handoff to a member falls between the check and the update of that member's removal |
| `Approvals!DenyWins` | docs/parity-matrix.md:48 | breaks it: a crossing reload puts an older copy of the rules back |
| `WorkingContext!OneOperation` | docs/working-context.md:17 | breaks it: a profile change starts the row anew |
| `AndroidClient!OneProcessor` | docs/android.md:9 | breaks it: the processor of a failed socket is not joined |
| `Secrets!RepeatKeepsValue` | docs/secrets.md:17, repeating returns the existing reference | breaks it: of two creates in flight with one key, the one whose row is refused deletes the value |
| `EventStream!NothingSkipped`, `InOrder`; `QueuedPrompts!SteeringFirst`; `RoutineJobs!TerminalIsFinal`; `Approvals!SingleUse`; `GroupChats!MembersBounded`; `Plugins!ExchangedOnce`; `Browser!HolderRecorded`; `DesktopCommands!AnsweredInOrder` | see the modules | keeps them |

**Bounds, and why they are enough.**  Two requests are what a race in a handler needs: each
property relates one request to one other actor, and further requests repeat the
interleavings of the second.  Two turns give the two overlaps that exist, delegation and
promotion.  In `ChatTurns_ledger` one request at a time suffices, since the queue changes in
single transactions, but five prompts are needed: one runs while two follow-ups and two
steering prompts wait.  Keys of ordinary prompts, of steering, requests and turns are
interchangeable, and symmetry is used where no liveness is checked.  `Faults` (hang-ups, and
calls to storage and publications that fail) is on in both safety runs.  It is off in
`ChatTurns_live`: a start that is dropped after `create_bot_message`, or a `finish` that fails
twice, leaves a message that streams until the next restart, so `StreamingEnds` holds without
such faults only; `StreamingHasTurn` names them as its exceptions.  `ChatTurns_safety` has one
ordinary prompt and one for steering, and no set of Skills too large (`Oversized`), which
`ChatTurns_ledger` has; `ChatTurns_reserve` has three ordinary prompts, since one has to end,
one to be promoted and one to be sent.  In `EventStream` both channels hold one element, so that
full, lagging and racing cases happen with two events; comparisons are between neighbouring
sequences and the cursor; a picture has two parts, one that is read and one that is not, or two
that are read at different times; two faults allow an abandoned broadcast, a failed query or a
lost connection in one behaviour; a batch of one event makes every replay ask for the window
twice.  For `RoutineJobs` one trigger of each policy, two attempts, a claim window
smaller than the three jobs, one cancel request and one restart make each branch of the
claim happen (`jobs` of `MCBotRuntime`); the live run has two jobs and a trigger that may be
deleted.

In the composites each component has what its hazard needs and no more. Two group turns with a
budget of two and a parallel limit of one make claims collide; two requests and a Bot's tool
race with a stop and a restart. One ticket suffices for approvals, since a request that comes
back and a turn that waits never share one. Three clients answer one question (one in service,
one repeated, one late). An MCP list has up to four pages against a limit of three and up to
four tools a page against a limit of four, so both limits are met and passed. Two tool-call ids
and two events a run fill the bounded channel. Two Codex operations on one client show one
turn's fate at the other's failure. Triggers look at one event per job and two per pass, so that
a batch is cut and a cursor stops inside the log; time goes to three, past a grace of one and a
catch-up of one. Two deliveries, repeated at will, race with the deletion and the creation of
their trigger. Two groups with two writes let a timeline of the one arrive when the other is
open; one group, three writes and one event that the app consumes show the gap. Two handlers and
two keys let a mark and a response cross. Two requests with two keys repeat each other's key.
Two paired sessions send one command, of which two copies are accepted. Two devices, two page
targets, one slot and four calls let a takeover, an action, a return and a stalled page compete;
two callers and four calls let a creation of a connector fail beside another. Two finalizations
of two files share one object. Two sockets on Android are one left behind and its successor.
`MaxCalls`, `MaxEvents`, `MaxVersions`, `MaxEdits`, `MaxWork`, `MaxFaults`, `MaxOrders`,
`MaxRevision`, `MaxAsked`, `MaxCopies`, `MaxTime`, `MaxDrops`, `MaxShifts`, `MaxDeltas`,
`MaxWrites` and `MaxUnread` bound what a client or the environment may still do; nothing in the
code depends on them.

`CHECK_DEADLOCK FALSE` is set where a behaviour may stop because its bounds are used up
(`MaxEvents`, `MaxFaults`, `MaxCalls` ...) or every job has ended.  The composites state safety
only and need no fairness.

**Fairness.**  Weak fairness is given per task: the Tokio runtime polls every spawned task
and every request whose client stays, SQLite's writer admits each transaction in the end, a
provider's run ends (the adapters emit a terminal event or the stream closes, which
`consume` treats as failure), clocks advance, and the desktop's transport thread reconnects
for ever.  Clients owe nothing: no fairness on new requests, cancellations, deletions,
delegation, hang-ups or restarts.  `CompletionDrains` and `CatchesUp` name the cases the
code does not cover (another turn at work; events whose broadcast was abandoned or which
were pruned during a replay, and a part that the last snapshot could not read), so that they
claim no more than the code gives.

## 4. Proofs

| Theorem | In | States, for all constants |
|---|---|---|
| `QueueCorrect` | `ChatTurnsProofs` | `PositionsContiguous` and `SteeringFirst` of the queue alone |
| `QueueOrderKept` | `ChatTurnsProofs` | no operation of the queue lets one waiting prompt overtake another |
| `TypesCorrect` | `ChatTurnsProofs` | `TypeOK` of the chat |
| `AdmissionCorrect`, `AnswersKept` | `ChatTurnsProofs` | `AdmittedOnce` and `AnswerIsDurable`, with faults, hang-ups and restarts |
| `ChatQueueCorrect` | `ChatTurnsProofs` | the queue keeps its shape inside the chat |
| `TerminalStatusFinal` | `ChatTurnsProofs` | `TerminalIsFinal` |
| `StreamingCorrect` | `ChatTurnsProofs` | `StreamingHasTurn` |
| `SequentialCorrect` | `ChatTurnsProofs` | `SequentialTurnsClearRunning` |
| `ChatImplementsLedger` | `ChatTurnsProofs` | the chat implements `ChatLedger` (`LedgerPromise`) |
| `ChatOrderKept` | `ChatTurnsProofs` | the chat's queue is a behaviour of `QueueSpec`, and no waiting prompt overtakes another |
| `StreamTypesCorrect` | `EventStreamProofs` | `TypeOK` of the stream, the capacities of both channels included |
| `NothingSkippedAlways` | `EventStreamProofs` | `NothingSkipped`: each part of the picture that could be read holds every event up to the cursor |
| `StreamImplementsFeed` | `EventStreamProofs` | the stream implements `EventFeed` (`FeedPromise`) |
| `GroupTurnsPaid` | `GroupsAndApprovalsProofs` | `TurnsPaid`: a group starts no more turns than its budget |
| `OneAnswerCounts` | `ProviderProofs` | `OneAnswer` of a question |
| `FoundByStopAlways` | `ProviderProofs` | `FoundByStop` of a command |
| `McpOutcomes` | `ProviderProofs` | `OutcomeHolds` of an MCP operation |
| `NoneStrandedAlways` | `ProviderProofs` | `NoneStranded` at Codex |
| `EndsCleanAlways` | `ProviderProofs` | `EndsClean` of a provider's run |
| `IdsMeanOneFactAlways` | `BotRuntimeProofs` | `IdsMeanOneFact` of the memory |
| `DraftsNeverRunAlways` | `BotRuntimeProofs` | `DraftsNeverRun` of routines |
| `BusyWhileOperatingAlways` | `BotRuntimeProofs` | `BusyWhileOperating` of a chat's context |
| `OverlapRespectedAlways`, `WorkIsShownAlways` | `BotRuntimeProofs` | `OverlapRespected` and `WorkIsShown` of routine jobs, no trigger being deleted |
| `NothingUndeliveredAlways` | `BotRuntimeProofs` | `NothingUndelivered` of events, occurrences and deliveries |
| `RunsAsShownAlways` | `GroupsAndApprovalsProofs` | `RunsAsShown` of approvals |
| `RuntimeTypesCorrect` | `GroupsAndApprovalsProofs` | `RuntimeTypeOK`: the types of all components of `MCBotRuntime` |
| `LastEventTellsAlways` | `ClientProofs` | `LastEventTells` of unread counts and reactions |
| `ProjectionAtCursorAlways` | `ClientProofs` | `ProjectionAtCursor` on Android |
| `FailedSetupKeepsNoSecretAlways`, `CommandsAnsweredInOrder` | `ClientProofs` | `FailedSetupKeepsNoSecret` and `AnsweredInOrder` of the desktop's commands |
| `SettledViewAgreesAlways` | `ClientProofs` | `SettledViewAgrees`: of the open chat and the open group |
| `EachKeyOnceAlways` | `OwnerSideProofs` | `EachKeyOnce` of source-control mutations |
| `CommandEndsOnceAlways` | `OwnerSideProofs` | `CommandEndsOnce` of commands on event sockets |
| `KeptAsRowsSayAlways` | `OwnerSideProofs` | `KeptAsRowsSay` of files and secrets |
| `AnsweredMeansDoneAlways` | `OwnerSideProofs` | `AnsweredMeansDone` of the owner's records |
| `ConnectorHasSessionAlways`, `ExchangedOnceAlways` | `ConnectorProofs` | `ConnectorHasSession` of a plugin and `ExchangedOnce` of an OAuth flow |
| `LeaseRespectedAlways`, `HolderRecordedAlways` | `ConnectorProofs` | `LeaseRespected` and `HolderRecorded` of a browser session, until a stale controller is written back |
| `OwnerTypesCorrect` | `ConnectorProofs` | `OwnerTypeOK`: the types of all components of `MCOwnerSide` |

Each inductive invariant named below was checked by TLC before it was proved.  The modules
that are proved about in a composite define theirs themselves (`GroupInv`, `AnswerInv`, ...),
so that a reader of the module meets it under the property it serves.

**Assumptions** are the named ones on the constants.  `KeysAssumption`: the keys are a finite
set, some of them steering.  `ChatAssumption`, `GroupAssumption`: the null values are none of
the real ones, and limits are numbers.  `RuntimeAssumption`: the same for the components of
`MCBotRuntime`; besides, a call is a turn's or a request's and not both, a list of an MCP server
may have a page and a tool (the code's limits are 32 and 2048), there is a question to ask
about, the requests of a context are finitely many (its generation counts those that ended, and
`Cardinality` means nothing of an infinite set), and a routine may have a version.
`DeliveryAssumption`: the sizes of a batch and of a pass, the period and the catch-up limit are
positive, the grace is a number, and every record of bounds is one.  `StreamAssumption`: the
capacities, the batch and the number of parts are positive, the null cursor and the unread
boundary no numbers.  `CommandAssumption`: what is asked of the desktop's transport is one of
its commands or the shutdown. `OwnerAssumption`: the null value is no number, key, offer,
secret, label, plugin, device, socket, or Bot or group of the desktop's, the Bots at work are
among those with a chat, the buffer of Android's events holds one, at least one copy of an event
may be counted, a browser may be asked to press a key, and no idempotency key is the id of the
Bot that is there already or of the pack's Skill (keys are fresh UUIDs of the client).  Nothing
is assumed about how many turns, requests, clients, sockets, tickets or files there are; every
bound on the environment (`MaxToolCalls`, `MaxFactCalls`, `OwnerActions`, ...) is an arbitrary
number.

**The queue and the chat.**

*Queue.*  `QueueInv` is the type with `PositionsContiguous` and `SteeringFirst`: together
they are inductive, apart neither is (where a steering prompt is put depends on both).
`InsertKeepsInv` and `TakeKeepsInv` are the two steps; the facts that adding or removing
one row changes the count by one carry the arithmetic.

*Admission.*  `AdmittedOnce` alone is not inductive: a request that is about to admit a
prompt has to be the only one that may.  `ClaimInv` says that at most one request owns a
fresh claim of a key, that the key is then claimed and not yet admitted, and that a request
which starts a turn has admitted its key.  `AdmissionInv` joins it with the types, the
locals of each step and `QueueInv`, since the chat inserts and promotes.

*Messages.*  `MessageInv` ties each turn's phase to its message: exactly the unused turns
have none, and only the streaming phases, a second `finish` and lost turns may have one that
streams.  `WorkInv` says who may be
in `chat_operations` and, while since the process started no two turns have overlapped and none
was lost (`Sequential`), that at most one is at work, that it counts no other, and that a running
chat has a turn whose remaining steps clear the flag or hand it on.  A lost turn may stay in
`chat_operations` (`stranded`) and be counted by every later one; the property therefore names
both, and a restart, which clears the flag and the map, starts the history of both anew.

*The ledger.*  The abstract line of prompts is the queue's rows in the order of their positions.
`QueueInv` makes that a line without gaps; the position an insert computes is the place where
`Join` puts the prompt (`InsertJoinsLine`); promotion takes the row at the first position, the
abstract head (`TakeHeadsLine`).  `AdmittedOnce` and its strengthening say that what joins was
never in the line or the transcript before.  Every other step leaves the ledger alone
(`LedgerStutters`).

**The event stream.**  `StreamInv` says what the client's picture is and what may still be on
its way.  Each part of the picture that the last snapshot could read is a prefix of the events
that reaches at least to the cursor (`Picture`); frames tell of events that exist
(`EventsExist`); a snapshot is the first frame of its connection, and a client without a cursor,
which would take any event for the next one, receives one before any event (`SnapshotFirst`);
boundary and parts are read one after the other, so a part may be ahead of the boundary and of
the parts before it, but none is behind the picture (`ReadsCover`).  Each step is then one of
the feed (an event happens, the next one is learnt, a snapshot jumps ahead or leaves parts
blank) or leaves the feed alone.

**The components of the composites.**  Every proof has the same frame.  `XInit` and `XStep`
prove the inductive invariant of component X at first and after a step of X's `Next`; the
theorem lifts them: `component` never changes, so while it is `"x"` a step of the composite is
a step of X, and while it is not the statement holds of itself.  The variables of a component
are the slots of its INSTANCE; the banner over each part of a proof module lists them.  What
each invariant adds to its property, and why the property needs it:

- `GroupInv`.  A turn is paid in `record_group_coordination_turn` but its message is written
  later, so `TurnsPaid` counts also the turns that are past the payment (`Paid`); the set
  grows by one in the very step in which `used` does, and `Cardinality` needs it finite
  although the turns are not.
- `AnswerInv`.  Of the clients only one can be past the pending entry's removal
  (`OneAtWork`), since the flag it sets on the entry decides the race; `SecretKept`
  ties an entry with a result to the value in the vault.
- `FoundInv`.  `StepsAgree`: a command keeps its service from the first question to the end of
  its call, its entry is active only while its call runs, so that a stop cannot reach the next
  one, and the terminal chunk, which ends the call, comes when no task waits for the process.
- `McpInv`.  `StagesKnow` says what each wait already knows: pages and tools so far, whether
  the process lives, whether the call was performed.
- `StrandInv`.  `RouteOwned` names the one moment at which a route of a dead client may
  exist, between its registration and the check that the client lives; without that check the
  turn would wait for ever.  `ReadersToldOf`: a reader that has begun to fail a turn's route
  has ended its stream.
- `EndsInv` (`ProviderRuns`).  `EndedOnce` divides a run's steps into those before its
  terminal event (`Open`) and those after it (`Over`), with the event in the stream exactly
  in the latter; and a run past its clearing has no pending calls.
- `IdsInv`.  `IdsAreNew`: ids come from a counter that is never below one that is stored or that a
  call still holds, so a deleted id never means another fact; `LinksAgree`: the entity links
  are those of the stored facts.
- `DraftInv`.  `RowsAgree` ties the routine's row to its versions, `PublishedRuns` follows a
  version from the row through the job to the run.
- `BusyInv`.  `OneBusy` relates the row's status to the one request that operates, and holds a
  request that has read its summary to the profile of the row; the generation is at most the number of
  finished requests, which gives it its type.
- `OverlapInv`.  The property says of all tasks of a routine that some policy among them allows
  as many; when the task with that policy ends it would be lost, so `SomePolicyAllows` says it
  of every group of tasks.  A claim counts running rows, hence `WorkIsRunning`; it must not
  find a job that runs already, hence `DueWait`; and recovery may take running rows back only
  because `NothingBeforeRecovery`.
- `TicketInv`.  A ticket lives in the engine, in a row and in a oneshot.  `TicketAgrees`,
  `CallAgrees` and `ClientAgrees` say what the three may be at each step of a waiting call
  and of an owner's request; the key facts are that a decision that is shown stays shown
  (`RowLasts`), and that the engine's record goes or stays as it was decided (`RecordLasts`).
- `RosterInv`.  What a handler has read and not yet published is what the row holds, unless it
  is late (`ReadsHold`); a row that was not told as it is has a handler that will still tell of
  it, by a read to come or by one that is not late (`ChangesAreTold`); and while the chat does
  not exist, whoever holds the first claim on it is still to create it (`ChatsAreCreated`).
- `KeysInv`.  `FirstClaimRuns`: of the requests with one key only one is between its claim
  and its run, and the key has not run until then.
- `EndsInv` (`Devices`).  One socket at most carries out a key's command
  (`Carries`), before its operation runs; an operation that has not told its end has not
  ended before (`KeyAgrees`).
- `KeptInv`.  Whoever is about to write a row as ready has seen the content; no step removes
  an object.
- `ValuesInv`.  While no two requests met on a secret, the step of the one at work says
  whether its row and its value are there (`StepAgrees`), and a secret nobody works on has
  both or neither.
- `DoneInv`.  A replay branch looks at rows, so the invariant says of each kind of row whose
  request wrote it: a Bot, a Skill or a version that carries a key is what that key was claimed
  for, and is in `done` (`BotsDone`, `SkillsDone`, `VersionsDone`, `FlagsDone`, `PackDone`).
  That needs each request at work to hold its own claim (`HoldsClaim`); the one operation that
  frees a claim, a refused installation, must not free another's (`OneInstalls`).
- `PluginsInv`.  A creation creates its session before it writes the row, and deletes it again
  when the write fails: `SessionsHeld` says that the session is its own until then, and that no
  row but its plugin's refers to it.  `FlowsHeld`: a flow that is
  pending, or in the hands of the one request that took it, has not been exchanged.
- `BrowserInv`.  `HolderRecorded`; besides, the requests of devices stay theirs, a waiting call
  knows how it goes on, what the Bot's tool closes was the Bot's when it read the row, and a
  session without a row has no lease.  That a call writes back what it read is harmless as
  long as the row still says so, which is what `crossed` records.

- `DeliveryInv`.  A batch's key names only its first and last event, so `WholeJobs` says that
  its job holds every match between them: two jobs with one key hold the same, and a refused
  insert loses nothing.  `PassCovers`: what lies between the cursor and a pass's next cursor has
  a job, or the pass has yet to enqueue it.  `RequestsKnown`: a trigger being created was never
  there, and nothing was answered before there was a webhook.
- `AndroidInv`.  As long as nothing was left behind, only the socket that the loop awaits is alive
  or has frames to apply (`AwaitedAlone`), and a processor at work has computed what its event's
  number stands for (`Synced`): projection and cursor are written one after the other.
- `CommandsInv`.  Commands are numbered as they are asked; those answered, the one under way,
  the parked and the waiting ones are one line of consecutive numbers (`InLine`).  The one
  under way has stored a secret only to create its plugin next (`UnderWay`).
- `TimelineInv`.  As long as nothing on its way asks for the selected chat again (`Calm`), the
  last load asked for, wherever it has come to (waiting, being read, in the inbox or shown), has
  the chat's settled row and all its events (`LastLoadCounts`).
- `GroupViewInv`.  The writes of one row reach the log in order, and the row has the last of
  them (`WritesInOrder`); the last load is of the open group; a view that no boundary
  overtook has learnt every event up to its cursor, and nothing that was never written
  (`ViewsInStep`).

`RuntimeTypesCorrect` and `OwnerTypesCorrect` take the type of each component from the lemma
that its invariant, of which the type is a part, holds in every behaviour of the composite.

**Changes the proofs asked of the model.**  `AndroidInv` was not inductive at first:
`abandoned` recorded only some of the sockets that the loop lets go while they are alive, and
with a third socket TLC found the behaviour in which `ProjectionAtCursor` fails through the
others; it now records every one.  `EventStream`'s replay reads its batch as a sequence of
consecutive numbers instead of sorting a set, `ChatLedger` joins by the place of insertion
instead of concatenating filtered lines, and the occurrences of `RoutineTriggers` are a set
instead of a recursion, all with the same states, since the provers know nothing of the
operators used before.  `CodexClient` had one action for the look-up of
the shared client and the registration of the route; `begin_turn` awaits the lock of the
routes in between, and the actions `TakeClient` and `RegisterRoute` now are two.  In
`RoutineJobs` the order of the due jobs was a sequence filtered with `SelectSeq`, of which the
provers know nothing; it is now an order on the jobs, with the same states.

**Only model-checked.**

- Liveness under fairness (`StreamingEnds`, `CompletionDrains`, `CatchesUp`, `JobEnds`): out of
  the prover's reach.
- The statements of section 3 that no run lists, except those in the table of theorems.
- What a violating run shows is a behaviour of one instance and needs no proof.

Every safety property of the passing runs, action properties and both refinements included, is
a theorem.

## 5. Not modelled, and the plan

`PROJECT.json` lists every component with its status and what of it is left out.  In general:

- what only reads (search, lists, diffs, summaries) and what only renders;
- validation of fields and the wording of vendor protocols: a refusal is an action that may
  happen, a message is one of a few kinds;
- time as a clock: backoff, due times and deadlines appear as "may come now", except where an
  order of instants matters (`Devices`, `RoutineTriggers`, leases in `Browser`);
- the external memory services beyond one REST call, the calendar of schedules, and the
  debounce of event triggers: a steady stream of events postpones their evaluation, which
  only liveness over unbounded streams would show;
- migrations and backup, which run before the server listens or as one SQL statement;
- the close cursor of a connection, which no shipped client reads.

The components of a composite are checked apart.  Where two of them meet in the code, one
stands for the other by what it may do: a turn in `Approvals` is a waiting call, a job in
`Routines` is a version to replay, a client of `Devices` a socket.

Further work: `RoutineTriggers` composed with `RoutineJobs` over one job table, and `Approvals`
with the turn of `ChatTurns`.
