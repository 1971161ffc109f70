# Formal model of rewter

rewter is a daemon that takes a chat request, gives it to an *initiator* model,
and lets that model plan, spawn workers (plain model calls, tool-using workers,
coding harnesses), wait for them and answer. Everything it does is recorded in
SQLite rows with a lifecycle; people watch through streams and a dashboard, and
approve, steer and cancel while it runs.

This directory holds TLA+ modules of that system, TLC configurations that check
them on small instances, and TLAPS proofs of what matters most. Paths below are
relative to `packages/server/src` unless they start with `packages/`.

## Inventory

| Component | State | Operations | What is hard | What makes it correct |
|---|---|---|---|---|
| lifecycle tables (`packages/shared/src/lifecycle.ts`) | none | transition tables, `isTerminal`, assertion | terminal statuses really terminal | every row write is a listed move |
| orchestrated task (`orchestrator/engine.ts`, `scheduler.ts`) | `sessions`, one `Session` per task: abort controller, workers, gate, turn, handoffs, limiter queue and count | `start`, `drive`, `spawn`, `wait`, `cancel_worker`, `handoff`, `finish`, `cancel`, `dispose` | the driver, the workers, the user and the limiter interleave; an abort can land anywhere | abort reaches everyone; the limiter neither leaks nor starves; rows end in the state the user was told |
| workers of tiers 1, 2, 3 (`orchestrator/worker.ts`, `workers/`, `harness/runner.ts`) | a run row, an inbox, a turn loop, a child process | run, ask, act, report | a worker parked for minutes resumes in a changed world | nothing gated happens without a row that allows it |
| approval gate (`workers/approvals.ts`) | `waiting` promises, `cancelled`, rows | `require`, `resolve`, `resolveAll`, `cancel` | a promise no signal reaches; answers arriving twice or late | a parked worker can always be answered; a pending card has a worker |
| boot reconciliation (`reconcile.ts`) | rows only | `reconcileOnBoot` | a crash inside the sweep | children closed before parents; a second boot finishes the first one's work |
| live tasks (`orchestrator/live.ts`, `steering.ts`) | chunks, subscribers, grace timers, queued steering | `register`, `pump`, `subscribe`, `match`, `steer`, `onIdle`, `shutdown` | reconnects racing the grace timer, replay racing live chunks | no chunk lost, repeated or reordered; a task is cancelled only when abandoned |
| HTTP API (`http/app.ts`) | none of its own | completion, cancel, approve, steer, settings, run, CRUD | routes read a row and act on a session that may be gone | answers match what happened; a task stays within its project |
| event bus and fold (`events/bus.ts`, `packages/shared/src/fold.ts`) | sequence number, listeners, folded view | `append`, `subscribe`, `eventsAfter`, fold | gap between snapshot and subscription; a row written whose event is not | the view equals the fold of the log, and tells the rows |
| router (`router/router.ts`, `resolve.ts`) | attempt, emitted, usage | `stream`, `resolve` | retry after partial output, abort during back-off | output at most once, cost recorded once |
| providers (`providers/`) and streams to clients (`http/*-stream.ts`, `packages/shared/src/translate.ts`) | stream parsers | translate, stream | parts in any order an upstream likes, ends without a reason | the client hears every call whole, one end, and what was said |
| memory: skills and practices (`skills/`, `practices/`) | SKILL.md and PRACTICE.md trees, drafts, index rows, a chain of jobs | distil, land, approve, reject, reindex, look up | file moves and rows are not atomic; the owner edits the same files | only what a human approved is read; no draft or approved file is lost |
| model registry (`registry/`) | models, cards, statistics | seed, sync, merge, card, import, export, observe | user edits against syncs in other processes | a user's word survives; statistics count each verdict once |
| garbage collection (`service/gc.ts`) | rows, workspaces | `gc` | beside running tasks, cut off at any statement | a task is whole or gone; nothing unfinished is deleted |
| daemon and service (`daemon.ts`, `service/`) | pidfile, port, plist, symlink | start, stop, shutdown, install | two stops, a stop while booting, death, launchd's restarts, upgrades | drained before a clean exit; what served is found; what is installed starts |
| costs and cap (`costs/`, budget code of `engine.ts`) | recorded costs, cap | record, summarise | windows, late answers | sums add up; one cap for row and session |
| dashboard panels (`apps/dashboard/src/*Panel.tsx`, `ModelEditor.tsx`, ...) | figures, tables, forms, drafts under review | load, page, edit, approve, import | answers come late or crossed, others write meanwhile | shown is what was asked for; a save changes what was typed |
| command line (`packages/cli/src`) | a chat session: lines, steering chain, conversation | chat, cancel, attach, sync, card, import, start, stop | lines typed while a task ends | every line is passed on once and in order |
| config parsing, prompt text, narration, dashboard views | | | parsing, wording, presentation | not modelled |

The hazards of this code, each with its line and the properties that watch it,
are in `PROJECT.json`.

## Modules

| Module | Models | Kind |
|---|---|---|
| `Lifecycle` | the tables of `lifecycle.ts` | constants and operators |
| `Orchestration` | one task from request to terminal row, with its workers, gate, limiter, the HTTP user, crashes and the boot sweep | state machine |
| `Ledger` | what the tables promise a reader, engine unknown | abstract specification |
| `MCOrchestration` | instances for TLC | model |
| `OrchestrationProofs` | inductive invariant and theorems | proofs |
| `LiveTask` | one live task: the pump, its subscribers, the grace timer, steer, cancel, shutdown | state machine |
| `Feed` | what a listener is promised: the log, in order, with its end | abstract specification |
| `MCLiveTask`, `LiveTaskProofs` | instances; inductive invariant and theorems | model, proofs |
| `Dashboard` | the event log, the socket route that replays it and follows it, the dashboard's store | state machine |
| `MCDashboard`, `DashboardProofs` | instances; inductive invariant and theorems | model, proofs |
| `ModelCall` | one call through the router: attempts, abort, failure and cost records | state machine |
| `Tier2`, `Harness` | the loop of a tool-using worker; the runner of a harness with its adapter, queue, mirror and child | state machines |
| `Workers`, `WorkersProofs` | a dispatched work item under either runner; inductive invariant and theorems | composition, proofs |
| `Memory`, `Condense`, `Registry`, `Stats` | the two libraries of learned files; the cutting of a transcript; models and cards under three writers; statistics | state machines |
| `Library`, `LibraryProofs` | the four above as the daemon's long memory; inductive invariant and theorems | composition, proofs |
| `Service`, `Retention`, `Install` | processes, pidfile, port and launchd; `rewter gc`; symlink and plist | state machines |
| `Operations`, `OperationsProofs` | the three above; inductive invariant and theorems | composition, proofs |
| `Relay`, `Dialects` | a model call from an upstream's parts to a client's response; a conversation from a client's dialect to an upstream's | state machines over pure translations |
| `View`, `Panels`, `Pages`, `Editors` | rows, events and their fold; summaries and the paged event table; panels under late answers; the registry's page | state machines |
| `Chat`, `FileTools`, `Projects` | the terminal session; the file tools on one disk; what a request becomes | state machines |
| `Budget` | the cap of a running task: its note and its stop | state machine |
| `Wire`, `WireProofs` | four of the ten above: `Relay`, `Dialects`, `View`, `Panels`; inductive invariants and theorems of `ModelCall`, `View` and `Panels` | composition, proofs |
| `Desk`, `DeskProofs` | the other six: `Pages`, `Editors`, `Chat`, `FileTools`, `Projects`, `Budget`; inductive invariant and theorems | composition, proofs |
| `Surfaces`, `MCSurfaces` | `Desk` with `Wire`, and the instance of `Projects`' constants | composition, model |

`Orchestration` is the engine whose stream `LiveTask` pumps; there it is driven by
its models and users, here it is the environment that yields, ends and, once
aborted, ends for certain (`Orchestration`'s `EverythingEnds`). Both write the
events that `Dashboard` appends and replays and that `View` folds. `Orchestration`
takes a model call as one step that ends once its signal fired; `ModelCall` is the
inside of that step, and `AbortSettles` that it ends. It takes a worker as a run
row that asks at the gate and ends; `Tier2` and `Harness` are the insides of that,
with the gate, the signal, the inbox and the row shared in `Workers`, and `RunsEnd`
is what `Orchestration` assumes of an aborted worker. `FileTools` is the inside of
`Tier2`'s tool calls, `Relay` the inside of `ModelCall`'s chunks.

`Library`, `Operations`, `Desk`, `Wire` and `Surfaces` put together components that share
no state: they meet through rows, files and streams that are inputs here. Their product
would say nothing that the parts do not, so the variable `part` (`leg` in `Wire`) picks one
component in the initial state and the others rest in one initial state of theirs; a state
of such a run is a state of one part. Each property of the composition conjoins what the parts
promise on one question, and the module of the part states and explains each
conjunct. `Workers` is different: its two runners are handed the same rows, inbox,
gate and signal. `Surfaces` is `Desk`, the surfaces with a person or a disk on the other
side, and `Wire`, those that a model call's words and records pass: a step of either leaves
the other's variables alone, so what is proved of `DeskSpec` and of `WireSpec` is what the
run checks of `Surfaces`. A part's assumptions about its constants are a definition of the
part, which the composition assumes.

### Orchestration

*Rows* (`task`, `item`, `run`, `approval`) survive a crash; everything else is
process memory and is lost. One item has at most one run, as in the code. A
request is `<<item, n>>`: the n-th one its worker makes.

*Steps.* Node runs one callback at a time, so a step of the model is what happens
between two points where the code awaits. Promise continuations run before the
next I/O callback; a step that starts from a request, a timer, a model's reply
or a child's exit is therefore guarded by `Quiet` (no continuation pending), and
the driver and workers interleave freely only among continuations. This rule
excludes orders Node cannot produce and keeps all that it can; dropping `Quiet`
would make `Spawn` race a cancel inside one tool call, which cannot happen.

| Variable | Code |
|---|---|
| `drive`, `turn`, `nudged`, `handoffs`, `calls`, `outcome`, `awaiting` | the `drive()` generator: where it is suspended and its locals |
| `session`, `aborted` | membership in `Orchestrator.sessions`; `taskAbort.signal.aborted` |
| `gate` | `Session.tier2.approvals`: not built, open, or `cancelled` |
| `worker`, `wabort`, `asked`, `verdict` | each `Worker`: its promise's progress, its `AbortController`, its last request and the gate's answer |
| `queue`, `active` | the closure of `createLimiter` |
| `threw` | `drive()` was left by an exception |
| `effects` | history only: the requests whose action was carried out |

*Abstractions.* Model replies, tool results and user behaviour are free choices.
Texts, costs and events are left out. A work item's outcome carries the run's
status, so `SettleItem` copies it. The sweep closes runs and items in any order
that goes bottom-up per item; the code's order is one of them. `Resolve` takes
one request; `resolveAll` for a task is a sequence of them.
`send_to_worker`, `plan_note`, `get_result`, `load_skill` and `ask_user` change
nothing modelled and are one action, `OtherCall`.

### LiveTask

| Variable | Code (`orchestrator/live.ts`) |
|---|---|
| `pumped`, `end` | `LiveTask.chunks` (chunk n is the number n), `finished` and `failure` |
| `subs` | `LiveTask.subscribers` |
| `at`, `replay`, `queue`, `ended` | each `subscribe()` generator: where it is, the copy it still replays, its queue and `ended` flag |
| `gone` | the client's socket closed before its response ended |
| `timer`, `aborted`, `stopped` | the index's grace timer, the task's abort controller, `shutdown()` was called |
| `sent`, `left` | history: what a request was given; the last listener left and nobody claimed the task since |

A step is what runs between two `await` or `yield` points. `Attach` is the claim and
the first pull, which copies the buffer and joins the set without a wait between.
`subscribe`'s early return for a finished task is not reached from the routes,
which only attach to a task that `match` or `start` returned. A request that is
not over SSE never hears its client leave (the routes hand a signal only to
streams); the dashboard's `/internal/run` has no listener at all and so no timer.
A client that is gone before its close listener is registered is not modelled:
the listener is registered before the first wait. `Steer` cancels the timer with
nobody listening, as the code does.

### Dashboard

| Variable | Code |
|---|---|
| `log` | the events table (`events/bus.ts`); event n is the number n |
| `conn`, `asked`, `down` | each WebSocket as its client sees it, the `subscribe` frames under way (each an `afterSeq`) and the frames under way down (0 is `ready`) |
| `attached` | the route `/internal/ws` (`http/app.ts`) has a bus listener for the socket |
| `socket`, `timers`, `timer`, `closing`, `status` | the locals of the store (`apps/dashboard/src/store.ts`), its armed reconnect timers and the one it remembers |
| `lastSeq`, `folded` | `FoldState.lastSeq`; history of the events applied |

The store's handlers act on whichever socket the store holds when they run, not on
the one they were registered for; the model keeps that. `Subscribe` writes the
replay and attaches the listener in one callback. A lost connection takes with it
what was under way; a daemon that restarts looks like a lost connection, its
table unchanged. What an event does to the folded tree, error frames, frames that
do not parse, `latestEvents`, and the CLI's watcher (the same route, once, filtered)
are left out.

### ModelCall

| Variable | Code (`router/router.ts`, `stream()`) |
|---|---|
| `at` | where the generator is: waiting for the adapter, at the yield of `message_end`, in the back-off, over, or left by an exception |
| `attempt`, `emitted` | its locals (`usage` is known exactly at `ending`) |
| `failures`, `costs` | the rows of `failure_records` and `cost_records` it wrote |
| `aborted` | the caller's signal |
| `said`, `lost` | history: what the caller was given and by which attempt; an insert failed |

The adapter is a free choice among what those in `providers/` can yield: content,
then `message_end` or an error, retryable or not; they catch everything. The
router's branches for one that throws or says nothing behave as for a retryable
error, up to wording. An insert may fail at any time. For a failure record that
is swallowed; for a cost it is not: the error reaches the `catch` that is there
for throwing adapters, so a finished answer is followed by an error chunk, and
`OneVoice` names that exception. Nothing looks at the signal between attempts:
an aborted call may begin another one, which its SDK then refuses.

### Workers: Tier2 and Harness

`Tier2` is the loop of `workers/tier2.ts`, one action per stretch between two waits:
`Begin`, the turn boundary `Top` (the only place that empties the inbox), the model's
reply in its four shapes (failure, truncation, prose, calls), and per call the
classification, the question, the tool and its answer. A call is its fingerprint, so
that the same call made twice is the same value; what tools print is left out.
`fresh` is what the transcript gained since the model last read it, which is enough
to say that a reply's calls are answered before anything else. `Another` is the
task's next worker, with memories of its own at the same gate.

`Harness` is the runner of `harness/runner.ts` with the adapters' handling of the
child: `queue` and `closed` are `EventQueue`, `child`, `stdin` and `toRead` the
process, `mirror` the tmux window. The child is free in what it reads and prints, within
a turn or after one, and when it exits. Any event stops the grace timer and only a
`turn_end` arms it again; `late` remembers, as history, that a line came while the timer
ran and no turn was owed. The turn's cost record, argument templates and line schemas are left
out. `mode` tells apart the ways an adapter reads a child that end turns differently.

### Memory and Condense

`tree` is the disk: what stands at `<<directory, slug>>`. Each file operation of
`stage.ts` and `distill.ts` is a step where a crash can fall between two of them, and
the owner may edit any file at any time; `index` is rebuilt by a scan. `chain` is the
promise chain of `watch.ts`, `job` the model call in flight. Both libraries are this
module; `kind` picks the trigger and the number of drafts a reply may hold. Of a
file the model keeps who wrote it, which project it names and whether it parses.
`lookup` and `load_skill` are `Visible` and `Loaded`.

`Condense` is the loop that cuts a transcript, line by line as numbers, with a mark
for what was dropped; costs are per line, header and mark.

### Registry and Stats

`rows` and `cards` are the tables; `cmd`, `todo`, `catalog`, `held`, `asking` the
command that runs in a process of its own, which reads a row (`held`) and writes it
back in another statement. Of what is known of a model one number stands for all
facts (they are merged alike). `bundle` is an exported file that may be imported
later. An edit that falls between the read and the write of a row by a sync is lost;
`HumanKept` leaves that window out.

`Stats` folds verdicts into a count and running means. The mean is kept in units
every division of the instance leaves whole; with unknown costs it drifts (below), so
what is claimed of it is that it lies among the costs that were measured.

### Service, Retention, Install

A process of `Service` is a pid that probes, listens, serves, drains and is gone,
with the exit code it left. The pidfile, the port and the rows are shared. What a drain
waits for is requests: the button's (`open`), a client attached to a task (`audience`), a
pass-through completion (`relaying`), which nothing but its upstream or its client ends.
A task nobody is attached to is none of these: `live.shutdown()` aborts it, the exit
takes its driver (`Forgets`), and its row waits for the next boot's sweep. `rewter
stop` is a command with its polls, launchd a restarter of what ended badly.
`requestStop` hands every caller the promise of the first (`Joins`). Handlers of
signals exist from `serving` on; before, a signal kills.

`Retention` runs the transaction of `gc.ts` statement by statement on a `draft` of
the tables that a commit makes the tables, and the removal of directories after it,
with a death at any point. `PointsTo` is the schema's foreign keys: a statement in
the wrong order fails as it does there. `Install` is the two installers beside a
person, rebuilds and upgrades of node.

### Relay and Dialects

`said` is what the model meant, blocks of text and calls whose pieces are numbers.
An upstream of each of the three kinds cuts it into parts, `adapter` holds the locals
of that adapter's `stream()`, and `chunks` what it yielded. The client's side is a
function of the chunks: frames of either dialect, streamed or collected, read back by
a client (`ReadAnthropic`, `OpenAIFrames`, `Collected`). An upstream finishes one
call before it begins the next.

`Dialects` is the other direction: a conversation grows as a client of either dialect
grows it and is sent whole to each adapter's request builder (`Request`).

### View, Panels, Pages, Editors

`View` has the rows of one task and the event each write owes; a crash may lose the
one between the statements, and `lost` remembers it. `foldEvents` is the fold of
`packages/shared/src/fold.ts` over the log, as a fold over a sequence.

`Panels` has the summaries of costs and failures as functions of records in any
order of time, and the event table: one reading of the newest page, which the next tick
drops, and older pages on their way in any number (`back`), as nothing keeps the button
from being pressed again; each answer lands when it likes, whatever the table has become.
`raced` remembers that one landed on a table it does not fit (`Fits`): its filter is
another, or the rows no longer end where the page begins or ends. `Pages` is a figure's panel
and a draft's card: requests in flight, with `live` telling whether their answer is
still cared for. `Editors` is the form of one model: `typed` is what the user changed,
`under` that somebody else wrote the row since it was filled, and `loads` the
re-readings that come back in any order. A save goes on when its form is closed and
another one opened, so each request in `patches` has its own record of what was typed,
whether the user was warned, and whether the row changed under it; `returned` is history,
that an import gave the row back to its source.

### Chat, FileTools, Projects

`Chat` is `packages/cli/src/chat/chat.ts` with its `LineSource`, the steering chain
and the kill; lines are numbered in the order typed. `FileTools` is one action per
wait of each tool, with two workers on one disk; a file is a sequence of passages and
a write empties it before it fills it, as the call does. What the tools that look find and
how answers are cut is left out (of how a search's hits are picked, the number is kept);
their gate, their waits and their failures are not. `Projects` is what requests,
edits of projects and settings make of a task; a model's id is the sequence of its
parts, so that the loose matching of `resolve.ts` can be said.

### Budget

`Budget` is the cap of one task inside as much of `drive()` as decides when it is looked
at: a turn with calls ends in `budgetCheck`, a reminder and a handoff skip it, workers
are billed at any time and the route moves the cap at any time. `budgetWarned` is the
latch; `note` is what the leader's messages say of the cap in force and `dropped` that a
predecessor took it along, both history. A check near the cap leaves a note about it
(`ToldOfTheCap`), and a leader told to stop gets no worker until the cap is moved
(`StopMeansStop`). Spending itself has no bound: several workers are let in on the same
records, and a leader goes on with its own turns. The bounds: caps of 5 and 7, where 80 %
and the cap are apart, five turns, two workers, one handoff, two moves of the cap.

## Runs

All instances of `Orchestration` have two items on one slot (`Concurrency = 1`), so
that the second queues behind the first: one slot and one job more than slots is the smallest
instance in which releasing, starving and over-admitting differ. One item holds
workspace tools (tier 2: asks in mid-run, repeatedly if allowed), the other is a
harness (tier 3: asks before it exists) or, in the liveness run, a plain call.
`MaxCalls = 2` lets one reply spawn both, or spawn and wait; `MaxTurns = 3` lets
a reply follow a wait and end by running out; `MaxCrashes = 2` lets the second
crash land inside the sweep that followed the first. Deadlock is not checked:
when the task is over and nothing crashes the system rightly stops.

| Run | Question | Result |
|---|---|---|
| `orchestration` | the six safety invariants, and that the engine's writes implement the Ledger | holds, 777,204 states |
| `orchestration_liveness` | does an aborted task end, do workers wind down, does a boot leave nothing unfinished | holds, 48,806 states |
| `live_task` | does every request read the Feed, get every chunk and its end; is an abandoned task, and only an abandoned one, on the clock, and does it end | holds, 32,095 states |
| `dashboard` | is the fold that of a prefix, is nothing missed, is live live, does a mounted page catch up | holds, 176,007 states |
| `model_call` | does the caller hear one attempt, is an answer billed once, do the records add up and tell the truth, does an aborted call end | holds, 370 states |
| `workers` | are messages heard once and in order, is nothing left behind, does a refusal hold, does the run end | holds, 386,778 states |
| `library` | is only what was approved seen, does a human's word stand, is what is derived true, is nothing lost, do the jobs end | holds, 327,652 states |
| `operations` | do daemons start, stop and come back by the rules, does the sweep leave tasks whole or gone, does what is installed start | holds, 245,183 states |
| `surfaces` | is what is said, shown, saved, typed, edited and allowed what it should be | holds, 715,368 states |
| `double_cancel` | `DriverNeverThrows` | violated |
| `condense_hangs` | `Condenses` | violated |
| `edit_dollar` | `EditsExactly` | violated |

The violated properties state what comments, descriptions and tests of the code say;
`PROJECT.json` quotes each and says what the counterexample does.

The type invariants of `Orchestration`, `LiveTask`, `Dashboard` and `ModelCall` are
proved for every instance (below) and no run repeats them; those of the other modules
are conjuncts of the properties of their compositions.

*Fairness* (`FairSpec`): continuations run (`DriveStep`, `Continuation`); a dead
daemon is started again (launchd's KeepAlive) and its boot proceeds; a model call
or a child whose signal fired ends. No fairness is assumed of users, of models or
tools that were not aborted, or of a worker parked on the gate: that an aborted
task ends although its worker was parked is what `AbortEndsTask` checks.

`LiveTask` runs with three requests, two streaming and one plain, so that one can
leave while another stays and a third arrives, and two chunks, so that a replay
can be overtaken by a live chunk and both by the end. Fairness: generators that
can go on do, timers fire, an aborted engine ends its stream. Nobody has to
attach, stay, steer or leave.

`Dashboard` runs with three sockets (the orphaned one, the current one and the
reconnect beside them), two lost connections, two mounts (StrictMode's pair) and
two events, so that one can be replayed and one live; the proofs below need no
such bound. Fairness: frames arrive, connections open, close events and timers
fire. Nobody has to append, mount or unmount. Deadlock is not checked in either:
a finished task and an unmounted page rest.

`ModelCall` runs with the router's default of three attempts (a first, a middle and
a last one) and two chunks of content. Fairness: the caller pulls, back-offs
pass, an SDK whose signal fired ends its stream. An upstream nobody aborted may
hang for ever.

`Workers` runs with two calls of which one may be made without asking, two workers of
the task one after the other, two turns, two messages: a call can be refused and
repeated in the same reply, a later turn or the next worker, and a message can fall
before, into and after the last turn. Fairness: continuations run, tools end, and so
does a model call whose signal fired; the runner reads its queue, the grace timer
fires, a child that was told to leave does (`SF`: it is enabled again and again while
messages keep coming), and a child that was given a message reads it. A child nobody
told anything may work for ever, and a human need not answer.

`Library` runs with two slugs, a project, two tasks and one upset (an owner's edit or
a crash) for `Memory`; up to 70 lines of three lengths and two headers for `Condense`;
one model with three facts, two edits and two commands for `Registry`; three items at
two costs for `Stats`. Two drafts of one name, a draft beside an approved file and a
global one beside a project's all occur, and so does an edit inside each command.
Fairness: the chain of jobs goes on, commands end, a deletion's second statement runs.

`Operations` runs with two pids (one to stop and one that starts beside it or after
it), one task, one `rewter stop` with one poll, one crash; two old tasks over four
days and two sweeps, so that a task can be caught by the second that was too young for
the first; two builds, two nodes and four steps of install. Fairness, in `Service`
only: of the processes that can go on one does, an aborted task ends (that is
`EverythingEnds`), launchd looks after its job, a command takes its next step. Nobody has
to start, stop, attach or leave, and no completion has to end: `DrainsOut` is about a
drain that no completion goes through, and control.ts:109 about the other kind.

`Surfaces` needs no fairness. Four parts of a stream are a text, a start of a call and
two pieces or two calls of a piece; four messages are a question, calls, results and an
answer; two work items with two costs over five events; two records over three ticks,
of which two are one day, so that a window can cut a day; a table of five events in
pages of two, with two older pages on their way at once (`MaxOlder`: the same question
twice, or one asked while another's answer is late); three requests of a panel in
flight; four acts on a form with one of somebody else's; three typed lines; two calls of
two workers on two files; one task in one project with two edits and model names that
match exactly, by suffix and by the upstream's name.

Deadlock is not checked in the compositions: a run that is over, an empty chain, a
stopped daemon and a read stream rest.

## Where the code says more than it does

Three of these are runs. The others were met while modelling; no property claims
them, the models do what the code does, and each is listed with the place to look.

* `orchestrator/engine.ts:907`: "no worker may outlive the task". Workers are only
  signalled when the terminal row is written; queued ones still start and write rows.
* `orchestrator/engine.ts:256`: a cancelled task's stream "already ends with
  `transitionTask(…, "cancelled")`". An answer that crosses the cancel ends it as
  succeeded, after the route said aborted.
* `reconcile.ts:66`: the boot walks unfinished tasks only. Items and runs under a task
  that is already closed stay open, and requests are expired after their task was
  closed (`reconcile.ts:88`), so a crash in between leaves them pending for good.
* `workers/execute.ts:428`: `cancel_worker` does not reach the gate. A worker parked on
  a card stays parked, and a later yes still runs the command in its name.
* `workers/tier2.ts:170`: the memory of refused calls is one run's, though
  `tier2.ts:76` and `engine.ts:609` call it the task's.
* `apps/dashboard/src/store.ts:94`: after connect, disconnect, connect the late close
  event of the first socket lets go of the second, which stays open beside a third.
* `harness/runner.ts:170`: any event stops the grace timer, and only the end of a turn arms
  it. A child that prints one more line after the turn in which it took a message leaves
  the session with no timer and its input open, though "waiting unbounded is a deadlock"
  (`runner.ts:189`); only the child's exit or a kill ends it then (`SessionEnds`).
* `daemon.ts:387`: "Tasks next: a running orchestration holds upstream calls open". They
  are aborted, and `app.close()` waits for requests: a task nobody is attached to, in a
  back-off that hears no signal (`router/router.ts:179`), may still be running at exit 0.
  Its row stays running until the next boot closes it as interrupted.
* `service/control.ts:109`: "if the drain is genuinely stuck" is meant, and happens: the
  stop aborts tasks only, and a pass-through completion holds the drain until its
  upstream ends or its client goes.
* `workers/execute.ts:18`: "output is capped, and says when it was cut". The shell keeps
  the last 32 KB of what a command printed (`execute.ts:460`) and does not say so; a walk
  ends at 20,000 files (`execute.ts:361`, `:391`), `glob` lists so many matches and no
  more, and `grep` clips a line at 300 characters (`execute.ts:410`), all in silence.
  Cutting is not modelled.
* `apps/dashboard/src/ModelEditor.tsx:110`: what is dirty is told from the row as it is
  now. A form that was open while another client, a sync or an import changed the row puts
  back the numbers it was filled with; `SavesWhatWasTyped` leaves such forms out (`under`).
* `db/repos.ts:899`: the running mean divides by all attempts, of which those of
  unknown cost are part: 36, unknown, 0 gives 24 and not 18.
* `apps/dashboard/src/EventsPanel.tsx:102`: an older page that was asked for before a
  refresh lands behind the refreshed rows and can leave a hole (`NoHoles` without
  `UnlessRaced`).
* `apps/dashboard/src/EventsPanel.tsx:93` and `:212`: the button has no guard while an
  answer is on its way. Pressed twice, then again when the first page is there: the third
  answer ends the list, the second one, late, says again that there are older rows.
* `http/anthropic-stream.ts:108`: arguments that arrive for a call whose block is no
  longer the open one go to the open block, were an upstream to alternate calls.
* `packages/cli/src/chat/chat.ts:401`: a stream that ends without an error counts as an
  answer, so the last text of a task that another client cancelled enters the
  conversation as the task's answer.
* `orchestrator/engine.ts:1463`: "one note when spending crosses 80% of the cap, and a
  stronger one once it is reached". The latch the first one sets (`engine.ts:1469`)
  suppresses the second; the stronger text is sent only when one check finds both
  crossed.
* `orchestrator/engine.ts:1226`: a handoff builds the messages anew, without the note, and
  leaves the latch set: the successor hears of the cap when its spawn is refused.
* `http/app.ts:1655`: `POST settings` takes a cap above the project's, which
  `packages/shared/src/projects.ts:29` calls one a task can never exceed.
* `workers/execute.ts:221` and `:243`: another worker's whole edit fits between the
  read and the write of an edit, and is lost.
* `db/repos.ts:2` with `packages/shared/src/fold.ts:4`: the events tell the rows up to
  a death between a row and its event (`ToldUnlessLost`).
* `skills/distill.ts`: a transcript cut in several passes counts its own marks among
  the lines a later mark says were dropped.

## Proofs

### Orchestration

`OrchestrationProofs` proves, for every finite set of items, every concurrency
and every bound, the type invariant, all six safety invariants and the
refinement of `Ledger`. From the assumptions in `Orchestration`: `Items` finite,
tiers 2 and 3 disjoint subsets of it, `Concurrency` positive, the bounds natural.

None of the properties is inductive alone. `IInv` adds:

* `Shape`: types, with `active` only an integer. That it is a natural follows
  from what it counts, so it cannot be assumed on the way there.
* `Places`: a worker's place fixes its rows (queued: item pending, no run;
  streaming: both open; ...). Needed because a worker's next write must be legal.
* `Asks`: which requests of an item exist and in what state: a pending one only
  under a parked worker, an allowed one under a worker that heard yes.
* `Driving`: the driver's place fixes what the task row, session and process look
  like. In the loop the row is `running`, or `cancelled` by the double cancel.
* `Told`: an open gate belongs to a live session; an abort reached every
  unsettled worker; a parked worker's gate is open.
* `Slots`: the queue lists the queued workers once each, the count is the number
  of admitted ones, and a queue is only there when the slots are full.

Each part has a step lemma with one step per action. `Refinement` follows from
`IInv` and one lemma per kind of row.

### LiveTask

`LiveTaskProofs` proves, for any set of requests and any number of chunks, the type
invariant, that `LiveTask` implements `Feed`, `AbandonedIsTimed` and
`TimerMeansNobody`. What a request was given is a prefix of the log only because
what it was given, what it still replays and what is queued add up to the log:
`Position` says that for each place of the generator, and that one only ends
when its client left or the task is over. `IInv` adds that the timer and the
subscriber set agree.

### Dashboard

`DashboardProofs` proves, for any number of sockets, events, losses and mounts, the
type invariant, `FoldsThePrefix`, `NothingMissed` and `LiveMeansFed`. The argument
does not follow sockets through their lives, which overlap freely: `Wire` (an operator of
that module, not the composition) says of each that no event in it comes before its predecessor was folded or delivered
(`Gapless`), so the fold's guard `seq > lastSeq` never skips one; that an attached
one carries everything between fold and log (`Covers`); and that a `ready` is
only under way where a listener is attached.

### ModelCall

`WireProofs` proves of `ModelCall`, for any number of attempts and any length of answer, the
type invariant, `OneVoice`, `BilledIfAnswered`, `Accounted` and `RecordsTrue`.
`Silence` adds that nothing was said between attempts, so a retry cannot mix
voices; `Books` that each place of the generator fixes how many attempts are
recorded.

### Wire

`WireProofs` proves of `View` and `Panels`, for any numbers of items, costs, events and
crashes, any models, records, times and page sizes, `ShowsWhatIsThere`: `ToldUnlessLost` and
`BillComplete`, `PanelsAddUp` and `NoHolesUnlessRaced`. From the parts' assumptions: the
bounds natural, a page holds at least one row. `ShownInv` says that the leg that moves
satisfies its invariant.

* `ViewInv` (rows and fold): unless a crash took an event, the log with the event still owed
  folds into exactly the tree that the rows make (`TreeIsRows`); `RowsTree` is that tree,
  written from the rows. The property speaks of moments when nothing is owed and says
  nothing between a write and its event, so it is not inductive; the equation of trees is, with one
  lemma per kind of write: what the row change does to `RowsTree`, `applyEvent` does to the
  folded one. `BillTold` is the same of what is billed, and holds also once events are lost:
  a cost whose item or run the fold never heard of stays in the task's total.
* `PanelsInv` (summaries and table): that windows and buckets add up needs no history, only
  that the sum over a finite set of records is the sum of those over any parts of it, for two
  parts and for the groups of a key. For the table, `TableInv` says that the rows are a
  `Stretch` of the events found under the filter, that an answer of the newest page still on
  its way is one too, and that each older page on its way, however many there are, is the
  top of what lies `Before` the seq it was asked for (`RightOnes`), which the log's growth
  does not change. Where such a page fits, the rows with it are again a stretch, whether
  they end where it begins or already hold it; what `raced` records is the code's own gap,
  that a page is merged into whatever the table has become. What `latestEvents` answers is stated once, of any `Newest`
  and any bound (`TopOf`).

A fold and a sum walk data of any length. No prover here takes the library's induction
theorems, whose hypotheses are operators, so the module derives induction from a fact
without one: `NatLessThanWellFounded` and `WFMin` give a set of naturals its least element
(`Least`), and from it a set of naturals that has 0 and is closed under successor is all of
`Nat` (`Inductive`), with the same for a property of finite sets by their size. A fold is
then a function over the lengths of a sequence (what the community modules' `FoldLeft`
computes by `MapThenFoldSet` is shown to be that one), and one element more is one step of
it (`FoldMore`).

### Workers

`WorkersProofs` proves, for any set of calls, however they are gated, and any number
of turns, messages and workers, `MessagesInOrder`, `EndsTidily` and the action property
`RefusalHolds`. From the runners' assumptions: `Inside`, `Gated` and `Writes` nested in
`Calls`, the marks of a bad call or a finish not calls, the bounds natural. The
invariant is a disjunction, `Loop` or `Session`: the runner that is not used stays as
it was made.

* `Spoken`: what the transcript gained is a reply, the results of its first calls in
  order, and its open calls; or all its results, then the initiator's words. That a
  reply is answered before anything else is said (`Coherent`) follows, but is not
  inductive: it does not say which calls are open while one is at the gate.
* `Looping`, `Remembered`: the turn count bounds the open calls; a refused call is in
  the run's memory, or its worker has not heard the verdict yet.
* `Staged`, `Reported`: each stage of the harness fixes row, child and queue; what the
  child last said is in the queue (which holds what one callback pushed, less what was
  taken) or was read, so that the row tells the end.
* `Posted`: what a child that can still be written to heard, followed by the inbox, is
  all that was sent.

### Library

`LibraryProofs` proves `OnlyApprovedIsSeen`, `HumansWord`, `DerivedIsTrue` and
`NothingLost`, for any projects, names, models, items and transcripts, and any number of
crashes, edits and commands. From the parts' assumptions: names that mean something to
the code (`pending`, `global`, `none`) are not projects' (`RESERVED_PROJECT_SLUGS`), items
are finitely many, costs natural. `IInv` conjoins one invariant for each part:

* `Queue` and `Store` (memory): a task is offered once, after it ended, and leaves the
  chain for its call; a file outside `pending/` is its owner's or was approved (`Vetted`),
  and the index follows the tree. `Vetted` speaks of the disk, `OnlyApprovedIsRead` of
  what a task is shown, and a crash in an approval comes between the two.
* `Records` (registry): rows and cards in shape, a row that a sync holds is as it was
  unless somebody wrote it since (`Holds`), and what a human said is in the row (`Rows`)
  and beside the card (`Cards`).
* `Cut` (condensing): the body is whole, or `k` lines of each end around one mark. That
  there is one mark is not enough to cut again without losing an end; the counts are.
* `Counted` (statistics): each item once, the mean among what was measured. That floor
  division stays between the old mean and the new cost is a lemma of its own (`Between`).

### Operations

`OperationsProofs` proves `ServiceKeepsRules`, `SweepsWhatIsOld` and
`InstallsWhatStarts`, for any number of processes, stops, polls, crashes, tasks, days,
builds and versions of node. From the parts' assumptions: the bounds are natural, and
time has at least one day. `IInv` conjoins:

* `Claims`: a process serves only on the port, the port's holder serves or drains, and
  whatever a pidfile or a `stop` names is past its boot. The last is why a signal never
  kills a boot; the first, why a claim cannot go by another daemon's start, end or drain:
  no other can bind, and none other has a stop to begin. That exit 0 cuts off nobody
  is a matter of the steps: a process has one way to 0, the end of its drain, and whoever
  asks for a second stop only joins the first.
* `Sweeping`: all tables name the same tasks; inside a transaction, the draft is the
  tables with the first of the order swept (`Swept`), so that a commit is of all or
  nothing; what was chosen has ended long enough ago by either of its columns, stays so
  as days pass, and is no task that is created or ends meanwhile.
* `Placed`: a plist names the stable path, unless there is none.

### Desk

`DeskProofs` proves `DoesWhatItSays`, `PassesLinesOn`, `EditsWhatIsThere` and `StaysInBounds`,
for any sets of models, prices, tabs, files, workers,
projects and caps and any number of requests, acts, lines, calls, writes and turns. From
the parts' assumptions: files finitely many, the bounds and the default cap natural,
`none` no project's name, the passages and prices the code treats apart (`$&`, the empty
price) among those that occur. `DeskInv` says that the part that moves satisfies its own
invariant; that the others rest is one lemma (`OnePartMoves`).

* `FilesInv` (file tools): a command that outlives its time limit goes on writing. That a
  version number stays within its bound needs the count of such commands: a stray one
  stands for a call that has ended (`StraysCounted`). A tool half-way through a file is of
  the kind that has halves, and what an edit read has its anchor (`HalfWay`); the version a
  card was let through for is no younger than the file's (`LetThroughBefore`), so that the
  one matched later is no older.
* `BudgetInv`: the latch says nothing by itself; it means that a note about the cap in
  force was left (`LatchMeansTold`), and a note to stop means that the records reached that
  cap (`StopMeansOver`), which stays so because records only grow and a note goes when the
  cap moves.
* `PagesInv`: a request still cared for is for the present tabs and, once answered, no
  older than the last event (`AskedForNow`), and what is shown is current, or such a request
  is out, or the page says that one failed (`CurrentOrAsked`); a card without a draft offers
  nothing (`CardHasDraft`).
* `EditorsInv`: what the user left alone is the row's, in the form and in each request that
  has not arrived, unless somebody else wrote the row since (`LeftAlone`); a form has at
  most one request of its own, which knows no more than the form (`OneRequest`), while those
  of closed forms still arrive; as long as the row is its source's, everything the page
  holds says so (`ShownSynced`). The attempt to prove this showed that the model let the
  form forget the requests of forms closed before; `patches` is the repair.
* `RequestsInv`: each task took its workspace, its leader and its cap from its project as
  that was (`Bounded`); the page's list tells the rows unless a change is not yet read
  (`ListedUnlessBehind`).
* `ChatInv`: a line is in one place on its way from the queue through the chain and a POST
  to the daemon, and none overtakes another (`LineOrder`); none is lost unless a POST threw
  or the session failed (`Covered`). The line of a POST is ahead of those in the chain only
  until the daemon has decided about it (`Waiting`); after that it is among those the daemon
  has, or refused. What a task said is what was read followed by what is under way, so that
  a turn that read its end knows the whole (`Streaming`). Every turn took a line
  (`TurnsCount`), which bounds the conversation.

### What is only model-checked

The liveness properties, `AbortSettles` and the liveness parts of the compositions among
them (they rest on fairness, which is out of the prover's reach); `SaysWhatWasSaid`, the one
safety property that no theorem states (the translations of `Relay` and `Dialects` are made of
`SelectSeq`, `SortSeq` and `FlattenSeq`, whose recursive definitions inside the standard modules
are not visible to the provers); and that the comments quoted in the violation runs are not
what the code does.

## Plan

What is left, the most important first:

1. Proofs about what of `Relay` and `Dialects` needs no translation: the states of a stream
   and its one end, the calls of a conversation that are open.
2. `steering.ts`: how a conversation is matched to the live task it belongs to.

## Not modelled

Prompts, narration, digests' wording and the initiator's tool schemas; the schema's
text and SQL; `providers/presets.ts` and the catalog's contents (data);
`config/config.ts` and argument parsing, read once and without state; `service/logs.ts`,
which follows a file; the third parties themselves: providers, tmux, launchctl, child
processes; rendering, formatting and filters of the dashboard and the terminal. They
have no interleaving of their own, or are other programs' code, or are text whose
layout no property is about. `resolve.ts`, the fold and the translations, which are pure
too, are modelled because states depend on them.
