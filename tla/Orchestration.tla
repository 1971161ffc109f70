--------------------------- MODULE Orchestration ---------------------------
(***************************************************************************)
(* One orchestrated task of the daemon, from the request that starts it to  *)
(* the boot that closes what a dead process left: the Session of            *)
(* orchestrator/engine.ts (driver, workers, limiter), the approval gate of  *)
(* workers/approvals.ts, the worker runners' row writes, the HTTP cancel    *)
(* and approve routes of http/app.ts, and the sweep of reconcile.ts.        *)
(*                                                                         *)
(* The rows (task, item, run, approval) live in SQLite and survive a crash; *)
(* everything else is memory of the process.  A step is what the process    *)
(* does between two points where it can be interleaved or killed.  Promise  *)
(* continuations run before the next I/O callback, so a step that starts    *)
(* from a request, a timer or a model's reply is guarded by Quiet.          *)
(***************************************************************************)
EXTENDS Integers, Sequences, FiniteSets, Lifecycle

CONSTANTS
  Items,         \* the work items the initiator may spawn
  Tier2, Tier3,  \* the items spawned at tier 2 and 3; the others are tier 1
  Concurrency,   \* settings.concurrency: the limiter's slots
  MaxTurns,      \* the initiator's turns (24 by default)
  MaxHandoffs,   \* handoffs of a task (2 by default)
  MaxCalls,      \* bound: tool calls of one reply
  MaxAsks,       \* bound: approvals one worker asks for
  MaxCrashes     \* bound: crashes of the daemon

ASSUME ItemsAssumption ==
  /\ IsFiniteSet(Items)
  /\ Tier2 \cup Tier3 \subseteq Items /\ Tier2 \cap Tier3 = {}

ASSUME BoundsAssumption ==
  /\ Concurrency \in Nat \ {0}
  /\ MaxTurns \in Nat /\ MaxHandoffs \in Nat /\ MaxCalls \in Nat
  /\ MaxAsks \in Nat /\ MaxCrashes \in Nat

VARIABLES
  task, item, run, approval,     \* rows: one task, its items, their runs, requests
  effects,                       \* history: gated actions that were carried out
  phase, crashes,                \* the daemon: down, sweeping at boot, or up
  session, aborted,              \* the task is in `sessions`; its AbortController
  gate,                          \* Session.tier2.approvals: none, open or cancelled
  drive, outcome, turn, nudged,  \* the drive() generator: place, answer/failure, locals
  handoffs, calls, awaiting,     \* ... handoffs made, calls left in the reply, `wait`
  threw,                         \* the generator was left by an exception
  worker, wabort,                \* each Worker's place and its AbortController
  asked, verdict,                \* its latest request and the gate's answer
  queue, active                  \* the limiter

rows == <<task, item, run, approval>>
driver == <<drive, outcome, turn, nudged, handoffs, calls, awaiting, threw>>
pool == <<worker, wabort, queue, active>>
memory == <<session, aborted, gate, driver, pool, asked, verdict>>
vars == <<rows, effects, phase, crashes, memory>>

Requests == Items \X (1..MaxAsks)
Gated == Tier2 \cup Tier3

DriveStates == {"none", "started", "turn", "calling", "tools", "waiting",
                "ending", "settled", "done"}
WorkerStates == {"none", "queued", "admitted", "fresh", "streaming", "parked",
                 "answered", "returned", "settled"}

NoWait == [labels |-> {}, mode |-> "all"]

TypeOK ==
  /\ task \in TaskStatus \cup {"none"}
  /\ item \in [Items -> WorkItemStatus \cup {"none"}]
  /\ run \in [Items -> WorkerRunStatus \cup {"none"}]
  /\ approval \in [Requests -> ApprovalStatus \cup {"none"}]
  /\ effects \subseteq Requests
  /\ phase \in {"down", "sweep", "expire", "up"}
  /\ crashes \in Nat
  /\ session \in BOOLEAN /\ aborted \in BOOLEAN /\ threw \in BOOLEAN
  /\ gate \in {"none", "open", "cancelled"}
  /\ drive \in DriveStates
  /\ outcome \in {"none", "answer", "failure"}
  /\ turn \in Nat /\ nudged \in BOOLEAN /\ handoffs \in Nat /\ calls \in Nat
  /\ awaiting \in [labels : SUBSET Items, mode : {"all", "any"}]
  /\ worker \in [Items -> WorkerStates]
  /\ wabort \in [Items -> BOOLEAN]
  /\ asked \in [Items -> 0..MaxAsks]
  /\ verdict \in [Items -> {"none", "ok", "denied"}]
  /\ queue \in Seq(Items)
  /\ active \in Nat

Init ==
  /\ task = "none"
  /\ item = [i \in Items |-> "none"]
  /\ run = [i \in Items |-> "none"]
  /\ approval = [x \in Requests |-> "none"]
  /\ effects = {} /\ phase = "up" /\ crashes = 0
  /\ session = FALSE /\ aborted = FALSE /\ gate = "none"
  /\ drive = "none" /\ outcome = "none" /\ turn = 0 /\ nudged = FALSE
  /\ handoffs = 0 /\ calls = 0 /\ awaiting = NoWait /\ threw = FALSE
  /\ worker = [i \in Items |-> "none"] /\ wabort = [i \in Items |-> FALSE]
  /\ asked = [i \in Items |-> 0] /\ verdict = [i \in Items |-> "none"]
  /\ queue = <<>> /\ active = 0

-----------------------------------------------------------------------------
(* Helpers                                                                 *)

Spawned == {i \in Items : worker[i] # "none"}
Unsettled == {i \in Items : worker[i] \notin {"none", "settled"}}

(* No promise continuation is pending, so the event loop can take an I/O    *)
(* callback: a request, a timer, a reply of a model or a child process.     *)
Quiet ==
  /\ phase = "up"
  /\ drive \in {"none", "calling", "waiting", "done"}
  /\ \A i \in Items : worker[i] \in {"none", "queued", "streaming", "parked",
                                     "settled"}

(* Limiter.next(): start the head of the queue if a slot is free.           *)
Dispatch(q, n, w) ==
  IF n < Concurrency /\ q # <<>>
  THEN /\ queue' = Tail(q)
       /\ active' = n + 1
       /\ worker' = [w EXCEPT ![Head(q)] = "admitted"]
  ELSE queue' = q /\ active' = n /\ worker' = w

(* Session.cancelAllWorkers(): the abort signals of all that have not       *)
(* settled.                                                                 *)
CancelledWorkers == [i \in Items |-> wabort[i] \/ i \in Unsettled]

(* Approvals.resolve answers the worker parked on a request only when the   *)
(* request's row is still pending.                                          *)
ParkedOn(i, x) == worker[i] = "parked" /\ x = <<i, asked[i]>>
Answerable(i) == worker[i] = "parked" /\ approval[<<i, asked[i]>>] = "pending"

(* Slips: disposing forgets the gate; cancelling it answers the workers and *)
(* leaves their rows pending.                                               *)
CancelGate_Forgotten ==
  gate' = gate /\ approval' = approval /\ verdict' = verdict /\ worker' = worker

CancelGate_RowsLeft ==
  /\ gate' = IF gate = "none" THEN "none" ELSE "cancelled"
  /\ approval' = approval
  /\ verdict' = [i \in Items |-> IF Answerable(i) THEN "denied" ELSE verdict[i]]
  /\ worker' = [i \in Items |-> IF Answerable(i) THEN "answered" ELSE worker[i]]

(* Approvals.cancel(): refuse what comes later, deny everything parked.     *)
CancelGate ==
  /\ gate' = IF gate = "none" THEN "none" ELSE "cancelled"
  /\ approval' = [x \in Requests |->
       IF Answerable(x[1]) /\ x[2] = asked[x[1]] THEN "denied" ELSE approval[x]]
  /\ verdict' = [i \in Items |-> IF Answerable(i) THEN "denied" ELSE verdict[i]]
  /\ worker' = [i \in Items |-> IF Answerable(i) THEN "answered" ELSE worker[i]]

(* Session.dispose() and the removal from `sessions`.                       *)
Dispose ==
  /\ session' = FALSE
  /\ wabort' = CancelledWorkers
  /\ CancelGate

-----------------------------------------------------------------------------
(* The task: started, driven turn by turn, settled                         *)

(* Orchestrator.start: the row, the session, the limiter.                   *)
Start ==
  /\ Quiet /\ task = "none"
  /\ task' = "pending" /\ session' = TRUE /\ drive' = "started"
  /\ UNCHANGED <<item, run, approval, effects, phase, crashes, aborted, gate,
                 outcome, turn, nudged, handoffs, calls, awaiting, threw, pool,
                 asked, verdict>>

(* LiveTask.pump pulls the generator: drive() marks the row running.        *)
Pull ==
  /\ drive = "started"
  /\ task' = "running" /\ drive' = "turn"
  /\ UNCHANGED <<item, run, approval, effects, phase, crashes, session, aborted,
                 gate, outcome, turn, nudged, handoffs, calls, awaiting, threw,
                 pool, asked, verdict>>

Undriven == <<rows, effects, phase, crashes, session, aborted, gate, threw, pool,
              asked, verdict>>

(* The top of the turn loop: give up when out of turns or cancelled, else   *)
(* call the initiator.                                                      *)
TopOfTurn ==
  /\ drive = "turn"
  /\ IF turn = MaxTurns \/ aborted
     THEN drive' = "ending" /\ outcome' = "failure" /\ turn' = turn
     ELSE drive' = "calling" /\ outcome' = outcome /\ turn' = turn + 1
  /\ UNCHANGED <<Undriven, nudged, handoffs, calls, awaiting>>

(* The initiator's reply: an error, prose (one nudge, then it is the        *)
(* answer), or tool calls.  An abort may or may not reach the upstream      *)
(* before the reply is complete.                                            *)
Reply ==
  /\ Quiet /\ drive = "calling"
  /\ \/ drive' = "ending" /\ outcome' = "failure" /\ UNCHANGED <<nudged, calls>>
     \/ drive' = "ending" /\ outcome' = "answer" /\ UNCHANGED <<nudged, calls>>
     \/ /\ ~nudged /\ nudged' = TRUE /\ drive' = "turn"
        /\ UNCHANGED <<outcome, calls>>
     \/ /\ drive' = "tools" /\ calls' \in 1..MaxCalls
        /\ UNCHANGED <<outcome, nudged>>
  /\ UNCHANGED <<Undriven, turn, handoffs, awaiting>>

(* executeTool: calls that change nothing modelled here (plan_note,         *)
(* get_result, load_skill, ask_user, send_to_worker) and refusals.          *)
OtherCall ==
  /\ drive = "tools" /\ calls > 0 /\ calls' = calls - 1
  /\ UNCHANGED <<Undriven, drive, outcome, turn, nudged, handoffs, awaiting>>

(* A slip: the worker's signal is not chained to one that has fired.        *)
Spawn_Unchained(i) ==
  /\ drive = "tools" /\ calls > 0 /\ calls' = calls - 1
  /\ item[i] = "none"
  /\ item' = [item EXCEPT ![i] = "pending"]
  /\ wabort' = wabort
  /\ gate' = IF i \in Gated /\ gate = "none"
             THEN (IF aborted THEN "cancelled" ELSE "open") ELSE gate
  /\ Dispatch(Append(queue, i), active, [worker EXCEPT ![i] = "queued"])
  /\ UNCHANGED <<task, run, approval, effects, phase, crashes, session, aborted,
                 drive, outcome, turn, nudged, handoffs, awaiting, threw, asked,
                 verdict>>

(* Session.spawn: the row, the worker chained to the task's signal, the     *)
(* gate opened by the first gated spawn (refusing at once when the task is  *)
(* aborted), and the job handed to the limiter.                             *)
Spawn(i) ==
  /\ drive = "tools" /\ calls > 0 /\ calls' = calls - 1
  /\ item[i] = "none"
  /\ item' = [item EXCEPT ![i] = "pending"]
  /\ wabort' = [wabort EXCEPT ![i] = aborted]
  /\ gate' = IF i \in Gated /\ gate = "none"
             THEN (IF aborted THEN "cancelled" ELSE "open") ELSE gate
  /\ Dispatch(Append(queue, i), active, [worker EXCEPT ![i] = "queued"])
  /\ UNCHANGED <<task, run, approval, effects, phase, crashes, session, aborted,
                 drive, outcome, turn, nudged, handoffs, awaiting, threw, asked,
                 verdict>>

(* The workspace of a gated spawn cannot be opened: runnerFor throws after  *)
(* the row was written and before a worker exists, and the task fails.      *)
SpawnThrows(i) ==
  /\ drive = "tools" /\ calls > 0 /\ calls' = 0
  /\ item[i] = "none" /\ i \in Gated /\ gate = "none"
  /\ item' = [item EXCEPT ![i] = "pending"]
  /\ drive' = "ending" /\ outcome' = "failure"
  /\ UNCHANGED <<task, run, approval, effects, phase, crashes, session, aborted,
                 gate, turn, nudged, handoffs, awaiting, threw, pool, asked,
                 verdict>>

(* wait(labels, mode): nothing to wait for when all have settled, or when   *)
(* `any` already has one.                                                   *)
WaitOver(labels, mode) ==
  \/ labels \cap Unsettled = {}
  \/ mode = "any" /\ labels \ Unsettled # {}

WaitCall(labels, mode) ==
  /\ drive = "tools" /\ calls > 0 /\ calls' = calls - 1
  /\ labels # {} /\ labels \subseteq Spawned
  /\ ~WaitOver(labels, mode)
  /\ drive' = "waiting" /\ awaiting' = [labels |-> labels, mode |-> mode]
  /\ UNCHANGED <<Undriven, outcome, turn, nudged, handoffs>>

WaitDone ==
  /\ drive = "waiting" /\ WaitOver(awaiting.labels, awaiting.mode)
  /\ drive' = "tools" /\ awaiting' = NoWait
  /\ UNCHANGED <<Undriven, outcome, turn, nudged, handoffs, calls>>

(* cancel_worker: abort the worker's signal, and nothing else.              *)
CancelWorker(i) ==
  /\ drive = "tools" /\ calls > 0 /\ calls' = calls - 1
  /\ i \in Unsettled /\ wabort' = [wabort EXCEPT ![i] = TRUE]
  /\ UNCHANGED <<rows, effects, phase, crashes, session, aborted, gate, drive,
                 outcome, turn, nudged, handoffs, awaiting, threw, worker, queue,
                 active, asked, verdict>>

(* handoff: a successor takes over at the next turn; the rest of the reply  *)
(* is dropped.                                                              *)
Handoff ==
  /\ drive = "tools" /\ calls > 0 /\ calls' = 0
  /\ handoffs < MaxHandoffs /\ handoffs' = handoffs + 1
  /\ nudged' = FALSE /\ drive' = "turn"
  /\ UNCHANGED <<Undriven, outcome, turn, awaiting>>

Finish ==
  /\ drive = "tools" /\ calls > 0 /\ calls' = 0
  /\ drive' = "ending" /\ outcome' = "answer"
  /\ UNCHANGED <<Undriven, turn, nudged, handoffs, awaiting>>

EndOfCalls ==
  /\ drive = "tools" /\ calls = 0 /\ drive' = "turn"
  /\ UNCHANGED <<Undriven, outcome, turn, nudged, handoffs, calls, awaiting>>

(* What drive() writes when the loop is over: an answer succeeds whatever   *)
(* happened to the signal; without one an aborted task is cancelled.        *)
TerminalStatus ==
  IF outcome = "answer" THEN "succeeded"
  ELSE IF aborted THEN "cancelled" ELSE "failed"

(* A slip: the terminal row is written over whatever is there.              *)
Settle_Unchecked ==
  /\ drive = "ending" /\ drive' = "settled"
  /\ wabort' = CancelledWorkers
  /\ task' = TerminalStatus /\ threw' = FALSE
  /\ UNCHANGED <<item, run, approval, effects, phase, crashes, session, aborted,
                 gate, outcome, turn, nudged, handoffs, calls, awaiting, worker,
                 queue, active, asked, verdict>>

(* The end of drive(): cancel the workers, write the terminal row.  The     *)
(* write is outside the try, so an illegal move leaves the generator by an  *)
(* exception.                                                               *)
Settle ==
  /\ drive = "ending" /\ drive' = "settled"
  /\ wabort' = CancelledWorkers
  /\ IF TerminalStatus \in TaskTransitions[task]
     THEN task' = TerminalStatus /\ threw' = FALSE
     ELSE task' = task /\ threw' = TRUE
  /\ UNCHANGED <<item, run, approval, effects, phase, crashes, session, aborted,
                 gate, outcome, turn, nudged, handoffs, calls, awaiting, worker,
                 queue, active, asked, verdict>>

(* The generator's finally.                                                 *)
Close ==
  /\ drive = "settled" /\ drive' = "done"
  /\ Dispose
  /\ UNCHANGED <<task, item, run, effects, phase, crashes, aborted, outcome, turn,
                 nudged, handoffs, calls, awaiting, threw, queue, active, asked>>

-----------------------------------------------------------------------------
(* The workers                                                             *)

Detached == <<task, effects, phase, crashes, session, aborted, gate, driver>>

(* The limiter's job begins: the item runs and its runner inserts a run.    *)
StartItem(i) ==
  /\ phase = "up" /\ worker[i] = "admitted"
  /\ item' = [item EXCEPT ![i] = "running"]
  /\ run' = [run EXCEPT ![i] = "created"]
  /\ worker' = [worker EXCEPT ![i] = "fresh"]
  /\ UNCHANGED <<Detached, approval, wabort, queue, active, asked, verdict>>

(* The runner returns to the limiter's job with its run row closed.         *)
ReturnWith(i, status) ==
  /\ run' = [run EXCEPT ![i] = status]
  /\ worker' = [worker EXCEPT ![i] = "returned"]

(* Approvals.require: a cancelled gate refuses without a row, policy may    *)
(* allow at once and records that it did, otherwise the worker parks on a   *)
(* pending row.                                                             *)
Refused(i) ==
  /\ gate = "cancelled"
  /\ worker' = [worker EXCEPT ![i] = "answered"]
  /\ verdict' = [verdict EXCEPT ![i] = "denied"]
  /\ UNCHANGED <<approval, asked>>

AutoApproved(i) ==
  /\ gate = "open" /\ asked[i] < MaxAsks
  /\ asked' = [asked EXCEPT ![i] = @ + 1]
  /\ approval' = [approval EXCEPT ![<<i, asked[i] + 1>>] = "auto_approved"]
  /\ worker' = [worker EXCEPT ![i] = "answered"]
  /\ verdict' = [verdict EXCEPT ![i] = "ok"]

Parks(i) ==
  /\ gate = "open" /\ asked[i] < MaxAsks
  /\ asked' = [asked EXCEPT ![i] = @ + 1]
  /\ approval' = [approval EXCEPT ![<<i, asked[i] + 1>>] = "pending"]
  /\ worker' = [worker EXCEPT ![i] = "parked"]
  /\ verdict' = [verdict EXCEPT ![i] = "none"]

Require(i) == Refused(i) \/ AutoApproved(i) \/ Parks(i)

(* The runner's first check: a worker cancelled while queued closes its run *)
(* at once; tiers 1 and 2 stream; tier 3 asks before the harness exists.    *)
BeginRun(i) ==
  /\ worker[i] = "fresh"
  /\ \/ /\ wabort[i] /\ ReturnWith(i, "cancelled")
        /\ UNCHANGED <<approval, asked, verdict>>
     \/ /\ ~wabort[i] /\ i \notin Tier3
        /\ run' = [run EXCEPT ![i] = "streaming"]
        /\ worker' = [worker EXCEPT ![i] = "streaming"]
        /\ UNCHANGED <<approval, asked, verdict>>
     \/ ~wabort[i] /\ i \in Tier3 /\ Require(i) /\ UNCHANGED run
  /\ UNCHANGED <<Detached, item, wabort, queue, active>>

(* A tier-2 worker reaches a gated tool call; the signal is checked before  *)
(* each call.                                                               *)
Ask(i) ==
  /\ Quiet /\ worker[i] = "streaming" /\ i \in Tier2 /\ ~wabort[i]
  /\ Require(i)
  /\ UNCHANGED <<Detached, item, run, wabort, queue, active>>

(* The gate answered.  A tier-2 tool acts on a yes without looking at its   *)
(* signal again and reports a no to the model; a tier-3 runner fails on a   *)
(* no, and looks at its signal before it spawns the harness.                *)
Resume(i) ==
  /\ worker[i] = "answered"
  /\ \/ /\ i \in Tier2
        /\ worker' = [worker EXCEPT ![i] = "streaming"]
        /\ effects' = IF verdict[i] = "ok" THEN effects \cup {<<i, asked[i]>>}
                                           ELSE effects
        /\ UNCHANGED run
     \/ /\ i \in Tier3 /\ verdict[i] = "denied"
        /\ ReturnWith(i, "failed") /\ UNCHANGED effects
     \/ /\ i \in Tier3 /\ verdict[i] = "ok" /\ wabort[i]
        /\ ReturnWith(i, "cancelled") /\ UNCHANGED effects
     \/ /\ i \in Tier3 /\ verdict[i] = "ok" /\ ~wabort[i]
        /\ run' = [run EXCEPT ![i] = "streaming"]
        /\ worker' = [worker EXCEPT ![i] = "streaming"]
        /\ effects' = effects \cup {<<i, asked[i]>>}
  /\ UNCHANGED <<task, item, approval, phase, crashes, session, aborted, gate,
                 driver, wabort, queue, active, asked, verdict>>

(* The last reply, report or result.  An aborted worker that got a complete *)
(* answer first still succeeds (tier 1, second prose), and one whose turns  *)
(* ran out still fails; only an aborted one is cancelled.                   *)
Return(i) ==
  /\ Quiet /\ worker[i] = "streaming"
  /\ \E status \in {"succeeded", "failed", "cancelled"} :
       /\ status = "cancelled" => wabort[i]
       /\ ReturnWith(i, status)
  /\ UNCHANGED <<Detached, item, approval, wabort, queue, active, asked, verdict>>

(* A slip: the slot is released and nobody looks at the queue.              *)
SettleItem_SlotOnly(i) ==
  /\ worker[i] = "returned"
  /\ item' = [item EXCEPT ![i] = run[i]]
  /\ worker' = [worker EXCEPT ![i] = "settled"]
  /\ active' = active - 1 /\ queue' = queue
  /\ UNCHANGED <<Detached, run, approval, wabort, asked, verdict>>

(* The job's continuation: the item takes the outcome's status, which is    *)
(* the run's; the slot is released and the next job dispatched.             *)
SettleItem(i) ==
  /\ worker[i] = "returned"
  /\ item' = [item EXCEPT ![i] = run[i]]
  /\ Dispatch(queue, active - 1, [worker EXCEPT ![i] = "settled"])
  /\ UNCHANGED <<Detached, run, approval, wabort, asked, verdict>>

-----------------------------------------------------------------------------
(* The user                                                                *)

(* taskAbort fires: the listener that start() put first disposes of the     *)
(* session and drops it; the workers' signals are chained to it.            *)
Abort ==
  /\ aborted' = TRUE
  /\ Dispose
  /\ UNCHANGED <<task, item, run, effects, phase, crashes, driver, queue, active,
                 asked>>

(* POST /internal/tasks/:id/cancel with a live session only aborts; without *)
(* one it settles a row that is not terminal.                               *)
HttpCancel ==
  /\ Quiet /\ task # "none"
  /\ \/ session /\ Abort
     \/ /\ ~session /\ Open(TaskTransitions, task)
        /\ task' = "cancelled"
        /\ UNCHANGED <<item, run, approval, effects, phase, crashes, memory>>

(* The disconnect-grace timer of a task nobody listens to: LiveTask.cancel. *)
GraceExpires ==
  /\ Quiet /\ drive \in {"calling", "waiting"} /\ ~aborted
  /\ Abort

(* A slip: whatever the answer was, the parked worker hears yes.            *)
Resolve_HeardAsYes(x, approved) ==
  /\ Quiet /\ approval[x] = "pending"
  /\ approval' = [approval EXCEPT ![x] = IF approved THEN "approved" ELSE "denied"]
  /\ IF session /\ gate # "none" /\ ParkedOn(x[1], x)
     THEN /\ worker' = [worker EXCEPT ![x[1]] = "answered"]
          /\ verdict' = [verdict EXCEPT ![x[1]] = "ok"]
     ELSE UNCHANGED <<worker, verdict>>
  /\ UNCHANGED <<task, item, run, effects, phase, crashes, session, aborted, gate,
                 driver, wabort, queue, active, asked>>

(* POST /internal/approvals/:id or an in-band reply: through the gate of a  *)
(* live session, which answers a parked worker; else the row alone.         *)
Resolve(x, approved) ==
  /\ Quiet /\ approval[x] = "pending"
  /\ approval' = [approval EXCEPT ![x] = IF approved THEN "approved" ELSE "denied"]
  /\ IF session /\ gate # "none" /\ ParkedOn(x[1], x)
     THEN /\ worker' = [worker EXCEPT ![x[1]] = "answered"]
          /\ verdict' = [verdict EXCEPT ![x[1]] = IF approved THEN "ok" ELSE "denied"]
     ELSE UNCHANGED <<worker, verdict>>
  /\ UNCHANGED <<task, item, run, effects, phase, crashes, session, aborted, gate,
                 driver, wabort, queue, active, asked>>

-----------------------------------------------------------------------------
(* The daemon dies and boots                                               *)

(* The process dies between any two steps: its memory is lost, the rows stay. *)
Crash ==
  /\ phase # "down" /\ crashes < MaxCrashes
  /\ phase' = "down" /\ crashes' = crashes + 1
  /\ session' = FALSE /\ aborted' = FALSE /\ gate' = "none"
  /\ drive' = "none" /\ outcome' = "none" /\ turn' = 0 /\ nudged' = FALSE
  /\ handoffs' = 0 /\ calls' = 0 /\ awaiting' = NoWait /\ threw' = FALSE
  /\ worker' = [i \in Items |-> "none"] /\ wabort' = [i \in Items |-> FALSE]
  /\ asked' = [i \in Items |-> 0] /\ verdict' = [i \in Items |-> "none"]
  /\ queue' = <<>> /\ active' = 0
  /\ UNCHANGED <<rows, effects>>

(* Slips: the socket opens without the sweep; the task is closed before its *)
(* children.                                                                *)
Boot_NoSweep ==
  /\ phase = "down" /\ phase' = "up"
  /\ UNCHANGED <<rows, effects, crashes, memory>>

SweepTask_First ==
  /\ phase = "sweep" /\ phase' = "expire"
  /\ task' = "interrupted"
  /\ UNCHANGED <<item, run, approval, effects, crashes, memory>>

(* reconcileOnBoot walks the task only if it is unfinished.                 *)
Boot ==
  /\ phase = "down"
  /\ phase' = IF Open(TaskTransitions, task) THEN "sweep" ELSE "up"
  /\ UNCHANGED <<rows, effects, crashes, memory>>

SweepRun(i) ==
  /\ phase = "sweep" /\ Open(WorkerRunTransitions, run[i])
  /\ run' = [run EXCEPT ![i] = "interrupted"]
  /\ UNCHANGED <<task, item, approval, effects, phase, crashes, memory>>

SweepItem(i) ==
  /\ phase = "sweep" /\ ~Open(WorkerRunTransitions, run[i])
  /\ Open(WorkItemTransitions, item[i])
  /\ item' = [item EXCEPT ![i] = "interrupted"]
  /\ UNCHANGED <<task, run, approval, effects, phase, crashes, memory>>

SweepTask ==
  /\ phase = "sweep" /\ phase' = "expire"
  /\ \A i \in Items : /\ ~Open(WorkerRunTransitions, run[i])
                      /\ ~Open(WorkItemTransitions, item[i])
  /\ task' = "interrupted"
  /\ UNCHANGED <<item, run, approval, effects, crashes, memory>>

SweepApproval(x) ==
  /\ phase = "expire" /\ approval[x] = "pending"
  /\ approval' = [approval EXCEPT ![x] = "expired"]
  /\ UNCHANGED <<task, item, run, effects, phase, crashes, memory>>

Listen ==
  /\ phase = "expire" /\ phase' = "up"
  /\ \A x \in Requests : approval[x] # "pending"
  /\ UNCHANGED <<rows, effects, crashes, memory>>

-----------------------------------------------------------------------------
DriveStep ==
  \/ Pull \/ TopOfTurn \/ OtherCall \/ WaitDone \/ Handoff \/ Finish
  \/ EndOfCalls \/ Settle \/ Close
  \/ \E i \in Items : Spawn(i) \/ SpawnThrows(i) \/ CancelWorker(i)
  \/ \E labels \in SUBSET Items, mode \in {"all", "any"} : WaitCall(labels, mode)

Continuation(i) == StartItem(i) \/ BeginRun(i) \/ Resume(i) \/ SettleItem(i)

UserStep ==
  \/ Start \/ HttpCancel \/ GraceExpires
  \/ \E x \in Requests, approved \in BOOLEAN : Resolve(x, approved)

BootStep ==
  \/ Boot \/ SweepTask \/ Listen
  \/ \E i \in Items : SweepRun(i) \/ SweepItem(i)
  \/ \E x \in Requests : SweepApproval(x)

Next ==
  \/ DriveStep \/ Reply \/ UserStep \/ Crash \/ BootStep
  \/ \E i \in Items : Continuation(i) \/ Ask(i) \/ Return(i)

Spec == Init /\ [][Next]_vars

(* Promise continuations run; a supervisor restarts a dead daemon; a call   *)
(* whose AbortSignal fired ends.  No user, model or tool has to answer.     *)
Fairness ==
  /\ WF_vars(DriveStep)
  /\ WF_vars(BootStep)
  /\ WF_vars(aborted /\ Reply)
  /\ \A i \in Items : WF_vars(Continuation(i)) /\ WF_vars(wabort[i] /\ Return(i))

FairSpec == Spec /\ Fairness

-----------------------------------------------------------------------------
(* Safety                                                                  *)

(* A worker parked on the gate can always be answered: the session that     *)
(* routes an answer to it is live, the gate has not been cancelled, and its *)
(* row is still pending -- Approvals.resolve answers nobody otherwise, and  *)
(* a parked promise listens to no signal.                                   *)
ParkedAnswerable ==
  \A i \in Items : worker[i] = "parked" =>
    session /\ gate = "open" /\ approval[<<i, asked[i]>>] = "pending"

(* The converse, while this process drives the task: no card is shown for a *)
(* request nobody waits on, so `approve` always resumes a worker.           *)
PendingIsParked ==
  drive # "none" => \A x \in Requests : approval[x] = "pending" => ParkedOn(x[1], x)

(* Nothing gated is carried out without a row that allows it, across        *)
(* denials, cancellations, crashes and double clicks.                       *)
EffectsApproved ==
  \A x \in effects : approval[x] \in {"approved", "auto_approved"}

(* An abort reaches the whole tree: the session is gone, the gate refuses,  *)
(* and every worker that has not settled, those spawned or still queued     *)
(* after the abort included, has its signal set.                            *)
AbortReachesAll ==
  aborted => /\ ~session /\ gate # "open"
             /\ \A i \in Unsettled : wabort[i]

(* The limiter: its count is the number of jobs begun and not settled, it   *)
(* never exceeds the concurrency, no job queues while a slot is free, and a *)
(* worker that waits for a slot is in the queue that will give it one.      *)
Running == {i \in Items : worker[i] \notin {"none", "queued", "settled"}}

LimiterExact ==
  /\ active = Cardinality(Running)
  /\ active <= Concurrency
  /\ queue # <<>> => active = Concurrency
  /\ \A i \in Items : worker[i] = "queued" <=> \E n \in 1..Len(queue) : queue[n] = i

(* Deepest first: when the boot sweep has closed the task, no work item and *)
(* no run of it is open (reconcile.ts, "a parent is never closed while a    *)
(* child of it is still open").                                             *)
InterruptedTreeClosed ==
  task = "interrupted" => \A i \in Items :
    ~Open(WorkItemTransitions, item[i]) /\ ~Open(WorkerRunTransitions, run[i])

(* The rows this process writes keep the promises of the Ledger: legal      *)
(* moves only, children planned and started under running parents, items    *)
(* closed after their runs, no request opened for a task that is over.      *)
RequestOwner(x) == x[1]
TheLedger == INSTANCE Ledger WITH Owner <- RequestOwner
ImplementsLedger == TheLedger!Spec

-----------------------------------------------------------------------------
(* Liveness                                                                *)

(* A task that was told to stop stops, with nobody answering its prompts    *)
(* and whatever its driver was waiting for; a crash on the way leaves it to *)
(* the boot sweep.                                                          *)
AbortEndsTask == aborted ~> ~Open(TaskTransitions, task)

(* Once the stream is over every worker winds down, the queued ones too.    *)
WorkersWindDown == drive = "done" ~> (Unsettled = {} \/ phase = "down")

(* A dead daemon comes back and leaves no unfinished task behind.           *)
BootClosesTask == phase = "down" ~> (phase = "up" /\ ~Open(TaskTransitions, task))

(* What was begun comes to an end, whatever cuts in: an aborted task, the   *)
(* workers of a stream that is over, the task of a daemon that died.        *)
EverythingEnds == AbortEndsTask /\ WorkersWindDown /\ BootClosesTask

-----------------------------------------------------------------------------
(* What the code's comments say and the code does not do                   *)

(* engine.ts: the row write is the driving stream's job, so that no write   *)
(* throws "into a generator nobody is catching for".                        *)
DriverNeverThrows == ~threw

=============================================================================
