------------------------------ MODULE Service ------------------------------
(***************************************************************************)
(* The daemon as a process among others on one machine: `start`, `stop`,   *)
(* the Shutdown button, launchd and death. What the processes share is the *)
(* port of the config file, the pidfile, and the rows of the tasks. A      *)
(* process is known by its pid, and pids are given out in order.           *)
(***************************************************************************)
EXTENDS Integers

CONSTANTS MaxPids,    \* bound: processes that are ever started
          Tasks,
          MaxStops,   \* bound: runs of `rewter stop`
          MaxPolls,   \* its patience: 100 polls in the code
          MaxCrashes  \* bound: processes that are killed

ServiceAssumption == MaxPids \in Nat /\ MaxStops \in Nat /\ MaxPolls \in Nat /\ MaxCrashes \in Nat

VARIABLES pc,       \* how far a process has got
          code,     \* its exit code, or Alive
          sig,      \* processes a SIGTERM is on its way to
          open,     \* processes with an unanswered POST /internal/shutdown
          due,      \* processes whose setImmediate is to stop them
          relaying, \* processes with a pass-through completion under way
          pidfile, port,
          row,      \* the task's status: "none", "running", "closed" or "interrupted"
          driver,   \* the process whose memory drives the task
          audience, \* running tasks with a client's request attached
          job,      \* the last process launchd started
          loaded,   \* launchd knows the plist
          stopping, \* where `rewter stop` is
          target,   \* the pid it has read, to be signalled
          polls, stops, crashes

procs == <<pc, code, sig, open, due, relaying>>
tasks == <<row, driver, audience>>
shared == <<pidfile, port, tasks>>
launchd == <<job, loaded>>
command == <<stopping, target, polls, stops>>
vars == <<procs, shared, launchd, command, crashes>>

Pids == 1..MaxPids
None == 0
Stranger == -1                 \* another program, on the port
Alive == -1
Killed == 137

Init ==
    /\ pc = [p \in Pids |-> "off"] /\ code = [p \in Pids |-> Alive]
    /\ sig = {} /\ open = {} /\ due = {} /\ relaying = {}
    /\ pidfile = None /\ port \in {None, Stranger}
    /\ row = [t \in Tasks |-> "none"] /\ driver = [t \in Tasks |-> None] /\ audience = {}
    /\ job = None /\ loaded \in BOOLEAN
    /\ stopping = "no" /\ target = None /\ polls = 0 /\ stops = 0 /\ crashes = 0

Lives(p) == pc[p] \notin {"off", "gone"}

Ends(p, c) == pc' = [pc EXCEPT ![p] = "gone"] /\ code' = [code EXCEPT ![p] = c]

(* What GET /internal/health at the recorded URL may come to. A daemon that *)
(* is busy for two seconds looks like one that is not there; one that      *)
(* closes answers 503 as long as it listens.                               *)
Probe ==
    IF port = None THEN {"stale"}
    ELSE IF port = Stranger THEN {"unreachable", "stale"}
    ELSE IF pc[port] = "serving" THEN {"running", "stale"} ELSE {"unreachable", "stale"}

----------------------------------------------------------------------------
(* `rewter start`, by hand or from launchd.                                *)
Fresh(p) == pc[p] = "off" /\ \A q \in Pids : q < p => pc[q] # "off"

(* From the config to the socket without a pause: the boot's sweep closes  *)
(* every row that is not terminal.                                         *)
Reconciled == [t \in Tasks |-> IF row[t] = "running" THEN "interrupted" ELSE row[t]]
Boots(p) == pc' = [pc EXCEPT ![p] = "listening"] /\ row' = Reconciled

StartReads(p) ==
    /\ Fresh(p)
    /\ IF pidfile = None THEN Boots(p)
       ELSE pc' = [pc EXCEPT ![p] = "probing"] /\ UNCHANGED row
    /\ UNCHANGED <<code, sig, open, due, relaying, pidfile, port, driver, audience, command, crashes>>

StartByHand(p) == StartReads(p) /\ UNCHANGED launchd

(* slip: no KeepAlive *)
Wants_Once == job = None

(* KeepAlive = {SuccessfulExit: false}, RunAtLoad.                         *)
Wants == IF job = None THEN TRUE ELSE code[job] \notin {Alive, 0}
StartByLaunchd(p) == loaded /\ Wants /\ StartReads(p) /\ job' = p /\ UNCHANGED loaded

StartProbed(p) ==
    /\ pc[p] = "probing"
    /\ \/ "running" \in Probe /\ Ends(p, 1) /\ UNCHANGED row
       \/ Probe \ {"running"} # {} /\ Boots(p) /\ UNCHANGED code
    /\ UNCHANGED <<sig, open, due, relaying, pidfile, port, driver, audience, launchd, command, crashes>>

(* The pidfile is written when the port is bound, and then never by it again. *)
Listen(p) ==
    /\ pc[p] = "listening"
    /\ IF port = None
       THEN /\ pc' = [pc EXCEPT ![p] = "serving"] /\ UNCHANGED code
            /\ port' = p /\ pidfile' = p
       ELSE Ends(p, 1) /\ UNCHANGED <<port, pidfile>>
    /\ UNCHANGED <<sig, open, due, relaying, tasks, launchd, command, crashes>>

----------------------------------------------------------------------------
(* Serving, and the stop sequence.                                         *)
(* A chat request attaches to the task it begins; the dashboard's run form  *)
(* begins one that nobody listens to (app.ts:1020).                        *)
Begin(p, t) ==
    /\ pc[p] = "serving" /\ row[t] = "none"
    /\ row' = [row EXCEPT ![t] = "running"] /\ driver' = [driver EXCEPT ![t] = p]
    /\ audience' \in {audience, audience \union {t}}
    /\ UNCHANGED <<procs, pidfile, port, launchd, command, crashes>>

(* A client comes back to a live task, and goes when it likes: the task      *)
(* runs on without it.                                                     *)
Attach(p, t) ==
    /\ pc[p] = "serving" /\ driver[t] = p /\ t \notin audience
    /\ audience' = audience \union {t}
    /\ UNCHANGED <<procs, pidfile, port, row, driver, launchd, command, crashes>>

Leave(t) ==
    /\ t \in audience /\ audience' = audience \ {t}
    /\ UNCHANGED <<procs, pidfile, port, row, driver, launchd, command, crashes>>

(* Its end, by itself or by live.shutdown. A row another process has closed *)
(* refuses the transition.                                                 *)
End(p, t) ==
    /\ Lives(p) /\ driver[t] = p
    /\ row' = IF row[t] = "running" THEN [row EXCEPT ![t] = "closed"] ELSE row
    /\ driver' = [driver EXCEPT ![t] = None] /\ audience' = audience \ {t}
    /\ UNCHANGED <<procs, pidfile, port, launchd, command, crashes>>

(* A completion that names a model goes straight through the router. It     *)
(* ends when its upstream does or its client goes, and nothing else ends   *)
(* it: a stop aborts tasks only.                                           *)
Relay(p) ==
    /\ pc[p] = "serving" /\ p \notin relaying /\ relaying' = relaying \union {p}
    /\ UNCHANGED <<pc, code, sig, open, due, shared, launchd, command, crashes>>

Relayed(p) ==
    /\ Lives(p) /\ p \in relaying /\ relaying' = relaying \ {p}
    /\ UNCHANGED <<pc, code, sig, open, due, shared, launchd, command, crashes>>

StopSequence(p) ==
    /\ pc' = [pc EXCEPT ![p] = "draining"] /\ pidfile' = None
    /\ UNCHANGED <<code, port>>

(* slip: a boolean guards the stop, and the second caller goes on at once *)
Joins_Returns(p) ==
    /\ IF pc[p] = "draining" THEN Ends(p, 0) ELSE UNCHANGED <<pc, code>>
    /\ UNCHANGED <<pidfile, port>>

(* The caller gets the promise of the stop that is under way.              *)
Joins(p) == UNCHANGED <<pc, code, pidfile, port>>

RequestStop(p) == IF pc[p] = "serving" THEN StopSequence(p) ELSE Joins(p)

(* Until runUntilSignal has put its handlers in, a signal ends the process. *)
Signalled(p) ==
    /\ p \in sig /\ Lives(p) /\ sig' = sig \ {p}
    /\ IF pc[p] \in {"probing", "listening"}
       THEN Ends(p, 143) /\ UNCHANGED <<pidfile, port>>
       ELSE RequestStop(p)
    /\ UNCHANGED <<open, due, relaying, tasks, launchd, command, crashes>>

Button(p) ==
    /\ pc[p] = "serving" /\ p \notin open \union due
    /\ open' = open \union {p}
    /\ UNCHANGED <<pc, code, sig, due, relaying, shared, launchd, command, crashes>>

ButtonReplies(p) ==
    /\ p \in open /\ Lives(p)
    /\ open' = open \ {p} /\ due' = due \union {p}
    /\ UNCHANGED <<pc, code, sig, relaying, shared, launchd, command, crashes>>

Immediate(p) ==
    /\ p \in due /\ Lives(p) /\ due' = due \ {p} /\ RequestStop(p)
    /\ UNCHANGED <<sig, open, relaying, tasks, launchd, command, crashes>>

CloseListener(p) ==
    /\ pc[p] = "draining" /\ port = p /\ port' = None
    /\ UNCHANGED <<procs, pidfile, tasks, launchd, command, crashes>>

(* app.close resolves when no request is open: the button's, a completion,  *)
(* a client that is attached to a task. A task nobody listens to is no     *)
(* request; it was told to stop and may be deaf to it for a while          *)
(* (router.ts:179), and the exit takes its driver and leaves its row.      *)
Answered(p) ==
    p \notin open /\ p \notin relaying /\ \A t \in audience : driver[t] # p
Forgets(p) ==
    /\ driver' = [t \in Tasks |-> IF driver[t] = p THEN None ELSE driver[t]]
    /\ audience' = {t \in audience : driver[t] # p} /\ relaying' = relaying \ {p}
DrainEnds(p) ==
    /\ pc[p] = "draining" /\ port # p /\ Answered(p) /\ Ends(p, 0) /\ Forgets(p)
    /\ UNCHANGED <<sig, open, due, pidfile, port, row, launchd, command, crashes>>

(* Closing fails: the process still goes, and says so.                     *)
Gone(p) == port' = (IF port = p THEN None ELSE port) /\ Forgets(p)
DrainFails(p) ==
    /\ pc[p] = "draining" /\ crashes < MaxCrashes /\ crashes' = crashes + 1
    /\ Ends(p, 1) /\ Gone(p)
    /\ UNCHANGED <<sig, open, due, pidfile, row, launchd, command>>

Crash(p) ==
    /\ Lives(p) /\ crashes < MaxCrashes /\ crashes' = crashes + 1
    /\ Ends(p, Killed) /\ Gone(p)
    /\ UNCHANGED <<sig, open, due, pidfile, row, launchd, command>>

----------------------------------------------------------------------------
(* `rewter stop`.                                                          *)
StopReads ==
    /\ stopping = "no" /\ stops < MaxStops /\ stops' = stops + 1
    /\ stopping' = (IF pidfile = None THEN "no" ELSE "probe") /\ target' = pidfile /\ polls' = 0
    /\ UNCHANGED <<procs, shared, launchd, crashes>>

(* ESRCH when the process has gone by itself.                              *)
StopSignals ==
    /\ "running" \in Probe
    /\ IF Lives(target) THEN sig' = sig \union {target} /\ stopping' = "wait"
                        ELSE stopping' = "no" /\ UNCHANGED sig
    /\ UNCHANGED pidfile

StopProbed ==
    /\ stopping = "probe" /\ target' = None
    /\ \/ StopSignals
       \/ "stale" \in Probe /\ pidfile' = None /\ stopping' = "no" /\ UNCHANGED sig
       \/ "unreachable" \in Probe /\ stopping' = "no" /\ UNCHANGED <<sig, pidfile>>
    /\ UNCHANGED <<pc, code, open, due, relaying, port, tasks, launchd, polls, stops, crashes>>

(* Every 100 ms, until the claim or its daemon has gone.                   *)
StopPolls ==
    /\ stopping = "wait"
    /\ stopping' = IF pidfile = None THEN "no" ELSE "poll"
    /\ UNCHANGED <<procs, shared, launchd, target, polls, stops, crashes>>

(* After its patience it gives up, and says that the daemon is still there. *)
StopPolled ==
    /\ stopping = "poll" /\ polls' = polls + 1
    /\ \/ "running" \in Probe /\ UNCHANGED pidfile
          /\ stopping' = IF polls < MaxPolls THEN "wait" ELSE "no"
       \/ "stale" \in Probe /\ pidfile' = None /\ stopping' = "no"
       \/ "unreachable" \in Probe /\ stopping' = "no" /\ UNCHANGED pidfile
    /\ UNCHANGED <<procs, port, tasks, launchd, target, stops, crashes>>

StopCommand == StopReads \/ StopProbed \/ StopPolls \/ StopPolled
----------------------------------------------------------------------------
Runs(p) == StartProbed(p) \/ Listen(p) \/ Signalled(p) \/ ButtonReplies(p) \/ Immediate(p)
           \/ CloseListener(p) \/ DrainEnds(p)

Next ==
    \/ \E p \in Pids : StartByHand(p) \/ StartByLaunchd(p) \/ Runs(p) \/ Button(p)
                       \/ Relay(p) \/ Relayed(p) \/ DrainFails(p) \/ Crash(p)
    \/ \E p \in Pids, t \in Tasks : Begin(p, t) \/ Attach(p, t) \/ End(p, t)
    \/ \E t \in Tasks : Leave(t)
    \/ StopCommand

(* The stop sequence aborts every live task.                               *)
Aborted(p) == pc[p] = "draining"

Spec == Init /\ [][Next]_vars

(* Of the processes that can go on one does, an aborted task ends           *)
(* (Orchestration), launchd looks after its job, and the command does what *)
(* is next. Nobody has to start anything, nothing has to crash, and no     *)
(* completion has to end.                                                  *)
AbortedEnds == \E p \in Pids, t \in Tasks : Aborted(p) /\ End(p, t)
FairSpec ==
    /\ Spec
    /\ WF_vars(\E p \in Pids : Runs(p))
    /\ WF_vars(AbortedEnds)
    /\ WF_vars(\E p \in Pids : StartByLaunchd(p))
    /\ WF_vars(StopProbed \/ StopPolls \/ StopPolled)
----------------------------------------------------------------------------
TypeOK ==
    /\ pc \in [Pids -> {"off", "probing", "listening", "serving", "draining", "gone"}]
    /\ code \in [Pids -> {Alive, 0, 1, 143, Killed}]
    /\ \A p \in Pids : (code[p] = Alive) = (pc[p] # "gone")
    /\ sig \subseteq Pids /\ open \subseteq Pids /\ due \subseteq Pids /\ relaying \subseteq Pids
    /\ pidfile \in Pids \union {None} /\ port \in Pids \union {None, Stranger}
    /\ row \in [Tasks -> {"none", "running", "closed", "interrupted"}]
    /\ driver \in [Tasks -> Pids \union {None}] /\ audience \subseteq Tasks
    /\ job \in Pids \union {None} /\ loaded \in BOOLEAN
    /\ stopping \in {"no", "probe", "wait", "poll"}
    /\ target \in Pids \union {None} /\ polls \in 0..MaxPolls + 1

(* A process that says it went well cut nobody off: whoever had asked it    *)
(* for something, before the stop or during it, has been answered or has   *)
(* gone (daemon.ts:362: two callers must both wait for the same drain).    *)
(* What it may leave is a task without a listener, told to stop: its row   *)
(* still says running, until the next boot.                                *)
ExitAfterDrain ==
    [][\A p \in Pids : code[p] = Alive /\ code'[p] = 0
          => p \notin open' \union relaying /\ \A t \in audience : driver[t] # p]_vars

(* `stop` signals nothing that is still on its way up: the claim is        *)
(* written when the port is bound (daemon.ts:445), so that the signal finds *)
(* its handlers and never kills a boot half way.                           *)
NoBootKilled == \A p \in sig : pc[p] \notin {"off", "probing", "listening"}

(* A daemon that serves can be found: its claim goes by its own stop, or by *)
(* a `rewter stop` whose probe had no answer, never by the start, the end  *)
(* or the drain of another daemon.                                         *)
ClaimKept ==
    [][LET p == pidfile IN
       p # None /\ pidfile' # p /\ pc[p] = "serving"
       => pc'[p] = "draining" \/ (stopping \in {"probe", "poll"} /\ stopping' = "no")]_vars

(* What went well stays down: after a clean exit of its job launchd starts *)
(* nothing (launchd.ts:94).                                                *)
StaysStopped == [][job' # job /\ job # None => code[job] \notin {Alive, 0}]_vars

(* What begins ends. A process is a job, has its button pressed and drains   *)
(* at most once, so that what again and again is not under way has an end  *)
(* whenever it begins.                                                     *)
(*                                                                         *)
(* A job that ended badly comes back, as long as there are pids.           *)
ComesBack == []<>~(/\ loaded /\ job # None /\ pc[job] = "gone" /\ code[job] # 0
                   /\ \E q \in Pids : pc[q] = "off")

(* The button is answered or the process dies: the stop it asks for waits  *)
(* for open requests, its own among them (app.ts:770).                     *)
ButtonAnswered == []<>(\A p \in open : code[p] \notin {Alive, 0})

(* A process that drains goes once no completion goes through it, and the   *)
(* command that waits for it ends whatever the drain does: a completion    *)
(* that never ends holds a drain for ever (control.ts:109).                *)
DrainsOut == []<>(\A p \in Pids : pc[p] = "draining" => p \in relaying)
StopEnds == []<>(stopping = "no")

============================================================================
