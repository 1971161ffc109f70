----------------------------- MODULE Operations -----------------------------
(***************************************************************************)
(* What is done to a daemon from outside its tasks: it is started, kept    *)
(* up and stopped (Service), its database is swept (Retention), and its    *)
(* command and its plist are put in place (Install).  They share no state; *)
(* an instance checks one of them at a time, the others at rest.           *)
(***************************************************************************)
EXTENDS Integers, Sequences

CONSTANTS MaxPids, Tasks, MaxStops, MaxPolls, MaxCrashes, Old, MaxDay, MaxGcs, Days,
          Builds, Nodes, MaxSteps

VARIABLES part,
          pc, code, sig, open, due, relaying, pidfile, port, row, driver, audience, job, loaded,
          stopping, target, polls, stops, crashes,
          day, status, created, finished, updated, rows, costs, dirs, gc, doomed, draft, left,
          sweeps, ended,
          link, runnable, plist, installed, alias, node, answer, steps

service == <<pc, code, sig, open, due, relaying, pidfile, port, row, driver, audience, job, loaded,
             stopping, target, polls, stops, crashes>>
retention == <<day, status, created, finished, updated, rows, costs, dirs, gc, doomed, draft,
               left, sweeps, ended>>
install == <<link, runnable, plist, installed, alias, node, answer, steps>>
vars == <<part, service, retention, install>>

S == INSTANCE Service
R == INSTANCE Retention WITH Tasks <- Old
I == INSTANCE Install

ASSUME PartsAssumption ==
    S!ServiceAssumption /\ R!RetentionAssumption /\ I!InstallAssumption

(* The part that is checked starts in any of its initial states, the others *)
(* in one.                                                                 *)
Init ==
    /\ part \in {"service", "retention", "install"}
    /\ S!Init /\ R!Init /\ I!Init
    /\ part # "service" => port = S!None /\ ~loaded
    /\ part # "install" => alias = node /\ node = CHOOSE n \in Nodes : TRUE

Serves(A) == part = "service" /\ A /\ UNCHANGED <<part, retention, install>>

Next ==
    \/ Serves(S!Next)
    \/ part = "retention" /\ R!Next /\ UNCHANGED <<part, service, install>>
    \/ part = "install" /\ I!Next /\ UNCHANGED <<part, service, retention>>

Spec == Init /\ [][Next]_vars

(* What is fair is said in Service. *)
FairSpec ==
    /\ Spec
    /\ WF_vars(Serves(\E p \in S!Pids : S!Runs(p)))
    /\ WF_vars(Serves(S!AbortedEnds))
    /\ WF_vars(Serves(\E p \in S!Pids : S!StartByLaunchd(p)))
    /\ WF_vars(Serves(S!StopProbed \/ S!StopPolls \/ S!StopPolled))

----------------------------------------------------------------------------
(* The daemon starts and stops by its rules: `stop` never kills a boot half *)
(* way; a process that says it went well cut off no client, of a task, a   *)
(* completion or the button (daemon.ts:362); a daemon that serves can be   *)
(* found by its claim; and what ended well stays down (launchd.ts:94).     *)
ServiceKeepsRules ==
    /\ [](S!TypeOK /\ S!NoBootKilled)
    /\ S!ExitAfterDrain /\ S!ClaimKept /\ S!StaysStopped

(* And what it begins ends: a job that ended badly comes back, the button   *)
(* is answered or its process dies, a process that drains goes unless a     *)
(* completion holds it, and the command that waits for it ends anyway.     *)
ServiceGoesOn ==
    /\ S!ComesBack /\ S!ButtonAnswered /\ S!DrainsOut /\ S!StopEnds

(* `rewter gc` leaves a task whole or gone (gc.ts:28), wherever it is cut   *)
(* off, and collects only what has been over for long enough, never its    *)
(* price nor a workspace before the row.                                   *)
SweepsWhatIsOld ==
    /\ [](R!TypeOK /\ R!WholeOrGone)
    /\ R!OnlyOldCollected

(* What the install commands call linked or current starts, also after      *)
(* rebuilds and upgrades that keep their paths (launchd.ts:151), and what a *)
(* person put there is not written over unasked (linkcli.ts:158).          *)
InstallsWhatStarts ==
    /\ []I!Startable
    /\ I!HandsOff
============================================================================
