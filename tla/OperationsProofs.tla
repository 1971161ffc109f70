--------------------------- MODULE OperationsProofs ---------------------------
(***************************************************************************)
(* Proofs about Operations, for any number of processes, stops, polls,     *)
(* crashes, tasks, days, builds and versions of node.                      *)
(*                                                                         *)
(* The three parts share no variable: one invariant for each, kept by the  *)
(* steps of its part and not touched by the others'. Each part's lemmas    *)
(* come first, the theorems about what is promised to the user at the end. *)
(***************************************************************************)
EXTENDS Operations, SequenceTheorems, TLAPS

(* Service: who holds the port, and who may be claimed or signalled.       *)
Up == {"serving", "draining", "gone"}

(* A process serves only on the port, the port is held by a process that    *)
(* serves or drains, and what the pidfile, `stop` or a signal names has got *)
(* past its boot, which is what makes a signal harmless.                   *)
Claims ==
    /\ S!TypeOK /\ S!NoBootKilled
    /\ \A p \in S!Pids : pc[p] = "serving" => port = p
    /\ port \in S!Pids => pc[port] \in {"serving", "draining"}
    /\ pidfile # S!None => pc[pidfile] \in Up
    /\ target # S!None => pc[target] \in Up
    /\ stopping = "probe" => target # S!None
    /\ stopping \in {"probe", "wait", "poll"} => polls <= MaxPolls

(* Retention: what a sweep has chosen, and how far it has got.             *)
Order == <<"approvals", "runs", "items", "events", "tasks">>
Chosen == \A t \in doomed : t \in Old /\ status[t] = "finished" /\ ended[t] + Days < day

(* What the transaction sees before the nth statement.                     *)
Swept(n) == [b \in R!Tables |-> IF \E i \in n .. 5 : Order[i] = b THEN rows[b] ELSE rows[b] \ doomed]

(* The tables agree, and a sweep has got as far as its statements say; a    *)
(* task's columns say when it ended, for whatever has been chosen.         *)
Sweeping ==
    /\ R!TypeOK
    /\ finished \in [Old -> Int] /\ updated \in [Old -> Int] /\ ended \in [Old -> Int]
    /\ \A b \in R!Tables : rows[b] = rows["tasks"]
    /\ \A t \in rows["tasks"] : status[t] # "none"
    /\ \A t \in Old : IF status[t] = "finished" THEN ended[t] = updated[t] /\ finished[t] \in {R!Null, ended[t]}
                      ELSE finished[t] = R!Null
    /\ gc # "off" => Chosen
    /\ gc = "sweep" => \E n \in 1 .. 6 : left = SubSeq(Order, n, 5) /\ draft = Swept(n)
    /\ gc = "dirs" => doomed \cap rows["tasks"] = {}

(* Install: a plist with a version's own path is written only where there   *)
(* is no stable path to write.                                             *)
Placed ==
    /\ node \in installed /\ alias \in {node, "none"}
    /\ plist.is = "plist" => plist.node = "alias" \/ alias = "none"
    /\ I!Startable

-----------------------------------------------------------------------------
(* Service.                                                                *)

(* Numbers that name no process.                                           *)
LEMMA Numbers ==
  /\ S!None \notin S!Pids /\ S!Stranger \notin S!Pids /\ S!Alive \notin {0, 1, 143, S!Killed}
  /\ S!Pids \subseteq Nat
BY PartsAssumption DEF S!ServiceAssumption, S!None, S!Stranger, S!Pids, S!Alive, S!Killed

(* What a process's step may do to what the processes share: it takes the   *)
(* port and claims it, it gives up its claim, or it leaves both, the port   *)
(* free if it was its own.                                                 *)
LEMMA Advances ==
  ASSUME Claims, NEW p \in S!Pids, S!Lives(p) \/ pc[p] = "off",
         NEW to \in {"probing", "listening", "serving", "draining", "gone"}, NEW c \in {0, 1, 143, S!Killed},
         pc' = [pc EXCEPT ![p] = to],
         code' = IF to = "gone" THEN [code EXCEPT ![p] = c] ELSE code,
         pc[p] \in Up => to \in Up,
         sig' \subseteq sig, open' \subseteq S!Pids, due' \subseteq S!Pids, relaying' \subseteq S!Pids,
         row' \in [Tasks -> {"none", "running", "closed", "interrupted"}],
         driver' \in [Tasks -> S!Pids \cup {S!None}], audience' \subseteq Tasks,
         job' \in S!Pids \cup {S!None}, loaded' = loaded, UNCHANGED <<stopping, target, polls>>,
         \/ to = "serving" /\ port = S!None /\ port' = p /\ pidfile' = p
         \/ to = "draining" /\ pc[p] = "serving" /\ port' = port /\ pidfile' = S!None
         \/ /\ to \notin {"serving", "draining"} /\ pidfile' = pidfile
            /\ port' = IF port = p THEN S!None ELSE port
  PROVE  Claims'
<1>1. /\ pc' \in [S!Pids -> {"off", "probing", "listening", "serving", "draining", "gone"}]
      /\ code' \in [S!Pids -> {S!Alive, 0, 1, 143, S!Killed}]
      /\ \A q \in S!Pids : (code'[q] = S!Alive) = (pc'[q] # "gone")
      /\ pc'[p] = to /\ \A q \in S!Pids : q # p => pc'[q] = pc[q]
  <2>1. /\ pc \in [S!Pids -> {"off", "probing", "listening", "serving", "draining", "gone"}]
        /\ code \in [S!Pids -> {S!Alive, 0, 1, 143, S!Killed}]
        /\ \A q \in S!Pids : (code[q] = S!Alive) = (pc[q] # "gone")
    BY DEF Claims, S!TypeOK
  <2>2. pc[p] # "gone" /\ code[p] = S!Alive
    BY <2>1 DEF S!Lives
  <2>3. pc'[p] = to /\ \A q \in S!Pids : q # p => pc'[q] = pc[q]
    BY <2>1
  <2>4. /\ code'[p] = IF to = "gone" THEN c ELSE S!Alive
        /\ \A q \in S!Pids : q # p => code'[q] = code[q]
    BY <2>1, <2>2
  <2> QED
    BY <2>1, <2>3, <2>4, Numbers
<1>2. \A q \in S!Pids : pc[q] \in Up => pc'[q] \in Up
  BY <1>1
<1>3. S!TypeOK'
  <2>1. pidfile' \in S!Pids \cup {S!None} /\ port' \in S!Pids \cup {S!None, S!Stranger}
    BY DEF Claims, S!TypeOK
  <2>2. loaded' \in BOOLEAN /\ stopping' \in {"no", "probe", "wait", "poll"}
        /\ target' \in S!Pids \cup {S!None} /\ polls' \in 0 .. MaxPolls + 1 /\ sig' \subseteq S!Pids
    BY DEF Claims, S!TypeOK
  <2> QED
    BY <1>1, <2>1, <2>2 DEF S!TypeOK
<1>4. S!NoBootKilled'
  BY <1>2 DEF Claims, S!NoBootKilled, S!TypeOK, Up
<1>5. /\ pidfile' # S!None => pc'[pidfile'] \in Up
      /\ target' # S!None => pc'[target'] \in Up
  <2>1. /\ pidfile # S!None => pidfile \in S!Pids /\ pc[pidfile] \in Up
        /\ target # S!None => target \in S!Pids /\ pc[target] \in Up
    BY DEF Claims, S!TypeOK
  <2> QED
    BY <1>1, <1>2, <2>1 DEF Up
<1>6. \A q \in S!Pids : pc'[q] = "serving" => port' = q
  BY <1>1, Numbers DEF Claims
<1>7. port' \in S!Pids => pc'[port'] \in {"serving", "draining"}
  BY <1>1, Numbers DEF Claims
<1> QED
  BY <1>3, <1>4, <1>5, <1>6, <1>7 DEF Claims

(* A process starts: nobody is claimed or served before its socket is bound. *)
LEMMA StartKeeps ==
  ASSUME Claims, NEW p \in S!Pids, S!StartReads(p), loaded' = loaded, job' \in {job, p}
  PROVE  Claims'
<1>1. PICK to \in {"probing", "listening"} : pc' = [pc EXCEPT ![p] = to]
  BY DEF S!StartReads, S!Boots
<1>2. /\ pc[p] = "off" /\ UNCHANGED <<code, sig, open, due, relaying, pidfile, port, driver, audience, stopping, target, polls>>
      /\ row' \in {row, S!Reconciled}
  BY DEF S!StartReads, S!Fresh, S!Boots, S!command
<1>3. row' \in [Tasks -> {"none", "running", "closed", "interrupted"}]
  BY <1>2 DEF Claims, S!TypeOK, S!Reconciled
<1>4. port # p /\ open \subseteq S!Pids /\ due \subseteq S!Pids /\ job \in S!Pids \cup {S!None}
      /\ relaying \subseteq S!Pids /\ audience \subseteq Tasks
      /\ driver \in [Tasks -> S!Pids \cup {S!None}]
  BY <1>2 DEF Claims, S!TypeOK
<1>5. /\ S!Lives(p) \/ pc[p] = "off"
      /\ code' = IF to = "gone" THEN [code EXCEPT ![p] = 0] ELSE code
      /\ pc[p] \in Up => to \in Up
      /\ sig' \subseteq sig /\ open' \subseteq S!Pids /\ due' \subseteq S!Pids
      /\ relaying' \subseteq S!Pids /\ audience' \subseteq Tasks
      /\ driver' \in [Tasks -> S!Pids \cup {S!None}]
      /\ job' \in S!Pids \cup {S!None}
      /\ to \notin {"serving", "draining"}
      /\ port' = IF port = p THEN S!None ELSE port
  BY <1>1, <1>2, <1>4 DEF Up
<1>6. to \in {"probing", "listening", "serving", "draining", "gone"} /\ 0 \in {0, 1, 143, S!Killed}
  OBVIOUS
<1>7. pc' = [pc EXCEPT ![p] = to] /\ loaded' = loaded /\ UNCHANGED <<stopping, target, polls>> /\ pidfile' = pidfile
  BY <1>1, <1>2
<1> QED
  BY <1>3, <1>5, <1>6, <1>7, Advances

(* It has asked whether another runs, or binds its socket.                 *)
LEMMA BootKeeps ==
  ASSUME Claims, NEW p \in S!Pids, S!StartProbed(p) \/ S!Listen(p)
  PROVE  Claims'
<1>1. /\ pc[p] \in {"probing", "listening"} /\ row' \in {row, S!Reconciled}
      /\ UNCHANGED <<sig, open, due, relaying, driver, audience, job, loaded, stopping, target, polls>>
  BY DEF S!StartProbed, S!Listen, S!Boots, S!tasks, S!launchd, S!command
<1>2. /\ port # p /\ open \subseteq S!Pids /\ due \subseteq S!Pids /\ job \in S!Pids \cup {S!None}
      /\ relaying \subseteq S!Pids /\ audience \subseteq Tasks
      /\ driver \in [Tasks -> S!Pids \cup {S!None}] /\ S!Lives(p)
  BY <1>1 DEF Claims, S!TypeOK, S!Lives
<1>3. row' \in [Tasks -> {"none", "running", "closed", "interrupted"}]
  BY <1>1 DEF Claims, S!TypeOK, S!Reconciled
<1>4. CASE S!Ends(p, 1) /\ UNCHANGED <<port, pidfile>>
  BY <1>1, <1>2, <1>3, <1>4, Advances DEF Up, S!Ends
<1>5. CASE S!StartProbed(p) /\ S!Boots(p) /\ UNCHANGED code
  BY <1>1, <1>2, <1>3, <1>5, Advances DEF Up, S!StartProbed, S!Boots
<1>6. CASE S!Listen(p) /\ port = S!None
  BY <1>1, <1>2, <1>3, <1>6, Advances DEF Up, S!Listen
<1> QED
  BY <1>4, <1>5, <1>6 DEF S!StartProbed, S!Listen

(* A signal ends a process that has no handler yet; it, and the button,     *)
(* make one that serves drain, and join what is under way.                 *)
LEMMA StopKeeps ==
  ASSUME Claims, NEW p \in S!Pids, S!Signalled(p) \/ S!Immediate(p)
  PROVE  Claims'
<1>1. /\ S!Lives(p) /\ sig' \subseteq sig /\ open' = open /\ due' \subseteq due
      /\ UNCHANGED <<relaying, row, driver, audience, job, loaded, stopping, target, polls>>
  BY DEF S!Signalled, S!Immediate, S!tasks, S!launchd, S!command
<1>2. /\ open \subseteq S!Pids /\ due \subseteq S!Pids /\ job \in S!Pids \cup {S!None}
      /\ relaying \subseteq S!Pids /\ audience \subseteq Tasks
      /\ row \in [Tasks -> {"none", "running", "closed", "interrupted"}]
      /\ driver \in [Tasks -> S!Pids \cup {S!None}]
  BY DEF Claims, S!TypeOK
<1>3. CASE pc[p] \in {"probing", "listening"} /\ S!Ends(p, 143) /\ UNCHANGED <<pidfile, port>>
  <2>1. port # p
    BY <1>3 DEF Claims
  <2> QED
    BY <1>1, <1>2, <1>3, <2>1, Advances DEF Up, S!Ends
<1>4. CASE pc[p] = "serving" /\ S!StopSequence(p)
  BY <1>1, <1>2, <1>4, Advances DEF Up, S!StopSequence
<1>5. CASE S!Joins(p)
  BY <1>1, <1>2, <1>5 DEF Claims, S!TypeOK, S!NoBootKilled, S!Joins
<1> QED
  BY <1>3, <1>4, <1>5 DEF S!Signalled, S!Immediate, S!RequestStop

(* A process ends, drained, failed or killed, and its port is free.        *)
LEMMA EndKeeps ==
  ASSUME Claims, NEW p \in S!Pids, S!DrainEnds(p) \/ S!DrainFails(p) \/ S!Crash(p)
  PROVE  Claims'
<1>1. /\ S!Lives(p) /\ UNCHANGED <<sig, open, due, pidfile, row, job, loaded, stopping, target, polls>>
      /\ \E c \in {0, 1, S!Killed} : S!Ends(p, c)
  BY DEF S!DrainEnds, S!DrainFails, S!Crash, S!launchd, S!command, S!Lives
<1>2. /\ open \subseteq S!Pids /\ due \subseteq S!Pids /\ job \in S!Pids \cup {S!None}
      /\ relaying \subseteq S!Pids /\ audience \subseteq Tasks
      /\ row \in [Tasks -> {"none", "running", "closed", "interrupted"}]
      /\ driver \in [Tasks -> S!Pids \cup {S!None}]
  BY DEF Claims, S!TypeOK
<1>3. port' = IF port = p THEN S!None ELSE port
  BY DEF S!DrainEnds, S!DrainFails, S!Crash, S!Gone
<1>4. driver' \in [Tasks -> S!Pids \cup {S!None}] /\ relaying' \subseteq S!Pids /\ audience' \subseteq Tasks
  BY <1>2 DEF S!DrainEnds, S!DrainFails, S!Crash, S!Gone, S!Forgets
<1>5. PICK c \in {0, 1, S!Killed} : S!Ends(p, c)
  BY <1>1
<1> QED
  BY <1>1, <1>2, <1>3, <1>4, <1>5, Advances DEF Up, S!Ends

(* `stop` signals the process it read the claim of, which is past its boot. *)
LEMMA CommandKeeps ==
  ASSUME Claims, S!StopCommand
  PROVE  Claims'
<1>1. MaxPolls \in Nat /\ polls \in 0 .. MaxPolls + 1
  BY PartsAssumption DEF S!ServiceAssumption, Claims, S!TypeOK
<1>2. CASE S!StopReads
  <2>1. /\ UNCHANGED <<pc, code, sig, open, due, relaying, pidfile, port, row, driver, audience, job, loaded>>
        /\ stopping' = (IF pidfile = S!None THEN "no" ELSE "probe") /\ target' = pidfile /\ polls' = 0
    BY <1>2 DEF S!StopReads, S!procs, S!shared, S!tasks, S!launchd
  <2> QED
    BY <1>1, <2>1 DEF Claims, S!TypeOK, S!NoBootKilled
<1>3. CASE S!StopProbed
  <2>1. /\ UNCHANGED <<pc, code, open, due, relaying, port, row, driver, audience, job, loaded, polls>>
        /\ stopping = "probe" /\ stopping' \in {"no", "wait"} /\ target' = S!None
        /\ sig' = sig \/ (S!Lives(target) /\ sig' = sig \cup {target})
        /\ pidfile' \in {pidfile, S!None}
    BY <1>3 DEF S!StopProbed, S!StopSignals, S!tasks, S!launchd
  <2>2. target \in S!Pids /\ pc[target] \in Up
    BY <2>1 DEF Claims, S!TypeOK
  <2> QED
    BY <1>1, <2>1, <2>2 DEF Claims, S!TypeOK, S!NoBootKilled, Up
<1>4. CASE S!StopPolls
  <2>1. /\ UNCHANGED <<pc, code, sig, open, due, relaying, pidfile, port, row, driver, audience, job, loaded, target, polls>>
        /\ stopping = "wait" /\ stopping' \in {"no", "poll"}
    BY <1>4 DEF S!StopPolls, S!procs, S!shared, S!tasks, S!launchd
  <2> QED
    BY <2>1 DEF Claims, S!TypeOK, S!NoBootKilled
<1>5. CASE S!StopPolled
  <2>1. /\ UNCHANGED <<pc, code, sig, open, due, relaying, port, row, driver, audience, job, loaded, target>>
        /\ stopping = "poll" /\ polls' = polls + 1 /\ pidfile' \in {pidfile, S!None}
        /\ stopping' = "no" \/ (stopping' = "wait" /\ polls < MaxPolls)
    BY <1>5 DEF S!StopPolled, S!procs, S!tasks, S!launchd
  <2>2. polls' \in 0 .. MaxPolls + 1 /\ (stopping' = "wait" => polls' <= MaxPolls)
    BY <1>1, <2>1 DEF Claims
  <2> QED
    BY <2>1, <2>2 DEF Claims, S!TypeOK, S!NoBootKilled
<1> QED
  BY <1>2, <1>3, <1>4, <1>5 DEF S!StopCommand

(* Every step of the service keeps its claims.                             *)
LEMMA ClaimsStep ==
  ASSUME Claims, S!Next
  PROVE  Claims'
<1>1. CASE \E p \in S!Pids : S!StartByHand(p) \/ S!StartByLaunchd(p)
  <2>1. PICK p \in S!Pids : S!StartReads(p) /\ loaded' = loaded /\ job' \in {job, p}
    BY <1>1 DEF S!StartByHand, S!StartByLaunchd, S!launchd
  <2> QED
    BY <2>1, StartKeeps
<1>2. CASE \E p \in S!Pids : S!Runs(p)
  <2>1. PICK p \in S!Pids : S!Runs(p)
    BY <1>2
  <2>2. CASE S!CloseListener(p)
    <3>1. /\ pc[p] = "draining" /\ port = p /\ port' = S!None
          /\ UNCHANGED <<pc, code, sig, open, due, relaying, pidfile, row, driver, audience, job, loaded,
                         stopping, target, polls>>
      BY <2>2 DEF S!CloseListener, S!procs, S!tasks, S!launchd, S!command
    <3> QED
      BY <3>1, Numbers DEF Claims, S!TypeOK, S!NoBootKilled
  <2>3. CASE S!ButtonReplies(p)
    <3>1. /\ open' \subseteq open /\ due' = due \cup {p}
          /\ UNCHANGED <<pc, code, sig, relaying, pidfile, port, row, driver, audience, job, loaded,
                         stopping, target, polls>>
      BY <2>3 DEF S!ButtonReplies, S!shared, S!tasks, S!launchd, S!command
    <3> QED
      BY <3>1 DEF Claims, S!TypeOK, S!NoBootKilled
  <2> QED
    BY <2>1, <2>2, <2>3, BootKeeps, StopKeeps, EndKeeps DEF S!Runs
<1>3. CASE \E p \in S!Pids : S!Button(p)
  <2>1. PICK p \in S!Pids : S!Button(p)
    BY <1>3
  <2>2. /\ open' = open \cup {p}
        /\ UNCHANGED <<pc, code, sig, due, relaying, pidfile, port, row, driver, audience, job, loaded,
                       stopping, target, polls>>
    BY <2>1 DEF S!Button, S!shared, S!tasks, S!launchd, S!command
  <2> QED
    BY <2>2 DEF Claims, S!TypeOK, S!NoBootKilled
<1>4. CASE \E p \in S!Pids : S!DrainFails(p) \/ S!Crash(p)
  BY <1>4, EndKeeps
<1>5. CASE \/ \E p \in S!Pids, t \in Tasks : S!Begin(p, t) \/ S!Attach(p, t) \/ S!End(p, t)
           \/ \E t \in Tasks : S!Leave(t)
  <2>1. /\ row' \in [Tasks -> {"none", "running", "closed", "interrupted"}]
        /\ driver' \in [Tasks -> S!Pids \cup {S!None}]
        /\ audience' \subseteq Tasks
    BY <1>5 DEF S!Begin, S!Attach, S!Leave, S!End, Claims, S!TypeOK
  <2>2. UNCHANGED <<pc, code, sig, open, due, relaying, pidfile, port, job, loaded, stopping, target, polls>>
    BY <1>5 DEF S!Begin, S!Attach, S!Leave, S!End, S!procs, S!launchd, S!command
  <2> QED
    BY <2>1, <2>2 DEF Claims, S!TypeOK, S!NoBootKilled
<1>6. CASE \E p \in S!Pids : S!Relay(p) \/ S!Relayed(p)
  <2>1. /\ relaying' \subseteq S!Pids
        /\ UNCHANGED <<pc, code, sig, open, due, pidfile, port, row, driver, audience, job, loaded,
                       stopping, target, polls>>
    BY <1>6 DEF S!Relay, S!Relayed, S!shared, S!tasks, S!launchd, S!command, Claims, S!TypeOK
  <2> QED
    BY <2>1 DEF Claims, S!TypeOK, S!NoBootKilled
<1>7. CASE S!StopCommand
  BY <1>7, CommandKeeps
<1> QED
  BY <1>1, <1>2, <1>3, <1>4, <1>5, <1>6, <1>7 DEF S!Next

(* Only a drain that has come to its end exits with 0.                     *)
LEMMA CleanExit ==
  ASSUME Claims, S!Next, NEW p \in S!Pids, code[p] = S!Alive, code'[p] = 0
  PROVE  S!DrainEnds(p)
<1>1. /\ code \in [S!Pids -> {S!Alive, 0, 1, 143, S!Killed}]
      /\ S!Alive # 0 /\ S!Killed # 0
  BY Numbers DEF Claims, S!TypeOK, S!Killed
<1>2. \A q \in S!Pids, c \in {1, 143, S!Killed} : ~S!Ends(q, c)
  BY <1>1 DEF S!Ends
<1>3. code' # code
  BY <1>1
<1>4. \A q \in S!Pids : ~(S!StartByHand(q) \/ S!StartByLaunchd(q) \/ S!Button(q) \/ S!ButtonReplies(q)
                         \/ S!CloseListener(q) \/ S!Immediate(q) \/ S!Relay(q) \/ S!Relayed(q))
  BY <1>3 DEF S!Relay, S!Relayed, S!StartByHand, S!StartByLaunchd, S!StartReads, S!Button, S!ButtonReplies, S!CloseListener,
              S!Immediate, S!RequestStop, S!StopSequence, S!Joins, S!procs
<1>5. \A q \in S!Pids : ~(S!StartProbed(q) \/ S!Listen(q) \/ S!Signalled(q) \/ S!DrainFails(q) \/ S!Crash(q))
  BY <1>2, <1>3 DEF S!StartProbed, S!Listen, S!Signalled, S!DrainFails, S!Crash,
                    S!RequestStop, S!StopSequence, S!Joins
<1>6. /\ \A q \in S!Pids, t \in Tasks : ~(S!Begin(q, t) \/ S!Attach(q, t) \/ S!End(q, t))
      /\ \A t \in Tasks : ~S!Leave(t)
  BY <1>3 DEF S!Begin, S!Attach, S!Leave, S!End, S!procs
<1>7. ~S!StopCommand
  BY <1>3 DEF S!StopCommand, S!StopReads, S!StopProbed, S!StopPolls, S!StopPolled, S!procs
<1>8. PICK q \in S!Pids : S!DrainEnds(q)
  BY <1>4, <1>5, <1>6, <1>7 DEF S!Next, S!Runs
<1> QED
  BY <1>1, <1>8 DEF S!DrainEnds, S!Ends

(* The claim of a daemon that serves goes by its own stop or by `stop`.    *)
LEMMA ClaimGoes ==
  ASSUME Claims, S!Next, pidfile # S!None, pidfile' # pidfile, pc[pidfile] = "serving"
  PROVE  pc'[pidfile] = "draining" \/ (stopping \in {"probe", "poll"} /\ stopping' = "no")
<1>1. pidfile \in S!Pids /\ port = pidfile /\ port # S!None
      /\ pc \in [S!Pids -> {"off", "probing", "listening", "serving", "draining", "gone"}]
  BY DEF Claims, S!TypeOK
<1>2. \A q \in S!Pids : S!StopSequence(q) /\ pc[q] = "serving" => pc'[pidfile] = "draining"
  BY <1>1 DEF S!StopSequence, Claims
<1>3. \A q \in S!Pids : ~(S!StartByHand(q) \/ S!StartByLaunchd(q) \/ S!Button(q) \/ S!ButtonReplies(q)
                         \/ S!CloseListener(q) \/ S!StartProbed(q) \/ S!Listen(q) \/ S!DrainEnds(q)
                         \/ S!DrainFails(q) \/ S!Crash(q) \/ S!Relay(q) \/ S!Relayed(q))
  BY <1>1 DEF S!Relay, S!Relayed, S!StartByHand, S!StartByLaunchd, S!StartReads, S!Button, S!ButtonReplies, S!CloseListener,
              S!StartProbed, S!Listen, S!DrainEnds, S!DrainFails, S!Crash, S!shared
<1>4. \A q \in S!Pids : S!Signalled(q) \/ S!Immediate(q) => pc'[pidfile] = "draining"
  BY <1>2 DEF S!Signalled, S!Immediate, S!RequestStop, S!Joins
<1>5. /\ \A q \in S!Pids, t \in Tasks : ~(S!Begin(q, t) \/ S!Attach(q, t) \/ S!End(q, t))
      /\ \A t \in Tasks : ~S!Leave(t)
  BY DEF S!Begin, S!Attach, S!Leave, S!End
<1>6. ~S!StopReads /\ ~S!StopPolls
  BY DEF S!StopReads, S!StopPolls, S!shared
<1>7. S!StopProbed \/ S!StopPolled => stopping \in {"probe", "poll"} /\ stopping' = "no"
  BY DEF S!StopProbed, S!StopPolled, S!StopSignals
<1> QED
  BY <1>3, <1>4, <1>5, <1>6, <1>7 DEF S!Next, S!Runs, S!StopCommand

(* launchd starts what it wants: its first job, or one after a bad end.    *)
LEMMA JobWanted ==
  ASSUME S!Next, job' # job, job # S!None
  PROVE  code[job] \notin {S!Alive, 0}
<1>1. \A q \in S!Pids : ~(S!StartByHand(q) \/ S!Runs(q) \/ S!Button(q) \/ S!DrainFails(q) \/ S!Crash(q)
                         \/ S!Relay(q) \/ S!Relayed(q))
  BY DEF S!Relay, S!Relayed, S!StartByHand, S!Runs, S!Button, S!ButtonReplies, S!CloseListener, S!StartProbed, S!Listen,
         S!Signalled, S!Immediate, S!DrainEnds, S!DrainFails, S!Crash, S!launchd
<1>2. /\ \A q \in S!Pids, t \in Tasks : ~(S!Begin(q, t) \/ S!Attach(q, t) \/ S!End(q, t))
      /\ \A t \in Tasks : ~S!Leave(t)
  BY DEF S!Begin, S!Attach, S!Leave, S!End, S!launchd
<1>3. ~S!StopCommand
  BY DEF S!StopCommand, S!StopReads, S!StopProbed, S!StopPolls, S!StopPolled, S!launchd
<1> QED
  BY <1>1, <1>2, <1>3 DEF S!Next, S!StartByLaunchd, S!Wants

-----------------------------------------------------------------------------
(* Retention.                                                              *)

(* The tables in the order they are swept: each once, all of them.         *)
LEMMA Ranks ==
  /\ Order \in Seq(R!Tables) /\ Len(Order) = 5
  /\ \A i \in 1 .. 5 : Order[i] \in R!Tables
  /\ \A b \in R!Tables : \E i \in 1 .. 5 : Order[i] = b
  /\ \A i, j \in 1 .. 5 : Order[i] = Order[j] => i = j
BY DEF Order, R!Tables

(* What is left to sweep, table by table.                                  *)
LEMMA Lefts ==
  /\ SubSeq(Order, 1, 5) = Order /\ SubSeq(Order, 6, 5) = <<>>
  /\ \A n \in 1 .. 6 : SubSeq(Order, n, 5) # <<>> =>
        /\ n \in 1 .. 5 /\ Head(SubSeq(Order, n, 5)) = Order[n]
        /\ Tail(SubSeq(Order, n, 5)) = SubSeq(Order, n + 1, 5)
  /\ \A n \in 1 .. 5 : SubSeq(Order, n, 5) # <<>>
<1>1. \A n \in 1 .. 6 : /\ SubSeq(Order, n, 5) \in Seq(R!Tables)
                       /\ Len(SubSeq(Order, n, 5)) = 6 - n
                       /\ \A i \in 1 .. 6 - n : SubSeq(Order, n, 5)[i] = Order[n + i - 1]
  <2> TAKE n \in 1 .. 6
  <2>1. \A i \in n .. 5 : Order[i] \in R!Tables
    BY Ranks
  <2>2. /\ SubSeq(Order, n, 5) \in Seq(R!Tables)
        /\ Len(SubSeq(Order, n, 5)) = IF n <= 5 THEN 5 - n + 1 ELSE 0
        /\ \A i \in 1 .. 5 - n + 1 : SubSeq(Order, n, 5)[i] = Order[n + i - 1]
    BY <2>1, SubSeqProperties
  <2> QED
    BY <2>2
<1>2. SubSeq(Order, 1, 5) = Order
  <2>1. SubSeq(Order, 1, 5) \in Seq(R!Tables) /\ Len(SubSeq(Order, 1, 5)) = 5
        /\ \A i \in 1 .. 5 : SubSeq(Order, 1, 5)[i] = Order[i]
    BY <1>1
  <2> QED
    BY <2>1, Ranks, SeqEqual
<1>3. SubSeq(Order, 6, 5) = <<>>
  BY <1>1, EmptySeq
<1>4. \A n \in 1 .. 5 : SubSeq(Order, n, 5) # <<>>
  <2>1. Len(<<>>) = 0
    BY EmptySeq
  <2>2. \A n \in 1 .. 5 : Len(SubSeq(Order, n, 5)) # 0
    BY <1>1
  <2> QED
    BY <2>1, <2>2
<1>5. ASSUME NEW n \in 1 .. 6, SubSeq(Order, n, 5) # <<>>
      PROVE  /\ n \in 1 .. 5 /\ Head(SubSeq(Order, n, 5)) = Order[n]
             /\ Tail(SubSeq(Order, n, 5)) = SubSeq(Order, n + 1, 5)
  <2>1. n \in 1 .. 5
    BY <1>3, <1>5
  <2>2. /\ Head(SubSeq(Order, n, 5)) = SubSeq(Order, n, 5)[1]
        /\ Tail(SubSeq(Order, n, 5)) \in Seq(R!Tables)
        /\ Len(Tail(SubSeq(Order, n, 5))) = Len(SubSeq(Order, n, 5)) - 1
        /\ \A i \in 1 .. Len(Tail(SubSeq(Order, n, 5))) :
              Tail(SubSeq(Order, n, 5))[i] = SubSeq(Order, n, 5)[i + 1]
    BY <1>1, <1>5, HeadTailProperties
  <2>3. /\ Len(Tail(SubSeq(Order, n, 5))) = 6 - (n + 1)
        /\ \A i \in 1 .. 6 - (n + 1) : Tail(SubSeq(Order, n, 5))[i] = Order[(n + 1) + i - 1]
    BY <1>1, <2>1, <2>2
  <2>4. /\ SubSeq(Order, n + 1, 5) \in Seq(R!Tables) /\ Len(SubSeq(Order, n + 1, 5)) = 6 - (n + 1)
        /\ \A i \in 1 .. 6 - (n + 1) : SubSeq(Order, n + 1, 5)[i] = Order[(n + 1) + i - 1]
    BY <1>1, <2>1
  <2> QED
    BY <1>1, <2>1, <2>2, <2>3, <2>4, SeqEqual
<1> QED
  BY <1>2, <1>3, <1>4, <1>5

(* One statement more sweeps one table more.                               *)
LEMMA SweptMore ==
  ASSUME NEW n \in 1 .. 5
  PROVE  /\ [Swept(n) EXCEPT ![Order[n]] = @ \ doomed] = Swept(n + 1)
         /\ Swept(1) = [b \in R!Tables |-> rows[b]]
         /\ Swept(6) = [b \in R!Tables |-> rows[b] \ doomed]
<1>1. Order[n] \in R!Tables
  BY Ranks
<1>2. \A b \in R!Tables : (\E i \in n .. 5 : Order[i] = b)
                            <=> (b = Order[n] \/ \E i \in n + 1 .. 5 : Order[i] = b)
  <2>1. n \in n .. 5 /\ (\A i \in n + 1 .. 5 : i \in n .. 5) /\ \A i \in n .. 5 : i = n \/ i \in n + 1 .. 5
    OBVIOUS
  <2> QED
    BY <2>1, Zenon
<1>3. \A i \in n + 1 .. 5 : Order[i] # Order[n]
  BY Ranks
<1>4. \A b \in R!Tables : [Swept(n) EXCEPT ![Order[n]] = @ \ doomed][b] = Swept(n + 1)[b]
  BY <1>1, <1>2, <1>3 DEF Swept
<1>5. [Swept(n) EXCEPT ![Order[n]] = @ \ doomed] = Swept(n + 1)
  BY <1>4 DEF Swept
<1>6. Swept(1) = [b \in R!Tables |-> rows[b]]
  BY Ranks DEF Swept
<1>7. Swept(6) = [b \in R!Tables |-> rows[b] \ doomed]
  BY DEF Swept
<1> QED
  BY <1>5, <1>6, <1>7

(* A day passes, and what was old enough stays so.                         *)
LEMMA DayKeeps ==
  ASSUME Sweeping, R!NextDay
  PROVE  Sweeping'
<1>1. MaxDay \in Nat /\ Days \in Nat /\ day \in Nat /\ ended \in [Old -> Int]
  BY PartsAssumption DEF R!RetentionAssumption, Sweeping, R!TypeOK
<1>2. /\ day < MaxDay /\ day' = day + 1
      /\ UNCHANGED <<status, finished, updated, rows, costs, dirs, gc, doomed, draft, left, ended>>
  BY DEF R!NextDay, R!sweep
<1>3. R!TypeOK'
  BY <1>1, <1>2 DEF Sweeping, R!TypeOK, R!Tables
<1>4. Chosen => Chosen'
  BY <1>1, <1>2 DEF Chosen
<1> QED
  BY <1>2, <1>3, <1>4 DEF Sweeping, Swept, R!Tables

(* A new task has rows in every table and has not been chosen; a task that  *)
(* ends has not been chosen before.                                        *)
LEMMA TaskKeeps ==
  ASSUME Sweeping, NEW t \in Old, NEW b \in BOOLEAN, R!Create(t, b) \/ R!Finish(t, b)
  PROVE  Sweeping'
<1>1. /\ day \in Int /\ day \in 1 .. MaxDay /\ R!Null = -1
      /\ status \in [Old -> {"none", "running", "finished"}]
      /\ finished \in [Old -> Int] /\ updated \in [Old -> Int] /\ ended \in [Old -> Int]
      /\ gc \in {"off", "sweep", "dirs"} /\ doomed \subseteq Old
  BY DEF Sweeping, R!TypeOK, R!Null
<1>2. /\ gc # "sweep" /\ UNCHANGED <<day, gc, doomed, draft, left, sweeps>>
      /\ status[t] # "finished" /\ \A u \in Old : u # t => status'[u] = status[u]
      /\ status' \in [Old -> {"none", "running", "finished"}] /\ status'[t] # "none"
  BY <1>1 DEF R!Create, R!Finish, R!sweep, R!Unlocked
<1>3. \/ rows' = rows
      \/ rows' = [a \in R!Tables |-> rows[a] \cup {t}]
  BY DEF R!Create, R!Finish
<1>4. /\ rows' \in [R!Tables -> SUBSET Old]
      /\ \A a \in R!Tables : rows'[a] = rows'["tasks"]
      /\ \A u \in rows'["tasks"] : u = t \/ u \in rows["tasks"]
      /\ rows["tasks"] \subseteq Old
  <2>1. /\ rows \in [R!Tables -> SUBSET Old] /\ \A a \in R!Tables : rows[a] = rows["tasks"]
        /\ "tasks" \in R!Tables
    BY DEF Sweeping, R!TypeOK, R!Tables
  <2>2. CASE rows' = rows
    BY <2>1, <2>2
  <2>3. CASE rows' = [a \in R!Tables |-> rows[a] \cup {t}]
    BY <2>1, <2>3
  <2> QED
    BY <1>3, <2>2, <2>3
<1>5. R!TypeOK'
  <2>1. costs' \subseteq Old /\ dirs' \subseteq Old
    BY DEF R!Create, R!Finish, Sweeping, R!TypeOK
  <2> QED
    BY <1>1, <1>2, <1>4, <2>1 DEF R!TypeOK
<1>6. \A u \in rows'["tasks"] : status'[u] # "none"
  BY <1>2, <1>4 DEF Sweeping
<1>7. /\ finished' \in [Old -> Int] /\ updated' \in [Old -> Int] /\ ended' \in [Old -> Int]
      /\ \A u \in Old : u # t => finished'[u] = finished[u] /\ updated'[u] = updated[u] /\ ended'[u] = ended[u]
      /\ IF status'[t] = "finished" THEN ended'[t] = updated'[t] /\ finished'[t] \in {R!Null, ended'[t]}
                                   ELSE finished'[t] = R!Null
  <2>1. CASE R!Create(t, b)
    BY <1>1, <1>2, <2>1 DEF R!Create, Sweeping
  <2>2. CASE R!Finish(t, b)
    <3>1. finished[t] = R!Null /\ b \in BOOLEAN
      BY <1>2 DEF Sweeping
    <3> QED
      BY <1>1, <1>2, <2>2, <3>1 DEF R!Finish
  <2> QED
    BY <2>1, <2>2
<1>8. gc # "off" => Chosen'
  <2> SUFFICES ASSUME gc # "off", NEW u \in doomed'
               PROVE  u \in Old /\ status'[u] = "finished" /\ ended'[u] + Days < day'
    BY DEF Chosen
  <2>1. u \in Old /\ status[u] = "finished" /\ ended[u] + Days < day
    BY <1>2 DEF Sweeping, Chosen
  <2>2. u # t
    BY <1>2, <2>1
  <2> QED
    BY <1>2, <1>7, <2>1, <2>2
<1>9. gc = "dirs" => doomed' \cap rows'["tasks"] = {}
  <2> SUFFICES ASSUME gc = "dirs", NEW u \in doomed PROVE u \notin rows'["tasks"]
    BY <1>2
  <2>1. u # t /\ u \notin rows["tasks"]
    BY <1>2 DEF Sweeping, Chosen
  <2> QED
    BY <1>4, <2>1
<1>10. \A u \in Old : IF status'[u] = "finished" THEN ended'[u] = updated'[u] /\ finished'[u] \in {R!Null, ended'[u]}
                                          ELSE finished'[u] = R!Null
  <2> TAKE u \in Old
  <2>1. IF status[u] = "finished" THEN ended[u] = updated[u] /\ finished[u] \in {R!Null, ended[u]}
                                  ELSE finished[u] = R!Null
    BY DEF Sweeping
  <2> QED
    BY <1>2, <1>7, <2>1 DEF R!Null
<1> QED
  BY <1>2, <1>4, <1>5, <1>6, <1>7, <1>8, <1>9, <1>10 DEF Sweeping, R!Null

(* What is chosen has been over for long enough, by whichever column says  *)
(* when it ended.                                                          *)
LEMMA SelectKeeps ==
  ASSUME Sweeping, R!Select
  PROVE  Sweeping'
<1>1. /\ day \in Int /\ Days \in Nat /\ R!Null = -1
      /\ finished \in [Old -> Int] /\ updated \in [Old -> Int] /\ ended \in [Old -> Int]
      /\ rows \in [R!Tables -> SUBSET Old] /\ rows["tasks"] \subseteq Old
  BY PartsAssumption DEF R!RetentionAssumption, Sweeping, R!TypeOK, R!Null, R!Tables
<1>2. /\ doomed' = R!Doomed /\ draft' = rows
      /\ gc' = (IF R!Doomed = {} THEN "off" ELSE "sweep")
      /\ R!Doomed # {} => left' = Order
      /\ UNCHANGED <<day, status, finished, updated, rows, costs, dirs, ended>>
  BY DEF R!Select, R!tasksOf, Order
<1>3. \A t \in R!Doomed : t \in Old /\ status[t] = "finished" /\ ended[t] + Days < day
  <2> SUFFICES ASSUME NEW t \in R!Doomed
               PROVE  t \in Old /\ status[t] = "finished" /\ ended[t] + Days < day
    OBVIOUS
  <2>1. t \in Old /\ status[t] = "finished" /\ R!Aged(t, day - Days)
    BY <1>1 DEF R!Doomed
  <2>2. ended[t] = updated[t] /\ (finished[t] = R!Null \/ finished[t] = ended[t])
    BY <2>1 DEF Sweeping
  <2>3. ended[t] < day - Days
    BY <2>1, <2>2 DEF R!Aged
  <2> QED
    BY <1>1, <2>1, <2>3
<1>4. Chosen'
  BY <1>2, <1>3 DEF Chosen
<1>5. R!TypeOK'
  <2>1. R!Doomed \subseteq Old
    BY <1>3
  <2> QED
    BY <1>2, <2>1 DEF Sweeping, R!TypeOK
<1>6. gc' = "sweep" => \E n \in 1 .. 6 : left' = SubSeq(Order, n, 5) /\ draft' = Swept(n)'
  <2>1. Swept(1)' = rows
    <3>1. rows = [b \in R!Tables |-> rows[b]]
      BY <1>1
    <3> QED
      BY <1>2, <3>1, Ranks DEF Swept, R!Tables
  <2>2. gc' = "sweep" => left' = SubSeq(Order, 1, 5)
    BY <1>2, Lefts
  <2> QED
    BY <1>2, <2>1, <2>2
<1> QED
  BY <1>2, <1>4, <1>5, <1>6 DEF Sweeping, R!Tables, R!Null

(* A statement takes the next table.                                       *)
LEMMA StatementKeeps ==
  ASSUME Sweeping, R!Statement
  PROVE  Sweeping'
<1>1. /\ gc = "sweep" /\ left # <<>> /\ left' = Tail(left)
      /\ draft' = [draft EXCEPT ![Head(left)] = @ \ doomed]
      /\ UNCHANGED <<day, status, finished, updated, rows, costs, dirs, gc, doomed, ended>>
  BY DEF R!Statement, R!tasksOf
<1>2. PICK n \in 1 .. 6 : left = SubSeq(Order, n, 5) /\ draft = Swept(n)
  BY <1>1 DEF Sweeping
<1>3. /\ n \in 1 .. 5 /\ n + 1 \in 1 .. 6 /\ Head(left) = Order[n] /\ Tail(left) = SubSeq(Order, n + 1, 5)
  BY <1>1, <1>2, Lefts
<1>4. draft' = Swept(n + 1)
  BY <1>1, <1>2, <1>3, SweptMore
<1>5. Swept(n + 1)' = Swept(n + 1)
  BY <1>1 DEF Swept, R!Tables
<1>6. \E m \in 1 .. 6 : left' = SubSeq(Order, m, 5) /\ draft' = Swept(m)'
  BY <1>1, <1>3, <1>4, <1>5
<1>7. Chosen'
  BY <1>1 DEF Sweeping, Chosen
<1>8. R!TypeOK'
  BY <1>1 DEF Sweeping, R!TypeOK, R!Tables
<1> QED
  BY <1>1, <1>6, <1>7, <1>8 DEF Sweeping, R!Tables, R!Null

(* When nothing is left to sweep, every table has lost what was chosen.    *)
LEMMA AllSwept ==
  ASSUME Sweeping, gc = "sweep", left = <<>>
  PROVE  draft = [b \in R!Tables |-> rows["tasks"] \ doomed]
<1>1. PICK n \in 1 .. 6 : left = SubSeq(Order, n, 5) /\ draft = Swept(n)
  BY DEF Sweeping
<1>2. n = 6
  BY <1>1, Lefts
<1>3. draft = [b \in R!Tables |-> rows[b] \ doomed]
  <2>1. 1 \in 1 .. 5
    OBVIOUS
  <2> QED
    BY <1>1, <1>2, <2>1, SweptMore
<1>4. \A b \in R!Tables : rows[b] = rows["tasks"]
  BY DEF Sweeping
<1> QED
  BY <1>3, <1>4

(* The transaction ends, and the tables agree again.                       *)
LEMMA CommitKeeps ==
  ASSUME Sweeping, R!Commit
  PROVE  Sweeping'
<1>1. /\ gc = "sweep" /\ left = <<>> /\ rows' = draft /\ gc' = "dirs"
      /\ UNCHANGED <<day, status, finished, updated, costs, dirs, doomed, ended>>
  BY DEF R!Commit, R!tasksOf
<1>2. draft = [b \in R!Tables |-> rows["tasks"] \ doomed] /\ "tasks" \in R!Tables
  BY <1>1, AllSwept DEF R!Tables
<1>3. /\ rows' \in [R!Tables -> SUBSET Old] /\ rows'["tasks"] = rows["tasks"] \ doomed
      /\ \A b \in R!Tables : rows'[b] = rows'["tasks"]
  BY <1>1, <1>2 DEF Sweeping, R!TypeOK
<1>4. R!TypeOK'
  BY <1>1, <1>3 DEF Sweeping, R!TypeOK
<1>5. Chosen'
  BY <1>1 DEF Sweeping, Chosen
<1>6. \A t \in rows'["tasks"] : status'[t] # "none"
  BY <1>1, <1>3 DEF Sweeping
<1> QED
  BY <1>1, <1>3, <1>4, <1>5, <1>6 DEF Sweeping, R!Null

(* Directories go once the rows have; a sweep that is cut off leaves what   *)
(* the last transaction left.                                              *)
LEMMA CutKeeps ==
  ASSUME Sweeping, R!GcEnds \/ R!GcDies \/ \E t \in Old : R!RemoveDir(t)
  PROVE  Sweeping'
<1>1. /\ UNCHANGED <<day, status, finished, updated, rows, costs, ended>>
      /\ dirs' \subseteq dirs /\ doomed' \subseteq doomed /\ gc' \in {"off", "dirs"}
      /\ gc' = "dirs" => gc = "dirs"
  BY DEF R!GcEnds, R!GcDies, R!RemoveDir, R!tasksOf
<1>2. R!TypeOK'
  BY <1>1 DEF Sweeping, R!TypeOK, R!Tables
<1>3. gc' # "off" => Chosen'
  BY <1>1 DEF Sweeping, Chosen
<1>4. gc' = "dirs" => doomed' \cap rows'["tasks"] = {}
  BY <1>1 DEF Sweeping
<1> QED
  BY <1>1, <1>2, <1>3, <1>4 DEF Sweeping, R!Tables, R!Null

(* Every step of the tasks and of a sweep keeps the tables together.       *)
LEMMA SweepingStep ==
  ASSUME Sweeping, R!Next
  PROVE  Sweeping'
BY DayKeeps, TaskKeeps, SelectKeeps, StatementKeeps, CommitKeeps, CutKeeps DEF R!Next

(* A task whose tables agree is whole or gone.                             *)
LEMMA SweepingTidy == Sweeping => R!TypeOK /\ R!WholeOrGone
<1> SUFFICES ASSUME Sweeping PROVE R!WholeOrGone
  BY DEF Sweeping
<1> SUFFICES ASSUME NEW t \in Old
             PROVE  {b \in R!Tables : t \in rows[b]} \in {{}, R!Tables}
  BY DEF R!WholeOrGone
<1>1. \A b \in R!Tables : rows[b] = rows["tasks"]
  BY DEF Sweeping
<1>2. CASE t \in rows["tasks"]
  BY <1>1, <1>2
<1>3. CASE t \notin rows["tasks"]
  BY <1>1, <1>3
<1> QED
  BY <1>2, <1>3

(* Rows go in a transaction that has chosen them, directories after them,   *)
(* and prices never.                                                       *)
LEMMA OldOnly ==
  ASSUME Sweeping, R!Next
  PROVE  /\ costs \subseteq costs'
         /\ \A t \in rows["tasks"] \ rows'["tasks"] : status[t] = "finished" /\ ended[t] + Days < day
         /\ (dirs \ dirs') \cap rows["tasks"] = {}
<1>1. "tasks" \in R!Tables
  BY DEF R!Tables
<1>2. CASE R!Commit
  <2>1. rows' = [b \in R!Tables |-> rows["tasks"] \ doomed] /\ UNCHANGED <<costs, dirs>> /\ gc = "sweep"
    BY <1>2, AllSwept DEF R!Commit
  <2>2. rows["tasks"] \ rows'["tasks"] \subseteq doomed
    BY <1>1, <2>1
  <2> QED
    BY <2>1, <2>2 DEF Sweeping, Chosen
<1>3. CASE \E t \in Old : R!RemoveDir(t)
  BY <1>3 DEF R!RemoveDir, Sweeping
<1>4. CASE \E t \in Old, b \in BOOLEAN : R!Create(t, b) \/ R!Finish(t, b)
  <2>1. costs \subseteq costs' /\ dirs \subseteq dirs' /\ rows["tasks"] \subseteq rows'["tasks"]
    BY <1>1, <1>4 DEF R!Create, R!Finish
  <2> QED
    BY <2>1
<1>5. CASE R!NextDay \/ R!Select \/ R!Statement \/ R!GcEnds \/ R!GcDies
  BY <1>5 DEF R!NextDay, R!Select, R!Statement, R!GcEnds, R!GcDies
<1> QED
  BY <1>2, <1>3, <1>4, <1>5 DEF R!Next

-----------------------------------------------------------------------------
(* Install.                                                                *)

(* What is there is told apart by what it is.                              *)
LEMMA Kinds ==
  /\ I!Absent.is = "absent" /\ I!Foreign.is = "foreign" /\ I!Quiet.is = "nothing"
  /\ \A b : I!Ours(b).is = "link" /\ I!Stable(b).is = "plist" /\ I!Stable(b).node = "alias"
  /\ \A b, n : I!Versioned(b, n).is = "plist" /\ I!Versioned(b, n).node = n
  /\ \A b, what : I!Said(what, b) => answer'.is = what /\ answer'.of = b
BY DEF I!Absent, I!Foreign, I!Quiet, I!Ours, I!Stable, I!Versioned, I!Said

(* What `install-cli` says it has linked is what it has linked.            *)
LEMMA CliKeeps ==
  ASSUME Placed, NEW b \in Builds, NEW d \in BOOLEAN, NEW f \in BOOLEAN, I!InstallCli(b, d, f)
  PROVE  Placed'
<1>1. UNCHANGED <<plist, installed, alias, node>>
  BY DEF I!InstallCli
<1>2. answer'.is \in {"linked", "relinked", "current"} => link' = I!Ours(answer'.of) /\ answer'.of \in runnable'
  BY Kinds DEF I!InstallCli
<1> QED
  BY <1>1, <1>2 DEF Placed, I!Startable

(* The plist gets the stable path when there is one.                       *)
LEMMA ServiceKeeps ==
  ASSUME Placed, NEW b \in Builds, NEW d \in BOOLEAN, NEW f \in BOOLEAN, I!InstallService(b, d, f)
  PROVE  Placed'
<1>1. UNCHANGED <<link, runnable, installed, alias, node>> /\ plist' \in {plist, I!Rendered(b)}
  BY DEF I!InstallService
<1>2. answer'.is \notin {"linked", "relinked", "current"}
  BY Kinds DEF I!InstallService
<1>3. I!Rendered(b).node = "alias" \/ alias = "none"
  BY Kinds DEF I!Rendered, Placed
<1> QED
  BY <1>1, <1>2, <1>3 DEF Placed, I!Startable

(* The rest of the machine breaks no word given before.                    *)
LEMMA MachineKeeps ==
  ASSUME Placed, \/ \E b \in Builds : I!UninstallCli(b) \/ I!Rebuild(b)
                 \/ \E n \in Nodes : I!Upgrade(n)
                 \/ I!UninstallService \/ I!UserPuts
  PROVE  Placed'
<1>1. answer'.is = "nothing"
  BY Kinds DEF I!UninstallCli, I!Rebuild, I!Upgrade, I!UninstallService, I!UserPuts
<1>2. plist' = plist \/ plist'.is # "plist"
  BY Kinds DEF I!UninstallCli, I!Rebuild, I!Upgrade, I!UninstallService, I!UserPuts
<1>3. node' \in installed' /\ alias' \in {node', "none"} /\ (alias = "none" => alias' = "none")
  BY DEF Placed, I!UninstallCli, I!Rebuild, I!Upgrade, I!UninstallService, I!UserPuts
<1> QED
  BY <1>1, <1>2, <1>3 DEF Placed, I!Startable

(* Every step of the machine keeps what the commands said of it.           *)
LEMMA PlacedStep ==
  ASSUME Placed, I!Next
  PROVE  Placed'
BY CliKeeps, ServiceKeeps, MachineKeeps DEF I!Next

(* What a person put there goes by --force, or by `uninstall-service`.     *)
LEMMA HandsKeptOff ==
  ASSUME I!Next
  PROVE  /\ link = I!Foreign /\ link' # link => answer'.is = "relinked"
         /\ plist = I!Foreign /\ plist' # plist => answer'.is \in {"replaced", "nothing"}
<1>1. /\ I!Foreign # I!Absent /\ \A b : I!Foreign # I!Ours(b)
  BY Kinds
<1>2. CASE \E b \in Builds, d, f \in BOOLEAN : I!InstallCli(b, d, f) \/ I!InstallService(b, d, f)
  BY <1>1, <1>2, Kinds DEF I!InstallCli, I!InstallService
<1>3. CASE \E b \in Builds : I!UninstallCli(b) \/ I!Rebuild(b)
  BY <1>1, <1>3, Kinds DEF I!UninstallCli, I!Rebuild
<1>4. CASE (\E n \in Nodes : I!Upgrade(n)) \/ I!UninstallService \/ I!UserPuts
  BY <1>1, <1>4, Kinds DEF I!Upgrade, I!UninstallService, I!UserPuts
<1> QED
  BY <1>2, <1>3, <1>4 DEF I!Next

-----------------------------------------------------------------------------
(* The whole.                                                              *)
IInv == Claims /\ Sweeping /\ Placed

(* The claims are about the variables of the service alone.                *)
LEMMA ClaimsRest ==
  ASSUME Claims, UNCHANGED service
  PROVE  Claims'
BY DEF Claims, service, S!TypeOK, S!NoBootKilled

(* The sweep's invariant is about the variables of the database alone.     *)
LEMMA SweepingRests ==
  ASSUME Sweeping, UNCHANGED retention
  PROVE  Sweeping'
<1>1. UNCHANGED <<day, status, created, finished, updated, rows, costs, dirs, gc, doomed, draft, left, ended>>
  BY DEF retention
<1> QED
  BY <1>1 DEF Sweeping, Swept, Chosen, R!TypeOK, R!Tables, R!Null

(* What the commands said is about the variables of the machine alone.     *)
LEMMA PlacedRests ==
  ASSUME Placed, UNCHANGED install
  PROVE  Placed'
<1>1. UNCHANGED <<link, runnable, plist, installed, alias, node, answer>>
  BY DEF install
<1> QED
  BY <1>1 DEF Placed, I!Startable, I!Ours

(* At the start nothing runs, nothing is stored and nothing is installed.  *)
LEMMA Begins == Init => IInv
<1> SUFFICES ASSUME Init PROVE IInv
  OBVIOUS
<1>1. Claims
  <2>1. S!Init
    BY DEF Init
  <2>2. MaxPolls \in Nat
    BY PartsAssumption DEF S!ServiceAssumption
  <2> QED
    BY <2>1, <2>2, Numbers DEF Claims, S!Init, S!TypeOK, S!NoBootKilled
<1>2. Sweeping
  <2>1. R!Init /\ MaxDay \in Nat \ {0} /\ R!Null = -1
    BY PartsAssumption DEF Init, R!RetentionAssumption, R!Null
  <2>2. R!TypeOK
    BY <2>1 DEF R!Init, R!TypeOK, R!Tables
  <2>3. /\ finished \in [Old -> Int] /\ updated \in [Old -> Int] /\ ended \in [Old -> Int]
        /\ \A t \in Old : status[t] # "finished" /\ finished[t] = R!Null
    BY <2>1 DEF R!Init
  <2>4. /\ \A b \in R!Tables : rows[b] = rows["tasks"] /\ rows["tasks"] = {}
    BY <2>1 DEF R!Init, R!Tables
  <2>5. gc = "off"
    BY <2>1 DEF R!Init
  <2> QED
    BY <2>2, <2>3, <2>4, <2>5 DEF Sweeping, R!Tables
<1>3. Placed
  <2>1. I!Init
    BY DEF Init
  <2> QED
    BY <2>1, Kinds DEF I!Init, Placed, I!Startable
<1> QED
  BY <1>1, <1>2, <1>3 DEF IInv

(* A step is of one part, and the others rest.                             *)
LEMMA Keeps == IInv /\ [Next]_vars => IInv'
<1> SUFFICES ASSUME IInv, [Next]_vars PROVE IInv'
  OBVIOUS
<1>1. CASE S!Next /\ UNCHANGED <<retention, install>>
  BY <1>1, ClaimsStep, SweepingRests, PlacedRests DEF IInv
<1>2. CASE R!Next /\ UNCHANGED <<service, install>>
  BY <1>2, ClaimsRest, SweepingStep, PlacedRests DEF IInv
<1>3. CASE I!Next /\ UNCHANGED <<service, retention>>
  BY <1>3, ClaimsRest, SweepingRests, PlacedStep DEF IInv
<1>4. CASE UNCHANGED vars
  BY <1>4, ClaimsRest, SweepingRests, PlacedRests DEF IInv, vars
<1> QED
  BY <1>1, <1>2, <1>3, <1>4 DEF Next, Serves

(* The three invariants hold always.                                       *)
THEOREM Invariance == Spec => []IInv
BY Begins, Keeps, PTL DEF Spec

(* A step that changes a part is a step of that part.                      *)
LEMMA Whose ==
  ASSUME [Next]_vars
  PROVE  /\ S!Next \/ UNCHANGED service
         /\ R!Next \/ UNCHANGED retention
         /\ I!Next \/ UNCHANGED install
BY DEF Next, Serves, vars

(* ServiceKeepsRules: `stop` never kills a boot half way (daemon.ts:445), a *)
(* process that exits with 0 cut off no client that was attached to a task, *)
(* waited for a completion or pressed the button (daemon.ts:362), a daemon  *)
(* that serves can be found by its claim, and launchd leaves alone what     *)
(* ended well (launchd.ts:94), for any number of processes, stops and       *)
(* crashes.                                                                *)
THEOREM RulesKept == Spec => ServiceKeepsRules
<1>1. IInv => S!TypeOK /\ S!NoBootKilled
  BY DEF IInv, Claims
<1>2. IInv /\ [Next]_vars => [\A p \in S!Pids : code[p] = S!Alive /\ code'[p] = 0
          => p \notin open' \union relaying /\ \A t \in audience : driver[t] # p]_(S!vars)
  <2> SUFFICES ASSUME IInv, [Next]_vars, ~UNCHANGED S!vars, NEW p \in S!Pids, code[p] = S!Alive, code'[p] = 0
               PROVE  p \notin open' \union relaying /\ \A t \in audience : driver[t] # p
    OBVIOUS
  <2>1. S!Next
    BY Whose DEF service, S!vars, S!procs, S!shared, S!tasks, S!launchd, S!command
  <2>2. S!DrainEnds(p)
    BY <2>1, CleanExit DEF IInv
  <2> QED
    BY <2>2 DEF S!DrainEnds, S!Answered
<1>3. IInv /\ [Next]_vars => [LET p == pidfile IN
          p # S!None /\ pidfile' # p /\ pc[p] = "serving"
          => pc'[p] = "draining" \/ (stopping \in {"probe", "poll"} /\ stopping' = "no")]_(S!vars)
  <2> SUFFICES ASSUME IInv, [Next]_vars, ~UNCHANGED S!vars,
                      pidfile # S!None, pidfile' # pidfile, pc[pidfile] = "serving"
               PROVE  pc'[pidfile] = "draining" \/ (stopping \in {"probe", "poll"} /\ stopping' = "no")
    OBVIOUS
  <2>1. S!Next
    BY Whose DEF service, S!vars, S!procs, S!shared, S!tasks, S!launchd, S!command
  <2> QED
    BY <2>1, ClaimGoes DEF IInv
<1>4. IInv /\ [Next]_vars => [job' # job /\ job # S!None => code[job] \notin {S!Alive, 0}]_(S!vars)
  <2> SUFFICES ASSUME IInv, [Next]_vars, ~UNCHANGED S!vars, job' # job, job # S!None
               PROVE  code[job] \notin {S!Alive, 0}
    OBVIOUS
  <2>1. S!Next
    BY Whose DEF service, S!vars, S!procs, S!shared, S!tasks, S!launchd, S!command
  <2> QED
    BY <2>1, JobWanted
<1> QED
  BY <1>1, <1>2, <1>3, <1>4, Invariance, PTL
     DEF Spec, ServiceKeepsRules, S!ExitAfterDrain, S!ClaimKept, S!StaysStopped

(* SweepsWhatIsOld: wherever `rewter gc` is cut off a task is in every      *)
(* table or in none (gc.ts:28), and only what has been over for long enough *)
(* is collected, for any tasks, days and number of sweeps.                 *)
THEOREM OldIsSwept == Spec => SweepsWhatIsOld
<1>1. IInv => R!TypeOK /\ R!WholeOrGone
  BY SweepingTidy DEF IInv
<1>2. IInv /\ [Next]_vars =>
        [/\ costs \subseteq costs'
         /\ \A t \in rows["tasks"] \ rows'["tasks"] : status[t] = "finished" /\ ended[t] + Days < day
         /\ (dirs \ dirs') \cap rows["tasks"] = {}]_(R!vars)
  <2> SUFFICES ASSUME IInv, [Next]_vars, ~UNCHANGED R!vars
               PROVE  /\ costs \subseteq costs'
                      /\ \A t \in rows["tasks"] \ rows'["tasks"] : status[t] = "finished" /\ ended[t] + Days < day
                      /\ (dirs \ dirs') \cap rows["tasks"] = {}
    OBVIOUS
  <2>1. R!Next
    BY Whose DEF retention, R!vars, R!tasksOf, R!sweep
  <2> QED
    BY <2>1, OldOnly DEF IInv
<1> QED
  BY <1>1, <1>2, Invariance, PTL DEF Spec, SweepsWhatIsOld, R!OnlyOldCollected

(* InstallsWhatStarts: what the install commands call linked or current     *)
(* starts, also after upgrades (launchd.ts:151), and what a person put      *)
(* there is not written over unasked (linkcli.ts:158), for any builds and   *)
(* versions of node.                                                       *)
THEOREM WhatIsInstalledStarts == Spec => InstallsWhatStarts
<1>1. IInv => I!Startable
  BY DEF IInv, Placed
<1>2. IInv /\ [Next]_vars =>
        [/\ link = I!Foreign /\ link' # link => answer'.is = "relinked"
         /\ plist = I!Foreign /\ plist' # plist => answer'.is \in {"replaced", "nothing"}]_(I!vars)
  <2> SUFFICES ASSUME IInv, [Next]_vars, ~UNCHANGED I!vars
               PROVE  /\ link = I!Foreign /\ link' # link => answer'.is = "relinked"
                      /\ plist = I!Foreign /\ plist' # plist => answer'.is \in {"replaced", "nothing"}
    OBVIOUS
  <2>1. I!Next
    BY Whose DEF install, I!vars
  <2> QED
    BY <2>1, HandsKeptOff
<1> QED
  BY <1>1, <1>2, Invariance, PTL DEF Spec, InstallsWhatStarts, I!HandsOff
=============================================================================
