------------------------ MODULE OrchestrationProofs ------------------------
(***************************************************************************)
(* Proofs about Orchestration for every set of work items, concurrency and  *)
(* bound.  One inductive invariant, IInv, is the conjunction of the parts   *)
(* below; each part has a lemma that every step preserves it, and the       *)
(* theorems at the end read the properties off IInv.                        *)
(***************************************************************************)
EXTENDS Orchestration, FiniteSetTheorems, SequenceTheorems, TLAPS

Results == {"succeeded", "failed", "cancelled"}
Allowed == {"approved", "auto_approved"}
Looping == {"turn", "calling", "tools", "waiting", "ending"}

(* TypeOK, except that the limiter's count is only known to be an integer:  *)
(* that it never goes below zero is a consequence of what it counts.        *)
Shape ==
  /\ task \in TaskStatus \cup {"none"}
  /\ item \in [Items -> WorkItemStatus \cup {"none"}]
  /\ run \in [Items -> WorkerRunStatus \cup {"none"}]
  /\ approval \in [Requests -> ApprovalStatus \cup {"none"}]
  /\ effects \subseteq Requests
  /\ phase \in {"down", "sweep", "expire", "up"}
  /\ crashes \in Nat
  /\ session \in BOOLEAN /\ aborted \in BOOLEAN /\ threw \in BOOLEAN
  /\ gate \in {"none", "open", "cancelled"}
  /\ drive \in DriveStates
  /\ outcome \in {"none", "answer", "failure"}
  /\ turn \in Nat /\ nudged \in BOOLEAN /\ handoffs \in Nat /\ calls \in Nat
  /\ awaiting \in [labels : SUBSET Items, mode : {"all", "any"}]
  /\ worker \in [Items -> WorkerStates]
  /\ wabort \in [Items -> BOOLEAN]
  /\ asked \in [Items -> 0..MaxAsks]
  /\ verdict \in [Items -> {"none", "ok", "denied"}]
  /\ queue \in Seq(Items)
  /\ active \in Int

(* A worker's place fixes the status of the two rows it owns.               *)
PlaceOf(i) ==
  /\ item[i] = "none" => run[i] = "none" /\ worker[i] = "none"
  /\ worker[i] \in {"queued", "admitted"} => item[i] = "pending" /\ run[i] = "none"
  /\ worker[i] \notin {"none", "queued", "admitted", "settled"} => item[i] = "running"
  /\ worker[i] = "fresh" => run[i] = "created"
  /\ worker[i] = "streaming" => run[i] = "streaming"
  /\ worker[i] \in {"parked", "answered"} =>
       i \in Gated /\ run[i] = (IF i \in Tier3 THEN "created" ELSE "streaming")
  /\ worker[i] = "returned" => run[i] \in Results
Places == \A i \in Items : PlaceOf(i)

(* The requests of an item: none before it exists, none beyond the last its *)
(* worker asked for, a pending one under a parked worker, an allowed one    *)
(* under a worker that heard yes.                                           *)
AskOf(i) ==
  /\ item[i] = "none" => \A k \in 1..MaxAsks : approval[<<i, k>>] = "none"
  /\ worker[i] # "none" => \A k \in 1..MaxAsks : k > asked[i] => approval[<<i, k>>] = "none"
  /\ worker[i] = "parked" =>
       asked[i] \in 1..MaxAsks /\ approval[<<i, asked[i]>>] = "pending"
  /\ worker[i] = "answered" /\ verdict[i] = "ok" =>
       asked[i] \in 1..MaxAsks /\ approval[<<i, asked[i]>>] \in Allowed
Asks == \A i \in Items : AskOf(i)

(* The place of the driver fixes what the task, the session and the process *)
(* may look like.                                                           *)
Driving ==
  /\ drive = "none" => /\ ~session /\ ~aborted /\ gate = "none"
                       /\ queue = <<>> /\ active = 0
                       /\ \A i \in Items : worker[i] = "none"
  /\ drive # "none" => phase = "up"
  /\ drive = "started" => /\ task = "pending" /\ session /\ ~aborted
                          /\ \A i \in Items : worker[i] = "none"
  /\ drive \in Looping => /\ task \in {"running", "cancelled"}
                          /\ session => task = "running"
                          /\ aborted \/ session
  /\ drive \in {"settled", "done"} => task \in Results
  /\ drive \in {"settled", "done"} => \A i \in Unsettled : wabort[i]
  /\ drive = "done" => ~session
  /\ phase = "sweep" => Open(TaskTransitions, task)
  /\ task = "none" => drive = "none" /\ \A i \in Items : item[i] = "none"

(* Who is told: an open gate belongs to a live session, an abort reached    *)
(* everyone, a parked worker's gate is open.                                *)
Told ==
  /\ gate = "open" => session
  /\ aborted => ~session
  /\ aborted => \A i \in Unsettled : wabort[i]
  /\ \A i \in Items : worker[i] = "parked" => gate = "open"

(* The limiter's queue lists the queued workers, each once.                 *)
QueueOf(q, w) ==
  /\ \A n \in 1..Len(q) : w[q[n]] = "queued"
  /\ \A m, n \in 1..Len(q) : q[m] = q[n] => m = n
  /\ \A i \in Items : w[i] = "queued" => \E n \in 1..Len(q) : q[n] = i
SlotsOf(w) == {i \in Items : w[i] \notin {"none", "queued", "settled"}}
Slots ==
  /\ QueueOf(queue, worker)
  /\ active = Cardinality(SlotsOf(worker))
  /\ active <= Concurrency
  /\ queue # <<>> => active = Concurrency

IInv == /\ Shape /\ Places /\ Asks /\ Driving /\ Told /\ Slots
        /\ PendingIsParked /\ EffectsApproved /\ InterruptedTreeClosed

-----------------------------------------------------------------------------
(* The initial state satisfies every part.                                  *)
LEMMA InitIInv == Init => IInv
<1> SUFFICES ASSUME Init PROVE IInv OBVIOUS
<1> USE ItemsAssumption, BoundsAssumption
<1>1. Shape
  <2>1. task \in TaskStatus \cup {"none"} /\ effects \subseteq Requests
    BY DEF Init
  <2>2. /\ item \in [Items -> WorkItemStatus \cup {"none"}]
        /\ run \in [Items -> WorkerRunStatus \cup {"none"}]
        /\ approval \in [Requests -> ApprovalStatus \cup {"none"}]
    BY DEF Init
  <2>3. /\ session \in BOOLEAN /\ aborted \in BOOLEAN /\ threw \in BOOLEAN
        /\ nudged \in BOOLEAN /\ wabort \in [Items -> BOOLEAN]
    BY DEF Init
  <2>4. /\ gate \in {"none", "open", "cancelled"} /\ drive \in DriveStates
        /\ outcome \in {"none", "answer", "failure"}
        /\ phase \in {"down", "sweep", "expire", "up"}
    BY DEF Init, DriveStates
  <2>5. /\ crashes \in Nat /\ turn \in Nat /\ handoffs \in Nat /\ calls \in Nat
        /\ active \in Int /\ asked \in [Items -> 0..MaxAsks]
    BY DEF Init
  <2>6. /\ awaiting \in [labels : SUBSET Items, mode : {"all", "any"}]
        /\ queue \in Seq(Items)
    BY DEF Init, NoWait
  <2>7. /\ worker \in [Items -> WorkerStates]
        /\ verdict \in [Items -> {"none", "ok", "denied"}]
    BY DEF Init, WorkerStates
  <2> QED BY <2>1, <2>2, <2>3, <2>4, <2>5, <2>6, <2>7 DEF Shape
<1>2. Places /\ Asks
  BY DEF Init, Places, PlaceOf, Asks, AskOf, Requests
<1>3. Driving /\ Told
  BY DEF Init, Driving, Told, Looping, Unsettled
<1>4. Slots
  <2>1. SlotsOf(worker) = {} BY DEF Init, SlotsOf
  <2>2. QueueOf(queue, worker) BY DEF Init, QueueOf
  <2>3. Cardinality(SlotsOf(worker)) = 0 BY <2>1, FS_EmptySet
  <2> QED BY <2>2, <2>3 DEF Init, Slots
<1>5. PendingIsParked /\ EffectsApproved /\ InterruptedTreeClosed
  BY DEF Init, PendingIsParked, EffectsApproved, InterruptedTreeClosed
<1> QED BY <1>1, <1>2, <1>3, <1>4, <1>5 DEF IInv

-----------------------------------------------------------------------------
(* The limiter's queue and slots.                                           *)

(* Dispatch gives the next slots, queue and workers their types.            *)
LEMMA DispatchType ==
  ASSUME NEW q \in Seq(Items), NEW n \in Int, NEW w \in [Items -> WorkerStates],
         Dispatch(q, n, w)
  PROVE  /\ queue' \in Seq(Items) /\ active' \in Int
         /\ worker' \in [Items -> WorkerStates]
<1>1. CASE n < Concurrency /\ q # <<>>
  <2>1. Tail(q) \in Seq(Items) /\ Head(q) \in Items BY <1>1, HeadTailProperties
  <2>2. queue' = Tail(q) /\ active' = n + 1 /\ worker' = [w EXCEPT ![Head(q)] = "admitted"]
    BY <1>1 DEF Dispatch
  <2> QED BY <2>1, <2>2 DEF WorkerStates
<1>2. CASE ~(n < Concurrency /\ q # <<>>)
  BY <1>2 DEF Dispatch
<1> QED BY <1>1, <1>2

-----------------------------------------------------------------------------
(* The steps of Next, those of the turn loop that touch nothing but the     *)
(* driver's locals taken together.                                          *)
Loop == /\ UNCHANGED Undriven
        /\ \/ drive' = drive
           \/ drive \in Looping /\ drive' \in Looping

HttpCancelRow ==
  /\ Quiet /\ ~session /\ task # "none" /\ Open(TaskTransitions, task)
  /\ task' = "cancelled"
  /\ UNCHANGED <<item, run, approval, effects, phase, crashes, memory>>

AbortStep ==
  /\ Quiet /\ Abort
  /\ \/ session
     \/ drive \in {"calling", "waiting"} /\ ~aborted

(* Every step is one of the actions named here, or leaves all as it is.     *)
LEMMA StepCases ==
  ASSUME [Next]_vars
  PROVE  \/ Loop \/ Start \/ Pull \/ Settle \/ Close \/ AbortStep \/ HttpCancelRow
         \/ Crash \/ Boot \/ SweepTask \/ Listen
         \/ \E i \in Items : \/ Spawn(i) \/ SpawnThrows(i) \/ CancelWorker(i)
                             \/ StartItem(i) \/ BeginRun(i) \/ Ask(i) \/ Resume(i)
                             \/ Return(i) \/ SettleItem(i)
                             \/ SweepRun(i) \/ SweepItem(i)
         \/ \E x \in Requests : \/ \E approved \in BOOLEAN : Resolve(x, approved)
                                \/ SweepApproval(x)
<1>1. UNCHANGED vars => Loop
  <2> SUFFICES ASSUME UNCHANGED vars PROVE Loop OBVIOUS
  <2>1. UNCHANGED <<rows, effects, phase, crashes, memory>> BY DEF vars
  <2>2. UNCHANGED <<session, aborted, gate, driver, pool, asked, verdict>>
    BY <2>1 DEF memory
  <2>3. UNCHANGED <<drive, threw>> BY <2>2 DEF driver
  <2> QED BY <2>1, <2>2, <2>3 DEF Loop, Undriven
<1>2. TopOfTurn \/ Reply \/ OtherCall => Loop
  BY DEF TopOfTurn, Reply, OtherCall, Loop, Looping
<1>3. WaitDone \/ Handoff \/ Finish \/ EndOfCalls => Loop
  BY DEF WaitDone, Handoff, Finish, EndOfCalls, Loop, Looping
<1>4. \A labels \in SUBSET Items, mode \in {"all", "any"} :
        WaitCall(labels, mode) => Loop
  BY DEF WaitCall, Loop, Looping
<1>5. HttpCancel => AbortStep \/ HttpCancelRow
  <2> SUFFICES ASSUME HttpCancel, ~AbortStep PROVE HttpCancelRow OBVIOUS
  <2>1. ~(session /\ Abort) BY DEF AbortStep, HttpCancel
  <2> QED BY <2>1 DEF HttpCancel, HttpCancelRow
<1>6. GraceExpires => AbortStep BY DEF GraceExpires, AbortStep
<1> QED
  BY <1>1, <1>2, <1>3, <1>4, <1>5, <1>6
  DEF Next, DriveStep, UserStep, BootStep, Continuation

-----------------------------------------------------------------------------
(* Types.                                                                   *)
LEMMA ShapeStep == Shape /\ Places /\ Asks /\ [Next]_vars => Shape'
<1> SUFFICES ASSUME Shape, Places, Asks, [Next]_vars PROVE Shape'
  OBVIOUS
<1> USE ItemsAssumption, BoundsAssumption DEF Shape, Undriven, Detached, rows, driver, pool, memory
<1>1. CASE UNCHANGED vars BY <1>1 DEF vars
<1>2. CASE Start BY <1>2 DEF Start, TaskStatus, DriveStates
<1>3. CASE Pull BY <1>3 DEF Pull, TaskStatus, DriveStates
<1>4. CASE TopOfTurn BY <1>4 DEF TopOfTurn, DriveStates
<1>5. CASE Reply
  <2>1. drive' \in DriveStates /\ outcome' \in {"none", "answer", "failure"}
    BY <1>5 DEF Reply, DriveStates
  <2>2. nudged' \in BOOLEAN BY <1>5 DEF Reply
  <2>3. calls' \in Nat BY <1>5 DEF Reply
  <2>4. UNCHANGED <<Undriven, turn, handoffs, awaiting>> BY <1>5 DEF Reply
  <2> QED BY <2>1, <2>2, <2>3, <2>4
<1>6. CASE OtherCall BY <1>6 DEF OtherCall
<1>7. ASSUME NEW i \in Items, Spawn(i) PROVE Shape'
  <2>1. Append(queue, i) \in Seq(Items) BY AppendProperties
  <2>2. [worker EXCEPT ![i] = "queued"] \in [Items -> WorkerStates] BY DEF WorkerStates
  <2>3. /\ queue' \in Seq(Items) /\ active' \in Int
        /\ worker' \in [Items -> WorkerStates]
    BY <1>7, <2>1, <2>2, DispatchType DEF Spawn
  <2>4. item' \in [Items -> WorkItemStatus \cup {"none"}]
    BY <1>7 DEF Spawn, WorkItemStatus, TaskStatus
  <2>5. wabort' \in [Items -> BOOLEAN] BY <1>7 DEF Spawn
  <2>6. calls' \in Nat /\ gate' \in {"none", "open", "cancelled"} BY <1>7 DEF Spawn
  <2>7. UNCHANGED <<task, run, approval, effects, phase, crashes, session, aborted,
                 drive, outcome, turn, nudged, handoffs, awaiting, threw, asked,
                 verdict>> BY <1>7 DEF Spawn
  <2> QED BY <2>3, <2>4, <2>5, <2>6, <2>7
<1>8. ASSUME NEW i \in Items, SpawnThrows(i) PROVE Shape'
  BY <1>8 DEF SpawnThrows, WorkItemStatus, TaskStatus, DriveStates
<1>9. ASSUME NEW labels \in SUBSET Items, NEW mode \in {"all", "any"},
             WaitCall(labels, mode) PROVE Shape'
  BY <1>9 DEF WaitCall, DriveStates
<1>10. CASE WaitDone BY <1>10 DEF WaitDone, DriveStates, NoWait
<1>11. ASSUME NEW i \in Items, CancelWorker(i) PROVE Shape'
  BY <1>11 DEF CancelWorker
<1>12. CASE Handoff
  <2>1. handoffs' \in Nat BY <1>12 DEF Handoff
  <2>2. nudged' \in BOOLEAN BY <1>12 DEF Handoff
  <2>3. drive' \in DriveStates BY <1>12 DEF Handoff, DriveStates
  <2>4. calls' \in Nat BY <1>12 DEF Handoff
  <2>5. UNCHANGED <<Undriven, outcome, turn, awaiting>> BY <1>12 DEF Handoff
  <2> QED BY <2>1, <2>2, <2>3, <2>4, <2>5
<1>13. CASE Finish BY <1>13 DEF Finish, DriveStates
<1>14. CASE EndOfCalls BY <1>14 DEF EndOfCalls, DriveStates
<1>15. CASE Settle
  <2>1. task' \in TaskStatus \cup {"none"}
    BY <1>15 DEF Settle, TerminalStatus, TaskStatus
  <2>2. drive' \in DriveStates BY <1>15 DEF Settle, DriveStates
  <2>3. threw' \in BOOLEAN BY <1>15 DEF Settle
  <2>4. wabort' \in [Items -> BOOLEAN] BY <1>15 DEF Settle, CancelledWorkers
  <2>5. UNCHANGED <<item, run, approval, effects, phase, crashes, session, aborted,
                 gate, outcome, turn, nudged, handoffs, calls, awaiting, worker,
                 queue, active, asked, verdict>>
    BY <1>15 DEF Settle
  <2> QED BY <2>1, <2>2, <2>3, <2>4, <2>5
<1>16. CASE Close BY <1>16 DEF Close, Dispose, CancelGate, CancelledWorkers, DriveStates, ApprovalStatus, WorkerStates
<1>17. ASSUME NEW i \in Items, StartItem(i) PROVE Shape'
  BY <1>17 DEF StartItem, WorkItemStatus, TaskStatus, WorkerRunStatus, WorkerStates
<1>18. ASSUME NEW i \in Items, Require(i)
       PROVE  /\ approval' \in [Requests -> ApprovalStatus \cup {"none"}]
              /\ asked' \in [Items -> 0..MaxAsks]
              /\ worker' \in [Items -> WorkerStates]
              /\ verdict' \in [Items -> {"none", "ok", "denied"}]
  <2>1. CASE Refused(i) BY <2>1 DEF Refused, WorkerStates
  <2>2. ASSUME AutoApproved(i) \/ Parks(i)
        PROVE  /\ approval' \in [Requests -> ApprovalStatus \cup {"none"}]
               /\ asked' \in [Items -> 0..MaxAsks]
               /\ worker' \in [Items -> WorkerStates]
               /\ verdict' \in [Items -> {"none", "ok", "denied"}]
    <3>1. asked[i] + 1 \in 1..MaxAsks BY <2>2 DEF AutoApproved, Parks
    <3>2. asked' = [asked EXCEPT ![i] = asked[i] + 1]
      BY <2>2 DEF AutoApproved, Parks
    <3>3. asked' \in [Items -> 0..MaxAsks] BY <3>1, <3>2
    <3>4. \E s \in ApprovalStatus : approval' = [approval EXCEPT ![<<i, asked[i] + 1>>] = s]
      BY <2>2 DEF AutoApproved, Parks, ApprovalStatus
    <3>5. approval' \in [Requests -> ApprovalStatus \cup {"none"}] BY <3>4
    <3>6. \E s \in WorkerStates : worker' = [worker EXCEPT ![i] = s]
      BY <2>2 DEF AutoApproved, Parks, WorkerStates
    <3>7. \E s \in {"none", "ok", "denied"} : verdict' = [verdict EXCEPT ![i] = s]
      BY <2>2 DEF AutoApproved, Parks
    <3> QED BY <3>3, <3>5, <3>6, <3>7
  <2> QED BY <1>18, <2>1, <2>2 DEF Require
<1>19. ASSUME NEW i \in Items, BeginRun(i) PROVE Shape'
  <2>1. UNCHANGED <<Detached, item, wabort, queue, active>> BY <1>19 DEF BeginRun
  <2>2. CASE wabort[i]
    <3>1. ReturnWith(i, "cancelled") /\ UNCHANGED <<approval, asked, verdict>>
      BY <1>19, <2>2 DEF BeginRun
    <3> QED BY <2>1, <3>1 DEF ReturnWith, WorkerRunStatus, WorkerStates
  <2>3. CASE ~wabort[i] /\ i \notin Tier3
    <3>1. /\ run' = [run EXCEPT ![i] = "streaming"]
          /\ worker' = [worker EXCEPT ![i] = "streaming"]
          /\ UNCHANGED <<approval, asked, verdict>>
      BY <1>19, <2>3 DEF BeginRun
    <3> QED BY <2>1, <3>1 DEF WorkerRunStatus, WorkerStates
  <2>4. CASE ~wabort[i] /\ i \in Tier3
    <3>1. Require(i) /\ UNCHANGED run BY <1>19, <2>4 DEF BeginRun
    <3> QED BY <2>1, <3>1, <1>18
  <2> QED BY <2>2, <2>3, <2>4
<1>20. ASSUME NEW i \in Items, Ask(i) PROVE Shape'
  <2>1. Require(i) /\ UNCHANGED <<Detached, item, run, wabort, queue, active>>
    BY <1>20 DEF Ask
  <2> QED BY <2>1, <1>18
<1>21. ASSUME NEW i \in Items, Resume(i) PROVE Shape'
  <2>1. run' \in [Items -> WorkerRunStatus \cup {"none"}]
    BY <1>21 DEF Resume, ReturnWith, WorkerRunStatus
  <2>2. worker' \in [Items -> WorkerStates]
    BY <1>21 DEF Resume, ReturnWith, WorkerStates
  <2>3. worker[i] = "answered" BY <1>21 DEF Resume
  <2>4. effects' \subseteq Requests
    <3>1. CASE verdict[i] = "ok"
      <4>1. <<i, asked[i]>> \in Requests BY <2>3, <3>1 DEF Asks, AskOf, Requests
      <4>2. effects' \subseteq effects \cup {<<i, asked[i]>>}
        BY <1>21 DEF Resume
      <4>3. effects \subseteq Requests OBVIOUS
      <4> HIDE DEF Shape
      <4> QED BY <4>1, <4>2, <4>3
    <3>2. CASE verdict[i] # "ok"
      <4>1. effects' = effects BY <1>21, <3>2 DEF Resume
      <4> QED BY <4>1
    <3> QED BY <3>1, <3>2
  <2>5. UNCHANGED <<task, item, approval, phase, crashes, session, aborted, gate,
                    driver, wabort, queue, active, asked, verdict>>
    BY <1>21 DEF Resume
  <2> QED BY <2>1, <2>2, <2>4, <2>5
<1>22. ASSUME NEW i \in Items, Return(i) PROVE Shape'
  <2>1. PICK status \in {"succeeded", "failed", "cancelled"} : ReturnWith(i, status)
    BY <1>22 DEF Return
  <2>2. UNCHANGED <<Detached, item, approval, wabort, queue, active, asked, verdict>>
    BY <1>22 DEF Return
  <2> QED BY <2>1, <2>2 DEF ReturnWith, WorkerRunStatus, WorkerStates
<1>23. ASSUME NEW i \in Items, SettleItem(i) PROVE Shape'
  <2>1. run[i] \in Results BY <1>23 DEF SettleItem, Places, PlaceOf
  <2>2. item' \in [Items -> WorkItemStatus \cup {"none"}]
    BY <1>23, <2>1 DEF SettleItem, Results, WorkItemStatus, TaskStatus
  <2>3. [worker EXCEPT ![i] = "settled"] \in [Items -> WorkerStates] BY DEF WorkerStates
  <2>4. /\ queue' \in Seq(Items) /\ active' \in Int
        /\ worker' \in [Items -> WorkerStates]
    <3>1. Dispatch(queue, active - 1, [worker EXCEPT ![i] = "settled"])
      BY <1>23 DEF SettleItem
    <3>2. active - 1 \in Int OBVIOUS
    <3>3. queue \in Seq(Items) OBVIOUS
    <3> QED BY <2>3, <3>1, <3>2, <3>3, DispatchType
  <2>5. UNCHANGED <<Detached, run, approval, wabort, asked, verdict>>
    BY <1>23 DEF SettleItem
  <2> QED BY <2>2, <2>4, <2>5
<1>24. ASSUME Abort PROVE Shape'
  BY <1>24 DEF Abort, Dispose, CancelGate, CancelledWorkers, ApprovalStatus, WorkerStates
<1>25. CASE HttpCancel
  <2>1. CASE session /\ Abort BY <2>1, <1>24
  <2>2. CASE ~(session /\ Abort) BY <1>25, <2>2 DEF HttpCancel, TaskStatus
  <2> QED BY <2>1, <2>2
<1>26. CASE GraceExpires BY <1>26, <1>24 DEF GraceExpires
<1>27. ASSUME NEW x \in Requests, NEW approved \in BOOLEAN, Resolve(x, approved)
       PROVE  Shape'
  <2>1. approval' \in [Requests -> ApprovalStatus \cup {"none"}]
    BY <1>27 DEF Resolve, ApprovalStatus
  <2>2. /\ worker' \in [Items -> WorkerStates]
        /\ verdict' \in [Items -> {"none", "ok", "denied"}]
    BY <1>27 DEF Resolve, WorkerStates, Requests
  <2>3. UNCHANGED <<task, item, run, effects, phase, crashes, session, aborted, gate,
                    driver, wabort, queue, active, asked>>
    BY <1>27 DEF Resolve
  <2> QED BY <2>1, <2>2, <2>3
<1>28. CASE Crash
  <2>1. UNCHANGED <<rows, effects>> /\ phase' = "down" /\ crashes' = crashes + 1
    BY <1>28 DEF Crash
  <2>2. /\ session' \in BOOLEAN /\ aborted' \in BOOLEAN /\ threw' \in BOOLEAN
        /\ nudged' \in BOOLEAN /\ wabort' \in [Items -> BOOLEAN]
    BY <1>28 DEF Crash
  <2>3. gate' = "none" /\ drive' = "none" /\ outcome' = "none" BY <1>28 DEF Crash
  <2>4. /\ turn' \in Nat /\ handoffs' \in Nat /\ calls' \in Nat
        /\ active' \in Int /\ asked' \in [Items -> 0..MaxAsks]
    BY <1>28 DEF Crash
  <2>5. /\ awaiting' \in [labels : SUBSET Items, mode : {"all", "any"}]
        /\ queue' \in Seq(Items)
    BY <1>28 DEF Crash, NoWait
  <2>6. /\ worker' \in [Items -> WorkerStates]
        /\ verdict' \in [Items -> {"none", "ok", "denied"}]
    BY <1>28 DEF Crash, WorkerStates
  <2> QED BY <2>1, <2>2, <2>3, <2>4, <2>5, <2>6 DEF DriveStates
<1>29. CASE Boot BY <1>29 DEF Boot
<1>30. ASSUME NEW i \in Items, SweepRun(i) PROVE Shape'
  BY <1>30 DEF SweepRun, WorkerRunStatus
<1>31. ASSUME NEW i \in Items, SweepItem(i) PROVE Shape'
  BY <1>31 DEF SweepItem, WorkItemStatus, TaskStatus
<1>32. CASE SweepTask BY <1>32 DEF SweepTask, TaskStatus
<1>33. ASSUME NEW x \in Requests, SweepApproval(x) PROVE Shape'
  BY <1>33 DEF SweepApproval, ApprovalStatus
<1>34. CASE Listen BY <1>34 DEF Listen
<1> HIDE DEF Shape
<1> QED
  BY <1>1, <1>2, <1>3, <1>4, <1>5, <1>6, <1>7, <1>8, <1>9, <1>10, <1>11, <1>12,
     <1>13, <1>14, <1>15, <1>16, <1>17, <1>19, <1>20, <1>21, <1>22, <1>23, <1>25,
     <1>26, <1>27, <1>28, <1>29, <1>30, <1>31, <1>32, <1>33, <1>34
  DEF Next, DriveStep, UserStep, BootStep, Continuation

-----------------------------------------------------------------------------
(* The limiter.                                                             *)

(* Dispatch keeps the queue and the slots exact when it is called with at   *)
(* most one job more, or one slot less, than an exact limiter holds.        *)
LEMMA DispatchSlots ==
  ASSUME NEW q \in Seq(Items), NEW n \in Int, NEW w \in [Items -> WorkerStates],
         QueueOf(q, w), n = Cardinality(SlotsOf(w)), n <= Concurrency,
         Len(q) > 1 => n >= Concurrency - 1,
         Dispatch(q, n, w)
  PROVE  /\ QueueOf(queue', worker')
         /\ active' = Cardinality(SlotsOf(worker'))
         /\ active' <= Concurrency
         /\ queue' # <<>> => active' = Concurrency
<1> USE ItemsAssumption, BoundsAssumption
<1>1. CASE n < Concurrency /\ q # <<>>
  <2> DEFINE h == Head(q)
  <2>1. /\ queue' = Tail(q) /\ active' = n + 1
        /\ worker' = [w EXCEPT ![h] = "admitted"]
    BY <1>1 DEF Dispatch
  <2>2. /\ Len(q) \in Nat /\ Len(q) >= 1 /\ h = q[1] /\ h \in Items
        /\ Tail(q) \in Seq(Items) /\ Len(Tail(q)) = Len(q) - 1
        /\ \A k \in 1..Len(Tail(q)) : Tail(q)[k] = q[k + 1]
        /\ \A k \in 1..Len(q) : q[k] \in Items
    BY <1>1, HeadTailProperties, EmptySeq, LenProperties, ElementOfSeq
  <2>3. w[h] = "queued" BY <2>2 DEF QueueOf
  <2>4. QueueOf(Tail(q), worker')
    <3>1. \A k \in 1..Len(Tail(q)) : worker'[Tail(q)[k]] = "queued"
      <4> TAKE k \in 1..Len(Tail(q))
      <4>1. k + 1 \in 1..Len(q) /\ Tail(q)[k] = q[k + 1] /\ 1 \in 1..Len(q) BY <2>2
      <4>2. q[k + 1] # q[1]
        <5>1. k + 1 # 1 OBVIOUS
        <5> QED BY <4>1, <5>1 DEF QueueOf
      <4>3. w[q[k + 1]] = "queued" BY <4>1 DEF QueueOf
      <4> QED BY <2>1, <2>2, <4>1, <4>2, <4>3
    <3>2. \A j, k \in 1..Len(Tail(q)) : Tail(q)[j] = Tail(q)[k] => j = k
      <4> TAKE j, k \in 1..Len(Tail(q))
      <4> HAVE Tail(q)[j] = Tail(q)[k]
      <4>1. j + 1 \in 1..Len(q) /\ k + 1 \in 1..Len(q) /\ q[j + 1] = q[k + 1] BY <2>2
      <4>2. j + 1 = k + 1 BY <4>1 DEF QueueOf
      <4> QED BY <4>2
    <3>3. ASSUME NEW i \in Items, worker'[i] = "queued"
          PROVE  \E k \in 1..Len(Tail(q)) : Tail(q)[k] = i
      <4>1. i # h /\ w[i] = "queued" BY <2>1, <2>2, <3>3
      <4>2. PICK k \in 1..Len(q) : q[k] = i BY <4>1 DEF QueueOf
      <4>3. k # 1 BY <2>2, <4>1, <4>2
      <4>4. k - 1 \in 1..Len(Tail(q)) /\ Tail(q)[k - 1] = q[k] BY <2>2, <4>3
      <4> QED BY <4>2, <4>4
    <3> QED BY <3>1, <3>2, <3>3 DEF QueueOf
  <2>5. SlotsOf(worker') = SlotsOf(w) \cup {h} BY <2>1, <2>2 DEF SlotsOf
  <2>6. IsFiniteSet(SlotsOf(w)) /\ h \notin SlotsOf(w)
    BY <2>3, FS_Subset DEF SlotsOf
  <2>7. Cardinality(SlotsOf(worker')) = n + 1 BY <2>5, <2>6, FS_AddElement
  <2>8. Tail(q) # <<>> => n + 1 = Concurrency
    <3>1. Tail(q) # <<>> => Len(Tail(q)) # 0 BY <2>2, EmptySeq
    <3> QED BY <1>1, <2>2, <3>1
  <2> QED BY <1>1, <2>1, <2>4, <2>7, <2>8
<1>2. CASE ~(n < Concurrency /\ q # <<>>)
  <2>1. queue' = q /\ active' = n /\ worker' = w BY <1>2 DEF Dispatch
  <2> QED BY <1>2, <2>1
<1> QED BY <1>1, <1>2

(* A step that moves a worker only among the places that hold a slot leaves *)
(* the limiter exact.                                                       *)
LEMMA SlotsKept ==
  ASSUME Slots, queue \in Seq(Items), UNCHANGED <<queue, active>>,
         \A i \in Items : \/ worker'[i] = worker[i]
                          \/ /\ worker[i] \notin {"none", "queued", "settled"}
                             /\ worker'[i] \notin {"none", "queued", "settled"}
  PROVE  Slots'
<1>1. SlotsOf(worker') = SlotsOf(worker) BY DEF SlotsOf
<1>2. QueueOf(queue, worker')
  <2>1. \A i \in Items : worker'[i] = "queued" <=> worker[i] = "queued" OBVIOUS
  <2>2. \A n \in 1..Len(queue) : queue[n] \in Items BY ElementOfSeq
  <2>3. QueueOf(queue, worker) BY DEF Slots
  <2> QED BY <2>1, <2>2, <2>3 DEF QueueOf
<1> QED BY <1>1, <1>2 DEF Slots

(* Every step keeps the limiter's queue and slots exact.                    *)
LEMMA SlotsStep == Shape /\ Places /\ Slots /\ [Next]_vars => Slots'
<1> SUFFICES ASSUME Shape, Places, Slots, [Next]_vars PROVE Slots'
  OBVIOUS
<1> USE ItemsAssumption, BoundsAssumption
<1>0. /\ queue \in Seq(Items) /\ active \in Int
      /\ worker \in [Items -> WorkerStates]
  BY DEF Shape
<1>1. ASSUME UNCHANGED <<worker, queue, active>> PROVE Slots'
  BY <1>1, <1>0, SlotsKept
<1>2. ASSUME NEW i \in Items, Spawn(i) PROVE Slots'
  <2> DEFINE q == Append(queue, i)
             w == [worker EXCEPT ![i] = "queued"]
  <2>1. Dispatch(q, active, w) /\ item[i] = "none" BY <1>2 DEF Spawn
  <2>2. worker[i] = "none" BY <2>1 DEF Places, PlaceOf
  <2>3. q \in Seq(Items) /\ w \in [Items -> WorkerStates]
    BY <1>0, AppendProperties DEF WorkerStates
  <2>4. /\ Len(queue) \in Nat /\ Len(q) = Len(queue) + 1 /\ q[Len(queue) + 1] = i
        /\ \A k \in 1..Len(queue) : q[k] = queue[k] /\ queue[k] \in Items
    BY <1>0, AppendProperties, LenProperties, ElementOfSeq
  <2>5. QueueOf(queue, worker) BY DEF Slots
  <2>6. \A k \in 1..Len(queue) : queue[k] # i BY <2>2, <2>5 DEF QueueOf
  <2>7. QueueOf(q, w)
    <3>1. \A k \in 1..Len(q) : w[q[k]] = "queued"
      <4> TAKE k \in 1..Len(q)
      <4>1. CASE k = Len(queue) + 1 BY <1>0, <2>4, <4>1
      <4>2. CASE k # Len(queue) + 1
        <5>1. k \in 1..Len(queue) BY <2>4, <4>2
        <5> QED BY <1>0, <2>4, <2>5, <5>1 DEF QueueOf
      <4> QED BY <4>1, <4>2
    <3>2. \A j, k \in 1..Len(q) : q[j] = q[k] => j = k
      <4> TAKE j, k \in 1..Len(q)
      <4>1. \A n \in 1..Len(q) : n # Len(queue) + 1 => n \in 1..Len(queue) BY <2>4
      <4>2. CASE j = Len(queue) + 1 \/ k = Len(queue) + 1 BY <2>4, <2>6, <4>1, <4>2
      <4>3. CASE j \in 1..Len(queue) /\ k \in 1..Len(queue)
        BY <2>4, <2>5, <4>3 DEF QueueOf
      <4> QED BY <4>1, <4>2, <4>3
    <3>3. ASSUME NEW j \in Items, w[j] = "queued" PROVE \E k \in 1..Len(q) : q[k] = j
      <4>1. CASE j = i
        <5>1. Len(queue) + 1 \in 1..Len(q) BY <2>4
        <5> QED BY <2>4, <4>1, <5>1
      <4>2. CASE j # i
        <5>1. worker[j] = "queued" BY <1>0, <3>3, <4>2
        <5>2. PICK k \in 1..Len(queue) : queue[k] = j BY <2>5, <5>1 DEF QueueOf
        <5>3. k \in 1..Len(q) /\ q[k] = j BY <2>4, <5>2
        <5> QED BY <5>3
      <4> QED BY <4>1, <4>2
    <3> QED BY <3>1, <3>2, <3>3 DEF QueueOf
  <2>8. SlotsOf(w) = SlotsOf(worker) BY <1>0, <2>2 DEF SlotsOf
  <2>9. Len(q) > 1 => active >= Concurrency - 1
    <3>1. Len(q) > 1 => queue # <<>> BY <1>0, <2>4, EmptySeq
    <3> QED BY <1>0, <3>1 DEF Slots
  <2>10. active = Cardinality(SlotsOf(w)) /\ active <= Concurrency
    BY <2>8 DEF Slots
  <2> HIDE DEF q, w
  <2> QED BY <1>0, <2>1, <2>3, <2>7, <2>9, <2>10, DispatchSlots DEF Slots
<1>3. ASSUME NEW i \in Items, SettleItem(i) PROVE Slots'
  <2> DEFINE w == [worker EXCEPT ![i] = "settled"]
  <2>1. Dispatch(queue, active - 1, w) /\ worker[i] = "returned" BY <1>3 DEF SettleItem
  <2>2. w \in [Items -> WorkerStates] /\ active - 1 \in Int BY <1>0 DEF WorkerStates
  <2>3. QueueOf(queue, w)
    <3>1. QueueOf(queue, worker) BY DEF Slots
    <3>2. \A n \in 1..Len(queue) : queue[n] \in Items BY <1>0, ElementOfSeq
    <3>3. \A j \in Items : w[j] = "queued" <=> worker[j] = "queued" BY <1>0, <2>1
    <3> HIDE DEF w
    <3> QED BY <3>1, <3>2, <3>3 DEF QueueOf
  <2>4. SlotsOf(w) = SlotsOf(worker) \ {i} /\ i \in SlotsOf(worker)
    BY <1>0, <2>1 DEF SlotsOf
  <2>5. IsFiniteSet(SlotsOf(worker)) BY FS_Subset DEF SlotsOf
  <2>6. Cardinality(SlotsOf(w)) = active - 1
    BY <2>4, <2>5, FS_RemoveElement DEF Slots
  <2>7. Len(queue) > 1 => active - 1 >= Concurrency - 1
    <3>1. Len(queue) > 1 => queue # <<>> BY <1>0, EmptySeq
    <3> QED BY <1>0, <3>1 DEF Slots
  <2>8. active - 1 <= Concurrency BY <1>0 DEF Slots
  <2> HIDE DEF w
  <2> QED BY <1>0, <2>1, <2>2, <2>3, <2>6, <2>7, <2>8, DispatchSlots DEF Slots
<1>4. ASSUME NEW i \in Items, worker[i] \notin {"none", "queued", "settled"},
             NEW s \in WorkerStates \ {"none", "queued", "settled"},
             worker' = [worker EXCEPT ![i] = s], UNCHANGED <<queue, active>>
      PROVE  Slots'
  BY <1>0, <1>4, SlotsKept
<1>5. ASSUME CancelGate, UNCHANGED <<queue, active>> PROVE Slots'
  BY <1>0, <1>5, SlotsKept DEF CancelGate, Answerable
<1>6. CASE Crash
  <2>1. queue' = <<>> /\ active' = 0 /\ worker' = [i \in Items |-> "none"]
    BY <1>6 DEF Crash
  <2>2. SlotsOf(worker') = {} BY <2>1 DEF SlotsOf
  <2>3. QueueOf(queue', worker') BY <2>1 DEF QueueOf
  <2>4. Cardinality(SlotsOf(worker')) = 0 BY <2>2, FS_EmptySet
  <2> QED BY <2>1, <2>3, <2>4 DEF Slots
<1>7. ASSUME NEW i \in Items, Require(i), UNCHANGED <<queue, active>>,
             worker[i] \in {"fresh", "streaming"}
      PROVE  Slots'
  <2>1. \E s \in {"answered", "parked"} : worker' = [worker EXCEPT ![i] = s]
    BY <1>7 DEF Require, Refused, AutoApproved, Parks
  <2> QED BY <1>7, <1>4, <2>1 DEF WorkerStates
<1>8. CASE Loop BY <1>8, <1>1 DEF Loop, Undriven, pool
<1>9. CASE Start BY <1>9, <1>1 DEF Start, pool
<1>10. CASE Pull BY <1>10, <1>1 DEF Pull, pool
<1>11. CASE Settle BY <1>11, <1>1 DEF Settle
<1>12. CASE Close BY <1>12, <1>5 DEF Close, Dispose
<1>13. CASE AbortStep BY <1>13, <1>5 DEF AbortStep, Abort, Dispose
<1>14. CASE HttpCancelRow \/ Boot \/ SweepTask \/ Listen
  BY <1>14, <1>1 DEF HttpCancelRow, Boot, SweepTask, Listen, memory, pool
<1>15. ASSUME NEW i \in Items, SpawnThrows(i) \/ CancelWorker(i) \/ SweepRun(i) \/ SweepItem(i)
       PROVE  Slots'
  BY <1>15, <1>1 DEF SpawnThrows, CancelWorker, SweepRun, SweepItem, memory, pool
<1>16. ASSUME NEW i \in Items, StartItem(i) PROVE Slots'
  BY <1>16, <1>4 DEF StartItem, WorkerStates
<1>17. ASSUME NEW i \in Items, BeginRun(i) PROVE Slots'
  <2>1. UNCHANGED <<queue, active>> /\ worker[i] = "fresh" BY <1>17 DEF BeginRun
  <2>2. \/ Require(i)
        \/ \E s \in {"returned", "streaming"} : worker' = [worker EXCEPT ![i] = s]
    BY <1>17 DEF BeginRun, ReturnWith
  <2> QED BY <1>4, <1>7, <2>1, <2>2 DEF WorkerStates
<1>18. ASSUME NEW i \in Items, Ask(i) PROVE Slots'
  BY <1>18, <1>7 DEF Ask
<1>19. ASSUME NEW i \in Items, Resume(i) PROVE Slots'
  <2>1. UNCHANGED <<queue, active>> /\ worker[i] = "answered" BY <1>19 DEF Resume
  <2>2. \E s \in {"returned", "streaming"} : worker' = [worker EXCEPT ![i] = s]
    BY <1>19 DEF Resume, ReturnWith
  <2> QED BY <1>4, <2>1, <2>2 DEF WorkerStates
<1>20. ASSUME NEW i \in Items, Return(i) PROVE Slots'
  BY <1>20, <1>4 DEF Return, ReturnWith, WorkerStates
<1>21. ASSUME NEW x \in Requests, NEW approved \in BOOLEAN, Resolve(x, approved)
       PROVE  Slots'
  <2>1. x[1] \in Items BY DEF Requests
  <2>2. CASE worker' = worker BY <1>21, <2>2, <1>1 DEF Resolve
  <2>3. CASE worker' # worker
    <3>1. worker[x[1]] = "parked" /\ worker' = [worker EXCEPT ![x[1]] = "answered"]
      BY <1>21, <2>3 DEF Resolve, ParkedOn
    <3> QED BY <1>21, <1>4, <2>1, <3>1 DEF Resolve, WorkerStates
  <2> QED BY <2>2, <2>3
<1>22. ASSUME NEW x \in Requests, SweepApproval(x) PROVE Slots'
  BY <1>22, <1>1 DEF SweepApproval, memory, pool
<1> QED
  BY <1>2, <1>3, <1>6, <1>8, <1>9, <1>10, <1>11, <1>12, <1>13, <1>14, <1>15, <1>16,
     <1>17, <1>18, <1>19, <1>20, <1>21, <1>22, StepCases

-----------------------------------------------------------------------------
(* The rows of a worker.                                                    *)

(* What a spawn and the end of a job do to the workers: the one they are    *)
(* about moves, and at most one queued job is admitted.                     *)
Admits(i, places) ==
  /\ worker'[i] \in places
  /\ \A j \in Items \ {i} :
       \/ worker'[j] = worker[j]
       \/ worker[j] = "queued" /\ worker'[j] = "admitted"

(* Dispatch admits at most the head of the queue and moves nobody else.     *)
LEMMA DispatchMoves ==
  ASSUME NEW q \in Seq(Items), NEW n \in Int, NEW w \in [Items -> WorkerStates],
         \A k \in 1..Len(q) : w[q[k]] = "queued",
         Dispatch(q, n, w), NEW j \in Items
  PROVE  worker'[j] = w[j] \/ (w[j] = "queued" /\ worker'[j] = "admitted")
<1>1. CASE q = <<>> BY <1>1 DEF Dispatch
<1>2. CASE q # <<>>
  <2>1. Head(q) = q[1] /\ 1 \in 1..Len(q)
    BY <1>2, HeadTailProperties, EmptySeq, LenProperties
  <2>2. w[Head(q)] = "queued" BY <2>1
  <2>3. worker' = w \/ worker' = [w EXCEPT ![Head(q)] = "admitted"] BY DEF Dispatch
  <2> QED BY <2>2, <2>3
<1> QED BY <1>1, <1>2

(* A spawn puts its worker in the queue or in a slot, and admits only a     *)
(* queued one.                                                              *)
LEMMA SpawnMoves ==
  ASSUME Shape, Places, Slots, NEW i \in Items, Spawn(i)
  PROVE  worker[i] = "none" /\ Admits(i, {"queued", "admitted"})
<1> DEFINE q == Append(queue, i)
           w == [worker EXCEPT ![i] = "queued"]
<1>1. worker[i] = "none" BY DEF Spawn, Places, PlaceOf
<1>2. Dispatch(q, active, w) BY DEF Spawn
<1>3. /\ q \in Seq(Items) /\ w \in [Items -> WorkerStates] /\ active \in Int
      /\ queue \in Seq(Items) /\ worker \in [Items -> WorkerStates]
  BY AppendProperties DEF Shape, WorkerStates
<1>4. \A k \in 1..Len(q) : w[q[k]] = "queued"
  <2> TAKE k \in 1..Len(q)
  <2>1. Len(queue) \in Nat /\ Len(q) = Len(queue) + 1 /\ q[Len(queue) + 1] = i
    BY <1>3, AppendProperties, LenProperties
  <2>2. CASE k = Len(queue) + 1 BY <1>3, <2>1, <2>2
  <2>3. CASE k # Len(queue) + 1
    <3>1. k \in 1..Len(queue) BY <2>1, <2>3
    <3>2. q[k] = queue[k] /\ queue[k] \in Items
      BY <1>3, <3>1, AppendProperties, ElementOfSeq
    <3>3. worker[queue[k]] = "queued" BY <3>1 DEF Slots, QueueOf
    <3> QED BY <1>3, <3>2, <3>3
  <2> QED BY <2>2, <2>3
<1>5. \A j \in Items : worker'[j] = w[j] \/ (w[j] = "queued" /\ worker'[j] = "admitted")
  <2> HIDE DEF q, w
  <2> QED BY <1>2, <1>3, <1>4, DispatchMoves
<1> QED BY <1>1, <1>3, <1>5 DEF Admits

(* The end of a job settles its worker and admits at most one queued one.   *)
LEMMA SettleMoves ==
  ASSUME Shape, Slots, NEW i \in Items, SettleItem(i)
  PROVE  Admits(i, {"settled"})
<1> DEFINE w == [worker EXCEPT ![i] = "settled"]
<1>1. worker[i] = "returned" /\ Dispatch(queue, active - 1, w) BY DEF SettleItem
<1>2. /\ w \in [Items -> WorkerStates] /\ active - 1 \in Int
      /\ queue \in Seq(Items) /\ worker \in [Items -> WorkerStates]
  BY DEF Shape, WorkerStates
<1>3. \A k \in 1..Len(queue) : w[queue[k]] = "queued"
  <2> TAKE k \in 1..Len(queue)
  <2>1. worker[queue[k]] = "queued" /\ queue[k] \in Items
    BY <1>2, ElementOfSeq DEF Slots, QueueOf
  <2> QED BY <1>1, <1>2, <2>1
<1>4. \A j \in Items : worker'[j] = w[j] \/ (w[j] = "queued" /\ worker'[j] = "admitted")
  <2> HIDE DEF w
  <2> QED BY <1>1, <1>2, <1>3, DispatchMoves
<1> QED BY <1>2, <1>4 DEF Admits

(* Every step keeps each worker's rows in agreement with its place.         *)
LEMMA PlacesStep == Shape /\ Places /\ Slots /\ Driving /\ [Next]_vars => Places'
<1> SUFFICES ASSUME Shape, Places, Slots, Driving, [Next]_vars PROVE Places'
  OBVIOUS
<1> USE ItemsAssumption
<1>0. /\ item \in [Items -> WorkItemStatus \cup {"none"}]
      /\ run \in [Items -> WorkerRunStatus \cup {"none"}]
      /\ worker \in [Items -> WorkerStates]
  BY DEF Shape
<1>1. ASSUME UNCHANGED <<item, run, worker>> PROVE Places'
  BY <1>1 DEF Places, PlaceOf
(* A step about one worker whose rows agree with its new place.            *)
<1>2. ASSUME NEW i \in Items, PlaceOf(i)',
             \A j \in Items \ {i} : /\ item'[j] = item[j] /\ run'[j] = run[j]
                                    /\ \/ worker'[j] = worker[j]
                                       \/ worker[j] = "queued" /\ worker'[j] = "admitted"
      PROVE  Places'
  <2> SUFFICES ASSUME NEW j \in Items, j # i PROVE PlaceOf(j)'
    BY <1>2 DEF Places
  <2>1. PlaceOf(j) BY DEF Places
  <2> QED BY <1>2, <2>1 DEF PlaceOf
<1>3. ASSUME CancelGate, UNCHANGED <<item, run>> PROVE Places'
  <2> SUFFICES ASSUME NEW j \in Items PROVE PlaceOf(j)'
    BY DEF Places
  <2>1. PlaceOf(j) BY DEF Places
  <2>2. \/ worker'[j] = worker[j]
        \/ worker[j] = "parked" /\ worker'[j] = "answered"
    BY <1>3 DEF CancelGate, Answerable
  <2> QED BY <1>3, <2>1, <2>2 DEF PlaceOf
<1>4. ASSUME NEW i \in Items, Require(i), UNCHANGED <<item, run>>,
             \/ worker[i] = "fresh" /\ i \in Tier3
             \/ worker[i] = "streaming" /\ i \in Tier2
      PROVE  Places'
  <2>1. \E s \in {"answered", "parked"} : worker' = [worker EXCEPT ![i] = s]
    BY <1>4 DEF Require, Refused, AutoApproved, Parks
  <2>2. PlaceOf(i) BY DEF Places
  <2>3. PlaceOf(i)' BY <1>0, <1>4, <2>1, <2>2 DEF PlaceOf, Gated
  <2> QED BY <1>0, <1>2, <1>4, <2>1, <2>3
<1>5. CASE Loop BY <1>5, <1>1 DEF Loop, Undriven, rows, pool
<1>6. CASE Start \/ Pull BY <1>6, <1>1 DEF Start, Pull, pool
<1>7. CASE Settle BY <1>7, <1>1 DEF Settle
<1>8. CASE Close BY <1>8, <1>3 DEF Close, Dispose
<1>9. CASE AbortStep BY <1>9, <1>3 DEF AbortStep, Abort, Dispose
<1>10. CASE HttpCancelRow \/ Boot \/ SweepTask \/ Listen
  BY <1>10, <1>1 DEF HttpCancelRow, Boot, SweepTask, Listen, memory, pool, rows
<1>11. CASE Crash
  <2>1. UNCHANGED <<item, run>> /\ \A j \in Items : worker'[j] = "none"
    BY <1>11 DEF Crash, rows
  <2> QED BY <2>1 DEF Places, PlaceOf
<1>12. ASSUME NEW i \in Items, Spawn(i) PROVE Places'
  <2>1. worker[i] = "none" /\ Admits(i, {"queued", "admitted"})
    BY <1>12, SpawnMoves
  <2>2. /\ item[i] = "none" /\ item' = [item EXCEPT ![i] = "pending"]
        /\ run' = run
    BY <1>12 DEF Spawn
  <2>3. PlaceOf(i) BY DEF Places
  <2>4. PlaceOf(i)' BY <1>0, <2>1, <2>2, <2>3 DEF PlaceOf, Admits
  <2> QED BY <1>0, <1>2, <2>1, <2>2, <2>4 DEF Admits
<1>13. ASSUME NEW i \in Items, SpawnThrows(i) PROVE Places'
  <2>1. /\ item[i] = "none" /\ item' = [item EXCEPT ![i] = "pending"]
        /\ UNCHANGED <<run, worker>>
    BY <1>13 DEF SpawnThrows, pool
  <2>2. PlaceOf(i) BY DEF Places
  <2>3. PlaceOf(i)' BY <1>0, <2>1, <2>2 DEF PlaceOf
  <2> QED BY <1>0, <1>2, <2>1, <2>3
<1>14. ASSUME NEW i \in Items, CancelWorker(i) PROVE Places'
  BY <1>14, <1>1 DEF CancelWorker, rows
<1>15. ASSUME NEW i \in Items, StartItem(i) PROVE Places'
  <2>1. /\ item' = [item EXCEPT ![i] = "running"] /\ run' = [run EXCEPT ![i] = "created"]
        /\ worker' = [worker EXCEPT ![i] = "fresh"]
    BY <1>15 DEF StartItem
  <2>2. PlaceOf(i)' BY <1>0, <2>1 DEF PlaceOf
  <2> QED BY <1>0, <1>2, <2>1, <2>2
<1>16. ASSUME NEW i \in Items, NEW status \in Results, ReturnWith(i, status),
              worker[i] \in {"fresh", "streaming", "answered"}, UNCHANGED item
       PROVE  Places'
  <2>1. PlaceOf(i) BY DEF Places
  <2>2. PlaceOf(i)' BY <1>0, <1>16, <2>1 DEF PlaceOf, ReturnWith, Results
  <2> QED BY <1>0, <1>2, <1>16, <2>2 DEF ReturnWith
<1>17. ASSUME NEW i \in Items, run' = [run EXCEPT ![i] = "streaming"],
              worker' = [worker EXCEPT ![i] = "streaming"],
              worker[i] \in {"fresh", "answered"}, UNCHANGED item
       PROVE  Places'
  <2>1. PlaceOf(i) BY DEF Places
  <2>2. PlaceOf(i)' BY <1>0, <1>17, <2>1 DEF PlaceOf
  <2> QED BY <1>0, <1>2, <1>17, <2>2
<1>18. ASSUME NEW i \in Items, BeginRun(i) PROVE Places'
  <2>1. UNCHANGED item /\ worker[i] = "fresh" BY <1>18 DEF BeginRun
  <2>2. CASE ReturnWith(i, "cancelled") BY <1>16, <2>1, <2>2 DEF Results
  <2>3. CASE run' = [run EXCEPT ![i] = "streaming"] /\ worker' = [worker EXCEPT ![i] = "streaming"]
    BY <1>17, <2>1, <2>3
  <2>4. CASE i \in Tier3 /\ Require(i) /\ UNCHANGED run BY <1>4, <2>1, <2>4
  <2> QED BY <1>18, <2>2, <2>3, <2>4 DEF BeginRun
<1>19. ASSUME NEW i \in Items, Ask(i) PROVE Places'
  BY <1>19, <1>4 DEF Ask
<1>20. ASSUME NEW i \in Items, Resume(i) PROVE Places'
  <2>1. UNCHANGED item /\ worker[i] = "answered" BY <1>20 DEF Resume
  <2>2. CASE /\ i \in Tier2 /\ UNCHANGED run
             /\ worker' = [worker EXCEPT ![i] = "streaming"]
    <3>1. PlaceOf(i) BY DEF Places
    <3>2. run[i] = "streaming" BY <2>1, <2>2, <3>1 DEF PlaceOf
    <3>3. PlaceOf(i)' BY <1>0, <2>1, <2>2, <3>1, <3>2 DEF PlaceOf
    <3> QED BY <1>0, <1>2, <2>1, <2>2, <3>3
  <2>3. CASE \E status \in {"failed", "cancelled"} : ReturnWith(i, status)
    BY <1>16, <2>1, <2>3 DEF Results
  <2>4. CASE run' = [run EXCEPT ![i] = "streaming"] /\ worker' = [worker EXCEPT ![i] = "streaming"]
    BY <1>17, <2>1, <2>4
  <2> QED BY <1>20, <2>2, <2>3, <2>4 DEF Resume
<1>21. ASSUME NEW i \in Items, Return(i) PROVE Places'
  BY <1>21, <1>16 DEF Return, Results
<1>22. ASSUME NEW i \in Items, SettleItem(i) PROVE Places'
  <2>1. Admits(i, {"settled"}) BY <1>22, SettleMoves
  <2>2. worker[i] = "returned" /\ item' = [item EXCEPT ![i] = run[i]] /\ run' = run
    BY <1>22 DEF SettleItem
  <2>3. run[i] # "none" BY <2>2 DEF Places, PlaceOf, Results
  <2>4. PlaceOf(i)' BY <1>0, <2>1, <2>2, <2>3 DEF PlaceOf, Admits
  <2> QED BY <1>0, <1>2, <2>1, <2>2, <2>4 DEF Admits
<1>23. ASSUME NEW i \in Items, SweepRun(i) PROVE Places'
  <2>1. /\ \A j \in Items : worker[j] = "none"
        /\ UNCHANGED <<item, worker>> /\ run' = [run EXCEPT ![i] = "interrupted"]
        /\ run[i] # "none"
    BY <1>23 DEF SweepRun, Driving, memory, pool, Open
  <2>2. PlaceOf(i)' BY <1>0, <2>1 DEF PlaceOf, Places
  <2> QED BY <1>0, <1>2, <2>1, <2>2
<1>24. ASSUME NEW i \in Items, SweepItem(i) PROVE Places'
  <2>1. /\ \A j \in Items : worker[j] = "none"
        /\ UNCHANGED <<run, worker>> /\ item' = [item EXCEPT ![i] = "interrupted"]
    BY <1>24 DEF SweepItem, Driving, memory, pool
  <2>2. PlaceOf(i)' BY <1>0, <2>1 DEF PlaceOf
  <2> QED BY <1>0, <1>2, <2>1, <2>2
<1>25. ASSUME NEW x \in Requests, NEW approved \in BOOLEAN, Resolve(x, approved)
       PROVE  Places'
  <2>1. x[1] \in Items /\ UNCHANGED <<item, run>> BY <1>25 DEF Requests, Resolve
  <2>2. CASE worker' = worker BY <2>1, <2>2, <1>1
  <2>3. CASE worker' # worker
    <3>1. worker[x[1]] = "parked" /\ worker' = [worker EXCEPT ![x[1]] = "answered"]
      BY <1>25, <2>3 DEF Resolve, ParkedOn
    <3>2. PlaceOf(x[1]) BY <2>1 DEF Places
    <3>3. PlaceOf(x[1])' BY <1>0, <2>1, <3>1, <3>2 DEF PlaceOf
    <3> QED BY <1>0, <1>2, <2>1, <3>1, <3>3
  <2> QED BY <2>2, <2>3
<1>26. ASSUME NEW x \in Requests, SweepApproval(x) PROVE Places'
  BY <1>26, <1>1 DEF SweepApproval, memory, pool
<1> QED
  BY <1>5, <1>6, <1>7, <1>8, <1>9, <1>10, <1>11, <1>12, <1>13, <1>14, <1>15, <1>18,
     <1>19, <1>20, <1>21, <1>22, <1>23, <1>24, <1>25, <1>26, StepCases

-----------------------------------------------------------------------------
(* A step of one worker either asks the gate or moves on without touching   *)
(* requests; both leave the task and its driver alone.                      *)
MovesOn(i) ==
  /\ worker[i] \notin {"none", "parked", "queued", "settled"}
  /\ Admits(i, {"fresh", "streaming", "returned", "settled"})
  /\ UNCHANGED <<task, phase, session, aborted, gate, drive, wabort,
                 approval, asked, verdict>>

AsksGate(i) ==
  /\ worker[i] \in {"fresh", "streaming"} /\ ~wabort[i] /\ Require(i)
  /\ UNCHANGED <<task, phase, session, aborted, gate, drive, wabort,
                 item, run, effects>>

WorkerStep(i) ==
  StartItem(i) \/ BeginRun(i) \/ Ask(i) \/ Resume(i) \/ Return(i) \/ SettleItem(i)

(* A step of a worker that is not the limiter's asks the gate or moves on.  *)
LEMMA WorkerCases ==
  ASSUME Shape, Places, Slots, NEW i \in Items, WorkerStep(i)
  PROVE  MovesOn(i) \/ AsksGate(i)
<1>0. worker \in [Items -> WorkerStates] BY DEF Shape
<1>1. CASE StartItem(i)
  BY <1>0, <1>1 DEF StartItem, MovesOn, Admits, Detached, driver
<1>2. CASE BeginRun(i)
  <2>1. /\ worker[i] = "fresh"
        /\ UNCHANGED <<task, phase, effects, session, aborted, gate, drive, item, wabort>>
    BY <1>2 DEF BeginRun, Detached, driver
  <2>2. CASE \E s \in {"returned", "streaming"} : /\ worker' = [worker EXCEPT ![i] = s]
                                                  /\ UNCHANGED <<approval, asked, verdict>>
    BY <1>0, <2>1, <2>2 DEF MovesOn, Admits
  <2>3. CASE ~wabort[i] /\ Require(i) /\ UNCHANGED run BY <2>1, <2>3 DEF AsksGate
  <2> QED BY <1>2, <2>2, <2>3 DEF BeginRun, ReturnWith
<1>3. CASE Ask(i) BY <1>3 DEF Ask, AsksGate, Detached, driver
<1>4. CASE Resume(i)
  <2>1. /\ worker[i] = "answered"
        /\ UNCHANGED <<task, phase, session, aborted, gate, drive, wabort,
                       approval, asked, verdict>>
    BY <1>4 DEF Resume, driver
  <2>2. \E s \in {"returned", "streaming"} : worker' = [worker EXCEPT ![i] = s]
    BY <1>4 DEF Resume, ReturnWith
  <2> QED BY <1>0, <2>1, <2>2 DEF MovesOn, Admits
<1>5. CASE Return(i)
  BY <1>0, <1>5 DEF Return, ReturnWith, MovesOn, Admits, Detached, driver
<1>6. CASE SettleItem(i)
  <2>1. Admits(i, {"settled"}) BY <1>6, SettleMoves
  <2>2. /\ worker[i] = "returned"
        /\ UNCHANGED <<task, phase, session, aborted, gate, drive, wabort,
                       approval, asked, verdict>>
    BY <1>6 DEF SettleItem, Detached, driver
  <2> QED BY <2>1, <2>2 DEF MovesOn, Admits
<1> QED BY <1>1, <1>2, <1>3, <1>4, <1>5, <1>6 DEF WorkerStep

(* Asking leaves every other worker and its requests alone.                 *)
LEMMA AskEffect ==
  ASSUME Shape, NEW i \in Items, Require(i)
  PROVE  /\ Admits(i, {"parked", "answered"})
         /\ \A j \in Items \ {i} : /\ asked'[j] = asked[j] /\ verdict'[j] = verdict[j]
                                   /\ worker'[j] = worker[j]
         /\ \/ /\ gate = "cancelled" /\ worker'[i] = "answered" /\ verdict'[i] = "denied"
               /\ UNCHANGED <<approval, asked>>
            \/ /\ gate = "open" /\ asked'[i] = asked[i] + 1 /\ asked'[i] \in 1..MaxAsks
               /\ \/ /\ worker'[i] = "parked" /\ approval'[<<i, asked'[i]>>] = "pending"
                  \/ /\ worker'[i] = "answered" /\ approval'[<<i, asked'[i]>>] = "auto_approved"
               /\ \A x \in Requests : x # <<i, asked'[i]>> => approval'[x] = approval[x]
<1> USE BoundsAssumption
<1>0. /\ worker \in [Items -> WorkerStates] /\ asked \in [Items -> 0..MaxAsks]
      /\ verdict \in [Items -> {"none", "ok", "denied"}]
      /\ approval \in [Requests -> ApprovalStatus \cup {"none"}]
  BY DEF Shape
<1>1. CASE Refused(i) BY <1>0, <1>1 DEF Refused, Admits
<1>2. ASSUME NEW r \in ApprovalStatus, NEW p \in {"parked", "answered"},
             NEW v \in {"none", "ok"},
             gate = "open", asked[i] < MaxAsks, asked' = [asked EXCEPT ![i] = asked[i] + 1],
             approval' = [approval EXCEPT ![<<i, asked[i] + 1>>] = r],
             worker' = [worker EXCEPT ![i] = p], verdict' = [verdict EXCEPT ![i] = v]
      PROVE  /\ Admits(i, {"parked", "answered"})
             /\ \A j \in Items \ {i} : /\ asked'[j] = asked[j] /\ verdict'[j] = verdict[j]
                                       /\ worker'[j] = worker[j]
             /\ asked'[i] = asked[i] + 1 /\ asked'[i] \in 1..MaxAsks
             /\ worker'[i] = p /\ approval'[<<i, asked'[i]>>] = r
             /\ \A x \in Requests : x # <<i, asked'[i]>> => approval'[x] = approval[x]
  <2>1. asked'[i] = asked[i] + 1 /\ asked'[i] \in 1..MaxAsks BY <1>0, <1>2
  <2>2. <<i, asked[i] + 1>> \in Requests BY <2>1 DEF Requests
  <2>3. approval'[<<i, asked'[i]>>] = r BY <1>0, <1>2, <2>1, <2>2
  <2>4. \A x \in Requests : x # <<i, asked'[i]>> => approval'[x] = approval[x]
    BY <1>0, <1>2, <2>1
  <2>5. \A j \in Items \ {i} : /\ asked'[j] = asked[j] /\ verdict'[j] = verdict[j]
                               /\ worker'[j] = worker[j]
    BY <1>0, <1>2
  <2>6. worker'[i] = p BY <1>0, <1>2
  <2> QED BY <2>1, <2>3, <2>4, <2>5, <2>6 DEF Admits
<1>3. CASE AutoApproved(i) BY <1>2, <1>3 DEF AutoApproved, ApprovalStatus
<1>4. CASE Parks(i) BY <1>2, <1>4 DEF Parks, ApprovalStatus
<1> QED BY <1>1, <1>3, <1>4 DEF Require

(* Cancelling the gate: all that is parked is denied, nothing else moves.   *)
LEMMA CancelEffect ==
  ASSUME Shape, Asks, CancelGate
  PROVE  /\ gate' \in {"none", "cancelled"}
         /\ \A i \in Items :
              \/ worker[i] # "parked" /\ worker'[i] = worker[i] /\ verdict'[i] = verdict[i]
              \/ /\ worker[i] = "parked" /\ worker'[i] = "answered"
                 /\ verdict'[i] = "denied"
         /\ \A x \in Requests :
              \/ ParkedOn(x[1], x) /\ approval'[x] = "denied"
              \/ ~ParkedOn(x[1], x) /\ approval'[x] = approval[x]
<1>1. \A i \in Items : Answerable(i) <=> worker[i] = "parked"
  BY DEF Asks, AskOf, Answerable
<1>2. gate' \in {"none", "cancelled"} BY DEF CancelGate
<1>3. \A i \in Items :
        \/ worker[i] # "parked" /\ worker'[i] = worker[i] /\ verdict'[i] = verdict[i]
        \/ worker[i] = "parked" /\ worker'[i] = "answered" /\ verdict'[i] = "denied"
  BY <1>1 DEF CancelGate
<1>4. ASSUME NEW x \in Requests
      PROVE  \/ ParkedOn(x[1], x) /\ approval'[x] = "denied"
             \/ ~ParkedOn(x[1], x) /\ approval'[x] = approval[x]
  <2>1. x[1] \in Items /\ x = <<x[1], x[2]>> BY DEF Requests
  <2>2. approval'[x] = IF Answerable(x[1]) /\ x[2] = asked[x[1]] THEN "denied" ELSE approval[x]
    BY DEF CancelGate
  <2>3. ParkedOn(x[1], x) <=> Answerable(x[1]) /\ x[2] = asked[x[1]]
    BY <1>1, <2>1 DEF ParkedOn
  <2> QED BY <2>2, <2>3
<1> QED BY <1>2, <1>3, <1>4

(* Answering a request: the worker parked on it hears the answer.           *)
LEMMA ResolveEffect ==
  ASSUME Shape, NEW x \in Requests, NEW approved \in BOOLEAN, Resolve(x, approved)
  PROVE  /\ \A i \in Items : \/ worker'[i] = worker[i]
                             \/ worker[i] = "parked" /\ worker'[i] = "answered"
         /\ \A y \in Requests : y # x => approval'[y] = approval[y]
         /\ approval[x] = "pending"
         /\ approval'[x] = IF approved THEN "approved" ELSE "denied"
         /\ \/ /\ session /\ gate # "none" /\ ParkedOn(x[1], x)
               /\ worker' = [worker EXCEPT ![x[1]] = "answered"]
               /\ verdict' = [verdict EXCEPT ![x[1]] = IF approved THEN "ok" ELSE "denied"]
            \/ /\ ~(session /\ gate # "none" /\ ParkedOn(x[1], x))
               /\ UNCHANGED <<worker, verdict>>
<1>0. /\ worker \in [Items -> WorkerStates] /\ x[1] \in Items
      /\ approval \in [Requests -> ApprovalStatus \cup {"none"}]
  BY DEF Shape, Requests
<1>1. /\ approval[x] = "pending"
      /\ approval' = [approval EXCEPT ![x] = IF approved THEN "approved" ELSE "denied"]
  BY DEF Resolve
<1>2. \/ /\ session /\ gate # "none" /\ ParkedOn(x[1], x)
         /\ worker' = [worker EXCEPT ![x[1]] = "answered"]
         /\ verdict' = [verdict EXCEPT ![x[1]] = IF approved THEN "ok" ELSE "denied"]
      \/ /\ ~(session /\ gate # "none" /\ ParkedOn(x[1], x))
         /\ UNCHANGED <<worker, verdict>>
  BY DEF Resolve
<1>3. \A i \in Items : \/ worker'[i] = worker[i]
                       \/ worker[i] = "parked" /\ worker'[i] = "answered"
  <2>1. CASE worker' = worker BY <2>1
  <2>2. CASE worker[x[1]] = "parked" /\ worker' = [worker EXCEPT ![x[1]] = "answered"]
    BY <1>0, <2>2
  <2>3. ParkedOn(x[1], x) => worker[x[1]] = "parked" BY DEF ParkedOn
  <2> QED BY <1>2, <2>1, <2>2, <2>3
<1>4. \A y \in Requests : y # x => approval'[y] = approval[y] BY <1>0, <1>1
<1>5. approval'[x] = IF approved THEN "approved" ELSE "denied" BY <1>0, <1>1
<1> QED BY <1>1, <1>2, <1>3, <1>4, <1>5

-----------------------------------------------------------------------------
(* The driver, the session and the process.                                 *)

(* The lifecycle moves the proofs need.                                     *)
LEMMA TaskMoves ==
  /\ Results \subseteq TaskTransitions["running"]
  /\ \A s \in TaskStatus : Open(TaskTransitions, s) <=>
                            s \in {"pending", "running", "waiting_approval"}
  /\ ~Open(TaskTransitions, "none")
BY DEF TaskTransitions, TaskStatus, Results, Open, IsTerminal

(* Every step keeps the task row, the session and the phase in agreement    *)
(* with the driver's place.                                                 *)
LEMMA DrivingStep == Shape /\ Places /\ Slots /\ Driving /\ Told /\ [Next]_vars => Driving'
<1> SUFFICES ASSUME Shape, Places, Slots, Driving, Told, [Next]_vars PROVE Driving'
  OBVIOUS
<1>0. /\ worker \in [Items -> WorkerStates] /\ wabort \in [Items -> BOOLEAN]
      /\ item \in [Items -> WorkItemStatus \cup {"none"}]
      /\ task \in TaskStatus \cup {"none"}
  BY DEF Shape
(* Nothing Driving speaks of changes, or only drive within the loop.        *)
<1>1. CASE Loop
  <2>1. UNCHANGED <<task, item, phase, session, aborted, gate, worker, wabort, queue, active>>
    BY <1>1 DEF Loop, Undriven, rows, pool
  <2>2. \/ drive' = drive
        \/ drive \in Looping /\ drive' \in Looping
    BY <1>1 DEF Loop
  <2> QED BY <2>1, <2>2 DEF Driving, Looping, Unsettled
<1>2. CASE Start
  <2>1. /\ task = "none" /\ task' = "pending" /\ session' = TRUE /\ drive' = "started"
        /\ phase = "up" /\ phase' = "up" /\ UNCHANGED <<aborted, worker>>
    BY <1>2 DEF Start, Quiet, pool
  <2>2. ~aborted /\ \A i \in Items : worker[i] = "none" BY <2>1 DEF Driving
  <2> QED BY <2>1, <2>2 DEF Driving, Looping
<1>3. CASE Pull
  <2>1. /\ drive = "started" /\ task' = "running" /\ drive' = "turn"
        /\ UNCHANGED <<phase, session, aborted>>
    BY <1>3 DEF Pull
  <2> QED BY <2>1 DEF Driving, Looping
<1>4. CASE Settle
  <2>1. /\ drive = "ending" /\ drive' = "settled" /\ wabort' = CancelledWorkers
        /\ UNCHANGED <<phase, worker>>
    BY <1>4 DEF Settle
  <2>2. task \in {"running", "cancelled"} /\ phase = "up"
    BY <2>1 DEF Driving, Looping
  <2>3. TerminalStatus \in Results BY DEF TerminalStatus, Results
  <2>4. task' \in Results
    <3>1. CASE task = "running"
      BY <1>4, <2>3, <3>1, TaskMoves DEF Settle
    <3>2. CASE task = "cancelled"
      BY <1>4, <2>3, <3>2 DEF Settle, Results
    <3> QED BY <2>2, <3>1, <3>2
  <2>5. \A i \in Unsettled' : wabort'[i]
    BY <1>0, <2>1 DEF CancelledWorkers, Unsettled
  <2> QED BY <2>1, <2>2, <2>4, <2>5 DEF Driving, Looping, Results
<1>5. CASE Close
  <2>1. /\ drive = "settled" /\ drive' = "done" /\ session' = FALSE
        /\ wabort' = CancelledWorkers /\ CancelGate /\ UNCHANGED <<task, phase>>
    BY <1>5 DEF Close, Dispose
  <2>2. \A i \in Unsettled' : i \in Unsettled
    BY <1>0, <2>1 DEF CancelGate, Answerable, Unsettled
  <2>3. \A i \in Unsettled' : wabort'[i]
    BY <1>0, <2>1, <2>2 DEF CancelledWorkers, Unsettled
  <2> QED BY <2>1, <2>3 DEF Driving, Looping, Results
<1>6. CASE AbortStep
  <2>1. /\ Quiet /\ session' = FALSE /\ aborted' = TRUE
        /\ wabort' = CancelledWorkers /\ CancelGate
        /\ UNCHANGED <<task, item, phase, drive>>
    BY <1>6 DEF AbortStep, Abort, Dispose, driver
  <2>2. drive \in {"calling", "waiting"}
    BY <1>6, <2>1 DEF AbortStep, Quiet, Driving
  <2> QED BY <2>1, <2>2 DEF Driving, Looping
<1>7. CASE HttpCancelRow
  <2>1. /\ Quiet /\ ~session /\ task # "none" /\ Open(TaskTransitions, task)
        /\ task' = "cancelled"
        /\ UNCHANGED <<item, phase, session, aborted, gate, drive, worker, wabort, queue, active>>
    BY <1>7 DEF HttpCancelRow, memory, driver, pool
  <2>2. task \notin Results BY <1>0, <2>1, TaskMoves DEF Results
  <2>3. drive \in {"none", "calling", "waiting"} BY <2>1, <2>2 DEF Quiet, Driving
  <2> QED BY <2>1, <2>3 DEF Driving, Looping, Quiet
<1>8. CASE Crash
  <2>1. /\ phase' = "down" /\ session' = FALSE /\ aborted' = FALSE /\ gate' = "none"
        /\ drive' = "none" /\ queue' = <<>> /\ active' = 0
        /\ \A i \in Items : worker'[i] = "none"
        /\ UNCHANGED <<task, item>>
    BY <1>8 DEF Crash, rows
  <2> QED BY <2>1 DEF Driving, Looping
<1>9. ASSUME phase # "up", UNCHANGED memory,
             task' = "none" => task = "none" /\ UNCHANGED item,
             phase' = "sweep" => Open(TaskTransitions, task')
      PROVE  Driving'
  <2>1. UNCHANGED <<session, aborted, gate, drive, worker, wabort, queue, active>>
    BY <1>9 DEF memory, driver, pool
  <2>2. drive = "none" BY <1>9 DEF Driving
  <2> QED BY <1>9, <2>1, <2>2 DEF Driving, Looping
<1>10. CASE Boot BY <1>10, <1>9 DEF Boot, rows
<1>11. CASE SweepTask BY <1>11, <1>9 DEF SweepTask
<1>12. CASE Listen BY <1>12, <1>9 DEF Listen, rows
<1>13. ASSUME NEW i \in Items, SweepRun(i) \/ SweepItem(i) PROVE Driving'
  <2>1. phase = "sweep" /\ UNCHANGED <<task, phase, memory>>
    BY <1>13 DEF SweepRun, SweepItem
  <2>2. Open(TaskTransitions, task) BY <2>1 DEF Driving
  <2> QED BY <1>9, <2>1, <2>2, TaskMoves
<1>14. ASSUME NEW x \in Requests, SweepApproval(x) PROVE Driving'
  BY <1>14, <1>9 DEF SweepApproval
<1>15. ASSUME NEW i \in Items, Spawn(i) PROVE Driving'
  <2>1. drive = "tools" /\ UNCHANGED <<task, phase, session, aborted, drive>>
    BY <1>15 DEF Spawn
  <2> QED BY <2>1 DEF Driving, Looping
<1>16. ASSUME NEW i \in Items, SpawnThrows(i) PROVE Driving'
  <2>1. /\ drive = "tools" /\ drive' = "ending"
        /\ UNCHANGED <<task, phase, session, aborted>>
    BY <1>16 DEF SpawnThrows
  <2> QED BY <2>1 DEF Driving, Looping
<1>17. ASSUME NEW i \in Items, CancelWorker(i) PROVE Driving'
  <2>1. drive = "tools" /\ UNCHANGED <<task, phase, session, aborted, drive>>
    BY <1>17 DEF CancelWorker, rows
  <2> QED BY <2>1 DEF Driving, Looping
<1>18. ASSUME NEW i \in Items, WorkerStep(i) PROVE Driving'
  <2>1. /\ worker[i] \notin {"none", "settled"}
        /\ \E places : Admits(i, places)
        /\ UNCHANGED <<task, phase, session, aborted, drive, wabort>>
    <3>1. CASE MovesOn(i) BY <3>1 DEF MovesOn
    <3>2. CASE AsksGate(i) BY <3>2, AskEffect DEF AsksGate
    <3> QED BY <1>18, <3>1, <3>2, WorkerCases
  <2>2. drive # "none" /\ task # "none" /\ drive # "started" BY <2>1 DEF Driving
  <2>3. \A j \in Unsettled' : j \in Unsettled BY <2>1 DEF Unsettled, Admits
  <2> QED BY <2>1, <2>2, <2>3 DEF Driving, Looping
<1>19. ASSUME NEW x \in Requests, NEW approved \in BOOLEAN, Resolve(x, approved)
       PROVE  Driving'
  <2>1. UNCHANGED <<task, item, phase, session, aborted, gate, drive, wabort, queue, active>>
    BY <1>19 DEF Resolve, driver
  <2>2. \A i \in Items : \/ worker'[i] = worker[i]
                         \/ worker[i] = "parked" /\ worker'[i] = "answered"
    BY <1>0, <1>19, ResolveEffect
  <2>3. \A i \in Unsettled' : i \in Unsettled BY <2>2 DEF Unsettled
  <2>4. drive \in {"none", "started"} => \A i \in Items : worker'[i] = "none"
    BY <2>2 DEF Driving
  <2> QED BY <2>1, <2>3, <2>4 DEF Driving, Looping
<1> QED
  BY <1>1, <1>2, <1>3, <1>4, <1>5, <1>6, <1>7, <1>8, <1>10, <1>11, <1>12, <1>13,
     <1>14, <1>15, <1>16, <1>17, <1>18, <1>19, StepCases DEF WorkerStep

-----------------------------------------------------------------------------
(* Who is told of an abort.                                                 *)
LEMMA ToldStep ==
  Shape /\ Places /\ Slots /\ Asks /\ Driving /\ Told /\ [Next]_vars => Told'
<1> SUFFICES ASSUME Shape, Places, Slots, Asks, Driving, Told, [Next]_vars PROVE Told'
  OBVIOUS
<1>0. /\ worker \in [Items -> WorkerStates] /\ wabort \in [Items -> BOOLEAN]
  BY DEF Shape
<1>1. ASSUME UNCHANGED <<session, aborted, gate, worker, wabort>> PROVE Told'
  BY <1>1 DEF Told, Unsettled
<1>2. CASE Loop BY <1>2, <1>1 DEF Loop, Undriven, pool
<1>3. CASE Start
  <2>1. session' = TRUE /\ UNCHANGED <<aborted, gate, worker, wabort>> /\ task = "none"
    BY <1>3 DEF Start, pool
  <2>2. ~aborted BY <2>1 DEF Driving
  <2> QED BY <2>1, <2>2 DEF Told
<1>4. CASE Pull BY <1>4, <1>1 DEF Pull, pool
<1>5. CASE Settle
  <2>1. wabort' = CancelledWorkers /\ UNCHANGED <<session, aborted, gate, worker>>
    BY <1>5 DEF Settle
  <2>2. \A i \in Unsettled' : wabort'[i] BY <1>0, <2>1 DEF CancelledWorkers, Unsettled
  <2> QED BY <2>1, <2>2 DEF Told
<1>6. ASSUME Dispose PROVE Told'
  <2>1. session' = FALSE /\ wabort' = CancelledWorkers /\ CancelGate
    BY <1>6 DEF Dispose
  <2>2. /\ gate' # "open"
        /\ \A i \in Items : worker'[i] # "parked"
        /\ \A i \in Unsettled' : i \in Unsettled
    BY <2>1, CancelEffect DEF Unsettled
  <2>3. \A i \in Unsettled' : wabort'[i]
    BY <1>0, <2>1, <2>2 DEF CancelledWorkers, Unsettled
  <2> QED BY <2>1, <2>2, <2>3 DEF Told
<1>7. CASE Close BY <1>7, <1>6 DEF Close
<1>8. CASE AbortStep BY <1>8, <1>6 DEF AbortStep, Abort
<1>9. CASE HttpCancelRow \/ Boot \/ SweepTask \/ Listen
  BY <1>9, <1>1 DEF HttpCancelRow, Boot, SweepTask, Listen, memory, pool
<1>10. CASE Crash BY <1>10 DEF Crash, Told
<1>11. ASSUME NEW i \in Items, SpawnThrows(i) \/ SweepRun(i) \/ SweepItem(i) PROVE Told'
  BY <1>11, <1>1 DEF SpawnThrows, SweepRun, SweepItem, memory, pool
<1>12. ASSUME NEW x \in Requests, SweepApproval(x) PROVE Told'
  BY <1>12, <1>1 DEF SweepApproval, memory, pool
<1>13. ASSUME NEW i \in Items, CancelWorker(i) PROVE Told'
  <2>1. /\ wabort' = [wabort EXCEPT ![i] = TRUE]
        /\ UNCHANGED <<session, aborted, gate, worker>>
    BY <1>13 DEF CancelWorker
  <2> QED BY <1>0, <2>1 DEF Told, Unsettled
<1>14. ASSUME NEW i \in Items, Spawn(i) PROVE Told'
  <2>1. /\ drive = "tools" /\ wabort' = [wabort EXCEPT ![i] = aborted]
        /\ gate' = IF i \in Gated /\ gate = "none"
                   THEN (IF aborted THEN "cancelled" ELSE "open") ELSE gate
        /\ UNCHANGED <<session, aborted>>
    BY <1>14 DEF Spawn
  <2>2. worker[i] = "none" /\ Admits(i, {"queued", "admitted"}) BY <1>14, SpawnMoves
  <2>3. aborted \/ session BY <2>1 DEF Driving, Looping
  <2>4. gate' = "open" => session' BY <2>1, <2>3 DEF Told
  <2>5. aborted' => ~session' BY <2>1 DEF Told
  <2>6. aborted' => \A j \in Unsettled' : wabort'[j]
    BY <1>0, <2>1, <2>2 DEF Told, Unsettled, Admits
  <2>7. \A j \in Items : worker'[j] = "parked" => gate' = "open"
    BY <2>1, <2>2 DEF Told, Admits
  <2> QED BY <2>4, <2>5, <2>6, <2>7 DEF Told
<1>15. ASSUME NEW i \in Items, WorkerStep(i) PROVE Told'
  <2>1. /\ worker[i] \notin {"none", "settled"}
        /\ worker'[i] = "parked" => gate = "open"
        /\ \E places : Admits(i, places)
        /\ UNCHANGED <<session, aborted, gate, wabort>>
    <3>1. CASE MovesOn(i) BY <3>1 DEF MovesOn, Admits
    <3>2. CASE AsksGate(i) BY <3>2, AskEffect DEF AsksGate
    <3> QED BY <1>15, <3>1, <3>2, WorkerCases
  <2>2. \A j \in Unsettled' : j \in Unsettled BY <2>1 DEF Unsettled, Admits
  <2>3. \A j \in Items : worker'[j] = "parked" => gate' = "open"
    BY <2>1 DEF Told, Admits
  <2> QED BY <2>1, <2>2, <2>3 DEF Told
<1>16. ASSUME NEW x \in Requests, NEW approved \in BOOLEAN, Resolve(x, approved)
       PROVE  Told'
  <2>1. UNCHANGED <<session, aborted, gate, wabort>> BY <1>16 DEF Resolve
  <2>2. \A i \in Items : \/ worker'[i] = worker[i]
                         \/ worker[i] = "parked" /\ worker'[i] = "answered"
    BY <1>16, ResolveEffect
  <2> QED BY <2>1, <2>2 DEF Told, Unsettled
<1> QED
  BY <1>2, <1>3, <1>4, <1>5, <1>7, <1>8, <1>9, <1>10, <1>11, <1>12, <1>13, <1>14,
     <1>15, <1>16, StepCases DEF WorkerStep

-----------------------------------------------------------------------------
(* The requests.                                                            *)
LEMMA AsksStep ==
  Shape /\ Places /\ Slots /\ Asks /\ Driving /\ Told /\ [Next]_vars => Asks'
<1> SUFFICES ASSUME Shape, Places, Slots, Asks, Driving, Told, [Next]_vars,
                    NEW j \in Items
             PROVE  AskOf(j)'
  BY DEF Asks
<1> USE BoundsAssumption
<1>0. /\ worker \in [Items -> WorkerStates] /\ item \in [Items -> WorkItemStatus \cup {"none"}]
      /\ asked \in [Items -> 0..MaxAsks] /\ AskOf(j) /\ PlaceOf(j)
      /\ \A k \in 1..MaxAsks : <<j, k>> \in Requests
  BY DEF Shape, Asks, Places, Requests
<1>1. ASSUME UNCHANGED <<approval, asked, verdict>>,
             item'[j] = "none" => item[j] = "none",
             \/ worker'[j] = worker[j]
             \/ worker[j] # "none" /\ worker'[j] \notin {"parked", "answered"}
             \/ worker'[j] = "none"
      PROVE  AskOf(j)'
  BY <1>0, <1>1 DEF AskOf
<1>2. CASE Loop BY <1>2, <1>1 DEF Loop, Undriven, rows, pool
<1>3. CASE Start \/ Pull BY <1>3, <1>1 DEF Start, Pull, pool
<1>4. CASE Settle BY <1>4, <1>1 DEF Settle
<1>5. ASSUME CancelGate, UNCHANGED <<item, asked>> PROVE AskOf(j)'
  <2>1. \/ worker[j] # "parked" /\ worker'[j] = worker[j] /\ verdict'[j] = verdict[j]
        \/ worker[j] = "parked" /\ worker'[j] = "answered" /\ verdict'[j] = "denied"
    BY <1>5, CancelEffect
  <2>2. \A k \in 1..MaxAsks :
          \/ worker[j] = "parked" /\ k = asked[j]
          \/ approval'[<<j, k>>] = approval[<<j, k>>]
    BY <1>0, <1>5, CancelEffect DEF ParkedOn
  <2>3. item[j] = "none" => worker[j] = "none" BY <1>0 DEF PlaceOf
  <2> QED BY <1>0, <1>5, <2>1, <2>2, <2>3 DEF AskOf
<1>6. CASE Close BY <1>6, <1>5 DEF Close, Dispose
<1>7. CASE AbortStep BY <1>7, <1>5 DEF AbortStep, Abort, Dispose
<1>8. CASE HttpCancelRow \/ Boot \/ SweepTask \/ Listen
  BY <1>8, <1>1 DEF HttpCancelRow, Boot, SweepTask, Listen, memory, pool, rows
<1>9. CASE Crash
  <2>1. UNCHANGED <<item, approval>> /\ worker'[j] = "none" BY <1>9 DEF Crash, rows
  <2> QED BY <1>0, <2>1 DEF AskOf
<1>10. ASSUME NEW i \in Items, Spawn(i) PROVE AskOf(j)'
  <2>1. worker[i] = "none" /\ Admits(i, {"queued", "admitted"})
    BY <1>10, SpawnMoves
  <2>2. /\ item[i] = "none" /\ item' = [item EXCEPT ![i] = "pending"]
        /\ UNCHANGED <<approval, asked, verdict>>
    BY <1>10 DEF Spawn
  <2>3. CASE j = i BY <1>0, <2>1, <2>2, <2>3 DEF AskOf, Admits
  <2>4. CASE j # i BY <1>0, <1>1, <2>1, <2>2, <2>4 DEF Admits
  <2> QED BY <2>3, <2>4
<1>11. ASSUME NEW i \in Items, SpawnThrows(i) PROVE AskOf(j)'
  BY <1>0, <1>11, <1>1 DEF SpawnThrows, pool
<1>12. ASSUME NEW i \in Items, CancelWorker(i) \/ SweepRun(i) PROVE AskOf(j)'
  BY <1>12, <1>1 DEF CancelWorker, SweepRun, memory, pool, rows
<1>13. ASSUME NEW i \in Items, SweepItem(i) PROVE AskOf(j)'
  BY <1>0, <1>13, <1>1 DEF SweepItem, memory, pool
<1>14. ASSUME NEW i \in Items, WorkerStep(i) PROVE AskOf(j)'
  <2>1. item'[j] = "none" => item[j] = "none"
    <3>1. item' = item \/ item' = [item EXCEPT ![i] = "running"]
            \/ (worker[i] = "returned" /\ item' = [item EXCEPT ![i] = run[i]])
      BY <1>14 DEF WorkerStep, StartItem, BeginRun, Ask, Resume, Return, SettleItem
    <3>2. worker[i] = "returned" => run[i] # "none" BY DEF Places, PlaceOf, Results
    <3> QED BY <1>0, <3>1, <3>2
  <2>2. CASE MovesOn(i)
    <3>1. \/ worker'[j] = worker[j]
          \/ worker[j] # "none" /\ worker'[j] \notin {"parked", "answered"}
      BY <2>2 DEF MovesOn, Admits
    <3> QED BY <1>1, <2>1, <2>2, <3>1 DEF MovesOn
  <2>3. CASE AsksGate(i)
    <3>1. /\ worker[i] \in {"fresh", "streaming"} /\ Require(i) /\ UNCHANGED item
      BY <2>3 DEF AsksGate
    <3>2. CASE j # i
      <4>1. asked'[j] = asked[j] /\ verdict'[j] = verdict[j] /\ worker'[j] = worker[j]
        BY <3>1, <3>2, AskEffect
      <4>2. \A k \in 1..MaxAsks : approval'[<<j, k>>] = approval[<<j, k>>]
        BY <1>0, <3>1, <3>2, AskEffect
      <4> QED BY <1>0, <3>1, <4>1, <4>2 DEF AskOf
    <3>3. CASE j = i
      <4>0. item'[j] # "none" BY <1>0, <3>1, <3>3 DEF PlaceOf
      <4>1. CASE /\ worker'[i] = "answered" /\ verdict'[i] = "denied"
                 /\ UNCHANGED <<approval, asked>>
        BY <1>0, <3>1, <3>3, <4>0, <4>1 DEF AskOf
      <4>2. CASE /\ asked'[i] = asked[i] + 1 /\ asked'[i] \in 1..MaxAsks
                 /\ \/ worker'[i] = "parked" /\ approval'[<<i, asked'[i]>>] = "pending"
                    \/ worker'[i] = "answered" /\ approval'[<<i, asked'[i]>>] = "auto_approved"
                 /\ \A x \in Requests : x # <<i, asked'[i]>> => approval'[x] = approval[x]
        <5>1. \A k \in 1..MaxAsks : k > asked'[i] => approval'[<<i, k>>] = "none"
          BY <1>0, <3>1, <3>3, <4>2 DEF AskOf
        <5> QED BY <3>3, <4>0, <4>2, <5>1 DEF AskOf, Allowed
      <4> QED BY <3>1, <4>1, <4>2, AskEffect
    <3> QED BY <3>2, <3>3
  <2> QED BY <1>14, <2>2, <2>3, WorkerCases
<1>15. ASSUME NEW x \in Requests, NEW approved \in BOOLEAN, Resolve(x, approved)
       PROVE  AskOf(j)'
  <2>1. /\ UNCHANGED <<item, asked>> /\ approval[x] = "pending"
        /\ \A y \in Requests : y # x => approval'[y] = approval[y]
        /\ approval'[x] = IF approved THEN "approved" ELSE "denied"
    BY <1>15, ResolveEffect DEF Resolve
  <2>2. \A k \in 1..MaxAsks : approval[<<j, k>>] = "none" => approval'[<<j, k>>] = "none"
    BY <1>0, <2>1
  <2>3. \A k \in 1..MaxAsks : approval[<<j, k>>] \in Allowed => approval'[<<j, k>>] \in Allowed
    BY <1>0, <2>1 DEF Allowed
  <2>4. CASE ParkedOn(j, x)
    <3>1. x[1] = j /\ worker[j] = "parked" /\ x = <<j, asked[j]>>
      BY <2>4 DEF ParkedOn
    <3>2. session /\ gate # "none" BY <3>1 DEF Told
    <3>3. /\ worker'[j] = "answered"
          /\ verdict'[j] = IF approved THEN "ok" ELSE "denied"
      <4>1. ParkedOn(x[1], x) BY <2>4, <3>1
      <4>2. /\ worker' = [worker EXCEPT ![x[1]] = "answered"]
            /\ verdict' = [verdict EXCEPT ![x[1]] = IF approved THEN "ok" ELSE "denied"]
        BY <1>15, <3>2, <4>1, ResolveEffect
      <4>3. verdict \in [Items -> {"none", "ok", "denied"}] BY DEF Shape
      <4> QED BY <1>0, <3>1, <4>2, <4>3
    <3>4. asked[j] \in 1..MaxAsks BY <1>0, <3>1 DEF AskOf
    <3> QED BY <1>0, <2>1, <2>2, <3>1, <3>3, <3>4 DEF AskOf, Allowed
  <2>5. CASE ~ParkedOn(j, x)
    <3>1. worker'[j] = worker[j] /\ verdict'[j] = verdict[j]
      <4>1. CASE UNCHANGED <<worker, verdict>> BY <4>1
      <4>2. CASE /\ ParkedOn(x[1], x) /\ worker' = [worker EXCEPT ![x[1]] = "answered"]
                 /\ \E v \in {"ok", "denied"} : verdict' = [verdict EXCEPT ![x[1]] = v]
        <5>1. x[1] # j BY <2>5, <4>2
        <5> QED BY <1>0, <4>2, <5>1 DEF Shape
      <4> QED BY <1>15, <4>1, <4>2, ResolveEffect
    <3>2. worker[j] = "parked" => <<j, asked[j]>> # x BY <2>5 DEF ParkedOn
    <3> QED BY <1>0, <2>1, <2>2, <2>3, <3>1, <3>2 DEF AskOf
  <2> QED BY <2>4, <2>5
<1>16. ASSUME NEW x \in Requests, SweepApproval(x) PROVE AskOf(j)'
  <2>1. /\ phase = "expire" /\ approval[x] = "pending"
        /\ approval' = [approval EXCEPT ![x] = "expired"]
        /\ UNCHANGED <<item, worker>>
    BY <1>16 DEF SweepApproval, memory, pool
  <2>2. worker[j] = "none" BY <2>1 DEF Driving
  <2>3. \A k \in 1..MaxAsks : approval[<<j, k>>] = "none" => approval'[<<j, k>>] = "none"
    BY <1>0, <2>1 DEF Shape
  <2> QED BY <1>0, <2>1, <2>2, <2>3 DEF AskOf
<1> QED
  BY <1>2, <1>3, <1>4, <1>6, <1>7, <1>8, <1>9, <1>10, <1>11, <1>12, <1>13, <1>14,
     <1>15, <1>16, StepCases DEF WorkerStep

(* Every step keeps a pending request under a worker parked on it.          *)
LEMMA PendingStep ==
  Shape /\ Places /\ Slots /\ Asks /\ Driving /\ PendingIsParked /\ [Next]_vars
    => PendingIsParked'
<1> SUFFICES ASSUME Shape, Places, Slots, Asks, Driving, PendingIsParked, [Next]_vars,
                    NEW x \in Requests, drive' # "none", approval'[x] = "pending"
             PROVE  ParkedOn(x[1], x)'
  BY DEF PendingIsParked
<1>0. /\ x[1] \in Items /\ x = <<x[1], x[2]>> /\ x[2] \in 1..MaxAsks
      /\ approval \in [Requests -> ApprovalStatus \cup {"none"}]
      /\ asked \in [Items -> 0..MaxAsks] /\ worker \in [Items -> WorkerStates]
  BY DEF Requests, Shape
<1>1. ASSUME drive # "none", approval[x] = "pending"
      PROVE  ParkedOn(x[1], x)
  BY <1>1 DEF PendingIsParked
<1>2. ASSUME drive # "none", approval'[x] = approval[x],
             asked'[x[1]] = asked[x[1]],
             worker[x[1]] = "parked" => worker'[x[1]] = "parked"
      PROVE  ParkedOn(x[1], x)'
  BY <1>1, <1>2 DEF ParkedOn
<1>3. CASE Loop
  <2>1. drive # "none" BY <1>3 DEF Loop, Looping
  <2> QED BY <1>2, <1>3, <2>1 DEF Loop, Undriven, rows, pool
<1>4. CASE Start
  <2>1. item[x[1]] = "none" /\ approval' = approval
    BY <1>0, <1>4 DEF Start, Driving
  <2>2. approval[x] = "none" BY <1>0, <2>1 DEF Asks, AskOf
  <2> QED BY <2>1, <2>2
<1>5. CASE Pull BY <1>5, <1>2 DEF Pull, pool
<1>6. CASE Settle BY <1>6, <1>2 DEF Settle
<1>7. ASSUME CancelGate, drive # "none" PROVE FALSE
  <2>1. \/ ParkedOn(x[1], x) /\ approval'[x] = "denied"
        \/ ~ParkedOn(x[1], x) /\ approval'[x] = approval[x]
    BY <1>7, CancelEffect
  <2> QED BY <1>1, <1>7, <2>1
<1>8. CASE Close BY <1>8, <1>7 DEF Close, Dispose
<1>9. CASE AbortStep BY <1>9, <1>7 DEF AbortStep, Abort, Dispose, driver
<1>10. CASE HttpCancelRow BY <1>10, <1>2 DEF HttpCancelRow, memory, driver, pool
<1>11. CASE Crash BY <1>11 DEF Crash
<1>12. ASSUME phase # "up", UNCHANGED memory PROVE FALSE
  BY <1>12 DEF Driving, memory, driver
<1>13. CASE Boot \/ SweepTask \/ Listen
  BY <1>13, <1>12 DEF Boot, SweepTask, Listen
<1>14. ASSUME NEW i \in Items, SweepRun(i) \/ SweepItem(i) PROVE FALSE
  BY <1>14, <1>12 DEF SweepRun, SweepItem
<1>15. ASSUME NEW y \in Requests, SweepApproval(y) PROVE FALSE
  BY <1>15, <1>12 DEF SweepApproval
<1>16. ASSUME NEW i \in Items, Spawn(i) PROVE ParkedOn(x[1], x)'
  <2>1. /\ worker[i] = "none" /\ Admits(i, {"queued", "admitted"})
        /\ drive # "none" /\ UNCHANGED <<approval, asked>>
    BY <1>16, SpawnMoves DEF Spawn
  <2>2. worker[x[1]] = "parked" => worker'[x[1]] = "parked" BY <1>0, <2>1 DEF Admits
  <2> QED BY <1>2, <2>1, <2>2
<1>17. ASSUME NEW i \in Items, SpawnThrows(i) \/ CancelWorker(i)
       PROVE  ParkedOn(x[1], x)'
  BY <1>17, <1>2 DEF SpawnThrows, CancelWorker, pool, rows
<1>18. ASSUME NEW i \in Items, WorkerStep(i) PROVE ParkedOn(x[1], x)'
  <2>1. CASE MovesOn(i)
    <3>1. /\ UNCHANGED <<approval, asked, drive>>
          /\ worker[x[1]] = "parked" => worker'[x[1]] = "parked"
      BY <1>0, <2>1 DEF MovesOn, Admits
    <3> QED BY <1>2, <3>1
  <2>2. CASE AsksGate(i)
    <3>1. /\ worker[i] \in {"fresh", "streaming"} /\ Require(i) /\ UNCHANGED drive
      BY <2>2 DEF AsksGate
    <3>2. CASE x[1] # i
      <4>1. asked'[x[1]] = asked[x[1]] /\ worker'[x[1]] = worker[x[1]]
        BY <1>0, <3>1, <3>2, AskEffect
      <4>2. x # <<i, asked'[i]>> BY <1>0, <3>2
      <4>3. approval'[x] = approval[x] BY <3>1, <4>2, AskEffect
      <4> QED BY <1>2, <3>1, <4>1, <4>3
    <3>3. CASE x[1] = i
      <4>1. approval[x] # "pending" BY <1>1, <3>1, <3>3 DEF ParkedOn
      <4>2. /\ x = <<i, asked'[i]>> /\ worker'[i] = "parked"
        BY <3>1, <4>1, AskEffect
      <4> QED BY <3>3, <4>2 DEF ParkedOn
    <3> QED BY <3>2, <3>3
  <2> QED BY <1>18, <2>1, <2>2, WorkerCases
<1>19. ASSUME NEW y \in Requests, NEW approved \in BOOLEAN, Resolve(y, approved)
       PROVE  ParkedOn(x[1], x)'
  <2>0. UNCHANGED <<drive, asked>> BY <1>19 DEF Resolve, driver
  <2>1. /\ UNCHANGED <<drive, asked>> /\ approval[y] = "pending"
        /\ approval'[y] # "pending" /\ (y # x => approval'[x] = approval[x])
        /\ \/ ParkedOn(y[1], y) /\ worker' = [worker EXCEPT ![y[1]] = "answered"]
           \/ UNCHANGED worker
    BY <1>19, <2>0, ResolveEffect
  <2>2. y # x /\ approval'[x] = approval[x] /\ ParkedOn(x[1], x) BY <1>1, <2>1
  <2>3. ParkedOn(y[1], y) => y[1] # x[1] BY <2>2 DEF ParkedOn
  <2>4. worker'[x[1]] = worker[x[1]] BY <1>0, <2>1, <2>3
  <2> QED BY <1>2, <2>1, <2>2, <2>4
<1> QED
  BY <1>3, <1>4, <1>5, <1>6, <1>8, <1>9, <1>10, <1>11, <1>13, <1>14, <1>15, <1>16,
     <1>17, <1>18, <1>19, StepCases DEF WorkerStep

(* Every step keeps what was carried out under a row that allows it.        *)
LEMMA EffectsStep ==
  Shape /\ Places /\ Slots /\ Asks /\ Driving /\ EffectsApproved /\ [Next]_vars
    => EffectsApproved'
<1> SUFFICES ASSUME Shape, Places, Slots, Asks, Driving, EffectsApproved, [Next]_vars,
                    NEW x \in effects'
             PROVE  approval'[x] \in Allowed
  BY DEF EffectsApproved, Allowed
<1>0. /\ effects \subseteq Requests /\ (x \in effects => approval[x] \in Allowed)
      /\ approval \in [Requests -> ApprovalStatus \cup {"none"}]
  BY DEF Shape, EffectsApproved, Allowed
<1>1. ASSUME UNCHANGED <<effects, approval>> PROVE approval'[x] \in Allowed
  BY <1>0, <1>1
<1>2. CASE Loop BY <1>2, <1>1 DEF Loop, Undriven, rows
<1>3. CASE Start \/ Pull \/ Settle BY <1>3, <1>1 DEF Start, Pull, Settle
<1>4. ASSUME CancelGate, UNCHANGED effects PROVE approval'[x] \in Allowed
  <2>1. x \in Requests /\ approval[x] \in Allowed BY <1>0, <1>4
  <2>2. ~ParkedOn(x[1], x)
    BY <2>1 DEF ParkedOn, Asks, AskOf, Allowed, Requests
  <2> QED BY <1>4, <2>1, <2>2, CancelEffect
<1>5. CASE Close BY <1>5, <1>4 DEF Close, Dispose
<1>6. CASE AbortStep BY <1>6, <1>4 DEF AbortStep, Abort, Dispose
<1>7. CASE HttpCancelRow \/ Crash \/ Boot \/ SweepTask \/ Listen
  BY <1>7, <1>1 DEF HttpCancelRow, Crash, Boot, SweepTask, Listen, rows
<1>8. ASSUME NEW i \in Items,
             Spawn(i) \/ SpawnThrows(i) \/ CancelWorker(i) \/ SweepRun(i) \/ SweepItem(i)
      PROVE  approval'[x] \in Allowed
  BY <1>8, <1>1 DEF Spawn, SpawnThrows, CancelWorker, SweepRun, SweepItem, rows
<1>9. ASSUME NEW i \in Items, Require(i), UNCHANGED effects,
             worker[i] \in {"fresh", "streaming"}
      PROVE  approval'[x] \in Allowed
  <2>1. x \in Requests /\ approval[x] \in Allowed BY <1>0, <1>9
  <2>2. CASE UNCHANGED approval BY <2>1, <2>2
  <2>3. CASE /\ asked'[i] = asked[i] + 1 /\ asked'[i] \in 1..MaxAsks
             /\ \A y \in Requests : y # <<i, asked'[i]>> => approval'[y] = approval[y]
    <3>1. asked[i] \in 0..MaxAsks BY DEF Shape
    <3>2. approval[<<i, asked'[i]>>] = "none"
      <4>1. AskOf(i) BY DEF Asks
      <4>2. asked'[i] > asked[i] BY <2>3, <3>1
      <4> QED BY <1>9, <2>3, <4>1, <4>2 DEF AskOf
    <3> QED BY <2>1, <2>3, <3>2 DEF Allowed
  <2> QED BY <1>9, <2>2, <2>3, AskEffect
<1>10. ASSUME NEW i \in Items, StartItem(i) \/ Return(i) \/ SettleItem(i)
       PROVE  approval'[x] \in Allowed
  BY <1>10, <1>1 DEF StartItem, Return, SettleItem, Detached
<1>11. ASSUME NEW i \in Items, BeginRun(i) PROVE approval'[x] \in Allowed
  <2>1. worker[i] = "fresh" /\ UNCHANGED effects BY <1>11 DEF BeginRun, Detached
  <2>2. UNCHANGED approval \/ Require(i) BY <1>11 DEF BeginRun
  <2> QED BY <1>1, <1>9, <2>1, <2>2
<1>12. ASSUME NEW i \in Items, Ask(i) PROVE approval'[x] \in Allowed
  BY <1>12, <1>9 DEF Ask, Detached
<1>13. ASSUME NEW i \in Items, Resume(i) PROVE approval'[x] \in Allowed
  <2>1. worker[i] = "answered" /\ UNCHANGED approval BY <1>13 DEF Resume
  <2>2. CASE verdict[i] = "ok"
    <3>1. approval[<<i, asked[i]>>] \in Allowed BY <2>1, <2>2 DEF Asks, AskOf
    <3>2. effects' \subseteq effects \cup {<<i, asked[i]>>} BY <1>13 DEF Resume
    <3> QED BY <1>0, <2>1, <3>1, <3>2
  <2>3. CASE verdict[i] # "ok"
    <3>1. effects' = effects BY <1>13, <2>3 DEF Resume
    <3> QED BY <1>1, <2>1, <3>1
  <2> QED BY <2>2, <2>3
<1>14. ASSUME NEW y \in Requests, approval[y] = "pending", UNCHANGED effects,
              \A z \in Requests : z # y => approval'[z] = approval[z]
       PROVE  approval'[x] \in Allowed
  BY <1>0, <1>14 DEF Allowed
<1>15. ASSUME NEW y \in Requests, NEW approved \in BOOLEAN, Resolve(y, approved)
       PROVE  approval'[x] \in Allowed
  <2>1. UNCHANGED effects BY <1>15 DEF Resolve
  <2> QED BY <1>14, <1>15, <2>1, ResolveEffect
<1>16. ASSUME NEW y \in Requests, SweepApproval(y) PROVE approval'[x] \in Allowed
  <2>1. /\ approval[y] = "pending" /\ UNCHANGED effects
        /\ approval' = [approval EXCEPT ![y] = "expired"]
    BY <1>16 DEF SweepApproval
  <2> QED BY <1>0, <1>14, <2>1
<1> QED
  BY <1>2, <1>3, <1>5, <1>6, <1>7, <1>8, <1>10, <1>11, <1>12, <1>13, <1>15, <1>16,
     StepCases

-----------------------------------------------------------------------------
(* The boot sweep.                                                          *)
LEMMA TreeStep ==
  Shape /\ Places /\ Slots /\ Driving /\ InterruptedTreeClosed /\ [Next]_vars
    => InterruptedTreeClosed'
<1> SUFFICES ASSUME Shape, Places, Slots, Driving, InterruptedTreeClosed, [Next]_vars,
                    task' = "interrupted", NEW j \in Items
             PROVE  /\ ~Open(WorkItemTransitions, item'[j])
                    /\ ~Open(WorkerRunTransitions, run'[j])
  BY DEF InterruptedTreeClosed
<1> DEFINE Closed == /\ ~Open(WorkItemTransitions, item[j])
                     /\ ~Open(WorkerRunTransitions, run[j])
<1>1. ASSUME task = "interrupted", UNCHANGED <<item, run>> PROVE Closed'
  BY <1>1 DEF InterruptedTreeClosed
<1>2. task = "interrupted" => /\ drive = "none" /\ phase # "sweep"
                              /\ \A i \in Items : worker[i] = "none"
  BY TaskMoves DEF Driving, Shape, DriveStates, Looping, Results, TaskStatus
<1>3. CASE Loop BY <1>3, <1>1 DEF Loop, Undriven, rows
<1>4. CASE Start \/ Pull \/ HttpCancelRow BY <1>4 DEF Start, Pull, HttpCancelRow
<1>5. CASE Settle \/ Close
  <2>1. task = "interrupted"
    BY <1>5 DEF Settle, Close, TerminalStatus
  <2> QED BY <1>2, <1>5, <2>1 DEF Settle, Close
<1>6. CASE AbortStep BY <1>6, <1>1 DEF AbortStep, Abort
<1>7. CASE Crash \/ Boot \/ Listen BY <1>7, <1>1 DEF Crash, Boot, Listen, rows
<1>8. CASE SweepTask BY <1>8 DEF SweepTask
<1>9. ASSUME NEW i \in Items, Spawn(i) \/ SpawnThrows(i) \/ CancelWorker(i) PROVE FALSE
  BY <1>2, <1>9 DEF Spawn, SpawnThrows, CancelWorker, rows
<1>10. ASSUME NEW i \in Items, WorkerStep(i) PROVE FALSE
  <2>1. worker[i] # "none" /\ UNCHANGED task
    BY <1>10, WorkerCases DEF MovesOn, AsksGate
  <2> QED BY <1>2, <2>1
<1>11. ASSUME NEW i \in Items, SweepRun(i) \/ SweepItem(i) PROVE FALSE
  BY <1>2, <1>11 DEF SweepRun, SweepItem
<1>12. ASSUME NEW x \in Requests, NEW approved \in BOOLEAN, Resolve(x, approved)
       PROVE  Closed'
  BY <1>12, <1>1 DEF Resolve
<1>13. ASSUME NEW x \in Requests, SweepApproval(x) PROVE Closed'
  BY <1>13, <1>1 DEF SweepApproval
<1> QED
  BY <1>3, <1>4, <1>5, <1>6, <1>7, <1>8, <1>9, <1>10, <1>11, <1>12, <1>13, StepCases
  DEF WorkerStep

-----------------------------------------------------------------------------
(* The Ledger.                                                              *)

(* The moves of the four tables that the engine makes.                      *)
LEMMA RowMoves ==
  /\ \A s \in TaskStatus : Open(TaskTransitions, s) =>
       {"cancelled", "interrupted"} \subseteq TaskTransitions[s]
  /\ "running" \in TaskTransitions["pending"]
  /\ \A s \in WorkItemStatus : Open(WorkItemTransitions, s) =>
       "interrupted" \in WorkItemTransitions[s]
  /\ "running" \in WorkItemTransitions["pending"]
  /\ Results \subseteq WorkItemTransitions["running"]
  /\ \A s \in WorkerRunStatus : Open(WorkerRunTransitions, s) =>
       "interrupted" \in WorkerRunTransitions[s]
  /\ {"streaming", "failed", "cancelled"} \subseteq WorkerRunTransitions["created"]
  /\ Results \subseteq WorkerRunTransitions["streaming"]
  /\ {"approved", "denied", "expired"} \subseteq ApprovalTransitions["pending"]
<1>1. /\ \A s \in TaskStatus : Open(TaskTransitions, s) =>
            {"cancelled", "interrupted"} \subseteq TaskTransitions[s]
      /\ "running" \in TaskTransitions["pending"]
  BY DEF Open, IsTerminal, TaskTransitions, TaskStatus
<1>2. /\ \A s \in WorkItemStatus : Open(WorkItemTransitions, s) =>
            "interrupted" \in WorkItemTransitions[s]
      /\ "running" \in WorkItemTransitions["pending"]
      /\ Results \subseteq WorkItemTransitions["running"]
  BY DEF Open, IsTerminal, WorkItemTransitions, WorkItemStatus, TaskStatus, Results
<1>3. /\ \A s \in WorkerRunStatus : Open(WorkerRunTransitions, s) =>
            "interrupted" \in WorkerRunTransitions[s]
      /\ {"streaming", "failed", "cancelled"} \subseteq WorkerRunTransitions["created"]
      /\ Results \subseteq WorkerRunTransitions["streaming"]
  BY DEF Open, IsTerminal, WorkerRunTransitions, WorkerRunStatus, Results
<1>4. {"approved", "denied", "expired"} \subseteq ApprovalTransitions["pending"]
  BY DEF ApprovalTransitions, ApprovalStatus
<1> QED BY <1>1, <1>2, <1>3, <1>4

(* The initial rows are the Ledger's.                                       *)
LEMMA LedgerInit == Init => TheLedger!Init
BY DEF Init, TheLedger!Init
(* The Ledger's instance has its own copy of the tables.                    *)
LEMMA SameTables ==
  /\ TheLedger!TaskTransitions = TaskTransitions
  /\ TheLedger!WorkItemTransitions = WorkItemTransitions
  /\ TheLedger!WorkerRunTransitions = WorkerRunTransitions
  /\ TheLedger!ApprovalTransitions = ApprovalTransitions
<1>1. TheLedger!TaskTransitions = TaskTransitions
  BY DEF TheLedger!TaskTransitions, TaskTransitions, TheLedger!TaskStatus, TaskStatus
<1>2. TheLedger!WorkItemTransitions = WorkItemTransitions
  BY DEF TheLedger!WorkItemTransitions, WorkItemTransitions, TheLedger!WorkItemStatus,
         WorkItemStatus, TheLedger!TaskStatus, TaskStatus
<1>3. TheLedger!WorkerRunTransitions = WorkerRunTransitions
  BY DEF TheLedger!WorkerRunTransitions, WorkerRunTransitions,
         TheLedger!WorkerRunStatus, WorkerRunStatus
<1>4. TheLedger!ApprovalTransitions = ApprovalTransitions
  BY DEF TheLedger!ApprovalTransitions, ApprovalTransitions,
         TheLedger!ApprovalStatus, ApprovalStatus
<1> QED BY <1>1, <1>2, <1>3, <1>4

(* The Ledger's step, unfolded over the engine's rows.                      *)
LEMMA LedgerForms ==
  /\ TheLedger!TaskRow <=> RowMove(TaskTransitions, {"pending"}, task, task')
  /\ \A i \in Items : TheLedger!ItemRow(i) <=>
       /\ RowMove(WorkItemTransitions, {"pending"}, item[i], item'[i])
       /\ item[i] = "none" /\ item'[i] # "none" => task \notin {"none", "pending"}
       /\ item'[i] # item[i] /\ ~Open(WorkItemTransitions, item'[i]) =>
            ~Open(WorkerRunTransitions, run[i])
  /\ \A i \in Items : TheLedger!RunRow(i) <=>
       /\ RowMove(WorkerRunTransitions, {"created"}, run[i], run'[i])
       /\ run[i] = "none" /\ run'[i] # "none" =>
            item[i] = "pending" /\ item'[i] = "running"
  /\ \A x \in Requests : TheLedger!ApprovalRow(x) <=>
       /\ RowMove(ApprovalTransitions, {"pending", "auto_approved"},
                  approval[x], approval'[x])
       /\ approval[x] = "none" /\ approval'[x] # "none" =>
            /\ task = "running" /\ item[x[1]] = "running"
            /\ Open(WorkerRunTransitions, run[x[1]])
BY SameTables
DEF TheLedger!TaskRow, TheLedger!ItemRow, TheLedger!RunRow, TheLedger!ApprovalRow,
    TheLedger!RowMove, RowMove, TheLedger!Open, Open, TheLedger!IsTerminal, IsTerminal,
    RequestOwner

(* Every step moves the task row as the Ledger allows.                      *)
LEMMA LedgerTask == IInv /\ [Next]_vars => TheLedger!TaskRow
<1> SUFFICES ASSUME IInv, [Next]_vars PROVE RowMove(TaskTransitions, {"pending"}, task, task')
  BY LedgerForms
<1>0. task \in TaskStatus \cup {"none"} /\ Driving BY DEF IInv, Shape
<1> USE DEF RowMove
<1>1. CASE Loop BY <1>1 DEF Loop, Undriven, rows
<1>2. CASE Start BY <1>2 DEF Start
<1>3. CASE Pull BY <1>0, <1>3, RowMoves DEF Pull, Driving
<1>4. CASE Settle
  <2>1. task # "none" BY <1>0, <1>4 DEF Settle, Driving, Looping
  <2> QED BY <1>4, <2>1 DEF Settle
<1>5. CASE Close \/ AbortStep \/ Crash \/ Boot \/ Listen
  BY <1>5 DEF Close, AbortStep, Abort, Crash, Boot, Listen, rows
<1>6. CASE HttpCancelRow
  <2>1. task \in TaskStatus /\ Open(TaskTransitions, task) /\ task' = "cancelled"
    BY <1>0, <1>6 DEF HttpCancelRow
  <2> QED BY <2>1, RowMoves DEF TaskStatus
<1>7. CASE SweepTask
  <2>1. Open(TaskTransitions, task) /\ task' = "interrupted"
    BY <1>0, <1>7 DEF SweepTask, Driving
  <2>2. task \in TaskStatus BY <1>0, <2>1 DEF Open
  <2> QED BY <2>1, <2>2, RowMoves DEF TaskStatus
<1>8. ASSUME NEW i \in Items,
             Spawn(i) \/ SpawnThrows(i) \/ CancelWorker(i) \/ SweepRun(i) \/ SweepItem(i)
      PROVE  task' = task
  BY <1>8 DEF Spawn, SpawnThrows, CancelWorker, SweepRun, SweepItem, rows
<1>9. ASSUME NEW i \in Items, WorkerStep(i) PROVE task' = task
  BY <1>9, WorkerCases DEF IInv, MovesOn, AsksGate
<1>10. ASSUME NEW x \in Requests, NEW approved \in BOOLEAN,
              Resolve(x, approved) \/ SweepApproval(x)
       PROVE  task' = task
  BY <1>10 DEF Resolve, SweepApproval
<1> QED
  BY <1>1, <1>2, <1>3, <1>4, <1>5, <1>6, <1>7, <1>8, <1>9, <1>10, StepCases
  DEF WorkerStep

(* ... each item row,                                                       *)
LEMMA LedgerItem ==
  ASSUME IInv, [Next]_vars, NEW j \in Items PROVE TheLedger!ItemRow(j)
<1>0. /\ item \in [Items -> WorkItemStatus \cup {"none"}] /\ PlaceOf(j)
      /\ run \in [Items -> WorkerRunStatus \cup {"none"}]
      /\ Shape /\ Driving /\ Places
  BY DEF IInv, Shape, Places
<1> DEFINE Row ==
            /\ RowMove(WorkItemTransitions, {"pending"}, item[j], item'[j])
            /\ item[j] = "none" /\ item'[j] # "none" => task \notin {"none", "pending"}
            /\ item'[j] # item[j] /\ ~Open(WorkItemTransitions, item'[j]) =>
                 ~Open(WorkerRunTransitions, run[j])
<1> SUFFICES Row BY LedgerForms
<1> USE DEF RowMove
<1>1. item'[j] = item[j] => Row OBVIOUS
<1>2. CASE UNCHANGED item BY <1>1, <1>2
<1>3. CASE Loop \/ Start \/ Pull \/ Settle \/ Close
  BY <1>2, <1>3 DEF Loop, Undriven, rows, Start, Pull, Settle, Close
<1>4. CASE AbortStep \/ HttpCancelRow \/ Crash \/ Boot \/ SweepTask \/ Listen
  BY <1>2, <1>4 DEF AbortStep, Abort, HttpCancelRow, Crash, Boot, SweepTask, Listen, rows
<1>5. ASSUME NEW i \in Items, Spawn(i) \/ SpawnThrows(i) PROVE Row
  <2>1. /\ drive = "tools" /\ item[i] = "none"
        /\ item' = [item EXCEPT ![i] = "pending"]
    BY <1>5 DEF Spawn, SpawnThrows
  <2>2. task \notin {"none", "pending"} BY <1>0, <2>1 DEF Driving, Looping
  <2>3. CASE j # i BY <1>0, <1>1, <2>1, <2>3
  <2>4. CASE j = i
    <3>1. run[i] = "none" BY <1>0, <2>1, <2>4 DEF PlaceOf
    <3> QED BY <1>0, <2>1, <2>2, <2>4, <3>1 DEF Open
  <2> QED BY <2>3, <2>4
<1>6. ASSUME NEW i \in Items, CancelWorker(i) \/ SweepRun(i) PROVE Row
  BY <1>2, <1>6 DEF CancelWorker, SweepRun, rows
<1>7. ASSUME NEW i \in Items, NEW s \in WorkItemStatus, item' = [item EXCEPT ![i] = s],
             item[i] \in WorkItemStatus, s \in WorkItemTransitions[item[i]],
             \/ Open(WorkItemTransitions, s)
             \/ ~Open(WorkerRunTransitions, run[i])
      PROVE  Row
  <2>1. item[i] # "none" BY <1>7 DEF WorkItemStatus, TaskStatus
  <2>2. CASE j # i BY <1>0, <1>1, <1>7, <2>2
  <2>3. CASE j = i
    <3>1. item'[j] = s BY <1>0, <1>7, <2>3
    <3> QED BY <1>7, <2>1, <2>3, <3>1
  <2> QED BY <2>2, <2>3
<1>8. ASSUME NEW i \in Items, StartItem(i) PROVE Row
  <2>1. item' = [item EXCEPT ![i] = "running"] /\ item[i] = "pending"
    BY <1>0, <1>8 DEF StartItem, Places, PlaceOf
  <2>2. Open(WorkItemTransitions, "running")
    BY DEF Open, IsTerminal, WorkItemTransitions, WorkItemStatus, TaskStatus
  <2>3. "running" \in WorkItemStatus /\ "pending" \in WorkItemStatus
    BY DEF WorkItemStatus, TaskStatus
  <2> QED BY <1>7, <2>1, <2>2, <2>3, RowMoves
<1>9. ASSUME NEW i \in Items, BeginRun(i) \/ Ask(i) \/ Resume(i) \/ Return(i)
      PROVE  Row
  BY <1>2, <1>9 DEF BeginRun, Ask, Resume, Return
<1>10. ASSUME NEW i \in Items, SettleItem(i) PROVE Row
  <2>1. /\ item' = [item EXCEPT ![i] = run[i]] /\ item[i] = "running"
        /\ run[i] \in Results
    BY <1>0, <1>10 DEF SettleItem, Places, PlaceOf
  <2>2. ~Open(WorkerRunTransitions, run[i])
    BY <2>1 DEF Open, IsTerminal, WorkerRunTransitions, WorkerRunStatus, Results
  <2>3. "running" \in WorkItemStatus /\ run[i] \in WorkItemStatus
    BY <2>1 DEF WorkItemStatus, TaskStatus, Results
  <2> QED BY <1>7, <2>1, <2>2, <2>3, RowMoves
<1>11. ASSUME NEW i \in Items, SweepItem(i) PROVE Row
  <2>1. /\ item' = [item EXCEPT ![i] = "interrupted"] /\ Open(WorkItemTransitions, item[i])
        /\ ~Open(WorkerRunTransitions, run[i])
    BY <1>11 DEF SweepItem
  <2>2. item[i] \in WorkItemStatus BY <1>0, <2>1 DEF Open
  <2>3. "interrupted" \in WorkItemStatus BY DEF WorkItemStatus, TaskStatus
  <2> QED BY <1>7, <2>1, <2>2, <2>3, RowMoves
<1>12. ASSUME NEW x \in Requests, NEW approved \in BOOLEAN,
              Resolve(x, approved) \/ SweepApproval(x)
       PROVE  Row
  BY <1>2, <1>12 DEF Resolve, SweepApproval
<1> QED
  BY <1>3, <1>4, <1>5, <1>6, <1>8, <1>9, <1>10, <1>11, <1>12, StepCases

(* ... each run row,                                                        *)
LEMMA LedgerRun ==
  ASSUME IInv, [Next]_vars, NEW j \in Items PROVE TheLedger!RunRow(j)
<1>0. /\ run \in [Items -> WorkerRunStatus \cup {"none"}]
      /\ item \in [Items -> WorkItemStatus \cup {"none"}]
      /\ Shape /\ Places
  BY DEF IInv, Shape
<1> DEFINE Row ==
            /\ RowMove(WorkerRunTransitions, {"created"}, run[j], run'[j])
            /\ run[j] = "none" /\ run'[j] # "none" =>
                 item[j] = "pending" /\ item'[j] = "running"
<1> SUFFICES Row BY LedgerForms
<1> USE DEF RowMove
<1>1. run'[j] = run[j] => Row OBVIOUS
<1>2. CASE UNCHANGED run BY <1>1, <1>2
<1>3. CASE Loop \/ Start \/ Pull \/ Settle \/ Close
  BY <1>2, <1>3 DEF Loop, Undriven, rows, Start, Pull, Settle, Close
<1>4. CASE AbortStep \/ HttpCancelRow \/ Crash \/ Boot \/ SweepTask \/ Listen
  BY <1>2, <1>4 DEF AbortStep, Abort, HttpCancelRow, Crash, Boot, SweepTask, Listen, rows
<1>5. ASSUME NEW i \in Items, Spawn(i) \/ SpawnThrows(i) \/ CancelWorker(i)
                             \/ SweepItem(i) \/ Ask(i) \/ SettleItem(i)
      PROVE  Row
  BY <1>2, <1>5 DEF Spawn, SpawnThrows, CancelWorker, SweepItem, Ask, SettleItem, rows
<1>6. ASSUME NEW i \in Items, StartItem(i) PROVE Row
  <2>1. /\ run' = [run EXCEPT ![i] = "created"] /\ run[i] = "none"
        /\ item' = [item EXCEPT ![i] = "running"] /\ item[i] = "pending"
    BY <1>0, <1>6 DEF StartItem, Places, PlaceOf
  <2> QED BY <1>0, <1>1, <2>1
<1>7. ASSUME NEW i \in Items, NEW s \in WorkerRunStatus, run' = [run EXCEPT ![i] = s],
             run[i] \in WorkerRunStatus, s \in WorkerRunTransitions[run[i]]
      PROVE  Row
  <2>1. run[i] # "none" BY <1>7 DEF WorkerRunStatus
  <2>2. CASE j # i BY <1>0, <1>1, <1>7, <2>2
  <2>3. CASE j = i
    <3>1. run'[j] = s BY <1>0, <1>7, <2>3
    <3> QED BY <1>7, <2>1, <2>3, <3>1
  <2> QED BY <2>2, <2>3
<1>8. ASSUME NEW i \in Items, SweepRun(i) PROVE Row
  <2>1. /\ run' = [run EXCEPT ![i] = "interrupted"] /\ Open(WorkerRunTransitions, run[i])
    BY <1>8 DEF SweepRun
  <2>2. run[i] \in WorkerRunStatus BY <1>0, <2>1 DEF Open
  <2>3. "interrupted" \in WorkerRunStatus BY DEF WorkerRunStatus
  <2> QED BY <1>7, <2>1, <2>2, <2>3, RowMoves
<1>9. ASSUME NEW i \in Items, BeginRun(i) PROVE Row
  <2>1. run[i] = "created" BY <1>0, <1>9 DEF BeginRun, Places, PlaceOf
  <2>2. \/ UNCHANGED run
        \/ \E s \in {"streaming", "cancelled"} : run' = [run EXCEPT ![i] = s]
    BY <1>9 DEF BeginRun, ReturnWith
  <2>3. {"created", "streaming", "cancelled"} \subseteq WorkerRunStatus
    BY DEF WorkerRunStatus
  <2> QED BY <1>2, <1>7, <2>1, <2>2, <2>3, RowMoves
<1>10. ASSUME NEW i \in Items, Resume(i) PROVE Row
  <2>1. i \in Tier3 => run[i] = "created" BY <1>0, <1>10 DEF Resume, Places, PlaceOf
  <2>2. \/ UNCHANGED run
        \/ /\ i \in Tier3
           /\ \E s \in {"streaming", "failed", "cancelled"} : run' = [run EXCEPT ![i] = s]
    BY <1>10 DEF Resume, ReturnWith
  <2>3. {"created", "streaming", "failed", "cancelled"} \subseteq WorkerRunStatus
    BY DEF WorkerRunStatus
  <2> QED BY <1>2, <1>7, <2>1, <2>2, <2>3, RowMoves
<1>11. ASSUME NEW i \in Items, Return(i) PROVE Row
  <2>1. run[i] = "streaming" BY <1>0, <1>11 DEF Return, Places, PlaceOf
  <2>2. \E s \in Results : run' = [run EXCEPT ![i] = s]
    BY <1>11 DEF Return, ReturnWith, Results
  <2>3. Results \subseteq WorkerRunStatus /\ "streaming" \in WorkerRunStatus
    BY DEF WorkerRunStatus, Results
  <2> QED BY <1>7, <2>1, <2>2, <2>3, RowMoves
<1>12. ASSUME NEW x \in Requests, NEW approved \in BOOLEAN,
              Resolve(x, approved) \/ SweepApproval(x)
       PROVE  Row
  BY <1>2, <1>12 DEF Resolve, SweepApproval
<1> QED
  BY <1>3, <1>4, <1>5, <1>6, <1>8, <1>9, <1>10, <1>11, <1>12, StepCases

(* ... and each request.                                                    *)
LEMMA LedgerApproval ==
  ASSUME IInv, [Next]_vars, NEW x \in Requests PROVE TheLedger!ApprovalRow(x)
<1>0. /\ approval \in [Requests -> ApprovalStatus \cup {"none"}]
      /\ x[1] \in Items /\ x = <<x[1], x[2]>> /\ x[2] \in 1..MaxAsks
      /\ Shape /\ Places /\ Slots /\ Asks /\ Driving /\ Told
  BY DEF IInv, Shape, Requests
<1> DEFINE Row == /\ RowMove(ApprovalTransitions, {"pending", "auto_approved"},
                             approval[x], approval'[x])
                  /\ approval[x] = "none" /\ approval'[x] # "none" =>
                       /\ task = "running" /\ item[x[1]] = "running"
                       /\ Open(WorkerRunTransitions, run[x[1]])
<1> SUFFICES Row BY LedgerForms
<1> USE DEF RowMove
<1>1. approval'[x] = approval[x] => Row OBVIOUS
<1>2. CASE UNCHANGED approval BY <1>1, <1>2
<1>3. CASE Loop \/ Start \/ Pull \/ Settle
  BY <1>2, <1>3 DEF Loop, Undriven, rows, Start, Pull, Settle
<1>4. CASE HttpCancelRow \/ Crash \/ Boot \/ SweepTask \/ Listen
  BY <1>2, <1>4 DEF HttpCancelRow, Crash, Boot, SweepTask, Listen, rows
<1>5. ASSUME NEW i \in Items, Spawn(i) \/ SpawnThrows(i) \/ CancelWorker(i)
                             \/ SweepRun(i) \/ SweepItem(i)
      PROVE  Row
  BY <1>2, <1>5 DEF Spawn, SpawnThrows, CancelWorker, SweepRun, SweepItem, rows
<1>6. ASSUME approval[x] = "pending", approval'[x] \in {"approved", "denied", "expired"}
      PROVE  Row
  BY <1>6, RowMoves
<1>7. ASSUME CancelGate PROVE Row
  <2>1. \/ ParkedOn(x[1], x) /\ approval'[x] = "denied"
        \/ approval'[x] = approval[x]
    BY <1>0, <1>7, CancelEffect
  <2>2. ParkedOn(x[1], x) => approval[x] = "pending"
    BY <1>0 DEF ParkedOn, Asks, AskOf
  <2> QED BY <1>1, <1>6, <2>1, <2>2
<1>8. CASE Close \/ AbortStep
  BY <1>7, <1>8 DEF Close, AbortStep, Abort, Dispose
<1>9. ASSUME NEW i \in Items, WorkerStep(i) PROVE Row
  <2>1. CASE MovesOn(i) BY <1>2, <2>1 DEF MovesOn
  <2>2. CASE AsksGate(i)
    <3>1. worker[i] \in {"fresh", "streaming"} /\ ~wabort[i] /\ Require(i)
      BY <2>2 DEF AsksGate
    <3>2. CASE gate = "open" /\ x = <<i, asked'[i]>> /\ asked'[i] = asked[i] + 1
      <4>1. i = x[1] /\ i \in Items BY <1>0, <3>2
      <4>2. session BY <1>0, <3>2 DEF Told
      <4>3. i \in Unsettled BY <3>1 DEF Unsettled
      <4>4. task = "running"
        <5>1. drive \notin {"none", "started", "settled", "done"}
          BY <1>0, <3>1, <4>2, <4>3 DEF Driving
        <5>2. drive \in Looping BY <1>0, <5>1 DEF Shape, DriveStates, Looping
        <5> QED BY <1>0, <4>2, <5>2 DEF Driving
      <4>5. item[i] = "running" /\ run[i] \in {"created", "streaming"}
        BY <1>0, <3>1 DEF Places, PlaceOf
      <4>6. Open(WorkerRunTransitions, run[i])
        BY <4>5 DEF Open, IsTerminal, WorkerRunTransitions, WorkerRunStatus
      <4>7. approval[x] = "none"
        <5>1. AskOf(i) /\ asked[i] \in 0..MaxAsks BY <1>0 DEF Asks, Shape
        <5>2. x[2] = asked'[i] /\ x[2] > asked[i] BY <1>0, <3>2, <5>1
        <5> QED BY <1>0, <3>1, <3>2, <4>1, <5>1, <5>2 DEF AskOf
      <4>8. approval'[x] \in {"pending", "auto_approved", "none"}
        BY <1>0, <3>1, <3>2, <4>7, AskEffect
      <4> QED BY <4>1, <4>4, <4>5, <4>6, <4>7, <4>8
    <3>3. CASE ~(gate = "open" /\ x = <<i, asked'[i]>> /\ asked'[i] = asked[i] + 1)
      <4>1. approval'[x] = approval[x] BY <1>0, <3>1, <3>3, AskEffect
      <4> QED BY <1>1, <4>1
    <3> QED BY <3>2, <3>3
  <2> QED BY <1>0, <1>9, <2>1, <2>2, WorkerCases
<1>10. ASSUME NEW y \in Requests, NEW approved \in BOOLEAN, Resolve(y, approved)
       PROVE  Row
  <2>1. CASE y = x
    <3>1. approval[x] = "pending" /\ approval'[x] \in {"approved", "denied"}
      BY <1>0, <1>10, <2>1, ResolveEffect
    <3> QED BY <1>6, <3>1
  <2>2. CASE y # x
    <3>1. approval'[x] = approval[x] BY <1>0, <1>10, <2>2, ResolveEffect
    <3> QED BY <1>1, <3>1
  <2> QED BY <2>1, <2>2
<1>11. ASSUME NEW y \in Requests, SweepApproval(y) PROVE Row
  <2>1. /\ approval[y] = "pending" /\ approval' = [approval EXCEPT ![y] = "expired"]
    BY <1>11 DEF SweepApproval
  <2> QED BY <1>0, <1>1, <1>6, <2>1
<1> QED
  BY <1>3, <1>4, <1>5, <1>8, <1>9, <1>10, <1>11, StepCases DEF WorkerStep

-----------------------------------------------------------------------------
(* The theorems.                                                            *)

(* The parts together: every reachable state satisfies IInv.                *)
THEOREM Invariance == Spec => []IInv
<1>1. IInv /\ [Next]_vars => IInv'
  BY ShapeStep, PlacesStep, SlotsStep, AsksStep, DrivingStep, ToldStep,
     PendingStep, EffectsStep, TreeStep DEF IInv
<1> QED BY <1>1, InitIInv, PTL DEF Spec

(* Types, the limiter's count among them: it never goes below zero.         *)
THEOREM Typed == Spec => []TypeOK
<1>1. IInv => TypeOK
  <2> SUFFICES ASSUME IInv PROVE TypeOK OBVIOUS
  <2>1. IsFiniteSet(SlotsOf(worker))
    BY ItemsAssumption, FS_Subset DEF SlotsOf
  <2>2. active \in Nat
    BY <2>1, FS_CardinalityType DEF IInv, Slots
  <2>3. Shape BY DEF IInv
  <2> QED BY <2>2, <2>3 DEF Shape, TypeOK
<1> QED BY <1>1, Invariance, PTL

(* A worker parked on the approval gate can always be answered, whatever    *)
(* was cancelled, clicked twice or aborted before: require() in approvals.ts *)
(* listens to nothing but its resolver.                                     *)
THEOREM NeverStranded == Spec => []ParkedAnswerable
<1>1. IInv => ParkedAnswerable
  BY DEF IInv, Asks, AskOf, Told, ParkedAnswerable
<1> QED BY <1>1, Invariance, PTL

(* While a process drives the task, a pending request has its worker.       *)
THEOREM NoOrphanCard == Spec => []PendingIsParked
<1>1. IInv => PendingIsParked BY DEF IInv
<1> QED BY <1>1, Invariance, PTL

(* Nothing gated was carried out without a row that allows it.              *)
THEOREM OnlyApproved == Spec => []EffectsApproved
<1>1. IInv => EffectsApproved BY DEF IInv
<1> QED BY <1>1, Invariance, PTL

(* After an abort the session is gone, the gate refuses and every worker    *)
(* that has not settled has its signal set.                                 *)
THEOREM AbortReaches == Spec => []AbortReachesAll
<1>1. IInv => AbortReachesAll BY DEF IInv, Told, AbortReachesAll
<1> QED BY <1>1, Invariance, PTL

(* The limiter counts exactly the jobs it began, never exceeds the          *)
(* concurrency, leaves no slot idle over a queue and forgets no job.        *)
THEOREM LimiterIsExact == Spec => []LimiterExact
<1>1. IInv => LimiterExact
  <2> SUFFICES ASSUME IInv PROVE LimiterExact OBVIOUS
  <2>1. Running = SlotsOf(worker) BY DEF Running, SlotsOf
  <2>2. \A i \in Items : worker[i] = "queued" <=> \E n \in 1..Len(queue) : queue[n] = i
    BY DEF IInv, Slots, QueueOf
  <2> QED BY <2>1, <2>2 DEF IInv, Slots, LimiterExact
<1> QED BY <1>1, Invariance, PTL

(* When the boot sweep has closed the task, everything below it is closed.  *)
THEOREM TreeClosed == Spec => []InterruptedTreeClosed
<1>1. IInv => InterruptedTreeClosed BY DEF IInv
<1> QED BY <1>1, Invariance, PTL

(* The engine implements the Ledger: every row it writes moves legally,     *)
(* children are planned and begun under parents that allow it, an item      *)
(* closes after its run, and no request is opened for a task that is over.  *)
THEOREM Refinement == Spec => ImplementsLedger
<1>1. IInv /\ IInv' /\ [Next]_vars => [TheLedger!Next]_(TheLedger!rows)
  <2> SUFFICES ASSUME IInv, IInv', [Next]_vars PROVE TheLedger!Next
    OBVIOUS
  <2>1. TheLedger!TaskRow BY LedgerTask
  <2>2. /\ item' \in [Items -> TheLedger!WorkItemStatus \cup {"none"}]
        /\ run' \in [Items -> TheLedger!WorkerRunStatus \cup {"none"}]
        /\ approval' \in [Requests -> TheLedger!ApprovalStatus \cup {"none"}]
    BY DEF IInv, Shape, WorkItemStatus, WorkerRunStatus, ApprovalStatus, TaskStatus,
           TheLedger!WorkItemStatus, TheLedger!WorkerRunStatus,
           TheLedger!ApprovalStatus, TheLedger!TaskStatus
  <2>3. \A i \in Items : TheLedger!ItemRow(i) /\ TheLedger!RunRow(i)
    BY LedgerItem, LedgerRun
  <2>4. \A x \in Requests : TheLedger!ApprovalRow(x) BY LedgerApproval
  <2> QED BY <2>1, <2>2, <2>3, <2>4 DEF TheLedger!Next
<1> QED
  BY <1>1, LedgerInit, Invariance, PTL DEF Spec, ImplementsLedger, TheLedger!Spec
=============================================================================
