-------------------------------- MODULE View --------------------------------
(***************************************************************************)
(* One task's rows and the events that tell of them. A repository method   *)
(* writes the row and then appends the event, two statements of their own; *)
(* the fold makes the dashboard's view of the task out of the events only. *)
(***************************************************************************)
EXTENDS Lifecycle, Integers, Sequences, SequencesExt

CONSTANTS MaxItems, MaxCosts, MaxCap,  \* bounds: work items, cost records, raised caps
          MaxEvents, MaxCrashes  \* bounds

ViewAssumption == {MaxItems, MaxCosts, MaxCap, MaxEvents, MaxCrashes} \subseteq Nat

VARIABLES task, items, approval, costs, cap,  \* the tables: one task's rows
          log,      \* its events, by seq
          owed,     \* the event whose row is written, none if <<>>
          crashes,
          lost      \* history: a process died owing an event

rows == <<task, items, approval, costs, cap>>
vars == <<rows, log, owed, crashes, lost>>

Event(type, i, x) == [type |-> type, i |-> i, x |-> x]

Init ==
    /\ task = "none" /\ items = <<>> /\ approval = "none" /\ costs = <<>> /\ cap = 0
    /\ log = <<>> /\ owed = <<>> /\ crashes = 0 /\ lost = FALSE

----------------------------------------------------------------------------
(* Repository methods: guarded, one row, one event owed.                   *)
Write(event) == owed = <<>> /\ Len(log) < MaxEvents /\ owed' = <<event>>
Rest == UNCHANGED <<log, crashes, lost>>

createTask ==
    /\ task = "none" /\ task' = "pending" /\ Write(Event("task.created", 0, 0))
    /\ Rest /\ UNCHANGED <<items, approval, costs, cap>>
transitionTask(to) ==
    /\ task # "none" /\ to \in TaskTransitions[task] /\ task' = to
    /\ Write(Event("task.status_changed", 0, to))
    /\ Rest /\ UNCHANGED <<items, approval, costs, cap>>
updateTaskSettings ==
    /\ task # "none" /\ cap < MaxCap /\ cap' = cap + 1
    /\ Write(Event("task.settings_changed", 0, cap + 1))
    /\ Rest /\ UNCHANGED <<task, items, approval, costs>>

createWorkItem ==
    /\ task = "running" /\ Len(items) < MaxItems
    /\ items' = Append(items, [status |-> "pending", run |-> "none"])
    /\ Write(Event("work_item.created", Len(items) + 1, 0))
    /\ Rest /\ UNCHANGED <<task, approval, costs, cap>>
transitionWorkItem(i, to) ==
    /\ to \in WorkItemTransitions[items[i].status] /\ items' = [items EXCEPT ![i].status = to]
    /\ Write(Event("work_item.status_changed", i, to))
    /\ Rest /\ UNCHANGED <<task, approval, costs, cap>>
createWorkerRun(i) ==
    /\ items[i].run = "none" /\ items' = [items EXCEPT ![i].run = "created"]
    /\ Write(Event("worker_run.created", i, 0))
    /\ Rest /\ UNCHANGED <<task, approval, costs, cap>>
transitionWorkerRun(i, to) ==
    /\ items[i].run # "none" /\ to \in WorkerRunTransitions[items[i].run]
    /\ items' = [items EXCEPT ![i].run = to] /\ Write(Event("worker_run.status_changed", i, to))
    /\ Rest /\ UNCHANGED <<task, approval, costs, cap>>

createApproval ==
    /\ task = "running" /\ approval = "none" /\ approval' = "pending"
    /\ Write(Event("approval.requested", 0, "pending"))
    /\ Rest /\ UNCHANGED <<task, items, costs, cap>>
resolveApproval(to) ==
    /\ approval # "none" /\ to \in ApprovalTransitions[approval] /\ approval' = to
    /\ Write(Event("approval.resolved", 0, to))
    /\ Rest /\ UNCHANGED <<task, items, costs, cap>>

(* A call of the initiator's (0) or of the worker of an item; the amounts  *)
(* tell them apart.                                                        *)
recordCost(i) ==
    /\ task # "none" /\ Len(costs) < MaxCosts
    /\ (IF i = 0 THEN TRUE ELSE items[i].run # "none")
    /\ costs' = Append(costs, i) /\ Write(Event("cost.recorded", i, i + 1))
    /\ Rest /\ UNCHANGED <<task, items, approval, cap>>

(* EventBus.append                                                         *)
AppendEvent ==
    /\ owed # <<>> /\ log' = log \o owed /\ owed' = <<>>
    /\ UNCHANGED <<rows, crashes, lost>>

(* The process dies, perhaps between the two statements, and boots again.  *)
Crash ==
    /\ crashes < MaxCrashes /\ crashes' = crashes + 1
    /\ lost' = (lost \/ owed # <<>>) /\ owed' = <<>>
    /\ UNCHANGED <<rows, log>>

----------------------------------------------------------------------------
(* The fold. An item keeps its label and what its run cost.                *)
Empty == [known |-> FALSE, status |-> "none", cap |-> 0, items |-> <<>>, approval |-> "none",
          cost |-> 0, initiator |-> 0, orphans |-> 0]

At(f, i) == {k \in 1..Len(f.items) : f.items[k].id = i}
Orphan(f) == [f EXCEPT !.orphans = @ + 1]

mapWorkItem(f, i, F(_)) ==
    IF At(f, i) = {} THEN Orphan(f)
    ELSE LET k == CHOOSE k \in At(f, i) : TRUE IN [f EXCEPT !.items[k] = F(@)]
mapRun(f, i, F(_)) ==
    IF \E k \in At(f, i) : f.items[k].run # "none" THEN mapWorkItem(f, i, F) ELSE Orphan(f)

(* Money nobody can place is still the task's.                             *)
applyCost(f, i, usd) ==
    LET g == [f EXCEPT !.cost = @ + usd] IN
    CASE i = 0 -> [g EXCEPT !.initiator = @ + usd]
      [] i # 0 /\ (\E k \in At(f, i) : f.items[k].run # "none") ->
             mapRun(g, i, LAMBDA w : [w EXCEPT !.cost = w.cost + usd])
      [] OTHER -> g

applyEvent(f, e) ==
    LET patch(w) == [w EXCEPT !.status = e.x]
        patchRun(w) == [w EXCEPT !.run = e.x] IN
    CASE e.type = "task.created" -> [Empty EXCEPT !.known = TRUE, !.status = "pending", !.orphans = f.orphans]
      [] e.type # "task.created" /\ ~f.known -> Orphan(f)
      [] f.known /\ e.type = "task.status_changed" -> [f EXCEPT !.status = e.x]
      [] f.known /\ e.type = "task.settings_changed" -> [f EXCEPT !.cap = e.x]
      [] f.known /\ e.type = "work_item.created" ->
             IF At(f, e.i) # {} THEN Orphan(f)
             ELSE [f EXCEPT !.items = Append(@, [id |-> e.i, label |-> Len(@) + 1, status |-> "pending",
                                                 run |-> "none", cost |-> 0])]
      [] f.known /\ e.type = "work_item.status_changed" -> mapWorkItem(f, e.i, patch)
      [] f.known /\ e.type = "worker_run.created" ->
             mapWorkItem(f, e.i, LAMBDA w : IF w.run = "none" THEN [w EXCEPT !.run = "created"] ELSE w)
      [] f.known /\ e.type = "worker_run.status_changed" -> mapRun(f, e.i, patchRun)
      [] f.known /\ e.type = "approval.requested" -> [f EXCEPT !.approval = "pending"]
      [] f.known /\ e.type = "approval.resolved" ->
             IF f.approval = "none" THEN Orphan(f) ELSE [f EXCEPT !.approval = e.x]
      [] OTHER -> applyCost(f, e.i, e.x)

foldEvents(events) == FoldLeft(applyEvent, Empty, events)

Next ==
    \/ createTask \/ updateTaskSettings \/ createWorkItem \/ createApproval
    \/ AppendEvent \/ Crash
    \/ \E to \in TaskStatus : transitionTask(to)
    \/ \E to \in ApprovalStatus : resolveApproval(to)
    \/ \E i \in 0..Len(items) : recordCost(i)
    \/ \E i \in 1..Len(items) :
          \/ createWorkerRun(i)
          \/ \E to \in WorkItemStatus : transitionWorkItem(i, to)
          \/ \E to \in WorkerRunStatus : transitionWorkerRun(i, to)

Spec == Init /\ [][Next]_vars
----------------------------------------------------------------------------
TypeOK ==
    /\ task \in TaskStatus \union {"none"} /\ approval \in ApprovalStatus \union {"none"}
    /\ Len(items) <= MaxItems /\ costs \in Seq(0..MaxItems) /\ cap \in 0..MaxCap
    /\ lost \in BOOLEAN /\ crashes \in 0..MaxCrashes

Folded == foldEvents(log)
Spent(S) == SumFunctionOnSet([n \in DOMAIN costs |-> costs[n] + 1],
                             {n \in DOMAIN costs : costs[n] \in S})

(* The tree folded from the log says of the task what the tables say: its  *)
(* state and settings, every item under the label its worker has in the    *)
(* feed, every run and request, and the bill down to the run.              *)
Told ==
    LET f == Folded IN
    /\ f.status = task /\ f.cap = cap /\ f.approval = approval /\ f.orphans = 0
    /\ [k \in 1..Len(f.items) |-> [status |-> f.items[k].status, run |-> f.items[k].run]] = items
    /\ \A k \in 1..Len(f.items) : f.items[k].label = k /\ f.items[k].cost = Spent({k})
    /\ f.initiator = Spent({0}) /\ f.cost = Spent(0..MaxItems)

(* "Every status write [...] emits the corresponding status_changed event" *)
(* (repos.ts:2) into what is "the source of truth" (fold.ts:4): whenever   *)
(* no method is at work, the events tell the rows.                         *)
EveryWriteTold == owed = <<>> => Told
(* That holds up to the death of a process between its two statements.     *)
ToldUnlessLost == ~lost => EveryWriteTold
(* Even then no money the log speaks of is left out of the bill.           *)
BillComplete ==
    Folded.known =>
        Folded.cost = SumFunctionOnSet([n \in DOMAIN log |-> log[n].x],
                                       {n \in DOMAIN log : log[n].type = "cost.recorded"})
=============================================================================
