------------------------------- MODULE Ledger -------------------------------
(***************************************************************************)
(* What the tables promise whoever reads one task's history: the abstract   *)
(* specification that Orchestration implements.  It knows nothing of the    *)
(* engine; it says which rows may appear, when, and how each may move.      *)
(***************************************************************************)
EXTENDS Lifecycle

CONSTANTS Items, Requests, Owner(_)  \* Owner(x): the item a request belongs to

VARIABLES task, item, run, approval

rows == <<task, item, run, approval>>

Init ==
  /\ task = "none"
  /\ item = [i \in Items |-> "none"]
  /\ run = [i \in Items |-> "none"]
  /\ approval = [x \in Requests |-> "none"]

(* The task's own row: born pending, then only the moves of its table.      *)
TaskRow == RowMove(TaskTransitions, {"pending"}, task, task')

(* Work is planned only for a task that was begun, and an item closes only  *)
(* after its run did: its status is never ahead of the work below it.       *)
ItemRow(i) ==
  /\ RowMove(WorkItemTransitions, {"pending"}, item[i], item'[i])
  /\ item[i] = "none" /\ item'[i] # "none" => task \notin {"none", "pending"}
  /\ item'[i] # item[i] /\ ~Open(WorkItemTransitions, item'[i]) =>
       ~Open(WorkerRunTransitions, run[i])

(* A run is inserted by the step that starts its item.                      *)
RunRow(i) ==
  /\ RowMove(WorkerRunTransitions, {"created"}, run[i], run'[i])
  /\ run[i] = "none" /\ run'[i] # "none" =>
       item[i] = "pending" /\ item'[i] = "running"

(* A request is opened only for a running item of a running task, and only  *)
(* a person, the policy or the boot sweep settles it, once.                 *)
ApprovalRow(x) ==
  /\ RowMove(ApprovalTransitions, {"pending", "auto_approved"},
             approval[x], approval'[x])
  /\ approval[x] = "none" /\ approval'[x] # "none" =>
       /\ task = "running" /\ item[Owner(x)] = "running"
       /\ Open(WorkerRunTransitions, run[Owner(x)])

Next ==
  /\ TaskRow
  /\ item' \in [Items -> WorkItemStatus \cup {"none"}]
  /\ run' \in [Items -> WorkerRunStatus \cup {"none"}]
  /\ approval' \in [Requests -> ApprovalStatus \cup {"none"}]
  /\ \A i \in Items : ItemRow(i) /\ RunRow(i)
  /\ \A x \in Requests : ApprovalRow(x)

Spec == Init /\ [][Next]_rows
=============================================================================
