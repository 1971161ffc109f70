------------------------------ MODULE Lifecycle ------------------------------
(***************************************************************************)
(* The lifecycle tables of packages/shared/src/lifecycle.ts.               *)
(*                                                                         *)
(* Every status write in the daemon goes through a repo method that asserts *)
(* the move against one of these tables and throws IllegalTransitionError   *)
(* before touching the row when the move is not listed.  "none" is not a    *)
(* status of the code: it stands for a row that has not been inserted.      *)
(***************************************************************************)

TaskStatus == {"pending", "running", "waiting_approval", "succeeded",
               "failed", "cancelled", "interrupted"}

WorkItemStatus == TaskStatus \cup {"handed_off"}

WorkerRunStatus == {"created", "streaming", "tool_pending", "succeeded",
                    "failed", "cancelled", "interrupted"}

ApprovalStatus == {"pending", "approved", "denied", "auto_approved", "expired"}

TaskTransitions ==
  [s \in TaskStatus |->
     CASE s = "pending" -> {"running", "cancelled", "failed", "interrupted"}
       [] s = "running" -> {"waiting_approval", "succeeded", "failed",
                            "cancelled", "interrupted"}
       [] s = "waiting_approval" -> {"running", "failed", "cancelled",
                                     "interrupted"}
       [] OTHER -> {}]

WorkItemTransitions ==
  [s \in WorkItemStatus |->
     CASE s = "pending" -> {"running", "cancelled", "failed", "interrupted"}
       [] s = "running" -> {"waiting_approval", "succeeded", "failed",
                            "cancelled", "handed_off", "interrupted"}
       [] s = "waiting_approval" -> {"running", "failed", "cancelled",
                                     "interrupted"}
       [] OTHER -> {}]

WorkerRunTransitions ==
  [s \in WorkerRunStatus |->
     CASE s = "created" -> {"streaming", "failed", "cancelled", "interrupted"}
       [] s = "streaming" -> {"tool_pending", "succeeded", "failed",
                              "cancelled", "interrupted"}
       [] s = "tool_pending" -> {"streaming", "failed", "cancelled",
                                 "interrupted"}
       [] OTHER -> {}]

ApprovalTransitions ==
  [s \in ApprovalStatus |->
     IF s = "pending" THEN {"approved", "denied", "auto_approved", "expired"}
                      ELSE {}]

(* isTerminal(map, status): no move leaves the status.                     *)
IsTerminal(map, s) == map[s] = {}

-----------------------------------------------------------------------------

(* A row that has been inserted and can still move.                        *)
Open(map, s) == s # "none" /\ ~IsTerminal(map, s)

(* A row keeps its status, takes a move its table lists, or is inserted     *)
(* with one of the statuses its creator may give it.                        *)
RowMove(map, births, s, t) ==
  \/ t = s
  \/ s = "none" /\ t \in births
  \/ s # "none" /\ t \in map[s]
=============================================================================
