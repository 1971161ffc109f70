----------------------------- MODULE Retention -----------------------------
(***************************************************************************)
(* `rewter gc`, a process of its own beside the daemon: it selects the     *)
(* finished tasks that are old enough, deletes their rows in a transaction *)
(* and then their directories. Time passes in days.                        *)
(***************************************************************************)
EXTENDS Integers, Sequences

CONSTANTS Tasks,
          MaxDay,  \* bound: the last day
          MaxGcs,  \* bound: sweeps
          Days     \* --older-than

RetentionAssumption == MaxDay \in Nat \ {0} /\ MaxGcs \in Nat /\ Days \in Nat

VARIABLES day,
          status,   \* "none", "running" or "finished"
          created, finished, updated,   \* columns of the task's row, in days
          rows,     \* per table, the tasks it has rows of
          costs,    \* tasks with cost records
          dirs,     \* what is on disk: workspaces by task
          gc,       \* "off", "sweep" (in the transaction) or "dirs"
          doomed,   \* what it has selected
          draft,    \* the tables as the transaction sees them
          left,     \* statements still to run
          sweeps,
          ended     \* history: the day the task ended

tasksOf == <<day, status, created, finished, updated>>
sweep == <<gc, doomed, draft, left, sweeps>>
vars == <<tasksOf, rows, costs, dirs, sweep, ended>>

Null == -1
Tables == {"approvals", "runs", "items", "events", "tasks"}

(* foreign_keys = ON, no cascades: a row cannot go before what points to it. *)
PointsTo(t) == CASE t = "runs" -> {"items", "tasks"} [] t \in {"items", "approvals"} -> {"tasks"}
                 [] OTHER -> {}

Init ==
    /\ day = 1
    /\ status = [t \in Tasks |-> "none"]
    /\ created = [t \in Tasks |-> Null] /\ finished = created /\ updated = created
    /\ rows = [b \in Tables |-> {}] /\ costs = {} /\ dirs = {}
    /\ gc = "off" /\ doomed = {} /\ draft = rows /\ left = <<>> /\ sweeps = 0
    /\ ended = created

(* The transaction holds the write lock of the database, and every writer  *)
(* is synchronous: the daemon waits.                                       *)
Unlocked == gc # "sweep"

NextDay ==
    /\ day < MaxDay /\ day' = day + 1
    /\ UNCHANGED <<status, created, finished, updated, rows, costs, dirs, sweep, ended>>

(* The daemon: a task with its work items, runs, cards, events and calls,  *)
(* in a workspace of its own or in a directory of the user's.              *)
Create(t, own) ==
    /\ Unlocked /\ status[t] = "none"
    /\ status' = [status EXCEPT ![t] = "running"]
    /\ created' = [created EXCEPT ![t] = day] /\ updated' = [updated EXCEPT ![t] = day]
    /\ rows' = [b \in Tables |-> rows[b] \union {t}] /\ costs' = costs \union {t}
    /\ dirs' = IF own THEN dirs \union {t} ELSE dirs
    /\ UNCHANGED <<day, finished, sweep, ended>>

(* Rows of older versions have no finishedAt.                              *)
Finish(t, stamped) ==
    /\ Unlocked /\ status[t] = "running"
    /\ status' = [status EXCEPT ![t] = "finished"]
    /\ finished' = (IF stamped THEN [finished EXCEPT ![t] = day] ELSE finished)
    /\ updated' = [updated EXCEPT ![t] = day] /\ ended' = [ended EXCEPT ![t] = day]
    /\ UNCHANGED <<day, created, rows, costs, dirs, sweep>>

----------------------------------------------------------------------------
(* Age is measured from the end, or what stands for it.                    *)
Aged(t, cutoff) == IF finished[t] = Null THEN updated[t] < cutoff ELSE finished[t] < cutoff
Doomed == {t \in rows["tasks"] : status[t] = "finished" /\ Aged(t, day - Days)}

(* Without --dry-run: that ends with the numbers.                          *)
Select ==
    /\ gc = "off" /\ sweeps < MaxGcs /\ sweeps' = sweeps + 1
    /\ doomed' = Doomed /\ draft' = rows
    /\ gc' = (IF Doomed = {} THEN "off" ELSE "sweep")
    /\ left' = IF Doomed = {} THEN <<>> ELSE <<"approvals", "runs", "items", "events", "tasks">>
    /\ UNCHANGED <<tasksOf, rows, costs, dirs, ended>>

(* The database refuses a statement that would leave a row pointing at nothing. *)
Refused == \E b \in Tables : Head(left) \in PointsTo(b) /\ draft[b] \intersect doomed # {}

(* slip: no transaction *)
Statement_Commits ==
    /\ gc = "sweep" /\ left # <<>> /\ ~Refused
    /\ draft' = [draft EXCEPT ![Head(left)] = @ \ doomed] /\ rows' = draft' /\ left' = Tail(left)
    /\ UNCHANGED <<tasksOf, costs, dirs, gc, doomed, sweeps, ended>>

Statement ==
    /\ gc = "sweep" /\ left # <<>> /\ ~Refused
    /\ draft' = [draft EXCEPT ![Head(left)] = @ \ doomed] /\ left' = Tail(left)
    /\ UNCHANGED <<tasksOf, rows, costs, dirs, gc, doomed, sweeps, ended>>

Commit ==
    /\ gc = "sweep" /\ left = <<>>
    /\ rows' = draft /\ gc' = "dirs"
    /\ UNCHANGED <<tasksOf, costs, dirs, doomed, draft, left, sweeps, ended>>

RemoveDir(t) ==
    /\ gc = "dirs" /\ t \in doomed
    /\ dirs' = dirs \ {t} /\ doomed' = doomed \ {t}
    /\ UNCHANGED <<tasksOf, rows, costs, gc, draft, left, sweeps, ended>>

GcEnds ==
    /\ gc = "dirs" /\ doomed = {} /\ gc' = "off"
    /\ UNCHANGED <<tasksOf, rows, costs, dirs, doomed, draft, left, sweeps, ended>>

(* An rmSync throws, or the process dies: an open transaction is rolled back. *)
GcDies ==
    /\ gc # "off" /\ gc' = "off" /\ doomed' = {} /\ left' = <<>> /\ draft' = rows
    /\ UNCHANGED <<tasksOf, rows, costs, dirs, sweeps, ended>>

Next ==
    \/ NextDay \/ Select \/ Statement \/ Commit \/ GcEnds \/ GcDies
    \/ \E t \in Tasks : RemoveDir(t) \/ \E b \in BOOLEAN : Create(t, b) \/ Finish(t, b)

Spec == Init /\ [][Next]_vars
----------------------------------------------------------------------------
TypeOK ==
    /\ day \in 1..MaxDay /\ status \in [Tasks -> {"none", "running", "finished"}]
    /\ rows \in [Tables -> SUBSET Tasks] /\ costs \subseteq Tasks /\ dirs \subseteq Tasks
    /\ gc \in {"off", "sweep", "dirs"} /\ doomed \subseteq Tasks

(* A task is in the database with all of its detail or with none of it     *)
(* (gc.ts:28), wherever a sweep is cut off.                                *)
WholeOrGone == \A t \in Tasks : {b \in Tables : t \in rows[b]} \in {{}, Tables}

(* Only what has been over for longer than it was to be kept is collected, *)
(* however long it ran, and never its price or a workspace before the row. *)
OnlyOldCollected ==
    [][/\ costs \subseteq costs'
       /\ \A t \in rows["tasks"] \ rows'["tasks"] :
              status[t] = "finished" /\ ended[t] + Days < day
       /\ (dirs \ dirs') \intersect rows["tasks"] = {}]_vars

============================================================================
