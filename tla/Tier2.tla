------------------------------- MODULE Tier2 -------------------------------
(***************************************************************************)
(* A worker with workspace tools: the turn loop of workers/tier2.ts, the   *)
(* tools of workers/execute.ts as far as they ask and act, and the gate    *)
(* they ask at.  One run of one work item.  A call is its fingerprint, the *)
(* name with its arguments; what a tool prints is left out.                *)
(*                                                                         *)
(* A step is what the loop does between two waits.  Places "top" and       *)
(* "calls" are continuations: nothing from outside (a request, a timer, a  *)
(* reply) comes between them and the next wait, which Quiet says.          *)
(* The gate shuts only when the signal has fired, which the loop looks at  *)
(* before it asks, so a shut gate never refuses a call here.               *)
(***************************************************************************)
EXTENDS Naturals, Sequences

CONSTANTS Calls,        \* the calls its model may make, by fingerprint
          Gated,        \* those of tools that consult the gate
          Inside,       \* those the gate's policy lets through (in the workspace, read-only)
          Writes,       \* those of write_file and edit_file
          MaxTurns,     \* DEFAULT_MAX_TURNS
          MaxMessages,  \* bound: messages the initiator sends a worker
          MaxRuns       \* bound: workers of the task, one after the other

Tier2Assumption ==
    /\ Inside \subseteq Gated /\ Gated \subseteq Calls /\ Writes \subseteq Gated
    /\ MaxTurns \in Nat \ {0} /\ MaxMessages \in Nat /\ MaxRuns \in Nat
    /\ Calls \cap {"bad", "success", "failure"} = {}

VARIABLES run,        \* the worker_runs row
          at,         \* where the loop is
          turn, nudged, prose, denied, artifacts,   \* its locals
          calls,      \* the calls of the current reply it has not answered
          fresh,      \* what was added to the transcript since the model last read it
          inbox,      \* messages the initiator pushed
          told,       \* history: how many it pushed
          heard,      \* history: those the transcript has, in order
          aborted, gate, auto,   \* the signal, the task's gate, the task's autoApprove
          card,       \* the newest approval row of each call
          refused,    \* history: calls a person said no to
          effects,    \* history: the calls carried out
          runs        \* bound: workers so far

loop == <<turn, nudged, prose, denied, artifacts, calls, fresh>>
vars == <<run, at, loop, inbox, told, heard, aborted, gate, auto, card, refused, effects,
          runs>>

Places == {"new", "top", "model", "calls", "parked", "tool", "over"}
Reports == {"success", "failure"}    \* a partial one is filed as a success
Special == {"bad"} \cup Reports

Quiet == at \notin {"top", "calls"}

Init ==
    /\ run = "none" /\ at = "new"
    /\ turn = 0 /\ nudged = FALSE /\ prose = FALSE
    /\ denied = {} /\ artifacts = {} /\ calls = <<>> /\ fresh = <<>>
    /\ inbox = <<>> /\ told = 0 /\ heard = <<>>
    /\ aborted = FALSE /\ gate = "open" /\ auto \in BOOLEAN
    /\ card = [c \in Calls |-> "none"]
    /\ refused = {} /\ effects = {}
    /\ runs = 1

End(status) == run' = status /\ at' = "over"
CloseCancelled == End("cancelled")

KeepLoop == UNCHANGED <<turn, nudged, prose, denied, artifacts, calls, fresh>>
KeepGate == UNCHANGED <<gate, auto, card, refused, effects>>
KeepMail == UNCHANGED <<inbox, told, heard, runs>>

(***************************************************************************)
(* The loop.                                                               *)
(***************************************************************************)
Begin ==
    /\ at = "new"
    /\ IF aborted THEN CloseCancelled ELSE run' = "streaming" /\ at' = "top"
    /\ KeepLoop /\ KeepGate /\ KeepMail /\ UNCHANGED aborted

(* Slip: the inbox is copied into the transcript and not emptied. *)
Top_Keeps ==
    /\ at = "top" /\ turn < MaxTurns /\ ~aborted
    /\ fresh' = fresh \o [i \in DOMAIN inbox |-> <<"user", inbox[i]>>]
    /\ heard' = heard \o inbox
    /\ at' = "model"
    /\ UNCHANGED <<run, inbox, turn, nudged, prose, denied, artifacts, calls, told, aborted, runs>>
    /\ KeepGate

(* A turn boundary, the one place where the inbox is emptied. *)
Top ==
    /\ at = "top"
    /\ \/ /\ turn >= MaxTurns
          /\ End("failed")
          /\ UNCHANGED <<fresh, inbox, heard>>
       \/ /\ turn < MaxTurns /\ aborted
          /\ CloseCancelled
          /\ UNCHANGED <<fresh, inbox, heard>>
       \/ /\ turn < MaxTurns /\ ~aborted
          /\ fresh' = fresh \o [i \in DOMAIN inbox |-> <<"user", inbox[i]>>]
          /\ heard' = heard \o inbox
          /\ inbox' = <<>>
          /\ at' = "model" /\ UNCHANGED run
    /\ UNCHANGED <<turn, nudged, prose, denied, artifacts, calls, told, aborted, runs>>
    /\ KeepGate

(* The call threw or came back as an error. *)
ModelFails ==
    /\ at = "model"
    /\ IF aborted THEN CloseCancelled ELSE End("failed")
    /\ KeepLoop /\ KeepGate /\ KeepMail /\ UNCHANGED aborted

(* The ceiling cut the reply off. *)
Truncated ==
    /\ at = "model" /\ ~aborted
    /\ \E text \in BOOLEAN : prose' = (prose \/ text)
    /\ End("failed")
    /\ UNCHANGED <<turn, nudged, denied, artifacts, calls, fresh, aborted>>
    /\ KeepGate /\ KeepMail

(* Prose instead of a call: one nudge, then the prose is the report. *)
Prose(text) ==
    /\ at = "model"
    /\ prose' = (prose \/ text)
    /\ \/ /\ ~nudged
          /\ nudged' = TRUE /\ turn' = turn + 1
          /\ fresh' = <<<<"assistant", <<>>>>, <<"user", "nudge">>>>
          /\ at' = "top" /\ UNCHANGED run
       \/ /\ nudged /\ prose'
          /\ End("succeeded") /\ UNCHANGED <<turn, nudged, fresh>>
       \/ /\ nudged /\ ~prose'
          /\ End("failed") /\ UNCHANGED <<turn, nudged, fresh>>
    /\ UNCHANGED <<denied, artifacts, calls, aborted>>
    /\ KeepGate /\ KeepMail

(* A reply with one or two tool calls. *)
Replies ==
    LET Reply == {<<c>> : c \in Calls \cup Special}
                 \cup {<<c, d>> : c \in Calls \cup {"bad"}, d \in Calls \cup Reports}
    IN  /\ at = "model"
        /\ calls' \in Reply
        /\ fresh' = <<<<"assistant", calls'>>>>
        /\ at' = "calls"
        /\ UNCHANGED <<run, turn, nudged, prose, denied, artifacts, aborted>>
        /\ KeepGate /\ KeepMail

(* The tool message that answers the call, and the next one or the next turn. *)
Answer ==
    /\ fresh' = Append(fresh, <<"tool", Head(calls)>>)
    /\ calls' = Tail(calls)
    /\ IF Len(calls) = 1 THEN at' = "top" /\ turn' = turn + 1
                         ELSE at' = "calls" /\ UNCHANGED turn

ActCancelled ==
    /\ at = "calls" /\ aborted
    /\ CloseCancelled
    /\ KeepLoop /\ KeepGate /\ KeepMail /\ UNCHANGED aborted

Report ==
    /\ at = "calls" /\ ~aborted /\ Head(calls) \in Reports
    /\ End(IF Head(calls) = "failure" THEN "failed" ELSE "succeeded")
    /\ KeepLoop /\ KeepGate /\ KeepMail /\ UNCHANGED aborted

(* Bad arguments (a report's too), an unknown tool, and a call already       *)
(* refused, which is answered from memory.                                 *)
AnsweredAtOnce ==
    /\ at = "calls" /\ ~aborted
    /\ Head(calls) \in {"bad"} \cup denied
    /\ Answer
    /\ UNCHANGED <<run, nudged, prose, denied, artifacts, aborted>>
    /\ KeepGate /\ KeepMail

Artifacts(c) == IF c \in Writes THEN artifacts \cup {c} ELSE artifacts

(***************************************************************************)
(* A tool: classify, then ask, then act.                                   *)
(***************************************************************************)
AutoReason(c) == auto \/ c \in Inside

(* No question needed: the tool is at work (on a disk, in a shell, on the net). *)
StartsTool ==
    LET c == Head(calls)
    IN  /\ at = "calls" /\ ~aborted /\ c \in Calls \ denied
        /\ c \in Gated => gate = "open" /\ AutoReason(c)
        /\ card' = IF c \in Gated THEN [card EXCEPT ![c] = "auto"] ELSE card
        /\ at' = "tool"
        /\ KeepLoop /\ KeepMail
        /\ UNCHANGED <<run, aborted, gate, auto, refused, effects>>

Asks ==
    LET c == Head(calls)
    IN  /\ at = "calls" /\ ~aborted /\ c \in Gated \ denied /\ gate = "open" /\ ~AutoReason(c)
        /\ card' = [card EXCEPT ![c] = "pending"]
        /\ at' = "parked"
        /\ KeepLoop /\ KeepMail
        /\ UNCHANGED <<run, aborted, gate, auto, refused, effects>>

(* The gate answered.  Nothing looks at the signal between a yes and the deed. *)
Allowed ==
    /\ at = "parked" /\ card[Head(calls)] = "approved"
    /\ at' = "tool"
    /\ KeepLoop /\ KeepGate /\ KeepMail /\ UNCHANGED <<run, aborted>>

(* Slip: the refusal is told and not remembered. *)
Denied_Forgets ==
    /\ at = "parked" /\ card[Head(calls)] = "denied"
    /\ Answer
    /\ UNCHANGED <<run, nudged, prose, denied, artifacts, aborted>>
    /\ KeepGate /\ KeepMail

Denied ==
    LET c == Head(calls)
    IN  /\ at = "parked" /\ card[c] = "denied"
        /\ Answer
        /\ denied' = denied \cup {c}
        /\ UNCHANGED <<run, nudged, prose, artifacts, aborted>>
        /\ KeepGate /\ KeepMail

(* The tool is done, or failed, was killed by the signal or timed out: every *)
(* end is a message to the model, and a path is listed even if the write   *)
(* failed.                                                                 *)
ToolDone ==
    LET c == Head(calls)
    IN  /\ at = "tool"
        /\ \E done \in BOOLEAN :
              effects' = IF done THEN effects \cup {c} ELSE effects
        /\ artifacts' = Artifacts(c)
        /\ Answer
        /\ UNCHANGED <<run, nudged, prose, denied, aborted, gate, auto, card, refused>>
        /\ KeepMail

(***************************************************************************)
(* Those around it: the initiator, the user, the task.                     *)
(***************************************************************************)
(* send_to_worker, whose refusal comes once the outcome is known. *)
Send ==
    /\ Quiet /\ at # "over" /\ told < MaxMessages
    /\ told' = told + 1
    /\ inbox' = Append(inbox, told')
    /\ KeepLoop /\ KeepGate /\ UNCHANGED <<run, at, heard, aborted, runs>>

CancelWorker ==
    /\ Quiet /\ at # "over" /\ ~aborted
    /\ aborted' = TRUE
    /\ KeepLoop /\ KeepGate /\ KeepMail /\ UNCHANGED <<run, at>>

(* A cancelled task aborts its workers and shuts the gate, which denies what is parked. *)
CancelTask ==
    /\ Quiet /\ gate = "open"
    /\ aborted' = TRUE /\ gate' = "cancelled"
    /\ card' = [c \in Calls |-> IF card[c] = "pending" THEN "denied" ELSE card[c]]
    /\ KeepLoop /\ KeepMail
    /\ UNCHANGED <<run, at, auto, refused, effects>>

Resolve(c, yes) ==
    /\ Quiet /\ card[c] = "pending"
    /\ card' = [card EXCEPT ![c] = IF yes THEN "approved" ELSE "denied"]
    /\ refused' = IF yes THEN refused ELSE refused \cup {c}
    /\ KeepLoop /\ KeepMail
    /\ UNCHANGED <<run, at, aborted, gate, auto, effects>>

FlipAuto ==
    /\ Quiet /\ at # "over"
    /\ auto' = ~auto
    /\ KeepLoop /\ KeepMail
    /\ UNCHANGED <<run, at, aborted, gate, card, refused, effects>>

(* The next worker of the task: a run, an inbox and memories of its own at   *)
(* the gate that is there.                                                 *)
Another ==
    /\ at = "over" /\ gate = "open" /\ runs < MaxRuns
    /\ runs' = runs + 1
    /\ run' = "none" /\ at' = "new"
    /\ turn' = 0 /\ nudged' = FALSE /\ prose' = FALSE
    /\ denied' = {} /\ artifacts' = {} /\ calls' = <<>> /\ fresh' = <<>>
    /\ inbox' = <<>> /\ told' = 0 /\ heard' = <<>> /\ aborted' = FALSE
    /\ refused' = {} /\ effects' = {}
    /\ UNCHANGED <<gate, auto, card>>

Continue == Begin \/ Top \/ ActCancelled \/ Report \/ AnsweredAtOnce \/ StartsTool \/ Asks
            \/ Allowed \/ Denied
Outside == \/ Send \/ CancelWorker \/ CancelTask \/ FlipAuto
           \/ \E c \in Calls, yes \in BOOLEAN : Resolve(c, yes)
Model == ModelFails \/ Truncated \/ Replies \/ \E text \in BOOLEAN : Prose(text)
Next == Continue \/ ToolDone \/ Model \/ Outside \/ Another

Spec == Init /\ [][Next]_vars

(* Continuations run, tools end (their signal, their timeout), and so does *)
(* a model call whose signal fired.                                        *)
Fairness == WF_vars(Continue) /\ WF_vars(ToolDone) /\ WF_vars(aborted /\ Model)
FairSpec == Spec /\ Fairness

----------------------------------------------------------------------------
TypeOK ==
    /\ run \in {"none", "streaming", "succeeded", "failed", "cancelled"}
    /\ at \in Places
    /\ turn \in 0 .. MaxTurns /\ nudged \in BOOLEAN /\ prose \in BOOLEAN
    /\ denied \subseteq Calls /\ artifacts \subseteq Writes /\ effects \subseteq Calls
    /\ calls \in Seq(Calls \cup Special)
    /\ told \in 0 .. MaxMessages /\ inbox \in Seq(1 .. MaxMessages) /\ heard \in Seq(1 .. MaxMessages)
    /\ aborted \in BOOLEAN /\ gate \in {"open", "cancelled"} /\ auto \in BOOLEAN
    /\ card \in [Calls -> {"none", "auto", "pending", "approved", "denied"}]
    /\ refused \subseteq Calls

(* A transcript providers accept: the calls of a reply are answered in order *)
(* before anything else is said.  (tier2.ts: injecting between a call and    *)
(* its result would leave the model an unanswered call.)                   *)
Coherent ==
    at = "model" /\ fresh # <<>> /\ fresh[1][1] = "assistant" =>
        LET said == fresh[1][2]
        IN  /\ Len(fresh) > Len(said)
            /\ \A i \in DOMAIN said : fresh[i + 1] = <<"tool", said[i]>>
            /\ \A i \in Len(said) + 2 .. Len(fresh) : fresh[i][1] = "user"

(* The worker reads what it was sent in the order it was sent, each message  *)
(* once, however sends fall between its turns.                             *)
ReadInOrder == heard \o inbox = [i \in 1 .. told |-> i]

(* A card nobody could be waiting for is not left: a pending row has its     *)
(* worker parked on it.                                                    *)
PendingIsParked == \A c \in Calls : card[c] = "pending" => at = "parked" /\ Head(calls) = c

(* The report's list of files misses none that was written. *)
TouchedIsListed == effects \cap Writes \subseteq artifacts

(* A task that is cancelled gets its worker back, parked or at work. *)
CancelEndsRun == (gate = "cancelled") ~> (at = "over")
============================================================================
