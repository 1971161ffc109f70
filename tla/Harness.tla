------------------------------ MODULE Harness ------------------------------
(***************************************************************************)
(* A worker that is another program: the runner of harness/runner.ts, the  *)
(* event queue, the adapters' handling of their child (claude-code.ts,     *)
(* generic.ts) and the tmux mirror around them.  The child itself is the   *)
(* environment: it reads what is written to its standard input, prints     *)
(* lines and exits.                                                        *)
(*                                                                         *)
(* A callback of the child fills the queue, and the runner empties it      *)
(* before anything else happens: Quiet, as in Tier2.                       *)
(***************************************************************************)
EXTENDS Naturals, Sequences

CONSTANTS MaxMessages,   \* bound: messages the initiator sends
          MaxTurns       \* bound: turns the child may report

HarnessAssumption == MaxMessages \in Nat /\ MaxTurns \in Nat

VARIABLES mode,       \* how the adapter reads the child: events, plain text, plain up to a mark
          resumes,    \* the spec asks for a session the adapter cannot resume
          run, stage,    \* the worker_runs row; where the runner is
          expect, grace, last, fatalError,            \* the runner's locals
          queue, closed,                              \* EventQueue
          sawTurnEnd, fatalPushed, killed,            \* the adapter's locals
          child, stdin, toRead,   \* the process, its standard input, what it has not answered
          late,                   \* history: it printed a line while only the grace timer ran
          mirror,                 \* the tmux mirror: none, open or closed
          inbox, told,            \* as in Tier2
          heard,                  \* history: the messages written to the child
          said,                   \* history: the results of the turns the child reported
          aborted, gate, permit     \* the signal, the task's gate, the one approval row

runner == <<expect, grace, last, fatalError>>
adapter == <<queue, closed, sawTurnEnd, fatalPushed, killed>>
process == <<child, stdin, toRead, late>>
vars == <<mode, resumes, run, stage, runner, adapter, process, mirror, inbox, told, heard, said,
          aborted, gate, permit>>

Results == {"text", "empty", "error"}
TurnEnd(r) == <<"turn_end", r>>
Quiet == stage # "events" \/ (queue = <<>> /\ ~closed)

Init ==
    /\ mode \in {"jsonl", "plain", "marked"} /\ resumes \in BOOLEAN
    /\ run = "none" /\ stage = "new"
    /\ expect = FALSE /\ grace = FALSE /\ last = "none" /\ fatalError = FALSE
    /\ queue = <<>> /\ closed = FALSE
    /\ sawTurnEnd = FALSE /\ fatalPushed = FALSE /\ killed = FALSE
    /\ child = "none" /\ stdin = "open" /\ toRead = 0 /\ late = FALSE /\ mirror = "none"
    /\ inbox = <<>> /\ told = 0 /\ heard = <<>> /\ said = <<>>
    /\ aborted = FALSE /\ gate = "open" /\ permit = "none"

End(status) == run' = status /\ stage' = "over"

(***************************************************************************)
(* The runner up to its child.                                             *)
(***************************************************************************)
Begin ==
    /\ stage = "new"
    /\ \/ aborted /\ End("cancelled") /\ UNCHANGED permit
       \/ ~aborted /\ gate = "cancelled" /\ End("failed") /\ UNCHANGED permit
       \/ ~aborted /\ gate = "open" /\ run' = "created"
          /\ \/ permit' = "auto" /\ stage' = "cleared"         \* the directory is the workspace, or auto-approve
             \/ permit' = "pending" /\ stage' = "parked"
    /\ UNCHANGED <<mode, resumes, runner, adapter, process, mirror, inbox, told, heard, said, aborted, gate>>

Refused ==
    /\ stage = "parked" /\ permit = "denied"
    /\ End("failed")
    /\ UNCHANGED <<mode, resumes, runner, adapter, process, mirror, inbox, told, heard, said, aborted, gate, permit>>

CancelledAtGate ==
    /\ stage = "cleared" \/ (stage = "parked" /\ permit = "approved")
    /\ aborted
    /\ End("cancelled")
    /\ UNCHANGED <<mode, resumes, runner, adapter, process, mirror, inbox, told, heard, said, aborted, gate, permit>>

(* spawn: a child with its instructions on standard input, or a session that *)
(* only says why there is none.                                            *)
Spawn ==
    /\ stage = "cleared" \/ (stage = "parked" /\ permit = "approved")
    /\ ~aborted
    /\ run' = "streaming" /\ stage' = "events"
    /\ \/ /\ ~(resumes /\ mode # "jsonl")
          /\ child' = "running" /\ toRead' = 1
          /\ UNCHANGED <<adapter, stdin>>
       \/ /\ queue' = <<<<"fatal">>>> /\ closed' = TRUE /\ fatalPushed' = TRUE
          /\ child' = "exited" /\ UNCHANGED <<sawTurnEnd, killed, stdin, toRead>>
    /\ mirror' \in {"none", "open"}
    /\ UNCHANGED <<mode, resumes, runner, late, inbox, told, heard, said, aborted, gate, permit>>

(***************************************************************************)
(* What the runner does to its session.                                    *)
(***************************************************************************)
Writable == child = "running" /\ ~killed /\ stdin = "open"

(* Everything in the inbox is written to the child; what cannot be is dropped. *)
Drain ==
    /\ inbox' = <<>>
    /\ heard' = IF Writable THEN heard \o inbox ELSE heard
    /\ toRead' = IF Writable THEN toRead + Len(inbox) ELSE toRead

EndInput == stdin' = IF child = "running" /\ ~killed THEN "ended" ELSE stdin

(* Slip: a session kept open for a follow-up has no timer of its own. *)
Take_NoGrace ==
    /\ stage = "events" /\ queue # <<>>
    /\ queue' = Tail(queue)
    /\ Drain
    /\ LET event == Head(queue)
           another == expect \/ inbox # <<>>
       IN  /\ expect' = (another /\ event[1] # "turn_end") /\ grace' = FALSE
           /\ last' = IF event[1] = "turn_end" THEN event[2] ELSE last
           /\ fatalError' = (fatalError \/ event[1] = "fatal")
           /\ IF event[1] = "turn_end" /\ ~another THEN EndInput ELSE UNCHANGED stdin
    /\ UNCHANGED <<mode, resumes, run, stage, closed, sawTurnEnd, fatalPushed, killed, child, late,
                   mirror, told, said, aborted, gate, permit>>

(* for await: the next event disarms the grace timer and empties the inbox. *)
Take ==
    /\ stage = "events" /\ queue # <<>>
    /\ queue' = Tail(queue)
    /\ Drain
    /\ LET event == Head(queue)
           another == expect \/ inbox # <<>>
       IN  \/ /\ event[1] \in {"session", "text", "tool_use"}
              /\ expect' = another /\ grace' = FALSE
              /\ UNCHANGED <<last, fatalError, stdin>>
           \/ /\ event[1] = "turn_end"
              /\ last' = event[2] /\ expect' = FALSE
              /\ grace' = another
              /\ IF another THEN UNCHANGED stdin ELSE EndInput
              /\ UNCHANGED fatalError
           \/ /\ event[1] = "fatal"
              /\ fatalError' = TRUE
              /\ expect' = another /\ grace' = FALSE
              /\ UNCHANGED <<last, stdin>>
    /\ UNCHANGED <<mode, resumes, run, stage, closed, sawTurnEnd, fatalPushed, killed, child, late,
                   mirror, told, said, aborted, gate, permit>>

GraceFires ==
    /\ Quiet /\ grace
    /\ grace' = FALSE
    /\ EndInput
    /\ UNCHANGED <<mode, resumes, run, stage, expect, last, fatalError, adapter, child, toRead, late,
                   mirror, inbox, told, heard, said, aborted, gate, permit>>

Outcome ==
    IF aborted THEN "cancelled"
    ELSE IF fatalError \/ last # "text" THEN "failed"
    ELSE "succeeded"

(* Slip: a closed queue ends the stream though events are left in it. *)
Finish_DropsQueue ==
    /\ stage = "events" /\ closed
    /\ End(Outcome)
    /\ killed' = TRUE /\ grace' = FALSE
    /\ mirror' = IF mirror = "open" THEN "closed" ELSE mirror
    /\ UNCHANGED <<mode, resumes, expect, last, fatalError, queue, closed, sawTurnEnd, fatalPushed,
                   process, inbox, told, heard, said, aborted, gate, permit>>

(* The stream ended: the mirror is closed, the child killed, the row written. *)
Finish ==
    /\ stage = "events" /\ queue = <<>> /\ closed
    /\ End(Outcome)
    /\ killed' = TRUE /\ grace' = FALSE
    /\ mirror' = IF mirror = "open" THEN "closed" ELSE mirror
    /\ UNCHANGED <<mode, resumes, expect, last, fatalError, queue, closed, sawTurnEnd, fatalPushed,
                   process, inbox, told, heard, said, aborted, gate, permit>>

(***************************************************************************)
(* The child and its adapter's callbacks.                                  *)
(***************************************************************************)
Push(events) == queue' = IF closed THEN queue ELSE queue \o events

(* Lines that are progress: prose, a tool, the session's name; within a     *)
(* turn, or after one.                                                     *)
Chatter ==
    /\ Quiet /\ child = "running"
    /\ Push(<<<<"text">>>>)
    /\ late' = (late \/ (grace /\ toRead = 0))
    /\ UNCHANGED <<mode, resumes, run, stage, runner, closed, sawTurnEnd, fatalPushed, killed, child, stdin,
                   toRead, mirror, inbox, told, heard, said, aborted, gate, permit>>

(* A turn ends, with whatever input it took in: one message or several. *)
EndsTurn(r) ==
    /\ Quiet /\ child = "running" /\ toRead > 0 /\ Len(said) < MaxTurns
    /\ mode = "plain" => FALSE
    /\ mode = "marked" => r # "error"
    /\ toRead' \in 0 .. toRead - 1
    /\ said' = Append(said, r)
    /\ \E chatty \in BOOLEAN : Push((IF chatty THEN <<<<"text">>>> ELSE <<>>) \o <<TurnEnd(r)>>)
    /\ sawTurnEnd' = TRUE
    /\ UNCHANGED <<mode, resumes, run, stage, runner, closed, fatalPushed, killed, child, stdin, late,
                   mirror, inbox, told, heard, aborted, gate, permit>>

(* close: what plain output amounts to, or that there was no result.       *)
Exits(r) ==
    /\ Quiet /\ child = "running"
    /\ child' = "exited" /\ toRead' = 0 /\ closed' = TRUE
    /\ LET silent == ~fatalPushed /\ ~killed /\ ~sawTurnEnd
       IN  /\ Push(IF ~silent THEN <<>> ELSE IF mode = "plain" THEN <<TurnEnd(r)>> ELSE <<<<"fatal">>>>)
           /\ said' = IF silent /\ mode = "plain" THEN Append(said, r) ELSE said
           /\ fatalPushed' = (fatalPushed \/ (silent /\ mode # "plain"))
    /\ UNCHANGED <<mode, resumes, run, stage, runner, sawTurnEnd, killed, stdin, late, mirror, inbox, told,
                   heard, aborted, gate, permit>>

(* error: the child could not be started after all, or a signal not sent.  *)
ProcessError ==
    /\ Quiet /\ child = "running" /\ ~closed
    /\ Push(IF fatalPushed THEN <<>> ELSE <<<<"fatal">>>>)
    /\ fatalPushed' = TRUE /\ closed' = TRUE
    /\ UNCHANGED <<mode, resumes, run, stage, runner, sawTurnEnd, killed, process, mirror, inbox, told, heard,
                   said, aborted, gate, permit>>

(***************************************************************************)
(* The initiator, the user, the task.                                      *)
(***************************************************************************)
Send ==
    /\ Quiet /\ stage # "over" /\ told < MaxMessages
    /\ told' = told + 1 /\ inbox' = Append(inbox, told')
    /\ UNCHANGED <<mode, resumes, run, stage, runner, adapter, process, mirror, heard, said, aborted, gate, permit>>

KillOnAbort == killed' = (killed \/ (stage = "events" /\ child = "running"))

CancelWorker ==
    /\ Quiet /\ stage # "over" /\ ~aborted
    /\ aborted' = TRUE /\ KillOnAbort
    /\ UNCHANGED <<mode, resumes, run, stage, runner, queue, closed, sawTurnEnd, fatalPushed, process, mirror,
                   inbox, told, heard, said, gate, permit>>

CancelTask ==
    /\ Quiet /\ gate = "open"
    /\ aborted' = TRUE /\ gate' = "cancelled" /\ KillOnAbort
    /\ permit' = IF permit = "pending" THEN "denied" ELSE permit
    /\ UNCHANGED <<mode, resumes, run, stage, runner, queue, closed, sawTurnEnd, fatalPushed, process, mirror,
                   inbox, told, heard, said>>

Resolve(yes) ==
    /\ permit = "pending"
    /\ permit' = IF yes THEN "approved" ELSE "denied"
    /\ UNCHANGED <<mode, resumes, run, stage, runner, adapter, process, mirror, inbox, told, heard, said,
                   aborted, gate>>

Runner == Begin \/ Refused \/ CancelledAtGate \/ Spawn \/ Take \/ Finish
Child == Chatter \/ ProcessError \/ \E r \in Results : EndsTurn(r) \/ Exits(r)
Outside == Send \/ CancelWorker \/ CancelTask \/ \E yes \in BOOLEAN : Resolve(yes)
Next == Runner \/ GraceFires \/ Child \/ Outside

Spec == Init /\ [][Next]_vars

(* A child that has input ends a turn or its life; one that was killed, or *)
(* whose input ended and is used up, exits; and a plain one exits by itself. *)
Leaves == /\ killed \/ mode = "plain" \/ (stdin = "ended" /\ toRead = 0) \/ Len(said) >= MaxTurns
          /\ \E r \in Results : Exits(r)
Works == \E r \in Results : EndsTurn(r)
Fairness == WF_vars(Runner) /\ WF_vars(GraceFires) /\ SF_vars(Leaves) /\ SF_vars(Works)
FairSpec == Spec /\ Fairness

----------------------------------------------------------------------------
TypeOK ==
    /\ mode \in {"jsonl", "plain", "marked"} /\ resumes \in BOOLEAN
    /\ run \in {"none", "created", "streaming", "succeeded", "failed", "cancelled"}
    /\ stage \in {"new", "parked", "cleared", "events", "over"}
    /\ expect \in BOOLEAN /\ grace \in BOOLEAN /\ fatalError \in BOOLEAN
    /\ last \in Results \cup {"none"}
    /\ queue \in Seq({<<"text">>, <<"fatal">>} \cup {TurnEnd(r) : r \in Results}) /\ closed \in BOOLEAN
    /\ sawTurnEnd \in BOOLEAN /\ fatalPushed \in BOOLEAN /\ killed \in BOOLEAN
    /\ child \in {"none", "running", "exited"} /\ stdin \in {"open", "ended"} /\ toRead \in Nat
    /\ late \in BOOLEAN
    /\ mirror \in {"none", "open", "closed"}
    /\ told \in 0 .. MaxMessages /\ inbox \in Seq(1 .. MaxMessages) /\ heard \in Seq(1 .. MaxMessages)
    /\ said \in Seq(Results)
    /\ aborted \in BOOLEAN /\ gate \in {"open", "cancelled"}
    /\ permit \in {"none", "auto", "pending", "approved", "denied"}

(* What the child heard is what it was sent, in order and once, as far as it *)
(* went: nothing later is heard where something earlier was dropped.       *)
HeardIsPrefix == Len(heard) <= told /\ \A i \in DOMAIN heard : heard[i] = i

(* The row tells what the child last said: no result printed before it exited *)
(* is lost in the queue, and no earlier one is taken for the last.         *)
RowTellsTheEnd ==
    run \in {"succeeded", "failed"} /\ child = "exited" /\ ~fatalError /\ said # <<>> =>
        (run = "succeeded" <=> said[Len(said)] = "text")

(* Nothing runs on when the run is over: the child has exited or was told  *)
(* to, the mirror is shut and no timer is armed.                           *)
NothingOutlivesRun == stage = "over" => (child = "running" => killed) /\ mirror # "open" /\ ~grace

(* A session that was steered ends all the same, whether the child took the *)
(* message into the turn it was in or made a turn of it ("nothing more is  *)
(* coming and waiting unbounded is a deadlock", runner.ts).  Any event stops *)
(* the grace timer and only the end of a turn starts it again: a child that *)
(* prints one more line when it owes no turn leaves the session with no    *)
(* timer, and then only its exit or a kill ends it.  A kill always does.   *)
SessionEnds ==
    /\ (stage = "events") ~> (stage = "over" \/ late)
    /\ (stage = "events" /\ aborted) ~> (stage = "over")
============================================================================
