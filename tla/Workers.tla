------------------------------ MODULE Workers ------------------------------
(***************************************************************************)
(* The work item the engine has dispatched, given to the runner of its     *)
(* tier (engine.ts, Session.runnerFor): the inbox, the signal, the task's  *)
(* gate and the run row are the engine's and the same for both runners.    *)
(***************************************************************************)
EXTENDS Naturals, Sequences

CONSTANTS Calls, Gated, Inside, Writes, MaxTurns, MaxMessages, MaxRuns, ChildMessages, ChildTurns

VARIABLES tier, run, inbox, told, heard, aborted, gate,
          at, turn, nudged, prose, denied, artifacts, calls, fresh, auto, card, refused, effects,
          runs,
          mode, resumes, stage, expect, grace, last, fatalError, queue, closed, sawTurnEnd, fatalPushed,
          killed, child, stdin, toRead, late, mirror, said, permit

tier2 == <<at, turn, nudged, prose, denied, artifacts, calls, fresh, auto, card, refused, effects,
           runs>>
tier3 == <<mode, resumes, stage, expect, grace, last, fatalError, queue, closed, sawTurnEnd, fatalPushed,
           killed, child, stdin, toRead, late, mirror, said, permit>>
shared == <<run, inbox, told, heard, aborted, gate>>
vars == <<tier, shared, tier2, tier3>>

T == INSTANCE Tier2
H == INSTANCE Harness WITH MaxTurns <- ChildTurns, MaxMessages <- ChildMessages

ASSUME RunnersAssumption == T!Tier2Assumption /\ H!HarnessAssumption

(* The runner that is not used stays as it was made. *)
Init ==
    /\ tier \in {2, 3}
    /\ T!Init /\ H!Init
    /\ tier = 2 => mode = "jsonl" /\ ~resumes
    /\ tier = 3 => ~auto

Next ==
    \/ tier = 2 /\ T!Next /\ UNCHANGED <<tier, tier3>>
    \/ tier = 3 /\ H!Next /\ UNCHANGED <<tier, tier2>>

Spec == Init /\ [][Next]_vars

FairSpec ==
    /\ Spec
    /\ WF_vars(tier = 2 /\ T!Continue /\ UNCHANGED <<tier, tier3>>)
    /\ WF_vars(tier = 2 /\ T!ToolDone /\ UNCHANGED <<tier, tier3>>)
    /\ WF_vars(tier = 2 /\ aborted /\ T!Model /\ UNCHANGED <<tier, tier3>>)
    /\ WF_vars(tier = 3 /\ H!Runner /\ UNCHANGED <<tier, tier2>>)
    /\ WF_vars(tier = 3 /\ H!GraceFires /\ UNCHANGED <<tier, tier2>>)
    /\ SF_vars(tier = 3 /\ H!Leaves /\ UNCHANGED <<tier, tier2>>)
    /\ SF_vars(tier = 3 /\ H!Works /\ UNCHANGED <<tier, tier2>>)

----------------------------------------------------------------------------
(* The properties of either runner, stated where the runner is: a type     *)
(* invariant, and the four questions asked of a dispatched work item.      *)
TypeOK == (tier = 2 => T!TypeOK) /\ (tier = 3 => H!TypeOK)

(* What is sent to a worker arrives as it was sent: every call of a reply is *)
(* answered in order before anything else is said, the initiator's messages *)
(* are read once and in order however they fall between turns, and a child *)
(* hears a prefix of them (tier2.ts: an inbox emptied at turn boundaries;  *)
(* runner.ts: drainInbox).                                                 *)
MessagesInOrder ==
    /\ TypeOK
    /\ T!Coherent
    /\ tier = 2 => T!ReadInOrder
    /\ tier = 3 => H!HeardIsPrefix

(* However a run ends, or is interrupted, nothing of it is left over or    *)
(* misreported: no card without a worker parked on it, no written file that *)
(* the report misses, no row that says other than the child last did, no   *)
(* child, mirror or timer of a run that is over.                           *)
EndsTidily ==
    /\ T!PendingIsParked
    /\ T!TouchedIsListed
    /\ H!RowTellsTheEnd
    /\ tier = 3 => H!NothingOutlivesRun

(* A refusal holds for the run, whatever the model repeats and however often *)
(* auto-approve is flipped: the call is neither asked for again nor done.  *)
RefusalHolds ==
    [][\A c \in refused :
          /\ card'[c] = "pending" => card[c] = "pending"
          /\ c \in effects' => c \in effects]_vars

(* A cancelled task gets its worker back, parked or at work, and a session *)
(* that was steered or killed ends; one whose child printed a line when it  *)
(* owed no turn may need the kill (runner.ts:170).                         *)
RunsEnd == (tier = 2 => T!CancelEndsRun) /\ H!SessionEnds
============================================================================
