-------------------------------- MODULE Budget --------------------------------
(***************************************************************************)
(* The spending cap of a running task: budgetCheck, overBudget, totals and *)
(* setMaxSpendUsd of orchestrator/engine.ts, inside as much of drive() as  *)
(* decides when they are reached, and the route that moves the cap.        *)
(*                                                                         *)
(* What was spent is read back from cost_records, where every call that    *)
(* has ended is: the leader's, one a turn, and its workers', at any time.  *)
(***************************************************************************)
EXTENDS Naturals

CONSTANTS Ceilings,     \* caps a task may have
          Uncapped,     \* null, for a cap
          MaxRounds,    \* maxTurns
          MaxPasses,    \* maxHandoffs
          MaxSpent,     \* bound: what the records add up to
          MaxOut,       \* bound: workers under way
          MaxMoves      \* bound: changes of the cap

BudgetAssumption ==
    /\ Ceilings \subseteq Nat \ {0, Uncapped}
    /\ {Uncapped, MaxRounds, MaxPasses, MaxSpent, MaxOut, MaxMoves} \subseteq Nat

VARIABLES ceiling,      \* settings.maxSpendUsd of the session
          spent,        \* what the task's cost records add up to
          budgetWarned, \* the latch
          place,        \* of the driver: "ask" for a turn, "calls" or "prose" of it, "over"
          rounds, reminded, passes,  \* turn, nudged, handoffs
          out,          \* workers under way
          note,         \* the note about this ceiling among the leader's messages
          dropped,      \* history: a note about it went with a predecessor's messages
          moves

vars == <<ceiling, spent, budgetWarned, place, rounds, reminded, passes, out, note, dropped,
          moves>>

Init ==
    /\ ceiling \in Ceilings \cup {Uncapped}
    /\ spent = 0 /\ budgetWarned = FALSE
    /\ place = "ask" /\ rounds = 0 /\ reminded = FALSE /\ passes = 0
    /\ out = 0 /\ note = "none" /\ dropped = FALSE /\ moves = 0

(* Four fifths of the cap, and all of it. *)
Near == ceiling # Uncapped /\ 5 * spent >= 4 * ceiling
OverBudget == ceiling # Uncapped /\ spent >= ceiling

Spends(most) == \E c \in 0..most : spent + c <= MaxSpent /\ spent' = spent + c

(* A turn's call, billed as it ends; none when it fails or the turns are used. *)
CallInitiator ==
    /\ place = "ask" /\ rounds < MaxRounds
    /\ Spends(2)
    /\ place' \in {"calls", "prose"} /\ rounds' = rounds + 1
    /\ UNCHANGED <<ceiling, budgetWarned, reminded, passes, out, note, dropped, moves>>

(* Failure, abort, the last turn, or the answer. *)
DriverEnds ==
    /\ place # "over" /\ place' = "over"
    /\ UNCHANGED <<ceiling, spent, budgetWarned, rounds, reminded, passes, out, note, dropped,
                   moves>>

(* Prose and no call, once: the turn ends before its check. *)
Nudge ==
    /\ place = "prose" /\ ~reminded
    /\ place' = "ask" /\ reminded' = TRUE
    /\ UNCHANGED <<ceiling, spent, budgetWarned, rounds, passes, out, note, dropped, moves>>

SpawnWorker ==
    /\ place = "calls" /\ ~OverBudget /\ out < MaxOut
    /\ out' = out + 1
    /\ UNCHANGED <<ceiling, spent, budgetWarned, place, rounds, reminded, passes, note, dropped,
                   moves>>

(* A worker's call is billed, and it goes on or was done. *)
WorkerPays ==
    /\ out > 0 /\ Spends(1)
    /\ out' \in {out, out - 1}
    /\ UNCHANGED <<ceiling, budgetWarned, place, rounds, reminded, passes, note, dropped, moves>>

(* The successor's messages are built anew and the turn ends before its check; *)
(* the latch stays.                                                            *)
Handoff ==
    /\ place = "calls" /\ passes < MaxPasses
    /\ place' = "ask" /\ passes' = passes + 1 /\ reminded' = FALSE
    /\ note' = "none" /\ dropped' = (dropped \/ note # "none")
    /\ UNCHANGED <<ceiling, spent, budgetWarned, rounds, out, moves>>

(* The turn's calls are done: one note per cap. *)
BudgetCheck ==
    /\ place = "calls" /\ place' = "ask"
    /\ IF Near /\ ~budgetWarned
         THEN /\ budgetWarned' = TRUE
              /\ note' = IF OverBudget THEN "stop" ELSE "soon"
         ELSE UNCHANGED <<budgetWarned, note>>
    /\ UNCHANGED <<ceiling, spent, rounds, reminded, passes, out, dropped, moves>>

(* The route moves the cap of a task that is not over, at any time. *)
SetMaxSpendUsd ==
    /\ place # "over" /\ moves < MaxMoves /\ moves' = moves + 1
    /\ ceiling' \in Ceilings \cup {Uncapped}
    /\ budgetWarned' = FALSE
    /\ note' = "none" /\ dropped' = FALSE
    /\ UNCHANGED <<spent, place, rounds, reminded, passes, out>>

Next ==
    \/ CallInitiator \/ DriverEnds \/ Nudge \/ SpawnWorker \/ WorkerPays \/ Handoff
    \/ BudgetCheck \/ SetMaxSpendUsd

Spec == Init /\ [][Next]_vars

----------------------------------------------------------------------------
(* The shape of a session's budget (engine.ts:537-572).                    *)
TypeOK ==
    /\ ceiling \in Ceilings \cup {Uncapped} /\ spent \in 0..MaxSpent
    /\ place \in {"ask", "calls", "prose", "over"} /\ rounds \in 0..MaxRounds /\ passes \in 0..MaxPasses
    /\ budgetWarned \in BOOLEAN /\ reminded \in BOOLEAN /\ dropped \in BOOLEAN
    /\ out \in 0..MaxOut
    /\ note \in {"none", "soon", "stop"} /\ moves \in 0..MaxMoves

(* The latch is silent only about a cap the task was told of: a turn that   *)
(* is checked near the cap leaves a note about the cap in force, or one went *)
(* with a leader that handed over (engine.ts:569, 1469).                   *)
ToldOfTheCap ==
    [][BudgetCheck /\ Near => note' # "none" \/ dropped']_vars

(* A leader told to stop, by a check that found the cap reached, gets no     *)
(* further worker until the cap is moved, whatever becomes of the turns     *)
(* between (engine.ts:1033, 1473).                                         *)
StopMeansStop == [][note = "stop" /\ note' = "stop" => out' <= out]_vars

============================================================================
