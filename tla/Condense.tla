------------------------------ MODULE Condense ------------------------------
(***************************************************************************)
(* How the log of a task is cut to the budget of the model that distils it *)
(* (condenseTaskLog, condenseCorrections): passes over the lines, each     *)
(* keeping a head and a tail, until the text fits or is down to 8 lines.   *)
(***************************************************************************)
EXTENDS Integers, Sequences, FiniteSets, SequencesExt

CONSTANTS Budget,      \* tokens the transcript may have
          HeaderCosts, \* tokens the header may have
          LineCosts,   \* tokens a line may have, all lines alike
          MaxLines     \* bound: lines of the log

CondenseAssumption == Budget \in Nat /\ MaxLines \in Nat

VARIABLES body,     \* line numbers, and -n for a line that says n were elided
          lines, header, cost,
          phase     \* "cutting", "done"

vars == <<body, lines, header, cost, phase>>

MarkerCost == 6
Tokens(b) ==
    LET marks == Cardinality({i \in DOMAIN b : b[i] < 0})
    IN  header + marks * MarkerCost + (Len(b) - marks) * cost

Init ==
    /\ lines \in 0 .. MaxLines /\ header \in HeaderCosts /\ cost \in LineCosts
    /\ body = [i \in 1 .. lines |-> i]
    /\ phase = "cutting"

TooLong == Len(body) > 8 /\ Tokens(body) > Budget

(* Lines kept at each end. *)
Keep(n) == IF n \div 4 > 4 THEN n \div 4 ELSE 4

Pass ==
    /\ phase = "cutting" /\ TooLong
    /\ LET n == Len(body)  k == Keep(n)  dropped == n - 2 * k IN
          /\ body' = SubSeq(body, 1, k) \o <<-dropped>> \o SubSeq(body, n - k + 1, n)
          /\ phase' = IF dropped <= 0 THEN "done" ELSE phase
    /\ UNCHANGED <<lines, header, cost>>

Fits ==
    /\ phase = "cutting" /\ ~TooLong /\ phase' = "done"
    /\ UNCHANGED <<body, lines, header, cost>>

Next == Pass \/ Fits
FairSpec == Init /\ [][Next]_vars /\ WF_vars(Next)

----------------------------------------------------------------------------
(* What is handed over keeps the plan and the outcome, the log's first and *)
(* last four lines, keeps the order of the log, and what was cut is cut    *)
(* from one place in the middle, with a mark in that place.                *)
KeepsEnds ==
    /\ \A i \in 1 .. 4 : i <= lines => {i, lines + 1 - i} \subseteq ToSet(body)
    /\ \A i, j \in DOMAIN body : i < j /\ body[i] > 0 /\ body[j] > 0 => body[i] < body[j]
    /\ \A i \in 1 .. Len(body) - 1 :
          body[i] > 0 /\ body[i + 1] > 0 => body[i + 1] = body[i] + 1
    /\ \A i, j \in DOMAIN body : body[i] < 0 /\ body[j] < 0 => i = j

(* A log is cut to the model's budget, or to the fewest lines that keep    *)
(* both ends, in the end.                                                  *)
CutToBudget == phase = "done" => ~(Tokens(body) > Budget) \/ Len(body) <= 8

(* Preparing a transcript ends: whatever a task's log holds, the daemon is *)
(* not lost to it.                                                         *)
Condenses == <>(phase = "done")

============================================================================
