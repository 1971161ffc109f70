------------------------------- MODULE Stats -------------------------------
(***************************************************************************)
(* What the daemon learns of a model for a kind of work: each tagged work  *)
(* item that reaches a verdict is folded, at its status event, into a      *)
(* count, a count of successes and two running means. A row keeps the      *)
(* means, not the sums.                                                    *)
(***************************************************************************)
EXTENDS Integers, FiniteSets, FiniteSetsExt

CONSTANTS Items,  \* work items given to one model
          Costs   \* what a model call may cost, in a unit every mean divides

StatsAssumption == IsFiniteSet(Items) /\ Costs \subseteq Nat

VARIABLES tag,      \* items that say what kind of work they are
          status,   \* of each item: "running" or how it ended
          flying,   \* items with a model call in flight
          billed,   \* cost rows of each item's runs: their sum, or Nothing
          stat,     \* the row: attempts, successes, mean
          seen      \* history: what each item's cost was when it was folded

vars == <<tag, status, flying, billed, stat, seen>>

Nothing == -1
Ends == {"succeeded", "failed", "cancelled", "interrupted", "handed_off"}
Observed == Ends \ {"interrupted", "handed_off"}

Init ==
    /\ tag \in SUBSET Items
    /\ status = [i \in Items |-> "running"]
    /\ flying = {} /\ billed = [i \in Items |-> Nothing]
    /\ stat = [attempts |-> 0, successes |-> 0, mean |-> Nothing]
    /\ seen = [i \in Items |-> Nothing]

Calls(i) ==
    /\ status[i] = "running" /\ i \notin flying /\ flying' = flying \union {i}
    /\ billed[i] = Nothing  \* bound: one call is enough for a cost
    /\ UNCHANGED <<tag, status, billed, stat, seen>>

(* A call's cost is booked when it ends, which may be after its item did.  *)
CallEnds(i) ==
    /\ i \in flying /\ flying' = flying \ {i}
    /\ \E c \in Costs : billed' = [billed EXCEPT ![i] = c + (IF @ = Nothing THEN 0 ELSE @)]
    /\ UNCHANGED <<tag, status, stat, seen>>

(* Slip: what is unknown counts as nothing spent. *)
RunningMean_ZeroForNull(mean, n, value) ==
    IF mean = Nothing THEN value ELSE mean + ((IF value = Nothing THEN 0 ELSE value) - mean) \div n

(* An unknown leaves the mean where it was; the count goes on.             *)
RunningMean(mean, n, value) ==
    CASE value = Nothing -> mean
      [] mean = Nothing -> value
      [] OTHER -> mean + (value - mean) \div n

Fold(s, how, cost) ==
    [attempts |-> s.attempts + 1,
     successes |-> s.successes + (IF how = "succeeded" THEN 1 ELSE 0),
     mean |-> RunningMean(s.mean, s.attempts + 1, cost)]

(* A cancelled worker's item ends while its call is still in flight; a     *)
(* death of the daemon interrupts it at the next boot.                     *)
ItemEnds(i, how) ==
    /\ status[i] = "running" /\ status' = [status EXCEPT ![i] = how]
    /\ how = "cancelled" \/ i \notin flying
    /\ IF i \in tag /\ how \in Observed
       THEN stat' = Fold(stat, how, billed[i]) /\ seen' = [seen EXCEPT ![i] = billed[i]]
       ELSE UNCHANGED <<stat, seen>>
    /\ UNCHANGED <<tag, flying, billed>>

Next == \E i \in Items : Calls(i) \/ CallEnds(i) \/ \E how \in Ends : ItemEnds(i, how)
Spec == Init /\ [][Next]_vars

----------------------------------------------------------------------------
Verdicts == {i \in tag : status[i] \in Observed}
Measured == {i \in Verdicts : seen[i] # Nothing}

(* Every tagged item that reached a verdict was counted, once, and nothing *)
(* else was.                                                               *)
CountedOnce ==
    /\ stat.attempts = Cardinality(Verdicts)
    /\ stat.successes = Cardinality({i \in Verdicts : status[i] = "succeeded"})

(* The average lies among the costs it averages, and is unknown only when  *)
(* none of them was known: an attempt without a cost does not drag it to 0. *)
MeanAmongCosts ==
    /\ (stat.mean = Nothing) = (Measured = {})
    /\ Measured # {} => /\ \E i \in Measured : seen[i] <= stat.mean
                        /\ \E i \in Measured : stat.mean <= seen[i]

============================================================================
