------------------------------- MODULE Panels -------------------------------
(***************************************************************************)
(* What the ops panels make of the records: the summaries of costs and of  *)
(* failures over windows of time, and the event table, which is paged      *)
(* backwards while the log grows. Records come in the order they were      *)
(* written, which is not the order of their times.                         *)
(***************************************************************************)
EXTENDS Integers, Sequences, FiniteSets, SequencesExt

CONSTANTS Models, MaxRecords, MaxTime, MaxEvents,  \* bounds on what there is to summarise
          MaxOlder,                                \* bound: older pages on their way at once
          Limit                                    \* a page of the event table

PanelsAssumption ==
    {MaxRecords, MaxTime, MaxEvents, MaxOlder} \subseteq Nat /\ Limit \in Nat \ {0}

VARIABLES costs,     \* CostRecord rows
          failures,  \* FailureRecord rows
          log,       \* per seq: does the event match the table's filter?
          filter,    \* the table's filter: "all" events or "some"
          rows, more, pagedBack,  \* EventsPanel's state; no rows yet is {}
          tail,      \* the answer on its way with the newest page
          back,      \* the answers on their way with older pages, in the order asked for
          raced      \* history: an older page came to a table it was not asked for

records == <<costs, failures>>
table == <<log, filter, rows, more, pagedBack, tail, back, raced>>
vars == <<records, table>>

None == <<>>

Init ==
    /\ costs = <<>> /\ failures = <<>> /\ log = <<>> /\ filter = "all" /\ rows = {} /\ more = FALSE
    /\ pagedBack = FALSE /\ tail = None /\ back = <<>> /\ raced = FALSE

Room == Len(costs) + Len(failures) < MaxRecords /\ log = <<>>
RecordCost(m, at, run) ==
    /\ Room
    /\ costs' = Append(costs, [model |-> m, at |-> at, run |-> run, usd |-> Len(costs) + 1])
    /\ UNCHANGED <<failures, table>>
RecordFailure(m, at, phase, retried) ==
    /\ Room
    /\ failures' = Append(failures, [model |-> m, at |-> at, phase |-> phase, retried |-> retried])
    /\ UNCHANGED <<costs, table>>

----------------------------------------------------------------------------
(* A window is half open; Null is no bound. The rows of a table in it.     *)
Null == -1
InWindow(at, since, until) == (since = Null \/ at >= since) /\ (until = Null \/ at < until)
Within(rs, since, until) == {i \in DOMAIN rs : InWindow(rs[i].at, since, until)}

(* A day is two ticks long.                                                *)
keyOf(r, groupBy) == IF groupBy = "model" THEN r.model ELSE <<r.at \div 2>>

(* The cost records of S, added up.                                        *)
Usd(S) == SumFunctionOnSet([i \in DOMAIN costs |-> costs[i].usd], S)
Added(S) == [usd |-> Usd(S), calls |-> Cardinality(S),
             initiator |-> Usd({i \in S : ~costs[i].run}), worker |-> Usd({i \in S : costs[i].run})]

summarizeCosts(groupBy, since, until) ==
    LET asked == Within(costs, since, until)
    IN  [totals |-> Added(asked),
         buckets |-> [k \in {keyOf(costs[i], groupBy) : i \in asked} |->
                        Added({i \in asked : keyOf(costs[i], groupBy) = k})]]

(* Per model: how it failed, how often it answered (its cost records), and *)
(* its last failure, by time and then by order.                            *)
Failed(F, C) == [failures |-> Cardinality(F), successes |-> Cardinality(C),
                 beforeOutput |-> Cardinality({i \in F : failures[i].phase = "before_output"}),
                 midStream |-> Cardinality({i \in F : failures[i].phase # "before_output"}),
                 retried |-> Cardinality({i \in F : failures[i].retried})]
LastAt(F) == FoldLeftDomain(LAMBDA l, i : IF i \in F /\ (l = Null \/ failures[i].at >= l)
                                          THEN failures[i].at ELSE l, Null, failures)

summarizeFailures(since, until) ==
    LET failed == Within(failures, since, until)
        done == Within(costs, since, until)
        of(S, rs, m) == {i \in S : rs[i].model = m}
        keys == {failures[i].model : i \in failed} \union {costs[i].model : i \in done}
    IN  [totals |-> Failed(failed, done),
         buckets |-> [m \in keys |-> Failed(of(failed, failures, m), of(done, costs, m))],
         lastAt |-> [m \in keys |-> LastAt(of(failed, failures, m))]]

----------------------------------------------------------------------------
AppendEvent(matches) ==
    /\ costs = <<>> /\ failures = <<>> /\ Len(log) < MaxEvents /\ log' = Append(log, matches)
    /\ UNCHANGED <<records, filter, rows, more, pagedBack, tail, back, raced>>

Matching(before) == {s \in 1..Len(log) : (filter = "all" \/ log[s]) /\ s < before}
Newest(S, n) == {s \in S : Cardinality({t \in S : t > s}) < n}

(* EventBus.latestEvents: one row more than the page is asked for, and dropped. *)
latestEvents(before) ==
    LET asked == Newest(Matching(before), Limit + 1)
    IN  [events |-> Newest(asked, Limit), hasMore |-> Cardinality(asked) > Limit]

(* The live tail asks for the newest page, on the socket's tick and on a   *)
(* timer, and not while paged back; a tick drops the answer on its way.    *)
load ==
    /\ ~pagedBack /\ tail' = <<latestEvents(Len(log) + 1)>>
    /\ UNCHANGED <<records, log, filter, rows, more, pagedBack, back, raced>>
TailAnswers ==
    /\ tail # None /\ tail' = None
    /\ \/ rows' = tail[1].events /\ more' = tail[1].hasMore /\ raced' = FALSE
       \/ UNCHANGED <<rows, more, raced>>  \* the fetch failed: keep the rows up
    /\ UNCHANGED <<records, log, filter, pagedBack, back>>

(* The button is there as long as there are older rows: nothing keeps it    *)
(* from being pressed again while an answer is on its way.                 *)
Low(S) == CHOOSE s \in S : \A t \in S : s <= t
Older(before) == [filter |-> filter, before |-> before, page |-> latestEvents(before)]
loadOlder ==
    /\ more /\ rows # {} /\ Len(back) < MaxOlder
    /\ back' = Append(back, Older(Low(rows)))
    /\ UNCHANGED <<records, log, filter, rows, more, pagedBack, tail, raced>>

(* The table it was asked for still ends where the page begins, or with it. *)
Fits(answer) ==
    /\ rows # {} /\ filter = answer.filter
    /\ \/ answer.before = Low(rows)
       \/ Low(rows) \in answer.page.events /\ \A s \in answer.page.events : Low(rows) <= s

(* An older page lands, in any order and whatever the table has become.    *)
OlderAnswers(i) ==
    /\ i \in DOMAIN back /\ back' = RemoveAt(back, i)
    /\ \/ /\ rows' = rows \union back[i].page.events  \* mergeBySeq
          /\ more' = back[i].page.hasMore /\ pagedBack' = TRUE /\ tail' = None
          /\ raced' = (raced \/ ~Fits(back[i]))
       \/ UNCHANGED <<rows, more, pagedBack, tail, raced>>
    /\ UNCHANGED <<records, log, filter>>

Cleared == pagedBack' = FALSE /\ rows' = {} /\ raced' = FALSE
Restart == Cleared /\ tail' = None /\ UNCHANGED <<records, log, more, back>>
jumpToLatest == pagedBack /\ Restart /\ UNCHANGED filter
(* slip: what was asked for under the other filter still comes *)
changeFilter_TailStays ==
    filter' \in {"all", "some"} \ {filter} /\ Cleared /\ UNCHANGED <<records, log, more, tail, back>>
changeFilter == filter' \in {"all", "some"} \ {filter} /\ Restart

Next ==
    \/ load \/ TailAnswers \/ loadOlder \/ jumpToLatest \/ changeFilter
    \/ \E i \in 1..MaxOlder : OlderAnswers(i)
    \/ \E b \in BOOLEAN : AppendEvent(b)
    \/ \E m \in Models, at \in 0..MaxTime : \E b \in BOOLEAN :
          RecordCost(m, at, b) \/ \E phase \in {"before_output", "mid_stream"} : RecordFailure(m, at, phase, b)

Spec == Init /\ [][Next]_vars
----------------------------------------------------------------------------
TypeOK ==
    /\ Len(costs) + Len(failures) <= MaxRecords /\ Len(log) <= MaxEvents
    /\ rows \subseteq 1..Len(log) /\ {more, pagedBack, raced} \subseteq BOOLEAN
    /\ tail = None \/ tail[1].events \subseteq 1..Len(log)
    /\ Len(back) <= MaxOlder /\ \A i \in DOMAIN back : back[i].page.events \subseteq 1..Len(log)

SumOf(f, field) == SumFunction([k \in DOMAIN f |-> f[k][field]])

(* The panels add up: windows that meet share no record and miss none, the *)
(* buckets of any grouping make the total, and who spent it too; a model's *)
(* last failure is its latest one.                                         *)
PanelsAddUp ==
    \A cut \in 0..MaxTime :
        LET f == summarizeFailures(Null, Null) IN
        /\ \A g \in {"model", "day"} :
               LET all == summarizeCosts(g, Null, Null)
                   before == summarizeCosts(g, Null, cut) after == summarizeCosts(g, cut, Null) IN
               /\ \A x \in DOMAIN all.totals :
                      /\ all.totals[x] = before.totals[x] + after.totals[x]
                      /\ all.totals[x] = SumOf(all.buckets, x)
               /\ all.totals.usd = all.totals.initiator + all.totals.worker
        /\ \A x \in DOMAIN f.totals :
               /\ f.totals[x] = summarizeFailures(Null, cut).totals[x] + summarizeFailures(cut, Null).totals[x]
               /\ f.totals[x] = SumOf(f.buckets, x)
        /\ f.totals.failures = f.totals.beforeOutput + f.totals.midStream
        /\ \A i \in 1..Len(failures) : failures[i].at <= f.lastAt[failures[i].model]

(* The table is a stretch of the log: among the events of its filter the   *)
(* rows leave no hole, and older ones are offered just when there are some.*)
(* It is the view to open to know "exactly what the daemon did"            *)
(* (EventsPanel.tsx:8).                                                    *)
NoHoles ==
    /\ rows \subseteq Matching(Len(log) + 1)
    /\ rows # {} =>
          /\ \A s \in Matching(Len(log) + 1) :
                 (\E t \in rows : s >= t) /\ (\E t \in rows : s <= t) => s \in rows
          /\ more = (Matching(Low(rows)) # {})

(* So it is, also with several older pages on their way, until one of them  *)
(* lands on a table it does not fit (another filter, the tail gone on, a   *)
(* later page there already), and again once the newest page has come.     *)
NoHolesUnlessRaced == ~raced => NoHoles

=============================================================================
