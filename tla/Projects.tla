------------------------------- MODULE Projects -------------------------------
(***************************************************************************)
(* What a request becomes: its project, its leader, its settings, and what *)
(* can still change them afterwards.  selectProject, beginOrchestration,   *)
(* POST /internal/run and the routes of projects and settings in           *)
(* http/app.ts; pickInitiator, start and pickHarness in engine.ts; the     *)
(* model names of router/resolve.ts; the fold of shared/projects.ts; the   *)
(* dashboard's ProjectsPanel.tsx.  A handler runs between two awaits.      *)
(*                                                                         *)
(* A model's id is the sequence of what its slashes part; a cap that is    *)
(* not there is above every other.                                         *)
(***************************************************************************)
EXTENDS Naturals, Sequences, FiniteSets, SequencesExt

CONSTANTS Slugs,        \* names of projects
          Models,       \* ids: a provider and a name
          Upstream,     \* what the provider calls each model
          Tools,        \* whether it does tools: "yes", "no" or "unknown"
          Price,        \* what it costs
          Wanted,       \* names requests ask for; <<>> for none
          Default,      \* the configured leader
          Harnesses,    \* those the daemon has, in order
          Uncapped,     \* null, for a cap
          MaxTasks,     \* bound: tasks
          MaxEdits      \* bound: changes of projects, registry and caps

ProjectsAssumption ==
    /\ "none" \notin Slugs /\ Default \in Wanted /\ <<>> \in Wanted
    /\ {Uncapped, MaxTasks, MaxEdits} \subseteq Nat /\ Uncapped > 1

VARIABLES project,    \* the row of each project, or Absent
          page,       \* what the dashboard's page shows of them
          behind,     \* history: projects somebody else wrote since it was read
          on, up,     \* models and providers that are enabled
          tasks,      \* the tasks started so far
          reply,      \* "refused", when that was the last request's
          edits

vars == <<project, page, behind, on, up, tasks, reply, edits>>

Caps == {1, Uncapped}
Providers == {m[1] : m \in Models}
Absent == [archived |-> TRUE, auto |-> FALSE, cap |-> 0, pin |-> <<>>, allowed |-> {}]
Row == [archived : BOOLEAN, auto : BOOLEAN, cap : Caps, pin : Wanted,
        allowed : {{}, ToSet(Harnesses)}]
Fresh == {r \in Row : ~r.archived /\ r.pin = <<>> /\ r.allowed = ToSet(Harnesses)}
Known(s) == project[s] # Absent

Init ==
    /\ project \in [Slugs -> Fresh]
    /\ page = project /\ behind = {}
    /\ on = Models /\ up = Providers
    /\ tasks = <<>> /\ reply = "none" /\ edits = 0

Edits == edits < MaxEdits /\ edits' = edits + 1

(***************************************************************************)
(* Names of models.                                                        *)
(***************************************************************************)
BareName(m) == <<Last(m)>>

(* Upstream ids before bare names before suffixes, among the enabled. *)
MatchLoosely(wanted) ==
    LET byUpstream == {m \in on : Upstream[m] = wanted}
        byBareName == {m \in on : BareName(m) = wanted}
    IN  IF byUpstream # {} THEN byUpstream
        ELSE IF byBareName # {} THEN byBareName
        ELSE {m \in on : IsStrictSuffix(wanted, m) \/ IsStrictSuffix(m, wanted)}

Matches(wanted) == IF wanted \in on THEN {wanted} ELSE MatchLoosely(wanted)

(* One model, of a provider that is enabled: otherwise the request fails. *)
Resolves(wanted) == Cardinality(Matches(wanted)) = 1 /\ \A m \in Matches(wanted) : m[1] \in up
Resolved(wanted) == CHOOSE m \in Matches(wanted) : TRUE

(* Models known to do tools, then the dearest; ties, broken by id, are left open. *)
Evidence(m) == IF Tools[m] = "yes" THEN 1 ELSE 0
Leads(m, n) ==
    \/ Evidence(m) > Evidence(n)
    \/ Evidence(m) = Evidence(n) /\ Price[m] > Price[n]
Able == {m \in on : Tools[m] # "no"}

(* The pin of the request, of the project, the configured leader, the best. *)
PickInitiator(pin, s) ==
    LET standing == IF s = "none" THEN <<>> ELSE project[s].pin
        named == IF pin # <<>> THEN pin ELSE IF standing # <<>> THEN standing ELSE Default
    IN  IF named = <<>> THEN {m \in Able : \A n \in Able \ {m} : ~Leads(n, m)}
        ELSE IF Resolves(named) THEN {Resolved(named)} ELSE {}

(***************************************************************************)
(* Starting a task.                                                        *)
(***************************************************************************)
MinCap(a, b) == IF a < b THEN a ELSE b

(* A project only tightens what a task asks for. *)
EffectiveTaskSettings(s, asked) ==
    IF s = "none" THEN asked
    ELSE [auto |-> asked.auto /\ project[s].auto, cap |-> MinCap(project[s].cap, asked.cap)]

(* Its row and its session; of the project, what it was is history here,   *)
(* but for the harnesses, which the session keeps.                         *)
Started(s, leader, settings) ==
    [slug |-> s, row |-> "running", live |-> TRUE, leader |-> leader,
     auto |-> settings.auto, cap |-> settings.cap, spends |-> settings.cap,
     gated |-> s # "none" /\ ~project[s].auto,
     limit |-> IF s = "none" THEN Uncapped ELSE project[s].cap, raised |-> FALSE,
     allowed |-> IF s = "none" THEN ToSet(Harnesses) ELSE project[s].allowed, used |-> {}]

Start(s, pin, asked) ==
    \/ PickInitiator(pin, s) = {} /\ reply' = "refused" /\ UNCHANGED tasks
    \/ /\ Len(tasks) < MaxTasks
       /\ \E leader \in PickInitiator(pin, s) :
            tasks' = Append(tasks, Started(s, leader, EffectiveTaskSettings(s, asked)))
       /\ reply' = "none"

(* A suffix and a header that disagree, a project that is not there or that *)
(* is archived.                                                            *)
SelectProject(suffix, header) ==
    IF suffix # "none" /\ header # "none" /\ suffix # header THEN {}
    ELSE LET s == IF suffix # "none" THEN suffix ELSE header
         IN  IF s = "none" THEN {s} ELSE {p \in {s} \cap Slugs : ~project[p].archived}

(* A task that is there is joined, once the request's project is accepted. *)
BeginOrchestration(suffix, header, pin, task) ==
    /\ LET selected == SelectProject(suffix, header)
       IN  IF selected = {} THEN reply' = "refused" /\ UNCHANGED tasks
           ELSE IF task \in DOMAIN tasks /\ tasks[task].live
             THEN reply' = "none" /\ UNCHANGED tasks
             ELSE \E s \in selected : Start(s, pin, [auto |-> FALSE, cap |-> Uncapped])
    /\ UNCHANGED <<project, page, behind, on, up, edits>>

(* A task of the dashboard's: its project is in the model's name only. *)
Run(suffix, pin, asked) ==
    /\ LET selected == SelectProject(suffix, "none")
       IN  IF selected = {} THEN reply' = "refused" /\ UNCHANGED tasks
           ELSE \E s \in selected : Start(s, pin, asked)
    /\ UNCHANGED <<project, page, behind, on, up, edits>>

(* What the form's field says: the daemon's default (here without a cap),   *)
(* none, or dollars; zero is none of these, and such a form is not sent.   *)
ParseBudget(text) ==
    CASE text \in {"", "uncapped"} -> {Uncapped} [] text = "0" -> {} [] OTHER -> Caps \ {Uncapped}

RunForm(suffix, pin, auto, text) ==
    \/ ParseBudget(text) = {} /\ reply' = "refused"
       /\ UNCHANGED <<project, page, behind, on, up, tasks, edits>>
    \/ \E cap \in ParseBudget(text) : Run(suffix, pin, [auto |-> auto, cap |-> cap])

(* The first harness the project allows. *)
PickHarness(t) ==
    /\ tasks[t].live /\ tasks[t].used = {}
    /\ \E i \in DOMAIN Harnesses :
         /\ Harnesses[i] \in tasks[t].allowed
         /\ \A j \in 1 .. i - 1 : Harnesses[j] \notin tasks[t].allowed
         /\ tasks' = [tasks EXCEPT ![t].used = {Harnesses[i]}]
    /\ UNCHANGED <<project, page, behind, on, up, edits>> /\ reply' = "none"

(* An aborted task has no session any more and, for a while, a row that runs. *)
Aborted(t) ==
    /\ tasks[t].live /\ tasks' = [tasks EXCEPT ![t].live = FALSE]
    /\ UNCHANGED <<project, page, behind, on, up, edits>> /\ reply' = "none"

Ended(t) ==
    /\ tasks[t].row = "running" /\ tasks' = [tasks EXCEPT ![t].live = FALSE, ![t].row = "ended"]
    /\ UNCHANGED <<project, page, behind, on, up, edits>> /\ reply' = "none"

(* Slip: the row is written and the session is not told. *)
PostSettings_RowOnly(t, cap) ==
    /\ tasks[t].row = "running" /\ Edits
    /\ tasks' = [tasks EXCEPT ![t].cap = cap, ![t].raised = TRUE]
    /\ reply' = "none"
    /\ UNCHANGED <<project, page, behind, on, up>>

(* The cap of a task, in its row and, where it has one, in its session. *)
PostSettings(t, cap) ==
    /\ tasks[t].row = "running" /\ Edits
    /\ tasks' = [tasks EXCEPT ![t].cap = cap, ![t].raised = TRUE,
                              ![t].spends = IF tasks[t].live THEN cap ELSE @]
    /\ reply' = "none"
    /\ UNCHANGED <<project, page, behind, on, up>>

(***************************************************************************)
(* Projects, as their routes write them, and the registry.                 *)
(***************************************************************************)
Create(s, r) ==
    /\ ~Known(s) /\ r \in Fresh /\ Edits
    /\ project' = [project EXCEPT ![s] = r] /\ behind' = behind \cup {s} /\ reply' = "none"
    /\ UNCHANGED <<page, on, up, tasks>>

(* A patch from elsewhere: of the policy, the pin or whether it is archived. *)
Patch(s, r) ==
    /\ Known(s) /\ Edits
    /\ Cardinality({f \in DOMAIN r : r[f] # project[s][f]}) = 1
    /\ project' = [project EXCEPT ![s] = r] /\ behind' = behind \cup {s} /\ reply' = "none"
    /\ UNCHANGED <<page, on, up, tasks>>

Delete(s) ==
    /\ Known(s) /\ Edits
    /\ project' = [project EXCEPT ![s] = Absent] /\ behind' = behind \cup {s} /\ reply' = "none"
    /\ UNCHANGED <<page, on, up, tasks>>

SwitchModel(m) ==
    /\ Edits /\ on' = (on \ {m}) \cup ({m} \ on)
    /\ UNCHANGED <<project, page, behind, up, tasks>> /\ reply' = "none"

SwitchProvider(p) ==
    /\ Edits /\ up' = (up \ {p}) \cup ({p} \ up)
    /\ UNCHANGED <<project, page, behind, on, tasks>> /\ reply' = "none"

(***************************************************************************)
(* The dashboard's page, which sends what it shows.                        *)
(***************************************************************************)
Reload(rows) == page' = rows /\ behind' = {}

PageLoads == Reload(project) /\ UNCHANGED <<project, on, up, tasks, edits>> /\ reply' = "none"

(* It re-reads after a write that changed something. *)
Write(s, patched) ==
    IF Known(s) THEN /\ project' = [project EXCEPT ![s] = patched]
                     /\ IF patched # project[s] THEN Reload(project') ELSE UNCHANGED <<page, behind>>
                ELSE UNCHANGED <<project, page, behind>>

(* Auto-approve: the policy shown, with the one switch turned. *)
ToggleAuto(s) ==
    /\ page[s] # Absent /\ Edits
    /\ Write(s, [project[s] EXCEPT !.auto = ~page[s].auto, !.cap = page[s].cap,
                                   !.allowed = page[s].allowed])
    /\ UNCHANGED <<on, up, tasks>> /\ reply' = "none"

ToggleArchived(s) ==
    /\ page[s] # Absent /\ Edits
    /\ Write(s, [project[s] EXCEPT !.archived = ~page[s].archived])
    /\ UNCHANGED <<on, up, tasks>> /\ reply' = "none"

Named == Slugs \cup {"none"}

Next ==
    \/ \E suffix, header \in Named, pin \in Wanted, t \in {0} \cup {i \in DOMAIN tasks : tasks[i].live} :
         BeginOrchestration(suffix, header, pin, t)
    \/ \E suffix \in Named, pin \in Wanted, auto \in BOOLEAN, text \in {"", "0", "1"} :
         Len(tasks) < MaxTasks /\ RunForm(suffix, pin, auto, text)
    \/ \E t \in DOMAIN tasks :
         \/ PickHarness(t) \/ Aborted(t) \/ Ended(t)
         \/ \E cap \in Caps : PostSettings(t, cap)
    \/ \E s \in Slugs :
         \/ \E r \in Row : Create(s, r) \/ Patch(s, r)
         \/ Delete(s) \/ ToggleAuto(s) \/ ToggleArchived(s)
    \/ \E m \in Models : SwitchModel(m)
    \/ \E p \in Providers : SwitchProvider(p)
    \/ PageLoads

Spec == Init /\ [][Next]_vars

----------------------------------------------------------------------------
TypeOK ==
    /\ \A s \in Slugs : Known(s) => project[s] \in Row
    /\ on \subseteq Models /\ up \subseteq Providers /\ behind \subseteq Slugs
    /\ \A t \in DOMAIN tasks : tasks[t].leader \in Models

(* "A gated project cannot be loosened per-task": what a task does without   *)
(* asking, and which harness it runs, is within what its project allowed   *)
(* when it started, whatever is edited, archived or deleted afterwards;    *)
(* and its cap is, until somebody sets it.                                 *)
WithinItsProject ==
    \A t \in DOMAIN tasks :
      /\ tasks[t].gated => ~tasks[t].auto
      /\ tasks[t].used \subseteq tasks[t].allowed
      /\ tasks[t].raised \/ tasks[t].cap <= tasks[t].limit

(* The cap a running session spends against is the one in its row. *)
OneCap == \A t \in DOMAIN tasks : tasks[t].live => tasks[t].spends = tasks[t].cap

(* A request that is refused leaves no task, and the model that leads a     *)
(* task is enabled, whether the request, its project or the settings named *)
(* it or it was picked (engine.ts:316).                                    *)
StartsOrNothing ==
    [][/\ reply' = "refused" => tasks' = tasks
       /\ Len(tasks') > Len(tasks) => Last(tasks').leader \in on]_vars

(* A switch of the page turns that switch: unless the row was written        *)
(* elsewhere since, whose policy a page that is behind then takes back.    *)
SwitchOnly ==
    [][\A s \in Slugs :
         s \notin behind /\ page' # page /\ project'[s].auto # project[s].auto
         => project'[s] = [project[s] EXCEPT !.auto = ~project[s].auto]]_vars

============================================================================
