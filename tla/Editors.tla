------------------------------- MODULE Editors -------------------------------
(***************************************************************************)
(* The registry's page of the dashboard, open on one model: the form, its  *)
(* patches, the re-reading after each write and the import of a bundle.    *)
(* ModelEditor.tsx, RegistryPanel.tsx, RegistryTransfer.tsx, registry.ts   *)
(* and transfer.ts, with the daemon's routes for them.  Answers of         *)
(* requests that are on their way together come in any order, or not.      *)
(***************************************************************************)
EXTENDS Naturals, Sequences, SequencesExt, FiniteSets

CONSTANTS Names,        \* names a model may have
          Prices,       \* prices as texts, "" for one nobody knows
          MaxActs,      \* bound: what the user does to the form, the switch, the page
          MaxOthers     \* bound: writes of others (a sync, an import, another page)

EditorsAssumption == "" \in Prices /\ "x" \notin Prices /\ {MaxActs, MaxOthers} \subseteq Nat

VARIABLES row,        \* the model's row, in the daemon
          shown,      \* the row the page shows
          opened,     \* the model's form is there
          form,       \* its texts
          typed,      \* history: fields the user typed in since it was opened
          under,      \* history: somebody else wrote the row since
          returned,   \* history: an import gave the row back to the sync
          patches,    \* requests of this form, and of forms that were here before it
          loads,      \* the readings of the registry that are on their way
          phase,      \* of the import: "idle", "checking", "preview" or "importing"
          mode,       \* the answer picked for models already here
          report,     \* what the preview said: the mode it was for, and the row it found
          acts, others

editing == <<opened, form, typed, under, patches>>
importing == <<phase, mode, report>>
vars == <<row, shown, editing, loads, importing, returned, acts, others>>

PriceFields == {"in", "out"}
Fields == {"name"} \cup PriceFields
Values(f) == IF f = "name" THEN Names ELSE Prices
Facts == {r \in [Fields -> Names \cup Prices] : \A f \in Fields : r[f] \in Values(f)}
Row == [facts : Facts, on : BOOLEAN, source : {"synced", "manual"}]
Asked == [facts |-> [f \in Fields |-> "asked"], on |-> FALSE, source |-> "synced"]
NoReport == [mode |-> "none", row |-> Asked]
Bundled == [facts : {CHOOSE f \in Facts : TRUE}, on : {TRUE}, source : {"synced"}]

Init ==
    /\ row \in {r \in Row : r.on /\ r.facts \in {CHOOSE f \in Facts : f["out"] = ""}}
    /\ shown = row
    /\ opened = FALSE /\ form = row.facts /\ typed = {} /\ under = FALSE
    /\ patches = <<>> /\ loads = <<>> /\ returned = FALSE
    /\ phase = "idle" /\ mode = "skip" /\ report = NoReport
    /\ acts = 0 /\ others = 0

Acts == acts < MaxActs /\ acts' = acts + 1

(***************************************************************************)
(* The form.                                                               *)
(***************************************************************************)
(* A row is opened, or comes back after a filter had hidden it: the form is *)
(* filled from the row shown, and from then on is the user's.              *)
Open ==
    /\ ~opened /\ opened' = TRUE /\ Acts
    /\ form' = shown.facts /\ typed' = {} /\ under' = (shown # row)
    /\ UNCHANGED <<row, shown, patches, loads, importing, returned, others>>

(* A form that goes leaves its request under way; the next knows nothing of *)
(* it and is not busy.                                                     *)
Close ==
    /\ opened /\ opened' = FALSE /\ Acts
    /\ patches' = [i \in DOMAIN patches |-> [patches[i] EXCEPT !.mine = FALSE]]
    /\ UNCHANGED <<row, shown, form, typed, under, loads, importing, returned, others>>

Type(f, text) ==
    /\ opened /\ text # form[f] /\ Acts
    /\ form' = [form EXCEPT ![f] = text] /\ typed' = typed \cup {f}
    /\ UNCHANGED <<row, shown, opened, under, patches, loads, importing, returned, others>>

Busy == \E i \in DOMAIN patches : patches[i].mine
Dirty == {f \in Fields : form[f] # shown.facts[f]}
WillPromote == shown.source = "synced" /\ Dirty # {}

(* An empty field says that nobody knows. *)
Numeric(text) == text

Sent == Dirty \cup (IF Dirty \cap PriceFields # {} THEN PriceFields ELSE {})
BuildPatch == [f \in Sent |-> IF f \in PriceFields THEN Numeric(form[f]) ELSE form[f]]

PatchModel(p) == patches' = Append(patches, p)

(* A text that is no number is said at once; otherwise only what differs    *)
(* from the row shown is sent, the prices together.                        *)
Save ==
    /\ opened /\ ~Busy /\ Dirty # {} /\ Acts
    /\ \A f \in Sent : form[f] # "x"
    /\ PatchModel([at |-> "sent", mine |-> TRUE, facts |-> BuildPatch, on |-> row.on,
                   switch |-> FALSE, warned |-> WillPromote, typed |-> typed, under |-> under])
    /\ UNCHANGED <<row, shown, opened, form, typed, under, loads, importing, returned, others>>

(* The switch, a button of its own. *)
ToggleEnabled ==
    /\ opened /\ ~Busy /\ Acts
    /\ PatchModel([at |-> "sent", mine |-> TRUE, facts |-> <<>>, on |-> ~shown.on,
                   switch |-> TRUE, warned |-> FALSE, typed |-> {}, under |-> under])
    /\ UNCHANGED <<row, shown, opened, form, typed, under, loads, importing, returned, others>>

(* Slip: the switch takes a row off the sync path too. *)
Patched_AnyChange(r, p) ==
    LET facts == [f \in Fields |-> IF f \in DOMAIN p.facts THEN p.facts[f] ELSE r.facts[f]]
        on == IF p.switch THEN p.on ELSE r.on
    IN  [facts |-> facts, on |-> on,
         source |-> IF facts # r.facts \/ on # r.on THEN "manual" ELSE r.source]

(* By value: a fact that changes takes the row off the sync path. *)
Patched(r, p) ==
    LET facts == [f \in Fields |-> IF f \in DOMAIN p.facts THEN p.facts[f] ELSE r.facts[f]]
    IN  [facts |-> facts, on |-> IF p.switch THEN p.on ELSE r.on,
         source |-> IF facts # r.facts THEN "manual" ELSE r.source]

(* History: a request, or a form, learns that another wrote the row. *)
Disturbed(p, changed) == [p EXCEPT !.under = p.under \/ changed]

WrittenElsewhere ==
    /\ under' = (under \/ row' # row)
    /\ patches' = [i \in DOMAIN patches |-> Disturbed(patches[i], row' # row)]

PatchArrives(i) ==
    /\ patches[i].at = "sent"
    /\ row' = Patched(row, patches[i])
    /\ patches' = [j \in DOMAIN patches |->
                     IF j = i THEN [patches[i] EXCEPT !.at = "done"]
                     ELSE Disturbed(patches[j], row' # row)]
    /\ under' = (under \/ (~patches[i].mine /\ row' # row))
    /\ UNCHANGED <<shown, opened, form, typed, loads, importing, returned, acts, others>>

(* After any write: re-read rather than patch local state. *)
PatchAnswered(i) ==
    /\ patches[i].at = "done"
    /\ patches' = RemoveAt(patches, i)
    /\ loads' = Append(loads, Asked)
    /\ UNCHANGED <<row, shown, opened, form, typed, under, importing, returned, acts, others>>

(* A failure, of the request or of its answer, is not re-read after. *)
PatchFails(i) ==
    /\ patches' = RemoveAt(patches, i)
    /\ UNCHANGED <<row, shown, opened, form, typed, under, loads, importing, returned, acts, others>>

(***************************************************************************)
(* Reading the registry.                                                   *)
(***************************************************************************)
LoadReads(i) ==
    /\ loads[i] = Asked
    /\ loads' = [loads EXCEPT ![i] = row]
    /\ UNCHANGED <<row, shown, editing, importing, returned, acts, others>>

(* What is shown is the answer that came last. *)
LoadAnswers(i) ==
    /\ loads[i] # Asked
    /\ shown' = loads[i] /\ loads' = RemoveAt(loads, i)
    /\ UNCHANGED <<row, editing, importing, returned, acts, others>>

(* What is on screen is kept. *)
LoadFails(i) ==
    /\ loads' = RemoveAt(loads, i)
    /\ UNCHANGED <<row, shown, editing, importing, returned, acts, others>>

(***************************************************************************)
(* Importing a bundle that has this model.                                 *)
(***************************************************************************)
(* A file was picked and is a bundle; the daemon plans the import. *)
Pick ==
    /\ phase = "idle" /\ phase' = "checking" /\ Acts
    /\ UNCHANGED <<row, shown, editing, loads, mode, report, returned, others>>

Previewed ==
    /\ phase = "checking"
    /\ \/ phase' = "preview" /\ report' = [mode |-> mode, row |-> row]
       \/ phase' = "idle" /\ UNCHANGED report
    /\ UNCHANGED <<row, shown, editing, loads, mode, returned, acts, others>>

(* Another answer is another preview. *)
ChangeMode ==
    /\ phase = "preview" /\ Acts
    /\ mode' = IF mode = "skip" THEN "overwrite" ELSE "skip"
    /\ phase' = "checking"
    /\ UNCHANGED <<row, shown, editing, loads, report, returned, others>>

Cancel ==
    /\ phase = "preview" /\ phase' = "idle"
    /\ UNCHANGED <<row, shown, editing, loads, mode, report, returned, acts, others>>

Apply ==
    /\ phase = "preview" /\ phase' = "importing"
    /\ UNCHANGED <<row, shown, editing, loads, mode, report, returned, acts, others>>

Imports ==
    /\ phase = "importing" /\ phase' = "idle"
    /\ row' \in IF mode = "overwrite" THEN {row} \cup Bundled ELSE {row}
    /\ WrittenElsewhere
    /\ \E done \in BOOLEAN : loads' = IF done THEN Append(loads, Asked) ELSE loads
    /\ returned' = (returned \/ (row.source = "manual" /\ row'.source = "synced"))
    /\ UNCHANGED <<shown, opened, form, typed, mode, report, acts, others>>

(* A sync, the command line, another page. *)
OtherWrites(f, v) ==
    /\ others < MaxOthers /\ others' = others + 1
    /\ v # row.facts[f]
    /\ row' = [row EXCEPT !.facts[f] = v]
    /\ WrittenElsewhere
    /\ UNCHANGED <<shown, opened, form, typed, loads, importing, returned, acts>>

Next ==
    \/ Open \/ Close \/ Save \/ ToggleEnabled
    \/ \E i \in DOMAIN patches : PatchArrives(i) \/ PatchAnswered(i) \/ PatchFails(i)
    \/ \E f \in Fields : \E text \in Values(f) \cup (IF f = "in" THEN {"x"} ELSE {}) : Type(f, text)
    \/ \E i \in DOMAIN loads : LoadReads(i) \/ LoadAnswers(i) \/ LoadFails(i)
    \/ Pick \/ Previewed \/ ChangeMode \/ Cancel \/ Apply \/ Imports
    \/ \E f \in Fields : \E v \in Values(f) : OtherWrites(f, v)

Spec == Init /\ [][Next]_vars

----------------------------------------------------------------------------
TypeOK ==
    /\ row \in Row /\ shown \in Row /\ typed \subseteq Fields
    /\ \A f \in Fields : form[f] \in Values(f) \cup {"x"}
    /\ mode \in {"skip", "overwrite"}

(* Saving changes what the user typed in and nothing else, whatever the     *)
(* order of the page's readings and requests: unless somebody else wrote    *)
(* the row since the form was filled, whose numbers an open form then puts  *)
(* back; a form that was closed with its request under way is such another. *)
SavesWhatWasTyped ==
    [][\A i \in DOMAIN patches : PatchArrives(i) /\ ~patches[i].under =>
         \A f \in Fields \ patches[i].typed : row'.facts[f] = row.facts[f]]_vars

(* "the form says it *before* the save" (ModelEditor.tsx): a row leaves the *)
(* sync path by a save on whose button the warning stood, however late the  *)
(* page reads; but an import that gave the row back is hidden by a reading  *)
(* from before it, and the warning with it.                                *)
WarnedBeforeLeaving ==
    [][\A i \in DOMAIN patches : PatchArrives(i) /\ ~returned
         /\ row.source = "synced" /\ row'.source = "manual" => patches[i].warned]_vars

(* "the counts under the button must always describe the button": the answer *)
(* it is pressed with is the one it was counted for.                       *)
CountsDescribeTheButton == phase \in {"preview", "importing"} => report.mode = mode

============================================================================
