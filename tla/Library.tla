------------------------------ MODULE Library ------------------------------
(***************************************************************************)
(* The daemon's long memory, beside the tasks it runs: the two libraries   *)
(* its tasks are distilled into, the transcript a distillation reads, the  *)
(* registry of models and the record of how they did. They share no state; *)
(* an instance checks one of them at a time, the others at rest.           *)
(***************************************************************************)
EXTENDS Integers, Sequences

CONSTANTS Slugs, Projects, Tasks, MaxUpsets, Budget, HeaderCosts, LineCosts, MaxLines,
          Models, Facts, MaxEdits, MaxCommands, Items, Costs

VARIABLES part,
          kind, tree, index, projects, of, ended, lesson, chain, job, scope, up, approved, edits,
          crashes, edited,
          body, lines, header, cost, phase,
          config, provider, rows, cards, cmd, regenerate, todo, catalog, held, asking, bundle,
          leaving, changes, commands, typed, corrected, chosen, since,
          tag, status, flying, billed, stat, seen

memory == <<kind, tree, index, projects, of, ended, lesson, chain, job, scope, up, approved, edits,
            crashes, edited>>
transcript == <<body, lines, header, cost, phase>>
registry == <<config, provider, rows, cards, cmd, regenerate, todo, catalog, held, asking, bundle,
              leaving, changes, commands, typed, corrected, chosen, since>>
stats == <<tag, status, flying, billed, stat, seen>>
vars == <<part, memory, transcript, registry, stats>>

M == INSTANCE Memory
C == INSTANCE Condense
R == INSTANCE Registry WITH edits <- changes
S == INSTANCE Stats

ASSUME PartsAssumption ==
    M!MemoryAssumption /\ C!CondenseAssumption /\ R!RegistryAssumption /\ S!StatsAssumption

(* The part that is checked starts in any of its initial states, the others *)
(* in one. Every task has something to teach, one is of a project and the  *)
(* rest of none.                                                           *)
Init ==
    /\ part \in {"memory", "transcript", "registry", "stats"}
    /\ M!Init /\ C!Init /\ R!Init /\ S!Init
    /\ lesson = Tasks
    /\ LET mine == CHOOSE t \in Tasks : TRUE IN \A t \in Tasks : (of[t] # "none") = (t = mine)
    /\ part # "memory" => kind = "skills"
    /\ part # "transcript" => lines = 0 /\ header = 100 /\ cost = 3
    /\ part # "registry" => \A m \in Models : config[m] = 1
    /\ \A m \in Models : config[m] \in {R!Silent, 1}
    /\ part # "stats" => tag = {}

Next ==
    \/ part = "memory" /\ M!Next /\ UNCHANGED <<part, transcript, registry, stats>>
    \/ part = "transcript" /\ C!Next /\ UNCHANGED <<part, memory, registry, stats>>
    \/ part = "registry" /\ R!Next /\ UNCHANGED <<part, memory, transcript, stats>>
    \/ part = "stats" /\ S!Next /\ UNCHANGED <<part, memory, transcript, registry>>

Spec == Init /\ [][Next]_vars

FairSpec ==
    /\ Spec
    /\ WF_vars(part = "memory" /\ M!Learning /\ UNCHANGED <<part, transcript, registry, stats>>)
    /\ WF_vars(part = "registry" /\ R!Command(R!Runs) /\ UNCHANGED <<part, memory, transcript, stats>>)
    /\ WF_vars(part = "registry" /\ R!DeleteModel /\ UNCHANGED <<part, memory, transcript, stats>>)

----------------------------------------------------------------------------
(* What the parts promise, one property for each question asked of the     *)
(* library as a whole; the parts state and explain the conjuncts.          *)
TypeOK == (part = "memory" => M!TypeOK) /\ (part = "registry" => R!TypeOK)

(* No draft of a model reaches a task before a human approved it, a task   *)
(* sees one file per name and none of another project, and the index says  *)
(* what the files say, across crashes and the owner's own edits.           *)
OnlyApprovedIsSeen ==
    /\ TypeOK
    /\ part = "memory" => M!IndexFollowsTree /\ M!OnlyApprovedIsRead /\ M!VisibleOnce

(* What a human said of a model stands: a fact against the catalog's, a    *)
(* correction against the card it corrects, and no model is on that nobody *)
(* switched on, whatever syncs, imports and regenerations interleave.      *)
HumansWord == R!HumanKept /\ R!CorrectionKept /\ R!OnByHuman

(* What is derived from the record says what the record says: a shortened  *)
(* transcript has both ends, one marked gap and its budget; each verdict is *)
(* counted once and the average is one of what was measured.               *)
DerivedIsTrue == C!KeepsEnds /\ C!CutToBudget /\ S!CountedOnce /\ S!MeanAmongCosts

(* Nothing goes that a human has not let go of: a draft under review is not *)
(* written over, an approved file goes only for the draft that replaces it, *)
(* and a model only by a human's hand.                                     *)
NothingLost ==
    M!DraftKept /\ M!ApprovedKept /\ R!NothingLost

(* All that was queued for distillation is dealt with, and a command of the *)
(* registry ends whatever the human does meanwhile.                        *)
AllEnds == M!ChainDrains /\ R!CommandEnds
============================================================================
