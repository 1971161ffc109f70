------------------------------- MODULE Memory -------------------------------
(***************************************************************************)
(* What the daemon learns from its tasks: a tree of SKILL.md or of         *)
(* PRACTICE.md files, drafts in `pending/`, approved ones in `global/` or  *)
(* in their project's directory, and an index of the tree in the database. *)
(* The two libraries run the same protocol and differ in what makes a task *)
(* worth distilling and in how many drafts a reply may hold: `kind` says   *)
(* which one this is. The files are the truth, edited by their owner at    *)
(* any time; a crash may come between any two file operations.             *)
(***************************************************************************)
EXTENDS Naturals, Sequences, SequencesExt, FiniteSets

CONSTANTS Slugs,      \* names a draft may be given
          Projects,   \* slugs a project may have
          Tasks,      \* the tasks that end while the daemon runs
          MaxUpsets   \* bound: edits by the owner and deaths of the daemon, together

(* The directories' names and the words below name no project and no task. *)
MemoryAssumption ==
    /\ MaxUpsets \in Nat
    /\ Projects \cap {"none", "pending", "global"} = {}
    /\ Tasks \cap {"none", "owner", "no directory", "a directory"} = {}

VARIABLES kind,      \* "skills" or "practices"
          tree,      \* the files: what is at <<directory, slug>>
          index,     \* the rows of the index
          projects,  \* the projects that exist
          of,        \* the project of each task, or "none"
          ended,     \* how each task ended, or "running"
          lesson,    \* tasks with enough worker turns (skills) or a correction (practices)
          chain,     \* the promise chain: tasks still to be distilled
          job,       \* the task whose model call is in flight, or "none"
          scope,     \* ... and the project it had when the call was made
          up,        \* the daemon runs
          approved,  \* the drafts a human approved
          edits, crashes, edited

vars == <<kind, tree, index, projects, of, ended, lesson, chain, job, scope, up, approved, edits, crashes, edited>>

Owner == "owner"
Dirs == {"pending", "global"} \union Projects
Places == Dirs \X Slugs

(* A file: who wrote it, the project its frontmatter names, and whether it *)
(* parses under its directory's name (a torn or foreign file does not).    *)
File == [by : Tasks \union {Owner}, project : Projects \union {"none"}, parses : BOOLEAN]
NoFile(dir) == [by |-> dir, project |-> "none", parses |-> FALSE]
Absent == NoFile("no directory")
Empty == NoFile("a directory")          \* ... without its file
Exists(p) == tree[p] \in File

Target(f) == IF f.project = "none" THEN "global" ELSE f.project

(* A row says where its file is, whose it is and for which project: the    *)
(* directory's for an approved one, the frontmatter's for a draft.         *)
Row(t, p) == [at |-> p, by |-> t[p].by,
              project |-> CASE p[1] = "pending" -> t[p].project
                            [] p[1] = "global" -> "none"
                            [] OTHER -> p[1]]
Scan(t) == {Row(t, p) : p \in {q \in Places : t[q] \in File /\ t[q].parses}}
Reindex == index' = Scan(tree') /\ edited' = FALSE

(* Slip: a project's own file does not hide the global one. *)
Visible_NotShadowed(x) == {r \in index : r.at[1] \in {"global", x}}

(* What a task of project x may load: approved files, a project's own      *)
(* hiding the global one of its name.                                      *)
Visible(x) ==
    LET own == {r \in index : r.at[1] = x}
    IN  own \union {r \in index : r.at[1] = "global" /\ \A o \in own : o.at[2] # r.at[2]}

(* What load_skill hands a task of project x for a name: the file, read at *)
(* that moment, or a refusal.                                              *)
Loaded(x, s) ==
    {tree[r.at] : r \in {q \in Visible(x) : q.at[2] = s /\ Exists(q.at) /\ tree[q.at].parses}}

Init ==
    /\ kind \in {"skills", "practices"}
    /\ tree = [p \in Places |-> Absent]
    /\ index = {} /\ projects = {}
    /\ of \in [Tasks -> Projects \union {"none"}]
    /\ ended = [t \in Tasks |-> "running"]
    /\ lesson \in SUBSET Tasks
    /\ chain = <<>> /\ job = "none" /\ scope = "none" /\ up = TRUE
    /\ approved = {} /\ edits = 0 /\ crashes = 0 /\ edited = FALSE

----------------------------------------------------------------------------
(* A task's terminal row is announced. Skills are drawn from successes     *)
(* only; practices from any end whose log holds a correction.              *)
Offered(t, how) ==
    IF kind = "skills" THEN how = "succeeded" ELSE t \in lesson

TaskEnds(t, how) ==
    /\ up /\ ended[t] = "running"
    /\ ended' = [ended EXCEPT ![t] = how]
    /\ chain' = IF Offered(t, how) THEN Append(chain, t) ELSE chain
    /\ UNCHANGED <<kind, tree, index, projects, of, lesson, job, scope, up, approved, edits, crashes, edited>>

ProjectOf(t) == IF of[t] \in projects THEN of[t] ELSE "none"

(* Slip: a task of a project that is no longer registered blocks the chain. *)
StartJob_NeedsProject ==
    /\ up /\ job = "none" /\ chain # <<>> /\ of[Head(chain)] \in projects \union {"none"}
    /\ chain' = Tail(chain)
    /\ \/ Head(chain) \in lesson /\ job' = Head(chain) /\ scope' = of[Head(chain)]
       \/ UNCHANGED <<job, scope>>
    /\ UNCHANGED <<kind, tree, index, projects, of, ended, lesson, up, approved, edits, crashes, edited>>

(* The next job of the chain: it gives up at once when no model can be     *)
(* found or the log is too thin, and asks the model otherwise.             *)
StartJob ==
    /\ up /\ job = "none" /\ chain # <<>>
    /\ chain' = Tail(chain)
    /\ \/ Head(chain) \in lesson /\ job' = Head(chain) /\ scope' = ProjectOf(Head(chain))
       \/ UNCHANGED <<job, scope>>
    /\ UNCHANGED <<kind, tree, index, projects, of, ended, lesson, up, approved, edits, crashes, edited>>

(* A drafted item: its name, whether it is meant for the task's project,   *)
(* and whether the composed file survives the parser.                      *)
Item == [slug : Slugs, project : BOOLEAN, composes : BOOLEAN]
Replies == IF kind = "skills" THEN {<<i>> : i \in {j \in Item : j.project}}
           ELSE {<<i>> : i \in Item} \union {<<i, j>> : i, j \in Item}

Drafted(t, i) == [by |-> t, project |-> IF i.project THEN scope ELSE "none", parses |-> TRUE]
Pending(i) == <<"pending", i.slug>>

(* Slip: a draft is written over whatever waits there. *)
Put_Overwrites(t, s, i) ==
    IF s.threw THEN s
    ELSE IF ~i.composes THEN [s EXCEPT !.threw = TRUE]
    ELSE [s EXCEPT !.tree = [@ EXCEPT ![Pending(i)] = Drafted(t, i)], !.wrote = TRUE]

(* An item is written: a draft of that name that is already there is left  *)
(* alone, and an item that does not compose throws.                        *)
Put(t, s, i) ==
    IF s.threw \/ s.tree[Pending(i)] \in File THEN s
    ELSE IF ~i.composes THEN [s EXCEPT !.threw = TRUE]
    ELSE [s EXCEPT !.tree = [@ EXCEPT ![Pending(i)] = Drafted(t, i)], !.wrote = TRUE]

(* The items of a reply are written one after the other, and what was      *)
(* written before one threw is left where it is.                           *)
Land(t, items) ==
    LET first == Put(t, [tree |-> tree, threw |-> FALSE, wrote |-> FALSE], items[1])
    IN  IF Len(items) = 1 THEN first ELSE Put(t, first, items[2])

JobAnswers ==
    /\ up /\ job # "none"
    /\ \E items \in Replies : LET end == Land(job, items) IN
          /\ tree' = end.tree
          /\ IF end.wrote /\ ~end.threw THEN Reindex ELSE UNCHANGED <<index, edited>>
    /\ job' = "none" /\ scope' = "none"
    /\ UNCHANGED <<kind, projects, of, ended, lesson, chain, up, approved, edits, crashes>>

(* The call fails, or the reply is no draft or a refusal to draft.         *)
JobGivesNothing ==
    /\ up /\ job # "none" /\ job' = "none" /\ scope' = "none"
    /\ UNCHANGED <<kind, tree, index, projects, of, ended, lesson, chain, up, approved, edits, crashes, edited>>

----------------------------------------------------------------------------
(* The human's gate. The draft is read again when it is approved.          *)
Approvable(s, overwrite) ==
    LET f == tree[<<"pending", s>>]
    IN  /\ Exists(<<"pending", s>>) /\ f.parses
        /\ f.project = "none" \/ f.project \in projects
        /\ tree[<<Target(f), s>>] = Absent \/ overwrite

Approve(s, overwrite) ==
    /\ up /\ Approvable(s, overwrite)
    /\ LET f == tree[<<"pending", s>>] IN
          /\ tree' = [tree EXCEPT ![<<"pending", s>>] = Absent, ![<<Target(f), s>>] = f]
          /\ approved' = approved \union {<<f.by, s>>}
    /\ Reindex
    /\ UNCHANGED <<kind, projects, of, ended, lesson, chain, job, scope, up, edits, crashes>>

Reject(s) ==
    /\ up /\ Exists(<<"pending", s>>)
    /\ tree' = [tree EXCEPT ![<<"pending", s>>] = Absent]
    /\ Reindex
    /\ UNCHANGED <<kind, projects, of, ended, lesson, chain, job, scope, up, approved, edits, crashes>>

(* A project is created over its slug, or deleted: its files stay.         *)
CreateProject(x) ==
    /\ up /\ x \notin projects /\ projects' = projects \union {x}
    /\ UNCHANGED <<kind, tree, index, of, ended, lesson, chain, job, scope, up, approved, edits, crashes, edited>>

DeleteProject(x) ==
    /\ up /\ x \in projects /\ projects' = projects \ {x}
    /\ UNCHANGED <<kind, tree, index, of, ended, lesson, chain, job, scope, up, approved, edits, crashes, edited>>

(* The owner edits, adds or removes a file by hand, up or down.            *)
OwnerEdits(p) ==
    /\ edits + crashes < MaxUpsets /\ edits' = edits + 1
    /\ \E f \in {Absent} \union [by : {Owner}, project : {"none"}, parses : BOOLEAN] :
          f # tree[p] /\ tree' = [tree EXCEPT ![p] = f]
    /\ edited' = TRUE
    /\ UNCHANGED <<kind, index, projects, of, ended, lesson, chain, job, scope, up, approved, crashes>>

----------------------------------------------------------------------------
Dies ==
    /\ up /\ edits + crashes < MaxUpsets /\ crashes' = crashes + 1
    /\ up' = FALSE /\ chain' = <<>> /\ job' = "none" /\ scope' = "none"
    /\ UNCHANGED <<kind, index, projects, of, ended, lesson, approved, edits, edited>>

Crash == Dies /\ UNCHANGED tree

(* ... between making the directory and writing the draft, inside the      *)
(* write, or before the tree is indexed again.                             *)
CrashInDraft(s) ==
    /\ job # "none" /\ ~Exists(<<"pending", s>>)
    /\ \E left \in {Empty, [by |-> job, project |-> scope, parses |-> FALSE],
                     [by |-> job, project |-> scope, parses |-> TRUE]} :
          tree' = [tree EXCEPT ![<<"pending", s>>] = left]
    /\ Dies

(* ... between the removal of the copy a draft replaces and its move.      *)
CrashInApprove(s) ==
    /\ Approvable(s, TRUE) /\ tree[<<Target(tree[<<"pending", s>>]), s>>] # Absent
    /\ tree' = [tree EXCEPT ![<<Target(tree[<<"pending", s>>]), s>>] = Absent]
    /\ Dies

Boot ==
    /\ ~up /\ up' = TRUE
    /\ UNCHANGED tree /\ Reindex
    /\ UNCHANGED <<kind, projects, of, ended, lesson, chain, job, scope, approved, edits, crashes>>

Next ==
    \/ \E t \in Tasks, how \in {"succeeded", "failed"} : TaskEnds(t, how)
    \/ StartJob \/ JobAnswers \/ JobGivesNothing
    \/ \E s \in Slugs : Reject(s) \/ CrashInDraft(s) \/ CrashInApprove(s)
    \/ \E s \in Slugs, overwrite \in BOOLEAN : Approve(s, overwrite)
    \/ \E x \in Projects : CreateProject(x) \/ DeleteProject(x)
    \/ \E p \in Places : OwnerEdits(p)
    \/ Crash \/ Boot

(* A model call ends; the rest of a job is a microtask.                    *)
Learning == StartJob \/ JobAnswers \/ JobGivesNothing
Spec == Init /\ [][Next]_vars
FairSpec == Spec /\ WF_vars(Learning)

----------------------------------------------------------------------------
(* The state is well formed: a task is offered once, after its end, and is *)
(* in the chain or in flight but not both; a call has its scope.           *)
TypeOK ==
    /\ tree \in [Places -> File \union {Absent, Empty}]
    /\ index \subseteq [at : Places, by : Tasks \union {Owner}, project : Projects \union {"none"}]
    /\ chain \in Seq(Tasks) /\ job \in Tasks \union {"none"} /\ scope \in Projects \union {"none"}
    /\ approved \subseteq (Tasks \union {Owner}) \X Slugs
    /\ \A i, j \in DOMAIN chain : chain[i] = chain[j] => i = j
    /\ \A t \in ToSet(chain) : ended[t] # "running" /\ t # job
    /\ job = "none" => scope = "none"

(* Every row of the index has its file, as the row says, from the last scan *)
(* on, and in the skills library every file has its row: drafts, approvals *)
(* and rejections touch both. (A practices reply that fails at a later item *)
(* leaves the files of the earlier ones without rows until the next scan.) *)
IndexFollowsTree ==
    up /\ ~edited => /\ index \subseteq Scan(tree)
                     /\ kind = "skills" => index = Scan(tree)

(* What a task is given to read from its library was approved by a human,  *)
(* or put there by the owner: no draft of a model reaches a prompt on its  *)
(* own, whatever crash or race moved the files.                            *)
OnlyApprovedIsRead ==
    \A x \in Projects \union {"none"}, s \in Slugs : \A f \in Loaded(x, s) :
        f.by \in Tasks => <<f.by, s>> \in approved

(* A task sees one file per name, and none of another project's.           *)
VisibleOnce ==
    \A x \in Projects \union {"none"} : \A r, o \in Visible(x) :
        /\ r.at[2] = o.at[2] => r = o
        /\ r.project \in {"none", x}

(* A draft waiting for review is not written over by a later one: only     *)
(* approval, rejection or its owner changes it.                            *)
DraftKept ==
    [][\A s \in Slugs : LET p == <<"pending", s>> IN
          Exists(p) /\ tree'[p] # tree[p] => tree'[p] = Absent \/ tree'[p].by = Owner]_vars

(* An approved file goes only when a draft takes its place (which a crash  *)
(* leaves in `pending/`), or by its owner's hand.                          *)
ApprovedKept ==
    [][\A p \in Places :
          p[1] # "pending" /\ Exists(p) /\ tree'[p] # tree[p] /\ edits' = edits
          => LET draft == tree[<<"pending", p[2]>>] IN
             draft \in File /\ draft \in {tree'[p], tree'[<<"pending", p[2]>>]}]_vars

(* The chain is worked off, whatever becomes of one task's distillation.   *)
ChainDrains == []<>(up => chain = <<>> /\ job = "none")
============================================================================
