---------------------------- MODULE LibraryProofs ----------------------------
(***************************************************************************)
(* Proofs about Library, for any slugs, projects, tasks, models and items, *)
(* and any number of upsets, edits and commands.                           *)
(*                                                                         *)
(* The four parts share no variable, so the invariant is a conjunction of  *)
(* one invariant for each, kept by the steps of its part and not touched   *)
(* by the others'. Each part's lemmas come first, the theorems, which are  *)
(* about the library as a whole, at the end.                               *)
(***************************************************************************)
EXTENDS Library, FiniteSetTheorems, SequenceTheorems, TLAPS

(* Memory: the queue of distillations, and the store they land in.         *)
Trees == [M!Places -> M!File \cup {M!Absent, M!Empty}]
IndexRows == [at : M!Places, by : Tasks \cup {M!Owner}, project : Projects \cup {"none"}]

(* A task is offered once, after its end, and leaves the chain for its call. *)
Queue ==
    /\ of \in [Tasks -> Projects \cup {"none"}] /\ projects \subseteq Projects
    /\ ended \in [Tasks -> {"running", "succeeded", "failed"}]
    /\ chain \in Seq(Tasks) /\ job \in Tasks \cup {"none"} /\ scope \in Projects \cup {"none"}
    /\ \A i, j \in 1 .. Len(chain) : chain[i] = chain[j] => i = j
    /\ \A i \in 1 .. Len(chain) : ended[chain[i]] # "running" /\ chain[i] # job
    /\ job = "none" => scope = "none"
    /\ job # "none" => ended[job] # "running"

(* What any scan of the tree looks like: a row for a place at most, and for *)
(* an approved file the project of its directory.                          *)
OneEach(rs) ==
    /\ \A r, o \in rs : r.at = o.at => r = o
    /\ \A r \in rs : r.at[1] # "pending" =>
          r.project = IF r.at[1] = "global" THEN "none" ELSE r.at[1]

(* A file outside `pending/` is its owner's or was approved, which stays    *)
(* true wherever a crash leaves the draft that replaces it.                *)
Vetted == \A p \in M!Places : p[1] # "pending" /\ tree[p] \in M!File /\ tree[p].by \in Tasks
                              => <<tree[p].by, p[2]>> \in approved

Store ==
    /\ kind \in {"skills", "practices"} /\ edits \in Nat
    /\ tree \in Trees /\ index \subseteq IndexRows
    /\ approved \subseteq (Tasks \cup {M!Owner}) \X Slugs
    /\ OneEach(index) /\ Vetted /\ M!IndexFollowsTree

-----------------------------------------------------------------------------
(* Memory: the queue.                                                      *)

(* A task ends, and is put at the end of the chain or not offered.         *)
LEMMA QueueEnds ==
  ASSUME Queue, NEW t \in Tasks, NEW how \in {"succeeded", "failed"}, M!TaskEnds(t, how)
  PROVE  Queue'
<1>1. /\ ended[t] = "running" /\ ended' = [ended EXCEPT ![t] = how]
      /\ UNCHANGED <<of, projects, job, scope>>
      /\ chain' = Append(chain, t) \/ chain' = chain
  BY DEF M!TaskEnds, M!Offered
<1>2. /\ ended' \in [Tasks -> {"running", "succeeded", "failed"}]
      /\ \A u \in Tasks : ended[u] # "running" => ended'[u] # "running"
      /\ ended'[t] # "running"
  BY <1>1 DEF Queue
<1>3. t # job /\ \A i \in 1 .. Len(chain) : chain[i] # t
  <2>1. "none" \notin Tasks
    BY PartsAssumption DEF M!MemoryAssumption
  <2>2. job # "none" => ended[job] # "running"
    BY DEF Queue
  <2>3. t # job
    BY <1>1, <2>1, <2>2
  <2>4. \A i \in 1 .. Len(chain) : ended[chain[i]] # "running"
    BY DEF Queue
  <2> QED
    BY <1>1, <2>3, <2>4
<1>4. chain \in Seq(Tasks)
  BY DEF Queue
<1>5. CASE chain' = chain
  BY <1>1, <1>2, <1>5 DEF Queue
<1>6. CASE chain' = Append(chain, t)
  <2>1. /\ chain' \in Seq(Tasks) /\ Len(chain') = Len(chain) + 1 /\ chain'[Len(chain) + 1] = t
        /\ \A i \in 1 .. Len(chain) : chain'[i] = chain[i]
    BY <1>4, <1>6
  <2>2. \A i \in 1 .. Len(chain') : i \in 1 .. Len(chain) \/ i = Len(chain) + 1
    BY <1>4, <2>1
  <2>3. \A i, j \in 1 .. Len(chain') : chain'[i] = chain'[j] => i = j
    BY <1>3, <2>1, <2>2 DEF Queue
  <2>4. \A i \in 1 .. Len(chain') : ended'[chain'[i]] # "running" /\ chain'[i] # job
    <3>1. \A i \in 1 .. Len(chain) : chain[i] \in Tasks
      BY <1>4
    <3> QED
      BY <1>2, <1>3, <2>1, <2>2, <3>1 DEF Queue
  <2> QED
    BY <1>1, <1>2, <2>1, <2>3, <2>4 DEF Queue
<1> QED
  BY <1>1, <1>5, <1>6

(* The next job leaves the chain for its model call, or is given up.       *)
LEMMA QueueStarts ==
  ASSUME Queue, M!StartJob
  PROVE  Queue'
<1>1. /\ job = "none" /\ chain # <<>> /\ chain' = Tail(chain)
      /\ UNCHANGED <<of, projects, ended>>
      /\ \/ job' = Head(chain) /\ scope' = M!ProjectOf(Head(chain))
         \/ UNCHANGED <<job, scope>>
  BY DEF M!StartJob
<1>2. chain \in Seq(Tasks) /\ Len(chain) \in Nat \ {0}
  BY <1>1 DEF Queue
<1>3. /\ Head(chain) \in Tasks /\ Head(chain) = chain[1]
      /\ chain' \in Seq(Tasks) /\ Len(chain') = Len(chain) - 1
      /\ \A i \in 1 .. Len(chain') : chain'[i] = chain[i + 1] /\ i + 1 \in 1 .. Len(chain) /\ i + 1 # 1
  BY <1>1, <1>2, HeadTailProperties
<1>4. M!ProjectOf(Head(chain)) \in Projects \cup {"none"}
  BY DEF M!ProjectOf, Queue
<1>5. "none" \notin Tasks
  BY PartsAssumption DEF M!MemoryAssumption
<1>6. \A i, j \in 1 .. Len(chain') : chain'[i] = chain'[j] => i = j
  BY <1>2, <1>3 DEF Queue
<1>7. /\ ended[chain[1]] # "running"
      /\ \A i \in 1 .. Len(chain') : ended[chain'[i]] # "running" /\ chain'[i] # chain[1] /\ chain'[i] # job
  BY <1>2, <1>3 DEF Queue
<1> QED
  BY <1>1, <1>3, <1>4, <1>5, <1>6, <1>7 DEF Queue

(* Every other step of the memory ends the call, empties the chain or      *)
(* leaves both alone.                                                      *)
LEMMA QueueStep ==
  ASSUME Queue, M!Next
  PROVE  Queue'
<1>1. CASE \E t \in Tasks, how \in {"succeeded", "failed"} : M!TaskEnds(t, how)
  BY <1>1, QueueEnds
<1>2. CASE M!StartJob
  BY <1>2, QueueStarts
<1>3. CASE job' = "none" /\ scope' = "none" /\ UNCHANGED <<of, projects, ended, chain>>
  <2>1. \A i \in 1 .. Len(chain) : chain[i] \in Tasks
    BY DEF Queue
  <2>2. "none" \notin Tasks
    BY PartsAssumption DEF M!MemoryAssumption
  <2> QED
    BY <1>3, <2>1, <2>2 DEF Queue
<1>4. CASE chain' = <<>> /\ job' = "none" /\ scope' = "none" /\ UNCHANGED <<of, projects, ended>>
  <2>1. <<>> \in Seq(Tasks) /\ Len(<<>>) = 0
    BY EmptySeq
  <2> QED
    BY <1>4, <2>1 DEF Queue
<1>5. CASE projects' \subseteq Projects /\ UNCHANGED <<of, ended, chain, job, scope>>
  BY <1>5 DEF Queue
<1>6. CASE \/ \E x \in Projects : M!CreateProject(x) \/ M!DeleteProject(x)
           \/ \E s \in Slugs : M!Reject(s)
           \/ \E s \in Slugs, overwrite \in BOOLEAN : M!Approve(s, overwrite)
           \/ \E p \in M!Places : M!OwnerEdits(p)
           \/ M!Boot
  <2>1. projects' \subseteq Projects /\ UNCHANGED <<of, ended, chain, job, scope>>
    BY <1>6 DEF Queue, M!CreateProject, M!DeleteProject, M!Reject, M!Approve, M!OwnerEdits, M!Boot
  <2> QED
    BY <1>5, <2>1
<1>7. CASE M!JobAnswers \/ M!JobGivesNothing
  BY <1>3, <1>7 DEF M!JobAnswers, M!JobGivesNothing
<1>8. CASE M!Crash \/ \E s \in Slugs : M!CrashInDraft(s) \/ M!CrashInApprove(s)
  BY <1>4, <1>8 DEF M!Crash, M!CrashInDraft, M!CrashInApprove, M!Dies
<1> QED
  BY <1>1, <1>2, <1>6, <1>7, <1>8 DEF M!Next

-----------------------------------------------------------------------------
(* Memory: the store.                                                      *)

(* A directory, there or not, is no file.                                  *)
LEMMA NoFileIsNone == M!Absent \notin M!File /\ M!Empty \notin M!File
<1>1. "no directory" \notin Tasks \cup {M!Owner} /\ "a directory" \notin Tasks \cup {M!Owner}
  BY PartsAssumption DEF M!MemoryAssumption, M!Owner
<1>2. M!Absent.by = "no directory" /\ M!Empty.by = "a directory"
  BY DEF M!Absent, M!Empty, M!NoFile
<1>3. \A f \in M!File : f.by \in Tasks \cup {M!Owner}
  BY DEF M!File
<1> QED
  BY <1>1, <1>2, <1>3

(* A scan is as the index should be.                                       *)
LEMMA ScanIsIndex ==
  ASSUME NEW t \in Trees
  PROVE  M!Scan(t) \subseteq IndexRows /\ OneEach(M!Scan(t))
<1>1. ASSUME NEW r \in M!Scan(t)
      PROVE  /\ r \in IndexRows /\ r = M!Row(t, r.at)
             /\ r.at[1] # "pending" => r.project = IF r.at[1] = "global" THEN "none" ELSE r.at[1]
  <2>1. PICK p \in M!Places : t[p] \in M!File /\ r = M!Row(t, p)
    BY DEF M!Scan
  <2>2. t[p].by \in Tasks \cup {M!Owner} /\ t[p].project \in Projects \cup {"none"}
    BY <2>1 DEF M!File
  <2>3. p[1] \in {"pending", "global"} \cup Projects
    BY DEF M!Places, M!Dirs
  <2>4. r.at = p
    BY <2>1 DEF M!Row
  <2>5. /\ p[1] = "pending" => r.project = t[p].project
        /\ p[1] = "global" => r.project = "none"
        /\ p[1] \notin {"pending", "global"} => r.project = p[1]
    BY <2>1 DEF M!Row
  <2>6. r \in IndexRows
    <3>1. r.project \in Projects \cup {"none"}
      BY <2>2, <2>3, <2>5
    <3>2. r = [at |-> p, by |-> t[p].by, project |-> r.project]
      BY <2>1 DEF M!Row
    <3> QED
      BY <2>2, <3>1, <3>2 DEF IndexRows
  <2> QED
    BY <2>1, <2>4, <2>5, <2>6
<1> QED
  BY <1>1 DEF OneEach

(* Where no file is changed, no row is lost.                               *)
LEMMA ScanGrows ==
  ASSUME NEW t, NEW u, \A p \in M!Places : t[p] \in M!File => u[p] = t[p]
  PROVE  M!Scan(t) \subseteq M!Scan(u)
BY DEF M!Scan, M!Row

(* How a draft is written: a place of `pending/` that has no file yet.     *)
Landings == [tree : Trees, threw : BOOLEAN, wrote : BOOLEAN]

(* One item of a reply: no file is touched, nor anything outside `pending/`. *)
LEMMA PutKeeps ==
  ASSUME Queue, job # "none", NEW s \in Landings, NEW i \in M!Item
  PROVE  LET r == M!Put(job, s, i)
         IN  /\ r \in Landings
             /\ \A p \in M!Places : s.tree[p] \in M!File \/ p[1] # "pending" => r.tree[p] = s.tree[p]
             /\ ~r.wrote => ~s.wrote /\ r.tree = s.tree
             /\ ~s.wrote => ~(r.wrote /\ r.threw)
<1> DEFINE r == M!Put(job, s, i)
           q == M!Pending(i)
           new == [s.tree EXCEPT ![q] = M!Drafted(job, i)]
<1>1. q \in M!Places /\ q[1] = "pending"
  BY DEF M!Pending, M!Places, M!Dirs, M!Item
<1>2. M!Drafted(job, i) \in M!File
  <2>1. job \in Tasks /\ scope \in Projects \cup {"none"}
    BY DEF Queue
  <2>2. (IF i.project THEN scope ELSE "none") \in Projects \cup {"none"}
    BY <2>1
  <2> QED
    BY <2>1, <2>2 DEF M!Drafted, M!File
<1>3. s.tree \in Trees /\ s.threw \in BOOLEAN /\ s.wrote \in BOOLEAN
  BY DEF Landings
<1>4. new \in Trees /\ \A p \in M!Places : p # q => new[p] = s.tree[p]
  BY <1>1, <1>2, <1>3 DEF Trees
<1>5. CASE s.threw \/ s.tree[q] \in M!File
  <2>1. r = s
    BY <1>5 DEF M!Put
  <2>2. s.threw \/ ~s.threw
    OBVIOUS
  <2> QED
    BY <2>1, <1>3, <1>5
<1>6. CASE ~(s.threw \/ s.tree[q] \in M!File) /\ ~i.composes
  <2>1. r = [s EXCEPT !.threw = TRUE]
    BY <1>6 DEF M!Put
  <2>2. r \in Landings /\ r.tree = s.tree /\ r.wrote = s.wrote
    BY <1>3, <2>1 DEF Landings
  <2> QED
    BY <2>2
<1>7. CASE ~(s.threw \/ s.tree[q] \in M!File) /\ i.composes
  <2>1. r = [s EXCEPT !.tree = new, !.wrote = TRUE]
    BY <1>7 DEF M!Put
  <2>2. r \in Landings /\ r.tree = new /\ r.threw = s.threw /\ r.wrote = TRUE
    BY <1>3, <1>4, <2>1 DEF Landings
  <2>3. \A p \in M!Places : s.tree[p] \in M!File \/ p[1] # "pending" => p # q
    BY <1>1, <1>7
  <2> QED
    BY <1>4, <1>7, <2>2, <2>3
<1> QED
  BY <1>5, <1>6, <1>7

(* A whole reply: of two items the second may throw after the first landed, *)
(* and a library of skills gets one.                                       *)
LEMMA LandKeeps ==
  ASSUME Queue, Store, job # "none", NEW items \in M!Replies
  PROVE  LET end == M!Land(job, items)
         IN  /\ end.tree \in Trees
             /\ \A p \in M!Places : tree[p] \in M!File \/ p[1] # "pending" => end.tree[p] = tree[p]
             /\ ~end.wrote => end.tree = tree
             /\ kind = "skills" => ~(end.wrote /\ end.threw)
<1> DEFINE start == [tree |-> tree, threw |-> FALSE, wrote |-> FALSE]
           first == M!Put(job, start, items[1])
           second == M!Put(job, first, items[2])
           end == M!Land(job, items)
<1>1. start \in Landings /\ start.tree = tree /\ ~start.wrote
  BY DEF Store, Landings
<1>2. \/ Len(items) = 1 /\ items[1] \in M!Item
      \/ Len(items) = 2 /\ items[1] \in M!Item /\ items[2] \in M!Item /\ kind # "skills"
  <2>1. CASE kind = "skills"
    BY <2>1 DEF M!Replies
  <2>2. CASE kind # "skills"
    <3>1. \/ \E i \in M!Item : items = <<i>>
          \/ \E i, j \in M!Item : items = <<i, j>>
      BY <2>2 DEF M!Replies
    <3> QED
      BY <2>2, <3>1
  <2> QED
    BY <2>1, <2>2
<1> HIDE DEF start
<1>3. /\ first \in Landings
      /\ \A p \in M!Places : tree[p] \in M!File \/ p[1] # "pending" => first.tree[p] = tree[p]
      /\ ~first.wrote => first.tree = tree
      /\ ~(first.wrote /\ first.threw)
  BY <1>1, <1>2, PutKeeps
<1> HIDE DEF first
<1>4. CASE Len(items) = 1
  <2>1. end = first
    BY <1>4 DEF M!Land, first, start
  <2> QED
    BY <1>3, <2>1 DEF Landings
<1>5. CASE Len(items) = 2 /\ items[2] \in M!Item /\ kind # "skills"
  <2>1. end = second
    BY <1>5 DEF M!Land, first, start
  <2>2. /\ second \in Landings
        /\ \A p \in M!Places : first.tree[p] \in M!File \/ p[1] # "pending" => second.tree[p] = first.tree[p]
        /\ ~second.wrote => ~first.wrote /\ second.tree = first.tree
    BY <1>3, <1>5, PutKeeps
  <2> HIDE DEF second, end
  <2>3. \A p \in M!Places : tree[p] \in M!File \/ p[1] # "pending" => second.tree[p] = tree[p]
    BY <1>3, <2>2
  <2>4. end.tree \in Trees
    BY <2>1, <2>2 DEF Landings
  <2>5. ~end.wrote => end.tree = tree
    BY <1>3, <2>1, <2>2
  <2>6. /\ \A p \in M!Places : tree[p] \in M!File \/ p[1] # "pending" => end.tree[p] = tree[p]
        /\ kind # "skills"
    BY <1>5, <2>1, <2>3
  <2> QED
    BY <2>4, <2>5, <2>6 DEF end
<1> QED
  BY <1>2, <1>4, <1>5

(* An index that was just written is what the tree says.                   *)
LEMMA Reindexed ==
  ASSUME M!Reindex, tree' \in Trees
  PROVE  index' \subseteq IndexRows /\ OneEach(index') /\ M!IndexFollowsTree'
BY ScanIsIndex DEF M!Reindex, M!IndexFollowsTree

(* Drafts land in `pending/`, where nobody is given them; without a new scan *)
(* the index lacks at most the rows of a reply that threw.                 *)
LEMMA StoreAnswers ==
  ASSUME Queue, Store, M!JobAnswers
  PROVE  Store'
<1>1. /\ job # "none" /\ UNCHANGED <<kind, approved, edits, up>>
      /\ \E items \in M!Replies :
            LET end == M!Land(job, items)
            IN  /\ tree' = end.tree
                /\ IF end.wrote /\ ~end.threw THEN M!Reindex ELSE UNCHANGED <<index, edited>>
  BY DEF M!JobAnswers
<1>2. PICK items \in M!Replies :
            LET end == M!Land(job, items)
            IN  /\ tree' = end.tree
                /\ IF end.wrote /\ ~end.threw THEN M!Reindex ELSE UNCHANGED <<index, edited>>
  BY <1>1
<1> DEFINE end == M!Land(job, items)
<1>3. /\ tree' \in Trees
      /\ \A p \in M!Places : tree[p] \in M!File \/ p[1] # "pending" => tree'[p] = tree[p]
      /\ ~end.wrote => tree' = tree
      /\ kind = "skills" => ~(end.wrote /\ end.threw)
  BY <1>1, <1>2, LandKeeps
<1>4. Vetted'
  <2>1. \A p \in M!Places : p[1] # "pending" => tree'[p] = tree[p]
    BY <1>3
  <2> QED
    BY <1>1, <2>1 DEF Store, Vetted
<1>5. CASE end.wrote /\ ~end.threw
  <2>1. index' \subseteq IndexRows /\ OneEach(index') /\ M!IndexFollowsTree'
    BY <1>2, <1>3, <1>5, Reindexed
  <2> QED
    BY <1>1, <1>3, <1>4, <2>1 DEF Store
<1>6. CASE ~(end.wrote /\ ~end.threw)
  <2>1. UNCHANGED <<index, edited>>
    BY <1>2, <1>6
  <2>2. M!Scan(tree) \subseteq M!Scan(tree')
    BY <1>3, ScanGrows
  <2>3. kind = "skills" => tree' = tree
    BY <1>3, <1>6
  <2>4. M!IndexFollowsTree'
    BY <1>1, <2>1, <2>2, <2>3 DEF Store, M!IndexFollowsTree
  <2> QED
    BY <1>1, <1>3, <1>4, <2>1, <2>4 DEF Store
<1> QED
  BY <1>5, <1>6

(* A draft is approved: it moves to where its frontmatter says, under the   *)
(* name it is approved by.                                                 *)
LEMMA ApproveMoves ==
  ASSUME Store, NEW s \in Slugs, NEW overwrite \in BOOLEAN, M!Approvable(s, overwrite)
  PROVE  LET f == tree[<<"pending", s>>]  q == <<"pending", s>>  t == <<M!Target(f), s>>
         IN  /\ q \in M!Places /\ t \in M!Places /\ t[1] # "pending" /\ q # t /\ f \in M!File
             /\ t[2] = s /\ q[2] = s
<1> DEFINE f == tree[<<"pending", s>>]
<1>1. f \in M!File
  BY DEF M!Approvable, M!Exists
<1>2. f.project \in Projects \cup {"none"}
  BY <1>1 DEF M!File
<1>3. M!Target(f) \in {"global"} \cup Projects /\ M!Target(f) # "pending"
  BY <1>2, PartsAssumption DEF M!Target, M!MemoryAssumption
<1> QED
  BY <1>1, <1>3 DEF M!Places, M!Dirs

(* ... and its row with it.                                                *)
LEMMA StoreApproves ==
  ASSUME Store, NEW s \in Slugs, NEW overwrite \in BOOLEAN, M!Approve(s, overwrite)
  PROVE  Store'
<1> DEFINE f == tree[<<"pending", s>>]
           q == <<"pending", s>>
           t == <<M!Target(f), s>>
<1>1. /\ M!Approvable(s, overwrite) /\ M!Reindex /\ UNCHANGED <<kind, edits, up>>
      /\ tree' = [tree EXCEPT ![q] = M!Absent, ![t] = f]
      /\ approved' = approved \cup {<<f.by, s>>}
  BY DEF M!Approve
<1>2. /\ q \in M!Places /\ t \in M!Places /\ t[1] # "pending" /\ q # t /\ f \in M!File
      /\ t[2] = s /\ q[1] = "pending"
  BY <1>1, ApproveMoves
<1>3. f.by \in Tasks \cup {M!Owner}
  BY <1>2 DEF M!File
<1> HIDE DEF f, q, t
<1>4. /\ tree' \in Trees /\ tree'[t] = f /\ tree'[q] = M!Absent
      /\ \A p \in M!Places : p # q /\ p # t => tree'[p] = tree[p]
  BY <1>1, <1>2 DEF Store, Trees
<1>5. approved' \subseteq (Tasks \cup {M!Owner}) \X Slugs
  BY <1>1, <1>3 DEF Store
<1>6. Vetted'
  <2> SUFFICES ASSUME NEW p \in M!Places, p[1] # "pending", tree'[p] \in M!File, tree'[p].by \in Tasks
               PROVE  <<tree'[p].by, p[2]>> \in approved'
    BY DEF Vetted
  <2>1. CASE p = t
    BY <1>1, <1>2, <1>4, <2>1
  <2>2. CASE p # t
    <3>1. tree'[p] = tree[p]
      BY <1>2, <1>4, <2>2
    <3>2. <<tree[p].by, p[2]>> \in approved
      BY <3>1 DEF Store, Vetted
    <3> QED
      BY <1>1, <3>1, <3>2
  <2> QED
    BY <2>1, <2>2
<1>7. index' \subseteq IndexRows /\ OneEach(index') /\ M!IndexFollowsTree'
  BY <1>1, <1>4, Reindexed
<1> QED
  BY <1>1, <1>4, <1>5, <1>6, <1>7 DEF Store

(* The other steps that touch a file: it goes, its owner writes it, or a    *)
(* crash leaves a draft half made or an old copy removed.                  *)
LEMMA FileChanges ==
  ASSUME Store, NEW q \in M!Places, NEW f \in M!File \cup {M!Absent, M!Empty},
         tree' = [tree EXCEPT ![q] = f], UNCHANGED <<kind, approved>>, edits' \in Nat,
         q[1] = "pending" \/ f \notin M!File \/ f.by \notin Tasks,
         M!Reindex \/ (index' = index /\ (edited' \/ ~up'))
  PROVE  Store'
<1>1. tree' \in Trees /\ tree'[q] = f /\ \A p \in M!Places : p # q => tree'[p] = tree[p]
  BY DEF Store, Trees
<1>2. Vetted'
  BY <1>1 DEF Store, Vetted
<1>3. CASE M!Reindex
  BY <1>1, <1>2, <1>3, Reindexed DEF Store
<1>4. CASE index' = index /\ (edited' \/ ~up')
  BY <1>1, <1>2, <1>4 DEF Store, M!IndexFollowsTree
<1> QED
  BY <1>3, <1>4

(* Every step of the memory keeps the store.                               *)
LEMMA StoreStep ==
  ASSUME Queue, Store, M!Next
  PROVE  Store'
<1>1. edits \in Nat
  BY DEF Store
<1>2. CASE M!JobAnswers
  BY <1>2, StoreAnswers
<1>3. CASE \E s \in Slugs, overwrite \in BOOLEAN : M!Approve(s, overwrite)
  BY <1>3, StoreApproves
<1>4. CASE \E s \in Slugs : M!Reject(s)
  <2>1. PICK s \in Slugs : M!Reject(s)
    BY <1>4
  <2>2. <<"pending", s>> \in M!Places /\ <<"pending", s>>[1] = "pending"
    BY DEF M!Places, M!Dirs
  <2> QED
    BY <1>1, <2>1, <2>2, FileChanges DEF M!Reject
<1>5. CASE \E p \in M!Places : M!OwnerEdits(p)
  <2>1. PICK p \in M!Places : M!OwnerEdits(p)
    BY <1>5
  <2>2. PICK f \in {M!Absent} \cup [by : {M!Owner}, project : {"none"}, parses : BOOLEAN] :
              tree' = [tree EXCEPT ![p] = f]
    BY <2>1 DEF M!OwnerEdits
  <2>3. M!Owner \notin Tasks
    BY PartsAssumption DEF M!MemoryAssumption, M!Owner
  <2>4. f \in M!File \cup {M!Absent} /\ (f \notin M!File \/ f.by \notin Tasks)
    BY <2>3, NoFileIsNone DEF M!File
  <2>5. edited' /\ edits' \in Nat /\ UNCHANGED <<kind, index, approved>>
    BY <1>1, <2>1 DEF M!OwnerEdits
  <2> QED
    BY <2>2, <2>4, <2>5, FileChanges
<1>6. CASE \E s \in Slugs : M!CrashInDraft(s)
  <2>1. PICK s \in Slugs : M!CrashInDraft(s)
    BY <1>6
  <2>2. <<"pending", s>> \in M!Places /\ <<"pending", s>>[1] = "pending"
    BY DEF M!Places, M!Dirs
  <2>3. PICK left \in {M!Empty, [by |-> job, project |-> scope, parses |-> FALSE],
                        [by |-> job, project |-> scope, parses |-> TRUE]} :
              tree' = [tree EXCEPT ![<<"pending", s>>] = left]
    BY <2>1 DEF M!CrashInDraft
  <2>4. job \in Tasks /\ scope \in Projects \cup {"none"}
    BY <2>1 DEF M!CrashInDraft, Queue
  <2>5. left \in M!File \cup {M!Empty}
    <3>1. /\ [by |-> job, project |-> scope, parses |-> FALSE] \in M!File
          /\ [by |-> job, project |-> scope, parses |-> TRUE] \in M!File
      BY <2>4 DEF M!File
    <3> QED
      BY <2>3, <3>1
  <2>6. ~up' /\ edits' = edits /\ UNCHANGED <<kind, index, approved>>
    BY <2>1 DEF M!CrashInDraft, M!Dies
  <2> QED
    BY <1>1, <2>2, <2>3, <2>5, <2>6, FileChanges
<1>7. CASE \E s \in Slugs : M!CrashInApprove(s)
  <2>1. PICK s \in Slugs : M!CrashInApprove(s)
    BY <1>7
  <2>2. /\ M!Approvable(s, TRUE)
        /\ tree' = [tree EXCEPT ![<<M!Target(tree[<<"pending", s>>]), s>>] = M!Absent]
    BY <2>1 DEF M!CrashInApprove
  <2>3. <<M!Target(tree[<<"pending", s>>]), s>> \in M!Places
    BY <2>2, ApproveMoves
  <2>4. ~up' /\ edits' = edits /\ UNCHANGED <<kind, index, approved>>
    BY <2>1 DEF M!CrashInApprove, M!Dies
  <2> QED
    BY <1>1, <2>2, <2>3, <2>4, NoFileIsNone, FileChanges
<1>8. CASE M!Boot
  <2>1. tree' = tree /\ M!Reindex /\ UNCHANGED <<kind, approved, edits>>
    BY <1>8 DEF M!Boot
  <2>2. tree' \in Trees /\ Vetted'
    BY <2>1 DEF Store, Vetted
  <2> QED
    BY <2>1, <2>2, Reindexed DEF Store
<1>9. CASE M!Crash
  BY <1>9 DEF M!Crash, M!Dies, Store, Vetted, M!IndexFollowsTree
<1>10. CASE \/ \E t \in Tasks, how \in {"succeeded", "failed"} : M!TaskEnds(t, how)
            \/ M!StartJob \/ M!JobGivesNothing
            \/ \E x \in Projects : M!CreateProject(x) \/ M!DeleteProject(x)
  <2>1. UNCHANGED <<kind, tree, index, up, approved, edits, edited>>
    BY <1>10 DEF M!TaskEnds, M!StartJob, M!JobGivesNothing, M!CreateProject, M!DeleteProject
  <2> QED
    BY <2>1 DEF Store, Vetted, M!IndexFollowsTree
<1> QED
  BY <1>2, <1>3, <1>4, <1>5, <1>6, <1>7, <1>8, <1>9, <1>10 DEF M!Next

(* What the two say of the library's memory: the state is well formed, the *)
(* index follows the files, and a task reads what was approved, one file    *)
(* for a name and none of another project.                                 *)
LEMMA MemoryHolds ==
  ASSUME Queue, Store
  PROVE  M!TypeOK /\ M!IndexFollowsTree /\ M!OnlyApprovedIsRead /\ M!VisibleOnce
<1>1. M!TypeOK
  <2>1. \A t \in M!ToSet(chain) : \E i \in 1 .. Len(chain) : t = chain[i]
    BY DEF M!ToSet, Queue
  <2>2. DOMAIN chain = 1 .. Len(chain)
    BY DEF Queue
  <2> QED
    BY <2>1, <2>2 DEF M!TypeOK, Queue, Store, Trees, IndexRows
<1>2. ASSUME NEW x \in Projects \cup {"none"}, NEW r \in M!Visible(x)
      PROVE  /\ r \in index /\ r.at \in M!Places /\ r.at[1] # "pending"
             /\ r.project \in {"none", x} /\ r.at[1] \in {"global", x}
  <2>1. r \in index /\ r.at[1] \in {"global", x}
    BY DEF M!Visible
  <2>2. r.at \in M!Places /\ r.at[1] \in {"pending", "global"} \cup Projects
    BY <2>1 DEF Store, IndexRows, M!Places, M!Dirs
  <2>3. "pending" \notin Projects \cup {"none", "global"} /\ "global" \notin Projects
    BY PartsAssumption DEF M!MemoryAssumption
  <2>4. r.project = IF r.at[1] = "global" THEN "none" ELSE r.at[1]
    BY <2>1, <2>3 DEF Store, OneEach
  <2> QED
    BY <2>1, <2>2, <2>3, <2>4
<1>3. M!OnlyApprovedIsRead
  <2> SUFFICES ASSUME NEW x \in Projects \cup {"none"}, NEW s \in Slugs, NEW f \in M!Loaded(x, s),
                      f.by \in Tasks
               PROVE  <<f.by, s>> \in approved
    BY DEF M!OnlyApprovedIsRead
  <2>1. PICK r \in M!Visible(x) : f = tree[r.at] /\ r.at[2] = s /\ tree[r.at] \in M!File
    BY DEF M!Loaded, M!Exists
  <2> QED
    BY <1>2, <2>1 DEF Store, Vetted
<1>4. M!VisibleOnce
  <2> SUFFICES ASSUME NEW x \in Projects \cup {"none"}, NEW r \in M!Visible(x), NEW o \in M!Visible(x)
               PROVE  (r.at[2] = o.at[2] => r = o) /\ r.project \in {"none", x}
    BY DEF M!VisibleOnce
  <2>1. ASSUME r.at[2] = o.at[2] PROVE r = o
    <3>1. r.at[1] = o.at[1]
      <4>1. \A a, b \in M!Visible(x) : a.at[1] = x /\ b.at[1] # x => a.at[2] # b.at[2]
        BY DEF M!Visible
      <4> QED
        BY <1>2, <2>1, <4>1
    <3>2. r.at = o.at
      <4>1. \A p, q \in M!Places : p[1] = q[1] /\ p[2] = q[2] => p = q
        BY DEF M!Places
      <4> QED
        BY <1>2, <2>1, <3>1, <4>1
    <3> QED
      BY <1>2, <3>2 DEF Store, OneEach
  <2> QED
    BY <1>2, <2>1
<1> QED
  BY <1>1, <1>3, <1>4 DEF Store

(* No step of the memory writes over a draft under review.                 *)
LEMMA DraftsStay ==
  ASSUME Queue, Store, M!Next, NEW s \in Slugs,
         M!Exists(<<"pending", s>>), tree'[<<"pending", s>>] # tree[<<"pending", s>>]
  PROVE  tree'[<<"pending", s>>] = M!Absent \/ tree'[<<"pending", s>>].by = M!Owner
<1> DEFINE p == <<"pending", s>>
<1>1. p \in M!Places /\ p[1] = "pending" /\ tree[p] \in M!File /\ tree \in Trees
  BY DEF M!Places, M!Dirs, M!Exists, Store
<1>2. tree' # tree
  OBVIOUS
<1> HIDE DEF p
<1>3. CASE M!JobAnswers
  BY <1>1, <1>3, LandKeeps DEF M!JobAnswers, p
<1>4. CASE \E u \in Slugs, overwrite \in BOOLEAN : M!Approve(u, overwrite)
  <2>1. PICK u \in Slugs, overwrite \in BOOLEAN : M!Approve(u, overwrite)
    BY <1>4
  <2> DEFINE f == tree[<<"pending", u>>]  q == <<"pending", u>>  t == <<M!Target(f), u>>
  <2>2. tree' = [tree EXCEPT ![q] = M!Absent, ![t] = f] /\ q \in M!Places /\ t \in M!Places /\ t[1] # "pending"
    BY <2>1, ApproveMoves DEF M!Approve
  <2> HIDE DEF f, q, t
  <2>3. p # t
    BY <1>1, <2>2
  <2>4. tree'[p] = M!Absent \/ tree'[p] = tree[p]
    BY <1>1, <2>2, <2>3 DEF Trees
  <2> QED
    BY <2>4 DEF p
<1>5. CASE \E u \in Slugs : M!Reject(u)
  <2>1. PICK u \in Slugs : tree' = [tree EXCEPT ![<<"pending", u>>] = M!Absent]
    BY <1>5 DEF M!Reject
  <2>2. tree'[p] = M!Absent \/ tree'[p] = tree[p]
    BY <1>1, <2>1 DEF Trees
  <2> QED
    BY <2>2 DEF p
<1>6. CASE \E q \in M!Places : M!OwnerEdits(q)
  <2>1. PICK q \in M!Places, f \in {M!Absent} \cup [by : {M!Owner}, project : {"none"}, parses : BOOLEAN] :
              tree' = [tree EXCEPT ![q] = f]
    BY <1>6 DEF M!OwnerEdits
  <2>2. tree'[p] = f \/ tree'[p] = tree[p]
    BY <1>1, <2>1 DEF Trees
  <2>3. f = M!Absent \/ f.by = M!Owner
    OBVIOUS
  <2> QED
    BY <2>2, <2>3 DEF p
<1>7. CASE \E u \in Slugs : M!CrashInDraft(u)
  <2>1. PICK u \in Slugs : M!CrashInDraft(u)
    BY <1>7
  <2>2. PICK left : tree' = [tree EXCEPT ![<<"pending", u>>] = left]
    BY <2>1 DEF M!CrashInDraft
  <2>3. tree[<<"pending", u>>] \notin M!File
    BY <2>1 DEF M!CrashInDraft, M!Exists
  <2>4. tree'[p] = tree[p]
    BY <1>1, <2>2, <2>3 DEF Trees
  <2> QED
    BY <2>4 DEF p
<1>8. CASE \E u \in Slugs : M!CrashInApprove(u)
  <2>1. PICK u \in Slugs : M!CrashInApprove(u)
    BY <1>8
  <2> DEFINE t == <<M!Target(tree[<<"pending", u>>]), u>>
  <2>2. tree' = [tree EXCEPT ![t] = M!Absent] /\ t \in M!Places /\ t[1] # "pending"
    BY <2>1, ApproveMoves DEF M!CrashInApprove
  <2> HIDE DEF t
  <2>3. tree'[p] = tree[p]
    BY <1>1, <2>2 DEF Trees
  <2> QED
    BY <2>3 DEF p
<1>9. M!Next => \/ tree' = tree
                \/ M!JobAnswers
                \/ \E u \in Slugs, overwrite \in BOOLEAN : M!Approve(u, overwrite)
                \/ \E u \in Slugs : M!Reject(u) \/ M!CrashInDraft(u) \/ M!CrashInApprove(u)
                \/ \E q \in M!Places : M!OwnerEdits(q)
  BY DEF M!Next, M!TaskEnds, M!StartJob, M!JobGivesNothing, M!CreateProject, M!DeleteProject, M!Crash, M!Boot
<1> QED
  BY <1>2, <1>3, <1>4, <1>5, <1>6, <1>7, <1>8, <1>9

(* An approved file changes by its owner's hand, or for the draft that      *)
(* replaces it.                                                            *)
LEMMA ApprovedStay ==
  ASSUME Queue, Store, M!Next, NEW p \in M!Places, p[1] # "pending",
         M!Exists(p), tree'[p] # tree[p], edits' = edits
  PROVE  LET draft == tree[<<"pending", p[2]>>]
         IN  draft \in M!File /\ draft \in {tree'[p], tree'[<<"pending", p[2]>>]}
<1>1. tree[p] \in M!File /\ tree \in Trees
  BY DEF M!Exists, Store
<1>2. CASE M!JobAnswers
  BY <1>1, <1>2, LandKeeps DEF M!JobAnswers
<1>3. CASE \E u \in Slugs, overwrite \in BOOLEAN : M!Approve(u, overwrite)
  <2>1. PICK u \in Slugs, overwrite \in BOOLEAN : M!Approve(u, overwrite)
    BY <1>3
  <2> DEFINE f == tree[<<"pending", u>>]  q == <<"pending", u>>  t == <<M!Target(f), u>>
  <2>2. /\ tree' = [tree EXCEPT ![q] = M!Absent, ![t] = f] /\ f \in M!File
        /\ q \in M!Places /\ t \in M!Places /\ t[1] # "pending" /\ t[2] = u /\ q[1] = "pending"
    BY <2>1, ApproveMoves DEF M!Approve
  <2> HIDE DEF f, q, t
  <2>3. p = t
    BY <1>1, <2>2 DEF Trees
  <2>4. tree'[p] = f
    BY <2>2, <2>3 DEF Store, Trees
  <2> QED
    BY <2>2, <2>3, <2>4 DEF f
<1>4. CASE \E u \in Slugs : M!Reject(u) \/ M!CrashInDraft(u)
  <2>1. PICK u \in Slugs : M!Reject(u) \/ M!CrashInDraft(u)
    BY <1>4
  <2>2. PICK left : tree' = [tree EXCEPT ![<<"pending", u>>] = left]
    BY <2>1 DEF M!Reject, M!CrashInDraft
  <2> QED
    BY <1>1, <2>2 DEF Trees
<1>5. CASE \E q \in M!Places : M!OwnerEdits(q)
  BY <1>5 DEF M!OwnerEdits, Store
<1>6. CASE \E u \in Slugs : M!CrashInApprove(u)
  <2>1. PICK u \in Slugs : M!CrashInApprove(u)
    BY <1>6
  <2> DEFINE f == tree[<<"pending", u>>]  q == <<"pending", u>>  t == <<M!Target(f), u>>
  <2>2. /\ tree' = [tree EXCEPT ![t] = M!Absent] /\ f \in M!File
        /\ q \in M!Places /\ t \in M!Places /\ t[2] = u /\ q # t
    BY <2>1, ApproveMoves DEF M!CrashInApprove
  <2> HIDE DEF f, q, t
  <2>3. p = t /\ tree'[q] = tree[q]
    BY <1>1, <2>2 DEF Trees
  <2> QED
    BY <2>2, <2>3 DEF f, q
<1>7. M!Next => \/ tree' = tree
                \/ M!JobAnswers
                \/ \E u \in Slugs, overwrite \in BOOLEAN : M!Approve(u, overwrite)
                \/ \E u \in Slugs : M!Reject(u) \/ M!CrashInDraft(u) \/ M!CrashInApprove(u)
                \/ \E q \in M!Places : M!OwnerEdits(q)
  BY DEF M!Next, M!TaskEnds, M!StartJob, M!JobGivesNothing, M!CreateProject, M!DeleteProject, M!Crash, M!Boot
<1> QED
  BY <1>2, <1>3, <1>4, <1>5, <1>6, <1>7

-----------------------------------------------------------------------------
(* Registry: what is on record, and what a command holds of it.            *)
RowSet == R!Row \cup {R!NoRow}
CardSet == R!Card \cup {R!NoCard}
Knowledge == [Models -> {R!Silent} \cup Facts]

Shaped ==
    /\ config \in Knowledge /\ catalog \in Knowledge /\ typed \in Knowledge
    /\ corrected \in [Models -> {"none", "mine", "theirs"}]
    /\ rows \in [Models -> RowSet] /\ cards \in [Models -> CardSet]
    /\ bundle.rows \in [Models -> RowSet] /\ bundle.cards \in [Models -> CardSet]
    /\ asking \in Models \cup {"none"} /\ leaving \in Models \cup {"none"}

(* A command holds at most one row of a model, and unless a human touched   *)
(* the model since, what it is about to write is what it would write now.  *)
Fresh(h) ==
    h[2] = IF cmd = "sync" THEN R!Merged(rows[h[1]], catalog[h[1]])
           ELSE [rows[h[1]] EXCEPT !.on = FALSE]
Holds ==
    /\ held \subseteq Models \X R!Row /\ todo \subseteq Models
    /\ asking # "none" => cmd = "cards"
    /\ held # {} => cmd \in {"sync", "vanish"}
    /\ cmd = "sync" => \A m \in todo : catalog[m] \in Facts
    /\ \A h, g \in held : h[1] = g[1] => h = g
    /\ \A h \in held : h[1] \in since \/ Fresh(h)

(* A row beside what humans said of its model.                             *)
RowStands(m) ==
    /\ R!Known(m) /\ typed[m] \notin {R!Silent, 0} => rows[m].fact = typed[m] /\ rows[m].source = "manual"
    /\ ~R!Known(m) => typed[m] = R!Silent
    /\ rows[m].on => m \in chosen

(* A card beside its corrections, and beside its model.                    *)
CardStands(m) ==
    /\ cards[m] # R!NoCard => cards[m].over = corrected[m] /\ R!Known(m)
    /\ cards[m] = R!NoCard => corrected[m] = "none"

Rows == \A m \in Models : RowStands(m)
Cards == \A m \in Models : CardStands(m)
Records == Shaped /\ Holds /\ Rows /\ Cards

(* A missing row is no row, a missing card no card, and nobody is a model.  *)
LEMMA NoneIsNone ==
  /\ R!NoRow \notin R!Row /\ R!NoCard \notin R!Card /\ "none" \notin Models
  /\ R!NoRow.on = FALSE /\ R!Silent \in Int
  /\ \A s \in {"synced", "manual"}, on \in BOOLEAN, f \in Facts : [source |-> s, on |-> on, fact |-> f] \in R!Row
  /\ \A r \in R!Row : /\ r.source \in {"synced", "manual"} /\ r.on \in BOOLEAN /\ r.fact \in Facts
                      /\ r = [source |-> r.source, on |-> r.on, fact |-> r.fact]
<1>1. R!NoRow.source = "none" /\ R!NoRow.on = FALSE /\ R!NoCard.over = "no card"
  BY DEF R!NoRow, R!NoCard
<1>2. "none" \notin Models
  BY PartsAssumption DEF R!RegistryAssumption
<1>3. /\ \A r \in R!Row : /\ r.source \in {"synced", "manual"} /\ r.on \in BOOLEAN /\ r.fact \in Facts
                          /\ r = [source |-> r.source, on |-> r.on, fact |-> r.fact]
      /\ \A s \in {"synced", "manual"}, on \in BOOLEAN, f \in Facts : [source |-> s, on |-> on, fact |-> f] \in R!Row
  BY DEF R!Row
<1>4. \A c \in R!Card : c.over \in {"none", "mine", "theirs"}
  BY DEF R!Card
<1>5. R!NoRow \notin R!Row /\ R!NoCard \notin R!Card
  BY <1>1, <1>3, <1>4
<1>6. R!Silent \in Int
  BY DEF R!Silent
<1> QED
  BY <1>1, <1>2, <1>3, <1>5, <1>6

(* A row beside its catalog entry keeps what a human typed, is not switched *)
(* on and does not go.                                                     *)
LEMMA MergeKeeps ==
  ASSUME NEW r \in RowSet, NEW f \in Facts
  PROVE  LET n == R!Merged(r, f)
         IN  /\ n \in R!Row
             /\ n.on => r.on
             /\ r # R!NoRow /\ r.source = "manual" => n.source = "manual"
             /\ r # R!NoRow /\ r.source = "manual" /\ r.fact # 0 => n.fact = r.fact
<1>1. CASE r = R!NoRow
  <2>1. R!Merged(r, f) = [source |-> "synced", on |-> FALSE, fact |-> f]
    BY <1>1 DEF R!Merged
  <2> QED
    BY <1>1, <2>1, NoneIsNone
<1>2. CASE r # R!NoRow
  <2>1. r \in R!Row
    BY <1>2 DEF RowSet
  <2> DEFINE k == IF r.source = "manual" /\ r.fact # 0 THEN r.fact ELSE f
  <2>2. R!Merged(r, f) = [r EXCEPT !.fact = k]
    BY <1>2 DEF R!Merged
  <2>3. k \in Facts
    BY <2>1, NoneIsNone
  <2>4. [r EXCEPT !.fact = k] = [source |-> r.source, on |-> r.on, fact |-> k]
    BY <2>1 DEF R!Row
  <2> QED
    BY <2>1, <2>2, <2>3, <2>4, NoneIsNone
<1> QED
  BY <1>1, <1>2

(* A human edits one row, which is then marked for the command that holds it. *)
LEMMA OneRow ==
  ASSUME Records, NEW m \in Models, NEW r \in RowSet, NEW v \in {R!Silent} \cup Facts, NEW on \in BOOLEAN,
         rows' = [rows EXCEPT ![m] = r], typed' = [typed EXCEPT ![m] = v],
         r = R!NoRow => v = R!Silent,
         v \notin {R!Silent, 0} => r.fact = v /\ r.source = "manual",
         r.on => on, r = R!NoRow => cards[m] = R!NoCard,
         R!Switched(m, on), R!Touched(m), leaving' \in Models \cup {"none"},
         UNCHANGED <<config, cards, cmd, todo, catalog, held, asking, bundle, corrected>>
  PROVE  Records'
<1>1. rows' \in [Models -> RowSet] /\ rows'[m] = r /\ typed' \in Knowledge /\ typed'[m] = v
      /\ \A n \in Models : n # m => rows'[n] = rows[n] /\ typed'[n] = typed[n]
  BY DEF Records, Shaped, Knowledge
<1>2. Shaped'
  BY <1>1 DEF Records, Shaped
<1>3. Holds'
  <2>1. ASSUME NEW h \in held PROVE h[1] \in since' \/ Fresh(h)'
    <3>1. h[1] \in Models /\ (h[1] \in since \/ Fresh(h))
      BY DEF Records, Holds
    <3>2. CASE h[1] = m
      BY <3>2 DEF R!Touched
    <3>3. CASE h[1] # m
      <4>1. rows'[h[1]] = rows[h[1]] /\ (h[1] \in since => h[1] \in since')
        BY <1>1, <3>1, <3>3 DEF R!Touched
      <4>2. Fresh(h) => Fresh(h)'
        BY <4>1 DEF Fresh, R!Merged, R!NoRow
      <4> QED
        BY <3>1, <4>1, <4>2
    <3> QED
      BY <3>2, <3>3
  <2> QED
    BY <2>1 DEF Records, Holds
<1>4. chosen' = IF on THEN chosen \cup {m} ELSE chosen \ {m}
  BY DEF R!Switched
<1>5. Rows'
  <2> SUFFICES ASSUME NEW n \in Models PROVE RowStands(n)'
    BY DEF Rows
  <2>1. CASE n = m
    BY <1>1, <1>4, <2>1 DEF RowStands, R!Known, R!NoRow
  <2>2. CASE n # m
    BY <1>1, <1>4, <2>2 DEF Records, Rows, RowStands, R!Known, R!NoRow
  <2> QED
    BY <2>1, <2>2
<1>6. Cards'
  BY <1>1 DEF Records, Cards, CardStands, R!Known, R!NoRow
<1> QED
  BY <1>2, <1>3, <1>5, <1>6 DEF Records

(* What a human does to the row of one model, over HTTP.                   *)
LEMMA HumanEditsRow ==
  ASSUME Records, NEW m \in Models, NEW f \in Facts, NEW on \in BOOLEAN,
         R!PatchModel(m, f, on) \/ R!CreateModel(m, f, on)
  PROVE  Records'
<1>1. CASE R!PatchModel(m, f, on)
  <2> DEFINE r == R!Patched(rows[m], f, on)
             v == IF f # rows[m].fact THEN f ELSE typed[m]
  <2>1. /\ R!Known(m) /\ rows' = [rows EXCEPT ![m] = r] /\ R!Switched(m, on)
        /\ typed' = IF f # rows[m].fact THEN [typed EXCEPT ![m] = f] ELSE typed
        /\ R!Touched(m) /\ leaving' = leaving
        /\ UNCHANGED <<config, cards, cmd, todo, catalog, held, asking, bundle, corrected>>
    BY <1>1 DEF R!PatchModel, R!command
  <2>2. rows[m] \in R!Row /\ typed \in Knowledge /\ leaving' \in Models \cup {"none"}
    BY <2>1 DEF R!Known, Records, Shaped, RowSet
  <2>3. typed' = [typed EXCEPT ![m] = v] /\ v \in {R!Silent} \cup Facts
    BY <2>1, <2>2 DEF Knowledge
  <2>4. r = [source |-> IF f # rows[m].fact THEN "manual" ELSE rows[m].source, on |-> on, fact |-> f]
    BY DEF R!Patched
  <2>5. r \in RowSet /\ r # R!NoRow /\ r.on = on /\ r.fact = f
    BY <2>2, <2>4, NoneIsNone DEF RowSet
  <2>6. v \notin {R!Silent, 0} => r.fact = v /\ r.source = "manual"
    <3>1. RowStands(m)
      BY DEF Records, Rows
    <3> QED
      BY <2>1, <2>4, <2>5, <3>1 DEF RowStands
  <2> HIDE DEF r, v
  <2> QED
    BY <2>1, <2>2, <2>3, <2>5, <2>6, OneRow
<1>2. CASE R!CreateModel(m, f, on)
  <2> DEFINE r == [source |-> "manual", on |-> on, fact |-> f]
  <2>1. /\ rows' = [rows EXCEPT ![m] = r] /\ R!Switched(m, on) /\ typed' = [typed EXCEPT ![m] = f]
        /\ R!Touched(m) /\ leaving' = leaving
        /\ UNCHANGED <<config, cards, cmd, todo, catalog, held, asking, bundle, corrected>>
    BY <1>2 DEF R!CreateModel, R!command
  <2>2. r \in RowSet /\ r # R!NoRow /\ r.on = on /\ r.fact = f /\ r.source = "manual"
    BY NoneIsNone DEF RowSet
  <2>3. leaving' \in Models \cup {"none"}
    BY <2>1 DEF Records, Shaped
  <2> HIDE DEF r
  <2> QED
    BY <2>1, <2>2, <2>3, OneRow
<1> QED
  BY <1>1, <1>2

(* A model is deleted, when no card came in after its own was.             *)
LEMMA HumanDeletes ==
  ASSUME Records, R!DeleteModel
  PROVE  Records'
<1>1. /\ leaving \in Models /\ leaving' = "none"
      /\ UNCHANGED <<config, cards, cmd, todo, catalog, held, asking, bundle, corrected>>
  BY DEF R!DeleteModel, R!command, Records, Shaped
<1>2. CASE cards[leaving] = R!NoCard
  <2>1. /\ rows' = [rows EXCEPT ![leaving] = R!NoRow] /\ typed' = [typed EXCEPT ![leaving] = R!Silent]
        /\ R!Switched(leaving, FALSE) /\ R!Touched(leaving)
    BY <1>2 DEF R!DeleteModel
  <2> QED
    BY <1>1, <1>2, <2>1, OneRow, NoneIsNone DEF RowSet
<1>3. CASE cards[leaving] # R!NoCard
  <2>1. UNCHANGED <<rows, typed, chosen, since>>
    BY <1>3 DEF R!DeleteModel
  <2> QED
    BY <1>1, <2>1 DEF Records, Shaped, Holds, Fresh, Rows, RowStands, Cards, CardStands, R!Known, R!NoRow,
                      R!NoCard, R!Merged
<1> QED
  BY <1>2, <1>3

(* One card is written, removed, corrected or generated again.             *)
LEMMA OneCard ==
  ASSUME Records, NEW m \in Models, NEW c \in CardSet, NEW k \in {"none", "mine", "theirs"},
         cards' = [cards EXCEPT ![m] = c], corrected' = [corrected EXCEPT ![m] = k],
         c # R!NoCard => c.over = k /\ R!Known(m), c = R!NoCard => k = "none",
         UNCHANGED <<config, rows, catalog, bundle, typed, chosen>>, Holds',
         asking' \in Models \cup {"none"}, leaving' \in Models \cup {"none"}
  PROVE  Records'
<1>1. /\ cards' \in [Models -> CardSet] /\ corrected' \in [Models -> {"none", "mine", "theirs"}]
      /\ cards'[m] = c /\ corrected'[m] = k
      /\ \A n \in Models : n # m => cards'[n] = cards[n] /\ corrected'[n] = corrected[n]
  BY DEF Records, Shaped
<1>2. Shaped'
  BY <1>1 DEF Records, Shaped
<1>3. Rows'
  BY DEF Records, Rows, RowStands, R!Known, R!NoRow
<1>4. Cards'
  <2> SUFFICES ASSUME NEW n \in Models PROVE CardStands(n)'
    BY DEF Cards
  <2>1. CASE n = m
    BY <1>1, <2>1 DEF CardStands, R!Known, R!NoRow, R!NoCard
  <2>2. CASE n # m
    BY <1>1, <2>2 DEF Records, Cards, CardStands, R!Known, R!NoRow, R!NoCard
  <2> QED
    BY <2>1, <2>2
<1> QED
  BY <1>2, <1>3, <1>4 DEF Records

(* What a human does to one card.                                          *)
LEMMA HumanEditsCard ==
  ASSUME Records, NEW m \in Models,
         R!DeleteCard(m) \/ \E over \in {"none", "mine"} : R!SetOverrides(m, over)
  PROVE  Records'
<1>1. Holds' /\ UNCHANGED <<config, rows, catalog, bundle, typed, chosen, asking>>
  BY DEF R!DeleteCard, R!SetOverrides, R!command, Records, Holds, Fresh, R!Merged, R!NoRow
<1>2. asking \in Models \cup {"none"} /\ leaving \in Models \cup {"none"} /\ cards \in [Models -> CardSet]
  BY DEF Records, Shaped
<1>3. CASE R!DeleteCard(m)
  <2>1. /\ cards' = [cards EXCEPT ![m] = R!NoCard] /\ corrected' = [corrected EXCEPT ![m] = "none"]
        /\ leaving' = m
    BY <1>3 DEF R!DeleteCard
  <2> QED
    BY <1>1, <1>2, <2>1, OneCard DEF CardSet
<1>4. CASE \E over \in {"none", "mine"} : R!SetOverrides(m, over)
  <2>1. PICK over \in {"none", "mine"} : R!SetOverrides(m, over)
    BY <1>4
  <2>2. /\ cards[m] # R!NoCard /\ leaving' = leaving /\ corrected' = [corrected EXCEPT ![m] = over]
        /\ cards' = [cards EXCEPT ![m].over = over]
    BY <2>1 DEF R!SetOverrides
  <2> DEFINE c == [cards[m] EXCEPT !.over = over]
  <2>3. c \in R!Card /\ c.over = over
    BY <1>2, <2>2 DEF CardSet, R!Card
  <2>4. cards' = [cards EXCEPT ![m] = c]
    BY <2>2
  <2>5. c \in CardSet /\ c # R!NoCard /\ R!Known(m)
    BY <2>2, <2>3, NoneIsNone DEF CardSet, Records, Cards, CardStands
  <2> HIDE DEF c
  <2> QED
    BY <1>1, <1>2, <2>2, <2>3, <2>4, <2>5, OneCard
<1> QED
  BY <1>3, <1>4

(* A bundle is imported: rows of models it knows better, with what its     *)
(* owner switched on, and cards, with corrections when it brings some.     *)
LEMMA BundleLands ==
  ASSUME Records, NEW b, b.rows \in [Models -> RowSet], b.cards \in [Models -> CardSet],
         NEW known \in BOOLEAN, NEW overwrite \in BOOLEAN, R!Import(b, known, overwrite)
  PROVE  Records'
<1> DEFINE ms == R!PlanRows(b, known, overwrite)
           cs == R!PlanCards(b, known, overwrite)
<1>1. /\ rows' = [m \in Models |-> IF m \in ms THEN b.rows[m] ELSE rows[m]]
      /\ cards' = [m \in Models |-> IF m \in cs THEN R!Imported(cards[m], b.cards[m]) ELSE cards[m]]
      /\ typed' = [m \in Models |-> IF m \in ms THEN R!Silent ELSE typed[m]]
      /\ corrected' = [m \in Models |-> IF m \in cs /\ b.cards[m].over # "none" THEN b.cards[m].over
                                        ELSE corrected[m]]
      /\ chosen' = (chosen \ ms) \cup {m \in ms : b.rows[m].on}
      /\ since' = since \cup {m \in ms : \E h \in held : h[1] = m}
      /\ UNCHANGED <<config, cmd, todo, catalog, held, asking, bundle, leaving>>
  BY DEF R!Import, R!command
<1>2. /\ \A m \in ms : m \in Models /\ b.rows[m] \in R!Row
      /\ \A m \in cs : m \in Models /\ b.cards[m] \in R!Card /\ (R!Known(m) \/ m \in ms)
  BY DEF R!PlanRows, R!PlanCards, RowSet, CardSet
<1> HIDE DEF ms, cs
<1>3. ASSUME NEW m \in cs
      PROVE  LET c == R!Imported(cards[m], b.cards[m])
                 k == IF b.cards[m].over # "none" THEN b.cards[m].over ELSE corrected[m]
             IN  c \in R!Card /\ c.over = k
  <2>1. m \in Models /\ b.cards[m] \in R!Card /\ cards[m] \in CardSet /\ CardStands(m)
    BY <1>2 DEF Records, Shaped, Cards
  <2> QED
    BY <2>1, NoneIsNone DEF R!Imported, CardStands, CardSet
<1>4. \A c \in R!Card : c.over \in {"none", "mine", "theirs"} /\ c # R!NoCard
  BY NoneIsNone DEF R!Card
<1>5. Shaped'
  <2>1. rows' \in [Models -> RowSet] /\ typed' \in Knowledge
    BY <1>1, <1>2 DEF Records, Shaped, Knowledge, RowSet
  <2>2. cards' \in [Models -> CardSet]
    BY <1>1, <1>3 DEF Records, Shaped, CardSet
  <2>3. corrected' \in [Models -> {"none", "mine", "theirs"}]
    BY <1>1, <1>2, <1>4 DEF Records, Shaped
  <2> QED
    BY <1>1, <2>1, <2>2, <2>3 DEF Records, Shaped
<1>6. Holds'
  <2>1. ASSUME NEW h \in held PROVE h[1] \in since' \/ Fresh(h)'
    <3>1. h[1] \in Models /\ (h[1] \in since \/ Fresh(h))
      BY DEF Records, Holds
    <3>2. CASE h[1] \in ms
      BY <1>1, <3>2
    <3>3. CASE h[1] \notin ms
      <4>1. rows'[h[1]] = rows[h[1]] /\ (h[1] \in since => h[1] \in since') /\ UNCHANGED <<cmd, catalog>>
        BY <1>1, <3>1, <3>3
      <4>2. Fresh(h) => Fresh(h)'
        BY <4>1 DEF Fresh, R!Merged, R!NoRow
      <4> QED
        BY <3>1, <4>1, <4>2
    <3> QED
      BY <3>2, <3>3
  <2> QED
    BY <1>1, <2>1 DEF Records, Holds
<1>7. Rows'
  <2> SUFFICES ASSUME NEW m \in Models PROVE RowStands(m)'
    BY DEF Rows
  <2>1. CASE m \in ms
    <3>1. /\ rows'[m] = b.rows[m] /\ typed'[m] = R!Silent /\ b.rows[m] \in R!Row
          /\ b.rows[m].on => m \in chosen'
      BY <1>1, <1>2, <2>1
    <3>2. b.rows[m] # R!NoRow
      BY <3>1, NoneIsNone
    <3> QED
      BY <3>1, <3>2 DEF RowStands, R!Known, R!NoRow
  <2>2. CASE m \notin ms
    BY <1>1, <2>2 DEF Records, Rows, RowStands, R!Known, R!NoRow
  <2> QED
    BY <2>1, <2>2
<1>8. Cards'
  <2> SUFFICES ASSUME NEW m \in Models PROVE CardStands(m)'
    BY DEF Cards
  <2>1. R!Known(m) \/ m \in ms => R!Known(m)'
    BY <1>1, <1>2, NoneIsNone DEF R!Known, R!NoRow
  <2>2. CASE m \in cs
    <3>1. cards'[m] \in R!Card /\ cards'[m].over = corrected'[m] /\ R!Known(m)'
      BY <1>1, <1>2, <1>3, <2>1, <2>2
    <3> QED
      BY <3>1, <1>4 DEF CardStands, R!NoCard
  <2>3. CASE m \notin cs
    <3>1. cards'[m] = cards[m] /\ corrected'[m] = corrected[m]
      BY <1>1, <2>3
    <3> QED
      BY <2>1, <3>1 DEF Records, Cards, CardStands, R!NoCard
  <2> QED
    BY <2>2, <2>3
<1> QED
  BY <1>5, <1>6, <1>7, <1>8 DEF Records

(* ... this machine's own or one that another machine sent.                *)
LEMMA BundlesAreRows ==
  ASSUME Records, NEW b \in R!Foreign \cup {bundle}
  PROVE  b.rows \in [Models -> RowSet] /\ b.cards \in [Models -> CardSet]
<1>1. CASE b = bundle
  BY <1>1 DEF Records, Shaped
<1>2. CASE b \in R!Foreign
  <2>1. PICK f \in Facts, o \in {"none", "theirs"} :
              b = [rows |-> [m \in Models |-> [source |-> "synced", on |-> TRUE, fact |-> f]],
                   cards |-> [m \in Models |-> [over |-> o]]]
    BY <1>2 DEF R!Foreign
  <2>2. [source |-> "synced", on |-> TRUE, fact |-> f] \in RowSet /\ [over |-> o] \in CardSet
    BY DEF RowSet, R!Row, CardSet, R!Card
  <2> QED
    BY <2>1, <2>2
<1> QED
  BY <1>1, <1>2

(* A process starts: what the config file declares is written, as enabled.  *)
LEMMA Seeds ==
  ASSUME Records, NEW key \in BOOLEAN, R!Seed(key), todo' \subseteq Models,
         cmd' \in {"none", "fetch", "cards"}
  PROVE  Records'
<1>1. /\ cmd = "none"
      /\ rows' = [m \in Models |-> IF m \in R!Declared
                                   THEN [source |-> "manual", on |-> TRUE, fact |-> config[m]] ELSE rows[m]]
      /\ typed' = [m \in Models |-> IF m \in R!Declared THEN config[m] ELSE typed[m]]
      /\ chosen' = chosen \cup R!Declared
      /\ UNCHANGED <<config, cards, bundle, leaving, corrected, since, catalog, held, asking>>
  BY DEF R!Seed
<1>2. held = {} /\ asking = "none"
  BY <1>1 DEF Records, Holds
<1>3. \A m \in R!Declared : /\ m \in Models /\ config[m] \in Facts
                            /\ [source |-> "manual", on |-> TRUE, fact |-> config[m]] \in R!Row
  BY NoneIsNone DEF R!Declared, Records, Shaped, Knowledge
<1>4. Shaped'
  BY <1>1, <1>3 DEF Records, Shaped, Knowledge, RowSet
<1>5. Holds'
  BY <1>1, <1>2 DEF Records, Holds
<1>6. \A m \in Models : R!Known(m) => R!Known(m)'
  BY <1>1, <1>3, NoneIsNone DEF R!Known, R!NoRow
<1>7. Rows'
  <2> SUFFICES ASSUME NEW m \in Models PROVE RowStands(m)'
    BY DEF Rows
  <2>1. CASE m \in R!Declared
    BY <1>1, <1>3, <2>1, NoneIsNone DEF RowStands, R!Known, R!NoRow
  <2>2. CASE m \notin R!Declared
    BY <1>1, <2>2 DEF Records, Rows, RowStands, R!Known, R!NoRow
  <2> QED
    BY <2>1, <2>2
<1>8. Cards'
  BY <1>1, <1>6 DEF Records, Cards, CardStands, R!NoCard
<1> QED
  BY <1>4, <1>5, <1>7, <1>8 DEF Records

(* A command reads the rows it is about to write.                          *)
LEMMA CommandReads ==
  ASSUME Records, UNCHANGED <<config, bundle, leaving, rows, cards, typed, corrected, chosen>>,
         catalog' \in Knowledge, asking' \in Models \cup {"none"}, Holds'
  PROVE  Records'
BY DEF Records, Shaped, Rows, RowStands, Cards, CardStands, R!Known, R!NoRow, R!NoCard

(* ... and writes one back: as a human left it, or over what a human did    *)
(* in between.                                                             *)
LEMMA CommandWrites ==
  ASSUME Records, NEW h \in held, R!Command(R!SyncWrites(h))
  PROVE  Records'
<1>1. /\ held' = held \ {h} /\ rows' = [rows EXCEPT ![h[1]] = h[2]]
      /\ typed' = IF h[1] \in since THEN [typed EXCEPT ![h[1]] = R!Silent] ELSE typed
      /\ chosen' = IF h[1] \in since /\ h[2].on THEN chosen \cup {h[1]} ELSE chosen
      /\ UNCHANGED <<cards, cmd, todo, catalog, asking, corrected, since, config, bundle, leaving>>
  BY DEF R!Command, R!SyncWrites
<1>2. h[1] \in Models /\ h[2] \in R!Row /\ h[2] # R!NoRow /\ cmd \in {"sync", "vanish"}
  BY NoneIsNone DEF Records, Holds
<1>3. /\ rows' \in [Models -> RowSet] /\ rows'[h[1]] = h[2]
      /\ \A n \in Models : n # h[1] => rows'[n] = rows[n]
  BY <1>1, <1>2 DEF Records, Shaped, RowSet
<1>4. typed' \in Knowledge /\ \A n \in Models : n # h[1] => typed'[n] = typed[n]
  BY <1>1 DEF Records, Shaped, Knowledge
<1>5. Shaped'
  BY <1>1, <1>3, <1>4 DEF Records, Shaped
<1>6. Holds'
  <2>1. ASSUME NEW g \in held' PROVE g[1] \in since' \/ Fresh(g)'
    <3>1. g \in held /\ g[1] # h[1] /\ g[1] \in Models
      BY <1>1 DEF Records, Holds
    <3>2. rows'[g[1]] = rows[g[1]] /\ UNCHANGED <<cmd, catalog, since>>
      BY <1>1, <1>3, <3>1
    <3>3. Fresh(g) => Fresh(g)'
      BY <3>2 DEF Fresh, R!Merged, R!NoRow
    <3> QED
      BY <3>1, <3>2, <3>3 DEF Records, Holds
  <2> QED
    BY <1>1, <2>1 DEF Records, Holds
<1>7. RowStands(h[1])'
  <2>1. CASE h[1] \in since
    <3>1. typed'[h[1]] = R!Silent /\ (h[2].on => h[1] \in chosen')
      BY <1>1, <1>2, <2>1 DEF Records, Shaped, Knowledge
    <3> QED
      BY <1>2, <1>3, <3>1 DEF RowStands, R!Known, R!NoRow
  <2>2. CASE h[1] \notin since
    <3> DEFINE r == rows[h[1]]
    <3>1. Fresh(h) /\ r \in RowSet /\ RowStands(h[1]) /\ typed' = typed /\ chosen' = chosen
      BY <1>1, <1>2, <2>2 DEF Records, Holds, Shaped, Rows
    <3>2. /\ h[2].on => r.on
          /\ r # R!NoRow /\ r.source = "manual" => h[2].source = "manual"
          /\ r # R!NoRow /\ r.source = "manual" /\ r.fact # 0 => h[2].fact = r.fact
      <4>1. CASE cmd = "sync"
        <5>1. CASE catalog[h[1]] \in Facts
          BY <3>1, <4>1, <5>1, MergeKeeps DEF Fresh
        <5>2. CASE catalog[h[1]] \notin Facts
          BY <1>2, <3>1, <4>1, <5>2, NoneIsNone DEF Fresh, R!Merged, RowSet
        <5> QED
          BY <5>1, <5>2
      <4>2. CASE cmd = "vanish"
        <5>1. h[2] = [r EXCEPT !.on = FALSE]
          BY <3>1, <4>2 DEF Fresh
        <5>2. h[2].on = FALSE /\ h[2].source = r.source /\ h[2].fact = r.fact
          BY <3>1, <5>1 DEF RowSet, R!Row, R!NoRow
        <5> QED
          BY <5>2
      <4> QED
        BY <1>2, <4>1, <4>2
    <3> QED
      BY <1>2, <1>3, <3>1, <3>2 DEF RowStands, R!Known, R!NoRow
  <2> QED
    BY <2>1, <2>2
<1>8. Rows'
  <2> SUFFICES ASSUME NEW n \in Models, n # h[1] PROVE RowStands(n)'
    BY <1>7 DEF Rows
  <2>1. n \in chosen => n \in chosen'
    BY <1>1
  <2> QED
    BY <1>3, <1>4, <2>1 DEF Records, Rows, RowStands, R!Known, R!NoRow
<1>9. Cards'
  <2>1. \A n \in Models : R!Known(n) => R!Known(n)'
    BY <1>2, <1>3 DEF R!Known, R!NoRow
  <2> QED
    BY <1>1, <2>1 DEF Records, Cards, CardStands, R!NoCard
<1> QED
  BY <1>5, <1>6, <1>8, <1>9 DEF Records

(* The steps of a command that leave the rows alone.                       *)
LEMMA CommandGoesOn ==
  ASSUME Records,
         R!Command(\/ R!Fetch \/ R!SyncLists \/ R!SyncEnds \/ R!CardThrows \/ R!CardFails \/ R!CardsEnd
                   \/ \E m \in Models : R!SyncReads(m) \/ R!CardTurn(m))
  PROVE  Records'
<1>1. UNCHANGED <<config, bundle, leaving, rows, cards, typed, corrected, chosen>>
  BY DEF R!Command, R!Fetch, R!SyncLists, R!SyncEnds, R!CardThrows, R!CardFails, R!CardsEnd, R!SyncReads,
         R!CardTurn, R!human
<1>2. catalog' \in Knowledge /\ asking' \in Models \cup {"none"} /\ Holds'
  <2>1. catalog \in Knowledge /\ asking \in Models \cup {"none"} /\ Holds
    BY DEF Records, Shaped
  <2>2. CASE R!Fetch
    <3>1. cmd = "fetch" /\ held' = held /\ asking' = asking
      BY <2>2 DEF R!Fetch
    <3>2. held = {} /\ asking = "none"
      BY <2>1, <3>1 DEF Holds
    <3>3. CASE cmd' = "none" /\ UNCHANGED <<todo, catalog>>
      BY <2>1, <3>1, <3>2, <3>3 DEF Holds
    <3>4. CASE \E c \in [Models -> {R!Silent} \cup Facts] :
                  catalog' = c /\ todo' = {m \in Models : c[m] # R!Silent} /\ cmd' = "sync"
      <4>1. catalog' \in Knowledge /\ todo' = {m \in Models : catalog'[m] # R!Silent} /\ cmd' = "sync"
        BY <3>4 DEF Knowledge
      <4>2. \A m \in todo' : catalog'[m] \in Facts
        BY <4>1 DEF Knowledge
      <4> QED
        BY <3>1, <3>2, <4>1, <4>2 DEF Holds
    <3> QED
      BY <2>2, <3>3, <3>4 DEF R!Fetch
  <2>3. CASE R!SyncLists
    <3>1. /\ cmd' = "vanish" /\ UNCHANGED <<rows, todo, catalog, asking>> /\ asking = "none"
          /\ held' = {<<m, [rows[m] EXCEPT !.on = FALSE]>> : m \in R!Gone}
      BY <2>1, <2>3 DEF R!SyncLists, Holds
    <3>2. \A m \in R!Gone : m \in Models /\ rows[m] \in R!Row /\ [rows[m] EXCEPT !.on = FALSE] \in R!Row
      BY DEF R!Gone, R!Known, Records, Shaped, RowSet, R!Row
    <3> DEFINE Off(m) == [rows[m] EXCEPT !.on = FALSE]
    <3>3. held' = {<<m, Off(m)>> : m \in R!Gone} /\ \A m \in R!Gone : m \in Models /\ Off(m) \in R!Row
      BY <3>1, <3>2
    <3> HIDE DEF Off
    <3>4. \A h \in held' : h[1] \in R!Gone /\ h[2] = Off(h[1]) /\ h = <<h[1], h[2]>>
      BY <3>3
    <3>5. held' \subseteq Models \X R!Row
      BY <3>4, <3>3
    <3>6. \A h \in held' : Fresh(h)'
      BY <3>1, <3>4 DEF Fresh, Off
    <3>7. \A h, g \in held' : h[1] = g[1] => h = g
      BY <3>4
    <3> QED
      BY <2>1, <3>1, <3>5, <3>6, <3>7 DEF Holds
  <2>4. CASE \E m \in Models : R!SyncReads(m)
    <3>1. PICK m \in Models : R!SyncReads(m)
      BY <2>4
    <3> DEFINE r == R!Merged(rows[m], catalog[m])
    <3>2. /\ cmd = "sync" /\ m \in todo /\ todo' = todo \ {m} /\ held' \in {{}, {<<m, r>>}}
          /\ UNCHANGED <<rows, cmd, catalog, asking>>
      BY <3>1 DEF R!SyncReads
    <3>3. r \in R!Row
      BY <2>1, <3>2, MergeKeeps DEF Holds, Records, Shaped
    <3>4. \A h \in held' : Fresh(h)'
      <4>1. \A h \in held' : h = <<m, r>>
        BY <3>2
      <4>2. \A h \in held' : h[1] = m /\ h[2] = r
        BY <4>1
      <4> QED
        BY <3>2, <4>2 DEF Fresh, R!Merged, R!NoRow
    <3> HIDE DEF r
    <3> QED
      BY <2>1, <3>2, <3>3, <3>4 DEF Holds
  <2>5. CASE R!SyncEnds \/ R!CardThrows \/ R!CardFails \/ R!CardsEnd \/ \E m \in Models : R!CardTurn(m)
    <3>1. held = {} /\ held' = {}
      BY <2>1, <2>5 DEF R!SyncEnds, R!CardThrows, R!CardFails, R!CardsEnd, R!CardTurn, Holds
    <3>2. catalog' = catalog /\ todo' \subseteq Models /\ asking' \in Models \cup {"none"} /\ cmd' # "sync"
      BY <2>1, <2>5 DEF R!SyncEnds, R!CardThrows, R!CardFails, R!CardsEnd, R!CardTurn, Holds
    <3>3. asking' # "none" => cmd' = "cards"
      BY <2>1, <2>5 DEF R!SyncEnds, R!CardThrows, R!CardFails, R!CardsEnd, R!CardTurn, Holds
    <3> QED
      BY <2>1, <3>1, <3>2, <3>3 DEF Holds
  <2> QED
    BY <2>2, <2>3, <2>4, <2>5 DEF R!Command
<1> QED
  BY <1>1, <1>2, CommandReads

(* A card is generated: its corrections stay.                              *)
LEMMA CardLands ==
  ASSUME Records, R!Command(R!CardAnswers)
  PROVE  Records'
<1> DEFINE c == R!Stored(cards[asking])
<1>1. /\ cmd = "cards" /\ asking # "none" /\ R!Known(asking) /\ cards' = [cards EXCEPT ![asking] = c]
      /\ asking' = "none"
      /\ UNCHANGED <<config, rows, catalog, bundle, leaving, typed, chosen, corrected, cmd, todo, held>>
  BY DEF R!Command, R!CardAnswers, R!human
<1>2. asking \in Models /\ cards[asking] \in CardSet /\ CardStands(asking) /\ leaving \in Models \cup {"none"}
  BY <1>1 DEF Records, Shaped, Cards
<1>3. c \in R!Card /\ c.over = corrected[asking]
  BY <1>2 DEF R!Stored, CardStands, CardSet, R!Card
<1>4. corrected' = [corrected EXCEPT ![asking] = corrected[asking]]
      /\ corrected[asking] \in {"none", "mine", "theirs"}
  BY <1>1, <1>2 DEF Records, Shaped
<1>5. held = {}
  BY <1>1 DEF Records, Holds
<1>6. Holds'
  BY <1>1, <1>5 DEF Records, Holds
<1>7. c \in CardSet /\ c # R!NoCard
  BY <1>3, NoneIsNone DEF CardSet
<1> HIDE DEF c
<1> QED
  BY <1>1, <1>2, <1>3, <1>4, <1>6, <1>7, OneCard

(* Every step of the registry keeps the records.                           *)
LEMMA RecordsStep ==
  ASSUME Records, R!Next
  PROVE  Records'
<1>1. CASE \E m \in Models, f \in Facts, on \in BOOLEAN : R!PatchModel(m, f, on) \/ R!CreateModel(m, f, on)
  BY <1>1, HumanEditsRow
<1>2. CASE R!DeleteModel
  BY <1>2, HumanDeletes
<1>3. CASE \/ \E m \in Models : R!DeleteCard(m)
           \/ \E m \in Models, over \in {"none", "mine"} : R!SetOverrides(m, over)
  BY <1>3, HumanEditsCard
<1>4. CASE R!Export
  <2>1. /\ bundle' = [rows |-> rows, cards |-> cards]
        /\ UNCHANGED <<config, rows, cards, cmd, todo, catalog, held, asking, leaving, typed, corrected,
                       chosen, since>>
    BY <1>4 DEF R!Export, R!command, R!human
  <2>2. Shaped'
    BY <2>1 DEF Records, Shaped
  <2>3. Holds' /\ Rows' /\ Cards'
    BY <2>1 DEF Records, Holds, Fresh, Rows, RowStands, Cards, CardStands, R!Known, R!NoRow, R!NoCard, R!Merged
  <2> QED
    BY <2>2, <2>3 DEF Records
<1>5. CASE \E b \in R!Foreign \cup {bundle}, known, overwrite \in BOOLEAN : R!Import(b, known, overwrite)
  <2>1. PICK b \in R!Foreign \cup {bundle}, known, overwrite \in BOOLEAN : R!Import(b, known, overwrite)
    BY <1>5
  <2> QED
    BY <2>1, BundlesAreRows, BundleLands
<1>6. CASE \E key \in BOOLEAN : R!Boot(key) \/ R!StartSync(key)
  <2>1. PICK key \in BOOLEAN : R!Boot(key) \/ R!StartSync(key)
    BY <1>6
  <2>2. R!Seed(key) /\ todo' = todo /\ cmd' \in {"none", "fetch", "cards"} /\ todo \subseteq Models
    BY <2>1 DEF R!Boot, R!StartSync, R!Seed, Records, Holds
  <2> QED
    BY <2>2, Seeds
<1>7. CASE \E key, again \in BOOLEAN, ms \in SUBSET Models : R!StartCards(key, again, ms)
  BY <1>7, Seeds DEF R!StartCards
<1>8. CASE R!Command(R!Runs)
  <2>1. CASE \E h \in held : R!SyncWrites(h)
    BY <1>8, <2>1, CommandWrites DEF R!Command
  <2>2. CASE R!CardAnswers
    BY <1>8, <2>2, CardLands DEF R!Command
  <2>3. CASE \/ R!Fetch \/ R!SyncLists \/ R!SyncEnds \/ R!CardThrows \/ R!CardFails \/ R!CardsEnd
             \/ \E m \in Models : R!SyncReads(m) \/ R!CardTurn(m)
    BY <1>8, <2>3, CommandGoesOn DEF R!Command
  <2> QED
    BY <1>8, <2>1, <2>2, <2>3 DEF R!Command, R!Runs
<1> QED
  BY <1>1, <1>2, <1>3, <1>4, <1>5, <1>6, <1>7, <1>8 DEF R!Next

(* What the records say of every model is what a human meant.              *)
LEMMA RecordsHold ==
  ASSUME Records
  PROVE  R!TypeOK /\ R!HumanKept /\ R!CorrectionKept /\ R!OnByHuman
<1>1. R!TypeOK
  BY DEF Records, Shaped, Holds, Cards, CardStands, R!TypeOK, RowSet, CardSet
<1> QED
  BY <1>1 DEF Records, Rows, RowStands, Cards, CardStands, R!HumanKept, R!CorrectionKept, R!OnByHuman

(* A model that is on record goes only when its deletion is under way.     *)
LEMMA ModelsStay ==
  ASSUME Records, R!Next, NEW m \in Models, R!Known(m), leaving # m
  PROVE  rows'[m] # R!NoRow
<1>1. rows[m] # R!NoRow /\ rows \in [Models -> RowSet]
  BY DEF R!Known, Records, Shaped
<1>2. CASE \E n \in Models, f \in Facts, on \in BOOLEAN : R!PatchModel(n, f, on) \/ R!CreateModel(n, f, on)
  <2>1. PICK n \in Models, f \in Facts, on \in BOOLEAN : R!PatchModel(n, f, on) \/ R!CreateModel(n, f, on)
    BY <1>2
  <2>2. PICK s \in {"synced", "manual"} : rows' = [rows EXCEPT ![n] = [source |-> s, on |-> on, fact |-> f]]
    <3>1. CASE R!CreateModel(n, f, on)
      BY <3>1 DEF R!CreateModel
    <3>2. CASE R!PatchModel(n, f, on)
      <4>1. rows[n].source \in {"synced", "manual"}
        BY <1>1, <3>2, NoneIsNone DEF R!PatchModel, R!Known, RowSet
      <4> QED
        BY <3>2, <4>1 DEF R!PatchModel, R!Patched
    <3> QED
      BY <2>1, <3>1, <3>2
  <2> QED
    BY <1>1, <2>2, NoneIsNone
<1>3. CASE R!DeleteModel
  <2>1. leaving \in Models
    BY <1>3 DEF R!DeleteModel, Records, Shaped
  <2> QED
    BY <1>1, <1>3, <2>1 DEF R!DeleteModel
<1>4. CASE \E b \in R!Foreign \cup {bundle}, known, overwrite \in BOOLEAN : R!Import(b, known, overwrite)
  BY <1>1, <1>4 DEF R!Import, R!PlanRows
<1>5. CASE \/ \E key \in BOOLEAN : R!Boot(key) \/ R!StartSync(key)
           \/ \E key, again \in BOOLEAN, ms \in SUBSET Models : R!StartCards(key, again, ms)
  <2>1. PICK key \in BOOLEAN : R!Seed(key)
    BY <1>5 DEF R!Boot, R!StartSync, R!StartCards
  <2>2. [source |-> "manual", on |-> TRUE, fact |-> config[m]] # R!NoRow
    BY DEF R!NoRow
  <2> QED
    BY <1>1, <2>1, <2>2 DEF R!Seed
<1>6. CASE \E h \in held : R!SyncWrites(h)
  <2>1. PICK h \in held : rows' = [rows EXCEPT ![h[1]] = h[2]]
    BY <1>6 DEF R!SyncWrites
  <2>2. h[1] \in Models /\ h[2] # R!NoRow
    BY NoneIsNone DEF Records, Holds
  <2> QED
    BY <1>1, <2>1, <2>2
<1>7. CASE rows' = rows
  BY <1>1, <1>7
<1> QED
  BY <1>2, <1>3, <1>4, <1>5, <1>6, <1>7
     DEF R!Next, R!Command, R!Runs, R!DeleteCard, R!SetOverrides, R!Export, R!Fetch, R!SyncLists, R!SyncEnds,
         R!CardAnswers, R!CardThrows, R!CardFails, R!CardsEnd, R!SyncReads, R!CardTurn
-----------------------------------------------------------------------------
(* Condense: the log of a task, cut in the middle.                         *)

(* All of the log, or as many lines of each end and a mark in between.     *)
Whole == Len(body) = lines /\ \A i \in 1 .. Len(body) : body[i] = i
Gap(k) ==
    /\ k >= 4 /\ Len(body) = 2 * k + 1 /\ Len(body) <= lines
    /\ \A i \in 1 .. k : body[i] = i
    /\ body[k + 1] < 0
    /\ \A i \in k + 2 .. Len(body) : body[i] = lines - Len(body) + i
Cut ==
    /\ lines \in Nat /\ body \in Seq(Int)
    /\ Whole \/ \E k \in Nat : Gap(k)
    /\ phase = "done" => ~C!TooLong

(* Whether a text is too long is a matter of the text alone.               *)
LEMMA LengthStays ==
  ASSUME UNCHANGED <<body, header, cost>>
  PROVE  C!TooLong' = C!TooLong
BY DEF C!TooLong, C!Tokens, C!MarkerCost

(* The two ends of a text, and a mark in between.                          *)
LEMMA Ends ==
  ASSUME NEW b \in Seq(Int), NEW k \in Nat, k > 0, 2 * k + 1 <= Len(b), NEW d \in Int
  PROVE  LET c == SubSeq(b, 1, k) \o <<d>> \o SubSeq(b, Len(b) - k + 1, Len(b))
         IN  /\ c \in Seq(Int) /\ Len(c) = 2 * k + 1
             /\ \A i \in 1 .. k : c[i] = b[i]
             /\ c[k + 1] = d
             /\ \A i \in k + 2 .. 2 * k + 1 : c[i] = b[Len(b) - 2 * k - 1 + i]
<1> DEFINE n == Len(b)  head == SubSeq(b, 1, k)  mark == <<d>>  tail == SubSeq(b, n - k + 1, n)
           front == head \o mark  c == front \o tail
<1>1. n \in Nat /\ \A i \in 1 .. n : b[i] \in Int
  OBVIOUS
<1>2. head \in Seq(Int) /\ Len(head) = k /\ \A i \in 1 .. k : head[i] = b[i]
  <2>1. 1 \in Int /\ k \in Int /\ \A i \in 1 .. k : b[i] \in Int
    BY <1>1
  <2>2. /\ head \in Seq(Int)
        /\ Len(head) = IF 1 <= k THEN k - 1 + 1 ELSE 0
        /\ \A i \in 1 .. k - 1 + 1 : head[i] = b[1 + i - 1]
    BY <2>1, SubSeqProperties
  <2> HIDE DEF head
  <2> QED
    BY <2>2
<1>3. tail \in Seq(Int) /\ Len(tail) = k /\ \A i \in 1 .. k : tail[i] = b[n - k + i]
  <2>1. n - k + 1 \in Int /\ n \in Int /\ \A i \in n - k + 1 .. n : b[i] \in Int
    BY <1>1
  <2>2. /\ tail \in Seq(Int)
        /\ Len(tail) = IF n - k + 1 <= n THEN n - (n - k + 1) + 1 ELSE 0
        /\ \A i \in 1 .. n - (n - k + 1) + 1 : tail[i] = b[n - k + 1 + i - 1]
    BY <2>1, SubSeqProperties
  <2> HIDE DEF tail, n
  <2>3. n - k + 1 <= n /\ n - (n - k + 1) + 1 = k
    BY <1>1
  <2>4. \A i \in 1 .. k : n - k + 1 + i - 1 = n - k + i
    BY <1>1
  <2> QED
    BY <2>2, <2>3, <2>4
<1>4. mark \in Seq(Int) /\ Len(mark) = 1 /\ mark[1] = d
  OBVIOUS
<1> HIDE DEF n, head, mark, tail
<1>5. head \in Seq(Int) /\ mark \in Seq(Int) /\ tail \in Seq(Int)
  BY <1>2, <1>3, <1>4
<1>6. /\ front \in Seq(Int) /\ Len(front) = Len(head) + Len(mark)
      /\ \A i \in 1 .. Len(head) + Len(mark) :
            front[i] = IF i <= Len(head) THEN head[i] ELSE mark[i - Len(head)]
  BY <1>5, ConcatProperties
<1> HIDE DEF front
<1>7. /\ c \in Seq(Int) /\ Len(c) = Len(front) + Len(tail)
      /\ \A i \in 1 .. Len(front) + Len(tail) :
            c[i] = IF i <= Len(front) THEN front[i] ELSE tail[i - Len(front)]
  <2>1. front \in Seq(Int)
    BY <1>6
  <2> QED
    BY <1>5, <2>1, ConcatProperties
<1> HIDE DEF c
<1>8. Len(front) = k + 1 /\ Len(c) = 2 * k + 1
  BY <1>2, <1>3, <1>4, <1>6, <1>7
<1>9. c[k + 1] = d /\ \A i \in 1 .. k : c[i] = b[i]
  <2>1. \A i \in 1 .. k + 1 : c[i] = front[i]
    <3>1. \A i \in 1 .. k + 1 : i \in 1 .. Len(front) + Len(tail) /\ i <= Len(front)
      BY <1>3, <1>8
    <3> QED
      BY <1>7, <3>1
  <2>2. front[k + 1] = mark[1] /\ \A i \in 1 .. k : front[i] = head[i]
    <3>1. /\ \A i \in 1 .. k : i \in 1 .. Len(head) + Len(mark) /\ i <= Len(head)
          /\ k + 1 \in 1 .. Len(head) + Len(mark) /\ ~(k + 1 <= Len(head)) /\ k + 1 - Len(head) = 1
      BY <1>2, <1>4
    <3> QED
      BY <1>6, <3>1
  <2>3. k + 1 \in 1 .. k + 1 /\ \A i \in 1 .. k : i \in 1 .. k + 1
    OBVIOUS
  <2>4. \A i \in 1 .. k : head[i] = b[i]
    BY <1>2
  <2>5. mark[1] = d
    BY <1>4
  <2> QED
    BY <2>1, <2>2, <2>3, <2>4, <2>5
<1>10. ASSUME NEW i \in k + 2 .. 2 * k + 1 PROVE c[i] = b[n - 2 * k - 1 + i]
  <2>1. i - (k + 1) \in 1 .. k /\ n - k + (i - (k + 1)) = n - 2 * k - 1 + i
    BY <1>1 DEF n
  <2>2. c[i] = tail[i - (k + 1)]
    BY <1>2, <1>3, <1>4, <1>6, <1>7
  <2> QED
    BY <1>3, <2>1, <2>2
<1> QED
  BY <1>7, <1>9, <1>10, <1>8 DEF c, front, head, mark, tail, n

(* A pass keeps the ends: what it drops is around the old mark.            *)
LEMMA PassCuts ==
  ASSUME Cut, C!Pass
  PROVE  Cut'
<1>1. PICK n, k, e : n = Len(body) /\ k = C!Keep(n) /\ e = -(n - 2 * k)
  OBVIOUS
<1>2. /\ phase = "cutting" /\ n > 8 /\ lines' = lines
      /\ phase' = IF n - 2 * k <= 0 THEN "done" ELSE phase
  BY <1>1 DEF C!Pass, C!TooLong
<1>3. body' = SubSeq(body, 1, k) \o <<e>> \o SubSeq(body, Len(body) - k + 1, Len(body))
  BY <1>1 DEF C!Pass
<1>4. body \in Seq(Int) /\ lines \in Nat /\ n \in Nat /\ n >= 9
  BY <1>1, <1>2 DEF Cut
<1>5. k \in Nat /\ k >= 4 /\ 2 * k + 1 <= n
  BY <1>1, <1>4 DEF C!Keep
<1>6. e \in Int /\ e < 0
  <2>1. e = -(n - 2 * k)
    BY <1>1
  <2> QED
    BY <1>4, <1>5, <2>1
<1>7. phase' = "cutting"
  BY <1>2, <1>4, <1>5
<1>8. /\ body' \in Seq(Int) /\ Len(body') = 2 * k + 1
      /\ \A i \in 1 .. k : body'[i] = body[i]
      /\ body'[k + 1] = e
      /\ \A i \in k + 2 .. 2 * k + 1 : body'[i] = body[n - 2 * k - 1 + i]
  <2>1. k > 0 /\ 2 * k + 1 <= Len(body) /\ n = Len(body)
    BY <1>1, <1>5
  <2> DEFINE c == SubSeq(body, 1, k) \o <<e>> \o SubSeq(body, Len(body) - k + 1, Len(body))
  <2>2. /\ c \in Seq(Int) /\ Len(c) = 2 * k + 1
        /\ \A i \in 1 .. k : c[i] = body[i]
        /\ c[k + 1] = e
        /\ \A i \in k + 2 .. 2 * k + 1 : c[i] = body[Len(body) - 2 * k - 1 + i]
    BY <1>4, <1>5, <1>6, <2>1, Ends
  <2>3. body' = c
    BY <1>3
  <2> HIDE DEF c
  <2> QED
    BY <2>1, <2>2, <2>3
<1>9. /\ n <= lines
      /\ \A i \in 1 .. k : body[i] = i
      /\ \A i \in k + 2 .. 2 * k + 1 : body[n - 2 * k - 1 + i] = lines - 2 * k - 1 + i
  <2>1. CASE Whole
    <3>1. n = lines /\ \A i \in 1 .. n : body[i] = i
      BY <1>1, <2>1 DEF Whole
    <3>2. \A i \in k + 2 .. 2 * k + 1 : n - 2 * k - 1 + i \in 1 .. n
      BY <1>4, <1>5
    <3> QED
      BY <1>4, <1>5, <3>1, <3>2
  <2>2. CASE \E j \in Nat : Gap(j)
    <3>1. PICK j \in Nat : Gap(j)
      BY <2>2
    <3>2. /\ j >= 4 /\ n = 2 * j + 1 /\ n <= lines
          /\ \A i \in 1 .. j : body[i] = i
          /\ \A i \in j + 2 .. n : body[i] = lines - n + i
      BY <1>1, <3>1 DEF Gap
    <3>3. k <= j
      BY <1>4, <1>5, <3>2
    <3>4. \A i \in k + 2 .. 2 * k + 1 : /\ n - 2 * k - 1 + i \in j + 2 .. n
                                        /\ lines - n + (n - 2 * k - 1 + i) = lines - 2 * k - 1 + i
      BY <1>4, <1>5, <3>2, <3>3
    <3> QED
      BY <1>4, <1>5, <3>2, <3>3, <3>4
  <2> QED
    BY <2>1, <2>2 DEF Cut
<1>10. Gap(k)'
  <2>1. Len(body') <= lines'
    BY <1>2, <1>4, <1>5, <1>8, <1>9
  <2>2. \A i \in k + 2 .. 2 * k + 1 : body'[i] = lines' - Len(body') + i
    <3>1. \A i \in k + 2 .. 2 * k + 1 : lines - (2 * k + 1) + i = lines - 2 * k - 1 + i
      BY <1>4, <1>5
    <3> QED
      BY <1>2, <1>8, <1>9, <3>1
  <2> QED
    BY <1>5, <1>6, <1>8, <1>9, <2>1, <2>2 DEF Gap
<1> QED
  BY <1>2, <1>4, <1>5, <1>7, <1>8, <1>10 DEF Cut

(* Cutting goes on until the text fits, or has nothing left to cut.        *)
LEMMA CutStep ==
  ASSUME Cut, C!Next
  PROVE  Cut'
<1>1. CASE C!Fits
  <2>1. UNCHANGED <<body, lines, header, cost>> /\ ~C!TooLong
    BY <1>1 DEF C!Fits
  <2> QED
    BY <2>1, LengthStays DEF Cut, Whole, Gap
<1> QED
  BY <1>1, PassCuts DEF C!Next

(* A cut text has both ends, in order, one gap, and its budget.            *)
LEMMA CutHolds ==
  ASSUME Cut
  PROVE  C!KeepsEnds /\ C!CutToBudget
<1>1. body \in Seq(Int) /\ Len(body) \in Nat /\ DOMAIN body = 1 .. Len(body) /\ lines \in Nat
  BY DEF Cut
<1>2. C!CutToBudget
  BY <1>1 DEF Cut, C!CutToBudget, C!TooLong
<1>3. \A e : e \in C!ToSet(body) <=> \E i \in 1 .. Len(body) : e = body[i]
  BY <1>1 DEF C!ToSet
<1>4. CASE Whole
  <2>1. \A i \in 1 .. 4 : i <= lines => {i, lines + 1 - i} \subseteq C!ToSet(body)
    BY <1>1, <1>3, <1>4 DEF Whole
  <2> QED
    BY <1>1, <1>2, <1>4, <2>1 DEF Whole, C!KeepsEnds
<1>5. CASE \E k \in Nat : Gap(k)
  <2>1. PICK k \in Nat : Gap(k)
    BY <1>5
  <2>2. ASSUME NEW i \in 1 .. 4, i <= lines PROVE {i, lines + 1 - i} \subseteq C!ToSet(body)
    <3>1. i \in 1 .. k /\ Len(body) + 1 - i \in k + 2 .. Len(body)
      BY <1>1, <2>1 DEF Gap
    <3>2. body[i] = i /\ body[Len(body) + 1 - i] = lines + 1 - i
      BY <1>1, <2>1, <3>1 DEF Gap
    <3>3. i \in 1 .. Len(body) /\ Len(body) + 1 - i \in 1 .. Len(body)
      BY <1>1, <2>1, <3>1 DEF Gap
    <3> QED
      BY <1>3, <3>2, <3>3
  <2>3. \A i \in 1 .. Len(body) : \/ i <= k /\ body[i] = i
                                  \/ i = k + 1 /\ body[i] < 0
                                  \/ i > k + 1 /\ body[i] = lines - Len(body) + i
    BY <1>1, <2>1 DEF Gap
  <2>4. Len(body) = 2 * k + 1 /\ Len(body) <= lines
    BY <2>1 DEF Gap
  <2>5. \A i, j \in DOMAIN body : i < j /\ body[i] > 0 /\ body[j] > 0 => body[i] < body[j]
    <3> SUFFICES ASSUME NEW i \in 1 .. Len(body), NEW j \in 1 .. Len(body),
                        i < j, body[i] > 0, body[j] > 0
                 PROVE  body[i] < body[j]
      BY <1>1
    <3>1. i # k + 1 /\ j # k + 1
      BY <1>1, <2>1 DEF Gap
    <3>2. CASE i <= k /\ j <= k
      BY <1>1, <2>3, <3>2
    <3>3. CASE i <= k /\ j > k + 1
      BY <1>1, <2>3, <2>4, <3>3
    <3>4. CASE i > k + 1 /\ j > k + 1
      BY <1>1, <2>3, <2>4, <3>4
    <3> QED
      BY <1>1, <3>1, <3>2, <3>3, <3>4
  <2>6. \A i \in 1 .. Len(body) - 1 : body[i] > 0 /\ body[i + 1] > 0 => body[i + 1] = body[i] + 1
    BY <1>1, <2>3, <2>4
  <2>7. \A i, j \in DOMAIN body : body[i] < 0 /\ body[j] < 0 => i = j
    BY <1>1, <2>3, <2>4
  <2> QED
    BY <1>2, <2>2, <2>5, <2>6, <2>7 DEF C!KeepsEnds
<1> QED
  BY <1>4, <1>5 DEF Cut
-----------------------------------------------------------------------------
(* Stats: verdicts and their costs.                                        *)
Counted ==
    /\ tag \subseteq Items /\ status \in [Items -> {"running"} \cup S!Ends]
    /\ billed \in [Items -> Nat \cup {S!Nothing}] /\ seen \in [Items -> Nat \cup {S!Nothing}]
    /\ stat \in [attempts : Nat, successes : Nat, mean : Nat \cup {S!Nothing}]
    /\ S!CountedOnce /\ S!MeanAmongCosts

(* A mean that moves by a part of the distance to a value stays on its way. *)
LEMMA Between ==
  ASSUME NEW a \in Int, NEW v \in Int, NEW n \in Nat, n > 0
  PROVE  LET m == a + (v - a) \div n
         IN  /\ m \in Int
             /\ a <= v => a <= m /\ m <= v
             /\ v <= a => v <= m /\ m <= a
<1> DEFINE x == v - a  q == x \div n
<1>1. x \in Int /\ q \in Int
  OBVIOUS
<1>2. n * q <= x /\ x < n * q + n
  OBVIOUS
<1> HIDE DEF q
<1>3. ASSUME 0 <= x PROVE 0 <= q /\ q <= x
  <2>1. 0 <= q
    <3> SUFFICES ASSUME q <= -1 PROVE FALSE
      BY <1>1
    <3>1. n * q <= n * (-1)
      BY <1>1
    <3> QED
      BY <1>1, <1>2, <1>3, <3>1
  <2>2. q <= n * q
    BY <1>1, <2>1
  <2> QED
    BY <1>1, <1>2, <2>1, <2>2
<1>4. ASSUME x <= 0 PROVE x <= q /\ q <= 0
  <2>1. q <= 0
    <3> SUFFICES ASSUME q >= 1 PROVE FALSE
      BY <1>1
    <3>1. n * q >= n
      BY <1>1
    <3> QED
      BY <1>1, <1>2, <1>4, <3>1
  <2>2. x <= q
    <3> SUFFICES ASSUME q + 1 <= x PROVE FALSE
      BY <1>1
    <3>1. q + 1 <= 0
      BY <1>1, <1>4
    <3>2. n * (q + 1) <= q + 1
      BY <1>1, <3>1
    <3>3. n * (q + 1) = n * q + n
      BY <1>1
    <3> QED
      BY <1>1, <1>2, <3>2, <3>3
  <2> QED
    BY <2>1, <2>2
<1> QED
  BY <1>1, <1>3, <1>4 DEF q

(* The mean of one more cost lies among the costs.                         *)
LEMMA MeanStays ==
  ASSUME Counted, NEW i \in tag, NEW how \in S!Observed, i \notin S!Verdicts,
         stat' = S!Fold(stat, how, billed[i]), seen' = [seen EXCEPT ![i] = billed[i]],
         S!Verdicts' = S!Verdicts \cup {i}
  PROVE  stat'.mean \in Nat \cup {S!Nothing} /\ S!MeanAmongCosts'
<1> DEFINE v == billed[i]  a == stat.mean  n == stat.attempts + 1
<1>1. /\ i \in Items /\ v \in Nat \cup {S!Nothing} /\ a \in Nat \cup {S!Nothing} /\ n \in Nat /\ n > 0
      /\ S!Nothing = -1
  BY DEF Counted, S!Nothing
<1>2. stat'.mean = S!RunningMean(a, n, v)
  BY DEF S!Fold
<1>3. seen'[i] = v /\ \A j \in Items : j # i => seen'[j] = seen[j]
  BY <1>1 DEF Counted
<1>4. S!Measured' = IF v = S!Nothing THEN S!Measured ELSE S!Measured \cup {i}
  <2>1. \A j \in S!Verdicts : j \in Items /\ j # i
    BY DEF Counted, S!Verdicts
  <2>2. \A j : j \in S!Measured' <=> j \in S!Verdicts \cup {i} /\ seen'[j] # S!Nothing
    BY DEF S!Measured
  <2>3. \A j : j \in S!Measured <=> j \in S!Verdicts /\ seen[j] # S!Nothing
    BY DEF S!Measured
  <2> QED
    BY <1>3, <2>1, <2>2, <2>3
<1>5. \A j \in S!Measured : j \in Items /\ seen'[j] = seen[j] /\ seen[j] \in Nat
  <2>1. \A j \in S!Measured : j \in S!Verdicts /\ seen[j] # S!Nothing
    BY DEF S!Measured
  <2>2. \A j \in S!Verdicts : j \in Items /\ j # i
    BY DEF Counted, S!Verdicts
  <2> QED
    BY <1>3, <2>1, <2>2 DEF Counted
<1>6. /\ (a = S!Nothing) = (S!Measured = {})
      /\ S!Measured # {} => (\E j \in S!Measured : seen[j] <= a) /\ (\E j \in S!Measured : a <= seen[j])
  BY DEF Counted, S!MeanAmongCosts
<1> HIDE DEF v, a, n
<1>7. CASE v = S!Nothing
  <2>1. stat'.mean = a /\ S!Measured' = S!Measured
    BY <1>2, <1>4, <1>7 DEF S!RunningMean
  <2> QED
    BY <1>1, <1>5, <1>6, <2>1 DEF S!MeanAmongCosts
<1>8. CASE v # S!Nothing /\ a = S!Nothing
  <2>1. stat'.mean = v /\ S!Measured' = {i}
    BY <1>2, <1>4, <1>6, <1>8 DEF S!RunningMean
  <2> QED
    BY <1>1, <1>3, <1>8, <2>1 DEF S!MeanAmongCosts
<1>9. CASE v # S!Nothing /\ a # S!Nothing
  <2> DEFINE m == a + (v - a) \div n
  <2>1. stat'.mean = m /\ S!Measured' = S!Measured \cup {i}
    BY <1>2, <1>4, <1>9 DEF S!RunningMean
  <2>2. v \in Nat /\ a \in Nat
    BY <1>1, <1>9
  <2>3. m \in Int /\ (a <= v => a <= m /\ m <= v) /\ (v <= a => v <= m /\ m <= a)
    BY <1>1, <2>2, Between
  <2> HIDE DEF m
  <2>4. m \in Nat /\ m # S!Nothing
    BY <1>1, <2>2, <2>3
  <2>5. \E j \in S!Measured' : seen'[j] <= m
    <3>1. CASE a <= v
      <4>1. PICK j \in S!Measured : seen[j] <= a
        BY <1>6, <1>9
      <4>2. j \in S!Measured' /\ seen'[j] <= m
        BY <1>5, <2>1, <2>2, <2>3, <3>1, <4>1
      <4> QED
        BY <4>2
    <3>2. CASE v <= a
      BY <1>3, <2>1, <2>3, <3>2
    <3> QED
      BY <2>2, <3>1, <3>2
  <2>6. \E j \in S!Measured' : m <= seen'[j]
    <3>1. CASE v <= a
      <4>1. PICK j \in S!Measured : a <= seen[j]
        BY <1>6, <1>9
      <4>2. j \in S!Measured' /\ m <= seen'[j]
        BY <1>5, <2>1, <2>2, <2>3, <3>1, <4>1
      <4> QED
        BY <4>2
    <3>2. CASE a <= v
      BY <1>3, <2>1, <2>3, <3>2
    <3> QED
      BY <2>2, <3>1, <3>2
  <2> QED
    BY <2>1, <2>4, <2>5, <2>6 DEF S!MeanAmongCosts
<1> QED
  BY <1>7, <1>8, <1>9

(* The record counts as everybody does.                                    *)
LEMMA SameCount ==
  ASSUME NEW T
  PROVE  S!Cardinality(T) = Cardinality(T) /\ S!IsFiniteSet(T) = IsFiniteSet(T)
<1>1. S!IsFiniteSet(T) = IsFiniteSet(T)
  BY DEF S!IsFiniteSet, IsFiniteSet
<1>2. S!Cardinality(T) = Cardinality(T)
  BY DEF S!Cardinality, Cardinality
<1> QED
  BY <1>1, <1>2

(* One more verdict is counted, once.                                      *)
LEMMA CountStays ==
  ASSUME Counted, NEW i \in tag, NEW how \in S!Observed, status[i] = "running",
         status' = [status EXCEPT ![i] = how], tag' = tag, stat' = S!Fold(stat, how, billed[i])
  PROVE  /\ i \notin S!Verdicts /\ S!Verdicts' = S!Verdicts \cup {i}
         /\ S!CountedOnce' /\ stat'.attempts \in Nat /\ stat'.successes \in Nat
<1> DEFINE won == {j \in S!Verdicts : status[j] = "succeeded"}
           won2 == {j \in S!Verdicts' : status'[j] = "succeeded"}
<1>1. i \in Items /\ status'[i] = how /\ \A j \in Items : j # i => status'[j] = status[j]
  BY DEF Counted
<1>2. i \notin S!Verdicts
  BY DEF S!Verdicts, S!Observed, S!Ends
<1>3. S!Verdicts' = S!Verdicts \cup {i}
  <2>1. \A j : j \in S!Verdicts' <=> j \in tag /\ status'[j] \in S!Observed
    BY DEF S!Verdicts
  <2>2. \A j : j \in S!Verdicts <=> j \in tag /\ status[j] \in S!Observed
    BY DEF S!Verdicts
  <2>3. \A j \in tag : j \in Items
    BY DEF Counted
  <2> QED
    BY <1>1, <2>1, <2>2, <2>3
<1>4. IsFiniteSet(S!Verdicts) /\ IsFiniteSet(won)
  <2>1. S!Verdicts \subseteq Items /\ won \subseteq Items /\ IsFiniteSet(Items)
    <3>1. S!IsFiniteSet(Items)
      BY PartsAssumption DEF S!StatsAssumption
    <3> QED
      BY <3>1, SameCount DEF Counted, S!Verdicts
  <2> QED
    BY <2>1, FS_Subset
<1>5. Cardinality(S!Verdicts') = Cardinality(S!Verdicts) + 1
  BY <1>2, <1>3, <1>4, FS_AddElement
<1>6. Cardinality(won2) = Cardinality(won) + (IF how = "succeeded" THEN 1 ELSE 0)
  <2>1. \A j \in S!Verdicts : j \in Items /\ j # i
    BY <1>2 DEF Counted, S!Verdicts
  <2>2. i \notin won /\ won2 = IF how = "succeeded" THEN won \cup {i} ELSE won
    BY <1>1, <1>2, <1>3, <2>1
  <2> HIDE DEF won, won2
  <2>3. Cardinality(won) \in Nat
    BY <1>4, FS_CardinalityType
  <2>4. CASE how = "succeeded"
    BY <1>4, <2>2, <2>4, FS_AddElement
  <2>5. CASE how # "succeeded"
    BY <2>2, <2>3, <2>5
  <2> QED
    BY <2>4, <2>5
<1>7. stat'.attempts = stat.attempts + 1 /\ stat'.successes = stat.successes + (IF how = "succeeded" THEN 1 ELSE 0)
  BY DEF S!Fold
<1>8. /\ stat.attempts = Cardinality(S!Verdicts) /\ stat.successes = Cardinality(won)
      /\ stat.attempts \in Nat /\ stat.successes \in Nat
  BY SameCount DEF Counted, S!CountedOnce
<1>9. S!CountedOnce'
  BY SameCount, <1>5, <1>6, <1>7, <1>8 DEF S!CountedOnce
<1> QED
  BY <1>2, <1>3, <1>7, <1>8, <1>9

(* Every step of the record keeps the count and the mean.                  *)
LEMMA CountedStep ==
  ASSUME Counted, S!Next
  PROVE  Counted'
<1>1. PICK i \in Items : S!Calls(i) \/ S!CallEnds(i) \/ \E how \in S!Ends : S!ItemEnds(i, how)
  BY DEF S!Next
<1>2. CASE UNCHANGED <<tag, status, stat, seen>> /\ billed' \in [Items -> Nat \cup {S!Nothing}]
  BY <1>2 DEF Counted, S!CountedOnce, S!MeanAmongCosts, S!Verdicts, S!Measured
<1>3. CASE S!Calls(i)
  BY <1>2, <1>3 DEF S!Calls, Counted
<1>4. CASE S!CallEnds(i)
  <2>1. PICK c \in Costs : billed' = [billed EXCEPT ![i] = c + (IF billed[i] = S!Nothing THEN 0 ELSE billed[i])]
    BY <1>4 DEF S!CallEnds
  <2>2. c \in Nat /\ billed[i] \in Nat \cup {S!Nothing}
    BY PartsAssumption DEF S!StatsAssumption, Counted
  <2>3. c + (IF billed[i] = S!Nothing THEN 0 ELSE billed[i]) \in Nat
    BY <2>2
  <2>4. billed' \in [Items -> Nat \cup {S!Nothing}]
    BY <2>1, <2>3 DEF Counted
  <2> QED
    BY <1>2, <1>4, <2>4 DEF S!CallEnds
<1>5. ASSUME NEW how \in S!Ends, S!ItemEnds(i, how) PROVE Counted'
  <2>1. /\ status[i] = "running" /\ status' = [status EXCEPT ![i] = how] /\ UNCHANGED <<tag, flying, billed>>
    BY <1>5 DEF S!ItemEnds
  <2>2. status' \in [Items -> {"running"} \cup S!Ends]
    BY <2>1 DEF Counted
  <2>3. CASE i \in tag /\ how \in S!Observed
    <3>1. stat' = S!Fold(stat, how, billed[i]) /\ seen' = [seen EXCEPT ![i] = billed[i]]
      BY <1>5, <2>3 DEF S!ItemEnds
    <3>2. /\ i \notin S!Verdicts /\ S!Verdicts' = S!Verdicts \cup {i}
          /\ S!CountedOnce' /\ stat'.attempts \in Nat /\ stat'.successes \in Nat
      BY <2>1, <2>3, <3>1, CountStays
    <3>3. stat'.mean \in Nat \cup {S!Nothing} /\ S!MeanAmongCosts'
      BY <2>3, <3>1, <3>2, MeanStays
    <3>4. seen' \in [Items -> Nat \cup {S!Nothing}]
      BY <3>1 DEF Counted
    <3>5. stat' = [attempts |-> stat'.attempts, successes |-> stat'.successes, mean |-> stat'.mean]
      BY <3>1 DEF S!Fold
    <3>6. stat' \in [attempts : Nat, successes : Nat, mean : Nat \cup {S!Nothing}]
      BY <3>2, <3>3, <3>5
    <3> QED
      BY <2>1, <2>2, <3>2, <3>3, <3>4, <3>6 DEF Counted
  <2>4. CASE ~(i \in tag /\ how \in S!Observed)
    <3>1. UNCHANGED <<stat, seen>>
      BY <1>5, <2>4 DEF S!ItemEnds
    <3>2. status'[i] = how /\ \A j \in Items : j # i => status'[j] = status[j]
      BY <2>1 DEF Counted
    <3>3. \A j \in tag : j \in Items /\ (status'[j] = status[j] \/ (j = i /\ how \notin S!Observed))
      BY <2>4, <3>2 DEF Counted
    <3>4. "running" \notin S!Observed
      BY DEF S!Observed, S!Ends
    <3>5. S!Verdicts' = S!Verdicts
      BY <2>1, <3>2, <3>3, <3>4 DEF S!Verdicts
    <3>6. \A j \in S!Verdicts : status'[j] = status[j]
      BY <2>1, <3>3, <3>4 DEF S!Verdicts
    <3>7. {j \in S!Verdicts' : status'[j] = "succeeded"} = {j \in S!Verdicts : status[j] = "succeeded"}
      BY <3>5, <3>6
    <3>8. S!CountedOnce'
      BY <3>1, <3>5, <3>7 DEF Counted, S!CountedOnce
    <3>9. S!Measured' = S!Measured
      BY <3>1, <3>5 DEF S!Measured
    <3>10. S!MeanAmongCosts'
      BY <3>1, <3>9 DEF Counted, S!MeanAmongCosts
    <3> QED
      BY <2>1, <2>2, <3>1, <3>8, <3>10 DEF Counted
  <2> QED
    BY <2>3, <2>4
<1> QED
  BY <1>1, <1>3, <1>4, <1>5
-----------------------------------------------------------------------------
(* The library as a whole.                                                 *)
IInv == Queue /\ Store /\ Records /\ Cut /\ Counted

(* The parts that are at rest stay what they are.                          *)
LEMMA MemoryRests == ASSUME Queue, Store, UNCHANGED memory PROVE Queue' /\ Store'
<1>1. UNCHANGED <<kind, tree, index, projects, of, ended, chain, job, scope, up, approved, edits, edited>>
  BY DEF memory
<1>2. Queue'
  BY <1>1 DEF Queue
<1>3. Store'
  BY <1>1 DEF Store, Vetted, M!IndexFollowsTree
<1> QED
  BY <1>2, <1>3

(* ... with every row, card and command as it was.                         *)
LEMMA RegistryRests == ASSUME Records, UNCHANGED registry PROVE Records'
<1>1. UNCHANGED <<config, catalog, typed, corrected, rows, cards, bundle, asking, leaving, held, todo, cmd,
                  since, chosen>>
  BY DEF registry
<1>2. Shaped' /\ Holds'
  BY <1>1 DEF Records, Shaped, Holds, Fresh, R!Merged, R!NoRow
<1>3. Rows' /\ Cards'
  BY <1>1 DEF Records, Rows, RowStands, Cards, CardStands, R!Known, R!NoRow, R!NoCard
<1> QED
  BY <1>2, <1>3 DEF Records

(* ... with the text as short as it was.                                   *)
LEMMA TranscriptRests == ASSUME Cut, UNCHANGED transcript PROVE Cut'
BY LengthStays DEF transcript, Cut, Whole, Gap

(* ... with its count and its mean.                                        *)
LEMMA StatsRest == ASSUME Counted, UNCHANGED stats PROVE Counted'
BY DEF stats, Counted, S!CountedOnce, S!MeanAmongCosts, S!Verdicts, S!Measured

(* At the start there is nothing: no file, no row, no verdict, and all of   *)
(* the log.                                                                *)
LEMMA Begins == Init => IInv
<1> SUFFICES ASSUME Init PROVE IInv
  OBVIOUS
<1>1. Queue
  <2>1. <<>> \in Seq(Tasks) /\ Len(<<>>) = 0
    BY EmptySeq
  <2> QED
    BY <2>1 DEF Init, M!Init, Queue
<1>2. Store
  <2>1. \A p \in M!Places : tree[p] \notin M!File
    BY NoFileIsNone DEF Init, M!Init
  <2>2. tree \in Trees /\ index = {}
    BY DEF Init, M!Init, Trees
  <2>3. M!Scan(tree) = {}
    BY <2>1 DEF M!Scan
  <2> QED
    BY <2>1, <2>2, <2>3 DEF Init, M!Init, Store, OneEach, Vetted, M!IndexFollowsTree
<1>3. Records
  <2>1. Shaped
    BY DEF Init, R!Init, Shaped, RowSet, CardSet, Knowledge
  <2>2. Holds
    BY DEF Init, R!Init, Holds
  <2>3. Rows /\ Cards
    BY NoneIsNone DEF Init, R!Init, Rows, RowStands, Cards, CardStands, R!Known
  <2> QED
    BY <2>1, <2>2, <2>3 DEF Records
<1>4. Cut
  <2>1. lines \in Nat /\ body = [i \in 1 .. lines |-> i] /\ phase = "cutting"
    BY PartsAssumption DEF Init, C!Init, C!CondenseAssumption
  <2>2. body \in Seq(Int) /\ Len(body) = lines /\ \A i \in 1 .. Len(body) : body[i] = i
    BY <2>1
  <2> QED
    BY <2>1, <2>2 DEF Cut, Whole
<1>5. Counted
  <2>1. /\ tag \subseteq Items /\ status = [i \in Items |-> "running"] /\ billed = [i \in Items |-> S!Nothing]
        /\ stat = [attempts |-> 0, successes |-> 0, mean |-> S!Nothing] /\ seen = [i \in Items |-> S!Nothing]
    BY DEF Init, S!Init
  <2>2. S!Verdicts = {} /\ S!Measured = {}
    BY <2>1 DEF S!Verdicts, S!Measured, S!Observed, S!Ends
  <2>3. S!CountedOnce
    <3>1. Cardinality({}) = 0
      BY FS_EmptySet
    <3>2. {i \in S!Verdicts : status[i] = "succeeded"} = {}
      BY <2>2
    <3> QED
      BY <2>1, <2>2, <3>1, <3>2, SameCount DEF S!CountedOnce
  <2>4. S!MeanAmongCosts
    BY <2>1, <2>2 DEF S!MeanAmongCosts
  <2> QED
    BY <2>1, <2>3, <2>4 DEF Counted
<1> QED
  BY <1>1, <1>2, <1>3, <1>4, <1>5 DEF IInv

(* Each part keeps its own, and touches no other's.                        *)
LEMMA Keeps == IInv /\ [Next]_vars => IInv'
<1> SUFFICES ASSUME IInv, [Next]_vars PROVE IInv'
  OBVIOUS
<1>1. CASE M!Next /\ UNCHANGED <<part, transcript, registry, stats>>
  BY <1>1, QueueStep, StoreStep, RegistryRests, TranscriptRests, StatsRest DEF IInv
<1>2. CASE C!Next /\ UNCHANGED <<part, memory, registry, stats>>
  BY <1>2, CutStep, MemoryRests, RegistryRests, StatsRest DEF IInv
<1>3. CASE R!Next /\ UNCHANGED <<part, memory, transcript, stats>>
  BY <1>3, RecordsStep, MemoryRests, TranscriptRests, StatsRest DEF IInv
<1>4. CASE S!Next /\ UNCHANGED <<part, memory, transcript, registry>>
  BY <1>4, CountedStep, MemoryRests, RegistryRests, TranscriptRests DEF IInv
<1>5. CASE UNCHANGED vars
  BY <1>5, MemoryRests, RegistryRests, TranscriptRests, StatsRest DEF IInv, vars
<1> QED
  BY <1>1, <1>2, <1>3, <1>4, <1>5 DEF Next

(* The invariant of the four parts holds in every state.                   *)
THEOREM Invariance == Spec => []IInv
BY Begins, Keeps, PTL DEF Spec

(* No draft of a model reaches a task before a human approved it, a task    *)
(* sees one file for a name and none of another project, and the index says *)
(* what the files say, whatever crash, hand edit or race comes between.     *)
THEOREM OnlyApproved == Spec => []OnlyApprovedIsSeen
<1>1. IInv => OnlyApprovedIsSeen
  BY MemoryHolds, RecordsHold DEF IInv, OnlyApprovedIsSeen, TypeOK
<1> QED
  BY <1>1, Invariance, PTL

(* What a human said of a model stands, against a catalog, a regeneration   *)
(* and an import, and no model is on that nobody switched on.               *)
THEOREM HumansWordStands == Spec => []HumansWord
<1>1. IInv => HumansWord
  BY RecordsHold DEF IInv, HumansWord
<1> QED
  BY <1>1, Invariance, PTL

(* A shortened transcript has both ends, one marked gap and its budget, and *)
(* every verdict is counted once, its cost in a mean among the costs.       *)
THEOREM DerivedTruly == Spec => []DerivedIsTrue
<1>1. IInv => DerivedIsTrue
  BY CutHolds DEF IInv, DerivedIsTrue, Counted
<1> QED
  BY <1>1, Invariance, PTL

(* A draft under review is not written over, an approved file goes only for *)
(* the draft that replaces it, and a model only by a human's hand.          *)
THEOREM NothingIsLost == Spec => NothingLost
<1>1. IInv /\ [Next]_vars =>
        [\A s \in Slugs : LET p == <<"pending", s>> IN
            M!Exists(p) /\ tree'[p] # tree[p] => tree'[p] = M!Absent \/ tree'[p].by = M!Owner]_(M!vars)
  <2> SUFFICES ASSUME IInv, [Next]_vars, ~UNCHANGED M!vars, NEW s \in Slugs,
                      M!Exists(<<"pending", s>>), tree'[<<"pending", s>>] # tree[<<"pending", s>>]
               PROVE  tree'[<<"pending", s>>] = M!Absent \/ tree'[<<"pending", s>>].by = M!Owner
    OBVIOUS
  <2>1. M!Next
    BY DEF Next, vars, memory, M!vars
  <2> QED
    BY <2>1, DraftsStay DEF IInv
<1>2. IInv /\ [Next]_vars =>
        [\A p \in M!Places :
            p[1] # "pending" /\ M!Exists(p) /\ tree'[p] # tree[p] /\ edits' = edits
            => LET draft == tree[<<"pending", p[2]>>] IN
               draft \in M!File /\ draft \in {tree'[p], tree'[<<"pending", p[2]>>]}]_(M!vars)
  <2> SUFFICES ASSUME IInv, [Next]_vars, ~UNCHANGED M!vars, NEW p \in M!Places,
                      p[1] # "pending", M!Exists(p), tree'[p] # tree[p], edits' = edits
               PROVE  LET draft == tree[<<"pending", p[2]>>] IN
                      draft \in M!File /\ draft \in {tree'[p], tree'[<<"pending", p[2]>>]}
    OBVIOUS
  <2>1. M!Next
    BY DEF Next, vars, memory, M!vars
  <2> QED
    BY <2>1, ApprovedStay DEF IInv
<1>3. IInv /\ [Next]_vars =>
        [\A m \in Models : R!Known(m) /\ leaving # m => rows'[m] # R!NoRow]_(R!vars)
  <2> SUFFICES ASSUME IInv, [Next]_vars, ~UNCHANGED R!vars, NEW m \in Models, R!Known(m), leaving # m
               PROVE  rows'[m] # R!NoRow
    OBVIOUS
  <2>1. R!Next
    BY DEF Next, vars, registry, R!vars, R!command, R!human
  <2> QED
    BY <2>1, ModelsStay DEF IInv
<1> QED
  BY <1>1, <1>2, <1>3, Invariance, PTL DEF Spec, NothingLost, M!DraftKept, M!ApprovedKept, R!NothingLost
=============================================================================
