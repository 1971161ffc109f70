---------------------------- MODULE DeskProofs ----------------------------
(***************************************************************************)
(* Proofs about Desk, for every set of models, files, workers, projects and *)
(* lines and every bound.                                                  *)
(*                                                                         *)
(* Each part has an inductive invariant of its own: how many calls a        *)
(* stray command stands for (FilesInv), what the latch and a note mean     *)
(* (BudgetInv), which request for figures is cared for (PagesInv), what a  *)
(* form and its requests know of the row (EditorsInv), what a task took    *)
(* from its project (RequestsInv) and where each line of a chat is, in     *)
(* order (ChatInv).  The parts share no state, so a step of                *)
(* the desk is a step of the part that moves and keeps that part's         *)
(* invariant (DeskInv).                                                    *)
(***************************************************************************)
EXTENDS Desk, FiniteSetTheorems, SequenceTheorems, TLAPS

(* The modules of the parts count as this one does.                        *)
LEMMA Counting ==
  ASSUME NEW S
  PROVE  /\ F!Cardinality(S) = Cardinality(S) /\ (F!IsFiniteSet(S) <=> IsFiniteSet(S))
         /\ P!Cardinality(S) = Cardinality(S)
<1>1. F!Cardinality(S) = Cardinality(S)
  BY DEF F!Cardinality, Cardinality
<1>2. F!IsFiniteSet(S) <=> IsFiniteSet(S)
  BY DEF F!IsFiniteSet, IsFiniteSet
<1>3. P!Cardinality(S) = Cardinality(S)
  BY DEF P!Cardinality, Cardinality
<1> QED
  BY <1>1, <1>2, <1>3

(* What is left of a sequence without its i-th element.                    *)
LEMMA RemovedParts ==
  ASSUME NEW S, NEW s \in Seq(S), NEW i \in 1..Len(s)
  PROVE  LET t == SubSeq(s, 1, i - 1) \o SubSeq(s, i + 1, Len(s))
         IN  /\ t \in Seq(S) /\ Len(t) = Len(s) - 1
             /\ \A j \in 1..i - 1 : t[j] = s[j]
             /\ \A j \in i..Len(s) - 1 : t[j] = s[j + 1]
<1> DEFINE a == SubSeq(s, 1, i - 1)
           b == SubSeq(s, i + 1, Len(s))
           t == a \o b
<1>1. /\ a \in Seq(S) /\ Len(a) = i - 1 /\ \A j \in 1..i - 1 : a[j] = s[j]
  <2>1. CASE i = 1
    <3>1. a = <<>>
      BY <2>1, SubSeqProperties
    <3> QED
      BY <2>1, <3>1
  <2>2. CASE i > 1
    BY <2>2, SubSeqProperties
  <2> QED
    BY <2>1, <2>2
<1>2. /\ b \in Seq(S) /\ Len(b) = Len(s) - i /\ \A j \in 1..Len(s) - i : b[j] = s[j + i]
  <2>1. CASE i = Len(s)
    <3>1. b = <<>>
      BY <2>1, SubSeqProperties
    <3> QED
      BY <2>1, <3>1
  <2>2. CASE i < Len(s)
    BY <2>2, SubSeqProperties
  <2> QED
    BY <2>1, <2>2
<1> HIDE DEF a, b
<1>3. t \in Seq(S) /\ Len(t) = Len(s) - 1
  <2>1. a \in Seq(S) /\ b \in Seq(S)
    BY <1>1, <1>2
  <2>2. t \in Seq(S) /\ Len(t) = Len(a) + Len(b)
    BY <2>1
  <2>3. Len(s) \in Nat /\ Len(a) = i - 1 /\ Len(b) = Len(s) - i
    BY <1>1, <1>2
  <2>4. Len(a) + Len(b) = Len(s) - 1
    BY <2>3
  <2> HIDE DEF t
  <2> QED
    BY <2>2, <2>4
<1>4. \A j \in 1..i - 1 : t[j] = s[j]
  BY <1>1, <1>2
<1>5. ASSUME NEW j \in i..Len(s) - 1 PROVE t[j] = s[j + 1]
  <2>1. t[j] = b[j - (i - 1)]
    BY <1>1, <1>2
  <2>2. j - (i - 1) \in 1..Len(s) - i /\ j - (i - 1) + i = j + 1
    OBVIOUS
  <2> QED
    BY <1>2, <2>1, <2>2
<1> QED
  BY <1>3, <1>4, <1>5 DEF t, a, b

(* An element of a sequence is at one of its places.                       *)
LEMMA Elements ==
  ASSUME NEW S, NEW s \in Seq(S)
  PROVE  DOMAIN s = 1..Len(s) /\ \A i \in DOMAIN s : i \in 1..Len(s) /\ s[i] \in S
OBVIOUS

(* t has the elements of s but the i-th.                                   *)
Rest(t, s, i) ==
  /\ DOMAIN s = 1..Len(s) /\ DOMAIN t = 1..Len(t) /\ Len(t) = Len(s) - 1
  /\ \A j \in 1..Len(t) : (j < i /\ t[j] = s[j]) \/ (j >= i /\ t[j] = s[j + 1])
  /\ \A j \in 1..Len(t) : \E k \in 1..Len(s) : k # i /\ t[j] = s[k]
  /\ \A k \in 1..Len(s) : k # i => \E j \in 1..Len(t) : t[j] = s[k]

(* A sequence without its i-th element has the others and no more.         *)
LEMMA Removed ==
  ASSUME NEW S, NEW s \in Seq(S), NEW i \in 1..Len(s)
  PROVE  \A t : t = SubSeq(s, 1, i - 1) \o SubSeq(s, i + 1, Len(s)) =>
           t \in Seq(S) /\ Rest(t, s, i)
<1>1. PICK t : t = SubSeq(s, 1, i - 1) \o SubSeq(s, i + 1, Len(s))
  OBVIOUS
<1>2. /\ t \in Seq(S) /\ Len(t) = Len(s) - 1
      /\ \A j \in 1..i - 1 : t[j] = s[j]
      /\ \A j \in i..Len(s) - 1 : t[j] = s[j + 1]
  BY <1>1, RemovedParts, Zenon
<1>3. DOMAIN s = 1..Len(s) /\ DOMAIN t = 1..Len(t)
  BY <1>2
<1>4. ASSUME NEW j \in 1..Len(t) PROVE \E k \in 1..Len(s) : k # i /\ t[j] = s[k]
  <2>1. CASE j < i
    <3>1. j \in 1..i - 1 /\ j \in 1..Len(s) /\ j # i
      BY <2>1
    <3> QED
      BY <1>2, <3>1
  <2>2. CASE j >= i
    <3>1. j \in i..Len(s) - 1 /\ j + 1 \in 1..Len(s) /\ j + 1 # i
      BY <1>2, <2>2
    <3> QED
      BY <1>2, <3>1
  <2> QED
    BY <1>2, <2>1, <2>2
<1>5. ASSUME NEW k \in 1..Len(s), k # i PROVE \E j \in 1..Len(t) : t[j] = s[k]
  <2>1. CASE k < i
    <3>1. k \in 1..i - 1 /\ k \in 1..Len(t)
      BY <1>2, <2>1
    <3> QED
      BY <1>2, <3>1
  <2>2. CASE k > i
    <3>1. k - 1 \in i..Len(s) - 1 /\ k - 1 \in 1..Len(t) /\ k - 1 + 1 = k
      BY <1>2, <2>2
    <3> QED
      BY <1>2, <3>1
  <2> QED
    BY <1>5, <2>1, <2>2
<1>6. ASSUME NEW j \in 1..Len(t)
      PROVE  (j < i /\ t[j] = s[j]) \/ (j >= i /\ t[j] = s[j + 1])
  <2>1. CASE j < i
    <3>1. j \in 1..i - 1
      BY <2>1
    <3>2. t[j] = s[j]
      BY <1>2, <3>1
    <3> QED
      BY <2>1, <3>2
  <2>2. CASE j >= i
    <3>1. j \in i..Len(s) - 1
      BY <1>2, <2>2
    <3> QED
      BY <1>2, <2>2, <3>1
  <2> QED
    BY <1>2, <2>1, <2>2
<1>7. t \in Seq(S) /\ Rest(t, s, i)
  BY <1>2, <1>3, <1>4, <1>5, <1>6 DEF Rest
<1> QED
  BY <1>1, <1>7, Zenon

(* A sequence of the same places, each with an element of the set.         *)
LEMMA Mapped ==
  ASSUME NEW S, NEW s \in Seq(S), NEW t, t = [i \in DOMAIN s |-> t[i]],
         \A i \in DOMAIN s : t[i] \in S
  PROVE  t \in Seq(S) /\ DOMAIN t = DOMAIN s
<1>1. DOMAIN s = 1..Len(s) /\ Len(s) \in Nat
  OBVIOUS
<1>2. t \in [1..Len(s) -> S]
  BY <1>1
<1> QED
  BY <1>1, <1>2

(* A sequence with one more element has it last.                           *)
LEMMA Appended ==
  ASSUME NEW S, NEW s \in Seq(S), NEW x \in S, NEW t, t = Append(s, x)
  PROVE  /\ t \in Seq(S) /\ DOMAIN t = 1..Len(s) + 1 /\ t[Len(s) + 1] = x
         /\ DOMAIN s = 1..Len(s) /\ \A i \in DOMAIN s : i \in DOMAIN t /\ t[i] = s[i]
         /\ \A i \in DOMAIN t : i \in DOMAIN s \/ i = Len(s) + 1
         /\ Len(s) + 1 \notin DOMAIN s
OBVIOUS

(***************************************************************************)
(* The file tools.                                                         *)
(***************************************************************************)
(* Where a tool may be. *)
Stops == {"idle", "asking", "acting", "writing", "matched", "editing"}

(* The shape of the tools' state, with what TypeOK leaves open.            *)
FilesTyped ==
    /\ F!TypeOK
    /\ at \in [Workers -> Stops] /\ yes \in [Workers -> Nat]
    /\ base \in [Workers -> F!Texts \X Nat]

(* A command that was left belongs to a call that has ended, and no worker  *)
(* has two calls: that is why there are no more of them than calls.        *)
AtWork == {w \in Workers : at[w] # "idle"}
StraysCounted ==
    /\ calls \in 0 .. MaxCalls
    /\ IsFiniteSet(AtWork) /\ stray + Cardinality(AtWork) <= calls

(* A tool half-way through a file is the one whose half that is, and what   *)
(* an edit read has its anchor.                                            *)
HalfWay ==
    \A w \in Workers :
      /\ at[w] = "asking" => F!HasPath(call[w])
      /\ at[w] = "writing" => call[w].tool = "write_file"
      /\ at[w] \in {"matched", "editing"} =>
            call[w].tool = "edit_file" /\ F!Places(base[w][1], call[w].old) # {}

(* What was let through was let through in the past.                       *)
LetThroughBefore ==
    \A w \in Workers :
      at[w] = "acting" /\ F!HasPath(call[w]) => yes[w] <= ver[call[w].path]

FilesInv ==
    /\ FilesTyped /\ StraysCounted /\ HalfWay /\ LetThroughBefore
    /\ F!EditsWhatIsThere

(* Every session of tools starts idle.                                     *)
LEMMA FilesInit == ASSUME F!FileToolsAssumption PROVE F!Init => FilesInv
<1> SUFFICES ASSUME F!Init PROVE FilesInv
  OBVIOUS
<1>1. FilesTyped
  <2>1. [tool |-> "bad"] \in F!Calls
    BY DEF F!Calls
  <2>2. call \in [Workers -> F!Calls] /\ at \in [Workers -> Stops] /\ yes \in [Workers -> Nat]
    BY <2>1 DEF F!Init, Stops
  <2>3. ver \in [Files -> 0 .. MaxWrites] /\ stray \in 0 .. MaxCalls
    BY DEF F!Init, F!FileToolsAssumption
  <2>4. <<<<>>, 0>> \in F!Texts \X Nat
    BY DEF F!Texts
  <2>5. base \in [Workers -> F!Texts \X Nat]
    BY <2>4 DEF F!Init
  <2>6. F!Plain("none") \in F!Answer /\ Len(F!Plain("none").hits) <= Cap
    <3>1. <<>> \in Seq({"page"}) /\ Len(<<>>) = 0
      OBVIOUS
    <3>2. F!Plain("none").hits = <<>>
      BY DEF F!Plain
    <3> QED
      BY <3>1, <3>2 DEF F!Plain, F!Answer, F!FileToolsAssumption
  <2>7. answer \in [Workers -> F!Answer] /\ \A w \in Workers : Len(answer[w].hits) <= Cap
    BY <2>6 DEF F!Init
  <2>8. disk \in [Files -> {F!Absent} \cup F!Texts]
    <3>1. F!Plainly \subseteq Passages
      BY DEF F!Plainly
    <3>2. {<<p>> : p \in F!Plainly} \subseteq F!Texts /\ {<<p, p>> : p \in F!Plainly} \subseteq F!Texts
      BY <3>1 DEF F!Texts
    <3> QED
      BY <3>2, Zenon DEF F!Init
  <2>9. exact \in BOOLEAN
    BY DEF F!Init
  <2> QED
    BY <2>2, <2>3, <2>5, <2>7, <2>8, <2>9 DEF FilesTyped, F!TypeOK
<1>2. StraysCounted
  <2>1. AtWork = {}
    BY DEF AtWork, F!Init
  <2> QED
    BY <2>1, FS_EmptySet DEF StraysCounted, F!Init, F!FileToolsAssumption
<1>3. HalfWay /\ LetThroughBefore /\ F!EditsWhatIsThere
  BY DEF HalfWay, LetThroughBefore, F!EditsWhatIsThere, F!Init
<1> QED
  BY <1>1, <1>2, <1>3 DEF FilesInv

(* What a call holds depends on its tool.                                  *)
LEMMA CallKinds ==
  ASSUME NEW c \in F!Calls
  PROVE  /\ F!HasPath(c) => c.path \in Files
         /\ c.tool \in {"write_file", "edit_file"} => F!HasPath(c) /\ c.path \in Files
         /\ c.tool = "write_file" => c.text \in {<<p>> : p \in Passages}
         /\ c.tool = "edit_file" => c \in F!Edits
<1>1. CASE c \in F!Edits
  BY <1>1 DEF F!Edits, F!HasPath
<1>2. CASE c \in [tool : {"write_file"}, path : Files, text : {<<p>> : p \in Passages}]
  BY <1>2 DEF F!HasPath
<1>3. CASE c \in [tool : {"read_file", "list_dir", "glob", "grep"}, path : Files]
  BY <1>3 DEF F!HasPath
<1>4. CASE c \in [tool : {"shell", "web_fetch", "web_search", "bad"}]
  BY <1>4 DEF F!HasPath
<1> QED
  BY <1>1, <1>2, <1>3, <1>4, Zenon DEF F!Calls

(* Answers without hits are answers.                                       *)
LEMMA GoodAnswers ==
  ASSUME F!FileToolsAssumption
  PROVE  /\ \A kind \in {"none", "ok", "fail", "denied"} :
              F!Plain(kind) \in F!Answer /\ Len(F!Plain(kind).hits) <= Cap
<1>1. <<>> \in Seq({"page"}) /\ Len(<<>>) = 0 /\ 0 <= Cap
  BY DEF F!FileToolsAssumption
<1>2. ASSUME NEW kind_ \in {"none", "ok", "fail", "denied"}
      PROVE  F!Plain(kind_) \in F!Answer /\ Len(F!Plain(kind_).hits) <= Cap
  <2>1. F!Plain(kind_).hits = <<>>
    BY DEF F!Plain
  <2> QED
    BY <1>1, <2>1 DEF F!Plain, F!Answer
<1> QED
  BY <1>2

(* A worker that goes to work or comes back changes how many are at it.    *)
LEMMA AtWorkMoves ==
  ASSUME FilesTyped, IsFiniteSet(AtWork), NEW w \in Workers, NEW s \in Stops,
         at' = [at EXCEPT ![w] = s]
  PROVE  /\ IsFiniteSet(AtWork')
         /\ Cardinality(AtWork) \in Nat /\ Cardinality(AtWork') \in Nat
         /\ at[w] # "idle" /\ s # "idle" => Cardinality(AtWork') = Cardinality(AtWork)
         /\ at[w] # "idle" /\ s = "idle" => Cardinality(AtWork') = Cardinality(AtWork) - 1
         /\ at[w] = "idle" /\ s # "idle" => Cardinality(AtWork') = Cardinality(AtWork) + 1
         /\ at[w] = "idle" /\ s = "idle" => Cardinality(AtWork') = Cardinality(AtWork)
<1> USE DEF FilesTyped
<1>1. Cardinality(AtWork) \in Nat
  BY FS_CardinalityType
<1>2. CASE (at[w] = "idle") <=> (s = "idle")
  <2>1. AtWork' = AtWork
    BY <1>2 DEF AtWork
  <2> QED
    BY <1>1, <1>2, <2>1
<1>3. CASE at[w] # "idle" /\ s = "idle"
  <2>1. AtWork' = AtWork \ {w} /\ w \in AtWork
    BY <1>3 DEF AtWork
  <2>2. IsFiniteSet(AtWork') /\ Cardinality(AtWork') = Cardinality(AtWork) - 1
    BY <2>1, FS_RemoveElement
  <2>3. Cardinality(AtWork') \in Nat
    BY <2>2, FS_CardinalityType
  <2> QED
    BY <1>1, <1>3, <2>2, <2>3
<1>4. CASE at[w] = "idle" /\ s # "idle"
  <2>1. AtWork' = AtWork \cup {w} /\ w \notin AtWork
    BY <1>4 DEF AtWork
  <2>2. IsFiniteSet(AtWork') /\ Cardinality(AtWork') = Cardinality(AtWork) + 1
    BY <2>1, FS_AddElement
  <2> QED
    BY <1>1, <1>4, <2>2
<1> QED
  BY <1>2, <1>3, <1>4

(* The texts of the model are those of at most two passages.               *)
LEMMA TextsAreShort ==
  /\ \A t \in F!Texts : t \in Seq(Passages) /\ Len(t) <= 2
  /\ \A t \in Seq(Passages) : Len(t) <= 2 => t \in F!Texts
<1>1. ASSUME NEW t \in F!Texts PROVE t \in Seq(Passages) /\ Len(t) <= 2
  <2>1. CASE t = <<>>
    BY <2>1
  <2>2. CASE \E p \in Passages : t = <<p>>
    BY <2>2
  <2>3. CASE \E p, q \in Passages : t = <<p, q>>
    BY <2>3
  <2> QED
    BY <2>1, <2>2, <2>3 DEF F!Texts
<1>2. ASSUME NEW t \in Seq(Passages), Len(t) <= 2 PROVE t \in F!Texts
  <2>1. Len(t) \in Nat /\ \A k \in 1 .. Len(t) : t[k] \in Passages
    OBVIOUS
  <2>2. CASE Len(t) = 0
    BY <2>2, EmptySeq DEF F!Texts
  <2>3. CASE Len(t) = 1
    <3>1. t[1] \in Passages
      BY <2>1, <2>3
    <3>2. <<t[1]>> \in Seq(Passages) /\ Len(<<t[1]>>) = 1 /\ <<t[1]>>[1] = t[1]
      BY <3>1
    <3>3. t = <<t[1]>>
      BY <2>3, <3>2, SeqEqual
    <3> QED
      BY <3>1, <3>3 DEF F!Texts
  <2>4. CASE Len(t) = 2
    <3>1. t[1] \in Passages /\ t[2] \in Passages
      BY <2>1, <2>4
    <3> DEFINE u == <<t[1], t[2]>>
    <3>2. u \in Seq(Passages) /\ Len(u) = 2 /\ u[1] = t[1] /\ u[2] = t[2]
      BY <3>1
    <3>3. t = u
      <4> HIDE DEF u
      <4> QED
        BY <2>4, <3>2, SeqEqual
    <3> QED
      BY <3>1, <3>3 DEF F!Texts
  <2>5. Len(t) = 0 \/ Len(t) = 1 \/ Len(t) = 2
    <3> DEFINE n == Len(t)
    <3>1. n \in Nat /\ n <= 2
      BY <1>2, <2>1
    <3> HIDE DEF n
    <3>2. n = 0 \/ n = 1 \/ n = 2
      BY <3>1
    <3> QED
      BY <3>2 DEF n
  <2> QED
    BY <2>2, <2>3, <2>4, <2>5
<1> QED
  BY <1>1, <1>2

(* A file in which a passage was replaced is still a file of the model.    *)
LEMMA WithIsText ==
  ASSUME NEW text \in F!Texts, NEW c \in F!Edits, F!Places(text, c.old) # {},
         NEW new \in {<<>>} \cup {<<p>> : p \in Passages}
  PROVE  F!With(text, c, new) \in F!Texts
<1> DEFINE i == CHOOSE k \in F!Places(text, c.old) : TRUE
           before == SubSeq(text, 1, i - 1)
           after == SubSeq(text, i + 1, Len(text))
<1>1. text \in Seq(Passages) /\ Len(text) <= 2 /\ Len(text) \in Nat
  BY TextsAreShort
<1>2. i \in 1 .. Len(text)
  BY <1>1 DEF F!Places
<1>3. F!With(text, c, new) = before \o new \o after
  BY DEF F!With
<1>4. new \in Seq(Passages) /\ Len(new) <= 1 /\ Len(new) \in Nat
  <2>1. CASE new = <<>>
    BY <2>1
  <2>2. CASE \E p \in Passages : new = <<p>>
    BY <2>2
  <2> QED
    BY <2>1, <2>2
<1> HIDE DEF i
<1>5. before \in Seq(Passages) /\ Len(before) = i - 1
  BY <1>1, <1>2, SubSeqProperties
<1>6. after \in Seq(Passages) /\ Len(after) = Len(text) - i
  BY <1>1, <1>2, SubSeqProperties
<1> HIDE DEF before, after
<1>7. before \o new \in Seq(Passages) /\ Len(before \o new) = Len(before) + Len(new)
  BY <1>4, <1>5
<1>8. /\ before \o new \o after \in Seq(Passages)
      /\ Len(before \o new \o after) = Len(before \o new) + Len(after)
  BY <1>6, <1>7
<1>9. Len(before \o new \o after) <= 2
  BY <1>1, <1>2, <1>4, <1>5, <1>6, <1>7, <1>8
<1> QED
  BY <1>3, <1>8, <1>9, TextsAreShort

(* A file is changed to a text, and its version grows.                     *)
LEMMA FileChanges ==
  ASSUME F!FileToolsAssumption, FilesTyped, NEW f \in Files, NEW text \in F!Texts,
         ver'[f] <= MaxWrites, F!Changes(f, text)
  PROVE  /\ disk' \in [Files -> {F!Absent} \cup F!Texts] /\ ver' \in [Files -> 0 .. MaxWrites]
         /\ \A g \in Files : ver[g] \in Nat /\ ver'[g] \in Nat /\ ver[g] <= ver'[g]
<1>1. disk' \in [Files -> {F!Absent} \cup F!Texts]
  BY DEF F!Changes, FilesTyped, F!TypeOK
<1>2. MaxWrites \in Nat /\ ver \in [Files -> 0 .. MaxWrites]
  BY DEF FilesTyped, F!TypeOK, F!FileToolsAssumption
<1>3. ver' = [ver EXCEPT ![f] = ver[f] + 1]
  BY DEF F!Changes
<1>4. ver'[f] = ver[f] + 1 /\ ver'[f] \in 0 .. MaxWrites
  BY <1>2, <1>3
<1> QED
  BY <1>1, <1>2, <1>3, <1>4

(* What is read and what is matched stays true when files only get newer.  *)
LEMMA NewerFiles ==
  ASSUME FilesInv, UNCHANGED <<call, base, yes>>,
         \A g \in Files : ver[g] \in Nat /\ ver'[g] \in Nat /\ ver[g] <= ver'[g],
         \A w \in Workers : at'[w] = "acting" => at[w] = "acting",
         \A w \in Workers :
            at'[w] \in {"matched", "editing"} => at[w] \in {"matched", "editing"}
  PROVE  LetThroughBefore' /\ F!EditsWhatIsThere'
<1>1. ASSUME NEW w \in Workers, at'[w] = "acting", F!HasPath(call'[w])
      PROVE  yes'[w] <= ver'[call'[w].path]
  <2>1. at[w] = "acting" /\ F!HasPath(call[w]) /\ yes'[w] = yes[w] /\ call' = call
    BY <1>1
  <2>2. call[w].path \in Files
    BY <2>1, CallKinds DEF FilesInv, FilesTyped, F!TypeOK
  <2>3. yes[w] <= ver[call[w].path] /\ yes[w] \in Nat
    BY <2>1 DEF FilesInv, LetThroughBefore, FilesTyped
  <2> QED
    BY <2>1, <2>2, <2>3
<1>2. F!EditsWhatIsThere'
  BY DEF FilesInv, F!EditsWhatIsThere
<1> QED
  BY <1>1, <1>2 DEF LetThroughBefore, F!HasPath

(* A tool that answers without having touched a file.                      *)
LEMMA OnlyAnswers ==
  ASSUME F!FileToolsAssumption, FilesInv, NEW w \in Workers, at[w] # "idle",
         NEW a \in F!Answer, Len(a.hits) <= Cap,
         F!Answers(w, a), NEW left \in 0 .. 1, stray' = stray + left,
         UNCHANGED <<disk, ver, call, base, yes, exact, calls>>
  PROVE  FilesInv'
<1> USE DEF FilesInv
<1>1. at' = [at EXCEPT ![w] = "idle"] /\ answer' = [answer EXCEPT ![w] = a] /\ "idle" \in Stops
  BY DEF F!Answers, Stops
<1>2. StraysCounted'
  <2>1. /\ IsFiniteSet(AtWork') /\ Cardinality(AtWork) \in Nat /\ Cardinality(AtWork') \in Nat
        /\ Cardinality(AtWork') = Cardinality(AtWork) - 1
    BY <1>1, AtWorkMoves DEF StraysCounted
  <2>2. stray \in Nat /\ calls \in Int
    BY DEF FilesTyped, F!TypeOK, StraysCounted
  <2> QED
    BY <2>1, <2>2 DEF StraysCounted
<1>3. FilesTyped'
  <2>1. stray' \in 0 .. MaxCalls
    <3>1. Cardinality(AtWork') \in Nat /\ stray \in Nat
      BY <1>2, FS_CardinalityType DEF StraysCounted, FilesTyped, F!TypeOK
    <3> QED
      BY <1>2, <3>1 DEF StraysCounted, F!FileToolsAssumption
  <2>2. answer' \in [Workers -> F!Answer] /\ \A v \in Workers : Len(answer'[v].hits) <= Cap
    BY <1>1 DEF FilesTyped, F!TypeOK
  <2>3. at' \in [Workers -> Stops]
    BY <1>1 DEF FilesTyped
  <2> QED
    BY <2>1, <2>2, <2>3 DEF FilesTyped, F!TypeOK
<1>4. HalfWay'
  BY <1>1 DEF HalfWay, FilesTyped, F!HasPath, F!Places
<1>5. LetThroughBefore' /\ F!EditsWhatIsThere'
  BY <1>1 DEF LetThroughBefore, F!EditsWhatIsThere, FilesTyped, F!HasPath
<1> QED
  BY <1>2, <1>3, <1>4, <1>5

(* A tool that goes on has no answer yet.                                  *)
LEMMA StillGoing ==
  ASSUME F!FileToolsAssumption, FilesInv, NEW w \in Workers, NEW s \in Stops, F!Goes(w, s)
  PROVE  /\ at' = [at EXCEPT ![w] = s] /\ at' \in [Workers -> Stops]
         /\ answer' \in [Workers -> F!Answer] /\ \A v \in Workers : Len(answer'[v].hits) <= Cap
<1>1. at' = [at EXCEPT ![w] = s] /\ answer' = [answer EXCEPT ![w] = F!Plain("none")]
  BY DEF F!Goes
<1>2. /\ F!Plain("none") \in F!Answer /\ Len(F!Plain("none").hits) <= Cap
  BY GoodAnswers
<1>3. answer' \in [Workers -> F!Answer] /\ \A v \in Workers : Len(answer'[v].hits) <= Cap
  BY <1>1, <1>2 DEF FilesInv, FilesTyped, F!TypeOK
<1> QED
  BY <1>1, <1>3 DEF FilesInv, FilesTyped

(* A worker that stays at work leaves the count as it is.                  *)
LEMMA StaysAtWork ==
  ASSUME FilesInv, NEW w \in Workers, NEW s \in Stops, at[w] # "idle", s # "idle",
         at' = [at EXCEPT ![w] = s], UNCHANGED <<stray, calls>>
  PROVE  StraysCounted'
BY AtWorkMoves DEF FilesInv, StraysCounted

(* A call begins: refused, before its card or at work.                     *)
LEMMA BeginKeeps ==
  ASSUME F!FileToolsAssumption, FilesInv, NEW w \in Workers, NEW c \in F!Calls, F!Begin(w, c)
  PROVE  FilesInv'
<1> USE DEF FilesInv
<1>1. /\ at[w] = "idle" /\ calls < MaxCalls /\ calls' = calls + 1
      /\ call' = [call EXCEPT ![w] = c] /\ UNCHANGED <<disk, ver, base, exact, stray>>
  BY DEF F!Begin
<1>2. F!HasPath(c) => c.path \in Files
  BY CallKinds
<1>3. PICK s \in {"idle", "asking", "acting"} :
         /\ at' = [at EXCEPT ![w] = s]
         /\ s = "asking" => ~F!Free(c)
  BY DEF F!Begin, F!Answers, F!Goes
<1>4. PICK kind_ \in {"none", "fail"} : answer' = [answer EXCEPT ![w] = F!Plain(kind_)]
  BY DEF F!Begin, F!Answers, F!Goes
<1>5. \/ UNCHANGED yes /\ s # "acting"
      \/ UNCHANGED yes /\ ~F!HasPath(c)
      \/ yes' = [yes EXCEPT ![w] = ver[c.path]] /\ F!HasPath(c)
  <2>1. CASE F!Answers(w, F!Plain("fail")) /\ UNCHANGED yes
    BY <1>3, <2>1 DEF F!Answers, FilesTyped
  <2>2. CASE F!Goes(w, "asking") /\ UNCHANGED yes
    BY <1>3, <2>2 DEF F!Goes, FilesTyped
  <2>3. CASE yes' = IF F!HasPath(c) THEN [yes EXCEPT ![w] = ver[c.path]] ELSE yes
    BY <2>3
  <2> QED
    BY <2>1, <2>2, <2>3 DEF F!Begin
<1>6. s \in Stops
  BY DEF Stops
<1>7. F!Plain(kind_) \in F!Answer /\ Len(F!Plain(kind_).hits) <= Cap
  BY GoodAnswers
<1>8. yes' \in [Workers -> Nat]
  <2>1. F!HasPath(c) => ver[c.path] \in Nat
    BY <1>2 DEF FilesTyped, F!TypeOK
  <2> QED
    BY <1>5, <2>1 DEF FilesTyped
<1>9. FilesTyped'
  <2>1. call' \in [Workers -> F!Calls] /\ at' \in [Workers -> Stops]
    BY <1>1, <1>3, <1>6 DEF FilesTyped, F!TypeOK
  <2>2. answer' \in [Workers -> F!Answer] /\ \A v \in Workers : Len(answer'[v].hits) <= Cap
    BY <1>4, <1>7 DEF FilesTyped, F!TypeOK
  <2> QED
    BY <1>1, <1>8, <2>1, <2>2 DEF FilesTyped, F!TypeOK
<1>10. StraysCounted'
  <2>1. /\ IsFiniteSet(AtWork') /\ Cardinality(AtWork') \in Nat /\ Cardinality(AtWork) \in Nat
        /\ Cardinality(AtWork') <= Cardinality(AtWork) + 1
    <3>1. /\ IsFiniteSet(AtWork') /\ Cardinality(AtWork') \in Nat /\ Cardinality(AtWork) \in Nat
          /\ s # "idle" => Cardinality(AtWork') = Cardinality(AtWork) + 1
          /\ s = "idle" => Cardinality(AtWork') = Cardinality(AtWork)
      BY <1>1, <1>3, <1>6, AtWorkMoves DEF StraysCounted
    <3> QED
      BY <3>1
  <2>2. stray \in Nat /\ calls \in Nat /\ MaxCalls \in Nat
    BY DEF FilesTyped, F!TypeOK, StraysCounted, F!FileToolsAssumption
  <2> QED
    BY <1>1, <2>1, <2>2 DEF StraysCounted
<1>11. HalfWay'
  <2>1. s = "asking" => F!HasPath(c)
    BY <1>3 DEF F!Free
  <2> QED
    BY <1>1, <1>3, <2>1 DEF HalfWay, FilesTyped, F!TypeOK, F!HasPath, F!Places
<1>12. LetThroughBefore'
  <2>1. ASSUME NEW v \in Workers, at'[v] = "acting", F!HasPath(call'[v])
        PROVE  yes'[v] <= ver'[call'[v].path]
    <3>1. CASE v = w
      <4>1. call'[v] = c /\ s = "acting"
        BY <1>1, <1>3, <2>1, <3>1 DEF FilesTyped, F!TypeOK
      <4>2. yes'[v] = ver[c.path] /\ ver[c.path] \in Nat
        BY <1>2, <1>5, <2>1, <3>1, <4>1 DEF FilesTyped, F!TypeOK
      <4> QED
        BY <1>1, <4>1, <4>2
    <3>2. CASE v # w
      <4>1. call'[v] = call[v] /\ at'[v] = at[v]
        BY <1>1, <1>3, <3>2 DEF FilesTyped, F!TypeOK
      <4>2. yes'[v] = yes[v]
        BY <1>5, <3>2 DEF FilesTyped
      <4> QED
        BY <1>1, <2>1, <4>1, <4>2 DEF LetThroughBefore
    <3> QED
      BY <3>1, <3>2
  <2> QED
    BY <2>1 DEF LetThroughBefore, F!HasPath
<1>13. F!EditsWhatIsThere'
  BY <1>1, <1>3, <1>5 DEF F!EditsWhatIsThere, FilesTyped
<1> QED
  BY <1>9, <1>10, <1>11, <1>12, <1>13

(* A card is answered: with a refusal, or with the file as it is now.      *)
LEMMA VerdictKeeps ==
  ASSUME F!FileToolsAssumption, FilesInv, NEW w \in Workers, F!Verdict(w)
  PROVE  FilesInv'
<1> USE DEF FilesInv
<1>1. at[w] = "asking" /\ UNCHANGED <<disk, ver, call, base, exact, stray, calls>>
  BY DEF F!Verdict
<1>2. CASE F!Answers(w, F!Plain("denied")) /\ UNCHANGED yes
  <2>1. /\ F!Plain("denied") \in F!Answer /\ Len(F!Plain("denied").hits) <= Cap
    BY GoodAnswers
  <2>2. stray' = stray + 0
    BY <1>1 DEF FilesTyped, F!TypeOK
  <2> QED
    BY <1>1, <1>2, <2>1, <2>2, OnlyAnswers
<1>3. CASE F!Goes(w, "acting") /\ yes' = [yes EXCEPT ![w] = ver[call[w].path]]
  <2>1. /\ at' = [at EXCEPT ![w] = "acting"] /\ at' \in [Workers -> Stops]
        /\ answer' \in [Workers -> F!Answer] /\ \A v \in Workers : Len(answer'[v].hits) <= Cap
    BY <1>1, <1>3, StillGoing DEF Stops
  <2>2. call[w].path \in Files /\ ver[call[w].path] \in Nat
    <3>1. F!HasPath(call[w]) /\ call[w] \in F!Calls
      BY <1>1 DEF HalfWay, FilesTyped, F!TypeOK
    <3>2. call[w].path \in Files
      BY <3>1, CallKinds
    <3> QED
      BY <3>2 DEF FilesTyped, F!TypeOK
  <2>3. FilesTyped'
    BY <1>1, <1>3, <2>1, <2>2 DEF FilesTyped, F!TypeOK
  <2>4. StraysCounted'
    BY <1>1, <2>1, StaysAtWork DEF Stops
  <2>5. HalfWay' /\ F!EditsWhatIsThere'
    BY <1>1, <1>3, <2>1 DEF HalfWay, F!EditsWhatIsThere, FilesTyped, F!HasPath, F!Places
  <2>6. LetThroughBefore'
    BY <1>1, <1>3, <2>1, <2>2 DEF LetThroughBefore, FilesTyped, F!HasPath
  <2> QED
    BY <2>1, <2>3, <2>4, <2>5, <2>6
<1> QED
  BY <1>2, <1>3 DEF F!Verdict

(* A step inside a tool that empties or fills its file.                    *)
LEMMA WorksOnFile ==
  ASSUME F!FileToolsAssumption, FilesInv, NEW w \in Workers, at[w] # "idle",
         F!HasPath(call[w]), NEW text \in F!Texts, F!Changes(call[w].path, text),
         ver'[call[w].path] <= MaxWrites,
         NEW s \in {"idle", "writing", "editing"},
         s = "writing" => call[w].tool = "write_file",
         s = "editing" => at[w] = "matched",
         \/ F!Goes(w, s)
         \/ s = "idle" /\ F!Answers(w, F!Plain("ok")),
         exact' \in BOOLEAN, UNCHANGED <<call, base, yes, stray, calls>>
  PROVE  FilesInv'
<1> USE DEF FilesInv
<1>1. s \in Stops
  BY DEF Stops
<1>2. /\ at' = [at EXCEPT ![w] = s] /\ at' \in [Workers -> Stops]
      /\ answer' \in [Workers -> F!Answer] /\ \A v \in Workers : Len(answer'[v].hits) <= Cap
  <2>1. CASE F!Goes(w, s)
    BY <1>1, <2>1, StillGoing
  <2>2. CASE s = "idle" /\ F!Answers(w, F!Plain("ok"))
    <3>1. /\ F!Plain("ok") \in F!Answer /\ Len(F!Plain("ok").hits) <= Cap
      BY GoodAnswers
    <3> QED
      BY <1>1, <2>2, <3>1 DEF F!Answers, FilesTyped, F!TypeOK
  <2> QED
    BY <2>1, <2>2
<1>3. call[w].path \in Files
  BY CallKinds DEF FilesTyped, F!TypeOK
<1>4. /\ disk' \in [Files -> {F!Absent} \cup F!Texts] /\ ver' \in [Files -> 0 .. MaxWrites]
      /\ \A g \in Files : ver[g] \in Nat /\ ver'[g] \in Nat /\ ver[g] <= ver'[g]
  BY <1>3, FileChanges
<1>5. FilesTyped'
  BY <1>2, <1>4 DEF FilesTyped, F!TypeOK
<1>6. StraysCounted'
  <2>1. /\ IsFiniteSet(AtWork') /\ Cardinality(AtWork') \in Nat /\ Cardinality(AtWork) \in Nat
        /\ Cardinality(AtWork') <= Cardinality(AtWork)
    <3>1. /\ IsFiniteSet(AtWork') /\ Cardinality(AtWork') \in Nat /\ Cardinality(AtWork) \in Nat
          /\ s # "idle" => Cardinality(AtWork') = Cardinality(AtWork)
          /\ s = "idle" => Cardinality(AtWork') = Cardinality(AtWork) - 1
      BY <1>1, <1>2, AtWorkMoves DEF StraysCounted
    <3> QED
      BY <3>1
  <2>2. stray \in Nat /\ calls \in Nat
    BY DEF FilesTyped, F!TypeOK, StraysCounted
  <2> QED
    BY <2>1, <2>2 DEF StraysCounted
<1>7. HalfWay'
  BY <1>2 DEF HalfWay, FilesTyped, F!HasPath, F!Places
<1>8. LetThroughBefore' /\ F!EditsWhatIsThere'
  BY <1>2, <1>4, NewerFiles DEF FilesTyped
<1> QED
  BY <1>2, <1>5, <1>6, <1>7, <1>8

(* The half-steps of a tool that writes or edits.                          *)
LEMMA WritersKeep ==
  ASSUME F!FileToolsAssumption, FilesInv, NEW w \in Workers,
         F!WriteFile(w) \/ F!WriteEnds(w) \/ F!EditWrites(w) \/ F!EditEnds(w)
  PROVE  FilesInv'
<1> USE DEF FilesInv
<1>1. call[w] \in F!Calls
  BY DEF FilesTyped, F!TypeOK
<1>2. <<>> \in F!Texts /\ exact \in BOOLEAN /\ stray \in Nat /\ MaxWrites \in Nat
  BY DEF F!Texts, FilesTyped, F!TypeOK, F!FileToolsAssumption
<1>3. F!Plain("fail") \in F!Answer /\ Len(F!Plain("fail").hits) <= Cap
  BY GoodAnswers
<1>4. ASSUME at[w] # "idle", F!Answers(w, F!Plain("fail")),
             UNCHANGED <<disk, ver, call, base, yes, exact, stray, calls>>
      PROVE  FilesInv'
  <2>1. stray' = stray + 0
    BY <1>2, <1>4
  <2> QED
    BY <1>3, <1>4, <2>1, OnlyAnswers
<1>5. CASE F!WriteFile(w)
  <2>1. /\ at[w] = "acting" /\ call[w].tool = "write_file"
        /\ UNCHANGED <<call, base, yes, exact, stray, calls>>
    BY <1>5 DEF F!WriteFile
  <2>2. F!HasPath(call[w]) /\ call[w].path \in Files
    BY <1>1, <2>1, CallKinds
  <2>3. CASE F!Answers(w, F!Plain("fail")) /\ UNCHANGED <<disk, ver>>
    BY <1>4, <2>1, <2>3
  <2>4. CASE /\ F!Goes(w, "writing") /\ ver[call[w].path] + 1 < MaxWrites
             /\ F!Changes(call[w].path, <<>>)
    <3>1. ver'[call[w].path] <= MaxWrites
      BY <1>2, <2>2, <2>4 DEF F!Changes, FilesTyped, F!TypeOK
    <3> QED
      BY <1>2, <2>1, <2>2, <2>4, <3>1, WorksOnFile
  <2> QED
    BY <1>5, <2>3, <2>4 DEF F!WriteFile
<1>6. CASE F!WriteEnds(w)
  <2>1. /\ at[w] = "writing" /\ ver'[call[w].path] <= MaxWrites
        /\ UNCHANGED <<call, base, yes, exact, stray, calls>>
    BY <1>6 DEF F!WriteEnds
  <2>2. CASE F!Answers(w, F!Plain("fail")) /\ UNCHANGED <<disk, ver>>
    BY <1>4, <2>1, <2>2
  <2>3. CASE /\ call[w].tool = "write_file" /\ F!Changes(call[w].path, call[w].text)
             /\ F!Answers(w, F!Plain("ok"))
    <3>1. F!HasPath(call[w]) /\ call[w].text \in {<<p>> : p \in Passages}
      BY <1>1, <2>3, CallKinds
    <3>2. call[w].text \in F!Texts
      BY <3>1 DEF F!Texts
    <3> QED
      BY <1>2, <2>1, <2>3, <3>1, <3>2, WorksOnFile
  <2> QED
    BY <1>6, <2>2, <2>3 DEF F!WriteEnds
<1>7. CASE F!EditWrites(w)
  <2>1. /\ at[w] = "matched" /\ ver[call[w].path] + 1 < MaxWrites
        /\ F!Changes(call[w].path, <<>>) /\ F!Goes(w, "editing")
        /\ UNCHANGED <<call, base, yes, exact, stray, calls>>
    BY <1>7 DEF F!EditWrites
  <2>2. call[w].tool = "edit_file"
    BY <2>1 DEF HalfWay
  <2>3. F!HasPath(call[w]) /\ call[w].path \in Files
    BY <1>1, <2>2, CallKinds
  <2>4. ver'[call[w].path] <= MaxWrites
    BY <1>2, <2>1, <2>3 DEF F!Changes, FilesTyped, F!TypeOK
  <2> QED
    BY <1>2, <2>1, <2>3, <2>4, WorksOnFile
<1>8. CASE F!EditEnds(w)
  <2>1. /\ at[w] = "editing" /\ ver'[call[w].path] <= MaxWrites
        /\ UNCHANGED <<call, base, yes, stray, calls>>
    BY <1>8 DEF F!EditEnds
  <2>2. CASE F!Answers(w, F!Plain("fail")) /\ UNCHANGED <<disk, ver, exact>>
    BY <1>4, <2>1, <2>2
  <2>3. CASE \E result \in BOOLEAN :
                /\ F!Changes(call[w].path, F!With(base[w][1], call[w], F!Inserted(call[w])))
                /\ exact' = result /\ F!Answers(w, F!Plain("ok"))
    <3>1. call[w].tool = "edit_file" /\ F!Places(base[w][1], call[w].old) # {}
      BY <2>1 DEF HalfWay
    <3>2. F!HasPath(call[w]) /\ call[w] \in F!Edits
      BY <1>1, <3>1, CallKinds
    <3>3. call[w].old \in Passages /\ call[w].new \in {<<>>} \cup {<<p>> : p \in Passages}
      BY <3>2 DEF F!Edits, F!Plainly
    <3>4. F!Inserted(call[w]) \in {<<>>} \cup {<<p>> : p \in Passages}
      BY <3>3 DEF F!Inserted
    <3>5. base[w][1] \in F!Texts
      BY DEF FilesTyped
    <3>6. F!With(base[w][1], call[w], F!Inserted(call[w])) \in F!Texts
      BY <3>1, <3>2, <3>4, <3>5, WithIsText
    <3> QED
      BY <2>1, <2>3, <3>2, <3>6, WorksOnFile
  <2>4. (exact /\ disk'[call[w].path] = F!With(base[w][1], call[w], call[w].new)) \in BOOLEAN
    OBVIOUS
  <2> QED
    BY <1>8, <2>2, <2>3, <2>4 DEF F!EditEnds
<1> QED
  BY <1>5, <1>6, <1>7, <1>8

(* An edit reads the file as it is, which is no older than when its card   *)
(* was let through.                                                        *)
LEMMA EditReadsKeeps ==
  ASSUME F!FileToolsAssumption, FilesInv, NEW w \in Workers, F!EditReads(w)
  PROVE  FilesInv'
<1> USE DEF FilesInv
<1> DEFINE c == call[w]
           once == disk[c.path] # F!Absent /\ F!Cardinality(F!Places(disk[c.path], c.old)) = 1
<1>1. /\ at[w] = "acting" /\ c.tool = "edit_file"
      /\ UNCHANGED <<disk, ver, call, yes, exact, stray, calls>>
  BY DEF F!EditReads
<1>2. c \in F!Edits /\ F!HasPath(c) /\ c.path \in Files
  BY <1>1, CallKinds DEF FilesTyped, F!TypeOK
<1>3. CASE ~once
  <2>1. F!Answers(w, F!Plain("fail")) /\ UNCHANGED base
    BY <1>3 DEF F!EditReads
  <2>2. F!Plain("fail") \in F!Answer /\ Len(F!Plain("fail").hits) <= Cap
    BY GoodAnswers
  <2>3. stray' = stray + 0
    BY <1>1 DEF FilesTyped, F!TypeOK
  <2> QED
    BY <1>1, <2>1, <2>2, <2>3, OnlyAnswers
<1>4. CASE once
  <2>1. /\ F!Goes(w, "matched")
        /\ base' = [base EXCEPT ![w] = <<disk[c.path], ver[c.path]>>]
    BY <1>4 DEF F!EditReads
  <2>2. /\ at' = [at EXCEPT ![w] = "matched"] /\ at' \in [Workers -> Stops]
        /\ answer' \in [Workers -> F!Answer] /\ \A v \in Workers : Len(answer'[v].hits) <= Cap
    BY <1>1, <2>1, StillGoing DEF Stops
  <2>3. disk[c.path] \in F!Texts /\ ver[c.path] \in Nat
    BY <1>2, <1>4 DEF FilesTyped, F!TypeOK
  <2>4. base' \in [Workers -> F!Texts \X Nat]
    BY <2>1, <2>3 DEF FilesTyped
  <2>5. base'[w][1] = disk[c.path] /\ base'[w][2] = ver[c.path]
    BY <2>1 DEF FilesTyped
  <2>6. F!Places(disk[c.path], c.old) # {}
    BY <1>4, FS_EmptySet, Counting
  <2>7. FilesTyped'
    BY <1>1, <2>2, <2>4 DEF FilesTyped, F!TypeOK
  <2>8. StraysCounted'
    BY <1>1, <2>2, StaysAtWork DEF Stops
  <2>9. HalfWay'
    <3>1. ASSUME NEW v \in Workers, at'[v] \in {"matched", "editing"}
          PROVE  call'[v].tool = "edit_file" /\ F!Places(base'[v][1], call'[v].old) # {}
      <4>1. CASE v = w
        BY <1>1, <2>5, <2>6, <4>1
      <4>2. CASE v # w
        <5>1. at'[v] = at[v] /\ base'[v] = base[v]
          BY <2>1, <2>2, <4>2 DEF FilesTyped
        <5> QED
          BY <1>1, <3>1, <5>1 DEF HalfWay
      <4> QED
        BY <4>1, <4>2
    <3>2. \A v \in Workers : at'[v] = "asking" => F!HasPath(call'[v])
      BY <1>1, <2>2 DEF HalfWay, FilesTyped
    <3>3. \A v \in Workers : at'[v] = "writing" => call'[v].tool = "write_file"
      BY <1>1, <2>2 DEF HalfWay, FilesTyped
    <3> QED
      BY <3>1, <3>2, <3>3 DEF HalfWay, F!Places, F!HasPath
  <2>10. LetThroughBefore'
    BY <1>1, <2>2 DEF LetThroughBefore, FilesTyped, F!HasPath
  <2>11. F!EditsWhatIsThere'
    <3>1. ASSUME NEW v \in Workers, at'[v] \in {"matched", "editing"}
          PROVE  base'[v][2] >= yes'[v]
      <4>1. CASE v = w
        BY <1>1, <1>2, <2>3, <2>5, <4>1 DEF LetThroughBefore, FilesTyped
      <4>2. CASE v # w
        <5>1. at'[v] = at[v] /\ base'[v] = base[v]
          BY <2>1, <2>2, <4>2 DEF FilesTyped
        <5> QED
          BY <1>1, <3>1, <5>1 DEF F!EditsWhatIsThere
      <4> QED
        BY <4>1, <4>2
    <3> QED
      BY <3>1 DEF F!EditsWhatIsThere
  <2> QED
    BY <2>2, <2>7, <2>8, <2>9, <2>10, <2>11
<1> QED
  BY <1>3, <1>4

(* The tools that look, fetch, search or run a command.                    *)
LEMMA LookersKeep ==
  ASSUME F!FileToolsAssumption, FilesInv, NEW w \in Workers,
         F!Looks(w) \/ F!Searches(w) \/ F!ShellEnds(w)
  PROVE  FilesInv'
<1> USE DEF FilesInv
<1>1. stray \in Nat /\ call[w] \in F!Calls
  BY DEF FilesTyped, F!TypeOK
<1>2. /\ F!Plain("fail") \in F!Answer /\ Len(F!Plain("fail").hits) <= Cap
      /\ F!Plain("ok") \in F!Answer /\ Len(F!Plain("ok").hits) <= Cap
  BY GoodAnswers
<1>3. CASE F!Looks(w)
  <2>1. PICK kind_ \in {"ok", "fail"} : F!Answers(w, F!Plain(kind_))
    BY <1>3 DEF F!Looks
  <2>2. /\ at[w] # "idle" /\ stray' = stray + 0
        /\ UNCHANGED <<disk, ver, call, base, yes, exact, calls>>
    BY <1>1, <1>3 DEF F!Looks
  <2> QED
    BY <1>2, <2>1, <2>2, OnlyAnswers
<1>4. CASE F!Searches(w)
  <2>1. /\ at[w] # "idle" /\ stray' = stray + 0
        /\ UNCHANGED <<disk, ver, call, base, yes, exact, calls>>
    BY <1>1, <1>4 DEF F!Searches
  <2>2. CASE F!Answers(w, F!Plain("fail"))
    BY <1>2, <2>1, <2>2, OnlyAnswers
  <2>3. CASE \E found \in F!Rows :
                F!Answers(w, [F!Plain("ok") EXCEPT !.hits = F!PickResults(found)])
    <3>1. PICK found \in F!Rows :
             F!Answers(w, [F!Plain("ok") EXCEPT !.hits = F!PickResults(found)])
      BY <2>3
    <3>2. F!PickResults(found) \in Seq({"page"}) /\ Len(F!PickResults(found)) <= Cap
      <4> DEFINE n == IF F!Cardinality(F!Places(found, "page")) <= Cap
                        THEN F!Cardinality(F!Places(found, "page")) ELSE Cap
      <4>1. F!Places(found, "page") \subseteq 1 .. Cap + 2
        BY DEF F!Places, F!Rows, F!FileToolsAssumption
      <4>2. F!Cardinality(F!Places(found, "page")) \in Nat
        <5>1. 1 \in Int /\ Cap + 2 \in Int
          BY DEF F!FileToolsAssumption
        <5>2. IsFiniteSet(1 .. Cap + 2)
          BY <5>1, FS_Interval, Zenon
        <5>3. IsFiniteSet(F!Places(found, "page"))
          BY <4>1, <5>2, FS_Subset
        <5>4. Cardinality(F!Places(found, "page")) \in Nat
          BY <5>3, FS_CardinalityType
        <5> QED
          BY <5>4, Counting
      <4>3. n \in Nat /\ n <= Cap
        BY <4>2 DEF F!FileToolsAssumption
      <4>4. F!PickResults(found) = [i \in 1 .. n |-> "page"]
        BY DEF F!PickResults
      <4> HIDE DEF n
      <4> QED
        BY <4>3, <4>4
    <3>3. PICK a : a = [F!Plain("ok") EXCEPT !.hits = F!PickResults(found)]
      OBVIOUS
    <3>4. a.hits = F!PickResults(found) /\ a \in F!Answer
      BY <3>2, <3>3 DEF F!Plain, F!Answer
    <3>5. Len(a.hits) <= Cap /\ F!Answers(w, a)
      BY <3>1, <3>2, <3>3, <3>4
    <3> QED
      BY <2>1, <3>4, <3>5, OnlyAnswers
  <2> QED
    BY <1>4, <2>2, <2>3 DEF F!Searches
<1>5. CASE F!ShellEnds(w)
  <2>1. PICK left \in 0 .. 1, kind_ \in {"ok", "fail"} :
           stray' = stray + left /\ F!Answers(w, F!Plain(kind_))
    BY <1>5 DEF F!ShellEnds
  <2>2. at[w] # "idle" /\ UNCHANGED <<disk, ver, call, base, yes, exact, calls>>
    BY <1>5 DEF F!ShellEnds
  <2> QED
    BY <1>2, <2>1, <2>2, OnlyAnswers
<1> QED
  BY <1>3, <1>4, <1>5

(* A command writes a file, or one that was left ends.                     *)
LEMMA CommandsKeep ==
  ASSUME F!FileToolsAssumption, FilesInv,
         F!StrayEnds \/ \E f \in Files, p \in Passages : F!CommandWrites(f, <<p>>)
  PROVE  FilesInv'
<1> USE DEF FilesInv
<1>1. CASE F!StrayEnds
  <2>1. stray' = stray - 1 /\ stray > 0 /\ UNCHANGED <<disk, ver, call, at, base, yes, exact, answer, calls>>
    BY <1>1 DEF F!StrayEnds
  <2>2. stray' \in 0 .. MaxCalls /\ stray' <= stray /\ stray \in Nat
    BY <2>1 DEF FilesTyped, F!TypeOK, F!FileToolsAssumption
  <2>3. FilesTyped'
    BY <2>1, <2>2 DEF FilesTyped, F!TypeOK
  <2>4. AtWork' = AtWork
    BY <2>1 DEF AtWork
  <2>5. StraysCounted'
    BY <2>1, <2>2, <2>4, FS_CardinalityType DEF StraysCounted
  <2>6. /\ HalfWay' /\ LetThroughBefore' /\ F!EditsWhatIsThere'
    BY <2>1 DEF HalfWay, LetThroughBefore, F!EditsWhatIsThere, F!HasPath, F!Places
  <2> QED
    BY <2>3, <2>5, <2>6
<1>2. CASE \E f \in Files, p \in Passages : F!CommandWrites(f, <<p>>)
  <2>1. PICK f \in Files, p \in Passages : F!CommandWrites(f, <<p>>)
    BY <1>2
  <2>2. /\ ver[f] < MaxWrites /\ F!Changes(f, <<p>>)
        /\ UNCHANGED <<call, at, base, yes, exact, answer, stray, calls>>
    BY <2>1 DEF F!CommandWrites
  <2>3. <<p>> \in F!Texts
    BY DEF F!Texts
  <2>4. ver'[f] <= MaxWrites
    BY <2>2 DEF F!Changes, FilesTyped, F!TypeOK, F!FileToolsAssumption
  <2>5. /\ disk' \in [Files -> {F!Absent} \cup F!Texts] /\ ver' \in [Files -> 0 .. MaxWrites]
        /\ \A g \in Files : ver[g] \in Nat /\ ver'[g] \in Nat /\ ver[g] <= ver'[g]
    BY <2>2, <2>3, <2>4, FileChanges
  <2>6. FilesTyped'
    BY <2>2, <2>5 DEF FilesTyped, F!TypeOK
  <2>7. StraysCounted'
    BY <2>2 DEF StraysCounted, AtWork
  <2>8. HalfWay'
    BY <2>2 DEF HalfWay, F!HasPath, F!Places
  <2>9. LetThroughBefore' /\ F!EditsWhatIsThere'
    BY <2>2, <2>5, NewerFiles
  <2> QED
    BY <2>6, <2>7, <2>8, <2>9
<1> QED
  BY <1>1, <1>2

(* Each step of a worker, of a command and of a person keeps what the      *)
(* tools' state means.                                                     *)
LEMMA FilesNext ==
  ASSUME F!FileToolsAssumption PROVE FilesInv /\ [F!Next]_(F!vars) => FilesInv'
<1> SUFFICES ASSUME FilesInv, [F!Next]_(F!vars) PROVE FilesInv'
  OBVIOUS
<1>1. CASE \E w \in Workers : F!WorkerStep(w)
  <2>1. PICK w \in Workers : F!WorkerStep(w)
    BY <1>1
  <2> QED
    BY <2>1, BeginKeeps, VerdictKeeps, WritersKeep, EditReadsKeeps, LookersKeep DEF F!WorkerStep
<1>2. CASE F!StrayEnds \/ \E f \in Files, p \in Passages : F!CommandWrites(f, <<p>>)
  BY <1>2, CommandsKeep
<1>3. CASE UNCHANGED F!vars
  <2>1. UNCHANGED <<disk, ver, call, at, base, yes, exact, answer, stray, calls>>
    BY <1>3 DEF F!vars
  <2> QED
    BY <2>1 DEF FilesInv, FilesTyped, F!TypeOK, StraysCounted, AtWork, HalfWay,
                LetThroughBefore, F!EditsWhatIsThere, F!HasPath, F!Places
<1> QED
  BY <1>1, <1>2, <1>3 DEF F!Next

(* The latch is set with a note about the cap in force, and moves with it. *)
LatchMeansTold == budgetWarned => note # "none" \/ dropped

(* A note to stop is about records that reached the cap.                   *)
StopMeansOver == note = "stop" => B!OverBudget

BudgetInv == B!TypeOK /\ LatchMeansTold /\ StopMeansOver

(* Every session starts with what the latch and the notes mean.            *)
LEMMA BudgetInit == ASSUME B!BudgetAssumption PROVE B!Init => BudgetInv
<1> SUFFICES ASSUME B!Init PROVE BudgetInv
  OBVIOUS
<1>2. B!TypeOK
  <2>1. /\ ceiling \in Ceilings \cup {Uncapped} /\ spent \in 0..MaxSpent
        /\ rounds \in 0..MaxRounds /\ passes \in 0..MaxPasses
        /\ out \in 0..MaxOut /\ moves \in 0..MaxMoves
    BY DEF B!BudgetAssumption, B!Init
  <2>2. /\ place \in {"ask", "calls", "prose", "over"} /\ note \in {"none", "soon", "stop"}
        /\ budgetWarned \in BOOLEAN /\ reminded \in BOOLEAN /\ dropped \in BOOLEAN
    BY Zenon DEF B!Init
  <2> QED BY <2>1, <2>2, Zenon DEF B!TypeOK
<1>3. LatchMeansTold
  BY Zenon DEF B!Init, LatchMeansTold
<1>4. StopMeansOver
  BY DEF B!Init, StopMeansOver
<1> QED
  BY <1>2, <1>3, <1>4 DEF BudgetInv

(* Billing only adds to the records.                                       *)
LEMMA SpendsAdds ==
  ASSUME B!BudgetAssumption, B!TypeOK, NEW most \in Nat, B!Spends(most)
  PROVE  spent' \in 0..MaxSpent /\ spent' >= spent
BY DEF B!BudgetAssumption, B!TypeOK, B!Spends

(* A cap that was reached stays reached while it stays.                    *)
LEMMA OverStays ==
  ASSUME B!BudgetAssumption, B!TypeOK, spent' \in Nat, spent' >= spent, ceiling' = ceiling,
         B!OverBudget
  PROVE  B!OverBudget'
BY DEF B!BudgetAssumption, B!TypeOK, B!OverBudget

(* Each step of the driver, of a worker and of the route keeps what the    *)
(* latch and the notes mean.                                               *)
LEMMA BudgetNext == ASSUME B!BudgetAssumption PROVE BudgetInv /\ [B!Next]_(B!vars) => BudgetInv'
<1> SUFFICES ASSUME BudgetInv, [B!Next]_(B!vars) PROVE BudgetInv'
  OBVIOUS
<1> USE DEF BudgetInv
<1>1. CASE B!CallInitiator
  <2>1. spent' \in 0..MaxSpent /\ spent' >= spent
    BY <1>1, SpendsAdds DEF B!CallInitiator
  <2>2. B!TypeOK'
    BY <1>1, <2>1 DEF B!CallInitiator, B!TypeOK, B!BudgetAssumption
  <2>3. LatchMeansTold'
    BY <1>1 DEF B!CallInitiator, LatchMeansTold
  <2>4. StopMeansOver'
    BY <1>1, <2>1, OverStays DEF B!CallInitiator, StopMeansOver
  <2> QED BY <2>2, <2>3, <2>4
<1>2. CASE B!DriverEnds
  BY <1>2 DEF B!DriverEnds, B!TypeOK, LatchMeansTold, StopMeansOver, B!OverBudget
<1>3. CASE B!Nudge
  BY <1>3 DEF B!Nudge, B!TypeOK, LatchMeansTold, StopMeansOver, B!OverBudget
<1>4. CASE B!SpawnWorker
  <2>1. B!TypeOK'
    BY <1>4 DEF B!SpawnWorker, B!TypeOK, B!BudgetAssumption
  <2>2. LatchMeansTold' /\ StopMeansOver'
    BY <1>4 DEF B!SpawnWorker, LatchMeansTold, StopMeansOver, B!OverBudget
  <2> QED BY <2>1, <2>2
<1>5. CASE B!WorkerPays
  <2>1. spent' \in 0..MaxSpent /\ spent' >= spent
    BY <1>5, SpendsAdds DEF B!WorkerPays
  <2>2. B!TypeOK'
    BY <1>5, <2>1 DEF B!WorkerPays, B!TypeOK, B!BudgetAssumption
  <2>3. LatchMeansTold'
    BY <1>5 DEF B!WorkerPays, LatchMeansTold
  <2>4. StopMeansOver'
    BY <1>5, <2>1, OverStays DEF B!WorkerPays, StopMeansOver
  <2> QED BY <2>2, <2>3, <2>4
<1>6. CASE B!Handoff
  <2>1. passes' \in 0..MaxPasses /\ place' = "ask" /\ note' = "none"
    BY <1>6 DEF B!Handoff, B!TypeOK, B!BudgetAssumption
  <2>2. reminded' \in BOOLEAN /\ dropped' \in BOOLEAN
    BY <1>6, Zenon DEF B!Handoff
  <2>3. B!TypeOK'
    BY <1>6, <2>1, <2>2 DEF B!Handoff, B!TypeOK
  <2>4. LatchMeansTold' /\ StopMeansOver'
    BY <1>6 DEF B!Handoff, LatchMeansTold, StopMeansOver
  <2> QED BY <2>3, <2>4
<1>7. CASE B!BudgetCheck
  <2>1. B!TypeOK'
    BY <1>7 DEF B!BudgetCheck, B!TypeOK
  <2>2. LatchMeansTold'
    BY <1>7 DEF B!BudgetCheck, LatchMeansTold
  <2>3. StopMeansOver'
    BY <1>7 DEF B!BudgetCheck, StopMeansOver, B!OverBudget
  <2> QED BY <2>1, <2>2, <2>3
<1>8. CASE B!SetMaxSpendUsd
  <2>1. /\ ceiling' \in Ceilings \cup {Uncapped} /\ moves' \in 0..MaxMoves
    BY <1>8 DEF B!SetMaxSpendUsd, B!TypeOK, B!BudgetAssumption
  <2>2. budgetWarned' \in BOOLEAN /\ dropped' \in BOOLEAN /\ note' = "none"
    BY <1>8, Zenon DEF B!SetMaxSpendUsd
  <2>3. B!TypeOK'
    BY <1>8, <2>1, <2>2 DEF B!SetMaxSpendUsd, B!TypeOK
  <2>4. LatchMeansTold' /\ StopMeansOver'
    BY <1>8 DEF B!SetMaxSpendUsd, LatchMeansTold, StopMeansOver
  <2> QED BY <2>3, <2>4
<1>9. CASE UNCHANGED B!vars
  BY <1>9 DEF B!vars, B!TypeOK, LatchMeansTold, StopMeansOver, B!OverBudget
<1> QED
  BY <1>1, <1>2, <1>3, <1>4, <1>5, <1>6, <1>7, <1>8, <1>9 DEF B!Next

(***************************************************************************)
(* The panels of figures and drafts.                                       *)
(***************************************************************************)
(* A request that is cared for is one for the chosen tabs, and its sums are *)
(* no older than the last event the page was told of.                      *)
AskedForNow ==
  \A i \in DOMAIN asks :
    asks[i].live => asks[i].tabs = tabs /\ (asks[i].at = -1 \/ asks[i].at >= seen)

(* Figures that are not current are being asked for, or a failure is shown. *)
CurrentOrAsked ==
  \/ \E i \in DOMAIN asks : asks[i].live
  \/ stale
  \/ figure.tabs = tabs /\ figure.at >= seen

(* A card stands for a draft, and so does what its buttons started.        *)
CardHasDraft ==
  /\ card.draft = G!Nothing => ~card.conflicted /\ ~card.armed
  /\ verb.kind # "none" /\ verb.mine => card.draft # G!Nothing

PagesInv ==
  G!TypeOK /\ AskedForNow /\ CurrentOrAsked /\ CardHasDraft /\ G!OverwriteWasRefusedFirst

(* A panel opens with its figures asked for and no card.                   *)
LEMMA PagesInit == ASSUME G!PagesAssumption PROVE G!Init => PagesInv
<1> SUFFICES ASSUME G!Init PROVE PagesInv
  OBVIOUS
<1>1. /\ tabs \in Tabs /\ seq = 0 /\ seen = 0 /\ asks = <<G!Asked(tabs)>>
      /\ figure = G!NoFigure /\ stale = FALSE
  BY DEF G!Init
<1>2. /\ draft = 0 /\ copy = 0 /\ card = G!NoCard /\ verb = G!Verb("none")
      /\ reloads = <<>> /\ warned = FALSE /\ presses = 0
  BY DEF G!Init, G!Nothing
<1>3. asks \in Seq([tabs : Tabs, at : -1 .. MaxSeq, live : BOOLEAN]) /\ asks[1].live
      /\ AskedForNow
  BY <1>1 DEF G!Asked, AskedForNow, G!PagesAssumption
<1>4. figure \in [tabs : Tabs, at : -1 .. MaxSeq]
  BY <1>1 DEF G!NoFigure, G!PagesAssumption
<1>5. /\ card \in [draft : 0 .. MaxSeq, conflicted : BOOLEAN, armed : BOOLEAN]
      /\ verb \in [kind : {"none", "approve", "overwrite", "reject"}, mine : BOOLEAN]
      /\ CardHasDraft /\ G!OverwriteWasRefusedFirst
  BY <1>2 DEF G!NoCard, G!Verb, G!Nothing, CardHasDraft, G!OverwriteWasRefusedFirst,
              G!PagesAssumption
<1>6. G!TypeOK
  <2>1. tabs \in Tabs /\ {seq, seen, draft, copy} \subseteq 0 .. MaxSeq /\ seen <= seq
    BY <1>1, <1>2 DEF G!PagesAssumption
  <2>2. reloads \in Seq(-1 .. MaxSeq) /\ presses \in 0 .. MaxPresses
    BY <1>2 DEF G!PagesAssumption
  <2>3. stale \in BOOLEAN /\ warned \in BOOLEAN
    BY <1>1, <1>2
  <2> QED
    BY <1>3, <1>4, <1>5, <2>1, <2>2, <2>3 DEF G!TypeOK
<1>7. CurrentOrAsked
  BY <1>1, <1>3 DEF CurrentOrAsked
<1> QED
  BY <1>3, <1>5, <1>6, <1>7 DEF PagesInv

(* Asking again gives up what was asked for before.                        *)
LEMMA EffectAsks ==
  ASSUME G!PagesAssumption, asks \in Seq([tabs : Tabs, at : -1 .. MaxSeq, live : BOOLEAN]),
         NEW t \in Tabs, G!Effect(t)
  PROVE  /\ asks' \in Seq([tabs : Tabs, at : -1 .. MaxSeq, live : BOOLEAN])
         /\ \E i \in DOMAIN asks' : asks'[i].live
         /\ \A i \in DOMAIN asks' : asks'[i].live => asks'[i].tabs = t /\ asks'[i].at = -1
<1> DEFINE T == [tabs : Tabs, at : -1 .. MaxSeq, live : BOOLEAN]
           given == [i \in DOMAIN asks |-> [asks[i] EXCEPT !.live = FALSE]]
<1>1. asks' = Append(given, G!Asked(t))
  BY DEF G!Effect
<1>2. G!Asked(t) \in T /\ G!Asked(t).live /\ G!Asked(t).tabs = t /\ G!Asked(t).at = -1
  BY DEF G!Asked, G!PagesAssumption
<1>3. \A i \in 1..Len(asks) : asks[i] \in T
  <2>1. asks \in Seq(T)
    OBVIOUS
  <2> HIDE DEF T
  <2> QED
    BY <2>1
<1>4. given \in Seq(T) /\ Len(given) = Len(asks) /\ \A i \in 1..Len(asks) : ~given[i].live
  <2>1. given = [i \in 1..Len(asks) |-> [asks[i] EXCEPT !.live = FALSE]]
    OBVIOUS
  <2>2. \A i \in 1..Len(asks) : given[i] \in T /\ ~given[i].live
    BY <1>3, <2>1
  <2> QED
    BY <2>1, <2>2
<1> HIDE DEF given, T
<1>5. /\ asks' \in Seq(T) /\ Len(asks') = Len(asks) + 1 /\ asks'[Len(asks) + 1] = G!Asked(t)
      /\ \A i \in 1..Len(asks) : asks'[i] = given[i]
  BY <1>1, <1>2, <1>4
<1>6. DOMAIN asks' = 1..Len(asks) + 1
  BY <1>5
<1>7. \A i \in DOMAIN asks' : i # Len(asks) + 1 => ~asks'[i].live
  BY <1>4, <1>5, <1>6
<1>8. Len(asks) + 1 \in DOMAIN asks'
  BY <1>6
<1> QED
  BY <1>2, <1>5, <1>7, <1>8 DEF T

(* Figures are asked for, summed and shown as those of the chosen tabs.    *)
LEMMA FiguresKeep ==
  ASSUME G!PagesAssumption, PagesInv, G!Figures PROVE PagesInv'
<1> DEFINE T == [tabs : Tabs, at : -1 .. MaxSeq, live : BOOLEAN]
<1>1. UNCHANGED <<draft, copy, card, verb, reloads, warned, presses>>
  BY DEF G!Figures, G!review
<1>2. asks \in Seq(T) /\ tabs \in Tabs /\ seq \in 0 .. MaxSeq /\ seen \in 0 .. MaxSeq /\ seen <= seq
      /\ figure \in [tabs : Tabs, at : -1 .. MaxSeq] /\ stale \in BOOLEAN
  BY DEF PagesInv, G!TypeOK
<1> DEFINE Typed == /\ tabs \in Tabs /\ seq \in 0 .. MaxSeq /\ seen \in 0 .. MaxSeq /\ seen <= seq
                    /\ asks \in Seq(T) /\ figure \in [tabs : Tabs, at : -1 .. MaxSeq]
                    /\ stale \in BOOLEAN
<1>3. SUFFICES Typed' /\ AskedForNow' /\ CurrentOrAsked'
  <2>1. ASSUME Typed' PROVE G!TypeOK'
    <3>1. /\ draft \in 0 .. MaxSeq /\ copy \in 0 .. MaxSeq
          /\ card \in [draft : 0 .. MaxSeq, conflicted : BOOLEAN, armed : BOOLEAN]
          /\ verb \in [kind : {"none", "approve", "overwrite", "reject"}, mine : BOOLEAN]
          /\ warned \in BOOLEAN /\ reloads \in Seq(-1 .. MaxSeq) /\ presses \in 0 .. MaxPresses
      BY DEF PagesInv, G!TypeOK
    <3> QED
      BY <1>1, <2>1, <3>1 DEF G!TypeOK
  <2>2. CardHasDraft' /\ G!OverwriteWasRefusedFirst'
    BY <1>1 DEF PagesInv, CardHasDraft, G!OverwriteWasRefusedFirst
  <2> HIDE DEF Typed
  <2> QED
    BY <2>1, <2>2 DEF PagesInv
<1>4. CASE G!Tick \/ \E t \in Tabs : G!SetTab(t)
  <2>1. /\ seq' = seq /\ seen' \in seen .. seq /\ tabs' \in Tabs /\ G!Effect(tabs')
    BY <1>2, <1>4 DEF G!Tick, G!SetTab
  <2>2. figure' = figure /\ stale' = stale
    BY <2>1 DEF G!Effect
  <2>3. PICK t \in Tabs : t = tabs' /\ G!Effect(t)
    BY <2>1
  <2>4. /\ asks' \in Seq(T) /\ \E i \in DOMAIN asks' : asks'[i].live
        /\ \A i \in DOMAIN asks' : asks'[i].live => asks'[i].tabs = t /\ asks'[i].at = -1
    BY <1>2, <2>3, EffectAsks
  <2>5. Typed'
    BY <1>2, <2>1, <2>2, <2>4 DEF G!PagesAssumption
  <2>6. AskedForNow' /\ CurrentOrAsked'
    BY <2>3, <2>4 DEF AskedForNow, CurrentOrAsked
  <2> QED
    BY <2>5, <2>6
<1>5. CASE G!Recorded
  <2>1. /\ seq < MaxSeq /\ seq' = seq + 1 /\ tabs' = tabs /\ seen' = seen /\ asks' = asks
        /\ figure' = figure /\ stale' = stale
    BY <1>5 DEF G!Recorded
  <2>2. Typed'
    BY <1>2, <2>1 DEF G!PagesAssumption
  <2>3. AskedForNow' /\ CurrentOrAsked'
    BY <2>1 DEF PagesInv, AskedForNow, CurrentOrAsked
  <2> QED
    BY <2>2, <2>3
<1>6. CASE \E i \in DOMAIN asks : G!DaemonSums(i)
  <2>1. PICK i \in DOMAIN asks : G!DaemonSums(i)
    BY <1>6
  <2>2. /\ asks[i].at = -1 /\ asks' = [asks EXCEPT ![i] = [asks[i] EXCEPT !.at = seq]]
        /\ UNCHANGED <<tabs, seq, seen, figure, stale>>
    BY <2>1 DEF G!DaemonSums
  <2>3. asks[i] \in T /\ [asks[i] EXCEPT !.at = seq] \in T
    <3>1. asks[i] \in T
      <4> HIDE DEF T
      <4> QED
        BY <1>2
    <3> QED
      BY <1>2, <3>1
  <2>4. /\ asks' \in Seq(T) /\ DOMAIN asks' = DOMAIN asks /\ asks'[i] = [asks[i] EXCEPT !.at = seq]
        /\ \A j \in DOMAIN asks : j # i => asks'[j] = asks[j]
    <3> HIDE DEF T
    <3> QED
      BY <1>2, <2>2, <2>3
  <2>5. asks'[i].live = asks[i].live /\ asks'[i].tabs = asks[i].tabs /\ asks'[i].at = seq
    BY <2>3, <2>4
  <2>6. AskedForNow'
    BY <1>2, <2>2, <2>4, <2>5 DEF PagesInv, AskedForNow
  <2>7. CurrentOrAsked'
    BY <2>2, <2>4, <2>5 DEF PagesInv, CurrentOrAsked
  <2>8. Typed'
    BY <1>2, <2>2, <2>4
  <2> QED
    BY <2>6, <2>7, <2>8
<1>7. CASE \E i \in DOMAIN asks : G!FetchEnds(i)
  <2>1. PICK i \in DOMAIN asks : G!FetchEnds(i)
    BY <1>7
  <2>2. DOMAIN asks = 1..Len(asks) /\ asks[i] \in T /\ asks \in Seq(T)
    <3>1. asks \in Seq(T)
      BY <1>2
    <3> HIDE DEF T
    <3> QED
      BY <3>1
  <2>3. asks' = SubSeq(asks, 1, i - 1) \o SubSeq(asks, i + 1, Len(asks))
        /\ UNCHANGED <<tabs, seq, seen>>
    BY <2>1 DEF G!FetchEnds, G!RemoveAt
  <2> HIDE DEF T
  <2>4. /\ asks' \in Seq(T)
        /\ \A j \in 1..Len(asks') : \E k \in 1..Len(asks) : k # i /\ asks'[j] = asks[k]
        /\ \A k \in 1..Len(asks) : k # i => \E j \in 1..Len(asks') : asks'[j] = asks[k]
    <3>1. i \in 1..Len(asks)
      BY <2>1, <2>2
    <3>2. asks \in Seq(T) /\ asks' = SubSeq(asks, 1, i - 1) \o SubSeq(asks, i + 1, Len(asks))
      BY <2>2, <2>3
    <3>3. asks' \in Seq(T) /\ Rest(asks', asks, i)
      BY <3>1, <3>2, Removed, Zenon
    <3> QED
      BY <3>3 DEF Rest
  <2>5. DOMAIN asks' = 1..Len(asks')
    BY <2>4
  <2>6. AskedForNow'
    <3> SUFFICES ASSUME NEW j \in DOMAIN asks', asks'[j].live
                 PROVE  asks'[j].tabs = tabs' /\ (asks'[j].at = -1 \/ asks'[j].at >= seen')
      BY DEF AskedForNow
    <3>1. PICK k \in DOMAIN asks : asks'[j] = asks[k]
      BY <2>2, <2>4, <2>5
    <3> QED
      BY <2>3, <3>1 DEF PagesInv, AskedForNow
  <2>7. \/ ~asks[i].live /\ UNCHANGED <<figure, stale>>
        \/ asks[i].live /\ stale' = TRUE /\ figure' = figure
        \/ /\ asks[i].live /\ asks[i].at >= 0 /\ stale' = FALSE
           /\ figure' = [tabs |-> asks[i].tabs, at |-> asks[i].at]
    BY <2>1 DEF G!FetchEnds
  <2>8. CurrentOrAsked'
    <3>1. CASE asks[i].live /\ stale'
      BY <3>1 DEF CurrentOrAsked
    <3>2. CASE asks[i].live /\ ~stale'
      <4>1. asks[i].tabs = tabs /\ asks[i].at >= seen
        BY <2>2, <2>7, <3>2 DEF PagesInv, AskedForNow
      <4>2. figure'.tabs = tabs /\ figure'.at >= seen
        BY <2>7, <3>2, <4>1
      <4> QED
        BY <2>3, <4>2 DEF CurrentOrAsked
    <3>3. CASE ~asks[i].live
      <4>1. UNCHANGED <<figure, stale>>
        BY <2>7, <3>3
      <4>2. CASE \E k \in DOMAIN asks : asks[k].live
        <5>1. PICK k \in DOMAIN asks : asks[k].live
          BY <4>2
        <5>2. \E j \in DOMAIN asks' : asks'[j] = asks[k]
          BY <2>2, <2>4, <2>5, <3>3, <5>1
        <5> QED
          BY <5>1, <5>2 DEF CurrentOrAsked
      <4>3. CASE stale \/ (figure.tabs = tabs /\ figure.at >= seen)
        BY <2>3, <4>1, <4>3 DEF CurrentOrAsked
      <4> QED
        BY <4>2, <4>3 DEF PagesInv, CurrentOrAsked
    <3> QED
      BY <3>1, <3>2, <3>3
  <2>9. figure' \in [tabs : Tabs, at : -1 .. MaxSeq] /\ stale' \in BOOLEAN
    <3>1. asks[i].tabs \in Tabs /\ asks[i].at \in -1 .. MaxSeq
      BY <2>2 DEF T
    <3>2. [tabs |-> asks[i].tabs, at |-> asks[i].at] \in [tabs : Tabs, at : -1 .. MaxSeq]
      BY <3>1
    <3>3. figure' \in {figure, [tabs |-> asks[i].tabs, at |-> asks[i].at]}
          /\ stale' \in {stale, TRUE, FALSE}
      BY <2>7, Zenon
    <3> QED
      BY <1>2, <3>2, <3>3
  <2>10. Typed'
    BY <1>2, <2>3, <2>4, <2>9 DEF T
  <2> QED
    BY <2>6, <2>8, <2>10
<1> QED
  BY <1>4, <1>5, <1>6, <1>7 DEF G!Figures

(* A card is marked only by the daemon's refusal, and goes with its draft. *)
LEMMA ReviewKeeps ==
  ASSUME G!PagesAssumption, PagesInv, G!Review PROVE PagesInv'
<1>1. UNCHANGED <<tabs, seen, asks, figure, stale>>
  BY DEF G!Review
<1>2. /\ seq \in 0 .. MaxSeq /\ seen <= seq /\ seen \in 0 .. MaxSeq
      /\ draft \in 0 .. MaxSeq /\ copy \in 0 .. MaxSeq
      /\ card \in [draft : 0 .. MaxSeq, conflicted : BOOLEAN, armed : BOOLEAN]
      /\ verb \in [kind : {"none", "approve", "overwrite", "reject"}, mine : BOOLEAN]
      /\ warned \in BOOLEAN /\ reloads \in Seq(-1 .. MaxSeq) /\ presses \in 0 .. MaxPresses
  BY DEF PagesInv, G!TypeOK
<1>3. /\ card.draft = 0 => ~card.conflicted /\ ~card.armed
      /\ verb.kind # "none" /\ verb.mine => card.draft # 0
      /\ card.conflicted \/ (verb.kind = "overwrite" /\ verb.mine) => warned
  BY DEF PagesInv, CardHasDraft, G!OverwriteWasRefusedFirst, G!Nothing
<1> DEFINE Typed == /\ seq \in 0 .. MaxSeq /\ seen <= seq
                    /\ draft \in 0 .. MaxSeq /\ copy \in 0 .. MaxSeq
                    /\ reloads \in Seq(-1 .. MaxSeq) /\ presses \in 0 .. MaxPresses
           Refusals == {"unreachable", "not found", "already exists"}
           Marked == /\ card \in [draft : 0 .. MaxSeq, conflicted : BOOLEAN, armed : BOOLEAN]
                     /\ verb \in [kind : {"none", "approve", "overwrite", "reject"}, mine : BOOLEAN]
                     /\ warned \in BOOLEAN
                     /\ card.draft = 0 => ~card.conflicted /\ ~card.armed
                     /\ verb.kind # "none" /\ verb.mine => card.draft # 0
                     /\ card.conflicted \/ (verb.kind = "overwrite" /\ verb.mine) => warned
<1>4. SUFFICES Typed' /\ Marked'
  <2>1. ASSUME Typed', Marked' PROVE G!TypeOK'
    <3>1. /\ tabs \in Tabs /\ seen \in 0 .. MaxSeq
          /\ asks \in Seq([tabs : Tabs, at : -1 .. MaxSeq, live : BOOLEAN]) /\ stale \in BOOLEAN
          /\ figure \in [tabs : Tabs, at : -1 .. MaxSeq]
      BY DEF PagesInv, G!TypeOK
    <3> QED
      BY <1>1, <2>1, <3>1 DEF G!TypeOK
  <2>2. ASSUME Marked' PROVE CardHasDraft' /\ G!OverwriteWasRefusedFirst'
    BY <2>2 DEF CardHasDraft, G!OverwriteWasRefusedFirst, G!Nothing
  <2>3. AskedForNow' /\ CurrentOrAsked'
    BY <1>1 DEF PagesInv, AskedForNow, CurrentOrAsked
  <2> HIDE DEF Typed, Marked
  <2> QED
    BY <2>1, <2>2, <2>3 DEF PagesInv
<1>5. ASSUME presses' \in {presses, presses + 1}, presses < MaxPresses \/ presses' = presses
      PROVE  presses' \in 0 .. MaxPresses
  BY <1>2, <1>5 DEF G!PagesAssumption
<1>6. ASSUME G!Reload PROVE reloads' \in Seq(-1 .. MaxSeq)
  <2>1. -1 \in -1 .. MaxSeq
    BY DEF G!PagesAssumption
  <2>2. Append(reloads, -1) \in Seq(-1 .. MaxSeq)
    BY <1>2, <2>1
  <2> QED
    BY <1>2, <1>6, <2>2 DEF G!Reload
<1>7. CASE G!Mount /\ UNCHANGED seq
  <2>1. /\ G!Reload /\ UNCHANGED <<draft, copy, card, verb, warned, seq>>
        /\ presses < MaxPresses /\ presses' = presses + 1
    BY <1>7 DEF G!Mount, G!Presses
  <2> QED
    BY <1>1, <1>2, <1>3, <1>5, <1>6, <2>1
<1>8. CASE G!Approve /\ UNCHANGED seq
  <2>1. /\ UNCHANGED <<draft, copy, card, reloads, warned, seq>>
        /\ presses < MaxPresses /\ presses' = presses + 1 /\ card.draft # 0
        /\ verb' = [kind |-> IF card.conflicted THEN "overwrite" ELSE "approve", mine |-> TRUE]
    BY <1>8 DEF G!Approve, G!Presses, G!Verb, G!Nothing
  <2> QED
    BY <1>1, <1>2, <1>3, <1>5, <2>1
<1>9. CASE G!Arm /\ UNCHANGED seq
  <2>1. /\ UNCHANGED <<draft, copy, verb, reloads, warned, presses, seq>>
        /\ card' = [card EXCEPT !.armed = TRUE]
    BY <1>9 DEF G!Arm
  <2>2. card.draft # 0
    BY <1>9 DEF G!Arm, G!Nothing
  <2>3. /\ card' \in [draft : 0 .. MaxSeq, conflicted : BOOLEAN, armed : BOOLEAN]
        /\ card'.draft = card.draft /\ card'.conflicted = card.conflicted
    BY <1>2, <2>1
  <2>4. Marked'
    BY <1>2, <1>3, <2>1, <2>2, <2>3
  <2> QED
    BY <1>1, <1>2, <2>1, <2>4
<1>10. CASE G!Reject /\ UNCHANGED seq
  <2>1. /\ UNCHANGED <<draft, copy, card, reloads, warned, seq>>
        /\ presses < MaxPresses /\ presses' = presses + 1
        /\ verb' = [kind |-> "reject", mine |-> TRUE]
    BY <1>10 DEF G!Reject, G!Presses, G!Verb
  <2>2. card.armed
    BY <1>10 DEF G!Reject
  <2> QED
    BY <1>1, <1>2, <1>3, <1>5, <2>1, <2>2
<1>11. CASE (\E i \in DOMAIN reloads : G!DaemonLists(i)) /\ UNCHANGED seq
  <2>1. PICK i \in DOMAIN reloads : G!DaemonLists(i)
    BY <1>11
  <2>2. /\ UNCHANGED <<draft, copy, card, verb, warned, presses, seq>>
        /\ reloads' = [reloads EXCEPT ![i] = draft]
    BY <1>11, <2>1 DEF G!DaemonLists
  <2>3. draft \in -1 .. MaxSeq
    BY <1>2 DEF G!PagesAssumption
  <2>4. reloads' \in Seq(-1 .. MaxSeq)
    BY <1>2, <2>2, <2>3
  <2> QED
    BY <1>1, <1>2, <1>3, <2>2, <2>4
<1>12. CASE (\E i \in DOMAIN reloads : G!ListShown(i)) /\ UNCHANGED seq
  <2>1. PICK i \in DOMAIN reloads : G!ListShown(i)
    BY <1>12
  <2>2. /\ UNCHANGED <<draft, copy, presses, seq>>
        /\ reloads' = SubSeq(reloads, 1, i - 1) \o SubSeq(reloads, i + 1, Len(reloads))
        /\ \/ card' = card
           \/ card' = [draft |-> 0, conflicted |-> FALSE, armed |-> FALSE]
           \/ reloads[i] # -1 /\ reloads[i] # 0 /\ card' = [card EXCEPT !.draft = reloads[i]]
        /\ warned' = (warned /\ card'.draft # 0)
        /\ verb' = [verb EXCEPT !.mine = verb.mine /\ card'.draft # 0]
    BY <1>12, <2>1 DEF G!ListShown, G!RemoveAt, G!Nothing, G!NoCard
  <2>3. i \in 1..Len(reloads) /\ reloads[i] \in -1 .. MaxSeq /\ reloads \in Seq(-1 .. MaxSeq)
    <3>1. reloads \in Seq(-1 .. MaxSeq)
      BY <1>2
    <3> QED
      BY <2>1, <3>1, Elements, Zenon
  <2>4. reloads' \in Seq(-1 .. MaxSeq)
    BY <2>2, <2>3, Removed
  <2>5. /\ card' \in [draft : 0 .. MaxSeq, conflicted : BOOLEAN, armed : BOOLEAN]
        /\ card'.draft = 0 => ~card'.conflicted /\ ~card'.armed
        /\ card'.conflicted => card.conflicted /\ card'.draft # 0
    <3>1. CASE card' = card
      BY <1>2, <1>3, <3>1
    <3>2. CASE card' = [draft |-> 0, conflicted |-> FALSE, armed |-> FALSE]
      BY <3>2 DEF G!PagesAssumption
    <3>3. CASE reloads[i] # -1 /\ reloads[i] # 0 /\ card' = [card EXCEPT !.draft = reloads[i]]
      <4>1. reloads[i] \in 0 .. MaxSeq
        BY <2>3, <3>3
      <4> QED
        BY <1>2, <3>3, <4>1
    <3> QED
      BY <2>2, <3>1, <3>2, <3>3
  <2>6. /\ verb' \in [kind : {"none", "approve", "overwrite", "reject"}, mine : BOOLEAN]
        /\ verb'.kind = verb.kind /\ verb'.mine = (verb.mine /\ card'.draft # 0)
    BY <1>2, <2>2
  <2>7. Marked'
    BY <1>2, <1>3, <2>2, <2>5, <2>6
  <2> QED
    BY <1>1, <1>2, <2>2, <2>4, <2>7
<1>13. CASE G!Answered /\ UNCHANGED seq
  <2>1. verb.kind # "none" /\ verb' = [kind |-> "none", mine |-> TRUE] /\ presses' = presses
    BY <1>13 DEF G!Answered, G!Verb
  <2>2. ASSUME NEW refusal, G!Fails(refusal)
        PROVE  /\ card' \in [draft : 0 .. MaxSeq, conflicted : BOOLEAN, armed : BOOLEAN]
               /\ card'.draft = 0 => ~card'.conflicted /\ ~card'.armed
               /\ card'.conflicted => warned'
               /\ warned' \in BOOLEAN
    <3>1. CASE verb.kind = "reject" \/ ~verb.mine
      BY <1>2, <1>3, <2>2, <3>1 DEF G!Fails
    <3>2. CASE ~(verb.kind = "reject" \/ ~verb.mine)
      <4>1. /\ card' = [card EXCEPT !.conflicted = (refusal = "already exists")]
            /\ warned' = (refusal = "already exists")
        BY <2>2, <3>2 DEF G!Fails, G!Conflicted
      <4> QED
        BY <1>2, <1>3, <2>1, <3>2, <4>1
    <3> QED
      BY <3>1, <3>2
  <2>3. /\ draft' \in {0, draft} /\ copy' \in {copy, draft}
        /\ \/ \E refusal \in Refusals : G!Fails(refusal)
           \/ UNCHANGED <<card, warned>>
        /\ reloads' = reloads \/ G!Reload
    <3>2. \/ \E refusal \in Refusals : G!Refused(refusal)
          \/ /\ draft' = 0 /\ copy' \in {copy, draft}
             /\ \/ G!Reload /\ UNCHANGED <<card, warned>>
                \/ reloads' = reloads /\ G!Fails("unreachable")
      BY <1>13 DEF G!Answered, G!Nothing
    <3> QED
      BY <3>2 DEF G!Refused
  <2>4. Marked'
    <3>1. /\ verb' \in [kind : {"none", "approve", "overwrite", "reject"}, mine : BOOLEAN]
          /\ verb'.kind = "none"
      BY <2>1
    <3>2. CASE \E refusal \in Refusals : G!Fails(refusal)
      BY <2>2, <3>1, <3>2
    <3>3. CASE UNCHANGED <<card, warned>>
      BY <1>2, <1>3, <3>1, <3>3
    <3> HIDE DEF Marked
    <3> QED
      BY <2>3, <3>2, <3>3
  <2>5. reloads' \in Seq(-1 .. MaxSeq)
    BY <1>2, <1>6, <2>3
  <2>6. Typed'
    <3>1. draft' \in {0, draft} /\ copy' \in {copy, draft}
      BY <2>3
    <3>2. draft' \in 0 .. MaxSeq /\ copy' \in 0 .. MaxSeq
      BY <1>2, <3>1 DEF G!PagesAssumption
    <3> QED
      BY <1>1, <1>2, <1>13, <2>1, <2>5, <3>2
  <2> QED
    BY <2>4, <2>6
<1>14. CASE G!OthersAct
  <2>1. /\ seq < MaxSeq /\ seq' = seq + 1 /\ UNCHANGED <<card, verb, reloads, warned, presses>>
        /\ draft' \in {draft, seq', 0} /\ copy' \in {copy, draft, 0}
    BY <1>14 DEF G!OthersAct, G!Nothing
  <2> QED
    BY <1>1, <1>2, <1>3, <2>1 DEF G!PagesAssumption
<1> QED
  BY <1>7, <1>8, <1>9, <1>10, <1>11, <1>12, <1>13, <1>14 DEF G!Review

(* Each step of a panel and of those it shows keeps what its state means.  *)
LEMMA PagesNext ==
  ASSUME G!PagesAssumption PROVE PagesInv /\ [G!Next]_(G!vars) => PagesInv'
<1> SUFFICES ASSUME PagesInv, [G!Next]_(G!vars) PROVE PagesInv'
  OBVIOUS
<1>1. CASE UNCHANGED G!vars
  <2>1. UNCHANGED <<tabs, seq, seen, asks, figure, stale, draft, copy, card, verb, reloads,
                    warned, presses>>
    BY <1>1 DEF G!vars, G!figures, G!review
  <2> QED
    BY <2>1 DEF PagesInv, G!TypeOK, AskedForNow, CurrentOrAsked, CardHasDraft,
                G!OverwriteWasRefusedFirst
<1> QED
  BY <1>1, FiguresKeep, ReviewKeeps DEF G!Next

(***************************************************************************)
(* The registry's page.                                                    *)
(***************************************************************************)
(* What a request may send of a model's facts.                             *)
Edited == UNION {[D -> Names \cup Prices] : D \in SUBSET E!Fields}
Requests == [at : {"sent", "done"}, mine : BOOLEAN, facts : Edited, on : BOOLEAN,
             switch : BOOLEAN, warned : BOOLEAN, typed : SUBSET E!Fields, under : BOOLEAN]

EditorsTyped ==
  /\ row \in E!Row /\ shown \in E!Row
  /\ form \in [E!Fields -> Names \cup Prices \cup {"x"}]
  /\ \A f \in E!Fields : form[f] \in E!Values(f) \cup {"x"}
  /\ opened \in BOOLEAN /\ touched \subseteq E!Fields /\ under \in BOOLEAN
  /\ returned \in BOOLEAN /\ mode \in {"skip", "overwrite"}
  /\ patches \in Seq(Requests) /\ loads \in Seq(E!Row \cup {E!Asked})

(* A request sends facts of the model, and the switch none.                *)
SendsFacts ==
  \A i \in DOMAIN patches :
    /\ \A f \in DOMAIN patches[i].facts : patches[i].facts[f] \in E!Values(f)
    /\ patches[i].switch => DOMAIN patches[i].facts = {}

(* Unless somebody else wrote the row, what the user left alone is the row's, *)
(* in the form and in a request that has not arrived.                      *)
LeftAlone ==
  /\ opened /\ ~under => \A f \in E!Fields \ touched : form[f] = row.facts[f]
  /\ \A i \in DOMAIN patches :
       patches[i].at = "sent" /\ ~patches[i].under =>
         \A f \in (DOMAIN patches[i].facts) \ patches[i].typed :
           patches[i].facts[f] = row.facts[f]

(* A form has one request of its own at a time, which knows no more than it. *)
OneRequest ==
  /\ \A i \in DOMAIN patches :
       patches[i].mine => /\ opened /\ patches[i].typed \subseteq touched
                          /\ patches[i].under => under
  /\ \A i, j \in DOMAIN patches : patches[i].mine /\ patches[j].mine => i = j

(* Nobody has been shown that a row left the sync path that has not.       *)
ShownSynced ==
  ~returned /\ row.source = "synced" =>
    /\ shown.source = "synced"
    /\ \A i \in DOMAIN loads : loads[i].source = "synced"
    /\ \A i \in DOMAIN patches : patches[i].switch \/ patches[i].warned

EditorsInv ==
  /\ EditorsTyped /\ SendsFacts /\ LeftAlone /\ OneRequest /\ ShownSynced
  /\ E!CountsDescribeTheButton

(* The page opens on the row as it is.                                     *)
LEMMA EditorsInit == ASSUME E!EditorsAssumption PROVE E!Init => EditorsInv
<1> SUFFICES ASSUME E!Init PROVE EditorsInv
  OBVIOUS
<1>1. /\ row \in E!Row /\ shown = row /\ opened = FALSE /\ form = row.facts /\ touched = {}
      /\ under = FALSE /\ patches = <<>> /\ loads = <<>> /\ returned = FALSE
      /\ stage = "idle" /\ mode = "skip"
  BY DEF E!Init
<1>2. row.facts \in E!Facts
  BY <1>1 DEF E!Row
<1>3. EditorsTyped
  <2>1. /\ form \in [E!Fields -> Names \cup Prices]
        /\ \A f \in E!Fields : form[f] \in E!Values(f)
    BY <1>1, <1>2 DEF E!Facts
  <2>2. form \in [E!Fields -> Names \cup Prices \cup {"x"}]
    BY <2>1
  <2>3. patches \in Seq(Requests) /\ loads \in Seq(E!Row \cup {E!Asked})
    BY <1>1
  <2> QED
    BY <1>1, <2>1, <2>2, <2>3 DEF EditorsTyped
<1>4. SendsFacts /\ LeftAlone /\ OneRequest /\ ShownSynced /\ E!CountsDescribeTheButton
  BY <1>1 DEF SendsFacts, LeftAlone, OneRequest, ShownSynced, E!CountsDescribeTheButton
<1> QED
  BY <1>3, <1>4 DEF EditorsInv

(* The row a request makes of the one that is there.                       *)
LEMMA PatchedRow ==
  ASSUME NEW r \in E!Row, NEW p \in Requests,
         \A f \in DOMAIN p.facts : p.facts[f] \in E!Values(f)
  PROVE  /\ E!Patched(r, p) \in E!Row
         /\ \A f \in E!Fields : E!Patched(r, p).facts[f]
                                  = IF f \in DOMAIN p.facts THEN p.facts[f] ELSE r.facts[f]
         /\ DOMAIN p.facts = {} => E!Patched(r, p).source = r.source
         /\ E!Patched(r, p).source # r.source => E!Patched(r, p).source = "manual"
<1> DEFINE facts == [f \in E!Fields |-> IF f \in DOMAIN p.facts THEN p.facts[f] ELSE r.facts[f]]
<1>1. r.facts \in E!Facts /\ r.on \in BOOLEAN /\ r.source \in {"synced", "manual"}
  BY DEF E!Row
<1>2. p.on \in BOOLEAN /\ p.switch \in BOOLEAN
  BY DEF Requests
<1>3. \A f \in E!Fields : E!Values(f) \subseteq Names \cup Prices
  BY DEF E!Values
<1>4. \A f \in E!Fields : facts[f] \in E!Values(f)
  BY <1>1 DEF E!Facts
<1>5. facts \in E!Facts
  BY <1>3, <1>4 DEF E!Facts
<1>6. DOMAIN p.facts = {} => facts = r.facts
  BY <1>1 DEF E!Facts
<1> HIDE DEF facts
<1>7. E!Patched(r, p) = [facts |-> facts, on |-> IF p.switch THEN p.on ELSE r.on,
                         source |-> IF facts # r.facts THEN "manual" ELSE r.source]
  BY DEF E!Patched, facts
<1>8. E!Patched(r, p) \in E!Row
  BY <1>1, <1>2, <1>5, <1>7 DEF E!Row
<1>9. E!Patched(r, p).facts = facts
  BY <1>7
<1> QED
  BY <1>6, <1>7, <1>8, <1>9 DEF facts

(* What a request learns of others' writes.                                *)
LEMMA DisturbedRequest ==
  ASSUME NEW p \in Requests, NEW changed \in BOOLEAN
  PROVE  /\ E!Disturbed(p, changed) \in Requests
         /\ E!Disturbed(p, changed).at = p.at /\ E!Disturbed(p, changed).mine = p.mine
         /\ E!Disturbed(p, changed).facts = p.facts /\ E!Disturbed(p, changed).switch = p.switch
         /\ E!Disturbed(p, changed).warned = p.warned /\ E!Disturbed(p, changed).typed = p.typed
         /\ E!Disturbed(p, changed).under = (p.under \/ changed)
<1> DEFINE facts == Edited
<1>1. p \in [at : {"sent", "done"}, mine : BOOLEAN, facts : facts, on : BOOLEAN,
             switch : BOOLEAN, warned : BOOLEAN, typed : SUBSET E!Fields, under : BOOLEAN]
  BY DEF Requests
<1>2. E!Disturbed(p, changed) = [p EXCEPT !.under = p.under \/ changed]
  BY DEF E!Disturbed
<1>3. (p.under \/ changed) \in BOOLEAN
  BY <1>1
<1> HIDE DEF facts
<1>4. /\ [p EXCEPT !.under = p.under \/ changed] \in
             [at : {"sent", "done"}, mine : BOOLEAN, facts : facts, on : BOOLEAN,
              switch : BOOLEAN, warned : BOOLEAN, typed : SUBSET E!Fields, under : BOOLEAN]
      /\ [p EXCEPT !.under = p.under \/ changed].under = (p.under \/ changed)
  BY <1>1, <1>3
<1>5. /\ [p EXCEPT !.under = p.under \/ changed].at = p.at
      /\ [p EXCEPT !.under = p.under \/ changed].mine = p.mine
      /\ [p EXCEPT !.under = p.under \/ changed].facts = p.facts
      /\ [p EXCEPT !.under = p.under \/ changed].switch = p.switch
      /\ [p EXCEPT !.under = p.under \/ changed].warned = p.warned
      /\ [p EXCEPT !.under = p.under \/ changed].typed = p.typed
  BY <1>1
<1> QED
  BY <1>2, <1>4, <1>5 DEF Requests, facts

(* Another's write: the form and every request learn of it.                *)
LEMMA ElsewhereKeeps ==
  ASSUME EditorsInv, E!WrittenElsewhere, row' \in E!Row,
         UNCHANGED <<shown, opened, form, touched, mode>>,
         returned' \in BOOLEAN, loads' \in Seq(E!Row \cup {E!Asked}),
         \A i \in DOMAIN loads' : 
           loads'[i].source = "synced" \/ (i \in DOMAIN loads /\ loads'[i] = loads[i]),
         ~returned' => ~returned /\ (row'.source = "synced" => row.source = "synced")
  PROVE  EditorsTyped' /\ SendsFacts' /\ LeftAlone' /\ OneRequest' /\ ShownSynced'
<1> DEFINE changed == row' # row
<1>1. changed \in BOOLEAN
  OBVIOUS
<1>2. patches \in Seq(Requests)
  BY DEF EditorsInv, EditorsTyped
<1>3. under' = (under \/ changed)
  BY DEF E!WrittenElsewhere
<1>4. patches' = [i \in DOMAIN patches |-> E!Disturbed(patches[i], changed)]
  BY DEF E!WrittenElsewhere
<1>5. changed \/ row' = row
  OBVIOUS
<1> HIDE DEF changed
<1>6. \A i \in DOMAIN patches : patches[i] \in Requests
  BY <1>2, Elements
<1>7. DOMAIN patches' = DOMAIN patches
      /\ \A i \in DOMAIN patches : patches'[i] = E!Disturbed(patches[i], changed)
  BY <1>4
<1>8. \A i \in DOMAIN patches :
         /\ patches'[i] \in Requests
         /\ patches'[i].at = patches[i].at /\ patches'[i].mine = patches[i].mine
         /\ patches'[i].facts = patches[i].facts /\ patches'[i].switch = patches[i].switch
         /\ patches'[i].warned = patches[i].warned /\ patches'[i].typed = patches[i].typed
         /\ patches'[i].under = (patches[i].under \/ changed)
  BY <1>1, <1>6, <1>7, DisturbedRequest
<1>9. patches' \in Seq(Requests)
  <2>1. patches' = [i \in DOMAIN patches |-> patches'[i]]
    BY <1>4, <1>7
  <2>2. \A i \in DOMAIN patches : patches'[i] \in Requests
    BY <1>8
  <2> QED
    BY <1>2, <2>1, <2>2, Mapped
<1>10. EditorsTyped'
  <2>1. under' \in BOOLEAN
    BY <1>1, <1>3 DEF EditorsInv, EditorsTyped
  <2> QED
    BY <1>9, <2>1 DEF EditorsInv, EditorsTyped
<1>11. SendsFacts'
  BY <1>7, <1>8 DEF EditorsInv, SendsFacts
<1>12. LeftAlone'
  <2>1. CASE changed
    BY <1>3, <1>7, <1>8, <2>1 DEF LeftAlone
  <2>2. CASE ~changed
    <3>1. opened' /\ ~under' => \A f \in E!Fields \ touched' : form'[f] = row'.facts[f]
      BY <1>3, <1>5, <2>2 DEF EditorsInv, LeftAlone
    <3>2. ASSUME NEW i \in DOMAIN patches', patches'[i].at = "sent", ~patches'[i].under,
                 NEW f \in (DOMAIN patches'[i].facts) \ patches'[i].typed
          PROVE  patches'[i].facts[f] = row'.facts[f]
      <4>1. /\ i \in DOMAIN patches /\ patches[i].at = "sent" /\ ~patches[i].under
            /\ f \in (DOMAIN patches[i].facts) \ patches[i].typed
            /\ patches'[i].facts = patches[i].facts
        BY <1>7, <1>8, <3>2
      <4> QED
        BY <1>5, <2>2, <4>1 DEF EditorsInv, LeftAlone
    <3> QED
      BY <3>1, <3>2 DEF LeftAlone
  <2> QED
    BY <2>1, <2>2
<1>13. OneRequest'
  BY <1>3, <1>7, <1>8 DEF EditorsInv, OneRequest
<1>14. ShownSynced'
  BY <1>7, <1>8 DEF EditorsInv, ShownSynced
<1> QED
  BY <1>10, <1>11, <1>12, <1>13, <1>14

(* The requests of a form that goes are nobody's.                          *)
LEMMA CloseKeeps == ASSUME EditorsInv, E!Close PROVE EditorsInv'
<1>1. /\ opened' = FALSE
      /\ patches' = [i \in DOMAIN patches |-> [patches[i] EXCEPT !.mine = FALSE]]
      /\ UNCHANGED <<row, shown, form, touched, under, loads, stage, mode, report, returned>>
  BY DEF E!Close, E!importing
<1>2. patches \in Seq(Requests) /\ \A i \in DOMAIN patches : patches[i] \in Requests
  <2>1. patches \in Seq(Requests)
    BY DEF EditorsInv, EditorsTyped
  <2> QED
    BY <2>1, Elements
<1>3. DOMAIN patches' = DOMAIN patches
      /\ \A i \in DOMAIN patches : patches'[i] = [patches[i] EXCEPT !.mine = FALSE]
  BY <1>1
<1>4. ASSUME NEW p \in Requests, NEW q, q = [p EXCEPT !.mine = FALSE]
      PROVE  /\ q \in Requests /\ q.at = p.at /\ ~q.mine /\ q.facts = p.facts
             /\ q.switch = p.switch /\ q.warned = p.warned /\ q.typed = p.typed
             /\ q.under = p.under
  BY <1>4 DEF Requests
<1>5. \A i \in DOMAIN patches :
         /\ patches'[i] \in Requests /\ ~patches'[i].mine
         /\ patches'[i].at = patches[i].at /\ patches'[i].facts = patches[i].facts
         /\ patches'[i].switch = patches[i].switch /\ patches'[i].warned = patches[i].warned
         /\ patches'[i].typed = patches[i].typed /\ patches'[i].under = patches[i].under
  BY <1>2, <1>3, <1>4
<1>6. patches' \in Seq(Requests)
  <2>1. patches' = [i \in DOMAIN patches |-> patches'[i]]
    BY <1>1, <1>3
  <2> QED
    BY <1>2, <1>5, <2>1, Mapped
<1>7. EditorsTyped'
  BY <1>1, <1>6 DEF EditorsInv, EditorsTyped
<1>8. SendsFacts' /\ OneRequest'
  BY <1>1, <1>3, <1>5 DEF EditorsInv, SendsFacts, OneRequest
<1>9. LeftAlone'
  BY <1>1, <1>3, <1>5 DEF EditorsInv, LeftAlone
<1>10. ShownSynced' /\ E!CountsDescribeTheButton'
  BY <1>1, <1>3, <1>5 DEF EditorsInv, ShownSynced, E!CountsDescribeTheButton
<1> QED
  BY <1>7, <1>8, <1>9, <1>10 DEF EditorsInv

(* A form is filled from the row shown, and then the user types in it.     *)
LEMMA FormKeeps ==
  ASSUME E!EditorsAssumption, EditorsInv,
         \/ E!Open
         \/ \E f \in E!Fields : \E text \in E!Values(f) \cup (IF f = "in" THEN {"x"} ELSE {}) :
              E!Type(f, text)
  PROVE  EditorsInv'
<1>1. CASE E!Open
  <2>1. /\ ~opened /\ opened' = TRUE /\ form' = shown.facts /\ touched' = {}
        /\ under' = (shown # row)
        /\ UNCHANGED <<row, shown, patches, loads, stage, mode, report, returned>>
    BY <1>1 DEF E!Open, E!importing
  <2>2. shown.facts \in E!Facts
    BY DEF EditorsInv, EditorsTyped, E!Row
  <2>3. /\ form' \in [E!Fields -> Names \cup Prices \cup {"x"}]
        /\ \A f \in E!Fields : form'[f] \in E!Values(f) \cup {"x"}
    <3>1. form' \in [E!Fields -> Names \cup Prices] /\ \A f \in E!Fields : form'[f] \in E!Values(f)
      BY <2>1, <2>2 DEF E!Facts
    <3>2. form' \in [E!Fields -> Names \cup Prices \cup {"x"}]
      BY <3>1
    <3> QED
      BY <3>1, <3>2
  <2>4. under' \in BOOLEAN
    BY <2>1
  <2>5. EditorsTyped'
    BY <2>1, <2>3, <2>4 DEF EditorsInv, EditorsTyped
  <2>6. LeftAlone'
    BY <2>1 DEF EditorsInv, LeftAlone
  <2>7. OneRequest'
    BY <2>1 DEF EditorsInv, OneRequest
  <2>8. SendsFacts' /\ ShownSynced' /\ E!CountsDescribeTheButton'
    BY <2>1 DEF EditorsInv, SendsFacts, ShownSynced, E!CountsDescribeTheButton
  <2> QED
    BY <2>5, <2>6, <2>7, <2>8 DEF EditorsInv
<1>2. ASSUME NEW f \in E!Fields, NEW text \in E!Values(f) \cup (IF f = "in" THEN {"x"} ELSE {}),
             E!Type(f, text)
      PROVE  EditorsInv'
  <2>1. /\ form' = [form EXCEPT ![f] = text] /\ touched' = touched \cup {f}
        /\ UNCHANGED <<row, shown, opened, under, patches, loads, stage, mode, report, returned>>
    BY <1>2 DEF E!Type, E!importing
  <2>2. text \in E!Values(f) \cup {"x"} /\ E!Values(f) \subseteq Names \cup Prices
    BY DEF E!Values
  <2>3. /\ form' \in [E!Fields -> Names \cup Prices \cup {"x"}]
        /\ form'[f] = text /\ \A g \in E!Fields \ {f} : form'[g] = form[g]
    BY <2>1, <2>2 DEF EditorsInv, EditorsTyped
  <2>4. \A g \in E!Fields : form'[g] \in E!Values(g) \cup {"x"}
    BY <2>2, <2>3 DEF EditorsInv, EditorsTyped
  <2>5. EditorsTyped'
    BY <2>1, <2>3, <2>4 DEF EditorsInv, EditorsTyped
  <2>6. LeftAlone'
    BY <2>1, <2>3 DEF EditorsInv, LeftAlone
  <2>7. OneRequest'
    BY <2>1 DEF EditorsInv, OneRequest
  <2>8. SendsFacts' /\ ShownSynced' /\ E!CountsDescribeTheButton'
    BY <2>1 DEF EditorsInv, SendsFacts, ShownSynced, E!CountsDescribeTheButton
  <2> QED
    BY <2>5, <2>6, <2>7, <2>8 DEF EditorsInv
<1> QED
  BY <1>1, <1>2

(* A form that is not busy sends one request more.                         *)
LEMMA SendingKeeps ==
  ASSUME EditorsInv, opened, ~E!Busy, NEW p \in Requests, patches' = Append(patches, p),
         p.typed \subseteq touched, p.under = under,
         \A f \in DOMAIN p.facts : p.facts[f] \in E!Values(f),
         p.switch => DOMAIN p.facts = {},
         ~under => \A f \in (DOMAIN p.facts) \ p.typed : p.facts[f] = row.facts[f],
         shown.source = "synced" => p.switch \/ p.warned,
         UNCHANGED <<row, shown, opened, form, touched, under, loads, stage, mode, report,
                     returned>>
  PROVE  EditorsInv'
<1> DEFINE n == Len(patches) + 1
<1>1. patches \in Seq(Requests)
  BY DEF EditorsInv, EditorsTyped
<1>2. /\ patches' \in Seq(Requests) /\ patches'[n] = p /\ n \in DOMAIN patches' /\ n \notin DOMAIN patches
      /\ \A i \in DOMAIN patches : i \in DOMAIN patches' /\ patches'[i] = patches[i]
      /\ \A i \in DOMAIN patches' : i \in DOMAIN patches \/ i = n
  <2>1. PICK q : q = Append(patches, p)
    OBVIOUS
  <2>2. /\ q \in Seq(Requests) /\ q[n] = p /\ DOMAIN q = 1..Len(patches) + 1 /\ n \notin DOMAIN patches
        /\ \A i \in DOMAIN patches : i \in DOMAIN q /\ q[i] = patches[i]
        /\ \A i \in DOMAIN q : i \in DOMAIN patches \/ i = n
    BY <1>1, <2>1, Appended
  <2>3. n \in 1..Len(patches) + 1
    BY <1>1
  <2> HIDE DEF n
  <2> QED
    BY <2>1, <2>2, <2>3
<1> HIDE DEF n
<1>3. \A i \in DOMAIN patches : ~patches[i].mine
  BY DEF E!Busy
<1>4. EditorsTyped'
  BY <1>2 DEF EditorsInv, EditorsTyped
<1>5. SendsFacts'
  BY <1>2 DEF EditorsInv, SendsFacts
<1>6. LeftAlone'
  <2>1. opened' /\ ~under' => \A f \in E!Fields \ touched' : form'[f] = row'.facts[f]
    BY DEF EditorsInv, LeftAlone
  <2>2. ASSUME NEW i \in DOMAIN patches', patches'[i].at = "sent", ~patches'[i].under,
               NEW f \in (DOMAIN patches'[i].facts) \ patches'[i].typed
        PROVE  patches'[i].facts[f] = row'.facts[f]
    <3>1. CASE i = n
      BY <1>2, <2>2, <3>1
    <3>2. CASE i \in DOMAIN patches
      BY <1>2, <2>2, <3>2 DEF EditorsInv, LeftAlone
    <3> QED
      BY <1>2, <3>1, <3>2
  <2> QED
    BY <2>1, <2>2 DEF LeftAlone
<1>7. OneRequest'
  <2>1. ASSUME NEW i \in DOMAIN patches', patches'[i].mine PROVE i = n
    BY <1>2, <1>3, <2>1
  <2> QED
    BY <1>2, <2>1 DEF OneRequest
<1>8. ShownSynced'
  BY <1>2 DEF EditorsInv, ShownSynced
<1>9. E!CountsDescribeTheButton'
  BY DEF EditorsInv, E!CountsDescribeTheButton
<1> QED
  BY <1>4, <1>5, <1>6, <1>7, <1>8, <1>9 DEF EditorsInv

(* A save sends texts of the form, after a warning if the row was synced.  *)
LEMMA SaveKeeps == ASSUME EditorsInv, E!Save PROVE EditorsInv'
<1> DEFINE p == [at |-> "sent", mine |-> TRUE, facts |-> E!BuildPatch, on |-> row.on,
                 switch |-> FALSE, warned |-> E!WillPromote, typed |-> touched, under |-> under]
<1>1. /\ opened /\ ~E!Busy /\ E!Dirty # {} /\ \A f \in E!Sent : form[f] # "x"
      /\ patches' = Append(patches, p)
      /\ UNCHANGED <<row, shown, opened, form, touched, under, loads, stage, mode, report, returned>>
  BY DEF E!Save, E!PatchModel, E!importing
<1>2. E!Sent \subseteq E!Fields
  BY DEF E!Sent, E!Dirty, E!Fields
<1>3. /\ DOMAIN E!BuildPatch = E!Sent
      /\ \A f \in E!Sent : E!BuildPatch[f] = form[f] /\ form[f] \in E!Values(f)
      /\ E!BuildPatch = [f \in E!Sent |-> E!BuildPatch[f]]
  BY <1>1, <1>2 DEF E!BuildPatch, E!Numeric, EditorsInv, EditorsTyped
<1>4. E!BuildPatch \in Edited
  <2>1. \A f \in E!Sent : E!BuildPatch[f] \in Names \cup Prices
    BY <1>3 DEF E!Values
  <2>2. E!BuildPatch \in [E!Sent -> Names \cup Prices]
    BY <1>3, <2>1
  <2> QED
    BY <1>2, <2>2 DEF Edited
<1>5. /\ row.on \in BOOLEAN /\ E!WillPromote \in BOOLEAN /\ touched \in SUBSET E!Fields
      /\ under \in BOOLEAN
  BY DEF EditorsInv, EditorsTyped, E!Row, E!WillPromote
<1>6. p \in Requests /\ p.facts = E!BuildPatch /\ p.switch = FALSE /\ p.warned = E!WillPromote
      /\ p.typed = touched /\ p.under = under
  BY <1>4, <1>5 DEF Requests
<1> HIDE DEF p
<1>7. ~under => \A f \in (DOMAIN p.facts) \ p.typed : p.facts[f] = row.facts[f]
  BY <1>1, <1>2, <1>3, <1>6 DEF EditorsInv, LeftAlone
<1>8. shown.source = "synced" => p.warned
  BY <1>1, <1>6 DEF E!WillPromote
<1>9. \A f \in DOMAIN p.facts : p.facts[f] \in E!Values(f)
  BY <1>3, <1>6
<1> QED
  BY <1>1, <1>6, <1>7, <1>8, <1>9, SendingKeeps

(* The switch sends no facts.                                              *)
LEMMA ToggleKeeps == ASSUME EditorsInv, E!ToggleEnabled PROVE EditorsInv'
<1> DEFINE p == [at |-> "sent", mine |-> TRUE, facts |-> <<>>, on |-> ~shown.on,
                 switch |-> TRUE, warned |-> FALSE, typed |-> {}, under |-> under]
<1>1. /\ opened /\ ~E!Busy /\ patches' = Append(patches, p)
      /\ UNCHANGED <<row, shown, opened, form, touched, under, loads, stage, mode, report, returned>>
  BY DEF E!ToggleEnabled, E!PatchModel, E!importing
<1>2. DOMAIN <<>> = {} /\ <<>> \in Edited
  <2>1. DOMAIN <<>> = {}
    OBVIOUS
  <2>2. <<>> = [f \in {} |-> 0]
    BY <2>1
  <2>3. <<>> \in [{} -> Names \cup Prices]
    BY <2>1, <2>2
  <2>4. {} \in SUBSET E!Fields
    OBVIOUS
  <2> QED
    BY <2>1, <2>3, <2>4 DEF Edited
<1>3. (~shown.on) \in BOOLEAN /\ under \in BOOLEAN
  BY DEF EditorsInv, EditorsTyped, E!Row
<1>4. p \in Requests /\ p.facts = <<>> /\ p.switch = TRUE /\ p.typed = {} /\ p.under = under
  BY <1>2, <1>3 DEF Requests
<1> HIDE DEF p
<1>5. DOMAIN p.facts = {}
  BY <1>2, <1>4
<1> QED
  BY <1>1, <1>4, <1>5, SendingKeeps

(* A request that is over, or lost, leaves the others as they were.        *)
LEMMA RemovalKeeps ==
  ASSUME EditorsInv, NEW i \in DOMAIN patches, patches' = E!RemoveAt(patches, i),
         loads' = loads \/ loads' = Append(loads, E!Asked),
         UNCHANGED <<row, shown, opened, form, touched, under, stage, mode, report, returned>>
  PROVE  EditorsInv'
<1>1. patches' \in Seq(Requests) /\ Rest(patches', patches, i)
  <2>1. patches \in Seq(Requests)
    BY DEF EditorsInv, EditorsTyped
  <2>2. i \in 1..Len(patches)
    BY <2>1, Elements
  <2>3. patches' = SubSeq(patches, 1, i - 1) \o SubSeq(patches, i + 1, Len(patches))
    BY DEF E!RemoveAt
  <2> QED
    BY <2>1, <2>2, <2>3, Removed, Zenon
<1>2. \A j \in DOMAIN patches' : \E k \in DOMAIN patches : patches'[j] = patches[k]
  <2> SUFFICES ASSUME NEW j \in DOMAIN patches'
               PROVE  \E k \in DOMAIN patches : patches'[j] = patches[k]
    OBVIOUS
  <2>1. j \in 1..Len(patches')
    BY <1>1 DEF Rest
  <2>2. PICK k \in 1..Len(patches) : patches'[j] = patches[k]
    BY <1>1, <2>1 DEF Rest
  <2>3. k \in DOMAIN patches
    BY <1>1, <2>2 DEF Rest
  <2> QED
    BY <2>2, <2>3
<1>3. ASSUME NEW j \in DOMAIN patches', NEW k \in DOMAIN patches',
             patches'[j].mine, patches'[k].mine
      PROVE  j = k
  <2>1. patches \in Seq(Requests) /\ Len(patches) \in Nat /\ i \in 1..Len(patches)
    BY DEF EditorsInv, EditorsTyped
  <2>2. /\ j \in 1..Len(patches') /\ k \in 1..Len(patches') /\ Len(patches') \in Nat
        /\ DOMAIN patches = 1..Len(patches)
    BY <1>1 DEF Rest
  <2>3. ASSUME NEW m \in 1..Len(patches')
        PROVE  \/ m < i /\ m \in DOMAIN patches /\ patches'[m] = patches[m]
               \/ m >= i /\ m + 1 \in DOMAIN patches /\ patches'[m] = patches[m + 1]
    <3>1. (m < i /\ patches'[m] = patches[m]) \/ (m >= i /\ patches'[m] = patches[m + 1])
      BY <1>1 DEF Rest
    <3>2. m \in Nat /\ m >= 1
      BY <2>2
    <3>3. m + 1 <= Len(patches)
      <4>1. Len(patches') = Len(patches) - 1
        BY <1>1 DEF Rest
      <4> QED
        BY <2>1, <2>2, <4>1
    <3> QED
      BY <2>1, <2>2, <3>1, <3>2, <3>3
  <2>4. \A m, n \in DOMAIN patches : patches[m].mine /\ patches[n].mine => m = n
    BY DEF EditorsInv, OneRequest
  <2>5. j \in Int /\ k \in Int /\ i \in Int
    BY <2>1, <2>2
  <2>6. PICK m \in DOMAIN patches : patches'[j] = patches[m] /\ ((m = j /\ j < i) \/ (m = j + 1 /\ j >= i))
    BY <2>2, <2>3
  <2>7. PICK n \in DOMAIN patches : patches'[k] = patches[n] /\ ((n = k /\ k < i) \/ (n = k + 1 /\ k >= i))
    BY <2>2, <2>3
  <2>8. m = n
    BY <1>3, <2>4, <2>6, <2>7
  <2> QED
    BY <2>5, <2>6, <2>7, <2>8
<1>4. loads' \in Seq(E!Row \cup {E!Asked})
      /\ \A j \in DOMAIN loads' : loads'[j].source = "synced" \/ (j \in DOMAIN loads /\ loads'[j] = loads[j])
  <2>1. loads \in Seq(E!Row \cup {E!Asked}) /\ E!Asked.source = "synced"
    BY DEF EditorsInv, EditorsTyped, E!Asked
  <2> DEFINE T == E!Row \cup {E!Asked}
  <2>2. loads \in Seq(T) /\ E!Asked \in T
    BY <2>1
  <2> HIDE DEF T
  <2>3. loads' \in Seq(T)
        /\ \A j \in DOMAIN loads' : loads'[j] = E!Asked \/ (j \in DOMAIN loads /\ loads'[j] = loads[j])
    BY <2>2
  <2> QED
    BY <2>1, <2>3 DEF T
<1>5. EditorsTyped'
  BY <1>1, <1>4 DEF EditorsInv, EditorsTyped
<1>6. SendsFacts' /\ LeftAlone'
  BY <1>2 DEF EditorsInv, SendsFacts, LeftAlone
<1>7. OneRequest'
  BY <1>2, <1>3 DEF EditorsInv, OneRequest
<1>8. ShownSynced' /\ E!CountsDescribeTheButton'
  BY <1>2, <1>4 DEF EditorsInv, ShownSynced, E!CountsDescribeTheButton
<1> QED
  BY <1>5, <1>6, <1>7, <1>8 DEF EditorsInv

(* A request that arrives changes what the user typed in, and its own form *)
(* takes that for its own.                                                 *)
LEMMA ArrivalChanges ==
  ASSUME EditorsInv, NEW i \in DOMAIN patches, E!PatchArrives(i)
  PROVE  /\ patches[i] \in Requests /\ row' \in E!Row
         /\ ~patches[i].under =>
              \A f \in E!Fields \ patches[i].typed : row'.facts[f] = row.facts[f]
         /\ row'.source # row.source => ~patches[i].switch /\ row'.source = "manual"
<1>1. patches[i].at = "sent" /\ row' = E!Patched(row, patches[i])
  BY DEF E!PatchArrives
<1>2. patches[i] \in Requests
  <2>1. patches \in Seq(Requests)
    BY DEF EditorsInv, EditorsTyped
  <2> QED
    BY <2>1, Elements
<1>3. /\ \A f \in DOMAIN patches[i].facts : patches[i].facts[f] \in E!Values(f)
      /\ patches[i].switch => DOMAIN patches[i].facts = {}
  BY DEF EditorsInv, SendsFacts
<1>4. row \in E!Row
  BY DEF EditorsInv, EditorsTyped
<1>5. PICK p \in Requests : p = patches[i]
  BY <1>2
<1>6. /\ E!Patched(row, p) \in E!Row
      /\ \A f \in E!Fields : E!Patched(row, p).facts[f]
                               = IF f \in DOMAIN p.facts THEN p.facts[f] ELSE row.facts[f]
      /\ DOMAIN p.facts = {} => E!Patched(row, p).source = row.source
      /\ E!Patched(row, p).source # row.source => E!Patched(row, p).source = "manual"
  BY <1>3, <1>4, <1>5, PatchedRow
<1>7. ~p.under => \A f \in (DOMAIN p.facts) \ p.typed : p.facts[f] = row.facts[f]
  BY <1>1, <1>5 DEF EditorsInv, LeftAlone
<1>8. row' = E!Patched(row, p)
  BY <1>1, <1>5
<1>9. ASSUME ~p.under, NEW f \in E!Fields \ p.typed PROVE row'.facts[f] = row.facts[f]
  BY <1>6, <1>7, <1>8, <1>9
<1>10. row'.source # row.source => ~p.switch /\ row'.source = "manual"
  BY <1>3, <1>5, <1>6, <1>8
<1> QED
  BY <1>2, <1>5, <1>6, <1>8, <1>9, <1>10

(* So each request knows what it will leave alone.                         *)
LEMMA ArrivalKeeps ==
  ASSUME EditorsInv, NEW i \in DOMAIN patches, E!PatchArrives(i) PROVE EditorsInv'
<1> DEFINE changed == row' # row
<1>1. /\ patches' = [j \in DOMAIN patches |-> IF j = i THEN [patches[i] EXCEPT !.at = "done"]
                                                      ELSE E!Disturbed(patches[j], changed)]
      /\ under' = (under \/ (~patches[i].mine /\ changed))
      /\ UNCHANGED <<shown, opened, form, touched, loads, stage, mode, report, returned>>
  BY DEF E!PatchArrives, E!importing
<1>2. changed \in BOOLEAN /\ (changed \/ row' = row)
  OBVIOUS
<1>3. patches \in Seq(Requests) /\ \A j \in DOMAIN patches : patches[j] \in Requests
  <2>1. patches \in Seq(Requests)
    BY DEF EditorsInv, EditorsTyped
  <2> QED
    BY <2>1, Elements
<1>4. /\ row' \in E!Row
      /\ ~patches[i].under => \A f \in E!Fields \ patches[i].typed : row'.facts[f] = row.facts[f]
      /\ row'.source # row.source => ~patches[i].switch /\ row'.source = "manual"
  BY ArrivalChanges
<1> HIDE DEF changed
<1>5. /\ DOMAIN patches' = DOMAIN patches /\ patches'[i] = [patches[i] EXCEPT !.at = "done"]
      /\ \A j \in DOMAIN patches \ {i} : patches'[j] = E!Disturbed(patches[j], changed)
  BY <1>1
<1>6. /\ patches'[i] \in Requests /\ patches'[i].at = "done" /\ patches'[i].mine = patches[i].mine
      /\ patches'[i].facts = patches[i].facts /\ patches'[i].switch = patches[i].switch
      /\ patches'[i].warned = patches[i].warned /\ patches'[i].typed = patches[i].typed
      /\ patches'[i].under = patches[i].under
  <2>1. ASSUME NEW p \in Requests, NEW q, q = [p EXCEPT !.at = "done"]
        PROVE  /\ q \in Requests /\ q.at = "done" /\ q.mine = p.mine /\ q.facts = p.facts
               /\ q.switch = p.switch /\ q.warned = p.warned /\ q.typed = p.typed
               /\ q.under = p.under
    BY <2>1 DEF Requests
  <2> QED
    BY <1>3, <1>5, <2>1
<1>7. \A j \in DOMAIN patches \ {i} :
         /\ patches'[j] \in Requests
         /\ patches'[j].at = patches[j].at /\ patches'[j].mine = patches[j].mine
         /\ patches'[j].facts = patches[j].facts /\ patches'[j].switch = patches[j].switch
         /\ patches'[j].warned = patches[j].warned /\ patches'[j].typed = patches[j].typed
         /\ patches'[j].under = (patches[j].under \/ changed)
  BY <1>2, <1>3, <1>5, DisturbedRequest
<1>8. patches' \in Seq(Requests)
  <2>1. patches' = [j \in DOMAIN patches |-> patches'[j]]
    BY <1>1, <1>5
  <2>2. \A j \in DOMAIN patches : patches'[j] \in Requests
    BY <1>6, <1>7
  <2> QED
    BY <1>3, <2>1, <2>2, Mapped
<1>9. \A j \in DOMAIN patches :
         /\ patches'[j].mine = patches[j].mine /\ patches'[j].facts = patches[j].facts
         /\ patches'[j].switch = patches[j].switch /\ patches'[j].warned = patches[j].warned
         /\ patches'[j].typed = patches[j].typed
         /\ patches'[j].at = "sent" => patches[j].at = "sent" /\ j # i
  BY <1>6, <1>7
<1>10. EditorsTyped'
  <2>1. patches[i].mine \in BOOLEAN /\ under \in BOOLEAN
    BY <1>3 DEF Requests, EditorsInv, EditorsTyped
  <2>2. under' \in BOOLEAN
    BY <1>1, <1>2, <2>1
  <2> QED
    BY <1>1, <1>4, <1>8, <2>2 DEF EditorsInv, EditorsTyped
<1>11. SendsFacts'
  BY <1>5, <1>9 DEF EditorsInv, SendsFacts
<1>12. LeftAlone'
  <2>1. ASSUME opened', ~under', NEW f \in E!Fields \ touched' PROVE form'[f] = row'.facts[f]
    <3>1. opened /\ ~under /\ f \in E!Fields \ touched /\ form'[f] = form[f]
      BY <1>1, <2>1
    <3>2. form[f] = row.facts[f]
      BY <3>1 DEF EditorsInv, LeftAlone
    <3>3. CASE patches[i].mine
      <4>1. ~patches[i].under /\ patches[i].typed \subseteq touched
        BY <3>1, <3>3 DEF EditorsInv, OneRequest
      <4> QED
        BY <1>4, <3>1, <3>2, <4>1
    <3>4. CASE ~patches[i].mine
      BY <1>1, <1>2, <2>1, <3>1, <3>2, <3>4
    <3> QED
      BY <3>3, <3>4
  <2>2. ASSUME NEW j \in DOMAIN patches', patches'[j].at = "sent", ~patches'[j].under,
               NEW f \in (DOMAIN patches'[j].facts) \ patches'[j].typed
        PROVE  patches'[j].facts[f] = row'.facts[f]
    <3>1. /\ j \in DOMAIN patches /\ j # i /\ patches[j].at = "sent"
          /\ patches'[j].facts = patches[j].facts /\ patches'[j].typed = patches[j].typed
      BY <1>5, <1>9, <2>2
    <3>2. ~patches[j].under /\ ~changed
      BY <1>7, <2>2, <3>1
    <3> QED
      BY <1>2, <2>2, <3>1, <3>2 DEF EditorsInv, LeftAlone
  <2> QED
    BY <2>1, <2>2 DEF LeftAlone
<1>13. OneRequest'
  <2>1. ASSUME NEW j \in DOMAIN patches', patches'[j].mine, patches'[j].under PROVE under'
    <3>1. j \in DOMAIN patches /\ patches[j].mine
      BY <1>5, <1>9, <2>1
    <3>2. CASE j = i
      BY <1>1, <1>6, <2>1, <3>1, <3>2 DEF EditorsInv, OneRequest
    <3>3. CASE j # i
      <4>1. ~patches[i].mine
        BY <3>1, <3>3 DEF EditorsInv, OneRequest
      <4>2. patches[j].under \/ changed
        BY <1>7, <2>1, <3>1, <3>3
      <4> QED
        BY <1>1, <3>1, <4>1, <4>2 DEF EditorsInv, OneRequest
    <3> QED
      BY <3>2, <3>3
  <2>2. \A j \in DOMAIN patches' : patches'[j].mine => opened' /\ patches'[j].typed \subseteq touched'
    BY <1>1, <1>5, <1>9 DEF EditorsInv, OneRequest
  <2>3. \A j, k \in DOMAIN patches' : patches'[j].mine /\ patches'[k].mine => j = k
    BY <1>5, <1>9 DEF EditorsInv, OneRequest
  <2> QED
    BY <2>1, <2>2, <2>3 DEF OneRequest
<1>14. ShownSynced'
  BY <1>1, <1>4, <1>5, <1>9 DEF EditorsInv, ShownSynced
<1>15. E!CountsDescribeTheButton'
  BY <1>1 DEF EditorsInv, E!CountsDescribeTheButton
<1> QED
  BY <1>10, <1>11, <1>12, <1>13, <1>14, <1>15 DEF EditorsInv

(* What is read is a row that was there; what is shown was read.           *)
LEMMA LoadsKeep ==
  ASSUME EditorsInv, NEW i \in DOMAIN loads,
         E!LoadReads(i) \/ E!LoadAnswers(i) \/ E!LoadFails(i)
  PROVE  EditorsInv'
<1> DEFINE T == E!Row \cup {E!Asked}
<1>1. UNCHANGED <<row, opened, form, touched, under, patches, stage, mode, report, returned>>
  BY DEF E!LoadReads, E!LoadAnswers, E!LoadFails, E!editing, E!importing
<1>2. loads \in Seq(T) /\ E!Asked \in T /\ row \in T /\ E!Row \subseteq T
  BY DEF EditorsInv, EditorsTyped
<1>3. \/ loads' = [loads EXCEPT ![i] = row] /\ shown' = shown
      \/ loads' = E!RemoveAt(loads, i) /\ (shown' = shown \/ (loads[i] # E!Asked /\ shown' = loads[i]))
  BY DEF E!LoadReads, E!LoadAnswers, E!LoadFails
<1>4. shown' \in E!Row
  <2>1. loads[i] \in T
    <3> HIDE DEF T
    <3> QED
      BY <1>2, Elements
  <2> QED
    BY <1>3, <2>1 DEF EditorsInv, EditorsTyped
<1> HIDE DEF T
<1>5. /\ loads' \in Seq(T)
      /\ \A j \in DOMAIN loads' : loads'[j] = row \/ \E k \in DOMAIN loads : loads'[j] = loads[k]
  <2>1. CASE loads' = [loads EXCEPT ![i] = row]
    BY <1>2, <2>1
  <2>2. CASE loads' = E!RemoveAt(loads, i)
    <3>1. i \in 1..Len(loads)
      BY <1>2, Elements
    <3>2. loads' = SubSeq(loads, 1, i - 1) \o SubSeq(loads, i + 1, Len(loads))
      BY <2>2 DEF E!RemoveAt
    <3>3. loads' \in Seq(T) /\ Rest(loads', loads, i)
      BY <1>2, <3>1, <3>2, Removed, Zenon
    <3>4. ASSUME NEW j \in DOMAIN loads' PROVE \E k \in DOMAIN loads : loads'[j] = loads[k]
      <4>1. j \in 1..Len(loads')
        BY <3>3 DEF Rest
      <4>2. PICK k \in 1..Len(loads) : loads'[j] = loads[k]
        BY <3>3, <4>1 DEF Rest
      <4>3. k \in DOMAIN loads
        BY <3>3, <4>2 DEF Rest
      <4> QED
        BY <4>2, <4>3
    <3> QED
      BY <3>3, <3>4
  <2> QED
    BY <1>3, <2>1, <2>2
<1>6. EditorsTyped'
  BY <1>1, <1>4, <1>5 DEF EditorsInv, EditorsTyped, T
<1>7. SendsFacts' /\ LeftAlone' /\ OneRequest' /\ E!CountsDescribeTheButton'
  BY <1>1 DEF EditorsInv, SendsFacts, LeftAlone, OneRequest, E!CountsDescribeTheButton
<1>8. ShownSynced'
  BY <1>1, <1>3, <1>5 DEF EditorsInv, ShownSynced
<1> QED
  BY <1>6, <1>7, <1>8 DEF EditorsInv

(* The steps of an import but the last leave the row and its form.         *)
LEMMA PlanningKeeps ==
  ASSUME EditorsInv, E!Pick \/ E!Previewed \/ E!ChangeMode \/ E!Cancel \/ E!Apply
  PROVE  EditorsInv'
<1>1. UNCHANGED <<row, shown, opened, form, touched, under, patches, loads, returned>>
  BY DEF E!Pick, E!Previewed, E!ChangeMode, E!Cancel, E!Apply, E!editing
<1>2. mode' \in {"skip", "overwrite"}
  BY DEF EditorsInv, EditorsTyped, E!Pick, E!Previewed, E!ChangeMode, E!Cancel, E!Apply
<1>3. E!CountsDescribeTheButton'
  BY DEF EditorsInv, E!CountsDescribeTheButton, E!Pick, E!Previewed, E!ChangeMode, E!Cancel, E!Apply
<1>4. EditorsTyped'
  BY <1>1, <1>2 DEF EditorsInv, EditorsTyped
<1> QED
  BY <1>1, <1>3, <1>4 DEF EditorsInv, SendsFacts, LeftAlone, OneRequest, ShownSynced

(* An import, a sync and other pages write the row.                        *)
LEMMA OthersKeep ==
  ASSUME EditorsInv,
         E!Imports \/ \E f \in E!Fields : \E v \in E!Values(f) : E!OtherWrites(f, v)
  PROVE  EditorsInv'
<1>1. row \in E!Row /\ loads \in Seq(E!Row \cup {E!Asked}) /\ returned \in BOOLEAN
  BY DEF EditorsInv, EditorsTyped
<1>2. CASE E!Imports
  <2>1. /\ row' \in {row} \cup E!Bundled /\ E!WrittenElsewhere
        /\ loads' = Append(loads, E!Asked) \/ loads' = loads
        /\ returned' = (returned \/ (row.source = "manual" /\ row'.source = "synced"))
        /\ stage' = "idle" /\ UNCHANGED <<shown, opened, form, touched, mode>>
    BY <1>2 DEF E!Imports
  <2>2. row' \in E!Row
    <3>1. row.facts \in E!Facts
      BY <1>1 DEF E!Row
    <3>2. (CHOOSE f \in E!Facts : TRUE) \in E!Facts
      BY <3>1
    <3> QED
      BY <1>1, <2>1, <3>2 DEF E!Bundled, E!Row
  <2>3. returned' \in BOOLEAN
    BY <1>1, <2>1
  <2>4. /\ loads' \in Seq(E!Row \cup {E!Asked})
        /\ \A i \in DOMAIN loads' : \/ loads'[i].source = "synced"
                                    \/ i \in DOMAIN loads /\ loads'[i] = loads[i]
    <3> DEFINE T == E!Row \cup {E!Asked}
    <3>1. loads \in Seq(T) /\ E!Asked \in T /\ E!Asked.source = "synced"
      BY <1>1 DEF E!Asked
    <3> HIDE DEF T
    <3>2. /\ loads' \in Seq(T)
          /\ \A i \in DOMAIN loads' : \/ loads'[i] = E!Asked
                                      \/ i \in DOMAIN loads /\ loads'[i] = loads[i]
      BY <2>1, <3>1
    <3> QED
      BY <3>1, <3>2 DEF T
  <2>5. ~returned' => ~returned /\ (row'.source = "synced" => row.source = "synced")
    BY <1>1, <2>1 DEF E!Row
  <2>6. EditorsTyped' /\ SendsFacts' /\ LeftAlone' /\ OneRequest' /\ ShownSynced'
    BY <2>1, <2>2, <2>3, <2>4, <2>5, ElsewhereKeeps
  <2>7. E!CountsDescribeTheButton'
    BY <2>1 DEF E!CountsDescribeTheButton
  <2> QED
    BY <2>6, <2>7 DEF EditorsInv
<1>3. ASSUME NEW f \in E!Fields, NEW v \in E!Values(f), E!OtherWrites(f, v) PROVE EditorsInv'
  <2>1. /\ row' = [row EXCEPT !.facts = [row.facts EXCEPT ![f] = v]] /\ E!WrittenElsewhere
        /\ UNCHANGED <<shown, opened, form, touched, loads, stage, mode, report, returned>>
    BY <1>3 DEF E!OtherWrites, E!importing
  <2>2. row'.source = row.source /\ row' \in E!Row
    <3>1. row.facts \in E!Facts
      BY <1>1 DEF E!Row
    <3>2. v \in Names \cup Prices
      BY DEF E!Values
    <3>3. [row.facts EXCEPT ![f] = v] \in E!Facts
      BY <3>1, <3>2 DEF E!Facts
    <3> QED
      BY <1>1, <2>1, <3>3 DEF E!Row
  <2>3. EditorsTyped' /\ SendsFacts' /\ LeftAlone' /\ OneRequest' /\ ShownSynced'
    BY <1>1, <2>1, <2>2, ElsewhereKeeps
  <2>4. E!CountsDescribeTheButton'
    BY <2>1 DEF EditorsInv, E!CountsDescribeTheButton
  <2> QED
    BY <2>3, <2>4 DEF EditorsInv
<1> QED
  BY <1>2, <1>3

(* Each step of the page, of its requests and of others keeps what its      *)
(* state means.                                                            *)
LEMMA EditorsNext ==
  ASSUME E!EditorsAssumption PROVE EditorsInv /\ [E!Next]_(E!vars) => EditorsInv'
<1> SUFFICES ASSUME EditorsInv, [E!Next]_(E!vars) PROVE EditorsInv'
  OBVIOUS
<1>1. CASE \E i \in DOMAIN patches : E!PatchArrives(i) \/ E!PatchAnswered(i) \/ E!PatchFails(i)
  <2>1. PICK i \in DOMAIN patches : E!PatchArrives(i) \/ E!PatchAnswered(i) \/ E!PatchFails(i)
    BY <1>1
  <2>2. CASE E!PatchArrives(i)
    BY <2>2, ArrivalKeeps
  <2>3. CASE E!PatchAnswered(i) \/ E!PatchFails(i)
    <3>1. /\ patches' = E!RemoveAt(patches, i) /\ (loads' = loads \/ loads' = Append(loads, E!Asked))
          /\ UNCHANGED <<row, shown, opened, form, touched, under, stage, mode, report, returned>>
      BY <2>3 DEF E!PatchAnswered, E!PatchFails, E!importing
    <3> QED
      BY <3>1, RemovalKeeps
  <2> QED
    BY <2>1, <2>2, <2>3
<1>2. CASE \E i \in DOMAIN loads : E!LoadReads(i) \/ E!LoadAnswers(i) \/ E!LoadFails(i)
  BY <1>2, LoadsKeep
<1>3. CASE UNCHANGED E!vars
  <2>1. UNCHANGED <<row, shown, opened, form, touched, under, patches, loads, stage, mode, report,
                    returned>>
    BY <1>3 DEF E!vars, E!editing, E!importing
  <2> QED
    BY <2>1 DEF EditorsInv, EditorsTyped, SendsFacts, LeftAlone, OneRequest, ShownSynced,
                E!CountsDescribeTheButton
<1> QED
  BY <1>1, <1>2, <1>3, CloseKeeps, FormKeeps, SaveKeeps, ToggleKeeps, PlanningKeeps, OthersKeep
     DEF E!Next

(* What a step of the page does to the row, on what its state means.       *)
LEMMA EditorsSteps ==
  ASSUME E!EditorsAssumption, EditorsInv
  PROVE  \A i \in DOMAIN patches :
           /\ E!PatchArrives(i) /\ ~patches[i].under =>
                \A f \in E!Fields \ patches[i].typed : row'.facts[f] = row.facts[f]
           /\ E!PatchArrives(i) /\ ~returned /\ row.source = "synced" /\ row'.source = "manual" =>
                patches[i].warned
<1> SUFFICES ASSUME NEW i \in DOMAIN patches, E!PatchArrives(i)
             PROVE  /\ ~patches[i].under =>
                         \A f \in E!Fields \ patches[i].typed : row'.facts[f] = row.facts[f]
                    /\ ~returned /\ row.source = "synced" /\ row'.source = "manual" =>
                         patches[i].warned
  OBVIOUS
<1>1. /\ ~patches[i].under => \A f \in E!Fields \ patches[i].typed : row'.facts[f] = row.facts[f]
      /\ row'.source # row.source => ~patches[i].switch
  BY ArrivalChanges
<1>2. ASSUME ~returned, row.source = "synced", row'.source = "manual" PROVE patches[i].warned
  BY <1>1, <1>2 DEF EditorsInv, ShownSynced
<1> QED
  BY <1>1, <1>2

(***************************************************************************)
(* The requests that start a task.                                         *)
(***************************************************************************)
TaskRows == [slug : Slugs \cup {"none"}, row : {"running", "ended"}, live : BOOLEAN,
             leader : Registered, auto : BOOLEAN, cap : P!Caps, spends : P!Caps,
             gated : BOOLEAN, limit : P!Caps, raised : BOOLEAN,
             allowed : SUBSET P!ToSet(Harnesses), used : SUBSET P!ToSet(Harnesses)]

RequestsTyped ==
  /\ project \in [Slugs -> P!Row \cup {P!Absent}] /\ listed \in [Slugs -> P!Row \cup {P!Absent}]
  /\ behind \subseteq Slugs /\ on \subseteq Registered /\ up \subseteq P!Providers
  /\ tasks \in Seq(TaskRows)

(* A task within what its project was, whose session has the cap of its row. *)
Bounded(t) ==
  /\ t.gated => ~t.auto
  /\ t.used \subseteq t.allowed
  /\ t.raised \/ t.cap <= t.limit
  /\ t.live => t.spends = t.cap

(* What nobody else wrote is as the page shows it.                         *)
ListedUnlessBehind == \A s \in Slugs \ behind : listed[s] = project[s]

RequestsInv ==
  RequestsTyped /\ (\A t \in DOMAIN tasks : Bounded(tasks[t])) /\ ListedUnlessBehind

(* The daemon starts with projects as the page shows them and no task.     *)
LEMMA RequestsInit == ASSUME P!ProjectsAssumption PROVE P!Init => RequestsInv
<1> SUFFICES ASSUME P!Init PROVE RequestsInv
  OBVIOUS
<1>1. /\ project \in [Slugs -> P!Fresh] /\ listed = project /\ behind = {} /\ on = Registered
      /\ up = P!Providers /\ tasks = <<>>
  BY DEF P!Init
<1>2. project \in [Slugs -> P!Row \cup {P!Absent}]
  BY <1>1 DEF P!Fresh
<1>3. RequestsTyped
  BY <1>1, <1>2 DEF RequestsTyped
<1>4. ListedUnlessBehind /\ \A t \in DOMAIN tasks : Bounded(tasks[t])
  BY <1>1 DEF ListedUnlessBehind
<1> QED
  BY <1>3, <1>4 DEF RequestsInv

(* Whoever leads is enabled.                                               *)
LEMMA LeadersAreOn ==
  ASSUME P!ProjectsAssumption, NEW pin, NEW s
  PROVE  P!PickInitiator(pin, s) \subseteq on
<1>1. ASSUME NEW w PROVE P!Matches(w) \subseteq on
  BY DEF P!Matches, P!MatchLoosely
<1>2. ASSUME NEW w, P!Resolves(w) PROVE P!Resolved(w) \in on
  <2>1. Cardinality(P!Matches(w)) = 1
    BY <1>2, Counting DEF P!Resolves
  <2>2. P!Matches(w) # {}
    BY <2>1, FS_EmptySet
  <2>3. P!Resolved(w) \in P!Matches(w)
    BY <2>2 DEF P!Resolved
  <2> QED
    BY <1>1, <2>3
<1>3. {m \in P!Able : \A n \in P!Able \ {m} : ~P!Leads(n, m)} \subseteq on
  BY DEF P!Able
<1> DEFINE standing == IF s = "none" THEN <<>> ELSE project[s].pin
           named == IF pin # <<>> THEN pin ELSE IF standing # <<>> THEN standing ELSE Default
<1>4. P!PickInitiator(pin, s) =
        IF named = <<>> THEN {m \in P!Able : \A n \in P!Able \ {m} : ~P!Leads(n, m)}
        ELSE IF P!Resolves(named) THEN {P!Resolved(named)} ELSE {}
  BY DEF P!PickInitiator
<1> HIDE DEF named
<1> QED
  BY <1>2, <1>3, <1>4

(* A task that starts is within its project, and led by somebody enabled.  *)
LEMMA StartedWithin ==
  ASSUME P!ProjectsAssumption, RequestsTyped, NEW s, NEW pin,
         s = "none" \/ (s \in Slugs /\ ~project[s].archived),
         NEW asked \in [auto : BOOLEAN, cap : P!Caps], P!Start(s, pin, asked)
  PROVE  \/ reply' = "refused" /\ tasks' = tasks
         \/ reply' = "none" /\ \E t \in TaskRows :
              tasks' = Append(tasks, t) /\ Bounded(t) /\ t.leader \in on
<1>1. CASE reply' = "refused" /\ tasks' = tasks
  BY <1>1
<1>2. CASE reply' = "none" /\ \E leader \in P!PickInitiator(pin, s) :
             tasks' = Append(tasks, P!Started(s, leader, P!EffectiveTaskSettings(s, asked)))
  <2>1. PICK leader \in on :
          tasks' = Append(tasks, P!Started(s, leader, P!EffectiveTaskSettings(s, asked)))
    BY <1>2, LeadersAreOn
  <2> DEFINE settings == P!EffectiveTaskSettings(s, asked)
             t == P!Started(s, leader, settings)
  <2>2. /\ 1 \in P!Caps /\ Uncapped \in P!Caps /\ \A c \in P!Caps : c \in Nat /\ c <= Uncapped
        /\ asked.auto \in BOOLEAN /\ asked.cap \in P!Caps
    BY DEF P!ProjectsAssumption, P!Caps
  <2>3. ASSUME s # "none" PROVE s \in Slugs /\ project[s] \in P!Row
    BY <2>3 DEF RequestsTyped, P!Absent
  <2>4. \A a, b \in P!Caps : P!MinCap(a, b) \in P!Caps /\ P!MinCap(a, b) <= a
    BY <2>2 DEF P!MinCap
  <2>5. leader \in Registered
    BY DEF RequestsTyped
  <2>6. CASE s = "none"
    <3>1. settings = asked
      BY <2>6 DEF P!EffectiveTaskSettings
    <3>2. t = [slug |-> s, row |-> "running", live |-> TRUE, leader |-> leader,
               auto |-> asked.auto, cap |-> asked.cap, spends |-> asked.cap,
               gated |-> FALSE, limit |-> Uncapped, raised |-> FALSE,
               allowed |-> P!ToSet(Harnesses), used |-> {}]
      BY <2>6, <3>1 DEF P!Started
    <3> HIDE DEF t, settings
    <3>3. t \in TaskRows /\ Bounded(t) /\ t.leader \in on
      BY <2>2, <2>5, <2>6, <3>2 DEF TaskRows, Bounded
    <3> QED
      BY <1>2, <2>1, <3>3 DEF t, settings
  <2>7. CASE s # "none"
    <3>1. s \in Slugs /\ project[s] \in P!Row
      BY <2>3, <2>7
    <3>2. /\ project[s].auto \in BOOLEAN /\ project[s].cap \in P!Caps
          /\ project[s].allowed \in SUBSET P!ToSet(Harnesses)
      BY <3>1 DEF P!Row
    <3>3. settings = [auto |-> asked.auto /\ project[s].auto,
                      cap |-> P!MinCap(project[s].cap, asked.cap)]
      BY <2>7 DEF P!EffectiveTaskSettings
    <3>4. PICK auto, cap : auto = (asked.auto /\ project[s].auto)
                           /\ cap = P!MinCap(project[s].cap, asked.cap)
      OBVIOUS
    <3>5. auto \in BOOLEAN /\ cap \in P!Caps /\ cap <= project[s].cap
      BY <2>2, <2>4, <3>2, <3>4
    <3> HIDE DEF settings
    <3>6. settings.auto = auto /\ settings.cap = cap
      BY <3>3, <3>4
    <3>7. t = [slug |-> s, row |-> "running", live |-> TRUE, leader |-> leader,
               auto |-> auto, cap |-> cap, spends |-> cap,
               gated |-> s # "none" /\ ~project[s].auto, limit |-> project[s].cap, raised |-> FALSE,
               allowed |-> project[s].allowed, used |-> {}]
      BY <2>7, <3>6 DEF P!Started
    <3>8. PICK gated : gated = (s # "none" /\ ~project[s].auto)
      OBVIOUS
    <3>9. gated \in BOOLEAN /\ (gated => ~project[s].auto)
      BY <3>8
    <3>10. t = [slug |-> s, row |-> "running", live |-> TRUE, leader |-> leader,
                auto |-> auto, cap |-> cap, spends |-> cap,
                gated |-> gated, limit |-> project[s].cap, raised |-> FALSE,
                allowed |-> project[s].allowed, used |-> {}]
      BY <3>7, <3>8
    <3> HIDE DEF t
    <3>11. t \in TaskRows
      BY <2>5, <3>1, <3>2, <3>5, <3>9, <3>10 DEF TaskRows
    <3>12. Bounded(t) /\ t.leader \in on
      BY <3>2, <3>4, <3>5, <3>9, <3>10 DEF Bounded
    <3> QED
      BY <1>2, <2>1, <3>11, <3>12 DEF t, settings
  <2> QED
    BY <2>6, <2>7
<1> QED
  BY <1>1, <1>2 DEF P!Start

(* What a step does to the tasks.                                          *)
TasksStep ==
  \/ tasks' = tasks
  \/ reply' = "none" /\ \E t \in TaskRows :
       tasks' = Append(tasks, t) /\ Bounded(t) /\ t.leader \in on
  \/ reply' = "none" /\ \E i \in DOMAIN tasks : \E t \in TaskRows :
       tasks' = [tasks EXCEPT ![i] = t] /\ Bounded(t)

(* What a step does to projects, to the page and to the switches.          *)
ProjectsStep ==
  /\ project' \in [Slugs -> P!Row \cup {P!Absent}] /\ listed' \in [Slugs -> P!Row \cup {P!Absent}]
  /\ behind' \subseteq Slugs /\ on' \subseteq Registered /\ up' \subseteq P!Providers
  /\ ListedUnlessBehind'
  /\ \A s \in Slugs :
       s \notin behind /\ listed' # listed /\ project'[s].auto # project[s].auto
       => project'[s] = [project[s] EXCEPT !.auto = ~project[s].auto]

(* A step that leaves projects, page and switches alone.                   *)
LEMMA ProjectsStand ==
  ASSUME RequestsInv, UNCHANGED <<project, listed, behind, on, up>>
  PROVE  ProjectsStep
BY DEF RequestsInv, RequestsTyped, ListedUnlessBehind, ProjectsStep

(* A request becomes a task of a project that is there and not archived, or *)
(* none.                                                                   *)
LEMMA SelectedStart ==
  ASSUME P!ProjectsAssumption, RequestsTyped, NEW suffix, NEW header, NEW pin,
         NEW s \in P!SelectProject(suffix, header),
         NEW asked \in [auto : BOOLEAN, cap : P!Caps], P!Start(s, pin, asked)
  PROVE  TasksStep
<1>1. s = "none" \/ (s \in Slugs /\ ~project[s].archived)
  BY DEF P!SelectProject
<1> QED
  BY <1>1, StartedWithin DEF TasksStep

(* A call of the orchestrator.                                             *)
LEMMA BeginSteps ==
  ASSUME P!ProjectsAssumption, RequestsInv, NEW suffix, NEW header, NEW pin, NEW t,
         P!BeginOrchestration(suffix, header, pin, t)
  PROVE  TasksStep /\ ProjectsStep
<1>1. ProjectsStep
  BY ProjectsStand DEF P!BeginOrchestration
<1>2. [auto |-> FALSE, cap |-> Uncapped] \in [auto : BOOLEAN, cap : P!Caps]
  BY DEF P!Caps
<1>3. \/ tasks' = tasks
      \/ \E s \in P!SelectProject(suffix, header) :
            P!Start(s, pin, [auto |-> FALSE, cap |-> Uncapped])
  BY DEF P!BeginOrchestration
<1> QED
  BY <1>1, <1>2, <1>3, SelectedStart DEF RequestsInv, TasksStep

(* A form of the dashboard.                                                *)
LEMMA RunSteps ==
  ASSUME P!ProjectsAssumption, RequestsInv, NEW suffix, NEW pin, NEW auto \in BOOLEAN,
         NEW text, P!RunForm(suffix, pin, auto, text)
  PROVE  TasksStep /\ ProjectsStep
<1>1. CASE UNCHANGED <<project, listed, behind, on, up, tasks, edits>>
  BY <1>1, ProjectsStand DEF TasksStep
<1>2. CASE \E cap \in P!ParseBudget(text) : P!Run(suffix, pin, [auto |-> auto, cap |-> cap])
  <2>1. PICK cap \in P!Caps : P!Run(suffix, pin, [auto |-> auto, cap |-> cap])
    BY <1>2 DEF P!ParseBudget, P!Caps
  <2>2. [auto |-> auto, cap |-> cap] \in [auto : BOOLEAN, cap : P!Caps]
    OBVIOUS
  <2>3. /\ UNCHANGED <<project, listed, behind, on, up>>
        /\ \/ tasks' = tasks
           \/ \E s \in P!SelectProject(suffix, "none") :
                 P!Start(s, pin, [auto |-> auto, cap |-> cap])
    BY <2>1 DEF P!Run
  <2> QED
    BY <2>2, <2>3, ProjectsStand, SelectedStart DEF RequestsInv, TasksStep
<1> QED
  BY <1>1, <1>2 DEF P!RunForm

(* What happens to a task that is there.                                   *)
LEMMA TaskSteps ==
  ASSUME P!ProjectsAssumption, RequestsInv, NEW i \in DOMAIN tasks,
         P!PickHarness(i) \/ P!Aborted(i) \/ P!Ended(i) \/ \E cap \in P!Caps : P!PostSettings(i, cap)
  PROVE  TasksStep /\ ProjectsStep
<1>1. ProjectsStep
  BY ProjectsStand DEF P!PickHarness, P!Aborted, P!Ended, P!PostSettings
<1>2. reply' = "none"
  BY DEF P!PickHarness, P!Aborted, P!Ended, P!PostSettings
<1>3. tasks[i] \in TaskRows /\ Bounded(tasks[i])
  <2>1. tasks \in Seq(TaskRows)
    BY DEF RequestsInv, RequestsTyped
  <2>2. tasks[i] \in TaskRows
    BY <2>1, Elements
  <2> QED
    BY <2>2 DEF RequestsInv
<1>4. PICK t \in TaskRows : t = tasks[i]
  BY <1>3
<1>5. Bounded(t)
  BY <1>3, <1>4
<1>6. SUFFICES \E r \in TaskRows : tasks' = [tasks EXCEPT ![i] = r] /\ Bounded(r)
  BY <1>1, <1>2 DEF TasksStep
<1>7. CASE P!PickHarness(i)
  <2>1. PICK h \in DOMAIN Harnesses :
          /\ Harnesses[h] \in tasks[i].allowed
          /\ tasks' = [tasks EXCEPT ![i] = [tasks[i] EXCEPT !.used = {Harnesses[h]}]]
    BY <1>7 DEF P!PickHarness
  <2>2. Harnesses[h] \in P!ToSet(Harnesses) /\ Harnesses[h] \in t.allowed
    BY <1>4, <2>1 DEF P!ToSet
  <2>3. PICK r : r = [t EXCEPT !.used = {Harnesses[h]}]
    OBVIOUS
  <2>4. r \in TaskRows /\ Bounded(r)
    BY <1>5, <2>2, <2>3 DEF TaskRows, Bounded
  <2> QED
    BY <1>4, <2>1, <2>3, <2>4
<1>8. CASE P!Aborted(i)
  <2>1. PICK r : r = [t EXCEPT !.live = FALSE]
    OBVIOUS
  <2>2. r \in TaskRows /\ Bounded(r)
    BY <1>5, <2>1 DEF TaskRows, Bounded
  <2>3. tasks' = [tasks EXCEPT ![i] = r]
    BY <1>4, <1>8, <2>1 DEF P!Aborted
  <2> QED
    BY <2>2, <2>3
<1>9. CASE P!Ended(i)
  <2>1. PICK r : r = [t EXCEPT !.live = FALSE, !.row = "ended"]
    OBVIOUS
  <2>2. r \in TaskRows /\ Bounded(r)
    BY <1>5, <2>1 DEF TaskRows, Bounded
  <2>3. tasks' = [tasks EXCEPT ![i] = r]
    BY <1>4, <1>9, <2>1 DEF P!Ended
  <2> QED
    BY <2>2, <2>3
<1>10. CASE \E cap \in P!Caps : P!PostSettings(i, cap)
  <2>1. PICK cap \in P!Caps : P!PostSettings(i, cap)
    BY <1>10
  <2>2. PICK r : r = [t EXCEPT !.cap = cap, !.raised = TRUE,
                               !.spends = IF t.live THEN cap ELSE t.spends]
    OBVIOUS
  <2>3. r \in TaskRows /\ Bounded(r)
    BY <1>5, <2>2 DEF TaskRows, Bounded
  <2>4. tasks' = [tasks EXCEPT ![i] = r]
    BY <1>4, <2>1, <2>2 DEF P!PostSettings
  <2> QED
    BY <2>3, <2>4
<1> QED
  BY <1>7, <1>8, <1>9, <1>10

(* A project written elsewhere is one the page may be behind.              *)
LEMMA RouteSteps ==
  ASSUME P!ProjectsAssumption, RequestsInv, NEW s \in Slugs,
         (\E r \in P!Row : P!Create(s, r) \/ P!Patch(s, r)) \/ P!Delete(s)
  PROVE  TasksStep /\ ProjectsStep
<1>1. /\ tasks' = tasks /\ UNCHANGED <<listed, on, up>> /\ behind' = behind \cup {s}
      /\ \E r \in P!Row \cup {P!Absent} : project' = [project EXCEPT ![s] = r]
  BY DEF P!Create, P!Patch, P!Delete
<1>2. PICK r \in P!Row \cup {P!Absent} : project' = [project EXCEPT ![s] = r]
  BY <1>1
<1>3. RequestsTyped /\ ListedUnlessBehind
  BY DEF RequestsInv
<1> DEFINE T == P!Row \cup {P!Absent}
<1>4. project \in [Slugs -> T] /\ r \in T
  BY <1>3 DEF RequestsTyped
<1> HIDE DEF T
<1>5. project' \in [Slugs -> T] /\ \A q \in Slugs \ {s} : project'[q] = project[q]
  BY <1>2, <1>4
<1>6. ListedUnlessBehind'
  BY <1>1, <1>3, <1>5 DEF ListedUnlessBehind
<1> QED
  BY <1>1, <1>3, <1>5, <1>6 DEF TasksStep, ProjectsStep, RequestsTyped, T

(* A switch of the page, on a row it shows as it is, turns that switch.    *)
LEMMA PageSteps ==
  ASSUME P!ProjectsAssumption, RequestsInv, NEW s \in Slugs,
         P!ToggleAuto(s) \/ P!ToggleArchived(s)
  PROVE  TasksStep /\ ProjectsStep
<1>1. tasks' = tasks /\ UNCHANGED <<on, up>> /\ listed[s] # P!Absent
  BY DEF P!ToggleAuto, P!ToggleArchived
<1>2. RequestsTyped /\ ListedUnlessBehind
  BY DEF RequestsInv
<1>3. listed[s] \in P!Row
  BY <1>1, <1>2 DEF RequestsTyped
<1>4. CASE UNCHANGED <<project, listed, behind>>
  BY <1>1, <1>4, ProjectsStand DEF TasksStep
<1>5. ASSUME NEW r \in P!Row, project' = [project EXCEPT ![s] = r],
             listed' = project', behind' = {},
             s \notin behind /\ r.auto # project[s].auto
               => r = [project[s] EXCEPT !.auto = ~project[s].auto]
      PROVE  ProjectsStep
  <2> DEFINE T == P!Row \cup {P!Absent}
  <2>1. project \in [Slugs -> T] /\ r \in T
    BY <1>2 DEF RequestsTyped
  <2> HIDE DEF T
  <2>2. /\ project' \in [Slugs -> T] /\ project'[s] = r
        /\ \A q \in Slugs \ {s} : project'[q] = project[q]
    BY <1>5, <2>1
  <2>3. \A q \in Slugs :
          q \notin behind /\ listed' # listed /\ project'[q].auto # project[q].auto
          => project'[q] = [project[q] EXCEPT !.auto = ~project[q].auto]
    BY <1>5, <2>2
  <2>4. ListedUnlessBehind'
    BY <1>5 DEF ListedUnlessBehind
  <2> QED
    BY <1>1, <1>2, <1>5, <2>2, <2>3, <2>4 DEF ProjectsStep, RequestsTyped, T
<1>6. ASSUME NEW r \in P!Row, P!Write(s, r),
             s \notin behind /\ r.auto # project[s].auto
               => r = [project[s] EXCEPT !.auto = ~project[s].auto]
      PROVE  ProjectsStep
  <2>1. CASE ~P!Known(s)
    BY <1>1, <1>6, <2>1, ProjectsStand DEF P!Write
  <2>2. CASE P!Known(s) /\ r # project[s]
    BY <1>5, <1>6, <2>2 DEF P!Write, P!Reload
  <2>3. CASE P!Known(s) /\ r = project[s]
    <3>1. project' = project /\ UNCHANGED <<listed, behind>>
      BY <1>2, <1>6, <2>3 DEF P!Write, RequestsTyped
    <3> QED
      BY <1>1, <3>1, ProjectsStand
  <2> QED
    BY <2>1, <2>2, <2>3
<1>7. CASE P!ToggleAuto(s)
  <2>1. PICK r : r = [project[s] EXCEPT !.auto = ~listed[s].auto, !.cap = listed[s].cap,
                                        !.allowed = listed[s].allowed]
    OBVIOUS
  <2>2. P!Write(s, r)
    BY <1>7, <2>1 DEF P!ToggleAuto
  <2>3. CASE ~P!Known(s)
    BY <1>1, <2>2, <2>3, ProjectsStand DEF P!Write, TasksStep
  <2>4. CASE P!Known(s)
    <3>1. project[s] \in P!Row
      BY <1>2, <2>4 DEF RequestsTyped, P!Known
    <3>2. r \in P!Row
      BY <1>3, <2>1, <3>1 DEF P!Row
    <3>3. ASSUME s \notin behind PROVE r = [project[s] EXCEPT !.auto = ~project[s].auto]
      <4>1. listed[s] = project[s]
        BY <1>2, <3>3 DEF ListedUnlessBehind
      <4> QED
        BY <2>1, <3>1, <4>1 DEF P!Row
    <3> QED
      BY <1>1, <1>6, <2>2, <3>2, <3>3 DEF TasksStep
  <2> QED
    BY <2>3, <2>4
<1>8. CASE P!ToggleArchived(s)
  <2>1. PICK r : r = [project[s] EXCEPT !.archived = ~listed[s].archived]
    OBVIOUS
  <2>2. P!Write(s, r)
    BY <1>8, <2>1 DEF P!ToggleArchived
  <2>3. CASE ~P!Known(s)
    BY <1>1, <2>2, <2>3, ProjectsStand DEF P!Write, TasksStep
  <2>4. CASE P!Known(s)
    <3>1. project[s] \in P!Row
      BY <1>2, <2>4 DEF RequestsTyped, P!Known
    <3>2. r \in P!Row /\ r.auto = project[s].auto
      BY <1>3, <2>1, <3>1 DEF P!Row
    <3> QED
      BY <1>1, <1>6, <2>2, <3>2 DEF TasksStep
  <2> QED
    BY <2>3, <2>4
<1> QED
  BY <1>7, <1>8

(* The switches of the registry, and the page that reads again.            *)
LEMMA RegistrySteps ==
  ASSUME P!ProjectsAssumption, RequestsInv,
         \/ \E m \in Registered : P!SwitchModel(m)
         \/ \E p \in P!Providers : P!SwitchProvider(p)
         \/ P!PageLoads
  PROVE  TasksStep /\ ProjectsStep
<1>1. RequestsTyped /\ ListedUnlessBehind
  BY DEF RequestsInv
<1>2. tasks' = tasks /\ project' = project
  BY DEF P!SwitchModel, P!SwitchProvider, P!PageLoads
<1>3. /\ on' \subseteq Registered /\ up' \subseteq P!Providers
  BY <1>1 DEF RequestsTyped, P!SwitchModel, P!SwitchProvider, P!PageLoads
<1>4. (listed' = project /\ behind' = {}) \/ UNCHANGED <<listed, behind>>
  BY DEF P!SwitchModel, P!SwitchProvider, P!PageLoads, P!Reload
<1> QED
  BY <1>1, <1>2, <1>3, <1>4 DEF TasksStep, ProjectsStep, RequestsTyped, ListedUnlessBehind

(* So it is with each step of the daemon, of the page and of others.       *)
LEMMA RequestsSteps ==
  ASSUME P!ProjectsAssumption, RequestsInv, P!Next PROVE TasksStep /\ ProjectsStep
<1>1. CASE \E suffix, header \in P!Named, pin \in Wanted,
              t \in {0} \cup {i \in DOMAIN tasks : tasks[i].live} :
                P!BeginOrchestration(suffix, header, pin, t)
  BY <1>1, BeginSteps
<1>2. CASE \E suffix \in P!Named, pin \in Wanted, auto \in BOOLEAN, text \in {"", "0", "1"} :
              Len(tasks) < MaxTasks /\ P!RunForm(suffix, pin, auto, text)
  BY <1>2, RunSteps
<1>3. CASE \E t \in DOMAIN tasks :
              \/ P!PickHarness(t) \/ P!Aborted(t) \/ P!Ended(t)
              \/ \E cap \in P!Caps : P!PostSettings(t, cap)
  BY <1>3, TaskSteps
<1>4. CASE \E s \in Slugs : \/ \E r \in P!Row : P!Create(s, r) \/ P!Patch(s, r)
                            \/ P!Delete(s) \/ P!ToggleAuto(s) \/ P!ToggleArchived(s)
  BY <1>4, RouteSteps, PageSteps
<1> QED
  BY <1>1, <1>2, <1>3, <1>4, RegistrySteps DEF P!Next

(* Each step keeps what the requests' state means.                         *)
LEMMA RequestsNext ==
  ASSUME P!ProjectsAssumption PROVE RequestsInv /\ [P!Next]_(P!vars) => RequestsInv'
<1> SUFFICES ASSUME RequestsInv, [P!Next]_(P!vars) PROVE RequestsInv'
  OBVIOUS
<1>1. CASE UNCHANGED P!vars
  BY <1>1 DEF P!vars, RequestsInv, RequestsTyped, Bounded, ListedUnlessBehind
<1>2. CASE P!Next
  <2>1. TasksStep /\ ProjectsStep
    BY <1>2, RequestsSteps
  <2>2. tasks \in Seq(TaskRows) /\ \A t \in DOMAIN tasks : Bounded(tasks[t])
    BY DEF RequestsInv, RequestsTyped
  <2>3. tasks' \in Seq(TaskRows) /\ \A t \in DOMAIN tasks' : Bounded(tasks'[t])
    <3>1. CASE tasks' = tasks
      BY <2>2, <3>1
    <3>2. CASE \E t \in TaskRows : tasks' = Append(tasks, t) /\ Bounded(t)
      <4>1. PICK t \in TaskRows : tasks' = Append(tasks, t) /\ Bounded(t)
        BY <3>2
      <4>2. PICK q : q = Append(tasks, t)
        OBVIOUS
      <4>3. /\ q \in Seq(TaskRows) /\ q[Len(tasks) + 1] = t
            /\ \A i \in DOMAIN tasks : q[i] = tasks[i]
            /\ \A i \in DOMAIN q : i \in DOMAIN tasks \/ i = Len(tasks) + 1
        BY <2>2, <4>2, Appended
      <4>4. tasks' = q
        BY <4>1, <4>2
      <4>5. \A i \in DOMAIN q : Bounded(q[i])
        BY <2>2, <4>1, <4>3
      <4> QED
        BY <4>3, <4>4, <4>5
    <3>3. CASE \E i \in DOMAIN tasks : \E t \in TaskRows :
                 tasks' = [tasks EXCEPT ![i] = t] /\ Bounded(t)
      <4>1. PICK i \in DOMAIN tasks, t \in TaskRows :
              tasks' = [tasks EXCEPT ![i] = t] /\ Bounded(t)
        BY <3>3
      <4>2. /\ tasks' \in Seq(TaskRows) /\ DOMAIN tasks' = DOMAIN tasks /\ tasks'[i] = t
            /\ \A j \in DOMAIN tasks : j # i => tasks'[j] = tasks[j]
        BY <2>2, <4>1
      <4> QED
        BY <2>2, <4>1, <4>2
    <3> QED
      BY <2>1, <3>1, <3>2, <3>3 DEF TasksStep
  <2> QED
    BY <2>1, <2>3 DEF RequestsInv, RequestsTyped, ProjectsStep
<1> QED
  BY <1>1, <1>2

(* A refused request leaves no task, a task starts with a leader that is    *)
(* enabled, and a switch of the page turns that switch.                    *)
LEMMA RequestsAnswered ==
  ASSUME P!ProjectsAssumption, RequestsInv, [P!Next]_(P!vars)
  PROVE  /\ [/\ reply' = "refused" => tasks' = tasks
             /\ Len(tasks') > Len(tasks) => P!Last(tasks').leader \in on]_(P!vars)
         /\ [\A s \in Slugs :
               s \notin behind /\ listed' # listed /\ project'[s].auto # project[s].auto
               => project'[s] = [project[s] EXCEPT !.auto = ~project[s].auto]]_(P!vars)
<1>1. CASE UNCHANGED P!vars
  BY <1>1
<1>2. CASE P!Next
  <2>1. TasksStep /\ ProjectsStep
    BY <1>2, RequestsSteps
  <2>2. tasks \in Seq(TaskRows)
    BY DEF RequestsInv, RequestsTyped
  <2>3. reply' = "refused" => tasks' = tasks
    BY <2>1 DEF TasksStep
  <2>4. ASSUME Len(tasks') > Len(tasks) PROVE P!Last(tasks').leader \in on
    <3>1. tasks' # tasks
      BY <2>2, <2>4
    <3>2. CASE \E i \in DOMAIN tasks : \E t \in TaskRows : tasks' = [tasks EXCEPT ![i] = t]
      BY <2>2, <2>4, <3>2
    <3>3. CASE \E t \in TaskRows : tasks' = Append(tasks, t) /\ t.leader \in on
      BY <2>2, <3>3 DEF P!Last
    <3> QED
      BY <2>1, <3>1, <3>2, <3>3 DEF TasksStep
  <2> QED
    BY <2>1, <2>3, <2>4 DEF ProjectsStep
<1> QED
  BY <1>1, <1>2

(***************************************************************************)
(* The chat.                                                               *)
(***************************************************************************)
(* Every line of the one set was typed before every line of the other.     *)
Before(these, those) == \A a \in these, b \in those : a < b

(* The lines of a sequence that are not blank, and their order.            *)
Spoken(s) == C!Lines(s) \ {0}
SpokenInOrder(s) == \A i, j \in 1..Len(s) : i < j /\ s[i] # 0 /\ s[j] # 0 => s[i] < s[j]

(* What a line more, or a line less, makes of a sequence's lines.          *)
LEMMA LinesOf ==
  ASSUME NEW s \in Seq(Nat)
  PROVE  /\ C!Lines(s) \subseteq Nat
         /\ \A x \in Nat : C!Lines(Append(s, x)) = C!Lines(s) \cup {x}
         /\ \A t \in Seq(Nat) : C!Lines(s \o t) = C!Lines(s) \cup C!Lines(t)
         /\ s # <<>> => /\ Head(s) \in Nat /\ Tail(s) \in Seq(Nat)
                        /\ C!Lines(s) = {Head(s)} \cup C!Lines(Tail(s))
         /\ C!Lines(<<>>) = {}
<1>1. C!Lines(s) \subseteq Nat
  BY DEF C!Lines
<1>2. ASSUME NEW x \in Nat PROVE C!Lines(Append(s, x)) = C!Lines(s) \cup {x}
  <2>1. /\ Len(Append(s, x)) = Len(s) + 1 /\ Append(s, x)[Len(s) + 1] = x
        /\ \A i \in 1..Len(s) : Append(s, x)[i] = s[i]
    OBVIOUS
  <2>2. 1..Len(s) + 1 = 1..Len(s) \cup {Len(s) + 1}
    OBVIOUS
  <2> QED
    BY <2>1, <2>2 DEF C!Lines
<1>3. ASSUME NEW t \in Seq(Nat) PROVE C!Lines(s \o t) = C!Lines(s) \cup C!Lines(t)
  <2>1. /\ Len(s \o t) = Len(s) + Len(t)
        /\ \A i \in 1..Len(s) : (s \o t)[i] = s[i]
    OBVIOUS
  <2>2. \A i \in 1..Len(t) : (s \o t)[Len(s) + i] = t[i]
    OBVIOUS
  <2>3. ASSUME NEW n \in C!Lines(s \o t) PROVE n \in C!Lines(s) \cup C!Lines(t)
    <3>1. PICK i \in 1..Len(s) + Len(t) : n = (s \o t)[i]
      BY <2>1 DEF C!Lines
    <3>2. CASE i <= Len(s)
      BY <2>1, <3>1, <3>2 DEF C!Lines
    <3>3. CASE i > Len(s)
      <4>1. i - Len(s) \in 1..Len(t) /\ Len(s) + (i - Len(s)) = i
        BY <3>3
      <4>2. n = t[i - Len(s)]
        BY <2>2, <3>1, <4>1
      <4> QED
        BY <4>1, <4>2 DEF C!Lines
    <3> QED
      BY <3>2, <3>3
  <2>4. ASSUME NEW n \in C!Lines(s) PROVE n \in C!Lines(s \o t)
    <3>1. PICK i \in 1..Len(s) : n = s[i]
      BY DEF C!Lines
    <3>2. i \in 1..Len(s \o t) /\ n = (s \o t)[i]
      BY <2>1, <3>1
    <3> QED
      BY <3>2 DEF C!Lines
  <2>5. ASSUME NEW n \in C!Lines(t) PROVE n \in C!Lines(s \o t)
    <3>1. PICK i \in 1..Len(t) : n = t[i]
      BY DEF C!Lines
    <3>2. Len(s) + i \in 1..Len(s \o t) /\ n = (s \o t)[Len(s) + i]
      BY <2>1, <2>2, <3>1
    <3> QED
      BY <3>2 DEF C!Lines
  <2> QED
    BY <2>3, <2>4, <2>5
<1>4. ASSUME s # <<>>
      PROVE  /\ Head(s) \in Nat /\ Tail(s) \in Seq(Nat)
             /\ C!Lines(s) = {Head(s)} \cup C!Lines(Tail(s))
  <2>1. /\ Head(s) \in Nat /\ Tail(s) \in Seq(Nat) /\ Head(s) = s[1] /\ Len(s) >= 1
        /\ Len(Tail(s)) = Len(s) - 1 /\ \A i \in 1..Len(s) - 1 : Tail(s)[i] = s[i + 1]
    BY <1>4
  <2>2. ASSUME NEW n \in C!Lines(s) PROVE n \in {Head(s)} \cup C!Lines(Tail(s))
    <3>1. PICK i \in 1..Len(s) : n = s[i]
      BY DEF C!Lines
    <3>2. CASE i = 1
      BY <2>1, <3>1, <3>2
    <3>3. CASE i # 1
      <4>1. i - 1 \in 1..Len(s) - 1 /\ i - 1 + 1 = i
        BY <3>3
      <4>2. n = Tail(s)[i - 1]
        BY <2>1, <3>1, <4>1
      <4> QED
        BY <2>1, <4>1, <4>2 DEF C!Lines
    <3> QED
      BY <3>2, <3>3
  <2>3. ASSUME NEW n \in C!Lines(Tail(s)) PROVE n \in C!Lines(s)
    <3>1. PICK i \in 1..Len(s) - 1 : n = Tail(s)[i]
      BY <2>1 DEF C!Lines
    <3>2. i + 1 \in 1..Len(s) /\ n = s[i + 1]
      BY <2>1, <3>1
    <3> QED
      BY <3>2 DEF C!Lines
  <2>4. Head(s) \in C!Lines(s)
    <3>1. 1 \in 1..Len(s)
      BY <2>1
    <3> QED
      BY <2>1, <3>1 DEF C!Lines
  <2> QED
    BY <2>1, <2>2, <2>3, <2>4
<1>5. C!Lines(<<>>) = {}
  BY DEF C!Lines
<1> QED
  BY <1>1, <1>2, <1>3, <1>4, <1>5

(* Sequences in order, one after the other, are in order.                  *)
LEMMA OrderKept ==
  ASSUME NEW s \in Seq(Nat)
  PROVE  /\ \A x \in Nat : C!Increasing(s) /\ Before(C!Lines(s), {x}) => C!Increasing(Append(s, x))
         /\ \A t \in Seq(Nat) :
              C!Increasing(s) /\ C!Increasing(t) /\ Before(C!Lines(s), C!Lines(t)) =>
                C!Increasing(s \o t)
         /\ s # <<>> /\ C!Increasing(s) =>
              C!Increasing(Tail(s)) /\ Before({Head(s)}, C!Lines(Tail(s)))
         /\ \A x \in Nat : SpokenInOrder(s) /\ Before(Spoken(s), {x} \ {0}) =>
                             SpokenInOrder(Append(s, x))
         /\ s # <<>> /\ SpokenInOrder(s) =>
              SpokenInOrder(Tail(s)) /\ Before({Head(s)} \ {0}, Spoken(Tail(s)))
<1>0. \A i \in 1..Len(s) : s[i] \in C!Lines(s) /\ s[i] \in Nat
  BY DEF C!Lines
<1>1. ASSUME NEW x \in Nat
      PROVE  /\ C!Increasing(s) /\ Before(C!Lines(s), {x}) => C!Increasing(Append(s, x))
             /\ SpokenInOrder(s) /\ Before(Spoken(s), {x} \ {0}) => SpokenInOrder(Append(s, x))
  <2>1. /\ Len(Append(s, x)) = Len(s) + 1 /\ Append(s, x)[Len(s) + 1] = x
        /\ \A i \in 1..Len(s) : Append(s, x)[i] = s[i]
    OBVIOUS
  <2>2. PICK u : u = Append(s, x)
    OBVIOUS
  <2>3. ASSUME NEW i \in 1..Len(u), NEW j \in 1..Len(u), i < j
        PROVE  /\ i \in 1..Len(s) /\ u[i] = s[i]
               /\ \/ j \in 1..Len(s) /\ u[j] = s[j]
                  \/ u[j] = x
    BY <2>1, <2>2, <2>3
  <2>4. ASSUME C!Increasing(s), Before(C!Lines(s), {x}),
               NEW i \in 1..Len(u), NEW j \in 1..Len(u), i < j
        PROVE  u[i] < u[j]
    BY <1>0, <2>3, <2>4 DEF C!Increasing, Before
  <2>5. ASSUME SpokenInOrder(s), Before(Spoken(s), {x} \ {0}),
               NEW i \in 1..Len(u), NEW j \in 1..Len(u), i < j, u[i] # 0, u[j] # 0
        PROVE  u[i] < u[j]
    BY <1>0, <2>3, <2>5 DEF SpokenInOrder, Before, Spoken
  <2> QED
    BY <2>2, <2>4, <2>5 DEF C!Increasing, SpokenInOrder
<1>2. ASSUME NEW t \in Seq(Nat), C!Increasing(s), C!Increasing(t),
             Before(C!Lines(s), C!Lines(t))
      PROVE  C!Increasing(s \o t)
  <2>1. PICK u : u = s \o t
    OBVIOUS
  <2>2. /\ Len(u) = Len(s) + Len(t) /\ \A i \in 1..Len(s) : u[i] = s[i]
        /\ \A i \in 1..Len(t) : u[Len(s) + i] = t[i]
    BY <2>1
  <2>3. \A i \in 1..Len(t) : t[i] \in C!Lines(t) /\ t[i] \in Nat
    BY DEF C!Lines
  <2>4. ASSUME NEW i \in 1..Len(u), NEW j \in 1..Len(u), i < j PROVE u[i] < u[j]
    <3>1. Len(s) \in Nat /\ Len(t) \in Nat /\ i \in 1..Len(s) + Len(t) /\ j \in 1..Len(s) + Len(t)
      BY <2>2
    <3>2. CASE j <= Len(s)
      <4>1. i \in 1..Len(s) /\ j \in 1..Len(s)
        BY <2>4, <3>1, <3>2
      <4> QED
        BY <1>2, <2>2, <2>4, <4>1 DEF C!Increasing
    <3>3. CASE i <= Len(s) /\ j > Len(s)
      <4>1. i \in 1..Len(s) /\ j - Len(s) \in 1..Len(t) /\ Len(s) + (j - Len(s)) = j
        BY <3>1, <3>3
      <4>2. u[i] = s[i] /\ u[j] = t[j - Len(s)]
        BY <2>2, <4>1
      <4> QED
        BY <1>0, <1>2, <2>3, <4>1, <4>2 DEF Before
    <3>4. CASE i > Len(s)
      <4>1. /\ i - Len(s) \in 1..Len(t) /\ Len(s) + (i - Len(s)) = i
            /\ j - Len(s) \in 1..Len(t) /\ Len(s) + (j - Len(s)) = j
            /\ i - Len(s) < j - Len(s)
        BY <2>4, <3>1, <3>4
      <4>2. u[i] = t[i - Len(s)] /\ u[j] = t[j - Len(s)]
        BY <2>2, <4>1
      <4> QED
        BY <1>2, <4>1, <4>2 DEF C!Increasing
    <3> QED
      BY <3>1, <3>2, <3>3, <3>4
  <2> QED
    BY <2>1, <2>4 DEF C!Increasing
<1>3. ASSUME s # <<>>
      PROVE  /\ C!Increasing(s) => C!Increasing(Tail(s)) /\ Before({Head(s)}, C!Lines(Tail(s)))
             /\ SpokenInOrder(s) =>
                  SpokenInOrder(Tail(s)) /\ Before({Head(s)} \ {0}, Spoken(Tail(s)))
  <2>1. PICK u : u = Tail(s)
    OBVIOUS
  <2>2. /\ Head(s) = s[1] /\ 1 \in 1..Len(s) /\ Len(u) = Len(s) - 1
        /\ \A i \in 1..Len(u) : u[i] = s[i + 1] /\ i + 1 \in 1..Len(s) /\ 1 < i + 1
    BY <1>3, <2>1
  <2>3. \A i, j \in 1..Len(u) : i < j => i + 1 < j + 1
    BY <2>2
  <2>4. ASSUME C!Increasing(s) PROVE C!Increasing(u) /\ Before({Head(s)}, C!Lines(u))
    <3>1. C!Increasing(u)
      BY <2>2, <2>3, <2>4 DEF C!Increasing
    <3>2. Before({Head(s)}, C!Lines(u))
      BY <2>2, <2>4 DEF C!Increasing, C!Lines, Before
    <3> QED
      BY <3>1, <3>2
  <2>5. ASSUME SpokenInOrder(s) PROVE SpokenInOrder(u) /\ Before({Head(s)} \ {0}, Spoken(u))
    <3>1. SpokenInOrder(u)
      BY <2>2, <2>3, <2>5 DEF SpokenInOrder
    <3>2. ASSUME NEW n \in Spoken(u), Head(s) # 0 PROVE Head(s) < n
      <4>1. PICK i \in 1..Len(u) : n = u[i]
        BY DEF Spoken, C!Lines
      <4>2. n = s[i + 1] /\ i + 1 \in 1..Len(s) /\ 1 \in 1..Len(s) /\ 1 < i + 1 /\ s[1] # 0
        BY <2>2, <3>2, <4>1
      <4>3. s[i + 1] # 0
        BY <4>2 DEF Spoken
      <4>4. s[1] < s[i + 1]
        BY <2>5, <4>2, <4>3 DEF SpokenInOrder
      <4> QED
        BY <2>2, <4>2, <4>4
    <3>3. Before({Head(s)} \ {0}, Spoken(u))
      BY <3>2 DEF Before
    <3> QED
      BY <3>1, <3>3
  <2> QED
    BY <2>1, <2>4, <2>5
<1> QED
  BY <1>1, <1>2, <1>3

(* The words of lines are those that are not blank, in order.              *)
LEMMA WordsOf ==
  ASSUME NEW lines \in Seq(Nat), NEW words \in C!Words(lines)
  PROVE  words \in Seq(Nat) /\ C!Increasing(words) /\ C!Lines(words) = Spoken(lines)
<1> DEFINE W == {n \in C!Lines(lines) : ~C!Blank(n)}
<1>1. W = Spoken(lines) /\ W \subseteq Nat
  BY LinesOf DEF C!Blank, Spoken
<1>2. /\ words \in UNION {[1..k -> W] : k \in 0..Len(lines)}
      /\ C!Increasing(words) /\ C!Lines(words) = W
  BY DEF C!Words
<1>3. PICK k \in 0..Len(lines) : words \in [1..k -> W]
  BY <1>2
<1> HIDE DEF W
<1>4. k \in Nat
  OBVIOUS
<1>5. words \in Seq(Nat)
  BY <1>1, <1>3, <1>4
<1> QED
  BY <1>1, <1>2, <1>5


(* What the daemon streams, its tasks, the conversation and the POSTs.     *)
Deltas == {"progress", "answer", "notice"}
Events == Deltas \cup {"error", "cut", "done"}
Tasks == [kind : {"none", "task", "plain"}, said : Seq(Deltas),
          status : {"none", "running", "succeeded", "failed", "cancelled", "lost"}]
Messages == {C!User(n) : n \in Nat} \cup {C!Assistant(s) : s \in Seq(Deltas)}
Steers == [line : Nat, answer : {"none", "queued", "refused"}]

(* What was typed and where the lines are: the n-th is n, or blank.        *)
KeysTyped ==
  /\ typed \in Seq(Nat) /\ Len(typed) <= MaxLines /\ \A i \in 1..Len(typed) : typed[i] \in {0, i}
  /\ queue \in Seq(Nat) /\ pending \in Seq(Nat) /\ sent \in Seq(Nat)
  /\ flight = <<>> \/ \E f \in Steers : flight = <<f>>

(* The flags of the session.                                               *)
FlagsTyped ==
  /\ live \in BOOLEAN /\ closed \in BOOLEAN /\ threw \in BOOLEAN
  /\ failed \in BOOLEAN /\ interrupted \in BOOLEAN
  /\ phase \in {"ask", "starting", "running", "ending", "over"} /\ code \in {-1, 0, 1, 130}
  /\ cancel \in {"none", "fired", "delivered"}

(* The conversation, the tasks and the stream.                             *)
TalkTyped ==
  /\ messages \in Seq(Messages) /\ turns \in Seq(Tasks) /\ turn \in Tasks
  /\ feed \in Seq(Deltas) /\ net \in Seq(Events)

(* The variables of the chat have their types.                             *)
ChatTyped == KeysTyped /\ FlagsTyped /\ TalkTyped

(* The line whose task is being started, and the line a POST carries; which  *)
(* waits until the daemon has decided.                                     *)
Starting == IF phase = "starting" THEN {C!Last(messages).content} ELSE {}
Flying == IF flight = <<>> THEN {} ELSE {flight[1].line}
Waiting == IF flight # <<>> /\ flight[1].answer = "none" THEN {flight[1].line} ELSE {}

(* No line is made up.                                                     *)
FromTyped ==
  C!Lines(sent) \cup told \cup Starting \cup Flying \cup C!Lines(pending) \cup Spoken(queue)
    \subseteq Spoken(typed)

(* Lines move from the queue to the chain, from there to a POST and on to   *)
(* the daemon, and none overtakes another.                                 *)
LineOrder ==
  /\ C!Increasing(sent) /\ C!Increasing(pending) /\ SpokenInOrder(queue)
  /\ Before(C!Lines(sent), Starting \cup Waiting \cup C!Lines(pending) \cup Spoken(queue))
  /\ Before(Starting \cup Waiting, C!Lines(pending) \cup Spoken(queue))
  /\ Before(C!Lines(pending), Spoken(queue))

(* Lines are steered with while a task runs, and a session that has ended   *)
(* well has none left.                                                     *)
Quiet ==
  /\ live <=> phase = "running"
  /\ live => queue = <<>>
  /\ phase \in {"ask", "starting"} => pending = <<>> /\ flight = <<>>
  /\ phase = "over" /\ code = 0 => pending = <<>> /\ flight = <<>> /\ queue = <<>>

(* No line is lost but by a POST that throws or a session that fails.      *)
Covered ==
  ~threw /\ (phase = "over" => code = 0) =>
    Spoken(typed) \subseteq
      C!Lines(sent) \cup told \cup Starting \cup Flying \cup C!Lines(pending) \cup Spoken(queue)

(* The argument about the lines.                                           *)
LinesInv == FromTyped /\ LineOrder /\ Quiet /\ Covered

(* Each turn took a line, so that there are no more turns than lines.      *)
TurnsCount ==
  /\ phase = "ask" => Len(messages) = 2 * Len(turns)
  /\ phase \in {"starting", "running", "ending"} => Len(messages) = 2 * Len(turns) + 1
  /\ Len(messages) <= 2 * MaxLines + 1
  /\ Len(turns) = 0 \/ \E n \in C!Lines(sent) : n >= Len(turns)
  /\ phase = "starting" => C!Last(messages).content >= Len(turns) + 1
  /\ phase \in {"running", "ending"} => \E n \in C!Lines(sent) : n >= Len(turns) + 1

(* What the task said is what was read and what is on its way, and a stream *)
(* that ended well was read whole.                                         *)
Streaming ==
  /\ phase = "running" /\ turn.status = "running" =>
       net \in Seq(Deltas) /\ turn.said = feed \o net
  /\ phase = "running" /\ turn.status = "succeeded" =>
       \E r \in Seq(Deltas) : net = r \o <<"done">> /\ turn.said = feed \o r
  /\ phase = "ending" /\ ~interrupted /\ ~failed =>
       turn.status # "running" /\ (turn.status = "succeeded" => turn.said = feed)
  /\ phase \in {"ask", "starting"} => turn.status # "running"
  /\ turn.status = "succeeded" /\ turn.kind = "task" =>
       turn.said # <<>> /\ C!Last(turn.said) = "answer"

(* The invariant of the chat.                                              *)
ChatInv == ChatTyped /\ LinesInv /\ TurnsCount /\ Streaming /\ C!AnswersCarried

(* Of no lines nothing is said, and they are in order.                     *)
LEMMA NoLines ==
  /\ C!Lines(<<>>) = {} /\ Spoken(<<>>) = {} /\ C!Increasing(<<>>) /\ SpokenInOrder(<<>>)
BY DEF C!Lines, Spoken, C!Increasing, SpokenInOrder

(* A line is numbered by its place.                                        *)
LEMMA LinesTyped == ASSUME ChatTyped PROVE \A n \in Spoken(typed) : n \in 1..Len(typed)
<1> SUFFICES ASSUME NEW n \in Spoken(typed) PROVE n \in 1..Len(typed)
  OBVIOUS
<1>1. PICK i \in 1..Len(typed) : n = typed[i]
  BY DEF Spoken, C!Lines
<1>2. n # 0 /\ typed[i] \in {0, i}
  BY <1>1 DEF Spoken, ChatTyped, KeysTyped
<1> QED
  BY <1>1, <1>2

(* The session starts with an instruction or asks for one.                 *)
LEMMA ChatInit == ASSUME C!ChatAssumption PROVE C!Init => ChatInv
<1> SUFFICES ASSUME C!Init PROVE ChatInv
  OBVIOUS
<1>1. /\ queue = <<>> /\ live = FALSE /\ closed = FALSE /\ code = -1 /\ feed = <<>>
      /\ failed = FALSE /\ interrupted = FALSE /\ pending = <<>> /\ flight = <<>>
      /\ cancel = "none" /\ turn = C!None /\ net = <<>> /\ sent = <<>> /\ told = {}
      /\ threw = FALSE /\ turns = <<>>
  BY DEF C!Init
<1>2. MaxLines \in Nat /\ MaxLines >= 1
  BY DEF C!ChatAssumption
<1>3. /\ turn \in Tasks /\ turn.status = "none"
  <2>1. <<>> \in Seq(Deltas)
    OBVIOUS
  <2> QED
    BY <1>1, <2>1 DEF C!None, Tasks
<1>4. Streaming /\ C!AnswersCarried
  <2>1. phase \in {"ask", "starting"}
    BY DEF C!Init
  <2> QED
    BY <1>1, <1>3, <2>1 DEF Streaming, C!AnswersCarried
<1>5. CASE typed = <<>> /\ phase = "ask" /\ messages = <<>>
  <2>1. typed \in Seq(Nat) /\ Len(typed) = 0
    BY <1>5
  <2>2. messages \in Seq(Messages) /\ turns \in Seq(Tasks) /\ feed \in Seq(Deltas) /\ net \in Seq(Events)
    BY <1>1, <1>5
  <2>3. queue \in Seq(Nat) /\ pending \in Seq(Nat) /\ sent \in Seq(Nat)
    BY <1>1
  <2>4. ChatTyped
    <3>1. code \in {-1, 0, 1, 130}
      BY <1>1
    <3>2. /\ cancel \in {"none", "fired", "delivered"}
          /\ phase \in {"ask", "starting", "running", "ending", "over"}
      BY <1>1, <1>5
    <3>3. /\ live \in BOOLEAN /\ closed \in BOOLEAN /\ threw \in BOOLEAN
          /\ failed \in BOOLEAN /\ interrupted \in BOOLEAN
      BY <1>1
    <3>4. flight = <<>> \/ \E f \in Steers : flight = <<f>>
      BY <1>1
    <3>5. typed \in Seq(Nat) /\ Len(typed) <= MaxLines /\ \A i \in 1..Len(typed) : typed[i] \in {0, i}
      BY <1>2, <2>1
    <3> QED
      BY <1>3, <2>2, <2>3, <3>1, <3>2, <3>3, <3>4, <3>5
         DEF ChatTyped, KeysTyped, FlagsTyped, TalkTyped
  <2>5. LinesInv
    BY <1>1, <1>5, NoLines DEF LinesInv, FromTyped, LineOrder, Quiet, Covered, Starting, Flying,
                               Waiting, Before
  <2>6. TurnsCount
    BY <1>1, <1>2, <1>5 DEF TurnsCount
  <2> QED
    BY <1>4, <2>4, <2>5, <2>6 DEF ChatInv
<1>6. CASE typed = <<1>> /\ phase = "starting" /\ messages = <<C!User(1)>>
  <2>1. C!User(1) \in Messages
    BY DEF Messages
  <2>2. messages \in Seq(Messages) /\ Len(messages) = 1 /\ C!Last(messages).content = 1
    BY <1>6, <2>1 DEF C!Last, C!User
  <2>3. ChatTyped
    <3>1. typed \in Seq(Nat) /\ Len(typed) <= MaxLines /\ \A i \in 1..Len(typed) : typed[i] \in {0, i}
      BY <1>2, <1>6
    <3>2. turns \in Seq(Tasks) /\ feed \in Seq(Deltas) /\ net \in Seq(Events)
      BY <1>1
    <3>3. queue \in Seq(Nat) /\ pending \in Seq(Nat) /\ sent \in Seq(Nat)
      BY <1>1
    <3>4. code \in {-1, 0, 1, 130}
      BY <1>1
    <3>5. /\ cancel \in {"none", "fired", "delivered"}
          /\ phase \in {"ask", "starting", "running", "ending", "over"}
      BY <1>1, <1>6
    <3>6. /\ live \in BOOLEAN /\ closed \in BOOLEAN /\ threw \in BOOLEAN
          /\ failed \in BOOLEAN /\ interrupted \in BOOLEAN
      BY <1>1
    <3>7. flight = <<>> \/ \E f \in Steers : flight = <<f>>
      BY <1>1
    <3> QED
      BY <1>3, <2>2, <3>1, <3>2, <3>3, <3>4, <3>5, <3>6, <3>7
         DEF ChatTyped, KeysTyped, FlagsTyped, TalkTyped
  <2>4. Spoken(typed) = {1} /\ Starting = {1} /\ Waiting = {} /\ Flying = {}
    BY <1>1, <1>6, <2>2 DEF Spoken, C!Lines, Starting, Waiting, Flying
  <2>5. LinesInv
    BY <1>1, <1>6, <2>4, NoLines DEF LinesInv, FromTyped, LineOrder, Quiet, Covered, Before
  <2>6. TurnsCount
    BY <1>1, <1>2, <1>6, <2>2 DEF TurnsCount
  <2> QED
    BY <1>4, <2>3, <2>5, <2>6 DEF ChatInv
<1> QED
  BY <1>5, <1>6 DEF C!Init

(* What a step that leaves them alone keeps.                               *)
LEMMA LinesRest ==
  ASSUME LinesInv,
         UNCHANGED <<typed, queue, live, phase, code, messages, pending, flight, sent, told, threw>>
  PROVE  LinesInv'
BY DEF LinesInv, FromTyped, LineOrder, Quiet, Covered, Starting, Waiting, Flying, Before, Spoken

(* No turn ends where the conversation and the lines sent stay.            *)
LEMMA CountRests ==
  ASSUME TurnsCount, UNCHANGED <<phase, messages, turns, sent>> PROVE TurnsCount'
BY DEF TurnsCount

(* The answers stay where the conversation stays.                          *)
LEMMA AnswersRest ==
  ASSUME C!AnswersCarried, UNCHANGED <<messages, turns>> PROVE C!AnswersCarried'
BY DEF C!AnswersCarried

(* The flags stay.                                                         *)
LEMMA FlagsRest ==
  ASSUME FlagsTyped, UNCHANGED <<live, closed, threw, failed, interrupted, phase, code, cancel>>
  PROVE  FlagsTyped'
BY DEF FlagsTyped

(* The conversation and the stream stay.                                   *)
LEMMA TalkRests ==
  ASSUME TalkTyped, UNCHANGED <<messages, turns, turn, feed, net>> PROVE TalkTyped'
BY DEF TalkTyped

(* The lines stay where they are.                                          *)
LEMMA KeysRest ==
  ASSUME KeysTyped, UNCHANGED <<typed, queue, pending, sent, flight>> PROVE KeysTyped'
BY DEF KeysTyped

(* The stream and what was read of it stay.                                *)
LEMMA StreamRests ==
  ASSUME Streaming, UNCHANGED <<phase, turn, net, feed, interrupted, failed>> PROVE Streaming'
BY DEF Streaming

(* A line typed is put last, wherever it goes.                             *)
LEMMA TypeKeeps ==
  ASSUME C!ChatAssumption, ChatInv, NEW blank \in BOOLEAN, C!Type(blank) PROVE ChatInv'
<1>1. PICK line \in {0, Len(typed) + 1} :
        /\ typed' = Append(typed, line)
        /\ \/ live /\ C!onLine(<<line>>, turn.kind) /\ UNCHANGED queue
           \/ ~live /\ queue' = Append(queue, line) /\ UNCHANGED <<pending, told>>
  BY DEF C!Type
<1>2. /\ phase # "over" /\ Len(typed) < MaxLines
      /\ UNCHANGED <<live, closed, phase, code, messages, feed, failed, interrupted, flight, cancel,
                     turn, net, sent, threw, turns>>
  BY DEF C!Type, C!turn, C!daemon
<1>3. ChatTyped /\ KeysTyped /\ FlagsTyped /\ TalkTyped /\ LinesInv
  BY DEF ChatInv, ChatTyped
<1>4. FlagsTyped' /\ TalkTyped'
  BY <1>2, <1>3, FlagsRest, TalkRests
<1>5. TurnsCount' /\ Streaming' /\ C!AnswersCarried'
  BY <1>2, CountRests, StreamRests, AnswersRest DEF ChatInv
<1>6. /\ typed \in Seq(Nat) /\ Len(typed) \in Nat /\ queue \in Seq(Nat) /\ pending \in Seq(Nat)
      /\ sent \in Seq(Nat)
  BY <1>3 DEF KeysTyped
<1>7. line \in Nat
  BY <1>1, <1>6
<1>8. /\ typed' \in Seq(Nat) /\ Len(typed') <= MaxLines
      /\ \A i \in 1..Len(typed') : typed'[i] \in {0, i}
  <2>1. PICK t : t = Append(typed, line)
    OBVIOUS
  <2>2. /\ t \in Seq(Nat) /\ Len(t) = Len(typed) + 1 /\ t[Len(typed) + 1] = line
        /\ \A i \in 1..Len(typed) : t[i] = typed[i]
    BY <1>6, <1>7, <2>1
  <2>3. /\ \A i \in 1..Len(typed) : typed[i] \in {0, i}
        /\ \A i \in 1..Len(t) : i \in 1..Len(typed) \/ i = Len(typed) + 1
    BY <1>3, <1>6, <2>2 DEF KeysTyped
  <2>4. \A i \in 1..Len(t) : t[i] \in {0, i}
    BY <1>1, <2>2, <2>3
  <2>5. MaxLines \in Nat
    BY DEF C!ChatAssumption
  <2> QED
    BY <1>1, <1>2, <1>6, <2>1, <2>2, <2>4, <2>5
<1>9. Spoken(typed') = Spoken(typed) \cup ({line} \ {0})
  <2>1. C!Lines(Append(typed, line)) = C!Lines(typed) \cup {line}
    BY <1>6, <1>7, LinesOf
  <2> QED
    BY <1>1, <2>1 DEF Spoken
<1>10. Before(Spoken(typed), {line} \ {0})
  <2>1. \A n \in Spoken(typed) : n \in 1..Len(typed)
    BY <1>3, LinesTyped
  <2> QED
    BY <1>1, <1>6, <2>1 DEF Before
<1>11. UNCHANGED <<Starting, Waiting, Flying>>
  BY <1>2 DEF Starting, Waiting, Flying
<1>12. Before(C!Lines(sent) \cup Starting \cup Waiting \cup C!Lines(pending) \cup Spoken(queue),
              {line} \ {0})
  <2>1. Waiting \subseteq Flying
    BY DEF Waiting, Flying
  <2> QED
    BY <1>3, <1>10, <2>1 DEF LinesInv, FromTyped, Before
<1>13. CASE ~live
  <2>1. queue' = Append(queue, line) /\ UNCHANGED <<pending, told>>
    BY <1>1, <1>13
  <2>2. /\ queue' \in Seq(Nat) /\ Spoken(queue') = Spoken(queue) \cup ({line} \ {0})
    <3>1. C!Lines(Append(queue, line)) = C!Lines(queue) \cup {line}
      BY <1>6, <1>7, LinesOf
    <3> QED
      BY <1>6, <1>7, <2>1, <3>1 DEF Spoken
  <2>3. SpokenInOrder(queue')
    <3>1. Before(Spoken(queue), {line} \ {0}) /\ SpokenInOrder(queue)
      BY <1>3, <1>10 DEF LinesInv, FromTyped, LineOrder, Before
    <3> QED
      BY <1>6, <1>7, <2>1, <3>1, OrderKept
  <2>4. KeysTyped'
    BY <1>2, <1>3, <1>8, <2>1, <2>2 DEF KeysTyped
  <2>5. FromTyped'
    BY <1>2, <1>3, <1>9, <1>11, <2>1, <2>2 DEF LinesInv, FromTyped
  <2>6. LineOrder'
    BY <1>2, <1>3, <1>11, <1>12, <2>1, <2>2, <2>3 DEF LinesInv, LineOrder, Before
  <2>7. Quiet'
    BY <1>2, <1>3, <1>13, <2>1 DEF LinesInv, Quiet
  <2>8. Covered'
    BY <1>2, <1>3, <1>9, <1>11, <2>1, <2>2 DEF LinesInv, Covered
  <2> QED
    BY <1>4, <1>5, <2>4, <2>5, <2>6, <2>7, <2>8 DEF ChatInv, ChatTyped, LinesInv
<1>14. CASE live
  <2>1. PICK words \in C!Words(<<line>>) :
          IF turn.kind = "task" THEN pending' = pending \o words /\ UNCHANGED told
          ELSE told' = told \cup C!Lines(words) /\ UNCHANGED pending
    BY <1>1, <1>14 DEF C!onLine
  <2>2. words \in Seq(Nat) /\ C!Increasing(words) /\ C!Lines(words) = {line} \ {0}
    <3>1. <<line>> \in Seq(Nat)
      BY <1>7
    <3>2. words \in Seq(Nat) /\ C!Increasing(words) /\ C!Lines(words) = Spoken(<<line>>)
      BY <3>1, WordsOf
    <3>3. Spoken(<<line>>) = {line} \ {0}
      BY <1>7 DEF Spoken, C!Lines
    <3> QED
      BY <3>2, <3>3
  <2>3. /\ UNCHANGED queue /\ queue = <<>> /\ Spoken(queue) = {} /\ phase = "running"
    BY <1>1, <1>3, <1>14, NoLines DEF LinesInv, Quiet
  <2>4. Starting = {}
    BY <2>3 DEF Starting
  <2>5. CASE turn.kind = "task"
    <3>1. pending' = pending \o words /\ UNCHANGED told
      BY <2>1, <2>5
    <3>2. C!Lines(pending') = C!Lines(pending) \cup ({line} \ {0}) /\ pending' \in Seq(Nat)
      BY <1>6, <2>2, <3>1, LinesOf
    <3>3. C!Increasing(pending')
      <4>1. Before(C!Lines(pending), C!Lines(words)) /\ C!Increasing(pending)
        BY <1>3, <1>10, <2>2 DEF LinesInv, FromTyped, LineOrder, Before
      <4> QED
        BY <1>6, <2>2, <3>1, <4>1, OrderKept
    <3>4. KeysTyped'
      BY <1>2, <1>3, <1>8, <2>3, <3>2 DEF KeysTyped
    <3>5. FromTyped'
      BY <1>2, <1>3, <1>9, <1>11, <2>3, <3>1, <3>2 DEF LinesInv, FromTyped
    <3>6. LineOrder'
      BY <1>2, <1>3, <1>11, <1>12, <2>3, <3>1, <3>2, <3>3 DEF LinesInv, LineOrder, Before
    <3>7. Quiet'
      BY <1>2, <1>3, <2>3 DEF LinesInv, Quiet
    <3>8. Covered'
      BY <1>2, <1>3, <1>9, <1>11, <2>3, <3>1, <3>2 DEF LinesInv, Covered
    <3> QED
      BY <1>4, <1>5, <3>4, <3>5, <3>6, <3>7, <3>8 DEF ChatInv, ChatTyped, LinesInv
  <2>6. CASE turn.kind # "task"
    <3>1. told' = told \cup ({line} \ {0}) /\ UNCHANGED pending
      BY <2>1, <2>2, <2>6
    <3>4. KeysTyped'
      BY <1>2, <1>3, <1>8, <2>3, <3>1 DEF KeysTyped
    <3>5. FromTyped'
      BY <1>2, <1>3, <1>9, <1>11, <2>3, <3>1 DEF LinesInv, FromTyped
    <3>6. LineOrder'
      BY <1>2, <1>3, <1>11, <2>3, <3>1 DEF LinesInv, LineOrder
    <3>7. Quiet'
      BY <1>2, <1>3, <2>3, <3>1 DEF LinesInv, Quiet
    <3>8. Covered'
      BY <1>2, <1>3, <1>9, <1>11, <2>3, <3>1 DEF LinesInv, Covered
    <3> QED
      BY <1>4, <1>5, <3>4, <3>5, <3>6, <3>7, <3>8 DEF ChatInv, ChatTyped, LinesInv
  <2> QED
    BY <2>5, <2>6
<1> QED
  BY <1>13, <1>14

(* The end of the input and a Ctrl-C leave the lines where they are.       *)
LEMMA SignalsKeep == ASSUME ChatInv, C!Close \/ C!Sigint \/ C!Cancelled PROVE ChatInv'
<1>1. ChatTyped /\ KeysTyped /\ FlagsTyped /\ TalkTyped /\ LinesInv
  BY DEF ChatInv, ChatTyped
<1>2. CASE C!Close
  <2>1. /\ closed' = TRUE
        /\ UNCHANGED <<typed, queue, live, phase, code, messages, feed, failed, interrupted, pending,
                       flight, cancel, turn, net, sent, told, threw, turns>>
    BY <1>2 DEF C!Close, C!turn, C!chain, C!daemon
  <2>2. KeysTyped' /\ TalkTyped' /\ LinesInv' /\ TurnsCount' /\ Streaming' /\ C!AnswersCarried'
    BY <1>1, <2>1, KeysRest, TalkRests, LinesRest, CountRests, StreamRests, AnswersRest DEF ChatInv
  <2>3. FlagsTyped'
    BY <1>1, <2>1 DEF FlagsTyped
  <2> QED
    BY <2>2, <2>3 DEF ChatInv, ChatTyped
<1>3. CASE C!Sigint
  <2>1. /\ live /\ interrupted' = TRUE /\ cancel' \in {cancel, "fired"}
        /\ UNCHANGED <<typed, queue, live, closed, phase, code, messages, feed, failed, pending,
                       flight, turn, net, sent, told, threw, turns>>
    BY <1>3 DEF C!Sigint, C!source, C!chain, C!daemon
  <2>2. KeysTyped' /\ TalkTyped' /\ LinesInv' /\ TurnsCount' /\ C!AnswersCarried'
    BY <1>1, <2>1, KeysRest, TalkRests, LinesRest, CountRests, AnswersRest DEF ChatInv
  <2>3. FlagsTyped'
    BY <1>1, <2>1 DEF FlagsTyped
  <2>4. Streaming'
    <3>1. phase = "running"
      BY <1>1, <2>1 DEF LinesInv, Quiet
    <3> QED
      BY <2>1, <3>1 DEF ChatInv, Streaming
  <2> QED
    BY <2>2, <2>3, <2>4 DEF ChatInv, ChatTyped
<1>4. CASE C!Cancelled
  <2>1. /\ cancel' = "delivered"
        /\ turn' = turn \/ (turn.status = "running" /\ turn' = [turn EXCEPT !.status = "cancelled"])
        /\ UNCHANGED <<typed, queue, live, closed, phase, code, messages, feed, failed, interrupted,
                       pending, flight, net, sent, told, threw, turns>>
    BY <1>4 DEF C!Cancelled, C!source, C!turn, C!chain
  <2>2. KeysTyped' /\ LinesInv' /\ TurnsCount' /\ C!AnswersCarried'
    BY <1>1, <2>1, KeysRest, LinesRest, CountRests, AnswersRest DEF ChatInv
  <2>3. FlagsTyped'
    BY <1>1, <2>1 DEF FlagsTyped
  <2>4. turn' \in Tasks
    BY <1>1, <2>1 DEF TalkTyped, Tasks
  <2>5. TalkTyped'
    BY <1>1, <2>1, <2>4 DEF TalkTyped
  <2>6. Streaming'
    <3>1. CASE turn' = turn
      BY <2>1, <3>1, StreamRests DEF ChatInv
    <3>2. CASE turn.status = "running" /\ turn' = [turn EXCEPT !.status = "cancelled"]
      <4>1. turn'.status = "cancelled"
        BY <1>1, <3>2 DEF TalkTyped, Tasks
      <4> QED
        BY <2>1, <4>1 DEF Streaming
    <3> QED
      BY <2>1, <3>1, <3>2
  <2> QED
    BY <2>2, <2>3, <2>5, <2>6 DEF ChatInv, ChatTyped
<1> QED
  BY <1>2, <1>3, <1>4

(* A conversation that grows keeps its answers.                            *)
LEMMA AnswersStay ==
  ASSUME TalkTyped, C!AnswersCarried, turns' = turns, 2 * Len(turns) <= Len(messages),
         NEW m, messages' = Append(messages, m)
  PROVE  C!AnswersCarried'
<1>1. \A i \in 1..Len(messages) : messages'[i] = messages[i]
  BY DEF TalkTyped
<1>2. \A k \in 1..Len(turns) : 2 * k \in 1..Len(messages)
  BY DEF TalkTyped
<1> QED
  BY <1>1, <1>2 DEF C!AnswersCarried

(* The next line becomes an instruction, is blank, or there is none.       *)
LEMMA AskKeeps == ASSUME C!ChatAssumption, ChatInv, C!Ask PROVE ChatInv'
<1>1. /\ phase = "ask"
      /\ UNCHANGED <<typed, feed, failed, interrupted, pending, flight, cancel, turn, net, sent,
                     told, threw, turns>>
  BY DEF C!Ask, C!turn, C!chain, C!daemon
<1>2. /\ ChatTyped /\ KeysTyped /\ FlagsTyped /\ TalkTyped
      /\ FromTyped /\ LineOrder /\ Quiet /\ Covered /\ TurnsCount /\ Streaming /\ C!AnswersCarried
  BY DEF ChatInv, ChatTyped, LinesInv
<1>3. /\ pending = <<>> /\ flight = <<>> /\ ~live /\ C!Lines(pending) = {} /\ Starting = {}
      /\ Flying = {} /\ Waiting = {}
  BY <1>1, <1>2, NoLines DEF Quiet, Starting, Flying, Waiting, FlagsTyped
<1>4. Flying' = {} /\ Waiting' = {} /\ C!Lines(pending') = {}
  BY <1>1, <1>3 DEF Flying, Waiting
<1>5. turn.status # "running"
  BY <1>1, <1>2 DEF Streaming
<1>6. MaxLines \in Nat /\ messages \in Seq(Messages) /\ turns \in Seq(Tasks)
  BY <1>2 DEF TalkTyped, C!ChatAssumption
<1>7. ASSUME C!Exit(0) \/ C!Exit(1), UNCHANGED <<closed, messages>>,
             Spoken(queue') = Spoken(queue), queue' \in Seq(Nat), SpokenInOrder(queue'),
             code' = 0 => queue' = <<>>
      PROVE  ChatInv'
  <2>1. phase' = "over" /\ code' \in {0, 1} /\ live' = FALSE
    BY <1>7 DEF C!Exit
  <2>2. Starting' = {}
    BY <2>1 DEF Starting
  <2>3. FlagsTyped'
    <3>1. live' \in BOOLEAN /\ code' \in {-1, 0, 1, 130} /\ closed' = closed
      BY <1>7, <2>1
    <3> QED
      BY <1>1, <1>2, <2>1, <3>1 DEF FlagsTyped
  <2>4. TalkTyped' /\ C!AnswersCarried'
    BY <1>1, <1>2, <1>7, TalkRests, AnswersRest
  <2>5. KeysTyped'
    BY <1>1, <1>2, <1>7 DEF KeysTyped
  <2>6. FromTyped' /\ Covered'
    BY <1>1, <1>2, <1>3, <1>4, <1>7, <2>2 DEF FromTyped, Covered, Spoken
  <2>7. LineOrder'
    BY <1>1, <1>2, <1>3, <1>4, <1>7, <2>2 DEF LineOrder, Before
  <2>8. Quiet'
    BY <1>1, <1>2, <1>3, <1>7, <2>1 DEF Quiet
  <2>9. TurnsCount' /\ Streaming'
    BY <1>1, <1>2, <1>7, <2>1 DEF TurnsCount, Streaming
  <2> QED
    BY <2>3, <2>4, <2>5, <2>6, <2>7, <2>8, <2>9 DEF ChatInv, ChatTyped, LinesInv
<1>8. CASE queue = <<>>
  <2>1. (C!Exit(0) \/ C!Exit(1)) /\ UNCHANGED <<queue, closed, messages>>
    BY <1>8 DEF C!Ask
  <2> QED
    BY <1>7, <1>8, <2>1, NoLines
<1>9. CASE queue # <<>>
  <2>1. PICK line : line = Head(queue)
    OBVIOUS
  <2>2. /\ queue' = Tail(queue)
        /\ \/ line = 0 /\ C!Exit(1) /\ UNCHANGED <<messages, closed>>
           \/ line = 0 /\ UNCHANGED <<messages, live, closed, phase, code>>
           \/ /\ line # 0 /\ messages' = Append(messages, C!User(line)) /\ phase' = "starting"
              /\ UNCHANGED <<live, closed, code>>
    BY <1>9, <2>1 DEF C!Ask, C!Blank
  <2>3. /\ line \in Nat /\ queue' \in Seq(Nat)
        /\ C!Lines(queue) = {line} \cup C!Lines(queue')
        /\ SpokenInOrder(queue') /\ Before({line} \ {0}, Spoken(queue'))
    BY <1>2, <1>9, <2>1, <2>2, LinesOf, OrderKept DEF KeysTyped, LineOrder
  <2>4. Spoken(queue) = ({line} \ {0}) \cup Spoken(queue')
    BY <2>3 DEF Spoken
  <2>5. CASE line = 0 /\ C!Exit(1) /\ UNCHANGED <<messages, closed>>
    <3>1. Spoken(queue') = Spoken(queue) /\ code' = 1
      BY <2>4, <2>5 DEF C!Exit
    <3> QED
      BY <1>7, <2>3, <2>5, <3>1
  <2>6. CASE line = 0 /\ UNCHANGED <<messages, live, closed, phase, code>>
    <3>1. Spoken(queue') = Spoken(queue)
      BY <2>4, <2>6
    <3>2. FlagsTyped' /\ TalkTyped' /\ C!AnswersCarried' /\ TurnsCount' /\ Streaming'
      BY <1>1, <1>2, <2>6, FlagsRest, TalkRests, AnswersRest, CountRests, StreamRests
    <3>3. KeysTyped'
      BY <1>1, <1>2, <2>3 DEF KeysTyped
    <3>4. Starting' = {}
      BY <1>1, <2>6 DEF Starting
    <3>5. FromTyped' /\ Covered'
      BY <1>1, <1>2, <1>3, <1>4, <2>6, <3>1, <3>4 DEF FromTyped, Covered, Spoken
    <3>6. LineOrder'
      BY <1>1, <1>2, <1>3, <1>4, <2>3, <3>1, <3>4 DEF LineOrder, Before
    <3>7. Quiet'
      BY <1>1, <1>2, <1>3, <2>6 DEF Quiet
    <3> QED
      BY <3>2, <3>3, <3>5, <3>6, <3>7 DEF ChatInv, ChatTyped, LinesInv
  <2>7. CASE /\ line # 0 /\ messages' = Append(messages, C!User(line)) /\ phase' = "starting"
             /\ UNCHANGED <<live, closed, code>>
    <3>1. C!User(line) \in Messages
      BY <2>3 DEF Messages
    <3>2. /\ messages' \in Seq(Messages) /\ Len(messages') = Len(messages) + 1
          /\ messages'[Len(messages')] = C!User(line)
      BY <1>6, <2>7, <3>1
    <3>3. C!Last(messages').content = line
      BY <3>2 DEF C!Last, C!User
    <3>4. Starting' = {line}
      BY <2>7, <3>3 DEF Starting
    <3>5. FlagsTyped'
      BY <1>1, <1>2, <2>7 DEF FlagsTyped
    <3>6. TalkTyped'
      BY <1>1, <1>2, <3>2 DEF TalkTyped
    <3>7. KeysTyped'
      BY <1>1, <1>2, <2>3 DEF KeysTyped
    <3>8. Len(messages) = 2 * Len(turns) /\ Len(turns) \in Nat
      BY <1>1, <1>2, <1>6 DEF TurnsCount
    <3>9. C!AnswersCarried'
      BY <1>1, <1>2, <1>6, <2>7, <3>8, AnswersStay
    <3>10. Spoken(queue) = {line} \cup Spoken(queue') /\ Before({line}, Spoken(queue'))
      BY <2>3, <2>4, <2>7
    <3>11. FromTyped' /\ Covered'
      BY <1>1, <1>2, <1>3, <1>4, <2>7, <3>4, <3>10 DEF FromTyped, Covered, Spoken
    <3>12. LineOrder'
      BY <1>1, <1>2, <1>3, <1>4, <2>3, <3>4, <3>10 DEF LineOrder, Before
    <3>13. Quiet'
      BY <1>1, <1>2, <1>3, <2>7 DEF Quiet
    <3>14. Streaming'
      BY <1>1, <1>2, <1>5, <2>7 DEF Streaming
    <3>15. line >= Len(turns) + 1
      <4>1. CASE Len(turns) = 0
        BY <2>3, <2>7, <4>1
      <4>2. CASE \E n \in C!Lines(sent) : n >= Len(turns)
        <5>1. PICK n \in C!Lines(sent) : n >= Len(turns)
          BY <4>2
        <5>2. n < line
          BY <1>2, <3>10 DEF LineOrder, Before
        <5>3. n \in Nat
          BY <1>2, LinesOf DEF KeysTyped
        <5> QED
          BY <2>3, <3>8, <5>1, <5>2, <5>3
      <4> QED
        BY <1>2, <4>1, <4>2 DEF TurnsCount
    <3>16. Len(messages') <= 2 * MaxLines + 1
      <4>1. line \in Spoken(typed)
        BY <1>2, <3>10 DEF FromTyped
      <4>2. line \in 1..Len(typed) /\ Len(typed) \in Nat /\ Len(typed) <= MaxLines
        BY <1>2, <4>1, LinesTyped DEF KeysTyped
      <4> QED
        BY <1>6, <2>3, <3>2, <3>8, <3>15, <4>2
    <3>17. TurnsCount'
      BY <1>1, <1>2, <2>7, <3>2, <3>3, <3>8, <3>15, <3>16 DEF TurnsCount
    <3> QED
      BY <3>5, <3>6, <3>7, <3>9, <3>11, <3>12, <3>13, <3>14, <3>17 DEF ChatInv, ChatTyped, LinesInv
  <2> QED
    BY <2>2, <2>5, <2>6, <2>7
<1> QED
  BY <1>8, <1>9

(* The daemon takes the conversation, and what was typed meanwhile goes     *)
(* with it; or it refuses.                                                 *)
LEMMA StartKeeps == ASSUME C!ChatAssumption, ChatInv, C!Start PROVE ChatInv'
<1>1. /\ phase = "starting"
      /\ UNCHANGED <<typed, closed, messages, flight, cancel, threw, turns>>
  BY DEF C!Start
<1>2. /\ ChatTyped /\ KeysTyped /\ FlagsTyped /\ TalkTyped
      /\ FromTyped /\ LineOrder /\ Quiet /\ Covered /\ TurnsCount /\ Streaming /\ C!AnswersCarried
  BY DEF ChatInv, ChatTyped, LinesInv
<1>3. PICK c : c = C!Last(messages).content
  OBVIOUS
<1>4. /\ pending = <<>> /\ flight = <<>> /\ ~live /\ C!Lines(pending) = {} /\ Starting = {c}
      /\ Flying = {} /\ Waiting = {}
  BY <1>1, <1>2, <1>3, NoLines DEF Quiet, Starting, Flying, Waiting, FlagsTyped
<1>5. Flying' = {} /\ Waiting' = {}
  BY <1>1, <1>4 DEF Flying, Waiting
<1>6. /\ sent \in Seq(Nat) /\ queue \in Seq(Nat) /\ c \in Nat
  <2>1. c \in Spoken(typed)
    BY <1>2, <1>4 DEF FromTyped
  <2> QED
    BY <1>2, <2>1, LinesTyped DEF KeysTyped
<1>7. C!AnswersCarried'
  BY <1>1, <1>2, AnswersRest
<1>8. CASE C!Exit(1) /\ UNCHANGED <<turn, sent, net, queue, pending, told, feed, failed, interrupted>>
  <2>1. phase' = "over" /\ code' = 1 /\ live' = FALSE
    BY <1>8 DEF C!Exit
  <2>2. Starting' = {}
    BY <2>1 DEF Starting
  <2>3. FlagsTyped'
    <3>1. live' \in BOOLEAN /\ code' \in {-1, 0, 1, 130}
      BY <2>1
    <3> QED
      BY <1>1, <1>2, <1>8, <2>1, <3>1 DEF FlagsTyped
  <2>4. TalkTyped' /\ KeysTyped'
    BY <1>1, <1>2, <1>8, TalkRests, KeysRest
  <2>5. FromTyped' /\ Covered'
    BY <1>1, <1>2, <1>4, <1>5, <1>8, <2>1, <2>2 DEF FromTyped, Covered, Spoken
  <2>6. LineOrder'
    BY <1>1, <1>2, <1>4, <1>5, <1>8, <2>2 DEF LineOrder, Before
  <2>7. Quiet'
    BY <2>1 DEF Quiet
  <2>8. TurnsCount' /\ Streaming'
    BY <1>1, <1>2, <1>8, <2>1 DEF TurnsCount, Streaming
  <2> QED
    BY <1>7, <2>3, <2>4, <2>5, <2>6, <2>7, <2>8 DEF ChatInv, ChatTyped, LinesInv
<1>9. CASE \E kind \in {"task", "plain"} :
             /\ turn' = [kind |-> kind, status |-> "running", said |-> <<>>]
             /\ sent' = Append(sent, C!Last(messages).content) /\ net' = <<>>
             /\ phase' = "running" /\ live' = TRUE /\ C!Attach(kind)
             /\ feed' = <<>> /\ failed' = FALSE /\ interrupted' = FALSE /\ UNCHANGED code
  <2>1. PICK kind \in {"task", "plain"} :
             /\ turn' = [kind |-> kind, status |-> "running", said |-> <<>>]
             /\ sent' = Append(sent, c) /\ net' = <<>>
             /\ phase' = "running" /\ live' = TRUE /\ C!Attach(kind)
             /\ feed' = <<>> /\ failed' = FALSE /\ interrupted' = FALSE /\ UNCHANGED code
    BY <1>3, <1>9
  <2>2. PICK words \in C!Words(queue) :
          /\ queue' = <<>>
          /\ IF kind = "task" THEN pending' = pending \o words /\ UNCHANGED told
             ELSE told' = told \cup C!Lines(words) /\ UNCHANGED pending
    BY <2>1 DEF C!Attach, C!onLine
  <2>3. words \in Seq(Nat) /\ C!Increasing(words) /\ C!Lines(words) = Spoken(queue)
    BY <1>6, WordsOf
  <2>4. Starting' = {} /\ Spoken(queue') = {} /\ SpokenInOrder(queue')
    BY <2>1, <2>2, NoLines DEF Starting
  <2>5. /\ sent' \in Seq(Nat) /\ C!Lines(sent') = C!Lines(sent) \cup {c}
    <3>1. C!Lines(Append(sent, c)) = C!Lines(sent) \cup {c}
      BY <1>6, LinesOf
    <3> QED
      BY <1>6, <2>1, <3>1
  <2>6. C!Increasing(sent')
    <3>1. C!Increasing(sent) /\ Before(C!Lines(sent), {c})
      BY <1>2, <1>4 DEF LineOrder, Before
    <3> QED
      BY <1>6, <2>1, <3>1, OrderKept
  <2>7. FlagsTyped'
    BY <1>1, <1>2, <2>1 DEF FlagsTyped
  <2>8. TalkTyped'
    <3>1. turn' \in Tasks
      BY <2>1 DEF Tasks
    <3>2. feed' \in Seq(Deltas) /\ net' \in Seq(Events)
      BY <2>1
    <3> QED
      BY <1>1, <1>2, <3>1, <3>2 DEF TalkTyped
  <2>9. Streaming'
    <3>1. turn'.status = "running" /\ turn'.said = <<>>
      BY <2>1
    <3>2. net' \in Seq(Deltas) /\ <<>> = feed' \o net'
      BY <2>1
    <3> QED
      BY <2>1, <3>1, <3>2 DEF Streaming
  <2>10. TurnsCount'
    <3>1. c >= Len(turns) + 1 /\ c \in C!Lines(sent') /\ C!Lines(sent) \subseteq C!Lines(sent')
      BY <1>1, <1>2, <1>3, <2>5 DEF TurnsCount
    <3> QED
      BY <1>1, <1>2, <2>1, <3>1 DEF TurnsCount
  <2>11. CASE kind = "task"
    <3>1. pending' = words /\ UNCHANGED told
      BY <1>4, <2>2, <2>3, <2>11
    <3>2. KeysTyped'
      BY <1>1, <1>2, <2>2, <2>3, <2>5, <3>1 DEF KeysTyped
    <3>3. FromTyped' /\ Covered'
      BY <1>1, <1>2, <1>4, <1>5, <2>1, <2>3, <2>4, <2>5, <3>1 DEF FromTyped, Covered, Spoken
    <3>4. LineOrder'
      BY <1>2, <1>4, <1>5, <2>3, <2>4, <2>5, <2>6, <3>1 DEF LineOrder, Before
    <3>5. Quiet'
      BY <2>1, <2>2 DEF Quiet
    <3> QED
      BY <1>7, <2>7, <2>8, <2>9, <2>10, <3>2, <3>3, <3>4, <3>5 DEF ChatInv, ChatTyped, LinesInv
  <2>12. CASE kind = "plain"
    <3>1. told' = told \cup Spoken(queue) /\ pending' = pending
      BY <2>2, <2>3, <2>12
    <3>2. KeysTyped'
      BY <1>1, <1>2, <2>2, <2>3, <2>5, <3>1 DEF KeysTyped
    <3>3. FromTyped' /\ Covered'
      BY <1>1, <1>2, <1>4, <1>5, <2>1, <2>4, <2>5, <3>1 DEF FromTyped, Covered, Spoken
    <3>4. LineOrder'
      BY <1>2, <1>4, <1>5, <2>4, <2>5, <2>6, <3>1 DEF LineOrder, Before
    <3>5. Quiet'
      BY <2>1, <2>2 DEF Quiet
    <3> QED
      BY <1>7, <2>7, <2>8, <2>9, <2>10, <3>2, <3>3, <3>4, <3>5 DEF ChatInv, ChatTyped, LinesInv
  <2> QED
    BY <2>11, <2>12
<1> QED
  BY <1>8, <1>9 DEF C!Start, C!turn

(* A line is taken from the chain for a POST.                              *)
LEMMA SteerKeeps == ASSUME ChatInv, C!SteerTask PROVE ChatInv'
<1>1. /\ phase \in {"running", "ending"} /\ pending # <<>> /\ flight = <<>>
      /\ flight' = <<[line |-> Head(pending), answer |-> "none"]>> /\ pending' = Tail(pending)
      /\ UNCHANGED <<typed, queue, live, closed, phase, code, messages, feed, failed, interrupted,
                     cancel, turn, net, sent, told, threw, turns>>
  BY DEF C!SteerTask, C!source, C!turn, C!daemon
<1>2. /\ ChatTyped /\ KeysTyped /\ FlagsTyped /\ TalkTyped
      /\ FromTyped /\ LineOrder /\ Quiet /\ Covered /\ TurnsCount /\ Streaming /\ C!AnswersCarried
  BY DEF ChatInv, ChatTyped, LinesInv
<1>3. PICK n : n = Head(pending)
  OBVIOUS
<1>4. /\ n \in Nat /\ pending' \in Seq(Nat) /\ C!Lines(pending) = {n} \cup C!Lines(pending')
      /\ C!Increasing(pending') /\ Before({n}, C!Lines(pending'))
  BY <1>1, <1>2, <1>3, LinesOf, OrderKept DEF KeysTyped, LineOrder
<1>5. /\ Flying = {} /\ Waiting = {} /\ Starting = {} /\ Starting' = {}
      /\ Flying' = {n} /\ Waiting' = {n}
  BY <1>1, <1>3 DEF Flying, Waiting, Starting
<1>6. FlagsTyped' /\ TalkTyped' /\ TurnsCount' /\ Streaming' /\ C!AnswersCarried'
  BY <1>1, <1>2, FlagsRest, TalkRests, CountRests, StreamRests, AnswersRest
<1>7. KeysTyped'
  <2>1. flight' = <<[line |-> n, answer |-> "none"]>> /\ [line |-> n, answer |-> "none"] \in Steers
    BY <1>1, <1>3, <1>4 DEF Steers
  <2> QED
    BY <1>1, <1>2, <1>4, <2>1 DEF KeysTyped
<1>8. FromTyped' /\ Covered'
  BY <1>1, <1>2, <1>4, <1>5 DEF FromTyped, Covered, Spoken
<1>9. LineOrder'
  BY <1>1, <1>2, <1>4, <1>5 DEF LineOrder, Before
<1>10. Quiet'
  BY <1>1, <1>2 DEF Quiet
<1> QED
  BY <1>6, <1>7, <1>8, <1>9, <1>10 DEF ChatInv, ChatTyped, LinesInv

(* The daemon decides about the line of a POST.                            *)
LEMMA HeardKeeps == ASSUME ChatInv, C!Heard PROVE ChatInv'
<1>1. /\ ChatTyped /\ KeysTyped /\ FlagsTyped /\ TalkTyped
      /\ FromTyped /\ LineOrder /\ Quiet /\ Covered /\ TurnsCount /\ Streaming /\ C!AnswersCarried
  BY DEF ChatInv, ChatTyped, LinesInv
<1>2. PICK f \in Steers : flight = <<f>> /\ f.answer = "none"
  BY <1>1 DEF C!Heard, KeysTyped
<1>3. PICK verdict \in {"queued", "refused"} :
        /\ flight' = <<[f EXCEPT !.answer = verdict]>>
        /\ IF verdict = "queued" THEN sent' = Append(sent, f.line) ELSE UNCHANGED sent
        /\ UNCHANGED <<typed, queue, live, closed, phase, code, messages, feed, failed, interrupted,
                       pending, cancel, turn, net, told, threw, turns>>
  BY <1>2 DEF C!Heard, C!source, C!turn
<1>4. /\ f.line \in Nat /\ flight # <<>> /\ flight' # <<>>
      /\ Flying = {f.line} /\ Waiting = {f.line} /\ Flying' = {f.line} /\ Waiting' = {}
  BY <1>2, <1>3 DEF Flying, Waiting, Steers
<1>5. Starting = {} /\ Starting' = {} /\ ~(phase = "over" /\ code = 0) /\ phase \notin {"ask", "starting"}
  BY <1>1, <1>3, <1>4 DEF Quiet, Starting
<1>6. FlagsTyped' /\ TalkTyped' /\ Streaming' /\ C!AnswersCarried'
  BY <1>1, <1>3, FlagsRest, TalkRests, StreamRests, AnswersRest
<1>7. /\ sent' \in Seq(Nat) /\ C!Increasing(sent')
      /\ C!Lines(sent') = C!Lines(sent) \/ C!Lines(sent') = C!Lines(sent) \cup {f.line}
  <2>1. /\ sent \in Seq(Nat) /\ C!Increasing(sent) /\ Before(C!Lines(sent), {f.line})
    BY <1>1, <1>4 DEF KeysTyped, LineOrder, Before
  <2>2. CASE verdict = "queued"
    <3>1. C!Lines(Append(sent, f.line)) = C!Lines(sent) \cup {f.line}
      BY <1>4, <2>1, LinesOf
    <3>2. C!Increasing(Append(sent, f.line))
      BY <1>4, <2>1, OrderKept
    <3>3. sent' = Append(sent, f.line)
      BY <1>3, <2>2
    <3>4. sent' \in Seq(Nat)
      BY <1>4, <2>1, <3>3
    <3> QED
      BY <3>1, <3>2, <3>3, <3>4, Zenon
  <2>3. CASE verdict = "refused"
    BY <1>3, <2>1, <2>3
  <2> QED
    BY <2>2, <2>3
<1>8. KeysTyped'
  <2>1. \E g \in Steers : flight' = <<g>>
    BY <1>3 DEF Steers
  <2> QED
    BY <1>1, <1>3, <1>7, <2>1 DEF KeysTyped
<1>9. FromTyped' /\ Covered'
  BY <1>1, <1>3, <1>4, <1>5, <1>7 DEF FromTyped, Covered, Spoken
<1>10. LineOrder'
  BY <1>1, <1>3, <1>4, <1>5, <1>7 DEF LineOrder, Before
<1>11. Quiet'
  BY <1>1, <1>3, <1>5 DEF Quiet
<1>12. TurnsCount'
  BY <1>1, <1>3, <1>7 DEF TurnsCount
<1> QED
  BY <1>6, <1>8, <1>9, <1>10, <1>11, <1>12 DEF ChatInv, ChatTyped, LinesInv

(* The answer of a POST is told, or the POST is lost with the lines behind. *)
LEMMA AnswerKeeps == ASSUME ChatInv, C!SteerAnswered \/ C!SteerThrows PROVE ChatInv'
<1>1. /\ ChatTyped /\ KeysTyped /\ FlagsTyped /\ TalkTyped
      /\ FromTyped /\ LineOrder /\ Quiet /\ Covered /\ TurnsCount /\ Streaming /\ C!AnswersCarried
  BY DEF ChatInv, ChatTyped, LinesInv
<1>2. /\ phase # "over" /\ flight # <<>> /\ flight' = <<>>
      /\ UNCHANGED <<typed, queue, closed, messages, feed, failed, interrupted, cancel, turn, net,
                     sent, turns>>
  BY DEF C!SteerAnswered, C!SteerThrows, C!source, C!turn, C!daemon
<1>3. PICK f \in Steers : flight = <<f>>
  BY <1>1, <1>2 DEF KeysTyped
<1>4. /\ Flying = {f.line} /\ Flying' = {} /\ Waiting' = {}
  BY <1>2, <1>3 DEF Flying, Waiting
<1>5. phase \in {"running", "ending"} /\ Starting = {}
  BY <1>1, <1>2 DEF Quiet, Starting, FlagsTyped
<1>6. TalkTyped' /\ C!AnswersCarried'
  BY <1>1, <1>2, TalkRests, AnswersRest
<1>7. CASE C!SteerAnswered
  <2>1. told' = told \cup {f.line} /\ UNCHANGED <<live, phase, code, pending, threw>>
    BY <1>3, <1>7 DEF C!SteerAnswered, C!source
  <2>2. FlagsTyped' /\ TurnsCount' /\ Streaming'
    BY <1>1, <1>2, <2>1, FlagsRest, CountRests, StreamRests
  <2>3. KeysTyped'
    BY <1>1, <1>2, <2>1 DEF KeysTyped
  <2>4. Starting' = {}
    BY <1>5, <2>1 DEF Starting
  <2>5. FromTyped' /\ Covered'
    BY <1>1, <1>2, <1>4, <1>5, <2>1, <2>4 DEF FromTyped, Covered, Spoken
  <2>6. LineOrder'
    BY <1>1, <1>2, <1>4, <2>1, <2>4 DEF LineOrder, Before
  <2>7. Quiet'
    BY <1>1, <1>2, <1>5, <2>1 DEF Quiet
  <2> QED
    BY <1>6, <2>2, <2>3, <2>5, <2>6, <2>7 DEF ChatInv, ChatTyped, LinesInv
<1>8. CASE C!SteerThrows
  <2>1. /\ threw' = TRUE /\ pending' = <<>> /\ UNCHANGED told
        /\ \/ phase = "running" /\ phase' = "over" /\ code' = 1 /\ live' = FALSE
           \/ phase = "ending" /\ UNCHANGED <<phase, code, live>>
    BY <1>8 DEF C!SteerThrows, C!Exit
  <2>2. Starting' = {} /\ C!Lines(pending') = {} /\ C!Increasing(pending')
    BY <1>5, <2>1, NoLines DEF Starting
  <2>3. FlagsTyped'
    <3>1. /\ live' \in BOOLEAN /\ code' \in {-1, 0, 1, 130} /\ threw' \in BOOLEAN
          /\ phase' \in {"ask", "starting", "running", "ending", "over"}
      BY <1>1, <2>1 DEF FlagsTyped
    <3> QED
      BY <1>1, <1>2, <3>1 DEF FlagsTyped
  <2>4. KeysTyped'
    BY <1>1, <1>2, <2>1 DEF KeysTyped
  <2>5. FromTyped' /\ Covered'
    BY <1>1, <1>2, <1>4, <2>1, <2>2 DEF FromTyped, Covered, Spoken
  <2>6. LineOrder'
    BY <1>1, <1>2, <1>4, <2>2 DEF LineOrder, Before
  <2>7. Quiet'
    BY <1>1, <1>2, <2>1 DEF Quiet
  <2>8. TurnsCount'
    BY <1>1, <1>2, <2>1 DEF TurnsCount
  <2>9. Streaming'
    BY <1>1, <1>2, <2>1 DEF Streaming
  <2> QED
    BY <1>6, <2>3, <2>4, <2>5, <2>6, <2>7, <2>8, <2>9 DEF ChatInv, ChatTyped, LinesInv
<1> QED
  BY <1>7, <1>8

(* What is read moves from the head of a stream to the end of the feed.    *)
LEMMA FeedSplits ==
  ASSUME NEW S, NEW s \in Seq(S), NEW t \in Seq(S), NEW u \in Seq(S)
  PROVE  /\ (s \o t) \o u = s \o (t \o u) /\ s \o t \in Seq(S)
         /\ t # <<>> => /\ Head(t) \in S /\ Tail(t) \in Seq(S)
                        /\ Append(s, Head(t)) \o Tail(t) = s \o t
                        /\ Head(t \o u) = Head(t) /\ Tail(t \o u) = Tail(t) \o u
<1>1. (s \o t) \o u = s \o (t \o u) /\ s \o t \in Seq(S)
  BY ConcatAssociative
<1>2. ASSUME t # <<>>
      PROVE  /\ Head(t) \in S /\ Tail(t) \in Seq(S)
             /\ Append(s, Head(t)) \o Tail(t) = s \o t
             /\ Head(t \o u) = Head(t) /\ Tail(t \o u) = Tail(t) \o u
  <2>1. Head(t) \in S /\ Tail(t) \in Seq(S) /\ t = <<Head(t)>> \o Tail(t)
    BY <1>2
  <2>2. PICK h \in S : h = Head(t)
    BY <2>1
  <2>3. PICK v \in Seq(S) : v = Tail(t)
    BY <2>1
  <2>4. t = <<h>> \o v /\ <<h>> \in Seq(S)
    BY <2>1, <2>2, <2>3
  <2>5. Append(s, h) = s \o <<h>>
    BY AppendIsConcat
  <2>6. Append(s, h) \o v = s \o t
    BY <2>4, <2>5, ConcatAssociative
  <2>7. t \o u = <<h>> \o (v \o u) /\ v \o u \in Seq(S)
    BY <2>4, ConcatAssociative
  <2>8. Head(t \o u) = h /\ Tail(t \o u) = v \o u
    BY <2>2, <2>7
  <2> QED
    BY <2>1, <2>2, <2>3, <2>6, <2>8
<1> QED
  BY <1>1, <1>2

(* The daemon writes its text and, when the task is over, its end.         *)
LEMMA WritesKeep ==
  ASSUME ChatInv, NEW text \in Seq(Deltas), NEW end \in Seq(Events),
         NEW status \in {"running", "succeeded", "failed", "cancelled", "lost"},
         turn.status = "running", C!Streams(text, end, status),
         status = "running" => end = <<>>,
         status = "succeeded" => end = <<"done">> /\ (turn.kind = "task" => text = <<"answer">>)
  PROVE  ChatInv'
<1>1. /\ turn' = [turn EXCEPT !.status = status, !.said = @ \o text]
      /\ net' = (net \o text) \o end
      /\ UNCHANGED <<typed, queue, live, closed, phase, code, messages, feed, failed, interrupted,
                     pending, flight, cancel, sent, told, threw, turns>>
  BY DEF C!Streams, C!source, C!turn, C!chain
<1>2. ChatTyped /\ KeysTyped /\ FlagsTyped /\ TalkTyped /\ LinesInv /\ Streaming
  BY DEF ChatInv, ChatTyped
<1>3. KeysTyped' /\ FlagsTyped' /\ LinesInv' /\ TurnsCount' /\ C!AnswersCarried'
  BY <1>1, <1>2, KeysRest, FlagsRest, LinesRest, CountRests, AnswersRest DEF ChatInv
<1>4. /\ turn \in Tasks /\ turn.said \in Seq(Deltas) /\ feed \in Seq(Deltas) /\ net \in Seq(Events)
  BY <1>2 DEF TalkTyped, Tasks
<1>5. turn'.status = status /\ turn'.said = turn.said \o text /\ turn'.kind = turn.kind
  BY <1>1, <1>4 DEF Tasks
<1>6. turn.said \o text \in Seq(Deltas)
  BY <1>4
<1>7. turn' \in Tasks
  BY <1>1, <1>4, <1>6 DEF Tasks
<1>8. net' \in Seq(Events)
  <2>1. text \in Seq(Events)
    BY DEF Events
  <2> HIDE DEF Events
  <2> QED
    BY <1>1, <1>4, <2>1
<1>9. TalkTyped'
  BY <1>1, <1>2, <1>7, <1>8 DEF TalkTyped
<1>10. phase = "running" => net \in Seq(Deltas) /\ turn.said = feed \o net
  BY <1>2 DEF Streaming
<1>11. ASSUME phase = "running"
       PROVE  net \o text \in Seq(Deltas) /\ turn'.said = feed \o (net \o text)
  <2>1. net \in Seq(Deltas) /\ turn.said = feed \o net
    BY <1>10, <1>11
  <2>2. (feed \o net) \o text = feed \o (net \o text) /\ net \o text \in Seq(Deltas)
    BY <1>4, <2>1, FeedSplits
  <2> QED
    BY <1>5, <2>1, <2>2
<1>12. phase = "running" /\ status = "running" =>
         net' \in Seq(Deltas) /\ turn'.said = feed \o net'
  <2> SUFFICES ASSUME phase = "running", status = "running"
               PROVE  net' \in Seq(Deltas) /\ turn'.said = feed \o net'
    OBVIOUS
  <2>1. net' = net \o text
    <3>1. PICK s \in Seq(Deltas) : s = net \o text
      BY <1>11
    <3>2. s \o <<>> = s
      OBVIOUS
    <3> QED
      BY <1>1, <3>1, <3>2
  <2> QED
    BY <1>11, <2>1
<1>13. phase = "running" /\ status = "succeeded" =>
         \E r \in Seq(Deltas) : net' = r \o <<"done">> /\ turn'.said = feed \o r
  BY <1>1, <1>11
<1>14. status = "succeeded" /\ turn.kind = "task" =>
         turn'.said # <<>> /\ C!Last(turn'.said) = "answer"
  <2> SUFFICES ASSUME status = "succeeded", turn.kind = "task"
               PROVE  turn'.said # <<>> /\ C!Last(turn'.said) = "answer"
    OBVIOUS
  <2>1. turn'.said = turn.said \o <<"answer">>
    BY <1>5
  <2> QED
    BY <1>4, <2>1 DEF C!Last
<1>15. ~(phase = "ending" /\ ~interrupted /\ ~failed) /\ phase \notin {"ask", "starting"}
  BY <1>2 DEF Streaming
<1>16. Streaming'
  BY <1>1, <1>5, <1>12, <1>13, <1>14, <1>15 DEF Streaming
<1> QED
  BY <1>3, <1>9, <1>16 DEF ChatInv, ChatTyped

(* Whatever the daemon does with the task it runs.                         *)
LEMMA DaemonKeeps ==
  ASSUME ChatInv, C!Says \/ C!Succeeds \/ C!FailsOrIsCancelled \/ C!Lost PROVE ChatInv'
<1>1. /\ <<"progress">> \in Seq(Deltas) /\ <<"answer">> \in Seq(Deltas)
      /\ <<"notice">> \in Seq(Deltas) /\ <<>> \in Seq(Deltas)
  BY DEF Deltas
<1>2. /\ <<>> \in Seq(Events) /\ <<"done">> \in Seq(Events) /\ <<"error", "done">> \in Seq(Events)
      /\ <<"cut">> \in Seq(Events)
  BY DEF Events
<1>3. CASE C!Says
  <2>1. turn.status = "running" /\ C!Streams(<<"progress">>, <<>>, "running")
    BY <1>3 DEF C!Says
  <2> QED
    BY <1>1, <1>2, <2>1, WritesKeep
<1>4. CASE C!Succeeds
  <2>1. CASE C!Running("task") /\ C!Streams(<<"answer">>, <<"done">>, "succeeded")
    <3>1. turn.status = "running" /\ turn.kind = "task"
      BY <2>1 DEF C!Running
    <3> QED
      BY <1>1, <1>2, <2>1, <3>1, WritesKeep
  <2>2. CASE C!Running("plain") /\ C!Streams(<<>>, <<"done">>, "succeeded")
    <3>1. turn.status = "running" /\ turn.kind # "task"
      BY <2>2 DEF C!Running
    <3> QED
      BY <1>1, <1>2, <2>2, <3>1, WritesKeep
  <2> QED
    BY <1>4, <2>1, <2>2 DEF C!Succeeds
<1>5. CASE C!FailsOrIsCancelled
  <2>1. turn.status = "running"
    BY <1>5 DEF C!FailsOrIsCancelled, C!Running
  <2>2. \/ \E s \in {"failed", "cancelled"} : C!Streams(<<"notice">>, <<"done">>, s)
        \/ C!Streams(<<>>, <<"error", "done">>, "failed")
    BY <1>5 DEF C!FailsOrIsCancelled
  <2> QED
    BY <1>1, <1>2, <2>1, <2>2, WritesKeep
<1>6. CASE C!Lost
  <2>1. turn.status = "running" /\ C!Streams(<<>>, <<"cut">>, "lost")
    BY <1>6 DEF C!Lost
  <2> QED
    BY <1>1, <1>2, <2>1, WritesKeep
<1> QED
  BY <1>3, <1>4, <1>5, <1>6

(* The client reads the next event, or stops reading for a Ctrl-C.         *)
LEMMA ReadKeeps == ASSUME ChatInv, C!Read \/ C!Aborted PROVE ChatInv'
<1>1. /\ phase = "running" /\ phase' \in {"running", "ending"}
      /\ live' = (phase' = "running")
      /\ UNCHANGED <<typed, queue, closed, code, messages, interrupted, pending, flight, cancel,
                     turn, sent, told, threw, turns>>
      /\ phase' = phase => live' = live
  <2>1. /\ ChatTyped /\ Quiet
    BY DEF ChatInv, LinesInv
  <2>2. C!Read => live \in BOOLEAN /\ (live <=> phase = "running")
    BY <2>1 DEF ChatTyped, FlagsTyped, Quiet
  <2> QED
    BY <2>2 DEF C!Read, C!Aborted, C!turn, C!chain, C!daemon
<1>2. /\ ChatTyped /\ KeysTyped /\ FlagsTyped /\ TalkTyped /\ LinesInv
      /\ FromTyped /\ LineOrder /\ Quiet /\ Covered /\ TurnsCount /\ Streaming /\ C!AnswersCarried
  BY DEF ChatInv, ChatTyped, LinesInv
<1>3. KeysTyped' /\ C!AnswersCarried'
  BY <1>1, <1>2, KeysRest, AnswersRest
<1>4. Starting = {} /\ Starting' = {} /\ UNCHANGED <<Flying, Waiting>>
  BY <1>1 DEF Starting, Flying, Waiting
<1>5. LinesInv'
  <2>1. FromTyped' /\ Covered'
    BY <1>1, <1>2, <1>4 DEF FromTyped, Covered, Spoken
  <2>2. LineOrder'
    BY <1>1, <1>2, <1>4 DEF LineOrder, Spoken
  <2>3. Quiet'
    BY <1>1, <1>2 DEF Quiet
  <2> QED
    BY <2>1, <2>2, <2>3 DEF LinesInv
<1>6. TurnsCount'
  BY <1>1, <1>2 DEF TurnsCount
<1>7. /\ turn \in Tasks /\ turn.said \in Seq(Deltas) /\ feed \in Seq(Deltas) /\ net \in Seq(Events)
  BY <1>2 DEF TalkTyped, Tasks
<1>8. turn.status = "succeeded" /\ turn.kind = "task" =>
        turn.said # <<>> /\ C!Last(turn.said) = "answer"
  BY <1>2 DEF Streaming
<1>9. CASE C!Aborted
  <2>1. /\ interrupted /\ phase' = "ending" /\ UNCHANGED <<feed, failed, net>>
    BY <1>9 DEF C!Aborted, C!turn, C!daemon
  <2>2. FlagsTyped' /\ TalkTyped'
    BY <1>1, <1>2, <2>1 DEF FlagsTyped, TalkTyped
  <2>3. Streaming'
    BY <1>1, <1>8, <2>1 DEF Streaming
  <2> QED
    BY <1>2, <1>3, <1>5, <1>6, <2>2, <2>3 DEF ChatInv, ChatTyped
<1>10. CASE C!Read
  <2>1. PICK event : event = Head(net)
    OBVIOUS
  <2>2. /\ ~interrupted /\ net # <<>> /\ net' = Tail(net)
        /\ feed' = IF event \in Deltas THEN Append(feed, event) ELSE feed
        /\ failed' = (failed \/ event \in {"error", "cut"})
        /\ phase' = IF event \in {"done", "cut"} THEN "ending" ELSE phase
    BY <1>10, <2>1 DEF C!Read, Deltas
  <2>3. event \in Events /\ net' \in Seq(Events)
    BY <1>7, <2>1, <2>2
  <2>4. feed' \in Seq(Deltas)
    BY <1>7, <2>2
  <2>5. FlagsTyped' /\ TalkTyped'
    BY <1>1, <1>2, <2>2, <2>3, <2>4 DEF FlagsTyped, TalkTyped
  <2>6. ASSUME turn.status = "running" PROVE Streaming'
    <3>1. net \in Seq(Deltas) /\ turn.said = feed \o net
      BY <1>1, <1>2, <2>6 DEF Streaming
    <3>2. event \in Deltas
      BY <2>1, <2>2, <3>1
    <3>3. phase' = "running"
      BY <1>1, <2>2, <3>2 DEF Deltas
    <3>4. feed' = Append(feed, Head(net))
      BY <2>1, <2>2, <3>2
    <3>5. feed' \o net' = feed \o net /\ net' \in Seq(Deltas)
      <4>1. Append(feed, Head(net)) \o Tail(net) = feed \o net /\ Tail(net) \in Seq(Deltas)
        BY <1>7, <2>2, <3>1, FeedSplits
      <4> QED
        BY <2>2, <3>4, <4>1
    <3> QED
      BY <1>1, <2>6, <3>1, <3>3, <3>5 DEF Streaming
  <2>7. ASSUME turn.status = "succeeded" PROVE Streaming'
    <3>1. PICK r \in Seq(Deltas) : net = r \o <<"done">> /\ turn.said = feed \o r
      BY <1>1, <1>2, <2>7 DEF Streaming
    <3>2. CASE r = <<>>
      <4>1. event = "done" /\ turn.said = feed
        <5>1. net = <<"done">>
          BY <3>1, <3>2
        <5>2. feed \o <<>> = feed
          BY <1>7
        <5> QED
          BY <2>1, <3>1, <3>2, <5>1, <5>2
      <4>2. phase' = "ending" /\ feed' = feed
        BY <2>2, <4>1 DEF Deltas
      <4> QED
        BY <1>1, <1>8, <2>7, <4>1, <4>2 DEF Streaming
    <3>3. CASE r # <<>>
      <4>1. /\ Head(net) = Head(r) /\ Tail(net) = Tail(r) \o <<"done">>
            /\ Head(r) \in Deltas /\ Tail(r) \in Seq(Deltas)
        <5>1. r \in Seq(Events) /\ <<"done">> \in Seq(Events)
          BY DEF Events
        <5>2. Head(r \o <<"done">>) = Head(r) /\ Tail(r \o <<"done">>) = Tail(r) \o <<"done">>
          BY <3>3, <5>1, FeedSplits
        <5>3. Head(r) \in Deltas /\ Tail(r) \in Seq(Deltas)
          BY <3>3
        <5> QED
          BY <3>1, <5>2, <5>3
      <4>2. feed' = Append(feed, Head(r)) /\ event \in Deltas
        BY <2>1, <2>2, <4>1
      <4>3. feed' \o Tail(r) = feed \o r
        BY <1>7, <3>3, <4>2, FeedSplits
      <4>4. phase' = "running"
        BY <1>1, <2>2, <4>2 DEF Deltas
      <4>5. \E q \in Seq(Deltas) : net' = q \o <<"done">> /\ turn'.said = feed' \o q
        BY <1>1, <2>2, <3>1, <4>1, <4>3
      <4> QED
        BY <1>1, <1>8, <2>7, <4>4, <4>5 DEF Streaming
    <3> QED
      BY <3>2, <3>3
  <2>8. ASSUME turn.status \notin {"running", "succeeded"} PROVE Streaming'
    BY <1>1, <2>8 DEF Streaming
  <2> QED
    BY <1>2, <1>3, <1>5, <1>6, <2>5, <2>6, <2>7, <2>8 DEF ChatInv, ChatTyped
<1> QED
  BY <1>9, <1>10

(* The turn ends with the session, or with an answer and the next question. *)
LEMMA EndKeeps == ASSUME C!ChatAssumption, ChatInv, C!EndTurn PROVE ChatInv'
<1>1. /\ phase = "ending" /\ pending = <<>> /\ flight = <<>>
      /\ UNCHANGED <<typed, queue, closed, feed, failed, interrupted, pending, flight, cancel, turn,
                     net, sent, told, threw>>
  BY DEF C!EndTurn, C!Steered, C!turn, C!chain, C!daemon
<1>2. /\ ChatTyped /\ KeysTyped /\ FlagsTyped /\ TalkTyped
      /\ FromTyped /\ LineOrder /\ Quiet /\ Covered /\ TurnsCount /\ Streaming /\ C!AnswersCarried
  BY DEF ChatInv, ChatTyped, LinesInv
<1>3. KeysTyped'
  BY <1>1, <1>2, KeysRest
<1>4. /\ turn \in Tasks /\ turn.said \in Seq(Deltas) /\ feed \in Seq(Deltas) /\ turns \in Seq(Tasks)
      /\ messages \in Seq(Messages)
  BY <1>2 DEF TalkTyped, Tasks
<1>5. turn.status = "succeeded" /\ turn.kind = "task" =>
        turn.said # <<>> /\ C!Last(turn.said) = "answer"
  BY <1>2 DEF Streaming
<1>6. Starting = {} /\ phase' # "starting"
  BY <1>1 DEF Starting, C!EndTurn, C!Exit
<1>7. Starting' = {} /\ UNCHANGED <<Flying, Waiting>>
  BY <1>1, <1>6 DEF Starting, Flying, Waiting
<1>8. phase' = "over" => code' \in {1, 130} /\ live' = FALSE /\ UNCHANGED <<messages, turns>>
  BY DEF C!EndTurn, C!Exit
<1>9. FromTyped' /\ LineOrder'
  <2>1. FromTyped'
    BY <1>1, <1>2, <1>6, <1>7 DEF FromTyped, Spoken
  <2>2. LineOrder'
    BY <1>1, <1>2, <1>6, <1>7 DEF LineOrder, Spoken
  <2> QED
    BY <2>1, <2>2
<1>10. CASE phase' = "over"
  <2>1. Quiet' /\ Covered' /\ TurnsCount' /\ Streaming'
    <3>1. Quiet'
      BY <1>8, <1>10 DEF Quiet
    <3>2. Covered'
      BY <1>8, <1>10 DEF Covered
    <3>3. TurnsCount'
      BY <1>1, <1>2, <1>8, <1>10 DEF TurnsCount
    <3>4. Streaming'
      BY <1>1, <1>5, <1>10 DEF Streaming
    <3> QED
      BY <3>1, <3>2, <3>3, <3>4
  <2>2. FlagsTyped' /\ TalkTyped' /\ C!AnswersCarried'
    <3>1. live' \in BOOLEAN /\ code' \in {-1, 0, 1, 130}
      BY <1>8, <1>10
    <3>2. FlagsTyped'
      BY <1>1, <1>2, <1>10, <3>1 DEF FlagsTyped
    <3>3. TalkTyped' /\ C!AnswersCarried'
      BY <1>1, <1>2, <1>8, <1>10, TalkRests, AnswersRest
    <3> QED
      BY <3>2, <3>3
  <2> QED
    BY <1>3, <1>9, <2>1, <2>2 DEF ChatInv, ChatTyped, LinesInv
<1>11. CASE phase' # "over"
  <2>1. PICK text : text = C!Answer
    OBVIOUS
  <2>2. /\ ~interrupted /\ ~failed /\ phase' = "ask" /\ UNCHANGED <<code, live>>
        /\ messages' = Append(messages, C!Assistant(text)) /\ turns' = Append(turns, turn)
    BY <1>11, <2>1 DEF C!EndTurn, C!Exit
  <2>3. text \in Seq(Deltas)
    <3>1. CASE feed = <<>>
      BY <1>4, <2>1, <3>1 DEF C!Answer
    <3>2. CASE feed # <<>>
      <4>1. feed[Len(feed)] \in Deltas
        BY <1>4, <3>2
      <4>2. <<feed[Len(feed)]>> \in Seq(Deltas)
        BY <4>1
      <4> QED
        BY <1>4, <2>1, <3>2, <4>2 DEF C!Answer, C!Last
    <3> QED
      BY <3>1, <3>2
  <2>4. C!Assistant(text) \in Messages
    BY <2>3 DEF Messages
  <2>5. /\ messages' \in Seq(Messages) /\ Len(messages') = Len(messages) + 1
        /\ messages'[Len(messages) + 1] = C!Assistant(text)
        /\ \A i \in 1..Len(messages) : messages'[i] = messages[i]
    BY <1>4, <2>2, <2>4
  <2>6. /\ turns' \in Seq(Tasks) /\ Len(turns') = Len(turns) + 1 /\ turns'[Len(turns) + 1] = turn
        /\ \A k \in 1..Len(turns) : turns'[k] = turns[k]
    BY <1>4, <2>2
  <2>7. Len(messages) = 2 * Len(turns) + 1 /\ Len(turns) \in Nat
    BY <1>1, <1>2, <1>4 DEF TurnsCount
  <2>8. FlagsTyped' /\ TalkTyped'
    <3>1. FlagsTyped'
      BY <1>1, <1>2, <2>2 DEF FlagsTyped
    <3>2. TalkTyped'
      BY <1>1, <1>2, <2>5, <2>6 DEF TalkTyped
    <3> QED
      BY <3>1, <3>2
  <2>9. Quiet'
    BY <1>1, <1>2, <2>2 DEF Quiet
  <2>10. Covered'
    BY <1>1, <1>2, <1>6, <1>7, <2>2 DEF Covered, Spoken
  <2>11. turn.status # "running" /\ (turn.status = "succeeded" => turn.said = feed)
    BY <1>1, <1>2, <2>2 DEF Streaming
  <2>12. Streaming'
    BY <1>1, <1>5, <2>2, <2>11 DEF Streaming
  <2>13. TurnsCount'
    <3>1. \E n \in C!Lines(sent) : n >= Len(turns) + 1
      BY <1>1, <1>2 DEF TurnsCount
    <3>2. \E n \in C!Lines(sent') : n >= Len(turns')
      BY <1>1, <2>6, <3>1
    <3>3. Len(messages') = 2 * Len(turns') /\ Len(messages') <= 2 * MaxLines + 1
      <4>1. PICK n \in C!Lines(sent) : n >= Len(turns) + 1
        BY <3>1
      <4>2. n \in 1..Len(typed) /\ Len(typed) <= MaxLines /\ Len(typed) \in Nat
        BY <1>2, LinesTyped DEF FromTyped, KeysTyped
      <4>3. MaxLines \in Nat
        BY DEF C!ChatAssumption
      <4> QED
        BY <2>5, <2>6, <2>7, <4>1, <4>2, <4>3
    <3> QED
      BY <2>2, <3>2, <3>3 DEF TurnsCount
  <2>14. C!AnswersCarried'
    <3> DEFINE said(t) == IF t.kind = "task" THEN <<"answer">> ELSE t.said
    <3>1. \A k \in 1..Len(turns) : 2 * k \in 1..Len(messages)
      BY <2>7
    <3>2. ASSUME NEW k \in 1..Len(turns), turns'[k].status = "succeeded"
          PROVE  messages'[2 * k] = C!Assistant(said(turns'[k]))
      BY <1>2, <2>5, <2>6, <3>1, <3>2 DEF C!AnswersCarried
    <3>3. ASSUME turn.status = "succeeded"
          PROVE  messages'[2 * (Len(turns) + 1)] = C!Assistant(said(turn))
      <4>1. messages'[2 * (Len(turns) + 1)] = C!Assistant(text)
        BY <2>5, <2>7
      <4>2. text = said(turn)
        BY <1>5, <2>1, <2>11, <3>3 DEF C!Answer
      <4> QED
        BY <4>1, <4>2
    <3>4. ASSUME NEW k \in 1..Len(turns'), turns'[k].status = "succeeded"
          PROVE  messages'[2 * k] = C!Assistant(said(turns'[k]))
      <4>1. k \in 1..Len(turns) \/ k = Len(turns) + 1
        BY <2>6, <2>7
      <4> QED
        BY <2>6, <3>2, <3>3, <3>4, <4>1
    <3> QED
      BY <3>4 DEF C!AnswersCarried
  <2> QED
    BY <1>3, <1>9, <2>8, <2>9, <2>10, <2>12, <2>13, <2>14 DEF ChatInv, ChatTyped, LinesInv
<1> QED
  BY <1>10, <1>11

(* Every step of the session and of the daemon keeps the argument.         *)
LEMMA ChatNext == ASSUME C!ChatAssumption PROVE ChatInv /\ [C!Next]_(C!vars) => ChatInv'
<1> SUFFICES ASSUME ChatInv, [C!Next]_(C!vars) PROVE ChatInv'
  OBVIOUS
<1>1. CASE UNCHANGED C!vars
  <2>1. UNCHANGED <<typed, queue, live, closed, phase, code, messages, feed, failed, interrupted,
                    pending, flight, cancel, turn, net, sent, told, threw, turns>>
    BY <1>1 DEF C!vars, C!source, C!turn, C!chain, C!daemon
  <2> QED
    BY <2>1, KeysRest, FlagsRest, TalkRests, LinesRest, CountRests, StreamRests, AnswersRest
       DEF ChatInv, ChatTyped
<1>2. CASE C!Next
  <2>1. CASE C!Close \/ C!Sigint \/ C!Cancelled
    BY <2>1, SignalsKeep
  <2>2. CASE C!Ask
    BY <2>2, AskKeeps
  <2>3. CASE C!Start
    BY <2>3, StartKeeps
  <2>4. CASE C!Read \/ C!Aborted
    BY <2>4, ReadKeeps
  <2>5. CASE C!EndTurn
    BY <2>5, EndKeeps
  <2>6. CASE C!SteerTask
    BY <2>6, SteerKeeps
  <2>7. CASE C!Heard
    BY <2>7, HeardKeeps
  <2>8. CASE C!SteerAnswered \/ C!SteerThrows
    BY <2>8, AnswerKeeps
  <2>9. CASE C!Says \/ C!Succeeds \/ C!FailsOrIsCancelled \/ C!Lost
    BY <2>9, DaemonKeeps
  <2>10. CASE \E blank \in BOOLEAN : C!Type(blank)
    BY <2>10, TypeKeeps
  <2> QED
    BY <1>2, <2>1, <2>2, <2>3, <2>4, <2>5, <2>6, <2>7, <2>8, <2>9, <2>10 DEF C!Next
<1> QED
  BY <1>1, <1>2

(***************************************************************************)
(* The parts together.                                                     *)
(***************************************************************************)
(* The part that moves is in a state its own argument allows.              *)
DeskInv ==
  /\ part = "files" => FilesInv
  /\ part = "budget" => BudgetInv
  /\ part = "pages" => PagesInv
  /\ part = "editors" => EditorsInv
  /\ part = "requests" => RequestsInv
  /\ part = "chat" => ChatInv

(* The desk starts with the part that moves in one of its initial states.  *)
LEMMA DeskStarts == ASSUME DeskAssumption PROVE DeskInit => DeskInv
<1> SUFFICES ASSUME DeskInit PROVE DeskInv
  OBVIOUS
<1>1. /\ F!FileToolsAssumption /\ B!BudgetAssumption /\ G!PagesAssumption
      /\ E!EditorsAssumption /\ P!ProjectsAssumption /\ C!ChatAssumption
  BY DEF DeskAssumption
<1>2. /\ part = "files" => F!Init
      /\ part = "budget" => B!Init
      /\ part = "pages" => G!Init
      /\ part = "editors" => E!Init
      /\ part = "requests" => P!Init
      /\ C!Init
  BY DEF DeskInit
<1>3. part = "files" => FilesInv
  BY <1>1, <1>2, FilesInit
<1>4. part = "budget" => BudgetInv
  BY <1>1, <1>2, BudgetInit
<1>5. part = "pages" => PagesInv
  BY <1>1, <1>2, PagesInit
<1>6. part = "editors" => EditorsInv
  BY <1>1, <1>2, EditorsInit
<1>7. part = "requests" => RequestsInv
  BY <1>1, <1>2, RequestsInit
<1>8. ChatInv
  BY <1>1, <1>2, ChatInit
<1> QED
  BY <1>3, <1>4, <1>5, <1>6, <1>7, <1>8 DEF DeskInv

(* A step of the desk is one of the part that moves; the others rest.      *)
LEMMA OnePartMoves ==
  ASSUME [DeskNext]_desk
  PROVE  /\ part' = part
         /\ IF part = "files" THEN [F!Next]_(F!vars) ELSE UNCHANGED F!vars
         /\ IF part = "budget" THEN [B!Next]_(B!vars) ELSE UNCHANGED B!vars
         /\ IF part = "pages" THEN [G!Next]_(G!vars) ELSE UNCHANGED G!vars
         /\ IF part = "editors" THEN [E!Next]_(E!vars) ELSE UNCHANGED E!vars
         /\ IF part = "requests" THEN [P!Next]_(P!vars) ELSE UNCHANGED P!vars
         /\ IF part = "chat" THEN [C!Next]_(C!vars) ELSE UNCHANGED C!vars
<1> DEFINE F0 == UNCHANGED F!vars
           B0 == UNCHANGED B!vars
           G0 == UNCHANGED G!vars
           E0 == UNCHANGED E!vars
           P0 == UNCHANGED P!vars
           C0 == UNCHANGED C!vars
<1>1. /\ UNCHANGED files => F0
      /\ UNCHANGED budget => B0
      /\ UNCHANGED pages => G0
      /\ UNCHANGED editors => E0
      /\ UNCHANGED requests => P0
      /\ UNCHANGED chat => C0
  <2>1. UNCHANGED files => F0
    BY DEF files, F!vars
  <2>2. UNCHANGED budget => B0
    BY DEF budget, B!vars
  <2>3. UNCHANGED pages => G0
    BY DEF pages, G!vars, G!figures, G!review
  <2>4. UNCHANGED editors => E0
    BY DEF editors, E!vars, E!editing, E!importing
  <2>5. UNCHANGED requests => P0
    BY DEF requests, P!vars
  <2>6. UNCHANGED chat => C0
    BY DEF chat, C!vars, C!source, C!turn, C!chain, C!daemon
  <2> QED
    BY <2>1, <2>2, <2>3, <2>4, <2>5, <2>6
<1>2. CASE UNCHANGED desk
  <2>1. /\ part' = part /\ UNCHANGED files /\ UNCHANGED budget /\ UNCHANGED pages
        /\ UNCHANGED editors /\ UNCHANGED requests /\ UNCHANGED chat
    BY <1>2 DEF desk
  <2> HIDE DEF F0, B0, G0, E0, P0, C0
  <2>2. part' = part /\ F0 /\ B0 /\ G0 /\ E0 /\ P0 /\ C0
    BY <1>1, <2>1
  <2> QED
    BY <2>2 DEF F0, B0, G0, E0, P0, C0
<1>3. CASE DeskNext
  <2>1. /\ part' = part
        /\ part = "files" => F!Next
        /\ part = "budget" => B!Next
        /\ part = "pages" => G!Next
        /\ part = "editors" => E!Next
        /\ part = "requests" => P!Next
        /\ part = "chat" => C!Next
    BY <1>3 DEF DeskNext
  <2>2. /\ part # "files" => UNCHANGED files
        /\ part # "budget" => UNCHANGED budget
        /\ part # "pages" => UNCHANGED pages
        /\ part # "editors" => UNCHANGED editors
        /\ part # "requests" => UNCHANGED requests
        /\ part # "chat" => UNCHANGED chat
    BY <1>3 DEF DeskNext
  <2> HIDE DEF F0, B0, G0, E0, P0, C0
  <2>3. /\ part # "files" => F0
        /\ part # "budget" => B0
        /\ part # "pages" => G0
        /\ part # "editors" => E0
        /\ part # "requests" => P0
        /\ part # "chat" => C0
    BY <1>1, <2>2
  <2> QED
    BY <2>1, <2>3 DEF F0, B0, G0, E0, P0, C0
<1> QED
  BY <1>2, <1>3

(* Each step keeps the argument of the part that moves.                    *)
LEMMA DeskKeeps == ASSUME DeskAssumption PROVE DeskInv /\ [DeskNext]_desk => DeskInv'
<1> SUFFICES ASSUME DeskInv, [DeskNext]_desk PROVE DeskInv'
  OBVIOUS
<1>1. /\ F!FileToolsAssumption /\ B!BudgetAssumption /\ G!PagesAssumption
      /\ E!EditorsAssumption /\ P!ProjectsAssumption /\ C!ChatAssumption
  BY DEF DeskAssumption
<1>2. /\ part' = part
      /\ part = "files" => [F!Next]_(F!vars)
      /\ part = "budget" => [B!Next]_(B!vars)
      /\ part = "pages" => [G!Next]_(G!vars)
      /\ part = "editors" => [E!Next]_(E!vars)
      /\ part = "requests" => [P!Next]_(P!vars)
      /\ part = "chat" => [C!Next]_(C!vars)
  BY OnePartMoves, Zenon
<1>3. /\ part = "files" => FilesInv
      /\ part = "budget" => BudgetInv
      /\ part = "pages" => PagesInv
      /\ part = "editors" => EditorsInv
      /\ part = "requests" => RequestsInv
      /\ part = "chat" => ChatInv
  BY DEF DeskInv
<1>4. part = "files" => FilesInv'
  BY <1>1, <1>2, <1>3, FilesNext, Zenon
<1>5. part = "budget" => BudgetInv'
  BY <1>1, <1>2, <1>3, BudgetNext, Zenon
<1>6. part = "pages" => PagesInv'
  BY <1>1, <1>2, <1>3, PagesNext, Zenon
<1>7. part = "editors" => EditorsInv'
  BY <1>1, <1>2, <1>3, EditorsNext, Zenon
<1>8. part = "requests" => RequestsInv'
  BY <1>1, <1>2, <1>3, RequestsNext, Zenon
<1>9. part = "chat" => ChatInv'
  BY <1>1, <1>2, <1>3, ChatNext, Zenon
<1> QED
  BY <1>2, <1>4, <1>5, <1>6, <1>7, <1>8, <1>9 DEF DeskInv

(* The argument of the part that moves holds in every state.               *)
THEOREM DeskInvariant == ASSUME DeskAssumption PROVE DeskSpec => []DeskInv
BY DeskStarts, DeskKeeps, PTL DEF DeskSpec

(* An edit is matched against the file that is there after the yes, however *)
(* many workers and commands write to it while the card is open (execute.ts,*)
(* editFileTool).                                                          *)
THEOREM EditsMeetTheFile == ASSUME DeskAssumption PROVE DeskSpec => []EditsWhatIsThere
<1>1. DeskInv => EditsWhatIsThere
  BY DEF DeskInv, FilesInv, FilesTyped, EditsWhatIsThere
<1> QED
  BY <1>1, DeskInvariant, PTL

(* A session passes its lines on in the order they were typed and, ending    *)
(* well, has used each; the conversation carries the answer of every turn   *)
(* that succeeded (packages/cli/src/index.ts, chatCommand and LineSource).  *)
THEOREM LinesArePassedOn == ASSUME DeskAssumption PROVE DeskSpec => []PassesLinesOn
<1>1. DeskInv => PassesLinesOn
  <2> SUFFICES ASSUME ChatInv
               PROVE  C!TypeOK /\ C!InTypedOrder /\ C!LinesUsed /\ C!AnswersCarried
    BY DEF DeskInv, PassesLinesOn
  <2>1. KeysTyped /\ FlagsTyped /\ FromTyped /\ LineOrder /\ Quiet /\ Covered /\ TurnsCount
    BY DEF ChatInv, ChatTyped, LinesInv
  <2>2. Len(flight) <= 1
    <3>1. CASE flight = <<>>
      BY <3>1
    <3>2. CASE \E f \in Steers : flight = <<f>>
      <4>1. PICK f \in Steers : flight = <<f>>
        BY <3>2
      <4> QED
        BY <4>1
    <3> QED
      BY <2>1, <3>1, <3>2 DEF KeysTyped
  <2>3. C!TypeOK
    BY <2>1, <2>2 DEF C!TypeOK, KeysTyped, FlagsTyped, FromTyped, TurnsCount, Spoken
  <2>4. C!InTypedOrder
    BY <2>1 DEF LineOrder, C!InTypedOrder
  <2>5. ASSUME phase = "over", code = 0, ~threw PROVE Spoken(typed) \subseteq C!Lines(sent) \cup told
    <3>1. Starting = {} /\ Flying = {} /\ C!Lines(pending) = {} /\ Spoken(queue) = {}
      BY <2>1, <2>5, NoLines DEF Quiet, Starting, Flying
    <3> QED
      BY <2>1, <2>5, <3>1 DEF Covered
  <2>6. C!LinesUsed
    BY <2>5 DEF C!LinesUsed, Spoken
  <2> QED
    BY <2>3, <2>4, <2>6 DEF ChatInv
<1> QED
  BY <1>1, DeskInvariant, PTL

(* A button does what it says: the figures a page shows are the last ones   *)
(* asked for, for its tabs and no older than the last event, unless it says *)
(* a request failed; the overwrite of a card was refused first; a save      *)
(* changes what was typed and warned of leaving its source; an import runs  *)
(* in the mode it was counted for (CostsPanel.tsx, StatsPanel.tsx,          *)
(* SkillsPanel.tsx, ModelEditor.tsx, RegistryTransfer.tsx).                *)
THEOREM ButtonsDoWhatTheySay == ASSUME DeskAssumption PROVE DeskSpec => DoesWhatItSays
<1>1. DeskInv => (part = "pages" => G!TypeOK /\ G!FiguresAreCurrent /\ G!OverwriteWasRefusedFirst)
  BY DEF DeskInv, PagesInv, CurrentOrAsked, G!FiguresAreCurrent
<1>2. DeskInv => (part = "editors" => E!TypeOK /\ E!CountsDescribeTheButton)
  BY DEF DeskInv, EditorsInv, EditorsTyped, E!TypeOK
<1>3. ASSUME DeskInv, [DeskNext]_desk
      PROVE  /\ [\A i \in DOMAIN patches : E!PatchArrives(i) /\ ~patches[i].under =>
                   \A f \in E!Fields \ patches[i].typed : row'.facts[f] = row.facts[f]]_(E!vars)
             /\ [\A i \in DOMAIN patches : E!PatchArrives(i) /\ ~returned
                   /\ row.source = "synced" /\ row'.source = "manual"
                   => patches[i].warned]_(E!vars)
  <2>1. CASE UNCHANGED E!vars
    BY <2>1
  <2>2. CASE part = "editors"
    <3>1. EditorsInv /\ E!EditorsAssumption
      BY <1>3, <2>2 DEF DeskInv, DeskAssumption
    <3> QED
      BY <3>1, EditorsSteps, Zenon
  <2> QED
    BY <1>3, <2>1, <2>2, OnePartMoves, Zenon
<1> QED
  BY <1>1, <1>2, <1>3, DeskInvariant, PTL
     DEF DeskSpec, DoesWhatItSays, E!SavesWhatWasTyped, E!WarnedBeforeLeaving

(* What a check of the cap leaves, and what a leader told to stop does.    *)
LEMMA BudgetSteps ==
  ASSUME B!BudgetAssumption, BudgetInv, [B!Next]_(B!vars)
  PROVE  /\ [B!BudgetCheck /\ B!Near => note' # "none" \/ dropped']_(B!vars)
         /\ [note = "stop" /\ note' = "stop" => out' <= out]_(B!vars)
<1>1. [B!BudgetCheck /\ B!Near => note' # "none" \/ dropped']_(B!vars)
  BY DEF BudgetInv, LatchMeansTold, B!BudgetCheck
<1>2. [note = "stop" /\ note' = "stop" => out' <= out]_(B!vars)
  <2> SUFFICES ASSUME note = "stop", note' = "stop" PROVE out' <= out
    OBVIOUS
  <2>1. B!OverBudget /\ out \in Nat
    BY DEF BudgetInv, StopMeansOver, B!TypeOK, B!BudgetAssumption
  <2> QED
    BY <2>1 DEF B!Next, B!vars, B!CallInitiator, B!DriverEnds, B!Nudge, B!SpawnWorker,
                B!WorkerPays, B!Handoff, B!BudgetCheck, B!SetMaxSpendUsd
<1> QED
  BY <1>1, <1>2

(* A task stays within its project and its session within the cap of its    *)
(* row, a refused request leaves no task, a switch turns that switch; near  *)
(* its cap the task is told, and told to stop it starts no worker (app.ts,  *)
(* engine.ts:569, 1033, 1469).                                             *)
THEOREM TasksStayInBounds == ASSUME DeskAssumption PROVE DeskSpec => StaysInBounds
<1>1. DeskInv => (part = "requests" => P!TypeOK /\ P!WithinItsProject /\ P!OneCap)
  <2> SUFFICES ASSUME RequestsInv PROVE P!TypeOK /\ P!WithinItsProject /\ P!OneCap
    BY DEF DeskInv
  <2>1. /\ project \in [Slugs -> P!Row \cup {P!Absent}]
        /\ behind \subseteq Slugs /\ on \subseteq Registered /\ up \subseteq P!Providers
        /\ tasks \in Seq(TaskRows) /\ \A t \in DOMAIN tasks : Bounded(tasks[t])
    BY DEF RequestsInv, RequestsTyped
  <2>2. \A t \in DOMAIN tasks : tasks[t].leader \in Registered
    <3> SUFFICES ASSUME NEW t \in DOMAIN tasks PROVE tasks[t].leader \in Registered
      OBVIOUS
    <3>1. tasks[t] \in TaskRows
      BY <2>1, Elements, Zenon
    <3> QED
      BY <3>1 DEF TaskRows
  <2>3. P!TypeOK
    BY <2>1, <2>2 DEF P!TypeOK, P!Known
  <2>4. P!WithinItsProject /\ P!OneCap
    BY <2>1 DEF P!WithinItsProject, P!OneCap, Bounded
  <2> QED
    BY <2>3, <2>4
<1>2. DeskInv => (part = "budget" => B!TypeOK)
  BY DEF DeskInv, BudgetInv
<1>3. ASSUME DeskInv, [DeskNext]_desk
      PROVE  /\ [/\ reply' = "refused" => tasks' = tasks
                 /\ Len(tasks') > Len(tasks) => P!Last(tasks').leader \in on]_(P!vars)
             /\ [\A s \in Slugs :
                   s \notin behind /\ listed' # listed /\ project'[s].auto # project[s].auto
                   => project'[s] = [project[s] EXCEPT !.auto = ~project[s].auto]]_(P!vars)
  <2>1. CASE UNCHANGED P!vars
    BY <2>1
  <2>2. CASE part = "requests"
    <3>1. RequestsInv /\ P!ProjectsAssumption
      BY <1>3, <2>2 DEF DeskInv, DeskAssumption
    <3>2. [P!Next]_(P!vars)
      BY <1>3, <2>2, OnePartMoves, Zenon
    <3> QED
      BY <3>1, <3>2, RequestsAnswered, Zenon
  <2> QED
    BY <1>3, <2>1, <2>2, OnePartMoves, Zenon
<1>4. ASSUME DeskInv, [DeskNext]_desk
      PROVE  /\ [B!BudgetCheck /\ B!Near => note' # "none" \/ dropped']_(B!vars)
             /\ [note = "stop" /\ note' = "stop" => out' <= out]_(B!vars)
  <2>1. CASE UNCHANGED B!vars
    BY <2>1
  <2>2. CASE part = "budget"
    <3>1. BudgetInv /\ B!BudgetAssumption
      BY <1>4, <2>2 DEF DeskInv, DeskAssumption
    <3>2. [B!Next]_(B!vars)
      BY <1>4, <2>2, OnePartMoves, Zenon
    <3> QED
      BY <3>1, <3>2, BudgetSteps, Zenon
  <2> QED
    BY <1>4, <2>1, <2>2, OnePartMoves, Zenon
<1> QED
  BY <1>1, <1>2, <1>3, <1>4, DeskInvariant, PTL
     DEF DeskSpec, StaysInBounds, P!StartsOrNothing, P!SwitchOnly, B!ToldOfTheCap, B!StopMeansStop

=============================================================================
