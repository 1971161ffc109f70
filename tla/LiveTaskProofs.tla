--------------------------- MODULE LiveTaskProofs ---------------------------
(***************************************************************************)
(* Proofs about LiveTask, for any number of requests, chunks and leaves.    *)
(*                                                                         *)
(* The argument: what a reader was given, what it has still to replay and   *)
(* what waits in its queue are three consecutive runs of the log, and while *)
(* it listens they reach to its end (Position).  So each thing it is given  *)
(* is the next of the log, and when it is told the end there is no more.    *)
(***************************************************************************)
EXTENDS LiveTask, SequenceTheorems, TLAPS

(* s holds the numbers that follow a.                                      *)
Run(s, a) == \A n \in 1..Len(s) : s[n] = a + n

(* Where a reader stands in the log.                                       *)
Position(r) ==
  /\ Run(sent[r], 0)
  /\ Run(replay[r], Len(sent[r]))
  /\ Run(queue[r], Len(sent[r]) + Len(replay[r]))
  /\ at[r] = "none" => /\ sent[r] = <<>> /\ replay[r] = <<>> /\ queue[r] = <<>>
                       /\ ~ended[r] /\ ~gone[r]
  /\ at[r] \notin {"none", "closed"} =>
       Len(sent[r]) + Len(replay[r]) + Len(queue[r]) = pumped
  /\ at[r] = "asleep" => queue[r] = <<>>
  /\ ended[r] => gone[r] \/ finished
  /\ at[r] = "closed" => gone[r] \/ finished

Positions == \A r \in Readers : Position(r)

IInv == TypeOK /\ Positions /\ AbandonedIsTimed /\ TimerMeansNobody

-----------------------------------------------------------------------------
(* Runs of the log                                                         *)

(* Only the empty sequence has no length.                                   *)
LEMMA OnlyEmpty == \A t \in Seq(Nat) : t = <<>> <=> Len(t) = 0
<1> TAKE t \in Seq(Nat)
<1>1. Len(<<>>) = 0 /\ (t # <<>> => Len(t) \in Nat \ {0})
  BY EmptySeq
<1>2. CASE t = <<>>
  BY <1>1, <1>2, Zenon
<1>3. CASE t # <<>>
  BY <1>1, <1>3
<1> QED
  BY <1>2, <1>3

(* Pushing the next chunk onto a run gives a run.                           *)
LEMMA RunAppend ==
  ASSUME NEW s \in Seq(Nat), NEW a \in Nat, Run(s, a)
  PROVE  LET t == Append(s, a + Len(s) + 1)
         IN /\ t \in Seq(Nat) /\ Run(t, a) /\ Len(t) = Len(s) + 1 /\ t # <<>>
<1>1. Len(s) \in Nat
  BY LenProperties
<1>2. a + Len(s) + 1 \in Nat
  BY <1>1
<1> DEFINE t == Append(s, a + Len(s) + 1)
<1>3. /\ t \in Seq(Nat) /\ Len(t) = Len(s) + 1 /\ t[Len(s) + 1] = a + Len(s) + 1
      /\ \A i \in 1..Len(s) : t[i] = s[i]
  BY <1>2, AppendProperties
<1>4. Run(t, a)
  <2> SUFFICES ASSUME NEW n \in 1..Len(t) PROVE t[n] = a + n
    BY DEF Run
  <2>1. CASE n \in 1..Len(s)
    BY <2>1, <1>3 DEF Run
  <2>2. CASE n = Len(s) + 1
    BY <2>2, <1>3, <1>1, SMT
  <2> HIDE DEF t
  <2> QED
    BY <2>1, <2>2, <1>3, <1>1
<1>5. t # <<>>
  BY <1>3, <1>1, EmptySeq
<1> QED
  BY <1>3, <1>4, <1>5

(* Taking the first of a run leaves the run that follows it.                *)
LEMMA RunTail ==
  ASSUME NEW s \in Seq(Nat), NEW a \in Nat, Run(s, a), s # <<>>
  PROVE  /\ Head(s) = a + 1 /\ Tail(s) \in Seq(Nat) /\ Run(Tail(s), a + 1)
         /\ Len(Tail(s)) = Len(s) - 1 /\ Len(s) \in Nat \ {0}
         /\ Len(s) = 1 <=> Tail(s) = <<>>
<1>1. Len(s) \in Nat /\ Len(s) # 0
  BY LenProperties, EmptySeq
<1>2. /\ Head(s) = s[1] /\ Tail(s) \in Seq(Nat) /\ Len(Tail(s)) = Len(s) - 1
      /\ \A i \in 1..Len(Tail(s)) : Tail(s)[i] = s[i + 1]
  BY HeadTailProperties
<1>3. Head(s) = a + 1
  BY <1>1, <1>2 DEF Run
<1>4. Run(Tail(s), a + 1)
  <2> SUFFICES ASSUME NEW n \in 1..Len(Tail(s)) PROVE Tail(s)[n] = (a + 1) + n
    BY DEF Run
  <2>1. n + 1 \in 1..Len(s) /\ Tail(s)[n] = s[n + 1]
    BY <1>1, <1>2
  <2>2. s[n + 1] = a + (n + 1)
    BY <2>1 DEF Run
  <2> QED
    BY <2>1, <2>2, <1>1, <1>2
<1>5. Len(s) = 1 <=> Tail(s) = <<>>
  <2>1. Tail(s) = <<>> <=> Len(Tail(s)) = 0
    BY <1>2, OnlyEmpty
  <2>2. Len(s) = 1 <=> Len(Tail(s)) = 0
    BY <1>1, <1>2
  <2> QED
    BY <2>1, <2>2, Zenon
<1> QED
  BY <1>1, <1>2, <1>3, <1>4, <1>5

(* The copy of the buffer that a request replays is a run of it all.        *)
LEMMA RunUpto ==
  ASSUME NEW n \in Nat
  PROVE  /\ Upto(n) \in Seq(Nat) /\ Len(Upto(n)) = n /\ Run(Upto(n), 0)
         /\ n = 0 <=> Upto(n) = <<>>
<1>1. Upto(n) \in Seq(Nat) /\ Len(Upto(n)) = n
  BY DEF Upto
<1>2. Run(Upto(n), 0)
  BY <1>1 DEF Run, Upto
<1>3. n = 0 <=> Upto(n) = <<>>
  BY <1>1, EmptySeq
<1> QED
  BY <1>1, <1>2, <1>3

(* An empty sequence is a run from anywhere, and has no length.             *)
LEMMA RunEmpty == Len(<<>>) = 0 /\ \A a : Run(<<>>, a)
BY EmptySeq DEF Run

-----------------------------------------------------------------------------
(* The inductive invariant                                                 *)

(* What Position asks is asked of each reader alone: one that a step leaves *)
(* where it was keeps its place, if the log and its end stay as they are.   *)
LEMMA PositionKept ==
  ASSUME NEW q \in Readers, Position(q), pumped' = pumped, end' = end,
         at'[q] = at[q], sent'[q] = sent[q], replay'[q] = replay[q],
         queue'[q] = queue[q], ended'[q] = ended[q], gone'[q] = gone[q]
  PROVE  Position(q)'
BY DEF Position, Run, finished

(* Nobody listens, nothing was said: every reader stands at the start.      *)
LEMMA InitIInv == Init => IInv
<1> SUFFICES ASSUME Init PROVE IInv
  OBVIOUS
<1>1. TypeOK
  <2>1. <<>> \in Seq(Nat)
    BY EmptySeq
  <2> QED
    BY <2>1 DEF Init, TypeOK, finished
<1>2. Positions
  <2> SUFFICES ASSUME NEW r \in Readers PROVE Position(r)
    BY DEF Positions
  <2> QED
    BY RunEmpty DEF Init, Position, finished
<1>3. AbandonedIsTimed /\ TimerMeansNobody
  BY DEF Init, AbandonedIsTimed, TimerMeansNobody
<1> QED
  BY <1>1, <1>2, <1>3 DEF IInv

(* A chunk goes to the end of the queue of everyone who listens.            *)
LEMMA ChunkIInv == IInv /\ Chunk => IInv'
<1> SUFFICES ASSUME IInv, Chunk PROVE IInv'
  OBVIOUS
<1>0. TypeOK /\ Positions /\ AbandonedIsTimed /\ TimerMeansNobody
  BY DEF IInv
<1>1. \A r \in Readers : r \in subs <=> at[r] \notin {"none", "closed"}
  BY <1>0 DEF TypeOK, Chunk, finished
<1>2. pumped + 1 \in Nat
  BY <1>0 DEF TypeOK
<1>3. ASSUME NEW r \in Readers, r \in subs
      PROVE  /\ queue'[r] \in Seq(Nat) /\ Position(r)'
             /\ at'[r] \notin {"none", "closed"}
             /\ at'[r] \in {"replaying", "looking"}
             /\ at'[r] = "replaying" <=> replay[r] # <<>>
  <2>1. /\ sent[r] \in Seq(Nat) /\ replay[r] \in Seq(Nat) /\ queue[r] \in Seq(Nat)
        /\ at[r] \in {"none", "replaying", "looking", "asleep", "closed"}
        /\ at[r] = "replaying" <=> replay[r] # <<>>
    BY <1>0 DEF TypeOK
  <2>2. Len(sent[r]) \in Nat /\ Len(replay[r]) \in Nat /\ Len(queue[r]) \in Nat
    BY <2>1, LenProperties
  <2> DEFINE a == Len(sent[r]) + Len(replay[r])
  <2>3. a \in Nat /\ Run(queue[r], a) /\ a + Len(queue[r]) = pumped
    <3>1. Position(r) /\ at[r] \notin {"none", "closed"}
      BY <1>0, <1>1, <1>3 DEF Positions
    <3>2. Run(queue[r], a) /\ a + Len(queue[r]) = pumped
      BY <3>1 DEF Position
    <3>3. a \in Nat
      <4>1. \A i, j \in Nat : i + j \in Nat
        OBVIOUS
      <4> QED
        BY <4>1, <2>2, Zenon
    <3> QED
      BY <3>2, <3>3, Zenon
  <2>4. queue'[r] = Append(queue[r], a + Len(queue[r]) + 1)
    BY <2>3, <1>3 DEF Chunk
  <2>5. /\ queue'[r] \in Seq(Nat) /\ Run(queue'[r], a)
        /\ Len(queue'[r]) = Len(queue[r]) + 1
    <3> HIDE DEF a
    <3> QED
      BY <2>1, <2>3, <2>4, RunAppend
  <2>6. at'[r] = IF at[r] = "asleep" THEN "looking" ELSE at[r]
    BY <1>3 DEF Chunk, Woken
  <2>7. /\ sent'[r] = sent[r] /\ replay'[r] = replay[r] /\ ended'[r] = ended[r]
        /\ gone'[r] = gone[r] /\ end' = end /\ pumped' = pumped + 1
    BY DEF Chunk
  <2>8. at'[r] \in {"replaying", "looking"}
    BY <2>1, <2>6, <1>1, <1>3
  <2>9. Position(r)'
    <3>1. Run(sent'[r], 0) /\ Run(replay'[r], Len(sent'[r]))
      BY <1>0, <2>7 DEF Positions, Position
    <3>2. Run(queue'[r], Len(sent'[r]) + Len(replay'[r]))
      BY <2>5, <2>7
    <3>3. Len(sent'[r]) + Len(replay'[r]) + Len(queue'[r]) = pumped'
      <4> HIDE DEF a
      <4>1. a' = a /\ a + Len(queue'[r]) = pumped + 1
        <5>1. a + (Len(queue[r]) + 1) = pumped + 1
          BY <2>2, <2>3
        <5> QED
          BY <5>1, <2>5, <2>7 DEF a
      <4> QED
        BY <4>1, <2>7 DEF a
    <3>4. ended'[r] => gone'[r] \/ finished'
      BY <1>0, <2>7 DEF Positions, Position, finished
    <3> QED
      BY <3>1, <3>2, <3>3, <3>4, <2>8 DEF Position
  <2> QED
    BY <2>1, <2>5, <2>6, <2>8, <2>9
<1>4. ASSUME NEW r \in Readers, r \notin subs
      PROVE  /\ queue'[r] \in Seq(Nat) /\ Position(r)' /\ at'[r] = at[r]
             /\ at[r] \in {"none", "closed"}
  <2>1. /\ queue'[r] = queue[r] /\ at'[r] = at[r] /\ sent'[r] = sent[r]
        /\ replay'[r] = replay[r] /\ ended'[r] = ended[r] /\ gone'[r] = gone[r]
        /\ end' = end
    BY <1>4 DEF Chunk, Woken
  <2>2. at[r] \in {"none", "closed"}
    BY <1>1, <1>4
  <2>3. Position(r)'
    <3>1. Position(r)
      BY <1>0 DEF Positions
    <3>2. /\ Run(sent'[r], 0) /\ Run(replay'[r], Len(sent'[r]))
          /\ Run(queue'[r], Len(sent'[r]) + Len(replay'[r]))
      BY <2>1, <3>1 DEF Position
    <3> QED
      BY <2>1, <2>2, <3>1, <3>2 DEF Position, finished
  <2> QED
    BY <1>0, <2>1, <2>2, <2>3 DEF TypeOK
<1>5. Positions'
  BY <1>3, <1>4 DEF Positions
<1>6. TypeOK'
  <2>1. at' \in [Readers -> {"none", "replaying", "looking", "asleep", "closed"}]
    BY <1>0 DEF TypeOK, Chunk, Woken
  <2>2. queue' \in [Readers -> Seq(Nat)]
    <3>1. queue' = [r \in Readers |-> queue'[r]]
      BY DEF Chunk
    <3> QED
      BY <3>1, <1>3, <1>4
  <2>3. \A r \in Readers : at'[r] = "replaying" <=> replay'[r] # <<>>
    BY <1>0, <1>3, <1>4 DEF TypeOK, Chunk
  <2>4. subs' = {r \in Readers : ~finished' /\ at'[r] \notin {"none", "closed"}}
    <3>1. subs' = subs /\ subs \subseteq Readers /\ ~finished'
      BY <1>0 DEF TypeOK, Chunk, finished
    <3> QED
      BY <3>1, <1>3, <1>4
  <2> QED
    BY <1>0, <1>2, <2>1, <2>2, <2>3, <2>4 DEF TypeOK, Chunk
<1>7. AbandonedIsTimed' /\ TimerMeansNobody'
  BY <1>0 DEF AbandonedIsTimed, TimerMeansNobody, Chunk, finished
<1> QED
  BY <1>5, <1>6, <1>7 DEF IInv

(* The end finds everyone at the end of the log, or on the way to it.       *)
LEMMA FinishIInv == IInv /\ Finish => IInv'
<1> SUFFICES ASSUME IInv, Finish PROVE IInv'
  OBVIOUS
<1>0. TypeOK /\ Positions /\ AbandonedIsTimed /\ TimerMeansNobody
  BY DEF IInv
<1>1. finished' /\ ~finished
  BY DEF Finish, finished
<1>2. Positions'
  <2> SUFFICES ASSUME NEW r \in Readers PROVE Position(r)'
    BY DEF Positions
  <2>1. /\ queue'[r] = queue[r] /\ sent'[r] = sent[r] /\ replay'[r] = replay[r]
        /\ gone'[r] = gone[r] /\ pumped' = pumped
        /\ ended'[r] = (ended[r] \/ r \in subs)
        /\ at'[r] = IF r \in subs /\ at[r] = "asleep" THEN "looking" ELSE at[r]
    BY DEF Finish, Woken
  <2>2. r \in subs => at[r] \notin {"none", "closed"}
    BY <1>0 DEF TypeOK
  <2>3. Position(r)
    BY <1>0 DEF Positions
  <2>4. Run(sent'[r], 0) /\ Run(replay'[r], Len(sent'[r]))
        /\ Run(queue'[r], Len(sent'[r]) + Len(replay'[r]))
    BY <2>1, <2>3 DEF Position
  <2>5. at'[r] = "none" => at[r] = "none" /\ (ended'[r] => ended[r])
    <3>1. at'[r] = "none" => at[r] = "none" /\ r \notin subs
      BY <2>1, <2>2
    <3>2. r \notin subs => (ended'[r] => ended[r])
      BY <2>1, Zenon
    <3> QED
      BY <3>1, <3>2
  <2>6. at'[r] \notin {"none", "closed"} => at[r] \notin {"none", "closed"}
    BY <2>1
  <2>7. at'[r] = "asleep" => at[r] = "asleep"
    BY <2>1
  <2> QED
    BY <1>1, <2>1, <2>3, <2>4, <2>5, <2>6, <2>7 DEF Position
<1>3. TypeOK'
  BY <1>0, <1>1 DEF TypeOK, Finish, Woken
<1>4. AbandonedIsTimed' /\ TimerMeansNobody'
  BY <1>1 DEF AbandonedIsTimed, TimerMeansNobody, Finish
<1> QED
  BY <1>2, <1>3, <1>4 DEF IInv

(* A request that joins takes the whole log as its replay.                  *)
LEMMA AttachIInv == \A r \in Readers : IInv /\ Attach(r) => IInv'
<1> SUFFICES ASSUME NEW r \in Readers, IInv, Attach(r) PROVE IInv'
  OBVIOUS
<1>0. TypeOK /\ Positions /\ AbandonedIsTimed /\ TimerMeansNobody
  BY DEF IInv
<1>1. /\ Upto(pumped) \in Seq(Nat) /\ Len(Upto(pumped)) = pumped
      /\ Run(Upto(pumped), 0) /\ (pumped = 0 <=> Upto(pumped) = <<>>)
  BY <1>0, RunUpto DEF TypeOK
<1>2. TypeOK'
  BY <1>0, <1>1 DEF TypeOK, Attach, finished
<1>3. Positions'
  <2> SUFFICES ASSUME NEW q \in Readers PROVE Position(q)'
    BY DEF Positions
  <2>0. Position(q) /\ Position(r)
    BY <1>0 DEF Positions
  <2>1. CASE q # r
    BY <1>0, <2>0, <2>1, PositionKept DEF TypeOK, Attach
  <2>2. CASE q = r
    <3>1. /\ sent'[r] = <<>> /\ queue'[r] = <<>> /\ replay'[r] = Upto(pumped)
          /\ pumped' = pumped /\ at'[r] \in {"looking", "replaying"}
          /\ (ended'[r] => gone'[r] \/ finished')
      BY <1>0, <2>0 DEF TypeOK, Position, Attach, finished
    <3>2. Run(sent'[r], 0) /\ Run(replay'[r], Len(sent'[r]))
          /\ Run(queue'[r], Len(sent'[r]) + Len(replay'[r]))
      BY <1>1, <3>1, RunEmpty
    <3>3. Len(sent'[r]) + Len(replay'[r]) + Len(queue'[r]) = pumped'
      <4>1. pumped \in Nat
        BY <1>0 DEF TypeOK
      <4> QED
        BY <4>1, <1>1, <3>1, RunEmpty
    <3> QED
      BY <2>2, <3>1, <3>2, <3>3 DEF Position
  <2> QED
    BY <2>1, <2>2
<1>4. AbandonedIsTimed' /\ TimerMeansNobody'
  BY DEF AbandonedIsTimed, TimerMeansNobody, Attach
<1> QED
  BY <1>2, <1>3, <1>4 DEF IInv

(* Giving out the first of the replay moves the reader on by one.           *)
LEMMA ReplayIInv == \A r \in Readers : IInv /\ Replay(r) => IInv'
<1> SUFFICES ASSUME NEW r \in Readers, IInv, Replay(r) PROVE IInv'
  OBVIOUS
<1>0. TypeOK /\ Positions /\ AbandonedIsTimed /\ TimerMeansNobody
  BY DEF IInv
<1>1. /\ sent[r] \in Seq(Nat) /\ replay[r] \in Seq(Nat) /\ queue[r] \in Seq(Nat)
      /\ replay[r] # <<>> /\ pumped \in Nat /\ Position(r)
  BY <1>0 DEF TypeOK, Replay, Positions
<1>2. Len(sent[r]) \in Nat /\ Len(queue[r]) \in Nat
  BY <1>1, LenProperties
<1>3. /\ Head(replay[r]) = Len(sent[r]) + 1 /\ Tail(replay[r]) \in Seq(Nat)
      /\ Run(Tail(replay[r]), Len(sent[r]) + 1)
      /\ Len(Tail(replay[r])) = Len(replay[r]) - 1 /\ Len(replay[r]) \in Nat \ {0}
      /\ (Len(replay[r]) = 1 <=> Tail(replay[r]) = <<>>)
  BY <1>1, <1>2, RunTail DEF Position
<1>4. /\ sent'[r] = Append(sent[r], Head(replay[r])) /\ sent'[r] \in Seq(Nat)
      /\ Run(sent'[r], 0) /\ Len(sent'[r]) = Len(sent[r]) + 1
  <2>1. sent'[r] = Append(sent[r], 0 + Len(sent[r]) + 1)
        /\ Append(sent[r], 0 + Len(sent[r]) + 1) = Append(sent[r], Head(replay[r]))
    BY <1>0, <1>2, <1>3 DEF TypeOK, Replay
  <2>2. Run(sent[r], 0) /\ 0 \in Nat
    BY <1>1 DEF Position
  <2> QED
    BY <1>1, <2>1, <2>2, RunAppend
<1>5. /\ replay'[r] = Tail(replay[r]) /\ queue'[r] = queue[r] /\ pumped' = pumped
      /\ ended'[r] = ended[r] /\ gone'[r] = gone[r] /\ end' = end
      /\ at[r] = "replaying" /\ at'[r] \in {"looking", "replaying"}
      /\ (at'[r] = "replaying" <=> replay'[r] # <<>>)
  BY <1>0, <1>3 DEF TypeOK, Replay
<1>6. \A q \in Readers : q # r =>
        /\ at'[q] = at[q] /\ sent'[q] = sent[q] /\ replay'[q] = replay[q]
        /\ queue'[q] = queue[q] /\ ended'[q] = ended[q] /\ gone'[q] = gone[q]
  BY <1>0 DEF TypeOK, Replay
<1>7. TypeOK'
  <2>1. /\ sent' \in [Readers -> Seq(Nat)] /\ replay' \in [Readers -> Seq(Nat)]
        /\ at' \in [Readers -> {"none", "replaying", "looking", "asleep", "closed"}]
    <3>1. sent' = [sent EXCEPT ![r] = sent'[r]] /\ replay' = [replay EXCEPT ![r] = replay'[r]]
          /\ at' = [at EXCEPT ![r] = at'[r]]
      BY <1>0 DEF TypeOK, Replay
    <3> QED
      <4>1. sent'[r] \in Seq(Nat) /\ replay'[r] \in Seq(Nat)
        BY <1>3, <1>4, <1>5, Zenon
      <4> QED
        BY <1>0, <1>5, <3>1, <4>1 DEF TypeOK
  <2>2. \A q \in Readers : at'[q] = "replaying" <=> replay'[q] # <<>>
    BY <1>0, <1>5, <1>6 DEF TypeOK
  <2>3. subs' = {q \in Readers : ~finished' /\ at'[q] \notin {"none", "closed"}}
    BY <1>0, <1>5, <1>6 DEF TypeOK, Replay, finished
  <2> QED
    BY <1>0, <2>1, <2>2, <2>3 DEF TypeOK, Replay
<1>8. Positions'
  <2> SUFFICES ASSUME NEW q \in Readers PROVE Position(q)'
    BY DEF Positions
  <2>1. CASE q # r
    BY <1>0, <1>5, <1>6, <2>1, PositionKept DEF Positions
  <2>2. CASE q = r
    <3>1. Run(replay'[r], Len(sent'[r]))
      BY <1>3, <1>4, <1>5
    <3>2. Len(sent'[r]) + Len(replay'[r]) = Len(sent[r]) + Len(replay[r])
      <4>1. \A i \in Nat : \A j \in Nat \ {0} : (i + 1) + (j - 1) = i + j
        OBVIOUS
      <4>2. Len(sent'[r]) = Len(sent[r]) + 1 /\ Len(replay'[r]) = Len(replay[r]) - 1
        BY <1>3, <1>4, <1>5, Zenon
      <4> QED
        BY <1>2, <1>3, <4>1, <4>2, Zenon
    <3>3. Run(queue'[r], Len(sent'[r]) + Len(replay'[r]))
      BY <1>1, <1>5, <3>2 DEF Position
    <3>4. Len(sent'[r]) + Len(replay'[r]) + Len(queue'[r]) = pumped'
      BY <1>1, <1>5, <3>2 DEF Position
    <3>5. ended'[r] => gone'[r] \/ finished'
      BY <1>1, <1>5 DEF Position, finished
    <3> QED
      BY <1>4, <1>5, <2>2, <3>1, <3>3, <3>4, <3>5 DEF Position
  <2> QED
    BY <2>1, <2>2
<1>9. AbandonedIsTimed' /\ TimerMeansNobody'
  BY <1>0 DEF AbandonedIsTimed, TimerMeansNobody, Replay, finished
<1> QED
  BY <1>7, <1>8, <1>9 DEF IInv

(* So does giving out the first of the queue.                               *)
LEMMA DeliverIInv == \A r \in Readers : IInv /\ Deliver(r) => IInv'
<1> SUFFICES ASSUME NEW r \in Readers, IInv, Deliver(r) PROVE IInv'
  OBVIOUS
<1>0. TypeOK /\ Positions /\ AbandonedIsTimed /\ TimerMeansNobody
  BY DEF IInv
<1>1. /\ sent[r] \in Seq(Nat) /\ queue[r] \in Seq(Nat) /\ queue[r] # <<>>
      /\ replay[r] = <<>> /\ pumped \in Nat /\ Position(r)
  BY <1>0 DEF TypeOK, Deliver, Positions
<1>2. Len(sent[r]) \in Nat /\ Len(replay[r]) = 0
  BY <1>1, LenProperties, RunEmpty
<1>3. /\ Head(queue[r]) = Len(sent[r]) + 1 /\ Tail(queue[r]) \in Seq(Nat)
      /\ Run(Tail(queue[r]), Len(sent[r]) + 1)
      /\ Len(Tail(queue[r])) = Len(queue[r]) - 1 /\ Len(queue[r]) \in Nat \ {0}
  <2>1. Run(queue[r], Len(sent[r]))
    <3>1. Len(sent[r]) + Len(replay[r]) = Len(sent[r])
      BY <1>2
    <3> QED
      BY <1>1, <3>1 DEF Position
  <2> QED
    BY <1>1, <1>2, <2>1, RunTail
<1>4. /\ sent'[r] = Append(sent[r], Head(queue[r])) /\ sent'[r] \in Seq(Nat)
      /\ Run(sent'[r], 0) /\ Len(sent'[r]) = Len(sent[r]) + 1
  <2>1. sent'[r] = Append(sent[r], 0 + Len(sent[r]) + 1)
        /\ Append(sent[r], 0 + Len(sent[r]) + 1) = Append(sent[r], Head(queue[r]))
    BY <1>0, <1>2, <1>3 DEF TypeOK, Deliver
  <2>2. Run(sent[r], 0) /\ 0 \in Nat
    BY <1>1 DEF Position
  <2> QED
    BY <1>1, <2>1, <2>2, RunAppend
<1>5. /\ replay'[r] = <<>> /\ queue'[r] = Tail(queue[r]) /\ pumped' = pumped
      /\ ended'[r] = ended[r] /\ gone'[r] = gone[r] /\ end' = end
      /\ at[r] = "looking" /\ at'[r] = "looking"
  BY <1>0, <1>1 DEF TypeOK, Deliver
<1>6. \A q \in Readers : q # r =>
        /\ at'[q] = at[q] /\ sent'[q] = sent[q] /\ replay'[q] = replay[q]
        /\ queue'[q] = queue[q] /\ ended'[q] = ended[q] /\ gone'[q] = gone[q]
  BY <1>0 DEF TypeOK, Deliver
<1>7. TypeOK'
  <2>1. sent' \in [Readers -> Seq(Nat)] /\ queue' \in [Readers -> Seq(Nat)]
    <3>1. sent' = [sent EXCEPT ![r] = sent'[r]] /\ queue' = [queue EXCEPT ![r] = queue'[r]]
      BY <1>0 DEF TypeOK, Deliver
    <3> QED
      <4>1. sent'[r] \in Seq(Nat) /\ queue'[r] \in Seq(Nat)
        BY <1>3, <1>4, <1>5, Zenon
      <4> QED
        BY <1>0, <3>1, <4>1 DEF TypeOK
  <2> QED
    BY <1>0, <2>1 DEF TypeOK, Deliver, finished
<1>8. Positions'
  <2> SUFFICES ASSUME NEW q \in Readers PROVE Position(q)'
    BY DEF Positions
  <2>1. CASE q # r
    BY <1>0, <1>5, <1>6, <2>1, PositionKept DEF Positions
  <2>2. CASE q = r
    <3>1. Run(replay'[r], Len(sent'[r])) /\ Len(replay'[r]) = 0
      BY <1>5, RunEmpty
    <3>2. Len(sent'[r]) + Len(replay'[r]) = Len(sent[r]) + 1
      BY <1>2, <1>4, <3>1
    <3>3. Run(queue'[r], Len(sent'[r]) + Len(replay'[r]))
      BY <1>3, <1>5, <3>2
    <3>4. Len(sent'[r]) + Len(replay'[r]) + Len(queue'[r]) = pumped'
      <4>1. Len(sent[r]) + Len(replay[r]) + Len(queue[r]) = pumped
        BY <1>1, <1>5 DEF Position
      <4>2. Len(queue'[r]) = Len(queue[r]) - 1
        BY <1>3, <1>5
      <4>3. \A i \in Nat : \A j \in Nat \ {0} : (i + 1) + (j - 1) = (i + 0) + j
        OBVIOUS
      <4>4. (Len(sent[r]) + 1) + (Len(queue[r]) - 1) = pumped
        BY <1>2, <1>3, <4>1, <4>3, Zenon
      <4> QED
        BY <1>5, <3>2, <4>2, <4>4, Zenon
    <3>5. ended'[r] => gone'[r] \/ finished'
      BY <1>1, <1>5 DEF Position, finished
    <3> QED
      BY <1>4, <1>5, <2>2, <3>1, <3>3, <3>4, <3>5 DEF Position
  <2> QED
    BY <2>1, <2>2
<1>9. AbandonedIsTimed' /\ TimerMeansNobody'
  BY <1>0 DEF AbandonedIsTimed, TimerMeansNobody, Deliver, finished
<1> QED
  BY <1>7, <1>8, <1>9 DEF IInv

(* A reader falls asleep only with nothing in its queue.                    *)
LEMMA SleepIInv == \A r \in Readers : IInv /\ Sleep(r) => IInv'
<1> SUFFICES ASSUME NEW r \in Readers, IInv, Sleep(r) PROVE IInv'
  OBVIOUS
<1>0. TypeOK /\ Positions /\ AbandonedIsTimed /\ TimerMeansNobody
  BY DEF IInv
<1>1. TypeOK'
  BY <1>0 DEF TypeOK, Sleep, finished
<1>2. Positions'
  <2> SUFFICES ASSUME NEW q \in Readers PROVE Position(q)'
    BY DEF Positions
  <2>0. Position(q)
    BY <1>0 DEF Positions
  <2>1. CASE q # r
    BY <1>0, <2>0, <2>1, PositionKept DEF TypeOK, Sleep
  <2>2. CASE q = r
    <3>1. /\ at[q] = "looking" /\ at'[q] = "asleep" /\ queue[q] = <<>>
      BY <1>0, <2>2 DEF TypeOK, Sleep
    <3>2. Len(sent[q]) + Len(replay[q]) + Len(queue[q]) = pumped
      BY <2>0, <3>1 DEF Position
    <3> QED
      BY <2>0, <3>1, <3>2 DEF Position, Sleep, Run, finished
  <2> QED
    BY <2>1, <2>2
<1>3. AbandonedIsTimed' /\ TimerMeansNobody'
  BY <1>0 DEF AbandonedIsTimed, TimerMeansNobody, Sleep, finished
<1> QED
  BY <1>1, <1>2, <1>3 DEF IInv

(* The last to leave a running task puts it on the clock.                   *)
LEMMA CloseIInv == \A r \in Readers : IInv /\ Close(r) => IInv'
<1> SUFFICES ASSUME NEW r \in Readers, IInv, Close(r) PROVE IInv'
  OBVIOUS
<1>0. TypeOK /\ Positions /\ AbandonedIsTimed /\ TimerMeansNobody
  BY DEF IInv
<1>1. TypeOK'
  BY <1>0 DEF TypeOK, Close, finished
<1>2. Positions'
  <2> SUFFICES ASSUME NEW q \in Readers PROVE Position(q)'
    BY DEF Positions
  <2>0. Position(q)
    BY <1>0 DEF Positions
  <2>1. CASE q # r
    BY <1>0, <2>0, <2>1, PositionKept DEF TypeOK, Close
  <2>2. CASE q = r
    <3>1. at'[q] = "closed" /\ ended[q]
      BY <1>0, <2>2 DEF TypeOK, Close
    <3>2. gone[q] \/ finished
      BY <2>0, <3>1 DEF Position
    <3> QED
      BY <2>0, <3>1, <3>2 DEF Position, Close, Run, finished
  <2> QED
    BY <2>1, <2>2
<1>3. AbandonedIsTimed' /\ TimerMeansNobody'
  <2>1. end' = end /\ aborted' = aborted /\ subs' = subs \ {r}
    BY DEF Close
  <2>2. (timer' <=> timer \/ (subs' = {} /\ ~finished'))
        /\ (left' <=> left \/ (subs' = {} /\ ~finished'))
    <3>1. finished' <=> finished
      BY <2>1 DEF finished
    <3>2. timer' = (timer \/ (subs' = {} /\ ~finished))
          /\ left' = (left \/ (subs' = {} /\ ~finished))
      BY DEF Close
    <3> QED
      BY <3>1, <3>2, Zenon
  <2>3. timer => subs' = {} /\ ~finished'
    BY <1>0, <2>1 DEF TimerMeansNobody, finished
  <2>4. left => timer \/ aborted' \/ finished'
    BY <1>0, <2>1 DEF AbandonedIsTimed, finished
  <2> QED
    BY <2>2, <2>3, <2>4 DEF AbandonedIsTimed, TimerMeansNobody
<1> QED
  BY <1>1, <1>2, <1>3 DEF IInv

(* A client that goes wakes its reader and leaves the rest alone.           *)
LEMMA GoneIInv == \A r \in Readers : IInv /\ Gone(r) => IInv'
<1> SUFFICES ASSUME NEW r \in Readers, IInv, Gone(r) PROVE IInv'
  OBVIOUS
<1>0. TypeOK /\ Positions /\ AbandonedIsTimed /\ TimerMeansNobody
  BY DEF IInv
<1>1. TypeOK'
  BY <1>0 DEF TypeOK, Gone, Woken, finished
<1>2. Positions'
  <2> SUFFICES ASSUME NEW q \in Readers PROVE Position(q)'
    BY DEF Positions
  <2>0. Position(q)
    BY <1>0 DEF Positions
  <2>1. CASE q # r
    BY <1>0, <2>0, <2>1, PositionKept DEF TypeOK, Gone, Woken
  <2>2. CASE q = r
    <3>1. /\ at[q] \notin {"none", "closed"} /\ at'[q] \notin {"none", "closed", "asleep"}
          /\ gone'[q] = TRUE
      BY <1>0, <2>2 DEF TypeOK, Gone, Woken
    <3> QED
      BY <2>0, <3>1 DEF Position, Gone, Run, finished
  <2> QED
    BY <2>1, <2>2
<1>3. AbandonedIsTimed' /\ TimerMeansNobody'
  BY <1>0 DEF AbandonedIsTimed, TimerMeansNobody, Gone, finished
<1> QED
  BY <1>1, <1>2, <1>3 DEF IInv

(* The timer, a claim, a cancel and the shutdown touch no reader.           *)
LEMMA ClockIInv ==
  ASSUME IInv, GraceFires \/ Steer \/ HttpCancel \/ Shutdown PROVE IInv'
<1>0. TypeOK /\ Positions /\ AbandonedIsTimed /\ TimerMeansNobody
  BY DEF IInv
<1>1. UNCHANGED <<pumped, end, subs, reading, gone>>
  BY DEF GraceFires, Steer, HttpCancel, Shutdown
<1>2. Positions'
  BY <1>0, <1>1, PositionKept DEF Positions, reading
<1>3. TypeOK'
  <2>1. /\ timer' \in BOOLEAN /\ aborted' \in BOOLEAN /\ stopped' \in BOOLEAN
        /\ left' \in BOOLEAN
    BY <1>0 DEF TypeOK, GraceFires, Steer, HttpCancel, Shutdown
  <2> QED
    BY <1>0, <1>1, <2>1 DEF TypeOK, reading, finished
<1>4. CASE GraceFires
  <2>1. left' = left /\ timer /\ ~timer' /\ end' = end
        /\ aborted' = (aborted \/ (subs = {} /\ ~finished))
    BY <1>4 DEF GraceFires
  <2>2. aborted'
    BY <1>0, <2>1, Zenon DEF TimerMeansNobody
  <2>3. AbandonedIsTimed' /\ TimerMeansNobody'
    BY <2>1, <2>2 DEF AbandonedIsTimed, TimerMeansNobody
  <2> QED
    BY <1>2, <1>3, <2>3 DEF IInv
<1>5. CASE Steer
  <2>1. AbandonedIsTimed' /\ TimerMeansNobody'
    BY <1>5 DEF Steer, AbandonedIsTimed, TimerMeansNobody
  <2> QED
    BY <1>2, <1>3, <2>1 DEF IInv
<1>6. CASE HttpCancel
  <2>1. AbandonedIsTimed' /\ TimerMeansNobody'
    BY <1>0, <1>6 DEF HttpCancel, AbandonedIsTimed, TimerMeansNobody, finished
  <2> QED
    BY <1>2, <1>3, <2>1 DEF IInv
<1>7. CASE Shutdown
  <2>1. ~timer' /\ end' = end /\ aborted' = (aborted \/ ~finished)
    BY <1>7 DEF Shutdown
  <2>2. aborted' \/ finished'
    <3>1. finished' <=> finished
      BY <2>1 DEF finished
    <3> QED
      BY <2>1, <3>1, Zenon
  <2>3. AbandonedIsTimed' /\ TimerMeansNobody'
    BY <2>1, <2>2 DEF AbandonedIsTimed, TimerMeansNobody
  <2> QED
    BY <1>2, <1>3, <2>3 DEF IInv
<1> QED
  BY <1>4, <1>5, <1>6, <1>7

(* A step that changes nothing keeps the invariant.                         *)
LEMMA StutterIInv == IInv /\ UNCHANGED vars => IInv'
<1> SUFFICES ASSUME IInv, UNCHANGED vars PROVE IInv'
  OBVIOUS
<1>1. Positions'
  BY PositionKept DEF IInv, Positions, vars, reading
<1>2. TypeOK' /\ AbandonedIsTimed' /\ TimerMeansNobody'
  BY DEF IInv, TypeOK, AbandonedIsTimed, TimerMeansNobody, vars, reading, finished
<1> QED
  BY <1>1, <1>2 DEF IInv

(* Every step keeps the invariant.                                          *)
LEMMA StepIInv == IInv /\ [Next]_vars => IInv'
<1> SUFFICES ASSUME IInv, [Next]_vars PROVE IInv'
  OBVIOUS
<1>1. CASE Chunk
  BY <1>1, ChunkIInv
<1>2. CASE Finish
  BY <1>2, FinishIInv
<1>3. CASE GraceFires \/ Steer \/ HttpCancel \/ Shutdown
  BY <1>3, ClockIInv
<1>4. ASSUME NEW r \in Readers, Attach(r) \/ Read(r) \/ Gone(r) PROVE IInv'
  BY <1>4, AttachIInv, ReplayIInv, DeliverIInv, SleepIInv, CloseIInv, GoneIInv DEF Read
<1>5. CASE UNCHANGED vars
  BY <1>5, StutterIInv
<1> QED
  BY <1>1, <1>2, <1>3, <1>4, <1>5 DEF Next

-----------------------------------------------------------------------------
(* Theorems                                                                *)

(* Every reachable state satisfies the invariant: each reader stands at a   *)
(* place in the log from which replay and queue lead to its end.            *)
THEOREM Invariance == Spec => []IInv
<1>1. Init => IInv
  BY InitIInv
<1>2. IInv /\ [Next]_vars => IInv'
  BY StepIInv
<1> QED
  BY <1>1, <1>2, PTL DEF Spec

(* Types, and the subscribers are the readers listening to an open task.    *)
THEOREM Typed == Spec => []TypeOK
<1>1. IInv => TypeOK
  BY DEF IInv
<1> QED
  BY <1>1, Invariance, PTL

(* A task everyone left is on the clock, cancelled or over: LiveTaskIndex   *)
(* lets none run on unheard.                                                *)
THEOREM Abandoned == Spec => []AbandonedIsTimed
<1>1. IInv => AbandonedIsTimed
  BY DEF IInv
<1> QED
  BY <1>1, Invariance, PTL

(* An armed grace timer is never that of a task somebody listens to.        *)
THEOREM TimerOnlyAlone == Spec => []TimerMeansNobody
<1>1. IInv => TimerMeansNobody
  BY DEF IInv
<1> QED
  BY <1>1, Invariance, PTL

-----------------------------------------------------------------------------
(* LiveTask implements Feed                                                *)

(* What Feed sees of a reader.                                              *)
Seen(r) == IF at[r] = "none" THEN "away"
           ELSE IF at[r] # "closed" THEN "listening"
           ELSE IF gone[r] THEN "left" ELSE end

(* The state of the readers is Seen of each.                                *)
LEMMA ReaderStateSeen == ReaderState = [r \in Readers |-> Seen(r)]
BY DEF ReaderState, Seen

(* At the start nobody has heard anything.                                  *)
LEMMA InitFeed == Init => TheFeed!Init
BY DEF Init, TheFeed!Init, ReaderState

(* A step that gives nobody anything and moves no reader past a point that  *)
(* Feed knows is no step of it.                                             *)
LEMMA QuietFeed ==
  ASSUME pumped' = pumped, end' = end, sent' = sent,
         \A r \in Readers : Seen(r)' = Seen(r)
  PROVE  UNCHANGED TheFeed!feed
<1>1. ReaderState' = ReaderState
  BY DEF ReaderState, Seen
<1> QED
  BY <1>1 DEF TheFeed!feed

(* Giving a reader the next of the log is Hear.                             *)
LEMMA HearFeed ==
  ASSUME NEW r \in Readers, IInv,
         at[r] \in {"replaying", "looking"}, pumped' = pumped, end' = end,
         Len(sent[r]) < pumped,
         sent' = [sent EXCEPT ![r] = Append(@, Len(sent[r]) + 1)],
         \A q \in Readers : Seen(q)' = Seen(q)
  PROVE  TheFeed!Hear(r)
<1>1. ReaderState' = ReaderState
  BY DEF ReaderState, Seen
<1>2. ReaderState[r] = "listening"
  BY DEF ReaderState
<1>3. sent' = [sent EXCEPT ![r] = Append(@, Len(@) + 1)]
  BY DEF IInv, TypeOK
<1> QED
  BY <1>1, <1>2, <1>3 DEF TheFeed!Hear

(* A chunk is an entry of the log; who listens still listens.               *)
LEMMA ChunkFeed == IInv /\ Chunk => TheFeed!Next
<1> SUFFICES ASSUME IInv, Chunk PROVE TheFeed!Next
  OBVIOUS
<1>1. end = "open" /\ end' = end /\ pumped' = pumped + 1 /\ sent' = sent
  BY DEF Chunk, finished
<1>2. ReaderState' = ReaderState
  <2>1. \A r \in Readers : Seen(r)' = Seen(r)
    BY DEF Chunk, Woken, Seen
  <2> QED
    BY <2>1 DEF ReaderState, Seen
<1>3. TheFeed!Grow
  BY <1>1, <1>2 DEF TheFeed!Grow
<1> QED
  BY <1>3 DEF TheFeed!Next

(* The end of the stream is the end of the log: no one who was let go of    *)
(* before it is told of it, only those whose client has left.               *)
LEMMA FinishFeed == IInv /\ Finish => TheFeed!Next
<1> SUFFICES ASSUME IInv, Finish PROVE TheFeed!Next
  OBVIOUS
<1>1. /\ end = "open" /\ end' \in {"over", "broken"} /\ pumped' = pumped
      /\ sent' = sent /\ gone' = gone /\ ~finished
  BY DEF Finish, finished
<1>2. ReaderState' = ReaderState
  <2>1. ASSUME NEW r \in Readers PROVE Seen(r)' = Seen(r)
    <3>1. at[r] = "closed" => gone[r]
      BY <1>1 DEF IInv, Positions, Position
    <3>2. at'[r] = "none" <=> at[r] = "none"
      BY DEF Finish, Woken
    <3>3. at'[r] = "closed" <=> at[r] = "closed"
      BY DEF Finish, Woken
    <3> QED
      BY <1>1, <3>1, <3>2, <3>3 DEF Seen
  <2> QED
    BY <2>1 DEF ReaderState, Seen
<1>3. TheFeed!Finish
  BY <1>1, <1>2 DEF TheFeed!Finish
<1> QED
  BY <1>3 DEF TheFeed!Next

(* A request that attaches joins.                                           *)
LEMMA AttachFeed == \A r \in Readers : IInv /\ Attach(r) => TheFeed!Next
<1> SUFFICES ASSUME NEW r \in Readers, IInv, Attach(r) PROVE TheFeed!Next
  OBVIOUS
<1>1. /\ end = "open" /\ end' = end /\ pumped' = pumped /\ sent' = sent
  BY DEF Attach, finished
<1>2. ReaderState[r] = "away" /\ ReaderState' = [ReaderState EXCEPT ![r] = "listening"]
  BY DEF IInv, TypeOK, Attach, ReaderState
<1>3. TheFeed!Join(r)
  BY <1>1, <1>2 DEF TheFeed!Join
<1> QED
  BY <1>3 DEF TheFeed!Next

(* Whether from the replay or from the queue, a reader hears the next.      *)
LEMMA ReplayFeed == \A r \in Readers : IInv /\ Replay(r) => TheFeed!Next
<1> SUFFICES ASSUME NEW r \in Readers, IInv, Replay(r) PROVE TheFeed!Next
  OBVIOUS
<1>1. /\ sent[r] \in Seq(Nat) /\ replay[r] \in Seq(Nat) /\ queue[r] \in Seq(Nat)
      /\ replay[r] # <<>> /\ Position(r) /\ at[r] = "replaying"
  BY DEF IInv, TypeOK, Replay, Positions
<1>2. Len(sent[r]) \in Nat /\ Len(queue[r]) \in Nat /\ Len(replay[r]) \in Nat \ {0}
  BY <1>1, LenProperties, EmptySeq
<1>3. Head(replay[r]) = Len(sent[r]) + 1
  BY <1>1, <1>2, RunTail DEF Position
<1>4. Len(sent[r]) < pumped
  <2>1. Len(sent[r]) + Len(replay[r]) + Len(queue[r]) = pumped
    BY <1>1 DEF Position
  <2>2. \A i, k \in Nat : \A j \in Nat \ {0} : i < i + j + k
    OBVIOUS
  <2> QED
    BY <1>2, <2>1, <2>2, Zenon
<1>5. \A q \in Readers : Seen(q)' = Seen(q)
  BY DEF IInv, TypeOK, Replay, Seen
<1>6. sent' = [sent EXCEPT ![r] = Append(@, Len(sent[r]) + 1)]
  BY <1>3 DEF Replay
<1>7. TheFeed!Hear(r)
  BY <1>1, <1>4, <1>5, <1>6, HearFeed DEF Replay
<1> QED
  BY <1>7 DEF TheFeed!Next

(* The same from the queue.                                                 *)
LEMMA DeliverFeed == \A r \in Readers : IInv /\ Deliver(r) => TheFeed!Next
<1> SUFFICES ASSUME NEW r \in Readers, IInv, Deliver(r) PROVE TheFeed!Next
  OBVIOUS
<1>1. /\ sent[r] \in Seq(Nat) /\ queue[r] \in Seq(Nat) /\ queue[r] # <<>>
      /\ replay[r] = <<>> /\ Position(r) /\ at[r] = "looking"
  BY DEF IInv, TypeOK, Deliver, Positions
<1>2. Len(sent[r]) \in Nat /\ Len(queue[r]) \in Nat \ {0} /\ Len(replay[r]) = 0
  BY <1>1, LenProperties, EmptySeq, RunEmpty
<1>0. Len(sent[r]) + Len(replay[r]) = Len(sent[r])
  BY <1>2
<1>3. Head(queue[r]) = Len(sent[r]) + 1
  <2>1. Run(queue[r], Len(sent[r]))
    BY <1>0, <1>1 DEF Position
  <2> QED
    BY <1>1, <1>2, <2>1, RunTail
<1>4. Len(sent[r]) < pumped
  <2>1. Len(sent[r]) + Len(queue[r]) = pumped
    BY <1>0, <1>1 DEF Position
  <2>2. \A i \in Nat : \A j \in Nat \ {0} : i < i + j
    OBVIOUS
  <2> QED
    BY <1>2, <2>1, <2>2, Zenon
<1>5. \A q \in Readers : Seen(q)' = Seen(q)
  BY DEF Deliver, Seen
<1>6. sent' = [sent EXCEPT ![r] = Append(@, Len(sent[r]) + 1)]
  BY <1>3 DEF Deliver
<1>7. TheFeed!Hear(r)
  BY <1>1, <1>4, <1>5, <1>6, HearFeed DEF Deliver
<1> QED
  BY <1>7 DEF TheFeed!Next

(* A reader that is let go of has left, or has heard everything of a log    *)
(* that is over.                                                            *)
LEMMA CloseFeed == \A r \in Readers : IInv /\ Close(r) => TheFeed!Next
<1> SUFFICES ASSUME NEW r \in Readers, IInv, Close(r) PROVE TheFeed!Next
  OBVIOUS
<1>1. /\ at[r] = "looking" /\ queue[r] = <<>> /\ replay[r] = <<>> /\ ended[r]
      /\ sent[r] \in Seq(Nat) /\ Position(r)
      /\ at \in [Readers -> {"none", "replaying", "looking", "asleep", "closed"}]
  BY DEF IInv, TypeOK, Close, Positions
<1>2. /\ end' = end /\ pumped' = pumped /\ sent' = sent /\ gone' = gone
      /\ at' = [at EXCEPT ![r] = "closed"]
  BY DEF Close
<1>3. ReaderState[r] = "listening"
  BY <1>1 DEF ReaderState
<1>4. CASE gone[r]
  <2>1. ReaderState' = [ReaderState EXCEPT ![r] = "left"]
    BY <1>1, <1>2, <1>4 DEF ReaderState
  <2>2. TheFeed!Leave(r)
    BY <1>2, <1>3, <2>1 DEF TheFeed!Leave
  <2> QED
    BY <2>2 DEF TheFeed!Next
<1>5. CASE ~gone[r]
  <2>1. ReaderState' = [ReaderState EXCEPT ![r] = end]
    BY <1>1, <1>2, <1>5 DEF ReaderState
  <2>2. end # "open"
    BY <1>1, <1>5 DEF Position, finished
  <2>3. Len(sent[r]) = pumped
    <3>1. Len(sent[r]) + 0 + 0 = pumped
      BY <1>1, RunEmpty DEF Position
    <3>2. Len(sent[r]) \in Nat /\ \A i \in Nat : i + 0 + 0 = i
      BY <1>1, LenProperties
    <3> QED
      BY <3>1, <3>2, Zenon
  <2>4. TheFeed!Told(r)
    BY <1>2, <1>3, <2>1, <2>2, <2>3 DEF TheFeed!Told
  <2> QED
    BY <2>4 DEF TheFeed!Next
<1> QED
  BY <1>4, <1>5

(* Every step of the task is a step of Feed or none.                        *)
LEMMA StepFeed == IInv /\ [Next]_vars => [TheFeed!Next]_(TheFeed!feed)
<1> SUFFICES ASSUME IInv, [Next]_vars PROVE [TheFeed!Next]_(TheFeed!feed)
  OBVIOUS
<1>1. CASE Chunk
  BY <1>1, ChunkFeed
<1>2. CASE Finish
  BY <1>2, FinishFeed
<1>3. CASE GraceFires \/ Steer \/ HttpCancel \/ Shutdown
  <2>1. UNCHANGED <<pumped, end, sent, at, gone>>
    BY <1>3 DEF GraceFires, Steer, HttpCancel, Shutdown, reading
  <2> QED
    BY <2>1, QuietFeed DEF Seen
<1>4. ASSUME NEW r \in Readers, Attach(r) PROVE [TheFeed!Next]_(TheFeed!feed)
  BY <1>4, AttachFeed
<1>5. ASSUME NEW r \in Readers, Read(r) PROVE [TheFeed!Next]_(TheFeed!feed)
  <2>1. CASE Sleep(r)
    <3>1. UNCHANGED <<pumped, end, sent, gone>> /\ \A q \in Readers : Seen(q)' = Seen(q)
      BY <2>1 DEF IInv, TypeOK, Sleep, Seen
    <3> QED
      BY <3>1, QuietFeed
  <2> QED
    BY <1>5, <2>1, ReplayFeed, DeliverFeed, CloseFeed DEF Read
<1>6. ASSUME NEW r \in Readers, Gone(r) PROVE [TheFeed!Next]_(TheFeed!feed)
  <2>1. UNCHANGED <<pumped, end, sent>> /\ \A q \in Readers : Seen(q)' = Seen(q)
    BY <1>6 DEF IInv, TypeOK, Gone, Woken, Seen
  <2> QED
    BY <2>1, QuietFeed
<1>7. CASE UNCHANGED vars
  <2>1. UNCHANGED <<pumped, end, sent, at, gone>>
    BY <1>7 DEF vars, reading
  <2> QED
    BY <2>1, QuietFeed DEF Seen
<1> QED
  BY <1>1, <1>2, <1>3, <1>4, <1>5, <1>6, <1>7 DEF Next

(* LiveTask implements Feed: whenever a request attaches, and whatever the  *)
(* other requests, the timer and the shutdown do, it is given the chunks    *)
(* from the first, in order, without a gap or a repeat, and is told the end *)
(* only when it was given them all.                                         *)
THEOREM Refinement == Spec => ImplementsFeed
<1>1. Init => TheFeed!Init
  BY InitFeed
<1>2. IInv /\ [Next]_vars => [TheFeed!Next]_(TheFeed!feed)
  BY StepFeed
<1> QED
  BY <1>1, <1>2, Invariance, PTL DEF Spec, ImplementsFeed, TheFeed!Spec
=============================================================================
