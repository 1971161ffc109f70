-------------------------- MODULE DashboardProofs --------------------------
(***************************************************************************)
(* Proofs about Dashboard, for any number of sockets, events, losses and    *)
(* mounts.                                                                  *)
(*                                                                         *)
(* The argument: in what is under way to the page every event is one the    *)
(* fold could apply next, or comes behind its predecessor (Gapless); and an *)
(* attached socket carries every event between the fold and the log         *)
(* (Covers).  Neither says through which socket the fold got where it is,   *)
(* so that several, overlapping, do no harm.                                *)
(***************************************************************************)
EXTENDS Dashboard, SequenceTheorems, TLAPS

(* No event of d comes before its predecessor was folded or delivered.      *)
Gapless(d, n) ==
  \A k \in 1..Len(d) : d[k] <= n + 1 \/ \E j \in 1..(k - 1) : d[j] = d[k] - 1

(* d brings every event from n to m.                                        *)
Covers(d, n, m) == \A e \in (n + 1)..m : \E k \in 1..Len(d) : d[k] = e

Within(d, m) == \A k \in 1..Len(d) : d[k] <= m

Wire(s) ==
  /\ Gapless(down[s], lastSeq) /\ Within(down[s], log)
  /\ Within(asked[s], lastSeq)
  /\ conn[s] # "open" => down[s] = <<>> /\ asked[s] = <<>>
  /\ conn[s] = "connecting" => ~attached[s]
  /\ conn[s] = "open" /\ attached[s] => Covers(down[s], lastSeq, log)
  /\ (\E k \in 1..Len(down[s]) : down[s][k] = 0) => attached[s]

Wires == \A s \in Socks : Wire(s)

IInv == TypeOK /\ Wires /\ FoldsThePrefix /\ LiveMeansFed

-----------------------------------------------------------------------------
(* Sequences of frames                                                     *)

(* Nothing under way: nothing out of order, nothing beyond the log.         *)
LEMMA EmptyWire ==
  /\ <<>> \in Seq(Nat) /\ Len(<<>>) = 0
  /\ \A n : Gapless(<<>>, n) /\ Within(<<>>, n)
BY EmptySeq DEF Gapless, Within

(* A live event is pushed behind its predecessor.                           *)
LEMMA Pushed ==
  ASSUME NEW d \in Seq(Nat), NEW n \in Nat, NEW m \in Nat, n <= m,
         Gapless(d, n), Within(d, m), Covers(d, n, m)
  PROVE  LET t == Append(d, m + 1)
         IN /\ t \in Seq(Nat) /\ Gapless(t, n) /\ Within(t, m + 1)
            /\ Covers(t, n, m + 1)
            /\ \A k \in 1..Len(t) : t[k] = 0 => \E j \in 1..Len(d) : d[j] = 0
<1> DEFINE t == Append(d, m + 1)
<1>1. Len(d) \in Nat /\ \A k \in 1..Len(d) : d[k] \in Nat
  BY LenProperties, ElementOfSeq
<1>2. /\ t \in Seq(Nat) /\ Len(t) = Len(d) + 1 /\ t[Len(d) + 1] = m + 1
      /\ \A i \in 1..Len(d) : t[i] = d[i]
  BY AppendProperties
<1> HIDE DEF t
<1>3. \A k \in 1..Len(t) : k \in 1..Len(d) \/ (k = Len(d) + 1 /\ t[k] = m + 1)
  BY <1>1, <1>2
<1>4. Gapless(t, n)
  <2> SUFFICES ASSUME NEW k \in 1..Len(t), ~(t[k] <= n + 1)
               PROVE  \E j \in 1..(k - 1) : t[j] = t[k] - 1
    BY DEF Gapless
  <2>1. CASE k \in 1..Len(d)
    <3>1. PICK j \in 1..(k - 1) : d[j] = d[k] - 1
      BY <2>1, <1>2 DEF Gapless
    <3>2. j \in 1..Len(d)
      BY <3>1, <2>1, <1>1
    <3> QED
      BY <3>1, <3>2, <2>1, <1>2
  <2>2. CASE k = Len(d) + 1 /\ t[k] = m + 1
    <3>1. m \in (n + 1)..m
      BY <2>2
    <3>2. PICK j \in 1..Len(d) : d[j] = m
      BY <3>1 DEF Covers
    <3> QED
      BY <3>2, <2>2, <1>1, <1>2
  <2> QED
    BY <2>1, <2>2, <1>3
<1>5. Within(t, m + 1)
  <2> SUFFICES ASSUME NEW k \in 1..Len(t) PROVE t[k] <= m + 1
    BY DEF Within
  <2>1. CASE k \in 1..Len(d)
    <3>1. d[k] <= m /\ t[k] = d[k] /\ d[k] \in Nat
      BY <2>1, <1>1, <1>2 DEF Within
    <3> QED
      BY <3>1
  <2> QED
    BY <2>1, <1>3
<1>6. Covers(t, n, m + 1)
  <2> SUFFICES ASSUME NEW e \in (n + 1)..(m + 1)
               PROVE  \E k \in 1..Len(t) : t[k] = e
    BY DEF Covers
  <2>1. CASE e = m + 1
    BY <2>1, <1>1, <1>2
  <2>2. CASE e \in (n + 1)..m
    <3>1. PICK k \in 1..Len(d) : d[k] = e
      BY <2>2 DEF Covers
    <3> QED
      BY <3>1, <1>1, <1>2
  <2> QED
    BY <2>1, <2>2
<1>7. \A k \in 1..Len(t) : t[k] = 0 => \E j \in 1..Len(d) : d[j] = 0
  BY <1>2, <1>3
<1> QED
  BY <1>2, <1>4, <1>5, <1>6, <1>7 DEF t

(* A replay from what was folded, behind whatever was under way, and the    *)
(* `ready` that ends it.                                                    *)
LEMMA Replayed ==
  ASSUME NEW d \in Seq(Nat), NEW n \in Nat, NEW a \in Nat, a <= n, n <= log,
         log \in Nat, Gapless(d, n), Within(d, log)
  PROVE  LET t == Append(d \o EventsAfter(a), 0)
         IN t \in Seq(Nat) /\ Gapless(t, n) /\ Within(t, log) /\ Covers(t, n, log)
<1> DEFINE r == EventsAfter(a)
           l == log - a
<1>1. l \in Nat /\ log = a + l /\ (IF a < log THEN log - a ELSE 0) = l
  OBVIOUS
<1>2. r = [k \in 1..l |-> a + k]
  BY <1>1 DEF EventsAfter
<1>3. r \in Seq(Nat) /\ Len(r) = l /\ \A k \in 1..l : r[k] = a + k
  BY <1>1, <1>2
<1>4. Len(d) \in Nat /\ \A k \in 1..Len(d) : d[k] \in Nat
  BY LenProperties, ElementOfSeq
<1> HIDE DEF r, l
<1> DEFINE u == d \o r
<1>5. /\ u \in Seq(Nat) /\ Len(u) = Len(d) + l
      /\ \A k \in 1..(Len(d) + l) :
           u[k] = IF k <= Len(d) THEN d[k] ELSE r[k - Len(d)]
  BY <1>3, <1>4, ConcatProperties
<1> HIDE DEF u
<1> DEFINE v == Append(u, 0)
<1>6. Len(u) \in Nat /\ 0 \in Nat
  BY <1>1, <1>4, <1>5
<1>7. /\ v \in Seq(Nat) /\ Len(v) = Len(u) + 1 /\ v[Len(u) + 1] = 0
      /\ \A k \in 1..Len(u) : v[k] = u[k]
  BY <1>5, <1>6, AppendProperties
<1> HIDE DEF v
<1>8. /\ v \in Seq(Nat) /\ Len(v) = Len(d) + l + 1
      /\ \A k \in 1..Len(d) : v[k] = d[k]
      /\ \A k \in 1..l : v[Len(d) + k] = a + k
      /\ v[Len(d) + l + 1] = 0
  <2>1. \A k \in 1..Len(d) : v[k] = d[k]
    <3> TAKE k \in 1..Len(d)
    <3>1. k \in 1..(Len(d) + l) /\ k <= Len(d)
      BY <1>1, <1>4
    <3> QED
      BY <3>1, <1>5, <1>7
  <2>2. \A k \in 1..l : v[Len(d) + k] = a + k
    <3> TAKE k \in 1..l
    <3>1. Len(d) + k \in 1..(Len(d) + l) /\ (Len(d) + k) - Len(d) = k /\ ~(Len(d) + k <= Len(d))
      BY <1>1, <1>4
    <3> QED
      BY <3>1, <1>3, <1>5, <1>7
  <2> QED
    BY <2>1, <2>2, <1>5, <1>7
<1>9. \A k \in 1..Len(v) : \/ k \in 1..Len(d) /\ v[k] = d[k]
                           \/ \E i \in 1..l : k = Len(d) + i /\ v[k] = a + i
                           \/ v[k] = 0
  <2> TAKE k \in 1..Len(v)
  <2>1. CASE k \in 1..Len(d)
    BY <2>1, <1>8
  <2>2. CASE k = Len(d) + l + 1
    BY <2>2, <1>8
  <2>3. CASE k - Len(d) \in 1..l
    <3> DEFINE i == k - Len(d)
    <3>1. k = Len(d) + i
      BY <1>4
    <3> QED
      BY <3>1, <2>3, <1>8
  <2>4. k \in 1..Len(d) \/ k = Len(d) + l + 1 \/ k - Len(d) \in 1..l
    BY <1>1, <1>4, <1>8
  <2> QED
    BY <2>1, <2>2, <2>3, <2>4
<1>10. Gapless(v, n)
  <2> SUFFICES ASSUME NEW k \in 1..Len(v), ~(v[k] <= n + 1)
               PROVE  \E j \in 1..(k - 1) : v[j] = v[k] - 1
    BY DEF Gapless
  <2>1. CASE k \in 1..Len(d) /\ v[k] = d[k]
    <3>1. PICK j \in 1..(k - 1) : d[j] = d[k] - 1
      BY <2>1 DEF Gapless
    <3>2. j \in 1..Len(d)
      BY <3>1, <2>1, <1>4
    <3> QED
      BY <3>1, <3>2, <2>1, <1>8
  <2>2. CASE \E i \in 1..l : k = Len(d) + i /\ v[k] = a + i
    <3>1. PICK i \in 1..l : k = Len(d) + i /\ v[k] = a + i
      BY <2>2
    <3>2. i - 1 \in 1..l /\ Len(d) + (i - 1) \in 1..(k - 1) /\ a + (i - 1) = v[k] - 1
      BY <3>1, <1>1, <1>4
    <3>3. v[Len(d) + (i - 1)] = a + (i - 1)
      BY <3>2, <1>8
    <3> QED
      BY <3>2, <3>3
  <2> QED
    BY <2>1, <2>2, <1>9
<1>11. Within(v, log)
  <2> SUFFICES ASSUME NEW k \in 1..Len(v) PROVE v[k] <= log
    BY DEF Within
  <2> QED
    BY <1>9, <1>1 DEF Within
<1>12. Covers(v, n, log)
  <2> SUFFICES ASSUME NEW e \in (n + 1)..log PROVE \E k \in 1..Len(v) : v[k] = e
    BY DEF Covers
  <2>1. e - a \in 1..l /\ a + (e - a) = e
    BY <1>1
  <2>2. v[Len(d) + (e - a)] = a + (e - a)
    BY <2>1, <1>8
  <2>3. Len(d) + (e - a) \in 1..Len(v)
    BY <2>1, <1>1, <1>4, <1>8
  <2> QED
    BY <2>1, <2>2, <2>3
<1> QED
  BY <1>8, <1>10, <1>11, <1>12 DEF v, u, r

(* Taking the first frame in: what follows fits the fold it leaves.         *)
LEMMA Taken ==
  ASSUME NEW d \in Seq(Nat), NEW n \in Nat, NEW m \in Nat, d # <<>>,
         Gapless(d, n), Within(d, m), n <= m
  PROVE  LET e == Head(d)
             k == IF e > n THEN e ELSE n
         IN /\ e \in Nat /\ e <= n + 1 /\ k <= m /\ Tail(d) \in Seq(Nat)
            /\ Gapless(Tail(d), k) /\ Within(Tail(d), m)
            /\ Covers(d, n, m) => Covers(Tail(d), k, m)
            /\ \A i \in 1..Len(Tail(d)) : Tail(d)[i] = 0 =>
                 \E j \in 1..Len(d) : d[j] = 0
<1> DEFINE e == Head(d)
           k == IF e > n THEN e ELSE n
           t == Tail(d)
<1>1. Len(d) \in Nat \ {0} /\ \A i \in 1..Len(d) : d[i] \in Nat
  BY LenProperties, ElementOfSeq, EmptySeq
<1>2. /\ e = d[1] /\ t \in Seq(Nat) /\ Len(t) = Len(d) - 1
      /\ \A i \in 1..Len(t) : t[i] = d[i + 1]
  BY HeadTailProperties
<1> HIDE DEF e, t
<1>3. e \in Nat /\ e <= m /\ e <= n + 1
  BY <1>1, <1>2 DEF Gapless, Within
<1>4. k \in Nat /\ k <= m /\ n <= k /\ (k = n \/ k = e) /\ e <= k
  BY <1>3
<1> HIDE DEF k
<1>5. \A i \in 1..Len(t) : i + 1 \in 1..Len(d) /\ t[i] = d[i + 1]
  BY <1>1, <1>2
<1>6. Gapless(t, k)
  <2> SUFFICES ASSUME NEW i \in 1..Len(t), ~(t[i] <= k + 1)
               PROVE  \E j \in 1..(i - 1) : t[j] = t[i] - 1
    BY DEF Gapless
  <2>1. t[i] = d[i + 1] /\ i + 1 \in 1..Len(d) /\ ~(d[i + 1] <= n + 1)
    BY <1>5, <1>4, <1>1
  <2>2. PICK j \in 1..i : d[j] = d[i + 1] - 1
    BY <2>1 DEF Gapless
  <2>3. j # 1
    <3>1. d[i + 1] \in Nat /\ d[j] > k
      BY <2>1, <2>2, <1>1, <1>4
    <3> QED
      BY <3>1, <1>2, <1>3, <1>4
  <2>4. j - 1 \in 1..Len(t) /\ j - 1 \in 1..(i - 1) /\ (j - 1) + 1 = j
    BY <2>2, <2>3
  <2> QED
    BY <2>1, <2>2, <2>4, <1>5
<1>7. Within(t, m)
  BY <1>5 DEF Within
<1>8. Covers(d, n, m) => Covers(t, k, m)
  <2> SUFFICES ASSUME Covers(d, n, m), NEW f \in (k + 1)..m
               PROVE  \E i \in 1..Len(t) : t[i] = f
    BY DEF Covers
  <2>1. f \in (n + 1)..m /\ f # e
    BY <1>3, <1>4
  <2>2. PICK j \in 1..Len(d) : d[j] = f
    BY <2>1 DEF Covers
  <2>3. j # 1
    BY <2>1, <2>2, <1>2
  <2>4. j - 1 \in 1..Len(t) /\ (j - 1) + 1 = j
    BY <2>2, <2>3, <1>1, <1>2
  <2> QED
    BY <2>2, <2>4, <1>5
<1>9. \A i \in 1..Len(t) : t[i] = 0 => \E j \in 1..Len(d) : d[j] = 0
  BY <1>5
<1> QED
  BY <1>2, <1>3, <1>4, <1>6, <1>7, <1>8, <1>9 DEF e, k, t
-----------------------------------------------------------------------------
(* One socket                                                              *)

(* A socket whose wire a step leaves alone keeps its place, even if others  *)
(* bring the fold forward meanwhile.                                        *)
LEMMA WireKept ==
  ASSUME NEW s \in Socks, Wire(s), down[s] \in Seq(Nat), asked[s] \in Seq(Nat),
         lastSeq \in Nat, lastSeq' \in Nat, lastSeq <= lastSeq', log' = log, log \in Nat,
         conn'[s] = conn[s], down'[s] = down[s], asked'[s] = asked[s],
         attached'[s] = attached[s]
  PROVE  Wire(s)'
<1> DEFINE d == down[s]
           a == asked[s]
<1>1. /\ \A k \in 1..Len(d) : d[k] \in Nat
      /\ \A k \in 1..Len(a) : a[k] \in Nat
      /\ Len(d) \in Nat
  BY ElementOfSeq, LenProperties
<1>2. Gapless(d, lastSeq) /\ Within(d, log) /\ Within(a, lastSeq)
  BY DEF Wire
<1>3. Gapless(d, lastSeq')
  <2> SUFFICES ASSUME NEW k \in 1..Len(d), ~(d[k] <= lastSeq' + 1)
               PROVE  \E j \in 1..(k - 1) : d[j] = d[k] - 1
    BY DEF Gapless
  <2>1. d[k] \in Nat
    BY <1>1
  <2> HIDE DEF d
  <2>2. ~(d[k] <= lastSeq + 1)
    BY <2>1
  <2> QED
    BY <2>2, <1>2 DEF Gapless
<1>4. Within(a, lastSeq')
  <2> SUFFICES ASSUME NEW k \in 1..Len(a) PROVE a[k] <= lastSeq'
    BY DEF Within
  <2>1. a[k] \in Nat /\ a[k] <= lastSeq
    BY <1>1, <1>2 DEF Within
  <2> QED
    BY <2>1
<1>5. Covers(d, lastSeq, log) => Covers(d, lastSeq', log)
  BY DEF Covers
<1>6. /\ conn[s] # "open" => d = <<>> /\ a = <<>>
      /\ conn[s] = "connecting" => ~attached[s]
      /\ conn[s] = "open" /\ attached[s] => Covers(d, lastSeq, log)
      /\ (\E k \in 1..Len(d) : d[k] = 0) => attached[s]
  BY DEF Wire
<1> HIDE DEF d, a
<1>7. d' = d /\ a' = a
  BY DEF d, a
<1>8. /\ Gapless(d, lastSeq)' /\ Within(d, log)' /\ Within(a, lastSeq)'
      /\ (Covers(d, lastSeq, log) => Covers(d, lastSeq, log)')
  BY <1>2, <1>3, <1>4, <1>5, <1>7 DEF Gapless, Within, Covers
<1> QED
  BY <1>6, <1>7, <1>8 DEF Wire, d, a

(* A wire with nothing on it, whose socket feeds nobody.                    *)
LEMMA WireIdle ==
  ASSUME NEW s \in Socks, down'[s] = <<>>, asked'[s] = <<>>,
         conn'[s] # "open" \/ ~attached'[s], conn'[s] # "connecting" \/ ~attached'[s]
  PROVE  Wire(s)'
<1> DEFINE d == down[s]
           a == asked[s]
<1> HIDE DEF d, a
<1>1. d' = <<>> /\ a' = <<>>
  BY DEF d, a
<1>2. Gapless(d, lastSeq)' /\ Within(d, log)' /\ Within(a, lastSeq)' /\ Len(d)' = 0
  BY <1>1, EmptyWire DEF Gapless, Within
<1> QED
  BY <1>1, <1>2 DEF Wire, d, a

(* The fold of one more event.                                              *)
LEMMA UptoNext ==
  ASSUME NEW n \in Nat
  PROVE  Append(Upto(n), n + 1) = Upto(n + 1) /\ Upto(n) \in Seq(Nat)
<1>1. Upto(n) \in Seq(Nat) /\ Len(Upto(n)) = n
  BY DEF Upto
<1>2. Upto(n + 1) \in Seq(Nat) /\ Len(Upto(n + 1)) = n + 1
  BY DEF Upto
<1> DEFINE t == Append(Upto(n), n + 1)
<1>3. /\ t \in Seq(Nat) /\ Len(t) = n + 1 /\ t[n + 1] = n + 1
      /\ \A i \in 1..n : t[i] = Upto(n)[i]
  BY <1>1, AppendProperties
<1> HIDE DEF t
<1>4. \A i \in 1..(n + 1) : t[i] = Upto(n + 1)[i]
  <2> TAKE i \in 1..(n + 1)
  <2>1. CASE i \in 1..n
    BY <2>1, <1>3 DEF Upto
  <2>2. CASE i = n + 1
    BY <2>2, <1>3 DEF Upto
  <2> QED
    BY <2>1, <2>2
<1>5. t = Upto(n + 1)
  BY <1>2, <1>3, <1>4, SeqEqual
<1> QED
  BY <1>1, <1>5 DEF t

-----------------------------------------------------------------------------
(* The inductive invariant                                                 *)

(* Nothing was appended and nobody is connected.                            *)
LEMMA InitIInv == Init => IInv
<1> SUFFICES ASSUME Init PROVE IInv
  OBVIOUS
<1>1. TypeOK
  <2>1. log \in 0..MaxEvents /\ lastSeq \in 0..log /\ drops \in 0..MaxDrops /\ mounts \in 0..MaxMounts
    BY BoundsAssumption DEF Init
  <2>2. asked \in [Socks -> Seq(Nat)] /\ down \in [Socks -> Seq(Nat)] /\ folded \in Seq(Nat)
    BY EmptyWire DEF Init
  <2>3. attached \in [Socks -> BOOLEAN] /\ closing \in BOOLEAN
    BY DEF Init
  <2>4. conn \in [Socks -> {"free", "connecting", "open", "closing", "lost"}]
    BY DEF Init
  <2> QED
    BY <2>1, <2>2, <2>3, <2>4 DEF Init, TypeOK
<1>2. Wires
  BY EmptyWire DEF Init, Wires, Wire
<1>3. FoldsThePrefix
  BY DEF Init, FoldsThePrefix, Upto
<1>4. LiveMeansFed
  BY DEF Init, LiveMeansFed
<1> QED
  BY <1>1, <1>2, <1>3, <1>4 DEF IInv

(* An event is appended: behind all that is under way.                      *)
LEMMA AppendEventIInv == IInv /\ AppendEvent => IInv'
<1> SUFFICES ASSUME IInv, AppendEvent PROVE IInv'
  OBVIOUS
<1> USE DEF IInv
<1>1. log \in Nat /\ lastSeq \in Nat /\ lastSeq <= log /\ log' = log + 1
  BY BoundsAssumption DEF TypeOK, AppendEvent
<1>2. \A s \in Socks : /\ down[s] \in Seq(Nat) /\ asked[s] \in Seq(Nat)
                       /\ down'[s] = IF attached[s] /\ conn[s] = "open"
                                     THEN Append(down[s], log + 1) ELSE down[s]
  BY DEF TypeOK, AppendEvent, Told
<1>3. \A s \in Socks : down'[s] \in Seq(Nat)
  <2> TAKE s \in Socks
  <2>1. Append(down[s], log + 1) \in Seq(Nat)
    BY <1>1, <1>2, AppendProperties
  <2> QED
    BY <1>2, <2>1
<1>4. TypeOK'
  <2>1. down' \in [Socks -> Seq(Nat)]
    BY <1>3 DEF AppendEvent, Told
  <2> QED
    BY <1>1, <2>1, BoundsAssumption DEF TypeOK, AppendEvent, store, view
<1>5. ASSUME NEW s \in Socks PROVE Wire(s)'
  <2> DEFINE d == down[s]
             a == asked[s]
             c == conn[s]
             w == attached[s]
  <2>1. d \in Seq(Nat) /\ \A k \in 1..Len(d) : d[k] \in Nat
    BY <1>2, ElementOfSeq
  <2>2. /\ Gapless(d, lastSeq) /\ Within(d, log) /\ Within(a, lastSeq)
        /\ c # "open" => d = <<>> /\ a = <<>>
        /\ c = "connecting" => ~w
        /\ c = "open" /\ w => Covers(d, lastSeq, log)
        /\ (\E k \in 1..Len(d) : d[k] = 0) => w
    BY DEF Wires, Wire
  <2>3. d' = (IF w /\ c = "open" THEN Append(d, log + 1) ELSE d)
        /\ a' = a /\ c' = c /\ w' = w /\ lastSeq' = lastSeq
    BY <1>2 DEF AppendEvent, view
  <2> HIDE DEF d, a, c, w
  <2>4. CASE w /\ c = "open"
    <3> DEFINE t == Append(d, log + 1)
    <3>1. /\ Gapless(t, lastSeq) /\ Within(t, log + 1) /\ Covers(t, lastSeq, log + 1)
          /\ \A k \in 1..Len(t) : t[k] = 0 => \E j \in 1..Len(d) : d[j] = 0
      BY <1>1, <2>1, <2>2, <2>4, Pushed
    <3>2. d' = t
      BY <2>3, <2>4
    <3> HIDE DEF t
    <3>3. Gapless(d, lastSeq)' /\ Within(d, log)' /\ Covers(d, lastSeq, log)'
          /\ Within(a, lastSeq)'
      BY <1>1, <2>2, <2>3, <3>1, <3>2 DEF Gapless, Within, Covers
    <3> QED
      BY <2>2, <2>3, <2>4, <3>3 DEF Wire, d, a, c, w
  <2>5. CASE ~(w /\ c = "open")
    <3>1. d' = d
      BY <2>3, <2>5
    <3>2. Within(d, log + 1)
      <4> SUFFICES ASSUME NEW k \in 1..Len(d) PROVE d[k] <= log + 1
        BY DEF Within
      <4>1. d[k] \in Nat /\ d[k] <= log
        BY <2>1, <2>2 DEF Within
      <4> QED
        BY <4>1, <1>1
    <3>3. Gapless(d, lastSeq)' /\ Within(d, log)' /\ Within(a, lastSeq)'
      BY <1>1, <2>2, <2>3, <3>1, <3>2 DEF Gapless, Within
    <3> QED
      BY <2>2, <2>3, <2>5, <3>1, <3>3 DEF Wire, d, a, c, w
  <2> QED
    BY <2>4, <2>5
<1>6. FoldsThePrefix' /\ LiveMeansFed'
  BY DEF AppendEvent, view, store, FoldsThePrefix, Upto, LiveMeansFed
<1> QED
  BY <1>4, <1>5, <1>6 DEF Wires

(* A subscription is answered: the replay closes the gap to the log.        *)
LEMMA SubscribeIInv ==
  ASSUME IInv, NEW s \in Socks, Subscribe(s)
  PROVE  IInv'
<1> USE DEF IInv
<1> DEFINE n == Head(asked[s])
           t == Append(down[s] \o EventsAfter(n), 0)
<1>1. /\ log \in Nat /\ lastSeq \in Nat /\ lastSeq <= log
      /\ down[s] \in Seq(Nat) /\ asked[s] \in Seq(Nat) /\ asked[s] # <<>>
  BY BoundsAssumption DEF TypeOK, Subscribe
<1>2. /\ Gapless(down[s], lastSeq) /\ Within(down[s], log) /\ Within(asked[s], lastSeq)
  BY DEF Wires, Wire
<1>3. n \in Nat /\ n <= lastSeq
  <2>1. Len(asked[s]) \in Nat \ {0} /\ n = asked[s][1]
    BY <1>1, EmptySeq, LenProperties, HeadTailProperties
  <2> QED
    BY <2>1, <1>1, <1>2, ElementOfSeq DEF Within
<1>4. /\ Tail(asked[s]) \in Seq(Nat) /\ Within(Tail(asked[s]), lastSeq)
  <2>1. /\ Tail(asked[s]) \in Seq(Nat) /\ Len(asked[s]) \in Nat
        /\ Len(Tail(asked[s])) = Len(asked[s]) - 1
        /\ \A k \in 1..Len(Tail(asked[s])) : Tail(asked[s])[k] = asked[s][k + 1]
    BY <1>1, LenProperties, HeadTailProperties
  <2> QED
    BY <2>1, <1>2 DEF Within
<1>5. /\ t \in Seq(Nat) /\ Gapless(t, lastSeq) /\ Within(t, log) /\ Covers(t, lastSeq, log)
  BY <1>1, <1>2, <1>3, Replayed
<1> HIDE DEF n, t
<1>6. /\ down' = [down EXCEPT ![s] = t] /\ asked' = [asked EXCEPT ![s] = Tail(asked[s])]
      /\ attached' = [attached EXCEPT ![s] = TRUE] /\ conn[s] = "open"
      /\ UNCHANGED <<log, conn, store, view, drops, mounts>>
  BY DEF Subscribe, n, t
<1>7. TypeOK'
  <2>1. /\ down' \in [Socks -> Seq(Nat)] /\ asked' \in [Socks -> Seq(Nat)]
        /\ attached' \in [Socks -> BOOLEAN]
    BY <1>4, <1>5, <1>6 DEF TypeOK
  <2> QED
    BY <1>6, <2>1 DEF TypeOK, store, view
<1>8. Wire(s)'
  <2> DEFINE d == down[s]
             a == asked[s]
  <2> HIDE DEF d, a
  <2>1. d' = t /\ a' = Tail(asked[s]) /\ conn'[s] = "open" /\ attached'[s]
    BY <1>6 DEF TypeOK, d, a
  <2>2. /\ Gapless(d, lastSeq)' /\ Within(d, log)' /\ Within(a, lastSeq)'
        /\ Covers(d, lastSeq, log)'
    BY <1>4, <1>5, <1>6, <2>1 DEF view, Gapless, Within, Covers
  <2> QED
    BY <2>1, <2>2 DEF Wire, d, a
<1>9. ASSUME NEW q \in Socks, q # s PROVE Wire(q)'
  <2>1. /\ down'[q] = down[q] /\ asked'[q] = asked[q] /\ attached'[q] = attached[q]
        /\ down[q] \in Seq(Nat) /\ asked[q] \in Seq(Nat) /\ Wire(q)
        /\ conn' = conn /\ lastSeq' = lastSeq /\ log' = log
    BY <1>6, <1>9 DEF TypeOK, Wires, view
  <2> QED
    BY <2>1, <1>1, WireKept
<1>10. FoldsThePrefix' /\ LiveMeansFed'
  <2>1. FoldsThePrefix'
    BY <1>6 DEF view, FoldsThePrefix, Upto
  <2>2. LiveMeansFed'
    BY <1>6 DEF TypeOK, store, LiveMeansFed
  <2> QED
    BY <2>1, <2>2
<1> QED
  BY <1>7, <1>8, <1>9, <1>10 DEF Wires

(* A frame arrives: the next event is folded, an old one is not.            *)
LEMMA ReceiveIInv ==
  ASSUME IInv, NEW s \in Socks, Receive(s)
  PROVE  IInv'
<1> USE DEF IInv
<1> DEFINE e == Head(down[s])
           k == IF e > lastSeq THEN e ELSE lastSeq
           t == Tail(down[s])
<1>1. /\ log \in Nat /\ lastSeq \in Nat /\ lastSeq <= log /\ log <= MaxEvents
      /\ down[s] \in Seq(Nat) /\ asked[s] \in Seq(Nat) /\ down[s] # <<>>
      /\ conn[s] = "open"
  BY BoundsAssumption DEF TypeOK, Receive
<1>2. /\ Gapless(down[s], lastSeq) /\ Within(down[s], log) /\ Within(asked[s], lastSeq)
      /\ attached[s] => Covers(down[s], lastSeq, log)
      /\ (\E i \in 1..Len(down[s]) : down[s][i] = 0) => attached[s]
  BY <1>1 DEF Wires, Wire
<1>3. /\ e \in Nat /\ e <= lastSeq + 1 /\ k <= log /\ t \in Seq(Nat)
      /\ Gapless(t, k) /\ Within(t, log)
      /\ Covers(down[s], lastSeq, log) => Covers(t, k, log)
      /\ \A i \in 1..Len(t) : t[i] = 0 => \E j \in 1..Len(down[s]) : down[s][j] = 0
  BY <1>1, <1>2, Taken
<1>4. e = 0 => attached[s]
  <2>1. Len(down[s]) \in Nat \ {0} /\ e = down[s][1]
    BY <1>1, EmptySeq, LenProperties, HeadTailProperties
  <2> QED
    BY <2>1, <1>2
<1>5. /\ lastSeq' = k /\ down' = [down EXCEPT ![s] = t]
      /\ folded' = IF e > lastSeq THEN Append(folded, e) ELSE folded
      /\ status' = IF e = 0 THEN "live" ELSE status
      /\ UNCHANGED <<log, conn, asked, attached, socket, timers, timer, closing, drops,
                     mounts>>
  BY <1>1, <1>3 DEF Receive, Ingest, view
<1>6. k \in Nat /\ lastSeq <= k /\ (e > lastSeq => e = lastSeq + 1 /\ k = lastSeq + 1)
      /\ (~(e > lastSeq) => k = lastSeq)
  BY <1>1, <1>3
<1> HIDE DEF e, k, t
<1>7. FoldsThePrefix' /\ folded' \in Seq(Nat)
  <2>1. CASE e > lastSeq
    BY <2>1, <1>1, <1>5, <1>6, UptoNext DEF FoldsThePrefix
  <2>2. CASE ~(e > lastSeq)
    BY <2>2, <1>5, <1>6 DEF FoldsThePrefix, TypeOK
  <2> QED
    BY <2>1, <2>2
<1>8. TypeOK'
  <2>1. down' \in [Socks -> Seq(Nat)]
    BY <1>3, <1>5 DEF TypeOK
  <2>2. lastSeq' \in 0..log' /\ log' \in 0..MaxEvents
    BY <1>1, <1>3, <1>5, <1>6
  <2>3. status' \in {"idle", "connecting", "live", "reconnecting"}
    BY <1>5 DEF TypeOK
  <2> QED
    BY <1>5, <1>7, <2>1, <2>2, <2>3 DEF TypeOK
<1>9. Wire(s)'
  <2> DEFINE d == down[s]
             a == asked[s]
  <2>1. Within(a, k)
    <3> SUFFICES ASSUME NEW i \in 1..Len(a) PROVE a[i] <= k
      BY DEF Within
    <3>1. a[i] \in Nat /\ a[i] <= lastSeq
      BY <1>1, <1>2, ElementOfSeq DEF Within
    <3> HIDE DEF a
    <3> QED
      BY <3>1, <1>1, <1>6
  <2>2. attached[s] => Covers(t, k, log)
    BY <1>2, <1>3
  <2>3. (\E i \in 1..Len(t) : t[i] = 0) => attached[s]
    BY <1>2, <1>3
  <2> HIDE DEF d, a
  <2>4. d' = t /\ a' = a /\ conn'[s] = "open" /\ attached'[s] = attached[s]
    BY <1>1, <1>5 DEF TypeOK, d, a
  <2>5. /\ Gapless(d, lastSeq)' /\ Within(d, log)' /\ Within(a, lastSeq)'
        /\ attached[s] => Covers(d, lastSeq, log)'
    BY <1>3, <1>5, <2>1, <2>2, <2>4 DEF Gapless, Within, Covers
  <2> QED
    BY <2>3, <2>4, <2>5 DEF Wire, d, a
<1>10. ASSUME NEW q \in Socks, q # s PROVE Wire(q)'
  <2>1. down'[q] = down[q] /\ down[q] \in Seq(Nat) /\ asked[q] \in Seq(Nat) /\ Wire(q)
    BY <1>5, <1>10 DEF TypeOK, Wires
  <2> QED
    BY <2>1, <1>1, <1>5, <1>6, WireKept
<1>11. LiveMeansFed'
  <2>1. CASE e = 0
    BY <2>1, <1>1, <1>4, <1>5 DEF LiveMeansFed
  <2>2. CASE e # 0
    BY <2>2, <1>5 DEF LiveMeansFed
  <2> QED
    BY <2>1, <2>2
<1> QED
  BY <1>7, <1>8, <1>9, <1>10, <1>11 DEF Wires

(* The wires of all sockets but one are as they were.                       *)
LEMMA OthersKept ==
  ASSUME TypeOK, Wires, NEW s \in Socks, UNCHANGED <<log, lastSeq>>,
         \A q \in Socks \ {s} : /\ conn'[q] = conn[q] /\ down'[q] = down[q]
                               /\ asked'[q] = asked[q] /\ attached'[q] = attached[q]
  PROVE  \A q \in Socks \ {s} : Wire(q)'
<1> TAKE q \in Socks \ {s}
<1>1. log \in Nat /\ lastSeq \in Nat
  BY BoundsAssumption DEF TypeOK
<1>2. down[q] \in Seq(Nat) /\ asked[q] \in Seq(Nat) /\ Wire(q)
  BY DEF TypeOK, Wires
<1> QED
  BY <1>1, <1>2, WireKept

(* The route forgets a socket that is gone.                                 *)
LEMMA UnsubscribeIInv ==
  ASSUME IInv, NEW s \in Socks, Unsubscribe(s)
  PROVE  IInv'
<1> USE DEF IInv
<1>1. /\ conn[s] \notin {"connecting", "open"} /\ attached' = [attached EXCEPT ![s] = FALSE]
      /\ UNCHANGED <<log, conn, asked, down, store, view, drops, mounts>>
  BY DEF Unsubscribe
<1>2. TypeOK'
  <2>1. attached' \in [Socks -> BOOLEAN]
    BY <1>1 DEF TypeOK
  <2> QED
    BY <1>1, <2>1 DEF TypeOK, store, view
<1>3. Wire(s)'
  <2>1. down'[s] = <<>> /\ asked'[s] = <<>> /\ conn'[s] \notin {"connecting", "open"}
    BY <1>1 DEF Wires, Wire
  <2> QED
    BY <2>1, WireIdle
<1>4. \A q \in Socks \ {s} : Wire(q)'
  <2>1. \A q \in Socks \ {s} : attached'[q] = attached[q]
    BY <1>1 DEF TypeOK
  <2> QED
    BY <1>1, <2>1, OthersKept DEF view
<1>5. FoldsThePrefix'
  BY <1>1 DEF view, FoldsThePrefix, Upto
<1>6. LiveMeansFed'
  BY <1>1 DEF TypeOK, store, LiveMeansFed
<1> QED
  BY <1>2, <1>3, <1>4, <1>5, <1>6 DEF Wires

(* A connection is lost, with all that was under way.                       *)
LEMMA DropIInv ==
  ASSUME IInv, NEW s \in Socks, Drop(s)
  PROVE  IInv'
<1> USE DEF IInv
<1>1. /\ conn[s] \in {"connecting", "open"} /\ drops < MaxDrops /\ drops' = drops + 1
      /\ conn' = [conn EXCEPT ![s] = "lost"]
      /\ asked' = [asked EXCEPT ![s] = <<>>] /\ down' = [down EXCEPT ![s] = <<>>]
      /\ UNCHANGED <<log, attached, store, view, mounts>>
  BY DEF Drop, Empty
<1>2. TypeOK'
  <2>1. /\ conn' \in [Socks -> {"free", "connecting", "open", "closing", "lost"}]
        /\ asked' \in [Socks -> Seq(Nat)] /\ down' \in [Socks -> Seq(Nat)]
    BY <1>1, EmptyWire DEF TypeOK
  <2>2. drops' \in 0..MaxDrops
    BY <1>1, BoundsAssumption DEF TypeOK
  <2> QED
    BY <1>1, <2>1, <2>2 DEF TypeOK, store, view
<1>3. Wire(s)'
  <2>1. down'[s] = <<>> /\ asked'[s] = <<>> /\ conn'[s] = "lost"
    BY <1>1 DEF TypeOK
  <2> QED
    BY <2>1, WireIdle
<1>4. \A q \in Socks \ {s} : Wire(q)'
  <2>1. \A q \in Socks \ {s} : conn'[q] = conn[q] /\ down'[q] = down[q] /\ asked'[q] = asked[q]
    BY <1>1 DEF TypeOK
  <2> QED
    BY <1>1, <2>1, OthersKept DEF view
<1>5. FoldsThePrefix'
  BY <1>1 DEF view, FoldsThePrefix, Upto
<1>6. LiveMeansFed'
  <2>1. conn'[s] = "lost" /\ \A q \in Socks \ {s} : conn'[q] = conn[q]
    BY <1>1 DEF TypeOK
  <2> QED
    BY <1>1, <2>1 DEF store, LiveMeansFed
<1> QED
  BY <1>2, <1>3, <1>4, <1>5, <1>6 DEF Wires

(* A connection stands: whoever the store holds is asked from the fold on.  *)
LEMMA OpenedIInv ==
  ASSUME IInv, NEW s \in Socks, Opened(s)
  PROVE  IInv'
<1> USE DEF IInv
<1>1. /\ conn[s] = "connecting" /\ conn' = [conn EXCEPT ![s] = "open"]
      /\ asked' = [t \in Socks |-> IF t = socket /\ conn'[t] = "open"
                                   THEN Append(asked[t], lastSeq) ELSE asked[t]]
      /\ UNCHANGED <<log, attached, down, store, view, drops, mounts>>
  BY DEF Opened
<1>2. log \in Nat /\ lastSeq \in Nat
  BY BoundsAssumption DEF TypeOK
<1>3. \A q \in Socks : /\ asked[q] \in Seq(Nat) /\ down[q] \in Seq(Nat)
                       /\ Append(asked[q], lastSeq) \in Seq(Nat)
  BY <1>2, AppendProperties DEF TypeOK
<1>4. TypeOK'
  <2>1. asked' \in [Socks -> Seq(Nat)]
    BY <1>1, <1>3
  <2>2. conn' \in [Socks -> {"free", "connecting", "open", "closing", "lost"}]
    BY <1>1 DEF TypeOK
  <2> QED
    BY <1>1, <2>1, <2>2 DEF TypeOK, store, view
<1>5. ASSUME NEW q \in Socks PROVE Wire(q)'
  <2> DEFINE d == down[q]
             a == asked[q]
             c == conn[q]
             w == attached[q]
  <2>1. /\ Gapless(d, lastSeq) /\ Within(d, log) /\ Within(a, lastSeq)
        /\ c # "open" => d = <<>> /\ a = <<>>
        /\ c = "connecting" => ~w
        /\ c = "open" /\ w => Covers(d, lastSeq, log)
        /\ (\E k \in 1..Len(d) : d[k] = 0) => w
    BY DEF Wires, Wire
  <2>2. a' = IF q = socket /\ c' = "open" THEN Append(a, lastSeq) ELSE a
    BY <1>1
  <2>3. Within(Append(a, lastSeq), lastSeq)
    <3> DEFINE b == Append(a, lastSeq)
    <3>1. /\ Len(a) \in Nat /\ Len(b) = Len(a) + 1 /\ b[Len(a) + 1] = lastSeq
          /\ \A i \in 1..Len(a) : b[i] = a[i]
      BY <1>2, <1>3, AppendProperties, LenProperties
    <3> HIDE DEF b
    <3>2. \A i \in 1..Len(b) : i \in 1..Len(a) \/ i = Len(a) + 1
      BY <3>1
    <3> SUFFICES ASSUME NEW i \in 1..Len(b) PROVE b[i] <= lastSeq
      BY DEF Within, b
    <3>3. CASE i \in 1..Len(a)
      BY <3>1, <3>3, <2>1 DEF Within
    <3>4. CASE i = Len(a) + 1
      BY <3>1, <3>4, <1>2
    <3> QED
      BY <3>2, <3>3, <3>4
  <2>4. c' = (IF q = s THEN "open" ELSE c) /\ (q = s => c = "connecting")
    BY <1>1 DEF TypeOK
  <2>5. d' = d /\ w' = w /\ lastSeq' = lastSeq /\ log' = log
    BY <1>1 DEF view
  <2> HIDE DEF d, a, c, w
  <2>6. Within(a, lastSeq)'
    BY <2>1, <2>2, <2>3, <2>5 DEF Within
  <2>7. /\ Gapless(d, lastSeq)' /\ Within(d, log)'
        /\ (Covers(d, lastSeq, log) => Covers(d, lastSeq, log)')
    BY <2>1, <2>5 DEF Gapless, Within, Covers
  <2>8. c' # "open" => d' = <<>> /\ a' = <<>>
    BY <2>1, <2>2, <2>4, <2>5
  <2>9. (c' = "connecting" => ~w') /\ (c' = "open" /\ w' => Covers(d, lastSeq, log)')
    BY <2>1, <2>4, <2>5, <2>7
  <2> QED
    BY <2>1, <2>5, <2>6, <2>7, <2>8, <2>9 DEF Wire, d, a, c, w
<1>6. FoldsThePrefix'
  BY <1>1 DEF view, FoldsThePrefix, Upto
<1>7. LiveMeansFed'
  BY <1>1 DEF TypeOK, store, LiveMeansFed
<1> QED
  BY <1>4, <1>5, <1>6, <1>7 DEF Wires

(* A socket is opened: nothing is under way on it yet.                      *)
LEMMA OpenIInv ==
  ASSUME IInv, NEW s \in Socks, Open(s), timers' \subseteq Socks,
         closing' \in BOOLEAN, mounts' \in 0..MaxMounts,
         UNCHANGED <<log, asked, attached, down, timer, view, drops>>
  PROVE  IInv'
<1> USE DEF IInv
<1>1. /\ conn[s] = "free" /\ ~attached[s]
      /\ conn' = [conn EXCEPT ![s] = "connecting"] /\ socket' = s
      /\ status' \in {"connecting", "reconnecting"}
  BY DEF Open
<1>2. TypeOK'
  <2>1. conn' \in [Socks -> {"free", "connecting", "open", "closing", "lost"}]
    BY <1>1 DEF TypeOK
  <2> QED
    BY <1>1, <2>1 DEF TypeOK, view
<1>3. Wire(s)'
  <2>1. down'[s] = <<>> /\ asked'[s] = <<>> /\ conn'[s] = "connecting" /\ ~attached'[s]
    BY <1>1 DEF TypeOK, Wires, Wire
  <2> QED
    BY <2>1, WireIdle
<1>4. \A q \in Socks \ {s} : Wire(q)'
  <2>1. \A q \in Socks \ {s} : conn'[q] = conn[q]
    BY <1>1 DEF TypeOK
  <2> QED
    BY <2>1, OthersKept DEF view
<1>5. FoldsThePrefix' /\ LiveMeansFed'
  BY <1>1 DEF view, FoldsThePrefix, Upto, LiveMeansFed
<1> QED
  BY <1>2, <1>3, <1>4, <1>5 DEF Wires

(* Mounting opens the store's socket.                                       *)
LEMMA ConnectIInv ==
  ASSUME IInv, NEW s \in Socks, Connect(s)
  PROVE  IInv'
<1>1. Open(s) /\ timers' \subseteq Socks /\ closing' \in BOOLEAN
  BY DEF IInv, TypeOK, Connect
<1>2. mounts' \in 0..MaxMounts
  <2>1. mounts \in 0..MaxMounts /\ mounts < MaxMounts /\ mounts' = mounts + 1
    BY DEF IInv, TypeOK, Connect
  <2> QED
    BY <2>1, BoundsAssumption
<1>3. UNCHANGED <<log, asked, attached, down, timer, view, drops>>
  BY DEF Connect
<1> QED
  BY <1>1, <1>2, <1>3, OpenIInv

(* A timer that fires opens a socket.                                       *)
LEMMA ReopenIInv ==
  ASSUME IInv, NEW s \in Socks, NEW t \in Socks, Reopen(s, t)
  PROVE  IInv'
<1>1. /\ Open(s) /\ timers' \subseteq Socks /\ closing' \in BOOLEAN
      /\ mounts' \in 0..MaxMounts
  BY DEF IInv, TypeOK, Reopen
<1>2. UNCHANGED <<log, asked, attached, down, timer, view, drops>>
  BY DEF Reopen
<1> QED
  BY <1>1, <1>2, OpenIInv

(* Unmounting closes the socket the store holds, if it holds one.           *)
LEMMA DisconnectIInv ==
  ASSUME IInv, Disconnect
  PROVE  IInv'
<1> USE DEF IInv
<1>1. /\ closing' = TRUE /\ timers' = timers \ {timer} /\ timer' = None
      /\ socket' = None /\ status' = "idle"
      /\ UNCHANGED <<log, attached, view, drops, mounts>>
  BY DEF Disconnect
<1>2. FoldsThePrefix' /\ LiveMeansFed'
  BY <1>1 DEF view, FoldsThePrefix, Upto, LiveMeansFed
<1>3. CASE socket # None /\ conn[socket] \in {"connecting", "open"}
  <2>1. PICK s \in Socks : s = socket
    BY <1>3 DEF TypeOK
  <2>2. /\ conn' = [conn EXCEPT ![s] = "closing"]
        /\ asked' = [asked EXCEPT ![s] = <<>>] /\ down' = [down EXCEPT ![s] = <<>>]
    BY <1>3, <2>1 DEF Disconnect, Empty
  <2>3. TypeOK'
    <3>1. /\ conn' \in [Socks -> {"free", "connecting", "open", "closing", "lost"}]
          /\ asked' \in [Socks -> Seq(Nat)] /\ down' \in [Socks -> Seq(Nat)]
      BY <2>2, EmptyWire DEF TypeOK
    <3> QED
      BY <1>1, <3>1 DEF TypeOK, view
  <2>4. Wire(s)'
    <3>1. down'[s] = <<>> /\ asked'[s] = <<>> /\ conn'[s] = "closing"
      BY <2>2 DEF TypeOK
    <3> QED
      BY <3>1, WireIdle
  <2>5. \A q \in Socks \ {s} : Wire(q)'
    <3>1. \A q \in Socks \ {s} : conn'[q] = conn[q] /\ down'[q] = down[q] /\ asked'[q] = asked[q]
      BY <2>2 DEF TypeOK
    <3> QED
      BY <1>1, <3>1, OthersKept DEF view
  <2> QED
    BY <1>2, <2>3, <2>4, <2>5 DEF Wires
<1>4. CASE ~(socket # None /\ conn[socket] \in {"connecting", "open"})
  <2>1. UNCHANGED <<conn, asked, down>>
    BY <1>4 DEF Disconnect
  <2>2. TypeOK'
    BY <1>1, <2>1 DEF TypeOK, view
  <2>3. \A q \in Socks : Wire(q)'
    <3> TAKE q \in Socks
    <3>1. log \in Nat /\ lastSeq \in Nat /\ Wire(q)
      BY BoundsAssumption DEF TypeOK, Wires
    <3>2. down[q] \in Seq(Nat) /\ asked[q] \in Seq(Nat)
      BY DEF TypeOK
    <3> QED
      BY <1>1, <2>1, <3>1, <3>2, WireKept DEF view
  <2> QED
    BY <1>2, <2>2, <2>3 DEF Wires
<1> QED
  BY <1>3, <1>4

(* The browser tells the store that a socket is closed.                     *)
LEMMA ClosedIInv ==
  ASSUME IInv, NEW s \in Socks, Closed(s)
  PROVE  IInv'
<1> USE DEF IInv
<1>1. /\ conn[s] \in {"closing", "lost"} /\ conn' = [conn EXCEPT ![s] = "free"]
      /\ socket' = None /\ timers' \subseteq Socks /\ timer' \in Socks \cup {None}
      /\ status' \in {"idle", "reconnecting"}
      /\ UNCHANGED <<log, asked, attached, down, closing, view, drops, mounts>>
  BY DEF Closed, TypeOK
<1>2. TypeOK'
  <2>1. conn' \in [Socks -> {"free", "connecting", "open", "closing", "lost"}]
    BY <1>1 DEF TypeOK
  <2> QED
    BY <1>1, <2>1 DEF TypeOK, view
<1>3. Wire(s)'
  <2>1. down'[s] = <<>> /\ asked'[s] = <<>> /\ conn'[s] = "free"
    BY <1>1 DEF TypeOK, Wires, Wire
  <2> QED
    BY <2>1, WireIdle
<1>4. \A q \in Socks \ {s} : Wire(q)'
  <2>1. \A q \in Socks \ {s} : conn'[q] = conn[q]
    BY <1>1 DEF TypeOK
  <2> QED
    BY <1>1, <2>1, OthersKept DEF view
<1>5. FoldsThePrefix' /\ LiveMeansFed'
  BY <1>1 DEF view, FoldsThePrefix, Upto, LiveMeansFed
<1> QED
  BY <1>2, <1>3, <1>4, <1>5 DEF Wires

(* Every step keeps the invariant.                                          *)
LEMMA StepIInv == IInv /\ [Next]_vars => IInv'
<1> SUFFICES ASSUME IInv, [Next]_vars PROVE IInv'
  OBVIOUS
<1>1. CASE AppendEvent
  BY <1>1, AppendEventIInv
<1>2. CASE Disconnect
  BY <1>2, DisconnectIInv
<1>3. ASSUME NEW s \in Socks, Subscribe(s) PROVE IInv'
  BY <1>3, SubscribeIInv
<1>4. ASSUME NEW s \in Socks, Unsubscribe(s) PROVE IInv'
  BY <1>4, UnsubscribeIInv
<1>5. ASSUME NEW s \in Socks, Drop(s) PROVE IInv'
  BY <1>5, DropIInv
<1>6. ASSUME NEW s \in Socks, Opened(s) PROVE IInv'
  BY <1>6, OpenedIInv
<1>7. ASSUME NEW s \in Socks, Connect(s) PROVE IInv'
  BY <1>7, ConnectIInv
<1>8. ASSUME NEW s \in Socks, Closed(s) PROVE IInv'
  BY <1>8, ClosedIInv
<1>9. ASSUME NEW s \in Socks, Receive(s) PROVE IInv'
  BY <1>9, ReceiveIInv
<1>10. ASSUME NEW s \in Socks, NEW t \in Socks, Reopen(s, t) PROVE IInv'
  BY <1>10, ReopenIInv
<1>11. CASE UNCHANGED vars
  <2>1. UNCHANGED <<log, conn, asked, attached, down, socket, timers, timer, closing,
                    status, lastSeq, folded, drops, mounts>>
    BY <1>11 DEF vars, net, store, view
  <2>2. TypeOK' /\ FoldsThePrefix' /\ LiveMeansFed'
    BY <2>1 DEF IInv, TypeOK, FoldsThePrefix, Upto, LiveMeansFed
  <2>3. \A q \in Socks : Wire(q)'
    <3> TAKE q \in Socks
    <3>1. log \in Nat /\ lastSeq \in Nat /\ Wire(q)
      BY BoundsAssumption DEF IInv, TypeOK, Wires
    <3>2. down[q] \in Seq(Nat) /\ asked[q] \in Seq(Nat)
      BY DEF IInv, TypeOK
    <3> QED
      BY <2>1, <3>1, <3>2, WireKept
  <2> QED
    BY <2>2, <2>3 DEF IInv, Wires
<1> QED
  BY <1>1, <1>2, <1>3, <1>4, <1>5, <1>6, <1>7, <1>8, <1>9, <1>10, <1>11 DEF Next

-----------------------------------------------------------------------------
(* Every behaviour keeps the inductive invariant.                           *)
THEOREM Invariance == Spec => []IInv
<1> QED
  BY InitIInv, StepIInv, PTL DEF Spec

(* The state keeps its types.                                               *)
THEOREM Typed == Spec => []TypeOK
<1>1. IInv => TypeOK
  BY DEF IInv
<1> QED
  BY <1>1, Invariance, PTL

(* The page folds every event once and in order, whatever sockets it has    *)
(* and however replays and live frames overlap.                             *)
THEOREM Folds == Spec => []FoldsThePrefix
<1>1. IInv => FoldsThePrefix
  BY DEF IInv
<1> QED
  BY <1>1, Invariance, PTL

(* No event falls between the replay and the live feed of a subscription.   *)
THEOREM Nothing == Spec => []NothingMissed
<1>1. IInv => NothingMissed
  <2> SUFFICES ASSUME IInv, NEW s \in Socks, conn[s] = "open", attached[s],
                      NEW e \in (lastSeq + 1)..log
               PROVE  e \in Frames(s)
    BY DEF NothingMissed
  <2>1. down[s] \in Seq(Nat) /\ Covers(down[s], lastSeq, log)
    BY DEF IInv, TypeOK, Wires, Wire
  <2>2. PICK k \in 1..Len(down[s]) : down[s][k] = e
    BY <2>1 DEF Covers
  <2>3. k \in DOMAIN down[s]
    BY <2>1, LenProperties
  <2> QED
    BY <2>2, <2>3 DEF Frames
<1> QED
  BY <1>1, Invariance, PTL

(* A page that says it is live has a socket that feeds it, or one whose     *)
(* loss is not reported yet.                                                *)
THEOREM Live == Spec => []LiveMeansFed
<1>1. IInv => LiveMeansFed
  BY DEF IInv
<1> QED
  BY <1>1, Invariance, PTL
=============================================================================
