---------------------------- MODULE WorkersProofs ----------------------------
(***************************************************************************)
(* Proofs about Workers, for any set of calls, however they are gated, and  *)
(* any number of turns, messages and workers.                              *)
(*                                                                         *)
(* The runner that is not used stays as it was made (AtRest2, AtRest3), so *)
(* each step is one of the runner that is. For the tool loop the argument  *)
(* follows the transcript (Spoken: a reply, its results so far, its calls  *)
(* still open) and the memory of refusals (Remembered). For the harness it *)
(* follows what the child said through the event queue into the row        *)
(* (Reported), and what the child can still hear (Posted).                 *)
(***************************************************************************)
EXTENDS Workers, SequenceTheorems, TLAPS

(* The tool loop.                                                          *)
Sayable == Calls \cup T!Special
Entries == {<<"assistant", s>> : s \in Seq(Sayable)}
           \cup {<<"tool", c>> : c \in Sayable}
           \cup {<<"user", m>> : m \in (1 .. MaxMessages) \cup {"nudge"}}

(* A reply is being answered: its first calls have their results, in order, *)
(* and the rest are those still to be answered.                            *)
Answering(f, open) ==
    \E reply \in Seq(Sayable), k \in Nat :
        /\ Len(f) = k + 1 /\ Len(reply) = k + Len(open)
        /\ f[1] = <<"assistant", reply>>
        /\ \A i \in 1 .. k : f[i + 1] = <<"tool", reply[i]>>
        /\ \A i \in 1 .. Len(open) : open[i] = reply[k + i]

(* ... or all of them have, and what was said since is the initiator's.    *)
Answered(f) ==
    \/ f = <<>>
    \/ f[1][1] = "user"
    \/ \E reply \in Seq(Sayable) :
          /\ f[1] = <<"assistant", reply>> /\ Len(f) > Len(reply)
          /\ \A i \in 1 .. Len(reply) : f[i + 1] = <<"tool", reply[i]>>
          /\ \A i \in Len(reply) + 2 .. Len(f) : f[i][1] = "user"

Spoken ==
    /\ fresh \in Seq(Entries)
    /\ at \in {"new", "top", "model"} => Answered(fresh)
    /\ at \in {"calls", "parked", "tool"} => calls # <<>> /\ Answering(fresh, calls)

(* Where the loop is says how many turns it has and whose call it is at.   *)
Looping ==
    /\ at \in {"model", "calls", "parked", "tool"} => turn < MaxTurns
    /\ at \in {"parked", "tool"} => Head(calls) \in Calls

(* A refusal is remembered, but while its worker has not heard it.         *)
Remembered ==
    /\ \A c \in refused : c \in denied \/ (at = "parked" /\ Head(calls) = c /\ card[c] = "denied")
    /\ at \in {"parked", "tool"} => Head(calls) \notin denied

AtRest3 == stage = "new" /\ child = "none" /\ said = <<>>

Loop == /\ tier = 2 /\ T!TypeOK /\ Spoken /\ Looping /\ Remembered
        /\ T!ReadInOrder /\ T!PendingIsParked /\ T!TouchedIsListed /\ AtRest3

-----------------------------------------------------------------------------
(* The harness.                                                            *)
Text == <<<<"text">>>>
Fatal == <<<<"fatal">>>>

(* Nothing happens between a callback and the runner's turn, so the queue   *)
(* holds what one callback pushed, less what was taken.                    *)
Queued(r) == queue = <<H!TurnEnd(r)>> \/ queue = <<<<"text">>, H!TurnEnd(r)>>
Quick == queue = <<>> \/ queue = Text \/ queue = Fatal \/ \E r \in H!Results : Queued(r)

Final == IF said = <<>> THEN "none" ELSE said[Len(said)]

(* Before there is a child, and after.                                     *)
Staged ==
    /\ stage \in {"new", "parked", "cleared"} =>
          /\ child = "none" /\ run \in {"none", "created"} /\ queue = <<>> /\ ~closed
          /\ said = <<>> /\ last = "none" /\ ~fatalError /\ ~fatalPushed /\ ~killed
          /\ stdin = "open" /\ mirror = "none" /\ ~grace
    /\ stage = "events" => child # "none" /\ run = "streaming"
    /\ stage = "over" /\ child # "none" => closed
    /\ child = "none" => said = <<>>

(* What the child last said is in the queue or was taken; a fatal event is *)
(* in the queue or was taken; and a closed queue of a child that has not   *)
(* exited had one.                                                         *)
Reported ==
    /\ Quick
    /\ stage = "events" =>
          /\ \A r \in H!Results : Queued(r) => Final = r
          /\ (\A r \in H!Results : ~Queued(r)) => last = Final
          /\ fatalPushed => fatalError \/ queue = Fatal
          /\ closed => child = "exited" \/ fatalPushed
    /\ stage = "over" /\ child # "none" /\ run \in {"succeeded", "failed"} =>
          fatalError \/ (child = "exited" /\ (run = "succeeded" <=> Final = "text"))
    /\ stage = "over" /\ child = "running" => fatalPushed

(* The first n messages, as they were sent.                                *)
Sent(n) == [i \in 1 .. n |-> i]

(* A child that can be written to has heard or is about to hear all that   *)
(* was sent.                                                               *)
Posted ==
    child = "none" \/ H!Writable => heard \o inbox = Sent(told)

AtRest2 == /\ at = "new" /\ fresh = <<>> /\ refused = {} /\ effects = {}
           /\ card = [c \in Calls |-> "none"]

Session == /\ tier = 3 /\ H!TypeOK /\ Staged /\ Reported /\ Posted
           /\ H!HeardIsPrefix /\ H!NothingOutlivesRun /\ AtRest2

IInv == Loop \/ Session

-----------------------------------------------------------------------------
(* What answering a call does to the transcript: the first open call has its *)
(* result, and the reply is answered or the rest of its calls are open.    *)
LEMMA AnswerKeeps ==
  ASSUME NEW f \in Seq(Entries), NEW open \in Seq(Sayable), open # <<>>, Answering(f, open)
  PROVE  LET g == Append(f, <<"tool", Head(open)>>)
         IN  /\ g \in Seq(Entries)
             /\ Len(open) = 1 => Answered(g)
             /\ Len(open) # 1 => Tail(open) # <<>> /\ Answering(g, Tail(open))
<1> DEFINE g == Append(f, <<"tool", Head(open)>>)
<1>1. Head(open) \in Sayable /\ Head(open) = open[1] /\ Len(open) \in Nat \ {0}
  OBVIOUS
<1>2. g \in Seq(Entries) /\ Len(g) = Len(f) + 1 /\ g[Len(f) + 1] = <<"tool", open[1]>>
      /\ \A i \in 1 .. Len(f) : g[i] = f[i]
  <2>1. <<"tool", Head(open)>> \in Entries
    BY <1>1 DEF Entries
  <2> QED
    BY <1>1, <2>1
<1>3. PICK reply \in Seq(Sayable), k \in Nat :
          /\ Len(f) = k + 1 /\ Len(reply) = k + Len(open)
          /\ f[1] = <<"assistant", reply>>
          /\ \A i \in 1 .. k : f[i + 1] = <<"tool", reply[i]>>
          /\ \A i \in 1 .. Len(open) : open[i] = reply[k + i]
  BY DEF Answering
<1>4. g[1] = <<"assistant", reply>> /\ Len(g) = k + 2
  BY <1>2, <1>3
<1>5. \A i \in 1 .. k + 1 : g[i + 1] = <<"tool", reply[i]>>
  <2> SUFFICES ASSUME NEW i \in 1 .. k + 1  PROVE g[i + 1] = <<"tool", reply[i]>>
    OBVIOUS
  <2>1. CASE i = k + 1
    BY <2>1, <1>1, <1>2, <1>3
  <2>2. CASE i # k + 1
    <3>1. i \in 1 .. k /\ i + 1 \in 1 .. Len(f)
      BY <2>2, <1>3
    <3> QED
      BY <3>1, <1>2, <1>3
  <2> QED
    BY <2>1, <2>2
<1>6. CASE Len(open) = 1
  <2>1. Len(reply) = k + 1 /\ Len(g) > Len(reply)
    BY <1>3, <1>4, <1>6
  <2>2. \A i \in Len(reply) + 2 .. Len(g) : g[i][1] = "user"
    BY <1>4, <2>1
  <2>3. Answered(g)
    BY <1>4, <1>5, <2>1, <2>2 DEF Answered
  <2> QED
    BY <1>2, <1>6, <2>3
<1>7. CASE Len(open) # 1
  <2>1. /\ Tail(open) # <<>> /\ Len(Tail(open)) = Len(open) - 1
        /\ \A i \in 1 .. Len(Tail(open)) : Tail(open)[i] = open[i + 1]
    <3>1. /\ Tail(open) \in Seq(Sayable) /\ Len(Tail(open)) = Len(open) - 1
          /\ \A i \in 1 .. Len(Tail(open)) : Tail(open)[i] = open[i + 1]
      BY HeadTailProperties
    <3>2. Len(open) - 1 # 0
      BY <1>1, <1>7
    <3> QED
      BY <3>1, <3>2
  <2>2. \A i \in 1 .. Len(Tail(open)) : Tail(open)[i] = reply[k + 1 + i]
    <3> SUFFICES ASSUME NEW i \in 1 .. Len(Tail(open))  PROVE Tail(open)[i] = reply[k + 1 + i]
      OBVIOUS
    <3>1. i + 1 \in 1 .. Len(open) /\ k + (i + 1) = k + 1 + i
      BY <1>1, <2>1
    <3> QED
      BY <2>1, <1>3, <3>1
  <2>3. Len(g) = (k + 1) + 1 /\ Len(reply) = (k + 1) + Len(Tail(open)) /\ k + 1 \in Nat
    BY <1>1, <1>3, <1>4, <2>1
  <2>4. Answering(g, Tail(open))
    BY <1>4, <1>5, <2>2, <2>3 DEF Answering
  <2> QED
    BY <1>2, <1>7, <2>1, <2>4
<1> QED
  BY <1>6, <1>7

(* The initiator's messages may follow a reply that is answered, and nothing *)
(* else does.                                                              *)
LEMMA MailKeeps ==
  ASSUME NEW f \in Seq(Entries), Answered(f), NEW box \in Seq(1 .. MaxMessages)
  PROVE  LET g == f \o [i \in DOMAIN box |-> <<"user", box[i]>>]
         IN  g \in Seq(Entries) /\ Answered(g)
<1> DEFINE mail == [i \in DOMAIN box |-> <<"user", box[i]>>]
           g == f \o mail
<1> SUFFICES g \in Seq(Entries) /\ Answered(g)
  OBVIOUS
<1>1. Len(box) \in Nat /\ DOMAIN box = 1 .. Len(box)
  OBVIOUS
<1>2. mail \in Seq(Entries) /\ Len(mail) = Len(box)
      /\ \A i \in 1 .. Len(box) : mail[i] = <<"user", box[i]>>
  <2>1. \A i \in 1 .. Len(box) : <<"user", box[i]>> \in Entries
    <3>1. \A i \in 1 .. Len(box) : box[i] \in 1 .. MaxMessages
      BY ElementOfSeq
    <3> QED
      BY <3>1 DEF Entries
  <2>2. mail \in [1 .. Len(box) -> Entries]
    BY <1>1, <2>1
  <2>3. \A i \in 1 .. Len(box) : mail[i] = <<"user", box[i]>>
    BY <1>1
  <2> QED
    BY <1>1, <2>2, <2>3
<1> HIDE DEF mail
<1>3. /\ g \in Seq(Entries) /\ Len(g) = Len(f) + Len(box)
      /\ \A i \in 1 .. Len(f) : g[i] = f[i]
      /\ \A i \in Len(f) + 1 .. Len(g) : g[i][1] = "user"
  <2>1. /\ g \in Seq(Entries) /\ Len(g) = Len(f) + Len(mail)
        /\ \A i \in 1 .. Len(f) + Len(mail) : g[i] = IF i <= Len(f) THEN f[i] ELSE mail[i - Len(f)]
    BY <1>2, ConcatProperties
  <2>2. \A i \in Len(f) + 1 .. Len(g) : g[i][1] = "user"
    <3> SUFFICES ASSUME NEW i \in Len(f) + 1 .. Len(g)  PROVE g[i][1] = "user"
      OBVIOUS
    <3>1. i - Len(f) \in 1 .. Len(box) /\ g[i] = mail[i - Len(f)]
      BY <1>1, <1>2, <2>1
    <3> QED
      BY <1>2, <3>1
  <2> QED
    BY <1>1, <1>2, <2>1, <2>2
<1> HIDE DEF g
<1>4. CASE f = <<>>
  <2>1. CASE box = <<>>
    BY <1>3, <1>4, <2>1 DEF Answered
  <2>2. CASE box # <<>>
    <3>1. 1 \in Len(f) + 1 .. Len(g)
      BY <1>1, <1>3, <1>4, <2>2
    <3> QED
      BY <1>3, <3>1 DEF Answered
  <2> QED
    BY <2>1, <2>2
<1>5. CASE f # <<>> /\ f[1][1] = "user"
  <2>1. 1 \in 1 .. Len(f)
    BY <1>5
  <2>2. g[1][1] = "user"
    BY <1>3, <1>5, <2>1
  <2> QED
    BY <1>3, <2>2 DEF Answered
<1>6. CASE \E reply \in Seq(Sayable) :
          /\ f[1] = <<"assistant", reply>> /\ Len(f) > Len(reply)
          /\ \A i \in 1 .. Len(reply) : f[i + 1] = <<"tool", reply[i]>>
          /\ \A i \in Len(reply) + 2 .. Len(f) : f[i][1] = "user"
  <2>1. PICK reply \in Seq(Sayable) :
          /\ f[1] = <<"assistant", reply>> /\ Len(f) > Len(reply)
          /\ \A i \in 1 .. Len(reply) : f[i + 1] = <<"tool", reply[i]>>
          /\ \A i \in Len(reply) + 2 .. Len(f) : f[i][1] = "user"
    BY <1>6
  <2>2. Len(reply) \in Nat /\ Len(f) \in Nat
    OBVIOUS
  <2>3. g[1] = <<"assistant", reply>> /\ Len(g) > Len(reply)
    <3>1. Len(g) = Len(f) + Len(box) /\ \A i \in 1 .. Len(f) : g[i] = f[i]
      BY <1>3
    <3>2. 1 \in 1 .. Len(f) /\ Len(f) + Len(box) > Len(reply)
      BY <1>1, <2>1, <2>2
    <3> QED
      BY <2>1, <3>1, <3>2
  <2>4. \A i \in 1 .. Len(reply) : g[i + 1] = <<"tool", reply[i]>>
    <3> SUFFICES ASSUME NEW i \in 1 .. Len(reply)  PROVE g[i + 1] = <<"tool", reply[i]>>
      OBVIOUS
    <3>1. i + 1 \in 1 .. Len(f)
      BY <2>1, <2>2
    <3> QED
      BY <1>3, <2>1, <3>1
  <2>5. \A i \in Len(reply) + 2 .. Len(g) : g[i][1] = "user"
    <3> SUFFICES ASSUME NEW i \in Len(reply) + 2 .. Len(g)  PROVE g[i][1] = "user"
      OBVIOUS
    <3>1. CASE i <= Len(f)
      <4>1. i \in Len(reply) + 2 .. Len(f) /\ i \in 1 .. Len(f)
        BY <2>2, <3>1
      <4> QED
        BY <1>3, <2>1, <4>1
    <3>2. CASE i > Len(f)
      <4>1. i \in Len(f) + 1 .. Len(g)
        BY <2>2, <3>2
      <4> QED
        BY <1>3, <4>1
    <3> QED
      BY <2>2, <3>1, <3>2
  <2>6. Answered(g)
    BY <2>3, <2>4, <2>5 DEF Answered
  <2> QED
    BY <1>3, <2>6
<1> QED
  BY <1>4, <1>5, <1>6 DEF Answered

(* What the loop hands to the model is a transcript providers accept.      *)
LEMMA AnsweredIsCoherent ==
  ASSUME at = "model" => Answered(fresh)
  PROVE  T!Coherent
<1> SUFFICES ASSUME at = "model", fresh # <<>>, fresh[1][1] = "assistant"
             PROVE  LET reply == fresh[1][2]
                    IN  /\ Len(fresh) > Len(reply)
                        /\ \A i \in DOMAIN reply : fresh[i + 1] = <<"tool", reply[i]>>
                        /\ \A i \in Len(reply) + 2 .. Len(fresh) : fresh[i][1] = "user"
  BY DEF T!Coherent
<1>1. PICK reply \in Seq(Sayable) :
          /\ fresh[1] = <<"assistant", reply>> /\ Len(fresh) > Len(reply)
          /\ \A i \in 1 .. Len(reply) : fresh[i + 1] = <<"tool", reply[i]>>
          /\ \A i \in Len(reply) + 2 .. Len(fresh) : fresh[i][1] = "user"
  BY DEF Answered
<1>2. fresh[1][2] = reply /\ DOMAIN reply = 1 .. Len(reply)
  BY <1>1
<1> QED
  BY <1>1, <1>2

(* One more message is sent: what was read and what waits are still all that *)
(* was sent, in order.  Both runners have this inbox.                      *)
LEMMA SendKeepsOrder ==
  ASSUME NEW n \in Nat, NEW S, NEW read \in Seq(S), NEW box \in Seq(S), n + 1 \in S,
         read \o box = Sent(n)
  PROVE  read \o Append(box, n + 1) = Sent(n + 1)
<1> DEFINE all == [i \in 1 .. n + 1 |-> i]
<1> USE DEF Sent
<1>1. /\ Append(box, n + 1) \in Seq(S) /\ Len(Append(box, n + 1)) = Len(box) + 1
      /\ \A i \in 1 .. Len(box) : Append(box, n + 1)[i] = box[i]
      /\ Append(box, n + 1)[Len(box) + 1] = n + 1
  OBVIOUS
<1>2. /\ Len(read \o box) = Len(read) + Len(box)
      /\ \A i \in 1 .. Len(read) + Len(box) :
            (read \o box)[i] = IF i <= Len(read) THEN read[i] ELSE box[i - Len(read)]
  BY ConcatProperties
<1>3. Len(read) + Len(box) = n
  BY <1>2
<1>4. /\ read \o Append(box, n + 1) \in Seq(S)
      /\ Len(read \o Append(box, n + 1)) = n + 1
      /\ \A i \in 1 .. n + 1 : (read \o Append(box, n + 1))[i] =
            IF i <= Len(read) THEN read[i] ELSE Append(box, n + 1)[i - Len(read)]
  <2>1. Len(read) + (Len(box) + 1) = n + 1
    BY <1>3
  <2> QED
    BY <1>1, <2>1, ConcatProperties
<1>5. \A i \in 1 .. n + 1 : (read \o Append(box, n + 1))[i] = i
  <2> SUFFICES ASSUME NEW i \in 1 .. n + 1  PROVE (read \o Append(box, n + 1))[i] = i
    OBVIOUS
  <2>1. CASE i = n + 1
    <3>1. ~(i <= Len(read)) /\ i - Len(read) = Len(box) + 1
      BY <1>3, <2>1
    <3> QED
      BY <1>1, <1>4, <2>1, <3>1
  <2>2. CASE i # n + 1
    <3>1. i \in 1 .. n /\ (read \o box)[i] = i
      BY <2>2
    <3>2. CASE i <= Len(read)
      BY <1>2, <1>3, <1>4, <3>1, <3>2
    <3>3. CASE i > Len(read)
      <4>1. i - Len(read) \in 1 .. Len(box)
        BY <1>3, <3>1, <3>3
      <4>2. Append(box, n + 1)[i - Len(read)] = box[i - Len(read)]
        BY <1>1, <4>1
      <4> QED
        BY <1>2, <1>3, <1>4, <3>1, <3>3, <4>2
    <3> QED
      BY <3>2, <3>3
  <2> QED
    BY <2>1, <2>2
<1>6. /\ all \in Seq(Nat) /\ Len(all) = n + 1 /\ \A i \in 1 .. n + 1 : all[i] = i
  OBVIOUS
<1>7. read \o Append(box, n + 1) = all
  <2>1. DOMAIN (read \o Append(box, n + 1)) = 1 .. n + 1 /\ DOMAIN all = 1 .. n + 1
    BY <1>4
  <2>2. read \o Append(box, n + 1) \in [1 .. n + 1 -> S]
    BY <1>4, LenProperties
  <2> QED
    BY <1>5, <1>6, <2>1, <2>2
<1> QED
  BY <1>7

-----------------------------------------------------------------------------
(* The steps of the tool loop.  First the two that most of them share.     *)

(* A step that only moves the loop on, or ends it, leaves it as it should be. *)
LEMMA LoopMoves ==
  ASSUME Loop, T!TypeOK', UNCHANGED <<tier, tier3>>,
         UNCHANGED <<turn, denied, artifacts, calls, fresh, card, refused, effects, inbox, told, heard>>,
         \/ at' = at
         \/ at' = "over" /\ at \notin {"parked", "tool"}
         \/ at' = "top" /\ at = "new"
         \/ at' = "tool" /\ at = "parked" /\ card[Head(calls)] = "approved"
  PROVE  Loop'
<1>1. tier' = 2 /\ AtRest3'
  BY DEF Loop, AtRest3, tier3
<1>2. Spoken'
  <2>1. Spoken
    BY DEF Loop
  <2>2. fresh' \in Seq(Entries)
    BY <2>1 DEF Spoken
  <2>3. at' \in {"new", "top", "model"} => Answered(fresh')
    BY <2>1 DEF Spoken
  <2>4. at' \in {"calls", "parked", "tool"} => calls' # <<>> /\ Answering(fresh', calls')
    BY <2>1 DEF Spoken
  <2> QED
    BY <2>2, <2>3, <2>4 DEF Spoken
<1>3. Looping'
  <2>1. Looping
    BY DEF Loop
  <2> QED
    BY <2>1 DEF Looping
<1>4. Remembered'
  <2>1. Remembered /\ T!TypeOK
    BY DEF Loop
  <2> QED
    BY <2>1 DEF Remembered
<1>5. T!ReadInOrder'
  BY DEF Loop, T!ReadInOrder
<1>6. T!PendingIsParked'
  <2>1. T!PendingIsParked
    BY DEF Loop
  <2> QED
    BY <2>1 DEF T!PendingIsParked
<1>7. T!TouchedIsListed'
  BY DEF Loop, T!TouchedIsListed
<1> QED
  BY <1>1, <1>2, <1>3, <1>4, <1>5, <1>6, <1>7 DEF Loop

(* The message that answers a call leaves the transcript in order, and the  *)
(* loop at the next call or the next turn.                                 *)
LEMMA AnswerStep ==
  ASSUME Loop, at \in {"calls", "parked", "tool"}, T!Answer
  PROVE  /\ Spoken' /\ Looping' /\ at' \in {"top", "calls"}
         /\ calls' \in Seq(Calls \cup T!Special) /\ turn' \in 0 .. MaxTurns
<1>1. /\ fresh \in Seq(Entries) /\ calls \in Seq(Sayable) /\ calls # <<>>
      /\ Answering(fresh, calls)
  BY DEF Loop, Spoken, T!TypeOK, Sayable
<1>2. turn \in 0 .. MaxTurns /\ turn < MaxTurns /\ MaxTurns \in Nat
  BY RunnersAssumption DEF Loop, Looping, T!TypeOK, T!Tier2Assumption
<1>3. fresh' = Append(fresh, <<"tool", Head(calls)>>) /\ calls' = Tail(calls)
  BY DEF T!Answer
<1>4. /\ fresh' \in Seq(Entries)
      /\ Len(calls) = 1 => Answered(fresh')
      /\ Len(calls) # 1 => calls' # <<>> /\ Answering(fresh', calls')
  BY <1>1, <1>3, AnswerKeeps
<1>5. calls' \in Seq(Calls \cup T!Special)
  BY <1>1, <1>3, HeadTailProperties DEF Sayable
<1>6. CASE Len(calls) = 1
  <2>1. at' = "top" /\ turn' = turn + 1
    BY <1>6 DEF T!Answer
  <2> QED
    BY <1>2, <1>4, <1>5, <1>6, <2>1 DEF Spoken, Looping
<1>7. CASE Len(calls) # 1
  <2>1. at' = "calls" /\ turn' = turn
    BY <1>7 DEF T!Answer
  <2> QED
    BY <1>2, <1>4, <1>5, <1>7, <2>1 DEF Spoken, Looping
<1> QED
  BY <1>6, <1>7

(* The run begins, or its task was cancelled before.                       *)
LEMMA LoopBegin ==
  ASSUME Loop, T!Begin, UNCHANGED <<tier, tier3>>
  PROVE  Loop'
<1> USE DEF T!Begin, T!CloseCancelled, T!End, T!KeepLoop, T!KeepGate, T!KeepMail
<1>1. run' \in {"cancelled", "streaming"} /\ at' \in {"over", "top"}
  BY Zenon
<1>2. T!TypeOK'
  BY <1>1 DEF Loop, T!TypeOK, T!Places
<1> QED
  BY <1>1, <1>2, LoopMoves

(* A turn boundary: the messages that were waiting follow what was said.   *)
LEMMA LoopTop ==
  ASSUME Loop, T!Top, UNCHANGED <<tier, tier3>>
  PROVE  Loop'
<1>1. CASE at' = "over" /\ UNCHANGED <<fresh, inbox, heard>>
  <2>1. run' \in {"failed", "cancelled"}
    BY <1>1 DEF T!Top, T!CloseCancelled, T!End
  <2>2. T!TypeOK'
    BY <1>1, <2>1 DEF Loop, T!Top, T!TypeOK, T!Places, T!KeepGate
  <2> QED
    BY <1>1, <2>2, LoopMoves DEF T!Top, T!KeepGate
<1>2. CASE at' = "model"
  <2>1. /\ at = "top" /\ turn < MaxTurns /\ inbox' = <<>> /\ heard' = heard \o inbox
        /\ fresh' = fresh \o [i \in DOMAIN inbox |-> <<"user", inbox[i]>>]
    BY <1>2 DEF T!Top, T!CloseCancelled, T!End
  <2>2. inbox \in Seq(1 .. MaxMessages) /\ heard \in Seq(1 .. MaxMessages)
    BY DEF Loop, T!TypeOK
  <2>3. T!TypeOK'
    <3>1. inbox' \in Seq(1 .. MaxMessages) /\ heard' \in Seq(1 .. MaxMessages)
      BY <2>1, <2>2, ConcatProperties, EmptySeq
    <3>2. at' \in T!Places
      BY <1>2 DEF T!Places
    <3>3. run' = run
      BY <1>2 DEF T!Top, T!CloseCancelled, T!End
    <3> QED
      BY <3>1, <3>2, <3>3 DEF Loop, T!Top, T!TypeOK, T!KeepGate
  <2>4. Spoken'
    <3>1. fresh \in Seq(Entries) /\ Answered(fresh)
      BY <2>1 DEF Loop, Spoken
    <3>2. fresh' \in Seq(Entries) /\ Answered(fresh')
      BY <2>1, <2>2, <3>1, MailKeeps
    <3> QED
      BY <1>2, <3>2 DEF Spoken
  <2>5. T!ReadInOrder'
    <3>1. heard' \o inbox' = heard \o inbox
      BY <2>1, <2>2, ConcatProperties, ConcatEmptySeq
    <3>2. told' = told
      BY DEF T!Top
    <3> QED
      BY <3>1, <3>2 DEF Loop, T!ReadInOrder
  <2>6. Looping' /\ Remembered' /\ T!PendingIsParked' /\ T!TouchedIsListed'
    BY <1>2, <2>1 DEF Loop, Looping, Remembered, T!PendingIsParked, T!TouchedIsListed, T!Top, T!KeepGate
  <2>7. tier' = 2 /\ AtRest3'
    BY DEF Loop, AtRest3, tier3
  <2> QED
    BY <2>3, <2>4, <2>5, <2>6, <2>7 DEF Loop
<1> QED
  BY <1>1, <1>2 DEF T!Top, T!CloseCancelled, T!End

(* The model call fails, is cut off, or is answered in prose: but for the   *)
(* one nudge, that ends the run.                                           *)
LEMMA LoopModelEnds ==
  ASSUME Loop, T!ModelFails \/ T!Truncated, UNCHANGED <<tier, tier3>>
  PROVE  Loop'
<1>1. CASE T!ModelFails
  <2> USE <1>1 DEF T!ModelFails, T!CloseCancelled, T!End, T!KeepLoop, T!KeepGate, T!KeepMail
  <2>1. run' \in {"cancelled", "failed"} /\ at' = "over" /\ at = "model"
    BY Zenon
  <2>2. T!TypeOK'
    BY <2>1 DEF Loop, T!TypeOK, T!Places
  <2> QED
    BY <2>1, <2>2, LoopMoves
<1>2. CASE T!Truncated
  <2> USE <1>2 DEF T!Truncated, T!End, T!KeepGate, T!KeepMail
  <2>1. prose' \in BOOLEAN
    BY Zenon DEF Loop, T!TypeOK
  <2>2. T!TypeOK'
    BY <2>1 DEF Loop, T!TypeOK, T!Places
  <2> QED
    BY <2>2, LoopMoves
<1> QED
  BY <1>1, <1>2

(* Prose: after the nudge the transcript is a reply without calls and a    *)
(* message, which is answered.                                             *)
LEMMA LoopProse ==
  ASSUME Loop, NEW text \in BOOLEAN, T!Prose(text), UNCHANGED <<tier, tier3>>
  PROVE  Loop'
<1>1. prose' \in BOOLEAN
  BY Zenon DEF T!Prose, Loop, T!TypeOK
<1>2. /\ at = "model"
      /\ UNCHANGED <<denied, artifacts, calls, aborted, gate, auto, card, refused, effects,
                     inbox, told, heard, runs>>
  BY DEF T!Prose, T!KeepGate, T!KeepMail
<1>3. CASE at' = "over" /\ run' \in {"succeeded", "failed"} /\ UNCHANGED <<turn, nudged, fresh>>
  <2>1. T!TypeOK'
    BY <1>1, <1>2, <1>3 DEF Loop, T!TypeOK, T!Places
  <2> QED
    BY <1>2, <1>3, <2>1, LoopMoves
<1>4. CASE /\ at' = "top" /\ nudged' \in BOOLEAN /\ turn' = turn + 1 /\ UNCHANGED run
           /\ fresh' = <<<<"assistant", <<>>>>, <<"user", "nudge">>>>
  <2>1. turn' \in 0 .. MaxTurns
    BY <1>2, <1>4, RunnersAssumption DEF Loop, Looping, T!TypeOK, T!Tier2Assumption
  <2>2. T!TypeOK'
    BY <1>1, <1>2, <1>4, <2>1 DEF Loop, T!TypeOK, T!Places
  <2>3. Spoken'
    <3>1. <<>> \in Seq(Sayable) /\ Len(<<>>) = 0
      BY EmptySeq
    <3>2. <<"assistant", <<>>>> \in Entries /\ <<"user", "nudge">> \in Entries
      BY <3>1 DEF Entries
    <3>3. /\ fresh' \in Seq(Entries) /\ Len(fresh') = 2
          /\ fresh'[1] = <<"assistant", <<>>>> /\ fresh'[2] = <<"user", "nudge">>
      BY <1>4, <3>2
    <3>4. Answered(fresh')
      <4> DEFINE none == <<>>
      <4>1. /\ none \in Seq(Sayable) /\ fresh'[1] = <<"assistant", none>> /\ Len(fresh') > Len(none)
            /\ \A i \in 1 .. Len(none) : fresh'[i + 1] = <<"tool", none[i]>>
        BY <3>1, <3>3
      <4>2. \A i \in Len(none) + 2 .. Len(fresh') : fresh'[i][1] = "user"
        <5> SUFFICES ASSUME NEW i \in Len(none) + 2 .. Len(fresh')  PROVE fresh'[i][1] = "user"
          OBVIOUS
        <5>1. i = 2
          BY <3>1, <3>3
        <5> QED
          BY <3>3, <5>1
      <4> HIDE DEF none
      <4> QED
        BY <4>1, <4>2 DEF Answered
    <3> QED
      BY <1>4, <3>3, <3>4 DEF Spoken
  <2>4. Looping' /\ Remembered' /\ T!PendingIsParked' /\ T!TouchedIsListed' /\ T!ReadInOrder'
    BY <1>2, <1>4
       DEF Loop, Looping, Remembered, T!PendingIsParked, T!TouchedIsListed, T!ReadInOrder
  <2>5. tier' = 2 /\ AtRest3'
    BY DEF Loop, AtRest3, tier3
  <2> QED
    BY <2>2, <2>3, <2>4, <2>5 DEF Loop
<1> QED
  <2>1. nudged' \in BOOLEAN
    BY Zenon DEF T!Prose, Loop, T!TypeOK
  <2> QED
    BY <1>3, <1>4, <2>1 DEF T!Prose, T!End

(* A reply: its calls are open.                                            *)
LEMMA LoopReplies ==
  ASSUME Loop, T!Replies, UNCHANGED <<tier, tier3>>
  PROVE  Loop'
<1>1. /\ at = "model" /\ at' = "calls" /\ fresh' = <<<<"assistant", calls'>>>>
      /\ UNCHANGED <<run, turn, nudged, prose, denied, artifacts, aborted, gate, auto, card, refused,
                     effects, inbox, told, heard>>
  BY DEF T!Replies, T!KeepGate, T!KeepMail
<1>2. calls' \in Seq(Calls \cup T!Special) /\ calls' # <<>>
  <2>1. calls' \in {<<c>> : c \in Calls \cup T!Special}
                  \cup {<<c, d>> : c \in Calls \cup {"bad"}, d \in Calls \cup T!Reports}
    BY DEF T!Replies
  <2>2. CASE \E c \in Calls \cup T!Special : calls' = <<c>>
    BY <2>2
  <2>3. CASE \E c \in Calls \cup {"bad"}, d \in Calls \cup T!Reports : calls' = <<c, d>>
    <3>1. PICK c \in Calls \cup {"bad"}, d \in Calls \cup T!Reports : calls' = <<c, d>>
      BY <2>3
    <3>2. c \in Calls \cup T!Special /\ d \in Calls \cup T!Special
      BY DEF T!Special
    <3> QED
      BY <3>1, <3>2
  <2> QED
    BY <2>1, <2>2, <2>3
<1>3. T!TypeOK'
  BY <1>1, <1>2 DEF Loop, T!TypeOK, T!Places
<1>4. Spoken'
  <2>1. calls' \in Seq(Sayable)
    BY <1>2 DEF Sayable
  <2>2. <<"assistant", calls'>> \in Entries
    BY <2>1 DEF Entries
  <2>3. fresh' \in Seq(Entries) /\ Len(fresh') = 1 /\ fresh'[1] = <<"assistant", calls'>>
    BY <1>1, <2>2
  <2>4. /\ Len(fresh') = 0 + 1 /\ Len(calls') = 0 + Len(calls')
        /\ \A i \in 1 .. Len(calls') : calls'[i] = calls'[0 + i]
    BY <2>1, <2>3
  <2>5. Answering(fresh', calls')
    <3>1. \A i \in 1 .. 0 : fresh'[i + 1] = <<"tool", calls'[i]>>
      OBVIOUS
    <3> QED
      BY <2>1, <2>3, <2>4, <3>1 DEF Answering
  <2> QED
    BY <1>1, <1>2, <2>3, <2>5 DEF Spoken
<1>5. Looping' /\ Remembered' /\ T!PendingIsParked' /\ T!TouchedIsListed' /\ T!ReadInOrder'
  BY <1>1 DEF Loop, Looping, Remembered, T!PendingIsParked, T!TouchedIsListed, T!ReadInOrder
<1>6. tier' = 2 /\ AtRest3'
  BY DEF Loop, AtRest3, tier3
<1> QED
  BY <1>3, <1>4, <1>5, <1>6 DEF Loop

(* The loop is stopped at a call, or the call is the report.               *)
LEMMA LoopCallEnds ==
  ASSUME Loop, T!ActCancelled \/ T!Report, UNCHANGED <<tier, tier3>>
  PROVE  Loop'
<1> USE DEF T!ActCancelled, T!Report, T!CloseCancelled, T!End, T!KeepLoop, T!KeepGate, T!KeepMail
<1>1. /\ run' \in {"cancelled", "failed", "succeeded"} /\ at' = "over" /\ at = "calls"
      /\ UNCHANGED <<turn, nudged, prose, denied, artifacts, calls, fresh, gate, auto, card, refused,
                     effects, inbox, told, heard, runs, aborted>>
  OBVIOUS
<1>2. T!TypeOK'
  BY <1>1 DEF Loop, T!TypeOK, T!Places
<1> QED
  BY <1>1, <1>2, LoopMoves

(* A call that is answered without asking anyone.                          *)
LEMMA LoopAnsweredAtOnce ==
  ASSUME Loop, T!AnsweredAtOnce, UNCHANGED <<tier, tier3>>
  PROVE  Loop'
<1>1. /\ at = "calls"
      /\ UNCHANGED <<run, nudged, prose, denied, artifacts, aborted, gate, auto, card, refused,
                     effects, inbox, told, heard>>
  BY DEF T!AnsweredAtOnce, T!KeepGate, T!KeepMail
<1>2. /\ Spoken' /\ Looping' /\ at' \in {"top", "calls"}
      /\ calls' \in Seq(Calls \cup T!Special) /\ turn' \in 0 .. MaxTurns
  BY <1>1, AnswerStep DEF T!AnsweredAtOnce
<1>3. T!TypeOK'
  BY <1>1, <1>2 DEF Loop, T!TypeOK, T!Places
<1>4. Remembered' /\ T!PendingIsParked' /\ T!TouchedIsListed' /\ T!ReadInOrder'
  BY <1>1, <1>2 DEF Loop, Remembered, T!PendingIsParked, T!TouchedIsListed, T!ReadInOrder
<1>5. tier' = 2 /\ AtRest3'
  BY DEF Loop, AtRest3, tier3
<1> QED
  BY <1>2, <1>3, <1>4, <1>5 DEF Loop

(* A tool starts without a question: its card, if it has one, says so.     *)
LEMMA LoopStartsTool ==
  ASSUME Loop, T!StartsTool, UNCHANGED <<tier, tier3>>
  PROVE  Loop'
<1>1. /\ at = "calls" /\ at' = "tool" /\ Head(calls) \in Calls \ denied
      /\ card' = IF Head(calls) \in Gated THEN [card EXCEPT ![Head(calls)] = "auto"] ELSE card
      /\ UNCHANGED <<run, turn, nudged, prose, denied, artifacts, calls, fresh, aborted, gate, auto,
                     refused, effects, inbox, told, heard>>
  BY DEF T!StartsTool, T!KeepLoop, T!KeepMail
<1>2. card' \in [Calls -> {"none", "auto", "pending", "approved", "denied"}]
  BY <1>1 DEF Loop, T!TypeOK
<1>3. T!TypeOK'
  BY <1>1, <1>2 DEF Loop, T!TypeOK, T!Places
<1>4. Spoken' /\ Looping'
  BY <1>1 DEF Loop, Spoken, Looping
<1>5. Remembered'
  BY <1>1 DEF Loop, Remembered
<1>6. T!PendingIsParked'
  <2>1. \A c \in Calls : card'[c] # "pending"
    BY <1>1 DEF Loop, T!PendingIsParked, T!TypeOK
  <2> QED
    BY <2>1 DEF T!PendingIsParked
<1>7. T!TouchedIsListed' /\ T!ReadInOrder'
  BY <1>1 DEF Loop, T!TouchedIsListed, T!ReadInOrder
<1>8. tier' = 2 /\ AtRest3'
  BY DEF Loop, AtRest3, tier3
<1> QED
  BY <1>3, <1>4, <1>5, <1>6, <1>7, <1>8 DEF Loop

(* A card is opened, and its worker parked on it.                          *)
LEMMA LoopAsks ==
  ASSUME Loop, T!Asks, UNCHANGED <<tier, tier3>>
  PROVE  Loop'
<1>1. /\ at = "calls" /\ at' = "parked" /\ Head(calls) \in Calls \ denied
      /\ card' = [card EXCEPT ![Head(calls)] = "pending"]
      /\ UNCHANGED <<run, turn, nudged, prose, denied, artifacts, calls, fresh, aborted, gate, auto,
                     refused, effects, inbox, told, heard>>
  BY RunnersAssumption DEF T!Asks, T!KeepLoop, T!KeepMail, T!Tier2Assumption
<1>2. card' \in [Calls -> {"none", "auto", "pending", "approved", "denied"}]
  BY <1>1 DEF Loop, T!TypeOK
<1>3. T!TypeOK'
  BY <1>1, <1>2 DEF Loop, T!TypeOK, T!Places
<1>4. Spoken' /\ Looping'
  BY <1>1 DEF Loop, Spoken, Looping
<1>5. Remembered'
  BY <1>1 DEF Loop, Remembered
<1>6. T!PendingIsParked'
  <2>1. \A c \in Calls : card'[c] = "pending" => c = Head(calls)
    BY <1>1 DEF Loop, T!PendingIsParked, T!TypeOK
  <2> QED
    BY <1>1, <2>1 DEF T!PendingIsParked
<1>7. T!TouchedIsListed' /\ T!ReadInOrder'
  BY <1>1 DEF Loop, T!TouchedIsListed, T!ReadInOrder
<1>8. tier' = 2 /\ AtRest3'
  BY DEF Loop, AtRest3, tier3
<1> QED
  BY <1>3, <1>4, <1>5, <1>6, <1>7, <1>8 DEF Loop

(* A yes lets the parked call go on.                                       *)
LEMMA LoopAllowed ==
  ASSUME Loop, T!Allowed, UNCHANGED <<tier, tier3>>
  PROVE  Loop'
<1> USE DEF T!Allowed, T!KeepLoop, T!KeepGate, T!KeepMail
<1>1. T!TypeOK'
  BY DEF Loop, T!TypeOK, T!Places
<1> QED
  BY <1>1, LoopMoves

(* A no is remembered as it is told.                                       *)
LEMMA LoopDenied ==
  ASSUME Loop, T!Denied, UNCHANGED <<tier, tier3>>
  PROVE  Loop'
<1>1. /\ at = "parked" /\ card[Head(calls)] = "denied" /\ denied' = denied \cup {Head(calls)}
      /\ UNCHANGED <<run, nudged, prose, artifacts, aborted, gate, auto, card, refused, effects,
                     inbox, told, heard>>
  BY DEF T!Denied, T!KeepGate, T!KeepMail
<1>2. /\ Spoken' /\ Looping' /\ at' \in {"top", "calls"}
      /\ calls' \in Seq(Calls \cup T!Special) /\ turn' \in 0 .. MaxTurns
  BY <1>1, AnswerStep DEF T!Denied
<1>3. T!TypeOK'
  <2>1. Head(calls) \in Calls
    BY <1>1 DEF Loop, Looping
  <2> QED
    BY <1>1, <1>2, <2>1 DEF Loop, T!TypeOK, T!Places
<1>4. Remembered'
  BY <1>1, <1>2 DEF Loop, Remembered
<1>5. T!PendingIsParked'
  <2>1. \A c \in Calls : card[c] # "pending"
    BY <1>1 DEF Loop, T!PendingIsParked
  <2> QED
    BY <1>1, <2>1 DEF T!PendingIsParked
<1>6. T!TouchedIsListed' /\ T!ReadInOrder'
  BY <1>1 DEF Loop, T!TouchedIsListed, T!ReadInOrder
<1>7. tier' = 2 /\ AtRest3'
  BY DEF Loop, AtRest3, tier3
<1> QED
  BY <1>2, <1>3, <1>4, <1>5, <1>6, <1>7 DEF Loop

(* A tool ends: a file it wrote is in the report's list.                   *)
LEMMA LoopToolDone ==
  ASSUME Loop, T!ToolDone, UNCHANGED <<tier, tier3>>
  PROVE  Loop'
<1>1. /\ at = "tool" /\ effects' \in {effects, effects \cup {Head(calls)}}
      /\ artifacts' = IF Head(calls) \in Writes THEN artifacts \cup {Head(calls)} ELSE artifacts
      /\ UNCHANGED <<run, nudged, prose, denied, aborted, gate, auto, card, refused, inbox, told, heard>>
  BY DEF T!ToolDone, T!Artifacts, T!KeepMail
<1>2. /\ Spoken' /\ Looping' /\ at' \in {"top", "calls"}
      /\ calls' \in Seq(Calls \cup T!Special) /\ turn' \in 0 .. MaxTurns
  BY <1>1, AnswerStep DEF T!ToolDone
<1>3. T!TypeOK'
  <2>1. Head(calls) \in Calls
    BY <1>1 DEF Loop, Looping
  <2> QED
    BY <1>1, <1>2, <2>1 DEF Loop, T!TypeOK, T!Places
<1>4. Remembered'
  BY <1>1, <1>2 DEF Loop, Remembered
<1>5. T!PendingIsParked'
  BY <1>1 DEF Loop, T!PendingIsParked
<1>6. T!TouchedIsListed'
  BY <1>1 DEF Loop, T!TouchedIsListed
<1>7. T!ReadInOrder'
  BY <1>1 DEF Loop, T!ReadInOrder
<1>8. tier' = 2 /\ AtRest3'
  BY DEF Loop, AtRest3, tier3
<1> QED
  BY <1>2, <1>3, <1>4, <1>5, <1>6, <1>7, <1>8 DEF Loop

(* A message is sent, between two steps of the loop.                       *)
LEMMA LoopSend ==
  ASSUME Loop, T!Send, UNCHANGED <<tier, tier3>>
  PROVE  Loop'
<1>1. /\ told < MaxMessages /\ told' = told + 1 /\ inbox' = Append(inbox, told + 1)
      /\ UNCHANGED <<run, at, turn, nudged, prose, denied, artifacts, calls, fresh, aborted, gate, auto,
                     card, refused, effects, heard>>
  BY DEF T!Send, T!KeepLoop, T!KeepGate
<1>2. /\ told \in 0 .. MaxMessages /\ MaxMessages \in Nat
      /\ inbox \in Seq(1 .. MaxMessages) /\ heard \in Seq(1 .. MaxMessages)
  BY RunnersAssumption DEF Loop, T!TypeOK, T!Tier2Assumption
<1>3. told' \in 0 .. MaxMessages /\ inbox' \in Seq(1 .. MaxMessages)
  BY <1>1, <1>2
<1>4. T!TypeOK'
  BY <1>1, <1>3 DEF Loop, T!TypeOK
<1>5. T!ReadInOrder'
  <2>1. heard \o inbox = Sent(told)
    BY DEF Loop, T!ReadInOrder, Sent
  <2>2. told \in Nat /\ told + 1 \in 1 .. MaxMessages
    BY <1>1, <1>2
  <2>3. heard \o Append(inbox, told + 1) = Sent(told + 1)
    BY <1>2, <2>1, <2>2, SendKeepsOrder
  <2> QED
    BY <1>1, <2>3 DEF T!ReadInOrder, Sent
<1>6. Spoken' /\ Looping' /\ Remembered'
  BY <1>1 DEF Loop, Spoken, Looping, Remembered
<1>7. T!PendingIsParked' /\ T!TouchedIsListed'
  BY <1>1 DEF Loop, T!PendingIsParked, T!TouchedIsListed
<1>8. tier' = 2 /\ AtRest3'
  BY DEF Loop, AtRest3, tier3
<1> QED
  BY <1>4, <1>5, <1>6, <1>7, <1>8 DEF Loop

(* The worker is cancelled, or auto-approve flipped.                       *)
LEMMA LoopSignals ==
  ASSUME Loop, T!CancelWorker \/ T!FlipAuto, UNCHANGED <<tier, tier3>>
  PROVE  Loop'
<1> USE DEF T!CancelWorker, T!FlipAuto, T!KeepLoop, T!KeepGate, T!KeepMail
<1>1. aborted' \in BOOLEAN /\ auto' \in BOOLEAN
  BY Zenon DEF Loop, T!TypeOK
<1>2. UNCHANGED <<run, at, turn, nudged, prose, denied, artifacts, calls, fresh, gate, card, refused,
                  effects, inbox, told, heard>>
  OBVIOUS
<1>3. T!TypeOK'
  BY <1>1, <1>2 DEF Loop, T!TypeOK
<1> QED
  BY <1>2, <1>3, LoopMoves

(* The task is cancelled: the parked card is denied for it.                *)
LEMMA LoopCancelTask ==
  ASSUME Loop, T!CancelTask, UNCHANGED <<tier, tier3>>
  PROVE  Loop'
<1>1. /\ gate' = "cancelled"
      /\ card' = [c \in Calls |-> IF card[c] = "pending" THEN "denied" ELSE card[c]]
      /\ UNCHANGED <<run, at, turn, nudged, prose, denied, artifacts, calls, fresh, auto, refused,
                     effects, inbox, told, heard>>
  BY DEF T!CancelTask, T!KeepLoop, T!KeepMail
<1>2. aborted' \in BOOLEAN
  BY Zenon DEF T!CancelTask
<1>3. card' \in [Calls -> {"none", "auto", "pending", "approved", "denied"}]
  BY <1>1 DEF Loop, T!TypeOK
<1>4. T!TypeOK'
  BY <1>1, <1>2, <1>3 DEF Loop, T!TypeOK
<1>5. Spoken' /\ Looping'
  BY <1>1 DEF Loop, Spoken, Looping
<1>6. Remembered'
  BY <1>1 DEF Loop, Remembered, Looping
<1>7. T!PendingIsParked'
  BY <1>1 DEF T!PendingIsParked
<1>8. T!TouchedIsListed' /\ T!ReadInOrder'
  BY <1>1 DEF Loop, T!TouchedIsListed, T!ReadInOrder
<1>9. tier' = 2 /\ AtRest3'
  BY DEF Loop, AtRest3, tier3
<1> QED
  BY <1>4, <1>5, <1>6, <1>7, <1>8, <1>9 DEF Loop

(* A person decides: only the call the worker is parked on has a card open. *)
LEMMA LoopResolve ==
  ASSUME Loop, NEW c \in Calls, NEW yes \in BOOLEAN, T!Resolve(c, yes), UNCHANGED <<tier, tier3>>
  PROVE  Loop'
<1>1. /\ card[c] = "pending"
      /\ card' = [card EXCEPT ![c] = IF yes THEN "approved" ELSE "denied"]
      /\ refused' = IF yes THEN refused ELSE refused \cup {c}
      /\ UNCHANGED <<run, at, turn, nudged, prose, denied, artifacts, calls, fresh, aborted, gate, auto,
                     effects, inbox, told, heard>>
  BY DEF T!Resolve, T!KeepLoop, T!KeepMail
<1>2. at = "parked" /\ Head(calls) = c
  BY <1>1 DEF Loop, T!PendingIsParked
<1>3. card' \in [Calls -> {"none", "auto", "pending", "approved", "denied"}]
  BY <1>1 DEF Loop, T!TypeOK
<1>4. T!TypeOK'
  BY <1>1, <1>3 DEF Loop, T!TypeOK
<1>5. Spoken' /\ Looping'
  BY <1>1 DEF Loop, Spoken, Looping
<1>6. Remembered'
  <2>1. \A d \in refused : d \in denied
    BY <1>1, <1>2 DEF Loop, Remembered
  <2>2. ~yes => card'[c] = "denied"
    BY <1>1 DEF Loop, T!TypeOK
  <2> QED
    BY <1>1, <1>2, <2>1, <2>2 DEF Loop, Remembered
<1>7. T!PendingIsParked'
  BY <1>1 DEF Loop, T!PendingIsParked, T!TypeOK
<1>8. T!TouchedIsListed' /\ T!ReadInOrder'
  BY <1>1 DEF Loop, T!TouchedIsListed, T!ReadInOrder
<1>9. tier' = 2 /\ AtRest3'
  BY DEF Loop, AtRest3, tier3
<1> QED
  BY <1>4, <1>5, <1>6, <1>7, <1>8, <1>9 DEF Loop

(* The next worker of the task starts with no memory and an empty inbox.   *)
LEMMA LoopAnother ==
  ASSUME Loop, T!Another, UNCHANGED <<tier, tier3>>
  PROVE  Loop'
<1>1. /\ at = "over" /\ at' = "new" /\ run' = "none" /\ turn' = 0
      /\ denied' = {} /\ artifacts' = {} /\ calls' = <<>> /\ fresh' = <<>>
      /\ inbox' = <<>> /\ told' = 0 /\ heard' = <<>> /\ refused' = {} /\ effects' = {}
      /\ UNCHANGED <<gate, auto, card>>
  BY DEF T!Another
<1>2. nudged' \in BOOLEAN /\ prose' \in BOOLEAN /\ aborted' \in BOOLEAN
  BY Zenon DEF T!Another
<1>3. /\ 0 \in 0 .. MaxTurns /\ 0 \in 0 .. MaxMessages
      /\ <<>> \in Seq(Calls \cup T!Special) /\ <<>> \in Seq(1 .. MaxMessages) /\ <<>> \in Seq(Entries)
  BY RunnersAssumption, EmptySeq DEF T!Tier2Assumption
<1>4. T!TypeOK'
  BY <1>1, <1>2, <1>3 DEF Loop, T!TypeOK, T!Places
<1>5. Spoken' /\ Looping' /\ Remembered'
  BY <1>1, <1>3 DEF Spoken, Looping, Remembered, Answered
<1>6. T!ReadInOrder'
  BY <1>1 DEF T!ReadInOrder
<1>7. T!PendingIsParked' /\ T!TouchedIsListed'
  BY <1>1 DEF Loop, T!PendingIsParked, T!TouchedIsListed
<1>8. tier' = 2 /\ AtRest3'
  BY DEF Loop, AtRest3, tier3
<1> QED
  BY <1>4, <1>5, <1>6, <1>7, <1>8 DEF Loop

(* Every step of the tool loop.                                            *)
LEMMA LoopStep ==
  ASSUME Loop, T!Next, UNCHANGED <<tier, tier3>>
  PROVE  Loop'
<1>1. CASE T!Continue
  BY <1>1, LoopBegin, LoopTop, LoopCallEnds, LoopAnsweredAtOnce, LoopStartsTool, LoopAsks, LoopAllowed,
     LoopDenied DEF T!Continue
<1>2. CASE T!ToolDone
  BY <1>2, LoopToolDone
<1>3. CASE T!Model
  BY <1>3, LoopModelEnds, LoopReplies, LoopProse DEF T!Model
<1>4. CASE T!Outside
  BY <1>4, LoopSend, LoopSignals, LoopCancelTask, LoopResolve DEF T!Outside
<1>5. CASE T!Another
  BY <1>5, LoopAnother
<1> QED
  BY <1>1, <1>2, <1>3, <1>4, <1>5 DEF T!Next

-----------------------------------------------------------------------------
(* The steps of the harness.                                               *)

(* Up to its child the runner only moves on, or the run ends.              *)
LEMMA SessionBefore ==
  ASSUME Session, H!Begin \/ H!Refused \/ H!CancelledAtGate, UNCHANGED <<tier, tier2>>
  PROVE  Session'
<1>1. /\ stage \in {"new", "parked", "cleared"}
      /\ UNCHANGED <<mode, resumes, expect, grace, last, fatalError, queue, closed, sawTurnEnd, fatalPushed,
                     killed, child, stdin, toRead, late, mirror, inbox, told, heard, said, aborted, gate>>
  BY DEF H!Begin, H!Refused, H!CancelledAtGate, H!runner, H!adapter, H!process
<1>2. \/ run' = "created" /\ stage' \in {"parked", "cleared"}
      \/ run' \in {"cancelled", "failed"} /\ stage' = "over"
  BY DEF H!Begin, H!Refused, H!CancelledAtGate, H!End
<1>3. permit' \in {"none", "auto", "pending", "approved", "denied"}
  BY DEF H!Begin, H!Refused, H!CancelledAtGate, Session, H!TypeOK
<1>4. H!TypeOK'
  BY <1>1, <1>2, <1>3 DEF Session, H!TypeOK
<1>5. child = "none" /\ mirror = "none" /\ ~grace /\ said = <<>>
  BY <1>1 DEF Session, Staged
<1>6. Staged'
  BY <1>1, <1>2, <1>5 DEF Session, Staged
<1>7. Reported'
  <2>1. Quick'
    BY <1>1 DEF Session, Reported, Quick, Queued
  <2> QED
    BY <1>1, <1>2, <1>5, <2>1 DEF Reported
<1>8. Posted' /\ H!HeardIsPrefix'
  BY <1>1 DEF Session, Posted, H!Writable, H!HeardIsPrefix
<1>9. H!NothingOutlivesRun'
  BY <1>1, <1>5 DEF H!NothingOutlivesRun
<1>10. tier' = 3 /\ AtRest2'
  BY DEF Session, AtRest2, tier2
<1> QED
  BY <1>4, <1>6, <1>7, <1>8, <1>9, <1>10 DEF Session

(* The child is started, or there is only a session that says why not.     *)
LEMMA SessionSpawn ==
  ASSUME Session, H!Spawn, UNCHANGED <<tier, tier2>>
  PROVE  Session'
<1>1. /\ stage \in {"parked", "cleared"} /\ run' = "streaming" /\ stage' = "events"
      /\ mirror' \in {"none", "open"}
      /\ UNCHANGED <<mode, resumes, expect, grace, last, fatalError, late, inbox, told, heard, said, aborted, gate, permit>>
  BY DEF H!Spawn, H!runner
<1>2. /\ child = "none" /\ said = <<>> /\ last = "none" /\ queue = <<>> /\ stdin = "open"
      /\ ~closed /\ ~fatalPushed /\ ~killed
  BY <1>1 DEF Session, Staged
<1>3. heard \o inbox = Sent(told)
  BY <1>2 DEF Session, Posted
<1>4. Posted' /\ H!HeardIsPrefix'
  BY <1>1, <1>3 DEF Session, Posted, H!HeardIsPrefix
<1>5. H!NothingOutlivesRun'
  BY <1>1 DEF H!NothingOutlivesRun
<1>6. tier' = 3 /\ AtRest2'
  BY DEF Session, AtRest2, tier2
<1>7. CASE child' = "running" /\ toRead' = 1 /\ UNCHANGED <<queue, closed, sawTurnEnd, fatalPushed, killed, stdin>>
  <2>1. H!TypeOK'
    BY <1>1, <1>7 DEF Session, H!TypeOK
  <2>2. Staged'
    BY <1>1, <1>7 DEF Staged
  <2>3. Reported'
    <3>1. queue' = <<>> /\ Final' = "none" /\ last' = "none"
      BY <1>1, <1>2, <1>7 DEF Final
    <3>2. Quick' /\ \A r \in H!Results : ~Queued(r)'
      BY <3>1 DEF Quick, Queued
    <3> QED
      BY <1>1, <1>2, <1>7, <3>1, <3>2 DEF Reported
  <2> QED
    BY <1>4, <1>5, <1>6, <2>1, <2>2, <2>3 DEF Session
<1>8. CASE /\ queue' = Fatal /\ closed' = TRUE /\ fatalPushed' = TRUE /\ child' = "exited"
           /\ UNCHANGED <<sawTurnEnd, killed, stdin, toRead>>
  <2>1. H!TypeOK'
    <3>1. queue' \in Seq({<<"text">>, <<"fatal">>} \cup {H!TurnEnd(r) : r \in H!Results})
      BY <1>8 DEF Fatal
    <3> QED
      BY <1>1, <1>8, <3>1 DEF Session, H!TypeOK
  <2>2. Staged'
    BY <1>1, <1>8 DEF Staged
  <2>3. Reported'
    <3>1. Final' = "none" /\ last' = "none"
      BY <1>1, <1>2 DEF Final
    <3>2. Quick' /\ \A r \in H!Results : ~Queued(r)'
      BY <1>8 DEF Quick, Queued, Fatal, H!TurnEnd
    <3> QED
      BY <1>1, <1>8, <3>1, <3>2 DEF Reported
  <2> QED
    BY <1>4, <1>5, <1>6, <2>1, <2>2, <2>3 DEF Session
<1> QED
  BY <1>7, <1>8 DEF H!Spawn, H!adapter, Fatal

(* What the child is sent is what was sent, however it is taken from the    *)
(* inbox: all of it, or none.                                              *)
LEMMA DrainKeepsOrder ==
  ASSUME Session, child # "none", H!Drain, UNCHANGED told
  PROVE  /\ heard' \in Seq(1 .. ChildMessages) /\ inbox' = <<>> /\ H!HeardIsPrefix'
         /\ H!Writable => heard' \o inbox' = Sent(told')
<1>1. /\ heard \in Seq(1 .. ChildMessages) /\ inbox \in Seq(1 .. ChildMessages) /\ inbox' = <<>>
      /\ told \in 0 .. ChildMessages /\ ChildMessages \in Nat
  BY RunnersAssumption DEF Session, H!TypeOK, H!Drain, H!HarnessAssumption
<1>2. CASE H!Writable
  <2>1. heard' = heard \o inbox /\ heard \o inbox = Sent(told)
    BY <1>2 DEF H!Drain, Session, Posted
  <2>2. heard' \in Seq(1 .. ChildMessages)
    BY <1>1, <2>1, ConcatProperties
  <2>3. heard' \o inbox' = Sent(told')
    BY <1>1, <2>1, <2>2, ConcatEmptySeq
  <2>4. told' \in Nat /\ heard' = Sent(told')
    BY <1>1, <2>1
  <2>5. Len(heard') = told' /\ DOMAIN heard' = 1 .. told' /\ \A i \in 1 .. told' : heard'[i] = i
    BY <2>4 DEF Sent
  <2> QED
    BY <1>1, <2>2, <2>3, <2>4, <2>5 DEF H!HeardIsPrefix
<1>3. CASE ~H!Writable
  <2>1. heard' = heard
    BY <1>3 DEF H!Drain
  <2> QED
    BY <1>1, <1>3, <2>1 DEF Session, H!HeardIsPrefix
<1> QED
  BY <1>2, <1>3

(* An event is taken from the queue.                                       *)
LEMMA SessionTake ==
  ASSUME Session, H!Take, UNCHANGED <<tier, tier2>>
  PROVE  Session'
<1>1. /\ stage = "events" /\ queue # <<>> /\ queue' = Tail(queue) /\ H!Drain
      /\ UNCHANGED <<mode, resumes, run, stage, closed, sawTurnEnd, fatalPushed, killed, child, late, mirror,
                     told, said, aborted, gate, permit>>
  BY DEF H!Take
<1>2. run = "streaming" /\ child # "none"
  BY <1>1 DEF Session, Staged
<1>3. /\ heard' \in Seq(1 .. ChildMessages) /\ inbox' = <<>> /\ H!HeardIsPrefix'
      /\ H!Writable => heard' \o inbox' = Sent(told')
  BY <1>1, <1>2, DrainKeepsOrder
<1>4. stdin' \in {stdin, "ended"}
  BY DEF H!Take, H!EndInput
<1>5. /\ expect' \in BOOLEAN /\ grace' \in BOOLEAN /\ fatalError' \in BOOLEAN
  BY DEF H!Take, Session, H!TypeOK
<1>6. toRead' \in Nat
  BY <1>1 DEF Session, H!TypeOK, H!Drain
<1>7. Quick
  BY DEF Session, Reported
<1>8. /\ \A r \in H!Results : Queued(r) => Final = r
      /\ (\A r \in H!Results : ~Queued(r)) => last = Final
      /\ fatalPushed => fatalError \/ queue = Fatal
      /\ closed => child = "exited" \/ fatalPushed
  BY <1>1 DEF Session, Reported
<1>9. Final' = Final
  BY <1>1 DEF Final
<1>10. /\ H!TypeOK' <=> last' \in H!Results \cup {"none"}
                         /\ queue' \in Seq({<<"text">>, <<"fatal">>} \cup {H!TurnEnd(r) : r \in H!Results})
  BY <1>1, <1>3, <1>4, <1>5, <1>6, EmptySeq DEF Session, H!TypeOK
<1>11. ASSUME queue = Text  PROVE Reported' /\ H!TypeOK'
  <2>1. queue' = <<>> /\ Head(queue) = <<"text">>
    BY <1>1, <1>11 DEF Text
  <2>2. last' = last /\ fatalError' = fatalError
    BY <2>1 DEF H!Take
  <2>3. ~(queue = Fatal) /\ (\A r \in H!Results : ~Queued(r)) /\ \A r \in H!Results : ~Queued(r)'
    BY <1>11, <2>1 DEF Text, Fatal, Queued, H!TurnEnd
  <2>4. Reported'
    BY <1>1, <1>2, <1>8, <1>9, <2>1, <2>2, <2>3 DEF Reported, Quick
  <2>5. H!TypeOK'
    BY <1>10, <2>1, <2>2, EmptySeq DEF Session, H!TypeOK
  <2> QED
    BY <2>4, <2>5
<1>12. ASSUME queue = Fatal  PROVE Reported' /\ H!TypeOK'
  <2>1. queue' = <<>> /\ Head(queue) = <<"fatal">>
    BY <1>1, <1>12 DEF Fatal
  <2>2. last' = last /\ fatalError' = TRUE
    BY <2>1 DEF H!Take
  <2>3. (\A r \in H!Results : ~Queued(r)) /\ \A r \in H!Results : ~Queued(r)'
    BY <1>12, <2>1 DEF Fatal, Queued, H!TurnEnd
  <2>4. Reported'
    BY <1>1, <1>2, <1>8, <1>9, <2>1, <2>2, <2>3 DEF Reported, Quick
  <2>5. H!TypeOK'
    BY <1>10, <2>1, <2>2, EmptySeq DEF Session, H!TypeOK
  <2> QED
    BY <2>4, <2>5
<1>13. ASSUME NEW r \in H!Results, queue = <<H!TurnEnd(r)>>
       PROVE  Reported' /\ H!TypeOK'
  <2>1. queue' = <<>> /\ Head(queue) = H!TurnEnd(r)
    BY <1>1, <1>13
  <2>2. last' = r /\ fatalError' = fatalError
    BY <2>1 DEF H!Take, H!TurnEnd
  <2>3. Final = r /\ ~(queue = Fatal) /\ \A s \in H!Results : ~Queued(s)'
    BY <1>8, <1>13, <2>1 DEF Fatal, Queued, H!TurnEnd
  <2>4. Reported'
    BY <1>1, <1>2, <1>8, <1>9, <2>1, <2>2, <2>3 DEF Reported, Quick
  <2>5. H!TypeOK'
    BY <1>10, <2>1, <2>2, EmptySeq
  <2> QED
    BY <2>4, <2>5
<1>14. ASSUME NEW r \in H!Results, queue = <<<<"text">>, H!TurnEnd(r)>>
       PROVE  Reported' /\ H!TypeOK'
  <2>1. queue' = <<H!TurnEnd(r)>> /\ Head(queue) = <<"text">>
    BY <1>1, <1>14
  <2>2. last' = last /\ fatalError' = fatalError
    BY <2>1 DEF H!Take, H!TurnEnd
  <2>3. Final = r /\ ~(queue = Fatal) /\ Queued(r)' /\ \A s \in H!Results : Queued(s)' => s = r
    BY <1>8, <1>14, <2>1 DEF Fatal, Queued, H!TurnEnd
  <2>4. Reported'
    BY <1>1, <1>2, <1>8, <1>9, <2>1, <2>2, <2>3 DEF Reported, Quick
  <2>5. H!TypeOK'
    BY <1>10, <2>1, <2>2 DEF Session, H!TypeOK
  <2> QED
    BY <2>4, <2>5
<1>15. Reported' /\ H!TypeOK'
  BY <1>1, <1>7, <1>11, <1>12, <1>13, <1>14 DEF Quick, Queued
<1>16. Staged'
  BY <1>1, <1>2 DEF Staged
<1>17. Posted'
  <2>1. H!Writable' => H!Writable
    BY <1>1, <1>4 DEF H!Writable
  <2> QED
    BY <1>1, <1>2, <1>3, <2>1 DEF Posted
<1>18. H!NothingOutlivesRun'
  BY <1>1 DEF H!NothingOutlivesRun
<1>19. tier' = 3 /\ AtRest2'
  BY DEF Session, AtRest2, tier2
<1> QED
  BY <1>3, <1>15, <1>16, <1>17, <1>18, <1>19 DEF Session

(* The stream ended: the queue is empty, so the runner knows the last result. *)
LEMMA SessionFinish ==
  ASSUME Session, H!Finish, UNCHANGED <<tier, tier2>>
  PROVE  Session'
<1>1. /\ stage = "events" /\ stage' = "over" /\ queue = <<>> /\ closed /\ run' = H!Outcome
      /\ mirror' = IF mirror = "open" THEN "closed" ELSE mirror
      /\ UNCHANGED <<mode, resumes, expect, last, fatalError, queue, closed, sawTurnEnd, fatalPushed,
                     child, stdin, toRead, late, inbox, told, heard, said, aborted, gate, permit>>
  BY DEF H!Finish, H!End, H!process
<1>2. killed' = TRUE /\ grace' = FALSE
  BY DEF H!Finish
<1>3. run' \in {"cancelled", "failed", "succeeded"}
  BY <1>1 DEF H!Outcome
<1>4. H!TypeOK'
  <2>1. killed' \in BOOLEAN /\ grace' \in BOOLEAN
    BY <1>2
  <2> QED
    BY <1>1, <1>3, <2>1 DEF Session, H!TypeOK
<1>5. child # "none"
  BY <1>1 DEF Session, Staged
<1>6. Staged'
  BY <1>1, <1>5 DEF Staged
<1>7. Reported'
  <2>1. \A r \in H!Results : ~Queued(r)
    BY <1>1 DEF Queued
  <2>2. /\ last = Final
        /\ fatalPushed => fatalError \/ queue = Fatal
        /\ child = "exited" \/ fatalPushed
    BY <1>1, <2>1 DEF Session, Reported
  <2>3. ~(queue = Fatal) /\ Final' = Final /\ Quick'
    BY <1>1 DEF Fatal, Final, Quick
  <2>4. run' \in {"succeeded", "failed"} => fatalError \/ (run' = "succeeded" <=> last = "text")
    BY <1>1 DEF H!Outcome
  <2> QED
    BY <1>1, <1>5, <2>2, <2>3, <2>4 DEF Reported
<1>8. Posted' /\ H!HeardIsPrefix'
  BY <1>1, <1>2 DEF Session, Posted, H!Writable, H!HeardIsPrefix
<1>9. H!NothingOutlivesRun'
  BY <1>1, <1>2 DEF H!NothingOutlivesRun
<1>10. tier' = 3 /\ AtRest2'
  BY DEF Session, AtRest2, tier2
<1> QED
  BY <1>4, <1>6, <1>7, <1>8, <1>9, <1>10 DEF Session

(* The grace timer ends the child's input: nothing more can be written to it. *)
LEMMA SessionGraceFires ==
  ASSUME Session, H!GraceFires, UNCHANGED <<tier, tier2>>
  PROVE  Session'
<1>1. /\ grace /\ stdin' \in {stdin, "ended"}
      /\ UNCHANGED <<mode, resumes, run, stage, expect, last, fatalError, queue, closed, sawTurnEnd, fatalPushed,
                     killed, child, toRead, late, mirror, inbox, told, heard, said, aborted, gate, permit>>
  BY DEF H!GraceFires, H!EndInput, H!adapter
<1>2. grace' = FALSE
  BY DEF H!GraceFires
<1>3. stage \notin {"new", "parked", "cleared"}
  BY <1>1 DEF Session, Staged
<1>4. H!TypeOK'
  <2>1. grace' \in BOOLEAN
    BY <1>2
  <2> QED
    BY <1>1, <2>1 DEF Session, H!TypeOK
<1>5. Staged'
  BY <1>1, <1>3 DEF Session, Staged
<1>6. Reported'
  BY <1>1 DEF Session, Reported, Quick, Queued, Final
<1>7. Posted' /\ H!HeardIsPrefix'
  BY <1>1 DEF Session, Posted, H!Writable, H!HeardIsPrefix
<1>8. H!NothingOutlivesRun'
  BY <1>1, <1>2 DEF Session, H!NothingOutlivesRun
<1>9. tier' = 3 /\ AtRest2'
  BY DEF Session, AtRest2, tier2
<1> QED
  BY <1>4, <1>5, <1>6, <1>7, <1>8, <1>9 DEF Session

(* What is pushed while the runner waits is the queue; after a close it is  *)
(* nothing.                                                                *)
LEMMA PushFills ==
  ASSUME Session, H!Quiet, child # "none", NEW S, NEW events \in Seq(S), H!Push(events)
  PROVE  /\ stage = "events" => queue = <<>> /\ ~closed /\ queue' = events
         /\ stage # "events" => stage = "over" /\ closed /\ queue' = queue
<1>1. stage = "events" => queue = <<>> /\ ~closed
  BY DEF H!Quiet
<1>2. stage # "events" => stage = "over" /\ closed
  BY DEF Session, Staged, H!TypeOK
<1>3. <<>> \o events = events
  BY ConcatEmptySeq
<1> QED
  BY <1>1, <1>2, <1>3 DEF H!Push

(* What the adapter may find in its queue after a callback.                *)
Events == {<<"text">>, <<"fatal">>} \cup {H!TurnEnd(r) : r \in H!Results}

(* One event after another, or after none.                                 *)
LEMMA OneAndOne ==
  ASSUME NEW a, NEW b
  PROVE  <<a>> \o <<b>> = <<a, b>> /\ <<>> \o <<b>> = <<b>>
<1>1. <<a>> \in Seq({a, b}) /\ <<b>> \in Seq({a, b})
  OBVIOUS
<1>2. <<>> \o <<b>> = <<b>>
  BY <1>1, ConcatEmptySeq
<1>3. /\ <<a>> \o <<b>> \in Seq({a, b}) /\ Len(<<a>> \o <<b>>) = 2
      /\ (<<a>> \o <<b>>)[1] = a /\ (<<a>> \o <<b>>)[2] = b
  <2>1. Len(<<a>>) = 1 /\ Len(<<b>>) = 1 /\ <<a>>[1] = a /\ <<b>>[1] = b
    OBVIOUS
  <2> QED
    BY <1>1, <2>1, ConcatProperties
<1>4. <<a, b>> \in Seq({a, b}) /\ Len(<<a, b>>) = 2 /\ <<a, b>>[1] = a /\ <<a, b>>[2] = b
  OBVIOUS
<1>5. \A i \in 1 .. 2 : i = 1 \/ i = 2
  OBVIOUS
<1> QED
  BY <1>2, <1>3, <1>4, <1>5, SeqEqual

(* A line that is progress.                                                *)
LEMMA SessionChatter ==
  ASSUME Session, H!Chatter, UNCHANGED <<tier, tier2>>
  PROVE  Session'
<1>1. /\ H!Quiet /\ child = "running" /\ H!Push(Text)
      /\ UNCHANGED <<mode, resumes, run, stage, expect, grace, last, fatalError, closed, sawTurnEnd, fatalPushed,
                     killed, child, stdin, toRead, mirror, inbox, told, heard, said, aborted, gate, permit>>
  BY DEF H!Chatter, H!runner, Text
<1>2. Text \in Seq(Events)
  BY DEF Text, Events
<1>3. /\ stage = "events" => queue = <<>> /\ ~closed /\ queue' = Text
      /\ stage # "events" => stage = "over" /\ closed /\ queue' = queue
  BY <1>1, <1>2, PushFills
<1>4. H!TypeOK'
  <2>1. queue' \in Seq(Events)
    BY <1>2, <1>3 DEF Session, H!TypeOK, Events
  <2>2. late' \in BOOLEAN
    BY Zenon DEF H!Chatter, Session, H!TypeOK
  <2> QED
    BY <1>1, <2>1, <2>2 DEF Session, H!TypeOK, Events
<1>5. Staged'
  BY <1>1, <1>3 DEF Session, Staged
<1>6. Reported'
  <2>1. Final' = Final
    BY <1>1 DEF Final
  <2>2. CASE stage = "events"
    <3>1. /\ \A r \in H!Results : ~Queued(r)
          /\ \A r \in H!Results : ~Queued(r)'
          /\ ~(queue = Fatal) /\ Quick'
      BY <1>3, <2>2 DEF Queued, Fatal, Text, Quick, H!TurnEnd
    <3> QED
      BY <1>1, <1>3, <2>1, <2>2, <3>1 DEF Session, Reported
  <2>3. CASE stage # "events"
    BY <1>1, <1>3, <2>1, <2>3 DEF Session, Reported, Quick, Queued
  <2> QED
    BY <2>2, <2>3
<1>7. Posted' /\ H!HeardIsPrefix' /\ H!NothingOutlivesRun'
  BY <1>1 DEF Session, Posted, H!Writable, H!HeardIsPrefix, H!NothingOutlivesRun
<1>8. tier' = 3 /\ AtRest2'
  BY DEF Session, AtRest2, tier2
<1> QED
  BY <1>4, <1>5, <1>6, <1>7, <1>8 DEF Session

(* A turn ends: its result is the last thing said, and it is in the queue.  *)
LEMMA SessionEndsTurn ==
  ASSUME Session, NEW r \in H!Results, H!EndsTurn(r), UNCHANGED <<tier, tier2>>
  PROVE  Session'
<1>1. /\ H!Quiet /\ child = "running" /\ said' = Append(said, r)
      /\ H!Push(<<H!TurnEnd(r)>>) \/ H!Push(<<<<"text">>, H!TurnEnd(r)>>)
      /\ UNCHANGED <<mode, resumes, run, stage, expect, grace, last, fatalError, closed, fatalPushed,
                     killed, child, stdin, late, mirror, inbox, told, heard, aborted, gate, permit>>
  <2>1. PICK chatty \in BOOLEAN : H!Push((IF chatty THEN <<<<"text">>>> ELSE <<>>) \o <<H!TurnEnd(r)>>)
    BY DEF H!EndsTurn
  <2>2. /\ <<<<"text">>>> \o <<H!TurnEnd(r)>> = <<<<"text">>, H!TurnEnd(r)>>
        /\ <<>> \o <<H!TurnEnd(r)>> = <<H!TurnEnd(r)>>
    BY OneAndOne
  <2>3. H!Push(<<H!TurnEnd(r)>>) \/ H!Push(<<<<"text">>, H!TurnEnd(r)>>)
    BY <2>1, <2>2
  <2> QED
    BY <2>3 DEF H!EndsTurn, H!runner
<1>2. <<H!TurnEnd(r)>> \in Seq(Events) /\ <<<<"text">>, H!TurnEnd(r)>> \in Seq(Events)
  BY DEF Events
<1>3. /\ stage = "events" => queue = <<>> /\ ~closed /\ Queued(r)'
      /\ stage # "events" => stage = "over" /\ closed /\ queue' = queue
  <2>1. CASE H!Push(<<H!TurnEnd(r)>>)
    BY <1>1, <1>2, <2>1, PushFills DEF Queued
  <2>2. CASE H!Push(<<<<"text">>, H!TurnEnd(r)>>)
    BY <1>1, <1>2, <2>2, PushFills DEF Queued
  <2> QED
    BY <1>1, <2>1, <2>2
<1>4. said' \in Seq(H!Results) /\ said' # <<>> /\ said'[Len(said')] = r
  <2>1. said \in Seq(H!Results) /\ said' = Append(said, r)
    BY <1>1 DEF Session, H!TypeOK
  <2> QED
    BY <2>1
<1>5. Final' = r
  BY <1>4 DEF Final
<1>6. H!TypeOK'
  <2>1. queue' \in Seq(Events)
    BY <1>2, <1>3 DEF Session, H!TypeOK, Events, Queued
  <2>2. toRead' \in Nat
    BY DEF H!EndsTurn, Session, H!TypeOK
  <2>3. sawTurnEnd' \in BOOLEAN
    BY Zenon DEF H!EndsTurn
  <2> QED
    BY <1>1, <1>4, <2>1, <2>2, <2>3 DEF Session, H!TypeOK, Events
<1>7. Staged'
  BY <1>1, <1>3 DEF Session, Staged
<1>8. Reported'
  <2>1. CASE stage = "events"
    <3>1. ~(queue = Fatal) /\ \A s \in H!Results : Queued(s)' => s = r
      BY <1>3, <2>1 DEF Queued, Fatal, H!TurnEnd
    <3>2. Quick'
      BY <1>3, <2>1 DEF Quick
    <3> QED
      BY <1>1, <1>3, <1>5, <2>1, <3>1, <3>2 DEF Session, Reported
  <2>2. CASE stage # "events"
    BY <1>1, <1>3, <2>2 DEF Session, Reported, Quick, Queued
  <2> QED
    BY <2>1, <2>2
<1>9. Posted' /\ H!HeardIsPrefix' /\ H!NothingOutlivesRun'
  BY <1>1 DEF Session, Posted, H!Writable, H!HeardIsPrefix, H!NothingOutlivesRun
<1>10. tier' = 3 /\ AtRest2'
  BY DEF Session, AtRest2, tier2
<1> QED
  BY <1>6, <1>7, <1>8, <1>9, <1>10 DEF Session

(* The child exits.  One that said nothing is known by its exit: plain output *)
(* is the result, and of the others there was none.                        *)
LEMMA SessionExits ==
  ASSUME Session, NEW r \in H!Results, H!Exits(r), UNCHANGED <<tier, tier2>>
  PROVE  Session'
<1> DEFINE silent == ~fatalPushed /\ ~killed /\ ~sawTurnEnd
           note == IF mode = "plain" THEN <<H!TurnEnd(r)>> ELSE Fatal
<1>1. /\ H!Quiet /\ child = "running" /\ child' = "exited" /\ toRead' = 0
      /\ UNCHANGED <<mode, resumes, run, stage, expect, grace, last, fatalError, sawTurnEnd, killed, stdin,
                     late, mirror, inbox, told, heard, aborted, gate, permit>>
  BY DEF H!Exits, H!runner
<1>2. closed' = TRUE /\ fatalPushed' = (fatalPushed \/ (silent /\ mode # "plain"))
  BY DEF H!Exits
<1>3. closed' \in BOOLEAN /\ fatalPushed' \in BOOLEAN
  BY <1>2
<1>4. silent => H!Push(note) /\ said' = IF mode = "plain" THEN Append(said, r) ELSE said
  BY DEF H!Exits, Fatal
<1>5. ~silent => H!Push(<<>>) /\ said' = said
  BY DEF H!Exits
<1>6. note \in Seq(Events) /\ <<>> \in Seq(Events)
  <2>1. <<H!TurnEnd(r)>> \in Seq(Events) /\ Fatal \in Seq(Events) /\ <<>> \in Seq(Events)
    BY EmptySeq DEF Events, Fatal
  <2> QED
    BY <2>1
<1>7. /\ stage = "events" => queue = <<>> /\ ~closed
      /\ stage = "events" /\ silent => queue' = note
      /\ stage = "events" /\ ~silent => queue' = <<>>
      /\ stage # "events" => stage = "over" /\ closed /\ queue' = queue
  <2> HIDE DEF note, silent
  <2>1. CASE silent
    BY <1>1, <1>4, <1>6, <2>1, PushFills
  <2>2. CASE ~silent
    BY <1>1, <1>5, <1>6, <2>2, PushFills
  <2> QED
    BY <2>1, <2>2
<1>8. said' \in Seq(H!Results) /\ (said' = Append(said, r) => said' # <<>> /\ said'[Len(said')] = r)
  <2>1. said \in Seq(H!Results) /\ (said' = Append(said, r) \/ said' = said)
    BY <1>4, <1>5 DEF Session, H!TypeOK
  <2> QED
    BY <2>1
<1>9. H!TypeOK'
  <2>1. queue' \in Seq(Events)
    BY <1>6, <1>7 DEF Session, H!TypeOK, Events
  <2> QED
    BY <1>1, <1>3, <1>8, <2>1 DEF Session, H!TypeOK, Events
<1>10. Staged'
  BY <1>1, <1>2, <1>7 DEF Session, Staged
<1>11. Reported'
  <2>1. CASE stage = "events" /\ silent /\ mode = "plain"
    <3>1. queue' = <<H!TurnEnd(r)>> /\ Final' = r
      BY <1>4, <1>7, <1>8, <2>1 DEF Final
    <3>2. Queued(r)' /\ Quick' /\ \A s \in H!Results : Queued(s)' => s = r
      BY <3>1 DEF Queued, Quick, H!TurnEnd
    <3>3. fatalPushed' <=> fatalPushed
      BY <1>2, <2>1
    <3> QED
      BY <1>1, <2>1, <3>1, <3>2, <3>3 DEF Reported
  <2>2. CASE stage = "events" /\ silent /\ mode # "plain"
    <3>1. queue' = Fatal /\ said' = said
      BY <1>4, <1>7, <2>2
    <3>2. Quick' /\ (\A s \in H!Results : ~Queued(s)) /\ (\A s \in H!Results : ~Queued(s)')
      BY <1>7, <2>2, <3>1 DEF Quick, Queued, Fatal, H!TurnEnd
    <3>3. last' = Final'
      BY <1>1, <2>2, <3>1, <3>2 DEF Session, Reported, Final
    <3> QED
      BY <1>1, <2>2, <3>1, <3>2, <3>3 DEF Reported
  <2>3. CASE stage = "events" /\ ~silent
    <3>1. queue' = <<>> /\ said' = said /\ queue = <<>>
      BY <1>5, <1>7, <2>3
    <3>2. /\ Quick' /\ (\A s \in H!Results : ~Queued(s)) /\ (\A s \in H!Results : ~Queued(s)')
          /\ ~(queue = Fatal)
      BY <3>1 DEF Quick, Queued, Fatal
    <3>3. last' = Final'
      BY <1>1, <2>3, <3>1, <3>2 DEF Session, Reported, Final
    <3>4. fatalPushed' => fatalError'
      <4>1. fatalPushed' => fatalPushed
        BY <1>2, <2>3
      <4> QED
        BY <1>1, <2>3, <3>2, <4>1 DEF Session, Reported
    <3> QED
      BY <1>1, <2>3, <3>1, <3>2, <3>3, <3>4 DEF Reported
  <2>4. CASE stage # "events"
    <3>1. fatalPushed /\ queue' = queue /\ said' = said
      BY <1>1, <1>5, <1>7, <2>4 DEF Session, Reported
    <3>2. Quick'
      BY <3>1 DEF Session, Reported, Quick, Queued
    <3>3. run \in {"succeeded", "failed"} => fatalError
      BY <1>1, <1>7, <2>4 DEF Session, Reported
    <3> QED
      BY <1>1, <1>7, <2>4, <3>2, <3>3 DEF Reported
  <2> QED
    BY <2>1, <2>2, <2>3, <2>4
<1>12. Posted' /\ H!HeardIsPrefix' /\ H!NothingOutlivesRun'
  BY <1>1 DEF Session, Posted, H!Writable, H!HeardIsPrefix, H!NothingOutlivesRun
<1>13. tier' = 3 /\ AtRest2'
  BY DEF Session, AtRest2, tier2
<1> QED
  BY <1>9, <1>10, <1>11, <1>12, <1>13 DEF Session

(* The process failed: the queue is closed behind one fatal event.         *)
LEMMA SessionProcessError ==
  ASSUME Session, H!ProcessError, UNCHANGED <<tier, tier2>>
  PROVE  Session'
<1>1. /\ H!Quiet /\ child = "running" /\ ~closed
      /\ UNCHANGED <<mode, resumes, run, stage, expect, grace, last, fatalError, sawTurnEnd, killed, child,
                     stdin, toRead, late, mirror, inbox, told, heard, said, aborted, gate, permit>>
  BY DEF H!ProcessError, H!runner, H!process
<1>2. closed' = TRUE /\ fatalPushed' = TRUE
  BY DEF H!ProcessError
<1>3. closed' \in BOOLEAN /\ fatalPushed' \in BOOLEAN
  BY <1>2
<1>4. <<>> \in Seq(Events) /\ Fatal \in Seq(Events)
  BY DEF Events, Fatal
<1>5. /\ stage = "events" /\ queue = <<>>
      /\ fatalPushed => queue' = <<>>
      /\ ~fatalPushed => queue' = Fatal
  <2>1. fatalPushed => H!Push(<<>>)
    BY DEF H!ProcessError
  <2>2. ~fatalPushed => H!Push(Fatal)
    BY DEF H!ProcessError, Fatal
  <2> QED
    BY <1>1, <1>4, <2>1, <2>2, PushFills
<1>6. H!TypeOK'
  <2>1. queue' \in Seq(Events)
    BY <1>4, <1>5
  <2> QED
    BY <1>1, <1>3, <2>1 DEF Session, H!TypeOK, Events
<1>7. Staged'
  BY <1>1, <1>5 DEF Session, Staged
<1>8. Reported'
  <2>1. /\ Quick' /\ (\A s \in H!Results : ~Queued(s)) /\ (\A s \in H!Results : ~Queued(s)')
        /\ ~(queue = Fatal)
    BY <1>5 DEF Quick, Queued, Fatal, H!TurnEnd
  <2>2. last' = Final'
    BY <1>1, <1>5, <2>1 DEF Session, Reported, Final
  <2>3. fatalError' \/ queue' = Fatal
    BY <1>1, <1>5, <2>1 DEF Session, Reported
  <2> QED
    BY <1>1, <1>2, <1>5, <2>1, <2>2, <2>3 DEF Reported
<1>9. Posted' /\ H!HeardIsPrefix' /\ H!NothingOutlivesRun'
  BY <1>1 DEF Session, Posted, H!Writable, H!HeardIsPrefix, H!NothingOutlivesRun
<1>10. tier' = 3 /\ AtRest2'
  BY DEF Session, AtRest2, tier2
<1> QED
  BY <1>6, <1>7, <1>8, <1>9, <1>10 DEF Session

(* A message is sent.                                                      *)
LEMMA SessionSend ==
  ASSUME Session, H!Send, UNCHANGED <<tier, tier2>>
  PROVE  Session'
<1>1. /\ told < ChildMessages /\ told' = told + 1 /\ inbox' = Append(inbox, told + 1)
      /\ UNCHANGED <<mode, resumes, run, stage, expect, grace, last, fatalError, queue, closed, sawTurnEnd,
                     fatalPushed, killed, child, stdin, toRead, late, mirror, heard, said, aborted, gate, permit>>
  BY DEF H!Send, H!runner, H!adapter, H!process
<1>2. /\ told \in 0 .. ChildMessages /\ ChildMessages \in Nat
      /\ inbox \in Seq(1 .. ChildMessages) /\ heard \in Seq(1 .. ChildMessages)
  BY RunnersAssumption DEF Session, H!TypeOK, H!HarnessAssumption
<1>3. told' \in 0 .. ChildMessages /\ inbox' \in Seq(1 .. ChildMessages)
  BY <1>1, <1>2
<1>4. H!TypeOK'
  BY <1>1, <1>3 DEF Session, H!TypeOK
<1>5. Staged'
  BY <1>1 DEF Session, Staged
<1>6. Reported'
  BY <1>1 DEF Session, Reported, Quick, Queued, Final
<1>7. Posted'
  <2>1. told \in Nat /\ told + 1 \in 1 .. ChildMessages
    BY <1>1, <1>2
  <2>2. heard \o inbox = Sent(told) => heard \o Append(inbox, told + 1) = Sent(told + 1)
    BY <1>2, <2>1, SendKeepsOrder
  <2> QED
    BY <1>1, <2>2 DEF Session, Posted, H!Writable
<1>8. H!HeardIsPrefix'
  BY <1>1, <1>2 DEF Session, H!HeardIsPrefix
<1>9. H!NothingOutlivesRun'
  BY <1>1 DEF Session, H!NothingOutlivesRun
<1>10. tier' = 3 /\ AtRest2'
  BY DEF Session, AtRest2, tier2
<1> QED
  BY <1>4, <1>5, <1>6, <1>7, <1>8, <1>9, <1>10 DEF Session

(* The worker or its task is cancelled, or its card decided: a child there is *)
(* is killed.                                                              *)
LEMMA SessionSignals ==
  ASSUME Session, H!CancelWorker \/ H!CancelTask \/ \E yes \in BOOLEAN : H!Resolve(yes),
         UNCHANGED <<tier, tier2>>
  PROVE  Session'
<1>1. UNCHANGED <<mode, resumes, run, stage, expect, grace, last, fatalError, queue, closed, sawTurnEnd,
                  fatalPushed, child, stdin, toRead, late, mirror, inbox, told, heard, said>>
  BY DEF H!CancelWorker, H!CancelTask, H!Resolve, H!runner, H!adapter, H!process
<1>2. /\ permit' \in {"none", "auto", "pending", "approved", "denied"}
      /\ gate' \in {"open", "cancelled"}
  BY DEF Session, H!TypeOK, H!CancelWorker, H!CancelTask, H!Resolve
<1>3. /\ killed' \in BOOLEAN /\ aborted' \in BOOLEAN
      /\ killed => killed'
      /\ stage # "events" => (killed' <=> killed)
  <2>1. killed \in BOOLEAN /\ aborted \in BOOLEAN
    BY DEF Session, H!TypeOK
  <2>2. CASE H!CancelWorker
    BY <2>1, <2>2, Zenon DEF H!CancelWorker, H!KillOnAbort
  <2>3. CASE H!CancelTask
    BY <2>1, <2>3, Zenon DEF H!CancelTask, H!KillOnAbort
  <2>4. CASE \E yes \in BOOLEAN : H!Resolve(yes)
    BY <2>1, <2>4 DEF H!Resolve, H!adapter
  <2> QED
    BY <2>2, <2>3, <2>4
<1>4. H!TypeOK'
  BY <1>1, <1>2, <1>3 DEF Session, H!TypeOK
<1>5. Staged'
  BY <1>1, <1>3 DEF Session, Staged
<1>6. Reported'
  BY <1>1 DEF Session, Reported, Quick, Queued, Final
<1>7. Posted' /\ H!HeardIsPrefix'
  BY <1>1, <1>3 DEF Session, Posted, H!Writable, H!HeardIsPrefix
<1>8. H!NothingOutlivesRun'
  BY <1>1, <1>3 DEF Session, H!NothingOutlivesRun
<1>9. tier' = 3 /\ AtRest2'
  BY DEF Session, AtRest2, tier2
<1> QED
  BY <1>4, <1>5, <1>6, <1>7, <1>8, <1>9 DEF Session

(* Every step of the harness.                                              *)
LEMMA SessionStep ==
  ASSUME Session, H!Next, UNCHANGED <<tier, tier2>>
  PROVE  Session'
<1>1. CASE H!Runner
  BY <1>1, SessionBefore, SessionSpawn, SessionTake, SessionFinish DEF H!Runner
<1>2. CASE H!GraceFires
  BY <1>2, SessionGraceFires
<1>3. CASE H!Child
  BY <1>3, SessionChatter, SessionProcessError, SessionEndsTurn, SessionExits DEF H!Child
<1>4. CASE H!Outside
  BY <1>4, SessionSend, SessionSignals DEF H!Outside
<1> QED
  BY <1>1, <1>2, <1>3, <1>4 DEF H!Next

-----------------------------------------------------------------------------
(* The invariant, and what follows from it.                                *)

(* Both runners are made as the invariant says.                            *)
LEMMA InitHolds == Init => IInv
<1> SUFFICES ASSUME Init  PROVE IInv
  OBVIOUS
<1>1. /\ <<>> \in Seq(Calls \cup T!Special) /\ <<>> \in Seq(1 .. MaxMessages) /\ <<>> \in Seq(Entries)
      /\ <<>> \in Seq(1 .. ChildMessages) /\ <<>> \in Seq(H!Results) /\ <<>> \in Seq(Events)
      /\ 0 \in 0 .. MaxTurns /\ 0 \in 0 .. MaxMessages /\ 0 \in 0 .. ChildMessages
  BY RunnersAssumption, EmptySeq DEF T!Tier2Assumption, H!HarnessAssumption
<1>2. CASE tier = 2
  <2>1. T!TypeOK
    BY <1>1 DEF Init, T!Init, T!TypeOK, T!Places
  <2>2. Spoken /\ Looping /\ Remembered
    BY <1>1 DEF Init, T!Init, Spoken, Looping, Remembered, Answered
  <2>3. T!ReadInOrder /\ T!PendingIsParked /\ T!TouchedIsListed
    BY <1>1 DEF Init, T!Init, T!ReadInOrder, T!PendingIsParked, T!TouchedIsListed
  <2>4. AtRest3
    BY DEF Init, H!Init, AtRest3
  <2> QED
    BY <1>2, <2>1, <2>2, <2>3, <2>4 DEF IInv, Loop
<1>3. CASE tier = 3
  <2>1. H!TypeOK
    BY <1>1 DEF Init, H!Init, H!TypeOK, Events, H!Results
  <2>2. Staged
    BY DEF Init, H!Init, Staged
  <2>3. Reported
    <3>1. stage = "new" /\ queue = <<>>
      BY DEF Init, H!Init
    <3>2. Quick
      BY <3>1 DEF Quick
    <3> QED
      BY <3>1, <3>2 DEF Reported
  <2>4. Posted /\ H!HeardIsPrefix /\ H!NothingOutlivesRun
    <3>1. heard = <<>> /\ inbox = <<>> /\ told = 0 /\ stage = "new"
      BY DEF Init, H!Init
    <3>2. heard \o inbox = Sent(told)
      BY <3>1 DEF Sent
    <3> QED
      BY <3>1, <3>2 DEF Posted, H!HeardIsPrefix, H!NothingOutlivesRun
  <2>5. AtRest2
    BY DEF Init, T!Init, AtRest2
  <2> QED
    BY <1>3, <2>1, <2>2, <2>3, <2>4, <2>5 DEF IInv, Session
<1> QED
  BY <1>2, <1>3 DEF Init

(* Every step keeps it.                                                    *)
LEMMA StepHolds == IInv /\ [Next]_vars => IInv'
<1> SUFFICES ASSUME IInv, [Next]_vars  PROVE IInv'
  OBVIOUS
<1>1. CASE tier = 2 /\ T!Next /\ UNCHANGED <<tier, tier3>>
  BY <1>1, LoopStep DEF IInv, Session
<1>2. CASE tier = 3 /\ H!Next /\ UNCHANGED <<tier, tier2>>
  BY <1>2, SessionStep DEF IInv, Loop
<1>3. CASE UNCHANGED vars
  <2> USE <1>3 DEF vars, shared, tier2, tier3
  <2>1. CASE Loop
    <3>1. T!TypeOK' /\ tier' = 2 /\ at' = at
      BY <2>1 DEF Loop, T!TypeOK
    <3> QED
      BY <2>1, <3>1, LoopMoves DEF IInv
  <2>2. CASE Session
    <3>1. H!TypeOK' /\ tier' = 3
      BY <2>2 DEF Session, H!TypeOK
    <3>2. Staged' /\ Reported'
      BY <2>2 DEF Session, Staged, Reported, Quick, Queued, Final
    <3>3. Posted' /\ H!HeardIsPrefix' /\ H!NothingOutlivesRun' /\ AtRest2'
      BY <2>2 DEF Session, Posted, H!Writable, H!HeardIsPrefix, H!NothingOutlivesRun, AtRest2
    <3> QED
      BY <3>1, <3>2, <3>3 DEF IInv, Session
  <2> QED
    BY <2>1, <2>2 DEF IInv
<1> QED
  BY <1>1, <1>2, <1>3 DEF Next

(* The invariant the theorems are read off.                                *)
THEOREM Invariance == Spec => []IInv
<1> QED
  BY InitHolds, StepHolds, PTL DEF Spec

(* What is sent to a worker arrives as it was sent: a transcript providers  *)
(* accept, the initiator's messages once and in order, and in a child a     *)
(* prefix of them (tier2.ts, runner.ts).                                   *)
THEOREM MessagesArrive == Spec => []MessagesInOrder
<1>1. IInv => MessagesInOrder
  <2>1. Loop => MessagesInOrder
    <3>1. ASSUME Loop  PROVE T!Coherent
      BY <3>1, AnsweredIsCoherent DEF Loop, Spoken
    <3> QED
      BY <3>1 DEF Loop, MessagesInOrder, TypeOK
  <2>2. Session => MessagesInOrder
    BY DEF Session, AtRest2, MessagesInOrder, TypeOK, T!Coherent
  <2> QED
    BY <2>1, <2>2 DEF IInv
<1> QED
  BY <1>1, Invariance, PTL

(* A run leaves nothing behind and reports what happened: no card without a *)
(* worker, no written file left out, a row that tells what the child last   *)
(* said, no child, mirror or timer.                                        *)
THEOREM RunsEndTidily == Spec => []EndsTidily
<1>1. IInv => EndsTidily
  <2>1. Loop => EndsTidily
    BY DEF Loop, AtRest3, EndsTidily, H!RowTellsTheEnd
  <2>2. Session => EndsTidily
    <3> SUFFICES ASSUME Session  PROVE EndsTidily
      OBVIOUS
    <3>1. T!PendingIsParked /\ T!TouchedIsListed
      BY DEF Session, AtRest2, T!PendingIsParked, T!TouchedIsListed
    <3>2. H!RowTellsTheEnd
      <4> SUFFICES ASSUME run \in {"succeeded", "failed"}, child = "exited", ~fatalError, said # <<>>
                   PROVE  run = "succeeded" <=> said[Len(said)] = "text"
        BY DEF H!RowTellsTheEnd
      <4>1. stage = "over"
        BY DEF Session, Staged, H!TypeOK
      <4> QED
        BY <4>1 DEF Session, Reported, Final
    <3> QED
      BY <3>1, <3>2 DEF Session, EndsTidily
  <2> QED
    BY <2>1, <2>2 DEF IInv
<1> QED
  BY <1>1, Invariance, PTL

(* A refusal holds for the run: the call is neither asked for again nor     *)
(* done, whatever the model repeats and however auto-approve is flipped.    *)
THEOREM RefusalsHold == Spec => RefusalHolds
<1>1. IInv /\ [Next]_vars => [\A c \in refused :
                                 /\ card'[c] = "pending" => card[c] = "pending"
                                 /\ c \in effects' => c \in effects]_vars
  <2> SUFFICES ASSUME IInv, [Next]_vars, NEW c \in refused
               PROVE  /\ card'[c] = "pending" => card[c] = "pending"
                      /\ c \in effects' => c \in effects
    OBVIOUS
  <2>1. CASE UNCHANGED <<card, effects>>
    BY <2>1
  <2>2. CASE Loop /\ T!Next
    <3>1. c \in Calls /\ card \in [Calls -> {"none", "auto", "pending", "approved", "denied"}]
      BY <2>2 DEF Loop, T!TypeOK
    <3>2. at \in {"calls", "tool"} => c \in denied
      BY <2>2 DEF Loop, Remembered
    <3>3. CASE T!StartsTool
      BY <3>1, <3>3 DEF T!StartsTool
    <3>4. CASE T!Asks
      BY <3>1, <3>2, <3>4 DEF T!Asks
    <3>5. CASE T!ToolDone
      <4>1. c # Head(calls)
        BY <2>2, <3>2, <3>5 DEF T!ToolDone, Loop, Remembered
      <4> QED
        BY <3>5, <4>1 DEF T!ToolDone
    <3>6. CASE T!CancelTask
      BY <3>1, <3>6 DEF T!CancelTask
    <3>7. CASE \E d \in Calls, yes \in BOOLEAN : T!Resolve(d, yes)
      BY <3>1, <3>7 DEF T!Resolve
    <3>8. CASE T!Another
      BY <3>8 DEF T!Another
    <3>9. CASE T!Begin \/ T!Top \/ T!ActCancelled \/ T!Report \/ T!AnsweredAtOnce \/ T!Allowed \/ T!Denied
      BY <2>1, <3>9 DEF T!Begin, T!Top, T!ActCancelled, T!Report, T!AnsweredAtOnce, T!Allowed, T!Denied, T!KeepGate
    <3>10. CASE T!Send \/ T!CancelWorker \/ T!FlipAuto
      BY <2>1, <3>10 DEF T!Send, T!CancelWorker, T!FlipAuto, T!KeepGate
    <3>11. CASE T!Model
      BY <2>1, <3>11 DEF T!Model, T!ModelFails, T!Truncated, T!Replies, T!Prose, T!KeepGate
    <3> QED
      BY <2>2, <3>3, <3>4, <3>5, <3>6, <3>7, <3>8, <3>9, <3>10, <3>11
         DEF T!Next, T!Continue, T!Outside
  <2>3. CASE tier = 2 /\ T!Next
    BY <2>2, <2>3 DEF IInv, Session
  <2>4. CASE UNCHANGED tier2
    BY <2>1, <2>4 DEF tier2
  <2>5. CASE UNCHANGED vars
    BY <2>1, <2>5 DEF vars, tier2
  <2> QED
    BY <2>3, <2>4, <2>5 DEF Next
<1> QED
  BY <1>1, Invariance, PTL DEF Spec, RefusalHolds
=============================================================================
