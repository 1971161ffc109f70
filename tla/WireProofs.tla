----------------------------- MODULE WireProofs -----------------------------
(***************************************************************************)
(* Proofs about a model call (ModelCall) and about what it becomes on its  *)
(* way (Wire), for any number of attempts, answers, rows and events.       *)
(*                                                                         *)
(* The call: between attempts nothing was said (Silence), so that a retry  *)
(* cannot mix voices and a record's phase is decided by its attempt; and    *)
(* each place of the generator fixes how many attempts are recorded (Books).*)
(*                                                                         *)
(* The view: an event more folds into the tree that the rows make after     *)
(* the write it tells of (TreeIsRows), and what it bills is what was paid.  *)
(* The panels: a sum over a set of records is the sum of the sums over any *)
(* parts of it, and a page is the top of what was asked for, so that the    *)
(* table's rows are a stretch of the log (TableInv). Both walk data by      *)
(* induction over its length, from the least natural of a set (Least).      *)
(***************************************************************************)
EXTENDS ModelCall, Wire, FiniteSets, WellFoundedInduction, FiniteSetTheorems, SequenceTheorems, TLAPS

(* Whether something was said, and by which attempt.                        *)
Silence ==
  /\ at \in {"idle", "threw"} <=> attempt = 0
  /\ at = "idle" => ~emitted
  /\ at = "resting" => attempt < MaxAttempts
  /\ at \in {"idle", "threw", "resting"} => said = <<>>
  /\ at = "calling" =>
       /\ emitted <=> said # <<>>
       /\ \A k \in 1..Len(said) : said[k].type = "content"
  /\ at = "ending" =>
       /\ said # <<>> /\ \A k \in 1..Len(said) : said[k].type # "error"
       /\ \A k \in 1..Len(said) : k # Len(said) => said[k].type = "content"

(* How many attempts are recorded, and as what.                             *)
Books ==
  /\ at # "done" => costs = 0
  /\ ~aborted /\ ~lost =>
       /\ at \in {"idle", "threw"} => Len(failures) = 0
       /\ at \in {"calling", "ending"} => Len(failures) = attempt - 1
       /\ at = "resting" => Len(failures) = attempt
  /\ at # "done" => \A k \in 1..Len(failures) :
       /\ failures[k].retried /\ failures[k].phase = "before_output"
       /\ \/ failures[k].attempt < attempt
          \/ at = "resting" /\ failures[k].attempt = attempt

IInv ==
  /\ TypeOK /\ Silence /\ Books
  /\ OneVoice /\ BilledIfAnswered /\ Accounted /\ RecordsTrue

-----------------------------------------------------------------------------
(* A sequence of elements is empty when it has no length, and one more      *)
(* element comes behind the others.                                         *)
LEMMA OneMore ==
  ASSUME NEW S, NEW s \in Seq(S), NEW e \in S
  PROVE  LET t == Append(s, e)
         IN /\ t \in Seq(S) /\ t # <<>> /\ Len(s) \in Nat /\ Len(t) = Len(s) + 1
            /\ \A k \in 1..Len(s) : t[k] = s[k] /\ s[k] \in S
            /\ t[Len(s) + 1] = e
            /\ \A k \in 1..Len(t) : k \in 1..Len(s) \/ k = Len(s) + 1
            /\ s = <<>> <=> Len(s) = 0
<1>1. /\ Append(s, e) \in Seq(S) /\ Len(s) \in Nat
      /\ Len(Append(s, e)) = Len(s) + 1 /\ Append(s, e)[Len(s) + 1] = e
      /\ \A k \in 1..Len(s) : Append(s, e)[k] = s[k]
  BY AppendProperties, LenProperties
<1>2. \A k \in 1..Len(s) : s[k] \in S
  BY ElementOfSeq
<1>3. s = <<>> <=> Len(s) = 0
  BY EmptySeq, <1>1
<1>4. Append(s, e) # <<>>
  BY <1>1, EmptySeq
<1>5. \A k \in 1..Len(Append(s, e)) : k \in 1..Len(s) \/ k = Len(s) + 1
  BY <1>1
<1> QED
  BY <1>1, <1>2, <1>3, <1>4, <1>5

(* The call begins with nothing said and nothing recorded.                  *)
LEMMA InitIInv == Init => IInv
<1> SUFFICES ASSUME Init PROVE IInv
  OBVIOUS
<1>1. Len(<<>>) = 0 /\ said \in Seq(Chunk) /\ failures \in Seq(Failure)
  BY EmptySeq DEF Init
<1>2. TypeOK
  <2>1. attempt \in 0..MaxAttempts /\ costs \in Nat
    BY AttemptsAssumption DEF Init
  <2>2. emitted \in BOOLEAN /\ aborted \in BOOLEAN /\ lost \in BOOLEAN
    BY DEF Init
  <2>3. at \in {"idle", "calling", "ending", "resting", "done", "threw"}
    BY DEF Init
  <2> QED
    BY <1>1, <2>1, <2>2, <2>3 DEF TypeOK
<1>3. Silence /\ Books
  BY <1>1 DEF Init, Silence, Books
<1>4. OneVoice /\ BilledIfAnswered /\ Accounted /\ RecordsTrue
  BY <1>1 DEF Init, OneVoice, BilledIfAnswered, Accounted, RecordsTrue
<1> QED
  BY <1>2, <1>3, <1>4 DEF IInv

(* One more chunk for the caller.                                           *)
LEMMA Spoken ==
  ASSUME said \in Seq(Chunk), attempt \in 1..MaxAttempts,
         NEW type \in {"content", "message_end", "error"}, Say(type)
  PROVE  /\ said' \in Seq(Chunk) /\ said' # <<>>
         /\ Len(said) \in Nat /\ Len(said') = Len(said) + 1
         /\ \A k \in 1..Len(said) : said'[k] = said[k] /\ k \in 1..Len(said')
         /\ said'[Len(said) + 1] = [type |-> type, from |-> attempt]
         /\ \A k \in 1..Len(said') : k \in 1..Len(said) \/ k = Len(said')
<1> DEFINE c == [type |-> type, from |-> attempt]
<1>1. c \in Chunk
  BY DEF Chunk
<1>2. said' = Append(said, c)
  BY DEF Say
<1> HIDE DEF c
<1>3. /\ said' \in Seq(Chunk) /\ said' # <<>> /\ Len(said) \in Nat
      /\ Len(said') = Len(said) + 1
      /\ \A k \in 1..Len(said) : said'[k] = said[k]
      /\ said'[Len(said) + 1] = c
      /\ \A k \in 1..Len(said') : k \in 1..Len(said) \/ k = Len(said) + 1
  BY <1>1, <1>2, OneMore
<1>4. \A k \in 1..Len(said) : k \in 1..Len(said')
  BY <1>3
<1> QED
  BY <1>3, <1>4 DEF c

(* One more failure record, of the attempt that runs.                       *)
LEMMA Noted ==
  ASSUME failures \in Seq(Failure), attempt \in 1..MaxAttempts,
         NEW phase \in Phase, NEW retried \in BOOLEAN, AddFailure(phase, retried)
  PROVE  /\ failures' \in Seq(Failure)
         /\ Len(failures) \in Nat /\ Len(failures') = Len(failures) + 1
         /\ \A k \in 1..Len(failures') :
              \/ k \in 1..Len(failures) /\ failures'[k] = failures[k]
              \/ failures'[k] = [attempt |-> attempt, phase |-> phase,
                                 retried |-> retried]
<1> DEFINE f == [attempt |-> attempt, phase |-> phase, retried |-> retried]
<1>1. f \in Failure
  BY DEF Failure
<1>2. failures' = Append(failures, f)
  BY DEF AddFailure
<1> HIDE DEF f
<1>3. /\ failures' \in Seq(Failure) /\ Len(failures) \in Nat
      /\ Len(failures') = Len(failures) + 1
      /\ \A k \in 1..Len(failures) : failures'[k] = failures[k]
      /\ failures'[Len(failures) + 1] = f
      /\ \A k \in 1..Len(failures') : k \in 1..Len(failures) \/ k = Len(failures) + 1
  BY <1>1, <1>2, OneMore
<1> QED
  BY <1>3 DEF f

(* What recordFailure leaves: a record more, unless an abort or a failing   *)
(* insert keeps it out.                                                     *)
LEMMA Recorded ==
  ASSUME TypeOK, attempt \in 1..MaxAttempts,
         NEW phase \in Phase, NEW retried \in BOOLEAN, RecordFailure(phase, retried)
  PROVE  /\ failures' \in Seq(Failure) /\ lost' \in BOOLEAN /\ (lost => lost')
         /\ Len(failures) \in Nat
         /\ ~aborted /\ ~lost' => Len(failures') = Len(failures) + 1
         /\ \A k \in 1..Len(failures') :
              \/ k \in 1..Len(failures) /\ failures'[k] = failures[k]
              \/ failures'[k] = [attempt |-> attempt, phase |-> phase,
                                 retried |-> retried]
<1>1. failures \in Seq(Failure) /\ lost \in BOOLEAN /\ Len(failures) \in Nat
  BY LenProperties DEF TypeOK
<1>2. CASE aborted /\ UNCHANGED <<failures, lost>>
  BY <1>1, <1>2
<1>3. CASE ~aborted /\ AddFailure(phase, retried) /\ UNCHANGED lost
  BY <1>1, <1>3, Noted
<1>4. CASE ~aborted /\ lost' = TRUE /\ UNCHANGED failures
  BY <1>1, <1>4
<1> QED
  BY <1>2, <1>3, <1>4 DEF RecordFailure

-----------------------------------------------------------------------------
(* A call that runs has an attempt.                                         *)
LEMMA Running ==
  ASSUME IInv, at \notin {"idle", "threw"}
  PROVE  attempt \in 1..MaxAttempts /\ attempt \in Nat /\ Len(said) \in Nat
<1>1. attempt \in 0..MaxAttempts /\ attempt # 0 /\ said \in Seq(Chunk)
  BY DEF IInv, TypeOK, Silence
<1> QED
  BY <1>1, AttemptsAssumption, LenProperties

(* Every record is of an attempt.                                           *)
LEMMA OfAttempt ==
  ASSUME TypeOK
  PROVE  \A k \in 1..Len(failures) : failures[k].attempt \in 1..MaxAttempts
<1> TAKE k \in 1..Len(failures)
<1>1. failures \in Seq(Failure)
  BY DEF TypeOK
<1>2. failures[k] \in Failure
  BY <1>1, ElementOfSeq
<1> QED
  BY <1>2 DEF Failure

(* The first attempt, or none.                                              *)
LEMMA BeginIInv == ASSUME IInv, Begin PROVE IInv'
<1> USE DEF IInv
<1>1. /\ at = "idle" /\ attempt = 0 /\ said = <<>> /\ costs = 0 /\ ~emitted
      /\ \/ at' = "calling" /\ attempt' = 1
         \/ at' = "threw" /\ attempt' = attempt
      /\ UNCHANGED <<emitted, said, failures, costs, aborted, lost>>
  BY DEF Begin, Silence, Books
<1>2. failures \in Seq(Failure) /\ Len(said) = 0 /\ Len(failures) \in Nat
  BY <1>1, EmptySeq, LenProperties DEF TypeOK
<1>3. TypeOK'
  <2>1. attempt' \in 0..MaxAttempts
    BY <1>1, AttemptsAssumption
  <2> QED
    BY <1>1, <2>1 DEF TypeOK
<1>4. Silence'
  BY <1>1, <1>2 DEF Silence
<1>5. \A k \in 1..Len(failures) :
        failures[k].retried /\ failures[k].phase = "before_output" /\ failures[k].attempt < attempt
  BY <1>1 DEF Books
<1>6. Books'
  <2>1. ~aborted /\ ~lost => Len(failures) = 0
    BY <1>1 DEF Books
  <2>2. \A k \in 1..Len(failures) : failures[k].attempt < attempt'
    <3> SUFFICES ASSUME NEW k \in 1..Len(failures) PROVE failures[k].attempt < attempt'
      OBVIOUS
    <3>1. failures[k].attempt < attempt /\ failures[k].attempt \in 1..MaxAttempts
      BY <1>5, OfAttempt
    <3> QED
      BY <3>1, <1>1
  <2> QED
    BY <1>1, <1>5, <2>1, <2>2 DEF Books
<1>7. OneVoice' /\ BilledIfAnswered' /\ Accounted'
  BY <1>1, <1>2, <1>6 DEF OneVoice, BilledIfAnswered, Accounted, Books
<1>8. RecordsTrue'
  BY <1>1, <1>2, <1>6 DEF RecordsTrue, Books
<1> QED
  BY <1>3, <1>4, <1>6, <1>7, <1>8

(* An abort changes nothing yet.                                            *)
LEMMA AbortIInv == ASSUME IInv, Abort PROVE IInv'
<1> USE DEF IInv
<1>1. /\ at # "done" /\ ~aborted /\ aborted' = TRUE
      /\ UNCHANGED <<at, attempt, emitted, said, failures, costs, lost>>
  BY DEF Abort
<1>2. TypeOK' /\ Silence' /\ Books'
  BY <1>1 DEF TypeOK, Silence, Books
<1>3. OneVoice' /\ BilledIfAnswered' /\ Accounted' /\ RecordsTrue'
  BY <1>1 DEF OneVoice, BilledIfAnswered, Answered, Accounted, RecordsTrue
<1> QED
  BY <1>2, <1>3

(* A call that neither ends nor begins an attempt keeps its books.          *)
LEMMA BooksKept ==
  ASSUME IInv, at = "calling", at' \in {"calling", "ending"},
         UNCHANGED <<attempt, failures, costs, aborted, lost>>,
         said' \in Seq(Chunk),
         \A k \in 1..Len(said') : said'[k].from = attempt
  PROVE  Books' /\ BilledIfAnswered' /\ Accounted' /\ RecordsTrue'
<1> USE DEF IInv
<1>1. Books'
  BY DEF Books
<1>2. BilledIfAnswered' /\ Accounted'
  BY DEF BilledIfAnswered, Accounted, Books
<1>3. RecordsTrue'
  <2> SUFFICES ASSUME NEW k \in 1..Len(failures)
               PROVE  /\ failures[k].retried /\ failures[k].attempt < attempt
                      /\ failures[k].phase # "mid_stream"
                      /\ failures[k].attempt # attempt
    BY DEF RecordsTrue
  <2>1. /\ failures[k].retried /\ failures[k].phase = "before_output"
        /\ failures[k].attempt < attempt
    BY DEF Books
  <2>2. failures[k].attempt \in 1..MaxAttempts /\ attempt \in 0..MaxAttempts
    BY OfAttempt DEF TypeOK
  <2> QED
    BY <2>1, <2>2
<1> QED
  BY <1>1, <1>2, <1>3

(* Content is said by the attempt that runs.                                *)
LEMMA ContentIInv == ASSUME IInv, Content PROVE IInv'
<1> USE DEF IInv
<1>1. /\ at = "calling" /\ Say("content") /\ emitted' = TRUE
      /\ UNCHANGED <<at, attempt, failures, costs, aborted, lost>>
  BY DEF Content
<1>2. attempt \in 1..MaxAttempts /\ attempt \in Nat
  BY <1>1, Running
<1>3. /\ said' \in Seq(Chunk) /\ said' # <<>>
      /\ \A k \in 1..Len(said') : said'[k].from = attempt /\ said'[k].type = "content"
  <2>1. /\ said' \in Seq(Chunk) /\ said' # <<>>
        /\ Len(said) \in Nat /\ Len(said') = Len(said) + 1
        /\ \A k \in 1..Len(said) : said'[k] = said[k]
        /\ said'[Len(said) + 1] = [type |-> "content", from |-> attempt]
        /\ \A k \in 1..Len(said') : k \in 1..Len(said) \/ k = Len(said')
    BY <1>1, <1>2, Spoken DEF TypeOK
  <2>2. \A k \in 1..Len(said) : said[k].from = attempt /\ said[k].type = "content"
    BY <1>1 DEF OneVoice, Silence
  <2> QED
    BY <2>1, <2>2
<1>4. TypeOK'
  BY <1>1, <1>3 DEF TypeOK
<1>5. Silence'
  BY <1>1, <1>2, <1>3 DEF Silence
<1>6. OneVoice'
  BY <1>1, <1>3 DEF OneVoice
<1>7. Books' /\ BilledIfAnswered' /\ Accounted' /\ RecordsTrue'
  BY <1>1, <1>3, BooksKept
<1> QED
  BY <1>4, <1>5, <1>6, <1>7

(* The end of the answer comes behind its content.                          *)
LEMMA MessageEndIInv == ASSUME IInv, MessageEnd PROVE IInv'
<1> USE DEF IInv
<1>1. /\ at = "calling" /\ at' = "ending" /\ Say("message_end") /\ emitted' = TRUE
      /\ UNCHANGED <<attempt, failures, costs, aborted, lost>>
  BY DEF MessageEnd
<1>2. attempt \in 1..MaxAttempts /\ attempt \in Nat
  BY <1>1, Running
<1>3. /\ said' \in Seq(Chunk) /\ said' # <<>>
      /\ \A k \in 1..Len(said') : /\ said'[k].from = attempt /\ said'[k].type # "error"
                                  /\ k # Len(said') => said'[k].type = "content"
  <2>1. /\ said' \in Seq(Chunk) /\ said' # <<>>
        /\ Len(said) \in Nat /\ Len(said') = Len(said) + 1
        /\ \A k \in 1..Len(said) : said'[k] = said[k]
        /\ said'[Len(said) + 1] = [type |-> "message_end", from |-> attempt]
        /\ \A k \in 1..Len(said') : k \in 1..Len(said) \/ k = Len(said')
    BY <1>1, <1>2, Spoken DEF TypeOK
  <2>2. \A k \in 1..Len(said) : said[k].from = attempt /\ said[k].type = "content"
    BY <1>1 DEF OneVoice, Silence
  <2> QED
    BY <2>1, <2>2
<1>4. TypeOK'
  BY <1>1, <1>3 DEF TypeOK
<1>5. Silence'
  BY <1>1, <1>2, <1>3 DEF Silence
<1>6. OneVoice'
  BY <1>1, <1>3 DEF OneVoice
<1>7. Books' /\ BilledIfAnswered' /\ Accounted' /\ RecordsTrue'
  BY <1>1, <1>3, BooksKept
<1> QED
  BY <1>4, <1>5, <1>6, <1>7

(* An error is the last word of the attempt that runs, and its record the   *)
(* last of the call.                                                        *)
LEMMA MidStreamIInv == ASSUME IInv, MidStream PROVE IInv'
<1> USE DEF IInv
<1>1. /\ at = "calling" /\ at' = "done" /\ Say("error") /\ emitted
      /\ RecordFailure("mid_stream", FALSE)
      /\ UNCHANGED <<attempt, emitted, costs, aborted>>
  BY DEF MidStream
<1>2. attempt \in 1..MaxAttempts /\ attempt \in Nat
  BY <1>1, Running
<1>3. /\ said' \in Seq(Chunk) /\ Len(said) \in Nat /\ Len(said') = Len(said) + 1
      /\ \A k \in 1..Len(said) : said'[k] = said[k] /\ k \in 1..Len(said')
      /\ said'[Len(said) + 1] = [type |-> "error", from |-> attempt]
      /\ \A k \in 1..Len(said') : k \in 1..Len(said) \/ k = Len(said')
  BY <1>1, <1>2, Spoken DEF TypeOK
<1>4. /\ said # <<>> /\ costs = 0
      /\ \A k \in 1..Len(said) : said[k].from = attempt /\ said[k].type = "content"
  BY <1>1 DEF OneVoice, Silence, Books
<1>5. /\ failures' \in Seq(Failure) /\ lost' \in BOOLEAN /\ (lost => lost')
      /\ ~aborted /\ ~lost' => Len(failures') = Len(failures) + 1
      /\ \A k \in 1..Len(failures') :
           \/ k \in 1..Len(failures) /\ failures'[k] = failures[k]
           \/ failures'[k] = [attempt |-> attempt, phase |-> "mid_stream",
                              retried |-> FALSE]
  BY <1>1, <1>2, Recorded DEF Phase
<1>6. TypeOK'
  BY <1>1, <1>3, <1>5 DEF TypeOK
<1>7. Silence' /\ Books'
  BY <1>1, <1>2 DEF Silence, Books
<1>8. OneVoice'
  BY <1>1, <1>3, <1>4 DEF OneVoice
<1>9. ~Answered' /\ BilledIfAnswered'
  <2>1. Len(said') \in 1..Len(said') /\ said'[Len(said')].type = "error"
    BY <1>3
  <2> QED
    BY <2>1, <1>1, <1>4 DEF Answered, BilledIfAnswered
<1>10. Accounted'
  <2>1. ~aborted /\ ~lost => Len(failures) = attempt - 1
    BY <1>1 DEF Books
  <2> QED
    BY <2>1, <1>1, <1>2, <1>4, <1>5 DEF Accounted
<1>11. RecordsTrue'
  <2>1. \E j \in 1..Len(said') : said'[j].type # "error"
    <3>1. 1 \in 1..Len(said)
      BY <1>3, <1>4, EmptySeq DEF TypeOK
    <3> QED
      BY <3>1, <1>3, <1>4
  <2> SUFFICES ASSUME NEW k \in 1..Len(failures')
               PROVE  /\ failures'[k].retried <=> failures'[k].attempt < attempt
                      /\ failures'[k].phase = "mid_stream" <=> failures'[k].attempt = attempt
    BY <1>1, <2>1 DEF RecordsTrue
  <2>2. CASE k \in 1..Len(failures) /\ failures'[k] = failures[k]
    <3>1. /\ failures[k].retried /\ failures[k].phase = "before_output"
          /\ failures[k].attempt < attempt
      BY <1>1, <2>2 DEF Books
    <3>2. failures[k].attempt \in 1..MaxAttempts
      BY <2>2, OfAttempt
    <3> QED
      BY <1>2, <2>2, <3>1, <3>2
  <2>3. CASE failures'[k] = [attempt |-> attempt, phase |-> "mid_stream", retried |-> FALSE]
    BY <1>2, <2>3
  <2> QED
    BY <1>5, <2>2, <2>3
<1> QED
  BY <1>6, <1>7, <1>8, <1>9, <1>10, <1>11

(* An attempt that fails before output is retried or is the last.           *)
LEMMA BeforeOutputIInv ==
  ASSUME IInv, NEW retryable \in BOOLEAN, BeforeOutput(retryable)
  PROVE  IInv'
<1> USE DEF IInv
<1> DEFINE willRetry == retryable /\ attempt < MaxAttempts
<1>1. /\ at = "calling" /\ ~emitted /\ RecordFailure("before_output", willRetry)
      /\ willRetry => at' = "resting" /\ said' = said
      /\ ~willRetry => at' = "done" /\ Say("error")
      /\ UNCHANGED <<attempt, emitted, costs, aborted>>
  BY DEF BeforeOutput
<1>2. attempt \in 1..MaxAttempts /\ attempt \in Nat
  BY <1>1, Running
<1>3. said = <<>> /\ Len(said) = 0 /\ costs = 0
  BY <1>1, EmptySeq DEF Silence, Books
<1>4. willRetry \in BOOLEAN /\ (willRetry => attempt < MaxAttempts)
  OBVIOUS
<1> HIDE DEF willRetry
<1>5. /\ failures' \in Seq(Failure) /\ lost' \in BOOLEAN /\ (lost => lost')
      /\ ~aborted /\ ~lost' => Len(failures') = Len(failures) + 1
      /\ Len(failures) \in Nat
      /\ \A k \in 1..Len(failures') :
           \/ k \in 1..Len(failures) /\ failures'[k] = failures[k]
           \/ failures'[k] = [attempt |-> attempt, phase |-> "before_output",
                              retried |-> willRetry]
  BY <1>1, <1>2, <1>4, Recorded DEF Phase
<1>6. ~aborted /\ ~lost' => Len(failures') = attempt
  <2>1. ~aborted /\ ~lost => Len(failures) = attempt - 1
    BY <1>1 DEF Books
  <2> QED
    BY <2>1, <1>2, <1>5
<1>7. \A k \in 1..Len(failures') :
        /\ failures'[k].phase = "before_output"
        /\ failures'[k].retried <=> failures'[k].attempt < attempt \/ willRetry
        /\ failures'[k].attempt < attempt \/ failures'[k].attempt = attempt
  <2> TAKE k \in 1..Len(failures')
  <2>1. CASE k \in 1..Len(failures) /\ failures'[k] = failures[k]
    BY <1>1, <2>1 DEF Books
  <2>2. CASE failures'[k] = [attempt |-> attempt, phase |-> "before_output",
                             retried |-> willRetry]
    BY <1>2, <1>4, <2>2
  <2> QED
    BY <1>5, <2>1, <2>2
<1>8. CASE willRetry
  <2>1. TypeOK'
    BY <1>1, <1>5, <1>8 DEF TypeOK
  <2>2. Silence'
    BY <1>1, <1>2, <1>3, <1>4, <1>8 DEF Silence
  <2>3. Books'
    BY <1>1, <1>3, <1>6, <1>7, <1>8 DEF Books
  <2>4. OneVoice' /\ BilledIfAnswered' /\ Accounted'
    BY <1>1, <1>3, <1>8 DEF OneVoice, BilledIfAnswered, Accounted
  <2>5. RecordsTrue'
    BY <1>1, <1>3, <1>7, <1>8 DEF RecordsTrue
  <2> QED
    BY <2>1, <2>2, <2>3, <2>4, <2>5
<1>9. CASE ~willRetry
  <2>1. /\ said' \in Seq(Chunk) /\ Len(said') = 1
        /\ said'[1] = [type |-> "error", from |-> attempt]
    <3>1. /\ said' \in Seq(Chunk) /\ Len(said') = Len(said) + 1
          /\ said'[Len(said) + 1] = [type |-> "error", from |-> attempt]
      BY <1>1, <1>2, <1>9, Spoken DEF TypeOK
    <3> QED
      BY <3>1, <1>3
  <2>2. TypeOK'
    BY <1>1, <1>5, <1>9, <2>1 DEF TypeOK
  <2>3. Silence' /\ Books'
    BY <1>1, <1>2, <1>9 DEF Silence, Books
  <2>4. OneVoice' /\ ~Answered' /\ BilledIfAnswered'
    BY <1>1, <1>3, <1>9, <2>1 DEF OneVoice, Answered, BilledIfAnswered
  <2>5. Accounted'
    BY <1>1, <1>2, <1>3, <1>6, <1>9 DEF Accounted
  <2>6. RecordsTrue'
    <3>1. \A j \in 1..Len(said') : said'[j].type = "error"
      BY <2>1
    <3> QED
      BY <1>1, <1>7, <1>9, <3>1 DEF RecordsTrue
  <2> QED
    BY <2>2, <2>3, <2>4, <2>5, <2>6
<1> QED
  BY <1>8, <1>9

(* The next attempt finds nothing said and every earlier one recorded.      *)
LEMMA WakeIInv == ASSUME IInv, Wake PROVE IInv'
<1> USE DEF IInv
<1>1. /\ at = "resting" /\ at' = "calling" /\ attempt' = attempt + 1 /\ ~emitted'
      /\ emitted' = FALSE
      /\ UNCHANGED <<said, failures, costs, aborted, lost>>
  BY DEF Wake
<1>2. attempt \in 1..MaxAttempts /\ attempt \in Nat
  BY <1>1, Running
<1>3. attempt < MaxAttempts /\ said = <<>> /\ Len(said) = 0 /\ costs = 0
  BY <1>1, EmptySeq DEF Silence, Books
<1>4. \A k \in 1..Len(failures) :
        /\ failures[k].retried /\ failures[k].phase = "before_output"
        /\ failures[k].attempt < attempt'
  <2> TAKE k \in 1..Len(failures)
  <2>1. failures[k].retried /\ failures[k].phase = "before_output"
    BY <1>1 DEF Books
  <2>2. failures[k].attempt \in 1..MaxAttempts
    BY OfAttempt
  <2>3. failures[k].attempt < attempt \/ failures[k].attempt = attempt
    BY <1>1 DEF Books
  <2> QED
    BY <1>1, <1>2, <2>1, <2>2, <2>3
<1>5. TypeOK'
  <2>1. attempt' \in 0..MaxAttempts
    BY <1>1, <1>2, <1>3, AttemptsAssumption
  <2> QED
    BY <1>1, <2>1 DEF TypeOK
<1>6. Silence'
  BY <1>1, <1>2, <1>3 DEF Silence
<1>7. Books'
  BY <1>1, <1>2, <1>3, <1>4 DEF Books
<1>8. OneVoice' /\ BilledIfAnswered' /\ Accounted'
  BY <1>1, <1>3, <1>7 DEF OneVoice, BilledIfAnswered, Accounted, Books
<1>9. RecordsTrue'
  BY <1>1, <1>3, <1>4 DEF RecordsTrue
<1> QED
  BY <1>5, <1>6, <1>7, <1>8, <1>9

(* The cost is recorded, or its loss is an error to the caller.             *)
LEMMA RecordCostIInv == ASSUME IInv, RecordCost PROVE IInv'
<1> USE DEF IInv
<1>1. at = "ending" /\ at' = "done" /\ UNCHANGED <<attempt, emitted, aborted>>
  BY DEF RecordCost
<1>2. attempt \in 1..MaxAttempts /\ attempt \in Nat
  BY <1>1, Running
<1>3. /\ costs = 0 /\ said # <<>> /\ said \in Seq(Chunk) /\ failures \in Seq(Failure)
      /\ \A k \in 1..Len(said) : /\ said[k].from = attempt /\ said[k].type # "error"
                                 /\ k # Len(said) => said[k].type = "content"
  BY <1>1 DEF OneVoice, Silence, Books, TypeOK
<1>4. Len(said) \in Nat \ {0} /\ 1 \in 1..Len(said) /\ Len(failures) \in Nat
  BY <1>3, EmptySeq, LenProperties
<1>5. /\ ~aborted /\ ~lost => Len(failures) = attempt - 1
      /\ \A k \in 1..Len(failures) :
           /\ failures[k].retried /\ failures[k].phase = "before_output"
           /\ failures[k].attempt < attempt /\ failures[k].attempt # attempt
  <2>1. \A k \in 1..Len(failures) :
           /\ failures[k].retried /\ failures[k].phase = "before_output"
           /\ failures[k].attempt < attempt
    BY <1>1 DEF Books
  <2>2. \A k \in 1..Len(failures) : failures[k].attempt \in 1..MaxAttempts
    BY OfAttempt
  <2> QED
    BY <1>1, <1>2, <2>1, <2>2 DEF Books
<1>6. Silence' /\ Books'
  BY <1>1, <1>2 DEF Silence, Books
<1>7. CASE costs' = costs + 1 /\ UNCHANGED <<said, failures, lost>>
  <2>1. TypeOK'
    BY <1>1, <1>3, <1>7 DEF TypeOK
  <2>2. OneVoice' /\ BilledIfAnswered'
    BY <1>1, <1>3, <1>7 DEF OneVoice, Answered, BilledIfAnswered
  <2>3. Accounted'
    BY <1>1, <1>2, <1>3, <1>5, <1>7 DEF Accounted
  <2>4. RecordsTrue'
    BY <1>1, <1>3, <1>4, <1>5, <1>7 DEF RecordsTrue
  <2> QED
    BY <1>6, <2>1, <2>2, <2>3, <2>4
<1>8. CASE /\ costs' \in {costs, costs + 1} /\ lost' = TRUE /\ Say("error")
           /\ \/ UNCHANGED failures
              \/ ~aborted /\ AddFailure("mid_stream", FALSE)
  <2>1. /\ said' \in Seq(Chunk) /\ Len(said') = Len(said) + 1
        /\ \A k \in 1..Len(said) : said'[k] = said[k] /\ k \in 1..Len(said')
        /\ said'[Len(said) + 1] = [type |-> "error", from |-> attempt]
        /\ \A k \in 1..Len(said') : k \in 1..Len(said) \/ k = Len(said')
    BY <1>2, <1>3, <1>8, Spoken
  <2>2. /\ failures' \in Seq(Failure)
        /\ \A k \in 1..Len(failures') :
             \/ k \in 1..Len(failures) /\ failures'[k] = failures[k]
             \/ failures'[k] = [attempt |-> attempt, phase |-> "mid_stream",
                                retried |-> FALSE]
    BY <1>2, <1>3, <1>8, Noted DEF Phase
  <2>3. TypeOK'
    BY <1>1, <1>3, <1>8, <2>1, <2>2 DEF TypeOK
  <2>4. OneVoice'
    <3> SUFFICES ASSUME NEW k \in 1..Len(said')
                 PROVE  /\ said'[k].from = attempt
                        /\ said'[k].type # "content" =>
                             k = Len(said') \/ said'[k].type = "message_end"
      BY <1>1, <1>8 DEF OneVoice
    <3>1. CASE k \in 1..Len(said)
      <4>1. said[k] \in Chunk
        BY <1>3, <3>1, ElementOfSeq
      <4>2. said[k].type \in {"content", "message_end"}
        BY <4>1, <1>3, <3>1 DEF Chunk
      <4> QED
        BY <4>2, <1>3, <2>1, <3>1
    <3>2. CASE k = Len(said')
      BY <1>4, <2>1, <3>2
    <3> QED
      BY <2>1, <3>1, <3>2
  <2>5. ~Answered' /\ BilledIfAnswered' /\ Accounted'
    <3>1. Len(said') \in 1..Len(said') /\ said'[Len(said')].type = "error"
      BY <1>4, <2>1
    <3> QED
      BY <3>1, <1>1, <1>8 DEF Answered, BilledIfAnswered, Accounted
  <2>6. RecordsTrue'
    <3>1. \E j \in 1..Len(said') : said'[j].type # "error"
      BY <1>3, <1>4, <2>1
    <3> SUFFICES ASSUME NEW k \in 1..Len(failures')
                 PROVE  /\ failures'[k].retried <=> failures'[k].attempt < attempt
                        /\ failures'[k].phase = "mid_stream"
                             <=> failures'[k].attempt = attempt
      BY <1>1, <3>1 DEF RecordsTrue
    <3>2. CASE k \in 1..Len(failures) /\ failures'[k] = failures[k]
      BY <1>5, <3>2
    <3>3. CASE failures'[k] = [attempt |-> attempt, phase |-> "mid_stream",
                               retried |-> FALSE]
      BY <1>2, <3>3
    <3> QED
      BY <2>2, <3>2, <3>3
  <2> QED
    BY <1>6, <2>3, <2>4, <2>5, <2>6
<1> QED
  BY <1>7, <1>8 DEF RecordCost

(* Every step keeps the invariant.                                          *)
LEMMA StepIInv == IInv /\ [Next]_vars => IInv'
<1> SUFFICES ASSUME IInv, [Next]_vars PROVE IInv'
  OBVIOUS
<1>1. CASE UNCHANGED vars
  <2>1. TypeOK' /\ Silence' /\ Books'
    BY <1>1 DEF IInv, vars, TypeOK, Silence, Books
  <2>2. OneVoice' /\ BilledIfAnswered' /\ Accounted' /\ RecordsTrue'
    BY <1>1 DEF IInv, vars, OneVoice, BilledIfAnswered, Answered, Accounted, RecordsTrue
  <2> QED
    BY <2>1, <2>2 DEF IInv
<1>2. CASE BeforeOutput(TRUE) \/ BeforeOutput(FALSE)
  BY <1>2, BeforeOutputIInv
<1> QED
  BY <1>1, <1>2, BeginIInv, AbortIInv, ContentIInv, MessageEndIInv, MidStreamIInv,
     WakeIInv, RecordCostIInv DEF Next, Adapter

-----------------------------------------------------------------------------
(* Every behaviour keeps the inductive invariant.                           *)
THEOREM Invariance == Spec => []IInv
<1> QED
  BY InitIInv, StepIInv, PTL DEF Spec

(* The state keeps its types.                                               *)
THEOREM Typed == Spec => []TypeOK
<1>1. IInv => TypeOK
  BY DEF IInv
<1> QED
  BY <1>1, Invariance, PTL

(* However many attempts fail, the caller hears one of them.                *)
THEOREM Voice == Spec => []OneVoice
<1>1. IInv => OneVoice
  BY DEF IInv
<1> QED
  BY <1>1, Invariance, PTL

(* A caller that got its answer was billed once, one that did not was not.  *)
THEOREM Billed == Spec => []BilledIfAnswered
<1>1. IInv => BilledIfAnswered
  BY DEF IInv
<1> QED
  BY <1>1, Invariance, PTL

(* Records of failures and costs add up to the attempts, and say what       *)
(* happened.                                                                *)
THEOREM BooksBalance == Spec => [](Accounted /\ RecordsTrue)
<1>1. IInv => Accounted /\ RecordsTrue
  BY DEF IInv
<1> QED
  BY <1>1, Invariance, PTL

(***************************************************************************)
(* Induction over data.  The library's induction theorems take a predicate  *)
(* as a parameter; what follows takes the set where it holds.              *)
(***************************************************************************)

(* A set of naturals that is not empty has a least element.                *)
LEMMA Least ==
  ASSUME NEW T, T \subseteq Nat, T # {}
  PROVE  \E x \in T : \A y \in T : x <= y
<1>1. \A m, n \in Nat : <<m, n>> \in OpToRel(<, Nat) <=> m < n
  BY DEF OpToRel
<1>2. PICK x \in T : \A y \in T : ~ (<<y, x>> \in OpToRel(<, Nat))
  BY NatLessThanWellFounded, WFMin, Zenon
<1>3. x \in Nat /\ \A y \in T : y \in Nat /\ ~(y < x)
  BY <1>1, <1>2
<1>4. \A y \in T : x <= y
  BY <1>3
<1> QED
  BY <1>2, <1>4

(* The numbers up to one are finitely many.                                *)
LEMMA UptoFinite == ASSUME NEW n \in Nat PROVE IsFiniteSet(1..n)
<1>1. 1 \in Int /\ n \in Int
  OBVIOUS
<1> QED
  BY <1>1, FS_Interval, Zenon

(* A set that has 0 and the successor of each of its naturals has them all. *)
LEMMA Inductive ==
  ASSUME NEW T, 0 \in T, \A n \in Nat : n \in T => n + 1 \in T
  PROVE  Nat \subseteq T
<1> SUFFICES ASSUME Nat \ T # {} PROVE FALSE
  OBVIOUS
<1>1. PICK x \in Nat \ T : \A y \in Nat \ T : x <= y
  BY Least
<1>2. x - 1 \in Nat
  BY <1>1
<1>3. x - 1 \in T
  BY <1>1, <1>2
<1> QED
  BY <1>1, <1>2, <1>3

(* A set of subsets of a finite set that has {} and grows by any element    *)
(* has the whole set.                                                      *)
LEMMA GrowsToAll ==
  ASSUME NEW S, IsFiniteSet(S), NEW P,
         {} \in P, \A T \in SUBSET S : \A x \in S \ T : T \in P => T \cup {x} \in P
  PROVE  S \in P
<1> DEFINE Q == {n \in Nat : \A T \in SUBSET S : Cardinality(T) = n => T \in P}
<1>1. 0 \in Q
  BY FS_EmptySet, FS_Subset
<1>2. ASSUME NEW n \in Nat, n \in Q PROVE n + 1 \in Q
  <2> SUFFICES ASSUME NEW T \in SUBSET S, Cardinality(T) = n + 1 PROVE T \in P
    OBVIOUS
  <2>1. IsFiniteSet(T)
    BY FS_Subset
  <2>2. PICK x : x \in T
    BY <2>1, FS_EmptySet
  <2>3. Cardinality(T \ {x}) = Cardinality(T) - 1
    BY <2>1, <2>2, FS_RemoveElement
  <2>4. T \ {x} \in P
    BY <1>2, <2>3
  <2>5. (T \ {x}) \cup {x} \in P
    BY <2>2, <2>4
  <2> QED
    BY <2>2, <2>5
<1>3. Nat \subseteq Q
  <2> HIDE DEF Q
  <2> QED
    BY <1>1, <1>2, Inductive
<1> QED
  BY <1>3, FS_CardinalityType

----------------------------------------------------------------------------
(* The sum of v over a finite set, an element after the other.             *)
Pick(T) == CHOOSE x \in T : TRUE
SumStep(v, g, T) == IF T = {} THEN 0 ELSE v[Pick(T)] + g[T \ {Pick(T)}]
IsSums(g, v, S) == g = [T \in SUBSET S |-> SumStep(v, g, T)]
Sums(v, S) == (CHOOSE g : IsSums(g, v, S))[S]

(* What is picked of a set is of it.                                        *)
LEMMA PickIn == ASSUME NEW T, T # {} PROVE Pick(T) \in T
BY DEF Pick

(* There is a function of the sums over all parts of a finite set.          *)
LEMMA SumsExist ==
  ASSUME NEW v, NEW S, IsFiniteSet(S)
  PROVE  \E g : IsSums(g, v, S)
<1> DEFINE Upto(n) == {T \in SUBSET S : Cardinality(T) <= n}
           Fits(g, n) == g = [T \in Upto(n) |-> SumStep(v, g, T)]
           Q == {n \in Nat : \E g : Fits(g, n)}
<1>1. \A T \in SUBSET S : IsFiniteSet(T) /\ Cardinality(T) \in Nat
  BY FS_Subset, FS_CardinalityType
<1>2. ASSUME NEW n \in Nat, NEW T \in Upto(n + 1), T # {}
      PROVE  T \ {Pick(T)} \in Upto(n)
  <2>1. Pick(T) \in T
    BY <1>2, PickIn
  <2> QED
    BY <1>1, <2>1, FS_RemoveElement
<1>3. 0 \in Q
  <2> DEFINE g == [T \in Upto(0) |-> 0]
  <2>1. \A T \in Upto(0) : T = {}
    BY <1>1, FS_EmptySet
  <2>2. \A T \in Upto(0) : SumStep(v, g, T) = 0
    BY <2>1 DEF SumStep
  <2>3. Fits(g, 0)
    BY <2>2
  <2> QED
    BY <2>3
<1>4. ASSUME NEW n \in Nat, n \in Q PROVE n + 1 \in Q
  <2>1. PICK g : Fits(g, n)
    BY <1>4
  <2> DEFINE h == [T \in Upto(n + 1) |-> SumStep(v, g, T)]
  <2>2. Upto(n) \subseteq Upto(n + 1)
    BY <1>1
  <2>3. \A T \in Upto(n) : h[T] = g[T]
    BY <2>1, <2>2
  <2>4. \A T \in Upto(n + 1) : SumStep(v, g, T) = SumStep(v, h, T)
    BY <1>2, <2>3 DEF SumStep
  <2>5. h = [T \in Upto(n + 1) |-> SumStep(v, h, T)]
    BY <2>4
  <2> HIDE DEF h
  <2>6. Fits(h, n + 1)
    BY <2>5
  <2> QED
    BY <2>6
<1>5. Nat \subseteq Q
  <2> HIDE DEF Q
  <2> QED
    BY <1>3, <1>4, Inductive
<1>6. PICK g : Fits(g, Cardinality(S))
  BY <1>1, <1>5
<1>7. Upto(Cardinality(S)) = SUBSET S
  BY FS_Subset
<1> QED
  BY <1>6, <1>7 DEF IsSums

(* Sums over the same values agree, whatever they are part of.             *)
LEMMA SumsAgree ==
  ASSUME NEW v, NEW w, NEW S, NEW U \in SUBSET S, IsFiniteSet(U), \A x \in U : v[x] = w[x],
         NEW g, IsSums(g, v, S), NEW h, IsSums(h, w, U)
  PROVE  g[U] = h[U]
<1> DEFINE Q == {n \in Nat : \A T \in SUBSET U : Cardinality(T) = n => g[T] = h[T]}
<1>1. \A T \in SUBSET U : IsFiniteSet(T) /\ Cardinality(T) \in Nat
  BY FS_Subset, FS_CardinalityType
<1>2. \A T \in SUBSET U : g[T] = SumStep(v, g, T) /\ h[T] = SumStep(w, h, T)
  BY DEF IsSums
<1>3. 0 \in Q
  BY <1>1, <1>2, FS_EmptySet DEF SumStep
<1>4. ASSUME NEW n \in Nat, n \in Q PROVE n + 1 \in Q
  <2> SUFFICES ASSUME NEW T \in SUBSET U, Cardinality(T) = n + 1 PROVE g[T] = h[T]
    OBVIOUS
  <2>1. T # {}
    BY FS_EmptySet
  <2>2. Pick(T) \in T
    BY <2>1, PickIn
  <2>3. Cardinality(T \ {Pick(T)}) = Cardinality(T) - 1
    BY <1>1, <2>2, FS_RemoveElement
  <2>4. g[T \ {Pick(T)}] = h[T \ {Pick(T)}]
    BY <1>4, <2>3
  <2> QED
    BY <1>2, <2>1, <2>2, <2>4 DEF SumStep
<1>5. Nat \subseteq Q
  <2> HIDE DEF Q
  <2> QED
    BY <1>3, <1>4, Inductive
<1> QED
  BY <1>1, <1>5

(* Two functions that agree on a set have the same sum over it.             *)
LEMMA SumsSame ==
  ASSUME NEW v, NEW w, NEW S, IsFiniteSet(S), \A x \in S : v[x] = w[x]
  PROVE  Sums(v, S) = Sums(w, S)
<1>1. PICK g : g = (CHOOSE z : IsSums(z, v, S))
  OBVIOUS
<1>2. PICK h : h = (CHOOSE z : IsSums(z, w, S))
  OBVIOUS
<1>3. IsSums(g, v, S) /\ IsSums(h, w, S) /\ S \in SUBSET S
  BY <1>1, <1>2, SumsExist, Zenon
<1>4. g[S] = h[S]
  BY <1>3, SumsAgree
<1> QED
  BY <1>1, <1>2, <1>4 DEF Sums

(* A sum over nothing is 0.                                                 *)
LEMMA SumsNone == ASSUME NEW v PROVE Sums(v, {}) = 0
<1> DEFINE g == CHOOSE g : IsSums(g, v, {})
<1>1. IsSums(g, v, {})
  BY SumsExist, FS_EmptySet, Zenon
<1> HIDE DEF g
<1>2. g[{}] = 0
  BY <1>1 DEF IsSums, SumStep
<1> QED
  BY <1>2 DEF Sums, g

(* A sum is that of one element, and the sum of the others.                 *)
LEMMA SumsPick ==
  ASSUME NEW v, NEW S, IsFiniteSet(S), S # {}
  PROVE  Sums(v, S) = v[Pick(S)] + Sums(v, S \ {Pick(S)})
<1>1. PICK U : U = S \ {Pick(S)}
  OBVIOUS
<1>2. IsFiniteSet(U) /\ U \in SUBSET S
  BY <1>1, FS_Subset
<1>3. PICK g : g = (CHOOSE z : IsSums(z, v, S))
  OBVIOUS
<1>4. PICK h : h = (CHOOSE z : IsSums(z, v, U))
  OBVIOUS
<1>5. IsSums(g, v, S) /\ IsSums(h, v, U)
  BY <1>2, <1>3, <1>4, SumsExist, Zenon
<1>6. g[U] = h[U]
  BY <1>2, <1>5, SumsAgree
<1>7. g[S] = v[Pick(S)] + g[U]
  BY <1>1, <1>5 DEF IsSums, SumStep
<1> QED
  BY <1>1, <1>3, <1>4, <1>6, <1>7 DEF Sums

(* A sum of integers is one.                                                *)
LEMMA SumsInt ==
  ASSUME NEW v, NEW S, IsFiniteSet(S), \A x \in S : v[x] \in Int
  PROVE  Sums(v, S) \in Int
<1> DEFINE Q == {n \in Nat : \A T \in SUBSET S : Cardinality(T) = n => Sums(v, T) \in Int}
<1>1. \A T \in SUBSET S : IsFiniteSet(T) /\ Cardinality(T) \in Nat
  BY FS_Subset, FS_CardinalityType
<1>2. 0 \in Q
  BY <1>1, SumsNone, FS_EmptySet
<1>3. ASSUME NEW n \in Nat, n \in Q PROVE n + 1 \in Q
  <2> SUFFICES ASSUME NEW T \in SUBSET S, Cardinality(T) = n + 1 PROVE Sums(v, T) \in Int
    OBVIOUS
  <2>1. T # {}
    BY FS_EmptySet
  <2>2. Pick(T) \in T
    BY <2>1, PickIn
  <2>3. Cardinality(T \ {Pick(T)}) = n
    <3>1. IsFiniteSet(T)
      BY <1>1
    <3>2. Cardinality(T \ {Pick(T)}) = Cardinality(T) - 1
      BY <2>2, <3>1, FS_RemoveElement, Zenon
    <3> QED
      BY <3>2
  <2>4. Sums(v, T \ {Pick(T)}) \in Int
    BY <1>3, <2>3
  <2>5. Sums(v, T) = v[Pick(T)] + Sums(v, T \ {Pick(T)})
    BY <1>1, <2>1, SumsPick
  <2> QED
    BY <2>2, <2>4, <2>5
<1>4. Nat \subseteq Q
  <2> HIDE DEF Q
  <2> QED
    BY <1>2, <1>3, Inductive
<1> QED
  BY <1>1, <1>4

(* Any element may be added last.                                          *)
LEMMA SumsAny ==
  ASSUME NEW v, NEW S, IsFiniteSet(S), \A x \in S : v[x] \in Int, NEW z \in S
  PROVE  Sums(v, S) = v[z] + Sums(v, S \ {z})
<1> DEFINE Q == {n \in Nat : \A T \in SUBSET S : Cardinality(T) = n =>
                               \A x \in T : Sums(v, T) = v[x] + Sums(v, T \ {x})}
<1>1. \A T \in SUBSET S : IsFiniteSet(T) /\ Cardinality(T) \in Nat /\ Sums(v, T) \in Int
  BY FS_Subset, FS_CardinalityType, SumsInt
<1>2. 0 \in Q
  BY <1>1, FS_EmptySet
<1>3. ASSUME NEW n \in Nat, n \in Q PROVE n + 1 \in Q
  <2> SUFFICES ASSUME NEW T \in SUBSET S, Cardinality(T) = n + 1, NEW x \in T
               PROVE  Sums(v, T) = v[x] + Sums(v, T \ {x})
    OBVIOUS
  <2> DEFINE p == Pick(T)
  <2>1. p \in T
    BY PickIn
  <2>2. Sums(v, T) = v[p] + Sums(v, T \ {p})
    BY <1>1, SumsPick
  <2>3. CASE x = p
    BY <2>2, <2>3
  <2>4. CASE x # p
    <3> HIDE DEF p
    <3>1. Cardinality(T \ {p}) = n /\ Cardinality(T \ {x}) = n
      BY <1>1, <2>1, FS_RemoveElement
    <3>2. Sums(v, T \ {p}) = v[x] + Sums(v, (T \ {p}) \ {x})
      BY <1>3, <2>4, <3>1
    <3>3. Sums(v, T \ {x}) = v[p] + Sums(v, (T \ {x}) \ {p})
      BY <1>3, <2>1, <2>4, <3>1
    <3>4. (T \ {p}) \ {x} = (T \ {x}) \ {p}
      OBVIOUS
    <3>5. Sums(v, (T \ {x}) \ {p}) \in Int /\ v[x] \in Int /\ v[p] \in Int
      BY <1>1, <2>1
    <3>6. Sums(v, T) = v[p] + (v[x] + Sums(v, (T \ {x}) \ {p}))
      BY <2>2, <3>2, <3>4 DEF p
    <3> QED
      BY <3>3, <3>5, <3>6
  <2> QED
    BY <2>3, <2>4
<1>4. Nat \subseteq Q
  <2> HIDE DEF Q
  <2> QED
    BY <1>2, <1>3, Inductive
<1> QED
  BY <1>1, <1>4

(* One more element.                                                       *)
LEMMA SumsAdd ==
  ASSUME NEW v, NEW S, IsFiniteSet(S), \A x \in S : v[x] \in Int, NEW z, z \notin S, v[z] \in Int
  PROVE  Sums(v, S \cup {z}) = Sums(v, S) + v[z]
<1>1. IsFiniteSet(S \cup {z})
  BY FS_AddElement
<1>2. Sums(v, S \cup {z}) = v[z] + Sums(v, (S \cup {z}) \ {z})
  BY <1>1, SumsAny
<1>3. (S \cup {z}) \ {z} = S
  OBVIOUS
<1>4. Sums(v, S) \in Int
  BY SumsInt
<1>5. Sums(v, S \cup {z}) = v[z] + Sums(v, S)
  BY <1>2, <1>3
<1> QED
  BY <1>4, <1>5

(* Two sets that share nothing.                                            *)
LEMMA SumsSplit ==
  ASSUME NEW v, NEW S, NEW U, IsFiniteSet(S), IsFiniteSet(U), S \cap U = {},
         \A x \in S \cup U : v[x] \in Int
  PROVE  Sums(v, S \cup U) = Sums(v, S) + Sums(v, U)
<1> DEFINE P == {T \in SUBSET U : Sums(v, S \cup T) = Sums(v, S) + Sums(v, T)}
<1>1. \A T \in SUBSET U : /\ IsFiniteSet(T) /\ IsFiniteSet(S \cup T)
                          /\ Sums(v, T) \in Int /\ Sums(v, S \cup T) \in Int /\ Sums(v, S) \in Int
  BY FS_Subset, FS_Union, SumsInt
<1>2. {} \in P
  <2>1. S \cup {} = S /\ Sums(v, {}) = 0 /\ Sums(v, S) \in Int
    BY <1>1, SumsNone
  <2>2. Sums(v, S) = Sums(v, S) + 0
    BY <2>1
  <2> QED
    BY <2>1, <2>2
<1>3. ASSUME NEW T \in SUBSET U, NEW x \in U \ T, T \in P PROVE T \cup {x} \in P
  <2>1. Sums(v, T \cup {x}) = Sums(v, T) + v[x]
    BY <1>1, SumsAdd
  <2>2. Sums(v, (S \cup T) \cup {x}) = Sums(v, S \cup T) + v[x]
    BY <1>1, SumsAdd
  <2>3. (S \cup T) \cup {x} = S \cup (T \cup {x})
    OBVIOUS
  <2>4. Sums(v, S) \in Int /\ Sums(v, T) \in Int /\ v[x] \in Int
    BY <1>1
  <2>5. Sums(v, S \cup (T \cup {x})) = (Sums(v, S) + Sums(v, T)) + v[x]
    BY <1>3, <2>2, <2>3
  <2>6. Sums(v, S \cup (T \cup {x})) = Sums(v, S) + Sums(v, T \cup {x})
    BY <2>1, <2>4, <2>5
  <2> QED
    BY <2>6
<1> HIDE DEF P
<1>4. U \in P
  BY <1>2, <1>3, GrowsToAll
<1> QED
  BY <1>4 DEF P

(* What a key takes together.                                              *)
Group(S, key, k) == {x \in S : key[x] = k}

(* Groups by a key: each summed, and the sums summed.                      *)
LEMMA SumsGroups ==
  ASSUME NEW v, NEW S, NEW K, NEW key, NEW f,
         IsFiniteSet(S), \A x \in S : v[x] \in Int, IsFiniteSet(K), \A x \in S : key[x] \in K,
         \A k \in K : f[k] = Sums(v, Group(S, key, k))
  PROVE  Sums(f, K) = Sums(v, S)
<1> DEFINE Of(L) == {x \in S : key[x] \in L}
           P == {L \in SUBSET K : Sums(f, L) = Sums(v, Of(L))}
<1>1. ASSUME NEW k \in K
      PROVE  IsFiniteSet(Group(S, key, k)) /\ f[k] \in Int
  <2>1. IsFiniteSet(Group(S, key, k))
    <3>1. Group(S, key, k) \in SUBSET S
      BY DEF Group
    <3> QED
      BY <3>1, FS_Subset
  <2>2. \A x \in Group(S, key, k) : v[x] \in Int
    BY DEF Group
  <2> QED
    BY <2>1, <2>2, SumsInt
<1>2. {} \in P
  <2>1. Of({}) = {}
    OBVIOUS
  <2> QED
    BY <2>1, SumsNone
<1>3. ASSUME NEW L \in SUBSET K, NEW k \in K \ L, L \in P PROVE L \cup {k} \in P
  <2> DEFINE G == Group(S, key, k)
  <2>1. IsFiniteSet(L) /\ IsFiniteSet(Of(L))
    BY FS_Subset
  <2>2. Sums(f, L \cup {k}) = Sums(f, L) + f[k]
    BY <1>1, <2>1, SumsAdd
  <2>3. Sums(v, Of(L) \cup G) = Sums(v, Of(L)) + Sums(v, G)
    <3>1. Of(L) \cap G = {} /\ \A x \in Of(L) \cup G : v[x] \in Int
      BY <1>3 DEF Group
    <3> HIDE DEF Of
    <3> QED
      BY <1>1, <2>1, <3>1, SumsSplit
  <2>4. Of(L \cup {k}) = Of(L) \cup G
    BY DEF Group
  <2> QED
    BY <1>3, <2>2, <2>3, <2>4
<1>4. K \in P
  <2> HIDE DEF P
  <2> QED
    BY <1>2, <1>3, GrowsToAll
<1>5. Of(K) = S
  OBVIOUS
<1> QED
  BY <1>4, <1>5

(* A set has as many elements as ones to add up.                           *)
LEMMA SumsCount ==
  ASSUME NEW v, NEW S, IsFiniteSet(S), \A x \in S : v[x] = 1
  PROVE  Sums(v, S) = Cardinality(S)
<1> DEFINE P == {T \in SUBSET S : Sums(v, T) = Cardinality(T)}
<1>1. {} \in P
  BY SumsNone, FS_EmptySet
<1>2. ASSUME NEW T \in SUBSET S, NEW x \in S \ T, T \in P PROVE T \cup {x} \in P
  <2>1. IsFiniteSet(T)
    BY FS_Subset
  <2> QED
    BY <1>2, <2>1, SumsAdd, FS_AddElement, FS_CardinalityType
<1> HIDE DEF P
<1>3. S \in P
  BY <1>1, <1>2, GrowsToAll
<1> QED
  BY <1>3 DEF P


----------------------------------------------------------------------------
(* The greatest element of a stretch of numbers.                           *)
MaxOf(T) == CHOOSE x \in T : \A y \in T : x >= y

(* The greatest element is one, and the others are not greater.             *)
LEMMA MaxIn ==
  ASSUME NEW n \in Nat, NEW T \in SUBSET (1..n), T # {}
  PROVE  MaxOf(T) \in T /\ \A y \in T : y <= MaxOf(T)
<1> DEFINE U == {m \in Nat : \A y \in T : y <= m}
<1>1. n \in U
  OBVIOUS
<1>2. PICK m \in U : \A k \in U : m <= k
  BY <1>1, Least
<1>3. m \in T
  <2> SUFFICES ASSUME m \notin T PROVE FALSE
    OBVIOUS
  <2>1. \A y \in T : y \in Nat /\ y >= 1 /\ y <= m - 1
    BY <1>2
  <2>2. PICK y : y \in T
    OBVIOUS
  <2>3. m - 1 \in Nat
    BY <1>2, <2>1, <2>2
  <2>4. m - 1 \in U
    BY <2>1, <2>3
  <2> QED
    BY <1>2, <2>4
<1>4. \A y \in T : m >= y
  BY <1>2
<1>5. MaxOf(T) \in T /\ \A y \in T : MaxOf(T) >= y
  BY <1>3, <1>4 DEF MaxOf
<1> QED
  BY <1>5

(* The greatest of the first k numbers is k, and the others are the first k - 1. *)
LEMMA MaxUpto ==
  ASSUME NEW k \in Nat, k # 0
  PROVE  MaxOf(1..k) = k /\ (1..k) \ {MaxOf(1..k)} = 1..k - 1
<1>1. k \in 1..k /\ 1..k # {}
  OBVIOUS
<1>2. MaxOf(1..k) \in 1..k /\ \A y \in 1..k : y <= MaxOf(1..k)
  BY <1>1, MaxIn
<1>3. MaxOf(1..k) = k
  BY <1>1, <1>2
<1> QED
  BY <1>3

(* The fold of a log into the tree of its task, one stretch after the other.*)
Tree(g, s) ==
  g = [T \in SUBSET DOMAIN s |->
         IF T = {} THEN V!Empty ELSE V!applyEvent(g[T \ {MaxOf(T)}], s[MaxOf(T)])]

(* There is a function of the trees of all stretches of a log.              *)
LEMMA TreeExists ==
  ASSUME NEW n \in Nat, NEW s, DOMAIN s = 1..n
  PROVE  \E g : Tree(g, s)
<1> DEFINE Body(g, T) ==
             IF T = {} THEN V!Empty ELSE V!applyEvent(g[T \ {MaxOf(T)}], s[MaxOf(T)])
           Fits(g, k) == g = [T \in SUBSET (1..k) |-> Body(g, T)]
           Q == {k \in Nat : k <= n => \E g : Fits(g, k)}
<1>1. 0 \in Q
  <2> DEFINE g == [T \in SUBSET (1..0) |-> V!Empty]
  <2>1. \A T \in SUBSET (1..0) : T = {}
    OBVIOUS
  <2>2. Fits(g, 0)
    BY <2>1
  <2> HIDE DEF g, Fits
  <2> QED
    BY <2>2
<1> HIDE DEF Fits
<1>2. ASSUME NEW k \in Nat, k \in Q PROVE k + 1 \in Q
  <2> SUFFICES ASSUME k + 1 <= n PROVE \E g : Fits(g, k + 1)
    OBVIOUS
  <2>1. PICK g : Fits(g, k)
    BY <1>2
  <2> DEFINE h == [T \in SUBSET (1..k + 1) |-> Body(g, T)]
  <2>2. ASSUME NEW T \in SUBSET (1..k + 1), T # {}
        PROVE  T \ {MaxOf(T)} \in SUBSET (1..k)
    <3>1. MaxOf(T) \in T /\ \A y \in T : y <= MaxOf(T)
      BY <2>2, MaxIn
    <3>2. \A y \in T : y \in Nat /\ y >= 1 /\ y <= k + 1
      BY <1>2, <2>2
    <3>3. ASSUME NEW y \in T \ {MaxOf(T)} PROVE y \in 1..k
      <4>1. y \in Nat /\ y >= 1 /\ y # MaxOf(T) /\ y <= MaxOf(T)
        BY <3>1, <3>2
      <4>2. MaxOf(T) \in Nat /\ MaxOf(T) <= k + 1 /\ k \in Nat
        BY <1>2, <3>1, <3>2
      <4> QED
        BY <4>1, <4>2
    <3> QED
      BY <3>3
  <2>3. SUBSET (1..k) \subseteq SUBSET (1..k + 1)
    OBVIOUS
  <2>4. \A T \in SUBSET (1..k) : h[T] = g[T]
    BY <2>1, <2>3 DEF Fits
  <2>5. \A T \in SUBSET (1..k + 1) : Body(g, T) = Body(h, T)
    <3> HIDE DEF h
    <3> QED
      BY <2>2, <2>4
  <2>6. h = [T \in SUBSET (1..k + 1) |-> Body(h, T)]
    <3>1. h = [T \in SUBSET (1..k + 1) |-> Body(g, T)]
      OBVIOUS
    <3> HIDE DEF h, Body
    <3> QED
      BY <2>5, <3>1
  <2> HIDE DEF h, Body
  <2> QED
    BY <2>6 DEF Fits
<1>3. Nat \subseteq Q
  <2> HIDE DEF Q
  <2> QED
    BY <1>1, <1>2, Inductive
<1>4. PICK g : Fits(g, n)
  BY <1>3
<1> QED
  BY <1>4, Zenon DEF Tree, Fits

(* The fold is that function, taken at the whole log.                       *)
LEMMA TreeIs ==
  ASSUME NEW s
  PROVE  V!foldEvents(s) = (CHOOSE g : Tree(g, s))[DOMAIN s]
BY Zenon DEF V!foldEvents, V!FoldLeft, V!MapThenFoldSet, V!Max, Tree, MaxOf

(* No events fold into the empty tree.                                      *)
LEMMA TreeNone == V!foldEvents(<<>>) = V!Empty
<1>1. PICK g : g = (CHOOSE z : Tree(z, <<>>))
  OBVIOUS
<1>2. DOMAIN <<>> = 1..0
  OBVIOUS
<1>3. Tree(g, <<>>)
  BY <1>1, <1>2, TreeExists, Zenon
<1>4. g[DOMAIN <<>>] = V!Empty
  BY <1>2, <1>3 DEF Tree
<1> QED
  BY <1>1, <1>4, TreeIs

(* One event more is applied to the tree of those before it.                *)
LEMMA TreeMore ==
  ASSUME NEW n \in Nat, NEW s, DOMAIN s = 1..n, NEW t, DOMAIN t = 1..n + 1,
         \A i \in 1..n : t[i] = s[i]
  PROVE  V!foldEvents(t) = V!applyEvent(V!foldEvents(s), t[n + 1])
<1>1. PICK g : g = (CHOOSE z : Tree(z, s))
  OBVIOUS
<1>2. PICK h : h = (CHOOSE z : Tree(z, t))
  OBVIOUS
<1>3. Tree(g, s) /\ Tree(h, t)
  BY <1>1, <1>2, TreeExists, n + 1 \in Nat, Zenon
<1>4. ASSUME NEW k \in 1..n PROVE g[1..k] = V!applyEvent(g[1..k - 1], s[k])
  <2>1. 1..k \in SUBSET DOMAIN s /\ 1..k # {} /\ k \in Nat /\ k # 0
    OBVIOUS
  <2>2. g[1..k] = V!applyEvent(g[(1..k) \ {MaxOf(1..k)}], s[MaxOf(1..k)])
    BY <1>3, <2>1 DEF Tree
  <2> QED
    BY <2>1, <2>2, MaxUpto
<1>5. ASSUME NEW k \in 1..n + 1 PROVE h[1..k] = V!applyEvent(h[1..k - 1], t[k])
  <2>1. 1..k \in SUBSET DOMAIN t /\ 1..k # {} /\ k \in Nat /\ k # 0
    OBVIOUS
  <2>2. h[1..k] = V!applyEvent(h[(1..k) \ {MaxOf(1..k)}], t[MaxOf(1..k)])
    BY <1>3, <2>1 DEF Tree
  <2> QED
    BY <2>1, <2>2, MaxUpto
<1> DEFINE Q == {k \in Nat : k <= n => g[1..k] = h[1..k]}
<1>6. 0 \in Q
  <2>1. 1..0 = {} /\ {} \in SUBSET DOMAIN s /\ {} \in SUBSET DOMAIN t
    OBVIOUS
  <2> QED
    BY <1>3, <2>1 DEF Tree
<1>7. ASSUME NEW k \in Nat, k \in Q PROVE k + 1 \in Q
  <2> SUFFICES ASSUME k + 1 <= n PROVE g[1..k + 1] = h[1..k + 1]
    OBVIOUS
  <2>1. g[1..k] = h[1..k]
    BY <1>7
  <2>2. k + 1 \in 1..n /\ k + 1 \in 1..n + 1 /\ (k + 1) - 1 = k
    OBVIOUS
  <2>3. g[1..k + 1] = V!applyEvent(g[1..k], s[k + 1])
    BY <1>4, <2>2
  <2>4. h[1..k + 1] = V!applyEvent(h[1..k], t[k + 1])
    BY <1>5, <2>2
  <2>5. t[k + 1] = s[k + 1]
    BY <2>2
  <2> QED
    BY <2>1, <2>3, <2>4, <2>5
<1>8. Nat \subseteq Q
  <2> HIDE DEF Q
  <2> QED
    BY <1>6, <1>7, Inductive
<1>9. g[1..n] = h[1..n]
  BY <1>8
<1>10. n + 1 \in 1..n + 1 /\ (n + 1) - 1 = n
  OBVIOUS
<1>11. h[1..n + 1] = V!applyEvent(h[1..n], t[n + 1])
  BY <1>5, <1>10
<1> QED
  BY <1>1, <1>2, <1>9, <1>11, TreeIs


(***************************************************************************)
(* The view: the rows, their events and the tree folded out of these.      *)
(***************************************************************************)
(* An element of a sequence is at one of its places.                       *)
LEMMA Elements ==
  ASSUME NEW S, NEW s \in Seq(S)
  PROVE  DOMAIN s = 1..Len(s) /\ Len(s) \in Nat /\ \A i \in DOMAIN s : i \in 1..Len(s) /\ s[i] \in S
OBVIOUS

(* A sequence with one more element has it last.                           *)
LEMMA Appended ==
  ASSUME NEW S, NEW s \in Seq(S), NEW x \in S, NEW t, t = Append(s, x)
  PROVE  /\ t \in Seq(S) /\ Len(t) = Len(s) + 1 /\ DOMAIN t = 1..Len(s) + 1 /\ t[Len(s) + 1] = x
         /\ DOMAIN s = 1..Len(s) /\ Len(s) \in Nat /\ \A i \in 1..Len(s) : t[i] = s[i]
OBVIOUS

(* What the rows of the costs of the runs in S come to.                    *)
SpentOn(s, S) == Sums([n \in DOMAIN s |-> s[n] + 1], {n \in DOMAIN s : s[n] \in S})
(* What the cost events of a log come to.                                  *)
Bill(l) == Sums([n \in DOMAIN l |-> l[n].x], {n \in DOMAIN l : l[n].type = "cost.recorded"})

(* The view's sums are sums.                                                *)
LEMMA ViewSums ==
  /\ \A S : V!Spent(S) = SpentOn(spend, S)
  /\ V!SumFunctionOnSet([n \in DOMAIN log |-> log[n].x],
                        {n \in DOMAIN log : log[n].type = "cost.recorded"}) = Bill(log)
<1>1. ASSUME NEW v, NEW S PROVE V!SumFunctionOnSet(v, S) = Sums(v, S)
  BY Zenon DEF V!SumFunctionOnSet, V!FoldFunctionOnSet, V!MapThenFoldSet, Sums, IsSums, SumStep, Pick
<1> QED
  BY <1>1, Zenon DEF V!Spent, SpentOn, Bill

(* A cost row more, spent by a run in S or not.                             *)
LEMMA SpentMore ==
  ASSUME NEW s \in Seq(Nat), NEW i \in Nat, NEW S
  PROVE  /\ SpentOn(s, S) \in Int
         /\ SpentOn(Append(s, i), S) = SpentOn(s, S) + (IF i \in S THEN i + 1 ELSE 0)
<1> PICK t : t = Append(s, i)
  OBVIOUS
<1> DEFINE v == [n \in DOMAIN s |-> s[n] + 1]
           w == [n \in DOMAIN t |-> t[n] + 1]
           A == {n \in DOMAIN s : s[n] \in S}
           B == {n \in DOMAIN t : t[n] \in S}
           m == Len(s) + 1
<1>1. /\ DOMAIN t = 1..m /\ t[m] = i /\ DOMAIN s = 1..Len(s) /\ Len(s) \in Nat
      /\ \A n \in 1..Len(s) : t[n] = s[n]
  BY Appended
<1>2. IsFiniteSet(A) /\ A \subseteq 1..Len(s)
  <2>1. IsFiniteSet(1..Len(s)) /\ A \in SUBSET (1..Len(s))
    <3>1. IsFiniteSet(1..Len(s))
      BY <1>1, UptoFinite, Zenon
    <3> QED
      BY <1>1, <3>1
  <2> HIDE DEF A
  <2> QED
    BY <2>1, FS_Subset
<1>3. \A n \in A : v[n] \in Int /\ v[n] = w[n]
  BY <1>1
<1>4. w[m] = i + 1 /\ m \notin A
  BY <1>1
<1>5. B = IF i \in S THEN A \cup {m} ELSE A
  BY <1>1
<1> HIDE DEF v, w, A, B, m
<1>6. Sums(v, A) = Sums(w, A) /\ Sums(v, A) \in Int
  BY <1>2, <1>3, SumsSame, SumsInt
<1>7. Sums(w, A \cup {m}) = Sums(w, A) + (i + 1)
  <2>1. (\A n \in A : w[n] \in Int) /\ w[m] \in Int
    BY <1>3, <1>4
  <2>2. Sums(w, A \cup {m}) = Sums(w, A) + w[m]
    BY <1>2, <1>4, <2>1, SumsAdd, Zenon
  <2> QED
    BY <1>4, <2>2
<1>8. Sums(w, B) = Sums(v, A) + (IF i \in S THEN i + 1 ELSE 0)
  BY <1>5, <1>6, <1>7
<1> QED
  BY <1>6, <1>8 DEF SpentOn, v, w, A, B

(* Rows and events.                                                        *)
ItemRow == [status : V!WorkItemStatus, run : V!WorkerRunStatus \cup {"none"}]
EventTypes == {"task.created", "task.status_changed", "task.settings_changed", "work_item.created",
               "work_item.status_changed", "worker_run.created", "worker_run.status_changed",
               "approval.requested", "approval.resolved", "cost.recorded"}
Carried == Int \cup V!TaskStatus \cup V!WorkItemStatus \cup V!WorkerRunStatus \cup V!ApprovalStatus
EventRow == {e \in [type : EventTypes, i : Nat, x : Carried] : e.type = "cost.recorded" => e.x \in Int}

(* An event more, billed if it is a cost.                                   *)
LEMMA BillMore ==
  ASSUME NEW l \in Seq(EventRow), NEW e \in EventRow
  PROVE  /\ Bill(l) \in Int
         /\ Bill(Append(l, e)) = Bill(l) + (IF e.type = "cost.recorded" THEN e.x ELSE 0)
<1> PICK t : t = Append(l, e)
  OBVIOUS
<1> DEFINE v == [n \in DOMAIN l |-> l[n].x]
           w == [n \in DOMAIN t |-> t[n].x]
           A == {n \in DOMAIN l : l[n].type = "cost.recorded"}
           B == {n \in DOMAIN t : t[n].type = "cost.recorded"}
           m == Len(l) + 1
<1>1. /\ DOMAIN t = 1..m /\ t[m] = e /\ DOMAIN l = 1..Len(l) /\ Len(l) \in Nat
      /\ \A n \in 1..Len(l) : t[n] = l[n] /\ l[n] \in EventRow
  BY Appended
<1>2. IsFiniteSet(A) /\ A \subseteq 1..Len(l)
  <2>1. IsFiniteSet(1..Len(l)) /\ A \in SUBSET (1..Len(l))
    <3>1. IsFiniteSet(1..Len(l))
      BY <1>1, UptoFinite, Zenon
    <3> QED
      BY <1>1, <3>1
  <2> HIDE DEF A
  <2> QED
    BY <2>1, FS_Subset
<1>3. \A n \in A : v[n] \in Int /\ v[n] = w[n]
  BY <1>1 DEF EventRow
<1>4. w[m] = e.x /\ m \notin A /\ (e.type = "cost.recorded" => e.x \in Int)
  BY <1>1 DEF EventRow
<1>5. B = IF e.type = "cost.recorded" THEN A \cup {m} ELSE A
  BY <1>1
<1> HIDE DEF v, w, A, B, m
<1>6. Sums(v, A) = Sums(w, A) /\ Sums(v, A) \in Int
  BY <1>2, <1>3, SumsSame, SumsInt
<1>7. e.type = "cost.recorded" => Sums(w, A \cup {m}) = Sums(w, A) + e.x
  <2>1. \A n \in A : w[n] \in Int
    BY <1>3
  <2>2. e.type = "cost.recorded" => w[m] \in Int
    BY <1>4
  <2>3. e.type = "cost.recorded" => Sums(w, A \cup {m}) = Sums(w, A) + w[m]
    BY <1>2, <1>4, <2>1, <2>2, SumsAdd, Zenon
  <2> QED
    BY <1>4, <2>3
<1>8. Sums(w, B) = Sums(v, A) + (IF e.type = "cost.recorded" THEN e.x ELSE 0)
  BY <1>5, <1>6, <1>7
<1> QED
  BY <1>6, <1>8 DEF Bill, v, w, A, B

(* The items of the tree.                                                  *)
ItemOf(k, p, n) == [id |-> n, label |-> n, status |-> k[n].status, run |-> k[n].run, cost |-> SpentOn(p, {n})]
ItemsOf(k, p) == [n \in 1..Len(k) |-> ItemOf(k, p, n)]

(* The tree the rows of a task make.                                       *)
TreeOf(s, k, c, a, p) ==
  [known |-> s # "none", status |-> s, cap |-> c,
   items |-> ItemsOf(k, p),
   approval |-> a, cost |-> SpentOn(p, 0..MaxItems), initiator |-> SpentOn(p, {0}), orphans |-> 0]
RowsTree == TreeOf(task, items, cap, approval, spend)

(* The rows' types.                                                         *)
RowsTyped ==
  /\ task \in V!TaskStatus \cup {"none"} /\ approval \in V!ApprovalStatus \cup {"none"}
  /\ items \in Seq(ItemRow) /\ Len(items) <= MaxItems /\ spend \in Seq(0..Len(items))
  /\ cap \in 0..MaxCap /\ untold \in BOOLEAN /\ crashes \in 0..MaxCrashes
LogTyped == log \in Seq(EventRow) /\ (owed = <<>> \/ \E e \in EventRow : owed = <<e>>)
(* A task that is not there yet has no rows and no events.                 *)
NothingYet ==
  task = "none" => /\ items = <<>> /\ approval = "none" /\ spend = <<>> /\ cap = 0
                   /\ log = <<>> /\ owed = <<>>
(* The log, with the event that is owed to it, folds into what the rows say. *)
TreeIsRows == ~untold => V!foldEvents(log \o owed) = RowsTree
(* What a folded tree has.                                                 *)
TreeFields == {"known", "status", "cap", "items", "approval", "cost", "initiator", "orphans"}
BillTold ==
  /\ DOMAIN V!Folded = TreeFields /\ V!Folded.known \in BOOLEAN
  /\ V!Folded.known => V!Folded.cost = Bill(log)
  /\ owed # <<>> /\ owed[1].type = "task.created" => log = <<>>
ViewInv == RowsTyped /\ LogTyped /\ NothingYet /\ TreeIsRows /\ BillTold

(* One more event, owed or appended.                                       *)
LEMMA FoldMore ==
  ASSUME NEW l \in Seq(EventRow), NEW e \in EventRow
  PROVE  V!foldEvents(l \o <<e>>) = V!applyEvent(V!foldEvents(l), e)
<1>1. l \o <<e>> = Append(l, e)
  OBVIOUS
<1>2. PICK t : t = Append(l, e)
  OBVIOUS
<1>3. /\ DOMAIN t = 1..Len(l) + 1 /\ t[Len(l) + 1] = e /\ DOMAIN l = 1..Len(l) /\ Len(l) \in Nat
      /\ \A i \in 1..Len(l) : t[i] = l[i]
  BY <1>2, Appended
<1>4. V!foldEvents(t) = V!applyEvent(V!foldEvents(l), t[Len(l) + 1])
  BY <1>3, TreeMore
<1> QED
  BY <1>1, <1>2, <1>3, <1>4


(* An event no row has been spent on yet.                                  *)
LEMMA SpentNone ==
  ASSUME NEW p, NEW S, \A n \in DOMAIN p : p[n] \notin S
  PROVE  SpentOn(p, S) = 0
<1>1. {n \in DOMAIN p : p[n] \in S} = {}
  OBVIOUS
<1> QED
  BY <1>1, SumsNone DEF SpentOn

(* A function on 1..m is a sequence of m elements.                         *)
LEMMA Listed ==
  ASSUME NEW m \in Nat, NEW u, u = [n \in 1..m |-> u[n]]
  PROVE  Len(u) = m /\ u \in Seq({u[n] : n \in 1..m}) /\ DOMAIN u = 1..m
<1>1. u \in [1..m -> {u[n] : n \in 1..m}]
  OBVIOUS
<1> QED
  BY <1>1

(* One element more at its end.                                            *)
LEMMA Lengthened ==
  ASSUME NEW m \in Nat, NEW X, NEW u \in [1..m -> X], NEW w \in [1..m + 1 -> X], \A n \in 1..m : w[n] = u[n]
  PROVE  Append(u, w[m + 1]) = w
<1>1. PICK y : y = w[m + 1]
  OBVIOUS
<1>2. u \in Seq(X) /\ Len(u) = m /\ w \in Seq(X) /\ Len(w) = m + 1 /\ y \in X
  BY <1>1
<1>3. Append(u, y) \in Seq(X) /\ Len(Append(u, y)) = m + 1
  BY <1>2
<1>4. \A n \in 1..m + 1 : Append(u, y)[n] = w[n]
  BY <1>1, <1>2
<1>5. Append(u, y) = w
  BY <1>2, <1>3, <1>4
<1> QED
  BY <1>1, <1>5

(* The tree of some rows, field by field.                                  *)
LEMMA TreeParts ==
  ASSUME NEW s, NEW k \in Seq(ItemRow), NEW c, NEW a, NEW p
  PROVE  /\ DOMAIN TreeOf(s, k, c, a, p) = TreeFields /\ Len(k) \in Nat
         /\ Len(TreeOf(s, k, c, a, p).items) = Len(k)
         /\ \A i : V!At(TreeOf(s, k, c, a, p), i) = IF i \in 1..Len(k) THEN {i} ELSE {}
<1> PICK f : f = TreeOf(s, k, c, a, p)
  OBVIOUS
<1>1. /\ f.items = ItemsOf(k, p) /\ f.orphans = 0 /\ DOMAIN f = TreeFields
      /\ f.status = s /\ f.cap = c /\ f.approval = a
      /\ f.cost = SpentOn(p, 0..MaxItems) /\ f.initiator = SpentOn(p, {0})
  BY DEF TreeOf, TreeFields
<1>2. Len(k) \in Nat
  OBVIOUS
<1>3. PICK u : u = f.items
  OBVIOUS
<1>4. u = [n \in 1..Len(k) |-> ItemOf(k, p, n)]
  BY <1>1, <1>3 DEF ItemsOf
<1>5. Len(u) = Len(k)
  BY <1>2, <1>4, Listed
<1>6. \A n \in 1..Len(u) : u[n].id = n
  BY <1>4, <1>5 DEF ItemOf
<1>7. \A i : V!At(f, i) = {n \in 1..Len(u) : u[n].id = i}
  BY <1>3 DEF V!At
<1>8. \A i : V!At(f, i) = IF i \in 1..Len(k) THEN {i} ELSE {}
  BY <1>5, <1>6, <1>7
<1> QED
  BY <1>1, <1>2, <1>3, <1>5, <1>8

(* The events of a task, each on the tree of the rows it was written for.  *)
LEMMA TreeCreated ==
  ASSUME NEW f, f = TreeOf("none", <<>>, 0, "none", <<>>)
  PROVE  V!applyEvent(f, V!Event("task.created", 0, 0)) = TreeOf("pending", <<>>, 0, "none", <<>>)
<1>1. \A S : SpentOn(<<>>, S) = 0
  BY SpentNone
<1>2. ItemsOf(<<>>, <<>>) = <<>>
  BY DEF ItemsOf
<1>3. \A s : TreeOf(s, <<>>, 0, "none", <<>>) =
          [known |-> s # "none", status |-> s, cap |-> 0, items |-> <<>>,
           approval |-> "none", cost |-> 0, initiator |-> 0, orphans |-> 0]
  BY <1>1, <1>2 DEF TreeOf
<1>4. f.orphans = 0
  BY <1>3
<1>5. V!applyEvent(f, V!Event("task.created", 0, 0)) =
        [V!Empty EXCEPT !.known = TRUE, !.status = "pending", !.orphans = 0]
  BY <1>4 DEF V!applyEvent, V!Event
<1>6. ASSUME NEW yes
      PROVE  [V!Empty EXCEPT !.known = yes, !.status = "pending", !.orphans = 0] =
             [known |-> yes, status |-> "pending", cap |-> 0, items |-> <<>>, approval |-> "none",
              cost |-> 0, initiator |-> 0, orphans |-> 0]
  <2>1. PICK g : g = [V!Empty EXCEPT !.known = yes]
    OBVIOUS
  <2>2. PICK h : h = [g EXCEPT !.status = "pending"]
    OBVIOUS
  <2>3. g = [known |-> yes, status |-> "none", cap |-> 0, items |-> <<>>, approval |-> "none",
              cost |-> 0, initiator |-> 0, orphans |-> 0]
    BY <2>1 DEF V!Empty
  <2>4. h = [known |-> yes, status |-> "pending", cap |-> 0, items |-> <<>>, approval |-> "none",
              cost |-> 0, initiator |-> 0, orphans |-> 0]
    BY <2>2, <2>3
  <2>5. [h EXCEPT !.orphans = 0] = h
    BY <2>4
  <2>6. [V!Empty EXCEPT !.known = yes, !.status = "pending", !.orphans = 0] = [h EXCEPT !.orphans = 0]
    BY <2>1, <2>2
  <2> QED
    BY <2>4, <2>5, <2>6
<1>7. PICK yes : yes = TRUE
  OBVIOUS
<1>8. ("pending" # "none") = TRUE
  OBVIOUS
<1>9. V!applyEvent(f, V!Event("task.created", 0, 0)) =
        [V!Empty EXCEPT !.known = yes, !.status = "pending", !.orphans = 0]
  BY <1>5, <1>7
<1> QED
  BY <1>3, <1>6, <1>7, <1>8, <1>9, Zenon

(* A status change of the task shows.                                       *)
LEMMA TreeStatus ==
  ASSUME NEW s, NEW x, s # "none", x # "none", NEW k \in Seq(ItemRow), NEW c, NEW a, NEW p
  PROVE  V!applyEvent(TreeOf(s, k, c, a, p), V!Event("task.status_changed", 0, x)) = TreeOf(x, k, c, a, p)
BY DEF V!applyEvent, V!Event, TreeOf

(* A change of the task's settings shows.                                   *)
LEMMA TreeSettings ==
  ASSUME NEW s, NEW x, s # "none", NEW k \in Seq(ItemRow), NEW c, NEW a, NEW p
  PROVE  V!applyEvent(TreeOf(s, k, c, a, p), V!Event("task.settings_changed", 0, x)) = TreeOf(s, k, x, a, p)
BY DEF V!applyEvent, V!Event, TreeOf

(* An approval that is asked for shows.                                     *)
LEMMA TreeAsked ==
  ASSUME NEW s, s # "none", NEW k \in Seq(ItemRow), NEW c, NEW a, NEW p
  PROVE  V!applyEvent(TreeOf(s, k, c, a, p), V!Event("approval.requested", 0, "pending")) = TreeOf(s, k, c, "pending", p)
BY DEF V!applyEvent, V!Event, TreeOf

(* An approval's answer shows.                                              *)
LEMMA TreeResolved ==
  ASSUME NEW s, NEW x, s # "none", NEW k \in Seq(ItemRow), NEW c, NEW a, a # "none", NEW p
  PROVE  V!applyEvent(TreeOf(s, k, c, a, p), V!Event("approval.resolved", 0, x)) = TreeOf(s, k, c, x, p)
BY DEF V!applyEvent, V!Event, TreeOf

(* A row more; another status or run in row i.                             *)
Grown(j, k) ==
  /\ j \in Seq(ItemRow) /\ Len(j) = Len(k) + 1 /\ \A n \in 1..Len(k) : j[n] = k[n]
  /\ j[Len(k) + 1].status = "pending" /\ j[Len(k) + 1].run = "none"
Patched(j, k, i, st, rn) ==
  /\ j \in Seq(ItemRow) /\ Len(j) = Len(k) /\ \A n \in 1..Len(k) : n # i => j[n] = k[n]
  /\ j[i].status = st /\ j[i].run = rn

(* A new item shows, behind the others.                                     *)
LEMMA TreeItem ==
  ASSUME NEW s, s # "none", NEW k \in Seq(ItemRow), NEW c, NEW a, NEW p,
         \A n \in DOMAIN p : p[n] # Len(k) + 1,
         NEW j, Grown(j, k)
  PROVE  V!applyEvent(TreeOf(s, k, c, a, p), V!Event("work_item.created", Len(k) + 1, 0)) = TreeOf(s, j, c, a, p)
<1>1. PICK f : f = TreeOf(s, k, c, a, p)
  OBVIOUS
<1>2. PICK m : m = Len(k) + 1
  OBVIOUS
<1> DEFINE new == [id |-> m, label |-> Len(f.items) + 1, status |-> "pending", run |-> "none", cost |-> 0]
<1>3. /\ f.known = TRUE /\ V!At(f, m) = {} /\ Len(f.items) = Len(k) /\ Len(k) \in Nat
      /\ f.items = ItemsOf(k, p)
  <2>1. \A i : V!At(f, i) = IF i \in 1..Len(k) THEN {i} ELSE {}
    BY <1>1, TreeParts
  <2>2. Len(f.items) = Len(k) /\ Len(k) \in Nat /\ f.items = ItemsOf(k, p)
    <3>1. Len(k) \in Nat
      OBVIOUS
    <3>2. f.items = ItemsOf(k, p)
      BY <1>1 DEF TreeOf
    <3>3. Len(f.items) = Len(k)
      BY <1>1, TreeParts
    <3> QED
      BY <3>1, <3>2, <3>3
  <2>3. f.known = TRUE
    BY <1>1 DEF TreeOf
  <2>4. V!At(f, m) = {}
    BY <1>2, <2>1, <2>2
  <2> QED
    BY <2>2, <2>3, <2>4
<1>4. V!applyEvent(f, V!Event("work_item.created", m, 0)) = [f EXCEPT !.items = Append(f.items, new)]
  BY <1>3 DEF V!applyEvent, V!Event
<1>5. SpentOn(p, {m}) = 0
  BY <1>2, SpentNone
<1>6. Len(j) = m /\ j[m].status = "pending" /\ j[m].run = "none" /\ \A n \in 1..Len(k) : j[n] = k[n]
  BY <1>2 DEF Grown
<1>7. PICK w : w = ItemsOf(j, p)
  OBVIOUS
<1>8. w = [n \in 1..Len(k) + 1 |-> ItemOf(j, p, n)]
  BY <1>2, <1>6, <1>7 DEF ItemsOf
<1>9. PICK u : u = f.items
  OBVIOUS
<1>10. u = [n \in 1..Len(k) |-> ItemOf(k, p, n)]
  BY <1>3, <1>9 DEF ItemsOf
<1>11. \A n \in 1..Len(k) : w[n] = u[n]
  <2>1. \A n \in 1..Len(k) : ItemOf(j, p, n) = ItemOf(k, p, n) /\ n \in 1..Len(k) + 1
    BY <1>3, <1>6 DEF ItemOf
  <2> QED
    BY <1>8, <1>10, <2>1
<1>12. w[Len(k) + 1] = new
  <2>1. Len(k) + 1 \in 1..Len(k) + 1
    BY <1>3
  <2>2. w[m] = ItemOf(j, p, m)
    BY <1>2, <1>8, <2>1
  <2>3. ItemOf(j, p, m) = new
    <3>1. j[m].status = "pending" /\ j[m].run = "none" /\ SpentOn(p, {m}) = 0 /\ Len(f.items) + 1 = m
      BY <1>2, <1>3, <1>5, <1>6
    <3> QED
      BY <3>1, Zenon DEF ItemOf
  <2> QED
    BY <1>2, <2>2, <2>3
<1>13. PICK X : X = {w[n] : n \in 1..Len(k) + 1}
  OBVIOUS
<1>14. Append(u, w[Len(k) + 1]) = w
  <2>1. Len(k) \in Nat
    OBVIOUS
  <2>2. w \in [1..Len(k) + 1 -> X]
    BY <1>8, <1>13
  <2>3. u \in [1..Len(k) -> X]
    BY <1>10, <1>11, <1>13, <2>1
  <2> QED
    BY <1>11, <2>1, <2>2, <2>3, Lengthened
<1>15. TreeOf(s, j, c, a, p) = [f EXCEPT !.items = w]
  BY <1>1, <1>7 DEF TreeOf
<1> QED
  BY <1>1, <1>2, <1>4, <1>9, <1>12, <1>14, <1>15

(* An item that has become something else.                                 *)
LEMMA TreeItemStatus ==
  ASSUME NEW s, s # "none", NEW k \in Seq(ItemRow), NEW c, NEW a, NEW p, NEW i \in 1..Len(k),
         NEW to \in V!WorkItemStatus, NEW j, Patched(j, k, i, to, k[i].run)
  PROVE  V!applyEvent(TreeOf(s, k, c, a, p), V!Event("work_item.status_changed", i, to)) = TreeOf(s, j, c, a, p)
<1>1. PICK f : f = TreeOf(s, k, c, a, p)
  OBVIOUS
<1>2. f.known = TRUE /\ f.items = ItemsOf(k, p)
  BY <1>1 DEF TreeOf
<1>3. V!At(f, i) = {i}
  BY <1>1, TreeParts
<1>4. f.items[i] = ItemOf(k, p, i)
  BY <1>2 DEF ItemsOf
<1>5. k[i] \in ItemRow
  OBVIOUS
<1>8. PICK y : y = [f.items[i] EXCEPT !.status = to]
  OBVIOUS
<1>9. y = ItemOf(j, p, i)
  <2>1. y = [id |-> i, label |-> i, status |-> to, run |-> k[i].run, cost |-> SpentOn(p, {i})]
    <3>1. PICK z : z = f.items[i]
      OBVIOUS
    <3>2. PICK o : o = SpentOn(p, {i})
      OBVIOUS
    <3>3. z = [id |-> i, label |-> i, status |-> k[i].status, run |-> k[i].run, cost |-> o]
      BY <1>4, <3>1, <3>2, Zenon DEF ItemOf
    <3>4. y = [z EXCEPT !.status = to]
      BY <1>8, <3>1
    <3>5. [z EXCEPT !.status = to] = [id |-> i, label |-> i, status |-> to, run |-> k[i].run, cost |-> o]
      BY <3>3
    <3> QED
      BY <3>2, <3>4, <3>5, Zenon
  <2>2. j[i].status = to /\ j[i].run = k[i].run
    BY DEF Patched
  <2> QED
    BY <2>1, <2>2, Zenon DEF ItemOf
<1>10. V!applyEvent(f, V!Event("work_item.status_changed", i, to)) = [f EXCEPT !.items[i] = y]
  <2>1. (CHOOSE n \in V!At(f, i) : TRUE) = i
    BY <1>3
  <2> QED
    BY <1>2, <1>3, <1>4, <1>8, <2>1 DEF V!applyEvent, V!Event, V!mapWorkItem
<1>11. PICK u : u = [f.items EXCEPT ![i] = y]
  OBVIOUS
<1>12. \A n \in 1..Len(k) : n # i => ItemOf(j, p, n) = ItemOf(k, p, n)
  BY DEF ItemOf, Patched
<1>13. u = ItemsOf(j, p)
  <2>1. u = [n \in 1..Len(k) |-> IF n = i THEN y ELSE ItemOf(k, p, n)]
    BY <1>2, <1>11 DEF ItemsOf
  <2>2. u = [n \in 1..Len(k) |-> ItemOf(j, p, n)]
    BY <1>9, <1>12, <2>1
  <2> QED
    BY <2>2 DEF ItemsOf, Patched
<1>14. [f EXCEPT !.items[i] = y] = [f EXCEPT !.items = u]
  BY <1>11
<1>15. [f EXCEPT !.items = u] = TreeOf(s, j, c, a, p)
  BY <1>1, <1>13 DEF TreeOf
<1> QED
  BY <1>1, <1>10, <1>14, <1>15

(* An item whose run is there now.                                         *)
LEMMA TreeRunCreated ==
  ASSUME NEW s, s # "none", NEW k \in Seq(ItemRow), NEW c, NEW a, NEW p, NEW i \in 1..Len(k),
         k[i].run = "none", NEW j, Patched(j, k, i, k[i].status, "created")
  PROVE  V!applyEvent(TreeOf(s, k, c, a, p), V!Event("worker_run.created", i, 0)) = TreeOf(s, j, c, a, p)
<1>1. PICK f : f = TreeOf(s, k, c, a, p)
  OBVIOUS
<1>2. f.known = TRUE /\ f.items = ItemsOf(k, p)
  BY <1>1 DEF TreeOf
<1>3. V!At(f, i) = {i}
  BY <1>1, TreeParts
<1>4. f.items[i] = ItemOf(k, p, i)
  BY <1>2 DEF ItemsOf
<1>5. k[i] \in ItemRow
  OBVIOUS
<1>8. PICK y : y = [f.items[i] EXCEPT !.run = "created"]
  OBVIOUS
<1>9. y = ItemOf(j, p, i)
  <2>1. y = [id |-> i, label |-> i, status |-> k[i].status, run |-> "created", cost |-> SpentOn(p, {i})]
    <3>1. PICK z : z = f.items[i]
      OBVIOUS
    <3>2. PICK o : o = SpentOn(p, {i})
      OBVIOUS
    <3>3. z = [id |-> i, label |-> i, status |-> k[i].status, run |-> k[i].run, cost |-> o]
      BY <1>4, <3>1, <3>2, Zenon DEF ItemOf
    <3>4. y = [z EXCEPT !.run = "created"]
      BY <1>8, <3>1
    <3>5. [z EXCEPT !.run = "created"] = [id |-> i, label |-> i, status |-> k[i].status, run |-> "created", cost |-> o]
      BY <3>3
    <3> QED
      BY <3>2, <3>4, <3>5, Zenon
  <2>2. j[i].status = k[i].status /\ j[i].run = "created"
    BY DEF Patched
  <2> QED
    BY <2>1, <2>2, Zenon DEF ItemOf
<1>10. V!applyEvent(f, V!Event("worker_run.created", i, 0)) = [f EXCEPT !.items[i] = y]
  <2>1. (CHOOSE n \in V!At(f, i) : TRUE) = i
    BY <1>3
  <2>2. f.items[i].run = "none"
    BY <1>4 DEF ItemOf
  <2> QED
    BY <1>2, <1>3, <1>8, <2>1, <2>2 DEF V!applyEvent, V!Event, V!mapWorkItem
<1>11. PICK u : u = [f.items EXCEPT ![i] = y]
  OBVIOUS
<1>12. \A n \in 1..Len(k) : n # i => ItemOf(j, p, n) = ItemOf(k, p, n)
  BY DEF ItemOf, Patched
<1>13. u = ItemsOf(j, p)
  <2>1. u = [n \in 1..Len(k) |-> IF n = i THEN y ELSE ItemOf(k, p, n)]
    BY <1>2, <1>11 DEF ItemsOf
  <2>2. u = [n \in 1..Len(k) |-> ItemOf(j, p, n)]
    BY <1>9, <1>12, <2>1
  <2> QED
    BY <2>2 DEF ItemsOf, Patched
<1>14. [f EXCEPT !.items[i] = y] = [f EXCEPT !.items = u]
  BY <1>11
<1>15. [f EXCEPT !.items = u] = TreeOf(s, j, c, a, p)
  BY <1>1, <1>13 DEF TreeOf
<1> QED
  BY <1>1, <1>10, <1>14, <1>15

(* An item whose run has become something else.                            *)
LEMMA TreeRunStatus ==
  ASSUME NEW s, s # "none", NEW k \in Seq(ItemRow), NEW c, NEW a, NEW p, NEW i \in 1..Len(k),
         k[i].run # "none", NEW to \in V!WorkerRunStatus, NEW j, Patched(j, k, i, k[i].status, to)
  PROVE  V!applyEvent(TreeOf(s, k, c, a, p), V!Event("worker_run.status_changed", i, to)) = TreeOf(s, j, c, a, p)
<1>1. PICK f : f = TreeOf(s, k, c, a, p)
  OBVIOUS
<1>2. f.known = TRUE /\ f.items = ItemsOf(k, p)
  BY <1>1 DEF TreeOf
<1>3. V!At(f, i) = {i}
  BY <1>1, TreeParts
<1>4. f.items[i] = ItemOf(k, p, i)
  BY <1>2 DEF ItemsOf
<1>5. k[i] \in ItemRow
  OBVIOUS
<1>8. PICK y : y = [f.items[i] EXCEPT !.run = to]
  OBVIOUS
<1>9. y = ItemOf(j, p, i)
  <2>1. y = [id |-> i, label |-> i, status |-> k[i].status, run |-> to, cost |-> SpentOn(p, {i})]
    <3>1. PICK z : z = f.items[i]
      OBVIOUS
    <3>2. PICK o : o = SpentOn(p, {i})
      OBVIOUS
    <3>3. z = [id |-> i, label |-> i, status |-> k[i].status, run |-> k[i].run, cost |-> o]
      BY <1>4, <3>1, <3>2, Zenon DEF ItemOf
    <3>4. y = [z EXCEPT !.run = to]
      BY <1>8, <3>1
    <3>5. [z EXCEPT !.run = to] = [id |-> i, label |-> i, status |-> k[i].status, run |-> to, cost |-> o]
      BY <3>3
    <3> QED
      BY <3>2, <3>4, <3>5, Zenon
  <2>2. j[i].status = k[i].status /\ j[i].run = to
    BY DEF Patched
  <2> QED
    BY <2>1, <2>2, Zenon DEF ItemOf
<1>10. V!applyEvent(f, V!Event("worker_run.status_changed", i, to)) = [f EXCEPT !.items[i] = y]
  <2>1. (CHOOSE n \in V!At(f, i) : TRUE) = i
    BY <1>3
  <2>2. f.items[i].run # "none"
    BY <1>4 DEF ItemOf
  <2> QED
    BY <1>2, <1>3, <1>8, <2>1, <2>2 DEF V!applyEvent, V!Event, V!mapWorkItem, V!mapRun
<1>11. PICK u : u = [f.items EXCEPT ![i] = y]
  OBVIOUS
<1>12. \A n \in 1..Len(k) : n # i => ItemOf(j, p, n) = ItemOf(k, p, n)
  BY DEF ItemOf, Patched
<1>13. u = ItemsOf(j, p)
  <2>1. u = [n \in 1..Len(k) |-> IF n = i THEN y ELSE ItemOf(k, p, n)]
    BY <1>2, <1>11 DEF ItemsOf
  <2>2. u = [n \in 1..Len(k) |-> ItemOf(j, p, n)]
    BY <1>9, <1>12, <2>1
  <2> QED
    BY <2>2 DEF ItemsOf, Patched
<1>14. [f EXCEPT !.items[i] = y] = [f EXCEPT !.items = u]
  BY <1>11
<1>15. [f EXCEPT !.items = u] = TreeOf(s, j, c, a, p)
  BY <1>1, <1>13, SMTT(60) DEF TreeOf
<1> QED
  BY <1>1, <1>10, <1>14, <1>15

(* A call that was paid for, the initiator's or a worker's.                *)
LEMMA SpentGrows ==
  ASSUME NEW k \in Seq(ItemRow), NEW p \in Seq(Nat), NEW i \in Nat
  PROVE  /\ \A n \in 1..Len(k) : ItemOf(k, Append(p, i), n) =
              IF n = i THEN [ItemOf(k, p, n) EXCEPT !.cost = @ + (i + 1)] ELSE ItemOf(k, p, n)
         /\ \A S : SpentOn(Append(p, i), S) = SpentOn(p, S) + (IF i \in S THEN i + 1 ELSE 0)
         /\ \A S : SpentOn(p, S) \in Int
<1> PICK q : q = Append(p, i)
  OBVIOUS
<1>1. ASSUME NEW S
      PROVE  SpentOn(p, S) \in Int /\ SpentOn(q, S) = SpentOn(p, S) + (IF i \in S THEN i + 1 ELSE 0)
  BY SpentMore
<1>2. ASSUME NEW n \in 1..Len(k)
      PROVE  ItemOf(k, q, n) = IF n = i THEN [ItemOf(k, p, n) EXCEPT !.cost = @ + (i + 1)] ELSE ItemOf(k, p, n)
  <2>1. SpentOn(q, {n}) = IF n = i THEN SpentOn(p, {n}) + (i + 1) ELSE SpentOn(p, {n})
    BY <1>1
  <2>2. CASE n = i
    <3>1. ItemOf(k, p, n).cost = SpentOn(p, {n})
      BY DEF ItemOf
    <3>2. ItemOf(k, q, n) = [id |-> n, label |-> n, status |-> k[n].status, run |-> k[n].run,
                             cost |-> SpentOn(p, {n}) + (i + 1)]
      BY <2>1, <2>2 DEF ItemOf
    <3>3. [ItemOf(k, p, n) EXCEPT !.cost = SpentOn(p, {n}) + (i + 1)] =
             [id |-> n, label |-> n, status |-> k[n].status, run |-> k[n].run,
                             cost |-> SpentOn(p, {n}) + (i + 1)]
      BY DEF ItemOf
    <3> QED
      BY <2>2, <3>1, <3>2, <3>3
  <2>3. CASE n # i
    BY <2>1, <2>3 DEF ItemOf
  <2> QED
    BY <2>2, <2>3
<1> QED
  BY <1>1, <1>2

(* A call of the initiator's is its and the task's cost.                    *)
LEMMA TreeInitiator ==
  ASSUME NEW s, s # "none", NEW k \in Seq(ItemRow), NEW c, NEW a, NEW p \in Seq(Nat), MaxItems \in Nat
  PROVE  V!applyEvent(TreeOf(s, k, c, a, p), V!Event("cost.recorded", 0, 1)) = TreeOf(s, k, c, a, Append(p, 0))
<1> PICK q : q = Append(p, 0)
  OBVIOUS
<1>1. PICK f : f = TreeOf(s, k, c, a, p)
  OBVIOUS
<1>2. f.known = TRUE /\ f.cost = SpentOn(p, 0..MaxItems) /\ f.initiator = SpentOn(p, {0})
  BY <1>1 DEF TreeOf
<1>3. PICK g : g = [f EXCEPT !.cost = @ + 1]
  OBVIOUS
<1>4. V!applyEvent(f, V!Event("cost.recorded", 0, 1)) = [g EXCEPT !.initiator = @ + 1]
  BY <1>2, <1>3 DEF V!applyEvent, V!Event, V!applyCost
<1>5. /\ SpentOn(q, 0..MaxItems) = SpentOn(p, 0..MaxItems) + 1
      /\ SpentOn(q, {0}) = SpentOn(p, {0}) + 1
      /\ \A n \in 1..Len(k) : ItemOf(k, q, n) = ItemOf(k, p, n)
  <2>1. \A S : SpentOn(q, S) = SpentOn(p, S) + (IF 0 \in S THEN 0 + 1 ELSE 0)
    BY SpentGrows
  <2>2. \A n \in 1..Len(k) : n # 0
    OBVIOUS
  <2>3. 0 \in 0..MaxItems /\ 0 \in {0}
    OBVIOUS
  <2>4. \A n \in 1..Len(k) : ItemOf(k, q, n) = ItemOf(k, p, n)
    BY <2>2, SpentGrows
  <2>5. 0 + 1 = 1
    OBVIOUS
  <2>6. SpentOn(q, 0..MaxItems) = SpentOn(p, 0..MaxItems) + (0 + 1)
    BY <2>1, <2>3, Zenon
  <2>7. SpentOn(q, {0}) = SpentOn(p, {0}) + (0 + 1)
    BY <2>1, <2>3, Zenon
  <2> QED
    BY <2>4, <2>5, <2>6, <2>7
<1>6. ItemsOf(k, q) = ItemsOf(k, p)
  BY <1>5 DEF ItemsOf
<1>7. PICK all : all = SpentOn(q, 0..MaxItems)
  OBVIOUS
<1>8. PICK own : own = SpentOn(q, {0})
  OBVIOUS
<1>9. g = [f EXCEPT !.cost = all]
  BY <1>2, <1>3, <1>5, <1>7
<1>10. g.initiator + 1 = own
  BY <1>2, <1>5, <1>8, <1>9
<1>11. [g EXCEPT !.initiator = @ + 1] = [g EXCEPT !.initiator = own]
  BY <1>10
<1>12. [known |-> f.known, status |-> f.status, cap |-> f.cap, items |-> f.items, approval |-> f.approval,
        cost |-> all, initiator |-> own, orphans |-> f.orphans] = [g EXCEPT !.initiator = own]
  <2>1. g = [known |-> f.known, status |-> f.status, cap |-> f.cap, items |-> f.items, approval |-> f.approval,
             cost |-> all, initiator |-> f.initiator, orphans |-> f.orphans]
    BY <1>1, <1>9 DEF TreeOf
  <2> QED
    BY <2>1
<1>13. TreeOf(s, k, c, a, q) =
         [known |-> f.known, status |-> f.status, cap |-> f.cap, items |-> f.items, approval |-> f.approval,
          cost |-> all, initiator |-> own, orphans |-> f.orphans]
  BY <1>1, <1>6, <1>7, <1>8 DEF TreeOf
<1> QED
  BY <1>1, <1>4, <1>11, <1>12, <1>13

(* A worker's call is its item's and the task's cost.                       *)
LEMMA TreeWorker ==
  ASSUME NEW s, s # "none", NEW k \in Seq(ItemRow), NEW c, NEW a, NEW p \in Seq(Nat), MaxItems \in Nat,
         NEW i \in 1..Len(k), Len(k) <= MaxItems, k[i].run # "none"
  PROVE  V!applyEvent(TreeOf(s, k, c, a, p), V!Event("cost.recorded", i, i + 1)) = TreeOf(s, k, c, a, Append(p, i))
<1> PICK q : q = Append(p, i)
  OBVIOUS
<1>1. PICK f : f = TreeOf(s, k, c, a, p)
  OBVIOUS
<1>2. f.known = TRUE /\ f.cost = SpentOn(p, 0..MaxItems) /\ f.initiator = SpentOn(p, {0})
      /\ f.items = ItemsOf(k, p)
  BY <1>1 DEF TreeOf
<1>3. PICK all : all = SpentOn(q, 0..MaxItems)
  OBVIOUS
<1>4. /\ all = f.cost + (i + 1) /\ SpentOn(q, {0}) = f.initiator
      /\ \A n \in 1..Len(k) : ItemOf(k, q, n) = IF n = i THEN [ItemOf(k, p, n) EXCEPT !.cost = @ + (i + 1)]
                                                        ELSE ItemOf(k, p, n)
  <2>1. i \in Nat /\ i \in 0..MaxItems /\ i \notin {0}
    OBVIOUS
  <2>2. \A S : SpentOn(q, S) = SpentOn(p, S) + (IF i \in S THEN i + 1 ELSE 0)
    BY <2>1, SpentGrows
  <2>3. SpentOn(q, 0..MaxItems) = SpentOn(p, 0..MaxItems) + (i + 1)
    BY <2>1, <2>2, Zenon
  <2>4. SpentOn(q, {0}) = SpentOn(p, {0}) + 0 /\ SpentOn(p, {0}) \in Int
    BY <2>1, <2>2, SpentGrows, Zenon
  <2>5. \A n \in 1..Len(k) : ItemOf(k, q, n) = IF n = i THEN [ItemOf(k, p, n) EXCEPT !.cost = @ + (i + 1)]
                                                        ELSE ItemOf(k, p, n)
    BY <2>1, SpentGrows
  <2>6. SpentOn(q, {0}) = SpentOn(p, {0})
    BY <2>4
  <2> QED
    BY <1>2, <1>3, <2>3, <2>5, <2>6
<1>5. PICK g : g = [f EXCEPT !.cost = @ + (i + 1)]
  OBVIOUS
<1>6. g = [f EXCEPT !.cost = all]
  BY <1>4, <1>5
<1>7. g.known = TRUE /\ g.items = ItemsOf(k, p) /\ g.items = f.items
  BY <1>1, <1>2, <1>6 DEF TreeOf
<1>8. V!At(f, i) = {i}
  BY <1>1, TreeParts
<1>9. V!At(g, i) = {i}
  BY <1>7, <1>8 DEF V!At
<1>10. f.items[i] = ItemOf(k, p, i) /\ f.items[i].run # "none"
  <2>1. f.items[i] = ItemOf(k, p, i)
    BY <1>2 DEF ItemsOf
  <2> QED
    BY <2>1 DEF ItemOf
<1>11. PICK y : y = [f.items[i] EXCEPT !.cost = @ + (i + 1)]
  OBVIOUS
<1>12. V!applyEvent(f, V!Event("cost.recorded", i, i + 1)) = [g EXCEPT !.items[i] = y]
  <2>1. (CHOOSE n \in V!At(g, i) : TRUE) = i
    BY <1>9
  <2>2. V!applyEvent(f, V!Event("cost.recorded", i, i + 1)) = V!applyCost(f, i, i + 1)
    BY <1>2 DEF V!applyEvent, V!Event
  <2>3. i # 0
    OBVIOUS
  <2>4. \E n \in V!At(f, i) : f.items[n].run # "none"
    BY <1>8, <1>10
  <2>5. \E n \in V!At(g, i) : g.items[n].run # "none"
    BY <1>7, <1>9, <1>10
  <2>6. V!applyCost(f, i, i + 1) = V!mapRun(g, i, LAMBDA w : [w EXCEPT !.cost = w.cost + (i + 1)])
    BY <1>5, <2>3, <2>4, Zenon DEF V!applyCost
  <2>7. V!mapRun(g, i, LAMBDA w : [w EXCEPT !.cost = w.cost + (i + 1)]) =
           [g EXCEPT !.items[i] = [g.items[i] EXCEPT !.cost = g.items[i].cost + (i + 1)]]
    BY <1>9, <2>1, <2>5 DEF V!mapRun, V!mapWorkItem
  <2>8. [g.items[i] EXCEPT !.cost = g.items[i].cost + (i + 1)] = y
    BY <1>7, <1>11
  <2> QED
    BY <2>2, <2>6, <2>7, <2>8
<1>13. PICK u : u = [g.items EXCEPT ![i] = y]
  OBVIOUS
<1>14. u = ItemsOf(k, q)
  <2>1. u = [n \in 1..Len(k) |-> IF n = i THEN y ELSE ItemOf(k, p, n)]
    BY <1>7, <1>13 DEF ItemsOf
  <2>2. y = ItemOf(k, q, i)
    BY <1>4, <1>10, <1>11
  <2>3. u = [n \in 1..Len(k) |-> ItemOf(k, q, n)]
    BY <1>4, <2>1, <2>2
  <2> QED
    BY <2>3 DEF ItemsOf
<1>15. [g EXCEPT !.items[i] = y] = [g EXCEPT !.items = u]
  BY <1>13
<1>16. g = [known |-> f.known, status |-> f.status, cap |-> f.cap, items |-> f.items, approval |-> f.approval,
            cost |-> all, initiator |-> f.initiator, orphans |-> f.orphans]
  BY <1>1, <1>6 DEF TreeOf
<1>17. [g EXCEPT !.items = u] =
         [known |-> f.known, status |-> f.status, cap |-> f.cap, items |-> u, approval |-> f.approval,
            cost |-> all, initiator |-> f.initiator, orphans |-> f.orphans]
  BY <1>16
<1>18. TreeOf(s, k, c, a, q) =
         [known |-> f.known, status |-> f.status, cap |-> f.cap, items |-> u, approval |-> f.approval,
            cost |-> all, initiator |-> f.initiator, orphans |-> f.orphans]
  BY <1>1, <1>3, <1>4, <1>14 DEF TreeOf
<1> QED
  BY <1>1, <1>12, <1>15, <1>17, <1>18


(* The initial rows fold into the initial tree.                            *)
LEMMA ViewStarts == ASSUME V!ViewAssumption, V!Init PROVE ViewInv
<1>1. /\ task = "none" /\ items = <<>> /\ approval = "none" /\ spend = <<>> /\ cap = 0
      /\ log = <<>> /\ owed = <<>> /\ crashes = 0 /\ untold = FALSE
      /\ MaxItems \in Nat /\ MaxCap \in Nat /\ MaxCrashes \in Nat
  BY DEF V!Init, V!ViewAssumption
<1>2. RowsTyped
  <2>1. items \in Seq(ItemRow) /\ Len(items) = 0 /\ spend \in Seq(0..Len(items))
    BY <1>1
  <2>2. task \in V!TaskStatus \cup {"none"} /\ approval \in V!ApprovalStatus \cup {"none"} /\ untold \in BOOLEAN
    BY <1>1
  <2>3. cap \in 0..MaxCap /\ crashes \in 0..MaxCrashes /\ Len(items) <= MaxItems
    BY <1>1, <2>1
  <2> QED
    BY <2>1, <2>2, <2>3 DEF RowsTyped
<1>3. LogTyped /\ NothingYet
  BY <1>1 DEF LogTyped, NothingYet
<1>4. V!foldEvents(<<>>) = V!Empty
  BY TreeNone
<1>5. RowsTree = V!Empty
  <2>1. \A S : SpentOn(<<>>, S) = 0
    BY SpentNone
  <2>2. ItemsOf(<<>>, <<>>) = <<>>
    BY DEF ItemsOf
  <2>3. ("none" # "none") = FALSE
    OBVIOUS
  <2>4. RowsTree = TreeOf("none", <<>>, 0, "none", <<>>)
    BY <1>1, Zenon DEF RowsTree
  <2>5. TreeOf("none", <<>>, 0, "none", <<>>) =
          [known |-> "none" # "none", status |-> "none", cap |-> 0, items |-> <<>>,
           approval |-> "none", cost |-> 0, initiator |-> 0, orphans |-> 0]
    BY <2>1, <2>2 DEF TreeOf
  <2> QED
    BY <2>3, <2>4, <2>5, Zenon DEF V!Empty
<1>6. TreeIsRows
  <2>1. log \o owed = <<>>
    BY <1>1
  <2> QED
    BY <1>4, <1>5, <2>1 DEF TreeIsRows
<1>7. BillTold
  <2>1. V!Folded = V!Empty
    BY <1>1, <1>4 DEF V!Folded
  <2>2. DOMAIN V!Empty = TreeFields /\ V!Empty.known = FALSE
    BY DEF V!Empty, TreeFields
  <2> QED
    BY <1>1, <2>1, <2>2 DEF BillTold
<1> QED
  BY <1>2, <1>3, <1>6, <1>7 DEF ViewInv

(* What is left of the invariant once a method has written its row.        *)
Written(e) ==
  /\ owed = <<>> /\ owed' = <<e>> /\ log' = log /\ untold' = untold /\ e \in EventRow
  /\ ~untold => V!applyEvent(RowsTree, e) = RowsTree'
  /\ RowsTyped' /\ task' # "none" /\ (e.type = "task.created" => log = <<>>)

(* A row written with the event that tells it keeps the invariant.          *)
LEMMA WrittenIsKept == ASSUME ViewInv, NEW e, Written(e) PROVE ViewInv'
<1>1. LogTyped' /\ NothingYet'
  BY DEF ViewInv, LogTyped, NothingYet, Written
<1>2. TreeIsRows'
  <2> SUFFICES ASSUME ~untold' PROVE V!foldEvents(log' \o owed') = RowsTree'
    BY DEF TreeIsRows
  <2>1. ~untold /\ owed = <<>> /\ log' = log /\ owed' = <<e>> /\ e \in EventRow
        /\ V!applyEvent(RowsTree, e) = RowsTree'
    BY DEF Written
  <2>2. log \in Seq(EventRow)
    BY DEF ViewInv, LogTyped
  <2>3. log \o owed = log
    BY <2>1, <2>2
  <2>4. V!foldEvents(log) = RowsTree
    BY <2>1, <2>3 DEF ViewInv, TreeIsRows
  <2>5. V!foldEvents(log \o <<e>>) = V!applyEvent(V!foldEvents(log), e)
    BY <2>1, <2>2, FoldMore
  <2> QED
    BY <2>1, <2>4, <2>5
<1>3. BillTold'
  <2>1. BillTold /\ log' = log /\ owed' = <<e>> /\ (e.type = "task.created" => log = <<>>)
    BY DEF ViewInv, Written
  <2>2. V!Folded' = V!Folded /\ Bill(log)' = Bill(log)
    BY <2>1 DEF V!Folded
  <2>3. owed'[1] = e
    BY <2>1
  <2> QED
    BY <2>1, <2>2, <2>3 DEF BillTold
<1> QED
  BY <1>1, <1>2, <1>3 DEF ViewInv, Written


(* A task is created.                                                      *)
LEMMA ViewCreated == ASSUME V!ViewAssumption, ViewInv, V!createTask PROVE ViewInv'
<1> DEFINE e == V!Event("task.created", 0, 0)
<1>1. /\ owed = <<>> /\ owed' = <<e>> /\ log' = log /\ untold' = untold /\ crashes' = crashes
      /\ task = "none" /\ task' = "pending" /\ items' = items /\ approval' = approval /\ spend' = spend /\ cap' = cap
  BY DEF V!createTask, V!Write, V!Rest
<1>2. RowsTyped /\ NothingYet /\ MaxItems \in Nat /\ MaxCap \in Nat /\ MaxCosts \in Nat
  BY DEF ViewInv, V!ViewAssumption
<1>3. e \in EventRow /\ e.type = "task.created"
  BY <1>1, <1>2 DEF V!Event, EventRow, EventTypes, Carried, RowsTyped
<1>4. log = <<>> /\ task' # "none" /\ RowsTyped'
  BY <1>1, <1>2 DEF RowsTyped, V!TaskStatus, NothingYet
<1>5. V!applyEvent(RowsTree, e) = RowsTree'
  <2>1. items = <<>> /\ approval = "none" /\ spend = <<>> /\ cap = 0
    BY <1>1, <1>2 DEF NothingYet
  <2>2. RowsTree = TreeOf("none", <<>>, 0, "none", <<>>) /\ RowsTree' = TreeOf("pending", <<>>, 0, "none", <<>>)
    BY <1>1, <2>1, Zenon DEF RowsTree
  <2> QED
    BY <2>2, TreeCreated, Zenon
<1>6. Written(e)
  <2> HIDE DEF e
  <2> QED
    BY <1>1, <1>3, <1>4, <1>5 DEF Written
<1> QED
  BY <1>6, WrittenIsKept

(* A task moves.                                                           *)
LEMMA ViewMoved == ASSUME V!ViewAssumption, ViewInv, NEW to \in V!TaskStatus, V!transitionTask(to) PROVE ViewInv'
<1> DEFINE e == V!Event("task.status_changed", 0, to)
<1>1. /\ owed = <<>> /\ owed' = <<e>> /\ log' = log /\ untold' = untold /\ crashes' = crashes
      /\ task # "none" /\ task' = to /\ items' = items /\ approval' = approval /\ spend' = spend /\ cap' = cap
  BY DEF V!transitionTask, V!Write, V!Rest
<1>2. RowsTyped /\ NothingYet /\ MaxItems \in Nat /\ MaxCap \in Nat /\ MaxCosts \in Nat
  BY DEF ViewInv, V!ViewAssumption
<1>3. e \in EventRow /\ e.type = "task.status_changed"
  BY <1>1, <1>2 DEF V!Event, EventRow, EventTypes, Carried, RowsTyped
<1>4. task # "none" /\ task' # "none" /\ RowsTyped'
  BY <1>1, <1>2 DEF RowsTyped, V!TaskStatus
<1>5. V!applyEvent(RowsTree, e) = RowsTree'
  <2>1. RowsTree = TreeOf(task, items, cap, approval, spend) /\ RowsTree' = TreeOf(to, items, cap, approval, spend)
    BY <1>1, Zenon DEF RowsTree
  <2>2. items \in Seq(ItemRow) /\ spend \in Seq(0..Len(items))
    BY <1>2 DEF RowsTyped
  <2> QED
    BY <1>1, <1>4, <2>1, <2>2, TreeStatus
<1>6. Written(e)
  <2> HIDE DEF e
  <2> QED
    BY <1>1, <1>3, <1>4, <1>5 DEF Written
<1> QED
  BY <1>6, WrittenIsKept

(* Its settings are changed.                                               *)
LEMMA ViewSet == ASSUME V!ViewAssumption, ViewInv, V!updateTaskSettings PROVE ViewInv'
<1> DEFINE e == V!Event("task.settings_changed", 0, cap + 1)
<1>1. /\ owed = <<>> /\ owed' = <<e>> /\ log' = log /\ untold' = untold /\ crashes' = crashes
      /\ task # "none" /\ cap < MaxCap /\ cap' = cap + 1 /\ items' = items /\ approval' = approval /\ spend' = spend /\ task' = task
  BY DEF V!updateTaskSettings, V!Write, V!Rest
<1>2. RowsTyped /\ NothingYet /\ MaxItems \in Nat /\ MaxCap \in Nat /\ MaxCosts \in Nat
  BY DEF ViewInv, V!ViewAssumption
<1>3. e \in EventRow /\ e.type = "task.settings_changed"
  BY <1>1, <1>2 DEF V!Event, EventRow, EventTypes, Carried, RowsTyped
<1>4. task # "none" /\ task' # "none" /\ RowsTyped'
  BY <1>1, <1>2 DEF RowsTyped
<1>5. V!applyEvent(RowsTree, e) = RowsTree'
  <2>1. RowsTree = TreeOf(task, items, cap, approval, spend) /\ RowsTree' = TreeOf(task, items, cap + 1, approval, spend)
    BY <1>1, Zenon DEF RowsTree
  <2>2. items \in Seq(ItemRow) /\ spend \in Seq(0..Len(items))
    BY <1>2 DEF RowsTyped
  <2> QED
    BY <1>1, <1>4, <2>1, <2>2, TreeSettings
<1>6. Written(e)
  <2> HIDE DEF e
  <2> QED
    BY <1>1, <1>3, <1>4, <1>5 DEF Written
<1> QED
  BY <1>6, WrittenIsKept

(* A work item is created.                                                 *)
LEMMA ViewItem == ASSUME V!ViewAssumption, ViewInv, V!createWorkItem PROVE ViewInv'
<1> DEFINE e == V!Event("work_item.created", Len(items) + 1, 0)
<1>1. /\ owed = <<>> /\ owed' = <<e>> /\ log' = log /\ untold' = untold /\ crashes' = crashes
      /\ task = "running" /\ Len(items) < MaxItems /\ approval' = approval /\ spend' = spend /\ cap' = cap /\ task' = task
      /\ items' = Append(items, [status |-> "pending", run |-> "none"])
  BY DEF V!createWorkItem, V!Write, V!Rest
<1>2. RowsTyped /\ NothingYet /\ MaxItems \in Nat /\ MaxCap \in Nat /\ MaxCosts \in Nat
  BY DEF ViewInv, V!ViewAssumption
<1>3. e \in EventRow /\ e.type = "work_item.created"
  BY <1>1, <1>2 DEF V!Event, EventRow, EventTypes, Carried, RowsTyped
<1>4. task # "none" /\ task' # "none" /\ RowsTyped'
  <2>1. PICK r : r = [status |-> "pending", run |-> "none"]
    OBVIOUS
  <2>2. r \in ItemRow
    BY <2>1 DEF ItemRow, V!WorkItemStatus, V!TaskStatus
  <2>3. items \in Seq(ItemRow) /\ spend \in Seq(0..Len(items))
    BY <1>2 DEF RowsTyped
  <2>4. items' \in Seq(ItemRow) /\ Len(items') = Len(items) + 1 /\ Len(items) \in Nat
    BY <1>1, <2>1, <2>2, <2>3
  <2>5. spend' \in Seq(0..Len(items'))
    BY <1>1, <2>3, <2>4
  <2> QED
    BY <1>1, <1>2, <2>4, <2>5 DEF RowsTyped
<1>5. V!applyEvent(RowsTree, e) = RowsTree'
  <2>1. RowsTree = TreeOf(task, items, cap, approval, spend) /\ RowsTree' = TreeOf(task, items', cap, approval, spend)
    BY <1>1, Zenon DEF RowsTree
  <2>2. items \in Seq(ItemRow) /\ spend \in Seq(0..Len(items))
    BY <1>2 DEF RowsTyped
  <2>3. \A n \in DOMAIN spend : spend[n] # Len(items) + 1
    BY <2>2
  <2>4. PICK r : r = [status |-> "pending", run |-> "none"]
    OBVIOUS
  <2>5. r \in ItemRow /\ r.status = "pending" /\ r.run = "none" /\ items' = Append(items, r)
    BY <1>1, <2>4 DEF ItemRow, V!WorkItemStatus, V!TaskStatus
  <2>6. /\ items' \in Seq(ItemRow) /\ Len(items') = Len(items) + 1 /\ items'[Len(items) + 1] = r
        /\ \A n \in 1..Len(items) : items'[n] = items[n]
    BY <2>2, <2>5
  <2>7. Grown(items', items)
    BY <2>5, <2>6 DEF Grown
  <2> QED
    BY <1>4, <2>1, <2>2, <2>3, <2>7, TreeItem
<1>6. Written(e)
  <2> HIDE DEF e
  <2> QED
    BY <1>1, <1>3, <1>4, <1>5 DEF Written
<1> QED
  BY <1>6, WrittenIsKept

(* A work item moves.                                                      *)
LEMMA ViewItemMoved == ASSUME V!ViewAssumption, ViewInv, NEW i \in 1..Len(items), NEW to \in V!WorkItemStatus, V!transitionWorkItem(i, to) PROVE ViewInv'
<1> DEFINE e == V!Event("work_item.status_changed", i, to)
<1>1. /\ owed = <<>> /\ owed' = <<e>> /\ log' = log /\ untold' = untold /\ crashes' = crashes
      /\ TRUE /\ approval' = approval /\ spend' = spend /\ cap' = cap /\ task' = task
      /\ items' = [items EXCEPT ![i].status = to]
  BY DEF V!transitionWorkItem, V!Write, V!Rest
<1>2. RowsTyped /\ NothingYet /\ MaxItems \in Nat /\ MaxCap \in Nat /\ MaxCosts \in Nat
  BY DEF ViewInv, V!ViewAssumption
<1>3. e \in EventRow /\ e.type = "work_item.status_changed"
  BY <1>1, <1>2 DEF V!Event, EventRow, EventTypes, Carried, RowsTyped
<1>4. task # "none" /\ task' # "none" /\ RowsTyped'
  <2>1. items \in Seq(ItemRow) /\ items[i] \in ItemRow /\ items # <<>>
    BY <1>2 DEF RowsTyped
  <2>2. [items[i] EXCEPT !.status = to] \in ItemRow
    BY <2>1 DEF ItemRow
  <2>3. items' \in Seq(ItemRow) /\ Len(items') = Len(items)
    BY <1>1, <2>1, <2>2
  <2> QED
    BY <1>1, <1>2, <2>1, <2>3 DEF RowsTyped, NothingYet
<1>5. V!applyEvent(RowsTree, e) = RowsTree'
  <2>1. RowsTree = TreeOf(task, items, cap, approval, spend) /\ RowsTree' = TreeOf(task, items', cap, approval, spend)
    BY <1>1, Zenon DEF RowsTree
  <2>2. items \in Seq(ItemRow) /\ spend \in Seq(0..Len(items))
    BY <1>2 DEF RowsTyped
  <2>3. items[i] \in ItemRow
    BY <2>2
  <2>4. PICK r : r = [items[i] EXCEPT !.status = to]
    OBVIOUS
  <2>5. r \in ItemRow /\ r.status = to /\ r.run = items[i].run
    BY <2>3, <2>4 DEF ItemRow
  <2>6. items' = [items EXCEPT ![i] = r]
    BY <1>1, <2>4
  <2>7. /\ items' \in Seq(ItemRow) /\ Len(items') = Len(items) /\ items'[i] = r
        /\ \A n \in 1..Len(items) : n # i => items'[n] = items[n]
    BY <2>2, <2>5, <2>6
  <2>8. Patched(items', items, i, to, items[i].run)
    BY <2>5, <2>7 DEF Patched
  <2> QED
    BY <1>1, <1>4, <2>1, <2>2, <2>8, TreeItemStatus
<1>6. Written(e)
  <2> HIDE DEF e
  <2> QED
    BY <1>1, <1>3, <1>4, <1>5 DEF Written
<1> QED
  BY <1>6, WrittenIsKept

(* A run is created.                                                       *)
LEMMA ViewRun == ASSUME V!ViewAssumption, ViewInv, NEW i \in 1..Len(items), V!createWorkerRun(i) PROVE ViewInv'
<1> DEFINE e == V!Event("worker_run.created", i, 0)
<1>1. /\ owed = <<>> /\ owed' = <<e>> /\ log' = log /\ untold' = untold /\ crashes' = crashes
      /\ items[i].run = "none" /\ approval' = approval /\ spend' = spend /\ cap' = cap /\ task' = task
      /\ items' = [items EXCEPT ![i].run = "created"]
  BY DEF V!createWorkerRun, V!Write, V!Rest
<1>2. RowsTyped /\ NothingYet /\ MaxItems \in Nat /\ MaxCap \in Nat /\ MaxCosts \in Nat
  BY DEF ViewInv, V!ViewAssumption
<1>3. e \in EventRow /\ e.type = "worker_run.created"
  BY <1>1, <1>2 DEF V!Event, EventRow, EventTypes, Carried, RowsTyped
<1>4. task # "none" /\ task' # "none" /\ RowsTyped'
  <2>1. items \in Seq(ItemRow) /\ items[i] \in ItemRow /\ items # <<>>
    BY <1>2 DEF RowsTyped
  <2>2. [items[i] EXCEPT !.run = "created"] \in ItemRow
    BY <2>1 DEF ItemRow, V!WorkerRunStatus
  <2>3. items' \in Seq(ItemRow) /\ Len(items') = Len(items)
    BY <1>1, <2>1, <2>2
  <2> QED
    BY <1>1, <1>2, <2>1, <2>3 DEF RowsTyped, NothingYet
<1>5. V!applyEvent(RowsTree, e) = RowsTree'
  <2>1. RowsTree = TreeOf(task, items, cap, approval, spend) /\ RowsTree' = TreeOf(task, items', cap, approval, spend)
    BY <1>1, Zenon DEF RowsTree
  <2>2. items \in Seq(ItemRow) /\ spend \in Seq(0..Len(items))
    BY <1>2 DEF RowsTyped
  <2>3. items[i] \in ItemRow
    BY <2>2
  <2>4. PICK r : r = [items[i] EXCEPT !.run = "created"]
    OBVIOUS
  <2>5. r \in ItemRow /\ r.run = "created" /\ r.status = items[i].status
    BY <2>3, <2>4 DEF ItemRow, V!WorkerRunStatus
  <2>6. items' = [items EXCEPT ![i] = r]
    BY <1>1, <2>4
  <2>7. /\ items' \in Seq(ItemRow) /\ Len(items') = Len(items) /\ items'[i] = r
        /\ \A n \in 1..Len(items) : n # i => items'[n] = items[n]
    BY <2>2, <2>5, <2>6
  <2>8. Patched(items', items, i, items[i].status, "created")
    BY <2>5, <2>7 DEF Patched
  <2> QED
    BY <1>1, <1>4, <2>1, <2>2, <2>8, TreeRunCreated DEF V!WorkerRunStatus
<1>6. Written(e)
  <2> HIDE DEF e
  <2> QED
    BY <1>1, <1>3, <1>4, <1>5 DEF Written
<1> QED
  BY <1>6, WrittenIsKept

(* A run moves.                                                            *)
LEMMA ViewRunMoved == ASSUME V!ViewAssumption, ViewInv, NEW i \in 1..Len(items), NEW to \in V!WorkerRunStatus, V!transitionWorkerRun(i, to) PROVE ViewInv'
<1> DEFINE e == V!Event("worker_run.status_changed", i, to)
<1>1. /\ owed = <<>> /\ owed' = <<e>> /\ log' = log /\ untold' = untold /\ crashes' = crashes
      /\ items[i].run # "none" /\ approval' = approval /\ spend' = spend /\ cap' = cap /\ task' = task
      /\ items' = [items EXCEPT ![i].run = to]
  BY DEF V!transitionWorkerRun, V!Write, V!Rest
<1>2. RowsTyped /\ NothingYet /\ MaxItems \in Nat /\ MaxCap \in Nat /\ MaxCosts \in Nat
  BY DEF ViewInv, V!ViewAssumption
<1>3. e \in EventRow /\ e.type = "worker_run.status_changed"
  BY <1>1, <1>2 DEF V!Event, EventRow, EventTypes, Carried, RowsTyped
<1>4. task # "none" /\ task' # "none" /\ RowsTyped'
  <2>1. items \in Seq(ItemRow) /\ items[i] \in ItemRow /\ items # <<>>
    BY <1>2 DEF RowsTyped
  <2>2. [items[i] EXCEPT !.run = to] \in ItemRow
    BY <2>1 DEF ItemRow
  <2>3. items' \in Seq(ItemRow) /\ Len(items') = Len(items)
    BY <1>1, <2>1, <2>2
  <2> QED
    BY <1>1, <1>2, <2>1, <2>3 DEF RowsTyped, NothingYet
<1>5. V!applyEvent(RowsTree, e) = RowsTree'
  <2>1. RowsTree = TreeOf(task, items, cap, approval, spend) /\ RowsTree' = TreeOf(task, items', cap, approval, spend)
    BY <1>1, Zenon DEF RowsTree
  <2>2. items \in Seq(ItemRow) /\ spend \in Seq(0..Len(items))
    BY <1>2 DEF RowsTyped
  <2>3. items[i] \in ItemRow
    BY <2>2
  <2>4. PICK r : r = [items[i] EXCEPT !.run = to]
    OBVIOUS
  <2>5. r \in ItemRow /\ r.run = to /\ r.status = items[i].status
    BY <2>3, <2>4 DEF ItemRow
  <2>6. items' = [items EXCEPT ![i] = r]
    BY <1>1, <2>4
  <2>7. /\ items' \in Seq(ItemRow) /\ Len(items') = Len(items) /\ items'[i] = r
        /\ \A n \in 1..Len(items) : n # i => items'[n] = items[n]
    BY <2>2, <2>5, <2>6
  <2>8. Patched(items', items, i, items[i].status, to)
    BY <2>5, <2>7 DEF Patched
  <2> QED
    BY <1>1, <1>4, <2>1, <2>2, <2>8, TreeRunStatus
<1>6. Written(e)
  <2> HIDE DEF e
  <2> QED
    BY <1>1, <1>3, <1>4, <1>5 DEF Written
<1> QED
  BY <1>6, WrittenIsKept

(* Approval is asked for.                                                  *)
LEMMA ViewAsked == ASSUME V!ViewAssumption, ViewInv, V!createApproval PROVE ViewInv'
<1> DEFINE e == V!Event("approval.requested", 0, "pending")
<1>1. /\ owed = <<>> /\ owed' = <<e>> /\ log' = log /\ untold' = untold /\ crashes' = crashes
      /\ task = "running" /\ approval' = "pending" /\ items' = items /\ spend' = spend /\ cap' = cap /\ task' = task
  BY DEF V!createApproval, V!Write, V!Rest
<1>2. RowsTyped /\ NothingYet /\ MaxItems \in Nat /\ MaxCap \in Nat /\ MaxCosts \in Nat
  BY DEF ViewInv, V!ViewAssumption
<1>3. e \in EventRow /\ e.type = "approval.requested"
  BY <1>1, <1>2 DEF V!Event, EventRow, EventTypes, Carried, RowsTyped, V!ApprovalStatus
<1>4. task # "none" /\ task' # "none" /\ RowsTyped'
  BY <1>1, <1>2 DEF RowsTyped, V!ApprovalStatus
<1>5. V!applyEvent(RowsTree, e) = RowsTree'
  <2>1. RowsTree = TreeOf(task, items, cap, approval, spend) /\ RowsTree' = TreeOf(task, items, cap, "pending", spend)
    BY <1>1, Zenon DEF RowsTree
  <2>2. items \in Seq(ItemRow) /\ spend \in Seq(0..Len(items))
    BY <1>2 DEF RowsTyped
  <2> QED
    BY <1>1, <1>4, <2>1, <2>2, TreeAsked
<1>6. Written(e)
  <2> HIDE DEF e
  <2> QED
    BY <1>1, <1>3, <1>4, <1>5 DEF Written
<1> QED
  BY <1>6, WrittenIsKept

(* And given or denied.                                                    *)
LEMMA ViewResolved == ASSUME V!ViewAssumption, ViewInv, NEW to \in V!ApprovalStatus, V!resolveApproval(to) PROVE ViewInv'
<1> DEFINE e == V!Event("approval.resolved", 0, to)
<1>1. /\ owed = <<>> /\ owed' = <<e>> /\ log' = log /\ untold' = untold /\ crashes' = crashes
      /\ approval # "none" /\ approval' = to /\ items' = items /\ spend' = spend /\ cap' = cap /\ task' = task
  BY DEF V!resolveApproval, V!Write, V!Rest
<1>2. RowsTyped /\ NothingYet /\ MaxItems \in Nat /\ MaxCap \in Nat /\ MaxCosts \in Nat
  BY DEF ViewInv, V!ViewAssumption
<1>3. e \in EventRow /\ e.type = "approval.resolved"
  BY <1>1, <1>2 DEF V!Event, EventRow, EventTypes, Carried, RowsTyped
<1>4. task # "none" /\ task' # "none" /\ RowsTyped'
  BY <1>1, <1>2 DEF RowsTyped, NothingYet
<1>5. V!applyEvent(RowsTree, e) = RowsTree'
  <2>1. RowsTree = TreeOf(task, items, cap, approval, spend) /\ RowsTree' = TreeOf(task, items, cap, to, spend)
    BY <1>1, Zenon DEF RowsTree
  <2>2. items \in Seq(ItemRow) /\ spend \in Seq(0..Len(items))
    BY <1>2 DEF RowsTyped
  <2> QED
    BY <1>1, <1>4, <2>1, <2>2, TreeResolved
<1>6. Written(e)
  <2> HIDE DEF e
  <2> QED
    BY <1>1, <1>3, <1>4, <1>5 DEF Written
<1> QED
  BY <1>6, WrittenIsKept

(* The initiator is paid for.                                              *)
LEMMA ViewPaid == ASSUME V!ViewAssumption, ViewInv, V!recordCost(0) PROVE ViewInv'
<1> DEFINE e == V!Event("cost.recorded", 0, 1)
<1>1. /\ owed = <<>> /\ owed' = <<e>> /\ log' = log /\ untold' = untold /\ crashes' = crashes
      /\ task # "none" /\ items' = items /\ approval' = approval /\ cap' = cap /\ task' = task /\ spend' = Append(spend, 0)
  BY 0 + 1 = 1 DEF V!recordCost, V!Write, V!Rest
<1>2. RowsTyped /\ NothingYet /\ MaxItems \in Nat /\ MaxCap \in Nat /\ MaxCosts \in Nat
  BY DEF ViewInv, V!ViewAssumption
<1>3. e \in EventRow /\ e.type = "cost.recorded"
  BY <1>1, <1>2 DEF V!Event, EventRow, EventTypes, Carried, RowsTyped
<1>4. task # "none" /\ task' # "none" /\ RowsTyped'
  <2>1. spend \in Seq(0..Len(items)) /\ items \in Seq(ItemRow) /\ 0 \in 0..Len(items)
    BY <1>2 DEF RowsTyped
  <2>2. spend' \in Seq(0..Len(items))
    BY <1>1, <2>1
  <2> QED
    BY <1>1, <1>2, <2>2 DEF RowsTyped
<1>5. V!applyEvent(RowsTree, e) = RowsTree'
  <2>1. RowsTree = TreeOf(task, items, cap, approval, spend) /\ RowsTree' = TreeOf(task, items, cap, approval, spend')
    BY <1>1, Zenon DEF RowsTree
  <2>2. items \in Seq(ItemRow) /\ spend \in Seq(0..Len(items)) /\ Len(items) \in Nat /\ Len(items) <= MaxItems
    BY <1>2 DEF RowsTyped
  <2>3. spend \in Seq(Nat)
    BY <2>2
  <2> QED
    BY <1>1, <1>2, <1>4, <2>1, <2>2, <2>3, TreeInitiator
<1>6. Written(e)
  <2> HIDE DEF e
  <2> QED
    BY <1>1, <1>3, <1>4, <1>5 DEF Written
<1> QED
  BY <1>6, WrittenIsKept

(* A worker is.                                                            *)
LEMMA ViewWorkerPaid == ASSUME V!ViewAssumption, ViewInv, NEW i \in 1..Len(items), V!recordCost(i) PROVE ViewInv'
<1> DEFINE e == V!Event("cost.recorded", i, i + 1)
<1>1. /\ owed = <<>> /\ owed' = <<e>> /\ log' = log /\ untold' = untold /\ crashes' = crashes
      /\ task # "none" /\ items[i].run # "none" /\ items' = items /\ approval' = approval /\ cap' = cap /\ task' = task /\ spend' = Append(spend, i)
  BY DEF V!recordCost, V!Write, V!Rest
<1>2. RowsTyped /\ NothingYet /\ MaxItems \in Nat /\ MaxCap \in Nat /\ MaxCosts \in Nat
  BY DEF ViewInv, V!ViewAssumption
<1>3. e \in EventRow /\ e.type = "cost.recorded"
  BY <1>1, <1>2 DEF V!Event, EventRow, EventTypes, Carried, RowsTyped
<1>4. task # "none" /\ task' # "none" /\ RowsTyped'
  <2>1. spend \in Seq(0..Len(items)) /\ items \in Seq(ItemRow) /\ i \in 0..Len(items)
    BY <1>2 DEF RowsTyped
  <2>2. spend' \in Seq(0..Len(items))
    BY <1>1, <2>1
  <2> QED
    BY <1>1, <1>2, <2>2 DEF RowsTyped
<1>5. V!applyEvent(RowsTree, e) = RowsTree'
  <2>1. RowsTree = TreeOf(task, items, cap, approval, spend) /\ RowsTree' = TreeOf(task, items, cap, approval, spend')
    BY <1>1, Zenon DEF RowsTree
  <2>2. items \in Seq(ItemRow) /\ spend \in Seq(0..Len(items)) /\ Len(items) \in Nat /\ Len(items) <= MaxItems
    BY <1>2 DEF RowsTyped
  <2>3. spend \in Seq(Nat)
    BY <2>2
  <2> QED
    BY <1>1, <1>2, <1>4, <2>1, <2>2, <2>3, TreeWorker
<1>6. Written(e)
  <2> HIDE DEF e
  <2> QED
    BY <1>1, <1>3, <1>4, <1>5 DEF Written
<1> QED
  BY <1>6, WrittenIsKept


(* What one event does to the bill of a tree.                              *)
LEMMA BillStep ==
  ASSUME NEW f, DOMAIN f = TreeFields, f.known \in BOOLEAN, NEW e \in EventRow
  PROVE  /\ DOMAIN V!applyEvent(f, e) = TreeFields /\ V!applyEvent(f, e).known \in BOOLEAN
         /\ e.type = "task.created" => V!applyEvent(f, e).cost = 0
         /\ e.type # "task.created" /\ V!applyEvent(f, e).known => f.known
         /\ e.type \notin {"task.created", "cost.recorded"} => V!applyEvent(f, e).cost = f.cost
         /\ e.type = "cost.recorded" /\ f.known => V!applyEvent(f, e).cost = f.cost + e.x
<1> DEFINE Like(g) == DOMAIN g = TreeFields /\ g.known = f.known /\ g.cost = f.cost
<1>1. "known" \in TreeFields /\ "cost" \in TreeFields
  BY DEF TreeFields
<1>2. Like(V!Orphan(f))
  BY <1>1 DEF V!Orphan
<1>3. \A v : Like([f EXCEPT !.status = v]) /\ Like([f EXCEPT !.cap = v]) /\ Like([f EXCEPT !.items = v])
             /\ Like([f EXCEPT !.approval = v])
  BY <1>1
<1>4. CASE e.type = "task.created"
  <2>1. V!applyEvent(f, e) = [V!Empty EXCEPT !.known = TRUE, !.status = "pending", !.orphans = f.orphans]
    BY <1>4 DEF V!applyEvent
  <2>2. DOMAIN V!Empty = TreeFields /\ V!Empty.cost = 0
    BY DEF V!Empty, TreeFields
  <2>3. PICK g : g = V!applyEvent(f, e)
    OBVIOUS
  <2>4. DOMAIN g = TreeFields /\ g.known = TRUE /\ g.cost = 0
    BY <1>1, <2>1, <2>2, <2>3
  <2> QED
    BY <1>4, <2>3, <2>4
<1>5. CASE e.type # "task.created" /\ ~f.known
  <2>1. V!applyEvent(f, e) = V!Orphan(f)
    BY <1>5 DEF V!applyEvent
  <2> QED
    BY <1>2, <1>5, <2>1
<1>6. CASE f.known /\ e.type = "task.status_changed"
  <2>1. V!applyEvent(f, e) = [f EXCEPT !.status = e.x]
    BY <1>6 DEF V!applyEvent
  <2> QED
    BY <1>3, <1>6, <2>1
<1>7. CASE f.known /\ e.type = "task.settings_changed"
  <2>1. V!applyEvent(f, e) = [f EXCEPT !.cap = e.x]
    BY <1>7 DEF V!applyEvent
  <2> QED
    BY <1>3, <1>7, <2>1
<1>8. CASE f.known /\ e.type = "work_item.created"
  <2>1. Like(V!applyEvent(f, e))
    <3>1. CASE V!At(f, e.i) # {}
      BY <1>2, <1>8, <3>1 DEF V!applyEvent
    <3>2. CASE V!At(f, e.i) = {}
      <4>1. PICK v : v = Append(f.items, [id |-> e.i, label |-> Len(f.items) + 1, status |-> "pending",
                                          run |-> "none", cost |-> 0])
        OBVIOUS
      <4>2. V!applyEvent(f, e) = [f EXCEPT !.items = v]
        BY <1>8, <3>2, <4>1 DEF V!applyEvent
      <4> QED
        BY <1>3, <4>2
    <3> QED
      BY <3>1, <3>2
  <2> QED
    BY <1>8, <2>1
<1>9. CASE f.known /\ e.type = "work_item.status_changed"
  <2>1. Like(V!applyEvent(f, e))
    BY <1>1, <1>2, <1>9 DEF V!applyEvent, V!mapWorkItem
  <2> QED
    BY <1>9, <2>1
<1>10. CASE f.known /\ e.type = "worker_run.created"
  <2>1. Like(V!applyEvent(f, e))
    BY <1>1, <1>2, <1>10 DEF V!applyEvent, V!mapWorkItem
  <2> QED
    BY <1>10, <2>1
<1>11. CASE f.known /\ e.type = "worker_run.status_changed"
  <2>1. Like(V!applyEvent(f, e))
    BY <1>1, <1>2, <1>11 DEF V!applyEvent, V!mapRun, V!mapWorkItem
  <2> QED
    BY <1>11, <2>1
<1>12. CASE f.known /\ e.type = "approval.requested"
  <2>1. V!applyEvent(f, e) = [f EXCEPT !.approval = "pending"]
    BY <1>12 DEF V!applyEvent
  <2> QED
    BY <1>3, <1>12, <2>1
<1>13. CASE f.known /\ e.type = "approval.resolved"
  <2>1. V!applyEvent(f, e) \in {V!Orphan(f), [f EXCEPT !.approval = e.x]}
    BY <1>13 DEF V!applyEvent
  <2> QED
    BY <1>2, <1>3, <1>13, <2>1
<1>14. CASE f.known /\ e.type = "cost.recorded"
  <2>1. V!applyEvent(f, e) = V!applyCost(f, e.i, e.x)
    BY <1>14 DEF V!applyEvent
  <2>2. PICK g : g = [f EXCEPT !.cost = @ + e.x]
    OBVIOUS
  <2>3. DOMAIN g = TreeFields /\ g.known = f.known /\ g.cost = f.cost + e.x
    BY <1>1, <2>2
  <2>4. PICK h : h = V!applyCost(f, e.i, e.x)
    OBVIOUS
  <2>5. DOMAIN h = TreeFields /\ h.known = f.known /\ h.cost = f.cost + e.x
    <3>1. CASE e.i = 0
      <4>1. h = [g EXCEPT !.initiator = @ + e.x]
        BY <2>2, <2>4, <3>1 DEF V!applyCost
      <4> QED
        BY <1>1, <2>3, <4>1
    <3>2. CASE e.i # 0 /\ \E n \in V!At(f, e.i) : f.items[n].run # "none"
      <4>1. h = V!mapRun(g, e.i, LAMBDA w : [w EXCEPT !.cost = w.cost + e.x])
        BY <2>2, <2>4, <3>2, Zenon DEF V!applyCost
      <4>2. \/ h = V!Orphan(g)
            \/ \E n, v : h = [g EXCEPT !.items[n] = v]
        BY <4>1, Zenon DEF V!mapRun, V!mapWorkItem
      <4>3. DOMAIN V!Orphan(g) = TreeFields /\ V!Orphan(g).known = g.known /\ V!Orphan(g).cost = g.cost
        BY <1>1, <2>3 DEF V!Orphan
      <4> QED
        BY <1>1, <2>3, <4>2, <4>3
    <3>3. CASE e.i # 0 /\ ~(\E n \in V!At(f, e.i) : f.items[n].run # "none")
      <4>1. h = g
        BY <2>2, <2>4, <3>3, Zenon DEF V!applyCost
      <4> QED
        BY <2>3, <4>1
    <3> QED
      BY <3>1, <3>2, <3>3
  <2> QED
    BY <1>14, <2>1, <2>4, <2>5
<1> QED
  BY <1>4, <1>5, <1>6, <1>7, <1>8, <1>9, <1>10, <1>11, <1>12, <1>13, <1>14 DEF EventRow, EventTypes

(* The owed event is appended.                                             *)
LEMMA ViewAppended == ASSUME ViewInv, V!AppendEvent PROVE ViewInv'
<1>1. /\ owed # <<>> /\ log' = log \o owed /\ owed' = <<>> /\ task' = task /\ items' = items
      /\ approval' = approval /\ spend' = spend /\ cap' = cap /\ crashes' = crashes /\ untold' = untold
  BY DEF V!AppendEvent, V!rows
<1>2. PICK e \in EventRow : owed = <<e>>
  BY <1>1 DEF ViewInv, LogTyped
<1>3. log \in Seq(EventRow) /\ log' = Append(log, e) /\ log' \in Seq(EventRow)
  <2>1. log \in Seq(EventRow)
    BY DEF ViewInv, LogTyped
  <2> QED
    BY <1>1, <1>2, <2>1
<1>4. RowsTyped' /\ LogTyped' /\ NothingYet'
  BY <1>1, <1>3 DEF ViewInv, RowsTyped, LogTyped, NothingYet
<1>5. log' \o owed' = log \o owed
  BY <1>1, <1>3
<1>6. TreeIsRows'
  <2>1. RowsTree' = RowsTree
    BY <1>1 DEF RowsTree
  <2> QED
    BY <1>1, <1>5, <2>1 DEF ViewInv, TreeIsRows
<1>7. BillTold'
  <2>1. BillTold
    BY DEF ViewInv
  <2>2. PICK f : f = V!Folded
    OBVIOUS
  <2>3. /\ DOMAIN f = TreeFields /\ f.known \in BOOLEAN /\ (f.known => f.cost = Bill(log))
        /\ (e.type = "task.created" => log = <<>>)
    BY <1>2, <2>1, <2>2 DEF BillTold
  <2>4. V!Folded' = V!applyEvent(f, e)
    <3>1. V!foldEvents(log \o <<e>>) = V!applyEvent(V!foldEvents(log), e)
      BY <1>3, FoldMore
    <3> QED
      BY <1>1, <1>2, <2>2, <3>1 DEF V!Folded
  <2>5. PICK g : g = V!applyEvent(f, e)
    OBVIOUS
  <2>6. /\ DOMAIN g = TreeFields /\ g.known \in BOOLEAN
        /\ e.type = "task.created" => g.cost = 0
        /\ e.type # "task.created" /\ g.known => f.known
        /\ e.type \notin {"task.created", "cost.recorded"} => g.cost = f.cost
        /\ e.type = "cost.recorded" /\ f.known => g.cost = f.cost + e.x
    BY <2>3, <2>5, BillStep
  <2>7. /\ Bill(log) \in Int
        /\ Bill(Append(log, e)) = Bill(log) + (IF e.type = "cost.recorded" THEN e.x ELSE 0)
    BY <1>3, BillMore
  <2>8. Bill(<<>>) = 0
    <3>1. {n \in DOMAIN <<>> : <<>>[n].type = "cost.recorded"} = {}
      OBVIOUS
    <3> QED
      BY <3>1, SumsNone DEF Bill
  <2>9. g.known => g.cost = Bill(Append(log, e))
    <3>1. CASE e.type = "task.created"
      <4>1. log = <<>> /\ g.cost = 0
        BY <2>3, <2>6, <3>1
      <4>2. Bill(log) = 0
        BY <2>8, <4>1, Zenon
      <4>3. Bill(Append(log, e)) = Bill(log) + 0
        BY <2>7, <3>1
      <4>4. Bill(Append(log, e)) = 0
        BY <4>2, <4>3
      <4> QED
        BY <4>1, <4>4
    <3>2. CASE e.type = "cost.recorded"
      BY <2>3, <2>6, <2>7, <3>2
    <3>3. CASE e.type \notin {"task.created", "cost.recorded"}
      BY <2>3, <2>6, <2>7, <3>3
    <3> QED
      BY <3>1, <3>2, <3>3
  <2> QED
    BY <1>1, <1>3, <2>4, <2>5, <2>6, <2>9 DEF BillTold
<1> QED
  BY <1>4, <1>6, <1>7 DEF ViewInv

(* The process dies, owing an event or not.                                *)
LEMMA ViewCrashed == ASSUME V!ViewAssumption, ViewInv, V!Crash PROVE ViewInv'
<1>1. /\ crashes < MaxCrashes /\ crashes' = crashes + 1 /\ untold' = (untold \/ owed # <<>>)
      /\ owed' = <<>> /\ log' = log
      /\ task' = task /\ items' = items /\ approval' = approval /\ spend' = spend /\ cap' = cap
  BY DEF V!Crash, V!rows
<1>2. RowsTyped' /\ LogTyped' /\ NothingYet'
  <2>1. untold' \in BOOLEAN
    BY <1>1
  <2> QED
    BY <1>1, <2>1 DEF ViewInv, RowsTyped, LogTyped, NothingYet, V!ViewAssumption
<1>3. TreeIsRows'
  <2>1. RowsTree' = RowsTree
    BY <1>1 DEF RowsTree
  <2> SUFFICES ASSUME ~untold' PROVE V!foldEvents(log' \o owed') = RowsTree'
    BY DEF TreeIsRows
  <2>2. ~untold /\ owed = <<>>
    BY <1>1
  <2> QED
    BY <1>1, <2>1, <2>2 DEF ViewInv, TreeIsRows
<1>4. BillTold'
  BY <1>1 DEF ViewInv, BillTold, V!Folded
<1> QED
  BY <1>2, <1>3, <1>4 DEF ViewInv

(* Every step of the view keeps the invariant.                             *)
LEMMA ViewStays == ASSUME V!ViewAssumption, ViewInv, V!Next PROVE ViewInv'
<1>1. CASE V!createTask
  BY <1>1, ViewCreated
<1>2. CASE V!updateTaskSettings
  BY <1>2, ViewSet
<1>3. CASE V!createWorkItem
  BY <1>3, ViewItem
<1>4. CASE V!createApproval
  BY <1>4, ViewAsked
<1>5. CASE V!AppendEvent
  BY <1>5, ViewAppended
<1>6. CASE V!Crash
  BY <1>6, ViewCrashed
<1>7. CASE \E to \in V!TaskStatus : V!transitionTask(to)
  BY <1>7, ViewMoved
<1>8. CASE \E to \in V!ApprovalStatus : V!resolveApproval(to)
  BY <1>8, ViewResolved
<1>9. CASE \E i \in 0..Len(items) : V!recordCost(i)
  <2>1. PICK i \in 0..Len(items) : V!recordCost(i)
    BY <1>9
  <2>2. CASE i = 0
    BY <2>1, <2>2, ViewPaid
  <2>3. CASE i # 0
    <3>1. i \in 1..Len(items)
      BY <2>3 DEF ViewInv, RowsTyped
    <3> QED
      BY <2>1, <3>1, ViewWorkerPaid
  <2> QED
    BY <2>2, <2>3
<1>10. CASE \E i \in 1..Len(items) : V!createWorkerRun(i)
  BY <1>10, ViewRun
<1>11. CASE \E i \in 1..Len(items) : \E to \in V!WorkItemStatus : V!transitionWorkItem(i, to)
  BY <1>11, ViewItemMoved
<1>12. CASE \E i \in 1..Len(items) : \E to \in V!WorkerRunStatus : V!transitionWorkerRun(i, to)
  BY <1>12, ViewRunMoved
<1> QED
  BY <1>1, <1>2, <1>3, <1>4, <1>5, <1>6, <1>7, <1>8, <1>9, <1>10, <1>11, <1>12 DEF V!Next

(* And it is what the view promises.                                       *)
LEMMA ViewTells == ASSUME V!ViewAssumption, ViewInv PROVE V!TypeOK /\ V!ToldUnlessLost /\ V!BillComplete
<1>1. RowsTyped /\ LogTyped
  BY DEF ViewInv
<1>2. V!TypeOK
  <2>1. spend \in Seq(0..Len(items)) /\ Len(items) \in Nat /\ Len(items) <= MaxItems
    BY <1>1 DEF RowsTyped
  <2>2. spend \in Seq(0..MaxItems)
    <3>1. \A x \in 0..Len(items) : x \in 0..MaxItems
      BY <2>1 DEF V!ViewAssumption
    <3>2. Len(spend) \in Nat /\ spend \in [1..Len(spend) -> 0..Len(items)]
      BY <2>1
    <3>3. spend \in [1..Len(spend) -> 0..MaxItems]
      BY <3>1, <3>2
    <3>4. PICK m \in Nat : m = Len(spend)
      BY <3>2
    <3>5. PICK X : X = 0..MaxItems
      OBVIOUS
    <3>6. spend \in [1..m -> X]
      BY <3>3, <3>4, <3>5
    <3>7. spend \in Seq(X)
      BY <3>6
    <3> QED
      BY <3>5, <3>7
  <2> QED
    BY <1>1, <2>2 DEF RowsTyped, V!TypeOK
<1>3. V!BillComplete
  BY ViewSums, Zenon DEF ViewInv, BillTold, V!BillComplete
<1>4. V!ToldUnlessLost
  <2> SUFFICES ASSUME ~untold, owed = <<>> PROVE V!Told
    BY DEF V!ToldUnlessLost, V!EveryWriteTold
  <2>1. log \o owed = log
    BY <1>1 DEF LogTyped
  <2>2. V!Folded = RowsTree
    BY <2>1 DEF ViewInv, TreeIsRows, V!Folded
  <2>3. PICK f : f = V!Folded
    OBVIOUS
  <2>4. /\ f.status = task /\ f.cap = cap /\ f.approval = approval /\ f.orphans = 0
        /\ f.items = ItemsOf(items, spend)
        /\ f.cost = SpentOn(spend, 0..MaxItems) /\ f.initiator = SpentOn(spend, {0})
    BY <2>2, <2>3 DEF RowsTree, TreeOf
  <2>5. items \in Seq(ItemRow) /\ Len(items) \in Nat
    BY <1>1 DEF RowsTyped
  <2>6. Len(f.items) = Len(items)
    BY <2>2, <2>3, <2>5, TreeParts DEF RowsTree
  <2>7. \A k \in 1..Len(items) :
           /\ f.items[k].label = k /\ f.items[k].cost = SpentOn(spend, {k})
           /\ f.items[k].status = items[k].status /\ f.items[k].run = items[k].run
    BY <2>4 DEF ItemsOf, ItemOf
  <2>8. [k \in 1..Len(f.items) |-> [status |-> f.items[k].status, run |-> f.items[k].run]] = items
    <3>1. \A k \in 1..Len(items) : items[k] \in ItemRow
      BY <2>5
    <3>2. \A k \in 1..Len(items) : items[k] = [status |-> items[k].status, run |-> items[k].run]
      BY <3>1 DEF ItemRow
    <3>3. items = [k \in 1..Len(items) |-> items[k]]
      BY <2>5
    <3> QED
      BY <2>6, <2>7, <3>2, <3>3
  <2>9. \A S : V!Spent(S) = SpentOn(spend, S)
    BY ViewSums
  <2> QED
    BY <2>3, <2>4, <2>6, <2>7, <2>8, <2>9 DEF V!Told
<1> QED
  BY <1>2, <1>3, <1>4


(***************************************************************************)
(* The panels: the records summed up, and the table of events.             *)
(***************************************************************************)
LEMMA Counted == ASSUME NEW S PROVE N!Cardinality(S) = Cardinality(S)
BY DEF N!Cardinality, Cardinality

(* The panels' sums are sums.                                               *)
LEMMA PanelSums == ASSUME NEW v, NEW S PROVE N!SumFunctionOnSet(v, S) = Sums(v, S)
BY Zenon DEF N!SumFunctionOnSet, N!FoldFunctionOnSet, N!MapThenFoldSet, Sums, IsSums, SumStep, Pick

(* The rows.                                                               *)
BillRow == [model : Models, at : 0..MaxTime, run : BOOLEAN, usd : Nat]
FaultRow == [model : Models, at : 0..MaxTime, phase : {"before_output", "mid_stream"}, retried : BOOLEAN]
RecordsTyped ==
  bills \in Seq(BillRow) /\ faults \in Seq(FaultRow) /\ Len(bills) + Len(faults) <= MaxRecords

(* What each bill comes to, and one for each record.                       *)
Paid == [i \in DOMAIN bills |-> bills[i].usd]
Ones == [i \in Nat |-> 1]

(* What in S meets the condition T.                                        *)
Where(S, T) == S \cap T

(* What meets the condition T, in two parts of S.                          *)
LEMMA InParts ==
  ASSUME NEW v, NEW S, NEW A, NEW B, NEW T, IsFiniteSet(S), \A x \in S : v[x] \in Int,
         S = A \cup B, A \cap B = {}
  PROVE  Sums(v, Where(S, T)) = Sums(v, Where(A, T)) + Sums(v, Where(B, T))
<1>1. IsFiniteSet(Where(A, T)) /\ IsFiniteSet(Where(B, T))
  <2>1. Where(A, T) \in SUBSET S /\ Where(B, T) \in SUBSET S
    BY DEF Where
  <2> QED
    BY <2>1, FS_Subset DEF Where
<1>2. Where(S, T) = Where(A, T) \cup Where(B, T) /\ Where(A, T) \cap Where(B, T) = {}
  BY DEF Where
<1>3. \A x \in Where(A, T) \cup Where(B, T) : v[x] \in Int
  BY DEF Where
<1>4. Sums(v, Where(A, T) \cup Where(B, T)) = Sums(v, Where(A, T)) + Sums(v, Where(B, T))
  BY <1>1, <1>2, <1>3, SumsSplit
<1> QED
  BY <1>2, <1>4

(* What meets the condition T, in the groups a key makes of S.             *)
LEMMA InGroups ==
  ASSUME NEW v, NEW S, NEW T, NEW K, NEW key, NEW f, IsFiniteSet(S), \A x \in S : v[x] \in Int,
         IsFiniteSet(K), \A x \in S : key[x] \in K,
         \A k \in K : f[k] = Sums(v, Where(Group(S, key, k), T))
  PROVE  Sums(f, K) = Sums(v, Where(S, T))
<1>1. PICK W : W = Where(S, T)
  OBVIOUS
<1>2. IsFiniteSet(W) /\ (\A x \in W : v[x] \in Int) /\ (\A x \in W : key[x] \in K)
  <2>1. W \in SUBSET S
    BY <1>1 DEF Where
  <2> QED
    BY <2>1, FS_Subset
<1>3. \A k \in K : Where(Group(S, key, k), T) = Group(W, key, k)
  BY <1>1 DEF Group, Where
<1>4. \A k \in K : f[k] = Sums(v, Group(W, key, k))
  BY <1>3
<1>5. Sums(f, K) = Sums(v, W)
  BY <1>2, <1>4, SumsGroups
<1> QED
  BY <1>1, <1>5

(* A window's bounds cut the rows in two.                                  *)
LEMMA Windows ==
  ASSUME NEW Row, NEW rs \in Seq(Row), \A r \in Row : r.at \in Nat, NEW cut \in Nat
  PROVE  /\ N!Within(rs, N!Null, N!Null) = DOMAIN rs
         /\ DOMAIN rs = N!Within(rs, N!Null, cut) \cup N!Within(rs, cut, N!Null)
         /\ N!Within(rs, N!Null, cut) \cap N!Within(rs, cut, N!Null) = {}
         /\ IsFiniteSet(DOMAIN rs) /\ DOMAIN rs \in SUBSET Nat
<1>1. DOMAIN rs = 1..Len(rs) /\ Len(rs) \in Nat /\ \A i \in DOMAIN rs : rs[i].at \in Nat
  BY Elements
<1>2. IsFiniteSet(DOMAIN rs)
  <2>1. IsFiniteSet(1..Len(rs))
    BY <1>1, UptoFinite, Zenon
  <2> QED
    BY <1>1, <2>1, Zenon
<1>3. cut # -1
  OBVIOUS
<1> QED
  BY <1>1, <1>2, <1>3 DEF N!Within, N!InWindow, N!Null

(* The conditions, as sets of records.                                     *)
ByHand == {i \in Nat : ~bills[i].run}
ByRun == {i \in Nat : bills[i].run}
Early == {i \in Nat : faults[i].phase = "before_output"}
Late == {i \in Nat : faults[i].phase # "before_output"}
Again == {i \in Nat : faults[i].retried}

(* The summary of a set of costs, as sums over the set.                     *)
LEMMA AddedIs ==
  ASSUME NEW S \in SUBSET Nat, IsFiniteSet(S)
  PROVE  /\ DOMAIN N!Added(S) = {"usd", "calls", "initiator", "worker"}
         /\ N!Added(S).usd = Sums(Paid, Where(S, Nat)) /\ N!Added(S).calls = Sums(Ones, Where(S, Nat))
         /\ N!Added(S).initiator = Sums(Paid, Where(S, ByHand)) /\ N!Added(S).worker = Sums(Paid, Where(S, ByRun))
<1>1. Where(S, Nat) = S /\ {i \in S : ~bills[i].run} = Where(S, ByHand) /\ {i \in S : bills[i].run} = Where(S, ByRun)
  BY DEF ByHand, ByRun, Where
<1>2. Sums(Ones, S) = Cardinality(S)
  <2>1. \A i \in S : Ones[i] = 1
    BY DEF Ones
  <2> QED
    BY <2>1, SumsCount
<1>3. \A U : N!Usd(U) = Sums(Paid, U)
  BY PanelSums DEF N!Usd, Paid
<1>4. N!Cardinality(S) = Cardinality(S)
  BY Counted
<1> QED
  BY <1>1, <1>2, <1>3, <1>4 DEF N!Added

(* The summary of sets of failures and of answers, as sums over them.       *)
LEMMA FailedIs ==
  ASSUME NEW F \in SUBSET Nat, IsFiniteSet(F), NEW C \in SUBSET Nat, IsFiniteSet(C)
  PROVE  /\ DOMAIN N!Failed(F, C) = {"failures", "successes", "beforeOutput", "midStream", "retried"}
         /\ N!Failed(F, C).failures = Sums(Ones, Where(F, Nat)) /\ N!Failed(F, C).successes = Sums(Ones, Where(C, Nat))
         /\ N!Failed(F, C).beforeOutput = Sums(Ones, Where(F, Early))
         /\ N!Failed(F, C).midStream = Sums(Ones, Where(F, Late))
         /\ N!Failed(F, C).retried = Sums(Ones, Where(F, Again))
<1>1. ASSUME NEW U \in SUBSET Nat, IsFiniteSet(U), NEW T
      PROVE  N!Cardinality(Where(U, T)) = Sums(Ones, Where(U, T))
  <2>1. Where(U, T) \in SUBSET U
    BY DEF Where
  <2>2. IsFiniteSet(Where(U, T))
    BY <1>1, <2>1, FS_Subset
  <2>3. \A i \in Where(U, T) : Ones[i] = 1
    BY <1>1 DEF Ones, Where
  <2>4. Sums(Ones, Where(U, T)) = Cardinality(Where(U, T))
    BY <2>2, <2>3, SumsCount
  <2> QED
    BY <2>4, Counted
<1>2. /\ Where(F, Nat) = F /\ Where(C, Nat) = C
      /\ {i \in F : faults[i].phase = "before_output"} = Where(F, Early)
      /\ {i \in F : faults[i].phase # "before_output"} = Where(F, Late)
      /\ {i \in F : faults[i].retried} = Where(F, Again)
  BY DEF Early, Late, Again, Where
<1>3. N!Cardinality(F) = Sums(Ones, Where(F, Nat)) /\ N!Cardinality(C) = Sums(Ones, Where(C, Nat))
  BY <1>1, <1>2
<1>4. /\ N!Cardinality({i \in F : faults[i].phase = "before_output"}) = Sums(Ones, Where(F, Early))
      /\ N!Cardinality({i \in F : faults[i].phase # "before_output"}) = Sums(Ones, Where(F, Late))
      /\ N!Cardinality({i \in F : faults[i].retried}) = Sums(Ones, Where(F, Again))
  BY <1>1, <1>2
<1> QED
  BY <1>3, <1>4, Zenon DEF N!Failed

(* The summary of costs: its totals, and its buckets by any key.           *)
KeyOf(rs, g) == [i \in DOMAIN rs |-> N!keyOf(rs[i], g)]
CostFields == {"usd", "calls", "initiator", "worker"}

(* A set of records in two parts adds up.                                  *)
LEMMA AddedParts ==
  ASSUME RecordsTyped, NEW A, NEW B, DOMAIN bills = A \cup B, A \cap B = {}, NEW x \in CostFields
  PROVE  N!Added(DOMAIN bills)[x] = N!Added(A)[x] + N!Added(B)[x]
<1>1. IsFiniteSet(DOMAIN bills) /\ DOMAIN bills \in SUBSET Nat /\ \A i \in DOMAIN bills : bills[i] \in BillRow
  <2>1. bills \in Seq(BillRow)
    BY DEF RecordsTyped
  <2>2. DOMAIN bills = 1..Len(bills) /\ Len(bills) \in Nat /\ \A i \in DOMAIN bills : bills[i] \in BillRow
    BY <2>1, Elements
  <2>3. IsFiniteSet(1..Len(bills))
    BY <2>2, UptoFinite, Zenon
  <2> QED
    BY <2>2, <2>3
<1>2. A \in SUBSET DOMAIN bills /\ B \in SUBSET DOMAIN bills
  OBVIOUS
<1>3. IsFiniteSet(A) /\ IsFiniteSet(B) /\ A \in SUBSET Nat /\ B \in SUBSET Nat
  BY <1>1, <1>2, FS_Subset
<1>4. \A i \in DOMAIN bills : Paid[i] \in Int /\ Ones[i] \in Int
  BY <1>1 DEF Paid, Ones, BillRow
<1>5. ASSUME NEW T
      PROVE  /\ Sums(Paid, Where(DOMAIN bills, T)) = Sums(Paid, Where(A, T)) + Sums(Paid, Where(B, T))
             /\ Sums(Ones, Where(DOMAIN bills, T)) = Sums(Ones, Where(A, T)) + Sums(Ones, Where(B, T))
  <2>1. PICK S : S = DOMAIN bills
    OBVIOUS
  <2>2. /\ IsFiniteSet(S) /\ S = A \cup B /\ A \cap B = {}
        /\ \A i \in S : Paid[i] \in Int
        /\ \A i \in S : Ones[i] \in Int
    BY <1>1, <1>4, <2>1
  <2>3. Sums(Paid, Where(S, T)) = Sums(Paid, Where(A, T)) + Sums(Paid, Where(B, T))
    BY <2>2, InParts
  <2>4. Sums(Ones, Where(S, T)) = Sums(Ones, Where(A, T)) + Sums(Ones, Where(B, T))
    BY <2>2, InParts
  <2> QED
    BY <2>1, <2>3, <2>4
<1>6. \A S \in {DOMAIN bills, A, B} :
         /\ N!Added(S).usd = Sums(Paid, Where(S, Nat)) /\ N!Added(S).calls = Sums(Ones, Where(S, Nat))
         /\ N!Added(S).initiator = Sums(Paid, Where(S, ByHand)) /\ N!Added(S).worker = Sums(Paid, Where(S, ByRun))
  BY <1>1, <1>3, AddedIs
<1>7. /\ N!Added(DOMAIN bills).usd = N!Added(A).usd + N!Added(B).usd
      /\ N!Added(DOMAIN bills).calls = N!Added(A).calls + N!Added(B).calls
      /\ N!Added(DOMAIN bills).initiator = N!Added(A).initiator + N!Added(B).initiator
      /\ N!Added(DOMAIN bills).worker = N!Added(A).worker + N!Added(B).worker
  BY <1>5, <1>6
<1> QED
  BY <1>7 DEF CostFields

(* In groups it adds up too.                                               *)
LEMMA AddedGroups ==
  ASSUME RecordsTyped, NEW g, NEW x \in CostFields
  PROVE  N!SumOf(N!summarizeCosts(g, N!Null, N!Null).buckets, x) = N!Added(DOMAIN bills)[x]
<1> PICK b : b = N!summarizeCosts(g, N!Null, N!Null).buckets
  OBVIOUS
<1>1. IsFiniteSet(DOMAIN bills) /\ DOMAIN bills \in SUBSET Nat /\ \A i \in DOMAIN bills : bills[i] \in BillRow
  <2>1. bills \in Seq(BillRow)
    BY DEF RecordsTyped
  <2>2. DOMAIN bills = 1..Len(bills) /\ Len(bills) \in Nat /\ \A i \in DOMAIN bills : bills[i] \in BillRow
    BY <2>1, Elements
  <2>3. IsFiniteSet(1..Len(bills))
    BY <2>2, UptoFinite, Zenon
  <2> QED
    BY <2>2, <2>3
<1>2. PICK S : S = DOMAIN bills
  OBVIOUS
<1>3. PICK key : key = KeyOf(bills, g)
  OBVIOUS
<1>4. PICK K : K = {key[i] : i \in S}
  OBVIOUS
<1>5. IsFiniteSet(S) /\ S \in SUBSET Nat /\ IsFiniteSet(K) /\ (\A i \in S : key[i] \in K)
      /\ (\A i \in S : Paid[i] \in Int /\ Ones[i] \in Int)
  <2>1. IsFiniteSet(K)
    <3>1. key \in Surjection(S, K)
      BY <1>2, <1>3, <1>4 DEF KeyOf, Surjection
    <3> QED
      BY <1>1, <1>2, <3>1, FS_Surjection
  <2>2. \A i \in S : Paid[i] \in Int /\ Ones[i] \in Int
    BY <1>1, <1>2 DEF Paid, Ones, BillRow
  <2> QED
    BY <1>1, <1>2, <1>4, <2>1, <2>2
<1>6. N!Within(bills, N!Null, N!Null) = S
  BY <1>2 DEF N!Within, N!InWindow, N!Null
<1>7. b = [k \in K |-> N!Added(Group(S, key, k))]
  <2>1. b = [k \in {N!keyOf(bills[i], g) : i \in S} |-> N!Added({i \in S : N!keyOf(bills[i], g) = k})]
    BY <1>6, Zenon DEF N!summarizeCosts
  <2>2. \A i \in S : key[i] = N!keyOf(bills[i], g)
    BY <1>2, <1>3 DEF KeyOf
  <2>3. K = {N!keyOf(bills[i], g) : i \in S}
    BY <1>4, <2>2
  <2>4. \A k : {i \in S : N!keyOf(bills[i], g) = k} = Group(S, key, k)
    BY <2>2 DEF Group
  <2> QED
    BY <2>1, <2>3, <2>4
<1>8. PICK f : f = [k \in DOMAIN b |-> b[k][x]]
  OBVIOUS
<1>9. f = [k \in K |-> N!Added(Group(S, key, k))[x]] /\ N!SumOf(b, x) = Sums(f, K)
  <2>1. f = [k \in K |-> N!Added(Group(S, key, k))[x]]
    BY <1>7, <1>8
  <2>2. N!SumOf(b, x) = N!SumFunctionOnSet(f, DOMAIN f)
    BY <1>8, Zenon DEF N!SumOf, N!SumFunction
  <2> QED
    BY <2>1, <2>2, PanelSums
<1>10. \A k \in K : Group(S, key, k) \in SUBSET Nat /\ IsFiniteSet(Group(S, key, k))
  <2>1. \A k \in K : Group(S, key, k) \in SUBSET S
    BY DEF Group
  <2> QED
    BY <1>5, <2>1, FS_Subset
<1>11. ASSUME NEW v, \A i \in S : v[i] \in Int, NEW T,
              \A k \in K : f[k] = Sums(v, Where(Group(S, key, k), T))
       PROVE  Sums(f, K) = Sums(v, Where(S, T))
  <2>1. IsFiniteSet(S) /\ IsFiniteSet(K) /\ \A i \in S : key[i] \in K
    BY <1>5
  <2>2. \A i \in S : v[i] \in Int
    BY <1>11
  <2>3. \A k \in K : f[k] = Sums(v, Where(Group(S, key, k), T))
    BY <1>11
  <2> QED
    BY <2>1, <2>2, <2>3, InGroups
<1>12. \A k \in K : f[k] = N!Added(Group(S, key, k))[x]
  BY <1>9
<1>13. CASE x = "usd"
  <2>1. \A k \in K : f[k] = Sums(Paid, Where(Group(S, key, k), Nat))
    BY <1>10, <1>12, <1>13, AddedIs
  <2>2. Sums(f, K) = Sums(Paid, Where(S, Nat))
    BY <1>5, <1>11, <2>1, Zenon
  <2> QED
    BY <1>2, <1>5, <1>9, <1>13, <2>2, AddedIs
<1>14. CASE x = "calls"
  <2>1. \A k \in K : f[k] = Sums(Ones, Where(Group(S, key, k), Nat))
    BY <1>10, <1>12, <1>14, AddedIs
  <2>2. Sums(f, K) = Sums(Ones, Where(S, Nat))
    BY <1>5, <1>11, <2>1, Zenon
  <2> QED
    BY <1>2, <1>5, <1>9, <1>14, <2>2, AddedIs
<1>15. CASE x = "initiator"
  <2>1. \A k \in K : f[k] = Sums(Paid, Where(Group(S, key, k), ByHand))
    BY <1>10, <1>12, <1>15, AddedIs
  <2>2. Sums(f, K) = Sums(Paid, Where(S, ByHand))
    BY <1>5, <1>11, <2>1, Zenon
  <2> QED
    BY <1>2, <1>5, <1>9, <1>15, <2>2, AddedIs
<1>16. CASE x = "worker"
  <2>1. \A k \in K : f[k] = Sums(Paid, Where(Group(S, key, k), ByRun))
    BY <1>10, <1>12, <1>16, AddedIs
  <2>2. Sums(f, K) = Sums(Paid, Where(S, ByRun))
    BY <1>5, <1>11, <2>1, Zenon
  <2> QED
    BY <1>2, <1>5, <1>9, <1>16, <2>2, AddedIs
<1> QED
  BY <1>13, <1>14, <1>15, <1>16 DEF CostFields


(* The rows are finitely many, and typed.                                  *)
LEMMA RowsFinite ==
  ASSUME RecordsTyped
  PROVE  /\ IsFiniteSet(DOMAIN bills) /\ DOMAIN bills \in SUBSET Nat
         /\ IsFiniteSet(DOMAIN faults) /\ DOMAIN faults \in SUBSET Nat
         /\ \A i \in DOMAIN bills : bills[i] \in BillRow
         /\ \A i \in DOMAIN faults : faults[i] \in FaultRow
         /\ DOMAIN faults = 1..Len(faults) /\ Len(faults) \in Nat
<1>1. bills \in Seq(BillRow) /\ faults \in Seq(FaultRow)
  BY DEF RecordsTyped
<1>2. DOMAIN bills = 1..Len(bills) /\ Len(bills) \in Nat /\ \A i \in DOMAIN bills : bills[i] \in BillRow
  BY <1>1, Elements
<1>3. DOMAIN faults = 1..Len(faults) /\ Len(faults) \in Nat /\ \A i \in DOMAIN faults : faults[i] \in FaultRow
  BY <1>1, Elements
<1>4. IsFiniteSet(DOMAIN bills) /\ DOMAIN bills \in SUBSET Nat
  <2>1. IsFiniteSet(1..Len(bills))
    BY <1>2, UptoFinite, Zenon
  <2> QED
    BY <1>2, <2>1
<1>5. IsFiniteSet(DOMAIN faults) /\ DOMAIN faults \in SUBSET Nat
  <2>1. IsFiniteSet(1..Len(faults))
    BY <1>3, UptoFinite, Zenon
  <2> QED
    BY <1>3, <2>1
<1> QED
  BY <1>2, <1>3, <1>4, <1>5, Zenon

(* Each row's model, and what a summary of failures counts.                 *)
ModelOf(rs) == [i \in DOMAIN rs |-> rs[i].model]
FaultFields == {"failures", "successes", "beforeOutput", "midStream", "retried"}

(* S in two parts.                                                         *)
Parts(S, A, B) == S = A \cup B /\ A \cap B = {}

(* Failures and answers, each in two parts.                                *)
LEMMA FailedParts ==
  ASSUME NEW A, NEW B, NEW C, NEW E, NEW x \in FaultFields,
         RecordsTyped, Parts(DOMAIN faults, A, B), Parts(DOMAIN bills, C, E)
  PROVE  N!Failed(DOMAIN faults, DOMAIN bills)[x] = N!Failed(A, C)[x] + N!Failed(B, E)[x]
<1>1. /\ IsFiniteSet(DOMAIN bills) /\ DOMAIN bills \in SUBSET Nat
      /\ IsFiniteSet(DOMAIN faults) /\ DOMAIN faults \in SUBSET Nat
  BY RowsFinite
<1>2. A \in SUBSET DOMAIN faults /\ B \in SUBSET DOMAIN faults /\ C \in SUBSET DOMAIN bills /\ E \in SUBSET DOMAIN bills
  BY DEF Parts
<1>3. /\ IsFiniteSet(A) /\ IsFiniteSet(B) /\ A \in SUBSET Nat /\ B \in SUBSET Nat
      /\ IsFiniteSet(C) /\ IsFiniteSet(E) /\ C \in SUBSET Nat /\ E \in SUBSET Nat
  BY <1>1, <1>2, FS_Subset
<1>4. \A i \in Nat : Ones[i] \in Int
  BY DEF Ones
<1>5. ASSUME NEW T PROVE Sums(Ones, Where(DOMAIN faults, T)) = Sums(Ones, Where(A, T)) + Sums(Ones, Where(B, T))
  <2>1. PICK S : S = DOMAIN faults
    OBVIOUS
  <2>2. IsFiniteSet(S) /\ S = A \cup B /\ A \cap B = {} /\ \A i \in S : Ones[i] \in Int
    BY <1>1, <1>4, <2>1 DEF Parts
  <2>3. Sums(Ones, Where(S, T)) = Sums(Ones, Where(A, T)) + Sums(Ones, Where(B, T))
    BY <2>2, InParts
  <2> QED
    BY <2>1, <2>3
<1>6. ASSUME NEW T PROVE Sums(Ones, Where(DOMAIN bills, T)) = Sums(Ones, Where(C, T)) + Sums(Ones, Where(E, T))
  <2>1. PICK S : S = DOMAIN bills
    OBVIOUS
  <2>2. IsFiniteSet(S) /\ S = C \cup E /\ C \cap E = {} /\ \A i \in S : Ones[i] \in Int
    BY <1>1, <1>4, <2>1 DEF Parts
  <2>3. Sums(Ones, Where(S, T)) = Sums(Ones, Where(C, T)) + Sums(Ones, Where(E, T))
    BY <2>2, InParts
  <2> QED
    BY <2>1, <2>3
<1>7. /\ N!Failed(DOMAIN faults, DOMAIN bills).failures = Sums(Ones, Where(DOMAIN faults, Nat))
      /\ N!Failed(DOMAIN faults, DOMAIN bills).successes = Sums(Ones, Where(DOMAIN bills, Nat))
      /\ N!Failed(DOMAIN faults, DOMAIN bills).beforeOutput = Sums(Ones, Where(DOMAIN faults, Early))
      /\ N!Failed(DOMAIN faults, DOMAIN bills).midStream = Sums(Ones, Where(DOMAIN faults, Late))
      /\ N!Failed(DOMAIN faults, DOMAIN bills).retried = Sums(Ones, Where(DOMAIN faults, Again))
  BY <1>1, FailedIs
<1>8. /\ N!Failed(A, C).failures = Sums(Ones, Where(A, Nat)) /\ N!Failed(A, C).successes = Sums(Ones, Where(C, Nat))
      /\ N!Failed(A, C).beforeOutput = Sums(Ones, Where(A, Early))
      /\ N!Failed(A, C).midStream = Sums(Ones, Where(A, Late))
      /\ N!Failed(A, C).retried = Sums(Ones, Where(A, Again))
  BY <1>3, FailedIs
<1>9. /\ N!Failed(B, E).failures = Sums(Ones, Where(B, Nat)) /\ N!Failed(B, E).successes = Sums(Ones, Where(E, Nat))
      /\ N!Failed(B, E).beforeOutput = Sums(Ones, Where(B, Early))
      /\ N!Failed(B, E).midStream = Sums(Ones, Where(B, Late))
      /\ N!Failed(B, E).retried = Sums(Ones, Where(B, Again))
  BY <1>3, FailedIs
<1> QED
  BY <1>5, <1>6, <1>7, <1>8, <1>9 DEF FaultFields

(* Every failure failed early or late.                                     *)
LEMMA EarlyOrLate ==
  ASSUME RecordsTyped
  PROVE  N!Failed(DOMAIN faults, DOMAIN bills).failures
           = N!Failed(DOMAIN faults, DOMAIN bills).beforeOutput + N!Failed(DOMAIN faults, DOMAIN bills).midStream
<1>1. /\ IsFiniteSet(DOMAIN bills) /\ DOMAIN bills \in SUBSET Nat
      /\ IsFiniteSet(DOMAIN faults) /\ DOMAIN faults \in SUBSET Nat
  BY RowsFinite
<1>2. PICK S : S = DOMAIN faults
  OBVIOUS
<1>3. /\ Where(S, Nat) = Where(S, Early) \cup Where(S, Late) /\ Where(S, Early) \cap Where(S, Late) = {}
      /\ Where(S, Early) \in SUBSET S /\ Where(S, Late) \in SUBSET S
  BY <1>1, <1>2 DEF Where, Early, Late
<1>4. IsFiniteSet(Where(S, Early)) /\ IsFiniteSet(Where(S, Late))
  BY <1>1, <1>2, <1>3, FS_Subset
<1>5. \A i \in Where(S, Early) \cup Where(S, Late) : Ones[i] \in Int
  BY <1>1, <1>2, <1>3 DEF Ones
<1>6. Sums(Ones, Where(S, Early) \cup Where(S, Late)) = Sums(Ones, Where(S, Early)) + Sums(Ones, Where(S, Late))
  BY <1>3, <1>4, <1>5, SumsSplit
<1>7. /\ N!Failed(DOMAIN faults, DOMAIN bills).failures = Sums(Ones, Where(DOMAIN faults, Nat))
      /\ N!Failed(DOMAIN faults, DOMAIN bills).beforeOutput = Sums(Ones, Where(DOMAIN faults, Early))
      /\ N!Failed(DOMAIN faults, DOMAIN bills).midStream = Sums(Ones, Where(DOMAIN faults, Late))
  BY <1>1, FailedIs
<1> QED
  BY <1>2, <1>3, <1>6, <1>7

(* Every bill is for a call made by hand or by a run.                      *)
LEMMA HandOrRun ==
  ASSUME RecordsTyped
  PROVE  N!Added(DOMAIN bills).usd = N!Added(DOMAIN bills).initiator + N!Added(DOMAIN bills).worker
<1>1. IsFiniteSet(DOMAIN bills) /\ DOMAIN bills \in SUBSET Nat /\ \A i \in DOMAIN bills : bills[i] \in BillRow
  BY RowsFinite
<1>2. PICK S : S = DOMAIN bills
  OBVIOUS
<1>3. /\ Where(S, Nat) = Where(S, ByHand) \cup Where(S, ByRun) /\ Where(S, ByHand) \cap Where(S, ByRun) = {}
      /\ Where(S, ByHand) \in SUBSET S /\ Where(S, ByRun) \in SUBSET S
  BY <1>1, <1>2 DEF Where, ByHand, ByRun
<1>4. IsFiniteSet(Where(S, ByHand)) /\ IsFiniteSet(Where(S, ByRun))
  BY <1>1, <1>2, <1>3, FS_Subset
<1>5. \A i \in Where(S, ByHand) \cup Where(S, ByRun) : Paid[i] \in Int
  <2>1. \A i \in S : Paid[i] \in Int
    BY <1>1, <1>2 DEF Paid, BillRow
  <2> QED
    BY <1>3, <2>1
<1>6. Sums(Paid, Where(S, ByHand) \cup Where(S, ByRun)) = Sums(Paid, Where(S, ByHand)) + Sums(Paid, Where(S, ByRun))
  BY <1>3, <1>4, <1>5, SumsSplit
<1>7. /\ N!Added(DOMAIN bills).usd = Sums(Paid, Where(DOMAIN bills, Nat))
      /\ N!Added(DOMAIN bills).initiator = Sums(Paid, Where(DOMAIN bills, ByHand))
      /\ N!Added(DOMAIN bills).worker = Sums(Paid, Where(DOMAIN bills, ByRun))
  BY <1>1, AddedIs
<1> QED
  BY <1>2, <1>3, <1>6, <1>7

(* The models of the rows.                                                 *)
Keys == {faults[i].model : i \in DOMAIN faults} \cup {bills[i].model : i \in DOMAIN bills}
(* The models of the rows are finitely many.                                *)
LEMMA KeysFinite ==
  ASSUME RecordsTyped
  PROVE  /\ IsFiniteSet(Keys)
         /\ \A i \in DOMAIN faults : ModelOf(faults)[i] \in Keys
         /\ \A i \in DOMAIN bills : ModelOf(bills)[i] \in Keys
<1>1. PICK S : S = DOMAIN faults
  OBVIOUS
<1>2. PICK U : U = DOMAIN bills
  OBVIOUS
<1>3. PICK K : K = {faults[i].model : i \in S}
  OBVIOUS
<1>4. PICK L : L = {bills[i].model : i \in U}
  OBVIOUS
<1>5. ModelOf(faults) \in Surjection(S, K) /\ ModelOf(bills) \in Surjection(U, L)
  BY <1>1, <1>2, <1>3, <1>4 DEF ModelOf, Surjection
<1>6. IsFiniteSet(K) /\ IsFiniteSet(L)
  BY <1>1, <1>2, <1>5, RowsFinite, FS_Surjection
<1>7. Keys = K \cup L
  BY <1>1, <1>2, <1>3, <1>4 DEF Keys
<1>8. IsFiniteSet(Keys)
  BY <1>6, <1>7, FS_Union
<1>9. /\ \A i \in DOMAIN faults : ModelOf(faults)[i] \in K
      /\ \A i \in DOMAIN bills : ModelOf(bills)[i] \in L
  BY <1>1, <1>2, <1>3, <1>4 DEF ModelOf
<1> QED
  BY <1>7, <1>8, <1>9

(* The summary of failures over all time.                                  *)
LEMMA AllFailures ==
  ASSUME RecordsTyped
  PROVE  /\ N!summarizeFailures(N!Null, N!Null).totals = N!Failed(DOMAIN faults, DOMAIN bills)
         /\ N!summarizeFailures(N!Null, N!Null).buckets =
              [m \in Keys |-> N!Failed(Group(DOMAIN faults, ModelOf(faults), m), Group(DOMAIN bills, ModelOf(bills), m))]
         /\ N!summarizeFailures(N!Null, N!Null).lastAt =
              [m \in Keys |-> N!LastAt(Group(DOMAIN faults, ModelOf(faults), m))]
<1>1. N!Within(faults, N!Null, N!Null) = DOMAIN faults /\ N!Within(bills, N!Null, N!Null) = DOMAIN bills
  BY DEF N!Within, N!InWindow, N!Null
<1>2. /\ \A m : {i \in DOMAIN faults : faults[i].model = m} = Group(DOMAIN faults, ModelOf(faults), m)
      /\ \A m : {i \in DOMAIN bills : bills[i].model = m} = Group(DOMAIN bills, ModelOf(bills), m)
  BY DEF Group, ModelOf
<1>3. N!summarizeFailures(N!Null, N!Null) =
        [totals |-> N!Failed(DOMAIN faults, DOMAIN bills),
         buckets |-> [m \in Keys |-> N!Failed({i \in DOMAIN faults : faults[i].model = m},
                                              {i \in DOMAIN bills : bills[i].model = m})],
         lastAt |-> [m \in Keys |-> N!LastAt({i \in DOMAIN faults : faults[i].model = m})]]
  BY <1>1, Zenon DEF N!summarizeFailures, Keys
<1>4. PICK bs : bs = [m \in Keys |-> N!Failed({i \in DOMAIN faults : faults[i].model = m},
                                              {i \in DOMAIN bills : bills[i].model = m})]
  OBVIOUS
<1>5. PICK ls : ls = [m \in Keys |-> N!LastAt({i \in DOMAIN faults : faults[i].model = m})]
  OBVIOUS
<1>6. bs = [m \in Keys |-> N!Failed(Group(DOMAIN faults, ModelOf(faults), m), Group(DOMAIN bills, ModelOf(bills), m))]
  BY <1>2, <1>4
<1>7. ls = [m \in Keys |-> N!LastAt(Group(DOMAIN faults, ModelOf(faults), m))]
  BY <1>2, <1>5
<1>8. PICK ts : ts = N!Failed(DOMAIN faults, DOMAIN bills)
  OBVIOUS
<1>9. N!summarizeFailures(N!Null, N!Null) = [totals |-> ts, buckets |-> bs, lastAt |-> ls]
  BY <1>3, <1>4, <1>5, <1>8, Zenon
<1> QED
  BY <1>6, <1>7, <1>8, <1>9

(* Model by model the failures add up.                                     *)
LEMMA FailedGroups ==
  ASSUME RecordsTyped, NEW x \in FaultFields
  PROVE  N!SumOf(N!summarizeFailures(N!Null, N!Null).buckets, x) = N!Failed(DOMAIN faults, DOMAIN bills)[x]
<1> PICK b : b = N!summarizeFailures(N!Null, N!Null).buckets
  OBVIOUS
<1>1. PICK S : S = DOMAIN faults
  OBVIOUS
<1>2. PICK U : U = DOMAIN bills
  OBVIOUS
<1>3. PICK key : key = ModelOf(faults)
  OBVIOUS
<1>4. PICK kez : kez = ModelOf(bills)
  OBVIOUS
<1>5. /\ IsFiniteSet(S) /\ S \in SUBSET Nat /\ IsFiniteSet(U) /\ U \in SUBSET Nat
      /\ IsFiniteSet(Keys) /\ (\A i \in S : key[i] \in Keys) /\ (\A i \in U : kez[i] \in Keys)
  BY <1>1, <1>2, <1>3, <1>4, RowsFinite, KeysFinite
<1>6. b = [m \in Keys |-> N!Failed(Group(S, key, m), Group(U, kez, m))]
  BY <1>1, <1>2, <1>3, <1>4, AllFailures
<1>7. PICK f : f = [m \in DOMAIN b |-> b[m][x]]
  OBVIOUS
<1>8. (\A m \in Keys : f[m] = N!Failed(Group(S, key, m), Group(U, kez, m))[x]) /\ N!SumOf(b, x) = Sums(f, Keys)
  <2>1. f = [m \in Keys |-> N!Failed(Group(S, key, m), Group(U, kez, m))[x]]
    BY <1>6, <1>7
  <2>2. N!SumOf(b, x) = N!SumFunctionOnSet(f, DOMAIN f)
    BY <1>7, Zenon DEF N!SumOf, N!SumFunction
  <2> QED
    BY <2>1, <2>2, PanelSums
<1>9. \A m \in Keys : /\ Group(S, key, m) \in SUBSET Nat /\ IsFiniteSet(Group(S, key, m))
                      /\ Group(U, kez, m) \in SUBSET Nat /\ IsFiniteSet(Group(U, kez, m))
  <2>1. \A m \in Keys : Group(S, key, m) \in SUBSET S /\ Group(U, kez, m) \in SUBSET U
    BY DEF Group
  <2> QED
    BY <1>5, <2>1, FS_Subset
<1>10. \A m \in Keys : LET w == N!Failed(Group(S, key, m), Group(U, kez, m)) IN
         /\ w.failures = Sums(Ones, Where(Group(S, key, m), Nat)) /\ w.successes = Sums(Ones, Where(Group(U, kez, m), Nat))
         /\ w.beforeOutput = Sums(Ones, Where(Group(S, key, m), Early))
         /\ w.midStream = Sums(Ones, Where(Group(S, key, m), Late))
         /\ w.retried = Sums(Ones, Where(Group(S, key, m), Again))
  BY <1>9, FailedIs
<1>11. LET w == N!Failed(S, U) IN
         /\ w.failures = Sums(Ones, Where(S, Nat)) /\ w.successes = Sums(Ones, Where(U, Nat))
         /\ w.beforeOutput = Sums(Ones, Where(S, Early)) /\ w.midStream = Sums(Ones, Where(S, Late))
         /\ w.retried = Sums(Ones, Where(S, Again))
  BY <1>5, FailedIs
<1>12. (\A i \in S : Ones[i] \in Int) /\ (\A i \in U : Ones[i] \in Int)
  BY <1>5 DEF Ones
<1>13. ASSUME NEW T, \A m \in Keys : f[m] = Sums(Ones, Where(Group(S, key, m), T))
       PROVE  Sums(f, Keys) = Sums(Ones, Where(S, T))
  <2>1. IsFiniteSet(S) /\ IsFiniteSet(Keys) /\ (\A i \in S : key[i] \in Keys) /\ \A i \in S : Ones[i] \in Int
    BY <1>5, <1>12
  <2>2. \A m \in Keys : f[m] = Sums(Ones, Where(Group(S, key, m), T))
    BY <1>13
  <2> QED
    BY <2>1, <2>2, InGroups
<1>14. ASSUME NEW T, \A m \in Keys : f[m] = Sums(Ones, Where(Group(U, kez, m), T))
       PROVE  Sums(f, Keys) = Sums(Ones, Where(U, T))
  <2>1. IsFiniteSet(U) /\ IsFiniteSet(Keys) /\ (\A i \in U : kez[i] \in Keys) /\ \A i \in U : Ones[i] \in Int
    BY <1>5, <1>12
  <2>2. \A m \in Keys : f[m] = Sums(Ones, Where(Group(U, kez, m), T))
    BY <1>14
  <2> QED
    BY <2>1, <2>2, InGroups
<1>15. Sums(f, Keys) = N!Failed(S, U)[x]
  <2>1. CASE x = "failures"
    <3>1. \A m \in Keys : f[m] = Sums(Ones, Where(Group(S, key, m), Nat))
      BY <1>8, <1>10, <2>1
    <3> QED
      BY <1>11, <1>13, <2>1, <3>1
  <2>2. CASE x = "successes"
    <3>1. \A m \in Keys : f[m] = Sums(Ones, Where(Group(U, kez, m), Nat))
      BY <1>8, <1>10, <2>2
    <3> QED
      BY <1>11, <1>14, <2>2, <3>1
  <2>3. CASE x = "beforeOutput"
    <3>1. \A m \in Keys : f[m] = Sums(Ones, Where(Group(S, key, m), Early))
      BY <1>8, <1>10, <2>3
    <3> QED
      BY <1>11, <1>13, <2>3, <3>1
  <2>4. CASE x = "midStream"
    <3>1. \A m \in Keys : f[m] = Sums(Ones, Where(Group(S, key, m), Late))
      BY <1>8, <1>10, <2>4
    <3> QED
      BY <1>11, <1>13, <2>4, <3>1
  <2>5. CASE x = "retried"
    <3>1. \A m \in Keys : f[m] = Sums(Ones, Where(Group(S, key, m), Again))
      BY <1>8, <1>10, <2>5
    <3> QED
      BY <1>11, <1>13, <2>5, <3>1
  <2> QED
    BY <2>1, <2>2, <2>3, <2>4, <2>5 DEF FaultFields
<1> QED
  BY <1>1, <1>2, <1>8, <1>15

(* The last failure: the fold over the rows, one after the other.          *)
LastOf(F, l, i) == IF i \in F /\ (l = -1 \/ faults[i].at >= l) THEN faults[i].at ELSE l
(* The fold that keeps the latest of the failures in F.                     *)
Last(F, g, s) ==
  g = [T \in SUBSET DOMAIN s |->
         IF T = {} THEN -1 ELSE LastOf(F, g[T \ {MaxOf(T)}], s[MaxOf(T)])]

(* There is such a function.                                                *)
LEMMA LastExists ==
  ASSUME NEW F, NEW n \in Nat, NEW s, DOMAIN s = 1..n
  PROVE  \E g : Last(F, g, s)
<1> DEFINE Body(g, T) ==
             IF T = {} THEN -1 ELSE LastOf(F, g[T \ {MaxOf(T)}], s[MaxOf(T)])
           Fits(g, k) == g = [T \in SUBSET (1..k) |-> Body(g, T)]
           Q == {k \in Nat : k <= n => \E g : Fits(g, k)}
<1>1. 0 \in Q
  <2> DEFINE g == [T \in SUBSET (1..0) |-> -1]
  <2>1. \A T \in SUBSET (1..0) : T = {}
    OBVIOUS
  <2>2. Fits(g, 0)
    BY <2>1
  <2> HIDE DEF g, Fits
  <2> QED
    BY <2>2
<1> HIDE DEF Fits
<1>2. ASSUME NEW k \in Nat, k \in Q PROVE k + 1 \in Q
  <2> SUFFICES ASSUME k + 1 <= n PROVE \E g : Fits(g, k + 1)
    OBVIOUS
  <2>1. PICK g : Fits(g, k)
    BY <1>2
  <2> DEFINE h == [T \in SUBSET (1..k + 1) |-> Body(g, T)]
  <2>2. ASSUME NEW T \in SUBSET (1..k + 1), T # {}
        PROVE  T \ {MaxOf(T)} \in SUBSET (1..k)
    <3>1. MaxOf(T) \in T /\ \A y \in T : y <= MaxOf(T)
      BY <2>2, MaxIn
    <3>2. \A y \in T : y \in Nat /\ y >= 1 /\ y <= k + 1
      BY <1>2, <2>2
    <3>3. ASSUME NEW y \in T \ {MaxOf(T)} PROVE y \in 1..k
      <4>1. y \in Nat /\ y >= 1 /\ y # MaxOf(T) /\ y <= MaxOf(T)
        BY <3>1, <3>2
      <4>2. MaxOf(T) \in Nat /\ MaxOf(T) <= k + 1 /\ k \in Nat
        BY <1>2, <3>1, <3>2
      <4> QED
        BY <4>1, <4>2
    <3> QED
      BY <3>3
  <2>3. SUBSET (1..k) \subseteq SUBSET (1..k + 1)
    OBVIOUS
  <2>4. \A T \in SUBSET (1..k) : h[T] = g[T]
    BY <2>1, <2>3 DEF Fits
  <2>5. \A T \in SUBSET (1..k + 1) : Body(g, T) = Body(h, T)
    <3> HIDE DEF h
    <3> QED
      BY <2>2, <2>4
  <2>6. h = [T \in SUBSET (1..k + 1) |-> Body(h, T)]
    <3>1. h = [T \in SUBSET (1..k + 1) |-> Body(g, T)]
      OBVIOUS
    <3> HIDE DEF h, Body
    <3> QED
      BY <2>5, <3>1
  <2> HIDE DEF h, Body
  <2> QED
    BY <2>6 DEF Fits
<1>3. Nat \subseteq Q
  <2> HIDE DEF Q
  <2> QED
    BY <1>1, <1>2, Inductive
<1>4. PICK g : Fits(g, n)
  BY <1>3
<1> QED
  BY <1>4, Zenon DEF Last, Fits



(* The rows' places.                                                        *)
Places == [i \in DOMAIN faults |-> i]
(* The last failure, by hand: the fold over the rows' places.              *)
LEMMA LastAtIs ==
  ASSUME NEW F
  PROVE  N!LastAt(F) = (CHOOSE g : Last(F, g, Places))[DOMAIN Places]
BY Zenon DEF N!LastAt, N!FoldLeftDomain, N!FoldLeft, N!MapThenFoldSet, N!Max, N!Null, Last, LastOf, MaxOf, Places

(* The last failure of a model is as late as each of its failures.         *)
LEMMA LastIsLast ==
  ASSUME RecordsTyped, NEW F, NEW j \in DOMAIN faults, j \in F
  PROVE  faults[j].at <= N!LastAt(F)
<1>1. PICK s : s = Places
  OBVIOUS
<1>2. PICK n \in Nat : n = Len(faults)
  BY RowsFinite
<1>3. DOMAIN faults = 1..n /\ DOMAIN s = 1..n /\ \A i \in 1..n : s[i] = i /\ faults[i].at \in Nat
  <2>1. DOMAIN faults = 1..n /\ \A i \in DOMAIN faults : faults[i] \in FaultRow
    BY <1>2, RowsFinite
  <2>2. \A r \in FaultRow : r.at \in Nat
    BY DEF FaultRow
  <2> QED
    BY <1>1, <2>1, <2>2 DEF Places
<1>4. PICK g : g = (CHOOSE z : Last(F, z, s))
  OBVIOUS
<1>5. Last(F, g, s)
  BY <1>3, <1>4, LastExists, Zenon
<1>6. g[{}] = -1
  BY <1>3, <1>5 DEF Last
<1>7. ASSUME NEW k \in 1..n PROVE g[1..k] = LastOf(F, g[1..k - 1], k)
  <2>1. 1..k \in SUBSET (1..n) /\ 1..k # {} /\ k \in Nat /\ k # 0
    BY <1>2
  <2>2. g[1..k] = LastOf(F, g[(1..k) \ {MaxOf(1..k)}], s[MaxOf(1..k)])
    BY <1>3, <1>5, <2>1 DEF Last
  <2> QED
    BY <1>3, <2>1, <2>2, MaxUpto
<1> DEFINE Q == {k \in Nat : k <= n => /\ g[1..k] \in Int /\ g[1..k] >= -1
                                       /\ \A i \in 1..k : i \in F => faults[i].at <= g[1..k]}
<1>8. 0 \in Q
  <2>1. 1..0 = {}
    OBVIOUS
  <2> QED
    BY <1>6, <2>1
<1>9. ASSUME NEW k \in Nat, k \in Q PROVE k + 1 \in Q
  <2> SUFFICES ASSUME k + 1 <= n
               PROVE  /\ g[1..k + 1] \in Int /\ g[1..k + 1] >= -1
                      /\ \A i \in 1..k + 1 : i \in F => faults[i].at <= g[1..k + 1]
    OBVIOUS
  <2>1. PICK l : l = g[1..k]
    OBVIOUS
  <2>2. l \in Int /\ l >= -1 /\ \A i \in 1..k : i \in F => faults[i].at <= l
    BY <1>9, <2>1
  <2>3. g[1..k + 1] = LastOf(F, l, k + 1)
    <3>1. k + 1 \in 1..n /\ (k + 1) - 1 = k
      BY <1>9
    <3> QED
      BY <1>7, <2>1, <3>1
  <2>4. faults[k + 1].at \in Nat /\ \A i \in 1..k + 1 : i \in 1..k \/ i = k + 1
    BY <1>3, <1>9
  <2>5. \A i \in 1..k : i \in F => faults[i].at \in Nat
    BY <1>2, <1>3, <1>9
  <2>6. CASE k + 1 \in F /\ (l = -1 \/ faults[k + 1].at >= l)
    <3>1. g[1..k + 1] = faults[k + 1].at
      BY <2>3, <2>6 DEF LastOf
    <3>2. faults[k + 1].at >= l
      BY <2>2, <2>4, <2>6
    <3> QED
      BY <2>2, <2>4, <2>5, <3>1, <3>2
  <2>7. CASE ~(k + 1 \in F /\ (l = -1 \/ faults[k + 1].at >= l))
    <3>1. g[1..k + 1] = l
      BY <2>3, <2>7 DEF LastOf
    <3>2. k + 1 \in F => faults[k + 1].at <= l
      BY <2>2, <2>4, <2>7
    <3> QED
      BY <2>2, <2>4, <3>1, <3>2
  <2> QED
    BY <2>6, <2>7
<1>10. Nat \subseteq Q
  <2> HIDE DEF Q
  <2> QED
    BY <1>8, <1>9, Inductive
<1>11. j \in 1..n /\ n \in Q /\ n <= n
  BY <1>3, <1>10
<1>12. faults[j].at <= g[1..n]
  BY <1>11
<1>13. N!LastAt(F) = g[1..n]
  BY <1>1, <1>3, <1>4, LastAtIs, Zenon
<1> QED
  BY <1>12, <1>13

(* The panels add up: over windows, over groups and over who spent.        *)
LEMMA PanelsSum ==
  ASSUME N!PanelsAssumption, RecordsTyped
  PROVE  N!PanelsAddUp
<1>1. MaxTime \in Nat
  BY DEF N!PanelsAssumption
<1>2. bills \in Seq(BillRow) /\ faults \in Seq(FaultRow)
  BY DEF RecordsTyped
<1>3. (\A r \in BillRow : r.at \in Nat) /\ (\A r \in FaultRow : r.at \in Nat)
  BY <1>1 DEF BillRow, FaultRow
<1> SUFFICES ASSUME NEW cut \in 0..MaxTime
             PROVE  LET f == N!summarizeFailures(N!Null, N!Null) IN
        /\ \A g \in {"model", "day"} :
               LET all == N!summarizeCosts(g, N!Null, N!Null)
                   before == N!summarizeCosts(g, N!Null, cut) after == N!summarizeCosts(g, cut, N!Null) IN
               /\ \A x \in DOMAIN all.totals :
                      /\ all.totals[x] = before.totals[x] + after.totals[x]
                      /\ all.totals[x] = N!SumOf(all.buckets, x)
               /\ all.totals.usd = all.totals.initiator + all.totals.worker
        /\ \A x \in DOMAIN f.totals :
               /\ f.totals[x] = N!summarizeFailures(N!Null, cut).totals[x] + N!summarizeFailures(cut, N!Null).totals[x]
               /\ f.totals[x] = N!SumOf(f.buckets, x)
        /\ f.totals.failures = f.totals.beforeOutput + f.totals.midStream
        /\ \A i \in 1..Len(faults) : faults[i].at <= f.lastAt[faults[i].model]
  BY Zenon DEF N!PanelsAddUp
<1>4. cut \in Nat
  BY <1>1
<1>5. PICK A : A = N!Within(bills, N!Null, cut)
  OBVIOUS
<1>6. PICK B : B = N!Within(bills, cut, N!Null)
  OBVIOUS
<1>7. PICK F : F = N!Within(faults, N!Null, cut)
  OBVIOUS
<1>8. PICK G : G = N!Within(faults, cut, N!Null)
  OBVIOUS
<1>9. N!Within(bills, N!Null, N!Null) = DOMAIN bills /\ DOMAIN bills = A \cup B /\ A \cap B = {}
  BY <1>2, <1>3, <1>4, <1>5, <1>6, Windows
<1>10. N!Within(faults, N!Null, N!Null) = DOMAIN faults /\ DOMAIN faults = F \cup G /\ F \cap G = {}
  BY <1>2, <1>3, <1>4, <1>7, <1>8, Windows
<1>11. PICK a : a = N!Added(DOMAIN bills)
  OBVIOUS
<1>12. PICK f : f = N!summarizeFailures(N!Null, N!Null)
  OBVIOUS
<1>13. \A g : /\ N!summarizeCosts(g, N!Null, N!Null).totals = a
              /\ N!summarizeCosts(g, N!Null, cut).totals = N!Added(A)
              /\ N!summarizeCosts(g, cut, N!Null).totals = N!Added(B)
  BY <1>5, <1>6, <1>9, <1>11 DEF N!summarizeCosts
<1>14. DOMAIN a = CostFields /\ a.usd = a.initiator + a.worker
  <2>1. IsFiniteSet(DOMAIN bills) /\ DOMAIN bills \in SUBSET Nat
    BY RowsFinite
  <2>2. DOMAIN a = CostFields
    BY <1>11, <2>1, AddedIs DEF CostFields
  <2> QED
    BY <1>11, <2>2, HandOrRun
<1>15. \A x \in CostFields : a[x] = N!Added(A)[x] + N!Added(B)[x]
  BY <1>9, <1>11, AddedParts
<1>16. \A g : \A x \in CostFields : a[x] = N!SumOf(N!summarizeCosts(g, N!Null, N!Null).buckets, x)
  BY <1>11, AddedGroups
<1>17. f.totals = N!Failed(DOMAIN faults, DOMAIN bills) /\ DOMAIN f.totals = FaultFields
  <2>1. f.totals = N!Failed(DOMAIN faults, DOMAIN bills)
    BY <1>12, AllFailures
  <2>2. /\ IsFiniteSet(DOMAIN bills) /\ DOMAIN bills \in SUBSET Nat
        /\ IsFiniteSet(DOMAIN faults) /\ DOMAIN faults \in SUBSET Nat
    BY RowsFinite
  <2> QED
    BY <2>1, <2>2, FailedIs DEF FaultFields
<1>18. N!summarizeFailures(N!Null, cut).totals = N!Failed(F, A) /\ N!summarizeFailures(cut, N!Null).totals = N!Failed(G, B)
  BY <1>5, <1>6, <1>7, <1>8 DEF N!summarizeFailures
<1>19. ASSUME NEW x \in FaultFields PROVE f.totals[x] = N!Failed(F, A)[x] + N!Failed(G, B)[x]
  <2>1. Parts(DOMAIN faults, F, G)
    BY <1>10, Zenon DEF Parts
  <2>2. Parts(DOMAIN bills, A, B)
    BY <1>9, Zenon DEF Parts
  <2>3. N!Failed(DOMAIN faults, DOMAIN bills)[x] = N!Failed(F, A)[x] + N!Failed(G, B)[x]
    BY <2>1, <2>2, FailedParts
  <2> QED
    BY <1>17, <2>3, Zenon
<1>20. \A x \in FaultFields : f.totals[x] = N!SumOf(f.buckets, x)
  BY <1>12, <1>17, FailedGroups
<1>21. f.totals.failures = f.totals.beforeOutput + f.totals.midStream
  BY <1>17, EarlyOrLate
<1>22. \A i \in 1..Len(faults) : faults[i].at <= f.lastAt[faults[i].model]
  <2> SUFFICES ASSUME NEW i \in 1..Len(faults) PROVE faults[i].at <= f.lastAt[faults[i].model]
    OBVIOUS
  <2>1. PICK m : m = faults[i].model
    OBVIOUS
  <2>2. i \in DOMAIN faults
    BY RowsFinite
  <2>3. m \in Keys /\ i \in Group(DOMAIN faults, ModelOf(faults), m)
    BY <2>1, <2>2 DEF Keys, Group, ModelOf
  <2>4. f.lastAt[m] = N!LastAt(Group(DOMAIN faults, ModelOf(faults), m))
    BY <1>12, <2>3, AllFailures
  <2> QED
    BY <2>1, <2>2, <2>3, <2>4, LastIsLast
<1>23. ASSUME NEW g \in {"model", "day"}
       PROVE  LET all == N!summarizeCosts(g, N!Null, N!Null)
                  before == N!summarizeCosts(g, N!Null, cut) after == N!summarizeCosts(g, cut, N!Null) IN
              /\ \A x \in DOMAIN all.totals :
                     /\ all.totals[x] = before.totals[x] + after.totals[x]
                     /\ all.totals[x] = N!SumOf(all.buckets, x)
              /\ all.totals.usd = all.totals.initiator + all.totals.worker
  BY <1>13, <1>14, <1>15, <1>16, Zenon
<1>24. \A x \in DOMAIN f.totals :
          /\ f.totals[x] = N!summarizeFailures(N!Null, cut).totals[x] + N!summarizeFailures(cut, N!Null).totals[x]
          /\ f.totals[x] = N!SumOf(f.buckets, x)
  BY <1>17, <1>18, <1>19, <1>20, Zenon
<1> QED
  BY <1>12, <1>21, <1>22, <1>23, <1>24, Zenon


(* Of S, what is after s; and before b.                                    *)
Above(S, s) == {t \in S : t > s}
Below(S, b) == {s \in S : s < b}
(* E is the top of S.                                                      *)
TopOf(S, E) == E \in SUBSET S /\ \A s \in S : \A t \in E : s >= t => s \in E

(* A stretch of numbers is finite, and so is a part of one.                *)
LEMMA PartFinite ==
  ASSUME NEW n \in Nat, NEW S \in SUBSET (1..n), NEW T \in SUBSET S
  PROVE  IsFiniteSet(T) /\ Cardinality(T) \in Nat /\ Cardinality(T) <= Cardinality(S) /\ Cardinality(S) \in Nat
<1>1. IsFiniteSet(1..n)
  BY UptoFinite, Zenon
<1>2. IsFiniteSet(S)
  BY <1>1, FS_Subset
<1>3. IsFiniteSet(T) /\ Cardinality(T) <= Cardinality(S)
  BY <1>2, FS_Subset
<1> QED
  BY <1>2, <1>3, FS_CardinalityType

(* The newest of a set, by what is after each.                             *)
LEMMA NewestIs ==
  ASSUME NEW S, NEW k
  PROVE  N!Newest(S, k) = {s \in S : Cardinality(Above(S, s)) < k}
<1>1. \A T : N!Cardinality(T) = Cardinality(T)
  BY Counted
<1> QED
  BY <1>1 DEF N!Newest, Above

(* The newest of a set are its top.                                        *)
LEMMA NewestTop ==
  ASSUME NEW n \in Nat, NEW S \in SUBSET (1..n), NEW k \in Nat
  PROVE  TopOf(S, N!Newest(S, k))
<1> PICK E : E = {s \in S : Cardinality(Above(S, s)) < k}
  OBVIOUS
<1>1. ASSUME NEW s \in S, NEW t \in E, s >= t PROVE s \in E
  <2>1. Above(S, s) \in SUBSET Above(S, t) /\ Above(S, t) \in SUBSET S
    <3>1. s \in Nat /\ t \in Nat /\ \A y \in S : y \in Nat
      <4>1. t \in S
        OBVIOUS
      <4> QED
        BY <4>1
    <3>2. \A y \in S : y > s => y > t
      BY <1>1, <3>1
    <3> QED
      BY <3>2 DEF Above
  <2>2. Above(S, t) \in SUBSET (1..n)
    BY <2>1
  <2>3. /\ Cardinality(Above(S, s)) <= Cardinality(Above(S, t))
        /\ Cardinality(Above(S, s)) \in Nat /\ Cardinality(Above(S, t)) \in Nat
    BY <2>1, <2>2, PartFinite
  <2>4. Cardinality(Above(S, t)) < k
    OBVIOUS
  <2> QED
    BY <2>3, <2>4
<1>2. TopOf(S, E)
  BY <1>1 DEF TopOf
<1> QED
  BY <1>2, NewestIs

(* The newest k of the newest k + 1 are the newest k.                      *)
LEMMA NewestNewest ==
  ASSUME NEW n \in Nat, NEW S \in SUBSET (1..n), NEW k \in Nat
  PROVE  N!Newest(N!Newest(S, k + 1), k) = N!Newest(S, k)
<1> PICK A : A = N!Newest(S, k + 1)
  OBVIOUS
<1>1. TopOf(S, A)
  BY k + 1 \in Nat, NewestTop
<1>2. \A s \in A : Above(A, s) = Above(S, s)
  <2>1. \A y \in S : y \in Nat
    OBVIOUS
  <2>2. A \in SUBSET S /\ \A s \in A : \A t \in S : t > s => t \in A
    BY <1>1, <2>1 DEF TopOf
  <2> QED
    BY <2>2 DEF Above
<1>3. \A s \in S : Cardinality(Above(S, s)) \in Nat
  <2>1. \A s \in S : Above(S, s) \in SUBSET S
    BY DEF Above
  <2> QED
    BY <2>1, PartFinite
<1>4. A = {s \in S : Cardinality(Above(S, s)) < k + 1}
  BY NewestIs
<1>5. N!Newest(A, k) = {s \in A : Cardinality(Above(S, s)) < k}
  BY <1>2, NewestIs
<1>6. N!Newest(S, k) = {s \in S : Cardinality(Above(S, s)) < k}
  BY NewestIs
<1>7. \A s \in S : Cardinality(Above(S, s)) < k => Cardinality(Above(S, s)) < k + 1
  BY <1>3
<1> QED
  BY <1>4, <1>5, <1>6, <1>7

(* The least of a set.                                                     *)
LEMMA LowIs ==
  ASSUME NEW n \in Nat, NEW S \in SUBSET (1..n), S # {}
  PROVE  N!Low(S) \in S /\ \A t \in S : N!Low(S) <= t
<1>1. S \subseteq Nat
  OBVIOUS
<1>2. \E s \in S : \A t \in S : s <= t
  BY <1>1, Least
<1> QED
  BY <1>2 DEF N!Low

(* The newest k are at most k, and one of them if there is one at all.     *)
LEMMA NewestFew ==
  ASSUME NEW n \in Nat, NEW S \in SUBSET (1..n), NEW k \in Nat \ {0}
  PROVE  /\ Cardinality(N!Newest(S, k)) <= k /\ Cardinality(N!Newest(S, k)) \in Nat
         /\ N!Newest(S, k) = {} => S = {}
<1> PICK E : E = N!Newest(S, k)
  OBVIOUS
<1>1. E = {s \in S : Cardinality(Above(S, s)) < k} /\ TopOf(S, E)
  BY NewestIs, NewestTop
<1>2. E \in SUBSET S /\ E \in SUBSET (1..n)
  BY <1>1
<1>3. IsFiniteSet(E) /\ Cardinality(E) \in Nat
  BY <1>2, PartFinite
<1>4. Cardinality(E) <= k
  <2>1. CASE E = {}
    BY <2>1, FS_EmptySet
  <2>2. CASE E # {}
    <3>1. PICK l : l = N!Low(E)
      OBVIOUS
    <3>2. l \in E /\ \A t \in E : l <= t
      BY <1>2, <2>2, <3>1, LowIs
    <3>3. E \ {l} \in SUBSET Above(S, l) /\ Above(S, l) \in SUBSET S
      BY <1>2, <3>2 DEF Above
    <3>4. Above(S, l) \in SUBSET (1..n)
      BY <3>3
    <3>5. Cardinality(E \ {l}) <= Cardinality(Above(S, l)) /\ Cardinality(Above(S, l)) \in Nat
          /\ Cardinality(E \ {l}) \in Nat
      BY <3>3, <3>4, PartFinite
    <3>6. Cardinality(E \ {l}) = Cardinality(E) - 1
      BY <1>3, <3>2, FS_RemoveElement
    <3>7. Cardinality(Above(S, l)) < k
      BY <1>1, <3>2
    <3> QED
      BY <1>3, <3>5, <3>6, <3>7
  <2> QED
    BY <2>1, <2>2
<1>5. ASSUME S # {} PROVE E # {}
  <2>1. MaxOf(S) \in S /\ \A y \in S : y <= MaxOf(S)
    BY <1>5, MaxIn
  <2>2. Above(S, MaxOf(S)) = {}
    <3>1. MaxOf(S) \in Nat /\ \A y \in S : y \in Nat
      <4>1. \A y \in S : y \in Nat
        OBVIOUS
      <4> QED
        BY <2>1, <4>1
    <3>2. \A y \in S : ~(y > MaxOf(S))
      BY <2>1, <3>1
    <3> QED
      BY <3>2 DEF Above
  <2>3. Cardinality(Above(S, MaxOf(S))) < k
    BY <2>2, FS_EmptySet
  <2> QED
    BY <1>1, <2>1, <2>3
<1> QED
  BY <1>3, <1>4, <1>5

(* There is more than the newest k just when the newest k + 1 are more     *)
(* than k.                                                                 *)
LEMMA NewestMore ==
  ASSUME NEW n \in Nat, NEW S \in SUBSET (1..n), NEW k \in Nat \ {0}
  PROVE  Cardinality(N!Newest(S, k + 1)) > k <=> N!Newest(S, k) # S
<1> PICK E : E = N!Newest(S, k)
  OBVIOUS
<1> PICK A : A = N!Newest(S, k + 1)
  OBVIOUS
<1>1. /\ E = {s \in S : Cardinality(Above(S, s)) < k} /\ TopOf(S, E)
      /\ A = {s \in S : Cardinality(Above(S, s)) < k + 1} /\ TopOf(S, A)
  <2>1. k \in Nat /\ k + 1 \in Nat
    OBVIOUS
  <2>2. E = {s \in S : Cardinality(Above(S, s)) < k} /\ A = {s \in S : Cardinality(Above(S, s)) < k + 1}
    BY NewestIs
  <2> QED
    BY <2>1, <2>2, NewestTop
<1>2. \A s \in S : Above(S, s) \in SUBSET S /\ Cardinality(Above(S, s)) \in Nat
  <2>1. \A s \in S : Above(S, s) \in SUBSET S
    BY DEF Above
  <2> QED
    BY <2>1, PartFinite
<1>3. E \in SUBSET A /\ A \in SUBSET S /\ E \in SUBSET S /\ E \in SUBSET (1..n) /\ A \in SUBSET (1..n)
  <2>1. \A s \in S : Cardinality(Above(S, s)) < k => Cardinality(Above(S, s)) < k + 1
    BY <1>2
  <2>2. E \in SUBSET A /\ A \in SUBSET S
    BY <1>1, <2>1
  <2> QED
    BY <2>2
<1>4. Cardinality(E) <= k /\ Cardinality(E) \in Nat
  BY NewestFew
<1>5. ASSUME E = S PROVE ~(Cardinality(A) > k)
  <2>1. A = E
    BY <1>3, <1>5
  <2> QED
    BY <1>4, <2>1
<1>6. ASSUME E # S PROVE Cardinality(A) > k
  <2>1. PICK U : U = S \ E
    OBVIOUS
  <2>2. U \in SUBSET (1..n) /\ U # {}
    BY <1>3, <1>6, <2>1
  <2>3. PICK m : m = MaxOf(U)
    OBVIOUS
  <2>4. m \in U /\ \A y \in U : y <= m
    BY <2>2, <2>3, MaxIn
  <2>5. m \in S /\ Above(S, m) \in SUBSET E
    <3>1. \A y \in S : y \in Nat
      OBVIOUS
    <3>2. m \in S /\ \A y \in S : y > m => y \in E
      BY <2>1, <2>4, <3>1
    <3> QED
      BY <3>2 DEF Above
  <2>6. Cardinality(Above(S, m)) <= Cardinality(E)
    BY <1>3, <2>5, PartFinite
  <2>7. Cardinality(Above(S, m)) >= k /\ Cardinality(Above(S, m)) \in Nat
    BY <1>1, <1>2, <2>1, <2>4, <2>5
  <2>8. Cardinality(Above(S, m)) < k + 1
    BY <1>4, <2>6, <2>7
  <2>9. m \in A /\ Above(S, m) \cup {m} \in SUBSET A
    BY <1>1, <1>3, <2>5, <2>8
  <2>10. m \notin Above(S, m) /\ IsFiniteSet(Above(S, m))
    <3>1. m \notin Above(S, m)
      BY <2>5 DEF Above
    <3>2. Above(S, m) \in SUBSET E
      BY <2>5
    <3> QED
      BY <1>3, <3>1, <3>2, PartFinite
  <2>11. Cardinality(Above(S, m) \cup {m}) = Cardinality(Above(S, m)) + 1
    BY <2>10, FS_AddElement
  <2>12. Cardinality(Above(S, m) \cup {m}) <= Cardinality(A) /\ Cardinality(A) \in Nat
    BY <1>3, <2>9, PartFinite
  <2> QED
    BY <2>7, <2>11, <2>12
<1> QED
  BY <1>5, <1>6


(* The events that match a filter, in a log.                               *)
Found(h, f) == {s \in 1..Len(h) : f = "all" \/ h[s]}
(* A stretch E of what is found, older ones offered (o) just when there    *)
(* are some.                                                               *)
Stretch(M, E, o) ==
  /\ E \in SUBSET M /\ o \in BOOLEAN
  /\ E # {} => /\ \A s \in M : (\E t \in E : s >= t) /\ (\E t \in E : s <= t) => s \in E
               /\ o = (Below(M, N!Low(E)) # {})
(* The stretch right before b.                                             *)
Before(M, b, E, o) ==
  /\ TopOf(Below(M, b), E) /\ o \in BOOLEAN
  /\ E = {} => Below(M, b) = {} /\ ~o
  /\ E # {} => o = (Below(M, N!Low(E)) # {})

(* What matches before b is what is found below b.                          *)
LEMMA MatchingIs == ASSUME NEW b PROVE N!Matching(b) = Below(Found(history, filter), b)
BY DEF N!Matching, Below, Found

(* A page is the top of what is asked for, and says whether there is more. *)
LEMMA PageIs ==
  ASSUME N!PanelsAssumption, NEW n \in Nat, NEW b, N!Matching(b) \in SUBSET (1..n)
  PROVE  /\ TopOf(N!Matching(b), N!latestEvents(b).events)
         /\ N!latestEvents(b).events = {} => N!Matching(b) = {}
         /\ N!latestEvents(b).hasMore \in BOOLEAN
         /\ N!latestEvents(b).hasMore <=> N!latestEvents(b).events # N!Matching(b)
<1>1. Limit \in Nat \ {0} /\ Limit \in Nat
  BY DEF N!PanelsAssumption
<1>2. PICK S : S = N!Matching(b)
  OBVIOUS
<1>3. PICK A : A = N!Newest(S, Limit + 1)
  OBVIOUS
<1>4. N!latestEvents(b) = [events |-> N!Newest(A, Limit), hasMore |-> N!Cardinality(A) > Limit]
  BY <1>2, <1>3, Zenon DEF N!latestEvents
<1>5. S \in SUBSET (1..n)
  BY <1>2
<1>6. N!Newest(A, Limit) = N!Newest(S, Limit)
  BY <1>1, <1>3, <1>5, NewestNewest
<1>7. TopOf(S, N!Newest(S, Limit)) /\ (N!Newest(S, Limit) = {} => S = {})
  BY <1>1, <1>5, NewestTop, NewestFew
<1>8. Cardinality(A) > Limit <=> N!Newest(S, Limit) # S
  BY <1>1, <1>3, <1>5, NewestMore
<1>9. N!Cardinality(A) = Cardinality(A)
  BY Counted
<1>10. PICK o : o = (N!Cardinality(A) > Limit)
  OBVIOUS
<1>11. o \in BOOLEAN /\ (o <=> N!Newest(S, Limit) # S)
  <2>1. (N!Cardinality(A) > Limit) = (Cardinality(A) > Limit)
    BY <1>9
  <2>2. CASE Cardinality(A) > Limit
    BY <1>8, <1>10, <2>1, <2>2
  <2>3. CASE ~(Cardinality(A) > Limit)
    <3>1. (N!Cardinality(A) > Limit) = FALSE
      BY <2>1, <2>3
    <3>2. o = FALSE
      BY <1>10, <3>1, Zenon
    <3>3. ~(N!Newest(S, Limit) # S)
      BY <1>8, <2>3, Zenon
    <3> QED
      BY <3>2, <3>3, Zenon
  <2> QED
    BY <2>2, <2>3
<1>12. N!latestEvents(b).events = N!Newest(S, Limit) /\ N!latestEvents(b).hasMore = o
  BY <1>4, <1>6, <1>10
<1> QED
  BY <1>2, <1>7, <1>11, <1>12

(* The top of what is before b, and what is before the top.                *)
LEMMA TopMore ==
  ASSUME NEW n \in Nat, NEW M \in SUBSET (1..n), NEW b \in Int, NEW E, TopOf(Below(M, b), E), E # {}
  PROVE  E # Below(M, b) <=> Below(M, N!Low(E)) # {}
<1>1. E \in SUBSET M /\ E \in SUBSET (1..n) /\ (\A y \in M : y \in Nat) /\ \A y \in E : y < b
  BY DEF TopOf, Below
<1>2. PICK l : l = N!Low(E)
  OBVIOUS
<1>3. l \in E /\ l \in Nat /\ \A t \in E : l <= t
  BY <1>1, <1>2, LowIs
<1>4. l < b
  BY <1>1, <1>3
<1>5. ASSUME NEW s \in Below(M, b), s \notin E PROVE s \in Below(M, l)
  <2>1. s \in M /\ s \in Nat /\ ~(s >= l)
    BY <1>1, <1>3, <1>5 DEF TopOf, Below
  <2> QED
    BY <1>3, <2>1 DEF Below
<1>6. ASSUME NEW s \in Below(M, l) PROVE s \in Below(M, b) /\ s \notin E
  <2>1. s \in M /\ s \in Nat /\ s < l
    BY <1>1 DEF Below
  <2> QED
    BY <1>3, <1>4, <2>1 DEF Below
<1>7. E \in SUBSET Below(M, b)
  BY DEF TopOf
<1> QED
  BY <1>2, <1>5, <1>6, <1>7

(* The newest page is a stretch.                                           *)
LEMMA PageStretch ==
  ASSUME N!PanelsAssumption, history \in Seq(BOOLEAN)
  PROVE  Stretch(Found(history, filter), N!latestEvents(Len(history) + 1).events, N!latestEvents(Len(history) + 1).hasMore)
<1>1. PICK M : M = Found(history, filter)
  OBVIOUS
<1>2. PICK n \in Nat : n = Len(history)
  OBVIOUS
<1>3. M \in SUBSET (1..n) /\ \A y \in M : y \in Nat /\ y < n + 1
  BY <1>1, <1>2 DEF Found
<1>4. Below(M, n + 1) = M /\ N!Matching(n + 1) = M
  BY <1>1, <1>3, MatchingIs DEF Below
<1>5. PICK E : E = N!latestEvents(n + 1).events
  OBVIOUS
<1>6. PICK o : o = N!latestEvents(n + 1).hasMore
  OBVIOUS
<1>7. TopOf(M, E) /\ (E = {} => M = {}) /\ o \in BOOLEAN /\ (o <=> E # M)
  BY <1>3, <1>4, <1>5, <1>6, PageIs
<1>8. ASSUME E # {} PROVE o = (Below(M, N!Low(E)) # {})
  <2>1. PICK c \in Int : c = n + 1
    OBVIOUS
  <2>2. TopOf(Below(M, c), E)
    BY <1>4, <1>7, <2>1
  <2>3. E # Below(M, c) <=> Below(M, N!Low(E)) # {}
    BY <1>3, <1>8, <2>2, TopMore
  <2> QED
    BY <1>4, <1>7, <2>1, <2>3
<1>9. Stretch(M, E, o)
  BY <1>7, <1>8 DEF TopOf, Stretch
<1> QED
  BY <1>1, <1>2, <1>5, <1>6, <1>9

(* An older page is the stretch right before what it was asked before.      *)
LEMMA PageBefore ==
  ASSUME N!PanelsAssumption, history \in Seq(BOOLEAN), NEW b \in 1..Len(history)
  PROVE  Before(Found(history, filter), b, N!latestEvents(b).events, N!latestEvents(b).hasMore)
<1>1. PICK M : M = Found(history, filter)
  OBVIOUS
<1>2. PICK n \in Nat : n = Len(history)
  OBVIOUS
<1>3. M \in SUBSET (1..n) /\ b \in Int
  BY <1>1, <1>2 DEF Found
<1>4. N!Matching(b) = Below(M, b) /\ N!Matching(b) \in SUBSET (1..n)
  BY <1>1, <1>3, MatchingIs DEF Below
<1>5. PICK E : E = N!latestEvents(b).events
  OBVIOUS
<1>6. PICK o : o = N!latestEvents(b).hasMore
  OBVIOUS
<1>7. TopOf(Below(M, b), E) /\ (E = {} => Below(M, b) = {}) /\ o \in BOOLEAN /\ (o <=> E # Below(M, b))
  BY <1>4, <1>5, <1>6, PageIs
<1>8. ASSUME E # {} PROVE o = (Below(M, N!Low(E)) # {})
  <2>1. E # Below(M, b) <=> Below(M, N!Low(E)) # {}
    BY <1>3, <1>7, <1>8, TopMore
  <2> QED
    BY <1>7, <2>1
<1>9. Before(M, b, E, o)
  BY <1>7, <1>8 DEF Before
<1> QED
  BY <1>1, <1>5, <1>6, <1>9

(* The rows with the stretch before them are a stretch.                    *)
LEMMA TwoStretches ==
  ASSUME NEW n \in Nat, NEW M \in SUBSET (1..n), NEW E, NEW o, NEW w, rows # {},
         Stretch(M, rows, w), Before(M, N!Low(rows), E, o)
  PROVE  Stretch(M, rows \cup E, o)
<1>1. rows # {} /\ rows \in SUBSET M /\ rows \in SUBSET (1..n) /\ \A y \in M : y \in Nat
  BY DEF Stretch
<1>2. PICK b : b = N!Low(rows)
  OBVIOUS
<1>3. b \in rows /\ b \in Nat /\ \A t \in rows : b <= t
  BY <1>1, <1>2, LowIs
<1>4. TopOf(Below(M, b), E) /\ o \in BOOLEAN /\ (E = {} => Below(M, b) = {} /\ ~o) /\ (E # {} => o = (Below(M, N!Low(E)) # {}))
  BY <1>2 DEF Before
<1>5. E \in SUBSET M /\ E \in SUBSET (1..n) /\ \A y \in E : y < b /\ y \in Nat
  BY <1>1, <1>4 DEF TopOf, Below
<1>6. PICK K : K = rows \cup E
  OBVIOUS
<1>7. K \in SUBSET M /\ K \in SUBSET (1..n) /\ K # {} /\ rows \in SUBSET K /\ E \in SUBSET K
  BY <1>1, <1>5, <1>6
<1>8. ASSUME NEW s \in M, NEW t \in K, NEW u \in K, s >= t, s <= u PROVE s \in K
  <2>1. s \in Nat /\ t \in Nat /\ u \in Nat
    BY <1>1, <1>7
  <2>2. CASE s >= b
    <3>1. u \in rows
      BY <1>3, <1>5, <1>6, <1>8, <2>1, <2>2
    <3>2. s \in rows
      BY <1>3, <1>8, <2>2, <3>1 DEF Stretch
    <3> QED
      BY <1>7, <3>2
  <2>3. CASE ~(s >= b)
    <3>1. t \in E /\ s \in Below(M, b)
      BY <1>3, <1>6, <1>8, <2>1, <2>3 DEF Below
    <3>2. s \in E
      BY <1>4, <1>8, <3>1 DEF TopOf
    <3> QED
      BY <1>7, <3>2
  <2> QED
    BY <2>2, <2>3
<1>9. o = (Below(M, N!Low(K)) # {})
  <2>1. PICK l : l = N!Low(K)
    OBVIOUS
  <2>2. l \in K /\ l \in Nat /\ \A t \in K : l <= t
    BY <1>1, <1>7, <2>1, LowIs
  <2>3. CASE E = {}
    <3>1. K = rows /\ Below(M, b) = {} /\ o = FALSE
      BY <1>4, <1>6, <2>3
    <3> QED
      BY <1>2, <3>1
  <2>4. CASE E # {}
    <3>1. PICK e : e = N!Low(E)
      OBVIOUS
    <3>2. e \in E /\ e \in Nat /\ \A t \in E : e <= t
      BY <1>1, <1>5, <2>4, <3>1, LowIs
    <3>3. e <= l
      BY <1>3, <1>5, <1>6, <2>2, <3>2
    <3>4. l <= e
      BY <1>7, <2>2, <3>2
    <3> QED
      BY <1>4, <2>1, <2>2, <2>4, <3>1, <3>2, <3>3, <3>4
  <2> QED
    BY <2>3, <2>4
<1> QED
  BY <1>4, <1>6, <1>7, <1>8, <1>9 DEF Stretch

(* So are the rows with a stretch that begins where they do.               *)
LEMMA SameFoot ==
  ASSUME NEW n \in Nat, NEW M \in SUBSET (1..n), NEW E, NEW o, NEW w, NEW b \in Nat, rows # {},
         Stretch(M, rows, w), Before(M, b, E, o), N!Low(rows) \in E, \A s \in E : N!Low(rows) <= s
  PROVE  Stretch(M, rows \cup E, o)
<1>1. rows \in SUBSET M /\ rows \in SUBSET (1..n) /\ \A y \in M : y \in Nat
  BY DEF Stretch
<1>2. PICK l : l = N!Low(rows)
  OBVIOUS
<1>3. l \in rows /\ l \in Nat /\ (\A t \in rows : l <= t) /\ l \in E /\ \A t \in E : l <= t
  BY <1>1, <1>2, LowIs
<1>4. TopOf(Below(M, b), E) /\ o \in BOOLEAN /\ o = (Below(M, N!Low(E)) # {})
  BY <1>3 DEF Before
<1>5. E \in SUBSET M /\ E \in SUBSET (1..n) /\ \A y \in E : y < b /\ y \in Nat
  BY <1>1, <1>4 DEF TopOf, Below
<1>6. PICK K : K = rows \cup E
  OBVIOUS
<1>7. K \in SUBSET M /\ K \in SUBSET (1..n) /\ K # {} /\ rows \in SUBSET K /\ E \in SUBSET K
      /\ l \in K /\ \A t \in K : l <= t
  BY <1>1, <1>3, <1>5, <1>6
<1>8. ASSUME NEW s \in M, NEW t \in K, NEW u \in K, s >= t, s <= u PROVE s \in K
  <2>1. s \in Nat /\ t \in Nat /\ u \in Nat /\ l <= t /\ s >= l
    BY <1>1, <1>3, <1>7, <1>8
  <2>2. CASE u \in rows
    <3>1. s \in rows
      BY <1>3, <1>8, <2>1, <2>2 DEF Stretch
    <3> QED
      BY <1>7, <3>1
  <2>3. CASE u \in E
    <3>1. s < b
      BY <1>5, <1>8, <2>1, <2>3
    <3>2. s \in Below(M, b)
      BY <3>1 DEF Below
    <3>3. s \in E
      BY <1>3, <1>4, <2>1, <3>2 DEF TopOf
    <3> QED
      BY <1>7, <3>3
  <2> QED
    BY <1>6, <2>2, <2>3
<1>9. N!Low(K) = l /\ N!Low(E) = l
  <2>1. N!Low(K) \in K /\ \A t \in K : N!Low(K) <= t
    BY <1>7, LowIs
  <2>2. N!Low(E) \in E /\ \A t \in E : N!Low(E) <= t
    BY <1>3, <1>5, LowIs
  <2>3. N!Low(K) \in Nat /\ N!Low(E) \in Nat
    BY <1>1, <1>5, <1>7, <2>1, <2>2
  <2>4. N!Low(K) <= l /\ l <= N!Low(K) /\ N!Low(E) <= l /\ l <= N!Low(E)
    BY <1>3, <1>7, <2>1, <2>2
  <2> QED
    BY <1>3, <2>3, <2>4
<1>10. o = (Below(M, N!Low(K)) # {})
  BY <1>4, <1>9
<1> QED
  BY <1>4, <1>6, <1>7, <1>8, <1>10 DEF Stretch


(***************************************************************************)
(* The panels' invariant, and its steps.                                   *)
(***************************************************************************)
(* An answer with an older page, and that it is what the log h has there.   *)
Answers == [filter : {"all", "some"}, before : Nat, page : [events : SUBSET Nat, hasMore : BOOLEAN]]
Right(h, a) ==
  /\ a.before \in 1..Len(h) /\ a.page.events \in SUBSET (1..Len(h)) /\ a.page.hasMore \in BOOLEAN
  /\ Before(Found(h, a.filter), a.before, a.page.events, a.page.hasMore)
RightOnes(h, b) == b \in Seq(Answers) /\ Len(b) <= MaxOlder /\ \A i \in 1..Len(b) : Right(h, b[i])

TableInv ==
  /\ history \in Seq(BOOLEAN) /\ Len(history) <= MaxLog /\ filter \in {"all", "some"}
  /\ rows \in SUBSET (1..Len(history)) /\ {more, pagedBack, raced} \subseteq BOOLEAN
  /\ tail # N!None => Stretch(Found(history, filter), tail[1].events, tail[1].hasMore)
  /\ RightOnes(history, back)
  /\ ~raced => Stretch(Found(history, filter), rows, more)
PanelsInv == RecordsTyped /\ TableInv

(* What the invariant says of the table is what it promises.               *)
LEMMA TableHasNoHoles ==
  ASSUME TableInv
  PROVE  N!NoHolesUnlessRaced
<1> SUFFICES ASSUME ~raced PROVE N!NoHoles
  BY DEF N!NoHolesUnlessRaced
<1>1. Stretch(Found(history, filter), rows, more) /\ history \in Seq(BOOLEAN)
  BY DEF TableInv
<1>2. PICK M : M = Found(history, filter)
  OBVIOUS
<1>3. N!Matching(Len(history) + 1) = M
  BY <1>1, <1>2, MatchingIs DEF Below, Found
<1>4. N!Matching(N!Low(rows)) = Below(M, N!Low(rows))
  BY <1>2, MatchingIs
<1> QED
  BY <1>1, <1>2, <1>3, <1>4 DEF N!NoHoles, Stretch

(* An invariant of panels that are right.                                  *)
LEMMA PanelsTell ==
  ASSUME N!PanelsAssumption, PanelsInv
  PROVE  N!TypeOK /\ N!PanelsAddUp /\ N!NoHolesUnlessRaced
<1>1. RecordsTyped /\ TableInv
  BY DEF PanelsInv
<1>2. history \in Seq(BOOLEAN) /\ Found(history, filter) \in SUBSET (1..Len(history))
  BY <1>1 DEF TableInv, Found
<1>3. tail = N!None \/ tail[1].events \subseteq 1..Len(history)
  BY <1>1, <1>2 DEF TableInv, Stretch
<1>4. Len(back) <= MaxOlder /\ \A i \in DOMAIN back : back[i].page.events \subseteq 1..Len(history)
  <2>1. RightOnes(history, back)
    BY <1>1, Zenon DEF TableInv
  <2> QED
    BY <2>1 DEF RightOnes, Right
<1>5. N!TypeOK
  BY <1>1, <1>3, <1>4 DEF TableInv, RecordsTyped, N!TypeOK
<1> QED
  BY <1>1, <1>5, PanelsSum, TableHasNoHoles

(* Panels without records or events are right.                              *)
LEMMA PanelsStart ==
  ASSUME N!PanelsAssumption, N!Init
  PROVE  PanelsInv
<1>1. MaxRecords \in Nat /\ MaxLog \in Nat /\ MaxOlder \in Nat
  BY DEF N!PanelsAssumption
<1>2. bills = <<>> /\ faults = <<>> /\ history = <<>> /\ rows = {} /\ more = FALSE
      /\ pagedBack = FALSE /\ tail = N!None /\ back = <<>> /\ raced = FALSE /\ filter = "all"
  BY DEF N!Init
<1>3. RecordsTyped
  BY <1>1, <1>2 DEF RecordsTyped
<1>4. Stretch(Found(history, filter), rows, more)
  BY <1>2 DEF Stretch
<1>5. TableInv
  <2>1. history \in Seq(BOOLEAN) /\ Len(history) <= MaxLog
    BY <1>1, <1>2
  <2>2. rows \in SUBSET (1..Len(history)) /\ {more, pagedBack, raced} \subseteq BOOLEAN
        /\ filter \in {"all", "some"} /\ tail = N!None
    BY <1>2
  <2>3. RightOnes(history, back)
    BY <1>1, <1>2 DEF RightOnes
  <2> QED
    BY <1>4, <2>1, <2>2, <2>3, Zenon DEF TableInv
<1> QED
  BY <1>3, <1>5 DEF PanelsInv

(* The records' invariant is kept by a record more.                        *)
LEMMA RecordsStay ==
  ASSUME N!PanelsAssumption, RecordsTyped, N!Next
  PROVE  RecordsTyped'
<1>1. bills \in Seq(BillRow) /\ faults \in Seq(FaultRow) /\ Len(bills) + Len(faults) <= MaxRecords
      /\ MaxRecords \in Nat /\ Len(bills) \in Nat /\ Len(faults) \in Nat
  <2>1. bills \in Seq(BillRow) /\ faults \in Seq(FaultRow) /\ Len(bills) + Len(faults) <= MaxRecords
    BY DEF RecordsTyped
  <2> QED
    BY <2>1 DEF N!PanelsAssumption
<1>2. ASSUME UNCHANGED <<bills, faults>> PROVE RecordsTyped'
  BY <1>1, <1>2 DEF RecordsTyped, BillRow, FaultRow
<1>3. ASSUME NEW m \in Models, NEW t \in 0..MaxTime, NEW b \in BOOLEAN, N!RecordCost(m, t, b)
      PROVE  RecordsTyped'
  <2>1. PICK r : r = [model |-> m, at |-> t, run |-> b, usd |-> Len(bills) + 1]
    OBVIOUS
  <2>2. r \in BillRow
    BY <1>1, <2>1 DEF BillRow
  <2>3. bills' = Append(bills, r) /\ faults' = faults /\ Len(bills) + Len(faults) < MaxRecords
    BY <1>3, <2>1 DEF N!RecordCost, N!Room
  <2>4. bills' \in Seq(BillRow) /\ Len(bills') = Len(bills) + 1
    BY <1>1, <2>2, <2>3
  <2>5. bills' \in Seq(BillRow) /\ faults' \in Seq(FaultRow) /\ Len(bills') + Len(faults') <= MaxRecords
    BY <1>1, <2>3, <2>4
  <2> QED
    BY <2>5 DEF RecordsTyped, BillRow, FaultRow
<1>4. ASSUME NEW m \in Models, NEW t \in 0..MaxTime, NEW b \in BOOLEAN,
             NEW phase \in {"before_output", "mid_stream"}, N!RecordFailure(m, t, phase, b)
      PROVE  RecordsTyped'
  <2>1. PICK r : r = [model |-> m, at |-> t, phase |-> phase, retried |-> b]
    OBVIOUS
  <2>2. r \in FaultRow
    BY <2>1 DEF FaultRow
  <2>3. faults' = Append(faults, r) /\ bills' = bills /\ Len(bills) + Len(faults) < MaxRecords
    BY <1>4, <2>1 DEF N!RecordFailure, N!Room
  <2>4. faults' \in Seq(FaultRow) /\ Len(faults') = Len(faults) + 1
    BY <1>1, <2>2, <2>3
  <2>5. bills' \in Seq(BillRow) /\ faults' \in Seq(FaultRow) /\ Len(bills') + Len(faults') <= MaxRecords
    BY <1>1, <2>3, <2>4
  <2> QED
    BY <2>5 DEF RecordsTyped, BillRow, FaultRow
<1>5. CASE \/ N!load \/ N!TailAnswers \/ N!loadOlder \/ N!jumpToLatest \/ N!changeFilter
           \/ \E i \in 1..MaxOlder : N!OlderAnswers(i)
  <2>1. UNCHANGED <<bills, faults>>
    BY <1>5 DEF N!load, N!TailAnswers, N!loadOlder, N!OlderAnswers, N!jumpToLatest, N!changeFilter, N!Restart, N!records
  <2> QED
    BY <1>2, <2>1
<1>6. CASE \E b \in BOOLEAN : N!AppendEvent(b)
  <2>1. UNCHANGED <<bills, faults>>
    BY <1>6 DEF N!AppendEvent, N!records
  <2> QED
    BY <1>2, <2>1
<1> QED
  BY <1>3, <1>4, <1>5, <1>6 DEF N!Next


(* A log with one more event has what was found before, and maybe it.      *)
LEMMA FoundMore ==
  ASSUME NEW h \in Seq(BOOLEAN), NEW b \in BOOLEAN, NEW f
  PROVE  /\ Append(h, b) \in Seq(BOOLEAN) /\ Len(Append(h, b)) = Len(h) + 1 /\ Len(h) \in Nat
         /\ Found(h, f) \in SUBSET (1..Len(h))
         /\ Found(h, f) \in SUBSET Found(Append(h, b), f)
         /\ Found(Append(h, b), f) \in SUBSET (Found(h, f) \cup {Len(h) + 1})
<1>1. /\ Append(h, b) \in Seq(BOOLEAN) /\ Len(Append(h, b)) = Len(h) + 1 /\ Len(h) \in Nat
      /\ \A i \in 1..Len(h) : Append(h, b)[i] = h[i]
  OBVIOUS
<1>2. \A i \in 1..Len(Append(h, b)) : i \in 1..Len(h) \/ i = Len(h) + 1
  BY <1>1
<1>3. 1..Len(h) \in SUBSET (1..Len(Append(h, b)))
  BY <1>1
<1> QED
  BY <1>1, <1>2, <1>3 DEF Found

(* Before an old event nothing new is found.                               *)
LEMMA BelowSame ==
  ASSUME NEW n \in Nat, NEW M \in SUBSET (1..n), NEW U, M \in SUBSET U, U \in SUBSET (M \cup {n + 1}),
         NEW b \in 1..n
  PROVE  Below(U, b) = Below(M, b)
<1>1. ~(n + 1 < b)
  OBVIOUS
<1> QED
  BY <1>1 DEF Below

(* A stretch stays one when the log grows.                                 *)
LEMMA StretchStays ==
  ASSUME NEW n \in Nat, NEW M \in SUBSET (1..n), NEW U, M \in SUBSET U, U \in SUBSET (M \cup {n + 1}),
         NEW E, NEW o, Stretch(M, E, o)
  PROVE  Stretch(U, E, o)
<1>1. E \in SUBSET M /\ o \in BOOLEAN /\ E \in SUBSET (1..n)
  BY DEF Stretch
<1>2. ASSUME E # {}
      PROVE  /\ \A s \in U : (\E t \in E : s >= t) /\ (\E t \in E : s <= t) => s \in E
             /\ o = (Below(U, N!Low(E)) # {})
  <2>1. N!Low(E) \in 1..n
    BY <1>1, <1>2, LowIs
  <2>2. Below(U, N!Low(E)) = Below(M, N!Low(E))
    BY <2>1, BelowSame
  <2>3. ASSUME NEW s \in U, \E t \in E : s >= t, \E t \in E : s <= t PROVE s \in E
    <3>1. s \in M \/ s = n + 1
      OBVIOUS
    <3>2. \A t \in E : t \in Nat /\ t <= n
      BY <1>1
    <3>3. s # n + 1
      BY <2>3, <3>2
    <3> QED
      BY <1>2, <2>3, <3>1, <3>3 DEF Stretch
  <2> QED
    BY <1>2, <2>2, <2>3 DEF Stretch
<1> QED
  BY <1>1, <1>2 DEF Stretch

(* So does a stretch right before b.                                       *)
LEMMA BeforeStays ==
  ASSUME NEW n \in Nat, NEW M \in SUBSET (1..n), NEW U, M \in SUBSET U, U \in SUBSET (M \cup {n + 1}),
         NEW E, NEW o, NEW b \in 1..n, Before(M, b, E, o)
  PROVE  Before(U, b, E, o)
<1>1. Below(U, b) = Below(M, b)
  BY BelowSame
<1>2. ASSUME E # {} PROVE Below(U, N!Low(E)) = Below(M, N!Low(E))
  <2>1. E \in SUBSET (1..n)
    BY DEF Before, TopOf, Below
  <2>2. PICK c \in 1..n : c = N!Low(E)
    <3>1. N!Low(E) \in E
      BY <1>2, <2>1, LowIs
    <3> QED
      BY <2>1, <3>1
  <2>3. Below(U, c) = Below(M, c)
    BY <2>2, BelowSame
  <2> QED
    BY <2>2, <2>3
<1> QED
  BY <1>1, <1>2 DEF Before

(* An answer that is right stays right when the log grows.                 *)
LEMMA RightStays ==
  ASSUME NEW h \in Seq(BOOLEAN), NEW b \in BOOLEAN, NEW a, Right(h, a)
  PROVE  Right(Append(h, b), a)
<1>1. PICK n \in Nat : n = Len(h)
  OBVIOUS
<1>2. PICK M : M = Found(h, a.filter)
  OBVIOUS
<1>3. PICK U : U = Found(Append(h, b), a.filter)
  OBVIOUS
<1>4. Len(Append(h, b)) = n + 1 /\ M \in SUBSET (1..n) /\ M \in SUBSET U /\ U \in SUBSET (M \cup {n + 1})
  BY <1>1, <1>2, <1>3, FoundMore
<1>5. /\ a.before \in 1..n /\ a.page.events \in SUBSET (1..n) /\ a.page.hasMore \in BOOLEAN
      /\ Before(M, a.before, a.page.events, a.page.hasMore)
  BY <1>1, <1>2 DEF Right
<1>6. Before(U, a.before, a.page.events, a.page.hasMore)
  BY <1>4, <1>5, BeforeStays
<1>7. 1..n \in SUBSET (1..n + 1)
  OBVIOUS
<1> QED
  BY <1>3, <1>4, <1>5, <1>6, <1>7 DEF Right

(* An event more leaves the table a stretch of the log.                    *)
LEMMA TableAppended ==
  ASSUME N!PanelsAssumption, TableInv, NEW b \in BOOLEAN, N!AppendEvent(b)
  PROVE  TableInv'
<1>1. /\ history' = Append(history, b) /\ Len(history) < MaxLog
      /\ filter' = filter /\ rows' = rows /\ more' = more /\ pagedBack' = pagedBack
      /\ tail' = tail /\ back' = back /\ raced' = raced
  BY DEF N!AppendEvent
<1>2. history \in Seq(BOOLEAN)
  BY DEF TableInv
<1>3. PICK n \in Nat : n = Len(history)
  BY <1>2
<1>4. PICK M : M = Found(history, filter)
  OBVIOUS
<1>5. PICK U : U = Found(Append(history, b), filter)
  OBVIOUS
<1>6. history' \in Seq(BOOLEAN) /\ Len(history') = n + 1 /\ M \in SUBSET (1..n) /\ M \in SUBSET U /\ U \in SUBSET (M \cup {n + 1})
  BY <1>1, <1>2, <1>3, <1>4, <1>5, FoundMore
<1>7. U = Found(history', filter') /\ Found(history, filter)' = U
  BY <1>1, <1>5 DEF Found
<1>8. /\ rows \in SUBSET (1..n) /\ {more, pagedBack, raced} \subseteq BOOLEAN /\ filter \in {"all", "some"}
      /\ tail # N!None => Stretch(M, tail[1].events, tail[1].hasMore)
      /\ RightOnes(history, back)
      /\ ~raced => Stretch(M, rows, more)
  BY <1>3, <1>4 DEF TableInv
<1>9. Len(history') <= MaxLog
  BY <1>1, <1>2, <1>3, <1>6 DEF N!PanelsAssumption
<1>10. 1..n \in SUBSET (1..n + 1)
  OBVIOUS
<1>11. /\ tail # N!None => Stretch(U, tail[1].events, tail[1].hasMore)
       /\ ~raced => Stretch(U, rows, more)
  BY <1>6, <1>8, StretchStays
<1>12. RightOnes(history', back')
  <2>1. \A i \in 1..Len(back) : Right(Append(history, b), back[i])
    BY <1>2, <1>8, RightStays DEF RightOnes
  <2> QED
    BY <1>1, <1>8, <2>1, Zenon DEF RightOnes
<1>13. /\ tail' # N!None => Stretch(U, tail'[1].events, tail'[1].hasMore)
       /\ ~raced' => Stretch(U, rows', more')
  BY <1>1, <1>11, Zenon
<1>14. /\ rows' \in SUBSET (1..Len(history')) /\ {more', pagedBack', raced'} \subseteq BOOLEAN
       /\ filter' \in {"all", "some"}
  BY <1>1, <1>6, <1>8, <1>10
<1> QED
  BY <1>6, <1>7, <1>9, <1>12, <1>13, <1>14 DEF TableInv, Stretch, RightOnes, Right, Before


(* The table after a step that leaves the log and the filter alone.        *)
TableNext(M, rs, o, p, r, t, b) ==
  /\ rs \in SUBSET (1..Len(history)) /\ {o, p, r} \subseteq BOOLEAN
  /\ t # N!None => Stretch(M, t[1].events, t[1].hasMore)
  /\ RightOnes(history, b)
  /\ ~r => Stretch(M, rs, o)

(* Such a step keeps the invariant.                                         *)
LEMMA TableKept ==
  ASSUME TableInv, history' = history, filter' = filter,
         TableNext(Found(history, filter), rows', more', pagedBack', raced', tail', back')
  PROVE  TableInv'
<1>1. PICK M : M = Found(history, filter)
  OBVIOUS
<1>2. Found(history, filter)' = M
  BY <1>1 DEF Found
<1>3. /\ history \in Seq(BOOLEAN) /\ Len(history) <= MaxLog /\ filter \in {"all", "some"}
      /\ rows' \in SUBSET (1..Len(history)) /\ {more', pagedBack', raced'} \subseteq BOOLEAN
      /\ tail' # N!None => Stretch(M, tail'[1].events, tail'[1].hasMore)
      /\ RightOnes(history, back')
      /\ ~raced' => Stretch(M, rows', more')
  BY <1>1 DEF TableInv, TableNext
<1>4. tail' # N!None => Stretch(Found(history, filter), tail[1].events, tail[1].hasMore)'
  BY <1>2, <1>3 DEF Stretch
<1>5. ~raced' => Stretch(Found(history, filter), rows, more)'
  BY <1>2, <1>3 DEF Stretch
<1>6. RightOnes(history, back)'
  BY <1>3 DEF RightOnes, Right, Before
<1> QED
  BY <1>3, <1>4, <1>5, <1>6 DEF TableInv

(* With a right answer more the answers are still right.                    *)
LEMMA RightMore ==
  ASSUME NEW h, NEW b, NEW a \in Answers, RightOnes(h, b), Right(h, a), Len(b) < MaxOlder, MaxOlder \in Nat
  PROVE  RightOnes(h, Append(b, a))
<1>1. /\ b \in Seq(Answers) /\ Len(b) \in Nat /\ Append(b, a) \in Seq(Answers)
      /\ Len(Append(b, a)) = Len(b) + 1
  BY DEF RightOnes
<1>2. \A i \in 1..Len(b) + 1 : Append(b, a)[i] = IF i <= Len(b) THEN b[i] ELSE a
  BY <1>1
<1>3. \A i \in 1..Len(b) + 1 : Right(h, Append(b, a)[i])
  <2>1. \A i \in 1..Len(b) : Right(h, b[i])
    BY DEF RightOnes
  <2>2. \A i \in 1..Len(b) + 1 : i <= Len(b) => i \in 1..Len(b)
    BY <1>1
  <2> QED
    BY <1>2, <2>1, <2>2
<1>4. Len(b) + 1 <= MaxOlder
  BY <1>1
<1> QED
  BY <1>1, <1>3, <1>4 DEF RightOnes

(* And with one less.                                                      *)
LEMMA RightLess ==
  ASSUME NEW h, NEW b, RightOnes(h, b), NEW i \in 1..Len(b), MaxOlder \in Nat
  PROVE  RightOnes(h, N!RemoveAt(b, i))
<1>1. b \in Seq(Answers) /\ Len(b) \in Nat /\ Len(b) <= MaxOlder /\ \A k \in 1..Len(b) : Right(h, b[k])
  BY DEF RightOnes
<1>2. PICK l : l = SubSeq(b, 1, i - 1)
  OBVIOUS
<1>3. PICK r : r = SubSeq(b, i + 1, Len(b))
  OBVIOUS
<1>4. /\ l \in Seq(Answers) /\ Len(l) = i - 1
      /\ \A k \in 1..i - 1 : l[k] = b[k]
  BY <1>1, <1>2
<1>5. /\ r \in Seq(Answers) /\ Len(r) = Len(b) - i
      /\ \A k \in 1..Len(b) - i : r[k] = b[i + k]
  BY <1>1, <1>3
<1>6. N!RemoveAt(b, i) = l \o r
  BY <1>2, <1>3 DEF N!RemoveAt
<1>7. l \o r \in Seq(Answers) /\ Len(l \o r) = Len(b) - 1
  <2>1. l \in Seq(Answers) /\ r \in Seq(Answers)
    BY <1>4, <1>5
  <2>2. l \o r \in Seq(Answers) /\ Len(l \o r) = Len(l) + Len(r)
    BY <2>1
  <2>3. (i - 1) + (Len(b) - i) = Len(b) - 1
    BY <1>1
  <2> QED
    BY <1>4, <1>5, <2>2, <2>3
<1>8. ASSUME NEW k \in 1..Len(b) - 1 PROVE Right(h, (l \o r)[k])
  <2>1. CASE k <= i - 1
    <3>1. (l \o r)[k] = b[k] /\ k \in 1..Len(b)
      BY <1>1, <1>4, <1>5, <2>1
    <3> QED
      BY <1>1, <3>1
  <2>2. CASE ~(k <= i - 1)
    <3>1. (l \o r)[k] = r[k - (i - 1)] /\ k - (i - 1) \in 1..Len(b) - i
      BY <1>1, <1>4, <1>5, <2>2
    <3>2. PICK j \in 1..Len(b) : j = k + 1
      BY <1>1
    <3>3. (l \o r)[k] = b[j]
      BY <1>5, <3>1, <3>2
    <3> QED
      BY <1>1, <3>3
  <2> QED
    BY <2>1, <2>2
<1>9. Len(b) - 1 <= MaxOlder
  BY <1>1
<1> QED
  BY <1>6, <1>7, <1>8, <1>9 DEF RightOnes

(* Every step keeps the table's invariant.                                  *)
LEMMA TableStays ==
  ASSUME N!PanelsAssumption, TableInv, N!Next
  PROVE  TableInv'
<1>1. /\ history \in Seq(BOOLEAN) /\ rows \in SUBSET (1..Len(history)) /\ {more, pagedBack, raced} \subseteq BOOLEAN
      /\ filter \in {"all", "some"} /\ RightOnes(history, back) /\ MaxOlder \in Nat /\ Len(history) \in Nat
  BY DEF TableInv, N!PanelsAssumption
<1>2. PICK M : M = Found(history, filter)
  OBVIOUS
<1>3. /\ tail # N!None => Stretch(M, tail[1].events, tail[1].hasMore)
      /\ ~raced => Stretch(M, rows, more)
      /\ M \in SUBSET (1..Len(history))
  <2>1. Found(history, filter) \in SUBSET (1..Len(history))
    BY DEF Found
  <2> QED
    BY <1>2, <2>1 DEF TableInv
<1>4. \A E, o : Stretch(M, E, o) => E \in SUBSET (1..Len(history)) /\ o \in BOOLEAN
  BY <1>3 DEF Stretch
<1>5. \A b, E, o : Before(M, b, E, o) => E \in SUBSET (1..Len(history)) /\ o \in BOOLEAN
  <2>1. \A S : Below(M, S) \in SUBSET M
    BY DEF Below
  <2> QED
    BY <1>3, <2>1 DEF Before, TopOf
<1>6. ASSUME N!load PROVE TableInv'
  <2>1. PICK p : p = N!latestEvents(Len(history) + 1)
    OBVIOUS
  <2>2. /\ tail' = <<p>> /\ history' = history /\ filter' = filter /\ rows' = rows /\ more' = more
        /\ pagedBack' = pagedBack /\ back' = back /\ raced' = raced
    BY <1>6, <2>1 DEF N!load
  <2>3. Stretch(M, p.events, p.hasMore)
    BY <1>1, <1>2, <2>1, PageStretch
  <2>4. tail'[1] = p
    BY <2>2
  <2>5. TableNext(M, rows', more', pagedBack', raced', tail', back')
    BY <1>1, <1>3, <2>2, <2>3, <2>4 DEF TableNext
  <2> QED
    BY <1>2, <2>2, <2>5, TableKept
<1>7. ASSUME N!TailAnswers PROVE TableInv'
  <2>1. tail # N!None /\ tail' = N!None /\ history' = history /\ filter' = filter /\ pagedBack' = pagedBack /\ back' = back
    BY <1>7 DEF N!TailAnswers
  <2>2. CASE rows' = tail[1].events /\ more' = tail[1].hasMore /\ raced' = FALSE
    <3>1. Stretch(M, rows', more')
      BY <1>3, <2>1, <2>2
    <3>2. rows' \in SUBSET (1..Len(history)) /\ more' \in BOOLEAN
      BY <1>4, <3>1
    <3>3. TableNext(M, rows', more', pagedBack', raced', tail', back')
      BY <1>1, <2>1, <2>2, <3>1, <3>2 DEF TableNext
    <3> QED
      BY <1>2, <2>1, <3>3, TableKept
  <2>3. CASE UNCHANGED <<rows, more, raced>>
    <3>1. TableNext(M, rows', more', pagedBack', raced', tail', back')
      BY <1>1, <1>3, <2>1, <2>3 DEF TableNext
    <3> QED
      BY <1>2, <2>1, <3>1, TableKept
  <2> QED
    BY <1>7, <2>2, <2>3 DEF N!TailAnswers
<1>8. ASSUME N!loadOlder PROVE TableInv'
  <2>1. PICK b : b = N!Low(rows)
    OBVIOUS
  <2>2. PICK p : p = N!latestEvents(b)
    OBVIOUS
  <2>3. PICK a : a = [filter |-> filter, before |-> b, page |-> p]
    OBVIOUS
  <2>4. /\ rows # {} /\ Len(back) < MaxOlder /\ back' = Append(back, a)
        /\ history' = history /\ filter' = filter /\ rows' = rows /\ more' = more
        /\ pagedBack' = pagedBack /\ tail' = tail /\ raced' = raced
    BY <1>8, <2>1, <2>2, <2>3 DEF N!loadOlder, N!Older
  <2>5. b \in 1..Len(history)
    BY <1>1, <2>1, <2>4, LowIs
  <2>6. Before(M, b, p.events, p.hasMore)
    BY <1>1, <1>2, <2>2, <2>5, PageBefore
  <2>7. p.events \in SUBSET (1..Len(history)) /\ p.hasMore \in BOOLEAN
    BY <1>5, <2>6
  <2>8. PICK m : m = (N!Cardinality(N!Newest(N!Matching(b), Limit + 1)) > Limit)
    OBVIOUS
  <2>9. p = [events |-> N!Newest(N!Newest(N!Matching(b), Limit + 1), Limit), hasMore |-> m]
    BY <2>2, <2>8, Zenon DEF N!latestEvents
  <2>10. a \in Answers /\ Right(history, a)
    <3>1. p \in [events : SUBSET Nat, hasMore : BOOLEAN]
      BY <2>7, <2>9
    <3>2. a \in Answers
      BY <1>1, <2>3, <2>5, <3>1 DEF Answers
    <3>3. a.before = b /\ a.page = p /\ a.filter = filter
      BY <2>3
    <3>4. Right(history, a)
      BY <1>2, <2>5, <2>6, <2>7, <3>3, Zenon DEF Right
    <3> QED
      BY <3>2, <3>4
  <2>11. RightOnes(history, back')
    BY <1>1, <2>4, <2>10, RightMore
  <2>12. TableNext(M, rows', more', pagedBack', raced', tail', back')
    BY <1>1, <1>3, <2>4, <2>11 DEF TableNext
  <2> QED
    BY <1>2, <2>4, <2>12, TableKept
<1>9. ASSUME NEW i \in 1..MaxOlder, N!OlderAnswers(i) PROVE TableInv'
  <2>1. back \in Seq(Answers) /\ i \in DOMAIN back
    BY <1>1, <1>9 DEF RightOnes, N!OlderAnswers
  <2>2. i \in 1..Len(back)
    BY <2>1
  <2>3. PICK a : a = back[i]
    OBVIOUS
  <2>4. back' = N!RemoveAt(back, i) /\ history' = history /\ filter' = filter
    BY <1>9 DEF N!OlderAnswers
  <2>5. RightOnes(history, back')
    BY <1>1, <2>2, <2>4, RightLess
  <2>6. Right(history, a)
    BY <1>1, <2>2, <2>3 DEF RightOnes
  <2>7. CASE /\ rows' = rows \cup a.page.events /\ more' = a.page.hasMore
             /\ pagedBack' = TRUE /\ tail' = N!None /\ raced' = (raced \/ ~N!Fits(a))
    <3>1. rows' \in SUBSET (1..Len(history)) /\ more' \in BOOLEAN /\ raced' \in BOOLEAN
      BY <1>1, <2>6, <2>7 DEF Right
    <3>2. ASSUME ~raced' PROVE Stretch(M, rows', more')
      <4>1. Stretch(M, rows, more) /\ N!Fits(a)
        BY <1>3, <2>7, <3>2
      <4>2. rows # {} /\ Found(history, a.filter) = M /\ a.before \in Nat
        BY <1>2, <2>6, <4>1 DEF N!Fits, Right
      <4>3. Before(M, a.before, a.page.events, a.page.hasMore)
        BY <2>6, <4>2 DEF Right
      <4>4. CASE a.before = N!Low(rows)
        <5>1. Stretch(M, rows \cup a.page.events, a.page.hasMore)
          BY <1>1, <1>3, <4>1, <4>2, <4>3, <4>4, TwoStretches
        <5> QED
          BY <2>7, <5>1
      <4>5. CASE N!Low(rows) \in a.page.events /\ \A s \in a.page.events : N!Low(rows) <= s
        <5>1. Stretch(M, rows \cup a.page.events, a.page.hasMore)
          BY <1>1, <1>3, <4>1, <4>2, <4>3, <4>5, SameFoot
        <5> QED
          BY <2>7, <5>1
      <4> QED
        BY <4>1, <4>4, <4>5 DEF N!Fits
    <3>3. TableNext(M, rows', more', pagedBack', raced', tail', back')
      BY <2>5, <2>7, <3>1, <3>2 DEF TableNext
    <3> QED
      BY <1>2, <2>4, <3>3, TableKept
  <2>8. CASE UNCHANGED <<rows, more, pagedBack, tail, raced>>
    <3>1. TableNext(M, rows', more', pagedBack', raced', tail', back')
      BY <1>1, <1>3, <2>5, <2>8 DEF TableNext
    <3> QED
      BY <1>2, <2>4, <3>1, TableKept
  <2> QED
    BY <1>9, <2>3, <2>7, <2>8 DEF N!OlderAnswers
<1>10. ASSUME N!Restart, filter' \in {"all", "some"} PROVE TableInv'
  <2>1. /\ pagedBack' = FALSE /\ rows' = {} /\ tail' = N!None /\ raced' = FALSE
        /\ history' = history /\ more' = more /\ back' = back
    BY <1>10 DEF N!Restart, N!Cleared
  <2>2. PICK U : U = Found(history, filter)'
    OBVIOUS
  <2>3. Stretch(U, {}, more')
    BY <1>1, <2>1 DEF Stretch
  <2>4. Stretch(Found(history, filter), rows, more)'
    BY <2>1, <2>2, <2>3 DEF Stretch
  <2>5. RightOnes(history, back)'
    BY <1>1, <2>1 DEF RightOnes, Right, Before
  <2>6. /\ history' \in Seq(BOOLEAN) /\ Len(history') <= MaxLog
        /\ rows' \in SUBSET (1..Len(history')) /\ {more', pagedBack', raced'} \subseteq BOOLEAN
    BY <1>1, <2>1 DEF TableInv
  <2> QED
    BY <1>10, <2>1, <2>4, <2>5, <2>6 DEF TableInv
<1>11. ASSUME NEW b \in BOOLEAN, N!AppendEvent(b) PROVE TableInv'
  BY <1>11, TableAppended
<1>12. ASSUME UNCHANGED <<history, filter, rows, more, pagedBack, tail, back, raced>> PROVE TableInv'
  <2>1. TableNext(M, rows', more', pagedBack', raced', tail', back')
    BY <1>1, <1>3, <1>12 DEF TableNext
  <2> QED
    BY <1>2, <1>12, <2>1, TableKept
<1>13. ASSUME NEW m \in Models, NEW t \in 0..MaxTime, NEW b \in BOOLEAN,
              N!RecordCost(m, t, b) \/ \E phase \in {"before_output", "mid_stream"} : N!RecordFailure(m, t, phase, b)
       PROVE  TableInv'
  BY <1>12, <1>13 DEF N!RecordCost, N!RecordFailure, N!table
<1>14. CASE N!jumpToLatest \/ N!changeFilter
  BY <1>1, <1>10, <1>14 DEF N!jumpToLatest, N!changeFilter
<1> QED
  BY <1>6, <1>7, <1>8, <1>9, <1>11, <1>13, <1>14 DEF N!Next

(* Every step of the panels keeps their invariant.                         *)
LEMMA PanelsStay ==
  ASSUME N!PanelsAssumption, PanelsInv, N!Next
  PROVE  PanelsInv'
<1>1. RecordsTyped /\ TableInv
  BY DEF PanelsInv
<1>2. RecordsTyped' /\ TableInv'
  BY <1>1, RecordsStay, TableStays
<1> QED
  BY <1>2 DEF PanelsInv


(***************************************************************************)
(* What is shown is what is there.                                         *)
(***************************************************************************)
ShownInv == leg \in Legs \cup {"none"} /\ (leg = "view" => ViewInv) /\ (leg = "panels" => PanelsInv)

(* At rest the view's invariant stays.                                     *)
LEMMA ViewRests == ASSUME ViewInv, UNCHANGED view PROVE ViewInv'
<1>1. /\ task' = task /\ items' = items /\ approval' = approval /\ spend' = spend /\ cap' = cap
      /\ log' = log /\ owed' = owed /\ crashes' = crashes /\ untold' = untold
  BY DEF view
<1>2. RowsTyped' /\ LogTyped' /\ NothingYet'
  BY <1>1 DEF ViewInv, RowsTyped, LogTyped, NothingYet
<1>3. RowsTree' = RowsTree /\ V!Folded' = V!Folded
  BY <1>1, Zenon DEF RowsTree, V!Folded
<1>4. TreeIsRows' /\ BillTold'
  BY <1>1, <1>3, Zenon DEF ViewInv, TreeIsRows, BillTold
<1> QED
  BY <1>2, <1>4 DEF ViewInv

(* At rest the panels' invariant stays.                                    *)
LEMMA PanelsRest == ASSUME PanelsInv, UNCHANGED panels PROVE PanelsInv'
<1>1. /\ bills' = bills /\ faults' = faults /\ history' = history /\ filter' = filter /\ rows' = rows
      /\ more' = more /\ pagedBack' = pagedBack /\ tail' = tail /\ back' = back /\ raced' = raced
  BY DEF panels
<1>2. RecordsTyped'
  BY <1>1 DEF PanelsInv, RecordsTyped, BillRow, FaultRow
<1>3. \A E, o : Stretch(Found(history, filter), E, o)' <=> Stretch(Found(history, filter), E, o)
  BY <1>1 DEF Stretch, Found
<1>4. TableInv'
  BY <1>1, Zenon DEF PanelsInv, TableInv, RightOnes, Right, Stretch, Before, Found
<1> QED
  BY <1>2, <1>4 DEF PanelsInv

(* What is shown is what is there: the folded log tells the rows unless a   *)
(* crash took an event, the bill is the sum of what was paid, windows and   *)
(* groupings of records add up, and the table of events has no hole unless  *)
(* an older page landed where it does not fit (View, Panels).              *)
THEOREM ShownIsThere == ASSUME WireAssumption PROVE WireSpec => []ShowsWhatIsThere
<1>1. V!ViewAssumption /\ N!PanelsAssumption
  BY DEF WireAssumption
<1>2. WireInit => ShownInv
  BY <1>1, ViewStarts, PanelsStart DEF WireInit, ShownInv
<1>3. ShownInv /\ [WireNext]_wire => ShownInv'
  <2> SUFFICES ASSUME ShownInv, [WireNext]_wire PROVE ShownInv'
    OBVIOUS
  <2>1. leg \in Legs \cup {"none"} /\ (leg = "view" => ViewInv) /\ (leg = "panels" => PanelsInv)
    BY DEF ShownInv
  <2>2. leg' = leg
    BY DEF WireNext, wire
  <2>3. leg = "view" => V!Next \/ UNCHANGED view
    BY DEF WireNext, wire
  <2>4. leg = "panels" => N!Next \/ UNCHANGED panels
    BY DEF WireNext, wire
  <2>5. leg = "view" => ViewInv'
    BY <1>1, <2>1, <2>3, ViewStays, ViewRests
  <2>6. leg = "panels" => PanelsInv'
    BY <1>1, <2>1, <2>4, PanelsStay, PanelsRest
  <2> QED
    BY <2>1, <2>2, <2>5, <2>6 DEF ShownInv
<1>4. ShownInv => ShowsWhatIsThere
  BY <1>1, ViewTells, PanelsTell DEF ShownInv, ShowsWhatIsThere
<1> QED
  BY <1>2, <1>3, <1>4, PTL DEF WireSpec

=============================================================================
