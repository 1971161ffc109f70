----------------------------- MODULE ModelCall -----------------------------
(***************************************************************************)
(* One call of Router.stream (router/router.ts): attempts at an upstream    *)
(* through an adapter, with what the caller is given, the failure and cost  *)
(* records it leaves, and an abort at any time.                             *)
(*                                                                         *)
(* An adapter of providers/ yields content, then message_end or an error,   *)
(* and catches what its SDK throws.  One that says nothing or throws is to  *)
(* the router a retryable error.                                            *)
(***************************************************************************)
EXTENDS Naturals, Sequences

CONSTANTS
  MaxAttempts,  \* RouterOptions.maxAttempts
  MaxContent    \* bound: content chunks of the call

ASSUME AttemptsAssumption == MaxAttempts \in Nat \ {0}
ASSUME ContentAssumption == MaxContent \in Nat

VARIABLES
  at,        \* where the generator is
  attempt, emitted,
  said,      \* what the caller was given, and by which attempt
  failures,  \* failure_records of the call
  costs,     \* cost_records of the call
  aborted,   \* the caller's signal
  lost       \* history: an insert failed

vars == <<at, attempt, emitted, said, failures, costs, aborted, lost>>

Phase == {"before_output", "mid_stream"}
Chunk == [type : {"content", "message_end", "error"}, from : 1..MaxAttempts]
Failure == [attempt : 1..MaxAttempts, phase : Phase, retried : BOOLEAN]

TypeOK ==
  /\ at \in {"idle", "calling", "ending", "resting", "done", "threw"}
  /\ attempt \in 0..MaxAttempts /\ emitted \in BOOLEAN
  /\ said \in Seq(Chunk) /\ failures \in Seq(Failure)
  /\ costs \in Nat /\ aborted \in BOOLEAN /\ lost \in BOOLEAN

Init ==
  /\ at = "idle" /\ attempt = 0 /\ emitted = FALSE
  /\ said = <<>> /\ failures = <<>> /\ costs = 0
  /\ aborted = FALSE /\ lost = FALSE

-----------------------------------------------------------------------------
Say(type) == said' = Append(said, [type |-> type, from |-> attempt])

AddFailure(phase, retried) ==
  failures' = Append(failures, [attempt |-> attempt, phase |-> phase,
                                retried |-> retried])

(* recordFailure: an abort is nobody's failure, and a failing insert is     *)
(* swallowed.                                                               *)
RecordFailure(phase, retried) ==
  \/ aborted /\ UNCHANGED <<failures, lost>>
  \/ ~aborted /\ AddFailure(phase, retried) /\ UNCHANGED lost
  \/ ~aborted /\ lost' = TRUE /\ UNCHANGED failures

(* The model is resolved and its adapter made, or the call throws.          *)
Begin ==
  /\ at = "idle"
  /\ \/ at' = "calling" /\ attempt' = 1
     \/ at' = "threw" /\ UNCHANGED attempt
  /\ UNCHANGED <<emitted, said, failures, costs, aborted, lost>>

Abort ==
  /\ ~aborted /\ at \notin {"done", "threw"} /\ aborted' = TRUE
  /\ UNCHANGED <<at, attempt, emitted, said, failures, costs, lost>>

-----------------------------------------------------------------------------
(* What the adapter yields                                                 *)

Content ==
  /\ at = "calling" /\ Len(said) < MaxContent
  /\ emitted' = TRUE /\ Say("content")
  /\ UNCHANGED <<at, attempt, failures, costs, aborted, lost>>

MessageEnd ==
  /\ at = "calling" /\ at' = "ending"
  /\ emitted' = TRUE /\ Say("message_end")
  /\ UNCHANGED <<attempt, failures, costs, aborted, lost>>

(* A slip: output does not keep an error from being retried.                *)
MidStream_Retried ==
  /\ at = "calling" /\ emitted
  /\ RecordFailure("mid_stream", attempt < MaxAttempts)
  /\ IF attempt < MaxAttempts THEN at' = "resting" /\ UNCHANGED said
                              ELSE at' = "done" /\ Say("error")
  /\ UNCHANGED <<attempt, emitted, costs, aborted>>

(* An error after output is passed on.                                      *)
MidStream ==
  /\ at = "calling" /\ emitted
  /\ RecordFailure("mid_stream", FALSE)
  /\ Say("error") /\ at' = "done"
  /\ UNCHANGED <<attempt, emitted, costs, aborted>>

(* Slips: only the last failure is recorded; what could be retried is        *)
(* recorded as retried.                                                     *)
BeforeOutput_OnlyTheLast(retryable) ==
  LET willRetry == retryable /\ attempt < MaxAttempts IN
  /\ at = "calling" /\ ~emitted
  /\ IF willRetry THEN at' = "resting" /\ UNCHANGED <<said, failures, lost>>
                  ELSE at' = "done" /\ Say("error") /\ RecordFailure("before_output", FALSE)
  /\ UNCHANGED <<attempt, emitted, costs, aborted>>

BeforeOutput_Hopeful(retryable) ==
  LET willRetry == retryable /\ attempt < MaxAttempts IN
  /\ at = "calling" /\ ~emitted
  /\ RecordFailure("before_output", retryable)
  /\ IF willRetry THEN at' = "resting" /\ UNCHANGED said
                  ELSE at' = "done" /\ Say("error")
  /\ UNCHANGED <<attempt, emitted, costs, aborted>>

(* An error before output is retried while attempts remain, or passed on.   *)
BeforeOutput(retryable) ==
  LET willRetry == retryable /\ attempt < MaxAttempts IN
  /\ at = "calling" /\ ~emitted
  /\ RecordFailure("before_output", willRetry)
  /\ IF willRetry THEN at' = "resting" /\ UNCHANGED said
                  ELSE at' = "done" /\ Say("error")
  /\ UNCHANGED <<attempt, emitted, costs, aborted>>

-----------------------------------------------------------------------------
(* A slip: the back-off wakes to an abort and returns without a word.       *)
Wake_UnlessAborted ==
  /\ at = "resting" /\ ~aborted /\ at' = "calling"
  /\ attempt' = attempt + 1 /\ emitted' = FALSE
  /\ UNCHANGED <<said, failures, costs, aborted, lost>>

(* The next attempt: the back-off does not look at the signal.              *)
Wake ==
  /\ at = "resting" /\ at' = "calling"
  /\ attempt' = attempt + 1 /\ emitted' = FALSE
  /\ UNCHANGED <<said, failures, costs, aborted, lost>>

(* A slip: a cost that cannot be recorded is swallowed, as a failure is.    *)
RecordCost_Swallowed ==
  /\ at = "ending" /\ at' = "done"
  /\ \/ costs' = costs + 1 /\ UNCHANGED lost
     \/ UNCHANGED costs /\ lost' = TRUE
  /\ UNCHANGED <<attempt, emitted, said, failures, aborted>>

(* The caller pulls once more and the cost is recorded.  If its row or its  *)
(* event cannot be inserted, the error lands in the handler of an adapter   *)
(* that throws: a failure, and a second terminal chunk.                     *)
RecordCost ==
  /\ at = "ending" /\ at' = "done"
  /\ \/ costs' = costs + 1 /\ UNCHANGED <<said, failures, lost>>
     \/ /\ costs' \in {costs, costs + 1} /\ lost' = TRUE /\ Say("error")
        /\ \/ UNCHANGED failures
           \/ ~aborted /\ AddFailure("mid_stream", FALSE)
  /\ UNCHANGED <<attempt, emitted, aborted>>

Adapter == Content \/ MessageEnd \/ MidStream \/ BeforeOutput(TRUE) \/ BeforeOutput(FALSE)
Next == Begin \/ Abort \/ Adapter \/ Wake \/ RecordCost

Spec == Init /\ [][Next]_vars

(* The caller pulls, back-offs pass, and an SDK whose signal fired ends its *)
(* stream.  An upstream that nobody aborted may hang.                       *)
FairSpec ==
  /\ Spec
  /\ WF_vars(Wake) /\ WF_vars(RecordCost)
  /\ WF_vars(aborted /\ (MidStream \/ BeforeOutput(TRUE) \/ BeforeOutput(FALSE)))

-----------------------------------------------------------------------------
(* The caller hears one attempt: what an earlier one said is never followed *)
(* by another's words, and nothing follows a terminal chunk, but for the    *)
(* error of a cost that could not be recorded.                              *)
OneVoice ==
  \A k \in 1..Len(said) :
    /\ said[k].from = attempt
    /\ said[k].type # "content" => \/ k = Len(said)
                                   \/ said[k].type = "message_end" /\ lost

(* A finished call was billed once if it answers its caller (message_end    *)
(* and no error: collectStream), and, unless an insert failed, not at all   *)
(* if it does not.                                                          *)
Answered == \A k \in 1..Len(said) : said[k].type # "error"
BilledIfAnswered ==
  at = "done" => (Answered => costs = 1) /\ (~Answered /\ ~lost => costs = 0)

(* The failures panel's arithmetic: unless an abort or a failing insert     *)
(* keeps one out, every failed attempt has its record, and a finished call  *)
(* counts once, as a success or as its last failure.                        *)
Accounted ==
  ~aborted /\ ~lost =>
    /\ at = "calling" => Len(failures) = attempt - 1
    /\ at = "done" => Len(failures) + costs = attempt

(* A record says what happened: `retried` if another attempt followed or    *)
(* is about to, `mid_stream` if the caller had something of it.             *)
RecordsTrue ==
  \A k \in 1..Len(failures) :
    LET f == failures[k] IN
    /\ f.retried <=> f.attempt < attempt \/ at = "resting"
    /\ f.phase = "mid_stream" <=>
         f.attempt = attempt /\ \E j \in 1..Len(said) : said[j].type # "error"

(* An aborted call ends, which is what Orchestration relies on.             *)
AbortSettles == (aborted /\ at # "idle") ~> at \in {"done", "threw"}
=============================================================================
