------------------------------ MODULE LiveTask ------------------------------
(***************************************************************************)
(* One entry of the LiveTaskIndex of orchestrator/live.ts: the buffer the   *)
(* engine's stream is pumped into, the requests that read it (the one that  *)
(* started the task, reconnects, follow-ups), and the timer that cancels a  *)
(* task nobody came back for; with the routes of http/app.ts that attach,   *)
(* steer and cancel, and the daemon's shutdown.                             *)
(*                                                                         *)
(* The engine is the environment here (Orchestration is the one that is     *)
(* driven): it yields chunks, ends or throws when it likes, and ends once   *)
(* aborted.  The n-th chunk is the number n, so the buffer is a count.      *)
(***************************************************************************)
EXTENDS Naturals, Sequences

CONSTANTS
  Readers,    \* the requests that may read the task
  Streaming,  \* those over SSE; a plain response never hears its client leave
  MaxChunks   \* bound: chunks of the task

ASSUME ReadersAssumption == Streaming \subseteq Readers
ASSUME ChunksAssumption == MaxChunks \in Nat

VARIABLES
  pumped,     \* length of LiveTask.chunks
  end,        \* finished and failure: "open", "over" or "broken"
  subs,       \* LiveTask.subscribers
  at,         \* where each subscribe() generator is
  replay, queue, ended,  \* its replay still to yield, its queue and `ended`
  gone,       \* the client's socket closed
  sent,       \* history: what each request was given
  timer,      \* a grace timer is armed
  aborted,    \* the task's AbortController
  stopped,    \* the daemon is shutting down
  left        \* history: the last listener went away and nobody claimed since

reading == <<at, replay, queue, ended, sent>>
vars == <<pumped, end, subs, reading, gone, timer, aborted, stopped, left>>

Upto(n) == [k \in 1..n |-> k]
finished == end # "open"

TypeOK ==
  /\ pumped \in Nat /\ end \in {"open", "over", "broken"}
  /\ subs \subseteq Readers
  /\ at \in [Readers -> {"none", "replaying", "looking", "asleep", "closed"}]
  /\ replay \in [Readers -> Seq(Nat)] /\ queue \in [Readers -> Seq(Nat)]
  /\ sent \in [Readers -> Seq(Nat)]
  /\ ended \in [Readers -> BOOLEAN] /\ gone \in [Readers -> BOOLEAN]
  /\ timer \in BOOLEAN /\ aborted \in BOOLEAN /\ stopped \in BOOLEAN
  /\ left \in BOOLEAN
  /\ \A r \in Readers : at[r] = "replaying" <=> replay[r] # <<>>
  /\ subs = {r \in Readers : ~finished /\ at[r] \notin {"none", "closed"}}

Init ==
  /\ pumped = 0 /\ end = "open" /\ subs = {}
  /\ at = [r \in Readers |-> "none"]
  /\ replay = [r \in Readers |-> <<>>] /\ queue = [r \in Readers |-> <<>>]
  /\ sent = [r \in Readers |-> <<>>] /\ ended = [r \in Readers |-> FALSE]
  /\ gone = [r \in Readers |-> FALSE]
  /\ timer = FALSE /\ aborted = FALSE /\ stopped = FALSE /\ left = FALSE

-----------------------------------------------------------------------------
(* The pump                                                                *)

Woken(who) ==
  [r \in Readers |-> IF r \in who /\ at[r] = "asleep" THEN "looking" ELSE at[r]]

(* A slip: a subscriber replays the buffer itself and not a copy of it.     *)
Chunk_Aliased ==
  /\ ~finished /\ pumped < MaxChunks
  /\ pumped' = pumped + 1
  /\ queue' = [r \in Readers |-> IF r \in subs THEN Append(queue[r], pumped + 1)
                                               ELSE queue[r]]
  /\ replay' = [r \in Readers |-> IF at[r] = "replaying"
                                  THEN Append(replay[r], pumped + 1) ELSE replay[r]]
  /\ at' = Woken(subs)
  /\ UNCHANGED <<end, subs, ended, sent, gone, timer, aborted, stopped, left>>

(* LiveTask.pump: buffer a chunk and push it to every subscriber.           *)
Chunk ==
  /\ ~finished /\ pumped < MaxChunks
  /\ pumped' = pumped + 1
  /\ queue' = [r \in Readers |-> IF r \in subs THEN Append(queue[r], pumped + 1)
                                               ELSE queue[r]]
  /\ at' = Woken(subs)
  /\ UNCHANGED <<end, subs, replay, ended, sent, gone, timer, aborted, stopped,
                 left>>

(* A slip: a stream that throws does not release its subscribers.           *)
Finish_Unreleased ==
  /\ ~finished /\ end' \in {"over", "broken"}
  /\ ended' = [r \in Readers |-> ended[r] \/ (r \in subs /\ end' = "over")]
  /\ at' = Woken(IF end' = "over" THEN subs ELSE {})
  /\ subs' = {} /\ timer' = FALSE
  /\ UNCHANGED <<pumped, replay, queue, sent, gone, aborted, stopped, left>>

(* The stream returned or threw: subscribers end, and onIdle forgets the    *)
(* task and its timer.                                                      *)
Finish ==
  /\ ~finished /\ end' \in {"over", "broken"}
  /\ ended' = [r \in Readers |-> ended[r] \/ r \in subs]
  /\ at' = Woken(subs)
  /\ subs' = {} /\ timer' = FALSE
  /\ UNCHANGED <<pumped, replay, queue, sent, gone, aborted, stopped, left>>

-----------------------------------------------------------------------------
(* A subscriber                                                            *)

(* A slip: a reconnect does not call off the timer.                         *)
Attach_TimerKept(r) ==
  /\ ~finished /\ ~stopped /\ at[r] = "none"
  /\ timer' = timer /\ left' = FALSE
  /\ subs' = subs \cup {r}
  /\ replay' = [replay EXCEPT ![r] = Upto(pumped)]
  /\ at' = [at EXCEPT ![r] = IF pumped = 0 THEN "looking" ELSE "replaying"]
  /\ UNCHANGED <<pumped, end, queue, ended, sent, gone, aborted, stopped>>

(* beginOrchestration attaches a request to the task it starts or matches:  *)
(* a pending cancellation is called off, and the first pull copies the      *)
(* buffer and joins the subscribers without a wait in between.              *)
Attach(r) ==
  /\ ~finished /\ ~stopped /\ at[r] = "none"
  /\ timer' = FALSE /\ left' = FALSE
  /\ subs' = subs \cup {r}
  /\ replay' = [replay EXCEPT ![r] = Upto(pumped)]
  /\ at' = [at EXCEPT ![r] = IF pumped = 0 THEN "looking" ELSE "replaying"]
  /\ UNCHANGED <<pumped, end, queue, ended, sent, gone, aborted, stopped>>

Replay(r) ==
  /\ at[r] = "replaying"
  /\ sent' = [sent EXCEPT ![r] = Append(@, Head(replay[r]))]
  /\ replay' = [replay EXCEPT ![r] = Tail(@)]
  /\ at' = [at EXCEPT ![r] = IF Len(replay[r]) = 1 THEN "looking" ELSE @]
  /\ UNCHANGED <<pumped, end, subs, queue, ended, gone, timer, aborted, stopped,
                 left>>

Deliver(r) ==
  /\ at[r] = "looking" /\ queue[r] # <<>>
  /\ sent' = [sent EXCEPT ![r] = Append(@, Head(queue[r]))]
  /\ queue' = [queue EXCEPT ![r] = Tail(@)]
  /\ UNCHANGED <<pumped, end, subs, at, replay, ended, gone, timer, aborted,
                 stopped, left>>

Sleep(r) ==
  /\ at[r] = "looking" /\ queue[r] = <<>> /\ ~ended[r]
  /\ at' = [at EXCEPT ![r] = "asleep"]
  /\ UNCHANGED <<pumped, end, subs, replay, queue, ended, sent, gone, timer,
                 aborted, stopped, left>>

(* A slip: onIdle is asked before the subscriber is taken out.              *)
Close_StillCounted(r) ==
  /\ at[r] = "looking" /\ queue[r] = <<>> /\ ended[r]
  /\ at' = [at EXCEPT ![r] = "closed"]
  /\ subs' = subs \ {r}
  /\ LET idle == subs = {} /\ ~finished
     IN timer' = (timer \/ idle)
  /\ left' = (left \/ (subs = {r} /\ ~finished))
  /\ UNCHANGED <<pumped, end, replay, queue, ended, sent, gone, aborted, stopped>>

(* The loop is left and its finally runs: the last one out of a task that   *)
(* goes on starts the grace timer, unless one is armed.                     *)
Close(r) ==
  /\ at[r] = "looking" /\ queue[r] = <<>> /\ ended[r]
  /\ at' = [at EXCEPT ![r] = "closed"]
  /\ subs' = subs \ {r}
  /\ LET idle == subs' = {} /\ ~finished
     IN timer' = (timer \/ idle) /\ left' = (left \/ idle)
  /\ UNCHANGED <<pumped, end, replay, queue, ended, sent, gone, aborted, stopped>>

(* The socket of a streaming request closes before its response is written. *)
Gone(r) ==
  /\ r \in Streaming /\ ~gone[r] /\ at[r] \notin {"none", "closed"}
  /\ gone' = [gone EXCEPT ![r] = TRUE]
  /\ ended' = [ended EXCEPT ![r] = TRUE]
  /\ at' = Woken({r})
  /\ UNCHANGED <<pumped, end, subs, replay, queue, sent, timer, aborted, stopped,
                 left>>

-----------------------------------------------------------------------------
(* Timer, user and daemon                                                  *)

GraceFires ==
  /\ timer /\ timer' = FALSE
  /\ aborted' = (aborted \/ (subs = {} /\ ~finished))
  /\ UNCHANGED <<pumped, end, subs, reading, gone, stopped, left>>

(* POST /internal/tasks/:id/steer claims the task without listening to it.  *)
Steer ==
  /\ ~finished /\ ~stopped
  /\ timer' = FALSE /\ left' = FALSE
  /\ UNCHANGED <<pumped, end, subs, reading, gone, aborted, stopped>>

HttpCancel ==
  /\ ~finished /\ ~stopped /\ ~aborted /\ aborted' = TRUE
  /\ UNCHANGED <<pumped, end, subs, reading, gone, timer, stopped, left>>

(* LiveTaskIndex.shutdown: clear the timers, cancel what runs.              *)
Shutdown ==
  /\ ~stopped /\ stopped' = TRUE
  /\ timer' = FALSE /\ aborted' = (aborted \/ ~finished)
  /\ UNCHANGED <<pumped, end, subs, reading, gone, left>>

-----------------------------------------------------------------------------
Read(r) == Replay(r) \/ Deliver(r) \/ Sleep(r) \/ Close(r)

Next ==
  \/ Chunk \/ Finish \/ GraceFires \/ Steer \/ HttpCancel \/ Shutdown
  \/ \E r \in Readers : Attach(r) \/ Read(r) \/ Gone(r)

Spec == Init /\ [][Next]_vars

(* A generator that can go on does, timers fire, and an aborted engine ends *)
(* its stream (Orchestration's AbortEndsTask).  Nobody has to attach, stay, *)
(* steer or leave, and an engine that was not aborted may run for ever.     *)
FairSpec ==
  /\ Spec
  /\ \A r \in Readers : WF_vars(Read(r))
  /\ WF_vars(GraceFires) /\ WF_vars(aborted /\ Finish)

-----------------------------------------------------------------------------
(* Safety                                                                  *)

(* Whoever listens hears the log of the Feed: replay, live chunks and the   *)
(* end meet without a gap, a repeat or a chunk out of order, at whatever    *)
(* point a request joins and whatever the others do.                        *)
ReaderState ==
  [r \in Readers |-> IF at[r] = "none" THEN "away"
                     ELSE IF at[r] # "closed" THEN "listening"
                     ELSE IF gone[r] THEN "left" ELSE end]
TheFeed == INSTANCE Feed WITH log <- pumped, heard <- sent, reader <- ReaderState
ImplementsFeed == TheFeed!Spec

(* A task that was left by its last listener and claimed by nobody since    *)
(* is on the clock, cancelled or over: none goes on billing unheard.        *)
AbandonedIsTimed == left => timer \/ aborted \/ finished

(* An armed timer belongs to a task without listeners.  A timer kept across *)
(* a reconnect would cut the next absence short, since onIdle does not arm  *)
(* a second one.                                                            *)
TimerMeansNobody == timer => subs = {} /\ ~finished

-----------------------------------------------------------------------------
(* Liveness                                                                *)

(* A task that everybody left ends unless someone claims it in time.        *)
AbandonedEnds == left ~> (finished \/ ~left)

(* Every request gets its end once the task is over, and one whose client   *)
(* has gone is let go of even when the task goes on.                        *)
ReadersReleased ==
  \A r \in Readers :
    (at[r] # "none" /\ (finished \/ gone[r])) ~> at[r] = "closed"

(* A chunk that is in the buffer reaches every listener that stays.         *)
ChunksArrive ==
  \A r \in Readers : \A n \in 1..MaxChunks :
    (r \in subs /\ pumped >= n) ~> (Len(sent[r]) >= n \/ gone[r])

(* Nobody is left waiting, and nothing is left running: the three above.    *)
EverybodyServed == AbandonedEnds /\ ReadersReleased /\ ChunksArrive
=============================================================================
