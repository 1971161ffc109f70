-------------------------------- MODULE Chat --------------------------------
(***************************************************************************)
(* `rewter chat`: a terminal session as a conversation. A line typed while *)
(* no task runs starts one; a line typed while one runs steers it. The     *)
(* daemon's side is the little of it the client meets: an answer streamed  *)
(* in deltas, a steer endpoint that hears as long as the task runs, a kill *)
(* switch, and other hands on the same task.                               *)
(***************************************************************************)
EXTENDS Integers, Sequences, SequencesExt

CONSTANTS MaxLines,  \* lines typed in a session
          MaxSaid    \* progress deltas of a session

ChatAssumption == MaxLines \in Nat \ {0} /\ MaxSaid \in Nat

VARIABLES typed,     \* the lines typed: the n-th is n, or 0 where it is blank
          queue, live, closed,  \* LineSource
          phase,     \* ask, starting, running, ending (of the turn), over
          code,      \* the exit code
          messages,  \* the conversation posted with each turn
          feed,      \* runTask's text: the deltas read in this turn
          failed, interrupted,
          pending, flight,  \* the steering chain: lines waiting, the POST under way
          cancel,    \* the kill: none, fired, delivered
          \* the daemon
          task,      \* the turn's: its kind, status and what it said
          net,       \* events on their way to the client
          sent,      \* lines the daemon got, in order
          \* history
          told,      \* lines whose fate the session was told
          threw,     \* a steering POST was lost
          turns      \* the tasks of the turns that ended well, in order

source == <<queue, live, closed>>
turn == <<feed, failed, interrupted>>
chain == <<pending, flight>>
daemon == <<task, net, sent>>
vars == <<typed, source, phase, code, messages, turn, chain, cancel, daemon, told, threw, turns>>

None == [kind |-> "none", status |-> "none", said |-> <<>>]
User(n) == [role |-> "user", content |-> n]
Assistant(text) == [role |-> "assistant", content |-> text]

(* The instruction comes with the command, or is asked for.                *)
Init ==
    /\ \/ typed = <<>> /\ phase = "ask" /\ messages = <<>>
       \/ typed = <<1>> /\ phase = "starting" /\ messages = <<User(1)>>
    /\ queue = <<>> /\ live = FALSE /\ closed = FALSE /\ code = -1
    /\ feed = <<>> /\ failed = FALSE /\ interrupted = FALSE /\ pending = <<>> /\ flight = <<>>
    /\ cancel = "none" /\ task = None /\ net = <<>> /\ sent = <<>>
    /\ told = {} /\ threw = FALSE /\ turns = <<>>

Exit(c) == phase' = "over" /\ code' = c /\ live' = FALSE

----------------------------------------------------------------------------
(* The keyboard.                                                           *)
Blank(n) == n = 0
Lines(s) == {s[i] : i \in 1..Len(s)}
Increasing(s) == \A i, j \in 1..Len(s) : i < j => s[i] < s[j]
(* The lines that are not blank, in the order they were typed.             *)
Words(lines) ==
    LET words == {n \in Lines(lines) : ~Blank(n)}
    IN  {s \in UNION {[1..k -> words] : k \in 0..Len(lines)} : Increasing(s) /\ Lines(s) = words}

(* Lines to steer with: blank ones are dropped; without a task id the user *)
(* is told it cannot be done.                                              *)
onLine(lines, kind) ==
    \E words \in Words(lines) :
        IF kind = "task" THEN pending' = pending \o words /\ UNCHANGED told
        ELSE told' = told \union Lines(words) /\ UNCHANGED pending

Type(blank) ==
    /\ phase # "over" /\ ~closed /\ Len(typed) < MaxLines
    /\ LET line == IF blank THEN 0 ELSE Len(typed) + 1 IN
       typed' = Append(typed, line) /\
       IF live THEN onLine(<<line>>, task.kind) /\ UNCHANGED queue
       ELSE queue' = Append(queue, line) /\ UNCHANGED <<pending, told>>
    /\ UNCHANGED <<live, closed, phase, code, messages, turn, flight, cancel, daemon, threw, turns>>

(* Ctrl-D, the end of a pipe, or a Ctrl-C nobody listens for.              *)
Close ==
    /\ phase # "over" /\ ~closed /\ closed' = TRUE
    /\ UNCHANGED <<typed, queue, live, phase, code, messages, turn, chain, cancel, daemon, told, threw, turns>>

Sigint ==
    /\ live /\ ~interrupted /\ interrupted' = TRUE
    /\ cancel' = (IF task.kind = "task" THEN "fired" ELSE cancel)
    /\ UNCHANGED <<typed, source, phase, code, messages, feed, failed, chain, daemon, told, threw, turns>>

----------------------------------------------------------------------------
(* chatCommand: the modal read, first for the instruction, then for each   *)
(* follow-up.                                                              *)
Ask ==
    /\ phase = "ask"
    /\ \/ /\ queue # <<>> /\ queue' = Tail(queue)
          /\ LET line == Head(queue) IN
             \/ Blank(line) /\ messages = <<>> /\ Exit(1) /\ UNCHANGED <<messages, closed>>
             \/ Blank(line) /\ messages # <<>> /\ UNCHANGED <<messages, live, closed, phase, code>>
             \/ /\ ~Blank(line) /\ messages' = Append(messages, User(line)) /\ phase' = "starting"
                /\ UNCHANGED <<live, closed, code>>
       \/ /\ queue = <<>> /\ closed /\ Exit(IF messages = <<>> THEN 1 ELSE 0)
          /\ UNCHANGED <<queue, closed, messages>>
    /\ UNCHANGED <<typed, turn, chain, cancel, daemon, told, threw, turns>>

(* attach: the lines typed since the instruction steer the task it began.  *)
Attach(kind) == queue' = <<>> /\ onLine(queue, kind)
(* startChat: the daemon takes the conversation, or refuses.               *)
Start ==
    /\ phase = "starting"
    /\ \/ \E kind \in {"task", "plain"} :
             /\ task' = [kind |-> kind, status |-> "running", said |-> <<>>]
             /\ sent' = Append(sent, Last(messages).content) /\ net' = <<>>
             /\ phase' = "running" /\ live' = TRUE /\ Attach(kind)
             /\ feed' = <<>> /\ failed' = FALSE /\ interrupted' = FALSE /\ UNCHANGED code
       \/ Exit(1) /\ UNCHANGED <<task, sent, net, queue, pending, told, turn>>
    /\ UNCHANGED <<typed, closed, messages, flight, cancel, threw, turns>>

(* The loop over the feed. A socket that closes early reads as an error.   *)
Read ==
    /\ phase = "running" /\ ~interrupted /\ net # <<>> /\ net' = Tail(net)
    /\ LET event == Head(net)
           over == event \in {"done", "cut"} IN
       /\ feed' = (IF event \in {"progress", "answer", "notice"} THEN Append(feed, event) ELSE feed)
       /\ failed' = (failed \/ event \in {"error", "cut"})
       /\ phase' = (IF over THEN "ending" ELSE phase) /\ live' = (IF over THEN FALSE ELSE live)
    /\ UNCHANGED <<typed, queue, closed, code, messages, interrupted, chain, cancel, task, sent, told, threw, turns>>
Aborted ==
    /\ phase = "running" /\ interrupted /\ phase' = "ending" /\ live' = FALSE
    /\ UNCHANGED <<typed, queue, closed, code, messages, turn, chain, cancel, daemon, told, threw, turns>>

(* On success a task's answer is its last delta; another model's is all.   *)
Answer == IF task.kind = "task" THEN (IF feed = <<>> THEN <<>> ELSE <<Last(feed)>>) ELSE feed

(* slip: nobody awaits the chain *)
Steered_Unawaited == TRUE
Steered == pending = <<>> /\ flight = <<>>
(* The turn is over once the steering is; for a task the socket is given   *)
(* a moment to agree, which changes nothing here.                          *)
EndTurn ==
    /\ phase = "ending" /\ Steered
    /\ \/ interrupted /\ Exit(130) /\ UNCHANGED <<messages, turns>>
       \/ ~interrupted /\ failed /\ Exit(1) /\ UNCHANGED <<messages, turns>>
       \/ /\ ~interrupted /\ ~failed /\ phase' = "ask" /\ UNCHANGED <<code, live>>
          /\ messages' = Append(messages, Assistant(Answer)) /\ turns' = Append(turns, task)
    /\ UNCHANGED <<typed, queue, closed, turn, chain, cancel, daemon, told, threw>>

----------------------------------------------------------------------------
(* Steering POSTs, one at a time.                                          *)
SteerTask ==
    /\ phase \in {"running", "ending"} /\ pending # <<>> /\ flight = <<>>
    /\ flight' = <<[line |-> Head(pending), answer |-> "none"]>> /\ pending' = Tail(pending)
    /\ UNCHANGED <<typed, source, phase, code, messages, turn, cancel, daemon, told, threw, turns>>
(* The daemon refuses a line for a task that has ended; one whose stream   *)
(* was lost may have.                                                      *)
Heard ==
    /\ flight # <<>> /\ flight[1].answer = "none"
    /\ \/ /\ task.status \in {"running", "lost"}
          /\ sent' = Append(sent, flight[1].line) /\ flight' = <<[flight[1] EXCEPT !.answer = "queued"]>>
       \/ /\ task.status # "running"
          /\ flight' = <<[flight[1] EXCEPT !.answer = "refused"]>> /\ UNCHANGED sent
    /\ UNCHANGED <<typed, source, phase, code, messages, turn, pending, cancel, task, net, told, threw, turns>>
SteerAnswered ==
    /\ phase # "over" /\ flight # <<>> /\ flight[1].answer # "none"
    /\ flight' = <<>> /\ told' = told \union {flight[1].line}
    /\ UNCHANGED <<typed, source, phase, code, messages, turn, pending, cancel, daemon, threw, turns>>
(* A POST that throws breaks the chain: the lines behind it are never      *)
(* sent. Before the turn ends nobody has caught it, and the process dies.  *)
SteerThrows ==
    /\ phase # "over" /\ flight # <<>> /\ threw' = TRUE /\ flight' = <<>> /\ pending' = <<>>
    /\ \/ phase = "running" /\ Exit(1)
       \/ phase = "ending" /\ UNCHANGED <<phase, code, live>>
    /\ UNCHANGED <<typed, queue, closed, messages, turn, cancel, daemon, told, turns>>

(* The cancel POST leaves later than it is fired, and a process that has   *)
(* exited sends nothing.                                                   *)
Cancelled ==
    /\ phase # "over" /\ cancel = "fired" /\ cancel' = "delivered"
    /\ task' = (IF task.status = "running" THEN [task EXCEPT !.status = "cancelled"] ELSE task)
    /\ UNCHANGED <<typed, source, phase, code, messages, turn, chain, net, sent, told, threw, turns>>

----------------------------------------------------------------------------
(* The daemon. An orchestration that failed or was cancelled says so as    *)
(* text and ends its stream like any other; a plain call ends in an error. *)
Streams(text, end, status) ==
    /\ task' = [task EXCEPT !.status = status, !.said = @ \o text]
    /\ net' = net \o text \o end
    /\ UNCHANGED <<typed, source, phase, code, messages, turn, chain, cancel, sent, told, threw, turns>>
Running(kind) == task.kind = kind /\ task.status = "running"
Says == task.status = "running" /\ Len(task.said) < MaxSaid /\ Streams(<<"progress">>, <<>>, "running")
Succeeds ==
    \/ Running("task") /\ Streams(<<"answer">>, <<"done">>, "succeeded")
    \/ Running("plain") /\ Streams(<<>>, <<"done">>, "succeeded")
FailsOrIsCancelled ==
    \/ Running("task") /\ \E s \in {"failed", "cancelled"} : Streams(<<"notice">>, <<"done">>, s)
    \/ Running("plain") /\ Streams(<<>>, <<"error", "done">>, "failed")
Lost == task.status = "running" /\ Streams(<<>>, <<"cut">>, "lost")

Next ==
    \/ Close \/ Sigint \/ Ask \/ Start \/ Read \/ Aborted \/ EndTurn
    \/ SteerTask \/ Heard \/ SteerAnswered \/ SteerThrows \/ Cancelled
    \/ Says \/ Succeeds \/ FailsOrIsCancelled \/ Lost
    \/ \E blank \in BOOLEAN : Type(blank)

Spec == Init /\ [][Next]_vars
----------------------------------------------------------------------------
TypeOK ==
    /\ Len(typed) <= MaxLines /\ Lines(sent) \union told \subseteq Lines(typed) \ {0}
    /\ phase \in {"ask", "starting", "running", "ending", "over"} /\ code \in {-1, 0, 1, 130}
    /\ Len(messages) <= 2 * MaxLines + 1 /\ Len(flight) <= 1 /\ cancel \in {"none", "fired", "delivered"}

(* Whatever becomes instruction, steering or follow-up, the daemon gets    *)
(* the lines in the order they were typed, each once.                      *)
InTypedOrder == Increasing(sent)

(* A session that ends well has used every line: the daemon has it, or the *)
(* user was told why not. Only a POST lost on the way takes lines along.   *)
LinesUsed ==
    phase = "over" /\ code = 0 /\ ~threw =>
        Lines(typed) \ {0} \subseteq Lines(sent) \union told

(* The conversation carries the answer of every turn that succeeded, each  *)
(* after the line that asked for it, and none of its progress lines.       *)
AnswersCarried ==
    \A k \in 1..Len(turns) : turns[k].status = "succeeded" =>
        messages[2 * k] = Assistant(IF turns[k].kind = "task" THEN <<"answer">> ELSE turns[k].said)
=============================================================================
