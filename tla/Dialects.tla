------------------------------- MODULE Dialects -------------------------------
(***************************************************************************)
(* A conversation from a client's dialect to an upstream's: the requests   *)
(* of shared/anthropic.ts and shared/openai.ts made into chat messages,    *)
(* and these into what each adapter of providers/ sends.  The client adds  *)
(* to a conversation and sends it whole each time.  A text, a call and the *)
(* result of a call are told apart by number; an image is dropped.         *)
(***************************************************************************)
EXTENDS Naturals, Sequences, SequencesExt, FiniteSets

CONSTANT MaxMessages    \* bound: messages of a conversation

DialectsAssumption == MaxMessages \in Nat

VARIABLES client, upstream,   \* the dialects
          said,       \* the client's messages: a role and its blocks
          texts,      \* how many texts it said
          made, open  \* calls made so far; those not answered yet

vars == <<client, upstream, said, texts, made, open>>

Text(n) == <<"text", n>>
Call(n) == <<"call", n>>
Result(n) == <<"result", n>>
Image == <<"image", 0>>
Of(kind, blocks) == SelectSeq(blocks, LAMBDA b : b[1] = kind)

Init ==
    /\ client \in {"openai", "anthropic"} /\ upstream \in {"openai", "anthropic", "google"}
    /\ said = <<>> /\ texts = 0 /\ made = 0 /\ open = {}

(***************************************************************************)
(* What clients say.                                                       *)
(***************************************************************************)
Say(messages, t, c, o) ==
    /\ Len(said) + Len(messages) <= MaxMessages
    /\ said' = said \o messages
    /\ texts' = texts + t /\ made' = made + c /\ open' = o
    /\ UNCHANGED <<client, upstream>>

(* A system message may come anywhere, and so may its newer name. *)
SystemSays ==
    /\ open = {}
    /\ Say(<<<<"system", <<Text(texts + 1)>>>>>>, 1, 0, open)

UserSays ==
    /\ open = {}
    /\ \E image \in BOOLEAN :
         Say(<<<<"user", IF image THEN <<Image, Text(texts + 1)>> ELSE <<Text(texts + 1)>>>>>>, 1, 0, open)

(* A reply the client replays, with its calls. *)
AssistantSays ==
    /\ open = {}
    /\ \E t \in 0 .. 1, n \in 0 .. 2 :
         /\ t + n > 0
         /\ Say(<<<<"assistant", [i \in 1 .. t |-> Text(texts + i)] \o [i \in 1 .. n |-> Call(made + i)]>>>>,
                t, n, made + 1 .. made + n)

(* The results of its calls, in any order: in a message each, or in one     *)
(* user message, where the user's next words may stand before or behind.   *)
ResultsCome ==
    /\ open # {}
    /\ \E order \in SetToSeqs(open) :
         LET results == [i \in DOMAIN order |-> Result(order[i])]
         IN  IF client = "openai"
               THEN Say([i \in DOMAIN results |-> <<"tool", <<results[i]>>>>], 0, 0, {})
               ELSE \/ Say(<<<<"user", results>>>>, 0, 0, {})
                    \/ Say(<<<<"user", results \o <<Text(texts + 1)>>>>>>, 1, 0, {})
                    \/ Say(<<<<"user", <<Text(texts + 1)>> \o results>>>>, 1, 0, {})

Next == SystemSays \/ UserSays \/ AssistantSays \/ ResultsCome
Spec == Init /\ [][Next]_vars

(***************************************************************************)
(* Chat messages: a role, texts, calls and the call answered.              *)
(***************************************************************************)
Chat(role, ts, cs, answers) == [role |-> role, texts |-> ts, calls |-> cs, answers |-> answers]

Answers(blocks) == [i \in DOMAIN Of("result", blocks) |-> Chat("tool", <<>>, <<>>, Of("result", blocks)[i])]

(* A turn is its results, each a message, and then what else it says, if    *)
(* it says anything.                                                       *)
FromAnthropic(m) ==
    LET own == Chat(m[1], Of("text", m[2]), Of("call", m[2]), <<>>)
    IN  Answers(m[2]) \o (IF own.texts \o own.calls = <<>> THEN <<>> ELSE <<own>>)

FromOpenAI(m) ==
    <<Chat(m[1], Of("text", m[2]), Of("call", m[2]),
           IF m[1] = "tool" THEN Head(Of("result", m[2])) ELSE <<>>)>>

Messages ==
    FlattenSeq([i \in DOMAIN said |->
        IF client = "anthropic" THEN FromAnthropic(said[i]) ELSE FromOpenAI(said[i])])

(***************************************************************************)
(* What is sent: the texts of the system slot, and messages of blocks.     *)
(***************************************************************************)
Sent(role, blocks) == [role |-> role, blocks |-> blocks]

(* The system messages before any other go to the slot. *)
Leading(ms) == {i \in DOMAIN ms : \A j \in 1 .. i : ms[j].role = "system"}
Rest(ms) == SubSeq(ms, Cardinality(Leading(ms)) + 1, Len(ms))
Slot(ms) == FlattenSeq([i \in 1 .. Cardinality(Leading(ms)) |-> ms[i].texts])

(* A result joins the message before it when that is the user's: for        *)
(* Anthropic only one that holds results, for Gemini any.                  *)
Joins(upTo, prev) ==
    /\ prev # <<>> /\ Last(prev).role = "user"
    /\ upTo = "anthropic" => Head(Last(prev).blocks)[1] = "result"

Add(upTo, prev, m) ==
    IF m.role # "tool"
      THEN Append(prev, Sent(IF m.role = "system" THEN "user" ELSE m.role, m.texts \o m.calls))
      ELSE IF Joins(upTo, prev)
        THEN [prev EXCEPT ![Len(prev)].blocks = Append(@, m.answers)]
        ELSE Append(prev, Sent("user", <<m.answers>>))

ToSlotted(upTo, ms) ==
    [system |-> Slot(ms),
     messages |-> FoldLeft(LAMBDA prev, m : Add(upTo, prev, m), <<>>, Rest(ms))]

ToOpenAI(ms) ==
    [system |-> <<>>,
     messages |-> [i \in DOMAIN ms |->
        Sent(ms[i].role, IF ms[i].role = "tool" THEN <<ms[i].answers>> ELSE ms[i].texts \o ms[i].calls)]]

Request == IF upstream = "openai" THEN ToOpenAI(Messages) ELSE ToSlotted(upstream, Messages)

----------------------------------------------------------------------------
TypeOK ==
    /\ said \in Seq({"system", "user", "assistant", "tool"} \X Seq({"text", "call", "result", "image"} \X Nat))
    /\ texts \in Nat /\ made \in Nat /\ open \subseteq 1 .. made

Numbers(blocks) == [i \in DOMAIN blocks |-> blocks[i][2]]

(* "upstreams that pair calls to results need the order" (shared/anthropic.ts): *)
(* the calls of a reply are answered, each once, right after it and before     *)
(* anything else is said: in the next message, or in the next ones, for OpenAI. *)
ResultsFollow ==
    open = {} =>
      \A i \in DOMAIN Request.messages :
        LET ms == Request.messages
            calls == ToSet(Numbers(Of("call", ms[i].blocks)))
            n == Cardinality(calls)
            next == IF upstream = "openai"
                      THEN FlattenSeq([k \in 1 .. n |-> ms[i + k].blocks])
                      ELSE ms[i + 1].blocks
        IN  n > 0 => /\ Len(ms) >= (IF upstream = "openai" THEN i + n ELSE i + 1)
                     /\ Len(Of("result", next)) = n
                     /\ \A k \in 1 .. n : next[k][1] = "result" /\ next[k][2] \in calls

(* Nothing a side said is lost, said twice or put before what was said earlier, *)
(* and nothing but a call's answer is called one.                              *)
AllSaid ==
    LET blocks == Request.system \o FlattenSeq([i \in DOMAIN Request.messages |-> Request.messages[i].blocks])
    IN  /\ Numbers(Of("text", blocks)) = [n \in 1 .. texts |-> n]
        /\ Numbers(Of("call", blocks)) = [n \in 1 .. made |-> n]
        /\ ToSet(Numbers(Of("result", blocks))) = 1 .. made \ open
============================================================================
