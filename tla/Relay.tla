------------------------------- MODULE Relay -------------------------------
(***************************************************************************)
(* One model call streamed through the daemon: an upstream speaks one of   *)
(* three dialects, its adapter normalises every part into chunks, and the  *)
(* chunks are translated for a client of one of two dialects, streamed or  *)
(* folded into one response. A piece of text or of arguments is a number.  *)
(***************************************************************************)
EXTENDS Integers, Sequences, FiniteSets, SequencesExt

CONSTANT MaxParts    \* bound: parts before the upstream's finish reason

RelayAssumption == MaxParts \in Nat

VARIABLES kind,      \* the upstream's dialect
          quirk,     \* usageOptional
          said,      \* history: blocks of text or calls, in the order they were opened
          parts,     \* pieces so far
          adapter,   \* locals of the adapter's stream()
          chunks,    \* what it has yielded
          line       \* "open", "ended" (the adapter returned) or "thrown"

vars == <<kind, quirk, said, parts, adapter, chunks, line>>

Kinds == {"openai-compat", "anthropic", "google"}
Reasons == [k \in Kinds |->
    CASE k = "openai-compat" -> {"stop", "tool_calls", "function_call", "length", "content_filter"}
      [] k = "anthropic" -> {"end_turn", "stop_sequence", "tool_use", "max_tokens", "refusal"}
      [] OTHER -> {"STOP", "MAX_TOKENS", "SAFETY"}]

(* The finish reasons of the three vendors, and of the two clients.        *)
mapFinishReason(k, reason, sawCall) ==
    CASE reason \in {"tool_calls", "function_call", "tool_use"} -> "tool_calls"
      [] reason \in {"length", "max_tokens", "MAX_TOKENS"} -> "length"
      [] reason \in {"content_filter", "refusal", "SAFETY"} -> "content_filter"
      [] OTHER -> IF k = "google" /\ sawCall THEN "tool_calls" ELSE "stop"
toAnthropicStopReason(r) ==
    CASE r = "tool_calls" -> "tool_use" [] r = "length" -> "max_tokens"
      [] r = "content_filter" -> "refusal" [] OTHER -> "end_turn"
toOpenAIFinishReason(r) == IF r = "error" THEN "stop" ELSE r

Chunk(type, i, x) == [type |-> type, index |-> i, x |-> x]
TextDelta(n) == Chunk("text_delta", 0, n)
CallStart(i, id) == Chunk("tool_call_start", i, id)
CallDelta(i, n) == Chunk("tool_call_delta", i, n)
MessageEnd(reason) == Chunk("message_end", 0, reason)
Error == Chunk("error", 0, "error")

Calls == SelectSeq(said, LAMBDA b : b.kind = "call")

Init ==
    /\ kind \in Kinds /\ quirk \in BOOLEAN /\ (quirk => kind = "openai-compat")
    /\ said = <<>> /\ parts = 0 /\ chunks = <<>> /\ line = "open"
    /\ adapter = [started |-> {}, finish |-> "none", usage |-> FALSE, complete |-> FALSE]

----------------------------------------------------------------------------
(* The upstream. Only an OpenAI-compatible one says more after its reason. *)
Speaking == line = "open" /\ parts < MaxParts /\ adapter.finish = "none"

(* Text: into the block at hand, or a new one.                             *)
Text ==
    /\ Speaking /\ parts' = parts + 1
    /\ said' = IF said # <<>> /\ Last(said).kind = "text"
               THEN [said EXCEPT ![Len(said)].body = Append(@, parts)]
               ELSE Append(said, [kind |-> "text", id |-> <<>>, index |-> 0, body |-> <<parts>>])
    /\ chunks' = Append(chunks, TextDelta(parts))
    /\ UNCHANGED <<kind, quirk, adapter, line>>

(* slip: a call is numbered among the calls opened since the last text *)
CallIndex_PerRun ==
    IF kind = "anthropic" THEN Len(said)
    ELSE Cardinality({i \in 1..Len(said) : said[i].kind = "call"
                                            /\ \A j \in i..Len(said) : said[j].kind = "call"})
(* An Anthropic block's place counts the text blocks as well.              *)
CallIndex == IF kind = "anthropic" THEN Len(said) ELSE Len(Calls)

(* A call opens, with an id of its own or with one the adapter makes up.   *)
(* Gemini's calls come whole.                                              *)
Call(named) ==
    LET id == IF named THEN <<"id", parts>> ELSE <<"call", CallIndex>>
        body == IF kind = "google" THEN <<parts>> ELSE <<>> IN
    /\ Speaking /\ parts' = parts + 1 /\ (kind = "anthropic" => named)
    /\ said' = Append(said, [kind |-> "call", id |-> id, index |-> CallIndex, body |-> body])
    /\ adapter' = [adapter EXCEPT !.started = @ \union {CallIndex}]
    /\ chunks' = chunks \o <<CallStart(CallIndex, id)>>
                        \o (IF kind = "google" THEN <<CallDelta(CallIndex, parts)>> ELSE <<>>)
    /\ UNCHANGED <<kind, quirk, line>>

(* A piece of the last call's arguments. The vendors' streams finish a call *)
(* before they open the next, and the client of the Anthropic dialect,     *)
(* whose piece goes to the block that is open, relies on it.               *)
Args ==
    LET b == Len(said) IN
    /\ Speaking /\ kind # "google" /\ b > 0 /\ said[b].kind = "call"
    /\ parts' = parts + 1
    /\ said' = [said EXCEPT ![b].body = Append(@, parts)]
    /\ chunks' = IF kind = "anthropic" /\ said[b].index \notin adapter.started THEN chunks
                 ELSE Append(chunks, CallDelta(said[b].index, parts))
    /\ UNCHANGED <<kind, quirk, adapter, line>>

(* The reason it stopped: Anthropic's comes with the count of tokens.      *)
Finish(reason) ==
    /\ line = "open" /\ adapter.finish = "none"
    /\ adapter' = [adapter EXCEPT !.finish = reason, !.usage = @ \/ kind = "anthropic"]
    /\ UNCHANGED <<kind, quirk, said, parts, chunks, line>>

Usage ==
    /\ line = "open" /\ kind # "anthropic" /\ ~adapter.usage
    /\ adapter' = [adapter EXCEPT !.usage = TRUE]
    /\ UNCHANGED <<kind, quirk, said, parts, chunks, line>>

MessageStop ==
    /\ line = "open" /\ kind = "anthropic" /\ adapter.finish # "none" /\ ~adapter.complete
    /\ adapter' = [adapter EXCEPT !.complete = TRUE]
    /\ UNCHANGED <<kind, quirk, said, parts, chunks, line>>

(* The body ended: was it all there?                                       *)
Whole ==
    CASE kind = "anthropic" -> adapter.complete
      [] kind = "google" -> adapter.finish # "none"
      [] OTHER -> adapter.finish # "none" /\ (adapter.usage \/ quirk)

End ==
    /\ line = "open" /\ line' = "ended"
    /\ chunks' = Append(chunks, IF Whole
                                THEN MessageEnd(mapFinishReason(kind, adapter.finish, Calls # <<>>))
                                ELSE Error)
    /\ UNCHANGED <<kind, quirk, said, parts, adapter>>

(* The socket dies, the call is aborted or refused.                        *)
Drop ==
    /\ line = "open" /\ line' = "ended" /\ chunks' = Append(chunks, Error)
    /\ UNCHANGED <<kind, quirk, said, parts, adapter>>

(* Above the adapter: the router, or an orchestration, throws.             *)
Throw ==
    /\ line = "open" /\ line' = "thrown"
    /\ UNCHANGED <<kind, quirk, said, parts, adapter, chunks>>

Next ==
    \/ Text \/ Usage \/ MessageStop \/ End \/ Drop \/ Throw
    \/ \E b \in BOOLEAN : Call(b)
    \/ Args
    \/ \E reason \in Reasons[kind] : Finish(reason)

Spec == Init /\ [][Next]_vars
----------------------------------------------------------------------------
(* collectStream: the fold of the chunks into one response.                *)
Collected ==
    LET Add(r, c) ==
            CASE r.failed -> r
              [] c.type = "text_delta" -> [r EXCEPT !.text = Append(@, c.x)]
              [] c.type = "tool_call_start" ->
                     [r EXCEPT !.calls = Append(@, [index |-> c.index, id |-> c.x, body |-> <<>>])]
              [] c.type = "tool_call_delta" ->
                     IF \E i \in 1..Len(r.calls) : r.calls[i].index = c.index
                     THEN [r EXCEPT !.calls = [i \in 1..Len(@) |->
                              IF @[i].index = c.index
                              THEN [@[i] EXCEPT !.body = Append(@, c.x)] ELSE @[i]]]
                     ELSE [r EXCEPT !.failed = TRUE]
              [] c.type = "message_end" -> [r EXCEPT !.finish = c.x]
              [] OTHER -> [r EXCEPT !.failed = TRUE]
        all == FoldLeft(Add, [text |-> <<>>, calls |-> <<>>, finish |-> "none", failed |-> FALSE],
                        chunks)
    IN  [all EXCEPT !.calls = SortSeq(@, LAMBDA a, b : a.index < b.index),
                    !.failed = @ \/ all.finish = "none"]

(* The Anthropic stream. An event is of a block, or ends the message.      *)
Event(type, i, x) == [type |-> type, index |-> i, x |-> x]
CloseOpen(t) ==
    IF t.open = "none" THEN t
    ELSE [t EXCEPT !.open = "none", !.out = Append(@, Event("content_block_stop", t.index, t.open))]
Opened(t, what) ==
    LET c == CloseOpen(t)
    IN  [c EXCEPT !.index = @ + 1, !.open = what[1],
                  !.out = Append(@, Event("content_block_start", c.index + 1, what))]
EndMessage(t, stop) ==
    LET c == CloseOpen(t) IN
    IF t.ended THEN t
    ELSE [c EXCEPT !.ended = TRUE, !.out = @ \o <<Event("message_delta", 0, stop), Event("message_stop", 0, 0)>>]
Fail(t) == LET c == CloseOpen(t) IN [c EXCEPT !.out = Append(@, Event("error", 0, 0))]

Translate(t, c) ==
    LET Delta(s) == [s EXCEPT !.out = Append(@, Event("content_block_delta", s.index, <<c.type, c.x>>))]
    IN  CASE c.type = "text_delta" -> Delta(IF t.open = "text" THEN t ELSE Opened(t, <<"text">>))
          [] c.type = "tool_call_start" -> Opened(t, <<"call", c.x>>)
          [] c.type = "tool_call_delta" -> Delta(t)
          [] c.type = "message_end" -> EndMessage(t, toAnthropicStopReason(c.x))
          [] OTHER -> EndMessage(Fail(t), "end_turn")

(* The route: what the stream's end, or its throw, adds.                   *)
AnthropicEvents ==
    LET t == FoldLeft(Translate, [index |-> -1, open |-> "none", ended |-> FALSE, out |-> <<>>], chunks)
        thrown == [t EXCEPT !.out = Append(@, Event("error", 0, 0))]
    IN  CASE line = "open" -> t.out
          [] line = "thrown" -> EndMessage(thrown, "end_turn").out
          [] OTHER -> EndMessage(t, "end_turn").out

(* The OpenAI stream: a frame for a chunk.                                 *)
toOpenAIChunk(c) ==
    CASE c.type = "message_end" -> [c EXCEPT !.x = toOpenAIFinishReason(c.x)]
      [] OTHER -> c
OpenAIFrames == [i \in 1..Len(chunks) |-> toOpenAIChunk(chunks[i])]
                    \o (IF line = "thrown" THEN <<Error>> ELSE <<>>)
----------------------------------------------------------------------------
Flat(blocks) == FoldLeft(LAMBDA s, b : s \o b.body, <<>>, blocks)
TextSaid == Flat(SelectSeq(said, LAMBDA b : b.kind = "text"))
CallsSaid == [i \in 1..Len(Calls) |-> <<Calls[i].id, Calls[i].body>>]

(* What a client of each dialect has read (external): blocks by index.     *)
ReadAnthropic ==
    LET Read(r, e) ==
            CASE e.type = "content_block_start" ->
                     [r EXCEPT !.ok = @ /\ ~r.open /\ e.index = Len(r.blocks) /\ ~r.over, !.open = TRUE,
                               !.blocks = Append(@, [what |-> e.x, body |-> <<>>])]
              [] e.type = "content_block_delta" ->
                     IF r.open /\ e.index + 1 = Len(r.blocks)
                        /\ (e.x[1] = "text_delta") = (Last(r.blocks).what[1] = "text")
                     THEN [r EXCEPT !.blocks[e.index + 1].body = Append(@, e.x[2])]
                     ELSE [r EXCEPT !.ok = FALSE]
              [] e.type = "content_block_stop" ->
                     [r EXCEPT !.ok = @ /\ r.open /\ e.index + 1 = Len(r.blocks), !.open = FALSE]
              [] e.type = "message_delta" -> [r EXCEPT !.ok = @ /\ ~r.over, !.stop = e.x]
              [] e.type = "message_stop" -> [r EXCEPT !.ok = @ /\ ~r.open /\ ~r.over, !.over = TRUE]
              [] OTHER -> [r EXCEPT !.failed = TRUE]
    IN  FoldLeft(Read, [blocks |-> <<>>, open |-> FALSE, over |-> FALSE, failed |-> FALSE,
                        stop |-> "none", ok |-> TRUE], AnthropicEvents)

AnthropicText == Flat(SelectSeq(ReadAnthropic.blocks, LAMBDA b : b.what[1] = "text"))
AnthropicCalls ==
    LET calls == SelectSeq(ReadAnthropic.blocks, LAMBDA b : b.what[1] = "call")
    IN  [i \in 1..Len(calls) |-> <<calls[i].what[2], calls[i].body>>]
----------------------------------------------------------------------------
TypeOK ==
    /\ kind \in Kinds /\ quirk \in BOOLEAN /\ line \in {"open", "ended", "thrown"}
    /\ parts \in 0..MaxParts /\ adapter.started \subseteq 0..MaxParts
    /\ adapter.usage \in BOOLEAN /\ adapter.complete \in BOOLEAN

(* The adapter's contract (contract.ts:6): exactly one terminal chunk, the *)
(* last; every piece of arguments after the start of its call; and the end *)
(* of a message only when the upstream had said all of it.                 *)
ContractKept ==
    /\ \A i \in 1..Len(chunks) :
           /\ (chunks[i].type \in {"message_end", "error"}) => i = Len(chunks) /\ line = "ended"
           /\ chunks[i].type = "tool_call_delta"
              => \E j \in 1..(i - 1) : chunks[j].type = "tool_call_start" /\ chunks[j].index = chunks[i].index
           /\ \A j \in 1..(i - 1) : chunks[i].type = "tool_call_start" /\ chunks[j].type = "tool_call_start"
                                    => chunks[i].index # chunks[j].index
    /\ line = "ended" => Last(chunks).type \in {"message_end", "error"}
    /\ \A i \in 1..Len(chunks) : chunks[i].type = "message_end" => adapter.finish # "none"

(* However a stream is cut, an Anthropic client sees one block open at a   *)
(* time and exactly one end of the message, after every block; and it is   *)
(* told of the failure before.                                             *)
AlwaysWellFormed ==
    LET r == ReadAnthropic IN
    /\ r.ok /\ r.over = (line # "open")
    /\ line # "open" => (r.failed <=> chunks = <<>> \/ Last(chunks).type # "message_end")

(* A client reads what the model said, whichever the two dialects, with or *)
(* without streaming: the text, every call under its id with all of its    *)
(* arguments, and what made the model stop.                                *)
ReadsWhatWasSaid ==
    line = "ended" /\ Last(chunks).type = "message_end" =>
        LET c == Collected reason == Last(chunks).x IN
        /\ ~c.failed /\ c.text = TextSaid /\ c.finish = reason
        /\ [i \in 1..Len(c.calls) |-> <<c.calls[i].id, c.calls[i].body>>] = CallsSaid
        /\ AnthropicText = TextSaid /\ AnthropicCalls = CallsSaid
        /\ ReadAnthropic.stop = toAnthropicStopReason(reason)
        /\ Last(OpenAIFrames).x = reason
        /\ reason = "tool_calls" <=> adapter.finish \in {"tool_calls", "function_call", "tool_use"}
                                     \/ (adapter.finish = "STOP" /\ Calls # <<>>)

=============================================================================
