------------------------------- MODULE Wires -------------------------------
(***************************************************************************)
(* How the streams of the four provider protocols become the gateway's     *)
(* canonical chunks (adapters/openaiStyle.ts, adapters/anthropic/index.ts, *)
(* adapters/google/index.ts, contracts/openai/responsesTransport.ts), and  *)
(* what the same content becomes when the provider answers with one JSON   *)
(* document. A piece of text, of reasoning or of a tool's arguments is the *)
(* number of the event that brought it.                                    *)
(***************************************************************************)
EXTENDS Naturals, Sequences

CONSTANT None

WireNames == {"chat_completions", "messages", "gemini", "responses"}
FinishReasons == {"stop", "length", "tool_calls", "content_filter"}

\* A chunk without choices, as every parser emits for what it only notes.
Note == [choice |-> None, think |-> 0, text |-> 0, tools |-> <<>>, native |-> None,
         event |-> None, fin |-> None, usage |-> 0, terminal |-> None]
Chunk == [Note EXCEPT !.choice = 0]

\* An event of a provider: its kind, the index it names and the reason it gives.
Event(k, i, r) == [k |-> k, i |-> i, r |-> r]
Plain(kinds) == {Event(k, 0, None) : k \in kinds}
Indexed(kinds) == {Event(k, i, None) : k \in kinds, i \in {0, 1}}
Ending(kind, reasons) == {Event(kind, 0, r) : r \in reasons}

EventsOf == [chat_completions |->
                Plain({"text", "think", "usage", "junk", "error", "done"}) \cup Indexed({"tool"})
                    \cup Ending("fin", FinishReasons \cup {"odd"})
                    \cup {Event("text", 1, None), Event("fin", 1, "stop"), Event("fin", 1, "length")},
             messages |->
                Plain({"thinking", "think", "block", "redacted", "text", "stop", "error", "ping"})
                    \cup Indexed({"tool", "args"})
                    \cup Ending("delta", {"end_turn", "max_tokens", "tool_use", "refusal", "odd", None}),
             gemini |->
                Plain({"text", "think", "call", "blocked", "usage", "junk", "done"})
                    \cup Ending("fin", {"STOP", "MAX_TOKENS", "SAFETY", "MALFORMED_FUNCTION_CALL"}),
             responses |->
                Plain({"created", "text", "think", "item", "failed", "done"}) \cup Indexed({"tool", "args"})
                    \cup Ending("completed", {None}) \cup Ending("incomplete", {"max_output_tokens", "filter"})]

\* What a parser makes of an event: chunks, an error, or its end.
Yields(p, chunks) == [p |-> p, chunks |-> chunks, error |-> None, ends |-> FALSE]
Throws(p, code) == [p |-> p, chunks |-> <<>>, error |-> code, ends |-> FALSE]
Returns(p) == [p |-> p, chunks |-> <<>>, error |-> None, ends |-> TRUE]

ParserStart == [blocks |-> FALSE,   \* a thinking block is open (messages)
                pending |-> None,   \* the reason of a message_delta (messages)
                last |-> 0,         \* the usage of that message_delta
                called |-> FALSE,   \* a functionCall was among the parts (gemini)
                over |-> FALSE]     \* a terminal event was seen (messages, responses)

Tool(i, piece) == <<[index |-> i, piece |-> piece]>>

-----------------------------------------------------------------------------
\* completionsStream and parseOpenAIChatChunk.
ChatParse(p, e, n) ==
    LET c == [Chunk EXCEPT !.choice = e.i]
    IN CASE e.k = "text" -> Yields(p, <<[c EXCEPT !.text = n]>>)
         [] e.k = "think" -> Yields(p, <<[c EXCEPT !.think = n]>>)
         [] e.k = "tool" -> Yields(p, <<[Chunk EXCEPT !.tools = Tool(e.i, n)]>>)
         [] e.k = "usage" -> Yields(p, <<[Note EXCEPT !.usage = n]>>)
         [] e.k = "fin" /\ e.r # "odd" -> Yields(p, <<[c EXCEPT !.fin = e.r]>>)
         [] e.k = "done" -> Returns(p)
         [] e.k = "error" -> Throws(p, "upstream_error")
         [] OTHER -> Throws(p, "upstream_protocol_error")

-----------------------------------------------------------------------------
\* mapFinishReason of the Anthropic adapter; None stands for a missing reason.
AnthropicFinish == [end_turn |-> "stop", max_tokens |-> "length", tool_use |-> "tool_calls", refusal |-> "content_filter"]

MessagesDelta(p, e, n) ==
    IF p.pending # None \/ e.r \notin DOMAIN AnthropicFinish THEN Throws(p, "upstream_protocol_error")
    ELSE Yields([p EXCEPT !.pending = AnthropicFinish[e.r], !.last = n], <<>>)

\* Mutated form: the reason of the message_delta is forgotten.
MessagesStopPlain(p) == Yields([p EXCEPT !.over = TRUE], <<[Chunk EXCEPT !.fin = "stop", !.usage = p.last]>>)

MessagesStop(p) ==
    IF p.over \/ p.pending = None THEN Throws(p, "upstream_protocol_error")
    ELSE Yields([p EXCEPT !.over = TRUE], <<[Chunk EXCEPT !.fin = p.pending, !.usage = p.last]>>)

\* parseStream of the Anthropic adapter. The tools it announces start empty.
MessagesParse(p, e, n) ==
    CASE e.k = "thinking" -> Yields([p EXCEPT !.blocks = TRUE], <<[Chunk EXCEPT !.native = "flag"]>>)
      [] e.k = "think" -> Yields(p, <<[Chunk EXCEPT !.think = n]>>)
      [] e.k = "block" -> Yields([p EXCEPT !.blocks = FALSE],
                                 IF p.blocks THEN <<[Chunk EXCEPT !.native = "block"]>> ELSE <<>>)
      [] e.k = "redacted" -> Yields(p, <<[Chunk EXCEPT !.native = "redacted"]>>)
      [] e.k = "text" -> Yields(p, <<[Chunk EXCEPT !.text = n]>>)
      [] e.k = "tool" -> Yields(p, <<[Chunk EXCEPT !.tools = Tool(e.i, 0)]>>)
      [] e.k = "args" -> Yields(p, <<[Chunk EXCEPT !.tools = Tool(e.i, n)]>>)
      [] e.k = "delta" -> MessagesDelta(p, e, n)
      [] e.k = "stop" -> MessagesStop(p)
      [] e.k = "ping" -> Yields(p, <<Note>>)
      [] OTHER -> Throws(p, "upstream_error")

-----------------------------------------------------------------------------
\* mapGeminiFinish, with the calls among all parts so far.
GeminiFinish(r, called) ==
    CASE r = "STOP" -> IF called THEN "tool_calls" ELSE "stop"
      [] r = "MAX_TOKENS" -> "length"
      [] r = "SAFETY" -> "content_filter"

\* parseStream of the Google adapter. Calls are numbered within one event.
GeminiParse(p, e, n) ==
    CASE e.k = "text" -> Yields(p, <<[Chunk EXCEPT !.text = n]>>)
      [] e.k = "think" -> Yields(p, <<[Chunk EXCEPT !.think = n]>>)
      [] e.k = "call" -> Yields([p EXCEPT !.called = TRUE], <<[Chunk EXCEPT !.tools = Tool(0, n)]>>)
      [] e.k = "blocked" -> Yields(p, <<[Chunk EXCEPT !.fin = "content_filter"]>>)
      [] e.k = "usage" -> Yields(p, <<[Note EXCEPT !.usage = n]>>)
      [] e.k = "fin" /\ e.r # "MALFORMED_FUNCTION_CALL" ->
            Yields(p, <<[Chunk EXCEPT !.fin = GeminiFinish(e.r, p.called), !.usage = n]>>)
      [] e.k = "fin" /\ e.r = "MALFORMED_FUNCTION_CALL" -> Throws(p, "upstream_invalid_tool_call")
      [] e.k = "done" -> Returns(p)
      [] OTHER -> Throws(p, "upstream_protocol_error")

-----------------------------------------------------------------------------
\* finishFrom: a call among the output hides that the response is incomplete.
ResponsesFinish(e, called) ==
    CASE called -> "tool_calls"
      [] ~called /\ e.k = "completed" -> "stop"
      [] ~called /\ e.k = "incomplete" -> IF e.r = "max_output_tokens" THEN "length" ELSE "content_filter"

ResponsesTerminal(e, called) ==
    [outcome |-> e.k, reason |-> ResponsesFinish(e, called)]

\* responsesEventsToCanonicalChunks: every item event also carries itself.
ResponsesParse(p, e, n) ==
    LET c == [Chunk EXCEPT !.event = e.k]
    IN CASE e.k = "done" -> Returns(p)
         [] e.k # "done" /\ p.over -> Throws(p, "upstream_protocol_error")
         [] ~p.over /\ e.k = "failed" -> Throws(p, "upstream_error")
         [] ~p.over /\ e.k = "created" -> Yields(p, <<>>)
         [] ~p.over /\ e.k = "text" -> Yields(p, <<[c EXCEPT !.text = n]>>)
         [] ~p.over /\ e.k = "think" -> Yields(p, <<[c EXCEPT !.think = n]>>)
         [] ~p.over /\ e.k = "tool" -> Yields([p EXCEPT !.called = TRUE], <<[c EXCEPT !.tools = Tool(e.i, 0)]>>)
         [] ~p.over /\ e.k = "args" -> Yields(p, <<[c EXCEPT !.tools = Tool(e.i, n)]>>)
         [] ~p.over /\ e.k = "item" -> Yields(p, <<c>>)
         [] ~p.over /\ e.k \in {"completed", "incomplete"} ->
                Yields([p EXCEPT !.over = TRUE],
                       <<[Chunk EXCEPT !.fin = ResponsesFinish(e, p.called), !.usage = n,
                                       !.terminal = ResponsesTerminal(e, p.called)]>>)

Parse(wire, p, e, n) ==
    CASE wire = "chat_completions" -> ChatParse(p, e, n)
      [] wire = "messages" -> MessagesParse(p, e, n)
      [] wire = "gemini" -> GeminiParse(p, e, n)
      [] wire = "responses" -> ResponsesParse(p, e, n)

\* The connection ends: only Chat Completions must have said so before.
ParseEof(wire, p) == IF wire = "chat_completions" THEN Throws(p, "upstream_protocol_error") ELSE Returns(p)

-----------------------------------------------------------------------------
\* The same content as one JSON document, gathered from the events of a stream:
\* the events that bring its pieces, and the one that ends each choice.

EmptyDocument == [text |-> {}, think |-> {}, args |-> {}, called |-> FALSE, ends |-> <<>>]

BringsArguments(wire, e) == e.k \in {"args", "call"} \/ (e.k = "tool" /\ wire = "chat_completions")
EndKinds == {"fin", "delta", "blocked", "completed", "incomplete"}

Gather(wire, doc, e, n) ==
    [text |-> IF e.k = "text" THEN doc.text \cup {n} ELSE doc.text,
     think |-> IF e.k = "think" THEN doc.think \cup {n} ELSE doc.think,
     args |-> IF BringsArguments(wire, e) THEN doc.args \cup {n} ELSE doc.args,
     called |-> doc.called \/ e.k \in {"tool", "call"},
     ends |-> IF e.k \in EndKinds
              THEN [i \in DOMAIN doc.ends \cup {e.i} |-> IF i = e.i THEN e ELSE doc.ends[i]]
              ELSE doc.ends]

\* The finish reason each parseResponse gives to a choice of the document.
JsonFinish(wire, doc, e) ==
    CASE wire = "chat_completions" -> e.r
      [] wire = "messages" -> IF doc.called THEN "tool_calls" ELSE AnthropicFinish[e.r]
      [] wire = "gemini" /\ e.k = "fin" -> GeminiFinish(e.r, doc.called)
      [] wire = "gemini" /\ e.k = "blocked" -> "content_filter"
      [] wire = "responses" -> ResponsesFinish(e, doc.called)

JsonFinishes(wire, doc) == {JsonFinish(wire, doc, doc.ends[i]) : i \in DOMAIN doc.ends}

\* Only Responses documents carry a terminal of their own.
JsonAdapter(wire, doc) ==
    IF wire # "responses" \/ doc.ends = <<>> THEN None
    ELSE ResponsesTerminal(doc.ends[0], doc.called)

\* What a provider's protocol allows next: pieces belong to an announced block.
Legal(wire, p, doc, e) ==
    /\ wire = "messages" /\ e.k \in {"think", "block"} => p.blocks
    /\ e.k = "args" => doc.called
=============================================================================
