----------------------------- MODULE Renderers ------------------------------
(***************************************************************************)
(* How canonical chunks become the frames of the three public streams:     *)
(* toOpenAIChatChunk (contracts/openai/chatTransport.ts),                  *)
(* canonicalChunksToMessagesEvents (contracts/anthropic/messagesRender.ts) *)
(* and canonicalChunksToResponsesEvents (contracts/openai/                 *)
(* responsesRender.ts). Encrypted reasoning items, which only native       *)
(* Responses streams carry, travel inside the native events.               *)
(***************************************************************************)
EXTENDS Wires

\* A frame opens, extends or closes a block (an output item), or ends the stream.
Frame(at, block, type, pieces) == [at |-> at, block |-> block, type |-> type, pieces |-> pieces]

\* The pieces a chunk brings.
PiecesOf(c) == {c.text, c.think, IF c.tools = <<>> THEN 0 ELSE c.tools[1].piece} \ {0}

\* What a renderer keeps between chunks; out is what it emits for one chunk.
ViewStart == [out |-> <<>>, next |-> 0, text |-> None, think |-> None, streamed |-> FALSE,
              native |-> FALSE, late |-> {}, tools |-> [i \in {0, 1} |-> None],
              calls |-> <<>>, args |-> [i \in {0, 1} |-> {}], fin |-> None, usage |-> 0]

Emit(v, f) == [v EXCEPT !.out = Append(@, f)]

OpenNew(v, part) ==
    Emit([v EXCEPT ![part] = v.next, !.next = @ + 1], Frame("open", v.next, part, {}))
Opening(v, part) == IF v[part] = None THEN OpenNew(v, part) ELSE v
Closing(v, part) ==
    IF v[part] = None THEN v ELSE Emit([v EXCEPT ![part] = None], Frame("close", v[part], part, {}))
Extend(v, part, piece) == Emit(v, Frame("delta", v[part], part, {piece}))

Noting(v, c) ==
    [v EXCEPT !.out = <<>>, !.usage = IF c.usage # 0 THEN c.usage ELSE @,
              !.fin = IF c.choice = 0 /\ c.fin # None THEN c.fin ELSE @]
-----------------------------------------------------------------------------
(* Chat Completions: a chunk is a frame. *)

ChatChunk(v, c) ==
    LET type == IF c.tools # <<>> THEN "tool" ELSE IF c.text # 0 THEN "text"
                ELSE IF c.think # 0 THEN "think" ELSE IF c.usage # 0 THEN "usage" ELSE "empty"
    IN  Emit(Noting(v, c), Frame("delta", c.choice, type, PiecesOf(c)))
-----------------------------------------------------------------------------
(* Messages: thinking is shown when it is native, blocks are numbered. *)

ToolOpens(v, i) ==
    LET w == Closing(Closing(v, "text"), "think")
    IN  Emit([w EXCEPT !.tools[i] = w.next, !.next = @ + 1], Frame("open", w.next, "tool", {}))

ToolBlock(v, tool) ==
    LET w == IF v.tools[tool.index] = None THEN ToolOpens(v, tool.index) ELSE v
    IN  IF tool.piece = 0 THEN w ELSE Emit(w, Frame("delta", w.tools[tool.index], "tool", {tool.piece}))

\* A redacted block is complete at once; a signature extends open thinking.
NativeBlock(v, native) ==
    CASE native = None -> v
      [] native = "flag" -> [v EXCEPT !.native = TRUE]
      [] native = "block" -> IF v.think = None THEN [v EXCEPT !.native = TRUE]
                             ELSE Emit([v EXCEPT !.native = TRUE], Frame("delta", v.think, "think", {}))
      [] native = "redacted" ->
            LET w == Closing(v, "think")
            IN  [w EXCEPT !.next = @ + 1,
                          !.out = @ \o <<Frame("open", w.next, "redacted", {}), Frame("close", w.next, "redacted", {})>>]

TextBlock(v, c) ==
    IF c.text = 0 THEN v ELSE Extend(Opening(Closing(v, "think"), "text"), "text", c.text)

ThinkBlock(v, c) ==
    IF c.think = 0 \/ ~v.native THEN v ELSE Extend(Opening(v, "think"), "think", c.think)

MessagesChunk(v, c) ==
    LET w == TextBlock(ThinkBlock(NativeBlock(Noting(v, c), c.native), c), c)
    IN  IF c.choice = None THEN Noting(v, c) ELSE IF c.tools = <<>> THEN w ELSE ToolBlock(w, c.tools[1])

\* mapStopReason.
StopReason == [stop |-> "end_turn", length |-> "max_tokens", tool_calls |-> "tool_use", content_filter |-> "refusal"]

CloseTools(v) ==
    LET shut(i) == IF v.tools[i] = None THEN <<>> ELSE <<Frame("close", v.tools[i], "tool", {})>>
        swapped == None \notin {v.tools[0], v.tools[1]} /\ v.tools[1] < v.tools[0]
    IN  [v EXCEPT !.tools = [i \in {0, 1} |-> None],
                  !.out = @ \o (IF swapped THEN shut(1) \o shut(0) ELSE shut(0) \o shut(1))]

MessagesEnd(v) ==
    Emit(CloseTools(Closing(Closing(v, "think"), "text")),
         Frame("end", 0, StopReason[v.fin], {}))
-----------------------------------------------------------------------------
(* Responses: native events as they are, else items made from the deltas. *)

ReasoningItem(v, c) ==
    CASE c.think = 0 -> v
      [] c.think # 0 /\ ~v.streamed /\ v.text = None ->
            Extend(OpenNew([v EXCEPT !.streamed = TRUE], "think"), "think", c.think)
      [] c.think # 0 /\ v.streamed /\ v.think # None -> Extend(v, "think", c.think)
      [] OTHER -> [v EXCEPT !.late = @ \cup {c.think}]

MessageItem(v, c) ==
    IF c.text = 0 THEN v
    ELSE Extend(IF v.text = None THEN OpenNew(Closing(v, "think"), "text") ELSE v, "text", c.text)

Remember(v, tool) ==
    [v EXCEPT !.calls = IF \E j \in 1..Len(@) : @[j] = tool.index THEN @ ELSE Append(@, tool.index),
              !.args[tool.index] = IF tool.piece = 0 THEN @ ELSE @ \cup {tool.piece}]

ResponsesChunk(v, c) ==
    LET w == Noting(v, c)
        made == MessageItem(ReasoningItem(w, c), c)
    IN  IF c.choice = None THEN w
        ELSE IF c.event # None THEN Emit([w EXCEPT !.native = TRUE], Frame("native", 0, c.event, PiecesOf(c)))
        ELSE IF w.native THEN w
        ELSE IF c.tools = <<>> THEN made ELSE Remember(made, c.tools[1])

\* Mutated form: reasoning that never had an item of its own is left out.
TrailingNone(v) == v

\* Reasoning that came after the message, if none was streamed before it.
Trailing(v) ==
    IF v.late = {} \/ v.streamed THEN v
    ELSE LET b == v.next
         IN  [v EXCEPT !.next = @ + 1,
                       !.out = @ \o <<Frame("open", b, "think", {}), Frame("delta", b, "think", v.late),
                                      Frame("close", b, "think", {})>>]

CallItem(b, args) ==
    <<Frame("open", b, "tool", {}), Frame("delta", b, "tool", args), Frame("close", b, "tool", {})>>

CallItems(v) ==
    LET n == Len(v.calls)
        item(j) == CallItem(v.next + j - 1, v.args[v.calls[j]])
    IN  [v EXCEPT !.out = CASE n = 0 -> @ [] n = 1 -> @ \o item(1) [] OTHER -> @ \o item(1) \o item(2)]

\* Mutated form: withheld output counts as complete.
ResponseStatusOfLength(fin) == IF fin = "length" THEN "incomplete" ELSE "completed"

\* statusFor.
ResponseStatus(fin) == IF fin \in {"length", "content_filter"} THEN "incomplete" ELSE "completed"

ResponsesEnd(v) ==
    LET made == CallItems(Trailing(Closing(Closing(v, "think"), "text")))
    IN  Emit(IF v.native THEN v ELSE made, Frame("end", 0, ResponseStatus(v.fin), {}))
-----------------------------------------------------------------------------
Begin(public) == IF public = "chat" THEN <<>> ELSE <<Frame("begin", 0, "in_progress", {})>>

Render(public, v, c) ==
    CASE public = "chat" -> ChatChunk(v, c)
      [] public = "messages" -> MessagesChunk(v, c)
      [] public = "responses" -> ResponsesChunk(v, c)

\* The terminal chunk names the reason of each choice; then the events end.
RenderEnd(public, v, ends) ==
    LET first == IF 0 \in DOMAIN ends THEN ends[0] ELSE ends[1]
        w == Noting(v, [Chunk EXCEPT !.fin = first])
    IN  CASE public = "chat" -> Emit(w, Frame("end", 0, first, {}))
          [] public = "messages" -> MessagesEnd(w)
          [] public = "responses" -> ResponsesEnd(w)
=============================================================================
