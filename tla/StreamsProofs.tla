---------------------------- MODULE StreamsProofs ----------------------------
(***************************************************************************)
(* For any events of the four providers, streams of any length, and any    *)
(* faults of provider and client: a stream has one verdict, the client,    *)
(* the log and the JSON document of the same content come to one outcome,  *)
(* neither its key nor its deployment pays for what was not its own, and   *)
(* the frames of a finished stream are well formed and show every piece.   *)
(***************************************************************************)
EXTENDS Streams, FiniteSetTheorems, SequenceTheorems, TLAPS

-----------------------------------------------------------------------------
(* Sequences of frames.                                                    *)

\* A sequence of frames of certain kinds.
Of(s, kinds) == \E S : s \in Seq(S) /\ \A f \in S : f.at \in kinds

LEMMA OfParts ==
    ASSUME NEW K, NEW s, NEW t, Of(s, K), Of(t, K)
    PROVE  /\ Of(s \o t, K) /\ Len(s) \in Nat /\ Len(t) \in Nat
           /\ s \o t = <<>> => s = <<>> /\ t = <<>>
           /\ \A f : f.at \in K => Of(Append(s, f), K)
<1>1. PICK S : s \in Seq(S) /\ \A f \in S : f.at \in K
  BY DEF Of
<1>2. PICK T : t \in Seq(T) /\ \A f \in T : f.at \in K
  BY DEF Of
<1>3. s \in Seq(S \cup T) /\ t \in Seq(S \cup T)
  BY <1>1, <1>2
<1>4. s \o t \in Seq(S \cup T) /\ Len(s) \in Nat /\ Len(t) \in Nat /\ Len(s \o t) = Len(s) + Len(t)
  BY <1>3
<1>5. Of(s \o t, K)
  BY <1>1, <1>2, <1>4 DEF Of
<1>6. ASSUME NEW f, f.at \in K PROVE Of(Append(s, f), K)
  <2>1. Append(s, f) \in Seq(S \cup {f})
    BY <1>1
  <2> QED  BY <1>1, <1>6, <2>1 DEF Of
<1>7. ASSUME s \o t = <<>> PROVE s = <<>> /\ t = <<>>
  <2>1. Len(s) = 0 /\ Len(t) = 0
    BY <1>4, <1>7
  <2> QED  BY <1>3, <2>1
<1> QED  BY <1>4, <1>5, <1>6, <1>7

LEMMA OfFew ==
    ASSUME NEW K
    PROVE  /\ Of(<<>>, K)
           /\ \A f : f.at \in K => Of(<<f>>, K)
           /\ \A f, g : f.at \in K /\ g.at \in K => Of(<<f, g>>, K)
<1>1. Of(<<>>, K)
  <2>1. PICK S : S = {}
    OBVIOUS
  <2>2. <<>> \in Seq(S)
    BY EmptySeq
  <2> QED  BY <2>1, <2>2 DEF Of
<1>2. ASSUME NEW f, f.at \in K PROVE Of(<<f>>, K)
  <2>1. PICK S : S = {f}
    OBVIOUS
  <2>2. <<f>> \in Seq(S)
    BY <2>1
  <2> QED  BY <1>2, <2>1, <2>2 DEF Of
<1>3. ASSUME NEW f, NEW g, f.at \in K, g.at \in K PROVE Of(<<f, g>>, K)
  <2>1. PICK S : S = {f, g}
    OBVIOUS
  <2>2. <<f, g>> \in Seq(S)
    BY <2>1
  <2> QED  BY <1>3, <2>1, <2>2 DEF Of
<1> QED  BY <1>1, <1>2, <1>3

USE StreamsAssumption DEF StreamsAssumption
-----------------------------------------------------------------------------
(* What the parsers make of an event.                                      *)

Fins == FinishReasons \cup {None}
Counts == 0..MaxEvents

Natives == {None, "flag", "block", "redacted"}

Parsers == [blocks : BOOLEAN, pending : Fins, last : Counts, called : BOOLEAN, over : BOOLEAN]

ChunkTyped(c) ==
    /\ DOMAIN c = {"choice", "think", "text", "tools", "native", "event", "fin", "usage", "terminal"}
    /\ c.choice \in {None, 0, 1} /\ c.fin \in Fins
    /\ c.usage \in Counts /\ c.terminal \in Terminals \cup {None}
    /\ c.native \in Natives

\* A parser fails, ends, notes the event, or makes a chunk of it.
ParseTyped(y) ==
    /\ y.p \in Parsers /\ y.error \in UpstreamErrors \cup {None}
    /\ y.chunks # <<>> => ChunkTyped(y.chunks[1])

LEMMA YieldsTyped ==
    ASSUME NEW p \in Parsers, NEW c, ChunkTyped(c)
    PROVE  ParseTyped(Yields(p, <<c>>))
BY DEF ParseTyped, Yields

LEMMA SilentTyped ==
    ASSUME NEW p \in Parsers
    PROVE  /\ ParseTyped(Yields(p, <<>>)) /\ ParseTyped(Returns(p))
           /\ \A code \in UpstreamErrors : ParseTyped(Throws(p, code))
BY DEF ParseTyped, Yields, Returns, Throws

\* Chunks differ from Chunk and Note in what they bring.
LEMMA ChunksTyped ==
    /\ ChunkTyped(Note) /\ ChunkTyped(Chunk)
    /\ \A x : /\ ChunkTyped([Chunk EXCEPT !.text = x]) /\ ChunkTyped([Chunk EXCEPT !.think = x])
              /\ ChunkTyped([Chunk EXCEPT !.tools = x])
    /\ \A x \in Natives : ChunkTyped([Chunk EXCEPT !.native = x])
    /\ \A u \in Counts, f \in Fins :
          /\ ChunkTyped([Note EXCEPT !.usage = u])
          /\ ChunkTyped([Chunk EXCEPT !.fin = f])
          /\ ChunkTyped([Chunk EXCEPT !.fin = f, !.usage = u])
BY DEF ChunkTyped, Chunk, Note, Fins, Counts, Natives

\* The members of an alphabet.
LEMMA EventsTyped ==
    ASSUME NEW e
    PROVE  /\ \A K : e \in Plain(K) => e.k \in K /\ e.i = 0 /\ e.r = None
           /\ \A K : e \in Indexed(K) => e.k \in K /\ e.i \in {0, 1} /\ e.r = None
           /\ \A k, R : e \in Ending(k, R) => e.k = k /\ e.i = 0 /\ e.r \in R
<1>1. ASSUME NEW K, e \in Plain(K) PROVE e.k \in K /\ e.i = 0 /\ e.r = None
  BY <1>1 DEF Plain, Event
<1>2. ASSUME NEW K, e \in Indexed(K) PROVE e.k \in K /\ e.i \in {0, 1} /\ e.r = None
  BY <1>2 DEF Indexed, Event
<1>3. ASSUME NEW k, NEW R, e \in Ending(k, R) PROVE e.k = k /\ e.i = 0 /\ e.r \in R
  BY <1>3 DEF Ending, Event
<1> QED  BY <1>1, <1>2, <1>3

LEMMA ChatParseTyped ==
    ASSUME NEW p \in Parsers, NEW e \in EventsOf["chat_completions"], NEW k \in Counts
    PROVE  ParseTyped(ChatParse(p, e, k))
<1>1. e.i \in {0, 1} /\ (e.k = "fin" /\ e.r # "odd" => e.r \in Fins)
  <2>1. \/ e \in Plain({"text", "think", "usage", "junk", "error", "done"})
        \/ e \in Indexed({"tool"})
        \/ e \in Ending("fin", FinishReasons \cup {"odd"})
        \/ e \in {Event("text", 1, None), Event("fin", 1, "stop"), Event("fin", 1, "length")}
    BY DEF EventsOf
  <2>2. CASE e \in {Event("text", 1, None), Event("fin", 1, "stop"), Event("fin", 1, "length")}
    BY <2>2 DEF Event, Fins, FinishReasons
  <2> QED  BY <2>1, <2>2, EventsTyped DEF Fins
<1> DEFINE c == [Chunk EXCEPT !.choice = e.i]
<1>2. /\ ChunkTyped([c EXCEPT !.text = k]) /\ ChunkTyped([c EXCEPT !.think = k])
      /\ e.r \in Fins => ChunkTyped([c EXCEPT !.fin = e.r])
  BY <1>1 DEF ChunkTyped, Chunk, Note, Fins, Counts, Natives
<1> HIDE DEF c
<1>3. "upstream_error" \in UpstreamErrors /\ "upstream_protocol_error" \in UpstreamErrors
  BY DEF UpstreamErrors
<1>4. \A x : ChunkTyped([Chunk EXCEPT !.tools = x]) /\ ChunkTyped([Note EXCEPT !.usage = k])
  <2>1. None \in Fins
    BY DEF Fins
  <2> QED  BY <2>1, ChunksTyped
<1> HIDE DEF ChunkTyped
<1>5. CASE e.k \in {"text", "think"}
  BY <1>2, <1>5, YieldsTyped DEF ChatParse, c
<1>6. CASE e.k \in {"tool", "usage"}
  BY <1>4, <1>6, YieldsTyped DEF ChatParse
<1>7. CASE e.k = "fin" /\ e.r # "odd"
  BY <1>1, <1>2, <1>7, YieldsTyped DEF ChatParse, c
<1> QED
  BY <1>3, <1>5, <1>6, <1>7, SilentTyped DEF ChatParse

LEMMA MessagesParseTyped ==
    ASSUME NEW p \in Parsers, NEW e \in EventsOf["messages"], NEW k \in Counts
    PROVE  ParseTyped(MessagesParse(p, e, k))
<1>1. "upstream_error" \in UpstreamErrors /\ "upstream_protocol_error" \in UpstreamErrors
  BY DEF UpstreamErrors
<1>2. ParseTyped(MessagesDelta(p, e, k))
  <2>1. CASE p.pending # None \/ e.r \notin DOMAIN AnthropicFinish
    BY <1>1, <2>1, SilentTyped DEF MessagesDelta
  <2>2. CASE ~(p.pending # None \/ e.r \notin DOMAIN AnthropicFinish)
    <3>1. AnthropicFinish[e.r] \in Fins
      BY <2>2 DEF AnthropicFinish, Fins, FinishReasons
    <3>2. [p EXCEPT !.pending = AnthropicFinish[e.r], !.last = k] \in Parsers
      BY <3>1 DEF Parsers
    <3> QED  BY <2>2, <3>2, SilentTyped DEF MessagesDelta
  <2> QED  BY <2>1, <2>2
<1>3. ParseTyped(MessagesStop(p))
  <2>1. [p EXCEPT !.over = TRUE] \in Parsers /\ p.pending \in Fins /\ p.last \in Counts
    BY DEF Parsers
  <2> QED  BY <1>1, <2>1, SilentTyped, YieldsTyped, ChunksTyped DEF MessagesStop
<1>4. [p EXCEPT !.blocks = TRUE] \in Parsers /\ [p EXCEPT !.blocks = FALSE] \in Parsers
  BY DEF Parsers
<1> QED
  BY <1>1, <1>2, <1>3, <1>4, SilentTyped, YieldsTyped, ChunksTyped DEF MessagesParse, Natives

LEMMA GeminiParseTyped ==
    ASSUME NEW p \in Parsers, NEW e \in EventsOf["gemini"], NEW k \in Counts
    PROVE  ParseTyped(GeminiParse(p, e, k))
<1>1. /\ "upstream_error" \in UpstreamErrors /\ "upstream_protocol_error" \in UpstreamErrors
      /\ "upstream_invalid_tool_call" \in UpstreamErrors /\ "content_filter" \in Fins
  BY DEF UpstreamErrors, Fins, FinishReasons
<1>2. e.k = "fin" /\ e.r # "MALFORMED_FUNCTION_CALL" => GeminiFinish(e.r, p.called) \in Fins
  <2>1. e.k = "fin" => e.r \in {"STOP", "MAX_TOKENS", "SAFETY", "MALFORMED_FUNCTION_CALL"}
    <3>1. \/ e \in Plain({"text", "think", "call", "blocked", "usage", "junk", "done"})
          \/ e \in Ending("fin", {"STOP", "MAX_TOKENS", "SAFETY", "MALFORMED_FUNCTION_CALL"})
      BY DEF EventsOf
    <3> QED  BY <3>1, EventsTyped
  <2> QED  BY <2>1 DEF GeminiFinish, Fins, FinishReasons
<1>3. [p EXCEPT !.called = TRUE] \in Parsers
  BY DEF Parsers
<1> QED
  BY <1>1, <1>2, <1>3, SilentTyped, YieldsTyped, ChunksTyped DEF GeminiParse

LEMMA ResponsesParseTyped ==
    ASSUME NEW p \in Parsers, NEW e \in EventsOf["responses"], NEW k \in Counts
    PROVE  ParseTyped(ResponsesParse(p, e, k))
<1>1. /\ "upstream_error" \in UpstreamErrors /\ "upstream_protocol_error" \in UpstreamErrors
  BY DEF UpstreamErrors
<1>2. e.k \in {"created", "text", "think", "item", "failed", "done", "tool", "args", "completed", "incomplete"}
  <2>1. \/ e \in Plain({"created", "text", "think", "item", "failed", "done"})
        \/ e \in Indexed({"tool", "args"})
        \/ e \in Ending("completed", {None})
        \/ e \in Ending("incomplete", {"max_output_tokens", "filter"})
    BY DEF EventsOf
  <2> QED  BY <2>1, EventsTyped
<1>3. [p EXCEPT !.called = TRUE] \in Parsers /\ [p EXCEPT !.over = TRUE] \in Parsers
      /\ p.called \in BOOLEAN /\ p.over \in BOOLEAN
  BY DEF Parsers
<1> DEFINE c == [Chunk EXCEPT !.event = e.k]
<1>4. /\ ChunkTyped(c)
      /\ \A x : /\ ChunkTyped([c EXCEPT !.text = x]) /\ ChunkTyped([c EXCEPT !.think = x])
                /\ ChunkTyped([c EXCEPT !.tools = x])
  BY DEF ChunkTyped, Chunk, Note, Fins, Counts, Natives
<1>5. ASSUME e.k \in {"completed", "incomplete"}
      PROVE  ChunkTyped([Chunk EXCEPT !.fin = ResponsesFinish(e, p.called), !.usage = k,
                                      !.terminal = ResponsesTerminal(e, p.called)])
  <2>1. ResponsesFinish(e, p.called) \in FinishReasons
    BY <1>3, <1>5 DEF ResponsesFinish, FinishReasons
  <2>2. ResponsesTerminal(e, p.called) \in Terminals
    BY <1>5, <2>1 DEF ResponsesTerminal, Terminals, Outcomes
  <2> QED  BY <2>1, <2>2 DEF ChunkTyped, Chunk, Note, Fins, Counts, Natives
<1> HIDE DEF c
<1> QED
  BY <1>1, <1>2, <1>3, <1>4, <1>5, SilentTyped, YieldsTyped DEF ResponsesParse, c

LEMMA ParsesTyped ==
    ASSUME NEW w \in WireNames, NEW p \in Parsers, NEW e \in EventsOf[w], NEW k \in Counts
    PROVE  ParseTyped(Parse(w, p, e, k))
BY ChatParseTyped, MessagesParseTyped, GeminiParseTyped, ResponsesParseTyped DEF Parse, WireNames
-----------------------------------------------------------------------------
(* What the renderers emit.                                                *)

\* The frames that are not the last of a stream.
Body == {"begin", "open", "delta", "close", "native"}

\* Frames of the body of a stream, then this one.
EndsOn(s, f) == \E t : Of(t, Body) /\ s = Append(t, f)

Fields == {"out", "next", "text", "think", "streamed", "native", "late", "tools", "calls", "args", "fin", "usage"}

\* The state of a renderer that knows of so much usage.
ViewOf(v, u) == DOMAIN v = Fields /\ v.usage = u /\ Of(v.out, Body)

LEMMA Emits ==
    ASSUME NEW v, NEW u, ViewOf(v, u), NEW f, f.at \in Body
    PROVE  ViewOf(Emit(v, f), u)
BY OfParts DEF ViewOf, Emit, Fields

LEMMA Frames == \A at, block, type, pieces : Frame(at, block, type, pieces).at = at
BY DEF Frame

LEMMA Notes ==
    ASSUME NEW v, DOMAIN v = Fields, NEW c
    PROVE  ViewOf(Noting(v, c), IF c.usage # 0 THEN c.usage ELSE v.usage)
BY OfFew DEF ViewOf, Noting, Fields

LEMMA Parts ==
    ASSUME NEW v, NEW u, ViewOf(v, u), NEW part \in {"text", "think"}
    PROVE  /\ ViewOf(OpenNew(v, part), u) /\ ViewOf(Opening(v, part), u) /\ ViewOf(Closing(v, part), u)
           /\ \A piece : ViewOf(Extend(v, part, piece), u)
<1>1. ViewOf([v EXCEPT ![part] = v.next, !.next = @ + 1], u) /\ ViewOf([v EXCEPT ![part] = None], u)
  BY DEF ViewOf, Fields
<1>2. ViewOf(OpenNew(v, part), u)
  <2>1. Frame("open", v.next, part, {}).at \in Body
    BY Frames DEF Body
  <2> QED  BY <1>1, <2>1, Emits DEF OpenNew
<1>3. ViewOf(Closing(v, part), u)
  <2>1. Frame("close", v[part], part, {}).at \in Body
    BY Frames DEF Body
  <2> QED  BY <1>1, <2>1, Emits DEF Closing
<1>4. ASSUME NEW piece PROVE ViewOf(Extend(v, part, piece), u)
  BY Emits, Frames DEF Extend, Body
<1> QED  BY <1>2, <1>3, <1>4 DEF Opening

LEMMA ChatRenders ==
    ASSUME NEW v, DOMAIN v = Fields, NEW c
    PROVE  ViewOf(ChatChunk(v, c), IF c.usage # 0 THEN c.usage ELSE v.usage)
BY Notes, Emits, Frames DEF ChatChunk, Body

LEMMA MessagesRenders ==
    ASSUME NEW v, DOMAIN v = Fields, NEW c,
           c.native \in Natives
    PROVE  ViewOf(MessagesChunk(v, c), IF c.usage # 0 THEN c.usage ELSE v.usage)
<1> DEFINE u == IF c.usage # 0 THEN c.usage ELSE v.usage
<1> HIDE DEF u
<1>1. ViewOf(Noting(v, c), u)
  BY Notes DEF u
<1>2. ASSUME NEW x, ViewOf(x, u) PROVE ViewOf(NativeBlock(x, c.native), u)
  <2>1. ViewOf([x EXCEPT !.native = TRUE], u)
    BY <1>2 DEF ViewOf, Fields
  <2>2. CASE c.native = "redacted"
    <3>1. ViewOf(Closing(x, "think"), u)
      BY <1>2, Parts
    <3> DEFINE w == Closing(x, "think")
               out == w.out \o <<Frame("open", w.next, "redacted", {}), Frame("close", w.next, "redacted", {})>>
    <3>2. Of(out, Body)
      <4>1. Of(<<Frame("open", w.next, "redacted", {}), Frame("close", w.next, "redacted", {})>>, Body)
        <5>1. /\ Frame("open", w.next, "redacted", {}).at \in Body
              /\ Frame("close", w.next, "redacted", {}).at \in Body
          BY Frames DEF Body
        <5> QED  BY <5>1, OfFew
      <4> QED  BY <3>1, <4>1, OfParts DEF ViewOf
    <3> HIDE DEF out
    <3>3. ViewOf([w EXCEPT !.next = @ + 1, !.out = out], u)
      BY <3>1, <3>2 DEF ViewOf, Fields
    <3>4. NativeBlock(x, c.native) = [w EXCEPT !.next = @ + 1, !.out = out]
      BY <2>2 DEF NativeBlock, out
    <3> QED  BY <3>3, <3>4
  <2>3. CASE c.native # "redacted"
    <3>1. Frame("delta", x.think, "think", {}).at \in Body
      BY Frames DEF Body
    <3> QED  BY <1>2, <2>1, <2>3, <3>1, Emits DEF NativeBlock, Natives
  <2> QED  BY <2>2, <2>3
<1>3. ASSUME NEW x, ViewOf(x, u) PROVE ViewOf(ThinkBlock(x, c), u)
  BY <1>3, Parts DEF ThinkBlock
<1>4. ASSUME NEW x, ViewOf(x, u) PROVE ViewOf(TextBlock(x, c), u)
  BY <1>4, Parts DEF TextBlock
<1>5. ASSUME NEW x, ViewOf(x, u), NEW tool PROVE ViewOf(ToolBlock(x, tool), u)
  <2>1. ViewOf(ToolOpens(x, tool.index), u)
    <3>1. PICK w : w = Closing(Closing(x, "text"), "think") /\ ViewOf(w, u)
      BY <1>5, Parts
    <3>2. ViewOf([w EXCEPT !.tools[tool.index] = w.next, !.next = @ + 1], u)
      BY <3>1 DEF ViewOf, Fields
    <3> QED  BY <3>1, <3>2, Emits, Frames DEF ToolOpens, Body
  <2> QED  BY <1>5, <2>1, Emits, Frames DEF ToolBlock, Body
<1> QED  BY <1>1, <1>2, <1>3, <1>4, <1>5 DEF MessagesChunk, u

LEMMA ResponsesRenders ==
    ASSUME NEW v, DOMAIN v = Fields, NEW c
    PROVE  ViewOf(ResponsesChunk(v, c), IF c.usage # 0 THEN c.usage ELSE v.usage)
<1> DEFINE u == IF c.usage # 0 THEN c.usage ELSE v.usage
<1> HIDE DEF u
<1>1. ViewOf(Noting(v, c), u)
  BY Notes DEF u
<1>2. ASSUME NEW x, ViewOf(x, u) PROVE ViewOf(ReasoningItem(x, c), u)
  <2>1. ViewOf([x EXCEPT !.streamed = TRUE], u) /\ ViewOf([x EXCEPT !.late = @ \cup {c.think}], u)
    BY <1>2 DEF ViewOf, Fields
  <2>2. ViewOf(OpenNew([x EXCEPT !.streamed = TRUE], "think"), u)
    BY <2>1, Parts
  <2>3. ViewOf(Extend(OpenNew([x EXCEPT !.streamed = TRUE], "think"), "think", c.think), u)
    BY <2>2, Parts
  <2>4. ViewOf(Extend(x, "think", c.think), u)
    BY <1>2, Parts
  <2> QED  BY <1>2, <2>1, <2>3, <2>4 DEF ReasoningItem
<1>3. ASSUME NEW x, ViewOf(x, u) PROVE ViewOf(MessageItem(x, c), u)
  <2>1. ViewOf(OpenNew(Closing(x, "think"), "text"), u)
    BY <1>3, Parts
  <2> QED  BY <1>3, <2>1, Parts DEF MessageItem
<1>4. ASSUME NEW x, ViewOf(x, u), NEW tool PROVE ViewOf(Remember(x, tool), u)
  BY <1>4 DEF Remember, ViewOf, Fields
<1>5. ViewOf(Emit([Noting(v, c) EXCEPT !.native = TRUE], Frame("native", 0, c.event, PiecesOf(c))), u)
  <2>1. ViewOf([Noting(v, c) EXCEPT !.native = TRUE], u)
    BY <1>1 DEF ViewOf, Fields
  <2>2. Frame("native", 0, c.event, PiecesOf(c)).at \in Body
    BY Frames DEF Body
  <2> QED  BY <2>1, <2>2, Emits
<1> QED  BY <1>1, <1>2, <1>3, <1>4, <1>5 DEF ResponsesChunk, u

LEMMA Renders ==
    ASSUME NEW a \in {"chat", "messages", "responses"}, NEW v, DOMAIN v = Fields, NEW c, c.native \in Natives
    PROVE  ViewOf(Render(a, v, c), IF c.usage # 0 THEN c.usage ELSE v.usage)
BY ChatRenders, MessagesRenders, ResponsesRenders DEF Render

\* A stream whose last frame ends it.
Over(s) == \E t, f : Of(t, Body) /\ f.at = "end" /\ s = Append(t, f)

LEMMA EmitsEnd ==
    ASSUME NEW v, NEW u, ViewOf(v, u), NEW f
    PROVE  LET w == Emit(v, f) IN DOMAIN w = Fields /\ w.usage = u /\ w.out = Append(v.out, f) /\ Of(v.out, Body)
BY DEF ViewOf, Emit, Fields

LEMMA EndParts ==
    ASSUME NEW v, NEW u, ViewOf(v, u)
    PROVE  /\ ViewOf(CloseTools(v), u)
           /\ ViewOf(Trailing(v), u) /\ ViewOf(CallItems(v), u)
<1>1. ViewOf(CloseTools(v), u)
  <2> DEFINE shut(i) == IF v.tools[i] = None THEN <<>> ELSE <<Frame("close", v.tools[i], "tool", {})>>
             swapped == None \notin {v.tools[0], v.tools[1]} /\ v.tools[1] < v.tools[0]
             shuts == IF swapped THEN shut(1) \o shut(0) ELSE shut(0) \o shut(1)
             tools == [i \in {0, 1} |-> None]
  <2>1. \A i : Frame("close", v.tools[i], "tool", {}).at \in Body
    BY Frames DEF Body
  <2>2. \A i : Of(shut(i), Body)
    BY <2>1, OfFew
  <2>3. Of(shuts, Body)
    <3> HIDE DEF shut, swapped
    <3>1. Of(shut(1) \o shut(0), Body) /\ Of(shut(0) \o shut(1), Body)
      BY <2>2, OfParts
    <3> QED  BY <3>1
  <2> HIDE DEF shuts, tools
  <2>4. Of(v.out \o shuts, Body)
    BY <2>3, OfParts DEF ViewOf
  <2>5. ViewOf([v EXCEPT !.tools = tools, !.out = @ \o shuts], u)
    BY <2>4 DEF ViewOf, Fields
  <2>6. CloseTools(v) = [v EXCEPT !.tools = tools, !.out = @ \o shuts]
    BY DEF CloseTools, shuts, tools
  <2> QED  BY <2>5, <2>6
<1>2. ASSUME NEW x, NEW y, NEW z, x.at \in Body, y.at \in Body, z.at \in Body PROVE Of(<<x, y, z>>, Body)
  <2>1. PICK S : S = {x, y, z}
    OBVIOUS
  <2>2. <<x, y, z>> \in Seq(S)
    BY <2>1
  <2> QED  BY <1>2, <2>1, <2>2 DEF Of
<1>3. ViewOf(Trailing(v), u)
  <2> DEFINE item == <<Frame("open", v.next, "think", {}), Frame("delta", v.next, "think", v.late),
                       Frame("close", v.next, "think", {})>>
  <2>1. Of(item, Body)
    <3>1. /\ Frame("open", v.next, "think", {}).at \in Body
          /\ Frame("delta", v.next, "think", v.late).at \in Body
          /\ Frame("close", v.next, "think", {}).at \in Body
      BY Frames DEF Body
    <3> QED  BY <1>2, <3>1
  <2> HIDE DEF item
  <2>2. Of(v.out \o item, Body)
    BY <2>1, OfParts DEF ViewOf
  <2>3. ViewOf([v EXCEPT !.next = @ + 1, !.out = @ \o item], u)
    BY <2>2 DEF ViewOf, Fields
  <2>4. Trailing(v) \in {v, [v EXCEPT !.next = @ + 1, !.out = @ \o item]}
    BY DEF Trailing, item
  <2> QED  BY <2>3, <2>4
<1>4. ViewOf(CallItems(v), u)
  <2>1. \A b, args : Of(CallItem(b, args), Body)
    <3>1. \A b, args : /\ Frame("open", b, "tool", {}).at \in Body
                       /\ Frame("delta", b, "tool", args).at \in Body
                       /\ Frame("close", b, "tool", {}).at \in Body
      BY Frames DEF Body
    <3> QED  BY <1>2, <3>1 DEF CallItem
  <2> DEFINE item(j) == CallItem(v.next + j - 1, v.args[v.calls[j]])
             out == CASE Len(v.calls) = 0 -> v.out [] Len(v.calls) = 1 -> v.out \o item(1)
                      [] OTHER -> v.out \o item(1) \o item(2)
  <2>2. Of(item(1), Body) /\ Of(item(2), Body)
    BY <2>1
  <2>3. Of(out, Body)
    <3> HIDE DEF item
    <3>1. Of(v.out \o item(1), Body)
      BY <2>2, OfParts DEF ViewOf
    <3>2. Of(v.out \o item(1) \o item(2), Body)
      BY <2>2, <3>1, OfParts
    <3> QED  BY <3>1, <3>2 DEF ViewOf
  <2> HIDE DEF out
  <2>4. ViewOf([v EXCEPT !.out = out], u)
    BY <2>3 DEF ViewOf, Fields
  <2>5. CallItems(v) = [v EXCEPT !.out = out]
    BY DEF CallItems, out
  <2> QED  BY <2>4, <2>5
<1> QED  BY <1>1, <1>3, <1>4

\* The reason a public stream of several choices gives, and how it gives it.
FirstOf(ends) == IF 0 \in DOMAIN ends THEN ends[0] ELSE ends[1]

EndFrame(a, fin) ==
    Frame("end", 0, CASE a = "chat" -> fin [] a = "messages" -> StopReason[fin]
                      [] a = "responses" -> ResponseStatus(fin), {})

LEMMA RendersEnd ==
    ASSUME NEW a \in {"chat", "messages", "responses"}, NEW v, DOMAIN v = Fields, NEW ends
    PROVE  LET w == RenderEnd(a, v, ends)
           IN  /\ DOMAIN w = Fields /\ w.usage = v.usage /\ Over(w.out)
               /\ FirstOf(ends) # None => EndsOn(w.out, EndFrame(a, FirstOf(ends)))
<1> DEFINE first == FirstOf(ends)
           w == Noting(v, [Chunk EXCEPT !.fin = first])
           fin == IF a = "chat" THEN first ELSE w.fin
           end == EndFrame(a, fin)
           shut == Closing(Closing(w, "think"), "text")
           shown == CASE a = "chat" -> w [] a = "messages" -> CloseTools(shut)
                      [] a = "responses" -> IF w.native THEN w ELSE CallItems(Trailing(shut))
<1>1. ViewOf(w, v.usage) /\ (first # None => fin = first)
  <2>1. LET c == [Chunk EXCEPT !.fin = first] IN c.usage = 0 /\ c.choice = 0 /\ c.fin = first
    BY DEF Chunk, Note
  <2> HIDE DEF first
  <2>2. first # None => w.fin = first
    BY <2>1 DEF Noting, Fields
  <2> QED  BY <2>1, <2>2, Notes
<1>2. RenderEnd(a, v, ends) = Emit(shown, end)
  BY DEF RenderEnd, MessagesEnd, ResponsesEnd, EndFrame, FirstOf
<1> HIDE DEF w
<1>3. ViewOf(shut, v.usage)
  <2>1. ViewOf(Closing(w, "think"), v.usage)
    BY <1>1, Parts
  <2> QED  BY <2>1, Parts
<1> HIDE DEF shut
<1>4. ViewOf(shown, v.usage)
  <2>1. ViewOf(CloseTools(shut), v.usage) /\ ViewOf(Trailing(shut), v.usage)
    BY <1>3, EndParts
  <2>2. ViewOf(CallItems(Trailing(shut)), v.usage)
    BY <2>1, EndParts
  <2> QED  BY <1>1, <2>1, <2>2
<1>5. end.at = "end"
  BY Frames DEF EndFrame
<1> HIDE DEF shown, end
<1>6. LET r == Emit(shown, end)
      IN  DOMAIN r = Fields /\ r.usage = v.usage /\ r.out = Append(shown.out, end) /\ Of(shown.out, Body)
  BY <1>4, EmitsEnd
<1> QED  BY <1>1, <1>2, <1>5, <1>6 DEF Over, EndsOn, end
-----------------------------------------------------------------------------
(* The inductive invariant.                                                *)

Choices == [fin : Fins, output : BOOLEAN, tool : BOOLEAN]
ChoiceMaps == UNION {[D -> Choices] : D \in SUBSET {0, 1}}
Observers == [phase : {"first_output", "idle"}, reasoning : BOOLEAN, adapter : Terminals \cup {None},
              usage : Counts, choices : ChoiceMaps, terminal : Terminals \cup {None}]
Sources == {"open", "ended", "aborted"} \cup UpstreamErrors
Local == {"downstream_backpressure", "not_stored"}

\* The last batch ends the stream, and no other does.
BatchTyped(b) ==
    /\ DOMAIN b = {"frames", "last", "usage"} /\ b.last \in BOOLEAN /\ b.usage \in Counts
    /\ IF b.last THEN Over(b.frames) ELSE Of(b.frames, Body)

ReaderTyped ==
    /\ parser \in Parsers /\ n \in Counts /\ obs \in Observers /\ DOMAIN view = Fields
    /\ source \in Sources /\ BatchTyped(ready) /\ seen \in Counts

WriterTyped ==
    /\ wire \in DOMAIN Alphabet /\ public \in Publics /\ extras \in BOOLEAN
    /\ writing = Beating \/ BatchTyped(writing)
    /\ stage \in {"opening", "streaming", "cleanup", "closing", "closed"}
    /\ trouble \in {None} \cup Local \cup UpstreamErrors
    /\ gone \in BOOLEAN /\ routed \in BOOLEAN /\ stored \in BOOLEAN
    /\ result = None \/ result.verdict \in {None, "success", "cancelled", "gateway", "penalised"}

Typed == ReaderTyped /\ WriterTyped

\* The endpoint has taken, or is about to take, the usage the observer knows.
UsageTold ==
    /\ view.usage = obs.usage
    /\ ready.usage # 0 => ready.frames # <<>>
    /\ public = "chat" => (IF ready.usage # 0 THEN ready.usage ELSE seen) = obs.usage
    /\ public # "chat" => ready.usage = 0 /\ (seen = 0 \/ (source = "ended" /\ seen = obs.usage))

\* How the reader ended, and where the writer can be then.
Ordered ==
    /\ source = "ended" => obs.terminal # None
    /\ source = "aborted" => Closed
    /\ ready.last => source = "ended"
    /\ writing.last => source = "ended" /\ ready = Nothing /\ stage = "streaming"
    /\ stage \in {"cleanup", "closing", "closed"} => writing = Nothing

\* What went wrong, as soon as the endpoint knows of it.
Troubled ==
    /\ stage \in {"opening", "streaming"} => trouble = None
    /\ stage = "cleanup" => trouble \in Local
    /\ stage = "closing" => \/ trouble \in Local
                            \/ trouble = None /\ source = "ended" /\ ready = Nothing
                            \/ trouble = source /\ source \in UpstreamErrors

\* Until the stream is closed, its end is the last the client has got.
SentInOrder ==
    ~Closed => \/ Of(sent, Body)
               \/ /\ Over(sent) /\ source = "ended" /\ trouble = None
                  /\ ready = Nothing /\ writing = Nothing
                  /\ public = "responses" /\ extras => stored

\* A client that is still there gets the end, unless something goes wrong.
EndUnderway ==
    /\ writing.last /\ public = "responses" /\ extras => stored
    /\ ~Closed /\ ~gone /\ trouble = None /\ source = "ended" => ready.last \/ writing.last \/ Over(sent)

Inv == /\ Typed /\ UsageTold /\ Ordered /\ Troubled /\ SentInOrder /\ EndUnderway
       /\ Closed => FairlySettled /\ OneVerdict
-----------------------------------------------------------------------------
(* What a step of the reader does.                                         *)

LEMMA ChoicesTyped ==
    ASSUME NEW o \in Observers
    PROVE  /\ DOMAIN o.choices \subseteq {0, 1}
           /\ \A i \in DOMAIN o.choices : o.choices[i] \in Choices
           /\ \A i : ChoiceState(o, i) \in Choices
<1>1. PICK D \in SUBSET {0, 1} : o.choices \in [D -> Choices]
  BY DEF Observers, ChoiceMaps
<1>2. ChoiceStart \in Choices
  BY DEF ChoiceStart, Choices, Fins
<1> QED  BY <1>1, <1>2 DEF ChoiceState

LEMMA WithTyped ==
    ASSUME NEW f \in ChoiceMaps, NEW i \in {0, 1}, NEW x \in Choices
    PROVE  With(f, i, x) \in ChoiceMaps
<1>1. PICK D \in SUBSET {0, 1} : f \in [D -> Choices]
  BY DEF ChoiceMaps
<1>2. With(f, i, x) \in [D \cup {i} -> Choices]
  BY <1>1 DEF With
<1>3. D \cup {i} \in SUBSET {0, 1}
  OBVIOUS
<1> QED  BY <1>2, <1>3 DEF ChoiceMaps

LEMMA ObserveTyped ==
    ASSUME NEW o \in Observers, NEW c, ChunkTyped(c)
    PROVE  /\ Observe(o, c) \in Observers
           /\ Observe(o, c).usage = IF c.usage # 0 THEN c.usage ELSE o.usage
<1> DEFINE s == Semantic(c)
           old == ChoiceState(o, c.choice)
           choice == [fin |-> MergeFinish(old.fin, c.fin),
                      output |-> old.output \/ s \in Progress,
                      tool |-> old.tool \/ s = "tool"]
           choices == IF c.choice = None THEN o.choices ELSE With(o.choices, c.choice, choice)
           phase == IF s \in Progress THEN "idle" ELSE o.phase
           reasoning == IF s \in {"content", "tool"} THEN FALSE ELSE o.reasoning \/ s = "reasoning"
           adapter == IF c.terminal # None THEN c.terminal ELSE o.adapter
           usage == IF c.usage # 0 THEN c.usage ELSE o.usage
<1>1. choice \in Choices
  <2>1. old \in Choices
    BY ChoicesTyped
  <2>2. MergeFinish(old.fin, c.fin) \in Fins
    BY <2>1 DEF MergeFinish, Choices, Fins, FinishReasons, ChunkTyped
  <2> HIDE DEF s, old
  <2> QED  BY <2>1, <2>2 DEF Choices
<1>2. choices \in ChoiceMaps
  <2>1. o.choices \in ChoiceMaps
    BY DEF Observers
  <2>2. c.choice = None \/ c.choice \in {0, 1}
    BY DEF ChunkTyped
  <2> HIDE DEF choice
  <2> QED  BY <1>1, <2>1, <2>2, WithTyped
<1>3. /\ phase \in {"first_output", "idle"} /\ reasoning \in BOOLEAN
      /\ adapter \in Terminals \cup {None} /\ usage \in Counts
  <2> HIDE DEF s
  <2> QED  BY DEF Observers, ChunkTyped
<1>4. Observe(o, c) = [o EXCEPT !.phase = phase, !.reasoning = reasoning, !.adapter = adapter,
                                !.usage = usage, !.choices = choices]
  BY DEF Observe
<1> HIDE DEF phase, reasoning, adapter, usage, choices
<1>5. Observe(o, c) \in Observers /\ Observe(o, c).usage = usage
  BY <1>2, <1>3, <1>4 DEF Observers
<1> QED  BY <1>5 DEF usage

LEMMA TerminalTyped ==
    ASSUME NEW o \in Observers, ~Unfinished(o)
    PROVE  Terminal(o) \in Terminals
<1> DEFINE fins == {Ends(o)[i] : i \in DOMAIN o.choices}
<1>1. fins \subseteq FinishReasons
  <2>1. ASSUME NEW i \in DOMAIN o.choices PROVE Ends(o)[i] \in FinishReasons
    <3>1. o.choices[i] \in Choices /\ o.choices[i].fin # None
      BY ChoicesTyped DEF Unfinished
    <3>2. FinishOf(o.choices[i]) \in FinishReasons
      BY <3>1 DEF FinishOf, Choices, Fins, FinishReasons
    <3> QED  BY <3>2 DEF Ends
  <2> QED  BY <2>1
<1>2. o.adapter \in Terminals \cup {None}
  BY DEF Observers
<1> HIDE DEF fins
<1>3. ASSUME Cardinality(fins) = 1 PROVE (CHOOSE f \in fins : TRUE) \in FinishReasons
  <2>1. fins # {}
    BY <1>3, FS_EmptySet
  <2> QED  BY <1>1, <2>1
<1>4. ASSUME NEW f \in FinishReasons PROVE [outcome |-> OutcomeOf(f), reason |-> f] \in Terminals
  BY <1>4 DEF OutcomeOf, Terminals, Outcomes
<1>5. [outcome |-> IF "length" \in fins THEN "incomplete" ELSE "completed", reason |-> "other"] \in Terminals
  BY DEF Terminals, Outcomes
<1>6. TerminalOf(o.adapter, fins) \in Terminals
  BY <1>2, <1>3, <1>4, <1>5 DEF TerminalOf
<1> QED  BY <1>6 DEF Terminal, fins

Fails == \E code \in UpstreamErrors : Fail(code)

Joins(b, f, told, usage) ==
    [b EXCEPT !.frames = b.frames \o f,
              !.usage = IF told /\ b.frames \o f # <<>> THEN usage ELSE @]

\* A chunk of so much usage adds frames to what is ready.
Delivered(f, usage) ==
    LET told == public = "chat" /\ usage # 0
    IN  /\ obs' \in Observers /\ obs'.usage = (IF usage # 0 THEN usage ELSE obs.usage)
        /\ DOMAIN view' = Fields /\ view'.usage = (IF usage # 0 THEN usage ELSE view.usage)
        /\ ready' = Joins(ready, f, told, usage)
        /\ seen' = (IF told /\ ready.frames \o f = <<>> THEN usage ELSE seen)
        /\ source' = source /\ (obs.terminal # None => obs'.terminal # None)

\* The last frames are ready.
ClosedOff(f) ==
    /\ obs' \in Observers /\ obs'.usage = obs.usage /\ obs'.terminal # None
    /\ DOMAIN view' = Fields /\ view'.usage = view.usage
    /\ ready' = [ready EXCEPT !.frames = ready.frames \o f, !.last = TRUE]
    /\ seen' = seen /\ source' = "ended"

Advances ==
    \/ Fails
    \/ UNCHANGED <<obs, view, ready, seen, source>>
    \/ \E f, usage : usage \in Counts /\ Of(f, Body) /\ Delivered(f, usage)
    \/ \E f : Over(f) /\ ClosedOff(f)

LEMMA Known == Typed => public \in {"chat", "messages", "responses"} /\ DOMAIN view = Fields
BY DEF Typed, WriterTyped, ReaderTyped

LEMMA DeliverAdvances ==
    ASSUME Typed, NEW c, ChunkTyped(c), Deliver(c)
    PROVE  Advances
<1>1. CASE Contradicts(obs, c)
  BY <1>1 DEF Deliver, Advances, Fails, UpstreamErrors
<1>2. CASE ~Contradicts(obs, c)
  <2> DEFINE v == Render(public, view, HoldReason(c))
             f == IF Hidden(HoldReason(c)) THEN <<>> ELSE v.out
             told == public = "chat" /\ c.usage # 0
  <2>1. DOMAIN v = Fields /\ v.usage = (IF c.usage # 0 THEN c.usage ELSE view.usage) /\ Of(v.out, Body)
    <3>1. HoldReason(c).usage = c.usage /\ HoldReason(c).native \in Natives
      BY DEF HoldReason, ChunkTyped
    <3>2. public \in {"chat", "messages", "responses"} /\ DOMAIN view = Fields
      BY Known
    <3>3. ViewOf(v, IF HoldReason(c).usage # 0 THEN HoldReason(c).usage ELSE view.usage)
      BY <3>1, <3>2, Renders
    <3> QED  BY <3>1, <3>3 DEF ViewOf
  <2> HIDE DEF v
  <2>2. Of(f, Body)
    BY <2>1, OfFew
  <2>3. Rendered(HoldReason(c)) = [view |-> [v EXCEPT !.out = <<>>], frames |-> f]
    BY DEF Rendered, v
  <2> HIDE DEF f
  <2>4. /\ obs' = Observe(obs, c) /\ view' = [v EXCEPT !.out = <<>>] /\ source' = source
        /\ ready' = [ready EXCEPT !.frames = ready.frames \o f,
                                  !.usage = IF told /\ ready.frames \o f # <<>> THEN c.usage ELSE @]
        /\ seen' = IF told /\ ready.frames \o f = <<>> THEN c.usage ELSE seen
    BY <1>2, <2>3 DEF Deliver
  <2>5. DOMAIN view' = Fields /\ view'.usage = v.usage
    BY <2>1, <2>4 DEF Fields
  <2>6. /\ obs' \in Observers /\ obs'.usage = (IF c.usage # 0 THEN c.usage ELSE obs.usage)
        /\ obs'.terminal = obs.terminal
    <3>1. obs \in Observers
      BY DEF Typed, ReaderTyped
    <3>2. Observe(obs, c).terminal = obs.terminal
      BY <3>1 DEF Observe, Observers
    <3> QED  BY <2>4, <3>1, <3>2, ObserveTyped
  <2>7. Delivered(f, c.usage)
    BY <2>1, <2>4, <2>5, <2>6 DEF Delivered, Joins
  <2> QED  BY <2>2, <2>7 DEF Advances, ChunkTyped
<1> QED  BY <1>1, <1>2

LEMMA CloseAdvances ==
    ASSUME Typed, Close
    PROVE  Advances
<1>1. CASE Unfinished(obs)
  BY <1>1 DEF Close, Advances, Fails, UpstreamErrors
<1>2. CASE ~Unfinished(obs)
  <2> DEFINE v == RenderEnd(public, view, Ends(obs))
  <2>1. DOMAIN v = Fields /\ v.usage = view.usage /\ Over(v.out)
    BY Known, RendersEnd
  <2>2. /\ obs' = [obs EXCEPT !.terminal = Terminal(obs)]
        /\ view' = [v EXCEPT !.out = <<>>]
        /\ ready' = [ready EXCEPT !.frames = ready.frames \o v.out, !.last = TRUE]
        /\ source' = "ended" /\ seen' = seen
    BY <1>2 DEF Close
  <2> HIDE DEF v
  <2>3. DOMAIN view' = Fields /\ view'.usage = view.usage
    BY <2>1, <2>2 DEF Fields
  <2>4. obs \in Observers /\ Terminal(obs) \in Terminals
    BY <1>2, TerminalTyped DEF Typed, ReaderTyped
  <2>5. obs' \in Observers /\ obs'.usage = obs.usage /\ obs'.terminal # None
    BY <2>2, <2>4 DEF Observers
  <2> QED  BY <2>1, <2>2, <2>3, <2>5 DEF Advances, ClosedOff
<1> QED  BY <1>1, <1>2

\* The steps of the reader.
Reads == (\E e \in Alphabet[wire] : Read(e)) \/ Eof \/ Expire \/ TotalDeadline \/ Aborted

kept == <<request, writing, sent, stage, gone, trouble, routed, stored, result>>

LEMMA ReadsAdvance ==
    ASSUME Typed, Reads
    PROVE  /\ Reading /\ Advances /\ UNCHANGED kept
           /\ parser' \in Parsers /\ n' \in Counts
<1>1. ASSUME NEW e \in Alphabet[wire], Read(e)
      PROVE  /\ Reading /\ Advances /\ UNCHANGED kept
             /\ parser' \in Parsers /\ n' \in Counts
  <2> DEFINE y == Parse(wire, parser, e, n + 1)
  <2>1. ParseTyped(y) /\ n' \in Counts
    <3>1. n + 1 \in Counts /\ n' = n + 1
      BY <1>1 DEF Read, Counts, Typed, ReaderTyped
    <3>2. wire \in WireNames /\ e \in EventsOf[wire] /\ parser \in Parsers
      BY DEF Typed, ReaderTyped, WriterTyped
    <3> QED  BY <3>1, <3>2, ParsesTyped
  <2>2. /\ Reading /\ UNCHANGED kept /\ parser' = y.p
        /\ IF y.error # None THEN Fail(y.error)
           ELSE IF y.ends THEN Close
           ELSE IF y.chunks = <<>> THEN UNCHANGED <<obs, view, ready, seen, source>>
           ELSE Deliver(y.chunks[1])
    BY <1>1 DEF Read, kept
  <2> HIDE DEF y
  <2>3. Advances
    <3>1. CASE y.error # None
      BY <2>1, <2>2, <3>1 DEF Advances, Fails, ParseTyped
    <3>2. CASE y.error = None /\ y.ends
      BY <2>2, <3>2, CloseAdvances
    <3>3. CASE y.error = None /\ ~y.ends /\ y.chunks = <<>>
      BY <2>2, <3>3 DEF Advances
    <3>4. CASE y.error = None /\ ~y.ends /\ y.chunks # <<>>
      BY <2>1, <2>2, <3>4, DeliverAdvances DEF ParseTyped
    <3> QED  BY <3>1, <3>2, <3>3, <3>4
  <2> QED  BY <2>1, <2>2, <2>3 DEF ParseTyped
<1>2. ASSUME Eof
      PROVE  /\ Reading /\ Advances /\ UNCHANGED kept
             /\ parser' \in Parsers /\ n' \in Counts
  <2>1. /\ Reading /\ UNCHANGED <<kept, parser, n>>
        /\ IF ParseEof(wire, parser).ends THEN Close ELSE Fail(ParseEof(wire, parser).error)
    BY <1>2 DEF Eof, kept
  <2>2. ParseEof(wire, parser).ends \/ ParseEof(wire, parser).error \in UpstreamErrors
    BY DEF ParseEof, Throws, Returns, UpstreamErrors
  <2>3. Advances
    BY <2>1, <2>2, CloseAdvances DEF Advances, Fails
  <2> QED  BY <2>1, <2>3 DEF Typed, ReaderTyped
<1>3. ASSUME NEW code \in UpstreamErrors, Abandon(code)
      PROVE  /\ Reading /\ Advances /\ UNCHANGED kept
             /\ parser' \in Parsers /\ n' \in Counts
  BY <1>3 DEF Abandon, Advances, Fails, kept, Typed, ReaderTyped
<1>4. ASSUME Expire \/ TotalDeadline \/ Aborted
      PROVE  \E code \in UpstreamErrors : Abandon(code)
  BY <1>4 DEF Expire, TotalDeadline, Aborted, UpstreamErrors
<1> QED  BY <1>1, <1>2, <1>3, <1>4 DEF Reads
-----------------------------------------------------------------------------
(* The invariant is kept by the reader.                                    *)

LEMMA OverParts ==
    ASSUME NEW s, NEW t, Of(s, Body)
    PROVE  /\ Of(t, Body) => Of(s \o t, Body)
           /\ Over(t) => Over(s \o t) /\ s \o t # <<>>
           /\ s \o <<>> = s
<1>1. Of(t, Body) => Of(s \o t, Body)
  BY OfParts
<1>2. ASSUME Over(t) PROVE Over(s \o t) /\ s \o t # <<>>
  <2>1. PICK r, f : Of(r, Body) /\ f.at = "end" /\ t = Append(r, f)
    BY <1>2 DEF Over
  <2>2. PICK S : s \in Seq(S) /\ \A g \in S : g.at \in Body
    BY DEF Of
  <2>3. PICK R : r \in Seq(R) /\ \A g \in R : g.at \in Body
    BY <2>1 DEF Of
  <2>4. PICK T : T = S \cup R \cup {f}
    OBVIOUS
  <2>5. s \in Seq(T) /\ r \in Seq(T) /\ f \in T
    BY <2>2, <2>3, <2>4, SeqMonotonic
  <2>6. s \o t = Append(s \o r, f)
    BY <2>1, <2>5
  <2>7. Len(s \o t) # 0 /\ Len(<<>>) = 0
    BY <2>5, <2>6, EmptySeq
  <2> QED  BY <2>1, <2>6, <2>7, <1>1, OfParts DEF Over
<1>3. s \o <<>> = s
  <2>1. PICK S : s \in Seq(S)
    BY DEF Of
  <2> QED  BY <2>1, ConcatEmptySeq
<1> QED  BY <1>1, <1>2, <1>3

LEMMA FailsKeep ==
    ASSUME Inv, Reads, Fails
    PROVE  Inv'
<1>1. /\ Reading /\ UNCHANGED kept /\ parser' \in Parsers /\ n' \in Counts
      /\ source' \in UpstreamErrors /\ UNCHANGED <<obs, view, ready, seen>>
  BY ReadsAdvance DEF Inv, Fails, Fail
<1>2. source = "open" /\ stage \in {"opening", "streaming", "cleanup"}
  BY <1>1 DEF Reading
<1>3. source' \notin {"open", "ended", "aborted"} /\ source' \in Sources
  BY <1>1 DEF UpstreamErrors, Sources
<1>4. Typed'
  <2>1. ReaderTyped'
    BY <1>1, <1>3 DEF Inv, Typed, ReaderTyped, BatchTyped
  <2>2. WriterTyped'
    BY <1>1 DEF Inv, Typed, WriterTyped, kept, request, BatchTyped, Beating
  <2> QED  BY <2>1, <2>2 DEF Typed
<1>5. UsageTold'
  BY <1>1, <1>2, <1>3 DEF Inv, UsageTold, kept, request
<1>6. Ordered'
  BY <1>1, <1>2, <1>3 DEF Inv, Ordered, kept, Closed
<1>7. Troubled'
  BY <1>1, <1>2, <1>3 DEF Inv, Troubled, kept
<1>8. SentInOrder' /\ EndUnderway'
  BY <1>1, <1>2, <1>3 DEF Inv, SentInOrder, EndUnderway, Ordered, kept, request, Closed
<1>9. ~Closed'
  BY <1>1, <1>2 DEF kept, Closed
<1> QED  BY <1>4, <1>5, <1>6, <1>7, <1>8, <1>9 DEF Inv

LEMMA QuietKeeps ==
    ASSUME Inv, Reads, UNCHANGED <<obs, view, ready, seen, source>>
    PROVE  Inv'
<1>1. /\ Reading /\ UNCHANGED kept /\ parser' \in Parsers /\ n' \in Counts
  BY ReadsAdvance DEF Inv
<1>2. ~Closed'
  BY <1>1 DEF kept, Closed, Reading
<1>4. Typed'
  <2>1. ReaderTyped'
    BY <1>1 DEF Inv, Typed, ReaderTyped, BatchTyped
  <2>2. WriterTyped'
    BY <1>1 DEF Inv, Typed, WriterTyped, kept, request, BatchTyped, Beating
  <2> QED  BY <2>1, <2>2 DEF Typed
<1>5. UsageTold' /\ Troubled'
  BY <1>1 DEF Inv, UsageTold, Troubled, kept, request
<1>6. Ordered' /\ SentInOrder' /\ EndUnderway'
  BY <1>1 DEF Inv, Ordered, SentInOrder, EndUnderway, kept, request, Closed
<1> QED  BY <1>2, <1>4, <1>5, <1>6 DEF Inv

LEMMA DeliveredKeeps ==
    ASSUME Inv, Reads, NEW f, NEW usage \in Counts, Of(f, Body), Delivered(f, usage)
    PROVE  Inv'
<1>1. /\ Reading /\ UNCHANGED kept /\ parser' \in Parsers /\ n' \in Counts
  BY ReadsAdvance DEF Inv
<1>2. source = "open" /\ source' = "open" /\ ~ready.last /\ ~Closed'
  BY <1>1 DEF kept, Closed, Reading, Inv, Ordered, Delivered
<1> DEFINE told == public = "chat" /\ usage # 0
           frames == ready.frames \o f
<1>3. BatchTyped(ready) /\ Of(ready.frames, Body) /\ Of(frames, Body)
  BY <1>2, OverParts DEF Inv, Typed, ReaderTyped, BatchTyped
<1>4. /\ DOMAIN ready' = {"frames", "last", "usage"} /\ ready'.last = FALSE /\ ready'.frames = frames
      /\ ready'.usage = IF told /\ frames # <<>> THEN usage ELSE ready.usage
      /\ seen' = IF told /\ frames = <<>> THEN usage ELSE seen
  BY <1>2, <1>3 DEF Delivered, Joins, BatchTyped
<1>5. Typed'
  <2>1. BatchTyped(ready') /\ seen' \in Counts
    BY <1>3, <1>4 DEF BatchTyped, Inv, Typed, ReaderTyped
  <2>2. ReaderTyped'
    BY <1>1, <1>2, <2>1 DEF ReaderTyped, Delivered, Sources
  <2>3. WriterTyped'
    BY <1>1 DEF Inv, Typed, WriterTyped, kept, request, BatchTyped, Beating
  <2> QED  BY <2>2, <2>3 DEF Typed
<1>6. UsageTold'
  <2>1. ready.usage # 0 => frames # <<>>
    BY <1>3, OfParts DEF Inv, UsageTold
  <2>2. view'.usage = obs'.usage /\ obs'.usage = (IF usage # 0 THEN usage ELSE obs.usage)
    BY DEF Inv, UsageTold, Delivered
  <2> HIDE DEF frames
  <2>3. ready'.usage # 0 => ready'.frames # <<>>
    BY <1>4, <2>1
  <2>4. public' = public
    BY <1>1 DEF kept, request
  <2>5. CASE public = "chat"
    <3>1. (IF ready.usage # 0 THEN ready.usage ELSE seen) = obs.usage
      BY <2>5 DEF Inv, UsageTold
    <3> QED  BY <1>4, <2>1, <2>2, <2>3, <2>4, <2>5, <3>1 DEF UsageTold
  <2>6. CASE public # "chat"
    <3>1. ready.usage = 0 /\ seen = 0
      BY <1>2, <2>6 DEF Inv, UsageTold
    <3> QED  BY <1>4, <2>2, <2>3, <2>4, <2>6, <3>1 DEF UsageTold
  <2> QED  BY <2>5, <2>6
<1>7. ~writing.last /\ writing' = writing /\ stage' = stage /\ sent' = sent
  BY <1>1, <1>2 DEF Inv, Ordered, kept
<1>8. Ordered'
  BY <1>2, <1>4, <1>7 DEF Inv, Ordered, Closed
<1>9. Troubled'
  BY <1>1, <1>2, <1>7 DEF Inv, Troubled, kept, Reading
<1>10. SentInOrder' /\ EndUnderway'
  BY <1>1, <1>2, <1>7 DEF Inv, SentInOrder, EndUnderway, kept, Closed
<1> QED  BY <1>2, <1>5, <1>6, <1>8, <1>9, <1>10 DEF Inv

LEMMA ClosedOffKeeps ==
    ASSUME Inv, Reads, NEW f, Over(f), ClosedOff(f)
    PROVE  Inv'
<1>1. /\ Reading /\ UNCHANGED kept /\ parser' \in Parsers /\ n' \in Counts
  BY ReadsAdvance DEF Inv
<1>2. source = "open" /\ source' = "ended" /\ ~ready.last /\ ~Closed'
  BY <1>1 DEF kept, Closed, Reading, Inv, Ordered, ClosedOff
<1> DEFINE frames == ready.frames \o f
<1>3. BatchTyped(ready) /\ Of(ready.frames, Body) /\ Over(frames) /\ frames # <<>>
  BY <1>2, OverParts DEF Inv, Typed, ReaderTyped, BatchTyped
<1>4. /\ DOMAIN ready' = {"frames", "last", "usage"} /\ ready'.last = TRUE /\ ready'.frames = frames
      /\ ready'.usage = ready.usage /\ seen' = seen
  BY <1>3 DEF ClosedOff, BatchTyped
<1> HIDE DEF frames
<1>5. Typed'
  <2>1. BatchTyped(ready')
    BY <1>3, <1>4 DEF BatchTyped
  <2>2. ReaderTyped'
    BY <1>1, <1>2, <1>4, <2>1 DEF ReaderTyped, ClosedOff, Sources, Inv, Typed
  <2>3. WriterTyped'
    BY <1>1 DEF Inv, Typed, WriterTyped, kept, request, BatchTyped, Beating
  <2> QED  BY <2>2, <2>3 DEF Typed
<1>6. UsageTold'
  BY <1>1, <1>2, <1>3, <1>4 DEF Inv, UsageTold, ClosedOff, kept, request
<1>7. ~writing.last /\ writing' = writing /\ stage' = stage /\ sent' = sent
  BY <1>1, <1>2 DEF Inv, Ordered, kept
<1>8. Ordered'
  BY <1>2, <1>4, <1>7 DEF Inv, Ordered, Closed, ClosedOff
<1>9. Troubled'
  BY <1>1, <1>2, <1>7 DEF Inv, Troubled, kept, Reading
<1>10. SentInOrder' /\ EndUnderway'
  BY <1>1, <1>2, <1>4, <1>7 DEF Inv, SentInOrder, EndUnderway, kept, Closed
<1> QED  BY <1>2, <1>5, <1>6, <1>8, <1>9, <1>10 DEF Inv

LEMMA ReadsKeep == Inv /\ Reads => Inv'
BY FailsKeep, QuietKeeps, DeliveredKeeps, ClosedOffKeeps, ReadsAdvance DEF Advances, Inv
-----------------------------------------------------------------------------
(* The invariant is kept by the writer and the client.                     *)

LEMMA NothingReady ==
    /\ BatchTyped(Nothing) /\ Nothing.frames = <<>> /\ ~Nothing.last /\ Nothing.usage = 0
    /\ Beating.frames = <<Heartbeat>> /\ ~Beating.last
BY OfFew DEF Nothing, Beating, BatchTyped, Counts

LEMMA Positioned ==
    ASSUME NEW s, NEW K, Of(s, K)
    PROVE  Len(s) \in Nat /\ DOMAIN s = 1..Len(s) /\ \A j \in 1..Len(s) : s[j].at \in K
<1>1. PICK S : s \in Seq(S) /\ \A f \in S : f.at \in K
  BY DEF Of
<1> QED  BY <1>1, LenProperties, ElementOfSeq

LEMMA OverPositioned ==
    ASSUME NEW s, Over(s)
    PROVE  /\ Len(s) \in Nat \ {0} /\ s[Len(s)].at = "end"
           /\ \A j \in 1..Len(s) - 1 : s[j].at \in Body
           /\ \E S : s \in Seq(S)
<1>1. PICK r, f : Of(r, Body) /\ f.at = "end" /\ s = Append(r, f)
  BY DEF Over
<1>2. PICK R : r \in Seq(R) /\ \A g \in R : g.at \in Body
  BY <1>1 DEF Of
<1>3. r \in Seq(R \cup {f}) /\ s \in Seq(R \cup {f}) /\ Len(s) = Len(r) + 1 /\ s[Len(s)] = f
  BY <1>1, <1>2
<1>4. \A j \in 1..Len(r) : s[j] = r[j]
  BY <1>1, <1>3
<1> QED  BY <1>1, <1>3, <1>4, Positioned

LEMMA NotBoth == \A s : ~(Of(s, Body) /\ Over(s))
BY Positioned, OverPositioned DEF Body

\* What a part of a batch leaves with the client.
LEMMA Receives ==
    ASSUME Of(sent, Body), NEW b, BatchTyped(b) \/ b = Beating
    PROVE  /\ ~b.last => Of(Received(b.frames), Body)
           /\ b.last /\ ~gone => Over(Received(b.frames))
           /\ b.last /\ gone => Of(Received(b.frames), Body)
           /\ \A k \in 0..Len(b.frames) - 1 : Of(Received(SubSeq(b.frames, 1, k)), Body)
<1>1. CASE b = Beating
  <2>1. Received(b.frames) = sent
    BY <1>1, NothingReady DEF Received
  <2>2. Len(b.frames) = 1
    BY <1>1, NothingReady
  <2>3. SubSeq(b.frames, 1, 0) = <<>>
    BY SubSeqEmpty
  <2>4. Of(Received(<<>>), Body)
    <3>1. sent \o <<>> = sent
      BY OverParts
    <3>2. Received(<<>>) = sent
      BY <3>1 DEF Received
    <3> QED  BY <3>2
  <2>5. ASSUME NEW k \in 0..Len(b.frames) - 1 PROVE Of(Received(SubSeq(b.frames, 1, k)), Body)
    <3>1. k = 0
      BY <2>2
    <3> QED  BY <2>3, <2>4, <3>1
  <2>6. ~b.last
    BY <1>1, NothingReady
  <2> QED  BY <2>1, <2>5, <2>6
<1>2. CASE BatchTyped(b)
  <2>1. ASSUME b.last, ~gone PROVE Over(Received(b.frames))
    <3>1. Over(b.frames)
      BY <1>2, <2>1 DEF BatchTyped
    <3>2. b.frames # <<Heartbeat>>
      BY <3>1, OverPositioned DEF Heartbeat, Frame
    <3>3. b.frames # <<>>
      BY <3>1, OverParts, OfFew
    <3> QED  BY <2>1, <3>1, <3>2, OverParts DEF Received
  <2>2. ASSUME ~b.last PROVE Of(Received(b.frames), Body)
    BY <1>2, <2>2, OverParts DEF Received, BatchTyped
  <2>3. ASSUME NEW k \in 0..Len(b.frames) - 1 PROVE Of(Received(SubSeq(b.frames, 1, k)), Body)
    <3>1. PICK S : S = {b.frames[j] : j \in 1..k}
      OBVIOUS
    <3>2. Len(b.frames) \in Nat /\ \A j \in 1..Len(b.frames) - 1 : b.frames[j].at \in Body
      BY <1>2, Positioned, OverPositioned DEF BatchTyped
    <3>3. SubSeq(b.frames, 1, k) \in Seq(S)
      <4>1. k \in Int /\ \A j \in 1..k : b.frames[j] \in S
        BY <3>1, <3>2
      <4> QED  BY <4>1, SubSeqProperties
    <3>4. \A f \in S : f.at \in Body
      BY <3>1, <3>2
    <3>5. Of(SubSeq(b.frames, 1, k), Body)
      BY <3>3, <3>4 DEF Of
    <3> QED  BY <3>5, OverParts DEF Received
  <2> QED  BY <2>1, <2>2, <2>3 DEF Received
<1> QED  BY <1>1, <1>2

\* What a step of the writer leaves alone.
LEMMA TypedOf ==
    ASSUME Typed, UNCHANGED <<request, reader>>, BatchTyped(ready'), seen' \in Counts, WriterTyped'
    PROVE  Typed'
BY DEF Typed, ReaderTyped, reader

LEMMA AttachKeeps ==
    ASSUME Inv, Attach
    PROVE  Inv'
<1>1. /\ UNCHANGED <<request, reader, ready, writing, seen, sent, gone, stored, result>>
      /\ stage = "opening" /\ writing = Nothing /\ ~Closed /\ ~Closed'
      /\ routed' \in {routed, TRUE}
      /\ \/ stage' = "streaming" /\ trouble' = trouble
         \/ stage' = "closing" /\ trouble' = source /\ ~Committed /\ source # "open"
  BY DEF Attach, Closed
<1>2. stage' = "closing" => source \in UpstreamErrors
  <2>1. source \in Sources
    BY DEF Inv, Typed, ReaderTyped
  <2> QED  BY <1>1, <2>1 DEF Inv, Ordered, Committed, Sources
<1>3. Typed'
  <2>1. WriterTyped'
    BY <1>1, <1>2 DEF Inv, Typed, WriterTyped, request, BatchTyped, Beating
  <2> QED  BY <1>1, <2>1, TypedOf DEF Inv, Typed, ReaderTyped, BatchTyped
<1>4. UsageTold' /\ Ordered'
  BY <1>1 DEF Inv, UsageTold, Ordered, request, reader, Closed
<1>5. Troubled'
  BY <1>1, <1>2 DEF Inv, Troubled, reader
<1>6. SentInOrder' /\ EndUnderway'
  BY <1>1, <1>2 DEF Inv, SentInOrder, EndUnderway, request, reader, UpstreamErrors
<1> QED  BY <1>1, <1>3, <1>4, <1>5, <1>6 DEF Inv

LEMMA PersistKeeps ==
    ASSUME Inv, Persist
    PROVE  Inv'
<1>1. /\ UNCHANGED <<request, reader, ready, writing, sent, gone, routed, result>>
      /\ stage = "streaming" /\ writing = Nothing /\ ~Closed /\ ~Closed'
      /\ public = "responses" /\ ready.last /\ seen' = view.usage
      /\ \/ stored' = TRUE /\ stage' = stage /\ trouble' = trouble
         \/ stage' = "cleanup" /\ trouble' = "not_stored" /\ stored' = stored
  BY DEF Persist, MustStore, Closed
<1>2. source = "ended" /\ ready # Nothing /\ seen' = obs.usage /\ trouble = None
  BY <1>1, NothingReady DEF Inv, Ordered, UsageTold, Troubled
<1>3. Typed'
  <2>1. WriterTyped'
    BY <1>1 DEF Inv, Typed, WriterTyped, request, BatchTyped, Beating, Local
  <2>2. seen' \in Counts
    BY <1>2 DEF Inv, Typed, ReaderTyped, Observers
  <2> QED  BY <1>1, <2>1, <2>2, TypedOf DEF Inv, Typed, ReaderTyped, BatchTyped
<1>4. UsageTold' /\ Ordered'
  BY <1>1, <1>2 DEF Inv, UsageTold, Ordered, request, reader, Closed
<1>5. Troubled'
  BY <1>1, <1>2 DEF Inv, Troubled, reader, Local
<1>6. SentInOrder' /\ EndUnderway'
  BY <1>1, <1>2 DEF Inv, SentInOrder, EndUnderway, request, reader
<1> QED  BY <1>1, <1>3, <1>4, <1>5, <1>6 DEF Inv

LEMMA TakeKeeps ==
    ASSUME Inv, Take
    PROVE  Inv'
<1>1. /\ UNCHANGED <<request, reader, sent, stage, gone, trouble, routed, stored, result>>
      /\ stage = "streaming" /\ writing = Nothing /\ ~Closed /\ ~Closed'
      /\ ready # Nothing /\ ~MustStore /\ writing' = ready /\ ready' = Nothing
      /\ seen' = IF public = "chat" THEN (IF ready.usage # 0 THEN ready.usage ELSE seen)
                 ELSE IF ready.last THEN view.usage ELSE seen
  BY DEF Take, Closed
<1>2. BatchTyped(ready) /\ (ready.last => source = "ended")
  BY DEF Inv, Typed, ReaderTyped, Ordered
<1>3. Typed'
  <2>1. WriterTyped'
    BY <1>1, <1>2 DEF Inv, Typed, WriterTyped, request, BatchTyped, Beating
  <2>2. seen' \in Counts
    BY <1>1, <1>2 DEF BatchTyped, Inv, Typed, ReaderTyped, UsageTold, Observers
  <2>3. BatchTyped(ready')
    BY <1>1, NothingReady
  <2> QED  BY <1>1, <2>1, <2>2, <2>3, TypedOf DEF Inv
<1>4. UsageTold'
  BY <1>1, <1>2, NothingReady DEF Inv, UsageTold, request, reader
<1>5. Ordered' /\ Troubled'
  BY <1>1, <1>2, NothingReady DEF Inv, Ordered, Troubled, reader, Closed
<1>6. SentInOrder' /\ EndUnderway'
  BY <1>1, <1>2 DEF Inv, SentInOrder, EndUnderway, request, reader, MustStore
<1> QED  BY <1>1, <1>3, <1>4, <1>5, <1>6 DEF Inv

LEMMA BeatKeeps ==
    ASSUME Inv, Beat
    PROVE  Inv'
<1>1. /\ UNCHANGED <<request, reader, ready, seen, sent, stage, gone, trouble, routed, stored, result>>
      /\ stage \in {"opening", "streaming"} /\ writing = Nothing /\ ~Closed /\ ~Closed'
      /\ source = "open" /\ writing' = Beating
  BY DEF Beat, Closed
<1>2. Typed'
  <2>1. WriterTyped'
    BY <1>1 DEF Inv, Typed, WriterTyped, request
  <2> QED  BY <1>1, <2>1, TypedOf DEF Inv, Typed, ReaderTyped, BatchTyped
<1>3. UsageTold' /\ Ordered' /\ Troubled'
  BY <1>1, NothingReady DEF Inv, UsageTold, Ordered, Troubled, request, reader, Closed
<1>4. SentInOrder' /\ EndUnderway'
  BY <1>1, NothingReady DEF Inv, SentInOrder, EndUnderway, request, reader
<1> QED  BY <1>1, <1>2, <1>3, <1>4 DEF Inv

LEMMA WritesKeep ==
    ASSUME Inv, Writes
    PROVE  Inv'
<1>1. /\ UNCHANGED <<request, reader, ready, seen, gone, routed, stored, result>>
      /\ writing # Nothing /\ writing' = Nothing
  BY DEF Writes, Written, WriteTimeout
<1>2. /\ stage \in {"opening", "streaming"} /\ trouble = None /\ ~Closed /\ Of(sent, Body)
      /\ BatchTyped(writing) \/ writing = Beating
  BY <1>1 DEF Inv, Ordered, Troubled, SentInOrder, Typed, WriterTyped, Closed
<1>3. CASE Written
  <2>1. sent' = Received(writing.frames) /\ stage' = stage /\ trouble' = trouble /\ ~Closed'
    BY <1>2, <1>3 DEF Written, Closed
  <2>2. /\ ~writing.last => Of(sent', Body)
        /\ writing.last /\ ~gone => Over(sent')
        /\ writing.last /\ gone => Of(sent', Body)
    BY <1>2, <2>1, Receives
  <2>3. Typed'
    <3>1. WriterTyped'
      BY <1>1, <2>1, NothingReady DEF Inv, Typed, WriterTyped, request
    <3> QED  BY <1>1, <3>1, TypedOf DEF Inv, Typed, ReaderTyped, BatchTyped
  <2>4. UsageTold' /\ Ordered' /\ Troubled'
    BY <1>1, <2>1, NothingReady DEF Inv, UsageTold, Ordered, Troubled, request, reader, Closed
  <2>5. SentInOrder'
    BY <1>1, <1>2, <2>1, <2>2 DEF Inv, SentInOrder, EndUnderway, Ordered, request, reader, Typed, WriterTyped
  <2>6. EndUnderway'
    BY <1>1, <1>2, <2>1, <2>2, NothingReady, NotBoth DEF Inv, EndUnderway, request, reader
  <2> QED  BY <2>1, <2>3, <2>4, <2>5, <2>6 DEF Inv
<1>4. CASE WriteTimeout
  <2>1. /\ \E k \in 0..Len(writing.frames) - 1 : sent' = Received(SubSeq(writing.frames, 1, k))
        /\ trouble' = "downstream_backpressure" /\ stage' \in {"closing", "cleanup"} /\ ~Closed'
    BY <1>4 DEF WriteTimeout, Closed
  <2>2. Of(sent', Body)
    BY <1>2, <2>1, Receives
  <2>3. Typed'
    <3>1. WriterTyped'
      BY <1>1, <2>1, NothingReady DEF Inv, Typed, WriterTyped, request, Local
    <3> QED  BY <1>1, <3>1, TypedOf DEF Inv, Typed, ReaderTyped, BatchTyped
  <2>4. UsageTold' /\ Ordered' /\ Troubled'
    BY <1>1, <2>1, <1>2, NothingReady DEF Inv, UsageTold, Ordered, Troubled, request, reader, Closed, Local
  <2>5. SentInOrder' /\ EndUnderway'
    BY <1>1, <2>1, <2>2, NothingReady DEF SentInOrder, EndUnderway
  <2> QED  BY <2>1, <2>3, <2>4, <2>5 DEF Inv
<1> QED  BY <1>3, <1>4 DEF Writes

\* The writer leaves its loop.
LEMMA LeavesKeep ==
    ASSUME Inv, Stumble \/ Cleaned \/ Last
    PROVE  Inv'
<1>1. /\ UNCHANGED <<request, reader, ready, writing, seen, sent, gone, routed, stored, result>>
      /\ stage \in {"streaming", "cleanup"} /\ stage' = "closing" /\ ~Closed /\ ~Closed'
      /\ writing = Nothing
      /\ \/ trouble' = source /\ source \notin {"open", "ended"}
         \/ trouble' = trouble /\ stage = "cleanup"
         \/ trouble' = trouble /\ source = "ended" /\ ready = Nothing
  BY DEF Stumble, Cleaned, Last, Closed, Inv, Ordered
<1>2. source \in Sources /\ source # "aborted"
  BY <1>1 DEF Inv, Typed, ReaderTyped, Ordered
<1>3. Typed'
  <2>1. WriterTyped'
    BY <1>1, <1>2 DEF Inv, Typed, WriterTyped, request, BatchTyped, Beating, Sources
  <2> QED  BY <1>1, <2>1, TypedOf DEF Inv, Typed, ReaderTyped, BatchTyped
<1>4. UsageTold' /\ Ordered'
  BY <1>1, NothingReady DEF Inv, UsageTold, Ordered, request, reader, Closed
<1>5. Troubled'
  BY <1>1, <1>2 DEF Inv, Troubled, reader, Sources
<1>6. SentInOrder' /\ EndUnderway'
  BY <1>1, <1>2 DEF Inv, SentInOrder, EndUnderway, request, reader, Sources
<1> QED  BY <1>1, <1>3, <1>4, <1>5, <1>6 DEF Inv

LEMMA ClientLeavesKeeps ==
    ASSUME Inv, ClientLeaves
    PROVE  Inv'
<1>1. /\ UNCHANGED <<request, reader, ready, writing, seen, sent, stage, trouble, routed, stored, result>>
      /\ gone' = TRUE /\ ~Closed /\ ~Closed'
  BY DEF ClientLeaves, Closed
<1>2. Typed'
  <2>1. WriterTyped'
    BY <1>1 DEF Inv, Typed, WriterTyped, request, BatchTyped, Beating
  <2> QED  BY <1>1, <2>1, TypedOf DEF Inv, Typed, ReaderTyped, BatchTyped
<1>3. UsageTold' /\ Ordered' /\ Troubled'
  BY <1>1 DEF Inv, UsageTold, Ordered, Troubled, request, reader, Closed
<1>4. SentInOrder' /\ EndUnderway'
  BY <1>1 DEF Inv, SentInOrder, EndUnderway, request, reader
<1> QED  BY <1>1, <1>2, <1>3, <1>4 DEF Inv
-----------------------------------------------------------------------------
(* The end of the stream.                                                  *)

\* A sequence of which frame m, and no other, says how the stream ended.
Concluded(s, m, kind) ==
    /\ Len(s) \in Nat /\ m \in 1..Len(s) /\ s[m].at = kind
    /\ \A j \in 1..m - 1 : s[j].at \in Body
    /\ \A j \in m + 1..Len(s) : s[j].at = "done"

\* The last frames: at most one error, and marks.
LEMMA Farewells ==
    /\ \E S : Farewell \in Seq(S)
    /\ \A j \in 1..Len(Farewell) : Farewell[j].at = IF Tells /\ j = 1 THEN "error" ELSE "done"
    /\ ~Tells /\ trouble # None => Farewell = <<>>
<1>1. PICK S : S = {ErrorFrame, DoneMark}
  OBVIOUS
<1>2. Marks \in Seq(S) /\ \A j \in 1..Len(Marks) : Marks[j] = DoneMark
  <2>1. CASE public = "messages"
    BY <2>1, EmptySeq DEF Marks
  <2>2. CASE public # "messages"
    BY <1>1, <2>2 DEF Marks
  <2> QED  BY <2>1, <2>2
<1>3. ErrorFrame.at = "error" /\ DoneMark.at = "done"
  BY Frames DEF ErrorFrame, DoneMark
<1>4. CASE Tells
  <2>1. <<ErrorFrame>> \in Seq(S) /\ Len(<<ErrorFrame>>) = 1 /\ <<ErrorFrame>>[1] = ErrorFrame
    BY <1>1
  <2>2. Farewell = <<ErrorFrame>> \o Marks
    BY <1>4 DEF Farewell
  <2> HIDE DEF Farewell
  <2>3. /\ Farewell \in Seq(S) /\ Len(Farewell) = 1 + Len(Marks) /\ Len(Marks) \in Nat
        /\ \A j \in 1..1 + Len(Marks) :
              Farewell[j] = IF j <= 1 THEN <<ErrorFrame>>[j] ELSE Marks[j - 1]
    BY <1>2, <2>1, <2>2, ConcatProperties, LenProperties
  <2>4. ASSUME NEW j \in 1..Len(Farewell) PROVE Farewell[j].at = IF j = 1 THEN "error" ELSE "done"
    <3>1. CASE j = 1
      <4>1. Farewell[1] = ErrorFrame
        BY <2>1, <2>3, <3>1
      <4> QED  BY <1>3, <3>1, <4>1
    <3>2. CASE j # 1
      <4>1. Farewell[j] = DoneMark
        BY <1>2, <2>3, <3>2
      <4> QED  BY <1>3, <3>2, <4>1
    <3> QED  BY <3>1, <3>2
  <2> QED  BY <1>4, <2>3, <2>4
<1>5. CASE ~Tells
  <2>1. CASE trouble = None
    <3>1. Farewell = Marks
      BY <1>5, <2>1 DEF Farewell
    <3> QED  BY <1>2, <1>3, <1>5, <2>1, <3>1
  <2>2. CASE trouble # None
    <3>1. Farewell = <<>>
      BY <1>5, <2>2 DEF Farewell
    <3>2. Farewell \in Seq(S) /\ Len(Farewell) = 0
      BY <3>1, EmptySeq
    <3> QED  BY <1>5, <3>1, <3>2
  <2> QED  BY <2>1, <2>2
<1> QED  BY <1>4, <1>5

\* What follows what was sent.
LEMMA Follows ==
    ASSUME NEW s, NEW t, NEW k \in 0..Len(t), \E S : s \in Seq(S), \E S : t \in Seq(S)
    PROVE  LET u == s \o SubSeq(t, 1, k)
           IN  /\ Len(s) \in Nat /\ Len(u) = Len(s) + k
               /\ \A j \in 1..Len(u) : u[j] = IF j <= Len(s) THEN s[j] ELSE t[j - Len(s)]
<1>1. PICK S : s \in Seq(S)
  OBVIOUS
<1>2. PICK T : t \in Seq(T)
  OBVIOUS
<1>3. Len(t) \in Nat /\ \A j \in 1..Len(t) : t[j] \in T
  BY <1>2, LenProperties, ElementOfSeq
<1>4. k \in Int /\ \A j \in 1..k : t[j] \in T
  BY <1>3
<1>5. /\ SubSeq(t, 1, k) \in Seq(T) /\ Len(SubSeq(t, 1, k)) = k
      /\ \A i \in 1..k : SubSeq(t, 1, k)[i] = t[i]
  BY <1>3, <1>4, SubSeqProperties
<1>6. s \in Seq(S \cup T) /\ SubSeq(t, 1, k) \in Seq(S \cup T)
  BY <1>1, <1>5, SeqMonotonic
<1> DEFINE w == SubSeq(t, 1, k)
<1> HIDE DEF w
<1>7. /\ Len(s) \in Nat /\ Len(s \o w) = Len(s) + k
      /\ \A j \in 1..Len(s) + k : (s \o w)[j] = IF j <= Len(s) THEN s[j] ELSE w[j - Len(s)]
  BY <1>5, <1>6, ConcatProperties, LenProperties DEF w
<1> QED  BY <1>3, <1>5, <1>7 DEF w


LEMMA SettleSends ==
    ASSUME Inv, Settle
    PROVE  \/ Of(sent', Body) /\ (gone \/ trouble # None)
           \/ Over(sent) /\ \E m : Concluded(sent', m, "end")
           \/ trouble # None /\ \E m : Concluded(sent', m, "error")
<1>1. ~Closed /\ stage = "closing" /\ writing = Nothing
  BY DEF Settle, Closed
<1>2. PICK k \in 0..Len(Farewell) : sent' = Received(SubSeq(Farewell, 1, k))
  BY DEF Settle
<1> DEFINE last == SubSeq(Farewell, 1, k)
<1>3. CASE Over(sent)
  <2>1. trouble = None /\ ~Tells
    BY <1>1, <1>3, NotBoth DEF Inv, SentInOrder, Tells
  <2>2. Len(sent) \in Nat \ {0} /\ Concluded(sent, Len(sent), "end") /\ \E S : sent \in Seq(S)
    BY <1>3, OverPositioned DEF Concluded
  <2>3. CASE sent' = sent
    BY <1>3, <2>2, <2>3
  <2>4. CASE sent' = sent \o last
    <3>1. /\ Len(sent') = Len(sent) + k
          /\ \A j \in 1..Len(sent') : sent'[j] = IF j <= Len(sent) THEN sent[j] ELSE Farewell[j - Len(sent)]
      BY <2>2, <2>4, Follows, Farewells
    <3>2. \A j \in 1..Len(Farewell) : Farewell[j].at = "done"
      BY <2>1, Farewells
    <3>3. Len(Farewell) \in Nat
      BY Farewells, LenProperties
    <3>4. Concluded(sent', Len(sent), "end")
      BY <2>2, <3>1, <3>2, <3>3 DEF Concluded
    <3> QED  BY <1>3, <3>4
  <2> QED  BY <1>2, <2>3, <2>4 DEF Received
<1>4. CASE ~Over(sent)
  <2>1. Of(sent, Body) /\ (gone \/ trouble # None)
    <3>1. ~ready.last \/ trouble # None
      BY <1>1, NothingReady DEF Inv, Troubled, Local
    <3> QED  BY <1>1, <1>4, <3>1, NothingReady DEF Inv, SentInOrder, EndUnderway, Troubled, Local
  <2>2. CASE sent' = sent
    BY <2>1, <2>2
  <2>3. CASE ~gone /\ sent' = sent \o last
    <3>1. trouble # None
      BY <2>1, <2>3
    <3>2. Len(sent) \in Nat /\ (\A j \in 1..Len(sent) : sent[j].at \in Body) /\ \E S : sent \in Seq(S)
      BY <2>1, Positioned DEF Of
    <3>3. Len(Farewell) \in Nat
      BY Farewells, LenProperties
    <3>4. CASE k = 0
      <4>1. last = <<>>
        BY <3>4, SubSeqEmpty
      <4> HIDE DEF last
      <4> QED  BY <2>1, <2>3, <3>1, <4>1, OverParts
    <3>5. CASE k # 0
      <4>1. Tells
        <5>1. Len(Farewell) # 0
          BY <3>3, <3>5
        <5> QED  BY <3>1, <5>1, Farewells, EmptySeq
      <4>2. /\ Len(sent') = Len(sent) + k
            /\ \A j \in 1..Len(sent') :
                  sent'[j] = IF j <= Len(sent) THEN sent[j] ELSE Farewell[j - Len(sent)]
        BY <2>3, <3>2, Follows, Farewells
      <4>3. \A j \in 1..Len(Farewell) : Farewell[j].at = IF j = 1 THEN "error" ELSE "done"
        BY <4>1, Farewells
      <4>4. k \in 1..Len(Farewell)
        BY <3>3, <3>5
      <4>5. /\ Len(sent') \in Nat /\ Len(sent) + 1 \in 1..Len(sent')
            /\ sent'[Len(sent) + 1].at = "error"
        BY <3>2, <3>3, <4>2, <4>3, <4>4
      <4>6. ASSUME NEW j \in 1..Len(sent'), j < Len(sent) + 1 PROVE sent'[j].at \in Body
        <5>1. j \in 1..Len(sent) /\ sent'[j] = sent[j]
          BY <3>2, <4>2, <4>5, <4>6
        <5> QED  BY <3>2, <5>1
      <4>7. ASSUME NEW j \in 1..Len(sent'), j > Len(sent) + 1 PROVE sent'[j].at = "done"
        <5>1. sent'[j] = Farewell[j - Len(sent)] /\ j - Len(sent) \in 1..Len(Farewell) /\ j - Len(sent) # 1
          BY <3>2, <3>3, <4>2, <4>4, <4>7
        <5> QED  BY <4>3, <5>1
      <4>8. Concluded(sent', Len(sent) + 1, "error")
        BY <4>5, <4>6, <4>7 DEF Concluded
      <4> QED  BY <3>1, <4>8
    <3> QED  BY <3>4, <3>5
  <2> QED  BY <1>2, <2>2, <2>3 DEF Received
<1> QED  BY <1>3, <1>4

\* What the client was told, once.
LEMMA SaidOnce ==
    ASSUME NEW s, NEW m, NEW kind \in {"end", "error"}, Concluded(s, m, kind)
    PROVE  LET at(k) == {j \in 1..Len(s) : s[j].at = k}
           IN  /\ at(kind) = {m} /\ at("end") \cup at("error") = {m}
               /\ at("end") = {} \/ at("error") = {}
               /\ \A j \in 1..Len(s) : j > m => s[j].at = "done"
BY DEF Concluded, Body

LEMMA SaidNothing ==
    ASSUME NEW s, Of(s, Body)
    PROVE  {j \in 1..Len(s) : s[j].at = "end"} = {} /\ {j \in 1..Len(s) : s[j].at = "error"} = {}
BY Positioned DEF Body

\* Until it is closed, a stream has one verdict because it has none.
LEMMA OpenVerdict == Inv => OneVerdict
<1> SUFFICES ASSUME Inv PROVE OneVerdict
  OBVIOUS
<1>1. CASE Closed
  BY <1>1 DEF Inv
<1>2. CASE ~Closed
  <2>1. CASE Of(sent, Body)
    <3>1. At("end") = {} /\ At("error") = {}
      BY <2>1, SaidNothing DEF At, Positions
    <3>2. Cardinality(At("end") \cup At("error")) = 0
      BY <3>1, FS_EmptySet
    <3> QED  BY <1>2, <3>1, <3>2 DEF OneVerdict, StoredBeforeSeen
  <2>2. CASE Over(sent)
    <3>1. PICK m : Concluded(sent, m, "end")
      BY <2>2, OverPositioned DEF Concluded
    <3>2. /\ At("end") \cup At("error") = {m}
          /\ \A j \in Positions : j > m => sent[j].at = "done"
      BY <3>1, SaidOnce DEF At, Positions
    <3>3. Cardinality(At("end") \cup At("error")) = 1
      BY <3>2, FS_Singleton
    <3>4. public = "responses" /\ extras => stored
      BY <1>2, <2>2, NotBoth DEF Inv, SentInOrder
    <3> QED  BY <1>2, <3>2, <3>3, <3>4 DEF OneVerdict, StoredBeforeSeen
  <2> QED  BY <1>2, <2>1, <2>2 DEF Inv, SentInOrder
<1> QED  BY <1>1, <1>2

LEMMA SettleKeeps ==
    ASSUME Inv, Settle
    PROVE  Inv'
<1>1. /\ stage = "closing" /\ writing = Nothing /\ ~Closed /\ Closed'
      /\ UNCHANGED <<request, parser, doc, n, obs, view, ready, writing, seen, gone, routed, stored>>
      /\ stage' = "closed" /\ source' = IF source = "open" THEN "aborted" ELSE source
  BY DEF Settle, Closed
<1>2. PICK code \in {trouble, "downstream_backpressure"} :
         /\ trouble' = code /\ (trouble # None => code = trouble)
         /\ result' = [verdict |-> IF Abandoned THEN None
                                  ELSE IF ~routed /\ code = "downstream_backpressure" THEN "cancelled"
                                  ELSE Verdict(code),
                       charged |-> IF Abandoned THEN 0 ELSE UsageKnown,
                       part |-> ChargedPart,
                       status |-> LogStatus(code),
                       http |-> IF gone \/ code = "client_closed_request" THEN 499 ELSE 200]
  BY DEF Settle
<1>3. /\ result'.verdict = (IF Abandoned THEN None
                            ELSE IF ~routed /\ code = "downstream_backpressure" THEN "cancelled"
                            ELSE Verdict(code))
      /\ result'.charged = (IF Abandoned THEN 0 ELSE UsageKnown)
      /\ result'.status = LogStatus(code)
  BY <1>2
<1>4. /\ Verdict(code) \in {"success", "cancelled", "gateway", "penalised"}
      /\ Verdict(code) = "success" => code = None
      /\ Verdict(code) = "penalised" => ~gone /\ code \notin Local \cup {None}
  BY DEF Verdict, Local
<1>5. /\ trouble = None => source = "ended" /\ ready = Nothing
      /\ trouble \notin {None} \cup Local => trouble = source /\ source \in UpstreamErrors
  BY <1>1 DEF Inv, Troubled, Local, UpstreamErrors
<1>6. Typed'
  <2>1. source' \in Sources
    BY <1>1 DEF Inv, Typed, ReaderTyped, Sources
  <2>2. ReaderTyped'
    BY <1>1, <2>1 DEF Inv, Typed, ReaderTyped, BatchTyped
  <2>3. trouble' \in {None} \cup Local \cup UpstreamErrors
    BY <1>2 DEF Inv, Typed, WriterTyped, Local
  <2>4. result'.verdict \in {None, "success", "cancelled", "gateway", "penalised"}
    BY <1>3, <1>4
  <2>5. WriterTyped'
    BY <1>1, <2>3, <2>4 DEF Inv, Typed, WriterTyped, request, BatchTyped, Beating
  <2> QED  BY <2>2, <2>5 DEF Typed
<1>7. UsageTold' /\ Ordered'
  BY <1>1, NothingReady DEF Inv, UsageTold, Ordered, request, Closed
<1>8. Troubled' /\ SentInOrder' /\ EndUnderway'
  BY <1>1, NothingReady DEF Troubled, SentInOrder, EndUnderway
<1>9. FairlySettled'
  <2>1. Abandoned' = Abandoned /\ obs' = obs /\ gone' = gone
    BY <1>1 DEF Abandoned, Committed
  <2>2. ASSUME ~Abandoned PROVE /\ obs.usage # 0 => result'.charged # 0
                                /\ result'.verdict = "success" => result'.charged = obs.usage
    <3>1. result'.charged = IF seen # 0 THEN seen ELSE obs.usage
      BY <1>3, <2>2 DEF UsageKnown
    <3>2. ASSUME result'.verdict = "success" PROVE seen \in {0, obs.usage}
      <4>1. ready = Nothing
        BY <1>2, <1>3, <1>4, <1>5, <2>2, <3>2
      <4> QED  BY <4>1, NothingReady DEF Inv, UsageTold
    <3> QED  BY <3>1, <3>2
  <2>3. UsageCharged'
    BY <2>1, <2>2 DEF UsageCharged
  <2>4. ASSUME result'.verdict = "penalised" PROVE ~gone /\ source' \notin {"open", "ended", "aborted"}
    <3>1. ~gone /\ code \notin Local \cup {None}
      BY <1>3, <1>4, <2>4
    <3>2. source \in UpstreamErrors
      BY <1>2, <1>5, <3>1 DEF Local
    <3> QED  BY <1>1, <3>1, <3>2 DEF UpstreamErrors
  <2> QED  BY <2>1, <2>3, <2>4 DEF FairlySettled, Blameless
<1>10. OneVerdict'
  <2>1. result'.status = IF code = None /\ ~gone THEN "success" ELSE "error"
    BY <1>3 DEF LogStatus
  <2>2. UNCHANGED <<public, extras, stored, gone>> /\ trouble' = code
    BY <1>1, <1>2 DEF request
  <2>3. CASE Of(sent', Body) /\ (gone \/ trouble # None)
    <3>1. At("end")' = {} /\ At("error")' = {}
      BY <2>3, SaidNothing DEF At, Positions
    <3>2. Cardinality(At("end")' \cup At("error")') = 0
      BY <3>1, FS_EmptySet
    <3>3. result'.status # "success"
      BY <1>2, <2>1, <2>3
    <3> QED  BY <3>1, <3>2, <3>3 DEF OneVerdict, StoredBeforeSeen
  <2>4. ASSUME NEW m, Over(sent), Concluded(sent', m, "end") PROVE OneVerdict'
    <3>1. /\ At("end")' \cup At("error")' = {m} /\ At("error")' = {} /\ At("end")' # {}
          /\ \A j \in Positions' : j > m => sent'[j].at = "done"
      BY <2>4, SaidOnce DEF At, Positions
    <3>2. Cardinality(At("end")' \cup At("error")') = 1
      BY <3>1, FS_Singleton
    <3>3. trouble = None /\ (public = "responses" /\ extras => stored)
      BY <1>1, <2>4, NotBoth DEF Inv, SentInOrder
    <3>4. result'.status = "error" => gone' \/ trouble' = "downstream_backpressure"
      BY <1>2, <2>1, <2>2, <3>3
    <3> QED  BY <2>2, <3>1, <3>2, <3>3, <3>4 DEF OneVerdict, StoredBeforeSeen
  <2>5. ASSUME NEW m, trouble # None, Concluded(sent', m, "error") PROVE OneVerdict'
    <3>1. /\ At("end")' \cup At("error")' = {m} /\ At("end")' = {}
          /\ \A j \in Positions' : j > m => sent'[j].at = "done"
      BY <2>5, SaidOnce DEF At, Positions
    <3>2. Cardinality(At("end")' \cup At("error")') = 1
      BY <3>1, FS_Singleton
    <3>3. result'.status = "error"
      BY <1>2, <2>1, <2>5
    <3> QED  BY <3>1, <3>2, <3>3 DEF OneVerdict, StoredBeforeSeen
  <2> QED  BY <2>3, <2>4, <2>5, SettleSends
<1> QED  BY <1>6, <1>7, <1>8, <1>9, <1>10 DEF Inv

LEMMA StepKeeps == Inv /\ [Next]_vars => Inv'
<1> SUFFICES ASSUME Inv, [Next]_vars PROVE Inv'
  OBVIOUS
<1>1. ASSUME UNCHANGED vars PROVE Inv'
  <2> USE <1>1 DEF vars
  <2>1. Typed'
    BY DEF Inv, Typed, ReaderTyped, WriterTyped, BatchTyped, Beating
  <2>2. UsageTold' /\ Ordered' /\ Troubled'
    BY DEF Inv, UsageTold, Ordered, Troubled, Closed
  <2>3. SentInOrder' /\ EndUnderway' /\ Closed' = Closed
    BY DEF Inv, SentInOrder, EndUnderway, Closed
  <2>4. FairlySettled => FairlySettled'
    BY DEF FairlySettled, UsageCharged, Blameless, Closed, Abandoned, Committed
  <2>5. OneVerdict => OneVerdict'
    BY DEF OneVerdict, StoredBeforeSeen, At, Positions, Closed
  <2> QED  BY <2>1, <2>2, <2>3, <2>4, <2>5 DEF Inv
<1>2. Reads \/ Steps \/ Beat \/ ClientLeaves \/ UNCHANGED vars
  BY DEF Next, Reads
<1> QED
  BY <1>1, <1>2, ReadsKeep, AttachKeeps, PersistKeeps, TakeKeeps, WritesKeep, LeavesKeep, SettleKeeps,
     BeatKeeps, ClientLeavesKeeps DEF Steps

LEMMA InitKeeps == Init => Inv
<1> SUFFICES ASSUME Init PROVE Inv
  OBVIOUS
<1>1. Of(Begin(public), Body)
  <2>1. Frame("begin", 0, "in_progress", {}).at \in Body
    BY Frames DEF Body
  <2> QED  BY <2>1, OfFew DEF Begin
<1>2. BatchTyped(ready) /\ ~ready.last /\ ready.usage = 0 /\ writing = Nothing
  BY <1>1 DEF Init, Batch, BatchTyped, Counts
<1>3. ReaderTyped
  <2>1. ParserStart \in Parsers
    BY DEF ParserStart, Parsers, Fins, Counts
  <2>2. ObsStart \in Observers
    <3>1. <<>> \in ChoiceMaps
      <4>1. <<>> \in [{} -> Choices]
        OBVIOUS
      <4> QED  BY <4>1 DEF ChoiceMaps
    <3> QED  BY <3>1 DEF ObsStart, Observers, Counts
  <2>3. DOMAIN ViewStart = Fields
    BY Zenon DEF ViewStart, Fields
  <2>4. 0 \in Counts /\ "open" \in Sources
    BY DEF Counts, Sources
  <2>5. /\ parser = ParserStart /\ n = 0 /\ obs = ObsStart /\ view = ViewStart /\ source = "open"
        /\ seen = 0
    BY DEF Init
  <2> QED  BY <1>2, <2>1, <2>2, <2>3, <2>4, <2>5 DEF ReaderTyped
<1>4. WriterTyped
  BY <1>2, NothingReady DEF Init, WriterTyped
<1>5. UsageTold /\ Ordered /\ Troubled
  BY <1>2, NothingReady DEF Init, UsageTold, Ordered, Troubled, ObsStart, ViewStart
<1>6. SentInOrder /\ EndUnderway /\ ~Closed
  BY <1>2, NothingReady, OfFew DEF Init, SentInOrder, EndUnderway, Closed
<1> QED  BY <1>3, <1>4, <1>5, <1>6 DEF Inv, Typed

\* The variables of a stream keep their types (streamLifecycle.ts:34-63).
THEOREM TypeCorrect == Spec => []TypeOK
<1>1. ASSUME Inv PROVE TypeOK
  <2>1. wire \in WireNames /\ public \in {"chat", "messages", "responses"}
    BY <1>1 DEF Inv, Typed, WriterTyped
  <2>2. /\ obs.usage \in 0..MaxEvents /\ obs.phase \in {"first_output", "idle"}
        /\ obs.terminal = None \/ obs.terminal.outcome \in {"completed", "incomplete", "blocked"}
    BY <1>1 DEF Inv, Typed, ReaderTyped, Observers, Counts, Terminals, Outcomes
  <2>3. DOMAIN obs.choices \subseteq {0, 1}
    BY <1>1, ChoicesTyped DEF Inv, Typed, ReaderTyped
  <2> QED  BY <1>1, <2>1, <2>2, <2>3 DEF TypeOK, Inv, Typed, ReaderTyped, WriterTyped, Counts
<1> QED  BY <1>1, InitKeeps, StepKeeps, PTL DEF Spec

\* A client that was told the end of its stream is told of no error, and of
\* nothing but [DONE] after either; the log agrees with what it was told, and
\* a Responses client that asked for storage sees the end of what is stored
\* (responses.ts:487-507, sse.ts:20-38).
THEOREM EndToldOnce == Spec => []OneVerdict
BY InitKeeps, StepKeeps, OpenVerdict, PTL DEF Spec

\* Usage that the provider has reported is charged however the stream ends,
\* in its last version when it ends well, and a deployment is blamed only
\* for what upstream did while the client was there (router/index.ts:674).
THEOREM SettledFairly == Spec => []FairlySettled
<1>1. Inv => FairlySettled
  BY DEF Inv, FairlySettled, UsageCharged, Blameless
<1> QED  BY <1>1, InitKeeps, StepKeeps, PTL DEF Spec
-----------------------------------------------------------------------------
(* What the client, the log and the JSON document are told.                *)

Reason(o, i) == ChoiceState(o, i).fin

\* An event that ends a choice of a document means this outcome, whatever
\* follows it in the document.
Means(e, outcome) ==
    \A d : d.called \in BOOLEAN /\ ~(wire = "messages" /\ d.called) =>
               OutcomeOf(JsonFinish(wire, d, e)) = outcome

\* The reasons the observer has are those of the document. A reason of a
\* Messages stream is with the parser until its message_stop.
ReasonsMatch ==
    /\ obs.adapter = None
    /\ DOMAIN doc.ends \subseteq {0, 1}
    /\ \A i \in {0, 1} : Reason(obs, i) # None =>
          i \in DOMAIN doc.ends /\ Means(doc.ends[i], OutcomeOf(Reason(obs, i)))
    /\ wire # "messages" => \A i \in DOMAIN doc.ends : Reason(obs, i) # None
    /\ wire = "messages" =>
          /\ DOMAIN doc.ends \subseteq {0} /\ DOMAIN obs.choices \subseteq {0}
          /\ IF 0 \in DOMAIN doc.ends
             THEN parser.pending # None /\ Means(doc.ends[0], OutcomeOf(parser.pending))
             ELSE parser.pending = None

\* A Responses stream is over with its terminal event.
TerminalMatches ==
    /\ DOMAIN obs.choices \subseteq {0}
    /\ parser.called = doc.called
    /\ IF doc.ends = <<>> THEN obs.adapter = None /\ Reason(obs, 0) = None
       ELSE /\ DOMAIN doc.ends = {0} /\ doc.ends[0].k \in {"completed", "incomplete"}
            /\ parser.over
            /\ obs.adapter = ResponsesTerminal(doc.ends[0], doc.called)
            /\ Reason(obs, 0) = ResponsesFinish(doc.ends[0], doc.called)

Agreed == IF wire = "responses" THEN TerminalMatches ELSE ReasonsMatch

\* The frame that ends the stream says what the log says.
EndSays == EndFrame(public, FirstOf(Ends(obs))).type

Fits ==
    Cardinality(DOMAIN obs.choices) = 1 /\ ~CallHidesTruncation =>
        IF public = "responses" \/ wire = "responses"
        THEN (ToldOutcome(EndSays) = "completed") = (obs.terminal.outcome = "completed")
        ELSE ToldOutcome(EndSays) = obs.terminal.outcome

Judged ==
    /\ doc.called \in BOOLEAN
    /\ obs.terminal # None => source = "ended"
    /\ source = "open" => Agreed
    /\ source = "ended" => StreamLikeJson /\ Fits

\* It is the last of the last batch, until the client has it.
Signed ==
    /\ ready.last => ready.frames[Len(ready.frames)].type = EndSays
    /\ writing.last => writing.frames[Len(writing.frames)].type = EndSays
    /\ \A j \in At("end") : source = "ended" /\ sent[j].type = EndSays

Outcome == Inv /\ Judged /\ Signed
-----------------------------------------------------------------------------
\* Reasons the observer takes together are of one outcome.
LEMMA Merges ==
    ASSUME NEW old \in Fins, NEW new \in Fins, ~Conflict(old, new)
    PROVE  /\ new = None => MergeFinish(old, new) = old
           /\ new # None => /\ MergeFinish(old, new) # None
                            /\ OutcomeOf(MergeFinish(old, new)) = OutcomeOf(new)
BY DEF Fins, FinishReasons, Conflict, MergeFinish, OutcomeOf

LEMMA Observes ==
    ASSUME NEW o \in Observers, NEW c, ChunkTyped(c)
    PROVE  LET x == Observe(o, c)
           IN  /\ \A i \in {0, 1} : Reason(x, i) = IF i = c.choice THEN MergeFinish(Reason(o, i), c.fin) ELSE Reason(o, i)
               /\ DOMAIN x.choices = IF c.choice = None THEN DOMAIN o.choices ELSE DOMAIN o.choices \cup {c.choice}
               /\ x.adapter = (IF c.terminal # None THEN c.terminal ELSE o.adapter) /\ x.terminal = o.terminal
<1> DEFINE s == Semantic(c)
           old == ChoiceState(o, c.choice)
           choice == [fin |-> MergeFinish(old.fin, c.fin),
                      output |-> old.output \/ s \in Progress,
                      tool |-> old.tool \/ s = "tool"]
           choices == IF c.choice = None THEN o.choices ELSE With(o.choices, c.choice, choice)
           x == Observe(o, c)
<1>1. /\ x.choices = choices /\ x.terminal = o.terminal
      /\ x.adapter = IF c.terminal # None THEN c.terminal ELSE o.adapter
  <2> HIDE DEF choice, s
  <2> QED  BY DEF Observe, Observers, old, choice, s
<1>2. choice.fin = MergeFinish(Reason(o, c.choice), c.fin)
  BY DEF Reason
<1> HIDE DEF x, choice
<1>3. CASE c.choice = None
  <2>1. \A i \in {0, 1} : i # None
    BY DEF ChunkTyped
  <2> QED  BY <1>1, <1>3, <2>1 DEF Reason, ChoiceState, x
<1>4. CASE c.choice # None
  <2>1. /\ DOMAIN choices = DOMAIN o.choices \cup {c.choice} /\ choices[c.choice] = choice
        /\ \A i \in DOMAIN o.choices : i # c.choice => choices[i] = o.choices[i]
    BY <1>4 DEF With
  <2> HIDE DEF choices
  <2>2. \A i : Reason(x, i) = IF i = c.choice THEN MergeFinish(Reason(o, i), c.fin) ELSE Reason(o, i)
    BY <1>1, <1>2, <2>1 DEF Reason, ChoiceState
  <2> QED  BY <1>1, <1>4, <2>1, <2>2 DEF x
<1> QED  BY <1>3, <1>4
-----------------------------------------------------------------------------
(* What the parsers tell of the reasons of an event that does not fail.    *)

\* The chunk of an event carries its reason.
Reasoned(y, e) ==
    /\ y.ends => e.k = "done"
    /\ y.chunks = <<>> => e.k \notin EndKinds
    /\ y.chunks # <<>> =>
          LET c == y.chunks[1]
          IN  /\ c.terminal = None
              /\ IF e.k \in EndKinds THEN c.choice = e.i /\ c.fin # None /\ Means(e, OutcomeOf(c.fin)) ELSE c.fin = None

LEMMA YieldsOne ==
    ASSUME NEW p, NEW c
    PROVE  LET y == Yields(p, <<c>>) IN y.p = p /\ y.error = None /\ ~y.ends /\ y.chunks # <<>> /\ y.chunks[1] = c
BY DEF Yields

LEMMA Others ==
    ASSUME NEW p, NEW code
    PROVE  /\ LET y == Yields(p, <<>>) IN y.p = p /\ y.error = None /\ ~y.ends /\ y.chunks = <<>>
           /\ LET y == Returns(p) IN y.p = p /\ y.error = None /\ y.ends /\ y.chunks = <<>>
           /\ Throws(p, code).error = code
BY DEF Yields, Returns, Throws

\* A chunk that gives no reason, and one that gives a choice its reason.
Quiet(c) == c.terminal = None /\ c.fin = None
Names(c, i, r) == c.terminal = None /\ c.choice = i /\ c.fin = r

LEMMA QuietChunks ==
    \A x, i : /\ Quiet([Chunk EXCEPT !.text = x]) /\ Quiet([Chunk EXCEPT !.think = x])
              /\ Quiet([Chunk EXCEPT !.tools = x]) /\ Quiet([Chunk EXCEPT !.native = x])
              /\ Quiet([Chunk EXCEPT !.choice = i, !.text = x]) /\ Quiet([Chunk EXCEPT !.choice = i, !.think = x])
              /\ Quiet([Note EXCEPT !.usage = x]) /\ Quiet(Note)
BY DEF Quiet, Chunk, Note

LEMMA NamingChunks ==
    \A x, i, u : /\ Names([Chunk EXCEPT !.choice = i, !.fin = x], i, x)
                 /\ Names([Chunk EXCEPT !.fin = x], 0, x)
                 /\ Names([Chunk EXCEPT !.fin = x, !.usage = u], 0, x)
BY DEF Names, Chunk, Note

LEMMA QuietReasoned ==
    ASSUME NEW p, NEW c, Quiet(c), NEW e, e.k \notin EndKinds
    PROVE  Reasoned(Yields(p, <<c>>), e)
BY YieldsOne DEF Reasoned, Quiet

LEMMA NamingReasoned ==
    ASSUME NEW p, NEW c, NEW e, e.k \in EndKinds, NEW r, Names(c, e.i, r), r # None, Means(e, OutcomeOf(r))
    PROVE  Reasoned(Yields(p, <<c>>), e)
BY YieldsOne DEF Reasoned, Names

LEMMA DoneReasoned ==
    ASSUME NEW p, NEW e, e.k = "done"
    PROVE  Reasoned(Returns(p), e)
BY Others DEF Reasoned, EndKinds

LEMMA ChatReasons ==
    ASSUME wire = "chat_completions", NEW e \in EventsOf["chat_completions"], NEW p, NEW k,
           ChatParse(p, e, k).error = None
    PROVE  Reasoned(ChatParse(p, e, k), e)
<1>1. "upstream_error" # None /\ "upstream_protocol_error" # None
  BY DEF UpstreamErrors
<1>2. e.k \in {"text", "think", "tool", "usage", "done"} \/ (e.k = "fin" /\ e.r # "odd")
  BY <1>1, Others DEF ChatParse
<1>3. e.k = "fin" => e.r \in FinishReasons \cup {"odd"}
  <2>1. \/ e \in Plain({"text", "think", "usage", "junk", "error", "done"})
        \/ e \in Indexed({"tool"})
        \/ e \in Ending("fin", FinishReasons \cup {"odd"})
        \/ e \in {Event("text", 1, None), Event("fin", 1, "stop"), Event("fin", 1, "length")}
    BY DEF EventsOf
  <2>2. CASE e \in {Event("text", 1, None), Event("fin", 1, "stop"), Event("fin", 1, "length")}
    BY <2>2 DEF Event, FinishReasons
  <2> QED  BY <2>1, <2>2, EventsTyped
<1>4. CASE e.k \in {"text", "think", "tool", "usage"}
  <2>1. e.k \notin EndKinds
    BY <1>4 DEF EndKinds
  <2> QED  BY <1>4, <2>1, QuietChunks, QuietReasoned DEF ChatParse
<1>5. CASE e.k = "fin" /\ e.r # "odd"
  <2>1. e.r # None /\ Means(e, OutcomeOf(e.r)) /\ e.k \in EndKinds
    BY <1>3, <1>5 DEF Means, JsonFinish, EndKinds
  <2> QED  BY <1>5, <2>1, NamingChunks, NamingReasoned DEF ChatParse
<1>6. CASE e.k = "done"
  BY <1>6, DoneReasoned DEF ChatParse
<1> QED  BY <1>2, <1>4, <1>5, <1>6

LEMMA GeminiReasons ==
    ASSUME wire = "gemini", NEW e \in EventsOf["gemini"], NEW p \in Parsers, NEW k,
           GeminiParse(p, e, k).error = None
    PROVE  Reasoned(GeminiParse(p, e, k), e)
<1>1. "upstream_invalid_tool_call" # None /\ "upstream_protocol_error" # None
  BY DEF UpstreamErrors
<1>2. e.k \in {"text", "think", "call", "blocked", "usage", "done"} \/ (e.k = "fin" /\ e.r # "MALFORMED_FUNCTION_CALL")
  BY <1>1, Others DEF GeminiParse
<1>3. e.i = 0 /\ (e.k = "fin" => e.r \in {"STOP", "MAX_TOKENS", "SAFETY", "MALFORMED_FUNCTION_CALL"})
  <2>1. \/ e \in Plain({"text", "think", "call", "blocked", "usage", "junk", "done"})
        \/ e \in Ending("fin", {"STOP", "MAX_TOKENS", "SAFETY", "MALFORMED_FUNCTION_CALL"})
    BY DEF EventsOf
  <2> QED  BY <2>1, EventsTyped
<1>4. CASE e.k \in {"text", "think", "call", "usage"}
  <2>1. e.k \notin EndKinds
    BY <1>4 DEF EndKinds
  <2> QED  BY <1>4, <2>1, QuietChunks, QuietReasoned DEF GeminiParse
<1>5. CASE e.k = "fin" /\ e.r # "MALFORMED_FUNCTION_CALL"
  <2> DEFINE r == GeminiFinish(e.r, p.called)
  <2>1. GeminiParse(p, e, k) = Yields(p, <<[Chunk EXCEPT !.fin = r, !.usage = k]>>)
    BY <1>5 DEF GeminiParse
  <2>2. p.called \in BOOLEAN
    BY DEF Parsers
  <2>3. r # None /\ Means(e, OutcomeOf(r)) /\ e.k \in EndKinds
    BY <1>3, <1>5, <2>2 DEF Means, JsonFinish, GeminiFinish, OutcomeOf, FinishReasons, EndKinds
  <2> DEFINE c == [Chunk EXCEPT !.fin = r, !.usage = k]
  <2> HIDE DEF r
  <2>4. Names(c, e.i, r)
    BY <1>3, NamingChunks
  <2> HIDE DEF c
  <2> QED  BY <2>1, <2>3, <2>4, NamingReasoned DEF c
<1>6. CASE e.k = "blocked"
  <2>1. /\ "content_filter" # None /\ Means(e, OutcomeOf("content_filter")) /\ e.k \in EndKinds
    BY <1>6 DEF Means, JsonFinish, FinishReasons, EndKinds
  <2>2. GeminiParse(p, e, k) = Yields(p, <<[Chunk EXCEPT !.fin = "content_filter"]>>)
    BY <1>6 DEF GeminiParse
  <2> DEFINE c == [Chunk EXCEPT !.fin = "content_filter"]
  <2>3. Names(c, e.i, "content_filter")
    BY <1>3, NamingChunks
  <2> HIDE DEF c
  <2> QED  BY <2>1, <2>2, <2>3, NamingReasoned DEF c
<1>7. CASE e.k = "done"
  BY <1>7, DoneReasoned DEF GeminiParse
<1> QED  BY <1>2, <1>4, <1>5, <1>6, <1>7

\* The reason of a Messages stream waits for its message_stop.
PendingTold(p, y, e) ==
    /\ ~y.ends
    /\ IF e.k \in EndKinds
       THEN /\ y.chunks = <<>> /\ p.pending = None /\ e.i = 0
            /\ y.p.pending # None /\ Means(e, OutcomeOf(y.p.pending))
       ELSE y.p.pending = p.pending
    /\ y.chunks # <<>> =>
          LET c == y.chunks[1] IN c.terminal = None /\ c.choice \in {None, 0} /\ c.fin \in {None, p.pending}

\* A chunk of a Messages stream gives this reason or none.
Held(c, fin) == c.terminal = None /\ c.choice \in {None, 0} /\ c.fin \in {None, fin}

LEMMA HeldChunks ==
    ASSUME NEW fin
    PROVE  /\ \A x : /\ Held([Chunk EXCEPT !.text = x], fin) /\ Held([Chunk EXCEPT !.think = x], fin)
                     /\ Held([Chunk EXCEPT !.tools = x], fin) /\ Held([Chunk EXCEPT !.native = x], fin)
           /\ Held(Note, fin) /\ \A u : Held([Chunk EXCEPT !.fin = fin, !.usage = u], fin)
BY DEF Held, Chunk, Note

LEMMA PendingYields ==
    ASSUME NEW p, NEW q, q.pending = p.pending, NEW c, NEW e, e.k \notin EndKinds, Held(c, p.pending)
    PROVE  PendingTold(p, Yields(q, <<c>>), e) /\ PendingTold(p, Yields(q, <<>>), e)
BY YieldsOne, Others DEF PendingTold, Held

LEMMA MessagesReasons ==
    ASSUME wire = "messages", NEW e \in EventsOf["messages"], NEW p \in Parsers, NEW k,
           MessagesParse(p, e, k).error = None
    PROVE  PendingTold(p, MessagesParse(p, e, k), e)
<1>1. "upstream_error" # None /\ "upstream_protocol_error" # None
  BY DEF UpstreamErrors
<1>2. e.i = 0 \/ e.k \in {"tool", "args"}
  <2>1. \/ e \in Plain({"thinking", "think", "block", "redacted", "text", "stop", "error", "ping"})
        \/ e \in Indexed({"tool", "args"})
        \/ e \in Ending("delta", {"end_turn", "max_tokens", "tool_use", "refusal", "odd", None})
    BY DEF EventsOf
  <2> QED  BY <2>1, EventsTyped
<1>3. LET q(b) == [p EXCEPT !.blocks = b] IN q(TRUE).pending = p.pending /\ q(FALSE).pending = p.pending
  BY DEF Parsers
<1>4. CASE e.k = "delta"
  <2>1. p.pending = None /\ e.r \in DOMAIN AnthropicFinish
    BY <1>1, <1>4, Others DEF MessagesParse, MessagesDelta
  <2> DEFINE q == [p EXCEPT !.pending = AnthropicFinish[e.r], !.last = k]
  <2>2. MessagesParse(p, e, k) = Yields(q, <<>>)
    BY <1>4, <2>1 DEF MessagesParse, MessagesDelta
  <2>3. q.pending = AnthropicFinish[e.r]
    BY DEF Parsers
  <2>4. AnthropicFinish[e.r] # None
    BY <2>1 DEF AnthropicFinish, FinishReasons
  <2>5. Means(e, OutcomeOf(AnthropicFinish[e.r]))
    BY DEF Means, JsonFinish
  <2> HIDE DEF q
  <2> QED  BY <1>2, <1>4, <2>1, <2>2, <2>3, <2>4, <2>5, Others DEF PendingTold, EndKinds
<1>5. CASE e.k = "stop"
  <2> DEFINE q == [p EXCEPT !.over = TRUE]
             c == [Chunk EXCEPT !.fin = p.pending, !.usage = p.last]
  <2>1. MessagesParse(p, e, k) = Yields(q, <<c>>)
    BY <1>1, <1>5, Others DEF MessagesParse, MessagesStop
  <2>2. q.pending = p.pending
    BY DEF Parsers
  <2>3. Held(c, p.pending)
    BY HeldChunks
  <2>4. e.k \notin EndKinds
    BY <1>5 DEF EndKinds
  <2> HIDE DEF q, c
  <2> QED  BY <2>1, <2>2, <2>3, <2>4, PendingYields
<1>6. CASE e.k \in {"thinking", "think", "block", "redacted", "text", "tool", "args", "ping"}
  <2>1. e.k \notin EndKinds
    BY <1>6 DEF EndKinds
  <2>2. CASE e.k = "thinking"
    BY <1>3, <2>1, <2>2, HeldChunks, PendingYields DEF MessagesParse
  <2>3. CASE e.k = "block"
    <3> DEFINE q == [p EXCEPT !.blocks = FALSE]
    <3>1. MessagesParse(p, e, k) \in {Yields(q, <<[Chunk EXCEPT !.native = "block"]>>), Yields(q, <<>>)}
      BY <2>3 DEF MessagesParse
    <3>2. q.pending = p.pending
      BY <1>3
    <3>3. Held([Chunk EXCEPT !.native = "block"], p.pending)
      BY HeldChunks
    <3> HIDE DEF q
    <3> QED  BY <2>1, <3>1, <3>2, <3>3, PendingYields
  <2>4. CASE e.k \in {"think", "redacted", "text", "tool", "args", "ping"}
    BY <2>1, <2>4, HeldChunks, PendingYields DEF MessagesParse
  <2> QED  BY <1>6, <2>2, <2>3, <2>4
<1> QED  BY <1>1, <1>4, <1>5, <1>6, Others DEF MessagesParse

\* A Responses stream tells its reason and its status with one event.
TerminalTold(p, y, e) ==
    /\ y.ends => e.k = "done"
    /\ y.p.called = (p.called \/ e.k \in {"tool", "call"})
    /\ IF e.k \in EndKinds
       THEN /\ ~p.over /\ y.p.over /\ e.i = 0 /\ e.k \in {"completed", "incomplete"} /\ y.chunks # <<>>
            /\ LET c == y.chunks[1]
               IN  /\ c.choice = 0 /\ c.fin = ResponsesFinish(e, p.called)
                   /\ c.terminal = ResponsesTerminal(e, p.called)
       ELSE /\ y.p.over = p.over
            /\ IF y.chunks = <<>> THEN e.k \notin {"tool", "call"}
               ELSE ~p.over /\ LET c == y.chunks[1] IN c.choice = 0 /\ c.fin = None /\ c.terminal = None

\* A chunk of a Responses stream that does not end it.
Amid(c) == c.choice = 0 /\ c.fin = None /\ c.terminal = None

LEMMA AmidChunks ==
    ASSUME NEW k
    PROVE  LET c == [Chunk EXCEPT !.event = k]
           IN  /\ Amid(c)
               /\ \A x : Amid([c EXCEPT !.text = x]) /\ Amid([c EXCEPT !.think = x]) /\ Amid([c EXCEPT !.tools = x])
BY DEF Amid, Chunk, Note

LEMMA AmidYields ==
    ASSUME NEW p, ~p.over, NEW q, q.over = p.over, NEW e, q.called = (p.called \/ e.k \in {"tool", "call"}),
           NEW c, Amid(c), e.k \notin EndKinds
    PROVE  TerminalTold(p, Yields(q, <<c>>), e)
BY YieldsOne DEF TerminalTold, Amid

LEMMA ResponsesReasons ==
    ASSUME NEW e \in EventsOf["responses"], NEW p \in Parsers, NEW k,
           ResponsesParse(p, e, k).error = None
    PROVE  TerminalTold(p, ResponsesParse(p, e, k), e)
<1>1. "upstream_error" # None /\ "upstream_protocol_error" # None
  BY DEF UpstreamErrors
<1>2. p.over \in BOOLEAN /\ p.called \in BOOLEAN
  BY DEF Parsers
<1>3. /\ e.k \in {"created", "text", "think", "item", "failed", "done", "tool", "args", "completed", "incomplete"}
      /\ e.k \in {"completed", "incomplete"} => e.i = 0
  <2>1. \/ e \in Plain({"created", "text", "think", "item", "failed", "done"})
        \/ e \in Indexed({"tool", "args"})
        \/ e \in Ending("completed", {None})
        \/ e \in Ending("incomplete", {"max_output_tokens", "filter"})
    BY DEF EventsOf
  <2> QED  BY <2>1, EventsTyped
<1>4. CASE e.k = "done"
  <2>1. ResponsesParse(p, e, k) = Returns(p)
    BY <1>4 DEF ResponsesParse
  <2> QED  BY <1>2, <1>4, <2>1, Others DEF TerminalTold, EndKinds
<1>5. CASE e.k # "done"
  <2>1. ~p.over /\ e.k # "failed"
    BY <1>1, <1>2, <1>3, <1>5, Others DEF ResponsesParse
  <2>2. CASE e.k = "created"
    <3>1. ResponsesParse(p, e, k) = Yields(p, <<>>)
      BY <1>2, <2>1, <2>2 DEF ResponsesParse
    <3> QED  BY <1>2, <2>2, <3>1, Others DEF TerminalTold, EndKinds
  <2>3. CASE e.k \in {"text", "think", "args", "item"}
    <3>1. e.k \notin EndKinds /\ p.called = (p.called \/ e.k \in {"tool", "call"})
      BY <1>2, <2>3 DEF EndKinds
    <3>2. PICK c : ResponsesParse(p, e, k) = Yields(p, <<c>>) /\ Amid(c)
      BY <1>2, <2>1, <2>3, AmidChunks DEF ResponsesParse
    <3> QED  BY <2>1, <3>1, <3>2, AmidYields
  <2>4. CASE e.k = "tool"
    <3> DEFINE q == [p EXCEPT !.called = TRUE]
    <3>1. e.k \notin EndKinds /\ q.over = p.over /\ q.called = (p.called \/ e.k \in {"tool", "call"})
      BY <2>4 DEF EndKinds, Parsers
    <3>2. PICK c : ResponsesParse(p, e, k) = Yields(q, <<c>>) /\ Amid(c)
      BY <1>2, <2>1, <2>4, AmidChunks DEF ResponsesParse
    <3> HIDE DEF q
    <3> QED  BY <2>1, <3>1, <3>2, AmidYields
  <2>7. CASE e.k \in {"completed", "incomplete"}
    <3> DEFINE q == [p EXCEPT !.over = TRUE]
               d == [Chunk EXCEPT !.fin = ResponsesFinish(e, p.called), !.usage = k,
                                  !.terminal = ResponsesTerminal(e, p.called)]
    <3>1. ResponsesParse(p, e, k) = Yields(q, <<d>>)
      BY <1>2, <2>1, <2>7 DEF ResponsesParse
    <3>2. q.over = TRUE /\ q.called = (p.called \/ e.k \in {"tool", "call"}) /\ e.k \in EndKinds /\ e.k # "done"
      BY <1>2, <2>7 DEF Parsers, EndKinds
    <3>3. d.choice = 0 /\ d.fin = ResponsesFinish(e, p.called) /\ d.terminal = ResponsesTerminal(e, p.called)
      BY DEF Chunk, Note
    <3> HIDE DEF q, d
    <3> QED  BY <1>3, <2>1, <2>7, <3>1, <3>2, <3>3, YieldsOne DEF TerminalTold
  <2> QED  BY <1>3, <1>5, <2>1, <2>2, <2>3, <2>4, <2>7
<1> QED  BY <1>4, <1>5
-----------------------------------------------------------------------------
(* The reader keeps the reasons of the document.                           *)

LEMMA Gathers ==
    ASSUME NEW w, NEW d, NEW e, NEW k
    PROVE  LET g == Gather(w, d, e, k)
           IN  /\ g.called = (d.called \/ e.k \in {"tool", "call"})
               /\ e.k \notin EndKinds => g.ends = d.ends
               /\ e.k \in EndKinds => /\ DOMAIN g.ends = DOMAIN d.ends \cup {e.i} /\ g.ends[e.i] = e
                                      /\ \A i \in DOMAIN d.ends : i # e.i => g.ends[i] = d.ends[i]
BY DEF Gather

\* A chunk that contradicts nothing gives one choice its reason, or none.
LEMMA Reasons ==
    ASSUME NEW o \in Observers, NEW c, ChunkTyped(c), ~Contradicts(o, c)
    PROVE  LET x == Observe(o, c)
           IN  \A i \in {0, 1} :
                  /\ i = c.choice /\ c.fin # None =>
                        Reason(x, i) # None /\ OutcomeOf(Reason(x, i)) = OutcomeOf(c.fin)
                  /\ i = c.choice /\ Reason(o, i) = None => Reason(x, i) = c.fin
                  /\ i # c.choice \/ c.fin = None => Reason(x, i) = Reason(o, i)
<1>1. c.fin \in Fins
  BY DEF ChunkTyped
<1>2. \A i : Reason(o, i) \in Fins
  <2>1. \A i : ChoiceState(o, i) \in Choices
    BY ChoicesTyped
  <2> QED  BY <2>1 DEF Reason, Choices
<1>3. c.choice # None => ~Conflict(Reason(o, c.choice), c.fin)
  BY DEF Contradicts, Reason
<1>4. \A new \in Fins : MergeFinish(None, new) = new
  BY DEF Fins, FinishReasons, MergeFinish
<1> DEFINE x == Observe(o, c)
<1>5. \A i \in {0, 1} : Reason(x, i) = IF i = c.choice THEN MergeFinish(Reason(o, i), c.fin) ELSE Reason(o, i)
  BY Observes
<1> HIDE DEF x
<1>6. ASSUME NEW i \in {0, 1}, i = c.choice
      PROVE  /\ c.fin # None => Reason(x, i) # None /\ OutcomeOf(Reason(x, i)) = OutcomeOf(c.fin)
             /\ Reason(o, i) = None => Reason(x, i) = c.fin
             /\ c.fin = None => Reason(x, i) = Reason(o, i)
  <2>1. i # None
    OBVIOUS
  <2>2. Reason(o, i) \in Fins /\ ~Conflict(Reason(o, i), c.fin)
    BY <1>2, <1>3, <1>6, <2>1
  <2>3. Reason(x, i) = MergeFinish(Reason(o, i), c.fin)
    BY <1>5, <1>6
  <2> QED  BY <1>1, <1>4, <2>2, <2>3, Merges
<1> QED  BY <1>5, <1>6 DEF x

\* What a step of the reader does to the observer, when it does not fail.
Observed(y) ==
    \/ y.chunks = <<>> /\ obs' = obs
    \/ y.chunks # <<>> /\ ChunkTyped(y.chunks[1]) /\ ~Contradicts(obs, y.chunks[1])
       /\ obs' = Observe(obs, y.chunks[1])

LEMMA MeansKept == wire' = wire => \A e, o : Means(e, o)' <=> Means(e, o)
BY DEF Means

LEMMA ReasonedMatches ==
    ASSUME Typed, ReasonsMatch, wire \notin {"messages", "responses"}, wire' = wire,
           NEW e, e.i \in {0, 1}, NEW k, doc' = Gather(wire, doc, e, k),
           NEW y, Reasoned(y, e), Observed(y)
    PROVE  ReasonsMatch'
<1>1. obs \in Observers
  BY DEF Typed, ReaderTyped
<1>2. CASE e.k \notin EndKinds
  <2>1. doc'.ends = doc.ends
    BY <1>2, Gathers
  <2>2. obs'.adapter = None /\ \A i \in {0, 1} : Reason(obs', i) = Reason(obs, i)
    <3>1. CASE y.chunks = <<>>
      BY <3>1 DEF Observed, ReasonsMatch
    <3>2. CASE y.chunks # <<>>
      <4> DEFINE c == y.chunks[1]
      <4>1. c.terminal = None /\ c.fin = None /\ ChunkTyped(c) /\ ~Contradicts(obs, c) /\ obs' = Observe(obs, c)
        BY <1>2, <3>2 DEF Observed, Reasoned
      <4> HIDE DEF c
      <4>2. obs'.adapter = None
        BY <1>1, <4>1, Observes DEF ReasonsMatch
      <4>3. \A i \in {0, 1} : Reason(obs', i) = Reason(obs, i)
        BY <1>1, <4>1, Reasons
      <4> QED  BY <4>2, <4>3
    <3> QED  BY <3>1, <3>2
  <2> QED  BY <2>1, <2>2, MeansKept DEF ReasonsMatch
<1>3. CASE e.k \in EndKinds
  <2> DEFINE c == y.chunks[1]
  <2>1. /\ c.terminal = None /\ c.choice = e.i /\ c.fin # None /\ Means(e, OutcomeOf(c.fin))
        /\ ChunkTyped(c) /\ ~Contradicts(obs, c) /\ obs' = Observe(obs, c)
    BY <1>3 DEF Observed, Reasoned
  <2> HIDE DEF c
  <2>2. obs'.adapter = None
    BY <1>1, <2>1, Observes DEF ReasonsMatch
  <2>3. /\ Reason(obs', e.i) # None /\ Means(e, OutcomeOf(Reason(obs', e.i)))
        /\ \A i \in {0, 1} : i # e.i => Reason(obs', i) = Reason(obs, i)
    BY <1>1, <2>1, Reasons
  <2>4. /\ DOMAIN doc'.ends = DOMAIN doc.ends \cup {e.i} /\ doc'.ends[e.i] = e
        /\ \A i \in DOMAIN doc.ends : i # e.i => doc'.ends[i] = doc.ends[i]
    BY <1>3, Gathers
  <2> QED  BY <2>2, <2>3, <2>4, MeansKept DEF ReasonsMatch
<1> QED  BY <1>2, <1>3

LEMMA PendingMatches ==
    ASSUME Typed, ReasonsMatch, wire = "messages", wire' = wire,
           NEW e, NEW k, doc' = Gather(wire, doc, e, k),
           NEW y, PendingTold(parser, y, e), Observed(y), parser' = y.p
    PROVE  ReasonsMatch'
<1>1. obs \in Observers
  BY DEF Typed, ReaderTyped
<1>2. CASE e.k \notin EndKinds
  <2>1. doc'.ends = doc.ends /\ parser'.pending = parser.pending
    BY <1>2, Gathers DEF PendingTold
  <2>2. CASE y.chunks = <<>>
    <3>1. obs' = obs
      BY <2>2 DEF Observed
    <3> QED  BY <2>1, <3>1, MeansKept DEF ReasonsMatch
  <2>3. CASE y.chunks # <<>>
    <3> DEFINE c == y.chunks[1]
    <3>1. /\ c.terminal = None /\ c.choice \in {None, 0} /\ c.fin \in {None, parser.pending}
          /\ ChunkTyped(c) /\ ~Contradicts(obs, c) /\ obs' = Observe(obs, c)
      BY <2>3 DEF Observed, PendingTold
    <3> HIDE DEF c
    <3>2. obs'.adapter = None /\ DOMAIN obs'.choices \subseteq {0}
      BY <1>1, <3>1, Observes DEF ReasonsMatch
    <3>3. Reason(obs', 1) = Reason(obs, 1)
      BY <1>1, <3>1, Reasons
    <3>4. \/ Reason(obs', 0) = Reason(obs, 0)
          \/ /\ Reason(obs', 0) # None /\ parser.pending # None
             /\ OutcomeOf(Reason(obs', 0)) = OutcomeOf(parser.pending)
      BY <1>1, <3>1, Reasons
    <3> QED  BY <2>1, <3>2, <3>3, <3>4, MeansKept DEF ReasonsMatch
  <2> QED  BY <2>2, <2>3
<1>3. CASE e.k \in EndKinds
  <2>1. /\ parser.pending = None /\ e.i = 0 /\ obs' = obs
        /\ parser'.pending # None /\ Means(e, OutcomeOf(parser'.pending))
    BY <1>3 DEF PendingTold, Observed
  <2>2. DOMAIN doc'.ends = DOMAIN doc.ends \cup {0} /\ doc'.ends[0] = e
    BY <1>3, <2>1, Gathers
  <2>3. DOMAIN doc.ends = {}
    BY <2>1 DEF ReasonsMatch
  <2> QED  BY <2>1, <2>2, <2>3, MeansKept DEF ReasonsMatch
<1> QED  BY <1>2, <1>3

LEMMA ToldMatches ==
    ASSUME Typed, TerminalMatches, doc.called \in BOOLEAN, 
           NEW e, NEW k, doc' = Gather(wire, doc, e, k),
           NEW y, TerminalTold(parser, y, e), Observed(y), parser' = y.p
    PROVE  TerminalMatches'
<1>1. obs \in Observers
  BY DEF Typed, ReaderTyped
<1>2. parser'.called = doc'.called
  BY Gathers DEF TerminalTold, TerminalMatches
<1>3. CASE e.k \notin EndKinds
  <2>1. doc'.ends = doc.ends /\ parser'.over = parser.over
    BY <1>3, Gathers DEF TerminalTold
  <2>2. CASE y.chunks = <<>>
    <3>1. obs' = obs
      BY <2>2 DEF Observed
    <3>2. doc'.called = doc.called
      BY <1>3, <2>2, Gathers DEF TerminalTold
    <3> QED  BY <1>2, <2>1, <3>1, <3>2 DEF TerminalMatches
  <2>3. CASE y.chunks # <<>>
    <3> DEFINE c == y.chunks[1]
    <3>1. /\ c.terminal = None /\ c.choice = 0 /\ c.fin = None /\ ~parser.over
          /\ ChunkTyped(c) /\ obs' = Observe(obs, c) /\ ~Contradicts(obs, c)
      BY <1>3, <2>3 DEF Observed, TerminalTold
    <3> HIDE DEF c
    <3>2. doc.ends = <<>>
      BY <3>1 DEF TerminalMatches
    <3>3. obs'.adapter = obs.adapter /\ DOMAIN obs'.choices \subseteq {0}
      BY <1>1, <3>1, Observes DEF TerminalMatches
    <3>4. Reason(obs', 0) = Reason(obs, 0)
      BY <1>1, <3>1, Reasons
    <3> QED  BY <1>2, <2>1, <3>2, <3>3, <3>4 DEF TerminalMatches
  <2> QED  BY <2>2, <2>3
<1>4. CASE e.k \in EndKinds
  <2> DEFINE c == y.chunks[1]
  <2>1. /\ ~parser.over /\ parser'.over /\ e.i = 0 /\ e.k \in {"completed", "incomplete"}
        /\ c.choice = 0 /\ c.fin = ResponsesFinish(e, parser.called)
        /\ c.terminal = ResponsesTerminal(e, parser.called)
        /\ ChunkTyped(c) /\ obs' = Observe(obs, c) /\ ~Contradicts(obs, c)
    BY <1>4 DEF Observed, TerminalTold
  <2> HIDE DEF c
  <2>2. doc.ends = <<>> /\ Reason(obs, 0) = None
    BY <2>1 DEF TerminalMatches
  <2>3. DOMAIN doc'.ends = {0} /\ doc'.ends[0] = e /\ doc'.ends # <<>>
    <3>1. DOMAIN doc'.ends = DOMAIN doc.ends \cup {0} /\ doc'.ends[0] = e
      BY <1>4, <2>1, Gathers
    <3> QED  BY <2>2, <3>1
  <2>4. doc'.called = parser.called
    BY <1>4, Gathers DEF EndKinds, TerminalMatches
  <2>5. ResponsesTerminal(e, parser.called) # None
    <3>1. parser.called \in BOOLEAN
      BY DEF Typed, ReaderTyped, Parsers
    <3>2. ResponsesTerminal(e, parser.called) \in Terminals
      BY <2>1, <3>1 DEF ResponsesTerminal, ResponsesFinish, Terminals, Outcomes, FinishReasons
    <3> QED  BY <3>2
  <2>6. obs'.adapter = ResponsesTerminal(e, parser.called) /\ DOMAIN obs'.choices \subseteq {0}
    <3>1. obs'.adapter = IF c.terminal # None THEN c.terminal ELSE obs.adapter
      BY <1>1, <2>1, Observes
    <3>2. DOMAIN obs'.choices = IF c.choice = None THEN DOMAIN obs.choices ELSE DOMAIN obs.choices \cup {c.choice}
      BY <1>1, <2>1, Observes
    <3> QED  BY <2>1, <2>5, <3>1, <3>2 DEF TerminalMatches
  <2>7. Reason(obs', 0) = ResponsesFinish(e, parser.called)
    BY <1>1, <2>1, <2>2, Reasons
  <2> QED  BY <1>2, <2>1, <2>3, <2>4, <2>6, <2>7 DEF TerminalMatches
<1> QED  BY <1>3, <1>4

LEMMA EventIndex == \A e \in EventsOf["chat_completions"] \cup EventsOf["gemini"] : e.i \in {0, 1}
<1>1. ASSUME NEW e \in EventsOf["chat_completions"] PROVE e.i \in {0, 1}
  <2>1. \/ e \in Plain({"text", "think", "usage", "junk", "error", "done"})
        \/ e \in Indexed({"tool"})
        \/ e \in Ending("fin", FinishReasons \cup {"odd"})
        \/ e \in {Event("text", 1, None), Event("fin", 1, "stop"), Event("fin", 1, "length")}
    BY DEF EventsOf
  <2>2. CASE e \in {Event("text", 1, None), Event("fin", 1, "stop"), Event("fin", 1, "length")}
    BY <2>2 DEF Event
  <2> QED  BY <2>1, <2>2, EventsTyped
<1>2. ASSUME NEW e \in EventsOf["gemini"] PROVE e.i \in {0, 1}
  <2>1. \/ e \in Plain({"text", "think", "call", "blocked", "usage", "junk", "done"})
        \/ e \in Ending("fin", {"STOP", "MAX_TOKENS", "SAFETY", "MALFORMED_FUNCTION_CALL"})
    BY DEF EventsOf
  <2> QED  BY <2>1, EventsTyped
<1> QED  BY <1>1, <1>2

\* An event that does not fail, and what was agreed of the events before it.
LEMMA EventAgrees ==
    ASSUME Typed, Judged, source = "open", NEW e \in Alphabet[wire], wire' = wire,
           LET y == Parse(wire, parser, e, n + 1)
           IN  y.error = None /\ parser' = y.p /\ Observed(y),
           doc' = Gather(wire, doc, e, n + 1)
    PROVE  Agreed'
<1> DEFINE y == Parse(wire, parser, e, n + 1)
<1>1. parser \in Parsers /\ e \in EventsOf[wire] /\ wire \in WireNames /\ Agreed
  BY DEF Typed, ReaderTyped, WriterTyped, Judged
<1>2. y.error = None /\ parser' = y.p /\ Observed(y)
  OBVIOUS
<1>3. CASE wire = "chat_completions"
  <2>1. Reasoned(y, e)
    <3>1. y = ChatParse(parser, e, n + 1)
      BY <1>3 DEF Parse
    <3> QED  BY <1>1, <1>2, <1>3, <3>1, ChatReasons
  <2> QED  BY <1>1, <1>2, <1>3, <2>1, EventIndex, ReasonedMatches DEF Agreed
<1>4. CASE wire = "gemini"
  <2>1. Reasoned(y, e)
    <3>1. y = GeminiParse(parser, e, n + 1)
      BY <1>4 DEF Parse
    <3> QED  BY <1>1, <1>2, <1>4, <3>1, GeminiReasons
  <2> QED  BY <1>1, <1>2, <1>4, <2>1, EventIndex, ReasonedMatches DEF Agreed
<1>5. CASE wire = "messages"
  <2>1. PendingTold(parser, y, e)
    <3>1. y = MessagesParse(parser, e, n + 1)
      BY <1>5 DEF Parse
    <3> QED  BY <1>1, <1>2, <1>5, <3>1, MessagesReasons
  <2> QED  BY <1>1, <1>2, <1>5, <2>1, PendingMatches DEF Agreed
<1>6. CASE wire = "responses"
  <2>1. TerminalTold(parser, y, e)
    <3>1. y = ResponsesParse(parser, e, n + 1)
      BY <1>6 DEF Parse
    <3> QED  BY <1>1, <1>2, <1>6, <3>1, ResponsesReasons
  <2> QED  BY <1>1, <1>2, <1>6, <2>1, ToldMatches DEF Agreed, Judged
<1> QED  BY <1>1, <1>3, <1>4, <1>5, <1>6 DEF WireNames

\* The event that ends a stream adds nothing to its document.
LEMMA EndEvents ==
    ASSUME Typed, NEW e \in Alphabet[wire], NEW k,
           LET y == Parse(wire, parser, e, k) IN y.error = None /\ y.ends
    PROVE  e.k = "done"
<1>1. parser \in Parsers /\ e \in EventsOf[wire] /\ wire \in WireNames
  BY DEF Typed, ReaderTyped, WriterTyped
<1>3. CASE wire = "chat_completions"
  BY <1>1, <1>3, ChatReasons DEF Parse, Reasoned
<1>4. CASE wire = "gemini"
  BY <1>1, <1>4, GeminiReasons DEF Parse, Reasoned
<1>5. CASE wire = "messages"
  BY <1>1, <1>5, MessagesReasons DEF Parse, PendingTold
<1>6. CASE wire = "responses"
  BY <1>1, <1>6, ResponsesReasons DEF Parse, TerminalTold
<1> QED  BY <1>1, <1>3, <1>4, <1>5, <1>6 DEF WireNames
-----------------------------------------------------------------------------
(* Client, log and document come to one outcome.                           *)

\* Reasons of the same outcomes make the same terminal.
LEMMA Summary ==
    ASSUME NEW F, IsFiniteSet(F), F # {}
    PROVE  LET O == {OutcomeOf(f) : f \in F}
           IN  TerminalOf(None, F).outcome = IF O = {"blocked"} THEN "blocked"
                                             ELSE IF "incomplete" \in O THEN "incomplete" ELSE "completed"
<1> DEFINE O == {OutcomeOf(f) : f \in F}
<1>1. \A f : /\ OutcomeOf(f) \in {"completed", "incomplete", "blocked"}
             /\ OutcomeOf(f) = "incomplete" <=> f = "length"
             /\ OutcomeOf(f) = "blocked" <=> f = "content_filter"
  BY DEF OutcomeOf
<1>2. CASE Cardinality(F) = 1
  <2>1. PICK x : F = {x}
    BY <1>2, FS_Singleton
  <2>2. O = {OutcomeOf(x)} /\ (CHOOSE f \in F : TRUE) = x
    BY <2>1
  <2>3. TerminalOf(None, F) = [outcome |-> OutcomeOf(x), reason |-> x]
    BY <1>2, <2>2 DEF TerminalOf
  <2> QED  BY <1>1, <2>2, <2>3
<1>3. CASE Cardinality(F) # 1
  <2>1. TerminalOf(None, F) = [outcome |-> IF "length" \in F THEN "incomplete" ELSE "completed", reason |-> "other"]
    BY <1>3 DEF TerminalOf
  <2>2. O # {"blocked"}
    <3>1. SUFFICES ASSUME O = {"blocked"} PROVE FALSE
      OBVIOUS
    <3>2. \A f \in F : f = "content_filter"
      BY <1>1, <3>1
    <3>3. F = {"content_filter"}
      BY <3>2
    <3> QED  BY <1>3, <3>3, FS_Singleton
  <2>3. "incomplete" \in O <=> "length" \in F
    BY <1>1
  <2> HIDE DEF O
  <2> QED  BY <2>1, <2>2, <2>3 DEF O
<1> QED  BY <1>2, <1>3

LEMMA FewReasons ==
    ASSUME NEW D \in SUBSET {0, 1}, NEW g
    PROVE  IsFiniteSet({g[i] : i \in D})
<1>1. IsFiniteSet({g[0], g[1]})
  <2>1. IsFiniteSet({g[0]})
    BY FS_Singleton
  <2>2. IsFiniteSet({g[0]} \cup {g[1]})
    BY <2>1, FS_AddElement
  <2>3. {g[0]} \cup {g[1]} = {g[0], g[1]}
    OBVIOUS
  <2> QED  BY <2>2, <2>3
<1>2. {g[i] : i \in D} \subseteq {g[0], g[1]}
  OBVIOUS
<1> QED  BY <1>1, <1>2, FS_Subset

\* What the reasons of a finished stream are.
LEMMA Finished ==
    ASSUME NEW o \in Observers, ~Unfinished(o)
    PROVE  /\ DOMAIN o.choices \in SUBSET {0, 1} /\ DOMAIN o.choices # {} /\ DOMAIN Ends(o) = DOMAIN o.choices
           /\ \A i \in DOMAIN o.choices :
                 /\ Reason(o, i) # None /\ Ends(o)[i] \in FinishReasons
                 /\ OutcomeOf(Ends(o)[i]) = OutcomeOf(Reason(o, i))
           /\ \A i : i \notin DOMAIN o.choices => Reason(o, i) = None
<1>1. DOMAIN o.choices \in SUBSET {0, 1} /\ DOMAIN Ends(o) = DOMAIN o.choices
  BY ChoicesTyped DEF Ends
<1>2. DOMAIN o.choices # {}
  <2>1. PICK D \in SUBSET {0, 1} : o.choices \in [D -> Choices]
    BY DEF Observers, ChoiceMaps
  <2>2. o.choices # <<>>
    BY DEF Unfinished
  <2>3. <<>> \in [{} -> Choices] /\ \A f, g \in [{} -> Choices] : f = g
    OBVIOUS
  <2>4. D # {}
    BY <2>1, <2>2, <2>3
  <2> QED  BY <2>1, <2>4
<1>3. ASSUME NEW i \in DOMAIN o.choices
      PROVE  /\ Reason(o, i) # None /\ Ends(o)[i] \in FinishReasons
             /\ OutcomeOf(Ends(o)[i]) = OutcomeOf(Reason(o, i))
  <2>1. o.choices[i] \in Choices /\ o.choices[i].fin # None
    BY ChoicesTyped DEF Unfinished
  <2>2. Reason(o, i) = o.choices[i].fin /\ Ends(o)[i] = FinishOf(o.choices[i])
    BY DEF Reason, ChoiceState, Ends
  <2> QED  BY <2>1, <2>2 DEF FinishOf, Choices, Fins, FinishReasons, OutcomeOf
<1>4. \A i : i \notin DOMAIN o.choices => Reason(o, i) = None
  BY DEF Reason, ChoiceState, ChoiceStart
<1> QED  BY <1>1, <1>2, <1>3, <1>4

\* The terminal of a stream whose reasons are those of its document.
LEMMA TerminalAlike ==
    ASSUME Typed, ReasonsMatch, wire # "responses", ~Unfinished(obs),
           NEW d, d.ends = doc.ends, d.called \in BOOLEAN, ~(wire = "messages" /\ d.called)
    PROVE  Terminal(obs).outcome = TerminalOf(JsonAdapter(wire, d), JsonFinishes(wire, d)).outcome
<1> DEFINE D == DOMAIN obs.choices
           F == {Ends(obs)[i] : i \in D}
           g == [i \in {0, 1} |-> JsonFinish(wire, d, doc.ends[i])]
           G == {g[i] : i \in D}
<1>1. obs \in Observers
  BY DEF Typed, ReaderTyped
<1>2. /\ D \in SUBSET {0, 1} /\ D # {}
      /\ \A i \in D : /\ Reason(obs, i) # None
                      /\ OutcomeOf(Ends(obs)[i]) = OutcomeOf(Reason(obs, i))
      /\ \A i : i \notin D => Reason(obs, i) = None
  BY <1>1, Finished
<1> HIDE DEF D
<1>3. D = DOMAIN doc.ends
  BY <1>2 DEF ReasonsMatch, D
<1>4. \A i \in D : OutcomeOf(g[i]) = OutcomeOf(Ends(obs)[i])
  <2>1. ASSUME NEW i \in D PROVE OutcomeOf(g[i]) = OutcomeOf(Ends(obs)[i])
    <3>1. Means(doc.ends[i], OutcomeOf(Reason(obs, i)))
      BY <1>2 DEF ReasonsMatch
    <3>2. OutcomeOf(JsonFinish(wire, d, doc.ends[i])) = OutcomeOf(Reason(obs, i))
      BY <3>1 DEF Means
    <3>3. g[i] = JsonFinish(wire, d, doc.ends[i])
      BY <1>2
    <3> QED  BY <1>2, <3>2, <3>3
  <2> QED  BY <2>1
<1>5. G = JsonFinishes(wire, d)
  <2>1. JsonFinishes(wire, d) = {JsonFinish(wire, d, doc.ends[i]) : i \in D}
    BY <1>3 DEF JsonFinishes
  <2>2. \A i \in D : g[i] = JsonFinish(wire, d, doc.ends[i])
    BY <1>2
  <2> HIDE DEF g
  <2> QED  BY <2>1, <2>2
<1> HIDE DEF g
<1>6. {OutcomeOf(f) : f \in F} = {OutcomeOf(f) : f \in G}
  BY <1>4
<1>7. IsFiniteSet(F) /\ IsFiniteSet(G) /\ F # {} /\ G # {}
  <2>1. D \in SUBSET {0, 1} /\ \E i : i \in D
    BY <1>2
  <2>2. \A h : IsFiniteSet({h[i] : i \in D})
    BY <2>1, FewReasons
  <2>3. PICK i : i \in D
    BY <2>1
  <2>4. Ends(obs)[i] \in F /\ g[i] \in G
    BY <2>3
  <2>5. F # {} /\ G # {}
    BY <2>4
  <2> QED  BY <2>2, <2>5
<1>8. Terminal(obs) = TerminalOf(None, F) /\ JsonAdapter(wire, d) = None
  BY DEF ReasonsMatch, Terminal, JsonAdapter, D
<1> HIDE DEF F, G
<1>9. TerminalOf(None, F).outcome = TerminalOf(None, G).outcome
  BY <1>6, <1>7, Summary
<1> QED  BY <1>5, <1>8, <1>9

\* What the frames of each API make of a reason.
LEMMA Sayings ==
    ASSUME Typed, NEW f \in FinishReasons
    PROVE  LET said == ToldOutcome(EndFrame(public, f).type)
           IN  IF public = "responses" THEN said = "completed" <=> OutcomeOf(f) = "completed"
               ELSE said = OutcomeOf(f)
<1>1. public \in {"chat", "messages", "responses"}
  BY Known
<1>2. CASE public = "chat"
  BY <1>2 DEF EndFrame, Frame, ToldOutcome
<1>3. CASE public = "messages"
  <2>1. EndFrame(public, f).type = StopReason[f]
    BY <1>3 DEF EndFrame, Frame
  <2>2. ToldOutcome(StopReason[f]) = OutcomeOf(f)
    BY <1>3 DEF ToldOutcome, StopReason, OutcomeOf, FinishReasons
  <2> QED  BY <1>3, <2>1, <2>2
<1>4. CASE public = "responses"
  <2>1. EndFrame(public, f).type = ResponseStatus(f)
    BY <1>4 DEF EndFrame, Frame
  <2>2. ToldOutcome(ResponseStatus(f)) = ResponseStatus(f)
    BY <1>4 DEF ToldOutcome
  <2>3. ResponseStatus(f) = "completed" <=> OutcomeOf(f) = "completed"
    BY DEF ResponseStatus, OutcomeOf, FinishReasons
  <2> QED  BY <1>4, <2>1, <2>2, <2>3
<1> QED  BY <1>1, <1>2, <1>3, <1>4

\* A Responses stream that ends has had its terminal event.
LEMMA TerminalKnown ==
    ASSUME Typed, TerminalMatches, wire = "responses", ~Unfinished(obs)
    PROVE  /\ doc.ends # <<>> /\ DOMAIN obs.choices = {0}
           /\ Terminal(obs) = ResponsesTerminal(doc.ends[0], doc.called)
           /\ ~doc.called => OutcomeOf(Ends(obs)[0]) = "completed" <=> doc.ends[0].k = "completed"
<1>1. obs \in Observers
  BY DEF Typed, ReaderTyped
<1>2. DOMAIN obs.choices = {0} /\ Reason(obs, 0) # None /\ OutcomeOf(Ends(obs)[0]) = OutcomeOf(Reason(obs, 0))
  <2>1. DOMAIN obs.choices # {} /\ DOMAIN obs.choices \subseteq {0}
    BY <1>1, Finished DEF TerminalMatches
  <2>2. DOMAIN obs.choices = {0}
    BY <2>1
  <2> QED  BY <1>1, <2>2, Finished
<1>3. /\ doc.ends # <<>> /\ obs.adapter = ResponsesTerminal(doc.ends[0], doc.called)
      /\ Reason(obs, 0) = ResponsesFinish(doc.ends[0], doc.called)
      /\ doc.ends[0].k \in {"completed", "incomplete"} /\ doc.called = parser.called
  BY <1>2 DEF TerminalMatches
<1>4. obs.adapter # None
  <2>1. parser.called \in BOOLEAN
    BY DEF Typed, ReaderTyped, Parsers
  <2>2. obs.adapter \in Terminals
    BY <1>3, <2>1 DEF ResponsesTerminal, ResponsesFinish, Terminals, Outcomes, FinishReasons
  <2> QED  BY <2>2
<1>5. Terminal(obs) = obs.adapter
  BY <1>4 DEF Terminal, TerminalOf
<1>6. ~doc.called => OutcomeOf(Reason(obs, 0)) = "completed" <=> doc.ends[0].k = "completed"
  BY <1>3 DEF ResponsesFinish, OutcomeOf
<1> QED  BY <1>2, <1>3, <1>5, <1>6

\* The stream ends.
LEMMA EndJudged ==
    ASSUME Typed, Judged, source = "open", ~Unfinished(obs), wire' = wire, public' = public,
           doc'.ends = doc.ends, doc'.called = doc.called, obs' = [obs EXCEPT !.terminal = Terminal(obs)]
    PROVE  StreamLikeJson' /\ Fits'
<1>1. /\ obs'.choices = obs.choices /\ obs'.adapter = obs.adapter /\ obs'.terminal = Terminal(obs)
      /\ Ends(obs') = Ends(obs) /\ obs \in Observers
  BY DEF Typed, ReaderTyped, Observers, Ends
<1>2. Agreed /\ doc'.called \in BOOLEAN
  BY DEF Judged
<1>3. StreamLikeJson'
  <2>1. SUFFICES ASSUME ~(wire = "messages" /\ doc'.called)
                 PROVE  Terminal(obs).outcome = TerminalOf(JsonAdapter(wire, doc'), JsonFinishes(wire, doc')).outcome
    BY <1>1 DEF StreamLikeJson, CallHidesReason
  <2>2. CASE wire = "responses"
    <3>1. doc.ends # <<>> /\ Terminal(obs) = ResponsesTerminal(doc.ends[0], doc.called)
      BY <1>2, <2>2, TerminalKnown DEF Agreed
    <3>2. JsonAdapter(wire, doc') = Terminal(obs)
      BY <2>2, <3>1 DEF JsonAdapter
    <3>3. Terminal(obs) # None
      BY <1>1, TerminalTyped
    <3> QED  BY <3>2, <3>3 DEF TerminalOf
  <2>3. CASE wire # "responses"
    BY <1>2, <2>1, <2>3, TerminalAlike DEF Agreed
  <2> QED  BY <2>2, <2>3
<1>4. Fits'
  <2>1. SUFFICES ASSUME Cardinality(DOMAIN obs.choices) = 1, ~(wire = "responses" /\ doc.called)
                 PROVE  LET said == ToldOutcome(EndFrame(public, FirstOf(Ends(obs))).type)
                        IN  IF public = "responses" \/ wire = "responses"
                            THEN (said = "completed") = (Terminal(obs).outcome = "completed")
                            ELSE said = Terminal(obs).outcome
    BY <1>1 DEF Fits, CallHidesTruncation, EndSays, ToldOutcome
  <2>2. PICK i \in {0, 1} : DOMAIN obs.choices = {i}
    <3>1. DOMAIN obs.choices \in SUBSET {0, 1}
      BY <1>1, Finished
    <3>2. PICK i : DOMAIN obs.choices = {i}
      <4>1. IsFiniteSet({0, 1})
        <5>1. {0, 1} = {0} \cup {1} /\ IsFiniteSet({0})
          BY FS_Singleton
        <5> QED  BY <5>1, FS_AddElement
      <4>2. IsFiniteSet(DOMAIN obs.choices)
        BY <3>1, <4>1, FS_Subset
      <4> QED  BY <2>1, <4>2, FS_Singleton
    <3> QED  BY <3>1, <3>2
  <2> DEFINE f == Ends(obs)[i]
  <2>3. f \in FinishReasons /\ FirstOf(Ends(obs)) = f
    BY <1>1, <2>2, Finished DEF FirstOf
  <2>4. CASE wire # "responses"
    <3>1. Terminal(obs) = TerminalOf(None, {f})
      <4>1. {Ends(obs)[j] : j \in DOMAIN obs.choices} = {f}
        BY <2>2
      <4> QED  BY <1>2, <2>4, <4>1 DEF Terminal, Agreed, ReasonsMatch
    <3> HIDE DEF f
    <3>2. Terminal(obs).outcome = OutcomeOf(f)
      <4>1. Cardinality({f}) = 1 /\ (CHOOSE x \in {f} : TRUE) = f
        BY FS_Singleton
      <4> QED  BY <3>1, <4>1 DEF TerminalOf
    <3> QED  BY <2>3, <2>4, <3>2, Sayings
  <2>5. CASE wire = "responses"
    <3>1. /\ i = 0 /\ Terminal(obs) = ResponsesTerminal(doc.ends[0], doc.called)
          /\ OutcomeOf(f) = "completed" <=> doc.ends[0].k = "completed"
      BY <1>2, <2>1, <2>2, <2>5, TerminalKnown DEF Agreed
    <3>2. Terminal(obs).outcome = doc.ends[0].k
      BY <3>1 DEF ResponsesTerminal
    <3> QED  BY <2>3, <2>5, <3>1, <3>2, Sayings
  <2> QED  BY <2>4, <2>5
<1> QED  BY <1>3, <1>4
-----------------------------------------------------------------------------
(* The frame that ends the stream says so until the client has it.         *)

\* What the end of the stream hands to the writer.
LEMMA Closes ==
    ASSUME Typed, Close, ~Unfinished(obs)
    PROVE  /\ obs' = [obs EXCEPT !.terminal = Terminal(obs)] /\ source' = "ended"
           /\ \E t : Of(t, Body) /\ ready'.frames = ready.frames \o Append(t, EndFrame(public, FirstOf(Ends(obs))))
<1> DEFINE v == RenderEnd(public, view, Ends(obs))
<1>1. /\ obs' = [obs EXCEPT !.terminal = Terminal(obs)] /\ source' = "ended"
      /\ ready' = [ready EXCEPT !.frames = @ \o v.out, !.last = TRUE]
  BY DEF Close
<1>2. FirstOf(Ends(obs)) # None
  <2>1. obs \in Observers
    BY DEF Typed, ReaderTyped
  <2>2. /\ DOMAIN obs.choices \in SUBSET {0, 1} /\ DOMAIN obs.choices # {}
        /\ DOMAIN Ends(obs) = DOMAIN obs.choices
        /\ \A i \in DOMAIN obs.choices : Ends(obs)[i] \in FinishReasons
    BY <2>1, Finished
  <2>3. FirstOf(Ends(obs)) \in FinishReasons
    BY <2>2 DEF FirstOf
  <2> QED  BY <2>3
<1>3. PICK t : Of(t, Body) /\ v.out = Append(t, EndFrame(public, FirstOf(Ends(obs))))
  <2>1. public \in {"chat", "messages", "responses"} /\ DOMAIN view = Fields
    BY Known
  <2>2. PICK ends : ends = Ends(obs)
    OBVIOUS
  <2>3. FirstOf(ends) # None
    BY <1>2, <2>2
  <2>4. LET w == RenderEnd(public, view, ends)
        IN  /\ DOMAIN w = Fields /\ w.usage = view.usage /\ Over(w.out)
            /\ FirstOf(ends) # None => EndsOn(w.out, EndFrame(public, FirstOf(ends)))
    BY <2>1, RendersEnd
  <2> QED  BY <2>2, <2>3, <2>4 DEF EndsOn
<1> HIDE DEF v
<1>4. ready'.frames = ready.frames \o v.out
  BY <1>1 DEF Typed, ReaderTyped, BatchTyped
<1> QED  BY <1>1, <1>3, <1>4

LEMMA LastOfSpan == ASSUME NEW k \in Nat, NEW x, x \in 1..k, x \notin 1..k - 1 PROVE x = k
  OBVIOUS

LEMMA LastOfAll ==
    ASSUME NEW s, Of(s, Body), NEW t, Of(t, Body), NEW f, NEW u, u = s \o Append(t, f)
    PROVE  u[Len(u)] = f
<1>1. PICK S : s \in Seq(S) /\ \A g \in S : g.at \in Body
  BY DEF Of
<1>2. PICK T : t \in Seq(T) /\ \A g \in T : g.at \in Body
  BY DEF Of
<1>3. PICK R : R = S \cup T \cup {f}
  OBVIOUS
<1>4. s \in Seq(R) /\ t \in Seq(R) /\ f \in R
  BY <1>1, <1>2, <1>3, SeqMonotonic
<1> QED  BY <1>4

\* Steps that leave the stream and its end alone.
LEMMA JudgedKept ==
    ASSUME Judged, UNCHANGED <<request, parser, doc, obs>>,
           source' = source \/ (source = "open" /\ source' = "aborted")
    PROVE  Judged'
<1>1. (source' = "open" => source = "open") /\ (source' = "ended" => source = "ended")
      /\ (source = "ended" => source' = "ended")
  OBVIOUS
<1>2. Agreed => Agreed'
  BY DEF Agreed, TerminalMatches, ReasonsMatch, Means, request
<1>3. StreamLikeJson => StreamLikeJson'
  BY DEF StreamLikeJson, CallHidesReason, request
<1>4. Fits => Fits'
  BY DEF Fits, CallHidesTruncation, EndSays, ToldOutcome, request
<1> QED  BY <1>1, <1>2, <1>3, <1>4 DEF Judged

LEMMA FailsJudged ==
    ASSUME Judged, Typed, source = "open", UNCHANGED obs, source' \in UpstreamErrors, doc'.called \in BOOLEAN
    PROVE  Judged'
<1>1. obs'.terminal = None /\ source' \notin {"open", "ended"}
  BY DEF Judged, UpstreamErrors
<1> QED  BY <1>1 DEF Judged

\* While the stream goes on there is no end to sign.
LEMMA NothingSigned == Inv /\ ~Closed /\ source # "ended" => Signed
<1> SUFFICES ASSUME Inv, ~Closed, source # "ended" PROVE Signed
  OBVIOUS
<1>1. ~ready.last /\ ~writing.last
  BY DEF Inv, Ordered
<1>2. Of(sent, Body)
  BY DEF Inv, SentInOrder
<1>3. At("end") = {}
  BY <1>2, SaidNothing DEF At, Positions
<1> QED  BY <1>1, <1>3 DEF Signed

LEMMA CloseTells ==
    ASSUME Inv, Inv', Judged, Close, source = "open", UNCHANGED <<request, writing, sent, stage>>,
           ~Closed, doc'.ends = doc.ends, doc'.called = doc.called
    PROVE  Judged' /\ Signed'
<1>1. Typed /\ obs \in Observers /\ ~Closed' /\ doc'.called \in BOOLEAN
  BY DEF Inv, Typed, ReaderTyped, Closed, Judged
<1>2. CASE Unfinished(obs)
  <2>1. obs' = obs /\ source' = "upstream_protocol_error" /\ source' \in UpstreamErrors /\ source' # "ended"
    BY <1>2 DEF Close, Fail, UpstreamErrors
  <2>2. Judged'
    BY <1>1, <2>1, FailsJudged
  <2>3. (~Closed)' /\ (source # "ended")'
    BY <1>1, <2>1
  <2> QED  BY <2>2, <2>3, NothingSigned, PTL
<1>3. CASE ~Unfinished(obs)
  <2>1. PICK t : Of(t, Body) /\ ready'.frames = ready.frames \o Append(t, EndFrame(public, FirstOf(Ends(obs))))
    BY <1>1, <1>3, Closes
  <2>2. obs' = [obs EXCEPT !.terminal = Terminal(obs)] /\ source' = "ended"
    BY <1>1, <1>3, Closes
  <2>3. Judged'
    <3>1. StreamLikeJson' /\ Fits'
      BY <1>1, <1>3, <2>2, EndJudged DEF request
    <3> QED  BY <1>1, <2>2, <3>1 DEF Judged
  <2>4. ready'.frames[Len(ready'.frames)] = EndFrame(public, FirstOf(Ends(obs)))
    <3>1. Of(ready.frames, Body)
      BY DEF Inv, Ordered, Typed, ReaderTyped, BatchTyped
    <3>2. PICK r : r = ready.frames
      OBVIOUS
    <3>3. PICK u : u = ready'.frames
      OBVIOUS
    <3>4. PICK end : end = EndFrame(public, FirstOf(Ends(obs)))
      OBVIOUS
    <3>5. Of(r, Body) /\ Of(t, Body) /\ u = r \o Append(t, end)
      BY <2>1, <3>1, <3>2, <3>3, <3>4
    <3>6. u[Len(u)] = end
      BY ONLY <3>5, LastOfAll
    <3> QED  BY <3>3, <3>4, <3>6
  <2>5. EndSays' = EndFrame(public, FirstOf(Ends(obs))).type
    <3>1. Ends(obs') = Ends(obs)
      BY <1>1, <2>2 DEF Ends, Observers
    <3> QED  BY <3>1 DEF EndSays, request
  <2>6. ~writing.last /\ writing' = writing /\ At("end")' = {}
    <3>1. ~writing.last /\ Of(sent, Body)
      BY DEF Inv, Ordered, SentInOrder
    <3>2. At("end")' = At("end")
      BY DEF At, Positions
    <3> QED  BY <3>1, <3>2, SaidNothing DEF At, Positions
  <2> QED  BY <2>3, <2>4, <2>5, <2>6 DEF Signed
<1> QED  BY <1>2, <1>3

LEMMA ReadsTell ==
    ASSUME Inv, Inv', Judged, Reads
    PROVE  Judged' /\ Signed'
<1>1. /\ Typed /\ Reading /\ UNCHANGED kept /\ source = "open" /\ ~Closed /\ ~Closed' /\ wire' = wire
      /\ UNCHANGED <<request, writing, sent, stage>>
  BY ReadsAdvance DEF Inv, Reading, kept, request, Closed
<1>2. (~Closed)'
  BY <1>1
<1>3. ASSUME Judged', source' # "ended" PROVE Judged' /\ Signed'
  <2>1. (source # "ended")'
    BY <1>3
  <2> QED  BY <1>2, <1>3, <2>1, NothingSigned, PTL
<1>4. ASSUME NEW e \in Alphabet[wire], Read(e) PROVE Judged' /\ Signed'
  <2> DEFINE y == Parse(wire, parser, e, n + 1)
  <2>1. /\ parser' = y.p /\ doc' = Gather(wire, doc, e, n + 1)
        /\ IF y.error # None THEN Fail(y.error)
           ELSE IF y.ends THEN Close
           ELSE IF y.chunks = <<>> THEN UNCHANGED <<obs, view, ready, seen, source>>
           ELSE Deliver(y.chunks[1])
    BY <1>4 DEF Read
  <2>2. ParseTyped(y)
    <3>1. n + 1 \in Counts
      BY <1>4 DEF Read, Counts, Inv, Typed, ReaderTyped
    <3>2. wire \in WireNames /\ e \in EventsOf[wire] /\ parser \in Parsers
      BY <1>1 DEF Typed, ReaderTyped, WriterTyped
    <3> QED  BY <3>1, <3>2, ParsesTyped
  <2>3. doc'.called \in BOOLEAN
    <3>1. doc'.called = (doc.called \/ e.k \in {"tool", "call"})
      BY <2>1, Gathers
    <3> QED  BY <3>1
  <2>4. ASSUME Fails PROVE Judged' /\ Signed'
    <3>1. UNCHANGED obs /\ source' \in UpstreamErrors /\ source' # "ended"
      BY <2>4 DEF Fails, Fail, UpstreamErrors
    <3>2. Judged'
      BY <1>1, <2>3, <3>1, FailsJudged
    <3> QED  BY <1>3, <3>1, <3>2
  <2>5. ASSUME y.error = None, Observed(y), source' = source PROVE Judged' /\ Signed'
    <3>1. Agreed'
      BY <1>1, <2>1, <2>5, EventAgrees
    <3>2. obs'.terminal = None
      <4>1. obs.terminal = None /\ obs \in Observers
        BY <1>1 DEF Judged, Typed, ReaderTyped
      <4>2. CASE y.chunks = <<>>
        BY <2>5, <4>1, <4>2 DEF Observed
      <4>3. CASE y.chunks # <<>>
        <5> DEFINE c == y.chunks[1]
        <5>1. ChunkTyped(c) /\ obs' = Observe(obs, c)
          BY <2>5, <4>3 DEF Observed
        <5> HIDE DEF c
        <5>2. obs'.terminal = obs.terminal
          BY <4>1, <5>1, Observes
        <5> QED  BY <4>1, <5>2
      <4> QED  BY <4>2, <4>3
    <3>3. Judged'
      BY <1>1, <2>3, <2>5, <3>1, <3>2 DEF Judged
    <3> QED  BY <1>1, <1>3, <2>5, <3>3
  <2>6. CASE y.error # None
    <3>1. y.error \in UpstreamErrors
      BY <2>2, <2>6 DEF ParseTyped
    <3> QED  BY <2>1, <2>4, <2>6, <3>1 DEF Fails
  <2>7. CASE y.error = None /\ y.ends
    <3>1. e.k = "done"
      BY <1>1, <2>7, EndEvents
    <3>2. doc'.ends = doc.ends /\ doc'.called = doc.called
      BY <2>1, <3>1, Gathers DEF EndKinds, Judged
    <3> QED  BY <1>1, <2>1, <2>7, <3>2, CloseTells
  <2>8. CASE y.error = None /\ ~y.ends /\ y.chunks = <<>>
    <3>1. obs' = obs /\ source' = source
      BY <2>1, <2>8
    <3> QED  BY <2>5, <2>8, <3>1 DEF Observed
  <2>9. CASE y.error = None /\ ~y.ends /\ y.chunks # <<>>
    <3>1. Deliver(y.chunks[1]) /\ ChunkTyped(y.chunks[1])
      BY <2>1, <2>2, <2>9 DEF ParseTyped
    <3>2. CASE Contradicts(obs, y.chunks[1])
      <4>1. Fails
        BY <3>1, <3>2 DEF Deliver, Fails, UpstreamErrors
      <4> QED  BY <2>4, <4>1
    <3>3. CASE ~Contradicts(obs, y.chunks[1])
      <4>1. obs' = Observe(obs, y.chunks[1]) /\ source' = source
        BY <3>1, <3>3 DEF Deliver
      <4> QED  BY <2>5, <2>9, <3>1, <3>3, <4>1 DEF Observed
    <3> QED  BY <3>2, <3>3
  <2> QED  BY <2>6, <2>7, <2>8, <2>9
<1>5. ASSUME NEW code \in UpstreamErrors, Fail(code), UNCHANGED doc PROVE Judged' /\ Signed'
  <2>1. UNCHANGED obs /\ source' \in UpstreamErrors /\ source' # "ended" /\ doc'.called \in BOOLEAN
    BY <1>5 DEF Fail, UpstreamErrors, Judged
  <2>2. Judged'
    BY <1>1, <2>1, FailsJudged
  <2> QED  BY <1>3, <2>1, <2>2
<1>6. ASSUME Eof PROVE Judged' /\ Signed'
  <2>1. doc' = doc /\ IF ParseEof(wire, parser).ends THEN Close ELSE Fail(ParseEof(wire, parser).error)
    BY <1>6 DEF Eof
  <2>2. ParseEof(wire, parser).ends \/ ParseEof(wire, parser).error \in UpstreamErrors
    BY DEF ParseEof, Throws, Returns, UpstreamErrors
  <2>3. CASE ParseEof(wire, parser).ends
    BY <1>1, <2>1, <2>3, CloseTells
  <2> QED  BY <1>5, <2>1, <2>2, <2>3
<1>7. ASSUME Expire \/ TotalDeadline \/ Aborted PROVE Judged' /\ Signed'
  <2>1. PICK code \in UpstreamErrors : Abandon(code)
    BY <1>7 DEF Expire, TotalDeadline, Aborted, UpstreamErrors
  <2> QED  BY <1>5, <2>1 DEF Abandon
<1> QED  BY <1>4, <1>6, <1>7 DEF Reads

\* A step of the writer that sends nothing leaves the signature where it was.
LEMMA HandsOver ==
    ASSUME Signed, UNCHANGED <<request, obs, sent>>,
           source' = source,
           ready'.last => ready' = ready,
           writing'.last => writing' \in {ready, writing}
    PROVE  Signed'
<1>1. EndSays' = EndSays /\ At("end")' = At("end")
  BY DEF EndSays, request, At, Positions
<1>2. \A j \in At("end") : source' = "ended" /\ sent'[j].type = EndSays
  BY DEF Signed
<1> QED  BY <1>1, <1>2 DEF Signed

LEMMA WritesTell ==
    ASSUME Inv, Inv', Signed, Writes
    PROVE  Signed'
<1>1. /\ UNCHANGED <<request, reader, ready, gone>> /\ writing' = Nothing /\ EndSays' = EndSays
      /\ UNCHANGED <<source, obs>>
  BY DEF Writes, Written, WriteTimeout, EndSays, request, reader
<1>2. /\ ~Closed /\ Of(sent, Body) /\ ~writing'.last
      /\ BatchTyped(writing) \/ writing = Beating
  BY NothingReady DEF Writes, Written, WriteTimeout, Inv, Ordered, SentInOrder, Typed, WriterTyped, Closed
<1>3. At("end") = {}
  BY <1>2, SaidNothing DEF At, Positions
<1>4. ASSUME Of(sent', Body) PROVE Signed'
  <2>1. At("end")' = {}
    BY <1>4, SaidNothing DEF At, Positions
  <2> QED  BY <1>1, <1>2, <2>1 DEF Signed
<1>5. CASE WriteTimeout
  <2>1. PICK k \in 0..Len(writing.frames) - 1 : sent' = Received(SubSeq(writing.frames, 1, k))
    BY <1>5 DEF WriteTimeout
  <2> QED  BY <1>2, <1>4, <2>1, Receives
<1>6. CASE Written
  <2>1. sent' = Received(writing.frames)
    BY <1>6 DEF Written
  <2>2. CASE ~writing.last \/ gone
    BY <1>2, <1>4, <2>1, <2>2, Receives
  <2>3. CASE writing.last /\ ~gone
    <3>1. Over(writing.frames) /\ source = "ended"
      BY <1>2, <2>3, NothingReady DEF BatchTyped, Inv, Ordered
    <3>2. sent' = sent \o writing.frames
      <4>1. writing.frames # <<Heartbeat>>
        BY <3>1, OverPositioned DEF Heartbeat, Frame
      <4> QED  BY <2>1, <2>3, <4>1 DEF Received
    <3>3. writing.frames[Len(writing.frames)].type = EndSays
      BY <2>3 DEF Signed
    <3>4. /\ Len(writing.frames) \in Nat \ {0}
          /\ \A j \in 1..Len(writing.frames) - 1 : writing.frames[j].at # "end"
          /\ \E S : writing.frames \in Seq(S)
      BY <3>1, OverPositioned DEF Body
    <3>5. Len(sent) \in Nat /\ (\A j \in 1..Len(sent) : sent[j].at # "end") /\ \E S : sent \in Seq(S)
      BY <1>2, Positioned DEF Body, Of
    <3>6. /\ Len(sent') = Len(sent) + Len(writing.frames)
          /\ \A j \in 1..Len(sent') :
                sent'[j] = IF j <= Len(sent) THEN sent[j] ELSE writing.frames[j - Len(sent)]
      <4> DEFINE w == writing.frames
      <4> HIDE DEF w
      <4>1. PICK S : sent \in Seq(S)
        BY <3>5
      <4>2. PICK T : w \in Seq(T)
        BY <3>4 DEF w
      <4>3. sent \in Seq(S \cup T) /\ w \in Seq(S \cup T)
        BY <4>1, <4>2, SeqMonotonic
      <4>4. /\ Len(sent \o w) = Len(sent) + Len(w)
            /\ \A j \in 1..Len(sent) + Len(w) : (sent \o w)[j] = IF j <= Len(sent) THEN sent[j] ELSE w[j - Len(sent)]
        BY <4>3, ConcatProperties
      <4> QED  BY <3>2, <4>4 DEF w
    <3>7. ASSUME NEW j \in At("end")' PROVE sent'[j].type = EndSays
      <4>1. j \in 1..Len(sent') /\ sent'[j].at = "end"
        BY <3>7 DEF At, Positions
      <4>2. j \in Nat /\ j <= Len(sent) + Len(writing.frames) /\ j > Len(sent)
        <5>1. j \notin 1..Len(sent)
          BY <3>5, <3>6, <4>1
        <5> QED  BY <3>4, <3>5, <3>6, <4>1, <5>1
      <4>3. sent'[j] = writing.frames[j - Len(sent)]
        BY <3>5, <3>6, <4>1, <4>2
      <4>4. j - Len(sent) \in 1..Len(writing.frames) /\ j - Len(sent) \notin 1..Len(writing.frames) - 1
        <5>1. writing.frames[j - Len(sent)].at = "end"
          BY <4>1, <4>3
        <5> QED  BY <3>4, <3>5, <4>2, <5>1
      <4>5. j - Len(sent) = Len(writing.frames)
        BY <3>4, <4>4, LastOfSpan
      <4>6. sent'[j] = writing.frames[Len(writing.frames)]
        BY <4>3, <4>5
      <4> QED  BY <3>3, <4>6
    <3> QED  BY <1>1, <1>2, <3>1, <3>7, NothingReady DEF Signed, Inv, Ordered
  <2> QED  BY <2>2, <2>3
<1> QED  BY <1>5, <1>6 DEF Writes

LEMMA SettleTells ==
    ASSUME Inv, Signed, Settle
    PROVE  Signed'
<1>1. /\ writing = Nothing /\ UNCHANGED <<request, obs, ready, writing>> /\ ~Closed
      /\ source' = IF source = "open" THEN "aborted" ELSE source
      /\ EndSays' = EndSays
  BY DEF Settle, Closed, EndSays, request
<1>2. ~ready.last \/ source = "ended"
  BY DEF Inv, Ordered
<1>3. PICK k \in 0..Len(Farewell) : sent' = Received(SubSeq(Farewell, 1, k))
  BY DEF Settle
<1>4. \E S : sent \in Seq(S)
  BY <1>1, OverPositioned DEF Inv, SentInOrder, Of
<1>5. ASSUME NEW j \in At("end")' PROVE j \in At("end") /\ sent'[j] = sent[j]
  <2>1. j \in 1..Len(sent') /\ sent'[j].at = "end"
    BY <1>5 DEF At, Positions
  <2>2. CASE sent' = sent
    BY <2>1, <2>2 DEF At, Positions
  <2>3. CASE sent' = sent \o SubSeq(Farewell, 1, k)
    <3>1. /\ Len(sent) \in Nat /\ Len(sent') = Len(sent) + k
          /\ \A i \in 1..Len(sent') : sent'[i] = IF i <= Len(sent) THEN sent[i] ELSE Farewell[i - Len(sent)]
      BY <1>4, <2>3, Farewells, Follows
    <3>2. \A i \in 1..Len(Farewell) : Farewell[i].at # "end"
      BY Farewells
    <3>3. Len(Farewell) \in Nat
      BY Farewells, LenProperties
    <3>4. j <= Len(sent)
      BY <2>1, <3>1, <3>2, <3>3
    <3> QED  BY <2>1, <3>1, <3>4 DEF At, Positions
  <2> QED  BY <1>3, <2>2, <2>3 DEF Received
<1>6. \A j \in At("end")' : source' = "ended" /\ sent'[j].type = EndSays
  BY <1>1, <1>5 DEF Signed
<1> QED  BY <1>1, <1>6 DEF Signed

LEMMA OutcomeKept == Outcome /\ [Next]_vars => Outcome'
<1> SUFFICES ASSUME Outcome, [Next]_vars PROVE Outcome'
  OBVIOUS
<1>1. Inv /\ Inv' /\ Judged /\ Signed
  BY StepKeeps DEF Outcome
<1>2. CASE Reads
  BY <1>1, <1>2, ReadsTell DEF Outcome
<1>3. CASE Writes
  <2>1. UNCHANGED <<request, parser, doc, obs, source>>
    BY <1>3 DEF Writes, Written, WriteTimeout, reader
  <2> QED  BY <1>1, <1>3, <2>1, JudgedKept, WritesTell DEF Outcome
<1>4. CASE Settle
  <2>1. /\ UNCHANGED <<request, parser, doc, obs>>
        /\ source' = source \/ (source = "open" /\ source' = "aborted")
    BY <1>4 DEF Settle
  <2> QED  BY <1>1, <1>4, <2>1, JudgedKept, SettleTells DEF Outcome
<1>5. CASE Attach \/ Persist \/ Take \/ Stumble \/ Cleaned \/ Last \/ Beat \/ ClientLeaves \/ UNCHANGED vars
  <2>1. /\ UNCHANGED <<request, reader, sent>>
        /\ \/ UNCHANGED <<ready, writing>>
           \/ ready' = Nothing /\ writing' = ready
           \/ UNCHANGED ready /\ writing' = Beating
    BY <1>5 DEF Attach, Persist, Take, Stumble, Cleaned, Last, Beat, ClientLeaves, vars, request, reader
  <2>2. UNCHANGED <<parser, doc, obs, source>>
    BY <2>1 DEF reader
  <2>3. ready'.last => ready' = ready
    BY <2>1, NothingReady
  <2>4. writing'.last => writing' \in {ready, writing}
    BY <2>1, NothingReady
  <2>5. Signed'
    BY <1>1, <2>1, <2>2, <2>3, <2>4, HandsOver
  <2> QED  BY <1>1, <2>1, <2>2, <2>5, JudgedKept DEF Outcome
<1> QED  BY <1>2, <1>3, <1>4, <1>5 DEF Next, Reads, Steps

\* However a stream ends, the client, the log and the JSON document of the
\* same content come to one outcome (terminalForChatResponse and
\* observeChatStream of streamLifecycle.ts, mapStopReason, statusFor).
THEOREM OneOutcomeTold == Spec => []OneOutcome
<1>1. Init => Outcome
  <2> SUFFICES ASSUME Init PROVE Outcome
    OBVIOUS
  <2>1. Inv /\ ~Closed /\ source = "open"
    BY InitKeeps DEF Init, Closed
  <2>2. Signed
    BY <2>1, NothingSigned
  <2>3. doc.called = FALSE /\ doc.ends = <<>> /\ obs.terminal = None /\ obs.adapter = None /\ obs.choices = <<>>
        /\ parser.called = FALSE /\ parser.pending = None
    BY DEF Init, EmptyDocument, ObsStart, ParserStart
  <2>4. DOMAIN obs.choices = {} /\ DOMAIN doc.ends = {} /\ \A i : Reason(obs, i) = None
    <3>1. DOMAIN <<>> = {}
      OBVIOUS
    <3> QED  BY <2>3, <3>1 DEF Reason, ChoiceState, ChoiceStart
  <2>5. Agreed
    BY <2>3, <2>4 DEF Agreed, TerminalMatches, ReasonsMatch
  <2> QED  BY <2>1, <2>2, <2>3, <2>5 DEF Outcome, Judged
<1>2. Outcome => OneOutcome
  <2> SUFFICES ASSUME Outcome PROVE OneOutcome
    OBVIOUS
  <2>1. StreamLikeJson
    BY DEF Outcome, Judged, StreamLikeJson
  <2>2. TerminalsAgree
    BY DEF Outcome, Judged, Signed, Fits, TerminalsAgree
  <2> QED  BY <2>1, <2>2 DEF OneOutcome
<1> QED  BY <1>1, <1>2, OutcomeKept, PTL DEF Spec
-----------------------------------------------------------------------------
\* The account of the frames cites what it needs of the constants.
HIDE StreamsAssumption
-----------------------------------------------------------------------------
(* The accounts of a sequence of frames: its blocks, and what it shows.    *)

IsSeq(s) == \E S : s \in Seq(S)

Where(s, kind) == {j \in 1..Len(s) : s[j].at = kind}
Shown(s, type) == UNION {s[j].pieces : j \in {i \in Where(s, "delta") \cup Where(s, "native") : s[i].type = type}}

\* The blocks are numbered as they open, and next is the number of the next.
Numbered(s, next) ==
    /\ next \in Nat /\ Cardinality(Where(s, "open")) = next /\ IsFiniteSet(Where(s, "open"))
    /\ \A j \in Where(s, "open") :
          /\ s[j].block \in 0..(next - 1)
          /\ s[j].block = Cardinality({i \in Where(s, "open") : i < j})
          /\ \A i \in Where(s, "open") : s[i].block = s[j].block => i = j

\* A block is extended and closed after it opened and before it is closed.
Paired(s) ==
    \A j \in Where(s, "delta") \cup Where(s, "close") :
        /\ \E i \in Where(s, "open") : i < j /\ s[i].block = s[j].block /\ s[i].type = s[j].type
        /\ \A i \in Where(s, "close") : s[i].block = s[j].block => i >= j

\* The blocks that are open, and no others.
Standing(s, live) ==
    /\ \A x \in live :
          /\ \E j \in Where(s, "open") : s[j].block = x.block /\ s[j].type = x.type
          /\ \A i \in Where(s, "close") : s[i].block # x.block
    /\ \A j \in Where(s, "open") : \/ \E i \in Where(s, "close") : s[i].block = s[j].block
                                   \/ \E x \in live : x.block = s[j].block

Account(s, next, live) == IsSeq(s) /\ Numbered(s, next) /\ Paired(s) /\ Standing(s, live)

\* u is s and then f, at z.
Grows(s, f, u, z) ==
    /\ IsSeq(u) /\ Len(s) \in Nat /\ Len(u) = z /\ z = Len(s) + 1
    /\ u[z] = f /\ \A j \in 1..Len(s) : u[j] = s[j] /\ j < z /\ z >= j /\ j # z /\ ~(z < j)
    /\ \A kind : Where(u, kind) = Where(s, kind) \cup (IF f.at = kind THEN {z} ELSE {})
    /\ z \notin 1..Len(s) /\ z \in Nat /\ ~(z < z) /\ z >= z
    /\ \A kind : Where(s, kind) \subseteq 1..Len(s)

LEMMA Appended ==
    ASSUME NEW s, IsSeq(s), NEW f
    PROVE  Grows(s, f, Append(s, f), Len(s) + 1)
<1>1. PICK S : s \in Seq(S)
  BY DEF IsSeq
<1> DEFINE u == Append(s, f)
           z == Len(s) + 1
<1>2. u \in Seq(S \cup {f}) /\ Len(s) \in Nat /\ Len(u) = z /\ u[z] = f
      /\ \A j \in 1..Len(s) : u[j] = s[j]
  BY <1>1
<1>3. IsSeq(u)
  BY <1>2 DEF IsSeq
<1> HIDE DEF u
<1>4. /\ \A j : j \in 1..z <=> j \in 1..Len(s) \/ j = z
      /\ z \notin 1..Len(s) /\ z \in Nat /\ ~(z < z) /\ z >= z
      /\ \A j \in 1..Len(s) : j < z /\ z >= j /\ j # z /\ ~(z < j)
  BY <1>2
<1>5. ASSUME NEW kind PROVE Where(u, kind) = Where(s, kind) \cup (IF f.at = kind THEN {z} ELSE {})
  <2> HIDE DEF z
  <2> QED  BY <1>2, <1>4 DEF Where
<1>6. \A kind : Where(s, kind) \subseteq 1..Len(s)
  BY DEF Where
<1> QED  BY <1>2, <1>3, <1>4, <1>5, <1>6 DEF u, Grows

\* What a sequence shows grows by the pieces of the frame.
LEMMA Shows1 ==
    ASSUME NEW s, IsSeq(s), NEW f
    PROVE  \A type : Shown(Append(s, f), type) =
               Shown(s, type) \cup (IF f.at \in {"delta", "native"} /\ f.type = type THEN f.pieces ELSE {})
<1> DEFINE u == Append(s, f)
           z == Len(s) + 1
           Frames1(x, type) == {i \in Where(x, "delta") \cup Where(x, "native") : x[i].type = type}
<1> HIDE DEF u, z
<1>1. /\ u[z] = f /\ \A j \in 1..Len(s) : u[j] = s[j]
      /\ \A kind : Where(u, kind) = Where(s, kind) \cup (IF f.at = kind THEN {z} ELSE {})
  BY Appended DEF u, z, Grows
<1> SUFFICES ASSUME NEW type
             PROVE  Shown(u, type) = Shown(s, type) \cup (IF f.at \in {"delta", "native"} /\ f.type = type THEN f.pieces ELSE {})
  BY DEF u
<1>2. \A kind : Where(s, kind) \subseteq 1..Len(s)
  BY DEF Where
<1>3. Frames1(u, type) = Frames1(s, type) \cup (IF f.at \in {"delta", "native"} /\ f.type = type THEN {z} ELSE {})
  BY <1>1, <1>2
<1>4. \A i \in Frames1(s, type) : u[i] = s[i]
  BY <1>1, <1>2
<1>5. Shown(u, type) = UNION {u[i].pieces : i \in Frames1(u, type)} /\ Shown(s, type) = UNION {s[i].pieces : i \in Frames1(s, type)}
  BY DEF Shown
<1> HIDE DEF Frames1
<1> QED  BY <1>1, <1>3, <1>4, <1>5

LEMMA SameOpened ==
    ASSUME NEW s, NEW u, NEW next, Numbered(s, next), Where(u, "open") = Where(s, "open"),
           \A j \in Where(s, "open") : u[j] = s[j]
    PROVE  Numbered(u, next)
<1> DEFINE O == Where(s, "open")
<1>1. /\ next \in Nat /\ Cardinality(O) = next /\ IsFiniteSet(O)
      /\ \A j \in O : /\ s[j].block \in 0..(next - 1)
                      /\ s[j].block = Cardinality({i \in O : i < j})
                      /\ \A i \in O : s[i].block = s[j].block => i = j
  BY DEF Numbered
<1> HIDE DEF O
<1>2. Where(u, "open") = O /\ \A j \in O : u[j] = s[j]
  BY DEF O
<1> QED  BY <1>1, <1>2 DEF Numbered

\* Frames that neither open, extend nor close a block leave the account as it is.
LEMMA Apart ==
    ASSUME NEW s, NEW next, NEW live, Account(s, next, live), NEW f, f.at \notin {"open", "delta", "close"}
    PROVE  Account(Append(s, f), next, live)
<1> DEFINE u == Append(s, f)
           z == Len(s) + 1
<1> HIDE DEF u, z
<1>1. /\ IsSeq(u) /\ \A j \in 1..Len(s) : u[j] = s[j]
      /\ \A kind \in {"open", "delta", "close"} : Where(u, kind) = Where(s, kind)
  <2>1. Grows(s, f, u, z)
    BY Appended DEF Account, u, z
  <2> QED  BY <2>1 DEF Grows
<1>2. \A kind : Where(s, kind) \subseteq 1..Len(s)
  BY DEF Where
<1>3. \A kind \in {"open", "delta", "close"} : \A j \in Where(s, kind) : u[j] = s[j]
  BY <1>1, <1>2
<1>4. Numbered(u, next)
  BY <1>1, <1>3, SameOpened DEF Account
<1>5. Paired(u)
  BY <1>1, <1>3 DEF Paired, Account
<1>6. Standing(u, live)
  BY <1>1, <1>3 DEF Standing, Account
<1> QED  BY <1>1, <1>4, <1>5, <1>6 DEF Account, u

LEMMA Opened ==
    ASSUME NEW s, NEW next, NEW live, Account(s, next, live), NEW type
    PROVE  Account(Append(s, Frame("open", next, type, {})), next + 1, live \cup {[block |-> next, type |-> type]})
<1> DEFINE f == Frame("open", next, type, {})
           u == Append(s, f)
           z == Len(s) + 1
           O == Where(s, "open")
           new == [block |-> next, type |-> type]
<1>f. f.at = "open" /\ f.block = next /\ f.type = type
  BY DEF Frame
<1> HIDE DEF f, u, z
<1>1. /\ IsSeq(u) /\ u[z] = f /\ \A j \in 1..Len(s) : u[j] = s[j] /\ j < z
      /\ Where(u, "open") = O \cup {z} /\ Where(u, "delta") = Where(s, "delta") /\ Where(u, "close") = Where(s, "close")
      /\ z \notin 1..Len(s) /\ z \in Nat /\ ~(z < z)
      /\ \A j \in 1..Len(s) : j # z /\ ~(z < j)
  <2>1. Grows(s, f, u, z)
    BY Appended DEF Account, u, z
  <2> QED  BY <1>f, <2>1 DEF Grows
<1>2. \A kind : Where(s, kind) \subseteq 1..Len(s)
  BY DEF Where
<1>3. \A kind : \A j \in Where(s, kind) : u[j] = s[j] /\ j < z /\ j # z /\ ~(z < j)
  <2> QED  BY <1>1, <1>2
<1>4. Numbered(s, next) /\ next \in Nat /\ IsFiniteSet(O) /\ Cardinality(O) = next
  BY DEF Account, Numbered
<1>5. z \notin O
  BY <1>3
<1>6. Cardinality(O \cup {z}) = next + 1 /\ IsFiniteSet(O \cup {z})
  BY <1>4, <1>5, FS_AddElement
<1>7. ASSUME NEW j \in O PROVE s[j].block \in 0..(next - 1) /\ s[j].block # next /\ s[j].block \in 0..next
  <2>1. s[j].block \in 0..(next - 1)
    BY <1>4 DEF Numbered
  <2> QED  BY <1>4, <2>1
<1>8. Numbered(u, next + 1)
  <2>1. ASSUME NEW j \in O \cup {z}
        PROVE  /\ u[j].block \in 0..next
               /\ u[j].block = Cardinality({i \in O \cup {z} : i < j})
               /\ \A i \in O \cup {z} : u[i].block = u[j].block => i = j
    <3>1. CASE j = z
      <4>1. {i \in O \cup {z} : i < j} = O
        <5> QED  BY <1>1, <1>3, <3>1
      <4>2. u[j].block = next
        BY <1>1, <1>f, <3>1
      <4>3. \A i \in O : u[i].block # next
        BY <1>3, <1>7
      <4>4. next \in 0..next
        BY <1>4
      <4> QED  BY <1>4, <3>1, <4>1, <4>2, <4>3, <4>4
    <3>2. CASE j # z
      <4>1. j \in O /\ u[j] = s[j]
        BY <1>3, <3>2
      <4>2. {i \in O \cup {z} : i < j} = {i \in O : i < j}
        BY <1>3, <4>1
      <4>3. s[j].block = Cardinality({i \in O : i < j}) /\ s[j].block \in 0..(next - 1)
            /\ \A i \in O : s[i].block = s[j].block => i = j
        BY <1>4, <4>1 DEF Numbered
      <4>4. \A i \in O \cup {z} : u[i].block = u[j].block => i = j
        BY <1>1, <1>f, <1>3, <1>7, <4>1, <4>3
      <4>5. s[j].block \in 0..next
        BY <1>7, <4>1
      <4> QED  BY <4>1, <4>2, <4>3, <4>4, <4>5
    <3> QED  BY <3>1, <3>2
  <2>2. (next + 1) - 1 = next /\ next + 1 \in Nat
    BY <1>4
  <2> QED  BY <1>1, <1>6, <2>1, <2>2 DEF Numbered
<1>9. Paired(u)
  <2>1. Paired(s)
    BY DEF Account
  <2> QED  BY <1>1, <1>3, <2>1 DEF Paired
<1>10. \A i \in Where(s, "close") : s[i].block # next
  <2>1. ASSUME NEW i \in Where(s, "close") PROVE s[i].block # next
    <3>1. PICK j \in O : s[j].block = s[i].block
      BY DEF Account, Paired
    <3> QED  BY <1>7, <3>1
  <2> QED  BY <2>1
<1>11. Standing(u, live \cup {new})
  <2>1. new.block = next /\ new.type = type
    OBVIOUS
  <2> HIDE DEF new
  <2>2. Standing(s, live)
    BY DEF Account
  <2>3. ASSUME NEW x \in live \cup {new}
        PROVE  /\ \E j \in O \cup {z} : u[j].block = x.block /\ u[j].type = x.type
               /\ \A i \in Where(s, "close") : u[i].block # x.block
    <3>1. CASE x = new
      BY <1>1, <1>f, <1>3, <1>10, <2>1, <3>1
    <3>2. CASE x \in live
      BY <1>3, <2>2, <3>2 DEF Standing
    <3> QED  BY <3>1, <3>2
  <2>4. ASSUME NEW j \in O \cup {z}
        PROVE  \/ \E i \in Where(s, "close") : u[i].block = u[j].block
               \/ \E x \in live \cup {new} : x.block = u[j].block
    <3>1. CASE j = z
      BY <1>1, <1>f, <2>1, <3>1
    <3>2. CASE j \in O
      BY <1>3, <2>2, <3>2 DEF Standing
    <3> QED  BY <3>1, <3>2
  <2> QED  BY <1>1, <2>3, <2>4 DEF Standing
<1> QED  BY <1>1, <1>8, <1>9, <1>11 DEF Account, u, f

LEMMA Extended ==
    ASSUME NEW s, NEW next, NEW live, Account(s, next, live), NEW x \in live, NEW pieces
    PROVE  Account(Append(s, Frame("delta", x.block, x.type, pieces)), next, live)
<1> DEFINE f == Frame("delta", x.block, x.type, pieces)
           u == Append(s, f)
           z == Len(s) + 1
<1>f. f.at = "delta" /\ f.block = x.block /\ f.type = x.type
  BY DEF Frame
<1> HIDE DEF f, u, z
<1>1. /\ IsSeq(u) /\ u[z] = f /\ \A j \in 1..Len(s) : u[j] = s[j] /\ j < z
      /\ Where(u, "open") = Where(s, "open") /\ Where(u, "delta") = Where(s, "delta") \cup {z}
      /\ Where(u, "close") = Where(s, "close")
  <2>1. Grows(s, f, u, z)
    BY Appended DEF Account, u, z
  <2> QED  BY <1>f, <2>1 DEF Grows
<1>2. \A kind : Where(s, kind) \subseteq 1..Len(s)
  BY DEF Where
<1>3. \A kind : \A j \in Where(s, kind) : u[j] = s[j] /\ j < z
  BY <1>1, <1>2
<1>4. Numbered(u, next)
  BY <1>1, <1>3, SameOpened DEF Account
<1>6. Standing(u, live)
  BY <1>1, <1>3 DEF Standing, Account
<1>5. Paired(u)
  <2>1. Paired(s) /\ Standing(s, live)
    BY DEF Account
  <2>2. PICK j \in Where(s, "open") : s[j].block = x.block /\ s[j].type = x.type
    BY <2>1 DEF Standing
  <2>3. \A i \in Where(s, "close") : s[i].block # x.block
    BY <2>1 DEF Standing
  <2>4. /\ \E i \in Where(u, "open") : i < z /\ u[i].block = u[z].block /\ u[i].type = u[z].type
        /\ \A i \in Where(u, "close") : u[i].block = u[z].block => i >= z
    BY <1>1, <1>f, <1>3, <2>2, <2>3
  <2>5. ASSUME NEW k \in Where(s, "delta") \cup Where(s, "close")
        PROVE  /\ \E i \in Where(u, "open") : i < k /\ u[i].block = u[k].block /\ u[i].type = u[k].type
               /\ \A i \in Where(u, "close") : u[i].block = u[k].block => i >= k
    BY <1>1, <1>3, <2>1, <2>5 DEF Paired
  <2> QED  BY <1>1, <2>4, <2>5 DEF Paired
<1> QED  BY <1>1, <1>4, <1>5, <1>6 DEF Account, u, f

LEMMA Shut ==
    ASSUME NEW s, NEW next, NEW live, Account(s, next, live), NEW x \in live,
           \A y \in live : y = [block |-> y.block, type |-> y.type]
    PROVE  Account(Append(s, Frame("close", x.block, x.type, {})), next, live \ {x})
<1> DEFINE f == Frame("close", x.block, x.type, {})
           u == Append(s, f)
           z == Len(s) + 1
<1>f. f.at = "close" /\ f.block = x.block /\ f.type = x.type
  BY DEF Frame
<1> HIDE DEF f, u, z
<1>1. /\ IsSeq(u) /\ u[z] = f /\ \A j \in 1..Len(s) : u[j] = s[j] /\ j < z
      /\ Where(u, "open") = Where(s, "open") /\ Where(u, "delta") = Where(s, "delta")
      /\ Where(u, "close") = Where(s, "close") \cup {z} /\ z >= z
      /\ \A j \in 1..Len(s) : z >= j
  <2>1. Grows(s, f, u, z)
    BY Appended DEF Account, u, z
  <2> QED  BY <1>f, <2>1 DEF Grows
<1>2. \A kind : Where(s, kind) \subseteq 1..Len(s)
  BY DEF Where
<1>3. \A kind : \A j \in Where(s, kind) : u[j] = s[j] /\ j < z /\ z >= j
  BY <1>1, <1>2
<1>4. Numbered(u, next)
  BY <1>1, <1>3, SameOpened DEF Account
<1>0. Numbered(s, next) /\ Paired(s) /\ Standing(s, live)
  BY DEF Account
<1>5. PICK o \in Where(s, "open") : s[o].block = x.block /\ s[o].type = x.type
  BY <1>0 DEF Standing
<1>6. Paired(u)
  <2>1. \A i \in Where(s, "close") : s[i].block # x.block
    BY <1>0 DEF Standing
  <2>2. /\ \E i \in Where(u, "open") : i < z /\ u[i].block = u[z].block /\ u[i].type = u[z].type
        /\ \A i \in Where(u, "close") : u[i].block = u[z].block => i >= z
    <3> QED  BY <1>1, <1>f, <1>3, <1>5, <2>1
  <2>3. ASSUME NEW k \in Where(s, "delta") \cup Where(s, "close")
        PROVE  /\ \E i \in Where(u, "open") : i < k /\ u[i].block = u[k].block /\ u[i].type = u[k].type
               /\ \A i \in Where(u, "close") : u[i].block = u[k].block => i >= k
    BY <1>0, <1>1, <1>3, <2>3 DEF Paired
  <2> QED  BY <1>1, <2>2, <2>3 DEF Paired
<1>7. Standing(u, live \ {x})
  <2>1. ASSUME NEW y \in live \ {x}
        PROVE  /\ \E j \in Where(s, "open") : s[j].block = y.block /\ s[j].type = y.type
               /\ \A i \in Where(s, "close") : s[i].block # y.block
               /\ y.block # x.block
    <3>1. PICK j \in Where(s, "open") : s[j].block = y.block /\ s[j].type = y.type
      BY <1>0 DEF Standing
    <3>2. ASSUME y.block = x.block PROVE FALSE
      <4>1. j = o
        BY <1>0, <1>5, <3>1, <3>2 DEF Numbered
      <4>2. x.type = y.type
        BY <1>5, <3>1, <4>1
      <4> QED  BY <3>2, <4>2
    <3> QED  BY <1>0, <3>1, <3>2 DEF Standing
  <2>2. ASSUME NEW j \in Where(s, "open")
        PROVE  \/ \E i \in Where(u, "close") : u[i].block = s[j].block
               \/ \E y \in live \ {x} : y.block = s[j].block
    BY <1>0, <1>1, <1>f, <1>3 DEF Standing
  <2>3. \A j \in Where(s, "open") : u[j] = s[j]
    BY <1>3
  <2>4. \A i \in Where(u, "close") : i = z \/ (i \in Where(s, "close") /\ u[i] = s[i])
    BY <1>1, <1>3
  <2>5. ASSUME NEW y \in live \ {x} PROVE \A i \in Where(u, "close") : u[i].block # y.block
    BY <1>1, <1>f, <2>1, <2>4
  <2>6. ASSUME NEW y \in live \ {x} PROVE \E j \in Where(u, "open") : u[j].block = y.block /\ u[j].type = y.type
    BY <1>1, <2>1, <2>3
  <2> QED  BY <1>1, <2>2, <2>3, <2>5, <2>6 DEF Standing
<1> QED  BY <1>1, <1>4, <1>6, <1>7 DEF Account, u, f

\* A prefix of a sequence is paired and numbered as the sequence is.
LEMMA Prefixed ==
    ASSUME NEW s, NEW next, Numbered(s, next), Paired(s), NEW t, Len(t) \in Nat, Len(s) \in Nat,
           Len(t) <= Len(s), \A j \in 1..Len(t) : t[j] = s[j]
    PROVE  (\E k : Numbered(t, k)) /\ Paired(t)
<1>1. ASSUME NEW kind PROVE Where(t, kind) = {j \in Where(s, kind) : j \in 1..Len(t)}
  BY DEF Where
<1>2. \A j \in 1..Len(t), i \in 1..Len(s) : i < j => i \in 1..Len(t)
  OBVIOUS
<1>3. \A kind : Where(s, kind) \subseteq 1..Len(s)
  BY DEF Where
<1> DEFINE P == 1..Len(t)
           O == Where(s, "open")
<1> HIDE DEF P
<1>4. /\ \A j \in P : t[j] = s[j]
      /\ \A kind : Where(t, kind) = {j \in Where(s, kind) : j \in P}
      /\ \A kind : \A j \in P, i \in Where(s, kind) : i < j => i \in P
  BY <1>1, <1>2, <1>3 DEF P
<1>5. Paired(t)
  <2>1. ASSUME NEW j \in Where(t, "delta") \cup Where(t, "close")
        PROVE  /\ \E i \in Where(t, "open") : i < j /\ t[i].block = t[j].block /\ t[i].type = t[j].type
               /\ \A i \in Where(t, "close") : t[i].block = t[j].block => i >= j
    <3>1. j \in P /\ j \in Where(s, "delta") \cup Where(s, "close") /\ t[j] = s[j]
      BY <1>4
    <3>2. PICK i \in O : i < j /\ s[i].block = s[j].block /\ s[i].type = s[j].type
      BY <3>1 DEF Paired
    <3>3. i \in Where(t, "open") /\ t[i] = s[i]
      BY <1>4, <3>1, <3>2
    <3>4. \A h \in Where(s, "close") : s[h].block = s[j].block => h >= j
      BY <3>1 DEF Paired
    <3>5. \A h \in Where(t, "close") : h \in Where(s, "close") /\ t[h] = s[h]
      BY <1>4
    <3> QED  BY <3>1, <3>2, <3>3, <3>4, <3>5
  <2> QED  BY <2>1 DEF Paired
<1>6. Numbered(t, Cardinality(Where(t, "open")))
  <2> DEFINE Q == Where(t, "open")
             k == Cardinality(Q)
  <2>1. Q \subseteq O /\ Q \subseteq P /\ \A j \in Q : t[j] = s[j]
    BY <1>4
  <2>2. /\ next \in Nat /\ Cardinality(O) = next /\ IsFiniteSet(O)
        /\ \A j \in O : /\ s[j].block \in 0..(next - 1)
                        /\ s[j].block = Cardinality({i \in O : i < j})
                        /\ \A i \in O : s[i].block = s[j].block => i = j
    BY DEF Numbered
  <2>3. IsFiniteSet(Q) /\ k \in Nat
    BY <2>1, <2>2, FS_Subset, FS_CardinalityType
  <2>4. \A j \in Q : {i \in Q : i < j} = {i \in O : i < j}
    BY <1>4, <2>1
  <2> HIDE DEF Q, k
  <2>5. ASSUME NEW j \in Q PROVE Cardinality({i \in Q : i < j}) \in 0..(k - 1)
    <3> DEFINE B == {i \in Q : i < j}
    <3>1. B \subseteq Q /\ j \notin B /\ j \in Nat
      <4>1. j \in 1..Len(t)
        BY <2>1 DEF P
      <4> QED  BY <4>1
    <3>2. Cardinality(B) \in Nat /\ IsFiniteSet(B)
      BY <2>3, <3>1, FS_Subset, FS_CardinalityType
    <3>3. Cardinality(B) <= k /\ (Cardinality(B) = k => B = Q)
      BY <2>3, <3>1, FS_Subset DEF k
    <3> HIDE DEF B
    <3>4. Cardinality(B) # k
      BY <3>1, <3>3
    <3>5. Cardinality(B) \in 0..(k - 1)
      BY <2>3, <3>2, <3>3, <3>4
    <3> QED  BY <3>5 DEF B
  <2>6. ASSUME NEW j \in Q
        PROVE  /\ t[j].block \in 0..(k - 1) /\ t[j].block = Cardinality({i \in Q : i < j})
               /\ \A i \in Q : t[i].block = t[j].block => i = j
    BY <2>1, <2>2, <2>4, <2>5
  <2> QED  BY <2>3, <2>6 DEF Numbered, Q, k
<1> QED  BY <1>5, <1>6
-----------------------------------------------------------------------------
(* The renderers, block by block: base has been emitted before v.out.      *)

Slots == Nat \cup {None}

Blocks(v) == {[block |-> v[part], type |-> part] : part \in {x \in {"text", "think"} : v[x] # None}}
             \cup {[block |-> v.tools[i], type |-> "tool"] : i \in {x \in {0, 1} : v.tools[x] # None}}

\* The blocks of a view have numbers, and the tools different ones.
Placed(v) ==
    /\ DOMAIN v = Fields /\ v.next \in Nat /\ v.text \in Slots /\ v.think \in Slots
    /\ v.tools \in [{0, 1} -> Slots] /\ (v.tools[0] # None => v.tools[0] # v.tools[1])

Fine(base, v) ==
    /\ IsSeq(base) /\ IsSeq(v.out) /\ Placed(v)
    /\ Account(base \o v.out, v.next, Blocks(v))

\* From v to w these pieces of this type are shown, and only these fields change.
Says(base, v, w, type, pieces) ==
    \A y : Shown(base \o w.out, y) = Shown(base \o v.out, y) \cup (IF y = type THEN pieces ELSE {})

Alike(v, w, fields) == \A g \in Fields \ fields : w[g] = v[g]

Goes(base, v, w, type, pieces, fields) ==
    Fine(base, w) /\ Says(base, v, w, type, pieces) /\ Alike(v, w, fields)

LEMMA Joined ==
    ASSUME NEW s, NEW t, IsSeq(s), IsSeq(t)
    PROVE  /\ IsSeq(s \o t) /\ \A f : s \o Append(t, f) = Append(s \o t, f)
           /\ s \o <<>> = s /\ <<>> \o s = s /\ IsSeq(<<>>)
           /\ \A r : IsSeq(r) => (s \o t) \o r = s \o (t \o r)
<1>1. PICK S : s \in Seq(S)
  BY DEF IsSeq
<1>2. PICK T : t \in Seq(T)
  BY DEF IsSeq
<1>3. IsSeq(s \o t)
  <2>1. s \in Seq(S \cup T) /\ t \in Seq(S \cup T)
    BY <1>1, <1>2
  <2> QED  BY <2>1 DEF IsSeq
<1>4. ASSUME NEW f PROVE s \o Append(t, f) = Append(s \o t, f)
  <2>1. PICK U : U = S \cup T \cup {f}
    OBVIOUS
  <2>2. s \in Seq(U) /\ t \in Seq(U) /\ f \in U
    BY <1>1, <1>2, <2>1, SeqMonotonic
  <2> QED  BY <2>2
<1>5. ASSUME NEW r, IsSeq(r) PROVE (s \o t) \o r = s \o (t \o r)
  <2>1. PICK R : r \in Seq(R)
    BY <1>5 DEF IsSeq
  <2>2. PICK U : U = S \cup T \cup R
    OBVIOUS
  <2>3. s \in Seq(U) /\ t \in Seq(U) /\ r \in Seq(U)
    BY <1>1, <1>2, <2>1, <2>2, SeqMonotonic
  <2> QED  BY <2>3, ConcatAssociative
<1>6. s \o <<>> = s /\ <<>> \o s = s /\ IsSeq(<<>>)
  BY <1>1, ConcatEmptySeq, EmptySeq DEF IsSeq
<1> QED  BY <1>3, <1>4, <1>5, <1>6

\* w is v with one more frame.
Emitted(base, v, f, w) ==
    /\ DOMAIN w = Fields /\ IsSeq(w.out) /\ IsSeq(base \o v.out)
    /\ base \o w.out = Append(base \o v.out, f) /\ Alike(v, w, {"out"})
    /\ f.at \in {"delta", "native"} => Says(base, v, w, f.type, f.pieces)
    /\ f.at \notin {"delta", "native"} => Says(base, v, w, f.type, {})

LEMMA Regrouped ==
    ASSUME NEW s, NEW t, NEW r, IsSeq(s), IsSeq(t), IsSeq(r)
    PROVE  (s \o t) \o r = s \o (t \o r)
BY Joined

LEMMA EmitsOne ==
    ASSUME NEW base, IsSeq(base), NEW v, DOMAIN v = Fields, IsSeq(v.out), NEW f
    PROVE  Emitted(base, v, f, Emit(v, f))
<1> DEFINE w == Emit(v, f)
           s == base \o v.out
<1>1. DOMAIN w = Fields /\ w.out = Append(v.out, f) /\ \A g \in Fields \ {"out"} : w[g] = v[g]
  BY DEF Emit, Fields
<1>2. IsSeq(s) /\ base \o w.out = Append(s, f)
  BY <1>1, Joined
<1>3. IsSeq(w.out)
  <2>1. Grows(v.out, f, w.out, Len(v.out) + 1)
    BY <1>1, Appended
  <2> QED  BY <2>1 DEF Grows
<1> HIDE DEF s, w
<1>4. Says(base, v, w, f.type, IF f.at \in {"delta", "native"} THEN f.pieces ELSE {})
  <2>1. \A type : Shown(Append(s, f), type) =
               Shown(s, type) \cup (IF f.at \in {"delta", "native"} /\ f.type = type THEN f.pieces ELSE {})
    BY <1>2, Shows1
  <2> QED  BY <1>2, <2>1 DEF Says, s
<1>5. Alike(v, w, {"out"}) /\ DOMAIN w = Fields /\ IsSeq(w.out) /\ IsSeq(s) /\ base \o w.out = Append(s, f)
  BY <1>1, <1>2, <1>3 DEF Alike
<1>6. f.at \in {"delta", "native"} => Says(base, v, w, f.type, f.pieces)
  BY <1>4 DEF Says
<1>7. f.at \notin {"delta", "native"} => Says(base, v, w, f.type, {})
  BY <1>4 DEF Says
<1> QED  BY <1>5, <1>6, <1>7 DEF Emitted, w, s

\* A view differs from another in its blocks only where its slots do.
LEMMA SlotsDiffer ==
    ASSUME NEW v, DOMAIN v = Fields, NEW w, DOMAIN w = Fields, Alike(v, w, {"out", "native", "streamed", "late", "calls", "args", "fin", "usage", "next"})
    PROVE  Blocks(w) = Blocks(v)
<1>1. w.text = v.text /\ w.think = v.think /\ w.tools = v.tools
  BY DEF Alike, Fields
<1>2. w["text"] = v["text"] /\ w["think"] = v["think"]
  BY <1>1
<1> QED  BY <1>1, <1>2 DEF Blocks

LEMMA GoesOn ==
    ASSUME NEW base, NEW v, NEW w, NEW x, NEW type, NEW P, NEW Q, NEW F, NEW G,
           Goes(base, v, w, type, P, F), Goes(base, w, x, type, Q, G)
    PROVE  Goes(base, v, x, type, P \cup Q, F \cup G)
<1>1. Says(base, v, x, type, P \cup Q)
  BY DEF Goes, Says
<1>2. Alike(v, x, F \cup G)
  BY DEF Goes, Alike
<1> QED  BY <1>1, <1>2 DEF Goes

LEMMA OpensPart ==
    ASSUME NEW base, NEW v, Fine(base, v), NEW part \in {"text", "think"}, v[part] = None, NEW type
    PROVE  /\ Goes(base, v, OpenNew(v, part), type, {}, {"out", "next", part})
           /\ OpenNew(v, part)[part] = v.next
<1> DEFINE u == [v EXCEPT ![part] = v.next, !.next = @ + 1]
           f == Frame("open", v.next, part, {})
           w == Emit(u, f)
           new == [block |-> v.next, type |-> part]
<1>1. DOMAIN v = Fields /\ IsSeq(v.out) /\ IsSeq(base) /\ v.next \in Nat /\ None \notin Nat
  BY StreamsAssumption DEF Fine, Placed
<1>2. /\ DOMAIN u = Fields /\ u.out = v.out /\ u.next = v.next + 1 /\ u[part] = v.next /\ u.tools = v.tools
      /\ \A g \in Fields \ {part, "next"} : u[g] = v[g]
  BY <1>1 DEF Fields
<1>f. f.at = "open" /\ f.type = part
  BY DEF Frame
<1> HIDE DEF u, f, w, new
<1>3. /\ DOMAIN w = Fields /\ IsSeq(w.out) /\ base \o w.out = Append(base \o v.out, f) /\ Alike(u, w, {"out"})
      /\ Says(base, u, w, f.type, {})
  <2>1. Emitted(base, u, f, w)
    BY <1>1, <1>2, <1>f, EmitsOne DEF w
  <2> QED  BY <1>1, <1>2, <1>f, <2>1 DEF Emitted
<1>4. w.next = v.next + 1 /\ w[part] = v.next /\ w.tools = v.tools /\ \A g \in Fields \ {"out", part, "next"} : w[g] = v[g]
  BY <1>2, <1>3 DEF Alike, Fields
<1>5. Account(base \o w.out, w.next, Blocks(v) \cup {new})
  BY <1>3, <1>4, Opened DEF Fine, f, new
<1>6. Blocks(w) = Blocks(v) \cup {new}
  <2>1. \A x \in {"text", "think"} : x # part => w[x] = v[x]
    BY <1>4 DEF Fields
  <2>2. w[part] # None
    BY <1>1, <1>4
  <2>3. CASE part = "text"
    BY <1>4, <2>1, <2>2, <2>3 DEF Blocks, new
  <2>4. CASE part = "think"
    BY <1>4, <2>1, <2>2, <2>4 DEF Blocks, new
  <2> QED  BY <2>3, <2>4
<1>7. Placed(w)
  <2>1. w.text \in Slots /\ w.think \in Slots
    <3>1. CASE part = "text"
      BY <1>1, <1>4, <3>1 DEF Slots, Fine, Placed, Fields
    <3>2. CASE part = "think"
      BY <1>1, <1>4, <3>2 DEF Slots, Fine, Placed, Fields
    <3> QED  BY <3>1, <3>2
  <2> QED  BY <1>1, <1>3, <1>4, <2>1 DEF Fine, Placed
<1>8. Fine(base, w)
  BY <1>1, <1>3, <1>5, <1>6, <1>7 DEF Fine
<1>9. Says(base, v, w, type, {}) /\ Alike(v, w, {"out", "next", part})
  BY <1>2, <1>3, <1>4 DEF Says, Alike
<1>10. w = OpenNew(v, part)
  BY DEF w, u, f, OpenNew
<1> QED  BY <1>4, <1>8, <1>9, <1>10 DEF Goes

LEMMA ExtendsPart ==
    ASSUME NEW base, NEW v, Fine(base, v), NEW part \in {"text", "think"}, v[part] # None, NEW pieces
    PROVE  Goes(base, v, Emit(v, Frame("delta", v[part], part, pieces)), part, pieces, {"out"})
<1> DEFINE f == Frame("delta", v[part], part, pieces)
           w == Emit(v, f)
           x == [block |-> v[part], type |-> part]
<1>f. f.at = "delta" /\ f.type = part /\ f.pieces = pieces /\ f = Frame("delta", x.block, x.type, pieces)
  BY DEF Frame
<1>1. x \in Blocks(v)
  BY DEF Blocks
<1>2. DOMAIN v = Fields /\ IsSeq(v.out) /\ IsSeq(base)
  BY DEF Fine, Placed
<1> HIDE DEF f, w, x
<1>3. /\ DOMAIN w = Fields /\ IsSeq(w.out) /\ base \o w.out = Append(base \o v.out, f) /\ Alike(v, w, {"out"})
      /\ Says(base, v, w, part, pieces)
  <2>1. Emitted(base, v, f, w)
    BY <1>2, <1>f, EmitsOne DEF w
  <2> QED  BY <1>2, <1>f, <2>1 DEF Emitted
<1>4. /\ w.next = v.next /\ w.text = v.text /\ w.think = v.think /\ w.tools = v.tools
  BY <1>3 DEF Alike, Fields
<1>5. Blocks(w) = Blocks(v)
  BY <1>2, <1>3, SlotsDiffer DEF Alike
<1>6. Account(base \o w.out, w.next, Blocks(w))
  BY <1>1, <1>3, <1>4, <1>5, <1>f, Extended DEF Fine
<1>7. Fine(base, w)
  BY <1>2, <1>3, <1>4, <1>6 DEF Fine, Placed
<1> QED  BY <1>3, <1>7 DEF Goes, w, f

LEMMA ClosesPart ==
    ASSUME NEW base, NEW v, Fine(base, v), NEW part \in {"text", "think"}, NEW type
    PROVE  /\ Goes(base, v, Closing(v, part), type, {}, {"out", part})
           /\ Closing(v, part)[part] = None
<1>1. CASE v[part] = None
  BY <1>1 DEF Closing, Goes, Says, Alike
<1>2. CASE v[part] # None
  <2> DEFINE u == [v EXCEPT ![part] = None]
             f == Frame("close", v[part], part, {})
             w == Emit(u, f)
             x == [block |-> v[part], type |-> part]
  <2>1. DOMAIN v = Fields /\ IsSeq(v.out) /\ IsSeq(base)
    BY DEF Fine, Placed
  <2>2. /\ DOMAIN u = Fields /\ u.out = v.out /\ u[part] = None
        /\ \A g \in Fields \ {part} : u[g] = v[g]
    BY <2>1 DEF Fields
  <2>f. f.at = "close" /\ f = Frame("close", x.block, x.type, {})
    BY DEF Frame
  <2>3. x \in Blocks(v) /\ \A y \in Blocks(v) : y = [block |-> y.block, type |-> y.type]
    BY <1>2 DEF Blocks
  <2>x. x.type = part
    OBVIOUS
  <2> HIDE DEF u, f, w, x
  <2>4. /\ DOMAIN w = Fields /\ IsSeq(w.out) /\ base \o w.out = Append(base \o v.out, f) /\ Alike(u, w, {"out"})
        /\ Says(base, u, w, f.type, {})
    <3>1. Emitted(base, u, f, w)
      BY <2>1, <2>2, <2>f, EmitsOne DEF w
    <3> QED  BY <2>1, <2>2, <2>f, <3>1 DEF Emitted
  <2>5. w[part] = None /\ w.next = v.next /\ w.tools = v.tools /\ \A g \in Fields \ {"out", part} : w[g] = v[g]
    BY <2>2, <2>4 DEF Alike, Fields
  <2>6. Blocks(w) = Blocks(v) \ {x}
    <3>1. \A y \in {"text", "think"} : y # part => w[y] = v[y]
      BY <2>5 DEF Fields
    <3>2. CASE part = "text"
      BY <2>5, <3>1, <3>2 DEF Blocks, x
    <3>3. CASE part = "think"
      BY <2>5, <3>1, <3>3 DEF Blocks, x
    <3> QED  BY <3>2, <3>3
  <2>7. Account(base \o w.out, w.next, Blocks(w))
    <3>1. Account(base \o v.out, v.next, Blocks(v))
      BY DEF Fine
    <3> QED  BY <2>3, <2>4, <2>5, <2>6, <2>f, <3>1, Shut
  <2>8. Placed(w)
    <3>1. w.text \in Slots /\ w.think \in Slots
      <4>1. CASE part = "text"
        BY <2>1, <2>5, <4>1 DEF Slots, Fine, Placed, Fields
      <4>2. CASE part = "think"
        BY <2>1, <2>5, <4>2 DEF Slots, Fine, Placed, Fields
      <4> QED  BY <4>1, <4>2
    <3> QED  BY <2>1, <2>4, <2>5, <3>1 DEF Fine, Placed
  <2>9. Fine(base, w)
    BY <2>1, <2>4, <2>7, <2>8 DEF Fine
  <2>10. Says(base, v, w, type, {}) /\ Alike(v, w, {"out", part})
    BY <2>2, <2>4, <2>5 DEF Says, Alike
  <2>11. w = Closing(v, part)
    BY <1>2 DEF w, u, f, Closing
  <2> QED  BY <2>5, <2>9, <2>10, <2>11 DEF Goes
<1> QED  BY <1>1, <1>2
-----------------------------------------------------------------------------
(* What the chunks of Messages show.                                       *)

\* The frames so far, base, account for the blocks of the view.
Ready(base, v) == IsSeq(base) /\ Placed(v) /\ Account(base, v.next, Blocks(v))

\* From v to w, which has emitted w.out since base, these pieces are shown.
Grown(base, v, w, type, pieces, fields) ==
    /\ Fine(base, w) /\ Alike(v, w, fields)
    /\ \A y : Shown(base \o w.out, y) = Shown(base, y) \cup (IF y = type THEN pieces ELSE {})

LEMMA NotesFine ==
    ASSUME NEW base, NEW v, Ready(base, v), NEW c, NEW type
    PROVE  Grown(base, v, Noting(v, c), type, {}, {"out", "usage", "fin"})
<1> DEFINE w == Noting(v, c)
<1>1. DOMAIN v = Fields
  BY DEF Ready, Placed
<1>2. DOMAIN w = Fields /\ w.out = <<>> /\ \A g \in Fields \ {"out", "usage", "fin"} : w[g] = v[g]
  BY <1>1 DEF Noting, Fields
<1> HIDE DEF w
<1>3. base \o w.out = base /\ IsSeq(w.out)
  BY <1>2, Joined DEF Ready
<1>4. w.next = v.next /\ w.text = v.text /\ w.think = v.think /\ w.tools = v.tools
  BY <1>2 DEF Fields
<1>5. Blocks(w) = Blocks(v)
  BY <1>1, <1>2, SlotsDiffer DEF Alike
<1>6. Placed(w)
  BY <1>2, <1>4 DEF Ready, Placed
<1>7. Fine(base, w)
  BY <1>3, <1>4, <1>5, <1>6 DEF Fine, Ready
<1> QED  BY <1>2, <1>3, <1>7 DEF Grown, Alike, w

LEMMA GrownOn ==
    ASSUME NEW base, NEW v, NEW w, NEW x, NEW type, NEW P, NEW Q, NEW F, NEW G,
           Grown(base, v, w, type, P, F), Goes(base, w, x, type, Q, G)
    PROVE  Grown(base, v, x, type, P \cup Q, F \cup G)
<1>1. Fine(base, x)
  BY DEF Goes
<1>2. \A y : Shown(base \o x.out, y) = Shown(base, y) \cup (IF y = type THEN P \cup Q ELSE {})
  BY DEF Goes, Grown, Says
<1>3. Alike(v, x, F \cup G)
  BY DEF Goes, Grown, Alike
<1> QED  BY <1>1, <1>2, <1>3 DEF Grown

\* A view goes nowhere when it stays what it is.
LEMMA GoesNowhere ==
    ASSUME NEW base, NEW v, Fine(base, v), NEW type
    PROVE  Goes(base, v, v, type, {}, {})
BY DEF Goes, Says, Alike

\* More fields may be said to change.
LEMMA GoesWider ==
    ASSUME NEW base, NEW v, NEW w, NEW type, NEW P, NEW F, NEW G, F \subseteq G, Goes(base, v, w, type, P, F)
    PROVE  Goes(base, v, w, type, P, G)
BY DEF Goes, Alike

LEMMA OpensIfShut ==
    ASSUME NEW base, NEW v, Fine(base, v), NEW part \in {"text", "think"}, NEW type
    PROVE  /\ Goes(base, v, Opening(v, part), type, {}, {"out", "next", part})
           /\ Opening(v, part)[part] # None
<1>1. None \notin Nat /\ v.next \in Nat
  BY StreamsAssumption DEF Fine, Placed
<1>2. CASE v[part] = None
  BY <1>1, <1>2, OpensPart DEF Opening
<1>3. CASE v[part] # None
  <2>1. Opening(v, part) = v
    BY <1>3 DEF Opening
  <2> QED  BY <1>3, <2>1, GoesNowhere, GoesWider
<1> QED  BY <1>2, <1>3

\* A field that a step does not touch.
LEMMA Untouched ==
    ASSUME NEW base, NEW v, NEW w, NEW type, NEW P, NEW F, Goes(base, v, w, type, P, F)
    PROVE  Fine(base, w) /\ \A g \in Fields \ F : w[g] = v[g]
BY DEF Goes, Alike

LEMMA TextShown ==
    ASSUME NEW base, NEW v, Fine(base, v), NEW c, c.text # 0
    PROVE  Goes(base, v, TextBlock(v, c), "text", {c.text}, {"out", "next", "text", "think"})
<1>1. PICK w : w = Closing(v, "think")
  OBVIOUS
<1>2. Goes(base, v, w, "text", {}, {"out", "think"})
  BY <1>1, ClosesPart
<1>3. PICK x : x = Opening(w, "text")
  OBVIOUS
<1>4. Goes(base, w, x, "text", {}, {"out", "next", "text"}) /\ x["text"] # None
  BY <1>2, <1>3, OpensIfShut, Untouched
<1>5. PICK z : z = Extend(x, "text", c.text)
  OBVIOUS
<1>6. Goes(base, x, z, "text", {c.text}, {"out"})
  BY <1>4, <1>5, ExtendsPart, Untouched DEF Extend
<1>7. Goes(base, v, x, "text", {} \cup {}, {"out", "think"} \cup {"out", "next", "text"})
  BY <1>2, <1>4, GoesOn
<1>8. Goes(base, v, z, "text", ({} \cup {}) \cup {c.text}, ({"out", "think"} \cup {"out", "next", "text"}) \cup {"out"})
  BY <1>6, <1>7, GoesOn
<1>9. /\ ({} \cup {}) \cup {c.text} = {c.text}
      /\ ({"out", "think"} \cup {"out", "next", "text"}) \cup {"out"} = {"out", "next", "text", "think"}
  OBVIOUS
<1>10. TextBlock(v, c) = z
  BY <1>1, <1>3, <1>5 DEF TextBlock
<1> QED  BY <1>8, <1>9, <1>10

LEMMA ThinkShown ==
    ASSUME NEW base, NEW v, Fine(base, v), NEW c, c.think # 0, v.native
    PROVE  Goes(base, v, ThinkBlock(v, c), "think", {c.think}, {"out", "next", "think"})
<1>1. PICK x : x = Opening(v, "think")
  OBVIOUS
<1>2. Goes(base, v, x, "think", {}, {"out", "next", "think"}) /\ x["think"] # None
  BY <1>1, OpensIfShut
<1>3. PICK z : z = Extend(x, "think", c.think)
  OBVIOUS
<1>4. Goes(base, x, z, "think", {c.think}, {"out"})
  BY <1>2, <1>3, ExtendsPart, Untouched DEF Extend
<1>5. Goes(base, v, z, "think", {} \cup {c.think}, {"out", "next", "think"} \cup {"out"})
  BY <1>2, <1>4, GoesOn
<1>6. {} \cup {c.think} = {c.think} /\ {"out", "next", "think"} \cup {"out"} = {"out", "next", "think"}
  OBVIOUS
<1>7. ThinkBlock(v, c) = z
  BY <1>1, <1>3 DEF ThinkBlock
<1> QED  BY <1>5, <1>6, <1>7

\* A few frames after a sequence.
LEMMA Appends ==
    ASSUME NEW s, IsSeq(s), NEW f, NEW g, NEW h
    PROVE  /\ s \o <<f>> = Append(s, f)
           /\ s \o <<f, g>> = Append(Append(s, f), g)
           /\ s \o <<f, g, h>> = Append(Append(Append(s, f), g), h)
           /\ IsSeq(<<f>>) /\ IsSeq(<<f, g>>) /\ IsSeq(<<f, g, h>>)
<1>1. PICK S : s \in Seq(S)
  BY DEF IsSeq
<1>2. PICK T : T = S \cup {f, g, h}
  OBVIOUS
<1>3. s \in Seq(T) /\ f \in T /\ g \in T /\ h \in T
  BY <1>1, <1>2, SeqMonotonic
<1>4. <<f>> \in Seq(T) /\ <<f, g>> \in Seq(T) /\ <<f, g, h>> \in Seq(T)
  BY <1>3
<1>5. s \o <<f>> = Append(s, f)
  BY <1>3
<1>6. s \o <<f, g>> = Append(Append(s, f), g)
  <2>1. <<f, g>> = Append(<<f>>, g)
    BY <1>3
  <2> QED  BY <1>3, <1>4, <1>5, <2>1
<1>7. s \o <<f, g, h>> = Append(Append(Append(s, f), g), h)
  <2>1. <<f, g, h>> = Append(<<f, g>>, h)
    BY <1>3
  <2> QED  BY <1>3, <1>4, <1>6, <2>1
<1> QED  BY <1>4, <1>5, <1>6, <1>7 DEF IsSeq

\* Records of a block and its type.
Records(live) == \A y \in live : y = [block |-> y.block, type |-> y.type]

LEMMA BlocksRecords == ASSUME NEW v PROVE Records(Blocks(v))
BY DEF Records, Blocks

\* The next block is not one of those that are open.
LEMMA NextIsNew ==
    ASSUME NEW s, NEW next, NEW live, Account(s, next, live)
    PROVE  \A x \in live : x.block # next
<1>1. ASSUME NEW x \in live PROVE x.block # next
  <2>1. PICK j \in Where(s, "open") : s[j].block = x.block
    BY DEF Account, Standing
  <2>2. s[j].block \in 0..(next - 1) /\ next \in Nat
    BY DEF Account, Numbered
  <2> QED  BY <2>1, <2>2
<1> QED  BY <1>1

\* From s to u a block was opened and closed, and showed these pieces.
Passes(s, u, next, live, type, pieces) ==
    /\ Account(u, next + 1, live)
    /\ \A y : Shown(u, y) = Shown(s, y) \cup (IF y = type THEN pieces ELSE {})

\* A block that is opened, perhaps extended, and closed at once.
LEMMA AtOnce ==
    ASSUME NEW s, NEW next, NEW live, Account(s, next, live), Records(live), NEW type, NEW pieces,
           NEW open, open = Frame("open", next, type, {}), NEW close, close = Frame("close", next, type, {}),
           NEW delta, delta = Frame("delta", next, type, pieces)
    PROVE  /\ Passes(s, Append(Append(s, open), close), next, live, type, {})
           /\ Passes(s, Append(Append(Append(s, open), delta), close), next, live, type, pieces)
<1> DEFINE new == [block |-> next, type |-> type]
           a == Append(s, open)
           b == Append(a, delta)
<1>1. Account(a, next + 1, live \cup {new})
  BY Opened
<1>2. Account(b, next + 1, live \cup {new})
  <2>1. delta = Frame("delta", new.block, new.type, pieces) /\ new \in live \cup {new}
    OBVIOUS
  <2> HIDE DEF a, new
  <2> QED  BY <1>1, <2>1, Extended
<1>3. Records(live \cup {new}) /\ (live \cup {new}) \ {new} = live /\ new \in live \cup {new}
  <2>1. new = [block |-> new.block, type |-> new.type] /\ new.block = next
    OBVIOUS
  <2> HIDE DEF new
  <2> QED  BY <2>1, NextIsNew DEF Records
<1>4. close = Frame("close", new.block, new.type, {})
  OBVIOUS
<1>5. open.at = "open" /\ close.at = "close" /\ delta.at = "delta" /\ delta.type = type /\ delta.pieces = pieces
  BY DEF Frame
<1>6. IsSeq(s) /\ IsSeq(a) /\ IsSeq(b)
  BY <1>1, <1>2 DEF Account
<1> HIDE DEF new, a, b
<1>0. \A S : S \cup {} = S
  OBVIOUS
<1>7. \A y : Shown(a, y) = Shown(s, y)
  <2>1. \A y : Shown(a, y) =
                  Shown(s, y) \cup (IF open.at \in {"delta", "native"} /\ open.type = y THEN open.pieces ELSE {})
    BY <1>6, Shows1 DEF a
  <2>2. open.at \notin {"delta", "native"}
    BY <1>5
  <2> QED  BY <1>0, <2>1, <2>2
<1>8. \A y : Shown(b, y) = Shown(s, y) \cup (IF y = type THEN pieces ELSE {})
  <2> QED  BY <1>5, <1>6, <1>7, Shows1 DEF b
<1>9. Account(Append(a, close), next + 1, live) /\ Account(Append(b, close), next + 1, live)
  BY <1>1, <1>2, <1>3, <1>4, Shut DEF Records
<1>10. ASSUME NEW x, IsSeq(x) PROVE \A y : Shown(Append(x, close), y) = Shown(x, y)
  <2>1. \A y : Shown(Append(x, close), y) =
                  Shown(x, y) \cup (IF close.at \in {"delta", "native"} /\ close.type = y THEN close.pieces ELSE {})
    BY <1>10, Shows1
  <2>2. close.at \notin {"delta", "native"}
    BY <1>5
  <2> QED  BY <1>0, <2>1, <2>2
<1>11. \A y : Shown(Append(a, close), y) = Shown(a, y) /\ Shown(Append(b, close), y) = Shown(b, y)
  BY <1>6, <1>10
<1>12. \A y : Shown(a, y) = Shown(s, y) \cup (IF y = type THEN {} ELSE {})
  BY <1>7
<1> QED  BY <1>8, <1>9, <1>11, <1>12 DEF a, b, Passes

\* Fields that are neither slots nor frames.
Notes1 == {"native", "streamed", "late", "calls", "args", "fin", "usage"}

LEMMA NotesOnly ==
    ASSUME NEW base, NEW v, Fine(base, v), NEW w, DOMAIN w = Fields, NEW F, F \subseteq Notes1, Alike(v, w, F), NEW type
    PROVE  Goes(base, v, w, type, {}, F)
<1>1. w.out = v.out /\ w.next = v.next /\ w.text = v.text /\ w.think = v.think /\ w.tools = v.tools
  BY DEF Alike, Fields, Notes1
<1>2. Blocks(w) = Blocks(v)
  <2>1. DOMAIN v = Fields
    BY DEF Fine, Placed
  <2> QED  BY <2>1, SlotsDiffer DEF Alike, Notes1
<1>3. Fine(base, w)
  BY <1>1, <1>2 DEF Fine, Placed
<1> QED  BY <1>1, <1>3 DEF Goes, Says

LEMMA NativeShown ==
    ASSUME NEW base, NEW v, Fine(base, v), NEW native \in Natives, NEW type
    PROVE  /\ Goes(base, v, NativeBlock(v, native), type, {}, {"out", "next", "think", "native"})
           /\ v.native \/ native = "flag" => NativeBlock(v, native).native
           /\ v.native \in BOOLEAN => NativeBlock(v, native).native \in BOOLEAN
           /\ native = None => NativeBlock(v, native).native = v.native
<1> DEFINE all == {"out", "next", "think", "native"}
           u == [v EXCEPT !.native = TRUE]
<1>1. DOMAIN v = Fields
  BY DEF Fine, Placed
<1>2. DOMAIN u = Fields /\ u.native = TRUE /\ u.think = v.think /\ Alike(v, u, {"native"})
  BY <1>1 DEF Fields, Alike
<1> HIDE DEF u
<1>3. Goes(base, v, u, type, {}, {"native"})
  BY <1>2, NotesOnly DEF Notes1
<1>4. CASE native = None
  <2>1. NativeBlock(v, native) = v /\ native # "flag"
    BY <1>4, StreamsAssumption DEF NativeBlock
  <2>2. Goes(base, v, v, type, {}, {}) /\ {} \subseteq all
    BY GoesNowhere
  <2>3. Goes(base, v, v, type, {}, all)
    BY <2>2, GoesWider
  <2> QED  BY <1>4, <2>1, <2>3
<1>5. CASE native = "flag" \/ (native = "block" /\ v.think = None)
  <2>1. NativeBlock(v, native) = u
    BY <1>5 DEF NativeBlock, u
  <2>2. native # None
    BY <1>5, StreamsAssumption
  <2> QED  BY <1>2, <1>3, <2>1, <2>2, GoesWider
<1>6. CASE native = "block" /\ v.think # None
  <2> DEFINE w == Emit(u, Frame("delta", v.think, "think", {}))
  <2>1. NativeBlock(v, native) = w /\ native # "flag"
    BY <1>6 DEF NativeBlock, u
  <2>2. Goes(base, u, w, "think", {}, {"out"})
    <3>1. u["think"] # None /\ w = Emit(u, Frame("delta", u["think"], "think", {}))
      BY <1>2, <1>6
    <3> HIDE DEF w
    <3> QED  BY <1>3, <3>1, ExtendsPart, Untouched
  <2> HIDE DEF w
  <2>3. Goes(base, u, w, type, {}, {"out"})
    BY <2>2 DEF Goes, Says
  <2>4. Goes(base, v, w, type, {} \cup {}, {"native"} \cup {"out"})
    BY <1>3, <2>3, GoesOn
  <2>5. {} \cup {} = {} /\ {"native"} \cup {"out"} \subseteq all
    OBVIOUS
  <2>6. Goes(base, v, w, type, {}, all)
    BY <2>4, <2>5, GoesWider
  <2>7. w.native = TRUE /\ native # None
    BY <1>2, <1>6, <2>2, StreamsAssumption DEF Goes, Alike, Fields
  <2> QED  BY <2>1, <2>6, <2>7
<1>7. CASE native = "redacted"
  <2> DEFINE w == Closing(v, "think")
             open == Frame("open", w.next, "redacted", {})
             close == Frame("close", w.next, "redacted", {})
             out == w.out \o <<open, close>>
             x == [w EXCEPT !.next = w.next + 1, !.out = out]
  <2>1. NativeBlock(v, native) = x
    BY <1>7 DEF NativeBlock
  <2>2. Goes(base, v, w, type, {}, {"out", "think"})
    BY ClosesPart
  <2> HIDE DEF w
  <2>3. DOMAIN w = Fields /\ IsSeq(w.out) /\ IsSeq(base) /\ Account(base \o w.out, w.next, Blocks(w)) /\ Placed(w)
    BY <2>2 DEF Goes, Fine, Placed
  <2>4. /\ DOMAIN x = Fields /\ x.out = out /\ x.next = w.next + 1 /\ x.text = w.text /\ x.think = w.think
        /\ x.tools = w.tools /\ Alike(w, x, {"out", "next"})
    BY <2>3 DEF Fields, Alike
  <2> HIDE DEF x, out, open, close
  <2>5. base \o out = Append(Append(base \o w.out, open), close) /\ IsSeq(out)
    <3>1. IsSeq(<<open, close>>)
      BY <2>3, Appends
    <3> DEFINE two == <<open, close>>
    <3> HIDE DEF two
    <3>2. IsSeq(two) /\ IsSeq(w.out \o two) /\ IsSeq(base \o w.out)
      BY <2>3, <3>1, Joined DEF two
    <3>4. (base \o w.out) \o two = base \o (w.out \o two)
      <4>1. PICK t : t = w.out
        OBVIOUS
      <4>3. IsSeq(t) /\ IsSeq(base) /\ IsSeq(two)
        BY <2>3, <3>2, <4>1
      <4>2. (base \o t) \o two = base \o (t \o two)
        BY <4>3, Regrouped
      <4> QED  BY <4>1, <4>2
    <3>3. (base \o w.out) \o two = Append(Append(base \o w.out, open), close)
      BY <3>2, Appends DEF two
    <3> QED  BY <3>2, <3>3, <3>4 DEF out, two
  <2>6. Account(base \o out, x.next, Blocks(w)) /\ \A y : Shown(base \o out, y) = Shown(base \o w.out, y)
    <3> DEFINE s == base \o w.out
               live == Blocks(w)
               next == w.next
    <3>1. Account(s, next, live) /\ Records(live)
      BY <2>3, BlocksRecords
    <3>2. open = Frame("open", next, "redacted", {}) /\ close = Frame("close", next, "redacted", {})
      BY DEF open, close
    <3> HIDE DEF s, live, next
    <3>3. Passes(s, Append(Append(s, open), close), next, live, "redacted", {})
      BY <3>1, <3>2, AtOnce
    <3>4. /\ Account(Append(Append(s, open), close), next + 1, live)
          /\ \A y : Shown(Append(Append(s, open), close), y) = Shown(s, y)
      BY <3>3 DEF Passes
    <3> QED  BY <2>4, <2>5, <3>4 DEF s, live, next
  <2>7. Blocks(x) = Blocks(w)
    BY <2>3, <2>4, SlotsDiffer DEF Alike
  <2>8. Placed(x)
    BY <2>3, <2>4 DEF Placed
  <2>9. Goes(base, w, x, type, {}, {"out", "next"})
    BY <2>3, <2>4, <2>5, <2>6, <2>7, <2>8 DEF Goes, Fine, Says
  <2>10. Goes(base, v, x, type, {} \cup {}, {"out", "think"} \cup {"out", "next"})
    BY <2>2, <2>9, GoesOn
  <2>11. {} \cup {} = {} /\ {"out", "think"} \cup {"out", "next"} \subseteq all
    OBVIOUS
  <2>12. Goes(base, v, x, type, {}, all)
    BY <2>10, <2>11, GoesWider
  <2>13. x.native = v.native /\ native # None /\ native # "flag"
    BY <1>7, <2>10, StreamsAssumption DEF Goes, Alike, Fields
  <2> QED  BY <2>1, <2>12, <2>13
<1> QED  BY <1>4, <1>5, <1>6, <1>7 DEF Natives

LEMMA ToolOpened ==
    ASSUME NEW base, NEW v, Fine(base, v), NEW i \in {0, 1}, v.tools[i] = None
    PROVE  /\ Goes(base, v, ToolOpens(v, i), "tool", {}, {"out", "next", "text", "think", "tools"})
           /\ ToolOpens(v, i).tools[i] # None
<1>1. PICK x : x = Closing(v, "text")
  OBVIOUS
<1>2. Goes(base, v, x, "tool", {}, {"out", "text"})
  BY <1>1, ClosesPart
<1>3. PICK w : w = Closing(x, "think")
  OBVIOUS
<1>4. Goes(base, x, w, "tool", {}, {"out", "think"})
  BY <1>2, <1>3, ClosesPart, Untouched
<1>5. /\ Fine(base, w) /\ w.tools = v.tools /\ DOMAIN w = Fields /\ IsSeq(w.out) /\ IsSeq(base) /\ w.next \in Nat
      /\ w.tools \in [{0, 1} -> Slots]
      /\ w.tools[0] # None => w.tools[0] # w.tools[1]
  BY <1>2, <1>4 DEF Goes, Alike, Fields, Fine, Placed
<1> DEFINE tools == [w.tools EXCEPT ![i] = w.next]
           u == [w EXCEPT !.tools[i] = w.next, !.next = w.next + 1]
           f == Frame("open", w.next, "tool", {})
           z == Emit(u, f)
           new == [block |-> w.next, type |-> "tool"]
<1>6. /\ DOMAIN u = Fields /\ u.out = w.out /\ u.next = w.next + 1 /\ u.tools = tools
      /\ \A g \in Fields \ {"next", "tools"} : u[g] = w[g]
  BY <1>5 DEF Fields
<1>7. /\ \A j \in {0, 1} : j # i => tools[j] = w.tools[j]
      /\ tools[i] = w.next /\ tools \in [{0, 1} -> Slots] /\ w.next # None
  <2>1. PICK t : t = w.tools
    OBVIOUS
  <2>2. t \in [{0, 1} -> Slots] /\ w.next \in Slots /\ w.next # None /\ tools = [t EXCEPT ![i] = w.next]
    <3>1. t \in [{0, 1} -> Slots]
      BY <1>5, <2>1
    <3>3. tools = [t EXCEPT ![i] = w.next]
      BY <2>1
    <3>2. w.next \in Slots /\ w.next # None
      BY <1>5, StreamsAssumption DEF Slots
    <3> QED  BY <3>1, <3>2, <3>3
  <2> HIDE DEF tools
  <2> QED  BY <2>1, <2>2
<1>f. f.at = "open" /\ f.type = "tool"
  BY DEF Frame
<1>8. ToolOpens(v, i) = z
  BY <1>1, <1>3 DEF ToolOpens
<1> HIDE DEF tools, u, f, z, new
<1>9. /\ DOMAIN z = Fields /\ IsSeq(z.out) /\ base \o z.out = Append(base \o w.out, f) /\ Alike(u, z, {"out"})
      /\ Says(base, u, z, "tool", {})
  <2>1. Emitted(base, u, f, z)
    BY <1>5, <1>6, EmitsOne DEF z
  <2> QED  BY <1>6, <1>f, <2>1 DEF Emitted
<1>10. z.next = w.next + 1 /\ z.tools = tools /\ z.text = w.text /\ z.think = w.think
       /\ \A g \in Fields \ {"out", "next", "tools"} : z[g] = w[g]
  BY <1>6, <1>9 DEF Alike, Fields
<1>11. Account(base \o w.out, w.next, Blocks(w))
  BY <1>5 DEF Fine
<1>12. Account(base \o z.out, z.next, Blocks(w) \cup {new})
  BY <1>9, <1>10, <1>11, Opened DEF f, new
<1>13. Blocks(z) = Blocks(w) \cup {new}
  <2>1. w.tools[i] = None
    BY <1>5
  <2>2. z["text"] = w["text"] /\ z["think"] = w["think"]
    BY <1>10
  <2>3. {[block |-> z.tools[j], type |-> "tool"] : j \in {k \in {0, 1} : z.tools[k] # None}}
          = {[block |-> w.tools[j], type |-> "tool"] : j \in {k \in {0, 1} : w.tools[k] # None}} \cup {new}
    <3>1. CASE i = 0
      BY <1>7, <1>10, <2>1, <3>1 DEF new
    <3>2. CASE i = 1
      BY <1>7, <1>10, <2>1, <3>2 DEF new
    <3> QED  BY <3>1, <3>2
  <2>4. {[block |-> z[part], type |-> part] : part \in {x1 \in {"text", "think"} : z[x1] # None}}
          = {[block |-> w[part], type |-> part] : part \in {x1 \in {"text", "think"} : w[x1] # None}}
    BY <2>2
  <2> QED  BY <2>3, <2>4 DEF Blocks
<1>14. \A j \in {0, 1} : w.tools[j] # w.next
  <2>1. ASSUME NEW j \in {0, 1}, w.tools[j] # None PROVE w.tools[j] # w.next
    <3>1. [block |-> w.tools[j], type |-> "tool"] \in Blocks(w)
      BY <2>1 DEF Blocks
    <3> QED  BY <1>11, <3>1, NextIsNew
  <2> QED  BY <1>7, <2>1
<1>15. Placed(z)
  <2>1. z.tools[0] # None => z.tools[0] # z.tools[1]
    BY <1>7, <1>10, <1>14
  <2> QED  BY <1>5, <1>7, <1>9, <1>10, <2>1 DEF Fine, Placed
<1>16. Fine(base, z)
  BY <1>5, <1>9, <1>12, <1>13, <1>15 DEF Fine
<1>17. Goes(base, w, z, "tool", {}, {"out", "next", "tools"})
  BY <1>6, <1>9, <1>10, <1>16 DEF Goes, Says, Alike
<1>18. Goes(base, v, w, "tool", {} \cup {}, {"out", "text"} \cup {"out", "think"})
  BY <1>2, <1>4, GoesOn
<1>19. Goes(base, v, z, "tool", ({} \cup {}) \cup {}, ({"out", "text"} \cup {"out", "think"}) \cup {"out", "next", "tools"})
  BY <1>17, <1>18, GoesOn
<1>20. /\ ({} \cup {}) \cup {} = {}
       /\ ({"out", "text"} \cup {"out", "think"}) \cup {"out", "next", "tools"} = {"out", "next", "text", "think", "tools"}
  OBVIOUS
<1> QED  BY <1>7, <1>8, <1>10, <1>19, <1>20

LEMMA ToolShown ==
    ASSUME NEW base, NEW v, Fine(base, v), NEW tool, tool.index \in {0, 1},
           NEW P, P = IF tool.piece = 0 THEN {} ELSE {tool.piece}
    PROVE  Goes(base, v, ToolBlock(v, tool), "tool", P, {"out", "next", "text", "think", "tools"})
<1> DEFINE all == {"out", "next", "text", "think", "tools"}
<1>1. PICK w : w = IF v.tools[tool.index] = None THEN ToolOpens(v, tool.index) ELSE v
  OBVIOUS
<1>2. Goes(base, v, w, "tool", {}, all) /\ w.tools[tool.index] # None
  <2>1. CASE v.tools[tool.index] = None
    BY <1>1, <2>1, ToolOpened
  <2>2. CASE v.tools[tool.index] # None
    <3>1. Goes(base, v, v, "tool", {}, {}) /\ {} \subseteq all
      BY GoesNowhere
    <3> QED  BY <1>1, <2>2, <3>1, GoesWider
  <2> QED  BY <2>1, <2>2
<1>3. CASE tool.piece = 0
  BY <1>1, <1>2, <1>3 DEF ToolBlock
<1>4. CASE tool.piece # 0
  <2> DEFINE i == tool.index
             f == Frame("delta", w.tools[i], "tool", {tool.piece})
             z == Emit(w, f)
             x == [block |-> w.tools[i], type |-> "tool"]
  <2>f. f.at = "delta" /\ f.type = "tool" /\ f.pieces = {tool.piece} /\ f = Frame("delta", x.block, x.type, {tool.piece})
    BY DEF Frame
  <2>1. x \in Blocks(w)
    BY <1>2 DEF Blocks
  <2>2. DOMAIN w = Fields /\ IsSeq(w.out) /\ IsSeq(base) /\ Fine(base, w)
    BY <1>2 DEF Goes, Fine, Placed
  <2>3. ToolBlock(v, tool) = z
    BY <1>1, <1>4 DEF ToolBlock
  <2> HIDE DEF f, z, x
  <2>4. /\ DOMAIN z = Fields /\ IsSeq(z.out) /\ base \o z.out = Append(base \o w.out, f) /\ Alike(w, z, {"out"})
        /\ Says(base, w, z, "tool", {tool.piece})
    <3>1. Emitted(base, w, f, z)
      BY <2>2, EmitsOne DEF z
    <3> QED  BY <2>f, <3>1 DEF Emitted
  <2>5. z.next = w.next /\ z.text = w.text /\ z.think = w.think /\ z.tools = w.tools
    BY <2>4 DEF Alike, Fields
  <2>6. Blocks(z) = Blocks(w)
    BY <2>2, <2>4, SlotsDiffer DEF Alike
  <2>7. Account(base \o z.out, z.next, Blocks(z))
    <3>1. Account(base \o w.out, w.next, Blocks(w))
      BY <2>2 DEF Fine
    <3>2. Account(Append(base \o w.out, f), w.next, Blocks(w))
      BY <2>1, <2>f, <3>1, Extended
    <3> QED  BY <2>4, <2>5, <2>6, <3>2
  <2>8. Fine(base, z)
    BY <2>2, <2>4, <2>5, <2>7 DEF Fine, Placed
  <2>9. Goes(base, w, z, "tool", {tool.piece}, {"out"})
    BY <2>4, <2>8 DEF Goes
  <2>10. Goes(base, v, z, "tool", {} \cup {tool.piece}, all \cup {"out"})
    BY <1>2, <2>9, GoesOn
  <2>11. {} \cup {tool.piece} = {tool.piece} /\ all \cup {"out"} = all
    OBVIOUS
  <2> QED  BY <1>4, <2>3, <2>10, <2>11
<1> QED  BY <1>3, <1>4

\* A chunk brings this piece, if it is one, in this kind of delta and no other.
Brings(c, kind, p) ==
    /\ kind \in {"text", "think", "tool", "none"} /\ p \in Nat /\ (kind \in {"text", "think"} => p # 0)
    /\ c.text = (IF kind = "text" THEN p ELSE 0) /\ c.think = (IF kind = "think" THEN p ELSE 0)
    /\ IF kind = "tool" THEN \E i \in {0, 1} : c.tools = Tool(i, p) ELSE c.tools = <<>>
    /\ kind # "none" => c.choice # None /\ c.native = None
    /\ c.native \in Natives

PieceOf(kind, p) == IF kind = "none" \/ p = 0 THEN {} ELSE {p}

LEMMA ToolOf ==
    ASSUME NEW i, NEW p
    PROVE  Tool(i, p) # <<>> /\ Tool(i, p)[1].index = i /\ Tool(i, p)[1].piece = p
<1>1. Tool(i, p) = <<[index |-> i, piece |-> p]>>
  BY DEF Tool
<1>2. Len(Tool(i, p)) = 1 /\ Len(<<>>) = 0
  BY <1>1
<1> QED  BY <1>1, <1>2

BlockFields == {"out", "next", "text", "think", "tools", "native", "usage", "fin"}

LEMMA MessagesShown ==
    ASSUME NEW base, NEW v, Ready(base, v), v.native \in BOOLEAN, NEW c, NEW kind, NEW p, Brings(c, kind, p)
    PROVE  LET w == MessagesChunk(v, c)
               hidden == kind = "think" /\ ~v.native
           IN  /\ Grown(base, v, w, kind, IF hidden THEN {} ELSE PieceOf(kind, p), BlockFields)
               /\ w.native \in BOOLEAN /\ (v.native => w.native)
               /\ c.native = "flag" /\ c.choice # None => w.native
               /\ c.native = None => w.native = v.native
<1> DEFINE x0 == Noting(v, c)
           x1 == NativeBlock(x0, c.native)
           x2 == ThinkBlock(x1, c)
           x3 == TextBlock(x2, c)
           x4 == IF c.tools = <<>> THEN x3 ELSE ToolBlock(x3, c.tools[1])
           hidden == kind = "think" /\ ~v.native
           all == BlockFields
           P == IF hidden THEN {} ELSE PieceOf(kind, p)
           P2 == IF kind = "think" /\ v.native THEN {p} ELSE {}
           P3 == IF kind = "text" THEN {p} ELSE {}
           P4 == IF kind = "tool" /\ p # 0 THEN {p} ELSE {}
<1>1. Grown(base, v, x0, kind, {}, {"out", "usage", "fin"}) /\ Fine(base, x0) /\ x0.native = v.native
  <2>1. Grown(base, v, x0, kind, {}, {"out", "usage", "fin"})
    BY NotesFine
  <2> HIDE DEF x0
  <2> QED  BY <2>1 DEF Grown, Alike, Fields
<1>2. MessagesChunk(v, c) = IF c.choice = None THEN x0 ELSE x4
  BY DEF MessagesChunk
<1>p. P = (P2 \cup P3) \cup P4 /\ (kind = "none" => P = {})
  BY DEF Brings, PieceOf
<1> HIDE DEF x0
<1>3. CASE c.choice = None
  <2>1. kind = "none" /\ P = {}
    BY <1>3, <1>p DEF Brings
  <2>2. Grown(base, v, x0, kind, {}, BlockFields)
    BY <1>1 DEF Grown, Alike, BlockFields
  <2>3. MessagesChunk(v, c) = x0
    BY <1>2, <1>3
  <2> QED  BY <1>1, <1>3, <2>1, <2>2, <2>3
<1>4. CASE c.choice # None
  <2>1. /\ Goes(base, x0, x1, kind, {}, {"out", "next", "think", "native"}) /\ x1.native \in BOOLEAN
        /\ (v.native => x1.native) /\ (c.native = "flag" => x1.native) /\ (c.native = None => x1.native = v.native)
    BY <1>1, NativeShown DEF Brings
  <2> HIDE DEF x1
  <2>f. Fine(base, x1)
    BY <2>1, Untouched
  <2>2. Goes(base, x1, x2, kind, P2, {"out", "next", "think"}) /\ x2.native = x1.native
    <3>1. CASE kind = "think" /\ v.native
      <4>1. c.think # 0 /\ x1.native /\ c.think = p
        BY <2>1, <3>1 DEF Brings
      <4>2. Goes(base, x1, x2, "think", {c.think}, {"out", "next", "think"})
        BY <2>f, <4>1, ThinkShown
      <4> HIDE DEF x2
      <4> QED  BY <3>1, <4>1, <4>2 DEF Goes, Alike, Fields
    <3>2. CASE ~(kind = "think" /\ v.native)
      <4>1. x2 = x1
        <5>1. c.think = 0 \/ ~x1.native
          BY <2>1, <3>2 DEF Brings
        <5> QED  BY <5>1 DEF ThinkBlock
      <4>2. Goes(base, x1, x1, kind, {}, {}) /\ {} \subseteq {"out", "next", "think"}
        BY <2>f, GoesNowhere
      <4>3. Goes(base, x1, x1, kind, {}, {"out", "next", "think"})
        BY <4>2, GoesWider
      <4> QED  BY <3>2, <4>1, <4>3
    <3> QED  BY <3>1, <3>2
  <2> HIDE DEF x2
  <2>g. Fine(base, x2)
    BY <2>2, Untouched
  <2>3. Goes(base, x2, x3, kind, P3, {"out", "next", "text", "think"}) /\ x3.native = x2.native
    <3>1. CASE kind = "text"
      <4>1. c.text # 0 /\ c.text = p
        BY <3>1 DEF Brings
      <4>2. Goes(base, x2, x3, "text", {c.text}, {"out", "next", "text", "think"})
        BY <2>g, <4>1, TextShown
      <4> HIDE DEF x3
      <4> QED  BY <3>1, <4>1, <4>2 DEF Goes, Alike, Fields
    <3>2. CASE kind # "text"
      <4>1. x3 = x2
        BY <3>2 DEF TextBlock, Brings
      <4>2. Goes(base, x2, x2, kind, {}, {}) /\ {} \subseteq {"out", "next", "text", "think"}
        BY <2>g, GoesNowhere
      <4>3. Goes(base, x2, x2, kind, {}, {"out", "next", "text", "think"})
        BY <4>2, GoesWider
      <4> QED  BY <3>2, <4>1, <4>3
    <3> QED  BY <3>1, <3>2
  <2> HIDE DEF x3
  <2>h. Fine(base, x3)
    BY <2>3, Untouched
  <2> DEFINE F4 == {"out", "next", "text", "think", "tools"}
  <2>4. Goes(base, x3, x4, kind, P4, F4) /\ x4.native = x3.native
    <3>1. CASE kind = "tool"
      <4>1. PICK i \in {0, 1} : c.tools = Tool(i, p)
        BY <3>1 DEF Brings
      <4>2. PICK tool : tool = c.tools[1]
        OBVIOUS
      <4>3. c.tools # <<>> /\ tool.index \in {0, 1} /\ tool.piece = p
        BY <4>1, <4>2, ToolOf
      <4>6. P4 = IF tool.piece = 0 THEN {} ELSE {tool.piece}
        BY <3>1, <4>3
      <4>4. Goes(base, x3, ToolBlock(x3, tool), "tool", P4, F4)
        <5> HIDE DEF P4
        <5> QED  BY <2>h, <4>3, <4>6, ToolShown
      <4>5. x4 = ToolBlock(x3, tool)
        BY <4>2, <4>3
      <4> HIDE DEF x4, P4
      <4>7. Goes(base, x3, x4, kind, P4, F4)
        BY <3>1, <4>4, <4>5
      <4> QED  BY <4>7 DEF Goes, Alike, Fields
    <3>2. CASE kind # "tool"
      <4>1. x4 = x3
        BY <3>2 DEF Brings
      <4>2. Goes(base, x3, x3, kind, {}, {}) /\ {} \subseteq F4
        BY <2>h, GoesNowhere
      <4>3. Goes(base, x3, x3, kind, {}, F4)
        BY <4>2, GoesWider
      <4> QED  BY <3>2, <4>1, <4>3
    <3> QED  BY <3>1, <3>2
  <2> HIDE DEF x4, P, P2, P3, P4
  <2>5. Goes(base, x0, x2, kind, {} \cup P2, {"out", "next", "think", "native"} \cup {"out", "next", "think"})
    BY <2>1, <2>2, GoesOn
  <2>6. Goes(base, x2, x4, kind, P3 \cup P4, {"out", "next", "text", "think"} \cup F4)
    BY <2>3, <2>4, GoesOn
  <2> DEFINE F2 == {"out", "next", "think", "native"} \cup {"out", "next", "think"}
             F6 == {"out", "next", "text", "think"} \cup F4
  <2>7. Goes(base, x0, x4, kind, ({} \cup P2) \cup (P3 \cup P4), F2 \cup F6)
    BY <2>5, <2>6, GoesOn
  <2>8. Grown(base, v, x4, kind, {} \cup (({} \cup P2) \cup (P3 \cup P4)), {"out", "usage", "fin"} \cup (F2 \cup F6))
    BY <1>1, <2>7, GrownOn
  <2>9. /\ {} \cup (({} \cup P2) \cup (P3 \cup P4)) = P
        /\ {"out", "usage", "fin"} \cup (F2 \cup F6) = BlockFields
    BY <1>p DEF BlockFields
  <2>10. Grown(base, v, x4, kind, P, BlockFields)
    BY <2>8, <2>9
  <2>11. MessagesChunk(v, c) = x4
    BY <1>2, <1>4
  <2>12. x4.native = x1.native
    BY <2>2, <2>3, <2>4
  <2> QED  BY <2>1, <2>10, <2>11, <2>12 DEF P
<1> QED  BY <1>3, <1>4
-----------------------------------------------------------------------------
(* What the chunks of Responses show, and what they put aside.             *)

CallLists == {<<>>, <<0>>, <<1>>, <<0, 1>>, <<1, 0>>}
Listed(calls, i) == \E j \in 1..Len(calls) : calls[j] = i

\* Calls are put aside in the order they appear, and so is late reasoning.
Aside(v) ==
    /\ v.streamed \in BOOLEAN /\ v.native \in BOOLEAN /\ v.late \subseteq Nat
    /\ v.calls \in CallLists /\ v.args \in [{0, 1} -> SUBSET Nat]
    /\ \A i \in {0, 1} : v.args[i] # {} => Listed(v.calls, i)
    /\ ~v.streamed => v.think = None
    /\ v.tools[0] = None /\ v.tools[1] = None

Withheld(v) == v.args[0] \cup v.args[1]

LEMMA ListsGrow ==
    ASSUME NEW calls \in CallLists, NEW i \in {0, 1}, NEW next,
           next = IF Listed(calls, i) THEN calls ELSE Append(calls, i)
    PROVE  /\ next \in CallLists /\ Listed(next, i)
           /\ \A k \in {0, 1} : Listed(calls, k) => Listed(next, k)
<1>1. /\ Len(<<0>>) = 1 /\ <<0>>[1] = 0 /\ Len(<<1>>) = 1 /\ <<1>>[1] = 1 /\ Len(<<>>) = 0
      /\ Len(<<0, 1>>) = 2 /\ <<0, 1>>[1] = 0 /\ <<0, 1>>[2] = 1
      /\ Len(<<1, 0>>) = 2 /\ <<1, 0>>[1] = 1 /\ <<1, 0>>[2] = 0
  OBVIOUS
<1>2. \A k : /\ ~Listed(<<>>, k) /\ (Listed(<<0>>, k) <=> k = 0) /\ (Listed(<<1>>, k) <=> k = 1)
             /\ (Listed(<<0, 1>>, k) <=> k \in {0, 1}) /\ (Listed(<<1, 0>>, k) <=> k \in {0, 1})
  BY <1>1 DEF Listed
<1>3. /\ Append(<<>>, 0) = <<0>> /\ Append(<<>>, 1) = <<1>>
      /\ Append(<<0>>, 1) = <<0, 1>> /\ Append(<<1>>, 0) = <<1, 0>>
  <2>1. ASSUME NEW f \in Nat PROVE Append(<<>>, f) = <<f>>
    <3>1. IsSeq(<<>>)
      BY EmptySeq DEF IsSeq
    <3>2. <<>> \o <<f>> = Append(<<>>, f) /\ IsSeq(<<f>>)
      BY <3>1, Appends
    <3> QED  BY <3>1, <3>2, Joined
  <2>2. ASSUME NEW f \in Nat, NEW g \in Nat PROVE Append(<<f>>, g) = <<f, g>>
    <3>1. <<f, g>> = Append(<<f>>, g)
      OBVIOUS
    <3> QED  BY <3>1
  <2> QED  BY <2>1, <2>2
<1>5. CASE calls = <<>>
  BY <1>2, <1>3, <1>5 DEF CallLists
<1>6. CASE calls = <<0>>
  BY <1>2, <1>3, <1>6 DEF CallLists
<1>7. CASE calls = <<1>>
  BY <1>2, <1>3, <1>7 DEF CallLists
<1>8. CASE calls = <<0, 1>> \/ calls = <<1, 0>>
  BY <1>2, <1>8 DEF CallLists
<1> QED  BY <1>5, <1>6, <1>7, <1>8 DEF CallLists

LEMMA Remembers ==
    ASSUME NEW base, NEW v, Fine(base, v), Aside(v), NEW tool, tool.index \in {0, 1}, tool.piece \in Nat,
           NEW P, P = IF tool.piece = 0 THEN {} ELSE {tool.piece}, NEW type, NEW w, w = Remember(v, tool)
    PROVE  /\ Goes(base, v, w, type, {}, {"calls", "args"}) /\ Aside(w)
           /\ Withheld(w) = Withheld(v) \cup P
<1> DEFINE i == tool.index
           calls == IF \E j \in 1..Len(v.calls) : v.calls[j] = i THEN v.calls ELSE Append(v.calls, i)
           args == [v.args EXCEPT ![i] = IF tool.piece = 0 THEN @ ELSE @ \cup {tool.piece}]
<1>1. w = [v EXCEPT !.calls = calls, !.args = args]
  BY DEF Remember
<1>2. /\ calls \in CallLists /\ Listed(calls, i)
      /\ \A k \in {0, 1} : Listed(v.calls, k) => Listed(calls, k)
  <2>1. PICK a : a = v.calls
    OBVIOUS
  <2>2. a \in CallLists
    BY <2>1 DEF Aside
  <2>3. calls = IF Listed(a, i) THEN a ELSE Append(a, i)
    BY <2>1 DEF Listed
  <2> HIDE DEF calls
  <2>4. calls \in CallLists /\ Listed(calls, i) /\ \A k \in {0, 1} : Listed(a, k) => Listed(calls, k)
    BY <2>2, <2>3, ListsGrow
  <2> QED  BY <2>1, <2>4
<1>3. /\ args \in [{0, 1} -> SUBSET Nat] /\ args[i] = v.args[i] \cup P
      /\ \A k \in {0, 1} : k # i => args[k] = v.args[k]
  <2>1. PICK a : a = v.args
    OBVIOUS
  <2>2. a \in [{0, 1} -> SUBSET Nat]
    BY <2>1 DEF Aside
  <2>3. args = [a EXCEPT ![i] = IF tool.piece = 0 THEN a[i] ELSE a[i] \cup {tool.piece}]
    BY <2>1
  <2> HIDE DEF args
  <2>4. \A S : S \cup {} = S
    OBVIOUS
  <2>5. args \in [{0, 1} -> SUBSET Nat] /\ \A k \in {0, 1} : k # i => args[k] = a[k]
    BY <2>2, <2>3
  <2>6. args[i] = IF tool.piece = 0 THEN a[i] ELSE a[i] \cup {tool.piece}
    BY <2>2, <2>3
  <2>7. args[i] = a[i] \cup P
    BY <2>4, <2>6
  <2> QED  BY <2>1, <2>5, <2>7
<1> HIDE DEF calls, args
<1>4. DOMAIN v = Fields
  BY DEF Fine, Placed
<1>5. /\ DOMAIN w = Fields /\ w.calls = calls /\ w.args = args
      /\ \A g \in Fields \ {"calls", "args"} : w[g] = v[g]
  BY <1>1, <1>4 DEF Fields
<1>6. Goes(base, v, w, type, {}, {"calls", "args"})
  BY <1>5, NotesOnly DEF Notes1, Alike
<1>7. /\ w.streamed = v.streamed /\ w.native = v.native /\ w.late = v.late /\ w.think = v.think
      /\ w.tools = v.tools
  BY <1>5 DEF Fields
<1>8. \A k \in {0, 1} : w.args[k] # {} => Listed(w.calls, k)
  BY <1>2, <1>3, <1>5 DEF Aside
<1>9. Aside(w)
  BY <1>2, <1>3, <1>5, <1>7, <1>8 DEF Aside
<1>10. Withheld(w) = Withheld(v) \cup P
  <2>1. CASE i = 0
    <3>1. w.args[0] = v.args[0] \cup P /\ w.args[1] = v.args[1]
      BY <1>3, <1>5, <2>1
    <3> QED  BY <3>1 DEF Withheld
  <2>2. CASE i = 1
    <3>1. w.args[1] = v.args[1] \cup P /\ w.args[0] = v.args[0]
      BY <1>3, <1>5, <2>2
    <3> QED  BY <3>1 DEF Withheld
  <2> QED  BY <2>1, <2>2
<1> QED  BY <1>6, <1>9, <1>10

\* What is put aside does not depend on the other fields.
AsideFields == {"streamed", "native", "late", "calls", "args", "tools"}

LEMMA AsideKept ==
    ASSUME NEW v, Aside(v), NEW w, NEW F, Alike(v, w, F), F \cap AsideFields = {},
           ~v.streamed => w.think = None
    PROVE  Aside(w) /\ Withheld(w) = Withheld(v) /\ w.late = v.late /\ w.streamed = v.streamed /\ w.native = v.native
<1>1. \A g \in AsideFields : w[g] = v[g]
  BY DEF Alike, AsideFields, Fields
<1>2. /\ w.streamed = v.streamed /\ w.native = v.native /\ w.late = v.late /\ w.calls = v.calls
      /\ w.args = v.args /\ w.tools = v.tools
  BY <1>1 DEF AsideFields
<1> QED  BY <1>2 DEF Aside, Withheld

LEMMA ReasoningShown ==
    ASSUME NEW base, NEW v, Fine(base, v), Aside(v), NEW c, c.think \in Nat \ {0}
    PROVE  LET w == ReasoningItem(v, c)
           IN  \E P : /\ Goes(base, v, w, "think", P, {"out", "next", "think", "streamed", "late"})
                      /\ Aside(w) /\ Withheld(w) = Withheld(v) /\ w.native = v.native
                      /\ \/ P = {c.think} /\ w.late = v.late
                         \/ P = {} /\ w.late = v.late \cup {c.think}
<1> DEFINE all == {"out", "next", "think", "streamed", "late"}
<1>0. DOMAIN v = Fields
  BY DEF Fine, Placed
<1>1. CASE ~v.streamed /\ v.text = None
  <2> DEFINE u == [v EXCEPT !.streamed = TRUE]
             x == OpenNew(u, "think")
             w == Extend(x, "think", c.think)
  <2>1. ReasoningItem(v, c) = w
    BY <1>1 DEF ReasoningItem
  <2>2. DOMAIN u = Fields /\ u.streamed = TRUE /\ \A g \in Fields \ {"streamed"} : u[g] = v[g]
    BY <1>0 DEF Fields
  <2> HIDE DEF u
  <2>3. Goes(base, v, u, "think", {}, {"streamed"})
    BY <2>2, NotesOnly DEF Notes1, Alike
  <2>4. Aside(u) /\ Withheld(u) = Withheld(v) /\ u.late = v.late /\ u["think"] = None /\ u.native = v.native
    <3>1. /\ u.native = v.native /\ u.late = v.late /\ u.calls = v.calls /\ u.args = v.args
          /\ u.tools = v.tools /\ u.think = v.think
      BY <2>2 DEF Fields
    <3> QED  BY <1>1, <2>2, <3>1 DEF Aside, Withheld
  <2>5. Goes(base, u, x, "think", {}, {"out", "next", "think"}) /\ x["think"] # None
    <3>1. Fine(base, u) /\ u.next # None
      BY <2>3, StreamsAssumption DEF Goes, Fine, Placed
    <3> QED  BY <2>4, <3>1, OpensPart
  <2> HIDE DEF x
  <2>6. Goes(base, x, w, "think", {c.think}, {"out"})
    BY <2>5, ExtendsPart, Untouched DEF Extend
  <2> HIDE DEF w
  <2>7. Goes(base, u, w, "think", {} \cup {c.think}, {"out", "next", "think"} \cup {"out"})
    BY <2>5, <2>6, GoesOn
  <2>8. Goes(base, v, w, "think", {} \cup ({} \cup {c.think}), {"streamed"} \cup ({"out", "next", "think"} \cup {"out"}))
    BY <2>3, <2>7, GoesOn
  <2>9. {} \cup ({} \cup {c.think}) = {c.think} /\ {"streamed"} \cup ({"out", "next", "think"} \cup {"out"}) \subseteq all
    OBVIOUS
  <2>10. Goes(base, v, w, "think", {c.think}, all)
    BY <2>8, <2>9, GoesWider
  <2>11. Aside(w) /\ Withheld(w) = Withheld(u) /\ w.late = u.late /\ w.native = u.native
    <3>1. ({"out", "next", "think"} \cup {"out"}) \cap AsideFields = {}
      BY DEF AsideFields
    <3> QED  BY <2>2, <2>4, <2>7, <3>1, AsideKept DEF Goes
  <2> QED  BY <2>1, <2>4, <2>10, <2>11
<1>2. CASE v.streamed /\ v.think # None
  <2> DEFINE w == Extend(v, "think", c.think)
  <2>1. ReasoningItem(v, c) = w
    BY <1>2 DEF ReasoningItem
  <2>2. Goes(base, v, w, "think", {c.think}, {"out"})
    BY <1>2, ExtendsPart DEF Extend
  <2> HIDE DEF w
  <2>3. Aside(w) /\ Withheld(w) = Withheld(v) /\ w.late = v.late /\ w.native = v.native
    <3>1. {"out"} \cap AsideFields = {}
      BY DEF AsideFields
    <3> QED  BY <1>2, <2>2, <3>1, AsideKept DEF Goes
  <2>4. {"out"} \subseteq all
    OBVIOUS
  <2>5. Goes(base, v, w, "think", {c.think}, all)
    BY <2>2, <2>4, GoesWider
  <2> QED  BY <2>1, <2>3, <2>5
<1>3. CASE ~(~v.streamed /\ v.text = None) /\ ~(v.streamed /\ v.think # None)
  <2> DEFINE w == [v EXCEPT !.late = v.late \cup {c.think}]
  <2>1. ReasoningItem(v, c) = w
    BY <1>3 DEF ReasoningItem
  <2>2. DOMAIN w = Fields /\ w.late = v.late \cup {c.think} /\ \A g \in Fields \ {"late"} : w[g] = v[g]
    BY <1>0 DEF Fields
  <2> HIDE DEF w
  <2>3. Goes(base, v, w, "think", {}, {"late"})
    BY <2>2, NotesOnly DEF Notes1, Alike
  <2>4. Aside(w) /\ Withheld(w) = Withheld(v) /\ w.native = v.native
    <3>1. /\ w.native = v.native /\ w.streamed = v.streamed /\ w.calls = v.calls /\ w.args = v.args
          /\ w.tools = v.tools /\ w.think = v.think
      BY <2>2 DEF Fields
    <3> QED  BY <2>2, <3>1 DEF Aside, Withheld
  <2>5. {"late"} \subseteq all
    OBVIOUS
  <2>6. Goes(base, v, w, "think", {}, all)
    BY <2>3, <2>5, GoesWider
  <2> QED  BY <2>1, <2>2, <2>4, <2>6
<1> QED  BY <1>1, <1>2, <1>3

LEMMA MessageShown ==
    ASSUME NEW base, NEW v, Fine(base, v), Aside(v), NEW c, c.text # 0
    PROVE  LET w == MessageItem(v, c)
           IN  /\ Goes(base, v, w, "text", {c.text}, {"out", "next", "text", "think"})
               /\ Aside(w) /\ Withheld(w) = Withheld(v) /\ w.late = v.late /\ w.native = v.native
<1> DEFINE all == {"out", "next", "text", "think"}
           y == Closing(v, "think")
           x == IF v.text = None THEN OpenNew(y, "text") ELSE v
           w == Extend(x, "text", c.text)
<1>1. MessageItem(v, c) = w
  BY DEF MessageItem
<1>2. Goes(base, v, x, "text", {}, all) /\ x["text"] # None /\ (~v.streamed => x.think = None)
  <2>1. CASE v.text = None
    <3>1. Goes(base, v, y, "text", {}, {"out", "think"}) /\ y["think"] = None
      BY ClosesPart
    <3> HIDE DEF y
    <3>2. y["text"] = None
      BY <2>1, <3>1 DEF Goes, Alike, Fields
    <3>3. y.next # None
      BY <3>1, StreamsAssumption DEF Goes, Fine, Placed
    <3>4. x = OpenNew(y, "text")
      BY <2>1
    <3> HIDE DEF x
    <3>5. Goes(base, y, x, "text", {}, {"out", "next", "text"}) /\ x["text"] # None
      BY <3>1, <3>2, <3>3, <3>4, OpensPart, Untouched
    <3>6. Goes(base, v, x, "text", {} \cup {}, {"out", "think"} \cup {"out", "next", "text"})
      BY <3>1, <3>5, GoesOn
    <3>7. {} \cup {} = {} /\ {"out", "think"} \cup {"out", "next", "text"} \subseteq all
      OBVIOUS
    <3>8. x.think = None
      BY <3>1, <3>5 DEF Goes, Alike, Fields
    <3> QED  BY <3>5, <3>6, <3>7, <3>8, GoesWider
  <2>2. CASE v.text # None
    <3>1. Goes(base, v, v, "text", {}, {}) /\ {} \subseteq all
      BY GoesNowhere
    <3> QED  BY <2>2, <3>1, GoesWider DEF Aside
  <2> QED  BY <2>1, <2>2
<1> HIDE DEF x
<1>3. Goes(base, x, w, "text", {c.text}, {"out"})
  BY <1>2, ExtendsPart, Untouched DEF Extend
<1> HIDE DEF w
<1>4. Goes(base, v, w, "text", {} \cup {c.text}, all \cup {"out"})
  BY <1>2, <1>3, GoesOn
<1>5. {} \cup {c.text} = {c.text} /\ all \cup {"out"} = all
  OBVIOUS
<1>6. Goes(base, v, w, "text", {c.text}, all)
  BY <1>4, <1>5
<1>7. all \cap AsideFields = {}
  BY DEF AsideFields
<1>8. ~v.streamed => w.think = None
  BY <1>2, <1>3 DEF Goes, Alike, Fields
<1> QED  BY <1>1, <1>6, <1>7, <1>8, AsideKept DEF Goes

\* What is shown of a piece, P, and what is put aside of it.
SetsAside(v, w, kind, p, P) ==
    /\ Aside(w) /\ w.native = v.native
    /\ Withheld(w) = Withheld(v) \cup (IF kind = "tool" THEN PieceOf(kind, p) ELSE {})
    /\ kind = "text" => P = {p}
    /\ kind \in {"tool", "none"} => P = {}
    /\ kind = "think" => \/ P = {p} /\ w.late = v.late
                         \/ P = {} /\ w.late = v.late \cup {p}
    /\ kind # "think" => w.late = v.late

ItemFields == {"out", "next", "text", "think", "streamed", "late", "calls", "args", "usage", "fin"}

LEMMA ResponsesShown ==
    ASSUME NEW base, NEW v, Ready(base, v), Aside(v), ~v.native, NEW c, NEW kind, NEW p, Brings(c, kind, p),
           c.event = None
    PROVE  LET w == ResponsesChunk(v, c)
           IN  \E P : Grown(base, v, w, kind, P, ItemFields) /\ SetsAside(v, w, kind, p, P)
<1> DEFINE x0 == Noting(v, c)
           x1 == ReasoningItem(x0, c)
           x2 == MessageItem(x1, c)
           x3 == IF c.tools = <<>> THEN x2 ELSE Remember(x2, c.tools[1])
           w == ResponsesChunk(v, c)
           F0 == {"out", "usage", "fin"}
<1>1. /\ Grown(base, v, x0, kind, {}, F0) /\ Fine(base, x0) /\ Aside(x0) /\ ~x0.native
      /\ Withheld(x0) = Withheld(v) /\ x0.late = v.late /\ x0.native = v.native
  <2>1. Grown(base, v, x0, kind, {}, F0)
    BY NotesFine
  <2> HIDE DEF x0
  <2>2. F0 \cap AsideFields = {}
    BY DEF AsideFields
  <2>3. ~v.streamed => x0.think = None
    BY <2>1 DEF Grown, Alike, Fields, Aside
  <2> QED  BY <2>1, <2>2, <2>3, AsideKept DEF Grown
<1>2. w = IF c.choice = None THEN x0 ELSE x3
  BY <1>1 DEF ResponsesChunk
<1>0. \A S : S \cup {} = S
  OBVIOUS
<1> HIDE DEF x0, w
<1>w. F0 \subseteq ItemFields
  BY DEF ItemFields
<1>3. CASE kind = "none"
  <2>1. w = x0
    <3>1. x1 = x0
      BY <1>3 DEF ReasoningItem, Brings
    <3> HIDE DEF x1
    <3>2. x2 = x0
      BY <1>3, <3>1 DEF MessageItem, Brings
    <3> HIDE DEF x2
    <3>3. x3 = x0
      BY <1>3, <3>2 DEF Brings
    <3> QED  BY <1>2, <3>3
  <2>2. Grown(base, v, x0, kind, {}, ItemFields)
    BY <1>1, <1>w DEF Grown, Alike
  <2>3. SetsAside(v, x0, kind, p, {})
    BY <1>0, <1>1, <1>3 DEF SetsAside
  <2> QED  BY <2>1, <2>2, <2>3 DEF w
<1>4. CASE kind = "text"
  <2>1. c.choice # None /\ c.think = 0 /\ c.text = p /\ c.text # 0 /\ c.tools = <<>>
    BY <1>4 DEF Brings
  <2>2. x1 = x0
    BY <2>1 DEF ReasoningItem
  <2>3. w = x2
    BY <1>2, <2>1
  <2> HIDE DEF x1
  <2>4. /\ Goes(base, x0, x2, "text", {p}, {"out", "next", "text", "think"})
        /\ Aside(x2) /\ Withheld(x2) = Withheld(x0) /\ x2.late = x0.late /\ x2.native = x0.native
    BY <1>1, <2>1, <2>2, MessageShown
  <2> HIDE DEF x2
  <2> DEFINE F1 == {"out", "next", "text", "think"}
  <2>5. Grown(base, v, x2, "text", {} \cup {p}, F0 \cup F1)
    BY <1>1, <1>4, <2>4, GrownOn
  <2>6. Grown(base, v, x2, kind, {p}, ItemFields)
    <3>1. {} \cup {p} = {p} /\ F0 \cup F1 \subseteq ItemFields
      BY DEF ItemFields
    <3> QED  BY <1>4, <2>5, <3>1 DEF Grown, Alike
  <2>7. SetsAside(v, x2, kind, p, {p})
    BY <1>0, <1>1, <1>4, <2>4 DEF SetsAside
  <2> QED  BY <2>3, <2>6, <2>7 DEF w
<1>5. CASE kind = "think"
  <2>1. c.choice # None /\ c.think = p /\ c.think \in Nat \ {0} /\ c.text = 0 /\ c.tools = <<>>
    BY <1>5 DEF Brings
  <2> DEFINE F1 == {"out", "next", "think", "streamed", "late"}
  <2>2. PICK P : /\ Goes(base, x0, x1, "think", P, F1)
                 /\ Aside(x1) /\ Withheld(x1) = Withheld(x0) /\ x1.native = x0.native
                 /\ \/ P = {c.think} /\ x1.late = x0.late
                    \/ P = {} /\ x1.late = x0.late \cup {c.think}
    BY <1>1, <2>1, ReasoningShown
  <2> HIDE DEF x1
  <2>3. w = x1
    <3>1. x2 = x1
      BY <2>1 DEF MessageItem
    <3> QED  BY <1>2, <2>1, <3>1
  <2>4. Grown(base, v, x1, "think", {} \cup P, F0 \cup F1)
    BY <1>1, <1>5, <2>2, GrownOn
  <2>5. Grown(base, v, x1, kind, P, ItemFields)
    <3>1. {} \cup P = P /\ F0 \cup F1 \subseteq ItemFields
      BY DEF ItemFields
    <3> QED  BY <1>5, <2>4, <3>1 DEF Grown, Alike
  <2>6. SetsAside(v, x1, kind, p, P)
    BY <1>0, <1>1, <1>5, <2>1, <2>2 DEF SetsAside
  <2> QED  BY <2>3, <2>5, <2>6 DEF w
<1>6. CASE kind = "tool"
  <2>1. c.choice # None /\ c.think = 0 /\ c.text = 0
    BY <1>6 DEF Brings
  <2>2. PICK i \in {0, 1} : c.tools = Tool(i, p)
    BY <1>6 DEF Brings
  <2>3. PICK tool : tool = c.tools[1]
    OBVIOUS
  <2>4. c.tools # <<>> /\ tool.index \in {0, 1} /\ tool.piece = p /\ p \in Nat
    BY <2>2, <2>3, ToolOf DEF Brings
  <2>5. x1 = x0
    BY <2>1 DEF ReasoningItem
  <2> HIDE DEF x1
  <2>6. x2 = x0
    BY <2>1, <2>5 DEF MessageItem
  <2> HIDE DEF x2
  <2>7. w = Remember(x0, tool)
    BY <1>2, <2>1, <2>3, <2>4, <2>6
  <2> DEFINE P == PieceOf(kind, p)
  <2>8. P = IF tool.piece = 0 THEN {} ELSE {tool.piece}
    BY <1>6, <2>4 DEF PieceOf
  <2> HIDE DEF P
  <2>9. Goes(base, x0, w, kind, {}, {"calls", "args"}) /\ Aside(w) /\ Withheld(w) = Withheld(x0) \cup P
    <3>1. Fine(base, x0) /\ Aside(x0) /\ tool.index \in {0, 1} /\ tool.piece \in Nat
      BY <1>1, <2>4
    <3> QED  BY <2>7, <2>8, <3>1, Remembers
  <2>10. Grown(base, v, w, kind, {} \cup {}, F0 \cup {"calls", "args"})
    BY <1>1, <2>9, GrownOn
  <2>11. Grown(base, v, w, kind, {}, ItemFields)
    <3>1. {} \cup {} = {} /\ F0 \cup {"calls", "args"} \subseteq ItemFields
      BY DEF ItemFields
    <3> QED  BY <2>10, <3>1 DEF Grown, Alike
  <2>12. SetsAside(v, w, kind, p, {})
    <3>1. w.late = x0.late /\ w.native = x0.native
      BY <2>9 DEF Goes, Alike, Fields
    <3> QED  BY <1>1, <1>6, <2>9, <3>1 DEF SetsAside, P
  <2> QED  BY <2>11, <2>12 DEF w
<1> QED  BY <1>3, <1>4, <1>5, <1>6 DEF Brings, w

LEMMA PiecesBrought ==
    ASSUME NEW c, NEW kind, NEW p, Brings(c, kind, p)
    PROVE  PiecesOf(c) = PieceOf(kind, p)
<1>1. CASE kind = "tool"
  <2>1. PICK i : c.tools = Tool(i, p)
    BY <1>1 DEF Brings
  <2>2. PICK q : q = IF c.tools = <<>> THEN 0 ELSE c.tools[1].piece
    OBVIOUS
  <2>3. q = p
    BY <2>1, <2>2, ToolOf
  <2>4. PiecesOf(c) = {c.text, c.think, q} \ {0}
    BY <2>2 DEF PiecesOf
  <2> QED  BY <1>1, <2>3, <2>4 DEF Brings, PieceOf
<1>2. CASE kind # "tool"
  <2>1. c.tools = <<>>
    BY <1>2 DEF Brings
  <2>2. PiecesOf(c) = {c.text, c.think, 0} \ {0}
    BY <2>1 DEF PiecesOf
  <2> QED  BY <1>2, <2>2 DEF Brings, PieceOf
<1> QED  BY <1>1, <1>2

LEMMA NativesShown ==
    ASSUME NEW base, NEW v, Ready(base, v), Aside(v), NEW c, NEW kind, NEW p, Brings(c, kind, p),
           c.event # None, c.choice # None
    PROVE  LET w == ResponsesChunk(v, c)
           IN  /\ Grown(base, v, w, c.event, PieceOf(kind, p), {"out", "native", "usage", "fin"})
               /\ Aside(w) /\ Withheld(w) = Withheld(v) /\ w.late = v.late
<1> DEFINE x == Noting(v, c)
           u == [x EXCEPT !.native = TRUE]
           f == Frame("native", 0, c.event, PiecesOf(c))
           w == Emit(u, f)
           F0 == {"out", "usage", "fin"}
<1>1. ResponsesChunk(v, c) = w
  BY DEF ResponsesChunk
<1>2. Grown(base, v, x, c.event, {}, F0)
  BY NotesFine
<1> HIDE DEF x
<1>3. DOMAIN x = Fields /\ Fine(base, x) /\ IsSeq(base) /\ IsSeq(x.out)
  BY <1>2 DEF Grown, Fine, Placed
<1>4. DOMAIN u = Fields /\ u.native = TRUE /\ u.out = x.out /\ \A g \in Fields \ {"native"} : u[g] = x[g]
  BY <1>3 DEF Fields
<1>f. f.at = "native" /\ f.type = c.event /\ f.pieces = PieceOf(kind, p)
  BY PiecesBrought DEF Frame
<1> HIDE DEF u, f
<1>5. Goes(base, x, u, c.event, {}, {"native"})
  BY <1>3, <1>4, NotesOnly DEF Notes1, Alike
<1>6. Emitted(base, u, f, w)
  BY <1>3, <1>4, EmitsOne
<1> HIDE DEF w
<1>7. /\ DOMAIN w = Fields /\ IsSeq(w.out) /\ base \o w.out = Append(base \o u.out, f) /\ Alike(u, w, {"out"})
      /\ Says(base, u, w, c.event, PieceOf(kind, p))
  BY <1>6, <1>f DEF Emitted
<1>8. w.next = u.next /\ w.text = u.text /\ w.think = u.think /\ w.tools = u.tools
  BY <1>7 DEF Alike, Fields
<1>9. Blocks(w) = Blocks(u)
  BY <1>4, <1>7, SlotsDiffer DEF Alike
<1>10. Account(base \o w.out, w.next, Blocks(w))
  <2>1. Account(base \o u.out, u.next, Blocks(u))
    BY <1>5 DEF Goes, Fine
  <2>2. Account(Append(base \o u.out, f), u.next, Blocks(u))
    BY <1>f, <2>1, Apart
  <2> QED  BY <1>7, <1>8, <1>9, <2>2
<1>11. Fine(base, w)
  BY <1>3, <1>5, <1>7, <1>8, <1>10 DEF Goes, Fine, Placed
<1>12. Goes(base, u, w, c.event, PieceOf(kind, p), {"out"})
  BY <1>7, <1>11 DEF Goes
<1> DEFINE P == PieceOf(kind, p)
<1> HIDE DEF P
<1>13. Goes(base, x, w, c.event, {} \cup P, {"native"} \cup {"out"})
  BY <1>5, <1>12, GoesOn DEF P
<1>14. Grown(base, v, w, c.event, {} \cup ({} \cup P), F0 \cup ({"native"} \cup {"out"}))
  BY <1>2, <1>13, GrownOn
<1>15. {} \cup ({} \cup P) = P /\ F0 \cup ({"native"} \cup {"out"}) = {"out", "native", "usage", "fin"}
  OBVIOUS
<1>16. Grown(base, v, w, c.event, P, {"out", "native", "usage", "fin"})
  BY <1>14, <1>15
<1>17. w.native = TRUE
  BY <1>4, <1>7 DEF Alike, Fields
<1>18. /\ w.streamed = v.streamed /\ w.late = v.late /\ w.calls = v.calls /\ w.args = v.args
       /\ w.tools = v.tools /\ w.think = v.think
  BY <1>16 DEF Grown, Alike, Fields
<1>19. Aside(w) /\ Withheld(w) = Withheld(v)
  BY <1>17, <1>18 DEF Aside, Withheld
<1> QED  BY <1>1, <1>16, <1>18, <1>19 DEF P
-----------------------------------------------------------------------------
(* What the end of a stream shows.                                         *)

LEMMA AppendsTwo ==
    ASSUME NEW s, IsSeq(s), NEW f, NEW g
    PROVE  s \o <<f, g>> = Append(Append(s, f), g) /\ IsSeq(<<f, g>>)
<1>1. /\ s \o <<f>> = Append(s, f)
      /\ s \o <<f, g>> = Append(Append(s, f), g)
      /\ s \o <<f, g, g>> = Append(Append(Append(s, f), g), g)
      /\ IsSeq(<<f>>) /\ IsSeq(<<f, g>>) /\ IsSeq(<<f, g, g>>)
  BY Appends
<1> QED  BY <1>1

LEMMA AppendsOne ==
    ASSUME NEW s, IsSeq(s), NEW f
    PROVE  s \o <<f>> = Append(s, f) /\ IsSeq(<<f>>)
<1>1. /\ s \o <<f>> = Append(s, f)
      /\ s \o <<f, f>> = Append(Append(s, f), f)
      /\ s \o <<f, f, f>> = Append(Append(Append(s, f), f), f)
      /\ IsSeq(<<f>>) /\ IsSeq(<<f, f>>) /\ IsSeq(<<f, f, f>>)
  BY Appends
<1> QED  BY <1>1

LEMMA ShutOne ==
    ASSUME NEW s, NEW next, NEW live, Account(s, next, live), Records(live), NEW x \in live,
           NEW f, f = Frame("close", x.block, x.type, {})
    PROVE  /\ Account(Append(s, f), next, live \ {x}) /\ Records(live \ {x})
           /\ \A y : Shown(Append(s, f), y) = Shown(s, y)
<1>1. Account(Append(s, f), next, live \ {x})
  BY Shut DEF Records
<1>2. Records(live \ {x})
  BY DEF Records
<1>3. f.at \notin {"delta", "native"}
  BY DEF Frame
<1>4. \A S : S \cup {} = S
  OBVIOUS
<1>5. \A y : Shown(Append(s, f), y) = Shown(s, y) \cup (IF f.at \in {"delta", "native"} /\ f.type = y THEN f.pieces ELSE {})
  BY Shows1 DEF Account
<1>6. \A y : Shown(Append(s, f), y) = Shown(s, y)
  BY <1>3, <1>4, <1>5
<1> QED  BY <1>1, <1>2, <1>6

\* Nothing is open after these frames, which show what s does.
AllShut(s, u) == (\E next : Account(u, next, {})) /\ \A y : Shown(u, y) = Shown(s, y)

LEMMA ToolsShut ==
    ASSUME NEW base, NEW v, Fine(base, v), v.text = None, v.think = None, NEW w, w = CloseTools(v)
    PROVE  /\ DOMAIN w = Fields /\ IsSeq(w.out)
           /\ AllShut(base \o v.out, base \o w.out)
<1> DEFINE f(i) == Frame("close", v.tools[i], "tool", {})
           shut(i) == IF v.tools[i] = None THEN <<>> ELSE <<f(i)>>
           swapped == None \notin {v.tools[0], v.tools[1]} /\ v.tools[1] < v.tools[0]
           q == IF swapped THEN shut(1) \o shut(0) ELSE shut(0) \o shut(1)
           tools == [i \in {0, 1} |-> None]
           x(i) == [block |-> v.tools[i], type |-> "tool"]
           s == base \o v.out
           live == Blocks(v)
<1>1. w = [v EXCEPT !.tools = tools, !.out = @ \o q]
  BY DEF CloseTools
<1> HIDE DEF tools
<1>2. /\ DOMAIN v = Fields /\ IsSeq(v.out) /\ IsSeq(base) /\ Account(s, v.next, live) /\ Records(live)
      /\ (v.tools[0] # None => v.tools[0] # v.tools[1])
  BY BlocksRecords DEF Fine, Placed
<1>3. DOMAIN w = Fields /\ w.out = v.out \o q
  BY <1>1, <1>2 DEF Fields
<1>4. live = {x(i) : i \in {j \in {0, 1} : v.tools[j] # None}}
  <2>1. v["text"] = None /\ v["think"] = None
    OBVIOUS
  <2> QED  BY <2>1 DEF Blocks
<1>5. \A i : f(i) = Frame("close", x(i).block, x(i).type, {})
  OBVIOUS
<1>6. v.tools[0] # None => x(0) # x(1)
  BY <1>2
<1> HIDE DEF f, x, live, s
<1>7. IsSeq(q) /\ AllShut(s, s \o q)
  <2>0. IsSeq(s) /\ IsSeq(<<>>) /\ s \o <<>> = s /\ <<>> \o <<>> = <<>>
    <3>1. IsSeq(s)
      BY <1>2 DEF Account
    <3> QED  BY <3>1, Joined
  <2>1. CASE v.tools[0] = None /\ v.tools[1] = None
    <3>1. q = <<>> /\ live = {}
      BY <1>4, <2>0, <2>1
    <3> QED  BY <1>2, <2>0, <3>1 DEF AllShut
  <2>2. ASSUME NEW i \in {0, 1}, NEW j \in {0, 1}, i # j, v.tools[i] # None, v.tools[j] = None
        PROVE  IsSeq(q) /\ AllShut(s, s \o q)
    <3>1. live = {x(i)}
      BY <1>4, <2>2
    <3>2. IsSeq(<<f(i)>>) /\ s \o <<f(i)>> = Append(s, f(i))
      BY <2>0, Appends
    <3>3. q = <<f(i)>>
      <4>1. shut(i) = <<f(i)>> /\ shut(j) = <<>> /\ ~swapped
        BY <2>2
      <4>2. <<f(i)>> \o <<>> = <<f(i)>> /\ <<>> \o <<f(i)>> = <<f(i)>>
        BY <2>0, <3>2, Joined
      <4> HIDE DEF swapped
      <4>3. CASE i = 0
        BY <2>2, <4>1, <4>2, <4>3
      <4>4. CASE i = 1
        BY <2>2, <4>1, <4>2, <4>4
      <4> QED  BY <4>3, <4>4
    <3> HIDE DEF q
    <3>4. live \ {x(i)} = {} /\ x(i) \in live
      BY <3>1
    <3>5. /\ Account(Append(s, f(i)), v.next, live \ {x(i)})
          /\ \A y : Shown(Append(s, f(i)), y) = Shown(s, y)
      BY <1>2, <1>5, <3>4, ShutOne
    <3> QED  BY <3>2, <3>3, <3>4, <3>5 DEF AllShut
  <2>3. CASE v.tools[0] # None /\ v.tools[1] # None
    <3>1. live = {x(0), x(1)} /\ x(0) # x(1)
      BY <1>4, <1>6, <2>3
    <3>2. ASSUME NEW i \in {0, 1}, NEW j \in {0, 1}, i # j
          PROVE  IsSeq(<<f(i), f(j)>>) /\ AllShut(s, s \o <<f(i), f(j)>>)
      <4> DEFINE u == Append(s, f(i))
                 rest == live \ {x(i)}
      <4>1. x(i) \in live /\ x(j) \in rest /\ rest \ {x(j)} = {}
        BY <3>1, <3>2
      <4>2. Account(u, v.next, rest) /\ Records(rest) /\ \A y : Shown(u, y) = Shown(s, y)
        BY <1>2, <1>5, <4>1, ShutOne
      <4> HIDE DEF u, rest
      <4>3. Account(Append(u, f(j)), v.next, rest \ {x(j)}) /\ \A y : Shown(Append(u, f(j)), y) = Shown(u, y)
        BY <1>5, <4>1, <4>2, ShutOne
      <4>4. IsSeq(<<f(i), f(j)>>) /\ s \o <<f(i), f(j)>> = Append(u, f(j))
        <5>1. PICK a : a = f(i)
          OBVIOUS
        <5>2. PICK b : b = f(j)
          OBVIOUS
        <5>3. PICK r : r = s
          OBVIOUS
        <5>4. IsSeq(r)
          BY <2>0, <5>3
        <5>5. r \o <<a, b>> = Append(Append(r, a), b) /\ IsSeq(<<a, b>>)
          BY <5>4, AppendsTwo
        <5> QED  BY <5>1, <5>2, <5>3, <5>5 DEF u
      <4> QED  BY <4>1, <4>2, <4>3, <4>4 DEF AllShut
    <3>3. q \in {<<f(0), f(1)>>, <<f(1), f(0)>>}
      <4>1. shut(0) = <<f(0)>> /\ shut(1) = <<f(1)>>
        BY <2>3
      <4>2. ASSUME NEW g, NEW h PROVE <<g>> \o <<h>> = <<g, h>>
        <5>1. /\ IsSeq(<<g, h, h>>) /\ IsSeq(<<g>>)
              /\ <<>> \o <<g>> = Append(<<>>, g) /\ <<>> \o <<g, h>> = Append(Append(<<>>, g), h)
          BY <2>0, Appends
        <5>2. <<g>> \o <<h>> = Append(<<g>>, h) /\ IsSeq(<<h, h, h>>) /\ IsSeq(<<g, h>>)
          BY <5>1, Appends
        <5>3. <<>> \o <<g>> = <<g>> /\ <<>> \o <<g, h>> = <<g, h>>
          BY <2>0, <5>1, <5>2, Joined
        <5> QED  BY <5>1, <5>2, <5>3
      <4> HIDE DEF swapped, shut
      <4> QED  BY <4>1, <4>2
    <3> HIDE DEF q
    <3> QED  BY <3>2, <3>3
  <2> QED  BY <2>1, <2>2, <2>3
<1> HIDE DEF q
<1>8. IsSeq(w.out) /\ base \o w.out = s \o q
  <2>1. PICK t : t = v.out
    OBVIOUS
  <2>2. IsSeq(t) /\ IsSeq(base) /\ IsSeq(q)
    BY <1>2, <1>7, <2>1
  <2>3. (base \o t) \o q = base \o (t \o q)
    BY <2>2, Regrouped
  <2>4. IsSeq(t \o q)
    BY <2>2, Joined
  <2> QED  BY <1>3, <2>1, <2>3, <2>4 DEF s
<1> QED  BY <1>3, <1>7, <1>8 DEF s

\* Both slots of a view are closed, one after the other.
LEMMA SlotsShut ==
    ASSUME NEW base, NEW v, Fine(base, v), NEW type, NEW w, w = Closing(Closing(v, "think"), "text")
    PROVE  Goes(base, v, w, type, {}, {"out", "think", "text"}) /\ w.text = None /\ w.think = None
<1>1. PICK x : x = Closing(v, "think")
  OBVIOUS
<1>2. Goes(base, v, x, type, {}, {"out", "think"}) /\ x["think"] = None
  BY <1>1, ClosesPart
<1>3. Goes(base, x, w, type, {}, {"out", "text"}) /\ w["text"] = None
  BY <1>1, <1>2, ClosesPart, Untouched
<1>4. Goes(base, v, w, type, {} \cup {}, {"out", "think"} \cup {"out", "text"})
  BY <1>2, <1>3, GoesOn
<1>5. {} \cup {} = {} /\ {"out", "think"} \cup {"out", "text"} = {"out", "think", "text"}
  OBVIOUS
<1>6. w.think = None
  BY <1>2, <1>3 DEF Goes, Alike, Fields
<1> QED  BY <1>3, <1>4, <1>5, <1>6

\* The last frame.
LEMMA EndEmitted ==
    ASSUME NEW base, IsSeq(base), NEW v, DOMAIN v = Fields, IsSeq(v.out), NEW f, f.at = "end", NEW w, w = Emit(v, f)
    PROVE  /\ DOMAIN w = Fields /\ IsSeq(w.out) /\ Alike(v, w, {"out"})
           /\ \A y : Shown(base \o w.out, y) = Shown(base \o v.out, y)
           /\ \A next, live : Account(base \o v.out, next, live) => Account(base \o w.out, next, live)
<1>1. Emitted(base, v, f, w)
  BY EmitsOne
<1>2. /\ DOMAIN w = Fields /\ IsSeq(w.out) /\ Alike(v, w, {"out"}) /\ Says(base, v, w, f.type, {})
      /\ base \o w.out = Append(base \o v.out, f)
  BY <1>1 DEF Emitted
<1>3. \A S : S \cup {} = S
  OBVIOUS
<1>4. \A y : Shown(base \o w.out, y) = Shown(base \o v.out, y)
  BY <1>2, <1>3 DEF Says
<1>5. ASSUME NEW next, NEW live, Account(base \o v.out, next, live) PROVE Account(base \o w.out, next, live)
  <2>1. Account(Append(base \o v.out, f), next, live)
    BY <1>5, Apart
  <2> QED  BY <1>2, <2>1
<1> QED  BY <1>2, <1>4, <1>5

LEMMA MessagesEnds ==
    ASSUME NEW base, NEW v, Fine(base, v), NEW w, w = MessagesEnd(v)
    PROVE  IsSeq(w.out) /\ AllShut(base \o v.out, base \o w.out)
<1> DEFINE x == Closing(Closing(v, "think"), "text")
           z == CloseTools(x)
           f == Frame("end", 0, StopReason[v.fin], {})
<1>1. w = Emit(z, f) /\ f.at = "end"
  BY DEF MessagesEnd, Frame
<1>2. Goes(base, v, x, "text", {}, {"out", "think", "text"}) /\ x.text = None /\ x.think = None
  BY SlotsShut
<1> HIDE DEF x, f
<1>3. Fine(base, x) /\ \A y : Shown(base \o x.out, y) = Shown(base \o v.out, y)
  <2>1. \A S : S \cup {} = S
    OBVIOUS
  <2> QED  BY <1>2, <2>1 DEF Goes, Says
<1>4. DOMAIN z = Fields /\ IsSeq(z.out) /\ AllShut(base \o x.out, base \o z.out)
  BY <1>2, <1>3, ToolsShut
<1> HIDE DEF z
<1>5. /\ IsSeq(w.out)
      /\ \A y : Shown(base \o w.out, y) = Shown(base \o z.out, y)
      /\ \A next, live : Account(base \o z.out, next, live) => Account(base \o w.out, next, live)
  <2>1. IsSeq(base) /\ f.at = "end" /\ w = Emit(z, f)
    BY <1>1 DEF Fine
  <2>2. DOMAIN z = Fields /\ IsSeq(z.out)
    BY <1>4
  <2>3. /\ DOMAIN w = Fields /\ IsSeq(w.out) /\ Alike(z, w, {"out"})
        /\ \A y : Shown(base \o w.out, y) = Shown(base \o z.out, y)
        /\ \A next, live : Account(base \o z.out, next, live) => Account(base \o w.out, next, live)
    BY <2>1, <2>2, EndEmitted
  <2> QED  BY <2>3
<1> QED  BY <1>3, <1>4, <1>5 DEF AllShut

\* A block that is opened, extended and closed at the end of a stream.
LEMMA Adds ==
    ASSUME NEW base, IsSeq(base), NEW out, IsSeq(out), NEW next, Account(base \o out, next, {}), NEW type, NEW pieces,
           NEW q, q = <<Frame("open", next, type, {}), Frame("delta", next, type, pieces), Frame("close", next, type, {})>>
    PROVE  IsSeq(out \o q) /\ Passes(base \o out, base \o (out \o q), next, {}, type, pieces)
<1>1. PICK f : f = Frame("open", next, type, {})
  OBVIOUS
<1>2. PICK g : g = Frame("delta", next, type, pieces)
  OBVIOUS
<1>3. PICK h : h = Frame("close", next, type, {})
  OBVIOUS
<1>4. PICK s : s = base \o out
  OBVIOUS
<1>5. IsSeq(s) /\ Account(s, next, {}) /\ Records({})
  BY <1>4 DEF Account, Records
<1>6. /\ s \o <<f>> = Append(s, f)
      /\ s \o <<f, g>> = Append(Append(s, f), g)
      /\ s \o <<f, g, h>> = Append(Append(Append(s, f), g), h)
      /\ IsSeq(<<f>>) /\ IsSeq(<<f, g>>) /\ IsSeq(<<f, g, h>>)
  BY <1>5, Appends
<1>7. Passes(s, Append(Append(Append(s, f), g), h), next, {}, type, pieces)
  BY <1>1, <1>2, <1>3, <1>5, AtOnce
<1>8. q = <<f, g, h>>
  BY <1>1, <1>2, <1>3
<1>9. IsSeq(out \o q) /\ base \o (out \o q) = s \o q
  <2>1. IsSeq(q)
    BY <1>6, <1>8
  <2>2. IsSeq(out \o q)
    BY <2>1, Joined
  <2>3. (base \o out) \o q = base \o (out \o q)
    BY <2>1, Regrouped
  <2> QED  BY <1>4, <2>2, <2>3
<1> QED  BY <1>4, <1>6, <1>7, <1>8, <1>9

\* From s to u blocks were opened and closed that showed these pieces.
Adding(s, u, type, pieces) ==
    \A y : Shown(u, y) = Shown(s, y) \cup (IF y = type THEN pieces ELSE {})

LEMMA TrailingShown ==
    ASSUME NEW base, IsSeq(base), NEW v, DOMAIN v = Fields, IsSeq(v.out), v.next \in Nat, Account(base \o v.out, v.next, {}),
           NEW w, w = Trailing(v), NEW P, P = IF v.streamed THEN {} ELSE v.late
    PROVE  /\ IsSeq(w.out) /\ w.next \in Nat /\ Account(base \o w.out, w.next, {})
           /\ Adding(base \o v.out, base \o w.out, "think", P)
           /\ DOMAIN w = Fields /\ Alike(v, w, {"out", "next"})
<1>0. \A S : S \cup {} = S
  OBVIOUS
<1>1. CASE v.late = {} \/ v.streamed
  <2>1. w = v /\ P = {}
    BY <1>1 DEF Trailing
  <2> QED  BY <1>0, <2>1 DEF Adding, Alike
<1>2. CASE ~(v.late = {} \/ v.streamed)
  <2> DEFINE b == v.next
             q == <<Frame("open", b, "think", {}), Frame("delta", b, "think", v.late), Frame("close", b, "think", {})>>
  <2>1. w = [v EXCEPT !.next = @ + 1, !.out = @ \o q] /\ P = v.late
    BY <1>2 DEF Trailing
  <2>2. PICK r : r = q
    OBVIOUS
  <2>3. /\ DOMAIN w = Fields /\ w.out = v.out \o r /\ w.next = v.next + 1
        /\ \A g \in Fields \ {"out", "next"} : w[g] = v[g]
    <3> HIDE DEF q
    <3> QED  BY <2>1, <2>2 DEF Fields
  <2>4. PICK t : t = v.out
    OBVIOUS
  <2>5. IsSeq(t \o r) /\ Passes(base \o t, base \o (t \o r), b, {}, "think", P)
    BY <2>1, <2>2, <2>4, Adds
  <2> HIDE DEF q
  <2> QED  BY <2>3, <2>4, <2>5 DEF Passes, Adding, Alike
<1> QED  BY <1>1, <1>2

\* The pieces of the calls that are listed are those that are withheld.
LEMMA CallsShown ==
    ASSUME NEW base, IsSeq(base), NEW v, DOMAIN v = Fields, IsSeq(v.out), v.next \in Nat, Account(base \o v.out, v.next, {}),
           Aside(v), NEW w, w = CallItems(v)
    PROVE  /\ DOMAIN w = Fields /\ IsSeq(w.out) /\ \E next : Account(base \o w.out, next, {})
           /\ Adding(base \o v.out, base \o w.out, "tool", Withheld(v)) /\ Alike(v, w, {"out"})
<1>0. \A S : S \cup {} = S
  OBVIOUS
<1> DEFINE size == Len(v.calls)
           item(j) == CallItem(v.next + j - 1, v.args[v.calls[j]])
           out == CASE size = 0 -> v.out [] size = 1 -> v.out \o item(1) [] OTHER -> v.out \o item(1) \o item(2)
<1>1. w = [v EXCEPT !.out = out]
  BY DEF CallItems
<1>2. PICK o : o = out
  OBVIOUS
<1>3. DOMAIN w = Fields /\ w.out = o /\ Alike(v, w, {"out"})
  <2> HIDE DEF out
  <2> QED  BY <1>1, <1>2 DEF Fields, Alike
<1> SUFFICES IsSeq(o) /\ (\E next : Account(base \o o, next, {})) /\ Adding(base \o v.out, base \o o, "tool", Withheld(v))
  BY <1>3
<1>4. PICK t : t = v.out
  OBVIOUS
<1>5. PICK a : a = v.calls
  OBVIOUS
<1>6. PICK b : b = v.next
  OBVIOUS
<1>7. a \in CallLists /\ v.args \in [{0, 1} -> SUBSET Nat] /\ \A i \in {0, 1} : v.args[i] # {} => Listed(a, i)
  BY <1>5 DEF Aside
<1>8. IsSeq(t) /\ Account(base \o t, b, {}) /\ b \in Nat
  BY <1>4, <1>6
<1>c. CASE a = <<>>
  <2>1. size = 0 /\ ~Listed(a, 0) /\ ~Listed(a, 1)
    BY <1>5, <1>c DEF Listed
  <2>2. o = t
    <3> HIDE DEF size, item
    <3> QED  BY <1>2, <1>4, <2>1
  <2>3. Withheld(v) = {}
    BY <1>7, <2>1 DEF Withheld
  <2>4. Adding(base \o t, base \o o, "tool", {})
    BY <1>0, <2>2 DEF Adding
  <2> QED  BY <1>4, <1>8, <2>2, <2>3, <2>4
<1>d. ASSUME NEW i \in {0, 1}, a = <<i>> PROVE IsSeq(o) /\ (\E next : Account(base \o o, next, {})) /\ Adding(base \o v.out, base \o o, "tool", Withheld(v))
  <2>1. size = 1 /\ a[1] = i /\ \A k \in {0, 1} : Listed(a, k) <=> k = i
    BY <1>5, <1>d DEF Listed
  <2>2. PICK q : q = CallItem(b, v.args[i])
    OBVIOUS
  <2>3. item(1) = q
    <3>1. v.next + 1 - 1 = b
      BY <1>6, <1>8
    <3> QED  BY <1>5, <2>1, <2>2, <3>1
  <2>4. o = t \o q
    <3> HIDE DEF size, item
    <3> QED  BY <1>2, <1>4, <2>1, <2>3
  <2>5. Withheld(v) = v.args[i]
    BY <1>7, <2>1 DEF Withheld
  <2>6. IsSeq(t \o q) /\ Passes(base \o t, base \o (t \o q), b, {}, "tool", v.args[i])
    BY <1>8, <2>2, Adds DEF CallItem
  <2> QED  BY <1>4, <2>4, <2>5, <2>6 DEF Passes, Adding
<1>e. ASSUME NEW i \in {0, 1}, NEW k \in {0, 1}, i # k, a = <<i, k>>
      PROVE IsSeq(o) /\ (\E next : Account(base \o o, next, {})) /\ Adding(base \o v.out, base \o o, "tool", Withheld(v))
  <2>1. size = 2 /\ a[1] = i /\ a[2] = k
    BY <1>5, <1>e
  <2>2. PICK q : q = CallItem(b, v.args[i])
    OBVIOUS
  <2>3. PICK r : r = CallItem(b + 1, v.args[k])
    OBVIOUS
  <2>4. item(1) = q /\ item(2) = r
    <3>1. v.next + 1 - 1 = b /\ v.next + 2 - 1 = b + 1
      BY <1>6, <1>8
    <3> QED  BY <1>5, <2>1, <2>2, <2>3, <3>1
  <2>5. o = (t \o q) \o r
    <3> HIDE DEF size, item
    <3> QED  BY <1>2, <1>4, <2>1, <2>4
  <2>6. Withheld(v) = v.args[i] \cup v.args[k]
    BY <1>e DEF Withheld
  <2>7. IsSeq(t \o q) /\ Passes(base \o t, base \o (t \o q), b, {}, "tool", v.args[i])
    BY <1>8, <2>2, Adds DEF CallItem
  <2>8. PICK u : u = t \o q
    OBVIOUS
  <2>9. IsSeq(u) /\ Account(base \o u, b + 1, {})
    BY <2>7, <2>8 DEF Passes
  <2>10. IsSeq(u \o r) /\ Passes(base \o u, base \o (u \o r), b + 1, {}, "tool", v.args[k])
    BY <2>3, <2>9, Adds DEF CallItem
  <2>11. Adding(base \o t, base \o (u \o r), "tool", v.args[i] \cup v.args[k])
    BY <2>7, <2>8, <2>10 DEF Passes, Adding
  <2> QED  BY <1>4, <2>5, <2>6, <2>8, <2>10, <2>11 DEF Passes
<1> QED  BY <1>7, <1>c, <1>d, <1>e DEF CallLists

\* The reasoning a closing item shows, and the frames of an end that is not native.
Trailed(v) == IF v.streamed THEN {} ELSE v.late
EndsWell(base, v, w) ==
    /\ IsSeq(w.out) /\ (\E next : Account(base \o w.out, next, {}))
    /\ Shown(base \o w.out, "text") = Shown(base \o v.out, "text")
    /\ Shown(base \o w.out, "args") = Shown(base \o v.out, "args")
    /\ Shown(base \o w.out, "tool") = Shown(base \o v.out, "tool") \cup Withheld(v)
    /\ Shown(base \o w.out, "think") = Shown(base \o v.out, "think") \cup Trailed(v)
    /\ w.late = v.late /\ w.streamed = v.streamed

LEMMA ResponsesEnds ==
    ASSUME NEW base, NEW v, Fine(base, v), Aside(v), v.native = FALSE, NEW w, w = ResponsesEnd(v)
    PROVE  EndsWell(base, v, w)
<1>p. PICK P : P = Trailed(v)
  OBVIOUS
<1>q. P = IF v.streamed THEN {} ELSE v.late
  BY <1>p DEF Trailed
<1> DEFINE x == Closing(Closing(v, "think"), "text")
           y == Trailing(x)
           z == CallItems(y)
           f == Frame("end", 0, ResponseStatus(v.fin), {})
<1>0. \A S : S \cup {} = S
  OBVIOUS
<1>1. w = Emit(z, f) /\ f.at = "end"
  BY DEF ResponsesEnd, Frame
<1>2. Goes(base, v, x, "text", {}, {"out", "think", "text"}) /\ x.text = None /\ x.think = None
  BY SlotsShut
<1> HIDE DEF x, f
<1>3. Fine(base, x) /\ (\A k : Shown(base \o x.out, k) = Shown(base \o v.out, k)) /\ Alike(v, x, {"out", "think", "text"})
  BY <1>0, <1>2 DEF Goes, Says
<1>4. Aside(x) /\ Withheld(x) = Withheld(v) /\ x.late = v.late /\ x.streamed = v.streamed /\ x.native = v.native
  <2>1. {"out", "think", "text"} \cap AsideFields = {}
    BY DEF AsideFields
  <2> QED  BY <1>2, <1>3, <2>1, AsideKept
<1>5. Blocks(x) = {}
  <2>1. x["text"] = None /\ x["think"] = None
    BY <1>2
  <2> QED  BY <1>4, <2>1 DEF Aside, Blocks
<1>6. IsSeq(base) /\ DOMAIN x = Fields /\ IsSeq(x.out) /\ x.next \in Nat /\ Account(base \o x.out, x.next, {})
  BY <1>3, <1>5 DEF Fine, Placed
<1>r. P = IF x.streamed THEN {} ELSE x.late
  BY <1>4, <1>q
<1>7. /\ IsSeq(y.out) /\ y.next \in Nat /\ Account(base \o y.out, y.next, {})
      /\ Adding(base \o x.out, base \o y.out, "think", P)
      /\ DOMAIN y = Fields /\ Alike(x, y, {"out", "next"})
  BY <1>4, <1>6, <1>r, TrailingShown
<1> HIDE DEF y
<1>8. Aside(y) /\ Withheld(y) = Withheld(v) /\ y.late = v.late /\ y.streamed = v.streamed
  <2>1. {"out", "next"} \cap AsideFields = {}
    BY DEF AsideFields
  <2>2. y.think = None
    BY <1>2, <1>7 DEF Alike, Fields
  <2> QED  BY <1>4, <1>7, <2>1, <2>2, AsideKept
<1>9. /\ DOMAIN z = Fields /\ IsSeq(z.out) /\ (\E next : Account(base \o z.out, next, {}))
      /\ Adding(base \o y.out, base \o z.out, "tool", Withheld(y)) /\ Alike(y, z, {"out"})
  BY <1>6, <1>7, <1>8, CallsShown
<1> HIDE DEF z
<1>10. /\ DOMAIN w = Fields /\ IsSeq(w.out) /\ Alike(z, w, {"out"})
       /\ \A k : Shown(base \o w.out, k) = Shown(base \o z.out, k)
       /\ \A next, live : Account(base \o z.out, next, live) => Account(base \o w.out, next, live)
  BY <1>1, <1>6, <1>9, EndEmitted
<1>11. w.late = v.late /\ w.streamed = v.streamed
  BY <1>8, <1>9, <1>10 DEF Alike, Fields
<1>12. /\ Shown(base \o w.out, "text") = Shown(base \o v.out, "text")
       /\ Shown(base \o w.out, "args") = Shown(base \o v.out, "args")
       /\ Shown(base \o w.out, "tool") = Shown(base \o v.out, "tool") \cup Withheld(v)
       /\ Shown(base \o w.out, "think") = Shown(base \o v.out, "think") \cup P
  <2>1. \A k : Shown(base \o y.out, k) = Shown(base \o v.out, k) \cup (IF k = "think" THEN P ELSE {})
    BY <1>3, <1>7 DEF Adding
  <2>2. \A k : Shown(base \o w.out, k) = Shown(base \o y.out, k) \cup (IF k = "tool" THEN Withheld(v) ELSE {})
    BY <1>8, <1>9, <1>10 DEF Adding
  <2> QED  BY <1>0, <2>1, <2>2
<1> QED  BY <1>p, <1>9, <1>10, <1>11, <1>12 DEF EndsWell

\* A native stream ends with its own events.
LEMMA NativeEnds ==
    ASSUME NEW base, NEW v, Fine(base, v), Aside(v), v.native = TRUE, v.text = None, v.think = None,
           NEW w, w = ResponsesEnd(v)
    PROVE  /\ IsSeq(w.out) /\ AllShut(base \o v.out, base \o w.out)
           /\ w.late = v.late /\ w.streamed = v.streamed
<1> DEFINE f == Frame("end", 0, ResponseStatus(v.fin), {})
<1>1. w = Emit(v, f) /\ f.at = "end"
  BY DEF ResponsesEnd, Frame
<1>2. Blocks(v) = {}
  <2>1. v["text"] = None /\ v["think"] = None
    OBVIOUS
  <2> QED  BY <2>1 DEF Aside, Blocks
<1>3. IsSeq(base) /\ DOMAIN v = Fields /\ IsSeq(v.out) /\ Account(base \o v.out, v.next, {})
  BY <1>2 DEF Fine, Placed
<1> HIDE DEF f
<1>4. /\ DOMAIN w = Fields /\ IsSeq(w.out) /\ Alike(v, w, {"out"})
      /\ \A k : Shown(base \o w.out, k) = Shown(base \o v.out, k)
      /\ \A next, live : Account(base \o v.out, next, live) => Account(base \o w.out, next, live)
  BY <1>1, <1>3, EndEmitted
<1> QED  BY <1>3, <1>4 DEF AllShut, Alike, Fields
-----------------------------------------------------------------------------
(* What the chunks of a wire bring.                                        *)

\* A chunk brings a piece of its kind, to be shown by an event that names it.
Carries(w, c, kind, x) ==
    /\ Brings(c, kind, x)
    /\ w # "responses" => c.event = None
    /\ w = "responses" /\ c.event = None => kind = "none"
    /\ c.event # None => c.choice # None
    /\ c.event # None /\ PieceOf(kind, x) # {} => c.event = IF kind = "tool" THEN "args" ELSE kind
    /\ c.native # None => w = "messages"

Gains(d, g, kind, P) ==
    /\ g.text = d.text \cup (IF kind = "text" THEN P ELSE {})
    /\ g.think = d.think \cup (IF kind = "think" THEN P ELSE {})
    /\ g.args = d.args \cup (IF kind = "tool" THEN P ELSE {})

\* Native thinking is announced before its pieces (anthropic/index.ts).
Announced(w, p, kind) == w = "messages" /\ kind = "think" => p.blocks
Announces(w, p, q, c) == w = "messages" /\ q.blocks => p.blocks \/ (c.native = "flag" /\ c.choice # None)

\* An event that is not an error and ends nothing adds to the document what its chunk brings.
Gives(w, p, y, d, g, m) ==
    /\ y.chunks = <<>> => Gains(d, g, "none", {}) /\ (y.p.blocks => p.blocks)
    /\ y.chunks # <<>> =>
          /\ Announces(w, p, y.p, y.chunks[1])
          /\ \E kind, x : /\ Carries(w, y.chunks[1], kind, x) /\ x \in {0, m} /\ Announced(w, p, kind)
                          /\ Gains(d, g, kind, PieceOf(kind, x))

LEMMA GivesOne ==
    ASSUME NEW w, NEW p, NEW q, NEW c, NEW d, NEW g, NEW m, NEW kind, NEW x, x \in {0, m},
           Carries(w, c, kind, x), Gains(d, g, kind, PieceOf(kind, x)), Announced(w, p, kind), Announces(w, p, q, c)
    PROVE  Gives(w, p, Yields(q, <<c>>), d, g, m)
BY YieldsOne DEF Gives

LEMMA GivesNothing ==
    ASSUME NEW w, NEW p, NEW q, q.blocks => p.blocks, NEW d, NEW g, NEW m, Gains(d, g, "none", {})
    PROVE  Gives(w, p, Yields(q, <<>>), d, g, m)
BY Others DEF Gives

LEMMA GathersPieces ==
    ASSUME NEW w, NEW d, NEW e, NEW m, NEW g, g = Gather(w, d, e, m)
    PROVE  /\ e.k = "text" => Gains(d, g, "text", {m})
           /\ e.k = "think" => Gains(d, g, "think", {m})
           /\ BringsArguments(w, e) => Gains(d, g, "tool", {m})
           /\ e.k \notin {"text", "think"} /\ ~BringsArguments(w, e) => \A kind : Gains(d, g, kind, {})
<1>1. /\ g.text = IF e.k = "text" THEN d.text \cup {m} ELSE d.text
      /\ g.think = IF e.k = "think" THEN d.think \cup {m} ELSE d.think
      /\ g.args = IF BringsArguments(w, e) THEN d.args \cup {m} ELSE d.args
  BY DEF Gather
<1>2. \A S : S \cup {} = S
  OBVIOUS
<1>3. e.k \in {"text", "think"} => ~BringsArguments(w, e)
  BY DEF BringsArguments
<1> QED  BY <1>1, <1>2, <1>3 DEF Gains

LEMMA PieceIs ==
    ASSUME NEW m \in Nat \ {0}
    PROVE  /\ \A kind \in {"text", "think", "tool"} : PieceOf(kind, m) = {m}
           /\ \A x : PieceOf("none", x) = {}
           /\ \A kind : PieceOf(kind, 0) = {}
BY DEF PieceOf

\* Chunks that name no event.
LEMMA Carriers ==
    ASSUME NEW w, w # "responses", NEW m \in Nat \ {0}, NEW i \in {0, 1}
    PROVE  /\ Carries(w, [[Chunk EXCEPT !.choice = i] EXCEPT !.text = m], "text", m)
           /\ Carries(w, [[Chunk EXCEPT !.choice = i] EXCEPT !.think = m], "think", m)
           /\ \A r : Carries(w, [[Chunk EXCEPT !.choice = i] EXCEPT !.fin = r], "none", 0)
           /\ Carries(w, [Chunk EXCEPT !.text = m], "text", m)
           /\ Carries(w, [Chunk EXCEPT !.think = m], "think", m)
           /\ \A x \in {0, m} : Carries(w, [Chunk EXCEPT !.tools = Tool(i, x)], "tool", x)
           /\ \A u : Carries(w, [Note EXCEPT !.usage = u], "none", 0)
           /\ \A r : Carries(w, [Chunk EXCEPT !.fin = r], "none", 0)
           /\ \A r, u : Carries(w, [Chunk EXCEPT !.fin = r, !.usage = u], "none", 0)
           /\ Carries(w, Note, "none", 0)
<1>1. i # None /\ 0 # None /\ m # 0 /\ m \in Nat /\ 0 \in Nat /\ None \in Natives
  BY StreamsAssumption DEF Natives
<1> QED  BY <1>1 DEF Carries, Brings, Chunk, Note, PieceOf

LEMMA CarriersNative ==
    ASSUME NEW k \in {"flag", "block", "redacted"}
    PROVE  Carries("messages", [Chunk EXCEPT !.native = k], "none", 0)
BY DEF Carries, Brings, Chunk, Note, PieceOf, Natives

\* Chunks of a Responses stream.
LEMMA CarriersEvents ==
    ASSUME NEW m \in Nat \ {0}, NEW i \in {0, 1}
    PROVE  /\ Carries("responses", [[Chunk EXCEPT !.event = "text"] EXCEPT !.text = m], "text", m)
           /\ Carries("responses", [[Chunk EXCEPT !.event = "think"] EXCEPT !.think = m], "think", m)
           /\ Carries("responses", [[Chunk EXCEPT !.event = "tool"] EXCEPT !.tools = Tool(i, 0)], "tool", 0)
           /\ Carries("responses", [[Chunk EXCEPT !.event = "args"] EXCEPT !.tools = Tool(i, m)], "tool", m)
           /\ Carries("responses", [Chunk EXCEPT !.event = "item"], "none", 0)
           /\ \A r, u, t : Carries("responses", [Chunk EXCEPT !.fin = r, !.usage = u, !.terminal = t], "none", 0)
<1>1. i # None /\ 0 # None /\ m # 0 /\ m \in Nat /\ 0 \in Nat /\ None \in Natives
  BY StreamsAssumption DEF Natives
<1>2. None \notin {"text", "think", "tool", "args", "item"}
  BY StreamsAssumption
<1> QED  BY <1>1, <1>2 DEF Carries, Brings, Chunk, Note, PieceOf

LEMMA ChatGives ==
    ASSUME NEW e \in EventsOf["chat_completions"], NEW p \in Parsers, NEW m \in Nat \ {0}, NEW d, NEW g,
           g = Gather("chat_completions", d, e, m), NEW y, y = ChatParse(p, e, m), y.error = None, ~y.ends
    PROVE  Gives("chat_completions", p, y, d, g, m)
<1> DEFINE w == "chat_completions"
<1>1. "upstream_error" # None /\ "upstream_protocol_error" # None
  BY StreamsAssumption DEF UpstreamErrors
<1>2. e.k \in {"text", "think", "tool", "usage"} \/ (e.k = "fin" /\ e.r # "odd")
  BY <1>1, Others DEF ChatParse
<1>3. e.i \in {0, 1}
  BY EventIndex
<1>4. \A kind : Announced(w, p, kind)
  BY DEF Announced
<1>5. \A c : Announces(w, p, p, c)
  BY DEF Announces
<1>6. CASE e.k = "text"
  <2>1. PICK c : c = [[Chunk EXCEPT !.choice = e.i] EXCEPT !.text = m]
    OBVIOUS
  <2>y. y = Yields(p, <<c>>)
    BY <1>6, <2>1 DEF ChatParse
  <2>2. Gains(d, g, "text", PieceOf("text", m))
    BY <1>6, GathersPieces, PieceIs
  <2>c. Carries(w, c, "text", m)
    BY <1>3, <2>1, Carriers
  <2> QED  BY <1>4, <1>5, <2>2, <2>y, <2>c, GivesOne
<1>7. CASE e.k = "think"
  <2>1. PICK c : c = [[Chunk EXCEPT !.choice = e.i] EXCEPT !.think = m]
    OBVIOUS
  <2>y. y = Yields(p, <<c>>)
    BY <1>7, <2>1 DEF ChatParse
  <2>2. Gains(d, g, "think", PieceOf("think", m))
    BY <1>7, GathersPieces, PieceIs
  <2>c. Carries(w, c, "think", m)
    BY <1>3, <2>1, Carriers
  <2> QED  BY <1>4, <1>5, <2>2, <2>y, <2>c, GivesOne
<1>8. CASE e.k = "tool"
  <2>1. PICK c : c = [Chunk EXCEPT !.tools = Tool(e.i, m)]
    OBVIOUS
  <2>y. y = Yields(p, <<c>>)
    BY <1>8, <2>1 DEF ChatParse
  <2>2. Gains(d, g, "tool", PieceOf("tool", m))
    BY <1>8, GathersPieces, PieceIs DEF BringsArguments
  <2>c. Carries(w, c, "tool", m)
    BY <1>3, <2>1, Carriers
  <2> QED  BY <1>4, <1>5, <2>2, <2>y, <2>c, GivesOne
<1>9. CASE e.k \in {"usage", "fin"}
  <2>0. e.k \notin {"text", "think"} /\ ~BringsArguments(w, e)
    BY <1>9 DEF BringsArguments
  <2>1. Gains(d, g, "none", PieceOf("none", 0))
    <3>1. Gains(d, g, "none", {})
      BY <2>0, GathersPieces
    <3> QED  BY <3>1, PieceIs
  <2>2. CASE e.k = "usage"
    <3>1. PICK c : c = [Note EXCEPT !.usage = m]
      OBVIOUS
    <3>y. y = Yields(p, <<c>>)
      BY <2>2, <3>1 DEF ChatParse
    <3>c. Carries(w, c, "none", 0)
      BY <1>3, <3>1, Carriers
    <3> QED  BY <1>4, <1>5, <2>1, <3>y, <3>c, GivesOne
  <2>3. CASE e.k = "fin"
    <3>1. PICK c : c = [[Chunk EXCEPT !.choice = e.i] EXCEPT !.fin = e.r]
      OBVIOUS
    <3>y. y = Yields(p, <<c>>)
      BY <1>2, <2>3, <3>1 DEF ChatParse
    <3>c. Carries(w, c, "none", 0)
      BY <1>3, <3>1, Carriers
    <3> QED  BY <1>4, <1>5, <2>1, <3>y, <3>c, GivesOne
  <2> QED  BY <1>9, <2>2, <2>3
<1> QED  BY <1>2, <1>6, <1>7, <1>8, <1>9

LEMMA GeminiGives ==
    ASSUME NEW e \in EventsOf["gemini"], NEW p \in Parsers, NEW m \in Nat \ {0}, NEW d, NEW g,
           g = Gather("gemini", d, e, m), NEW y, y = GeminiParse(p, e, m), y.error = None, ~y.ends
    PROVE  Gives("gemini", p, y, d, g, m)
<1> DEFINE w == "gemini"
<1>1. "upstream_invalid_tool_call" # None /\ "upstream_protocol_error" # None
  BY StreamsAssumption DEF UpstreamErrors
<1>2. e.k \in {"text", "think", "call", "blocked", "usage"} \/ (e.k = "fin" /\ e.r # "MALFORMED_FUNCTION_CALL")
  BY <1>1, Others DEF GeminiParse
<1>4. \A kind : Announced(w, p, kind)
  BY DEF Announced
<1>5. \A q, c : Announces(w, p, q, c)
  BY DEF Announces
<1>6. CASE e.k = "text"
  <2>1. PICK c : c = [Chunk EXCEPT !.text = m]
    OBVIOUS
  <2>y. y = Yields(p, <<c>>)
    BY <1>6, <2>1 DEF GeminiParse
  <2>2. Gains(d, g, "text", PieceOf("text", m))
    BY <1>6, GathersPieces, PieceIs
  <2>c. Carries(w, c, "text", m)
    BY <2>1, Carriers
  <2> QED  BY <1>4, <1>5, <2>2, <2>y, <2>c, GivesOne
<1>7. CASE e.k = "think"
  <2>1. PICK c : c = [Chunk EXCEPT !.think = m]
    OBVIOUS
  <2>y. y = Yields(p, <<c>>)
    BY <1>7, <2>1 DEF GeminiParse
  <2>2. Gains(d, g, "think", PieceOf("think", m))
    BY <1>7, GathersPieces, PieceIs
  <2>c. Carries(w, c, "think", m)
    BY <2>1, Carriers
  <2> QED  BY <1>4, <1>5, <2>2, <2>y, <2>c, GivesOne
<1>8. CASE e.k = "call"
  <2>1. PICK c : c = [Chunk EXCEPT !.tools = Tool(0, m)]
    OBVIOUS
  <2>y. y = Yields([p EXCEPT !.called = TRUE], <<c>>)
    BY <1>8, <2>1 DEF GeminiParse
  <2>2. Gains(d, g, "tool", PieceOf("tool", m))
    BY <1>8, GathersPieces, PieceIs DEF BringsArguments
  <2>c. Carries(w, c, "tool", m)
    BY <2>1, Carriers
  <2> QED  BY <1>4, <1>5, <2>2, <2>y, <2>c, GivesOne
<1>9. CASE e.k \in {"usage", "fin", "blocked"}
  <2>0. e.k \notin {"text", "think"} /\ ~BringsArguments(w, e)
    BY <1>9 DEF BringsArguments
  <2>1. Gains(d, g, "none", PieceOf("none", 0))
    <3>1. Gains(d, g, "none", {})
      BY <2>0, GathersPieces
    <3> QED  BY <3>1, PieceIs
  <2>2. CASE e.k = "usage"
    <3>1. PICK c : c = [Note EXCEPT !.usage = m]
      OBVIOUS
    <3>2. y = Yields(p, <<c>>)
      BY <2>2, <3>1 DEF GeminiParse
    <3>3. Carries(w, c, "none", 0)
      BY <3>1, Carriers
    <3> QED  BY <1>4, <1>5, <2>1, <3>2, <3>3, GivesOne
  <2>3. CASE e.k = "blocked"
    <3>1. PICK c : c = [Chunk EXCEPT !.fin = "content_filter"]
      OBVIOUS
    <3>2. y = Yields(p, <<c>>)
      BY <2>3, <3>1 DEF GeminiParse
    <3>3. Carries(w, c, "none", 0)
      BY <3>1, Carriers
    <3> QED  BY <1>4, <1>5, <2>1, <3>2, <3>3, GivesOne
  <2>4. CASE e.k = "fin"
    <3>0. PICK r : r = GeminiFinish(e.r, p.called)
      OBVIOUS
    <3>1. PICK c : c = [Chunk EXCEPT !.fin = r, !.usage = m]
      OBVIOUS
    <3>2. y = Yields(p, <<c>>)
      BY <1>2, <2>4, <3>0, <3>1 DEF GeminiParse
    <3>3. Carries(w, c, "none", 0)
      BY <3>1, Carriers
    <3> QED  BY <1>4, <1>5, <2>1, <3>2, <3>3, GivesOne
  <2> QED  BY <1>9, <2>2, <2>3, <2>4
<1> QED  BY <1>2, <1>6, <1>7, <1>8, <1>9

LEMMA MessagesGives ==
    ASSUME NEW e \in EventsOf["messages"], NEW p \in Parsers, NEW m \in Nat \ {0}, NEW d, NEW g,
           Legal("messages", p, d, e), g = Gather("messages", d, e, m),
           NEW y, y = MessagesParse(p, e, m), y.error = None, ~y.ends
    PROVE  Gives("messages", p, y, d, g, m)
<1> DEFINE w == "messages"
<1>1. "upstream_error" # None /\ "upstream_protocol_error" # None
  BY StreamsAssumption DEF UpstreamErrors
<1>2. e.k \in {"thinking", "think", "block", "redacted", "text", "tool", "args", "delta", "stop", "ping"}
  BY <1>1, Others DEF MessagesParse
<1>3. e.k \in {"tool", "args"} => e.i \in {0, 1}
  <2>1. \/ e \in Plain({"thinking", "think", "block", "redacted", "text", "stop", "error", "ping"})
        \/ e \in Indexed({"tool", "args"})
        \/ e \in Ending("delta", {"end_turn", "max_tokens", "tool_use", "refusal", "odd", None})
    BY DEF EventsOf
  <2> QED  BY <2>1, EventsTyped
<1>4. \A kind \in {"text", "tool", "none"} : Announced(w, p, kind)
  BY DEF Announced
<1>5. \A q, c : (q.blocks => p.blocks) => Announces(w, p, q, c)
  BY DEF Announces
<1>6. /\ \A x : [p EXCEPT !.over = x].blocks = p.blocks
      /\ \A x, z : [p EXCEPT !.pending = x, !.last = z].blocks = p.blocks
      /\ [p EXCEPT !.blocks = FALSE].blocks = FALSE
  BY DEF Parsers
<1>7. e.k \in {"thinking", "block", "redacted", "delta", "stop", "ping", "tool"} => \A kind : Gains(d, g, kind, {})
  <2>1. e.k \in {"thinking", "block", "redacted", "delta", "stop", "ping", "tool"} =>
            e.k \notin {"text", "think"} /\ ~BringsArguments(w, e)
    BY DEF BringsArguments
  <2> QED  BY <2>1, GathersPieces
<1>8. CASE e.k = "text"
  <2>1. PICK c : c = [Chunk EXCEPT !.text = m]
    OBVIOUS
  <2>2. y = Yields(p, <<c>>)
    BY <1>8, <2>1 DEF MessagesParse
  <2>3. Carries(w, c, "text", m)
    BY <2>1, Carriers
  <2>4. Gains(d, g, "text", PieceOf("text", m))
    BY <1>8, GathersPieces, PieceIs
  <2> QED  BY <1>4, <1>5, <2>2, <2>3, <2>4, GivesOne
<1>9. CASE e.k = "think"
  <2>1. PICK c : c = [Chunk EXCEPT !.think = m]
    OBVIOUS
  <2>2. y = Yields(p, <<c>>)
    BY <1>9, <2>1 DEF MessagesParse
  <2>3. Carries(w, c, "think", m)
    BY <2>1, Carriers
  <2>4. Gains(d, g, "think", PieceOf("think", m))
    BY <1>9, GathersPieces, PieceIs
  <2>5. Announced(w, p, "think")
    BY <1>9 DEF Announced, Legal
  <2> QED  BY <1>5, <2>2, <2>3, <2>4, <2>5, GivesOne
<1>10. CASE e.k \in {"tool", "args"}
  <2>0. PICK x : x = IF e.k = "tool" THEN 0 ELSE m
    OBVIOUS
  <2>1. PICK c : c = [Chunk EXCEPT !.tools = Tool(e.i, x)]
    OBVIOUS
  <2>2. y = Yields(p, <<c>>)
    <3>1. CASE e.k = "tool"
      BY <2>0, <2>1, <3>1 DEF MessagesParse
    <3>2. CASE e.k = "args"
      BY <2>0, <2>1, <3>2 DEF MessagesParse
    <3> QED  BY <1>10, <3>1, <3>2
  <2>3. Carries(w, c, "tool", x) /\ x \in {0, m}
    <3>1. \A i \in {0, 1} : \A z \in {0, m} : Carries(w, [Chunk EXCEPT !.tools = Tool(i, z)], "tool", z)
      BY Carriers
    <3> QED  BY <1>3, <1>10, <2>0, <2>1, <3>1
  <2>4. Gains(d, g, "tool", PieceOf("tool", x))
    <3>1. CASE e.k = "tool"
      BY <1>7, <2>0, <3>1, PieceIs
    <3>2. CASE e.k = "args"
      BY <2>0, <3>2, GathersPieces, PieceIs DEF BringsArguments
    <3> QED  BY <1>10, <3>1, <3>2
  <2> QED  BY <1>4, <1>5, <2>2, <2>3, <2>4, GivesOne
<1>11. CASE e.k = "delta"
  <2>1. PICK q : q = [p EXCEPT !.pending = AnthropicFinish[e.r], !.last = m]
    OBVIOUS
  <2>2. y = Yields(q, <<>>)
    BY <1>1, <1>11, <2>1, Others DEF MessagesParse, MessagesDelta
  <2>3. q.blocks = p.blocks
    BY <1>6, <2>1
  <2> QED  BY <1>7, <1>11, <2>2, <2>3, GivesNothing
<1>12. CASE e.k = "block" /\ ~p.blocks
  <2>1. PICK q : q = [p EXCEPT !.blocks = FALSE]
    OBVIOUS
  <2>2. y = Yields(q, <<>>)
    BY <1>12, <2>1 DEF MessagesParse
  <2>3. q.blocks = FALSE
    BY <1>6, <2>1
  <2> QED  BY <1>7, <1>12, <2>2, <2>3, GivesNothing
<1>13. CASE e.k \in {"thinking", "redacted", "stop", "ping"} \/ (e.k = "block" /\ p.blocks)
  <2>1. \E q, c : y = Yields(q, <<c>>) /\ Carries(w, c, "none", 0) /\ Announces(w, p, q, c)
    <3>1. CASE e.k = "thinking"
      <4>1. PICK c : c = [Chunk EXCEPT !.native = "flag"]
        OBVIOUS
      <4>2. PICK q : q = [p EXCEPT !.blocks = TRUE]
        OBVIOUS
      <4>3. y = Yields(q, <<c>>)
        BY <3>1, <4>1, <4>2 DEF MessagesParse
      <4>4. c.native = "flag" /\ c.choice # None
        BY <4>1, StreamsAssumption DEF Chunk, Note
      <4>5. Announces(w, p, q, c)
        BY <4>4 DEF Announces
      <4> QED  BY <4>1, <4>3, <4>5, CarriersNative
    <3>2. CASE e.k = "block" /\ p.blocks
      <4>1. PICK c : c = [Chunk EXCEPT !.native = "block"]
        OBVIOUS
      <4>2. PICK q : q = [p EXCEPT !.blocks = FALSE]
        OBVIOUS
      <4>3. y = Yields(q, <<c>>)
        BY <3>2, <4>1, <4>2 DEF MessagesParse
      <4> QED  BY <1>5, <3>2, <4>1, <4>3, CarriersNative
    <3>3. CASE e.k = "redacted"
      <4>1. PICK c : c = [Chunk EXCEPT !.native = "redacted"]
        OBVIOUS
      <4>3. y = Yields(p, <<c>>)
        BY <3>3, <4>1 DEF MessagesParse
      <4> QED  BY <1>5, <4>1, <4>3, CarriersNative
    <3>4. CASE e.k = "stop"
      <4>1. PICK c : c = [Chunk EXCEPT !.fin = p.pending, !.usage = p.last]
        OBVIOUS
      <4>2. PICK q : q = [p EXCEPT !.over = TRUE]
        OBVIOUS
      <4>3. y = Yields(q, <<c>>)
        BY <1>1, <3>4, <4>1, <4>2, Others DEF MessagesParse, MessagesStop
      <4>4. q.blocks = p.blocks
        BY <1>6, <4>2
      <4>5. Carries(w, c, "none", 0)
        BY <4>1, Carriers
      <4> QED  BY <1>5, <4>3, <4>4, <4>5
    <3>5. CASE e.k = "ping"
      <4>1. y = Yields(p, <<Note>>)
        BY <3>5 DEF MessagesParse
      <4>2. Carries(w, Note, "none", 0)
        BY Carriers
      <4> QED  BY <1>5, <4>1, <4>2
    <3> QED  BY <1>13, <3>1, <3>2, <3>3, <3>4, <3>5
  <2>2. Gains(d, g, "none", PieceOf("none", 0))
    BY <1>7, <1>13, PieceIs
  <2> QED  BY <1>4, <2>1, <2>2, GivesOne
<1> QED  BY <1>2, <1>8, <1>9, <1>10, <1>11, <1>12, <1>13

LEMMA ResponsesGives ==
    ASSUME NEW e \in EventsOf["responses"], NEW p \in Parsers, NEW m \in Nat \ {0}, NEW d, NEW g,
           g = Gather("responses", d, e, m), NEW y, y = ResponsesParse(p, e, m), y.error = None, ~y.ends
    PROVE  Gives("responses", p, y, d, g, m)
<1> DEFINE w == "responses"
<1>1. "upstream_error" # None /\ "upstream_protocol_error" # None
  BY StreamsAssumption DEF UpstreamErrors
<1>2. /\ e.k \in {"created", "text", "think", "item", "failed", "done", "tool", "args", "completed", "incomplete"}
      /\ e.k \in {"tool", "args"} => e.i \in {0, 1}
  <2>1. \/ e \in Plain({"created", "text", "think", "item", "failed", "done"})
        \/ e \in Indexed({"tool", "args"})
        \/ e \in Ending("completed", {None})
        \/ e \in Ending("incomplete", {"max_output_tokens", "filter"})
    BY DEF EventsOf
  <2> QED  BY <2>1, EventsTyped
<1>3. ~p.over /\ e.k \notin {"failed", "done"}
  <2>1. p.over \in BOOLEAN
    BY DEF Parsers
  <2>2. e.k # "done"
    BY Others DEF ResponsesParse
  <2>3. ~p.over
    BY <1>1, <2>1, <2>2, Others DEF ResponsesParse
  <2> QED  BY <1>1, <2>2, <2>3, Others DEF ResponsesParse
<1>4. \A kind : Announced(w, p, kind)
  BY DEF Announced
<1>5. \A q, c : Announces(w, p, q, c)
  BY DEF Announces
<1>6. e.k \in {"created", "item", "tool", "completed", "incomplete"} => \A kind : Gains(d, g, kind, {})
  <2>1. e.k \in {"created", "item", "tool", "completed", "incomplete"} =>
            e.k \notin {"text", "think"} /\ ~BringsArguments(w, e)
    BY DEF BringsArguments
  <2> QED  BY <2>1, GathersPieces
<1>7. CASE e.k = "created"
  <2>1. y = Yields(p, <<>>)
    BY <1>3, <1>7 DEF ResponsesParse
  <2> QED  BY <1>6, <1>7, <2>1, GivesNothing
<1>8. CASE e.k = "text"
  <2>1. PICK c : c = [[Chunk EXCEPT !.event = "text"] EXCEPT !.text = m]
    OBVIOUS
  <2>2. y = Yields(p, <<c>>)
    BY <1>3, <1>8, <2>1 DEF ResponsesParse
  <2>3. Carries(w, c, "text", m)
    BY <2>1, CarriersEvents
  <2>4. Gains(d, g, "text", PieceOf("text", m))
    BY <1>8, GathersPieces, PieceIs
  <2> QED  BY <1>4, <1>5, <2>2, <2>3, <2>4, GivesOne
<1>9. CASE e.k = "think"
  <2>1. PICK c : c = [[Chunk EXCEPT !.event = "think"] EXCEPT !.think = m]
    OBVIOUS
  <2>2. y = Yields(p, <<c>>)
    BY <1>3, <1>9, <2>1 DEF ResponsesParse
  <2>3. Carries(w, c, "think", m)
    BY <2>1, CarriersEvents
  <2>4. Gains(d, g, "think", PieceOf("think", m))
    BY <1>9, GathersPieces, PieceIs
  <2> QED  BY <1>4, <1>5, <2>2, <2>3, <2>4, GivesOne
<1>10. CASE e.k = "tool"
  <2>1. PICK c : c = [[Chunk EXCEPT !.event = "tool"] EXCEPT !.tools = Tool(e.i, 0)]
    OBVIOUS
  <2>2. y = Yields([p EXCEPT !.called = TRUE], <<c>>)
    BY <1>3, <1>10, <2>1 DEF ResponsesParse
  <2>3. Carries(w, c, "tool", 0)
    BY <1>2, <1>10, <2>1, CarriersEvents
  <2>4. Gains(d, g, "tool", PieceOf("tool", 0))
    BY <1>6, <1>10, PieceIs
  <2> QED  BY <1>4, <1>5, <2>2, <2>3, <2>4, GivesOne
<1>11. CASE e.k = "args"
  <2>1. PICK c : c = [[Chunk EXCEPT !.event = "args"] EXCEPT !.tools = Tool(e.i, m)]
    OBVIOUS
  <2>2. y = Yields(p, <<c>>)
    BY <1>3, <1>11, <2>1 DEF ResponsesParse
  <2>3. Carries(w, c, "tool", m)
    BY <1>2, <1>11, <2>1, CarriersEvents
  <2>4. Gains(d, g, "tool", PieceOf("tool", m))
    BY <1>11, GathersPieces, PieceIs DEF BringsArguments
  <2> QED  BY <1>4, <1>5, <2>2, <2>3, <2>4, GivesOne
<1>12. CASE e.k \in {"item", "completed", "incomplete"}
  <2>1. Gains(d, g, "none", PieceOf("none", 0))
    BY <1>6, <1>12, PieceIs
  <2>2. CASE e.k = "item"
    <3>1. PICK c : c = [Chunk EXCEPT !.event = "item"]
      OBVIOUS
    <3>2. y = Yields(p, <<c>>)
      BY <1>3, <2>2, <3>1 DEF ResponsesParse
    <3>3. Carries(w, c, "none", 0)
      BY <3>1, CarriersEvents
    <3> QED  BY <1>4, <1>5, <2>1, <3>2, <3>3, GivesOne
  <2>3. CASE e.k \in {"completed", "incomplete"}
    <3>1. PICK r : r = ResponsesFinish(e, p.called)
      OBVIOUS
    <3>2. PICK t : t = ResponsesTerminal(e, p.called)
      OBVIOUS
    <3>3. PICK c : c = [Chunk EXCEPT !.fin = r, !.usage = m, !.terminal = t]
      OBVIOUS
    <3>4. y = Yields([p EXCEPT !.over = TRUE], <<c>>)
      BY <1>3, <2>3, <3>1, <3>2, <3>3 DEF ResponsesParse
    <3>5. Carries(w, c, "none", 0)
      BY <3>3, CarriersEvents
    <3> QED  BY <1>4, <1>5, <2>1, <3>4, <3>5, GivesOne
  <2> QED  BY <1>12, <2>2, <2>3
<1> QED  BY <1>2, <1>3, <1>7, <1>8, <1>9, <1>10, <1>11, <1>12

LEMMA ParseGives ==
    ASSUME NEW w \in WireNames, NEW e \in EventsOf[w], NEW p \in Parsers, NEW m \in Nat \ {0}, NEW d, NEW g,
           Legal(w, p, d, e), g = Gather(w, d, e, m), NEW y, y = Parse(w, p, e, m), y.error = None, ~y.ends
    PROVE  Gives(w, p, y, d, g, m)
<1>1. CASE w = "chat_completions"
  <2>1. y = ChatParse(p, e, m)
    BY <1>1 DEF Parse
  <2> QED  BY <1>1, <2>1, ChatGives
<1>2. CASE w = "messages"
  <2>1. y = MessagesParse(p, e, m)
    BY <1>2 DEF Parse
  <2> QED  BY <1>2, <2>1, MessagesGives
<1>3. CASE w = "gemini"
  <2>1. y = GeminiParse(p, e, m)
    BY <1>3 DEF Parse
  <2> QED  BY <1>3, <2>1, GeminiGives
<1>4. CASE w = "responses"
  <2>1. y = ResponsesParse(p, e, m)
    BY <1>4 DEF Parse
  <2> QED  BY <1>4, <2>1, ResponsesGives
<1> QED  BY <1>1, <1>2, <1>3, <1>4 DEF WireNames

\* To hold a reason back changes nothing else.
LEMMA HeldCarries ==
    ASSUME NEW w, NEW c, ChunkTyped(c), NEW kind, NEW x, Carries(w, c, kind, x), NEW h, h = HoldReason(c)
    PROVE  Carries(w, h, kind, x) /\ h.native = c.native /\ h.choice = c.choice /\ h.usage = c.usage
<1>1. /\ h.choice = c.choice /\ h.think = c.think /\ h.text = c.text /\ h.tools = c.tools
      /\ h.native = c.native /\ h.event = c.event /\ h.usage = c.usage
  BY DEF HoldReason, ChunkTyped
<1> QED  BY <1>1 DEF Carries, Brings
-----------------------------------------------------------------------------
(* What the client has, or will have, of an open stream.                   *)

\* The view of a renderer, between two chunks, after the frames of base.
Formed(pub, w, blocks, base, v) ==
    /\ IsSeq(base) /\ DOMAIN v = Fields
    /\ pub # "chat" => Ready(base, v)
    /\ pub = "messages" =>
          /\ v.native \in BOOLEAN
          /\ v.native => w = "messages"
          /\ w = "messages" /\ blocks => v.native
    /\ pub = "responses" =>
          /\ Aside(v)
          /\ v.native => w = "responses"
          /\ w = "responses" => v.text = None /\ v.think = None /\ v.late = {} /\ Withheld(v) = {}

\* What is shown at the end of the stream, or not at all.
Waiting(pub, v) == IF pub = "responses" THEN Withheld(v) ELSE {}
Late(pub, v) == IF pub = "responses" THEN v.late ELSE {}
Thoughts(pub, w, d) == IF pub = "messages" /\ w # "messages" THEN {} ELSE d.think

\* Every piece of the document is shown, or waits.
Matches(pub, w, d, base, v) ==
    /\ Shown(base, "text") = d.text
    /\ Shown(base, "tool") \cup Shown(base, "args") \cup Waiting(pub, v) = d.args
    /\ Shown(base, "think") \cup Late(pub, v) = Thoughts(pub, w, d)
    /\ Shown(base, "think") \cap Late(pub, v) = {}

\* Between chunks the frames a view has emitted are not in the view.
LEMMA Cleared ==
    ASSUME NEW base, NEW z, Fine(base, z), NEW u, u = [z EXCEPT !.out = <<>>]
    PROVE  Ready(base \o z.out, u) /\ DOMAIN u = Fields /\ Alike(z, u, {"out"}) /\ IsSeq(z.out)
<1>1. DOMAIN z = Fields /\ IsSeq(z.out) /\ IsSeq(base)
  BY DEF Fine, Placed
<1>2. DOMAIN u = Fields /\ Alike(z, u, {"out"})
  BY <1>1 DEF Alike, Fields
<1>3. u.next = z.next /\ u.text = z.text /\ u.think = z.think /\ u.tools = z.tools
  BY <1>2 DEF Alike, Fields
<1>4. Blocks(u) = Blocks(z)
  BY <1>1, <1>2, SlotsDiffer DEF Alike
<1>5. Placed(u)
  BY <1>2, <1>3 DEF Fine, Placed
<1>6. IsSeq(base \o z.out)
  BY <1>1, Joined
<1> QED  BY <1>1, <1>2, <1>3, <1>4, <1>5, <1>6 DEF Ready, Fine

\* A chunk without a choice may be kept from a chat client.
Hides(hidden, c) == hidden => c.choice = None
Showing(hidden, z) == IF hidden THEN <<>> ELSE z.out

\* A document gains what is shown.
LEMMA ChatKept ==
    ASSUME NEW w, NEW base, NEW v, NEW d, NEW g, NEW b1, NEW b2, NEW c, NEW kind, NEW x,
           Formed("chat", w, b1, base, v), Matches("chat", w, d, base, v), Carries(w, c, kind, x),
           Gains(d, g, kind, PieceOf(kind, x)), NEW z, z = ChatChunk(v, c),
           NEW hidden \in BOOLEAN, Hides(hidden, c), NEW out, out = Showing(hidden, z),
           NEW u, u = [z EXCEPT !.out = <<>>]
    PROVE  IsSeq(out) /\ Formed("chat", w, b2, base \o out, u) /\ Matches("chat", w, g, base \o out, u)
<1>0. \A S : S \cup {} = S
  OBVIOUS
<1>h. (hidden => c.choice = None) /\ out = IF hidden THEN <<>> ELSE z.out
  BY DEF Hides, Showing
<1> DEFINE type == IF c.tools # <<>> THEN "tool" ELSE IF c.text # 0 THEN "text"
                   ELSE IF c.think # 0 THEN "think" ELSE IF c.usage # 0 THEN "usage" ELSE "empty"
           f == Frame("delta", c.choice, type, PiecesOf(c))
           P == PieceOf(kind, x)
<1>1. IsSeq(base) /\ DOMAIN v = Fields
  BY DEF Formed
<1>2. DOMAIN Noting(v, c) = Fields /\ Noting(v, c).out = <<>>
  BY <1>1 DEF Noting, Fields
<1>3. z = Emit(Noting(v, c), f)
  BY DEF ChatChunk
<1>4. f.at = "delta" /\ f.type = type /\ f.pieces = P
  BY PiecesBrought DEF Frame, Carries
<1>5. P # {} => type = kind
  BY ToolOf DEF Carries, Brings, PieceOf
<1> HIDE DEF f, type
<1>6. DOMAIN z = Fields /\ z.out = <<f>>
  <2>1. DOMAIN z = Fields /\ z.out = Append(<<>>, f)
    BY <1>2, <1>3 DEF Emit, Fields
  <2>2. <<>> \o <<f>> = Append(<<>>, f) /\ <<>> \o <<f>> = <<f>>
    <3>1. IsSeq(<<>>)
      BY <1>1, Joined
    <3>2. <<>> \o <<f>> = Append(<<>>, f) /\ IsSeq(<<f>>)
      BY <3>1, AppendsOne
    <3> QED  BY <3>1, <3>2, Joined
  <2> QED  BY <2>1, <2>2
<1>7. DOMAIN u = Fields
  BY <1>6 DEF Fields
<1>8. IsSeq(out) /\ IsSeq(base \o out) /\ \A y : Shown(base \o out, y) = Shown(base, y) \cup (IF y = kind THEN P ELSE {})
  <2>1. CASE hidden
    <3>1. kind = "none" /\ P = {}
      BY <1>h, <2>1 DEF Carries, Brings, PieceOf
    <3>2. IsSeq(<<>>) /\ base \o <<>> = base
      BY <1>1, Joined
    <3> HIDE DEF P
    <3> QED  BY <1>0, <1>1, <1>h, <2>1, <3>1, <3>2
  <2>2. CASE ~hidden
    <3>1. out = <<f>> /\ IsSeq(out) /\ base \o out = Append(base, f)
      <4>1. IsSeq(<<f>>) /\ base \o <<f>> = Append(base, f)
        BY <1>1, AppendsOne
      <4> QED  BY <1>6, <1>h, <2>2, <4>1
    <3>2. IsSeq(base \o out)
      BY <1>1, <3>1, Joined
    <3>3. \A y : Shown(Append(base, f), y) =
                    Shown(base, y) \cup (IF f.at \in {"delta", "native"} /\ f.type = y THEN f.pieces ELSE {})
      BY <1>1, Shows1
    <3> HIDE DEF P
    <3>4. \A y : Shown(base \o out, y) = Shown(base, y) \cup (IF y = type THEN P ELSE {})
      BY <1>4, <3>1, <3>3
    <3> QED  BY <1>0, <1>5, <3>1, <3>2, <3>4
  <2> QED  BY <2>1, <2>2
<1> HIDE DEF P
<1>9. Formed("chat", w, b2, base \o out, u)
  BY <1>7, <1>8 DEF Formed
<1>10. Matches("chat", w, g, base \o out, u)
  <2>1. /\ Shown(base, "text") = d.text /\ Shown(base, "think") = d.think
        /\ Shown(base, "tool") \cup Shown(base, "args") = d.args
    BY <1>0 DEF Matches, Waiting, Late, Thoughts
  <2>2. kind \in {"text", "think", "tool", "none"}
    BY DEF Carries, Brings
  <2>3. /\ Shown(base \o out, "text") = g.text /\ Shown(base \o out, "think") = g.think
        /\ Shown(base \o out, "tool") \cup Shown(base \o out, "args") = g.args
    BY <1>0, <1>8, <2>1, <2>2 DEF Gains, P
  <2> QED  BY <2>3 DEF Matches, Waiting, Late, Thoughts
<1> QED  BY <1>8, <1>9, <1>10

LEMMA MessagesKept ==
    ASSUME NEW w, NEW base, NEW v, NEW d, NEW g, NEW p, NEW q, NEW c, NEW kind, NEW x,
           Formed("messages", w, p.blocks, base, v), Matches("messages", w, d, base, v), Carries(w, c, kind, x),
           Gains(d, g, kind, PieceOf(kind, x)), NEW z, z = MessagesChunk(v, c),
           Announced(w, p, kind), Announces(w, p, q, c), NEW u, u = [z EXCEPT !.out = <<>>]
    PROVE  IsSeq(z.out) /\ Formed("messages", w, q.blocks, base \o z.out, u) /\ Matches("messages", w, g, base \o z.out, u)
<1>0. \A S : S \cup {} = S
  OBVIOUS
<1> DEFINE hidden == kind = "think" /\ ~v.native
           P == IF hidden THEN {} ELSE PieceOf(kind, x)
<1>1. /\ IsSeq(base) /\ Ready(base, v) /\ v.native \in BOOLEAN /\ (v.native => w = "messages")
  BY DEF Formed
<1>n. w = "messages" /\ p.blocks => v.native
  BY DEF Formed
<1>k. (w = "messages" /\ kind = "think") => p.blocks
  BY DEF Announced
<1>m. (w = "messages" /\ q.blocks) => p.blocks \/ (c.native = "flag" /\ c.choice # None)
  BY DEF Announces
<1>2. Brings(c, kind, x) /\ kind \in {"text", "think", "tool", "none"}
  BY DEF Carries, Brings
<1>3. /\ Grown(base, v, z, kind, P, BlockFields) /\ z.native \in BOOLEAN /\ (v.native => z.native)
  BY <1>1, <1>2, MessagesShown
<1>4. c.native = "flag" /\ c.choice # None => z.native
  BY <1>1, <1>2, MessagesShown
<1>5. c.native = None => z.native = v.native
  BY <1>1, <1>2, MessagesShown
<1> HIDE DEF P
<1>6. Fine(base, z) /\ \A y : Shown(base \o z.out, y) = Shown(base, y) \cup (IF y = kind THEN P ELSE {})
  BY <1>3 DEF Grown
<1>7. Ready(base \o z.out, u) /\ DOMAIN u = Fields /\ Alike(z, u, {"out"}) /\ IsSeq(z.out)
  BY <1>6, Cleared
<1>8. u.native = z.native
  BY <1>7 DEF Alike, Fields
<1>9. Formed("messages", w, q.blocks, base \o z.out, u)
  <2>1. u.native => w = "messages"
    BY <1>1, <1>5, <1>8 DEF Carries
  <2>2. w = "messages" /\ q.blocks => u.native
    BY <1>m, <1>n, <1>3, <1>4, <1>8
  <2> QED  BY <1>3, <1>7, <1>8, <2>1, <2>2 DEF Formed, Ready
<1>10. Matches("messages", w, g, base \o z.out, u)
  <2>1. /\ Shown(base, "text") = d.text /\ Shown(base, "think") = Thoughts("messages", w, d)
        /\ Shown(base, "tool") \cup Shown(base, "args") = d.args
    BY <1>0 DEF Matches, Waiting, Late
  <2>2. /\ Shown(base \o z.out, "text") = g.text
        /\ Shown(base \o z.out, "tool") \cup Shown(base \o z.out, "args") = g.args
    <3>1. kind # "think" => P = PieceOf(kind, x)
      BY DEF P
    <3> QED  BY <1>0, <1>2, <1>6, <2>1, <3>1 DEF Gains
  <2>3. Shown(base \o z.out, "think") = Thoughts("messages", w, g)
    <3>1. CASE w = "messages"
      <4>1. kind = "think" => P = PieceOf(kind, x)
        BY <1>k, <1>n, <3>1 DEF P
      <4> QED  BY <1>0, <1>6, <2>1, <3>1, <4>1 DEF Thoughts, Gains
    <3>2. CASE w # "messages"
      <4>1. kind = "think" => P = {}
        BY <1>1, <3>2 DEF P
      <4> QED  BY <1>0, <1>6, <2>1, <3>2, <4>1 DEF Thoughts
    <3> QED  BY <3>1, <3>2
  <2> QED  BY <1>0, <2>2, <2>3 DEF Matches, Waiting, Late
<1> QED  BY <1>7, <1>9, <1>10

\* A chunk that brings nothing to an item is only noted.
LEMMA OnlyNoted ==
    ASSUME NEW v, NEW c, NEW x, Brings(c, "none", x), c.event = None
    PROVE  ResponsesChunk(v, c) = Noting(v, c)
<1>1. c.text = 0 /\ c.think = 0 /\ c.tools = <<>>
  BY DEF Brings
<1>2. \A y : ReasoningItem(y, c) = y /\ MessageItem(y, c) = y
  BY <1>1 DEF ReasoningItem, MessageItem
<1> QED  BY <1>1, <1>2 DEF ResponsesChunk

LEMMA ResponsesKept ==
    ASSUME NEW w, NEW base, NEW v, NEW d, NEW g, NEW b1, NEW b2, NEW c, NEW kind, NEW x, NEW m,
           Formed("responses", w, b1, base, v), Matches("responses", w, d, base, v), Carries(w, c, kind, x),
           Gains(d, g, kind, PieceOf(kind, x)), x \in {0, m}, m \notin d.think,
           NEW z, z = ResponsesChunk(v, c), NEW u, u = [z EXCEPT !.out = <<>>]
    PROVE  IsSeq(z.out) /\ Formed("responses", w, b2, base \o z.out, u) /\ Matches("responses", w, g, base \o z.out, u)
<1>0. \A S : S \cup {} = S
  OBVIOUS
<1> DEFINE P == PieceOf(kind, x)
<1>1. /\ IsSeq(base) /\ Ready(base, v) /\ Aside(v)
      /\ v.native => w = "responses"
      /\ w = "responses" => v.text = None /\ v.think = None /\ v.late = {} /\ Withheld(v) = {}
  BY DEF Formed
<1>2. Brings(c, kind, x) /\ kind \in {"text", "think", "tool", "none"} /\ (kind = "think" => P = {m} /\ x = m)
  BY DEF Carries, Brings, PieceOf
<1>3. /\ Shown(base, "text") = d.text
      /\ Shown(base, "tool") \cup Shown(base, "args") \cup Withheld(v) = d.args
      /\ Shown(base, "think") \cup v.late = d.think /\ Shown(base, "think") \cap v.late = {}
  BY DEF Matches, Waiting, Late, Thoughts
<1>4. DOMAIN v = Fields
  BY DEF Formed
\* It is enough to know what is shown, and what is put aside.
<1>5. ASSUME Fine(base, z), Aside(z),
             z.native => w = "responses",
             w = "responses" => z.text = None /\ z.think = None /\ z.late = {} /\ Withheld(z) = {},
             Shown(base \o z.out, "text") = g.text,
             Shown(base \o z.out, "tool") \cup Shown(base \o z.out, "args") \cup Withheld(z) = g.args,
             Shown(base \o z.out, "think") \cup z.late = g.think, Shown(base \o z.out, "think") \cap z.late = {}
      PROVE  IsSeq(z.out) /\ Formed("responses", w, b2, base \o z.out, u) /\ Matches("responses", w, g, base \o z.out, u)
  <2>1. Ready(base \o z.out, u) /\ DOMAIN u = Fields /\ Alike(z, u, {"out"}) /\ IsSeq(z.out)
    BY <1>5, Cleared
  <2>2. u.text = z.text /\ u.think = z.think
    BY <2>1 DEF Alike, Fields
  <2>3. {"out"} \cap AsideFields = {} /\ (~z.streamed => u.think = None)
    BY <1>5, <2>2 DEF AsideFields, Aside
  <2>4. Aside(u) /\ Withheld(u) = Withheld(z) /\ u.late = z.late /\ u.native = z.native
    <3>1. Aside(z)
      BY <1>5
    <3>2. Alike(z, u, {"out"})
      BY <2>1
    <3>3. ~z.streamed => u.think = None
      BY <2>3
    <3>4. {"out"} \cap AsideFields = {}
      BY <2>3
    <3> QED  BY <3>1, <3>2, <3>3, <3>4, AsideKept
  <2>5. Formed("responses", w, b2, base \o z.out, u)
    BY <1>5, <2>1, <2>2, <2>4 DEF Formed, Ready
  <2>6. Matches("responses", w, g, base \o z.out, u)
    BY <1>5, <2>4 DEF Matches, Waiting, Late, Thoughts
  <2> QED  BY <2>1, <2>5, <2>6
<1> HIDE DEF P
<1>6. Gains(d, g, kind, P)
  BY DEF P
<1>7. CASE kind = "none" /\ c.event = None
  <2>1. z = Noting(v, c)
    BY <1>2, <1>7, OnlyNoted
  <2>2. Grown(base, v, z, "none", {}, {"out", "usage", "fin"})
    BY <1>1, <2>1, NotesFine
  <2>3. Fine(base, z) /\ Alike(v, z, {"out", "usage", "fin"}) /\ \A y : Shown(base \o z.out, y) = Shown(base, y)
    BY <1>0, <2>2 DEF Grown
  <2>4. z.text = v.text /\ z.think = v.think
    BY <2>3 DEF Alike, Fields
  <2>5. {"out", "usage", "fin"} \cap AsideFields = {} /\ (~v.streamed => z.think = None)
    BY <1>1, <2>4 DEF AsideFields, Aside
  <2>6. Aside(z) /\ Withheld(z) = Withheld(v) /\ z.late = v.late /\ z.native = v.native
    BY <1>1, <2>3, <2>5, AsideKept
  <2>7. g.text = d.text /\ g.think = d.think /\ g.args = d.args
    BY <1>0, <1>6, <1>7 DEF Gains
  <2> QED  BY <1>1, <1>3, <1>5, <2>3, <2>4, <2>6, <2>7
<1>8. CASE kind # "none" /\ c.event = None
  <2>1. w # "responses" /\ v.native = FALSE
    BY <1>1, <1>8 DEF Carries, Aside
  <2>2. PICK Q : Grown(base, v, z, kind, Q, ItemFields) /\ SetsAside(v, z, kind, x, Q)
    BY <1>1, <1>2, <1>8, <2>1, ResponsesShown
  <2>3. Fine(base, z) /\ \A y : Shown(base \o z.out, y) = Shown(base, y) \cup (IF y = kind THEN Q ELSE {})
    BY <2>2 DEF Grown
  <2>4. Aside(z) /\ z.native = v.native
    BY <2>2 DEF SetsAside
  <2>5. CASE kind = "text"
    <3>1. Q = P /\ Withheld(z) = Withheld(v) /\ z.late = v.late
      BY <1>0, <1>2, <2>2, <2>5 DEF SetsAside, P, PieceOf, Brings
    <3>2. g.text = d.text \cup P /\ g.think = d.think /\ g.args = d.args
      BY <1>0, <1>6, <2>5 DEF Gains
    <3> QED  BY <1>0, <1>3, <1>5, <2>1, <2>3, <2>4, <2>5, <3>1, <3>2
  <2>6. CASE kind = "tool"
    <3>1. Q = {} /\ Withheld(z) = Withheld(v) \cup P /\ z.late = v.late
      BY <1>0, <1>2, <2>2, <2>6 DEF SetsAside, P
    <3>2. g.text = d.text /\ g.think = d.think /\ g.args = d.args \cup P
      BY <1>0, <1>6, <2>6 DEF Gains
    <3>3. \A y : Shown(base \o z.out, y) = Shown(base, y)
      BY <1>0, <2>3, <3>1
    <3>4. Shown(base \o z.out, "tool") \cup Shown(base \o z.out, "args") \cup Withheld(z) = g.args
      BY <1>3, <3>1, <3>2, <3>3
    <3> QED  BY <1>3, <1>5, <2>1, <2>3, <2>4, <3>1, <3>2, <3>3, <3>4
  <2>7. CASE kind = "think"
    <3>1. /\ Withheld(z) = Withheld(v) /\ P = {m} /\ m \notin d.think
          /\ (Q = {m} /\ z.late = v.late) \/ (Q = {} /\ z.late = v.late \cup {m})
      BY <1>0, <1>2, <2>2, <2>7 DEF SetsAside
    <3>2. g.text = d.text /\ g.think = d.think \cup {m} /\ g.args = d.args
      BY <1>0, <1>6, <2>7, <3>1 DEF Gains
    <3>3. /\ Shown(base \o z.out, "think") = Shown(base, "think") \cup Q
          /\ Shown(base \o z.out, "text") = Shown(base, "text")
          /\ Shown(base \o z.out, "tool") = Shown(base, "tool")
          /\ Shown(base \o z.out, "args") = Shown(base, "args")
      BY <1>0, <2>3, <2>7
    <3>4. /\ Shown(base \o z.out, "think") \cup z.late = g.think
          /\ Shown(base \o z.out, "think") \cap z.late = {}
      BY <1>3, <3>1, <3>2, <3>3
    <3> QED  BY <1>3, <1>5, <2>1, <2>3, <2>4, <3>1, <3>2, <3>3, <3>4
  <2> QED  BY <1>2, <1>8, <2>5, <2>6, <2>7
<1>9. CASE c.event # None
  <2>1. c.choice # None /\ w = "responses"
    BY <1>9 DEF Carries
  <2>2. /\ Grown(base, v, z, c.event, P, {"out", "native", "usage", "fin"})
        /\ Aside(z) /\ Withheld(z) = Withheld(v) /\ z.late = v.late
    BY <1>1, <1>2, <1>9, <2>1, NativesShown DEF P
  <2>3. Fine(base, z) /\ \A y : Shown(base \o z.out, y) = Shown(base, y) \cup (IF y = c.event THEN P ELSE {})
    BY <2>2 DEF Grown
  <2>4. z.text = v.text /\ z.think = v.think
    BY <2>2 DEF Grown, Alike, Fields
  <2>5. P # {} => c.event = IF kind = "tool" THEN "args" ELSE kind
    BY <1>9 DEF Carries, P
  <2>6. v.text = None /\ v.think = None /\ v.late = {} /\ Withheld(v) = {}
    BY <1>1, <2>1
  <2>7. CASE P = {}
    <3>1. g.text = d.text /\ g.think = d.think /\ g.args = d.args
      BY <1>0, <1>6, <2>7 DEF Gains
    <3>2. \A y : Shown(base \o z.out, y) = Shown(base, y)
      BY <1>0, <2>3, <2>7
    <3> QED  BY <1>3, <1>5, <2>1, <2>2, <2>3, <2>4, <2>6, <3>1, <3>2
  <2>8. CASE P # {}
    <3>1. kind # "none"
      BY <2>8 DEF P, PieceOf
    <3>2. /\ Shown(base \o z.out, "text") = g.text
          /\ Shown(base \o z.out, "tool") \cup Shown(base \o z.out, "args") = g.args
          /\ Shown(base \o z.out, "think") = g.think
      <4>1. /\ Shown(base, "text") = d.text /\ Shown(base, "think") = d.think
            /\ Shown(base, "tool") \cup Shown(base, "args") = d.args
        BY <1>0, <1>3, <2>6
      <4>2. CASE kind = "text"
        BY <1>0, <1>6, <2>3, <2>5, <2>8, <4>1, <4>2 DEF Gains
      <4>3. CASE kind = "think"
        <5>1. c.event = "think"
          BY <2>5, <2>8, <4>3
        <5>2. g.text = d.text /\ g.args = d.args /\ g.think = d.think \cup P
          BY <1>0, <1>6, <4>3 DEF Gains
        <5>3. /\ Shown(base \o z.out, "text") = Shown(base, "text") /\ Shown(base \o z.out, "tool") = Shown(base, "tool")
              /\ Shown(base \o z.out, "args") = Shown(base, "args")
              /\ Shown(base \o z.out, "think") = Shown(base, "think") \cup P
          BY <1>0, <2>3, <5>1
        <5> QED  BY <4>1, <5>2, <5>3
      <4>4. CASE kind = "tool"
        <5>1. c.event = "args"
          BY <2>5, <2>8, <4>4
        <5>2. g.text = d.text /\ g.args = d.args \cup P /\ g.think = d.think
          BY <1>0, <1>6, <4>4 DEF Gains
        <5>3. /\ Shown(base \o z.out, "text") = Shown(base, "text") /\ Shown(base \o z.out, "tool") = Shown(base, "tool")
              /\ Shown(base \o z.out, "args") = Shown(base, "args") \cup P
              /\ Shown(base \o z.out, "think") = Shown(base, "think")
          BY <1>0, <2>3, <5>1
        <5> QED  BY <4>1, <5>2, <5>3
      <4> QED  BY <1>2, <3>1, <4>2, <4>3, <4>4
    <3>3. /\ Shown(base \o z.out, "tool") \cup Shown(base \o z.out, "args") \cup Withheld(z) = g.args
          /\ Shown(base \o z.out, "think") \cup z.late = g.think
          /\ Shown(base \o z.out, "think") \cap z.late = {}
      BY <1>0, <2>2, <2>6, <3>2
    <3> QED  BY <1>5, <2>1, <2>2, <2>3, <2>4, <2>6, <3>2, <3>3
  <2> QED  BY <2>7, <2>8
<1> QED  BY <1>7, <1>8, <1>9

\* Every piece of the document is shown, and no block is left open.
Missing(pub, u) == IF pub = "responses" /\ u.streamed THEN u.late ELSE {}
Done(pub, w, d, s, u) ==
    /\ IsSeq(s)
    /\ pub # "chat" => \E k : Account(s, k, {})
    /\ Shown(s, "text") = d.text
    /\ Shown(s, "tool") \cup Shown(s, "args") = d.args
    /\ Shown(s, "think") = Thoughts(pub, w, d) \ Missing(pub, u)

LEMMA ChatDone ==
    ASSUME NEW w, NEW base, NEW v, NEW d, NEW b, NEW c, NEW f, f.at = "end",
           Formed("chat", w, b, base, v), Matches("chat", w, d, base, v),
           NEW z, z = Emit(Noting(v, c), f), NEW u, u = [z EXCEPT !.out = <<>>]
    PROVE  IsSeq(z.out) /\ Done("chat", w, d, base \o z.out, u)
<1>0. \A S : S \cup {} = S /\ S \ {} = S
  OBVIOUS
<1>1. IsSeq(base) /\ DOMAIN v = Fields
  BY DEF Formed
<1>2. PICK x : x = Noting(v, c)
  OBVIOUS
<1>3. DOMAIN x = Fields /\ x.out = <<>>
  BY <1>1, <1>2 DEF Noting, Fields
<1>4. IsSeq(<<>>) /\ base \o <<>> = base
  BY <1>1, Joined
<1>5. z = Emit(x, f) /\ IsSeq(x.out) /\ base \o x.out = base
  BY <1>2, <1>3, <1>4
<1>6. IsSeq(z.out) /\ \A y : Shown(base \o z.out, y) = Shown(base \o x.out, y)
  <2>1. IsSeq(base) /\ DOMAIN x = Fields /\ IsSeq(x.out) /\ z = Emit(x, f)
    BY <1>1, <1>3, <1>5
  <2>2. /\ DOMAIN z = Fields /\ IsSeq(z.out) /\ Alike(x, z, {"out"})
        /\ \A y : Shown(base \o z.out, y) = Shown(base \o x.out, y)
        /\ \A next, live : Account(base \o x.out, next, live) => Account(base \o z.out, next, live)
    BY <2>1, EndEmitted
  <2> QED  BY <2>2
<1>7. IsSeq(base \o z.out)
  BY <1>1, <1>6, Joined
<1> QED  BY <1>0, <1>5, <1>6, <1>7 DEF Done, Matches, Waiting, Late, Thoughts, Missing

LEMMA MessagesDone ==
    ASSUME NEW w, NEW base, NEW v, NEW d, NEW b, NEW c,
           Formed("messages", w, b, base, v), Matches("messages", w, d, base, v),
           NEW z, z = MessagesEnd(Noting(v, c)), NEW u, u = [z EXCEPT !.out = <<>>]
    PROVE  IsSeq(z.out) /\ Done("messages", w, d, base \o z.out, u)
<1>0. \A S : S \cup {} = S /\ S \ {} = S
  OBVIOUS
<1>1. IsSeq(base) /\ Ready(base, v)
  BY DEF Formed
<1>2. PICK x : x = Noting(v, c)
  OBVIOUS
<1>3. Grown(base, v, x, "none", {}, {"out", "usage", "fin"})
  BY <1>1, <1>2, NotesFine
<1>4. Fine(base, x) /\ \A y : Shown(base \o x.out, y) = Shown(base, y)
  BY <1>0, <1>3 DEF Grown
<1>5. z = MessagesEnd(x)
  BY <1>2
<1>6. IsSeq(z.out) /\ AllShut(base \o x.out, base \o z.out)
  BY <1>4, <1>5, MessagesEnds
<1>7. IsSeq(base \o z.out)
  BY <1>1, <1>6, Joined
<1>8. (\E k : Account(base \o z.out, k, {})) /\ \A y : Shown(base \o z.out, y) = Shown(base, y)
  BY <1>4, <1>6 DEF AllShut
<1> QED  BY <1>0, <1>6, <1>7, <1>8 DEF Done, Matches, Waiting, Late, Missing

LEMMA ResponsesDone ==
    ASSUME NEW w, NEW base, NEW v, NEW d, NEW b, NEW c,
           Formed("responses", w, b, base, v), Matches("responses", w, d, base, v),
           NEW z, z = ResponsesEnd(Noting(v, c)), NEW u, u = [z EXCEPT !.out = <<>>]
    PROVE  IsSeq(z.out) /\ Done("responses", w, d, base \o z.out, u)
<1>0. \A S : S \cup {} = S /\ S \ {} = S
  OBVIOUS
<1>1. IsSeq(base) /\ Ready(base, v) /\ Aside(v)
  BY DEF Formed
<1>2. PICK x : x = Noting(v, c)
  OBVIOUS
<1>3. Grown(base, v, x, "none", {}, {"out", "usage", "fin"})
  BY <1>1, <1>2, NotesFine
<1>4. Fine(base, x) /\ Alike(v, x, {"out", "usage", "fin"}) /\ \A y : Shown(base \o x.out, y) = Shown(base, y)
  BY <1>0, <1>3 DEF Grown
<1>5. z = ResponsesEnd(x)
  BY <1>2
<1>6. x.text = v.text /\ x.think = v.think
  BY <1>4 DEF Alike, Fields
<1>7. Aside(x) /\ Withheld(x) = Withheld(v) /\ x.late = v.late /\ x.streamed = v.streamed /\ x.native = v.native
  <2>1. Alike(v, x, {"out", "usage", "fin"})
    BY <1>4
  <2>2. {"out", "usage", "fin"} \cap AsideFields = {}
    BY DEF AsideFields
  <2>3. ~v.streamed => x.think = None
    BY <1>1, <1>6 DEF Aside
  <2> QED  BY <1>1, <2>1, <2>2, <2>3, AsideKept
<1>8. /\ Shown(base, "text") = d.text
      /\ Shown(base, "tool") \cup Shown(base, "args") \cup Withheld(v) = d.args
      /\ Shown(base, "think") \cup v.late = d.think /\ Shown(base, "think") \cap v.late = {}
  BY DEF Matches, Waiting, Late, Thoughts
<1>9. IsSeq(z.out) => IsSeq(base \o z.out)
  BY <1>1, Joined
<1>10. ASSUME IsSeq(z.out), NEW k, Account(base \o z.out, k, {}), u.late = v.late, u.streamed = v.streamed,
              Shown(base \o z.out, "text") = Shown(base, "text"),
              Shown(base \o z.out, "tool") \cup Shown(base \o z.out, "args") = d.args,
              Shown(base \o z.out, "think") = Shown(base, "think") \cup (IF v.streamed THEN {} ELSE v.late)
       PROVE  IsSeq(z.out) /\ Done("responses", w, d, base \o z.out, u)
  <2>1. Shown(base \o z.out, "think") = d.think \ (IF v.streamed THEN v.late ELSE {})
    BY <1>8, <1>10
  <2>2. Thoughts("responses", w, d) = d.think /\ Missing("responses", u) = IF v.streamed THEN v.late ELSE {}
    BY <1>10 DEF Thoughts, Missing
  <2> QED  BY <1>8, <1>9, <1>10, <2>1, <2>2 DEF Done
<1>d. u.late = z.late /\ u.streamed = z.streamed
  OBVIOUS
<1>11. CASE v.native = TRUE
  <2>1. v.text = None /\ v.think = None /\ v.late = {} /\ Withheld(v) = {}
    BY <1>11 DEF Formed
  <2>2. x.native = TRUE /\ x.text = None /\ x.think = None
    BY <1>6, <1>7, <1>11, <2>1
  <2>3. /\ IsSeq(z.out) /\ AllShut(base \o x.out, base \o z.out)
        /\ z.late = x.late /\ z.streamed = x.streamed
    BY <1>4, <1>5, <1>7, <2>2, NativeEnds
  <2>4. PICK k : Account(base \o z.out, k, {})
    BY <2>3 DEF AllShut
  <2>5. \A y : Shown(base \o z.out, y) = Shown(base, y)
    BY <1>4, <2>3 DEF AllShut
  <2>6. Shown(base \o z.out, "tool") \cup Shown(base \o z.out, "args") = d.args
    BY <1>0, <1>8, <2>1, <2>5
  <2>7. Shown(base \o z.out, "think") = Shown(base, "think") \cup (IF v.streamed THEN {} ELSE v.late)
    BY <1>0, <2>1, <2>5
  <2> QED  BY <1>d, <1>7, <1>10, <2>3, <2>4, <2>5, <2>6, <2>7
<1>12. CASE v.native = FALSE
  <2>3. EndsWell(base, x, z)
    BY <1>4, <1>5, <1>7, <1>12, ResponsesEnds
  <2>4. PICK k : Account(base \o z.out, k, {})
    BY <2>3 DEF EndsWell
  <2>5. Shown(base \o z.out, "tool") \cup Shown(base \o z.out, "args") = d.args
    BY <1>4, <1>7, <1>8, <2>3 DEF EndsWell
  <2>6. Shown(base \o z.out, "think") = Shown(base, "think") \cup (IF v.streamed THEN {} ELSE v.late)
    BY <1>4, <1>7, <2>3 DEF EndsWell, Trailed
  <2>7. Shown(base \o z.out, "text") = Shown(base, "text")
    BY <1>4, <2>3 DEF EndsWell
  <2>8. IsSeq(z.out) /\ u.late = v.late /\ u.streamed = v.streamed
    BY <1>d, <1>7, <2>3 DEF EndsWell
  <2> QED  BY <1>10, <2>4, <2>5, <2>6, <2>7, <2>8
<1> QED  BY <1>1, <1>11, <1>12 DEF Aside

\* The last frames complete the document.
LEMMA EndDone ==
    ASSUME NEW pub \in {"chat", "messages", "responses"}, NEW w, NEW base, NEW v, NEW d, NEW b, NEW ends,
           Formed(pub, w, b, base, v), Matches(pub, w, d, base, v),
           NEW z, z = RenderEnd(pub, v, ends), NEW u, u = [z EXCEPT !.out = <<>>]
    PROVE  IsSeq(z.out) /\ Done(pub, w, d, base \o z.out, u)
<1>1. PICK first : first = IF 0 \in DOMAIN ends THEN ends[0] ELSE ends[1]
  OBVIOUS
<1>2. PICK c : c = [Chunk EXCEPT !.fin = first]
  OBVIOUS
<1>3. PICK f : f = Frame("end", 0, first, {})
  OBVIOUS
<1>4. f.at = "end"
  BY <1>3 DEF Frame
<1>5. CASE pub = "chat"
  <2>1. z = Emit(Noting(v, c), f)
    BY <1>1, <1>2, <1>3, <1>5 DEF RenderEnd
  <2> QED  BY <1>4, <1>5, <2>1, ChatDone
<1>6. CASE pub = "messages"
  <2>1. z = MessagesEnd(Noting(v, c))
    BY <1>1, <1>2, <1>6 DEF RenderEnd
  <2> QED  BY <1>6, <2>1, MessagesDone
<1>7. CASE pub = "responses"
  <2>1. z = ResponsesEnd(Noting(v, c))
    BY <1>1, <1>2, <1>7 DEF RenderEnd
  <2> QED  BY <1>7, <2>1, ResponsesDone
<1> QED  BY <1>5, <1>6, <1>7
-----------------------------------------------------------------------------
(* What the client has, and will have, while the endpoint streams.         *)

\* The frames a batch adds to those delivered, and all there are so far.
Shows(b) == IF b.frames = <<Heartbeat>> THEN <<>> ELSE b.frames
Whole == (sent \o Shows(writing)) \o ready.frames
Flowing == stage \in {"opening", "streaming"} /\ ~gone

Accounted(pub, s) == pub # "chat" => \E k, live : Account(s, k, live)

Ongoing(pub, w, src, blocks, d, s, v) ==
    /\ IsSeq(s) /\ Accounted(pub, s)
    /\ src = "open" => Formed(pub, w, blocks, s, v) /\ Matches(pub, w, d, s, v)
    /\ src = "ended" => Done(pub, w, d, s, v)

FramesInv ==
    /\ IsSeq(sent) /\ Accounted(public, sent) /\ doc.think \subseteq 1..n
    /\ Where(sent, "end") # {} => Done(public, wire, doc, sent, view)
    /\ Flowing => Ongoing(public, wire, source, parser.blocks, doc, Whole, view)

\* A chunk shows what its event adds to the document.
LEMMA ChunkKept ==
    ASSUME NEW pub \in {"chat", "messages", "responses"}, NEW w, NEW base, NEW v, NEW d, NEW g, NEW p, NEW q, NEW m,
           Formed(pub, w, p.blocks, base, v), Matches(pub, w, d, base, v), m \notin d.think,
           NEW c, ChunkTyped(c), NEW kind, NEW x, x \in {0, m}, Carries(w, c, kind, x),
           Gains(d, g, kind, PieceOf(kind, x)),
           Announced(w, p, kind), Announces(w, p, q, c),
           NEW z, z = Render(pub, v, HoldReason(c)),
           NEW hidden \in BOOLEAN, hidden => pub = "chat" /\ c.choice = None,
           NEW out, out = Showing(hidden, z),
           NEW u, u = [z EXCEPT !.out = <<>>]
    PROVE  IsSeq(out) /\ Formed(pub, w, q.blocks, base \o out, u) /\ Matches(pub, w, g, base \o out, u)
<1>1. PICK h : h = HoldReason(c)
  OBVIOUS
<1>2. Carries(w, h, kind, x) /\ h.native = c.native /\ h.choice = c.choice
  BY <1>1, HeldCarries
<1>3. z = Render(pub, v, h)
  BY <1>1
<1>4. CASE pub = "chat"
  <2>1. z = ChatChunk(v, h)
    BY <1>3, <1>4 DEF Render
  <2>2. Hides(hidden, h)
    BY <1>2 DEF Hides
  <2>3. Formed("chat", w, p.blocks, base, v) /\ Matches("chat", w, d, base, v) /\ Carries(w, h, kind, x)
    BY <1>2, <1>4
  <2>4. IsSeq(out) /\ Formed("chat", w, q.blocks, base \o out, u) /\ Matches("chat", w, g, base \o out, u)
    BY <2>1, <2>2, <2>3, ChatKept
  <2> QED  BY <1>4, <2>4
<1>5. CASE pub = "messages"
  <2>1. z = MessagesChunk(v, h) /\ out = z.out
    BY <1>3, <1>5 DEF Render, Showing
  <2>2. Announces(w, p, q, h)
    BY <1>2 DEF Announces
  <2>3. IsSeq(z.out) /\ Formed("messages", w, q.blocks, base \o z.out, u) /\ Matches("messages", w, g, base \o z.out, u)
    <3>1. Formed("messages", w, p.blocks, base, v) /\ Matches("messages", w, d, base, v) /\ Carries(w, h, kind, x)
      BY <1>2, <1>5
    <3> QED  BY <2>1, <2>2, <3>1, MessagesKept
  <2> QED  BY <1>5, <2>1, <2>3
<1>6. CASE pub = "responses"
  <2>1. z = ResponsesChunk(v, h) /\ out = z.out
    BY <1>3, <1>6 DEF Render, Showing
  <2>2. IsSeq(z.out) /\ Formed("responses", w, q.blocks, base \o z.out, u) /\ Matches("responses", w, g, base \o z.out, u)
    <3>1. /\ Formed("responses", w, p.blocks, base, v) /\ Matches("responses", w, d, base, v)
          /\ Carries(w, h, kind, x) /\ z = ResponsesChunk(v, h)
      BY <1>2, <1>6, <2>1
    <3> HIDE <1>1, <1>2, <1>3, <1>6, <2>1
    <3> QED  BY <3>1, ResponsesKept
  <2> QED  BY <1>6, <2>1, <2>2
<1> QED  BY <1>4, <1>5, <1>6

\* An account that ends well, and a view in good order, are accounts.
LEMMA FormedAccounted ==
    ASSUME NEW pub, NEW w, NEW b, NEW s, NEW v, Formed(pub, w, b, s, v)
    PROVE  IsSeq(s) /\ Accounted(pub, s)
BY DEF Formed, Ready, Accounted

LEMMA DoneAccounted ==
    ASSUME NEW pub, NEW w, NEW d, NEW s, NEW v, Done(pub, w, d, s, v)
    PROVE  IsSeq(s) /\ Accounted(pub, s)
BY DEF Done, Accounted

\* A document that gains nothing is matched as it was.
LEMMA SilentKept ==
    ASSUME NEW pub, NEW w, NEW b1, NEW b2, b2 => b1, NEW base, NEW v, NEW d, NEW g, Gains(d, g, "none", {}),
           Formed(pub, w, b1, base, v), Matches(pub, w, d, base, v)
    PROVE  Formed(pub, w, b2, base, v) /\ Matches(pub, w, g, base, v)
<1>0. \A S : S \cup {} = S
  OBVIOUS
<1>1. g.text = d.text /\ g.think = d.think /\ g.args = d.args
  BY <1>0 DEF Gains
<1>2. Formed(pub, w, b2, base, v)
  BY DEF Formed
<1>3. Matches(pub, w, g, base, v)
  BY <1>1 DEF Matches, Thoughts
<1> QED  BY <1>2, <1>3

\* A document that ends gains nothing.
LEMMA EndGains ==
    ASSUME NEW w, NEW d, NEW e, e.k = "done", NEW k, NEW g, g = Gather(w, d, e, k)
    PROVE  g.text = d.text /\ g.think = d.think /\ g.args = d.args
BY DEF Gather, BringsArguments

LEMMA GatherThinks ==
    ASSUME NEW w, NEW d, NEW e, NEW k \in Nat, d.think \subseteq 1..k, NEW g, g = Gather(w, d, e, k + 1)
    PROVE  g.think \subseteq 1..(k + 1) /\ k + 1 \notin d.think
<1>1. g.think \subseteq d.think \cup {k + 1}
  BY DEF Gather
<1> QED  BY <1>1

\* A step of the reader delivers nothing.
Stays == /\ source = "open" /\ ~Closed /\ UNCHANGED <<request, writing, sent, stage, gone>>
         /\ doc'.think \subseteq 1..n'

LEMMA NoEndYet ==
    ASSUME Inv, source = "open", ~Closed
    PROVE  Where(sent, "end") = {} /\ BatchTyped(ready) /\ IsSeq(ready.frames)
<1>1. Of(sent, Body)
  BY DEF Inv, SentInOrder
<1>2. Where(sent, "end") = {}
  BY <1>1, SaidNothing DEF Where
<1>3. BatchTyped(ready)
  BY DEF Inv, Typed, ReaderTyped
<1>4. IsSeq(ready.frames)
  BY <1>3, OverPositioned DEF BatchTyped, Of, IsSeq
<1> QED  BY <1>2, <1>3, <1>4

LEMMA Stayed ==
    ASSUME Inv, FramesInv, Stays, Flowing => Ongoing(public, wire, source', parser'.blocks, doc', Whole', view')
    PROVE  FramesInv'
<1>1. source = "open" /\ ~Closed /\ sent' = sent /\ public' = public /\ wire' = wire /\ stage' = stage /\ gone' = gone
  BY DEF Stays, request
<1>2. Where(sent, "end") = {}
  BY <1>1, NoEndYet
<1>3. (Where(sent, "end"))' = {} /\ (Flowing' <=> Flowing)
  BY <1>1, <1>2 DEF Where, Flowing
<1>4. (IsSeq(sent))' /\ (Accounted(public, sent))'
  BY <1>1 DEF FramesInv
<1>5. (doc.think \subseteq 1..n)'
  BY DEF Stays
<1>6. ASSUME Flowing' PROVE (Ongoing(public, wire, source, parser.blocks, doc, Whole, view))'
  BY <1>1, <1>3, <1>6
<1> QED  BY <1>3, <1>4, <1>5, <1>6 DEF FramesInv

LEMMA FailsFlow ==
    ASSUME Inv, FramesInv, Stays, NEW code \in UpstreamErrors, Fail(code)
    PROVE  FramesInv'
<1>1. source' \notin {"open", "ended"} /\ ready' = ready
  BY DEF Fail, UpstreamErrors
<1>2. Whole' = Whole
  BY <1>1 DEF Stays, Whole
<1>3. ASSUME Flowing PROVE Ongoing(public, wire, source', parser'.blocks, doc', Whole', view')
  <2>1. IsSeq(Whole) /\ Accounted(public, Whole)
    BY <1>3 DEF FramesInv, Ongoing
  <2> QED  BY <1>1, <1>2, <2>1 DEF Ongoing
<1> QED  BY <1>3, Stayed

\* The frames of a chunk, or of the end, follow all there are.
LEMMA Continues ==
    ASSUME FramesInv, Inv, Flowing, Stays, NEW out, IsSeq(out), ready'.frames = ready.frames \o out
    PROVE  Whole' = Whole \o out
<1>1. IsSeq(ready.frames)
  BY NoEndYet DEF Stays
<1>2. IsSeq(Whole)
  BY DEF FramesInv, Ongoing
<1>3. PICK s : s = sent \o Shows(writing)
  OBVIOUS
<1>4. IsSeq(s)
  <2>1. writing = Beating \/ BatchTyped(writing)
    BY DEF Inv, Typed, WriterTyped
  <2>2. IsSeq(Shows(writing))
    <3>1. writing = Beating => Shows(writing) = <<>>
      BY NothingReady DEF Shows
    <3>2. IsSeq(<<>>)
      BY <1>1, Joined
    <3>3. BatchTyped(writing) => IsSeq(writing.frames)
      BY OverPositioned DEF BatchTyped, Of, IsSeq
    <3> QED  BY <2>1, <3>1, <3>2, <3>3 DEF Shows
  <2>3. IsSeq(sent)
    BY DEF FramesInv
  <2> QED  BY <1>3, <2>2, <2>3, Joined
<1>5. (s \o ready.frames) \o out = s \o (ready.frames \o out)
  <2>1. PICK r : r = ready.frames
    OBVIOUS
  <2>2. IsSeq(r)
    BY <1>1, <2>1
  <2>3. (s \o r) \o out = s \o (r \o out)
    BY <1>4, <2>2, Regrouped
  <2> QED  BY <2>1, <2>3
<1>6. Whole = s \o ready.frames /\ Whole' = s \o ready'.frames
  BY <1>3 DEF Whole, Stays
<1> QED  BY <1>5, <1>6

LEMMA CloseFlows ==
    ASSUME Inv, FramesInv, Stays, Close, doc'.text = doc.text, doc'.think = doc.think, doc'.args = doc.args
    PROVE  FramesInv'
<1>1. CASE Unfinished(obs)
  BY <1>1, FailsFlow DEF Close, UpstreamErrors
<1>2. CASE ~Unfinished(obs)
  <2>1. PICK v : v = RenderEnd(public, view, Ends(obs))
    OBVIOUS
  <2>2. /\ view' = [v EXCEPT !.out = <<>>] /\ source' = "ended"
        /\ ready' = [ready EXCEPT !.frames = ready.frames \o v.out, !.last = TRUE]
    BY <1>2, <2>1 DEF Close
  <2>3. ready'.frames = ready.frames \o v.out
    <3>1. BatchTyped(ready)
      BY NoEndYet DEF Stays
    <3> QED  BY <2>2, <3>1 DEF BatchTyped
  <2>4. public \in {"chat", "messages", "responses"}
    BY Known DEF Inv
  <2>5. ASSUME Flowing PROVE Ongoing(public, wire, source', parser'.blocks, doc', Whole', view')
    <3>1. Formed(public, wire, parser.blocks, Whole, view) /\ Matches(public, wire, doc, Whole, view)
      BY <2>5 DEF FramesInv, Ongoing, Stays
    <3>2. IsSeq(v.out) /\ Done(public, wire, doc, Whole \o v.out, view')
      <4>1. PICK u : u = view'
        OBVIOUS
      <4>2. u = [v EXCEPT !.out = <<>>]
        BY <2>2, <4>1
      <4>3. IsSeq(v.out) /\ Done(public, wire, doc, Whole \o v.out, u)
        BY <2>1, <2>4, <3>1, <4>2, EndDone
      <4> QED  BY <4>1, <4>3
    <3>3. Whole' = Whole \o v.out
      BY <2>3, <2>5, <3>2, Continues
    <3>4. Done(public, wire, doc', Whole', view')
      BY <3>2, <3>3 DEF Done, Thoughts
    <3>5. IsSeq(Whole') /\ Accounted(public, Whole')
      BY <3>4, DoneAccounted
    <3> QED  BY <2>2, <3>4, <3>5 DEF Ongoing
  <2> QED  BY <2>5, Stayed
<1> QED  BY <1>1, <1>2

LEMMA DeliverFlows ==
    ASSUME Inv, FramesInv, Stays, NEW c, ChunkTyped(c), Deliver(c), NEW m, m \notin doc.think,
           NEW kind, NEW x \in {0, m}, Carries(wire, c, kind, x), Gains(doc, doc', kind, PieceOf(kind, x)),
           Announced(wire, parser, kind), Announces(wire, parser, parser', c)
    PROVE  FramesInv'
<1>1. CASE Contradicts(obs, c)
  BY <1>1, FailsFlow DEF Deliver, UpstreamErrors
<1>2. CASE ~Contradicts(obs, c)
  <2>1. PICK v : v = Render(public, view, HoldReason(c))
    OBVIOUS
  <2>2. PICK hidden : hidden = Hidden(HoldReason(c))
    OBVIOUS
  <2>3. hidden \in BOOLEAN /\ (hidden => public = "chat" /\ c.choice = None)
    BY <2>2 DEF Hidden, HoldReason, ChunkTyped
  <2>4. PICK out : out = Showing(hidden, v)
    OBVIOUS
  <2>5. Rendered(HoldReason(c)) = [view |-> [v EXCEPT !.out = <<>>], frames |-> out]
    BY <2>1, <2>2, <2>4 DEF Rendered, Showing
  <2> DEFINE told == public = "chat" /\ c.usage # 0
  <2>7. /\ view' = [v EXCEPT !.out = <<>>] /\ source' = source
        /\ ready' = [ready EXCEPT !.frames = ready.frames \o out,
                                  !.usage = IF told /\ ready.frames \o out # <<>> THEN c.usage ELSE @]
    BY <1>2, <2>5 DEF Deliver
  <2>8. ready'.frames = ready.frames \o out
    <3>1. BatchTyped(ready)
      BY NoEndYet DEF Stays
    <3> QED  BY <2>7, <3>1 DEF BatchTyped
  <2>9. public \in {"chat", "messages", "responses"}
    BY Known DEF Inv
  <2>10. ASSUME Flowing PROVE Ongoing(public, wire, source', parser'.blocks, doc', Whole', view')
    <3>1. Formed(public, wire, parser.blocks, Whole, view) /\ Matches(public, wire, doc, Whole, view)
      BY <2>10 DEF FramesInv, Ongoing, Stays
    <3>2. IsSeq(out) /\ Formed(public, wire, parser'.blocks, Whole \o out, view')
          /\ Matches(public, wire, doc', Whole \o out, view')
      <4>1. PICK pub, w, base, z, d, g, p, q, u :
               /\ pub = public /\ w = wire /\ base = Whole /\ z = view /\ d = doc /\ g = doc'
               /\ p = parser /\ q = parser' /\ u = view'
        OBVIOUS
      <4>2. /\ Formed(pub, w, p.blocks, base, z) /\ Matches(pub, w, d, base, z) /\ m \notin d.think
            /\ Carries(w, c, kind, x) /\ Gains(d, g, kind, PieceOf(kind, x)) /\ Announced(w, p, kind)
            /\ Announces(w, p, q, c) /\ v = Render(pub, z, HoldReason(c)) /\ pub \in {"chat", "messages", "responses"}
            /\ u = [v EXCEPT !.out = <<>>]
        BY <2>1, <2>7, <2>9, <3>1, <4>1
      <4>3. hidden => pub = "chat" /\ c.choice = None
        BY <2>3, <4>1
      <4>4. IsSeq(out) /\ Formed(pub, w, q.blocks, base \o out, u) /\ Matches(pub, w, g, base \o out, u)
        <5> HIDE <4>1, <3>1, <2>10
        <5> QED  BY <2>3, <2>4, <4>2, <4>3, ChunkKept
      <4> QED  BY <4>1, <4>4
    <3>3. Whole' = Whole \o out
      BY <2>8, <2>10, <3>2, Continues
    <3>4. source' = "open"
      BY <2>7 DEF Stays
    <3>5. IsSeq(Whole') /\ Accounted(public, Whole')
      BY <3>2, <3>3, FormedAccounted
    <3> QED  BY <3>2, <3>3, <3>4, <3>5 DEF Ongoing
  <2> QED  BY <2>10, Stayed
<1> QED  BY <1>1, <1>2

LEMMA EventFlows ==
    ASSUME Inv, FramesInv, NEW e \in Alphabet[wire], Read(e), Stays
    PROVE  FramesInv'
<1>1. Typed
  BY DEF Inv
<1> DEFINE y == Parse(wire, parser, e, n + 1)
<1>2. /\ parser' = y.p /\ doc' = Gather(wire, doc, e, n + 1) /\ Legal(wire, parser, doc, e)
      /\ IF y.error # None THEN Fail(y.error)
         ELSE IF y.ends THEN Close
         ELSE IF y.chunks = <<>> THEN UNCHANGED <<obs, view, ready, seen, source>>
         ELSE Deliver(y.chunks[1])
  BY DEF Read
<1>3. n + 1 \in Counts /\ n + 1 \in Nat \ {0} /\ n \in Nat
  BY <1>1, StreamsAssumption DEF Read, Counts, Typed, ReaderTyped
<1>4. wire \in WireNames /\ e \in EventsOf[wire] /\ parser \in Parsers
  BY <1>1, StreamsAssumption DEF Typed, ReaderTyped, WriterTyped
<1>5. ParseTyped(y)
  BY <1>3, <1>4, ParsesTyped
<1>6. n + 1 \notin doc.think
  BY <1>3 DEF FramesInv
<1>7. ASSUME y.error = None, ~y.ends PROVE Gives(wire, parser, y, doc, doc', n + 1)
  <2>1. PICK w, p, d, g, m, z : w = wire /\ p = parser /\ d = doc /\ g = doc' /\ m = n + 1 /\ z = y
    OBVIOUS
  <2>2. /\ w \in WireNames /\ e \in EventsOf[w] /\ p \in Parsers /\ m \in Nat \ {0} /\ Legal(w, p, d, e)
        /\ g = Gather(w, d, e, m) /\ z = Parse(w, p, e, m) /\ z.error = None /\ ~z.ends
    BY <1>2, <1>3, <1>4, <1>7, <2>1
  <2>3. Gives(w, p, z, d, g, m)
    BY <2>2, ParseGives
  <2> QED  BY <2>1, <2>3
<1> HIDE DEF y
<1>8. CASE y.error # None
  BY <1>2, <1>5, <1>8, FailsFlow DEF ParseTyped
<1>9. CASE y.error = None /\ y.ends
  <2>1. e.k = "done"
    BY <1>1, <1>9, EndEvents DEF y
  <2>2. doc'.text = doc.text /\ doc'.think = doc.think /\ doc'.args = doc.args
    BY <1>2, <2>1, EndGains
  <2> QED  BY <1>2, <1>9, <2>2, CloseFlows
<1>10. CASE y.error = None /\ ~y.ends /\ y.chunks = <<>>
  <2>1. Gains(doc, doc', "none", {}) /\ (parser'.blocks => parser.blocks)
    BY <1>2, <1>7, <1>10 DEF Gives
  <2>2. view' = view /\ ready' = ready /\ source' = "open" /\ Whole' = Whole
    BY <1>2, <1>10 DEF Whole, Stays
  <2>3. ASSUME Flowing PROVE Ongoing(public, wire, source', parser'.blocks, doc', Whole', view')
    <3>1. Formed(public, wire, parser.blocks, Whole, view) /\ Matches(public, wire, doc, Whole, view)
      BY <2>3 DEF FramesInv, Ongoing, Stays
    <3>2. PICK b1, b2, g : b1 = parser.blocks /\ b2 = parser'.blocks /\ g = doc'
      OBVIOUS
    <3>3. Formed(public, wire, b2, Whole, view) /\ Matches(public, wire, g, Whole, view)
      BY <2>1, <3>1, <3>2, SilentKept
    <3>4. IsSeq(Whole) /\ Accounted(public, Whole)
      BY <2>3 DEF FramesInv, Ongoing
    <3> QED  BY <2>2, <3>2, <3>3, <3>4 DEF Ongoing
  <2> QED  BY <2>3, Stayed
<1>11. CASE y.error = None /\ ~y.ends /\ y.chunks # <<>>
  <2>1. PICK c : c = y.chunks[1]
    OBVIOUS
  <2>2. ChunkTyped(c) /\ Deliver(c)
    BY <1>2, <1>5, <1>11, <2>1 DEF ParseTyped
  <2>3. PICK kind, x : /\ Carries(wire, c, kind, x) /\ x \in {0, n + 1} /\ Announced(wire, parser, kind)
                       /\ Gains(doc, doc', kind, PieceOf(kind, x))
    BY <1>7, <1>11, <2>1 DEF Gives
  <2>4. Announces(wire, parser, parser', c)
    BY <1>2, <1>7, <1>11, <2>1 DEF Gives
  <2> QED  BY <1>6, <2>2, <2>3, <2>4, DeliverFlows
<1> QED  BY <1>8, <1>9, <1>10, <1>11

LEMMA ReadsFlow ==
    ASSUME Inv, FramesInv, Reads
    PROVE  FramesInv'
<1>1. /\ Typed /\ Reading /\ source = "open" /\ ~Closed /\ UNCHANGED <<request, writing, sent, stage, gone>>
  BY ReadsAdvance DEF Inv, Reading, kept, request, Closed
<1>2. doc.think \subseteq 1..n /\ n \in Nat
  BY <1>1 DEF FramesInv, Typed, ReaderTyped, Counts
<1>3. ASSUME NEW e \in Alphabet[wire], Read(e) PROVE FramesInv'
  <2>1. doc' = Gather(wire, doc, e, n + 1) /\ n' = n + 1
    BY <1>3 DEF Read
  <2>2. doc'.think \subseteq 1..n'
    <3>1. PICK g : g = doc'
      OBVIOUS
    <3>2. g.think \subseteq 1..(n + 1)
      BY <1>2, <2>1, <3>1, GatherThinks
    <3> QED  BY <2>1, <3>1, <3>2
  <2>3. Stays
    BY <1>1, <2>2 DEF Stays
  <2> QED  BY <1>3, <2>3, EventFlows
<1>4. ASSUME UNCHANGED <<doc, n>> PROVE Stays
  BY <1>1, <1>2, <1>4 DEF Stays
<1>5. ASSUME Eof PROVE FramesInv'
  <2>1. doc' = doc /\ n' = n /\ IF ParseEof(wire, parser).ends THEN Close ELSE Fail(ParseEof(wire, parser).error)
    BY <1>5 DEF Eof
  <2>2. ParseEof(wire, parser).ends \/ ParseEof(wire, parser).error \in UpstreamErrors
    BY DEF ParseEof, Throws, Returns, UpstreamErrors
  <2>3. Stays
    BY <1>4, <2>1
  <2>4. CASE ParseEof(wire, parser).ends
    BY <2>1, <2>3, <2>4, CloseFlows
  <2> QED  BY <2>1, <2>2, <2>3, <2>4, FailsFlow
<1>6. ASSUME Expire \/ TotalDeadline \/ Aborted PROVE FramesInv'
  <2>1. PICK code \in UpstreamErrors : Abandon(code)
    BY <1>6 DEF Expire, TotalDeadline, Aborted, UpstreamErrors
  <2>2. Stays /\ Fail(code)
    BY <1>4, <2>1 DEF Abandon
  <2> QED  BY <2>2, FailsFlow
<1> QED  BY <1>3, <1>5, <1>6 DEF Reads
-----------------------------------------------------------------------------
(* The writer hands out a part of what there is.                           *)

LEMMA SomeStand ==
    ASSUME NEW s, IsSeq(s), NEW k, Numbered(s, k), Paired(s)
    PROVE  \E live : Account(s, k, live)
<1> DEFINE unclosed == {j \in Where(s, "open") : \A i \in Where(s, "close") : s[i].block # s[j].block}
           live == {[block |-> s[j].block, type |-> s[j].type] : j \in unclosed}
<1>1. \A x \in live : \E j \in unclosed : x = [block |-> s[j].block, type |-> s[j].type]
  OBVIOUS
<1>2. \A j \in unclosed : [block |-> s[j].block, type |-> s[j].type] \in live
  OBVIOUS
<1> HIDE DEF live
<1>3. ASSUME NEW x \in live
      PROVE  /\ \E j \in Where(s, "open") : s[j].block = x.block /\ s[j].type = x.type
             /\ \A i \in Where(s, "close") : s[i].block # x.block
  <2>1. PICK j \in unclosed : x = [block |-> s[j].block, type |-> s[j].type]
    BY <1>1
  <2> QED  BY <2>1
<1>4. ASSUME NEW j \in Where(s, "open"), \A i \in Where(s, "close") : s[i].block # s[j].block
      PROVE  \E x \in live : x.block = s[j].block
  <2>1. PICK x : x = [block |-> s[j].block, type |-> s[j].type]
    OBVIOUS
  <2>2. x \in live /\ x.block = s[j].block
    BY <1>2, <1>4, <2>1
  <2> QED  BY <2>2
<1>5. Standing(s, live)
  BY <1>3, <1>4 DEF Standing
<1> QED  BY <1>5 DEF Account

LEMMA PrefixAccounted ==
    ASSUME NEW pub, NEW s, NEW t, IsSeq(s), IsSeq(t), Accounted(pub, s), Len(t) <= Len(s), \A j \in 1..Len(t) : t[j] = s[j]
    PROVE  Accounted(pub, t)
<1>1. CASE pub # "chat"
  <2>1. PICK k, live : Account(s, k, live)
    BY <1>1 DEF Accounted
  <2>2. Numbered(s, k) /\ Paired(s)
    BY <2>1 DEF Account
  <2>3. Len(s) \in Nat /\ Len(t) \in Nat
    BY DEF IsSeq
  <2>4. (\E i : Numbered(t, i)) /\ Paired(t)
    BY <2>2, <2>3, Prefixed
  <2>5. PICK i : Numbered(t, i)
    BY <2>4
  <2>6. \E w : Account(t, i, w)
    BY <2>4, <2>5, SomeStand
  <2> QED  BY <2>6 DEF Accounted
<1> QED  BY <1>1 DEF Accounted

\* A part of what follows.
Leads(s, t, k, u) ==
    /\ IsSeq(u) /\ Len(s) \in Nat /\ Len(t) \in Nat /\ Len(u) = Len(s) + k /\ Len(s \o t) = Len(s) + Len(t)
    /\ \A j \in 1..Len(u) : u[j] = (s \o t)[j]

LEMMA PartFollows ==
    ASSUME NEW s, NEW t, IsSeq(s), IsSeq(t), NEW k \in 0..Len(t), NEW u, u = s \o SubSeq(t, 1, k)
    PROVE  Leads(s, t, k, u)
<1>1. PICK S, T : s \in Seq(S) /\ t \in Seq(T)
  BY DEF IsSeq
<1>2. PICK R : R = S \cup T
  OBVIOUS
<1>3. s \in Seq(R) /\ t \in Seq(R)
  BY <1>1, <1>2, SeqMonotonic
<1>4. Len(t) \in Nat /\ Len(s) \in Nat /\ k \in Nat /\ k <= Len(t)
  BY <1>3
<1>5. SubSeq(t, 1, k) \in Seq(R)
  BY <1>3, <1>4
<1>6. u \in Seq(R)
  BY <1>3, <1>5
<1>7. Len(u) = Len(s) + k /\ \A j \in 1..Len(u) : u[j] = IF j <= Len(s) THEN s[j] ELSE t[j - Len(s)]
  BY <1>3, Follows
<1>8. /\ Len(s \o t) = Len(s) + Len(t)
      /\ \A j \in 1..Len(s) + Len(t) : (s \o t)[j] = IF j <= Len(s) THEN s[j] ELSE t[j - Len(s)]
  BY <1>3, ConcatProperties
<1>9. ASSUME NEW j \in 1..Len(u) PROVE u[j] = (s \o t)[j]
  <2>1. j \in 1..Len(s) + Len(t)
    BY <1>4, <1>7
  <2> QED  BY <1>7, <1>8, <2>1
<1> QED  BY <1>4, <1>6, <1>7, <1>8, <1>9 DEF Leads, IsSeq

\* What comes first in an account is accounted for.
LEMMA FirstAccounted ==
    ASSUME NEW pub, NEW s, NEW t, IsSeq(s), IsSeq(t), Accounted(pub, s \o t)
    PROVE  /\ Accounted(pub, s)
           /\ \A k \in 0..Len(t) : IsSeq(s \o SubSeq(t, 1, k)) /\ Accounted(pub, s \o SubSeq(t, 1, k))
<1>1. IsSeq(s \o t)
  BY Joined
<1>2. ASSUME NEW k \in 0..Len(t) PROVE IsSeq(s \o SubSeq(t, 1, k)) /\ Accounted(pub, s \o SubSeq(t, 1, k))
  <2>1. PICK u, r : u = s \o SubSeq(t, 1, k) /\ r = s \o t
    OBVIOUS
  <2>2. /\ IsSeq(u) /\ Len(s) \in Nat /\ Len(t) \in Nat /\ Len(u) = Len(s) + k /\ Len(s \o t) = Len(s) + Len(t)
        /\ \A j \in 1..Len(u) : u[j] = (s \o t)[j]
    <3>1. u = s \o SubSeq(t, 1, k)
      BY <2>1
    <3>2. Leads(s, t, k, u)
      BY <3>1, PartFollows
    <3> QED  BY <3>2 DEF Leads
  <2>3. IsSeq(r) /\ Accounted(pub, r) /\ Len(u) <= Len(r) /\ \A j \in 1..Len(u) : u[j] = r[j]
    BY <1>1, <2>1, <2>2
  <2>4. Accounted(pub, u)
    BY <2>2, <2>3, PrefixAccounted
  <2> QED  BY <2>1, <2>2, <2>4
<1>3. Accounted(pub, s)
  <2>1. PICK S, T : s \in Seq(S) /\ t \in Seq(T)
    BY DEF IsSeq
  <2>2. 0 \in 0..Len(t) /\ SubSeq(t, 1, 0) = <<>>
    BY <2>1
  <2>3. s \o <<>> = s
    BY Joined
  <2>4. Accounted(pub, s \o SubSeq(t, 1, 0))
    BY <1>2, <2>2
  <2> QED  BY <2>2, <2>3, <2>4
<1> QED  BY <1>2, <1>3

LEMMA Batches ==
    /\ Shows(Nothing) = <<>> /\ Shows(Beating) = <<>> /\ IsSeq(<<>>)
    /\ \A b : BatchTyped(b) => Shows(b) = b.frames /\ IsSeq(b.frames)
<1>1. IsSeq(<<>>)
  <2>1. <<>> \in Seq({})
    OBVIOUS
  <2> QED  BY <2>1 DEF IsSeq
<1>2. Nothing.frames = <<>> /\ Beating.frames = <<Heartbeat>>
  BY NothingReady
<1>3. ASSUME NEW b, BatchTyped(b) PROVE b.frames # <<Heartbeat>> /\ IsSeq(b.frames)
  <2>1. Heartbeat.at = "comment"
    BY DEF Heartbeat, Frame
  <2>2. CASE b.last
    <3>1. Over(b.frames)
      BY <1>3, <2>2 DEF BatchTyped
    <3>2. /\ b.frames[Len(b.frames)].at = "end" /\ \E S : b.frames \in Seq(S)
      BY <3>1, OverPositioned
    <3>3. Len(<<Heartbeat>>) = 1 /\ <<Heartbeat>>[1] = Heartbeat
      OBVIOUS
    <3> QED  BY <2>1, <3>2, <3>3 DEF IsSeq
  <2>3. CASE ~b.last
    <3>1. Of(b.frames, Body)
      BY <1>3, <2>3 DEF BatchTyped
    <3>2. \A j \in 1..Len(b.frames) : b.frames[j].at \in Body
      BY <3>1, Positioned
    <3>3. Len(<<Heartbeat>>) = 1 /\ <<Heartbeat>>[1] = Heartbeat /\ 1 \in 1..1
      OBVIOUS
    <3>4. b.frames # <<Heartbeat>>
      BY <2>1, <3>2, <3>3 DEF Body
    <3> QED  BY <3>1, <3>4 DEF Of, IsSeq
  <2> QED  BY <2>2, <2>3
<1> QED  BY <1>1, <1>2, <1>3 DEF Shows

\* Nothing is delivered, and all there is stays what it is.
LEMMA Undelivered ==
    ASSUME FramesInv, UNCHANGED <<request, reader, sent>>, Flowing' => Flowing /\ Whole' = Whole
    PROVE  FramesInv'
<1>1. /\ sent' = sent /\ public' = public /\ wire' = wire /\ doc' = doc /\ n' = n /\ view' = view /\ source' = source
      /\ parser' = parser
  BY DEF request, reader
<1>2. (IsSeq(sent))' /\ (Accounted(public, sent))' /\ (doc.think \subseteq 1..n)'
  BY <1>1 DEF FramesInv
<1>3. (Where(sent, "end") # {} => Done(public, wire, doc, sent, view))'
  BY <1>1 DEF FramesInv, Where
<1>4. (Flowing => Ongoing(public, wire, source, parser.blocks, doc, Whole, view))'
  BY <1>1 DEF FramesInv
<1> QED  BY <1>2, <1>3, <1>4 DEF FramesInv

LEMMA TakeFlows ==
    ASSUME Inv, FramesInv, Take \/ Beat
    PROVE  FramesInv'
<1>1. /\ UNCHANGED <<request, reader, sent, stage, gone>> /\ writing = Nothing
      /\ \/ ready' = Nothing /\ writing' = ready
         \/ ready' = ready /\ writing' = Beating
  BY DEF Take, Beat
<1>2. Flowing' => Flowing
  BY <1>1 DEF Flowing
<1>3. BatchTyped(ready) /\ Nothing.frames = <<>>
  BY NothingReady DEF Inv, Typed, ReaderTyped
<1>4. IsSeq(sent) /\ IsSeq(ready.frames) /\ Shows(ready) = ready.frames /\ Shows(Nothing) = <<>> /\ Shows(Beating) = <<>>
  BY <1>3, Batches DEF FramesInv
<1>5. sent \o <<>> = sent
  BY <1>4, Joined
<1>6. (sent \o ready.frames) \o <<>> = sent \o ready.frames
  <2>1. PICK s, r : s = sent /\ r = ready.frames
    OBVIOUS
  <2>2. IsSeq(s) /\ IsSeq(r)
    BY <1>4, <2>1
  <2>3. IsSeq(s \o r)
    BY <2>2, Joined
  <2>4. (s \o r) \o <<>> = s \o r
    BY <2>2, <2>3, Joined
  <2> QED  BY <2>1, <2>4
<1>7. Whole = sent \o ready.frames
  BY <1>1, <1>4, <1>5 DEF Whole
<1>8. Whole' = sent \o ready.frames
  <2>1. CASE ready' = Nothing /\ writing' = ready
    <3>1. Whole' = (sent \o Shows(ready)) \o Nothing.frames
      BY <1>1, <2>1 DEF Whole
    <3> QED  BY <1>3, <1>4, <1>6, <3>1
  <2>2. CASE ready' = ready /\ writing' = Beating
    <3>1. Whole' = (sent \o Shows(Beating)) \o ready.frames
      BY <1>1, <2>2 DEF Whole
    <3> QED  BY <1>4, <1>5, <3>1
  <2> QED  BY <1>1, <2>1, <2>2
<1> QED  BY <1>1, <1>2, <1>7, <1>8, Undelivered

LEMMA OthersFlow ==
    ASSUME FramesInv, Attach \/ Persist \/ Stumble \/ Cleaned \/ Last \/ ClientLeaves \/ UNCHANGED vars
    PROVE  FramesInv'
<1>1. UNCHANGED <<request, reader, sent, ready, writing>>
  BY DEF Attach, Persist, Stumble, Cleaned, Last, ClientLeaves, vars, request, reader
<1>2. Flowing' => Flowing
  BY DEF Attach, Persist, Stumble, Cleaned, Last, ClientLeaves, vars, Flowing
<1>3. Whole' = Whole
  BY <1>1 DEF Whole
<1> QED  BY <1>1, <1>2, <1>3, Undelivered

LEMMA WritesFlow ==
    ASSUME Inv, FramesInv, Writes
    PROVE  FramesInv'
<1>1. /\ UNCHANGED <<request, reader, ready, gone>> /\ writing' = Nothing
  BY DEF Writes, Written, WriteTimeout
<1>2. /\ writing # Nothing /\ stage \in {"opening", "streaming"} /\ Of(sent, Body)
      /\ BatchTyped(writing) \/ writing = Beating
  BY NothingReady DEF Writes, Written, WriteTimeout, Inv, Ordered, SentInOrder, Typed, WriterTyped, Closed
<1>3. IsSeq(sent) /\ BatchTyped(ready) /\ IsSeq(ready.frames)
  BY Batches DEF FramesInv, Inv, Typed, ReaderTyped
<1>4. IsSeq(Shows(writing)) /\ Shows(Nothing) = <<>> /\ Shows(Beating) = <<>>
  BY <1>2, Batches
<1>5. CASE gone
  <2>1. sent' = sent
    BY <1>5 DEF Writes, Written, WriteTimeout, Received
  <2>2. ~Flowing'
    BY <1>1, <1>5 DEF Flowing
  <2> QED  BY <1>1, <2>1, <2>2, Undelivered
<1>6. CASE ~gone
  <2>1. Flowing
    BY <1>2, <1>6 DEF Flowing
  <2>2. PICK s, x, r : s = sent /\ x = Shows(writing) /\ r = ready.frames
    OBVIOUS
  <2>3. IsSeq(s) /\ IsSeq(x) /\ IsSeq(r) /\ IsSeq(s \o x) /\ Whole = (s \o x) \o r
    BY <1>3, <1>4, <2>2, Joined DEF Whole
  <2>4. Accounted(public, (s \o x) \o r)
    BY <2>1, <2>3 DEF FramesInv, Ongoing
  <2>5. Accounted(public, s \o x)
    <3>1. PICK t : t = s \o x
      OBVIOUS
    <3>2. IsSeq(t) /\ Accounted(public, t \o r)
      BY <2>3, <2>4, <3>1
    <3>3. Accounted(public, t)
      BY <2>3, <3>2, FirstAccounted
    <3> QED  BY <3>1, <3>3
  <2>6. ASSUME IsSeq(sent'), Accounted(public, sent'),
               Where(sent', "end") # {} => Done(public, wire, doc, sent', view),
               Flowing' => Whole' = Whole
        PROVE  FramesInv'
    <3>1. /\ public' = public /\ wire' = wire /\ doc' = doc /\ n' = n /\ view' = view /\ source' = source
          /\ parser' = parser
      BY <1>1 DEF request, reader
    <3>2. (IsSeq(sent))' /\ (Accounted(public, sent))' /\ (doc.think \subseteq 1..n)'
      BY <2>6, <3>1 DEF FramesInv
    <3>3. (Where(sent, "end") # {} => Done(public, wire, doc, sent, view))'
      BY <2>6, <3>1 DEF Where
    <3>4. (Flowing => Ongoing(public, wire, source, parser.blocks, doc, Whole, view))'
      BY <2>1, <2>6, <3>1 DEF FramesInv
    <3> QED  BY <3>2, <3>3, <3>4 DEF FramesInv
  <2>7. CASE WriteTimeout
    <3>1. PICK k \in 0..Len(writing.frames) - 1 : sent' = Received(SubSeq(writing.frames, 1, k))
      BY <2>7 DEF WriteTimeout
    <3>2. Of(sent', Body)
      BY <1>2, <3>1, Receives
    <3>3. Where(sent', "end") = {} /\ IsSeq(sent')
      BY <3>2, SaidNothing DEF Where, Of, IsSeq
    <3>4. ~Flowing'
      BY <2>7 DEF WriteTimeout, Flowing
    <3>5. Accounted(public, s)
      BY <2>3, <2>5, FirstAccounted
    <3>6. Accounted(public, sent')
      <4>1. CASE sent' = sent
        BY <2>2, <3>5, <4>1
      <4>2. CASE sent' = sent \o SubSeq(writing.frames, 1, k)
        <5>1. CASE writing.frames = <<Heartbeat>>
          <6>1. k = 0
            BY <5>1
          <6>2. SubSeq(writing.frames, 1, k) = <<>>
            BY <5>1, <6>1
          <6>3. s \o <<>> = s
            BY <2>3, Joined
          <6> QED  BY <2>2, <3>5, <4>2, <6>2, <6>3
        <5>2. CASE writing.frames # <<Heartbeat>>
          <6>1. x = writing.frames
            BY <2>2, <5>2 DEF Shows
          <6>2. Len(x) \in Nat
            BY <2>3 DEF IsSeq
          <6>3. k \in 0..Len(x)
            BY <6>1, <6>2
          <6>4. Accounted(public, s \o SubSeq(x, 1, k))
            BY <2>3, <2>5, <6>3, FirstAccounted
          <6> QED  BY <2>2, <4>2, <6>1, <6>4
        <5> QED  BY <5>1, <5>2
      <4> QED  BY <3>1, <4>1, <4>2 DEF Received
    <3> QED  BY <2>6, <3>3, <3>4, <3>6
  <2>8. CASE Written
    <3>1. sent' = Received(writing.frames)
      BY <2>8 DEF Written
    <3>2. s \o <<>> = s
      BY <2>3, Joined
    <3>3. sent' = s \o x
      BY <1>6, <2>2, <3>1, <3>2 DEF Received, Shows
    <3>4. IsSeq(sent') /\ Accounted(public, sent')
      BY <2>3, <2>5, <3>3
    <3>5. Whole' = Whole
      <4>1. PICK t : t = sent'
        OBVIOUS
      <4>2. t \o <<>> = t
        BY <3>4, <4>1, Joined
      <4>3. Whole' = (sent' \o Shows(Nothing)) \o ready.frames
        BY <1>1 DEF Whole
      <4> QED  BY <1>4, <2>2, <2>3, <3>3, <4>1, <4>2, <4>3
    <3>6. ASSUME Where(sent', "end") # {} PROVE Done(public, wire, doc, sent', view)
      <4>1. ~Of(sent', Body)
        BY <3>6, SaidNothing DEF Where
      <4>2. writing.last
        BY <1>2, <3>1, <4>1, Receives
      <4>3. source = "ended" /\ ready = Nothing
        BY <4>2 DEF Inv, Ordered
      <4>4. Done(public, wire, doc, Whole, view)
        BY <2>1, <4>3 DEF FramesInv, Ongoing
      <4>5. r = <<>> /\ (s \o x) \o <<>> = s \o x
        <5>1. r = <<>>
          BY <2>2, <4>3, NothingReady
        <5>2. PICK t : t = s \o x
          OBVIOUS
        <5>3. t \o <<>> = t
          BY <2>3, <5>2, Joined
        <5> QED  BY <5>1, <5>2, <5>3
      <4> QED  BY <2>3, <3>3, <4>4, <4>5
    <3> QED  BY <2>6, <3>4, <3>5, <3>6
  <2> QED  BY <2>7, <2>8 DEF Writes
<1> QED  BY <1>5, <1>6

\* Frames after the end neither open a block nor show a piece.
LEMMA ApartAll ==
    ASSUME NEW s, NEW u, IsSeq(s), IsSeq(u), Len(s) \in Nat, Len(u) \in Nat, Len(s) <= Len(u),
           \A j \in 1..Len(s) : u[j] = s[j],
           \A j \in 1..Len(u) : j > Len(s) => u[j].at \in {"error", "done"}
    PROVE  /\ \A k, live : Account(s, k, live) => Account(u, k, live)
           /\ \A y : Shown(u, y) = Shown(s, y)
           /\ Where(u, "end") = Where(s, "end")
<1>1. ASSUME NEW kind \in {"open", "delta", "close", "native", "end"} PROVE Where(u, kind) = Where(s, kind)
  <2>1. ASSUME NEW j \in Where(u, kind) PROVE j \in Where(s, kind)
    <3>1. j \in 1..Len(u) /\ u[j].at = kind
      BY <2>1 DEF Where
    <3>2. j \in 1..Len(s)
      BY <3>1
    <3> QED  BY <3>1, <3>2 DEF Where
  <2>2. ASSUME NEW j \in Where(s, kind) PROVE j \in Where(u, kind)
    <3>1. j \in 1..Len(s) /\ s[j].at = kind
      BY <2>2 DEF Where
    <3>2. j \in 1..Len(u)
      BY <3>1
    <3> QED  BY <3>1, <3>2 DEF Where
  <2> QED  BY <2>1, <2>2
<1>2. \A kind : \A j \in Where(s, kind) : u[j] = s[j]
  BY DEF Where
<1>3. ASSUME NEW k, NEW live, Account(s, k, live) PROVE Account(u, k, live)
  <2>1. Numbered(u, k)
    BY <1>1, <1>2, <1>3, SameOpened DEF Account
  <2>2. Paired(u)
    BY <1>1, <1>2, <1>3 DEF Paired, Account
  <2>3. Standing(u, live)
    BY <1>1, <1>2, <1>3 DEF Standing, Account
  <2> QED  BY <2>1, <2>2, <2>3 DEF Account
<1>4. ASSUME NEW y PROVE Shown(u, y) = Shown(s, y)
  BY <1>1, <1>2 DEF Shown
<1> QED  BY <1>1, <1>3, <1>4

LEMMA SettleFlows ==
    ASSUME Inv, FramesInv, Settle
    PROVE  FramesInv'
<1>1. /\ public' = public /\ wire' = wire /\ doc' = doc /\ n' = n /\ view' = view /\ ~Flowing'
  BY DEF Settle, request, Flowing
<1>2. PICK k \in 0..Len(Farewell) : sent' = Received(SubSeq(Farewell, 1, k))
  BY DEF Settle
<1>3. IsSeq(sent)
  BY DEF FramesInv
<1>4. /\ IsSeq(sent') /\ \A i, live : Account(sent, i, live) => Account(sent', i, live)
      /\ (\A y : Shown(sent', y) = Shown(sent, y)) /\ Where(sent', "end") = Where(sent, "end")
  <2>1. CASE sent' = sent
    BY <1>3, <2>1
  <2>2. CASE sent' = sent \o SubSeq(Farewell, 1, k)
    <3>1. PICK s, t, u : s = sent /\ t = Farewell /\ u = sent'
      OBVIOUS
    <3>2. IsSeq(s) /\ IsSeq(t) /\ k \in 0..Len(t) /\ u = s \o SubSeq(t, 1, k)
      BY <1>3, <2>2, <3>1, Farewells DEF IsSeq
    <3>3. Leads(s, t, k, u)
      BY <3>2, PartFollows
    <3>4. /\ Len(s) \in Nat /\ Len(t) \in Nat /\ IsSeq(u) /\ Len(u) = Len(s) + k
          /\ \A j \in 1..Len(u) : u[j] = IF j <= Len(s) THEN s[j] ELSE t[j - Len(s)]
      <4>1. Len(u) = Len(s) + k /\ \A j \in 1..Len(u) : u[j] = IF j <= Len(s) THEN s[j] ELSE t[j - Len(s)]
        BY <3>2, Follows DEF IsSeq
      <4> QED  BY <3>3, <4>1 DEF Leads
    <3>5. \A i \in 1..Len(t) : t[i].at \in {"error", "done"}
      BY <3>1, Farewells
    <3>6. Len(u) \in Nat /\ Len(s) <= Len(u) /\ \A j \in 1..Len(s) : u[j] = s[j]
      BY <3>2, <3>4
    <3>7. ASSUME NEW j \in 1..Len(u), j > Len(s) PROVE u[j].at \in {"error", "done"}
      <4>1. j - Len(s) \in 1..Len(t) /\ ~(j <= Len(s))
        BY <3>2, <3>4, <3>7
      <4> QED  BY <3>4, <3>5, <4>1
    <3>8. /\ \A i, live : Account(s, i, live) => Account(u, i, live)
          /\ \A y : Shown(u, y) = Shown(s, y)
          /\ Where(u, "end") = Where(s, "end")
      BY <3>2, <3>4, <3>6, <3>7, ApartAll
    <3> QED  BY <3>1, <3>4, <3>8
  <2> QED  BY <1>2, <2>1, <2>2 DEF Received
<1>5. (IsSeq(sent))' /\ (doc.think \subseteq 1..n)'
  BY <1>1, <1>4 DEF FramesInv
<1>6. (Accounted(public, sent))'
  BY <1>1, <1>4 DEF FramesInv, Accounted
<1>7. ASSUME Where(sent', "end") # {} PROVE Done(public, wire, doc, sent', view)
  <2>1. Done(public, wire, doc, sent, view)
    BY <1>4, <1>7 DEF FramesInv
  <2> QED  BY <1>4, <2>1 DEF Done
<1>8. (Where(sent, "end") # {} => Done(public, wire, doc, sent, view))'
  BY <1>1, <1>7 DEF Where
<1> QED  BY <1>1, <1>5, <1>6, <1>8 DEF FramesInv
-----------------------------------------------------------------------------
(* Every stream begins well, and each step keeps it so.                    *)

LEMMA NothingShown ==
    /\ Account(<<>>, 0, {}) /\ \A y : Shown(<<>>, y) = {}
<1>1. \A kind : Where(<<>>, kind) = {}
  BY DEF Where
<1>2. IsSeq(<<>>)
  BY Batches
<1>3. Cardinality({}) = 0 /\ IsFiniteSet({})
  BY FS_EmptySet
<1>4. Numbered(<<>>, 0) /\ Paired(<<>>) /\ Standing(<<>>, {})
  BY <1>1, <1>3 DEF Numbered, Paired, Standing
<1>5. \A y : Shown(<<>>, y) = {}
  BY <1>1 DEF Shown
<1> QED  BY <1>2, <1>4, <1>5 DEF Account

LEMMA StartsWell ==
    ASSUME NEW pub \in {"chat", "messages", "responses"}, NEW w, NEW s, s = Begin(pub), NEW v, v = ViewStart,
           NEW d, d = EmptyDocument
    PROVE  IsSeq(s) /\ Formed(pub, w, FALSE, s, v) /\ Matches(pub, w, d, s, v)
<1>0. \A S : S \cup {} = S
  OBVIOUS
<1>1. Account(<<>>, 0, {}) /\ (\A y : Shown(<<>>, y) = {}) /\ IsSeq(<<>>)
  BY NothingShown, Batches
<1>2. Account(s, 0, {}) /\ (\A y : Shown(s, y) = {}) /\ IsSeq(s)
  <2>1. CASE pub = "chat"
    BY <1>1, <2>1 DEF Begin
  <2>2. CASE pub # "chat"
    <3>1. PICK f : f = Frame("begin", 0, "in_progress", {})
      OBVIOUS
    <3>2. f.at = "begin" /\ f.pieces = {}
      BY <3>1 DEF Frame
    <3>3. s = <<f>>
      BY <2>2, <3>1 DEF Begin
    <3>4. s = Append(<<>>, f)
      BY <3>3
    <3>5. Account(Append(<<>>, f), 0, {})
      BY <1>1, <3>2, Apart
    <3>6. \A y : Shown(Append(<<>>, f), y) = Shown(<<>>, y)
      <4>1. \A y : Shown(Append(<<>>, f), y) =
                      Shown(<<>>, y) \cup (IF f.at \in {"delta", "native"} /\ f.type = y THEN f.pieces ELSE {})
        BY <1>1, Shows1
      <4>2. f.at \notin {"delta", "native"}
        BY <3>2
      <4> QED  BY <1>0, <4>1, <4>2
    <3> QED  BY <1>1, <3>4, <3>5, <3>6 DEF Account
  <2> QED  BY <2>1, <2>2
<1>3. /\ DOMAIN v = Fields /\ v.next = 0 /\ v.text = None /\ v.think = None /\ v.streamed = FALSE
      /\ v.native = FALSE /\ v.late = {} /\ v.calls = <<>>
      /\ v.tools = [i \in {0, 1} |-> None] /\ v.args = [i \in {0, 1} |-> {}]
  BY DEF ViewStart, Fields
<1>4. Blocks(v) = {}
  <2>1. v["text"] = None /\ v["think"] = None /\ v.tools[0] = None /\ v.tools[1] = None
    BY <1>3
  <2> QED  BY <2>1 DEF Blocks
<1>5. Ready(s, v)
  <2>1. Placed(v)
    BY <1>3 DEF Placed, Slots
  <2> QED  BY <1>2, <1>3, <1>4, <2>1 DEF Ready
<1>6. Aside(v) /\ Withheld(v) = {}
  BY <1>3 DEF Aside, CallLists, Withheld
<1>7. Formed(pub, w, FALSE, s, v)
  BY <1>2, <1>3, <1>5, <1>6 DEF Formed
<1>8. Matches(pub, w, d, s, v)
  BY <1>0, <1>2, <1>3, <1>6 DEF Matches, Waiting, Late, Thoughts, EmptyDocument
<1> QED  BY <1>2, <1>7, <1>8

LEMMA InitFlows ==
    ASSUME Init, Inv
    PROVE  FramesInv
<1>1. /\ sent = <<>> /\ writing = Nothing /\ ready = Batch(Begin(public), FALSE) /\ source = "open" /\ n = 0
      /\ doc = EmptyDocument /\ view = ViewStart /\ parser = ParserStart /\ public \in {"chat", "messages", "responses"}
  BY Known DEF Init, Inv
<1>2. PICK s : s = Begin(public)
  OBVIOUS
<1>3. IsSeq(s) /\ Formed(public, wire, FALSE, s, view) /\ Matches(public, wire, doc, s, view)
  BY <1>1, <1>2, StartsWell
<1>4. Account(<<>>, 0, {}) /\ IsSeq(<<>>) /\ Shows(Nothing) = <<>>
  BY NothingShown, Batches
<1>5. Whole = s
  <2>1. ready.frames = s
    BY <1>1, <1>2 DEF Batch
  <2>2. <<>> \o <<>> = <<>> /\ <<>> \o s = s
    BY <1>3, <1>4, Joined
  <2> QED  BY <1>1, <1>4, <2>1, <2>2 DEF Whole
<1>6. IsSeq(sent) /\ Accounted(public, sent)
  BY <1>1, <1>4 DEF Accounted
<1>7. Where(sent, "end") = {}
  BY <1>1 DEF Where
<1>8. doc.think \subseteq 1..n
  BY <1>1 DEF EmptyDocument
<1>9. Ongoing(public, wire, source, parser.blocks, doc, Whole, view)
  <2>1. parser.blocks = FALSE
    BY <1>1 DEF ParserStart
  <2>2. Accounted(public, s)
    BY <1>3, FormedAccounted
  <2> QED  BY <1>1, <1>3, <1>5, <2>1, <2>2 DEF Ongoing
<1> QED  BY <1>6, <1>7, <1>8, <1>9 DEF FramesInv

LEMMA StepFlows == Inv /\ FramesInv /\ [Next]_vars => FramesInv'
<1> SUFFICES ASSUME Inv, FramesInv, [Next]_vars PROVE FramesInv'
  OBVIOUS
<1>1. CASE Reads
  BY <1>1, ReadsFlow
<1>2. CASE Writes
  BY <1>2, WritesFlow
<1>3. CASE Settle
  BY <1>3, SettleFlows
<1>4. CASE Take \/ Beat
  BY <1>4, TakeFlows
<1>5. CASE Attach \/ Persist \/ Stumble \/ Cleaned \/ Last \/ ClientLeaves \/ UNCHANGED vars
  BY <1>5, OthersFlow
<1> QED  BY <1>1, <1>2, <1>3, <1>4, <1>5 DEF Next, Reads, Steps

\* Blocks that are accounted for are well formed.
LEMMA WellAccounted ==
    ASSUME FramesInv
    PROVE  FramesWellFormed
<1>1. \A kind : At(kind) = Where(sent, kind)
  BY DEF At, Positions, Where
<1> SUFFICES ASSUME public # "chat" PROVE FramesWellFormed
  BY DEF FramesWellFormed
<1>2. PICK k, live : Account(sent, k, live)
  BY DEF FramesInv, Accounted
<1>3. ASSUME NEW j \in At("open")
      PROVE  /\ {i \in At("open") : sent[i].block = sent[j].block} = {j}
             /\ sent[j].block = Cardinality({i \in At("open") : i < j})
  <2>1. /\ sent[j].block = Cardinality({i \in Where(sent, "open") : i < j})
        /\ \A i \in Where(sent, "open") : sent[i].block = sent[j].block => i = j
    BY <1>1, <1>2, <1>3 DEF Account, Numbered
  <2> QED  BY <1>1, <2>1
<1>4. ASSUME NEW j \in At("delta") \cup At("close")
      PROVE  /\ \E i \in {x \in At("open") : sent[x].block = sent[j].block} : i < j /\ sent[i].type = sent[j].type
             /\ \A i \in {x \in At("close") : sent[x].block = sent[j].block} : i >= j
  BY <1>1, <1>2, <1>4 DEF Account, Paired
<1>5. ASSUME At("end") # {}, NEW j \in At("open")
      PROVE  {i \in At("close") : sent[i].block = sent[j].block} # {}
  <2>1. PICK m : Account(sent, m, {})
    BY <1>1, <1>5 DEF FramesInv, Done
  <2>2. \E i \in Where(sent, "close") : sent[i].block = sent[j].block
    BY <1>1, <1>5, <2>1 DEF Account, Standing
  <2> QED  BY <1>1, <2>2
<1> QED  BY <1>3, <1>4, <1>5 DEF FramesWellFormed

LEMMA AllShown ==
    ASSUME FramesInv, Inv
    PROVE  NothingLost
<1>1. \A kind : At(kind) = Where(sent, kind)
  BY DEF At, Positions, Where
<1>2. \A y : Told(y) = Shown(sent, y)
  BY <1>1 DEF Told, Shown
<1> SUFFICES ASSUME At("end") # {}
             PROVE  /\ Told("text") = doc.text
                    /\ Told("tool") \cup Told("args") = doc.args
                    /\ public = "chat" => Told("think") = doc.think
                    /\ public = "messages" => Told("think") = (IF wire = "messages" THEN doc.think ELSE {})
                    /\ public = "responses" => Told("think") = doc.think \ LateReasoning
  BY DEF NothingLost
<1>3. Done(public, wire, doc, sent, view)
  BY <1>1 DEF FramesInv
<1>4. /\ Told("text") = doc.text /\ Told("tool") \cup Told("args") = doc.args
      /\ Told("think") = Thoughts(public, wire, doc) \ Missing(public, view)
  BY <1>2, <1>3 DEF Done
<1>5. \A S : S \ {} = S
  OBVIOUS
<1>6. public = "chat" => Told("think") = doc.think
  BY <1>4, <1>5 DEF Thoughts, Missing
<1>7. public = "messages" => Told("think") = (IF wire = "messages" THEN doc.think ELSE {})
  BY <1>4, <1>5 DEF Thoughts, Missing
<1>8. public = "responses" => Told("think") = doc.think \ LateReasoning
  BY <1>4 DEF Thoughts, Missing, LateReasoning
<1> QED  BY <1>4, <1>6, <1>7, <1>8

\* The blocks and items of a stream open in order, are extended and closed
\* while they are open, and a client that was told the end has every piece of
\* text, of reasoning and of the tools' arguments (chatTransport.ts,
\* messagesRender.ts:516-658, responsesRender.ts:1024-1340).
THEOREM EveryPieceShown == Spec => []FramesComplete
<1>1. Init => Inv /\ FramesInv
  BY InitKeeps, InitFlows
<1>2. (Inv /\ FramesInv) /\ [Next]_vars => (Inv /\ FramesInv)'
  BY StepKeeps, StepFlows
<1>3. Inv /\ FramesInv => FramesWellFormed /\ NothingLost
  BY WellAccounted, AllShown
<1>4. Spec => [](Inv /\ FramesInv)
  BY <1>1, <1>2, PTL DEF Spec
<1>5. Spec => []TypeOK
  BY TypeCorrect
<1>6. TypeOK /\ FramesWellFormed /\ NothingLost => FramesComplete
  BY DEF FramesComplete
<1> QED  BY <1>3, <1>4, <1>5, <1>6, PTL
=============================================================================
