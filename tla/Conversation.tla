---------------------------- MODULE Conversation ----------------------------
(***************************************************************************)
(* What one conversation looks like to each provider it is sent to.  The   *)
(* client speaks one public contract (chat, messages or responses) and     *)
(* sends its whole transcript with every request; routing may answer each  *)
(* turn from another provider, and a provider may hand over state that     *)
(* only it understands: Gemini signs a call or a text, Anthropic signs its *)
(* thinking, OpenAI encrypts its reasoning.  The gateway keeps nothing:    *)
(* that state travels in the id of a call, in fields a client may or may   *)
(* not send back, or in items of its own                                   *)
(* (core/providerSpecificFields.ts).                                       *)
(*                                                                         *)
(* Abstractions.  A piece is one text, call, result or item of state; its  *)
(* wording is (k, t, i).  A reply has text or calls.  A response stored by *)
(* the gateway is a client that keeps every field and includes reasoning.  *)
(* The Gemini model is one that requires signatures.                       *)
(***************************************************************************)
EXTENDS Naturals, Sequences, SequencesExt, FiniteSets

CONSTANTS
    None,         \* no id, no signature, nobody
    Sentinel,     \* MISSING_THOUGHT_SIGNATURE
    MaxReplies

VARIABLES
    wire,         \* the public contract
    keeps,        \* the client sends provider_specific_fields and extra_content back
    include,      \* it asks for reasoning.encrypted_content
    named,        \* Gemini names its calls
    said,         \* every piece of the conversation, as it was said
    history,      \* the items or messages of the client
    open,         \* calls of the last reply, as the client knows them
    replies, phase,
    to, body      \* the last upstream request

vars == <<wire, keeps, include, named, said, history, open, replies, phase, to, body>>

Providers == {"google", "anthropic", "responses", "chat"}

Piece(k, t, i) == [k |-> k, t |-> t, i |-> i, id |-> None, sig |-> None]
System == Piece("system", 0, 0)
Of(pieces, kinds) == SelectSeq(pieces, LAMBDA p : p.k \in kinds)
Each(Op(_), s) == [j \in DOMAIN s |-> Op(s[j])]
Bind(Op(_), s) == FlattenSeq(Each(Op, s))

\* A canonical message, and with the roles "call", "reasoning" and "native" also an
\* item of the Responses contract.  google, thinking and reasoning are its
\* providerFields, native is what the canonical form has no word for.
Blank(role) == [role |-> role, text |-> <<>>, calls |-> <<>>, answers |-> <<>>,
                google |-> <<>>, thinking |-> <<>>, reasoning |-> <<>>, native |-> <<>>]

-----------------------------------------------------------------------------
(* Ids: a public id carries the signature of its call. *)

Id(t, i) == [turn |-> t, at |-> i, suffix |-> None]

\* Mutated form: the signature is left to the fields a client may drop.
PlainId(c) == c.id
\* Mutated form: a result keeps the id its client knows.
Unstripped(r) == r

\* encodeThoughtSignatureId, decodeThoughtSignatureId and stripThoughtSignatureId
PublicId(c) == IF c.id.suffix # None THEN c.id ELSE [c.id EXCEPT !.suffix = c.sig]
Clean(id) == [id EXCEPT !.suffix = None]
Decoded(c) == [c EXCEPT !.id = Clean(@), !.sig = IF @ # None THEN @ ELSE c.id.suffix]
Stripped(r) == [r EXCEPT !.id = Clean(@)]

-----------------------------------------------------------------------------
(* From a reply to the client. *)

\* candidateToChoice: a call Gemini did not name is called after its place.
Called(c) == IF c.id = None THEN [c EXCEPT !.id = Id(0, c.i)] ELSE c

\* parseOpenAIChatResponse, and what the other parsers have in common with it
FromChat(out) ==
    [Blank("assistant") EXCEPT
        !.text = Each(LAMBDA x : [x EXCEPT !.sig = None], Of(out, {"text"})),
        !.calls = Each(Called, Of(out, {"call"}))]

\* candidateToChoice: all parts are kept if any is signed.
FromGoogle(out) ==
    [FromChat(out) EXCEPT !.google = IF \E j \in DOMAIN out : out[j].sig # None THEN out ELSE <<>>]

\* parseResponse of the Anthropic adapter
FromAnthropic(out) == [FromChat(out) EXCEPT !.thinking = Of(out, {"thinking"})]

\* parseResponsesResponse
FromResponses(out) == [FromChat(out) EXCEPT !.reasoning = Of(out, {"reasoning"}), !.native = out]

Received(p, out) == CASE p = "google" -> FromGoogle(out)
                      [] p = "anthropic" -> FromAnthropic(out)
                      [] p = "responses" -> FromResponses(out)
                      [] OTHER -> FromChat(out)

Public(c) == [c EXCEPT !.id = PublicId(c), !.sig = IF keeps THEN @ ELSE None]

\* toOpenAIChatResponse
ChatReply(m) ==
    LET shown == [m EXCEPT !.calls = Each(Public, @), !.native = <<>>] IN
    <<IF keeps THEN shown ELSE [shown EXCEPT !.google = <<>>, !.thinking = <<>>, !.reasoning = <<>>]>>

\* canonicalToMessagesResponse
MessagesReply(m) ==
    <<[Blank("assistant") EXCEPT !.thinking = m.thinking, !.text = m.text, !.calls = Each(Public, m.calls)]>>

\* The items of a response, without what responseForClient takes out.
Item(x) ==
    CASE x.k = "text" -> [Blank("assistant") EXCEPT !.text = <<x>>]
      [] x.k = "call" -> [Blank("call") EXCEPT !.calls = <<Public(x)>>]
      [] x.k = "reasoning" -> [Blank("reasoning") EXCEPT !.reasoning = IF include THEN <<x>> ELSE <<>>]
      [] OTHER -> [Blank("native") EXCEPT !.native = <<x>>]

\* canonicalToResponsesResponse: native output as it came, or a message with its
\* fields and the calls.
ResponsesReply(m) ==
    LET message == Each(LAMBDA x : IF keeps THEN [Item(x) EXCEPT !.google = m.google, !.thinking = m.thinking]
                                   ELSE Item(x), m.text)
    IN IF m.native # <<>> THEN Each(Item, m.native) ELSE message \o Each(Item, m.calls)

Rendered(m) == CASE wire = "chat" -> ChatReply(m)
                 [] wire = "messages" -> MessagesReply(m)
                 [] OTHER -> ResponsesReply(m)

-----------------------------------------------------------------------------
(* From the client to the canonical request. *)

Canonical(m) == [m EXCEPT !.calls = Each(Decoded, @), !.answers = Each(Stripped, @)]

\* A user message of the Messages contract: every result is a message of its own.
Blocks(m) ==
    IF m.role # "user" THEN <<Canonical(m)>>
    ELSE Each(LAMBDA r : [Blank("tool") EXCEPT !.answers = <<Stripped(r)>>], m.answers)
         \o (IF m.text = <<>> THEN <<>> ELSE <<[Blank("user") EXCEPT !.text = m.text]>>)

\* Mutated form: only a message of text takes it.
AttachedToText(m, pending) ==
    IF pending = <<>> \/ m.text = <<>> THEN m ELSE [m EXCEPT !.reasoning = pending]

\* attachPendingReasoning: the reasoning replaces the fields of its message.
Attached(m, pending) ==
    IF pending = <<>> THEN m ELSE [m EXCEPT !.reasoning = pending, !.google = <<>>, !.thinking = <<>>]

\* responsesRequestToCanonical: reasoning waits for the assistant's next item.
WithItem(acc, m) ==
    CASE m.role = "reasoning" -> [acc EXCEPT !.pending = @ \o m.reasoning]
      [] m.role = "native" -> acc
      [] m.role \in {"assistant", "call"} ->
            [messages |-> Append(acc.messages, Attached([Canonical(m) EXCEPT !.role = "assistant"], acc.pending)),
             pending |-> <<>>]
      [] OTHER -> [acc EXCEPT !.messages = Append(@, Canonical(m))]

Messages == CASE wire = "chat" -> Each(Canonical, history)
              [] wire = "messages" -> Bind(Blocks, history)
              [] OTHER -> FoldLeft(WithItem, [messages |-> <<>>, pending |-> <<>>], history).messages

HasNative == \E j \in DOMAIN history : history[j].native # <<>>

\* requiresNativeWire: state the canonical form has no word for goes to its own wire.
Eligible(p) ==
    /\ wire = "messages" /\ (\E j \in DOMAIN history : history[j].thinking # <<>>) => p = "anthropic"
    /\ HasNative => p = "responses"

-----------------------------------------------------------------------------
(* From the canonical request to a provider: pieces, each with its message. *)

Entry(m, x, name) == [m |-> m, x |-> x, name |-> name]
Entries(n, pieces) == Each(LAMBDA x : Entry(n, x, None), pieces)
Numbered(Op(_), messages) == FlattenSeq([n \in DOMAIN messages |-> Entries(n, Op(messages[n]))])

\* ensureFirstFunctionCallSignature
Signed(parts) ==
    LET calls == {j \in DOMAIN parts : parts[j].k = "call"}
    IN [j \in DOMAIN parts |->
          IF j \in calls /\ (\A l \in calls : j <= l) /\ parts[j].sig = None
          THEN [parts[j] EXCEPT !.sig = Sentinel] ELSE parts[j]]

GoogleParts(m) == IF m.google # <<>> THEN m.google ELSE m.text \o m.calls

\* toolNameById: the last call of that id before the result.
NamedSoFar(messages, n) ==
    Bind(LAMBDA m : SelectSeq(m.google, LAMBDA x : x.k = "call" /\ x.id # None) \o m.calls, SubSeq(messages, 1, n))
NameOf(id, calls) ==
    LET same == SelectSeq(calls, LAMBDA c : c.id = id)
    IN IF same = <<>> THEN None ELSE <<Last(same).t, Last(same).i>>

\* buildGeminiBody
GoogleBody(messages) ==
    FlattenSeq([n \in DOMAIN messages |->
        LET m == messages[n] IN
        CASE m.role = "assistant" -> Entries(n, Signed(GoogleParts(m)))
          [] m.role = "tool" ->
                Each(LAMBDA r : Entry(n, r, NameOf(r.id, NamedSoFar(messages, n))), m.answers)
          [] OTHER -> Entries(n, m.text)])

\* buildMessages, buildResponsesRequestBody and buildOpenAIChatBody
AnthropicBody(messages) == Numbered(LAMBDA m : m.answers \o m.thinking \o m.text \o m.calls, messages)
ResponsesBody(messages) == Numbered(LAMBDA m : m.answers \o m.reasoning \o m.text \o m.calls, messages)
ChatBody(messages) == Numbered(LAMBDA m : m.answers \o m.text \o m.calls, messages)

\* rawInput: the items of the client as they are.
RawBody == Numbered(LAMBDA m : m.answers \o m.reasoning \o m.text \o m.calls \o m.native, history)

Body(p) ==
    <<Entry(0, System, None)>> \o
    CASE p = "google" -> GoogleBody(Messages)
      [] p = "anthropic" -> AnthropicBody(Messages)
      [] p = "responses" -> IF HasNative THEN RawBody ELSE ResponsesBody(Messages)
      [] OTHER -> ChatBody(Messages)

-----------------------------------------------------------------------------
Init ==
    /\ wire \in {"chat", "messages", "responses"}
    /\ keeps \in BOOLEAN /\ named \in BOOLEAN
    /\ include \in IF wire = "responses" THEN BOOLEAN ELSE {FALSE}
    /\ said = <<System>> /\ history = <<>> /\ open = <<>>
    /\ replies = 0 /\ phase = "client" /\ to = None /\ body = <<>>

\* The client answers the calls it was given, in any order, and may say something.
Speak(answers, talks) ==
    /\ phase = "client" /\ (open = <<>> => talks)
    /\ LET results == Each(LAMBDA c : [Piece("result", c.t, c.i) EXCEPT !.id = c.id], answers)
           text == IF talks THEN <<Piece("user", replies, 0)>> ELSE <<>>
           spoken == Each(LAMBDA x : [Blank("user") EXCEPT !.text = <<x>>], text)
           apart == Each(LAMBDA r : [Blank("tool") EXCEPT !.answers = <<r>>], results)
       IN /\ history' = history \o (IF wire = "messages"
                                    THEN <<[Blank("user") EXCEPT !.answers = results, !.text = text]>>
                                    ELSE apart \o spoken)
          /\ said' = said \o results \o text
    /\ phase' = "spoken"
    /\ UNCHANGED <<wire, keeps, include, named, open, replies, to, body>>

\* A request, and the next when the first provider fails.
Send(p) ==
    /\ phase \in {"spoken", "sent"} /\ to # p /\ Eligible(p)
    /\ to' = p /\ body' = Body(p) /\ phase' = "sent"
    /\ UNCHANGED <<wire, keeps, include, named, said, history, open, replies>>

\* What provider p may answer with in turn t: state first, then text, then calls.
Replies(p, t) ==
    LET State == [google |-> "none", anthropic |-> "thinking", responses |-> "reasoning", chat |-> "none"]
        Call(i, stateful, first) ==
            [Piece("call", t, i) EXCEPT
                !.id = IF p = "google" /\ ~named THEN None ELSE Id(t, i),
                !.sig = IF p = "google" /\ stateful /\ i = first THEN <<t, i>> ELSE None]
        Text(stateful, calls) ==
            [Piece("text", t, 0) EXCEPT !.sig = IF p = "google" /\ stateful /\ calls = 0 THEN <<t, 0>> ELSE None]
    IN {(IF stateful /\ State[p] # "none" THEN <<Piece(State[p], t, 0)>> ELSE <<>>)
        \o (IF searches THEN <<Piece("search", t, 0)>> ELSE <<>>)
        \o (IF texts = 1 THEN <<Text(stateful, calls)>> ELSE <<>>)
        \o [j \in 1..calls |-> Call(texts + j - 1, stateful, texts)] :
          texts \in {0, 1}, calls \in 0..2, stateful \in (IF p = "chat" THEN {FALSE} ELSE BOOLEAN),
          searches \in (IF p = "responses" THEN BOOLEAN ELSE {FALSE})}

Reply(out) ==
    /\ phase = "sent" /\ replies < MaxReplies /\ Of(out, {"text", "call"}) # <<>>
    /\ history' = history \o Rendered(Received(to, out))
    /\ open' = Each(Public, Received(to, out).calls)
    /\ said' = said \o out /\ replies' = replies + 1
    /\ phase' = "client" /\ to' = None /\ body' = <<>>
    /\ UNCHANGED <<wire, keeps, include, named>>

Next ==
    \/ \E answers \in {open, Reverse(open)}, talks \in BOOLEAN : Speak(answers, talks)
    \/ \E p \in Providers : Send(p)
    \/ phase = "sent" /\ \E out \in Replies(to, replies + 1) : Reply(out)
-----------------------------------------------------------------------------
TypeOK ==
    /\ wire \in {"chat", "messages", "responses"} /\ {keeps, include, named} \subseteq BOOLEAN
    /\ replies \in 0..MaxReplies /\ phase \in {"client", "spoken", "sent"} /\ to \in Providers \cup {None}

Key(x) == <<x.k, x.t, x.i>>
Spoken == {"system", "user", "text", "call", "result"}
Arrived == Each(LAMBDA e : Key(e.x), body)
Turn(t) == SelectSeq(said, LAMBDA x : x.t = t /\ x.k \notin {"user", "result", "system"})
Original(x) == SelectSeq(said, LAMBDA y : Key(y) = Key(x))[1]

\* The one case in which calls arrive twice: a signed answer of Gemini with text and
\* calls on the Responses contract, whose message carries all its parts and whose
\* calls are items too.
Doubled(x) ==
    /\ wire = "responses" /\ keeps /\ to = "google" /\ x.k = "call"
    /\ Turn(x.t)[1].k = "text" /\ \E j \in DOMAIN said : said[j].k = "call" /\ said[j].t = x.t /\ said[j].sig # None

\* Whatever provider a turn goes to gets everything that was said, once and in order.
Conveyed ==
    LET heard == SelectSeq(body, LAMBDA e : e.x.k \in Spoken)
        first == {j \in DOMAIN heard : \A l \in 1..(j - 1) : Key(heard[l].x) # Key(heard[j].x)}
        once == SelectSeq([j \in DOMAIN heard |-> <<j, Key(heard[j].x)>>], LAMBDA y : y[1] \in first)
    IN /\ Each(LAMBDA y : y[2], once) = Each(Key, Of(said, Spoken))
       /\ \A j \in DOMAIN heard \ first : Doubled(heard[j].x)

\* A result refers to its own call, by the id the provider is given and, for Gemini,
\* by name; parts replayed as Gemini sent them may have no id at all.
Paired ==
    \A j \in DOMAIN body : body[j].x.k = "result" =>
        /\ \E l \in 1..(j - 1) :
              /\ body[l].x.k = "call" /\ body[l].x.t = body[j].x.t /\ body[l].x.i = body[j].x.i
              /\ body[l].x.id \in {None, body[j].x.id}
        /\ to = "google" => body[j].name = <<body[j].x.t, body[j].x.i>>

\* Gemini gets every signature back, on the call or text it signed, whatever contract
\* and client carried it (texts only if the client keeps fields); a model that demands
\* signatures finds one on the first call of each message; and no other provider sees
\* one, nor an id with a suffix.
SignaturesKept ==
    \A j \in DOMAIN body :
        LET x == body[j].x
            signed == x.k \in {"call", "text"} /\ Original(x).sig # None
            first == \A l \in 1..(j - 1) : body[l].m # body[j].m \/ body[l].x.k # "call"
        IN /\ to = "google" /\ signed /\ (x.k = "call" \/ (keeps /\ wire # "messages")) => x.sig = Original(x).sig
           /\ to = "google" /\ x.k = "call" => (x.sig = None => ~first) /\ (x.sig = Sentinel => ~signed)
           /\ ~HasNative => (x.id = None \/ x.id.suffix = None)

\* Who would have kept the state of turn t for the provider it came from.
Carried(k, t) ==
    CASE k = "thinking" -> wire = "messages" \/ (keeps /\ (wire = "chat" \/ \E j \in DOMAIN Turn(t) : Turn(t)[j].k = "text"))
      [] k = "reasoning" -> (wire = "chat" /\ keeps) \/ include
      [] OTHER -> FALSE

\* The state of a turn comes back to its provider directly before the rest of that
\* turn, whole if its carrier was kept, and never twice or to another provider.
StateKept ==
    /\ \A j \in DOMAIN body : body[j].x.k \in {"thinking", "reasoning"} =>
          /\ to = IF body[j].x.k = "thinking" THEN "anthropic" ELSE "responses"
          /\ j < Len(body) /\ body[j + 1].x.t = body[j].x.t /\ body[j + 1].x.k \in {"search", "text", "call"}
          /\ \A l \in DOMAIN body : Key(body[l].x) = Key(body[j].x) => l = j
    /\ \A j \in DOMAIN said :
          to = (CASE said[j].k = "thinking" -> "anthropic" [] said[j].k = "reasoning" -> "responses" [] OTHER -> "nobody")
             /\ Carried(said[j].k, said[j].t) => Contains(Arrived, Key(said[j]))

ConversationKept == TypeOK /\ (to # None => Conveyed /\ Paired /\ SignaturesKept /\ StateKept)
=============================================================================
