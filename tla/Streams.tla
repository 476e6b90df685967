------------------------------ MODULE Streams -------------------------------
(***************************************************************************)
(* One streamed text request, from the bytes of the provider to the frames *)
(* of the client: observeChatStream (gateway/streamLifecycle.ts) over the  *)
(* parsers of Wires, the commit of routeChat (endpoints/runtime/           *)
(* parameterPolicy.ts), the renderers of Renderers, the writer of          *)
(* endpoints/runtime/sse.ts, the bodies of streamChatCompletion,           *)
(* streamMessages and streamResponses, and finish() of router/index.ts.    *)
(*                                                                         *)
(* The reader is one frame ahead of the writer: withSSEHeartbeats asks for *)
(* the next frame before it hands one out. The frames of one chunk are     *)
(* written as one batch, of which a write that times out delivers a part.  *)
(***************************************************************************)
EXTENDS Renderers, FiniteSets

CONSTANTS
    Alphabet,   \* the events each provider may send, among EventsOf
    Publics,    \* the public APIs of the requests
    MaxEvents,  \* bound on the events of a stream
    FaultyEvents  \* the faults of the client and the deadlines of the observer are
                  \* tried while a stream has had at most this many events

\* What a stream ends with, and what it fails with at the provider.
Outcomes == {"completed", "incomplete", "blocked"}
Terminals == [outcome : Outcomes, reason : FinishReasons \cup {"other"}]
UpstreamErrors ==
    {"upstream_error", "upstream_protocol_error", "upstream_invalid_tool_call",
     "upstream_reasoning_only_timeout", "upstream_idle_timeout", "upstream_first_output_timeout",
     "upstream_streaming_timeout", "client_closed_request"}

\* None stands for a missing value.
ASSUME StreamsAssumption ==
    /\ \A w \in DOMAIN Alphabet : w \in WireNames /\ Alphabet[w] \subseteq EventsOf[w]
    /\ Publics \subseteq {"chat", "messages", "responses"}
    /\ MaxEvents \in Nat /\ FaultyEvents \in Nat
    /\ None \notin FinishReasons \cup UpstreamErrors
    /\ None \notin {"open", "ended", "aborted", "downstream_backpressure", "not_stored"}
    /\ None \notin {"success", "penalised"}
    /\ None \notin {"flag", "block", "redacted", "text", "think", "tool", "args", "item"}
    /\ None \notin Terminals /\ None \notin Nat

VARIABLES
    wire, public,
    extras,   \* include_usage of a chat request, store of a Responses request
    parser,   \* the parser of the provider's stream
    doc,      \* auxiliary: the document the events amount to
    n,        \* events read
    obs,      \* locals of observeChatStream
    view,     \* locals of the renderer
    source,   \* "open", "ended", or the error the reader met
    ready,    \* the batch the reader is ahead by
    writing,  \* the batch being written
    seen,     \* finalUsage: the usage the endpoint has taken from the chunks
    sent,     \* frames delivered to the client
    stage,    \* where the endpoint is
    gone,     \* whether the client has left
    trouble,  \* streamError
    routed,   \* whether the endpoint holds a RouteResult
    stored,   \* statePersisted
    result    \* what finish() and the log were told

vars == <<wire, public, extras, parser, doc, n, obs, view, source, ready, writing, seen, sent,
          stage, gone, trouble, routed, stored, result>>
request == <<wire, public, extras>>
reader == <<parser, doc, n, obs, view, source>>
-----------------------------------------------------------------------------
(* observeChatStream *)

ObsStart == [phase |-> "first_output", reasoning |-> FALSE, adapter |-> None, usage |-> 0,
             choices |-> <<>>, terminal |-> None]

\* chatChunkSemantic.
Semantic(c) ==
    IF c.tools # <<>> THEN "tool"
    ELSE IF c.text # 0 THEN "content"
    ELSE IF c.think # 0 THEN "reasoning"
    ELSE IF c.usage # 0 THEN "usage" ELSE "metadata"

Progress == {"tool", "content", "reasoning"}

ChoiceStart == [fin |-> None, output |-> FALSE, tool |-> FALSE]

ChoiceState(o, i) == IF i \in DOMAIN o.choices THEN o.choices[i] ELSE ChoiceStart

\* A repeated reason is one piece of evidence; tool_calls outranks stop.
MergeFinish(old, new) ==
    IF new = None THEN old ELSE IF "tool_calls" \in {old, new} THEN "tool_calls" ELSE new

Conflict(old, new) ==
    /\ old # None /\ new # None /\ old # new
    /\ {old, new} # {"stop", "tool_calls"}

Contradicts(o, c) ==
    \/ c.terminal # None /\ o.adapter # None /\ c.terminal # o.adapter
    \/ c.choice # None /\ Conflict(ChoiceState(o, c.choice).fin, c.fin)

With(f, i, x) == [j \in DOMAIN f \cup {i} |-> IF j = i THEN x ELSE f[j]]

Observe(o, c) ==
    LET s == Semantic(c)
        old == ChoiceState(o, c.choice)
        choice == [fin |-> MergeFinish(old.fin, c.fin),
                   output |-> old.output \/ s \in Progress,
                   tool |-> old.tool \/ s = "tool"]
    IN  [o EXCEPT !.phase = IF s \in Progress THEN "idle" ELSE @,
                  !.reasoning = IF s \in {"content", "tool"} THEN FALSE ELSE @ \/ s = "reasoning",
                  !.adapter = IF c.terminal # None THEN c.terminal ELSE @,
                  !.usage = IF c.usage # 0 THEN c.usage ELSE @,
                  !.choices = IF c.choice = None THEN @ ELSE With(@, c.choice, choice)]

FinishOf(choice) == IF choice.tool /\ choice.fin = "stop" THEN "tool_calls" ELSE choice.fin

\* At the end of the stream each choice needs a reason, and one that fits.
Unfinished(o) ==
    \/ o.choices = <<>>
    \/ \E i \in DOMAIN o.choices :
          LET choice == o.choices[i]
          IN  \/ choice.fin = None
              \/ ~choice.output /\ FinishOf(choice) = "stop"
              \/ ~choice.tool /\ FinishOf(choice) = "tool_calls"

\* terminalForFinish.
OutcomeOf(fin) ==
    IF fin = "length" THEN "incomplete" ELSE IF fin = "content_filter" THEN "blocked" ELSE "completed"

TerminalOf(adapter, fins) ==
    CASE adapter # None -> adapter
      [] adapter = None /\ Cardinality(fins) = 1 ->
            LET fin == CHOOSE f \in fins : TRUE IN [outcome |-> OutcomeOf(fin), reason |-> fin]
      [] OTHER -> [outcome |-> IF "length" \in fins THEN "incomplete" ELSE "completed", reason |-> "other"]

Ends(o) == [i \in DOMAIN o.choices |-> FinishOf(o.choices[i])]
Terminal(o) == TerminalOf(o.adapter, {Ends(o)[i] : i \in DOMAIN o.choices})
-----------------------------------------------------------------------------
Nothing == [frames |-> <<>>, last |-> FALSE, usage |-> 0]
Batch(frames, last) == [frames |-> frames, last |-> last, usage |-> 0]
Heartbeat == Frame("comment", 0, "heartbeat", {})
Beating == [Nothing EXCEPT !.frames = <<Heartbeat>>]

Init ==
    /\ wire \in DOMAIN Alphabet
    /\ public \in Publics
    /\ extras \in IF public = "messages" THEN {FALSE} ELSE BOOLEAN
    /\ parser = ParserStart
    /\ doc = EmptyDocument
    /\ n = 0
    /\ obs = ObsStart
    /\ view = ViewStart
    /\ source = "open"
    /\ ready = Batch(Begin(public), FALSE)
    /\ writing = Nothing
    /\ seen = 0
    /\ sent = <<>>
    /\ stage = "opening"
    /\ gone = FALSE
    /\ trouble = None
    /\ routed = FALSE
    /\ stored = FALSE
    /\ result = None

\* routeChat hands the stream over at its first output or terminal.
Committed == obs.phase = "idle" \/ obs.terminal # None

\* The generator is asked for the next frame, unless it is one ahead already.
Reading ==
    /\ source = "open"
    /\ \/ stage = "opening" /\ ~Committed
       \/ stage \in {"streaming", "cleanup"} /\ ready = Nothing

\* A usage-only chunk is not shown to a chat client that did not ask for it.
Hidden(c) == public = "chat" /\ ~extras /\ c.usage # 0 /\ c.choice = None

\* What the endpoint will see of a chunk: frames, and for chat its usage.
Rendered(c) ==
    LET v == Render(public, view, c)
    IN  [view |-> [v EXCEPT !.out = <<>>], frames |-> IF Hidden(c) THEN <<>> ELSE v.out]

\* Reasons are held back until the end of the stream.
HoldReason(c) == [c EXCEPT !.fin = None]

\* The reader fails: what was read ahead is still handed out, the error after.
Fail(code) == source' = code /\ UNCHANGED <<obs, view, ready, seen>>

Deliver(c) ==
    LET r == Rendered(HoldReason(c))
    IN  IF Contradicts(obs, c) THEN Fail("upstream_protocol_error")
        ELSE /\ obs' = Observe(obs, c)
             /\ view' = r.view
             /\ LET frames == ready.frames \o r.frames
                    told == public = "chat" /\ c.usage # 0
                IN  /\ ready' = [ready EXCEPT !.frames = frames,
                                              !.usage = IF told /\ frames # <<>> THEN c.usage ELSE @]
                    /\ seen' = IF told /\ frames = <<>> THEN c.usage ELSE seen
             /\ UNCHANGED source

\* The observer's end: a terminal chunk, and the end of the frames.
Close ==
    IF Unfinished(obs) THEN Fail("upstream_protocol_error")
    ELSE LET v == RenderEnd(public, view, Ends(obs))
         IN  /\ obs' = [obs EXCEPT !.terminal = Terminal(obs)]
             /\ view' = [v EXCEPT !.out = <<>>]
             /\ ready' = [ready EXCEPT !.frames = @ \o v.out, !.last = TRUE]
             /\ source' = "ended"
             /\ UNCHANGED seen

Read(e) ==
    /\ Reading
    /\ n < MaxEvents
    /\ Legal(wire, parser, doc, e)
    /\ public # "chat" => e.i = 0 \/ e.k \in {"tool", "args"}
    /\ LET y == Parse(wire, parser, e, n + 1)
       IN  /\ parser' = y.p
           /\ IF y.error # None THEN Fail(y.error)
              ELSE IF y.ends THEN Close
              ELSE IF y.chunks = <<>> THEN UNCHANGED <<obs, view, ready, seen, source>>
              ELSE Deliver(y.chunks[1])
    /\ n' = n + 1
    /\ doc' = Gather(wire, doc, e, n + 1)
    /\ UNCHANGED <<request, writing, sent, stage, gone, trouble, routed, stored, result>>

\* The connection is closed by the provider.
Eof ==
    /\ Reading
    /\ IF ParseEof(wire, parser).ends THEN Close ELSE Fail(ParseEof(wire, parser).error)
    /\ UNCHANGED <<request, parser, doc, n, writing, sent, stage, gone, trouble, routed, stored, result>>

\* A read is abandoned: a deadline of the observer, or the signal of the attempt.
Abandon(code) ==
    /\ Reading
    /\ Fail(code)
    /\ UNCHANGED <<request, parser, doc, n, writing, sent, stage, gone, trouble, routed, stored, result>>

MayFault == n <= FaultyEvents

Expire ==
    /\ MayFault
    /\ \/ obs.reasoning /\ Abandon("upstream_reasoning_only_timeout")
       \/ obs.phase = "idle" /\ Abandon("upstream_idle_timeout")
       \/ obs.phase = "first_output" /\ Abandon("upstream_first_output_timeout")

\* Mutated form: the deadline is cleared before the iterator is returned.
TotalDeadlineCleared == stage # "cleanup" /\ Abandon("upstream_streaming_timeout")

TotalDeadline == Abandon("upstream_streaming_timeout")
Aborted == gone /\ Abandon("client_closed_request")
-----------------------------------------------------------------------------
(* The endpoint and its writer. *)

\* awaitWithSSEHeartbeats: routeChat has returned, or thrown.
Attach ==
    /\ stage = "opening" /\ writing = Nothing
    /\ \/ /\ Committed
          /\ stage' = "streaming"
          /\ routed' = TRUE
          /\ UNCHANGED trouble
       \/ /\ ~Committed /\ source # "open"
          /\ stage' = "closing"
          /\ trouble' = source
          /\ UNCHANGED routed
    /\ UNCHANGED <<request, reader, ready, writing, seen, sent, gone, stored, result>>

MustStore == public = "responses" /\ extras /\ ready.last /\ ~stored

\* persistResponseState, before the terminal event is written.
Persist ==
    /\ stage = "streaming" /\ writing = Nothing
    /\ MustStore
    /\ \/ stored' = TRUE /\ UNCHANGED <<stage, trouble>>
       \/ stage' = "cleanup" /\ trouble' = "not_stored" /\ UNCHANGED stored
    /\ seen' = view.usage
    /\ UNCHANGED <<request, reader, ready, writing, sent, gone, routed, result>>

Take ==
    /\ stage = "streaming" /\ writing = Nothing
    /\ ready # Nothing /\ ~MustStore
    /\ writing' = ready
    /\ ready' = Nothing
    /\ seen' = CASE public = "chat" -> IF ready.usage # 0 THEN ready.usage ELSE seen
                 [] public # "chat" -> IF ready.last THEN view.usage ELSE seen
    /\ UNCHANGED <<request, reader, sent, stage, gone, trouble, routed, stored, result>>

\* Nothing to hand out for a while.
Beat ==
    /\ writing = Nothing
    /\ \/ stage = "opening" /\ ~Committed
       \/ stage = "streaming" /\ ready = Nothing
    /\ source = "open" /\ MayFault
    /\ writing' = Beating
    /\ UNCHANGED <<request, reader, ready, seen, sent, stage, gone, trouble, routed, stored, result>>

Received(frames) == IF gone \/ frames = <<Heartbeat>> THEN sent ELSE sent \o frames

Written ==
    /\ writing # Nothing
    /\ sent' = Received(writing.frames)
    /\ writing' = Nothing
    /\ UNCHANGED <<request, reader, ready, seen, stage, gone, trouble, routed, stored, result>>

\* A write misses its deadline. Before routeChat is awaited again its result
\* is dropped; later the iterator is returned, which waits for the read ahead.
WriteTimeout ==
    /\ writing # Nothing /\ ~gone /\ MayFault
    /\ \E k \in 0..Len(writing.frames) - 1 : sent' = Received(SubSeq(writing.frames, 1, k))
    /\ writing' = Nothing
    /\ trouble' = "downstream_backpressure"
    /\ stage' = IF stage = "opening" THEN "closing" ELSE "cleanup"
    /\ UNCHANGED <<request, reader, ready, seen, gone, routed, stored, result>>

\* The reader has met an error and nothing is left to hand out.
Stumble ==
    /\ stage = "streaming" /\ writing = Nothing /\ ready = Nothing
    /\ source \notin {"open", "ended"}
    /\ trouble' = source
    /\ stage' = "closing"
    /\ UNCHANGED <<request, reader, ready, writing, seen, sent, gone, routed, stored, result>>

\* iterator.return() is answered once the read ahead has settled.
Cleaned ==
    /\ stage = "cleanup"
    /\ ready # Nothing \/ source # "open"
    /\ stage' = "closing"
    /\ UNCHANGED <<request, reader, ready, writing, seen, sent, gone, trouble, routed, stored, result>>

Last ==
    /\ stage = "streaming" /\ writing = Nothing /\ ready = Nothing /\ source = "ended"
    /\ stage' = "closing"
    /\ UNCHANGED <<request, reader, ready, writing, seen, sent, gone, trouble, routed, stored, result>>
-----------------------------------------------------------------------------
(* The catch and finally blocks, the last writes of the stream. *)

ErrorFrame == Frame("error", 0, trouble, {})
DoneMark == Frame("done", 0, "[DONE]", {})

Tells == trouble \notin {None, "downstream_backpressure"} /\ ~gone

\* [DONE] follows the frames of chat and Responses, and their error frames.
Marks == IF public = "messages" THEN <<>> ELSE <<DoneMark>>

Farewell ==
    IF Tells THEN <<ErrorFrame>> \o Marks
    ELSE IF trouble = None THEN Marks ELSE <<>>

\* Mutated form: the signal of the client is not consulted.
VerdictUnaware(code) ==
    CASE code = None -> "success"
      [] code = "client_closed_request" -> "cancelled"
      [] code \in {"downstream_backpressure", "not_stored"} -> "gateway"
      [] OTHER -> "penalised"

\* What finish() reports about the deployment.
Verdict(code) ==
    CASE code = None -> "success"
      [] code = "client_closed_request" \/ (code # None /\ gone) -> "cancelled"
      [] code \in {"downstream_backpressure", "not_stored"} /\ ~gone -> "gateway"
      [] OTHER -> "penalised"

\* A route that was never attached: routeChat finishes it itself when its
\* read fails, and nobody does when it has already succeeded.
Abandoned == ~routed /\ Committed

UsageKnown == IF seen # 0 THEN seen ELSE obs.usage

\* Usage is rebuilt from the frames of Messages and Responses.
ChargedPart == IF seen = 0 \/ public = "chat" THEN "all"
               ELSE IF public = "messages" THEN "output" ELSE "uncached"

\* Mutated form: the log trusts the endpoint.
LogStatusUnaware(code) == IF code = None THEN "success" ELSE "error"

\* write() of the operation log: a client that left has not been served.
LogStatus(code) == IF code = None /\ ~gone THEN "success" ELSE "error"

\* writeSSE of the last frames, then finish() and the log, which never throw.
Settle ==
    /\ stage = "closing" /\ writing = Nothing
    /\ \E k \in 0..Len(Farewell) :
          LET code == IF trouble = None /\ k < Len(Farewell) THEN "downstream_backpressure" ELSE trouble
          IN  /\ gone \/ ~MayFault => k = Len(Farewell)
              /\ sent' = Received(SubSeq(Farewell, 1, k))
              /\ trouble' = code
              /\ result' = [verdict |-> IF Abandoned THEN None
                                       ELSE IF ~routed /\ code = "downstream_backpressure" THEN "cancelled"
                                       ELSE Verdict(code),
                            charged |-> IF Abandoned THEN 0 ELSE UsageKnown,
                            part |-> ChargedPart,
                            status |-> LogStatus(code),
                            http |-> IF gone \/ code = "client_closed_request" THEN 499 ELSE 200]
    /\ source' = IF source = "open" THEN "aborted" ELSE source
    /\ stage' = "closed"
    /\ UNCHANGED <<request, parser, doc, n, obs, view, ready, writing, seen, gone, routed, stored>>

ClientLeaves ==
    /\ ~gone /\ stage # "closed" /\ MayFault
    /\ gone' = TRUE
    /\ UNCHANGED <<request, reader, ready, writing, seen, sent, stage, trouble, routed, stored, result>>

Writes == Written \/ WriteTimeout
Steps == Attach \/ Persist \/ Take \/ Writes \/ Stumble \/ Cleaned \/ Last \/ Settle

Next ==
    \/ \E e \in Alphabet[wire] : Read(e)
    \/ Eof \/ Expire \/ TotalDeadline \/ Aborted
    \/ Steps \/ Beat \/ ClientLeaves

Spec == Init /\ [][Next]_vars

\* The event loop runs what is ready, writes end or time out, and the total
\* deadline of the attempt ends every read.
FairSpec ==
    /\ Spec
    /\ WF_vars(Attach) /\ WF_vars(Persist) /\ WF_vars(Take) /\ WF_vars(Writes)
    /\ WF_vars(Stumble) /\ WF_vars(Cleaned) /\ WF_vars(Last) /\ WF_vars(Settle)
    /\ WF_vars(TotalDeadline)
-----------------------------------------------------------------------------
Closed == stage = "closed"
Positions == 1..Len(sent)
At(kind) == {j \in Positions : sent[j].at = kind}

\* A trailing call item is shown with its arguments, a native event with its piece.
Told(type) == UNION {sent[j].pieces : j \in {i \in At("delta") \cup At("native") : sent[i].type = type}}

(* The variables of a stream (streamLifecycle.ts:34-63, sse.ts:20-38).     *)
TypeOK ==
    /\ wire \in WireNames /\ public \in {"chat", "messages", "responses"} /\ extras \in BOOLEAN
    /\ n \in 0..MaxEvents /\ seen \in 0..MaxEvents
    /\ obs.usage \in 0..MaxEvents /\ obs.phase \in {"first_output", "idle"}
    /\ DOMAIN obs.choices \subseteq {0, 1}
    /\ obs.terminal = None \/ obs.terminal.outcome \in {"completed", "incomplete", "blocked"}
    /\ stage \in {"opening", "streaming", "cleanup", "closing", "closed"}
    /\ gone \in BOOLEAN /\ routed \in BOOLEAN /\ stored \in BOOLEAN
    /\ result = None \/ result.verdict \in {None, "success", "cancelled", "gateway", "penalised"}

(* The numbered blocks of Messages and the output items of Responses open  *)
(* in order, once each; they are extended and closed only while open, and  *)
(* none is left open when the stream ends (messagesRender.ts:516-658,      *)
(* responsesRender.ts:1024-1340).                                          *)
FramesWellFormed ==
    public # "chat" =>
        LET open(b) == {j \in At("open") : sent[j].block = b}
            close(b) == {j \in At("close") : sent[j].block = b}
        IN  /\ \A j \in At("open") :
                  /\ open(sent[j].block) = {j}
                  /\ sent[j].block = Cardinality({i \in At("open") : i < j})
            /\ \A j \in At("delta") \cup At("close") :
                  /\ \E i \in open(sent[j].block) : i < j /\ sent[i].type = sent[j].type
                  /\ \A i \in close(sent[j].block) : i >= j
            /\ At("end") # {} => \A j \in At("open") : close(sent[j].block) # {}

\* Reasoning that followed the message after some had been streamed before it.
LateReasoning == IF view.streamed THEN view.late ELSE {}

(* Once the stream has ended, the client has every piece of text and of    *)
(* the tools' arguments, and every piece of reasoning its API shows: native *)
(* thinking for Messages, and for Responses all but what came after the    *)
(* message when an earlier reasoning item had been completed.              *)
NothingLost ==
    At("end") # {} =>
        /\ Told("text") = doc.text
        /\ Told("tool") \cup Told("args") = doc.args
        /\ public = "chat" => Told("think") = doc.think
        /\ public = "messages" => Told("think") = (IF wire = "messages" THEN doc.think ELSE {})
        /\ public = "responses" => Told("think") = doc.think \ LateReasoning

\* The client has every piece, in frames of its API.
FramesComplete == TypeOK /\ FramesWellFormed /\ NothingLost

\* What the last frame says, in the terms of the log.
ToldOutcome(type) ==
    CASE public = "messages" -> (CASE type = "max_tokens" -> "incomplete" [] type = "refusal" -> "blocked"
                                   [] OTHER -> "completed")
      [] public = "responses" -> type
      [] public = "chat" -> OutcomeOf(type)

\* An incomplete native response with a call is told as a call.
CallHidesTruncation == wire = "responses" /\ doc.called

(* The client and the operation log agree on how the stream ended: cut     *)
(* short, withheld or complete. A Responses client is told of withheld     *)
(* output as incomplete; choices that differ have no outcome in common.    *)
TerminalsAgree ==
    \A j \in At("end") :
        LET logged == obs.terminal.outcome
        IN  Cardinality(DOMAIN obs.choices) = 1 /\ ~CallHidesTruncation =>
                IF public = "responses" \/ wire = "responses"
                THEN (ToldOutcome(sent[j].type) = "completed") = (logged = "completed")
                ELSE ToldOutcome(sent[j].type) = logged

(* A Responses client that asked for storage sees the terminal event only  *)
(* when the response can be retrieved (responses.ts:487-507).              *)
StoredBeforeSeen == public = "responses" /\ extras /\ At("end") # {} => stored

(* One verdict: a client that was told the end is never told of an error,  *)
(* nothing but [DONE] follows either, and the log calls an ended stream an *)
(* error only when the client left or [DONE] could not be written.         *)
OneVerdict ==
    /\ Cardinality(At("end") \cup At("error")) <= 1
    /\ \A i \in At("end") \cup At("error"), j \in Positions : j > i => sent[j].at = "done"
    /\ Closed /\ At("error") # {} => result.status = "error"
    /\ Closed /\ At("end") # {} /\ result.status = "error" =>
          gone \/ trouble = "downstream_backpressure"
    /\ Closed /\ result.status = "success" => At("end") # {}
    /\ StoredBeforeSeen

\* The Messages adapter reads the reason of a document with calls as tool_calls.
CallHidesReason == wire = "messages" /\ doc.called

(* A stream ends as the same content would as one JSON document            *)
(* (terminalForChatResponse and observeChatStream, one for each).          *)
StreamLikeJson ==
    obs.terminal # None /\ ~CallHidesReason =>
        obs.terminal.outcome = TerminalOf(JsonAdapter(wire, doc), JsonFinishes(wire, doc)).outcome

(* The client, the operation log and the JSON document of the same content *)
(* come to one outcome.                                                    *)
OneOutcome == TerminalsAgree /\ StreamLikeJson

(* Usage the provider has reported is charged however the stream ends, in  *)
(* its last version when it ends well (router/index.ts:674).               *)
UsageCharged ==
    Closed /\ ~Abandoned =>
        /\ obs.usage # 0 => result.charged # 0
        /\ result.verdict = "success" => result.charged = obs.usage

(* A deployment is blamed only for what upstream did while the client was  *)
(* still there, never for a slow or departed client.                       *)
Blameless == Closed /\ result.verdict = "penalised" => ~gone /\ source \notin {"open", "ended", "aborted"}

\* Neither the key nor the deployment pays for what was not its own.
FairlySettled == UsageCharged /\ Blameless

(* Every stream is closed and logged, whatever the provider and the client *)
(* do, because writes and attempts have deadlines.                         *)
StreamEnds == <>Closed
=============================================================================
