------------------------------ MODULE Metering ------------------------------
(***************************************************************************)
(* One request that is paid for, from its body to its log: the endpoints   *)
(* for embeddings, reranking, images and transcriptions, and a text        *)
(* endpoint that answers in JSON.  A provider does some work and reports   *)
(* it the way its wire does; the adapter makes one usage of the report;    *)
(* extensions may strip it or fail; then the quota, the log and the client *)
(* are each told of it.  An upload lies on disk while this lasts.          *)
(* Which deployment is tried, and again, is Router's; what a lease does to *)
(* the counters is KeyBudget's; heartbeats and deadlines are Streams'.     *)
(***************************************************************************)
EXTENDS Naturals, Sequences, FiniteSets

CONSTANTS
    None,
    Requests,       \* requests as endpoints parse them
    Models,         \* deployments with their wires, profiles and prices
    Works,          \* what a provider may come to do
    Images          \* what it may draw: [format, size, alpha]

VARIABLES
    request, model,
    phase,          \* body, spooling, route, upstream, answered, send, stream, tail, finished, over
    spool,          \* the temporary directory of an upload is there
    held,           \* the cost that is reserved, or None
    charges,        \* what the lease was settled with, 0 when released
    finished,       \* the flag that lets finish() act once
    work,           \* what the provider did and has told, or None
    fallback, usage, image,
    record,         \* the operation log's entry, or None
    shown           \* what the client is given, or None

vars == <<request, model, phase, spool, held, charges, finished, work, fallback, usage, image, record, shown>>

Default(value, other) == IF value = None THEN other ELSE value
Greatest(S) == CHOOSE n \in S : \A m \in S : m <= n
Less(a, b) == IF a > b THEN a - b ELSE 0

-----------------------------------------------------------------------------
(* What the constants are, for every deployment and every provider.        *)

Wires ==
    [text |-> {"anthropic", "chat", "responses", "gemini"}, embeddings |-> {"embeddings", "gemini_embeddings"},
     rerank |-> {"vercel_rerank", "openrouter_rerank"}, audio |-> {"tokens", "duration"},
     images |-> {"images", "gemini_images"}]
Kinds == {"text", "embeddings", "rerank", "audio", "images"}
TokenRates == {"input", "output", "cacheRead", "cacheWrite"}
Sums == Nat \cup {None}

PriceLists ==
    [input : Sums, output : Sums, cacheRead : Sums, cacheWrite : Sums, unit : Sums, second : Sums,
     tiers : SUBSET [above : Nat, input : Sums, output : Sums, cacheRead : Sums, cacheWrite : Sums]]
Brackets == [min : Nat, max : Sums, cost : Nat]
BracketedLists == [flat : [TokenRates -> Sums], brackets : [TokenRates -> SUBSET Brackets]]

\* The brackets of a rate follow one another from prompts of no size, and a flat rate
\* beside them is that of the first.
Contiguous(raw) ==
    \A rate \in TokenRates :
        LET list == raw.brackets[rate]
        IN  /\ IsFiniteSet(list)
            /\ list # {} => \E t \in list : t.min = 0 /\ raw.flat[rate] \in {None, t.cost}
            /\ \A t \in list : t.max # None => t.min < t.max /\ \E u \in list : u.min = t.max
            /\ \A t \in list : \A u \in list \ {t} :
                  (t.max # None /\ t.max <= u.min) \/ (u.max # None /\ u.max <= t.min)

AllRequests ==
    [endpoint : Kinds, contract : {"chat", "responses", "messages", None}, stream : BOOLEAN, upload : BOOLEAN,
     limited : BOOLEAN, budget : BOOLEAN, units : Nat, tokens : Nat,
     asks : [format : STRING \cup {None}, size : STRING \cup {None}, transparent : BOOLEAN]]
AllModels ==
    [endpoint : Kinds, wire : UNION {Wires[k] : k \in Kinds}, pricing : PriceLists, raw : BracketedLists \cup {None},
     native : BOOLEAN, documents : Nat, sizes : Seq(STRING), autoSize : BOOLEAN, formats : SUBSET STRING,
     transparent : BOOLEAN, recodes : BOOLEAN, obeys : BOOLEAN]
AllWorks ==
    [of : UNION {Wires[k] : k \in Kinds}, fresh : Nat, read : Nat, write : Nat, visible : Nat, thought : Nat,
     omitted : BOOLEAN, units : Sums, cost : Sums, seconds : Nat]
AllUsages ==
    [prompt : Nat, completion : Nat, total : Nat, cacheRead : Nat, cacheWrite : Nat, reasoning : Nat,
     units : Nat, seconds : Nat, cost : Sums]
AllImages == [format : STRING, size : STRING, alpha : BOOLEAN]

\* Work is what its wire has words for.
Tellable(w) ==
    /\ w.units # None => w.of \in Wires["rerank"]
    /\ w.seconds > 0 => w.of = "duration"
    /\ w.of \in {"duration"} \cup Wires["embeddings"] \cup Wires["rerank"] => w.visible + w.thought = 0
    /\ w.of = "duration" \/ (w.of \in Wires["rerank"] /\ w.omitted) => w.fresh + w.read + w.write = 0

\* A text endpoint answers in one of its contracts, and here in one piece.
WellMeant ==
    /\ \A r \in Requests : r \in AllRequests /\ (r.endpoint = "text" => r.contract # None /\ ~r.stream)
    /\ \A m \in Models :
          /\ m \in AllModels /\ m.wire \in Wires[m.endpoint] /\ IsFiniteSet(m.pricing.tiers)
          /\ m.raw # None => Contiguous(m.raw)
    /\ \A w \in Works : w \in AllWorks /\ Tellable(w)
    /\ Images \subseteq AllImages
    /\ None \notin Nat \cup STRING \cup AllWorks \cup AllUsages \cup AllImages \cup BracketedLists

-----------------------------------------------------------------------------
(* Prices.  A tier replaces a rate for the whole request when the prompt   *)
(* is longer than its threshold; None is a rate that is not configured.    *)

\* Mutated: the first tier a prompt exceeds wins, however long the prompt is.
effectiveRateOfFirst(pricing, rate, prompt) ==
    LET exceeded == {t \in pricing.tiers : prompt > t.above /\ t[rate] # None}
    IN  IF exceeded = {} THEN Default(pricing[rate], Default(pricing.input, 0))
        ELSE (CHOOSE t \in exceeded : \A u \in exceeded : t.above <= u.above)[rate]

effectiveRate(pricing, rate, prompt) ==
    LET exceeded == {t \in pricing.tiers : prompt > t.above /\ t[rate] # None}
    IN  IF exceeded # {} THEN (CHOOSE t \in exceeded : \A u \in exceeded : u.above <= t.above)[rate]
        ELSE IF rate \in {"cacheRead", "cacheWrite"} THEN Default(pricing[rate], Default(pricing.input, 0))
        ELSE Default(pricing[rate], 0)

RatesOf(pricing) ==
    {r \in {pricing[f] : f \in TokenRates} \cup {t[f] : t \in pricing.tiers, f \in TokenRates} : r # None}

computeCost(pricing, u) ==
    LET Rate(rate) == effectiveRate(pricing, rate, u.prompt)
        calculated ==
            Less(u.prompt, u.cacheRead + u.cacheWrite) * Rate("input") + u.cacheRead * Rate("cacheRead")
            + u.cacheWrite * Rate("cacheWrite") + u.completion * Rate("output")
            + u.units * Default(pricing.unit, 0) + u.seconds * Default(pricing.second, 0)
    IN  IF RatesOf(pricing) # {} \/ pricing.unit # None \/ pricing.second # None \/ pricing.tiers # {}
        THEN calculated ELSE Default(u.cost, calculated)

\* None is a price that is not known, never one of nothing.
estimateMaximumCostCents(pricing, tokens, units) ==
    IF RatesOf(pricing) = {} /\ pricing.unit = None /\ pricing.second = None THEN None
    ELSE tokens * (IF RatesOf(pricing) = {} THEN 0 ELSE Greatest(RatesOf(pricing))) + units * Default(pricing.unit, 0)

\* Vercel lists a rate flat, or as brackets of prompt sizes with a first and a past-last size.
tierCost(raw, rate, size) ==
    LET active == {t \in raw.brackets[rate] : t.min <= size /\ (t.max = None \/ size < t.max)}
    IN  IF active = {} THEN None ELSE (CHOOSE t \in active : \A u \in active : u.min <= t.min).cost

pricingForVercelModel(raw) ==
    LET thresholds == {t.min : t \in UNION {raw.brackets[f] : f \in TokenRates}} \ {0}
        Tier(h) == [above |-> h, input |-> tierCost(raw, "input", h), output |-> tierCost(raw, "output", h),
                    cacheRead |-> tierCost(raw, "cacheRead", h), cacheWrite |-> tierCost(raw, "cacheWrite", h)]
        Base(rate) == Default(raw.flat[rate], tierCost(raw, rate, 0))
    IN  [input |-> Base("input"), output |-> Base("output"), cacheRead |-> Base("cacheRead"),
         cacheWrite |-> Base("cacheWrite"), unit |-> None, second |-> None,
         tiers |-> {t \in {Tier(h) : h \in thresholds} : \E f \in TokenRates : t[f] # None}]

-----------------------------------------------------------------------------
(* What a provider reports of its work, and the one usage made of it.      *)

Input(w) == w.fresh + w.read + w.write
Output(w) == w.visible + w.thought
Report(wire, w) ==
    [input |-> IF wire = "anthropic" THEN w.fresh ELSE Input(w),
     output |-> IF wire \in {"gemini", "gemini_images"} THEN w.visible ELSE Output(w),
     thoughts |-> IF wire \in {"gemini", "chat", "responses", "gemini_images"} THEN w.thought ELSE 0,
     cacheRead |-> w.read,
     cacheWrite |-> IF wire = "anthropic" THEN w.write ELSE 0,
     total |-> IF w.omitted THEN None ELSE Input(w) + Output(w),
     units |-> w.units, cost |-> w.cost, seconds |-> w.seconds]

Usage(prompt, completion, total) ==
    [prompt |-> prompt, completion |-> completion, total |-> total, cacheRead |-> 0, cacheWrite |-> 0,
     reasoning |-> 0, units |-> 0, seconds |-> 0, cost |-> None]

AnthropicUsage(r) ==
    LET prompt == r.input + r.cacheRead + r.cacheWrite
    IN  [Usage(prompt, r.output, prompt + r.output) EXCEPT !.cacheRead = r.cacheRead, !.cacheWrite = r.cacheWrite]

ChatUsage(r) == [Usage(r.input, r.output, Default(r.total, 0)) EXCEPT !.cacheRead = r.cacheRead, !.reasoning = r.thoughts]
ResponsesUsage(r) == [Usage(r.input, r.output, Default(r.total, 0)) EXCEPT !.cacheRead = r.cacheRead, !.reasoning = r.thoughts]

mapGeminiUsage(r) ==
    LET completion == r.output + r.thoughts
    IN  [Usage(r.input, completion, Default(r.total, r.input + completion))
            EXCEPT !.cacheRead = r.cacheRead, !.reasoning = r.thoughts]

\* None is no usage at all: a report to a media endpoint without a total.
transcriptionUsage(wire, r) ==
    IF wire = "duration" THEN [Usage(0, 0, 0) EXCEPT !.seconds = r.seconds]
    ELSE IF r.total = None THEN None ELSE Usage(r.input, r.output, r.total)
imageUsage(r) == IF r.total = None THEN None ELSE Usage(r.input, r.output, r.total)
geminiImageUsage(r) == IF r.total = None THEN None ELSE Usage(r.input, r.output + r.thoughts, r.total)
embeddingsUsage(r) == IF r.total = None THEN None ELSE Usage(r.input, 0, r.total)
geminiEmbeddingsUsage(r) == Usage(r.input, 0, r.input)
rerankUsage(r, cost) ==
    IF r.total = None /\ r.units = None /\ cost = None THEN None
    ELSE [Usage(Default(r.total, 0), 0, Default(r.total, 0)) EXCEPT !.units = Default(r.units, 0), !.cost = cost]
openrouterRerankUsage(r) == rerankUsage(r, r.cost)

mapUsage(wire, r) ==
    CASE wire = "anthropic" -> AnthropicUsage(r)
      [] wire = "chat" -> ChatUsage(r)
      [] wire = "responses" -> ResponsesUsage(r)
      [] wire = "gemini" -> mapGeminiUsage(r)
      [] wire \in {"tokens", "duration"} -> transcriptionUsage(wire, r)
      [] wire = "images" -> imageUsage(r)
      [] wire = "gemini_images" -> geminiImageUsage(r)
      [] wire = "embeddings" -> embeddingsUsage(r)
      [] wire = "gemini_embeddings" -> geminiEmbeddingsUsage(r)
      [] wire = "vercel_rerank" -> rerankUsage(r, None)
      [] wire = "openrouter_rerank" -> openrouterRerankUsage(r)

\* The usage as the three text contracts word it.
usageToAnthropic(u) ==
    [input |-> Less(u.prompt, u.cacheRead + u.cacheWrite), cacheRead |-> u.cacheRead,
     cacheWrite |-> u.cacheWrite, output |-> u.completion, reasoning |-> None, total |-> None]
toOpenAIUsage(u) ==
    [input |-> u.prompt, cacheRead |-> u.cacheRead, cacheWrite |-> None, output |-> u.completion,
     reasoning |-> u.reasoning, total |-> u.total]
toResponsesUsage(u) == toOpenAIUsage(u)
Rendered(contract, u) ==
    CASE contract = "messages" -> usageToAnthropic(u)
      [] contract = "responses" -> toResponsesUsage(u)
      [] contract = "chat" -> toOpenAIUsage(u)

-----------------------------------------------------------------------------
(* Images: what a profile takes, what is asked of the provider, and what   *)
(* is made of the picture that comes back.                                 *)

imageAccepted ==
    /\ request.asks.size \in {None, "auto"} \cup {model.sizes[i] : i \in DOMAIN model.sizes}
    /\ request.asks.format \in {None} \cup model.formats
    /\ request.asks.transparent => model.transparent

resolveImageSize ==
    IF request.asks.size \notin {None, "auto"} THEN request.asks.size
    ELSE IF model.autoSize THEN "auto" ELSE IF model.sizes = <<>> THEN None ELSE model.sizes[1]

\* A provider need not do as it is told, but one that is told nothing chooses for itself.
Drawn == {i \in Images : model.obeys => /\ resolveImageSize \in {None, "auto", i.size}
                                         /\ (model.recodes \/ request.asks.format \in {None, i.format})}

\* The picture is encoded as asked before the extensions see it, and checked after.
Encoded(i) == [i EXCEPT !.format = Default(request.asks.format, @), !.alpha = @ /\ request.asks.format # "jpeg"]
imageDelivers(i) ==
    /\ request.asks.transparent => i.alpha
    /\ request.asks.size \notin {None, "auto"} => i.size = request.asks.size

-----------------------------------------------------------------------------
endpoint == request.endpoint
streams == request.stream /\ model.native
Loggable == {"text", "embeddings", "rerank"}    \* these read the body with their log already open

Init ==
    /\ request \in Requests
    /\ \E m \in {n \in Models : n.endpoint = request.endpoint} :
          model = [m EXCEPT !.pricing = IF m.raw = None THEN @ ELSE pricingForVercelModel(m.raw)]
    /\ phase = "body" /\ spool = FALSE /\ held = None /\ charges = <<>> /\ finished = FALSE
    /\ work = None /\ fallback = None /\ usage = None /\ image = None /\ record = None /\ shown = None

Logged(status, u) ==
    record' = [status |-> status, usage |-> u, cost |-> IF u = None THEN None ELSE computeCost(model.pricing, u)]

\* Mutated: the usage the provider reported is not kept for when an extension strips it.
FinishStripped(u) ==
    /\ finished' = TRUE
    /\ charges' = IF finished \/ held = None THEN charges
                  ELSE Append(charges, IF u = None THEN 0 ELSE computeCost(model.pricing, u))
    /\ UNCHANGED held

\* finish() of the endpoint, and of the route: the lease is settled with a usage or released.
Finish(u) ==
    /\ finished' = TRUE
    /\ LET counted == Default(u, fallback)
       IN  charges' = IF finished \/ held = None THEN charges
                      ELSE Append(charges, IF counted = None THEN 0 ELSE computeCost(model.pricing, counted))
    /\ UNCHANGED held

\* Mutated: the files of an upload are left behind by a failure.
FailKeepingFiles ==
    /\ phase' = "over" /\ Logged("error", None)
    /\ UNCHANGED <<request, model, spool, work, fallback, usage, image, shown>>

\* A JSON request fails: the lease is finished, the files go, an error is logged.
Fail ==
    /\ phase' = "over" /\ spool' = FALSE /\ Logged("error", None)
    /\ UNCHANGED <<request, model, work, fallback, usage, image, shown>>

\* The parts of an upload are written to a directory of their own, which goes if they will not do.
Spool ==
    /\ phase = "body" /\ request.upload
    /\ phase' = "spooling" /\ spool' = TRUE
    /\ UNCHANGED <<request, model, held, charges, finished, work, fallback, usage, image, record, shown>>

ReadBody ==
    /\ phase = IF request.upload THEN "spooling" ELSE "body"
    /\ phase' = "route"
    /\ UNCHANGED <<request, model, spool, held, charges, finished, work, fallback, usage, image, record, shown>>

RejectBody ==
    /\ phase = IF request.upload THEN "spooling" ELSE "body"
    /\ phase' = "over" /\ spool' = FALSE
    /\ IF endpoint \in Loggable THEN Logged("error", None) ELSE UNCHANGED record
    /\ UNCHANGED <<request, model, held, charges, finished, work, fallback, usage, image, shown>>

transcriptionAccepted == request.stream => model.native
rerankAccepted == request.units <= model.documents
Supported ==
    /\ endpoint = "images" => imageAccepted
    /\ endpoint = "audio" => transcriptionAccepted
    /\ endpoint = "rerank" => rerankAccepted
Priced == request.budget => estimateMaximumCostCents(model.pricing, 0, request.units) # None

Refuse ==
    /\ phase = "route" /\ ~(Supported /\ Priced)
    /\ Fail /\ UNCHANGED <<held, charges, finished>>

\* Units are reserved for reranking alone: one for each document.
Reserve ==
    /\ phase = "route" /\ Supported /\ Priced
    /\ held' = IF ~request.limited THEN None
               ELSE Default(estimateMaximumCostCents(model.pricing, request.tokens, request.units), 0)
    /\ phase' = "upstream"
    /\ UNCHANGED <<request, model, spool, charges, finished, work, fallback, usage, image, record, shown>>

\* The provider fails, its answer does not parse, or the client is gone.
AttemptFails ==
    /\ phase = "upstream"
    /\ charges' = IF held = None THEN charges ELSE Append(charges, 0)
    /\ Fail /\ UNCHANGED <<held, finished>>

Answer(w) ==
    /\ phase = "upstream" /\ ~streams
    /\ LET u == mapUsage(model.wire, Report(model.wire, w))
       IN  /\ work' = w /\ usage' = u
           /\ fallback' = IF endpoint = "text" THEN None ELSE u
    /\ IF endpoint = "images" THEN image' \in Drawn ELSE image' = None
    /\ phase' = "answered"
    /\ UNCHANGED <<request, model, spool, held, charges, finished, record, shown>>

OpenStream ==
    /\ phase = "upstream" /\ streams
    /\ phase' = "stream"
    /\ UNCHANGED <<request, model, spool, held, charges, finished, work, fallback, usage, image, record, shown>>

\* What the extensions leave of a usage and of a picture.
Extended(u, i) ==
    /\ usage' \in {u, None}
    /\ image' \in IF i = None THEN {None} ELSE {Encoded(i)} \cup Images
    /\ image' # None => imageDelivers(image')

\* An image that was asked for as a stream and came as JSON is sent as one last event.
Extend ==
    /\ phase = "answered" /\ Extended(usage, image)
    /\ IF request.stream THEN phase' = "send" /\ UNCHANGED <<charges, held, finished>>
       ELSE phase' = "finished" /\ Finish(usage')
    /\ UNCHANGED <<request, model, spool, work, fallback, record, shown>>

\* An extension fails, the picture is not as asked, or the ranking is no longer one.
ExtensionFails ==
    /\ phase = "answered"
    /\ Finish(None) /\ Fail

Give(u, i) ==
    shown' = [usage |-> IF u = None THEN None
                        ELSE IF endpoint = "text" THEN Rendered(request.contract, u) ELSE u,
              image |-> i]

Conclude ==
    /\ phase = "finished" /\ phase' = "over"
    /\ spool' = FALSE /\ Logged("success", usage) /\ Give(usage, image)
    /\ UNCHANGED <<request, model, held, charges, finished, work, fallback, usage, image>>

\* The directory does not go at once: the request fails, and it goes at the second try.
RemovalFails ==
    /\ phase = "finished" /\ request.upload
    /\ Finish(None) /\ Fail

\* The event goes through the extensions once more, which nothing checks, and is written;
\* or, when they or the client fail it, an error is.
Send(ok) ==
    /\ phase = "send" /\ phase' = "over"
    /\ Finish(usage) /\ spool' = FALSE
    /\ Logged(IF ok THEN "success" ELSE "error", usage)
    /\ IF ok THEN \E u \in {usage, None}, i \in Images : Give(u, i) ELSE UNCHANGED shown
    /\ UNCHANGED <<request, model, work, fallback, usage, image>>

\* The last event carries the usage, which counts from before the event is written.
Done(w) ==
    /\ phase = "stream" /\ phase' = "tail"
    /\ work' = w
    /\ IF endpoint = "images" THEN \E i \in Drawn : Extended(mapUsage(model.wire, Report(model.wire, w)), i)
       ELSE Extended(mapUsage(model.wire, Report(model.wire, w)), None)
    /\ UNCHANGED <<request, model, spool, held, charges, finished, fallback, record, shown>>

\* The stream breaks off before its last event, or an extension or the check of a picture
\* fails that one: nothing has been noted of what it cost.
StreamFails ==
    /\ phase = "stream" /\ phase' = "over"
    /\ Finish(None) /\ spool' = FALSE /\ Logged("error", None)
    /\ UNCHANGED <<request, model, work, fallback, usage, image, shown>>

\* After its last event a stream ends, or the event was not written or was not the last.
StreamEnds(ok) ==
    /\ phase = "tail" /\ phase' = "over"
    /\ Finish(usage) /\ spool' = FALSE
    /\ Logged(IF ok THEN "success" ELSE "error", usage)
    /\ IF ok THEN Give(usage, image) ELSE UNCHANGED shown
    /\ UNCHANGED <<request, model, work, fallback, usage, image>>

Next ==
    \/ Spool \/ ReadBody \/ RejectBody \/ Refuse \/ Reserve \/ AttemptFails \/ OpenStream
    \/ Extend \/ ExtensionFails \/ Conclude \/ RemovalFails \/ StreamFails
    \/ \E w \in {v \in Works : v.of = model.wire} : Answer(w) \/ Done(w)
    \/ \E ok \in BOOLEAN : Send(ok) \/ StreamEnds(ok)

Spec == Init /\ [][Next]_vars
-----------------------------------------------------------------------------
TypeOK ==
    /\ phase \in {"body", "spooling", "route", "upstream", "answered", "send", "stream", "tail", "finished", "over"}
    /\ spool \in BOOLEAN /\ finished \in BOOLEAN /\ held \in Nat \cup {None}

\* An upload is on disk for as long as a provider may still be sent it, and never
\* after its request; whatever was reserved has then been settled or given back, once.
TidiedUp ==
    /\ phase \in {"route", "upstream"} => spool = request.upload
    /\ phase = "over" => ~spool /\ Len(charges) = IF held = None THEN 0 ELSE 1

\* What work costs, bucket by bucket: its tokens at the rates for prompts of its
\* length, where a wire tells cached tokens apart; a hidden write to the cache is input.
RateAt(rate, prompt) == effectiveRate(model.pricing, rate, prompt)
Due(w) ==
    LET size == Input(w)
        told == model.wire = "anthropic"
        cached == model.wire \in {"anthropic", "chat", "responses", "gemini"}
        known == RatesOf(model.pricing) # {} \/ model.pricing.unit # None \/ model.pricing.second # None
                 \/ model.pricing.tiers # {}
    IN  IF ~known THEN IF model.wire = "openrouter_rerank" THEN Default(w.cost, 0) ELSE 0
        ELSE IF model.wire = "duration" THEN w.seconds * Default(model.pricing.second, 0)
        ELSE (w.fresh + (IF cached THEN 0 ELSE w.read) + (IF told THEN 0 ELSE w.write)) * RateAt("input", size)
             + (IF cached THEN w.read ELSE 0) * RateAt("cacheRead", size)
             + (IF told THEN w.write ELSE 0) * RateAt("cacheWrite", size)
             + Output(w) * RateAt("output", size)
             + Default(w.units, 0) * Default(model.pricing.unit, 0)

\* Each token is charged once, at its own rate, whichever way its wire counts it, and
\* no extension makes a request free - unless the text endpoints, which keep no usage
\* of their own, see it stripped or fail, or the provider reports no total to a media
\* endpoint.
Reported == mapUsage(model.wire, Report(model.wire, work)) # None
Paid ==
    phase = "over" /\ charges # <<>> /\ work # None /\ Reported =>
        \/ charges[1] = Due(work)
        \/ charges[1] = 0 /\ usage = None /\ (streams \/ endpoint = "text")
        \/ charges[1] = 0 /\ record.status = "error" /\ endpoint = "text"

\* A budget is not overdrawn by a provider that keeps to what was reserved.  Seconds of
\* audio are the gap: no endpoint for files reserves any.
Covered ==
    phase = "over" /\ charges # <<>> /\ request.budget =>
        \/ charges[1] <= held
        \/ work.seconds > 0
        \/ Input(work) + Output(work) > request.tokens \/ Default(work.units, 0) > request.units

\* The log agrees with the quota, and the client reads in its own contract what the
\* provider did; the total is missing only where a provider leaves it out.
Told ==
    /\ phase = "over" /\ charges # <<>> /\ record.usage # None => record.cost = charges[1]
    /\ shown # None /\ shown.usage # None /\ endpoint = "text" =>
          LET view == shown.usage
              written == Default(view.cacheWrite, 0)
          IN  /\ view.output = Output(work) /\ view.cacheRead = work.read
              /\ Input(work) = view.input + IF request.contract = "messages" THEN view.cacheRead + written ELSE 0
              /\ view.reasoning \in {None, work.thought} \cup IF model.wire = "anthropic" THEN {0} ELSE {}
              /\ view.total \in {None, Input(work) + Output(work)} \cup IF work.omitted THEN {0} ELSE {}

\* A picture that is delivered, by a provider that need not do as it is told and through
\* extensions that may draw it anew, has the size and the transparency that were asked
\* for.  The event made of a picture that came as JSON is the gap: it is not checked again.
Delivered ==
    shown # None /\ shown.image # None => imageDelivers(shown.image) \/ (request.stream /\ ~model.native)

\* A bracketed price list and the tiers made of it agree on every prompt, but for those
\* exactly as long as a threshold, which the list counts to the bracket above.
Listed(raw, rate, size) ==
    LET above == {t \in raw.brackets[rate] : t.min > 0 /\ t.min <= size /\ (t.max = None \/ size < t.max)}
    IN  IF above # {} THEN (CHOOSE t \in above : TRUE).cost ELSE Default(raw.flat[rate], tierCost(raw, rate, 0))
Tiered ==
    model.raw # None => \A rate \in TokenRates, size \in 0 .. 6 :
        \/ Listed(model.raw, rate, size) \in {None, effectiveRate(model.pricing, rate, size)}
        \/ \E t \in UNION {model.raw.brackets[f] : f \in TokenRates} : t.min = size

MeteringKept == TypeOK /\ TidiedUp /\ Paid /\ Covered /\ Told /\ Delivered /\ Tiered
=============================================================================
