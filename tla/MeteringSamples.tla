-------------------------- MODULE MeteringSamples --------------------------
(***************************************************************************)
(* Prices, deployments, work and pictures, and the requests that are       *)
(* charged for them, for module Metering.                                  *)
(***************************************************************************)
EXTENDS Naturals, Sequences

CONSTANT None

\* Price lists: none, one rate per bucket, two tiers, and Vercel's brackets of unequal widths.
Prices(input, output, read, unit, second, tiers) ==
    [input |-> input, output |-> output, cacheRead |-> read, cacheWrite |-> None,
     unit |-> unit, second |-> second, tiers |-> tiers]
Unknown == Prices(None, None, None, None, None, {})
Longer == [above |-> 2, input |-> 6, output |-> None, cacheRead |-> 2, cacheWrite |-> 7]
Flat == Prices(3, 5, 1, None, None, {})
Stepped == Prices(3, 5, None, None, None, {Longer, [Longer EXCEPT !.above = 3, !.input = None, !.output = 9]})
Bracket(min, max, cost) == [min |-> min, max |-> max, cost |-> cost]
Raw == [flat |-> [r \in {"input", "output", "cacheRead", "cacheWrite"} |-> IF r = "output" THEN 5 ELSE None],
        brackets |-> [r \in {"input", "output", "cacheRead", "cacheWrite"} |->
            CASE r = "input" -> {Bracket(0, 2, 3), Bracket(2, 4, 6), Bracket(4, None, 8)}
              [] r = "output" -> {Bracket(0, 3, 5), Bracket(3, None, 9)}
              [] r = "cacheRead" -> {Bracket(0, 2, 1), Bracket(2, None, 2)}
              [] OTHER -> {}]]

\* Deployments of every wire; an images model either streams, recodes or does as it is told.
Deployment(endpoint, w, pricing, native) ==
    [endpoint |-> endpoint, wire |-> w, pricing |-> pricing, raw |-> None, native |-> native, documents |-> 2,
     sizes |-> <<"big", "small">>, autoSize |-> FALSE, formats |-> {"png", "jpeg"}, transparent |-> TRUE,
     recodes |-> FALSE, obeys |-> FALSE]
SampleDeployments ==
    {Deployment("text", w, p, FALSE) :
        w \in {"anthropic", "chat", "responses", "gemini"}, p \in {Flat, Stepped, Unknown}} \cup
    {[Deployment("text", "chat", Unknown, FALSE) EXCEPT !.raw = Raw]} \cup
    {Deployment("embeddings", w, Flat, FALSE) : w \in {"embeddings", "gemini_embeddings"}} \cup
    {Deployment("rerank", w, p, FALSE) :
        w \in {"vercel_rerank", "openrouter_rerank"}, p \in {Prices(None, None, None, 4, None, {}), Unknown}} \cup
    {Deployment("audio", w, Prices(3, 5, None, None, 2, {}), n) : w \in {"tokens", "duration"}, n \in BOOLEAN} \cup
    {Deployment("images", "images", Flat, TRUE),
     [Deployment("images", "images", Flat, FALSE) EXCEPT !.autoSize = TRUE, !.recodes = TRUE],
     [Deployment("images", "gemini_images", Flat, FALSE) EXCEPT !.obeys = TRUE]}

\* What a provider may have done: every mixture of the buckets its wire tells apart.
Work(of, fresh, read, write, visible, thought, omitted) ==
    [of |-> of, fresh |-> fresh, read |-> read, write |-> write, visible |-> visible, thought |-> thought,
     omitted |-> omitted, units |-> None, cost |-> None, seconds |-> 0]
SampleWorks ==
    {Work(w, f, r, c, 1, t, o) : w \in {"anthropic", "chat", "responses", "gemini"},
        f \in 0 .. 2, r \in 0 .. 1, c \in 0 .. 1, t \in 0 .. 1, o \in BOOLEAN} \cup
    {Work(w, 2, 0, 0, 1, t, o) : w \in {"images", "gemini_images", "tokens"}, t \in 0 .. 1, o \in BOOLEAN} \cup
    {Work(w, 2, 0, 0, 0, 0, o) : w \in {"embeddings", "gemini_embeddings"}, o \in BOOLEAN} \cup
    {[Work("duration", 0, 0, 0, 0, 0, FALSE) EXCEPT !.seconds = s] : s \in 1 .. 2} \cup
    {[Work(w, 0, 0, 0, 0, 0, TRUE) EXCEPT !.units = u, !.cost = c] :
        w \in {"vercel_rerank", "openrouter_rerank"}, u \in {None, 1, 2}, c \in {None, 3}}

SampleImages ==
    {[format |-> f, size |-> s, alpha |-> FALSE] : f \in {"png", "jpeg"}, s \in {"big", "small"}} \cup
    {[format |-> "png", size |-> "big", alpha |-> TRUE]}

\* Requests of keys with a budget, with limits only, and with neither; "odd" is a size no model has.
Asks(format, size, transparent) == [format |-> format, size |-> size, transparent |-> transparent]
Req(endpoint, contract, stream, upload, units) ==
    [endpoint |-> endpoint, contract |-> contract, stream |-> stream, upload |-> upload, units |-> units,
     limited |-> TRUE, budget |-> TRUE, tokens |-> 5, asks |-> Asks(None, None, FALSE)]
Reqs ==
    {Req("text", c, FALSE, FALSE, 0) : c \in {"chat", "responses", "messages"}} \cup
    {Req("embeddings", None, FALSE, FALSE, 0)} \cup
    {[Req("rerank", None, FALSE, FALSE, u) EXCEPT !.budget = b] : u \in 1 .. 3, b \in BOOLEAN} \cup
    {Req("audio", None, s, TRUE, 0) : s \in BOOLEAN} \cup
    {[Req("images", None, s, u, 0) EXCEPT !.asks = a] : s \in BOOLEAN, u \in BOOLEAN,
        a \in {Asks(None, "auto", FALSE), Asks("jpeg", "small", FALSE), Asks("png", "big", TRUE), Asks(None, "odd", FALSE)}}
SampleBills == Reqs \cup {[Req("text", "chat", FALSE, FALSE, 0) EXCEPT !.budget = FALSE, !.limited = FALSE]}
=============================================================================
