-------------------------- MODULE CatalogueSamples --------------------------
(***************************************************************************)
(* Models, two sources that differ about them, and a catalogue, for module *)
(* CatalogSync.                                                            *)
(***************************************************************************)
EXTENDS Integers, Sequences, TLC

CONSTANT None

\* Two spellings of one model, and another model.
SampleNames == {"m-1", "m.1", "n"}
SampleTags == [n \in SampleNames |-> IF n = "n" THEN "n" ELSE "m-1"]
Offer(price, tags) ==
    [price |-> price, context |-> 8, tags |-> tags, tools |-> price = 100, outputs |-> IF tags = {} THEN {"image"} ELSE {}]

\* Two figures within the tolerance of each other, and one that is far from both.
Usual == Offer(100, {"azureopenai"})
Close == Offer(102, {"azureopenai"})
Apart == Offer(150, {})

\* What a source comes to say of a model has no price, and names what no entry can do.
SampleOffers == {[Apart EXCEPT !.price = None, !.outputs = {"audio"}]}

\* The sources agree on the spelling, or each has its own.
Row(m, d, n) == [k \in SampleNames |-> IF k = "m-1" THEN m ELSE IF k = "m.1" THEN d ELSE n]
Both(v, o) == [s \in {"vercel-ai-gateway", "openrouter"} |-> IF s = "openrouter" THEN o ELSE v]
SampleListings ==
    {Both(Row(Usual, None, Apart), Row(Close, None, Apart)),
     Both(Row(Usual, None, Usual), Row(Apart, Apart, None))}
Entry(ops, tools, reasoning) == [operations |-> ops, price |-> 100, context |-> 8, tools |-> tools,
         reasoning |-> reasoning, review |-> FALSE, deprecated |-> FALSE]

\* One entry a human has settled, and one of an image model.
SampleCatalogues == {(<<"openai", "m-1">> :> Entry({"text"}, FALSE, "verified")) @@
               (<<"openai", "n">> :> Entry({"image"}, None, None))}
SampleDev == [t \in {"m-1", "n"} |-> IF t = "n" THEN None ELSE [price |-> 105, context |-> 8, reasons |-> TRUE]]
=============================================================================
