---------------------------- MODULE CatalogSync ----------------------------
(***************************************************************************)
(* Keeping the model catalogue up to date (catalog/sync and its script).   *)
(* Two sources say which models exist, a third only enriches what they     *)
(* agree on.  A run fetches them, each of which may answer in full, miss a *)
(* few details, or be down; it matches what they list, merges it into a    *)
(* copy of the catalogue and writes a report and a history.  Nothing but a *)
(* human changes the catalogue: it applies items of a report, and verifies *)
(* or refuses the reasoning a report has drafted.                          *)
(***************************************************************************)
EXTENDS Integers, Sequences, FiniteSets

CONSTANTS
    None,
    Names,          \* model names as sources and catalogues spell them
    normalizeTag,   \* [Names -> tags]: what is left of a spelling
    Offers,         \* what a source may come to say of a model
    Listings,       \* what the sources list at first: [source -> [name -> offer or None]]
    Catalogues,     \* the catalogues a history may begin with
    Dev,            \* [tags -> what models.dev says, or None]
    SafeKind,       \* adapters one of whose reasoning kinds needs no more than levels
    Ratio,          \* a run with one failure in Ratio calls still counts as complete (positive)
    MaxRuns, MaxChanges, MaxMissing

VARIABLES
    offers,         \* [source -> [name -> offer or None]]
    catalog,        \* [<<adapter, name>> -> entry], a partial function
    history,        \* what past reports have seen, on disk
    report,         \* the last report, or None
    sightings,      \* what each report run was told, in order (history variable)
    runs, changes

vars == <<offers, catalog, history, report, sightings, runs, changes>>

-----------------------------------------------------------------------------
Existence == {"vercel-ai-gateway", "openrouter"}
Adapters == {"openai", "azureopenai"}
Fields == {"price", "context"}

Magnitude(n) == IF n < 0 THEN -n ELSE n
within(a, b, percent) ==
    100 * Magnitude(a - b) <= percent * (IF a > b THEN a ELSE b)
ToleranceOf(field) == IF field = "price" THEN 3 ELSE 0

-----------------------------------------------------------------------------
(* What the constants are, for every catalogue and whatever sources say.   *)

Figures == Nat \cup {None}
AllOffers == [price : Figures, context : Figures, tags : SUBSET STRING, tools : BOOLEAN, outputs : SUBSET STRING]
Operations == {"text", "image", "video", "audio", "embedding", "reranking"}
Reasonings == {"drafted", "verified", "denied"}
AllEntries ==
    [operations : SUBSET Operations, price : Figures, context : Figures, tools : BOOLEAN \cup {None},
     reasoning : Reasonings \cup {None}, review : BOOLEAN, deprecated : BOOLEAN]
Described == [price : Figures, context : Figures, reasons : BOOLEAN]

\* A catalogue that has been kept as it should be has no draft without its mark.
WellKept ==
    /\ IsFiniteSet(Names) /\ Offers \subseteq AllOffers /\ {Ratio, MaxRuns, MaxChanges} \subseteq Nat
    /\ Listings \subseteq [Existence -> [Names -> AllOffers \cup {None}]]
    /\ \A n \in Names : Dev[normalizeTag[n]] \in Described \cup {None}
    /\ \A c \in Catalogues :
          /\ DOMAIN c \subseteq Adapters \X Names /\ c = [k \in DOMAIN c |-> c[k]]
          /\ \A k \in DOMAIN c : c[k] \in AllEntries /\ (c[k].reasoning = "drafted" => c[k].review)
    /\ None \notin Nat \cup BOOLEAN \cup Reasonings \cup AllOffers \cup Described \cup (Adapters \X Names)

-----------------------------------------------------------------------------
(* Fetching.  An answer is the models whose details arrived, and whether   *)
(* an absence from it can be trusted.                                      *)

Listed(source) == {n \in Names : offers[source][n] # None}

\* Mutated: details that failed do not make an answer partial.
isFetchCompleteAlways(attempted, failed) == TRUE
isFetchComplete(attempted, failed) == attempted = 0 \/ failed * Ratio <= attempted

\* A run leaves a source out or finds it down (silent), cuts its answer short, or hears
\* it but for the models whose detail calls have failed after their retries.
Answer(source, heard, complete) ==
    [models |-> [n \in heard |-> offers[source][n]], complete |-> complete]
Fetched(source) ==
    LET listed == Listed(source)
        missed == {m \in SUBSET listed : Cardinality(m) <= MaxMissing}
    IN  {Answer(source, {}, FALSE)} \cup {Answer(source, listed \ m, FALSE) : m \in missed \ {{}}} \cup
        {Answer(source, listed \ m, isFetchComplete(Cardinality(listed), Cardinality(m))) : m \in missed}

\* The adapters a model may be served by: "openai/" is OpenAI's, and Azure's too
\* where an endpoint of the model says so.
candidateAdapters(offer) == {"openai"} \cup (offer.tags \cap {"azureopenai"})

\* What a fetch says of a deployment's model, by its exact spelling.
Said(results, source, key) ==
    LET models == results[source].models
    IN  IF key[2] \in DOMAIN models /\ key[1] \in candidateAdapters(models[key[2]]) THEN models[key[2]] ELSE None
Saying(results, key) == {s \in Existence : Said(results, s, key) # None}
matchCandidates(results) == {k \in Adapters \X Names : Saying(results, k) # {}}
Confirmed(results, key) == Saying(results, key) = Existence
confirmedKey(key) == <<key[1], normalizeTag[key[2]]>>

-----------------------------------------------------------------------------
(* Merging: two of three sources make a figure.                            *)

resolveNumeric(values, percent) ==
    LET Agree(s, t) == {s, t} \subseteq DOMAIN values /\ within(values[s], values[t], percent)
    IN  IF Cardinality(DOMAIN values) = 1 THEN values[CHOOSE s \in DOMAIN values : TRUE]
        ELSE IF Agree("vercel-ai-gateway", "openrouter") \/ Agree("vercel-ai-gateway", "models-dev")
             THEN values["vercel-ai-gateway"]
        ELSE IF Agree("openrouter", "models-dev") THEN values["openrouter"]
        ELSE None

FieldValues(results, key, dev, field) ==
    [s \in {t \in Saying(results, key) : Said(results, t, key)[field] # None} \cup
           (IF dev # None /\ dev[field] # None THEN {"models-dev"} ELSE {}) |->
        IF s = "models-dev" THEN dev[field] ELSE Said(results, s, key)[field]]

InConflict(values, percent) == Cardinality(DOMAIN values) > 1 /\ resolveNumeric(values, percent) = None

Preferred(results, key) ==
    IF "vercel-ai-gateway" \in Saying(results, key) THEN "vercel-ai-gateway" ELSE "openrouter"

\* models.dev has a name of its own for the model, and is believed only if a figure agrees.
ExistenceNumeric(results, key, field) ==
    LET said == {s \in Saying(results, key) : Said(results, s, key)[field] # None}
    IN  IF said = {} THEN None
        ELSE Said(results, IF "vercel-ai-gateway" \in said THEN "vercel-ai-gateway" ELSE "openrouter", key)[field]
findModelsDevMatch(results, key) ==
    LET dev == Dev[normalizeTag[key[2]]]
    IN  IF dev # None /\ \E f \in Fields :
               /\ None \notin {ExistenceNumeric(results, key, f), dev[f]}
               /\ within(ExistenceNumeric(results, key, f), dev[f], 10)
        THEN dev ELSE None

\* An operation is added to an entry that has none at all, never to one that has.
ensureOperations(entry, results, key) ==
    IF entry.operations # {} THEN entry.operations
    ELSE LET outputs == Said(results, Preferred(results, key), key).outputs
         IN  (IF outputs = {} THEN {"text"} ELSE {}) \cup (outputs \cap {"text", "image"})

Stub == [operations |-> {}, price |-> None, context |-> None, tools |-> None,
         reasoning |-> None, review |-> FALSE, deprecated |-> FALSE]

mergeCatalogEntry(existing, results, key, dev) ==
    LET operations == ensureOperations(existing, results, key)
        text == "text" \in operations
        Merged(field) ==
            LET value == resolveNumeric(FieldValues(results, key, dev, field), ToleranceOf(field))
            IN  IF value = None THEN existing[field] ELSE value
        offersTools == \E s \in Saying(results, key) : Said(results, s, key).tools
    IN  [existing EXCEPT !.operations = operations, !.price = Merged("price"),
                         !.context = IF text THEN Merged("context") ELSE @,
                         !.tools = IF text /\ @ = None /\ offersTools THEN TRUE ELSE @]

\* A drafted reasoning spec always carries its mark for review; a verified one is left alone.
enrichCatalogEntry(entry, key, dev) ==
    IF dev = None \/ "text" \notin entry.operations THEN entry
    ELSE IF ~dev.reasons \/ (entry.reasoning \in {"drafted", "verified"} /\ ~entry.review) THEN entry
    ELSE [entry EXCEPT !.review = TRUE, !.reasoning = IF key[1] \in SafeKind THEN "drafted" ELSE @]

\* Mutated: an entry under another spelling is not found.
findExistingKeyExact(models, key) == IF key \in DOMAIN models THEN key ELSE None

findExistingKey(models, key) ==
    IF key \in DOMAIN models THEN key
    ELSE LET alike == {k \in DOMAIN models : confirmedKey(k) = confirmedKey(key)}
         IN  IF alike = {} THEN None ELSE CHOOSE k \in alike : TRUE

Entry(results, key) ==
    LET dev == findModelsDevMatch(results, key)
        existing == findExistingKey(catalog, key)
    IN  enrichCatalogEntry(mergeCatalogEntry(IF existing = None THEN Stub ELSE catalog[existing],
                                             results, key, dev), key, dev)

-----------------------------------------------------------------------------
(* The history of past reports, and what is gone.                          *)

updateHistory(previous, results) ==
    LET single == {k \in matchCandidates(results) : ~Confirmed(results, k)}
        Source(k) == CHOOSE s \in Saying(results, k) : TRUE
    IN  [single |-> [k \in single |->
            [source |-> Source(k),
             streak |-> IF k \in DOMAIN previous.single /\ previous.single[k].source = Source(k)
                        THEN previous.single[k].streak + 1 ELSE 1]],
         confirmed |-> previous.confirmed \cup
                       {confirmedKey(k) : k \in {c \in matchCandidates(results) : Confirmed(results, c)}}]

findDeprecations(results, confirmed) ==
    IF \E s \in Existence : ~results[s].complete THEN {}
    ELSE {k \in DOMAIN catalog :
            /\ ~catalog[k].deprecated /\ confirmedKey(k) \in confirmed
            /\ \A c \in matchCandidates(results) : confirmedKey(c) # confirmedKey(k)}

-----------------------------------------------------------------------------
Init ==
    /\ offers \in Listings
    /\ catalog \in Catalogues
    /\ history = [single |-> <<>>, confirmed |-> {}]
    /\ report = None /\ sightings = <<>> /\ runs = 0 /\ changes = 0

\* A source lists, drops or reprices a model.
Change(source, name, offer) ==
    /\ changes < MaxChanges /\ offer # offers[source][name]
    /\ offers' = [offers EXCEPT ![source][name] = offer]
    /\ changes' = changes + 1
    /\ UNCHANGED <<catalog, history, report, sightings, runs>>

Report(results, seen) ==
    LET known == {k \in matchCandidates(results) : findExistingKey(catalog, k) # None}
    IN  [results |-> results, offers |-> offers,
         new |-> {[key |-> k, was |-> Stub, entry |-> Entry(results, k), from |-> k] :
                    k \in {c \in matchCandidates(results) \ known : Confirmed(results, c)}},
         updated |-> {u \in {[key |-> findExistingKey(catalog, k), was |-> catalog[findExistingKey(catalog, k)],
                              entry |-> Entry(results, k), from |-> k] : k \in known} : u.entry # u.was},
         deprecations |-> {[key |-> k, was |-> catalog[k], entry |-> [catalog[k] EXCEPT !.deprecated = TRUE]] :
                             k \in findDeprecations(results, seen.confirmed)}]

\* Only in report mode is anything written, and only then is a run counted here.
Run(results, mode) ==
    /\ runs < MaxRuns
    /\ LET seen == updateHistory(history, results)
       IN  IF mode = "verify" THEN UNCHANGED <<history, report, sightings, runs>>
           ELSE /\ history' = seen
                /\ report' = Report(results, seen)
                /\ sightings' = Append(sightings, results)
                /\ runs' = runs + 1
    /\ UNCHANGED <<offers, catalog, changes>>

\* A human applies an item of the report to the entry it was made from.
Apply(item) ==
    /\ IF item.key \in DOMAIN catalog THEN catalog[item.key] = item.was ELSE item.was = Stub
    /\ catalog' = [k \in DOMAIN catalog \cup {item.key} |-> IF k = item.key THEN item.entry ELSE catalog[k]]
    /\ UNCHANGED <<offers, history, report, sightings, runs, changes>>

Review(key, verdict) ==
    /\ catalog[key].review
    /\ catalog' = [catalog EXCEPT ![key].review = FALSE, ![key].reasoning = verdict]
    /\ UNCHANGED <<offers, history, report, sightings, runs, changes>>

Next ==
    \/ \E s \in Existence, n \in Names, o \in Offers \cup {None} : Change(s, n, o)
    \/ \E vercel \in Fetched("vercel-ai-gateway"), openrouter \in Fetched("openrouter"), mode \in {"report", "verify"} :
          Run([s \in Existence |-> IF s = "openrouter" THEN openrouter ELSE vercel], mode)
    \/ report # None /\ \E item \in report.new \cup report.updated \cup report.deprecations : Apply(item)
    \/ \E k \in DOMAIN catalog : \E verdict \in {"verified", "denied"} : Review(k, verdict)

Spec == Init /\ [][Next]_vars
-----------------------------------------------------------------------------
TypeOK ==
    /\ DOMAIN catalog \subseteq Adapters \X Names /\ changes \in 0 .. MaxChanges
    /\ Len(sightings) <= runs /\ runs <= MaxRuns

\* The history says what the kept runs were told and nothing else: which models both
\* sources have ever listed together, and for how many runs in a row, up to the last,
\* a model was seen at one and the same source alone.
OneSource(i, key, source) == Saying(sightings[i], key) = {source}
HistoryTrue ==
    /\ history.confirmed =
          {confirmedKey(k) : k \in {c \in Adapters \X Names : \E i \in DOMAIN sightings : Confirmed(sightings[i], c)}}
    /\ \A k \in Adapters \X Names, s \in Existence :
          LET streaks == {n \in 1 .. Len(sightings) :
                            \A i \in Len(sightings) - n + 1 .. Len(sightings) : OneSource(i, k, s)}
          IN  (k \in DOMAIN history.single /\ history.single[k].source = s) =>
                 /\ history.single[k].streak \in streaks
                 /\ \A n \in streaks : n <= history.single[k].streak
    /\ DOMAIN history.single =
          {k \in Adapters \X Names : \E s \in Existence : sightings # <<>> /\ OneSource(Len(sightings), k, s)}

\* A model is reported as gone only if both sources once listed it together and, asked
\* in one run that both answered but for a tolerated share of details, neither named
\* it under any spelling.  The share is the gap: a model whose details failed at every
\* source that lists it is reported too.
StillListed(key, source) ==
    {n \in Names : /\ report.offers[source][n] # None /\ normalizeTag[n] = normalizeTag[key[2]]
                   /\ key[1] \in candidateAdapters(report.offers[source][n])}
GoneOnly ==
    report # None => \A d \in report.deprecations :
        /\ \E i \in DOMAIN sightings, n \in Names :
              normalizeTag[n] = normalizeTag[d.key[2]] /\ Confirmed(sightings[i], <<d.key[1], n>>)
        /\ \A s \in Existence :
              LET listed == {n \in Names : report.offers[s][n] # None}
                  failed == listed \ DOMAIN report.results[s].models
              IN  /\ Cardinality(failed) * Ratio <= Cardinality(listed)
                  /\ StillListed(d.key, s) \subseteq failed

\* A figure in a report is the entry's own, or the one source's that gave any, or
\* two sources' that agree on it.
Given(item, field, source) ==
    LET said == IF source = "models-dev" THEN Dev[normalizeTag[item.from[2]]]
                ELSE Said(report.results, source, item.from)
    IN  /\ said # None /\ said[field] # None
        /\ within(said[field], item.entry[field], ToleranceOf(field))
Backed ==
    report # None => \A item \in report.new \cup report.updated, f \in Fields :
        item.entry[f] # item.was[f] =>
            \/ Cardinality({s \in Existence \cup {"models-dev"} : Given(item, f, s)}) >= 2
            \/ Cardinality(DOMAIN FieldValues(report.results, item.from,
                                              findModelsDevMatch(report.results, item.from), f)) = 1

\* A report changes nothing a human has settled: the operations of an entry, a
\* parameter it has ruled out, a reasoning spec it has verified, a deprecation.
Settled ==
    report # None => \A item \in report.updated :
        /\ item.was.operations # {} => item.entry.operations = item.was.operations
        /\ item.was.tools # None => item.entry.tools = item.was.tools
        /\ (item.was.reasoning = "verified" /\ ~item.was.review) => item.entry.reasoning = "verified" /\ ~item.entry.review
        /\ item.entry.deprecated = item.was.deprecated

\* New models are those both sources list, and are not in the catalogue under any spelling.
NewOnly ==
    report # None => \A item \in report.new :
        /\ Saying(report.results, item.from) = Existence
        /\ \A k \in DOMAIN catalog : confirmedKey(k) = confirmedKey(item.key) => \E other \in report.new : other.key = k

\* While nothing awaits review, no reasoning that only a report has drafted is in the
\* catalogue; and applying what a report says of a model leaves it nothing more to say.
pendingReviewEntries(models) == {k \in DOMAIN models : models[k].review}
Reviewed == pendingReviewEntries(catalog) = {} => \A k \in DOMAIN catalog : catalog[k].reasoning # "drafted"
Quiet ==
    report # None => \A item \in report.new \cup report.updated :
        LET dev == findModelsDevMatch(report.results, item.from)
        IN  enrichCatalogEntry(mergeCatalogEntry(item.entry, report.results, item.from, dev), item.from, dev) = item.entry

CatalogueKept == TypeOK /\ HistoryTrue /\ GoneOnly /\ Backed /\ Settled /\ NewOnly /\ Reviewed /\ Quiet
=============================================================================
