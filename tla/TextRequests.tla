---------------------------- MODULE TextRequests ----------------------------
(***************************************************************************)
(* What becomes of the files, images and parameters of one text request on *)
(* its way to the deployments it is tried on: eligibility and execution in *)
(* routeChat (endpoints/runtime/parameterPolicy.ts), the resolver of       *)
(* content inputs it keeps for the whole request                           *)
(* (files/requestContentInputs.ts), the policy for unsupported parameters  *)
(* (catalog/parameters.ts) and the last check before the adapter           *)
(* (gateway/textRequestValidation.ts).                                     *)
(*                                                                         *)
(* Abstractions.  Requests have passed the constructor of the resolver:    *)
(* one source per part, public HTTPS URLs, valid inline data.  Redirects,  *)
(* addresses and signatures of bytes are in the outcome of a download and  *)
(* in what Content says of it.  Which candidate is next is the router's    *)
(* (module Router); parts whose promise has settled continue in any order. *)
(***************************************************************************)
EXTENDS Naturals, Sequences, FiniteSets, SequencesExt, FiniteSetsExt

CONSTANTS
    Requests,     \* [parts, engine, asks, wire]
    Candidates,   \* [files, images, fileTypes, imageTypes, reads, max, can, without, wire]
    Content,      \* of a value: [signature, declared, extension, size, legible]
    None,         \* no signature, no extension
    MaxFetches,   \* MAX_CONCURRENT_FETCHES
    MaxFetched,   \* MAX_MATERIALIZED_INPUT_BYTES
    MaxTotal,     \* MAX_PORTABLE_CONTENT_INPUT_BYTES
    MaxAttempts

VARIABLES
    req, strategy,  \* the canonical request, unsupportedParameterStrategy
    tries,          \* the candidate of each attempt
    spent,          \* requestExhaustedDeployments
    task,           \* of each attempt, what each part is waiting for or has become
    memo,           \* #materializedBySource
    text,           \* #parsedText
    free, waiters,  \* the AsyncSemaphore
    accounted, total,
    outcome,        \* of the request, "trying" until it has one
    sent,           \* the last request handed to an adapter
    fetches         \* downloads begun of each source

cache == <<memo, text, free, waiters, fetches>>
count == <<accounted, total>>
vars == <<req, strategy, tries, spent, task, cache, count, outcome, sent>>

Parts == DOMAIN req.parts
Now == Len(tries)

\* The key a source is remembered under: a URL is one download, whoever refers to it.
Key(p) == IF p.src = "url" THEN <<"url", p.value>> ELSE <<p.kind, p.src, p.value, p.name>>
Keys == {Key(req.parts[i]) : i \in Parts}

-----------------------------------------------------------------------------
(* Types.  The hint is what is known before the content is. *)

Hint(p) ==
    LET c == Content[p.value] IN
    CASE p.src = "data" -> c.declared
      [] p.kind = "file" /\ p.name # None -> p.name
      [] p.src = "url" -> c.extension
      [] OTHER -> None

\* effectiveMimeType: the bytes, then what is declared, then the file name.
Type(p) ==
    LET c == Content[p.value]
        extension == IF p.src = "url" THEN c.extension ELSE p.name
    IN CASE c.signature # None -> c.signature
         [] c.declared # "octet" -> c.declared
         [] extension # None -> extension
         [] OTHER -> "octet"

\* assertPdfSignature and assertImageContent: what a type promises of the bytes.
Genuine(p) == Type(p) \in {"pdf", "png"} => Content[p.value].signature = Type(p)

Matches(type, types) == type = None \/ type \in types
Reads(c, type) == (IF type = "pdf" THEN "pdf" ELSE "other") \in c.reads
Carries(sources, p) == p.src \in sources \/ (p.src = "url" /\ "data" \in sources)

\* canDeliverFile and canDeliverImage
CanDeliver(c, p, type) ==
    IF p.kind = "file"
    THEN Carries(c.files, p) /\ Matches(type, c.fileTypes) /\ Reads(c, type)
    ELSE Carries(c.images, p) /\ Matches(type, c.imageTypes) /\ "vision" \in c.can

-----------------------------------------------------------------------------
(* Candidates. *)

\* requestedUnsupportedParameters
Unsupported(c) == req.asks \cap c.without

\* A request that needs its native transport goes to deployments that speak it.
OnWire(c) == req.wire \in {"any", c.wire}

\* assertCandidate, after what the strategy and the public wire ask for.
Eligible(c) ==
    /\ strategy = "error" => Unsupported(c) = {}
    /\ OnWire(c)
    /\ \A i \in Parts :
          LET p == req.parts[i] IN
          p.kind = "image" \/ p.src = "id" \/ req.engine = "native" => CanDeliver(c, p, Hint(p))

\* A part that is handed over as it came, without a look at it.
Direct(c, p) ==
    IF p.kind = "image" THEN p.src = "url" /\ "url" \in c.images
    ELSE /\ ~(req.engine = "pdf-text" /\ Hint(p) = "pdf") /\ CanDeliver(c, p, Hint(p))
         /\ p.src \in c.files \ {"data"}

Unfit(c, p) ==
    \/ p.kind = "image" /\ ("vision" \notin c.can \/ ~Carries(c.images, p))
    \/ p.src = "id" /\ ~Direct(c, p)

FirstTask(c, p) == CASE Unfit(c, p) -> "failed"
                     [] Direct(c, p) -> "as is"
                     [] OTHER -> "await"

\* Downloads this attempt is the first to ask for, in the order of the parts.
Wanted(c) ==
    FoldLeft(LAMBDA keys, p :
               IF FirstTask(c, p) = "await" /\ p.src = "url" /\ memo[Key(p)] = "none" /\ ~Contains(keys, Key(p))
               THEN Append(keys, Key(p)) ELSE keys,
             <<>>, req.parts)

MinOf(a, b) == IF a < b THEN a ELSE b

Ends(result) == outcome' = result

\* The attempt fails with the first of its parts; the others go on unobserved.
FailsWith(scope) ==
    IF scope = "request" THEN Ends("refused") /\ UNCHANGED spent
    ELSE /\ spent' = spent \cup {tries[Now]}
         /\ Ends(IF Now < MaxAttempts /\ \E c \in Candidates \ spent' : Eligible(c) THEN "next" ELSE "failed")

Init ==
    /\ req \in Requests /\ strategy \in {"drop", "error", "allow"}
    /\ tries = <<>> /\ spent = {} /\ task = <<>>
    /\ memo = [k \in Keys |-> IF k[1] = "url" THEN "none" ELSE "ok"]
    /\ text = [k \in Keys |-> "none"] /\ fetches = [k \in Keys |-> 0]
    /\ free = MaxFetches /\ waiters = <<>>
    /\ accounted = {} /\ total = 0
    /\ outcome = IF \E c \in Candidates : Eligible(c) THEN "next" ELSE "failed"
    /\ sent = None

\* resolveForCandidate, up to where every part waits for something.
Begin(c) ==
    /\ outcome = "next" /\ c \notin spent /\ Eligible(c)
    /\ tries' = Append(tries, c)
    /\ task' = Append(task, [i \in Parts |-> FirstTask(c, req.parts[i])])
    /\ LET wanted == Wanted(c)
           now == MinOf(free, Len(wanted))
           begun == ToSet(SubSeq(wanted, 1, now))
       IN /\ memo' = [k \in Keys |-> IF k \in ToSet(wanted) THEN "fetching" ELSE memo[k]]
          /\ free' = free - now
          /\ waiters' = waiters \o SubSeq(wanted, now + 1, Len(wanted))
          /\ fetches' = [k \in Keys |-> IF k \in begun THEN fetches[k] + 1 ELSE fetches[k]]
    /\ outcome' = "trying"
    /\ UNCHANGED <<req, strategy, spent, text, count, sent>>

-----------------------------------------------------------------------------
(* Downloads. *)

\* Mutated form: a slot that ends is given to the next and returned as well.
HandedTwice == free + 1

Handed == IF waiters = <<>> THEN free + 1 ELSE free

Downloading(k) == memo[k] = "fetching" /\ ~Contains(waiters, k)

\* A download that ends, for good, for another candidate, or with the request.
FetchEnds(k, result) ==
    /\ Downloading(k)
    /\ outcome = "aborted" => result = "failed"
    /\ result = "ok" => Content[k[2]].size <= MaxFetched
    /\ memo' = [memo EXCEPT ![k] = result]
    /\ free' = Handed
    /\ waiters' = IF waiters = <<>> THEN <<>> ELSE Tail(waiters)
    /\ fetches' = IF waiters = <<>> THEN fetches ELSE [fetches EXCEPT ![Head(waiters)] = @ + 1]
    /\ UNCHANGED <<req, strategy, tries, spent, task, text, count, outcome, sent>>

-----------------------------------------------------------------------------
(* Parts. *)

\* What a part becomes of its materialized content.
Checked(c, p, form) ==
    LET types == IF p.kind = "file" THEN c.fileTypes ELSE c.imageTypes
        wrong == CASE p.kind = "image" -> ~Genuine(p) \/ Type(p) # "png"
                   [] OTHER -> form = "as is" /\ Type(p) = "pdf" /\ ~Genuine(p)
    IN CASE wrong -> "refused"
         [] Matches(Type(p), types) /\ (p.kind = "file" => Reads(c, Type(p)))
              /\ Content[p.value].size <= c.max -> form
         [] OTHER -> "failed"

\* #nativePart: inline data is passed on as it is, a URL as data if need be.
Native(c, p) ==
    CASE p.src = "url" /\ p.src \in c.files -> "as is"
      [] p.src \in c.files -> Checked(c, p, "as is")
      [] OTHER -> Checked(c, p, "data")

Materialized(c, p) ==
    CASE p.kind = "image" -> Checked(c, p, "data")
      [] (req.engine # "pdf-text" \/ Hint(p) # "pdf") /\ CanDeliver(c, p, Hint(p)) -> Native(c, p)
      [] req.engine # "pdf-text" /\ CanDeliver(c, p, Type(p)) -> Native(c, p)
      [] req.engine = "native" -> "failed"
      [] OTHER -> "text"

Becomes(a, i, new) ==
    /\ task' = [task EXCEPT ![a][i] = new]
    /\ IF a = Now /\ outcome = "trying" /\ new \in {"failed", "refused"}
       THEN FailsWith(IF new = "refused" THEN "request" ELSE "candidate")
       ELSE UNCHANGED <<spent, outcome>>

\* Mutated form: a part is counted by every attempt that materializes it.
CountedAgain(i) == TRUE

Counted(i) == i \notin accounted

\* A part whose source has been materialized: it is counted once, then checked.
Settles(a, i) ==
    /\ task[a][i] = "await"
    /\ LET p == req.parts[i]
           sum == total + (IF Counted(i) THEN Content[p.value].size ELSE 0)
           new == IF Counted(i) /\ sum > MaxTotal THEN "refused" ELSE Materialized(tries[a], p)
       IN \/ /\ memo[Key(p)] \in {"failed", "refused"}
             /\ Becomes(a, i, memo[Key(p)]) /\ UNCHANGED <<text, count>>
          \/ /\ memo[Key(p)] = "ok"
             /\ total' = sum /\ accounted' = accounted \cup {i}
             /\ Becomes(a, i, new)
             /\ text' = IF new = "text" /\ text[Key(p)] = "none" THEN [text EXCEPT ![Key(p)] = "parsing"] ELSE text
    /\ UNCHANGED <<req, strategy, tries, memo, free, waiters, fetches, sent>>

\* extractPortableText, whose worker may die.
Legible(p) ==
    CASE Content[p.value].size > MaxFetched -> "failed"
      [] Type(p) = "pdf" /\ ~Genuine(p) -> "refused"
      [] Type(p) \in {"pdf", "txt"} /\ Content[p.value].legible -> "text ok"
      [] OTHER -> "failed"

ParseEnds(i, died) ==
    LET p == req.parts[i] IN
    /\ text[Key(p)] = "parsing"
    /\ died => Type(p) = "pdf" /\ Legible(p) = "text ok"
    /\ text' = [text EXCEPT ![Key(p)] = IF died THEN "failed" ELSE Legible(p)]
    /\ UNCHANGED <<req, strategy, tries, spent, task, memo, free, waiters, fetches, count, outcome, sent>>

\* portableTextPart
TakesText(a, i) ==
    /\ task[a][i] = "text" /\ text[Key(req.parts[i])] \in {"text ok", "failed", "refused"}
    /\ Becomes(a, i, IF text[Key(req.parts[i])] = "text ok" THEN "parsed" ELSE text[Key(req.parts[i])])
    /\ UNCHANGED <<req, strategy, tries, cache, count, sent>>

\* A part no candidate check could see fails the attempt as it begins.
FailsAtOnce ==
    /\ outcome = "trying" /\ \E i \in Parts : task[Now][i] = "failed"
    /\ FailsWith("candidate")
    /\ UNCHANGED <<req, strategy, tries, task, cache, count, sent>>

-----------------------------------------------------------------------------
(* The adapter. *)

\* applyUnsupportedParameterPolicy
Dropped(c) == IF strategy = "drop" THEN Unsupported(c) ELSE {}

Resolved == \A i \in Parts : task[Now][i] \in {"as is", "data", "parsed"}

\* assertTextRequestSupported
Supported(c, fields) ==
    /\ fields \cap {"tools", "schema", "reasoning"} \subseteq c.can
    /\ (\E i \in Parts : req.parts[i].kind = "image") => "vision" \in c.can

\* The provider answers, or fails: for this deployment, or in a way worth a retry.
Execute(answer) ==
    /\ outcome = "trying" /\ Resolved
    /\ LET c == tries[Now]
           fields == req.asks \ Dropped(c)
       IN IF ~Supported(c, fields)
          THEN FailsWith("candidate") /\ UNCHANGED sent
          ELSE /\ sent' = [to |-> c, parts |-> task[Now], fields |-> fields, attempt |-> Now, total |-> total]
               /\ CASE answer = "answered" -> Ends("answered") /\ UNCHANGED spent
                    [] answer = "retry" /\ Now < MaxAttempts -> Ends("next") /\ UNCHANGED spent
                    [] OTHER -> FailsWith("candidate")
    /\ UNCHANGED <<req, strategy, tries, task, cache, count>>

Abort ==
    /\ outcome \in {"next", "trying"} /\ outcome' = "aborted"
    /\ UNCHANGED <<req, strategy, tries, spent, task, cache, count, sent>>

Next ==
    \/ \E c \in Candidates : Begin(c)
    \/ \E k \in Keys, result \in {"ok", "failed", "refused"} : FetchEnds(k, result)
    \/ \E a \in DOMAIN task, i \in Parts : Settles(a, i) \/ TakesText(a, i)
    \/ \E i \in Parts, died \in BOOLEAN : ParseEnds(i, died)
    \/ FailsAtOnce \/ Abort
    \/ \E answer \in {"answered", "retry", "failed"} : Execute(answer)
-----------------------------------------------------------------------------
TypeOK ==
    /\ req \in Requests /\ spent \subseteq ToSet(tries) /\ Len(task) = Len(tries) /\ Now <= MaxAttempts
    /\ free \in 0..MaxFetches /\ accounted \subseteq Parts
    /\ outcome \in {"next", "trying", "answered", "failed", "refused", "aborted"}

\* "At most four concurrent URL fetches per request": a download holds one slot, and
\* nobody waits while one is free (AsyncSemaphore).
SlotsKept ==
    /\ free + Cardinality({k \in Keys : Downloading(k)}) = MaxFetches
    /\ waiters # <<>> => free = 0

\* "Materialize an HTTPS image or file URL once": whatever refers to it, and however
\* many candidates need it.
FetchedOnce == \A k \in Keys : fetches[k] <= 1

\* What an adapter is given of a part: the form fits the candidate, a native engine
\* gets no text, and a hinted PDF under pdf-text nothing else.
Fits(c, p, form) ==
    /\ form = "as is" => p.src \in (IF p.kind = "file" THEN c.files ELSE c.images)
    /\ form = "data" => "data" \in (IF p.kind = "file" THEN c.files ELSE c.images)
    /\ form = "data" \/ (p.src = "data" /\ form = "as is") =>
          Content[p.value].size <= c.max /\ Matches(Type(p), IF p.kind = "file" THEN c.fileTypes ELSE c.imageTypes)
    /\ form = "parsed" => p.kind = "file" /\ Legible(p) = "text ok" /\ req.engine # "native"
    /\ req.engine = "pdf-text" /\ Hint(p) = "pdf" /\ p.kind = "file" => form = "parsed"

\* Every part arrives in a form the deployment takes, and every parameter it does
\* not take was dropped, refused or let through as the strategy says.
SentWhole ==
    sent # None =>
        /\ \A i \in Parts : Fits(sent.to, req.parts[i], sent.parts[i])
        /\ strategy # "allow" => sent.fields \cap sent.to.without = {}
        /\ req.asks \ sent.fields = IF strategy = "drop" THEN req.asks \cap sent.to.without ELSE {}

SizeOf(parts) == MapThenSumSet(LAMBDA i : Content[req.parts[i].value].size, parts)

\* "50 MB combined per request": what a first attempt carries is within the limit,
\* and no request within it is ever refused for it.  A later attempt escapes the
\* first half: parts an abandoned attempt counted are not counted again.
LimitKept ==
    /\ sent # None /\ sent.attempt = 1 => sent.total <= MaxTotal
    /\ total = SizeOf(accounted)

InputsKept == TypeOK /\ SlotsKept /\ FetchedOnce /\ SentWhole /\ LimitKept
=============================================================================
