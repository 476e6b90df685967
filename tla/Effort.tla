------------------------------- MODULE Effort -------------------------------
(***************************************************************************)
(* How much a model is asked to think (core/reasoning.ts and the adapters).*)
(* A client asks in one of three contracts: an effort, or Anthropic's      *)
(* thinking object with a token budget, and whether it wants to read the   *)
(* thoughts.  The request is put into one canonical form once; each attempt*)
(* then goes to a deployment with its own levels and its own knob (a label,*)
(* a budget, a toggle, none at all), for which the effort is snapped and   *)
(* said in the provider's words.  What was asked and what was applied is   *)
(* logged.                                                                 *)
(***************************************************************************)
EXTENDS Naturals, Sequences, FiniteSets

CONSTANTS
    None,
    Asked,        \* the requests clients may make
    Declared,     \* the models operators and catalogues declare
    MaxAttempts

VARIABLES
    ask,          \* the request as the client wrote it
    reasoning,    \* its canonical reasoning, None, or Rejected
    model,        \* the deployment of the last attempt
    told,         \* what its provider was told
    log,          \* the reasoning entry of the attempt's metadata
    attempts

vars == <<ask, reasoning, model, told, log, attempts>>

-----------------------------------------------------------------------------
(* The ladder.                                                             *)

EFFORT_ORDER == <<"none", "minimal", "low", "medium", "high", "xhigh", "max">>
Efforts == {EFFORT_ORDER[i] : i \in DOMAIN EFFORT_ORDER}
Rung(effort) == CHOOSE i \in DOMAIN EFFORT_ORDER : EFFORT_ORDER[i] = effort
Positive(levels) == levels \ {"none"}
Lowest(levels) == CHOOSE l \in levels : \A k \in levels : Rung(l) <= Rung(k)
Highest(levels) == CHOOSE l \in levels : \A k \in levels : Rung(k) <= Rung(l)

\* Mutated: a model that can be off is switched off by a request below its first level.
snapEffortToOff(requested, levels) ==
    LET below == {l \in levels : Rung(l) <= Rung(requested)}
    IN  IF below = {} THEN Lowest(levels) ELSE Highest(below)

\* The nearest level below a request; off only where asked for and possible.
snapEffort(requested, levels) ==
    LET below == {l \in Positive(levels) : Rung(l) <= Rung(requested)}
    IN  IF (requested = "none" /\ "none" \in levels) \/ Positive(levels) = {} THEN "none"
        ELSE IF below = {} THEN Lowest(Positive(levels))
        ELSE Highest(below)

summaryForEffort(effort, summary) ==
    IF summary # None THEN summary
    ELSE IF effort \notin {None, "none"} THEN "auto" ELSE None
summaryVisible(summary) == summary \notin {None, "none"}

effortFromBudgetTokens(tokens) ==
    IF tokens <= 0 THEN "none"
    ELSE IF tokens <= 512 THEN "minimal"
    ELSE IF tokens <= 4096 THEN "low"
    ELSE IF tokens <= 12000 THEN "medium"
    ELSE IF tokens <= 20000 THEN "high"
    ELSE "xhigh"

\* An omitted effort counts as "none": the least the model can do.
resolveReasoning(r, spec) ==
    LET effort == snapEffort(IF r = None \/ r.effort = None THEN "none" ELSE r.effort, spec.levels)
    IN  [effort |-> effort,
         summary |-> IF effort = "none" THEN None
                     ELSE summaryForEffort(effort, IF r = None THEN None ELSE r.summary)]

-----------------------------------------------------------------------------
(* From a public request to the canonical one.                             *)

Canonical(effort, summary, display) ==
    IF effort = None /\ summary = None /\ display = None THEN None
    ELSE [effort |-> effort, summary |-> summary, display |-> display]

Rejected == [effort |-> "rejected"]

reasoningEffortFromMessages(a) ==
    IF a.effort # None THEN a.effort
    ELSE IF a.thinking = None THEN None
    ELSE IF a.thinking.type = "disabled" THEN "none"
    ELSE IF a.thinking.budget # None THEN effortFromBudgetTokens(a.thinking.budget)
    ELSE "high"

ChatReasoning(a) ==
    LET effort == IF a.effort # None THEN a.effort ELSE a.reasoning_effort
    IN  IF None \notin {a.effort, a.reasoning_effort} /\ a.effort # a.reasoning_effort THEN Rejected
        ELSE Canonical(effort, summaryForEffort(effort, a.summary), None)

ResponsesReasoning(a) == Canonical(a.effort, summaryForEffort(a.effort, a.summary), None)

MessagesReasoning(a) ==
    LET effort == reasoningEffortFromMessages(a)
        display == IF a.thinking = None THEN None ELSE a.thinking.display
        summary == IF display = "omitted" THEN "none" ELSE summaryForEffort(effort, None)
    IN  IF effort = None /\ display = None THEN None ELSE Canonical(effort, summary, display)

ToCanonical(a) ==
    CASE a.wire = "chat_completions" -> ChatReasoning(a)
      [] a.wire = "responses" -> ResponsesReasoning(a)
      [] a.wire = "messages" -> MessagesReasoning(a)

-----------------------------------------------------------------------------
(* The models a deployment may have: adapter, levels and knob.             *)

OpenAIKinds == {"openai_effort", "openai_body", "fixed", "chat_template_flag"}
reasoningKinds(adapter) ==
    CASE adapter = "anthropic" -> {"anthropic_adaptive", "anthropic_budget"}
      [] adapter = "google" -> {"gemini_level", "gemini_budget"}
      [] adapter = "vercel" ->
            OpenAIKinds \cup {"anthropic_adaptive", "anthropic_budget", "gemini_level", "gemini_budget"}
      [] OTHER -> OpenAIKinds

validateReasoning(spec) ==
    /\ spec.levels # {}
    /\ (spec.kind \in {"anthropic_budget", "gemini_budget"} /\ "max" \in spec.levels) => "max" \in DOMAIN spec.budgets
    /\ DOMAIN spec.names \subseteq spec.levels
    /\ (spec.kind = "openai_body") <=> spec.body
    /\ spec.field => spec.kind = "openai_body"
    /\ (spec.kind = "chat_template_flag") <=> spec.flag
validateProvider(m) == m.spec # None => m.spec.kind \in reasoningKinds(m.adapter)
Models == {m \in Declared : validateProvider(m) /\ (m.spec # None => validateReasoning(m.spec))}

\* Mutated: a spec left in the entry of a model that does not reason is believed.
resolveModelMetadataAsDeclared(m) == m.spec

\* Only a model that reasons has a reasoning spec at run time.
resolveModelMetadata(m) == IF m.capable THEN m.spec ELSE None

supportedTransports(m) ==
    CASE m.adapter = "anthropic" -> {"messages"}
      [] m.adapter = "google" -> {"generate_content"}
      [] m.adapter = "azurefoundry" -> {"chat_completions"}
      [] OTHER -> {"chat_completions", "responses"}
resolveTransport(m, wire) == IF wire \in supportedTransports(m) THEN wire ELSE m.default

-----------------------------------------------------------------------------
(* What an adapter tells its provider: whether to think, how much, and     *)
(* whether to show it.                                                     *)

Told(think, label, budget, show) ==
    [state |-> "sent", think |-> think, label |-> label, budget |-> budget, show |-> show]
Silent == Told("unsaid", None, None, "unsaid")
Refused == [Silent EXCEPT !.state = "refused"]
Failed == [Silent EXCEPT !.state = "failed"]
Shown(visible) == IF visible THEN "shown" ELSE "hidden"

toUpstreamReasoningEffort(effort, spec) ==
    IF effort \in DOMAIN spec.names THEN spec.names[effort] ELSE effort

AsksToThink(r) == r # None /\ r.effort \notin {None, "none"}

Labelled(effort, spec, show) ==
    Told(IF effort = "none" THEN "off" ELSE "on", toUpstreamReasoningEffort(effort, spec), None, show)

\* A toggle says nothing when it is off and no value for off is configured.
Toggled(effort, spec) ==
    IF effort = "none" THEN [Silent EXCEPT !.think = IF spec.off THEN "off" ELSE "unsaid"]
    ELSE Told("on", IF spec.field THEN toUpstreamReasoningEffort(effort, spec) ELSE None, None, "unsaid")

ChatBody(spec, r) ==
    IF spec = None THEN IF AsksToThink(r) THEN Refused ELSE Silent
    ELSE LET effort == resolveReasoning(r, spec).effort
         IN  CASE spec.kind = "openai_effort" -> Labelled(effort, spec, "unsaid")
               [] spec.kind \in {"openai_body", "chat_template_flag"} -> Toggled(effort, spec)
               [] spec.kind = "fixed" -> Silent
               [] OTHER -> Refused

ResponsesBody(spec, r) ==
    IF spec = None THEN IF AsksToThink(r) THEN Refused ELSE Silent
    ELSE IF spec.kind # "openai_effort" THEN Refused
    ELSE LET resolved == resolveReasoning(r, spec)
         IN  Labelled(resolved.effort, spec, Shown(summaryVisible(resolved.summary)))

\* What an adapter says of a resolved effort, when there is one and it has the knob.
resolveAdapterReasoning(spec, r, kinds, said) ==
    IF spec = None THEN IF AsksToThink(r) THEN Refused ELSE Silent
    ELSE IF spec.kind \notin kinds THEN Refused
    ELSE said

DEFAULT_ANTHROPIC_BUDGETS ==
    [minimal |-> 1024, low |-> 2048, medium |-> 8192, high |-> 16000, xhigh |-> 32000]
DEFAULT_GEMINI_BUDGETS ==
    [minimal |-> 512, low |-> 1024, medium |-> 4096, high |-> 8192, xhigh |-> 24576]

Budgeted(effort, budgets, defaults, show) ==
    IF effort \in DOMAIN budgets THEN Told("on", None, budgets[effort], show)
    ELSE IF effort \in DOMAIN defaults THEN Told("on", None, defaults[effort], show)
    ELSE Failed

applyReasoning(spec, r) ==
    LET resolved == resolveReasoning(r, spec)
        show == Shown(summaryVisible(resolved.summary))
    IN  resolveAdapterReasoning(spec, r, reasoningKinds("anthropic"),
            IF resolved.effort = "none" THEN [Silent EXCEPT !.think = "off"]
            ELSE IF spec.kind = "anthropic_adaptive" THEN Labelled(resolved.effort, spec, show)
            ELSE Budgeted(resolved.effort, spec.budgets, DEFAULT_ANTHROPIC_BUDGETS, show))

\* Google has no label for "off" and none above "high".
geminiLevel(effort, spec) ==
    LET label == IF effort = "none" THEN "minimal" ELSE toUpstreamReasoningEffort(effort, spec)
    IN  IF label = "xhigh" THEN "high" ELSE label

geminiThinkingConfig(spec, r) ==
    LET resolved == resolveReasoning(r, spec)
        show == Shown(summaryVisible(resolved.summary))
    IN  resolveAdapterReasoning(spec, r, reasoningKinds("google"),
            IF spec.kind = "gemini_level" THEN Told("on", geminiLevel(resolved.effort, spec), None, show)
            ELSE IF resolved.effort = "none" THEN Told("off", None, 0, "hidden")
            ELSE Budgeted(resolved.effort, spec.budgets, DEFAULT_GEMINI_BUDGETS, show))

\* Mutated: Vercel's own field is filled from the spec of the provider behind it.
vercelRestReasoningSpecAsDeclared(spec) == IF spec = None THEN None ELSE [spec EXCEPT !.names = <<>>]

\* Vercel's own field takes every canonical level under its canonical name.
vercelRestReasoningSpec(spec) ==
    IF spec = None THEN None ELSE [spec EXCEPT !.kind = "openai_effort", !.names = <<>>]

useVercelChatReasoning(body, r) ==
    IF body.label = None THEN body
    ELSE [body EXCEPT !.show = IF r # None /\ (r.display = "omitted" \/ r.summary = "none")
                               THEN "hidden" ELSE "unsaid"]

reasoningDisplay(r, summary) ==
    IF r # None /\ r.display # None THEN r.display
    ELSE IF summaryVisible(summary) THEN "summarized" ELSE "omitted"

applyVercelNativeReasoning(body, spec, r) ==
    LET resolved == resolveReasoning(r, spec)
        show == Shown(reasoningDisplay(r, resolved.summary) = "summarized")
        effort == resolved.effort
    IN  CASE spec.kind \in {"openai_effort", "openai_body", "chat_template_flag"} -> body
          [] spec.kind = "fixed" -> Silent
          [] spec.kind \in {"anthropic_adaptive", "anthropic_budget"} /\ effort = "none" ->
                [Silent EXCEPT !.think = "off"]
          [] spec.kind = "anthropic_adaptive" /\ effort # "none" -> Labelled(effort, spec, show)
          [] spec.kind = "anthropic_budget" /\ effort # "none" -> Budgeted(effort, spec.budgets, <<>>, "unsaid")
          [] spec.kind = "gemini_level" -> Labelled(effort, spec, show)
          [] spec.kind = "gemini_budget" /\ effort = "none" -> Told("off", None, 0, show)
          [] spec.kind = "gemini_budget" /\ effort # "none" -> Budgeted(effort, spec.budgets, <<>>, show)

VercelBody(spec, r, transport) ==
    LET rest == vercelRestReasoningSpec(spec)
        body == IF transport = "responses" THEN ResponsesBody(rest, r)
                ELSE useVercelChatReasoning(ChatBody(rest, r), r)
    IN  IF spec = None \/ body.state # "sent" THEN body ELSE applyVercelNativeReasoning(body, spec, r)

buildRequest(m, spec, r, transport) ==
    CASE m.adapter = "anthropic" -> applyReasoning(spec, r)
      [] m.adapter = "google" -> geminiThinkingConfig(spec, r)
      [] m.adapter = "vercel" -> VercelBody(spec, r, transport)
      [] m.adapter \in {"openai", "compatible", "azurefoundry"} /\ transport = "responses" -> ResponsesBody(spec, r)
      [] m.adapter \in {"openai", "compatible", "azurefoundry"} /\ transport # "responses" -> ChatBody(spec, r)

reasoningLogInfo(r, spec) ==
    IF spec = None THEN None
    ELSE LET requested == IF r = None THEN None ELSE r.effort
             effective == resolveReasoning(r, spec).effort
             clamped == requested \notin {None, effective}
         IN  [requested |-> requested, effective |-> effective, clamped |-> clamped,
              source |-> IF requested = None THEN "model_floor" ELSE IF clamped THEN "clamped" ELSE "client"]

-----------------------------------------------------------------------------
(* What clients may write and operators declare.                           *)

Maybe(X) == X \cup {None}
Summaries == {"auto", "none", "concise", "detailed"}
Displays == {"omitted", "summarized"}
Thoughts == [type : {"enabled", "adaptive", "disabled"}, budget : Maybe(Nat), display : Maybe(Displays)]
Asks(wires, alias, summary, thinking) ==
    [wire : wires, effort : Maybe(Efforts), reasoning_effort : alias, summary : summary, thinking : thinking]
AllAsked ==
    Asks({"chat_completions"}, Maybe(Efforts), Maybe(Summaries), {None}) \cup
    Asks({"responses"}, {None}, Maybe(Summaries), {None}) \cup
    Asks({"messages"}, {None}, {None}, Maybe(Thoughts))
Canonicals == [effort : Maybe(Efforts), summary : Maybe(Summaries), display : Maybe(Displays)]

AdapterNames == {"openai", "compatible", "azurefoundry", "anthropic", "google", "vercel"}
Specs(budgeted, renamed) ==
    [kind : UNION {reasoningKinds(a) : a \in AdapterNames}, levels : SUBSET Efforts,
     budgets : [budgeted -> Nat], names : [renamed -> STRING],
     body : BOOLEAN, flag : BOOLEAN, field : BOOLEAN, off : BOOLEAN]
LogEntries ==
    [requested : Maybe(Efforts), effective : Efforts, clamped : BOOLEAN,
     source : {"model_floor", "clamped", "client"}]

WellPosed ==
    /\ MaxAttempts \in Nat
    /\ Asked \subseteq AllAsked
    /\ \A m \in Declared :
          /\ m.adapter \in AdapterNames /\ m.default \in supportedTransports(m)
          /\ m.spec # None => \E B, R \in SUBSET Efforts : m.spec \in Specs(B, R)
    /\ None \notin Nat \cup Efforts \cup Summaries \cup Displays \cup Thoughts \cup Canonicals \cup LogEntries
    /\ \A B, R \in SUBSET Efforts : None \notin Specs(B, R)
-----------------------------------------------------------------------------
Nothing == [adapter |-> None]

Init ==
    /\ ask \in Asked /\ reasoning = None /\ model = Nothing
    /\ told = None /\ log = None /\ attempts = 0

Receive ==
    /\ told = None /\ attempts = 0
    /\ reasoning' = ToCanonical(ask)
    /\ told' = IF reasoning' = Rejected THEN Refused ELSE Silent
    /\ UNCHANGED <<ask, model, log, attempts>>

\* A parameter the model's catalogue entry marks unsupported is taken out of this
\* attempt's request; the entry of the log is made from the original one.
applyUnsupportedParameterPolicy(m) == IF m.drops THEN None ELSE reasoning

Attempt(m) ==
    LET spec == resolveModelMetadata(m)
        r == applyUnsupportedParameterPolicy(m)
    IN  /\ told # None /\ reasoning # Rejected /\ attempts < MaxAttempts
        /\ attempts = 0 \/ told.state # "refused"
        /\ model' = m
        /\ told' = IF spec = None /\ AsksToThink(r) THEN Refused
                   ELSE buildRequest(m, spec, r, resolveTransport(m, ask.wire))
        /\ log' = reasoningLogInfo(reasoning, spec)
        /\ attempts' = attempts + 1
        /\ UNCHANGED <<ask, reasoning>>

Next == Receive \/ \E m \in Models : Attempt(m)
Spec == Init /\ [][Next]_vars
-----------------------------------------------------------------------------
TypeOK ==
    /\ ask \in Asked /\ attempts \in 0 .. MaxAttempts
    /\ model \in Models \cup {Nothing}
    /\ told = None \/ told.state \in {"sent", "refused", "failed"}

\* What the client meant, read off the request it wrote and nothing derived from it.
Wish ==
    IF ask.effort # None THEN {ask.effort}
    ELSE IF ask.reasoning_effort # None THEN {ask.reasoning_effort}
    ELSE IF ask.thinking = None \/ ask.thinking.type = "disabled" THEN {"none"}
    ELSE IF ask.thinking.budget = 0 THEN {"none"}
    ELSE {"minimal", "low", "medium", "high", "xhigh"}

\* A level serves a wish when the model has it and none serves it better.
Serves(level, wish, levels) ==
    /\ level \in levels
    /\ wish = "none" => level = "none" \/ ("none" \notin levels /\ level = Lowest(levels))
    /\ wish # "none" /\ Positive(levels) # {} =>
          /\ level # "none"
          /\ Rung(level) > Rung(wish) => level = Lowest(Positive(levels))
          /\ \A k \in levels : ~(Rung(level) < Rung(k) /\ Rung(k) <= Rung(wish))

\* The levels a provider may take the words it was sent for.
Understood(t, m) ==
    {l \in m.spec.levels :
        /\ t.think = "on" => l # "none"
        /\ t.think = "off" => l = "none"
        /\ t.think = "unsaid" => \/ m.spec.kind = "fixed"
                                 \/ l = "none" /\ m.spec.kind \in {"openai_body", "chat_template_flag"}
        /\ m.spec.kind = "fixed" => t = Silent
        /\ t.label \notin {None, "none"} =>
              t.label = IF m.adapter = "vercel" /\ m.spec.kind \in OpenAIKinds THEN l
                        ELSE toUpstreamReasoningEffort(l, m.spec)
        /\ t.budget # None /\ t.think = "on" =>
              t.budget = IF l \in DOMAIN m.spec.budgets THEN m.spec.budgets[l]
                         ELSE IF m.adapter = "google" THEN DEFAULT_GEMINI_BUDGETS[l]
                         ELSE DEFAULT_ANTHROPIC_BUDGETS[l]}

Sent == model # Nothing /\ told.state = "sent"
Reasons == model.capable /\ model.spec # None

\* Google has no label for "none" and no label "xhigh"; a model with those hears a neighbour.
Neighbours ==
    /\ model.adapter = "google" /\ model.spec.kind = "gemini_level"
    /\ \E l \in model.spec.levels : l = "none" \/ toUpstreamReasoningEffort(l, model.spec) = "xhigh"
Hides == ask.summary = "none" \/ (ask.thinking # None /\ ask.thinking.display = "omitted")
Reads == ask.summary \notin {None, "none"} \/ (ask.thinking # None /\ ask.thinking.display = "summarized")

\* Whatever attempt it is and whatever came before, the provider is told the level
\* that serves the original request best among those its model has, in the words of
\* its own knob; a model that does not think is told nothing.
Heeded ==
    Sent => IF ~Reasons THEN told = Silent
            ELSE Neighbours \/ \E wish \in IF model.drops THEN {"none"} ELSE Wish :
                     \E level \in Understood(told, model) : Serves(level, wish, model.spec.levels)

\* Thoughts a client hides are not asked for, and thoughts it reads are not hidden.
Discreet ==
    Sent /\ ~model.drops =>
        /\ Hides => told.show # "shown"
        /\ Reads /\ told.think = "on" /\ ~Neighbours => told.show # "hidden"

\* No request for an effort is refused but by a model that does not think.  Two gaps
\* of the code are left open here: a toggle or a fixed reasoner reached over the
\* Responses transport, and a Vercel model declared without the budget of a level.
OverResponses ==
    /\ model.adapter \in {"openai", "compatible"} /\ Reasons /\ model.spec.kind # "openai_effort"
    /\ resolveTransport(model, ask.wire) = "responses"
Unbudgeted ==
    /\ model.adapter = "vercel" /\ Reasons /\ model.spec.kind \in {"anthropic_budget", "gemini_budget"}
    /\ Positive(model.spec.levels) \ DOMAIN model.spec.budgets # {}
NotRefused ==
    model # Nothing =>
        /\ told.state = "refused" => OverResponses \/ (~Reasons /\ Wish # {"none"})
        /\ told.state = "failed" => Unbudgeted

\* The entry of the log says what was asked, and the level the provider was told.
Logged ==
    model # Nothing =>
        /\ (log = None) <=> ~Reasons
        /\ log # None =>
              /\ log.clamped <=> log.requested \notin {None, log.effective}
              /\ (log.source = "model_floor") <=> (log.requested = None)
              /\ log.requested # None => log.requested \in Wish
              /\ Sent /\ ~model.drops /\ ~Neighbours => log.effective \in Understood(told, model)

EffortKept == TypeOK /\ Heeded /\ Discreet /\ NotRefused /\ Logged
=============================================================================
