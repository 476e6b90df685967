--------------------------- MODULE EffortSamples ---------------------------
(***************************************************************************)
(* Requests for thought and models that differ in adapter, levels and knob,*)
(* for module Effort.                                                      *)
(***************************************************************************)
EXTENDS Naturals, Sequences

CONSTANT None

Ask(wire, effort, alias, summary, thinking) ==
    [wire |-> wire, effort |-> effort, reasoning_effort |-> alias, summary |-> summary, thinking |-> thinking]
Thought(type, budget, display) == [type |-> type, budget |-> budget, display |-> display]
Efforts == {None, "none", "minimal", "medium", "xhigh", "max"}
SampleAsked ==
    {Ask("chat_completions", e, a, s, None) : e \in Efforts, a \in {None, "medium"}, s \in {None, "none", "concise"}} \cup
    {Ask("responses", e, None, s, None) : e \in Efforts, s \in {None, "none", "concise"}} \cup
    {Ask("messages", e, None, None, t) : e \in {None, "low"},
        t \in {None, Thought("disabled", 4096, None)} \cup
              {Thought("enabled", b, d) : b \in {None, 0, 512, 4097, 32000}, d \in {None, "omitted", "summarized"}}}
Model(adapter, default, kind, levels, budgets, names) ==
    [adapter |-> adapter, default |-> default, capable |-> TRUE, drops |-> FALSE,
     spec |-> [kind |-> kind, levels |-> levels, budgets |-> budgets, names |-> names,
               body |-> kind = "openai_body", flag |-> kind = "chat_template_flag",
               field |-> kind = "openai_body" /\ "max" \in levels, off |-> kind = "openai_body"]]
Wide == {"none", "low", "medium", "high", "xhigh", "max"}
SampleDeclared ==
    {[Model("openai", "responses", "openai_effort", Wide, <<>>, <<>>) EXCEPT !.capable = c, !.drops = ~c, !.spec = s] :
        c \in BOOLEAN, s \in {None}} \cup
    {[Model("openai", "responses", "openai_effort", Wide, <<>>, <<>>) EXCEPT !.capable = FALSE]} \cup
    {Model("openai", "responses", "openai_effort", Wide, <<>>, <<>>),
     [Model("openai", "responses", "openai_effort", {"medium", "high"}, <<>>, <<>>) EXCEPT !.drops = TRUE],
     Model("compatible", "chat_completions", "openai_body", {"none", "high", "max"}, <<>>, [max |-> "ultra"]),
     Model("compatible", "chat_completions", "chat_template_flag", {"none", "high"}, <<>>, <<>>),
     Model("azurefoundry", "chat_completions", "fixed", {"high"}, <<>>, <<>>),
     Model("anthropic", "messages", "anthropic_adaptive", {"low", "high", "max"}, <<>>, <<>>),
     Model("anthropic", "messages", "anthropic_budget", Wide \ {"max"}, [low |-> 3000], <<>>),
     Model("anthropic", "messages", "anthropic_budget", Wide, [low |-> 3000], <<>>),
     Model("google", "generate_content", "gemini_level", {"minimal", "low", "high"}, <<>>, <<>>),
     Model("google", "generate_content", "gemini_level", {"none", "low", "xhigh"}, <<>>, <<>>),
     Model("google", "generate_content", "gemini_budget", {"none", "minimal", "high", "max"}, [max |-> 32768], <<>>),
     Model("google", "generate_content", "openai_effort", Wide, <<>>, <<>>),
     Model("vercel", "responses", "openai_effort", {"none", "high"}, <<>>, [high |-> "on"]),
     Model("vercel", "responses", "fixed", {"high"}, <<>>, <<>>),
     Model("vercel", "responses", "anthropic_adaptive", Wide, <<>>, <<>>),
     Model("vercel", "responses", "anthropic_budget", {"none", "low", "max"}, [low |-> 2000, max |-> 60000], <<>>),
     Model("vercel", "responses", "gemini_level", {"low", "high"}, <<>>, <<>>),
     Model("vercel", "responses", "gemini_budget", {"none", "low", "high"}, [low |-> 1024], <<>>)}
=============================================================================
