----------------------------- MODULE MCStreams ------------------------------
(* Short streams of each provider: enough for a block of each kind, their  *)
(* interleavings, early and repeated reasons, and every end.               *)
EXTENDS Streams

SomeOf(name, kinds, reasons) ==
    {e \in EventsOf[name] : e.k \in kinds /\ (e.r = None \/ e.r \in reasons) /\ e.i = 0}

SmallAlphabet ==
    [chat_completions |->
        SomeOf("chat_completions", {"text", "think", "tool", "usage", "fin", "error", "done"},
               {"stop", "length", "tool_calls"}) \cup {Event("tool", 1, None), Event("fin", 1, "stop")},
     messages |->
        SomeOf("messages", {"thinking", "think", "block", "redacted", "text", "tool", "args", "delta", "stop", "ping"},
               {"end_turn", "max_tokens", "tool_use"}),
     gemini |->
        SomeOf("gemini", {"text", "think", "call", "blocked", "usage", "fin", "done"},
               {"STOP", "MAX_TOKENS", "SAFETY", "MALFORMED_FUNCTION_CALL"}),
     responses |->
        SomeOf("responses", {"created", "text", "think", "tool", "args", "failed", "completed", "incomplete", "done"},
               {"max_output_tokens", "filter"})]
=============================================================================
