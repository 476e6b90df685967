----------------------------- MODULE MCRequests -----------------------------
(***************************************************************************)
(* Small instances of the parts of RequestParts: files and three           *)
(* deployments for TextRequests, and the samples of the other parts.       *)
(***************************************************************************)
EXTENDS RequestParts

\* A document, one that only claims to be a PDF, a note and a photo.
Contents ==
    [pdf |-> [signature |-> "pdf", declared |-> "octet", extension |-> None, size |-> 2, legible |-> TRUE],
     fake |-> [signature |-> None, declared |-> "pdf", extension |-> "pdf", size |-> 1, legible |-> FALSE],
     notes |-> [signature |-> None, declared |-> "octet", extension |-> "txt", size |-> 1, legible |-> TRUE],
     photo |-> [signature |-> "png", declared |-> "png", extension |-> "png", size |-> 2, legible |-> FALSE]]
File(src, value, name) == [kind |-> "file", src |-> src, value |-> value, name |-> name]
Image(src, value) == [kind |-> "image", src |-> src, value |-> value, name |-> None]
Given ==
    {<<File("url", "pdf", None), File("url", "notes", None), Image("url", "photo")>>,
     <<File("url", "pdf", "pdf"), Image("url", "photo"), File("url", "photo", None)>>,
     <<File("data", "notes", "txt"), File("data", "notes", "pdf"), File("id", "pdf", "pdf")>>,
     <<File("data", "pdf", None), File("data", "fake", None), File("url", "fake", None)>>}
Carried ==
    {[parts |-> <<>>, engine |-> "auto", asks |-> {"tools", "seed"}, wire |-> "any"]} \cup
    {[parts |-> p, engine |-> e, asks |-> {"tools", "seed", "schema"}, wire |-> w] :
        p \in Given, e \in {"auto", "native", "pdf-text"}, w \in {"any", "messages"}}

\* Deployments that differ as Anthropic's, Google's and a chat-compatible one do.
Types == {"pdf", "txt", "png", "octet"}
Choices ==
    {[files |-> {"id", "url", "data"}, images |-> {"url", "data"}, fileTypes |-> {"pdf"}, imageTypes |-> {"png"},
      reads |-> {"pdf", "other"}, max |-> 2, can |-> {"vision", "tools"}, without |-> {"seed"}, wire |-> "messages"],
     [files |-> {"data"}, images |-> {"data"}, fileTypes |-> Types, imageTypes |-> {"png"},
      reads |-> {"pdf"}, max |-> 1, can |-> {"vision", "tools", "schema"}, without |-> {}, wire |-> "generate_content"],
     [files |-> {}, images |-> {"url", "data"}, fileTypes |-> {}, imageTypes |-> Types,
      reads |-> {}, max |-> 9, can |-> {"vision", "schema"}, without |-> {"tools"}, wire |-> "chat_completions"]}

\* The samples of the other parts.
INSTANCE EffortSamples
INSTANCE CatalogueSamples
INSTANCE MeteringSamples

\* The parts a behaviour is not of begin in one state of theirs.
Plain == [parts |-> <<>>, engine |-> "auto", asks |-> {"tools", "seed"}, wire |-> "any"]
Few ==
    /\ kind \in Parts
    /\ kind # "inputs" => strategy = "drop" /\ req = Plain
    /\ kind # "conversation" => wire = "chat" /\ keeps = FALSE /\ named = FALSE
    /\ kind # "effort" => ask = CHOOSE a \in Asked : TRUE
    /\ kind # "catalogue" => offers = CHOOSE l \in Listings : TRUE
    /\ kind # "metering" => request \in {b \in Bills : b.endpoint = "embeddings"}
    /\ Init
    /\ kind # "metering" => deployment.wire = "embeddings"

FewSpec == Few /\ [][Next]_vars
=============================================================================
