------------------------------ MODULE Sockets ------------------------------
(***************************************************************************)
(* The two kinds of WebSocket the gateway accepts, side by side: a client  *)
(* opens one of them, and the other kind stays as it began.                *)
(***************************************************************************)
EXTENDS Naturals, Sequences

CONSTANTS
    None,           \* absent
    Deployments,    \* deployments of the public model
    Native,         \* those whose adapter has a Responses WebSocket
    Messages,       \* messages the client of a Responses WebSocket sends at most
    TurnLimit,      \* RESPONSES_WEBSOCKET_MAX_QUEUED_TURNS
    MaxTries,       \* attempts of a turn
    MaxFaults,      \* faults around a Responses WebSocket
    Formats,        \* audio formats
    DefaultFormat,  \* that of a new live session
    Prompt,         \* a value of its optional setting
    MaxEvents,      \* events the client of a live session sends at most
    EventLimit,     \* events that fit LIVE_TRANSCRIPTION_MAX_QUEUED_BYTES
    LiveFaults      \* faults around a live session

VARIABLES
    kind,
    client, sent, queue, turn, state, bindings, wire, stored, answers, faults,
    lClient, lPatient, lSent, lQueue, lHandling, lLink, lOpen, lReceiving,
    lEchoes, lConfig, lAudio, lFinished, lUpConfig, lForwarded, lWanted, lSpoiled, lFaults

R == INSTANCE ResponsesSocket WITH QueueLimit <- TurnLimit
L == INSTANCE LiveTranscription WITH
        QueueLimit <- EventLimit, MaxFaults <- LiveFaults,
        client <- lClient, patient <- lPatient, sent <- lSent, queue <- lQueue, handling <- lHandling,
        link <- lLink, open <- lOpen, receiving <- lReceiving, echoes <- lEchoes, config <- lConfig,
        audio <- lAudio, finished <- lFinished, upConfig <- lUpConfig, forwarded <- lForwarded,
        wanted <- lWanted, spoiled <- lSpoiled, faults <- lFaults

\* None is told apart from everything it stands in for.
ASSUME SocketsAssumption ==
    /\ {Messages, TurnLimit, MaxTries, MaxFaults, MaxEvents, EventLimit, LiveFaults} \subseteq Nat
    /\ Native \subseteq Deployments /\ DefaultFormat \in Formats
    /\ None \notin L!Handlings
    /\ None \notin R!Turns \cup R!States \cup R!Readers
    /\ None \notin R!Endings /\ None \notin R!Ids

Init == kind \in {"responses", "live"} /\ R!Init /\ L!Init /\ (kind = "responses" => lPatient)

responses == <<client, sent, queue, turn, state, bindings, wire, stored, answers, faults>>
live == <<lClient, lPatient, lSent, lQueue, lHandling, lLink, lOpen, lReceiving, lEchoes,
          lConfig, lAudio, lFinished, lUpConfig, lForwarded, lWanted, lSpoiled, lFaults>>
vars == <<kind, responses, live>>

Next ==
    \/ kind = "responses" /\ R!Next /\ UNCHANGED <<kind, live>>
    \/ kind = "live" /\ L!Next /\ UNCHANGED <<kind, responses>>

Spec ==
    /\ Init /\ [][Next]_vars
    /\ WF_vars(kind = "responses" /\ R!Turn /\ UNCHANGED <<kind, live>>)
    /\ WF_vars(kind = "live" /\ L!Relay /\ UNCHANGED <<kind, responses>>)

\* The two parts have the values they should have.
TypeOK == R!TypeOK /\ L!TypeOK
\* Every response is made from the conversation its client referred to, turns are
\* answered in order, and their state survives (ResponsesSocket).
HistoryKept == TypeOK /\ R!HistoryKept /\ R!AnswersInOrder
\* A finished live session is charged the audio upstream received (LiveTranscription).
AudioCharged == L!AudioCharged
\* A live session keeps every setting its client has made (LiveTranscription).
UpdatesKept == L!UpdatesKept
\* Turns end, live sessions are finished, and no upstream socket outlives its client.
SessionsEnd == R!TurnsEnd /\ L!LiveEnds
=============================================================================
