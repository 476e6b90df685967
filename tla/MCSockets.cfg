SPECIFICATION Spec
CONSTANTS
    None = None
    Deployments = {d1, h}
    Native = {d1}
    Messages = 3
    TurnLimit = 2
    MaxTries = 2
    MaxFaults = 1
    Formats = {"pcm", "pcmu"}
    DefaultFormat = "pcm"
    Prompt = "p"
    MaxEvents = 3
    EventLimit = 2
    LiveFaults = 1
INVARIANTS  AudioCharged
PROPERTY SessionsEnd
CHECK_DEADLOCK FALSE
