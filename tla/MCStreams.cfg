SPECIFICATION FairSpec
CONSTANTS
    None = none
    Alphabet <- SmallAlphabet
    Publics = {"chat", "messages", "responses"}
    MaxEvents = 4
    FaultyEvents = 1
CHECK_DEADLOCK FALSE
INVARIANTS
    FramesComplete OneOutcome OneVerdict FairlySettled
PROPERTIES
    StreamEnds
