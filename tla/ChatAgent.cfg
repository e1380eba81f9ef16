SPECIFICATION LiveSpec
CONSTANTS
    CONTEXT_MESSAGES = 4
    MAX_TURNS = 2
    MaxCalls = 1
    MaxMessages = 6
    MaxFaults = 1
CHECK_DEADLOCK FALSE
INVARIANTS NoOrphanedResult
PROPERTIES RunsAsConfirmed ComesToRest ShowsConversation
