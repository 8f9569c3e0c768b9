SPECIFICATION Spec
CONSTANTS
    Chats <- MCChats
    Conversations <- MCConversations
    MaxRuns = 1
    MaxMessages = 3
    MaxFaults = 1
    MaxClis = 1
INVARIANTS ActionRunsOnce NoUpdateSkipped
PROPERTIES UpdatesAreHandled OutcomeIsTold
CHECK_DEADLOCK FALSE
