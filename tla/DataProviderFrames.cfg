\* Two sessions and a list of two messages, sent once.
CONSTANTS
    Handles = {h1, h2}
    NoHandle = NoHandle
    MaxRequests = 1
    Messages = 2
    m_timestampDifference <- Differences
    Rounds = 1
    Sleep = 2
    Times <- Milliseconds
SPECIFICATION FairSpec
INVARIANTS
    TypeOK
    FramesInOrder
    FramesComplete
    FreshWhenAlone
PROPERTIES
    SendersEnd
    AllFramesWritten
\* The provider waits for sessions once the tasks have ended.
CHECK_DEADLOCK FALSE
