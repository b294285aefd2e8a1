\* Two threads that send, on a server or, one of them, on a client.
CONSTANTS
    t1 = t1
    t2 = t2
    Threads <- MCThreads
    Owner = t1
    MaxSends = 2
    MaxFrames = 2
SPECIFICATION FairSpec
INVARIANTS
    TypeOK
    HandlersOnce
    NoLostWakeup
    NothingAfterAck
    IInv
PROPERTIES
    ImplementsChannel
    HandshakeEnds
    CloseEnds
\* A connection that ended does nothing more.
CHECK_DEADLOCK FALSE
