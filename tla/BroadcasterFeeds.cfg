\* Two sessions that subscribe to every channel of one aggregator.
CONSTANTS
    Handles = {h1, h2}
    NoHandle = NoHandle
    Channels = {"broadcast", "latest-price", "unsubscribe"}
    Slots <- MCSlots
    NoSlot = NoSlot
    DefaultSlot = DefaultSlot
    Hosts = {q}
    FaultyHosts = {}
    InvalidHosts = {}
    Actions = {"add-trading-aggregator", "subscribe", "clear-providers"}
    MaxRequests = 3
    MaxConnections = 2
    MaxData = 4
SPECIFICATION Spec
SYMMETRY Symmetry
INVARIANTS
    IInv
    BatchesInOrder
    FramesOnce
PROPERTIES
    ImplementsBroadcastFeed
\* Consumers may stop asking, and some waits of the program never end.
CHECK_DEADLOCK FALSE
