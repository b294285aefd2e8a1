\* One session that adds twice, subscribes and clears.
CONSTANTS
    Handles = {h1}
    NoHandle = NoHandle
    Channels = {"broadcast"}
    Slots <- MCSlots
    NoSlot = NoSlot
    DefaultSlot = DefaultSlot
    Hosts = {p}
    FaultyHosts = {}
    InvalidHosts = {}
    Actions = {"add-trading-aggregator", "clear-trading-aggregators", "subscribe"}
    MaxRequests = 3
    MaxConnections = 3
    MaxData = 2
SPECIFICATION FairSpec
PROPERTIES
    DestroyEnds
    BatchLeaves
    MessagesWritten
    ClearAggregatorEnds
\* Consumers may stop asking, and some waits of the program never end.
CHECK_DEADLOCK FALSE
