\* Two listed aggregators, then a clear.
CONSTANTS
    Handles = {h1}
    NoHandle = NoHandle
    Channels = {"broadcast"}
    Slots <- MCSlots
    NoSlot = NoSlot
    DefaultSlot = DefaultSlot
    Hosts = {p}
    FaultyHosts = {}
    InvalidHosts = {}
    Actions = {"add-trading-aggregator", "clear-trading-aggregators"}
    MaxRequests = 3
    MaxConnections = 3
    MaxData = 0
SPECIFICATION Spec
PROPERTIES
    ProcessedAfterClose
\* Consumers may stop asking, and some waits of the program never end.
CHECK_DEADLOCK FALSE
