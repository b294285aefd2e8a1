\* Two sessions that subscribe to the same channel.
CONSTANTS
    Handles = {h1, h2}
    NoHandle = NoHandle
    Channels = {"latest-price"}
    Slots <- MCSlots
    NoSlot = NoSlot
    DefaultSlot = DefaultSlot
    Hosts = {p}
    FaultyHosts = {}
    InvalidHosts = {}
    Actions = {"add-trading-aggregator", "subscribe"}
    MaxRequests = 3
    MaxConnections = 2
    MaxData = 1
SPECIFICATION Spec
PROPERTIES
    SubscriberKeepsFeed
\* Consumers may stop asking, and some waits of the program never end.
CHECK_DEADLOCK FALSE
