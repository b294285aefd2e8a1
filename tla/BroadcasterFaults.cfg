\* One session; an aggregator that may refuse or drop and may send a malformed
\* text, and one whose URI does not parse.
CONSTANTS
    Handles = {h1}
    NoHandle = NoHandle
    Channels = {"broadcast"}
    Slots <- MCSlots
    NoSlot = NoSlot
    DefaultSlot = DefaultSlot
    Hosts = {q}
    FaultyHosts = {q}
    InvalidHosts = {bad}
    Actions = {"add-trading-aggregator", "clear-trading-aggregators", "subscribe", "status", "add-provider", "malformed"}
    MaxRequests = 3
    MaxConnections = 3
    MaxData = 1
SPECIFICATION Spec
INVARIANTS
    TypeOK
    CrashExplained
    SecondConnectionUnused
\* Consumers may stop asking, and some waits of the program never end.
CHECK_DEADLOCK FALSE
