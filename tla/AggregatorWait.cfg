\* A host that drops its connection before the session clears it.
CONSTANTS
    Handles = {h1}
    NoHandle = NoHandle
    Slots = {h1}
    NoSlot = NoSlot
    DefaultSlot = DefaultSlot
    Hosts = {q}
    FaultyHosts = {q}
    InvalidHosts = {}
    Actions = {"add-provider", "clear-providers"}
    MaxRequests = 2
    MaxConnections = 2
    MaxData = 1
SPECIFICATION FairSpec
PROPERTIES
    ClearWaitEnds
\* Consumers may stop asking, and some waits of the program never end.
CHECK_DEADLOCK FALSE
