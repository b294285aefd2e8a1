\* Two sessions that share the server thread; hosts that accept.
CONSTANTS
    Handles = {h1, h2}
    NoHandle = NoHandle
    Slots = {h1, h2}
    NoSlot = NoSlot
    DefaultSlot = DefaultSlot
    Hosts = {p}
    FaultyHosts = {}
    InvalidHosts = {}
    Actions = {"add-provider", "clear-providers"}
    MaxRequests = 2
    MaxConnections = 2
    MaxData = 0
SPECIFICATION FairSpec
PROPERTIES
    RequestsServed
    MessagesWritten
\* Consumers may stop asking, and some waits of the program never end.
CHECK_DEADLOCK FALSE
