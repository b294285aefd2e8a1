\* One session, one provider: on_open races with sendMessages.
CONSTANTS
    Handles = {h1}
    NoHandle = NoHandle
    Slots = {h1}
    NoSlot = NoSlot
    DefaultSlot = DefaultSlot
    Hosts = {p}
    FaultyHosts = {}
    InvalidHosts = {}
    Actions = {"add-provider", "clear-providers"}
    MaxRequests = 1
    MaxConnections = 1
    MaxData = 1
SPECIFICATION Spec
PROPERTIES
    DefaultOnlyWhenUnconnected
\* Consumers may stop asking, and some waits of the program never end.
CHECK_DEADLOCK FALSE
