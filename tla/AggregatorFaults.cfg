\* Two sessions; a host that sends several frames, may refuse or drop and may send
\* a malformed text, and one whose URI does not parse.
CONSTANTS
    Handles = {h1, h2}
    NoHandle = NoHandle
    Slots = {h1, h2}
    NoSlot = NoSlot
    DefaultSlot = DefaultSlot
    Hosts = {q}
    FaultyHosts = {q}
    InvalidHosts = {bad}
    Actions = {"add-provider", "clear-providers", "clear-prices", "subscribe", "malformed"}
    MaxRequests = 2
    MaxConnections = 2
    MaxData = 2
SPECIFICATION Spec
SYMMETRY Symmetry
INVARIANTS
    TypeOK
    OpenTracked
    CrashExplained
    OpenSlotsAlive
    FeedsGoToAsker
    IInv
PROPERTIES
    ProcceedAfterClose
    ImplementsFeedRelay
\* Consumers may stop asking, and some waits of the program never end.
CHECK_DEADLOCK FALSE
