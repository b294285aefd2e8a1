\* A thread of a trading server and a program that posts and reads prices.
CONSTANTS
    Clients = {c}
    Tools = {t}
    Symbols = {a, b}
    Unknown = {u}
    NoId = NoId
    Amounts = {p, q}
    NotJson = NotJson
    Malformed = Malformed
    Garbled = Garbled
    Failed = Failed
    MaxCalls = 3
SPECIFICATION FairSpec
INVARIANTS
    TypeOK
PROPERTIES
    RepostFails
    ImplementsPriceStore
    CallsReturn
\* The callers may stop.
CHECK_DEADLOCK FALSE
