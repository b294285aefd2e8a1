------------------------------- MODULE Storage -------------------------------
(***************************************************************************)
(* The StorageApi process and its callers: StorageHttpServer, one thread   *)
(* that reads requests, runs onHttp and writes answers on a connection per *)
(* call; StorageHttpClient, blocking calls from threads of the trading     *)
(* servers; and other programs, which post prices and read them.           *)
(*                                                                         *)
(* What a call does to the prices and what it returns is promised by       *)
(* PriceStore, which this module is shown to implement.                    *)
(***************************************************************************)
EXTENDS Naturals

CONSTANTS
    Clients,        \* threads that call StorageHttpClient
    Tools,          \* programs that read a whole answer
    Symbols,        \* the keys of symbols
    Unknown,        \* other ids
    NoId,           \* a path that ends without an id
    Amounts,        \* the prices that are posted
    NotJson,        \* a body json::JSON::Load returns null for, like ""
    Malformed,      \* a body it throws on: a number that does not convert
    Garbled,        \* a result that is a piece of an answer
    Failed,         \* sendRequest returned false: the result is empty
    MaxCalls        \* bound: calls made

Callers == Clients \cup Tools

ASSUME StorageAssumption ==
    /\ Clients \cap Tools = {}
    /\ Symbols \cap Unknown = {}
    /\ NoId \notin Symbols \cup Unknown
    /\ NotJson # Malformed
    /\ {NotJson, Malformed} \cap Amounts = {}
    /\ {NotJson, Malformed} \cap [symbol : Symbols \cup Unknown, amount : Amounts] = {}
    /\ MaxCalls \in Nat

VARIABLES
    m_prices,       \* StorageHttpServer::m_prices
    connection,     \* the server's side of the connection of each caller
    response,       \* connection::m_response, the answer set for it
    caller,         \* where each caller is
    request,        \* what it asks for
    result,         \* what its last call returned
    calls,          \* calls made so far, capped by MaxCalls
    crashed         \* an exception left m_server.run()

clientVars == <<caller, request, result, calls>>
vars == <<m_prices, connection, response, clientVars, crashed>>

-----------------------------------------------------------------------------
(***************************************************************************)
(* Requests and answers.  A posted price names a symbol of its own.        *)
(***************************************************************************)
Bodies == {NotJson, Malformed} \cup [symbol : Symbols \cup Unknown, amount : Amounts]

Request(method, resource, id, body) ==
    [method |-> method, resource |-> resource, id |-> id, body |-> body]

(* getSymbol, postSymbol, deleteAllPrices.                                 *)
ClientRequests ==
    {Request(method, "symbols", id, NotJson) :
        method \in {"GET", "POST"}, id \in Symbols \cup Unknown}
    \cup {Request("DELETE", "prices", NoId, NotJson)}

ToolRequests ==
    {Request("GET", resource, id, NotJson) :
        resource \in {"symbols", "prices"}, id \in Symbols \cup Unknown \cup {NoId}}
    \cup {Request("POST", "prices", id, body) :
            id \in Symbols \cup Unknown, body \in Bodies}

Requests == ClientRequests \cup ToolRequests
RequestsOf(c) == IF c \in Clients THEN ClientRequests ELSE ToolRequests
NoRequest == Request("GET", "symbols", NoId, NotJson)

Answer(status, body) == [status |-> status, body |-> body]
NoResponse == Answer("none", {})
Statuses == {"ok", "not_found", "internal_server_error", "none"}

(* A body is a set of ids or a set of Price::toJson().                     *)
Prices == [symbol : Symbols, amount : Amounts]
Answers == [status : Statuses, body : (SUBSET Symbols) \cup (SUBSET Prices)]

(* "responding": onHttp has returned, the answer is not on its way yet.    *)
(* "closed" after the answer was written, "lost" without.                  *)
ConnectionStates == {"none", "accepted", "responding", "closed", "lost"}

Init ==
    /\ m_prices = [id \in {} |-> {}]
    /\ connection = [c \in Callers |-> "none"]
    /\ response = [c \in Callers |-> NoResponse]
    /\ caller = [c \in Callers |-> "idle"]
    /\ request = [c \in Callers |-> NoRequest]
    /\ result = [c \in Callers |-> Failed]
    /\ calls = 0
    /\ crashed = FALSE

TypeOK ==
    /\ \E known \in SUBSET Symbols : m_prices \in [known -> Prices]
    /\ connection \in [Callers -> ConnectionStates]
    /\ response \in [Callers -> Answers]
    /\ caller \in [Callers -> {"idle", "connected", "reading"}]
    /\ request \in [Callers -> Requests]
    /\ result \in [Callers -> Answers \cup {Failed, Garbled}]
    /\ calls \in 0..MaxCalls
    /\ crashed \in BOOLEAN

-----------------------------------------------------------------------------
(***************************************************************************)
(* StorageHttpServer's handlers.  Each one sets the answer to c.           *)
(***************************************************************************)
set(c, status, body) == response' = [response EXCEPT ![c] = Answer(status, body)]

PricesOf(ids) == {m_prices[id] : id \in ids}

handleGetSymbols(c) == set(c, "ok", Symbols) /\ UNCHANGED m_prices

handleGetSymbolById(c, id) ==
    /\ \/ id \in Symbols /\ set(c, "ok", {id})
       \/ id \notin Symbols /\ set(c, "not_found", {})
    /\ UNCHANGED m_prices

handleGetPrices(c) ==
    set(c, "ok", PricesOf(DOMAIN m_prices)) /\ UNCHANGED m_prices

(* Of a known symbol without a price, and of an unknown one: not found.    *)
handleGetPriceById(c, id) ==
    /\ \/ id \in DOMAIN m_prices /\ set(c, "ok", PricesOf({id}))
       \/ id \notin DOMAIN m_prices /\ set(c, "not_found", {})
    /\ UNCHANGED m_prices

handleDeletePrices(c) ==
    /\ m_prices' = [id \in {} |-> {}]
    /\ set(c, "ok", {})

(* Mutant of handlePostPrice: the body's symbol is kept.                   *)
handlePostPriceAsNamed(c, id, body) ==
    \/ id \notin Symbols /\ set(c, "not_found", {}) /\ UNCHANGED m_prices
    \/ /\ id \in Symbols
       /\ body = Malformed
       /\ set(c, "internal_server_error", {})
       /\ UNCHANGED m_prices
    \/ /\ id \in Symbols
       /\ body \notin {NotJson, Malformed}
       /\ m_prices' = [known \in DOMAIN m_prices \cup {id} |->
                          IF known = id THEN body ELSE m_prices[known]]
       /\ set(c, "ok", {})

(* Mutant of handlePostPrice: any id will do.                              *)
handlePostPriceUnchecked(c, id, body) ==
    /\ body \notin {NotJson, Malformed}
    /\ m_prices' = [known \in DOMAIN m_prices \cup {id} |->
                       IF known = id THEN [body EXCEPT !.symbol = id]
                       ELSE m_prices[known]]
    /\ set(c, "ok", {})

(* What JSON::Load throws is caught, and answered.  fromJson itself throws *)
(* a string literal for a body that is not JSON, which is not a            *)
(* std::exception: see onHttp_throws.                                      *)
handlePostPrice(c, id, body) ==
    \/ id \notin Symbols /\ set(c, "not_found", {}) /\ UNCHANGED m_prices
    \/ /\ id \in Symbols
       /\ body = Malformed
       /\ set(c, "internal_server_error", {})
       /\ UNCHANGED m_prices
    \/ /\ id \in Symbols
       /\ body \notin {NotJson, Malformed}
       /\ m_prices' = [known \in DOMAIN m_prices \cup {id} |->
                          IF known = id THEN [body EXCEPT !.symbol = id]
                          ELSE m_prices[known]]
       /\ set(c, "ok", {})

(* Mutant of write_http_response_unset: nothing is answered.               *)
write_http_response_never(c) == FALSE

(* No route: websocketpp sees that no status was set.                      *)
write_http_response_unset(c) ==
    set(c, "internal_server_error", {}) /\ UNCHANGED m_prices

-----------------------------------------------------------------------------
(***************************************************************************)
(* The server thread.  The whole request has arrived: one step parses it,  *)
(* runs onHttp and starts to write the answer.                             *)
(***************************************************************************)

(* Mutant of onHttp: a symbol that is posted is answered like a price.     *)
onHttp_posts_symbol(c) ==
    LET r == request[c] IN
    /\ ~crashed
    /\ connection[c] = "accepted" /\ caller[c] = "reading"
    /\ connection' = [connection EXCEPT ![c] = "responding"]
    /\ r.method = "POST"
    /\ set(c, IF r.id \in Symbols THEN "ok" ELSE "not_found", {})
    /\ UNCHANGED <<m_prices, clientVars, crashed>>

onHttp(c) ==
    LET r == request[c] IN
    /\ ~crashed
    /\ connection[c] = "accepted" /\ caller[c] = "reading"
    /\ connection' = [connection EXCEPT ![c] = "responding"]
    /\ \/ r.method = "GET" /\ r.resource = "symbols" /\ r.id = NoId
          /\ handleGetSymbols(c)
       \/ r.method = "GET" /\ r.resource = "symbols" /\ r.id # NoId
          /\ handleGetSymbolById(c, r.id)
       \/ r.method = "GET" /\ r.resource = "prices" /\ r.id = NoId
          /\ handleGetPrices(c)
       \/ r.method = "GET" /\ r.resource = "prices" /\ r.id # NoId
          /\ handleGetPriceById(c, r.id)
       \/ r.method = "DELETE" /\ r.resource = "prices"
          /\ handleDeletePrices(c)
       \/ r.method = "POST" /\ r.resource = "prices"
          /\ handlePostPrice(c, r.id, r.body)
       \/ r.method = "POST" /\ r.resource = "symbols"
          /\ write_http_response_unset(c)
    /\ UNCHANGED <<clientVars, crashed>>

(* The exception leaves m_server.run() and main(): every connection goes.  *)
(* What had been written to a caller may still be read by it.              *)
onHttp_throws(c) ==
    /\ ~crashed
    /\ connection[c] = "accepted" /\ caller[c] = "reading"
    /\ request[c].method = "POST" /\ request[c].resource = "prices"
    /\ request[c].id \in Symbols
    /\ request[c].body = NotJson
    /\ crashed' = TRUE
    /\ connection' = [d \in Callers |->
                         IF connection[d] \in {"accepted", "responding"}
                         THEN "lost" ELSE connection[d]]
    /\ UNCHANGED <<m_prices, response, clientVars>>

(* The answer was written, and the connection ends.                        *)
handle_write_http_response(c) ==
    /\ ~crashed
    /\ connection[c] = "responding"
    /\ connection' = [connection EXCEPT ![c] = "closed"]
    /\ UNCHANGED <<m_prices, response, clientVars, crashed>>

(* The handshake timer, or an error of the socket: no answer is written,   *)
(* whether or not the request has been handled.                            *)
terminate(c) ==
    /\ ~crashed
    /\ connection[c] \in {"accepted", "responding"}
    /\ connection' = [connection EXCEPT ![c] = "lost"]
    /\ UNCHANGED <<m_prices, response, clientVars, crashed>>

-----------------------------------------------------------------------------
(***************************************************************************)
(* The callers.  sendRequest, up to asio::connect().                       *)
(***************************************************************************)
return(c, r) ==
    /\ caller' = [caller EXCEPT ![c] = "idle"]
    /\ result' = [result EXCEPT ![c] = r]
    /\ connection' = [connection EXCEPT ![c] = "none"]
    /\ response' = [response EXCEPT ![c] = NoResponse]
    /\ request' = [request EXCEPT ![c] = NoRequest]
    /\ UNCHANGED <<m_prices, calls, crashed>>

sendRequest(c, r) ==
    /\ caller[c] = "idle"
    /\ calls < MaxCalls
    /\ ~crashed
    /\ calls' = calls + 1
    /\ request' = [request EXCEPT ![c] = r]
    /\ caller' = [caller EXCEPT ![c] = "connected"]
    /\ connection' = [connection EXCEPT ![c] = "accepted"]
    /\ UNCHANGED <<m_prices, response, result, crashed>>

(* Nobody listens: asio::connect() throws.                                 *)
connect_refused(c) ==
    /\ caller[c] = "idle"
    /\ calls < MaxCalls
    /\ crashed
    /\ calls' = calls + 1
    /\ result' = [result EXCEPT ![c] = Failed]
    /\ UNCHANGED <<m_prices, connection, response, caller, request, crashed>>

(* asio::write() succeeds even if the connection was closed meanwhile.     *)
write(c) ==
    /\ caller[c] = "connected"
    /\ caller' = [caller EXCEPT ![c] = "reading"]
    /\ UNCHANGED <<m_prices, connection, response, request, result, calls,
                   crashed>>

(* A read that returns the whole answer.  StorageHttpClient takes no other *)
(* status than 200.  If its one read_some() stops within the body or the   *)
(* headers, what it has of them is its result, and if the status line is   *)
(* incomplete, stoi() throws or finds another number.                      *)
read_some(c) ==
    /\ caller[c] = "reading"
    /\ connection[c] = "closed"
    /\ \/ c \in Tools /\ return(c, response[c])
       \/ /\ c \in Clients
          /\ \/ response[c].status = "ok" /\ return(c, response[c])
             \/ response[c].status = "ok" /\ return(c, Garbled)
             \/ return(c, Failed)

(* write() or read_some() throws: the connection ended without an answer.  *)
read_error(c) ==
    /\ caller[c] # "idle"
    /\ connection[c] = "lost"
    /\ return(c, Failed)

-----------------------------------------------------------------------------
Caller(c) ==
    \/ \E r \in RequestsOf(c) : sendRequest(c, r)
    \/ connect_refused(c)

Client(c) == write(c) \/ read_some(c) \/ read_error(c)

Server(c) == onHttp(c) \/ onHttp_throws(c) \/ handle_write_http_response(c)

Next == \E c \in Callers : Caller(c) \/ Client(c) \/ Server(c) \/ terminate(c)

Spec == Init /\ [][Next]_vars

(* Threads that can go on do, and the io_service runs what is ready.       *)
Fairness == \A c \in Callers : WF_vars(Client(c)) /\ WF_vars(Server(c))

FairSpec == Spec /\ Fairness

-----------------------------------------------------------------------------
(***************************************************************************)
(* What the service promises.                                              *)
(***************************************************************************)
Operation(r) ==
    CASE r.method = "DELETE" -> [op |-> "delete"]
      [] r.method = "POST" /\ r.resource = "prices" ->
            [op |-> "post", id |-> r.id,
             amount |-> IF r.body \in {NotJson, Malformed} THEN r.body
                        ELSE r.body.amount]
      [] r.method = "POST" /\ r.resource = "symbols" -> [op |-> "nothing"]
      [] r.method = "GET" /\ r.id = NoId -> [op |-> r.resource]
      [] r.method = "GET" /\ r.resource = "symbols" /\ r.id # NoId ->
            [op |-> "symbol", id |-> r.id]
      [] r.method = "GET" /\ r.resource = "prices" /\ r.id # NoId ->
            [op |-> "price", id |-> r.id]

amounts == [id \in DOMAIN m_prices |-> m_prices[id].amount]

callOf == [c \in Callers |->
    IF caller[c] = "idle" THEN [at |-> "idle"]
    ELSE IF response[c] = NoResponse
         THEN [at |-> "called", operation |-> Operation(request[c])]
         ELSE [at |-> "answered", answer |-> response[c]]]

Store == INSTANCE PriceStore WITH
    Hasty <- Clients, prices <- amounts, call <- callOf, up <- ~crashed

(* Every call takes effect at one moment while it lasts, at most once, and *)
(* returns the answer of that moment: no failed call is served after its   *)
(* caller gave up, a price is kept under the symbol of the path, whatever  *)
(* symbol the body names; of the bodies that are no price, posted to a     *)
(* known symbol, one on which the parser throws is refused and changes     *)
(* nothing, and only one that is not JSON ends the service.                *)
ImplementsPriceStore == Store!StoreSpec

(* postSymbol, with which the broadcaster means to restore the symbols     *)
(* once prices were cleared, asks for a route the service does not have:   *)
(* no call of it succeeds, and its callers cannot tell.                    *)
RepostFails ==
    [][\A c \in Clients :
         request[c].method = "POST" /\ caller'[c] = "idle" => result'[c] = Failed]_vars

(* A call returns, be it after a refusal, an answer in pieces, the timer   *)
(* of the server or its end, though the client has no timeout.             *)
CallsReturn == \A c \in Callers : caller[c] # "idle" ~> caller[c] = "idle"
=============================================================================
