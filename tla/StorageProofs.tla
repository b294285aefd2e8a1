--------------------------- MODULE StorageProofs ---------------------------
(***************************************************************************)
(* What is proved of Storage for any callers, symbols, prices and number   *)
(* of calls: type correctness, and that it implements PriceStore.          *)
(***************************************************************************)
EXTENDS Storage, TLAPS

(* What a caller may see of its answer, and that a price is kept under the *)
(* symbol it names.                                                        *)
Consistent ==
    /\ \A id \in DOMAIN m_prices : m_prices[id].symbol = id
    /\ \A c \in Callers :
        /\ caller[c] # "reading" => response[c] = NoResponse
        /\ connection[c] = "accepted" => response[c] = NoResponse
        /\ connection[c] \in {"responding", "closed"} => response[c] # NoResponse

(* What a thread of a trading server posts is a symbol, and never succeeds. *)
PostsSymbols ==
    \A c \in Clients :
        /\ request[c].method = "POST" =>
            request[c].resource = "symbols" /\ response[c].status # "ok"
        /\ caller[c] = "idle" => request[c] = NoRequest

IInv == TypeOK /\ Consistent

(***************************************************************************)
(* Requests, and what the handlers answer and store.                       *)
(***************************************************************************)
LEMMA RequestType ==
    ASSUME NEW r \in Requests
    PROVE  /\ r.method \in {"GET", "POST", "DELETE"}
           /\ r.resource \in {"symbols", "prices"}
           /\ r.id \in Symbols \cup Unknown \cup {NoId}
           /\ r.body \in Bodies
           /\ r.method = "DELETE" => r.resource = "prices"
           /\ r.method = "POST" => r.id \in Symbols \cup Unknown
  BY DEF Requests, ClientRequests, ToolRequests, Request, Bodies

LEMMA RequestsOfCaller ==
    ASSUME NEW c \in Callers, NEW r \in RequestsOf(c)
    PROVE  r \in Requests
  BY DEF RequestsOf, Requests

LEMMA NoRequestType == NoRequest \in Requests
  BY DEF NoRequest, Requests, ToolRequests

LEMMA AnswerType ==
    ASSUME NEW status \in Statuses, NEW body \in (SUBSET Symbols) \cup (SUBSET Prices)
    PROVE  Answer(status, body) \in Answers
  BY DEF Answer, Answers

LEMMA NoResponseType == NoResponse \in Answers
  BY DEF NoResponse, Answer, Answers, Statuses

(* What a handler does when it returns: it sets one answer, and the prices *)
(* stay what they should be.                                               *)
LEMMA HandlerAnswers ==
    ASSUME IInv, NEW c \in Callers, onHttp(c)
    PROVE  /\ \E answer \in Answers \ {NoResponse} :
                 response' = [response EXCEPT ![c] = answer]
           /\ \E known \in SUBSET Symbols : m_prices' \in [known -> Prices]
           /\ \A id \in DOMAIN m_prices' : m_prices'[id].symbol = id
<1> DEFINE r == request[c]
<1>1. PICK known \in SUBSET Symbols : m_prices \in [known -> Prices]
  BY DEF IInv, TypeOK
<1>2. \A id \in DOMAIN m_prices : m_prices[id].symbol = id
  BY DEF IInv, Consistent
<1>3. r \in Requests
  BY DEF IInv, TypeOK
<1>4. ASSUME NEW status \in Statuses \ {"none"},
             NEW body \in (SUBSET Symbols) \cup (SUBSET Prices),
             set(c, status, body)
      PROVE  \E answer \in Answers \ {NoResponse} :
                 response' = [response EXCEPT ![c] = answer]
  <2>1. Answer(status, body) \in Answers \ {NoResponse}
    BY AnswerType DEF Answer, NoResponse
  <2> QED
    BY <1>4, <2>1 DEF set
<1>5. /\ Symbols \in SUBSET Symbols /\ {} \in SUBSET Symbols
      /\ \A id \in Symbols : {id} \in SUBSET Symbols
      /\ \A ids \in SUBSET DOMAIN m_prices : PricesOf(ids) \in SUBSET Prices
  BY <1>1 DEF PricesOf
<1>6. {"ok", "not_found", "internal_server_error"} \subseteq Statuses \ {"none"}
  BY DEF Statuses
<1> DEFINE Answered == \E answer \in Answers \ {NoResponse} :
                         response' = [response EXCEPT ![c] = answer]
           Typed == \E ids \in SUBSET Symbols : m_prices' \in [ids -> Prices]
           Named == \A id \in DOMAIN m_prices' : m_prices'[id].symbol = id
<1>u. UNCHANGED m_prices => Typed /\ Named
  BY <1>1, <1>2
<1>4a. \A status \in Statuses \ {"none"} :
         \A body \in (SUBSET Symbols) \cup (SUBSET Prices) :
            set(c, status, body) => Answered
  BY <1>4
<1> HIDE DEF Answered, Typed, Named
<1>7. ASSUME handleGetSymbols(c) PROVE Answered /\ Typed /\ Named
  BY <1>u, <1>4a, <1>5, <1>6, <1>7 DEF handleGetSymbols
<1>8. ASSUME handleGetSymbolById(c, r.id) PROVE Answered /\ Typed /\ Named
  BY <1>u, <1>4a, <1>5, <1>6, <1>8 DEF handleGetSymbolById
<1>9. ASSUME handleGetPrices(c) PROVE Answered /\ Typed /\ Named
  <2>1. PricesOf(DOMAIN m_prices) \in (SUBSET Symbols) \cup (SUBSET Prices)
    BY <1>5
  <2>2. set(c, "ok", PricesOf(DOMAIN m_prices)) /\ UNCHANGED m_prices
    BY <1>9 DEF handleGetPrices
  <2> HIDE DEF r
  <2> QED
    BY <1>u, <1>4a, <1>6, <2>1, <2>2, Zenon
<1>10. ASSUME handleGetPriceById(c, r.id) PROVE Answered /\ Typed /\ Named
  <2>1. CASE r.id \in DOMAIN m_prices /\ set(c, "ok", PricesOf({r.id}))
    <3>1. PricesOf({r.id}) \in (SUBSET Symbols) \cup (SUBSET Prices)
      BY <1>5, <2>1
    <3>2. Answered
      BY <1>4a, <1>6, <2>1, <3>1, Zenon
    <3> QED
      BY <1>u, <1>10, <3>2 DEF handleGetPriceById
  <2>2. CASE set(c, "not_found", {})
    BY <1>u, <1>4a, <1>5, <1>6, <1>10, <2>2 DEF handleGetPriceById
  <2> QED
    BY <1>10, <2>1, <2>2 DEF handleGetPriceById
<1>11. ASSUME handleDeletePrices(c) PROVE Answered /\ Typed /\ Named
  <2>1. m_prices' \in [{} -> Prices]
    BY <1>11 DEF handleDeletePrices
  <2> QED
    <3>1. Typed /\ Named
      BY <1>11, <2>1 DEF handleDeletePrices, Typed, Named
    <3> QED
      BY <1>4a, <1>5, <1>6, <1>11, <3>1 DEF handleDeletePrices
<1>12. ASSUME handlePostPrice(c, r.id, r.body) PROVE Answered /\ Typed /\ Named
  <2>1. CASE UNCHANGED m_prices
    BY <1>u, <1>4a, <1>5, <1>6, <1>12, <2>1 DEF handlePostPrice
  <2>2. CASE ~UNCHANGED m_prices
    <3>1. /\ r.id \in Symbols
          /\ r.body \notin {NotJson, Malformed}
          /\ m_prices' = [id \in DOMAIN m_prices \cup {r.id} |->
                            IF id = r.id THEN [r.body EXCEPT !.symbol = r.id]
                            ELSE m_prices[id]]
          /\ set(c, "ok", {})
      BY <1>12, <2>2 DEF handlePostPrice
    <3>2. r.body \in [symbol : Symbols \cup Unknown, amount : Amounts]
      BY <1>3, <3>1, RequestType DEF Bodies
    <3>3. /\ [r.body EXCEPT !.symbol = r.id] \in Prices
          /\ [r.body EXCEPT !.symbol = r.id].symbol = r.id
      BY <3>1, <3>2 DEF Prices
    <3>4. m_prices' \in [known \cup {r.id} -> Prices]
      BY <1>1, <3>1, <3>3
    <3>5. \A id \in DOMAIN m_prices' : m_prices'[id].symbol = id
      BY <1>1, <1>2, <3>1, <3>3
    <3>6. Typed /\ Named
      BY <3>1, <3>4, <3>5 DEF Typed, Named
    <3> QED
      BY <1>4a, <1>5, <1>6, <3>1, <3>6
  <2> QED
    BY <2>1, <2>2
<1>13. ASSUME write_http_response_unset(c) PROVE Answered /\ Typed /\ Named
  BY <1>u, <1>4a, <1>5, <1>6, <1>13 DEF write_http_response_unset
<1>14. Answered /\ Typed /\ Named
  BY <1>7, <1>8, <1>9, <1>10, <1>11, <1>12, <1>13 DEF onHttp
<1> QED
  BY <1>14 DEF Answered, Typed, Named

(* Every variable keeps its type: whatever is posted, to whatever path,    *)
(* m_prices only has prices of known symbols.                              *)
LEMMA InitIInv == Init => IInv
<1> SUFFICES ASSUME Init PROVE IInv
  OBVIOUS
<1>1. \E known \in SUBSET Symbols : m_prices \in [known -> Prices]
  <2>1. {} \in SUBSET Symbols /\ m_prices \in [{} -> Prices]
    BY DEF Init
  <2> QED
    BY <2>1
<1>2. TypeOK
  <2>1. /\ request \in [Callers -> Requests]
        /\ response \in [Callers -> Answers]
    BY NoRequestType, NoResponseType DEF Init
  <2>2. calls \in 0..MaxCalls
    BY StorageAssumption DEF Init
  <2> QED
    BY <1>1, <2>1, <2>2 DEF Init, TypeOK, ConnectionStates
<1>3. Consistent
  BY DEF Init, Consistent
<1> QED
  BY <1>2, <1>3 DEF IInv

LEMMA ReturnType ==
    ASSUME IInv, NEW c \in Callers, NEW r \in Answers \cup {Failed, Garbled},
           return(c, r)
    PROVE  IInv'
<1>1. TypeOK'
  BY NoRequestType, NoResponseType DEF IInv, TypeOK, ConnectionStates, return
<1>2. Consistent'
  BY DEF IInv, TypeOK, Consistent, return
<1> QED
  BY <1>1, <1>2 DEF IInv

LEMMA InvStep == IInv /\ [Next]_vars => IInv'
<1> SUFFICES ASSUME IInv, [Next]_vars PROVE IInv'
  OBVIOUS
<1> USE StorageAssumption
<1>1. CASE UNCHANGED vars
  BY <1>1 DEF vars, clientVars, IInv, TypeOK, Consistent
<1>2. ASSUME NEW c \in Callers, NEW r \in RequestsOf(c), sendRequest(c, r)
      PROVE  IInv'
  <2>1. r \in Requests
    BY RequestsOfCaller
  <2>2. TypeOK'
    BY <1>2, <2>1 DEF sendRequest, IInv, TypeOK, ConnectionStates
  <2>3. Consistent'
    BY <1>2 DEF sendRequest, IInv, TypeOK, Consistent
  <2> QED
    BY <2>2, <2>3 DEF IInv
<1>3. ASSUME NEW c \in Callers, connect_refused(c) PROVE IInv'
  <2>1. TypeOK'
    BY <1>3 DEF connect_refused, IInv, TypeOK
  <2>2. Consistent'
    BY <1>3 DEF connect_refused, IInv, Consistent
  <2> QED
    BY <2>1, <2>2 DEF IInv
<1>4. ASSUME NEW c \in Callers, write(c) PROVE IInv'
  <2>1. TypeOK'
    BY <1>4 DEF write, IInv, TypeOK
  <2>2. Consistent'
    BY <1>4 DEF write, IInv, TypeOK, Consistent
  <2> QED
    BY <2>1, <2>2 DEF IInv
<1>5. ASSUME NEW c \in Callers, read_some(c) \/ read_error(c) PROVE IInv'
  <2>1. response[c] \in Answers
    BY DEF IInv, TypeOK
  <2>2. PICK r \in Answers \cup {Failed, Garbled} : return(c, r)
    BY <1>5, <2>1 DEF read_some, read_error
  <2> QED
    BY <2>2, ReturnType
<1>6. ASSUME NEW c \in Callers, onHttp(c) PROVE IInv'
  <2>1. PICK answer \in Answers \ {NoResponse} :
          response' = [response EXCEPT ![c] = answer]
    BY <1>6, HandlerAnswers
  <2>2. /\ connection' = [connection EXCEPT ![c] = "responding"]
        /\ caller[c] = "reading"
        /\ UNCHANGED <<caller, request, result, calls, crashed>>
    BY <1>6 DEF onHttp, clientVars
  <2>3. TypeOK'
    BY <1>6, <2>1, <2>2, HandlerAnswers DEF IInv, TypeOK, ConnectionStates
  <2>4. Consistent'
    BY <1>6, <2>1, <2>2, HandlerAnswers DEF IInv, TypeOK, Consistent
  <2> QED
    BY <2>3, <2>4 DEF IInv
<1>7. ASSUME NEW c \in Callers, onHttp_throws(c) PROVE IInv'
  <2>1. TypeOK'
    BY <1>7 DEF onHttp_throws, clientVars, IInv, TypeOK, ConnectionStates
  <2>2. Consistent'
    BY <1>7 DEF onHttp_throws, clientVars, IInv, TypeOK, Consistent
  <2> QED
    BY <2>1, <2>2 DEF IInv
<1>8. ASSUME NEW c \in Callers, handle_write_http_response(c) PROVE IInv'
  <2>1. TypeOK'
    BY <1>8 DEF handle_write_http_response, clientVars, IInv, TypeOK,
                ConnectionStates
  <2>2. Consistent'
    BY <1>8 DEF handle_write_http_response, clientVars, IInv, TypeOK, Consistent
  <2> QED
    BY <2>1, <2>2 DEF IInv
<1>9. ASSUME NEW c \in Callers, terminate(c) PROVE IInv'
  <2>1. TypeOK'
    BY <1>9 DEF terminate, clientVars, IInv, TypeOK, ConnectionStates
  <2>2. Consistent'
    BY <1>9 DEF terminate, clientVars, IInv, TypeOK, Consistent
  <2> QED
    BY <2>1, <2>2 DEF IInv
<1> QED
  BY <1>1, <1>2, <1>3, <1>4, <1>5, <1>6, <1>7, <1>8, <1>9
  DEF Next, Caller, Client, Server

(* The invariant holds in every reachable state.                           *)
THEOREM Invariance == Spec => []IInv
<1> QED
  BY InitIInv, InvStep, PTL DEF Spec

(* No request, known or unknown, with whatever body, spoils a variable.    *)
THEOREM TypeCorrect == Spec => []TypeOK
<1>1. IInv => TypeOK
  BY DEF IInv
<1> QED
  BY <1>1, Invariance, PTL

LEMMA PostsStep == IInv /\ PostsSymbols /\ [Next]_vars => PostsSymbols'
<1> DEFINE P(d) == request[d].method = "POST" =>
                     request[d].resource = "symbols" /\ response[d].status # "ok"
           Q(d) == caller[d] = "idle" => request[d] = NoRequest
<1> SUFFICES ASSUME IInv, PostsSymbols, [Next]_vars, NEW d \in Clients
             PROVE  P(d)' /\ Q(d)'
  BY DEF PostsSymbols
<1>0. d \in Callers /\ P(d) /\ Q(d)
  BY DEF PostsSymbols, Callers
<1>1. CASE UNCHANGED <<request, response, caller>>
  BY <1>0, <1>1
<1>2. ASSUME NEW c \in Callers, NEW r \in RequestsOf(c), sendRequest(c, r)
      PROVE  P(d)' /\ Q(d)'
  <2>1. CASE c = d
    <3>1. /\ request'[d] = r /\ response'[d] = response[d]
          /\ caller[d] = "idle" /\ caller'[d] = "connected"
      BY <1>2, <2>1 DEF sendRequest, IInv, TypeOK
    <3>2. r.method = "POST" => r.resource = "symbols"
      <4>1. r \in ClientRequests
        BY <2>1 DEF RequestsOf
      <4> QED
        BY <4>1 DEF ClientRequests, Request
    <3>3. response[d].status = "none"
      BY <1>0, <3>1 DEF IInv, Consistent, NoResponse, Answer
    <3> QED
      BY <3>1, <3>2, <3>3
  <2>2. CASE c # d
    BY <1>0, <1>2, <2>2 DEF sendRequest, IInv, TypeOK
  <2> QED
    BY <2>1, <2>2
<1>3. ASSUME NEW c \in Callers, NEW r, return(c, r)
      PROVE  P(d)' /\ Q(d)'
  <2>1. CASE c = d
    BY <1>0, <1>3, <2>1 DEF return, NoRequest, Request, IInv, TypeOK
  <2>2. CASE c # d
    BY <1>0, <1>3, <2>2 DEF return, IInv, TypeOK
  <2> QED
    BY <2>1, <2>2
<1>4. ASSUME NEW c \in Callers, onHttp(c)
      PROVE  P(d)' /\ Q(d)'
  <2>1. UNCHANGED <<request, caller>>
    BY <1>4 DEF onHttp, clientVars
  <2>2. CASE c = d
    <3>1. request[d].method = "POST" => set(d, "internal_server_error", {})
      BY <1>0, <1>4, <2>1, <2>2 DEF onHttp, write_http_response_unset
    <3>2. request[d].method = "POST"
          => response'[d] = Answer("internal_server_error", {})
      BY <1>0, <3>1 DEF set, IInv, TypeOK
    <3> QED
      BY <1>0, <2>1, <3>2 DEF Answer
  <2>3. CASE c # d
    <3>1. response'[d] = response[d]
      BY <1>0, <1>4, <2>3, HandlerAnswers DEF IInv, TypeOK
    <3> QED
      BY <1>0, <2>1, <3>1
  <2> QED
    BY <2>2, <2>3
<1>5. ASSUME NEW c \in Callers, write(c) PROVE P(d)' /\ Q(d)'
  BY <1>0, <1>5 DEF write, IInv, TypeOK
<1> HIDE DEF P, Q
<1> QED
  BY <1>1, <1>2, <1>3, <1>4, <1>5
  DEF Next, Caller, Client, Server, vars, clientVars, connect_refused,
      read_some, read_error, onHttp_throws, handle_write_http_response, terminate

(* No postSymbol of any thread ever succeeds.                              *)
THEOREM RepostAlwaysFails == Spec => RepostFails
<1> DEFINE Fails ==
      \A c \in Clients :
         request[c].method = "POST" /\ caller'[c] = "idle" => result'[c] = Failed
<1>1. Init => PostsSymbols
  BY DEF Init, PostsSymbols, NoRequest, Request, Callers
<1>2. Spec => []PostsSymbols
  BY <1>1, PostsStep, Invariance, PTL DEF Spec
<1>3. IInv /\ PostsSymbols /\ [Next]_vars => [Fails]_vars
  <2> SUFFICES ASSUME IInv, PostsSymbols, Next, NEW d \in Clients,
                      request[d].method = "POST", caller'[d] = "idle"
               PROVE  result'[d] = Failed \/ UNCHANGED vars
    OBVIOUS
  <2>1. d \in Callers /\ caller[d] # "idle" /\ response[d].status # "ok"
    BY DEF PostsSymbols, Callers, NoRequest, Request
  <2>2. ASSUME NEW c \in Callers, read_some(c) \/ read_error(c)
        PROVE  result'[d] = Failed
    <3>1. c = d
      BY <2>1, <2>2 DEF read_some, read_error, return, IInv, TypeOK
    <3>2. return(d, Failed)
      BY <2>1, <2>2, <3>1, StorageAssumption DEF read_some, read_error
    <3> QED
      BY <2>1, <3>2 DEF return, IInv, TypeOK
  <2>3. ASSUME NEW c \in Callers, NEW r \in RequestsOf(c), sendRequest(c, r)
        PROVE  FALSE
    BY <2>1, <2>3 DEF sendRequest, IInv, TypeOK
  <2>4. ASSUME NEW c \in Callers, write(c) PROVE FALSE
    BY <2>1, <2>4 DEF write, IInv, TypeOK
  <2>5. CASE UNCHANGED caller
    BY <2>1, <2>5
  <2> QED
    BY <2>2, <2>3, <2>4, <2>5
    DEF Next, Caller, Client, Server, clientVars, connect_refused, onHttp,
        onHttp_throws, handle_write_http_response, terminate
<1> QED
  BY <1>2, <1>3, Invariance, PTL DEF Spec, RepostFails
(***************************************************************************)
(* Storage implements PriceStore.                                          *)
(***************************************************************************)
LEMMA OperationType ==
    ASSUME NEW r \in Requests
    PROVE  Operation(r) \in Store!Operations
<1>1. CASE r.method = "POST" /\ r.resource = "prices"
  <2>1. r.body \notin {NotJson, Malformed} => r.body.amount \in Amounts
    BY RequestType DEF Bodies
  <2> QED
    BY <1>1, <2>1, RequestType DEF Operation, Store!Operations
<1>2. CASE r.method # "POST" \/ r.resource # "prices"
  BY <1>2, RequestType DEF Operation, Store!Operations
<1> QED
  BY <1>1, <1>2

LEMMA InitRefined == Init => Store!StoreInit
<1> SUFFICES ASSUME Init PROVE Store!StoreInit
  OBVIOUS
<1>1. amounts = [id \in {} |-> {}]
  BY DEF Init, amounts
<1>2. callOf = [c \in Callers |-> Store!NoCall]
  BY DEF Init, callOf, Store!NoCall
<1> QED
  BY <1>1, <1>2 DEF Init, Store!StoreInit

(* The call that a step of c leaves in place, and that of the others.      *)
LEMMA CallOf ==
    ASSUME NEW c \in Callers
    PROVE  /\ caller[c] = "idle" => callOf[c] = Store!NoCall
           /\ caller[c] # "idle" /\ response[c] = NoResponse
                => callOf[c] = Store!Called(Operation(request[c]))
           /\ caller[c] # "idle" /\ response[c] # NoResponse
                => callOf[c] = Store!Answered(response[c])
  BY DEF callOf, Store!NoCall, Store!Called, Store!Answered

LEMMA OtherCalls ==
    ASSUME NEW c \in Callers,
           \A d \in Callers \ {c} : /\ caller'[d] = caller[d]
                                     /\ response'[d] = response[d]
                                     /\ request'[d] = request[d]
    PROVE  callOf' = [callOf EXCEPT ![c] = callOf'[c]]
  BY DEF callOf

LEMMA Returned ==
    ASSUME IInv, NEW c \in Callers, NEW r, return(c, r)
    PROVE  Store!Finish(c, r)
<1>1. callOf' = [callOf EXCEPT ![c] = callOf'[c]]
  BY OtherCalls DEF return, IInv, TypeOK
<1>2. caller'[c] = "idle"
  BY DEF return, IInv, TypeOK
<1>3. callOf'[c] = Store!NoCall
  BY <1>2 DEF callOf, Store!NoCall
<1>4. UNCHANGED <<amounts, ~crashed>>
  BY DEF return, amounts
<1> QED
  BY <1>1, <1>3, <1>4 DEF return, Store!Finish

(* The answer of onHttp and the prices it leaves are those of the promise. *)
LEMMA HandlerTakesEffect ==
    ASSUME IInv, NEW c \in Callers, onHttp(c)
    PROVE  Store!TakeEffect(c)
<1> DEFINE r == request[c]
           op == Operation(r)
<1>1. PICK known \in SUBSET Symbols : m_prices \in [known -> Prices]
  BY DEF IInv, TypeOK
<1>2. r \in Requests
  BY DEF IInv, TypeOK
<1>3. /\ caller[c] = "reading" /\ response[c] = NoResponse /\ ~crashed
      /\ UNCHANGED <<caller, request, result, calls, crashed>>
  BY DEF onHttp, clientVars, IInv, Consistent
<1>4. callOf[c] = Store!Called(op)
  BY <1>3, CallOf
<1>5. Store!Stored = PricesOf(DOMAIN m_prices)
  BY <1>1 DEF Store!Stored, PricesOf, amounts, IInv, Consistent, Prices
<1>6. \A id \in DOMAIN m_prices :
        {s \in Store!Stored : s.symbol = id} = PricesOf({id})
  BY <1>1, <1>5 DEF PricesOf, IInv, Consistent
<1>7. DOMAIN amounts = DOMAIN m_prices /\ DOMAIN m_prices \subseteq Symbols
  BY <1>1 DEF amounts
<1> DEFINE Effect ==
      /\ response' = [response EXCEPT ![c] = Store!AnswerTo(op)]
      /\ amounts' = Store!PricesAfter(op)
<1>u. UNCHANGED m_prices => UNCHANGED amounts
  BY DEF amounts
<1>8. ASSUME r.method = "GET", r.resource = "symbols", r.id = NoId,
             handleGetSymbols(c)
      PROVE  Effect
  BY <1>8, <1>u DEF Operation, handleGetSymbols, set, Answer, Store!Answer,
                    Store!AnswerTo, Store!PricesAfter
<1>9. ASSUME r.method = "GET", r.resource = "symbols", r.id # NoId,
             handleGetSymbolById(c, r.id)
      PROVE  Effect
  BY <1>9, <1>u DEF Operation, handleGetSymbolById, set, Answer, Store!Answer,
                    Store!AnswerTo, Store!PricesAfter
<1>10. ASSUME r.method = "GET", r.resource = "prices", r.id = NoId,
              handleGetPrices(c)
       PROVE  Effect
  BY <1>10, <1>u, <1>5 DEF Operation, handleGetPrices, set, Answer, Store!Answer,
                    Store!AnswerTo, Store!PricesAfter
<1>11. ASSUME r.method = "GET", r.resource = "prices", r.id # NoId,
              handleGetPriceById(c, r.id)
       PROVE  Effect
  BY <1>11, <1>u, <1>6, <1>7
  DEF Operation, handleGetPriceById, set, Answer, Store!Answer,
      Store!AnswerTo, Store!PricesAfter
<1>12. ASSUME r.method = "DELETE", r.resource = "prices", handleDeletePrices(c)
       PROVE  Effect
  BY <1>12 DEF Operation, handleDeletePrices, set, Answer, Store!Answer,
               Store!AnswerTo, Store!PricesAfter, amounts
<1>13. ASSUME r.method = "POST", r.resource = "prices",
              handlePostPrice(c, r.id, r.body)
       PROVE  Effect /\ (r.id \in Symbols => r.body # NotJson)
  <2>1. op = [op |-> "post", id |-> r.id,
              amount |-> IF r.body \in {NotJson, Malformed} THEN r.body
                         ELSE r.body.amount]
    BY <1>13 DEF Operation
  <2>2. CASE r.id \notin Symbols
    BY <1>13, <1>u, <2>1, <2>2
    DEF handlePostPrice, set, Answer, Store!Answer, Store!AnswerTo,
        Store!PricesAfter
  <2>3. CASE r.id \in Symbols /\ r.body = Malformed
    <3>1. set(c, "internal_server_error", {}) /\ UNCHANGED m_prices
      BY <1>13, <2>3 DEF handlePostPrice
    <3>2. Store!AnswerTo(op) = Answer("internal_server_error", {})
      BY <2>1, <2>3 DEF Store!AnswerTo, Store!Answer, Answer
    <3>3. Store!PricesAfter(op) = amounts
      BY <2>1, <2>3 DEF Store!PricesAfter
    <3> QED
      BY <1>u, <2>3, <3>1, <3>2, <3>3, StorageAssumption DEF set
  <2>4. CASE r.id \in Symbols /\ r.body # Malformed
    <3>1. /\ r.body \notin {NotJson, Malformed}
          /\ m_prices' = [id \in DOMAIN m_prices \cup {r.id} |->
                            IF id = r.id THEN [r.body EXCEPT !.symbol = r.id]
                            ELSE m_prices[id]]
          /\ set(c, "ok", {})
      BY <1>13, <2>4 DEF handlePostPrice
    <3>2. r.body \in [symbol : Symbols \cup Unknown, amount : Amounts]
      BY <1>2, <3>1, RequestType DEF Bodies
    <3>3. [r.body EXCEPT !.symbol = r.id].amount = r.body.amount
      BY <3>2
    <3>4. amounts' = [id \in DOMAIN amounts \cup {r.id} |->
                        IF id = r.id THEN r.body.amount ELSE amounts[id]]
      BY <1>7, <3>1, <3>3 DEF amounts
    <3>5. op.amount = r.body.amount /\ op.amount # Malformed
      BY <2>1, <3>1, <3>2, StorageAssumption
    <3>6. Store!PricesAfter(op) = amounts'
      BY <2>1, <2>4, <3>1, <3>4, <3>5 DEF Store!PricesAfter
    <3>7. Store!AnswerTo(op) = Answer("ok", {})
      BY <2>1, <2>4, <3>5 DEF Store!AnswerTo, Store!Answer, Answer
    <3> QED
      BY <3>1, <3>6, <3>7 DEF set
  <2> QED
    BY <2>2, <2>3, <2>4
<1>14. ASSUME r.method = "POST", r.resource = "symbols",
              write_http_response_unset(c)
       PROVE  Effect
  BY <1>14, <1>u DEF Operation, write_http_response_unset, set, Answer,
                     Store!Answer, Store!AnswerTo, Store!PricesAfter
<1>15. Effect
  <2> HIDE DEF Effect
  <2> QED
    BY <1>8, <1>9, <1>10, <1>11, <1>12, <1>13, <1>14 DEF onHttp
<1>16. op.op = "post" /\ op.id \in Symbols => op.amount # NotJson
  <2>1. CASE r.method = "POST" /\ r.resource = "prices"
    <3>1. handlePostPrice(c, r.id, r.body)
      BY <2>1 DEF onHttp
    <3>2. op = [op |-> "post", id |-> r.id,
                amount |-> IF r.body \in {NotJson, Malformed} THEN r.body
                           ELSE r.body.amount]
      BY <2>1 DEF Operation
    <3>3. r.id \in Symbols => r.body # NotJson
      BY <1>13, <2>1, <3>1
    <3>4. r.body \notin {NotJson, Malformed} => r.body.amount \in Amounts
      BY <1>2, RequestType DEF Bodies
    <3> QED
      BY <3>2, <3>3, <3>4, StorageAssumption
  <2>2. CASE r.method # "POST" \/ r.resource # "prices"
    BY <1>2, <2>2, RequestType DEF Operation
  <2> QED
    BY <2>1, <2>2
<1>17. callOf' = [callOf EXCEPT ![c] = Store!Answered(Store!AnswerTo(op))]
  <2>1. PICK answer \in Answers \ {NoResponse} :
          response' = [response EXCEPT ![c] = answer]
    BY HandlerAnswers
  <2>2. response \in [Callers -> Answers]
    BY DEF IInv, TypeOK
  <2>3. response'[c] # NoResponse /\ response'[c] = Store!AnswerTo(op)
    BY <1>15, <2>1, <2>2
  <2>4. callOf'[c] = Store!Answered(Store!AnswerTo(op))
    BY <1>3, <2>3 DEF callOf, Store!Answered
  <2>5. callOf' = [callOf EXCEPT ![c] = callOf'[c]]
    BY <1>3, <2>1, <2>2, OtherCalls
  <2> QED
    BY <2>4, <2>5
<1> QED
  BY <1>3, <1>4, <1>15, <1>16, <1>17 DEF Store!TakeEffect, Store!Called

LEMMA StepRefined == IInv /\ [Next]_vars => [Store!StoreNext]_(Store!storeVars)
<1> SUFFICES ASSUME IInv, [Next]_vars
             PROVE  Store!StoreNext \/ UNCHANGED Store!storeVars
  OBVIOUS
<1> DEFINE Same == UNCHANGED Store!storeVars
<1>s. ASSUME UNCHANGED <<m_prices, caller, response, request, result, crashed>>
      PROVE  Same
  BY <1>s DEF Store!storeVars, amounts, callOf
<1>1. CASE UNCHANGED vars
  BY <1>1, <1>s DEF vars, clientVars
<1>2. ASSUME NEW c \in Callers, NEW r \in RequestsOf(c), sendRequest(c, r)
      PROVE  Store!StoreNext
  <2>1. Operation(r) \in Store!Operations
    BY RequestsOfCaller, OperationType
  <2>2. callOf[c] = Store!NoCall
    BY <1>2, CallOf DEF sendRequest
  <2>3. callOf'[c] = Store!Called(Operation(r))
    BY <1>2 DEF sendRequest, callOf, Store!Called, IInv, TypeOK, Consistent
  <2>4. callOf' = [callOf EXCEPT ![c] = callOf'[c]]
    BY <1>2, OtherCalls DEF sendRequest, IInv, TypeOK
  <2>5. Store!Begin(c, Operation(r))
    BY <1>2, <2>2, <2>3, <2>4 DEF sendRequest, Store!Begin, amounts
  <2> QED
    BY <2>1, <2>5 DEF Store!StoreNext
<1>3. ASSUME NEW c \in Callers, connect_refused(c) PROVE Store!StoreNext
  <2>1. callOf[c] = Store!NoCall
    BY <1>3, CallOf DEF connect_refused
  <2>2. UNCHANGED <<callOf, amounts, ~crashed>>
    BY <1>3 DEF connect_refused, callOf, amounts
  <2>3. callOf' = [callOf EXCEPT ![c] = Store!NoCall]
    BY <2>1, <2>2 DEF callOf
  <2>4. Store!Finish(c, Failed)
    BY <1>3, <2>2, <2>3 DEF connect_refused, Store!Finish
  <2> QED
    BY <2>4 DEF Store!StoreNext, Store!Return
<1>4. ASSUME NEW c \in Callers, write(c) PROVE Same
  <2>1. callOf'[c] = callOf[c]
    BY <1>4 DEF write, callOf, IInv, TypeOK
  <2>2. callOf' = [callOf EXCEPT ![c] = callOf'[c]]
    BY <1>4, OtherCalls DEF write, IInv, TypeOK
  <2>3. UNCHANGED callOf
    BY <2>1, <2>2 DEF callOf
  <2> QED
    BY <1>4, <2>3 DEF write, Store!storeVars, amounts
<1>5. ASSUME NEW c \in Callers, read_some(c) PROVE Store!StoreNext
  <2>1. callOf[c] = Store!Answered(response[c])
    BY <1>5, CallOf DEF read_some, IInv, Consistent
  <2>2. \/ Store!Finish(c, response[c])
        \/ c \in Clients /\ Store!Finish(c, Garbled)
        \/ Store!Finish(c, Failed)
    BY <1>5, Returned DEF read_some
  <2>3. Store!Return(c)
    BY <2>1, <2>2 DEF Store!Return, Store!Answered
  <2> QED
    BY <2>3 DEF Store!StoreNext
<1>6. ASSUME NEW c \in Callers, read_error(c) PROVE Store!StoreNext
  <2>1. Store!Finish(c, Failed)
    BY <1>6, Returned DEF read_error
  <2> QED
    BY <2>1 DEF Store!StoreNext, Store!Return
<1>7. ASSUME NEW c \in Callers, onHttp(c) PROVE Store!StoreNext
  BY <1>7, HandlerTakesEffect DEF Store!StoreNext
<1>8. ASSUME NEW c \in Callers, onHttp_throws(c) PROVE Store!StoreNext
  <2>1. /\ caller[c] = "reading" /\ response[c] = NoResponse
        /\ UNCHANGED <<m_prices, caller, response, request, result>>
    BY <1>8 DEF onHttp_throws, clientVars, IInv, Consistent
  <2>2. callOf[c] = Store!Called(Operation(request[c]))
    BY <2>1, CallOf
  <2>3. Operation(request[c]) =
          [op |-> "post", id |-> request[c].id, amount |-> NotJson]
    BY <1>8 DEF onHttp_throws, Operation
  <2>4. UNCHANGED <<amounts, callOf>>
    BY <2>1 DEF amounts, callOf
  <2>5. Store!End(c)
    BY <1>8, <2>1, <2>2, <2>3, <2>4
    DEF onHttp_throws, Store!End, Store!Called, IInv, TypeOK
  <2> QED
    BY <2>5 DEF Store!StoreNext
<1>9. ASSUME NEW c \in Callers,
             handle_write_http_response(c) \/ terminate(c)
      PROVE  Same
  BY <1>9, <1>s DEF handle_write_http_response, terminate, clientVars
<1> QED
  BY <1>1, <1>2, <1>3, <1>4, <1>5, <1>6, <1>7, <1>8, <1>9
  DEF Next, Caller, Client, Server

(* For any callers, symbols and prices, every call takes effect at one     *)
(* moment while it lasts, at most once, and returns the answer of then.    *)
THEOREM Implementation == Spec => ImplementsPriceStore
<1> QED
  BY InitRefined, StepRefined, Invariance, PTL
  DEF Spec, ImplementsPriceStore, Store!StoreSpec
=============================================================================
