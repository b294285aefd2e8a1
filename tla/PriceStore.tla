----------------------------- MODULE PriceStore -----------------------------
(***************************************************************************)
(* What StorageApi promises to the processes that call it: a map from      *)
(* symbols to prices on which every call takes effect at one moment        *)
(* between its beginning and its end, once or, if it fails, perhaps never. *)
(***************************************************************************)
CONSTANTS
    Callers,        \* the threads and programs that make calls
    Hasty,          \* those that take the first segment for the answer
    Symbols,        \* the symbols the service knows
    Unknown,        \* ids of no symbol
    Amounts,        \* what a price may be
    NotJson,        \* a posted body that is not JSON
    Malformed,      \* a posted body that the parser refuses
    Failed,         \* the result of a call that got no good answer
    Garbled         \* the result of a call that kept a piece of the answer

VARIABLES
    prices,         \* the prices stored, by symbol
    call,           \* the call each caller is in
    result,         \* what its last call returned
    up              \* the service runs

storeVars == <<prices, call, result, up>>

Operations ==
    [op : {"symbols", "prices", "delete", "nothing"}]
    \cup [op : {"symbol", "price"}, id : Symbols \cup Unknown]
    \cup [op : {"post"}, id : Symbols \cup Unknown, 
       amount : Amounts \cup {NotJson, Malformed}]

Answer(status, body) == [status |-> status, body |-> body]
Stored == {[symbol |-> id, amount |-> prices[id]] : id \in DOMAIN prices}

(* The answer to an operation, given the prices stored.                    *)
AnswerTo(operation) ==
    CASE operation.op = "symbols" -> Answer("ok", Symbols)
      [] operation.op = "symbol" /\ operation.id \in Symbols ->
            Answer("ok", {operation.id})
      [] operation.op = "prices" -> Answer("ok", Stored)
      [] operation.op = "price" /\ operation.id \in DOMAIN prices ->
            Answer("ok", {s \in Stored : s.symbol = operation.id})
      [] operation.op = "delete" -> Answer("ok", {})
      [] operation.op = "post" /\ operation.id \in Symbols ->
            IF operation.amount = Malformed
            THEN Answer("internal_server_error", {}) ELSE Answer("ok", {})
      [] operation.op = "nothing" -> Answer("internal_server_error", {})
      [] OTHER -> Answer("not_found", {})

PricesAfter(operation) ==
    CASE operation.op = "delete" -> [id \in {} |-> {}]
      [] /\ operation.op = "post" /\ operation.id \in Symbols
         /\ operation.amount # Malformed ->
            [id \in DOMAIN prices \cup {operation.id} |->
                IF id = operation.id THEN operation.amount ELSE prices[id]]
      [] OTHER -> prices

NoCall == [at |-> "idle"]
Called(operation) == [at |-> "called", operation |-> operation]
Answered(answer) == [at |-> "answered", answer |-> answer]

StoreInit ==
    /\ prices = [id \in {} |-> {}]
    /\ call = [c \in Callers |-> NoCall]
    /\ result = [c \in Callers |-> Failed]
    /\ up = TRUE

Begin(c, operation) ==
    /\ call[c] = NoCall
    /\ call' = [call EXCEPT ![c] = Called(operation)]
    /\ UNCHANGED <<prices, result, up>>

(* The moment at which the call takes effect.                              *)
TakeEffect(c) ==
    /\ up
    /\ call[c].at = "called"
    /\ LET operation == call[c].operation IN
        /\ operation.op = "post" /\ operation.id \in Symbols
           => operation.amount # NotJson
        /\ prices' = PricesAfter(operation)
        /\ call' = [call EXCEPT ![c] = Answered(AnswerTo(operation))]
    /\ UNCHANGED <<result, up>>

(* A body that is not JSON, posted to a known symbol: the service ends.    *)
End(c) ==
    /\ up
    /\ call[c].at = "called"
    /\ call[c].operation.op = "post"
    /\ call[c].operation.id \in Symbols
    /\ call[c].operation.amount = NotJson
    /\ up' = FALSE
    /\ UNCHANGED <<prices, call, result>>

Finish(c, r) ==
    /\ call' = [call EXCEPT ![c] = NoCall]
    /\ result' = [result EXCEPT ![c] = r]
    /\ UNCHANGED <<prices, up>>

Return(c) ==
    \/ call[c].at = "answered" /\ Finish(c, call[c].answer)
    \/ call[c].at = "answered" /\ c \in Hasty /\ Finish(c, Garbled)
    \/ Finish(c, Failed)

StoreNext ==
    \E c \in Callers :
        \/ \E operation \in Operations : Begin(c, operation)
        \/ TakeEffect(c)
        \/ End(c)
        \/ Return(c)

StoreSpec == StoreInit /\ [][StoreNext]_storeVars
=============================================================================
