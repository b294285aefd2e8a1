---------------------------- MODULE Broadcaster ----------------------------
(***************************************************************************)
(* The TradingBroadcaster process.  Consumers open sessions with its       *)
(* server (WsServer), have it connect to trading aggregators (EndPoint),   *)
(* forward requests to them and subscribe to a channel of what they send.  *)
(*                                                                         *)
(* m_endpoints never holds more than one EndPoint: the first               *)
(* add-trading-aggregator creates it, the next ones connect it again, and  *)
(* clear-trading-aggregators destroys it.  Its ids are those of m_ids.     *)
(*                                                                         *)
(* Three kinds of threads run: the server's, the endpoint's, which runs    *)
(* the slots, and one std::async thread per subscription, which walks      *)
(* m_endpoints without m_connectionsMutex and installs the slots.          *)
(***************************************************************************)
EXTENDS EndPoint, WsServer

CONSTANTS
    Actions,        \* the values of "action" that consumers send
    Channels        \* the channels they subscribe to

VARIABLES
    serverThread,   \* where the server thread is
    serving,        \* hdl argument of the handler it is in, if any
    clientId,       \* handle_add_aggregator's local clientId
    remaining,      \* ids that the loop the server thread is in has ahead
    m_ids,          \* the ids listed in m_endpoints; {} when that is empty
    upstream,       \* requests forwarded to each connection
    m_sendFutures,  \* the subscribeMessages tasks
    m_broadcastArray,
    m_clearedPrices,
    slot,           \* the slot that the endpoint's thread is running, if any
    crashed         \* the process has ended: std::terminate or a bad access

serverVars == <<serverThread, serving, clientId, remaining>>
endpointListVars == <<m_ids, upstream>>
slotVars == <<m_broadcastArray, m_clearedPrices, slot>>
vars == <<endPointVars, wsServerVars, serverVars, endpointListVars,
          m_sendFutures, slotVars, crashed>>

(***************************************************************************)
(* "other" is any channel the slots do not know: the dumped request of a   *)
(* "status" message, the empty string, a misspelt name.                    *)
(***************************************************************************)
AllChannels == {"broadcast", "latest-price", "unsubscribe", "other"}
Forwarded == {"add-provider", "clear-providers", "clear-prices"}

ASSUME BroadcasterAssumption ==
    /\ Channels \subseteq AllChannels
    /\ Slots = [hdl : Handles, channel : Channels \cup {"other"}]
    /\ Actions \subseteq Forwarded \cup {"add-trading-aggregator",
                         "clear-trading-aggregators", "subscribe", "status",
                         "malformed"}

Requests ==
    [action : Actions \cap {"add-trading-aggregator"}, host : Hosts \cup InvalidHosts]
    \cup [action : Actions \cap {"subscribe"}, channel : Channels]
    \cup [action : Actions \ {"add-trading-aggregator", "subscribe"}]

Frames == [id : Ids, n : 0..MaxData]
Processed == [status |-> "processed"]
Messages == {Processed} \cup [batch : Seq(Frames)] \cup [frame : Frames]

(***************************************************************************)
(* A task that is installing holds a reference into m_endpoints; it        *)
(* dangles once the endpoint is being destroyed.                           *)
(***************************************************************************)
Task(s, at, ids) == [slot |-> s, at |-> at, ids |-> ids]
Ended == [at |-> "ended"]
Tasks == {Ended} \cup [slot : Slots, at : {"starting", "installing", "dangling"},
                      ids : SUBSET (Ids \cup {NoId})]

(* "freed": a task replaced the std::function while it was being called.   *)
NotRunning == [at |-> "none"]
Running == [of : Slots, at : {"posting", "sleeping"}, freed : BOOLEAN]

Init ==
    /\ EndPointInit
    /\ WsServerInit
    /\ serverThread = "loop"
    /\ serving = NoHandle
    /\ clientId = NoId
    /\ remaining = {}
    /\ m_ids = {}
    /\ upstream = [id \in Ids |-> <<>>]
    /\ m_sendFutures = <<>>
    /\ m_broadcastArray = <<>>
    /\ m_clearedPrices = FALSE
    /\ slot = NotRunning
    /\ crashed = FALSE

TypeOK ==
    /\ EndPointTypeOK
    /\ WsServerTypeOK(Requests, Messages)
    /\ serverThread \in {"loop", "adding", "closing-aggregators", "waiting",
                         "destroying", "session-closed"} \cup Forwarded
    /\ serving \in IF serverThread = "loop" THEN {NoHandle} ELSE Handles
    /\ clientId \in Ids \cup {NoId}
    /\ remaining \subseteq Ids \cup {NoId}
    /\ m_ids \subseteq Ids \cup {NoId}
    /\ upstream \in [Ids -> Seq(Forwarded)]
    /\ m_sendFutures \in Seq(Tasks)
    /\ m_broadcastArray \in Seq(Frames) /\ Len(m_broadcastArray) <= 2
    /\ m_clearedPrices \in BOOLEAN
    /\ slot \in {NotRunning} \cup Running
    /\ crashed \in BOOLEAN

(* get_con_from_hdl(h) finds a connection: websocketpp still owns it, or   *)
(* the running slot locked h before does.                                  *)
Alive(h) ==
    \/ session[h] \in {"open", "closing", "closed"}
    \/ slot # NotRunning /\ slot.of.hdl = h

(* m_ids and the keys of m_connection_list are walked in ascending order.  *)
NextRemaining == CHOOSE id \in remaining : \A other \in remaining : id <= other

returnToLoop ==
    /\ serverThread' = "loop"
    /\ serving' = NoHandle

-----------------------------------------------------------------------------
(***************************************************************************)
(* handle_add_aggregator.                                                  *)
(***************************************************************************)

(* Up to the sleep of a second.  Nothing is listed yet.                    *)
handle_add_aggregator(h, host) ==
    \E id \in Ids \cup {NoId} :
        /\ connect(host, id)
        /\ clientId' = id
        /\ serving' = h
        /\ serverThread' = "adding"
        /\ UNCHANGED <<remaining, endpointListVars, m_sendFutures,
                       m_clearedPrices>>

(* After it: the id is listed, be it -1, and if an endpoint was listed     *)
(* before, the host is connected to once more, by an id nobody keeps.      *)
handle_add_aggregator_done ==
    /\ serverThread = "adding"
    /\ m_ids' = m_ids \cup {clientId}
    /\ IF m_ids # {} /\ clientId # NoId
       THEN connect(m_uri[clientId], m_next_id)
       ELSE UNCHANGED endPointVars
    /\ con_send(serving, Processed)
    /\ clientId' = NoId
    /\ returnToLoop
    /\ UNCHANGED <<session, inbox, requests, remaining, upstream, m_sendFutures,
                   slotVars, crashed>>

(* Mutant of forward: every connection is sent to, listed or not.          *)
forward_to_all(h, action) ==
    /\ serverThread' = action
    /\ serving' = h
    /\ remaining' = 0..(m_next_id - 1)
    /\ UNCHANGED <<endPointVars, clientId, endpointListVars, m_sendFutures,
                   m_clearedPrices>>

(***************************************************************************)
(* handle_add_provider, handle_clear_prices and handle_clear_providers:    *)
(* the request goes to every listed connection that is open.  The handler  *)
(* called for "clear-providers" is the one that sets m_clearedPrices.      *)
(***************************************************************************)
forward(h, action) ==
    /\ serverThread' = action
    /\ serving' = h
    /\ remaining' = m_ids
    /\ UNCHANGED <<endPointVars, clientId, endpointListVars, m_sendFutures,
                   m_clearedPrices>>

(* EndPoint::send: an error, which is only logged, unless it is open.      *)
send(id, action) ==
    upstream' = IF id \in 0..(m_next_id - 1) /\ m_state[id] = "open"
                THEN [upstream EXCEPT ![id] = Append(@, action)]
                ELSE upstream

forward_send ==
    /\ serverThread \in Forwarded
    /\ remaining # {}
    /\ remaining' = remaining \ {NextRemaining}
    /\ send(NextRemaining, serverThread)
    /\ UNCHANGED <<endPointVars, wsServerVars, serverThread, serving, clientId,
                   m_ids, m_sendFutures, slotVars, crashed>>

forward_done ==
    /\ serverThread \in Forwarded
    /\ remaining = {}
    /\ m_clearedPrices' = (m_clearedPrices \/ serverThread = "clear-providers")
    /\ returnToLoop
    /\ UNCHANGED <<endPointVars, wsServerVars, clientId, remaining,
                   endpointListVars, m_sendFutures, m_broadcastArray, slot,
                   crashed>>

-----------------------------------------------------------------------------
(***************************************************************************)
(* handle_clear_aggregator.  Unlike the aggregator's EndPoint::close, this *)
(* one returns 1 for an id that is not listed.                             *)
(***************************************************************************)
(* Mutant of closeReturnsOne: a close() that was sent returns 0.           *)
closeReturnsOne_unlisted(id) == id \notin 0..(m_next_id - 1)

closeReturnsOne(id) == id \notin 0..(m_next_id - 1) \/ closeSucceeds(id)

handle_clear_aggregator(h) ==
    /\ serverThread' = "closing-aggregators"
    /\ serving' = h
    /\ remaining' = m_ids
    /\ UNCHANGED <<endPointVars, clientId, endpointListVars, m_sendFutures,
                   m_clearedPrices>>

(* close() returned 0: on to the next id, and after the last one the wait  *)
(* for a local flag that nothing will set.                                 *)
handle_clear_aggregator_skip ==
    /\ serverThread = "closing-aggregators"
    /\ remaining # {}
    /\ ~closeReturnsOne(NextRemaining)
    /\ remaining' = remaining \ {NextRemaining}
    /\ UNCHANGED <<endPointVars, wsServerVars, serverThread, serving, clientId,
                   endpointListVars, m_sendFutures, slotVars, crashed>>

handle_clear_aggregator_wait ==
    /\ serverThread = "closing-aggregators"
    /\ remaining = {}
    /\ serverThread' = "waiting"
    /\ UNCHANGED <<endPointVars, wsServerVars, serving, clientId, remaining,
                   endpointListVars, m_sendFutures, slotVars, crashed>>

(* The first close() that returns 1 ends the loop and answers.  Then       *)
(* m_endpoints.clear() enters ~EndPoint, which goes over every connection. *)
handle_clear_aggregator_closed ==
    /\ serverThread = "closing-aggregators"
    /\ remaining # {}
    /\ closeReturnsOne(NextRemaining)
    /\ IF closeSucceeds(NextRemaining) THEN close(NextRemaining)
                                       ELSE UNCHANGED endPointVars
    /\ con_send(serving, Processed)
    /\ serverThread' = "destroying"
    /\ remaining' = 0..(m_next_id - 1)
    /\ m_sendFutures' = [i \in DOMAIN m_sendFutures |->
                            IF m_sendFutures[i].at = "installing"
                            THEN [m_sendFutures[i] EXCEPT !.at = "dangling"]
                            ELSE m_sendFutures[i]]
    /\ UNCHANGED <<session, inbox, requests, serving, clientId,
                   endpointListVars, slotVars, crashed>>

(* Mutant of destroy_close: only connections that were listed are closed.  *)
destroy_close_listed ==
    /\ serverThread = "destroying"
    /\ remaining # {}
    /\ remaining' = remaining \ {NextRemaining}
    /\ IF m_status[NextRemaining] = "Open" /\ closeSucceeds(NextRemaining)
          /\ NextRemaining \in m_ids
       THEN close(NextRemaining)
       ELSE UNCHANGED endPointVars
    /\ UNCHANGED <<wsServerVars, serverThread, serving, clientId,
                   endpointListVars, m_sendFutures, slotVars, crashed>>

(* ~EndPoint closes the connections whose status is "Open", and no other.  *)
destroy_close ==
    /\ serverThread = "destroying"
    /\ remaining # {}
    /\ remaining' = remaining \ {NextRemaining}
    /\ IF m_status[NextRemaining] = "Open" /\ closeSucceeds(NextRemaining)
       THEN close(NextRemaining)
       ELSE UNCHANGED endPointVars
    /\ UNCHANGED <<wsServerVars, serverThread, serving, clientId,
                   endpointListVars, m_sendFutures, slotVars, crashed>>

(* m_thread->join() returns when the endpoint's io_service has no work     *)
(* left, that is, when every connection has ended.  A task that dangles    *)
(* has nothing left to reach.                                              *)
destroy_join ==
    /\ serverThread = "destroying"
    /\ remaining = {}
    /\ clientThread = Idle
    /\ \A id \in 0..(m_next_id - 1) : m_state[id] = "closed"
    /\ m_next_id' = 0
    /\ m_uri' = [id \in Ids |-> "no-host"]
    /\ m_state' = [id \in Ids |-> "none"]
    /\ m_status' = [id \in Ids |-> "unlisted"]
    /\ dataReceivedSignal' = [id \in Ids |-> NoSlot]
    /\ m_ids' = {}
    /\ upstream' = [id \in Ids |-> <<>>]
    /\ m_sendFutures' = [i \in DOMAIN m_sendFutures |->
                            IF m_sendFutures[i].at = "dangling"
                            THEN [m_sendFutures[i] EXCEPT !.ids = {}]
                            ELSE m_sendFutures[i]]
    /\ returnToLoop
    /\ UNCHANGED <<received, clientThread, wsServerVars, clientId, remaining,
                   slotVars, crashed>>

-----------------------------------------------------------------------------
(***************************************************************************)
(* subscribeMessages.                                                      *)
(***************************************************************************)
subscribeMessages(slots) ==
    /\ m_sendFutures' = m_sendFutures \o [i \in DOMAIN slots |->
                                            Task(slots[i], "starting", {})]
    /\ UNCHANGED <<endPointVars, serverVars, endpointListVars, m_clearedPrices>>

setTask(i, task) == m_sendFutures' = [m_sendFutures EXCEPT ![i] = task]

(* The task reaches the one entry of m_endpoints and copies its set of     *)
(* ids.  If the entry is being destroyed it may find anything: nothing, or *)
(* what subscribe_lost does.                                               *)
subscribe_start(i) ==
    /\ m_sendFutures[i].at = "starting"
    /\ setTask(i, IF m_ids = {} \/ serverThread = "destroying" THEN Ended
                  ELSE Task(m_sendFutures[i].slot, "installing", m_ids))
    /\ UNCHANGED <<endPointVars, wsServerVars, serverVars, endpointListVars,
                   slotVars, crashed>>

(* Replacing the slot that is being called frees what it captured.         *)
install(id, s) ==
    /\ onDataReceived(id, s)
    /\ slot' = IF slot # NotRunning /\ clientThread.id = id
               THEN [slot EXCEPT !.freed = TRUE] ELSE slot

(* One id after the other; get_metadata() is null for -1.                  *)
subscribe_install(i) ==
    /\ m_sendFutures[i].at = "installing"
    /\ LET s == m_sendFutures[i].slot
           ids == m_sendFutures[i].ids
           id == CHOOSE x \in ids : \A other \in ids : x <= other
       IN \/ /\ id = NoId
             /\ crashed' = TRUE
             /\ UNCHANGED <<endPointVars, m_sendFutures, slot>>
          \/ /\ id # NoId
             /\ install(id, s)
             /\ setTask(i, IF ids = {id} THEN Ended
                           ELSE Task(s, "installing", ids \ {id}))
             /\ UNCHANGED crashed
    /\ UNCHANGED <<wsServerVars, serverVars, endpointListVars,
                   m_broadcastArray, m_clearedPrices>>

(* A task that was installing when the endpoint went: while ~EndPoint runs *)
(* it may still reach a connection.                                        *)
subscribe_dangling(i) ==
    /\ m_sendFutures[i].at = "dangling"
    /\ setTask(i, Ended)
    /\ \/ UNCHANGED <<endPointVars, slot>>
       \/ \E id \in m_sendFutures[i].ids \cap Ids :
             /\ serverThread = "destroying"
             /\ install(id, m_sendFutures[i].slot)
    /\ UNCHANGED <<wsServerVars, serverVars, endpointListVars,
                   m_broadcastArray, m_clearedPrices, crashed>>

(* Or its access to what is destroyed ends the process.                    *)
subscribe_lost(i) ==
    /\ \/ m_sendFutures[i].at = "dangling"
       \/ m_sendFutures[i].at = "starting" /\ serverThread = "destroying"
    /\ crashed' = TRUE
    /\ UNCHANGED <<endPointVars, wsServerVars, serverVars, endpointListVars,
                   m_sendFutures, slotVars>>

-----------------------------------------------------------------------------
(***************************************************************************)
(* The slots, on the endpoint's thread.  What comes from an aggregator is  *)
(* a price or the status of a request.                                     *)
(***************************************************************************)
Frame(id) == [id |-> id, n |-> received[id]]

endCall == slot' = NotRunning /\ clientThread' = Idle

(* "broadcast": the frame is appended and the thread sleeps for a second.  *)
append(id, s, freed) ==
    /\ m_broadcastArray' = Append(m_broadcastArray, Frame(id))
    /\ slot' = [of |-> s, at |-> "sleeping", freed |-> freed]
    /\ UNCHANGED <<clientThread, outbox>>

(* Mutant of sendLatest: the frame is appended to the array, too.          *)
sendLatest_falling(id, s) ==
    /\ con_send(s.hdl, [frame |-> Frame(id)])
    /\ m_broadcastArray' = Append(m_broadcastArray, Frame(id))
    /\ endCall

(* "latest-price": the frame is sent, reworded as a price.                 *)
sendLatest(id, s) ==
    /\ con_send(s.hdl, [frame |-> Frame(id)])
    /\ endCall
    /\ UNCHANGED m_broadcastArray

(* ClientHandler::on_message loads every text before it calls the slot,    *)
(* and does not catch what Load() throws on a malformed one.               *)
on_message_throws(id) ==
    /\ clientThread = [at |-> "on_malformed", id |-> id]
    /\ crashed' = TRUE
    /\ UNCHANGED <<endPointVars, wsServerVars, serverVars, endpointListVars,
                   m_sendFutures, slotVars>>

(* The call, up to the storage calls if prices were cleared; get_con_from_ *)
(* hdl() throws once the session is gone, whatever the channel.            *)
emitDataReceived(id) ==
    /\ clientThread = [at |-> "on_message", id |-> id]
    /\ slot = NotRunning
    /\ LET s == dataReceivedSignal[id] IN
        \/ /\ s = DefaultSlot
           /\ endCall
           /\ UNCHANGED <<outbox, m_broadcastArray, m_clearedPrices, crashed>>
        \/ /\ s = NoSlot \/ (s \in Slots /\ ~Alive(s.hdl))
           /\ crashed' = TRUE
           /\ UNCHANGED <<outbox, m_broadcastArray, m_clearedPrices, slot, clientThread>>
        \/ /\ s \in Slots /\ Alive(s.hdl)
           /\ UNCHANGED crashed
           /\ \/ /\ \/ s.channel \in {"broadcast", "latest-price"} /\ m_clearedPrices
                    \/ s.channel = "unsubscribe"
                 /\ slot' = [of |-> s, at |-> "posting", freed |-> FALSE]
                 /\ UNCHANGED <<outbox, m_broadcastArray, m_clearedPrices, clientThread>>
              \/ /\ s.channel = "broadcast"
                 /\ ~m_clearedPrices
                 /\ append(id, s, FALSE)
                 /\ UNCHANGED m_clearedPrices
              \/ /\ s.channel = "latest-price"
                 /\ ~m_clearedPrices
                 /\ sendLatest(id, s)
                 /\ UNCHANGED m_clearedPrices
              \/ /\ s.channel = "other"
                 /\ \/ con_send(s.hdl, [frame |-> Frame(id)])
                    \/ UNCHANGED outbox
                 /\ endCall
                 /\ UNCHANGED <<m_broadcastArray, m_clearedPrices>>
    /\ UNCHANGED <<endPointVarsButThread, session, inbox, requests, serverVars,
                   endpointListVars, m_sendFutures>>

(* The storage calls are over: the symbols are posted, or, for the channel *)
(* "unsubscribe", the prices are deleted.                                  *)
emit_posted(id) ==
    /\ clientThread = [at |-> "on_message", id |-> id]
    /\ slot # NotRunning /\ slot.at = "posting"
    /\ m_clearedPrices' = (slot.of.channel = "unsubscribe")
    /\ \/ /\ slot.of.channel = "broadcast"
          /\ append(id, slot.of, slot.freed)
       \/ /\ slot.of.channel = "latest-price"
          /\ sendLatest(id, slot.of)
       \/ /\ slot.of.channel = "unsubscribe"
          /\ con_send(slot.of.hdl, Processed)
          /\ endCall
          /\ UNCHANGED m_broadcastArray
    /\ UNCHANGED <<endPointVarsButThread, session, inbox, requests, serverVars,
                   endpointListVars, m_sendFutures, crashed>>

(* Mutant of emit_batch: the array is not reset.                           *)
emit_batch_keeping(id) ==
    /\ clientThread = [at |-> "on_message", id |-> id]
    /\ slot # NotRunning /\ slot.at = "sleeping"
    /\ IF Len(m_broadcastArray) = 2
       THEN con_send(slot.of.hdl, [batch |-> m_broadcastArray])
       ELSE UNCHANGED outbox
    /\ endCall
    /\ UNCHANGED <<endPointVarsButThread, session, inbox, requests, serverVars,
                   endpointListVars, m_sendFutures, m_broadcastArray,
                   m_clearedPrices, crashed>>

(* Mutant of emit_batch: the batch waits for a third frame.                *)
emit_batch_late(id) ==
    /\ clientThread = [at |-> "on_message", id |-> id]
    /\ slot # NotRunning /\ slot.at = "sleeping"
    /\ IF Len(m_broadcastArray) > 2
       THEN /\ con_send(slot.of.hdl, [batch |-> m_broadcastArray])
            /\ m_broadcastArray' = <<>>
       ELSE UNCHANGED <<outbox, m_broadcastArray>>
    /\ endCall
    /\ UNCHANGED <<endPointVarsButThread, session, inbox, requests, serverVars,
                   endpointListVars, m_sendFutures, m_clearedPrices, crashed>>

(* Mutant of emit_batch: the array is reset although it has one frame.     *)
emit_batch_emptying(id) ==
    /\ clientThread = [at |-> "on_message", id |-> id]
    /\ slot # NotRunning /\ slot.at = "sleeping"
    /\ IF Len(m_broadcastArray) = 2
       THEN con_send(slot.of.hdl, [batch |-> m_broadcastArray])
       ELSE UNCHANGED outbox
    /\ m_broadcastArray' = <<>>
    /\ endCall
    /\ UNCHANGED <<endPointVarsButThread, session, inbox, requests, serverVars,
                   endpointListVars, m_sendFutures, m_clearedPrices, crashed>>

(* Two frames make a batch.                                                *)
emit_batch(id) ==
    /\ clientThread = [at |-> "on_message", id |-> id]
    /\ slot # NotRunning /\ slot.at = "sleeping"
    /\ IF Len(m_broadcastArray) = 2
       THEN /\ con_send(slot.of.hdl, [batch |-> m_broadcastArray])
            /\ m_broadcastArray' = <<>>
       ELSE UNCHANGED <<outbox, m_broadcastArray>>
    /\ endCall
    /\ UNCHANGED <<endPointVarsButThread, session, inbox, requests, serverVars,
                   endpointListVars, m_sendFutures, m_clearedPrices, crashed>>

(* After a sleep or a storage call the slot reads what it captured again:  *)
(* if that was freed meanwhile, the process may end.                       *)
emit_freed(id) ==
    /\ clientThread = [at |-> "on_message", id |-> id]
    /\ slot # NotRunning /\ slot.freed
    /\ crashed' = TRUE
    /\ UNCHANGED <<endPointVars, wsServerVars, serverVars, endpointListVars,
                   m_sendFutures, slotVars>>

-----------------------------------------------------------------------------
(***************************************************************************)
(* The io_service of the server, when no handler is running.               *)
(***************************************************************************)
Unserved == <<endPointVars, serverVars, endpointListVars, m_sendFutures,
              slotVars, crashed>>

on_connection(h) ==
    /\ serverThread = "loop"
    /\ accept(h)
    /\ UNCHANGED Unserved

(* A "status" message subscribes twice: to its own text, and to a channel  *)
(* that it does not name.                                                  *)
on_message_request(h) ==
    /\ serverThread = "loop"
    /\ takeRequest(h)
    /\ LET request == Head(inbox[h]) IN
        \/ /\ request.action = "add-trading-aggregator"
           /\ handle_add_aggregator(h, request.host)
        \/ /\ request.action = "clear-trading-aggregators"
           /\ handle_clear_aggregator(h)
        \/ /\ request.action \in Forwarded
           /\ forward(h, request.action)
        \/ /\ request.action = "subscribe"
           /\ subscribeMessages(<<[hdl |-> h, channel |-> request.channel]>>)
        \/ /\ request.action = "status"
           /\ LET other == [hdl |-> h, channel |-> "other"]
              IN subscribeMessages(<<other, other>>)
    /\ UNCHANGED <<session, outbox, requests, m_broadcastArray, slot, crashed>>

(* Load() throws; on_message() only catches websocketpp's exceptions.  The *)
(* request that ended the process stays in sight.                          *)
on_message_request_throws(h) ==
    /\ serverThread = "loop"
    /\ session[h] = "open"
    /\ inbox[h] # <<>> /\ Head(inbox[h]) = Malformed
    /\ crashed' = TRUE
    /\ UNCHANGED <<endPointVars, wsServerVars, serverVars, endpointListVars,
                   m_sendFutures, slotVars>>

(* The close handler does nothing: slots keep the hdl of the session.      *)
on_close_Connection(h) ==
    /\ serverThread = "loop"
    /\ terminate(h)
    /\ serving' = h
    /\ serverThread' = "session-closed"
    /\ UNCHANGED <<endPointVars, clientId, remaining, endpointListVars,
                   m_sendFutures, slotVars, crashed>>

on_close_Connection_done ==
    /\ serverThread = "session-closed"
    /\ release(serving)
    /\ returnToLoop
    /\ UNCHANGED <<endPointVars, inbox, outbox, requests, clientId, remaining,
                   endpointListVars, m_sendFutures, slotVars, crashed>>

io_close_frame(h) ==
    /\ serverThread = "loop"
    /\ process_close_frame(h)
    /\ UNCHANGED Unserved

io_write(h) ==
    /\ serverThread = "loop"
    /\ write_frame(h)
    /\ UNCHANGED Unserved

-----------------------------------------------------------------------------
(***************************************************************************)
(* The threads, and the consumers.                                         *)
(***************************************************************************)

(* Bound: an add is sent only while its two connections fit in Ids.        *)
IdsLeft ==
    /\ m_next_id + 2 <= MaxConnections
    /\ serverThread # "adding"
    /\ \A h \in Handles : \A i \in DOMAIN inbox[h] :
          inbox[h][i].action # "add-trading-aggregator"

Consumer(h) ==
    /\ \/ \E request \in Requests :
             /\ request.action = "add-trading-aggregator" => IdsLeft
             /\ sendRequest(h, request)
       \/ disconnect(h)
    /\ UNCHANGED Unserved

Handler ==
    \/ handle_add_aggregator_done
    \/ forward_send \/ forward_done
    \/ handle_clear_aggregator_skip
    \/ handle_clear_aggregator_wait
    \/ handle_clear_aggregator_closed
    \/ destroy_close \/ destroy_join
    \/ on_close_Connection_done

Dispatch(h) ==
    \/ on_message_request(h) \/ on_message_request_throws(h)
    \/ io_close_frame(h) \/ on_close_Connection(h)

Elsewhere == <<wsServerVars, serverVars, endpointListVars, m_sendFutures,
               slotVars, crashed>>

Connected(id) ==
    (handle_read_http_response(id) \/ on_fail(id)) /\ UNCHANGED Elsewhere
Closed(id) == m_state[id] = "closing" /\ on_close(id) /\ UNCHANGED Elsewhere

ClientHandler(id) ==
    \/ (on_open(id) \/ on_open_default(id)) /\ UNCHANGED Elsewhere
    \/ on_message_throws(id)
    \/ emitDataReceived(id) \/ emit_posted(id) \/ emit_batch(id)
    \/ emit_freed(id)

Host(id) ==
    /\ \/ on_message(id) \/ on_malformed(id)
       \/ peer_close(id)
       \/ m_state[id] = "open" /\ on_close(id)
    /\ UNCHANGED Elsewhere

SubscribeTask(i) ==
    \/ subscribe_start(i) \/ subscribe_install(i)
    \/ subscribe_dangling(i) \/ subscribe_lost(i)

Next ==
    /\ ~crashed
    /\ \/ Handler
       \/ \E h \in Handles :
            Consumer(h) \/ on_connection(h) \/ Dispatch(h) \/ io_write(h)
       \/ \E id \in Ids :
            Connected(id) \/ Closed(id) \/ ClientHandler(id) \/ Host(id)
       \/ \E i \in DOMAIN m_sendFutures : SubscribeTask(i)

Spec == Init /\ [][Next]_vars

(* The fairness of Aggregator, for the same reasons.                       *)
Fairness ==
    /\ WF_vars(~crashed /\ Handler)
    /\ \A h \in Handles :
        /\ SF_vars(~crashed /\ Dispatch(h))
        /\ SF_vars(~crashed /\ io_write(h))
    /\ WF_vars(~crashed /\ \E id \in Ids : ClientHandler(id))
    /\ SF_vars(~crashed /\ \E id \in Ids : Connected(id) \/ Closed(id))
    /\ WF_vars(~crashed /\ \E i \in DOMAIN m_sendFutures : SubscribeTask(i))

FairSpec == Spec /\ Fairness

-----------------------------------------------------------------------------
(***************************************************************************)
(* Safety.                                                                 *)
(***************************************************************************)

(* Why the process can end: a malformed text comes from an aggregator, or  *)
(* as the next request of a session; a frame comes for the slot of a       *)
(* subscriber that is gone; a task meets the -1 of a host that does not    *)
(* parse, or the destruction of the endpoint; or it replaced a running     *)
(* slot.  Whatever the order of subscriptions, on_open and frames, an      *)
(* empty slot is never called.                                             *)
CrashExplained ==
    crashed =>
        \/ clientThread.at = "on_malformed"
        \/ /\ serverThread = "loop"
           /\ \E h \in Handles :
                 session[h] = "open" /\ inbox[h] # <<>> /\ Head(inbox[h]) = Malformed
        \/ /\ clientThread.at = "on_message"
           /\ dataReceivedSignal[clientThread.id] \in Slots
           /\ session[dataReceivedSignal[clientThread.id].hdl] = "released"
        \/ slot # NotRunning /\ slot.freed
        \/ \E i \in DOMAIN m_sendFutures :
              \/ m_sendFutures[i].at = "dangling"
              \/ m_sendFutures[i].at = "installing" /\ NoId \in m_sendFutures[i].ids
              \/ m_sendFutures[i].at = "starting" /\ serverThread = "destroying"

(* A connection that handle_add_aggregator opens and does not list, the    *)
(* second one to the same host, is never subscribed to or sent a request:  *)
(* consumers get no data twice, hosts no request twice.                    *)
SecondConnectionUnused ==
    \A id \in Ids \ m_ids :
        /\ dataReceivedSignal[id] \in {NoSlot, DefaultSlot}
        /\ upstream[id] = <<>>

(* What a message queued for a session tells of the aggregators' frames.   *)
Batches(h) == {i \in DOMAIN outbox[h] : "batch" \in DOMAIN outbox[h][i]}
Singles(h) == {i \in DOMAIN outbox[h] : "frame" \in DOMAIN outbox[h][i]}

Carried(message) ==
    IF "batch" \in DOMAIN message
    THEN {message.batch[k] : k \in DOMAIN message.batch}
    ELSE IF "frame" \in DOMAIN message THEN {message.frame} ELSE {}

Precedes(earlier, later) ==
    \A i \in DOMAIN earlier, j \in DOMAIN later :
        earlier[i].id = later[j].id => earlier[i].n < later[j].n

(* m_broadcastArray, one for all subscribers and ids, is handed out in     *)
(* batches of two, and a session has the frames of a connection in the     *)
(* order in which they came, those of its batches and those that were sent *)
(* alone each among themselves, whoever installs slots or leaves between   *)
(* two frames.                                                             *)
BatchesInOrder ==
    \A h \in Handles :
        /\ \A i \in Batches(h) :
              LET batch == outbox[h][i].batch
              IN /\ Len(batch) = 2
                 /\ Precedes(<<batch[1]>>, <<batch[2]>>)
                 /\ Precedes(batch, m_broadcastArray)
                 /\ \A j \in Batches(h) :
                       i < j => Precedes(batch, outbox[h][j].batch)
        /\ \A i, j \in Singles(h) :
              i < j => Precedes(<<outbox[h][i].frame>>, <<outbox[h][j].frame>>)

(* A frame reaches one subscriber, in one message: none is in two messages *)
(* that are queued, of whatever sessions and channels, or both queued and  *)
(* still in m_broadcastArray.                                              *)
FramesOnce ==
    \A g, h \in Handles : \A i \in DOMAIN outbox[g] :
        /\ \A j \in DOMAIN outbox[h] :
              Carried(outbox[g][i]) \cap Carried(outbox[h][j]) # {}
              => g = h /\ i = j
        /\ \A k \in DOMAIN m_broadcastArray :
              m_broadcastArray[k] \notin Carried(outbox[g][i])

(***************************************************************************)
(* The inductive invariant: what the safety properties above rest on.      *)
(***************************************************************************)

(* The frame of id that the endpoint's thread is handling is the latest    *)
(* one, and is neither in the array nor sent until the slot sleeps or ends.*)
Pending(id) ==
    /\ clientThread = [at |-> "on_message", id |-> id]
    /\ slot # NotRunning => slot.at # "sleeping"

Past(frame) ==
    /\ frame.n <= received[frame.id]
    /\ Pending(frame.id) => frame.n < received[frame.id]

FramesPast ==
    /\ \A h \in Handles : \A i \in DOMAIN outbox[h] :
          \A frame \in Carried(outbox[h][i]) : Past(frame)
    /\ \A k \in DOMAIN m_broadcastArray : Past(m_broadcastArray[k])

ArrayInOrder ==
    \A i, j \in DOMAIN m_broadcastArray :
        /\ i < j
        /\ m_broadcastArray[i].id = m_broadcastArray[j].id
        => m_broadcastArray[i].n < m_broadcastArray[j].n

(* Whoever finds two frames in the array is the slot that sends them.      *)
ArrayDrained ==
    Len(m_broadcastArray) = 2 => slot # NotRunning /\ slot.at = "sleeping"

(* No frame finds an empty slot: on_open is still running, or is over.     *)
SignalsAssigned ==
    /\ \A id \in Ids :
          m_state[id] = "open" /\ dataReceivedSignal[id] = NoSlot
          => clientThread \in [at : {"opening", "on_open"}, id : {id}]
    /\ clientThread.at = "on_message"
       => dataReceivedSignal[clientThread.id] # NoSlot

(* A slot, installed or about to be, is that of a session that was there.  *)
SlotsOfSessions ==
    /\ \A id \in Ids :
          dataReceivedSignal[id] \in Slots
          => session[dataReceivedSignal[id].hdl] # "absent"
    /\ \A i \in DOMAIN m_sendFutures :
          m_sendFutures[i].at # "ended"
          => session[m_sendFutures[i].slot.hdl] # "absent"

(* What a task still has to reach is listed, as long as it can reach it.   *)
TasksOfListed ==
    \A i \in DOMAIN m_sendFutures :
        /\ m_sendFutures[i].at \in {"installing", "dangling"}
           => m_sendFutures[i].ids \subseteq m_ids
        /\ m_sendFutures[i].at = "installing"
           => m_sendFutures[i].ids # {} /\ serverThread # "destroying"

ForwardedToListed ==
    serverThread \in Forwarded => remaining \subseteq m_ids

IInv ==
    /\ TypeOK
    /\ ArrayDrained
    /\ SignalsAssigned
    /\ SlotsOfSessions
    /\ TasksOfListed
    /\ ForwardedToListed
    /\ SecondConnectionUnused
    /\ CrashExplained
    /\ FramesPast
    /\ ArrayInOrder
    /\ BatchesInOrder
    /\ FramesOnce

(***************************************************************************)
(* What the broadcaster promises its subscribers.                          *)
(***************************************************************************)
subscriberOf == [h \in Handles |->
    IF session[h] \in {"absent", "open"}
    THEN IF session[h] = "open" THEN "present" ELSE "absent"
    ELSE "gone"]

wantedOf ==
    {m_sendFutures[i].slot :
       i \in {j \in DOMAIN m_sendFutures : m_sendFutures[j].at # "ended"}}

(* A connection is a source once its on_open is over.                      *)
sourceOf == [id \in Ids |->
    IF \/ m_state[id] \in {"none", "connecting"}
       \/ clientThread \in [at : {"opening", "on_open"}, id : {id}]
    THEN "off"
    ELSE IF m_state[id] = "closed" THEN "ended" ELSE "on"]

feedOf == [id \in Ids |->
    IF dataReceivedSignal[id] \in Slots THEN dataReceivedSignal[id] ELSE NoSlot]

callOf ==
    IF slot = NotRunning THEN NotRunning
    ELSE [source |-> clientThread.id, to |-> slot.of,
          at |-> IF slot.at = "sleeping" THEN "gathered" ELSE "called"]

handled == [id \in Ids |->
    IF Pending(id) THEN received[id] - 1 ELSE received[id]]

Feed == INSTANCE BroadcastFeed WITH
    Subscribers <- Handles, Sources <- Ids, Subscriptions <- Slots,
    Nobody <- NoSlot, Notice <- Processed,
    subscriber <- subscriberOf, wanted <- wantedOf, source <- sourceOf,
    feeds <- feedOf, call <- callOf, gathered <- m_broadcastArray,
    count <- handled, queue <- outbox, up <- ~crashed

(* Whoever subscribes, steals a slot, leaves or clears meanwhile: a frame  *)
(* is handled once, in order, for the subscription whose slot was called;  *)
(* frames to broadcast leave by twos, none lost between the array and the  *)
(* send; a connection that is open keeps its slot until a subscription or  *)
(* the end of the EndPoint replaces it.                                    *)
ImplementsBroadcastFeed == Feed!FeedSpec

(* Notes.txt, on starting up: "subscribe to a channel it will get the data *)
(* back".  A session that is there and fed by an open connection does not  *)
(* lose it to the subscription of another one.                             *)
SubscriberKeepsFeed ==
    [][\A id \in Ids :
         LET s == dataReceivedSignal[id]
             now == dataReceivedSignal'[id]
         IN /\ s \in Slots /\ now \in Slots
            /\ session[s.hdl] = "open" /\ m_state[id] = "open"
            => now.hdl = s.hdl]_vars

(* handle_clear_aggregator's comment, before it answers "processed": "the  *)
(* flag to become true, indicating that all connections are closed".       *)
ProcessedAfterClose ==
    [][serverThread = "closing-aggregators" /\ serverThread' = "destroying" =>
         \A id \in m_ids \cap Ids : m_state'[id] \in {"closing", "closed"}]_vars

-----------------------------------------------------------------------------
(***************************************************************************)
(* Liveness.                                                               *)
(***************************************************************************)

(* ~EndPoint returns, though the connections it must wait for include ones *)
(* that no id lists, if none of them is still connecting, or open without  *)
(* having published it, when the loop begins: the loop passes such a one   *)
(* by, and open it keeps m_thread->join() waiting.                         *)
DestroyEnds ==
    /\ serverThread = "destroying"
    /\ remaining = 0..(m_next_id - 1)
    /\ \A id \in remaining :
          /\ m_state[id] # "connecting"
          /\ m_state[id] = "open" => m_status[id] = "Open"
    ~> serverThread = "loop" \/ crashed

(* Two frames of a broadcast do not stay behind: they are sent, or dropped *)
(* by send(), before the next frame comes.                                 *)
BatchLeaves ==
    Len(m_broadcastArray) = 2 ~> Len(m_broadcastArray) < 2 \/ crashed

(* What is queued for a session is written, or the session ends, unless    *)
(* the server thread never comes back to its io_service: the endpoint's    *)
(* thread queues frames while the server thread sleeps or destroys.        *)
MessagesWritten ==
    \A h \in Handles :
        outbox[h] # <<>> ~>
            outbox[h] = <<>> \/ crashed \/ serverThread \in {"waiting", "destroying"}

(* handle_clear_aggregator's wait, for a flag of its own that only the loop *)
(* before it can set, is not entered while an aggregator is open to close. *)
ClearAggregatorEnds ==
    /\ serverThread = "closing-aggregators"
    /\ \E id \in remaining \cap Ids : m_state[id] = "open"
    ~> serverThread \notin {"closing-aggregators", "waiting"} \/ crashed
=============================================================================
