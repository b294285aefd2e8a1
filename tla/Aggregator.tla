----------------------------- MODULE Aggregator -----------------------------
(***************************************************************************)
(* The TradingAggregator process.  Consumers open sessions with its server *)
(* (WsServer) and ask it to connect to data providers (EndPoint).  The     *)
(* data of a provider goes to the consumer that asked for it.              *)
(*                                                                         *)
(* Three kinds of threads run:                                             *)
(*   - the server thread, in m_server.run(): every handler of              *)
(*     TradingAggregatorServer, which sleep and poll in place;             *)
(*   - the endpoint's thread: ClientHandler's handlers and the slots;      *)
(*   - one std::async thread per provider, which installs the slot.        *)
(* m_connectionsMutex is only ever taken by the first, so it orders        *)
(* nothing.                                                                *)
(***************************************************************************)
EXTENDS EndPoint, WsServer

CONSTANT Actions    \* the values of "action" that consumers send

VARIABLES
    serverThread,   \* where the server thread is
    serving,        \* hdl argument of the handler it is in, if any
    clientId,       \* handle_add_provider's local clientId, while polling
    toClose,        \* handle_clear_provider: ids its loop has not reached
    m_client_ids,   \* the connections that handle_clear_provider closes
    m_connections,  \* the connections each session asked for
    installing,     \* sendMessages tasks that have not run yet
    holding,        \* tasks that have locked their hdl, slot not yet set
    crashed         \* an exception left a thread's function: std::terminate

aggregatorVars == <<serving, clientId, toClose, m_client_ids, m_connections>>
taskVars == <<installing, holding>>
vars == <<endPointVars, wsServerVars, aggregatorVars, taskVars, serverThread,
          crashed>>

ASSUME AggregatorAssumption ==
    /\ Slots = Handles
    /\ Actions \subseteq {"add-provider", "clear-providers", "clear-prices",
                         "subscribe", "malformed"}
    /\ MaxRequests <= MaxConnections

Requests ==
    [action : Actions \cap {"add-provider"}, host : Hosts \cup InvalidHosts]
    \cup [action : Actions \ {"add-provider"}]

Reply(status) == [status |-> status]
Data(id, n) == [id |-> id, n |-> n]
Messages == [status : {"processed", "not-processed", "procceed"}]
            \cup [id : Ids, n : 0..MaxData]

Init ==
    /\ EndPointInit
    /\ WsServerInit
    /\ serverThread = "loop"
    /\ serving = NoHandle
    /\ clientId = NoId
    /\ toClose = {}
    /\ m_client_ids = {}
    /\ m_connections = [h \in Handles |-> {}]
    /\ installing = {}
    /\ holding = {}
    /\ crashed = FALSE

TypeOK ==
    /\ EndPointTypeOK
    /\ WsServerTypeOK(Requests, Messages)
    /\ serverThread \in {"loop", "polling", "clearing", "waiting"}
    /\ serving \in IF serverThread = "loop" THEN {NoHandle} ELSE Handles
    /\ clientId \in Ids \cup {NoId}
    /\ toClose \subseteq Ids
    /\ m_client_ids \subseteq Ids
    /\ m_connections \in [Handles -> SUBSET (Ids \cup {NoId})]
    /\ installing \subseteq Handles \X Ids
    /\ holding \subseteq Handles \X Ids
    /\ crashed \in BOOLEAN

(* get_con_from_hdl(h) finds a connection: websocketpp still owns it, or a *)
(* task that locked h before does.                                         *)
Alive(h) ==
    \/ session[h] \in {"open", "closing", "closed"}
    \/ \E task \in holding : task[1] = h

-----------------------------------------------------------------------------
(***************************************************************************)
(* handle_add_provider.                                                    *)
(***************************************************************************)

(* Up to the polling loop.  The blocking getSymbol() calls have no result  *)
(* that is used.                                                           *)
handle_add_provider(h, host) ==
    \E id \in Ids \cup {NoId} :
        /\ connect(host, id)
        /\ m_connections' = [m_connections EXCEPT ![h] = @ \cup {id}]
        /\ clientId' = id
        /\ serving' = h
        /\ serverThread' = "polling"
        /\ UNCHANGED <<toClose, m_client_ids, outbox, taskVars>>

(* Mutants of handle_add_provider_opened: the id is not pushed; the slot   *)
(* is installed on every provider, as TradingBroadcaster's subscribe does. *)
handle_add_provider_opened_untracked ==
    /\ serverThread = "polling"
    /\ getStatus(clientId) = "Open"
    /\ con_send(serving, Reply("processed"))
    /\ installing' = installing \cup {<<serving, clientId>>}
    /\ serverThread' = "loop"
    /\ serving' = NoHandle
    /\ clientId' = NoId
    /\ UNCHANGED <<endPointVars, session, inbox, requests, toClose,
                   m_client_ids, m_connections, holding, crashed>>

handle_add_provider_opened_for_all ==
    /\ serverThread = "polling"
    /\ getStatus(clientId) = "Open"
    /\ m_client_ids' = m_client_ids \cup {clientId}
    /\ con_send(serving, Reply("processed"))
    /\ installing' = installing \cup ({serving} \X m_client_ids')
    /\ serverThread' = "loop"
    /\ serving' = NoHandle
    /\ clientId' = NoId
    /\ UNCHANGED <<endPointVars, session, inbox, requests, toClose,
                   m_connections, holding, crashed>>

(* The poll that finds "Open", and the rest of the handler.                *)
handle_add_provider_opened ==
    /\ serverThread = "polling"
    /\ getStatus(clientId) = "Open"
    /\ m_client_ids' = m_client_ids \cup {clientId}
    /\ con_send(serving,
                Reply(IF clientId # NoId THEN "processed" ELSE "not-processed"))
    /\ installing' = installing \cup {<<serving, clientId>>}
    /\ serverThread' = "loop"
    /\ serving' = NoHandle
    /\ clientId' = NoId
    /\ UNCHANGED <<endPointVars, session, inbox, requests, toClose,
                   m_connections, holding, crashed>>

-----------------------------------------------------------------------------
(***************************************************************************)
(* handle_clear_provider, reached by a request and by onCloseConnection.   *)
(* It closes the providers of every session.                               *)
(***************************************************************************)
handle_clear_provider(h) ==
    /\ toClose' = m_client_ids
    /\ serving' = h
    /\ serverThread' = "clearing"
    /\ UNCHANGED <<endPointVars, clientId, m_client_ids, m_connections, taskVars>>

(* m_client_ids is a vector that ids join in ascending order, so the loop  *)
(* visits the set from its least element.                                  *)
NextToClose == CHOOSE id \in toClose : \A other \in toClose : id <= other

(* Mutant of handle_clear_provider_close: the loop ends with the first     *)
(* connection that could be closed, as TradingBroadcaster's does.          *)
handle_clear_provider_close_first ==
    /\ serverThread = "clearing"
    /\ toClose # {}
    /\ closeSucceeds(NextToClose)
    /\ close(NextToClose)
    /\ toClose' = {}
    /\ UNCHANGED <<wsServerVars, serving, clientId, m_client_ids,
                   m_connections, taskVars, serverThread, crashed>>

handle_clear_provider_close ==
    /\ serverThread = "clearing"
    /\ toClose # {}
    /\ closeSucceeds(NextToClose)
    /\ close(NextToClose)
    /\ toClose' = toClose \ {NextToClose}
    /\ UNCHANGED <<wsServerVars, serving, clientId, m_client_ids,
                   m_connections, taskVars, serverThread, crashed>>

(* close() returned 0: the loop is left, the ids are dropped, and the      *)
(* thread waits for a local flag that nothing will ever set.               *)
handle_clear_provider_fails ==
    /\ serverThread = "clearing"
    /\ toClose # {}
    /\ ~closeSucceeds(NextToClose)
    /\ toClose' = {}
    /\ m_client_ids' = {}
    /\ serverThread' = "waiting"
    /\ UNCHANGED <<endPointVars, wsServerVars, serving, clientId,
                   m_connections, taskVars, crashed>>

(* Mutant of handle_clear_provider_done: m_client_ids is not cleared.      *)
handle_clear_provider_done_keeping ==
    /\ serverThread = "clearing"
    /\ toClose = {}
    /\ con_send(serving, Reply("procceed"))
    /\ release(serving)
    /\ serverThread' = "loop"
    /\ serving' = NoHandle
    /\ UNCHANGED <<endPointVars, inbox, requests, clientId, toClose,
                   m_client_ids, m_connections, taskVars, crashed>>

handle_clear_provider_done ==
    /\ serverThread = "clearing"
    /\ toClose = {}
    /\ m_client_ids' = {}
    /\ con_send(serving, Reply("procceed"))
    /\ release(serving)
    /\ serverThread' = "loop"
    /\ serving' = NoHandle
    /\ UNCHANGED <<endPointVars, inbox, requests, clientId, toClose,
                   m_connections, taskVars, crashed>>

-----------------------------------------------------------------------------
(***************************************************************************)
(* The io_service of the server, when no handler is running.               *)
(***************************************************************************)
onConnection(h) ==
    /\ serverThread = "loop"
    /\ accept(h)
    /\ UNCHANGED <<endPointVars, aggregatorVars, taskVars, serverThread, crashed>>

onMessage(h) ==
    /\ serverThread = "loop"
    /\ takeRequest(h)
    /\ LET request == Head(inbox[h]) IN
        \/ /\ request.action = "add-provider"
           /\ handle_add_provider(h, request.host)
        \/ /\ request.action = "clear-providers"
           /\ handle_clear_provider(h)
           /\ UNCHANGED outbox
        \/ /\ request.action \in {"clear-prices", "subscribe"}
           /\ UNCHANGED <<endPointVars, aggregatorVars, taskVars, serverThread,
                          outbox>>
    /\ UNCHANGED <<session, requests, crashed>>

(* Load() throws before anything is done; neither onMessage() nor what     *)
(* runs it catches that.  The request that ended the process stays in      *)
(* sight.                                                                  *)
onMessage_throws(h) ==
    /\ serverThread = "loop"
    /\ session[h] = "open"
    /\ inbox[h] # <<>> /\ Head(inbox[h]) = Malformed
    /\ crashed' = TRUE
    /\ UNCHANGED <<endPointVars, wsServerVars, aggregatorVars, taskVars,
                   serverThread>>

(* Mutant of onCloseConnection: it only notes the end of the session, as   *)
(* TradingBroadcaster's close handler does.                                *)
onCloseConnectionNoClear(h) ==
    /\ serverThread = "loop"
    /\ terminate(h)
    /\ serving' = h
    /\ toClose' = {}
    /\ serverThread' = "clearing"
    /\ UNCHANGED <<endPointVars, clientId, m_client_ids, m_connections,
                   taskVars, crashed>>

onCloseConnection(h) ==
    /\ serverThread = "loop"
    /\ terminate(h)
    /\ handle_clear_provider(h)
    /\ UNCHANGED crashed

io_close_frame(h) ==
    /\ serverThread = "loop"
    /\ process_close_frame(h)
    /\ UNCHANGED <<endPointVars, aggregatorVars, taskVars, serverThread, crashed>>

io_write(h) ==
    /\ serverThread = "loop"
    /\ write_frame(h)
    /\ UNCHANGED <<endPointVars, aggregatorVars, taskVars, serverThread, crashed>>

-----------------------------------------------------------------------------
(***************************************************************************)
(* sendMessages: the task locks its hdl, or ends if the session is gone    *)
(* (the exception stays in the future), and then installs the slot.        *)
(***************************************************************************)
sendMessages_lock(h, id) ==
    /\ <<h, id>> \in installing
    /\ installing' = installing \ {<<h, id>>}
    /\ holding' = IF Alive(h) THEN holding \cup {<<h, id>>} ELSE holding
    /\ UNCHANGED <<endPointVars, wsServerVars, aggregatorVars, serverThread,
                   crashed>>

sendMessages_install(h, id) ==
    /\ <<h, id>> \in holding
    /\ holding' = holding \ {<<h, id>>}
    /\ onDataReceived(id, h)
    /\ UNCHANGED <<wsServerVars, aggregatorVars, installing, serverThread,
                   crashed>>

(* emitDataReceived: the default slot ignores the data; the one of a       *)
(* session parses and forwards it.  get_con_from_hdl() throws once the     *)
(* session is gone, as does Load() on a malformed text and the call of an  *)
(* empty function: nothing on this thread catches it, and the process      *)
(* ends.                                                                   *)
emitDataReceived(id) ==
    /\ clientThread.at \in {"on_message", "on_malformed"}
    /\ clientThread.id = id
    /\ LET slot == dataReceivedSignal[id] IN
        \/ /\ slot = DefaultSlot
           /\ clientThread' = Idle
           /\ UNCHANGED <<outbox, crashed>>
        \/ /\ clientThread.at = "on_message"
           /\ slot \in Handles /\ Alive(slot)
           /\ con_send(slot, Data(id, received[id]))
           /\ clientThread' = Idle
           /\ UNCHANGED crashed
        \/ /\ \/ slot = NoSlot
              \/ slot \in Handles /\ ~Alive(slot)
              \/ slot \in Handles /\ clientThread.at = "on_malformed"
           /\ crashed' = TRUE
           /\ UNCHANGED <<outbox, clientThread>>
    /\ UNCHANGED <<endPointVarsButThread, session, inbox, requests,
                   aggregatorVars, taskVars, serverThread>>

-----------------------------------------------------------------------------
(***************************************************************************)
(* The threads, and the consumers.                                         *)
(***************************************************************************)
Elsewhere == <<wsServerVars, aggregatorVars, taskVars, serverThread, crashed>>

Consumer(h) ==
    /\ \/ \E request \in Requests : sendRequest(h, request)
       \/ disconnect(h)
    /\ UNCHANGED <<endPointVars, aggregatorVars, taskVars, serverThread, crashed>>

Handler ==
    \/ handle_add_provider_opened
    \/ handle_clear_provider_close
    \/ handle_clear_provider_fails
    \/ handle_clear_provider_done

(* The next frame, or the end, of session h is dispatched.                 *)
Dispatch(h) ==
    \/ onMessage(h) \/ onMessage_throws(h)
    \/ io_close_frame(h) \/ onCloseConnection(h)

(* The attempt to connect is over; a closing handshake is over.            *)
Connected(id) ==
    (handle_read_http_response(id) \/ on_fail(id)) /\ UNCHANGED Elsewhere
Closed(id) ==
    m_state[id] = "closing" /\ on_close(id) /\ UNCHANGED Elsewhere

(* The rest of a handler that has begun.                                   *)
ClientHandler(id) ==
    \/ (on_open(id) \/ on_open_default(id)) /\ UNCHANGED Elsewhere
    \/ emitDataReceived(id)

(* What a host does of its own accord.                                     *)
Host(id) ==
    /\ \/ on_message(id) \/ on_malformed(id)
       \/ peer_close(id)
       \/ m_state[id] = "open" /\ on_close(id)
    /\ UNCHANGED Elsewhere

Task(h, id) == sendMessages_lock(h, id) \/ sendMessages_install(h, id)

Next ==
    /\ ~crashed
    /\ \/ Handler
       \/ \E h \in Handles :
            Consumer(h) \/ onConnection(h) \/ Dispatch(h) \/ io_write(h)
       \/ \E id \in Ids :
            Connected(id) \/ Closed(id) \/ ClientHandler(id) \/ Host(id)
       \/ \E h \in Handles, id \in Ids : Task(h, id)

Spec == Init /\ [][Next]_vars

(***************************************************************************)
(* Each thread is scheduled, and asio runs the handlers of a queue in the  *)
(* order they became ready, so what is ready again and again runs.  A      *)
(* connection attempt and a closing handshake end: websocketpp has timers  *)
(* for both.  Consumers and hosts owe nothing.                             *)
(***************************************************************************)
Fairness ==
    /\ WF_vars(~crashed /\ Handler)
    /\ \A h \in Handles :
        /\ SF_vars(~crashed /\ Dispatch(h))
        /\ SF_vars(~crashed /\ io_write(h))
    /\ WF_vars(~crashed /\ \E id \in Ids : ClientHandler(id))
    /\ SF_vars(~crashed /\ \E id \in Ids : Connected(id) \/ Closed(id))
    /\ WF_vars(~crashed /\ \E h \in Handles, id \in Ids : Task(h, id))

FairSpec == Spec /\ Fairness
-----------------------------------------------------------------------------
(***************************************************************************)
(* Safety.                                                                 *)
(***************************************************************************)

(* The three lists a handler works from reach every connection that is     *)
(* still alive.  Between handlers each open connection is in m_client_ids, *)
(* so that the next clear or closed session ends it; the one that          *)
(* handle_add_provider polls for is the only one that may be outside, and  *)
(* no attempt outlives its handler; and a clear that is under way still    *)
(* has before it every connection that is open.                            *)
OpenTracked ==
    \A id \in Ids :
        /\ m_state[id] = "connecting" =>
             serverThread = "polling" /\ clientId = id
        /\ m_state[id] = "open" =>
             /\ serverThread = "loop" => id \in m_client_ids
             /\ serverThread = "polling" => id \in m_client_ids \cup {clientId}
             /\ serverThread = "clearing" => id \in toClose

(* The slot of an open connection never holds a hdl that has expired:      *)
(* onCloseConnection ends every provider before the session is let go, and *)
(* a late sendMessages task cannot bring one back.                         *)
OpenSlotsAlive ==
    \A id \in Ids :
        m_state[id] = "open" /\ dataReceivedSignal[id] \in Handles =>
            Alive(dataReceivedSignal[id])

(* Why an exception can end the process: a malformed text comes from a     *)
(* provider that feeds a session, or as the next request of one; or a      *)
(* well-formed frame had passed the state check when the clear of its      *)
(* session closed the connection, and the session was gone before the slot *)
(* was called.  A frame of a provider that is open never finds its session *)
(* gone, and an empty function is never called.                            *)
CrashExplained ==
    crashed =>
        \/ /\ clientThread.at \in {"on_message", "on_malformed"}
           /\ dataReceivedSignal[clientThread.id] \in Handles
           /\ clientThread.at = "on_message" =>
                 m_state[clientThread.id] = "closing"
        \/ /\ serverThread = "loop"
           /\ \E h \in Handles :
                 session[h] = "open" /\ inbox[h] # <<>> /\ Head(inbox[h]) = Malformed

(* A session gets the data of the providers it asked for and of no other,  *)
(* though m_client_ids and the clears are shared by all sessions.          *)
FeedsGoToAsker ==
    \A h \in Handles :
        /\ \A id \in Ids : dataReceivedSignal[id] = h => id \in m_connections[h]
        /\ \A i \in DOMAIN outbox[h] :
              "id" \in DOMAIN outbox[h][i] => outbox[h][i].id \in m_connections[h]

(* When handle_clear_provider answers "procceed", no connection is open    *)
(* any more and no attempt is under way: neither those of the session that *)
(* asked, nor those of the others.                                         *)
ProcceedAfterClose ==
    [][serverThread = "clearing" /\ serverThread' = "loop" =>
         \A id \in Ids : m_state[id] \notin {"connecting", "open"}]_vars

(* The default slot is, in on_open's words, for "when no slot is           *)
(* connected": it never replaces one that is.                              *)
DefaultOnlyWhenUnconnected ==
    [][\A id \in Ids :
         dataReceivedSignal[id] \in Handles =>
             dataReceivedSignal'[id] # DefaultSlot]_vars

-----------------------------------------------------------------------------
(***************************************************************************)
(* The inductive invariant behind the safety properties, by parts.         *)
(***************************************************************************)
Begun == {"open", "closing", "closed"}

ConnectionsListed ==
    \A id \in Ids :
        /\ m_state[id] = "none" <=> id >= m_next_id
        /\ m_state[id] = "connecting" => m_status[id] # "Open"
        /\ dataReceivedSignal[id] # NoSlot => m_state[id] \in Begun

(* A handler on the endpoint's thread holds back the end of the            *)
(* connection, and every open connection is past on_open or in it.         *)
ClientThreadInHandler ==
    /\ clientThread # Idle => m_state[clientThread.id] \in {"open", "closing"}
    /\ \A id \in Ids :
        m_state[id] = "open" /\ dataReceivedSignal[id] = NoSlot =>
            clientThread \in [at : {"opening", "on_open"}, id : {id}]
    /\ clientThread.at \in {"on_message", "on_malformed"} =>
            dataReceivedSignal[clientThread.id] # NoSlot

(* The session a handler works for; a session is closed only while the     *)
(* close handler runs for it.                                              *)
ServerThreadServes ==
    /\ serverThread = "polling" =>
        /\ serving \in Handles
        /\ session[serving] = "open"
        /\ clientId \in m_connections[serving]
    /\ serverThread = "clearing" =>
        serving \in Handles /\ session[serving] \in {"open", "closed"}
    /\ \A h \in Handles :
        session[h] = "closed" =>
            serverThread \in {"clearing", "waiting"} /\ serving = h

(* Who a connection's data goes to, now or once its tasks have run: a      *)
(* session that asked for it, and that is not gone if it is open.          *)
Feeds(h, id) ==
    dataReceivedSignal[id] = h \/ <<h, id>> \in installing \cup holding

FeedsOfLiveSessions ==
    \A h \in Handles, id \in Ids :
        Feeds(h, id) =>
            /\ m_state[id] \in Begun
            /\ session[h] # "absent"
            /\ session[h] = "released" => m_state[id] # "open"
            /\ id \in m_connections[h]

IInv ==
    /\ TypeOK
    /\ OpenTracked
    /\ CrashExplained
    /\ FeedsGoToAsker
    /\ ConnectionsListed
    /\ ClientThreadInHandler
    /\ ServerThreadServes
    /\ FeedsOfLiveSessions

-----------------------------------------------------------------------------
(***************************************************************************)
(* What the aggregator promises its consumers.                             *)
(***************************************************************************)
consumerOf == [h \in Handles |->
    CASE session[h] = "absent" -> "absent"
      [] session[h] = "open" -> "present"
      [] OTHER -> "gone"]

feedOf == [id \in Ids |->
    IF dataReceivedSignal[id] \in Handles THEN dataReceivedSignal[id]
    ELSE NoHandle]

(* A frame counts once its slot was called.                                *)
handled == [id \in Ids |->
    IF clientThread = [at |-> "on_message", id |-> id]
    THEN received[id] - 1 ELSE received[id]]

Relay == INSTANCE FeedRelay WITH
    Consumers <- Handles, Sources <- Ids, Nobody <- NoHandle,
    Notices <- [status : {"processed", "not-processed", "procceed"}],
    AllClosed <- Reply("procceed"),
    consumer <- consumerOf,
    asked <- [h \in Handles |-> m_connections[h] \cap Ids],
    live <- {id \in Ids : m_state[id] \in {"connecting", "open"}},
    feeds <- feedOf, count <- handled, queue <- outbox, up <- ~crashed

(* Whatever other sessions ask, clear or leave meanwhile, a consumer gets  *)
(* every frame of a provider it asked for from the moment its slot is      *)
(* installed, once, in order and between the replies of another thread;    *)
(* no other consumer gets it; "procceed" is true when it is queued.        *)
ImplementsFeedRelay == Relay!RelaySpec

-----------------------------------------------------------------------------
(***************************************************************************)
(* Liveness.                                                               *)
(***************************************************************************)

(* Every frame a consumer sends is read: no handler keeps the server       *)
(* thread for ever.  Holds when all hosts accept and none drops.           *)
RequestsServed ==
    \A h \in Handles : inbox[h] # <<>> ~> inbox[h] = <<>> \/ crashed

(* Every queued message, a reply or a provider's data, is written.         *)
MessagesWritten ==
    \A h \in Handles : outbox[h] # <<>> ~> outbox[h] = <<>> \/ crashed

(* handle_clear_provider's comment: "Wait for the flag to become true,     *)
(* indicating that all connections are closed".                            *)
ClearWaitEnds ==
    serverThread = "waiting" ~> serverThread # "waiting" \/ crashed
=============================================================================
