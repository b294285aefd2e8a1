-------------------------- MODULE FeedRelayProofs --------------------------
(***************************************************************************)
(* Aggregator implements FeedRelay, for every number of sessions, hosts,   *)
(* requests, connections and data frames.                                  *)
(***************************************************************************)
EXTENDS AggregatorProofs

(* No session has asked for an id that connect() has yet to hand out.      *)
AskedIsListed ==
    \A h \in Handles : \A id \in m_connections[h] : id < m_next_id

(* No frame comes before on_open is through.                               *)
NoEarlyFrame ==
    \A id \in Ids :
        m_state[id] \in {"none", "connecting"}
            \/ clientThread \in [at : {"opening", "on_open"}, id : {id}]
          => received[id] = 0

RelayInv == AskedIsListed /\ NoEarlyFrame

LEMMA InitRelayInv == Init => RelayInv
  BY EndPointAssumption, WsServerAssumption
  DEF Init, EndPointInit, RelayInv, AskedIsListed, NoEarlyFrame, Idle

(* The only step that adds to m_connections, or to the known ids.          *)
LEMMA AskedIsListedStep == IInv /\ RelayInv /\ [Next]_vars => AskedIsListed'
<1> SUFFICES ASSUME IInv, RelayInv, [Next]_vars PROVE AskedIsListed'
  OBVIOUS
<1>1. CASE UNCHANGED <<m_connections, m_next_id>>
  BY <1>1 DEF RelayInv, AskedIsListed
<1>2. ASSUME NEW h \in Handles, onMessage(h),
             handle_add_provider(h, Head(inbox[h]).host)
      PROVE  AskedIsListed'
  <2>1. PICK id \in Ids \cup {NoId} :
          /\ connect(Head(inbox[h]).host, id)
          /\ m_connections' = [m_connections EXCEPT ![h] = @ \cup {id}]
    BY <1>2 DEF handle_add_provider
  <2>2. /\ m_next_id \in Nat /\ m_next_id' \in Nat /\ m_next_id <= m_next_id'
        /\ id < m_next_id'
    BY <2>1, EndPointAssumption
    DEF connect, endPointVars, IInv, TypeOK, EndPointTypeOK, NoId
  <2>3. /\ m_connections \in [Handles -> SUBSET (Ids \cup {NoId})]
        /\ \A g \in Handles : \A i \in m_connections[g] : i \in Int
    BY EndPointAssumption DEF IInv, TypeOK, Ids, NoId
  <2> QED
    BY <2>1, <2>2, <2>3 DEF RelayInv, AskedIsListed
<1>3. UNCHANGED <<m_connections, m_next_id>>
      \/ \E h \in Handles :
           onMessage(h) /\ handle_add_provider(h, Head(inbox[h]).host)
  BY DEF Next, vars, endPointVars, aggregatorVars, taskVars, Handler,
         handle_add_provider_opened, handle_clear_provider_close, close,
         handle_clear_provider_fails, handle_clear_provider_done, Consumer,
         onConnection, Dispatch, onMessage, onMessage_throws,
         handle_clear_provider, io_close_frame, onCloseConnection, io_write,
         Connected, Closed, ClientHandler, Host, Elsewhere,
         handle_read_http_response, on_open, on_fail, on_close,
         on_open_default, emitDataReceived, on_message, on_malformed,
         endPointVarsButThread, peer_close, Task, sendMessages_lock, sendMessages_install, onDataReceived
<1> QED
  BY <1>1, <1>2, <1>3

LEMMA NoEarlyFrameStep == IInv /\ RelayInv /\ [Next]_vars => NoEarlyFrame'
<1> SUFFICES ASSUME IInv, RelayInv, [Next]_vars PROVE NoEarlyFrame'
  OBVIOUS
<1> USE DEF NoEarlyFrame
<1>t. /\ NoEarlyFrame
      /\ m_state \in [Ids -> States]
      /\ received \in [Ids -> 0..MaxData]
      /\ clientThread = Idle
           \/ clientThread \in
                [at : {"opening", "on_open", "on_message", "on_malformed"},
                 id : Ids]
  BY DEF RelayInv, IInv, TypeOK, EndPointTypeOK
<1>1. CASE UNCHANGED <<m_state, clientThread, received>>
  BY <1>1, <1>t
<1>2. ASSUME NEW h \in Handles, NEW host, handle_add_provider(h, host)
      PROVE  NoEarlyFrame'
  <2>1. CASE UNCHANGED <<m_state, received, clientThread>>
    BY <1>1, <2>1
  <2>2. CASE ~UNCHANGED <<m_state, received, clientThread>>
    <3>1. /\ m_next_id < MaxConnections
          /\ m_state' = [m_state EXCEPT ![m_next_id] = "connecting"]
          /\ UNCHANGED <<received, clientThread>>
      BY <1>2, <2>2 DEF handle_add_provider, connect, endPointVars
    <3>2. m_next_id \in Ids /\ m_state[m_next_id] = "none"
      BY <3>1, EndPointAssumption
      DEF IInv, TypeOK, EndPointTypeOK, ConnectionsListed, Ids
    <3> QED
      BY <1>t, <3>1, <3>2
  <2> QED
    BY <2>1, <2>2
<1>3. ASSUME NEW id \in Ids, close(id)
      PROVE  NoEarlyFrame'
  BY <1>3, <1>t DEF close
<1>4. ASSUME NEW id \in Ids,
             \/ handle_read_http_response(id) \/ on_open(id)
             \/ on_fail(id) \/ on_close(id) \/ peer_close(id)
             \/ on_open_default(id) \/ on_message(id) \/ on_malformed(id)
      PROVE  NoEarlyFrame'
  <2>1. CASE on_open(id)
    BY <2>1, <1>t DEF on_open
  <2>2. CASE on_fail(id) \/ on_close(id) \/ peer_close(id)
    BY <2>2, <1>t DEF on_fail, on_close, peer_close
  <2>3. CASE on_open_default(id)
    BY <2>3, <1>t DEF on_open_default, Idle
  <2>4. CASE on_message(id)
    BY <2>4, <1>t DEF on_message
  <2>5. CASE handle_read_http_response(id)
    BY <2>5, <1>t DEF handle_read_http_response, Idle
  <2>6. CASE on_malformed(id)
    BY <2>6, <1>t DEF on_malformed, endPointVarsButThread, Idle
  <2> QED
    BY <1>4, <2>1, <2>2, <2>3, <2>4, <2>5, <2>6
<1>5. ASSUME NEW id \in Ids, emitDataReceived(id)
      PROVE  NoEarlyFrame'
  <2>1. /\ clientThread' \in {clientThread, Idle}
        /\ UNCHANGED <<m_state, received>>
    BY <1>5 DEF emitDataReceived, endPointVarsButThread
  <2> QED
    BY <2>1, <1>t DEF Idle
<1>6. CASE handle_clear_provider_close
  <2>1. NextToClose \in Ids
    BY <1>6, EndPointAssumption
    DEF handle_clear_provider_close, closeSucceeds, Ids, IInv, TypeOK,
        EndPointTypeOK
  <2> QED
    BY <1>3, <1>6, <2>1 DEF handle_clear_provider_close
<1>7. \/ UNCHANGED <<m_state, clientThread, received>>
      \/ \E h \in Handles : handle_add_provider(h, Head(inbox[h]).host)
      \/ handle_clear_provider_close
      \/ \E id \in Ids :
           \/ handle_read_http_response(id) \/ on_open(id)
           \/ on_fail(id) \/ on_close(id) \/ peer_close(id)
           \/ on_open_default(id) \/ on_message(id) \/ on_malformed(id)
           \/ emitDataReceived(id)
  BY DEF Next, vars, endPointVars, Handler, handle_add_provider_opened,
         handle_clear_provider_fails, handle_clear_provider_done, Consumer,
         onConnection, Dispatch, onMessage, onMessage_throws,
         handle_clear_provider, io_close_frame, onCloseConnection, io_write,
         Connected, Closed, ClientHandler, Host, Task, sendMessages_lock, sendMessages_install,
         onDataReceived
<1> QED
  BY <1>1, <1>2, <1>4, <1>5, <1>6, <1>7

LEMMA RelayInvariance == Spec => [](IInv /\ RelayInv)
<1>1. Init => IInv /\ RelayInv
  BY InitIInv, InitRelayInv
<1>2. IInv /\ RelayInv /\ [Next]_vars => IInv' /\ RelayInv'
  BY IInvStep, AskedIsListedStep, NoEarlyFrameStep DEF RelayInv
<1> QED
  BY <1>1, <1>2, PTL DEF Spec

(***************************************************************************)
(* The parts of the mapping.                                               *)
(***************************************************************************)
LEMMA ConsumerOf ==
    ASSUME NEW h \in Handles
    PROVE  /\ consumerOf[h] = "absent" <=> session[h] = "absent"
           /\ consumerOf[h] = "present" <=> session[h] = "open"
           /\ session[h] \in {"closing", "closed", "released"}
                => consumerOf[h] = "gone"
  BY DEF consumerOf

LEMMA ConsumerMoves ==
    ASSUME NEW h \in Handles, NEW s, session \in [Handles -> SessionStates],
           session' = [session EXCEPT ![h] = s]
    PROVE  consumerOf' = [consumerOf EXCEPT ![h] = consumerOf'[h]]
  BY DEF consumerOf

LEMMA SentIsQueued ==
    ASSUME NEW h \in Handles, NEW m, con_send(h, m)
    PROVE  Relay!Queued(h, m)
  BY ConsumerOf DEF con_send, Relay!Queued

LEMMA FeedMoves ==
    ASSUME NEW id \in Ids, NEW slot \in Slots \cup {NoSlot, DefaultSlot},
           dataReceivedSignal \in [Ids -> Slots \cup {NoSlot, DefaultSlot}],
           dataReceivedSignal' = [dataReceivedSignal EXCEPT ![id] = slot]
    PROVE  feedOf' = [feedOf EXCEPT
                        ![id] = IF slot \in Handles THEN slot ELSE NoHandle]
  BY DEF feedOf

(* All that a step leaves alone if it is none of the promise's.            *)
LEMMA Kept ==
    /\ UNCHANGED session => UNCHANGED consumerOf
    /\ UNCHANGED dataReceivedSignal => UNCHANGED feedOf
    /\ UNCHANGED <<received, clientThread>> => UNCHANGED handled
  BY DEF consumerOf, feedOf, handled

LEMMA Stutters ==
    ASSUME UNCHANGED <<session, m_connections, m_state, dataReceivedSignal,
                       outbox, crashed, handled>>
    PROVE  UNCHANGED Relay!relayVars
  BY Kept DEF Relay!relayVars

LEMMA RelayInitRefined == Init => Relay!RelayInit
<1> SUFFICES ASSUME Init PROVE Relay!RelayInit
  OBVIOUS
<1> USE EndPointAssumption, AggregatorAssumption
<1>1. consumerOf = [h \in Handles |-> "absent"]
  BY DEF Init, WsServerInit, consumerOf
<1>2. feedOf = [id \in Ids |-> NoHandle]
  BY DEF Init, EndPointInit, feedOf
<1>3. handled = [id \in Ids |-> 0]
  BY DEF Init, EndPointInit, handled, Idle
<1>4. /\ [h \in Handles |-> m_connections[h] \cap Ids] = [h \in Handles |-> {}]
      /\ {id \in Ids : m_state[id] \in {"connecting", "open"}} = {}
  BY DEF Init, EndPointInit
<1> QED
  BY <1>1, <1>2, <1>3, <1>4 DEF Init, WsServerInit, Relay!RelayInit

(***************************************************************************)
(* The steps, each under the invariant.                                    *)
(***************************************************************************)
LEMMA onConnectionRefined ==
    ASSUME IInv, NEW h \in Handles, onConnection(h)
    PROVE  Relay!Join(h)
<1>1. /\ session[h] = "absent"
      /\ session' = [session EXCEPT ![h] = "open"]
      /\ UNCHANGED <<outbox, m_connections, m_state, dataReceivedSignal, received,
                     clientThread, crashed>>
  BY DEF onConnection, accept, endPointVars, aggregatorVars
<1>2. session \in [Handles -> SessionStates]
  BY DEF IInv, TypeOK, WsServerTypeOK
<1>3. consumerOf' = [consumerOf EXCEPT ![h] = "present"]
  <2>1. consumerOf'[h] = "present"
    BY <1>1, <1>2 DEF consumerOf
  <2> QED
    BY <1>1, <1>2, <2>1, ConsumerMoves
<1> QED
  BY <1>1, <1>3, ConsumerOf, Kept DEF Relay!Join

(* The end of an open session loses what is queued; that of one in its     *)
(* closing handshake only the rest.                                        *)
LEMMA SessionEndRefined ==
    ASSUME IInv, NEW h \in Handles, session[h] \in {"open", "closing"},
           NEW s \in {"closing", "closed"},
           session' = [session EXCEPT ![h] = s],
           outbox' \in {outbox, [outbox EXCEPT ![h] = <<>>]},
           UNCHANGED <<m_connections, m_state, dataReceivedSignal, received,
                       clientThread, crashed>>
    PROVE  Relay!Leave(h) \/ Relay!Flush(h) \/ UNCHANGED Relay!relayVars
<1>1. session \in [Handles -> SessionStates]
  BY DEF IInv, TypeOK, WsServerTypeOK
<1>2. consumerOf' = [consumerOf EXCEPT ![h] = "gone"]
  <2>1. consumerOf'[h] = "gone"
    BY <1>1 DEF consumerOf
  <2> QED
    BY <1>1, <2>1, ConsumerMoves
<1>3. CASE session[h] = "open"
  BY <1>2, <1>3, ConsumerOf, Kept DEF Relay!Leave
<1>4. CASE session[h] = "closing"
  <2>1. UNCHANGED consumerOf
    BY <1>2, <1>4, ConsumerOf DEF consumerOf
  <2> QED
    BY <2>1, Kept DEF Relay!Flush, Relay!relayVars
<1> QED
  BY <1>3, <1>4

LEMMA handle_add_provider_refined ==
    ASSUME IInv, RelayInv, NEW h \in Handles, onMessage(h),
           NEW host, handle_add_provider(h, host)
    PROVE  \/ \E id \in Ids : Relay!Ask(h, id)
           \/ UNCHANGED Relay!relayVars
<1>1. /\ session[h] = "open"
      /\ UNCHANGED <<session, outbox, crashed>>
  BY DEF onMessage, takeRequest, handle_add_provider
<1>2. PICK id \in Ids \cup {NoId} :
        /\ connect(host, id)
        /\ m_connections' = [m_connections EXCEPT ![h] = @ \cup {id}]
  BY DEF handle_add_provider
<1>3. UNCHANGED <<dataReceivedSignal, received, clientThread>>
  BY <1>2 DEF connect, endPointVars
<1>4. /\ m_connections \in [Handles -> SUBSET (Ids \cup {NoId})]
      /\ m_state \in [Ids -> States]
      /\ NoId \notin Ids
  BY EndPointAssumption DEF IInv, TypeOK, EndPointTypeOK, Ids, NoId
<1>5. CASE id = NoId /\ UNCHANGED m_state
  <2>1. [g \in Handles |-> m_connections'[g] \cap Ids]
          = [g \in Handles |-> m_connections[g] \cap Ids]
    BY <1>2, <1>4, <1>5
  <2> QED
    BY <1>1, <1>3, <1>5, <2>1, Kept DEF Relay!relayVars
<1>6. CASE /\ id = m_next_id
           /\ id \in Ids
           /\ m_state' = [m_state EXCEPT ![id] = "connecting"]
  <2>1. \A g \in Handles : id \notin m_connections[g]
    BY <1>4, <1>6, EndPointAssumption
    DEF RelayInv, AskedIsListed, IInv, TypeOK, EndPointTypeOK
  <2>2. [g \in Handles |-> m_connections'[g] \cap Ids]
          = [[g \in Handles |-> m_connections[g] \cap Ids] EXCEPT ![h] = @ \cup {id}]
    BY <1>2, <1>4, <1>6
  <2>3. {i \in Ids : m_state'[i] \in {"connecting", "open"}}
          = {i \in Ids : m_state[i] \in {"connecting", "open"}} \cup {id}
    BY <1>4, <1>6
  <2>4. Relay!Ask(h, id)
    BY <1>1, <1>3, <2>1, <2>2, <2>3, ConsumerOf, Kept DEF Relay!Ask
  <2> QED
    BY <1>6, <2>4
<1>7. \/ id = NoId /\ UNCHANGED m_state
      \/ /\ id = m_next_id /\ m_next_id < MaxConnections
         /\ m_state' = [m_state EXCEPT ![id] = "connecting"]
  BY <1>2 DEF connect, endPointVars
<1>8. m_next_id < MaxConnections => m_next_id \in Ids
  BY EndPointAssumption DEF IInv, TypeOK, EndPointTypeOK, Ids
<1> QED
  BY <1>5, <1>6, <1>7, <1>8

(* A reply is queued; "procceed" only when no connection is left.          *)
LEMMA ReplyRefined ==
    ASSUME IInv, NEW h \in Handles,
           NEW status \in {"processed", "not-processed", "procceed"},
           con_send(h, Reply(status)), UNCHANGED consumerOf,
           status = "procceed" =>
             \A id \in Ids : m_state[id] \notin {"connecting", "open"},
           UNCHANGED <<m_connections, m_state, dataReceivedSignal, received,
                       clientThread, crashed>>
    PROVE  \E m \in [status : {"processed", "not-processed", "procceed"}] :
             Relay!Notify(h, m)
<1>1. Reply(status) \in [status : {"processed", "not-processed", "procceed"}]
  BY DEF Reply
<1>2. Reply(status) = Reply("procceed") => status = "procceed"
  BY DEF Reply
<1>3. Relay!Queued(h, Reply(status))
  BY SentIsQueued
<1>4. Relay!Notify(h, Reply(status))
  BY <1>2, <1>3, Kept DEF Relay!Notify
<1> QED
  BY <1>1, <1>4

(* A connection that is closed, fails or is lost is a source that ends.    *)
LEMMA EndRefined ==
    ASSUME IInv, NEW id \in Ids, NEW s \in {"closing", "closed"},
           m_state' = [m_state EXCEPT ![id] = s],
           UNCHANGED <<session, outbox, m_connections, dataReceivedSignal,
                       received, clientThread, crashed>>
    PROVE  Relay!End(id)
<1>1. {i \in Ids : m_state'[i] \in {"connecting", "open"}}
        = {i \in Ids : m_state[i] \in {"connecting", "open"}} \ {id}
  BY DEF IInv, TypeOK, EndPointTypeOK
<1> QED
  BY <1>1, Kept DEF Relay!End

LEMMA HandlerRefined ==
    ASSUME IInv, Handler, ~crashed
    PROVE  Relay!RelayNext \/ UNCHANGED Relay!relayVars
<1>1. CASE handle_add_provider_opened
  <2>1. serving \in Handles
    BY <1>1 DEF handle_add_provider_opened, IInv, ServerThreadServes
  <2>2. UNCHANGED <<session, m_connections, m_state, dataReceivedSignal, received,
                    clientThread, crashed>>
    BY <1>1 DEF handle_add_provider_opened, endPointVars
  <2>3. PICK status \in {"processed", "not-processed"} :
          con_send(serving, Reply(status))
    BY <1>1 DEF handle_add_provider_opened
  <2>4. \E m \in [status : {"processed", "not-processed", "procceed"}] :
          Relay!Notify(serving, m)
    BY <2>1, <2>2, <2>3, Kept, ReplyRefined
  <2> QED
    BY <2>1, <2>4 DEF Relay!RelayNext
<1>2. CASE handle_clear_provider_close
  <2>1. NextToClose \in Ids
    BY <1>2, EndPointAssumption
    DEF handle_clear_provider_close, closeSucceeds, Ids, IInv, TypeOK,
        EndPointTypeOK
  <2>2. PICK id \in Ids : id = NextToClose
    BY <2>1
  <2>3. /\ m_state' = [m_state EXCEPT ![id] = "closing"]
        /\ UNCHANGED <<session, outbox, m_connections, dataReceivedSignal,
                       received, clientThread, crashed>>
    BY <1>2, <2>2 DEF handle_clear_provider_close, close, wsServerVars
  <2>4. Relay!End(id)
    BY <2>3, EndRefined
  <2> QED
    BY <2>4 DEF Relay!RelayNext
<1>3. CASE handle_clear_provider_fails
  BY <1>3, Kept, Stutters
  DEF handle_clear_provider_fails, endPointVars, wsServerVars
<1>4. CASE handle_clear_provider_done
  <2>1. serving \in Handles /\ session[serving] \in {"open", "closed"}
    BY <1>4 DEF handle_clear_provider_done, IInv, ServerThreadServes
  <2>2. UNCHANGED <<m_connections, m_state, dataReceivedSignal, received,
                    clientThread, crashed>>
    BY <1>4 DEF handle_clear_provider_done, endPointVars
  <2>3. UNCHANGED consumerOf
    <3>1. session \in [Handles -> SessionStates]
      BY DEF IInv, TypeOK, WsServerTypeOK
    <3> QED
      BY <1>4, <3>1 DEF handle_clear_provider_done, release, consumerOf
  <2>4. \A id \in Ids : m_state[id] \notin {"connecting", "open"}
    BY <1>4 DEF handle_clear_provider_done, IInv, OpenTracked
  <2>5. \E m \in [status : {"processed", "not-processed", "procceed"}] :
          Relay!Notify(serving, m)
    BY <1>4, <2>1, <2>2, <2>3, <2>4, ReplyRefined DEF handle_clear_provider_done
  <2> QED
    BY <2>1, <2>5 DEF Relay!RelayNext
<1> QED
  BY <1>1, <1>2, <1>3, <1>4 DEF Handler

LEMMA SessionRefined ==
    ASSUME IInv, RelayInv, ~crashed, NEW h \in Handles,
           Consumer(h) \/ onConnection(h) \/ Dispatch(h) \/ io_write(h)
    PROVE  Relay!RelayNext \/ UNCHANGED Relay!relayVars
<1>1. CASE Consumer(h)
  BY <1>1, Kept, Stutters DEF Consumer, sendRequest, disconnect, endPointVars,
                              aggregatorVars
<1>2. CASE onConnection(h)
  BY <1>2, onConnectionRefined DEF Relay!RelayNext
<1>3. CASE io_write(h)
  <2>1. Relay!Flush(h)
    BY <1>3, Kept DEF io_write, write_frame, endPointVars, aggregatorVars,
                      Relay!Flush
  <2> QED
    BY <2>1 DEF Relay!RelayNext
<1>4. CASE io_close_frame(h)
  <2>1. Relay!Leave(h) \/ Relay!Flush(h) \/ UNCHANGED Relay!relayVars
    BY <1>4, SessionEndRefined
    DEF io_close_frame, process_close_frame, endPointVars, aggregatorVars
  <2> QED
    BY <2>1 DEF Relay!RelayNext
<1>5. CASE onCloseConnection(h)
  <2>1. Relay!Leave(h) \/ Relay!Flush(h) \/ UNCHANGED Relay!relayVars
    BY <1>5, SessionEndRefined
    DEF onCloseConnection, terminate, handle_clear_provider, endPointVars
  <2> QED
    BY <2>1 DEF Relay!RelayNext
<1>6. CASE onMessage(h)
  <2>1. CASE handle_add_provider(h, Head(inbox[h]).host)
    BY <1>6, <2>1, handle_add_provider_refined DEF Relay!RelayNext
  <2>2. CASE UNCHANGED <<endPointVars, m_connections, outbox>>
    <3>1. UNCHANGED <<session, crashed>>
      BY <1>6 DEF onMessage
    <3>2. UNCHANGED <<m_state, dataReceivedSignal, received, clientThread>>
      BY <2>2 DEF endPointVars
    <3>3. UNCHANGED handled
      BY <3>2, Kept
    <3> QED
      BY <2>2, <3>1, <3>2, <3>3, Stutters
  <2> QED
    BY <1>6, <2>1, <2>2 DEF onMessage, handle_clear_provider, aggregatorVars
<1>7. CASE onMessage_throws(h)
  <2>1. Relay!Crash
    BY <1>7, Kept, ConsumerOf
    DEF onMessage_throws, endPointVars, wsServerVars, aggregatorVars, Relay!Crash
  <2> QED
    BY <2>1 DEF Relay!RelayNext
<1> QED
  BY <1>1, <1>2, <1>3, <1>4, <1>5, <1>6, <1>7 DEF Dispatch

LEMMA TaskRefined ==
    ASSUME IInv, ~crashed, NEW h \in Handles, NEW id \in Ids, Task(h, id)
    PROVE  Relay!RelayNext \/ UNCHANGED Relay!relayVars
<1>1. CASE sendMessages_lock(h, id)
  BY <1>1, Kept, Stutters DEF sendMessages_lock, endPointVars, wsServerVars,
                              aggregatorVars
<1>2. CASE sendMessages_install(h, id)
  <2>1. /\ dataReceivedSignal \in [Ids -> Slots \cup {NoSlot, DefaultSlot}]
        /\ h \in Slots
    BY AggregatorAssumption DEF IInv, TypeOK, EndPointTypeOK
  <2>2. feedOf' = [feedOf EXCEPT ![id] = h]
    BY <1>2, <2>1, FeedMoves DEF sendMessages_install, onDataReceived
  <2>3. id \in m_connections[h]
    BY <1>2 DEF sendMessages_install, IInv, FeedsOfLiveSessions, Feeds
  <2>4. Relay!Feed(h, id)
    BY <1>2, <2>2, <2>3, Kept
    DEF sendMessages_install, onDataReceived, wsServerVars, aggregatorVars,
        Relay!Feed
  <2> QED
    BY <2>4 DEF Relay!RelayNext
<1> QED
  BY <1>1, <1>2 DEF Task

(* The slot of a frame is called: the next frame goes to the session that  *)
(* is fed, or the process ends: that session is gone, or the text is       *)
(* malformed.  A malformed text that the default slot ignores is no frame. *)
LEMMA emitDataReceivedRefined ==
    ASSUME IInv, ~crashed, NEW id \in Ids, emitDataReceived(id)
    PROVE  Relay!Relay(id) \/ Relay!Crash \/ UNCHANGED Relay!relayVars
<1> DEFINE slot == dataReceivedSignal[id]
<1>1. /\ clientThread.at \in {"on_message", "on_malformed"}
      /\ clientThread.id = id
      /\ UNCHANGED <<m_state, dataReceivedSignal, received, session,
                     m_connections>>
  BY DEF emitDataReceived, endPointVarsButThread, aggregatorVars
<1>2. received \in [Ids -> 0..MaxData] /\ received[id] \in Int
  BY EndPointAssumption DEF IInv, TypeOK, EndPointTypeOK
<1>3. UNCHANGED <<consumerOf, feedOf>>
  BY <1>1, Kept
<1>4. clientThread \in
        [at : {"opening", "on_open", "on_message", "on_malformed"}, id : Ids]
  BY <1>1 DEF IInv, TypeOK, EndPointTypeOK, Idle
<1>5. ASSUME clientThread.at = "on_message", clientThread' = Idle
      PROVE  handled' = [handled EXCEPT ![id] = @ + 1]
  <2>0. clientThread = [at |-> "on_message", id |-> id]
    BY <1>1, <1>4, <1>5
  <2>1. \A i \in Ids : handled'[i] = received[i]
    BY <1>1, <1>5 DEF handled, Idle
  <2>2. \A i \in Ids \ {id} : handled[i] = received[i]
    BY <2>0 DEF handled
  <2>3. handled[id] + 1 = received[id]
    BY <1>2, <2>0 DEF handled
  <2>4. /\ handled = [i \in Ids |-> handled[i]]
        /\ handled' = [i \in Ids |-> handled'[i]]
    BY DEF handled
  <2> QED
    BY <2>1, <2>2, <2>3, <2>4
<1>6. CASE slot = DefaultSlot /\ clientThread' = Idle /\ UNCHANGED <<outbox, crashed>>
  <2>1. feedOf[id] = NoHandle
    BY <1>6, EndPointAssumption, AggregatorAssumption DEF feedOf
  <2>2. CASE clientThread.at = "on_message"
    BY <1>1, <1>3, <1>5, <1>6, <2>1, <2>2 DEF Relay!Relay
  <2>3. CASE clientThread.at = "on_malformed"
    <3>1. /\ \A i \in Ids : handled[i] = received[i]
          /\ \A i \in Ids : handled'[i] = received[i]
      BY <1>1, <1>6, <2>3 DEF handled, Idle
    <3>2. UNCHANGED handled
      BY <3>1 DEF handled
    <3> QED
      BY <1>1, <1>6, <3>2, Stutters
  <2> QED
    BY <1>1, <2>2, <2>3
<1>7. CASE /\ clientThread.at = "on_message"
           /\ slot \in Handles
           /\ con_send(slot, Data(id, received[id]))
           /\ clientThread' = Idle
           /\ UNCHANGED crashed
  <2>1. feedOf[id] = slot /\ feedOf[id] # NoHandle
    BY <1>7, WsServerAssumption DEF feedOf
  <2>2. Data(id, received[id]) = Relay!Frame(id, handled[id] + 1)
    <3>1. clientThread = [at |-> "on_message", id |-> id]
      BY <1>1, <1>4, <1>7
    <3>2. handled[id] + 1 = received[id]
      BY <1>2, <3>1 DEF handled
    <3> QED
      BY <3>2 DEF Data, Relay!Frame
  <2>3. Relay!Queued(slot, Data(id, received[id]))
    BY <1>7, SentIsQueued
  <2> QED
    BY <1>1, <1>3, <1>5, <1>7, <2>1, <2>2, <2>3 DEF Relay!Relay
<1>8. CASE /\ slot \in Handles
           /\ crashed' = TRUE
           /\ UNCHANGED <<outbox, clientThread>>
  <2>1. feedOf[id] = slot /\ feedOf[id] # NoHandle
    BY <1>8, WsServerAssumption DEF feedOf
  <2> QED
    BY <1>1, <1>3, <1>8, <2>1, Kept DEF Relay!Crash
<1>9. slot # NoSlot
  BY <1>1 DEF IInv, ClientThreadInHandler
<1> QED
  BY <1>6, <1>7, <1>8, <1>9 DEF emitDataReceived

LEMMA ClientRefined ==
    ASSUME IInv, RelayInv, ~crashed, NEW id \in Ids,
           Connected(id) \/ Closed(id) \/ ClientHandler(id) \/ Host(id)
    PROVE  Relay!RelayNext \/ UNCHANGED Relay!relayVars
<1>t. m_state \in [Ids -> States] /\ received \in [Ids -> 0..MaxData]
  BY DEF IInv, TypeOK, EndPointTypeOK
<1>1. CASE (handle_read_http_response(id) \/ on_open(id)) /\ UNCHANGED Elsewhere
  <2>1. {i \in Ids : m_state'[i] \in {"connecting", "open"}}
          = {i \in Ids : m_state[i] \in {"connecting", "open"}}
    BY <1>1, <1>t DEF handle_read_http_response, on_open
  <2>2. UNCHANGED handled
    BY <1>1 DEF handle_read_http_response, on_open, handled, Idle
  <2>3. UNCHANGED <<session, m_connections, dataReceivedSignal, outbox, crashed>>
    BY <1>1 DEF handle_read_http_response, on_open, Elsewhere, wsServerVars,
                aggregatorVars
  <2> QED
    BY <2>1, <2>2, <2>3, Kept DEF Relay!relayVars
<1>2. CASE (on_fail(id) \/ on_close(id) \/ peer_close(id)) /\ UNCHANGED Elsewhere
  <2>1. PICK s \in {"closing", "closed"} : m_state' = [m_state EXCEPT ![id] = s]
    BY <1>2 DEF on_fail, on_close, peer_close
  <2>2. UNCHANGED <<session, outbox, m_connections, dataReceivedSignal,
                    received, clientThread, crashed>>
    BY <1>2 DEF on_fail, on_close, peer_close, Elsewhere, wsServerVars,
                aggregatorVars
  <2>3. Relay!End(id)
    BY <2>1, <2>2, EndRefined
  <2> QED
    BY <2>3 DEF Relay!RelayNext
<1>3. CASE on_open_default(id) /\ UNCHANGED Elsewhere
  <2>1. /\ dataReceivedSignal \in [Ids -> Slots \cup {NoSlot, DefaultSlot}]
        /\ DefaultSlot \notin Handles
    BY EndPointAssumption, AggregatorAssumption DEF IInv, TypeOK, EndPointTypeOK
  <2>2. feedOf' = [feedOf EXCEPT ![id] = NoHandle]
    BY <1>3, <2>1, FeedMoves DEF on_open_default
  <2>3. UNCHANGED handled
    BY <1>3 DEF on_open_default, handled, Idle
  <2>4. handled[id] = 0
    BY <1>3 DEF on_open_default, handled, RelayInv, NoEarlyFrame
  <2>5. UNCHANGED <<session, outbox, m_connections, m_state, crashed>>
    BY <1>3 DEF on_open_default, Elsewhere, wsServerVars, aggregatorVars
  <2>6. Relay!Forget(id)
    BY <2>2, <2>3, <2>4, <2>5, Kept DEF Relay!Forget
  <2> QED
    BY <2>6 DEF Relay!RelayNext
<1>4. CASE on_message(id) /\ UNCHANGED Elsewhere
  <2>1. received[id] \in Int /\ received'[id] = received[id] + 1
    BY <1>4, <1>t, EndPointAssumption DEF on_message
  <2>2. \A i \in Ids \ {id} : received'[i] = received[i]
    BY <1>4, <1>t DEF on_message
  <2>3. received'[id] - 1 = received[id]
    BY <2>1
  <2>4. \A i \in Ids : handled[i] = received[i]
    BY <1>4 DEF on_message, handled, Idle
  <2>5. \A i \in Ids : handled'[i] = received[i]
    BY <1>4, <2>2, <2>3 DEF on_message, handled
  <2>6. UNCHANGED handled
    BY <2>4, <2>5 DEF handled
  <2> QED
    BY <1>4, <2>6, Stutters
    DEF on_message, Elsewhere, wsServerVars, aggregatorVars
<1>5. CASE emitDataReceived(id)
  BY <1>5, emitDataReceivedRefined DEF Relay!RelayNext
<1>6. CASE on_malformed(id) /\ UNCHANGED Elsewhere
  <2>1. UNCHANGED handled
    BY <1>6 DEF on_malformed, endPointVarsButThread, handled, Idle
  <2> QED
    BY <1>6, <2>1, Stutters
    DEF on_malformed, endPointVarsButThread, Elsewhere, wsServerVars,
        aggregatorVars
<1> QED
  BY <1>1, <1>2, <1>3, <1>4, <1>5, <1>6 DEF Connected, Closed, ClientHandler, Host

LEMMA RelayStepRefined ==
    IInv /\ RelayInv /\ [Next]_vars => [Relay!RelayNext]_(Relay!relayVars)
<1> SUFFICES ASSUME IInv, RelayInv, [Next]_vars
             PROVE  Relay!RelayNext \/ UNCHANGED Relay!relayVars
  OBVIOUS
<1>1. CASE UNCHANGED vars
  BY <1>1, Kept, Stutters DEF vars, endPointVars, wsServerVars, aggregatorVars
<1>2. CASE Next
  BY <1>2, HandlerRefined, SessionRefined, ClientRefined, TaskRefined DEF Next
<1> QED
  BY <1>1, <1>2

(* For any sessions, hosts and threads' interleaving: a source is its      *)
(* asker's alone, its frames are queued without a gap once it feeds, and   *)
(* "procceed" is true.                                                     *)
THEOREM RelayImplemented == Spec => ImplementsFeedRelay
  BY RelayInitRefined, RelayStepRefined, RelayInvariance, PTL
  DEF Spec, ImplementsFeedRelay, Relay!RelaySpec
=============================================================================
