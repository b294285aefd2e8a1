-------------------------- MODULE AggregatorProofs --------------------------
(***************************************************************************)
(* What is proved of Aggregator for every number of sessions, hosts,       *)
(* requests, connections and data frames.                                  *)
(***************************************************************************)
EXTENDS Aggregator, TLAPS

(***************************************************************************)
(* What the operations of WsServer keep.                                   *)
(***************************************************************************)
LEMMA ReplyIsMessage ==
    ASSUME NEW status \in {"processed", "not-processed", "procceed"}
    PROVE  Reply(status) \in Messages
  BY DEF Reply, Messages

LEMMA DataIsMessage ==
    ASSUME NEW id \in Ids, NEW n \in 0..MaxData
    PROVE  Data(id, n) \in Messages
  BY DEF Data, Messages

LEMMA con_sendType ==
    ASSUME outbox \in [Handles -> Seq(Messages)],
           NEW h \in Handles, NEW m \in Messages, con_send(h, m)
    PROVE  outbox' \in [Handles -> Seq(Messages)]
  BY DEF con_send

(* What disconnect() leaves unread is a sequence of frames again.          *)
LEMMA LastFrame ==
    ASSUME NEW Frames, NEW last \in Frames, NEW unread \in Seq(Frames)
    PROVE  Append(unread, last) \in Seq(Frames) /\ <<last>> \in Seq(Frames)
  OBVIOUS

(* What takeRequest() leaves is one, too.                                  *)
LEMMA TakeKeepsFrames ==
    ASSUME NEW Frames, inbox \in [Handles -> Seq(Frames)], NEW h \in Handles,
           takeRequest(h)
    PROVE  inbox' \in [Handles -> Seq(Frames)]
<1>1. Tail(inbox[h]) \in Seq(Frames)
  BY DEF takeRequest
<1> QED
  BY <1>1 DEF takeRequest

(* Every variable keeps its type: in particular m_client_ids and the task  *)
(* lists only ever hold ids of m_connection_list's range, never the -1     *)
(* that connect() returns for a host string that does not parse.           *)
LEMMA InitTypeOK == Init => TypeOK
<1> SUFFICES ASSUME Init PROVE TypeOK
  OBVIOUS
<1>1. EndPointTypeOK
  BY EndPointAssumption
  DEF Init, EndPointInit, EndPointTypeOK, States, Statuses
<1>2. WsServerTypeOK(Requests, Messages)
  BY WsServerAssumption
  DEF Init, WsServerInit, WsServerTypeOK, SessionStates
<1> QED
  BY <1>1, <1>2 DEF Init, TypeOK

LEMMA TypeStep == TypeOK /\ [Next]_vars => TypeOK'
<1> SUFFICES ASSUME TypeOK, [Next]_vars PROVE TypeOK'
  OBVIOUS
<1> USE EndPointAssumption, WsServerAssumption, AggregatorAssumption
    DEF TypeOK, EndPointTypeOK, WsServerTypeOK, SessionStates, States, Statuses,
        Idle, Ids, NoId
<1>1. CASE UNCHANGED vars
  BY <1>1 DEF vars, endPointVars, wsServerVars, aggregatorVars, taskVars
<1>2. CASE handle_add_provider_opened
  <2>1. outbox' \in [Handles -> Seq(Messages)]
    BY <1>2, ReplyIsMessage, con_sendType DEF handle_add_provider_opened
  <2>2. clientId \in Ids /\ serving \in Handles
    BY <1>2 DEF handle_add_provider_opened, getStatus
  <2>3. installing' \subseteq Handles \X Ids
    BY <1>2, <2>2 DEF handle_add_provider_opened
  <2> QED
    BY <1>2, <2>1, <2>2, <2>3 DEF handle_add_provider_opened, endPointVars
<1>3. CASE handle_clear_provider_close
  BY <1>3 DEF handle_clear_provider_close, closeSucceeds, close, wsServerVars,
              taskVars
<1>4. CASE handle_clear_provider_fails
  BY <1>4 DEF handle_clear_provider_fails, endPointVars, wsServerVars, taskVars
<1>5. CASE handle_clear_provider_done
  <2>1. outbox' \in [Handles -> Seq(Messages)]
    BY <1>5, ReplyIsMessage, con_sendType DEF handle_clear_provider_done
  <2>2. session' \in [Handles -> SessionStates]
    BY <1>5 DEF handle_clear_provider_done, release
  <2> QED
    BY <1>5, <2>1, <2>2
    DEF handle_clear_provider_done, endPointVars, taskVars
<1>6. ASSUME NEW h \in Handles, Consumer(h) PROVE TypeOK'
  <2>1. inbox' \in [Handles -> Seq(Requests \cup {CloseFrame, Eof})]
    <3>1. CASE disconnect(h)
      <4>1. PICK unread \in {Append(inbox[h], CloseFrame), Append(inbox[h], Eof),
                              <<Eof>>} :
              inbox' = [inbox EXCEPT ![h] = unread]
        BY <3>1 DEF disconnect
      <4>2. unread \in Seq(Requests \cup {CloseFrame, Eof})
        <5>1. /\ inbox[h] \in Seq(Requests \cup {CloseFrame, Eof})
              /\ CloseFrame \in Requests \cup {CloseFrame, Eof}
              /\ Eof \in Requests \cup {CloseFrame, Eof}
          OBVIOUS
        <5>2. /\ Append(inbox[h], CloseFrame) \in Seq(Requests \cup {CloseFrame, Eof})
              /\ Append(inbox[h], Eof) \in Seq(Requests \cup {CloseFrame, Eof})
              /\ <<Eof>> \in Seq(Requests \cup {CloseFrame, Eof})
          BY <5>1, LastFrame
        <5> QED
          BY <4>1, <5>2
      <4> QED
        BY <4>1, <4>2
    <3>2. ASSUME NEW request \in Requests, sendRequest(h, request)
          PROVE  inbox' \in [Handles -> Seq(Requests \cup {CloseFrame, Eof})]
      BY <3>2 DEF sendRequest
    <3>3. disconnect(h) \/ \E request \in Requests : sendRequest(h, request)
      BY ONLY <1>6 DEF Consumer
    <3> QED
      BY <3>1, <3>2, <3>3, Zenon
  <2>2. requests' \in 0..MaxRequests
    BY <1>6 DEF Consumer, sendRequest, disconnect
  <2> QED
    BY <1>6, <2>1, <2>2
    DEF Consumer, sendRequest, disconnect, endPointVars, aggregatorVars,
        taskVars
<1>7. ASSUME NEW h \in Handles, onConnection(h) PROVE TypeOK'
  BY <1>7 DEF onConnection, accept, endPointVars, aggregatorVars, taskVars
<1>8. ASSUME NEW h \in Handles, onMessage(h) PROVE TypeOK'
  <2>1. inbox' \in [Handles -> Seq(Requests \cup {CloseFrame, Eof})]
    <3>1. takeRequest(h)
      BY ONLY <1>8 DEF onMessage
    <3>2. inbox \in [Handles -> Seq(Requests \cup {CloseFrame, Eof})]
      OBVIOUS
    <3> QED
      BY ONLY <3>1, <3>2, TakeKeepsFrames, h \in Handles
  <2>2. ASSUME NEW host, handle_add_provider(h, host)
        PROVE  TypeOK'
    <3>1. PICK id \in Ids \cup {NoId} :
            /\ connect(host, id)
            /\ m_connections' = [m_connections EXCEPT ![h] = @ \cup {id}]
            /\ clientId' = id
      BY <2>2 DEF handle_add_provider
    <3>2. EndPointTypeOK'
      <4>1. CASE UNCHANGED endPointVars
        BY <4>1 DEF endPointVars
      <4>2. CASE ~UNCHANGED endPointVars
        <5>1. /\ id \in Ids /\ host \in Hosts
              /\ m_next_id' \in 0..MaxConnections
              /\ m_uri' = [m_uri EXCEPT ![id] = host]
              /\ m_state' = [m_state EXCEPT ![id] = "connecting"]
              /\ m_status' = [m_status EXCEPT ![id] = "Connecting"]
              /\ UNCHANGED <<dataReceivedSignal, received, clientThread>>
          BY <3>1, <4>2 DEF connect
        <5> QED
          BY <5>1
      <4> QED
        BY <4>1, <4>2
    <3>3. m_connections' \in [Handles -> SUBSET (Ids \cup {NoId})]
      BY <3>1
    <3> HIDE DEF EndPointTypeOK
    <3> QED
      BY <1>8, <2>1, <2>2, <3>1, <3>2, <3>3
      DEF onMessage, handle_add_provider, taskVars
  <2>3. CASE handle_clear_provider(h) /\ UNCHANGED outbox
    BY <1>8, <2>1, <2>3
    DEF onMessage, handle_clear_provider, endPointVars, taskVars
  <2>4. CASE UNCHANGED <<endPointVars, aggregatorVars, taskVars, serverThread,
                         outbox>>
    BY <1>8, <2>1, <2>4
    DEF onMessage, endPointVars, aggregatorVars, taskVars
  <2> QED
    BY <1>8, <2>2, <2>3, <2>4 DEF onMessage
<1>9. ASSUME NEW h \in Handles, io_close_frame(h) PROVE TypeOK'
  BY <1>9 DEF io_close_frame, process_close_frame, endPointVars, aggregatorVars,
              taskVars
<1>10. ASSUME NEW h \in Handles, onCloseConnection(h) PROVE TypeOK'
  <2>1. /\ inbox' \in [Handles -> Seq(Requests \cup {CloseFrame, Eof})]
        /\ outbox' \in [Handles -> Seq(Messages)]
        /\ session' \in [Handles -> SessionStates]
    BY <1>10 DEF onCloseConnection, terminate
  <2> QED
    BY <1>10, <2>1
    DEF onCloseConnection, terminate, handle_clear_provider, endPointVars,
        taskVars
<1>11. ASSUME NEW h \in Handles, io_write(h) PROVE TypeOK'
  <2>1. outbox' \in [Handles -> Seq(Messages)]
    BY <1>11 DEF io_write, write_frame
  <2> QED
    BY <1>11, <2>1
    DEF io_write, write_frame, endPointVars, aggregatorVars, taskVars
<1>12. ASSUME NEW id \in Ids, on_open(id), UNCHANGED Elsewhere PROVE TypeOK'
  BY <1>12 DEF on_open, Elsewhere, wsServerVars, aggregatorVars, taskVars
<1>13. ASSUME NEW id \in Ids, on_fail(id), UNCHANGED Elsewhere PROVE TypeOK'
  BY <1>13 DEF on_fail, Elsewhere, wsServerVars, aggregatorVars, taskVars
<1>14. ASSUME NEW id \in Ids, on_open_default(id), UNCHANGED Elsewhere
      PROVE TypeOK'
  BY <1>14 DEF on_open_default, Elsewhere, wsServerVars, aggregatorVars,
     taskVars
<1>15. ASSUME NEW id \in Ids, on_close(id), UNCHANGED Elsewhere PROVE TypeOK'
  BY <1>15 DEF on_close, Elsewhere, wsServerVars, aggregatorVars, taskVars
<1>16. ASSUME NEW id \in Ids, peer_close(id), UNCHANGED Elsewhere PROVE TypeOK'
  BY <1>16 DEF peer_close, Elsewhere, wsServerVars, aggregatorVars, taskVars
<1>17. ASSUME NEW id \in Ids, on_message(id), UNCHANGED Elsewhere PROVE TypeOK'
  BY <1>17 DEF on_message, Elsewhere, wsServerVars, aggregatorVars, taskVars
<1>18. ASSUME NEW id \in Ids, emitDataReceived(id) PROVE TypeOK'
  <2>1. outbox' \in [Handles -> Seq(Messages)]
    BY <1>18, DataIsMessage, con_sendType DEF emitDataReceived, endPointVarsButThread
  <2> QED
    BY <1>18, <2>1 DEF emitDataReceived, endPointVarsButThread, aggregatorVars, taskVars
<1>19. ASSUME NEW h \in Handles, NEW id \in Ids, sendMessages_lock(h, id)
       PROVE  TypeOK'
  BY <1>19 DEF sendMessages_lock, endPointVars, wsServerVars, aggregatorVars
<1>20. ASSUME NEW h \in Handles, NEW id \in Ids, sendMessages_install(h, id)
       PROVE  TypeOK'
  BY <1>20 DEF sendMessages_install, onDataReceived, wsServerVars,
               aggregatorVars
<1>21. ASSUME NEW id \in Ids, handle_read_http_response(id), UNCHANGED Elsewhere
      PROVE TypeOK'
  BY <1>21 DEF handle_read_http_response,
     Elsewhere, wsServerVars, aggregatorVars,
     taskVars
<1>22. ASSUME NEW id \in Ids, on_malformed(id), UNCHANGED Elsewhere
      PROVE TypeOK'
  BY <1>22 DEF on_malformed, endPointVarsButThread,
     Elsewhere, wsServerVars, aggregatorVars,
     taskVars
<1>23. ASSUME NEW h \in Handles, onMessage_throws(h) PROVE TypeOK'
  BY <1>23 DEF onMessage_throws, endPointVars, wsServerVars,
     aggregatorVars, taskVars
<1> QED
  BY <1>1, <1>2, <1>3, <1>4, <1>5, <1>6, <1>7, <1>8, <1>9, <1>10, <1>11, <1>12,
     <1>13, <1>14, <1>15, <1>16, <1>17, <1>18, <1>19, <1>20,
     <1>21, <1>22, <1>23
  DEF Next, Handler, Dispatch, Connected, Closed, ClientHandler, Host, Task

(* Type correctness.                                                       *)
THEOREM TypeCorrect == Spec => []TypeOK
  BY InitTypeOK, TypeStep, PTL DEF Spec

-----------------------------------------------------------------------------
(***************************************************************************)
(* The inductive invariant.                                                *)
(***************************************************************************)

(* What onMessage does: the three kinds of request.                        *)
AddBegun(h) ==
    /\ serverThread' = "polling"
    /\ m_connections' = [m_connections EXCEPT ![h] = @ \cup {clientId'}]
    /\ \/ UNCHANGED endPointVars /\ clientId' = NoId
       \/ /\ clientId' = m_next_id
          /\ clientId' \in Ids
          /\ m_next_id' = m_next_id + 1
          /\ m_state' = [m_state EXCEPT ![clientId'] = "connecting"]
          /\ m_status' = [m_status EXCEPT ![clientId'] = "Connecting"]
          /\ UNCHANGED <<dataReceivedSignal, received, clientThread>>
    /\ UNCHANGED <<toClose, m_client_ids>>

ClearBegun ==
    /\ serverThread' = "clearing"
    /\ toClose' = m_client_ids
    /\ UNCHANGED <<endPointVars, clientId, m_client_ids, m_connections>>

(* Every request does one of three things to the connections.              *)
LEMMA onMessageCases ==
    ASSUME TypeOK, NEW h \in Handles, onMessage(h)
    PROVE  /\ serverThread = "loop" /\ session[h] = "open"
           /\ UNCHANGED <<session, outbox, taskVars, crashed>>
           /\ \/ AddBegun(h) /\ serving' = h
              \/ ClearBegun /\ serving' = h
              \/ UNCHANGED <<endPointVars, aggregatorVars, serverThread>>
<1> USE DEF onMessage, takeRequest
<1>1. serverThread = "loop" /\ session[h] = "open"
  OBVIOUS
<1>2. CASE Head(inbox[h]).action = "add-provider"
  <2>1. handle_add_provider(h, Head(inbox[h]).host)
    BY <1>2 DEF handle_clear_provider
  <2>2. PICK id \in Ids \cup {NoId} :
          /\ connect(Head(inbox[h]).host, id)
          /\ m_connections' = [m_connections EXCEPT ![h] = @ \cup {id}]
          /\ clientId' = id
          /\ serving' = h
          /\ serverThread' = "polling"
          /\ UNCHANGED <<toClose, m_client_ids, outbox, taskVars>>
    BY <2>1 DEF handle_add_provider
  <2>3. AddBegun(h)
    BY <2>2, EndPointAssumption DEF AddBegun, connect, TypeOK,
       EndPointTypeOK, Ids, NoId
  <2> QED
    BY <1>1, <2>2, <2>3
<1>3. CASE Head(inbox[h]).action # "add-provider"
  BY <1>1, <1>3 DEF ClearBegun, handle_clear_provider, aggregatorVars, taskVars
<1> QED
  BY <1>2, <1>3

(* No step loses an open connection from the lists.                        *)
LEMMA OpenTrackedStep == IInv /\ TypeOK' /\ [Next]_vars => OpenTracked'
<1> SUFFICES ASSUME IInv, TypeOK', [Next]_vars PROVE OpenTracked'
  OBVIOUS
<1> USE EndPointAssumption, WsServerAssumption, AggregatorAssumption
    DEF IInv, TypeOK, EndPointTypeOK, WsServerTypeOK, SessionStates, States,
        Statuses, Idle, Ids, NoId, endPointVars, wsServerVars, aggregatorVars,
        taskVars, OpenTracked, ConnectionsListed
<1>1. ASSUME UNCHANGED vars PROVE OpenTracked'
  BY <1>1 DEF vars
<1>2. ASSUME handle_add_provider_opened PROVE OpenTracked'
  BY <1>2 DEF handle_add_provider_opened, getStatus
<1>3. ASSUME handle_clear_provider_close PROVE OpenTracked'
  BY <1>3 DEF handle_clear_provider_close, closeSucceeds, close
<1>4. ASSUME handle_clear_provider_fails PROVE OpenTracked'
  BY <1>4 DEF handle_clear_provider_fails
<1>5. ASSUME handle_clear_provider_done PROVE OpenTracked'
  BY <1>5 DEF handle_clear_provider_done, release
<1>6. ASSUME NEW h \in Handles, Consumer(h) PROVE OpenTracked'
  BY <1>6 DEF Consumer, sendRequest, disconnect
<1>7. ASSUME NEW h \in Handles, onConnection(h) PROVE OpenTracked'
  BY <1>7 DEF onConnection, accept
<1>8. ASSUME NEW h \in Handles, onMessage(h) PROVE OpenTracked'
  <2>0. /\ serverThread = "loop" /\ session[h] = "open" /\ UNCHANGED session
        /\ \/ AddBegun(h) /\ serving' = h
           \/ ClearBegun /\ serving' = h
           \/ UNCHANGED <<endPointVars, aggregatorVars, serverThread>>
    BY <1>8, onMessageCases
  <2>1. CASE AddBegun(h) /\ serving' = h /\ UNCHANGED endPointVars
    BY <2>0, <2>1 DEF AddBegun
  <2>2. CASE AddBegun(h) /\ serving' = h /\ ~UNCHANGED endPointVars
    BY <2>0, <2>2 DEF AddBegun
  <2>3. CASE ClearBegun /\ serving' = h
    BY <2>0, <2>3 DEF ClearBegun
  <2>4. CASE UNCHANGED <<endPointVars, aggregatorVars, serverThread>>
    BY <2>0, <2>4
  <2> QED
    BY <2>0, <2>1, <2>2, <2>3, <2>4
<1>9. ASSUME NEW h \in Handles, io_close_frame(h) PROVE OpenTracked'
  BY <1>9 DEF io_close_frame, process_close_frame
<1>10. ASSUME NEW h \in Handles, onCloseConnection(h) PROVE OpenTracked'
  BY <1>10 DEF onCloseConnection, terminate, handle_clear_provider
<1>11. ASSUME NEW h \in Handles, io_write(h) PROVE OpenTracked'
  BY <1>11 DEF io_write, write_frame
<1>12. ASSUME NEW id \in Ids, on_open(id), UNCHANGED Elsewhere
      PROVE OpenTracked'
  BY <1>12 DEF on_open, Elsewhere
<1>13. ASSUME NEW id \in Ids, on_fail(id), UNCHANGED Elsewhere
      PROVE OpenTracked'
  BY <1>13 DEF on_fail, Elsewhere
<1>14. ASSUME NEW id \in Ids, on_open_default(id), UNCHANGED Elsewhere
      PROVE OpenTracked'
  BY <1>14 DEF on_open_default, Elsewhere
<1>15. ASSUME NEW id \in Ids, on_close(id), UNCHANGED Elsewhere
      PROVE OpenTracked'
  BY <1>15 DEF on_close, Elsewhere
<1>16. ASSUME NEW id \in Ids, peer_close(id), UNCHANGED Elsewhere
      PROVE OpenTracked'
  BY <1>16 DEF peer_close, Elsewhere
<1>17. ASSUME NEW id \in Ids, on_message(id), UNCHANGED Elsewhere
      PROVE OpenTracked'
  BY <1>17 DEF on_message, Elsewhere
<1>18. ASSUME NEW id \in Ids, emitDataReceived(id) PROVE OpenTracked'
  BY <1>18 DEF emitDataReceived, endPointVarsButThread
<1>19. ASSUME NEW h \in Handles, NEW id \in Ids, sendMessages_lock(h, id)
      PROVE OpenTracked'
  BY <1>19 DEF sendMessages_lock, Alive
<1>20. ASSUME NEW h \in Handles, NEW id \in Ids, sendMessages_install(h, id)
      PROVE OpenTracked'
  BY <1>20 DEF sendMessages_install, onDataReceived
<1>21. ASSUME NEW id \in Ids, handle_read_http_response(id), UNCHANGED Elsewhere
      PROVE OpenTracked'
  BY <1>21 DEF handle_read_http_response,
     Elsewhere
<1>22. ASSUME NEW id \in Ids, on_malformed(id), UNCHANGED Elsewhere
      PROVE OpenTracked'
  BY <1>22 DEF on_malformed, endPointVarsButThread,
     Elsewhere
<1>23. ASSUME NEW h \in Handles, onMessage_throws(h) PROVE OpenTracked'
  BY <1>23 DEF onMessage_throws
<1> QED
  BY <1>1, <1>2, <1>3, <1>4, <1>5, <1>6, <1>7, <1>8, <1>9, <1>10, <1>11,
     <1>12, <1>13, <1>14, <1>15, <1>16, <1>17, <1>18, <1>19, <1>20,
     <1>21, <1>22, <1>23
  DEF Next, Handler, Dispatch, Connected, Closed, ClientHandler, Host, Task

(* The ids below m_next_id are those of m_connection_list's entries.       *)
LEMMA ConnectionsListedStep ==
    IInv /\ TypeOK' /\ [Next]_vars => ConnectionsListed'
<1> SUFFICES ASSUME IInv, TypeOK', [Next]_vars PROVE ConnectionsListed'
  OBVIOUS
<1> USE EndPointAssumption, WsServerAssumption, AggregatorAssumption
    DEF IInv, TypeOK, EndPointTypeOK, WsServerTypeOK, SessionStates, States,
        Statuses, Idle, Ids, NoId, endPointVars, wsServerVars, aggregatorVars,
        taskVars, ConnectionsListed, OpenTracked, ClientThreadInHandler, Begun,
        FeedsOfLiveSessions, Feeds
<1>1. ASSUME UNCHANGED vars PROVE ConnectionsListed'
  BY <1>1 DEF vars
<1>2. ASSUME handle_add_provider_opened PROVE ConnectionsListed'
  BY <1>2 DEF handle_add_provider_opened, getStatus
<1>3. ASSUME handle_clear_provider_close PROVE ConnectionsListed'
  BY <1>3 DEF handle_clear_provider_close, closeSucceeds, close
<1>4. ASSUME handle_clear_provider_fails PROVE ConnectionsListed'
  BY <1>4 DEF handle_clear_provider_fails
<1>5. ASSUME handle_clear_provider_done PROVE ConnectionsListed'
  BY <1>5 DEF handle_clear_provider_done, release
<1>6. ASSUME NEW h \in Handles, Consumer(h) PROVE ConnectionsListed'
  BY <1>6 DEF Consumer, sendRequest, disconnect
<1>7. ASSUME NEW h \in Handles, onConnection(h) PROVE ConnectionsListed'
  BY <1>7 DEF onConnection, accept
<1>8. ASSUME NEW h \in Handles, onMessage(h) PROVE ConnectionsListed'
  <2>0. /\ serverThread = "loop" /\ session[h] = "open" /\ UNCHANGED session
        /\ \/ AddBegun(h) /\ serving' = h
           \/ ClearBegun /\ serving' = h
           \/ UNCHANGED <<endPointVars, aggregatorVars, serverThread>>
    BY <1>8, onMessageCases
  <2>1. CASE AddBegun(h) /\ serving' = h /\ UNCHANGED endPointVars
    BY <2>0, <2>1 DEF AddBegun
  <2>2. CASE AddBegun(h) /\ serving' = h /\ ~UNCHANGED endPointVars
    <3> SUFFICES ASSUME NEW c \in Ids
                 PROVE  /\ m_state'[c] = "none" <=> c >= m_next_id'
                        /\ m_state'[c] = "connecting" => m_status'[c] # "Open"
                        /\ dataReceivedSignal'[c] # NoSlot => m_state'[c] \in Begun
      BY DEF Begun
    <3>1. /\ m_next_id \in Ids
          /\ m_next_id' = m_next_id + 1
          /\ m_state' = [m_state EXCEPT ![m_next_id] = "connecting"]
          /\ m_status' = [m_status EXCEPT ![m_next_id] = "Connecting"]
          /\ dataReceivedSignal' = dataReceivedSignal
      BY <2>2 DEF AddBegun
    <3>2. m_state[m_next_id] = "none"
      BY <3>1
    <3>3. dataReceivedSignal[m_next_id] = NoSlot
      BY <3>1, <3>2
    <3>4. CASE c = m_next_id
      BY <3>1, <3>3, <3>4
    <3>5. CASE c # m_next_id
      <4>1. m_state'[c] = m_state[c] /\ m_status'[c] = m_status[c]
        BY <3>1, <3>5
      <4>2. c >= m_next_id' <=> c >= m_next_id
        BY <3>1, <3>5
      <4> QED
        BY <3>1, <4>1, <4>2
    <3> QED
      BY <3>4, <3>5
  <2>3. CASE ClearBegun /\ serving' = h
    BY <2>0, <2>3 DEF ClearBegun
  <2>4. CASE UNCHANGED <<endPointVars, aggregatorVars, serverThread>>
    BY <2>0, <2>4
  <2> QED
    BY <2>0, <2>1, <2>2, <2>3, <2>4
<1>9. ASSUME NEW h \in Handles, io_close_frame(h) PROVE ConnectionsListed'
  BY <1>9 DEF io_close_frame, process_close_frame
<1>10. ASSUME NEW h \in Handles, onCloseConnection(h) PROVE ConnectionsListed'
  BY <1>10 DEF onCloseConnection, terminate, handle_clear_provider
<1>11. ASSUME NEW h \in Handles, io_write(h) PROVE ConnectionsListed'
  BY <1>11 DEF io_write, write_frame
<1>12. ASSUME NEW id \in Ids, on_open(id), UNCHANGED Elsewhere
      PROVE ConnectionsListed'
  BY <1>12 DEF on_open, Elsewhere
<1>13. ASSUME NEW id \in Ids, on_fail(id), UNCHANGED Elsewhere
      PROVE ConnectionsListed'
  BY <1>13 DEF on_fail, Elsewhere
<1>14. ASSUME NEW id \in Ids, on_open_default(id), UNCHANGED Elsewhere
      PROVE ConnectionsListed'
  BY <1>14 DEF on_open_default, Elsewhere
<1>15. ASSUME NEW id \in Ids, on_close(id), UNCHANGED Elsewhere
      PROVE ConnectionsListed'
  BY <1>15 DEF on_close, Elsewhere
<1>16. ASSUME NEW id \in Ids, peer_close(id), UNCHANGED Elsewhere
      PROVE ConnectionsListed'
  BY <1>16 DEF peer_close, Elsewhere
<1>17. ASSUME NEW id \in Ids, on_message(id), UNCHANGED Elsewhere
      PROVE ConnectionsListed'
  BY <1>17 DEF on_message, Elsewhere
<1>18. ASSUME NEW id \in Ids, emitDataReceived(id) PROVE ConnectionsListed'
  BY <1>18 DEF emitDataReceived, endPointVarsButThread
<1>19. ASSUME NEW h \in Handles, NEW id \in Ids, sendMessages_lock(h, id)
      PROVE ConnectionsListed'
  BY <1>19 DEF sendMessages_lock, Alive
<1>20. ASSUME NEW h \in Handles, NEW id \in Ids, sendMessages_install(h, id)
      PROVE ConnectionsListed'
  <2>1. /\ UNCHANGED <<m_next_id, m_state, m_status>>
        /\ dataReceivedSignal' = [dataReceivedSignal EXCEPT ![id] = h]
        /\ <<h, id>> \in holding
    BY <1>20 DEF sendMessages_install, onDataReceived
  <2>2. m_state[id] \in Begun
    BY <2>1
  <2>3. \A c \in Ids : dataReceivedSignal'[c] # NoSlot => m_state[c] \in Begun
    BY <2>1, <2>2
  <2> QED
    BY <2>1, <2>3
<1>21. ASSUME NEW id \in Ids, handle_read_http_response(id), UNCHANGED Elsewhere
      PROVE ConnectionsListed'
  BY <1>21 DEF handle_read_http_response,
     Elsewhere
<1>22. ASSUME NEW id \in Ids, on_malformed(id), UNCHANGED Elsewhere
      PROVE ConnectionsListed'
  BY <1>22 DEF on_malformed, endPointVarsButThread,
     Elsewhere
<1>23. ASSUME NEW h \in Handles, onMessage_throws(h) PROVE ConnectionsListed'
  BY <1>23 DEF onMessage_throws
<1> QED
  BY <1>1, <1>2, <1>3, <1>4, <1>5, <1>6, <1>7, <1>8, <1>9, <1>10, <1>11,
     <1>12, <1>13, <1>14, <1>15, <1>16, <1>17, <1>18, <1>19, <1>20,
     <1>21, <1>22, <1>23
  DEF Next, Handler, Dispatch, Connected, Closed, ClientHandler, Host, Task

(* A connection whose handler runs has not ended.                          *)
LEMMA ClientThreadInHandlerStep ==
    IInv /\ TypeOK' /\ [Next]_vars => ClientThreadInHandler'
<1> SUFFICES ASSUME IInv, TypeOK', [Next]_vars PROVE ClientThreadInHandler'
  OBVIOUS
<1> USE EndPointAssumption, WsServerAssumption, AggregatorAssumption
    DEF IInv, TypeOK, EndPointTypeOK, WsServerTypeOK, SessionStates, States,
        Statuses, Idle, Ids, NoId, endPointVars, wsServerVars, aggregatorVars,
        taskVars, ClientThreadInHandler
<1>1. ASSUME UNCHANGED vars PROVE ClientThreadInHandler'
  BY <1>1 DEF vars
<1>2. ASSUME handle_add_provider_opened PROVE ClientThreadInHandler'
  BY <1>2 DEF handle_add_provider_opened, getStatus
<1>3. ASSUME handle_clear_provider_close PROVE ClientThreadInHandler'
  BY <1>3 DEF handle_clear_provider_close, closeSucceeds, close
<1>4. ASSUME handle_clear_provider_fails PROVE ClientThreadInHandler'
  BY <1>4 DEF handle_clear_provider_fails
<1>5. ASSUME handle_clear_provider_done PROVE ClientThreadInHandler'
  BY <1>5 DEF handle_clear_provider_done, release
<1>6. ASSUME NEW h \in Handles, Consumer(h) PROVE ClientThreadInHandler'
  BY <1>6 DEF Consumer, sendRequest, disconnect
<1>7. ASSUME NEW h \in Handles, onConnection(h) PROVE ClientThreadInHandler'
  BY <1>7 DEF onConnection, accept
<1>8. ASSUME NEW h \in Handles, onMessage(h) PROVE ClientThreadInHandler'
  <2>0. /\ serverThread = "loop" /\ session[h] = "open" /\ UNCHANGED session
        /\ \/ AddBegun(h) /\ serving' = h
           \/ ClearBegun /\ serving' = h
           \/ UNCHANGED <<endPointVars, aggregatorVars, serverThread>>
    BY <1>8, onMessageCases
  <2>1. CASE AddBegun(h) /\ serving' = h /\ UNCHANGED endPointVars
    BY <2>0, <2>1 DEF AddBegun
  <2>2. CASE AddBegun(h) /\ serving' = h /\ ~UNCHANGED endPointVars
    <3>1. /\ m_next_id \in Ids
          /\ m_state' = [m_state EXCEPT ![m_next_id] = "connecting"]
          /\ UNCHANGED <<dataReceivedSignal, clientThread>>
      BY <2>2 DEF AddBegun
    <3>2. m_state[m_next_id] = "none"
      BY <3>1 DEF ConnectionsListed
    <3>3. ASSUME clientThread # Idle
          PROVE  m_state'[clientThread.id] = m_state[clientThread.id]
      <4>1. clientThread.id \in Ids
        BY <3>3
      <4>2. m_state[clientThread.id] \in {"open", "closing"}
        BY <3>3
      <4> QED
        BY <3>1, <3>2, <4>1, <4>2
    <3>4. \A c \in Ids : m_state'[c] = "open" => m_state[c] = "open"
      BY <3>1
    <3> QED
      BY <3>1, <3>3, <3>4
  <2>3. CASE ClearBegun /\ serving' = h
    BY <2>0, <2>3 DEF ClearBegun
  <2>4. CASE UNCHANGED <<endPointVars, aggregatorVars, serverThread>>
    BY <2>0, <2>4
  <2> QED
    BY <2>0, <2>1, <2>2, <2>3, <2>4
<1>9. ASSUME NEW h \in Handles, io_close_frame(h) PROVE ClientThreadInHandler'
  BY <1>9 DEF io_close_frame, process_close_frame
<1>10. ASSUME NEW h \in Handles, onCloseConnection(h)
      PROVE ClientThreadInHandler'
  BY <1>10 DEF onCloseConnection, terminate, handle_clear_provider
<1>11. ASSUME NEW h \in Handles, io_write(h) PROVE ClientThreadInHandler'
  BY <1>11 DEF io_write, write_frame
<1>12. ASSUME NEW id \in Ids, on_open(id), UNCHANGED Elsewhere
      PROVE ClientThreadInHandler'
  BY <1>12 DEF on_open, Elsewhere
<1>13. ASSUME NEW id \in Ids, on_fail(id), UNCHANGED Elsewhere
      PROVE ClientThreadInHandler'
  BY <1>13 DEF on_fail, Elsewhere
<1>14. ASSUME NEW id \in Ids, on_open_default(id), UNCHANGED Elsewhere
      PROVE ClientThreadInHandler'
  BY <1>14 DEF on_open_default, Elsewhere
<1>15. ASSUME NEW id \in Ids, on_close(id), UNCHANGED Elsewhere
      PROVE ClientThreadInHandler'
  BY <1>15 DEF on_close, Elsewhere
<1>16. ASSUME NEW id \in Ids, peer_close(id), UNCHANGED Elsewhere
      PROVE ClientThreadInHandler'
  BY <1>16 DEF peer_close, Elsewhere
<1>17. ASSUME NEW id \in Ids, on_message(id), UNCHANGED Elsewhere
      PROVE ClientThreadInHandler'
  BY <1>17 DEF on_message, Elsewhere
<1>18. ASSUME NEW id \in Ids, emitDataReceived(id) PROVE ClientThreadInHandler'
  <2>1. /\ clientThread \in [at : {"on_message", "on_malformed"}, id : {id}]
        /\ UNCHANGED <<m_state, dataReceivedSignal>>
        /\ clientThread' = Idle \/ UNCHANGED clientThread
    BY <1>18 DEF emitDataReceived, endPointVarsButThread
  <2>2. \A c \in Ids : m_state[c] = "open" => dataReceivedSignal[c] # NoSlot
    BY <2>1
  <2>3. CASE clientThread' = Idle
    BY <2>1, <2>2, <2>3
  <2>4. CASE UNCHANGED clientThread
    BY <2>1, <2>2, <2>4
  <2> QED
    BY <2>1, <2>3, <2>4
<1>19. ASSUME NEW h \in Handles, NEW id \in Ids, sendMessages_lock(h, id)
      PROVE ClientThreadInHandler'
  BY <1>19 DEF sendMessages_lock, Alive
<1>20. ASSUME NEW h \in Handles, NEW id \in Ids, sendMessages_install(h, id)
      PROVE ClientThreadInHandler'
  BY <1>20 DEF sendMessages_install, onDataReceived
<1>21. ASSUME NEW id \in Ids, handle_read_http_response(id), UNCHANGED Elsewhere
      PROVE ClientThreadInHandler'
  BY <1>21 DEF handle_read_http_response,
     Elsewhere
<1>22. ASSUME NEW id \in Ids, on_malformed(id), UNCHANGED Elsewhere
      PROVE ClientThreadInHandler'
  BY <1>22 DEF on_malformed, endPointVarsButThread,
     Elsewhere
<1>23. ASSUME NEW h \in Handles, onMessage_throws(h) PROVE ClientThreadInHandler'
  BY <1>23 DEF onMessage_throws
<1> QED
  BY <1>1, <1>2, <1>3, <1>4, <1>5, <1>6, <1>7, <1>8, <1>9, <1>10, <1>11,
     <1>12, <1>13, <1>14, <1>15, <1>16, <1>17, <1>18, <1>19, <1>20,
     <1>21, <1>22, <1>23
  DEF Next, Handler, Dispatch, Connected, Closed, ClientHandler, Host, Task

(* Only the close handler's own session is closed and not released.        *)
LEMMA ServerThreadServesStep ==
    IInv /\ TypeOK' /\ [Next]_vars => ServerThreadServes'
<1> SUFFICES ASSUME IInv, TypeOK', [Next]_vars PROVE ServerThreadServes'
  OBVIOUS
<1> USE EndPointAssumption, WsServerAssumption, AggregatorAssumption
    DEF IInv, TypeOK, EndPointTypeOK, WsServerTypeOK, SessionStates, States,
        Statuses, Idle, Ids, NoId, endPointVars, wsServerVars, aggregatorVars,
        taskVars, ServerThreadServes
<1>1. ASSUME UNCHANGED vars PROVE ServerThreadServes'
  BY <1>1 DEF vars
<1>2. ASSUME handle_add_provider_opened PROVE ServerThreadServes'
  BY <1>2 DEF handle_add_provider_opened, getStatus
<1>3. ASSUME handle_clear_provider_close PROVE ServerThreadServes'
  BY <1>3 DEF handle_clear_provider_close, closeSucceeds, close
<1>4. ASSUME handle_clear_provider_fails PROVE ServerThreadServes'
  BY <1>4 DEF handle_clear_provider_fails
<1>5. ASSUME handle_clear_provider_done PROVE ServerThreadServes'
  BY <1>5 DEF handle_clear_provider_done, release
<1>6. ASSUME NEW h \in Handles, Consumer(h) PROVE ServerThreadServes'
  BY <1>6 DEF Consumer, sendRequest, disconnect
<1>7. ASSUME NEW h \in Handles, onConnection(h) PROVE ServerThreadServes'
  BY <1>7 DEF onConnection, accept
<1>8. ASSUME NEW h \in Handles, onMessage(h) PROVE ServerThreadServes'
  <2>0. /\ serverThread = "loop" /\ session[h] = "open" /\ UNCHANGED session
        /\ \/ AddBegun(h) /\ serving' = h
           \/ ClearBegun /\ serving' = h
           \/ UNCHANGED <<endPointVars, aggregatorVars, serverThread>>
    BY <1>8, onMessageCases
  <2>1. CASE AddBegun(h) /\ serving' = h /\ UNCHANGED endPointVars
    BY <2>0, <2>1 DEF AddBegun
  <2>2. CASE AddBegun(h) /\ serving' = h /\ ~UNCHANGED endPointVars
    BY <2>0, <2>2 DEF AddBegun
  <2>3. CASE ClearBegun /\ serving' = h
    BY <2>0, <2>3 DEF ClearBegun
  <2>4. CASE UNCHANGED <<endPointVars, aggregatorVars, serverThread>>
    BY <2>0, <2>4
  <2> QED
    BY <2>0, <2>1, <2>2, <2>3, <2>4
<1>9. ASSUME NEW h \in Handles, io_close_frame(h) PROVE ServerThreadServes'
  BY <1>9 DEF io_close_frame, process_close_frame
<1>10. ASSUME NEW h \in Handles, onCloseConnection(h) PROVE ServerThreadServes'
  BY <1>10 DEF onCloseConnection, terminate, handle_clear_provider
<1>11. ASSUME NEW h \in Handles, io_write(h) PROVE ServerThreadServes'
  BY <1>11 DEF io_write, write_frame
<1>12. ASSUME NEW id \in Ids, on_open(id), UNCHANGED Elsewhere
      PROVE ServerThreadServes'
  BY <1>12 DEF on_open, Elsewhere
<1>13. ASSUME NEW id \in Ids, on_fail(id), UNCHANGED Elsewhere
      PROVE ServerThreadServes'
  BY <1>13 DEF on_fail, Elsewhere
<1>14. ASSUME NEW id \in Ids, on_open_default(id), UNCHANGED Elsewhere
      PROVE ServerThreadServes'
  BY <1>14 DEF on_open_default, Elsewhere
<1>15. ASSUME NEW id \in Ids, on_close(id), UNCHANGED Elsewhere
      PROVE ServerThreadServes'
  BY <1>15 DEF on_close, Elsewhere
<1>16. ASSUME NEW id \in Ids, peer_close(id), UNCHANGED Elsewhere
      PROVE ServerThreadServes'
  BY <1>16 DEF peer_close, Elsewhere
<1>17. ASSUME NEW id \in Ids, on_message(id), UNCHANGED Elsewhere
      PROVE ServerThreadServes'
  BY <1>17 DEF on_message, Elsewhere
<1>18. ASSUME NEW id \in Ids, emitDataReceived(id) PROVE ServerThreadServes'
  BY <1>18 DEF emitDataReceived, endPointVarsButThread
<1>19. ASSUME NEW h \in Handles, NEW id \in Ids, sendMessages_lock(h, id)
      PROVE ServerThreadServes'
  BY <1>19 DEF sendMessages_lock, Alive
<1>20. ASSUME NEW h \in Handles, NEW id \in Ids, sendMessages_install(h, id)
      PROVE ServerThreadServes'
  BY <1>20 DEF sendMessages_install, onDataReceived
<1>21. ASSUME NEW id \in Ids, handle_read_http_response(id), UNCHANGED Elsewhere
      PROVE ServerThreadServes'
  BY <1>21 DEF handle_read_http_response,
     Elsewhere
<1>22. ASSUME NEW id \in Ids, on_malformed(id), UNCHANGED Elsewhere
      PROVE ServerThreadServes'
  BY <1>22 DEF on_malformed, endPointVarsButThread,
     Elsewhere
<1>23. ASSUME NEW h \in Handles, onMessage_throws(h) PROVE ServerThreadServes'
  BY <1>23 DEF onMessage_throws
<1> QED
  BY <1>1, <1>2, <1>3, <1>4, <1>5, <1>6, <1>7, <1>8, <1>9, <1>10, <1>11,
     <1>12, <1>13, <1>14, <1>15, <1>16, <1>17, <1>18, <1>19, <1>20,
     <1>21, <1>22, <1>23
  DEF Next, Handler, Dispatch, Connected, Closed, ClientHandler, Host, Task

(* A slot whose hdl has expired belongs to a connection that is not open.  *)
LEMMA SlotsAlive == TypeOK /\ FeedsOfLiveSessions => OpenSlotsAlive
  BY DEF TypeOK, EndPointTypeOK, WsServerTypeOK, SessionStates,
         FeedsOfLiveSessions, Feeds, OpenSlotsAlive, Alive

(* A slot that throws belongs to a connection that is closing, or is given *)
(* a malformed text; a request that throws is a session's next one.        *)
LEMMA CrashExplainedStep ==
    IInv /\ TypeOK' /\ [Next]_vars => CrashExplained'
<1> SUFFICES ASSUME IInv, TypeOK', [Next]_vars, crashed'
             PROVE  CrashExplained'
  BY DEF CrashExplained
<1>1. CASE UNCHANGED vars
  BY <1>1 DEF IInv, CrashExplained, vars, endPointVars, wsServerVars
<1>2. ASSUME NEW id \in Ids, emitDataReceived(id), ~crashed
      PROVE  CrashExplained'
  <2>1. /\ clientThread.at \in {"on_message", "on_malformed"}
        /\ clientThread.id = id
        /\ UNCHANGED <<clientThread, m_state, dataReceivedSignal>>
        /\ \/ dataReceivedSignal[id] = NoSlot
           \/ dataReceivedSignal[id] \in Handles /\ ~Alive(dataReceivedSignal[id])
           \/ dataReceivedSignal[id] \in Handles /\ clientThread.at = "on_malformed"
    BY <1>2 DEF emitDataReceived, endPointVarsButThread
  <2>2. m_state[id] \in {"open", "closing"} /\ dataReceivedSignal[id] # NoSlot
    BY <2>1 DEF IInv, ClientThreadInHandler, Idle
  <2>3. clientThread.at = "on_message" => m_state[id] = "closing"
    <3> SUFFICES ASSUME clientThread.at = "on_message" PROVE m_state[id] # "open"
      BY <2>2
    <3>1. ~Alive(dataReceivedSignal[id]) /\ dataReceivedSignal[id] \in Handles
      BY <2>1, <2>2
    <3> QED
      BY <3>1, SlotsAlive DEF IInv, OpenSlotsAlive
  <2>4. dataReceivedSignal[id] \in Handles
    BY <2>1, <2>2
  <2> QED
    BY <2>1, <2>3, <2>4 DEF CrashExplained
<1>3. ASSUME NEW h \in Handles, onMessage_throws(h)
      PROVE  CrashExplained'
  BY <1>3 DEF onMessage_throws, CrashExplained, wsServerVars
<1>4. CASE Next /\ crashed' = crashed
  BY <1>4 DEF Next
<1>5. ASSUME Next, ~(\E id \in Ids : emitDataReceived(id)),
             ~(\E h \in Handles : onMessage_throws(h))
      PROVE  crashed' = crashed
  <2> USE DEF Elsewhere
  <2>1. CASE Handler
    BY <2>1 DEF Handler, handle_add_provider_opened,
       handle_clear_provider_close,
                handle_clear_provider_fails, handle_clear_provider_done
  <2>2. ASSUME NEW h \in Handles,
               Consumer(h) \/ onConnection(h) \/ Dispatch(h) \/ io_write(h)
        PROVE  crashed' = crashed
    BY <1>5, <2>2 DEF Consumer, onConnection, Dispatch, onMessage,
                io_close_frame, onCloseConnection, io_write
  <2>3. ASSUME NEW id \in Ids,
               Connected(id) \/ Closed(id) \/ ClientHandler(id) \/ Host(id)
        PROVE  crashed' = crashed
    BY <1>5, <2>3 DEF Connected, Closed, ClientHandler, Host
  <2>4. ASSUME NEW h \in Handles, NEW id \in Ids, Task(h, id)
        PROVE  crashed' = crashed
    BY <2>4 DEF Task, sendMessages_lock, sendMessages_install
  <2> QED
    BY <1>5, <2>1, <2>2, <2>3, <2>4 DEF Next
<1> QED
  BY <1>1, <1>2, <1>3, <1>4, <1>5 DEF Next

(* The sessions that connections feed.                                     *)
LEMMA FeedsOfLiveSessionsStep ==
    IInv /\ TypeOK' /\ [Next]_vars => FeedsOfLiveSessions'
<1> SUFFICES ASSUME IInv, TypeOK', [Next]_vars,
                    NEW g \in Handles, NEW c \in Ids, Feeds(g, c)'
             PROVE  /\ m_state'[c] \in Begun
                    /\ session'[g] # "absent"
                    /\ session'[g] = "released" => m_state'[c] # "open"
                    /\ c \in m_connections'[g]
  BY DEF FeedsOfLiveSessions, Begun
<1> DEFINE Kept == /\ m_state'[c] \in Begun
                   /\ session'[g] # "absent"
                   /\ session'[g] = "released" => m_state'[c] # "open"
                   /\ c \in m_connections'[g]
<1> USE DEF Begun, TypeOK, EndPointTypeOK, WsServerTypeOK, Feeds, endPointVars,
        wsServerVars, aggregatorVars, taskVars
<1>a. Feeds(g, c) => /\ m_state[c] \in Begun
                     /\ session[g] # "absent"
                     /\ session[g] = "released" => m_state[c] # "open"
                     /\ c \in m_connections[g]
  BY DEF IInv, FeedsOfLiveSessions
<1>1. CASE UNCHANGED vars
  BY <1>a, <1>1 DEF vars
<1>2. CASE handle_add_provider_opened
  <2>1. /\ serverThread = "polling" /\ getStatus(clientId) = "Open"
        /\ UNCHANGED <<endPointVars, session, m_connections, holding>>
        /\ installing' = installing \cup {<<serving, clientId>>}
    BY <1>2 DEF handle_add_provider_opened
  <2>2. CASE Feeds(g, c)
    BY <1>a, <2>1, <2>2
  <2>3. CASE g = serving /\ c = clientId
    <3>1. /\ session[g] = "open" /\ c \in m_connections[g]
      BY <2>1, <2>3 DEF IInv, ServerThreadServes
    <3>2. m_state[c] \notin {"none", "connecting"}
      BY <2>1, <2>3 DEF getStatus, IInv, ConnectionsListed, Ids
    <3>3. m_state[c] \in Begun
      BY <3>2 DEF IInv, States
    <3> QED
      BY <2>1, <3>1, <3>3
  <2> QED
    BY <2>1, <2>2, <2>3
<1>3. CASE handle_clear_provider_close
  BY <1>a, <1>3 DEF handle_clear_provider_close, close
<1>4. CASE handle_clear_provider_fails
  BY <1>a, <1>4 DEF handle_clear_provider_fails
<1>5. CASE handle_clear_provider_done
  BY <1>a, <1>5 DEF handle_clear_provider_done, release, IInv, OpenTracked
<1>6. ASSUME NEW h \in Handles, Consumer(h) PROVE Kept
  BY <1>a, <1>6 DEF Consumer, sendRequest, disconnect
<1>7. ASSUME NEW h \in Handles, onConnection(h) PROVE Kept
  BY <1>a, <1>7 DEF onConnection, accept
<1>8. ASSUME NEW h \in Handles, onMessage(h) PROVE Kept
  <2> HIDE DEF TypeOK
  <2>1. /\ UNCHANGED <<session, taskVars>>
        /\ \/ AddBegun(h)
           \/ ClearBegun
           \/ UNCHANGED <<endPointVars, aggregatorVars, serverThread>>
    BY <1>8, onMessageCases DEF IInv
  <2> USE DEF TypeOK
  <2>2. CASE AddBegun(h)
    <3>1. Feeds(g, c)
      BY <2>1, <2>2 DEF AddBegun
    <3>2. m_state'[c] = m_state[c]
      <4>1. m_state[c] # "none"
        BY <1>a, <3>1
      <4>2. c < m_next_id
        BY <4>1 DEF IInv, ConnectionsListed, Ids
      <4> QED
        BY <2>2, <4>2 DEF AddBegun, IInv, Ids
    <3>3. c \in m_connections'[g]
      BY <1>a, <2>2, <3>1 DEF AddBegun
    <3> QED
      BY <1>a, <2>1, <3>1, <3>2, <3>3
  <2>3. CASE ClearBegun
    BY <1>a, <2>1, <2>3 DEF ClearBegun
  <2>4. CASE UNCHANGED <<endPointVars, aggregatorVars, serverThread>>
    BY <1>a, <2>1, <2>4
  <2> QED
    BY <2>1, <2>2, <2>3, <2>4
<1>9. ASSUME NEW h \in Handles, io_close_frame(h) PROVE Kept
  BY <1>a, <1>9 DEF io_close_frame, process_close_frame
<1>10. ASSUME NEW h \in Handles, onCloseConnection(h) PROVE Kept
  BY <1>a, <1>10 DEF onCloseConnection, terminate, handle_clear_provider
<1>11. ASSUME NEW h \in Handles, io_write(h) PROVE Kept
  BY <1>a, <1>11 DEF io_write, write_frame
<1>12. ASSUME NEW id \in Ids, on_open(id), UNCHANGED Elsewhere PROVE Kept
  BY <1>a, <1>12, EndPointAssumption, AggregatorAssumption DEF on_open,
     Elsewhere
<1>13. ASSUME NEW id \in Ids, on_fail(id), UNCHANGED Elsewhere PROVE Kept
  BY <1>a, <1>13, EndPointAssumption, AggregatorAssumption DEF on_fail,
     Elsewhere
<1>14. ASSUME NEW id \in Ids, on_open_default(id), UNCHANGED Elsewhere
      PROVE Kept
  BY <1>a, <1>14, EndPointAssumption, AggregatorAssumption DEF
     on_open_default, Elsewhere
<1>15. ASSUME NEW id \in Ids, on_close(id), UNCHANGED Elsewhere PROVE Kept
  BY <1>a, <1>15, EndPointAssumption, AggregatorAssumption DEF on_close,
     Elsewhere
<1>16. ASSUME NEW id \in Ids, peer_close(id), UNCHANGED Elsewhere PROVE Kept
  BY <1>a, <1>16, EndPointAssumption, AggregatorAssumption DEF peer_close,
     Elsewhere
<1>17. ASSUME NEW id \in Ids, on_message(id), UNCHANGED Elsewhere PROVE Kept
  BY <1>a, <1>17, EndPointAssumption, AggregatorAssumption DEF on_message,
     Elsewhere
<1>18. ASSUME NEW id \in Ids, emitDataReceived(id) PROVE Kept
  BY <1>a, <1>18 DEF emitDataReceived, endPointVarsButThread
<1>19. ASSUME NEW h \in Handles, NEW id \in Ids, sendMessages_lock(h, id)
      PROVE Kept
  BY <1>a, <1>19 DEF sendMessages_lock, Alive
<1>20. ASSUME NEW h \in Handles, NEW id \in Ids, sendMessages_install(h, id)
      PROVE Kept
  BY <1>a, <1>20 DEF sendMessages_install, onDataReceived
<1>21. ASSUME NEW id \in Ids, handle_read_http_response(id), UNCHANGED Elsewhere
      PROVE Kept
  BY <1>a, <1>21, EndPointAssumption, AggregatorAssumption DEF handle_read_http_response,
     Elsewhere
<1>22. ASSUME NEW id \in Ids, on_malformed(id), UNCHANGED Elsewhere
      PROVE Kept
  BY <1>a, <1>22, EndPointAssumption, AggregatorAssumption DEF on_malformed, endPointVarsButThread,
     Elsewhere
<1>23. ASSUME NEW h \in Handles, onMessage_throws(h) PROVE Kept
  BY <1>a, <1>23, EndPointAssumption, AggregatorAssumption DEF onMessage_throws
<1> QED
  BY <1>1, <1>2, <1>3, <1>4, <1>5, <1>6, <1>7, <1>8, <1>9, <1>10, <1>11,
     <1>12, <1>13, <1>14, <1>15, <1>16, <1>17, <1>18, <1>19, <1>20,
     <1>21, <1>22, <1>23
  DEF Next, Handler, Dispatch, Connected, Closed, ClientHandler, Host, Task

(* Data goes to sessions that asked for it: what a queue holds ...         *)
DataOf(queue, ids) ==
    \A i \in DOMAIN queue : "id" \in DOMAIN queue[i] => queue[i].id \in ids

LEMMA AppendData ==
    ASSUME NEW queue \in Seq(Messages), NEW ids, DataOf(queue, ids),
           NEW m, "id" \in DOMAIN m => m.id \in ids
    PROVE  DataOf(Append(queue, m), ids)
<1> DEFINE longer == Append(queue, m)
<1>1. DOMAIN longer = 1..(Len(queue) + 1) /\ DOMAIN queue = 1..Len(queue)
  OBVIOUS
<1>2. \A i \in 1..Len(queue) : longer[i] = queue[i]
  OBVIOUS
<1>3. longer[Len(queue) + 1] = m
  OBVIOUS
<1>4. Len(queue) \in Nat
  OBVIOUS
<1> HIDE DEF longer
<1>5. ASSUME NEW i \in DOMAIN longer, "id" \in DOMAIN longer[i]
      PROVE  longer[i].id \in ids
  <2>1. CASE i \in 1..Len(queue)
    BY <1>1, <1>2, <1>5, <2>1 DEF DataOf
  <2>2. CASE i = Len(queue) + 1
    BY <1>3, <1>5, <2>2
  <2> QED
    BY <1>1, <1>4, <2>1, <2>2
<1>6. DataOf(longer, ids)
  BY <1>5 DEF DataOf
<1> QED
  BY <1>6 DEF longer

LEMMA ReplyHasNoData ==
    ASSUME NEW status
    PROVE  "id" \notin DOMAIN Reply(status)
  BY DEF Reply

(* ... and what con_send adds to it.                                       *)
LEMMA con_sendData ==
    ASSUME outbox \in [Handles -> Seq(Messages)], NEW h \in Handles, NEW g \in Handles,
           NEW m, NEW ids, con_send(h, m), DataOf(outbox[g], ids),
           g = h /\ "id" \in DOMAIN m => m.id \in ids
    PROVE  DataOf(outbox'[g], ids)
<1>1. CASE g = h /\ session[h] = "open"
  BY <1>1, AppendData DEF con_send
<1>2. CASE ~(g = h /\ session[h] = "open")
  BY <1>2 DEF con_send
<1> QED
  BY <1>1, <1>2

LEMMA FeedsGoToAskerStep ==
    IInv /\ TypeOK' /\ FeedsOfLiveSessions' /\ [Next]_vars => FeedsGoToAsker'
<1> SUFFICES ASSUME IInv, TypeOK', FeedsOfLiveSessions', [Next]_vars,
                    NEW g \in Handles
             PROVE  DataOf(outbox'[g], m_connections'[g])
  BY DEF FeedsGoToAsker, FeedsOfLiveSessions, Feeds, DataOf
<1>a. /\ outbox \in [Handles -> Seq(Messages)]
      /\ m_connections \in [Handles -> SUBSET (Ids \cup {NoId})]
      /\ DataOf(outbox[g], m_connections[g])
  BY DEF IInv, TypeOK, WsServerTypeOK, FeedsGoToAsker, DataOf
<1>b. DataOf(<<>>, m_connections[g])
  BY DEF DataOf
<1> USE DEF endPointVars, wsServerVars, aggregatorVars, taskVars
<1>1. CASE UNCHANGED <<outbox, m_connections>>
  BY <1>a, <1>1
<1>2. CASE handle_add_provider_opened
  <2>1. /\ serving \in Handles
        /\ m_connections' = m_connections
        /\ \E status : con_send(serving, Reply(status))
    BY <1>2 DEF handle_add_provider_opened, IInv, TypeOK
  <2> QED
    BY <1>a, <2>1, con_sendData, ReplyHasNoData
<1>3. CASE handle_clear_provider_done
  <2>1. /\ serving \in Handles
        /\ m_connections' = m_connections
        /\ \E status : con_send(serving, Reply(status))
    BY <1>3 DEF handle_clear_provider_done, IInv, TypeOK
  <2> QED
    BY <1>a, <2>1, con_sendData, ReplyHasNoData
<1>4. CASE handle_clear_provider_close \/ handle_clear_provider_fails
  BY <1>1, <1>4 DEF handle_clear_provider_close, handle_clear_provider_fails
<1>5. ASSUME NEW h \in Handles, Consumer(h) \/ onConnection(h) \/
    io_close_frame(h)
      PROVE  DataOf(outbox'[g], m_connections'[g])
  BY <1>1, <1>5 DEF Consumer, sendRequest, disconnect, onConnection, accept,
                    io_close_frame, process_close_frame
<1>6. ASSUME NEW h \in Handles, onMessage(h)
      PROVE  DataOf(outbox'[g], m_connections'[g])
  <2>1. /\ outbox' = outbox
        /\ \/ m_connections' = m_connections
           \/ m_connections' = [m_connections EXCEPT ![h] = @ \cup {clientId'}]
    BY <1>6, onMessageCases DEF IInv, AddBegun, ClearBegun
  <2> QED
    BY <1>a, <2>1 DEF DataOf
<1>7. ASSUME NEW h \in Handles, onCloseConnection(h) \/ io_write(h)
      PROVE  DataOf(outbox'[g], m_connections'[g])
  <2>1. /\ outbox' = [outbox EXCEPT ![h] = <<>>]
        /\ m_connections' = m_connections
    BY <1>7 DEF onCloseConnection, terminate, handle_clear_provider, io_write,
                write_frame
  <2> QED
    BY <1>a, <1>b, <2>1
<1>8. ASSUME NEW id \in Ids, Connected(id) \/ Closed(id) \/ Host(id)
      PROVE  DataOf(outbox'[g], m_connections'[g])
  BY <1>1, <1>8 DEF Connected, Closed, Host, Elsewhere
<1>9. ASSUME NEW id \in Ids, ClientHandler(id)
      PROVE  DataOf(outbox'[g], m_connections'[g])
  <2>1. CASE UNCHANGED outbox
    BY <1>1, <1>9, <2>1 DEF ClientHandler, emitDataReceived, Elsewhere
  <2>2. CASE ~UNCHANGED outbox
    <3>1. PICK h \in Handles :
            /\ dataReceivedSignal[id] = h
            /\ con_send(h, Data(id, received[id]))
            /\ m_connections' = m_connections
      BY <1>9, <2>2 DEF ClientHandler, emitDataReceived, Elsewhere
    <3>2. id \in m_connections[h]
      BY <3>1 DEF IInv, FeedsOfLiveSessions, Feeds
    <3>3. Data(id, received[id]).id = id
      BY DEF Data
    <3> QED
      BY <1>a, <3>1, <3>2, <3>3, con_sendData
  <2> QED
    BY <2>1, <2>2
<1>10. ASSUME NEW h \in Handles, NEW id \in Ids, Task(h, id)
       PROVE  DataOf(outbox'[g], m_connections'[g])
  BY <1>1, <1>10 DEF Task, sendMessages_lock, sendMessages_install
<1>11. CASE UNCHANGED vars
  BY <1>1, <1>11 DEF vars
<1>12. ASSUME NEW h \in Handles, onMessage_throws(h)
       PROVE  DataOf(outbox'[g], m_connections'[g])
  BY <1>1, <1>12 DEF onMessage_throws
<1> QED
  BY <1>2, <1>3, <1>4, <1>5, <1>6, <1>7, <1>8, <1>9, <1>10, <1>11, <1>12
  DEF Next, Handler, Dispatch

-----------------------------------------------------------------------------
(***************************************************************************)
(* The theorems.                                                           *)
(***************************************************************************)
(* The parts of the invariant hold initially,                              *)
LEMMA InitIInv == Init => IInv
<1> SUFFICES ASSUME Init PROVE IInv
  OBVIOUS
<1> USE EndPointAssumption, WsServerAssumption, AggregatorAssumption
    DEF Init, EndPointInit, WsServerInit, Ids, NoId, Idle
<1>1. TypeOK
  BY InitTypeOK
<1>2. OpenTracked
  BY DEF OpenTracked
<1>3. CrashExplained
  BY DEF CrashExplained
<1>4. FeedsGoToAsker
  BY DEF FeedsGoToAsker
<1>5. ConnectionsListed
  BY DEF ConnectionsListed
<1>6. ClientThreadInHandler
  BY DEF ClientThreadInHandler
<1>7. ServerThreadServes
  BY DEF ServerThreadServes
<1>8. FeedsOfLiveSessions
  BY DEF FeedsOfLiveSessions, Feeds
<1> QED
  BY <1>1, <1>2, <1>3, <1>4, <1>5, <1>6, <1>7, <1>8 DEF IInv

(* and every step keeps them.  FeedsGoToAsker uses its neighbour's new     *)
(* value.                                                                  *)
LEMMA IInvStep == IInv /\ [Next]_vars => IInv'
<1> SUFFICES ASSUME IInv, [Next]_vars PROVE IInv'
  OBVIOUS
<1>1. TypeOK'
  BY TypeStep DEF IInv
<1>2. FeedsOfLiveSessions'
  BY <1>1, FeedsOfLiveSessionsStep
<1>3. /\ OpenTracked' /\ CrashExplained' /\ FeedsGoToAsker'
      /\ ConnectionsListed' /\ ClientThreadInHandler' /\ ServerThreadServes'
  BY <1>1, <1>2, OpenTrackedStep, CrashExplainedStep, FeedsGoToAskerStep,
     ConnectionsListedStep, ClientThreadInHandlerStep, ServerThreadServesStep
<1> QED
  BY <1>1, <1>2, <1>3 DEF IInv

(* The whole inductive invariant holds of every reachable state.           *)
THEOREM Invariance == Spec => []IInv
  BY InitIInv, IInvStep, PTL DEF Spec

(* However handlers, polls and closes interleave, no open connection is    *)
(* lost from the lists that the next clear works from.                     *)
THEOREM OpenConnectionsTracked == Spec => []OpenTracked
<1>1. IInv => OpenTracked
  BY DEF IInv
<1> QED
  BY <1>1, Invariance, PTL

(* The slot of an open connection never holds an expired hdl.              *)
THEOREM SlotsOfOpenConnectionsAlive == Spec => []OpenSlotsAlive
<1>1. IInv => OpenSlotsAlive
  BY SlotsAlive DEF IInv
<1> QED
  BY <1>1, Invariance, PTL

(* The process ends by an exception only over a malformed text, or in the  *)
(* window between the state check of a data frame and its slot, during the *)
(* clear of its session: a frame of an open connection always finds the    *)
(* session that it is for.                                                 *)
THEOREM CrashesExplained == Spec => []CrashExplained
<1>1. IInv => CrashExplained
  BY DEF IInv
<1> QED
  BY <1>1, Invariance, PTL

(* A session only ever gets the data of providers it asked for.            *)
THEOREM NoForeignData == Spec => []FeedsGoToAsker
<1>1. IInv => FeedsGoToAsker
  BY DEF IInv
<1> QED
  BY <1>1, Invariance, PTL

(* "procceed" is answered only once nothing is open and no attempt is      *)
(* under way, for any number of sessions.                                  *)
THEOREM ClearCloses == Spec => ProcceedAfterClose
<1> DEFINE Closes ==
      serverThread = "clearing" /\ serverThread' = "loop" =>
        \A id \in Ids : m_state[id] \notin {"connecting", "open"}
<1>1. IInv /\ [Next]_vars => [Closes]_vars
  <2> SUFFICES ASSUME IInv, Next, serverThread = "clearing", serverThread' = "loop"
               PROVE  \A id \in Ids : m_state[id] \notin {"connecting", "open"}
    OBVIOUS
  <2>1. toClose = {}
    <3>1. CASE handle_clear_provider_done
      BY <3>1 DEF handle_clear_provider_done
    <3>2. CASE handle_add_provider_opened \/ handle_clear_provider_close
               \/ handle_clear_provider_fails
      BY <3>2 DEF handle_add_provider_opened, handle_clear_provider_close,
                  handle_clear_provider_fails
    <3>3. ASSUME NEW h \in Handles,
                 Consumer(h) \/ onConnection(h) \/ Dispatch(h) \/ io_write(h)
          PROVE  FALSE
      BY <3>3 DEF Consumer, onConnection, Dispatch, onMessage,
                  onMessage_throws, io_close_frame, onCloseConnection, io_write
    <3>4. ASSUME NEW id \in Ids,
                 Connected(id) \/ Closed(id) \/ ClientHandler(id) \/ Host(id)
          PROVE  FALSE
      BY <3>4 DEF Connected, Closed, ClientHandler, Host, Elsewhere,
                  emitDataReceived
    <3>5. ASSUME NEW h \in Handles, NEW id \in Ids, Task(h, id)
          PROVE  FALSE
      BY <3>5 DEF Task, sendMessages_lock, sendMessages_install
    <3> QED
      BY <3>1, <3>2, <3>3, <3>4, <3>5 DEF Next, Handler
  <2> QED
    BY <2>1 DEF IInv, OpenTracked
<1> QED
  BY <1>1, Invariance, PTL DEF Spec, ProcceedAfterClose
=============================================================================
