------------------------- MODULE BroadcasterProofs -------------------------
(***************************************************************************)
(* What is proved of Broadcaster for every number of sessions, requests,   *)
(* aggregators, connections, subscriptions and frames.                     *)
(***************************************************************************)
EXTENDS Broadcaster, WellFoundedInduction, TLAPS

(***************************************************************************)
(* The loops over m_ids and m_connection_list find a next id.              *)
(***************************************************************************)
LEMMA LeastExists ==
    ASSUME NEW S, S # {}, \A i \in S : i \in Int /\ i >= -1
    PROVE  \E x \in S : \A y \in S : x <= y
<1> DEFINE T == {i + 1 : i \in S}
<1>1. T \subseteq Nat /\ T # {}
  <2>1. \A i \in S : i + 1 \in Nat
    OBVIOUS
  <2> QED
    BY <2>1
<1>2. PICK t \in T : \A u \in T : ~(<<u, t>> \in OpToRel(<, Nat))
  <2> HIDE DEF T
  <2> QED
    BY <1>1, NatLessThanWellFounded, WFMin
<1>3. \A u \in T : ~(u < t)
  BY <1>1, <1>2 DEF OpToRel
<1>4. PICK x \in S : t = x + 1
  OBVIOUS
<1>5. \A y \in S : x <= y
  <2> SUFFICES ASSUME NEW y \in S PROVE x <= y
    OBVIOUS
  <2>1. ~(y + 1 < x + 1)
    BY <1>3, <1>4
  <2>2. x \in Int /\ y \in Int
    OBVIOUS
  <2> HIDE DEF T
  <2> QED
    BY <2>1, <2>2
<1> QED
  BY <1>4, <1>5

LEMMA LeastChosen ==
    ASSUME NEW ids \in SUBSET (Ids \cup {NoId}), ids # {}
    PROVE  (CHOOSE x \in ids : \A other \in ids : x <= other) \in ids
<1>1. \A i \in ids : i \in Int /\ i >= -1
  BY EndPointAssumption DEF Ids, NoId
<1>2. \E x \in ids : \A other \in ids : x <= other
  BY <1>1, LeastExists
<1> QED
  BY <1>2

LEMMA NextRemainingListed ==
    ASSUME TypeOK, remaining # {}
    PROVE  NextRemaining \in remaining
  BY LeastChosen DEF TypeOK, NextRemaining

(***************************************************************************)
(* What the operations of WsServer and of the task list keep.              *)
(***************************************************************************)
LEMMA con_sendType ==
    ASSUME outbox \in [Handles -> Seq(Messages)],
           NEW h \in Handles, NEW m \in Messages, con_send(h, m)
    PROVE  outbox' \in [Handles -> Seq(Messages)]
  BY DEF con_send

LEMMA FrameType ==
    ASSUME TypeOK, NEW id \in Ids
    PROVE  /\ Frame(id) \in Frames
           /\ [frame |-> Frame(id)] \in Messages
           /\ [batch |-> m_broadcastArray] \in Messages
           /\ Processed \in Messages
  BY DEF TypeOK, EndPointTypeOK, Frame, Frames, Messages

(* What disconnect() leaves unread is a sequence of frames again.          *)
LEMMA LastUnread ==
    ASSUME NEW Unread, NEW last \in Unread, NEW unread \in Seq(Unread)
    PROVE  Append(unread, last) \in Seq(Unread) /\ <<last>> \in Seq(Unread)
  OBVIOUS

LEMMA ConsumerType ==
    ASSUME TypeOK, NEW h \in Handles, Consumer(h)
    PROVE  /\ inbox' \in [Handles -> Seq(Requests \cup {CloseFrame, Eof})]
           /\ requests' \in 0..MaxRequests
           /\ UNCHANGED <<session, outbox>>
           /\ UNCHANGED Unserved
<1> USE WsServerAssumption DEF TypeOK, WsServerTypeOK
<1>1. CASE disconnect(h)
  <2>1. PICK unread \in {Append(inbox[h], CloseFrame), Append(inbox[h], Eof), <<Eof>>} :
          inbox' = [inbox EXCEPT ![h] = unread]
    BY <1>1 DEF disconnect
  <2>2. unread \in Seq(Requests \cup {CloseFrame, Eof})
    <3>1. /\ inbox[h] \in Seq(Requests \cup {CloseFrame, Eof})
          /\ CloseFrame \in Requests \cup {CloseFrame, Eof}
          /\ Eof \in Requests \cup {CloseFrame, Eof}
      OBVIOUS
    <3>2. /\ Append(inbox[h], CloseFrame) \in Seq(Requests \cup {CloseFrame, Eof})
          /\ Append(inbox[h], Eof) \in Seq(Requests \cup {CloseFrame, Eof})
          /\ <<Eof>> \in Seq(Requests \cup {CloseFrame, Eof})
      BY <3>1, LastUnread
    <3> QED
      BY <3>2
  <2> QED
    BY <1>1, <2>1, <2>2 DEF disconnect, Consumer
<1>2. ASSUME NEW request \in Requests, sendRequest(h, request)
      PROVE  /\ inbox' \in [Handles -> Seq(Requests \cup {CloseFrame, Eof})]
             /\ requests' \in 0..MaxRequests
             /\ UNCHANGED <<session, outbox>>
  BY <1>2 DEF sendRequest
<1> QED
  BY <1>1, <1>2 DEF Consumer

(* A new task is starting, and the others are as they were.                *)
LEMMA TasksAppended ==
    ASSUME TypeOK, NEW slots \in Seq(Slots), subscribeMessages(slots)
    PROVE  /\ m_sendFutures' \in Seq(Tasks)
           /\ \A i \in DOMAIN m_sendFutures' :
                \/ i \in DOMAIN m_sendFutures /\ m_sendFutures'[i] = m_sendFutures[i]
                \/ \E j \in DOMAIN slots :
                      m_sendFutures'[i] = Task(slots[j], "starting", {})
<1> DEFINE new == [i \in DOMAIN slots |-> Task(slots[i], "starting", {})]
<1>1. \A s \in Slots : Task(s, "starting", {}) \in Tasks
  BY DEF Task, Tasks
<1>2. DOMAIN slots = 1..Len(slots) /\ Len(slots) \in Nat
  OBVIOUS
<1>3. new \in Seq(Tasks) /\ Len(new) = Len(slots) /\ DOMAIN new = DOMAIN slots
  BY <1>1, <1>2
<1>4. /\ m_sendFutures \in Seq(Tasks)
      /\ m_sendFutures' = m_sendFutures \o new
  BY DEF TypeOK, subscribeMessages
<1>5. \A j \in DOMAIN slots : new[j] = Task(slots[j], "starting", {})
  OBVIOUS
<1> HIDE DEF new
<1>6. m_sendFutures' \in Seq(Tasks)
  BY <1>3, <1>4
<1>7. ASSUME NEW i \in DOMAIN m_sendFutures'
      PROVE  \/ i \in DOMAIN m_sendFutures /\ m_sendFutures'[i] = m_sendFutures[i]
             \/ \E j \in DOMAIN slots : m_sendFutures'[i] = new[j]
  BY <1>3, <1>4, <1>7
<1> QED
  BY <1>5, <1>6, <1>7

(***************************************************************************)
(* What a request begins: the connection to a host, a loop over the listed *)
(* connections, or tasks that install slots.                               *)
(***************************************************************************)
Connects ==
    /\ m_next_id \in Ids
    /\ m_next_id' = m_next_id + 1
    /\ \E uri \in Hosts : m_uri' = [m_uri EXCEPT ![m_next_id] = uri]
    /\ m_state' = [m_state EXCEPT ![m_next_id] = "connecting"]
    /\ m_status' = [m_status EXCEPT ![m_next_id] = "Connecting"]
    /\ UNCHANGED <<dataReceivedSignal, received, clientThread>>

AddBegun(h) ==
    /\ serverThread' = "adding" /\ serving' = h
    /\ clientId' \in Ids \cup {NoId}
    /\ UNCHANGED endPointVars \/ Connects
    /\ UNCHANGED <<remaining, endpointListVars, m_sendFutures, m_clearedPrices>>

LoopBegun(h) ==
    /\ serverThread' \in Forwarded \cup {"closing-aggregators"} /\ serving' = h
    /\ remaining' = m_ids
    /\ UNCHANGED <<endPointVars, clientId, endpointListVars, m_sendFutures,
                   m_clearedPrices>>

Subscribed(h) ==
    /\ m_sendFutures' \in Seq(Tasks)
    /\ \A i \in DOMAIN m_sendFutures' :
          \/ i \in DOMAIN m_sendFutures /\ m_sendFutures'[i] = m_sendFutures[i]
          \/ /\ m_sendFutures'[i].at = "starting"
             /\ m_sendFutures'[i].slot.hdl = h
    /\ UNCHANGED <<endPointVars, serverVars, endpointListVars, m_clearedPrices>>

LEMMA ConnectCases ==
    ASSUME TypeOK, NEW uri, NEW id, connect(uri, id)
    PROVE  UNCHANGED endPointVars \/ (id = m_next_id /\ Connects)
  BY EndPointAssumption DEF connect, Connects, Ids, NoId, TypeOK, EndPointTypeOK

LEMMA ConnectsType == ASSUME TypeOK, Connects PROVE EndPointTypeOK'
  BY EndPointAssumption
  DEF Connects, TypeOK, EndPointTypeOK, Ids, States, Statuses, Idle

LEMMA SubscribedCase ==
    ASSUME TypeOK, NEW h \in Handles, NEW slots \in Seq(Slots),
           \A j \in DOMAIN slots : slots[j].hdl = h,
           subscribeMessages(slots)
    PROVE  Subscribed(h)
<1>1. /\ m_sendFutures' \in Seq(Tasks)
      /\ \A i \in DOMAIN m_sendFutures' :
            \/ i \in DOMAIN m_sendFutures /\ m_sendFutures'[i] = m_sendFutures[i]
            \/ \E j \in DOMAIN slots :
                  m_sendFutures'[i] = Task(slots[j], "starting", {})
  BY TasksAppended
<1> QED
  BY <1>1 DEF Subscribed, subscribeMessages, Task

LEMMA onMessageCases ==
    ASSUME TypeOK, NEW h \in Handles, on_message_request(h)
    PROVE  /\ serverThread = "loop" /\ session[h] = "open"
           /\ inbox' \in [Handles -> Seq(Requests \cup {CloseFrame, Eof})]
           /\ UNCHANGED <<session, outbox, requests, m_broadcastArray, slot, crashed>>
           /\ AddBegun(h) \/ LoopBegun(h) \/ Subscribed(h)
<1> DEFINE request == Head(inbox[h])
<1>1. /\ serverThread = "loop" /\ session[h] = "open"
      /\ UNCHANGED <<session, outbox, requests, m_broadcastArray, slot, crashed>>
  BY DEF on_message_request, takeRequest
<1>2. inbox' \in [Handles -> Seq(Requests \cup {CloseFrame, Eof})]
  BY DEF on_message_request, takeRequest, TypeOK, WsServerTypeOK
<1>3. request \in Requests
  <2>1. inbox[h] \in Seq(Requests \cup {CloseFrame, Eof}) /\ inbox[h] # <<>>
        /\ request \notin {CloseFrame, Eof}
    BY DEF on_message_request, takeRequest, TypeOK, WsServerTypeOK
  <2> QED
    BY <2>1
<1>4. ASSUME handle_add_aggregator(h, request.host) PROVE AddBegun(h)
  <2>1. PICK id \in Ids \cup {NoId} :
          /\ connect(request.host, id)
          /\ clientId' = id
          /\ serving' = h
          /\ serverThread' = "adding"
          /\ UNCHANGED <<remaining, endpointListVars, m_sendFutures, m_clearedPrices>>
    BY <1>4 DEF handle_add_aggregator
  <2> QED
    BY <2>1, ConnectCases DEF AddBegun
<1>5. ASSUME handle_clear_aggregator(h) PROVE LoopBegun(h)
  BY <1>5 DEF handle_clear_aggregator, LoopBegun
<1>6. ASSUME forward(h, request.action), request.action \in Forwarded
      PROVE  LoopBegun(h)
  BY <1>6 DEF forward, LoopBegun
<1>7. ASSUME request.action = "subscribe",
             subscribeMessages(<<[hdl |-> h, channel |-> request.channel]>>)
      PROVE  Subscribed(h)
  <2>1. request.channel \in Channels
    BY <1>3, <1>7 DEF Requests
  <2>2. <<[hdl |-> h, channel |-> request.channel]>> \in Seq(Slots)
    BY <2>1, BroadcasterAssumption
  <2>3. \A j \in DOMAIN <<[hdl |-> h, channel |-> request.channel]>> :
           <<[hdl |-> h, channel |-> request.channel]>>[j].hdl = h
    OBVIOUS
  <2> QED
    BY <1>7, <2>2, <2>3, SubscribedCase
<1>8. ASSUME NEW s, s = [hdl |-> h, channel |-> "other"],
             subscribeMessages(<<s, s>>)
      PROVE  Subscribed(h)
  <2>1. s \in Slots
    BY <1>8, BroadcasterAssumption
  <2>2. <<s, s>> \in Seq(Slots)
    BY <2>1
  <2>3. \A j \in DOMAIN <<s, s>> : <<s, s>>[j].hdl = h
    BY <1>8
  <2> QED
    BY <1>8, <2>2, <2>3, SubscribedCase
<1> HIDE DEF request
<1> QED
  BY <1>1, <1>2, <1>4, <1>5, <1>6, <1>7, <1>8 DEF on_message_request, request

-----------------------------------------------------------------------------
(***************************************************************************)
(* Types.  No array of the slots ever holds a third frame, and the -1 of a *)
(* host that does not parse is listed but never a key of anything.         *)
(***************************************************************************)
LEMMA InitTypeOK == Init => TypeOK
<1> SUFFICES ASSUME Init PROVE TypeOK
  OBVIOUS
<1>1. EndPointTypeOK
  BY EndPointAssumption
  DEF Init, EndPointInit, EndPointTypeOK, States, Statuses
<1>2. WsServerTypeOK(Requests, Messages)
  BY WsServerAssumption
  DEF Init, WsServerInit, WsServerTypeOK, SessionStates
<1>3. upstream \in [Ids -> Seq(Forwarded)]
  BY DEF Init
<1>4. m_sendFutures \in Seq(Tasks)
  BY DEF Init
<1>5. m_broadcastArray \in Seq(Frames) /\ Len(m_broadcastArray) <= 2
  BY DEF Init
<1> QED
  BY <1>1, <1>2, <1>3, <1>4, <1>5 DEF Init, TypeOK

(* A task list that is changed at one place, or everywhere alike.          *)
LEMMA setTaskType ==
    ASSUME TypeOK, NEW i \in DOMAIN m_sendFutures, NEW task \in Tasks,
           setTask(i, task)
    PROVE  /\ m_sendFutures' \in Seq(Tasks)
           /\ DOMAIN m_sendFutures' = DOMAIN m_sendFutures
           /\ m_sendFutures'[i] = task
           /\ \A j \in DOMAIN m_sendFutures \ {i} :
                 m_sendFutures'[j] = m_sendFutures[j]
  BY DEF TypeOK, setTask

LEMMA TasksMarked ==
    ASSUME TypeOK, NEW marked,
           marked = [i \in DOMAIN m_sendFutures |->
                        IF m_sendFutures[i].at = "installing"
                        THEN [m_sendFutures[i] EXCEPT !.at = "dangling"]
                        ELSE m_sendFutures[i]]
    PROVE  marked \in Seq(Tasks)
<1>1. /\ DOMAIN m_sendFutures = 1..Len(m_sendFutures)
      /\ Len(m_sendFutures) \in Nat
      /\ \A i \in DOMAIN m_sendFutures : m_sendFutures[i] \in Tasks
  BY DEF TypeOK
<1>2. ASSUME NEW task \in Tasks, task.at = "installing"
      PROVE  [task EXCEPT !.at = "dangling"] \in Tasks
  BY <1>2 DEF Tasks, Ended
<1>3. \A i \in DOMAIN m_sendFutures : marked[i] \in Tasks
  BY <1>1, <1>2
<1> QED
  BY <1>1, <1>3

LEMMA TasksEmptied ==
    ASSUME TypeOK, NEW emptied,
           emptied = [i \in DOMAIN m_sendFutures |->
                         IF m_sendFutures[i].at = "dangling"
                         THEN [m_sendFutures[i] EXCEPT !.ids = {}]
                         ELSE m_sendFutures[i]]
    PROVE  emptied \in Seq(Tasks)
<1>1. /\ DOMAIN m_sendFutures = 1..Len(m_sendFutures)
      /\ Len(m_sendFutures) \in Nat
      /\ \A i \in DOMAIN m_sendFutures : m_sendFutures[i] \in Tasks
  BY DEF TypeOK
<1>2. ASSUME NEW task \in Tasks, task.at = "dangling"
      PROVE  [task EXCEPT !.ids = {}] \in Tasks
  BY <1>2 DEF Tasks, Ended
<1>3. \A i \in DOMAIN m_sendFutures : emptied[i] \in Tasks
  BY <1>1, <1>2
<1> QED
  BY <1>1, <1>3

LEMMA TaskFields ==
    ASSUME TypeOK, NEW i \in DOMAIN m_sendFutures, m_sendFutures[i].at # "ended"
    PROVE  /\ m_sendFutures[i].slot \in Slots
           /\ m_sendFutures[i].at \in {"starting", "installing", "dangling"}
           /\ m_sendFutures[i].ids \in SUBSET (Ids \cup {NoId})
<1>1. m_sendFutures[i] \in Tasks
  BY DEF TypeOK
<1> QED
  BY <1>1 DEF Tasks, Ended

LEMMA TaskType ==
    ASSUME NEW s \in Slots, NEW at \in {"starting", "installing", "dangling"},
           NEW ids \in SUBSET (Ids \cup {NoId})
    PROVE  Task(s, at, ids) \in Tasks /\ Ended \in Tasks
  BY DEF Task, Tasks, Ended

(* A slot that runs has what it needs, and a replaced one still does.      *)
LEMMA SlotFields ==
    ASSUME TypeOK, slot # NotRunning
    PROVE  /\ slot.of \in Slots /\ slot.of.hdl \in Handles
           /\ slot.at \in {"posting", "sleeping"}
           /\ slot.freed \in BOOLEAN
           /\ [slot EXCEPT !.freed = TRUE] \in Running
  BY BroadcasterAssumption DEF TypeOK, Running

LEMMA installType ==
    ASSUME TypeOK, NEW id \in Ids, NEW s \in Slots, install(id, s)
    PROVE  EndPointTypeOK' /\ slot' \in {NotRunning} \cup Running
<1>1. EndPointTypeOK'
  BY EndPointAssumption
  DEF install, onDataReceived, TypeOK, EndPointTypeOK, Ids, States, Statuses, Idle
<1>2. slot' \in {NotRunning} \cup Running
  BY SlotFields DEF install, TypeOK
<1> QED
  BY <1>1, <1>2

LEMMA appendType ==
    ASSUME TypeOK, Len(m_broadcastArray) # 2, NEW id \in Ids, NEW s \in Slots,
           NEW freed \in BOOLEAN, append(id, s, freed)
    PROVE  /\ m_broadcastArray' \in Seq(Frames) /\ Len(m_broadcastArray') <= 2
           /\ slot' \in Running
           /\ UNCHANGED <<clientThread, outbox>>
           /\ slot' # NotRunning /\ slot'.at = "sleeping"
<1>1. /\ m_broadcastArray \in Seq(Frames) /\ Len(m_broadcastArray) <= 2
      /\ Len(m_broadcastArray) \in Nat
  BY DEF TypeOK
<1>2. Frame(id) \in Frames
  BY FrameType
<1>3. m_broadcastArray' \in Seq(Frames) /\ Len(m_broadcastArray') <= 2
  <2>1. m_broadcastArray' = Append(m_broadcastArray, Frame(id))
    BY DEF append
  <2>2. Append(m_broadcastArray, Frame(id)) \in Seq(Frames)
    BY <1>1, <1>2
  <2>3. Len(Append(m_broadcastArray, Frame(id))) = Len(m_broadcastArray) + 1
    BY <1>1
  <2>4. Len(m_broadcastArray) + 1 <= 2
    <3>1. \A n \in Nat : n <= 2 /\ n # 2 => n + 1 <= 2
      OBVIOUS
    <3> QED
      BY <1>1, <3>1
  <2>5. m_broadcastArray' \in Seq(Frames)
    BY <2>1, <2>2
  <2>6. Len(m_broadcastArray') = Len(m_broadcastArray) + 1
    BY <2>1, <2>3
  <2> QED
    BY <2>4, <2>5, <2>6
<1>4. /\ slot' \in Running
      /\ slot'.at = "sleeping"
  BY DEF append, Running
<1>5. slot' # NotRunning
  BY <1>4 DEF NotRunning
<1> QED
  BY <1>3, <1>4, <1>5 DEF append

LEMMA TypeStep ==
    ASSUME TypeOK, ArrayDrained, [Next]_vars
    PROVE  TypeOK' /\ ArrayDrained'
<1> USE EndPointAssumption, WsServerAssumption
    DEF ArrayDrained, endPointVars, wsServerVars, serverVars, endpointListVars,
        slotVars
<1>0. /\ EndPointTypeOK /\ WsServerTypeOK(Requests, Messages)
      /\ serving \in Handles \cup {NoHandle}
      /\ clientId \in Ids \cup {NoId} /\ remaining \subseteq Ids \cup {NoId}
      /\ m_ids \subseteq Ids \cup {NoId}
      /\ session \in [Handles -> SessionStates]
      /\ inbox \in [Handles -> Seq(Requests \cup {CloseFrame, Eof})]
      /\ outbox \in [Handles -> Seq(Messages)]
      /\ m_next_id \in 0..MaxConnections
  BY DEF TypeOK, EndPointTypeOK, WsServerTypeOK
<1>1. CASE UNCHANGED vars
  BY <1>1 DEF vars, TypeOK, EndPointTypeOK, WsServerTypeOK
<1>2. CASE handle_add_aggregator_done
  <2>1. serving \in Handles
    BY <1>2 DEF handle_add_aggregator_done, TypeOK
  <2>2. outbox' \in [Handles -> Seq(Messages)]
    BY <1>0, <1>2, <2>1, con_sendType DEF handle_add_aggregator_done, Messages
  <2>3. EndPointTypeOK'
    <3>1. UNCHANGED endPointVars \/ connect(m_uri[clientId], m_next_id)
      BY <1>2 DEF handle_add_aggregator_done
    <3>2. UNCHANGED endPointVars \/ Connects
      BY <3>1, ConnectCases
    <3>3. CASE UNCHANGED endPointVars
      BY <1>0, <3>3 DEF EndPointTypeOK
    <3> QED
      BY <3>2, <3>3, ConnectsType
  <2> QED
    BY <1>0, <1>2, <2>2, <2>3
    DEF handle_add_aggregator_done, returnToLoop, TypeOK, WsServerTypeOK
<1>3. CASE forward_send
  <2>1. upstream \in [Ids -> Seq(Forwarded)] /\ serverThread \in Forwarded
    BY <1>3 DEF forward_send, TypeOK
  <2>2. ASSUME NEW id \in Ids
        PROVE  [upstream EXCEPT ![id] = Append(@, serverThread)]
               \in [Ids -> Seq(Forwarded)]
    BY <2>1
  <2>3. 0..(m_next_id - 1) \subseteq Ids
    BY <1>0 DEF Ids
  <2>4. upstream' \in [Ids -> Seq(Forwarded)]
    BY <1>3, <2>1, <2>2, <2>3 DEF forward_send, send
  <2> QED
    BY <1>3, <2>4 DEF forward_send, TypeOK, EndPointTypeOK, WsServerTypeOK
<1>4. CASE forward_done
  BY <1>4 DEF forward_done, returnToLoop, TypeOK, EndPointTypeOK, WsServerTypeOK
<1>5. CASE handle_clear_aggregator_skip
  BY <1>5 DEF handle_clear_aggregator_skip, TypeOK, EndPointTypeOK, WsServerTypeOK
<1>6. CASE handle_clear_aggregator_wait
  BY <1>6 DEF handle_clear_aggregator_wait, TypeOK, EndPointTypeOK, WsServerTypeOK
<1>7. CASE handle_clear_aggregator_closed
  <2>1. serving \in Handles
    BY <1>7 DEF handle_clear_aggregator_closed, TypeOK
  <2>2. outbox' \in [Handles -> Seq(Messages)]
    BY <1>0, <1>7, <2>1, con_sendType DEF handle_clear_aggregator_closed, Messages
  <2>3. EndPointTypeOK'
    BY <1>0, <1>7
    DEF handle_clear_aggregator_closed, close, EndPointTypeOK, States, Ids, Idle
  <2>4. m_sendFutures' \in Seq(Tasks)
    BY <1>7, TasksMarked DEF handle_clear_aggregator_closed
  <2>5. remaining' \subseteq Ids \cup {NoId}
    BY <1>0, <1>7 DEF handle_clear_aggregator_closed, Ids
  <2> QED
    BY <1>0, <1>7, <2>1, <2>2, <2>3, <2>4, <2>5
    DEF handle_clear_aggregator_closed, TypeOK, WsServerTypeOK
<1>8. CASE destroy_close
  <2>1. EndPointTypeOK'
    BY <1>0, <1>8 DEF destroy_close, close, EndPointTypeOK, States, Ids, Idle
  <2> QED
    BY <1>8, <2>1 DEF destroy_close, TypeOK, WsServerTypeOK
<1>9. CASE destroy_join
  <2>1. EndPointTypeOK'
    BY <1>0, <1>9 DEF destroy_join, EndPointTypeOK, States, Statuses, Ids, Idle
  <2>2. m_sendFutures' \in Seq(Tasks)
    BY <1>9, TasksEmptied DEF destroy_join
  <2>3. upstream' \in [Ids -> Seq(Forwarded)]
    BY <1>9 DEF destroy_join
  <2> QED
    BY <1>9, <2>1, <2>2, <2>3 DEF destroy_join, returnToLoop, TypeOK, WsServerTypeOK
<1>10. CASE on_close_Connection_done
  <2>1. session' \in [Handles -> SessionStates]
    BY <1>0, <1>10 DEF on_close_Connection_done, release, SessionStates
  <2> QED
    BY <1>10, <2>1
    DEF on_close_Connection_done, returnToLoop, TypeOK, EndPointTypeOK, WsServerTypeOK
<1>11. ASSUME NEW h \in Handles, Consumer(h) PROVE TypeOK' /\ ArrayDrained'
  BY <1>0, <1>11, ConsumerType DEF Unserved, TypeOK, EndPointTypeOK, WsServerTypeOK
<1>12. ASSUME NEW h \in Handles, on_connection(h) PROVE TypeOK' /\ ArrayDrained'
  <2>1. session' \in [Handles -> SessionStates]
    BY <1>0, <1>12 DEF on_connection, accept, SessionStates
  <2> QED
    BY <1>12, <2>1
    DEF on_connection, accept, Unserved, TypeOK, EndPointTypeOK, WsServerTypeOK
<1>13. ASSUME NEW h \in Handles, on_message_request(h)
       PROVE  TypeOK' /\ ArrayDrained'
  <2>1. /\ inbox' \in [Handles -> Seq(Requests \cup {CloseFrame, Eof})]
        /\ UNCHANGED <<session, outbox, requests, m_broadcastArray, slot, crashed>>
        /\ AddBegun(h) \/ LoopBegun(h) \/ Subscribed(h)
    BY <1>13, onMessageCases
  <2>2. CASE AddBegun(h)
    <3>1. EndPointTypeOK'
      <4>1. CASE UNCHANGED endPointVars
        BY <1>0, <4>1 DEF EndPointTypeOK
      <4> QED
        BY <2>2, <4>1, ConnectsType DEF AddBegun
    <3> QED
      BY <2>1, <2>2, <3>1 DEF AddBegun, TypeOK, WsServerTypeOK
  <2>3. CASE LoopBegun(h)
    BY <2>1, <2>3 DEF LoopBegun, Forwarded, TypeOK, EndPointTypeOK, WsServerTypeOK
  <2>4. CASE Subscribed(h)
    BY <2>1, <2>4 DEF Subscribed, TypeOK, EndPointTypeOK, WsServerTypeOK
  <2> QED
    BY <2>1, <2>2, <2>3, <2>4
<1>14. ASSUME NEW h \in Handles, io_close_frame(h) PROVE TypeOK' /\ ArrayDrained'
  <2>1. session' \in [Handles -> SessionStates]
    BY <1>0, <1>14 DEF io_close_frame, process_close_frame, SessionStates
  <2> QED
    BY <1>14, <2>1
    DEF io_close_frame, process_close_frame, Unserved, TypeOK, EndPointTypeOK,
        WsServerTypeOK
<1>15. ASSUME NEW h \in Handles, on_close_Connection(h)
       PROVE  TypeOK' /\ ArrayDrained'
  <2>1. /\ inbox' \in [Handles -> Seq(Requests \cup {CloseFrame, Eof})]
        /\ outbox' \in [Handles -> Seq(Messages)]
        /\ session' \in [Handles -> SessionStates]
    BY <1>0, <1>15 DEF on_close_Connection, terminate, SessionStates
  <2> QED
    BY <1>15, <2>1
    DEF on_close_Connection, terminate, TypeOK, EndPointTypeOK, WsServerTypeOK
<1>16. ASSUME NEW h \in Handles, io_write(h) PROVE TypeOK' /\ ArrayDrained'
  <2>1. outbox' \in [Handles -> Seq(Messages)]
    BY <1>0, <1>16 DEF io_write, write_frame
  <2> QED
    BY <1>16, <2>1
    DEF io_write, write_frame, Unserved, TypeOK, EndPointTypeOK, WsServerTypeOK
<1>17. ASSUME NEW id \in Ids, UNCHANGED Elsewhere,
              \/ handle_read_http_response(id) \/ on_fail(id)
              \/ on_open(id) \/ on_open_default(id)
              \/ on_close(id) \/ peer_close(id)
              \/ on_message(id) \/ on_malformed(id)
       PROVE  TypeOK' /\ ArrayDrained'
  <2>a. ASSUME on_open(id) PROVE EndPointTypeOK'
    BY <1>0, <2>a DEF on_open, EndPointTypeOK, States, Statuses, Ids, Idle
  <2>b. ASSUME on_fail(id) PROVE EndPointTypeOK'
    BY <1>0, <2>b DEF on_fail, EndPointTypeOK, States, Statuses, Ids, Idle
  <2>c. ASSUME on_open_default(id) PROVE EndPointTypeOK'
    BY <1>0, <2>c DEF on_open_default, EndPointTypeOK, States, Statuses, Ids, Idle
  <2>d. ASSUME on_close(id) PROVE EndPointTypeOK'
    BY <1>0, <2>d DEF on_close, EndPointTypeOK, States, Statuses, Ids, Idle
  <2>e. ASSUME peer_close(id) PROVE EndPointTypeOK'
    BY <1>0, <2>e DEF peer_close, EndPointTypeOK, States, Statuses, Ids, Idle
  <2>f. ASSUME on_message(id) PROVE EndPointTypeOK'
    BY <1>0, <2>f DEF on_message, EndPointTypeOK, States, Statuses, Ids, Idle
  <2>g. ASSUME handle_read_http_response(id) PROVE EndPointTypeOK'
    BY <1>0, <2>g
    DEF handle_read_http_response, EndPointTypeOK, States, Statuses, Ids, Idle
  <2>h. ASSUME on_malformed(id) PROVE EndPointTypeOK'
    BY <1>0, <2>h
    DEF on_malformed, endPointVarsButThread, EndPointTypeOK, Ids, Idle
  <2>1. EndPointTypeOK'
    BY <1>17, <2>a, <2>b, <2>c, <2>d, <2>e, <2>f, <2>g, <2>h
  <2> QED
    BY <1>17, <2>1 DEF Elsewhere, TypeOK, WsServerTypeOK
<1>18. ASSUME NEW id \in Ids, emitDataReceived(id) PROVE TypeOK' /\ ArrayDrained'
  <2>1. EndPointTypeOK'
    BY <1>0, <1>18
    DEF emitDataReceived, append, sendLatest, endCall, endPointVarsButThread,
        EndPointTypeOK, Idle
  <2>2. outbox' \in [Handles -> Seq(Messages)]
    BY <1>0, <1>18, FrameType, con_sendType, BroadcasterAssumption
    DEF emitDataReceived, append, sendLatest
  <2>3. Len(m_broadcastArray) # 2
    BY <1>18 DEF emitDataReceived
  <2>4. /\ m_broadcastArray' \in Seq(Frames) /\ Len(m_broadcastArray') <= 2
        /\ slot' \in {NotRunning} \cup Running
        /\ ArrayDrained'
    <3>1. CASE /\ m_broadcastArray' = m_broadcastArray
               /\ \/ slot' \in {NotRunning, slot}
                  \/ /\ dataReceivedSignal[id] \in Slots
                     /\ slot' = [of |-> dataReceivedSignal[id], at |-> "posting",
                                 freed |-> FALSE]
      <4>1. slot \in {NotRunning} \cup Running
        BY DEF TypeOK
      <4>2. ASSUME NEW s \in Slots
            PROVE  [of |-> s, at |-> "posting", freed |-> FALSE] \in Running
        BY DEF Running
      <4>3. slot' \in {NotRunning} \cup Running
        BY <3>1, <4>1, <4>2
      <4> QED
        BY <2>3, <3>1, <4>3 DEF TypeOK
    <3>2. ASSUME append(id, dataReceivedSignal[id], FALSE),
                 dataReceivedSignal[id] \in Slots
          PROVE  /\ m_broadcastArray' \in Seq(Frames) /\ Len(m_broadcastArray') <= 2
                 /\ slot' \in {NotRunning} \cup Running
                 /\ ArrayDrained'
      BY <2>3, <3>2, appendType
    <3> QED
      BY <1>18, <3>1, <3>2 DEF emitDataReceived, sendLatest, endCall
  <2> QED
    BY <1>18, <2>1, <2>2, <2>4 DEF emitDataReceived, TypeOK, WsServerTypeOK
<1>19. ASSUME NEW id \in Ids, emit_posted(id) PROVE TypeOK' /\ ArrayDrained'
  <2>1. EndPointTypeOK'
    BY <1>0, <1>19
    DEF emit_posted, append, sendLatest, endCall, endPointVarsButThread,
        EndPointTypeOK, Idle
  <2>2. slot # NotRunning /\ slot.at = "posting"
    BY <1>19 DEF emit_posted
  <2>3. /\ slot.of \in Slots /\ slot.of.hdl \in Handles /\ slot.freed \in BOOLEAN
        /\ Len(m_broadcastArray) # 2
    BY <2>2, SlotFields
  <2>4. outbox' \in [Handles -> Seq(Messages)]
    BY <1>0, <1>19, <2>3, FrameType, con_sendType
    DEF emit_posted, append, sendLatest
  <2>5. /\ m_broadcastArray' \in Seq(Frames) /\ Len(m_broadcastArray') <= 2
        /\ slot' \in {NotRunning} \cup Running
        /\ ArrayDrained'
    <3>1. CASE append(id, slot.of, slot.freed)
      BY <2>3, <3>1, appendType
    <3>2. CASE ~append(id, slot.of, slot.freed)
      BY <1>19, <2>3, <3>2 DEF emit_posted, sendLatest, endCall, TypeOK
    <3> QED
      BY <3>1, <3>2
  <2> QED
    BY <1>19, <2>1, <2>4, <2>5 DEF emit_posted, TypeOK, WsServerTypeOK
<1>20. ASSUME NEW id \in Ids, emit_batch(id) PROVE TypeOK' /\ ArrayDrained'
  <2>1. EndPointTypeOK'
    BY <1>0, <1>20
    DEF emit_batch, endCall, endPointVarsButThread, EndPointTypeOK, Idle
  <2>2. outbox' \in [Handles -> Seq(Messages)]
    BY <1>0, <1>20, FrameType, con_sendType, SlotFields DEF emit_batch
  <2>3. /\ m_broadcastArray' \in Seq(Frames) /\ Len(m_broadcastArray') <= 2
        /\ Len(m_broadcastArray') # 2
        /\ slot' = NotRunning
    <3>1. m_broadcastArray \in Seq(Frames) /\ Len(m_broadcastArray) <= 2
      BY DEF TypeOK
    <3>2. CASE Len(m_broadcastArray) = 2
      <4>1. m_broadcastArray' = <<>> /\ slot' = NotRunning
        BY <1>20, <3>2 DEF emit_batch, endCall
      <4> QED
        BY <4>1
    <3>3. CASE Len(m_broadcastArray) # 2
      BY <1>20, <3>1, <3>3 DEF emit_batch, endCall
    <3> QED
      BY <3>2, <3>3
  <2> QED
    BY <1>20, <2>1, <2>2, <2>3 DEF emit_batch, TypeOK, WsServerTypeOK
<1>21. ASSUME NEW id \in Ids, emit_freed(id) \/ on_message_throws(id)
       PROVE  TypeOK' /\ ArrayDrained'
  BY <1>21
  DEF emit_freed, on_message_throws, TypeOK, EndPointTypeOK, WsServerTypeOK
<1>22. ASSUME NEW i \in DOMAIN m_sendFutures, subscribe_start(i)
       PROVE  TypeOK' /\ ArrayDrained'
  <2>1. m_sendFutures[i].slot \in Slots
    BY <1>22, TaskFields DEF subscribe_start
  <2>2. m_sendFutures' \in Seq(Tasks)
    BY <1>0, <1>22, <2>1, TaskType, setTaskType DEF subscribe_start
  <2> QED
    BY <1>22, <2>2 DEF subscribe_start, TypeOK, EndPointTypeOK, WsServerTypeOK
<1>23. ASSUME NEW i \in DOMAIN m_sendFutures, subscribe_install(i)
       PROVE  TypeOK' /\ ArrayDrained'
  <2> DEFINE s == m_sendFutures[i].slot
             ids == m_sendFutures[i].ids
             id == CHOOSE x \in ids : \A other \in ids : x <= other
  <2>1. /\ s \in Slots /\ ids \in SUBSET (Ids \cup {NoId})
    BY <1>23, TaskFields DEF subscribe_install
  <2>2. CASE id = NoId /\ UNCHANGED <<endPointVars, m_sendFutures, slot>>
    BY <1>23, <2>2
    DEF subscribe_install, TypeOK, EndPointTypeOK, WsServerTypeOK
  <2>3. CASE id # NoId /\ install(id, s)
    <3>1. /\ setTask(i, IF ids = {id} THEN Ended
                        ELSE Task(s, "installing", ids \ {id}))
          /\ UNCHANGED crashed
      BY <1>23, <2>3 DEF subscribe_install
    <3>2. m_sendFutures' \in Seq(Tasks)
      <4> HIDE DEF s, ids, id
      <4>1. ids \ {id} \in SUBSET (Ids \cup {NoId})
        BY <2>1
      <4>2. (IF ids = {id} THEN Ended ELSE Task(s, "installing", ids \ {id}))
            \in Tasks
        BY <2>1, <4>1, TaskType
      <4> QED
        BY <3>1, <4>2, setTaskType
    <3>3. EndPointTypeOK' /\ slot' \in {NotRunning} \cup Running
      <4>1. EndPointTypeOK'
        <5> HIDE DEF s, ids, id
        <5> QED
          BY <1>0, <2>1, <2>3
          DEF install, onDataReceived, EndPointTypeOK, Ids, States, Statuses, Idle
      <4>2. slot' = slot \/ (slot # NotRunning /\ slot' = [slot EXCEPT !.freed = TRUE])
        BY <2>3 DEF install
      <4>3. slot' \in {NotRunning} \cup Running
        BY <4>2, SlotFields DEF TypeOK
      <4> QED
        BY <4>1, <4>3
    <3>4. ArrayDrained'
      BY <1>23, <2>3, SlotFields DEF subscribe_install, install, TypeOK, Running, NotRunning
    <3> QED
      BY <1>23, <3>1, <3>2, <3>3, <3>4
      DEF subscribe_install, TypeOK, WsServerTypeOK
  <2> QED
    BY <1>23, <2>2, <2>3 DEF subscribe_install
<1>24. ASSUME NEW i \in DOMAIN m_sendFutures, subscribe_dangling(i)
       PROVE  TypeOK' /\ ArrayDrained'
  <2>1. m_sendFutures[i].slot \in Slots
    BY <1>24, TaskFields DEF subscribe_dangling
  <2>2. m_sendFutures' \in Seq(Tasks)
    BY <1>24, setTaskType DEF subscribe_dangling, Tasks
  <2>3. CASE UNCHANGED <<endPointVars, slot>>
    BY <1>24, <2>2, <2>3
    DEF subscribe_dangling, TypeOK, EndPointTypeOK, WsServerTypeOK
  <2>4. ASSUME NEW id \in Ids, install(id, m_sendFutures[i].slot)
        PROVE  TypeOK' /\ ArrayDrained'
    <3>1. EndPointTypeOK' /\ slot' \in {NotRunning} \cup Running
      BY <2>1, <2>4, installType
    <3>2. ArrayDrained'
      BY <1>24, <2>4, SlotFields
      DEF subscribe_dangling, install, TypeOK, Running, NotRunning
    <3> QED
      BY <1>24, <2>2, <3>1, <3>2 DEF subscribe_dangling, TypeOK, WsServerTypeOK
  <2> QED
    BY <1>24, <2>3, <2>4 DEF subscribe_dangling
<1>25. ASSUME NEW i \in DOMAIN m_sendFutures, subscribe_lost(i)
       PROVE  TypeOK' /\ ArrayDrained'
  BY <1>25 DEF subscribe_lost, TypeOK, EndPointTypeOK, WsServerTypeOK
<1>26. ASSUME NEW h \in Handles, on_message_request_throws(h)
       PROVE  TypeOK' /\ ArrayDrained'
  BY <1>26 DEF on_message_request_throws, TypeOK, EndPointTypeOK, WsServerTypeOK
<1> QED
  BY <1>1, <1>2, <1>3, <1>4, <1>5, <1>6, <1>7, <1>8, <1>9, <1>10, <1>11, <1>12,
     <1>13, <1>14, <1>15, <1>16, <1>17, <1>18, <1>19, <1>20, <1>21, <1>22, <1>23,
     <1>24, <1>25, <1>26
  DEF Next, Handler, Dispatch, Connected, Closed, ClientHandler, Host,
      SubscribeTask

-----------------------------------------------------------------------------
(***************************************************************************)
(* The endpoint's thread never meets an empty slot.                        *)
(***************************************************************************)

(* What the steps of the server thread do to the connections: nothing,     *)
(* open one, close one, or end them all.                                   *)
Closes == \E id \in Ids :
    /\ m_state[id] = "open"
    /\ m_state' = [m_state EXCEPT ![id] = "closing"]
    /\ UNCHANGED <<m_next_id, m_uri, m_status, dataReceivedSignal, received,
                   clientThread>>

LEMMA closeCase ==
    ASSUME TypeOK, NEW id \in Ids \cup {NoId}, closeSucceeds(id), close(id)
    PROVE  Closes
<1>1. id \in Ids
  BY EndPointAssumption
  DEF closeSucceeds, Ids, NoId, TypeOK, EndPointTypeOK
<1> QED
  BY <1>1 DEF close, closeSucceeds, Closes

LEMMA HandlerCases ==
    ASSUME TypeOK, Handler, ~destroy_join
    PROVE  UNCHANGED endPointVars \/ Connects \/ Closes
<1>1. CASE handle_add_aggregator_done
  <2>1. UNCHANGED endPointVars \/ connect(m_uri[clientId], m_next_id)
    BY <1>1 DEF handle_add_aggregator_done
  <2> QED
    BY <2>1, ConnectCases
<1>2. CASE handle_clear_aggregator_closed
  <2>1. NextRemaining \in Ids \cup {NoId}
    BY <1>2, NextRemainingListed DEF handle_clear_aggregator_closed, TypeOK
  <2> QED
    BY <1>2, <2>1, closeCase DEF handle_clear_aggregator_closed
<1>3. CASE destroy_close
  <2>1. NextRemaining \in Ids \cup {NoId}
    BY <1>3, NextRemainingListed DEF destroy_close, TypeOK
  <2> QED
    BY <1>3, <2>1, closeCase DEF destroy_close
<1> QED
  BY <1>1, <1>2, <1>3
  DEF Handler, forward_send, forward_done, handle_clear_aggregator_skip,
      handle_clear_aggregator_wait, on_close_Connection_done

LEMMA SignalsStep ==
    ASSUME TypeOK, SignalsAssigned, [Next]_vars
    PROVE  SignalsAssigned'
<1> USE EndPointAssumption DEF SignalsAssigned, endPointVars, Idle
<1>0. /\ m_state \in [Ids -> States]
      /\ dataReceivedSignal \in [Ids -> Slots \cup {NoSlot, DefaultSlot}]
  BY DEF TypeOK, EndPointTypeOK
<1>1. CASE UNCHANGED endPointVars
  BY <1>1
<1>2. CASE Connects
  BY <1>0, <1>2 DEF Connects
<1>3. CASE Closes
  BY <1>0, <1>3 DEF Closes
<1>4. CASE destroy_join
  BY <1>0, <1>4 DEF destroy_join
<1>5. CASE Handler
  BY <1>1, <1>2, <1>3, <1>4, <1>5, HandlerCases
<1>6. ASSUME NEW h \in Handles,
             Consumer(h) \/ on_connection(h) \/ Dispatch(h) \/ io_write(h)
      PROVE  SignalsAssigned'
  <2>1. CASE on_message_request(h)
    <3>1. UNCHANGED endPointVars \/ Connects
      BY <2>1, onMessageCases DEF AddBegun, LoopBegun, Subscribed
    <3> QED
      BY <1>1, <1>2, <3>1
  <2> QED
    BY <1>1, <1>6, <2>1
    DEF Consumer, on_connection, Dispatch, io_write, io_close_frame,
        on_message_request_throws, on_close_Connection, Unserved
<1>7. ASSUME NEW id \in Ids,
             \/ Connected(id) \/ Closed(id) \/ Host(id)
             \/ (on_open(id) \/ on_open_default(id)) /\ UNCHANGED Elsewhere
      PROVE  SignalsAssigned'
  <2>1. CASE on_open(id)
    BY <1>0, <2>1 DEF on_open
  <2>2. CASE on_open_default(id)
    BY <1>0, <2>2 DEF on_open_default
  <2>3. CASE on_fail(id) \/ on_close(id) \/ peer_close(id)
    BY <1>0, <2>3 DEF on_fail, on_close, peer_close
  <2>4. CASE on_message(id) \/ on_malformed(id)
    BY <1>0, <2>4 DEF on_message, on_malformed, endPointVarsButThread
  <2>5. CASE handle_read_http_response(id)
    BY <1>0, <2>5 DEF handle_read_http_response
  <2> QED
    BY <1>7, <2>1, <2>2, <2>3, <2>4, <2>5 DEF Connected, Closed, Host
<1>8. ASSUME NEW id \in Ids,
             emitDataReceived(id) \/ emit_posted(id) \/ emit_batch(id)
             \/ emit_freed(id)
      PROVE  SignalsAssigned'
  <2>1. /\ UNCHANGED <<m_state, dataReceivedSignal>>
        /\ clientThread.at = "on_message"
        /\ clientThread' \in {clientThread, Idle}
    BY <1>8
    DEF emitDataReceived, emit_posted, emit_batch, emit_freed, append,
        sendLatest, endCall, endPointVarsButThread
  <2> QED
    BY <1>0, <2>1
<1>9. ASSUME NEW i \in DOMAIN m_sendFutures, SubscribeTask(i)
      PROVE  SignalsAssigned'
  <2>1. ASSUME NEW id, NEW s \in Slots, onDataReceived(id, s)
        PROVE  SignalsAssigned'
    BY <1>0, <2>1 DEF onDataReceived
  <2>2. CASE subscribe_install(i)
    <3>1. m_sendFutures[i].slot \in Slots
      BY <2>2, TaskFields DEF subscribe_install
    <3> QED
      BY <1>1, <2>1, <2>2, <3>1 DEF subscribe_install, install
  <2>3. CASE subscribe_dangling(i)
    <3>1. m_sendFutures[i].slot \in Slots
      BY <2>3, TaskFields DEF subscribe_dangling
    <3> QED
      BY <1>1, <2>1, <2>3, <3>1 DEF subscribe_dangling, install
  <2> QED
    BY <1>1, <1>9, <2>2, <2>3 DEF SubscribeTask, subscribe_start, subscribe_lost
<1>10. CASE UNCHANGED vars
  BY <1>1, <1>10 DEF vars
<1> HIDE DEF SignalsAssigned, endPointVars
<1>11. ASSUME NEW id \in Ids, ClientHandler(id) PROVE SignalsAssigned'
  <2>1. CASE on_message_throws(id)
    BY <1>1, <2>1 DEF on_message_throws
  <2> QED
    BY <1>7, <1>8, <1>11, <2>1 DEF ClientHandler
<1> QED
  BY <1>5, <1>6, <1>7, <1>9, <1>10, <1>11 DEF Next

-----------------------------------------------------------------------------
(***************************************************************************)
(* A slot belongs to a session that was there.                             *)
(***************************************************************************)
LEMMA SessionsStay ==
    ASSUME TypeOK, [Next]_vars, NEW h \in Handles, session[h] # "absent"
    PROVE  session'[h] # "absent"
<1> USE DEF TypeOK, WsServerTypeOK, wsServerVars
<1>1. ASSUME NEW g \in Handles,
             Consumer(g) \/ on_connection(g) \/ Dispatch(g) \/ io_write(g)
      PROVE  session'[h] # "absent"
  BY <1>1
  DEF Consumer, sendRequest, disconnect, on_connection, accept, Dispatch,
      on_message_request, on_message_request_throws, io_close_frame,
      process_close_frame, on_close_Connection, terminate, io_write, write_frame
<1>2. CASE on_close_Connection_done
  BY <1>2 DEF on_close_Connection_done, release
<1>3. CASE UNCHANGED session
  BY <1>3
<1>4. CASE Handler
  BY <1>2, <1>3, <1>4
  DEF Handler, handle_add_aggregator_done, forward_send, forward_done,
      handle_clear_aggregator_skip, handle_clear_aggregator_wait,
      handle_clear_aggregator_closed, destroy_close, destroy_join
<1>5. ASSUME NEW id \in Ids,
             Connected(id) \/ Closed(id) \/ ClientHandler(id) \/ Host(id)
      PROVE  session'[h] # "absent"
  BY <1>3, <1>5
  DEF Connected, Closed, ClientHandler, Host, Elsewhere, on_message_throws,
      emitDataReceived, emit_posted, emit_batch, emit_freed
<1>6. ASSUME NEW i \in DOMAIN m_sendFutures, SubscribeTask(i)
      PROVE  session'[h] # "absent"
  BY <1>3, <1>6
  DEF SubscribeTask, subscribe_start, subscribe_install, subscribe_dangling,
      subscribe_lost
<1>7. CASE UNCHANGED vars
  BY <1>3, <1>7 DEF vars
<1> HIDE DEF TypeOK, WsServerTypeOK, wsServerVars
<1> QED
  BY <1>1, <1>4, <1>5, <1>6, <1>7 DEF Next

(* What the step of a task does: it ends, begins to install, or goes on to *)
(* the next id; if it installs a slot, that is its own, at an id of its.   *)
LEMMA TaskStep ==
    ASSUME TypeOK, TasksOfListed, NEW i \in DOMAIN m_sendFutures, SubscribeTask(i)
    PROVE  /\ UNCHANGED <<wsServerVars, serverVars, endpointListVars>>
           /\ m_sendFutures[i].at # "ended" /\ m_sendFutures[i].slot \in Slots
           /\ DOMAIN m_sendFutures' = DOMAIN m_sendFutures
           /\ \A j \in DOMAIN m_sendFutures \ {i} :
                 m_sendFutures'[j] = m_sendFutures[j]
           /\ \/ m_sendFutures'[i] \in {m_sendFutures[i], Ended}
              \/ \E ids \in SUBSET m_ids :
                    /\ ids # {} /\ serverThread # "destroying"
                    /\ m_sendFutures'[i] = Task(m_sendFutures[i].slot, "installing", ids)
           /\ \/ UNCHANGED dataReceivedSignal
              \/ \E id \in m_ids \cap Ids :
                    dataReceivedSignal' =
                       [dataReceivedSignal EXCEPT ![id] = m_sendFutures[i].slot]
<1> DEFINE task == m_sendFutures[i]
<1> USE DEF endPointVars
<1>1. ASSUME UNCHANGED m_sendFutures
      PROVE  /\ DOMAIN m_sendFutures' = DOMAIN m_sendFutures
             /\ \A j \in DOMAIN m_sendFutures \ {i} :
                   m_sendFutures'[j] = m_sendFutures[j]
             /\ m_sendFutures'[i] = task
  BY <1>1
<1>2. Ended \in Tasks
  BY DEF Tasks
<1>3. CASE subscribe_start(i)
  <2>1. task.slot \in Slots
    BY <1>3, TaskFields DEF subscribe_start
  <2>2. m_ids \in SUBSET (Ids \cup {NoId})
    BY DEF TypeOK
  <2>3. Task(task.slot, "installing", m_ids) \in Tasks
    BY <2>1, <2>2, TaskType
  <2>4. CASE m_ids = {} \/ serverThread = "destroying"
    BY <1>2, <1>3, <2>1, <2>4, setTaskType DEF subscribe_start
  <2>5. CASE m_ids # {} /\ serverThread # "destroying"
    <3>1. setTask(i, Task(task.slot, "installing", m_ids))
      BY <1>3, <2>5 DEF subscribe_start
    <3> QED
      BY <1>3, <2>1, <2>3, <2>5, <3>1, setTaskType DEF subscribe_start
  <2> QED
    BY <2>4, <2>5
<1>4. CASE subscribe_install(i)
  <2> DEFINE id == CHOOSE x \in task.ids : \A other \in task.ids : x <= other
  <2>1. task.at = "installing" /\ task.slot \in Slots
        /\ task.ids \in SUBSET (Ids \cup {NoId})
    BY <1>4, TaskFields DEF subscribe_install
  <2>2. task.ids # {} /\ task.ids \subseteq m_ids /\ serverThread # "destroying"
    BY <2>1 DEF TasksOfListed
  <2>3. id \in task.ids
    BY <2>1, <2>2, LeastChosen
  <2>4. UNCHANGED <<wsServerVars, serverVars, endpointListVars>>
    BY <1>4 DEF subscribe_install
  <2>5. CASE id = NoId /\ UNCHANGED <<endPointVars, m_sendFutures, slot>>
    BY <1>1, <2>1, <2>4, <2>5
  <2>6. CASE /\ id # NoId
             /\ install(id, task.slot)
             /\ setTask(i, IF task.ids = {id} THEN Ended
                           ELSE Task(task.slot, "installing", task.ids \ {id}))
    <3> HIDE DEF id
    <3>1. id \in m_ids \cap Ids
      BY <2>1, <2>2, <2>3, <2>6
    <3>2. dataReceivedSignal' = [dataReceivedSignal EXCEPT ![id] = task.slot]
      BY <2>6 DEF install, onDataReceived
    <3>3. CASE task.ids = {id}
      BY <1>2, <2>1, <2>4, <2>6, <3>1, <3>2, <3>3, setTaskType
    <3>4. CASE task.ids # {id}
      <4>1. /\ task.ids \ {id} \in SUBSET m_ids /\ task.ids \ {id} # {}
            /\ task.ids \ {id} \in SUBSET (Ids \cup {NoId})
        BY <2>1, <2>2, <3>4
      <4>2. Task(task.slot, "installing", task.ids \ {id}) \in Tasks
        BY <2>1, <4>1, TaskType
      <4>3. setTask(i, Task(task.slot, "installing", task.ids \ {id}))
        BY <2>6, <3>4
      <4> QED
        BY <2>1, <2>2, <2>4, <3>1, <3>2, <4>1, <4>2, <4>3, setTaskType
    <3> QED
      BY <3>3, <3>4
  <2> QED
    BY <1>4, <2>5, <2>6 DEF subscribe_install
<1>5. CASE subscribe_dangling(i)
  <2>1. task.at = "dangling" /\ task.slot \in Slots /\ task.ids \subseteq m_ids
    BY <1>5, TaskFields DEF subscribe_dangling, TasksOfListed
  <2>2. \/ UNCHANGED dataReceivedSignal
        \/ \E id \in m_ids \cap Ids :
              dataReceivedSignal' = [dataReceivedSignal EXCEPT ![id] = task.slot]
    BY <1>5, <2>1 DEF subscribe_dangling, install, onDataReceived
  <2> QED
    BY <1>2, <1>5, <2>1, <2>2, setTaskType DEF subscribe_dangling
<1>6. CASE subscribe_lost(i)
  <2>1. task.slot \in Slots
    BY <1>6, TaskFields DEF subscribe_lost
  <2> QED
    BY <1>1, <1>6, <2>1 DEF subscribe_lost
<1> QED
  BY <1>3, <1>4, <1>5, <1>6 DEF SubscribeTask

(* Whatever a step does, a slot it leaves in a connection was there, is    *)
(* the default one, or comes from a task and goes to a listed connection.  *)
LEMMA SignalCases ==
    ASSUME TypeOK, TasksOfListed, [Next]_vars, NEW id \in Ids
    PROVE  \/ dataReceivedSignal'[id] \in {dataReceivedSignal[id], NoSlot, DefaultSlot}
           \/ /\ id \in m_ids /\ UNCHANGED m_ids
              /\ \E i \in DOMAIN m_sendFutures :
                    /\ m_sendFutures[i].at # "ended"
                    /\ dataReceivedSignal'[id] = m_sendFutures[i].slot
<1> USE DEF endPointVars
<1>0. dataReceivedSignal \in [Ids -> Slots \cup {NoSlot, DefaultSlot}]
  BY DEF TypeOK, EndPointTypeOK
<1>1. CASE UNCHANGED dataReceivedSignal
  BY <1>1
<1>2. CASE Handler
  <2>1. CASE destroy_join
    BY <2>1 DEF destroy_join
  <2> QED
    BY <1>1, <1>2, <2>1, HandlerCases DEF Connects, Closes
<1>3. ASSUME NEW h \in Handles,
             Consumer(h) \/ on_connection(h) \/ Dispatch(h) \/ io_write(h)
      PROVE  UNCHANGED dataReceivedSignal
  <2>1. CASE on_message_request(h)
    BY <2>1, onMessageCases DEF AddBegun, LoopBegun, Subscribed, Connects
  <2> QED
    BY <1>3, <2>1
    DEF Consumer, on_connection, Dispatch, io_write, io_close_frame,
        on_message_request_throws, on_close_Connection, Unserved
<1>4. ASSUME NEW c \in Ids,
             Connected(c) \/ Closed(c) \/ ClientHandler(c) \/ Host(c)
      PROVE  \/ UNCHANGED dataReceivedSignal
             \/ dataReceivedSignal' = [dataReceivedSignal EXCEPT ![c] = DefaultSlot]
  BY <1>4
  DEF Connected, handle_read_http_response, on_fail, Closed, on_close,
      ClientHandler, on_open, on_open_default, on_message_throws, Host,
      on_message, on_malformed, peer_close, emitDataReceived, emit_posted,
      emit_batch, emit_freed, endPointVarsButThread
<1>5. CASE \E c \in Ids : dataReceivedSignal' =
                             [dataReceivedSignal EXCEPT ![c] = DefaultSlot]
  BY <1>0, <1>5
<1>6. ASSUME NEW i \in DOMAIN m_sendFutures, SubscribeTask(i)
      PROVE  \/ dataReceivedSignal'[id] = dataReceivedSignal[id]
             \/ /\ id \in m_ids /\ UNCHANGED m_ids
                /\ m_sendFutures[i].at # "ended"
                /\ dataReceivedSignal'[id] = m_sendFutures[i].slot
  <2>1. /\ UNCHANGED m_ids /\ m_sendFutures[i].at # "ended"
        /\ \/ UNCHANGED dataReceivedSignal
           \/ \E c \in m_ids \cap Ids :
                 dataReceivedSignal' =
                    [dataReceivedSignal EXCEPT ![c] = m_sendFutures[i].slot]
    BY <1>6, TaskStep DEF endpointListVars
  <2> QED
    BY <1>0, <2>1
<1>7. CASE UNCHANGED vars
  BY <1>1, <1>7 DEF vars
<1> QED
  BY <1>1, <1>2, <1>3, <1>4, <1>5, <1>6, <1>7 DEF Next

(* What a step does to the list of tasks, other than by a task.            *)
LEMMA TaskListCases ==
    ASSUME TypeOK, [Next]_vars,
           ~ \E i \in DOMAIN m_sendFutures : SubscribeTask(i)
    PROVE  \/ UNCHANGED m_sendFutures
           \/ handle_clear_aggregator_closed \/ destroy_join
           \/ \E h \in Handles : session[h] = "open" /\ Subscribed(h)
<1>1. CASE Handler
  BY <1>1
  DEF Handler, handle_add_aggregator_done, forward_send, forward_done,
      handle_clear_aggregator_skip, handle_clear_aggregator_wait, destroy_close,
      on_close_Connection_done
<1>2. ASSUME NEW h \in Handles,
             Consumer(h) \/ on_connection(h) \/ Dispatch(h) \/ io_write(h)
      PROVE  UNCHANGED m_sendFutures \/ (session[h] = "open" /\ Subscribed(h))
  <2>1. CASE on_message_request(h)
    BY <2>1, onMessageCases DEF AddBegun, LoopBegun
  <2> QED
    BY <1>2, <2>1
    DEF Consumer, on_connection, Dispatch, io_write, io_close_frame,
        on_message_request_throws, on_close_Connection, Unserved
<1>3. ASSUME NEW id \in Ids,
             Connected(id) \/ Closed(id) \/ ClientHandler(id) \/ Host(id)
      PROVE  UNCHANGED m_sendFutures
  BY <1>3
  DEF Connected, Closed, ClientHandler, Host, Elsewhere, on_message_throws,
      emitDataReceived, emit_posted, emit_batch, emit_freed
<1>4. CASE UNCHANGED vars
  BY <1>4 DEF vars
<1> QED
  BY <1>1, <1>2, <1>3, <1>4 DEF Next

(* Tasks that are marked or emptied stay with their slots.                 *)
LEMMA TasksKept ==
    ASSUME TypeOK, handle_clear_aggregator_closed \/ destroy_join
    PROVE  /\ DOMAIN m_sendFutures' = DOMAIN m_sendFutures
           /\ \A i \in DOMAIN m_sendFutures :
                 /\ m_sendFutures'[i].at # "ended" =>
                       /\ m_sendFutures[i].at # "ended"
                       /\ m_sendFutures'[i].slot = m_sendFutures[i].slot
                 /\ m_sendFutures'[i].at = "dangling" =>
                       \/ m_sendFutures'[i].ids = {}
                       \/ /\ m_sendFutures[i].at \in {"installing", "dangling"}
                          /\ m_sendFutures'[i].ids = m_sendFutures[i].ids
                          /\ UNCHANGED m_ids
                 /\ m_sendFutures'[i].at = "installing" =>
                       m_sendFutures[i].at = "installing" /\ destroy_join
<1>1. \A i \in DOMAIN m_sendFutures : m_sendFutures[i] \in Tasks
  BY DEF TypeOK
<1>2. ASSUME NEW task \in Tasks, task.at \in {"installing", "dangling"}
      PROVE  /\ [task EXCEPT !.at = "dangling"].at = "dangling"
             /\ [task EXCEPT !.at = "dangling"].slot = task.slot
             /\ [task EXCEPT !.at = "dangling"].ids = task.ids
             /\ [task EXCEPT !.ids = {}].at = task.at
             /\ [task EXCEPT !.ids = {}].slot = task.slot
             /\ [task EXCEPT !.ids = {}].ids = {}
  BY <1>2 DEF Tasks, Ended
<1>3. CASE handle_clear_aggregator_closed
  BY <1>1, <1>2, <1>3 DEF handle_clear_aggregator_closed, endpointListVars
<1>4. CASE destroy_join
  BY <1>1, <1>2, <1>4 DEF destroy_join
<1> QED
  BY <1>3, <1>4

LEMMA SlotsOfSessionsStep ==
    ASSUME TypeOK, TasksOfListed, SlotsOfSessions, TypeOK', [Next]_vars
    PROVE  SlotsOfSessions'
<1>1. \A s \in Slots : s.hdl \in Handles
  BY BroadcasterAssumption
<1>2. NoSlot \notin Slots /\ DefaultSlot \notin Slots
  BY EndPointAssumption
<1>3. \A h \in Handles : session[h] # "absent" => session'[h] # "absent"
  BY SessionsStay
<1>4. \A i \in DOMAIN m_sendFutures :
         m_sendFutures[i].at # "ended" =>
            /\ m_sendFutures[i].slot \in Slots
            /\ session'[m_sendFutures[i].slot.hdl] # "absent"
  BY <1>1, <1>3, TaskFields DEF SlotsOfSessions
<1>5. ASSUME NEW id \in Ids, dataReceivedSignal'[id] \in Slots
      PROVE  session'[dataReceivedSignal'[id].hdl] # "absent"
  <2>1. CASE dataReceivedSignal'[id] = dataReceivedSignal[id]
    BY <1>1, <1>3, <1>5, <2>1 DEF SlotsOfSessions
  <2> QED
    BY <1>2, <1>4, <1>5, <2>1, SignalCases
<1>6. ASSUME NEW i \in DOMAIN m_sendFutures', m_sendFutures'[i].at # "ended"
      PROVE  session'[m_sendFutures'[i].slot.hdl] # "absent"
  <2>1. CASE /\ i \in DOMAIN m_sendFutures /\ m_sendFutures[i].at # "ended"
             /\ m_sendFutures'[i].slot = m_sendFutures[i].slot
    BY <1>4, <2>1
  <2>2. ASSUME NEW j \in DOMAIN m_sendFutures, SubscribeTask(j)
        PROVE  /\ i \in DOMAIN m_sendFutures /\ m_sendFutures[i].at # "ended"
               /\ m_sendFutures'[i].slot = m_sendFutures[i].slot
    <3>1. /\ m_sendFutures[j].at # "ended"
          /\ DOMAIN m_sendFutures' = DOMAIN m_sendFutures
          /\ \A k \in DOMAIN m_sendFutures \ {j} :
                m_sendFutures'[k] = m_sendFutures[k]
          /\ \/ m_sendFutures'[j] \in {m_sendFutures[j], Ended}
             \/ \E ids \in SUBSET m_ids :
                   m_sendFutures'[j] = Task(m_sendFutures[j].slot, "installing", ids)
      BY <2>2, TaskStep
    <3>2. i \in DOMAIN m_sendFutures
      BY <1>6, <3>1
    <3>3. CASE i # j
      BY <1>6, <3>1, <3>2, <3>3
    <3>4. CASE i = j
      <4>1. m_sendFutures'[i] # Ended
        BY <1>6 DEF Ended
      <4> QED
        BY <3>1, <3>2, <3>4, <4>1 DEF Task
    <3> QED
      BY <3>3, <3>4
  <2>3. ASSUME NEW h \in Handles, session[h] = "open", Subscribed(h)
        PROVE  \/ /\ i \in DOMAIN m_sendFutures /\ m_sendFutures[i].at # "ended"
                  /\ m_sendFutures'[i].slot = m_sendFutures[i].slot
               \/ m_sendFutures'[i].slot.hdl = h /\ session'[h] # "absent"
    BY <1>3, <1>6, <2>3 DEF Subscribed
  <2>4. CASE handle_clear_aggregator_closed \/ destroy_join
    BY <1>6, <2>1, <2>4, TasksKept
  <2>5. CASE UNCHANGED m_sendFutures
    BY <1>6, <2>1, <2>5
  <2> QED
    BY <2>1, <2>2, <2>3, <2>4, <2>5, TaskListCases
<1> QED
  BY <1>5, <1>6 DEF SlotsOfSessions

-----------------------------------------------------------------------------
(***************************************************************************)
(* What is reached is listed.                                              *)
(***************************************************************************)

(* Only the end of the destruction takes ids away, and only the end of the *)
(* clear's loop begins a destruction; requests are only sent by a loop.    *)
LEMMA ListCases ==
    ASSUME TypeOK, [Next]_vars, ~destroy_join
    PROVE  /\ m_ids \subseteq m_ids'
           /\ serverThread' = "destroying" =>
                 serverThread = "destroying" \/ handle_clear_aggregator_closed
           /\ serverThread' \in Forwarded =>
                 \/ remaining' = m_ids /\ UNCHANGED m_ids
                 \/ UNCHANGED <<serverThread, remaining, m_ids>>
                 \/ forward_send
           /\ UNCHANGED upstream \/ forward_send
<1> USE DEF serverVars, endpointListVars, Forwarded
<1>1. CASE Handler
  BY <1>1
  DEF Handler, handle_add_aggregator_done, forward_send, forward_done,
      handle_clear_aggregator_skip, handle_clear_aggregator_wait, destroy_close,
      handle_clear_aggregator_closed, on_close_Connection_done, returnToLoop
<1>2. CASE UNCHANGED <<serverVars, endpointListVars>>
  BY <1>2
<1>3. ASSUME NEW h \in Handles,
             Consumer(h) \/ on_connection(h) \/ Dispatch(h) \/ io_write(h)
      PROVE  \/ UNCHANGED <<serverVars, endpointListVars>>
             \/ AddBegun(h) \/ LoopBegun(h)
             \/ UNCHANGED endpointListVars /\ serverThread' = "session-closed"
  <2>1. CASE on_message_request(h)
    BY <2>1, onMessageCases DEF Subscribed
  <2> QED
    BY <1>3, <2>1
    DEF Consumer, on_connection, Dispatch, io_write, io_close_frame,
        on_message_request_throws, on_close_Connection, Unserved
<1>4. ASSUME NEW h \in Handles, AddBegun(h) \/ LoopBegun(h)
      PROVE  /\ UNCHANGED endpointListVars
             /\ \/ serverThread' = "adding"
                \/ /\ serverThread' \in Forwarded \cup {"closing-aggregators"}
                   /\ remaining' = m_ids
  BY <1>4 DEF AddBegun, LoopBegun
<1>5. ASSUME NEW id \in Ids,
             Connected(id) \/ Closed(id) \/ ClientHandler(id) \/ Host(id)
      PROVE  UNCHANGED <<serverVars, endpointListVars>>
  BY <1>5
  DEF Connected, Closed, ClientHandler, Host, Elsewhere, on_message_throws,
      emitDataReceived, emit_posted, emit_batch, emit_freed
<1>6. ASSUME NEW i \in DOMAIN m_sendFutures, SubscribeTask(i)
      PROVE  UNCHANGED <<serverVars, endpointListVars>>
  BY <1>6
  DEF SubscribeTask, subscribe_start, subscribe_install, subscribe_dangling,
      subscribe_lost
<1>7. CASE UNCHANGED vars
  BY <1>2, <1>7 DEF vars
<1>8. CASE \E h \in Handles :
              Consumer(h) \/ on_connection(h) \/ Dispatch(h) \/ io_write(h)
  BY <1>2, <1>3, <1>4, <1>8
<1>9. CASE \E id \in Ids :
              Connected(id) \/ Closed(id) \/ ClientHandler(id) \/ Host(id)
  BY <1>2, <1>5, <1>9
<1>10. CASE \E i \in DOMAIN m_sendFutures : SubscribeTask(i)
  BY <1>2, <1>6, <1>10
<1> QED
  BY <1>1, <1>7, <1>8, <1>9, <1>10 DEF Next

LEMMA TasksOfListedStep ==
    ASSUME TypeOK, TasksOfListed, TypeOK', [Next]_vars
    PROVE  TasksOfListed'
<1> SUFFICES ASSUME NEW i \in DOMAIN m_sendFutures'
             PROVE  /\ m_sendFutures'[i].at \in {"installing", "dangling"}
                       => m_sendFutures'[i].ids \subseteq m_ids'
                    /\ m_sendFutures'[i].at = "installing"
                       => m_sendFutures'[i].ids # {} /\ serverThread' # "destroying"
  BY DEF TasksOfListed
<1>1. CASE handle_clear_aggregator_closed \/ destroy_join
  <2>1. ~(m_sendFutures'[i].at = "installing")
    <3>1. destroy_join => serverThread = "destroying"
      BY DEF destroy_join
    <3> QED
      BY <1>1, <3>1, TasksKept DEF TasksOfListed
  <2>2. m_sendFutures'[i].at = "dangling" => m_sendFutures'[i].ids \subseteq m_ids'
    BY <1>1, TasksKept DEF TasksOfListed
  <2> QED
    BY <2>1, <2>2
<1>2. CASE ~handle_clear_aggregator_closed /\ ~destroy_join
  <2>1. /\ m_ids \subseteq m_ids'
        /\ serverThread' = "destroying" => serverThread = "destroying"
    BY <1>2, ListCases
  <2>2. CASE i \in DOMAIN m_sendFutures /\ m_sendFutures'[i] = m_sendFutures[i]
    BY <2>1, <2>2 DEF TasksOfListed
  <2>3. ASSUME NEW j \in DOMAIN m_sendFutures, SubscribeTask(j)
        PROVE  \/ i \in DOMAIN m_sendFutures /\ m_sendFutures'[i] = m_sendFutures[i]
               \/ m_sendFutures'[i] = Ended
               \/ \E ids \in SUBSET m_ids :
                     /\ ids # {} /\ serverThread # "destroying"
                     /\ m_sendFutures'[i] = Task(m_sendFutures[i].slot, "installing", ids)
    <3>1. /\ DOMAIN m_sendFutures' = DOMAIN m_sendFutures
          /\ \A k \in DOMAIN m_sendFutures \ {j} :
                m_sendFutures'[k] = m_sendFutures[k]
          /\ \/ m_sendFutures'[j] \in {m_sendFutures[j], Ended}
             \/ \E ids \in SUBSET m_ids :
                   /\ ids # {} /\ serverThread # "destroying"
                   /\ m_sendFutures'[j] = Task(m_sendFutures[j].slot, "installing", ids)
      BY <2>3, TaskStep
    <3> QED
      BY <3>1
  <2>4. CASE m_sendFutures'[i] = Ended
    BY <2>4 DEF Ended
  <2>5. ASSUME NEW ids \in SUBSET m_ids, ids # {}, serverThread # "destroying",
               m_sendFutures'[i] = Task(m_sendFutures[i].slot, "installing", ids)
        PROVE  /\ m_sendFutures'[i].ids \subseteq m_ids'
               /\ m_sendFutures'[i].ids # {} /\ serverThread' # "destroying"
    BY <2>1, <2>5 DEF Task
  <2>6. CASE \E j \in DOMAIN m_sendFutures : SubscribeTask(j)
    BY <2>2, <2>3, <2>4, <2>5, <2>6
  <2>7. ASSUME NEW h \in Handles, Subscribed(h)
        PROVE  \/ i \in DOMAIN m_sendFutures /\ m_sendFutures'[i] = m_sendFutures[i]
               \/ m_sendFutures'[i].at = "starting"
    BY <2>7 DEF Subscribed
  <2> QED
    BY <1>2, <2>2, <2>6, <2>7, TaskListCases
<1> QED
  BY <1>1, <1>2

LEMMA ListedStep ==
    ASSUME TypeOK, TasksOfListed, ForwardedToListed, SecondConnectionUnused,
           [Next]_vars
    PROVE  ForwardedToListed' /\ SecondConnectionUnused'
<1>1. CASE destroy_join
  BY <1>1
  DEF destroy_join, returnToLoop, Forwarded, ForwardedToListed,
      SecondConnectionUnused
<1>2. CASE ~destroy_join
  <2>1. /\ m_ids \subseteq m_ids'
        /\ serverThread' \in Forwarded =>
              \/ remaining' = m_ids /\ UNCHANGED m_ids
              \/ UNCHANGED <<serverThread, remaining, m_ids>>
              \/ forward_send
        /\ UNCHANGED upstream \/ forward_send
    BY <1>2, ListCases
  <2>2. forward_send => /\ remaining' \subseteq remaining
                        /\ UNCHANGED <<serverThread, m_ids>>
    BY DEF forward_send
  <2>3. ForwardedToListed'
    BY <2>1, <2>2 DEF ForwardedToListed
  <2>4. ASSUME NEW id \in Ids \ m_ids'
        PROVE  upstream'[id] = <<>>
    <3>1. upstream[id] = <<>>
      BY <2>1, <2>4 DEF SecondConnectionUnused
    <3>2. CASE forward_send
      <4>1. NextRemaining \in m_ids
        BY <3>2, NextRemainingListed DEF forward_send, ForwardedToListed
      <4>2. id # NextRemaining
        BY <2>1, <2>4, <4>1
      <4>3. upstream' = upstream
            \/ \E m : upstream' = [upstream EXCEPT ![NextRemaining] = m]
        BY <3>2 DEF forward_send, send
      <4> QED
        BY <3>1, <4>2, <4>3 DEF TypeOK
    <3> QED
      BY <2>1, <3>1, <3>2
  <2>5. ASSUME NEW id \in Ids \ m_ids'
        PROVE  dataReceivedSignal'[id] \in {NoSlot, DefaultSlot}
    <3>1. id \notin m_ids /\ dataReceivedSignal[id] \in {NoSlot, DefaultSlot}
      BY <2>1, <2>5 DEF SecondConnectionUnused
    <3> QED
      BY <3>1, SignalCases
  <2> QED
    BY <2>3, <2>4, <2>5 DEF SecondConnectionUnused
<1> QED
  BY <1>1, <1>2

-----------------------------------------------------------------------------
(***************************************************************************)
(* The end of the process.                                                 *)
(***************************************************************************)
LEMMA CrashStep ==
    ASSUME TypeOK, SignalsAssigned, SlotsOfSessions, TasksOfListed,
           CrashExplained, [Next]_vars
    PROVE  CrashExplained'
<1> USE DEF endPointVars, wsServerVars, serverVars, slotVars
<1>1. CASE UNCHANGED vars
  BY <1>1 DEF vars, CrashExplained
<1>2. CASE ~crashed'
  BY <1>2 DEF CrashExplained
<1>3. ASSUME NEW id \in Ids, emitDataReceived(id), crashed' = TRUE, ~crashed
      PROVE  CrashExplained'
  <2> DEFINE s == dataReceivedSignal[id]
  <2>1. /\ s = NoSlot \/ (s \in Slots /\ ~Alive(s.hdl))
        /\ clientThread.at = "on_message" /\ clientThread.id = id
        /\ UNCHANGED <<clientThread, dataReceivedSignal, session>>
    BY <1>3 DEF emitDataReceived, endPointVarsButThread
  <2>2. s # NoSlot
    BY <2>1 DEF SignalsAssigned
  <2>3. s.hdl \in Handles /\ session[s.hdl] \in SessionStates
    BY <2>1, <2>2, BroadcasterAssumption DEF TypeOK, WsServerTypeOK
  <2>4. session[s.hdl] = "released"
    BY <2>1, <2>2, <2>3 DEF SlotsOfSessions, Alive, SessionStates
  <2> QED
    BY <2>1, <2>2, <2>4 DEF CrashExplained
<1>4. ASSUME NEW id \in Ids, emit_freed(id) PROVE CrashExplained'
  BY <1>4 DEF emit_freed, CrashExplained
<1>5. ASSUME NEW i \in DOMAIN m_sendFutures, subscribe_install(i),
             crashed' = TRUE, ~crashed
      PROVE  CrashExplained'
  <2> DEFINE ids == m_sendFutures[i].ids
             id == CHOOSE x \in ids : \A other \in ids : x <= other
  <2>1. /\ id = NoId /\ UNCHANGED m_sendFutures
        /\ m_sendFutures[i].at = "installing"
    BY <1>5 DEF subscribe_install
  <2>2. ids \in SUBSET (Ids \cup {NoId}) /\ ids # {}
    BY <2>1, TaskFields DEF TasksOfListed
  <2>3. id \in ids
    BY <2>2, LeastChosen
  <2>4. NoId \in m_sendFutures'[i].ids /\ m_sendFutures'[i].at = "installing"
    BY <2>1, <2>3
  <2> QED
    BY <1>5, <2>1, <2>4 DEF CrashExplained
<1>6. ASSUME NEW i \in DOMAIN m_sendFutures, subscribe_lost(i)
      PROVE  CrashExplained'
  BY <1>6 DEF subscribe_lost, CrashExplained
<1>13. ASSUME NEW id \in Ids, on_message_throws(id) PROVE CrashExplained'
  BY <1>13 DEF on_message_throws, CrashExplained
<1>14. ASSUME NEW h \in Handles, on_message_request_throws(h) PROVE CrashExplained'
  BY <1>14 DEF on_message_request_throws, CrashExplained
<1>7. ASSUME NEW i \in DOMAIN m_sendFutures, SubscribeTask(i), crashed' # crashed
      PROVE  (subscribe_install(i) /\ crashed' = TRUE) \/ subscribe_lost(i)
  BY <1>7
  DEF SubscribeTask, subscribe_start, subscribe_install, subscribe_dangling
<1>8. ASSUME NEW id \in Ids, crashed' # crashed,
             Connected(id) \/ Closed(id) \/ ClientHandler(id) \/ Host(id)
      PROVE  \/ emitDataReceived(id) /\ crashed' = TRUE
             \/ emit_freed(id) \/ on_message_throws(id)
  BY <1>8
  DEF Connected, Closed, ClientHandler, Host, Elsewhere, emitDataReceived,
      emit_posted, emit_batch
<1>9. ASSUME NEW h \in Handles,
             Consumer(h) \/ on_connection(h) \/ Dispatch(h) \/ io_write(h)
      PROVE  UNCHANGED crashed \/ on_message_request_throws(h)
  BY <1>9
  DEF Consumer, on_connection, Dispatch, io_write, io_close_frame,
      on_message_request, on_close_Connection, Unserved
<1>10. CASE Handler
  <2>1. UNCHANGED crashed
    BY <1>10
    DEF Handler, handle_add_aggregator_done, forward_send, forward_done,
        handle_clear_aggregator_skip, handle_clear_aggregator_wait,
        handle_clear_aggregator_closed, destroy_close, destroy_join,
        on_close_Connection_done
  <2> QED
    BY <1>1, <1>2, <1>10, <2>1 DEF Next
<1>11. Next => ~crashed
  BY DEF Next
<1>12. crashed \in BOOLEAN
  BY DEF TypeOK
<1> QED
  BY <1>1, <1>2, <1>3, <1>4, <1>5, <1>6, <1>7, <1>8, <1>9, <1>10, <1>11, <1>12,
     <1>13, <1>14
  DEF Next

-----------------------------------------------------------------------------
(***************************************************************************)
(* The frames.  A step leaves every queued message in its place, drops     *)
(* what a session has queued, or queues one message behind the others; it  *)
(* hands out a frame only when that one is pending.                        *)
(***************************************************************************)
Queues(to, message) ==
    \A h \in Handles : \A i \in DOMAIN outbox'[h] :
        \/ i \in DOMAIN outbox[h] /\ outbox'[h][i] = outbox[h][i]
        \/ /\ h = to /\ i = Len(outbox[h]) + 1
           /\ outbox'[h][i] = message

(* Frames may arrive, but none is taken from the array or put into it.     *)
Quiet ==
    /\ \E to : Queues(to, Processed)
    /\ UNCHANGED m_broadcastArray
    /\ \A id \in Ids :
          /\ received[id] <= received'[id]
          /\ Pending(id)' => Pending(id) \/ received[id] < received'[id]

NonePending == \A id \in Ids : ~Pending(id)

Appends(id) ==
    /\ Pending(id)
    /\ m_broadcastArray' = Append(m_broadcastArray, Frame(id))
    /\ UNCHANGED <<outbox, received>>
    /\ NonePending'

SendsFrame(id) ==
    /\ Pending(id)
    /\ \E to : Queues(to, [frame |-> Frame(id)])
    /\ UNCHANGED <<m_broadcastArray, received>>
    /\ NonePending'

SendsBatch ==
    /\ Len(m_broadcastArray) = 2
    /\ \E to : Queues(to, [batch |-> m_broadcastArray])
    /\ m_broadcastArray' = <<>>
    /\ UNCHANGED received
    /\ NonePending'

LEMMA con_sendQueues ==
    ASSUME outbox \in [Handles -> Seq(Messages)],
           NEW h \in Handles, NEW m \in Messages, con_send(h, m)
    PROVE  Queues(h, m)
<1>1. ASSUME NEW g \in Handles, NEW i \in DOMAIN outbox'[g]
      PROVE  \/ i \in DOMAIN outbox[g] /\ outbox'[g][i] = outbox[g][i]
             \/ /\ g = h /\ i = Len(outbox[g]) + 1
                /\ outbox'[g][i] = m
  <2>1. outbox[g] \in Seq(Messages)
    OBVIOUS
  <2>2. outbox'[g] = outbox[g] \/ (g = h /\ outbox'[g] = Append(outbox[g], m))
    BY DEF con_send
  <2> QED
    BY <1>1, <2>1, <2>2
<1> QED
  BY <1>1 DEF Queues

(* What is written, or lost with its session, is no longer queued.         *)
LEMMA DropQueues ==
    ASSUME NEW h \in Handles, outbox \in [Handles -> Seq(Messages)],
           outbox' \in {outbox, [outbox EXCEPT ![h] = <<>>]},
           NEW to, NEW m
    PROVE  Queues(to, m)
  BY DEF Queues

LEMMA UnchangedQueues ==
    ASSUME UNCHANGED outbox, NEW to, NEW m
    PROVE  Queues(to, m)
  BY DEF Queues

LEMMA CarriedFrames ==
    ASSUME NEW message \in Messages
    PROVE  Carried(message) \subseteq Frames
  BY DEF Carried, Messages, Processed

LEMMA CarriedCases ==
    /\ Carried(Processed) = {}
    /\ \A frame : Carried([frame |-> frame]) = {frame}
    /\ \A batch : Carried([batch |-> batch]) = {batch[k] : k \in DOMAIN batch}
  BY DEF Carried, Processed

LEMMA ProcessedEmpty ==
    /\ Carried(Processed) = {}
    /\ "batch" \notin DOMAIN Processed /\ "frame" \notin DOMAIN Processed
  BY CarriedCases DEF Processed

LEMMA SlotHandle == ASSUME NEW s \in Slots PROVE s.hdl \in Handles
  BY BroadcasterAssumption

(* A step that leaves frames, threads and slot alone is quiet.             *)
LEMMA QuietCase ==
    ASSUME TypeOK, UNCHANGED <<m_broadcastArray, received>>,
           \E to : Queues(to, Processed),
           \/ clientThread'.at # "on_message"
           \/ /\ UNCHANGED clientThread
              /\ \/ UNCHANGED slot \/ slot = NotRunning
                 \/ slot' # NotRunning /\ slot'.at = slot.at
    PROVE  Quiet
<1>1. \A id \in Ids : received[id] <= received'[id]
  BY EndPointAssumption DEF TypeOK, EndPointTypeOK
<1>2. \A id \in Ids : Pending(id)' => Pending(id)
  BY DEF Pending
<1> QED
  BY <1>1, <1>2 DEF Quiet

LEMMA ServerQuiet ==
    ASSUME TypeOK, Handler
    PROVE  Quiet
<1> USE DEF slotVars, wsServerVars, endPointVars
<1>0. outbox \in [Handles -> Seq(Messages)] /\ Processed \in Messages
  BY DEF TypeOK, WsServerTypeOK, Messages
<1>1. UNCHANGED <<m_broadcastArray, slot, received, clientThread>>
  <2>1. CASE destroy_join
    BY <2>1 DEF destroy_join
  <2>2. UNCHANGED <<m_broadcastArray, slot>>
    BY DEF Handler, handle_add_aggregator_done, forward_send, forward_done,
        handle_clear_aggregator_skip, handle_clear_aggregator_wait,
        handle_clear_aggregator_closed, destroy_close, destroy_join,
        on_close_Connection_done
  <2> QED
    BY <2>1, <2>2, HandlerCases DEF Connects, Closes
<1>2. \E to : Queues(to, Processed)
  <2>1. ASSUME serving \in Handles, con_send(serving, Processed)
        PROVE  \E to : Queues(to, Processed)
    BY <1>0, <2>1, con_sendQueues
  <2>2. UNCHANGED outbox => \E to : Queues(to, Processed)
    BY UnchangedQueues
  <2>3. serverThread # "loop" => serving \in Handles
    BY DEF TypeOK
  <2> QED
    BY <2>1, <2>2, <2>3
    DEF Handler, handle_add_aggregator_done, forward_send, forward_done,
        handle_clear_aggregator_skip, handle_clear_aggregator_wait,
        handle_clear_aggregator_closed, destroy_close, destroy_join,
        on_close_Connection_done
<1> QED
  BY <1>1, <1>2, QuietCase

LEMMA SessionQuiet ==
    ASSUME TypeOK, NEW h \in Handles,
           Consumer(h) \/ on_connection(h) \/ Dispatch(h) \/ io_write(h)
    PROVE  Quiet
<1> USE DEF slotVars, endPointVars
<1>0. outbox \in [Handles -> Seq(Messages)]
  BY DEF TypeOK, WsServerTypeOK
<1>1. UNCHANGED <<m_broadcastArray, slot, received, clientThread>>
  <2>1. CASE on_message_request(h)
    BY <2>1, onMessageCases DEF AddBegun, LoopBegun, Subscribed, Connects
  <2> QED
    BY <2>1
    DEF Consumer, on_connection, Dispatch, io_write, io_close_frame,
        on_message_request_throws, on_close_Connection, Unserved
<1>2. outbox' \in {outbox, [outbox EXCEPT ![h] = <<>>]}
  BY DEF Consumer, sendRequest, disconnect, on_connection, accept, Dispatch,
      on_message_request, on_message_request_throws, io_close_frame,
      process_close_frame, on_close_Connection, terminate, io_write, write_frame,
      wsServerVars
<1> QED
  BY <1>0, <1>1, <1>2, DropQueues, QuietCase

LEMMA EndPointQuiet ==
    ASSUME TypeOK, NEW id \in Ids,
           \/ Connected(id) \/ Closed(id) \/ Host(id)
           \/ (on_open(id) \/ on_open_default(id)) /\ UNCHANGED Elsewhere
    PROVE  Quiet
<1>1. UNCHANGED <<m_broadcastArray, slot, outbox>>
  BY DEF Connected, Closed, Host, Elsewhere, wsServerVars, slotVars
<1>2. CASE on_message(id)
  <2>1. received' = [received EXCEPT ![id] = @ + 1]
        /\ clientThread' = [at |-> "on_message", id |-> id]
    BY <1>2 DEF on_message
  <2>2. received \in [Ids -> Nat]
    BY EndPointAssumption DEF TypeOK, EndPointTypeOK
  <2>3. ASSUME NEW other \in Ids
        PROVE  /\ received[other] <= received'[other]
               /\ Pending(other)' => received[other] < received'[other]
    BY <2>1, <2>2 DEF Pending
  <2> QED
    BY <1>1, <2>3, UnchangedQueues DEF Quiet
<1>3. ASSUME ~on_message(id)
      PROVE  /\ UNCHANGED received
             /\ UNCHANGED clientThread \/ clientThread'.at # "on_message"
  BY <1>3
  DEF Connected, Closed, Host, handle_read_http_response, on_open,
      on_open_default, on_fail, on_close, peer_close, on_malformed,
      endPointVarsButThread, Idle
<1> QED
  BY <1>1, <1>2, <1>3, UnchangedQueues, QuietCase

LEMMA TaskQuiet ==
    ASSUME TypeOK, NEW i \in DOMAIN m_sendFutures, SubscribeTask(i)
    PROVE  Quiet
<1>1. UNCHANGED <<m_broadcastArray, outbox, received, clientThread>>
  BY DEF SubscribeTask, subscribe_start, subscribe_install, subscribe_dangling,
      subscribe_lost, install, onDataReceived, endPointVars, wsServerVars,
      slotVars
<1>2. UNCHANGED slot
      \/ (slot # NotRunning /\ slot' = [slot EXCEPT !.freed = TRUE])
  BY DEF SubscribeTask, subscribe_start, subscribe_install, subscribe_dangling,
      subscribe_lost, install, slotVars
<1>3. slot # NotRunning => slot \in Running
  BY DEF TypeOK
<1>4. slot' = slot \/ (slot # NotRunning /\ slot' # NotRunning /\ slot'.at = slot.at)
  BY <1>2, <1>3 DEF Running, NotRunning
<1> QED
  BY <1>1, <1>4, UnchangedQueues, QuietCase

(* The calls of the slot.                                                  *)
LEMMA EmitCases ==
    ASSUME TypeOK, ArrayDrained, NEW id \in Ids,
           emitDataReceived(id) \/ emit_posted(id) \/ emit_batch(id)
           \/ emit_freed(id)
    PROVE  Quiet \/ Appends(id) \/ SendsFrame(id) \/ SendsBatch
<1>0. /\ outbox \in [Handles -> Seq(Messages)]
      /\ dataReceivedSignal[id] \in Slots \cup {NoSlot, DefaultSlot}
      /\ slot = NotRunning \/ slot \in Running
      /\ [frame |-> Frame(id)] \in Messages
      /\ [batch |-> m_broadcastArray] \in Messages
      /\ Processed \in Messages
  BY FrameType DEF TypeOK, EndPointTypeOK, WsServerTypeOK
<1>1. ASSUME UNCHANGED <<m_broadcastArray, outbox, received, clientThread>>,
             UNCHANGED slot \/ slot = NotRunning
      PROVE  Quiet
  BY <1>1, UnchangedQueues, QuietCase
<1>2. ASSUME NEW s, NEW freed, append(id, s, freed), UNCHANGED received, Pending(id)
      PROVE  Appends(id)
  <2>1. slot' # NotRunning /\ slot'.at = "sleeping"
    BY <1>2 DEF append, NotRunning
  <2> QED
    BY <1>2, <2>1 DEF append, Appends, NonePending, Pending
<1>3. ASSUME endCall PROVE NonePending'
  BY <1>3 DEF endCall, NonePending, Pending, Idle
<1>4. ASSUME NEW s \in Slots, sendLatest(id, s), UNCHANGED received, Pending(id)
      PROVE  SendsFrame(id)
  BY <1>0, <1>3, <1>4, SlotHandle, con_sendQueues DEF sendLatest, SendsFrame
<1>5. CASE emitDataReceived(id)
  <2>1. /\ UNCHANGED received /\ slot = NotRunning
        /\ clientThread = [at |-> "on_message", id |-> id]
        /\ Pending(id)
    BY <1>5 DEF emitDataReceived, endPointVarsButThread, Pending
  <2>2. ASSUME endCall, UNCHANGED <<outbox, m_broadcastArray>>
        PROVE  Quiet
    <3>1. clientThread'.at # "on_message"
      BY <2>2 DEF endCall, Idle
    <3> QED
      BY <2>1, <2>2, <3>1, UnchangedQueues, QuietCase
  <2>3. ASSUME dataReceivedSignal[id] \in Slots, endCall, UNCHANGED m_broadcastArray,
               con_send(dataReceivedSignal[id].hdl, [frame |-> Frame(id)])
        PROVE  SendsFrame(id)
    BY <1>0, <1>3, <2>1, <2>3, SlotHandle, con_sendQueues DEF SendsFrame
  <2> QED
    BY <1>1, <1>2, <1>4, <1>5, <2>1, <2>2, <2>3 DEF emitDataReceived
<1>6. CASE emit_posted(id)
  <2>1. /\ UNCHANGED received
        /\ slot.of \in Slots
        /\ Pending(id)
    BY <1>0, <1>6
    DEF emit_posted, endPointVarsButThread, Pending, Running
  <2>2. ASSUME con_send(slot.of.hdl, Processed), endCall, UNCHANGED m_broadcastArray
        PROVE  Quiet
    <3>1. clientThread'.at # "on_message"
      BY <2>2 DEF endCall, Idle
    <3>2. \E to : Queues(to, Processed)
      BY <1>0, <2>1, <2>2, SlotHandle, con_sendQueues
    <3> QED
      BY <2>1, <2>2, <3>1, <3>2, QuietCase
  <2> QED
    BY <1>2, <1>4, <1>6, <2>1, <2>2 DEF emit_posted
<1>7. CASE emit_batch(id)
  <2>1. /\ UNCHANGED received
        /\ slot.of \in Slots
        /\ endCall
        /\ clientThread'.at # "on_message"
    BY <1>0, <1>7
    DEF emit_batch, endPointVarsButThread, Running, endCall, Idle
  <2>2. CASE Len(m_broadcastArray) = 2
    BY <1>0, <1>3, <1>7, <2>1, <2>2, SlotHandle, con_sendQueues
    DEF emit_batch, SendsBatch
  <2>3. CASE Len(m_broadcastArray) # 2
    BY <1>7, <2>1, <2>3, UnchangedQueues, QuietCase DEF emit_batch
  <2> QED
    BY <2>2, <2>3
<1>8. CASE emit_freed(id)
  BY <1>1, <1>8 DEF emit_freed, endPointVars, wsServerVars, slotVars
<1> QED
  BY <1>5, <1>6, <1>7, <1>8

LEMMA FrameStep ==
    ASSUME TypeOK, ArrayDrained, [Next]_vars
    PROVE  \/ Quiet \/ SendsBatch
           \/ \E id \in Ids : Appends(id) \/ SendsFrame(id)
<1>1. ASSUME UNCHANGED vars PROVE Quiet
  BY <1>1, UnchangedQueues, QuietCase
  DEF vars, endPointVars, wsServerVars, slotVars
<1>2. ASSUME NEW id \in Ids, ClientHandler(id)
      PROVE  Quiet \/ SendsBatch \/ Appends(id) \/ SendsFrame(id)
  <2>1. CASE on_message_throws(id)
    BY <2>1, UnchangedQueues, QuietCase
    DEF on_message_throws, endPointVars, wsServerVars, slotVars
  <2> QED
    BY <1>2, <2>1, EndPointQuiet, EmitCases DEF ClientHandler
<1> QED
  BY <1>1, <1>2, ServerQuiet, SessionQuiet, EndPointQuiet, TaskQuiet DEF Next

(* A frame that is past stays so, and the pending one is after all others. *)
LEMMA PastStays ==
    ASSUME TypeOK, TypeOK', NEW frame \in Frames, Past(frame),
           Quiet \/ (UNCHANGED received /\ NonePending')
    PROVE  Past(frame)'
<1>1. /\ frame.id \in Ids /\ frame.n \in Int
      /\ received[frame.id] \in Int /\ received'[frame.id] \in Int
  BY EndPointAssumption DEF Frames, TypeOK, EndPointTypeOK
<1>2. CASE Quiet
  BY <1>1, <1>2 DEF Quiet, Past
<1>3. CASE UNCHANGED received /\ NonePending'
  BY <1>1, <1>3 DEF NonePending, Past
<1> QED
  BY <1>2, <1>3

LEMMA PendingLast ==
    ASSUME TypeOK, NEW id \in Ids, Pending(id), NEW frame \in Frames, Past(frame)
    PROVE  /\ frame # Frame(id)
           /\ frame.id = id => frame.n < Frame(id).n
<1>1. frame.n \in Int /\ received[id] \in Int
  BY EndPointAssumption DEF Frames, TypeOK, EndPointTypeOK
<1> QED
  BY <1>1 DEF Past, Frame

LEMMA PastFrames ==
    ASSUME TypeOK, FramesPast
    PROVE  /\ \A k \in DOMAIN m_broadcastArray :
                 m_broadcastArray[k] \in Frames /\ Past(m_broadcastArray[k])
           /\ \A h \in Handles : \A i \in DOMAIN outbox[h] :
                 \A frame \in Carried(outbox[h][i]) :
                    frame \in Frames /\ Past(frame)
<1>1. \A h \in Handles : \A i \in DOMAIN outbox[h] : outbox[h][i] \in Messages
  BY DEF TypeOK, WsServerTypeOK
<1>2. \A k \in DOMAIN m_broadcastArray : m_broadcastArray[k] \in Frames
  BY DEF TypeOK
<1> QED
  BY <1>1, <1>2, CarriedFrames DEF FramesPast

(* What a batch or a single frame carries.                                 *)
LEMMA CarriedParts ==
    ASSUME TypeOK, NEW h \in Handles
    PROVE  /\ \A i \in Batches(h) :
                 /\ i \in DOMAIN outbox[h] /\ outbox[h][i].batch \in Seq(Frames)
                 /\ \A k \in DOMAIN outbox[h][i].batch :
                       outbox[h][i].batch[k] \in Carried(outbox[h][i])
           /\ \A i \in Singles(h) :
                 /\ i \in DOMAIN outbox[h] /\ outbox[h][i].frame \in Frames
                 /\ outbox[h][i].frame \in Carried(outbox[h][i])
<1>1. \A i \in DOMAIN outbox[h] : outbox[h][i] \in Messages
  BY DEF TypeOK, WsServerTypeOK
<1> QED
  BY <1>1 DEF Batches, Singles, Carried, Messages, Processed

(* The four parts of the invariant, after a step that queues a message.    *)
LEMMA FramesPastQueued ==
    ASSUME TypeOK, FramesPast, NEW to, NEW message, Queues(to, message),
           \A frame \in Frames : Past(frame) => Past(frame)',
           \A frame \in Carried(message) : Past(frame)',
           \A k \in DOMAIN m_broadcastArray' : Past(m_broadcastArray[k])'
    PROVE  FramesPast'
<1>1. ASSUME NEW h \in Handles, NEW i \in DOMAIN outbox'[h],
             NEW frame \in Carried(outbox'[h][i])
      PROVE  Past(frame)'
  BY <1>1, PastFrames DEF Queues
<1> QED
  BY <1>1 DEF FramesPast, Carried

LEMMA FramesOnceQueued ==
    ASSUME FramesOnce, NEW to, NEW message, Queues(to, message),
           \A h \in Handles : \A i \in DOMAIN outbox[h] :
              /\ Carried(outbox[h][i]) \cap Carried(message) = {}
              /\ \A k \in DOMAIN m_broadcastArray' :
                    m_broadcastArray'[k] \notin Carried(outbox[h][i]),
           \A k \in DOMAIN m_broadcastArray' :
              m_broadcastArray'[k] \notin Carried(message)
    PROVE  FramesOnce'
<1>1. ASSUME NEW g \in Handles, NEW h \in Handles,
             NEW i \in DOMAIN outbox'[g], NEW j \in DOMAIN outbox'[h],
             Carried(outbox'[g][i]) \cap Carried(outbox'[h][j]) # {}
      PROVE  g = h /\ i = j
  <2>1. /\ \/ i \in DOMAIN outbox[g] /\ outbox'[g][i] = outbox[g][i]
           \/ g = to /\ i = Len(outbox[g]) + 1 /\ outbox'[g][i] = message
        /\ \/ j \in DOMAIN outbox[h] /\ outbox'[h][j] = outbox[h][j]
           \/ h = to /\ j = Len(outbox[h]) + 1 /\ outbox'[h][j] = message
    BY DEF Queues
  <2>2. CASE /\ i \in DOMAIN outbox[g] /\ outbox'[g][i] = outbox[g][i]
             /\ j \in DOMAIN outbox[h] /\ outbox'[h][j] = outbox[h][j]
    BY <1>1, <2>2 DEF FramesOnce
  <2> QED
    BY <1>1, <2>1, <2>2
<1>2. ASSUME NEW g \in Handles, NEW i \in DOMAIN outbox'[g],
             NEW k \in DOMAIN m_broadcastArray'
      PROVE  m_broadcastArray'[k] \notin Carried(outbox'[g][i])
  BY <1>2 DEF Queues
<1> QED
  BY <1>1, <1>2 DEF FramesOnce, Carried

LEMMA BatchesQueued ==
    ASSUME TypeOK, TypeOK', BatchesInOrder,
           NEW to, NEW message, Queues(to, message),
           \A h \in Handles : \A i \in Batches(h) :
              /\ Precedes(outbox[h][i].batch, m_broadcastArray')
              /\ "batch" \in DOMAIN message
                 => Precedes(outbox[h][i].batch, message.batch),
           "batch" \in DOMAIN message =>
              /\ Len(message.batch) = 2
              /\ Precedes(<<message.batch[1]>>, <<message.batch[2]>>)
              /\ Precedes(message.batch, m_broadcastArray'),
           "frame" \in DOMAIN message =>
              \A h \in Handles : \A i \in Singles(h) :
                 Precedes(<<outbox[h][i].frame>>, <<message.frame>>)
    PROVE  BatchesInOrder'
<1> DEFINE New(h, i) == h = to /\ i = Len(outbox[h]) + 1 /\ outbox'[h][i] = message
           Old(h, i) == i \in DOMAIN outbox[h] /\ outbox'[h][i] = outbox[h][i]
<1>1. ASSUME NEW h \in Handles, NEW i \in DOMAIN outbox'[h], NEW j \in DOMAIN outbox'[h],
             i < j
      PROVE  Old(h, i) /\ (Old(h, j) \/ New(h, j))
  <2>1. DOMAIN outbox[h] = 1..Len(outbox[h]) /\ Len(outbox[h]) \in Nat
    BY DEF TypeOK, WsServerTypeOK
  <2>2. i \in Int /\ j \in Int
    BY DEF TypeOK, WsServerTypeOK
  <2>3. (Old(h, i) \/ New(h, i)) /\ (Old(h, j) \/ New(h, j))
    BY DEF Queues
  <2> QED
    BY <1>1, <2>1, <2>2, <2>3
<1>2. ASSUME NEW h \in Handles, NEW i \in Batches(h)'
      PROVE  /\ Len(outbox'[h][i].batch) = 2
             /\ Precedes(<<outbox'[h][i].batch[1]>>, <<outbox'[h][i].batch[2]>>)
             /\ Precedes(outbox'[h][i].batch, m_broadcastArray')
  <2>1. Old(h, i) \/ New(h, i)
    BY DEF Batches, Queues
  <2>2. CASE Old(h, i)
    <3>1. i \in Batches(h)
      BY <1>2, <2>2 DEF Batches
    <3> QED
      BY <2>2, <3>1 DEF BatchesInOrder
  <2>3. CASE New(h, i)
    BY <1>2, <2>3 DEF Batches
  <2> QED
    BY <2>1, <2>2, <2>3
<1>3. ASSUME NEW h \in Handles, NEW i \in Batches(h)', NEW j \in Batches(h)', i < j
      PROVE  Precedes(outbox'[h][i].batch, outbox'[h][j].batch)
  <2>1. Old(h, i) /\ (Old(h, j) \/ New(h, j))
    BY <1>1, <1>3 DEF Batches
  <2>2. i \in Batches(h)
    BY <1>3, <2>1 DEF Batches
  <2>3. CASE Old(h, j)
    <3>1. j \in Batches(h)
      BY <1>3, <2>3 DEF Batches
    <3> QED
      BY <1>3, <2>1, <2>2, <2>3, <3>1 DEF BatchesInOrder
  <2>4. CASE New(h, j)
    BY <1>3, <2>1, <2>2, <2>4 DEF Batches
  <2> QED
    BY <2>1, <2>3, <2>4
<1>4. ASSUME NEW h \in Handles, NEW i \in Singles(h)', NEW j \in Singles(h)', i < j
      PROVE  Precedes(<<outbox'[h][i].frame>>, <<outbox'[h][j].frame>>)
  <2>1. Old(h, i) /\ (Old(h, j) \/ New(h, j))
    BY <1>1, <1>4 DEF Singles
  <2>2. i \in Singles(h)
    BY <1>4, <2>1 DEF Singles
  <2>3. CASE Old(h, j)
    <3>1. j \in Singles(h)
      BY <1>4, <2>3 DEF Singles
    <3> QED
      BY <1>4, <2>1, <2>2, <2>3, <3>1 DEF BatchesInOrder
  <2>4. CASE New(h, j)
    BY <1>4, <2>1, <2>2, <2>4 DEF Singles
  <2> QED
    BY <2>1, <2>3, <2>4
<1> HIDE DEF New, Old
<1> QED
  BY <1>2, <1>3, <1>4 DEF BatchesInOrder, Batches, Singles, Precedes

(* Each kind of step keeps the four of them.                               *)
FramesKept == FramesPast /\ ArrayInOrder /\ BatchesInOrder /\ FramesOnce

LEMMA QuietStep ==
    ASSUME TypeOK, TypeOK', FramesKept, Quiet
    PROVE  FramesKept'
<1>1. PICK to : Queues(to, Processed)
  BY DEF Quiet
<1>2. UNCHANGED m_broadcastArray
  BY DEF Quiet
<1>3. FramesPast'
  <2>1. \A k \in DOMAIN m_broadcastArray' : Past(m_broadcastArray[k])'
    BY <1>2, PastFrames, PastStays DEF FramesKept, Past, Pending
  <2>2. \A frame \in Frames : Past(frame) => Past(frame)'
    BY PastStays
  <2> QED
    BY <1>1, <2>1, <2>2, ProcessedEmpty, FramesPastQueued DEF FramesKept
<1>4. ArrayInOrder'
  BY <1>2 DEF FramesKept, ArrayInOrder
<1>5. BatchesInOrder'
  BY <1>1, <1>2, ProcessedEmpty, BatchesQueued DEF FramesKept, BatchesInOrder
<1>6. FramesOnce'
  <2>1. \A h \in Handles : \A i \in DOMAIN outbox[h] :
           \A k \in DOMAIN m_broadcastArray' :
              m_broadcastArray'[k] \notin Carried(outbox[h][i])
    BY <1>2 DEF FramesKept, FramesOnce
  <2> QED
    BY <1>1, <2>1, ProcessedEmpty, FramesOnceQueued DEF FramesKept
<1> QED
  BY <1>3, <1>4, <1>5, <1>6 DEF FramesKept

LEMMA AppendsStep ==
    ASSUME TypeOK, TypeOK', FramesKept, NEW id \in Ids, Appends(id)
    PROVE  FramesKept'
<1>1. /\ Pending(id) /\ UNCHANGED received /\ NonePending' /\ UNCHANGED outbox
      /\ m_broadcastArray' = Append(m_broadcastArray, Frame(id))
      /\ Queues(id, Processed)
  BY UnchangedQueues DEF Appends
<1>2. /\ m_broadcastArray \in Seq(Frames) /\ Frame(id) \in Frames
      /\ received[id] \in Int
  <2>1. m_broadcastArray \in Seq(Frames) /\ received[id] \in Int
    BY EndPointAssumption DEF TypeOK, EndPointTypeOK
  <2> QED
    BY <2>1, FrameType
<1>3. ASSUME NEW k \in DOMAIN m_broadcastArray'
      PROVE  \/ k \in DOMAIN m_broadcastArray
                /\ m_broadcastArray'[k] = m_broadcastArray[k]
             \/ k = Len(m_broadcastArray) + 1 /\ m_broadcastArray'[k] = Frame(id)
  BY <1>1, <1>2, <1>3
<1>4. \A frame \in Frames : Past(frame) => Past(frame)'
  BY <1>1, PastStays
<1>5. ASSUME NEW frame, frame = Frame(id) PROVE Past(frame)'
  BY <1>1, <1>2, <1>5 DEF Past, Frame, NonePending
<1>6. FramesPast'
  <2>1. ASSUME NEW k \in DOMAIN m_broadcastArray'
        PROVE  Past(m_broadcastArray[k])'
    <3>1. PICK frame : frame = m_broadcastArray'[k]
      OBVIOUS
    <3>2. Past(frame)'
      BY <1>3, <1>4, <1>5, <3>1, PastFrames DEF FramesKept
    <3> QED
      BY <3>1, <3>2 DEF Past, Pending
  <2> QED
    BY <1>1, <1>4, <2>1, ProcessedEmpty, FramesPastQueued DEF FramesKept
<1>7. ArrayInOrder'
  <2>1. ASSUME NEW i \in DOMAIN m_broadcastArray', NEW j \in DOMAIN m_broadcastArray',
               i < j, m_broadcastArray'[i].id = m_broadcastArray'[j].id
        PROVE  m_broadcastArray'[i].n < m_broadcastArray'[j].n
    <3>1. i \in DOMAIN m_broadcastArray /\ m_broadcastArray'[i] = m_broadcastArray[i]
      BY <1>1, <1>2, <1>3, <2>1
    <3>2. CASE j \in DOMAIN m_broadcastArray
               /\ m_broadcastArray'[j] = m_broadcastArray[j]
      BY <2>1, <3>1, <3>2 DEF FramesKept, ArrayInOrder
    <3>3. CASE m_broadcastArray'[j] = Frame(id)
      <4>1. m_broadcastArray[i] \in Frames /\ Past(m_broadcastArray[i])
        BY <3>1, PastFrames DEF FramesKept
      <4>2. Frame(id).id = id
        BY DEF Frame
      <4> QED
        BY <1>1, <2>1, <3>1, <3>3, <4>1, <4>2, PendingLast
    <3> QED
      BY <1>3, <3>2, <3>3
  <2> QED
    BY <2>1 DEF ArrayInOrder
<1>8. BatchesInOrder'
  <2>1. ASSUME NEW h \in Handles, NEW i \in Batches(h)
        PROVE  Precedes(outbox[h][i].batch, m_broadcastArray')
    <3> DEFINE batch == outbox[h][i].batch
    <3>1. \A k \in DOMAIN batch : batch[k] \in Frames /\ Past(batch[k])
      BY CarriedParts, PastFrames DEF FramesKept
    <3>2. Precedes(batch, m_broadcastArray)
      BY DEF FramesKept, BatchesInOrder
    <3>3. ASSUME NEW k \in DOMAIN batch, NEW l \in DOMAIN m_broadcastArray',
                 batch[k].id = m_broadcastArray'[l].id
          PROVE  batch[k].n < m_broadcastArray'[l].n
      <4>1. Frame(id).id = id
        BY DEF Frame
      <4>2. CASE l \in DOMAIN m_broadcastArray
                 /\ m_broadcastArray'[l] = m_broadcastArray[l]
        BY <3>2, <3>3, <4>2 DEF Precedes
      <4>3. CASE m_broadcastArray'[l] = Frame(id)
        BY <1>1, <3>1, <3>3, <4>1, <4>3, PendingLast
      <4> QED
        BY <1>3, <4>2, <4>3
    <3> QED
      BY <3>3 DEF Precedes
  <2> QED
    BY <1>1, <2>1, ProcessedEmpty, BatchesQueued DEF FramesKept
<1>9. FramesOnce'
  <2>1. ASSUME NEW h \in Handles, NEW i \in DOMAIN outbox[h],
               NEW k \in DOMAIN m_broadcastArray'
        PROVE  m_broadcastArray'[k] \notin Carried(outbox[h][i])
    BY <1>1, <1>3, PastFrames, PendingLast DEF FramesKept, FramesOnce
  <2> QED
    BY <1>1, <2>1, ProcessedEmpty, FramesOnceQueued DEF FramesKept
<1> QED
  BY <1>6, <1>7, <1>8, <1>9 DEF FramesKept

LEMMA SendsFrameStep ==
    ASSUME TypeOK, TypeOK', FramesKept, NEW id \in Ids, SendsFrame(id)
    PROVE  FramesKept'
<1> DEFINE message == [frame |-> Frame(id)]
<1>1. /\ Pending(id) /\ NonePending'
      /\ UNCHANGED <<m_broadcastArray, received>>
  BY DEF SendsFrame
<1>2. PICK to : Queues(to, message)
  BY DEF SendsFrame
<1>3. /\ Frame(id) \in Frames /\ Frame(id).id = id
      /\ received[id] \in Int
      /\ message.frame = Frame(id) /\ "batch" \notin DOMAIN message
      /\ Carried(message) = {Frame(id)}
  <2>1. received[id] \in Int
    BY EndPointAssumption DEF TypeOK, EndPointTypeOK
  <2>2. Frame(id) \in Frames
    BY FrameType
  <2>3. Frame(id).id = id /\ message.frame = Frame(id)
        /\ "batch" \notin DOMAIN message
    BY DEF Frame
  <2> QED
    BY <2>1, <2>2, <2>3, CarriedCases
<1>4. \A frame \in Frames : Past(frame) => Past(frame)'
  BY <1>1, PastStays
<1>5. ASSUME NEW frame, frame = Frame(id) PROVE Past(frame)'
  BY <1>1, <1>3, <1>5 DEF Past, Frame, NonePending
<1> HIDE DEF message
<1>6. FramesPast'
  <2>1. \A k \in DOMAIN m_broadcastArray' : Past(m_broadcastArray[k])'
    BY <1>1, <1>4, PastFrames DEF FramesKept, Past, Pending
  <2>2. \A frame \in Carried(message) : Past(frame)'
    BY <1>3, <1>5
  <2> QED
    BY <1>2, <1>4, <2>1, <2>2, FramesPastQueued DEF FramesKept
<1>7. ArrayInOrder'
  BY <1>1 DEF FramesKept, ArrayInOrder
<1>8. BatchesInOrder'
  <2>1. ASSUME NEW h \in Handles, NEW i \in Singles(h)
        PROVE  Precedes(<<outbox[h][i].frame>>, <<message.frame>>)
    <3>1. outbox[h][i].frame \in Frames /\ Past(outbox[h][i].frame)
      BY CarriedParts, PastFrames DEF FramesKept
    <3> QED
      BY <1>1, <1>3, <3>1, PendingLast DEF Precedes
  <2>2. \A h \in Handles : \A i \in Batches(h) :
           Precedes(outbox[h][i].batch, m_broadcastArray')
    BY <1>1 DEF FramesKept, BatchesInOrder
  <2> QED
    BY <1>2, <1>3, <2>1, <2>2, BatchesQueued DEF FramesKept
<1>9. FramesOnce'
  <2>1. \A h \in Handles : \A i \in DOMAIN outbox[h] :
           /\ Carried(outbox[h][i]) \cap Carried(message) = {}
           /\ \A k \in DOMAIN m_broadcastArray' :
                 m_broadcastArray'[k] \notin Carried(outbox[h][i])
    BY <1>1, <1>3, PastFrames, PendingLast DEF FramesKept, FramesOnce
  <2>2. \A k \in DOMAIN m_broadcastArray' : m_broadcastArray'[k] \notin Carried(message)
    BY <1>1, <1>3, PastFrames, PendingLast DEF FramesKept
  <2> QED
    BY <1>2, <2>1, <2>2, FramesOnceQueued DEF FramesKept
<1> QED
  BY <1>6, <1>7, <1>8, <1>9 DEF FramesKept

LEMMA SendsBatchStep ==
    ASSUME TypeOK, TypeOK', FramesKept, SendsBatch
    PROVE  FramesKept'
<1> DEFINE message == [batch |-> m_broadcastArray]
<1>1. /\ Len(m_broadcastArray) = 2 /\ m_broadcastArray' = <<>>
      /\ UNCHANGED received /\ NonePending'
      /\ DOMAIN m_broadcastArray' = {}
  BY DEF SendsBatch
<1>2. PICK to : Queues(to, message)
  BY DEF SendsBatch
<1>3. /\ message.batch = m_broadcastArray /\ "frame" \notin DOMAIN message
      /\ Carried(message) = {m_broadcastArray[k] : k \in DOMAIN m_broadcastArray}
      /\ m_broadcastArray \in Seq(Frames)
  <2>1. m_broadcastArray \in Seq(Frames)
    BY DEF TypeOK
  <2>2. message.batch = m_broadcastArray /\ "frame" \notin DOMAIN message
    OBVIOUS
  <2> QED
    BY <2>1, <2>2, CarriedCases
<1>4. \A frame \in Frames : Past(frame) => Past(frame)'
  BY <1>1, PastStays
<1> HIDE DEF message
<1>5. FramesPast'
  <2>1. \A frame \in Carried(message) : Past(frame)'
    BY <1>3, <1>4, PastFrames DEF FramesKept
  <2> QED
    BY <1>1, <1>2, <1>4, <2>1, FramesPastQueued DEF FramesKept
<1>6. ArrayInOrder'
  BY <1>1 DEF ArrayInOrder
<1>7. BatchesInOrder'
  <2>1. \A frames : Precedes(frames, m_broadcastArray')
    BY <1>1 DEF Precedes
  <2>2. Precedes(<<message.batch[1]>>, <<message.batch[2]>>)
    BY <1>1, <1>3 DEF FramesKept, ArrayInOrder, Precedes
  <2>3. \A h \in Handles : \A i \in Batches(h) :
           Precedes(outbox[h][i].batch, message.batch)
    BY <1>3 DEF FramesKept, BatchesInOrder
  <2> QED
    BY <1>1, <1>2, <1>3, <2>1, <2>2, <2>3, BatchesQueued DEF FramesKept
<1>8. FramesOnce'
  <2>1. \A h \in Handles : \A i \in DOMAIN outbox[h] :
           Carried(outbox[h][i]) \cap Carried(message) = {}
    BY <1>3 DEF FramesKept, FramesOnce
  <2> QED
    BY <1>1, <1>2, <2>1, FramesOnceQueued DEF FramesKept
<1> QED
  BY <1>5, <1>6, <1>7, <1>8 DEF FramesKept

LEMMA FramesStep ==
    ASSUME TypeOK, TypeOK', ArrayDrained, FramesKept, [Next]_vars
    PROVE  FramesKept'
  BY FrameStep, QuietStep, AppendsStep, SendsFrameStep, SendsBatchStep
-----------------------------------------------------------------------------
(***************************************************************************)
(* The theorems.                                                           *)
(***************************************************************************)
LEMMA InitInvariant == Init => IInv
<1> SUFFICES ASSUME Init PROVE IInv
  OBVIOUS
<1>1. ArrayDrained
  BY DEF Init, ArrayDrained
<1>2. SignalsAssigned /\ SlotsOfSessions /\ SecondConnectionUnused
  BY EndPointAssumption
  DEF Init, EndPointInit, Idle, SignalsAssigned, SlotsOfSessions,
      SecondConnectionUnused
<1>3. TasksOfListed /\ ForwardedToListed /\ CrashExplained
  BY DEF Init, TasksOfListed, ForwardedToListed, Forwarded, CrashExplained
<1>4. FramesPast /\ ArrayInOrder /\ BatchesInOrder /\ FramesOnce
  BY DEF Init, WsServerInit, FramesPast, ArrayInOrder, BatchesInOrder, Batches,
      Singles, FramesOnce
<1> QED
  BY <1>1, <1>2, <1>3, <1>4, InitTypeOK DEF IInv

LEMMA InvariantStep == IInv /\ [Next]_vars => IInv'
<1> SUFFICES ASSUME IInv, [Next]_vars PROVE IInv'
  OBVIOUS
<1>1. TypeOK' /\ ArrayDrained'
  BY TypeStep DEF IInv
<1>2. SignalsAssigned'
  BY SignalsStep DEF IInv
<1>3. SlotsOfSessions'
  BY <1>1, SlotsOfSessionsStep DEF IInv
<1>4. TasksOfListed'
  BY <1>1, TasksOfListedStep DEF IInv
<1>5. ForwardedToListed' /\ SecondConnectionUnused'
  BY ListedStep DEF IInv
<1>6. CrashExplained'
  BY CrashStep DEF IInv
<1>7. FramesPast' /\ ArrayInOrder' /\ BatchesInOrder' /\ FramesOnce'
  BY <1>1, FramesStep DEF IInv, FramesKept
<1> QED
  BY <1>1, <1>2, <1>3, <1>4, <1>5, <1>6, <1>7 DEF IInv

(* The inductive invariant holds of every reachable state.                 *)
THEOREM Invariance == Spec => []IInv
  BY InitInvariant, InvariantStep, PTL DEF Spec

(* Type correctness: m_broadcastArray never holds a third frame.           *)
THEOREM TypeCorrect == Spec => []TypeOK
<1>1. IInv => TypeOK
  BY DEF IInv
<1> QED
  BY <1>1, Invariance, PTL

(* The process ends for the reasons that CrashExplained lists, a text that *)
(* Load() throws on, a lost subscriber, or a task of subscribeMessages     *)
(* that meets a -1, a destruction or a running slot, and for no other.     *)
THEOREM CrashesForKnownReasons == Spec => []CrashExplained
<1>1. IInv => CrashExplained
  BY DEF IInv
<1> QED
  BY <1>1, Invariance, PTL

(* The connection that handle_add_aggregator opens and forgets stays       *)
(* silent: no slot is installed in it and no request is forwarded to it.   *)
THEOREM UnlistedConnectionsSilent == Spec => []SecondConnectionUnused
<1>1. IInv => SecondConnectionUnused
  BY DEF IInv
<1> QED
  BY <1>1, Invariance, PTL

(* m_broadcastArray, shared by all subscribers, is handed out in batches   *)
(* of two in the order of the frames, and so are the frames of             *)
(* "latest-price", for any number of subscribers that come, go and replace *)
(* each other's slots.                                                     *)
THEOREM BatchesOrdered == Spec => []BatchesInOrder
<1>1. IInv => BatchesInOrder
  BY DEF IInv
<1> QED
  BY <1>1, Invariance, PTL

(* A frame is queued for one subscriber, in one message, or still in the   *)
(* array: no slot hands out what another one has handed out.               *)
THEOREM FramesHandedOutOnce == Spec => []FramesOnce
<1>1. IInv => FramesOnce
  BY DEF IInv
<1> QED
  BY <1>1, Invariance, PTL
=============================================================================
