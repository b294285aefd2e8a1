------------------------- MODULE DataProviderProofs -------------------------
(***************************************************************************)
(* What is proved of DataProvider for every number of sessions, messages,  *)
(* rounds and consumers' frames.                                           *)
(***************************************************************************)
EXTENDS DataProvider, TLAPS

(* A task has turns left until it ends, and none is behind it when it      *)
(* begins; a session that never was has no task, and before the first      *)
(* message of a task there are no frames.                                  *)
TasksWalk ==
    \A h \in Handles :
        /\ sender[h] \in {"started"} \cup Running => turn[h] < Turns
        /\ sender[h] \in {"absent", "started"} => turn[h] = 0
        /\ session[h] = "absent" => sender[h] = "absent"
        /\ turn[h] = 0 => wire[h] = <<>> /\ outbox[h] = <<>>

LEMMA IndexType == \A n \in Nat : IndexAt(n) \in 1..Messages
  BY DataProviderAssumption DEF IndexAt

LEMMA TurnsType == Turns \in Nat \ {0}
  BY DataProviderAssumption DEF Turns

(* What disconnect() leaves unread is a sequence of frames again.          *)
LEMMA LastFrame ==
    ASSUME NEW Frames, NEW last \in Frames, NEW unread \in Seq(Frames)
    PROVE  Append(unread, last) \in Seq(Frames) /\ <<last>> \in Seq(Frames)
  OBVIOUS

LEMMA InitTypeOK == Init => TypeOK
<1> SUFFICES ASSUME Init PROVE TypeOK
  OBVIOUS
<1>1. m_messages \in [1..Messages -> Int]
  BY TimestampAssumption DEF Init
<1>2. WsServerTypeOK({Text}, Frame)
  BY WsServerAssumption DEF Init, WsServerInit, WsServerTypeOK, SessionStates
<1>3. sender \in [Handles -> SenderStates] /\ now \in [Handles -> Nat]
  BY DEF Init, SenderStates
<1>4. turn \in [Handles -> 0..Turns]
  <2>1. 0 \in 0..Turns
    BY TurnsType
  <2> QED
    BY <2>1 DEF Init
<1>5. clockSet \in BOOLEAN
  BY DEF Init
<1>6. wire \in [Handles -> Seq(Frame)]
  <2>1. <<>> \in Seq(Frame)
    OBVIOUS
  <2> QED
    BY <2>1 DEF Init
<1> QED
  BY <1>1, <1>2, <1>3, <1>4, <1>5, <1>6 DEF TypeOK

LEMMA TypeStep == TypeOK /\ TasksWalk /\ [Next]_vars => TypeOK'
<1> SUFFICES ASSUME TypeOK, TasksWalk, [Next]_vars PROVE TypeOK'
  OBVIOUS
<1> USE WsServerAssumption
    DEF TypeOK, WsServerTypeOK, SessionStates, SenderStates, Running
<1>1. CASE UNCHANGED vars
  BY <1>1 DEF vars, wsServerVars, taskVars
<1>2. ASSUME NEW h \in Handles, onConnection(h) PROVE TypeOK'
  BY <1>2 DEF onConnection, accept
<1>3. ASSUME NEW h \in Handles, Consumer(h) PROVE TypeOK'
  <2>1. inbox' \in [Handles -> Seq({Text} \cup {CloseFrame, Eof})]
    <3>1. CASE disconnect(h)
      <4>1. PICK unread \in {Append(inbox[h], CloseFrame), Append(inbox[h], Eof),
                              <<Eof>>} :
              inbox' = [inbox EXCEPT ![h] = unread]
        BY <3>1 DEF disconnect
      <4>2. unread \in Seq({Text} \cup {CloseFrame, Eof})
        <5>1. /\ inbox[h] \in Seq({Text} \cup {CloseFrame, Eof})
              /\ CloseFrame \in {Text} \cup {CloseFrame, Eof}
              /\ Eof \in {Text} \cup {CloseFrame, Eof}
          OBVIOUS
        <5>2. /\ Append(inbox[h], CloseFrame) \in Seq({Text} \cup {CloseFrame, Eof})
              /\ Append(inbox[h], Eof) \in Seq({Text} \cup {CloseFrame, Eof})
              /\ <<Eof>> \in Seq({Text} \cup {CloseFrame, Eof})
          BY <5>1, LastFrame
        <5> QED
          BY <4>1, <5>2
      <4> QED
        BY <4>1, <4>2
    <3>2. CASE sendRequest(h, Text)
      BY <3>2 DEF sendRequest
    <3> QED
      BY <1>3, <3>1, <3>2 DEF Consumer
  <2>2. requests' \in 0..MaxRequests
    BY <1>3 DEF Consumer, sendRequest, disconnect
  <2> QED
    BY <1>3, <2>1, <2>2 DEF Consumer, sendRequest, disconnect, taskVars
<1>4. ASSUME NEW h \in Handles, onMessage(h) PROVE TypeOK'
  BY <1>4 DEF onMessage, takeRequest, taskVars
<1>5. ASSUME NEW h \in Handles, onCloseConnection(h) PROVE TypeOK'
  BY <1>5 DEF onCloseConnection, release, taskVars
<1>6. ASSUME NEW h \in Handles, handle_write_frame(h) PROVE TypeOK'
  <2>1. wire' \in [Handles -> Seq(Frame)]
    <3>1. wire[h] \o outbox[h] \in Seq(Frame)
      OBVIOUS
    <3> QED
      BY <1>6, <3>1 DEF handle_write_frame
  <2>2. outbox' \in [Handles -> Seq(Frame)]
    BY <1>6 DEF handle_write_frame, write_frame
  <2> QED
    BY <1>6, <2>1, <2>2 DEF handle_write_frame, write_frame, taskVars
<1>7. ASSUME NEW h \in Handles, handle_read_frame(h) PROVE TypeOK'
  <2>1. CASE process_close_frame(h)
    BY <1>7, <2>1 DEF handle_read_frame, process_close_frame, taskVars
  <2>2. CASE terminate(h)
    <3>1. <<>> \in Seq({Text} \cup {CloseFrame, Eof}) /\ <<>> \in Seq(Frame)
      OBVIOUS
    <3>2. /\ inbox' \in [Handles -> Seq({Text} \cup {CloseFrame, Eof})]
          /\ outbox' \in [Handles -> Seq(Frame)]
      BY <2>2, <3>1 DEF terminate
    <3> QED
      BY <1>7, <2>2, <3>2 DEF handle_read_frame, terminate, taskVars
  <2> QED
    BY <1>7, <2>1, <2>2 DEF handle_read_frame
<1>8. ASSUME NEW h \in Handles, get_con_from_hdl(h) PROVE TypeOK'
  BY <1>8 DEF get_con_from_hdl, wsServerVars
<1>9. ASSUME NEW h \in Handles, updateTimestamp_now(h) PROVE TypeOK'
  BY <1>9, DataProviderAssumption DEF updateTimestamp_now, wsServerVars
<1>10. ASSUME NEW h \in Handles, updateTimestamp_store(h) PROVE TypeOK'
  <2>1. IndexAt(turn[h]) \in 1..Messages
    BY IndexType, TurnsType
  <2>2. m_timestampDifference[IndexAt(turn[h])] \in Int
    BY <2>1, TimestampAssumption
  <2>3. now[h] + m_timestampDifference[IndexAt(turn[h])] \in Int
    BY <2>2
  <2> QED
    BY <1>10, <2>3 DEF updateTimestamp_store, wsServerVars
<1>11. ASSUME NEW h \in Handles, send(h) PROVE TypeOK'
  <2>0. turn[h] < Turns
    BY <1>11 DEF send, TasksWalk
  <2>1. [message |-> IndexAt(turn[h]), timestamp |-> m_messages[IndexAt(turn[h])]]
          \in Frame
    BY IndexType DEF Frame
  <2>2. outbox' \in [Handles -> Seq(Frame)]
    BY <1>11, <2>1 DEF send, con_send
  <2>3. turn' \in [Handles -> 0..Turns]
    BY <1>11, <2>0, TurnsType DEF send
  <2> QED
    BY <1>11, <2>2, <2>3 DEF send
<1> QED
  BY <1>1, <1>2, <1>3, <1>4, <1>5, <1>6, <1>7, <1>8, <1>9, <1>10, <1>11
  DEF Next, Server, Sender

LEMMA TasksWalkStep == TypeOK /\ TasksWalk /\ [Next]_vars => TasksWalk'
<1> SUFFICES ASSUME TypeOK, TasksWalk, [Next]_vars PROVE TasksWalk'
  OBVIOUS
<1> USE TurnsType
    DEF TypeOK, WsServerTypeOK, SessionStates, SenderStates, Running, TasksWalk
<1>1. CASE UNCHANGED vars
  BY <1>1 DEF vars, wsServerVars, taskVars
<1>2. ASSUME NEW h \in Handles, onConnection(h) PROVE TasksWalk'
  BY <1>2 DEF onConnection, accept
<1>3. ASSUME NEW h \in Handles, Consumer(h) PROVE TasksWalk'
  BY <1>3 DEF Consumer, sendRequest, disconnect, taskVars
<1>4. ASSUME NEW h \in Handles, onMessage(h) PROVE TasksWalk'
  BY <1>4 DEF onMessage, takeRequest, taskVars
<1>5. ASSUME NEW h \in Handles, onCloseConnection(h) PROVE TasksWalk'
  BY <1>5 DEF onCloseConnection, release, taskVars
<1>6. ASSUME NEW h \in Handles, handle_write_frame(h) PROVE TasksWalk'
  BY <1>6 DEF handle_write_frame, write_frame, taskVars
<1>7. ASSUME NEW h \in Handles, handle_read_frame(h) PROVE TasksWalk'
  BY <1>7 DEF handle_read_frame, process_close_frame, terminate, taskVars
<1>8. ASSUME NEW h \in Handles, get_con_from_hdl(h) PROVE TasksWalk'
  BY <1>8 DEF get_con_from_hdl, wsServerVars
<1>9. ASSUME NEW h \in Handles, updateTimestamp_now(h) PROVE TasksWalk'
  BY <1>9 DEF updateTimestamp_now, wsServerVars
<1>10. ASSUME NEW h \in Handles, updateTimestamp_store(h) PROVE TasksWalk'
  BY <1>10 DEF updateTimestamp_store, wsServerVars
<1>11. ASSUME NEW h \in Handles, send(h) PROVE TasksWalk'
  BY <1>11 DEF send, con_send
<1> QED
  BY <1>1, <1>2, <1>3, <1>4, <1>5, <1>6, <1>7, <1>8, <1>9, <1>10, <1>11
  DEF Next, Server, Sender

(***************************************************************************)
(* What a step does to the frames a session was sent: nothing, or the loss *)
(* of what was queued at the session's end, or one frame more.             *)
(***************************************************************************)
FrameOf(h) ==
    [message |-> IndexAt(turn[h]), timestamp |-> m_messages[IndexAt(turn[h])]]

Kept(h) == Sent(h)' = Sent(h)
Cut(h) == Sent(h)' = wire[h] /\ session'[h] = "closed"
Added(h) ==
    /\ send(h) /\ session[h] = "open"
    /\ Sent(h)' = Append(Sent(h), FrameOf(h))

LEMMA SentType == TypeOK => \A h \in Handles : Sent(h) \in Seq(Frame)
  BY DEF TypeOK, WsServerTypeOK, Sent

LEMMA TimesType ==
    ASSUME TypeOK, NEW h \in Handles, NEW k \in 1..Len(Sent(h))
    PROVE  /\ Sent(h)[k].timestamp \in Int
           /\ Sent(h)[k].message \in 1..Messages
           /\ m_timestampDifference[Sent(h)[k].message] \in Int
<1>1. ASSUME NEW s \in Seq(Frame), NEW i \in 1..Len(s) PROVE s[i] \in Frame
  BY <1>1
<1>2. Sent(h) \in Seq(Frame)
  BY SentType
<1>3. Sent(h)[k] \in Frame
  BY <1>1, <1>2
<1> QED
  BY <1>3, TimestampAssumption DEF Frame

LEMMA FrameType == TypeOK => \A h \in Handles : FrameOf(h) \in Frame
  BY IndexType DEF TypeOK, FrameOf, Frame

LEMMA AppendConcat ==
    ASSUME NEW s \in Seq(Frame), NEW t \in Seq(Frame), NEW e \in Frame
    PROVE  s \o Append(t, e) = Append(s \o t, e)
  OBVIOUS

LEMMA ConcatFirst ==
    ASSUME NEW s \in Seq(Frame), NEW t \in Seq(Frame)
    PROVE  /\ Len(s) <= Len(s \o t)
           /\ \A k \in 1..Len(s) : s[k] = (s \o t)[k]
  OBVIOUS

(* The frames written are the first of the frames sent.                    *)
LEMMA WrittenFirst ==
    ASSUME TypeOK, NEW h \in Handles
    PROVE  /\ wire[h] \in Seq(Frame)
           /\ Len(wire[h]) <= Len(Sent(h))
           /\ \A k \in 1..Len(wire[h]) : wire[h][k] = Sent(h)[k]
<1>1. wire[h] \in Seq(Frame) /\ outbox[h] \in Seq(Frame)
  BY DEF TypeOK, WsServerTypeOK
<1> QED
  BY <1>1, ConcatFirst DEF Sent

(* After one frame more: the old ones, and it.                             *)
LEMMA AddedFrames ==
    ASSUME TypeOK, NEW h \in Handles, Added(h)
    PROVE  /\ Len(Sent(h)') = Len(Sent(h)) + 1
           /\ \A k \in 1..Len(Sent(h)) : Sent(h)'[k] = Sent(h)[k]
           /\ Sent(h)'[Len(Sent(h)) + 1] = FrameOf(h)
<1>1. Sent(h) \in Seq(Frame) /\ FrameOf(h) \in Frame
  BY SentType, FrameType
<1>2. Sent(h)' = Append(Sent(h), FrameOf(h))
  BY DEF Added
<1> QED
  BY <1>1, <1>2

LEMMA SentStep ==
    ASSUME TypeOK, Next, NEW d \in Handles
    PROVE  Kept(d) \/ Cut(d) \/ Added(d)
<1>0. wire[d] \in Seq(Frame) /\ outbox[d] \in Seq(Frame)
  BY DEF TypeOK, WsServerTypeOK
<1>1. ASSUME wire'[d] = wire[d], outbox'[d] = outbox[d] PROVE Kept(d)
  BY <1>1 DEF Kept, Sent
<1> USE DEF TypeOK, WsServerTypeOK
<1>2. ASSUME NEW h \in Handles, onConnection(h) \/ Consumer(h) PROVE Kept(d)
  BY <1>1, <1>2
  DEF onConnection, accept, Consumer, sendRequest, disconnect, taskVars
<1>3. ASSUME NEW h \in Handles, onMessage(h) \/ onCloseConnection(h)
      PROVE Kept(d)
  BY <1>1, <1>3 DEF onMessage, onCloseConnection
<1>4. ASSUME NEW h \in Handles, handle_write_frame(h) PROVE Kept(d)
  <2>1. CASE h = d
    <3>1. wire'[d] = wire[d] \o outbox[d] /\ outbox'[d] = <<>>
      BY <1>4, <2>1 DEF handle_write_frame, write_frame
    <3>2. (wire[d] \o outbox[d]) \o <<>> = wire[d] \o outbox[d]
      BY <1>0
    <3> QED
      BY <3>1, <3>2 DEF Kept, Sent
  <2>2. CASE h # d
    BY <1>1, <1>4, <2>2 DEF handle_write_frame, write_frame
  <2> QED
    BY <2>1, <2>2
<1>5. ASSUME NEW h \in Handles, handle_read_frame(h) PROVE Kept(d) \/ Cut(d)
  <2>1. CASE process_close_frame(h) \/ h # d
    BY <1>1, <1>5, <2>1 DEF handle_read_frame, process_close_frame, terminate
  <2>2. CASE terminate(h) /\ h = d
    <3>1. /\ wire'[d] = wire[d] /\ outbox'[d] = <<>>
          /\ session'[d] = "closed"
      BY <1>5, <2>2 DEF handle_read_frame, terminate
    <3>2. wire[d] \o <<>> = wire[d]
      BY <1>0
    <3> QED
      BY <3>1, <3>2 DEF Cut, Sent
  <2> QED
    BY <1>5, <2>1, <2>2 DEF handle_read_frame
<1>6. ASSUME NEW h \in Handles,
             get_con_from_hdl(h) \/ updateTimestamp_now(h)
             \/ updateTimestamp_store(h)
      PROVE  Kept(d)
  BY <1>1, <1>6
  DEF get_con_from_hdl, updateTimestamp_now, updateTimestamp_store, wsServerVars
<1>7. ASSUME NEW h \in Handles, send(h) PROVE Kept(d) \/ Added(d)
  <2>1. CASE h = d /\ session[d] = "open"
    <3>1. wire'[d] = wire[d] /\ outbox'[d] = Append(outbox[d], FrameOf(d))
      BY <1>7, <2>1 DEF send, con_send, FrameOf
    <3>2. wire[d] \o Append(outbox[d], FrameOf(d))
            = Append(wire[d] \o outbox[d], FrameOf(d))
      <4>1. FrameOf(d) \in Frame
        BY FrameType
      <4> HIDE DEF TypeOK, WsServerTypeOK
      <4> QED
        BY <1>0, <4>1, AppendConcat
    <3> QED
      BY <1>7, <2>1, <3>1, <3>2 DEF Added, Sent
  <2>2. CASE h # d \/ session[h] # "open"
    BY <1>1, <1>7, <2>2 DEF send, con_send
  <2> QED
    BY <2>1, <2>2
<1> QED
  BY <1>2, <1>3, <1>4, <1>5, <1>6, <1>7 DEF Next, Server, Sender

(* Only a send of its own moves the walk of a task, and a session that is  *)
(* open was open before, or its walk has not begun.                        *)
LEMMA TurnStep ==
    ASSUME TypeOK, Next, NEW d \in Handles
    PROVE  turn'[d] = turn[d] \/ (send(d) /\ turn'[d] = turn[d] + 1)
  BY DEF TypeOK, Next, Server, Sender, onConnection, Consumer, onMessage,
         onCloseConnection, handle_write_frame, handle_read_frame,
         get_con_from_hdl, updateTimestamp_now, updateTimestamp_store, send,
         taskVars

LEMMA OpenStep ==
    ASSUME TypeOK, TasksWalk, Next, NEW d \in Handles, session'[d] = "open"
    PROVE  session[d] = "open" \/ (session[d] = "absent" /\ ~send(d))
<1> USE DEF TypeOK, WsServerTypeOK, SessionStates
<1>1. session[d] = "absent" => ~send(d)
  BY DEF TasksWalk, send
<1>2. session[d] = "open" \/ session[d] = "absent"
  BY DEF Next, Server, Sender, onConnection, accept, Consumer, sendRequest,
         disconnect, onMessage, takeRequest, onCloseConnection, release,
         handle_write_frame, write_frame, handle_read_frame,
         process_close_frame, terminate, get_con_from_hdl,
         updateTimestamp_now, updateTimestamp_store, send, wsServerVars
<1> QED
  BY <1>1, <1>2

LEMMA CompleteStep ==
    ASSUME TypeOK, TasksWalk, FramesComplete, Next PROVE FramesComplete'
<1> SUFFICES ASSUME NEW d \in Handles, session'[d] = "open"
             PROVE  Len(Sent(d)') = turn'[d]
  BY DEF FramesComplete
<1>1. CASE Added(d)
  <2>1. Len(Sent(d)) = turn[d] /\ turn'[d] = turn[d] + 1
    BY <1>1 DEF Added, send, FramesComplete, TypeOK
  <2> QED
    BY <1>1, <2>1, AddedFrames
<1>2. CASE Kept(d) /\ session[d] = "absent"
  <2>1. turn[d] = 0 /\ turn'[d] = 0
    BY <1>2, TurnStep, OpenStep DEF TasksWalk
  <2>2. Sent(d) = <<>> \o <<>>
    BY <2>1 DEF TasksWalk, Sent
  <2> QED
    BY <1>2, <2>1, <2>2 DEF Kept
<1>3. CASE Kept(d) /\ session[d] = "open"
  <2>1. ~send(d)
    <3>1. ASSUME send(d) PROVE FALSE
      <4>1. outbox'[d] = Append(outbox[d], FrameOf(d)) /\ wire'[d] = wire[d]
        BY <1>3, <3>1 DEF send, con_send, FrameOf, TypeOK, WsServerTypeOK
      <4>2. Sent(d)' = Append(Sent(d), FrameOf(d))
        <5>1. /\ wire[d] \in Seq(Frame) /\ outbox[d] \in Seq(Frame)
              /\ FrameOf(d) \in Frame
          BY FrameType DEF TypeOK, WsServerTypeOK
        <5>2. wire[d] \o Append(outbox[d], FrameOf(d))
                = Append(wire[d] \o outbox[d], FrameOf(d))
          BY <5>1, AppendConcat
        <5> QED
          BY <4>1, <5>2 DEF Sent
      <4>3. Added(d)
        BY <1>3, <3>1, <4>2 DEF Added
      <4> QED
        BY <1>3, <4>3, AddedFrames, SentType DEF Kept
    <3> QED
      BY <3>1
  <2> QED
    BY <1>3, <2>1, TurnStep DEF Kept, FramesComplete
<1> QED
  BY <1>1, <1>2, <1>3, SentStep, OpenStep DEF Cut

LEMMA OrderStep ==
    ASSUME TypeOK, FramesComplete, FramesInOrder, Next PROVE FramesInOrder'
<1> SUFFICES ASSUME NEW d \in Handles, NEW k \in 1..Len(Sent(d)')
             PROVE  Sent(d)'[k].message = IndexAt(k - 1)
  BY DEF FramesInOrder
<1>1. CASE Kept(d)
  BY <1>1 DEF Kept, FramesInOrder
<1>2. CASE Cut(d)
  <2>1. k \in 1..Len(wire[d]) /\ k \in 1..Len(Sent(d))
    BY <1>2, WrittenFirst, SentType DEF Cut
  <2> QED
    BY <1>2, <2>1, WrittenFirst DEF Cut, FramesInOrder
<1>3. CASE Added(d)
  <2>1. CASE k \in 1..Len(Sent(d))
    BY <1>3, <2>1, AddedFrames DEF FramesInOrder
  <2>2. CASE k = Len(Sent(d)) + 1
    <3>1. Len(Sent(d)) = turn[d] /\ turn[d] \in Nat
      BY <1>3, TurnsType DEF Added, FramesComplete, TypeOK
    <3>2. Sent(d)'[Len(Sent(d)) + 1].message = IndexAt(turn[d])
      <4>1. Sent(d)'[Len(Sent(d)) + 1] = FrameOf(d)
        BY <1>3, AddedFrames
      <4> QED
        BY <4>1 DEF FrameOf
    <3>3. k - 1 = turn[d]
      BY <2>2, <3>1
    <3> QED
      BY <2>2, <3>2, <3>3
  <2> QED
    BY <1>3, <2>1, <2>2, AddedFrames, SentType
<1> QED
  BY <1>1, <1>2, <1>3, SentStep

(***************************************************************************)
(* The times.  While the clock is not set, a task that is alone finds what *)
(* it stored, and a sleep lies between what it read for the frames it has  *)
(* sent and what it reads for the next one.                                *)
(***************************************************************************)
Alone(h) == \A g \in Handles \ {h} : sender[g] = "absent"

Difference(frame) == m_timestampDifference[frame.message]

ReadBefore(h, time) ==
    \A k \in 1..Len(Sent(h)) :
        Sent(h)[k].timestamp - Difference(Sent(h)[k]) <= time

OwnTime ==
    \A h \in Handles : Alone(h) /\ ~clockSet =>
        /\ sender[h] = "ready" => ReadBefore(h, now[h])
        /\ sender[h] \in {"read", "stamped"} => ReadBefore(h, now[h] - Sleep)
        /\ sender[h] = "stamped" =>
              m_messages[IndexAt(turn[h])]
                = now[h] + m_timestampDifference[IndexAt(turn[h])]

LEMMA AloneStep ==
    ASSUME TypeOK, Next, NEW d \in Handles, Alone(d)'
    PROVE  Alone(d)
<1> SUFFICES ASSUME NEW g \in Handles \ {d} PROVE sender[g] = "absent"
  BY DEF Alone
<1>1. sender'[g] = "absent"
  BY DEF Alone
<1> QED
  BY <1>1
  DEF TypeOK, Next, Server, Sender, onConnection, Consumer, onMessage,
      onCloseConnection, handle_write_frame, handle_read_frame,
      get_con_from_hdl, updateTimestamp_now, updateTimestamp_store, send,
      taskVars

(* The frames of a session after a step are old ones, and perhaps one more.*)
LEMMA FramesStep ==
    ASSUME TypeOK, Next, NEW d \in Handles, NEW k \in 1..Len(Sent(d)')
    PROVE  \/ k \in 1..Len(Sent(d)) /\ Sent(d)'[k] = Sent(d)[k]
           \/ /\ Added(d) /\ k = Len(Sent(d)) + 1
              /\ Sent(d)'[k] = FrameOf(d)
<1>0. Sent(d) \in Seq(Frame)
  BY SentType
<1>1. CASE Kept(d)
  BY <1>1 DEF Kept
<1>2. CASE Cut(d)
  BY <1>0, <1>2, WrittenFirst DEF Cut
<1>3. CASE Added(d)
  <2>1. CASE k \in 1..Len(Sent(d))
    BY <1>3, <2>1, AddedFrames
  <2>2. CASE k = Len(Sent(d)) + 1
    BY <1>3, <2>2, AddedFrames
  <2> QED
    BY <1>0, <1>3, <2>1, <2>2, AddedFrames
<1> QED
  BY <1>1, <1>2, <1>3, SentStep

(* While it is alone, only its own task moves, stamps and reads the clock. *)
LEMMA AloneMoves ==
    ASSUME TypeOK, Next, NEW d \in Handles, Alone(d)'
    PROVE  \/ /\ \/ sender'[d] = sender[d]
                 \/ sender'[d] \in {"started", "failed"}
                 \/ sender[d] = "started"
              /\ turn'[d] = turn[d] /\ now'[d] = now[d]
              /\ m_messages' = m_messages /\ clockSet' = clockSet
           \/ updateTimestamp_now(d) \/ updateTimestamp_store(d) \/ send(d)
<1>1. ASSUME NEW g \in Handles \ {d} PROVE ~Sender(g)
  BY <1>1, AloneStep
  DEF Alone, Sender, get_con_from_hdl, updateTimestamp_now,
      updateTimestamp_store, send
<1> QED
  BY <1>1
  DEF TypeOK, Next, Server, Sender, onConnection, Consumer, onMessage,
      onCloseConnection, handle_write_frame, handle_read_frame,
      get_con_from_hdl, taskVars

LEMMA OwnTimeStep == ASSUME TypeOK, TasksWalk, OwnTime, Next PROVE OwnTime'
<1> SUFFICES ASSUME NEW d \in Handles, Alone(d)', ~clockSet'
    PROVE  /\ sender'[d] = "ready" => ReadBefore(d, now[d])'
           /\ sender'[d] \in {"read", "stamped"} => ReadBefore(d, now[d] - Sleep)'
           /\ sender'[d] = "stamped" =>
                 m_messages'[IndexAt(turn'[d])]
                   = now'[d] + m_timestampDifference[IndexAt(turn'[d])]
  BY DEF OwnTime
<1>0. Alone(d) /\ now[d] \in Nat /\ Sleep \in Nat
  BY AloneStep, TimestampAssumption DEF TypeOK
<1>1. ASSUME ~Added(d), NEW k \in 1..Len(Sent(d)')
      PROVE  k \in 1..Len(Sent(d)) /\ Sent(d)'[k] = Sent(d)[k]
  BY <1>1, FramesStep
<1>2. CASE /\ \/ sender'[d] = sender[d]
              \/ sender'[d] \in {"started", "failed"}
              \/ sender[d] = "started"
           /\ turn'[d] = turn[d] /\ now'[d] = now[d]
           /\ m_messages' = m_messages /\ clockSet' = clockSet
  <2>1. ~Added(d)
    BY <1>2 DEF Added, send, TypeOK
  <2>2. CASE sender[d] = "started"
    <3>1. Sent(d) = <<>> \o <<>>
      BY <2>2 DEF TasksWalk, Sent
    <3>2. \A k \in 1..Len(Sent(d)') : FALSE
      BY <1>1, <2>1, <3>1
    <3>3. sender'[d] # "stamped"
      BY <1>2, <2>2 DEF TypeOK, Next, Server, Sender, onConnection, Consumer,
         onMessage, onCloseConnection, handle_write_frame, handle_read_frame,
         get_con_from_hdl, updateTimestamp_now, updateTimestamp_store, send,
         taskVars
    <3> QED
      BY <3>2, <3>3 DEF ReadBefore
  <2>3. CASE sender[d] # "started" /\ sender'[d] = sender[d]
    <3>1. ASSUME NEW time, ReadBefore(d, time)
          PROVE  \A k \in 1..Len(Sent(d)') :
                    Sent(d)'[k].timestamp - Difference(Sent(d)'[k]) <= time
      BY <1>1, <2>1, <3>1 DEF ReadBefore
    <3> QED
      BY <1>0, <1>2, <2>3, <3>1 DEF OwnTime, ReadBefore
  <2> QED
    BY <1>2, <2>2, <2>3
<1>3. CASE updateTimestamp_now(d)
  <2>1. ~Added(d) /\ sender[d] = "ready" /\ ~clockSet /\ sender'[d] = "read"
    BY <1>3 DEF Added, send, updateTimestamp_now, TypeOK
  <2>2. now'[d] \in Nat /\ (turn[d] > 0 => now[d] + Sleep <= now'[d])
    <3>1. PICK time \in Times :
            /\ now' = [now EXCEPT ![d] = time]
            /\ clockSet' = (clockSet \/ (turn[d] > 0 /\ time < now[d] + Sleep))
      BY <1>3 DEF updateTimestamp_now
    <3>2. time \in Nat /\ now'[d] = time
      BY <3>1, DataProviderAssumption DEF TypeOK
    <3>3. turn[d] > 0 => ~(time < now[d] + Sleep)
      BY <3>1
    <3> QED
      BY <1>0, <3>2, <3>3
  <2>3. ASSUME NEW k \in 1..Len(Sent(d)')
        PROVE  Sent(d)'[k].timestamp - Difference(Sent(d)'[k]) <= now'[d] - Sleep
    <3>1. k \in 1..Len(Sent(d)) /\ Sent(d)'[k] = Sent(d)[k]
      BY <1>1, <2>1
    <3>2. turn[d] > 0
      <4>1. Len(Sent(d)) # 0
        BY <3>1
      <4>2. ASSUME turn[d] = 0 PROVE Sent(d) = <<>> \o <<>>
        BY <4>2 DEF TasksWalk, Sent
      <4> QED
        BY <4>1, <4>2, TurnsType DEF TypeOK
    <3>3. Sent(d)[k].timestamp - Difference(Sent(d)[k]) <= now[d]
      BY <1>0, <2>1, <3>1 DEF OwnTime, ReadBefore
    <3>4. Sent(d)[k].timestamp - Difference(Sent(d)[k]) \in Int
      BY <3>1, TimesType DEF Difference
    <3> QED
      BY <1>0, <2>2, <3>1, <3>2, <3>3, <3>4
  <2> QED
    BY <2>1, <2>3 DEF ReadBefore
<1>4. CASE updateTimestamp_store(d)
  <2>1. ~Added(d) /\ ~clockSet
    BY <1>4 DEF Added, send, updateTimestamp_store
  <2>2. /\ sender[d] = "read" /\ sender'[d] = "stamped"
        /\ turn'[d] = turn[d] /\ now'[d] = now[d]
        /\ m_messages'[IndexAt(turn[d])]
              = now[d] + m_timestampDifference[IndexAt(turn[d])]
    BY <1>4, IndexType, TurnsType DEF updateTimestamp_store, TypeOK
  <2>3. \A k \in 1..Len(Sent(d)') :
            Sent(d)'[k].timestamp - Difference(Sent(d)'[k]) <= now[d] - Sleep
    BY <1>0, <1>1, <2>1, <2>2 DEF OwnTime, ReadBefore
  <2> QED
    BY <2>2, <2>3 DEF ReadBefore
<1>5. CASE send(d)
  <2>1. /\ sender[d] = "stamped" /\ sender'[d] \in {"ready", "done"}
        /\ now'[d] = now[d] /\ ~clockSet
    BY <1>5 DEF send, TypeOK
  <2>2. ASSUME NEW k \in 1..Len(Sent(d)')
        PROVE  Sent(d)'[k].timestamp - Difference(Sent(d)'[k]) <= now[d]
    <3>1. CASE k \in 1..Len(Sent(d)) /\ Sent(d)'[k] = Sent(d)[k]
      <4>1. Sent(d)[k].timestamp - Difference(Sent(d)[k]) <= now[d] - Sleep
        BY <1>0, <2>1, <3>1 DEF OwnTime, ReadBefore
      <4>2. Sent(d)[k].timestamp - Difference(Sent(d)[k]) \in Int
        BY <3>1, TimesType DEF Difference
      <4> QED
        BY <1>0, <3>1, <4>1, <4>2
    <3>2. CASE Sent(d)'[k] = FrameOf(d)
      <4>1. m_messages[IndexAt(turn[d])]
              = now[d] + m_timestampDifference[IndexAt(turn[d])]
        BY <1>0, <2>1 DEF OwnTime
      <4>2. m_timestampDifference[IndexAt(turn[d])] \in Int
        BY IndexType, TurnsType, TimestampAssumption DEF TypeOK
      <4>3. FrameOf(d).timestamp - Difference(FrameOf(d))
              = m_messages[IndexAt(turn[d])] - m_timestampDifference[IndexAt(turn[d])]
        BY DEF FrameOf, Difference
      <4> QED
        BY <1>0, <3>2, <4>1, <4>2, <4>3
    <3> QED
      BY <3>1, <3>2, FramesStep
  <2> QED
    BY <2>1, <2>2 DEF ReadBefore
<1> QED
  BY <1>2, <1>3, <1>4, <1>5, AloneMoves

LEMMA SetForever == ASSUME TypeOK, Next, clockSet PROVE clockSet'
  BY DEF TypeOK, Next, Server, Sender, onConnection, Consumer, onMessage,
         onCloseConnection, handle_write_frame, handle_read_frame,
         get_con_from_hdl, updateTimestamp_now, updateTimestamp_store, send,
         taskVars

LEMMA FreshStep == ASSUME TypeOK, OwnTime, FreshWhenAlone, Next PROVE FreshWhenAlone'
<1> SUFFICES ASSUME NEW d \in Handles, Alone(d)', ~clockSet',
                    NEW k \in 1..(Len(Sent(d)') - 1)
             PROVE  Sent(d)'[k].timestamp < Sent(d)'[k + 1].timestamp
  BY DEF FreshWhenAlone, Alone
<1>0. /\ Alone(d) /\ ~clockSet
      /\ Sent(d) \in Seq(Frame) /\ k \in Nat
  BY AloneStep, SentType, SetForever
<1>1. Len(Sent(d)') \in Nat
  BY SentStep, AddedFrames, WrittenFirst, <1>0 DEF Kept, Cut
<1>2. k \in 1..Len(Sent(d)') /\ k + 1 \in 1..Len(Sent(d)')
  BY <1>0, <1>1
<1>3. CASE /\ k \in 1..Len(Sent(d)) /\ Sent(d)'[k] = Sent(d)[k]
           /\ k + 1 \in 1..Len(Sent(d)) /\ Sent(d)'[k + 1] = Sent(d)[k + 1]
  <2>1. k \in 1..(Len(Sent(d)) - 1)
    BY <1>0, <1>3
  <2> QED
    BY <1>0, <1>3, <2>1 DEF FreshWhenAlone, Alone
<1>4. CASE /\ k \in 1..Len(Sent(d)) /\ Sent(d)'[k] = Sent(d)[k]
           /\ Added(d) /\ Sent(d)'[k + 1] = FrameOf(d)
  <2> DEFINE i == IndexAt(turn[d])
             j == Sent(d)[k].message
  <2>0. sender[d] = "stamped" /\ now[d] \in Nat
    BY <1>4 DEF Added, send, TypeOK
  <2>1. FrameOf(d).timestamp = now[d] + m_timestampDifference[i]
    BY <1>0, <2>0 DEF OwnTime, FrameOf
  <2>2. Sent(d)[k].timestamp - m_timestampDifference[j] <= now[d] - Sleep
    BY <1>0, <1>4, <2>0 DEF OwnTime, ReadBefore, Difference
  <2>3. m_timestampDifference[j] - m_timestampDifference[i] < Sleep
    <3>1. i \in 1..Messages
      BY IndexType, TurnsType DEF TypeOK
    <3>2. j \in 1..Messages
      BY <1>4, TimesType
    <3> QED
      BY <3>1, <3>2, TimestampAssumption
  <2>4. /\ Sent(d)[k].timestamp \in Int /\ Sleep \in Int
        /\ m_timestampDifference[i] \in Int /\ m_timestampDifference[j] \in Int
    <3>1. i \in 1..Messages
      BY IndexType, TurnsType DEF TypeOK
    <3> HIDE DEF i
    <3> QED
      BY <1>4, <3>1, TimesType, TimestampAssumption
  <2> HIDE DEF i, j
  <2>5. Sent(d)[k].timestamp < now[d] + m_timestampDifference[i]
    BY <2>0, <2>2, <2>3, <2>4
  <2> QED
    BY <1>4, <2>1, <2>5
<1> QED
  BY <1>0, <1>2, <1>3, <1>4, FramesStep

-----------------------------------------------------------------------------
(***************************************************************************)
(* The inductive invariant.                                                *)
(***************************************************************************)
IInv ==
    /\ TypeOK
    /\ TasksWalk
    /\ FramesComplete
    /\ FramesInOrder
    /\ OwnTime
    /\ FreshWhenAlone

LEMMA InitIInv == Init => IInv
<1> SUFFICES ASSUME Init PROVE IInv
  OBVIOUS
<1>1. \A h \in Handles : Sent(h) = <<>>
  <2>1. <<>> \o <<>> = <<>>
    OBVIOUS
  <2> QED
    BY <2>1 DEF Init, WsServerInit, Sent
<1>2. TypeOK
  BY InitTypeOK
<1>3. TasksWalk /\ FramesComplete /\ OwnTime
  BY <1>1, TurnsType
  DEF Init, WsServerInit, TasksWalk, Running, FramesComplete, OwnTime
<1>4. FramesInOrder /\ FreshWhenAlone
  BY <1>1 DEF FramesInOrder, FreshWhenAlone
<1> QED
  BY <1>2, <1>3, <1>4 DEF IInv

LEMMA Stutter == IInv /\ UNCHANGED vars => IInv'
<1> SUFFICES ASSUME IInv, UNCHANGED vars PROVE IInv'
  OBVIOUS
<1>1. \A h \in Handles : Sent(h)' = Sent(h)
  BY DEF vars, wsServerVars, Sent
<1>2. TypeOK' /\ TasksWalk'
  BY TypeStep, TasksWalkStep DEF IInv
<1> USE <1>1 DEF IInv, vars, wsServerVars, taskVars
<1>3. FramesComplete' /\ FramesInOrder' /\ FreshWhenAlone'
  BY DEF FramesComplete, FramesInOrder, FreshWhenAlone
<1>4. OwnTime'
  BY DEF OwnTime, Alone, ReadBefore
<1> QED
  BY <1>2, <1>3, <1>4

LEMMA IInvStep == IInv /\ [Next]_vars => IInv'
<1>1. ASSUME IInv, Next PROVE IInv'
  BY <1>1, TypeStep, TasksWalkStep, CompleteStep, OrderStep, OwnTimeStep,
     FreshStep DEF IInv
<1> QED
  BY <1>1, Stutter

(* The invariant holds in every reachable state.                           *)
THEOREM Invariance == Spec => []IInv
  BY InitIInv, IInvStep, PTL DEF Spec

(* Every variable keeps its type: no loop of a task runs past the rounds.  *)
THEOREM TypeCorrect == Spec => []TypeOK
<1>1. IInv => TypeOK
  BY DEF IInv
<1> QED
  BY <1>1, Invariance, PTL

(* Every session gets the list in its order, round after round.            *)
THEOREM OrderKept == Spec => []FramesInOrder
<1>1. IInv => FramesInOrder
  BY DEF IInv
<1> QED
  BY <1>1, Invariance, PTL

(* No frame an open session was sent is missing.                           *)
THEOREM NothingLost == Spec => []FramesComplete
<1>1. IInv => FramesComplete
  BY DEF IInv
<1> QED
  BY <1>1, Invariance, PTL

(* The times a session without company gets increase for any differences   *)
(* shorter than a sleep, while the clock is not set.                       *)
THEOREM TimesIncrease == Spec => []FreshWhenAlone
<1>1. IInv => FreshWhenAlone
  BY DEF IInv
<1> QED
  BY <1>1, Invariance, PTL
=============================================================================
